----------------------------- MODULE Governance -----------------------------
(***************************************************************************)
(* x/governance: proposals with a deposit period and a voting period,      *)
(* stake-weighted votes, the tally and the execution in the EndBlocker,    *)
(* and what becomes of the deposits.                                       *)
(*                                                                         *)
(* Votes weigh delegation shares, to whatever validator, and the quorum is *)
(* a ratio to the bonded tokens.  x/staking moves the two apart (a slash   *)
(* takes tokens and leaves shares, a jailed validator's tokens are not     *)
(* bonded), so that they are two variables here and neither bounds the     *)
(* other.                                                                  *)
(*                                                                         *)
(* The EndBlocker's loop over the proposals is one step per proposal       *)
(* (`cursor`); no message is executed between two of them.  There is one   *)
(* denomination.  The messages of a proposal take effect together or not   *)
(* at all (CacheContext), so that one stands for the list: an UpdateParams *)
(* of this module, or a message of another module, which may fail.         *)
(***************************************************************************)
EXTENDS LegacyDec, FiniteSets, Functions

CONSTANTS Users,          \* accounts, as numbers in the order of their addresses
          Amounts,        \* deposits a message may carry, 0 among them or not
          Initials,       \* initial deposits
          Ballots,        \* votes: halves of the weight given to each option
          Shares,         \* delegation shares an account may have
          Delegators,     \* accounts whose shares change while votes are open
          BondedTokens,   \* totals of bonded tokens x/staking may report
          Unit,           \* units of a decimal in 1
          ParamChoices,   \* parameters: min, voting, quorum, threshold, veto
          Other,          \* a proposal with a message of another module
          Contents,       \* what proposals carry: new parameters or Other
          InitShares,     \* shares at the start
          DefaultDeposit, \* DefaultDepositPeriodDays
          Funds,          \* coins every account starts with
          MaxProposals,   \* bound: proposals submitted
          LastSubmit,     \* bound: the last block with a submission
          MaxTime         \* bound: the time stands still from here on

Options == {"yes", "no", "veto", "abstain"}

ASSUME GovernanceAssumption ==
    /\ Users \subseteq Nat /\ IsFiniteSet(Users) /\ Delegators \subseteq Users
    /\ Amounts \subseteq Nat /\ Initials \subseteq Nat
    /\ Shares \subseteq Nat /\ BondedTokens \subseteq Nat /\ Unit \in Nat \ {0}
    /\ \A b \in Ballots : /\ b \in [Options -> 0..2]
                          /\ b["yes"] + b["no"] + b["veto"] + b["abstain"] = 2
    /\ Contents \subseteq ParamChoices \cup {Other} /\ InitShares \in [Users -> Shares]
    /\ Other \notin ParamChoices
    /\ ParamChoices \subseteq [min : Nat, voting : Int, quorum : Int, threshold : Int, veto : Int]
    /\ {DefaultDeposit, Funds, MaxProposals, LastSubmit, MaxTime} \subseteq Nat

VARIABLES proposals,  \* Keeper.Proposals
          deposits,   \* Keeper.Deposits: deposits[i][u]
          votes,      \* Keeper.Votes: votes[i][u], a ballot or NoVote
          params,     \* Keeper.Params
          nextId,     \* Keeper.ProposalID
          shares,     \* delegation shares of the accounts, whole ones
          bonded,     \* TotalBondedTokens
          bank,       \* balances of the accounts
          moduleBal,  \* balance of the governance module account
          now,        \* block time
          cursor,     \* 0, or the proposal the EndBlocker has come to
          refunded,   \* history: what refundDeposits has paid back
          burned      \* history: what was burned for a proposal

govVars == <<proposals, deposits, votes, params, nextId>>
bankVars == <<shares, bonded, bank, moduleBal, refunded, burned>>
vars == <<govVars, bankVars, now, cursor>>

Ids == 1..MaxProposals
NoVote == [o \in Options |-> 0]
Absent == [status |-> "absent", total |-> 0, depositEnd |-> 0, votingEnd |-> 0, content |-> Other]

Final(i) == proposals[i].status \in {"passed", "rejected", "failed"}

Init == /\ proposals = [i \in Ids |-> Absent]
        /\ deposits = [i \in Ids |-> [u \in Users |-> 0]]
        /\ votes = [i \in Ids |-> [u \in Users |-> NoVote]]
        /\ params \in ParamChoices
        /\ nextId = 1
        /\ shares = InitShares
        /\ bonded \in BondedTokens
        /\ bank = [u \in Users |-> Funds]
        /\ moduleBal = 0
        /\ now = 0
        /\ cursor = 0
        /\ refunded = [i \in Ids |-> [u \in Users |-> 0]]
        /\ burned = [i \in Ids |-> 0]

-----------------------------------------------------------------------------
(* Messages.                                                               *)

GetDepositPeriod == IF params.voting < 3 THEN DefaultDeposit ELSE params.voting \div 3

StartVoting(p) == [p EXCEPT !.status = "voting", !.votingEnd = now + params.voting]

\* AddDeposit counts the amount and starts the voting once there is enough.
Deposited(p, amount) ==
    LET q == [p EXCEPT !.total = @ + amount]
    IN IF q.total >= params.min THEN StartVoting(q) ELSE q

\* MUTANT: a second deposit of an account replaces the first.
LockReplacing(i, u, amount) ==
    /\ bank[u] >= amount
    /\ bank' = [bank EXCEPT ![u] = @ - amount]
    /\ moduleBal' = moduleBal + amount
    /\ deposits' = [deposits EXCEPT ![i][u] = amount]

Lock(i, u, amount) ==
    /\ bank[u] >= amount
    /\ bank' = [bank EXCEPT ![u] = @ - amount]
    /\ moduleBal' = moduleBal + amount
    /\ deposits' = [deposits EXCEPT ![i][u] = @ + amount]

\* The record is created with the initial deposit as its total, and AddDeposit
\* then counts that deposit again.
SubmitProposal(u, initial, content) ==
    LET p == [status |-> "deposit", total |-> initial, votingEnd |-> 0,
              depositEnd |-> now + GetDepositPeriod, content |-> content]
    IN /\ cursor = 0
       /\ nextId \in Ids /\ now <= LastSubmit
       /\ nextId' = nextId + 1
       /\ proposals' = [proposals EXCEPT ![nextId] =
                          IF initial = 0 THEN p ELSE Deposited(p, initial)]
       /\ Lock(nextId, u, initial)
       /\ UNCHANGED <<votes, params, shares, bonded, now, cursor, refunded, burned>>

\* MUTANT: a deposit is taken whatever the state of the proposal.
DepositAnytime(i, u, amount) ==
    /\ cursor = 0 /\ i < nextId
    /\ proposals' = [proposals EXCEPT ![i].total = @ + amount]
    /\ Lock(i, u, amount)
    /\ UNCHANGED <<votes, params, nextId, shares, bonded, now, cursor, refunded, burned>>

Deposit(i, u, amount) ==
    /\ cursor = 0
    /\ proposals[i].status = "deposit"
    /\ now <= proposals[i].depositEnd
    /\ proposals' = [proposals EXCEPT ![i] = Deposited(@, amount)]
    /\ Lock(i, u, amount)
    /\ UNCHANGED <<votes, params, nextId, shares, bonded, now, cursor, refunded, burned>>

\* A vote replaces the earlier vote of the same account.
Vote(i, u, ballot) ==
    /\ cursor = 0
    /\ proposals[i].status = "voting"
    /\ now <= proposals[i].votingEnd
    /\ votes' = [votes EXCEPT ![i][u] = ballot]
    /\ UNCHANGED <<proposals, deposits, params, nextId, bankVars, now, cursor>>

\* x/staking: an account delegates or undelegates, a validator is slashed,
\* jailed or bonded.
ChangeStake(u, amount, tokens) ==
    /\ cursor = 0
    /\ shares' = [shares EXCEPT ![u] = amount]
    /\ bonded' = tokens
    /\ UNCHANGED <<govVars, bank, moduleBal, refunded, burned, now, cursor>>

-----------------------------------------------------------------------------
(* The EndBlocker.                                                         *)

\* MUTANT: an account without shares counts as one share.
PowerFloored(i, u, o) ==
    ((IF shares[u] = 0 THEN 1 ELSE shares[u]) * votes[i][u][o]) \div 2

\* The shares a voter has at the tally, times the weight, truncated.
Power(i, u, o) == (shares[u] * votes[i][u][o]) \div 2

Tally(i) == [o \in Options |-> SumFunction([u \in Users |-> Power(i, u, o)])]

\* With no bonded token there is always a quorum.
hasQuorum(total) == bonded # 0 => Quo(total, bonded, Unit) >= params.quorum

\* determineProposalOutcome
Passes(i) == LET tally == Tally(i)
                 total == SumFunction(tally)
             IN /\ total > 0
                /\ Quo(tally["veto"], total, Unit) <= params.veto
                /\ hasQuorum(total)
                /\ Quo(tally["yes"], total, Unit) > params.threshold

\* The depositors refundDeposits can pay, one after the other, from the module
\* account; it goes on after one it cannot pay.
Refundable(i, S) ==
    \A u \in Users :
       u \in S <=> SumFunctionOnSet(deposits[i], {v \in S : v < u}) + deposits[i][u] <= moduleBal

refundDeposits(i) ==
    \E S \in SUBSET Users :
       LET back == [u \in Users |-> IF u \in S THEN deposits[i][u] ELSE 0]
       IN /\ Refundable(i, S)
          /\ bank' = [u \in Users |-> bank[u] + back[u]]
          /\ moduleBal' = moduleBal - SumFunction(back)
          /\ refunded' = [refunded EXCEPT ![i] = [u \in Users |-> @[u] + back[u]]]

\* MUTANT: the bank's check is gone.
BurnUnchecked(i) ==
    /\ moduleBal' = moduleBal - proposals[i].total
    /\ burned' = [burned EXCEPT ![i] = @ + proposals[i].total]

\* ExecuteTreasuryTransfer burns the recorded total, if the account holds it.
BurnDeposit(i) ==
    LET total == proposals[i].total
    IN IF moduleBal >= total
       THEN /\ moduleBal' = moduleBal - total
            /\ burned' = [burned EXCEPT ![i] = @ + total]
       ELSE UNCHANGED <<moduleBal, burned>>

\* MUTANT: the case "enough in the meantime" is forgotten.
DepositPeriodEndNoVote(i) ==
    /\ proposals[i].status = "deposit" /\ now > proposals[i].depositEnd
    /\ \/ /\ proposals[i].total >= params.min
          /\ UNCHANGED <<proposals, bank, moduleBal, refunded>>
       \/ /\ proposals[i].total < params.min
          /\ proposals' = [proposals EXCEPT ![i].status = "failed"]
          /\ refundDeposits(i)
    /\ UNCHANGED <<deposits, votes, params, nextId, shares, bonded, burned>>

processDepositPeriodEnd(i) ==
    /\ proposals[i].status = "deposit" /\ now > proposals[i].depositEnd
    /\ \/ /\ proposals[i].total >= params.min
          /\ proposals' = [proposals EXCEPT ![i] = StartVoting(@)]
          /\ UNCHANGED <<bank, moduleBal, refunded>>
       \/ /\ proposals[i].total < params.min
          /\ proposals' = [proposals EXCEPT ![i].status = "failed"]
          /\ refundDeposits(i)
    /\ UNCHANGED <<deposits, votes, params, nextId, shares, bonded, burned>>

\* A message that fails leaves the deposits where they are; the status it sets
\* is overwritten by the caller's SetProposal.
ExecuteProposal(i) ==
    LET content == proposals[i].content
    IN \/ content \in ParamChoices /\ params' = content /\ BurnDeposit(i)
       \/ content = Other /\ UNCHANGED params /\ BurnDeposit(i)
       \/ content = Other /\ UNCHANGED <<params, moduleBal, burned>>

\* MUTANT: the deposits go back whatever the outcome.
VotingPeriodEndRefundsAll(i) ==
    /\ proposals[i].status = "voting" /\ now > proposals[i].votingEnd
    /\ proposals' = [proposals EXCEPT ![i].status = IF Passes(i) THEN "passed" ELSE "rejected"]
    /\ refundDeposits(i)
    /\ UNCHANGED <<params, burned, deposits, votes, nextId, shares, bonded>>

processVotingPeriodEnd(i) ==
    /\ proposals[i].status = "voting" /\ now > proposals[i].votingEnd
    /\ \/ /\ Passes(i)
          /\ proposals' = [proposals EXCEPT ![i].status = "passed"]
          /\ ExecuteProposal(i)
          /\ UNCHANGED <<bank, refunded>>
       \/ /\ ~Passes(i)
          /\ proposals' = [proposals EXCEPT ![i].status = "rejected"]
          /\ refundDeposits(i)
          /\ UNCHANGED <<params, burned>>
    /\ UNCHANGED <<deposits, votes, nextId, shares, bonded>>

Due(i) == \/ proposals[i].status = "deposit" /\ now > proposals[i].depositEnd
          \/ proposals[i].status = "voting" /\ now > proposals[i].votingEnd

BeginEndBlock == /\ cursor = 0
                 /\ cursor' = 1
                 /\ UNCHANGED <<govVars, bankVars, now>>

ProcessProposal == /\ cursor \in 1..(nextId - 1)
                   /\ cursor' = cursor + 1
                   /\ \/ processDepositPeriodEnd(cursor)
                      \/ processVotingPeriodEnd(cursor)
                      \/ ~Due(cursor) /\ UNCHANGED <<govVars, bankVars>>
                   /\ UNCHANGED now

NextBlock == /\ cursor = nextId
             /\ cursor' = 0
             /\ now' = IF now < MaxTime THEN now + 1 ELSE now
             /\ UNCHANGED <<govVars, bankVars>>

EndBlocker == BeginEndBlock \/ ProcessProposal \/ NextBlock

Message == \/ \E u \in Delegators, a \in Shares, b \in BondedTokens : ChangeStake(u, a, b)
           \/ \E u \in Users :
                 \/ \E a \in Initials, c \in Contents : SubmitProposal(u, a, c)
                 \/ \E i \in Ids : \/ \E a \in Amounts : Deposit(i, u, a)
                                   \/ \E b \in Ballots : Vote(i, u, b)

Next == Message \/ EndBlocker

Spec == Init /\ [][Next]_vars

\* Consensus keeps producing blocks; nobody has to send a message.
FairSpec == Spec /\ WF_vars(EndBlocker)

-----------------------------------------------------------------------------
(* Properties.                                                             *)

Proposal == [status : {"absent", "deposit", "voting", "passed", "rejected", "failed"},
             total : Nat, depositEnd : Nat, votingEnd : Int, content : ParamChoices \cup {Other}]

\* The types of the keeper's state; no balance, the module's included, is
\* ever overdrawn by a deposit, a refund or a burn.
TypeOK == /\ proposals \in [Ids -> Proposal]
          /\ deposits \in [Ids -> [Users -> Nat]]
          /\ votes \in [Ids -> [Users -> Ballots \cup {NoVote}]]
          /\ params \in ParamChoices
          /\ nextId \in 1..(MaxProposals + 1)
          /\ shares \in [Users -> Shares] /\ bonded \in BondedTokens
          /\ bank \in [Users -> Nat] /\ moduleBal \in Nat
          /\ now \in 0..MaxTime /\ cursor \in 0..(MaxProposals + 1)
          /\ refunded \in [Ids -> [Users -> Nat]]
          /\ burned \in [Ids -> Nat]

\* Deposits come back whole and at most once, only from a proposal that failed
\* or was rejected, and never from one whose deposit was burned (refundDeposits
\* and ExecuteTreasuryTransfer exclude each other over the life of a proposal).
RefundedOnce ==
    \A i \in Ids :
       /\ \A u \in Users : refunded[i][u] \in {0, deposits[i][u]}
       /\ (\E u \in Users : refunded[i][u] > 0) => proposals[i].status \in {"rejected", "failed"}
       /\ burned[i] > 0 => proposals[i].status = "passed"

\* No account ends with more or less than it started with, but for its own
\* deposits that have not come back.
OwnCoins ==
    \A u \in Users :
       bank[u] = Funds - SumFunction([i \in Ids |-> deposits[i][u] - refunded[i][u]])

\* A decision stands: once final, a proposal keeps its status, its deposits and
\* its votes, and deposits only change in the deposit period (AddDeposit line
\* 177, AddVote line 245, the switch in EndBlocker).
DecisionStands ==
    [][\A i \in Ids :
          /\ Final(i) => UNCHANGED <<proposals[i], deposits[i], votes[i], refunded[i], burned[i]>>
          /\ deposits'[i] # deposits[i] => proposals[i].status \in {"absent", "deposit"}]_vars

\* What passes is carried by shares that are there at the tally: the accounts
\* that voted hold as many as the quorum of the bonded tokens, short of half a
\* last digit of the ratio (LegacyDec.Quo, end_blocker.go:166), and unless the
\* threshold is negative one of them with shares voted yes (TallyVotes lines
\* 323-332: no delegated stake means no voting power).
PassedByStake ==
    [][\A i \in Ids :
          proposals'[i].status = "passed" /\ proposals[i].status # "passed"
          => LET voters == {u \in Users : votes[i][u] # NoVote}
             IN /\ 2 * Unit * SumFunctionOnSet(shares, voters) + bonded
                     >= 2 * params.quorum * bonded
                /\ params.threshold >= 0
                   => \E u \in voters : votes[i][u]["yes"] > 0 /\ shares[u] > 0]_vars

\* Every proposal is decided, whatever the parameters do in the meantime.
EveryDecided == \A i \in Ids : (proposals[i].status # "absent") ~> Final(i)

\* The burn of a passed proposal's deposit "only disposes of the deposit that
\* was locked up to submit the proposal" (proposal_execution.go:72).
BurnsOwnDeposit == \A i \in Ids : burned[i] <= SumFunction(deposits[i])
=============================================================================
