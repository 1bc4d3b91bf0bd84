-------------------------- MODULE GovernanceProofs --------------------------
(***************************************************************************)
(* What becomes of deposits, that decisions stand and what carries them,   *)
(* for any accounts, amounts, ballots, shares, parameters and bounds.      *)
(*                                                                         *)
(* Who is paid back, and when, does not depend on the sums: a payment is a *)
(* whole deposit of an unpaid account (IInv).  The sums decide that the    *)
(* payments of a proposal never overdraw the module account, that no       *)
(* account gains or loses by them, and that what passes has the quorum.    *)
(***************************************************************************)
EXTENDS Governance, SumLemmas, TLAPS

\* The types of what decides about deposits.
ControlTypeOK ==
    /\ proposals \in [Ids -> Proposal]
    /\ deposits \in [Ids -> [Users -> Nat]]
    /\ params \in ParamChoices
    /\ nextId \in 1..(MaxProposals + 1)
    /\ now \in Nat
    /\ refunded \in [Ids -> [Users -> Nat]]
    /\ burned \in [Ids -> Nat]

\* A proposal not submitted yet has no record.
Fresh == \A i \in Ids : i >= nextId => proposals[i].status = "absent"

\* Until the decision nothing has been paid back or burned.
Untouched == \A i \in Ids : ~Final(i) => burned[i] = 0 /\ \A u \in Users : refunded[i][u] = 0

IInv == ControlTypeOK /\ Fresh /\ Untouched /\ RefundedOnce

-----------------------------------------------------------------------------
(* The parameters and the fields of a record.                              *)

\* Every parameter choice has a number of blocks and a minimum.
LEMMA ParamTypes ==
  ASSUME ControlTypeOK
  PROVE  params.min \in Nat /\ params.voting \in Int /\ GetDepositPeriod \in Nat
  <1>1. params.min \in Nat /\ params.voting \in Int
    BY GovernanceAssumption DEF ControlTypeOK
  <1>2. ~(params.voting < 3) => params.voting \div 3 \in Nat
    BY <1>1
  <1>3. DefaultDeposit \in Nat
    BY GovernanceAssumption
  <1> QED BY <1>1, <1>2, <1>3 DEF GetDepositPeriod

\* A record that starts its voting is a record.
LEMMA StartVotingType ==
  ASSUME ControlTypeOK, NEW p \in Proposal
  PROVE  StartVoting(p) \in Proposal /\ StartVoting(p).status = "voting"
  <1>1. now + params.voting \in Int
    BY ParamTypes DEF ControlTypeOK
  <1> QED BY <1>1 DEF StartVoting, Proposal

\* A record that takes a deposit is a record, and is not decided by it.
LEMMA DepositedType ==
  ASSUME ControlTypeOK, NEW p \in Proposal, NEW amount \in Nat
  PROVE  /\ Deposited(p, amount) \in Proposal
         /\ Deposited(p, amount).status \in {p.status, "voting"}
  <1> DEFINE q == [p EXCEPT !.total = @ + amount]
  <1>1. q \in Proposal /\ q.status = p.status
    BY DEF Proposal
  <1>2. StartVoting(q) \in Proposal /\ StartVoting(q).status = "voting"
    BY <1>1, StartVotingType
  <1>3. Deposited(p, amount) = IF q.total >= params.min THEN StartVoting(q) ELSE q
    BY DEF Deposited
  <1> QED BY <1>1, <1>2, <1>3

-----------------------------------------------------------------------------
(* Messages.                                                               *)

\* The state before the first block satisfies the invariant.
LEMMA InitIInv == Init => IInv
  <1> SUFFICES ASSUME Init PROVE IInv
    OBVIOUS
  <1>1. Absent \in Proposal
    BY DEF Absent, Proposal
  <1>2. MaxProposals \in Nat
    BY GovernanceAssumption
  <1> QED BY <1>1, <1>2 DEF Init, IInv, ControlTypeOK, Fresh, Untouched, RefundedOnce, Final,
                            Absent, Ids

\* Taking a deposit for a proposal that is not decided, whatever the record
\* becomes short of a decision.
LEMMA LockIInv ==
  ASSUME IInv, NEW i \in Ids, ~Final(i), NEW u \in Users, NEW amount \in Nat, Lock(i, u, amount),
         NEW p \in Proposal, p.status \notin {"passed", "rejected", "failed"},
         proposals' = [proposals EXCEPT ![i] = p],
         nextId' \in 1..(MaxProposals + 1), i < nextId', nextId <= nextId',
         UNCHANGED <<params, now, refunded, burned>>
  PROVE  IInv'
  <1>0. /\ deposits' = [deposits EXCEPT ![i][u] = @ + amount]
        /\ Ids \subseteq Nat /\ nextId \in Nat /\ nextId' \in Nat
    BY GovernanceAssumption DEF Lock, Ids, IInv, ControlTypeOK
  <1>1. ControlTypeOK'
    BY <1>0 DEF IInv, ControlTypeOK
  <1>2. Fresh'
    BY <1>0 DEF IInv, ControlTypeOK, Fresh
  <1>3. \A j \in Ids : Final(j)' <=> Final(j)
    BY DEF IInv, ControlTypeOK, Final
  <1>4. Untouched'
    BY <1>3 DEF IInv, Untouched
  <1>5. RefundedOnce'
    <2> SUFFICES ASSUME NEW j \in Ids
                 PROVE  /\ \A v \in Users : refunded[j][v] \in {0, deposits'[j][v]}
                        /\ (\E v \in Users : refunded[j][v] > 0)
                              => proposals'[j].status \in {"rejected", "failed"}
                        /\ burned[j] > 0 => proposals'[j].status = "passed"
      BY DEF RefundedOnce
    <2>1. CASE j = i
      <3>1. burned[j] = 0 /\ \A v \in Users : refunded[j][v] = 0
        BY <2>1 DEF IInv, Untouched
      <3> QED BY <3>1
    <2>2. CASE j # i
      <3>1. proposals'[j] = proposals[j] /\ deposits'[j] = deposits[j]
        BY <1>0, <2>2 DEF IInv, ControlTypeOK
      <3> QED BY <3>1 DEF IInv, RefundedOnce
    <2> QED BY <2>1, <2>2
  <1> QED BY <1>1, <1>2, <1>4, <1>5 DEF IInv

\* Steps that concern neither a proposal nor its deposits.
LEMMA IdleIInv ==
  ASSUME IInv, now' \in Nat, params' \in ParamChoices,
         UNCHANGED <<proposals, deposits, nextId, refunded, burned>>
  PROVE  IInv'
  BY DEF IInv, ControlTypeOK, Fresh, Untouched, RefundedOnce, Final

\* A new record goes where there was none.
LEMMA SubmitIInv ==
  ASSUME IInv, NEW u \in Users, NEW initial \in Initials, NEW content \in Contents,
         SubmitProposal(u, initial, content)
  PROVE  IInv'
  <1> DEFINE p == [status |-> "deposit", total |-> initial, votingEnd |-> 0,
                   depositEnd |-> now + GetDepositPeriod, content |-> content]
             q == IF initial = 0 THEN p ELSE Deposited(p, initial)
  <1>1. nextId \in Ids /\ Ids \subseteq Nat /\ MaxProposals \in Nat /\ initial \in Nat
    BY GovernanceAssumption DEF SubmitProposal, Ids
  <1>2. content \in ParamChoices \cup {Other}
    BY GovernanceAssumption
  <1>3. now + GetDepositPeriod \in Nat
    BY ParamTypes DEF IInv, ControlTypeOK
  <1>4. p \in Proposal /\ p.status = "deposit"
    BY <1>1, <1>2, <1>3 DEF Proposal
  <1>5. q \in Proposal /\ q.status \in {"deposit", "voting"}
    BY <1>1, <1>4, DepositedType DEF IInv
  <1>6. ~Final(nextId)
    BY <1>1 DEF IInv, Fresh, Final
  <1>7. /\ proposals' = [proposals EXCEPT ![nextId] = q]
        /\ Lock(nextId, u, initial)
        /\ nextId' = nextId + 1
        /\ UNCHANGED <<params, now, refunded, burned>>
    BY DEF SubmitProposal
  <1>8. nextId' \in 1..(MaxProposals + 1) /\ nextId < nextId' /\ nextId <= nextId'
    BY <1>1, <1>7 DEF Ids
  <1> HIDE DEF p, q
  <1> QED BY <1>1, <1>5, <1>6, <1>7, <1>8, LockIInv

\* A deposit is taken in the deposit period, which is before the decision.
LEMMA DepositIInv ==
  ASSUME IInv, NEW i \in Ids, NEW u \in Users, NEW amount \in Amounts, Deposit(i, u, amount)
  PROVE  IInv'
  <1> DEFINE q == Deposited(proposals[i], amount)
  <1>1. amount \in Nat /\ MaxProposals \in Nat /\ Ids \subseteq Nat
    BY GovernanceAssumption DEF Ids
  <1>2. proposals[i] \in Proposal /\ proposals[i].status = "deposit"
    BY DEF IInv, ControlTypeOK, Deposit
  <1>3. q \in Proposal /\ q.status \in {"deposit", "voting"}
    BY <1>1, <1>2, DepositedType DEF IInv
  <1>4. ~Final(i) /\ i < nextId
    BY <1>1, <1>2 DEF Final, IInv, Fresh, ControlTypeOK
  <1>5. /\ proposals' = [proposals EXCEPT ![i] = q]
        /\ Lock(i, u, amount)
        /\ UNCHANGED <<params, nextId, now, refunded, burned>>
    BY DEF Deposit
  <1>6. nextId' \in 1..(MaxProposals + 1) /\ i < nextId' /\ nextId <= nextId'
    BY <1>1, <1>4, <1>5 DEF IInv, ControlTypeOK
  <1> HIDE DEF q
  <1> QED BY <1>1, <1>3, <1>4, <1>5, <1>6, LockIInv

-----------------------------------------------------------------------------
(* The EndBlocker.                                                         *)

\* The voting starts after all.
LEMMA VotingStartsIInv ==
  ASSUME IInv, NEW i \in Ids, proposals[i].status = "deposit",
         proposals' = [proposals EXCEPT ![i] = StartVoting(@)],
         UNCHANGED <<deposits, params, nextId, now, refunded, burned>>
  PROVE  IInv'
  <1>1. StartVoting(proposals[i]) \in Proposal /\ StartVoting(proposals[i]).status = "voting"
    BY StartVotingType DEF IInv, ControlTypeOK
  <1>2. /\ proposals' = [proposals EXCEPT ![i] = StartVoting(proposals[i])]
        /\ proposals \in [Ids -> Proposal]
    BY DEF IInv, ControlTypeOK
  <1>3. ControlTypeOK'
    BY <1>1, <1>2 DEF IInv, ControlTypeOK
  <1>4. \A j \in Ids : /\ Final(j)' <=> Final(j)
                       /\ proposals'[j].status = proposals[j].status \/ j = i
    BY <1>1, <1>2 DEF Final
  <1>5. Fresh'
    BY <1>1, <1>2, <1>4 DEF IInv, Fresh
  <1>6. Untouched'
    BY <1>4 DEF IInv, Untouched
  <1>7. RefundedOnce'
    BY <1>4, <1>6 DEF IInv, RefundedOnce, Untouched, Final, ControlTypeOK
  <1> QED BY <1>3, <1>5, <1>6, <1>7 DEF IInv

\* The proposal fails or is rejected, and its depositors are paid back as far
\* as the account allows.
LEMMA RefundIInv ==
  ASSUME IInv, NEW i \in Ids, proposals[i].status \in {"deposit", "voting"},
         NEW outcome \in {"rejected", "failed"},
         proposals' = [proposals EXCEPT ![i].status = outcome], refundDeposits(i),
         UNCHANGED <<deposits, params, nextId, now, burned>>
  PROVE  IInv'
  <1>1. PICK S \in SUBSET Users :
          refunded' = [refunded EXCEPT ![i] =
                         [u \in Users |-> @[u] + (IF u \in S THEN deposits[i][u] ELSE 0)]]
    <2>1. PICK S \in SUBSET Users :
            refunded' = [refunded EXCEPT ![i] =
              [u \in Users |-> @[u] + [v \in Users |-> IF v \in S THEN deposits[i][v] ELSE 0][u]]]
      BY DEF refundDeposits
    <2>2. \A u \in Users : [v \in Users |-> IF v \in S THEN deposits[i][v] ELSE 0][u]
                            = IF u \in S THEN deposits[i][u] ELSE 0
      OBVIOUS
    <2> QED BY <2>1, <2>2
  <1>2. burned[i] = 0 /\ \A u \in Users : refunded[i][u] = 0
    BY DEF IInv, Untouched, Final
  <1>3. \A u \in Users : deposits[i][u] \in Nat
    BY DEF IInv, ControlTypeOK
  <1>4. /\ \A u \in Users : refunded'[i][u] \in {0, deposits[i][u]}
        /\ refunded' \in [Ids -> [Users -> Nat]]
    BY <1>1, <1>2, <1>3 DEF IInv, ControlTypeOK
  <1>5. /\ proposals' \in [Ids -> Proposal] /\ proposals'[i].status = outcome
        /\ \A j \in Ids \ {i} : proposals'[j] = proposals[j] /\ refunded'[j] = refunded[j]
    BY <1>1 DEF IInv, ControlTypeOK, Proposal
  <1>6. ControlTypeOK'
    BY <1>4, <1>5 DEF IInv, ControlTypeOK
  <1>7. Fresh'
    BY <1>5 DEF IInv, Fresh
  <1>8. Untouched'
    BY <1>5 DEF IInv, Untouched, Final
  <1>9. RefundedOnce'
    BY <1>2, <1>4, <1>5 DEF IInv, RefundedOnce
  <1> QED BY <1>6, <1>7, <1>8, <1>9 DEF IInv

\* The proposal passes; its parameters may take effect and its total be burned.
LEMMA PassIInv ==
  ASSUME IInv, NEW i \in Ids, proposals[i].status = "voting",
         proposals' = [proposals EXCEPT ![i].status = "passed"], ExecuteProposal(i),
         UNCHANGED <<deposits, nextId, now, refunded>>
  PROVE  IInv'
  <1>1. proposals[i].total \in Nat /\ burned[i] = 0 /\ \A u \in Users : refunded[i][u] = 0
    BY DEF IInv, ControlTypeOK, Proposal, Untouched, Final
  <1>2. /\ params' \in ParamChoices
        /\ \/ UNCHANGED burned
           \/ burned' = [burned EXCEPT ![i] = @ + proposals[i].total]
    BY DEF ExecuteProposal, BurnDeposit, IInv, ControlTypeOK
  <1>3. /\ burned' \in [Ids -> Nat]
        /\ \A j \in Ids \ {i} : burned'[j] = burned[j]
    BY <1>1, <1>2 DEF IInv, ControlTypeOK
  <1>4. /\ proposals' \in [Ids -> Proposal] /\ proposals'[i].status = "passed"
        /\ \A j \in Ids \ {i} : proposals'[j] = proposals[j]
    BY DEF IInv, ControlTypeOK, Proposal
  <1>5. ControlTypeOK'
    BY <1>2, <1>3, <1>4 DEF IInv, ControlTypeOK
  <1>6. Fresh'
    BY <1>4 DEF IInv, Fresh
  <1>7. Untouched'
    BY <1>3, <1>4 DEF IInv, Untouched, Final
  <1>8. RefundedOnce'
    BY <1>1, <1>3, <1>4 DEF IInv, RefundedOnce
  <1> QED BY <1>5, <1>6, <1>7, <1>8 DEF IInv

-----------------------------------------------------------------------------
(* Every step.                                                             *)

\* The invariant is inductive.
LEMMA NextIInv == IInv /\ [Next]_vars => IInv'
  <1> SUFFICES ASSUME IInv, [Next]_vars PROVE IInv'
    OBVIOUS
  <1> USE DEF govVars, bankVars
  <1>0. now \in Nat /\ params \in ParamChoices
    BY DEF IInv, ControlTypeOK
  <1>1. ASSUME NEW u \in Delegators, NEW a \in Shares, NEW t \in BondedTokens, ChangeStake(u, a, t)
        PROVE  IInv'
    BY <1>0, <1>1, IdleIInv DEF ChangeStake
  <1>2. ASSUME NEW u \in Users, NEW a \in Initials, NEW c \in Contents, SubmitProposal(u, a, c)
        PROVE  IInv'
    BY <1>2, SubmitIInv
  <1>3. ASSUME NEW u \in Users, NEW i \in Ids, NEW a \in Amounts, Deposit(i, u, a) PROVE IInv'
    BY <1>3, DepositIInv
  <1>4. ASSUME NEW u \in Users, NEW i \in Ids, NEW b \in Ballots, Vote(i, u, b) PROVE IInv'
    BY <1>0, <1>4, IdleIInv DEF Vote
  <1>5. ASSUME BeginEndBlock \/ NextBlock PROVE IInv'
    BY <1>0, <1>5, IdleIInv DEF BeginEndBlock, NextBlock
  <1>6. ASSUME ProcessProposal PROVE IInv'
    <2>1. cursor \in Ids /\ UNCHANGED now
      BY <1>6, GovernanceAssumption DEF ProcessProposal, IInv, ControlTypeOK, Ids
    <2>2. CASE processDepositPeriodEnd(cursor)
      BY <2>1, <2>2, VotingStartsIInv, RefundIInv DEF processDepositPeriodEnd
    <2>3. CASE processVotingPeriodEnd(cursor)
      BY <2>1, <2>3, PassIInv, RefundIInv DEF processVotingPeriodEnd
    <2>4. CASE UNCHANGED <<govVars, bankVars>>
      BY <1>0, <2>1, <2>4, IdleIInv
    <2> QED BY <1>6, <2>2, <2>3, <2>4 DEF ProcessProposal
  <1>7. CASE UNCHANGED vars
    BY <1>0, <1>7, IdleIInv DEF vars
  <1> QED BY <1>1, <1>2, <1>3, <1>4, <1>5, <1>6, <1>7 DEF Next, Message, EndBlocker

\* The invariant holds in every reachable state.
THEOREM GovernanceInvariance == Spec => []IInv
  BY InitIInv, NextIInv, PTL DEF Spec

\* A deposit comes back whole and at most once, from a proposal that was
\* rejected or failed, and never from one whose deposit was burned.
THEOREM GovernanceRefundedOnce == Spec => []RefundedOnce
  <1>1. IInv => RefundedOnce
    BY DEF IInv
  <1> QED BY <1>1, GovernanceInvariance, PTL

-----------------------------------------------------------------------------
(* Decisions stand.                                                        *)

\* A step that touches nothing of a proposal but one that is not decided, and
\* takes deposits for it only in its deposit period.
LEMMA OneProposal ==
  ASSUME NEW k \in Ids, ~Final(k),
         \A i \in Ids \ {k} :
            UNCHANGED <<proposals[i], deposits[i], votes[i], refunded[i], burned[i]>>,
         deposits'[k] # deposits[k] => proposals[k].status \in {"absent", "deposit"},
         NEW i \in Ids
  PROVE  /\ Final(i) => UNCHANGED <<proposals[i], deposits[i], votes[i], refunded[i], burned[i]>>
         /\ deposits'[i] # deposits[i] => proposals[i].status \in {"absent", "deposit"}
  BY DEF Final

\* Every proposal's votes are ballots of the accounts.
VotesTyped == votes \in [Ids -> [Users -> Ballots \cup {NoVote}]]

\* No step leaves anything but ballots among the votes.
LEMMA VotesInvariance == Spec => []VotesTyped
  <1>1. Init => VotesTyped
    BY DEF Init, VotesTyped
  <1>2. VotesTyped /\ [Next]_vars => VotesTyped'
    <2> SUFFICES ASSUME VotesTyped, [Next]_vars PROVE VotesTyped'
      OBVIOUS
    <2>1. ASSUME NEW u \in Users, NEW i \in Ids, NEW b \in Ballots, Vote(i, u, b)
          PROVE  VotesTyped'
      BY <2>1 DEF Vote, VotesTyped
    <2>2. ASSUME NEW u \in Delegators, NEW a \in Shares, NEW t \in BondedTokens, ChangeStake(u, a, t)
        PROVE  UNCHANGED votes
      BY <2>2 DEF ChangeStake, govVars
    <2>3. ASSUME NEW u \in Users, NEW a \in Initials, NEW c \in Contents,
                 SubmitProposal(u, a, c)
          PROVE  UNCHANGED votes
      BY <2>3 DEF SubmitProposal
    <2>4. ASSUME NEW u \in Users, NEW i \in Ids, NEW a \in Amounts, Deposit(i, u, a)
          PROVE  UNCHANGED votes
      BY <2>4 DEF Deposit
    <2>5. EndBlocker => UNCHANGED votes
      BY DEF EndBlocker, BeginEndBlock, ProcessProposal, NextBlock, processDepositPeriodEnd,
             processVotingPeriodEnd, govVars
    <2>6. UNCHANGED vars => UNCHANGED votes
      BY DEF vars, govVars
    <2>7. UNCHANGED votes => VotesTyped'
      BY DEF VotesTyped
    <2> QED BY <2>1, <2>2, <2>3, <2>4, <2>5, <2>6, <2>7 DEF Next, Message
  <1> QED BY <1>1, <1>2, PTL DEF Spec

\* What DecisionStands says of a step.
Stands(i) ==
    /\ Final(i) => UNCHANGED <<proposals[i], deposits[i], votes[i], refunded[i], burned[i]>>
    /\ deposits'[i] # deposits[i] => proposals[i].status \in {"absent", "deposit"}

\* Messages: each is for one proposal, which is not decided.
LEMMA MessageStands ==
  ASSUME IInv, VotesTyped, Message, NEW j \in Ids
  PROVE  Stands(j)
  <1> USE DEF govVars, bankVars
  <1>0. /\ proposals \in [Ids -> Proposal] /\ deposits \in [Ids -> [Users -> Nat]]
        /\ votes \in [Ids -> [Users -> Ballots \cup {NoVote}]]
    BY DEF IInv, ControlTypeOK, VotesTyped
  <1>1. ASSUME NEW u \in Delegators, NEW a \in Shares, NEW t \in BondedTokens, ChangeStake(u, a, t)
        PROVE  Stands(j)
    BY <1>1 DEF ChangeStake, Stands
  <1>2. ASSUME NEW u \in Users, NEW a \in Initials, NEW c \in Contents, SubmitProposal(u, a, c)
        PROVE  Stands(j)
    <2>1. nextId \in Ids /\ proposals[nextId].status = "absent"
      BY <1>2, GovernanceAssumption DEF SubmitProposal, IInv, Fresh, Ids
    <2>2. \A i \in Ids \ {nextId} : proposals'[i] = proposals[i]
      BY <1>0, <1>2 DEF SubmitProposal
    <2>3. \A i \in Ids \ {nextId} : deposits'[i] = deposits[i]
      BY <1>0, <1>2 DEF SubmitProposal, Lock
    <2>4. UNCHANGED <<votes, refunded, burned>>
      BY <1>2 DEF SubmitProposal
    <2> QED BY <2>1, <2>2, <2>3, <2>4, OneProposal DEF Final, Stands
  <1>3. ASSUME NEW u \in Users, NEW i \in Ids, NEW a \in Amounts, Deposit(i, u, a)
        PROVE  Stands(j)
    <2>1. proposals[i].status = "deposit"
      BY <1>3 DEF Deposit
    <2>2. \A k \in Ids \ {i} : proposals'[k] = proposals[k] /\ deposits'[k] = deposits[k]
      BY <1>0, <1>3 DEF Deposit, Lock
    <2>3. UNCHANGED <<votes, refunded, burned>>
      BY <1>3 DEF Deposit
    <2> QED BY <2>1, <2>2, <2>3, OneProposal DEF Final, Stands
  <1>4. ASSUME NEW u \in Users, NEW i \in Ids, NEW b \in Ballots, Vote(i, u, b)
        PROVE  Stands(j)
    <2>1. proposals[i].status = "voting"
      BY <1>4 DEF Vote
    <2>2. \A k \in Ids \ {i} : votes'[k] = votes[k]
      BY <1>0, <1>4 DEF Vote
    <2>3. UNCHANGED <<proposals, deposits, refunded, burned>>
      BY <1>4 DEF Vote
    <2> QED BY <2>1, <2>2, <2>3, OneProposal DEF Final, Stands
  <1> QED BY <1>1, <1>2, <1>3, <1>4 DEF Message

\* A refund is recorded for its own proposal.
LEMMA RefundsElsewhere ==
  ASSUME NEW i \in Ids, refunded \in [Ids -> [Users -> Nat]], refundDeposits(i)
  PROVE  \A j \in Ids \ {i} : refunded'[j] = refunded[j]
  <1> DEFINE Back(S) == [u \in Users |-> IF u \in S THEN deposits[i][u] ELSE 0]
  <1>1. \E S \in SUBSET Users :
          refunded' = [refunded EXCEPT ![i] = [u \in Users |-> @[u] + Back(S)[u]]]
    BY DEF refundDeposits
  <1> HIDE DEF Back
  <1>2. PICK x : refunded' = [refunded EXCEPT ![i] = x]
    BY <1>1
  <1> QED BY <1>2

\* The EndBlocker: it decides what is due, and moves no deposit.
LEMMA EndBlockerStands ==
  ASSUME IInv, EndBlocker, NEW j \in Ids
  PROVE  Stands(j)
  <1>0. /\ proposals \in [Ids -> Proposal] /\ refunded \in [Ids -> [Users -> Nat]]
        /\ burned \in [Ids -> Nat]
        /\ nextId \in 1..(MaxProposals + 1)
    <2>1. ControlTypeOK
      BY DEF IInv
    <2> QED BY <2>1 DEF ControlTypeOK
  <1> USE DEF govVars, bankVars
  <1>1. CASE UNCHANGED <<govVars, bankVars>>
    BY <1>1 DEF Stands
  <1>2. CASE ProcessProposal /\ processDepositPeriodEnd(cursor)
    <2>1. cursor \in Ids /\ proposals[cursor].status = "deposit"
      <3>1. cursor \in 1..(nextId - 1) /\ proposals[cursor].status = "deposit"
        BY <1>2 DEF ProcessProposal, processDepositPeriodEnd
      <3>2. MaxProposals \in Nat
        BY GovernanceAssumption
      <3> QED BY <1>0, <3>1, <3>2 DEF Ids
    <2>2. \A i \in Ids \ {cursor} : proposals'[i] = proposals[i] /\ refunded'[i] = refunded[i]
      <3>1. \A i \in Ids \ {cursor} : proposals'[i] = proposals[i]
        BY <1>0, <1>2 DEF processDepositPeriodEnd
      <3>2. refunded' = refunded \/ refundDeposits(cursor)
        BY <1>2 DEF processDepositPeriodEnd
      <3> QED BY <1>0, <2>1, <3>1, <3>2, RefundsElsewhere
    <2>3. UNCHANGED <<deposits, votes, burned>>
      BY <1>2 DEF processDepositPeriodEnd
    <2> QED BY <2>1, <2>2, <2>3, OneProposal DEF Final, Stands
  <1>3. CASE ProcessProposal /\ processVotingPeriodEnd(cursor)
    <2>1. cursor \in Ids /\ proposals[cursor].status = "voting"
      <3>1. cursor \in 1..(nextId - 1) /\ proposals[cursor].status = "voting"
        BY <1>3 DEF ProcessProposal, processVotingPeriodEnd
      <3>2. MaxProposals \in Nat
        BY GovernanceAssumption
      <3> QED BY <1>0, <3>1, <3>2 DEF Ids
    <2>2. \A i \in Ids \ {cursor} : proposals'[i] = proposals[i]
      BY <1>0, <1>3 DEF processVotingPeriodEnd
    <2>3. \A i \in Ids \ {cursor} : refunded'[i] = refunded[i] /\ burned'[i] = burned[i]
      <3>1. \/ refunded' = refunded /\ ExecuteProposal(cursor)
            \/ refundDeposits(cursor) /\ burned' = burned
        BY <1>3 DEF processVotingPeriodEnd
      <3>2. ExecuteProposal(cursor) => \A i \in Ids \ {cursor} : burned'[i] = burned[i]
        BY <1>0 DEF ExecuteProposal, BurnDeposit
      <3> QED BY <1>0, <2>1, <3>1, <3>2, RefundsElsewhere
    <2>4. UNCHANGED <<deposits, votes>>
      BY <1>3 DEF processVotingPeriodEnd
    <2> QED BY <2>1, <2>2, <2>3, <2>4, OneProposal DEF Final, Stands
  <1> QED BY <1>1, <1>2, <1>3 DEF EndBlocker, BeginEndBlock, NextBlock, ProcessProposal

\* A decided proposal keeps its status, deposits and votes, and nothing more is
\* paid back or burned for it; deposits are taken in the deposit period only.
THEOREM GovernanceDecisionStands == Spec => DecisionStands
  <1>1. IInv /\ VotesTyped /\ [Next]_vars => [\A i \in Ids : Stands(i)]_vars
    BY MessageStands, EndBlockerStands DEF Next
  <1> QED BY <1>1, GovernanceInvariance, VotesInvariance, PTL DEF Spec, DecisionStands, Stands

-----------------------------------------------------------------------------
(* Who can be paid back.                                                   *)

\* What is paid back together was in the module account.
LEMMA RefundsAffordable ==
  ASSUME IInv, NEW i \in Ids, NEW S \in SUBSET Users, Refundable(i, S), moduleBal \in Nat
  PROVE  SumFunctionOnSet(deposits[i], S) <= moduleBal
  <1>1. IsFiniteSet(S) /\ S \in SUBSET Nat
    <2>1. IsFiniteSet(Users) /\ Users \subseteq Nat
      BY GovernanceAssumption
    <2> QED BY <2>1, FS_Subset
  <1>2. \A u \in S : deposits[i][u] \in Int
    BY DEF IInv, ControlTypeOK
  <1>3. CASE S = {}
    BY <1>3, SumEmpty
  <1>4. CASE S # {}
    <2>1. PICK m \in S : \A u \in S : u <= m
      BY <1>1, <1>4, Greatest
    <2>2. {v \in S : v < m} = S \ {m}
      <3>1. \A u \in S : u \in Nat
        BY <1>1
      <3>2. \A u \in S : u < m <=> u # m
        BY <2>1, <3>1
      <3> QED BY <3>2
    <2>3. SumFunctionOnSet(deposits[i], {v \in S : v < m}) + deposits[i][m] <= moduleBal
      BY DEF Refundable
    <2>4. SumFunctionOnSet(deposits[i], S) = deposits[i][m] + SumFunctionOnSet(deposits[i], S \ {m})
      BY <1>1, <1>2, SumOut
    <2>5. SumFunctionOnSet(deposits[i], S \ {m}) \in Int /\ deposits[i][m] \in Int
      BY <1>1, <1>2, FS_Subset, SumInt
    <2> QED BY <2>2, <2>3, <2>4, <2>5
  <1> QED BY <1>3, <1>4

\* What refundDeposits(i) pays to each account.
Back(i, S) == [u \in Users |-> IF u \in S THEN deposits[i][u] ELSE 0]

\* A refund in one piece: whole deposits, and the module account is not overdrawn.
LEMMA RefundPaid ==
  ASSUME IInv, NEW i \in Ids, bank \in [Users -> Nat], moduleBal \in Nat, refundDeposits(i)
  PROVE  \E S \in SUBSET Users :
            /\ bank' = [u \in Users |-> bank[u] + Back(i, S)[u]]
            /\ refunded' = [refunded EXCEPT ![i] = [u \in Users |-> @[u] + Back(i, S)[u]]]
            /\ Back(i, S) \in [Users -> Nat]
            /\ moduleBal' \in Nat
  <1>1. PICK S \in SUBSET Users :
          /\ Refundable(i, S)
          /\ bank' = [u \in Users |-> bank[u] + Back(i, S)[u]]
          /\ moduleBal' = moduleBal - SumFunction(Back(i, S))
          /\ refunded' = [refunded EXCEPT ![i] = [u \in Users |-> @[u] + Back(i, S)[u]]]
    BY DEF refundDeposits, Back
  <1>2. \A u \in Users : deposits[i][u] \in Nat
    BY DEF IInv, ControlTypeOK
  <1>3. Back(i, S) \in [Users -> Nat]
    BY <1>2 DEF Back
  <1>4. IsFiniteSet(Users)
    BY GovernanceAssumption
  <1>5. /\ DOMAIN Back(i, S) = Users /\ \A u \in Users : Back(i, S)[u] \in Nat
        /\ \A u \in S : deposits[i][u] \in Int /\ Back(i, S)[u] = deposits[i][u]
        /\ \A u \in Users \ S : Back(i, S)[u] = 0
    BY <1>2 DEF Back
  <1>6. SumFunction(Back(i, S)) = SumFunctionOnSet(Back(i, S), Users)
    BY <1>5, SumWhole
  <1>7. SumFunctionOnSet(Back(i, S), Users) = SumFunctionOnSet(deposits[i], S)
    BY <1>4, <1>5, SumOnPart
  <1>8. SumFunctionOnSet(deposits[i], S) <= moduleBal
    BY <1>1, RefundsAffordable
  <1>9. SumFunctionOnSet(Back(i, S), Users) \in Nat
    BY <1>4, <1>5, SumNat
  <1>10. moduleBal' \in Nat
    BY <1>1, <1>6, <1>7, <1>8, <1>9
  <1> QED BY <1>1, <1>3, <1>10

-----------------------------------------------------------------------------
(* The types of the whole state, and the accounts' own coins.              *)

\* The rest of the types: votes, shares, bondeds, the clock and the balances.
BookTypeOK ==
    /\ VotesTyped
    /\ shares \in [Users -> Shares] /\ bonded \in BondedTokens
    /\ now \in 0..MaxTime /\ cursor \in 0..(MaxProposals + 1)
    /\ bank \in [Users -> Nat] /\ moduleBal \in Nat

MInv == BookTypeOK /\ OwnCoins

\* What the proposals hold of an account's coins: deposits not paid back.
Owed(u) == SumFunctionOnSet([i \in Ids |-> deposits[i][u] - refunded[i][u]], Ids)

\* OwnCoins with that sum.
LEMMA OwnCoinsOwed == OwnCoins <=> \A u \in Users : bank[u] = Funds - Owed(u)
  <1>1. \A u \in Users : SumFunction([i \in Ids |-> deposits[i][u] - refunded[i][u]]) = Owed(u)
    BY DEF Owed, SumFunction
  <1> QED BY <1>1 DEF OwnCoins

\* The same in the next state.
LEMMA OwnCoinsOwedNext == OwnCoins' <=> \A u \in Users : bank'[u] = Funds - Owed(u)'
  <1>1. \A u \in Users : SumFunction([i \in Ids |-> deposits'[i][u] - refunded'[i][u]]) = Owed(u)'
    BY DEF Owed, SumFunction
  <1> QED BY <1>1 DEF OwnCoins

\* What one proposal takes from or gives to an account changes what is owed by as much.
LEMMA OwedMoves ==
  ASSUME IInv, NEW i \in Ids, NEW u \in Users, NEW n \in Int,
         deposits'[i][u] - refunded'[i][u] = deposits[i][u] - refunded[i][u] + n,
         \A j \in Ids \ {i} : deposits'[j] = deposits[j] /\ refunded'[j] = refunded[j]
  PROVE  Owed(u)' = Owed(u) + n
  <1> DEFINE f == [j \in Ids |-> deposits[j][u] - refunded[j][u]]
             g == [j \in Ids |-> deposits'[j][u] - refunded'[j][u]]
  <1>1. IsFiniteSet(Ids)
    BY GovernanceAssumption, FS_Interval DEF Ids
  <1>2. \A j \in Ids : deposits[j][u] \in Nat /\ refunded[j][u] \in Nat
    BY DEF IInv, ControlTypeOK
  <1>3. \A j \in Ids : f[j] \in Int
    BY <1>2
  <1>4. g[i] = f[i] + n /\ \A j \in Ids \ {i} : g[j] = f[j]
    OBVIOUS
  <1>5. Owed(u) = SumFunctionOnSet(f, Ids) /\ Owed(u)' = SumFunctionOnSet(g, Ids)
    BY DEF Owed
  <1> HIDE DEF f, g
  <1>6. SumFunctionOnSet(g, Ids) = SumFunctionOnSet(f, Ids) + n
    BY <1>1, <1>3, <1>4, SumShift
  <1> QED BY <1>5, <1>6

\* What an account is owed is a number.
LEMMA OwedTyped == ASSUME IInv, NEW u \in Users PROVE Owed(u) \in Int
  <1> DEFINE f == [j \in Ids |-> deposits[j][u] - refunded[j][u]]
  <1>1. IsFiniteSet(Ids)
    BY GovernanceAssumption, FS_Interval DEF Ids
  <1>2. \A j \in Ids : deposits[j][u] \in Nat /\ refunded[j][u] \in Nat
    BY DEF IInv, ControlTypeOK
  <1>3. \A j \in Ids : f[j] \in Int
    BY <1>2
  <1>4. Owed(u) = SumFunctionOnSet(f, Ids)
    BY DEF Owed
  <1> HIDE DEF f
  <1> QED BY <1>1, <1>3, <1>4, SumInt

\* At the start nothing is deposited.
LEMMA InitMInv == Init => MInv
  <1> SUFFICES ASSUME Init PROVE MInv
    OBVIOUS
  <1>1. BookTypeOK
    BY GovernanceAssumption DEF Init, BookTypeOK, VotesTyped
  <1>2. IsFiniteSet(Ids) /\ Funds \in Nat
    BY GovernanceAssumption, FS_Interval DEF Ids
  <1>3. ASSUME NEW u \in Users PROVE bank[u] = Funds - Owed(u)
    <2> DEFINE f == [j \in Ids |-> deposits[j][u] - refunded[j][u]]
    <2>1. \A j \in Ids : f[j] = 0
      BY DEF Init
    <2>2. Owed(u) = SumFunctionOnSet(f, Ids)
      BY DEF Owed
    <2> HIDE DEF f
    <2>3. Owed(u) = 0
      BY <1>2, <2>1, <2>2, SumZero
    <2>4. bank[u] = Funds
      BY DEF Init
    <2> QED BY <1>2, <2>3, <2>4
  <1> QED BY <1>1, <1>3, OwnCoinsOwed DEF MInv

\* A deposit goes from the account to the module.
LEMMA LockMInv ==
  ASSUME IInv, MInv, NEW i \in Ids, NEW u \in Users, NEW amount \in Nat, Lock(i, u, amount),
         UNCHANGED <<votes, shares, bonded, now, cursor, refunded>>
  PROVE  MInv'
  <1>1. /\ bank \in [Users -> Nat] /\ moduleBal \in Nat /\ bank[u] >= amount
        /\ bank' = [bank EXCEPT ![u] = @ - amount] /\ moduleBal' = moduleBal + amount
        /\ deposits' = [deposits EXCEPT ![i][u] = @ + amount]
        /\ deposits \in [Ids -> [Users -> Nat]] /\ refunded \in [Ids -> [Users -> Nat]]
        /\ UNCHANGED refunded
    BY DEF Lock, MInv, BookTypeOK, IInv, ControlTypeOK
  <1>2. bank' \in [Users -> Nat] /\ moduleBal' \in Nat
    BY <1>1
  <1>3. BookTypeOK'
    BY <1>2 DEF MInv, BookTypeOK, VotesTyped
  <1>4. \A j \in Ids \ {i} : deposits'[j] = deposits[j] /\ refunded'[j] = refunded[j]
    BY <1>1
  <1>5. ASSUME NEW v \in Users PROVE bank'[v] = Funds - Owed(v)'
    <2>1. bank[v] = Funds - Owed(v) /\ Owed(v) \in Int /\ Funds \in Int
      BY OwnCoinsOwed, OwedTyped, GovernanceAssumption DEF MInv
    <2>2. CASE v = u
      <3>1. deposits'[i][v] - refunded'[i][v] = deposits[i][v] - refunded[i][v] + amount
        BY <1>1, <2>2
      <3>2. Owed(v)' = Owed(v) + amount
        BY <1>4, <3>1, OwedMoves
      <3>3. bank'[v] = bank[v] - amount
        BY <1>1, <2>2
      <3> QED BY <2>1, <3>2, <3>3
    <2>3. CASE v # u
      <3>1. deposits'[i][v] - refunded'[i][v] = deposits[i][v] - refunded[i][v] + 0
        BY <1>1, <2>3
      <3>2. Owed(v)' = Owed(v) + 0
        BY <1>4, <3>1, OwedMoves
      <3>3. bank'[v] = bank[v]
        BY <1>1, <2>3
      <3> QED BY <2>1, <3>2, <3>3
    <2> QED BY <2>2, <2>3
  <1> QED BY <1>3, <1>5, OwnCoinsOwedNext DEF MInv

\* A refund goes the other way.
LEMMA RefundMInv ==
  ASSUME IInv, MInv, NEW i \in Ids, refundDeposits(i), cursor' \in 0..(MaxProposals + 1),
         UNCHANGED <<deposits, votes, shares, bonded, now>>
  PROVE  MInv'
  <1>1. PICK S \in SUBSET Users :
            /\ bank' = [u \in Users |-> bank[u] + Back(i, S)[u]]
            /\ refunded' = [refunded EXCEPT ![i] = [u \in Users |-> @[u] + Back(i, S)[u]]]
            /\ Back(i, S) \in [Users -> Nat]
            /\ moduleBal' \in Nat
    BY RefundPaid DEF MInv, BookTypeOK
  <1>2. /\ bank \in [Users -> Nat] /\ deposits \in [Ids -> [Users -> Nat]]
        /\ refunded \in [Ids -> [Users -> Nat]] /\ UNCHANGED deposits
    BY DEF MInv, BookTypeOK, IInv, ControlTypeOK
  <1>3. bank' \in [Users -> Nat]
    BY <1>1, <1>2
  <1>4. BookTypeOK'
    BY <1>1, <1>3 DEF MInv, BookTypeOK, VotesTyped
  <1>5. \A j \in Ids \ {i} : deposits'[j] = deposits[j] /\ refunded'[j] = refunded[j]
    BY <1>1, <1>2
  <1>6. ASSUME NEW u \in Users PROVE bank'[u] = Funds - Owed(u)'
    <2> DEFINE n == 0 - Back(i, S)[u]
    <2>1. bank[u] = Funds - Owed(u) /\ Owed(u) \in Int /\ Funds \in Int
      BY OwnCoinsOwed, OwedTyped, GovernanceAssumption DEF MInv
    <2>2. n \in Int /\ Back(i, S)[u] \in Int
      BY <1>1
    <2>3. bank'[u] = bank[u] - n
      BY <1>1, <1>2
    <2>4. refunded'[i][u] = refunded[i][u] - n
      BY <1>1, <1>2
    <2>5. deposits[i][u] \in Int /\ refunded[i][u] \in Int /\ deposits'[i][u] = deposits[i][u]
      BY <1>2
    <2> HIDE DEF n
    <2>6. deposits'[i][u] - refunded'[i][u] = deposits[i][u] - refunded[i][u] + n
      BY <2>2, <2>4, <2>5
    <2>7. Owed(u)' = Owed(u) + n
      BY <1>5, <2>2, <2>6, OwedMoves
    <2> QED BY <2>1, <2>2, <2>3, <2>7
  <1> QED BY <1>4, <1>6, OwnCoinsOwedNext DEF MInv

\* Steps that leave deposits, refunds and the accounts' balances alone.
LEMMA IdleMInv ==
  ASSUME IInv, MInv, UNCHANGED <<deposits, refunded, bank>>, VotesTyped',
         shares' \in [Users -> Shares], bonded' \in BondedTokens,
         now' \in 0..MaxTime, cursor' \in 0..(MaxProposals + 1),
         moduleBal' \in Nat
  PROVE  MInv'
  <1>1. BookTypeOK'
    BY DEF MInv, BookTypeOK
  <1>2. OwnCoins'
    BY DEF MInv, OwnCoins
  <1> QED BY <1>1, <1>2 DEF MInv

\* The EndBlocker's step for one proposal.
LEMMA ProcessMInv == ASSUME IInv, MInv, ProcessProposal PROVE MInv'
  <1> USE DEF govVars, bankVars
  <1>1. /\ cursor \in Ids /\ UNCHANGED now /\ cursor' \in 0..(MaxProposals + 1)
        /\ MaxProposals \in Nat
    BY GovernanceAssumption DEF ProcessProposal, IInv, ControlTypeOK, Ids
  <1>2. /\ shares \in [Users -> Shares] /\ bonded \in BondedTokens
        /\ now \in 0..MaxTime /\ moduleBal \in Nat /\ VotesTyped
    BY DEF MInv, BookTypeOK
  <1>3. ASSUME UNCHANGED <<deposits, refunded, bank, votes, shares, bonded>>, moduleBal' \in Nat
        PROVE  MInv'
    BY <1>1, <1>2, <1>3, IdleMInv DEF VotesTyped
  <1>4. CASE processDepositPeriodEnd(cursor)
    <2>1. CASE UNCHANGED <<bank, moduleBal, refunded>>
      BY <1>2, <1>3, <1>4, <2>1 DEF processDepositPeriodEnd
    <2>2. CASE refundDeposits(cursor)
      BY <1>1, <1>4, <2>2, RefundMInv DEF processDepositPeriodEnd
    <2> QED BY <1>4, <2>1, <2>2 DEF processDepositPeriodEnd
  <1>5. CASE processVotingPeriodEnd(cursor)
    <2>1. CASE ExecuteProposal(cursor) /\ UNCHANGED <<bank, refunded>>
      <3>1. proposals[cursor].total \in Nat
        BY <1>1 DEF IInv, ControlTypeOK, Proposal
      <3>2. moduleBal' \in Nat
        BY <1>2, <2>1, <3>1 DEF ExecuteProposal, BurnDeposit
      <3> QED BY <1>3, <1>5, <2>1, <3>2 DEF processVotingPeriodEnd
    <2>2. CASE refundDeposits(cursor)
      BY <1>1, <1>5, <2>2, RefundMInv DEF processVotingPeriodEnd
    <2> QED BY <1>5, <2>1, <2>2 DEF processVotingPeriodEnd
  <1>6. CASE UNCHANGED <<govVars, bankVars>>
    BY <1>2, <1>3, <1>6
  <1> QED BY <1>4, <1>5, <1>6 DEF ProcessProposal

\* Every step keeps the types and the accounts' own coins.
LEMMA NextMInv == IInv /\ MInv /\ [Next]_vars => MInv'
  <1> SUFFICES ASSUME IInv, MInv, [Next]_vars PROVE MInv'
    OBVIOUS
  <1> USE DEF govVars, bankVars
  <1>0. /\ shares \in [Users -> Shares] /\ bonded \in BondedTokens
        /\ now \in 0..MaxTime /\ moduleBal \in Nat /\ VotesTyped
        /\ cursor \in 0..(MaxProposals + 1) /\ MaxProposals \in Nat /\ MaxTime \in Nat
    BY GovernanceAssumption DEF MInv, BookTypeOK
  <1>1. ASSUME NEW u \in Delegators, NEW a \in Shares, NEW t \in BondedTokens, ChangeStake(u, a, t)
        PROVE  MInv'
    <2>1. /\ shares' \in [Users -> Shares] /\ bonded' \in BondedTokens
          /\ UNCHANGED <<votes, deposits, refunded, bank, moduleBal, now, cursor>>
      BY <1>0, <1>1 DEF ChangeStake
    <2> QED BY <1>0, <2>1, IdleMInv DEF VotesTyped
  <1>2. ASSUME NEW u \in Users, NEW a \in Initials, NEW c \in Contents, SubmitProposal(u, a, c)
        PROVE  MInv'
    <2>1. a \in Nat /\ nextId \in Ids
      BY <1>2, GovernanceAssumption DEF SubmitProposal
    <2>2. Lock(nextId, u, a) /\ UNCHANGED <<votes, shares, bonded, now, cursor, refunded>>
      BY <1>2 DEF SubmitProposal
    <2> QED BY <2>1, <2>2, LockMInv
  <1>3. ASSUME NEW u \in Users, NEW i \in Ids, NEW a \in Amounts, Deposit(i, u, a) PROVE MInv'
    <2>1. a \in Nat
      BY GovernanceAssumption
    <2>2. Lock(i, u, a) /\ UNCHANGED <<votes, shares, bonded, now, cursor, refunded>>
      BY <1>3 DEF Deposit
    <2> QED BY <2>1, <2>2, LockMInv
  <1>4. ASSUME NEW u \in Users, NEW i \in Ids, NEW b \in Ballots, Vote(i, u, b) PROVE MInv'
    <2>1. /\ VotesTyped' /\ UNCHANGED <<shares, bonded, deposits, refunded, bank, moduleBal, now, cursor>>
      BY <1>0, <1>4 DEF Vote, VotesTyped
    <2> QED BY <1>0, <2>1, IdleMInv
  <1>5. ASSUME BeginEndBlock \/ NextBlock PROVE MInv'
    <2>1. /\ now' \in 0..MaxTime /\ cursor' \in 0..(MaxProposals + 1)
          /\ UNCHANGED <<votes, shares, bonded, deposits, refunded, bank, moduleBal>>
      BY <1>0, <1>5 DEF BeginEndBlock, NextBlock
    <2> QED BY <1>0, <2>1, IdleMInv DEF VotesTyped
  <1>6. CASE ProcessProposal
    BY <1>6, ProcessMInv
  <1>7. CASE UNCHANGED vars
    <2>1. UNCHANGED <<votes, shares, bonded, deposits, refunded, bank, moduleBal, now, cursor>>
      BY <1>7 DEF vars
    <2> QED BY <1>0, <2>1, IdleMInv DEF VotesTyped
  <1> QED BY <1>1, <1>2, <1>3, <1>4, <1>5, <1>6, <1>7 DEF Next, Message, EndBlocker

\* The types and the accounts' own coins, in every reachable state.
THEOREM GovernanceMoney == Spec => []MInv
  <1>1. IInv /\ MInv /\ [Next]_vars => MInv'
    BY NextMInv
  <1> QED BY <1>1, InitMInv, GovernanceInvariance, PTL DEF Spec

\* The keeper's types; a deposit, a refund or a burn never overdraws an account
\* or the module account.
THEOREM GovernanceTypeOK == Spec => []TypeOK
  <1>1. IInv /\ MInv => TypeOK
    BY DEF IInv, ControlTypeOK, MInv, BookTypeOK, VotesTyped, TypeOK
  <1> QED BY <1>1, GovernanceInvariance, GovernanceMoney, PTL

\* An account never has more or less than it started with, but for its own
\* deposits that have not come back.
THEOREM GovernanceOwnCoins == Spec => []OwnCoins
  <1>1. MInv => OwnCoins
    BY DEF MInv
  <1> QED BY <1>1, GovernanceMoney, PTL

-----------------------------------------------------------------------------
(* What carries a decision.                                                *)

\* One vote's share of a number of shares, of which there are two halves.
LEMMA HalfOfShares ==
  ASSUME NEW s \in Nat, NEW b \in 0..2
  PROVE  (s * b) \div 2 \in Nat /\ 2 * ((s * b) \div 2) <= s * b /\ (b = 0 => (s * b) \div 2 = 0)
  <1>1. CASE b = 0
    BY <1>1
  <1>2. CASE b = 1
    BY <1>2
  <1>3. CASE b = 2
    BY <1>3
  <1> QED BY <1>1, <1>2, <1>3

\* The power an account gives to all options together.
Weight(i, u) == Power(i, u, "yes") + Power(i, u, "no") + Power(i, u, "veto")
                  + Power(i, u, "abstain")

\* The shares and the votes of an account.
LEMMA VoteTyped ==
  ASSUME BookTypeOK, NEW i \in Ids, NEW u \in Users
  PROVE  /\ shares[u] \in Nat
         /\ \A o \in Options : votes[i][u][o] \in 0..2
         /\ votes[i][u] # NoVote
              => votes[i][u]["yes"] + votes[i][u]["no"] + votes[i][u]["veto"]
                   + votes[i][u]["abstain"] = 2
  <1>1. shares[u] \in Nat
    <2>1. shares[u] \in Shares
      BY DEF BookTypeOK
    <2>2. Shares \subseteq Nat
      BY GovernanceAssumption
    <2> QED BY <2>1, <2>2
  <1>2. votes[i][u] \in Ballots \cup {NoVote}
    BY DEF BookTypeOK, VotesTyped
  <1>3. CASE votes[i][u] = NoVote
    BY <1>1, <1>3 DEF NoVote
  <1>4. CASE votes[i][u] \in Ballots
    BY <1>1, <1>4, GovernanceAssumption
  <1> QED BY <1>2, <1>3, <1>4

\* No account gives more power than it has shares, nor any without a vote.
LEMMA WeightBounded ==
  ASSUME BookTypeOK, NEW i \in Ids, NEW u \in Users
  PROVE  /\ \A o \in Options : Power(i, u, o) \in Nat
         /\ Weight(i, u) \in Nat
         /\ Weight(i, u) <= shares[u]
         /\ votes[i][u] = NoVote => Weight(i, u) = 0
  <1>1. \A o \in Options : /\ Power(i, u, o) \in Nat
                           /\ 2 * Power(i, u, o) <= shares[u] * votes[i][u][o]
                           /\ votes[i][u][o] = 0 => Power(i, u, o) = 0
    BY VoteTyped, HalfOfShares DEF Power
  <1>2. {"yes", "no", "veto", "abstain"} = Options
    BY DEF Options
  <1>3. CASE votes[i][u] = NoVote
    <2>1. \A o \in Options : Power(i, u, o) = 0
      BY <1>1, <1>3 DEF NoVote
    <2>2. Weight(i, u) = 0
      BY <1>2, <2>1 DEF Weight
    <2> QED BY <1>1, <2>2, VoteTyped
  <1>4. CASE votes[i][u] # NoVote
    <2> DEFINE b(o) == votes[i][u][o]
               s == shares[u]
    <2>1. /\ s \in Nat /\ b("yes") \in 0..2 /\ b("no") \in 0..2 /\ b("veto") \in 0..2
          /\ b("abstain") \in 0..2 /\ b("yes") + b("no") + b("veto") + b("abstain") = 2
      BY <1>2, <1>4, VoteTyped
    <2> HIDE DEF b, s
    <2>2. s * b("yes") + s * b("no") + s * b("veto") + s * b("abstain") = s * 2
      <3>1. s * b("yes") + s * b("no") + s * b("veto") + s * b("abstain")
              = s * (b("yes") + b("no") + b("veto") + b("abstain"))
        BY <2>1
      <3> QED BY <2>1, <3>1
    <2>3. /\ 2 * Power(i, u, "yes") <= s * b("yes") /\ 2 * Power(i, u, "no") <= s * b("no")
          /\ 2 * Power(i, u, "veto") <= s * b("veto")
          /\ 2 * Power(i, u, "abstain") <= s * b("abstain")
      BY <1>1, <1>2 DEF b, s
    <2>4. /\ Power(i, u, "yes") \in Nat /\ Power(i, u, "no") \in Nat
          /\ Power(i, u, "veto") \in Nat /\ Power(i, u, "abstain") \in Nat
      BY <1>1, <1>2
    <2>5. /\ s * b("yes") \in Int /\ s * b("no") \in Int
          /\ s * b("veto") \in Int /\ s * b("abstain") \in Int
      BY <2>1
    <2>6. Weight(i, u) \in Nat /\ 2 * Weight(i, u) <= s * 2
      BY <2>2, <2>3, <2>4, <2>5 DEF Weight
    <2>7. Weight(i, u) <= shares[u]
      BY <2>1, <2>6 DEF s
    <2> QED BY <1>1, <1>4, <2>6, <2>7
  <1> QED BY <1>3, <1>4

\* The sum over the four options.
LEMMA FourOptions ==
  ASSUME NEW t, DOMAIN t = Options, \A o \in Options : t[o] \in Int
  PROVE  SumFunction(t) = t["yes"] + t["no"] + t["veto"] + t["abstain"]
  <1> DEFINE sum(S) == SumFunctionOnSet(t, S)
  <1>1. IsFiniteSet({}) /\ IsFiniteSet({"abstain"}) /\ IsFiniteSet({"abstain", "veto"})
        /\ IsFiniteSet({"abstain", "veto", "no"})
    <2>1. IsFiniteSet({})
      BY FS_EmptySet
    <2>2. IsFiniteSet({} \cup {"abstain"})
      BY <2>1, FS_AddElement
    <2>3. IsFiniteSet({"abstain"} \cup {"veto"})
      <3>1. {} \cup {"abstain"} = {"abstain"}
        OBVIOUS
      <3>2. IsFiniteSet({"abstain"})
        BY <2>2, <3>1
      <3> QED BY <3>2, FS_AddElement
    <2>4. IsFiniteSet({"abstain", "veto"} \cup {"no"})
      <3>1. {"abstain"} \cup {"veto"} = {"abstain", "veto"}
        OBVIOUS
      <3>2. IsFiniteSet({"abstain", "veto"})
        BY <2>3, <3>1
      <3> QED BY <3>2, FS_AddElement
    <2>5. /\ {} \cup {"abstain"} = {"abstain"} /\ {"abstain"} \cup {"veto"} = {"abstain", "veto"}
          /\ {"abstain", "veto"} \cup {"no"} = {"abstain", "veto", "no"}
      OBVIOUS
    <2> QED BY <2>1, <2>2, <2>3, <2>4, <2>5
  <1>2. /\ {"abstain"} = {} \cup {"abstain"} /\ {"abstain", "veto"} = {"abstain"} \cup {"veto"}
        /\ {"abstain", "veto", "no"} = {"abstain", "veto"} \cup {"no"}
        /\ Options = {"abstain", "veto", "no"} \cup {"yes"}
    BY DEF Options
  <1>3. \A S \in SUBSET Options : \A o \in S : t[o] \in Int
    OBVIOUS
  <1>4. t["yes"] \in Int /\ t["no"] \in Int /\ t["veto"] \in Int /\ t["abstain"] \in Int
    BY DEF Options
  <1>5. sum({}) = 0
    BY SumEmpty
  <1>6. sum({} \cup {"abstain"}) = t["abstain"] + sum({})
    BY <1>1, <1>4, SumIn
  <1>7. sum({"abstain"} \cup {"veto"}) = t["veto"] + sum({"abstain"})
    <2>1. \A o \in {"abstain"} \cup {"veto"} : t[o] \in Int
      BY <1>4
    <2> QED BY <1>1, <2>1, SumIn
  <1>8. sum({"abstain", "veto"} \cup {"no"}) = t["no"] + sum({"abstain", "veto"})
    <2>1. \A o \in {"abstain", "veto"} \cup {"no"} : t[o] \in Int
      BY <1>4
    <2> QED BY <1>1, <2>1, SumIn
  <1>9. sum({"abstain", "veto", "no"} \cup {"yes"}) = t["yes"] + sum({"abstain", "veto", "no"})
    <2>1. \A o \in {"abstain", "veto", "no"} \cup {"yes"} : t[o] \in Int
      BY <1>4
    <2> QED BY <1>1, <2>1, SumIn
  <1>10. SumFunction(t) = sum(Options)
    BY SumWhole
  <1> HIDE DEF sum
  <1> QED BY <1>2, <1>4, <1>5, <1>6, <1>7, <1>8, <1>9, <1>10

\* What the options get is what the voters give.
LEMMA TallyIsWeights ==
  ASSUME BookTypeOK, NEW i \in Ids
  PROVE  /\ \A o \in Options : Tally(i)[o] \in Nat
         /\ SumFunction(Tally(i)) = SumFunctionOnSet([u \in Users |-> Weight(i, u)], Users)
  <1> DEFINE of(o) == [u \in Users |-> Power(i, u, o)]
             two == [u \in Users |-> Power(i, u, "yes") + Power(i, u, "no")]
             three == [u \in Users |-> two[u] + Power(i, u, "veto")]
             all == [u \in Users |-> Weight(i, u)]
             sum(f) == SumFunctionOnSet(f, Users)
  <1>1. IsFiniteSet(Users)
    BY GovernanceAssumption
  <1>2. \A u \in Users : \A o \in Options : Power(i, u, o) \in Nat
    BY WeightBounded
  <1>3. \A o \in Options : \A u \in Users : of(o)[u] \in Nat
    BY <1>2
  <1>4. "yes" \in Options /\ "no" \in Options /\ "veto" \in Options /\ "abstain" \in Options
    BY DEF Options
  <1>5. \A o \in Options : Tally(i)[o] = sum(of(o)) /\ DOMAIN Tally(i) = Options
    <2> SUFFICES ASSUME NEW o \in Options
                 PROVE  Tally(i)[o] = sum(of(o)) /\ DOMAIN Tally(i) = Options
      OBVIOUS
    <2>1. Tally(i)[o] = SumFunction(of(o)) /\ DOMAIN Tally(i) = Options
      BY DEF Tally
    <2>2. DOMAIN of(o) = Users
      OBVIOUS
    <2> HIDE DEF of
    <2> QED BY <2>1, <2>2, SumWhole
  <1>6. /\ \A u \in Users : of("yes")[u] \in Int /\ of("no")[u] \in Int
                            /\ two[u] = of("yes")[u] + of("no")[u]
        /\ \A u \in Users : two[u] \in Int /\ of("veto")[u] \in Int
                            /\ three[u] = two[u] + of("veto")[u]
        /\ \A u \in Users : three[u] \in Int /\ of("abstain")[u] \in Int
                            /\ all[u] = three[u] + of("abstain")[u]
    BY <1>2, <1>4 DEF Weight
  <1> HIDE DEF of, two, three, all
  <1>7. \A o \in Options : sum(of(o)) \in Nat
    BY <1>1, <1>3, SumNat
  <1>8. sum(two) = sum(of("yes")) + sum(of("no"))
    BY <1>1, <1>6, SumPlus
  <1>9. sum(three) = sum(two) + sum(of("veto"))
    BY <1>1, <1>6, SumPlus
  <1>10. sum(all) = sum(three) + sum(of("abstain"))
    BY <1>1, <1>6, SumPlus
  <1>11. \A o \in Options : Tally(i)[o] \in Nat
    BY <1>5, <1>7
  <1>12. SumFunction(Tally(i)) = Tally(i)["yes"] + Tally(i)["no"] + Tally(i)["veto"]
                                  + Tally(i)["abstain"]
    BY <1>4, <1>5, <1>11, FourOptions
  <1> HIDE DEF sum
  <1>13. SumFunction(Tally(i)) = sum(all)
    BY <1>4, <1>5, <1>7, <1>8, <1>9, <1>10, <1>12
  <1> QED BY <1>11, <1>13 DEF sum, all

\* The accounts that have voted.
Voters(i) == {u \in Users : votes[i][u] # NoVote}

\* What the voters give is not more than their shares.
LEMMA TallyBounded ==
  ASSUME BookTypeOK, NEW i \in Ids
  PROVE  /\ SumFunction(Tally(i)) <= SumFunctionOnSet(shares, Voters(i))
         /\ SumFunction(Tally(i)) \in Int /\ SumFunctionOnSet(shares, Voters(i)) \in Int
  <1> DEFINE all == [u \in Users |-> Weight(i, u)]
             held == [u \in Users |-> IF u \in Voters(i) THEN shares[u] ELSE 0]
  <1>1. IsFiniteSet(Users) /\ Voters(i) \subseteq Users
    BY GovernanceAssumption DEF Voters
  <1>2. IsFiniteSet(Voters(i))
    BY <1>1, FS_Subset
  <1>3. \A u \in Users : shares[u] \in Int
    BY VoteTyped
  <1>4. \A u \in Users : all[u] \in Int /\ held[u] \in Int /\ all[u] <= held[u]
    BY <1>3, WeightBounded, VoteTyped DEF Voters
  <1>5. /\ \A u \in Voters(i) : held[u] = shares[u] /\ shares[u] \in Int
        /\ \A u \in Users \ Voters(i) : held[u] = 0
    BY <1>1, <1>3
  <1>6. SumFunction(Tally(i)) = SumFunctionOnSet(all, Users)
    BY TallyIsWeights
  <1> HIDE DEF all, held
  <1>7. SumFunctionOnSet(all, Users) <= SumFunctionOnSet(held, Users)
    BY <1>1, <1>4, SumMonotone
  <1>8. SumFunctionOnSet(held, Users) = SumFunctionOnSet(shares, Voters(i))
    BY <1>1, <1>5, SumOnPart
  <1>9. SumFunctionOnSet(shares, Voters(i)) \in Int
    BY <1>2, <1>5, SumInt
  <1>10. SumFunctionOnSet(all, Users) \in Int
    BY <1>1, <1>4, SumInt
  <1> QED BY <1>6, <1>7, <1>8, <1>9, <1>10

\* A proposal that gets votes for yes has an account with shares among those who cast them.
LEMMA YesHasShares ==
  ASSUME BookTypeOK, NEW i \in Ids, Tally(i)["yes"] # 0
  PROVE  \E u \in Voters(i) : votes[i][u]["yes"] > 0 /\ shares[u] > 0
  <1> DEFINE of == [u \in Users |-> Power(i, u, "yes")]
  <1>1. IsFiniteSet(Users) /\ "yes" \in Options
    BY GovernanceAssumption DEF Options
  <1>2. Tally(i)["yes"] = SumFunction(of)
    BY <1>1 DEF Tally
  <1>3. SumFunction(of) = SumFunctionOnSet(of, Users)
    <2>1. DOMAIN of = Users
      OBVIOUS
    <2> HIDE DEF of
    <2> QED BY <2>1, SumWhole
  <1>4. PICK u \in Users : of[u] # 0
    <2> HIDE DEF of
    <2> QED BY <1>1, <1>2, <1>3, SumZero
  <1>5. Power(i, u, "yes") # 0
    BY <1>4
  <1>6. shares[u] \in Nat /\ votes[i][u]["yes"] \in 0..2
    BY <1>1, VoteTyped
  <1>7. votes[i][u]["yes"] # 0
    BY <1>5, <1>6, HalfOfShares DEF Power
  <1>8. shares[u] # 0
    <2>1. shares[u] = 0 => (shares[u] * votes[i][u]["yes"]) \div 2 = 0
      BY <1>6
    <2> QED BY <1>5, <2>1 DEF Power
  <1>9. u \in Voters(i)
    BY <1>1, <1>7 DEF Voters, NoVote
  <1> QED BY <1>6, <1>7, <1>8, <1>9

\* What PassedByStake says of a proposal.
ByStake(i) ==
    /\ 2 * Unit * SumFunctionOnSet(shares, Voters(i)) + bonded >= 2 * params.quorum * bonded
    /\ params.threshold >= 0 => \E u \in Voters(i) : votes[i][u]["yes"] > 0 /\ shares[u] > 0

\* A quorum by the rounded ratio is one of the exact ratio, but for half a digit.
LEMMA QuorumHeld ==
  ASSUME NEW total \in Nat, NEW held \in Int, total <= held, hasQuorum(total),
         bonded \in Nat, params.quorum \in Int, Unit \in Nat \ {0}
  PROVE  2 * Unit * held + bonded >= 2 * params.quorum * bonded
  <1> DEFINE q == params.quorum
             r == Quo(total, bonded, Unit)
             b == bonded
             n == Unit
  <1>0. q \in Int /\ b \in Nat /\ n \in Nat
    OBVIOUS
  <1>1. CASE b = 0
    <2>1. 2 * n * held \in Int /\ 2 * n * held >= 0
      <3>1. held \in Nat
        OBVIOUS
      <3> HIDE DEF n
      <3> QED BY <1>0, <3>1
    <2>2. 2 * q * b = 0
      <3> HIDE DEF q, b
      <3> QED BY <1>0, <1>1
    <2> QED BY <1>1, <2>1, <2>2
  <1>2. CASE b # 0
    <2>1. r \in Nat /\ 2 * (r * b) <= 2 * (total * n) + b
      BY <1>2, QuoBounded
    <2>2. r >= q
      BY <1>2 DEF hasQuorum
    <2> HIDE DEF q, r, b, n
    <2>3. q * b <= r * b
      BY <1>0, <2>1, <2>2, TimesMonotone
    <2>4. total * n <= held * n
      BY <1>0, TimesMonotone
    <2>5. q * b \in Int /\ r * b \in Int /\ total * n \in Int /\ held * n \in Int
      BY <1>0, <2>1
    <2>6. 2 * (held * n) + b >= 2 * (q * b)
      BY <1>0, <2>1, <2>3, <2>4, <2>5
    <2>7. 2 * n * held = 2 * (held * n) /\ 2 * q * b = 2 * (q * b)
      BY <1>0
    <2> QED BY <2>6, <2>7 DEF q, b, n
  <1> QED BY <1>1, <1>2

\* The outcome "passed" needs the quorum and the yes votes.
LEMMA PassesByStake ==
  ASSUME IInv, BookTypeOK, NEW i \in Ids, Passes(i)
  PROVE  ByStake(i)
  <1> DEFINE total == SumFunction(Tally(i))
             held == SumFunctionOnSet(shares, Voters(i))
             yes == Tally(i)["yes"]
  <1>1. total > 0 /\ hasQuorum(total) /\ Quo(yes, total, Unit) > params.threshold
    BY DEF Passes
  <1>2. params.quorum \in Int /\ params.threshold \in Int
    BY GovernanceAssumption DEF IInv, ControlTypeOK
  <1>3. bonded \in Nat /\ Unit \in Nat \ {0}
    BY GovernanceAssumption DEF BookTypeOK
  <1>4. total <= held /\ total \in Int /\ held \in Int
    BY TallyBounded
  <1>5. yes \in Nat
    BY TallyIsWeights DEF Options
  <1> HIDE DEF total, held, yes
  <1>6. total \in Nat \ {0}
    BY <1>1, <1>4
  <1>7. 2 * Unit * held + bonded >= 2 * params.quorum * bonded
    BY <1>1, <1>2, <1>3, <1>4, <1>6, QuorumHeld
  <1>8. ASSUME params.threshold >= 0 PROVE yes # 0
    <2>1. SUFFICES ASSUME yes = 0 PROVE FALSE
      OBVIOUS
    <2> DEFINE r == Quo(0, total, Unit)
    <2>2. r \in Nat /\ 2 * (r * total) <= 2 * (0 * Unit) + total
      BY <1>3, <1>6, QuoBounded
    <2>3. r > 0
      <3>1. r > params.threshold
        BY <1>1, <2>1
      <3> HIDE DEF r
      <3> QED BY <1>2, <1>8, <2>2, <3>1
    <2> HIDE DEF r
    <2>4. 1 * total <= r * total /\ r * total \in Int
      BY <1>6, <2>2, <2>3, TimesMonotone
    <2> QED BY <1>3, <1>6, <2>2, <2>4
  <1>9. params.threshold >= 0 => \E u \in Voters(i) : votes[i][u]["yes"] > 0 /\ shares[u] > 0
    BY <1>8, YesHasShares DEF yes
  <1> QED BY <1>7, <1>9 DEF ByStake, held

\* A proposal becomes passed only in the EndBlocker, by its tally.
LEMMA OnlyPasses ==
  ASSUME IInv, [Next]_vars, NEW i \in Ids,
         proposals'[i].status = "passed", proposals[i].status # "passed"
  PROVE  Passes(i)
  <1> USE DEF govVars, bankVars
  <1>0. proposals \in [Ids -> Proposal]
    BY DEF IInv, ControlTypeOK
  <1>1. ASSUME UNCHANGED proposals PROVE FALSE
    BY <1>1
  <1>2. ASSUME NEW k \in Ids, NEW p, p.status # "passed", proposals' = [proposals EXCEPT ![k] = p]
        PROVE  FALSE
    BY <1>0, <1>2
  <1>3. ASSUME NEW u \in Users, NEW a \in Initials, NEW c \in Contents, SubmitProposal(u, a, c)
        PROVE  FALSE
    <2> DEFINE p == [status |-> "deposit", total |-> a, votingEnd |-> 0,
                     depositEnd |-> now + GetDepositPeriod, content |-> c]
               q == IF a = 0 THEN p ELSE Deposited(p, a)
    <2>1. nextId \in Ids /\ proposals' = [proposals EXCEPT ![nextId] = q]
      BY <1>3 DEF SubmitProposal
    <2>2. a \in Nat /\ c \in ParamChoices \cup {Other} /\ now + GetDepositPeriod \in Nat
      BY ParamTypes, GovernanceAssumption DEF IInv, ControlTypeOK
    <2>3. p \in Proposal /\ p.status = "deposit"
      BY <2>2 DEF Proposal
    <2>4. q.status # "passed"
      BY <2>2, <2>3, DepositedType DEF IInv
    <2> HIDE DEF q
    <2> QED BY <1>2, <2>1, <2>4
  <1>4. ASSUME NEW u \in Users, NEW k \in Ids, NEW a \in Amounts, Deposit(k, u, a) PROVE FALSE
    <2> DEFINE q == Deposited(proposals[k], a)
    <2>1. proposals' = [proposals EXCEPT ![k] = q] /\ proposals[k].status = "deposit"
      BY <1>4 DEF Deposit
    <2>2. a \in Nat /\ proposals[k] \in Proposal
      BY <1>0, GovernanceAssumption
    <2>3. q.status # "passed"
      BY <2>1, <2>2, DepositedType DEF IInv
    <2> HIDE DEF q
    <2> QED BY <1>2, <2>1, <2>3
  <1>5. ASSUME ProcessProposal PROVE Passes(i)
    <2>1. cursor \in Ids
      BY <1>5, GovernanceAssumption DEF ProcessProposal, IInv, ControlTypeOK, Ids
    <2>2. CASE processDepositPeriodEnd(cursor)
      <3>1. StartVoting(proposals[cursor]).status = "voting"
        BY <1>0, <2>1, StartVotingType DEF IInv
      <3>2. PICK p : p.status # "passed" /\ (UNCHANGED proposals \/ proposals' = [proposals EXCEPT ![cursor] = p])
        <4>1. CASE UNCHANGED proposals
          BY <3>1, <4>1
        <4>2. CASE proposals' = [proposals EXCEPT ![cursor] = StartVoting(@)]
          BY <3>1, <4>2
        <4>3. CASE proposals' = [proposals EXCEPT ![cursor].status = "failed"]
          <5> DEFINE p == [proposals[cursor] EXCEPT !.status = "failed"]
          <5>1. p.status = "failed" /\ proposals' = [proposals EXCEPT ![cursor] = p]
            BY <1>0, <2>1, <4>3 DEF Proposal
          <5> HIDE DEF p
          <5> QED BY <5>1
        <4> QED BY <2>2, <4>1, <4>2, <4>3 DEF processDepositPeriodEnd
      <3> QED BY <1>1, <1>2, <2>1, <3>2
    <2>3. CASE processVotingPeriodEnd(cursor)
      <3>1. i = cursor
        BY <1>0, <2>1, <2>3 DEF processVotingPeriodEnd
      <3>2. CASE Passes(cursor)
        BY <3>1, <3>2
      <3>3. CASE proposals' = [proposals EXCEPT ![cursor].status = "rejected"]
        BY <1>0, <2>1, <3>1, <3>3 DEF Proposal
      <3> QED BY <2>3, <3>2, <3>3 DEF processVotingPeriodEnd
    <2> QED BY <1>1, <1>5, <2>2, <2>3 DEF ProcessProposal
  <1>6. ASSUME NEW u \in Delegators, NEW a \in Shares, NEW t \in BondedTokens, ChangeStake(u, a, t)
        PROVE  FALSE
    BY <1>1, <1>6 DEF ChangeStake
  <1>7. ASSUME NEW u \in Users, NEW k \in Ids, NEW b \in Ballots, Vote(k, u, b) PROVE FALSE
    BY <1>1, <1>7 DEF Vote
  <1>8. ASSUME BeginEndBlock \/ NextBlock \/ UNCHANGED vars PROVE FALSE
    BY <1>1, <1>8 DEF BeginEndBlock, NextBlock, vars
  <1> QED BY <1>3, <1>4, <1>5, <1>6, <1>7, <1>8 DEF Next, Message, EndBlocker

\* The accounts that voted for what passes hold shares for the quorum of the
\* bonded tokens, half a digit of the ratio aside; one of them, with shares,
\* voted yes if the threshold is not negative.
THEOREM GovernancePassedByStake == Spec => PassedByStake
  <1>1. IInv /\ MInv /\ [Next]_vars
        => [\A i \in Ids : proposals'[i].status = "passed" /\ proposals[i].status # "passed"
                           => ByStake(i)]_vars
    BY OnlyPasses, PassesByStake DEF MInv
  <1> QED BY <1>1, GovernanceInvariance, GovernanceMoney, PTL
          DEF Spec, PassedByStake, ByStake, Voters
=============================================================================
