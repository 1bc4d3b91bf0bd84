------------------------------- MODULE Escrow -------------------------------
(***************************************************************************)
(* x/marketplace/keeper/escrow.go: a buyer locks coins for a seller in the *)
(* module account; the buyer releases them, the seller refunds them, and   *)
(* the buyer may open a dispute that postpones the release by the window   *)
(* chosen at creation.                                                     *)
(*                                                                         *)
(* A message that fails changes nothing: the SDK drops the writes of a     *)
(* transaction that returns an error, so the explicit rollbacks of the     *)
(* code (lines 113-117, 173-178, 224-229) are steps that do not exist.     *)
(* There is one denomination.  Block height and BlockTime().UnixNano()     *)
(* together name the block of a message; both are the number `now`, which  *)
(* also counts the seconds of the dispute window.                          *)
(***************************************************************************)
EXTENDS Integers, FiniteSets, Functions

CONSTANTS Users,     \* accounts that create, release and refund
          Module,    \* the marketplace module account
          Amounts,   \* amounts an escrow may lock
          Windows,   \* dispute windows, in seconds, a buyer may ask for
          Funds,     \* coins every user starts with
          Second,    \* nanoseconds in a second
          Half,      \* half the range of a time.Duration, 2^63 of its nanoseconds
          MaxSeq,    \* bound: sequence numbers drawn between two imports
          MaxEscrows,\* bound: escrows created in all
          MaxTime    \* bound: the last block

ASSUME EscrowAssumption ==
    /\ Module \notin Users
    /\ Amounts \subseteq Nat \ {0}
    /\ Windows \subseteq Nat
    /\ {Funds, MaxSeq, MaxEscrows, MaxTime} \subseteq Nat
    /\ {Second, Half} \subseteq Nat \ {0}

VARIABLES escrows,   \* Keeper.Escrows, from identifiers to records
          seq,       \* Keeper.EscrowSeq: the next sequence number
          bank,      \* balances of the users and of the module account
          now,       \* the block being executed
          paid,      \* history: how often the module has paid for an escrow
          disputedAt \* history: when the dispute of an escrow was opened

vars == <<escrows, seq, bank, now, paid, disputedAt>>

\* "%s-%d-%d-%d" of the buyer, the block and the sequence number.
Ids == [buyer : Users, block : 0..MaxTime, seq : 0..MaxSeq]
\* MUTANT: the identifier as it was before the sequence number.
BlockOnlyID(buyer) == [buyer |-> buyer, block |-> now, seq |-> 0]

EscrowID(buyer) == [buyer |-> buyer, block |-> now, seq |-> seq]

Statuses == {"held", "disputed", "released", "refunded"}
Escrows == [buyer : Users, seller : Users, amount : Amounts, status : Statuses,
            window : Windows, releaseTime : Int]

Open(i) == escrows[i].status \in {"held", "disputed"}

\* time.Duration(window) * time.Second, a signed product that wraps, added to
\* the block time and cut to whole seconds again.
Wrapped(x) == ((x + Half) % (2 * Half)) - Half
\* MUTANT: the window is taken for nanoseconds.
NanosTime(window) == now + Wrapped(window) \div Second

ReleaseTime(window) == now + Wrapped(window * Second) \div Second

\* SendCoins: refused when the sender does not hold the amount.
Send(from, to, amount) ==
    /\ bank[from] >= amount
    /\ bank' = [bank EXCEPT ![from] = @ - amount, ![to] = @ + amount]

\* The module account pays `to` for escrow i.
PayOut(i, to) ==
    /\ Send(Module, to, escrows[i].amount)
    /\ paid' = [paid EXCEPT ![i] = @ + 1]

-----------------------------------------------------------------------------
Init == /\ escrows = [i \in {} |-> {}]
        /\ seq = 0
        /\ bank = [a \in Users \cup {Module} |-> IF a = Module THEN 0 ELSE Funds]
        /\ now = 0
        /\ paid = [i \in Ids |-> 0]
        /\ disputedAt = [i \in Ids |-> 0]

\* MUTANT: the escrow is recorded and its coins locked without asking whether
\* the buyer has them.
CreateUnfunded(buyer, seller, amount, window) ==
    /\ seq < MaxSeq /\ Cardinality(DOMAIN escrows) < MaxEscrows
    /\ buyer # seller
    /\ bank' = [bank EXCEPT ![buyer] = @ - amount, ![Module] = @ + amount]
    /\ seq' = seq + 1
    /\ escrows' = [i \in DOMAIN escrows \cup {EscrowID(buyer)} |->
                     IF i # EscrowID(buyer) THEN escrows[i]
                     ELSE [buyer |-> buyer, seller |-> seller, amount |-> amount,
                           status |-> "held", window |-> window, releaseTime |-> 0]]
    /\ UNCHANGED <<now, paid, disputedAt>>

\* ValidateBasic refuses a buyer who is the seller.  Escrows.Set writes the
\* record under its identifier, whether or not one is there already.
CreateEscrow(buyer, seller, amount, window) ==
    /\ seq < MaxSeq /\ Cardinality(DOMAIN escrows) < MaxEscrows
    /\ buyer # seller
    /\ Send(buyer, Module, amount)
    /\ seq' = seq + 1
    /\ escrows' = [i \in DOMAIN escrows \cup {EscrowID(buyer)} |->
                     IF i # EscrowID(buyer) THEN escrows[i]
                     ELSE [buyer |-> buyer, seller |-> seller, amount |-> amount,
                           status |-> "held", window |-> window, releaseTime |-> 0]]
    /\ UNCHANGED <<now, paid, disputedAt>>

\* A dispute postpones the release, unless its release time is not positive.
WindowElapsed(i) ==
    ~ (/\ escrows[i].status = "disputed"
       /\ escrows[i].releaseTime > 0
       /\ now < escrows[i].releaseTime)

ReleaseFunds(i, releaseBy) ==
    /\ releaseBy = escrows[i].buyer
    /\ Open(i)
    /\ WindowElapsed(i)
    /\ escrows' = [escrows EXCEPT ![i].status = "released"]
    /\ PayOut(i, escrows[i].seller)
    /\ UNCHANGED <<seq, now, disputedAt>>

\* MUTANT: a released escrow can still be refunded.
RefundTwice(i, requestedBy) ==
    /\ requestedBy = escrows[i].seller
    /\ escrows[i].status # "refunded"
    /\ escrows' = [escrows EXCEPT ![i].status = "refunded"]
    /\ PayOut(i, escrows[i].buyer)
    /\ UNCHANGED <<seq, now, disputedAt>>

RefundBuyer(i, requestedBy) ==
    /\ requestedBy = escrows[i].seller
    /\ escrows[i].status \notin {"released", "refunded"}
    /\ escrows' = [escrows EXCEPT ![i].status = "refunded"]
    /\ PayOut(i, escrows[i].buyer)
    /\ UNCHANGED <<seq, now, disputedAt>>

OpenDispute(i, opener) ==
    /\ opener = escrows[i].buyer
    /\ escrows[i].status = "held"
    /\ escrows' = [escrows EXCEPT ![i].status = "disputed",
                                  ![i].releaseTime = ReleaseTime(escrows[i].window)]
    /\ disputedAt' = [disputedAt EXCEPT ![i] = now]
    /\ UNCHANGED <<seq, bank, now, paid>>

\* The next block: its time is later than that of every block before it.  The
\* last block of the bound goes on for ever.
NextBlock == /\ now' = IF now < MaxTime THEN now + 1 ELSE now
             /\ UNCHANGED <<escrows, seq, bank, paid, disputedAt>>

\* ExportGenesis writes the escrows and not EscrowSeq; a chain started from the
\* export draws its numbers from 0 again, in blocks later than the export.
ExportImport == /\ now < MaxTime
                /\ now' = now + 1
                /\ seq' = 0
                /\ UNCHANGED <<escrows, bank, paid, disputedAt>>

Next == \/ \E b, s \in Users, a \in Amounts, w \in Windows : CreateEscrow(b, s, a, w)
        \/ \E i \in DOMAIN escrows, u \in Users :
              \/ ReleaseFunds(i, u)
              \/ RefundBuyer(i, u)
              \/ OpenDispute(i, u)
        \/ NextBlock
        \/ ExportImport

Spec == Init /\ [][Next]_vars

-----------------------------------------------------------------------------
\* The types of the keeper's state; an account never goes below zero.
TypeOK == /\ DOMAIN escrows \subseteq Ids
          /\ \A i \in DOMAIN escrows : escrows[i] \in Escrows
          /\ seq \in 0..MaxSeq
          /\ bank \in [Users \cup {Module} -> Nat]
          /\ now \in 0..MaxTime
          /\ paid \in [Ids -> Nat]
          /\ disputedAt \in [Ids -> 0..MaxTime]

Total(S) == SumFunctionOnSet([i \in DOMAIN escrows |-> escrows[i].amount], S)

In(s) == {i \in DOMAIN escrows : escrows[i].status \in s}
Held == In({"held", "disputed"})
Bought(u) == {i \in In(Statuses \ {"refunded"}) : escrows[i].buyer = u}
Sold(u) == {i \in In({"released"}) : escrows[i].seller = u}

\* The module account holds exactly the coins of the open escrows, and every
\* user what is left of the start after the escrows bought and not refunded,
\* plus the escrows sold and released: CreateEscrow, ReleaseFunds and
\* RefundBuyer together neither lose a lock nor pay one from another's coins.
Accounted ==
    /\ bank[Module] = Total(Held)
    /\ \A u \in Users : bank[u] = Funds - Total(Bought(u)) + Total(Sold(u))

\* An escrow is stored and paid for at most once over its whole life, and never
\* replaced: two escrows of one buyer in one block, and those made after an
\* import that starts EscrowSeq over, get identifiers of their own
\* (CreateEscrow's comment on colliding identifiers, lines 100-105).
Outcome(i) == IF i \notin DOMAIN escrows THEN "absent"
              ELSE IF Open(i) THEN "pending"
              ELSE IF escrows[i].status = "released" THEN "completed" ELSE "timed_out"

Promise == INSTANCE Settlement WITH status <- [i \in Ids |-> Outcome(i)]
Settles == Promise!Spec

\* A dispute whose window fits a time.Duration holds the release for all of
\* that window, counted from the block of OpenDispute (ReleaseFunds lines
\* 152-157, OpenDispute line 261).  A longer window wraps and may hold nothing.
Fits(window) == window * Second < Half
DisputeHolds ==
    [][\A i \in DOMAIN escrows :
          /\ escrows[i].status = "disputed"
          /\ Fits(escrows[i].window)
          /\ escrows'[i].status = "released"
          => now >= disputedAt[i] + escrows[i].window]_vars

=============================================================================
