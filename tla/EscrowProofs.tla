---------------------------- MODULE EscrowProofs ----------------------------
(***************************************************************************)
(* Theorems about Escrow for every value of its constants.                 *)
(*                                                                         *)
(* That no escrow is settled twice rests on Fresh: the identifier that     *)
(* CreateEscrow is about to write is later, by block or by sequence        *)
(* number, than every identifier in the store, also after an import has    *)
(* started EscrowSeq over.  The same freshness makes Accounted inductive:  *)
(* a create that replaced a record would drop a lock from the sums.        *)
(***************************************************************************)
EXTENDS Escrow, SumLemmas, TLAPS

\* Every stored identifier was drawn before the next one.
Fresh == \A i \in DOMAIN escrows : i.block < now \/ (i.block = now /\ i.seq < seq)

\* The module account has paid for the closed escrows, once, and for no other.
PaidClosed == \A i \in Ids : paid[i] = IF i \in DOMAIN escrows /\ ~Open(i) THEN 1 ELSE 0

\* The release time of a dispute whose window fits is the one the buyer chose.
Postponed == \A i \in DOMAIN escrows :
                escrows[i].status = "disputed" /\ Fits(escrows[i].window)
                => escrows[i].releaseTime = disputedAt[i] + escrows[i].window

IInv == TypeOK /\ Fresh /\ PaidClosed /\ Postponed

-----------------------------------------------------------------------------
(* Release times.                                                          *)

\* Seconds turned into nanoseconds and back are the same seconds.
LEMMA SecondsBack == ASSUME NEW w \in Nat PROVE (w * Second) \div Second = w
  BY EscrowAssumption

\* A window that fits a time.Duration is added to the block time as it is.
LEMMA FitsIsExact ==
  ASSUME NEW w \in Windows, Fits(w), now \in Nat PROVE ReleaseTime(w) = now + w
  <1>1. /\ w \in Nat /\ w * Second \in Nat /\ Half \in Nat \ {0} /\ Second \in Nat \ {0}
        /\ w * Second < Half
    BY EscrowAssumption DEF Fits
  <1>2. Wrapped(w * Second) = w * Second
    <2> DEFINE x == w * Second
    <2>1. x \in Nat /\ x < Half
      BY <1>1
    <2> HIDE DEF x
    <2>2. (x + Half) % (2 * Half) = x + Half
      BY <1>1, <2>1
    <2>3. Wrapped(x) = x
      BY <1>1, <2>1, <2>2 DEF Wrapped
    <2> QED BY <2>3 DEF x
  <1> QED BY <1>1, <1>2, SecondsBack DEF ReleaseTime

\* A release time is an integer, wrapped or not.
LEMMA ReleaseTimeIsInt == ASSUME NEW w \in Windows, now \in Nat PROVE ReleaseTime(w) \in Int
  <1>1. w * Second \in Int /\ Second \in Nat \ {0} /\ Half \in Nat \ {0}
    BY EscrowAssumption
  <1>2. Wrapped(w * Second) \in Int
    BY <1>1 DEF Wrapped
  <1> QED BY <1>1, <1>2 DEF ReleaseTime

-----------------------------------------------------------------------------
(* The invariant.                                                          *)

\* The empty store satisfies the invariant.
LEMMA InitIInv == Init => IInv
  BY EscrowAssumption DEF Init, IInv, TypeOK, Fresh, PaidClosed, Postponed, Ids

\* A transfer between a user and the module account keeps balances non-negative.
LEMMA SendTyped ==
  ASSUME bank \in [Users \cup {Module} -> Nat],
         NEW from \in Users \cup {Module}, NEW to \in Users \cup {Module}, from # to,
         NEW amount \in Amounts, Send(from, to, amount)
  PROVE  bank' \in [Users \cup {Module} -> Nat]
  <1>1. amount \in Nat /\ bank[from] - amount \in Nat /\ bank[to] + amount \in Nat
    BY EscrowAssumption DEF Send
  <1> QED BY <1>1 DEF Send

\* CreateEscrow writes an identifier that is not in the store.
LEMMA CreateIsFresh ==
  ASSUME IInv, NEW b \in Users, seq < MaxSeq
  PROVE  EscrowID(b) \in Ids \ DOMAIN escrows
  BY EscrowAssumption DEF IInv, TypeOK, Fresh, EscrowID, Ids

\* CreateEscrow keeps the invariant, because its identifier is a new one.
LEMMA CreateIInv ==
  ASSUME IInv, NEW b \in Users, NEW s \in Users, NEW a \in Amounts, NEW w \in Windows,
         CreateEscrow(b, s, a, w)
  PROVE  IInv'
  <1> DEFINE new == EscrowID(b)
             rec == [buyer |-> b, seller |-> s, amount |-> a, status |-> "held",
                     window |-> w, releaseTime |-> 0]
  <1>1. new \in Ids \ DOMAIN escrows /\ new.block = now /\ new.seq = seq
    BY CreateIsFresh DEF CreateEscrow, EscrowID
  <1>2. /\ DOMAIN escrows' = DOMAIN escrows \cup {new}
        /\ escrows'[new] = rec
        /\ \A i \in DOMAIN escrows : escrows'[i] = escrows[i]
    BY <1>1 DEF CreateEscrow
  <1>3. rec \in Escrows
    BY DEF Escrows, Statuses
  <1>4. TypeOK'
    <2>1. bank' \in [Users \cup {Module} -> Nat]
      BY SendTyped, EscrowAssumption DEF CreateEscrow, IInv, TypeOK
    <2>2. seq' \in 0..MaxSeq
      BY EscrowAssumption DEF CreateEscrow, IInv, TypeOK
    <2>3. /\ DOMAIN escrows' \subseteq Ids
          /\ \A i \in DOMAIN escrows' : escrows'[i] \in Escrows
      BY <1>1, <1>2, <1>3 DEF IInv, TypeOK
    <2> QED BY <2>1, <2>2, <2>3 DEF CreateEscrow, IInv, TypeOK
  <1>5. Fresh'
    BY <1>1, <1>2, EscrowAssumption DEF CreateEscrow, IInv, TypeOK, Fresh, Ids
  <1>6. PaidClosed'
    <2> HIDE DEF new
    <2>1. UNCHANGED paid /\ \A i \in DOMAIN escrows : Open(i)' = Open(i)
      BY <1>2 DEF CreateEscrow, Open
    <2>2. \A i \in {new} : Open(i)'
      BY <1>2 DEF Open
    <2> QED BY <1>1, <1>2, <2>1, <2>2 DEF IInv, PaidClosed
  <1>7. Postponed'
    BY <1>1, <1>2 DEF CreateEscrow, IInv, Postponed
  <1> QED BY <1>4, <1>5, <1>6, <1>7 DEF IInv

\* Paying the one open escrow i and closing it, as a release and a refund do,
\* keeps the invariant.
LEMMA CloseIInv ==
  ASSUME IInv, NEW i \in DOMAIN escrows, NEW to \in Users, Open(i),
         NEW outcome \in {"released", "refunded"},
         escrows' = [escrows EXCEPT ![i].status = outcome],
         PayOut(i, to), UNCHANGED <<seq, now, disputedAt>>
  PROVE  IInv'
  <1>1. /\ i \in Ids /\ escrows[i] \in Escrows
        /\ DOMAIN escrows' = DOMAIN escrows
        /\ escrows'[i] = [escrows[i] EXCEPT !.status = outcome]
        /\ \A j \in DOMAIN escrows : j # i => escrows'[j] = escrows[j]
    BY DEF IInv, TypeOK
  <1>2. escrows'[i] \in Escrows /\ escrows'[i].status = outcome
    BY <1>1 DEF Escrows, Statuses
  <1>3. TypeOK'
    <2>1. bank' \in [Users \cup {Module} -> Nat]
      BY SendTyped, EscrowAssumption, <1>1 DEF PayOut, IInv, TypeOK, Escrows
    <2>2. paid' \in [Ids -> Nat]
      BY <1>1 DEF PayOut, IInv, TypeOK
    <2> QED BY <1>1, <1>2, <2>1, <2>2 DEF IInv, TypeOK
  <1>4. Fresh'
    BY <1>1 DEF IInv, Fresh
  <1>5. PaidClosed'
    <2>1. ~Open(i)' /\ \A j \in DOMAIN escrows : j # i => Open(j)' = Open(j)
      BY <1>1, <1>2 DEF Open
    <2>2. paid[i] = 0
      BY <1>1 DEF IInv, PaidClosed
    <2>3. paid' = [paid EXCEPT ![i] = 1]
      BY <2>2 DEF PayOut
    <2> QED BY <1>1, <2>1, <2>3 DEF IInv, TypeOK, PaidClosed
  <1>6. Postponed'
    BY <1>1, <1>2 DEF IInv, Postponed
  <1> QED BY <1>3, <1>4, <1>5, <1>6 DEF IInv

\* Opening a dispute keeps the invariant and sets the release time.
LEMMA DisputeIInv ==
  ASSUME IInv, NEW i \in DOMAIN escrows, NEW u \in Users, OpenDispute(i, u)
  PROVE  IInv'
  <1> DEFINE e == escrows[i]
             rt == ReleaseTime(e.window)
  <1>1. i \in Ids /\ e \in Escrows /\ now \in Nat /\ e.window \in Windows
    BY EscrowAssumption DEF IInv, TypeOK, Escrows
  <1>2. rt \in Int /\ (Fits(e.window) => rt = now + e.window)
    BY <1>1, ReleaseTimeIsInt, FitsIsExact
  <1> HIDE DEF rt
  <1>3. /\ DOMAIN escrows' = DOMAIN escrows
        /\ escrows'[i] = [e EXCEPT !.status = "disputed", !.releaseTime = rt]
        /\ \A j \in DOMAIN escrows : j # i => escrows'[j] = escrows[j]
    BY DEF OpenDispute, rt
  <1>4. /\ escrows'[i] \in Escrows
        /\ escrows'[i].status = "disputed"
        /\ escrows'[i].window = e.window
        /\ escrows'[i].releaseTime = rt
    BY <1>1, <1>2, <1>3 DEF Escrows, Statuses
  <1>5. /\ disputedAt' \in [Ids -> 0..MaxTime] /\ disputedAt'[i] = now
        /\ \A j \in Ids : j # i => disputedAt'[j] = disputedAt[j]
    BY <1>1 DEF OpenDispute, IInv, TypeOK
  <1>6. (TypeOK /\ Fresh)'
    BY <1>3, <1>4, <1>5 DEF OpenDispute, IInv, TypeOK, Fresh
  <1>7. PaidClosed'
    <2>1. Open(i) /\ \A j \in DOMAIN escrows : Open(j)' = Open(j)
      BY <1>3, <1>4 DEF OpenDispute, Open
    <2> QED BY <1>3, <2>1 DEF OpenDispute, IInv, PaidClosed
  <1>8. Postponed'
    BY <1>2, <1>3, <1>4, <1>5 DEF IInv, TypeOK, Postponed
  <1> QED BY <1>6, <1>7, <1>8 DEF IInv

\* A later block, with EscrowSeq kept or started over, keeps the invariant.
LEMMA BlockIInv ==
  ASSUME IInv, NextBlock \/ ExportImport
  PROVE  IInv'
  <1>1. now \in Int /\ MaxTime \in Nat /\ MaxSeq \in Nat /\ seq \in Int
    BY EscrowAssumption DEF IInv, TypeOK
  <1>2. /\ now' \in 0..MaxTime /\ seq' \in 0..MaxSeq
        /\ now' > now \/ UNCHANGED <<now, seq>>
        /\ UNCHANGED <<escrows, bank, paid, disputedAt>>
    BY <1>1 DEF NextBlock, ExportImport, IInv, TypeOK
  <1>3. TypeOK'
    BY <1>2 DEF IInv, TypeOK
  <1>4. Fresh'
    <2>1. \A i \in DOMAIN escrows : i.block \in Int
      BY <1>1 DEF IInv, TypeOK, Ids
    <2> QED BY <1>1, <1>2, <2>1 DEF IInv, TypeOK, Fresh
  <1>5. (PaidClosed /\ Postponed)'
    BY <1>2 DEF IInv, PaidClosed, Postponed, Open
  <1> QED BY <1>3, <1>4, <1>5 DEF IInv

\* Every step keeps the invariant.
LEMMA StepIInv == IInv /\ [Next]_vars => IInv'
  <1> SUFFICES ASSUME IInv, [Next]_vars PROVE IInv'
    OBVIOUS
  <1>1. ASSUME NEW b \in Users, NEW s \in Users, NEW a \in Amounts, NEW w \in Windows,
               CreateEscrow(b, s, a, w)
        PROVE  IInv'
    BY <1>1, CreateIInv
  <1>2. ASSUME NEW i \in DOMAIN escrows, NEW u \in Users, ReleaseFunds(i, u)
        PROVE  IInv'
    <2>1. escrows[i].seller \in Users /\ Open(i)
      BY <1>2 DEF IInv, TypeOK, Escrows, ReleaseFunds
    <2> QED BY <1>2, <2>1, CloseIInv DEF ReleaseFunds
  <1>3. ASSUME NEW i \in DOMAIN escrows, NEW u \in Users, RefundBuyer(i, u)
        PROVE  IInv'
    <2>1. escrows[i].buyer \in Users /\ Open(i)
      BY <1>3 DEF IInv, TypeOK, Escrows, Statuses, RefundBuyer, Open
    <2> QED BY <1>3, <2>1, CloseIInv DEF RefundBuyer
  <1>4. ASSUME NEW i \in DOMAIN escrows, NEW u \in Users, OpenDispute(i, u)
        PROVE  IInv'
    BY <1>4, DisputeIInv
  <1>5. CASE NextBlock \/ ExportImport
    BY <1>5, BlockIInv
  <1>6. CASE UNCHANGED vars
    BY <1>6 DEF vars, IInv, TypeOK, Fresh, PaidClosed, Postponed, Open
  <1> QED BY <1>1, <1>2, <1>3, <1>4, <1>5, <1>6 DEF Next

LEMMA Invariance == Spec => []IInv
  BY InitIInv, StepIInv, PTL DEF Spec

-----------------------------------------------------------------------------
(* The properties.                                                         *)

\* The keeper's state is well typed, and no account, the module's included,
\* is ever overdrawn by an escrow.
THEOREM EscrowTypeOK == Spec => []TypeOK
  BY Invariance, PTL DEF IInv

\* A dispute holds the release for the whole window the buyer chose, as long
\* as the window fits a time.Duration.
THEOREM EscrowDisputeHolds == Spec => DisputeHolds
  <1>1. IInv /\ [Next]_vars =>
          [\A i \in DOMAIN escrows :
              /\ escrows[i].status = "disputed"
              /\ Fits(escrows[i].window)
              /\ escrows'[i].status = "released"
              => now >= disputedAt[i] + escrows[i].window]_vars
    <2> SUFFICES ASSUME IInv, [Next]_vars, NEW i \in DOMAIN escrows,
                        escrows[i].status = "disputed", Fits(escrows[i].window),
                        escrows'[i].status = "released"
                 PROVE  now >= disputedAt[i] + escrows[i].window
      OBVIOUS
    <2> DEFINE until == disputedAt[i] + escrows[i].window
    <2>1. escrows[i].releaseTime = until
      BY DEF IInv, Postponed
    <2>2. now \in Nat /\ until \in Nat
      <3>1. i \in Ids /\ escrows[i].window \in Nat
        BY EscrowAssumption DEF IInv, TypeOK, Escrows
      <3>2. disputedAt[i] \in Nat /\ now \in Nat
        BY <3>1, EscrowAssumption DEF IInv, TypeOK
      <3> QED BY <3>1, <3>2
    <2>3. PICK u \in Users : ReleaseFunds(i, u)
      <3>1. ASSUME NEW b \in Users, NEW s \in Users, NEW a \in Amounts, NEW w \in Windows,
                   CreateEscrow(b, s, a, w)
            PROVE  FALSE
        BY <3>1, CreateIsFresh DEF CreateEscrow
      <3>2. ASSUME NEW j \in DOMAIN escrows, NEW u \in Users,
                   RefundBuyer(j, u) \/ OpenDispute(j, u)
            PROVE  FALSE
        <4>1. escrows[i] \in Escrows /\ escrows[j] \in Escrows
          BY DEF IInv, TypeOK
        <4>2. escrows'[j].status # "released" /\ (i # j => escrows'[i] = escrows[i])
          BY <3>2, <4>1 DEF RefundBuyer, OpenDispute, Escrows
        <4> QED BY <4>2
      <3>3. ASSUME NEW j \in DOMAIN escrows, NEW u \in Users, ReleaseFunds(j, u)
            PROVE  i = j
        BY <3>3 DEF ReleaseFunds
      <3>4. CASE NextBlock \/ ExportImport \/ UNCHANGED vars
        BY <3>4 DEF NextBlock, ExportImport, vars
      <3> QED BY <3>1, <3>2, <3>3, <3>4 DEF Next
    <2>4. ~(until > 0 /\ now < until)
      BY <2>1, <2>3 DEF ReleaseFunds, WindowElapsed
    <2> QED BY <2>2, <2>4
  <1> QED BY <1>1, Invariance, PTL DEF Spec, DisputeHolds

\* Every step is a step of Settlement, or leaves what it speaks of alone.
LEMMA StepRefines ==
  IInv /\ IInv' /\ [Next]_vars
    => [Promise!Next]_<<[i \in Ids |-> Outcome(i)], paid>>
  <1> DEFINE St == [i \in Ids |-> Outcome(i)]
  <1>1. ASSUME IInv, NEW b \in Users, NEW s \in Users, NEW a \in Amounts, NEW w \in Windows,
               CreateEscrow(b, s, a, w)
        PROVE  Promise!Next
    <2>1. PICK new \in Ids \ DOMAIN escrows : new = EscrowID(b)
      BY <1>1, CreateIsFresh DEF CreateEscrow
    <2>2. /\ DOMAIN escrows' = DOMAIN escrows \cup {new}
          /\ escrows'[new].status = "held"
          /\ \A i \in DOMAIN escrows : escrows'[i] = escrows[i]
      BY <1>1, <2>1 DEF CreateEscrow
    <2>3. /\ St[new] = "absent" /\ Outcome(new)' = "pending"
          /\ \A i \in Ids : i # new => Outcome(i)' = Outcome(i)
      BY <2>1, <2>2 DEF Outcome, Open
    <2>4. Promise!Open(new)
      BY <1>1, <2>1, <2>3 DEF Promise!Open, CreateEscrow
    <2> QED BY <2>1, <2>4 DEF Promise!Next
  <1>2. ASSUME IInv, NEW i \in DOMAIN escrows, NEW to, Open(i),
               NEW outcome \in {"released", "refunded"},
               escrows' = [escrows EXCEPT ![i].status = outcome], PayOut(i, to)
        PROVE  Promise!Next
    <2> DEFINE result == IF outcome = "released" THEN "completed" ELSE "timed_out"
    <2>1. i \in Ids /\ escrows[i] \in Escrows /\ St[i] = "pending" /\ paid[i] = 0
      BY <1>2 DEF IInv, TypeOK, PaidClosed, Outcome
    <2>2. /\ DOMAIN escrows' = DOMAIN escrows
          /\ escrows'[i].status = outcome
          /\ \A j \in DOMAIN escrows : j # i => escrows'[j] = escrows[j]
      BY <1>2, <2>1 DEF Escrows
    <2>3. Outcome(i)' = result /\ \A j \in Ids : j # i => Outcome(j)' = Outcome(j)
      BY <2>2 DEF Outcome, Open
    <2>4. paid' = [j \in Ids |-> IF j \in {i} THEN 1 ELSE paid[j]]
      <3>1. paid' = [paid EXCEPT ![i] = 1]
        BY <1>2, <2>1 DEF PayOut
      <3>2. paid \in [Ids -> Nat]
        BY <1>2 DEF IInv, TypeOK
      <3> QED BY <2>1, <3>1, <3>2
    <2>5. St' = [j \in Ids |-> IF j \in {i} THEN result ELSE St[j]]
      BY <2>1, <2>3
    <2>6. {i} \in SUBSET Promise!Pending /\ Promise!Pay({i}, result)
      BY <2>1, <2>4, <2>5 DEF Promise!Pay, Promise!Pending
    <2> QED BY <2>6 DEF Promise!Next
  <1>3. ASSUME IInv, NEW i \in DOMAIN escrows, NEW u \in Users,
               ReleaseFunds(i, u) \/ RefundBuyer(i, u)
        PROVE  Promise!Next
    <2>1. escrows[i] \in Escrows
      BY <1>3 DEF IInv, TypeOK
    <2>2. Open(i)
      BY <1>3, <2>1 DEF ReleaseFunds, RefundBuyer, Open, Escrows, Statuses
    <2> QED BY <1>2, <1>3, <2>2 DEF ReleaseFunds, RefundBuyer
  <1>4. ASSUME IInv, NEW i \in DOMAIN escrows, NEW u \in Users, OpenDispute(i, u)
        PROVE  UNCHANGED <<St, paid>>
    <2>1. escrows[i] \in Escrows
      BY <1>4 DEF IInv, TypeOK
    <2>2. /\ DOMAIN escrows' = DOMAIN escrows
          /\ escrows[i].status = "held" /\ escrows'[i].status = "disputed"
          /\ \A j \in DOMAIN escrows : j # i => escrows'[j] = escrows[j]
          /\ UNCHANGED paid
      BY <1>4, <2>1 DEF OpenDispute, Escrows
    <2>3. \A j \in Ids : Outcome(j)' = Outcome(j)
      BY <2>2 DEF Outcome, Open
    <2> QED BY <2>2, <2>3
  <1>5. ASSUME NextBlock \/ ExportImport \/ UNCHANGED vars
        PROVE  UNCHANGED <<St, paid>>
    <2>1. UNCHANGED <<escrows, paid>>
      BY <1>5 DEF NextBlock, ExportImport, vars
    <2>2. \A j \in Ids : Outcome(j)' = Outcome(j)
      BY <2>1 DEF Outcome, Open
    <2> QED BY <2>1, <2>2
  <1> QED BY <1>1, <1>3, <1>4, <1>5 DEF Next

\* x/marketplace keeps the same promise as the bridge: an escrow is opened
\* once and never replaced, closed once, and paid for once, in that step.
THEOREM EscrowSettles == Spec => Settles
  <1>1. Init => Promise!Init
    <2> SUFFICES ASSUME Init PROVE Promise!Init
      OBVIOUS
    <2>1. \A i \in Ids : Outcome(i) = "absent"
      BY DEF Init, Outcome
    <2> QED BY <2>1 DEF Init, Promise!Init
  <1> QED BY <1>1, Invariance, StepRefines, PTL DEF Spec, Settles, Promise!Spec

-----------------------------------------------------------------------------
(* The accounts.                                                           *)

\* Accounted, with the finiteness its sums need.
AInv == IsFiniteSet(DOMAIN escrows) /\ Accounted

\* What the sums run over.
AmountOf == [i \in DOMAIN escrows |-> escrows[i].amount]

\* The parts of a finite store are finite, and their sums are naturals.
LEMMA PartsAreFinite ==
  ASSUME IInv, IsFiniteSet(DOMAIN escrows), NEW S, S \subseteq DOMAIN escrows
  PROVE  IsFiniteSet(S) /\ Total(S) \in Nat
<1>1. IsFiniteSet(S)
  BY FS_Subset
<1>2. \A i \in S : AmountOf[i] \in Nat
  BY EscrowAssumption DEF AmountOf, IInv, TypeOK, Escrows
<1> QED BY <1>1, <1>2, SumNat DEF Total, AmountOf

\* The sets the sums run over are parts of the store.
LEMMA PartsOfStore ==
  /\ Held \subseteq DOMAIN escrows
  /\ \A u \in Users : Bought(u) \subseteq DOMAIN escrows /\ Sold(u) \subseteq DOMAIN escrows
  BY DEF Held, Bought, Sold, In

\* A step that keeps the amounts of S keeps its sum.
LEMMA TotalStays ==
  ASSUME NEW S, IsFiniteSet(S), S \subseteq DOMAIN escrows, S \subseteq DOMAIN escrows',
         \A i \in S : escrows'[i].amount = escrows[i].amount
  PROVE  SumFunctionOnSet(AmountOf', S) = Total(S)
<1>1. \A i \in S : AmountOf'[i] = AmountOf[i]
  BY DEF AmountOf
<1>2. SumFunctionOnSet(AmountOf', S) = SumFunctionOnSet(AmountOf, S)
  BY <1>1, SumSame
<1> QED BY <1>2 DEF Total, AmountOf

\* CreateEscrow adds what it locks to the sum of the open escrows and to what
\* the buyer has bought.
LEMMA CreateAInv ==
  ASSUME IInv, IInv', AInv, NEW b \in Users, NEW s \in Users, NEW a \in Amounts, NEW w \in Windows,
         CreateEscrow(b, s, a, w)
  PROVE  AInv'
<1>1. PICK new \in Ids \ DOMAIN escrows : new = EscrowID(b)
  BY CreateIsFresh DEF CreateEscrow
<1>2. /\ DOMAIN escrows' = DOMAIN escrows \cup {new}
      /\ escrows'[new] = [buyer |-> b, seller |-> s, amount |-> a, status |-> "held",
                          window |-> w, releaseTime |-> 0]
      /\ \A i \in DOMAIN escrows : escrows'[i] = escrows[i]
  BY <1>1 DEF CreateEscrow
<1>3. IsFiniteSet(DOMAIN escrows) /\ IsFiniteSet(DOMAIN escrows')
  BY <1>2, FS_AddElement DEF AInv
<1>4. a \in Nat /\ AmountOf'[new] = a
  BY <1>2, EscrowAssumption DEF AmountOf
<1>5. \A i \in DOMAIN escrows' : AmountOf'[i] \in Int
  <2> SUFFICES ASSUME NEW i \in DOMAIN escrows' PROVE AmountOf'[i] \in Int
    OBVIOUS
  <2>1. escrows'[i] \in Escrows
    BY DEF IInv, TypeOK
  <2>2. escrows'[i].amount \in Amounts
    BY <2>1 DEF Escrows
  <2>3. Amounts \subseteq Int
    BY EscrowAssumption
  <2> QED BY <2>2, <2>3 DEF AmountOf
<1>6. ASSUME NEW S, S \subseteq DOMAIN escrows
      PROVE  /\ SumFunctionOnSet(AmountOf', S) = Total(S)
             /\ SumFunctionOnSet(AmountOf', S \cup {new}) = a + Total(S)
  <2>1. IsFiniteSet(S) /\ new \notin S
    BY <1>1, <1>3, <1>6, FS_Subset
  <2>2. SumFunctionOnSet(AmountOf', S) = Total(S)
    BY <1>2, <1>6, <2>1, TotalStays
  <2>3. \A x \in S \cup {new} : AmountOf'[x] \in Int
    BY <1>2, <1>5, <1>6
  <2>4. SumFunctionOnSet(AmountOf', S \cup {new}) = AmountOf'[new] + SumFunctionOnSet(AmountOf', S)
    BY <2>1, <2>3, SumIn
  <2> QED BY <1>4, <2>2, <2>4
<1>7. /\ Held' = Held \cup {new}
      /\ \A u \in Users : /\ Bought(u)' = IF u = b THEN Bought(u) \cup {new} ELSE Bought(u)
                          /\ Sold(u)' = Sold(u)
  BY <1>2 DEF Held, Bought, Sold, In, Statuses
<1>8. \A S : Total(S)' = SumFunctionOnSet(AmountOf', S')
  BY DEF Total, AmountOf
<1>9. /\ Total(Held)' = a + Total(Held)
      /\ \A u \in Users :
            /\ Total(Bought(u))' = IF u = b THEN a + Total(Bought(u)) ELSE Total(Bought(u))
            /\ Total(Sold(u))' = Total(Sold(u))
  BY <1>6, <1>7, <1>8, PartsOfStore
<1>10. /\ bank'[Module] = bank[Module] + a
       /\ bank'[b] = bank[b] - a
       /\ \A u \in Users \ {b} : bank'[u] = bank[u]
  BY EscrowAssumption DEF CreateEscrow, Send, IInv, TypeOK
<1>11. /\ Total(Held) \in Nat /\ Funds \in Nat
       /\ \A u \in Users : Total(Bought(u)) \in Nat /\ Total(Sold(u)) \in Nat
  BY <1>3, PartsAreFinite, PartsOfStore, EscrowAssumption
<1>12. bank'[Module] = Total(Held)'
  BY <1>4, <1>9, <1>10, <1>11 DEF AInv, Accounted
<1>13. ASSUME NEW u \in Users
       PROVE  bank'[u] = Funds - Total(Bought(u))' + Total(Sold(u))'
  <2>1. bank[u] = Funds - Total(Bought(u)) + Total(Sold(u))
    BY DEF AInv, Accounted
  <2> QED BY <1>4, <1>9, <1>10, <1>11, <2>1
<1> QED BY <1>3, <1>12, <1>13 DEF AInv, Accounted

\* Closing an escrow takes it out of the open ones and books it with the
\* seller, who is paid, or strikes it from what the buyer, who is paid, bought.
LEMMA CloseAInv ==
  ASSUME IInv, IInv', AInv, NEW i \in DOMAIN escrows, Open(i), NEW to \in Users,
         NEW outcome \in {"released", "refunded"},
         to = IF outcome = "released" THEN escrows[i].seller ELSE escrows[i].buyer,
         escrows' = [escrows EXCEPT ![i].status = outcome], PayOut(i, to)
  PROVE  AInv'
<1> DEFINE a == escrows[i].amount
<1>1. escrows[i] \in Escrows
  BY DEF IInv, TypeOK
<1>2. /\ DOMAIN escrows' = DOMAIN escrows
      /\ escrows'[i] = [escrows[i] EXCEPT !.status = outcome]
      /\ \A j \in DOMAIN escrows : j # i => escrows'[j] = escrows[j]
  OBVIOUS
<1>3. /\ escrows'[i].status = outcome
      /\ \A j \in DOMAIN escrows : /\ escrows'[j].amount = escrows[j].amount
                                   /\ escrows'[j].buyer = escrows[j].buyer
                                   /\ escrows'[j].seller = escrows[j].seller
                                   /\ j # i => escrows'[j].status = escrows[j].status
  BY <1>1, <1>2 DEF Escrows
<1>4. escrows[i].status \in {"held", "disputed"} /\ i \in Held
  BY DEF Open, Held, In
<1>5. /\ Held' = Held \ {i}
      /\ \A u \in Users :
            /\ Bought(u)' = IF u = to /\ outcome = "refunded" THEN Bought(u) \ {i} ELSE Bought(u)
            /\ Sold(u)' = IF u = to /\ outcome = "released" THEN Sold(u) \cup {i} ELSE Sold(u)
  <2>1. Held' = Held \ {i}
    BY <1>2, <1>3 DEF Held, In
  <2>2. CASE outcome = "released"
    BY <1>2, <1>3, <1>4, <2>1, <2>2 DEF Bought, Sold, In, Statuses
  <2>3. CASE outcome = "refunded"
    BY <1>2, <1>3, <1>4, <2>1, <2>3 DEF Bought, Sold, In, Statuses
  <2> QED BY <2>2, <2>3
<1>6. /\ i \notin Sold(to)
      /\ outcome = "refunded" => i \in Bought(to)
  BY <1>1, <1>4 DEF Sold, Bought, In, Escrows, Statuses
<1>7. /\ IsFiniteSet(DOMAIN escrows) /\ IsFiniteSet(DOMAIN escrows') /\ a \in Nat
      /\ AmountOf[i] = a /\ \A j \in DOMAIN escrows : AmountOf[j] \in Int
  BY <1>2, <1>1, EscrowAssumption DEF AInv, AmountOf, IInv, TypeOK, Escrows
<1>8. ASSUME NEW S, S \subseteq DOMAIN escrows
      PROVE  SumFunctionOnSet(AmountOf', S) = Total(S)
  <2>1. IsFiniteSet(S)
    BY <1>7, <1>8, FS_Subset
  <2> QED BY <1>2, <1>3, <1>8, <2>1, TotalStays
<1>9. ASSUME NEW S, S \subseteq DOMAIN escrows
      PROVE  /\ i \in S => Total(S \ {i}) = Total(S) - a
             /\ i \notin S => Total(S \cup {i}) = Total(S) + a
  <2>1. IsFiniteSet(S) /\ Total(S) \in Nat
    BY <1>7, <1>9, PartsAreFinite
  <2>2. CASE i \in S
    <3>1. IsFiniteSet(S \ {i}) /\ Total(S \ {i}) \in Nat
      BY <1>7, <1>9, PartsAreFinite
    <3>2. \A j \in S : AmountOf[j] \in Int
      BY <1>7, <1>9
    <3>3. Total(S) = a + Total(S \ {i})
      BY <1>7, <2>1, <2>2, <3>2, SumOut DEF Total, AmountOf
    <3> QED BY <1>7, <2>1, <2>2, <3>1, <3>3
  <2>3. CASE i \notin S
    <3>1. \A j \in S \cup {i} : AmountOf[j] \in Int
      BY <1>7, <1>9
    <3>2. Total(S \cup {i}) = a + Total(S)
      BY <1>7, <2>1, <2>3, <3>1, SumIn DEF Total, AmountOf
    <3> QED BY <1>7, <2>1, <2>3, <3>2
  <2> QED BY <2>2, <2>3
<1>10. \A S : Total(S)' = SumFunctionOnSet(AmountOf', S')
  BY DEF Total, AmountOf
<1>11. /\ Total(Held)' = Total(Held) - a
       /\ \A u \in Users :
            /\ Total(Bought(u))' = IF u = to /\ outcome = "refunded" THEN Total(Bought(u)) - a
                                   ELSE Total(Bought(u))
            /\ Total(Sold(u))' = IF u = to /\ outcome = "released" THEN Total(Sold(u)) + a
                                 ELSE Total(Sold(u))
  <2>1. Total(Held)' = Total(Held \ {i})
    BY <1>5, <1>8, <1>10, PartsOfStore
  <2>2. ASSUME NEW u \in Users
        PROVE  /\ Total(Bought(u))' = Total(IF u = to /\ outcome = "refunded"
                                            THEN Bought(u) \ {i} ELSE Bought(u))
               /\ Total(Sold(u))' = Total(IF u = to /\ outcome = "released"
                                          THEN Sold(u) \cup {i} ELSE Sold(u))
    <3>1. /\ Bought(u) \subseteq DOMAIN escrows /\ Bought(u) \ {i} \subseteq DOMAIN escrows
          /\ Sold(u) \subseteq DOMAIN escrows /\ Sold(u) \cup {i} \subseteq DOMAIN escrows
      BY PartsOfStore
    <3> QED BY <1>5, <1>8, <1>10, <3>1
  <2> QED BY <1>4, <1>6, <1>9, <2>1, <2>2, PartsOfStore
<1>12. /\ bank'[Module] = bank[Module] - a
       /\ bank'[to] = bank[to] + a
       /\ \A u \in Users \ {to} : bank'[u] = bank[u]
  BY EscrowAssumption DEF PayOut, Send, IInv, TypeOK
<1>13. /\ Total(Held) \in Nat /\ Funds \in Nat
       /\ \A u \in Users : Total(Bought(u)) \in Nat /\ Total(Sold(u)) \in Nat
  BY <1>7, PartsAreFinite, PartsOfStore, EscrowAssumption
<1> HIDE DEF a
<1>14. bank'[Module] = Total(Held)'
  BY <1>7, <1>11, <1>12, <1>13 DEF AInv, Accounted
<1>15. ASSUME NEW u \in Users
       PROVE  bank'[u] = Funds - Total(Bought(u))' + Total(Sold(u))'
  <2>1. bank[u] = Funds - Total(Bought(u)) + Total(Sold(u))
    BY DEF AInv, Accounted
  <2> QED BY <1>7, <1>11, <1>12, <1>13, <2>1
<1> QED BY <1>7, <1>14, <1>15 DEF AInv, Accounted

\* A step that moves no coin and changes neither the outcome nor the parties of
\* an escrow keeps the accounts.
LEMMA QuietAInv ==
  ASSUME IInv, AInv, DOMAIN escrows' = DOMAIN escrows, UNCHANGED bank,
         \A i \in DOMAIN escrows :
            /\ escrows'[i].amount = escrows[i].amount
            /\ escrows'[i].buyer = escrows[i].buyer
            /\ escrows'[i].seller = escrows[i].seller
            /\ \/ escrows'[i].status = escrows[i].status
               \/ escrows[i].status = "held" /\ escrows'[i].status = "disputed"
  PROVE  AInv'
<1>1. Held' = Held /\ \A u \in Users : Bought(u)' = Bought(u) /\ Sold(u)' = Sold(u)
  BY DEF Held, Bought, Sold, In, Statuses
<1>2. ASSUME NEW S, S \subseteq DOMAIN escrows
      PROVE  SumFunctionOnSet(AmountOf', S) = Total(S)
  <2>1. IsFiniteSet(S)
    BY <1>2, FS_Subset DEF AInv
  <2> QED BY <1>2, <2>1, TotalStays
<1>3. \A S : Total(S)' = SumFunctionOnSet(AmountOf', S')
  BY DEF Total, AmountOf
<1>4. /\ Total(Held)' = Total(Held)
      /\ \A u \in Users : Total(Bought(u))' = Total(Bought(u)) /\ Total(Sold(u))' = Total(Sold(u))
  BY <1>1, <1>2, <1>3, PartsOfStore
<1> QED BY <1>4 DEF AInv, Accounted

\* Every step keeps the accounts.
LEMMA StepAInv == IInv /\ IInv' /\ AInv /\ [Next]_vars => AInv'
<1> SUFFICES ASSUME IInv, IInv', AInv, [Next]_vars PROVE AInv'
  OBVIOUS
<1>1. ASSUME NEW b \in Users, NEW s \in Users, NEW a \in Amounts, NEW w \in Windows,
             CreateEscrow(b, s, a, w)
      PROVE  AInv'
  BY <1>1, CreateAInv
<1>2. ASSUME NEW i \in DOMAIN escrows, NEW u \in Users, ReleaseFunds(i, u)
      PROVE  AInv'
  <2>1. escrows[i].seller \in Users /\ Open(i)
    BY <1>2 DEF IInv, TypeOK, Escrows, ReleaseFunds
  <2> QED BY <1>2, <2>1, CloseAInv DEF ReleaseFunds
<1>3. ASSUME NEW i \in DOMAIN escrows, NEW u \in Users, RefundBuyer(i, u)
      PROVE  AInv'
  <2>1. escrows[i].buyer \in Users /\ Open(i)
    BY <1>3 DEF IInv, TypeOK, Escrows, Statuses, RefundBuyer, Open
  <2> QED BY <1>3, <2>1, CloseAInv DEF RefundBuyer
<1>4. ASSUME NEW i \in DOMAIN escrows, NEW u \in Users, OpenDispute(i, u)
      PROVE  AInv'
  <2>1. escrows[i] \in Escrows /\ escrows[i].status = "held"
    BY <1>4 DEF IInv, TypeOK, OpenDispute
  <2>2. /\ DOMAIN escrows' = DOMAIN escrows /\ UNCHANGED bank
        /\ \A j \in DOMAIN escrows :
              /\ escrows'[j].amount = escrows[j].amount
              /\ escrows'[j].buyer = escrows[j].buyer
              /\ escrows'[j].seller = escrows[j].seller
              /\ \/ escrows'[j].status = escrows[j].status
                 \/ escrows[j].status = "held" /\ escrows'[j].status = "disputed"
    BY <1>4, <2>1 DEF OpenDispute, Escrows
  <2> QED BY <2>2, QuietAInv
<1>5. CASE NextBlock \/ ExportImport \/ UNCHANGED vars
  <2>1. UNCHANGED <<escrows, bank>>
    BY <1>5 DEF NextBlock, ExportImport, vars
  <2> QED BY <2>1, QuietAInv
<1> QED BY <1>1, <1>2, <1>3, <1>4, <1>5 DEF Next

\* The module account holds exactly the coins of the open escrows, and every
\* user what the escrows it bought and sold leave: no lock is lost and none is
\* paid from another's coins, for any number of users and escrows.
THEOREM EscrowAccounted == Spec => []Accounted
<1>1. Init => AInv
  <2> SUFFICES ASSUME Init PROVE AInv
    OBVIOUS
  <2>1. DOMAIN escrows = {} /\ IsFiniteSet(DOMAIN escrows)
    BY FS_EmptySet DEF Init
  <2>2. Held = {} /\ \A u \in Users : Bought(u) = {} /\ Sold(u) = {}
    BY <2>1 DEF Held, Bought, Sold, In
  <2>3. Total({}) = 0
    BY SumEmpty DEF Total
  <2>4. /\ Funds \in Int /\ bank[Module] = 0
        /\ \A u \in Users : bank[u] = Funds
    BY EscrowAssumption DEF Init
  <2>5. bank[Module] = Total(Held)
    BY <2>2, <2>3, <2>4
  <2>6. \A u \in Users : bank[u] = Funds - Total(Bought(u)) + Total(Sold(u))
    BY <2>2, <2>3, <2>4
  <2> QED BY <2>1, <2>5, <2>6 DEF AInv, Accounted
<1> QED BY <1>1, Invariance, StepAInv, PTL DEF Spec, AInv
=============================================================================
