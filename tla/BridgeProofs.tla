---------------------------- MODULE BridgeProofs ----------------------------
(***************************************************************************)
(* Theorems about Bridge for every value of its constants.                 *)
(*                                                                         *)
(* SettledOnce is not inductive: that a pending transfer has cost nothing  *)
(* is kept by InitiateBridgeTransfer only because the id it takes was      *)
(* never used (Fresh).  IInv adds that and the types of the variables the  *)
(* handlers branch on.  The amounts follow in a second part, on top of it. *)
(***************************************************************************)
EXTENDS Bridge, SumLemmas, SequenceTheorems, TLAPS

\* The ids from NextTransferId on have never been used.
Fresh == \A i \in Ids : i >= nextId => status[i] = "absent"

IInv == ControlTypeOK /\ Fresh /\ SettledOnce /\ PendingIndex /\ PendingHasMeta

\* A transfer's recorded timeout is a number of blocks: the parameter, or the default.
LEMMA TimeoutIsNat == ASSUME ControlTypeOK PROVE TimeoutBlocks \in Nat
  BY BridgeAssumption DEF ControlTypeOK, TimeoutBlocks

\* The state before the first block satisfies the invariant.
LEMMA InitIInv == Init => IInv
  BY BridgeAssumption
     DEF Init, IInv, ControlTypeOK, Fresh, SettledOnce, PendingIndex, PendingHasMeta,
         IsPending, Ids, Metas, Statuses, Fates

\* Opening a transfer takes an id nothing was ever paid for.
LEMMA InitiateIInv ==
  ASSUME IInv, NEW c \in Chains, NEW a \in Amounts, NEW local \in BOOLEAN,
         InitiateBridgeTransfer(c, a, local)
  PROVE  IInv'
  <1> DEFINE i == nextId
  <1>1. i \in Ids /\ status[i] = "absent" /\ paid[i] = 0
    BY DEF IInv, Fresh, SettledOnce, ControlTypeOK, InitiateBridgeTransfer, Ids
  <1>2. NewMeta(c \in routes) \in Metas
    BY TimeoutIsNat DEF NewMeta, Metas, IInv, ControlTypeOK
  <1>3. /\ info' = [info EXCEPT ![i] = [chain |-> c, amount |-> a, local |-> local]]
        /\ status' = [status EXCEPT ![i] = "pending"]
        /\ meta' = [meta EXCEPT ![i] = NewMeta(c \in routes)]
        /\ pending' = pending \cup {i}
        /\ nextId' = i + 1
        /\ UNCHANGED <<height, params, routes, paid>>
        /\ packet' \in [Ids -> Fates]
    BY <1>1 DEF InitiateBridgeTransfer, IInv, ControlTypeOK, Fates
  <1>4. NewMeta(c \in routes) # NoMeta
    BY <1>2, BridgeAssumption DEF NewMeta, NoMeta
  <1>5. ControlTypeOK'
    <2>1. nextId' \in 1..(MaxTransfers + 1)
      BY <1>1, <1>3, BridgeAssumption DEF Ids
    <2>2. info' \in [Ids -> Transfers \cup {NoTransfer}]
      BY <1>3 DEF IInv, ControlTypeOK, Transfers
    <2>3. status' \in [Ids -> Statuses] /\ meta' \in [Ids -> Metas \cup {NoMeta}]
      BY <1>2, <1>3 DEF IInv, ControlTypeOK, Statuses
    <2> QED BY <1>1, <1>3, <2>1, <2>2, <2>3 DEF IInv, ControlTypeOK
  <1>6. (Fresh /\ SettledOnce)'
    BY <1>1, <1>3 DEF IInv, ControlTypeOK, Fresh, SettledOnce, Ids
  <1>7. (PendingIndex /\ PendingHasMeta)'
    BY <1>1, <1>3, <1>4 DEF IInv, ControlTypeOK, PendingIndex, PendingHasMeta, IsPending
  <1> QED BY <1>5, <1>6, <1>7 DEF IInv

\* Closing pending transfers with one payment each, as a refund by timeout, a
\* completion by proof and the EndBlocker all do, keeps the invariant.
LEMMA PayIInv ==
  ASSUME IInv, NEW T \in SUBSET Ids, NEW outcome \in {"completed", "timed_out"},
         \A i \in T : IsPending(i),
         PayFor(T, outcome), DropMeta(T), pending' = pending \ T,
         height' \in 0..MaxHeight, packet' \in [Ids -> Fates],
         UNCHANGED <<params, routes, nextId, info>>
  PROVE  IInv'
  <1>1. ControlTypeOK'
    BY DEF IInv, ControlTypeOK, PayFor, DropMeta, Statuses
  <1>2. (Fresh /\ SettledOnce)'
    BY DEF IInv, ControlTypeOK, Fresh, SettledOnce, PayFor, IsPending
  <1>3. (PendingIndex /\ PendingHasMeta)'
    BY DEF IInv, ControlTypeOK, PendingIndex, PendingHasMeta, PayFor, DropMeta, IsPending
  <1> QED BY <1>1, <1>2, <1>3 DEF IInv

\* A step that leaves the records of all transfers alone.
LEMMA IdleIInv ==
  ASSUME IInv, height' \in 0..MaxHeight, params' \in ParamChoices, routes' \in SUBSET Chains,
         packet' \in [Ids -> Fates], UNCHANGED <<nextId, info, status, meta, pending, paid>>
  PROVE  IInv'
  BY DEF IInv, ControlTypeOK, Fresh, SettledOnce, PendingIndex, PendingHasMeta, IsPending

\* A success acknowledgement closes a transfer that is still pending, for nothing.
LEMMA AckSuccessIInv ==
  ASSUME IInv, NEW i \in Ids, AckSuccess(i)
  PROVE  IInv'
  <1>0. packet' \in [Ids -> Fates]
    BY DEF AckSuccess, IInv, ControlTypeOK, Fates
  <1>1. CASE IsPending(i)
    <2>1. /\ status' = [status EXCEPT ![i] = "completed"]
          /\ pending' = pending \ {i}
          /\ UNCHANGED <<height, params, routes, nextId, info, meta, paid>>
      BY <1>1 DEF AckSuccess, MoveToCompleted, bankVars
    <2>2. ControlTypeOK'
      BY <1>0, <2>1 DEF IInv, ControlTypeOK, Statuses
    <2>3. (Fresh /\ SettledOnce)'
      BY <1>1, <2>1 DEF IInv, ControlTypeOK, Fresh, SettledOnce, IsPending
    <2>4. (PendingIndex /\ PendingHasMeta)'
      BY <1>1, <2>1 DEF IInv, ControlTypeOK, PendingIndex, PendingHasMeta, IsPending
    <2> QED BY <2>2, <2>3, <2>4 DEF IInv
  <1>2. CASE ~IsPending(i)
    BY <1>0, <1>2, IdleIInv DEF AckSuccess, bankVars, IInv, ControlTypeOK
  <1> QED BY <1>1, <1>2

\* Every step keeps the invariant.
LEMMA NextIInv == IInv /\ [Next]_vars => IInv'
  <1> SUFFICES ASSUME IInv, [Next]_vars PROVE IInv'
    OBVIOUS
  <1> USE DEF bridgeVars, bankVars
  <1>0. /\ height \in 0..MaxHeight /\ params \in ParamChoices /\ routes \in SUBSET Chains
        /\ packet \in [Ids -> Fates] /\ MaxHeight \in Nat
    BY BridgeAssumption DEF IInv, ControlTypeOK
  <1>1. ASSUME NEW c \in Chains, NEW a \in Amounts, NEW local \in BOOLEAN,
               InitiateBridgeTransfer(c, a, local)
        PROVE  IInv'
    BY <1>1, InitiateIInv
  <1>2. ASSUME NEW i \in Ids, CompleteBridgeTransfer(i)
        PROVE  IInv'
    BY <1>0, <1>2, PayIInv DEF CompleteBridgeTransfer, MoveToCompleted
  <1>3. ASSUME NEW p \in ParamChoices, UpdateParams(p)
        PROVE  IInv'
    BY <1>0, <1>3, IdleIInv DEF UpdateParams
  <1>4. ASSUME NEW c \in MayRoute, SetChainRoute(c)
        PROVE  IInv'
    <2>1. routes' \in SUBSET Chains
      BY <1>0, <1>4, BridgeAssumption DEF SetChainRoute
    <2> QED BY <1>0, <1>4, <2>1, IdleIInv DEF SetChainRoute
  <1>5. ASSUME NEW i \in Ids, RecvPacket(i) \/ AckError(i)
        PROVE  IInv'
    <2>1. packet' \in [Ids -> Fates]
      BY <1>0, <1>5 DEF RecvPacket, AckError, Fates
    <2> QED BY <1>0, <1>5, <2>1, IdleIInv DEF RecvPacket, AckError
  <1>6. ASSUME NEW i \in Ids, AckSuccess(i)
        PROVE  IInv'
    BY <1>6, AckSuccessIInv
  <1>7. ASSUME NEW i \in Ids, TimeoutPacket(i)
        PROVE  IInv'
    <2>1. packet' \in [Ids -> Fates]
      BY <1>0, <1>7 DEF TimeoutPacket, Fates
    <2>2. CASE RefundOnTimeout(i)
      BY <1>0, <1>7, <2>1, <2>2, PayIInv DEF TimeoutPacket, RefundOnTimeout, MoveToCompleted
    <2>3. CASE ~RefundOnTimeout(i)
      BY <1>0, <1>7, <2>1, <2>3, IdleIInv DEF TimeoutPacket
    <2> QED BY <2>2, <2>3
  <1>8. ASSUME EndBlock PROVE IInv'
    <2>1. PICK T \in SUBSET Expired :
             /\ PayFor(T, "timed_out") /\ DropMeta(T) /\ pending' = pending \ T
             /\ height' = IF height < MaxHeight THEN height + 1 ELSE height
             /\ UNCHANGED <<params, routes, nextId, info, escrow, packet>>
      BY <1>8 DEF EndBlock
    <2>2. T \in SUBSET Ids /\ \A i \in T : IsPending(i)
      BY DEF Expired
    <2>3. height' \in 0..MaxHeight
      BY <1>0, <2>1
    <2> QED BY <1>0, <2>1, <2>2, <2>3, PayIInv
  <1>9. CASE UNCHANGED vars
    BY <1>0, <1>9, IdleIInv DEF vars
  <1> QED
    BY <1>1, <1>2, <1>3, <1>4, <1>5, <1>6, <1>7, <1>8, <1>9 DEF Next, Message, Relay

\* The strengthened invariant holds of every reachable state.
THEOREM Invariance == Spec => []IInv
  BY InitIInv, NextIInv, PTL DEF Spec

\* Whatever the interleaving of proofs, acknowledgements, packet timeouts and
\* block timeouts, the module account pays for a transfer at most once.
THEOREM BridgeSettledOnce == Spec => []SettledOnce
  BY Invariance, PTL DEF IInv

\* The list that queries read agrees with the statuses the handlers read.
THEOREM BridgePendingIndex == Spec => []PendingIndex
  BY Invariance, PTL DEF IInv

\* The EndBlocker can find every pending transfer.
THEOREM BridgePendingHasMeta == Spec => []PendingHasMeta
  BY Invariance, PTL DEF IInv

-----------------------------------------------------------------------------
(* The bridge implements Settlement.                                       *)

\* Closing a set of pending transfers is one step of the promise.
LEMMA PayRefines ==
  ASSUME IInv, NEW T \in SUBSET Ids, NEW outcome \in {"completed", "timed_out"},
         \A i \in T : IsPending(i), PayFor(T, outcome)
  PROVE  T \in SUBSET Promise!Pending /\ Promise!Pay(T, outcome)
  BY DEF IInv, SettledOnce, ControlTypeOK, IsPending, PayFor, Promise!Pay, Promise!Pending

\* Every step of the bridge is a step of the promise, or leaves it where it is.
LEMMA StepRefines ==
  IInv /\ [Next]_vars => [Promise!Next]_<<status, paid>>
  <1> SUFFICES ASSUME IInv, [Next]_vars, UNCHANGED <<status, paid>> => FALSE
               PROVE  Promise!Next
    OBVIOUS
  <1> USE DEF bridgeVars, bankVars
  <1>1. ASSUME NEW c \in Chains, NEW a \in Amounts, NEW local \in BOOLEAN,
               InitiateBridgeTransfer(c, a, local)
        PROVE  Promise!Next
    <2>1. nextId \in Ids /\ Promise!Open(nextId)
      BY <1>1 DEF IInv, Fresh, ControlTypeOK, InitiateBridgeTransfer, Promise!Open, Ids
    <2> QED BY <2>1 DEF Promise!Next
  <1>2. ASSUME NEW i \in Ids, CompleteBridgeTransfer(i)
        PROVE  Promise!Next
    <2>1. {i} \in SUBSET Promise!Pending /\ Promise!Pay({i}, "completed")
      BY <1>2, PayRefines DEF CompleteBridgeTransfer
    <2> QED BY <2>1 DEF Promise!Next
  <1>3. ASSUME NEW i \in Ids, AckSuccess(i)
        PROVE  Promise!Next
    <2>1. Promise!Deliver(i)
      BY <1>3 DEF AckSuccess, IsPending, Promise!Deliver
    <2> QED BY <2>1 DEF Promise!Next
  <1>4. ASSUME NEW i \in Ids, TimeoutPacket(i)
        PROVE  Promise!Next
    <2>1. {i} \in SUBSET Promise!Pending /\ Promise!Pay({i}, "timed_out")
      BY <1>4, PayRefines DEF TimeoutPacket, RefundOnTimeout
    <2> QED BY <2>1 DEF Promise!Next
  <1>5. ASSUME EndBlock PROVE Promise!Next
    <2>1. PICK T \in SUBSET Expired : PayFor(T, "timed_out")
      BY <1>5 DEF EndBlock
    <2>2. T \in SUBSET Promise!Pending /\ Promise!Pay(T, "timed_out")
      BY <2>1, PayRefines DEF Expired
    <2> QED BY <2>2 DEF Promise!Next
  <1>6. CASE \/ \E p \in ParamChoices : UpdateParams(p)
             \/ \E c \in MayRoute : SetChainRoute(c)
             \/ \E i \in Ids : RecvPacket(i) \/ AckError(i)
             \/ UNCHANGED vars
    BY <1>6 DEF UpdateParams, SetChainRoute, RecvPacket, AckError, vars
  <1> QED
    BY <1>1, <1>2, <1>3, <1>4, <1>5, <1>6 DEF Next, Message, Relay

\* x/crosschain keeps its promise: a transfer is opened once, settled at most
\* once, and paid for by the module account only in the step that settles it.
THEOREM BridgeSettles == Spec => Settles
  <1>1. Init => Promise!Init
    BY DEF Init, Promise!Init
  <1> QED BY <1>1, Invariance, StepRefines, PTL DEF Spec, Settles, Promise!Spec

-----------------------------------------------------------------------------
(* What sets of transfers are worth.                                       *)

\* AmountOf with the records as a parameter.
Worth(f, S) == SumFunctionOnSet([i \in S |-> f[i].amount], S)

\* AmountOf, now and in the next state.
LEMMA AmountIsWorth ==
  /\ \A S : AmountOf(S) = Worth(info, S)
  /\ \A S : SumFunction([i \in S |-> info'[i].amount]) = Worth(info', S)
  BY DEF AmountOf, Worth, SumFunction

\* The ids are finitely many.
LEMMA FiniteIds == IsFiniteSet(Ids) /\ \A S \in SUBSET Ids : IsFiniteSet(S)
  <1>1. IsFiniteSet(Ids)
    BY BridgeAssumption, FS_Interval DEF Ids
  <1> QED BY <1>1, FS_Subset

\* A record of a transfer has an amount.
LEMMA AmountTyped == \A t \in Transfers : t.amount \in Nat /\ t.chain \in Chains
  BY BridgeAssumption DEF Transfers

\* Opened transfers are worth a natural number.
LEMMA WorthTyped ==
  ASSUME NEW S \in SUBSET Ids, NEW f, \A i \in S : f[i] \in Transfers
  PROVE  Worth(f, S) \in Nat
  <1> DEFINE a == [i \in S |-> f[i].amount]
  <1>1. IsFiniteSet(S)
    BY FiniteIds
  <1>2. \A i \in S : a[i] \in Nat
    BY AmountTyped
  <1> HIDE DEF a
  <1>3. SumFunctionOnSet(a, S) \in Nat
    BY <1>1, <1>2, SumNat
  <1> QED BY <1>3 DEF Worth, a

\* The records of the set decide what it is worth.
LEMMA WorthSame ==
  ASSUME NEW S, NEW f, NEW g, \A i \in S : f[i] = g[i]
  PROVE  Worth(f, S) = Worth(g, S)
  <1>1. [i \in S |-> f[i].amount] = [i \in S |-> g[i].amount]
    OBVIOUS
  <1> QED BY <1>1 DEF Worth

\* Nothing is worth nothing.
LEMMA WorthEmpty == ASSUME NEW f PROVE Worth(f, {}) = 0
  BY SumEmpty DEF Worth

\* Two sets without a common transfer.
LEMMA WorthUnion ==
  ASSUME NEW S \in SUBSET Ids, NEW R \in SUBSET Ids, S \cap R = {}, NEW f,
         \A i \in S \cup R : f[i] \in Transfers
  PROVE  Worth(f, S \cup R) = Worth(f, S) + Worth(f, R)
  <1> DEFINE a == [i \in S \cup R |-> f[i].amount]
             b == [i \in S |-> f[i].amount]
             c == [i \in R |-> f[i].amount]
  <1>1. IsFiniteSet(S) /\ IsFiniteSet(R)
    BY FiniteIds
  <1>2. \A i \in S \cup R : a[i] \in Int
    BY AmountTyped
  <1>3. (\A i \in S : a[i] = b[i]) /\ (\A i \in R : a[i] = c[i])
    OBVIOUS
  <1> HIDE DEF a, b, c
  <1>4. SumFunctionOnSet(a, S \cup R) = SumFunctionOnSet(a, S) + SumFunctionOnSet(a, R)
    BY <1>1, <1>2, SumUnion
  <1>5. SumFunctionOnSet(a, S) = SumFunctionOnSet(b, S)
    BY <1>1, <1>3, SumSame
  <1>6. SumFunctionOnSet(a, R) = SumFunctionOnSet(c, R)
    BY <1>1, <1>3, SumSame
  <1> QED BY <1>4, <1>5, <1>6 DEF Worth, a, b, c

\* One transfer.
LEMMA WorthOne ==
  ASSUME NEW i \in Ids, NEW f, f[i] \in Transfers
  PROVE  Worth(f, {i}) = f[i].amount
  <1> DEFINE a == [j \in {i} |-> f[j].amount]
  <1>1. IsFiniteSet({i}) /\ {i} \ {i} = {}
    BY FS_Singleton
  <1>2. (\A j \in {i} : a[j] \in Int) /\ a[i] = f[i].amount
    BY AmountTyped
  <1> HIDE DEF a
  <1>3. SumFunctionOnSet(a, {i}) = a[i] + SumFunctionOnSet(a, {i} \ {i})
    BY <1>1, <1>2, SumOut
  <1>4. SumFunctionOnSet(a, {}) = 0
    BY SumEmpty
  <1>5. a[i] \in Int
    BY <1>2
  <1>6. SumFunctionOnSet(a, {i}) = a[i] + 0
    BY <1>1, <1>3, <1>4
  <1>7. SumFunctionOnSet(a, {i}) = a[i]
    BY <1>5, <1>6
  <1> QED BY <1>2, <1>7 DEF Worth, a

\* One transfer more.
LEMMA WorthMore ==
  ASSUME NEW S \in SUBSET Ids, NEW i \in Ids, i \notin S, NEW f,
         \A j \in S \cup {i} : f[j] \in Transfers
  PROVE  Worth(f, S \cup {i}) = Worth(f, S) + f[i].amount
  <1>1. S \cap {i} = {} /\ {i} \in SUBSET Ids
    OBVIOUS
  <1>2. Worth(f, S \cup {i}) = Worth(f, S) + Worth(f, {i})
    BY <1>1, WorthUnion
  <1>3. Worth(f, {i}) = f[i].amount
    BY WorthOne
  <1> QED BY <1>2, <1>3

-----------------------------------------------------------------------------
(* The order of a walk.                                                    *)

\* A sequence of numbers that grow.
Increasing(s) == \A j, k \in DOMAIN s : j < k => s[j] < s[k]

\* There is one of the ids of every set.
LEMMA InOrderIncreases ==
  ASSUME NEW S \in SUBSET Ids
  PROVE  InOrder(S) \in [1..Cardinality(S) -> S] /\ Increasing(InOrder(S))
  <1> DEFINE Good == {A \in SUBSET S : \E s \in [1..Cardinality(A) -> A] : Increasing(s)}
  <1>1. ASSUME NEW A \in SUBSET S, \A B \in SUBSET A : B # A => B \in Good
        PROVE  A \in Good
    <2>1. IsFiniteSet(A) /\ A \in SUBSET Nat
      BY FiniteIds DEF Ids
    <2>2. CASE A = {}
      <3>1. Cardinality(A) = 0
        BY <2>2, FS_EmptySet
      <3>2. [k \in 1..0 |-> k] \in [1..Cardinality(A) -> A] /\ Increasing([k \in 1..0 |-> k])
        BY <3>1 DEF Increasing
      <3> QED BY <3>2
    <2>3. CASE A # {}
      <3>1. PICK m \in A : \A x \in A : x <= m
        BY <2>1, <2>3, Greatest
      <3> DEFINE n == Cardinality(A)
      <3>2. Cardinality(A \ {m}) = n - 1
        BY <2>1, FS_RemoveElement
      <3>3. n \in Nat /\ n # 0
        BY <2>1, <2>3, FS_CardinalityType, FS_EmptySet
      <3>4. A \ {m} \in Good
        BY <1>1
      <3> HIDE DEF n
      <3>5. PICK s \in [1..(n - 1) -> A \ {m}] : Increasing(s)
        BY <3>2, <3>4
      <3> DEFINE t == [k \in 1..n |-> IF k = n THEN m ELSE s[k]]
      <3>6. \A k \in 1..n : k = n \/ k \in 1..(n - 1)
        BY <3>3
      <3>7. t \in [1..n -> A]
        BY <3>6
      <3>8. \A k \in 1..(n - 1) : s[k] \in A /\ s[k] < m
        <4> SUFFICES ASSUME NEW k \in 1..(n - 1) PROVE s[k] \in A /\ s[k] < m
          OBVIOUS
        <4>1. s[k] \in A /\ s[k] # m
          OBVIOUS
        <4>2. s[k] <= m /\ s[k] \in Nat /\ m \in Nat
          BY <2>1, <3>1, <4>1
        <4> QED BY <4>1, <4>2
      <3>9. Increasing(t)
        <4> SUFFICES ASSUME NEW j \in 1..n, NEW k \in 1..n, j < k PROVE t[j] < t[k]
          BY DEF Increasing
        <4>1. j \in 1..(n - 1)
          BY <3>3
        <4>2. CASE k = n
          BY <3>8, <4>1, <4>2
        <4>3. CASE k \in 1..(n - 1)
          <5>1. s[j] < s[k]
            BY <3>5, <4>1, <4>3 DEF Increasing
          <5>2. t[j] = s[j] /\ t[k] = s[k]
            BY <3>3, <4>1, <4>3
          <5> QED BY <5>1, <5>2
        <4> QED BY <3>6, <4>2, <4>3
      <3> HIDE DEF t
      <3> QED BY <3>7, <3>9 DEF n
    <2> QED BY <2>2, <2>3
  <1>2. S \in Good
    <2>1. IsFiniteSet(S)
      BY FiniteIds
    <2> HIDE DEF Good
    <2>2. \A A \in SUBSET S : (\A B \in SUBSET A : B # A => B \in Good) => A \in Good
      BY <1>1
    <2> QED BY <2>1, <2>2, SubsetInduction
  <1>3. \E s \in [1..Cardinality(S) -> S] : \A j, k \in DOMAIN s : j < k => s[j] < s[k]
    BY <1>2 DEF Increasing
  <1> QED BY <1>3 DEF InOrder, Increasing

\* It is a sequence without repetitions.
LEMMA InOrderSequence ==
  ASSUME NEW S \in SUBSET Ids
  PROVE  InOrder(S) \in Seq(S) /\ IsInjective(InOrder(S))
  <1> DEFINE s == InOrder(S)
             n == Cardinality(S)
  <1>1. s \in [1..n -> S] /\ Increasing(s)
    BY InOrderIncreases
  <1>2. n \in Nat
    BY FiniteIds, FS_CardinalityType
  <1>3. S \in SUBSET Nat
    BY DEF Ids
  <1> HIDE DEF s, n
  <1>4. s \in Seq(S)
    BY <1>1, <1>2, SeqDef
  <1>5. IsInjective(s)
    <2> SUFFICES ASSUME NEW j \in 1..n, NEW k \in 1..n, s[j] = s[k] PROVE j = k
      BY <1>1 DEF IsInjective
    <2>1. s[j] \in Nat /\ s[k] \in Nat
      BY <1>1, <1>3
    <2>2. (j < k => s[j] < s[k]) /\ (k < j => s[k] < s[j])
      BY <1>1 DEF Increasing
    <2>3. j \in Int /\ k \in Int
      OBVIOUS
    <2> QED BY <2>1, <2>2, <2>3
  <1> QED BY <1>4, <1>5 DEF s

-----------------------------------------------------------------------------
(* The escrow account.                                                     *)

\* A transfer has a record from its opening on, and no packet before it.
Recorded == \A i \in Ids : /\ status[i] # "absent" => info[i] \in Transfers
                           /\ packet[i] # "none" => status[i] # "absent"

\* The coins of these are in the ICS-20 escrow account.
Escrowing == {i \in Ids : packet[i] \in {"flight", "received", "rejected", "acked"}}

Escrowed == escrow = Worth(info, Escrowing)

EInv == Recorded /\ Escrowed /\ moduleBal \in Nat

\* The escrow account holds at least the coins of each packet it serves.
LEMMA EscrowTyped == ASSUME EInv PROVE escrow \in Nat
  <1>1. Escrowing \in SUBSET Ids /\ \A i \in Escrowing : info[i] \in Transfers
    BY DEF EInv, Recorded, Escrowing
  <1> QED BY <1>1, WorthTyped DEF EInv, Escrowed

\* Steps that leave the records and the escrow alone.
LEMMA QuietEscrow ==
  ASSUME EInv, UNCHANGED <<info, escrow>>, Escrowing' = Escrowing, moduleBal' \in Nat,
         \A i \in Ids : /\ status'[i] = "absent" <=> status[i] = "absent"
                        /\ packet'[i] = "none" <=> packet[i] = "none"
  PROVE  EInv'
  <1>1. Recorded'
    BY DEF EInv, Recorded
  <1>2. Escrowed'
    BY DEF EInv, Escrowed
  <1> QED BY <1>1, <1>2 DEF EInv

\* A packet that ends in a refund takes its coins out of the escrow account.
LEMMA RefundEscrow ==
  ASSUME IInv, EInv, NEW i \in Escrowing, UNCHANGED info, moduleBal' \in Nat,
         packet' = [packet EXCEPT ![i] = "refunded"], escrow' = escrow - info[i].amount,
         \A j \in Ids : status'[j] = "absent" <=> status[j] = "absent"
  PROVE  EInv'
  <1> DEFINE R == Escrowing \ {i}
  <1>1. packet \in [Ids -> Fates] /\ i \in Ids
    BY DEF IInv, ControlTypeOK, Escrowing
  <1>2. /\ Escrowing' = R /\ R \in SUBSET Ids /\ i \notin R /\ R \cup {i} = Escrowing
        /\ \A j \in R \cup {i} : info[j] \in Transfers
    BY <1>1 DEF EInv, Recorded, Escrowing
  <1> HIDE DEF R
  <1>3. Worth(info, Escrowing) = Worth(info, R) + info[i].amount
    BY <1>1, <1>2, WorthMore
  <1>4. Worth(info, R) \in Nat /\ info[i].amount \in Nat
    BY <1>2, WorthTyped, AmountTyped
  <1>5. escrow' = Worth(info, R)
    BY <1>3, <1>4 DEF EInv, Escrowed
  <1>6. Escrowed'
    BY <1>2, <1>5 DEF Escrowed
  <1>7. Recorded'
    <2>1. packet[i] # "none" /\ \A j \in Ids : packet'[j] = packet[j] \/ j = i
      BY <1>1 DEF Escrowing
    <2>2. \A j \in Ids : packet'[j] # "none" => packet[j] # "none"
      BY <2>1
    <2> QED BY <2>2 DEF EInv, Recorded
  <1> QED BY <1>6, <1>7 DEF EInv

\* Opening a transfer.
LEMMA InitiateEscrow ==
  ASSUME IInv, EInv, NEW c \in Chains, NEW a \in Amounts, NEW local \in BOOLEAN,
         InitiateBridgeTransfer(c, a, local)
  PROVE  EInv'
  <1> DEFINE i == nextId
             t == [chain |-> c, amount |-> a, local |-> local]
  <1>1. i \in Ids /\ status[i] = "absent" /\ packet[i] = "none"
    BY DEF IInv, Fresh, ControlTypeOK, InitiateBridgeTransfer, Ids, EInv, Recorded
  <1>2. /\ info' = [info EXCEPT ![i] = t] /\ status' = [status EXCEPT ![i] = "pending"]
        /\ \/ escrow' = escrow + a /\ UNCHANGED moduleBal
              /\ packet' = [packet EXCEPT ![i] = "flight"]
           \/ moduleBal' = moduleBal + a /\ UNCHANGED <<escrow, packet>>
    BY DEF InitiateBridgeTransfer
  <1>3. t \in Transfers /\ a \in Nat
    BY BridgeAssumption DEF Transfers
  <1>4. /\ DOMAIN info = Ids /\ DOMAIN status = Ids /\ DOMAIN packet = Ids
    BY DEF IInv, ControlTypeOK
  <1>5. Recorded'
    BY <1>1, <1>2, <1>3, <1>4 DEF EInv, Recorded
  <1>6. i \notin Escrowing /\ Escrowing \in SUBSET Ids /\ \A j \in Escrowing : info[j] \in Transfers
    BY <1>1 DEF EInv, Recorded, Escrowing
  <1> HIDE DEF i
  <1>7. info'[i] = t /\ \A j \in Escrowing : info'[j] = info[j]
    BY <1>1, <1>2, <1>4, <1>6
  <1>8. Worth(info', Escrowing) = Worth(info, Escrowing)
    BY <1>7, WorthSame
  <1>9. CASE escrow' = escrow + a /\ UNCHANGED moduleBal /\ packet' = [packet EXCEPT ![i] = "flight"]
    <2>1. Escrowing' = Escrowing \cup {i}
      BY <1>1, <1>4, <1>9 DEF Escrowing
    <2>2. \A j \in Escrowing \cup {i} : info'[j] \in Transfers
      BY <1>3, <1>6, <1>7
    <2>3. Worth(info', Escrowing \cup {i}) = Worth(info', Escrowing) + info'[i].amount
      BY <1>1, <1>6, <2>2, WorthMore
    <2>4. info'[i].amount = a
      BY <1>7
    <2>5. escrow' = Worth(info', Escrowing \cup {i})
      BY <1>8, <1>9, <2>3, <2>4 DEF EInv, Escrowed
    <2>6. Escrowed'
      BY <2>1, <2>5 DEF Escrowed
    <2>7. moduleBal' \in Nat
      BY <1>9 DEF EInv
    <2> QED BY <1>5, <2>6, <2>7 DEF EInv
  <1>10. CASE moduleBal' = moduleBal + a /\ UNCHANGED <<escrow, packet>>
    <2>1. Escrowing' = Escrowing
      BY <1>10 DEF Escrowing
    <2>2. Escrowed'
      BY <1>8, <1>10, <2>1 DEF EInv, Escrowed
    <2>3. moduleBal' \in Nat
      BY <1>3, <1>10 DEF EInv
    <2> QED BY <1>5, <2>2, <2>3 DEF EInv
  <1> QED BY <1>2, <1>9, <1>10 DEF i

\* Every step keeps the escrow account in step with the packets.
LEMMA NextEscrow == IInv /\ EInv /\ [Next]_vars => EInv'
  <1> SUFFICES ASSUME IInv, EInv, [Next]_vars PROVE EInv'
    OBVIOUS
  <1> USE DEF bridgeVars, bankVars
  <1>0. /\ packet \in [Ids -> Fates] /\ status \in [Ids -> Statuses] /\ moduleBal \in Nat
    BY DEF IInv, ControlTypeOK, EInv
  <1>1. ASSUME NEW c \in Chains, NEW a \in Amounts, NEW local \in BOOLEAN,
               InitiateBridgeTransfer(c, a, local)
        PROVE  EInv'
    BY <1>1, InitiateEscrow
  <1>2. ASSUME NEW T, NEW outcome, outcome # "absent", PayFor(T, outcome),
               \A i \in T : IsPending(i)
        PROVE  \A j \in Ids : status'[j] = "absent" <=> status[j] = "absent"
    BY <1>2 DEF PayFor, IsPending
  <1>3. ASSUME NEW i \in Ids, CompleteBridgeTransfer(i) PROVE EInv'
    <2>1. info[i] \in Transfers /\ moduleBal >= info[i].amount /\ moduleBal' = moduleBal - info[i].amount
      BY <1>3 DEF CompleteBridgeTransfer, IsPending, EInv, Recorded
    <2>2. info[i].amount \in Nat
      BY <2>1, AmountTyped
    <2>3. moduleBal' \in Nat
      BY <1>0, <2>1, <2>2
    <2>4. UNCHANGED <<info, escrow, packet>>
      BY <1>3 DEF CompleteBridgeTransfer
    <2>5. \A j \in Ids : status'[j] = "absent" <=> status[j] = "absent"
      BY <1>2, <1>3 DEF CompleteBridgeTransfer
    <2>6. Escrowing' = Escrowing
      BY <2>4 DEF Escrowing
    <2> QED BY <2>3, <2>4, <2>5, <2>6, QuietEscrow
  <1>4. ASSUME NEW i \in Ids, RecvPacket(i) \/ AckSuccess(i) PROVE EInv'
    <2>1. /\ \A j \in Ids : packet'[j] = "none" <=> packet[j] = "none"
          /\ Escrowing' = Escrowing
      BY <1>0, <1>4 DEF RecvPacket, AckSuccess, Escrowing
    <2>2. UNCHANGED <<info, escrow, moduleBal>>
      BY <1>4 DEF RecvPacket, AckSuccess
    <2>3. \A j \in Ids : status'[j] = "absent" <=> status[j] = "absent"
      BY <1>0, <1>4 DEF RecvPacket, AckSuccess, IsPending
    <2> QED BY <1>0, <2>1, <2>2, <2>3, QuietEscrow
  <1>5. ASSUME NEW i \in Ids, AckError(i) \/ TimeoutPacket(i) PROVE EInv'
    <2>1. i \in Escrowing /\ info[i] \in Transfers
      BY <1>5 DEF AckError, TimeoutPacket, Escrowing, EInv, Recorded
    <2>2. info[i].amount \in Nat
      BY <2>1, AmountTyped
    <2>3. UNCHANGED moduleBal \/ moduleBal' = moduleBal + info[i].amount
      BY <1>5 DEF AckError, TimeoutPacket
    <2>4. moduleBal' \in Nat
      BY <1>0, <2>2, <2>3
    <2>5. /\ UNCHANGED info /\ packet' = [packet EXCEPT ![i] = "refunded"]
          /\ escrow' = escrow - info[i].amount
      BY <1>5 DEF AckError, TimeoutPacket
    <2>6. \A j \in Ids : status'[j] = "absent" <=> status[j] = "absent"
      BY <1>2, <1>5 DEF AckError, TimeoutPacket, RefundOnTimeout
    <2> QED BY <2>1, <2>4, <2>5, <2>6, RefundEscrow
  <1>6. ASSUME EndBlock PROVE EInv'
    <2>1. PICK T \in SUBSET Expired : PayFor(T, "timed_out")
      BY <1>6 DEF EndBlock
    <2>2. \A j \in Ids : status'[j] = "absent" <=> status[j] = "absent"
      BY <1>2, <2>1 DEF Expired
    <2>3. UNCHANGED <<info, escrow, packet>> /\ moduleBal' \in 0..moduleBal
      BY <1>6 DEF EndBlock
    <2>4. Escrowing' = Escrowing /\ moduleBal' \in Nat
      BY <1>0, <2>3 DEF Escrowing
    <2> QED BY <2>2, <2>3, <2>4, QuietEscrow
  <1>7. CASE \/ \E p \in ParamChoices : UpdateParams(p)
             \/ \E c \in MayRoute : SetChainRoute(c)
             \/ UNCHANGED vars
    <2>1. UNCHANGED <<info, escrow, packet, moduleBal, status>>
      BY <1>7 DEF UpdateParams, SetChainRoute, vars
    <2>2. Escrowing' = Escrowing
      BY <2>1 DEF Escrowing
    <2> QED BY <1>0, <2>1, <2>2, QuietEscrow
  <1> QED BY <1>1, <1>3, <1>4, <1>5, <1>6, <1>7 DEF Next, Message, Relay

\* The escrow account always holds what the packets not refunded have brought.
THEOREM BridgeEscrow == Spec => []EInv
  <1>1. Init => EInv
    <2> SUFFICES ASSUME Init PROVE EInv
      OBVIOUS
    <2>1. Escrowing = {}
      BY DEF Init, Escrowing
    <2> QED BY <2>1, WorthEmpty DEF Init, EInv, Recorded, Escrowed
  <1> QED BY <1>1, NextEscrow, Invariance, PTL DEF Spec

-----------------------------------------------------------------------------
(* The list of completed transfers and the balances by chain.              *)

\* Two sequences without repetitions and without a common element, joined.
LEMMA JoinInjective ==
  ASSUME NEW S, NEW s \in Seq(S), NEW t \in Seq(S), IsInjective(s), IsInjective(t),
         \A j \in DOMAIN s, k \in DOMAIN t : s[j] # t[k]
  PROVE  /\ s \o t \in Seq(S) /\ IsInjective(s \o t)
         /\ \A k \in DOMAIN (s \o t) : \/ \E j \in DOMAIN s : (s \o t)[k] = s[j]
                                       \/ \E j \in DOMAIN t : (s \o t)[k] = t[j]
  <1> DEFINE u == s \o t
             m == Len(s)
             n == Len(t)
  <1>1. /\ m \in Nat /\ n \in Nat /\ DOMAIN s = 1..m /\ DOMAIN t = 1..n
    BY LenProperties
  <1>2. /\ u \in Seq(S) /\ Len(u) = m + n
        /\ \A k \in 1..(m + n) : u[k] = IF k <= m THEN s[k] ELSE t[k - m]
    BY ConcatProperties
  <1>3. DOMAIN u = 1..(m + n)
    BY <1>2, LenProperties
  <1> HIDE DEF u, m, n
  <1>4. \A k \in 1..(m + n) : \/ k \in 1..m /\ u[k] = s[k]
                              \/ k > m /\ (k - m) \in 1..n /\ u[k] = t[k - m]
    BY <1>1, <1>2
  <1>5. IsInjective(u)
    <2> SUFFICES ASSUME NEW j \in 1..(m + n), NEW k \in 1..(m + n), u[j] = u[k] PROVE j = k
      BY <1>3 DEF IsInjective
    <2>1. CASE j \in 1..m /\ k \in 1..m
      <3>1. u[j] = s[j] /\ u[k] = s[k]
        BY <1>1, <1>4, <2>1
      <3> QED BY <1>1, <2>1, <3>1 DEF IsInjective
    <2>2. CASE j > m /\ k > m
      <3>1. /\ u[j] = t[j - m] /\ u[k] = t[k - m]
            /\ (j - m) \in 1..n /\ (k - m) \in 1..n
        BY <1>1, <1>4, <2>2
      <3>2. j - m = k - m
        BY <1>1, <3>1 DEF IsInjective
      <3> QED BY <1>1, <3>2
    <2>3. CASE j \in 1..m /\ k > m
      <3>1. u[j] = s[j] /\ u[k] = t[k - m] /\ (k - m) \in 1..n
        BY <1>1, <1>4, <2>3
      <3> QED BY <1>1, <2>3, <3>1
    <2>4. CASE j > m /\ k \in 1..m
      <3>1. u[k] = s[k] /\ u[j] = t[j - m] /\ (j - m) \in 1..n
        BY <1>1, <1>4, <2>4
      <3> QED BY <1>1, <2>4, <3>1
    <2>5. (j \in 1..m \/ j > m) /\ (k \in 1..m \/ k > m)
      BY <1>1
    <2> QED BY <2>1, <2>2, <2>3, <2>4, <2>5
  <1>6. \A k \in DOMAIN u : (\E j \in DOMAIN s : u[k] = s[j]) \/ (\E j \in DOMAIN t : u[k] = t[j])
    BY <1>1, <1>3, <1>4
  <1> QED BY <1>2, <1>5, <1>6 DEF u

\* Pruning keeps a part of the list.
LEMMA PrunedPart ==
  ASSUME NEW S, NEW s \in Seq(S), IsInjective(s)
  PROVE  /\ Pruned(s) \in Seq(S) /\ IsInjective(Pruned(s))
         /\ \A k \in DOMAIN Pruned(s) : \E j \in DOMAIN s : Pruned(s)[k] = s[j]
  <1>1. Len(s) \in Nat /\ DOMAIN s = 1..Len(s) /\ Keep \in Nat
    BY LenProperties, BridgeAssumption
  <1>2. CASE Len(s) <= Keep
    BY <1>2 DEF Pruned
  <1>3. CASE ~(Len(s) <= Keep)
    <2> DEFINE n == Len(s)
               m == n - Keep + 1
               u == SubSeq(s, m, n)
    <2>1. m \in Int /\ n \in Int /\ \A i \in m..n : i \in 1..n
      BY <1>1, <1>3
    <2>2. \A i \in m..n : s[i] \in S
      BY <1>1, <2>1, ElementOfSeq
    <2> HIDE DEF m, n
    <2>3. /\ u \in Seq(S) /\ Len(u) = IF m <= n THEN n - m + 1 ELSE 0
          /\ \A i \in 1..(n - m + 1) : u[i] = s[m + i - 1]
      BY <2>1, <2>2, SubSeqProperties
    <2>4. n - m + 1 = Keep
      BY <1>1 DEF m, n
    <2>5. Len(u) = Keep
      BY <1>1, <2>1, <2>3, <2>4
    <2>6. DOMAIN u = 1..Keep
      BY <2>3, <2>5, LenProperties
    <2> HIDE DEF u
    <2>7. \A i \in 1..Keep : u[i] = s[m + i - 1] /\ m + i - 1 \in 1..n
      <3> SUFFICES ASSUME NEW i \in 1..Keep PROVE u[i] = s[m + i - 1] /\ m + i - 1 \in 1..n
        OBVIOUS
      <3>1. u[i] = s[m + i - 1]
        BY <2>3, <2>4
      <3>2. m + i - 1 \in m..n
        BY <1>1, <2>1, <2>4
      <3> QED BY <2>1, <3>1, <3>2
    <2>8. IsInjective(u)
      <3> SUFFICES ASSUME NEW j \in 1..Keep, NEW k \in 1..Keep, u[j] = u[k] PROVE j = k
        BY <2>6 DEF IsInjective
      <3>1. m + j - 1 = m + k - 1
        BY <1>1, <2>7 DEF IsInjective, n
      <3> QED BY <2>1, <3>1
    <2>9. \A k \in DOMAIN u : \E j \in DOMAIN s : u[k] = s[j]
      BY <1>1, <2>6, <2>7 DEF n
    <2>10. Pruned(s) = u
      BY <1>3 DEF Pruned, u, m, n
    <2> QED BY <2>3, <2>8, <2>9, <2>10
  <1> QED BY <1>2, <1>3

Settled(i) == status[i] \in {"completed", "timed_out"}

SettledTo(c) == {i \in Ids : Settled(i) /\ info[i].chain = c}

CInv == /\ completed \in Seq(Ids) /\ IsInjective(completed)
        /\ \A k \in DOMAIN completed : Settled(completed[k])
        /\ sent \in [Chains -> Nat]
        /\ \A c \in Chains : sent[c] = Worth(info, SettledTo(c))

\* Steps that leave the settled transfers, the list and the balances alone.
LEMMA QuietIndex ==
  ASSUME EInv, CInv, UNCHANGED <<completed, sent>>,
         \A i \in Ids : Settled(i)' <=> Settled(i),
         \A i \in Ids : Settled(i) => info'[i] = info[i]
  PROVE  CInv'
  <1>1. \A k \in DOMAIN completed : completed[k] \in Ids
    BY LenProperties, ElementOfSeq DEF CInv
  <1>2. \A k \in DOMAIN completed : Settled(completed[k])'
    <2> SUFFICES ASSUME NEW k \in DOMAIN completed PROVE status'[completed[k]] \in {"completed", "timed_out"}
      BY DEF Settled
    <2>1. completed[k] \in Ids /\ Settled(completed[k])
      BY <1>1 DEF CInv
    <2> QED BY <2>1 DEF Settled
  <1>3. ASSUME NEW c \in Chains PROVE sent'[c] = Worth(info', SettledTo(c)')
    <2>1. SettledTo(c)' = SettledTo(c) /\ \A i \in SettledTo(c) : info[i] = info'[i]
      BY DEF SettledTo
    <2>2. Worth(info, SettledTo(c)) = Worth(info', SettledTo(c))
      BY <2>1, WorthSame
    <2> QED BY <2>1, <2>2 DEF CInv
  <1> QED BY <1>2, <1>3 DEF CInv

\* The transfers of T bound for c.
BoundFor(T, c) == {i \in T : info[i].chain = c}

\* Pending transfers are settled and appended to the list, which may be pruned.
LEMMA SettleIndex ==
  ASSUME IInv, EInv, CInv, NEW T \in SUBSET Ids, \A i \in T : IsPending(i), UNCHANGED info,
         \A i \in Ids : Settled(i)' <=> Settled(i) \/ i \in T,
         NEW seq \in Seq(T), IsInjective(seq),
         completed' \in {completed \o seq, Pruned(completed \o seq)},
         sent' = [c \in Chains |-> sent[c] + AmountOf({i \in T : info[i].chain = c})]
  PROVE  CInv'
  <1>1. seq \in Seq(Ids) /\ completed \in Seq(Ids)
    BY SeqMonotonic DEF CInv
  <1>2. \A k \in DOMAIN seq : seq[k] \in T
    BY LenProperties, ElementOfSeq
  <1>3. \A j \in DOMAIN completed : completed[j] \in Ids /\ Settled(completed[j])
    BY LenProperties, ElementOfSeq DEF CInv
  <1>4. \A j \in DOMAIN completed, k \in DOMAIN seq : completed[j] # seq[k]
    BY <1>2, <1>3 DEF Settled, IsPending
  <1> DEFINE all == completed \o seq
  <1>5. /\ all \in Seq(Ids) /\ IsInjective(all)
        /\ \A k \in DOMAIN all : \/ \E j \in DOMAIN completed : all[k] = completed[j]
                                 \/ \E j \in DOMAIN seq : all[k] = seq[j]
    BY <1>1, <1>4, JoinInjective DEF CInv
  <1> HIDE DEF all
  <1>6. \A k \in DOMAIN all : all[k] \in Ids /\ (Settled(all[k]) \/ all[k] \in T)
    BY <1>2, <1>3, <1>5
  <1>7. /\ completed' \in Seq(Ids) /\ IsInjective(completed')
        /\ \A k \in DOMAIN completed' : \E j \in DOMAIN all : completed'[k] = all[j]
    <2>1. CASE completed' = all
      BY <1>5, <2>1
    <2>2. CASE completed' = Pruned(all)
      BY <1>5, <2>2, PrunedPart
    <2> QED BY <2>1, <2>2 DEF all
  <1>8. \A k \in DOMAIN completed' : Settled(completed[k])'
    <2> SUFFICES ASSUME NEW k \in DOMAIN completed'
                 PROVE  status'[completed'[k]] \in {"completed", "timed_out"}
      BY DEF Settled
    <2>1. PICK j \in DOMAIN all : completed'[k] = all[j]
      BY <1>7
    <2>2. \A i \in Ids : Settled(i) \/ i \in T => status'[i] \in {"completed", "timed_out"}
      BY DEF Settled
    <2> QED BY <1>6, <2>1, <2>2
  <1>9. ASSUME NEW c \in Chains
        PROVE  sent'[c] = Worth(info', SettledTo(c)') /\ sent'[c] \in Nat
    <2>1. SettledTo(c)' = SettledTo(c) \cup BoundFor(T, c)
      BY DEF SettledTo, BoundFor
    <2>2. SettledTo(c) \cap BoundFor(T, c) = {}
      BY DEF SettledTo, BoundFor, Settled, IsPending
    <2>3. SettledTo(c) \in SUBSET Ids /\ BoundFor(T, c) \in SUBSET Ids
      BY DEF SettledTo, BoundFor
    <2>4. \A i \in SettledTo(c) \cup BoundFor(T, c) : info[i] \in Transfers
      BY DEF SettledTo, BoundFor, Settled, IsPending, EInv, Recorded
    <2>5. sent'[c] = sent[c] + AmountOf(BoundFor(T, c))
      BY DEF BoundFor
    <2>6. AmountOf(BoundFor(T, c)) = Worth(info, BoundFor(T, c))
      BY AmountIsWorth
    <2>7. Worth(info, SettledTo(c) \cup BoundFor(T, c))
            = Worth(info, SettledTo(c)) + Worth(info, BoundFor(T, c))
      BY <2>2, <2>3, <2>4, WorthUnion
    <2>8. Worth(info, SettledTo(c) \cup BoundFor(T, c)) \in Nat
      BY <2>3, <2>4, WorthTyped
    <2>9. sent[c] = Worth(info, SettledTo(c))
      BY DEF CInv
    <2> QED BY <2>1, <2>5, <2>6, <2>7, <2>8, <2>9
  <1>10. sent' \in [Chains -> Nat]
    BY <1>9
  <1> QED BY <1>7, <1>8, <1>9, <1>10 DEF CInv

\* One transfer is settled and appended.
LEMMA SettleOne ==
  ASSUME IInv, EInv, CInv, NEW i \in Ids, IsPending(i), UNCHANGED info,
         \A j \in Ids : Settled(j)' <=> Settled(j) \/ j = i, MoveToCompleted({i}, <<i>>)
  PROVE  CInv'
  <1> DEFINE T == {i}
             seq == <<i>>
  <1>1. seq \in Seq(T) /\ IsInjective(seq)
    BY DEF IsInjective
  <1>2. /\ T \in SUBSET Ids /\ \A j \in T : IsPending(j)
        /\ \A j \in Ids : Settled(j)' <=> Settled(j) \/ j \in T
    OBVIOUS
  <1>3. /\ completed' = completed \o seq
        /\ sent' = [c \in Chains |-> sent[c] + AmountOf({j \in T : info[j].chain = c})]
    BY DEF MoveToCompleted
  <1> HIDE DEF T, seq
  <1> QED BY <1>1, <1>2, <1>3, SettleIndex

\* Paying for pending transfers settles them.
LEMMA PayingSettles ==
  ASSUME NEW T \in SUBSET Ids, NEW outcome \in {"completed", "timed_out"}, PayFor(T, outcome)
  PROVE  \A i \in Ids : Settled(i)' <=> Settled(i) \/ i \in T
  BY DEF PayFor, Settled

\* Every step keeps the list and the balances.
LEMMA NextIndex == IInv /\ EInv /\ CInv /\ [Next]_vars => CInv'
  <1> SUFFICES ASSUME IInv, EInv, CInv, [Next]_vars PROVE CInv'
    OBVIOUS
  <1> USE DEF bridgeVars, bankVars
  <1>1. ASSUME UNCHANGED <<status, info, completed, sent>> PROVE CInv'
    <2>1. \A i \in Ids : Settled(i)' <=> Settled(i)
      BY <1>1 DEF Settled
    <2> QED BY <1>1, <2>1, QuietIndex
  <1>2. ASSUME NEW c \in Chains, NEW a \in Amounts, NEW local \in BOOLEAN,
               InitiateBridgeTransfer(c, a, local)
        PROVE  CInv'
    <2>1. nextId \in Ids /\ status[nextId] = "absent" /\ status \in [Ids -> Statuses]
          /\ info \in [Ids -> Transfers \cup {NoTransfer}]
      BY <1>2 DEF IInv, Fresh, ControlTypeOK, InitiateBridgeTransfer, Ids
    <2>2. status' = [status EXCEPT ![nextId] = "pending"] /\ UNCHANGED <<completed, sent>>
          /\ info' = [info EXCEPT ![nextId] = [chain |-> c, amount |-> a, local |-> local]]
      BY <1>2 DEF InitiateBridgeTransfer
    <2>3. \A i \in Ids : Settled(i)' <=> Settled(i)
      BY <2>1, <2>2 DEF Settled
    <2>4. \A i \in Ids : Settled(i) => info'[i] = info[i]
      BY <2>1, <2>2 DEF Settled
    <2> QED BY <2>2, <2>3, <2>4, QuietIndex
  <1>3. ASSUME NEW i \in Ids, CompleteBridgeTransfer(i) PROVE CInv'
    <2>1. IsPending(i) /\ UNCHANGED info /\ MoveToCompleted({i}, <<i>>) /\ PayFor({i}, "completed")
      BY <1>3 DEF CompleteBridgeTransfer
    <2>2. \A j \in Ids : Settled(j)' <=> Settled(j) \/ j = i
      BY <2>1, PayingSettles
    <2> QED BY <2>1, <2>2, SettleOne
  <1>4. ASSUME NEW i \in Ids, AckSuccess(i) PROVE CInv'
    <2>1. CASE IsPending(i)
      <3>1. UNCHANGED info /\ MoveToCompleted({i}, <<i>>) /\ status' = [status EXCEPT ![i] = "completed"]
        BY <1>4, <2>1 DEF AckSuccess
      <3>2. \A j \in Ids : Settled(j)' <=> Settled(j) \/ j = i
        BY <3>1 DEF Settled, IInv, ControlTypeOK
      <3> QED BY <2>1, <3>1, <3>2, SettleOne
    <2>2. CASE ~IsPending(i)
      BY <1>1, <1>4, <2>2 DEF AckSuccess
    <2> QED BY <2>1, <2>2
  <1>5. ASSUME NEW i \in Ids, TimeoutPacket(i) PROVE CInv'
    <2>1. CASE RefundOnTimeout(i)
      <3>1. IsPending(i) /\ UNCHANGED info /\ MoveToCompleted({i}, <<i>>) /\ PayFor({i}, "timed_out")
        BY <1>5, <2>1 DEF TimeoutPacket, RefundOnTimeout
      <3>2. \A j \in Ids : Settled(j)' <=> Settled(j) \/ j = i
        BY <3>1, PayingSettles
      <3> QED BY <3>1, <3>2, SettleOne
    <2>2. CASE ~RefundOnTimeout(i)
      BY <1>1, <1>5, <2>2 DEF TimeoutPacket
    <2> QED BY <2>1, <2>2
  <1>6. ASSUME EndBlock PROVE CInv'
    <2>1. PICK T \in SUBSET Expired :
             /\ PayFor(T, "timed_out") /\ UNCHANGED info
             /\ completed' = Pruned(completed \o InOrder(T))
             /\ sent' = [c \in Chains |-> sent[c] + AmountOf({i \in T : info[i].chain = c})]
      BY <1>6 DEF EndBlock
    <2>2. T \in SUBSET Ids /\ \A i \in T : IsPending(i)
      BY DEF Expired
    <2>3. InOrder(T) \in Seq(T) /\ IsInjective(InOrder(T))
      BY <2>2, InOrderSequence
    <2>4. \A i \in Ids : Settled(i)' <=> Settled(i) \/ i \in T
      BY <2>1, <2>2, PayingSettles
    <2> QED BY <2>1, <2>2, <2>3, <2>4, SettleIndex
  <1>7. CASE \/ \E p \in ParamChoices : UpdateParams(p)
             \/ \E c \in MayRoute : SetChainRoute(c)
             \/ \E i \in Ids : RecvPacket(i) \/ AckError(i)
             \/ UNCHANGED vars
    <2>1. UNCHANGED <<status, info, completed, sent>>
      BY <1>7 DEF UpdateParams, SetChainRoute, RecvPacket, AckError, vars
    <2> QED BY <1>1, <2>1
  <1> QED BY <1>2, <1>3, <1>4, <1>5, <1>6, <1>7 DEF Next, Message, Relay

\* The list and the balances in every reachable state.
THEOREM BridgeIndex == Spec => []CInv
  <1>1. Init => CInv
    <2> SUFFICES ASSUME Init PROVE CInv
      OBVIOUS
    <2>1. \A c \in Chains : SettledTo(c) = {}
      BY DEF Init, SettledTo, Settled
    <2>2. completed = <<>> /\ sent = [c \in Chains |-> 0]
      BY DEF Init
    <2>3. completed \in Seq(Ids) /\ IsInjective(completed) /\ DOMAIN completed = {}
      BY <2>2 DEF IsInjective
    <2>4. \A c \in Chains : sent[c] = Worth(info, SettledTo(c))
      BY <2>1, <2>2, WorthEmpty
    <2> QED BY <2>2, <2>3, <2>4 DEF CInv
  <1> QED BY <1>1, NextIndex, Invariance, BridgeEscrow, PTL DEF Spec

\* CompletedTransfers holds each settled transfer at most once and no other,
\* and ChainBalances counts each settled transfer once, pruned or not.
THEOREM BridgeCompletedIndex == Spec => []CompletedIndex
  <1>1. CInv => CompletedIndex
    <2> SUFFICES ASSUME CInv PROVE CompletedIndex
      OBVIOUS
    <2>1. ASSUME NEW c \in Chains
          PROVE  sent[c] = AmountOf({i \in Ids : /\ status[i] \in {"completed", "timed_out"}
                                                 /\ info[i].chain = c})
      BY AmountIsWorth DEF CInv, SettledTo, Settled
    <2> QED BY <2>1 DEF CompletedIndex, CInv, Settled
  <1> QED BY <1>1, BridgeIndex, PTL

\* The types of the whole state: neither the module account nor the escrow
\* account is ever overdrawn, by proofs, refunds or packets.
THEOREM BridgeTypeOK == Spec => []TypeOK
  <1>1. IInv /\ EInv /\ CInv => TypeOK
    BY EscrowTyped DEF IInv, CInv, EInv, TypeOK, LedgerTypeOK
  <1> QED BY <1>1, Invariance, BridgeEscrow, BridgeIndex, PTL

-----------------------------------------------------------------------------
(* Without routes.                                                         *)

PendingSet == {i \in Ids : IsPending(i)}

\* No packet leaves, and the module account holds the coins of what is pending.
RInv == /\ routes = {}
        /\ \A i \in Ids : packet[i] = "none" /\ (meta[i] # NoMeta => ~meta[i].sequenced)
        /\ moduleBal = Worth(info, PendingSet)

\* Steps that leave what RInv reads alone.
LEMMA QuietRouteless ==
  ASSUME RInv, UNCHANGED <<routes, packet, meta, moduleBal, info, status>>
  PROVE  RInv'
  <1>1. PendingSet' = PendingSet
    BY DEF PendingSet, IsPending
  <1> QED BY <1>1 DEF RInv

\* Pending transfers leave the set; so do their coins.
LEMMA PayRouteless ==
  ASSUME EInv, RInv, NEW T \in SUBSET PendingSet, PayFor(T, "timed_out"), DropMeta(T),
         UNCHANGED <<info, routes, packet>>, moduleBal' \in Nat,
         moduleBal' + AmountOf(T) = moduleBal
  PROVE  RInv'
  <1> DEFINE R == PendingSet \ T
  <1>1. /\ T \in SUBSET Ids /\ R \in SUBSET Ids /\ T \cap R = {} /\ R \cap T = {}
        /\ R \cup T = PendingSet
        /\ \A i \in R \cup T : info[i] \in Transfers
    BY DEF PendingSet, IsPending, EInv, Recorded
  <1>2. PendingSet' = R
    BY DEF PendingSet, IsPending, PayFor
  <1> HIDE DEF R
  <1>3. Worth(info, R \cup T) = Worth(info, R) + Worth(info, T)
    BY <1>1, WorthUnion
  <1>4. AmountOf(T) = Worth(info, T)
    BY AmountIsWorth
  <1>5. Worth(info, R) \in Nat /\ Worth(info, T) \in Nat
    BY <1>1, WorthTyped
  <1>6. moduleBal = Worth(info, R \cup T)
    BY <1>1 DEF RInv
  <1>7. moduleBal' = Worth(info, R)
    BY <1>3, <1>4, <1>5, <1>6
  <1>8. \A i \in Ids : packet'[i] = "none" /\ (meta'[i] # NoMeta => ~meta'[i].sequenced)
    BY DEF RInv, DropMeta
  <1> QED BY <1>2, <1>7, <1>8 DEF RInv

\* Opening a transfer while there is no route.
LEMMA InitiateRouteless ==
  ASSUME IInv, EInv, RInv, NEW c \in Chains, NEW a \in Amounts, NEW local \in BOOLEAN,
         InitiateBridgeTransfer(c, a, local)
  PROVE  RInv'
  <1> DEFINE i == nextId
             t == [chain |-> c, amount |-> a, local |-> local]
  <1>1. i \in Ids /\ status[i] = "absent" /\ c \notin routes
    BY DEF IInv, Fresh, ControlTypeOK, InitiateBridgeTransfer, Ids, RInv
  <1>2. /\ info' = [info EXCEPT ![i] = t] /\ status' = [status EXCEPT ![i] = "pending"]
        /\ meta' = [meta EXCEPT ![i] = NewMeta(c \in routes)]
        /\ moduleBal' = moduleBal + a /\ UNCHANGED <<packet, routes>>
    BY <1>1 DEF InitiateBridgeTransfer
  <1>3. t \in Transfers /\ a \in Nat
    BY BridgeAssumption DEF Transfers
  <1>4. DOMAIN info = Ids /\ DOMAIN status = Ids /\ DOMAIN meta = Ids
    BY DEF IInv, ControlTypeOK
  <1>5. /\ i \notin PendingSet /\ PendingSet \in SUBSET Ids
        /\ \A j \in PendingSet : info[j] \in Transfers
    BY <1>1 DEF EInv, Recorded, PendingSet, IsPending
  <1>6. \A j \in Ids : meta'[j] # NoMeta => ~meta'[j].sequenced
    <2>1. NewMeta(c \in routes).sequenced = (c \in routes)
      BY DEF NewMeta
    <2> QED BY <1>1, <1>2, <1>4, <2>1 DEF RInv
  <1>7. PendingSet' = PendingSet \cup {i}
    BY <1>1, <1>2, <1>4 DEF PendingSet, IsPending
  <1>8. info'[i] = t /\ t.amount = a /\ \A j \in PendingSet : info'[j] = info[j]
    BY <1>1, <1>2, <1>4, <1>5
  <1> HIDE DEF i, t
  <1>9. Worth(info', PendingSet) = Worth(info, PendingSet)
    BY <1>8, WorthSame
  <1>10. \A j \in PendingSet \cup {i} : info'[j] \in Transfers
    BY <1>3, <1>5, <1>8
  <1>11. Worth(info', PendingSet \cup {i}) = Worth(info', PendingSet) + info'[i].amount
    BY <1>1, <1>5, <1>10, WorthMore
  <1>12. moduleBal' = Worth(info', PendingSet \cup {i})
    BY <1>2, <1>8, <1>9, <1>11 DEF RInv
  <1> QED BY <1>2, <1>6, <1>7, <1>12 DEF RInv

\* Without a chain that may get a route every step keeps the backing.
LEMMA NextRouteless ==
  ASSUME MayRoute = {}
  PROVE  IInv /\ EInv /\ RInv /\ [Next]_vars => RInv'
  <1> SUFFICES ASSUME IInv, EInv, RInv, [Next]_vars PROVE RInv'
    OBVIOUS
  <1> USE DEF bridgeVars, bankVars
  <1>1. ASSUME NEW c \in Chains, NEW a \in Amounts, NEW local \in BOOLEAN,
               InitiateBridgeTransfer(c, a, local)
        PROVE  RInv'
    BY <1>1, InitiateRouteless
  <1>2. ASSUME NEW i \in Ids PROVE ~CompleteBridgeTransfer(i)
    BY DEF CompleteBridgeTransfer, RInv
  <1>3. ASSUME NEW i \in Ids
        PROVE  ~RecvPacket(i) /\ ~AckSuccess(i) /\ ~AckError(i) /\ ~TimeoutPacket(i)
    BY DEF RecvPacket, AckSuccess, AckError, TimeoutPacket, RInv
  <1>4. ASSUME NEW p \in ParamChoices, UpdateParams(p) PROVE RInv'
    BY <1>4, QuietRouteless DEF UpdateParams
  <1>5. ASSUME EndBlock PROVE RInv'
    <2>1. PICK T \in SUBSET Expired, left \in 0..moduleBal :
             /\ left + AmountOf(T) = moduleBal /\ moduleBal' = left
             /\ PayFor(T, "timed_out") /\ DropMeta(T)
             /\ UNCHANGED <<info, routes, packet>>
      BY <1>5 DEF EndBlock
    <2>2. T \in SUBSET PendingSet
      BY DEF Expired, PendingSet
    <2>3. moduleBal' \in Nat
      BY <2>1 DEF EInv
    <2> QED BY <2>1, <2>2, <2>3, PayRouteless
  <1>6. CASE UNCHANGED vars
    BY <1>6, QuietRouteless DEF vars
  <1> QED BY <1>1, <1>2, <1>3, <1>4, <1>5, <1>6 DEF Next, Message, Relay

\* As long as no chain can get a route, every pending transfer is backed by its
\* own coins, to the coin: no refund of one is paid with those of another.
THEOREM BridgeFullyBacked ==
  ASSUME MayRoute = {}
  PROVE  Spec => []FullyBacked
  <1>1. Init => RInv
    <2> SUFFICES ASSUME Init PROVE RInv
      OBVIOUS
    <2>1. PendingSet = {}
      BY DEF Init, PendingSet, IsPending
    <2> QED BY <2>1, WorthEmpty DEF Init, RInv
  <1>2. RInv => FullyBacked
    BY AmountIsWorth DEF RInv, FullyBacked, PendingSet
  <1>3. IInv /\ EInv /\ RInv /\ [Next]_vars => RInv'
    BY NextRouteless
  <1> QED BY <1>1, <1>2, <1>3, Invariance, BridgeEscrow, PTL DEF Spec
=============================================================================
