---------------------------- MODULE CashOutProofs ---------------------------
(***************************************************************************)
(* Theorems about CashOut for any sales, any number of workers, clients,   *)
(* administrators, callbacks and polls at once, any payments and faults.   *)
(***************************************************************************)
EXTENDS CashOut, FiniteSetTheorems, SequenceTheorems, TLAPS

\* The queue holds requests that are over, each once.
QueueInv == \A k \in DOMAIN queue : run[queue[k]].pc = "over"

Ended(ok) == IF ok THEN "succeeded" ELSE "failed"
Made(ok) == IF ok THEN "paid" ELSE "refused"

\* What a callback in progress goes by is Safaricom's outcome of the payment on record.
Reported(d) ==
    LET i == callback[d].of  ok == callback[d].ok IN
    /\ payout[i].status # "none" /\ payout[i].ref = callback[d].ref
    /\ payments[i][callback[d].ref] = Made(ok)
    /\ callback[d].pc # "payout" => payout[i].status = Ended(ok)

\* What is on record of a payment is a payment, and its outcome is Safaricom's.
Recorded(i) ==
    /\ payout[i].status # "none" => payout[i].ref \in DOMAIN payments[i]
    /\ payout[i].status = "succeeded" => payments[i][payout[i].ref] = "paid"
    /\ payout[i].status = "failed" => payments[i][payout[i].ref] = "refused"
    /\ sale[i].status = "completed" => payout[i].status = "succeeded"
    /\ withdrawal[i].status = "completed" => i \in resolved \/ payout[i].status = "succeeded"

Accepted(r) == run[r].pc \in {"paid", "recorded"} => run[r].ref \in DOMAIN payments[run[r].of]

PaidInv == /\ \A r \in Runners : Accepted(r)
           /\ \A i \in Sales : Recorded(i)
           /\ \A d \in Deliveries : callback[d] # Idle => Reported(d)

\* Settlements whose sell transaction the chain has accepted and that have not yet
\* asked for the payout: each has a transaction of its own.
InHand(i) == {r \in Runners : run[r].pc \in {"sold", "burn"} /\ run[r].of = i}

SoldInv == \A i \in Sales : asked[i] + Cardinality(InHand(i)) <= sold[i]

-----------------------------------------------------------------------------
(* Records.                                                                *)

Record == [pc : Pcs, of : Sales, tx : Seqs, ref : Refs]
Delivery == [pc : CallbackPcs, of : Sales, ref : Refs, ok : BOOLEAN, writes : SUBSET Paths]

\* A runner that is not idle holds a full record.
LEMMA RunRecord ==
  ASSUME TypeOK, NEW r \in Runners
  PROVE  \/ run[r] = Idle /\ run[r].pc = "idle"
         \/ /\ run[r] \in Record /\ run[r].pc \in Pcs
            /\ run[r].of \in Sales /\ run[r].tx \in Seqs /\ run[r].ref \in Refs
  <1>1. run[r] = Idle \/ run[r] \in Record
    BY DEF TypeOK, Record
  <1>2. CASE run[r] = Idle
    BY <1>2 DEF Idle
  <1>3. CASE run[r] \in Record
    BY <1>3 DEF Record
  <1> QED BY <1>1, <1>2, <1>3

\* The same of a /resign request and of a callback.
LEMMA ResignRecord ==
  ASSUME TypeOK, NEW c \in Clients
  PROVE  \/ resign[c] = Idle /\ resign[c].pc = "idle"
         \/ /\ resign[c] \in [pc : {"sale", "withdrawal"}, of : Sales, tx : Seqs]
            /\ resign[c].pc \in {"sale", "withdrawal"} /\ resign[c] # Idle
            /\ resign[c].of \in Sales /\ resign[c].tx \in Seqs
  <1>1. resign[c] = Idle \/ resign[c] \in [pc : {"sale", "withdrawal"}, of : Sales, tx : Seqs]
    BY DEF TypeOK
  <1>2. CASE resign[c] = Idle
    BY <1>2 DEF Idle
  <1>3. CASE resign[c] \in [pc : {"sale", "withdrawal"}, of : Sales, tx : Seqs]
    <2>1. resign[c].pc \in {"sale", "withdrawal"} /\ resign[c].of \in Sales /\ resign[c].tx \in Seqs
      BY <1>3
    <2>2. resign[c].pc # Idle.pc
      BY <2>1 DEF Idle
    <2> QED BY <1>3, <2>1, <2>2
  <1> QED BY <1>1, <1>2, <1>3

LEMMA CallbackRecord ==
  ASSUME TypeOK, NEW d \in Deliveries
  PROVE  \/ callback[d] = Idle /\ callback[d].pc = "idle"
         \/ /\ callback[d] \in Delivery /\ callback[d].pc \in CallbackPcs /\ callback[d] # Idle
            /\ callback[d].of \in Sales /\ callback[d].ref \in Refs
            /\ callback[d].ok \in BOOLEAN /\ callback[d].writes \subseteq Paths
  <1>1. callback[d] = Idle \/ callback[d] \in Delivery
    BY DEF TypeOK, Delivery
  <1>2. CASE callback[d] = Idle
    BY <1>2 DEF Idle
  <1>3. CASE callback[d] \in Delivery
    <2>1. /\ callback[d].pc \in CallbackPcs /\ callback[d].of \in Sales
          /\ callback[d].ref \in Refs /\ callback[d].ok \in BOOLEAN
          /\ callback[d].writes \subseteq Paths
      BY <1>3 DEF Delivery
    <2>2. callback[d].pc # Idle.pc
      BY <2>1 DEF Idle, CallbackPcs
    <2> QED BY <1>3, <2>1, <2>2
  <1> QED BY <1>1, <1>2, <1>3

LEMMA PollRecord ==
  ASSUME TypeOK, NEW p \in Polls, poll[p] # Idle
  PROVE  poll[p].of \in Sales /\ poll[p].saves \subseteq Outcomes
  BY DEF TypeOK

\* Moving a delivery on.
LEMMA DeliverMoves ==
  ASSUME TypeOK, NEW d \in Deliveries, callback[d] # Idle, NEW pc \in CallbackPcs,
         NEW writes \in SUBSET Paths, Deliver(d, pc, writes)
  PROVE  /\ callback' \in [Deliveries -> {Idle} \cup Delivery]
         /\ callback'[d] # Idle /\ callback'[d].pc = pc /\ callback'[d].of = callback[d].of
         /\ callback'[d].ref = callback[d].ref /\ callback'[d].ok = callback[d].ok
         /\ \A e \in Deliveries : e # d => callback'[e] = callback[e]
  <1>1. callback[d] \in Delivery /\ callback \in [Deliveries -> {Idle} \cup Delivery]
    BY CallbackRecord DEF TypeOK, Delivery
  <1>2. /\ callback'[d] = [[callback[d] EXCEPT !.pc = pc] EXCEPT !.writes = writes]
        /\ \A e \in Deliveries : e # d => callback'[e] = callback[e]
    BY <1>1 DEF Deliver
  <1>3. callback'[d] \in Delivery /\ callback'[d].pc = pc
    BY <1>1, <1>2 DEF Delivery
  <1>4. /\ callback'[d].of = callback[d].of
        /\ callback'[d].ref = callback[d].ref /\ callback'[d].ok = callback[d].ok
    BY <1>1, <1>2 DEF Delivery
  <1>5. callback'[d].pc # Idle.pc
    BY <1>3 DEF Idle, CallbackPcs
  <1>6. callback' \in [Deliveries -> {Idle} \cup Delivery]
    BY <1>1, <1>2, <1>3 DEF Deliver
  <1> QED BY <1>2, <1>3, <1>4, <1>5, <1>6

\* Moving a runner on, from a pc that is not idle.
LEMMA GotoRun ==
  ASSUME TypeOK, NEW r \in Runners, run[r].pc # "idle", NEW pc \in Pcs, Goto(r, pc)
  PROVE  /\ run' \in [Runners -> {Idle} \cup Record]
         /\ run'[r].pc = pc /\ run'[r].of = run[r].of /\ run'[r].tx = run[r].tx
         /\ run'[r].ref = run[r].ref
         /\ \A q \in Runners : q # r => run'[q] = run[q]
  <1>1. run[r] \in Record
    BY RunRecord
  <1>2. run \in [Runners -> {Idle} \cup Record]
    BY DEF TypeOK, Record
  <1>3. run'[r] = [run[r] EXCEPT !.pc = pc] /\ \A q \in Runners : q # r => run'[q] = run[q]
    BY <1>2 DEF Goto
  <1>4. run'[r] \in Record
    BY <1>1, <1>3 DEF Record
  <1> QED BY <1>1, <1>2, <1>3, <1>4 DEF Goto, Record

\* The same, its transaction spent.
LEMMA SpendRun ==
  ASSUME TypeOK, NEW r \in Runners, run[r].pc # "idle", NEW pc \in Pcs, Spend(r, pc)
  PROVE  /\ run' \in [Runners -> {Idle} \cup Record]
         /\ run'[r].pc = pc /\ run'[r].of = run[r].of
         /\ \A q \in Runners : q # r => run'[q] = run[q]
  <1>1. run[r] \in Record /\ 0 \in Seqs
    BY RunRecord, CashOutAssumption DEF Seqs
  <1>2. run \in [Runners -> {Idle} \cup Record]
    BY DEF TypeOK, Record
  <1>3. /\ run'[r] = [[run[r] EXCEPT !.pc = pc] EXCEPT !.tx = 0]
        /\ \A q \in Runners : q # r => run'[q] = run[q]
    BY <1>2 DEF Spend
  <1>4. run'[r] \in Record /\ run'[r].pc = pc /\ run'[r].of = run[r].of
    BY <1>1, <1>3 DEF Record
  <1> QED BY <1>2, <1>3, <1>4 DEF Spend

\* Giving a runner a sale to settle.
LEMMA StartRun ==
  ASSUME TypeOK, NEW r \in Runners, NEW pc \in Pcs, NEW i \in Sales, NEW tx \in Seqs,
         Start(r, pc, i, tx)
  PROVE  /\ run' \in [Runners -> {Idle} \cup Record]
         /\ run'[r].pc = pc /\ run'[r].of = i /\ run'[r].tx = tx /\ run'[r].ref = 0
         /\ \A q \in Runners : q # r => run'[q] = run[q]
  <1>1. run \in [Runners -> {Idle} \cup Record]
    BY DEF TypeOK, Record
  <1>2. [pc |-> pc, of |-> i, tx |-> tx, ref |-> 0] \in Record
    BY CashOutAssumption DEF Record, Refs
  <1> QED BY <1>1, <1>2 DEF Start

\* The end of a runner: a request is over, a worker or an administrator idle.
LEMMA EndRun ==
  ASSUME TypeOK, NEW r \in Runners, End(r)
  PROVE  /\ run' \in [Runners -> {Idle} \cup Record]
         /\ run'[r].pc \in {"idle", "over"}
         /\ run'[r].pc = "over" <=> r \in Sales
         /\ r \in Sales => run'[r].of = r
         /\ \A q \in Runners : q # r => run'[q] = run[q]
  <1>1. CASE r \in Sales
    <2>1. Start(r, "over", r, 0)
      BY <1>1 DEF End
    <2>2. "over" \in Pcs /\ 0 \in Seqs
      BY CashOutAssumption DEF Pcs, Seqs
    <2>3. /\ run' \in [Runners -> {Idle} \cup Record]
          /\ run'[r].pc = "over" /\ run'[r].of = r
          /\ \A q \in Runners : q # r => run'[q] = run[q]
      BY <1>1, <2>1, <2>2, StartRun
    <2> QED BY <1>1, <2>3
  <1>2. CASE r \notin Sales
    <2>1. run \in [Runners -> {Idle} \cup Record]
      BY DEF TypeOK, Record
    <2>2. run' = [run EXCEPT ![r] = Idle] /\ Idle.pc = "idle"
      BY <1>2 DEF End, Idle
    <2>3. /\ run' \in [Runners -> {Idle} \cup Record]
          /\ run'[r] = Idle /\ \A q \in Runners : q # r => run'[q] = run[q]
      BY <2>1, <2>2
    <2> QED BY <1>2, <2>2, <2>3
  <1> QED BY <1>1, <1>2

\* Saving fields of a document.
LEMMA SaleSaved ==
  ASSUME TypeOK, NEW i \in Sales, NEW status \in SaleStatus, NEW tx \in Seqs,
         \/ sale' = [sale EXCEPT ![i] = [status |-> status, tx |-> tx]]
         \/ SaveSale(i, status) /\ tx = sale[i].tx
         \/ SettleSale(i, status) /\ tx = 0
  PROVE  /\ sale' \in [Sales -> [status : SaleStatus, tx : Seqs]]
         /\ sale'[i].status = status /\ sale'[i].tx = tx
         /\ \A j \in Sales : j # i => sale'[j] = sale[j]
  <1>1. sale \in [Sales -> [status : SaleStatus, tx : Seqs]]
    BY DEF TypeOK
  <1>2. sale[i] \in [status : SaleStatus, tx : Seqs]
    BY <1>1
  <1>3. sale' = [sale EXCEPT ![i] = [status |-> status, tx |-> tx]]
    <2>1. [sale[i] EXCEPT !.status = status] = [status |-> status, tx |-> sale[i].tx]
      BY <1>2
    <2> QED BY <1>1, <2>1 DEF SaveSale, SettleSale
  <1>4. [status |-> status, tx |-> tx] \in [status : SaleStatus, tx : Seqs]
    OBVIOUS
  <1> QED BY <1>1, <1>3, <1>4

LEMMA WithdrawalSaved ==
  ASSUME TypeOK, NEW i \in Sales, NEW status \in WithdrawalStatus, NEW ref \in Refs,
         \/ SaveWithdrawal(i, status) /\ ref = withdrawal[i].ref
         \/ SavePayoutRef(i, status, ref)
  PROVE  /\ withdrawal' \in [Sales -> [status : WithdrawalStatus, ref : Refs]]
         /\ withdrawal'[i].status = status /\ withdrawal'[i].ref = ref
         /\ \A j \in Sales : j # i => withdrawal'[j] = withdrawal[j]
  <1>1. withdrawal \in [Sales -> [status : WithdrawalStatus, ref : Refs]]
    BY DEF TypeOK
  <1>2. withdrawal[i] \in [status : WithdrawalStatus, ref : Refs]
    BY <1>1
  <1>3. withdrawal' = [withdrawal EXCEPT ![i] = [status |-> status, ref |-> ref]]
    <2>1. [withdrawal[i] EXCEPT !.status = status] = [status |-> status, ref |-> withdrawal[i].ref]
      BY <1>2
    <2> QED BY <1>1, <2>1 DEF SaveWithdrawal, SavePayoutRef
  <1>4. [status |-> status, ref |-> ref] \in [status : WithdrawalStatus, ref : Refs]
    OBVIOUS
  <1> QED BY <1>1, <1>3, <1>4

\* The fields a document has.
LEMMA Fields ==
  ASSUME TypeOK, NEW i \in Sales
  PROVE  /\ sale[i].status \in SaleStatus /\ sale[i].tx \in Seqs
         /\ withdrawal[i].status \in WithdrawalStatus /\ withdrawal[i].ref \in Refs
         /\ payout[i].status \in PayoutStatus /\ payout[i].ref \in Refs
         /\ asked[i] \in Nat /\ sold[i] \in Nat /\ sequence[i] \in 1..(MaxSeq + 1)
         /\ i \in Runners
  BY DEF TypeOK, Runners

-----------------------------------------------------------------------------
(* Types.  QueueInv goes with them: it keeps the queue free of repetitions. *)

LEMMA QueueStays ==
  ASSUME TypeOK, QueueInv, UNCHANGED queue,
         \A q \in Runners : run[q].pc = "over" => run'[q].pc = "over"
  PROVE  QueueInv'
  <1>1. \A k \in DOMAIN queue : queue[k] \in Runners
    BY DEF TypeOK, Runners
  <1> QED BY <1>1 DEF QueueInv

\* A step of runner r that saves what has its type.
LEMMA RunnerTypeOK ==
  ASSUME TypeOK, QueueInv, NEW r \in Runners, run[r].pc # "over",
         run' \in [Runners -> {Idle} \cup Record],
         \A q \in Runners : q # r => run'[q] = run[q],
         sale' \in [Sales -> [status : SaleStatus, tx : Seqs]],
         withdrawal' \in [Sales -> [status : WithdrawalStatus, ref : Refs]],
         payout' \in [Sales -> [status : PayoutStatus, ref : Refs]],
         payments' \in [Sales -> Seq({"accepted", "paid", "refused"})],
         todo' \in [Scanners -> Seq(Sales)],
         faults' \in 0..MaxFaults,
         sequence' \in [Sales -> 1..(MaxSeq + 1)], sold' \in [Sales -> Nat],
         asked' \in [Sales -> Nat], resolved' \in SUBSET Sales,
         UNCHANGED <<queue, resign, callback, poll>>
  PROVE  TypeOK' /\ QueueInv'
  <1>1. QueueInv'
    BY QueueStays
  <1>2. TypeOK'
    BY DEF TypeOK, Record
  <1> QED BY <1>1, <1>2

LEMMA RequestTypeOK ==
  ASSUME TypeOK, QueueInv, NEW i \in Sales, Request(i)
  PROVE  TypeOK' /\ QueueInv'
  <1> USE Fields
  <1>0. TypeOK /\ i \in Runners
    OBVIOUS
  <1>1. CASE Sell(i)
    <2>1. sequence[i] \in Seqs /\ "created" \in Pcs /\ "pending" \in SaleStatus
      BY <1>0, <1>1, CashOutAssumption DEF Sell, Seqs, Pcs, SaleStatus
    <2>2. sale' \in [Sales -> [status : SaleStatus, tx : Seqs]]
      BY <1>0, <1>1, <2>1, SaleSaved DEF Sell
    <2>3. /\ run' \in [Runners -> {Idle} \cup Record]
          /\ \A q \in Runners : q # i => run'[q] = run[q]
      BY <1>0, <1>1, <2>1, StartRun DEF Sell
    <2> QED
      BY <1>0, <1>1, <2>2, <2>3, RunnerTypeOK DEF Sell, At, TypeOK, OnlyDocuments, chainVars, history
  <1>2. CASE Register(i)
    <2>1. "pending_review" \in WithdrawalStatus /\ {"broadcast", "hold"} \subseteq Pcs
      BY DEF WithdrawalStatus, Pcs
    <2>2. withdrawal' \in [Sales -> [status : WithdrawalStatus, ref : Refs]]
      BY <1>0, <1>2, <2>1, WithdrawalSaved DEF Register
    <2>3. /\ run' \in [Runners -> {Idle} \cup Record]
          /\ \A q \in Runners : q # i => run'[q] = run[q]
      BY <1>0, <1>2, <2>1, GotoRun DEF Register, At
    <2> QED
      BY <1>0, <1>2, <2>2, <2>3, RunnerTypeOK
         DEF Register, At, TypeOK, OnlyDocuments, chainVars, history
  <1>3. CASE HoldSale(i)
    <2>1. "queued_liquidity" \in SaleStatus /\ "hold withdrawal" \in Pcs
      BY DEF SaleStatus, Pcs
    <2>2. run[i].tx \in Seqs
      BY <1>0, <1>3, RunRecord DEF HoldSale, At
    <2>3. sale' \in [Sales -> [status : SaleStatus, tx : Seqs]]
      BY <1>0, <1>3, <2>1, <2>2, SaleSaved DEF HoldSale
    <2>4. /\ run' \in [Runners -> {Idle} \cup Record]
          /\ \A q \in Runners : q # i => run'[q] = run[q]
      BY <1>0, <1>3, <2>1, GotoRun DEF HoldSale, At
    <2> QED
      BY <1>0, <1>3, <2>3, <2>4, RunnerTypeOK
         DEF HoldSale, At, TypeOK, OnlyDocuments, chainVars, history
  <1>4. CASE HoldWithdrawal(i)
    <2>1. "queued_liquidity" \in WithdrawalStatus
      BY DEF WithdrawalStatus
    <2>2. withdrawal' \in [Sales -> [status : WithdrawalStatus, ref : Refs]]
      BY <1>0, <1>4, <2>1, WithdrawalSaved DEF HoldWithdrawal
    <2>3. /\ run' \in [Runners -> {Idle} \cup Record] /\ run'[i].pc = "over"
          /\ \A q \in Runners : q # i => run'[q] = run[q]
      BY <1>0, <1>4, EndRun DEF HoldWithdrawal
    <2>4. queue \in Seq(Sales) /\ queue' = Append(queue, i)
      BY <1>4 DEF HoldWithdrawal, TypeOK
    <2>5. /\ queue' \in Seq(Sales) /\ Len(queue') = Len(queue) + 1 /\ queue'[Len(queue) + 1] = i
          /\ \A k \in 1..Len(queue) : queue'[k] = queue[k]
      BY <2>4
    <2>6. \A k \in 1..Len(queue) : run[queue[k]].pc = "over" /\ queue[k] # i
      <3>1. DOMAIN queue = 1..Len(queue)
        BY <2>4
      <3>2. run[i].pc = "hold withdrawal"
        BY <1>4 DEF HoldWithdrawal, At
      <3> QED BY <3>1, <3>2 DEF QueueInv
    <2>7. IsInjective(queue')
      <3>1. \A a, b \in 1..Len(queue) : queue[a] = queue[b] => a = b
        <4>1. IsInjective(queue)
          BY DEF TypeOK
        <4>2. DOMAIN queue = 1..Len(queue)
          BY <2>4
        <4> QED BY <4>1, <4>2 DEF IsInjective
      <3>2. DOMAIN queue' = 1..(Len(queue) + 1) /\ Len(queue) \in Nat
        BY <2>4, <2>5
      <3>3. \A a, b \in 1..(Len(queue) + 1) : queue'[a] = queue'[b] => a = b
        BY <2>5, <2>6, <3>1, <3>2
      <3> QED BY <3>2, <3>3 DEF IsInjective
    <2>8. QueueInv'
      BY <2>3, <2>4, <2>5, <2>6 DEF QueueInv, Runners
    <2>9. TypeOK'
      BY <1>4, <2>2, <2>3, <2>5, <2>7
         DEF HoldWithdrawal, TypeOK, OnlyDocuments, chainVars, history, Record
    <2> QED BY <2>8, <2>9
  <1> QED BY <1>1, <1>2, <1>3, <1>4 DEF Request

\* A runner with a pc of its own holds a sale.
LEMMA Holds ==
  ASSUME TypeOK, NEW r \in Runners, run[r].pc # "idle"
  PROVE  /\ run[r].of \in Sales /\ run[r].tx \in Seqs /\ run[r].ref \in Refs
         /\ run[r].pc \in Pcs /\ run[r].of \in Runners
  BY RunRecord DEF Runners

\* The two saves of a failed or stale broadcast, and the first of a sold one.
LEMMA SavesTypeOK ==
  ASSUME TypeOK, QueueInv, NEW r \in Runners, NEW pc, pc \notin {"idle", "over"},
         NEW next \in Pcs, NEW status,
         \/ status \in WithdrawalStatus /\ WithdrawalFirst(r, pc, status, next)
         \/ status \in SaleStatus /\ SaleSecond(r, pc, status)
  PROVE  TypeOK' /\ QueueInv'
  <1> DEFINE i == run[r].of
  <1>0. run[r].pc = pc /\ i \in Sales
    BY Holds DEF WithdrawalFirst, SaleSecond, At
  <1>f. withdrawal[i].ref \in Refs /\ 0 \in Seqs
    BY <1>0, Fields, CashOutAssumption DEF Seqs
  <1>1. CASE status \in WithdrawalStatus /\ WithdrawalFirst(r, pc, status, next)
    <2>1. withdrawal' \in [Sales -> [status : WithdrawalStatus, ref : Refs]]
      BY <1>0, <1>f, <1>1, WithdrawalSaved DEF WithdrawalFirst
    <2>2. /\ run' \in [Runners -> {Idle} \cup Record]
          /\ \A q \in Runners : q # r => run'[q] = run[q]
      BY <1>0, <1>1, GotoRun DEF WithdrawalFirst
    <2> QED
      BY <1>0, <1>1, <2>1, <2>2, RunnerTypeOK
         DEF WithdrawalFirst, TypeOK, OnlyDocuments, chainVars, history
  <1>2. CASE status \in SaleStatus /\ SaleSecond(r, pc, status)
    <2>1. sale' \in [Sales -> [status : SaleStatus, tx : Seqs]]
      BY <1>0, <1>f, <1>2, SaleSaved DEF SaleSecond
    <2>2. /\ run' \in [Runners -> {Idle} \cup Record]
          /\ \A q \in Runners : q # r => run'[q] = run[q]
      BY <1>0, <1>2, EndRun DEF SaleSecond
    <2> QED
      BY <1>0, <1>2, <2>1, <2>2, RunnerTypeOK
         DEF SaleSecond, TypeOK, OnlyDocuments, chainVars, history
  <1> QED BY <1>1, <1>2

LEMMA BroadcastTypeOK ==
  ASSUME TypeOK, QueueInv, NEW r \in Runners, Broadcast(r) \/ Burn(r)
  PROVE  TypeOK' /\ QueueInv'
  <1> DEFINE i == run[r].of
  <1>0. i \in Sales /\ run[r].tx \in Seqs /\ run[r].pc \notin {"idle", "over"}
    BY Holds DEF Broadcast, Burn, At
  <1>f. sequence[i] \in 1..(MaxSeq + 1) /\ sold[i] \in Nat /\ asked[i] \in Nat /\ 0 \in Seqs
    BY <1>0, Fields, CashOutAssumption DEF Seqs
  <1>1. CASE Broadcast(r)
    <2>2. \E pc \in Pcs : Spend(r, pc)
      BY <1>1 DEF Broadcast, Pcs
    <2>3. /\ run' \in [Runners -> {Idle} \cup Record]
          /\ \A q \in Runners : q # r => run'[q] = run[q]
      BY <1>0, <2>2, SpendRun
    <2>4. sequence' \in [Sales -> 1..(MaxSeq + 1)] /\ sold' \in [Sales -> Nat]
      <3>1. CASE /\ run[r].tx = sequence[i]
                 /\ sequence' = [sequence EXCEPT ![i] = @ + 1] /\ sold' = [sold EXCEPT ![i] = @ + 1]
        <4>1. sequence[i] + 1 \in 1..(MaxSeq + 1)
          BY <1>0, <1>f, <3>1, CashOutAssumption DEF Seqs
        <4>2. sequence' \in [Sales -> 1..(MaxSeq + 1)]
          BY <3>1, <4>1 DEF TypeOK
        <4>3. sold' \in [Sales -> Nat]
          <5>1. sold \in [Sales -> Nat] /\ sold[i] + 1 \in Nat
            BY <1>f DEF TypeOK
          <5> QED BY <3>1, <5>1
        <4> QED BY <4>2, <4>3
      <3>2. CASE UNCHANGED chainVars
        BY <3>2 DEF chainVars, TypeOK
      <3>3. \/ /\ run[r].tx = sequence[i]
               /\ sequence' = [sequence EXCEPT ![i] = @ + 1] /\ sold' = [sold EXCEPT ![i] = @ + 1]
            \/ UNCHANGED chainVars
        BY <1>1 DEF Broadcast
      <3> QED BY <3>1, <3>2, <3>3
    <2> QED
      BY <1>0, <1>1, <2>3, <2>4, RunnerTypeOK DEF Broadcast, TypeOK, documents, history
  <1>2. CASE Burn(r)
    <2>1. "broadcasted" \in SaleStatus /\ "pay" \in Pcs
      BY DEF SaleStatus, Pcs
    <2>2. sale' \in [Sales -> [status : SaleStatus, tx : Seqs]]
      BY <1>0, <1>f, <1>2, <2>1, SaleSaved DEF Burn
    <2>3. /\ run' \in [Runners -> {Idle} \cup Record]
          /\ \A q \in Runners : q # r => run'[q] = run[q]
      BY <1>0, <1>2, <2>1, GotoRun DEF Burn
    <2>4. asked' \in [Sales -> Nat]
      BY <1>0, <1>f, <1>2 DEF Burn, TypeOK
    <2> QED BY <1>0, <1>2, <2>2, <2>3, <2>4, RunnerTypeOK DEF Burn, TypeOK, chainVars
  <1> QED BY <1>1, <1>2

LEMMA PaymentTypeOK ==
  ASSUME TypeOK, QueueInv, NEW r \in Runners, PostPayout(r) \/ RecordPayout(r)
  PROVE  TypeOK' /\ QueueInv'
  <1> DEFINE i == run[r].of
  <1>0. i \in Sales /\ run[r].ref \in Refs /\ run[r].pc \notin {"idle", "over"}
    BY Holds DEF PostPayout, RecordPayout, At
  <1>1. CASE PostPayout(r)
    <2> DEFINE ref == Len(payments[i]) + 1
    <2>1. payments[i] \in Seq({"accepted", "paid", "refused"})
      BY <1>0 DEF TypeOK
    <2>2. /\ ref <= MaxPays
          /\ payments' = [payments EXCEPT ![i] = Append(@, "accepted")]
          /\ Goto(r, "repay") \/ run' = [run EXCEPT ![r].pc = "paid", ![r].ref = ref]
      BY <1>1 DEF PostPayout
    <2>3. payments' \in [Sales -> Seq({"accepted", "paid", "refused"})]
      BY <1>0, <2>1, <2>2 DEF TypeOK
    <2>4. /\ run' \in [Runners -> {Idle} \cup Record]
          /\ \A q \in Runners : q # r => run'[q] = run[q]
      <3>1. CASE Goto(r, "repay")
        BY <1>0, <3>1, GotoRun DEF Pcs
      <3>2. CASE run' = [run EXCEPT ![r].pc = "paid", ![r].ref = ref]
        <4>1. ref \in Refs
          BY <2>1, <2>2, CashOutAssumption DEF Refs
        <4>2. run[r] \in Record
          BY <1>0, RunRecord
        <4>3. [[run[r] EXCEPT !.pc = "paid"] EXCEPT !.ref = ref] \in Record
          BY <4>1, <4>2 DEF Record, Pcs
        <4>4. run \in [Runners -> {Idle} \cup Record]
          BY DEF TypeOK, Record
        <4> QED BY <3>2, <4>3, <4>4
      <3> QED BY <2>2, <3>1, <3>2
    <2> QED
      BY <1>0, <1>1, <2>3, <2>4, RunnerTypeOK
         DEF PostPayout, TypeOK, documents, chainVars, history
  <1>2. CASE RecordPayout(r)
    <2>1. \E pc \in Pcs : Goto(r, pc)
      BY <1>2 DEF RecordPayout, Pcs
    <2>2. /\ run' \in [Runners -> {Idle} \cup Record]
          /\ \A q \in Runners : q # r => run'[q] = run[q]
      BY <1>0, <2>1, GotoRun
    <2>3. payout' \in [Sales -> [status : PayoutStatus, ref : Refs]]
      <3>1. [status |-> "initiated", ref |-> run[r].ref] \in [status : PayoutStatus, ref : Refs]
        BY <1>0 DEF PayoutStatus
      <3> QED BY <1>0, <1>2, <3>1 DEF RecordPayout, TypeOK
    <2> QED
      BY <1>0, <1>2, <2>2, <2>3, RunnerTypeOK DEF RecordPayout, TypeOK, chainVars, history
  <1> QED BY <1>1, <1>2

\* The steps of a payout that save a withdrawal or nothing, and the end of a runner.
LEMMA AfterTypeOK ==
  ASSUME TypeOK, QueueInv, NEW r \in Runners,
         PayoutRefused(r) \/ AfterRefusal(r) \/ PayoutInitiated(r) \/ PayoutError(r) \/ Die(r)
  PROVE  TypeOK' /\ QueueInv'
  <1> DEFINE i == run[r].of
  <1>0. run[r].pc \notin {"idle", "over"}
    BY DEF PayoutRefused, AfterRefusal, PayoutInitiated, PayoutError, Die, At
  <1>f. i \in Sales /\ run[r].ref \in Refs /\ withdrawal[i].ref \in Refs
    BY <1>0, Holds, Fields
  <1>1. CASE PayoutRefused(r)
    <2>1. \E pc \in Pcs : Goto(r, pc)
      BY <1>1 DEF PayoutRefused, Pcs
    <2>2. /\ run' \in [Runners -> {Idle} \cup Record]
          /\ \A q \in Runners : q # r => run'[q] = run[q]
      BY <1>0, <2>1, GotoRun
    <2> QED
      BY <1>0, <1>1, <2>2, RunnerTypeOK
         DEF PayoutRefused, TypeOK, documents, OnlyDocuments, chainVars, history
  <1>2. CASE AfterRefusal(r)
    <2>1. /\ run' \in [Runners -> {Idle} \cup Record]
          /\ \A q \in Runners : q # r => run'[q] = run[q]
      BY <1>2, EndRun DEF AfterRefusal
    <2>2. \/ \E status \in {"pending_review", "failed"} : SaveWithdrawal(i, status)
          \/ UNCHANGED withdrawal
      BY <1>2 DEF AfterRefusal
    <2>3. {"pending_review", "failed"} \subseteq WithdrawalStatus
      BY DEF WithdrawalStatus
    <2>4. withdrawal' \in [Sales -> [status : WithdrawalStatus, ref : Refs]]
      BY <1>f, <2>2, <2>3, WithdrawalSaved DEF TypeOK
    <2> QED
      BY <1>0, <1>2, <2>1, <2>4, RunnerTypeOK
         DEF AfterRefusal, TypeOK, OnlyDocuments, chainVars, history
  <1>3. CASE PayoutInitiated(r)
    <2>1. /\ run' \in [Runners -> {Idle} \cup Record]
          /\ \A q \in Runners : q # r => run'[q] = run[q]
      BY <1>3, EndRun DEF PayoutInitiated
    <2>2. "payout_initiated" \in WithdrawalStatus
      BY DEF WithdrawalStatus
    <2>3. withdrawal' \in [Sales -> [status : WithdrawalStatus, ref : Refs]]
      BY <1>f, <1>3, <2>2, WithdrawalSaved DEF PayoutInitiated
    <2> QED
      BY <1>0, <1>3, <2>1, <2>3, RunnerTypeOK
         DEF PayoutInitiated, TypeOK, OnlyDocuments, chainVars, history
  <1>4. CASE PayoutError(r)
    <2>1. "unpaid" \in Pcs
      BY DEF Pcs
    <2>2. /\ run' \in [Runners -> {Idle} \cup Record]
          /\ \A q \in Runners : q # r => run'[q] = run[q]
      BY <1>0, <1>4, <2>1, GotoRun DEF PayoutError
    <2>3. faults' \in 0..MaxFaults
      BY <1>4, CashOutAssumption DEF PayoutError, TypeOK
    <2> QED
      BY <1>0, <1>4, <2>2, <2>3, RunnerTypeOK
         DEF PayoutError, TypeOK, documents, chainVars, history
  <1>5. CASE Die(r)
    <2>1. /\ run' \in [Runners -> {Idle} \cup Record]
          /\ \A q \in Runners : q # r => run'[q] = run[q]
      BY <1>5, EndRun DEF Die
    <2>2. faults' \in 0..MaxFaults
      BY <1>5, CashOutAssumption DEF Die, TypeOK
    <2>3. todo' \in [Scanners -> Seq(Sales)]
      BY <1>5 DEF Die, TypeOK
    <2> QED
      BY <1>0, <1>5, <2>1, <2>2, <2>3, RunnerTypeOK
         DEF Die, TypeOK, documents, chainVars, history
  <1> QED BY <1>1, <1>2, <1>3, <1>4, <1>5

LEMMA FunctionIsSeq ==
  ASSUME NEW T, NEW n \in Nat, NEW f \in [1..n -> T]
  PROVE  f \in Seq(T) /\ DOMAIN f = 1..n
  OBVIOUS

\* A scan, and the start of a settlement by a scan or an administrator.
LEMMA ScanTypeOK ==
  ASSUME TypeOK, QueueInv, NEW s \in Scanners,
         Scan(s) \/ StopScan(s) \/ \E i \in Sales : Release(s, i)
  PROVE  TypeOK' /\ QueueInv'
  <1>0. s \in Runners
    BY DEF Runners
  <1>1. CASE Scan(s)
    <2> DEFINE S == {i \in Sales : IsQueued(i)}
    <2>1. PICK found \in SetToSeqs(S) : todo' = [todo EXCEPT ![s] = found]
      BY <1>1 DEF Scan
    <2>2. Cardinality(S) \in Nat
      BY CashOutAssumption, FS_Subset, FS_CardinalityType
    <2>3. found \in [1..Cardinality(S) -> S]
      BY DEF SetToSeqs
    <2>4. found \in Seq(Sales)
      <3>1. found \in [1..Cardinality(S) -> Sales]
        BY <2>3
      <3> QED BY <2>2, <3>1, FunctionIsSeq
    <2>5. todo' \in [Scanners -> Seq(Sales)]
      BY <2>1, <2>4 DEF TypeOK
    <2>6. UNCHANGED <<documents, run, resign, callback, poll, faults, chainVars, payments, history>>
      BY <1>1 DEF Scan
    <2> QED BY <2>5, <2>6 DEF TypeOK, QueueInv, documents, chainVars, history
  <1>2. CASE StopScan(s)
    <2>1. todo' \in [Scanners -> Seq(Sales)]
      BY <1>2 DEF StopScan, TypeOK
    <2> QED BY <1>2, <2>1 DEF StopScan, TypeOK, QueueInv, documents, chainVars, history
  <1>3. ASSUME NEW i \in Sales, Release(s, i) PROVE TypeOK' /\ QueueInv'
    <2>1. todo[s] \in Seq(Sales) /\ todo[s] # <<>>
      BY <1>3 DEF Release, TypeOK
    <2>2. Tail(todo[s]) \in Seq(Sales)
      BY <2>1
    <2>3. todo' \in [Scanners -> Seq(Sales)]
      BY <1>3, <2>2 DEF Release, TypeOK
    <2>4. sale[i].tx \in Seqs /\ "broadcast" \in Pcs
      BY <2>2, Fields DEF Pcs
    <2>5. /\ run' \in [Runners -> {Idle} \cup Record]
          /\ \A q \in Runners : q # s => run'[q] = run[q]
      <3>1. CASE UNCHANGED run
        BY <3>1 DEF TypeOK, Record
      <3>2. CASE Start(s, "broadcast", i, sale[i].tx)
        BY <1>0, <2>2, <2>4, <3>2, StartRun
      <3> QED BY <1>3, <3>1, <3>2 DEF Release
    <2>6. run[s].pc # "over"
      BY <1>3 DEF Release, At
    <2> QED
      BY <1>0, <1>3, <2>3, <2>5, <2>6, RunnerTypeOK
         DEF Release, TypeOK, documents, chainVars, history
  <1> QED BY <1>1, <1>2, <1>3

LEMMA ResignTypeOK ==
  ASSUME TypeOK, QueueInv, NEW c \in Clients,
         \/ \E i \in Sales : Resign(c, i)
         \/ ResignSale(c) \/ ResignWithdrawal(c) \/ ResignDies(c)
  PROVE  TypeOK' /\ QueueInv'
  <1> DEFINE Resigning == [pc : {"sale", "withdrawal"}, of : Sales, tx : Seqs]
  <1>0. /\ resign \in [Clients -> {Idle} \cup Resigning]
        /\ "queued_liquidity" \in SaleStatus /\ "queued_liquidity" \in WithdrawalStatus
    BY DEF TypeOK, SaleStatus, WithdrawalStatus
  <1>1. ASSUME NEW i \in Sales, Resign(c, i) PROVE TypeOK' /\ QueueInv'
    <2>1. sequence[i] \in Seqs
      BY <1>1, Fields, CashOutAssumption DEF Resign, Seqs
    <2>2. [pc |-> "sale", of |-> i, tx |-> sequence[i]] \in Resigning
      BY <2>1
    <2>3. resign' \in [Clients -> {Idle} \cup Resigning]
      BY <1>0, <1>1, <2>2 DEF Resign
    <2> QED BY <1>1, <2>3 DEF Resign, TypeOK, QueueInv, documents, chainVars, history
  <1>2. CASE ResignSale(c)
    <2> DEFINE i == resign[c].of
    <2>1. i \in Sales /\ resign[c].tx \in Seqs /\ resign[c] \in Resigning
      BY <1>2, ResignRecord DEF ResignSale
    <2>2. [resign[c] EXCEPT !.pc = "withdrawal"] \in Resigning
      BY <2>1
    <2>3. resign' \in [Clients -> {Idle} \cup Resigning]
      BY <1>0, <1>2, <2>2 DEF ResignSale
    <2>4. sale' \in [Sales -> [status : SaleStatus, tx : Seqs]]
      BY <1>0, <1>2, <2>1, SaleSaved DEF ResignSale
    <2> QED BY <1>2, <2>3, <2>4 DEF ResignSale, TypeOK, QueueInv, chainVars, history
  <1>3. CASE ResignWithdrawal(c)
    <2> DEFINE i == resign[c].of
    <2>1. i \in Sales
      BY <1>3, ResignRecord DEF ResignWithdrawal
    <2>2. resign' \in [Clients -> {Idle} \cup Resigning]
      BY <1>0, <1>3 DEF ResignWithdrawal
    <2>3. withdrawal' \in [Sales -> [status : WithdrawalStatus, ref : Refs]]
      BY <1>0, <1>3, <2>1, WithdrawalSaved, Fields DEF ResignWithdrawal
    <2> QED BY <1>3, <2>2, <2>3 DEF ResignWithdrawal, TypeOK, QueueInv, chainVars, history
  <1>4. CASE ResignDies(c)
    <2>1. faults' \in 0..MaxFaults
      BY <1>4, CashOutAssumption DEF ResignDies, TypeOK
    <2>2. resign' \in [Clients -> {Idle} \cup Resigning]
      BY <1>0, <1>4 DEF ResignDies
    <2> QED BY <1>4, <2>1, <2>2 DEF ResignDies, TypeOK, QueueInv, documents, chainVars, history
  <1> QED BY <1>1, <1>2, <1>3, <1>4

\* The payout callback.
LEMMA CallbackTypeOK ==
  ASSUME TypeOK, QueueInv, NEW d \in Deliveries, Reply(d) \/ CallbackDies(d)
  PROVE  TypeOK' /\ QueueInv'
  <1>0. /\ callback \in [Deliveries -> {Idle} \cup Delivery]
        /\ {"completed", "failed"} \subseteq SaleStatus \cap WithdrawalStatus
    BY DEF TypeOK, SaleStatus, WithdrawalStatus, Delivery
  <1>p. {"payout", "sale", "save sale", "withdrawal", "save withdrawal"} \subseteq CallbackPcs
    BY DEF CallbackPcs
  <1>b. \A field \in Paths : \A read, new : Written(field, read, new) \subseteq Paths
    BY DEF Written
  <1>o. {"status", "ref"} \subseteq Paths
    BY DEF Paths
  <1>1. ASSUME NEW i \in Sales, Callback(d, i) PROVE TypeOK' /\ QueueInv'
    <2> DEFINE ref == payout[i].ref
    <2>1. PICK end \in {"paid", "refused"} :
            /\ payments' = [payments EXCEPT ![i][ref] = end]
            /\ callback' = [callback EXCEPT ![d] = [pc |-> "payout", of |-> i, ref |-> ref,
                                                    ok |-> end = "paid", writes |-> {}]]
      BY <1>1 DEF Callback
    <2>2. [pc |-> "payout", of |-> i, ref |-> ref, ok |-> end = "paid", writes |-> {}] \in Delivery
      <3>1. ref \in Refs /\ (end = "paid") \in BOOLEAN /\ {} \in SUBSET Paths
        BY Fields
      <3> HIDE DEF ref
      <3> QED BY <1>p, <3>1 DEF Delivery
    <2>3. callback' \in [Deliveries -> {Idle} \cup Delivery]
      BY <1>0, <2>1, <2>2
    <2>4. payments' \in [Sales -> Seq({"accepted", "paid", "refused"})]
      <3>1. payments \in [Sales -> Seq({"accepted", "paid", "refused"})]
        BY DEF TypeOK
      <3>2. [payments[i] EXCEPT ![ref] = end] \in Seq({"accepted", "paid", "refused"})
        <4>1. CASE ref \in DOMAIN payments[i]
          BY <3>1, <4>1, ExceptSeq
        <4>2. CASE ref \notin DOMAIN payments[i]
          <5>1. [payments[i] EXCEPT ![ref] = end] = payments[i]
            BY <3>1, <4>2
          <5> QED BY <3>1, <5>1
        <4> QED BY <4>1, <4>2
      <3> QED BY <2>1, <3>1, <3>2
    <2>5. UNCHANGED <<documents, run, todo, resign, poll, faults, chainVars, history>>
      BY <1>1 DEF Callback, OnlyCallback, documents
    <2> QED BY <2>3, <2>4, <2>5 DEF TypeOK, QueueInv, documents, chainVars, history, Delivery
  <1>2. CASE CallbackPayout(d)
    <2>1. callback[d] # Idle /\ callback[d].of \in Sales
      BY <1>2, CallbackRecord DEF CallbackPayout
    <2>2. callback' \in [Deliveries -> {Idle} \cup Delivery]
      <3>1. Deliver(d, "sale", {}) /\ {} \in SUBSET Paths
        BY <1>2 DEF CallbackPayout
      <3> QED BY <1>p, <2>1, <3>1, DeliverMoves
    <2>3. payout' \in [Sales -> [status : PayoutStatus, ref : Refs]]
      <3>1. payout \in [Sales -> [status : PayoutStatus, ref : Refs]]
        BY DEF TypeOK
      <3>2. \E status \in PayoutStatus : payout' = [payout EXCEPT ![callback[d].of].status = status]
        BY <1>2 DEF CallbackPayout, PayoutStatus
      <3> QED BY <2>1, <3>1, <3>2
    <2> QED BY <1>2, <2>2, <2>3
            DEF CallbackPayout, OnlyCallback, TypeOK, QueueInv, chainVars, history, Delivery
  <1>3. CASE CallbackSale(d)
    <2>1. callback[d] # Idle /\ callback[d].of \in Sales
      BY <1>3, CallbackRecord DEF CallbackSale
    <2>2. callback' \in [Deliveries -> {Idle} \cup Delivery]
      <3>1. \E pc \in CallbackPcs, writes \in SUBSET Paths : Deliver(d, pc, writes)
        <4>1. {} \in SUBSET Paths
          OBVIOUS
        <4> QED BY <1>3, <1>p, <1>b, <1>o, <4>1 DEF CallbackSale
      <3> QED BY <2>1, <3>1, DeliverMoves
    <2>3. sale' \in [Sales -> [status : SaleStatus, tx : Seqs]]
      <3>1. Outcome(callback[d].ok) \in SaleStatus
        BY <1>0 DEF Outcome
      <3>2. CASE SaveSale(callback[d].of, Outcome(callback[d].ok))
        BY <2>1, <3>1, <3>2, SaleSaved, Fields
      <3>3. CASE UNCHANGED sale
        BY <3>3 DEF TypeOK
      <3> QED BY <1>3, <3>2, <3>3 DEF CallbackSale
    <2> QED BY <1>3, <2>2, <2>3
            DEF CallbackSale, OnlyCallback, TypeOK, QueueInv, chainVars, history, Delivery
  <1>4. CASE CallbackReads(d)
    <2>1. callback[d] # Idle
      BY <1>4, CallbackRecord DEF CallbackReads
    <2>2. callback' \in [Deliveries -> {Idle} \cup Delivery]
      <3>1. \E writes \in SUBSET Paths : Deliver(d, "save withdrawal", writes)
        BY <1>4, <1>b, <1>o DEF CallbackReads
      <3> QED BY <1>p, <2>1, <3>1, DeliverMoves
    <2> QED BY <1>4, <2>2
            DEF CallbackReads, OnlyCallback, TypeOK, QueueInv, chainVars, history, Delivery
  <1>5. CASE CallbackWithdrawal(d)
    <2>1. callback[d].of \in Sales /\ callback[d].ref \in Refs
      BY <1>5, CallbackRecord DEF CallbackWithdrawal
    <2>2. callback' \in [Deliveries -> {Idle} \cup Delivery]
      BY <1>0, <1>5 DEF CallbackWithdrawal
    <2>3. \E status \in WithdrawalStatus, ref \in Refs : SavePayoutRef(callback[d].of, status, ref)
      <3>1. /\ Outcome(callback[d].ok) \in WithdrawalStatus
            /\ withdrawal[callback[d].of].status \in WithdrawalStatus
            /\ withdrawal[callback[d].of].ref \in Refs
        BY <1>0, <2>1, Fields DEF Outcome
      <3> QED BY <1>5, <2>1, <3>1 DEF CallbackWithdrawal
    <2>4. withdrawal' \in [Sales -> [status : WithdrawalStatus, ref : Refs]]
      BY <2>1, <2>3, WithdrawalSaved
    <2> QED BY <1>5, <2>2, <2>4
            DEF CallbackWithdrawal, OnlyCallback, TypeOK, QueueInv, chainVars, history, Delivery
  <1>6. CASE CallbackDies(d)
    <2>1. faults' \in 0..MaxFaults
      BY <1>6, CashOutAssumption DEF CallbackDies, TypeOK
    <2>2. callback' \in [Deliveries -> {Idle} \cup Delivery]
      BY <1>0, <1>6 DEF CallbackDies
    <2> QED BY <1>6, <2>1, <2>2
            DEF CallbackDies, TypeOK, QueueInv, documents, chainVars, history, Delivery
  <1> QED BY <1>1, <1>2, <1>3, <1>4, <1>5, <1>6 DEF Reply

\* The polls.
LEMMA PollTypeOK ==
  ASSUME TypeOK, QueueInv,
         \/ \E i \in Sales : PollSale(i)
         \/ \E p \in Polls : PollWithdrawal(p) \/ \E i \in Sales : PollReads(p, i)
  PROVE  TypeOK' /\ QueueInv'
  <1>0. {"completed", "failed"} \subseteq SaleStatus \cap WithdrawalStatus
    BY DEF SaleStatus, WithdrawalStatus
  <1>1. ASSUME NEW i \in Sales, PollSale(i) PROVE TypeOK' /\ QueueInv'
    <2>1. \E status \in SaleStatus : SaveSale(i, status)
      BY <1>0, <1>1 DEF PollSale, Outcome
    <2>2. sale' \in [Sales -> [status : SaleStatus, tx : Seqs]]
      BY <2>1, SaleSaved, Fields
    <2> QED BY <1>1, <2>2 DEF PollSale, OnlyDocuments, TypeOK, QueueInv, chainVars, history
  <1>2. ASSUME NEW p \in Polls, NEW i \in Sales, PollReads(p, i) PROVE TypeOK' /\ QueueInv'
    <2>1. poll' \in [Polls -> {Idle} \cup [pc : {"payout"}, of : Sales, saves : SUBSET Outcomes]]
      BY <1>2 DEF PollReads, TypeOK
    <2> QED BY <1>2, <2>1 DEF PollReads, TypeOK, QueueInv, documents, chainVars, history
  <1>3. ASSUME NEW p \in Polls, PollWithdrawal(p) PROVE TypeOK' /\ QueueInv'
    <2>1. poll[p].of \in Sales
      BY <1>3, PollRecord DEF PollWithdrawal
    <2>2. \/ UNCHANGED withdrawal
          \/ \E status \in WithdrawalStatus : SaveWithdrawal(poll[p].of, status)
      BY <1>0, <1>3 DEF PollWithdrawal, Outcome
    <2>3. withdrawal' \in [Sales -> [status : WithdrawalStatus, ref : Refs]]
      BY <2>1, <2>2, WithdrawalSaved, Fields DEF TypeOK
    <2>4. poll' \in [Polls -> {Idle} \cup [pc : {"payout"}, of : Sales, saves : SUBSET Outcomes]]
      BY <1>3 DEF PollWithdrawal, TypeOK
    <2> QED BY <1>3, <2>3, <2>4 DEF PollWithdrawal, TypeOK, QueueInv, chainVars, history
  <1> QED BY <1>1, <1>2, <1>3

\* The administrator and the environment.
LEMMA OutsideTypeOK ==
  ASSUME TypeOK, QueueInv,
         \/ \E i \in Sales : OtherTransaction(i)
         \/ \E a \in Admins : Administer(a)
  PROVE  TypeOK' /\ QueueInv'
  <1>1. ASSUME NEW i \in Sales, OtherTransaction(i) PROVE TypeOK' /\ QueueInv'
    <2>1. sequence[i] + 1 \in 1..(MaxSeq + 1)
      BY <1>1, Fields, CashOutAssumption DEF OtherTransaction
    <2>2. sequence' \in [Sales -> 1..(MaxSeq + 1)]
      BY <1>1, <2>1 DEF OtherTransaction, TypeOK
    <2> QED BY <1>1, <2>2 DEF OtherTransaction, TypeOK, QueueInv, documents, handlers, history
  <1>2. ASSUME NEW a \in Admins, NEW i \in Sales, RetryWithdrawal(a, i) \/ ResolveReads(a, i)
        PROVE  TypeOK' /\ QueueInv'
    <2>1. {"pay", "resolve"} \subseteq Pcs /\ 0 \in Seqs /\ a \in Runners
      BY CashOutAssumption DEF Pcs, Seqs, Runners
    <2>2. /\ run' \in [Runners -> {Idle} \cup Record]
          /\ \A q \in Runners : q # a => run'[q] = run[q]
      BY <1>2, <2>1, StartRun DEF RetryWithdrawal, ResolveReads
    <2> QED
      BY <1>2, <2>1, <2>2, RunnerTypeOK
         DEF RetryWithdrawal, ResolveReads, At, OnlyDocuments, TypeOK, documents, chainVars, history
  <1>3. ASSUME NEW a \in Admins, NEW outcome \in {"completed", "refunded"},
               ResolveWithdrawal(a, outcome)
        PROVE  TypeOK' /\ QueueInv'
    <2>1. a \in Runners /\ outcome \in WithdrawalStatus
      BY DEF Runners, WithdrawalStatus
    <2>2. run[a].of \in Sales /\ run[a].pc = "resolve"
      BY <1>3, <2>1, Holds DEF ResolveWithdrawal, At
    <2>3. withdrawal' \in [Sales -> [status : WithdrawalStatus, ref : Refs]]
      BY <1>3, <2>1, <2>2, WithdrawalSaved, Fields DEF ResolveWithdrawal
    <2>4. /\ run' \in [Runners -> {Idle} \cup Record]
          /\ \A q \in Runners : q # a => run'[q] = run[q]
      BY <1>3, <2>1, EndRun DEF ResolveWithdrawal
    <2>5. resolved' \in SUBSET Sales
      BY <1>3, <2>2 DEF ResolveWithdrawal, TypeOK
    <2> QED
      BY <1>3, <2>1, <2>2, <2>3, <2>4, <2>5, RunnerTypeOK
         DEF ResolveWithdrawal, TypeOK, chainVars
  <1> QED BY <1>1, <1>2, <1>3 DEF Administer

\* A settlement's step, whatever runs it.
LEMMA SettleTypeOK ==
  ASSUME TypeOK, QueueInv, NEW r \in Runners, Settle(r)
  PROVE  TypeOK' /\ QueueInv'
  <1>1. CASE Broadcast(r) \/ Burn(r)
    BY <1>1, BroadcastTypeOK
  <1>2. CASE PostPayout(r) \/ RecordPayout(r)
    BY <1>2, PaymentTypeOK
  <1>3. CASE PayoutRefused(r) \/ AfterRefusal(r) \/ PayoutInitiated(r)
    BY <1>3, AfterTypeOK
  <1>4. CASE BroadcastFailed(r) \/ SequenceMismatch(r) \/ Sold(r)
    <2>1. /\ {"failed sale", "stale sale", "burn"} \subseteq Pcs
          /\ {"failed", "resign_required"} \subseteq SaleStatus
          /\ {"failed", "resign_required", "pending_review"} \subseteq WithdrawalStatus
      BY DEF Pcs, SaleStatus, WithdrawalStatus
    <2>2. \/ WithdrawalFirst(r, "failed", "failed", "failed sale")
          \/ SaleSecond(r, "failed sale", "failed")
          \/ WithdrawalFirst(r, "stale", "resign_required", "stale sale")
          \/ SaleSecond(r, "stale sale", "resign_required")
          \/ WithdrawalFirst(r, "sold", "pending_review", "burn")
      BY <1>4 DEF BroadcastFailed, SequenceMismatch, Sold
    <2> QED BY <2>1, <2>2, SavesTypeOK
  <1> QED BY <1>1, <1>2, <1>3, <1>4 DEF Settle

LEMMA NextTypeOK ==
  ASSUME TypeOK, QueueInv, [Next]_vars
  PROVE  TypeOK' /\ QueueInv'
  <1>1. CASE UNCHANGED vars
    BY <1>1 DEF vars, documents, handlers, chainVars, history, TypeOK, QueueInv
  <1>2. ASSUME NEW i \in Sales, Request(i) PROVE TypeOK' /\ QueueInv'
    BY <1>2, RequestTypeOK
  <1>3. ASSUME NEW d \in Deliveries, Reply(d) \/ CallbackDies(d) PROVE TypeOK' /\ QueueInv'
    BY <1>3, CallbackTypeOK
  <1>7. ASSUME \/ \E i \in Sales : PollSale(i)
               \/ \E p \in Polls : PollWithdrawal(p) \/ \E i \in Sales : PollReads(p, i)
        PROVE  TypeOK' /\ QueueInv'
    BY <1>7, PollTypeOK
  <1>8. ASSUME (\E i \in Sales : OtherTransaction(i)) \/ (\E a \in Admins : Administer(a))
        PROVE  TypeOK' /\ QueueInv'
    BY <1>8, OutsideTypeOK
  <1>4. ASSUME NEW c \in Clients,
               \/ \E i \in Sales : Resign(c, i)
               \/ ResignSale(c) \/ ResignWithdrawal(c) \/ ResignDies(c)
        PROVE  TypeOK' /\ QueueInv'
    BY <1>4, ResignTypeOK
  <1>5. ASSUME NEW s \in Scanners, Scan(s) \/ StopScan(s) \/ \E i \in Sales : Release(s, i)
        PROVE  TypeOK' /\ QueueInv'
    BY <1>5, ScanTypeOK
  <1>6. ASSUME NEW r \in Runners, Settle(r) \/ PayoutError(r) \/ Die(r) PROVE TypeOK' /\ QueueInv'
    BY <1>6, SettleTypeOK, AfterTypeOK
  <1> QED BY <1>1, <1>2, <1>3, <1>4, <1>5, <1>6, <1>7, <1>8 DEF Next, Fault

LEMMA InitTypeOK ==
  ASSUME Init
  PROVE  TypeOK /\ QueueInv
  <1>1. 0 \in Seqs /\ 0 \in Refs /\ 1 \in 1..(MaxSeq + 1) /\ 0 \in 0..MaxFaults
    BY CashOutAssumption DEF Seqs, Refs
  <1>2. <<>> \in Seq(Sales) /\ <<>> \in Seq({"accepted", "paid", "refused"}) /\ DOMAIN <<>> = {}
    OBVIOUS
  <1>3. /\ sale \in [Sales -> [status : SaleStatus, tx : Seqs]]
        /\ withdrawal \in [Sales -> [status : WithdrawalStatus, ref : Refs]]
        /\ payout \in [Sales -> [status : PayoutStatus, ref : Refs]]
    BY <1>1 DEF Init, SaleStatus, WithdrawalStatus, PayoutStatus
  <1>4. queue \in Seq(Sales) /\ IsInjective(queue) /\ QueueInv
    BY <1>2 DEF Init, IsInjective, QueueInv
  <1>5. /\ sequence \in [Sales -> 1..(MaxSeq + 1)] /\ sold \in [Sales -> Nat]
        /\ asked \in [Sales -> Nat]
        /\ todo \in [Scanners -> Seq(Sales)]
        /\ payments \in [Sales -> Seq({"accepted", "paid", "refused"})]
    BY <1>1, <1>2 DEF Init
  <1> QED BY <1>1, <1>3, <1>4, <1>5 DEF Init, TypeOK

LEMMA Typed == Spec => [](TypeOK /\ QueueInv)
  <1>1. Init => TypeOK /\ QueueInv
    BY InitTypeOK
  <1>2. (TypeOK /\ QueueInv) /\ [Next]_vars => (TypeOK /\ QueueInv)'
    BY NextTypeOK
  <1> QED BY <1>1, <1>2, PTL DEF Spec

\* Every document, handler and record of Safaricom has a state the code gives it, and
\* the queue holds no withdrawal twice: only the request that is over has queued it.
THEOREM CashOutTypeOK == Spec => []TypeOK
  BY Typed, PTL

-----------------------------------------------------------------------------
(* What is shown as paid was paid.                                         *)

\* Steps that neither record nor decide a payment, and complete nothing that the
\* recorded payout or an administrator does not.
LEMMA StaysPaid ==
  ASSUME TypeOK, PaidInv, UNCHANGED <<payout, payments>>, resolved \subseteq resolved',
         \A r \in Runners : run'[r] = run[r] \/ run'[r].pc \notin {"paid", "recorded"},
         \A d \in Deliveries :
            \/ callback'[d] = callback[d]
            \/ callback'[d] = Idle
            \/ /\ callback[d] # Idle /\ callback[d].pc # "payout"
               /\ callback'[d].of = callback[d].of /\ callback'[d].ref = callback[d].ref
               /\ callback'[d].ok = callback[d].ok,
         \A i \in Sales : sale'[i].status = "completed" =>
            sale[i].status = "completed" \/ payout[i].status = "succeeded",
         \A i \in Sales : withdrawal'[i].status = "completed" =>
            \/ withdrawal[i].status = "completed" \/ i \in resolved'
            \/ payout[i].status = "succeeded"
  PROVE  PaidInv'
  <1>1. ASSUME NEW r \in Runners PROVE Accepted(r)'
    BY DEF PaidInv, Accepted
  <1>2. ASSUME NEW i \in Sales PROVE Recorded(i)'
    BY DEF PaidInv, Recorded
  <1>3. ASSUME NEW d \in Deliveries, callback'[d] # Idle PROVE Reported(d)'
    BY <1>3 DEF PaidInv, Reported
  <1> QED BY <1>1, <1>2, <1>3 DEF PaidInv

LEMMA NothingPaid ==
  ASSUME TypeOK, PaidInv, UNCHANGED <<payout, callback, payments>>, resolved \subseteq resolved',
         \A r \in Runners : run'[r] = run[r] \/ run'[r].pc \notin {"paid", "recorded"},
         \A i \in Sales : sale'[i].status \in {sale[i].status} \cup (SaleStatus \ {"completed"}),
         \A i \in Sales : \/ withdrawal'[i] = withdrawal[i]
                          \/ withdrawal'[i].status # "completed"
  PROVE  PaidInv'
  BY StaysPaid

\* A step of runner r that saves the sale, the withdrawal or neither.
LEMMA RunnerPays ==
  ASSUME TypeOK, PaidInv, UNCHANGED <<payout, callback, payments, resolved>>,
         NEW r \in Runners, NEW i \in Sales,
         run'[r].pc \notin {"paid", "recorded"}, \A q \in Runners : q # r => run'[q] = run[q],
         \/ UNCHANGED sale
         \/ /\ sale'[i].status \in SaleStatus \ {"completed"}
            /\ \A j \in Sales : j # i => sale'[j] = sale[j],
         \/ UNCHANGED withdrawal
         \/ /\ withdrawal'[i].status # "completed"
            /\ \A j \in Sales : j # i => withdrawal'[j] = withdrawal[j]
  PROVE  PaidInv'
  <1>1. \A q \in Runners : run'[q] = run[q] \/ run'[q].pc \notin {"paid", "recorded"}
    OBVIOUS
  <1>2. \A j \in Sales : sale'[j].status \in {sale[j].status} \cup (SaleStatus \ {"completed"})
    OBVIOUS
  <1>3. \A j \in Sales : \/ withdrawal'[j] = withdrawal[j]
                         \/ withdrawal'[j].status # "completed"
    OBVIOUS
  <1> QED BY <1>1, <1>2, <1>3, NothingPaid

LEMMA RequestPaid ==
  ASSUME TypeOK, PaidInv, NEW i \in Sales, Request(i)
  PROVE  PaidInv'
  <1>0. i \in Runners /\ 0 \in Seqs /\ withdrawal[i].ref \in Refs /\ sale[i].tx \in Seqs
    BY Fields, CashOutAssumption DEF Seqs
  <1>s. {"pending", "queued_liquidity"} \subseteq SaleStatus \ {"completed"}
    BY DEF SaleStatus
  <1>w. {"pending_review", "queued_liquidity"} \subseteq WithdrawalStatus \ {"completed"}
    BY DEF WithdrawalStatus
  <1>p. {"created", "broadcast", "hold", "hold withdrawal"} \subseteq Pcs \ {"paid", "recorded"}
    BY DEF Pcs
  <1>1. CASE Sell(i)
    <2>1. sequence[i] \in Seqs
      BY <1>1, Fields, CashOutAssumption DEF Sell, Seqs
    <2>2. run'[i].pc = "created" /\ \A q \in Runners : q # i => run'[q] = run[q]
      BY <1>0, <1>1, <1>p, <2>1, StartRun DEF Sell
    <2>3. sale'[i].status = "pending" /\ \A j \in Sales : j # i => sale'[j] = sale[j]
      BY <1>0, <1>1, <1>s, SaleSaved DEF Sell
    <2> QED BY <1>0, <1>1, <1>s, <2>2, <2>3, RunnerPays DEF Sell, OnlyDocuments, history
  <1>2. CASE Register(i)
    <2>1. run'[i].pc \in {"broadcast", "hold"} /\ \A q \in Runners : q # i => run'[q] = run[q]
      BY <1>0, <1>2, <1>p, GotoRun DEF Register, At
    <2>2. /\ withdrawal'[i].status = "pending_review"
          /\ \A j \in Sales : j # i => withdrawal'[j] = withdrawal[j]
      BY <1>0, <1>2, <1>w, WithdrawalSaved DEF Register
    <2> QED BY <1>0, <1>2, <2>1, <2>2, RunnerPays DEF Register, OnlyDocuments, history
  <1>3. CASE HoldSale(i)
    <2>1. run'[i].pc = "hold withdrawal" /\ \A q \in Runners : q # i => run'[q] = run[q]
      BY <1>0, <1>3, <1>p, GotoRun DEF HoldSale, At
    <2>2. run[i].tx \in Seqs
      BY <1>0, <1>3, RunRecord DEF HoldSale, At
    <2>3. sale'[i].status = "queued_liquidity" /\ \A j \in Sales : j # i => sale'[j] = sale[j]
      BY <1>0, <1>3, <1>s, <2>2, SaleSaved DEF HoldSale
    <2> QED BY <1>0, <1>3, <1>s, <2>1, <2>3, RunnerPays DEF HoldSale, OnlyDocuments, history
  <1>4. CASE HoldWithdrawal(i)
    <2>1. run'[i].pc \in {"idle", "over"} /\ \A q \in Runners : q # i => run'[q] = run[q]
      BY <1>0, <1>4, EndRun DEF HoldWithdrawal
    <2>2. /\ withdrawal'[i].status = "queued_liquidity"
          /\ \A j \in Sales : j # i => withdrawal'[j] = withdrawal[j]
      BY <1>0, <1>4, <1>w, WithdrawalSaved DEF HoldWithdrawal
    <2> QED BY <1>0, <1>4, <2>1, <2>2, RunnerPays DEF HoldWithdrawal, OnlyDocuments, history
  <1> QED BY <1>1, <1>2, <1>3, <1>4 DEF Request

LEMMA SavesPaid ==
  ASSUME TypeOK, PaidInv, NEW r \in Runners, NEW pc, pc \notin {"idle", "over"},
         NEW next \in Pcs \ {"paid", "recorded"}, NEW status,
         \/ status \in WithdrawalStatus \ {"completed"} /\ WithdrawalFirst(r, pc, status, next)
         \/ status \in SaleStatus \ {"completed"} /\ SaleSecond(r, pc, status)
  PROVE  PaidInv'
  <1> DEFINE i == run[r].of
  <1>0. run[r].pc = pc /\ i \in Sales
    BY Holds DEF WithdrawalFirst, SaleSecond, At
  <1>f. withdrawal[i].ref \in Refs /\ 0 \in Seqs
    BY <1>0, Fields, CashOutAssumption DEF Seqs
  <1>1. CASE status \in WithdrawalStatus \ {"completed"} /\ WithdrawalFirst(r, pc, status, next)
    <2>1. /\ withdrawal'[i].status = status
          /\ \A j \in Sales : j # i => withdrawal'[j] = withdrawal[j]
      BY <1>0, <1>f, <1>1, WithdrawalSaved DEF WithdrawalFirst
    <2>2. run'[r].pc = next /\ \A q \in Runners : q # r => run'[q] = run[q]
      BY <1>0, <1>1, GotoRun DEF WithdrawalFirst
    <2> QED BY <1>0, <1>1, <2>1, <2>2, RunnerPays DEF WithdrawalFirst, OnlyDocuments, history
  <1>2. CASE status \in SaleStatus \ {"completed"} /\ SaleSecond(r, pc, status)
    <2>1. sale'[i].status = status /\ \A j \in Sales : j # i => sale'[j] = sale[j]
      BY <1>0, <1>f, <1>2, SaleSaved DEF SaleSecond
    <2>2. run'[r].pc \in {"idle", "over"} /\ \A q \in Runners : q # r => run'[q] = run[q]
      BY <1>0, <1>2, EndRun DEF SaleSecond
    <2> QED BY <1>0, <1>2, <2>1, <2>2, RunnerPays DEF SaleSecond, OnlyDocuments, history
  <1> QED BY <1>1, <1>2

\* The request to Safaricom: one more payment, known to the runner or not.
LEMMA PostPayoutPaid ==
  ASSUME TypeOK, PaidInv, NEW r \in Runners, PostPayout(r)
  PROVE  PaidInv'
  <1> DEFINE i == run[r].of
             ref == Len(payments[i]) + 1
  <1>0. i \in Sales /\ payments[i] \in Seq({"accepted", "paid", "refused"})
    BY Holds DEF PostPayout, TypeOK
  <1>1. /\ payments'[i] = Append(payments[i], "accepted")
        /\ \A j \in Sales : j # i => payments'[j] = payments[j]
    BY <1>0 DEF PostPayout, TypeOK
  <1>2. /\ DOMAIN payments'[i] = 1..ref /\ DOMAIN payments[i] = 1..Len(payments[i])
        /\ \A k \in 1..Len(payments[i]) : payments'[i][k] = payments[i][k]
    BY <1>0, <1>1
  <1>3. \A j \in Sales : \A k \in DOMAIN payments[j] :
          k \in DOMAIN payments'[j] /\ payments'[j][k] = payments[j][k]
    <2>1. \A k \in DOMAIN payments[i] :
             k \in DOMAIN payments'[i] /\ payments'[i][k] = payments[i][k]
      <3>1. Len(payments[i]) \in Nat
        BY <1>0
      <3>2. 1..Len(payments[i]) \subseteq 1..ref
        BY <3>1
      <3> QED BY <1>2, <3>2
    <2>2. \A j \in Sales : j # i => payments'[j] = payments[j]
      BY <1>1
    <2> QED BY <2>1, <2>2
  <1>4. /\ run'[r].pc \in {"paid", "recorded"} => run'[r].ref = ref /\ run'[r].of = i
        /\ \A q \in Runners : q # r => run'[q] = run[q]
    <2>1. CASE Goto(r, "repay")
      BY <2>1, GotoRun DEF PostPayout, Pcs
    <2>2. CASE run' = [run EXCEPT ![r].pc = "paid", ![r].ref = ref]
      <3>1. run \in [Runners -> {Idle} \cup Record] /\ run[r] \in Record
        BY RunRecord DEF PostPayout, TypeOK, Record
      <3>2. run'[r] = [[run[r] EXCEPT !.pc = "paid"] EXCEPT !.ref = ref]
        BY <2>2, <3>1
      <3>3. run'[r].ref = ref /\ run'[r].of = i
        BY <3>1, <3>2 DEF Record
      <3> QED BY <2>2, <3>1, <3>3
    <2> QED BY <2>1, <2>2 DEF PostPayout
  <1>5. ASSUME NEW q \in Runners PROVE Accepted(q)'
    <2> SUFFICES ASSUME run'[q].pc \in {"paid", "recorded"}
                 PROVE  run'[q].ref \in DOMAIN payments'[run'[q].of]
      BY DEF Accepted
    <2>1. CASE q = r
      <3>1. ref \in 1..ref
        BY <1>0
      <3> QED BY <1>2, <1>4, <2>1, <3>1
    <2>2. CASE q # r
      <3>1. run'[q] = run[q] /\ run[q].of \in Sales
        BY <1>4, <2>2, RunRecord
      <3> QED BY <1>3, <3>1 DEF PaidInv, Accepted
    <2> QED BY <2>1, <2>2
  <1>6. UNCHANGED <<sale, withdrawal, payout, callback, resolved>>
    BY DEF PostPayout, documents, history
  <1>7. ASSUME NEW j \in Sales PROVE Recorded(j)'
    BY <1>3, <1>6 DEF PaidInv, Recorded
  <1>8. ASSUME NEW d \in Deliveries, callback'[d] # Idle PROVE Reported(d)'
    <2>1. callback[d] # Idle /\ callback[d].of \in Sales
      BY <1>6, <1>8, CallbackRecord
    <2>2. callback[d].ref \in DOMAIN payments[callback[d].of]
      BY <2>1 DEF PaidInv, Recorded, Reported
    <2> QED BY <1>3, <1>6, <2>1, <2>2 DEF PaidInv, Reported
  <1> QED BY <1>5, <1>7, <1>8 DEF PaidInv

\* The first B2CPayout of a sale: nothing has gone by one yet.
LEMMA RecordPayoutPaid ==
  ASSUME TypeOK, PaidInv, NEW r \in Runners, RecordPayout(r)
  PROVE  PaidInv'
  <1> DEFINE i == run[r].of
  <1>0. i \in Sales /\ run[r].pc = "paid" /\ run[r].ref \in DOMAIN payments[i]
    BY Holds DEF RecordPayout, At, PaidInv, Accepted
  <1>1. UNCHANGED <<sale, withdrawal, callback, payments, resolved>>
    BY DEF RecordPayout, history
  <1>2. CASE payout[i].status = "none"
    <2>1. /\ payout'[i] = [status |-> "initiated", ref |-> run[r].ref]
          /\ \A j \in Sales : j # i => payout'[j] = payout[j]
      BY <1>0, <1>2 DEF RecordPayout, TypeOK
    <2>2. run'[r].ref = run[r].ref /\ run'[r].of = i /\ \A q \in Runners : q # r => run'[q] = run[q]
      BY <1>0, <1>2, GotoRun DEF RecordPayout, Pcs
    <2>3. ASSUME NEW q \in Runners PROVE Accepted(q)'
      BY <1>0, <1>1, <2>2 DEF PaidInv, Accepted
    <2>4. ASSUME NEW j \in Sales PROVE Recorded(j)'
      BY <1>0, <1>1, <1>2, <2>1 DEF PaidInv, Recorded
    <2>5. ASSUME NEW d \in Deliveries, callback'[d] # Idle PROVE Reported(d)'
      <3>1. callback[d] # Idle /\ callback[d].of \in Sales
        BY <1>1, <2>5, CallbackRecord
      <3> QED BY <1>1, <1>2, <2>1, <3>1 DEF PaidInv, Reported
    <2> QED BY <2>3, <2>4, <2>5 DEF PaidInv
  <1>3. CASE payout[i].status # "none"
    <2>1. run'[r].pc = "unpaid" /\ \A q \in Runners : q # r => run'[q] = run[q]
      BY <1>0, <1>3, GotoRun DEF RecordPayout, Pcs
    <2> QED BY <1>0, <1>1, <1>3, <2>1, RunnerPays DEF RecordPayout
  <1> QED BY <1>2, <1>3

LEMMA SettlePaid ==
  ASSUME TypeOK, PaidInv, NEW r \in Runners, Settle(r) \/ PayoutError(r) \/ Die(r)
  PROVE  PaidInv'
  <1> DEFINE i == run[r].of
  <1>1. CASE Broadcast(r)
    <2>1. i \in Sales /\ \E pc \in Pcs \ {"paid", "recorded"} : Spend(r, pc)
      BY <1>1, Holds DEF Broadcast, At, Pcs
    <2>2. /\ run'[r].pc \notin {"paid", "recorded"}
          /\ \A q \in Runners : q # r => run'[q] = run[q]
      BY <1>1, <2>1, SpendRun DEF Broadcast, At
    <2> QED BY <1>1, <2>1, <2>2, RunnerPays DEF Broadcast, documents, history
  <1>2. CASE BroadcastFailed(r) \/ SequenceMismatch(r) \/ Sold(r)
    <2>1. /\ {"failed sale", "stale sale", "burn"} \subseteq Pcs \ {"paid", "recorded"}
          /\ {"failed", "resign_required"} \subseteq SaleStatus \ {"completed"}
          /\ {"failed", "resign_required", "pending_review"} \subseteq WithdrawalStatus \ {"completed"}
      BY DEF Pcs, SaleStatus, WithdrawalStatus
    <2>2. \/ WithdrawalFirst(r, "failed", "failed", "failed sale")
          \/ SaleSecond(r, "failed sale", "failed")
          \/ WithdrawalFirst(r, "stale", "resign_required", "stale sale")
          \/ SaleSecond(r, "stale sale", "resign_required")
          \/ WithdrawalFirst(r, "sold", "pending_review", "burn")
      BY <1>2 DEF BroadcastFailed, SequenceMismatch, Sold
    <2> QED BY <2>1, <2>2, SavesPaid
  <1>3. CASE Burn(r)
    <2>0. i \in Sales
      BY <1>3, Holds DEF Burn, At
    <2>1. "broadcasted" \in SaleStatus \ {"completed"} /\ "pay" \in Pcs /\ 0 \in Seqs
      BY CashOutAssumption DEF SaleStatus, Pcs, Seqs
    <2>2. sale'[i].status = "broadcasted" /\ \A j \in Sales : j # i => sale'[j] = sale[j]
      BY <1>3, <2>0, <2>1, SaleSaved DEF Burn
    <2>3. run'[r].pc = "pay" /\ \A q \in Runners : q # r => run'[q] = run[q]
      BY <1>3, <2>1, GotoRun DEF Burn, At
    <2> QED BY <1>3, <2>0, <2>1, <2>2, <2>3, RunnerPays DEF Burn
  <1>4. CASE PostPayout(r) \/ RecordPayout(r)
    BY <1>4, PostPayoutPaid, RecordPayoutPaid
  <1>5. CASE PayoutRefused(r) \/ PayoutError(r)
    <2>1. i \in Sales /\ \E pc \in {"review", "unpaid"} : Goto(r, pc)
      BY <1>5, Holds DEF PayoutRefused, PayoutError, At
    <2>2. /\ run'[r].pc \notin {"paid", "recorded"}
          /\ \A q \in Runners : q # r => run'[q] = run[q]
      BY <1>5, <2>1, GotoRun DEF PayoutRefused, PayoutError, At, Pcs
    <2>3. UNCHANGED <<documents, callback, payments, resolved>>
      BY <1>5 DEF PayoutRefused, PayoutError, OnlyDocuments, documents, history
    <2> QED BY <2>1, <2>2, <2>3, RunnerPays DEF documents
  <1>6. CASE AfterRefusal(r) \/ PayoutInitiated(r)
    <2>1. i \in Sales /\ run[r].ref \in Refs /\ withdrawal[i].ref \in Refs
      BY <1>6, Holds, Fields DEF AfterRefusal, PayoutInitiated, At
    <2>2. {"pending_review", "failed", "payout_initiated"} \subseteq WithdrawalStatus \ {"completed"}
      BY DEF WithdrawalStatus
    <2>3. \/ UNCHANGED withdrawal
          \/ /\ withdrawal'[i].status # "completed"
             /\ \A j \in Sales : j # i => withdrawal'[j] = withdrawal[j]
      <3>1. CASE AfterRefusal(r)
        BY <2>1, <2>2, <3>1, WithdrawalSaved DEF AfterRefusal
      <3>2. CASE PayoutInitiated(r)
        BY <2>1, <2>2, <3>2, WithdrawalSaved DEF PayoutInitiated
      <3> QED BY <1>6, <3>1, <3>2
    <2>4. End(r) /\ UNCHANGED sale /\ OnlyDocuments
      BY <1>6 DEF AfterRefusal, PayoutInitiated
    <2>5. run'[r].pc \in {"idle", "over"} /\ \A q \in Runners : q # r => run'[q] = run[q]
      BY <2>4, EndRun
    <2> QED BY <2>1, <2>3, <2>4, <2>5, RunnerPays DEF OnlyDocuments, history
  <1>7. CASE Die(r)
    <2>1. run'[r].pc \in {"idle", "over"} /\ \A q \in Runners : q # r => run'[q] = run[q]
      BY <1>7, EndRun DEF Die
    <2>2. i \in Sales
      BY <1>7, Holds DEF Die
    <2> QED BY <1>7, <2>1, <2>2, RunnerPays DEF Die, documents, history
  <1> QED BY <1>1, <1>2, <1>3, <1>4, <1>5, <1>6, <1>7 DEF Settle

LEMMA ScanPaid ==
  ASSUME TypeOK, PaidInv, NEW s \in Scanners,
         Scan(s) \/ StopScan(s) \/ \E i \in Sales : Release(s, i)
  PROVE  PaidInv'
  <1>1. UNCHANGED <<documents, callback, payments, resolved>>
    BY DEF Scan, StopScan, Release, documents, history
  <1>2. \A r \in Runners : run'[r] = run[r] \/ run'[r].pc \notin {"paid", "recorded"}
    <2>1. CASE UNCHANGED run
      BY <2>1
    <2>2. ASSUME NEW i \in Sales, Start(s, "broadcast", i, sale[i].tx)
          PROVE  \A r \in Runners : run'[r] = run[r] \/ run'[r].pc \notin {"paid", "recorded"}
      <3>1. s \in Runners /\ "broadcast" \in Pcs /\ sale[i].tx \in Seqs
        BY Fields DEF Runners, Pcs
      <3>2. run'[s].pc = "broadcast" /\ \A q \in Runners : q # s => run'[q] = run[q]
        BY <2>2, <3>1, StartRun
      <3> QED BY <3>2
    <2> QED BY <2>1, <2>2 DEF Scan, StopScan, Release
  <1> QED BY <1>1, <1>2, NothingPaid, Fields DEF documents

LEMMA ResignPaid ==
  ASSUME TypeOK, PaidInv, NEW c \in Clients,
         \/ \E i \in Sales : Resign(c, i)
         \/ ResignSale(c) \/ ResignWithdrawal(c) \/ ResignDies(c)
  PROVE  PaidInv'
  <1>1. UNCHANGED <<run, payout, callback, payments, resolved>>
    BY DEF Resign, ResignSale, ResignWithdrawal, ResignDies, documents, history
  <1>2. \A i \in Sales : sale'[i].status \in {sale[i].status} \cup (SaleStatus \ {"completed"})
    <2>1. CASE ResignSale(c)
      <3>1. /\ resign[c].of \in Sales /\ resign[c].tx \in Seqs
            /\ "queued_liquidity" \in SaleStatus \ {"completed"}
        BY <2>1, ResignRecord DEF ResignSale, SaleStatus
      <3>2. /\ sale'[resign[c].of].status = "queued_liquidity"
            /\ \A j \in Sales : j # resign[c].of => sale'[j] = sale[j]
        <4>1. sale' = [sale EXCEPT ![resign[c].of] = [status |-> "queued_liquidity",
                                                      tx |-> resign[c].tx]]
          BY <2>1 DEF ResignSale
        <4>2. resign[c].of \in Sales /\ resign[c].tx \in Seqs /\ "queued_liquidity" \in SaleStatus
          BY <3>1
        <4> QED BY <4>1, <4>2, SaleSaved
      <3> QED BY <3>1, <3>2
    <2>2. CASE UNCHANGED sale
      BY <2>2
    <2> QED BY <2>1, <2>2 DEF Resign, ResignWithdrawal, ResignDies, documents
  <1>3. \A i \in Sales : withdrawal'[i] = withdrawal[i] \/ withdrawal'[i].status # "completed"
    <2>1. CASE ResignWithdrawal(c)
      <3>1. resign[c].of \in Sales /\ "queued_liquidity" \in WithdrawalStatus
        BY <2>1, ResignRecord DEF ResignWithdrawal, WithdrawalStatus
      <3>2. /\ withdrawal'[resign[c].of].status = "queued_liquidity"
            /\ \A j \in Sales : j # resign[c].of => withdrawal'[j] = withdrawal[j]
        BY <2>1, <3>1, WithdrawalSaved, Fields DEF ResignWithdrawal
      <3> QED BY <3>2
    <2>2. CASE UNCHANGED withdrawal
      BY <2>2
    <2> QED BY <2>1, <2>2 DEF Resign, ResignSale, ResignDies, documents
  <1> QED BY <1>1, <1>2, <1>3, NothingPaid

\* The callback.  Safaricom's outcome of the payment on record is told with its first
\* delivery, and no step of any delivery goes by another.
LEMMA CallbackPaid ==
  ASSUME TypeOK, PaidInv, NEW d \in Deliveries, Reply(d) \/ CallbackDies(d)
  PROVE  PaidInv'
  <1>0. UNCHANGED <<run, resolved>>
    BY DEF Reply, Callback, CallbackPayout, CallbackSale, CallbackReads, CallbackWithdrawal,
           CallbackDies, OnlyCallback, history
  <1>1. ASSUME NEW i \in Sales, Callback(d, i) PROVE PaidInv'
    <2> DEFINE ref == payout[i].ref
    <2>1. PICK end \in {"paid", "refused"} :
            /\ payments[i][ref] \in {"accepted", end}
            /\ payments' = [payments EXCEPT ![i][ref] = end]
            /\ callback' = [callback EXCEPT ![d] = [pc |-> "payout", of |-> i, ref |-> ref,
                                                    ok |-> end = "paid", writes |-> {}]]
      BY <1>1 DEF Callback
    <2>2. UNCHANGED <<sale, withdrawal, payout>> /\ payout[i].status = "initiated"
      BY <1>1 DEF Callback
    <2>3. payments[i] \in Seq({"accepted", "paid", "refused"}) /\ ref \in DOMAIN payments[i]
      BY <2>2 DEF TypeOK, PaidInv, Recorded
    <2>4. /\ DOMAIN payments'[i] = DOMAIN payments[i] /\ payments'[i][ref] = end
          /\ \A k \in DOMAIN payments[i] : k # ref => payments'[i][k] = payments[i][k]
          /\ \A j \in Sales : j # i => payments'[j] = payments[j]
      BY <2>1, <2>3 DEF TypeOK
    <2>5. \A j \in Sales : \A k \in DOMAIN payments[j] :
            /\ k \in DOMAIN payments'[j]
            /\ payments[j][k] \in {"paid", "refused"} => payments'[j][k] = payments[j][k]
      BY <2>1, <2>4
    <2>6. ASSUME NEW r \in Runners PROVE Accepted(r)'
      <3>1. run[r].pc \in {"paid", "recorded"} => run[r].of \in Sales
        BY RunRecord
      <3> QED BY <1>0, <2>5, <3>1 DEF PaidInv, Accepted
    <2>7. ASSUME NEW j \in Sales PROVE Recorded(j)'
      BY <1>0, <2>2, <2>5 DEF PaidInv, Recorded
    <2>8. ASSUME NEW e \in Deliveries, callback'[e] # Idle PROVE Reported(e)'
      <3>1. CASE e = d
        <4>1. /\ callback'[e].of = i /\ callback'[e].ref = ref /\ callback'[e].pc = "payout"
              /\ callback'[e].ok = (end = "paid")
          BY <2>1, <3>1 DEF TypeOK
        <4>2. Made(callback'[e].ok) = end
          BY <4>1 DEF Made
        <4> QED BY <2>2, <2>4, <4>1, <4>2 DEF Reported
      <3>2. CASE e # d
        <4>1. callback'[e] = callback[e] /\ callback[e] # Idle /\ callback[e].of \in Sales
          BY <2>1, <2>8, <3>2, CallbackRecord DEF TypeOK
        <4>2. /\ Reported(e) /\ callback[e].ref \in DOMAIN payments[callback[e].of]
              /\ Made(callback[e].ok) \in {"paid", "refused"}
          BY <4>1 DEF PaidInv, Recorded, Reported, Made
        <4> QED BY <2>2, <2>5, <4>1, <4>2 DEF Reported
      <3> QED BY <3>1, <3>2
    <2> QED BY <2>6, <2>7, <2>8 DEF PaidInv
  <1>2. CASE CallbackPayout(d)
    <2> DEFINE i == callback[d].of
    <2>1. callback[d] # Idle /\ i \in Sales /\ Reported(d)
      BY <1>2, CallbackRecord DEF CallbackPayout, PaidInv
    <2>2. /\ payout'[i].status = Ended(callback[d].ok) /\ payout'[i].ref = payout[i].ref
          /\ \A j \in Sales : j # i => payout'[j] = payout[j]
      BY <1>2, <2>1 DEF CallbackPayout, Ended, TypeOK
    <2>3. UNCHANGED <<sale, withdrawal, payments>>
      BY <1>2 DEF CallbackPayout
    <2>4. /\ callback'[d].of = i /\ callback'[d].ref = callback[d].ref
          /\ callback'[d].ok = callback[d].ok
          /\ \A e \in Deliveries : e # d => callback'[e] = callback[e]
      <3>1. Deliver(d, "sale", {}) /\ {} \in SUBSET Paths /\ "sale" \in CallbackPcs
        BY <1>2 DEF CallbackPayout, CallbackPcs
      <3> QED BY <2>1, <3>1, DeliverMoves
    <2>5. ASSUME NEW r \in Runners PROVE Accepted(r)'
      BY <1>0, <2>3 DEF PaidInv, Accepted
    <2>6. /\ payout[i].status \in {"initiated", Ended(callback[d].ok)}
          /\ Ended(callback[d].ok) # "none"
      <3>1. payments[i][payout[i].ref] = Made(callback[d].ok) /\ payout[i].status # "none"
        BY <2>1 DEF Reported
      <3> QED BY <2>1, <3>1, Fields DEF PaidInv, Recorded, Ended, Made, PayoutStatus
    <2>7. ASSUME NEW j \in Sales PROVE Recorded(j)'
      <3>1. CASE j = i
        <4>1. payments[i][payout[i].ref] = Made(callback[d].ok) /\ payout[i].status # "none"
          BY <2>1 DEF Reported
        <4> QED BY <1>0, <2>1, <2>2, <2>3, <2>6, <3>1, <4>1 DEF PaidInv, Recorded, Ended, Made
      <3>2. CASE j # i
        BY <1>0, <2>2, <2>3, <3>2 DEF PaidInv, Recorded
      <3> QED BY <3>1, <3>2
    <2>8. ASSUME NEW e \in Deliveries, callback'[e] # Idle PROVE Reported(e)'
      <3>1. CASE e = d
        BY <2>1, <2>2, <2>3, <2>4, <2>6, <3>1 DEF Reported
      <3>2. CASE e # d /\ callback[e].of = i
        <4>1. callback'[e] = callback[e] /\ Reported(e)
          BY <2>4, <2>8, <3>2 DEF PaidInv
        <4>2. Made(callback[e].ok) = Made(callback[d].ok)
          BY <2>1, <3>2, <4>1 DEF Reported
        <4>3. Ended(callback[e].ok) = Ended(callback[d].ok)
          BY <4>2 DEF Made, Ended
        <4> QED BY <2>2, <2>3, <2>6, <3>2, <4>1, <4>3 DEF Reported
      <3>3. CASE e # d /\ callback[e].of # i
        <4>1. callback'[e] = callback[e] /\ Reported(e) /\ callback[e].of \in Sales
          BY <2>4, <2>8, <3>3, CallbackRecord DEF PaidInv
        <4> QED BY <2>2, <2>3, <3>3, <4>1 DEF Reported
      <3> QED BY <3>1, <3>2, <3>3
    <2> QED BY <2>5, <2>7, <2>8 DEF PaidInv
  <1>3. CASE CallbackSale(d) \/ CallbackReads(d) \/ CallbackWithdrawal(d) \/ CallbackDies(d)
    <2> DEFINE i == callback[d].of
    <2>1. callback[d] # Idle
      BY <1>3, CallbackRecord
         DEF CallbackSale, CallbackReads, CallbackWithdrawal, CallbackDies
    <2>2. i \in Sales /\ UNCHANGED <<payout, payments>>
      BY <1>3, <2>1, CallbackRecord
         DEF CallbackSale, CallbackReads, CallbackWithdrawal, CallbackDies, documents
    <2>3. \/ callback' = [callback EXCEPT ![d] = Idle]
          \/ /\ callback[d].pc # "payout"
             /\ \E pc \in CallbackPcs, writes \in SUBSET Paths : Deliver(d, pc, writes)
      <3>1. \A field \in Paths : \A read, new : Written(field, read, new) \subseteq Paths
        BY DEF Written
      <3>2. {"status", "ref"} \subseteq Paths /\ {} \in SUBSET Paths
        BY DEF Paths
      <3>3. {"save sale", "withdrawal", "save withdrawal"} \subseteq CallbackPcs
        BY DEF CallbackPcs
      <3>4. CASE CallbackSale(d)
        BY <3>1, <3>2, <3>3, <3>4 DEF CallbackSale
      <3>5. CASE CallbackReads(d)
        BY <3>1, <3>2, <3>3, <3>5 DEF CallbackReads
      <3> QED BY <1>3, <3>4, <3>5 DEF CallbackWithdrawal, CallbackDies
    <2>4. ASSUME NEW e \in Deliveries
          PROVE  \/ callback'[e] = callback[e]
                 \/ callback'[e] = Idle
                 \/ /\ callback[e] # Idle /\ callback[e].pc # "payout"
                    /\ callback'[e].of = callback[e].of /\ callback'[e].ref = callback[e].ref
                    /\ callback'[e].ok = callback[e].ok
      <3>1. CASE callback' = [callback EXCEPT ![d] = Idle]
        BY <3>1 DEF TypeOK
      <3>2. ASSUME NEW pc \in CallbackPcs, NEW writes \in SUBSET Paths, Deliver(d, pc, writes),
                   callback[d].pc # "payout"
            PROVE  \/ callback'[e] = callback[e]
                   \/ /\ callback[e] # Idle /\ callback[e].pc # "payout"
                      /\ callback'[e].of = callback[e].of /\ callback'[e].ref = callback[e].ref
                      /\ callback'[e].ok = callback[e].ok
        BY <2>1, <3>2, DeliverMoves
      <3> QED BY <2>3, <3>1, <3>2
    <2>5. callback[d].pc # "payout" /\ callback[d].ok => payout[i].status = "succeeded"
      BY <2>1 DEF PaidInv, Reported, Ended
    <2>6. ASSUME NEW j \in Sales, sale'[j].status = "completed"
          PROVE  sale[j].status = "completed" \/ payout[j].status = "succeeded"
      <3>1. CASE UNCHANGED sale
        BY <2>6, <3>1
      <3>2. CASE SaveSale(i, Outcome(callback[d].ok)) /\ callback[d].pc # "payout"
        <4>1. Outcome(callback[d].ok) \in SaleStatus /\ sale[i].tx \in Seqs
          BY <2>2, Fields DEF Outcome, SaleStatus
        <4>2. /\ sale'[i].status = Outcome(callback[d].ok)
              /\ \A k \in Sales : k # i => sale'[k] = sale[k]
          BY <2>2, <3>2, <4>1, SaleSaved
        <4> QED BY <2>5, <2>6, <3>2, <4>2 DEF Outcome
      <3> QED BY <1>3, <3>1, <3>2
              DEF CallbackSale, CallbackReads, CallbackWithdrawal, CallbackDies, documents
    <2>7. ASSUME NEW j \in Sales, withdrawal'[j].status = "completed"
          PROVE  withdrawal[j].status = "completed" \/ payout[j].status = "succeeded"
      <3>1. CASE UNCHANGED withdrawal
        BY <2>7, <3>1
      <3>2. CASE CallbackWithdrawal(d)
        <4>1. PICK status \in {Outcome(callback[d].ok), withdrawal[i].status}, ref \in Refs :
                SavePayoutRef(i, status, ref)
          <5>1. callback[d].ref \in Refs /\ withdrawal[i].ref \in Refs
            BY <2>1, <2>2, CallbackRecord, Fields
          <5> QED BY <3>2, <5>1 DEF CallbackWithdrawal
        <4>2. status \in WithdrawalStatus
          BY <2>2, Fields DEF Outcome, WithdrawalStatus
        <4>3. withdrawal'[i].status = status /\ \A k \in Sales : k # i => withdrawal'[k] = withdrawal[k]
          BY <2>2, <4>1, <4>2, WithdrawalSaved
        <4> QED BY <2>5, <2>7, <3>2, <4>3 DEF CallbackWithdrawal, Outcome
      <3> QED BY <1>3, <3>1, <3>2 DEF CallbackSale, CallbackReads, CallbackDies, documents
    <2> QED BY <1>0, <2>2, <2>4, <2>6, <2>7, StaysPaid
  <1> QED BY <1>1, <1>2, <1>3 DEF Reply

\* A poll completes what the payout says; the administrator signs for what he completes.
LEMMA PollPaid ==
  ASSUME TypeOK, PaidInv,
         \/ \E i \in Sales : PollSale(i)
         \/ \E p \in Polls : PollWithdrawal(p) \/ \E i \in Sales : PollReads(p, i)
  PROVE  PaidInv'
  <1>1. ASSUME NEW i \in Sales, PollSale(i) PROVE PaidInv'
    <2>1. Outcome(payout[i].status = "succeeded") \in SaleStatus /\ sale[i].tx \in Seqs
      BY Fields DEF Outcome, SaleStatus
    <2>2. /\ sale'[i].status = Outcome(payout[i].status = "succeeded")
          /\ \A j \in Sales : j # i => sale'[j] = sale[j]
      BY <1>1, <2>1, SaleSaved DEF PollSale
    <2>3. \A j \in Sales : sale'[j].status = "completed" =>
            sale[j].status = "completed" \/ payout[j].status = "succeeded"
      BY <2>2 DEF Outcome
    <2> QED BY <1>1, <2>3, StaysPaid DEF PollSale, OnlyDocuments, history
  <1>2. ASSUME NEW p \in Polls, NEW i \in Sales, PollReads(p, i) PROVE PaidInv'
    BY <1>2, StaysPaid DEF PollReads, documents, history
  <1>3. ASSUME NEW p \in Polls, PollWithdrawal(p) PROVE PaidInv'
    <2> DEFINE i == poll[p].of
    <2>1. i \in Sales
      BY <1>3, PollRecord DEF PollWithdrawal
    <2>2. CASE UNCHANGED withdrawal
      BY <1>3, <2>2, StaysPaid DEF PollWithdrawal, history
    <2>3. CASE SaveWithdrawal(i, Outcome(payout[i].status = "succeeded"))
      <3>1. Outcome(payout[i].status = "succeeded") \in WithdrawalStatus /\ withdrawal[i].ref \in Refs
        BY <2>1, Fields DEF Outcome, WithdrawalStatus
      <3>2. /\ withdrawal'[i].status = Outcome(payout[i].status = "succeeded")
            /\ \A j \in Sales : j # i => withdrawal'[j] = withdrawal[j]
        BY <2>1, <2>3, <3>1, WithdrawalSaved
      <3>3. \A j \in Sales : withdrawal'[j].status = "completed" =>
              withdrawal[j].status = "completed" \/ payout[j].status = "succeeded"
        BY <3>2 DEF Outcome
      <3> QED BY <1>3, <3>3, StaysPaid DEF PollWithdrawal, history
    <2> QED BY <1>3, <2>2, <2>3 DEF PollWithdrawal
  <1> QED BY <1>1, <1>2, <1>3

LEMMA AdministerPaid ==
  ASSUME TypeOK, PaidInv, NEW a \in Admins, Administer(a)
  PROVE  PaidInv'
  <1>0. a \in Runners
    BY DEF Runners
  <1>1. ASSUME NEW i \in Sales, RetryWithdrawal(a, i) \/ ResolveReads(a, i) PROVE PaidInv'
    <2>1. {"pay", "resolve"} \subseteq Pcs /\ 0 \in Seqs
      BY CashOutAssumption DEF Pcs, Seqs
    <2>2. /\ run'[a].pc \in {"pay", "resolve"}
          /\ \A q \in Runners : q # a => run'[q] = run[q]
      BY <1>0, <1>1, <2>1, StartRun DEF RetryWithdrawal, ResolveReads
    <2> QED BY <1>0, <1>1, <2>2, RunnerPays
            DEF RetryWithdrawal, ResolveReads, OnlyDocuments, documents, history
  <1>2. ASSUME NEW outcome \in {"completed", "refunded"}, ResolveWithdrawal(a, outcome)
        PROVE  PaidInv'
    <2> DEFINE i == run[a].of
    <2>1. i \in Sales /\ outcome \in WithdrawalStatus
      BY <1>0, <1>2, Holds DEF ResolveWithdrawal, At, WithdrawalStatus
    <2>2. \A j \in Sales : j # i => withdrawal'[j] = withdrawal[j]
      BY <1>2, <2>1, WithdrawalSaved, Fields DEF ResolveWithdrawal
    <2>3. resolved' = resolved \cup {i}
      BY <1>2 DEF ResolveWithdrawal
    <2>4. \A q \in Runners : run'[q] = run[q] \/ run'[q].pc \notin {"paid", "recorded"}
      BY <1>0, <1>2, EndRun DEF ResolveWithdrawal
    <2> QED BY <1>2, <2>2, <2>3, <2>4, StaysPaid DEF ResolveWithdrawal
  <1> QED BY <1>1, <1>2 DEF Administer

LEMMA NextPaid ==
  ASSUME TypeOK, PaidInv, [Next]_vars
  PROVE  PaidInv'
  <1>1. CASE UNCHANGED vars
    BY <1>1, StaysPaid DEF vars, documents, handlers, chainVars, history
  <1>2. ASSUME NEW i \in Sales, Request(i) PROVE PaidInv'
    BY <1>2, RequestPaid
  <1>3. ASSUME NEW d \in Deliveries, Reply(d) \/ CallbackDies(d) PROVE PaidInv'
    BY <1>3, CallbackPaid
  <1>4. ASSUME \/ \E i \in Sales : PollSale(i)
               \/ \E p \in Polls : PollWithdrawal(p) \/ \E i \in Sales : PollReads(p, i)
        PROVE  PaidInv'
    BY <1>4, PollPaid
  <1>5. ASSUME NEW a \in Admins, Administer(a) PROVE PaidInv'
    BY <1>5, AdministerPaid
  <1>6. ASSUME NEW i \in Sales, OtherTransaction(i) PROVE PaidInv'
    BY <1>6, StaysPaid DEF OtherTransaction, documents, handlers, history
  <1>7. ASSUME NEW c \in Clients,
               \/ \E i \in Sales : Resign(c, i)
               \/ ResignSale(c) \/ ResignWithdrawal(c) \/ ResignDies(c)
        PROVE  PaidInv'
    BY <1>7, ResignPaid
  <1>8. ASSUME NEW s \in Scanners, Scan(s) \/ StopScan(s) \/ \E i \in Sales : Release(s, i)
        PROVE  PaidInv'
    BY <1>8, ScanPaid
  <1>9. ASSUME NEW r \in Runners, Settle(r) \/ PayoutError(r) \/ Die(r) PROVE PaidInv'
    BY <1>9, SettlePaid
  <1> QED BY <1>1, <1>2, <1>3, <1>4, <1>5, <1>6, <1>7, <1>8, <1>9 DEF Next, Fault

LEMMA AlwaysPaid == Spec => [](TypeOK /\ PaidInv)
  <1>1. Init => PaidInv
    BY DEF Init, PaidInv, Accepted, Recorded, Idle, Runners
  <1>2. (TypeOK /\ PaidInv) /\ [Next]_vars => PaidInv'
    BY NextPaid
  <1> QED BY <1>1, <1>2, Typed, PTL DEF Spec

\* Whatever is lost, repeated, restarted or answered out of order, with any number of
\* workers, clients, administrators, callbacks and polls between each other's awaits: a
\* sale or withdrawal shown as completed was paid in the payment on record of the sale,
\* or an administrator has vouched for it.
THEOREM CashOutCompletedWasPaid == Spec => []CompletedWasPaid
  <1>1. TypeOK /\ PaidInv => CompletedWasPaid
    <2> SUFFICES ASSUME TypeOK, PaidInv, NEW i \in Sales
                 PROVE  payout[i].status = "succeeded" =>
                           payout[i].ref # 0 /\ payments[i][payout[i].ref] = "paid"
      BY DEF CompletedWasPaid, PaidInv, Recorded
    <2>1. payments[i] \in Seq({"accepted", "paid", "refused"}) /\ 0 \notin DOMAIN payments[i]
      BY DEF TypeOK
    <2> QED BY <2>1 DEF PaidInv, Recorded
  <1> QED BY <1>1, AlwaysPaid, PTL

\* The B2CPayout of a sale keeps its payment whatever settles the sale again, and its
\* outcome once it has one: the deliveries that have read it unfinished all carry the
\* same outcome, which is Safaricom's.
THEOREM CashOutPayoutStands == Spec => PayoutStands
  <1> DEFINE Stands == \A i \in Sales :
               /\ payout[i].status # "none" => payout'[i].ref = payout[i].ref
               /\ payout[i].status \in Finished => payout'[i] = payout[i]
  <1>1. TypeOK /\ PaidInv /\ [Next]_vars => Stands
    <2> SUFFICES ASSUME TypeOK, PaidInv, [Next]_vars
                 PROVE  Stands
      OBVIOUS
    <2>1. CASE UNCHANGED payout
      BY <2>1
    <2>2. ASSUME NEW r \in Runners, RecordPayout(r) PROVE Stands
      <3>1. run[r].of \in Sales
        BY <2>2, Holds DEF RecordPayout, At
      <3>2. \A j \in Sales : payout[j].status # "none" => payout'[j] = payout[j]
        BY <2>2, <3>1 DEF RecordPayout, TypeOK
      <3> QED BY <3>2 DEF Finished
    <2>3. ASSUME NEW d \in Deliveries, CallbackPayout(d) PROVE Stands
      <3> DEFINE i == callback[d].of
      <3>1. i \in Sales /\ payments[i][payout[i].ref] = Made(callback[d].ok)
        BY <2>3, CallbackRecord DEF CallbackPayout, PaidInv, Reported
      <3>2. /\ payout'[i] = [payout[i] EXCEPT !.status = Ended(callback[d].ok)]
            /\ \A j \in Sales : j # i => payout'[j] = payout[j]
        BY <2>3, <3>1 DEF CallbackPayout, Ended, TypeOK
      <3>3. payout[i].status \in Finished => payout[i].status = Ended(callback[d].ok)
        BY <3>1 DEF PaidInv, Recorded, Finished, Made, Ended
      <3>4. payout[i] \in [status : PayoutStatus, ref : Refs]
        BY <3>1 DEF TypeOK
      <3>5. payout'[i].ref = payout[i].ref /\ (payout[i].status \in Finished => payout'[i] = payout[i])
        BY <3>2, <3>3, <3>4
      <3> QED BY <3>2, <3>5
    <2>4. \/ UNCHANGED payout
          \/ \E r \in Runners : RecordPayout(r)
          \/ \E d \in Deliveries : CallbackPayout(d)
      BY DEF Next, Request, Sell, Register, HoldSale, HoldWithdrawal, PollSale, OtherTransaction,
             Resign, PollReads, Release, ResignSale, ResignWithdrawal, Scan, StopScan, Settle,
             Broadcast, BroadcastFailed, SequenceMismatch, WithdrawalFirst, SaleSecond, Sold, Burn,
             PostPayout, PayoutRefused, AfterRefusal, PayoutInitiated, Reply, Callback,
             CallbackSale, CallbackReads, CallbackWithdrawal, PollWithdrawal, Administer,
             RetryWithdrawal, ResolveReads, ResolveWithdrawal, Fault, PayoutError, Die,
             ResignDies, CallbackDies, OnlyDocuments, documents, vars
    <2> QED BY <2>1, <2>2, <2>3, <2>4
  <1> QED BY <1>1, AlwaysPaid, PTL DEF Spec, PayoutStands

-----------------------------------------------------------------------------
(* Nothing is paid out that was not sold.                                  *)

Selling == {"sold", "burn"}

\* Before and after a step.
LEMMA HandsFinite ==
  ASSUME NEW i \in Sales
  PROVE  /\ IsFiniteSet(InHand(i)) /\ Cardinality(InHand(i)) \in Nat
         /\ IsFiniteSet(InHand(i)') /\ Cardinality(InHand(i)') \in Nat
  <1>1. IsFiniteSet(Runners)
    BY CashOutAssumption, FS_Union DEF Runners
  <1>2. InHand(i) \subseteq Runners /\ InHand(i)' \subseteq Runners
    BY DEF InHand
  <1> QED BY <1>1, <1>2, FS_Subset, FS_CardinalityType

\* A step that neither asks for a payout nor leaves a runner with a sale it did not have.
LEMMA NothingSold ==
  ASSUME TypeOK, SoldInv, TypeOK', UNCHANGED asked,
         \A i \in Sales : sold'[i] >= sold[i],
         \A r \in Runners : \/ run'[r].pc \notin Selling
                            \/ run[r].pc \in Selling /\ run'[r].of = run[r].of
  PROVE  SoldInv'
  <1> SUFFICES ASSUME NEW i \in Sales
               PROVE  asked'[i] + Cardinality(InHand(i)') <= sold'[i]
    BY DEF SoldInv
  <1>1. InHand(i)' \subseteq InHand(i)
    BY DEF InHand, Selling
  <1>2. Cardinality(InHand(i)') <= Cardinality(InHand(i))
    BY <1>1, HandsFinite, FS_Subset
  <1>3. asked[i] + Cardinality(InHand(i)) <= sold[i]
    BY DEF SoldInv
  <1>4. asked[i] \in Nat /\ sold[i] \in Nat /\ sold'[i] \in Nat /\ asked'[i] = asked[i]
    BY DEF TypeOK
  <1> QED BY <1>2, <1>3, <1>4, HandsFinite

\* Either of the chain's answers, and one that is lost.
LEMMA BroadcastSold ==
  ASSUME TypeOK, SoldInv, TypeOK', NEW r \in Runners, Broadcast(r)
  PROVE  SoldInv'
  <1> DEFINE i == run[r].of
  <1>0. i \in Sales /\ run[r].pc = "broadcast" /\ UNCHANGED asked
    BY Holds DEF Broadcast, At, history
  <1>1. PICK pc \in {"sold", "failed", "stale"} :
          /\ Spend(r, pc)
          /\ \/ sold' = [sold EXCEPT ![i] = @ + 1]
             \/ UNCHANGED sold /\ pc # "sold"
    BY DEF Broadcast, chainVars
  <1>2. /\ run'[r].pc = pc /\ run'[r].of = i
        /\ \A q \in Runners : q # r => run'[q] = run[q]
    BY <1>0, <1>1, SpendRun DEF Pcs
  <1>3. /\ sold'[i] >= sold[i] /\ (pc = "sold" => sold'[i] = sold[i] + 1)
        /\ \A j \in Sales : j # i => sold'[j] = sold[j]
    <2>1. sold[i] \in Nat
      BY <1>0 DEF TypeOK
    <2> QED BY <1>0, <1>1, <2>1 DEF TypeOK
  <1>4. CASE pc # "sold"
    <2>1. \A j \in Sales : sold'[j] >= sold[j]
      <3>1. \A j \in Sales : sold[j] \in Nat
        BY DEF TypeOK
      <3> QED BY <1>3, <3>1
    <2>2. \A q \in Runners : run'[q].pc \notin Selling \/ run'[q] = run[q]
      BY <1>1, <1>2, <1>4 DEF Selling
    <2> QED BY <1>0, <2>1, <2>2, NothingSold
  <1>5. CASE pc = "sold"
    <2> SUFFICES ASSUME NEW j \in Sales
                 PROVE  asked'[j] + Cardinality(InHand(j)') <= sold'[j]
      BY DEF SoldInv
    <2>1. asked[j] \in Nat /\ sold[j] \in Nat /\ asked'[j] = asked[j]
      BY <1>0 DEF TypeOK
    <2>2. asked[j] + Cardinality(InHand(j)) <= sold[j]
      BY DEF SoldInv
    <2>3. CASE j = i
      <3>1. InHand(j)' = InHand(j) \cup {r} /\ r \notin InHand(j)
        BY <1>0, <1>2, <1>5, <2>3 DEF InHand
      <3>2. Cardinality(InHand(j)') = Cardinality(InHand(j)) + 1
        BY <3>1, HandsFinite, FS_AddElement
      <3>3. sold'[j] = sold[j] + 1
        BY <1>3, <1>5, <2>3
      <3> QED BY <2>1, <2>2, <3>2, <3>3, HandsFinite
    <2>4. CASE j # i
      <3>1. InHand(j)' = InHand(j)
        BY <1>0, <1>2, <2>4 DEF InHand
      <3> QED BY <1>3, <2>1, <2>2, <2>4, <3>1
    <2> QED BY <2>3, <2>4
  <1> QED BY <1>4, <1>5

LEMMA BurnSold ==
  ASSUME TypeOK, SoldInv, TypeOK', NEW r \in Runners, Burn(r)
  PROVE  SoldInv'
  <1> DEFINE i == run[r].of
  <1>0. i \in Sales /\ run[r].pc = "burn" /\ UNCHANGED sold
    BY Holds DEF Burn, At, chainVars
  <1>1. run'[r].pc = "pay" /\ \A q \in Runners : q # r => run'[q] = run[q]
    BY <1>0, GotoRun DEF Burn, Pcs
  <1>2. asked'[i] = asked[i] + 1 /\ \A j \in Sales : j # i => asked'[j] = asked[j]
    BY <1>0 DEF Burn, TypeOK
  <1> SUFFICES ASSUME NEW j \in Sales
               PROVE  asked'[j] + Cardinality(InHand(j)') <= sold'[j]
    BY DEF SoldInv
  <1>3. asked[j] \in Nat /\ sold[j] \in Nat /\ asked[j] + Cardinality(InHand(j)) <= sold[j]
    BY DEF SoldInv, TypeOK
  <1>4. CASE j = i
    <2>1. InHand(j)' = InHand(j) \ {r} /\ r \in InHand(j)
      BY <1>0, <1>1, <1>4 DEF InHand
    <2>2. Cardinality(InHand(j)') = Cardinality(InHand(j)) - 1
      BY <2>1, HandsFinite, FS_RemoveElement
    <2>3. asked'[j] = asked[j] + 1 /\ sold'[j] = sold[j]
      BY <1>0, <1>2, <1>4
    <2> QED BY <1>3, <2>2, <2>3, HandsFinite
  <1>5. CASE j # i
    <2>1. InHand(j)' = InHand(j)
      BY <1>0, <1>1, <1>5 DEF InHand
    <2> QED BY <1>0, <1>2, <1>3, <1>5, <2>1
  <1> QED BY <1>4, <1>5

\* What the other steps leave a runner with.
LEMMA RunnersSell ==
  ASSUME TypeOK, NEW r \in Runners, Settle(r) \/ PayoutError(r) \/ Die(r),
         ~Broadcast(r), ~Burn(r)
  PROVE  /\ UNCHANGED <<asked, sold>>
         /\ \A q \in Runners : \/ run'[q].pc \notin Selling
                               \/ run[q].pc \in Selling /\ run'[q].of = run[q].of
  <1>1. UNCHANGED <<asked, sold>>
    BY DEF Settle, BroadcastFailed, SequenceMismatch, WithdrawalFirst, SaleSecond, Sold,
           PostPayout, PayoutRefused, AfterRefusal, RecordPayout, PayoutInitiated, PayoutError,
           Die, OnlyDocuments, chainVars, history
  <1>2. CASE Sold(r)
    <2>1. run[r].pc = "sold" /\ Goto(r, "burn")
      BY <1>2 DEF Sold, WithdrawalFirst, At
    <2>2. /\ run'[r].pc = "burn" /\ run'[r].of = run[r].of
          /\ \A q \in Runners : q # r => run'[q] = run[q]
      BY <2>1, GotoRun DEF Pcs
    <2> QED BY <1>1, <2>1, <2>2 DEF Selling
  <1>3. CASE run[r].pc # "idle" /\ \E pc \in Pcs \ Selling : Goto(r, pc)
    BY <1>1, <1>3, GotoRun
  <1>4. CASE End(r)
    BY <1>1, <1>4, EndRun DEF Selling
  <1>5. CASE PostPayout(r)
    <2>1. /\ run[r].pc \in {"pay", "repay"} /\ "repay" \in Pcs \ Selling
          /\ \/ Goto(r, "repay")
             \/ \E ref : run' = [run EXCEPT ![r].pc = "paid", ![r].ref = ref]
      BY <1>5 DEF PostPayout, Pcs, Selling
    <2>2. CASE Goto(r, "repay")
      BY <1>3, <2>1, <2>2
    <2>3. ASSUME NEW ref, run' = [run EXCEPT ![r].pc = "paid", ![r].ref = ref]
          PROVE  run'[r].pc = "paid" /\ \A q \in Runners : q # r => run'[q] = run[q]
      <3>1. run \in [Runners -> {Idle} \cup Record] /\ run[r] \in Record
        BY <2>1, RunRecord DEF TypeOK, Record
      <3>2. run'[r] = [[run[r] EXCEPT !.pc = "paid"] EXCEPT !.ref = ref]
        BY <2>3, <3>1
      <3> QED BY <2>3, <3>1, <3>2 DEF Record
    <2> QED BY <1>1, <2>1, <2>2, <2>3 DEF Selling
  <1>6. CASE \/ BroadcastFailed(r) \/ SequenceMismatch(r) \/ PayoutRefused(r) \/ AfterRefusal(r)
             \/ RecordPayout(r) \/ PayoutInitiated(r) \/ PayoutError(r) \/ Die(r)
    BY <1>3, <1>4, <1>6
       DEF BroadcastFailed, SequenceMismatch, WithdrawalFirst, SaleSecond, PayoutRefused,
           AfterRefusal, RecordPayout, PayoutInitiated, PayoutError, Die, At, Pcs, Selling
  <1> QED BY <1>2, <1>5, <1>6 DEF Settle

LEMMA NextSold ==
  ASSUME TypeOK, SoldInv, TypeOK', [Next]_vars
  PROVE  SoldInv'
  <1>0. \A i \in Sales : sold[i] >= sold[i]
    <2>1. \A i \in Sales : sold[i] \in Nat
      BY DEF TypeOK
    <2> QED BY <2>1
  <1>1. CASE UNCHANGED <<run, asked, sold>>
    BY <1>0, <1>1, NothingSold
  <1>2. ASSUME NEW r \in Runners, NEW pc \in Pcs \ Selling, UNCHANGED <<asked, sold>>,
               \/ run[r].pc # "idle" /\ Goto(r, pc)
               \/ \E i \in Sales, tx \in Seqs : Start(r, pc, i, tx)
               \/ End(r)
        PROVE  SoldInv'
    <2>1. run'[r].pc \notin Selling /\ \A q \in Runners : q # r => run'[q] = run[q]
      BY <1>2, GotoRun, StartRun, EndRun DEF Selling
    <2> QED BY <1>0, <1>2, <2>1, NothingSold
  <1>3. ASSUME NEW i \in Sales, Request(i) PROVE SoldInv'
    <2>1. i \in Runners /\ UNCHANGED <<asked, sold>>
      BY <1>3 DEF Runners, Request, Sell, Register, HoldSale, HoldWithdrawal, OnlyDocuments,
                  chainVars, history
    <2>2. {"created", "broadcast", "hold", "hold withdrawal", "over"} \subseteq Pcs \ Selling
      BY DEF Pcs, Selling
    <2>3. Sell(i) => sequence[i] \in Seqs
      BY Fields, CashOutAssumption DEF Sell, Seqs
    <2> QED BY <1>2, <1>3, <2>1, <2>2, <2>3
            DEF Request, Sell, Register, HoldSale, HoldWithdrawal, At
  <1>4. ASSUME NEW s \in Scanners, Scan(s) \/ StopScan(s) \/ \E i \in Sales : Release(s, i)
        PROVE  SoldInv'
    <2>1. s \in Runners /\ UNCHANGED <<asked, sold>> /\ "broadcast" \in Pcs \ Selling
      BY <1>4 DEF Runners, Pcs, Selling, Scan, StopScan, Release, chainVars, history
    <2>2. \A i \in Sales : sale[i].tx \in Seqs
      BY Fields
    <2> QED BY <1>1, <1>2, <1>4, <2>1, <2>2 DEF Scan, StopScan, Release
  <1>5. ASSUME NEW r \in Runners, Settle(r) \/ PayoutError(r) \/ Die(r) PROVE SoldInv'
    BY <1>0, <1>5, BroadcastSold, BurnSold, RunnersSell, NothingSold
  <1>6. ASSUME NEW a \in Admins, Administer(a) PROVE SoldInv'
    <2>1. /\ a \in Runners /\ UNCHANGED <<asked, sold>>
          /\ {"pay", "resolve"} \subseteq Pcs \ Selling /\ 0 \in Seqs
      BY <1>6, CashOutAssumption
         DEF Administer, RetryWithdrawal, ResolveReads, ResolveWithdrawal, OnlyDocuments,
             Runners, Pcs, Selling, Seqs, chainVars, history
    <2> QED BY <1>2, <1>6, <2>1 DEF Administer, RetryWithdrawal, ResolveReads, ResolveWithdrawal
  <1>7. \/ UNCHANGED <<run, asked, sold>>
        \/ \E i \in Sales : Request(i)
        \/ \E s \in Scanners : Scan(s) \/ StopScan(s) \/ \E i \in Sales : Release(s, i)
        \/ \E r \in Runners : Settle(r) \/ PayoutError(r) \/ Die(r)
        \/ \E a \in Admins : Administer(a)
    BY DEF Next, PollSale, OtherTransaction, Resign, PollReads, ResignSale, ResignWithdrawal,
           Reply, Callback, CallbackPayout, CallbackSale, CallbackReads, CallbackWithdrawal,
           OnlyCallback, PollWithdrawal, Fault, ResignDies, CallbackDies, OnlyDocuments,
           documents, handlers, chainVars, history, vars
  <1> QED BY <1>1, <1>3, <1>4, <1>5, <1>6, <1>7

\* However many workers broadcast the same signature and whatever is signed again, a
\* settlement asks for a payout only on a sell transaction the chain accepted from it:
\* those that have asked and those about to have each one of their own.
THEOREM CashOutPaidForSold == Spec => []PaidForSold
  <1>1. Init => SoldInv
    <2> SUFFICES ASSUME Init, NEW i \in Sales PROVE asked[i] + Cardinality(InHand(i)) <= sold[i]
      BY DEF SoldInv
    <2>1. InHand(i) = {}
      BY DEF Init, InHand, Idle
    <2> QED BY <2>1, FS_EmptySet DEF Init
  <1>2. (TypeOK /\ SoldInv) /\ TypeOK' /\ [Next]_vars => SoldInv'
    BY NextSold
  <1>3. TypeOK /\ SoldInv => PaidForSold
    <2> SUFFICES ASSUME TypeOK, SoldInv, NEW i \in Sales PROVE asked[i] <= sold[i]
      BY DEF PaidForSold
    <2>1. asked[i] \in Nat /\ sold[i] \in Nat /\ asked[i] + Cardinality(InHand(i)) <= sold[i]
      BY DEF TypeOK, SoldInv
    <2> QED BY <2>1, HandsFinite
  <1> QED BY <1>1, <1>2, <1>3, Typed, PTL DEF Spec

=============================================================================
