---------------------------- MODULE BuyFlowProofs ---------------------------
(***************************************************************************)
(* Theorems about BuyFlow for any purchases, any number of requests in     *)
(* progress at once and any bound on the prompts.                          *)
(*                                                                         *)
(* The promises are not inductive: what a handler is about to write is as  *)
(* true as what is written.  A delivery that brings a success and every    *)
(* /credit request come from a paid prompt (PaidInv), a request past the   *)
(* transfer holds its hash (RecordInv), and a request that stands before   *)
(* the liquidity add has a transfer of its own (AddInv), as SpentOnce says *)
(* of one that stands before the transfer.                                 *)
(***************************************************************************)
EXTENDS BuyFlow, FiniteSetTheorems, TLAPS

\* A prompt is recorded with the id its answer carried.
RefInv == \A u \in Pushes : push[u].pc = "save" => push[u].ref \in 1..MaxPrompts

PaidInv ==
    /\ \A p \in Purchases :
         purchase[p].status \in {"confirmed", "processing", "credited"} \/ transfers[p] > 0
            => WasPaid(p)
    /\ \A d \in Deliveries : delivery[d] # Idle /\ delivery[d].ok => WasPaid(delivery[d].of)
    /\ \A c \in Credits : credit[c] # Idle => WasPaid(credit[c].of)

RecordInv ==
    /\ \A p \in Purchases :
         /\ purchase[p].tx <= transfers[p]
         /\ purchase[p].status = "credited" => purchase[p].tx > 0
         /\ purchase[p].added => adds[p] > 0
         /\ purchase[p].error => recon[p] # "none"
    /\ \A c \in Credits :
         /\ credit[c].pc \in {"liquidity", "added", "not added", "error"}
              => credit[c].tx > 0 /\ credit[c].tx <= transfers[credit[c].of]
         /\ credit[c].pc = "added" => adds[credit[c].of] > 0
         /\ credit[c].pc = "error" => recon[credit[c].of] # "none"

AddInv == \A p \in Purchases : adds[p] + Cardinality(CreditsAt(p, "liquidity")) <= transfers[p]

\* A step keeps what was paid as paid, takes nothing off the chain and off the list.
Grows ==
    /\ \A p \in Purchases : WasPaid(p) => WasPaid(p)'
    /\ \A p \in Purchases : transfers[p] <= transfers'[p] /\ adds[p] <= adds'[p]
    /\ \A p \in Purchases : recon[p] # "none" => recon'[p] # "none"

-----------------------------------------------------------------------------
(* The handlers' records.                                                  *)

\* A handler that is not idle holds a full record.
LEMMA PushRecord ==
  ASSUME TypeOK, NEW u \in Pushes
  PROVE  \/ push[u] = Idle /\ push[u].pc = "idle"
         \/ push[u] \in Pushing /\ push[u].pc \in {"post", "save"} /\ push[u].of \in Purchases
  <1>1. push[u] = Idle \/ push[u] \in Pushing
    BY DEF TypeOK
  <1> QED BY <1>1 DEF Idle, Pushing

LEMMA DeliveryRecord ==
  ASSUME TypeOK, NEW d \in Deliveries
  PROVE  \/ delivery[d] = Idle
         \/ /\ delivery[d] \in Delivering /\ delivery[d].of \in Purchases
            /\ delivery[d].ok \in BOOLEAN
  <1>1. delivery[d] = Idle \/ delivery[d] \in Delivering
    BY DEF TypeOK
  <1> QED BY <1>1 DEF Delivering

LEMMA CreditRecord ==
  ASSUME TypeOK, NEW c \in Credits
  PROVE  \/ credit[c] = Idle /\ credit[c].pc = "idle"
         \/ /\ credit[c] \in Crediting /\ credit[c] # Idle
            /\ credit[c].of \in Purchases /\ credit[c].tx \in Nat
            /\ credit[c].pc \in {"claim", "transfer", "liquidity", "added", "not added", "error"}
  <1>1. credit[c] = Idle \/ credit[c] \in Crediting
    BY DEF TypeOK
  <1>2. CASE credit[c] = Idle
    BY <1>2 DEF Idle
  <1>3. CASE credit[c] \in Crediting
    <2>1. /\ credit[c].of \in Purchases /\ credit[c].tx \in Nat
          /\ credit[c].pc \in {"claim", "transfer", "liquidity", "added", "not added", "error"}
      BY <1>3 DEF Crediting
    <2>2. credit[c].pc # Idle.pc
      BY <2>1 DEF Idle
    <2> QED BY <1>3, <2>1, <2>2
  <1> QED BY <1>1, <1>2, <1>3

\* The initial state satisfies the types.
LEMMA InitTypeOK == Init => TypeOK
  BY BuyFlowAssumption
     DEF Init, TypeOK, NoPurchase, Documents, Status, ReconStatus, Idle

\* A /mpesa request that moves on, or ends, keeps its types.
LEMMA PushMoves ==
  ASSUME TypeOK, RefInv, NEW u \in Pushes, NEW r \in {Idle} \cup Pushing,
         r.pc = "save" => r.ref \in 1..MaxPrompts,
         push' = [push EXCEPT ![u] = r]
  PROVE  push' \in [Pushes -> {Idle} \cup Pushing] /\ RefInv'
  <1>1. push' \in [Pushes -> {Idle} \cup Pushing]
    BY DEF TypeOK
  <1>2. \A w \in Pushes : push'[w] = IF w = u THEN r ELSE push[w]
    BY DEF TypeOK
  <1> QED BY <1>1, <1>2 DEF RefInv

\* A step that leaves the /mpesa requests alone leaves their invariant alone.
LEMMA PushStays == ASSUME RefInv, UNCHANGED push PROVE RefInv'
  BY DEF RefInv

\* Requests for a prompt keep the types.
LEMMA PushTypeOK ==
  ASSUME TypeOK, RefInv, NEW u \in Pushes,
         (\E p \in Purchases : Push(u, p)) \/ PushStep(u)
  PROVE  TypeOK' /\ RefInv'
  <1>1. ASSUME NEW p \in Purchases, Push(u, p) PROVE TypeOK' /\ RefInv'
    <2> DEFINE r == [pc |-> "post", of |-> p, ref |-> 0]
    <2>1. r \in Pushing /\ r.pc # "save"
      BY BuyFlowAssumption DEF Pushing
    <2>2. push' \in [Pushes -> {Idle} \cup Pushing] /\ RefInv'
      BY <1>1, <2>1, PushMoves DEF Push
    <2> QED BY <1>1, <2>2 DEF Push, TypeOK, chain
  <1>2. CASE SendPrompt(u)
    <2> DEFINE p == push[u].of
               r == [pc |-> "save", of |-> p, ref |-> Len(prompts[p]) + 1]
    <2>1. push[u] \in Pushing /\ p \in Purchases
      BY <1>2, PushRecord DEF SendPrompt
    <2>2. /\ Len(prompts[p]) + 1 \in 1..MaxPrompts
          /\ prompts' = [prompts EXCEPT ![p] = Append(@, "sent")]
          /\ push' = [push EXCEPT ![u] = r] \/ UNCHANGED push
          /\ UNCHANGED <<purchase, recon, delivery, credit, transfers, adds, confirmed>>
      BY <1>2, <2>1, BuyFlowAssumption DEF SendPrompt, TypeOK, chain
    <2>3. prompts' \in [Purchases -> Seq({"sent", "paid", "declined"})]
      BY <2>1, <2>2 DEF TypeOK
    <2>4. r \in Pushing /\ r.ref \in 1..MaxPrompts
      BY <2>1, <2>2, BuyFlowAssumption DEF Pushing
    <2>5. push' \in [Pushes -> {Idle} \cup Pushing] /\ RefInv'
      BY <2>2, <2>4, PushMoves, PushStays DEF TypeOK
    <2> QED BY <2>2, <2>3, <2>5 DEF TypeOK
  <1>3. CASE PushEnds(u)
    <2>1. push' \in [Pushes -> {Idle} \cup Pushing] /\ RefInv'
      BY <1>3, PushMoves DEF PushEnds, Idle
    <2> QED BY <1>3, <2>1 DEF PushEnds, TypeOK, chain
  <1>4. CASE SavePrompt(u)
    <2> DEFINE p == push[u].of
    <2>1. p \in Purchases /\ push[u].ref \in 1..MaxPrompts
      BY <1>4, PushRecord DEF SavePrompt, RefInv
    <2>2. purchase' \in [Purchases -> Documents]
      <3> DEFINE new == [purchase[p] EXCEPT !.status = "payment_initiated",
                                            !.ids = @ \cup {push[u].ref}]
      <3>1. purchase' = [purchase EXCEPT ![p] = new]
        BY <1>4 DEF SavePrompt
      <3>2. purchase \in [Purchases -> Documents]
        BY DEF TypeOK
      <3>3. purchase[p] \in Documents
        BY <2>1, <3>2
      <3>4. purchase[p].ids \cup {push[u].ref} \in SUBSET (1..MaxPrompts)
        BY <2>1, <3>3 DEF Documents
      <3>5. "payment_initiated" \in Status
        BY DEF Status
      <3>6. new \in Documents
        BY <3>3, <3>4, <3>5 DEF Documents
      <3> QED BY <2>1, <3>1, <3>2, <3>6
    <2>3. push' \in [Pushes -> {Idle} \cup Pushing] /\ RefInv'
      BY <1>4, PushMoves DEF SavePrompt, Idle
    <2> QED BY <1>4, <2>2, <2>3 DEF SavePrompt, TypeOK, chain
  <1> QED BY <1>1, <1>2, <1>3, <1>4 DEF PushStep

\* Saving a status keeps the types of the documents.
LEMMA StatusTypeOK ==
  ASSUME TypeOK, NEW p \in Purchases, NEW status \in Status, SaveStatus(p, status)
  PROVE  purchase' \in [Purchases -> Documents]
  <1> DEFINE new == [purchase[p] EXCEPT !.status = status]
  <1>1. purchase' = [purchase EXCEPT ![p] = new]
    BY DEF SaveStatus
  <1>2. purchase \in [Purchases -> Documents]
    BY DEF TypeOK
  <1>3. purchase[p] \in Documents
    BY <1>2
  <1>4. new \in Documents
    BY <1>3 DEF Documents
  <1> QED BY <1>1, <1>2, <1>4

\* Deliveries of results keep the types.
LEMMA DeliveryTypeOK ==
  ASSUME TypeOK, NEW d \in Deliveries,
         (\E p \in Purchases, k \in 1..MaxPrompts : Callback(d, p, k)) \/ DeliveryStep(d)
  PROVE  TypeOK' /\ UNCHANGED push
  <1>1. ASSUME NEW p \in Purchases, NEW k \in 1..MaxPrompts, Callback(d, p, k)
        PROVE  TypeOK' /\ UNCHANGED push
    <2>1. [pc |-> "save", of |-> p, ok |-> prompts[p][k] = "paid"] \in Delivering
      BY DEF Delivering
    <2> QED BY <1>1, <2>1 DEF Callback, TypeOK, chain
  <1>2. CASE SaveResult(d)
    <2> DEFINE p == delivery[d].of
    <2>1. p \in Purchases
      BY <1>2, DeliveryRecord DEF SaveResult
    <2>2. purchase' \in [Purchases -> Documents]
      BY <1>2, <2>1, StatusTypeOK DEF SaveResult, Status
    <2>3. confirmed' \in [Purchases -> Nat]
      BY <1>2, <2>1 DEF SaveResult, TypeOK
    <2> QED BY <1>2, <2>2, <2>3 DEF SaveResult, TypeOK, chain
  <1>3. CASE DeliveryEnds(d)
    BY <1>3 DEF DeliveryEnds, TypeOK, chain
  <1> QED BY <1>1, <1>2, <1>3 DEF DeliveryStep

-----------------------------------------------------------------------------
(* The /credit requests.                                                   *)

\* The record a /credit request holds after a step of it.
After(c, r) ==
    /\ r \in {Idle} \cup Crediting
    /\ credit' = [credit EXCEPT ![c] = r]

\* Going to another program counter keeps the rest of the record.
LEMMA GotoAfter ==
  ASSUME TypeOK, NEW c \in Credits, credit[c] # Idle,
         NEW pc \in {"claim", "transfer", "liquidity", "added", "not added", "error"}, Goto(c, pc)
  PROVE  \E r \in Crediting : After(c, r) /\ r.pc = pc /\ r.of = credit[c].of /\ r.tx = credit[c].tx
  <1> DEFINE r == [credit[c] EXCEPT !.pc = pc]
  <1>1. credit[c] \in Crediting
    BY CreditRecord
  <1>2. r \in Crediting /\ r.pc = pc /\ r.of = credit[c].of /\ r.tx = credit[c].tx
    BY <1>1 DEF Crediting
  <1>3. credit' = [credit EXCEPT ![c] = r]
    BY DEF Goto
  <1> QED BY <1>2, <1>3 DEF After

\* A step of one /credit request leaves the other requests alone.
LEMMA AfterMoves ==
  ASSUME TypeOK, NEW c \in Credits, NEW r, After(c, r)
  PROVE  /\ credit' \in [Credits -> {Idle} \cup Crediting]
         /\ \A w \in Credits : credit'[w] = IF w = c THEN r ELSE credit[w]
  BY DEF After, TypeOK

\* How the requests of a purchase at a program counter are counted.
LEMMA CountIsNat ==
  ASSUME NEW p \in Purchases, NEW pc
  PROVE  IsFiniteSet(CreditsAt(p, pc)) /\ Cardinality(CreditsAt(p, pc)) \in Nat
  <1>1. CreditsAt(p, pc) \subseteq Credits
    BY DEF CreditsAt
  <1> QED BY <1>1, BuyFlowAssumption, FS_Subset, FS_CardinalityType

\* A request that does not come to pc adds nothing to the count there.
LEMMA CountStays ==
  ASSUME TypeOK, NEW c \in Credits, NEW r, After(c, r), NEW p \in Purchases, NEW pc,
         r.pc # pc \/ r.of # p
  PROVE  Cardinality(CreditsAt(p, pc))' <= Cardinality(CreditsAt(p, pc))
  <1>1. CreditsAt(p, pc)' \subseteq CreditsAt(p, pc)
    BY AfterMoves DEF CreditsAt
  <1> QED BY <1>1, CountIsNat, FS_Subset

\* A request that leaves pc is one less there.
LEMMA CountLeaves ==
  ASSUME TypeOK, NEW c \in Credits, NEW r, After(c, r), NEW p \in Purchases, NEW pc,
         r.pc # pc, credit[c].pc = pc, credit[c].of = p
  PROVE  Cardinality(CreditsAt(p, pc))' = Cardinality(CreditsAt(p, pc)) - 1
  <1>1. c \in CreditsAt(p, pc)
    BY DEF CreditsAt
  <1>2. CreditsAt(p, pc)' = CreditsAt(p, pc) \ {c}
    BY AfterMoves DEF CreditsAt
  <1>3. Cardinality(CreditsAt(p, pc) \ {c}) = Cardinality(CreditsAt(p, pc)) - 1
    BY <1>1, CountIsNat, FS_RemoveElement
  <1> QED BY <1>2, <1>3

\* A request that comes to pc is one more there.
LEMMA CountEnters ==
  ASSUME TypeOK, NEW c \in Credits, NEW r, After(c, r), NEW p \in Purchases, NEW pc,
         r.pc = pc, r.of = p, credit[c].pc # pc
  PROVE  Cardinality(CreditsAt(p, pc))' = Cardinality(CreditsAt(p, pc)) + 1
  <1>1. c \notin CreditsAt(p, pc)
    BY DEF CreditsAt
  <1>2. CreditsAt(p, pc)' = CreditsAt(p, pc) \cup {c}
    BY AfterMoves DEF CreditsAt
  <1>3. IsFiniteSet(CreditsAt(p, pc))
    BY CountIsNat
  <1>4. Cardinality(CreditsAt(p, pc) \cup {c}) = Cardinality(CreditsAt(p, pc)) + 1
    BY <1>1, <1>3, FS_AddElement
  <1> QED BY <1>2, <1>4

\* A step of a /credit request that neither comes to the transfer or the
\* liquidity add nor moves coins keeps both counts.
LEMMA CountsStay ==
  ASSUME TypeOK, SpentOnce, AddInv, NEW c \in Credits, NEW r, After(c, r),
         r.pc \notin {"transfer", "liquidity"},
         \A p \in Purchases : purchase'[p].status = "confirmed" => purchase[p].status = "confirmed",
         UNCHANGED <<chain, confirmed>>
  PROVE  SpentOnce' /\ AddInv'
  <1>1. ASSUME NEW p \in Purchases
        PROVE  /\ Cardinality(CreditsAt(p, "transfer"))' <= Cardinality(CreditsAt(p, "transfer"))
               /\ Cardinality(CreditsAt(p, "liquidity"))' <= Cardinality(CreditsAt(p, "liquidity"))
    BY CountStays
  <1>2. ASSUME NEW p \in Purchases
        PROVE  /\ CreditsAt(p, "transfer")' \subseteq Credits
               /\ CreditsAt(p, "liquidity")' \subseteq Credits
    BY DEF CreditsAt
  <1>3. ASSUME NEW p \in Purchases
        PROVE  /\ Cardinality(CreditsAt(p, "transfer"))' \in Nat
               /\ Cardinality(CreditsAt(p, "liquidity"))' \in Nat
    BY <1>2, BuyFlowAssumption, FS_Subset, FS_CardinalityType
  <1>4. SpentOnce'
    BY <1>1, <1>3, CountIsNat DEF SpentOnce, TypeOK, chain
  <1>5. AddInv'
    BY <1>1, <1>3, CountIsNat DEF AddInv, TypeOK, chain
  <1> QED BY <1>4, <1>5

\* A /credit request that is of a paid purchase, or ends, keeps PaidInv.
LEMMA PaidStays ==
  ASSUME TypeOK, PaidInv, NEW c \in Credits, NEW r, After(c, r), r = Idle \/ WasPaid(r.of),
         \A p \in Purchases :
           purchase'[p].status \in {"confirmed", "processing", "credited"} \/ transfers'[p] > 0
              => WasPaid(p),
         UNCHANGED <<delivery, prompts>>
  PROVE  PaidInv'
  <1>1. \A p : WasPaid(p)' <=> WasPaid(p)
    BY DEF WasPaid
  <1>2. \A w \in Credits : credit'[w] = IF w = c THEN r ELSE credit[w]
    BY AfterMoves
  <1> QED BY <1>1, <1>2 DEF PaidInv

\* A /credit request before its transfer, or ended, keeps RecordInv when the
\* documents stay as they are but for the status.
LEMMA RecordStays ==
  ASSUME TypeOK, RecordInv, NEW c \in Credits, NEW r, After(c, r),
         r.pc \notin {"liquidity", "added", "not added", "error"},
         \A p \in Purchases :
           /\ purchase'[p].status = "credited" => purchase[p].status = "credited"
           /\ purchase'[p].tx = purchase[p].tx
           /\ purchase'[p].added = purchase[p].added /\ purchase'[p].error = purchase[p].error,
         UNCHANGED <<recon, chain>>
  PROVE  RecordInv'
  <1>1. \A w \in Credits : credit'[w] = IF w = c THEN r ELSE credit[w]
    BY AfterMoves
  <1> QED BY <1>1 DEF RecordInv, chain

IInv == TypeOK /\ RefInv /\ PaidInv /\ RecordInv /\ SpentOnce /\ AddInv

\* A request begins: the purchase it has read is confirmed, so it was paid.
LEMMA CreditIInv ==
  ASSUME IInv, NEW c \in Credits, NEW p \in Purchases, Credit(c, p)
  PROVE  IInv'
  <1> DEFINE r == [pc |-> "claim", of |-> p, tx |-> 0]
  <1>1. TypeOK /\ RefInv /\ PaidInv /\ RecordInv /\ SpentOnce /\ AddInv
    BY DEF IInv
  <1>2. r \in Crediting /\ r.pc = "claim" /\ r.of = p
    BY DEF Crediting
  <1>3. /\ After(c, r)
        /\ UNCHANGED <<purchase, recon, push, delivery, prompts, chain, confirmed>>
    BY <1>2 DEF Credit, After
  <1>4. WasPaid(p)
    BY <1>1 DEF Credit, PaidInv
  <1>5. TypeOK'
    BY <1>1, <1>3, AfterMoves DEF TypeOK, chain
  <1>6. PaidInv'
    BY <1>1, <1>2, <1>3, <1>4, PaidStays DEF PaidInv, chain
  <1>7. RecordInv'
    BY <1>1, <1>2, <1>3, RecordStays
  <1>8. SpentOnce' /\ AddInv'
    BY <1>1, <1>2, <1>3, CountsStay
  <1> QED BY <1>1, <1>3, <1>5, <1>6, <1>7, <1>8, PushStays DEF IInv

\* A request ends, for whatever reason.
LEMMA EndsIInv ==
  ASSUME IInv, NEW c \in Credits, credit' = [credit EXCEPT ![c] = Idle],
         UNCHANGED <<purchase, recon, push, delivery, prompts, chain, confirmed>>
  PROVE  IInv'
  <1>1. TypeOK /\ RefInv /\ PaidInv /\ RecordInv /\ SpentOnce /\ AddInv
    BY DEF IInv
  <1>2. After(c, Idle) /\ Idle.pc = "idle"
    BY DEF After, Idle
  <1>5. TypeOK'
    BY <1>1, <1>2, AfterMoves DEF TypeOK, chain
  <1>6. PaidInv'
    BY <1>1, <1>2, PaidStays DEF PaidInv, chain
  <1>7. RecordInv'
    BY <1>1, <1>2, RecordStays
  <1>8. SpentOnce' /\ AddInv'
    BY <1>1, <1>2, CountsStay
  <1> QED BY <1>1, <1>5, <1>6, <1>7, <1>8, PushStays DEF IInv
\* Exactly one request finds the purchase confirmed and moves it on.
LEMMA ClaimIInv ==
  ASSUME IInv, NEW c \in Credits, Claim(c)
  PROVE  IInv'
  <1>1. TypeOK /\ RefInv /\ PaidInv /\ RecordInv /\ SpentOnce /\ AddInv
    BY DEF IInv
  <1>2. PICK p \in Purchases : credit[c] # Idle /\ credit[c].of = p /\ credit[c].pc = "claim"
    BY <1>1, CreditRecord DEF Claim
  <1>3. CASE purchase[p].status # "confirmed"
    BY <1>2, <1>3, EndsIInv DEF Claim
  <1>4. CASE purchase[p].status = "confirmed"
    <2>1. /\ SaveStatus(p, "processing") /\ Goto(c, "transfer")
          /\ UNCHANGED <<recon, push, delivery, prompts, chain, confirmed>>
      BY <1>2, <1>4 DEF Claim
    <2>2. PICK r \in Crediting : After(c, r) /\ r.pc = "transfer" /\ r.of = p
      BY <1>1, <1>2, <2>1, GotoAfter
    <2>3. purchase' \in [Purchases -> Documents]
      BY <1>1, <1>2, <2>1, StatusTypeOK DEF Status
    <2>4. /\ \A q \in Purchases \ {p} : purchase'[q] = purchase[q]
          /\ purchase'[p].status = "processing" /\ purchase'[p].tx = purchase[p].tx
          /\ purchase'[p].added = purchase[p].added /\ purchase'[p].error = purchase[p].error
      BY <1>1, <1>2, <2>1 DEF SaveStatus, TypeOK, Documents
    <2>5. TypeOK'
      BY <1>1, <2>1, <2>2, <2>3, AfterMoves DEF TypeOK, chain
    <2>6. PaidInv'
      BY <1>1, <1>2, <1>4, <2>1, <2>2, <2>4, PaidStays DEF PaidInv, chain
    <2>7. RecordInv'
      BY <1>1, <2>1, <2>2, <2>4, RecordStays
    <2>8. SpentOnce'
      <3>1. Cardinality(CreditsAt(p, "transfer"))' = Cardinality(CreditsAt(p, "transfer")) + 1
        BY <1>1, <1>2, <2>2, CountEnters
      <3>2. \A q \in Purchases \ {p} :
              CreditsAt(q, "transfer")' = CreditsAt(q, "transfer")
        BY <1>1, <1>2, <2>2, AfterMoves DEF CreditsAt
      <3>3. transfers' = transfers /\ confirmed' = confirmed
        BY <2>1 DEF chain
      <3>4. transfers[p] + Cardinality(CreditsAt(p, "transfer")) + 1 <= confirmed[p]
        BY <1>1, <1>2, <1>4 DEF SpentOnce
      <3>5. transfers[p] + Cardinality(CreditsAt(p, "transfer"))' + 0 <= confirmed[p]
        BY <1>1, <1>2, <3>1, <3>4, CountIsNat DEF TypeOK
      <3> QED BY <1>1, <1>2, <2>4, <3>2, <3>3, <3>5 DEF SpentOnce
    <2>9. AddInv'
      <3>1. \A q \in Purchases : CreditsAt(q, "liquidity")' = CreditsAt(q, "liquidity")
        BY <1>1, <1>2, <2>2, AfterMoves DEF CreditsAt
      <3> QED BY <1>1, <2>1, <3>1 DEF AddInv, chain
    <2> QED BY <1>1, <2>1, <2>5, <2>6, <2>7, <2>8, <2>9, PushStays DEF IInv
  <1> QED BY <1>3, <1>4

\* The transfer spends the confirmation the request has claimed, and a request
\* that goes on to the liquidity add does so with this transfer.
LEMMA TransferIInv ==
  ASSUME IInv, NEW c \in Credits, Transfer(c)
  PROVE  IInv'
  <1>1. TypeOK /\ RefInv /\ PaidInv /\ RecordInv /\ SpentOnce /\ AddInv
    BY DEF IInv
  <1>2. PICK p \in Purchases : /\ credit[c] \in Crediting /\ credit[c] # Idle
                              /\ credit[c].of = p /\ credit[c].pc = "transfer"
    BY <1>1, CreditRecord DEF Transfer
  <1>3. /\ transfers' = [transfers EXCEPT ![p] = @ + 1]
        /\ \/ credit' = [credit EXCEPT ![c] = Idle]
           \/ credit' = [credit EXCEPT ![c].pc = "liquidity", ![c].tx = transfers[p] + 1]
        /\ UNCHANGED <<purchase, recon, push, delivery, prompts, adds, confirmed>>
    BY <1>2 DEF Transfer
  <1>4. PICK r : /\ After(c, r)
                 /\ \/ r = Idle /\ r.pc = "idle"
                    \/ r.pc = "liquidity" /\ r.of = p /\ r.tx = transfers[p] + 1
    <2> DEFINE next == [credit[c] EXCEPT !.pc = "liquidity", !.tx = transfers[p] + 1]
    <2>1. /\ next \in Crediting /\ next.pc = "liquidity" /\ next.of = p
          /\ next.tx = transfers[p] + 1
      <3>1. transfers[p] + 1 \in Nat
        BY <1>1, <1>2 DEF TypeOK
      <3> QED BY <1>2, <3>1 DEF Crediting
    <2>2. Idle.pc = "idle"
      BY DEF Idle
    <2>3. CASE credit' = [credit EXCEPT ![c] = Idle]
      BY <2>2, <2>3 DEF After
    <2>4. CASE credit' = [credit EXCEPT ![c] = next]
      BY <2>1, <2>4 DEF After
    <2> QED BY <1>3, <2>3, <2>4
  <1>5. /\ transfers' \in [Purchases -> Nat]
        /\ transfers'[p] = transfers[p] + 1
        /\ \A q \in Purchases \ {p} : transfers'[q] = transfers[q]
    BY <1>1, <1>2, <1>3 DEF TypeOK
  <1>7. \A w \in Credits : credit'[w] = IF w = c THEN r ELSE credit[w]
    BY <1>1, <1>4, AfterMoves
  <1>8. TypeOK'
    BY <1>1, <1>3, <1>4, <1>5, AfterMoves DEF TypeOK
  <1>9. PaidInv'
    <2>1. WasPaid(p) /\ (r = Idle \/ r.of = p)
      BY <1>1, <1>2, <1>4 DEF PaidInv
    <2> QED BY <1>1, <1>2, <1>3, <1>4, <1>5, <2>1, PaidStays DEF PaidInv
  <1>10. RecordInv'
    <2>1. \A q \in Purchases : transfers[q] <= transfers'[q] /\ transfers[q] \in Nat
      <3>1. \A q \in Purchases : transfers[q] \in Nat
        BY <1>1 DEF TypeOK
      <3>2. transfers[p] <= transfers[p] + 1
        BY <1>2, <3>1
      <3> QED BY <1>5, <3>1, <3>2
    <2>2. r.pc \notin {"added", "not added", "error"}
      BY <1>4
    <2>3. r.pc = "liquidity" => r.tx > 0 /\ r.tx <= transfers'[r.of]
      BY <1>2, <1>4, <1>5, <2>1
    <2>4. ASSUME NEW w \in Credits, credit'[w].pc \in {"liquidity", "added", "not added", "error"}
          PROVE  credit'[w].tx > 0 /\ credit'[w].tx <= transfers'[credit'[w].of]
      <3>1. CASE w = c
        BY <1>7, <2>2, <2>3, <2>4, <3>1
      <3>2. CASE w # c
        <4>1. credit'[w] = credit[w] /\ credit[w].of \in Purchases /\ credit[w].tx \in Nat
          BY <1>1, <1>7, <2>4, <3>2, CreditRecord
        <4>2. credit[w].tx > 0 /\ credit[w].tx <= transfers[credit[w].of]
          BY <1>1, <2>4, <4>1 DEF RecordInv
        <4>3. /\ transfers[credit[w].of] \in Nat /\ transfers'[credit[w].of] \in Nat
              /\ transfers[credit[w].of] <= transfers'[credit[w].of]
          BY <1>5, <2>1, <4>1
        <4> QED BY <4>1, <4>2, <4>3
      <3> QED BY <3>1, <3>2
    <2>5. ASSUME NEW w \in Credits
          PROVE  /\ credit'[w].pc = "added" => adds[credit'[w].of] > 0
                 /\ credit'[w].pc = "error" => recon[credit'[w].of] # "none"
      BY <1>1, <1>7, <2>2 DEF RecordInv
    <2>6. ASSUME NEW q \in Purchases PROVE purchase[q].tx <= transfers'[q]
      <3>1. purchase[q].tx \in Nat /\ purchase[q].tx <= transfers[q]
        BY <1>1 DEF RecordInv, TypeOK, Documents
      <3>2. transfers[q] \in Nat /\ transfers'[q] \in Nat /\ transfers[q] <= transfers'[q]
        BY <1>5, <2>1
      <3> QED BY <3>1, <3>2
    <2> QED BY <1>1, <1>3, <2>4, <2>5, <2>6 DEF RecordInv
  <1>11. SpentOnce'
    <2>1. r.pc # "transfer"
      BY <1>4
    <2>2. Cardinality(CreditsAt(p, "transfer"))' = Cardinality(CreditsAt(p, "transfer")) - 1
      BY <1>1, <1>2, <1>4, <2>1, CountLeaves
    <2>3. \A q \in Purchases \ {p} : CreditsAt(q, "transfer")' = CreditsAt(q, "transfer")
      BY <1>2, <1>7, <2>1 DEF CreditsAt
    <2>4. UNCHANGED <<purchase, confirmed>> /\ \A q \in Purchases : transfers[q] \in Nat
      BY <1>1, <1>3 DEF TypeOK
    <2>5. Cardinality(CreditsAt(p, "transfer")) \in Nat
      BY CountIsNat
    <2>6. transfers'[p] + Cardinality(CreditsAt(p, "transfer"))'
            = transfers[p] + Cardinality(CreditsAt(p, "transfer"))
      BY <1>2, <1>5, <2>2, <2>4, <2>5
    <2>7. \A q \in Purchases \ {p} :
            transfers'[q] + Cardinality(CreditsAt(q, "transfer"))'
              = transfers[q] + Cardinality(CreditsAt(q, "transfer"))
      BY <1>5, <2>3
    <2> QED BY <1>1, <2>4, <2>6, <2>7 DEF SpentOnce
  <1>12. AddInv'
    <2>1. Cardinality(CreditsAt(p, "liquidity"))' \in Nat
      <3>1. CreditsAt(p, "liquidity")' \subseteq Credits
        BY DEF CreditsAt
      <3> QED BY <3>1, BuyFlowAssumption, FS_Subset, FS_CardinalityType
    <2>2. Cardinality(CreditsAt(p, "liquidity"))' <= Cardinality(CreditsAt(p, "liquidity")) + 1
      <3>1. CASE r.pc = "idle"
        <4>1. Cardinality(CreditsAt(p, "liquidity"))' <= Cardinality(CreditsAt(p, "liquidity"))
          BY <1>1, <1>2, <1>4, <3>1, CountStays
        <4> QED BY <1>2, <2>1, <4>1, CountIsNat
      <3>2. CASE r.pc = "liquidity"
        <4>1. Cardinality(CreditsAt(p, "liquidity"))' = Cardinality(CreditsAt(p, "liquidity")) + 1
          BY <1>1, <1>2, <1>4, <3>2, CountEnters
        <4> QED BY <1>2, <4>1, CountIsNat
      <3> QED BY <1>4, <3>1, <3>2
    <2>3. \A q \in Purchases \ {p} : CreditsAt(q, "liquidity")' = CreditsAt(q, "liquidity")
      BY <1>2, <1>4, <1>7 DEF CreditsAt
    <2> QED BY <1>1, <1>2, <1>3, <1>5, <2>1, <2>2, <2>3, CountIsNat DEF AddInv, TypeOK
  <1> QED BY <1>1, <1>3, <1>8, <1>9, <1>10, <1>11, <1>12, PushStays DEF IInv
\* Liquidity is added for a transfer that nothing was added for.
LEMMA AddLiquidityIInv ==
  ASSUME IInv, NEW c \in Credits, AddLiquidity(c)
  PROVE  IInv'
  <1>1. TypeOK /\ RefInv /\ PaidInv /\ RecordInv /\ SpentOnce /\ AddInv
    BY DEF IInv
  <1>2. PICK p \in Purchases : /\ credit[c] # Idle /\ credit[c].of = p
                              /\ credit[c].pc = "liquidity"
    BY <1>1, CreditRecord DEF AddLiquidity
  <1>3. PICK r \in Crediting :
          /\ After(c, r) /\ r.of = p /\ r.tx = credit[c].tx
          /\ \/ /\ adds' = [adds EXCEPT ![p] = @ + 1]
                /\ r.pc \in {"added", "not added"}
             \/ UNCHANGED adds /\ r.pc = "not added"
    <2>1. PICK pc \in {"added", "not added"} :
            /\ Goto(c, pc)
            /\ \/ adds' = [adds EXCEPT ![p] = @ + 1]
               \/ UNCHANGED adds /\ pc = "not added"
      BY <1>2 DEF AddLiquidity
    <2>2. PICK r \in Crediting : After(c, r) /\ r.pc = pc /\ r.of = p /\ r.tx = credit[c].tx
      <3>1. pc \in {"claim", "transfer", "liquidity", "added", "not added", "error"}
        OBVIOUS
      <3>2. credit[c] # Idle /\ Goto(c, pc)
        BY <1>2, <2>1
      <3>3. \E r \in Crediting :
               After(c, r) /\ r.pc = pc /\ r.of = credit[c].of /\ r.tx = credit[c].tx
        BY <1>1, <3>1, <3>2, GotoAfter
      <3> QED BY <1>2, <3>3
    <2> QED BY <2>1, <2>2
  <1>4. UNCHANGED <<purchase, recon, push, delivery, prompts, transfers, confirmed>>
    BY DEF AddLiquidity
  <1>5. /\ adds' \in [Purchases -> Nat] /\ adds'[p] <= adds[p] + 1
        /\ \A q \in Purchases : adds[q] <= adds'[q] /\ adds[q] \in Nat
        /\ \A q \in Purchases \ {p} : adds'[q] = adds[q]
        /\ r.pc = "added" => adds'[p] > 0
    <2>1. adds \in [Purchases -> Nat] /\ \A q \in Purchases : adds[q] \in Nat
      BY <1>1 DEF TypeOK
    <2>2. CASE adds' = [adds EXCEPT ![p] = adds[p] + 1]
      <3>1. adds[p] + 1 \in Nat /\ adds[p] + 1 > 0 /\ adds[p] <= adds[p] + 1
        BY <2>1
      <3>2. adds'[p] = adds[p] + 1 /\ \A q \in Purchases \ {p} : adds'[q] = adds[q]
        BY <2>1, <2>2
      <3>3. adds' \in [Purchases -> Nat]
        BY <2>1, <2>2, <3>1
      <3>4. \A q \in Purchases : adds[q] <= adds'[q]
        BY <2>1, <3>1, <3>2
      <3> QED BY <2>1, <3>1, <3>2, <3>3, <3>4
    <2>3. CASE UNCHANGED adds /\ r.pc = "not added"
      <3>1. adds' = adds /\ r.pc # "added"
        BY <2>3
      <3>2. \A q \in Purchases : adds[q] <= adds[q] /\ adds[q] <= adds[q] + 1
        BY <2>1
      <3> QED BY <2>1, <3>1, <3>2
    <2> QED BY <1>3, <2>2, <2>3
  <1>6. \A w \in Credits : credit'[w] = IF w = c THEN r ELSE credit[w]
    BY <1>1, <1>3, AfterMoves
  <1>7. TypeOK'
    BY <1>1, <1>3, <1>4, <1>5, AfterMoves DEF TypeOK
  <1>8. PaidInv'
    <2>1. WasPaid(p)
      BY <1>1, <1>2 DEF PaidInv
    <2> QED BY <1>1, <1>3, <1>4, <2>1, PaidStays DEF PaidInv
  <1>9. RecordInv'
    <2>1. ASSUME NEW q \in Purchases, purchase[q].added PROVE adds'[q] > 0
      <3>1. adds[q] > 0
        BY <1>1, <2>1 DEF RecordInv
      <3>2. adds[q] \in Nat /\ adds'[q] \in Nat /\ adds[q] <= adds'[q]
        BY <1>5
      <3> QED BY <3>1, <3>2
    <2>2. ASSUME NEW w \in Credits
          PROVE  /\ credit'[w].pc \in {"liquidity", "added", "not added", "error"}
                      => credit'[w].tx > 0 /\ credit'[w].tx <= transfers[credit'[w].of]
                 /\ credit'[w].pc = "error" => recon[credit'[w].of] # "none"
      BY <1>1, <1>2, <1>3, <1>6 DEF RecordInv
    <2>3. ASSUME NEW w \in Credits, credit'[w].pc = "added" PROVE adds'[credit'[w].of] > 0
      <3>1. CASE w = c
        BY <1>3, <1>5, <1>6, <2>3, <3>1
      <3>2. CASE w # c
        <4>1. credit'[w] = credit[w] /\ credit[w].of \in Purchases
          BY <1>1, <1>6, <2>3, <3>2, CreditRecord
        <4>2. adds[credit[w].of] > 0
          BY <1>1, <2>3, <4>1 DEF RecordInv
        <4> QED BY <1>5, <4>1, <4>2, <1>7 DEF TypeOK
      <3> QED BY <3>1, <3>2
    <2> QED BY <1>1, <1>4, <2>1, <2>2, <2>3 DEF RecordInv
  <1>10. SpentOnce'
    <2>1. \A q \in Purchases : CreditsAt(q, "transfer")' = CreditsAt(q, "transfer")
      BY <1>2, <1>3, <1>6 DEF CreditsAt
    <2> QED BY <1>1, <1>4, <2>1 DEF SpentOnce
  <1>11. AddInv'
    <2>1. Cardinality(CreditsAt(p, "liquidity"))' = Cardinality(CreditsAt(p, "liquidity")) - 1
      BY <1>1, <1>2, <1>3, CountLeaves
    <2>2. \A q \in Purchases \ {p} : CreditsAt(q, "liquidity")' = CreditsAt(q, "liquidity")
      BY <1>2, <1>3, <1>6 DEF CreditsAt
    <2>3. adds'[p] + Cardinality(CreditsAt(p, "liquidity"))' <= transfers[p]
      BY <1>1, <1>2, <1>5, <2>1, CountIsNat DEF AddInv, TypeOK
    <2> QED BY <1>1, <1>4, <1>5, <2>2, <2>3 DEF AddInv
  <1> QED BY <1>1, <1>4, <1>7, <1>8, <1>9, <1>10, <1>11, PushStays DEF IInv

\* The failed add is put on the list.
LEMMA EnsureIInv ==
  ASSUME IInv, NEW c \in Credits, EnsureReconciliation(c)
  PROVE  IInv'
  <1>1. TypeOK /\ RefInv /\ PaidInv /\ RecordInv /\ SpentOnce /\ AddInv
    BY DEF IInv
  <1>2. PICK p \in Purchases : /\ credit[c] # Idle /\ credit[c].of = p
                              /\ credit[c].pc = "not added"
    BY <1>1, CreditRecord DEF EnsureReconciliation
  <1>3. PICK r \in Crediting : After(c, r) /\ r.pc = "error" /\ r.of = p /\ r.tx = credit[c].tx
    BY <1>1, <1>2, GotoAfter DEF EnsureReconciliation
  <1>4. /\ recon' = [recon EXCEPT ![p] = "detected"]
        /\ UNCHANGED <<purchase, push, delivery, prompts, chain, confirmed>>
    BY <1>2 DEF EnsureReconciliation
  <1>5. /\ recon' \in [Purchases -> ReconStatus] /\ recon'[p] # "none"
        /\ \A q \in Purchases : recon[q] # "none" => recon'[q] # "none"
    BY <1>1, <1>4 DEF TypeOK, ReconStatus
  <1>6. \A w \in Credits : credit'[w] = IF w = c THEN r ELSE credit[w]
    BY <1>1, <1>3, AfterMoves
  <1>7. TypeOK'
    BY <1>1, <1>3, <1>4, <1>5, AfterMoves DEF TypeOK, chain
  <1>8. PaidInv'
    <2>1. WasPaid(p)
      BY <1>1, <1>2 DEF PaidInv
    <2> QED BY <1>1, <1>3, <1>4, <2>1, PaidStays DEF PaidInv, chain
  <1>9. RecordInv'
    <2>1. ASSUME NEW w \in Credits
          PROVE  /\ credit'[w].pc \in {"liquidity", "added", "not added", "error"}
                      => credit'[w].tx > 0 /\ credit'[w].tx <= transfers[credit'[w].of]
                 /\ credit'[w].pc = "added" => adds[credit'[w].of] > 0
      BY <1>1, <1>2, <1>3, <1>6 DEF RecordInv
    <2>2. ASSUME NEW w \in Credits, credit'[w].pc = "error" PROVE recon'[credit'[w].of] # "none"
      <3>1. CASE w = c
        BY <1>3, <1>5, <1>6, <3>1
      <3>2. CASE w # c
        BY <1>1, <1>5, <1>6, <2>2, <3>2, CreditRecord DEF RecordInv
      <3> QED BY <3>1, <3>2
    <2> QED BY <1>1, <1>4, <1>5, <2>1, <2>2 DEF RecordInv, chain
  <1>10. SpentOnce' /\ AddInv'
    BY <1>1, <1>3, <1>4, CountsStay
  <1> QED BY <1>1, <1>4, <1>7, <1>8, <1>9, <1>10, PushStays DEF IInv

\* The purchase is saved with what its request knows to be true.
LEMMA SaveCreditIInv ==
  ASSUME IInv, NEW c \in Credits, SaveCredit(c)
  PROVE  IInv'
  <1>1. TypeOK /\ RefInv /\ PaidInv /\ RecordInv /\ SpentOnce /\ AddInv
    BY DEF IInv
  <1>2. PICK p \in Purchases : /\ credit[c] # Idle /\ credit[c].of = p
                              /\ credit[c].pc \in {"added", "error"} /\ credit[c].tx \in Nat
    BY <1>1, CreditRecord DEF SaveCredit
  <1>3. After(c, Idle) /\ Idle.pc = "idle"
        /\ UNCHANGED <<recon, push, delivery, prompts, chain, confirmed>>
    BY DEF SaveCredit, After, Idle
  <1>4. /\ purchase' \in [Purchases -> Documents]
        /\ \A q \in Purchases \ {p} : purchase'[q] = purchase[q]
        /\ purchase'[p].status = "credited" /\ purchase'[p].tx = credit[c].tx
        /\ purchase'[p].added <=> credit[c].pc = "added"
        /\ purchase'[p].error <=> credit[c].pc # "added"
    <2>1. CASE credit[c].pc = "added"
      <3> DEFINE new == [purchase[p] EXCEPT !.status = "credited", !.tx = credit[c].tx,
                                            !.added = TRUE, !.error = FALSE]
      <3>1. purchase' = [purchase EXCEPT ![p] = new]
        BY <1>2, <2>1 DEF SaveCredit
      <3>2. /\ new \in Documents /\ new.status = "credited" /\ new.tx = credit[c].tx
            /\ new.added = TRUE /\ new.error = FALSE
        <4>1. purchase[p] \in Documents
          BY <1>1, <1>2 DEF TypeOK
        <4> QED BY <1>2, <4>1 DEF Documents, Status
      <3> QED BY <1>1, <2>1, <3>1, <3>2 DEF TypeOK
    <2>2. CASE credit[c].pc # "added"
      <3> DEFINE new == [purchase[p] EXCEPT !.status = "credited", !.tx = credit[c].tx,
                                            !.added = FALSE, !.error = TRUE]
      <3>1. purchase' = [purchase EXCEPT ![p] = new]
        BY <1>2, <2>2 DEF SaveCredit
      <3>2. /\ new \in Documents /\ new.status = "credited" /\ new.tx = credit[c].tx
            /\ new.added = FALSE /\ new.error = TRUE
        <4>1. purchase[p] \in Documents
          BY <1>1, <1>2 DEF TypeOK
        <4> QED BY <1>2, <4>1 DEF Documents, Status
      <3> QED BY <1>1, <2>2, <3>1, <3>2 DEF TypeOK
    <2> QED BY <2>1, <2>2
  <1>5. TypeOK'
    BY <1>1, <1>3, <1>4, AfterMoves DEF TypeOK, chain
  <1>6. PaidInv'
    <2>1. WasPaid(p)
      BY <1>1, <1>2 DEF PaidInv
    <2> QED BY <1>1, <1>3, <1>4, <2>1, PaidStays DEF PaidInv, chain
  <1>7. RecordInv'
    <2>1. \A w \in Credits : credit'[w] = IF w = c THEN Idle ELSE credit[w]
      BY <1>1, <1>3, AfterMoves
    <2>2. /\ credit[c].tx > 0 /\ credit[c].tx <= transfers[p]
          /\ credit[c].pc = "added" => adds[p] > 0
          /\ credit[c].pc # "added" => recon[p] # "none"
      BY <1>1, <1>2 DEF RecordInv
    <2> QED BY <1>1, <1>3, <1>4, <2>1, <2>2 DEF RecordInv, chain
  <1>8. SpentOnce' /\ AddInv'
    BY <1>1, <1>3, <1>4, CountsStay
  <1> QED BY <1>1, <1>3, <1>5, <1>6, <1>7, <1>8, PushStays DEF IInv
-----------------------------------------------------------------------------
(* The other handlers, and the theorems.                                   *)

\* A step that leaves the /credit requests, the coins and the truth of the
\* documents alone keeps the invariant, if it confirms nothing unpaid.
LEMMA OtherIInv ==
  ASSUME IInv, TypeOK', RefInv', UNCHANGED <<recon, credit, chain>>,
         \A p \in Purchases : WasPaid(p) => WasPaid(p)',
         \A d \in Deliveries : delivery'[d] # Idle /\ delivery'[d].ok => WasPaid(delivery[d].of)',
         \A p \in Purchases :
           /\ purchase'[p].status = "confirmed" =>
                \/ purchase[p].status = "confirmed" /\ confirmed'[p] >= confirmed[p]
                \/ WasPaid(p) /\ confirmed'[p] >= confirmed[p] + 1
           /\ purchase'[p].status # "confirmed" => confirmed'[p] >= confirmed[p]
           /\ \A status \in {"processing", "credited"} :
                purchase'[p].status = status => purchase[p].status = status
           /\ purchase'[p].tx = purchase[p].tx
           /\ purchase'[p].added = purchase[p].added /\ purchase'[p].error = purchase[p].error
  PROVE  IInv'
  <1>1. TypeOK /\ RefInv /\ PaidInv /\ RecordInv /\ SpentOnce /\ AddInv
    BY DEF IInv
  <1>2. PaidInv'
    <2>1. ASSUME NEW p \in Purchases,
                 purchase'[p].status \in {"confirmed", "processing", "credited"} \/ transfers'[p] > 0
          PROVE  WasPaid(p)'
      BY <1>1, <2>1 DEF PaidInv, chain
    <2>2. ASSUME NEW c \in Credits, credit[c] # Idle PROVE WasPaid(credit[c].of)'
      <3>1. PICK p \in Purchases : credit[c].of = p
        BY <1>1, <2>2, CreditRecord
      <3>2. WasPaid(p)'
        BY <1>1, <2>2, <3>1 DEF PaidInv
      <3>3. credit'[c].of = p
        BY <3>1
      <3> QED BY <3>2, <3>3 DEF WasPaid
    <2> QED BY <2>1, <2>2 DEF PaidInv
  <1>3. RecordInv'
    BY <1>1 DEF RecordInv, chain
  <1>4. \A p \in Purchases : \A pc : CreditsAt(p, pc)' = CreditsAt(p, pc)
    BY DEF CreditsAt
  <1>5. SpentOnce'
    <2> SUFFICES ASSUME NEW p \in Purchases
                 PROVE  transfers[p] + Cardinality(CreditsAt(p, "transfer"))
                          + (IF purchase'[p].status = "confirmed" THEN 1 ELSE 0) <= confirmed'[p]
      BY <1>4 DEF SpentOnce, chain
    <2>1. /\ transfers[p] \in Nat /\ confirmed[p] \in Nat /\ confirmed'[p] \in Nat
          /\ Cardinality(CreditsAt(p, "transfer")) \in Nat
      BY <1>1, CountIsNat DEF TypeOK
    <2>2. transfers[p] + Cardinality(CreditsAt(p, "transfer"))
            + (IF purchase[p].status = "confirmed" THEN 1 ELSE 0) <= confirmed[p]
      BY <1>1 DEF SpentOnce
    <2> QED BY <2>1, <2>2
  <1>6. AddInv'
    BY <1>1, <1>4 DEF AddInv, chain
  <1> QED BY <1>2, <1>3, <1>5, <1>6 DEF IInv
\* Requests for a prompt: a paid prompt stays paid, no purchase becomes confirmed.
LEMMA PushIInv ==
  ASSUME IInv, NEW u \in Pushes, (\E p \in Purchases : Push(u, p)) \/ PushStep(u)
  PROVE  IInv'
  <1>1. TypeOK /\ RefInv /\ PaidInv
    BY DEF IInv
  <1>2. TypeOK' /\ RefInv'
    BY <1>1, PushTypeOK
  <1>3. UNCHANGED <<recon, delivery, credit, chain, confirmed>>
    BY DEF Push, PushStep, SendPrompt, PushEnds, SavePrompt
  <1>4. \A p \in Purchases : WasPaid(p) => WasPaid(p)'
    <2>1. CASE UNCHANGED prompts
      BY <2>1 DEF WasPaid
    <2>2. CASE SendPrompt(u)
      <3>1. PICK q \in Purchases : prompts' = [prompts EXCEPT ![q] = Append(@, "sent")]
        BY <1>1, <2>2, PushRecord DEF SendPrompt
      <3>2. ASSUME NEW p \in Purchases, NEW k \in DOMAIN prompts[p], prompts[p][k] = "paid"
            PROVE  k \in DOMAIN prompts'[p] /\ prompts'[p][k] = "paid"
        <4>1. prompts[p] \in Seq({"sent", "paid", "declined"})
          BY <1>1 DEF TypeOK
        <4>2. prompts'[p] = prompts[p] \/ prompts'[p] = Append(prompts[p], "sent")
          BY <1>1, <3>1 DEF TypeOK
        <4> QED BY <3>2, <4>1, <4>2
      <3> QED BY <3>2 DEF WasPaid
    <2> QED BY <2>1, <2>2 DEF Push, PushStep, PushEnds, SavePrompt
  <1>5. \A p \in Purchases :
          /\ purchase'[p].status = purchase[p].status \/ purchase'[p].status = "payment_initiated"
          /\ purchase'[p].tx = purchase[p].tx
          /\ purchase'[p].added = purchase[p].added /\ purchase'[p].error = purchase[p].error
    <2>1. CASE UNCHANGED purchase
      BY <2>1
    <2>2. CASE SavePrompt(u)
      <3> DEFINE q == push[u].of
                 new == [purchase[q] EXCEPT !.status = "payment_initiated",
                                            !.ids = @ \cup {push[u].ref}]
      <3>1. q \in Purchases
        BY <1>1, <2>2, PushRecord DEF SavePrompt
      <3>2. purchase' = [purchase EXCEPT ![q] = new]
        BY <2>2 DEF SavePrompt
      <3>3. purchase[q] \in Documents
        BY <1>1, <3>1 DEF TypeOK
      <3>4. /\ new.status = "payment_initiated" /\ new.tx = purchase[q].tx
            /\ new.added = purchase[q].added /\ new.error = purchase[q].error
        BY <3>3 DEF Documents
      <3> QED BY <1>1, <3>1, <3>2, <3>4 DEF TypeOK
    <2> QED BY <2>1, <2>2 DEF Push, PushStep, PushEnds, SendPrompt
  <1>6. \A p \in Purchases : confirmed'[p] >= confirmed[p]
    BY <1>1, <1>3 DEF TypeOK
  <1>7. \A d \in Deliveries : delivery'[d] # Idle /\ delivery'[d].ok => WasPaid(delivery[d].of)'
    <2> SUFFICES ASSUME NEW d \in Deliveries, delivery[d] # Idle, delivery[d].ok
                 PROVE  WasPaid(delivery[d].of)'
      BY <1>3
    <2>1. PICK p \in Purchases : delivery[d].of = p
      BY <1>1, DeliveryRecord
    <2>2. WasPaid(p)'
      BY <1>1, <1>4, <2>1 DEF PaidInv
    <2>3. delivery'[d].of = p
      BY <1>3, <2>1
    <2> QED BY <2>2, <2>3 DEF WasPaid
  <1> QED BY <1>2, <1>3, <1>4, <1>5, <1>6, <1>7, OtherIInv
\* Deliveries: a success comes from a paid prompt, and confirms what it is saved to.
LEMMA DeliveryIInv ==
  ASSUME IInv, NEW d \in Deliveries,
         (\E p \in Purchases, k \in 1..MaxPrompts : Callback(d, p, k)) \/ DeliveryStep(d)
  PROVE  IInv'
  <1>1. TypeOK /\ RefInv /\ PaidInv
    BY DEF IInv
  <1>2. TypeOK' /\ RefInv'
    BY <1>1, DeliveryTypeOK, PushStays
  <1>3. UNCHANGED <<recon, credit, chain, prompts>>
    BY DEF Callback, DeliveryStep, SaveResult, DeliveryEnds
  <1>4. \A p : WasPaid(p)' <=> WasPaid(p)
    BY <1>3 DEF WasPaid
  <1>5. ASSUME NEW w \in Deliveries, delivery'[w] # Idle, delivery'[w].ok
        PROVE  WasPaid(delivery'[w].of)
    <2>1. CASE delivery'[w] = delivery[w]
      BY <1>1, <1>5, <2>1 DEF PaidInv
    <2>2. ASSUME NEW p \in Purchases, NEW k \in 1..MaxPrompts, Callback(d, p, k), w = d
          PROVE  WasPaid(delivery'[w].of)
      <3> DEFINE r == [pc |-> "save", of |-> p, ok |-> prompts[p][k] = "paid"]
      <3>1. delivery'[w] = r /\ k \in DOMAIN prompts[p]
        BY <1>1, <2>2 DEF Callback, TypeOK
      <3>2. r.of = p /\ (r.ok <=> prompts[p][k] = "paid")
        OBVIOUS
      <3>3. prompts[p][k] = "paid" /\ delivery'[w].of = p
        BY <1>5, <3>1, <3>2
      <3> QED BY <3>1, <3>3 DEF WasPaid
    <2>3. CASE SaveResult(d) \/ DeliveryEnds(d)
      BY <1>1, <1>5, <2>1, <2>3 DEF SaveResult, DeliveryEnds, TypeOK
    <2> QED BY <1>1, <2>1, <2>2, <2>3 DEF Callback, DeliveryStep, TypeOK
  <1>6. ASSUME NEW p \in Purchases
        PROVE  /\ purchase'[p].status = "confirmed" =>
                    \/ purchase[p].status = "confirmed" /\ confirmed'[p] >= confirmed[p]
                    \/ WasPaid(p) /\ confirmed'[p] >= confirmed[p] + 1
               /\ purchase'[p].status # "confirmed" => confirmed'[p] >= confirmed[p]
               /\ \A status \in {"processing", "credited"} :
                    purchase'[p].status = status => purchase[p].status = status
               /\ purchase'[p].tx = purchase[p].tx
               /\ purchase'[p].added = purchase[p].added /\ purchase'[p].error = purchase[p].error
    <2>0. confirmed[p] \in Nat /\ confirmed[p] >= confirmed[p]
      BY <1>1 DEF TypeOK
    <2>1. CASE UNCHANGED <<purchase, confirmed>>
      BY <2>0, <2>1
    <2>2. CASE SaveResult(d)
      <3>1. PICK q \in Purchases, status \in {"confirmed", "failed"} :
              /\ SaveStatus(q, status)
              /\ status = "confirmed" => WasPaid(q) /\ confirmed' = [confirmed EXCEPT ![q] = @ + 1]
              /\ status = "failed" => UNCHANGED confirmed
        BY <1>1, <2>2, DeliveryRecord DEF SaveResult, PaidInv
      <3>2. CASE p # q
        BY <1>1, <2>0, <3>1, <3>2 DEF SaveStatus, TypeOK
      <3>3. CASE p = q
        <4> DEFINE new == [purchase[p] EXCEPT !.status = status]
        <4>1. purchase[p] \in Documents
          BY <1>1 DEF TypeOK
        <4>2. /\ new.status = status /\ new.tx = purchase[p].tx
              /\ new.added = purchase[p].added /\ new.error = purchase[p].error
          BY <4>1 DEF Documents
        <4>3. purchase'[p] = new
          BY <1>1, <3>1, <3>3 DEF SaveStatus, TypeOK
        <4>4. CASE status = "confirmed"
          <5>1. confirmed'[p] = confirmed[p] + 1 /\ WasPaid(p)
            BY <1>1, <3>1, <3>3, <4>4 DEF TypeOK
          <5>2. confirmed'[p] >= confirmed[p] + 1
            BY <2>0, <5>1
          <5> QED BY <4>2, <4>3, <4>4, <5>1, <5>2
        <4>5. CASE status = "failed"
          BY <2>0, <3>1, <4>2, <4>3, <4>5
        <4> QED BY <4>4, <4>5
      <3> QED BY <3>2, <3>3
    <2> QED BY <2>1, <2>2 DEF Callback, DeliveryStep, DeliveryEnds
  <1>7. \A w \in Deliveries : delivery'[w] # Idle /\ delivery'[w].ok => WasPaid(delivery[w].of)'
    BY <1>3, <1>5 DEF WasPaid
  <1> QED BY <1>2, <1>3, <1>4, <1>6, <1>7, OtherIInv

\* A new purchase was neither paid nor confirmed.
LEMMA ReserveIInv ==
  ASSUME IInv, NEW q \in Purchases, Reserve(q)
  PROVE  IInv'
  <1>1. TypeOK /\ RefInv /\ PaidInv
    BY DEF IInv
  <1>2. UNCHANGED <<recon, push, delivery, credit, prompts, chain, confirmed>>
    BY DEF Reserve, handlers
  <1>3. TypeOK' /\ RefInv'
    <2>1. purchase' \in [Purchases -> Documents]
      BY <1>1, StatusTypeOK DEF Reserve, Status
    <2> QED BY <1>1, <1>2, <2>1, PushStays DEF TypeOK, chain
  <1>4. \A p : WasPaid(p)' <=> WasPaid(p)
    BY <1>2 DEF WasPaid
  <1>5. ASSUME NEW p \in Purchases
        PROVE  /\ purchase'[p].status = purchase[p].status \/ purchase'[p].status = "pending"
               /\ purchase'[p].tx = purchase[p].tx
               /\ purchase'[p].added = purchase[p].added /\ purchase'[p].error = purchase[p].error
    <2> DEFINE new == [purchase[p] EXCEPT !.status = "pending"]
    <2>1. purchase[p] \in Documents
      BY <1>1 DEF TypeOK
    <2>2. /\ new.status = "pending" /\ new.tx = purchase[p].tx
          /\ new.added = purchase[p].added /\ new.error = purchase[p].error
      BY <2>1 DEF Documents
    <2>3. purchase'[p] = purchase[p] \/ purchase'[p] = new
      BY <1>1 DEF Reserve, SaveStatus, TypeOK
    <2> QED BY <2>2, <2>3
  <1>6. \A p \in Purchases : confirmed'[p] >= confirmed[p]
    BY <1>1, <1>2 DEF TypeOK
  <1>7. \A d \in Deliveries : delivery'[d] # Idle /\ delivery'[d].ok => WasPaid(delivery[d].of)'
    BY <1>1, <1>2 DEF PaidInv, WasPaid
  <1> QED BY <1>2, <1>3, <1>4, <1>5, <1>6, <1>7, OtherIInv

\* The buyer's answer takes no payment back.
LEMMA AnswerIInv ==
  ASSUME IInv, NEW q \in Purchases, NEW k \in 1..MaxPrompts, Answer(q, k)
  PROVE  IInv'
  <1>1. TypeOK /\ RefInv /\ PaidInv
    BY DEF IInv
  <1>2. UNCHANGED <<purchase, recon, push, delivery, credit, chain, confirmed>>
    BY DEF Answer, handlers
  <1>3. PICK answer \in {"paid", "declined"} : prompts' = [prompts EXCEPT ![q][k] = answer]
    BY DEF Answer
  <1>4. TypeOK' /\ RefInv'
    <2> DEFINE new == [prompts[q] EXCEPT ![k] = answer]
    <2>1. prompts[q] \in Seq({"sent", "paid", "declined"}) /\ k \in DOMAIN prompts[q]
      BY <1>1 DEF TypeOK, Answer
    <2>2. new \in Seq({"sent", "paid", "declined"})
      BY <2>1
    <2>3. prompts' \in [Purchases -> Seq({"sent", "paid", "declined"})]
      BY <1>1, <1>3, <2>2 DEF TypeOK
    <2> QED BY <1>1, <1>2, <2>3, PushStays DEF TypeOK, chain
  <1>5. ASSUME NEW p \in Purchases, WasPaid(p) PROVE WasPaid(p)'
    <2>1. PICK j \in DOMAIN prompts[p] : prompts[p][j] = "paid"
      BY <1>5 DEF WasPaid
    <2>2. prompts[q][k] # "paid"
      BY DEF Answer
    <2>3. j \in DOMAIN prompts'[p] /\ prompts'[p][j] = "paid"
      BY <1>1, <1>3, <2>1, <2>2 DEF TypeOK
    <2> QED BY <2>3 DEF WasPaid
  <1>6. \A p \in Purchases : confirmed'[p] >= confirmed[p]
    BY <1>1, <1>2 DEF TypeOK
  <1>7. ASSUME NEW d \in Deliveries, delivery'[d] # Idle, delivery'[d].ok
        PROVE  WasPaid(delivery[d].of)'
    <2>1. PICK p \in Purchases : delivery[d].of = p
      BY <1>1, <1>2, <1>7, DeliveryRecord
    <2>2. WasPaid(p)'
      BY <1>1, <1>2, <1>5, <1>7, <2>1 DEF PaidInv
    <2>3. delivery'[d].of = p
      BY <1>2, <2>1
    <2> QED BY <2>2, <2>3 DEF WasPaid
  <1> QED BY <1>2, <1>4, <1>5, <1>6, <1>7, OtherIInv

\* A resolved item stays on the list.
LEMMA ResolveIInv ==
  ASSUME IInv, NEW q \in Purchases, ResolveReconciliation(q)
  PROVE  IInv'
  <1>1. UNCHANGED <<purchase, push, delivery, credit, prompts, chain, confirmed>>
    BY DEF ResolveReconciliation, handlers
  <1>2. TypeOK /\ RefInv /\ PaidInv /\ RecordInv /\ SpentOnce /\ AddInv
    BY DEF IInv
  <1>3. /\ recon' \in [Purchases -> ReconStatus]
        /\ \A p \in Purchases : recon[p] # "none" => recon'[p] # "none"
    BY <1>2 DEF ResolveReconciliation, TypeOK, ReconStatus
  <1>4. TypeOK' /\ RefInv'
    BY <1>1, <1>2, <1>3, PushStays DEF TypeOK, chain
  <1>5. PaidInv'
    BY <1>1, <1>2 DEF PaidInv, WasPaid, chain
  <1>6. RecordInv'
    <2>1. ASSUME NEW c \in Credits, credit[c].pc = "error" PROVE recon'[credit[c].of] # "none"
      BY <1>2, <1>3, <2>1, CreditRecord DEF RecordInv
    <2> QED BY <1>1, <1>2, <1>3, <2>1 DEF RecordInv, chain
  <1>7. SpentOnce' /\ AddInv'
    BY <1>1, <1>2 DEF SpentOnce, AddInv, CreditsAt, chain
  <1> QED BY <1>4, <1>5, <1>6, <1>7 DEF IInv

\* Nothing has happened yet.
LEMMA InitIInv == Init => IInv
  <1> SUFFICES ASSUME Init PROVE IInv
    OBVIOUS
  <1>1. TypeOK
    BY InitTypeOK
  <1>2. Idle.pc = "idle"
    BY DEF Idle
  <1>3. /\ \A p \in Purchases : /\ purchase[p].status = "none" /\ purchase[p].tx = 0
                               /\ purchase[p].added = FALSE /\ purchase[p].error = FALSE
                               /\ transfers[p] = 0 /\ adds[p] = 0 /\ confirmed[p] = 0
        /\ \A u \in Pushes : push[u].pc = "idle"
        /\ \A d \in Deliveries : delivery[d] = Idle
        /\ \A c \in Credits : credit[c] = Idle /\ credit[c].pc = "idle"
    BY <1>2 DEF Init, NoPurchase
  <1>4. RefInv /\ PaidInv /\ RecordInv
    <2>1. RefInv
      BY <1>3 DEF RefInv
    <2>2. PaidInv
      <3>1. \A p \in Purchases : ~(purchase[p].status \in {"confirmed", "processing", "credited"})
        BY <1>3
      <3>2. \A p \in Purchases : ~(transfers[p] > 0)
        BY <1>3
      <3> QED BY <1>3, <3>1, <3>2 DEF PaidInv
    <2>3. RecordInv
      <3>1. \A p \in Purchases : purchase[p].tx <= transfers[p] /\ purchase[p].status # "credited"
        BY <1>3
      <3>2. \A c \in Credits : credit[c].pc \notin {"liquidity", "added", "not added", "error"}
        BY <1>3
      <3> QED BY <1>3, <3>1, <3>2 DEF RecordInv
    <2> QED BY <2>1, <2>2, <2>3
  <1>5. \A p \in Purchases : /\ Cardinality(CreditsAt(p, "transfer")) = 0
                            /\ Cardinality(CreditsAt(p, "liquidity")) = 0
    <2>1. \A p \in Purchases : CreditsAt(p, "transfer") = {} /\ CreditsAt(p, "liquidity") = {}
      BY <1>3 DEF CreditsAt
    <2> QED BY <2>1, FS_EmptySet
  <1>6. SpentOnce /\ AddInv
    BY <1>3, <1>5 DEF SpentOnce, AddInv
  <1> QED BY <1>1, <1>4, <1>6 DEF IInv

\* Every step keeps the invariant.
LEMMA NextIInv == IInv /\ [Next]_vars => IInv'
  <1> SUFFICES ASSUME IInv, [Next]_vars PROVE IInv'
    OBVIOUS
  <1>1. CASE UNCHANGED vars
    BY <1>1 DEF vars, handlers, chain, IInv, TypeOK, RefInv, PaidInv, RecordInv, SpentOnce, AddInv,
                CreditsAt, WasPaid
  <1>2. ASSUME NEW p \in Purchases, Reserve(p) \/ ResolveReconciliation(p) PROVE IInv'
    BY <1>2, ReserveIInv, ResolveIInv
  <1>3. ASSUME NEW p \in Purchases, NEW k \in 1..MaxPrompts, Answer(p, k) PROVE IInv'
    BY <1>3, AnswerIInv
  <1>4. ASSUME NEW u \in Pushes, (\E p \in Purchases : Push(u, p)) \/ PushStep(u) PROVE IInv'
    BY <1>4, PushIInv
  <1>5. ASSUME NEW d \in Deliveries,
               (\E p \in Purchases, k \in 1..MaxPrompts : Callback(d, p, k)) \/ DeliveryStep(d)
        PROVE  IInv'
    BY <1>5, DeliveryIInv
  <1>6. ASSUME NEW c \in Credits, (\E p \in Purchases : Credit(c, p)) \/ CreditStep(c) PROVE IInv'
    <2>1. CreditEnds(c) => IInv'
      BY EndsIInv DEF CreditEnds
    <2> QED BY <1>6, <2>1, CreditIInv, ClaimIInv, TransferIInv, AddLiquidityIInv, EnsureIInv,
               SaveCreditIInv DEF CreditStep
  <1> QED BY <1>1, <1>2, <1>3, <1>4, <1>5, <1>6 DEF Next

\* The inductive invariant holds in every state the buy flow can reach.
THEOREM Invariance == Spec => []IInv
  BY InitIInv, NextIInv, PTL DEF Spec

\* Every stored status, record and program counter is one of its kind.
THEOREM BuyFlowTypeOK == Spec => []TypeOK
  <1>1. IInv => TypeOK
    BY DEF IInv
  <1> QED BY <1>1, Invariance, PTL

\* However many /credit requests race, a confirmation buys one transfer at most.
THEOREM BuyFlowSpentOnce == Spec => []SpentOnce
  <1>1. IInv => SpentOnce
    BY DEF IInv
  <1> QED BY <1>1, Invariance, PTL

\* Coins move only to buyers who have paid a prompt of that purchase.
THEOREM BuyFlowCreditWasPaid == Spec => []CreditWasPaid
  <1>1. IInv => CreditWasPaid
    BY DEF IInv, PaidInv, CreditWasPaid
  <1> QED BY <1>1, Invariance, PTL

\* Hash, liquidity and failure on record are those of the chain.
THEOREM BuyFlowTruthfulRecord == Spec => []TruthfulRecord
  <1>1. IInv => TruthfulRecord
    <2> SUFFICES ASSUME IInv, NEW p \in Purchases
                 PROVE  /\ purchase[p].tx <= transfers[p]
                        /\ purchase[p].status = "credited" => purchase[p].tx > 0
                        /\ purchase[p].added => adds[p] > 0
                        /\ adds[p] <= transfers[p]
      BY DEF TruthfulRecord
    <2>1. /\ adds[p] \in Nat /\ transfers[p] \in Nat
          /\ Cardinality(CreditsAt(p, "liquidity")) \in Nat
      BY CountIsNat DEF IInv, TypeOK
    <2>2. adds[p] + Cardinality(CreditsAt(p, "liquidity")) <= transfers[p]
      BY DEF IInv, AddInv
    <2>3. adds[p] <= transfers[p]
      BY <2>1, <2>2
    <2> QED BY <2>3 DEF IInv, RecordInv
  <1> QED BY <1>1, Invariance, PTL

\* A failed liquidity add is always on the administrator's list.
THEOREM BuyFlowFailureIsListed == Spec => []FailureIsListed
  <1>1. IInv => FailureIsListed
    BY DEF IInv, RecordInv, FailureIsListed
  <1> QED BY <1>1, Invariance, PTL
=============================================================================
