------------------------------- MODULE BuyFlow ------------------------------
(***************************************************************************)
(* Buying MLCN with M-Pesa: POST /reserve, POST /mpesa with the prompt it  *)
(* sends to the buyer's phone, the provider's callback and its repetition, *)
(* POST /credit with the transfer and the liquidity it adds, and the       *)
(* administrator's record of a failed liquidity add.                       *)
(*                                                                         *)
(* A handler's steps end at its awaits, and between two of them anybody    *)
(* else may act on the document it has read; its save writes the fields it *)
(* has assigned.  A purchase is of a positive amount; whether the gate of  *)
(* direct buying, the provider and the chain allow a step is the           *)
(* environment's choice.                                                   *)
(***************************************************************************)
EXTENDS Integers, Sequences, FiniteSets

CONSTANTS Purchases,   \* MallcoinPurchase documents, named by their quoteId
          Pushes,      \* POST /mpesa requests that may be in progress at once
          Deliveries,  \* callback deliveries, live or replayed, in progress at once
          Credits,     \* POST /credit requests that may be in progress at once
          MaxPrompts   \* bound: prompts Safaricom sends for a purchase

ASSUME BuyFlowAssumption == MaxPrompts \in Nat /\ IsFiniteSet(Credits)

VARIABLES
    purchase,  \* MallcoinPurchase: status, paymentIds, txHash (0: none), liquidityAdded,
               \* liquidityError
    recon,     \* LiquidityReconciliation of a purchase: its status
    push,      \* a /mpesa request in progress: the purchase, the prompt it was told of
    delivery,  \* a callback in progress: the purchase it has read, the result it brings
    credit,    \* a /credit request in progress: the purchase, the transfer it has made
    prompts,   \* Safaricom: the prompts of a purchase and what the buyer did
    transfers, \* chain: transfers of MLCN to the buyer of a purchase
    adds,      \* chain: liquidity added for a purchase
    confirmed  \* history: how often a purchase was saved as confirmed

handlers == <<push, delivery, credit>>
chain == <<transfers, adds>>
vars == <<purchase, recon, handlers, prompts, chain, confirmed>>

Status == {"none", "pending", "payment_initiated", "confirmed", "processing", "credited", "failed"}
ReconStatus == {"none", "detected", "resolved"}
Terminal == {"confirmed", "failed", "processing", "credited"}

Idle == [pc |-> "idle"]
NoPurchase == [status |-> "none", ids |-> {}, tx |-> 0, added |-> FALSE, error |-> FALSE]

Documents == [status : Status, ids : SUBSET (1..MaxPrompts), tx : Nat,
              added : BOOLEAN, error : BOOLEAN]
Pushing == [pc : {"post", "save"}, of : Purchases, ref : 0..MaxPrompts]
Delivering == [pc : {"save"}, of : Purchases, ok : BOOLEAN]
Crediting == [pc : {"claim", "transfer", "liquidity", "added", "not added", "error"},
              of : Purchases, tx : Nat]

TypeOK ==
    /\ purchase \in [Purchases -> Documents]
    /\ recon \in [Purchases -> ReconStatus]
    /\ push \in [Pushes -> {Idle} \cup Pushing]
    /\ delivery \in [Deliveries -> {Idle} \cup Delivering]
    /\ credit \in [Credits -> {Idle} \cup Crediting]
    /\ prompts \in [Purchases -> Seq({"sent", "paid", "declined"})]
    /\ transfers \in [Purchases -> Nat] /\ adds \in [Purchases -> Nat]
    /\ confirmed \in [Purchases -> Nat]

Init ==
    /\ purchase = [p \in Purchases |-> NoPurchase]
    /\ recon = [p \in Purchases |-> "none"]
    /\ push = [u \in Pushes |-> Idle]
    /\ delivery = [d \in Deliveries |-> Idle]
    /\ credit = [c \in Credits |-> Idle]
    /\ prompts = [p \in Purchases |-> <<>>]
    /\ transfers = [p \in Purchases |-> 0] /\ adds = [p \in Purchases |-> 0]
    /\ confirmed = [p \in Purchases |-> 0]

SaveStatus(p, status) == purchase' = [purchase EXCEPT ![p].status = status]

-----------------------------------------------------------------------------
(* POST /reserve and POST /mpesa.                                          *)

Reserve(p) ==
    /\ purchase[p].status = "none"
    /\ SaveStatus(p, "pending")
    /\ UNCHANGED <<recon, handlers, prompts, chain, confirmed>>

\* A purchase past pending is answered as a duplicate.
Push(u, p) ==
    /\ push[u] = Idle /\ purchase[p].status = "pending"
    /\ push' = [push EXCEPT ![u] = [pc |-> "post", of |-> p, ref |-> 0]]
    /\ UNCHANGED <<purchase, recon, delivery, credit, prompts, chain, confirmed>>

\* MUTANT: a prompt without an answer is recorded as if it had one.
SendPromptUnanswered(u) ==
    /\ push[u].pc = "post"
    /\ LET p == push[u].of  ref == Len(prompts[p]) + 1 IN
         /\ ref <= MaxPrompts
         /\ prompts' = [prompts EXCEPT ![p] = Append(@, "sent")]
         /\ \E told \in {0, ref} :
              push' = [push EXCEPT ![u] = [pc |-> "save", of |-> p, ref |-> told]]
    /\ UNCHANGED <<purchase, recon, delivery, credit, chain, confirmed>>

\* The prompt goes out; its answer comes, or is lost and the POST repeated.
SendPrompt(u) ==
    /\ push[u].pc = "post"
    /\ LET p == push[u].of  ref == Len(prompts[p]) + 1 IN
         /\ ref <= MaxPrompts
         /\ prompts' = [prompts EXCEPT ![p] = Append(@, "sent")]
         /\ \/ push' = [push EXCEPT ![u] = [pc |-> "save", of |-> p, ref |-> ref]]
            \/ UNCHANGED push
    /\ UNCHANGED <<purchase, recon, delivery, credit, chain, confirmed>>

\* No token, a refusal, the last lost answer, or the end of the process.
PushEnds(u) ==
    /\ push[u] # Idle
    /\ push' = [push EXCEPT ![u] = Idle]
    /\ UNCHANGED <<purchase, recon, delivery, credit, prompts, chain, confirmed>>

\* The purchase was read before the prompt was sent.
SavePrompt(u) ==
    /\ push[u].pc = "save"
    /\ LET p == push[u].of IN
         purchase' = [purchase EXCEPT ![p].status = "payment_initiated",
                                      ![p].ids = @ \cup {push[u].ref}]
    /\ push' = [push EXCEPT ![u] = Idle]
    /\ UNCHANGED <<recon, delivery, credit, prompts, chain, confirmed>>

-----------------------------------------------------------------------------
(* processMpesaCallback, live or replayed from the dead-letter queue.      *)

\* The buyer answers a prompt.
Answer(p, k) ==
    /\ k \in DOMAIN prompts[p] /\ prompts[p][k] = "sent"
    /\ \E answer \in {"paid", "declined"} : prompts' = [prompts EXCEPT ![p][k] = answer]
    /\ UNCHANGED <<purchase, recon, handlers, chain, confirmed>>

\* The result of a prompt the purchase does not know, or of a purchase past
\* payment_initiated, is acknowledged and dropped.
Callback(d, p, k) ==
    /\ delivery[d] = Idle
    /\ k \in DOMAIN prompts[p] /\ prompts[p][k] # "sent"
    /\ k \in purchase[p].ids
    /\ purchase[p].status \notin Terminal
    /\ delivery' = [delivery EXCEPT ![d] = [pc |-> "save", of |-> p, ok |-> prompts[p][k] = "paid"]]
    /\ UNCHANGED <<purchase, recon, push, credit, prompts, chain, confirmed>>

\* MUTANT: the result code is not looked at.
SaveResultOfAny(d) ==
    /\ delivery[d] # Idle
    /\ LET p == delivery[d].of IN
         /\ SaveStatus(p, "confirmed")
         /\ confirmed' = [confirmed EXCEPT ![p] = @ + 1]
    /\ delivery' = [delivery EXCEPT ![d] = Idle]
    /\ UNCHANGED <<recon, push, credit, prompts, chain>>

SaveResult(d) ==
    /\ delivery[d] # Idle
    /\ LET p == delivery[d].of IN
         \/ /\ delivery[d].ok
            /\ SaveStatus(p, "confirmed")
            /\ confirmed' = [confirmed EXCEPT ![p] = @ + 1]
         \/ /\ ~delivery[d].ok
            /\ SaveStatus(p, "failed")
            /\ UNCHANGED confirmed
    /\ delivery' = [delivery EXCEPT ![d] = Idle]
    /\ UNCHANGED <<recon, push, credit, prompts, chain>>

\* The save throws or the process ends; Safaricom or the queue repeats the result.
DeliveryEnds(d) ==
    /\ delivery[d] # Idle
    /\ delivery' = [delivery EXCEPT ![d] = Idle]
    /\ UNCHANGED <<purchase, recon, push, credit, prompts, chain, confirmed>>

-----------------------------------------------------------------------------
(* handleReservedCredit.                                                   *)

\* One step of a /credit request, to a program counter.
Goto(c, pc) == credit' = [credit EXCEPT ![c].pc = pc]

Credit(c, p) ==
    /\ credit[c] = Idle /\ purchase[p].status = "confirmed"
    /\ credit' = [credit EXCEPT ![c] = [pc |-> "claim", of |-> p, tx |-> 0]]
    /\ UNCHANGED <<purchase, recon, push, delivery, prompts, chain, confirmed>>

\* MUTANT: the status read at the start of the request is not checked again.
ClaimAsRead(c) ==
    /\ credit[c].pc = "claim"
    /\ SaveStatus(credit[c].of, "processing")
    /\ Goto(c, "transfer")
    /\ UNCHANGED <<recon, push, delivery, prompts, chain, confirmed>>

\* Finding the purchase as confirmed and moving it on is one operation.
Claim(c) ==
    /\ credit[c].pc = "claim"
    /\ LET p == credit[c].of IN
         \/ /\ purchase[p].status = "confirmed"
            /\ SaveStatus(p, "processing")
            /\ Goto(c, "transfer")
         \/ /\ purchase[p].status # "confirmed"
            /\ credit' = [credit EXCEPT ![c] = Idle]
            /\ UNCHANGED purchase
    /\ UNCHANGED <<recon, push, delivery, prompts, chain, confirmed>>

\* The transfer is made; the request goes on, or throws after it: the answer,
\* the gas top-up or the balance read fails.
Transfer(c) ==
    /\ credit[c].pc = "transfer"
    /\ LET p == credit[c].of IN
         /\ transfers' = [transfers EXCEPT ![p] = @ + 1]
         /\ credit' \in {[credit EXCEPT ![c] = Idle],
                         [credit EXCEPT ![c].pc = "liquidity", ![c].tx = transfers[p] + 1]}
    /\ UNCHANGED <<purchase, recon, push, delivery, prompts, adds, confirmed>>

\* The request throws or its process ends, before the transfer (no funds, the
\* address in its cooldown) or after it.  Nothing takes the purchase out of
\* processing again.
CreditEnds(c) ==
    /\ credit[c] # Idle
    /\ credit' = [credit EXCEPT ![c] = Idle]
    /\ UNCHANGED <<purchase, recon, push, delivery, prompts, chain, confirmed>>

\* Liquidity is added, with or without an answer, or is not.
AddLiquidity(c) ==
    /\ credit[c].pc = "liquidity"
    /\ \/ /\ adds' = [adds EXCEPT ![credit[c].of] = @ + 1]
          /\ \E pc \in {"added", "not added"} : Goto(c, pc)
       \/ /\ Goto(c, "not added")
          /\ UNCHANGED adds
    /\ UNCHANGED <<purchase, recon, push, delivery, prompts, transfers, confirmed>>

\* MUTANT: the record of the failed add is left to the reconciliation job.
SkipRecord(c) ==
    /\ credit[c].pc = "not added"
    /\ Goto(c, "error")
    /\ UNCHANGED <<purchase, recon, push, delivery, prompts, chain, confirmed>>

\* ensureLiquidityReconciliation: created, or set back to detected.
EnsureReconciliation(c) ==
    /\ credit[c].pc = "not added"
    /\ recon' = [recon EXCEPT ![credit[c].of] = "detected"]
    /\ Goto(c, "error")
    /\ UNCHANGED <<purchase, push, delivery, prompts, chain, confirmed>>

\* MUTANT: the purchase is saved with its liquidity before the add has answered.
SaveCreditEarly(c) ==
    /\ credit[c].pc \in {"liquidity", "added", "error"}
    /\ LET p == credit[c].of  added == credit[c].pc # "error" IN
         purchase' = [purchase EXCEPT ![p].status = "credited", ![p].tx = credit[c].tx,
                                      ![p].added = added, ![p].error = ~added]
    /\ credit' = [credit EXCEPT ![c] = Idle]
    /\ UNCHANGED <<recon, push, delivery, prompts, chain, confirmed>>

\* The one save of the purchase since it was claimed.
SaveCredit(c) ==
    /\ credit[c].pc \in {"added", "error"}
    /\ LET p == credit[c].of  added == credit[c].pc = "added" IN
         purchase' = [purchase EXCEPT ![p].status = "credited", ![p].tx = credit[c].tx,
                                      ![p].added = added, ![p].error = ~added]
    /\ credit' = [credit EXCEPT ![c] = Idle]
    /\ UNCHANGED <<recon, push, delivery, prompts, chain, confirmed>>

\* POST /reconciliation/:id/resolve.  The job that would repeat the liquidity
\* add takes only records it has just created, and a failed add already has one.
ResolveReconciliation(p) ==
    /\ recon[p] = "detected"
    /\ recon' = [recon EXCEPT ![p] = "resolved"]
    /\ UNCHANGED <<purchase, handlers, prompts, chain, confirmed>>

-----------------------------------------------------------------------------

PushStep(u) == SendPrompt(u) \/ PushEnds(u) \/ SavePrompt(u)

DeliveryStep(d) == SaveResult(d) \/ DeliveryEnds(d)

CreditStep(c) == \/ Claim(c) \/ Transfer(c) \/ CreditEnds(c) \/ AddLiquidity(c)
                 \/ EnsureReconciliation(c) \/ SaveCredit(c)

Next ==
    \/ \E p \in Purchases : \/ Reserve(p) \/ ResolveReconciliation(p)
                            \/ \E u \in Pushes : Push(u, p)
                            \/ \E c \in Credits : Credit(c, p)
                            \/ \E k \in 1..MaxPrompts : \/ Answer(p, k)
                                                        \/ \E d \in Deliveries : Callback(d, p, k)
    \/ \E u \in Pushes : PushStep(u)
    \/ \E d \in Deliveries : DeliveryStep(d)
    \/ \E c \in Credits : CreditStep(c)

Spec == Init /\ [][Next]_vars

-----------------------------------------------------------------------------
(* Properties.                                                             *)

\* The /credit requests of p that have come to pc.
CreditsAt(p, pc) == {c \in Credits : credit[c].pc = pc /\ credit[c].of = p}

\* Every time a purchase is saved as confirmed it buys at most one transfer,
\* however many /credit requests race for it, die or are repeated
\* (handleReservedCredit's findOneAndUpdate).
SpentOnce ==
    \A p \in Purchases :
        transfers[p] + Cardinality(CreditsAt(p, "transfer"))
            + (IF purchase[p].status = "confirmed" THEN 1 ELSE 0) <= confirmed[p]

WasPaid(p) == \E k \in DOMAIN prompts[p] : prompts[p][k] = "paid"

\* No coins move to a buyer who has not paid a prompt of that very purchase,
\* whichever prompts were lost, declined or answered out of order (/credit,
\* processMpesaCallback).
CreditWasPaid == \A p \in Purchases : transfers[p] > 0 => WasPaid(p)

\* The purchase document tells the truth about the chain: the hash on record is
\* of a transfer that happened, liquidity shown as added was added, and never
\* for coins that were not credited (the single save of handleReservedCredit).
TruthfulRecord ==
    \A p \in Purchases :
        /\ purchase[p].tx <= transfers[p]
        /\ purchase[p].status = "credited" => purchase[p].tx > 0
        /\ purchase[p].added => adds[p] > 0
        /\ adds[p] <= transfers[p]

\* A purchase whose liquidity failed to be added is on the administrator's list
\* before it says so itself (ensureLiquidityReconciliation).
FailureIsListed == \A p \in Purchases : purchase[p].error => recon[p] # "none"
=============================================================================
