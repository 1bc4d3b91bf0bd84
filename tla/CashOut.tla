------------------------------- MODULE CashOut ------------------------------
(***************************************************************************)
(* The cash-out of the backend: POST /sell, the queue of withdrawals held  *)
(* for liquidity and the scan that releases it, POST /sell/:id/resign, the *)
(* settlement they share (broadcast, burn, Safaricom payout), the payout   *)
(* callback, the status polls and the administrator's retry and resolve.   *)
(*                                                                         *)
(* A handler's steps each end at an await, and between two steps anybody   *)
(* else may act.  A mongoose save writes the fields whose value differs    *)
(* from the one the handler read, so a step assigns fields, never whole    *)
(* documents, and a handler that has read keeps what it read.              *)
(* Whether liquidity, the payout caps and the providers allow a step is    *)
(* the environment's choice; amounts and the burn do not matter here.      *)
(* Every sale is of an account of its own; a signed transaction is named   *)
(* by the account sequence it was signed with, and 0 is no transaction.    *)
(***************************************************************************)
EXTENDS Integers, Sequences, FiniteSets, SequencesExt

CONSTANTS Sales,      \* sales, each with its MallcoinSale and WithdrawalRequest
          Scanners,   \* withdrawalLiquidityWorker instances, one in each replica
          Clients,    \* /resign requests that may be in progress at once
          Admins,     \* /retry and /resolve requests that may be in progress at once
          Deliveries, \* payout callbacks that may be in progress at once
          Polls,      \* polls of a withdrawal that may be in progress at once
          MaxSeq,     \* bound: highest account sequence a transaction is signed with
          MaxPays,    \* bound: payment requests Safaricom accepts for a sale
          MaxFaults   \* bound: handlers that die between two awaits

ASSUME CashOutAssumption ==
    /\ IsFiniteSet(Sales) /\ IsFiniteSet(Scanners) /\ IsFiniteSet(Admins)
    /\ MaxSeq \in Nat \ {0} /\ MaxPays \in Nat /\ MaxFaults \in Nat
    /\ Scanners \cap Sales = {} /\ Admins \cap Sales = {} /\ Admins \cap Scanners = {}

VARIABLES
    sale,       \* MallcoinSale: status, pendingTxBytes
    withdrawal, \* WithdrawalRequest: status, payoutRef (0: none)
    queue,      \* withdrawals that have a queuedAt, in its order
    payout,     \* B2CPayout of a sale: payoutStatus, payoutRef
    run,        \* the settlement a runner is executing: pc, sale, transaction, payment
    todo,       \* withdrawals a scan has read and not handled
    resign,     \* a /resign request in progress
    callback,   \* a delivery in progress: its outcome and what it has yet to write
    poll,       \* a poll in progress: the withdrawal and what it may have to write
    sequence,   \* chain: account sequence
    sold,       \* chain: sell transactions accepted
    payments,   \* Safaricom: payments accepted for a sale and what became of them
    asked,      \* history: settlements that went on to initiateB2CPayout
    resolved,   \* history: withdrawals an administrator declared settled
    faults

documents == <<sale, withdrawal, queue, payout>>
handlers == <<run, todo, resign, callback, poll, faults>>
chainVars == <<sequence, sold>>
history == <<asked, resolved>>
vars == <<documents, handlers, chainVars, payments, history>>

Runners == Sales \cup Scanners \cup Admins   \* the /sell request of i is runner i

SaleStatus == {"none", "pending", "broadcasted", "completed", "failed",
               "queued_liquidity", "resign_required"}
WithdrawalStatus == {"none", "pending_review", "payout_initiated", "completed",
                     "failed", "refunded", "queued_liquidity", "resign_required"}
PayoutStatus == {"none", "initiated", "succeeded", "failed"}
Pcs == {"idle", "created", "hold", "hold withdrawal", "broadcast", "failed", "failed sale",
        "stale", "stale sale", "sold", "burn", "pay", "repay", "review", "paid", "recorded",
        "unpaid", "resolve", "over"}

Seqs == 0..MaxSeq
Refs == 0..MaxPays
Idle == [pc |-> "idle"]

\* The fields of the document it has read that a callback's save will write, and
\* the statuses that a poll's save would.
CallbackPcs == {"payout", "sale", "save sale", "withdrawal", "save withdrawal"}
Paths == {"status", "ref"}
Outcomes == {"completed", "failed"}

TypeOK ==
    /\ sale \in [Sales -> [status : SaleStatus, tx : Seqs]]
    /\ withdrawal \in [Sales -> [status : WithdrawalStatus, ref : Refs]]
    /\ queue \in Seq(Sales) /\ IsInjective(queue)
    /\ payout \in [Sales -> [status : PayoutStatus, ref : Refs]]
    /\ run \in [Runners -> {Idle} \cup [pc : Pcs, of : Sales, tx : Seqs, ref : Refs]]
    /\ todo \in [Scanners -> Seq(Sales)]
    /\ resign \in [Clients -> {Idle} \cup [pc : {"sale", "withdrawal"}, of : Sales, tx : Seqs]]
    /\ callback \in [Deliveries -> {Idle} \cup [pc : CallbackPcs, of : Sales, ref : Refs,
                                               ok : BOOLEAN, writes : SUBSET Paths]]
    /\ poll \in [Polls -> {Idle} \cup [pc : {"payout"}, of : Sales, saves : SUBSET Outcomes]]
    /\ sequence \in [Sales -> 1..(MaxSeq + 1)]
    /\ sold \in [Sales -> Nat]
    /\ payments \in [Sales -> Seq({"accepted", "paid", "refused"})]
    /\ asked \in [Sales -> Nat]
    /\ resolved \in SUBSET Sales /\ faults \in 0..MaxFaults

Init ==
    /\ sale = [i \in Sales |-> [status |-> "none", tx |-> 0]]
    /\ withdrawal = [i \in Sales |-> [status |-> "none", ref |-> 0]]
    /\ queue = <<>>
    /\ payout = [i \in Sales |-> [status |-> "none", ref |-> 0]]
    /\ run = [r \in Runners |-> Idle]
    /\ todo = [s \in Scanners |-> <<>>]
    /\ resign = [c \in Clients |-> Idle]
    /\ callback = [d \in Deliveries |-> Idle]
    /\ poll = [p \in Polls |-> Idle]
    /\ sequence = [i \in Sales |-> 1]
    /\ sold = [i \in Sales |-> 0]
    /\ payments = [i \in Sales |-> <<>>]
    /\ asked = [i \in Sales |-> 0]
    /\ resolved = {} /\ faults = 0

-----------------------------------------------------------------------------
(* Saving a field, and moving a runner on.                                 *)

SaveSale(i, status) == sale' = [sale EXCEPT ![i].status = status]

\* The settlement's save of the sale: the held transaction is cleared with it.
SettleSale(i, status) == sale' = [sale EXCEPT ![i] = [status |-> status, tx |-> 0]]

SaveWithdrawal(i, status) == withdrawal' = [withdrawal EXCEPT ![i].status = status]

SavePayoutRef(i, status, ref) ==
    withdrawal' = [withdrawal EXCEPT ![i] = [status |-> status, ref |-> ref]]

At(r, pc) == run[r].pc = pc
Goto(r, pc) == run' = [run EXCEPT ![r].pc = pc]
Spend(r, pc) == run' = [run EXCEPT ![r].pc = pc, ![r].tx = 0]
Start(r, pc, i, tx) == run' = [run EXCEPT ![r] = [pc |-> pc, of |-> i, tx |-> tx, ref |-> 0]]
End(r) == IF r \in Sales THEN Start(r, "over", r, 0) ELSE run' = [run EXCEPT ![r] = Idle]

\* Most steps of a runner touch its documents only.
OnlyDocuments == UNCHANGED <<payout, todo, resign, callback, poll, faults, chainVars, payments, history>>

-----------------------------------------------------------------------------
(* POST /sell.                                                             *)

\* The client has signed the transaction; the gates have let the request through.
Sell(i) ==
    /\ At(i, "idle") /\ sequence[i] <= MaxSeq
    /\ SaveSale(i, "pending")
    /\ Start(i, "created", i, sequence[i])
    /\ UNCHANGED <<withdrawal, queue>> /\ OnlyDocuments

\* The withdrawal is registered; the liquidity check before it said settle or hold.
Register(i) ==
    /\ At(i, "created")
    /\ SaveWithdrawal(i, "pending_review")
    /\ \E pc \in {"broadcast", "hold"} : Goto(i, pc)
    /\ UNCHANGED <<sale, queue>> /\ OnlyDocuments

\* holdForLiquidity: the sale with the transaction, then the withdrawal.
HoldSale(i) ==
    /\ At(i, "hold")
    /\ sale' = [sale EXCEPT ![i] = [status |-> "queued_liquidity", tx |-> run[i].tx]]
    /\ Goto(i, "hold withdrawal")
    /\ UNCHANGED <<withdrawal, queue>> /\ OnlyDocuments

HoldWithdrawal(i) ==
    /\ At(i, "hold withdrawal")
    /\ SaveWithdrawal(i, "queued_liquidity")
    /\ queue' = Append(queue, i)
    /\ End(i)
    /\ UNCHANGED sale /\ OnlyDocuments

-----------------------------------------------------------------------------
(* The scan of the queue, one withdrawal after the other.                  *)

IsQueued(i) == withdrawal[i].status = "queued_liquidity"

\* A missing date sorts before every date.
QueuedAt(i) == IF Contains(queue, i) THEN CHOOSE n \in DOMAIN queue : queue[n] = i ELSE 0

\* All that are queued, ascending by queuedAt.
Scan(s) ==
    /\ At(s, "idle") /\ todo[s] = <<>>
    /\ \E i \in Sales : IsQueued(i)
    /\ \E found \in SetToSeqs({i \in Sales : IsQueued(i)}) :
         /\ \A j, k \in DOMAIN found : j < k => QueuedAt(found[j]) <= QueuedAt(found[k])
         /\ todo' = [todo EXCEPT ![s] = found]
    /\ UNCHANGED <<documents, run, resign, callback, poll, faults, chainVars, payments, history>>

\* The reserve read by the scan does not cover the next withdrawal.
StopScan(s) ==
    /\ At(s, "idle") /\ todo[s] # <<>>
    /\ todo' = [todo EXCEPT ![s] = <<>>]
    /\ UNCHANGED <<documents, run, resign, callback, poll, faults, chainVars, payments, history>>

\* MUTANT: a withdrawal without a transaction ends the scan.
ReleaseStops(s, i) ==
    /\ At(s, "idle") /\ todo[s] # <<>> /\ Head(todo[s]) = i
    /\ IF sale[i].tx = 0
       THEN todo' = [todo EXCEPT ![s] = <<>>] /\ UNCHANGED run
       ELSE todo' = [todo EXCEPT ![s] = Tail(@)] /\ Start(s, "broadcast", i, sale[i].tx)
    /\ UNCHANGED <<documents, resign, callback, poll, faults, chainVars, payments, history>>

\* releaseQueuedWithdrawal: the sale is read now, the withdrawal was read by the
\* scan.  One without a held transaction is skipped and stays in the queue.
Release(s, i) ==
    /\ At(s, "idle") /\ todo[s] # <<>> /\ Head(todo[s]) = i
    /\ todo' = [todo EXCEPT ![s] = Tail(@)]
    /\ IF sale[i].tx = 0 THEN UNCHANGED run ELSE Start(s, "broadcast", i, sale[i].tx)
    /\ UNCHANGED <<documents, resign, callback, poll, faults, chainVars, payments, history>>

-----------------------------------------------------------------------------
(* executeSellSettlement, by the /sell request or by a scan.               *)

\* MUTANT: a sequence mismatch is taken for "already broadcast".
BroadcastLenient(r) ==
    /\ At(r, "broadcast")
    /\ LET i == run[r].of  tx == run[r].tx IN
         \/ tx = sequence[i] /\ Spend(r, "failed")
         \/ tx # sequence[i] /\ Spend(r, "sold")
    /\ UNCHANGED <<documents, todo, resign, callback, poll, faults, chainVars, payments, history>>

\* A network error is reported as a failure although the node may have taken
\* the transaction.  One signed with another sequence is refused as a mismatch
\* or, when the node has seen these bytes before, as any other error.
Broadcast(r) ==
    /\ At(r, "broadcast")
    /\ LET i == run[r].of  tx == run[r].tx IN
         \/ /\ tx = sequence[i]
            /\ sequence' = [sequence EXCEPT ![i] = @ + 1]
            /\ sold' = [sold EXCEPT ![i] = @ + 1]
            /\ \E pc \in {"sold", "failed"} : Spend(r, pc)
         \/ Spend(r, "failed") /\ UNCHANGED chainVars
         \/ tx # sequence[i] /\ Spend(r, "stale") /\ UNCHANGED chainVars
    /\ UNCHANGED <<documents, todo, resign, callback, poll, faults, payments, history>>

\* The withdrawal is saved at the first await, the sale at the next one.
WithdrawalFirst(r, pc, status, next) ==
    /\ At(r, pc)
    /\ SaveWithdrawal(run[r].of, status)
    /\ Goto(r, next)
    /\ UNCHANGED <<sale, queue>> /\ OnlyDocuments

SaleSecond(r, pc, status) ==
    /\ At(r, pc)
    /\ SettleSale(run[r].of, status)
    /\ End(r)
    /\ UNCHANGED <<withdrawal, queue>> /\ OnlyDocuments

BroadcastFailed(r) == \/ WithdrawalFirst(r, "failed", "failed", "failed sale")
                      \/ SaleSecond(r, "failed sale", "failed")

SequenceMismatch(r) == \/ WithdrawalFirst(r, "stale", "resign_required", "stale sale")
                       \/ SaleSecond(r, "stale sale", "resign_required")

Sold(r) == WithdrawalFirst(r, "sold", "pending_review", "burn")

\* The burn workflow never throws; after it the sale is saved and the payout begins.
Burn(r) ==
    /\ At(r, "burn")
    /\ SettleSale(run[r].of, "broadcasted")
    /\ asked' = [asked EXCEPT ![run[r].of] = @ + 1]
    /\ Goto(r, "pay")
    /\ UNCHANGED <<withdrawal, queue, payout, todo, resign, callback, poll, faults, chainVars,
                   payments, resolved>>

-----------------------------------------------------------------------------
(* initiateB2CPayout, by a settlement or by an administrator's retry, and  *)
(* what its caller does with the answer.                                   *)

\* A request Safaricom accepts may stay unanswered, and is sent again.
PostPayout(r) ==
    /\ run[r].pc \in {"pay", "repay"}
    /\ LET i == run[r].of  ref == Len(payments[i]) + 1 IN
         /\ ref <= MaxPays
         /\ payments' = [payments EXCEPT ![i] = Append(@, "accepted")]
         /\ \/ Goto(r, "repay")
            \/ run' = [run EXCEPT ![r].pc = "paid", ![r].ref = ref]
    /\ UNCHANGED <<documents, todo, resign, callback, poll, faults, chainVars, history>>

\* The caps, read before the first request, or the provider refuse the payout.
PayoutRefused(r) ==
    /\ \/ At(r, "pay") /\ Goto(r, "review")
       \/ run[r].pc \in {"pay", "repay"} /\ Goto(r, "unpaid")
    /\ UNCHANGED documents /\ OnlyDocuments

\* Saving the status the document was read with writes nothing: a settlement
\* read pending_review, a retry read failed.
AfterRefusal(r) ==
    /\ LET i == run[r].of IN
         \/ /\ At(r, "review")
            /\ IF r \in Admins THEN SaveWithdrawal(i, "pending_review") ELSE UNCHANGED withdrawal
         \/ /\ At(r, "unpaid")
            /\ IF r \in Admins THEN UNCHANGED withdrawal ELSE SaveWithdrawal(i, "failed")
    /\ End(r)
    /\ UNCHANGED <<sale, queue>> /\ OnlyDocuments

\* MUTANT: the payout of the sale is replaced, as an upsert would.
RecordPayoutUpsert(r) ==
    /\ At(r, "paid") /\ r \notin Admins
    /\ payout' = [payout EXCEPT ![run[r].of] = [status |-> "initiated", ref |-> run[r].ref]]
    /\ Goto(r, "recorded")
    /\ UNCHANGED <<sale, withdrawal, queue, todo, resign, callback, poll, faults, chainVars,
                   payments, history>>

\* The B2CPayout of a settlement; its saleId is unique.
RecordPayout(r) ==
    /\ At(r, "paid") /\ r \notin Admins
    /\ LET i == run[r].of IN
         IF payout[i].status = "none"
         THEN /\ payout' = [payout EXCEPT ![i] = [status |-> "initiated", ref |-> run[r].ref]]
              /\ Goto(r, "recorded")
         ELSE Goto(r, "unpaid") /\ UNCHANGED payout
    /\ UNCHANGED <<sale, withdrawal, queue, todo, resign, callback, poll, faults, chainVars, payments,
                   history>>

\* A retry records nothing but the reference on the withdrawal.
PayoutInitiated(r) ==
    /\ At(r, IF r \in Admins THEN "paid" ELSE "recorded")
    /\ SavePayoutRef(run[r].of, "payout_initiated", run[r].ref)
    /\ End(r)
    /\ UNCHANGED <<sale, queue>> /\ OnlyDocuments

\* A throw of either save is caught, and the withdrawal saved as failed.
PayoutError(r) ==
    /\ run[r].pc \in {"paid", "recorded"} /\ r \notin Admins
    /\ faults < MaxFaults /\ faults' = faults + 1
    /\ Goto(r, "unpaid")
    /\ UNCHANGED <<documents, todo, resign, callback, poll, chainVars, payments, history>>

\* A handler ends between two awaits: a save throws or the process dies.  A scan
\* forgets what it has read.
Die(r) ==
    /\ run[r].pc \notin {"idle", "over"}
    /\ faults < MaxFaults /\ faults' = faults + 1
    /\ End(r)
    /\ todo' = [s \in Scanners |-> IF s = r THEN <<>> ELSE todo[s]]
    /\ UNCHANGED <<documents, resign, callback, poll, chainVars, payments, history>>

-----------------------------------------------------------------------------
(* POST /sell/:saleId/resign.                                              *)

\* Both documents are read; the client has signed with the current sequence.
Resign(c, i) ==
    /\ resign[c] = Idle /\ sequence[i] <= MaxSeq
    /\ sale[i].status = "resign_required" /\ withdrawal[i].status = "resign_required"
    /\ resign' = [resign EXCEPT ![c] = [pc |-> "sale", of |-> i, tx |-> sequence[i]]]
    /\ UNCHANGED <<documents, run, todo, callback, poll, faults, chainVars, payments, history>>

ResignSale(c) ==
    /\ resign[c].pc = "sale"
    /\ LET i == resign[c].of IN
         sale' = [sale EXCEPT ![i] = [status |-> "queued_liquidity", tx |-> resign[c].tx]]
    /\ resign' = [resign EXCEPT ![c].pc = "withdrawal"]
    /\ UNCHANGED <<withdrawal, queue, payout, run, todo, callback, poll, faults, chainVars, payments,
                   history>>

\* MUTANT: the re-signed withdrawal is queued as a new one.
ResignRequeues(c) ==
    /\ resign[c].pc = "withdrawal"
    /\ LET i == resign[c].of IN
         /\ SaveWithdrawal(i, "queued_liquidity")
         /\ queue' = Append(queue, i)
    /\ resign' = [resign EXCEPT ![c] = Idle]
    /\ UNCHANGED <<sale, payout, run, todo, callback, poll, faults, chainVars, payments, history>>

\* queuedAt stays what it was, which is nothing when /sell itself met the mismatch.
ResignWithdrawal(c) ==
    /\ resign[c].pc = "withdrawal"
    /\ SaveWithdrawal(resign[c].of, "queued_liquidity")
    /\ resign' = [resign EXCEPT ![c] = Idle]
    /\ UNCHANGED <<sale, queue, payout, run, todo, callback, poll, faults, chainVars, payments, history>>

ResignDies(c) ==
    /\ resign[c] # Idle
    /\ faults < MaxFaults /\ faults' = faults + 1
    /\ resign' = [resign EXCEPT ![c] = Idle]
    /\ UNCHANGED <<documents, run, todo, callback, poll, chainVars, payments, history>>

-----------------------------------------------------------------------------
(* handlePayoutCallback, for a delivery by Safaricom or by the dead-letter *)
(* queue; any number of them, of the same payment too, are under way.      *)

Finished == {"succeeded", "failed"}
OnlyCallback == UNCHANGED <<queue, run, todo, resign, poll, faults, chainVars, history>>

Deliver(d, pc, writes) == callback' = [callback EXCEPT ![d].pc = pc, ![d].writes = writes]

\* Safaricom has made or refused the payment: which, its first callback tells,
\* and any other tells the same.  A payment without a B2CPayout, or one already
\* finished, is answered with ResultCode 0 and nothing is saved.
Callback(d, i) ==
    /\ callback[d] = Idle
    /\ payout[i].status = "initiated"
    /\ \E end \in {"paid", "refused"} :
         LET ref == payout[i].ref IN
         /\ payments[i][ref] \in {"accepted", end}
         /\ payments' = [payments EXCEPT ![i][ref] = end]
         /\ callback' = [callback EXCEPT ![d] = [pc |-> "payout", of |-> i, ref |-> ref,
                                                 ok |-> end = "paid", writes |-> {}]]
    /\ UNCHANGED <<sale, withdrawal, payout>> /\ OnlyCallback

CallbackPayout(d) ==
    /\ callback[d].pc = "payout"
    /\ LET end == IF callback[d].ok THEN "succeeded" ELSE "failed" IN
         payout' = [payout EXCEPT ![callback[d].of].status = end]
    /\ Deliver(d, "sale", {})
    /\ UNCHANGED <<sale, withdrawal, payments>> /\ OnlyCallback

Outcome(ok) == IF ok THEN "completed" ELSE "failed"

\* A field is written where the value assigned is not the one read.
Written(field, read, assigned) == IF assigned = read THEN {} ELSE {field}

CallbackSale(d) ==
    /\ LET i == callback[d].of  outcome == Outcome(callback[d].ok) IN
         \/ /\ callback[d].pc = "sale"
            /\ Deliver(d, "save sale", Written("status", sale[i].status, outcome))
            /\ UNCHANGED sale
         \/ /\ callback[d].pc = "save sale"
            /\ IF "status" \in callback[d].writes THEN SaveSale(i, outcome) ELSE UNCHANGED sale
            /\ Deliver(d, "withdrawal", {})
    /\ UNCHANGED <<withdrawal, payout, payments>> /\ OnlyCallback

CallbackReads(d) ==
    /\ callback[d].pc = "withdrawal"
    /\ LET read == withdrawal[callback[d].of] IN
         Deliver(d, "save withdrawal", Written("status", read.status, Outcome(callback[d].ok))
                                       \cup Written("ref", read.ref, callback[d].ref))
    /\ UNCHANGED <<sale, withdrawal, payout, payments>> /\ OnlyCallback

CallbackWithdrawal(d) ==
    /\ callback[d].pc = "save withdrawal"
    /\ LET i == callback[d].of  writes == callback[d].writes IN
         SavePayoutRef(i,
             IF "status" \in writes THEN Outcome(callback[d].ok) ELSE withdrawal[i].status,
             IF "ref" \in writes THEN callback[d].ref ELSE withdrawal[i].ref)
    /\ callback' = [callback EXCEPT ![d] = Idle]
    /\ UNCHANGED <<sale, payout, payments>> /\ OnlyCallback

CallbackDies(d) ==
    /\ callback[d] # Idle
    /\ faults < MaxFaults /\ faults' = faults + 1
    /\ callback' = [callback EXCEPT ![d] = Idle]
    /\ UNCHANGED <<documents, run, todo, resign, poll, chainVars, payments, history>>

-----------------------------------------------------------------------------
(* The status polls and the administrator.                                 *)

\* syncSaleWithPayout finds the payout by the sale.  It saves the outcome of a
\* payout that is finished for good, whatever the sale was when it was read: one
\* step says as much as three.
PollSale(i) ==
    /\ payout[i].status \in Finished
    /\ SaveSale(i, Outcome(payout[i].status = "succeeded"))
    /\ UNCHANGED <<withdrawal, queue, run>> /\ OnlyDocuments

\* syncWithdrawalStatus finds it by the payment reference of the withdrawal it
\* was given, which may have another one when it saves.  A reference that is
\* not the payout's by now never will be: the payout is recorded first.
PollReads(p, i) ==
    /\ poll[p] = Idle
    /\ withdrawal[i].ref # 0 /\ withdrawal[i].ref = payout[i].ref
    /\ poll' = [poll EXCEPT ![p] = [pc |-> "payout", of |-> i,
                                    saves |-> Outcomes \ {withdrawal[i].status}]]
    /\ UNCHANGED <<documents, run, todo, resign, callback, faults, chainVars, payments, history>>

\* MUTANT: a payout that has not failed counts as made.
PollWithdrawalEarly(p) ==
    /\ poll[p] # Idle
    /\ LET i == poll[p].of  outcome == Outcome(payout[i].status # "failed") IN
         IF outcome \in poll[p].saves THEN SaveWithdrawal(i, outcome) ELSE UNCHANGED withdrawal
    /\ poll' = [poll EXCEPT ![p] = Idle]
    /\ UNCHANGED <<sale, queue, payout, run, todo, resign, callback, faults, chainVars, payments,
                   history>>

\* The payout found finished stays so: finding it and the save are one step.
PollWithdrawal(p) ==
    /\ poll[p] # Idle
    /\ LET i == poll[p].of  outcome == Outcome(payout[i].status = "succeeded") IN
         IF payout[i].status \in Finished /\ outcome \in poll[p].saves
         THEN SaveWithdrawal(i, outcome)
         ELSE UNCHANGED withdrawal
    /\ poll' = [poll EXCEPT ![p] = Idle]
    /\ UNCHANGED <<sale, queue, payout, run, todo, resign, callback, faults, chainVars, payments,
                   history>>

RetryWithdrawal(a, i) ==
    /\ At(a, "idle") /\ withdrawal[i].status = "failed"
    /\ Start(a, "pay", i, 0)
    /\ UNCHANGED documents /\ OnlyDocuments

ResolveReads(a, i) ==
    /\ At(a, "idle") /\ withdrawal[i].status = "failed"
    /\ Start(a, "resolve", i, 0)
    /\ UNCHANGED documents /\ OnlyDocuments

ResolveWithdrawal(a, outcome) ==
    /\ At(a, "resolve")
    /\ SaveWithdrawal(run[a].of, outcome)
    /\ resolved' = resolved \cup {run[a].of}
    /\ End(a)
    /\ UNCHANGED <<sale, queue, payout, todo, resign, callback, poll, faults, chainVars, payments,
                   asked>>

-----------------------------------------------------------------------------
(* The environment.                                                        *)

\* The account of i signs and broadcasts something else.
OtherTransaction(i) ==
    /\ sale[i].status # "none" /\ sequence[i] < MaxSeq
    /\ sequence' = [sequence EXCEPT ![i] = @ + 1]
    /\ UNCHANGED <<documents, handlers, sold, payments, history>>

-----------------------------------------------------------------------------

Request(i) == Sell(i) \/ Register(i) \/ HoldSale(i) \/ HoldWithdrawal(i)

Settle(r) == \/ Broadcast(r) \/ BroadcastFailed(r) \/ SequenceMismatch(r) \/ Sold(r) \/ Burn(r)
             \/ PostPayout(r) \/ PayoutRefused(r) \/ AfterRefusal(r)
             \/ RecordPayout(r) \/ PayoutInitiated(r)

Reply(d) == \/ \E i \in Sales : Callback(d, i)
            \/ CallbackPayout(d) \/ CallbackSale(d) \/ CallbackReads(d) \/ CallbackWithdrawal(d)

Administer(a) == \/ \E i \in Sales : RetryWithdrawal(a, i) \/ ResolveReads(a, i)
                 \/ \E outcome \in {"completed", "refunded"} : ResolveWithdrawal(a, outcome)

Fault == \/ \E r \in Runners : PayoutError(r) \/ Die(r)
         \/ \E c \in Clients : ResignDies(c)
         \/ \E d \in Deliveries : CallbackDies(d)

Next ==
    \/ \E i \in Sales : \/ Request(i) \/ PollSale(i) \/ OtherTransaction(i)
                        \/ \E c \in Clients : Resign(c, i)
                        \/ \E p \in Polls : PollReads(p, i)
                        \/ \E s \in Scanners : Release(s, i)
    \/ \E c \in Clients : ResignSale(c) \/ ResignWithdrawal(c)
    \/ \E s \in Scanners : Scan(s) \/ StopScan(s)
    \/ \E r \in Runners : Settle(r)
    \/ \E d \in Deliveries : Reply(d)
    \/ \E p \in Polls : PollWithdrawal(p)
    \/ \E a \in Admins : Administer(a)
    \/ Fault

Spec == Init /\ [][Next]_vars

\* The scan is a recurring job and a settlement goes on by itself; liquidity
\* recovers again and again, so no withdrawal that a scan keeps coming to is for
\* ever the one it stops at.
FairSpec ==
    /\ Spec
    /\ \A s \in Scanners : WF_vars(Scan(s)) /\ WF_vars(Settle(s))
    /\ \A s \in Scanners, i \in Sales : SF_vars(Release(s, i))

-----------------------------------------------------------------------------
(* Properties.                                                             *)

\* Every settlement that asks for a payout has had a sell transaction of its own
\* accepted by the chain, however many scans broadcast the same signature and
\* whatever is signed again.
PaidForSold == \A i \in Sales : asked[i] <= sold[i]

\* A sale or withdrawal shown as completed was paid out by Safaricom, in the
\* payment of the sale's B2CPayout, or an administrator has vouched for it: no
\* callback or poll completes it from what it read before a retry.
CompletedWasPaid ==
    \A i \in Sales :
        LET Paid == payout[i].ref # 0 /\ payments[i][payout[i].ref] = "paid" IN
        /\ withdrawal[i].status = "completed" => i \in resolved \/ Paid
        /\ sale[i].status = "completed" => Paid

\* The B2CPayout of a sale is that of one payment, and its outcome is final: no
\* second settlement takes its place and no late callback reverses it.
PayoutStands ==
    [][\A i \in Sales :
         /\ payout[i].status # "none" => payout'[i].ref = payout[i].ref
         /\ payout[i].status \in Finished => payout'[i] = payout[i]]_vars

\* A queued withdrawal that holds its transaction is eventually taken out of the
\* queue, whoever is queued before it and though others hold none.
QueueMoves == \A i \in Sales : IsQueued(i) /\ sale[i].tx # 0
                               ~> ~(IsQueued(i) /\ sale[i].tx # 0)

Resting(i) == /\ \A d \in Deliveries : callback[d] = Idle
              /\ \A r \in Runners : run[r].pc \in {"idle", "over"} \/ run[r].of # i

\* WithdrawalRequest.js: of a held withdrawal nothing has been broadcast, the
\* user's coins have not moved.
HeldIsUnsold ==
    \A i \in Sales : Resting(i) /\ withdrawal[i].status \in {"queued_liquidity", "resign_required"}
                     => sold[i] = 0
=============================================================================
