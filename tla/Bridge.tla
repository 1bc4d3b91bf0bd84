------------------------------- MODULE Bridge -------------------------------
(***************************************************************************)
(* x/crosschain: the bridge keeper, the IBC middleware in front of the     *)
(* ICS-20 application, and the EndBlocker that enforces timeouts.          *)
(*                                                                         *)
(* Coins are counted, not named: moduleBal is the crosschain module        *)
(* account, escrow the ICS-20 escrow account a routed transfer's coins go  *)
(* to in the transaction that opens it.  A message that returns an error   *)
(* reverts, so it is the absence of a step.  The ICS-20 application, the   *)
(* relayer and the other chain are external and appear as the fate of a    *)
(* packet: a packet in flight is received or times out, a received packet  *)
(* is acknowledged, all at any time or never.                              *)
(***************************************************************************)
EXTENDS Integers, Sequences, FiniteSets, Functions

CONSTANTS Chains,         \* destination chains
          Amounts,        \* amounts a user may ask to bridge
          ParamChoices,   \* values the module parameters may take
          DefaultTimeout, \* blocks, used when TransferTimeoutBlocks is 0
          Keep,           \* maxCompletedTransfersToKeep
          MaxTransfers,   \* bound: transfers opened
          MaxHeight,      \* bound: the height stops counting here
          MayRoute        \* chains an IBC route may be configured for

ASSUME BridgeAssumption ==
    /\ Amounts \subseteq Nat \ {0}
    /\ DefaultTimeout \in Nat /\ Keep \in Nat
    /\ MaxTransfers \in Nat /\ MaxHeight \in Nat
    /\ MayRoute \subseteq Chains
    /\ ParamChoices \subseteq [timeout : Nat, chains : SUBSET Chains, min : Nat, max : Nat]

Ids == 1..MaxTransfers

\* The fields of a BridgeTransfer that never change, and of a TransferMeta.
Transfers == [chain : Chains, amount : Amounts, local : BOOLEAN]
Metas == [init : 0..MaxHeight, timeout : Nat, sequenced : BOOLEAN]
NoTransfer == [chain |-> "none"]
NoMeta == [init |-> "none"]

VARIABLES
    height,     \* block being executed
    params,     \* Params
    routes,     \* chains with a ChainRoute
    nextId,     \* BridgeState.NextTransferId
    info,       \* BridgeTransfers: the immutable part
    status,     \* BridgeTransfers: Status
    meta,       \* TransferMeta
    pending,    \* BridgeState.PendingTransfers, as the set of their ids
    completed,  \* BridgeState.CompletedTransfers, oldest first
    sent,       \* BridgeState.ChainBalances
    moduleBal,  \* the module account
    escrow,     \* the ICS-20 escrow account
    packet,     \* fate of the transfer's ICS-20 packet
    paid        \* history: payments the module account has made for a transfer

bridgeVars == <<nextId, info, status, meta, pending, completed, sent>>
bankVars == <<moduleBal, escrow, paid>>
vars == <<height, params, routes, bridgeVars, bankVars, packet>>

Statuses == {"absent", "pending", "completed", "timed_out"}
Fates == {"none", "flight", "received", "rejected", "acked", "refunded"}

AmountOf(S) == SumFunction([i \in S |-> info[i].amount])

ControlTypeOK ==
    /\ height \in 0..MaxHeight
    /\ params \in ParamChoices
    /\ routes \in SUBSET Chains
    /\ nextId \in 1..(MaxTransfers + 1)
    /\ info \in [Ids -> Transfers \cup {NoTransfer}]
    /\ status \in [Ids -> Statuses]
    /\ meta \in [Ids -> Metas \cup {NoMeta}]
    /\ pending \in SUBSET Ids
    /\ packet \in [Ids -> Fates]
    /\ paid \in [Ids -> Nat]

LedgerTypeOK ==
    /\ completed \in Seq(Ids)
    /\ sent \in [Chains -> Nat]
    /\ moduleBal \in Nat /\ escrow \in Nat

Init ==
    /\ height = 0
    /\ params \in ParamChoices
    /\ routes = {}
    /\ nextId = 1
    /\ info = [i \in Ids |-> NoTransfer]
    /\ status = [i \in Ids |-> "absent"]
    /\ meta = [i \in Ids |-> NoMeta]
    /\ pending = {}
    /\ completed = <<>>
    /\ sent = [c \in Chains |-> 0]
    /\ moduleBal = 0 /\ escrow = 0
    /\ packet = [i \in Ids |-> "none"]
    /\ paid = [i \in Ids |-> 0]

-----------------------------------------------------------------------------
(* Steps shared by the handlers.                                           *)

IsPending(i) == status[i] = "pending"

\* checkTransferTimeout and the EndBlocker: the block timeout of i has passed.
TimedOut(i) == meta[i] # NoMeta /\ height > meta[i].init + meta[i].timeout

\* moveTransferToCompleted for the transfers of S, in the order of seq.
MoveToCompleted(S, seq) ==
    /\ pending' = pending \ S
    /\ completed' = completed \o seq
    /\ sent' = [c \in Chains |-> sent[c] + AmountOf({i \in S : info[i].chain = c})]

\* MUTANT: the status is left as it was, only the list is updated.
PayForKeepingStatus(S, outcome) ==
    /\ UNCHANGED status
    /\ paid' = [i \in Ids |-> IF i \in S THEN paid[i] + 1 ELSE paid[i]]

DropMeta(S) == meta' = [i \in Ids |-> IF i \in S THEN NoMeta ELSE meta[i]]

\* The module account pays once for every transfer of S and has left coins after it.
PayFor(S, outcome) ==
    /\ status' = [i \in Ids |-> IF i \in S THEN outcome ELSE status[i]]
    /\ paid' = [i \in Ids |-> IF i \in S THEN paid[i] + 1 ELSE paid[i]]

-----------------------------------------------------------------------------
(* Messages.                                                               *)

\* The timeout recorded for a transfer; it keeps it when the parameter changes.
TimeoutBlocks == IF params.timeout = 0 THEN DefaultTimeout ELSE params.timeout

\* MUTANT: only a routed transfer gets its TransferMeta.
NewMetaRoutedOnly(routed) ==
    IF routed THEN [init |-> height, timeout |-> TimeoutBlocks, sequenced |-> routed] ELSE NoMeta

NewMeta(routed) == [init |-> height, timeout |-> TimeoutBlocks, sequenced |-> routed]

\* A transfer to a routed chain leaves in an ICS-20 packet: the coins pass
\* through the module account into the escrow account in the same transaction.
InitiateBridgeTransfer(c, a, local) ==
    LET i == nextId  routed == c \in routes
    IN  /\ i \in Ids
        /\ c \in params.chains
        /\ params.min <= a /\ a <= params.max
        /\ height + TimeoutBlocks < MaxHeight    \* bound: the timeout is reached
        /\ nextId' = i + 1
        /\ info' = [info EXCEPT ![i] = [chain |-> c, amount |-> a, local |-> local]]
        /\ status' = [status EXCEPT ![i] = "pending"]
        /\ meta' = [meta EXCEPT ![i] = NewMeta(routed)]
        /\ pending' = pending \cup {i}
        /\ \/ /\ routed
              /\ escrow' = escrow + a /\ UNCHANGED moduleBal
              /\ packet' = [packet EXCEPT ![i] = "flight"]
           \/ /\ ~routed
              /\ moduleBal' = moduleBal + a /\ UNCHANGED <<escrow, packet>>
        /\ UNCHANGED <<height, params, routes, completed, sent, paid>>

\* MUTANT: validateModuleBalance is gone and the bank's own check with it.
CompleteUnchecked(i) ==
    /\ IsPending(i) /\ ~TimedOut(i)
    /\ meta[i] # NoMeta /\ meta[i].sequenced
    /\ info[i].local
    /\ PayFor({i}, "completed")
    /\ moduleBal' = moduleBal - info[i].amount
    /\ MoveToCompleted({i}, <<i>>)
    /\ DropMeta({i})
    /\ UNCHANGED <<height, params, routes, nextId, info, escrow, packet>>

\* A bonded validator proves that the packet of i was committed and the
\* module account pays the recipient here.  A commitment once made can be
\* proved at an old height, whatever has become of the packet since.
CompleteBridgeTransfer(i) ==
    /\ IsPending(i) /\ ~TimedOut(i)
    /\ meta[i] # NoMeta /\ meta[i].sequenced
    /\ info[i].local
    /\ moduleBal >= info[i].amount
    /\ PayFor({i}, "completed")
    /\ moduleBal' = moduleBal - info[i].amount
    /\ MoveToCompleted({i}, <<i>>)
    /\ DropMeta({i})
    /\ UNCHANGED <<height, params, routes, nextId, info, escrow, packet>>

UpdateParams(p) ==
    /\ params' = p
    /\ UNCHANGED <<height, routes, bridgeVars, bankVars, packet>>

SetChainRoute(c) ==
    /\ routes' = routes \cup {c}
    /\ UNCHANGED <<height, params, bridgeVars, bankVars, packet>>

-----------------------------------------------------------------------------
(* The other chain and the relayer.                                        *)

\* The other chain executes the packet, crediting the recipient, or answers
\* with an error acknowledgement.
RecvPacket(i) ==
    /\ packet[i] = "flight"
    /\ \E fate \in {"received", "rejected"} : packet' = [packet EXCEPT ![i] = fate]
    /\ UNCHANGED <<height, params, routes, bridgeVars, bankVars>>

\* MUTANT: an acknowledgement completes the transfer whatever its status is.
AckSuccessUnguarded(i) ==
    /\ packet[i] = "received"
    /\ packet' = [packet EXCEPT ![i] = "acked"]
    /\ status' = [status EXCEPT ![i] = "completed"]
    /\ MoveToCompleted({i}, <<i>>)
    /\ UNCHANGED <<height, params, routes, nextId, info, meta, bankVars>>

\* HandleOutboundIBCAck, then the ICS-20 application, which keeps the escrow.
AckSuccess(i) ==
    /\ packet[i] = "received"
    /\ packet' = [packet EXCEPT ![i] = "acked"]
    /\ \/ /\ IsPending(i)
          /\ status' = [status EXCEPT ![i] = "completed"]
          /\ MoveToCompleted({i}, <<i>>)
       \/ /\ ~IsPending(i)
          /\ UNCHANGED <<status, pending, completed, sent>>
    /\ UNCHANGED <<height, params, routes, nextId, info, meta, bankVars>>

\* On an error acknowledgement the keeper does nothing; the ICS-20
\* application returns the coins to the packet's sender, the module account.
AckError(i) ==
    /\ packet[i] = "rejected"
    /\ packet' = [packet EXCEPT ![i] = "refunded"]
    /\ escrow' = escrow - info[i].amount
    /\ moduleBal' = moduleBal + info[i].amount
    /\ UNCHANGED <<height, params, routes, bridgeVars, paid>>

\* MUTANT: a packet timeout refunds a transfer that was settled before it.
RefundSettledToo(i) == moduleBal >= info[i].amount

\* refundTimedOutTransfer returns early on a settled transfer, and fails when
\* the module account is short.
RefundOnTimeout(i) == IsPending(i) /\ moduleBal >= info[i].amount

\* HandleOutboundIBCTimeout runs first: it pays the sender from the module
\* account, and its failure is only logged.  Then the ICS-20 application
\* returns the coins of this packet to the module account.
TimeoutPacket(i) ==
    /\ packet[i] = "flight"
    /\ packet' = [packet EXCEPT ![i] = "refunded"]
    /\ escrow' = escrow - info[i].amount
    /\ \/ /\ RefundOnTimeout(i)
          /\ PayFor({i}, "timed_out")
          /\ MoveToCompleted({i}, <<i>>)
          /\ DropMeta({i})
          /\ UNCHANGED moduleBal
       \/ /\ ~RefundOnTimeout(i)
          /\ moduleBal' = moduleBal + info[i].amount
          /\ UNCHANGED <<status, meta, pending, completed, sent, paid>>
    /\ UNCHANGED <<height, params, routes, nextId, info>>

-----------------------------------------------------------------------------
(* The EndBlocker.                                                         *)

Expired == {i \in Ids : IsPending(i) /\ TimedOut(i)}

\* The walk is in the order of ids, and skips a refund the account cannot pay.
Refundable(S) ==
    \A i \in Expired : i \in S <=> AmountOf({j \in S : j < i}) + info[i].amount <= moduleBal

Pruned(s) == IF Len(s) <= Keep THEN s ELSE SubSeq(s, Len(s) - Keep + 1, Len(s))

\* The transfers of S in the order of their ids.
InOrder(S) ==
    CHOOSE s \in [1..Cardinality(S) -> S] : \A j, k \in DOMAIN s : j < k => s[j] < s[k]

EndBlock ==
    \E S \in SUBSET Expired, left \in 0..moduleBal :
        /\ Refundable(S)
        /\ left + AmountOf(S) = moduleBal
        /\ moduleBal' = left
        /\ PayFor(S, "timed_out")
        /\ DropMeta(S)
        /\ pending' = pending \ S
        /\ completed' = Pruned(completed \o InOrder(S))
        /\ sent' = [c \in Chains |-> sent[c] + AmountOf({i \in S : info[i].chain = c})]
        /\ height' = IF height < MaxHeight THEN height + 1 ELSE height
        /\ UNCHANGED <<params, routes, nextId, info, escrow, packet>>

-----------------------------------------------------------------------------

Message == \/ \E c \in Chains, a \in Amounts, local \in BOOLEAN :
                 InitiateBridgeTransfer(c, a, local)
           \/ \E i \in Ids : CompleteBridgeTransfer(i)
           \/ \E p \in ParamChoices : UpdateParams(p)
           \/ \E c \in MayRoute : SetChainRoute(c)

Relay == \E i \in Ids : \/ RecvPacket(i)
                        \/ AckSuccess(i)
                        \/ AckError(i)
                        \/ TimeoutPacket(i)

Next == Message \/ Relay \/ EndBlock

Spec == Init /\ [][Next]_vars

\* Consensus keeps producing blocks; users, relayers and the other chain owe nothing.
FairSpec == Spec /\ WF_vars(EndBlock)

-----------------------------------------------------------------------------
(* Properties.                                                             *)

TypeOK == ControlTypeOK /\ LedgerTypeOK

\* The module account pays for a transfer at most once, whichever of validator
\* proof, packet timeout and block timeout come for it, and in whatever order:
\* an unsettled transfer has cost nothing, a refunded one exactly one payment.
SettledOnce ==
    \A i \in Ids : /\ paid[i] <= 1
                   /\ status[i] \in {"absent", "pending"} => paid[i] = 0
                   /\ status[i] = "timed_out" => paid[i] = 1

\* The PendingTransfers list of BridgeState, which queries read, agrees with
\* the status in BridgeTransfers, which the handlers read.
PendingIndex == pending = {i \in Ids : IsPending(i)}

\* No pending transfer is without TransferMeta: the EndBlocker skips one that
\* is, and its coins would stay in the module account for ever.
PendingHasMeta == \A i \in Ids : IsPending(i) => meta[i] # NoMeta

\* CompletedTransfers never holds a transfer twice nor one that is not
\* settled, however settlements and pruning interleave; ChainBalances counts
\* each settled transfer once, also after pruning.
CompletedIndex ==
    /\ IsInjective(completed)
    /\ \A k \in DOMAIN completed : status[completed[k]] \in {"completed", "timed_out"}
    /\ \A c \in Chains :
         sent[c] = AmountOf({i \in Ids : /\ status[i] \in {"completed", "timed_out"}
                                         /\ info[i].chain = c})

\* Without routes every pending transfer is backed by its own coins.
FullyBacked == moduleBal = AmountOf({i \in Ids : IsPending(i)})

\* Every opened transfer is settled (transfer.go says so of routeless ones).
EverySettled == \A i \in Ids : IsPending(i) ~> ~IsPending(i)

\* The detailed bridge does what Settlement promises.
Promise == INSTANCE Settlement
Settles == Promise!Spec

\* What app/ibc.go says the middleware is there for: a transfer whose packet
\* was executed by the other chain is not refunded to its sender as well.
NoRefundAfterDelivery ==
    \A i \in Ids : ~(status[i] = "timed_out" /\ packet[i] \in {"received", "acked"})
=============================================================================
