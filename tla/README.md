# MallChain in TLA+

MallChain is a Cosmos SDK chain (`src/app`, `src/x/*`, Go) with a Node backend
(`src/backend`, Express, MongoDB, BullMQ) that sells and buys the chain's coin
MLCN for mobile money (Safaricom M-Pesa). This directory holds TLA+ models of the
parts where several actors change the same money-bearing state in an order nobody
controls, TLC configurations that check small instances of them, and proofs that
hold for every instance. `src` is the reference: every action is one handler,
message or await-to-await step of the code, and `PROJECT.json` names its lines.

## 1. The system

| Component | State it keeps | Operations | Meets |
|---|---|---|---|
| `x/crosschain` | BridgeTransfers, TransferMeta, BridgeState (pending list, pruned completed list, ChainBalances, next id), Params, ChainRoutes, its module account | InitiateBridgeTransfer, CompleteBridgeTransfer (a validator's proof), UpdateParams, SetChainRoute, ack and timeout of IBC packets, EndBlocker | bank, ICS-20 through the middleware in `ibc/module.go`, relayers, blocks |
| `x/marketplace` | Escrows, EscrowSeq, its module account | CreateEscrow, ReleaseFunds, RefundBuyer, OpenDispute, genesis export and import | bank, block time |
| `x/governance` | Proposals, Deposits, Votes, Params, ProposalID, its module account | SubmitProposal, Deposit, Vote, UpdateParams, EndBlocker (deposit end, tally, execution, refund or burn) | bank, staking, message router |
| cash-out (`services/sellExecutionService.js`, `withdrawalLiquidityQueueService.js`, `b2cPayoutService.js`, `routes/buy.js`, `routes/withdraw.js`, `routes/adminPanel.js`) | MallcoinSale, WithdrawalRequest, B2CPayout (three MongoDB documents) | POST /sell, hold for liquidity, the recurring scan, broadcast, burn, payout, resign, payout callback and its dead-letter replay, two status polls, admin retry and resolve | chain node, Safaricom, users' signatures, BullMQ |
| `x/dex` | pools with reserves and a count of shares, who was minted how many, parameters, its module account | CreatePool, AddLiquidity, RemoveLiquidity, Swap, UpdateParams, genesis | bank (liquidity coins are bank denominations that can be sent on) |
| `x/mlcoin` | wallets with locked coins, circulating supply and daily limit, fees, stakes, allowances (MGP20), KES balances, price and cached buys | transfers with and without fee, Approve, TransferFrom, Stake, Unstake, BuyMallcoin, SellMallcoin, EndBlocker (prices, schedule, distribution of fees), genesis | mallpoints, contracts, bank |
| `x/mallpoints` | points per account, points issued this month | award, convert | mlcoin, which mints for it |
| buy flow (`routes/buy.js`, `dlqProcessor.js`, `liquidityReconciliationService.js`) | MallcoinPurchase, LiquidityReconciliation | reserve, STK prompt, callback and its replay, credit with transfer and liquidity add, resolution by an administrator | chain, Safaricom, the buyer's phone |
| sale gates (`sellGateService.js`, `treasuryLimitsService.js`, `withdrawalRateLimitService.js`), circuit breaker | pool reserve, daily and weekly counters, AML tokens, breaker state | check, later consume | cash-out |
| `x/vault` | an encrypted key vault, one record per signer | SetupVault, ConfirmVault, DisableVault | - |
| `x/wasm`, `x/wasmbridge`, `x/mallcoin`, `x/badge`, `x/edu` | contract code; records and parameters | store, execute; set | - |
| users, KYC, notifications, explorer, front ends, infrastructure | read models, CRUD | - | - |

What is hard here, and where a test hardly reaches:

* **Bridge.** Four actors may close one transfer: a validator's proof, a
  success acknowledgement, the packet's timeout and the EndBlocker's own block
  timeout. All coins of all transfers lie in one module account, so a second
  payment is made with somebody else's coins. Correct means: paid for at most
  once, the two indices of the state agree, and everything opened is closed.
* **Escrow.** Identifiers come from buyer, block and a counter an import forgets.
  Correct means: no record is ever replaced, each is closed and paid for once,
  the module account holds exactly what is open, a dispute holds its window.
* **Governance.** Parameters change while other proposals depend on them (the
  change is executed in the loop that then looks at those others), stake moves
  while votes are open, deposits are shared in one account. Correct means: each
  deposit comes back at most once and whole, decisions stand, only stake decides,
  and every proposal is decided.
* **Cash-out.** Three documents, no transaction around them, six kinds of
  handler that read, await and write back; a broadcast whose answer is lost, a
  payout request that is repeated, a callback that overtakes the save it refers
  to, a process that dies between any two awaits, a second replica that runs the same
  scan. Correct means: each payout is asked for against a sell transaction of its own, a
  payout on record stands, nothing is shown as completed that was not paid, and the queue
  keeps moving.
* **Dex.** Division at four places, three truncated and one rounded half-even, a withdrawal
  that needs a record and the coins, coins of one pool that lie in another one, an export that
  forgets the records. Correct means: reserves are in the account, no more shares are promised
  than exist, and what a share is worth falls through no deposit or withdrawal, and through a
  swap by no more than the rounding of its quotient.
* **Mlcoin and mallpoints.** Ten kinds of message move the same wallets and the same
  supply; some subtractions are skipped instead of refused, some products wrap,
  and only part of the state survives an export. Correct means: no
  coins out of nothing but those the code is known to make, a distribution of fees that can be paid, caps that bound what they
  are there for, a principal that comes back.
* **Buy flow.** Prompts whose answer is lost and which are sent again, results that are
  repeated or arrive before the prompt is on record, requests that race for one credit and
  die after the transfer. Correct means: each confirmation of a purchase buys one transfer at
  most (one payment may be confirmed twice, section 2), nobody is credited who has not paid,
  the record tells the truth.

The list of hazards with the line at which each bites, and the property that
watches it, is in `PROJECT.json`. Of 40, three are without a property:
the bridge's genesis and the failed passed proposal's deposit need no interleaving to
show, and the overshoot of the gates is bounded by nothing the code says.

## 2. Modules

| Module | Models | Composition |
|---|---|---|
| `Settlement` | the promise of a keeper that holds users' coins: a holding is opened once, settled once, paid for at most once and in the step that settles it | abstract; implemented by `Bridge` and `Escrow` |
| `Bridge` | `x/crosschain` keeper, middleware and EndBlocker, with ICS-20, relayer and other chain as the fate of a packet | `INSTANCE Settlement` |
| `Escrow` | `x/marketplace/keeper/escrow.go` and its genesis | `INSTANCE Settlement` with status as a function of the record |
| `Governance` | `x/governance` | |
| `CashOut` | the backend's cash-out with node, Safaricom, users and administrator around it | |
| `BuyFlow` | the backend's purchase with M-Pesa, with Safaricom, the buyer and the chain | |
| `Dex` | `x/dex` keeper, messages and genesis, with the bank | |
| `Mlcoin` | `x/mlcoin` ledger, market, staking and EndBlocker, and `x/mallpoints` minting through it | both modules in one state |
| `LegacyDec` | the rounded quotient of `cosmossdk.io/math`, external | extended by `Governance`, `Dex` and `SumLemmas` |
| `MC*` | constants for TLC, and bounds on the number of messages | extend the module they are named after |
| `BridgeProofs`, `EscrowProofs`, `GovernanceProofs`, `CashOutProofs`, `BuyFlowProofs`, `DexProofs`, `MlcoinProofs` | theorems and proofs | extend module and TLAPS |
| `SumLemmas` | what a sum over a finite set is and how it changes, for the proofs about balances; products and quotients, truncated and rounded | extended by the proofs of Bridge, Escrow, Governance, Dex and Mlcoin |

Operators marked `MUTANT` are plausible wrong versions of the definition below
them. They belong to no specification; putting one in the place of its original
makes the property it was written for fail, which shows that the property
depends on the code.

### Bridge

`info`, `status` and `meta` are the two collections BridgeTransfers and TransferMeta;
`pending`, `completed`, `sent` and `nextId` are BridgeState. `moduleBal` and
`escrow` are the balances of the crosschain account and of the ICS-20 escrow
account. `packet` is what has become of a transfer's packet: in flight, received,
rejected, acknowledged, refunded. `paid` is a history variable.

`InitiateBridgeTransfer` takes the coins and, for a chain with a route, sends
them on in the same transaction. `CompleteBridgeTransfer` is the validator's
proof; the commitment it proves stays provable at an old height, so its guard
does not look at `packet`. `AckSuccess`, `AckError` and `TimeoutPacket` are
the middleware followed by the ICS-20 application, in that order (the keeper's
failure is logged, the application goes on). `EndBlock` refunds, in the order of
ids, what has timed out and can be paid, prunes, and advances the height. A message that
returns an error has no step, because the SDK drops its writes.

Two remarks about the commit. `SetChainRoute` has no caller outside tests, so no
transfer is routed in the app as wired; the action is in the model because the
keeper offers it and the IBC code is there for it, and the run
`bridge_routeless` looks at the app as it is. And `app/app_config.go` registers
no module account for crosschain, marketplace and dex; the models describe the
keepers with the account present, as their tests set them up.

### Escrow

`escrows` maps an identifier (buyer, block, sequence number) to its record, and
`CreateEscrow` writes with `Escrows.Set`'s semantics: an existing record would
be replaced. Block height and time are one number, `now`. `ReleaseTime`
reproduces `time.Duration(window) * time.Second` with the wrap of a signed
product, in a `Duration` of `2 * Half` values. `ExportImport` is a restart from
an exported genesis, which carries the escrows and starts EscrowSeq at 0.

### Governance

The EndBlocker's loop is one step per proposal (`cursor`), since a proposal
executed in it may change what the next one meets; messages need `cursor = 0`.
The map `deposits` is cumulative per account, as in `AddDeposit`. `SubmitProposal`
counts the first deposit twice, as the code does. `ExecuteProposal` stands for the
messages of a proposal, which take effect together or not at all: new
parameters, or a message of another module that may fail. In the failing case
nothing happens to the deposit, and the status that is set is overwritten by the
caller, as in the code. `refundDeposits` skips an account it cannot pay.
`shares[u]` is what `CalculateVotingPower` sums for a voter: whole delegation shares, over the
200 delegations it asks for, to unbonded and jailed validators too. `bonded` is
`TotalBondedTokens`, by which the quorum divides. They are two quantities and
`ChangeStake` moves them apart, as a slash does. The ratios of `Passes` are LegacyDec quotients
of `Unit` to 1 (`Quo`, rounded half-even); parameters are any integers, since
`UpdateParams` validates nothing. What an executed message of another module does to bank
balances is outside the model, so `OwnCoins` is about the coins that governance itself moves.

### CashOut

A handler in progress that settles is a *runner*: the POST /sell request of sale `i` is
runner `i`, a worker's scan is a runner, an administrator's retry or resolve is one. Its
`pc` is named for what it does next, and each action ends at an await. Resigns, callbacks and
polls have a record each (`resign`, `callback`, `poll`) with what they have read:
`PollReads` then `PollWithdrawal`; `Callback`, `CallbackPayout`, `CallbackSale`,
`CallbackReads`, `CallbackWithdrawal`. A mongoose `save` writes only the fields whose value
differs from the one read (`Written`), and so does the model, so that a poll or callback may
save its status over a retry's and leave the retry's reference. `Scanners` are the workers, one
in each replica (`infra/k8s/10-backend.yaml:7` starts two), and several requests of every
other kind may be under way too.
`queue` is the order of `queuedAt` (`QueuedAt` says which positions a scan may take
first); a withdrawal without the field sorts before all others, as MongoDB sorts. `sequence` and `sold` are the chain's view of the
seller's account: a transaction signed with another sequence is refused, a
broadcast whose answer is lost may have been accepted. `payments` is Safaricom's
view. `Die`, `ResignDies`, `CallbackDies` and `PayoutError` are failures between
two awaits.

What the environment decides freely: whether liquidity and caps allow a step,
whether the provider accepts, answers and pays, when users sign. The amount of a
sale and the burn (whose failure the code swallows) play no part.

The code does *not* have these, and no property claims them; TLC shows each false with two
workers, two clients or, for the third, one of each other handler:

* *A queued withdrawal holds its transaction.* Two resigns, or a resign and a second worker,
  read `resign_required`; one of them is queued and settled, which clears the transaction, and
  the late `withdrawal.save` (`buy.js:820`) leaves `queued_liquidity` with none. Every scan
  skips it (`withdrawalLiquidityQueueService.js:74-79`), and nothing else takes it out.
  `QueueMoves` is therefore about those that hold one, and shows that the others do not
  stop them. Two resigns may also replace a held transaction before it was tried.
* *One payout is asked for per sale.* Two settlements of one sale, each with a sell
  transaction of its own, ask twice; the second finds a B2CPayout on record and cannot
  save its own (`saleId` is unique). `PaidForSold` is what holds.
* *A completed withdrawal was paid in the payment its `payoutRef` names.* A poll that
  has read `failed` with a reference saves `completed` over the status of a retry, whose
  reference stays. `CompletedWasPaid` speaks of the payment of the B2CPayout instead, which
  was made; the retry's own is on no record.

Besides, a withdrawal that an administrator resolves after its payout failed is put back
to `failed` by the next status poll (`withdraw.js:34-37`).

### BuyFlow

A purchase document, and around it the requests in progress: `push` (POST /mpesa),
`delivery` (a result being processed, live or replayed from the dead-letter queue) and
`credit` (POST /credit). Each has read the purchase when it starts and writes at its
end only the fields it assigns. `prompts` is Safaricom and the phone; a POST whose answer is
lost is repeated, so that one purchase has prompts it knows and prompts it does not.
`Claim` is the atomic `findOneAndUpdate`; everything else is read, await, save.
`PushEnds`, `DeliveryEnds` and `CreditEnds` are failures and deaths, before or
after the chain has acted. `confirmed` is a history variable.

What the model shows beside its properties: two deliveries of two paid prompts, or
of one, may save `confirmed` again after the first credit has claimed the
purchase, and then a second /credit succeeds (`SpentOnce` counts confirmations, not
payments, for that reason); a request that dies while the purchase is `processing` leaves it
there for ever; a result that arrives before its prompt is saved is acknowledged
and dropped; a failed result hides the payment of another prompt; and the
reconciliation job finds nothing to do, since every failed add already has its record
(`FailureIsListed`) and the job acts only on those it creates.

### Dex

`pools[i]` has two denominations, two reserves and the number of its shares;
`shares` is poolLiquidity, what was minted to whom; `bank` holds every denomination,
liquidity coins of pool `i` being the denomination `i`, which may itself be put into
a pool. Shares and withdrawals are whole quotients, truncated. The output of a swap
is LegacyDec's `Quo`, rounded half-even at `Unit` to 1 and truncated afterwards, so it can be one coin
above the exact quotient, and the product of the reserves can fall. (That it never does is
false in the model, after three messages: an input of 2 into reserves of 7 and 4 takes the
pool to 9 and 3.) `RemoveLiquidity` needs both the record and the coins, so that sent-on
coins (`BankSend`) are worth nothing to the receiver unless he is a provider too.
`ExportImport` keeps pools and loses the records: the reserves stay in the
account and nobody can withdraw them.

### Mlcoin

`wallet` has a balance and locked coins per user; `circulating` and `dailyLimit` are
EmissionState; `stakes` is in the order of its sequence; `bought` is the cached total
of buys in KES. A stake's `age` is the blocks it has been there, counted up to `MaxAge`, and its reward
grows with it (`Rewards`). `matured` says whether block time has passed UnlockTime.
`Active` are the stakes a distribution counts and `Staked` what they add up to.
Minting burns a part and takes only the rest into `circulating`. `Share` reproduces
the `uint64` product that may wrap. `DistributeFees` goes through the active stakes in order and
skips a payment that the module account cannot make: `Payable` says so of the set of stakes
that are paid, each being covered after those before it. `collected`, `kesPaid` and `conjured` are history
variables.

`ExportImport` keeps the wallets of `Indexed` users only, those of the genesis. Every wallet
made at run time has an empty `Index` (`mint.go:48-52`, `transfer.go:84`, `staking.go:152`
and others), `InitGenesis` stores wallets by it (`genesis.go:14-15`), and what lies under the
empty key is no user's. Points are lost the same way. `types/genesis.go:110-118` would refuse two
such wallets, but only the `genesis validate` command calls it.

Where the code differs from what is said about it, without a run of its own:
`TransferFrom` from an owner to himself reads both wallets first and so mints the amount (`conjured`
counts it, and `Backed` shows that it is all that is made); the daily limit bounds one call and no day, though `API_REFERENCE.md`
speaks of a day; repricing by activity may leave the selling price above the buying price; the
default genesis hands out more than it declares as circulating (`Undeclared`); a
contract's transfer ignores locked coins where the message does not; and the fee
comes on top of the amount where a comment takes it from the receiver.

## 3. Runs

| Run | Asks |
|---|---|
| `bridge` | With routes, every interleaving of proof, ack, packet timeout, block timeout, pruning and parameter changes: `SettledOnce`, `PendingIndex`, `PendingHasMeta`, `CompletedIndex`, and the refinement `Settles` |
| `bridge_routeless` | Without routes: the module account holds exactly the pending transfers (`FullyBacked`) and each is settled (`EverySettled`) |
| `bridge_late_ack` | finding 1, `NoRefundAfterDelivery` |
| `escrow` | `Accounted`, `Settles`, `DisputeHolds` across blocks and an import |
| `governance` | `RefundedOnce`, `OwnCoins`, `DecisionStands`, `PassedByStake`, `EveryDecided` |
| `governance_burn` | finding 3, `BurnsOwnDeposit` |
| `cashout` | One sale, two workers, two clients and one of every other handler: `PaidForSold`, `CompletedWasPaid`, `PayoutStands` |
| `cashout_queue` | Two sales: `QueueMoves` under fairness |
| `cashout_held` | finding 2, `HeldIsUnsold` |
| `buyflow` | One purchase, racing and dying requests: `SpentOnce`, `CreditWasPaid`, `TruthfulRecord`, `FailureIsListed` |
| `dex` | Two pools, one perhaps on top of the other: `Solvent`, `SharesCovered`, `Funded`, `WorthKept` |
| `mlcoin` | Four messages of any kind, blocks, a month, an import: `Backed`, `CapCoversBuys`, `TreasuryPaid`, `PrincipalReturns` |

Every passing run also checks the type invariant of its module, except the two
that look again at a module already checked with it.

### Bounds, and why they are enough

* **Bridge**: three transfers of 1 or 2 coins, two chains of which one may get a
  route, heights up to 4, a default timeout of 2 blocks and a parameter value of
  1. A wrong second payment needs one transfer to be paid twice and another to
  be robbed; the third makes pruning (`Keep = 1`) drop one entry while others come
  in. `OneChain` closes a chain, raises the minimum and shortens the timeout
  while transfers are under way. A transfer is opened only if its timeout lies
  inside the bound, so that the last height is not an excuse.
* **Escrow**: two users who are buyer and seller of each other, two escrows, two
  sequence numbers, four blocks. A `Duration` of 4 bits and windows of 0, 2 and
  4 seconds of 2 nanoseconds let one window fit and one wrap. The users are
  symmetric and the run has no liveness property, so the symmetry is sound.
* **Governance**: two accounts, two proposals submitted in the first block, six
  blocks: enough for one to change the parameters in the deposit and in the voting
  period of the other. Deposits of 0 or 1 with one coin each make the module
  account fall short. Shares of 0 and 3 against 0 and 9 bonded tokens pass and miss quorum and
  threshold; one account's shares move, and the tokens independently of them. With `Unit = 1000`, 6
  of 9 meets a quorum of 667 only because the quotient is rounded up.
* **CashOut**: one sale (two sales share nothing but the queue) with three account
  sequences, two of which are signed, two payment requests (one repeated, or one for a
  retry), and one death. Two workers, two clients and one administrator, callback
  and poll exist; two of them are at work at once, before and after one
  has died, or three when a re-sign is among them (`BusyBound`): every property relates what one
  handler has read to what another saves meanwhile, and a third is needed only where two
  re-signs meet a settlement. The theorems of section 5 are for any number at once. Workers are interchangeable, and clients.`cashout_queue` has two sales, for the order
  of the queue, and two clients, for a withdrawal that is queued without its transaction; one
  worker, since with two TLC does not finish the temporal check. Other workers cannot hold one up,
  by this argument: a worker's `Scan` and `Release` read only documents, so that the fairness of *one* worker
  brings each queued withdrawal to the head of its own list, whatever the others have done; it
  broadcasts what the sale then holds, and whatever the chain answers the first save of its
  settlement takes the withdrawal out of the queue. It dies at most `MaxFaults` times before.
* **BuyFlow**: one purchase, since purchases share nothing; two of each kind of
  request, so that each can overtake its like; three prompts, one of them lost and two
  known. Purchases, requests and deliveries of a kind are interchangeable and no property is temporal.
* **Dex**: two users, two tokens, two pools, so that liquidity coins of the first can be
  an asset of the second; amounts of 2 and 5, whose products are no squares and
  whose quotients leave remainders; a fee of a quarter and none; five messages,
  which allow create, add, swap, swap back and withdraw by two people. `Unit = 2` makes
  half a coin the last digit, so that a quotient is rounded up often; `WorthKept`
  still bounds each step by half a unit. Users and tokens are symmetric, and `WorthKept` looks at single
  steps.
* **Mlcoin**: a founder whose locked coins mature, a user whose wallet is made at run time (and
  lost by an import), one amount, a reward that is half more after two blocks, and
  every rate scaled so that it cuts: half a minted coin is burned, the total supply of
  5 and daily limits of 1 and 2 are reached, the KES cap refuses a buy that could be paid for, `WordSize = 5` wraps a
  share. Four messages reach buy, repricing, sell, buy, and stake, buy, stake,
  unstake. `MaxPrice` ends what activity alone could raise.

`CHECK_DEADLOCK FALSE` is given for CashOut and BuyFlow, whose documents end. All other
models have blocks or messages that go on for ever.

### Fairness

`Bridge!FairSpec` and `Governance!FairSpec` ask weak fairness of the EndBlocker:
consensus produces blocks, whatever users and relayers do. Nothing is asked of
messages. `CashOut!FairSpec` asks weak fairness of `Scan` (a repeating BullMQ
job) and of the steps of a scan's settlement (each await ends, with a timeout if
need be), and strong fairness of `Release`: a scan stops at a withdrawal the
reserve does not cover, and the assumption says that liquidity recovers again and
again. Users, administrators and callbacks owe nothing. `MCMlcoin!MCSpec` asks weak
fairness of the EndBlocker and of the owner of the first stake, who keeps asking
for it; the claim is that the code does not refuse him for ever.

## 4. Findings

Each is a run in which TLC finds a trace against a sentence of the repository;
`PROJECT.json` quotes it.

1. `bridge_late_ack`: a packet the other chain executed, whose acknowledgement
   comes after the block timeout, is refunded too. The middleware that
   `app/ibc.go` says prevents this only narrows the window.
2. `cashout_held`: the broadcast and the save that takes the withdrawal out of
   the queue are apart; a death in between leaves a "held" withdrawal whose coins
   have moved, and a second signature is asked for.
3. `governance_burn`: a first deposit counts twice, and twice is burned.

Seen in the models and worth a maintainer's look, without a run:
a callback that died after saving the payout is ignored when it is repeated; a
withdrawal that went stale in /sell itself is re-queued without `queuedAt` and
overtakes everybody (`routes/buy.js:818`); the payout's POST is repeated after a lost answer, and
Safaricom may pay both; a transaction accepted by the mempool is taken as final; an
escrow without release, refund or dispute stays open for ever; and the points under
BuyFlow and Mlcoin in section 2.

## 5. What is proved

Every invariant and every action property that a run checks is also a theorem, for all
values of the constants. The proof modules assume only the named assumption of each module
(`BridgeAssumption` and so on: amounts and bounds are numbers, the module account is no user,
parameters and ballots have their types, and, where balances are summed over them, the users are
finitely many, as the accounts of a chain are). One theorem has a hypothesis more, named where it is
described: `BridgeFullyBacked`.

**Sums.** The ledgers state conservation with `SumFunctionOnSet`, which the community module
defines by a recursive function on subsets. `SumLemmas` shows that this function exists, by
induction over the subsets of a finite set; the induction is over a *set* of subsets, so that no
theorem takes an operator as its parameter. What the ledgers use follows: a sum is a number (`SumInt`,
`SumNat`), loses or gains one member (`SumOut`, `SumIn`), changes with one value (`SumUpdate`,
`SumDiffer`, `SumShift`), distributes over union, addition and scaling, and is monotone. The module ends with products and
quotients (`TimesMonotone`, `TimesCancel`, `DivisionBounds`) and with how far a rounded quotient
may be above the exact one: by half a unit (`RoundBounded`, `QuoBounded`).

* **Bridge**: `IInv` = `ControlTypeOK` and `Fresh` and `SettledOnce` and
  `PendingIndex` and `PendingHasMeta` is inductive. `SettledOnce` alone is not:
  opening writes the record at `nextId`, so `Fresh` must say that nothing was ever there;
  and `PendingIndex` is what makes "remove from the list" and "change
  the status" the same step. Three lemmas carry the proof: opening
  (`InitiateIInv`), closing a set of pending transfers for one payment each
  (`PayIInv`, shared by proof, packet timeout and EndBlocker), and steps that
  touch neither (`IdleIInv`). From it follow `BridgeSettledOnce`,
  `BridgePendingIndex`, `BridgePendingHasMeta`, and `BridgeSettles`: the initial
  state maps to the promise's, and every step to `Open`, `Deliver`, `Pay` or a
  stutter. On `IInv` rest the amounts. `EInv`: the ICS-20 escrow account
  holds exactly the coins of the packets under way or delivered (`BridgeEscrow`). `CInv`: the list of
  completed transfers has no duplicate and names only settled ones, which needs that the EndBlocker
  appends each refunded id once (`InOrderSequence`) and that pruning drops a prefix
  (`PrunedPart`), and a chain's balance is the sum of what was settled to it, which a
  pruned entry does not leave (`BridgeIndex`, `BridgeCompletedIndex`). Together they give all of
  `BridgeTypeOK`. `RInv` is the state without routes: the module account holds the sum of the
  pending transfers. `BridgeFullyBacked` states it under `MayRoute = {}`, as the run
  `bridge_routeless` does; with a route it is false (finding 1).
* **Escrow**: `IInv` = `TypeOK` and `Fresh` and `PaidClosed` and `Postponed`.
  `Fresh` orders identifiers by block and number and is why an import that starts
  the numbers over cannot collide (its block is later). `PaidClosed` ties
  the history to the record's status, `Postponed` says that the release time of a window
  that fits is the opening block plus the window, which rests on the two arithmetic
  lemmas about `Wrapped` and the division by `Second`. Results:
  `EscrowTypeOK` (no account is overdrawn), `EscrowSettles`, `EscrowDisputeHolds`, and
  `EscrowAccounted`: opening adds a member to the sum of the open escrows (`CreateAInv`, again
  from `Fresh`: a record replaced would drop out of the sum), closing takes one out and
  adds it to what a user has been paid (`CloseAInv`).
* **Governance**: `IInv` = `ControlTypeOK` and `Fresh` and `Untouched` and
  `RefundedOnce`. `RefundedOnce` alone does not say that a proposal still open has
  been paid back nothing, which is what keeps a refund at its decision from being
  the second one; `Untouched` says it, and `Fresh` says that a submission
  overwrites no record. Whom the account can
  pay is left open there, and only that each payment is a whole deposit is used.
  Results: `GovernanceRefundedOnce`, and `GovernanceDecisionStands` step by step
  (`MessageStands`, `EndBlockerStands`): every step concerns one proposal, and
  that one is not decided. `MInv` adds the money: the other types and `OwnCoins`, as a sum over the
  proposals of what each holds of an account's coins (`OwedMoves`); the module account is
  not overdrawn because a refund is made only to those it can pay, one after the other
  (`RefundsAffordable`). Results: `GovernanceTypeOK`, `GovernanceOwnCoins`.
  `GovernancePassedByStake` is about the tally: a voter's four weighted parts, each truncated, never exceed
  the shares he has then (`HalfOfShares`, `WeightBounded`, `FourOptions`), so the tallied power is at most the
  shares of the voters (`TallyBounded`); a rounded ratio that meets the quorum means that
  power is the quorum of the bonded tokens, short of half a last digit (`QuorumHeld`); and a
  proposal that passes has a yes vote with shares behind it, unless the threshold is negative, which nothing
  forbids (`YesHasShares`). Shares and tokens are unrelated there, as after a slash.
* **Dex**: `IInv` = `TypeOK` and `Funded` (a pool with shares has both reserves), which the division in
  Minted and RemoveLiquidity needs. `WorthKept` compares what a
  share is worth before and after. For a pool that grows or shrinks each side has to keep pace with the
  shares (`BothSides`, `DepositSide`, `WithdrawalSide`). For a swap it is the product of the
  reserves: how much the half-even quotient can pay more than the exact one (`SwapQuotient`) gives, for
  every input, fee and `Unit`, that `CalculateSwap` leaves something of the reserve and costs the
  product at most half a unit of the side paid into (`SwapProduct`). Results: `DexTypeOK`, `DexFunded`,
  `DexWorthKept`. Nonlinear steps are lemmas of their own. `SInv` = `Solvent` and `Covered`
  is inductive on top of it: each message is an exchange between one account and the
  module (`ExchangeMoves`) and changes one pool (`PoolSolvent`) by the same amounts, and shares are
  minted and burned in the total and in the bank at once (`PoolSums`, `RecordsOne`). That a pool
  may hold liquidity coins of another is no exception, since the sums are per denomination.
  Results: `DexSolvent`, `DexSharesCovered`.
* **BuyFlow**: four strengthenings. `RefInv`: a request saves only a prompt that was sent.
  `PaidInv`: a purchase that is confirmed or past it or has been transferred, a delivery that
  will confirm one, and the purchase of every /credit request in progress have a paid prompt.
  `RecordInv`: hashes and liquidity that are recorded, or are about to be, exist on the
  chain, and a failed add is on the list before its purchase says so. `AddInv`: liquidity
  added and about to be added is covered by transfers. `SpentOnce` is inductive because it
  counts the requests that hold a claim, and a claim takes the status with it. Results: all
  five invariants of the run, for any purchases and requests.
* **CashOut**: everything is for any numbers of workers, clients, administrators, callbacks, polls and
  failures; no theorem has a hypothesis. `PaidInv` carries two results. It says that a reference about to be
  recorded names an accepted payment (`Accepted`), that a payout on record has Safaricom's
  outcome and nothing is completed without one that succeeded (`Recorded`), and that a callback
  in progress, whatever it read, goes by the payment on record and its outcome (`Reported`). So two
  callbacks in progress agree, and a poll completes only what has been paid by the time it looks:
  `CashOutCompletedWasPaid` and, step by step, `CashOutPayoutStands`. `SoldInv` counts: the payouts
  asked for and the settlements between an accepted broadcast and that request (`InHand`) are at
  most the sell transactions accepted, since a broadcast that adds one to the settlements adds
  one to the transactions (`BroadcastSold`) and `Burn` turns one into a request (`BurnSold`); hence
  `CashOutPaidForSold`. `CashOutTypeOK` needs `QueueInv`: whoever is in the queue has its /sell request over, so
  it is put there once.
* **Mlcoin**: `IInv` = `LedgerTypeOK` (all types but the bank's coins), `SupplyCapped` and
  `CapCoversBuys` (`MlcoinCapCoversBuys`). What is minted is bounded before it is added and
  what is burned is part of it (`BurnedPart`), so wallets grow by a number and the supply stays
  under its cap (`MintKeeps`); a payment a wallet covers leaves wallets, also when sender
  and receiver are the same (`MoveKeeps`). Two invariants stand on it. `Covered`: wallets, open
  stakes and fees paid are at most the circulating supply and what the genesis left out of it.
  It is an inequality since three things
  lower the left side alone: a sale whose subtraction from the supply is skipped (`SellCovered`), an import that
  forgets the stakes, and one that loses wallets (`ImportedWallets`). What an allowance spent on its own owner
  makes is counted in `conjured`, and the equation holds through it. `MlcoinBacked` adds the
  supply's cap. `DInv`: every
  stake is positive and the bank's coins are numbers. A truncated product that may have wrapped is at
  most the exact share (`ShareNumber`), so all shares fit into half the fees (`SharesFit`), so the
  module account covers every payment and none is skipped (`AllPaid`). Results: `MlcoinTypeOK`,
  `MlcoinTreasuryPaid`.

## 6. What is only model-checked

* Liveness: `EverySettled`, `QueueMoves`, `EveryDecided`, `PrincipalReturns`. Temporal
  reasoning with fairness and ENABLED is out of the prover's reach.
* That the wrong versions (`MUTANT`) break the properties, and the three traces of section 4.

## 7. What is not modelled, and what to keep in mind

* Genesis of `x/crosschain`, which carries neither transfers nor their metadata,
  and of `x/governance`, which carries everything and changes nothing.
* Transactions accepted by the mempool (`BROADCAST_MODE_SYNC`) that fail in
  their block; the broadcast of the model is final.
* The gates in front of a sale and of a purchase (AML, limits, reserves, locks): their answer is
  free in CashOut and BuyFlow. Their own races are a hazard on the list; nothing in the code
  says by how much concurrent sales may pass a limit, so there is nothing to check.
* What an executed governance message of another module does to balances. A bank send of an account that the
  authority controls, its own module account among them, would move coins that `OwnCoins` counts.
* Liveness of the queue with several workers (section 3 has the argument).
* The circuit breaker: open, it is one more refusal of a payout.
* The reconciliation job, which never finds a record it may act on.
* `x/wasm` and `x/wasmbridge` (an interpreter's state), `x/mallcoin`, `x/badge`,
  `x/edu`, `x/vault` (no protocol between accounts or steps), app wiring, the CRUD
  parts of the backend, front ends, infrastructure, generated code. Front ends and CRUD are
  most of the repository's lines: they keep no state that several actors change, so the share
  of lines these models stand for stays small.
* The EscrowSeq counter, heights and ids are unbounded in the code and never come near 2^64;
  only the dispute window, which a user chooses, and a staker's share of the fees
  keep their width.

## 8. Plan

Done, the ones that hold users' coins first: Settlement and Bridge, CashOut, Escrow,
Governance, Dex, Mlcoin with mallpoints, BuyFlow, and proofs of every invariant and
action property of each. Next:

1. A run for the deposit of a passed proposal whose messages fail, which is
   neither burned nor refunded.
2. `SellGates`: AML token, weekly limit, daily cap and reserve under concurrent
   sales, once the code says what overshoot it accepts.
3. `QueueMoves` for every queued withdrawal, with several workers, once a late `withdrawal.save` of a
   resign cannot leave one without its transaction.
