------------------------------ MODULE Mlcoin -------------------------------
(***************************************************************************)
(* x/mlcoin: the ledger of Mallcoin wallets, its supply, staking, fees and *)
(* the KES market, with x/mallpoints, which mints through it.  Wallets are *)
(* records of this module; only the distribution of fees mints coins of    *)
(* the bank.  A message that fails changes nothing.                        *)
(*                                                                         *)
(* Left out as only queries read them: transactions, trades, volumes,      *)
(* EmittedTotal, BurnedTotal, the snapshots and RewardsEarned.  Activity,  *)
(* which moves the price, the calendar, which opens the conversion windows *)
(* and sets the daily limit, and the block intervals are the environment's *)
(* choice.  Arithmetic is exact, the one product that can pass 64 bits     *)
(* (Share) excepted.  An import keys a wallet by its Index, which only the *)
(* wallets of a genesis carry.                                             *)
(***************************************************************************)
EXTENDS Integers, Sequences, FiniteSets, Functions

CONSTANTS Users,
          Spenders,      \* accounts or contracts that spend an allowance
          Genesis,       \* wallets of the genesis: balance and locked
          Indexed,       \* users whose wallet the genesis lists, under its Index
          GenesisKes,    \* KES balances of the genesis
          Circulating, DailyLimit, TotalSupply,   \* EmissionState of the genesis
          DailyLimits,   \* limits the emission schedule may set
          BurnRate, BurnUnit,     \* burn on mint (bps of 10000)
          FeeRate, FeeUnit,       \* fee of a transfer (97 of 10^7)
          TradeUnit,              \* a trade accrues one TradeUnit-th (100)
          PriceUnit,              \* coins that move the price by one (1000)
          FirstPrices,            \* buy and sell price while none is stored
          Adjustments,            \* price changes activity may call for
          KesCap,                 \* maxBuyKesLiquidity
          MinStake, RewardDivisor, LockBlocks,
          BonusBlocks, BonusUnit, \* one BonusUnit-th (100) more for ten months of blocks
          Ratio, Scale,           \* coins for points
          PointsCap,              \* MonthlyPointsCap
          WordSize,               \* 2^64
          Amounts,                \* amounts a message may name
          MaxPrice,               \* bound: activity raises the buy price no further
          MaxAge                  \* bound: blocks of a stake are counted no further

ASSUME MlcoinAssumption ==
    /\ IsFiniteSet(Users)
    /\ Genesis \in [Users -> [balance : Nat, locked : Nat]]
    /\ \A u \in Users \ Indexed : Genesis[u] = [balance |-> 0, locked |-> 0]
    /\ GenesisKes \in [Users -> Nat]
    /\ TotalSupply \in Nat /\ Circulating \in 0..TotalSupply
    /\ DailyLimits \subseteq Nat /\ DailyLimit \in DailyLimits
    /\ BurnUnit \in Nat \ {0} /\ BurnRate \in 0..BurnUnit
    /\ FeeRate \in Nat /\ FeeUnit \in Nat \ {0}
    /\ TradeUnit \in Nat \ {0} /\ PriceUnit \in Nat \ {0}
    /\ FirstPrices \in [buy : Nat \ {0}, sell : Nat \ {0}]
    /\ Adjustments \subseteq Int /\ KesCap \in Nat
    /\ MinStake \in Nat /\ RewardDivisor \in Nat \ {0}
    /\ BonusBlocks \in Nat \ {0} /\ BonusUnit \in Nat \ {0}
    /\ LockBlocks \in Nat /\ MaxAge \in Nat /\ LockBlocks <= MaxAge
    /\ Ratio \in Nat /\ Scale \in Nat \ {0} /\ PointsCap \in Nat
    /\ WordSize \in Nat \ {0} /\ Amounts \subseteq Nat \ {0} /\ MaxPrice \in Nat

VARIABLES wallet,      \* Keeper.WalletBalance: Balance and Locked; 0 where there is none
          circulating, \* EmissionState.Circulating
          dailyLimit,  \* EmissionState.DailyLimit
          fees,        \* FeesAccumulated, all kinds together
          stakes,      \* StakingRecords in the order of StakingSequence
          allowance,   \* Keeper.Allowances, by owner and spender
          kes,         \* Keeper.KesBalance
          price,       \* Keeper.MarketPrice
          bought,      \* totalBuyKesCache
          points,      \* x/mallpoints Keeper.UserPoints
          issued,      \* MonthlyPointsIssued of the current month
          bank,        \* bank coins "mlcoin": of the module, the treasury, the stakers
          matured,     \* whether block time has passed UnlockTime
          collected,   \* history: fees taken from senders of transfers
          kesPaid,     \* history: KES paid less KES received since the last import
          conjured     \* history: coins made by allowances spent on their own owner

supplyVars == <<circulating, dailyLimit>>
marketVars == <<kes, price, bought, kesPaid>>
pointVars == <<points, issued>>
vars == <<wallet, supplyVars, fees, stakes, allowance, marketVars, pointVars, bank, matured,
          collected, conjured>>

Stakes == [owner : Users, amount : Nat, age : Nat, active : BOOLEAN]

Init == /\ wallet = Genesis
        /\ circulating = Circulating
        /\ dailyLimit = DailyLimit
        /\ fees = 0 /\ stakes = <<>>
        /\ allowance = [u \in Users |-> [s \in Spenders |-> 0]]
        /\ kes = GenesisKes /\ price = FirstPrices /\ bought = 0
        /\ points = [u \in Users |-> 0] /\ issued = 0
        /\ bank = [module |-> 0, treasury |-> 0, stakers |-> 0]
        /\ matured = FALSE
        /\ collected = 0 /\ kesPaid = 0 /\ conjured = 0

-----------------------------------------------------------------------------
(* MintToWallet, under WithMintingEnabled.                                 *)

Burned(n) == (n * BurnRate) \div BurnUnit

\* What may be minted: the daily limit bounds one call, not a day.
MayMint(n) == circulating + n <= TotalSupply /\ n <= dailyLimit

\* MUTANT: what is burned is taken from the supply and not from the wallet.
CreditedInFull(w, u, n) == [w EXCEPT ![u].balance = @ + n]

\* w with n minted to u, less what is burned.
Credited(w, u, n) == [w EXCEPT ![u].balance = @ + n - Burned(n)]

Emit(n) == circulating' = circulating + n - Burned(n)

-----------------------------------------------------------------------------
(* Transfers.                                                              *)

\* u's wallet with vested coins released: when they have matured.
Released(u) == IF wallet[u].locked > 0 /\ matured
               THEN [balance |-> wallet[u].balance + wallet[u].locked, locked |-> 0]
               ELSE wallet[u]

\* The sender's wallet w less `paid` is written before the receiver's is read.
Move(u, w, v, paid, n) ==
    LET sent == [wallet EXCEPT ![u] = [w EXCEPT !.balance = @ - paid]]
    IN wallet' = [sent EXCEPT ![v].balance = @ + n]

OnlyWallets == UNCHANGED <<supplyVars, stakes, marketVars, pointVars, bank, matured>>

TransferFee(n) == LET part == (n * FeeRate) \div FeeUnit IN IF part = 0 THEN 1 ELSE part

\* MsgTransferMallcoin: a wallet with locked coins cannot send; the fee comes on top.
TransferMallcoin(u, v, n) ==
    /\ Released(u).locked = 0
    /\ Released(u).balance >= n + TransferFee(n)
    /\ Move(u, Released(u), v, n + TransferFee(n), n)
    /\ fees' = fees + TransferFee(n) /\ collected' = collected + TransferFee(n)
    /\ UNCHANGED <<allowance, conjured>> /\ OnlyWallets

\* A contract's transfer: no fee, and locked coins beside the balance do not matter.
Transfer(u, v, n) ==
    /\ Released(u).balance >= n
    /\ Move(u, Released(u), v, n, n)
    /\ UNCHANGED <<fees, collected, allowance, conjured>> /\ OnlyWallets

Approve(u, s, n) ==
    /\ allowance' = [allowance EXCEPT ![u][s] = n]
    /\ UNCHANGED <<wallet, fees, collected, conjured>> /\ OnlyWallets

\* MUTANT: the allowance alone decides.
TransferFromUnchecked(u, s, v, n) ==
    /\ allowance[u][s] >= n
    /\ allowance' = [allowance EXCEPT ![u][s] = @ - n]
    /\ wallet' = [[wallet EXCEPT ![u].balance = @ - n] EXCEPT ![v].balance = wallet[v].balance + n]
    /\ conjured' = IF u = v THEN conjured + n ELSE conjured
    /\ UNCHANGED <<fees, collected>> /\ OnlyWallets

\* Both wallets are read before either is written: when u and v are the same,
\* the second write is all that remains.
TransferFrom(u, s, v, n) ==
    /\ allowance[u][s] >= n /\ wallet[u].balance >= n
    /\ allowance' = [allowance EXCEPT ![u][s] = @ - n]
    /\ wallet' = [[wallet EXCEPT ![u].balance = @ - n] EXCEPT ![v].balance = wallet[v].balance + n]
    /\ conjured' = IF u = v THEN conjured + n ELSE conjured
    /\ UNCHANGED <<fees, collected>> /\ OnlyWallets

-----------------------------------------------------------------------------
(* Staking.                                                                *)

Stake(u, n) ==
    /\ n >= MinStake /\ wallet[u].balance >= n
    /\ wallet' = [wallet EXCEPT ![u].balance = @ - n]
    /\ stakes' = Append(stakes, [owner |-> u, amount |-> n, age |-> 0, active |-> TRUE])
    /\ UNCHANGED <<supplyVars, fees, allowance, marketVars, pointVars, bank, matured, collected,
                   conjured>>

\* For n coins staked for `age` blocks.  EngagementScore never exceeds 1000, so
\* its multiplier is always 1.
Rewards(n, age) == ((n \div RewardDivisor) * (BonusUnit + age \div BonusBlocks)) \div BonusUnit

\* MUTANT: a reward that may not be minted refuses the whole message.
UnstakeWithReward(k) ==
    /\ stakes[k].active /\ stakes[k].age >= LockBlocks
    /\ LET u == stakes[k].owner  n == stakes[k].amount  reward == Rewards(n, stakes[k].age) IN
         /\ MayMint(reward)
         /\ wallet' = Credited([wallet EXCEPT ![u].balance = @ + n], u, reward)
         /\ Emit(reward)
    /\ stakes' = [stakes EXCEPT ![k].active = FALSE]
    /\ UNCHANGED <<dailyLimit, fees, allowance, marketVars, pointVars, bank, matured, collected,
                   conjured>>

\* The principal comes back in any case; a reward that may not be minted is forfeited.
UnstakeAndClaimRewards(k) ==
    /\ stakes[k].active /\ stakes[k].age >= LockBlocks
    /\ LET u == stakes[k].owner  n == stakes[k].amount
           reward == Rewards(n, stakes[k].age)
           back == [wallet EXCEPT ![u].balance = @ + n] IN
         \/ /\ reward > 0 /\ MayMint(reward)
            /\ wallet' = Credited(back, u, reward) /\ Emit(reward)
         \/ /\ ~(reward > 0 /\ MayMint(reward))
            /\ wallet' = back /\ UNCHANGED circulating
    /\ stakes' = [stakes EXCEPT ![k].active = FALSE]
    /\ UNCHANGED <<dailyLimit, fees, allowance, marketVars, pointVars, bank, matured, collected,
                   conjured>>

-----------------------------------------------------------------------------
(* The KES market.                                                         *)

PriceChange(n) == IF n \div PriceUnit = 0 THEN 1 ELSE n \div PriceUnit
Lowered(p, by) == IF p > by THEN p - by ELSE 1

BuyMallcoin(u, n) ==
    LET cost == n * price.buy IN
      /\ bought + cost <= KesCap /\ kes[u] >= cost /\ MayMint(n)
      /\ kes' = [kes EXCEPT ![u] = @ - cost]
      /\ bought' = bought + cost /\ kesPaid' = kesPaid + cost
      /\ wallet' = Credited(wallet, u, n) /\ Emit(n)
      /\ price' = [buy |-> price.buy + PriceChange(n), sell |-> price.sell + PriceChange(n)]
      /\ fees' = fees + n \div TradeUnit
      /\ UNCHANGED <<dailyLimit, stakes, allowance, pointVars, bank, matured, collected, conjured>>

\* A sale at KES `gain`, taken off the buys by `off`.  Both subtractions are
\* skipped when they would go below zero.
Sold(u, n, gain, off) ==
    /\ wallet[u].balance >= n
    /\ wallet' = [wallet EXCEPT ![u].balance = @ - n]
    /\ circulating' = IF circulating >= n THEN circulating - n ELSE circulating
    /\ kes' = [kes EXCEPT ![u] = @ + gain] /\ kesPaid' = kesPaid - gain
    /\ bought' = IF bought >= off THEN bought - off ELSE bought
    /\ price' = [buy |-> Lowered(price.buy, PriceChange(n)),
                 sell |-> Lowered(price.sell, PriceChange(n))]
    /\ fees' = fees + n \div TradeUnit
    /\ UNCHANGED <<dailyLimit, stakes, allowance, pointVars, bank, matured, collected, conjured>>

\* MUTANT: the buys are reduced by what the coins would cost to buy.
SellAtBuyPrice(u, n) == Sold(u, n, n * price.sell, n * price.buy)

SellMallcoin(u, n) == Sold(u, n, n * price.sell, n * price.sell)

-----------------------------------------------------------------------------
(* x/mallpoints.                                                           *)

\* By the points issuer, who has a badge or a proof of work where one is needed.
AwardPoints(u, n) ==
    /\ issued + n <= PointsCap
    /\ points' = [points EXCEPT ![u] = @ + n] /\ issued' = issued + n
    /\ UNCHANGED <<wallet, supplyVars, fees, stakes, allowance, marketVars, bank, matured,
                   collected, conjured>>

\* On a day that is open to u; points that are worth no coin are not taken.
ConvertToMallcoin(u, n) ==
    LET coins == (n * Ratio) \div Scale IN
      /\ coins > 0 /\ points[u] >= n /\ MayMint(coins)
      /\ points' = [points EXCEPT ![u] = @ - n]
      /\ wallet' = Credited(wallet, u, coins) /\ Emit(coins)
      /\ UNCHANGED <<dailyLimit, fees, stakes, allowance, marketVars, issued, bank, matured,
                     collected, conjured>>

-----------------------------------------------------------------------------
(* The end of a block.                                                     *)

\* updateDynamicPricing: a price is lowered only if something is left of it.
Repriced(adjustment) ==
    LET moved(p) == IF p + adjustment > 0 THEN p + adjustment ELSE p
    IN [buy |-> moved(price.buy), sell |-> moved(price.sell)]

\* The stakes that count, and what they add up to.
Active == {k \in DOMAIN stakes : stakes[k].active}
Staked == SumFunction([k \in Active |-> stakes[k].amount])

\* MUTANT: every staker gets the part of all fees.
ShareOfAll(half, n, staked) == ((2 * half * n) % WordSize) \div staked

\* A staker's part of `half`; the product wraps.
Share(half, n, staked) == ((half * n) % WordSize) \div staked

\* S are the stakes that are paid their part out of `start`: in the order of the
\* records, each that the module account covers after the ones before it.
Payable(part, start, S) ==
    \A k \in Active : k \in S <=> SumFunctionOnSet(part, {j \in S : j < k}) + part[k] <= start

\* DistributeFees: as many coins as there are fees, half to the stakers, the
\* rest to the treasury; a payment the module account cannot make is skipped.
DistributeFees ==
    LET half == fees \div 2
        start == bank.module + fees
        part == [k \in Active |-> Share(half, stakes[k].amount, Staked)]
    IN \E S \in SUBSET Active :
         /\ Payable(part, start, S)
         /\ LET paid == SumFunctionOnSet(part, S)
                rest == IF fees - half <= start - paid THEN fees - half ELSE 0
            IN /\ fees' = 0
               /\ bank' = [module |-> start - paid - rest, treasury |-> bank.treasury + rest,
                           stakers |-> bank.stakers + paid]

\* EndBlocker: at their intervals the price, then the schedule and the fees.
EndBlocker ==
    /\ stakes' = [k \in DOMAIN stakes |->
                    [stakes[k] EXCEPT !.age = IF @ < MaxAge THEN @ + 1 ELSE @]]
    /\ \/ UNCHANGED price
       \/ \E a \in Adjustments : price.buy + a <= MaxPrice /\ price' = Repriced(a)
    /\ \/ UNCHANGED <<dailyLimit, fees, bank>>
       \/ dailyLimit' \in DailyLimits /\ DistributeFees
    /\ UNCHANGED <<wallet, circulating, allowance, kes, bought, kesPaid, pointVars, matured,
                   collected, conjured>>

\* Block time: a new month begins, or passes UnlockTime.
NewMonth ==
    /\ issued' = 0
    /\ UNCHANGED <<wallet, supplyVars, fees, stakes, allowance, marketVars, points, bank, matured,
                   collected, conjured>>

Mature ==
    /\ ~matured /\ matured' = TRUE
    /\ UNCHANGED <<wallet, supplyVars, fees, stakes, allowance, marketVars, pointVars, bank,
                   collected, conjured>>

\* ExportGenesis and InitGenesis: emission, fees and the wallets of the genesis
\* survive.  The other wallets and all points were made without an Index, so
\* each is written under the empty key, over the one before it, where no user's
\* message looks.  Stakes, allowances, KES, prices, the cached buys and the
\* month's points are not exported.
ExportImport ==
    /\ wallet' = [u \in Users |-> IF u \in Indexed THEN wallet[u]
                                                 ELSE [balance |-> 0, locked |-> 0]]
    /\ points' = [u \in Users |-> 0]
    /\ stakes' = <<>>
    /\ allowance' = [u \in Users |-> [s \in Spenders |-> 0]]
    /\ kes' = [u \in Users |-> 0] /\ kesPaid' = 0
    /\ price' = FirstPrices /\ bought' = 0 /\ issued' = 0
    /\ UNCHANGED <<supplyVars, fees, bank, matured, collected, conjured>>

-----------------------------------------------------------------------------

Message ==
    \E u \in Users, n \in Amounts :
      \/ \E v \in Users : \/ TransferMallcoin(u, v, n) \/ Transfer(u, v, n)
                          \/ \E s \in Spenders : TransferFrom(u, s, v, n)
      \/ \E s \in Spenders : Approve(u, s, n)
      \/ Stake(u, n)
      \/ BuyMallcoin(u, n) \/ SellMallcoin(u, n)
      \/ AwardPoints(u, n) \/ ConvertToMallcoin(u, n)

Next == \/ Message
        \/ \E k \in DOMAIN stakes : UnstakeAndClaimRewards(k)
        \/ EndBlocker \/ NewMonth \/ Mature \/ ExportImport

Spec == Init /\ [][Next]_vars

-----------------------------------------------------------------------------
(* Properties.                                                             *)

LedgerTypeOK ==
    /\ wallet \in [Users -> [balance : Nat, locked : Nat]]
    /\ circulating \in Nat /\ dailyLimit \in DailyLimits /\ fees \in Nat
    /\ stakes \in Seq(Stakes)
    /\ allowance \in [Users -> [Spenders -> Nat]]
    /\ kes \in [Users -> Nat] /\ price \in [buy : Nat \ {0}, sell : Nat \ {0}]
    /\ bought \in Nat /\ points \in [Users -> Nat] /\ issued \in Nat
    /\ matured \in BOOLEAN /\ conjured \in Nat
    /\ collected \in Nat /\ kesPaid \in Int

\* Balances, stakes and allowances never go below zero, whatever is spent from
\* a wallet by its owner, by a spender or by a contract, nor does the module
\* account, whatever is distributed.
TypeOK == /\ LedgerTypeOK
          /\ bank \in [module : Nat, treasury : Nat, stakers : Nat]

InWallets(w) == SumFunction([u \in Users |-> w[u].balance + w[u].locked])

\* What users hold: wallets, locked coins included, and the stakes still open.
Holdings == InWallets(wallet) + Staked

\* What the genesis hands out beyond what it declares as circulating.
Undeclared == InWallets(Genesis) - Circulating

\* What circulates keeps to the cap, whatever is minted, burned or sold.
SupplyCapped == circulating <= TotalSupply

\* No transfer, stake, unstake, release, trade, conversion or import creates
\* coins: what users hold and the fees they have paid is covered by the
\* circulating supply, what the genesis left out of it and what TransferFrom to
\* the owner itself has made (both wallets are read first, mgp20.go:76-103), by
\* the amounts of those calls and no more; and the supply keeps to its cap.
Backed == /\ Holdings + collected <= circulating + Undeclared + conjured
          /\ SupplyCapped

\* The cached total of buys bounds what has been paid in net of what was paid
\* out, so the cap on buys caps that too, although a sale's subtraction is
\* skipped when the cache is too small (SellMallcoin, line 333).
CapCoversBuys == kesPaid <= bought /\ bought <= KesCap

\* A distribution always finds the treasury's half: the stakers' parts, each
\* truncated from a product that may have wrapped, never add up to more than
\* the other half (DistributeFees, lines 367-445).
TreasuryPaid ==
    [][bank' # bank => /\ bank'.treasury = bank.treasury + (fees - fees \div 2)
                       /\ bank'.stakers - bank.stakers <= fees \div 2]_vars

Open(k) == k \in DOMAIN stakes /\ stakes[k].active

\* A stake, here the first, is eventually paid back if its owner keeps asking:
\* exhausted supply or a low daily limit forfeits the reward and never keeps
\* the principal (UnstakeAndClaimRewards, lines 168-183).  An import ends it too.
PrincipalReturns == Open(1) ~> ~Open(1)
=============================================================================
