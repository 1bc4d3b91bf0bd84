---------------------------- MODULE MlcoinProofs ----------------------------
(***************************************************************************)
(* Theorems about Mlcoin for every value of its constants.  On the         *)
(* invariant IInv of types and caps rest two more: Covered, that what      *)
(* users hold and have paid is covered by the declared supply, and DInv,   *)
(* by which the stakers' parts fit into their half of the fees.            *)
(***************************************************************************)
EXTENDS Mlcoin, SumLemmas, TLAPS

\* No wallet, stake, allowance or KES balance is overdrawn, and the caps are kept.
IInv == LedgerTypeOK /\ SupplyCapped /\ CapCoversBuys

\* What the wallets are.
Wallets == [Users -> [balance : Nat, locked : Nat]]

-----------------------------------------------------------------------------
(* Arithmetic.                                                             *)

\* Products of naturals, and their truncated quotients, are naturals.
LEMMA DivNat ==
  ASSUME NEW n \in Nat, NEW d \in Nat \ {0}
  PROVE  n \div d \in Nat /\ (n \div d) * d <= n
  OBVIOUS

\* A positive factor can be cancelled.
LEMMA Cancel ==
  ASSUME NEW k \in Nat \ {0}, NEW a \in Nat, NEW b \in Nat, a * k <= b * k PROVE a <= b
  OBVIOUS

\* No more is burned than is minted: the rate is a part of the unit.
LEMMA BurnedPart ==
  ASSUME NEW n \in Nat PROVE Burned(n) \in 0..n
  <1> DEFINE q == (n * BurnRate) \div BurnUnit
  <1>1. BurnUnit \in Nat \ {0} /\ BurnRate \in Nat /\ BurnRate <= BurnUnit
    BY MlcoinAssumption
  <1>2. n * BurnRate \in Nat /\ n * BurnUnit \in Nat
    BY <1>1
  <1>3. q \in Nat /\ q * BurnUnit <= n * BurnRate
    BY <1>1, <1>2, DivNat
  <1>4. n * BurnRate <= n * BurnUnit
    BY <1>1
  <1>5. q * BurnUnit \in Nat
    BY <1>1, <1>3
  <1>6. q * BurnUnit <= n * BurnUnit
    BY <1>2, <1>3, <1>4, <1>5
  <1> HIDE DEF q
  <1>7. q <= n
    BY <1>1, <1>3, <1>6, Cancel
  <1> QED BY <1>3, <1>7 DEF Burned, q

\* The parts and prices of a trade are numbers, and a lowered price is one.
LEMMA TradeNumbers ==
  ASSUME NEW n \in Nat
  PROVE  /\ n \div TradeUnit \in Nat
         /\ PriceChange(n) \in Nat
         /\ \A p \in Nat \ {0} : Lowered(p, PriceChange(n)) \in Nat \ {0}
  <1>1. n \div TradeUnit \in Nat /\ n \div PriceUnit \in Nat
    BY DivNat, MlcoinAssumption
  <1>2. PriceChange(n) \in Nat
    BY <1>1 DEF PriceChange
  <1> QED BY <1>1, <1>2 DEF Lowered

\* The fee of a transfer is a number.
LEMMA FeeNumber == ASSUME NEW n \in Nat PROVE TransferFee(n) \in Nat
  <1>1. n * FeeRate \in Nat /\ FeeUnit \in Nat \ {0}
    BY MlcoinAssumption
  <1>2. (n * FeeRate) \div FeeUnit \in Nat
    BY <1>1, DivNat
  <1> QED BY <1>2 DEF TransferFee

\* A reward, and the coins for points, are numbers.
LEMMA RewardNumber ==
  ASSUME NEW n \in Nat
  PROVE  (n * Ratio) \div Scale \in Nat /\ \A age \in Nat : Rewards(n, age) \in Nat
  <1>1. n * Ratio \in Nat /\ Scale \in Nat \ {0} /\ RewardDivisor \in Nat \ {0}
    BY MlcoinAssumption
  <1>2. ASSUME NEW age \in Nat PROVE Rewards(n, age) \in Nat
    <2> DEFINE base == n \div RewardDivisor
               grown == BonusUnit + age \div BonusBlocks
    <2>1. BonusUnit \in Nat \ {0} /\ BonusBlocks \in Nat \ {0}
      BY MlcoinAssumption
    <2>2. base \in Nat /\ age \div BonusBlocks \in Nat
      BY <1>1, <2>1, DivNat
    <2>3. grown \in Nat
      BY <2>1, <2>2
    <2>4. Rewards(n, age) = (base * grown) \div BonusUnit
      BY DEF Rewards
    <2> HIDE DEF base, grown
    <2>5. base * grown \in Nat
      BY <2>2, <2>3
    <2> QED BY <2>1, <2>4, <2>5, DivNat
  <1> QED BY <1>1, <1>2, DivNat

-----------------------------------------------------------------------------
(* Minting and moving.                                                     *)

\* Minting what may be minted keeps wallets and cap.
LEMMA MintKeeps ==
  ASSUME circulating \in Nat, NEW w \in Wallets, NEW u \in Users, NEW n \in Nat,
         MayMint(n), Emit(n)
  PROVE  /\ Credited(w, u, n) \in Wallets
         /\ circulating' \in Nat /\ SupplyCapped'
  <1>1. Burned(n) \in 0..n /\ TotalSupply \in Nat
    BY BurnedPart, MlcoinAssumption
  <1>2. circulating' \in Nat /\ circulating' <= TotalSupply
    BY <1>1 DEF Emit, MayMint
  <1>3. Credited(w, u, n) \in Wallets
    BY <1>1 DEF Credited, Wallets
  <1> QED BY <1>2, <1>3 DEF SupplyCapped

\* A release of vested coins leaves a wallet.
LEMMA ReleasedWallet ==
  ASSUME wallet \in Wallets, NEW u \in Users
  PROVE  Released(u) \in [balance : Nat, locked : Nat]
  BY DEF Released, Wallets

\* A payment the wallet covers leaves wallets, also to its own sender.
LEMMA MoveKeeps ==
  ASSUME wallet \in Wallets, NEW u \in Users, NEW v \in Users,
         NEW w \in [balance : Nat, locked : Nat], NEW paid \in Nat, NEW n \in Nat,
         w.balance >= paid, Move(u, w, v, paid, n)
  PROVE  wallet' \in Wallets
  <1> DEFINE sent == [wallet EXCEPT ![u] = [w EXCEPT !.balance = @ - paid]]
  <1>1. sent \in Wallets
    BY DEF Wallets
  <1>2. wallet' = [sent EXCEPT ![v].balance = @ + n]
    BY DEF Move
  <1> HIDE DEF sent
  <1> QED BY <1>1, <1>2 DEF Wallets

\* Adding to and taking from a wallet, as long as it covers it.
LEMMA WalletKeeps ==
  ASSUME NEW w \in Wallets, NEW u \in Users, NEW n \in Nat
  PROVE  /\ [w EXCEPT ![u].balance = @ + n] \in Wallets
         /\ w[u].balance >= n => [w EXCEPT ![u].balance = @ - n] \in Wallets
  BY DEF Wallets

\* The parts of the invariant.
LEMMA Types ==
  ASSUME IInv
  PROVE  /\ wallet \in Wallets
         /\ circulating \in Nat /\ dailyLimit \in DailyLimits
         /\ fees \in Nat /\ collected \in Nat /\ conjured \in Nat
         /\ stakes \in Seq(Stakes)
         /\ allowance \in [Users -> [Spenders -> Nat]]
         /\ kes \in [Users -> Nat] /\ price \in [buy : Nat \ {0}, sell : Nat \ {0}]
         /\ bought \in Nat /\ kesPaid \in Int
         /\ kesPaid <= bought /\ bought <= KesCap
         /\ circulating <= TotalSupply
  BY DEF IInv, LedgerTypeOK, Wallets, SupplyCapped, CapCoversBuys

\* What a step that stays out of the market and mints nothing has to keep.
LEMMA OffMarket ==
  ASSUME IInv, LedgerTypeOK', UNCHANGED <<circulating, bought, kesPaid>>
  PROVE  IInv'
  BY DEF IInv, SupplyCapped, CapCoversBuys
-----------------------------------------------------------------------------
(* Every message.                                                          *)

\* Every kind of transfer.
LEMMA TransfersIInv ==
  ASSUME IInv, NEW u \in Users, NEW v \in Users, NEW n \in Amounts,
         \/ TransferMallcoin(u, v, n) \/ Transfer(u, v, n)
         \/ \E s \in Spenders : TransferFrom(u, s, v, n)
  PROVE  IInv'
  <1> USE DEF OnlyWallets, supplyVars, marketVars, pointVars
  <1>0. n \in Nat /\ TransferFee(n) \in Nat /\ wallet \in Wallets
    BY FeeNumber, MlcoinAssumption DEF IInv, LedgerTypeOK, Wallets
  <1>1. Released(u) \in [balance : Nat, locked : Nat] /\ Released(u).balance \in Nat
    BY <1>0, ReleasedWallet
  <1>2. CASE TransferMallcoin(u, v, n)
    <2>1. n + TransferFee(n) \in Nat
      BY <1>0
    <2>2. wallet' \in Wallets
      BY <1>0, <1>1, <1>2, <2>1, MoveKeeps DEF TransferMallcoin
    <2>3. fees' \in Nat /\ collected' \in Nat
      <3>1. fees' = fees + TransferFee(n) /\ collected' = collected + TransferFee(n)
        BY <1>2 DEF TransferMallcoin
      <3>2. fees \in Nat /\ collected \in Nat
        BY Types
      <3> QED BY <1>0, <3>1, <3>2
    <2>4. UNCHANGED <<circulating, dailyLimit, stakes, allowance, kes, price, bought, kesPaid,
                      points, issued, matured, conjured>>
      BY <1>2 DEF TransferMallcoin
    <2>5. LedgerTypeOK'
      BY <2>2, <2>3, <2>4 DEF IInv, LedgerTypeOK, Wallets
    <2> QED BY <2>4, <2>5, OffMarket
  <1>3. CASE Transfer(u, v, n)
    <2>1. wallet' \in Wallets
      BY <1>0, <1>1, <1>3, MoveKeeps DEF Transfer
    <2>2. LedgerTypeOK'
      BY <1>3, <2>1 DEF Transfer, IInv, LedgerTypeOK, Wallets
    <2> QED BY <1>3, <2>2, OffMarket DEF Transfer
  <1>4. ASSUME NEW s \in Spenders, TransferFrom(u, s, v, n) PROVE IInv'
    <2> DEFINE paid == [wallet EXCEPT ![u].balance = @ - n]
    <2>1. paid \in Wallets
      BY <1>0, <1>4 DEF TransferFrom, Wallets
    <2>2. wallet' = [paid EXCEPT ![v].balance = wallet[v].balance + n]
      BY <1>4 DEF TransferFrom
    <2>3. wallet' \in Wallets
      <3> HIDE DEF paid
      <3> QED BY <1>0, <2>1, <2>2 DEF Wallets
    <2>4. allowance' \in [Users -> [Spenders -> Nat]]
      <3>1. allowance \in [Users -> [Spenders -> Nat]]
        BY Types
      <3>2. allowance[u][s] >= n /\ allowance' = [allowance EXCEPT ![u][s] = @ - n]
        BY <1>4 DEF TransferFrom
      <3> QED BY <1>0, <3>1, <3>2
    <2>5. conjured' \in Nat
      <3>1. conjured' = conjured + n \/ conjured' = conjured
        BY <1>4 DEF TransferFrom
      <3>2. conjured \in Nat
        BY Types
      <3> QED BY <1>0, <3>1, <3>2
    <2>6. LedgerTypeOK'
      BY <1>4, <2>3, <2>4, <2>5 DEF TransferFrom, IInv, LedgerTypeOK, Wallets
    <2> QED BY <1>4, <2>6, OffMarket DEF TransferFrom
  <1> QED BY <1>2, <1>3, <1>4

\* An allowance.
LEMMA ApproveIInv ==
  ASSUME IInv, NEW u \in Users, NEW s \in Spenders, NEW n \in Amounts, Approve(u, s, n)
  PROVE  IInv'
  <1>1. n \in Nat
    BY MlcoinAssumption
  <1>2. LedgerTypeOK'
    BY <1>1 DEF Approve, OnlyWallets, supplyVars, marketVars, pointVars, IInv, LedgerTypeOK
  <1> QED BY <1>2, OffMarket DEF Approve, OnlyWallets, supplyVars, marketVars

\* A record with other blocks or another activity is a record.
LEMMA StakeRecord ==
  ASSUME NEW r \in Stakes, NEW b \in Nat
  PROVE  /\ [r EXCEPT !.active = FALSE] \in Stakes
         /\ [r EXCEPT !.age = b] \in Stakes
  BY DEF Stakes

\* A stake is taken out of a wallet that covers it.
LEMMA StakeIInv ==
  ASSUME IInv, NEW u \in Users, NEW n \in Amounts, Stake(u, n)
  PROVE  IInv'
  <1> DEFINE r == [owner |-> u, amount |-> n, age |-> 0, active |-> TRUE]
  <1>1. n \in Nat
    BY MlcoinAssumption
  <1>2. r \in Stakes
    BY <1>1 DEF Stakes
  <1>3. stakes \in Seq(Stakes) /\ stakes' = Append(stakes, r)
    BY DEF Stake, IInv, LedgerTypeOK
  <1>4. stakes' \in Seq(Stakes)
    <2> HIDE DEF r
    <2> QED BY <1>2, <1>3
  <1>5. wallet' \in Wallets
    BY <1>1, WalletKeeps, Types DEF Stake
  <1>6. LedgerTypeOK'
    BY <1>4, <1>5 DEF Stake, supplyVars, marketVars, pointVars, IInv, LedgerTypeOK, Wallets
  <1> QED BY <1>6, OffMarket DEF Stake, supplyVars, marketVars

\* An unstaking, with or without its reward.
LEMMA UnstakeIInv ==
  ASSUME IInv, NEW k \in DOMAIN stakes, UnstakeAndClaimRewards(k)
  PROVE  IInv'
  <1> DEFINE u == stakes[k].owner
             n == stakes[k].amount
             reward == Rewards(n, stakes[k].age)
             back == [wallet EXCEPT ![u].balance = @ + n]
  <1>1. stakes \in Seq(Stakes) /\ stakes[k] \in Stakes
    BY DEF IInv, LedgerTypeOK
  <1>2. u \in Users /\ n \in Nat /\ stakes[k].age \in Nat
    BY <1>1 DEF Stakes
  <1>3. back \in Wallets
    BY <1>2, WalletKeeps, Types
  <1>4. reward \in Nat
    BY <1>2, RewardNumber
  <1>5. stakes' \in Seq(Stakes)
    <2>1. [stakes[k] EXCEPT !.active = FALSE] \in Stakes
      BY <1>1, StakeRecord
    <2>2. stakes' = [stakes EXCEPT ![k] = [stakes[k] EXCEPT !.active = FALSE]]
      BY DEF UnstakeAndClaimRewards
    <2> QED BY <1>1, <2>1, <2>2
  <1>6. wallet' \in Wallets /\ circulating' \in Nat /\ SupplyCapped'
    <2>1. circulating \in Nat /\ SupplyCapped
      BY DEF IInv, LedgerTypeOK
    <2> HIDE DEF back
    <2>2. \/ /\ MayMint(reward) /\ Emit(reward)
             /\ wallet' = Credited(back, u, reward)
          \/ wallet' = back /\ UNCHANGED circulating
      BY DEF UnstakeAndClaimRewards, back
    <2> HIDE DEF u, n, reward
    <2> QED BY <1>2, <1>3, <1>4, <2>1, <2>2, MintKeeps DEF SupplyCapped
  <1>7. UNCHANGED <<dailyLimit, fees, allowance, kes, price, bought, kesPaid, points, issued,
                    matured, collected, conjured>>
    BY DEF UnstakeAndClaimRewards, marketVars, pointVars
  <1> HIDE DEF u, n, back
  <1>8. LedgerTypeOK'
    BY <1>5, <1>6, <1>7 DEF IInv, LedgerTypeOK, Wallets
  <1> QED BY <1>6, <1>7, <1>8 DEF IInv, CapCoversBuys

\* A purchase stays below the cap on buys.
LEMMA BuyIInv ==
  ASSUME IInv, NEW u \in Users, NEW n \in Amounts, BuyMallcoin(u, n)
  PROVE  IInv'
  <1> DEFINE cost == n * price.buy
  <1>1. n \in Nat /\ price.buy \in Nat \ {0} /\ price.sell \in Nat \ {0}
    BY MlcoinAssumption DEF IInv, LedgerTypeOK
  <1>2. cost \in Nat
    BY <1>1
  <1>3. n \div TradeUnit \in Nat /\ PriceChange(n) \in Nat
    BY <1>1, TradeNumbers
  <1>4. wallet' \in Wallets /\ circulating' \in Nat /\ SupplyCapped'
    BY <1>1, MintKeeps DEF BuyMallcoin, IInv, LedgerTypeOK, Wallets
  <1>5. /\ bought + cost <= KesCap /\ kes[u] >= cost
        /\ kes' = [kes EXCEPT ![u] = @ - cost]
        /\ bought' = bought + cost /\ kesPaid' = kesPaid + cost
        /\ price' = [buy |-> price.buy + PriceChange(n), sell |-> price.sell + PriceChange(n)]
        /\ fees' = fees + n \div TradeUnit
        /\ UNCHANGED <<dailyLimit, stakes, allowance, points, issued, matured, collected,
                       conjured>>
    BY DEF BuyMallcoin, pointVars
  <1> HIDE DEF cost
  <1>6. kes' \in [Users -> Nat]
    <2>1. kes \in [Users -> Nat]
      BY Types
    <2> QED BY <1>2, <1>5, <2>1
  <1>7. price' \in [buy : Nat \ {0}, sell : Nat \ {0}]
    BY <1>1, <1>3, <1>5
  <1>8. bought' \in Nat /\ kesPaid' \in Int /\ fees' \in Nat /\ CapCoversBuys'
    <2>1. fees' \in Nat
      <3>1. fees \in Nat
        BY Types
      <3> QED BY <1>3, <1>5, <3>1
    <2>2. /\ bought + cost <= KesCap /\ bought' = bought + cost /\ kesPaid' = kesPaid + cost
          /\ bought \in Nat /\ kesPaid \in Int /\ kesPaid <= bought
      BY <1>5, Types
    <2> QED BY <1>2, <2>1, <2>2 DEF CapCoversBuys
  <1>9. LedgerTypeOK'
    BY <1>4, <1>5, <1>6, <1>7, <1>8 DEF IInv, LedgerTypeOK, Wallets
  <1> QED BY <1>4, <1>8, <1>9 DEF IInv

\* A sale takes its KES off the cached buys, if they suffice.
LEMMA SellIInv ==
  ASSUME IInv, NEW u \in Users, NEW n \in Amounts, SellMallcoin(u, n)
  PROVE  IInv'
  <1> DEFINE gain == n * price.sell
  <1>1. n \in Nat /\ price.buy \in Nat \ {0} /\ price.sell \in Nat \ {0} /\ KesCap \in Nat
    BY MlcoinAssumption DEF IInv, LedgerTypeOK
  <1>2. gain \in Nat
    BY <1>1
  <1>3. /\ n \div TradeUnit \in Nat
        /\ Lowered(price.buy, PriceChange(n)) \in Nat \ {0}
        /\ Lowered(price.sell, PriceChange(n)) \in Nat \ {0}
    BY <1>1, TradeNumbers
  <1>4. /\ wallet[u].balance >= n
        /\ wallet' = [wallet EXCEPT ![u].balance = @ - n]
        /\ circulating' = IF circulating >= n THEN circulating - n ELSE circulating
        /\ kes' = [kes EXCEPT ![u] = @ + gain] /\ kesPaid' = kesPaid - gain
        /\ bought' = IF bought >= gain THEN bought - gain ELSE bought
        /\ price' = [buy |-> Lowered(price.buy, PriceChange(n)),
                     sell |-> Lowered(price.sell, PriceChange(n))]
        /\ fees' = fees + n \div TradeUnit
        /\ UNCHANGED <<dailyLimit, stakes, allowance, points, issued, matured, collected,
                       conjured>>
    BY DEF SellMallcoin, Sold, pointVars
  <1> HIDE DEF gain
  <1>5. wallet' \in Wallets
    BY <1>1, <1>4, WalletKeeps, Types
  <1>6. kes' \in [Users -> Nat] /\ price' \in [buy : Nat \ {0}, sell : Nat \ {0}]
    <2>1. kes' \in [Users -> Nat]
      BY <1>2, <1>4, Types
    <2>2. price' \in [buy : Nat \ {0}, sell : Nat \ {0}]
      BY <1>3, <1>4
    <2> QED BY <2>1, <2>2
  <1>7. circulating' \in Nat /\ SupplyCapped'
    <2>1. TotalSupply \in Nat
      BY MlcoinAssumption
    <2> QED BY <1>1, <1>4, <2>1, Types DEF SupplyCapped
  <1>8. bought' \in Nat /\ kesPaid' \in Int /\ fees' \in Nat /\ CapCoversBuys'
    <2>1. fees' \in Nat
      BY <1>3, <1>4, Types
    <2>2. /\ bought' = IF bought >= gain THEN bought - gain ELSE bought
          /\ kesPaid' = kesPaid - gain
          /\ bought \in Nat /\ kesPaid \in Int /\ kesPaid <= bought /\ bought <= KesCap
      BY <1>4, Types
    <2>3. bought' \in Nat /\ kesPaid' \in Int /\ kesPaid' <= bought' /\ bought' <= KesCap
      BY <1>1, <1>2, <2>2
    <2> QED BY <2>1, <2>3 DEF CapCoversBuys
  <1>9. LedgerTypeOK'
    BY <1>4, <1>5, <1>6, <1>7, <1>8 DEF IInv, LedgerTypeOK, Wallets
  <1> QED BY <1>7, <1>8, <1>9 DEF IInv

\* Points are awarded, and converted into coins.
LEMMA PointsIInv ==
  ASSUME IInv, NEW u \in Users, NEW n \in Amounts,
         AwardPoints(u, n) \/ ConvertToMallcoin(u, n)
  PROVE  IInv'
  <1> USE DEF supplyVars, marketVars
  <1>1. n \in Nat /\ (n * Ratio) \div Scale \in Nat
    BY RewardNumber, MlcoinAssumption
  <1>2. CASE AwardPoints(u, n)
    <2>1. LedgerTypeOK'
      BY <1>1, <1>2 DEF AwardPoints, IInv, LedgerTypeOK
    <2> QED BY <1>2, <2>1, OffMarket DEF AwardPoints
  <1>3. CASE ConvertToMallcoin(u, n)
    <2> DEFINE coins == (n * Ratio) \div Scale
    <2>1. /\ points[u] >= n /\ MayMint(coins) /\ Emit(coins)
          /\ points' = [points EXCEPT ![u] = @ - n]
          /\ wallet' = Credited(wallet, u, coins)
          /\ UNCHANGED <<dailyLimit, fees, stakes, allowance, kes, price, bought, kesPaid, issued,
                         matured, collected, conjured>>
      BY <1>3 DEF ConvertToMallcoin
    <2> HIDE DEF coins
    <2>2. wallet' \in Wallets /\ circulating' \in Nat /\ SupplyCapped'
      BY <1>1, <2>1, MintKeeps DEF IInv, LedgerTypeOK, Wallets, coins
    <2>3. points' \in [Users -> Nat]
      BY <1>1, <2>1 DEF IInv, LedgerTypeOK
    <2>4. LedgerTypeOK'
      BY <2>1, <2>2, <2>3 DEF IInv, LedgerTypeOK, Wallets
    <2> QED BY <2>1, <2>2, <2>4 DEF IInv, CapCoversBuys
  <1> QED BY <1>2, <1>3

-----------------------------------------------------------------------------
(* Blocks and genesis.                                                     *)

\* A price that moves stays a price.
LEMMA RepricedNumbers ==
  ASSUME LedgerTypeOK, NEW a \in Adjustments
  PROVE  Repriced(a) \in [buy : Nat \ {0}, sell : Nat \ {0}]
  <1>1. a \in Int /\ price.buy \in Nat \ {0} /\ price.sell \in Nat \ {0}
    BY MlcoinAssumption DEF LedgerTypeOK
  <1> QED BY <1>1 DEF Repriced

\* The end of a block touches neither wallets nor supply.
LEMMA EndBlockerIInv == ASSUME IInv, EndBlocker PROVE IInv'
  <1>1. /\ stakes' = [k \in DOMAIN stakes |->
                        [stakes[k] EXCEPT !.age = IF @ < MaxAge THEN @ + 1 ELSE @]]
        /\ price' = price \/ \E a \in Adjustments : price' = Repriced(a)
        /\ UNCHANGED <<dailyLimit, fees>> \/ (dailyLimit' \in DailyLimits /\ fees' = 0)
        /\ UNCHANGED <<wallet, circulating, allowance, kes, bought, kesPaid, points, issued,
                       matured, collected, conjured>>
    <2>1. DistributeFees => fees' = 0
      BY DEF DistributeFees
    <2>2. UNCHANGED <<dailyLimit, fees>> \/ (dailyLimit' \in DailyLimits /\ fees' = 0)
      BY <2>1 DEF EndBlocker
    <2>3. price' = price \/ \E a \in Adjustments : price' = Repriced(a)
      BY DEF EndBlocker
    <2>4. /\ stakes' = [k \in DOMAIN stakes |->
                          [stakes[k] EXCEPT !.age = IF @ < MaxAge THEN @ + 1 ELSE @]]
          /\ UNCHANGED <<wallet, circulating, allowance, kes, bought, kesPaid, points, issued,
                         matured, collected, conjured>>
      BY DEF EndBlocker, pointVars
    <2> QED BY <2>2, <2>3, <2>4
  <1>2. stakes' \in Seq(Stakes)
    <2>1. stakes \in Seq(Stakes) /\ \A k \in DOMAIN stakes : stakes[k] \in Stakes
      BY DEF IInv, LedgerTypeOK
    <2>2. \A k \in DOMAIN stakes : stakes'[k] \in Stakes
      <3> SUFFICES ASSUME NEW k \in DOMAIN stakes PROVE stakes'[k] \in Stakes
        OBVIOUS
      <3> DEFINE b == stakes[k].age
                 c == IF b < MaxAge THEN b + 1 ELSE b
      <3>1. stakes[k] \in Stakes /\ b \in Nat
        BY <2>1 DEF Stakes
      <3>2. c \in Nat
        BY <3>1
      <3>3. stakes'[k] = [stakes[k] EXCEPT !.age = c]
        BY <1>1
      <3> HIDE DEF c
      <3> QED BY <3>1, <3>2, <3>3, StakeRecord
    <2>3. DOMAIN stakes' = 1..Len(stakes) /\ Len(stakes) \in Nat
      BY <1>1, <2>1
    <2>4. stakes' = [k \in 1..Len(stakes) |-> stakes'[k]]
      BY <1>1, <2>1
    <2> QED BY <2>1, <2>2, <2>3, <2>4
  <1>3. price' \in [buy : Nat \ {0}, sell : Nat \ {0}]
    BY <1>1, RepricedNumbers DEF IInv, LedgerTypeOK
  <1>4. LedgerTypeOK'
    BY <1>1, <1>2, <1>3 DEF IInv, LedgerTypeOK
  <1> QED BY <1>1, <1>4, OffMarket

\* Time passes, or the chain is started again from its export.
LEMMA TimeIInv == ASSUME IInv, NewMonth \/ Mature \/ ExportImport PROVE IInv'
  <1> USE DEF supplyVars, marketVars, pointVars
  <1>1. CASE NewMonth \/ Mature
    <2>1. issued' \in Nat /\ matured' \in BOOLEAN
      <3>1. issued \in Nat /\ matured \in BOOLEAN
        BY DEF IInv, LedgerTypeOK
      <3>2. CASE NewMonth
        BY <3>1, <3>2 DEF NewMonth
      <3>3. CASE Mature
        BY <3>1, <3>3 DEF Mature
      <3> QED BY <1>1, <3>2, <3>3
    <2>2. UNCHANGED <<wallet, circulating, dailyLimit, fees, stakes, allowance, kes, price, bought,
                      kesPaid, points, collected, conjured>>
      BY <1>1 DEF NewMonth, Mature
    <2>3. LedgerTypeOK'
      BY <2>1, <2>2 DEF IInv, LedgerTypeOK
    <2> QED BY <2>2, <2>3, OffMarket
  <1>2. CASE ExportImport
    <2>1. stakes' \in Seq(Stakes)
      BY <1>2 DEF ExportImport
    <2>2. LedgerTypeOK'
      BY <1>2, <2>1, MlcoinAssumption DEF ExportImport, IInv, LedgerTypeOK
    <2> QED BY <1>2, <2>2, MlcoinAssumption DEF ExportImport, IInv, SupplyCapped, CapCoversBuys
  <1> QED BY <1>1, <1>2

-----------------------------------------------------------------------------
(* Every step.                                                             *)

\* The state before the first block satisfies the invariant.
LEMMA InitIInv == Init => IInv
  <1> SUFFICES ASSUME Init PROVE IInv
    OBVIOUS
  <1>1. stakes \in Seq(Stakes)
    BY DEF Init
  <1>2. /\ Genesis \in [Users -> [balance : Nat, locked : Nat]] /\ GenesisKes \in [Users -> Nat]
        /\ Circulating \in Nat /\ Circulating <= TotalSupply
        /\ DailyLimit \in DailyLimits /\ KesCap \in Nat
        /\ FirstPrices \in [buy : Nat \ {0}, sell : Nat \ {0}]
    BY MlcoinAssumption
  <1>3. /\ allowance \in [Users -> [Spenders -> Nat]] /\ points \in [Users -> Nat]
        /\ fees \in Nat /\ issued \in Nat /\ collected \in Nat
        /\ bought = 0 /\ kesPaid = 0 /\ matured = FALSE /\ conjured = 0
    BY DEF Init
  <1>4. /\ wallet = Genesis /\ circulating = Circulating /\ dailyLimit = DailyLimit
        /\ kes = GenesisKes /\ price = FirstPrices
    BY DEF Init
  <1>5. LedgerTypeOK
    <2>1. bought \in Nat /\ kesPaid \in Int
      BY <1>3
    <2>3. matured \in BOOLEAN /\ conjured \in Nat
      BY DEF Init
    <2>2. /\ wallet \in [Users -> [balance : Nat, locked : Nat]] /\ circulating \in Nat
          /\ dailyLimit \in DailyLimits /\ kes \in [Users -> Nat]
          /\ price \in [buy : Nat \ {0}, sell : Nat \ {0}]
      BY <1>2, <1>4
    <2> QED BY <1>1, <1>3, <2>1, <2>2, <2>3 DEF LedgerTypeOK
  <1> QED BY <1>2, <1>3, <1>4, <1>5 DEF IInv, SupplyCapped, CapCoversBuys

\* The invariant is inductive.
LEMMA NextIInv == IInv /\ [Next]_vars => IInv'
  <1> SUFFICES ASSUME IInv, [Next]_vars PROVE IInv'
    OBVIOUS
  <1>1. CASE Message
    BY <1>1, TransfersIInv, ApproveIInv, StakeIInv, BuyIInv, SellIInv, PointsIInv DEF Message
  <1>2. CASE \E k \in DOMAIN stakes : UnstakeAndClaimRewards(k)
    BY <1>2, UnstakeIInv
  <1>3. CASE EndBlocker \/ NewMonth \/ Mature \/ ExportImport
    BY <1>3, EndBlockerIInv, TimeIInv
  <1>4. CASE UNCHANGED vars
    <2>1. LedgerTypeOK'
      BY <1>4 DEF vars, supplyVars, marketVars, pointVars, IInv, LedgerTypeOK
    <2> QED BY <1>4, <2>1, OffMarket DEF vars, supplyVars, marketVars
  <1> QED BY <1>1, <1>2, <1>3, <1>4 DEF Next

\* The invariant holds in every reachable state.
THEOREM MlcoinInvariance == Spec => []IInv
  BY InitIInv, NextIInv, PTL DEF Spec

\* What buyers have paid net of sales is bounded by the cap on buys, although a
\* sale's subtraction from the cache may be skipped.
THEOREM MlcoinCapCoversBuys == Spec => []CapCoversBuys
  <1>1. IInv => CapCoversBuys
    BY DEF IInv
  <1> QED BY <1>1, MlcoinInvariance, PTL

-----------------------------------------------------------------------------
(* What the wallets and the open stakes add up to.                         *)

ActiveOf(s) == {k \in DOMAIN s : s[k].active}
AmountsOf(s) == [k \in ActiveOf(s) |-> s[k].amount]
StakedOf(s) == SumFunctionOnSet(AmountsOf(s), ActiveOf(s))
Values(w) == [u \in Users |-> w[u].balance + w[u].locked]

LEMMA StakedIs == Staked = StakedOf(stakes) /\ Active = ActiveOf(stakes)
  <1>1. Active = ActiveOf(stakes)
    BY DEF Active, ActiveOf
  <1>2. Staked = SumFunction(AmountsOf(stakes)) /\ DOMAIN AmountsOf(stakes) = ActiveOf(stakes)
    BY <1>1 DEF Staked, AmountsOf
  <1> QED BY <1>1, <1>2, SumWhole DEF StakedOf

LEMMA StakedNextIs == Staked' = StakedOf(stakes') /\ Active' = ActiveOf(stakes')
  <1>1. Active' = ActiveOf(stakes')
    BY DEF Active, ActiveOf
  <1>2. Staked' = SumFunction(AmountsOf(stakes')) /\ DOMAIN AmountsOf(stakes') = ActiveOf(stakes')
    BY <1>1 DEF Staked, AmountsOf
  <1> QED BY <1>1, <1>2, SumWhole DEF StakedOf

LEMMA InWalletsIs == ASSUME NEW w PROVE InWallets(w) = SumFunctionOnSet(Values(w), Users)
  <1>1. DOMAIN Values(w) = Users
    BY DEF Values
  <1> QED BY <1>1, SumWhole DEF InWallets, Values

\* The open stakes are finitely many, and what they hold is a number.
LEMMA StakedNumber ==
  ASSUME NEW s \in Seq(Stakes)
  PROVE  /\ IsFiniteSet(ActiveOf(s))
         /\ \A k \in ActiveOf(s) : AmountsOf(s)[k] \in Nat
         /\ StakedOf(s) \in Nat
  <1>1. DOMAIN s = 1..Len(s) /\ Len(s) \in Nat /\ \A k \in 1..Len(s) : s[k] \in Stakes
    OBVIOUS
  <1>2. IsFiniteSet(1..Len(s))
    BY <1>1, FS_Interval
  <1>3. IsFiniteSet(ActiveOf(s))
    BY <1>1, <1>2, FS_Subset DEF ActiveOf
  <1>4. \A k \in ActiveOf(s) : AmountsOf(s)[k] \in Nat
    BY <1>1 DEF ActiveOf, AmountsOf, Stakes
  <1> QED BY <1>3, <1>4, SumNat DEF StakedOf

\* A new stake adds its amount.
LEMMA StakedAppend ==
  ASSUME NEW s \in Seq(Stakes), NEW r \in Stakes, r.active
  PROVE  StakedOf(Append(s, r)) = StakedOf(s) + r.amount
  <1> DEFINE t == Append(s, r)
             m == Len(s) + 1
  <1>1. /\ t \in Seq(Stakes) /\ DOMAIN t = (DOMAIN s) \cup {m} /\ m \notin DOMAIN s
        /\ t[m] = r /\ \A k \in DOMAIN s : t[k] = s[k]
    OBVIOUS
  <1>2. r.amount \in Nat
    BY DEF Stakes
  <1> HIDE DEF t, m
  <1>3. ActiveOf(t) = ActiveOf(s) \cup {m} /\ m \notin ActiveOf(s)
    BY <1>1 DEF ActiveOf
  <1>4. /\ AmountsOf(t)[m] = r.amount
        /\ \A k \in ActiveOf(s) : AmountsOf(t)[k] = AmountsOf(s)[k]
    BY <1>1, <1>3 DEF AmountsOf, ActiveOf
  <1>5. /\ IsFiniteSet(ActiveOf(s)) /\ \A k \in ActiveOf(s) : AmountsOf(s)[k] \in Nat
        /\ StakedOf(s) \in Nat
    BY StakedNumber
  <1>6. SumFunctionOnSet(AmountsOf(t), ActiveOf(s)) = StakedOf(s)
    BY <1>4, <1>5, SumSame DEF StakedOf
  <1>7. \A k \in ActiveOf(s) \cup {m} : AmountsOf(t)[k] \in Int
    BY <1>2, <1>4, <1>5
  <1>8. SumFunctionOnSet(AmountsOf(t), ActiveOf(s) \cup {m})
          = AmountsOf(t)[m] + SumFunctionOnSet(AmountsOf(t), ActiveOf(s))
    BY <1>3, <1>5, <1>7, SumIn
  <1>9. StakedOf(t) = r.amount + StakedOf(s)
    BY <1>3, <1>4, <1>6, <1>8 DEF StakedOf
  <1> QED BY <1>2, <1>5, <1>9 DEF t

\* A stake that ends takes its amount away.
LEMMA StakedEnd ==
  ASSUME NEW s \in Seq(Stakes), NEW k \in DOMAIN s, s[k].active
  PROVE  StakedOf([s EXCEPT ![k].active = FALSE]) = StakedOf(s) - s[k].amount
  <1> DEFINE t == [s EXCEPT ![k].active = FALSE]
  <1>1. s[k] \in Stakes /\ s[k].amount \in Nat
    <2>1. s[k] \in Stakes
      OBVIOUS
    <2> QED BY <2>1 DEF Stakes
  <1>2. /\ DOMAIN t = DOMAIN s /\ ~t[k].active /\ \A j \in (DOMAIN s) \ {k} : t[j] = s[j]
    BY <1>1 DEF Stakes
  <1> HIDE DEF t
  <1>3. ActiveOf(t) = ActiveOf(s) \ {k} /\ k \in ActiveOf(s)
    BY <1>2 DEF ActiveOf
  <1>4. \A j \in ActiveOf(t) : AmountsOf(t)[j] = AmountsOf(s)[j]
    BY <1>2, <1>3 DEF AmountsOf, ActiveOf
  <1>5. AmountsOf(s)[k] = s[k].amount
    BY <1>3 DEF AmountsOf
  <1>6. /\ IsFiniteSet(ActiveOf(s)) /\ \A j \in ActiveOf(s) : AmountsOf(s)[j] \in Nat
    BY StakedNumber
  <1>7. IsFiniteSet(ActiveOf(t))
    BY <1>3, <1>6, FS_Subset
  <1>8. StakedOf(t) = SumFunctionOnSet(AmountsOf(s), ActiveOf(t))
    BY <1>4, <1>7, SumSame DEF StakedOf
  <1>9. \A j \in ActiveOf(s) : AmountsOf(s)[j] \in Int
    BY <1>6
  <1>10. StakedOf(s) = AmountsOf(s)[k] + SumFunctionOnSet(AmountsOf(s), ActiveOf(s) \ {k})
    BY <1>3, <1>6, <1>9, SumOut DEF StakedOf
  <1>11. SumFunctionOnSet(AmountsOf(s), ActiveOf(t)) \in Int
    BY <1>3, <1>7, <1>9, SumInt
  <1>12. StakedOf(s) = s[k].amount + StakedOf(t) /\ StakedOf(t) \in Int
    BY <1>3, <1>5, <1>8, <1>10, <1>11
  <1> QED BY <1>1, <1>12 DEF t

\* Records with the same amounts and activity hold the same.
LEMMA StakedSame ==
  ASSUME NEW s \in Seq(Stakes), NEW t, DOMAIN t = DOMAIN s,
         \A k \in DOMAIN s : t[k].amount = s[k].amount /\ t[k].active = s[k].active
  PROVE  StakedOf(t) = StakedOf(s)
  <1>1. ActiveOf(t) = ActiveOf(s)
    BY DEF ActiveOf
  <1>2. \A k \in ActiveOf(s) : AmountsOf(t)[k] = AmountsOf(s)[k]
    BY <1>1 DEF AmountsOf, ActiveOf
  <1>3. IsFiniteSet(ActiveOf(s))
    BY StakedNumber
  <1> QED BY <1>1, <1>2, <1>3, SumSame DEF StakedOf

\* Wallets add up to a number.
LEMMA WalletsNumber ==
  ASSUME NEW w \in Wallets PROVE InWallets(w) \in Nat
  <1>1. \A u \in Users : Values(w)[u] \in Nat
    BY DEF Values, Wallets
  <1> QED BY <1>1, InWalletsIs, SumNat, MlcoinAssumption

\* x differs from w in u's wallet alone, which holds n more.
Shifted(w, x, u, n) == /\ x[u].balance + x[u].locked = w[u].balance + w[u].locked + n
                       /\ \A v \in Users \ {u} : x[v] = w[v]

\* What one wallet gains or loses all wallets do.
LEMMA WalletsShift ==
  ASSUME NEW w \in Wallets, NEW x \in Wallets, NEW u \in Users, NEW n \in Int,
         Shifted(w, x, u, n)
  PROVE  InWallets(x) = InWallets(w) + n
  <1>1. \A v \in Users : Values(w)[v] \in Int
    BY DEF Values, Wallets
  <1>2. Values(x)[u] = Values(w)[u] + n
    BY DEF Values, Shifted
  <1>3. \A v \in Users \ {u} : Values(x)[v] = Values(w)[v]
    BY DEF Values, Shifted
  <1>4. IsFiniteSet(Users)
    BY MlcoinAssumption
  <1>5. SumFunctionOnSet(Values(x), Users) = SumFunctionOnSet(Values(w), Users) + n
    BY <1>1, <1>2, <1>3, <1>4, SumShift
  <1> QED BY <1>5, InWalletsIs

\* x is w with n more in the balance of u.
Added(w, x, u, n) == x = [w EXCEPT ![u].balance = @ + n]

\* Adding to a balance.
LEMMA WalletsAdd ==
  ASSUME NEW w \in Wallets, NEW u \in Users, NEW n \in Int, NEW x \in Wallets,
         Added(w, x, u, n)
  PROVE  InWallets(x) = InWallets(w) + n
  <1>1. w[u] \in [balance : Nat, locked : Nat]
    BY DEF Wallets
  <1>2. x[u] = [w[u] EXCEPT !.balance = w[u].balance + n] /\ \A v \in Users \ {u} : x[v] = w[v]
    BY DEF Wallets, Added
  <1>3. x[u].balance = w[u].balance + n /\ x[u].locked = w[u].locked
    BY <1>1, <1>2
  <1>4. x[u].balance + x[u].locked = w[u].balance + w[u].locked + n
    BY <1>1, <1>3
  <1>5. Shifted(w, x, u, n)
    BY <1>2, <1>4 DEF Shifted
  <1> QED BY <1>5, WalletsShift

\* Taking from a balance that covers it.
LEMMA WalletsTake ==
  ASSUME NEW w \in Wallets, NEW u \in Users, NEW n \in Nat, w[u].balance >= n
  PROVE  InWallets([w EXCEPT ![u].balance = @ - n]) = InWallets(w) - n
  <1> DEFINE x == [w EXCEPT ![u].balance = @ - n]
  <1>1. x \in Wallets
    BY WalletKeeps
  <1>2. w[u] \in [balance : Nat, locked : Nat]
    BY DEF Wallets
  <1>3. x[u] = [w[u] EXCEPT !.balance = w[u].balance - n] /\ \A v \in Users \ {u} : x[v] = w[v]
    BY DEF Wallets
  <1> HIDE DEF x
  <1>4. x[u].balance = w[u].balance - n /\ x[u].locked = w[u].locked
    BY <1>2, <1>3
  <1> DEFINE m == -n
  <1>5. m \in Int /\ x[u].balance + x[u].locked = w[u].balance + w[u].locked + m
    BY <1>2, <1>4
  <1> HIDE DEF m
  <1>6. Shifted(w, x, u, m)
    BY <1>3, <1>5 DEF Shifted
  <1>7. InWallets(x) = InWallets(w) + m
    BY <1>1, <1>5, <1>6, WalletsShift
  <1>8. InWallets(x) = InWallets(w) - n
    BY <1>7, WalletsNumber DEF m
  <1> QED BY <1>8 DEF x

\* Minting adds what is not burned.
LEMMA WalletsCredited ==
  ASSUME NEW w \in Wallets, NEW u \in Users, NEW n \in Nat
  PROVE  InWallets(Credited(w, u, n)) = InWallets(w) + (n - Burned(n))
  <1> DEFINE x == Credited(w, u, n)
             m == n - Burned(n)
  <1>1. m \in Nat
    BY BurnedPart
  <1>2. w[u] \in [balance : Nat, locked : Nat] /\ Burned(n) \in Int
    BY BurnedPart DEF Wallets
  <1>3. x = [w EXCEPT ![u] = [w[u] EXCEPT !.balance = w[u].balance + n - Burned(n)]]
    BY DEF Credited
  <1>4. w[u].balance + n - Burned(n) = w[u].balance + m
    BY <1>2
  <1>5. x = [w EXCEPT ![u] = [w[u] EXCEPT !.balance = w[u].balance + m]]
    BY <1>3, <1>4
  <1> HIDE DEF x, m
  <1>6. x \in Wallets /\ Added(w, x, u, m)
    BY <1>1, <1>2, <1>5 DEF Wallets, Added
  <1>7. InWallets(x) = InWallets(w) + m
    BY <1>1, <1>6, WalletsAdd
  <1> QED BY <1>7 DEF x, m

\* A payment takes from all wallets what does not arrive.
LEMMA WalletsMove ==
  ASSUME wallet \in Wallets, NEW u \in Users, NEW v \in Users, NEW paid \in Nat, NEW n \in Nat,
         Released(u).balance >= paid, Move(u, Released(u), v, paid, n)
  PROVE  InWallets(wallet') = InWallets(wallet) - paid + n
  <1> DEFINE r == [wallet EXCEPT ![u] = Released(u)]
             sent == [r EXCEPT ![u].balance = @ - paid]
  <1>1. wallet[u] \in [balance : Nat, locked : Nat] /\ Released(u) \in [balance : Nat, locked : Nat]
    BY ReleasedWallet DEF Wallets
  <1>2. Released(u).balance + Released(u).locked = wallet[u].balance + wallet[u].locked + 0
    BY <1>1 DEF Released
  <1>3. r \in Wallets /\ r[u] = Released(u) /\ \A x \in Users \ {u} : r[x] = wallet[x]
    BY <1>1 DEF Wallets
  <1>4. wallet' = [sent EXCEPT ![v].balance = @ + n]
    BY DEF Move, Wallets
  <1> HIDE DEF r
  <1>5. Shifted(wallet, r, u, 0)
    BY <1>2, <1>3 DEF Shifted
  <1>6. InWallets(r) = InWallets(wallet) + 0
    BY <1>3, <1>5, WalletsShift
  <1>7. sent \in Wallets /\ InWallets(sent) = InWallets(r) - paid
    BY <1>3, WalletKeeps, WalletsTake
  <1> HIDE DEF sent
  <1>8. wallet' \in Wallets /\ Added(sent, wallet', v, n)
    BY <1>4, <1>7, WalletKeeps DEF Added
  <1>9. InWallets(wallet') = InWallets(sent) + n
    BY <1>7, <1>8, WalletsAdd
  <1> QED BY <1>3, <1>6, <1>7, <1>9, WalletsNumber

-----------------------------------------------------------------------------
(* No coins out of nothing.                                                *)

\* What users hold and have paid is covered.
Covered == Holdings + collected <= circulating + Undeclared + conjured

BInv == IInv /\ Covered

\* The sums of the ledger are numbers.
LEMMA HoldingsNumber ==
  ASSUME IInv
  PROVE  /\ InWallets(wallet) \in Nat /\ Staked \in Nat /\ InWallets(Genesis) \in Nat
         /\ Circulating \in Nat
  <1>1. wallet \in Wallets /\ stakes \in Seq(Stakes)
    BY Types
  <1>2. Genesis \in Wallets /\ Circulating \in Nat
    BY MlcoinAssumption DEF Wallets
  <1> QED BY <1>1, <1>2, WalletsNumber, StakedNumber, StakedIs

\* A step adds w to the wallets, s to the stakes, c to what was collected, and at
\* least their sum to the supply, e, and to what owners made themselves, j.
Adds(w, s, c, e, j) ==
    /\ InWallets(wallet') = InWallets(wallet) + w /\ Staked' = Staked + s
    /\ collected' = collected + c /\ circulating' = circulating + e
    /\ conjured' = conjured + j /\ w + s + c <= e + j

\* Coins stay covered when what users hold and what they have paid grows by no
\* more than the supply does.
LEMMA StaysCovered ==
  ASSUME BInv, IInv', NEW w \in Int, NEW s \in Int, NEW c \in Int, NEW e \in Int, NEW j \in Int,
         Adds(w, s, c, e, j)
  PROVE  Covered'
  <1>1. /\ InWallets(wallet) \in Nat /\ Staked \in Nat /\ InWallets(Genesis) \in Nat
        /\ Circulating \in Nat /\ circulating \in Nat /\ collected \in Nat /\ conjured \in Nat
    BY HoldingsNumber, Types DEF BInv
  <1>2. InWallets(wallet) + Staked + collected
          <= circulating + (InWallets(Genesis) - Circulating) + conjured
    BY DEF BInv, Covered, Holdings, Undeclared
  <1>3. InWallets(wallet') + Staked' + collected'
          <= circulating' + (InWallets(Genesis) - Circulating) + conjured'
    <2>1. /\ InWallets(wallet') = InWallets(wallet) + w /\ Staked' = Staked + s
          /\ collected' = collected + c /\ circulating' = circulating + e
          /\ conjured' = conjured + j /\ w + s + c <= e + j
      BY DEF Adds
    <2> QED BY <1>1, <1>2, <2>1
  <1>4. InWallets(wallet)' = InWallets(wallet')
    BY DEF InWallets
  <1> QED BY <1>3, <1>4 DEF Covered, Holdings, Undeclared, InWallets

\* Every kind of transfer.
LEMMA TransfersCovered ==
  ASSUME BInv, IInv', NEW u \in Users, NEW v \in Users, NEW n \in Amounts,
         \/ TransferMallcoin(u, v, n) \/ Transfer(u, v, n)
         \/ \E s \in Spenders : TransferFrom(u, s, v, n)
  PROVE  Covered'
  <1>1. n \in Nat /\ TransferFee(n) \in Nat /\ wallet \in Wallets /\ wallet' \in Wallets
    BY FeeNumber, MlcoinAssumption DEF BInv, IInv, LedgerTypeOK, Wallets
  <1>2. /\ UNCHANGED <<stakes, circulating>>
        /\ collected \in Nat /\ circulating \in Nat /\ conjured \in Nat
    BY Types DEF TransferMallcoin, Transfer, TransferFrom, OnlyWallets, supplyVars, BInv
  <1>3. Staked' = Staked + 0 /\ Staked \in Nat /\ InWallets(wallet) \in Nat
    BY <1>2, HoldingsNumber, StakedIs, StakedNextIs DEF BInv
  <1>4. circulating' = circulating + 0
    BY <1>2
  <1>5. CASE TransferMallcoin(u, v, n)
    <2> DEFINE fee == TransferFee(n)
               w == -fee
    <2>1. /\ Released(u).balance >= n + fee /\ Move(u, Released(u), v, n + fee, n)
          /\ collected' = collected + fee /\ conjured' = conjured + 0
      BY <1>2, <1>5 DEF TransferMallcoin
    <2>2. n + fee \in Nat
      BY <1>1
    <2> HIDE DEF fee
    <2>3. InWallets(wallet') = InWallets(wallet) - (n + fee) + n
      BY <1>1, <2>1, <2>2, WalletsMove
    <2>4. fee \in Nat /\ w \in Int /\ InWallets(wallet') = InWallets(wallet) + w
      BY <1>1, <1>3, <2>3 DEF fee
    <2>5. w + 0 + fee <= 0 + 0
      BY <2>4
    <2>6. Adds(w, 0, fee, 0, 0)
      BY <1>3, <1>4, <2>1, <2>4, <2>5 DEF Adds
    <2> HIDE DEF w
    <2> QED BY <2>4, <2>6, StaysCovered
  <1>6. CASE Transfer(u, v, n)
    <2>1. /\ Released(u).balance >= n /\ Move(u, Released(u), v, n, n)
          /\ collected' = collected + 0 /\ conjured' = conjured + 0
      BY <1>2, <1>6 DEF Transfer
    <2>2. InWallets(wallet') = InWallets(wallet) - n + n
      BY <1>1, <2>1, WalletsMove
    <2>3. InWallets(wallet') = InWallets(wallet) + 0
      BY <1>1, <1>3, <2>2
    <2>4. Adds(0, 0, 0, 0, 0)
      BY <1>3, <1>4, <2>1, <2>3 DEF Adds
    <2> QED BY <2>4, StaysCovered
  <1>7. ASSUME NEW s \in Spenders, TransferFrom(u, s, v, n) PROVE Covered'
    <2> DEFINE paid == [wallet EXCEPT ![u].balance = @ - n]
    <2>1. wallet[u].balance >= n /\ collected' = collected + 0
          /\ conjured' = (IF u = v THEN conjured + n ELSE conjured)
          /\ wallet' = [paid EXCEPT ![v].balance = wallet[v].balance + n]
      BY <1>2, <1>7 DEF TransferFrom
    <2>2. CASE u = v
      <3>1. Added(wallet, wallet', u, n)
        <4>1. \A m \in Nat : [paid EXCEPT ![u].balance = m] = [wallet EXCEPT ![u].balance = m]
          BY <1>1 DEF Wallets
        <4>2. wallet' = [paid EXCEPT ![u].balance = wallet[u].balance + n]
          BY <2>1, <2>2
        <4>3. wallet[u].balance + n \in Nat
          BY <1>1 DEF Wallets
        <4> HIDE DEF paid
        <4> QED BY <4>1, <4>2, <4>3 DEF Added
      <3>2. InWallets(wallet') = InWallets(wallet) + n
        BY <1>1, <3>1, WalletsAdd
      <3>3. conjured' = conjured + n /\ n + 0 + 0 <= 0 + n
        BY <1>1, <2>1, <2>2
      <3>4. Adds(n, 0, 0, 0, n)
        BY <1>3, <1>4, <2>1, <3>2, <3>3 DEF Adds
      <3> QED BY <1>1, <3>4, StaysCovered
    <2>3. CASE u # v
      <3>1. paid \in Wallets /\ InWallets(paid) = InWallets(wallet) - n
        BY <1>1, <2>1, WalletKeeps, WalletsTake
      <3>2. paid[v] = wallet[v]
        BY <1>1, <2>3 DEF Wallets
      <3> HIDE DEF paid
      <3>3. Added(paid, wallet', v, n)
        BY <2>1, <3>1, <3>2 DEF Added, Wallets
      <3>4. InWallets(wallet') = InWallets(paid) + n
        BY <1>1, <3>1, <3>3, WalletsAdd
      <3>5. InWallets(wallet') = InWallets(wallet) + 0
        BY <1>1, <1>3, <3>1, <3>4
      <3>6. conjured' = conjured + 0
        BY <1>2, <2>1, <2>3
      <3>7. Adds(0, 0, 0, 0, 0)
        BY <1>3, <1>4, <2>1, <3>5, <3>6 DEF Adds
      <3> QED BY <3>7, StaysCovered
    <2> QED BY <2>2, <2>3
  <1> QED BY <1>5, <1>6, <1>7

\* A stake moves coins from the wallet to the stakes.
LEMMA StakeCovered ==
  ASSUME BInv, IInv', NEW u \in Users, NEW n \in Amounts, Stake(u, n)
  PROVE  Covered'
  <1> DEFINE r == [owner |-> u, amount |-> n, age |-> 0, active |-> TRUE]
             w == -n
  <1>1. n \in Nat
    BY MlcoinAssumption
  <1>2. r \in Stakes /\ r.active /\ r.amount = n
    BY <1>1 DEF Stakes
  <1>3. /\ wallet[u].balance >= n /\ wallet' = [wallet EXCEPT ![u].balance = @ - n]
        /\ stakes' = Append(stakes, r) /\ collected' = collected /\ circulating' = circulating
        /\ conjured' = conjured
    BY DEF Stake, supplyVars
  <1>4. /\ wallet \in Wallets /\ stakes \in Seq(Stakes) /\ collected \in Nat /\ circulating \in Nat
        /\ InWallets(wallet) \in Nat /\ conjured \in Nat
    BY Types, HoldingsNumber DEF BInv
  <1> HIDE DEF r
  <1>5. Staked' = Staked + n
    BY <1>2, <1>3, <1>4, StakedAppend, StakedIs, StakedNextIs
  <1>6. InWallets(wallet') = InWallets(wallet) - n
    BY <1>1, <1>3, <1>4, WalletsTake
  <1>7. w \in Int /\ InWallets(wallet') = InWallets(wallet) + w /\ w + n + 0 <= 0 + 0
    BY <1>1, <1>4, <1>6
  <1>8. collected' = collected + 0 /\ circulating' = circulating + 0 /\ conjured' = conjured + 0
    BY <1>3, <1>4
  <1>9. Adds(w, n, 0, 0, 0)
    BY <1>3, <1>5, <1>7, <1>8 DEF Adds
  <1> HIDE DEF w
  <1> QED BY <1>1, <1>7, <1>9, StaysCovered

\* What is minted to a wallet, after `back` was put into it, is what is emitted.
LEMMA MintCovered ==
  ASSUME BInv, IInv', NEW u \in Users, NEW back \in Wallets, NEW b \in Nat, NEW n \in Nat,
         InWallets(back) = InWallets(wallet) + b, wallet' = Credited(back, u, n), Emit(n),
         Staked' = Staked - b, collected' = collected, conjured' = conjured
  PROVE  Covered'
  <1> DEFINE m == n - Burned(n)
             w == b + m
             s == -b
  <1>1. /\ Burned(n) \in Nat /\ m \in Nat /\ InWallets(wallet) \in Nat /\ Staked \in Nat
        /\ circulating \in Nat /\ collected \in Nat /\ conjured \in Nat
    <2>1. Burned(n) \in Nat /\ m \in Nat
      BY BurnedPart
    <2> HIDE DEF m
    <2> QED BY <2>1, HoldingsNumber, Types DEF BInv
  <1>2. circulating' = circulating + m
    BY <1>1 DEF Emit
  <1>3. InWallets(wallet') = InWallets(back) + m
    BY WalletsCredited
  <1> HIDE DEF m
  <1>4. /\ w \in Int /\ s \in Int /\ m \in Int /\ w + s + 0 <= m + 0
        /\ InWallets(wallet') = InWallets(wallet) + w /\ Staked' = Staked + s
        /\ collected' = collected + 0 /\ conjured' = conjured + 0
    BY <1>1, <1>3
  <1>5. Adds(w, s, 0, m, 0)
    BY <1>2, <1>4 DEF Adds
  <1> HIDE DEF w, s
  <1> QED BY <1>4, <1>5, StaysCovered

\* An unstaking brings the principal back and mints the rest.
LEMMA UnstakeCovered ==
  ASSUME BInv, IInv', NEW k \in DOMAIN stakes, UnstakeAndClaimRewards(k)
  PROVE  Covered'
  <1> DEFINE u == stakes[k].owner
             n == stakes[k].amount
             reward == Rewards(n, stakes[k].age)
             back == [wallet EXCEPT ![u].balance = @ + n]
             s == -n
  <1>1. /\ stakes \in Seq(Stakes) /\ wallet \in Wallets
        /\ collected \in Nat /\ circulating \in Nat /\ conjured \in Nat
    BY Types DEF BInv
  <1>2. u \in Users /\ n \in Nat /\ stakes[k].age \in Nat
    <2>1. stakes[k] \in Stakes
      BY <1>1
    <2> QED BY <2>1 DEF Stakes
  <1>3. /\ stakes[k].active /\ stakes' = [stakes EXCEPT ![k].active = FALSE]
        /\ collected' = collected /\ conjured' = conjured
        /\ \/ wallet' = Credited(back, u, reward) /\ Emit(reward)
           \/ wallet' = back /\ circulating' = circulating
    BY DEF UnstakeAndClaimRewards
  <1>4. Staked' = Staked - n /\ Staked \in Nat /\ InWallets(wallet) \in Nat
    BY <1>1, <1>3, StakedEnd, StakedIs, StakedNextIs, HoldingsNumber DEF BInv
  <1>5. back \in Wallets /\ Added(wallet, back, u, n)
    BY <1>1, <1>2, WalletKeeps DEF Added
  <1>6. reward \in Nat
    BY <1>2, RewardNumber
  <1> HIDE DEF u, n, reward, back
  <1>7. InWallets(back) = InWallets(wallet) + n
    BY <1>1, <1>2, <1>5, WalletsAdd
  <1>8. CASE wallet' = Credited(back, u, reward) /\ Emit(reward)
    BY <1>2, <1>3, <1>4, <1>5, <1>6, <1>7, <1>8, MintCovered
  <1>9. CASE wallet' = back /\ circulating' = circulating
    <2>1. /\ s \in Int /\ n \in Int /\ Staked' = Staked + s /\ n + s + 0 <= 0 + 0
          /\ collected' = collected + 0 /\ circulating' = circulating + 0
          /\ conjured' = conjured + 0
      BY <1>1, <1>2, <1>3, <1>4, <1>9
    <2>2. InWallets(wallet') = InWallets(wallet) + n
      BY <1>7, <1>9
    <2>3. Adds(n, s, 0, 0, 0)
      BY <1>3, <2>1, <2>2 DEF Adds
    <2> HIDE DEF s
    <2> QED BY <2>1, <2>3, StaysCovered
  <1> QED BY <1>3, <1>8, <1>9

\* A purchase and a conversion mint.
LEMMA BuyCovered ==
  ASSUME BInv, IInv', NEW u \in Users, NEW n \in Amounts,
         BuyMallcoin(u, n) \/ ConvertToMallcoin(u, n)
  PROVE  Covered'
  <1> DEFINE coins == (n * Ratio) \div Scale
  <1>1. n \in Nat /\ coins \in Nat
    BY RewardNumber, MlcoinAssumption
  <1>2. /\ wallet \in Wallets /\ InWallets(wallet) \in Nat /\ Staked \in Nat
    BY Types, HoldingsNumber DEF BInv
  <1>3. UNCHANGED <<stakes, collected, conjured>>
    BY DEF BuyMallcoin, ConvertToMallcoin
  <1>4. Staked' = Staked - 0 /\ InWallets(wallet) = InWallets(wallet) + 0
    BY <1>2, <1>3, StakedIs, StakedNextIs
  <1>5. \/ wallet' = Credited(wallet, u, n) /\ Emit(n)
        \/ wallet' = Credited(wallet, u, coins) /\ Emit(coins)
    BY DEF BuyMallcoin, ConvertToMallcoin
  <1> HIDE DEF coins
  <1> QED BY <1>1, <1>2, <1>3, <1>4, <1>5, MintCovered

\* A sale takes from the wallet at least what it takes from the supply.
LEMMA SellCovered ==
  ASSUME BInv, IInv', NEW u \in Users, NEW n \in Amounts, SellMallcoin(u, n)
  PROVE  Covered'
  <1> DEFINE w == -n
             e == IF circulating >= n THEN -n ELSE 0
  <1>1. /\ n \in Nat /\ wallet \in Wallets /\ InWallets(wallet) \in Nat /\ Staked \in Nat
        /\ collected \in Nat /\ circulating \in Nat /\ conjured \in Nat
    BY MlcoinAssumption, Types, HoldingsNumber DEF BInv
  <1>2. /\ wallet[u].balance >= n /\ wallet' = [wallet EXCEPT ![u].balance = @ - n]
        /\ circulating' = IF circulating >= n THEN circulating - n ELSE circulating
        /\ UNCHANGED <<stakes, collected, conjured>>
    BY DEF SellMallcoin, Sold
  <1>3. Staked' = Staked
    BY <1>2, StakedIs, StakedNextIs
  <1>4. InWallets(wallet') = InWallets(wallet) - n
    BY <1>1, <1>2, WalletsTake
  <1>5. /\ w \in Int /\ e \in Int /\ w + 0 + 0 <= e + 0
        /\ InWallets(wallet') = InWallets(wallet) + w /\ circulating' = circulating + e
        /\ Staked' = Staked + 0 /\ collected' = collected + 0 /\ conjured' = conjured + 0
    BY <1>1, <1>2, <1>3, <1>4
  <1>6. Adds(w, 0, 0, e, 0)
    BY <1>2, <1>5 DEF Adds
  <1> HIDE DEF w, e
  <1> QED BY <1>5, <1>6, StaysCovered

\* Steps that touch neither supply nor fees may only lose coins and stakes.
LEMMA OffLedger ==
  ASSUME BInv, IInv', UNCHANGED <<circulating, collected, conjured>>,
         InWallets(wallet') <= InWallets(wallet), Staked' <= Staked
  PROVE  Covered'
  <1> DEFINE w == InWallets(wallet') - InWallets(wallet)
             s == Staked' - Staked
  <1>1. /\ InWallets(wallet) \in Nat /\ Staked \in Nat /\ Staked' \in Nat
        /\ InWallets(wallet') \in Nat
        /\ collected \in Nat /\ circulating \in Nat /\ conjured \in Nat
    <2>1. stakes' \in Seq(Stakes) /\ wallet' \in Wallets
      BY DEF IInv, LedgerTypeOK, Wallets
    <2>2. Staked' \in Nat /\ InWallets(wallet') \in Nat
      BY <2>1, StakedNumber, StakedNextIs, WalletsNumber
    <2> QED BY <2>2, HoldingsNumber, Types DEF BInv
  <1>2. \A a, b \in Nat : a <= b => a - b \in Int /\ a - b <= 0 /\ a = b + (a - b)
    OBVIOUS
  <1>3. s \in Int /\ s <= 0 /\ Staked' = Staked + s
    BY <1>1, <1>2
  <1>4. w \in Int /\ w <= 0 /\ InWallets(wallet') = InWallets(wallet) + w
    BY <1>1, <1>2
  <1>5. /\ collected' = collected + 0 /\ circulating' = circulating + 0
        /\ conjured' = conjured + 0
    BY <1>1
  <1> HIDE DEF w, s
  <1>6. w + s + 0 <= 0 + 0
    BY <1>3, <1>4
  <1>7. Adds(w, s, 0, 0, 0)
    BY <1>3, <1>4, <1>5, <1>6 DEF Adds
  <1> QED BY <1>3, <1>4, <1>7, StaysCovered

\* What is left of the wallets after an import is no more than there was.
LEMMA ImportedWallets ==
  ASSUME IInv, ExportImport
  PROVE  InWallets(wallet') <= InWallets(wallet)
  <1>1. wallet \in Wallets /\ IsFiniteSet(Users)
    BY Types, MlcoinAssumption
  <1>2. ASSUME NEW u \in Users
        PROVE  /\ Values(wallet')[u] \in Int /\ Values(wallet)[u] \in Int
               /\ Values(wallet')[u] <= Values(wallet)[u]
    <2>1. wallet[u] \in [balance : Nat, locked : Nat]
      BY <1>1 DEF Wallets
    <2>2. wallet'[u] = wallet[u] \/ wallet'[u] = [balance |-> 0, locked |-> 0]
      BY DEF ExportImport
    <2> QED BY <2>1, <2>2 DEF Values
  <1>3. SumFunctionOnSet(Values(wallet'), Users) <= SumFunctionOnSet(Values(wallet), Users)
    BY <1>1, <1>2, SumMonotone
  <1> QED BY <1>3, InWalletsIs

\* A distribution and a block's end leave every stake's amount and activity.
LEMMA BlocksKeepStakes ==
  ASSUME IInv, EndBlocker
  PROVE  StakedOf(stakes') = StakedOf(stakes)
  <1>1. stakes \in Seq(Stakes) /\ \A k \in DOMAIN stakes : stakes[k] \in Stakes
    BY Types
  <1>2. stakes' = [k \in DOMAIN stakes |->
                     [stakes[k] EXCEPT !.age = IF @ < MaxAge THEN @ + 1 ELSE @]]
    BY DEF EndBlocker
  <1>3. DOMAIN stakes' = DOMAIN stakes
    BY <1>2
  <1>4. \A k \in DOMAIN stakes : /\ stakes'[k].amount = stakes[k].amount
                                 /\ stakes'[k].active = stakes[k].active
    BY <1>1, <1>2 DEF Stakes
  <1> QED BY <1>1, <1>3, <1>4, StakedSame

\* An import has no stakes.
LEMMA NoStakes == StakedOf(<<>>) = 0
  <1>1. ActiveOf(<<>>) = {}
    BY DEF ActiveOf
  <1> QED BY <1>1, SumEmpty DEF StakedOf

\* Coverage is inductive.
LEMMA NextCovered == ASSUME BInv, IInv', [Next]_vars PROVE Covered'
  <1> USE DEF supplyVars, marketVars, pointVars
  <1>0. /\ Staked \in Nat /\ InWallets(wallet) \in Nat
        /\ wallet' = wallet => InWallets(wallet') <= InWallets(wallet)
    BY HoldingsNumber DEF BInv
  <1>1. CASE Message
    <2>1. PICK u \in Users, n \in Amounts :
            \/ \E v \in Users : \/ TransferMallcoin(u, v, n) \/ Transfer(u, v, n)
                                \/ \E s \in Spenders : TransferFrom(u, s, v, n)
            \/ \E s \in Spenders : Approve(u, s, n)
            \/ Stake(u, n)
            \/ BuyMallcoin(u, n) \/ SellMallcoin(u, n)
            \/ AwardPoints(u, n) \/ ConvertToMallcoin(u, n)
      BY <1>1 DEF Message
    <2>2. CASE (\E s \in Spenders : Approve(u, s, n)) \/ AwardPoints(u, n)
      <3>1. UNCHANGED <<wallet, circulating, collected, conjured, stakes>>
        BY <2>2 DEF Approve, AwardPoints, OnlyWallets
      <3>2. Staked' <= Staked
        BY <1>0, <3>1, StakedIs, StakedNextIs
      <3> QED BY <1>0, <3>1, <3>2, OffLedger
    <2> QED BY <2>1, <2>2, TransfersCovered, StakeCovered, BuyCovered, SellCovered
  <1>2. CASE \E k \in DOMAIN stakes : UnstakeAndClaimRewards(k)
    BY <1>2, UnstakeCovered
  <1>3. CASE EndBlocker
    <2>1. UNCHANGED <<wallet, circulating, collected, conjured>>
      BY <1>3 DEF EndBlocker
    <2>2. StakedOf(stakes') = StakedOf(stakes)
      BY <1>3, BlocksKeepStakes DEF BInv
    <2>3. Staked' <= Staked
      BY <1>0, <2>2, StakedIs, StakedNextIs
    <2> QED BY <1>0, <2>1, <2>3, OffLedger
  <1>4. CASE NewMonth \/ Mature \/ UNCHANGED vars
    <2>1. UNCHANGED <<wallet, circulating, collected, conjured, stakes>>
      BY <1>4 DEF NewMonth, Mature, vars
    <2>2. Staked' <= Staked
      BY <1>0, <2>1, StakedIs, StakedNextIs
    <2> QED BY <1>0, <2>1, <2>2, OffLedger
  <1>5. CASE ExportImport
    <2>1. UNCHANGED <<circulating, collected, conjured>> /\ stakes' = <<>>
      BY <1>5 DEF ExportImport
    <2>2. Staked' <= Staked
      BY <1>0, <2>1, NoStakes, StakedNextIs
    <2>3. InWallets(wallet') <= InWallets(wallet)
      BY <1>5, ImportedWallets DEF BInv
    <2> QED BY <2>1, <2>2, <2>3, OffLedger
  <1> QED BY <1>1, <1>2, <1>3, <1>4, <1>5 DEF Next

\* Before the first block users hold what the genesis gives them.
LEMMA InitCovered == Init => Covered
  <1> SUFFICES ASSUME Init PROVE Covered
    OBVIOUS
  <1>1. /\ wallet = Genesis /\ circulating = Circulating
        /\ collected = 0 /\ stakes = <<>> /\ conjured = 0
    BY DEF Init
  <1>2. InWallets(Genesis) \in Nat /\ Circulating \in Nat
    BY WalletsNumber, MlcoinAssumption DEF Wallets
  <1>3. Staked = 0
    BY <1>1, NoStakes, StakedIs
  <1>4. InWallets(wallet) = InWallets(Genesis)
    BY <1>1
  <1>5. Holdings = InWallets(Genesis) + 0 /\ Undeclared = InWallets(Genesis) - Circulating
    BY <1>3, <1>4 DEF Holdings, Undeclared
  <1> QED BY <1>1, <1>2, <1>5 DEF Covered

\* The two invariants together are inductive.
THEOREM MlcoinCoverage == Spec => []BInv
  <1>1. Init => BInv
    BY InitIInv, InitCovered DEF BInv
  <1>2. BInv /\ [Next]_vars => BInv'
    <2> SUFFICES ASSUME BInv, [Next]_vars PROVE BInv'
      OBVIOUS
    <2>1. IInv'
      BY NextIInv DEF BInv
    <2> QED BY <2>1, NextCovered DEF BInv
  <1> QED BY <1>1, <1>2, PTL DEF Spec

\* No transfer, stake, unstaking, release, trade, conversion or import creates
\* coins; an allowance spent on its own owner makes its amount, and the supply
\* keeps to its cap.
THEOREM MlcoinBacked == Spec => []Backed
  <1>1. BInv => Backed
    BY DEF BInv, IInv, Covered, Backed
  <1> QED BY <1>1, MlcoinCoverage, PTL

-----------------------------------------------------------------------------
(* The distribution of fees.                                               *)

\* Every stake holds something, and the bank's coins are numbers.
DInv == /\ IInv
        /\ \A k \in DOMAIN stakes : stakes[k].amount \in Nat \ {0}
        /\ bank \in [module : Nat, treasury : Nat, stakers : Nat]

\* A truncated product that may have wrapped is no more than the share itself.
LEMMA ShareNumber ==
  ASSUME NEW half \in Nat, NEW n \in Nat, NEW w \in Nat \ {0}
  PROVE  Share(half, n, w) \in Nat /\ w * Share(half, n, w) <= half * n
  <1> DEFINE x == half * n
             y == x % WordSize
             q == y \div w
  <1>1. x \in Nat
    OBVIOUS
  <1> HIDE DEF x
  <1>2. y \in Nat /\ y <= x
    BY <1>1, MlcoinAssumption
  <1> HIDE DEF y
  <1>3. q \in Nat /\ q * w <= y
    BY <1>2, DivNat
  <1>4. Share(half, n, w) = q
    BY DEF Share, q, y, x
  <1> HIDE DEF q
  <1>5. w * q = q * w /\ q * w \in Nat
    BY <1>3
  <1> QED BY <1>1, <1>2, <1>3, <1>4, <1>5 DEF x

\* The stakers' parts never add up to more than their half.
LEMMA SharesFit ==
  ASSUME DInv, NEW half \in Nat, NEW part,
         part = [k \in Active |-> Share(half, stakes[k].amount, Staked)]
  PROVE  /\ IsFiniteSet(Active) /\ \A k \in Active : part[k] \in Nat
         /\ SumFunctionOnSet(part, Active) \in Nat
         /\ SumFunctionOnSet(part, Active) <= half
  <1> DEFINE amount == AmountsOf(stakes)
             scaled == [k \in Active |-> Staked * part[k]]
             whole == [k \in Active |-> half * amount[k]]
  <1>1. stakes \in Seq(Stakes) /\ Active = ActiveOf(stakes) /\ Staked = StakedOf(stakes)
    BY StakedIs, Types DEF DInv
  <1>2. /\ IsFiniteSet(Active) /\ \A k \in Active : amount[k] \in Nat /\ Staked \in Nat
        /\ Staked = SumFunctionOnSet(amount, Active)
    BY <1>1, StakedNumber DEF StakedOf
  <1>3. \A k \in Active : amount[k] = stakes[k].amount /\ amount[k] > 0
    BY <1>1 DEF AmountsOf, ActiveOf, DInv
  <1> HIDE DEF amount
  <1>4. CASE Active = {}
    BY <1>4, <1>2, SumEmpty
  <1>5. CASE Active # {}
    <2>1. Staked \in Nat \ {0}
      <3>1. PICK k \in Active : TRUE
        BY <1>5
      <3>2. amount[k] <= Staked
        BY <1>2, SumMember
      <3> QED BY <1>2, <1>3, <3>1, <3>2
    <2>2. \A k \in Active : part[k] \in Nat /\ Staked * part[k] <= half * amount[k]
      <3> SUFFICES ASSUME NEW k \in Active
                   PROVE  part[k] \in Nat /\ Staked * part[k] <= half * amount[k]
        OBVIOUS
      <3>1. part[k] = Share(half, amount[k], Staked) /\ amount[k] \in Nat
        BY <1>2, <1>3
      <3> QED BY <2>1, <3>1, ShareNumber
    <2>3. \A k \in Active : scaled[k] \in Int /\ whole[k] \in Int /\ scaled[k] <= whole[k]
      <3>1. \A a, b \in Nat : a * b \in Int
        OBVIOUS
      <3> QED BY <1>2, <2>1, <2>2, <3>1
    <2>4. \A k \in Active : part[k] \in Int /\ scaled[k] = Staked * part[k]
      BY <2>2
    <2>5. \A k \in Active : amount[k] \in Int /\ whole[k] = half * amount[k]
      BY <1>2
    <2> HIDE DEF scaled, whole
    <2>6. SumFunctionOnSet(scaled, Active) <= SumFunctionOnSet(whole, Active)
      BY <1>2, <2>3, SumMonotone
    <2>7. Staked \in Int /\ half \in Int
      BY <2>1
    <2>8. SumFunctionOnSet(scaled, Active) = Staked * SumFunctionOnSet(part, Active)
      BY <1>2, <2>4, <2>7, SumScale
    <2>9. SumFunctionOnSet(whole, Active) = half * SumFunctionOnSet(amount, Active)
      BY <1>2, <2>5, <2>7, SumScale
    <2>10. SumFunctionOnSet(part, Active) \in Nat
      BY <1>2, <2>2, SumNat
    <2>11. Staked * SumFunctionOnSet(part, Active) <= half * Staked
      BY <1>2, <2>6, <2>8, <2>9
    <2>12. \A a, b \in Nat : a * b = b * a
      OBVIOUS
    <2>13. SumFunctionOnSet(part, Active) * Staked <= half * Staked
      BY <2>1, <2>10, <2>11, <2>12
    <2>14. SumFunctionOnSet(part, Active) <= half
      BY <2>1, <2>10, <2>13, Cancel
    <2> QED BY <1>2, <2>2, <2>10, <2>14
  <1> QED BY <1>4, <1>5

\* So every staker is paid.
LEMMA AllPaid ==
  ASSUME DInv, NEW half \in Nat, NEW start \in Nat, half <= start, NEW part,
         part = [k \in Active |-> Share(half, stakes[k].amount, Staked)],
         NEW S \in SUBSET Active, Payable(part, start, S)
  PROVE  S = Active
  <1>1. /\ IsFiniteSet(Active) /\ \A k \in Active : part[k] \in Nat
        /\ SumFunctionOnSet(part, Active) \in Nat /\ SumFunctionOnSet(part, Active) <= half
    BY SharesFit
  <1>2. ASSUME NEW k \in Active PROVE k \in S
    <2> DEFINE before == {j \in S : j < k}
    <2>1. before \subseteq Active /\ k \notin before
      <3>1. k \in Nat
        BY DEF Active, DInv, IInv, LedgerTypeOK
      <3>2. ~(k < k)
        BY <3>1
      <3> QED BY <3>2
    <2>2. k \in S <=> SumFunctionOnSet(part, before) + part[k] <= start
      BY DEF Payable
    <2> HIDE DEF before
    <2>3. IsFiniteSet(before) /\ before \cup {k} \subseteq Active
      BY <1>1, <2>1, FS_Subset
    <2>4. \A j \in before \cup {k} : part[j] \in Int
      BY <1>1, <2>3
    <2>5. SumFunctionOnSet(part, before \cup {k}) = part[k] + SumFunctionOnSet(part, before)
      BY <2>1, <2>3, <2>4, SumIn
    <2>6. SumFunctionOnSet(part, before \cup {k}) <= SumFunctionOnSet(part, Active)
      BY <1>1, <2>3, SumPart
    <2>7. SumFunctionOnSet(part, before) \in Int /\ part[k] \in Int
      BY <2>3, <2>4, SumInt
    <2> QED BY <1>1, <2>2, <2>5, <2>6, <2>7
  <1> QED BY <1>2

\* What a distribution leaves behind.
LEMMA Distribution ==
  ASSUME DInv, DistributeFees
  PROVE  /\ bank' \in [module : Nat, treasury : Nat, stakers : Nat]
         /\ bank'.treasury = bank.treasury + (fees - fees \div 2)
         /\ bank'.stakers - bank.stakers <= fees \div 2
  <1> DEFINE half == fees \div 2
             start == bank.module + fees
             part == [k \in Active |-> Share(half, stakes[k].amount, Staked)]
             paid == SumFunctionOnSet(part, Active)
             rest == IF fees - half <= start - paid THEN fees - half ELSE 0
  <1>1. fees \in Nat /\ bank.module \in Nat /\ bank.treasury \in Nat /\ bank.stakers \in Nat
    BY Types DEF DInv
  <1>2. half \in Nat /\ half <= fees
    BY <1>1
  <1>3. start \in Nat /\ half <= start /\ start = bank.module + fees
    BY <1>1, <1>2
  <1>4. PICK S \in SUBSET Active :
          /\ Payable(part, start, S)
          /\ bank' = LET out == SumFunctionOnSet(part, S)
                         kept == IF fees - half <= start - out THEN fees - half ELSE 0
                     IN [module |-> start - out - kept, treasury |-> bank.treasury + kept,
                         stakers |-> bank.stakers + out]
    BY DEF DistributeFees
  <1> HIDE DEF half, start
  <1>5. S = Active
    BY <1>2, <1>3, <1>4, AllPaid
  <1>6. paid \in Nat /\ paid <= half
    BY <1>2, SharesFit
  <1>7. bank' = [module |-> start - paid - rest, treasury |-> bank.treasury + rest,
                 stakers |-> bank.stakers + paid]
    BY <1>4, <1>5
  <1> HIDE DEF part, paid
  <1>8. rest = fees - half
    BY <1>1, <1>2, <1>3, <1>6
  <1> HIDE DEF rest
  <1>9. /\ start - paid - rest \in Nat /\ bank.treasury + rest \in Nat
        /\ bank.stakers + paid \in Nat
    BY <1>1, <1>2, <1>3, <1>6, <1>8
  <1>10. bank' \in [module : Nat, treasury : Nat, stakers : Nat]
    BY <1>7, <1>9
  <1>11. bank'.treasury = bank.treasury + (fees - half) /\ bank'.stakers = bank.stakers + paid
    <2>1. bank'.treasury = bank.treasury + rest /\ bank'.stakers = bank.stakers + paid
      BY <1>7
    <2> QED BY <1>8, <2>1
  <1>12. bank'.stakers - bank.stakers <= half
    BY <1>1, <1>2, <1>6, <1>11
  <1> QED BY <1>10, <1>11, <1>12 DEF half

\* Only what a message names is staked, and amounts are never changed.
LEMMA StakesPositive ==
  ASSUME DInv, IInv', [Next]_vars
  PROVE  \A k \in DOMAIN stakes' : stakes'[k].amount \in Nat \ {0}
  <1>1. stakes \in Seq(Stakes) /\ \A k \in DOMAIN stakes : stakes[k].amount \in Nat \ {0}
    BY Types DEF DInv
  <1>2. CASE UNCHANGED stakes
    BY <1>1, <1>2
  <1>3. CASE \E u \in Users, n \in Amounts : Stake(u, n)
    <2>1. PICK u \in Users, n \in Amounts : Stake(u, n)
      BY <1>3
    <2> DEFINE r == [owner |-> u, amount |-> n, age |-> 0, active |-> TRUE]
    <2>2. stakes' = Append(stakes, r)
      BY <2>1 DEF Stake
    <2>3. r.amount \in Nat \ {0}
      BY MlcoinAssumption
    <2> HIDE DEF r
    <2>4. \A k \in DOMAIN stakes' :
            stakes'[k] = r \/ (k \in DOMAIN stakes /\ stakes'[k] = stakes[k])
      BY <1>1, <2>2
    <2> QED BY <1>1, <2>3, <2>4
  <1>4. CASE \E k \in DOMAIN stakes : UnstakeAndClaimRewards(k)
    <2>1. PICK k \in DOMAIN stakes : stakes' = [stakes EXCEPT ![k].active = FALSE]
      BY <1>4 DEF UnstakeAndClaimRewards
    <2>2. DOMAIN stakes' = DOMAIN stakes
      BY <2>1
    <2>3. \A j \in DOMAIN stakes : stakes'[j].amount = stakes[j].amount
      <3> SUFFICES ASSUME NEW j \in DOMAIN stakes PROVE stakes'[j].amount = stakes[j].amount
        OBVIOUS
      <3>1. stakes[j] \in Stakes
        BY <1>1
      <3>2. stakes'[j] = IF j = k THEN [stakes[j] EXCEPT !.active = FALSE] ELSE stakes[j]
        BY <2>1
      <3> QED BY <3>1, <3>2 DEF Stakes
    <2> QED BY <1>1, <2>2, <2>3
  <1>5. CASE EndBlocker
    <2>1. stakes' = [k \in DOMAIN stakes |->
                       [stakes[k] EXCEPT !.age = IF @ < MaxAge THEN @ + 1 ELSE @]]
      BY <1>5 DEF EndBlocker
    <2>2. DOMAIN stakes' = DOMAIN stakes
      BY <2>1
    <2>3. \A j \in DOMAIN stakes : stakes[j] \in Stakes
      BY <1>1
    <2>4. \A j \in DOMAIN stakes : stakes'[j].amount = stakes[j].amount
      BY <2>1, <2>3 DEF Stakes
    <2> QED BY <1>1, <2>2, <2>4
  <1>6. CASE ExportImport
    BY <1>6 DEF ExportImport
  <1>7. Message => UNCHANGED stakes \/ \E u \in Users, n \in Amounts : Stake(u, n)
    BY DEF Message, TransferMallcoin, Transfer, TransferFrom, Approve, OnlyWallets, BuyMallcoin,
           SellMallcoin, Sold, AwardPoints, ConvertToMallcoin
  <1>8. NewMonth \/ Mature \/ UNCHANGED vars => UNCHANGED stakes
    BY DEF NewMonth, Mature, vars
  <1> QED BY <1>2, <1>3, <1>4, <1>5, <1>6, <1>7, <1>8 DEF Next

\* Only a distribution moves the bank's coins.
LEMMA OnlyDistribution ==
  ASSUME [Next]_vars PROVE UNCHANGED bank \/ DistributeFees
  <1>1. Message => UNCHANGED bank
    BY DEF Message, TransferMallcoin, Transfer, TransferFrom, Approve, Stake, OnlyWallets,
           BuyMallcoin, SellMallcoin, Sold, AwardPoints, ConvertToMallcoin
  <1>2. (\E k \in DOMAIN stakes : UnstakeAndClaimRewards(k)) => UNCHANGED bank
    BY DEF UnstakeAndClaimRewards
  <1>3. EndBlocker => UNCHANGED bank \/ DistributeFees
    BY DEF EndBlocker
  <1>4. NewMonth \/ Mature \/ ExportImport \/ UNCHANGED vars => UNCHANGED bank
    BY DEF NewMonth, Mature, ExportImport, vars
  <1> QED BY <1>1, <1>2, <1>3, <1>4 DEF Next

\* The invariant of the distribution is inductive.
LEMMA NextDInv == DInv /\ [Next]_vars => DInv'
  <1> SUFFICES ASSUME DInv, [Next]_vars PROVE DInv'
    OBVIOUS
  <1>1. IInv'
    BY NextIInv DEF DInv
  <1>2. \A k \in DOMAIN stakes' : stakes'[k].amount \in Nat \ {0}
    BY <1>1, StakesPositive
  <1>3. bank' \in [module : Nat, treasury : Nat, stakers : Nat]
    BY OnlyDistribution, Distribution DEF DInv
  <1> QED BY <1>1, <1>2, <1>3 DEF DInv

\* It holds in every reachable state.
THEOREM MlcoinDistribution == Spec => []DInv
  <1>1. Init => DInv
    <2> SUFFICES ASSUME Init PROVE DInv
      OBVIOUS
    <2>1. stakes = <<>> /\ bank = [module |-> 0, treasury |-> 0, stakers |-> 0]
      BY DEF Init
    <2> QED BY <2>1, InitIInv DEF DInv
  <1> QED BY <1>1, NextDInv, PTL DEF Spec

\* Neither the ledger of the wallets nor the bank's module account is overdrawn.
THEOREM MlcoinTypeOK == Spec => []TypeOK
  <1>1. DInv => TypeOK
    BY DEF DInv, IInv, TypeOK
  <1> QED BY <1>1, MlcoinDistribution, PTL

\* A distribution always pays the treasury its half, and the stakers never more
\* than theirs, although every part is truncated and may have wrapped.
THEOREM MlcoinTreasuryPaid == Spec => TreasuryPaid
  <1>1. DInv /\ [Next]_vars
          => [bank' # bank => /\ bank'.treasury = bank.treasury + (fees - fees \div 2)
                              /\ bank'.stakers - bank.stakers <= fees \div 2]_vars
    BY OnlyDistribution, Distribution
  <1> QED BY <1>1, MlcoinDistribution, PTL DEF Spec, TreasuryPaid
=============================================================================
