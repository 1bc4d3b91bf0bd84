----------------------------- MODULE DexProofs -----------------------------
(***************************************************************************)
(* Theorems about Dex for every value of its constants.                    *)
(*                                                                         *)
(* The arithmetic comes first: what a deposit, a withdrawal and a swap do  *)
(* to the product of the reserves, from the two facts that hold of a       *)
(* truncated quotient and from how far a rounded one can be above the      *)
(* exact one.  The accounts come last: of every message, what it moves in  *)
(* the bank, in the reserves, in the totals and in the records.            *)
(***************************************************************************)
EXTENDS Dex, SumLemmas, TLAPS

IInv == TypeOK /\ Funded

\* From pool p to pool q no share loses worth.
Grows(p, q) == (p.ra * p.rb) * (q.total * q.total) <= (q.ra * q.rb) * (p.total * p.total)

\* From pool p to pool q the product loses at most half a unit of the side paid into.
Shaved(p, q) ==
    /\ q.total = p.total
    /\ 2 * Unit * (p.ra * p.rb) <= 2 * Unit * (q.ra * q.rb) + (IF q.ra > p.ra THEN q.ra ELSE q.rb)

Kept(p, q) == Grows(p, q) \/ Shaved(p, q)

\* What WorthKept says of a step.
Growing == \A i \in DOMAIN pools : Kept(pools[i], pools'[i])

\* What Funded says of a pool.
Stocked(p) == p.total > 0 => p.ra > 0 /\ p.rb > 0

-----------------------------------------------------------------------------
(* Arithmetic.                                                             *)

\* Products are monotone.
LEMMA ProductMono ==
  ASSUME NEW a \in Nat, NEW b \in Nat, NEW c \in Nat, NEW d \in Nat, a <= b, c <= d
  PROVE  a * c <= b * d
  <1>1. a * c <= b * c
    OBVIOUS
  <1>2. b * c <= b * d
    OBVIOUS
  <1>3. a * c \in Nat /\ b * c \in Nat /\ b * d \in Nat
    OBVIOUS
  <1> QED BY <1>1, <1>2, <1>3

\* A positive factor can be cancelled.
LEMMA Cancel ==
  ASSUME NEW k \in Nat \ {0}, NEW a \in Nat, NEW b \in Nat, k * a <= k * b PROVE a <= b
  OBVIOUS

\* A truncated quotient is a natural number that does not exceed the quotient.
LEMMA DivBound ==
  ASSUME NEW n \in Nat, NEW d \in Nat \ {0}
  PROVE  n \div d \in Nat /\ (n \div d) * d <= n
  OBVIOUS

\* Two sides that each keep their proportion keep it together.
LEMMA BothSides ==
  ASSUME NEW ra \in Nat, NEW rb \in Nat, NEW t \in Nat,
         NEW sa \in Nat, NEW sb \in Nat, NEW s \in Nat,
         s * ra <= t * sa, s * rb <= t * sb
  PROVE  (ra * rb) * (s * s) <= (sa * sb) * (t * t)
  <1>1. s * ra \in Nat /\ t * sa \in Nat /\ s * rb \in Nat /\ t * sb \in Nat
    OBVIOUS
  <1>2. (s * ra) * (s * rb) <= (t * sa) * (t * sb)
    BY <1>1, ProductMono
  <1>3. (s * ra) * (s * rb) = (ra * rb) * (s * s)
    OBVIOUS
  <1>4. (t * sa) * (t * sb) = (sa * sb) * (t * t)
    OBVIOUS
  <1> QED BY <1>2, <1>3, <1>4

\* A deposit that mints at most its proportion keeps the proportion of a side.
LEMMA DepositSide ==
  ASSUME NEW r \in Nat \ {0}, NEW t \in Nat, NEW x \in Nat, NEW m \in Nat,
         m <= (x * t) \div r
  PROVE  (t + m) * r <= t * (r + x)
  <1>1. x * t \in Nat
    OBVIOUS
  <1>2. (x * t) \div r \in Nat /\ ((x * t) \div r) * r <= x * t
    BY <1>1, DivBound
  <1>3. m * r <= ((x * t) \div r) * r
    BY <1>2, ProductMono
  <1>4. m * r <= x * t
    BY <1>1, <1>2, <1>3
  <1>5. (t + m) * r = t * r + m * r /\ t * (r + x) = t * r + x * t
    OBVIOUS
  <1> QED BY <1>4, <1>5

\* A withdrawal that pays at most its proportion keeps the proportion of a side.
LEMMA WithdrawalSide ==
  ASSUME NEW r \in Nat, NEW t \in Nat \ {0}, NEW l \in Nat, l <= t,
         NEW x \in Nat, x = (l * r) \div t
  PROVE  x <= r /\ (t - l) * r <= t * (r - x)
  <1>1. l * r \in Nat
    OBVIOUS
  <1>2. x * t <= l * r
    BY <1>1, DivBound
  <1>3. l * r <= t * r
    BY ProductMono
  <1>4. t * x <= t * r
    BY <1>2, <1>3
  <1>5. x <= r
    BY <1>4, Cancel
  <1>6. (t - l) * r = t * r - l * r /\ t * (r - x) = t * r - x * t
    OBVIOUS
  <1> QED BY <1>2, <1>5, <1>6

\* The quotient of a swap: the constant product after the fee, a unit's half
\* too high at most, whatever part of the input the fee takes.
LEMMA SwapQuotient ==
  ASSUME NEW in \in Nat, NEW out \in Nat, NEW n \in Nat \ {0},
         NEW k \in Nat \ {0}, NEW unit \in Nat \ {0}, k <= unit,
         NEW m \in Nat, m <= Quo((n * k) * out, in * unit + n * k, Unit) \div Unit
  PROVE  2 * Unit * (m * (in + n)) <= 2 * Unit * (n * out) + (in + n)
  <1> DEFINE d == in * unit + n * k
             r == Quo((n * k) * out, d, Unit)
             U == Unit
             net == n * k
  <1>1. /\ U \in Nat \ {0} /\ net \in Nat \ {0} /\ in * unit \in Nat /\ net * out \in Nat
        /\ d \in Nat \ {0}
    <2>1. n * k \in Nat \ {0} /\ in * unit \in Nat
      OBVIOUS
    <2>2. (n * k) * out \in Nat /\ in * unit + n * k \in Nat \ {0}
      BY <2>1
    <2> QED BY <2>1, <2>2, DexAssumption
  <1>2. r \in Nat /\ 2 * (r * d) <= 2 * ((net * out) * U) + d
    <2> DEFINE a == net * out
    <2>1. a \in Nat /\ r = Quo(a, d, U)
      BY <1>1
    <2> HIDE DEF a, d, U, r
    <2>2. Quo(a, d, U) \in Nat /\ 2 * (Quo(a, d, U) * d) <= 2 * (a * U) + d
      BY <1>1, <2>1, QuoBounded
    <2> QED BY <2>1, <2>2 DEF a
  <1>3. m * U <= r
    <2>1. m <= r \div U
      OBVIOUS
    <2> HIDE DEF r, U
    <2>2. r \div U \in Nat /\ (r \div U) * U <= r
      BY <1>1, <1>2, DivBound
    <2>3. m * U <= (r \div U) * U /\ m * U \in Int /\ (r \div U) * U \in Int
      BY <1>1, <2>1, <2>2, TimesMonotone
    <2> QED BY <1>2, <2>2, <2>3
  <1>4. net * (in + n) <= n * d
    <2>1. in * k <= in * unit
      BY ProductMono
    <2>2. net * (in + n) = n * (in * k + n * k) /\ in * k + n * k \in Nat
      OBVIOUS
    <2>3. in * k + n * k <= d
      BY <1>1, <2>1
    <2> HIDE DEF d, net
    <2> QED BY <1>1, <2>2, <2>3, ProductMono
  <1> HIDE DEF d, r, U, net
  <1> DEFINE s == in + n
             lost == 2 * ((m * U) * s)
             bound == 2 * ((n * out) * U) + s
  <1>5. s \in Nat \ {0} /\ lost \in Nat /\ bound \in Nat
    <2>1. s \in Nat \ {0}
      OBVIOUS
    <2>2. m * U \in Nat /\ (n * out) * U \in Nat
      <3>1. n * out \in Nat
        OBVIOUS
      <3> QED BY <1>1, <3>1
    <2> HIDE DEF s
    <2>3. (m * U) * s \in Nat
      BY <2>1, <2>2
    <2> QED BY <2>1, <2>2, <2>3
  <1>6. lost * d <= bound * d
    <2> DEFINE x == (m * U) * d
    <2>1. x \in Nat /\ r * d \in Nat /\ x <= r * d
      <3>1. m * U \in Nat
        BY <1>1
      <3> QED BY <1>1, <1>2, <1>3, <3>1, ProductMono
    <2>2. (net * out) * U \in Nat
      BY <1>1
    <2>3. 2 * x <= 2 * ((net * out) * U) + d
      BY <1>1, <1>2, <2>1, <2>2
    <2>4. (2 * x) * s <= (2 * ((net * out) * U) + d) * s
      BY <1>1, <1>5, <2>1, <2>2, <2>3, TimesMonotone
    <2>5. lost * d = (2 * x) * s
      BY <1>1
    <2>6. (2 * ((net * out) * U) + d) * s = 2 * ((net * s) * (out * U)) + d * s
      BY <1>1
    <2>7. (net * s) * (out * U) <= (n * d) * (out * U)
      <3>1. net * s \in Nat /\ n * d \in Nat /\ out * U \in Nat
        BY <1>1, <1>5
      <3> QED BY <1>4, <3>1, TimesMonotone
    <2>8. bound * d = 2 * ((n * d) * (out * U)) + d * s
      BY <1>1
    <2>9. (net * s) * (out * U) \in Int /\ (n * d) * (out * U) \in Int /\ d * s \in Int
          /\ (2 * x) * s \in Int
      <3>1. net * s \in Nat /\ n * d \in Nat /\ out * U \in Nat /\ 2 * x \in Nat
        BY <1>1, <1>5, <2>1
      <3> HIDE DEF s, x
      <3> QED BY <1>1, <1>5, <3>1
    <2> HIDE DEF x, s, lost, bound
    <2> QED BY <2>4, <2>5, <2>6, <2>7, <2>8, <2>9
  <1>7. lost <= bound
    <2> HIDE DEF lost, bound
    <2> QED BY <1>1, <1>5, <1>6, TimesCancel
  <1>8. lost = 2 * U * (m * s) /\ bound = 2 * U * (n * out) + s
    BY <1>1
  <1> QED BY <1>7, <1>8 DEF s, U

\* What calculateSwap pays for n, whatever the reserves and the fee: never all
\* of a reserve, and never so much that the product of the reserves loses more
\* than half a unit of the side paid into (lines 433-454).
THEOREM SwapProduct ==
  ASSUME NEW p \in Pools, NEW in \in Nat, NEW out \in Nat, NEW n \in Nat \ {0},
         params.maxDrain \in 1..30
  PROVE  LET m == CalculateSwap(p, n, in, out)
         IN /\ m \in 0..out /\ (out > 0 => m < out)
            /\ 2 * Unit * (in * out) <= 2 * Unit * ((in + n) * (out - m)) + (in + n)
  <1> DEFINE m == CalculateSwap(p, n, in, out)
             k == FeeUnit - p.fee
             r == Quo((n * k) * out, in * FeeUnit + n * k, Unit) \div Unit
             U == Unit
  <1>1. FeeUnit \in Nat \ {0} /\ k \in Nat \ {0} /\ k <= FeeUnit /\ U \in Nat \ {0}
    BY DexAssumption DEF Pools
  <1>2. Cap(out) \in Nat /\ 100 * Cap(out) <= 30 * out
    <2> DEFINE c == params.maxDrain
    <2>1. c \in Nat /\ c <= 30
      OBVIOUS
    <2> HIDE DEF c
    <2>2. out * c \in Nat /\ out * c <= out * 30
      BY <2>1, ProductMono
    <2>3. (out * c) \div 100 \in Nat /\ ((out * c) \div 100) * 100 <= out * c
      BY <2>2, DivBound
    <2>4. Cap(out) = (out * c) \div 100
      BY DEF Cap, c
    <2> QED BY <2>2, <2>3, <2>4
  <1>3. r \in Nat
    <2> DEFINE a == (n * k) * out
               d == in * FeeUnit + n * k
    <2>1. n * k \in Nat \ {0} /\ in * FeeUnit \in Nat
      <3> HIDE DEF k
      <3> QED BY <1>1
    <2>2. a \in Nat /\ d \in Nat \ {0}
      <3> HIDE DEF k
      <3> QED BY <2>1
    <2>3. Quo(a, d, U) \in Nat
      <3> HIDE DEF a, d, U
      <3> QED BY <1>1, <2>2, QuoBounded
    <2> DEFINE q == Quo(a, d, U)
    <2>4. r = q \div U
      OBVIOUS
    <2> HIDE DEF q, U, r
    <2> QED BY <1>1, <2>3, <2>4, DivBound DEF q
  <1>4. m = Smaller(r, Cap(out))
    BY DEF CalculateSwap
  <1> HIDE DEF m
  <1>5. m \in Nat /\ m <= r /\ m <= Cap(out)
    <2> HIDE DEF r
    <2> QED BY <1>2, <1>3, <1>4 DEF Smaller
  <1>6. 2 * U * (m * (in + n)) <= 2 * U * (n * out) + (in + n)
    <2> HIDE DEF k
    <2> QED BY <1>1, <1>5, SwapQuotient
  <1>7. m \in 0..out /\ (out > 0 => m < out)
    BY <1>2, <1>5
  <1>8. 2 * U * (in * out) <= 2 * U * ((in + n) * (out - m)) + (in + n)
    <2> HIDE DEF U
    <2>1. (in + n) * (out - m) = in * out + n * out - m * (in + n)
      BY <1>5
    <2>2. in * out \in Int /\ n * out \in Int /\ m * (in + n) \in Int
      BY <1>5
    <2>3. 2 * U * ((in + n) * (out - m))
            = 2 * U * (in * out) + 2 * U * (n * out) - 2 * U * (m * (in + n))
      BY <1>1, <2>1, <2>2
    <2>4. /\ 2 * U * (in * out) \in Int /\ 2 * U * (n * out) \in Int
          /\ 2 * U * (m * (in + n)) \in Int
      BY <1>1, <2>2
    <2> QED BY <1>6, <2>3, <2>4
  <1> QED BY <1>7, <1>8 DEF m

-----------------------------------------------------------------------------
(* Every message keeps the types and the worth of every pool.              *)

\* Amounts of coins are functions on the denominations.
LEMMA CoinTyped ==
  ASSUME NEW d, NEW n \in Int
  PROVE  Coin(d, n) \in [Denoms -> Int] /\ (n \in Nat => Coin(d, n) \in [Denoms -> Nat])
  BY DEF Coin

\* The sum of two amounts of coins is one.
LEMMA PlusTyped ==
  ASSUME NEW c \in [Denoms -> Nat], NEW e \in [Denoms -> Nat]
  PROVE  Plus(c, e) \in [Denoms -> Nat]
  BY DEF Plus

\* An exchange with a user keeps every balance a natural number.
LEMMA ExchangeTyped ==
  ASSUME bank \in [Accounts -> [Denoms -> Nat]], NEW u \in Users,
         NEW in \in [Denoms -> Nat], NEW minted \in [Denoms -> Int],
         NEW out \in [Denoms -> Nat], Exchange(u, in, minted, out)
  PROVE  bank' \in [Accounts -> [Denoms -> Nat]]
  <1>1. u \in Accounts /\ Module \in Accounts
    BY DEF Accounts
  <1>2. [d \in Denoms |-> bank[u][d] - in[d] + out[d]] \in [Denoms -> Nat]
    BY <1>1 DEF Exchange
  <1>3. [d \in Denoms |-> bank[Module][d] + in[d] + minted[d] - out[d]] \in [Denoms -> Nat]
    BY <1>1 DEF Exchange
  <1> QED BY <1>1, <1>2, <1>3 DEF Exchange

\* A pool left alone keeps its worth.
LEMMA KeptSelf == ASSUME NEW p \in Pools PROVE Kept(p, p)
  BY DEF Pools, Kept, Grows

\* The initial state is typed, and has no pools.
LEMMA InitIInv == Init => IInv
  <1> SUFFICES ASSUME Init PROVE IInv
    OBVIOUS
  <1>1. DOMAIN pools = {}
    BY DEF Init
  <1>2. nextPoolId = 1 /\ 1..(nextPoolId - 1) = {}
    BY DEF Init
  <1>3. shares \in [PoolIds -> [Users -> Nat]] /\ bank \in [Accounts -> [Denoms -> Nat]]
    BY DexAssumption DEF Init
  <1>4. params \in ParamChoices /\ ValidParams(params)
    BY DEF Init
  <1>5. nextPoolId \in 1..(MaxPools + 1)
    BY <1>2, DexAssumption
  <1> QED BY <1>1, <1>2, <1>3, <1>4, <1>5 DEF IInv, TypeOK, Funded

\* CreatePool adds a pool with both reserves and leaves the others.
LEMMA CreateStep ==
  ASSUME IInv, NEW u \in Users, NEW a \in Denoms, NEW b \in Denoms,
         NEW x \in Amounts, NEW y \in Amounts, NEW fee \in Fees \cup {params.defaultFee},
         CreatePool(u, a, x, b, y, fee)
  PROVE  IInv' /\ Growing
  <1>1. x \in Nat \ {0} /\ y \in Nat \ {0} /\ x * y \in Nat
    BY DexAssumption
  <1>2. PICK s \in 0..(x * y) :
          /\ IsSqrt(s, x * y)
          /\ Exchange(u, Plus(Coin(a, x), Coin(b, y)), Coin(nextPoolId, s), Coin(nextPoolId, s))
          /\ pools' = [i \in DOMAIN pools \cup {nextPoolId} |->
                         IF i \in DOMAIN pools THEN pools[i]
                         ELSE [a |-> a, b |-> b, ra |-> x, rb |-> y, total |-> s, fee |-> fee]]
          /\ shares' = [shares EXCEPT ![nextPoolId][u] = s]
    BY DEF CreatePool
  <1> DEFINE new == [a |-> a, b |-> b, ra |-> x, rb |-> y, total |-> s, fee |-> fee]
  <1>3. s \in Nat /\ s * s <= x * y
    BY <1>1, <1>2 DEF IsSqrt
  <1>4. nextPoolId \in PoolIds /\ nextPoolId' = nextPoolId + 1 /\ params' = params /\ a # b
    BY DEF CreatePool
  <1>5. MaxPools \in Nat /\ nextPoolId \in Nat /\ nextPoolId' \in 1..(MaxPools + 1)
    BY <1>4, DexAssumption DEF PoolIds
  <1>6. fee \in 0..(FeeUnit - 1)
    <2>1. params \in ParamChoices /\ ValidParams(params)
      BY DEF IInv, TypeOK
    <2>2. params.minFee \in Nat /\ params.maxFee \in Nat /\ params.maxFee < FeeUnit
      BY <2>1, DexAssumption DEF ValidParams
    <2> QED BY <2>2, DexAssumption DEF CreatePool
  <1>7. new \in Pools /\ new.a # new.b /\ Stocked(new)
    BY <1>1, <1>3, <1>4, <1>6 DEF Pools, Stocked
  <1>8. bank' \in [Accounts -> [Denoms -> Nat]]
    <2>1. Plus(Coin(a, x), Coin(b, y)) \in [Denoms -> Nat]
      BY <1>1, CoinTyped, PlusTyped
    <2>2. /\ Coin(nextPoolId, s) \in [Denoms -> Nat]
          /\ Coin(nextPoolId, s) \in [Denoms -> Int]
      BY <1>3, CoinTyped
    <2> QED BY <1>2, <2>1, <2>2, ExchangeTyped DEF IInv, TypeOK
  <1>9. DOMAIN pools' = 1..(nextPoolId' - 1) /\ DOMAIN pools = 1..(nextPoolId - 1)
    BY <1>2, <1>4, <1>5 DEF IInv, TypeOK
  <1>10. /\ \A i \in DOMAIN pools : pools'[i] = pools[i]
         /\ pools'[nextPoolId] = new
    BY <1>2, <1>5, <1>9
  <1>11. shares' \in [PoolIds -> [Users -> Nat]]
    BY <1>2, <1>3, <1>4 DEF IInv, TypeOK
  <1>12. \A i \in DOMAIN pools' : i \in DOMAIN pools \/ i = nextPoolId
    BY <1>2
  <1>13. TypeOK'
    BY <1>4, <1>5, <1>7, <1>8, <1>9, <1>10, <1>11, <1>12 DEF IInv, TypeOK, ValidParams
  <1>14. Funded'
    BY <1>7, <1>10, <1>12 DEF IInv, Funded, Stocked
  <1>15. Growing
    <2>1. \A i \in DOMAIN pools : Kept(pools[i], pools[i])
      BY KeptSelf DEF IInv, TypeOK
    <2> QED BY <1>10, <2>1 DEF Growing
  <1> QED BY <1>13, <1>14, <1>15 DEF IInv

\* A message on one pool keeps the invariant when the pool keeps its worth.
LEMMA OnePool ==
  ASSUME IInv, NEW i \in DOMAIN pools, NEW q \in Pools,
         q.a = pools[i].a, q.b = pools[i].b,
         pools' = [pools EXCEPT ![i] = q], Kept(pools[i], q),
         Stocked(q),
         shares' \in [PoolIds -> [Users -> Nat]],
         bank' \in [Accounts -> [Denoms -> Nat]],
         UNCHANGED <<params, nextPoolId>>
  PROVE  IInv' /\ Growing
  <1>1. DOMAIN pools' = DOMAIN pools /\ pools'[i] = q
    OBVIOUS
  <1>2. \A j \in DOMAIN pools : j # i => pools'[j] = pools[j]
    OBVIOUS
  <1>3. pools[i] \in Pools /\ pools[i].a # pools[i].b
    BY DEF IInv, TypeOK
  <1>5. TypeOK'
    BY <1>1, <1>2, <1>3 DEF IInv, TypeOK, ValidParams
  <1>6. Funded'
    BY <1>1, <1>2 DEF IInv, Funded, Stocked
  <1>7. Growing
    <2>1. \A j \in DOMAIN pools : Kept(pools[j], pools[j])
      BY KeptSelf DEF IInv, TypeOK
    <2> QED BY <1>1, <1>2, <2>1 DEF Growing
  <1> QED BY <1>5, <1>6, <1>7 DEF IInv

\* AddLiquidity mints at most the proportion of either side.
LEMMA AddStep ==
  ASSUME IInv, NEW u \in Users, NEW i \in DOMAIN pools,
         NEW x \in Amounts, NEW y \in Amounts, AddLiquidity(u, i, x, y)
  PROVE  IInv' /\ Growing
  <1> DEFINE p == pools[i]
             m == Minted(p, x, y)
             q == Holding(p, p.ra + x, p.rb + y, p.total + m)
  <1>1. /\ p \in Pools /\ p.ra \in Nat \ {0} /\ p.rb \in Nat \ {0} /\ p.total \in Nat
        /\ p.a \in Denoms /\ p.b \in Denoms
    BY DEF IInv, TypeOK, Pools, AddLiquidity
  <1>2. x \in Nat /\ y \in Nat /\ x * p.total \in Nat /\ y * p.total \in Nat
    BY <1>1, DexAssumption
  <1>3. (x * p.total) \div p.ra \in Nat /\ (y * p.total) \div p.rb \in Nat
    BY <1>1, <1>2, DivBound
  <1>4. m \in Nat /\ m <= (x * p.total) \div p.ra /\ m <= (y * p.total) \div p.rb
    BY <1>3 DEF Minted, Smaller
  <1> HIDE DEF m
  <1>5. q \in Pools /\ q.a = p.a /\ q.b = p.b
        /\ q.ra = p.ra + x /\ q.rb = p.rb + y /\ q.total = p.total + m
    BY <1>1, <1>2, <1>4 DEF Pools, Holding
  <1>6. Kept(p, q)
    <2>1. (p.total + m) * p.ra <= p.total * (p.ra + x)
      BY <1>1, <1>2, <1>4, DepositSide
    <2>2. (p.total + m) * p.rb <= p.total * (p.rb + y)
      BY <1>1, <1>2, <1>4, DepositSide
    <2>3. p.ra + x \in Nat /\ p.rb + y \in Nat /\ p.total + m \in Nat
      BY <1>1, <1>2, <1>4
    <2> QED BY <1>1, <1>5, <2>1, <2>2, <2>3, BothSides DEF Kept, Grows
  <1>7. Stocked(q)
    BY <1>1, <1>2, <1>5 DEF Stocked
  <1>8. pools' = [pools EXCEPT ![i] = q] /\ UNCHANGED <<params, nextPoolId>>
    BY DEF AddLiquidity, m
  <1>9. i \in PoolIds /\ shares' = [shares EXCEPT ![i][u] = @ + m]
    BY DexAssumption DEF IInv, TypeOK, PoolIds, AddLiquidity, m
  <1>10. shares' \in [PoolIds -> [Users -> Nat]]
    BY <1>4, <1>9 DEF IInv, TypeOK
  <1>11. bank' \in [Accounts -> [Denoms -> Nat]]
    <2>1. Exchange(u, Plus(Coin(p.a, x), Coin(p.b, y)), Coin(i, m), Coin(i, m))
      BY DEF AddLiquidity, m
    <2>2. Plus(Coin(p.a, x), Coin(p.b, y)) \in [Denoms -> Nat]
      BY <1>2, CoinTyped, PlusTyped
    <2>3. Coin(i, m) \in [Denoms -> Nat] /\ Coin(i, m) \in [Denoms -> Int]
      BY <1>4, CoinTyped
    <2> QED BY <2>1, <2>2, <2>3, ExchangeTyped DEF IInv, TypeOK
  <1> QED BY <1>5, <1>6, <1>7, <1>8, <1>10, <1>11, OnePool

\* RemoveLiquidity pays at most the proportion of either side.
LEMMA RemoveStep ==
  ASSUME IInv, NEW u \in Users, NEW i \in DOMAIN pools, NEW l \in Amounts,
         RemoveLiquidity(u, i, l)
  PROVE  IInv' /\ Growing
  <1> DEFINE p == pools[i]
             x == (l * p.ra) \div p.total
             y == (l * p.rb) \div p.total
             q == Holding(p, p.ra - x, p.rb - y, p.total - l)
  <1>1. /\ p \in Pools /\ p.ra \in Nat /\ p.rb \in Nat /\ p.total \in Nat \ {0}
        /\ p.a \in Denoms /\ p.b \in Denoms
    BY DEF IInv, TypeOK, Pools, RemoveLiquidity
  <1>2. l \in Nat /\ l <= p.total /\ l * p.ra \in Nat /\ l * p.rb \in Nat
    <2>1. l \in Nat /\ l <= p.total
      BY <1>1, DexAssumption DEF RemoveLiquidity
    <2> QED BY <1>1, <2>1
  <1>3. x \in Nat /\ y \in Nat
    BY <1>1, <1>2, DivBound
  <1>4. /\ x <= p.ra /\ (p.total - l) * p.ra <= p.total * (p.ra - x)
        /\ y <= p.rb /\ (p.total - l) * p.rb <= p.total * (p.rb - y)
    BY <1>1, <1>2, <1>3, WithdrawalSide
  <1>5. pools' = [pools EXCEPT ![i] = q] /\ UNCHANGED <<params, nextPoolId>>
    BY DEF RemoveLiquidity
  <1>6. Exchange(u, Coin(i, l), Coin(i, -l), Plus(Coin(p.a, x), Coin(p.b, y)))
    BY DEF RemoveLiquidity
  <1> HIDE DEF x, y
  <1>7. q \in Pools /\ q.a = p.a /\ q.b = p.b
        /\ q.ra = p.ra - x /\ q.rb = p.rb - y /\ q.total = p.total - l
    BY <1>1, <1>2, <1>3, <1>4 DEF Pools, Holding
  <1>8. Kept(p, q)
    <2>1. p.ra - x \in Nat /\ p.rb - y \in Nat /\ p.total - l \in Nat
      BY <1>1, <1>2, <1>3, <1>4
    <2> QED BY <1>1, <1>4, <1>7, <2>1, BothSides DEF Kept, Grows
  <1>9. i \in PoolIds /\ shares' = [shares EXCEPT ![i][u] = @ - l] /\ shares[i][u] >= l
    BY DexAssumption DEF IInv, TypeOK, PoolIds, RemoveLiquidity
  <1>10. shares' \in [PoolIds -> [Users -> Nat]]
    BY <1>2, <1>9 DEF IInv, TypeOK
  <1>11. bank' \in [Accounts -> [Denoms -> Nat]]
    <2>1. Plus(Coin(p.a, x), Coin(p.b, y)) \in [Denoms -> Nat]
      BY <1>3, CoinTyped, PlusTyped
    <2>2. Coin(i, l) \in [Denoms -> Nat]
      BY <1>2, CoinTyped
    <2>3. Coin(i, -l) \in [Denoms -> Int]
      BY <1>2, CoinTyped
    <2> QED BY <1>6, <2>1, <2>2, <2>3, ExchangeTyped DEF IInv, TypeOK
  <1>12. Stocked(q)
    <2> SUFFICES ASSUME q.total > 0 PROVE q.ra > 0 /\ q.rb > 0
      BY DEF Stocked
    <2>1. p.ra > 0 /\ p.rb > 0
      BY <1>1 DEF IInv, Funded
    <2>2. p.total - l \in Nat \ {0}
      BY <1>1, <1>2, <1>7
    <2>3. (p.total - l) * p.ra > 0 /\ (p.total - l) * p.rb > 0
      BY <1>1, <2>1, <2>2
    <2>4. p.ra - x # 0 /\ p.rb - y # 0
      <3> DEFINE t == p.total
                 left == p.ra - x
                 right == p.rb - y
      <3>1. t \in Nat /\ left \in Nat /\ right \in Nat /\ t * left > 0 /\ t * right > 0
        <4>1. /\ (p.total - l) * p.ra \in Int /\ (p.total - l) * p.rb \in Int
              /\ t * left \in Int /\ t * right \in Int
          BY <1>1, <1>2, <1>3
        <4> QED BY <1>1, <1>3, <1>4, <2>3, <4>1
      <3> HIDE DEF t, left, right
      <3>2. left # 0 /\ right # 0
        BY <3>1
      <3> QED BY <3>2 DEF left, right
    <2>5. q.ra \in Nat /\ q.rb \in Nat
      BY <1>7 DEF Pools
    <2>6. q.ra # 0 /\ q.rb # 0
      BY <1>7, <2>4
    <2> QED BY <2>5, <2>6
  <1> QED BY <1>1, <1>5, <1>7, <1>8, <1>10, <1>11, <1>12, OnePool

\* The part of a reserve that a swap may drain is a number.
LEMMA DrainTyped == ASSUME IInv PROVE params.maxDrain \in 1..30
  BY DexAssumption DEF IInv, TypeOK, ValidParams

\* What a swap pays is a number.
LEMMA SwapPaysNat ==
  ASSUME IInv, NEW i \in DOMAIN pools, NEW n \in Amounts, NEW d, NEW e
  PROVE  CalculateSwap(pools[i], n, Side(pools[i], d), Side(pools[i], e)) \in Nat
  <1> DEFINE in == Side(pools[i], d)
             out == Side(pools[i], e)
  <1>1. pools[i] \in Pools
    BY DEF IInv, TypeOK
  <1>2. in \in Nat /\ out \in Nat
    BY <1>1 DEF Side, Pools
  <1>3. n \in Nat \ {0}
    BY DexAssumption
  <1> HIDE DEF in, out
  <1>4. CalculateSwap(pools[i], n, in, out) \in 0..out
    BY <1>1, <1>2, <1>3, DrainTyped, SwapProduct
  <1> QED BY <1>2, <1>4 DEF in, out

\* Swap takes no side whole, and half a unit more than the constant product at most.
LEMMA SwapStep ==
  ASSUME IInv, NEW u \in Users, NEW i \in DOMAIN pools, NEW n \in Amounts,
         NEW d \in Denoms, NEW least \in Amounts \cup {0}, Swap(u, i, n, d, least)
  PROVE  IInv' /\ Growing
  <1> DEFINE p == pools[i]
             e == IF d = p.a THEN p.b ELSE p.a
             in == Side(p, d)
             out == Side(p, e)
             m == CalculateSwap(p, n, in, out)
             q == IF d = p.a THEN Holding(p, p.ra + n, p.rb - m, p.total)
                  ELSE Holding(p, p.ra - m, p.rb + n, p.total)
  <1>1. /\ p \in Pools /\ p.ra \in Nat /\ p.rb \in Nat /\ p.total \in Nat
        /\ p.a \in Denoms /\ p.b \in Denoms /\ p.a # p.b /\ p.fee \in 0..(FeeUnit - 1)
    BY DEF IInv, TypeOK, Pools
  <1>2. n \in Nat \ {0}
    BY DexAssumption
  <1>3. /\ d \in {p.a, p.b} /\ in \in Nat /\ out \in Nat
        /\ d = p.a => in = p.ra /\ out = p.rb
        /\ d # p.a => in = p.rb /\ out = p.ra
    BY <1>1 DEF Side, Swap
  <1>4. /\ pools' = [pools EXCEPT ![i] = q] /\ UNCHANGED <<shares, params, nextPoolId>>
        /\ Exchange(u, Coin(d, n), Coin(d, 0), Coin(e, m))
    BY DEF Swap
  <1> HIDE DEF in, out
  <1>5. /\ m \in 0..out /\ (out > 0 => m < out)
        /\ 2 * Unit * (in * out) <= 2 * Unit * ((in + n) * (out - m)) + (in + n)
    BY <1>1, <1>2, <1>3, DrainTyped, SwapProduct
  <1> HIDE DEF m
  <1>6. \/ d = p.a /\ q.ra = in + n /\ q.rb = out - m /\ p.ra = in /\ p.rb = out
        \/ d # p.a /\ q.rb = in + n /\ q.ra = out - m /\ p.rb = in /\ p.ra = out
    BY <1>1, <1>3 DEF Holding
  <1>7. q \in Pools /\ q.a = p.a /\ q.b = p.b /\ q.total = p.total
    BY <1>1, <1>2, <1>3, <1>5 DEF Pools, Holding
  <1> HIDE DEF q
  <1>8. Kept(p, q)
    <2> DEFINE gain == IF q.ra > p.ra THEN q.ra ELSE q.rb
    <2>1. p.ra * p.rb = in * out /\ q.ra * q.rb = (in + n) * (out - m) /\ gain = in + n
      <3>1. CASE d = p.a
        BY <1>2, <1>3, <1>5, <1>6, <3>1
      <3>2. CASE d # p.a
        <4>1. q.rb = in + n /\ q.ra = out - m /\ p.rb = in /\ p.ra = out
          BY <1>6, <3>2
        <4>2. out * in = in * out /\ (out - m) * (in + n) = (in + n) * (out - m)
          BY <1>2, <1>3, <1>5
        <4>3. ~(q.ra > p.ra)
          BY <1>3, <1>5, <4>1
        <4> QED BY <4>1, <4>2, <4>3
      <3> QED BY <3>1, <3>2
    <2>2. 2 * Unit * (p.ra * p.rb) <= 2 * Unit * (q.ra * q.rb) + gain
      BY <1>5, <2>1
    <2> QED BY <1>7, <2>2 DEF Kept, Shaved
  <1>11. Stocked(q)
    <2> SUFFICES ASSUME q.total > 0 PROVE q.ra > 0 /\ q.rb > 0
      BY DEF Stocked
    <2>1. p.ra > 0 /\ p.rb > 0
      BY <1>7 DEF IInv, Funded
    <2> QED BY <1>1, <1>2, <1>3, <1>5, <1>6, <2>1
  <1>9. shares' \in [PoolIds -> [Users -> Nat]]
    BY <1>4 DEF IInv, TypeOK
  <1>10. bank' \in [Accounts -> [Denoms -> Nat]]
    <2>1. Coin(d, n) \in [Denoms -> Nat] /\ Coin(e, m) \in [Denoms -> Nat]
      BY <1>2, <1>3, <1>5, CoinTyped
    <2>2. Coin(d, 0) \in [Denoms -> Int]
      BY CoinTyped
    <2> QED BY <1>4, <2>1, <2>2, ExchangeTyped DEF IInv, TypeOK
  <1> QED BY <1>4, <1>7, <1>8, <1>9, <1>10, <1>11, OnePool

\* What leaves the pools alone leaves them typed, funded and worth as much.
LEMMA NoPool ==
  ASSUME IInv, UNCHANGED <<pools, nextPoolId>>,
         shares' \in [PoolIds -> [Users -> Nat]],
         params' \in ParamChoices, ValidParams(params'),
         bank' \in [Accounts -> [Denoms -> Nat]]
  PROVE  IInv' /\ Growing
  <1>1. IInv'
    BY DEF IInv, TypeOK, Funded, ValidParams
  <1>2. Growing
    BY KeptSelf DEF IInv, TypeOK, Growing
  <1> QED BY <1>1, <1>2

\* Parameters, imports and transfers between users leave the pools alone.
LEMMA OtherSteps ==
  ASSUME IInv,
         \/ \E p \in ParamChoices : UpdateParams(p)
         \/ ExportImport
         \/ \E u, v \in Users, d \in PoolIds, n \in Amounts : BankSend(u, v, d, n)
         \/ UNCHANGED vars
  PROVE  IInv' /\ Growing
  <1>1. /\ shares \in [PoolIds -> [Users -> Nat]] /\ bank \in [Accounts -> [Denoms -> Nat]]
        /\ params \in ParamChoices /\ ValidParams(params)
    BY DEF IInv, TypeOK
  <1>2. ASSUME NEW p \in ParamChoices, UpdateParams(p) PROVE IInv' /\ Growing
    BY <1>1, <1>2, NoPool DEF UpdateParams, ValidParams
  <1>3. ASSUME ExportImport PROVE IInv' /\ Growing
    <2>1. shares' \in [PoolIds -> [Users -> Nat]]
      BY <1>3 DEF ExportImport
    <2> QED BY <1>1, <1>3, <2>1, NoPool DEF ExportImport, ValidParams
  <1>4. ASSUME NEW u \in Users, NEW v \in Users, NEW d \in PoolIds, NEW n \in Amounts,
               BankSend(u, v, d, n)
        PROVE  IInv' /\ Growing
    <2>1. u \in Accounts /\ v \in Accounts /\ d \in Denoms /\ n \in Nat
      BY DexAssumption DEF Accounts, Denoms
    <2>2. bank[u][d] - n \in Nat /\ bank[v][d] + n \in Nat /\ u # v
      BY <1>1, <1>4, <2>1 DEF BankSend
    <2>3. bank' \in [Accounts -> [Denoms -> Nat]]
      BY <1>1, <1>4, <2>1, <2>2 DEF BankSend
    <2> QED BY <1>1, <1>4, <2>3, NoPool DEF BankSend, ValidParams
  <1>5. ASSUME UNCHANGED vars PROVE IInv' /\ Growing
    BY <1>1, <1>5, NoPool DEF vars, ValidParams
  <1> QED BY <1>2, <1>3, <1>4, <1>5

\* Every step keeps the invariant and the worth of the shares.
LEMMA EveryStep == IInv /\ [Next]_vars => IInv' /\ Growing
  <1> SUFFICES ASSUME IInv, [Next]_vars PROVE IInv' /\ Growing
    OBVIOUS
  <1>1. ASSUME NEW u \in Users, NEW x \in Amounts, NEW y \in Amounts,
               NEW a \in Denoms, NEW b \in Denoms, NEW fee \in Fees \cup {params.defaultFee},
               CreatePool(u, a, x, b, y, fee)
        PROVE  IInv' /\ Growing
    BY <1>1, CreateStep
  <1>2. ASSUME NEW u \in Users, NEW x \in Amounts, NEW y \in Amounts,
               NEW i \in DOMAIN pools, AddLiquidity(u, i, x, y)
        PROVE  IInv' /\ Growing
    BY <1>2, AddStep
  <1>3. ASSUME NEW u \in Users, NEW n \in Amounts, NEW i \in DOMAIN pools,
               RemoveLiquidity(u, i, n)
        PROVE  IInv' /\ Growing
    BY <1>3, RemoveStep
  <1>4. ASSUME NEW u \in Users, NEW n \in Amounts, NEW i \in DOMAIN pools,
               NEW d \in Denoms, NEW least \in Amounts \cup {0}, Swap(u, i, n, d, least)
        PROVE  IInv' /\ Growing
    BY <1>4, SwapStep
  <1> QED BY <1>1, <1>2, <1>3, <1>4, OtherSteps DEF Next

-----------------------------------------------------------------------------
\* The invariant holds in every reachable state.
THEOREM DexInvariance == Spec => []IInv
  <1>1. IInv /\ [Next]_vars => IInv'
    BY EveryStep
  <1> QED BY InitIInv, <1>1, PTL DEF Spec

\* The state of the keeper is well typed and nobody is ever overdrawn
\* (CreatePool, AddLiquidity, RemoveLiquidity, Swap).
THEOREM DexTypeOK == Spec => []TypeOK
  <1>1. IInv => TypeOK
    BY DEF IInv
  <1> QED BY DexInvariance, <1>1, PTL

\* A pool with shares has both reserves, whatever is swapped and withdrawn, so
\* that its shares always stand for something and others can still join.
THEOREM DexFunded == Spec => []Funded
  <1>1. IInv => Funded
    BY DEF IInv
  <1> QED BY DexInvariance, <1>1, PTL

\* No deposit or withdrawal lowers what a share of any pool is worth, and a swap
\* lowers the product of its reserves by half a unit of one side at most,
\* whatever the fees, amounts, parameters and number of pools.
THEOREM DexWorthKept == Spec => WorthKept
  <1>1. Growing =>
          \A i \in DOMAIN pools :
             LET p == pools[i]
                 q == pools'[i]
                 paidInto == IF q.ra > p.ra THEN q.ra ELSE q.rb
             IN \/ (p.ra * p.rb) * (q.total * q.total) <= (q.ra * q.rb) * (p.total * p.total)
                \/ /\ q.total = p.total
                   /\ 2 * Unit * (p.ra * p.rb) <= 2 * Unit * (q.ra * q.rb) + paidInto
    BY DEF Growing, Kept, Grows, Shaved
  <1>2. IInv /\ [Next]_vars => Growing
    BY EveryStep
  <1> QED BY DexInvariance, <1>1, <1>2, PTL DEF Spec, WorthKept

-----------------------------------------------------------------------------
(* The module account and the liquidity coins.                             *)

\* The shares of a pool, none before it is created.
TotalOf(i) == IF i \in DOMAIN pools THEN pools[i].total ELSE 0

\* What there is of a pool's liquidity coins, and what the records promise.
Covered == \A i \in PoolIds : Supply(i) = TotalOf(i) /\ Issued(i) <= TotalOf(i)

SInv == Solvent /\ Covered

\* What the sums run over, once the state is typed.
LEMMA SumsOver ==
  ASSUME IInv
  PROVE  /\ IsFiniteSet(Accounts) /\ IsFiniteSet(Users) /\ IsFiniteSet(DOMAIN pools)
         /\ Module \in Accounts /\ DOMAIN pools \subseteq PoolIds /\ PoolIds \subseteq Denoms
         /\ \A d \in Denoms :
               /\ Supply(d) = SumFunctionOnSet([x \in Accounts |-> bank[x][d]], Accounts)
               /\ Supply(d) \in Nat
         /\ \A i \in PoolIds : /\ Issued(i) = SumFunctionOnSet(shares[i], Users)
                               /\ Issued(i) \in Nat
<1>1. /\ bank \in [Accounts -> [Denoms -> Nat]] /\ shares \in [PoolIds -> [Users -> Nat]]
      /\ nextPoolId \in 1..(MaxPools + 1) /\ DOMAIN pools = 1..(nextPoolId - 1)
  BY DEF IInv, TypeOK
<1>2. IsFiniteSet(Users) /\ IsFiniteSet(Accounts) /\ Module \in Accounts
  BY DexAssumption, FS_AddElement DEF Accounts
<1>3. IsFiniteSet(DOMAIN pools) /\ DOMAIN pools \subseteq PoolIds
  <2>1. nextPoolId \in Int /\ MaxPools \in Int
    BY <1>1, DexAssumption
  <2> QED BY <1>1, <2>1, FS_Interval DEF PoolIds
<1>4. PoolIds \subseteq Denoms
  BY DEF Denoms
<1>5. ASSUME NEW d \in Denoms
      PROVE  /\ Supply(d) = SumFunctionOnSet([x \in Accounts |-> bank[x][d]], Accounts)
             /\ Supply(d) \in Nat
  <2> DEFINE f == [x \in Accounts |-> bank[x][d]]
  <2>1. DOMAIN f = Accounts /\ \A x \in Accounts : f[x] \in Nat
    BY <1>1
  <2>2. Supply(d) = SumFunction(f)
    BY DEF Supply
  <2> HIDE DEF f
  <2>3. SumFunctionOnSet(f, Accounts) \in Nat /\ SumFunction(f) = SumFunctionOnSet(f, Accounts)
    BY <1>2, <2>1, SumNat, SumWhole
  <2> QED BY <2>2, <2>3 DEF f
<1>6. ASSUME NEW i \in PoolIds
      PROVE  Issued(i) = SumFunctionOnSet(shares[i], Users) /\ Issued(i) \in Nat
  <2>1. DOMAIN shares[i] = Users /\ \A u \in Users : shares[i][u] \in Nat
    BY <1>1
  <2> QED BY <1>2, <2>1, SumNat, SumWhole DEF Issued
<1> QED BY <1>2, <1>3, <1>4, <1>5, <1>6

\* Types of the sums.
LEMMA SumsTyped ==
  ASSUME IInv, NEW i \in PoolIds
  PROVE  i \in Denoms /\ Supply(i) \in Int /\ Issued(i) \in Int
<1>1. i \in Denoms
  BY SumsOver
<1>2. Supply(i) \in Nat
  BY <1>1, SumsOver
<1>3. Issued(i) \in Nat
  BY SumsOver
<1> QED BY <1>1, <1>2, <1>3

\* An exchange pays the module account the difference, and brings into
\* circulation what is minted.
LEMMA ExchangeMoves ==
  ASSUME IInv, IInv', NEW u \in Users, NEW in \in [Denoms -> Nat], NEW minted \in [Denoms -> Int],
         NEW out \in [Denoms -> Nat], Exchange(u, in, minted, out), NEW d \in Denoms
  PROVE  /\ bank'[Module][d] = bank[Module][d] + in[d] + minted[d] - out[d]
         /\ Supply(d)' = Supply(d) + minted[d]
<1>1. u \in Accounts /\ Module \in Accounts /\ u # Module
  BY DexAssumption DEF Accounts
<1>2. bank \in [Accounts -> [Denoms -> Nat]]
  BY DEF IInv, TypeOK
<1> DEFINE f == [x \in Accounts |-> bank[x][d]]
           h == [x \in Accounts |-> bank'[x][d]]
           g == [f EXCEPT ![u] = bank[u][d] - in[d] + out[d]]
<1>3. /\ bank'[Module][d] = bank[Module][d] + in[d] + minted[d] - out[d]
      /\ bank'[u][d] = bank[u][d] - in[d] + out[d]
      /\ \A x \in Accounts : x # u /\ x # Module => bank'[x][d] = bank[x][d]
  BY <1>1, <1>2 DEF Exchange
<1>4. in[d] \in Nat /\ minted[d] \in Int /\ out[d] \in Nat /\ \A x \in Accounts : bank[x][d] \in Nat
  BY <1>2
<1>5. /\ \A x \in Accounts : f[x] \in Int /\ g[x] \in Int /\ h[x] \in Int
      /\ f[u] = bank[u][d] /\ g[u] = bank[u][d] - in[d] + out[d]
      /\ g[Module] = bank[Module][d]
      /\ h[Module] = bank[Module][d] + in[d] + minted[d] - out[d]
      /\ \A x \in Accounts \ {u} : g[x] = f[x]
      /\ \A x \in Accounts \ {Module} : h[x] = g[x]
  BY <1>1, <1>3, <1>4
<1>6. IsFiniteSet(Accounts)
  BY SumsOver
<1>7. Supply(d) = SumFunctionOnSet(f, Accounts)
  BY SumsOver
<1>8. Supply(d)' = SumFunctionOnSet(h, Accounts)
  <2>1. Supply(d)' = SumFunction(h)
    BY DEF Supply
  <2>2. DOMAIN h = Accounts
    OBVIOUS
  <2> HIDE DEF h
  <2> QED BY <2>1, <2>2, SumWhole
<1> HIDE DEF f, g, h
<1>9. SumFunctionOnSet(g, Accounts) = SumFunctionOnSet(f, Accounts) - f[u] + g[u]
  <2>1. DifferAt(f, g, Accounts, u)
    BY <1>1, <1>5 DEF DifferAt
  <2> QED BY <1>6, <2>1, SumDiffer
<1>10. SumFunctionOnSet(h, Accounts) = SumFunctionOnSet(g, Accounts) - g[Module] + h[Module]
  <2>1. DifferAt(g, h, Accounts, Module)
    BY <1>1, <1>5 DEF DifferAt
  <2> QED BY <1>6, <2>1, SumDiffer
<1>11. SumFunctionOnSet(f, Accounts) \in Int
  BY <1>5, <1>6, SumInt
<1>12. Supply(d)' = Supply(d) + minted[d]
  BY <1>1, <1>4, <1>5, <1>7, <1>8, <1>9, <1>10, <1>11
<1> QED BY <1>3, <1>12

\* The record of one provider of one pool grows by n, which may be negative.
LEMMA IssuedMoves ==
  ASSUME IInv, IInv', NEW i \in PoolIds, NEW u \in Users, NEW n \in Int,
         shares'[i][u] = shares[i][u] + n,
         \A v \in Users \ {u} : shares'[i][v] = shares[i][v],
         \A j \in PoolIds \ {i} : shares'[j] = shares[j]
  PROVE  \A j \in PoolIds : Issued(j)' = IF j = i THEN Issued(j) + n ELSE Issued(j)
<1>1. shares \in [PoolIds -> [Users -> Nat]] /\ shares' \in [PoolIds -> [Users -> Nat]]
  BY DEF IInv, TypeOK
<1>3. IsFiniteSet(Users) /\ \A j \in PoolIds : Issued(j) = SumFunctionOnSet(shares[j], Users)
  BY SumsOver
<1>4. \A j \in PoolIds : Issued(j)' = SumFunctionOnSet(shares'[j], Users)
  <2> SUFFICES ASSUME NEW j \in PoolIds PROVE Issued(j)' = SumFunctionOnSet(shares'[j], Users)
    OBVIOUS
  <2>1. Issued(j)' = SumFunction(shares'[j]) /\ DOMAIN shares'[j] = Users
    BY <1>1 DEF Issued
  <2> QED BY <2>1, SumWhole
<1>5. SumFunctionOnSet(shares'[i], Users) = SumFunctionOnSet(shares[i], Users) + n
  <2>1. IsFiniteSet(Users) /\ \A v \in Users : shares[i][v] \in Int
    BY <1>1, <1>3
  <2> QED BY <2>1, SumShift
<1> QED BY <1>3, <1>4, <1>5

\* The reserve of denomination d in pool p.
ReserveOf(p, d) == IF d \in {p.a, p.b} THEN Side(p, d) ELSE 0

\* What the reserves of one denomination add up to.
LEMMA ReservesOver ==
  ASSUME IInv, NEW d
  PROVE  /\ SumFunction([i \in DOMAIN pools |-> Reserve(i, d)])
              = SumFunctionOnSet([i \in DOMAIN pools |-> ReserveOf(pools[i], d)], DOMAIN pools)
         /\ \A i \in DOMAIN pools : ReserveOf(pools[i], d) \in Nat
<1> DEFINE f == [i \in DOMAIN pools |-> ReserveOf(pools[i], d)]
<1>1. [i \in DOMAIN pools |-> Reserve(i, d)] = f
  BY DEF Reserve, ReserveOf
<1>2. DOMAIN f = DOMAIN pools
  OBVIOUS
<1>3. \A i \in DOMAIN pools : pools[i] \in Pools
  BY DEF IInv, TypeOK
<1>4. \A i \in DOMAIN pools : ReserveOf(pools[i], d) \in Nat
  BY <1>3 DEF ReserveOf, Side, Pools
<1> HIDE DEF f
<1>5. SumFunction(f) = SumFunctionOnSet(f, DOMAIN pools)
  BY <1>2, SumWhole
<1> QED BY <1>1, <1>4, <1>5 DEF f

\* The module account gains of every denomination what the reserves of the one
\* pool a message is about gain.
LEMMA PoolSolvent ==
  ASSUME IInv, IInv', Solvent, NEW i \in DOMAIN pools, DOMAIN pools' = DOMAIN pools,
         \A j \in DOMAIN pools : j # i => pools'[j] = pools[j],
         \A d \in Denoms : bank'[Module][d] - bank[Module][d]
                             = ReserveOf(pools'[i], d) - ReserveOf(pools[i], d)
  PROVE  Solvent'
<1> SUFFICES ASSUME NEW d \in Denoms
             PROVE  bank'[Module][d] = SumFunction([j \in DOMAIN pools |-> Reserve(j, d)])'
  BY DEF Solvent
<1> DEFINE f == [j \in DOMAIN pools |-> ReserveOf(pools[j], d)]
           g == [j \in DOMAIN pools' |-> ReserveOf(pools'[j], d)]
<1>1. SumFunction([j \in DOMAIN pools |-> Reserve(j, d)]) = SumFunctionOnSet(f, DOMAIN pools)
  BY ReservesOver
<1>2. /\ SumFunction([j \in DOMAIN pools |-> Reserve(j, d)])' = SumFunctionOnSet(g, DOMAIN pools)
      /\ \A j \in DOMAIN pools : ReserveOf(pools'[j], d) \in Nat
  <2> DEFINE h == [j \in DOMAIN pools' |-> Reserve(j, d)']
  <2>1. h = g
    BY DEF Reserve, ReserveOf
  <2>2. DOMAIN h = DOMAIN pools
    OBVIOUS
  <2>3. SumFunction([j \in DOMAIN pools |-> Reserve(j, d)])' = SumFunction(h)
    OBVIOUS
  <2>4. \A j \in DOMAIN pools' : pools'[j] \in Pools
    BY DEF IInv, TypeOK
  <2>5. \A j \in DOMAIN pools : ReserveOf(pools'[j], d) \in Nat
    BY <2>4 DEF ReserveOf, Side, Pools
  <2> HIDE DEF h, g
  <2>6. SumFunction(h) = SumFunctionOnSet(h, DOMAIN pools)
    BY <2>2, SumWhole
  <2> QED BY <2>1, <2>3, <2>5, <2>6
<1>3. /\ \A j \in DOMAIN pools : f[j] \in Int /\ g[j] \in Int
      /\ \A j \in DOMAIN pools \ {i} : g[j] = f[j]
      /\ f[i] = ReserveOf(pools[i], d) /\ g[i] = ReserveOf(pools'[i], d)
  <2>1. \A j \in DOMAIN pools : ReserveOf(pools[j], d) \in Nat
    BY ReservesOver
  <2>2. /\ \A j \in DOMAIN pools : f[j] = ReserveOf(pools[j], d) /\ g[j] = ReserveOf(pools'[j], d)
    OBVIOUS
  <2>3. \A j \in DOMAIN pools \ {i} : ReserveOf(pools'[j], d) = ReserveOf(pools[j], d)
    OBVIOUS
  <2> HIDE DEF f, g
  <2> QED BY <1>2, <2>1, <2>2, <2>3
<1>4. IsFiniteSet(DOMAIN pools)
  BY SumsOver
<1>5. bank'[Module][d] - bank[Module][d] = g[i] - f[i]
  BY <1>3
<1> HIDE DEF f, g
<1>6. SumFunctionOnSet(g, DOMAIN pools) = SumFunctionOnSet(f, DOMAIN pools) - f[i] + g[i]
  BY <1>3, <1>4, SumUpdate
<1>7. SumFunctionOnSet(f, DOMAIN pools) \in Int
  BY <1>3, <1>4, SumInt
<1>8. bank[Module][d] = SumFunctionOnSet(f, DOMAIN pools)
  BY <1>1 DEF Solvent
<1>9. bank'[Module][d] \in Int
  <2>1. bank' \in [Accounts -> [Denoms -> Nat]] /\ Module \in Accounts
    BY SumsOver DEF IInv, TypeOK
  <2> QED BY <2>1
<1>10. f[i] \in Int /\ g[i] \in Int
  BY <1>3
<1> QED BY <1>2, <1>5, <1>6, <1>7, <1>8, <1>9, <1>10

\* The parts of a message on pool i that turns p into q and mints m: the coins
\* that come in are what the reserves gain, and the records gain m.
Balanced(in, minted, out, p, q) ==
    \A d \in Denoms : in[d] + minted[d] - out[d] = ReserveOf(q, d) - ReserveOf(p, d)
Mints(minted, i, m) == \A d \in Denoms : minted[d] = IF d = i THEN m ELSE 0
Records(i, m) == \A j \in PoolIds : Issued(j)' = IF j = i THEN Issued(j) + m ELSE Issued(j)

\* A message on one pool keeps the accounts when the exchange pays what the
\* reserves gain and mints what the total and the records gain.
LEMMA PoolSums ==
  ASSUME IInv, IInv', SInv, NEW u \in Users, NEW i \in DOMAIN pools, NEW q, NEW m \in Int,
         NEW in \in [Denoms -> Nat], NEW minted \in [Denoms -> Int], NEW out \in [Denoms -> Nat],
         Exchange(u, in, minted, out),
         pools' = [pools EXCEPT ![i] = q], q.total = pools[i].total + m,
         Mints(minted, i, m), Balanced(in, minted, out, pools[i], q), Records(i, m)
  PROVE  SInv'
<1>1. DOMAIN pools' = DOMAIN pools /\ pools'[i] = q
      /\ \A j \in DOMAIN pools : j # i => pools'[j] = pools[j]
  OBVIOUS
<1>2. Solvent'
  <2>1. ASSUME NEW d \in Denoms
        PROVE  bank'[Module][d] - bank[Module][d] = ReserveOf(pools'[i], d) - ReserveOf(pools[i], d)
    <3>1. bank'[Module][d] = bank[Module][d] + in[d] + minted[d] - out[d]
      BY ExchangeMoves
    <3>2. in[d] \in Int /\ minted[d] \in Int /\ out[d] \in Int /\ bank[Module][d] \in Int
      <4>1. bank \in [Accounts -> [Denoms -> Nat]] /\ Module \in Accounts
        BY SumsOver DEF IInv, TypeOK
      <4> QED BY <4>1
    <3>3. in[d] + minted[d] - out[d] = ReserveOf(pools'[i], d) - ReserveOf(pools[i], d)
      BY <1>1 DEF Balanced
    <3> QED BY <3>1, <3>2, <3>3
  <2>2. Solvent
    BY DEF SInv
  <2> QED BY <1>1, <2>1, <2>2, PoolSolvent
<1>3. Covered'
  <2> SUFFICES ASSUME NEW j \in PoolIds
               PROVE  Supply(j)' = TotalOf(j)' /\ Issued(j)' <= TotalOf(j)'
    BY DEF Covered
  <2>1. Supply(j) = TotalOf(j) /\ Issued(j) <= TotalOf(j)
    BY DEF SInv, Covered
  <2>2. j \in Denoms /\ Supply(j) \in Int /\ Issued(j) \in Int
    BY SumsTyped
  <2>3. Supply(j)' = Supply(j) + minted[j]
    BY <2>2, ExchangeMoves
  <2>4. TotalOf(j)' = IF j = i THEN TotalOf(j) + m ELSE TotalOf(j)
    BY <1>1 DEF TotalOf
  <2>5. minted[j] = (IF j = i THEN m ELSE 0)
        /\ Issued(j)' = (IF j = i THEN Issued(j) + m ELSE Issued(j))
    BY <2>2 DEF Mints, Records
  <2>6. TotalOf(j) \in Int
    BY <2>1, <2>2
  <2>7. CASE j = i
    BY <2>1, <2>2, <2>3, <2>4, <2>5, <2>6, <2>7
  <2>8. CASE j # i
    BY <2>1, <2>2, <2>3, <2>4, <2>5, <2>6, <2>8
  <2> QED BY <2>7, <2>8
<1> QED BY <1>2, <1>3 DEF SInv

\* What a pool's reserves gain when x is added to the first and y to the second.
Gain(p, x, y, d) == (IF d = p.a THEN x ELSE 0) + (IF d = p.b THEN y ELSE 0)

LEMMA HoldingGains ==
  ASSUME NEW p \in Pools, p.a # p.b, NEW x \in Int, NEW y \in Int,
         NEW q, q.a = p.a, q.b = p.b, q.ra = p.ra + x, q.rb = p.rb + y, NEW d
  PROVE  ReserveOf(q, d) - ReserveOf(p, d) = Gain(p, x, y, d)
<1>1. p.ra \in Int /\ p.rb \in Int
  BY DEF Pools
<1> QED BY <1>1 DEF ReserveOf, Side, Gain

\* The record of one provider is what a message adds to.
LEMMA RecordsOne ==
  ASSUME IInv, IInv', NEW i \in PoolIds, NEW u \in Users, NEW m \in Int,
         NEW n, n = shares[i][u] + m, shares' = [shares EXCEPT ![i][u] = n]
  PROVE  Records(i, m)
<1>1. shares \in [PoolIds -> [Users -> Nat]]
  BY DEF IInv, TypeOK
<1>2. /\ shares'[i][u] = shares[i][u] + m
      /\ \A v \in Users \ {u} : shares'[i][v] = shares[i][v]
      /\ \A j \in PoolIds \ {i} : shares'[j] = shares[j]
  BY <1>1
<1> QED BY <1>2, IssuedMoves DEF Records

\* AddLiquidity pays in what the reserves gain, and mints what is recorded.
LEMMA AddSums ==
  ASSUME IInv, IInv', SInv, NEW u \in Users, NEW i \in DOMAIN pools,
         NEW x \in Amounts, NEW y \in Amounts, AddLiquidity(u, i, x, y)
  PROVE  SInv'
<1> DEFINE p == pools[i]
           m == Minted(p, x, y)
           q == Holding(p, p.ra + x, p.rb + y, p.total + m)
           in == Plus(Coin(p.a, x), Coin(p.b, y))
           liq == Coin(i, m)
<1>1. p \in Pools /\ p.a # p.b /\ p.ra \in Nat \ {0} /\ p.rb \in Nat \ {0} /\ p.total \in Nat
  BY DEF IInv, TypeOK, Pools, AddLiquidity
<1>2. x \in Nat /\ y \in Nat /\ x \in Int /\ y \in Int
  BY DexAssumption
<1>3. m \in Nat
  <2>1. x * p.total \in Nat /\ y * p.total \in Nat
    BY <1>1, <1>2
  <2>2. (x * p.total) \div p.ra \in Nat /\ (y * p.total) \div p.rb \in Nat
    BY <1>1, <2>1, DivBound
  <2> QED BY <2>2 DEF Minted, Smaller
<1>4. /\ Exchange(u, in, liq, liq)
      /\ pools' = [pools EXCEPT ![i] = q]
      /\ shares' = [shares EXCEPT ![i][u] = @ + m]
  BY DEF AddLiquidity
<1> HIDE DEF m
<1>5. in \in [Denoms -> Nat] /\ liq \in [Denoms -> Nat] /\ liq \in [Denoms -> Int] /\ m \in Int
  BY <1>2, <1>3, CoinTyped, PlusTyped
<1>6. Mints(liq, i, m)
  BY DEF Coin, Mints
<1>7. \A d \in Denoms : ReserveOf(q, d) - ReserveOf(p, d) = Gain(p, x, y, d)
  <2>1. q.a = p.a /\ q.b = p.b /\ q.ra = p.ra + x /\ q.rb = p.rb + y
    BY DEF Holding
  <2> HIDE DEF p, q
  <2> QED BY <1>1, <1>2, <2>1, HoldingGains
<1>8. Balanced(in, liq, liq, p, q)
  <2> SUFFICES ASSUME NEW d \in Denoms
               PROVE  in[d] + liq[d] - liq[d] = ReserveOf(q, d) - ReserveOf(p, d)
    BY DEF Balanced
  <2>1. in[d] = Gain(p, x, y, d)
    BY DEF Plus, Coin, Gain
  <2>2. in[d] \in Int /\ liq[d] \in Int
    BY <1>5
  <2> HIDE DEF in, liq, q, p
  <2> QED BY <1>7, <2>1, <2>2
<1>9. q.total = p.total + m
  BY DEF Holding
<1>10. Records(i, m)
  BY <1>4, <1>5, SumsOver, RecordsOne
<1> HIDE DEF q, in, liq
<1> QED BY <1>4, <1>5, <1>6, <1>8, <1>9, <1>10, PoolSums

\* RemoveLiquidity pays out what the reserves lose, and burns what it strikes
\* from the record.
LEMMA RemoveSums ==
  ASSUME IInv, IInv', SInv, NEW u \in Users, NEW i \in DOMAIN pools, NEW l \in Amounts,
         RemoveLiquidity(u, i, l)
  PROVE  SInv'
<1> DEFINE p == pools[i]
           x == (l * p.ra) \div p.total
           y == (l * p.rb) \div p.total
           q == Holding(p, p.ra - x, p.rb - y, p.total - l)
           out == Plus(Coin(p.a, x), Coin(p.b, y))
           in == Coin(i, l)
           burnt == Coin(i, -l)
<1>1. p \in Pools /\ p.a # p.b /\ p.ra \in Nat /\ p.rb \in Nat /\ p.total \in Nat \ {0}
  BY DEF IInv, TypeOK, Pools, RemoveLiquidity
<1>2. l \in Nat /\ -l \in Int
  BY DexAssumption
<1>3. x \in Nat /\ y \in Nat
  <2>1. l * p.ra \in Nat /\ l * p.rb \in Nat
    BY <1>1, <1>2
  <2> QED BY <1>1, <2>1, DivBound
<1>4. /\ Exchange(u, in, burnt, out)
      /\ pools' = [pools EXCEPT ![i] = q]
      /\ shares' = [shares EXCEPT ![i][u] = @ - l]
  BY DEF RemoveLiquidity
<1> HIDE DEF x, y
<1>5. in \in [Denoms -> Nat] /\ burnt \in [Denoms -> Int] /\ out \in [Denoms -> Nat]
  BY <1>2, <1>3, CoinTyped, PlusTyped
<1>6. Mints(burnt, i, -l)
  BY DEF Coin, Mints
<1>7. \A d \in Denoms : ReserveOf(q, d) - ReserveOf(p, d) = Gain(p, -x, -y, d)
  <2>1. q.a = p.a /\ q.b = p.b /\ q.ra = p.ra + (-x) /\ q.rb = p.rb + (-y)
    BY <1>1, <1>3 DEF Holding
  <2>2. -x \in Int /\ -y \in Int
    BY <1>3
  <2> HIDE DEF p, q
  <2> QED BY <1>1, <2>1, <2>2, HoldingGains
<1>8. Balanced(in, burnt, out, p, q)
  <2> SUFFICES ASSUME NEW d \in Denoms
               PROVE  in[d] + burnt[d] - out[d] = ReserveOf(q, d) - ReserveOf(p, d)
    BY DEF Balanced
  <2>1. in[d] + burnt[d] = 0
    BY <1>2 DEF Coin
  <2>2. out[d] = Gain(p, x, y, d)
    BY DEF Plus, Coin, Gain
  <2>3. out[d] \in Int /\ in[d] \in Int /\ burnt[d] \in Int
    BY <1>5
  <2>4. Gain(p, -x, -y, d) = -Gain(p, x, y, d)
    BY <1>3 DEF Gain
  <2> HIDE DEF in, burnt, out, q, p
  <2> QED BY <1>7, <2>1, <2>2, <2>3, <2>4
<1>9. q.total = p.total + (-l)
  BY <1>1, <1>2 DEF Holding
<1>10. Records(i, -l)
  <2>1. shares[i][u] \in Nat /\ i \in PoolIds
    BY SumsOver DEF IInv, TypeOK
  <2>2. shares[i][u] - l = shares[i][u] + (-l)
    BY <1>2, <2>1
  <2> QED BY <1>2, <1>4, <2>1, <2>2, RecordsOne
<1> HIDE DEF q, in, out, burnt
<1> QED BY <1>2, <1>4, <1>5, <1>6, <1>8, <1>9, <1>10, PoolSums

\* Swap takes in and pays out what the two reserves gain and lose.
LEMMA SwapSums ==
  ASSUME IInv, IInv', SInv, NEW u \in Users, NEW i \in DOMAIN pools, NEW n \in Amounts,
         NEW d \in Denoms, NEW least \in Amounts \cup {0}, Swap(u, i, n, d, least)
  PROVE  SInv'
<1> DEFINE p == pools[i]
           e == IF d = p.a THEN p.b ELSE p.a
           m == CalculateSwap(p, n, Side(p, d), Side(p, e))
           q == IF d = p.a THEN Holding(p, p.ra + n, p.rb - m, p.total)
                ELSE Holding(p, p.ra - m, p.rb + n, p.total)
           in == Coin(d, n)
           none == Coin(d, 0)
           out == Coin(e, m)
<1>1. p \in Pools /\ p.a # p.b /\ p.ra \in Nat /\ p.rb \in Nat /\ p.total \in Nat
  BY DEF IInv, TypeOK, Pools
<1>2. n \in Nat /\ m \in Nat
  BY DexAssumption, SwapPaysNat
<1>3. /\ Exchange(u, in, none, out)
      /\ pools' = [pools EXCEPT ![i] = q]
      /\ UNCHANGED shares /\ d \in {p.a, p.b}
  BY DEF Swap
<1> HIDE DEF m
<1>4. in \in [Denoms -> Nat] /\ none \in [Denoms -> Int] /\ out \in [Denoms -> Nat] /\ 0 \in Int
  BY <1>2, CoinTyped
<1>5. Mints(none, i, 0)
  BY DEF Coin, Mints
<1>6. Balanced(in, none, out, p, q)
  <2> SUFFICES ASSUME NEW c \in Denoms
               PROVE  in[c] + none[c] - out[c] = ReserveOf(q, c) - ReserveOf(p, c)
    BY DEF Balanced
  <2>1. in[c] = (IF c = d THEN n ELSE 0) /\ none[c] = 0 /\ out[c] = (IF c = e THEN m ELSE 0)
    BY DEF Coin
  <2>2. n \in Int /\ m \in Int /\ -m \in Int
    BY <1>2
  <2>3. CASE d = p.a
    <3>1. q.a = p.a /\ q.b = p.b /\ q.ra = p.ra + n /\ q.rb = p.rb + (-m) /\ e = p.b
      BY <1>1, <1>2, <2>3 DEF Holding
    <3> HIDE DEF p, q, e, in, none, out
    <3>2. ReserveOf(q, c) - ReserveOf(p, c) = Gain(p, n, -m, c)
      BY <1>1, <2>2, <3>1, HoldingGains
    <3> QED BY <1>1, <2>1, <2>2, <2>3, <3>1, <3>2 DEF Gain
  <2>4. CASE d = p.b
    <3>1. q.a = p.a /\ q.b = p.b /\ q.ra = p.ra + (-m) /\ q.rb = p.rb + n /\ e = p.a
      BY <1>1, <1>2, <2>4 DEF Holding
    <3> HIDE DEF p, q, e, in, none, out
    <3>2. ReserveOf(q, c) - ReserveOf(p, c) = Gain(p, -m, n, c)
      BY <1>1, <2>2, <3>1, HoldingGains
    <3> QED BY <1>1, <2>1, <2>2, <2>4, <3>1, <3>2 DEF Gain
  <2> QED BY <1>3, <2>3, <2>4
<1>7. q.total = p.total + 0
  BY <1>1 DEF Holding
<1>8. Records(i, 0)
  <2>1. \A j \in PoolIds : Issued(j)' = Issued(j) /\ Issued(j) \in Int
    BY <1>3, SumsTyped DEF Issued
  <2> QED BY <2>1 DEF Records
<1> HIDE DEF q, in, out, none
<1> QED BY <1>3, <1>4, <1>5, <1>6, <1>7, <1>8, PoolSums

\* CreatePool adds a pool whose reserves are what comes in, and whose coins,
\* of which there were none, are what is minted.
LEMMA CreateSums ==
  ASSUME IInv, IInv', SInv, NEW u \in Users, NEW a \in Denoms, NEW b \in Denoms,
         NEW x \in Amounts, NEW y \in Amounts, NEW fee, CreatePool(u, a, x, b, y, fee)
  PROVE  SInv'
<1> DEFINE i == nextPoolId
           D == DOMAIN pools
           in == Plus(Coin(a, x), Coin(b, y))
<1>1. x \in Nat /\ y \in Nat /\ x * y \in Nat
  BY DexAssumption
<1>2. PICK s \in 0..(x * y) :
        /\ Exchange(u, in, Coin(i, s), Coin(i, s))
        /\ pools' = [j \in DOMAIN pools \cup {i} |->
                       IF j \in DOMAIN pools THEN pools[j]
                       ELSE [a |-> a, b |-> b, ra |-> x, rb |-> y, total |-> s, fee |-> fee]]
        /\ shares' = [shares EXCEPT ![i][u] = s]
  BY DEF CreatePool
<1> DEFINE new == [a |-> a, b |-> b, ra |-> x, rb |-> y, total |-> s, fee |-> fee]
           liq == Coin(i, s)
<1>3. s \in Nat /\ a # b /\ i \in PoolIds
  BY <1>1 DEF CreatePool
<1>4. i \notin D
  <2>1. D = 1..(i - 1) /\ i \in Int
    BY <1>3 DEF IInv, TypeOK, PoolIds
  <2> QED BY <2>1
<1>5. /\ DOMAIN pools' = D \cup {i} /\ pools'[i] = new
      /\ \A j \in D : pools'[j] = pools[j]
  BY <1>2, <1>4
<1>6. in \in [Denoms -> Nat] /\ liq \in [Denoms -> Nat] /\ liq \in [Denoms -> Int]
  BY <1>1, <1>3, CoinTyped, PlusTyped
<1>7. ASSUME NEW d \in Denoms
      PROVE  /\ bank'[Module][d] = bank[Module][d] + ReserveOf(new, d)
             /\ Supply(d)' = Supply(d) + (IF d = i THEN s ELSE 0)
  <2>1. in[d] = ReserveOf(new, d)
    BY <1>1, <1>3 DEF Plus, Coin, ReserveOf, Side
  <2>2. liq[d] = IF d = i THEN s ELSE 0
    BY DEF Coin
  <2>3. in[d] \in Int /\ liq[d] \in Int /\ bank[Module][d] \in Int
    <3>1. bank \in [Accounts -> [Denoms -> Nat]] /\ Module \in Accounts
      BY SumsOver DEF IInv, TypeOK
    <3> QED BY <1>6, <3>1
  <2>4. Exchange(u, in, liq, liq)
    BY <1>2
  <2> HIDE DEF in, liq, new
  <2>5. /\ bank'[Module][d] = bank[Module][d] + in[d] + liq[d] - liq[d]
        /\ Supply(d)' = Supply(d) + liq[d]
    BY <1>6, <2>4, ExchangeMoves
  <2>6. bank'[Module][d] = bank[Module][d] + in[d]
    BY <2>3, <2>5
  <2> QED BY <2>1, <2>2, <2>5, <2>6
<1>8. Solvent'
  <2> SUFFICES ASSUME NEW d \in Denoms
               PROVE  bank'[Module][d] = SumFunction([j \in DOMAIN pools |-> Reserve(j, d)])'
    BY DEF Solvent
  <2> DEFINE f == [j \in D |-> ReserveOf(pools[j], d)]
             g == [j \in DOMAIN pools' |-> Reserve(j, d)']
  <2>1. SumFunction([j \in D |-> Reserve(j, d)]) = SumFunctionOnSet(f, D)
        /\ \A j \in D : ReserveOf(pools[j], d) \in Nat
    BY ReservesOver
  <2>2. /\ \A j \in D : f[j] = ReserveOf(pools[j], d) /\ f[j] \in Int
        /\ \A j \in D : g[j] = f[j]
        /\ g[i] = ReserveOf(new, d) /\ DOMAIN g = D \cup {i}
    BY <1>5, <2>1 DEF Reserve, ReserveOf
  <2>3. ReserveOf(new, d) \in Int
    BY <1>1 DEF ReserveOf, Side
  <2>4. SumFunction([j \in DOMAIN pools |-> Reserve(j, d)])' = SumFunction(g)
    OBVIOUS
  <2>5. IsFiniteSet(D)
    BY SumsOver
  <2> HIDE DEF f, g, new
  <2>6. SumFunction(g) = SumFunctionOnSet(g, D \cup {i})
    BY <2>2, SumWhole
  <2>7. SumFunctionOnSet(g, D \cup {i}) = g[i] + SumFunctionOnSet(g, D)
    <3>1. \A j \in D \cup {i} : g[j] \in Int
      BY <2>2, <2>3
    <3> HIDE DEF D, i
    <3> QED BY <1>4, <2>5, <3>1, SumIn
  <2>8. SumFunctionOnSet(g, D) = SumFunctionOnSet(f, D)
    BY <2>2, <2>5, SumSame
  <2>9. SumFunctionOnSet(f, D) \in Int
    BY <2>2, <2>5, SumInt
  <2>10. bank[Module][d] = SumFunctionOnSet(f, D)
    BY <2>1 DEF SInv, Solvent
  <2> QED BY <1>7, <2>2, <2>3, <2>4, <2>6, <2>7, <2>8, <2>9, <2>10
<1>9. Covered'
  <2>1. shares[i][u] \in Nat
    BY <1>3 DEF IInv, TypeOK
  <2>2. s = shares[i][u] + (s - shares[i][u]) /\ s - shares[i][u] \in Int
    BY <1>3, <2>1
  <2>3. Records(i, s - shares[i][u])
    BY <1>2, <1>3, <2>2, RecordsOne
  <2> SUFFICES ASSUME NEW j \in PoolIds
               PROVE  Supply(j)' = TotalOf(j)' /\ Issued(j)' <= TotalOf(j)'
    BY DEF Covered
  <2>4. Supply(j) = TotalOf(j) /\ Issued(j) <= TotalOf(j)
    BY DEF SInv, Covered
  <2>5. j \in Denoms /\ Supply(j) \in Int /\ Issued(j) \in Int
    BY SumsTyped
  <2>6. Supply(j)' = Supply(j) + (IF j = i THEN s ELSE 0)
    BY <1>7, <2>5
  <2>7. Issued(j)' = IF j = i THEN Issued(j) + (s - shares[i][u]) ELSE Issued(j)
    BY <2>3 DEF Records
  <2>8. CASE j = i
    <3>1. TotalOf(j) = 0 /\ TotalOf(j)' = s
      BY <1>4, <1>5, <2>8 DEF TotalOf
    <3> HIDE DEF i
    <3> QED BY <1>3, <2>1, <2>4, <2>5, <2>6, <2>7, <2>8, <3>1
  <2>9. CASE j # i
    <3>1. TotalOf(j)' = TotalOf(j)
      BY <1>5, <2>9 DEF TotalOf
    <3> QED BY <2>4, <2>5, <2>6, <2>7, <2>9, <3>1
  <2> QED BY <2>8, <2>9
<1> QED BY <1>8, <1>9 DEF SInv

\* What leaves the pools, the module account, the coins in circulation and the
\* records alone, or loses the records, keeps the accounts.
LEMMA QuietSums ==
  ASSUME IInv, SInv, UNCHANGED pools,
         \A d \in Denoms : bank'[Module][d] = bank[Module][d] /\ Supply(d)' = Supply(d),
         \A i \in PoolIds : Issued(i)' <= Issued(i) /\ Issued(i)' \in Int
  PROVE  SInv'
<1>1. Solvent'
  <2>1. \A d \in Denoms : [i \in DOMAIN pools |-> Reserve(i, d)]' = [i \in DOMAIN pools |-> Reserve(i, d)]
    BY DEF Reserve
  <2> QED BY <2>1 DEF SInv, Solvent
<1>2. Covered'
  <2> SUFFICES ASSUME NEW j \in PoolIds
               PROVE  Supply(j)' = TotalOf(j)' /\ Issued(j)' <= TotalOf(j)'
    BY DEF Covered
  <2>1. TotalOf(j)' = TotalOf(j)
    BY DEF TotalOf
  <2>2. Supply(j) = TotalOf(j) /\ Issued(j) <= TotalOf(j)
    BY DEF SInv, Covered
  <2>3. j \in Denoms /\ Supply(j) \in Int /\ Issued(j) \in Int
    BY SumsTyped
  <2>4. Supply(j)' = Supply(j) /\ Issued(j)' <= Issued(j) /\ Issued(j)' \in Int
    BY <2>3
  <2> QED BY <2>1, <2>2, <2>3, <2>4
<1> QED BY <1>1, <1>2 DEF SInv

\* Coins sent between users stay in circulation.
LEMMA SendSums ==
  ASSUME IInv, IInv', SInv, NEW u \in Users, NEW v \in Users, NEW c \in PoolIds, NEW n \in Amounts,
         BankSend(u, v, c, n)
  PROVE  SInv'
<1>1. /\ u \in Accounts /\ v \in Accounts /\ Module \in Accounts /\ u # v
      /\ u # Module /\ v # Module /\ c \in Denoms /\ n \in Nat
  BY DexAssumption DEF Accounts, Denoms, BankSend
<1>2. bank \in [Accounts -> [Denoms -> Nat]]
  BY DEF IInv, TypeOK
<1>3. /\ bank'[u][c] = bank[u][c] - n /\ bank'[v][c] = bank[v][c] + n
      /\ \A x \in Accounts, d \in Denoms : (x # u /\ x # v) \/ d # c => bank'[x][d] = bank[x][d]
  BY <1>1, <1>2 DEF BankSend
<1>4. ASSUME NEW d \in Denoms
      PROVE  bank'[Module][d] = bank[Module][d] /\ Supply(d)' = Supply(d)
  <2> DEFINE f == [x \in Accounts |-> bank[x][d]]
             h == [x \in Accounts |-> bank'[x][d]]
             g == [f EXCEPT ![u] = bank[u][d] - n]
  <2>1. bank'[Module][d] = bank[Module][d]
    BY <1>1, <1>3
  <2>2. Supply(d) = SumFunctionOnSet(f, Accounts) /\ IsFiniteSet(Accounts)
    BY SumsOver
  <2>3. Supply(d)' = SumFunctionOnSet(h, Accounts)
    <3>1. Supply(d)' = SumFunction(h)
      BY DEF Supply
    <3>2. DOMAIN h = Accounts
      OBVIOUS
    <3> HIDE DEF h
    <3> QED BY <3>1, <3>2, SumWhole
  <2>4. CASE d # c
    <3>1. h = f
      BY <1>3, <2>4
    <3> QED BY <2>1, <2>2, <2>3, <3>1
  <2>5. CASE d = c
    <3>1. \A x \in Accounts : bank[x][d] \in Int
      BY <1>2
    <3>2. /\ \A x \in Accounts : f[x] \in Int /\ g[x] \in Int
          /\ f[u] = bank[u][d] /\ g[u] = bank[u][d] - n
          /\ g[v] = bank[v][d] /\ h[v] = bank[v][d] + n
          /\ \A x \in Accounts \ {u} : g[x] = f[x]
          /\ \A x \in Accounts \ {v} : h[x] = g[x]
      BY <1>1, <1>3, <2>5, <3>1
    <3>3. bank[u][d] \in Int /\ bank[v][d] \in Int
      BY <1>1, <3>1
    <3> HIDE DEF f, g, h
    <3>4. g[u] \in Int /\ h[v] \in Int
      BY <1>1, <3>2, <3>3
    <3>5. SumFunctionOnSet(g, Accounts) = SumFunctionOnSet(f, Accounts) - f[u] + g[u]
      BY <1>1, <2>2, <3>2, SumUpdate
    <3>6. SumFunctionOnSet(h, Accounts) = SumFunctionOnSet(g, Accounts) - g[v] + h[v]
      <4>1. (\A x \in Accounts : g[x] \in Int) /\ (\A x \in Accounts \ {v} : h[x] = g[x])
        BY <3>2
      <4> QED BY <1>1, <2>2, <3>4, <4>1, SumUpdate
    <3>7. SumFunctionOnSet(f, Accounts) \in Int
      BY <2>2, <3>2, SumInt
    <3> QED BY <1>1, <2>1, <2>2, <2>3, <3>2, <3>3, <3>5, <3>6, <3>7
  <2> QED BY <2>4, <2>5
<1>5. \A i \in PoolIds : Issued(i)' <= Issued(i) /\ Issued(i)' \in Int
  <2>1. \A i \in PoolIds : Issued(i)' = Issued(i) /\ Issued(i) \in Int
    BY SumsTyped DEF BankSend, Issued
  <2> QED BY <2>1
<1>6. UNCHANGED pools
  BY DEF BankSend
<1> QED BY <1>4, <1>5, <1>6, QuietSums

\* Every step keeps the accounts.
LEMMA EverySum == IInv /\ IInv' /\ SInv /\ [Next]_vars => SInv'
<1> SUFFICES ASSUME IInv, IInv', SInv, [Next]_vars PROVE SInv'
  OBVIOUS
<1>1. ASSUME NEW u \in Users, NEW x \in Amounts, NEW y \in Amounts,
             NEW a \in Denoms, NEW b \in Denoms, NEW fee \in Fees \cup {params.defaultFee},
             CreatePool(u, a, x, b, y, fee)
      PROVE  SInv'
  BY <1>1, CreateSums
<1>2. ASSUME NEW u \in Users, NEW x \in Amounts, NEW y \in Amounts,
             NEW i \in DOMAIN pools, AddLiquidity(u, i, x, y)
      PROVE  SInv'
  BY <1>2, AddSums
<1>3. ASSUME NEW u \in Users, NEW n \in Amounts, NEW i \in DOMAIN pools,
             RemoveLiquidity(u, i, n)
      PROVE  SInv'
  BY <1>3, RemoveSums
<1>4. ASSUME NEW u \in Users, NEW n \in Amounts, NEW i \in DOMAIN pools,
             NEW d \in Denoms, NEW least \in Amounts \cup {0}, Swap(u, i, n, d, least)
      PROVE  SInv'
  BY <1>4, SwapSums
<1>5. ASSUME NEW u \in Users, NEW v \in Users, NEW d \in PoolIds, NEW n \in Amounts,
             BankSend(u, v, d, n)
      PROVE  SInv'
  BY <1>5, SendSums
<1>6. ASSUME UNCHANGED <<pools, bank>>, \A i \in PoolIds : Issued(i)' <= Issued(i) /\ Issued(i)' \in Int
      PROVE  SInv'
  <2>1. \A d \in Denoms : bank'[Module][d] = bank[Module][d] /\ Supply(d)' = Supply(d)
    BY <1>6 DEF Supply
  <2> QED BY <1>6, <2>1, QuietSums
<1>7. CASE (\E p \in ParamChoices : UpdateParams(p)) \/ UNCHANGED vars
  <2>1. UNCHANGED <<pools, bank, shares>>
    BY <1>7 DEF UpdateParams, vars
  <2>2. \A i \in PoolIds : Issued(i)' = Issued(i) /\ Issued(i) \in Int
    BY <2>1, SumsTyped DEF Issued
  <2> QED BY <1>6, <2>1, <2>2
<1>8. CASE ExportImport
  <2> DEFINE none == [v \in Users |-> 0]
  <2>1. SumFunction(none) = 0
    <3>1. DOMAIN none = Users /\ \A v \in Users : none[v] = 0
      OBVIOUS
    <3> HIDE DEF none
    <3>2. SumFunction(none) = SumFunctionOnSet(none, Users) /\ IsFiniteSet(Users)
      BY <3>1, SumWhole, DexAssumption
    <3> QED BY <3>1, <3>2, SumZero
  <2>2. \A i \in PoolIds : Issued(i)' = 0
    BY <1>8, <2>1 DEF ExportImport, Issued
  <2>3. \A i \in PoolIds : Issued(i) \in Nat
    BY SumsOver
  <2>4. UNCHANGED <<pools, bank>>
    BY <1>8 DEF ExportImport
  <2> QED BY <1>6, <2>2, <2>3, <2>4
<1> QED BY <1>1, <1>2, <1>3, <1>4, <1>5, <1>7, <1>8 DEF Next

\* Before the first pool the module account is empty and there are no
\* liquidity coins.
LEMMA InitSums == Init => SInv
<1> SUFFICES ASSUME Init PROVE SInv
  OBVIOUS
<1>1. IInv /\ DOMAIN pools = {}
  BY InitIInv DEF Init
<1>2. \A x \in Accounts, d \in Denoms : d \notin Tokens \/ x = Module => bank[x][d] = 0
  BY DexAssumption DEF Init
<1>3. Solvent
  <2> SUFFICES ASSUME NEW d \in Denoms
               PROVE  bank[Module][d] = SumFunction([i \in DOMAIN pools |-> Reserve(i, d)])
    BY DEF Solvent
  <2>1. SumFunction([i \in DOMAIN pools |-> Reserve(i, d)]) = 0
    <3>1. SumFunction([i \in DOMAIN pools |-> Reserve(i, d)])
            = SumFunctionOnSet([i \in DOMAIN pools |-> ReserveOf(pools[i], d)], {})
      BY <1>1, ReservesOver
    <3> QED BY <3>1, SumEmpty
  <2>2. Module \in Accounts
    BY DEF Accounts
  <2> QED BY <1>2, <2>1, <2>2
<1>4. Covered
  <2> SUFFICES ASSUME NEW i \in PoolIds PROVE Supply(i) = 0 /\ Issued(i) = 0
    BY <1>1 DEF Covered, TotalOf
  <2>1. i \in Denoms /\ i \notin Tokens
    BY DexAssumption DEF PoolIds, Denoms
  <2>2. Supply(i) = 0
    <3> DEFINE f == [x \in Accounts |-> bank[x][i]]
    <3>1. Supply(i) = SumFunctionOnSet(f, Accounts) /\ IsFiniteSet(Accounts)
      BY <1>1, <2>1, SumsOver
    <3>2. \A x \in Accounts : f[x] = 0
      BY <1>2, <2>1
    <3> HIDE DEF f
    <3> QED BY <3>1, <3>2, SumZero
  <2>3. Issued(i) = 0
    <3>1. Issued(i) = SumFunctionOnSet(shares[i], Users) /\ IsFiniteSet(Users)
      BY <1>1, SumsOver
    <3>2. \A v \in Users : shares[i][v] = 0
      BY DEF Init
    <3> QED BY <3>1, <3>2, SumZero
  <2> QED BY <2>2, <2>3
<1> QED BY <1>3, <1>4 DEF SInv

LEMMA SumInvariance == Spec => []SInv
  BY InitSums, EverySum, DexInvariance, PTL DEF Spec

\* The one account of the module holds of every denomination exactly what the
\* pools have in reserve, for any number of pools over any denominations.
THEOREM DexSolvent == Spec => []Solvent
  BY SumInvariance, PTL DEF SInv

\* The liquidity coins of a pool in circulation are its TotalLiquidity, and
\* the keeper's records never promise more, whatever is sent on or deposited
\* in another pool and however often the records are lost.
THEOREM DexSharesCovered == Spec => []SharesCovered
<1>1. IInv /\ SInv => SharesCovered
  <2> SUFFICES ASSUME IInv, SInv, NEW i \in DOMAIN pools
               PROVE  Supply(i) = pools[i].total /\ Issued(i) <= pools[i].total
    BY DEF SharesCovered
  <2>1. i \in PoolIds
    BY SumsOver
  <2> QED BY <2>1 DEF SInv, Covered, TotalOf
<1> QED BY <1>1, DexInvariance, SumInvariance, PTL
=============================================================================
