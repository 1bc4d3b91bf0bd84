-------------------------------- MODULE Dex --------------------------------
(***************************************************************************)
(* x/dex: constant-product pools of two denominations.  A provider pays    *)
(* both denominations in and gets liquidity coins; the keeper also records *)
(* per pool and provider what it has minted to whom (poolLiquidity), and a *)
(* withdrawal needs both the record and the coins.                         *)
(*                                                                         *)
(* A message that fails changes nothing.  Fees are parts of FeeUnit, and   *)
(* decimals have Unit units (10^18 in the code): a swap's output is        *)
(* rounded to a unit, up or down, before it is cut to whole coins.         *)
(* Liquidity coins of pool i are the denomination i: they can be sent on,  *)
(* and put into another pool.                                              *)
(***************************************************************************)
EXTENDS LegacyDec, FiniteSets, Functions

CONSTANTS Users,
          Module,       \* the dex module account
          Tokens,       \* denominations other than liquidity coins
          Amounts,      \* amounts a message may name
          Fees,         \* fees a creator may ask for, in parts of FeeUnit
          FeeUnit,
          Unit,         \* units of a decimal in 1
          ParamChoices, \* parameters the authority may submit
          Funds,        \* coins of each token every user starts with
          MaxPools      \* bound: pools created in all

ASSUME DexAssumption ==
    /\ IsFiniteSet(Users) /\ Module \notin Users
    /\ Tokens \cap Nat = {}
    /\ Amounts \subseteq Nat \ {0}
    /\ FeeUnit \in Nat \ {0} /\ Unit \in Nat \ {0}
    /\ Fees \subseteq 0..(FeeUnit - 1)
    /\ Funds \in Nat /\ MaxPools \in Nat
    /\ ParamChoices \subseteq [minLiquidity : Nat, maxDrain : Nat, minFee : Nat,
                              maxFee : Nat, defaultFee : Nat]

VARIABLES pools,      \* Keeper.pools
          shares,     \* Keeper.poolLiquidity; 0 where there is no record
          params,     \* Keeper.params
          nextPoolId, \* Keeper.nextPoolId
          bank        \* balances of the users and of the module account

vars == <<pools, shares, params, nextPoolId, bank>>

PoolIds == 1..MaxPools
Denoms == Tokens \cup PoolIds
Accounts == Users \cup {Module}
Pools == [a : Denoms, b : Denoms, ra : Nat, rb : Nat, total : Nat, fee : 0..(FeeUnit - 1)]

\* Pool p with other reserves and shares.
Holding(p, ra, rb, total) ==
    [a |-> p.a, b |-> p.b, ra |-> ra, rb |-> rb, total |-> total, fee |-> p.fee]

\* The two sides of pool p, as the input and the output of a swap.
Side(p, d) == IF d = p.a THEN p.ra ELSE p.rb

Coin(d, n) == [x \in Denoms |-> IF x = d THEN n ELSE 0]
Plus(c, e) == [x \in Denoms |-> c[x] + e[x]]

\* The bank: u pays `in` to the module account, the module mints or (below
\* zero) burns, and pays `out` to u.  Refused when either cannot pay.
Exchange(u, in, minted, out) ==
    /\ \A d \in Denoms : bank[u][d] >= in[d] /\ bank[Module][d] + in[d] + minted[d] >= out[d]
    /\ bank' = [bank EXCEPT
         ![u] = [d \in Denoms |-> bank[u][d] - in[d] + out[d]],
         ![Module] = [d \in Denoms |-> bank[Module][d] + in[d] + minted[d] - out[d]]]

\* Params.Validate.
ValidParams(p) == /\ p.minLiquidity # 0
                  /\ p.maxDrain \in 1..30
                  /\ p.defaultFee \in p.minFee..p.maxFee
                  /\ p.maxFee < FeeUnit

-----------------------------------------------------------------------------
Init == /\ pools = [i \in {} |-> {}]
        /\ shares = [i \in PoolIds |-> [u \in Users |-> 0]]
        /\ params \in {p \in ParamChoices : ValidParams(p)}
        /\ nextPoolId = 1
        /\ bank = [x \in Accounts |->
                     [d \in Denoms |-> IF x \in Users /\ d \in Tokens THEN Funds ELSE 0]]

\* s is the integer square root of n.
IsSqrt(s, n) == s * s <= n /\ n < (s + 1) * (s + 1)

\* keeper.CreatePool, checks in the order of the code; an empty fee means the default.
CreatePool(u, a, x, b, y, fee) ==
    /\ nextPoolId \in PoolIds
    /\ a # b
    /\ fee \in params.minFee..params.maxFee
    /\ x >= params.minLiquidity /\ y >= params.minLiquidity
    /\ \E s \in 0..(x * y) :
         /\ IsSqrt(s, x * y)
         /\ Exchange(u, Plus(Coin(a, x), Coin(b, y)), Coin(nextPoolId, s), Coin(nextPoolId, s))
         /\ pools' = [i \in DOMAIN pools \cup {nextPoolId} |->
                        IF i \in DOMAIN pools THEN pools[i]
                        ELSE [a |-> a, b |-> b, ra |-> x, rb |-> y, total |-> s, fee |-> fee]]
         /\ shares' = [shares EXCEPT ![nextPoolId][u] = s]
    /\ nextPoolId' = nextPoolId + 1
    /\ UNCHANGED params

Smaller(m, n) == IF m < n THEN m ELSE n

\* The shares for x of the first and y of the second denomination: the smaller
\* of the two proportions.
Minted(p, x, y) == Smaller((x * p.total) \div p.ra, (y * p.total) \div p.rb)

\* keeper.AddLiquidity.  The pool keeps both amounts whole, whatever the
\* smaller proportion leaves over.
AddLiquidity(u, i, x, y) ==
    LET p == pools[i]
        m == Minted(p, x, y)
    IN /\ p.ra # 0 /\ p.rb # 0
       /\ m # 0
       /\ Exchange(u, Plus(Coin(p.a, x), Coin(p.b, y)), Coin(i, m), Coin(i, m))
       /\ pools' = [pools EXCEPT ![i] = Holding(p, p.ra + x, p.rb + y, p.total + m)]
       /\ shares' = [shares EXCEPT ![i][u] = @ + m]
       /\ UNCHANGED <<params, nextPoolId>>

\* MUTANT: whoever holds the coins may withdraw, whatever the record says.
RemoveByCoins(u, i, l) ==
    LET p == pools[i]
        x == (l * p.ra) \div p.total
        y == (l * p.rb) \div p.total
    IN /\ p.total # 0
       /\ Exchange(u, Coin(i, l), Coin(i, -l), Plus(Coin(p.a, x), Coin(p.b, y)))
       /\ pools' = [pools EXCEPT ![i] = Holding(p, p.ra - x, p.rb - y, p.total - l)]
       /\ shares' = [shares EXCEPT ![i][u] = @ - l]
       /\ UNCHANGED <<params, nextPoolId>>

\* MUTANT: the record of the provider is not written back.
RemoveKeepsRecord(u, i, l) ==
    LET p == pools[i]
        x == (l * p.ra) \div p.total
        y == (l * p.rb) \div p.total
    IN /\ shares[i][u] >= l
       /\ p.total # 0
       /\ Exchange(u, Coin(i, l), Coin(i, -l), Plus(Coin(p.a, x), Coin(p.b, y)))
       /\ pools' = [pools EXCEPT ![i] = Holding(p, p.ra - x, p.rb - y, p.total - l)]
       /\ UNCHANGED <<shares, params, nextPoolId>>

\* keeper.RemoveLiquidity.  Coins of another denomination than the pool's
\* liquidity coins fail at TotalLiquidity.Sub, and an empty pool at the
\* division.
RemoveLiquidity(u, i, l) ==
    LET p == pools[i]
        x == (l * p.ra) \div p.total
        y == (l * p.rb) \div p.total
    IN /\ shares[i][u] >= l
       /\ p.total # 0
       /\ Exchange(u, Coin(i, l), Coin(i, -l), Plus(Coin(p.a, x), Coin(p.b, y)))
       /\ p.ra >= x /\ p.rb >= y /\ p.total >= l
       /\ pools' = [pools EXCEPT ![i] = Holding(p, p.ra - x, p.rb - y, p.total - l)]
       /\ shares' = [shares EXCEPT ![i][u] = @ - l]
       /\ UNCHANGED <<params, nextPoolId>>

\* MUTANT: a swap may drain all of it.
CapWhole(out) == out

\* The part of a reserve that one swap may drain.
Cap(out) == (out * params.maxDrain) \div 100

\* MUTANT: the output is rounded to whole coins, not cut (RoundInt for TruncateInt).
SwapRounded(p, n, in, out) ==
    LET net == n * (FeeUnit - p.fee)
    IN Smaller(RoundHalfEven(Quo(net * out, in * FeeUnit + net, Unit), Unit), Cap(out))

\* calculateSwap: the constant product after the fee, rounded to a unit, at
\* most the cap, cut to whole coins.  The divisor is zero only for an input of
\* nothing into an empty pool; inputs are positive here.
CalculateSwap(p, n, in, out) ==
    LET net == n * (FeeUnit - p.fee)
    IN Smaller(Quo(net * out, in * FeeUnit + net, Unit) \div Unit, Cap(out))

\* MUTANT: the reserves move as if the input were always the first side.
SwapFirstSide(u, i, n, d, least) ==
    LET p == pools[i]
        e == IF d = p.a THEN p.b ELSE p.a
        m == CalculateSwap(p, n, Side(p, d), Side(p, e))
    IN /\ d \in {p.a, p.b}
       /\ m >= least
       /\ Exchange(u, Coin(d, n), Coin(d, 0), Coin(e, m))
       /\ pools' = [pools EXCEPT ![i] = Holding(p, p.ra + n, p.rb - m, p.total)]
       /\ UNCHANGED <<shares, params, nextPoolId>>

\* keeper.Swap: n of denomination d against the other side of pool i, for at
\* least `least`.  The second check of the drain (line 387) repeats the cap.
Swap(u, i, n, d, least) ==
    LET p == pools[i]
        e == IF d = p.a THEN p.b ELSE p.a
        m == CalculateSwap(p, n, Side(p, d), Side(p, e))
    IN /\ d \in {p.a, p.b}
       /\ m >= least
       /\ m <= Cap(Side(p, e))
       /\ Exchange(u, Coin(d, n), Coin(d, 0), Coin(e, m))
       /\ pools' = IF d = p.a
                   THEN [pools EXCEPT ![i] = Holding(p, p.ra + n, p.rb - m, p.total)]
                   ELSE [pools EXCEPT ![i] = Holding(p, p.ra - m, p.rb + n, p.total)]
       /\ UNCHANGED <<shares, params, nextPoolId>>

\* msgServer.UpdateParams by the authority; existing pools keep their fee.
UpdateParams(p) == /\ ValidParams(p)
                   /\ params' = p
                   /\ UNCHANGED <<pools, shares, nextPoolId, bank>>

\* ExportGenesis and InitGenesis: the pools, the parameters and the next
\* identifier survive; poolLiquidity is in no genesis state.
ExportImport == /\ shares' = [i \in PoolIds |-> [u \in Users |-> 0]]
                /\ UNCHANGED <<pools, params, nextPoolId, bank>>

\* A bank message between users: liquidity coins change hands without the
\* keeper's record.
BankSend(u, v, d, n) ==
    /\ u # v /\ bank[u][d] >= n
    /\ bank' = [bank EXCEPT ![u][d] = @ - n, ![v][d] = @ + n]
    /\ UNCHANGED <<pools, shares, params, nextPoolId>>

Next == \/ \E u \in Users, x, y \in Amounts :
              \/ \E a, b \in Denoms, fee \in Fees \cup {params.defaultFee} :
                    CreatePool(u, a, x, b, y, fee)
              \/ \E i \in DOMAIN pools : AddLiquidity(u, i, x, y)
        \/ \E u \in Users, n \in Amounts :
              \/ \E i \in DOMAIN pools : RemoveLiquidity(u, i, n)
              \/ \E i \in DOMAIN pools, d \in Denoms, least \in Amounts \cup {0} :
                    Swap(u, i, n, d, least)
              \/ \E v \in Users, d \in PoolIds : BankSend(u, v, d, n)
        \/ \E p \in ParamChoices : UpdateParams(p)
        \/ ExportImport

Spec == Init /\ [][Next]_vars

-----------------------------------------------------------------------------
\* The types of the keeper's state; pool i is about two different
\* denominations that exist, and an account never goes below zero.
TypeOK == /\ nextPoolId \in 1..(MaxPools + 1)
          /\ DOMAIN pools = 1..(nextPoolId - 1)
          /\ \A i \in DOMAIN pools : pools[i] \in Pools /\ pools[i].a # pools[i].b
          /\ shares \in [PoolIds -> [Users -> Nat]]
          /\ params \in ParamChoices /\ ValidParams(params)
          /\ bank \in [Accounts -> [Denoms -> Nat]]

Reserve(i, d) == IF d \in {pools[i].a, pools[i].b} THEN Side(pools[i], d) ELSE 0

\* The module account holds of every denomination exactly what the pools that
\* trade it have in reserve: pools share one account, and no message pays out
\* of one pool what belongs to another (CreatePool, AddLiquidity,
\* RemoveLiquidity and Swap each move coins and reserves separately).
Solvent == \A d \in Denoms :
              bank[Module][d] = SumFunction([i \in DOMAIN pools |-> Reserve(i, d)])

\* The coins of a denomination in circulation, and the keeper's record of them.
Supply(d) == SumFunction([x \in Accounts |-> bank[x][d]])
Issued(i) == SumFunction(shares[i])

\* The liquidity coins in circulation are the pool's TotalLiquidity, and the
\* keeper's records never promise more of it than there is, whoever holds the
\* coins and also after an import that has lost the records (RemoveLiquidity
\* subtracts from all three, lines 321-352).
SharesCovered == \A i \in DOMAIN pools :
    Supply(i) = pools[i].total /\ Issued(i) <= pools[i].total

\* A pool with shares has both reserves, so that its holders can always get
\* something out and others in: no swap takes all of a side (lines 386-387 and
\* 448-451) and no withdrawal leaves shares without both (lines 315-316).
Funded == \A i \in DOMAIN pools :
             pools[i].total > 0 => pools[i].ra > 0 /\ pools[i].rb > 0

\* What one share is worth, by the product of the reserves over the square of
\* the shares: deposits and withdrawals never lower it.  A swap, which leaves
\* the shares alone, may lower the product of the reserves, but by no more than
\* half a unit of the reserve it pays into, whatever its size and its fee
\* (LegacyDec.Quo at line 446 rounds up as well as down).
WorthKept == [][\A i \in DOMAIN pools :
    LET p == pools[i]
        q == pools'[i]
        paidInto == IF q.ra > p.ra THEN q.ra ELSE q.rb
    IN \/ (p.ra * p.rb) * (q.total * q.total) <= (q.ra * q.rb) * (p.total * p.total)
       \/ /\ q.total = p.total
          /\ 2 * Unit * (p.ra * p.rb) <= 2 * Unit * (q.ra * q.rb) + paidInto]_vars
=============================================================================
