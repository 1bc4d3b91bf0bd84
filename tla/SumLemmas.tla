----------------------------- MODULE SumLemmas -----------------------------
(***************************************************************************)
(* Facts about SumFunctionOnSet(f, S), the sum of f[x] over the x of a     *)
(* finite set S.  The ledgers of this project state conservation with it:  *)
(* the coins of an account are the sum of what the records hold.           *)
(*                                                                         *)
(* The community module defines the sum by a recursive function on the     *)
(* subsets of S, that is by a CHOOSE.  The first part shows that the       *)
(* function exists, by induction over the subsets of S.  The induction is  *)
(* over a SET of subsets and not over a predicate, so that no theorem here *)
(* takes an operator as a parameter.  A finite set of numbers has a        *)
(* greatest element (Greatest) by the same induction.                      *)
(*                                                                         *)
(* The last part bounds the rounded quotient of LegacyDec.                 *)
(***************************************************************************)
EXTENDS LegacyDec, Functions, FiniteSets, FiniteSetTheorems, WellFoundedInduction, TLAPS

(***************************************************************************)
(* Induction over the subsets of a finite set.                             *)
(***************************************************************************)

\* A set of subsets of S that holds T whenever it holds every smaller set than T holds them all.
LEMMA SubsetInduction ==
  ASSUME NEW S, IsFiniteSet(S), NEW Good,
         \A T \in SUBSET S : (\A U \in SUBSET T : U # T => U \in Good) => T \in Good
  PROVE  \A T \in SUBSET S : T \in Good
<1> DEFINE Bad == (SUBSET S) \ Good
<1>1. IsWellFoundedOn(StrictSubsetOrdering(S), SUBSET S)
  BY FS_StrictSubsetOrderingWellFounded, FS_FiniteSubsetsOfFinite
<1>2. ASSUME Bad # {} PROVE FALSE
  <2>1. PICK T \in Bad : \A U \in Bad : ~(<<U, T>> \in StrictSubsetOrdering(S))
    <3> HIDE DEF Bad
    <3>1. Bad \subseteq SUBSET S
      BY DEF Bad
    <3> QED BY <1>1, <1>2, <3>1, WFMin
  <2>2. \A U \in SUBSET T : U # T => U \in Good
    BY <2>1 DEF StrictSubsetOrdering
  <2> QED BY <2>2
<1> QED BY <1>2

\* A set of subsets of S that holds {} and, with T, every T \cup {x} holds S.
LEMMA ElementInduction ==
  ASSUME NEW S, IsFiniteSet(S), NEW Good, {} \in Good,
         \A T \in SUBSET S : \A x \in T : T \ {x} \in Good => T \in Good
  PROVE  S \in Good
<1>1. ASSUME NEW T \in SUBSET S, \A U \in SUBSET T : U # T => U \in Good
      PROVE  T \in Good
  <2>1. CASE T = {}
    BY <2>1
  <2>2. CASE T # {}
    <3>1. PICK x \in T : TRUE
      BY <2>2
    <3>2. T \ {x} \in SUBSET T /\ T \ {x} # T
      OBVIOUS
    <3> QED BY <1>1, <3>2
  <2> QED BY <2>1, <2>2
<1> QED BY <1>1, SubsetInduction

\* A finite set of numbers that is not empty has a greatest one.
LEMMA Greatest ==
  ASSUME NEW S \in SUBSET Nat, IsFiniteSet(S), S # {}
  PROVE  \E m \in S : \A x \in S : x <= m
  <1> DEFINE Good == {A \in SUBSET S : A # {} => \E m \in A : \A x \in A : x <= m}
  <1>1. {} \in Good
    OBVIOUS
  <1>2. ASSUME NEW A \in SUBSET S, NEW x \in A, A \ {x} \in Good
        PROVE  A \in Good
    <2>1. CASE A \ {x} = {}
      <3>1. \A y \in A : y <= x
        BY <2>1
      <3> QED BY <3>1
    <2>2. CASE A \ {x} # {}
      <3>1. PICK m \in A \ {x} : \A y \in A \ {x} : y <= m
        BY <1>2, <2>2
      <3>2. CASE x <= m
        <4>1. \A y \in A : y <= m
          BY <3>1, <3>2
        <4> QED BY <3>1, <4>1
      <3>3. CASE ~(x <= m)
        <4>1. x \in Nat /\ m \in Nat /\ \A y \in A : y \in Nat
          OBVIOUS
        <4>2. \A y \in A : y <= x
          BY <3>1, <3>3, <4>1
        <4> QED BY <4>2
      <3> QED BY <3>2, <3>3
    <2> QED BY <2>1, <2>2
  <1>3. S \in Good
    <2> HIDE DEF Good
    <2>1. \A A \in SUBSET S : \A x \in A : A \ {x} \in Good => A \in Good
      BY <1>2
    <2> QED BY <1>1, <2>1, ElementInduction
  <1> QED BY <1>3

(***************************************************************************)
(* The recursive function behind the sum.                                  *)
(***************************************************************************)

\* The element of a set the sum takes first.
First(s) == CHOOSE x \in s : TRUE

\* g sums f over the subsets of A.
Sums(f, A, g) ==
    g = [s \in SUBSET A |-> IF s = {} THEN 0 ELSE f[First(s)] + g[s \ {First(s)}]]

LEMMA FirstIn == ASSUME NEW s, s # {} PROVE First(s) \in s
  BY DEF First

LEMMA SumIsChosen ==
  ASSUME NEW f, NEW A PROVE SumFunctionOnSet(f, A) = (CHOOSE g : Sums(f, A, g))[A]
  BY DEF SumFunctionOnSet, FoldFunctionOnSet, MapThenFoldSet, Sums, First

\* One step of the recursion.
LEMMA SumsStep ==
  ASSUME NEW f, NEW A, NEW g, Sums(f, A, g), NEW s \in SUBSET A
  PROVE  g[s] = IF s = {} THEN 0 ELSE f[First(s)] + g[s \ {First(s)}]
  BY DEF Sums

\* Two functions that sum f agree where both are defined.
LEMMA SumsAgree ==
  ASSUME NEW f, NEW A, NEW B, NEW g, NEW k, Sums(f, A, g), Sums(f, B, k),
         NEW S, IsFiniteSet(S), S \subseteq A, S \subseteq B
  PROVE  g[S] = k[S]
<1> DEFINE Good == {s \in SUBSET S : g[s] = k[s]}
<1>1. {} \in Good
  <2>1. g[{}] = 0 /\ k[{}] = 0
    BY SumsStep
  <2> QED BY <2>1
<1>2. ASSUME NEW T \in SUBSET S, \A U \in SUBSET T : U # T => U \in Good
      PROVE  T \in Good
  <2>1. CASE T = {}
    BY <1>1, <2>1
  <2>2. CASE T # {}
    <3>1. First(T) \in T /\ T \in SUBSET A /\ T \in SUBSET B
      BY <2>2, FirstIn
    <3>2. T \ {First(T)} \in Good
      BY <1>2, <3>1
    <3>3. /\ g[T] = f[First(T)] + g[T \ {First(T)}]
          /\ k[T] = f[First(T)] + k[T \ {First(T)}]
      BY <2>2, <3>1, SumsStep
    <3> QED BY <3>2, <3>3
  <2> QED BY <2>1, <2>2
<1>3. S \in Good
  <2> HIDE DEF Good
  <2>1. \A T \in SUBSET S : (\A U \in SUBSET T : U # T => U \in Good) => T \in Good
    BY <1>2
  <2> QED BY <2>1, SubsetInduction
<1> QED BY <1>3

\* On the subsets of a finite set a function that sums f exists.
LEMMA SumsExist ==
  ASSUME NEW f, NEW S, IsFiniteSet(S)
  PROVE  \E g : Sums(f, S, g)
<1> DEFINE Good == {A \in SUBSET S : \E g : Sums(f, A, g)}
<1>1. ASSUME NEW A \in SUBSET S, \A U \in SUBSET A : U # A => U \in Good
      PROVE  A \in Good
  <2> DEFINE of(U) == CHOOSE g : Sums(f, U, g)
             value(U) == IF U = {} THEN 0 ELSE f[First(U)] + of(U \ {First(U)})[U \ {First(U)}]
             g == [s \in SUBSET A |-> value(s)]
  <2>1. \A U \in SUBSET A : U # A => Sums(f, U, of(U))
    BY <1>1
  <2>2. ASSUME NEW U \in SUBSET A, U # A
        PROVE  of(U)[U] = value(U)
    <3>1. Sums(f, U, of(U))
      BY <2>1, <2>2
    <3>2. CASE U = {}
      BY <3>1, <3>2, SumsStep
    <3>3. CASE U # {}
      <4> DEFINE V == U \ {First(U)}
      <4>1. First(U) \in U
        BY <3>3, FirstIn
      <4>2. V \in SUBSET A /\ V # A /\ V \in SUBSET U /\ V \subseteq V /\ IsFiniteSet(V)
        BY <2>2, <4>1, FS_Subset
      <4>3. Sums(f, V, of(V))
        BY <2>1, <4>2
      <4> HIDE DEF of, V
      <4>4. of(U)[V] = of(V)[V]
        BY <3>1, <4>2, <4>3, SumsAgree
      <4>5. of(U)[U] = f[First(U)] + of(U)[U \ {First(U)}]
        BY <3>1, <3>3, SumsStep
      <4> QED BY <3>3, <4>4, <4>5 DEF V
    <3> QED BY <3>2, <3>3
  <2>3. ASSUME NEW s \in SUBSET A
        PROVE  g[s] = IF s = {} THEN 0 ELSE f[First(s)] + g[s \ {First(s)}]
    <3>1. CASE s = {}
      BY <3>1
    <3>2. CASE s # {}
      <4> DEFINE t == s \ {First(s)}
      <4>1. First(s) \in s
        BY <3>2, FirstIn
      <4>2. t \in SUBSET A /\ t # A
        BY <4>1
      <4>3. g[t] = value(t) /\ value(t) = of(t)[t]
        <5> HIDE DEF value, of, t
        <5> QED BY <2>2, <4>2
      <4>4. g[s] = f[First(s)] + of(t)[t]
        BY <3>2
      <4> QED BY <3>2, <4>3, <4>4
    <3> QED BY <3>1, <3>2
  <2>4. Sums(f, A, g)
    <3>1. g = [s \in SUBSET A |-> g[s]]
      OBVIOUS
    <3> HIDE DEF g
    <3>2. g = [s \in SUBSET A |-> IF s = {} THEN 0 ELSE f[First(s)] + g[s \ {First(s)}]]
      BY <2>3, <3>1
    <3> QED BY <3>2 DEF Sums
  <2> QED BY <2>4
<1>2. S \in Good
  <2> HIDE DEF Good
  <2>1. \A T \in SUBSET S : (\A U \in SUBSET T : U # T => U \in Good) => T \in Good
    BY <1>1
  <2> QED BY <2>1, SubsetInduction
<1> QED BY <1>2

\* One step of the sum itself.
LEMMA SumStep ==
  ASSUME NEW f, NEW S, IsFiniteSet(S)
  PROVE  /\ S = {} => SumFunctionOnSet(f, S) = 0
         /\ S # {} => SumFunctionOnSet(f, S) = f[First(S)] + SumFunctionOnSet(f, S \ {First(S)})
<1> DEFINE of(A) == CHOOSE g : Sums(f, A, g)
           R == S \ {First(S)}
<1>1. Sums(f, S, of(S)) /\ Sums(f, R, of(R))
  <2>1. IsFiniteSet(R)
    BY FS_Subset
  <2> QED BY <2>1, SumsExist
<1>2. SumFunctionOnSet(f, S) = of(S)[S] /\ SumFunctionOnSet(f, R) = of(R)[R]
  BY SumIsChosen
<1> HIDE DEF of
<1>3. CASE S = {}
  BY <1>1, <1>2, <1>3, SumsStep
<1>4. CASE S # {}
  <2>1. R \subseteq S /\ R \subseteq R /\ IsFiniteSet(R)
    BY FS_Subset
  <2>2. of(S)[R] = of(R)[R]
    <3> HIDE DEF R
    <3> QED BY <1>1, <2>1, SumsAgree
  <2>3. of(S)[S] = f[First(S)] + of(S)[R]
    BY <1>1, <1>4, SumsStep
  <2> QED BY <1>2, <1>4, <2>2, <2>3
<1> QED BY <1>3, <1>4

(***************************************************************************)
(* What the ledgers need of a sum.                                         *)
(***************************************************************************)

\* The sum over no element.
LEMMA SumEmpty == ASSUME NEW f PROVE SumFunctionOnSet(f, {}) = 0
  BY SumStep, FS_EmptySet

\* A sum of integers is an integer.
LEMMA SumInt ==
  ASSUME NEW S, IsFiniteSet(S), NEW f, \A x \in S : f[x] \in Int
  PROVE  SumFunctionOnSet(f, S) \in Int
<1> DEFINE Good == {A \in SUBSET S : SumFunctionOnSet(f, A) \in Int}
<1>1. ASSUME NEW A \in SUBSET S, \A U \in SUBSET A : U # A => U \in Good
      PROVE  A \in Good
  <2>1. IsFiniteSet(A)
    BY FS_Subset
  <2>2. CASE A = {}
    BY <2>2, SumEmpty
  <2>3. CASE A # {}
    <3>1. First(A) \in A
      BY <2>3, FirstIn
    <3>2. A \ {First(A)} \in Good
      BY <1>1, <3>1
    <3>3. SumFunctionOnSet(f, A) = f[First(A)] + SumFunctionOnSet(f, A \ {First(A)})
      BY <2>1, <2>3, SumStep
    <3> QED BY <3>1, <3>2, <3>3
  <2> QED BY <2>2, <2>3
<1>2. S \in Good
  <2> HIDE DEF Good
  <2>1. \A T \in SUBSET S : (\A U \in SUBSET T : U # T => U \in Good) => T \in Good
    BY <1>1
  <2> QED BY <2>1, SubsetInduction
<1> QED BY <1>2

\* Any element may be taken out first.
LEMMA SumOut ==
  ASSUME NEW S, IsFiniteSet(S), NEW f, \A x \in S : f[x] \in Int, NEW x \in S
  PROVE  SumFunctionOnSet(f, S) = f[x] + SumFunctionOnSet(f, S \ {x})
<1> DEFINE sum(A) == SumFunctionOnSet(f, A)
           Good == {A \in SUBSET S : \A y \in A : sum(A) = f[y] + sum(A \ {y})}
<1>1. \A A \in SUBSET S : IsFiniteSet(A) /\ sum(A) \in Int
  BY FS_Subset, SumInt
<1>2. ASSUME NEW A \in SUBSET S, \A U \in SUBSET A : U # A => U \in Good
      PROVE  A \in Good
  <2> SUFFICES ASSUME NEW y \in A PROVE sum(A) = f[y] + sum(A \ {y})
    OBVIOUS
  <2> DEFINE p == First(A)
             B == A \ {p, y}
  <2>1. p \in A
    BY FirstIn
  <2>2. sum(A) = f[p] + sum(A \ {p})
    BY <1>1, SumStep
  <2>3. CASE p = y
    BY <2>2, <2>3
  <2>4. CASE p # y
    <3>1. sum(A \ {p}) = f[y] + sum((A \ {p}) \ {y})
      BY <1>2, <2>1, <2>4
    <3>2. sum(A \ {y}) = f[p] + sum((A \ {y}) \ {p})
      BY <1>2, <2>1, <2>4
    <3>3. (A \ {p}) \ {y} = B /\ (A \ {y}) \ {p} = B /\ B \in SUBSET S
      OBVIOUS
    <3>4. sum(B) \in Int /\ f[p] \in Int /\ f[y] \in Int
      <4> HIDE DEF sum, B
      <4> QED BY <1>1, <2>1, <3>3
    <3> HIDE DEF sum, B, p
    <3> QED BY <2>2, <3>1, <3>2, <3>3, <3>4
  <2> QED BY <2>3, <2>4
<1>3. S \in Good
  <2> HIDE DEF Good
  <2>1. \A T \in SUBSET S : (\A U \in SUBSET T : U # T => U \in Good) => T \in Good
    BY <1>2
  <2> QED BY <2>1, SubsetInduction
<1> QED BY <1>3

\* An element put in adds its value.
LEMMA SumIn ==
  ASSUME NEW S, IsFiniteSet(S), NEW f, NEW y, y \notin S, \A x \in S \cup {y} : f[x] \in Int
  PROVE  SumFunctionOnSet(f, S \cup {y}) = f[y] + SumFunctionOnSet(f, S)
<1>1. IsFiniteSet(S \cup {y}) /\ (S \cup {y}) \ {y} = S
  BY FS_AddElement
<1> QED BY <1>1, SumOut

\* The sum sees only the values on the set.
LEMMA SumSame ==
  ASSUME NEW S, IsFiniteSet(S), NEW f, NEW g, \A x \in S : f[x] = g[x]
  PROVE  SumFunctionOnSet(f, S) = SumFunctionOnSet(g, S)
<1> DEFINE Good == {A \in SUBSET S : SumFunctionOnSet(f, A) = SumFunctionOnSet(g, A)}
<1>1. ASSUME NEW A \in SUBSET S, \A U \in SUBSET A : U # A => U \in Good
      PROVE  A \in Good
  <2>1. IsFiniteSet(A)
    BY FS_Subset
  <2>2. CASE A = {}
    BY <2>2, SumEmpty
  <2>3. CASE A # {}
    <3>1. First(A) \in A
      BY <2>3, FirstIn
    <3>2. A \ {First(A)} \in Good
      BY <1>1, <3>1
    <3>3. /\ SumFunctionOnSet(f, A) = f[First(A)] + SumFunctionOnSet(f, A \ {First(A)})
          /\ SumFunctionOnSet(g, A) = g[First(A)] + SumFunctionOnSet(g, A \ {First(A)})
      BY <2>1, <2>3, SumStep
    <3>4. f[First(A)] = g[First(A)]
      BY <3>1
    <3> QED BY <3>2, <3>3, <3>4
  <2> QED BY <2>2, <2>3
<1>2. S \in Good
  <2> HIDE DEF Good
  <2>1. \A T \in SUBSET S : (\A U \in SUBSET T : U # T => U \in Good) => T \in Good
    BY <1>1
  <2> QED BY <2>1, SubsetInduction
<1> QED BY <1>2

\* A value changed at one element changes the sum by as much.
LEMMA SumUpdate ==
  ASSUME NEW S, IsFiniteSet(S), NEW f, NEW g, NEW x \in S,
         \A y \in S : f[y] \in Int, g[x] \in Int, \A y \in S \ {x} : g[y] = f[y]
  PROVE  SumFunctionOnSet(g, S) = SumFunctionOnSet(f, S) - f[x] + g[x]
<1>1. IsFiniteSet(S \ {x})
  BY FS_Subset
<1>2. \A y \in S : g[y] \in Int
  OBVIOUS
<1>3. SumFunctionOnSet(g, S \ {x}) = SumFunctionOnSet(f, S \ {x})
  BY <1>1, SumSame
<1>4. SumFunctionOnSet(f, S \ {x}) \in Int
  BY <1>1, SumInt
<1>5. SumFunctionOnSet(f, S) = f[x] + SumFunctionOnSet(f, S \ {x})
  BY SumOut
<1>6. SumFunctionOnSet(g, S) = g[x] + SumFunctionOnSet(g, S \ {x})
  BY <1>2, SumOut
<1>7. f[x] \in Int
  OBVIOUS
<1> QED BY <1>3, <1>4, <1>5, <1>6, <1>7

\* Two functions into Int that differ at most at x, as one hypothesis.
DifferAt(f, g, S, x) == /\ x \in S /\ g[x] \in Int /\ \A y \in S : f[y] \in Int
                        /\ \A y \in S \ {x} : g[y] = f[y]

LEMMA SumDiffer ==
  ASSUME NEW S, IsFiniteSet(S), NEW f, NEW g, NEW x, DifferAt(f, g, S, x)
  PROVE  SumFunctionOnSet(g, S) = SumFunctionOnSet(f, S) - f[x] + g[x]
  BY SumUpdate DEF DifferAt

\* The same, with the change as a difference.
LEMMA SumShift ==
  ASSUME NEW S, IsFiniteSet(S), NEW f, NEW g, NEW x \in S, NEW n \in Int,
         \A y \in S : f[y] \in Int, g[x] = f[x] + n, \A y \in S \ {x} : g[y] = f[y]
  PROVE  SumFunctionOnSet(g, S) = SumFunctionOnSet(f, S) + n
<1>1. IsFiniteSet(S \ {x})
  BY FS_Subset
<1>2. \A y \in S : g[y] \in Int
  OBVIOUS
<1>3. SumFunctionOnSet(f, S) = f[x] + SumFunctionOnSet(f, S \ {x})
  BY SumOut
<1>4. SumFunctionOnSet(g, S) = g[x] + SumFunctionOnSet(g, S \ {x})
  BY <1>2, SumOut
<1>5. SumFunctionOnSet(g, S \ {x}) = SumFunctionOnSet(f, S \ {x})
  BY <1>1, SumSame
<1>6. SumFunctionOnSet(f, S \ {x}) \in Int
  BY <1>1, SumInt
<1> QED BY <1>3, <1>4, <1>5, <1>6

\* The sum of two functions is the sum of their sums.
LEMMA SumPlus ==
  ASSUME NEW S, IsFiniteSet(S), NEW f, NEW g, NEW h,
         \A x \in S : f[x] \in Int /\ g[x] \in Int /\ h[x] = f[x] + g[x]
  PROVE  SumFunctionOnSet(h, S) = SumFunctionOnSet(f, S) + SumFunctionOnSet(g, S)
<1> DEFINE Good == {A \in SUBSET S :
                      SumFunctionOnSet(h, A) = SumFunctionOnSet(f, A) + SumFunctionOnSet(g, A)}
<1>1. {} \in Good
  BY SumEmpty
<1>2. ASSUME NEW A \in SUBSET S, NEW x \in A, A \ {x} \in Good
      PROVE  A \in Good
  <2>1. IsFiniteSet(A) /\ IsFiniteSet(A \ {x})
    BY FS_Subset
  <2>2. \A y \in A : f[y] \in Int /\ g[y] \in Int /\ h[y] \in Int
    OBVIOUS
  <2>3. /\ SumFunctionOnSet(f, A) = f[x] + SumFunctionOnSet(f, A \ {x})
        /\ SumFunctionOnSet(g, A) = g[x] + SumFunctionOnSet(g, A \ {x})
        /\ SumFunctionOnSet(h, A) = h[x] + SumFunctionOnSet(h, A \ {x})
    BY <2>1, <2>2, SumOut
  <2>4. SumFunctionOnSet(f, A \ {x}) \in Int /\ SumFunctionOnSet(g, A \ {x}) \in Int
    BY <2>1, <2>2, SumInt
  <2>5. f[x] \in Int /\ g[x] \in Int /\ h[x] = f[x] + g[x]
    OBVIOUS
  <2> QED BY <1>2, <2>3, <2>4, <2>5
<1>3. S \in Good
  <2> HIDE DEF Good
  <2> QED BY <1>1, <1>2, ElementInduction
<1> QED BY <1>3

\* A common factor can be taken out of a sum.
LEMMA SumScale ==
  ASSUME NEW S, IsFiniteSet(S), NEW c \in Int, NEW f, NEW h,
         \A x \in S : f[x] \in Int /\ h[x] = c * f[x]
  PROVE  SumFunctionOnSet(h, S) = c * SumFunctionOnSet(f, S)
<1> DEFINE Good == {A \in SUBSET S : SumFunctionOnSet(h, A) = c * SumFunctionOnSet(f, A)}
<1>1. {} \in Good
  <2>1. c * 0 = 0
    OBVIOUS
  <2> QED BY <2>1, SumEmpty
<1>2. ASSUME NEW A \in SUBSET S, NEW x \in A, A \ {x} \in Good
      PROVE  A \in Good
  <2>1. IsFiniteSet(A) /\ IsFiniteSet(A \ {x})
    BY FS_Subset
  <2>2. \A y \in A : f[y] \in Int /\ h[y] \in Int
    <3>1. ASSUME NEW z \in Int PROVE c * z \in Int
      OBVIOUS
    <3> QED BY <3>1
  <2>3. /\ SumFunctionOnSet(f, A) = f[x] + SumFunctionOnSet(f, A \ {x})
        /\ SumFunctionOnSet(h, A) = h[x] + SumFunctionOnSet(h, A \ {x})
    BY <2>1, <2>2, SumOut
  <2>4. SumFunctionOnSet(f, A \ {x}) \in Int /\ f[x] \in Int
    BY <2>1, <2>2, SumInt
  <2>5. \A y, z \in Int : c * (y + z) = c * y + c * z
    OBVIOUS
  <2>6. h[x] = c * f[x]
    OBVIOUS
  <2> QED BY <1>2, <2>3, <2>4, <2>5, <2>6
<1>3. S \in Good
  <2> HIDE DEF Good
  <2> QED BY <1>1, <1>2, ElementInduction
<1> QED BY <1>3

\* A function nowhere above another has no greater sum.
LEMMA SumMonotone ==
  ASSUME NEW S, IsFiniteSet(S), NEW f, NEW g,
         \A x \in S : f[x] \in Int /\ g[x] \in Int /\ f[x] <= g[x]
  PROVE  SumFunctionOnSet(f, S) <= SumFunctionOnSet(g, S)
<1> DEFINE Good == {A \in SUBSET S : SumFunctionOnSet(f, A) <= SumFunctionOnSet(g, A)}
<1>1. {} \in Good
  BY SumEmpty
<1>2. ASSUME NEW A \in SUBSET S, NEW x \in A, A \ {x} \in Good
      PROVE  A \in Good
  <2>1. IsFiniteSet(A) /\ IsFiniteSet(A \ {x})
    BY FS_Subset
  <2>2. /\ SumFunctionOnSet(f, A) = f[x] + SumFunctionOnSet(f, A \ {x})
        /\ SumFunctionOnSet(g, A) = g[x] + SumFunctionOnSet(g, A \ {x})
    BY <2>1, SumOut
  <2>3. SumFunctionOnSet(f, A \ {x}) \in Int /\ SumFunctionOnSet(g, A \ {x}) \in Int
    BY <2>1, SumInt
  <2>4. f[x] \in Int /\ g[x] \in Int /\ f[x] <= g[x]
    OBVIOUS
  <2> QED BY <1>2, <2>2, <2>3, <2>4
<1>3. S \in Good
  <2> HIDE DEF Good
  <2> QED BY <1>1, <1>2, ElementInduction
<1> QED BY <1>3

\* Zeros add up to zero.
LEMMA SumZero ==
  ASSUME NEW S, IsFiniteSet(S), NEW f, \A x \in S : f[x] = 0
  PROVE  SumFunctionOnSet(f, S) = 0
<1> DEFINE Good == {A \in SUBSET S : SumFunctionOnSet(f, A) = 0}
<1>1. {} \in Good
  BY SumEmpty
<1>2. ASSUME NEW A \in SUBSET S, NEW x \in A, A \ {x} \in Good
      PROVE  A \in Good
  <2>1. IsFiniteSet(A) /\ \A y \in A : f[y] \in Int
    BY FS_Subset
  <2>2. SumFunctionOnSet(f, A) = f[x] + SumFunctionOnSet(f, A \ {x})
    BY <2>1, SumOut
  <2> QED BY <1>2, <2>2
<1>3. S \in Good
  <2> HIDE DEF Good
  <2> QED BY <1>1, <1>2, ElementInduction
<1> QED BY <1>3

\* A sum of naturals is a natural.
LEMMA SumNat ==
  ASSUME NEW S, IsFiniteSet(S), NEW f, \A x \in S : f[x] \in Nat
  PROVE  SumFunctionOnSet(f, S) \in Nat
<1> DEFINE zero == [x \in S |-> 0]
<1>1. SumFunctionOnSet(f, S) \in Int
  BY SumInt
<1>2. SumFunctionOnSet(zero, S) = 0
  BY SumZero
<1>3. SumFunctionOnSet(zero, S) <= SumFunctionOnSet(f, S)
  <2>1. \A x \in S : zero[x] \in Int /\ f[x] \in Int /\ zero[x] <= f[x]
    OBVIOUS
  <2> HIDE DEF zero
  <2> QED BY <2>1, SumMonotone
<1> QED BY <1>1, <1>2, <1>3

\* No value is above a sum of naturals it is part of.
LEMMA SumMember ==
  ASSUME NEW S, IsFiniteSet(S), NEW f, \A x \in S : f[x] \in Nat, NEW x \in S
  PROVE  f[x] <= SumFunctionOnSet(f, S)
<1>1. SumFunctionOnSet(f, S) = f[x] + SumFunctionOnSet(f, S \ {x})
  BY SumOut
<1>2. SumFunctionOnSet(f, S \ {x}) \in Nat
  BY FS_Subset, SumNat
<1> QED BY <1>1, <1>2

\* Two disjoint sets.
LEMMA SumUnion ==
  ASSUME NEW S, IsFiniteSet(S), NEW R, IsFiniteSet(R), S \cap R = {},
         NEW f, \A x \in S \cup R : f[x] \in Int
  PROVE  SumFunctionOnSet(f, S \cup R) = SumFunctionOnSet(f, S) + SumFunctionOnSet(f, R)
<1> DEFINE Good == {A \in SUBSET S : SumFunctionOnSet(f, A \cup R)
                                       = SumFunctionOnSet(f, A) + SumFunctionOnSet(f, R)}
<1>1. {} \in Good
  <2>1. {} \cup R = R /\ SumFunctionOnSet(f, R) \in Int
    BY SumInt
  <2> QED BY <2>1, SumEmpty
<1>2. ASSUME NEW A \in SUBSET S, NEW x \in A, A \ {x} \in Good
      PROVE  A \in Good
  <2>1. /\ IsFiniteSet(A) /\ IsFiniteSet(A \ {x}) /\ IsFiniteSet(A \cup R)
    BY FS_Subset, FS_Union
  <2>2. (A \cup R) \ {x} = (A \ {x}) \cup R /\ x \in A \cup R
    OBVIOUS
  <2>3. SumFunctionOnSet(f, A \cup R) = f[x] + SumFunctionOnSet(f, (A \ {x}) \cup R)
    BY <2>1, <2>2, SumOut
  <2>4. SumFunctionOnSet(f, A) = f[x] + SumFunctionOnSet(f, A \ {x})
    BY <2>1, SumOut
  <2>5. /\ SumFunctionOnSet(f, A \ {x}) \in Int /\ SumFunctionOnSet(f, R) \in Int /\ f[x] \in Int
    BY <2>1, SumInt
  <2> QED BY <1>2, <2>3, <2>4, <2>5
<1>3. S \in Good
  <2> HIDE DEF Good
  <2> QED BY <1>1, <1>2, ElementInduction
<1> QED BY <1>3

\* A part of a sum of naturals is not above the whole.
LEMMA SumPart ==
  ASSUME NEW S, IsFiniteSet(S), NEW R, R \subseteq S, NEW f, \A x \in S : f[x] \in Nat
  PROVE  SumFunctionOnSet(f, R) <= SumFunctionOnSet(f, S)
<1>1. IsFiniteSet(R) /\ IsFiniteSet(S \ R)
  BY FS_Subset
<1>2. R \cup (S \ R) = S /\ R \cap (S \ R) = {}
  OBVIOUS
<1>3. SumFunctionOnSet(f, S) = SumFunctionOnSet(f, R) + SumFunctionOnSet(f, S \ R)
  BY <1>1, <1>2, SumUnion
<1>4. SumFunctionOnSet(f, R) \in Nat /\ SumFunctionOnSet(f, S \ R) \in Nat
  BY <1>1, SumNat
<1> QED BY <1>3, <1>4

\* A function that is zero outside a part sums up to another's sum over that part.
LEMMA SumOnPart ==
  ASSUME NEW S, IsFiniteSet(S), NEW R, R \subseteq S, NEW f, NEW h, \A x \in R : f[x] \in Int,
         \A x \in R : h[x] = f[x], \A x \in S \ R : h[x] = 0
  PROVE  SumFunctionOnSet(h, S) = SumFunctionOnSet(f, R)
<1>1. IsFiniteSet(R) /\ IsFiniteSet(S \ R)
  BY FS_Subset
<1>2. R \cup (S \ R) = S /\ R \cap (S \ R) = {}
  OBVIOUS
<1>3. \A x \in R \cup (S \ R) : h[x] \in Int
  OBVIOUS
<1>4. SumFunctionOnSet(h, R \cup (S \ R)) = SumFunctionOnSet(h, R) + SumFunctionOnSet(h, S \ R)
  BY <1>1, <1>2, <1>3, SumUnion
<1>5. SumFunctionOnSet(h, S \ R) = 0
  BY <1>1, SumZero
<1>6. SumFunctionOnSet(h, R) = SumFunctionOnSet(f, R)
  BY <1>1, SumSame
<1>7. SumFunctionOnSet(f, R) \in Int
  BY <1>1, SumInt
<1> QED BY <1>2, <1>4, <1>5, <1>6, <1>7

\* The sum of a whole function.
LEMMA SumWhole ==
  ASSUME NEW f, NEW S, DOMAIN f = S PROVE SumFunction(f) = SumFunctionOnSet(f, S)
  BY DEF SumFunction

(***************************************************************************)
(* The rounded quotient.                                                   *)
(***************************************************************************)

\* A factor that is not negative keeps an order.
LEMMA TimesMonotone ==
  ASSUME NEW a \in Int, NEW b \in Int, a <= b, NEW c \in Nat
  PROVE  a * c <= b * c
<1>1. (b - a) * c >= 0
  OBVIOUS
<1>2. (b - a) * c = b * c - a * c
  OBVIOUS
<1> QED BY <1>1, <1>2

\* A positive factor may be taken out of both sides.
LEMMA TimesCancel ==
  ASSUME NEW a \in Int, NEW b \in Int, NEW c \in Nat \ {0}, a * c <= b * c
  PROVE  a <= b
<1>1. SUFFICES ASSUME b + 1 <= a PROVE FALSE
  OBVIOUS
<1>2. (b + 1) * c <= a * c
  BY <1>1, TimesMonotone
<1>3. (b + 1) * c = b * c + c
  OBVIOUS
<1> QED BY <1>2, <1>3

\* A division that leaves a rest.
LEMMA DivisionBounds ==
  ASSUME NEW n \in Nat, NEW d \in Nat \ {0}
  PROVE  /\ n \div d \in Nat /\ n % d \in 0..(d - 1)
         /\ (n \div d) * d + (n % d) = n
<1>1. n = d * (n \div d) + (n % d) /\ n % d \in 0..(d - 1) /\ n \div d \in Int
  OBVIOUS
<1>2. n \div d >= 0
  OBVIOUS
<1> QED BY <1>1, <1>2

\* Rounding adds at most half of what it divides by.
LEMMA RoundBounded ==
  ASSUME NEW n \in Nat, NEW d \in Nat \ {0}
  PROVE  RoundHalfEven(n, d) \in Nat /\ 2 * (RoundHalfEven(n, d) * d) <= 2 * n + d
<1> DEFINE q == n \div d
           r == n % d
<1>1. q \in Nat /\ r \in 0..(d - 1) /\ q * d + r = n
  BY DivisionBounds
<1>2. RoundHalfEven(n, d) = IF 2 * r > d \/ (2 * r = d /\ q % 2 = 1) THEN q + 1 ELSE q
  BY DEF RoundHalfEven
<1> HIDE DEF q, r
<1>3. q * d \in Int /\ (q + 1) * d = q * d + d
  BY <1>1
<1>4. CASE RoundHalfEven(n, d) = q
  BY <1>1, <1>3, <1>4
<1>5. CASE RoundHalfEven(n, d) = q + 1 /\ 2 * r >= d
  BY <1>1, <1>3, <1>5
<1> QED BY <1>1, <1>2, <1>4, <1>5

\* A quotient is above the exact one by half a unit's part at most.
LEMMA QuoBounded ==
  ASSUME NEW a \in Nat, NEW b \in Nat \ {0}, NEW unit \in Nat \ {0}
  PROVE  Quo(a, b, unit) \in Nat /\ 2 * (Quo(a, b, unit) * b) <= 2 * (a * unit) + b
<1> DEFINE n == (a * unit * unit) \div b
           q == RoundHalfEven(n, unit)
<1>1. a * unit * unit \in Nat
  OBVIOUS
<1>2. n \in Nat /\ n * b <= a * unit * unit
  <2>1. n \in Nat /\ (a * unit * unit) % b >= 0 /\ (a * unit * unit) % b \in Int
        /\ n * b + ((a * unit * unit) % b) = a * unit * unit
    <3> DEFINE m == a * unit * unit
    <3>1. m \in Nat
      BY <1>1
    <3> HIDE DEF m
    <3>2. m \div b \in Nat /\ m % b \in 0..(b - 1) /\ (m \div b) * b + (m % b) = m
      BY <3>1, DivisionBounds
    <3>3. m % b >= 0 /\ m % b \in Int
      BY <3>2
    <3> QED BY <3>2, <3>3 DEF m
  <2> HIDE DEF n
  <2>2. n * b \in Int
    BY <2>1
  <2> QED BY <1>1, <2>1, <2>2
<1>3. Quo(a, b, unit) = q
  BY DEF Quo
<1>4. q \in Nat /\ 2 * (q * unit) <= 2 * n + unit
  <2> HIDE DEF n
  <2> QED BY <1>2, RoundBounded
<1> HIDE DEF n, q
<1>5. (2 * (q * unit)) * b <= (2 * n + unit) * b
  <2>1. 2 * (q * unit) \in Int /\ 2 * n + unit \in Int
    BY <1>2, <1>4
  <2> QED BY <1>4, <2>1, TimesMonotone
<1>6. /\ (2 * (q * unit)) * b = (2 * (q * b)) * unit
      /\ (2 * n + unit) * b = 2 * (n * b) + unit * b
  BY <1>2, <1>4
<1>7. (2 * (a * unit) + b) * unit = 2 * (a * unit * unit) + unit * b
  OBVIOUS
<1>8. (2 * (q * b)) * unit <= (2 * (a * unit) + b) * unit
  <2>1. /\ (2 * (q * b)) * unit \in Int /\ n * b \in Int /\ unit * b \in Int
        /\ (2 * (a * unit) + b) * unit \in Int
    BY <1>2, <1>4
  <2> QED BY <1>1, <1>2, <1>5, <1>6, <1>7, <2>1
<1>9. 2 * (q * b) <= 2 * (a * unit) + b
  <2>1. 2 * (q * b) \in Int /\ 2 * (a * unit) + b \in Int
    BY <1>4
  <2> QED BY <1>8, <2>1, TimesCancel
<1> QED BY <1>3, <1>4, <1>9
=============================================================================
