-------------------------- MODULE ArithmeticLemmas --------------------------
(***************************************************************************)
(* Facts about the arithmetic that the contracts rest on.  First, about    *)
(* SumFunction over a finite domain, which balances, deposits              *)
(* and debts are added up with: it takes the elements of the domain in an  *)
(* order it does not reveal, and the lemmas show that the order does not   *)
(* matter and what a change of one value does to the sum.  Second, about   *)
(* multiplication and rounding division of naturals, on which the engine's *)
(* fixed-point valuation rests.  Third, induction over sets of numbers and *)
(* powers of two, which bound the integers of the generated libraries.     *)
(***************************************************************************)
EXTENDS Integers, Functions, FiniteSetTheorems, WellFoundedInduction, TLAPS

\* The sums over all subsets of D, with the elements taken in any order.
PartialSums(D, f) ==
  {h \in [SUBSET D -> Int] :
     /\ h[{}] = 0
     /\ \A T \in SUBSET D : \A x \in T : h[T] = f[x] + h[T \ {x}]}

\* A set that has every subset of D whose proper subsets it has, has all
\* subsets of D.
LEMMA SubsetStrongInduction ==
  ASSUME NEW D, IsFiniteSet(D), NEW G,
         \A T \in SUBSET D : (\A U \in SUBSET T : U # T => U \in G) => T \in G
  PROVE  SUBSET D \subseteq G
<1> DEFINE Missing == (SUBSET D) \ G
<1>1. SUFFICES ASSUME ~(SUBSET D \subseteq G) PROVE FALSE
  OBVIOUS
<1>2. IsWellFoundedOn(StrictSubsetOrdering(D), SUBSET D)
  BY FS_StrictSubsetOrderingWellFounded, FS_FiniteSubsetsOfFinite
<1>3. Missing \subseteq SUBSET D /\ Missing # {}
  BY <1>1
<1> HIDE DEF Missing
<1>4. PICK B \in Missing : \A C \in Missing : <<C, B>> \notin StrictSubsetOrdering(D)
  BY <1>2, <1>3, WFMin
<1> USE DEF Missing
<1>5. ASSUME NEW U \in SUBSET B, U # B
      PROVE  U \in G
  <2>1. <<U, B>> \in StrictSubsetOrdering(D)
    BY <1>5 DEF StrictSubsetOrdering
  <2> QED
    BY <1>4, <2>1
<1> QED
  BY <1>5

\* A set that has the empty set, and with each subset of D the subsets one
\* element larger, has D itself.
LEMMA SubsetInduction ==
  ASSUME NEW D, IsFiniteSet(D), NEW G,
         {} \in G,
         \A T \in SUBSET D, x \in D : T \in G => T \cup {x} \in G
  PROVE  D \in G
<1>1. ASSUME NEW T \in SUBSET D, \A U \in SUBSET T : U # T => U \in G
      PROVE  T \in G
  <2>1. CASE T = {}
    BY <2>1
  <2>2. CASE T # {}
    <3>1. PICK x : x \in T
      BY <2>2
    <3>2. T \ {x} \in G /\ (T \ {x}) \cup {x} = T
      BY <1>1, <3>1
    <3> QED
      BY <3>1, <3>2
  <2> QED
    BY <2>1, <2>2
<1>2. SUBSET D \subseteq G
  BY <1>1, SubsetStrongInduction
<1> QED
  BY <1>2

\* Such sums exist.
LEMMA PartialSumsExist ==
  ASSUME NEW D, IsFiniteSet(D), NEW f \in [D -> Int]
  PROVE  PartialSums(D, f) # {}
<1> DEFINE G == {S \in SUBSET D : PartialSums(S, f) # {}}
<1>1. {} \in G
  <2> DEFINE h == [T \in SUBSET {} |-> 0]
  <2>1. h \in PartialSums({}, f)
    BY DEF PartialSums
  <2> QED
    BY <2>1
<1>2. ASSUME NEW S \in SUBSET D, NEW x \in D, S \in G
      PROVE  S \cup {x} \in G
  <2>1. CASE x \in S
    <3>1. S \cup {x} = S
      BY <2>1
    <3> QED
      BY <1>2, <3>1
  <2>2. CASE x \notin S
    <3>1. PICK h : h \in PartialSums(S, f)
      BY <1>2
    <3> DEFINE k == [T \in SUBSET (S \cup {x}) |->
                       IF x \in T THEN f[x] + h[T \ {x}] ELSE h[T]]
    <3>2. /\ h \in [SUBSET S -> Int]
          /\ h[{}] = 0
          /\ \A T \in SUBSET S : \A y \in T : h[T] = f[y] + h[T \ {y}]
      BY <3>1 DEF PartialSums
    <3>3. k \in [SUBSET (S \cup {x}) -> Int]
      <4>1. ASSUME NEW T \in SUBSET (S \cup {x})
            PROVE  /\ x \in T => T \ {x} \in SUBSET S
                   /\ x \notin T => T \in SUBSET S
        OBVIOUS
      <4> QED
        BY <4>1, <3>2
    <3>4. k[{}] = 0
      BY <3>2
    <3>5. ASSUME NEW T \in SUBSET (S \cup {x}), NEW y \in T
          PROVE  k[T] = f[y] + k[T \ {y}]
      <4>1. CASE x \notin T
        <5>1. T \in SUBSET S /\ x \notin T \ {y} /\ T \ {y} \in SUBSET (S \cup {x})
          BY <4>1
        <5> QED
          BY <3>2, <4>1, <5>1
      <4>2. CASE x \in T /\ y = x
        <5>1. x \notin T \ {x} /\ T \ {x} \in SUBSET (S \cup {x})
          OBVIOUS
        <5> QED
          BY <4>2, <5>1
      <4>3. CASE x \in T /\ y # x
        <5>1. /\ y \in T \ {x}
              /\ T \ {x} \in SUBSET S
              /\ (T \ {x}) \ {y} \in SUBSET S
              /\ T \ {y} \in SUBSET (S \cup {x})
              /\ x \in T \ {y}
              /\ (T \ {y}) \ {x} = (T \ {x}) \ {y}
          BY <4>3
        <5>2. h[T \ {x}] = f[y] + h[(T \ {x}) \ {y}]
          BY <3>2, <5>1
        <5>3. k[T \ {y}] = f[x] + h[(T \ {x}) \ {y}]
          BY <5>1
        <5>4. k[T] = f[x] + h[T \ {x}]
          BY <4>3
        <5>5. f[x] \in Int /\ f[y] \in Int /\ h[(T \ {x}) \ {y}] \in Int
          BY <3>2, <5>1
        <5> HIDE DEF k
        <5> QED
          BY <5>2, <5>3, <5>4, <5>5
      <4> QED
        BY <4>1, <4>2, <4>3
    <3>6. k \in PartialSums(S \cup {x}, f)
      <4> HIDE DEF k
      <4> QED
        BY <3>3, <3>4, <3>5 DEF PartialSums
    <3> QED
      BY <3>6
  <2> QED
    BY <2>1, <2>2
<1>3. D \in G
  <2> HIDE DEF G
  <2> QED
    BY <1>1, <1>2, SubsetInduction
<1> QED
  BY <1>3

\* Two functions with the same values have the same partial sums.
LEMMA PartialSumsAgree ==
  ASSUME NEW D, IsFiniteSet(D),
         NEW f, NEW h \in PartialSums(D, f),
         NEW g, NEW k \in PartialSums(D, g),
         NEW S \in SUBSET D, \A y \in S : f[y] = g[y]
  PROVE  h[S] = k[S]
<1> DEFINE G == {T \in SUBSET D : h[T \cap S] = k[T \cap S]}
<1>1. {} \in G
  <2>1. {} \cap S = {}
    OBVIOUS
  <2> QED
    BY <2>1 DEF PartialSums
<1>2. ASSUME NEW T \in SUBSET D, NEW x \in D, T \in G
      PROVE  T \cup {x} \in G
  <2>1. CASE x \in T \/ x \notin S
    <3>1. (T \cup {x}) \cap S = T \cap S
      BY <2>1
    <3> QED
      BY <1>2, <3>1
  <2>2. CASE x \notin T /\ x \in S
    <3> DEFINE U == (T \cup {x}) \cap S
    <3>1. U \in SUBSET D /\ x \in U /\ U \ {x} = T \cap S
      BY <2>2
    <3>2. h[U] = f[x] + h[U \ {x}] /\ k[U] = g[x] + k[U \ {x}]
      BY <3>1 DEF PartialSums
    <3>3. f[x] = g[x]
      BY <2>2
    <3>4. h[U] = k[U]
      BY <1>2, <3>1, <3>2, <3>3
    <3> QED
      BY <3>4
  <2> QED
    BY <2>1, <2>2
<1>3. D \in G
  <2> HIDE DEF G
  <2> QED
    BY <1>1, <1>2, SubsetInduction
<1>4. D \cap S = S
  OBVIOUS
<1> QED
  BY <1>3, <1>4

\* SumFunction is the partial sum over the whole domain.
LEMMA SumFunctionIsPartialSum ==
  ASSUME NEW D, IsFiniteSet(D), NEW f \in [D -> Int], NEW h \in PartialSums(D, f)
  PROVE  SumFunction(f) = h[D]
<1> DEFINE Step(i) ==
      [s \in SUBSET D |-> IF s = {} THEN 0
                          ELSE f[CHOOSE x \in s : TRUE] + i[s \ {CHOOSE x \in s : TRUE}]]
           iter == CHOOSE i : i = Step(i)
<1>1. SumFunction(f) = iter[D]
  BY DEF SumFunction, SumFunctionOnSet, FoldFunctionOnSet, MapThenFoldSet
<1>2. h = Step(h)
  <2>1. h \in [SUBSET D -> Int] /\ h[{}] = 0
    BY DEF PartialSums
  <2>2. ASSUME NEW s \in SUBSET D
        PROVE  h[s] = Step(h)[s]
    <3>1. CASE s = {}
      BY <2>1, <3>1
    <3>2. CASE s # {}
      <4>1. (CHOOSE x \in s : TRUE) \in s
        BY <3>2
      <4>2. h[s] = f[CHOOSE x \in s : TRUE] + h[s \ {CHOOSE x \in s : TRUE}]
        BY <4>1 DEF PartialSums
      <4> QED
        BY <3>2, <4>2
    <3> QED
      BY <3>1, <3>2
  <2> QED
    BY <2>1, <2>2
<1>3. iter = Step(iter)
  <2> HIDE DEF Step
  <2> QED
    BY <1>2
<1> DEFINE G == {s \in SUBSET D : iter[s] = h[s]}
<1> HIDE DEF iter
<1>4. ASSUME NEW s \in SUBSET D, \A U \in SUBSET s : U # s => U \in G
      PROVE  s \in G
  <2>1. iter[s] = Step(iter)[s] /\ h[s] = Step(h)[s]
    BY <1>2, <1>3
  <2>2. CASE s = {}
    BY <2>1, <2>2
  <2>3. CASE s # {}
    <3> DEFINE x == CHOOSE x \in s : TRUE
    <3>1. x \in s
      BY <2>3
    <3>2. s \ {x} \in G
      BY <1>4, <3>1
    <3> QED
      BY <2>1, <2>3, <3>2
  <2> QED
    BY <2>2, <2>3
<1>5. SUBSET D \subseteq G
  <2> HIDE DEF G
  <2> QED
    BY <1>4, SubsetStrongInduction
<1> QED
  BY <1>1, <1>5

-----------------------------------------------------------------------------
(* What the modules' proofs use.                                           *)

\* A sum of integers is an integer.
LEMMA SumFunctionInt ==
  ASSUME NEW D, IsFiniteSet(D), NEW f \in [D -> Int]
  PROVE  SumFunction(f) \in Int
<1>1. PICK h \in PartialSums(D, f) : SumFunction(f) = h[D]
  BY PartialSumsExist, SumFunctionIsPartialSum
<1> QED
  BY <1>1 DEF PartialSums

\* A sum of zeros is zero.
LEMMA SumFunctionZero ==
  ASSUME NEW D, IsFiniteSet(D), NEW f \in [D -> Int], \A x \in D : f[x] = 0
  PROVE  SumFunction(f) = 0
<1>1. PICK h \in PartialSums(D, f) : SumFunction(f) = h[D]
  BY PartialSumsExist, SumFunctionIsPartialSum
<1> DEFINE k == [T \in SUBSET D |-> 0]
<1>2. k \in PartialSums(D, f)
  BY DEF PartialSums
<1>3. h[D] = k[D]
  <2> HIDE DEF k
  <2> QED
    BY <1>1, <1>2, PartialSumsAgree
<1> QED
  BY <1>1, <1>3

\* The change of one value changes the sum by as much.
LEMMA SumFunctionUpdate ==
  ASSUME NEW D, IsFiniteSet(D), NEW f \in [D -> Int], NEW x \in D,
         NEW g \in [D -> Int], \A y \in D \ {x} : g[y] = f[y]
  PROVE  SumFunction(g) = SumFunction(f) - f[x] + g[x]
<1>1. PICK h \in PartialSums(D, f) : SumFunction(f) = h[D]
  BY PartialSumsExist, SumFunctionIsPartialSum
<1>2. PICK k \in PartialSums(D, g) : SumFunction(g) = k[D]
  BY PartialSumsExist, SumFunctionIsPartialSum
<1>3. h[D \ {x}] = k[D \ {x}]
  BY <1>1, <1>2, PartialSumsAgree
<1>4. h[D] = f[x] + h[D \ {x}] /\ k[D] = g[x] + k[D \ {x}]
  BY DEF PartialSums
<1>5. h[D \ {x}] \in Int /\ k[D \ {x}] \in Int
  BY DEF PartialSums
<1> QED
  BY <1>1, <1>2, <1>3, <1>4, <1>5

\* A sum of naturals is a natural, and no less than any one of its values or
\* any two of them together.
LEMMA SumFunctionNat ==
  ASSUME NEW D, IsFiniteSet(D), NEW f \in [D -> Nat]
  PROVE  /\ SumFunction(f) \in Nat
         /\ \A x \in D : f[x] <= SumFunction(f)
         /\ \A x, y \in D : x # y => f[x] + f[y] <= SumFunction(f)
<1>1. PICK h \in PartialSums(D, f) : SumFunction(f) = h[D]
  BY PartialSumsExist, SumFunctionIsPartialSum
<1> DEFINE G == {T \in SUBSET D : h[T] \in Nat}
<1>2. ASSUME NEW T \in SUBSET D, \A U \in SUBSET T : U # T => U \in G
      PROVE  T \in G
  <2>1. CASE T = {}
    BY <2>1 DEF PartialSums
  <2>2. CASE T # {}
    <3>1. PICK x : x \in T
      BY <2>2
    <3>2. h[T] = f[x] + h[T \ {x}]
      BY <3>1 DEF PartialSums
    <3>3. h[T \ {x}] \in Nat
      BY <1>2, <3>1
    <3> QED
      BY <3>1, <3>2, <3>3
  <2> QED
    BY <2>1, <2>2
<1>3. SUBSET D \subseteq G
  <2> HIDE DEF G
  <2> QED
    BY <1>2, SubsetStrongInduction
<1>4. \A T \in SUBSET D : h[T] \in Nat
  BY <1>3
<1>5. ASSUME NEW x \in D
      PROVE  f[x] <= h[D]
  <2>1. h[D] = f[x] + h[D \ {x}]
    BY DEF PartialSums
  <2> QED
    BY <1>4, <2>1
<1>6. ASSUME NEW x \in D, NEW y \in D, x # y
      PROVE  f[x] + f[y] <= h[D]
  <2>1. h[D] = f[x] + h[D \ {x}]
    BY DEF PartialSums
  <2>2. h[D \ {x}] = f[y] + h[(D \ {x}) \ {y}]
    BY <1>6 DEF PartialSums
  <2>3. h[(D \ {x}) \ {y}] \in Nat
    BY <1>4
  <2> QED
    BY <2>1, <2>2, <2>3
<1> QED
  BY <1>1, <1>4, <1>5, <1>6

\* Larger values make a larger sum.
LEMMA SumFunctionMonotone ==
  ASSUME NEW D, IsFiniteSet(D), NEW f \in [D -> Int], NEW g \in [D -> Int],
         \A x \in D : f[x] <= g[x]
  PROVE  SumFunction(f) <= SumFunction(g)
<1>1. PICK h \in PartialSums(D, f) : SumFunction(f) = h[D]
  BY PartialSumsExist, SumFunctionIsPartialSum
<1>2. PICK k \in PartialSums(D, g) : SumFunction(g) = k[D]
  BY PartialSumsExist, SumFunctionIsPartialSum
<1> DEFINE G == {T \in SUBSET D : h[T] <= k[T]}
<1>3. ASSUME NEW T \in SUBSET D, \A U \in SUBSET T : U # T => U \in G
      PROVE  T \in G
  <2>1. CASE T = {}
    BY <2>1 DEF PartialSums
  <2>2. CASE T # {}
    <3>1. PICK x : x \in T
      BY <2>2
    <3>2. h[T] = f[x] + h[T \ {x}] /\ k[T] = g[x] + k[T \ {x}]
      BY <3>1 DEF PartialSums
    <3>3. h[T \ {x}] <= k[T \ {x}] /\ h[T \ {x}] \in Int /\ k[T \ {x}] \in Int
      BY <1>3, <3>1 DEF PartialSums
    <3>4. f[x] <= g[x] /\ f[x] \in Int /\ g[x] \in Int
      BY <3>1
    <3>5. h[T] <= k[T]
      BY <3>2, <3>3, <3>4
    <3> QED
      BY <3>5
  <2> QED
    BY <2>1, <2>2
<1>4. SUBSET D \subseteq G
  <2> HIDE DEF G
  <2> QED
    BY <1>3, SubsetStrongInduction
<1> QED
  BY <1>1, <1>2, <1>4

\* The sum of a pointwise sum.
LEMMA SumFunctionAdd ==
  ASSUME NEW D, IsFiniteSet(D), NEW f \in [D -> Int], NEW g \in [D -> Int]
  PROVE  SumFunction([x \in D |-> f[x] + g[x]]) = SumFunction(f) + SumFunction(g)
<1>1. PICK h \in PartialSums(D, f) : SumFunction(f) = h[D]
  BY PartialSumsExist, SumFunctionIsPartialSum
<1>2. PICK k \in PartialSums(D, g) : SumFunction(g) = k[D]
  BY PartialSumsExist, SumFunctionIsPartialSum
<1> DEFINE s == [x \in D |-> f[x] + g[x]]
           e == [T \in SUBSET D |-> h[T] + k[T]]
<1>3. e \in PartialSums(D, s)
  <2>1. e \in [SUBSET D -> Int] /\ e[{}] = 0
    BY DEF PartialSums
  <2>2. ASSUME NEW T \in SUBSET D, NEW x \in T
        PROVE  e[T] = s[x] + e[T \ {x}]
    <3>1. h[T] = f[x] + h[T \ {x}] /\ k[T] = g[x] + k[T \ {x}]
      BY <2>2 DEF PartialSums
    <3>2. /\ f[x] \in Int /\ g[x] \in Int
          /\ h[T \ {x}] \in Int /\ k[T \ {x}] \in Int
      BY <2>2 DEF PartialSums
    <3>3. e[T] = h[T] + k[T] /\ e[T \ {x}] = h[T \ {x}] + k[T \ {x}] /\ s[x] = f[x] + g[x]
      BY <2>2
    <3> QED
      BY <3>1, <3>2, <3>3
  <2> HIDE DEF e, s
  <2> QED
    BY <2>1, <2>2 DEF PartialSums
<1>4. s \in [D -> Int] /\ e[D] = h[D] + k[D]
  BY <1>1
<1>5. SumFunction(s) = e[D]
  <2> HIDE DEF e, s
  <2> QED
    BY <1>3, <1>4, SumFunctionIsPartialSum
<1> QED
  BY <1>1, <1>2, <1>4, <1>5

-----------------------------------------------------------------------------
(* Multiplication and rounding division                                       *)

LEMMA MultNat ==
  ASSUME NEW a \in Nat, NEW b \in Nat
  PROVE  a * b \in Nat
OBVIOUS

LEMMA MultMono ==
  ASSUME NEW a \in Nat, NEW b \in Nat, NEW c \in Nat, a <= b
  PROVE  a * c <= b * c
OBVIOUS

LEMMA MultMonoStrict ==
  ASSUME NEW a \in Nat, NEW b \in Nat, NEW c \in Nat, a < b, c > 0
  PROVE  a * c < b * c
OBVIOUS

\* The defining property of the quotient.
LEMMA DivBounds ==
  ASSUME NEW a \in Nat, NEW m \in Nat, m > 0
  PROVE  /\ a \div m \in Nat
         /\ m * (a \div m) <= a
         /\ a < m * ((a \div m) + 1)
OBVIOUS

LEMMA DivGeq ==
  ASSUME NEW a \in Nat, NEW m \in Nat, m > 0, NEW q \in Nat
  PROVE  a \div m >= q <=> a >= m * q
OBVIOUS

LEMMA DivMonotone ==
  ASSUME NEW a \in Nat, NEW b \in Nat, NEW m \in Nat, m > 0, a <= b
  PROVE  a \div m <= b \div m
<1>1. a \div m \in Nat /\ b \div m \in Nat /\ m * (a \div m) <= a
  BY DivBounds
<1>2. b >= m * (a \div m)
  BY <1>1
<1> QED
  BY <1>1, <1>2, DivGeq

\* Rounding down the parts loses at least as much as rounding down the whole.
LEMMA DivSuperadditive ==
  ASSUME NEW a \in Nat, NEW b \in Nat, NEW m \in Nat, m > 0
  PROVE  a \div m + b \div m <= (a + b) \div m
<1> DEFINE q == a \div m
           r == b \div m
<1>1. q \in Nat /\ m * q <= a /\ r \in Nat /\ m * r <= b
  BY DivBounds
<1> HIDE DEF q, r
<1>2. a + b >= m * (q + r)
  BY <1>1
<1>3. (a + b) \div m >= q + r
  BY <1>1, <1>2, DivGeq
<1>4. (a + b) \div m \in Nat
  BY DivBounds
<1> QED
  BY <1>1, <1>3, <1>4 DEF q, r

-----------------------------------------------------------------------------
(* Numbers.                                                                *)

\* A set of numbers has a least one.
LEMMA LeastNumber ==
  ASSUME NEW T \in SUBSET Nat, T # {}
  PROVE  \E n \in T : \A m \in T : n <= m
<1>1. PICK k \in T : TRUE
  OBVIOUS
<1> DEFINE D == 0 .. k
           G == {S \in SUBSET D : S = {} \/ \E n \in S : \A m \in S : n <= m}
<1>2. IsFiniteSet(D)
  BY <1>1, FS_Interval
<1>3. ASSUME NEW S \in SUBSET D, \A U \in SUBSET S : U # S => U \in G
      PROVE  S \in G
  <2>1. CASE S = {}
    BY <2>1
  <2>2. ASSUME NEW x \in S
        PROVE  S \in G
    <3> DEFINE U == S \ {x}
    <3>1. U \in G /\ x \in Nat /\ \A m \in S : m \in Nat
      <4>1. U \in SUBSET S /\ U # S
        BY <2>2
      <4>2. U \in G
        BY <1>3, <4>1
      <4> QED
        BY <1>3, <2>2, <4>2
    <3>2. CASE U = {}
      <4>1. S = {x}
        BY <2>2, <3>2
      <4> QED
        BY <3>1, <4>1
    <3>3. ASSUME NEW n \in U, \A m \in U : n <= m
          PROVE  S \in G
      <4>1. n \in S /\ n \in Nat /\ S = U \cup {x}
        BY <2>2, <3>1, <3>3
      <4>2. CASE n <= x
        BY <3>1, <3>3, <4>1, <4>2
      <4>3. CASE x < n
        <5>1. \A m \in S : x <= m
          BY <3>1, <3>3, <4>1, <4>3
        <5> QED
          BY <2>2, <5>1
      <4> QED
        BY <3>1, <4>1, <4>2, <4>3
    <3> QED
      BY <3>1, <3>2, <3>3
  <2> QED
    BY <2>1, <2>2
<1>4. SUBSET D \subseteq G
  <2> HIDE DEF D, G
  <2> QED
    BY <1>2, <1>3, SubsetStrongInduction
<1> DEFINE S == T \cap D
<1>5. S \in G /\ S # {}
  <2>1. k \in D
    BY <1>1
  <2>2. S \in SUBSET D /\ k \in S
    BY <1>1, <2>1
  <2> HIDE DEF D, S, G
  <2> QED
    BY <1>4, <2>2
<1>6. PICK n \in S : \A m \in S : n <= m
  BY <1>5
<1>7. \A m \in T : n <= m
  <2>1. SUFFICES ASSUME NEW m \in T PROVE n <= m
    OBVIOUS
  <2>2. CASE m <= k
    <3>1. m \in S
      BY <1>1, <2>2
    <3> QED
      BY <1>6, <3>1
  <2>3. CASE m > k
    BY <1>1, <1>6, <2>3
  <2> QED
    BY <1>1, <2>2, <2>3
<1> QED
  BY <1>6, <1>7

\* Induction: what holds of no number that is least in not having it.
LEMMA NumberInduction ==
  ASSUME NEW G, 0 \in G, \A n \in Nat : n \in G => n + 1 \in G
  PROVE  Nat \subseteq G
<1>1. SUFFICES ASSUME NEW k \in Nat, k \notin G
               PROVE  FALSE
  OBVIOUS
<1> DEFINE T == Nat \ G
<1>2. PICK n \in T : \A m \in T : n <= m
  BY <1>1, LeastNumber
<1>3. n # 0 /\ n - 1 \in Nat /\ n - 1 \notin T
  BY <1>2
<1> QED
  BY <1>2, <1>3

\* Induction in which every smaller number may be used.
LEMMA NumberStrongInduction ==
  ASSUME NEW G, \A n \in Nat : (\A m \in Nat : m < n => m \in G) => n \in G
  PROVE  Nat \subseteq G
<1>1. SUFFICES ASSUME NEW k \in Nat, k \notin G
               PROVE  FALSE
  OBVIOUS
<1> DEFINE T == Nat \ G
<1>2. PICK n \in T : \A m \in T : n <= m
  BY <1>1, LeastNumber
<1>3. \A m \in Nat : m < n => m \in G
  BY <1>2
<1> QED
  BY <1>2, <1>3

-----------------------------------------------------------------------------
(* Powers of two, as numbers of subsets.                                   *)

LEMMA PowerCountsSubsets ==
  ASSUME NEW n \in Nat
  PROVE  /\ IsFiniteSet(SUBSET (1 .. n))
         /\ 2 ^ n = Cardinality(SUBSET (1 .. n)) /\ 2 ^ n \in Nat
<1>1. IsFiniteSet(1 .. n) /\ Cardinality(1 .. n) = n
  BY FS_Interval
<1>2. IsFiniteSet(SUBSET (1 .. n)) /\ Cardinality(SUBSET (1 .. n)) = 2 ^ Cardinality(1 .. n)
  BY <1>1, FS_SUBSET
<1>3. Cardinality(SUBSET (1 .. n)) \in Nat
  BY <1>2, FS_CardinalityType
<1> QED
  BY <1>1, <1>2, <1>3

LEMMA PowerZero == 2 ^ 0 = 1
OBVIOUS

LEMMA PowerDoubles ==
  ASSUME NEW n \in Nat
  PROVE  2 ^ (n + 1) = 2 * 2 ^ n
<1> DEFINE A == SUBSET (1 .. n)
           B == {x \in SUBSET (1 .. n + 1) : n + 1 \in x}
           f == [x \in A |-> x \cup {n + 1}]
<1>1. IsFiniteSet(A) /\ 2 ^ n = Cardinality(A) /\ 2 ^ n \in Nat
  BY PowerCountsSubsets
<1>2. n + 1 \in Nat /\ n + 1 \notin 1 .. n /\ 1 .. n + 1 = (1 .. n) \cup {n + 1}
  OBVIOUS
<1>3. f \in Bijection(A, B)
  <2>1. f \in [A -> B]
    BY <1>2
  <2>2. \A x, y \in A : f[x] = f[y] => x = y
    <3>1. \A x \in A : f[x] \ {n + 1} = x
      BY <1>2
    <3> QED
      BY <3>1
  <2>3. \A y \in B : \E x \in A : f[x] = y
    <3>1. SUFFICES ASSUME NEW y \in B PROVE \E x \in A : f[x] = y
      OBVIOUS
    <3>2. y \ {n + 1} \in A /\ f[y \ {n + 1}] = y
      BY <1>2, <3>1
    <3> QED
      BY <3>2
  <2> QED
    BY <2>1, <2>2, <2>3 DEF Bijection, Injection, Surjection, IsInjective
<1>4. IsFiniteSet(B) /\ Cardinality(B) = Cardinality(A)
  <2>1. ExistsBijection(A, B)
    BY <1>3 DEF ExistsBijection
  <2> QED
    BY <1>1, <2>1, FS_Bijection
<1>5. A \cap B = {} /\ A \cup B = SUBSET (1 .. n + 1)
  <2>1. \A x \in A : n + 1 \notin x
    BY <1>2
  <2>2. \A x \in SUBSET (1 .. n + 1) : n + 1 \notin x => x \in A
    BY <1>2
  <2>3. A \subseteq SUBSET (1 .. n + 1)
    BY <1>2
  <2> QED
    BY <2>1, <2>2, <2>3
<1>6. Cardinality({}) = 0
  BY FS_EmptySet
<1> HIDE DEF A, B
<1>7. Cardinality(A \cup B) = Cardinality(A) + Cardinality(B) - Cardinality(A \cap B)
  BY <1>1, <1>4, FS_Union
<1>8. 2 ^ (n + 1) = Cardinality(SUBSET (1 .. n + 1))
  BY <1>2, PowerCountsSubsets
<1>9. Cardinality(A \cup B) = 2 ^ n + 2 ^ n
  <2>1. Cardinality(A \cap B) = 0
    BY <1>5, <1>6
  <2>2. Cardinality(A \cup B) = Cardinality(A) + Cardinality(A) - 0
    BY <1>4, <1>7, <2>1
  <2>3. \A c \in Nat : c + c - 0 = c + c
    OBVIOUS
  <2>4. Cardinality(A) \in Nat
    BY <1>1
  <2>5. Cardinality(A \cup B) = Cardinality(A) + Cardinality(A)
    BY <2>2, <2>3, <2>4
  <2> QED
    BY <1>1, <2>5
<1>10. \A c \in Nat : c + c = 2 * c
  OBVIOUS
<1>11. 2 ^ n + 2 ^ n = 2 * 2 ^ n
  BY <1>1, <1>10
<1> QED
  BY <1>5, <1>8, <1>9, <1>11

LEMMA PowerPositive ==
  ASSUME NEW n \in Nat
  PROVE  2 ^ n \in Nat /\ 2 ^ n > n
<1> DEFINE G == {k \in Nat : 2 ^ k > k}
<1>1. 0 \in G
  BY PowerZero
<1>2. ASSUME NEW k \in Nat, k \in G
      PROVE  k + 1 \in G
  BY <1>2, PowerCountsSubsets, PowerDoubles
<1> HIDE DEF G
<1>3. Nat \subseteq G
  BY <1>1, <1>2, NumberInduction
<1> QED
  BY <1>3, PowerCountsSubsets DEF G

LEMMA PowerGrows ==
  ASSUME NEW m \in Nat, NEW n \in Nat, m <= n
  PROVE  2 ^ m <= 2 ^ n
<1>1. SUBSET (1 .. m) \in SUBSET (SUBSET (1 .. n))
  BY PowerCountsSubsets
<1>2. Cardinality(SUBSET (1 .. m)) <= Cardinality(SUBSET (1 .. n))
  BY <1>1, PowerCountsSubsets, FS_Subset
<1> QED
  BY <1>2, PowerCountsSubsets
=============================================================================
