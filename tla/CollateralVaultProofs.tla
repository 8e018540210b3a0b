----------------------- MODULE CollateralVaultProofs -----------------------
(***************************************************************************)
(* Proofs about the vault.                                                 *)
(***************************************************************************)
EXTENDS CollateralVault, ArithmeticLemmas

\* What the vault's constants have to be.
VaultConstants ==
  /\ One \in Nat \ {0}
  /\ IsFiniteSet(Tokens)

\* One token's part of a worth is a natural number.
LEMMA PartNat ==
  ASSUME VaultConstants, TypeOK, NEW b \in [Tokens -> Nat], NEW t \in Tokens
  PROVE  (rate[t] * b[t]) \div One \in Nat
<1>1. rate[t] \in Nat /\ b[t] \in Nat
  BY DEF TypeOK
<1>2. rate[t] * b[t] \in Nat
  BY <1>1, MultNat
<1> QED
  BY <1>2, DivBounds DEF VaultConstants

LEMMA WorthNat ==
  ASSUME VaultConstants, TypeOK, NEW b \in [Tokens -> Nat]
  PROVE  Worth(b) \in Nat
<1> DEFINE f == [t \in Tokens |-> (rate[t] * b[t]) \div One]
<1>1. f \in [Tokens -> Nat]
  BY PartNat
<1>2. SumFunction(f) \in Nat
  <2> HIDE DEF f
  <2> QED
    BY <1>1, SumFunctionNat DEF VaultConstants
<1> QED
  BY <1>2 DEF Worth

\* More tokens are worth no less.
LEMMA WorthMonotone ==
  ASSUME VaultConstants, TypeOK,
         NEW b \in [Tokens -> Nat], NEW c \in [Tokens -> Nat],
         \A t \in Tokens : b[t] <= c[t]
  PROVE  Worth(b) <= Worth(c)
<1> DEFINE f == [t \in Tokens |-> (rate[t] * b[t]) \div One]
           g == [t \in Tokens |-> (rate[t] * c[t]) \div One]
<1>1. f \in [Tokens -> Int] /\ g \in [Tokens -> Int]
  BY PartNat
<1>2. ASSUME NEW t \in Tokens
      PROVE  f[t] <= g[t]
  <2>1. rate[t] \in Nat /\ b[t] \in Nat /\ c[t] \in Nat /\ b[t] <= c[t]
    BY DEF TypeOK
  <2>2. rate[t] * b[t] <= rate[t] * c[t] /\ rate[t] * b[t] \in Nat /\ rate[t] * c[t] \in Nat
    BY <2>1, MultNat
  <2>3. (rate[t] * b[t]) \div One <= (rate[t] * c[t]) \div One
    BY <2>2, DivMonotone DEF VaultConstants
  <2> QED
    BY <2>3
<1>3. SumFunction(f) <= SumFunction(g)
  <2> HIDE DEF f, g
  <2> QED
    BY <1>1, <1>2, SumFunctionMonotone DEF VaultConstants
<1> QED
  BY <1>3 DEF Worth

LEMMA VaultTypeInductive ==
  ASSUME TypeOK, [Next]_vars
  PROVE  TypeOK'
BY DEF TypeOK, Next, vars, Reprice, Adjust, Seize, Moves

\* A step that leaves the rates alone leaves every safe position safe.
LEMMA StepEndangersNobody ==
  ASSUME VaultConstants, TypeOK, Next, NEW u \in Users, Safe(u), rate' = rate
  PROVE  Safe(u)'
<1>1. \A v \in Users : Worth(locked[v])' = Worth(locked'[v])
  BY DEF Worth
<1>2. ASSUME locked'[u] = locked[u], debt'[u] = debt[u]
      PROVE  Safe(u)'
  BY <1>1, <1>2 DEF Safe
<1>3. CASE Reprice
  BY <1>2, <1>3 DEF Reprice
<1>4. ASSUME NEW v \in Users, Adjust(v)
      PROVE  Safe(u)'
  <2>1. CASE u # v
    BY <1>2, <1>4, <2>1 DEF Adjust, Moves
  <2>2. CASE u = v /\ Safe(v)'
    BY <2>2
  <2>3. CASE u = v /\ Strengthens(v)
    <3>1. /\ locked[u] \in [Tokens -> Nat] /\ locked'[u] \in [Tokens -> Nat]
          /\ debt[u] \in Nat /\ debt'[u] \in Nat
          /\ debt'[u] <= debt[u]
          /\ \A t \in Tokens : locked[u][t] <= locked'[u][t]
      BY <1>4, <2>3 DEF Adjust, Moves, Strengthens, TypeOK
    <3>2. Worth(locked[u]) <= Worth(locked'[u])
      BY <3>1, WorthMonotone
    <3>3. Worth(locked[u]) \in Nat /\ Worth(locked'[u]) \in Nat
      BY <3>1, WorthNat
    <3> QED
      BY <1>1, <3>1, <3>2, <3>3 DEF Safe
  <2> QED
    BY <1>4, <2>1, <2>2, <2>3 DEF Adjust
<1>5. ASSUME NEW v \in Users, NEW t \in Tokens, Seize(v, t)
      PROVE  Safe(u)'
  <2>1. u # v
    BY <1>5 DEF Seize
  <2> QED
    BY <1>2, <1>5, <2>1 DEF Seize, Moves
<1> QED
  BY <1>3, <1>4, <1>5 DEF Next

\* In the vault nothing but a change of the rates makes a safe position unsafe.
THEOREM VaultIsSafe ==
  ASSUME VaultConstants
  PROVE  Spec => OnlyTheMarketEndangers
<1> DEFINE A == \A u \in Users : Safe(u) /\ ~Safe(u)' => rate' # rate
<1>1. TypeOK /\ [Next]_vars => [A]_vars
  BY StepEndangersNobody
<1>2. OnlyTheMarketEndangers <=> [][A]_vars
  BY DEF OnlyTheMarketEndangers
<1>3. Init => TypeOK
  BY DEF Init, TypeOK
<1>4. TypeOK /\ [Next]_vars => TypeOK'
  BY VaultTypeInductive
<1> HIDE DEF A
<1> QED
  BY <1>1, <1>2, <1>3, <1>4, PTL DEF Spec
=============================================================================
