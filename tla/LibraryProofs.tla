---------------------------- MODULE LibraryProofs ----------------------------
(***************************************************************************)
(* The generated libraries, for every width of words, addresses, keys and  *)
(* values: the sets and maps behave as sets and maps, the searches of the  *)
(* checkpoints find what is there, and what they say of the past is fixed. *)
(***************************************************************************)
EXTENDS MCLibraries, ArithmeticLemmas, SequenceTheorems, TLAPS

-----------------------------------------------------------------------------
(* The sets and maps.                                                      *)

\* A set's storage with its bookkeeping intact.
Sound(s) == s \in SetStorage /\ PositionsMatch(s)

LEMMA EmptySetSound ==
  Sound(EmptySet) /\ \A b \in Bytes32 : ~Contains(EmptySet, b)
BY DEF Sound, SetStorage, EmptySet, PositionsMatch, Contains

LEMMA AddedSound ==
  ASSUME NEW s, Sound(s), NEW word \in Bytes32
  PROVE  /\ Sound(Added(s, word))
         /\ \A b \in Bytes32 : Contains(Added(s, word), b) <=> b = word \/ Contains(s, b)
<1>1. CASE Contains(s, word)
  BY <1>1 DEF Added
<1>2. CASE ~Contains(s, word)
  <2> DEFINE n == Len(s.values)
             t == Added(s, word)
  <2>1. /\ n \in Nat /\ s.values \in Seq(Bytes32) /\ s.indexes \in [Bytes32 -> Nat]
        /\ t.values = Append(s.values, word)
        /\ t.indexes = [s.indexes EXCEPT ![word] = n + 1]
        /\ t = [values |-> t.values, indexes |-> t.indexes]
    BY <1>2 DEF Added, Sound, SetStorage
  <2>2. /\ t.values \in Seq(Bytes32)
        /\ Len(t.values) = n + 1
        /\ \A i \in 1 .. n : t.values[i] = s.values[i] /\ s.values[i] \in Bytes32
        /\ t.values[n + 1] = word
    BY <2>1
  <2>3. \A i \in 1 .. n : s.values[i] # word
    BY <1>2, <2>1 DEF Sound, PositionsMatch, Contains
  <2> HIDE DEF t, n
  <2>4. t \in SetStorage
    <3>1. t.indexes \in [Bytes32 -> Nat]
      BY <2>1
    <3> QED
      BY <2>1, <2>2, <3>1 DEF SetStorage
  <2>5. \A i \in 1 .. n + 1 : t.indexes[t.values[i]] = i
    BY <2>1, <2>2, <2>3 DEF Sound, PositionsMatch
  <2>6. \A b \in Bytes32 : Contains(t, b) => t.indexes[b] <= n + 1 /\ t.values[t.indexes[b]] = b
    BY <2>1, <2>2 DEF Sound, PositionsMatch, Contains
  <2>7. \A b \in Bytes32 : Contains(t, b) <=> b = word \/ Contains(s, b)
    BY <2>1 DEF Contains
  <2>8. Sound(t)
    <3>1. PositionsMatch(t)
      BY <2>2, <2>5, <2>6 DEF PositionsMatch
    <3> QED
      BY <2>4, <3>1 DEF Sound
  <2> QED
    BY <2>7, <2>8 DEF t
<1> QED
  BY <1>1, <1>2

LEMMA RemovedSound ==
  ASSUME NEW s, Sound(s), NEW word \in Bytes32
  PROVE  /\ Sound(Removed(s, word))
         /\ \A b \in Bytes32 : Contains(Removed(s, word), b) <=> b # word /\ Contains(s, b)
<1>1. CASE ~Contains(s, word)
  BY <1>1 DEF Removed
<1>2. CASE Contains(s, word)
  <2> DEFINE n == Len(s.values)
             p == s.indexes[word]
             last == s.values[n]
             m == LastMovedTo(s, p)
             t == Removed(s, word)
  <2>1. /\ n \in Nat /\ s.values \in Seq(Bytes32) /\ s.indexes \in [Bytes32 -> Nat]
        /\ p \in 1 .. n /\ s.values[p] = word /\ s.indexes[word] = p
        /\ last \in Bytes32 /\ s.indexes[last] = n
        /\ \A i \in 1 .. n : s.values[i] \in Bytes32 /\ s.indexes[s.values[i]] = i
        /\ \A b \in Bytes32 : Contains(s, b) => s.indexes[b] \in 1 .. n /\ s.values[s.indexes[b]] = b
    <3>1. /\ n \in Nat /\ s.values \in Seq(Bytes32) /\ s.indexes \in [Bytes32 -> Nat]
          /\ \A i \in 1 .. n : s.values[i] \in Bytes32
      BY DEF Sound, SetStorage
    <3>2. \A b \in Bytes32 : Contains(s, b) => s.indexes[b] \in 1 .. n /\ s.values[s.indexes[b]] = b
      BY <3>1 DEF Sound, PositionsMatch, Contains
    <3>3. \A i \in 1 .. n : s.indexes[s.values[i]] = i
      BY DEF Sound, PositionsMatch
    <3>4. p \in 1 .. n /\ s.values[p] = word
      BY <1>2, <3>2
    <3>5. last \in Bytes32 /\ s.indexes[last] = n
      BY <3>1, <3>3, <3>4
    <3> QED
      BY <3>1, <3>2, <3>3, <3>4, <3>5
  <2>2. /\ m.values \in Seq(Bytes32) /\ Len(m.values) = n
        /\ \A i \in 1 .. n : m.values[i] = IF i = p THEN last ELSE s.values[i]
        /\ m.indexes \in [Bytes32 -> Nat]
        /\ \A b \in Bytes32 : m.indexes[b] = IF b = last THEN p ELSE s.indexes[b]
    <3>1. CASE p = n
      BY <2>1, <3>1 DEF LastMovedTo
    <3>2. CASE p # n
      <4>1. m.values = [s.values EXCEPT ![p] = last] /\ m.indexes = [s.indexes EXCEPT ![last] = p]
        BY <3>2 DEF LastMovedTo
      <4> HIDE DEF m
      <4> QED
        BY <2>1, <4>1, ExceptSeq
    <3> QED
      BY <3>1, <3>2
  <2>3. /\ t.values = SubSeq(m.values, 1, n - 1)
        /\ t.indexes = [m.indexes EXCEPT ![word] = 0]
        /\ t = [values |-> t.values, indexes |-> t.indexes]
    BY <1>2 DEF Removed
  <2> HIDE DEF m, t, n, p, last
  <2>4. /\ t.values \in Seq(Bytes32)
        /\ Len(t.values) = n - 1
        /\ \A i \in 1 .. n - 1 : t.values[i] = m.values[i]
    <3>1. /\ n \in Nat /\ n - 1 \in Nat /\ n - 1 \in Int /\ 1 \in Int
          /\ \A i \in 1 .. n - 1 : m.values[i] \in Bytes32
      BY <2>1, <2>2
    <3>2. /\ SubSeq(m.values, 1, n - 1) \in Seq(Bytes32)
          /\ Len(SubSeq(m.values, 1, n - 1)) = IF 1 <= n - 1 THEN n - 1 - 1 + 1 ELSE 0
          /\ \A i \in 1 .. n - 1 - 1 + 1 : SubSeq(m.values, 1, n - 1)[i] = m.values[1 + i - 1]
      BY ONLY <3>1, SubSeqProperties
    <3> QED
      BY <2>3, <3>1, <3>2
  <2>5. t.indexes \in [Bytes32 -> Nat]
        /\ \A b \in Bytes32 : t.indexes[b] = IF b = word THEN 0 ELSE m.indexes[b]
    BY <2>2, <2>3
  <2>6. t \in SetStorage
    BY <2>3, <2>4, <2>5 DEF SetStorage
  <2>7. \A i \in 1 .. n - 1 : t.indexes[t.values[i]] = i
    <3> SUFFICES ASSUME NEW i \in 1 .. n - 1
                 PROVE  t.indexes[t.values[i]] = i
      OBVIOUS
    <3>1. i \in 1 .. n /\ i # n
      BY <2>1
    <3>2. t.values[i] = IF i = p THEN last ELSE s.values[i]
      BY <2>2, <2>4, <3>1
    <3>3. s.indexes[s.values[i]] = i /\ s.values[i] \in Bytes32
      BY <2>1, <3>1
    <3>4. CASE i = p
      <4>1. t.values[i] = last /\ last # word
        BY <2>1, <3>1, <3>2, <3>4
      <4> QED
        BY <2>1, <2>2, <2>5, <3>4, <4>1
    <3>5. CASE i # p
      <4>1. t.values[i] = s.values[i] /\ s.values[i] # word /\ s.values[i] # last
        BY <2>1, <3>1, <3>2, <3>3, <3>5
      <4> QED
        BY <2>2, <2>5, <3>3, <4>1
    <3> QED
      BY <3>4, <3>5
  <2>8. ASSUME NEW b \in Bytes32
        PROVE  t.indexes[b] = IF b = word THEN 0 ELSE IF b = last THEN p ELSE s.indexes[b]
    BY <2>2, <2>5
  <2>9. ASSUME NEW b \in Bytes32
        PROVE  Contains(t, b) <=> b # word /\ Contains(s, b)
    <3>1. Contains(s, last) /\ (Contains(t, b) <=> t.indexes[b] # 0)
      BY <2>1 DEF Contains
    <3>2. CASE b = word
      BY <2>8, <3>1, <3>2
    <3>3. CASE b # word /\ b = last
      BY <2>1, <2>8, <3>1, <3>3
    <3>4. CASE b # word /\ b # last
      BY <2>8, <3>1, <3>4 DEF Contains
    <3> QED
      BY <3>2, <3>3, <3>4
  <2>10. ASSUME NEW b \in Bytes32, Contains(t, b)
         PROVE  t.indexes[b] <= n - 1 /\ t.values[t.indexes[b]] = b
    <3>1. b # word /\ s.indexes[b] \in 1 .. n /\ s.values[s.indexes[b]] = b
      BY <2>1, <2>9, <2>10
    <3>2. CASE b = last
      <4>1. t.indexes[b] = p /\ s.indexes[b] = n /\ p # n
        BY <2>1, <2>8, <3>1, <3>2
      <4>2. p \in 1 .. n - 1
        BY <2>1, <4>1
      <4>3. t.values[p] = last
        BY <2>1, <2>2, <2>4, <4>2
      <4> QED
        BY <3>2, <4>1, <4>2, <4>3
    <3>3. CASE b # last
      <4>1. t.indexes[b] = s.indexes[b]
        BY <2>8, <3>1, <3>3
      <4>2. s.indexes[b] # p
        BY <2>1, <3>1
      <4>3. s.indexes[b] # n
        <5>1. s.values[n] = last
          BY DEF n, last
        <5> QED
          BY <3>1, <3>3, <5>1
      <4>4. s.indexes[b] \in 1 .. n - 1 /\ s.indexes[b] \in 1 .. n
        BY <2>1, <3>1, <4>3
      <4>5. t.values[s.indexes[b]] = s.values[s.indexes[b]]
        BY <2>2, <2>4, <4>2, <4>4
      <4> QED
        BY <3>1, <4>1, <4>4, <4>5
    <3> QED
      BY <3>2, <3>3
  <2>11. Sound(t)
    <3>1. PositionsMatch(t)
      BY <2>4, <2>7, <2>10 DEF PositionsMatch
    <3> QED
      BY <2>6, <3>1 DEF Sound
  <2> QED
    BY <2>9, <2>11 DEF t
<1> QED
  BY <1>1, <1>2

-----------------------------------------------------------------------------
\* Conversions lose nothing of a typed value, and zero is a value of each type.
LEMMA ConversionsAreExact ==
  ASSUME NEW kind \in Types
  PROVE  /\ 0 \in Typed(kind)
         /\ \A v \in Typed(kind) :
              v \in Bytes32 /\ ToBytes32(kind, v) = v /\ FromBytes32(kind, v) = v
BY SizeAssumption DEF Types, Typed, Bytes32, ToBytes32, FromBytes32

LEMMA TypedWords ==
  /\ \A e \in Elements : e \in Bytes32 /\ ToBytes32(ElementType, e) = e /\ FromBytes32(ElementType, e) = e
  /\ \A k \in Keys : k \in Bytes32 /\ ToBytes32(KeyType, k) = k /\ FromBytes32(KeyType, k) = k
  /\ \A v \in Values : v \in Bytes32 /\ ToBytes32(ValueType, v) = v /\ FromBytes32(ValueType, v) = v
  /\ 0 \in Values /\ 0 \in Bytes32
<1>1. ElementType \in Types /\ KeyType \in Types /\ ValueType \in Types
  BY TypeAssumption
<1> QED
  BY <1>1, ConversionsAreExact DEF Elements, Keys, Values

\* What the types and the positions need to be inductive, and what lookups
\* rely on: words in storage are typed, and an absent key has value zero.
IInv ==
  /\ Sound(set)
  /\ \A b \in Bytes32 : Contains(set, b) => b \in Elements
  /\ map = [keys |-> map.keys, values |-> map.values]
  /\ Sound(map.keys)
  /\ map.values \in [Bytes32 -> Bytes32]
  /\ \A b \in Bytes32 : Contains(map.keys, b) => b \in Keys
  /\ \A b \in Bytes32 : map.values[b] \in Values
  /\ \A b \in Bytes32 : ~Contains(map.keys, b) => map.values[b] = 0
  /\ reply.result \in BOOLEAN

LEMMA InitIInv == Init => IInv
<1> SUFFICES ASSUME Init PROVE IInv
  OBVIOUS
<1>1. \A b \in Bytes32 : map.values[b] = 0
  BY DEF Init
<1>2. map.values \in [Bytes32 -> Bytes32] /\ map = [keys |-> EmptySet, values |-> map.values]
  BY TypedWords DEF Init
<1> QED
  BY <1>1, <1>2, EmptySetSound, TypedWords DEF Init, IInv

\* The four calls as they are on typed arguments, without conversions.
LEMMA AddOnWords ==
  ASSUME NEW e \in Elements, Add(e)
  PROVE  /\ e \in Bytes32 /\ set' = Added(set, e) /\ map' = map
         /\ reply' = [call |-> <<"add", e>>, result |-> ~Contains(set, e)]
         /\ reply'.result \in BOOLEAN
<1>1. e \in Bytes32 /\ ToBytes32(ElementType, e) = e
  BY TypedWords
<1>2. (~Contains(set, e)) \in BOOLEAN
  BY DEF Contains
<1>3. /\ set' = Added(set, e) /\ map' = map
      /\ reply' = [call |-> <<"add", e>>, result |-> ~Contains(set, e)]
  BY <1>1 DEF Add
<1>4. reply'.result = ~Contains(set, e)
  BY <1>3
<1> QED
  BY <1>1, <1>2, <1>3, <1>4

LEMMA RemoveOnWords ==
  ASSUME NEW e \in Elements, Remove(e)
  PROVE  /\ e \in Bytes32 /\ set' = Removed(set, e) /\ map' = map
         /\ reply' = [call |-> <<"remove", e>>, result |-> Contains(set, e)]
         /\ reply'.result \in BOOLEAN
<1>1. e \in Bytes32 /\ ToBytes32(ElementType, e) = e
  BY TypedWords
<1>2. Contains(set, e) \in BOOLEAN
  BY DEF Contains
<1>3. /\ set' = Removed(set, e) /\ map' = map
      /\ reply' = [call |-> <<"remove", e>>, result |-> Contains(set, e)]
  BY <1>1 DEF Remove
<1>4. reply'.result = Contains(set, e)
  BY <1>3
<1> QED
  BY <1>1, <1>2, <1>3, <1>4

LEMMA PutOnWords ==
  ASSUME NEW k \in Keys, NEW v \in Values, Put(k, v)
  PROVE  /\ k \in Bytes32 /\ v \in Bytes32
         /\ map'.keys = Added(map.keys, k) /\ map'.values = [map.values EXCEPT ![k] = v]
         /\ map' = [keys |-> map'.keys, values |-> map'.values]
         /\ set' = set
         /\ reply' = [call |-> <<"set", k, v>>, result |-> ~Contains(map.keys, k)]
         /\ reply'.result \in BOOLEAN
<1>1. k \in Bytes32 /\ v \in Bytes32 /\ ToBytes32(KeyType, k) = k /\ ToBytes32(ValueType, v) = v
  BY TypedWords
<1>2. map' = [keys |-> Added(map.keys, k), values |-> [map.values EXCEPT ![k] = v]]
  BY <1>1 DEF Put
<1>3. set' = set /\ reply' = [call |-> <<"set", k, v>>, result |-> ~Contains(map.keys, k)]
  BY <1>1 DEF Put
<1>4. (~Contains(map.keys, k)) \in BOOLEAN
  BY DEF Contains
<1> QED
  BY <1>1, <1>2, <1>3, <1>4

LEMMA DeleteOnWords ==
  ASSUME NEW k \in Keys, Delete(k)
  PROVE  /\ k \in Bytes32
         /\ map'.keys = Removed(map.keys, k) /\ map'.values = [map.values EXCEPT ![k] = 0]
         /\ map' = [keys |-> map'.keys, values |-> map'.values]
         /\ set' = set
         /\ reply' = [call |-> <<"delete", k>>, result |-> Contains(map.keys, k)]
         /\ reply'.result \in BOOLEAN
<1>1. k \in Bytes32 /\ ToBytes32(KeyType, k) = k
  BY TypedWords
<1>2. map' = [keys |-> Removed(map.keys, k), values |-> [map.values EXCEPT ![k] = 0]]
  BY <1>1 DEF Delete
<1>3. set' = set /\ reply' = [call |-> <<"delete", k>>, result |-> Contains(map.keys, k)]
  BY <1>1 DEF Delete
<1>4. (Contains(map.keys, k)) \in BOOLEAN
  BY DEF Contains
<1> QED
  BY <1>1, <1>2, <1>3, <1>4

LEMMA NextIInv == IInv /\ [Next]_vars => IInv'
<1> SUFFICES ASSUME IInv, [Next]_vars PROVE IInv'
  OBVIOUS
<1>1. ASSUME NEW e \in Elements, Add(e) PROVE IInv'
  <2>1. e \in Bytes32 /\ set' = Added(set, e) /\ map' = map /\ reply'.result \in BOOLEAN
    BY <1>1, AddOnWords
  <2>2. Sound(set')
    BY <2>1, AddedSound DEF IInv
  <2>3. \A b \in Bytes32 : Contains(set', b) => b \in Elements
    BY <1>1, <2>1, AddedSound DEF IInv
  <2> QED
    BY <2>1, <2>2, <2>3 DEF IInv
<1>2. ASSUME NEW e \in Elements, Remove(e) PROVE IInv'
  <2>1. e \in Bytes32 /\ set' = Removed(set, e) /\ map' = map /\ reply'.result \in BOOLEAN
    BY <1>2, RemoveOnWords
  <2>2. Sound(set')
    BY <2>1, RemovedSound DEF IInv
  <2>3. \A b \in Bytes32 : Contains(set', b) => b \in Elements
    BY <1>2, <2>1, RemovedSound DEF IInv
  <2> QED
    BY <2>1, <2>2, <2>3 DEF IInv
<1>3. ASSUME NEW k \in Keys, NEW v \in Values, Put(k, v) PROVE IInv'
  <2>1. /\ k \in Bytes32 /\ v \in Bytes32
        /\ map'.keys = Added(map.keys, k) /\ map'.values = [map.values EXCEPT ![k] = v]
        /\ map' = [keys |-> map'.keys, values |-> map'.values]
        /\ set' = set /\ reply'.result \in BOOLEAN
    BY <1>3, PutOnWords
  <2>2. Sound(map'.keys) /\ \A b \in Bytes32 : Contains(map'.keys, b) <=> b = k \/ Contains(map.keys, b)
    <3>1. Sound(map.keys)
      BY DEF IInv
    <3>2. /\ Sound(Added(map.keys, k))
          /\ \A b \in Bytes32 : Contains(Added(map.keys, k), b) <=> b = k \/ Contains(map.keys, b)
      BY <2>1, <3>1, AddedSound
    <3> QED
      BY <2>1, <3>2
  <2>3. /\ map'.values \in [Bytes32 -> Bytes32]
        /\ \A b \in Bytes32 : map'.values[b] = IF b = k THEN v ELSE map.values[b]
    BY <2>1 DEF IInv
  <2> QED
    BY <1>3, <2>1, <2>2, <2>3 DEF IInv
<1>4. ASSUME NEW k \in Keys, Delete(k) PROVE IInv'
  <2>1. /\ k \in Bytes32 /\ 0 \in Bytes32 /\ 0 \in Values
        /\ map'.keys = Removed(map.keys, k) /\ map'.values = [map.values EXCEPT ![k] = 0]
        /\ map' = [keys |-> map'.keys, values |-> map'.values]
        /\ set' = set /\ reply'.result \in BOOLEAN
    BY <1>4, DeleteOnWords, TypedWords
  <2>2. Sound(map'.keys) /\ \A b \in Bytes32 : Contains(map'.keys, b) <=> b # k /\ Contains(map.keys, b)
    <3>1. Sound(map.keys)
      BY DEF IInv
    <3>2. /\ Sound(Removed(map.keys, k))
          /\ \A b \in Bytes32 : Contains(Removed(map.keys, k), b) <=> b # k /\ Contains(map.keys, b)
      BY <2>1, <3>1, RemovedSound
    <3> QED
      BY <2>1, <3>2
  <2>3. /\ map'.values \in [Bytes32 -> Bytes32]
        /\ \A b \in Bytes32 : map'.values[b] = IF b = k THEN 0 ELSE map.values[b]
    BY <2>1 DEF IInv
  <2> QED
    BY <2>1, <2>2, <2>3 DEF IInv
<1>5. CASE UNCHANGED vars
  BY <1>5 DEF vars, IInv
<1> QED
  BY <1>1, <1>2, <1>3, <1>4, <1>5 DEF Next

THEOREM Inductive == Spec => []IInv
BY InitIInv, NextIInv, PTL DEF Spec

\* Whatever was added, removed and overwritten before, the array and the
\* positions of both sets point at each other.
THEOREM StorageIsConsistent == Spec => []StorageOK
<1>1. IInv => StorageOK
  BY DEF IInv, StorageOK, Sound
<1> QED
  BY <1>1, Inductive, PTL

\* Of the words of one type, enumeration by at and by values shows each once.
LEMMA EnumerationIsExact ==
  ASSUME NEW s, Sound(s), NEW kind \in Types,
         \A b \in Bytes32 : Contains(s, b) => b \in Typed(kind)
  PROVE  /\ \A i \in 1 .. Len(s.values) : At(kind, s, i - 1) = ValuesOf(s)[i]
         /\ \A i, j \in 1 .. Len(s.values) : At(kind, s, i - 1) = At(kind, s, j - 1) => i = j
<1>1. ASSUME NEW i \in 1 .. Len(s.values)
      PROVE  At(kind, s, i - 1) = s.values[i] /\ s.indexes[s.values[i]] = i
  <2>1. s.values[i] \in Bytes32 /\ s.indexes[s.values[i]] = i /\ i # 0
    BY DEF Sound, SetStorage, PositionsMatch
  <2>2. s.values[i] \in Typed(kind)
    BY <2>1 DEF Contains
  <2>3. FromBytes32(kind, s.values[i]) = s.values[i]
    BY <2>2, ConversionsAreExact
  <2>4. At(kind, s, i - 1) = FromBytes32(kind, s.values[i])
    <3>1. (i - 1) + 1 = i
      OBVIOUS
    <3> QED
      BY <3>1 DEF At
  <2> QED
    BY <2>1, <2>3, <2>4
<1>2. \A i \in 1 .. Len(s.values) : At(kind, s, i - 1) = ValuesOf(s)[i]
  BY <1>1 DEF ValuesOf
<1>3. ASSUME NEW i \in 1 .. Len(s.values), NEW j \in 1 .. Len(s.values),
             At(kind, s, i - 1) = At(kind, s, j - 1)
      PROVE  i = j
  BY <1>1, <1>3
<1> QED
  BY <1>2, <1>3

\* A lookup never finds a removed key and never misses one whose value is zero,
\* and enumeration shows the members, each once, in both of its forms.
THEOREM ReadsAreExact == Spec => []ReadsAgree
<1>1. IInv => LookupsAgree
  <2> SUFFICES ASSUME IInv, NEW k \in Keys
               PROVE  LET present == Contains(map.keys, ToBytes32(KeyType, k))
                      IN  /\ CanGet(k) <=> present
                          /\ TryGet(k) = <<present, IF present THEN Get(k) ELSE 0>>
    BY DEF LookupsAgree
  <2>1. k \in Bytes32 /\ ToBytes32(KeyType, k) = k /\ FromBytes32(ValueType, 0) = 0
    BY TypedWords
  <2>2. ~Contains(map.keys, k) => map.values[k] = 0
    BY <2>1 DEF IInv
  <2> QED
    BY <2>1, <2>2 DEF CanGet, TryGet, Get, Contains
<1>2. IInv => ViewsAgree
  <2> SUFFICES ASSUME IInv PROVE ViewsAgree
    OBVIOUS
  <2>1. ElementType \in Types /\ KeyType \in Types
    BY TypeAssumption
  <2>2. /\ \A i \in 1 .. Len(set.values) : At(ElementType, set, i - 1) = ValuesOf(set)[i]
        /\ \A i, j \in 1 .. Len(set.values) :
             At(ElementType, set, i - 1) = At(ElementType, set, j - 1) => i = j
    <3>1. Sound(set) /\ \A b \in Bytes32 : Contains(set, b) => b \in Typed(ElementType)
      BY DEF IInv, Elements
    <3> QED
      BY <2>1, <3>1, EnumerationIsExact
  <2>3. \A i \in 1 .. Len(map.keys.values) : At(KeyType, map.keys, i - 1) = ValuesOf(map.keys)[i]
    <3>1. Sound(map.keys) /\ \A b \in Bytes32 : Contains(map.keys, b) => b \in Typed(KeyType)
      BY DEF IInv, Keys
    <3> QED
      BY <2>1, <3>1, EnumerationIsExact
  <2> QED
    BY <2>2, <2>3 DEF ViewsAgree
<1> QED
  BY <1>1, <1>2, Inductive, PTL DEF ReadsAgree

-----------------------------------------------------------------------------
LEMMA InitRefines == Init => Abstract!Init
<1> SUFFICES ASSUME Init PROVE Abstract!Init
  OBVIOUS
<1>1. Members = {}
  BY EmptySetSound, TypedWords DEF Init, Members
<1>2. {k \in Keys : Contains(map.keys, ToBytes32(KeyType, k))} = {}
  BY EmptySetSound, TypedWords DEF Init
<1>3. Entries = [k \in {} |-> 0]
  BY <1>2 DEF Entries
<1> QED
  BY <1>1, <1>3 DEF Init, Abstract!Init

\* What callers see, on words.
PresentKeys == {k \in Keys : Contains(map.keys, k)}

View ==
  /\ Members = {e \in Elements : Contains(set, e)}
  /\ DOMAIN Entries = PresentKeys
  /\ Entries = [k \in PresentKeys |-> map.values[k]]

LEMMA AbstractView == IInv => View
<1> SUFFICES ASSUME IInv PROVE View
  OBVIOUS
<1>1. \A k \in Keys : Get(k) = map.values[k]
  BY TypedWords DEF Get, IInv
<1>2. {k \in Keys : Contains(map.keys, ToBytes32(KeyType, k))} = PresentKeys
  BY TypedWords DEF PresentKeys
<1>3. Members = {e \in Elements : Contains(set, e)}
  BY TypedWords DEF Members
<1>4. Entries = [k \in PresentKeys |-> map.values[k]]
  BY <1>1, <1>2 DEF Entries, PresentKeys
<1> QED
  BY <1>3, <1>4 DEF View

LEMMA NextRefines == IInv /\ View /\ View' /\ [Next]_vars => [Abstract!Next]_(Abstract!vars)
<1> SUFFICES ASSUME IInv, View, View', [Next]_vars PROVE [Abstract!Next]_(Abstract!vars)
  OBVIOUS
<1>1. /\ Members = {e \in Elements : Contains(set, e)}
      /\ PresentKeys = {k \in Keys : Contains(map.keys, k)}
      /\ DOMAIN Entries = PresentKeys /\ Entries = [k \in PresentKeys |-> map.values[k]]
  BY DEF View, PresentKeys
<1>2. /\ Members' = {e \in Elements : Contains(set', e)}
      /\ PresentKeys' = {k \in Keys : Contains(map'.keys, k)}
      /\ Entries' = [k \in PresentKeys' |-> map'.values[k]]
  BY DEF View, PresentKeys
<1>3. /\ Sound(set) /\ Sound(map.keys) /\ map.values \in [Bytes32 -> Bytes32]
      /\ Keys \subseteq Bytes32 /\ Elements \subseteq Bytes32
  BY TypedWords DEF IInv
<1>4. ASSUME NEW e \in Elements, Add(e) PROVE Abstract!Next
  <2>1. /\ e \in Bytes32 /\ set' = Added(set, e) /\ map' = map
        /\ reply' = [call |-> <<"add", e>>, result |-> ~Contains(set, e)]
    BY <1>4, AddOnWords
  <2>2. \A b \in Bytes32 : Contains(set', b) <=> b = e \/ Contains(set, b)
    BY <1>3, <2>1, AddedSound
  <2>3. /\ Members' = Members \cup {e}
        /\ reply' = [call |-> <<"add", e>>, result |-> e \notin Members]
    <3>1. Members' = Members \cup {e}
      BY <1>1, <1>2, <1>3, <2>1, <2>2
    <3>2. (~Contains(set, e)) = (e \notin Members)
      BY <1>1 DEF Contains
    <3> QED
      BY <2>1, <3>1, <3>2
  <2>4. Entries' = Entries
    BY <1>1, <1>2, <2>1
  <2> QED
    BY <2>3, <2>4 DEF Abstract!Next, Abstract!Add
<1>5. ASSUME NEW e \in Elements, Remove(e) PROVE Abstract!Next
  <2>1. /\ e \in Bytes32 /\ set' = Removed(set, e) /\ map' = map
        /\ reply' = [call |-> <<"remove", e>>, result |-> Contains(set, e)]
    BY <1>5, RemoveOnWords
  <2>2. \A b \in Bytes32 : Contains(set', b) <=> b # e /\ Contains(set, b)
    BY <1>3, <2>1, RemovedSound
  <2>3. /\ Members' = Members \ {e}
        /\ reply' = [call |-> <<"remove", e>>, result |-> e \in Members]
    <3>1. Members' = Members \ {e}
      BY <1>1, <1>2, <1>3, <2>1, <2>2
    <3>2. (Contains(set, e)) = (e \in Members)
      BY <1>1 DEF Contains
    <3> QED
      BY <2>1, <3>1, <3>2
  <2>4. Entries' = Entries
    BY <1>1, <1>2, <2>1
  <2> QED
    BY <2>3, <2>4 DEF Abstract!Next, Abstract!Discard
<1>6. ASSUME NEW k \in Keys, NEW v \in Values, Put(k, v) PROVE Abstract!Next
  <2>1. /\ k \in Bytes32 /\ set' = set
        /\ reply' = [call |-> <<"set", k, v>>, result |-> ~Contains(map.keys, k)]
        /\ map'.keys = Added(map.keys, k) /\ map'.values = [map.values EXCEPT ![k] = v]
    BY <1>6, PutOnWords
  <2>2. \A b \in Bytes32 : Contains(Added(map.keys, k), b) <=> b = k \/ Contains(map.keys, b)
    BY <1>3, <2>1, AddedSound
  <2>3. /\ PresentKeys' = PresentKeys \cup {k}
        /\ reply' = [call |-> <<"set", k, v>>, result |-> k \notin PresentKeys]
    <3>1. PresentKeys' = PresentKeys \cup {k}
      BY <1>1, <1>2, <1>3, <2>1, <2>2
    <3>2. (~Contains(map.keys, k)) = (k \notin PresentKeys)
      BY <1>1 DEF Contains
    <3> QED
      BY <2>1, <3>1, <3>2
  <2>4. \A x \in PresentKeys \cup {k} : map'.values[x] = IF x = k THEN v ELSE map.values[x]
    BY <1>1, <1>3, <2>1
  <2>5. Entries' = [x \in PresentKeys \cup {k} |-> IF x = k THEN v ELSE Entries[x]]
    <3>1. Entries' = [x \in PresentKeys \cup {k} |-> map'.values[x]]
      BY <1>2, <2>3
    <3>2. \A x \in PresentKeys \cup {k} : map'.values[x] = IF x = k THEN v ELSE Entries[x]
      BY <1>1, <2>4
    <3> QED
      BY ONLY <3>1, <3>2
  <2>6. Members' = Members
    BY <1>1, <1>2, <2>1
  <2> QED
    BY <1>1, <2>3, <2>5, <2>6 DEF Abstract!Next, Abstract!Put
<1>7. ASSUME NEW k \in Keys, Delete(k) PROVE Abstract!Next
  <2>1. /\ k \in Bytes32 /\ set' = set
        /\ reply' = [call |-> <<"delete", k>>, result |-> Contains(map.keys, k)]
        /\ map'.keys = Removed(map.keys, k) /\ map'.values = [map.values EXCEPT ![k] = 0]
    BY <1>7, DeleteOnWords
  <2>2. \A b \in Bytes32 : Contains(Removed(map.keys, k), b) <=> b # k /\ Contains(map.keys, b)
    BY <1>3, <2>1, RemovedSound
  <2>3. /\ PresentKeys' = PresentKeys \ {k}
        /\ reply' = [call |-> <<"delete", k>>, result |-> k \in PresentKeys]
    <3>1. PresentKeys' = PresentKeys \ {k}
      BY <1>1, <1>2, <1>3, <2>1, <2>2
    <3>2. (Contains(map.keys, k)) = (k \in PresentKeys)
      BY <1>1 DEF Contains
    <3> QED
      BY <2>1, <3>1, <3>2
  <2>4. \A x \in PresentKeys \ {k} : map'.values[x] = map.values[x]
    BY <1>1, <1>3, <2>1
  <2>5. Entries' = [x \in PresentKeys \ {k} |-> Entries[x]]
    <3>1. Entries' = [x \in PresentKeys \ {k} |-> map'.values[x]]
      BY <1>2, <2>3
    <3>2. \A x \in PresentKeys \ {k} : map'.values[x] = Entries[x]
      BY <1>1, <2>4
    <3> QED
      BY ONLY <3>1, <3>2
  <2>6. Members' = Members
    BY <1>1, <1>2, <2>1
  <2> QED
    BY <1>1, <2>3, <2>5, <2>6 DEF Abstract!Next, Abstract!Delete
<1>8. CASE UNCHANGED vars
  <2>1. Members' = Members /\ Entries' = Entries /\ reply' = reply
    BY <1>1, <1>2, <1>8 DEF vars
  <2> QED
    BY <2>1 DEF Abstract!vars
<1> QED
  BY <1>4, <1>5, <1>6, <1>7, <1>8 DEF Next

\* The storage of the templates implements a set and a map.
THEOREM ImplementsCollections == Spec => CollectionSpec
BY InitRefines, AbstractView, NextRefines, Inductive, PTL DEF Spec, CollectionSpec, Abstract!Spec

-----------------------------------------------------------------------------
(* The binary searches.  In checkpoints whose keys increase, those below a *)
(* position c are the ones a search passes over.                           *)

SearchStep(n, c, s) ==
  [range \in (0 .. n) \X (0 .. n) |->
    LET l == range[1]  h == range[2]  mid == Average(l, h)
    IN  IF l >= h THEN h
        ELSE IF mid < c THEN s[<<mid + 1, h>>]
        ELSE s[<<l, mid>>]]

\* The position of a range that is nearest to c.
Nearest(c, l, h) == IF l >= h \/ c >= h THEN h ELSE IF c < l THEN l ELSE c

LEMMA AverageWithin ==
  ASSUME NEW l \in Nat, NEW h \in Nat, l < h
  PROVE  /\ Average(l, h) \in Nat /\ l <= Average(l, h) /\ Average(l, h) < h
BY DEF Average

LEMMA SearchStepAt ==
  ASSUME NEW n \in Nat, NEW c \in 0 .. n, NEW s, NEW l \in 0 .. n, NEW h \in 0 .. n
  PROVE  SearchStep(n, c, s)[<<l, h>>] =
           IF l >= h THEN h
           ELSE IF Average(l, h) < c THEN s[<<Average(l, h) + 1, h>>]
           ELSE s[<<l, Average(l, h)>>]
<1>1. <<l, h>> \in (0 .. n) \X (0 .. n) /\ <<l, h>>[1] = l /\ <<l, h>>[2] = h
  OBVIOUS
<1> QED
  BY <1>1 DEF SearchStep

LEMMA SearchExists ==
  ASSUME NEW n \in Nat, NEW c \in 0 .. n
  PROVE  \E s : s = SearchStep(n, c, s)
<1> DEFINE R == (0 .. n) \X (0 .. n)
           s == [range \in R |-> Nearest(c, range[1], range[2])]
<1>1. ASSUME NEW l \in 0 .. n, NEW h \in 0 .. n
      PROVE  s[<<l, h>>] = Nearest(c, l, h)
  <2>1. <<l, h>> \in R /\ <<l, h>>[1] = l /\ <<l, h>>[2] = h
    OBVIOUS
  <2> QED
    BY <2>1
<1>2. ASSUME NEW l \in 0 .. n, NEW h \in 0 .. n
      PROVE  SearchStep(n, c, s)[<<l, h>>] = Nearest(c, l, h)
  <2> DEFINE mid == Average(l, h)
  <2>1. SearchStep(n, c, s)[<<l, h>>] =
          IF l >= h THEN h ELSE IF mid < c THEN s[<<mid + 1, h>>] ELSE s[<<l, mid>>]
    BY SearchStepAt
  <2>2. CASE l >= h
    BY <2>1, <2>2 DEF Nearest
  <2>3. CASE l < h
    <3>1. mid \in Nat /\ l <= mid /\ mid < h /\ mid + 1 \in 0 .. n /\ mid \in 0 .. n
      BY <2>3, AverageWithin
    <3> HIDE DEF mid, s
    <3>2. s[<<mid + 1, h>>] = Nearest(c, mid + 1, h) /\ s[<<l, mid>>] = Nearest(c, l, mid)
      BY <1>1, <3>1
    <3>3. mid < c => Nearest(c, mid + 1, h) = Nearest(c, l, h)
      BY <2>3, <3>1 DEF Nearest
    <3>4. ~(mid < c) => Nearest(c, l, mid) = Nearest(c, l, h)
      BY <2>3, <3>1 DEF Nearest
    <3> QED
      BY <2>1, <2>3, <3>2, <3>3, <3>4
  <2> QED
    BY <2>2, <2>3
<1>3. \A range \in R : s[range] = SearchStep(n, c, s)[range]
  <2>1. \A range \in R : \E l, h \in 0 .. n : range = <<l, h>>
    OBVIOUS
  <2> HIDE DEF s, R
  <2> QED
    BY <1>1, <1>2, <2>1
<1>4. s = SearchStep(n, c, s)
  <2> DEFINE t == SearchStep(n, c, s)
  <2>1. /\ DOMAIN s = R /\ s = [range \in R |-> s[range]]
        /\ DOMAIN t = R /\ t = [range \in R |-> t[range]]
    BY DEF SearchStep
  <2> HIDE DEF s, R, t
  <2>2. \A range \in R : s[range] = t[range]
    BY <1>3 DEF t
  <2>3. s = t
    BY <2>1, <2>2
  <2> QED
    BY <2>3 DEF t
<1> QED
  BY <1>4

LEMMA SearchFinds ==
  ASSUME NEW n \in Nat, NEW c \in 0 .. n, NEW s, s = SearchStep(n, c, s),
         NEW low \in 0 .. n, NEW high \in 0 .. n, low <= high
  PROVE  s[<<low, high>>] = Nearest(c, low, high)
<1> DEFINE G == {d \in Nat : \A l, h \in 0 .. n :
                               l + d = h => s[<<l, h>>] = Nearest(c, l, h)}
<1>1. ASSUME NEW l \in 0 .. n, NEW h \in 0 .. n
      PROVE  s[<<l, h>>] =
               IF l >= h THEN h
               ELSE IF Average(l, h) < c THEN s[<<Average(l, h) + 1, h>>]
               ELSE s[<<l, Average(l, h)>>]
  BY SearchStepAt
<1>2. ASSUME NEW d \in Nat, \A m \in Nat : m < d => m \in G
      PROVE  d \in G
  <2>1. SUFFICES ASSUME NEW l \in 0 .. n, NEW h \in 0 .. n, l + d = h
                 PROVE  s[<<l, h>>] = Nearest(c, l, h)
    OBVIOUS
  <2>2. CASE l >= h
    BY <1>1, <2>2 DEF Nearest
  <2>3. CASE l < h
    <3>1. PICK mid : mid = Average(l, h)
      OBVIOUS
    <3>2. mid \in Nat /\ l <= mid /\ mid < h /\ mid + 1 \in 0 .. n /\ mid \in 0 .. n
      BY <2>3, <3>1, AverageWithin
    <3>3. s[<<l, h>>] = IF mid < c THEN s[<<mid + 1, h>>] ELSE s[<<l, mid>>]
      BY <1>1, <2>3, <3>1
    <3>4. s[<<mid + 1, h>>] = Nearest(c, mid + 1, h)
      <4>1. h - (mid + 1) \in Nat /\ h - (mid + 1) < d /\ mid + 1 + (h - (mid + 1)) = h
        BY <2>1, <3>2
      <4> QED
        BY <1>2, <3>2, <4>1
    <3>5. s[<<l, mid>>] = Nearest(c, l, mid)
      <4>1. mid - l \in Nat /\ mid - l < d /\ l + (mid - l) = mid
        BY <2>1, <3>2
      <4> QED
        BY <1>2, <3>2, <4>1
    <3>6. mid < c => Nearest(c, mid + 1, h) = Nearest(c, l, h)
      BY <2>3, <3>2 DEF Nearest
    <3>7. ~(mid < c) => Nearest(c, l, mid) = Nearest(c, l, h)
      BY <2>3, <3>2 DEF Nearest
    <3> QED
      BY <3>3, <3>4, <3>5, <3>6, <3>7
  <2> QED
    BY <2>2, <2>3
<1> HIDE DEF G
<1>3. Nat \subseteq G
  BY <1>2, NumberStrongInduction
<1>4. high - low \in G /\ low + (high - low) = high
  BY <1>3
<1> QED
  BY <1>4 DEF G

LEMMA UpperBinaryLookupFinds ==
  ASSUME NEW self, NEW key, Len(self) \in Nat, NEW c \in 0 .. Len(self),
         \A i \in 0 .. Len(self) - 1 : UnsafeAccess(self, i).key > key <=> c <= i,
         NEW low \in 0 .. Len(self), NEW high \in 0 .. Len(self), low <= high
  PROVE  UpperBinaryLookup(self, key, low, high) = Nearest(c, low, high)
<1> DEFINE n == Len(self)
           Step(s) == [range \in Ranges(self) |->
                        LET l == range[1]  h == range[2]  mid == Average(l, h)
                        IN  IF l >= h THEN h
                            ELSE IF UnsafeAccess(self, mid).key > key THEN s[<<l, mid>>]
                            ELSE s[<<mid + 1, h>>]]
<1>1. ASSUME NEW s
      PROVE  Step(s) = SearchStep(n, c, s)
  <2>1. ASSUME NEW l \in 0 .. n, NEW h \in 0 .. n, l < h
        PROVE  UnsafeAccess(self, Average(l, h)).key > key <=> ~(Average(l, h) < c)
    <3>1. PICK mid : mid = Average(l, h)
      OBVIOUS
    <3>2. mid \in 0 .. n - 1
      BY <2>1, <3>1, AverageWithin
    <3> QED
      BY <3>1, <3>2
  <2>2. ASSUME NEW range \in Ranges(self)
        PROVE  Step(s)[range] = SearchStep(n, c, s)[range]
    <3>1. PICK l \in 0 .. n, h \in 0 .. n : range = <<l, h>>
      BY DEF Ranges
    <3>2. range[1] = l /\ range[2] = h
      BY <3>1
    <3>3. Step(s)[range] = IF l >= h THEN h
                           ELSE IF UnsafeAccess(self, Average(l, h)).key > key
                             THEN s[<<l, Average(l, h)>>]
                           ELSE s[<<Average(l, h) + 1, h>>]
      BY <3>2
    <3> HIDE DEF Step
    <3> QED
      BY <2>1, <3>1, <3>3, SearchStepAt
  <2>3. /\ Step(s) = [range \in Ranges(self) |-> Step(s)[range]]
        /\ SearchStep(n, c, s) = [range \in Ranges(self) |-> SearchStep(n, c, s)[range]]
    BY DEF SearchStep, Ranges
  <2> HIDE DEF Step
  <2> QED
    BY <2>2, <2>3
<1>2. UpperBinaryLookup(self, key, low, high) = (CHOOSE s : s = Step(s))[<<low, high>>]
  BY DEF UpperBinaryLookup
<1> HIDE DEF Step
<1>3. PICK t : t = CHOOSE s : s = Step(s)
  OBVIOUS
<1>4. \E s : s = Step(s)
  BY <1>1, SearchExists
<1>5. t = Step(t)
  BY <1>3, <1>4
<1>6. t = SearchStep(n, c, t)
  BY <1>1, <1>5
<1>7. t[<<low, high>>] = Nearest(c, low, high)
  BY <1>6, SearchFinds
<1> QED
  BY <1>2, <1>3, <1>7

LEMMA LowerBinaryLookupFinds ==
  ASSUME NEW self, NEW key, Len(self) \in Nat, NEW c \in 0 .. Len(self),
         \A i \in 0 .. Len(self) - 1 : UnsafeAccess(self, i).key < key <=> i < c,
         NEW low \in 0 .. Len(self), NEW high \in 0 .. Len(self), low <= high
  PROVE  LowerBinaryLookup(self, key, low, high) = Nearest(c, low, high)
<1> DEFINE n == Len(self)
           Step(s) == [range \in Ranges(self) |->
                        LET l == range[1]  h == range[2]  mid == Average(l, h)
                        IN  IF l >= h THEN h
                            ELSE IF UnsafeAccess(self, mid).key < key
                              THEN s[<<mid + 1, h>>]
                            ELSE s[<<l, mid>>]]
<1>1. ASSUME NEW s
      PROVE  Step(s) = SearchStep(n, c, s)
  <2>1. ASSUME NEW l \in 0 .. n, NEW h \in 0 .. n, l < h
        PROVE  UnsafeAccess(self, Average(l, h)).key < key <=> Average(l, h) < c
    <3>1. PICK mid : mid = Average(l, h)
      OBVIOUS
    <3>2. mid \in 0 .. n - 1
      BY <2>1, <3>1, AverageWithin
    <3> QED
      BY <3>1, <3>2
  <2>2. ASSUME NEW range \in Ranges(self)
        PROVE  Step(s)[range] = SearchStep(n, c, s)[range]
    <3>1. PICK l \in 0 .. n, h \in 0 .. n : range = <<l, h>>
      BY DEF Ranges
    <3>2. range[1] = l /\ range[2] = h
      BY <3>1
    <3>3. Step(s)[range] = IF l >= h THEN h
                           ELSE IF UnsafeAccess(self, Average(l, h)).key < key
                             THEN s[<<Average(l, h) + 1, h>>]
                           ELSE s[<<l, Average(l, h)>>]
      BY <3>2
    <3> HIDE DEF Step
    <3> QED
      BY <2>1, <3>1, <3>3, SearchStepAt
  <2>3. /\ Step(s) = [range \in Ranges(self) |-> Step(s)[range]]
        /\ SearchStep(n, c, s) = [range \in Ranges(self) |-> SearchStep(n, c, s)[range]]
    BY DEF SearchStep, Ranges
  <2> HIDE DEF Step
  <2> QED
    BY <2>2, <2>3
<1>2. LowerBinaryLookup(self, key, low, high) = (CHOOSE s : s = Step(s))[<<low, high>>]
  BY DEF LowerBinaryLookup
<1> HIDE DEF Step
<1>3. PICK t : t = CHOOSE s : s = Step(s)
  OBVIOUS
<1>4. \E s : s = Step(s)
  BY <1>1, SearchExists
<1>5. t = Step(t)
  BY <1>3, <1>4
<1>6. t = SearchStep(n, c, t)
  BY <1>1, <1>5
<1>7. t[<<low, high>>] = Nearest(c, low, high)
  BY <1>6, SearchFinds
<1> QED
  BY <1>2, <1>3, <1>7

-----------------------------------------------------------------------------
(* The square root.                                                        *)

LEMMA Log2Of ==
  ASSUME NEW a \in Nat, a > 0
  PROVE  Log2(a) \in 0 .. a /\ 2 ^ Log2(a) <= a
<1> DEFINE T == {k \in Nat : a < 2 ^ (k + 1)}
<1>1. a \in T
  <2>1. 2 ^ (a + 1) > a + 1 /\ 2 ^ (a + 1) \in Nat
    BY PowerPositive
  <2> QED
    BY <2>1
<1>2. PICK k \in T : \A m \in T : k <= m
  BY <1>1, LeastNumber
<1>3. 2 ^ k <= a
  <2>1. CASE k = 0
    BY <2>1, PowerZero
  <2>2. CASE k # 0
    <3>1. k - 1 \in Nat /\ k - 1 \notin T
      BY <1>2, <2>2
    <3>2. 2 ^ (k - 1 + 1) \in Nat /\ ~(a < 2 ^ (k - 1 + 1)) /\ k - 1 + 1 = k
      BY <3>1, PowerPositive
    <3> QED
      BY <3>2
  <2> QED
    BY <2>1, <2>2
<1>4. k \in 0 .. a /\ a < 2 ^ (k + 1)
  BY <1>1, <1>2
<1>5. \E j \in 0 .. a : 2 ^ j <= a /\ a < 2 ^ (j + 1)
  BY <1>3, <1>4
<1> QED
  BY <1>5 DEF Log2

\* A step of Newton's method stays between 1 and a.
LEMMA NewtonStep ==
  ASSUME NEW a \in Nat, NEW x \in 1 .. a
  PROVE  (x + a \div x) \div 2 \in 1 .. a
<1>1. a \div x \in 1 .. a
  <2>1. x * (a \div x) <= a /\ a < x * ((a \div x) + 1) /\ a \div x \in Nat
    BY DivBounds
  <2>2. a \div x >= 1
    BY DivGeq
  <2>3. \A q \in Nat : x * q <= a => q <= a
    <3>1. ASSUME NEW q \in Nat, x * q <= a
          PROVE  q <= a
      <4>1. 1 * q <= x * q
        BY MultMono
      <4> QED
        BY <3>1, <4>1
    <3> QED
      BY <3>1
  <2> QED
    BY <2>1, <2>2, <2>3
<1> DEFINE y == a \div x
<1> HIDE DEF y
<1>2. y \in 1 .. a
  BY <1>1 DEF y
<1>3. (x + y) \div 2 \in 1 .. a
  BY <1>2
<1> QED
  BY <1>3 DEF y

NewtonSteps(a, s) ==
  [i \in 0 .. 7 |-> IF i = 0 THEN 2 ^ (Log2(a) \div 2)
                    ELSE (s[i - 1] + a \div s[i - 1]) \div 2]

LEMMA NewtonStepsExist ==
  ASSUME NEW a
  PROVE  \E s : s = NewtonSteps(a, s)
<1> DEFINE N(x) == (x + a \div x) \div 2
<1>0. PICK x0 : x0 = 2 ^ (Log2(a) \div 2) OBVIOUS
<1>1. PICK x1 : x1 = N(x0) OBVIOUS
<1>2. PICK x2 : x2 = N(x1) OBVIOUS
<1>3. PICK x3 : x3 = N(x2) OBVIOUS
<1>4. PICK x4 : x4 = N(x3) OBVIOUS
<1>5. PICK x5 : x5 = N(x4) OBVIOUS
<1>6. PICK x6 : x6 = N(x5) OBVIOUS
<1>7. PICK x7 : x7 = N(x6) OBVIOUS
<1> DEFINE s == [i \in 0 .. 7 |-> CASE i = 0 -> x0 [] i = 1 -> x1 [] i = 2 -> x2 [] i = 3 -> x3
                                    [] i = 4 -> x4 [] i = 5 -> x5 [] i = 6 -> x6 [] i = 7 -> x7]
<1>8. /\ s[0] = x0 /\ s[1] = x1 /\ s[2] = x2 /\ s[3] = x3
      /\ s[4] = x4 /\ s[5] = x5 /\ s[6] = x6 /\ s[7] = x7
  OBVIOUS
<1>9. s = [i \in 0 .. 7 |-> s[i]]
  OBVIOUS
<1> HIDE DEF s, N
<1>10. s[0] = 2 ^ (Log2(a) \div 2)
  BY <1>0, <1>8
<1>11. ASSUME NEW i \in 1 .. 7
       PROVE  s[i] = N(s[i - 1])
  <2>1. i \in {1, 2, 3, 4, 5, 6, 7}
    OBVIOUS
  <2>2. /\ s[1] = N(s[1 - 1]) /\ s[2] = N(s[2 - 1]) /\ s[3] = N(s[3 - 1]) /\ s[4] = N(s[4 - 1])
        /\ s[5] = N(s[5 - 1]) /\ s[6] = N(s[6 - 1]) /\ s[7] = N(s[7 - 1])
    BY <1>1, <1>2, <1>3, <1>4, <1>5, <1>6, <1>7, <1>8
  <2> QED
    BY <2>1, <2>2
<1>12. s = [i \in 0 .. 7 |-> IF i = 0 THEN 2 ^ (Log2(a) \div 2) ELSE N(s[i - 1])]
  BY <1>9, <1>10, <1>11
<1> QED
  BY <1>12 DEF N, NewtonSteps

LEMMA SqrtOf ==
  ASSUME NEW a \in Nat, a > 0
  PROVE  Sqrt(a) \in 1 .. a
<1>1. PICK t : t = CHOOSE s : s = NewtonSteps(a, s)
  OBVIOUS
<1>2. t = NewtonSteps(a, t)
  BY <1>1, NewtonStepsExist
<1>3. Sqrt(a) = IF t[7] <= a \div t[7] THEN t[7] ELSE a \div t[7]
  <2> DEFINE step == CHOOSE s : s = [i \in 0 .. 7 |->
                       IF i = 0 THEN 2 ^ (Log2(a) \div 2)
                       ELSE (s[i - 1] + a \div s[i - 1]) \div 2]
  <2>1. Sqrt(a) = IF a = 0 THEN 0
                  ELSE IF step[7] <= a \div step[7] THEN step[7] ELSE a \div step[7]
    BY DEF Sqrt
  <2>2. t = step
    BY <1>1, Zenon DEF NewtonSteps
  <2> HIDE DEF step
  <2> QED
    BY <2>1, <2>2
<1>4. t[0] \in 1 .. a
  <2>1. Log2(a) \in Nat /\ 2 ^ Log2(a) <= a
    BY Log2Of
  <2>2. PICK k \in Nat : k = Log2(a) \div 2 /\ k <= Log2(a)
    BY <2>1
  <2>3. 2 ^ k <= 2 ^ Log2(a) /\ 2 ^ k \in Nat /\ 2 ^ k > k /\ 2 ^ Log2(a) \in Nat
    BY <2>1, <2>2, PowerGrows, PowerPositive
  <2>4. t[0] = 2 ^ k
    BY <1>2, <2>2 DEF NewtonSteps
  <2> QED
    BY <2>1, <2>2, <2>3, <2>4
<1>5. ASSUME NEW i \in 1 .. 7, t[i - 1] \in 1 .. a
      PROVE  t[i] \in 1 .. a
  <2>1. t[i] = (t[i - 1] + a \div t[i - 1]) \div 2
    BY <1>2 DEF NewtonSteps
  <2> QED
    BY <1>5, <2>1, NewtonStep
<1>6. t[7] \in 1 .. a
  <2>1. \A i \in 1 .. 7 : t[i - 1] \in 1 .. a => t[i] \in 1 .. a
    BY <1>5
  <2>2. t[1] \in 1 .. a
    BY <1>4, <2>1
  <2>3. t[2] \in 1 .. a
    BY <2>1, <2>2
  <2>4. t[3] \in 1 .. a
    BY <2>1, <2>3
  <2>5. t[4] \in 1 .. a
    BY <2>1, <2>4
  <2>6. t[5] \in 1 .. a
    BY <2>1, <2>5
  <2>7. t[6] \in 1 .. a
    BY <2>1, <2>6
  <2> QED
    BY <2>1, <2>7
<1>7. ASSUME NEW x \in 1 .. a
      PROVE  x <= a \div x \/ a \div x \in 1 .. a
  <2>1. a \div x \in Nat /\ a \div x >= 1
    BY DivBounds, DivGeq
  <2> QED
    BY <2>1
<1> QED
  BY <1>3, <1>6, <1>7

-----------------------------------------------------------------------------
(* Checkpoints in the order of their keys.                                 *)

LEMMA Limits == MaxKey \in Nat /\ MaxValue \in Nat
<1>1. ASSUME NEW l \in Nat
      PROVE  TypeMax(Uint(l)) \in Nat
  <2>1. 2 ^ l \in Nat /\ 2 ^ l > l
    BY PowerPositive
  <2>2. TypeMax(Uint(l)) = 2 ^ l - 1
    BY DEF TypeMax, Uint
  <2> QED
    BY <2>1, <2>2
<1> QED
  BY <1>1, LengthsAssumption DEF MaxKey, MaxValue

LEMMA SelfFields ==
  ASSUME NEW self \in Seq(Checkpoint)
  PROVE  /\ Len(self) \in Nat /\ self \in [1 .. Len(self) -> Checkpoint]
         /\ \A i \in 1 .. Len(self) :
              /\ self[i] \in Checkpoint
              /\ self[i].key \in Nat /\ self[i].key <= MaxKey
              /\ self[i].value \in 0 .. MaxValue
         /\ \A i \in 0 .. Len(self) - 1 : UnsafeAccess(self, i) = self[i + 1]
         /\ self = <<>> <=> Len(self) = 0
<1>1. /\ Len(self) \in Nat /\ self \in [1 .. Len(self) -> Checkpoint]
      /\ self = <<>> <=> Len(self) = 0
  OBVIOUS
<1>2. \A x \in Checkpoint : x.key \in Nat /\ x.key <= MaxKey /\ x.value \in 0 .. MaxValue
  BY Limits DEF Checkpoint
<1>3. \A i \in 1 .. Len(self) : self[i] \in Checkpoint
  BY <1>1
<1>4. \A i \in 0 .. Len(self) - 1 : UnsafeAccess(self, i) = self[i + 1]
  BY <1>1 DEF UnsafeAccess
<1> QED
  BY <1>1, <1>2, <1>3, <1>4

LEMMA KeysOrdered ==
  ASSUME NEW self \in Seq(Checkpoint), KeysIncrease(self),
         NEW i \in 1 .. Len(self), NEW j \in 1 .. Len(self), i < j
  PROVE  self[i].key < self[j].key
<1> DEFINE G == {d \in Nat : i + d + 1 <= Len(self) => self[i].key < self[i + d + 1].key}
<1>1. /\ Len(self) \in Nat
      /\ \A m \in 1 .. Len(self) : self[m].key \in Nat
      /\ \A m \in 1 .. Len(self) - 1 : self[m].key < self[m + 1].key
  BY SelfFields DEF KeysIncrease
<1>2. 0 \in G
  BY <1>1
<1>3. ASSUME NEW d \in Nat, d \in G
      PROVE  d + 1 \in G
  <2>1. SUFFICES ASSUME i + (d + 1) + 1 <= Len(self)
                 PROVE  self[i].key < self[i + (d + 1) + 1].key
    OBVIOUS
  <2>2. PICK m : m = i + d + 1
    OBVIOUS
  <2>3. m \in 1 .. Len(self) - 1 /\ m \in 1 .. Len(self) /\ m + 1 \in 1 .. Len(self)
    BY <1>1, <2>1, <2>2
  <2>4. self[i].key < self[m].key
    BY <1>3, <2>2, <2>3
  <2>5. self[m].key < self[m + 1].key
    BY <1>1, <2>3
  <2>6. i + (d + 1) + 1 = m + 1
    BY <2>2
  <2> QED
    BY <1>1, <2>3, <2>4, <2>5, <2>6
<1> HIDE DEF G
<1>4. Nat \subseteq G
  BY <1>2, <1>3, NumberInduction
<1>5. j - i - 1 \in G /\ i + (j - i - 1) + 1 = j
  BY <1>1, <1>4
<1> QED
  BY <1>1, <1>5 DEF G

\* The last checkpoint with a key up to the one looked for.
LEMMA UpperCut ==
  ASSUME NEW self \in Seq(Checkpoint), KeysIncrease(self), NEW key \in Nat
  PROVE  \E c \in 0 .. Len(self) : \A i \in 1 .. Len(self) : self[i].key <= key <=> i <= c
<1> DEFINE T == {i \in 1 .. Len(self) : self[i].key > key}
<1>1. Len(self) \in Nat /\ \A i \in 1 .. Len(self) : self[i].key \in Nat
  BY SelfFields
<1>2. CASE T = {}
  <2>1. \A i \in 1 .. Len(self) : self[i].key <= key <=> i <= Len(self)
    BY <1>1, <1>2
  <2>2. Len(self) \in 0 .. Len(self)
    BY <1>1
  <2> QED
    BY <2>1, <2>2, Zenon
<1>3. CASE T # {}
  <2>1. T \in SUBSET Nat
    BY <1>1
  <2>2. PICK m \in T : \A i \in T : m <= i
    <3> HIDE DEF T
    <3> QED
      BY <1>3, <2>1, LeastNumber
  <2>3. m - 1 \in 0 .. Len(self) /\ m \in 1 .. Len(self) /\ self[m].key > key
    BY <1>1, <2>2
  <2>4. ASSUME NEW i \in 1 .. Len(self)
        PROVE  self[i].key <= key <=> i <= m - 1
    <3>1. CASE i <= m - 1
      <4>1. i \notin T
        BY <2>2, <2>3, <3>1
      <4> QED
        BY <1>1, <3>1, <4>1
    <3>2. CASE i = m
      BY <1>1, <2>3, <3>2
    <3>3. CASE m < i
      <4>1. self[m].key < self[i].key
        BY <2>3, <3>3, KeysOrdered
      <4> QED
        BY <1>1, <2>3, <3>3, <4>1
    <3> QED
      BY <2>3, <3>1, <3>2, <3>3
  <2> QED
    BY <2>3, <2>4
<1> QED
  BY <1>2, <1>3

\* As many checkpoints have a key below the one looked for.
LEMMA LowerCut ==
  ASSUME NEW self \in Seq(Checkpoint), KeysIncrease(self), NEW key \in Nat
  PROVE  \E c \in 0 .. Len(self) : \A i \in 1 .. Len(self) : self[i].key < key <=> i <= c
<1>1. Len(self) \in Nat /\ \A i \in 1 .. Len(self) : self[i].key \in Nat
  BY SelfFields
<1>2. CASE key = 0
  BY <1>1, <1>2
<1>3. CASE key # 0
  <2>1. key - 1 \in Nat
    BY <1>3
  <2>2. PICK c \in 0 .. Len(self) : \A i \in 1 .. Len(self) : self[i].key <= key - 1 <=> i <= c
    BY <2>1, UpperCut
  <2>3. \A i \in 1 .. Len(self) : self[i].key <= key - 1 <=> self[i].key < key
    BY <1>1, <2>1
  <2> QED
    BY <2>2, <2>3
<1> QED
  BY <1>2, <1>3

ValueAtCut(self, c) == IF c = 0 THEN 0 ELSE self[c].value

LEMMA ValueBeforeCut ==
  ASSUME NEW self \in Seq(Checkpoint), NEW c \in 0 .. Len(self)
  PROVE  ValueBefore(self, c) = ValueAtCut(self, c)
<1>1. c # 0 => c - 1 \in 0 .. Len(self) - 1 /\ c - 1 + 1 = c
  BY SelfFields
<1> QED
  BY <1>1, SelfFields DEF ValueBefore, ValueAtCut

LEMMA UpperLookupIs ==
  ASSUME NEW self \in Seq(Checkpoint), NEW key \in Nat, NEW c \in 0 .. Len(self),
         \A i \in 1 .. Len(self) : self[i].key <= key <=> i <= c
  PROVE  UpperLookup(self, key) = ValueAtCut(self, c)
<1>1. Len(self) \in Nat /\ 0 \in 0 .. Len(self) /\ Len(self) \in 0 .. Len(self)
  BY SelfFields
<1>2. \A i \in 0 .. Len(self) - 1 : UnsafeAccess(self, i).key > key <=> c <= i
  <2>1. ASSUME NEW i \in 0 .. Len(self) - 1
        PROVE  UnsafeAccess(self, i).key > key <=> c <= i
    <3>1. i + 1 \in 1 .. Len(self) /\ UnsafeAccess(self, i) = self[i + 1]
      BY <1>1, SelfFields
    <3>2. self[i + 1].key \in Nat
      BY <3>1, SelfFields
    <3>3. self[i + 1].key <= key <=> i + 1 <= c
      BY <3>1
    <3> QED
      BY <1>1, <3>1, <3>2, <3>3
  <2> QED
    BY <2>1
<1>3. UpperBinaryLookup(self, key, 0, Len(self)) = Nearest(c, 0, Len(self))
  BY <1>1, <1>2, UpperBinaryLookupFinds
<1>4. Nearest(c, 0, Len(self)) = c
  BY <1>1 DEF Nearest
<1> QED
  BY <1>3, <1>4, ValueBeforeCut DEF UpperLookup

LEMMA UpperLookupRecentIs ==
  ASSUME NEW self \in Seq(Checkpoint), NEW key \in Nat, NEW c \in 0 .. Len(self),
         \A i \in 1 .. Len(self) : self[i].key <= key <=> i <= c
  PROVE  UpperLookupRecent(self, key) = ValueAtCut(self, c)
<1> DEFINE n == Len(self)
           mid == n - Sqrt(n)
<1>1. n \in Nat /\ 0 \in 0 .. n /\ n \in 0 .. n
  BY SelfFields
<1>2. \A i \in 0 .. n - 1 : UnsafeAccess(self, i).key > key <=> c <= i
  <2>1. ASSUME NEW i \in 0 .. n - 1
        PROVE  UnsafeAccess(self, i).key > key <=> c <= i
    <3>1. i + 1 \in 1 .. n /\ UnsafeAccess(self, i) = self[i + 1]
      BY <1>1, SelfFields
    <3>2. self[i + 1].key \in Nat
      BY <3>1, SelfFields
    <3>3. self[i + 1].key <= key <=> i + 1 <= c
      BY <3>1
    <3> QED
      BY <1>1, <3>1, <3>2, <3>3
  <2> QED
    BY <2>1
<1>3. CASE n <= 5
  <2>1. UpperBinaryLookup(self, key, 0, n) = Nearest(c, 0, n)
    BY <1>1, <1>2, UpperBinaryLookupFinds
  <2>2. Nearest(c, 0, n) = c
    BY <1>1 DEF Nearest
  <2>3. UpperLookupRecent(self, key) = ValueBefore(self, UpperBinaryLookup(self, key, 0, n))
    BY <1>3 DEF UpperLookupRecent
  <2> QED
    BY <2>1, <2>2, <2>3, ValueBeforeCut
<1>4. CASE n > 5
  <2>1. mid \in 0 .. n - 1 /\ mid \in 0 .. n /\ mid + 1 \in 0 .. n
    <3>1. Sqrt(n) \in 1 .. n
      BY <1>1, <1>4, SqrtOf
    <3> QED
      BY <1>1, <3>1
  <2>2. UnsafeAccess(self, mid).key > key <=> c <= mid
    BY <1>2, <2>1
  <2>3. UnsafeAccess(self, mid).key \in Nat
    <3>1. UnsafeAccess(self, mid) = self[mid + 1] /\ mid + 1 \in 1 .. n
      BY <1>1, <2>1, SelfFields
    <3> QED
      BY <3>1, SelfFields
  <2>4. UpperLookupRecent(self, key) =
          ValueBefore(self, IF key < UnsafeAccess(self, mid).key
                              THEN UpperBinaryLookup(self, key, 0, mid)
                              ELSE UpperBinaryLookup(self, key, mid + 1, n))
    BY <1>1, <1>4 DEF UpperLookupRecent
  <2> HIDE DEF mid
  <2>5. UpperBinaryLookup(self, key, 0, mid) = Nearest(c, 0, mid)
    BY <1>1, <1>2, <2>1, UpperBinaryLookupFinds
  <2>6. UpperBinaryLookup(self, key, mid + 1, n) = Nearest(c, mid + 1, n)
    BY <1>1, <1>2, <2>1, UpperBinaryLookupFinds
  <2>7. CASE c <= mid
    <3>1. key < UnsafeAccess(self, mid).key /\ Nearest(c, 0, mid) = c
      BY <2>1, <2>2, <2>3, <2>7 DEF Nearest
    <3> QED
      BY <2>4, <2>5, <3>1, ValueBeforeCut
  <2>8. CASE mid < c
    <3>1. ~(key < UnsafeAccess(self, mid).key) /\ Nearest(c, mid + 1, n) = c
      BY <1>1, <2>1, <2>2, <2>3, <2>8 DEF Nearest
    <3> QED
      BY <2>4, <2>6, <3>1, ValueBeforeCut
  <2> QED
    BY <2>1, <2>7, <2>8
<1> QED
  BY <1>1, <1>3, <1>4

LEMMA LowerLookupIs ==
  ASSUME NEW self \in Seq(Checkpoint), NEW key \in Nat, NEW c \in 0 .. Len(self),
         \A i \in 1 .. Len(self) : self[i].key < key <=> i <= c
  PROVE  LowerLookup(self, key) = IF c = Len(self) THEN 0 ELSE self[c + 1].value
<1>1. Len(self) \in Nat /\ 0 \in 0 .. Len(self) /\ Len(self) \in 0 .. Len(self)
  BY SelfFields
<1>2. \A i \in 0 .. Len(self) - 1 : UnsafeAccess(self, i).key < key <=> i < c
  <2>1. ASSUME NEW i \in 0 .. Len(self) - 1
        PROVE  UnsafeAccess(self, i).key < key <=> i < c
    <3>1. i + 1 \in 1 .. Len(self) /\ UnsafeAccess(self, i) = self[i + 1]
      BY <1>1, SelfFields
    <3>2. self[i + 1].key < key <=> i + 1 <= c
      BY <3>1
    <3> QED
      BY <1>1, <3>1, <3>2
  <2> QED
    BY <2>1
<1>3. LowerBinaryLookup(self, key, 0, Len(self)) = Nearest(c, 0, Len(self))
  BY <1>1, <1>2, LowerBinaryLookupFinds
<1>4. Nearest(c, 0, Len(self)) = c
  BY <1>1 DEF Nearest
<1>5. c # Len(self) => UnsafeAccess(self, c) = self[c + 1]
  BY <1>1, SelfFields
<1> QED
  BY <1>3, <1>4, <1>5 DEF LowerLookup

-----------------------------------------------------------------------------
(* A scan finds the same.                                                  *)

LEMMA ScannedUpperIs ==
  ASSUME NEW self \in Seq(Checkpoint), NEW key \in Nat, NEW c \in 0 .. Len(self),
         \A i \in 1 .. Len(self) : self[i].key <= key <=> i <= c
  PROVE  ScannedUpper(self, key) = ValueAtCut(self, c)
<1>1. Len(self) \in Nat
  BY SelfFields
<1>2. UpTo(self, key) = 1 .. c
  BY <1>1 DEF UpTo
<1>3. c # 0 => Max(1 .. c) = c
  BY <1>1 DEF Max
<1>4. 1 .. c = {} <=> c = 0
  BY <1>1
<1> QED
  BY <1>2, <1>3, <1>4 DEF ScannedUpper, ValueAtCut

LEMMA ScannedLowerIs ==
  ASSUME NEW self \in Seq(Checkpoint), NEW key \in Nat, NEW c \in 0 .. Len(self),
         \A i \in 1 .. Len(self) : self[i].key < key <=> i <= c
  PROVE  ScannedLower(self, key) = IF c = Len(self) THEN 0 ELSE self[c + 1].value
<1>1. Len(self) \in Nat /\ \A i \in 1 .. Len(self) : self[i].key \in Nat
  BY SelfFields
<1>2. From(self, key) = c + 1 .. Len(self)
  <2>1. \A i \in 1 .. Len(self) : self[i].key >= key <=> c + 1 <= i
    BY <1>1
  <2> QED
    BY <1>1, <2>1 DEF From
<1>3. c # Len(self) => Min(c + 1 .. Len(self)) = c + 1
  BY <1>1 DEF Min
<1>4. c + 1 .. Len(self) = {} <=> c = Len(self)
  BY <1>1
<1> QED
  BY <1>2, <1>3, <1>4 DEF ScannedLower

LEMMA SearchesFindTheKey ==
  ASSUME NEW self \in Seq(Checkpoint), KeysIncrease(self), NEW key \in Nat
  PROVE  /\ UpperLookup(self, key) = ScannedUpper(self, key)
         /\ UpperLookupRecent(self, key) = ScannedUpper(self, key)
         /\ LowerLookup(self, key) = ScannedLower(self, key)
<1>1. PICK c \in 0 .. Len(self) : \A i \in 1 .. Len(self) : self[i].key <= key <=> i <= c
  BY UpperCut
<1>2. PICK d \in 0 .. Len(self) : \A i \in 1 .. Len(self) : self[i].key < key <=> i <= d
  BY LowerCut
<1>3. UpperLookup(self, key) = ScannedUpper(self, key)
  BY <1>1, UpperLookupIs, ScannedUpperIs
<1>4. UpperLookupRecent(self, key) = ScannedUpper(self, key)
  BY <1>1, UpperLookupRecentIs, ScannedUpperIs
<1>5. LowerLookup(self, key) = ScannedLower(self, key)
  BY <1>2, LowerLookupIs, ScannedLowerIs
<1> QED
  BY <1>3, <1>4, <1>5

\* A key that is not below the last one is looked up in the last checkpoint.
LEMMA LastIsLatest ==
  ASSUME NEW self \in Seq(Checkpoint), KeysIncrease(self), NEW key \in Nat,
         self # <<>> => self[Len(self)].key <= key
  PROVE  /\ UpperLookup(self, key) = Latest(self)
         /\ Latest(self) = ValueAtCut(self, Len(self))
         /\ Latest(self) \in 0 .. MaxValue
<1>1. Len(self) \in Nat /\ \A i \in 1 .. Len(self) : self[i].key \in Nat
  BY SelfFields
<1>2. ASSUME NEW i \in 1 .. Len(self)
      PROVE  self[i].key <= key
  <2>1. self # <<>> /\ Len(self) \in 1 .. Len(self)
    BY <1>1, SelfFields
  <2>2. CASE i = Len(self)
    BY <2>1, <2>2
  <2>3. CASE i < Len(self)
    <3>1. self[i].key < self[Len(self)].key
      BY <2>1, <2>3, KeysOrdered
    <3> QED
      BY <1>1, <2>1, <3>1
  <2> QED
    BY <1>1, <2>2, <2>3
<1>3. UpperLookup(self, key) = ValueAtCut(self, Len(self))
  <2>1. Len(self) \in 0 .. Len(self)
    BY <1>1
  <2>2. \A i \in 1 .. Len(self) : self[i].key <= key <=> i <= Len(self)
    BY <1>1, <1>2
  <2> QED
    BY <2>1, <2>2, UpperLookupIs
<1>4. Latest(self) = ValueAtCut(self, Len(self))
  BY <1>1, ValueBeforeCut DEF Latest
<1>5. ValueAtCut(self, Len(self)) \in 0 .. MaxValue
  BY <1>1, SelfFields, Limits DEF ValueAtCut
<1> QED
  BY <1>3, <1>4, <1>5

-----------------------------------------------------------------------------
(* Insertion.                                                              *)

\* What _insert leaves: the checkpoints with smaller keys, and the new one.
LEMMA InsertedIs ==
  ASSUME NEW self \in Seq(Checkpoint), KeysIncrease(self),
         NEW key \in 0 .. MaxKey, NEW amount \in 0 .. MaxValue, CanInsert(self, key)
  PROVE  LET new == Inserted(self, key, amount)
         IN  /\ new \in Seq(Checkpoint)
             /\ new # <<>> /\ new[Len(new)] = [key |-> key, value |-> amount]
             /\ Len(new) <= Len(self) + 1
             /\ \A i \in 1 .. Len(new) - 1 :
                  i \in 1 .. Len(self) /\ new[i] = self[i] /\ self[i].key < key
             /\ \A i \in 1 .. Len(self) : self[i].key < key => i <= Len(new) - 1
             /\ KeysIncrease(new)
<1> DEFINE n == Len(self)
           point == [key |-> key, value |-> amount]
           new == Inserted(self, key, amount)
<1>1. /\ n \in Nat /\ self \in [1 .. n -> Checkpoint] /\ self = <<>> <=> n = 0
      /\ \A i \in 1 .. n : self[i] \in Checkpoint /\ self[i].key \in Nat
  BY SelfFields
<1>2. point \in Checkpoint /\ point.key = key /\ key \in Nat
  BY Limits DEF Checkpoint
<1>3. self # <<>> => UnsafeAccess(self, n - 1) = self[n] /\ n \in 1 .. n /\ self[n].key <= key
  <2>1. ASSUME self # <<>>
        PROVE  UnsafeAccess(self, n - 1) = self[n] /\ n \in 1 .. n /\ self[n].key <= key
    <3>1. n - 1 \in 0 .. n - 1 /\ n - 1 + 1 = n /\ n \in 1 .. n
      BY <1>1, <2>1
    <3>2. UnsafeAccess(self, n - 1) = self[n]
      BY <3>1, SelfFields
    <3> QED
      BY <2>1, <3>1, <3>2 DEF CanInsert
  <2> QED
    BY <2>1
<1>4. ASSUME NEW i \in 1 .. n - 1
      PROVE  self[i].key < self[n].key
  <2>1. i \in 1 .. n /\ n \in 1 .. n /\ i < n
    BY <1>1
  <2> QED
    BY <2>1, KeysOrdered
<1>5. CASE self # <<>> /\ self[n].key = key
  <2>1. new = [self EXCEPT ![n] = point]
    BY <1>3, <1>5 DEF Inserted
  <2>2. new \in [1 .. n -> Checkpoint] /\ new[n] = point /\ \A i \in 1 .. n - 1 : new[i] = self[i]
    BY <1>1, <1>2, <1>3, <1>5, <2>1
  <2> HIDE DEF new, point
  <2>3. new \in Seq(Checkpoint) /\ Len(new) = n /\ new # <<>>
    BY <1>1, <1>5, <2>2
  <2>4. \A i \in 1 .. n - 1 : i \in 1 .. n /\ self[i].key < key
    BY <1>1, <1>4, <1>5
  <2>5. \A i \in 1 .. n : self[i].key < key => i <= n - 1
    BY <1>1, <1>2, <1>5
  <2>6. KeysIncrease(new)
    <3>1. ASSUME NEW i \in 1 .. n - 1
          PROVE  new[i].key < new[i + 1].key
      <4>1. CASE i = n - 1
        BY <1>1, <1>2, <2>2, <2>4, <4>1
      <4>2. CASE i < n - 1
        <5>1. i + 1 \in 1 .. n - 1
          BY <1>1, <4>2
        <5> QED
          BY <2>2, <5>1 DEF KeysIncrease
      <4> QED
        BY <1>1, <4>1, <4>2
    <3> QED
      BY <2>3, <3>1 DEF KeysIncrease
  <2> QED
    BY <1>1, <2>2, <2>3, <2>4, <2>5, <2>6 DEF new, point
<1>6. CASE ~(self # <<>> /\ self[n].key = key)
  <2>1. new = Append(self, point)
    BY <1>3, <1>6 DEF Inserted
  <2>2. /\ new \in Seq(Checkpoint) /\ Len(new) = n + 1 /\ new[n + 1] = point
        /\ \A i \in 1 .. n : new[i] = self[i]
    BY <1>1, <1>2, <2>1
  <2> HIDE DEF new, point
  <2>3. new # <<>>
    BY <1>1, <2>2, SelfFields
  <2>4. \A i \in 1 .. n : self[i].key < key
    <3>1. ASSUME NEW i \in 1 .. n
          PROVE  self[i].key < key
      <4>1. self # <<>> /\ self[n].key < key
        BY <1>1, <1>2, <1>3, <1>6
      <4>2. CASE i = n
        BY <4>1, <4>2
      <4>3. CASE i < n
        <5>1. i \in 1 .. n - 1
          BY <1>1, <4>3
        <5> QED
          BY <1>1, <1>2, <1>3, <1>4, <4>1, <5>1
      <4> QED
        BY <1>1, <4>2, <4>3
    <3> QED
      BY <3>1
  <2>5. KeysIncrease(new)
    <3>1. ASSUME NEW i \in 1 .. n
          PROVE  new[i].key < new[i + 1].key
      <4>1. CASE i = n
        BY <1>1, <1>2, <2>2, <2>4, <4>1
      <4>2. CASE i < n
        <5>1. i + 1 \in 1 .. n /\ i \in 1 .. n - 1
          BY <1>1, <4>2
        <5> QED
          BY <2>2, <5>1 DEF KeysIncrease
      <4> QED
        BY <1>1, <4>1, <4>2
    <3> QED
      BY <1>1, <2>2, <3>1 DEF KeysIncrease
  <2> QED
    BY <1>1, <2>2, <2>3, <2>4, <2>5 DEF new, point
<1> QED
  BY <1>5, <1>6

\* An insertion changes what lookups see from its key on, and nothing before.
LEMMA LookupAfterInsertion ==
  ASSUME NEW self \in Seq(Checkpoint), KeysIncrease(self),
         NEW key \in 0 .. MaxKey, NEW amount \in 0 .. MaxValue, CanInsert(self, key),
         NEW x \in Nat
  PROVE  UpperLookup(Inserted(self, key, amount), x) =
           IF x < key THEN UpperLookup(self, x) ELSE amount
<1> DEFINE new == Inserted(self, key, amount)
<1>1. /\ new \in Seq(Checkpoint)
      /\ new # <<>> /\ new[Len(new)] = [key |-> key, value |-> amount]
      /\ \A i \in 1 .. Len(new) - 1 :
           i \in 1 .. Len(self) /\ new[i] = self[i] /\ self[i].key < key
      /\ \A i \in 1 .. Len(self) : self[i].key < key => i <= Len(new) - 1
      /\ KeysIncrease(new)
  BY InsertedIs
<1> HIDE DEF new
<1>2. key \in Nat /\ new[Len(new)].key = key /\ new[Len(new)].value = amount
  BY <1>1, Limits
<1>3. Len(new) \in Nat /\ Len(new) \in 1 .. Len(new) /\ Len(self) \in Nat
  BY <1>1, SelfFields
<1>4. CASE x < key
  <2>1. PICK c \in 0 .. Len(self) : \A i \in 1 .. Len(self) : self[i].key <= x <=> i <= c
    BY UpperCut
  <2>2. c <= Len(new) - 1
    <3>1. CASE c = 0
      BY <1>3, <3>1
    <3>2. CASE c # 0
      <4>1. c \in 1 .. Len(self) /\ self[c].key <= x /\ self[c].key \in Nat
        BY <1>3, <2>1, <3>2, SelfFields
      <4>2. self[c].key < key
        BY <1>2, <1>4, <4>1
      <4> QED
        BY <1>1, <4>1, <4>2
    <3> QED
      BY <3>1, <3>2
  <2>3. c \in 0 .. Len(new)
    BY <1>3, <2>2
  <2>4. ASSUME NEW i \in 1 .. Len(new)
        PROVE  new[i].key <= x <=> i <= c
    <3>1. CASE i = Len(new)
      BY <1>2, <1>3, <1>4, <2>2, <3>1
    <3>2. CASE i # Len(new)
      <4>1. i \in 1 .. Len(new) - 1
        BY <1>3, <3>2
      <4> QED
        BY <1>1, <2>1, <4>1
    <3> QED
      BY <3>1, <3>2
  <2>5. UpperLookup(new, x) = ValueAtCut(new, c)
    BY <1>1, <2>3, <2>4, UpperLookupIs
  <2>6. UpperLookup(self, x) = ValueAtCut(self, c)
    BY <2>1, UpperLookupIs
  <2>7. ValueAtCut(new, c) = ValueAtCut(self, c)
    <3>1. c # 0 => c \in 1 .. Len(new) - 1
      BY <1>3, <2>2
    <3> QED
      BY <1>1, <3>1 DEF ValueAtCut
  <2> QED
    BY <1>4, <2>5, <2>6, <2>7 DEF new
<1>5. CASE ~(x < key)
  <2>1. new[Len(new)].key <= x
    BY <1>2, <1>5
  <2>2. UpperLookup(new, x) = Latest(new) /\ Latest(new) = ValueAtCut(new, Len(new))
    BY <1>1, <2>1, LastIsLatest
  <2>3. ValueAtCut(new, Len(new)) = amount
    BY <1>2, <1>3 DEF ValueAtCut
  <2> QED
    BY <1>5, <2>2, <2>3 DEF new
<1> QED
  BY <1>4, <1>5

-----------------------------------------------------------------------------
(* Traces.                                                                 *)

LEMMA EmptyOK == <<>> \in Seq(Checkpoint) /\ KeysIncrease(<<>>)
BY DEF KeysIncrease

\* Where there are checkpoints, the last one is the latest.
LEMMA LatestCheckpointIs ==
  ASSUME NEW self \in Seq(Checkpoint)
  PROVE  /\ self = <<>> =>
              /\ LatestCheckpoint(self)[2] = 0 /\ LatestCheckpoint(self)[3] = 0
              /\ Latest(self) = 0
         /\ self # <<>> =>
              /\ Len(self) \in 1 .. Len(self)
              /\ LatestCheckpoint(self)[2] = self[Len(self)].key
              /\ LatestCheckpoint(self)[3] = self[Len(self)].value
              /\ Latest(self) = self[Len(self)].value
<1>1. Len(self) \in Nat /\ (self = <<>> <=> Len(self) = 0)
  BY SelfFields
<1>3. CASE self = <<>>
  <2>1. LatestCheckpoint(self) = <<FALSE, 0, 0>>
    BY <1>3, Zenon DEF LatestCheckpoint
  <2>2. Latest(self) = 0
    BY <1>1, <1>3 DEF Latest, ValueBefore
  <2>3. <<FALSE, 0, 0>>[2] = 0 /\ <<FALSE, 0, 0>>[3] = 0
    OBVIOUS
  <2>4. LatestCheckpoint(self)[2] = 0 /\ LatestCheckpoint(self)[3] = 0
    BY <2>1, <2>3, Zenon
  <2> QED
    BY <1>3, <2>2, <2>4
<1>4. CASE self # <<>>
  <2>1. Len(self) - 1 \in 0 .. Len(self) - 1 /\ Len(self) - 1 + 1 = Len(self) /\ Len(self) # 0
    BY <1>1, <1>4
  <2>2. UnsafeAccess(self, Len(self) - 1) = self[Len(self)]
    BY <2>1, SelfFields
  <2>3. LatestCheckpoint(self) = <<TRUE, self[Len(self)].key, self[Len(self)].value>>
    BY <1>4, <2>2, Zenon DEF LatestCheckpoint
  <2>4. /\ LatestCheckpoint(self)[2] = self[Len(self)].key
        /\ LatestCheckpoint(self)[3] = self[Len(self)].value
    <3> DEFINE k == self[Len(self)].key
               v == self[Len(self)].value
    <3>1. LatestCheckpoint(self) = <<TRUE, k, v>>
      BY <2>3
    <3> HIDE DEF k, v
    <3>2. <<TRUE, k, v>>[2] = k /\ <<TRUE, k, v>>[3] = v
      OBVIOUS
    <3>3. LatestCheckpoint(self)[2] = k /\ LatestCheckpoint(self)[3] = v
      BY <3>1, <3>2, Zenon
    <3> QED
      BY <3>3 DEF k, v
  <2>5. Latest(self) = self[Len(self)].value
    BY <2>1, <2>2 DEF Latest, ValueBefore
  <2>6. Len(self) \in 1 .. Len(self)
    BY <1>1, <2>1
  <2> QED
    BY <1>4, <2>4, <2>5, <2>6
<1> QED
  BY <1>3, <1>4

LEMMA CanInsertMeans ==
  ASSUME NEW self \in Seq(Checkpoint), NEW key, CanInsert(self, key)
  PROVE  self # <<>> => self[Len(self)].key <= key
<1>1. SUFFICES ASSUME self # <<>> PROVE self[Len(self)].key <= key
  OBVIOUS
<1>2. Len(self) - 1 \in 0 .. Len(self) - 1 /\ Len(self) - 1 + 1 = Len(self)
  BY <1>1, SelfFields
<1>3. UnsafeAccess(self, Len(self) - 1) = self[Len(self)]
  BY <1>2, SelfFields
<1> QED
  BY <1>1, <1>3 DEF CanInsert

LEMMA TraceStepOK ==
  ASSUME TraceOK, [TraceNext]_traceVars
  PROVE  TraceOK'
<1>1. CASE UNCHANGED traceVars
  BY <1>1 DEF TraceOK, traceVars, KeysIncrease
<1>2. ASSUME NEW key \in 0 .. MaxKey, NEW amount \in 0 .. MaxValue, PushKey(key, amount)
      PROVE  TraceOK'
  <2>1. trace \in Seq(Checkpoint) /\ KeysIncrease(trace) /\ CanInsert(trace, key)
    BY <1>2 DEF TraceOK, PushKey
  <2>2. /\ Inserted(trace, key, amount) \in Seq(Checkpoint)
        /\ KeysIncrease(Inserted(trace, key, amount))
    BY <2>1, InsertedIs
  <2>3. Latest(trace) \in 0 .. MaxValue
    <3>1. key \in Nat
      BY Limits
    <3> QED
      BY <2>1, <3>1, CanInsertMeans, LastIsLatest
  <2>4. trace' = Inserted(trace, key, amount) /\ traceReturned' = <<Latest(trace), amount>>
    BY <1>2 DEF PushKey, InsertReturns
  <2> QED
    BY <2>2, <2>3, <2>4 DEF TraceOK, KeysIncrease
<1> QED
  BY <1>1, <1>2 DEF TraceNext

LEMMA TraceInvariant == TraceSpec => []TraceOK
<1>1. TraceInit => TraceOK
  BY EmptyOK, Limits DEF TraceInit, TraceOK
<1> QED
  BY <1>1, TraceStepOK, PTL DEF TraceSpec

\* The lookups of a trace, the one among recent checkpoints with its integer
\* square root included, find for every key what a scan finds: the binary
\* searches and _insert of Checkpoints.js, for keys and values of any length.
THEOREM SearchesFindWhatIsThere == TraceSpec => []SearchesAreExact
<1>1. ASSUME TraceOK
      PROVE  SearchesAreExact
  <2>1. trace \in Seq(Checkpoint) /\ KeysIncrease(trace)
    BY <1>1 DEF TraceOK
  <2>2. ASSUME NEW key \in 0 .. MaxKey
        PROVE  /\ UpperLookup(trace, key) = ScannedUpper(trace, key)
               /\ UpperLookupRecent(trace, key) = ScannedUpper(trace, key)
               /\ LowerLookup(trace, key) = ScannedLower(trace, key)
    <3>1. key \in Nat
      BY Limits
    <3> QED
      BY <2>1, <3>1, SearchesFindTheKey
  <2>3. Latest(trace) = UpperLookup(trace, MaxKey)
    <3>1. trace # <<>> => trace[Len(trace)].key <= MaxKey
      BY <2>1, LatestCheckpointIs, SelfFields
    <3> QED
      BY <2>1, <3>1, Limits, LastIsLatest
  <2>4. LatestCheckpoint(trace)[3] = Latest(trace)
    BY <2>1, LatestCheckpointIs
  <2> QED
    BY <1>1, <2>2, <2>3, <2>4 DEF SearchesAreExact, LookupsFindTheKey
<1> QED
  BY <1>1, TraceInvariant, PTL

\* A push to a trace is a write to a timeline: what lookups say of earlier keys
\* stays, later ones see the new value, and what push returns is what they saw.
LEMMA PushIsWrite ==
  ASSUME NEW self \in Seq(Checkpoint), KeysIncrease(self),
         NEW key \in 0 .. MaxKey, NEW amount \in 0 .. MaxValue, CanInsert(self, key)
  PROVE  LET seen == [x \in 0 .. MaxKey |-> UpperLookup(self, x)]
             new == Inserted(self, key, amount)
         IN  /\ [x \in 0 .. MaxKey |-> UpperLookup(new, x)] =
                  [x \in 0 .. MaxKey |-> IF x < key THEN seen[x] ELSE amount]
             /\ InsertReturns(self, key, amount) = <<seen[key], amount>>
             /\ LatestCheckpoint(new)[2] = key
<1> DEFINE seen == [x \in 0 .. MaxKey |-> UpperLookup(self, x)]
           new == Inserted(self, key, amount)
<1>1. ASSUME NEW x \in 0 .. MaxKey
      PROVE  UpperLookup(new, x) = IF x < key THEN seen[x] ELSE amount
  <2>1. x \in Nat
    BY Limits
  <2> QED
    BY <2>1, LookupAfterInsertion
<1>2. InsertReturns(self, key, amount) = <<seen[key], amount>>
  <2>1. key \in Nat
    BY Limits
  <2>2. UpperLookup(self, key) = Latest(self)
    BY <2>1, CanInsertMeans, LastIsLatest
  <2> QED
    BY <2>2 DEF InsertReturns
<1>3. LatestCheckpoint(new)[2] = key
  <2>1. new \in Seq(Checkpoint) /\ new # <<>> /\ new[Len(new)] = [key |-> key, value |-> amount]
    BY InsertedIs
  <2> HIDE DEF new
  <2> QED
    BY <2>1, LatestCheckpointIs
<1> QED
  BY <1>1, <1>2, <1>3

LEMMA NothingSeen == \A x \in Nat : UpperLookup(<<>>, x) = 0
<1> SUFFICES ASSUME NEW x \in Nat PROVE UpperLookup(<<>>, x) = 0
  OBVIOUS
<1> DEFINE self == <<>>
<1>1. self \in Seq(Checkpoint) /\ KeysIncrease(self) /\ self = <<>>
  BY EmptyOK
<1> HIDE DEF self
<1>2. Latest(self) = 0
  BY <1>1, LatestCheckpointIs
<1>3. UpperLookup(self, x) = Latest(self)
  BY <1>1, LastIsLatest
<1> QED
  BY <1>2, <1>3 DEF self

\* Whatever is pushed to a trace, its past is fixed.
THEOREM TracesKeepThePast == TraceSpec => TraceTimelineSpec
<1>1. TraceInit => TraceLine!Init
  <2>1. SUFFICES ASSUME TraceInit PROVE TraceLine!Init
    OBVIOUS
  <2>2. \A x \in 0 .. MaxKey : UpperLookup(trace, x) = 0
    BY <2>1, NothingSeen, Limits DEF TraceInit
  <2>3. LatestCheckpoint(trace)[2] = 0
    BY <2>1, EmptyOK, LatestCheckpointIs DEF TraceInit
  <2> QED
    BY <2>1, <2>2, <2>3 DEF TraceInit, TraceLine!Init
<1>2. ASSUME TraceOK, [TraceNext]_traceVars
      PROVE  [TraceLine!Next]_(TraceLine!vars)
  <2>1. CASE UNCHANGED traceVars
    BY <2>1 DEF traceVars, TraceLine!vars
  <2>2. ASSUME NEW key \in 0 .. MaxKey, NEW amount \in 0 .. MaxValue, PushKey(key, amount)
        PROVE  TraceLine!Next
    <3>1. trace \in Seq(Checkpoint) /\ KeysIncrease(trace) /\ CanInsert(trace, key)
      BY <1>2, <2>2 DEF TraceOK, PushKey
    <3>2. /\ trace' = Inserted(trace, key, amount)
          /\ traceReturned' = InsertReturns(trace, key, amount)
      BY <2>2 DEF PushKey
    <3>3. key >= LatestCheckpoint(trace)[2]
      <4>1. key \in Nat
        BY Limits
      <4>2. trace # <<>> => trace[Len(trace)].key <= key /\ trace[Len(trace)].key \in Nat
        BY <3>1, CanInsertMeans, LatestCheckpointIs, SelfFields
      <4> QED
        BY <3>1, <4>1, <4>2, LatestCheckpointIs
    <3>4. TraceLine!Write(key, amount)
      BY <3>1, <3>2, <3>3, PushIsWrite DEF TraceLine!Write
    <3> QED
      BY <3>4 DEF TraceLine!Next
  <2> QED
    BY <1>2, <2>1, <2>2 DEF TraceNext
<1> QED
  BY <1>1, <1>2, TraceInvariant, PTL DEF TraceSpec, TraceTimelineSpec, TraceLine!Spec

-----------------------------------------------------------------------------
(* Casts.                                                                  *)

LEMMA Remainder ==
  ASSUME NEW d \in Nat, NEW v \in Nat, v < d
  PROVE  v % d = v
OBVIOUS

LEMMA UintFits ==
  ASSUME NEW l \in Nat, NEW v \in Nat, v <= TypeMax(Uint(l))
  PROVE  Cast(Uint(l), v) = v
<1>1. PICK p \in Nat : p = 2 ^ l
  BY PowerPositive
<1>2. TypeMax(Uint(l)) = p - 1 /\ Uint(l).length = l
  BY <1>1 DEF TypeMax, Uint
<1>3. v % p = v
  BY <1>2, Remainder
<1>4. Cast(Uint(l), v) = IF v % p > TypeMax(Uint(l)) THEN (v % p) - p ELSE v % p
  BY <1>1, <1>2 DEF Cast
<1> QED
  BY <1>2, <1>3, <1>4

-----------------------------------------------------------------------------
(* Histories.                                                              *)

LEMMA HistoryKeys ==
  ASSUME HistoryOK
  PROVE  /\ history \in Seq(Checkpoint) /\ KeysIncrease(history)
         /\ block \in Nat /\ Len(history) \in Nat
         /\ history # <<>> => history[Len(history)].key <= block
<1>1. history \in Seq(Checkpoint) /\ block \in Nat
  BY MaxBlockAssumption DEF HistoryOK
<1>2. Len(history) \in Nat /\ (history = <<>> <=> Len(history) = 0)
  BY <1>1, SelfFields
<1>3. ASSUME NEW i \in 1 .. Len(history) - 1
      PROVE  history[i].key < history[i + 1].key
  <2>1. i + 1 \in 1 .. Len(history) /\ i + 1 > 1 /\ i + 1 - 1 = i
    BY <1>2
  <2>2. history[i + 1 - 1].key < history[i + 1].key
    BY <2>1 DEF HistoryOK
  <2> QED
    BY <2>1, <2>2
<1>4. history # <<>> => history[Len(history)].key <= block
  BY <1>2 DEF HistoryOK
<1> QED
  BY <1>1, <1>2, <1>3, <1>4 DEF KeysIncrease

\* A push that does not revert has lost nothing of block number and value.
LEMMA PushAtBlockIs ==
  ASSUME HistoryOK, NEW amount \in Nat, PushAtBlock(amount)
  PROVE  /\ amount \in 0 .. MaxValue /\ block \in 0 .. MaxKey
         /\ CanInsert(history, block)
         /\ history' = Inserted(history, block, amount)
         /\ historyReturned' = InsertReturns(history, block, amount)
         /\ block' = block
<1>1. KeyLength \in Nat /\ ValueLength \in Nat
  BY LengthsAssumption
<1>2. block \in Nat
  BY HistoryKeys
<1>3. block <= MaxKey /\ Cast(Uint(KeyLength), block) = block
  BY <1>1, <1>2, UintFits DEF PushAtBlock, CanDownCastToUint, MaxKey
<1>4. amount <= MaxValue /\ Cast(Uint(ValueLength), amount) = amount
  BY <1>1, UintFits DEF PushAtBlock, CanDownCastToUint, MaxValue
<1>5. amount \in 0 .. MaxValue /\ block \in 0 .. MaxKey
  BY <1>2, <1>3, <1>4, Limits
<1> QED
  BY <1>3, <1>4, <1>5 DEF PushAtBlock

LEMMA LatestIsValue ==
  ASSUME HistoryOK
  PROVE  Latest(history) \in 0 .. MaxValue /\ Latest(history) \in Nat
<1>1. Latest(history) \in 0 .. MaxValue
  BY HistoryKeys, LastIsLatest
<1> QED
  BY <1>1, Limits

\* Every push is a push of a number at the present block.
LEMMA PushesAreAtBlock ==
  ASSUME HistoryOK, HistoryNext, ~MineBlock
  PROVE  \E amount \in Nat : PushAtBlock(amount)
<1>1. Latest(history) \in Nat /\ MaxValue + 1 \in Nat
  BY LatestIsValue, Limits
<1>2. ASSUME NEW amount \in 0 .. MaxValue + 1,
             PushAtBlock(amount) \/ PushAdded(amount) \/ PushSubtracted(amount)
      PROVE  \E v \in Nat : PushAtBlock(v)
  <2>1. amount \in Nat
    BY <1>1
  <2>2. CASE PushAtBlock(amount)
    BY <2>1, <2>2
  <2>3. CASE PushAdded(amount)
    <3>1. Latest(history) + amount \in Nat
      BY <1>1, <2>1
    <3> QED
      BY <2>3, <3>1 DEF PushAdded
  <2>4. CASE PushSubtracted(amount)
    <3>1. Latest(history) - amount \in Nat
      BY <1>1, <2>1, <2>4 DEF PushSubtracted
    <3> QED
      BY <2>4, <3>1 DEF PushSubtracted
  <2> QED
    BY <1>2, <2>2, <2>3, <2>4
<1> QED
  BY <1>2 DEF HistoryNext

LEMMA HistoryStepOK ==
  ASSUME HistoryOK, [HistoryNext]_historyVars
  PROVE  HistoryOK'
<1>1. CASE UNCHANGED historyVars
  BY <1>1 DEF HistoryOK, historyVars
<1>2. CASE MineBlock
  <2>1. block' = block + 1 /\ block < MaxBlock /\ UNCHANGED <<history, historyReturned>>
    BY <1>2 DEF MineBlock
  <2>2. block' \in 0 .. MaxBlock /\ block \in Nat
    BY <2>1, HistoryKeys, MaxBlockAssumption
  <2>3. \A i \in 1 .. Len(history) : history[i].key \in Nat /\ history[i].key <= block
    BY HistoryKeys, SelfFields DEF HistoryOK
  <2>4. \A i \in 1 .. Len(history) : history[i].key <= block'
    BY <2>1, <2>2, <2>3
  <2> QED
    BY <2>1, <2>2, <2>4 DEF HistoryOK
<1>3. ASSUME NEW amount \in Nat, PushAtBlock(amount)
      PROVE  HistoryOK'
  <2>1. /\ amount \in 0 .. MaxValue /\ block \in 0 .. MaxKey
        /\ CanInsert(history, block)
        /\ history' = Inserted(history, block, amount)
        /\ historyReturned' = <<Latest(history), amount>>
        /\ block' = block
    BY <1>3, PushAtBlockIs DEF InsertReturns
  <2>2. history \in Seq(Checkpoint) /\ KeysIncrease(history) /\ block \in Nat
    BY HistoryKeys
  <2>3. PICK new : new = Inserted(history, block, amount)
    OBVIOUS
  <2>4. /\ new \in Seq(Checkpoint) /\ KeysIncrease(new)
        /\ new # <<>> /\ new[Len(new)].key = block
        /\ \A i \in 1 .. Len(new) - 1 :
             i \in 1 .. Len(history) /\ new[i] = history[i] /\ history[i].key < block
    <3>1. amount \in 0 .. MaxValue /\ block \in 0 .. MaxKey /\ CanInsert(history, block)
      BY <2>1
    <3>2. /\ new \in Seq(Checkpoint) /\ KeysIncrease(new)
          /\ new # <<>> /\ new[Len(new)] = [key |-> block, value |-> amount]
          /\ \A i \in 1 .. Len(new) - 1 :
               i \in 1 .. Len(history) /\ new[i] = history[i] /\ history[i].key < block
      BY <2>2, <2>3, <3>1, InsertedIs
    <3> QED
      BY <3>2
  <2>5. Len(new) \in Nat /\ \A i \in 1 .. Len(new) : new[i].key \in Nat
    BY <2>4, SelfFields
  <2>6. ASSUME NEW i \in 1 .. Len(new)
        PROVE  new[i].key <= block /\ (i > 1 => new[i - 1].key < new[i].key)
    <3>1. new[i].key <= block
      <4>1. i = Len(new) \/ i \in 1 .. Len(new) - 1
        BY <2>5
      <4> QED
        BY <2>2, <2>4, <2>5, <4>1
    <3>2. i > 1 => new[i - 1].key < new[i].key
      <4>1. i > 1 => i - 1 \in 1 .. Len(new) - 1 /\ i - 1 + 1 = i
        BY <2>5
      <4> QED
        BY <2>4, <4>1 DEF KeysIncrease
    <3> QED
      BY <3>1, <3>2
  <2>7. historyReturned' \in (0 .. MaxValue) \X (0 .. MaxValue)
    BY <2>1, LatestIsValue
  <2>8. block' \in 0 .. MaxBlock
    BY <2>1 DEF HistoryOK
  <2>9. history' = new
    BY <2>1, <2>3
  <2> QED
    BY <2>1, <2>4, <2>6, <2>7, <2>8, <2>9 DEF HistoryOK
<1> QED
  BY <1>1, <1>2, <1>3, PushesAreAtBlock

LEMMA HistoryInvariant == HistorySpec => []HistoryOK
<1>1. HistoryInit => HistoryOK
  BY Limits, MaxBlockAssumption DEF HistoryInit, HistoryOK
<1> QED
  BY <1>1, HistoryStepOK, PTL DEF HistorySpec

\* For every block that is over, getAtBlock and getAtProbablyRecentBlock give
\* the value at its end, for keys and values of any length: block numbers that
\* outgrow the keys revert in push and never land in the past.
THEOREM HistoriesAnswer == HistorySpec => []HistoryIsExact
<1>1. ASSUME HistoryOK
      PROVE  HistoryIsExact
  <2>1. history \in Seq(Checkpoint) /\ KeysIncrease(history)
    BY <1>1, HistoryKeys
  <2>2. ASSUME NEW b \in 0 .. MaxBlock, CanGetAtBlock(b)
        PROVE  /\ GetAtBlock(b) = ScannedUpper(history, b)
               /\ GetAtProbablyRecentBlock(b) = GetAtBlock(b)
    <3>1. b \in Nat
      BY MaxBlockAssumption
    <3>2. Cast(Uint(KeyLength), b) = b
      BY <2>2, <3>1, LengthsAssumption, UintFits DEF CanGetAtBlock, CanDownCastToUint
    <3> QED
      BY <2>1, <3>1, <3>2, SearchesFindTheKey DEF GetAtBlock, GetAtProbablyRecentBlock
  <2>3. PastBlocksAnswer
    BY <2>2 DEF PastBlocksAnswer, ScannedUpper, UpTo
  <2> QED
    BY <1>1, <2>3 DEF HistoryIsExact
<1> QED
  BY <1>1, HistoryInvariant, PTL

\* What a history says of a block that is over stays as it is.
THEOREM HistoriesKeepThePast == HistorySpec => HistoryTimelineSpec
<1>1. HistoryInit => HistoryLine!Init
  <2>1. SUFFICES ASSUME HistoryInit PROVE HistoryLine!Init
    OBVIOUS
  <2>2. \A x \in 0 .. MaxKey : UpperLookup(history, x) = 0
    BY <2>1, NothingSeen, Limits DEF HistoryInit
  <2> QED
    BY <2>1, <2>2 DEF HistoryInit, HistoryLine!Init
<1>2. ASSUME HistoryOK, [HistoryNext]_historyVars
      PROVE  [HistoryLine!Next]_(HistoryLine!vars)
  <2>1. CASE UNCHANGED historyVars
    BY <2>1 DEF historyVars, HistoryLine!vars
  <2>2. CASE MineBlock
    <3>1. block' > block /\ UNCHANGED <<history, historyReturned>>
      BY <1>2, <2>2, HistoryKeys DEF MineBlock
    <3>2. HistoryLine!Advance
      BY <3>1 DEF HistoryLine!Advance
    <3> QED
      BY <3>2 DEF HistoryLine!Next
  <2>3. ASSUME NEW amount \in Nat, PushAtBlock(amount)
        PROVE  HistoryLine!Next
    <3>1. /\ amount \in 0 .. MaxValue /\ block \in 0 .. MaxKey
          /\ CanInsert(history, block)
          /\ history' = Inserted(history, block, amount)
          /\ historyReturned' = InsertReturns(history, block, amount)
          /\ block' = block
      BY <1>2, <2>3, PushAtBlockIs
    <3>2. history \in Seq(Checkpoint) /\ KeysIncrease(history) /\ block \in Nat
      BY <1>2, HistoryKeys
    <3>3. HistoryLine!Write(block, amount)
      BY <3>1, <3>2, PushIsWrite DEF HistoryLine!Write
    <3> QED
      BY <3>1, <3>3 DEF HistoryLine!Next
  <2> QED
    BY <1>2, <2>1, <2>2, <2>3, PushesAreAtBlock
<1> QED
  BY <1>1, <1>2, HistoryInvariant, PTL DEF HistorySpec, HistoryTimelineSpec, HistoryLine!Spec

\* PastIsFixed of whichever contract a behaviour of the libraries follows: the
\* others stay as they are, so each of them keeps to its own specification.
THEOREM ThePastIsFixed == LibrariesSpec => PastIsFixed
<1>1. LibrariesInit => TraceInit /\ HistoryInit
  BY DEF LibrariesInit
<1>2. [LibrariesNext]_<<subject, vars, castVars, traceVars, historyVars>>
        => [TraceNext]_traceVars /\ [HistoryNext]_historyVars
  BY Zenon DEF LibrariesNext
<1>3. LibrariesSpec => TraceSpec /\ HistorySpec
  BY <1>1, <1>2, PTL DEF LibrariesSpec, TraceSpec, HistorySpec
<1> QED
  BY <1>3, TracesKeepThePast, HistoriesKeepThePast DEF PastIsFixed

-----------------------------------------------------------------------------
(* The casts.  A type of length l holds 2^l integers; a signed type of     *)
(* length l = k + 1 holds as many below zero as from zero on.              *)

LEMMA UintHolds ==
  ASSUME NEW l \in Nat
  PROVE  IntegersOf(Uint(l)) = 0 .. 2 ^ l - 1 /\ TypeMax(Uint(l)) = 2 ^ l - 1 /\ 2 ^ l \in Nat
BY PowerPositive DEF IntegersOf, TypeMin, TypeMax, Uint

LEMMA SintHolds ==
  ASSUME NEW l \in Nat \ {0}
  PROVE  \E h \in Nat :
           /\ h > 0 /\ 2 ^ l = 2 * h
           /\ TypeMax(Sint(l)) = h - 1 /\ IntegersOf(Sint(l)) = -h .. h - 1
<1>1. PICK k \in Nat : k = l - 1 /\ l = k + 1
  OBVIOUS
<1>2. PICK h \in Nat : h = 2 ^ k /\ h > 0
  BY PowerPositive
<1>3. 2 ^ l = 2 * h
  BY <1>1, <1>2, PowerDoubles
<1>4. Sint(l).signed = TRUE /\ Sint(l).length = l
  BY DEF Sint
<1>5. 2 ^ (l - 1) = h
  BY <1>1, <1>2
<1>6. TypeMin(Sint(l)) = -h /\ TypeMax(Sint(l)) = h - 1
  BY <1>4, <1>5 DEF TypeMin, TypeMax
<1> QED
  BY <1>2, <1>3, <1>6 DEF IntegersOf

LEMMA NegativeRemainder ==
  ASSUME NEW d \in Nat, NEW v \in Int, v < 0, v >= -d
  PROVE  v % d = v + d
OBVIOUS

LEMMA RemainderWithin ==
  ASSUME NEW d \in Nat, d > 0, NEW v \in Int
  PROVE  v % d \in 0 .. d - 1
OBVIOUS

\* Solidity's cast gives an integer of the type, and the same integer where the
\* type can hold it.
LEMMA CastToUint ==
  ASSUME NEW l \in Nat, NEW v \in Int
  PROVE  /\ Cast(Uint(l), v) \in IntegersOf(Uint(l))
         /\ v \in IntegersOf(Uint(l)) => Cast(Uint(l), v) = v
<1>1. PICK p \in Nat : p = 2 ^ l /\ p > 0
  BY PowerPositive
<1>2. TypeMax(Uint(l)) = p - 1 /\ IntegersOf(Uint(l)) = 0 .. p - 1 /\ Uint(l).length = l
  BY <1>1, UintHolds DEF Uint
<1>3. Cast(Uint(l), v) = IF v % p > p - 1 THEN (v % p) - p ELSE v % p
  BY <1>1, <1>2 DEF Cast
<1>4. v % p \in 0 .. p - 1
  BY <1>1, RemainderWithin
<1>5. v \in 0 .. p - 1 => v % p = v
  BY Remainder
<1> QED
  BY <1>2, <1>3, <1>4, <1>5

LEMMA CastToSint ==
  ASSUME NEW l \in Nat \ {0}, NEW v \in Int
  PROVE  /\ Cast(Sint(l), v) \in IntegersOf(Sint(l))
         /\ v \in IntegersOf(Sint(l)) => Cast(Sint(l), v) = v
<1>1. PICK h \in Nat :
        /\ h > 0 /\ 2 ^ l = 2 * h
        /\ TypeMax(Sint(l)) = h - 1 /\ IntegersOf(Sint(l)) = -h .. h - 1
  BY SintHolds
<1>2. PICK p \in Nat : p = 2 * h
  OBVIOUS
<1>3. Sint(l).length = l
  BY DEF Sint
<1>4. Cast(Sint(l), v) = IF v % p > h - 1 THEN (v % p) - p ELSE v % p
  BY <1>1, <1>2, <1>3 DEF Cast
<1>5. v % p \in 0 .. p - 1
  BY <1>1, <1>2, RemainderWithin
<1>6. v \in 0 .. h - 1 => v % p = v
  BY <1>2, Remainder
<1>7. v \in -h .. -1 => v % p = v + p
  BY <1>2, NegativeRemainder
<1>8. Cast(Sint(l), v) \in -h .. h - 1
  BY <1>1, <1>2, <1>4, <1>5
<1>9. v \in -h .. h - 1 => Cast(Sint(l), v) = v
  BY <1>1, <1>2, <1>4, <1>6, <1>7
<1> QED
  BY <1>1, <1>8, <1>9

\* Each function of SafeCast.js refuses exactly what its target cannot hold.
LEMMA GuardsOfCasts ==
  ASSUME NEW l \in Nat \ {0}, NEW v \in Int
  PROVE  /\ v >= 0 => (CanDownCastToUint(l, v) <=> v \in IntegersOf(Uint(l)))
         /\ CanDownCastToInt(l, v) <=> v \in IntegersOf(Sint(l))
         /\ v >= 0 => (CanCastToInt(l, v) <=> v \in IntegersOf(Sint(l)))
         /\ v \in IntegersOf(Sint(l)) => (CanCastToUint(l, v) <=> v \in IntegersOf(Uint(l)))
<1>1. PICK h \in Nat :
        /\ h > 0 /\ 2 ^ l = 2 * h
        /\ TypeMax(Sint(l)) = h - 1 /\ IntegersOf(Sint(l)) = -h .. h - 1
  BY SintHolds
<1>2. /\ IntegersOf(Uint(l)) = 0 .. 2 * h - 1
      /\ TypeMax(Uint(l)) = 2 * h - 1
  BY <1>1, UintHolds
<1>3. v >= 0 => (CanDownCastToUint(l, v) <=> v \in IntegersOf(Uint(l)))
  BY <1>1, <1>2 DEF CanDownCastToUint
<1>4. CanDownCastToInt(l, v) <=> v \in IntegersOf(Sint(l))
  BY CastToSint DEF CanDownCastToInt
<1>5. v >= 0 => (CanCastToInt(l, v) <=> v \in IntegersOf(Sint(l)))
  <2>1. h - 1 \in Int /\ h - 1 \in IntegersOf(Uint(l))
    BY <1>1, <1>2
  <2>2. Cast(Uint(l), h - 1) = h - 1
    BY <2>1, CastToUint
  <2> QED
    BY <1>1, <2>2 DEF CanCastToInt
<1>6. v \in IntegersOf(Sint(l)) => (CanCastToUint(l, v) <=> v \in IntegersOf(Uint(l)))
  BY <1>1, <1>2 DEF CanCastToUint
<1> QED
  BY <1>3, <1>4, <1>5, <1>6

\* The inductive invariant of a chain of casts: the integer is the one it began
\* with, and the type that holds it can hold it.
CastOK ==
  /\ NumberIsKept
  /\ OnlyMisfitsRevert
  /\ \E l \in 1 .. WordLength : type = Uint(l) \/ type = Sint(l)
  /\ value \in IntegersOf(type)

LEMMA KindHolds ==
  ASSUME NEW l \in Nat \ {0}, NEW kind \in {Uint(l), Sint(l)}
  PROVE  /\ IntegersOf(kind) \subseteq Int
         /\ \A v \in IntegersOf(kind) : Cast(kind, v) = v
<1>1. IntegersOf(kind) \subseteq Int
  <2>1. CASE kind = Uint(l)
    BY <2>1, UintHolds
  <2>2. CASE kind = Sint(l)
    BY <2>2, SintHolds
  <2> QED
    BY <2>1, <2>2
<1> QED
  BY <1>1, CastToUint, CastToSint

LEMMA CastInitOK == CastInit => CastOK
<1>1. WordLength \in 1 .. WordLength
  BY LengthAssumption
<1> QED
  BY <1>1 DEF CastInit, CastOK, NumberIsKept, OnlyMisfitsRevert, IntegersOf

\* One call, whether it reverts or not.
LEMMA OneCallOK ==
  ASSUME CastOK, NEW l \in 1 .. WordLength, NEW kind \in {Uint(l), Sint(l)},
         NEW can \in BOOLEAN, can <=> value \in IntegersOf(kind), Call(kind, can)
  PROVE  CastOK'
<1>1. l \in Nat \ {0}
  BY LengthAssumption
<1>2. number' = number /\ asked' = kind /\ value = number
  BY DEF Call, CastOK, NumberIsKept
<1>3. CASE can
  <2>1. type' = kind /\ value' = value
    BY <1>1, <1>3, KindHolds DEF Call
  <2>2. reverted' <=> FALSE
    BY <1>3, Zenon DEF Call
  <2>3. type' = Uint(l) \/ type' = Sint(l)
    BY <2>1
  <2>4. NumberIsKept' /\ value' \in IntegersOf(type')
    BY <1>2, <1>3, <2>1 DEF NumberIsKept
  <2>5. number' \in IntegersOf(asked')
    BY <1>2, <1>3
  <2>6. OnlyMisfitsRevert'
    BY <2>2, <2>5, Zenon DEF OnlyMisfitsRevert, IntegersOf, TypeMin, TypeMax
  <2> QED
    BY <2>3, <2>4, <2>6 DEF CastOK
<1>4. CASE ~can
  <2>1. type' = type /\ value' = value
    BY <1>4 DEF Call
  <2>2. reverted' <=> TRUE
    BY <1>4, Zenon DEF Call
  <2>3. number' \notin IntegersOf(asked')
    BY <1>2, <1>4
  <2>4. OnlyMisfitsRevert'
    BY <2>2, <2>3, Zenon DEF OnlyMisfitsRevert, IntegersOf, TypeMin, TypeMax
  <2> QED
    BY <1>2, <2>1, <2>4 DEF CastOK, NumberIsKept
<1> QED
  BY <1>3, <1>4

LEMMA WideningOK == ASSUME CastOK, Widen PROVE CastOK'
<1>1. PICK l \in 1 .. WordLength : type = Uint(l) \/ type = Sint(l)
  BY DEF CastOK
<1>2. /\ l \in Nat \ {0} /\ WordLength \in Nat \ {0} /\ l <= WordLength
      /\ WordLength \in 1 .. WordLength
  BY LengthAssumption
<1>3. 2 ^ l \in Nat /\ 2 ^ WordLength \in Nat /\ 2 ^ l <= 2 ^ WordLength
  BY <1>2, PowerPositive, PowerGrows
<1>4. value' = value /\ number' = number /\ value = number /\ asked' = type'
  BY DEF Widen, CastOK, NumberIsKept
<1>5. type' \in {Uint(WordLength), Sint(WordLength)} /\ value \in IntegersOf(type')
  <2>1. CASE type = Uint(l)
    <3>1. type' = Uint(WordLength)
      BY <2>1 DEF Widen, Uint
    <3>2. value \in 0 .. 2 ^ l - 1
      BY <1>2, <2>1, UintHolds DEF CastOK
    <3>3. value \in IntegersOf(Uint(WordLength))
      BY <1>2, <1>3, <3>2, UintHolds
    <3> QED
      BY <3>1, <3>3
  <2>2. CASE type = Sint(l)
    <3>1. type' = Sint(WordLength)
      BY <2>2 DEF Widen, Sint
    <3>2. PICK h \in Nat : h > 0 /\ 2 ^ l = 2 * h /\ IntegersOf(Sint(l)) = -h .. h - 1
      BY <1>2, SintHolds
    <3>3. PICK w \in Nat :
            w > 0 /\ 2 ^ WordLength = 2 * w /\ IntegersOf(Sint(WordLength)) = -w .. w - 1
      BY <1>2, SintHolds
    <3>4. value \in -h .. h - 1
      BY <2>2, <3>2 DEF CastOK
    <3>5. h <= w
      BY <1>3, <3>2, <3>3
    <3>6. value \in IntegersOf(Sint(WordLength))
      BY <3>3, <3>4, <3>5
    <3> QED
      BY <3>1, <3>6
  <2> QED
    BY <1>1, <2>1, <2>2
<1>6. number' \in IntegersOf(asked') /\ value' \in IntegersOf(type')
  BY <1>4, <1>5
<1>7. OnlyMisfitsRevert'
  <2>1. reverted' <=> FALSE
    BY Zenon DEF Widen
  <2> QED
    BY <1>6, <2>1, Zenon DEF OnlyMisfitsRevert, IntegersOf, TypeMin, TypeMax
<1> QED
  BY <1>2, <1>4, <1>5, <1>6, <1>7 DEF CastOK, NumberIsKept

\* Where a function may be called, its guard holds exactly for the integers that
\* the type it returns can hold.
GuardsAreExact ==
  /\ \A length \in Lengths :
       /\ type = Uint(WordLength) =>
            (CanDownCastToUint(length, value) <=> value \in IntegersOf(Uint(length)))
       /\ type = Sint(WordLength) =>
            (CanDownCastToInt(length, value) <=> value \in IntegersOf(Sint(length)))
  /\ type = Uint(WordLength) =>
       (CanCastToInt(WordLength, value) <=> value \in IntegersOf(Sint(WordLength)))
  /\ type = Sint(WordLength) =>
       (CanCastToUint(WordLength, value) <=> value \in IntegersOf(Uint(WordLength)))

LEMMA ChainGuards == CastOK => GuardsAreExact
<1> SUFFICES ASSUME CastOK
             PROVE  GuardsAreExact
  OBVIOUS
<1>1. WordLength \in Nat \ {0} /\ \A length \in Lengths : length \in Nat \ {0}
  BY LengthAssumption DEF Lengths
<1>2. type = Uint(WordLength) => value \in Int /\ value >= 0
  BY <1>1, UintHolds DEF CastOK
<1>3. type = Sint(WordLength) => value \in Int /\ value \in IntegersOf(Sint(WordLength))
  BY <1>1, SintHolds DEF CastOK
<1> QED
  BY <1>1, <1>2, <1>3, GuardsOfCasts DEF GuardsAreExact

LEMMA CastStepOK == CastOK /\ [CastNext]_castVars => CastOK'
<1> SUFFICES ASSUME CastOK, [CastNext]_castVars
             PROVE  CastOK'
  OBVIOUS
<1>1. /\ WordLength \in 1 .. WordLength
      /\ \A length \in Lengths : length \in 1 .. WordLength
  BY LengthAssumption DEF Lengths
<1>2. GuardsAreExact
  BY ChainGuards
<1>3. ASSUME NEW length \in Lengths, ToUintDownCast(length)
      PROVE  CastOK'
  <2>1. /\ CanDownCastToUint(length, value) \in BOOLEAN
        /\ CanDownCastToUint(length, value) <=> value \in IntegersOf(Uint(length))
        /\ Call(Uint(length), CanDownCastToUint(length, value))
    BY <1>2, <1>3 DEF GuardsAreExact, ToUintDownCast, CanDownCastToUint
  <2> QED
    BY <1>1, <2>1, OneCallOK
<1>4. ASSUME NEW length \in Lengths, ToIntDownCast(length)
      PROVE  CastOK'
  <2>1. /\ CanDownCastToInt(length, value) \in BOOLEAN
        /\ CanDownCastToInt(length, value) <=> value \in IntegersOf(Sint(length))
        /\ Call(Sint(length), CanDownCastToInt(length, value))
    BY <1>2, <1>4 DEF GuardsAreExact, ToIntDownCast, CanDownCastToInt
  <2> QED
    BY <1>1, <2>1, OneCallOK
<1>5. CASE ToInt
  <2>1. /\ CanCastToInt(WordLength, value) \in BOOLEAN
        /\ CanCastToInt(WordLength, value) <=> value \in IntegersOf(Sint(WordLength))
        /\ Call(Sint(WordLength), CanCastToInt(WordLength, value))
    BY <1>2, <1>5 DEF GuardsAreExact, ToInt, CanCastToInt
  <2> QED
    BY <1>1, <2>1, OneCallOK
<1>6. CASE ToUint
  <2>1. /\ CanCastToUint(WordLength, value) \in BOOLEAN
        /\ CanCastToUint(WordLength, value) <=> value \in IntegersOf(Uint(WordLength))
        /\ Call(Uint(WordLength), CanCastToUint(WordLength, value))
    BY <1>2, <1>6 DEF GuardsAreExact, ToUint, CanCastToUint
  <2> QED
    BY <1>1, <2>1, OneCallOK
<1>7. CASE UNCHANGED castVars
  <2>1. /\ number' = number /\ type' = type /\ value' = value
        /\ asked' = asked /\ reverted' = reverted
    BY <1>7 DEF castVars
  <2>2. OnlyMisfitsRevert'
    BY <2>1, Zenon DEF OnlyMisfitsRevert, CastOK
  <2> QED
    BY <2>1, <2>2 DEF CastOK, NumberIsKept
<1> QED
  BY <1>3, <1>4, <1>5, <1>6, <1>7, WideningOK DEF CastNext

\* No chain of SafeCast's functions changes the integer, and each function
\* reverts for exactly the integers that the type it returns cannot hold, for
\* every length of words: CastsAreExact of the contract that casts.
THEOREM ChainsAreExact == CastSpec => []CastsAreExact
<1>1. CastOK => CastsAreExact
  BY Zenon DEF CastOK, CastsAreExact
<1> QED
  BY <1>1, CastInitOK, CastStepOK, PTL DEF CastSpec
=============================================================================
