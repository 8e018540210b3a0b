--------------------------- MODULE EnumerableMap ---------------------------
(***************************************************************************)
(* A contract that keeps an EnumerableSet of one type and an EnumerableMap *)
(* of two others, as the templates EnumerableSet.js and EnumerableMap.js   *)
(* generate them, and calls their functions in any order.  A map is a set  *)
(* of keys and a mapping of values that are zero where nothing was stored. *)
(* Each action is one call on a typed wrapper: convert, change the         *)
(* storage, return.  Calls that only read are operators on the storage.    *)
(***************************************************************************)
EXTENDS EnumerableSet

CONSTANTS ElementType, KeyType, ValueType   \* the types the wrappers are generated for

ASSUME TypeAssumption == {ElementType, KeyType, ValueType} \subseteq Types

VARIABLES set,       \* the storage of the set
          map,       \* the storage of the map
          reply      \* the last call and what it returned

vars == <<set, map, reply>>

Elements == Typed(ElementType)
Keys == Typed(KeyType)
Values == Typed(ValueType)

Init ==
  /\ set = EmptySet
  /\ map = [keys |-> EmptySet, values |-> [b \in Bytes32 |-> 0]]
  /\ reply = [call |-> <<>>, result |-> FALSE]

-----------------------------------------------------------------------------
\* add, remove on a set of ElementType.
Add(e) ==
  LET word == ToBytes32(ElementType, e)
  IN  /\ set' = Added(set, word)
      /\ reply' = [call |-> <<"add", e>>, result |-> ~Contains(set, word)]
      /\ UNCHANGED map

Remove(e) ==
  LET word == ToBytes32(ElementType, e)
  IN  /\ set' = Removed(set, word)
      /\ reply' = [call |-> <<"remove", e>>, result |-> Contains(set, word)]
      /\ UNCHANGED map

\* A fault in set: the value of a key that is present is not replaced.
PutOnce(k, v) ==
  LET key == ToBytes32(KeyType, k)
  IN  /\ map' = [keys   |-> Added(map.keys, key),
                 values |-> IF Contains(map.keys, key) THEN map.values
                            ELSE [map.values EXCEPT ![key] = ToBytes32(ValueType, v)]]
      /\ reply' = [call |-> <<"set", k, v>>, result |-> ~Contains(map.keys, key)]
      /\ UNCHANGED set

\* set, remove on a map from KeyType to ValueType.
Put(k, v) ==
  LET key == ToBytes32(KeyType, k)
  IN  /\ map' = [keys   |-> Added(map.keys, key),
                 values |-> [map.values EXCEPT ![key] = ToBytes32(ValueType, v)]]
      /\ reply' = [call |-> <<"set", k, v>>, result |-> ~Contains(map.keys, key)]
      /\ UNCHANGED set

\* A fault in remove: the value stays in storage.
DeleteKeyOnly(k) ==
  LET key == ToBytes32(KeyType, k)
  IN  /\ map' = [map EXCEPT !.keys = Removed(map.keys, key)]
      /\ reply' = [call |-> <<"delete", k>>, result |-> Contains(map.keys, key)]
      /\ UNCHANGED set

Delete(k) ==
  LET key == ToBytes32(KeyType, k)
  IN  /\ map' = [keys   |-> Removed(map.keys, key),
                 values |-> [map.values EXCEPT ![key] = 0]]
      /\ reply' = [call |-> <<"delete", k>>, result |-> Contains(map.keys, key)]
      /\ UNCHANGED set

Next ==
  \/ \E e \in Elements : Add(e) \/ Remove(e)
  \/ \E k \in Keys : Delete(k) \/ \E v \in Values : Put(k, v)

Spec == Init /\ [][Next]_vars

-----------------------------------------------------------------------------
(* The calls that read.                                                    *)

\* at, on a set of words and through its wrapper.
At(type, s, index) == FromBytes32(type, s.values[index + 1])

\* values and keys: the assembly block relabels the array of words as an
\* array of the type, element by element, without a conversion.
ValuesOf(s) == s.values

\* tryGet: a value that is not zero is taken as proof that the key is there.
TryGet(k) ==
  LET value == map.values[ToBytes32(KeyType, k)]
  IN  <<value # 0 \/ Contains(map.keys, ToBytes32(KeyType, k)),
        FromBytes32(ValueType, value)>>

\* get, in both of its forms, does not revert.
CanGet(k) ==
  \/ map.values[ToBytes32(KeyType, k)] # 0
  \/ Contains(map.keys, ToBytes32(KeyType, k))

Get(k) == FromBytes32(ValueType, map.values[ToBytes32(KeyType, k)])

-----------------------------------------------------------------------------
(* Properties.                                                             *)

\* Positions and values point at each other: the value at each position has
\* that position, and a value with a position is found there.
PositionsMatch(s) ==
  /\ \A i \in 1 .. Len(s.values) : s.indexes[s.values[i]] = i
  /\ \A b \in Bytes32 :
       Contains(s, b) => /\ s.indexes[b] <= Len(s.values)
                         /\ s.values[s.indexes[b]] = b

\* The types of the storage, and the bookkeeping that swap-and-pop of _remove
\* and push of _add must keep for both sets.
StorageOK ==
  /\ set \in SetStorage
  /\ map \in [keys : SetStorage, values : [Bytes32 -> Bytes32]]
  /\ reply.result \in BOOLEAN
  /\ PositionsMatch(set)
  /\ PositionsMatch(map.keys)

\* Enumeration through at, which converts, and through values, whose assembly
\* block does not, show the same typed values, each of them once.
ViewsAgree ==
  /\ \A i \in 1 .. Len(set.values) :
       At(ElementType, set, i - 1) = ValuesOf(set)[i]
  /\ \A i \in 1 .. Len(map.keys.values) :
       At(KeyType, map.keys, i - 1) = ValuesOf(map.keys)[i]
  /\ \A i, j \in 1 .. Len(set.values) :
       At(ElementType, set, i - 1) = At(ElementType, set, j - 1) => i = j

\* tryGet and get answer for a key whose value is zero, and for no key that
\* was removed: presence is never read off a leftover value.
LookupsAgree ==
  \A k \in Keys :
    LET present == Contains(map.keys, ToBytes32(KeyType, k))
    IN  /\ CanGet(k) <=> present
        /\ TryGet(k) = <<present, IF present THEN Get(k) ELSE 0>>

\* Every way to read the set or the map shows the same contents.
ReadsAgree == ViewsAgree /\ LookupsAgree

\* The members and the entries that callers see.
Members == {e \in Elements : Contains(set, ToBytes32(ElementType, e))}

Entries ==
  [k \in {k \in Keys : Contains(map.keys, ToBytes32(KeyType, k))} |-> Get(k)]

\* The two libraries behave as a set and a map do: each call changes what is
\* asked for, nothing else, and tells truly whether it changed anything.
Abstract == INSTANCE Collections WITH members <- Members, entries <- Entries

CollectionSpec == Abstract!Spec
=============================================================================
