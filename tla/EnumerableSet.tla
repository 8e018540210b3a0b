--------------------------- MODULE EnumerableSet ---------------------------
(***************************************************************************)
(* The set that the template EnumerableSet.js generates: an array of       *)
(* values and, for each value, its position in the array plus one, 0       *)
(* meaning absent.  Values are words (bytes32); sets of other types        *)
(* convert on the way in and out.  The module has no variables: each       *)
(* private function is an operator on the storage s of a set.              *)
(***************************************************************************)
EXTENDS Integers, Sequences

CONSTANTS WordSize,      \* 2^256: the number of different words
          AddressSize    \* 2^160: the number of different addresses

ASSUME SizeAssumption ==
  /\ WordSize \in Nat
  /\ AddressSize \in 1 .. WordSize

Bytes32 == 0 .. WordSize - 1

Types == {"bytes32", "uint256", "address"}

\* The values of a type.
Typed(type) == IF type = "address" THEN 0 .. AddressSize - 1 ELSE Bytes32

\* toBytes32: an address goes through uint160 and is extended with zeros.
ToBytes32(type, value) ==
  IF type = "address" THEN value % AddressSize ELSE value

\* fromBytes32: the cast to an address drops the upper bits.
FromBytes32(type, word) ==
  IF type = "address" THEN word % AddressSize ELSE word

SetStorage == [values : Seq(Bytes32), indexes : [Bytes32 -> Nat]]

EmptySet == [values |-> <<>>, indexes |-> [b \in Bytes32 |-> 0]]

\* _contains
Contains(s, value) == s.indexes[value] # 0

\* _add
Added(s, value) ==
  IF Contains(s, value)
    THEN s
    ELSE [values  |-> Append(s.values, value),
          indexes |-> [s.indexes EXCEPT ![value] = Len(s.values) + 1]]

\* The last value of a nonempty set moves to the given position.
LastMovedTo(s, position) ==
  LET lastValue == s.values[Len(s.values)]
  IN  IF position = Len(s.values)
        THEN s
        ELSE [values  |-> [s.values EXCEPT ![position] = lastValue],
              indexes |-> [s.indexes EXCEPT ![lastValue] = position]]

\* A fault in _remove: the value that is moved keeps its old position.
RemovedStale(s, value) ==
  IF ~Contains(s, value)
    THEN s
    ELSE [values  |-> SubSeq(LastMovedTo(s, s.indexes[value]).values,
                             1, Len(s.values) - 1),
          indexes |-> [s.indexes EXCEPT ![value] = 0]]

\* _remove: swap with the last value and pop.
Removed(s, value) ==
  LET moved == LastMovedTo(s, s.indexes[value])
  IN  IF ~Contains(s, value)
        THEN s
        ELSE [values  |-> SubSeq(moved.values, 1, Len(s.values) - 1),
              indexes |-> [moved.indexes EXCEPT ![value] = 0]]
=============================================================================
