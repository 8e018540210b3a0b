---------------------------- MODULE Checkpoints ----------------------------
(***************************************************************************)
(* The checkpoint library that the template Checkpoints.js generates: an   *)
(* array of (key, value) pairs in the order of their keys, binary searches *)
(* in it and the insertion at its end.  The array is the argument self; a  *)
(* position of the code, which counts from zero, is one less than here.    *)
(***************************************************************************)
EXTENDS SafeCast, Sequences

CONSTANTS KeyLength, ValueLength   \* the lengths of the types of keys and values

ASSUME LengthsAssumption == {KeyLength, ValueLength} \subseteq Nat \ {0}

MaxKey == TypeMax(Uint(KeyLength))
MaxValue == TypeMax(Uint(ValueLength))

Checkpoint == [key : 0 .. MaxKey, value : 0 .. MaxValue]

\* _unsafeAccess: storage past the end of the array reads as zero.
UnsafeAccess(self, pos) ==
  IF pos < Len(self) THEN self[pos + 1] ELSE [key |-> 0, value |-> 0]

\* Math.sqrt: seven steps of Newton's method from a power of two.
Log2(a) == CHOOSE k \in 0 .. a : 2 ^ k <= a /\ a < 2 ^ (k + 1)

Sqrt(a) ==
  LET step[i \in 0 .. 7] ==
        IF i = 0 THEN 2 ^ (Log2(a) \div 2)
                 ELSE (step[i - 1] + a \div step[i - 1]) \div 2
  IN  IF a = 0 THEN 0
      ELSE IF step[7] <= a \div step[7] THEN step[7] ELSE a \div step[7]

Average(a, b) == (a + b) \div 2

\* What a search still has to look through: from low, and up to before high.
Ranges(self) == (0 .. Len(self)) \X (0 .. Len(self))

\* _upperBinaryLookup
UpperBinaryLookup(self, key, low, high) ==
  LET search[range \in Ranges(self)] ==
        LET l == range[1]  h == range[2]  mid == Average(l, h)
        IN  IF l >= h THEN h
            ELSE IF UnsafeAccess(self, mid).key > key THEN search[<<l, mid>>]
            ELSE search[<<mid + 1, h>>]
  IN  search[<<low, high>>]

\* _lowerBinaryLookup
LowerBinaryLookup(self, key, low, high) ==
  LET search[range \in Ranges(self)] ==
        LET l == range[1]  h == range[2]  mid == Average(l, h)
        IN  IF l >= h THEN h
            ELSE IF UnsafeAccess(self, mid).key < key THEN search[<<mid + 1, h>>]
            ELSE search[<<l, mid>>]
  IN  search[<<low, high>>]

\* The value before a position, zero at the start.
ValueBefore(self, pos) == IF pos = 0 THEN 0 ELSE UnsafeAccess(self, pos - 1).value

UpperLookup(self, key) ==
  ValueBefore(self, UpperBinaryLookup(self, key, 0, Len(self)))

LowerLookup(self, key) ==
  LET pos == LowerBinaryLookup(self, key, 0, Len(self))
  IN  IF pos = Len(self) THEN 0 ELSE UnsafeAccess(self, pos).value

\* A fault in upperLookupRecent: a key found in the middle is looked for before it.
UpperLookupRecentBefore(self, key) ==
  LET len == Len(self)
      mid == len - Sqrt(len)
      pos == IF len <= 5 THEN UpperBinaryLookup(self, key, 0, len)
             ELSE IF key <= UnsafeAccess(self, mid).key THEN UpperBinaryLookup(self, key, 0, mid)
             ELSE UpperBinaryLookup(self, key, mid + 1, len)
  IN  ValueBefore(self, pos)

\* upperLookupRecent: look among the last sqrt(len) checkpoints first.
UpperLookupRecent(self, key) ==
  LET len == Len(self)
      mid == len - Sqrt(len)
      pos == IF len <= 5 THEN UpperBinaryLookup(self, key, 0, len)
             ELSE IF key < UnsafeAccess(self, mid).key THEN UpperBinaryLookup(self, key, 0, mid)
             ELSE UpperBinaryLookup(self, key, mid + 1, len)
  IN  ValueBefore(self, pos)

Latest(self) == ValueBefore(self, Len(self))

LatestCheckpoint(self) ==
  LET last == UnsafeAccess(self, Len(self) - 1)
  IN  IF self = <<>> THEN <<FALSE, 0, 0>> ELSE <<TRUE, last.key, last.value>>

-----------------------------------------------------------------------------
\* _insert does not revert.
CanInsert(self, key) ==
  self # <<>> => UnsafeAccess(self, Len(self) - 1).key <= key

\* A fault in _insert: the last checkpoint is never updated.
InsertedAfter(self, key, value) == Append(self, [key |-> key, value |-> value])

\* _insert: the array after it.
Inserted(self, key, value) ==
  LET new == [key |-> key, value |-> value]
  IN  IF self # <<>> /\ UnsafeAccess(self, Len(self) - 1).key = key
        THEN [self EXCEPT ![Len(self)] = new]
        ELSE Append(self, new)

\* _insert: what it returns, the previous value and the new one.
InsertReturns(self, key, value) == <<Latest(self), value>>
=============================================================================
