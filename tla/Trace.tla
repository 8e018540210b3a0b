------------------------------- MODULE Trace -------------------------------
(***************************************************************************)
(* A contract that keeps a Trace224 or Trace160 of the checkpoint library, *)
(* pushes any keys and looks any keys up.                                  *)
(***************************************************************************)
EXTENDS Checkpoints, FiniteSetsExt

VARIABLES trace,           \* the checkpoints
          traceReturned    \* what the last push returned

traceVars == <<trace, traceReturned>>

TraceInit == trace = <<>> /\ traceReturned = <<0, 0>>

\* push(key, value); one that reverts changes nothing.
PushKey(key, value) ==
  /\ CanInsert(trace, key)
  /\ trace' = Inserted(trace, key, value)
  /\ traceReturned' = InsertReturns(trace, key, value)

TraceNext == \E key \in 0 .. MaxKey, value \in 0 .. MaxValue : PushKey(key, value)

TraceSpec == TraceInit /\ [][TraceNext]_traceVars

-----------------------------------------------------------------------------
KeysIncrease(self) == \A i \in 1 .. Len(self) - 1 : self[i].key < self[i + 1].key

\* The types, and the order of the keys that every binary search relies on.
TraceOK ==
  /\ trace \in Seq(Checkpoint)
  /\ traceReturned \in (0 .. MaxValue) \X (0 .. MaxValue)
  /\ KeysIncrease(trace)

\* The positions with a key up to, and from, the one looked for.
UpTo(self, key) == {i \in 1 .. Len(self) : self[i].key <= key}
From(self, key) == {i \in 1 .. Len(self) : self[i].key >= key}

\* The value at a key that a scan of all checkpoints finds.
ScannedUpper(self, key) ==
  IF UpTo(self, key) = {} THEN 0 ELSE self[Max(UpTo(self, key))].value

ScannedLower(self, key) ==
  IF From(self, key) = {} THEN 0 ELSE self[Min(From(self, key))].value

\* The binary searches, the one that looks among the last sqrt(n) first
\* included, find for every key what a scan of all checkpoints would find,
\* and latest is the lookup of the highest key.
LookupsFindTheKey ==
  /\ \A key \in 0 .. MaxKey :
       /\ UpperLookup(trace, key) = ScannedUpper(trace, key)
       /\ UpperLookupRecent(trace, key) = ScannedUpper(trace, key)
       /\ LowerLookup(trace, key) = ScannedLower(trace, key)
  /\ Latest(trace) = UpperLookup(trace, MaxKey)
  /\ LatestCheckpoint(trace)[3] = Latest(trace)

\* Whatever was pushed, keys are in the order that the searches rely on, and
\* the searches find what is there.
SearchesAreExact == TraceOK /\ LookupsFindTheKey

\* Pushes only ever change the present and the future of what lookups see, and
\* they return the value they replace.
TraceLine == INSTANCE Timeline WITH
  MaxTime <- MaxKey,
  now <- LatestCheckpoint(trace)[2],
  valueAt <- [key \in 0 .. MaxKey |-> UpperLookup(trace, key)],
  replaced <- traceReturned

TraceTimelineSpec == TraceLine!Spec
=============================================================================
