------------------------------ MODULE Timeline ------------------------------
(***************************************************************************)
(* What a checkpointed history promises: a value for every time, of which  *)
(* only the present and the future can still change.                       *)
(***************************************************************************)
EXTENDS Integers

CONSTANTS MaxTime, MaxValue

VARIABLES now,        \* the time of the last write or later
          valueAt,    \* the value at each time, as far as it is known now
          replaced    \* the value that the last write replaced, and the one it wrote

vars == <<now, valueAt, replaced>>

Init ==
  /\ now = 0
  /\ valueAt = [t \in 0 .. MaxTime |-> 0]
  /\ replaced = <<0, 0>>

Write(t, v) ==
  /\ t >= now
  /\ now' = t
  /\ valueAt' = [x \in 0 .. MaxTime |-> IF x < t THEN valueAt[x] ELSE v]
  /\ replaced' = <<valueAt[t], v>>

Advance ==
  /\ now' > now
  /\ UNCHANGED <<valueAt, replaced>>

Next ==
  \/ \E t \in 0 .. MaxTime, v \in 0 .. MaxValue : Write(t, v)
  \/ Advance

Spec == Init /\ [][Next]_vars
=============================================================================
