---------------------------- MODULE Collections ----------------------------
(***************************************************************************)
(* What EnumerableSet and EnumerableMap promise their callers: a set and a *)
(* finite map of typed values, whose operations tell whether they have     *)
(* added or removed something.  There is no order and no storage.          *)
(***************************************************************************)
EXTENDS Integers

CONSTANTS Elements, Keys, Values

VARIABLES members,    \* a subset of Elements
          entries,    \* a function from a subset of Keys to Values
          reply       \* the last call and what it returned

vars == <<members, entries, reply>>

Init ==
  /\ members = {}
  /\ entries = [k \in {} |-> 0]
  /\ reply = [call |-> <<>>, result |-> FALSE]

Add(e) ==
  /\ members' = members \cup {e}
  /\ reply' = [call |-> <<"add", e>>, result |-> e \notin members]
  /\ UNCHANGED entries

Discard(e) ==
  /\ members' = members \ {e}
  /\ reply' = [call |-> <<"remove", e>>, result |-> e \in members]
  /\ UNCHANGED entries

Put(k, v) ==
  /\ entries' = [x \in DOMAIN entries \cup {k} |-> IF x = k THEN v ELSE entries[x]]
  /\ reply' = [call |-> <<"set", k, v>>, result |-> k \notin DOMAIN entries]
  /\ UNCHANGED members

Delete(k) ==
  /\ entries' = [x \in DOMAIN entries \ {k} |-> entries[x]]
  /\ reply' = [call |-> <<"delete", k>>, result |-> k \in DOMAIN entries]
  /\ UNCHANGED members

Next ==
  \/ \E e \in Elements : Add(e) \/ Discard(e)
  \/ \E k \in Keys : Delete(k) \/ \E v \in Values : Put(k, v)

Spec == Init /\ [][Next]_vars
=============================================================================
