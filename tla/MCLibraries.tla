----------------------------- MODULE MCLibraries -----------------------------
(***************************************************************************)
(* The generated libraries, each in the hands of the contract that its     *)
(* module describes.  The contracts share nothing, so a behaviour follows  *)
(* one of them and leaves the others as they are.                          *)
(***************************************************************************)
EXTENDS EnumerableMap, CastChain, Trace, History

VARIABLE subject    \* the contract that this behaviour follows

LibrariesInit ==
  /\ subject \in {"collections", "casts", "trace", "history"}
  /\ Init /\ TraceInit /\ HistoryInit
  /\ CastInit
  /\ subject # "casts" => type = Uint(WordLength) /\ value = 0

LibrariesNext ==
  /\ UNCHANGED subject
  /\ \/ subject = "collections" /\ Next
        /\ UNCHANGED <<castVars, traceVars, historyVars>>
     \/ subject = "casts" /\ CastNext
        /\ UNCHANGED <<vars, traceVars, historyVars>>
     \/ subject = "trace" /\ TraceNext
        /\ UNCHANGED <<vars, castVars, historyVars>>
     \/ subject = "history" /\ HistoryNext
        /\ UNCHANGED <<vars, castVars, traceVars>>

LibrariesSpec ==
  LibrariesInit
    /\ [][LibrariesNext]_<<subject, vars, castVars, traceVars, historyVars>>

\* What lookups say of the past never changes, in a trace and in a history.
PastIsFixed == TraceTimelineSpec /\ HistoryTimelineSpec
=============================================================================
