----------------------------- MODULE MCEngineCalls -----------------------------
(* The instances of MCEngine, call by call.                                  *)
EXTENDS EngineCalls, MCEngine
=============================================================================
