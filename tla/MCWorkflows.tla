----------------------------- MODULE MCWorkflows -----------------------------
(***************************************************************************)
(* The workflows whose parts run at the same time: the release cycle, the  *)
(* docs branch and the prover's runs.  They share nothing that is modelled *)
(* here, so a behaviour follows one of them, and the others stay at rest.  *)
(* The prover has three entries, two of which verify one spec against      *)
(* different contracts, and requests that name one, two or none of them.   *)
(***************************************************************************)
EXTENDS ReleaseCycle, DocsBranch, CertoraRun

CONSTANTS access, token, accessHarness, tokenHarness, wrapHarness, unknown

VARIABLE subject    \* the workflow that this behaviour follows

MCSpecs == <<[spec |-> access, contract |-> accessHarness],
             [spec |-> token, contract |-> tokenHarness],
             [spec |-> token, contract |-> wrapHarness]>>

MCRequests == {[spec |-> access, contract |-> AnyContract],
               [spec |-> token, contract |-> AnyContract],
               [spec |-> token, contract |-> wrapHarness],
               [spec |-> unknown, contract |-> AnyContract]}

MCChunks == {{"jobId", "userId", "url"}}

\* No run is asked for, and the script has not been called.
ReleaseAtRest == Unreleased /\ starting = {}
CertoraAtRest == argv = [requests |-> {}, all |-> FALSE] /\ process = "exited" /\ NothingRun

WorkflowsInit ==
  /\ subject \in {"release", "docs", "certora"}
  /\ DocsInit
  /\ IF subject = "release" THEN ReleaseInit ELSE ReleaseAtRest
  /\ IF subject = "certora" THEN CertoraInit ELSE CertoraAtRest

WorkflowsNext ==
  /\ UNCHANGED subject
  /\ \/ subject = "release" /\ ReleaseNext /\ UNCHANGED <<docsVars, certoraVars>>
     \/ subject = "docs" /\ DocsNext /\ UNCHANGED <<releaseVars, certoraVars>>
     \/ subject = "certora" /\ CertoraNext /\ UNCHANGED <<releaseVars, docsVars>>

\* Nothing is demanded of a workflow at rest, whose fair steps are not enabled.
WorkflowsSpec ==
  /\ WorkflowsInit
  /\ [][WorkflowsNext]_<<subject, releaseVars, docsVars, certoraVars>>
  /\ ReleaseFairness /\ CertoraFairness
=============================================================================
