----------------------------- MODULE CertoraRun -----------------------------
(***************************************************************************)
(* certora/run.js: select the requested specs, run the prover on a bounded *)
(* number of them at a time, collect what each child process prints and    *)
(* report it when the child exits.  Children run and print in parallel     *)
(* with the script; the script itself handles one event at a time.  The    *)
(* operating system delivers the output of a child and the news of its     *)
(* exit through different channels, so either may come first.              *)
(***************************************************************************)
EXTENDS Naturals, FiniteSets, Sequences, Functions

CONSTANTS Specs,         \* the entries [spec, contract] of specs.json, in order
          AnyContract,   \* the contract of a request that names none
          Requests,      \* the requests [spec, contract] a user may make
          Parallel,      \* argv.parallel
          Chunks,        \* what the data of one event may contain
          MaxChunks      \* bound on the number of data events of a child

ASSUME RunAssumption ==
  /\ Specs \in Seq(Range(Specs)) /\ IsInjective(Specs)
  /\ Parallel \in Nat \ {0}
  /\ MaxChunks \in Nat
  /\ \A c \in Chunks : c \subseteq {"jobId", "userId", "url"}

Entries == Range(Specs)

VARIABLES
  argv,        \* the requests and whether --all is given
  process,     \* "starting", "running", "exited"
  exitCode,    \* process.exitCode
  queue,       \* the places in Specs of the runs that p-limit has not started
  stage,       \* of each entry: "waiting", "running", "ended", "reported"
  child,       \* of each entry: "none", "alive", "succeeded", "failed"
  printed,     \* what the child has written to stdout and stderr, in chunks
  collected,   \* the number of chunks that have gone through the stream
  statusUrls,  \* the number of status links shown for the entry
  table        \* the lines of the table: a header, or a row of an entry,
               \* whether it failed and whether it has links

certoraVars == <<argv, process, exitCode, queue, stage, child, printed, collected, statusUrls, table>>

NothingRun ==
  /\ exitCode = 0
  /\ queue = {}
  /\ stage = [e \in Entries |-> "waiting"]
  /\ child = [e \in Entries |-> "none"]
  /\ printed = [e \in Entries |-> <<>>]
  /\ collected = [e \in Entries |-> 0]
  /\ statusUrls = [e \in Entries |-> 0]
  /\ table = <<>>

CertoraInit ==
  /\ argv \in [requests : SUBSET Requests, all : BOOLEAN]
  /\ process = "starting"
  /\ NothingRun

-----------------------------------------------------------------------------
(* Selection.                                                              *)

Match(entry, request) ==
  /\ entry.spec = request.spec
  /\ request.contract \in {AnyContract, entry.contract}

Selected == {e \in Entries : argv.all \/ \E r \in argv.requests : Match(e, r)}

RequestsMissing == {r \in argv.requests : \A e \in Selected : ~Match(e, r)}

\* The top level of the script: everything selected is queued, unless a request
\* selects nothing.
Main ==
  /\ process = "starting"
  /\ IF RequestsMissing # {}
       THEN /\ process' = "exited"
            /\ exitCode' = 1
            /\ UNCHANGED queue
       ELSE /\ process' = "running"
            /\ queue' = {i \in DOMAIN Specs : Specs[i] \in Selected}
            /\ UNCHANGED exitCode
  /\ UNCHANGED <<argv, stage, child, printed, collected, statusUrls, table>>

-----------------------------------------------------------------------------
(* One run.                                                                *)

\* A fault in p-limit: a run that has ended keeps its place.
ActiveForever == {e \in Entries : stage[e] # "waiting"}

Active == {e \in Entries : stage[e] \in {"running", "ended"}}

\* p-limit starts the next run, which spawns its child.
Start ==
  /\ process = "running"
  /\ Cardinality(Active) < Parallel
  /\ \E i \in queue :
       /\ \A j \in queue : i <= j
       /\ queue' = queue \ {i}
       /\ stage' = [stage EXCEPT ![Specs[i]] = "running"]
       /\ child' = [child EXCEPT ![Specs[i]] = "alive"]
  /\ UNCHANGED <<argv, process, exitCode, printed, collected, statusUrls, table>>

\* A rejection that nobody handles ends the script, whatever is under way.
Crash ==
  /\ process' = "exited"
  /\ exitCode' = 1
  /\ UNCHANGED <<argv, queue, stage, child, printed, collected, statusUrls, table>>

\* The child cannot be spawned: events.once rejects on its error event.
SpawnFails(e) ==
  /\ process = "running"
  /\ stage[e] = "running" /\ child[e] = "alive" /\ printed[e] = <<>>
  /\ Crash

\* The child prints, and exits with or without success.  What children do after
\* the script has ended is left out.
ChildPrints(e, chunk) ==
  /\ process = "running"
  /\ child[e] = "alive" /\ Len(printed[e]) < MaxChunks
  /\ printed' = [printed EXCEPT ![e] = Append(@, chunk)]
  /\ UNCHANGED <<argv, process, exitCode, queue, stage, child, collected, statusUrls, table>>

Exit(e, outcome) ==
  /\ process = "running"
  /\ child[e] = "alive"
  /\ child' = [child EXCEPT ![e] = outcome]
  /\ UNCHANGED <<argv, process, exitCode, queue, stage, printed, collected, statusUrls, table>>

\* A data event: the stream passes the chunk on, and logStatusUrl looks at it
\* until it has found both ids in one chunk.
OnData(e) ==
  /\ process = "running"
  /\ stage[e] = "running" /\ collected[e] < Len(printed[e])
  /\ collected' = [collected EXCEPT ![e] = @ + 1]
  /\ statusUrls' = [statusUrls EXCEPT ![e] =
       IF @ = 0 /\ {"jobId", "userId"} \subseteq printed[e][collected[e] + 1] THEN 1 ELSE @]
  /\ UNCHANGED <<argv, process, exitCode, queue, stage, child, printed, table>>

\* A fault: the outcome of the last child decides the exit code.
OnExitLast(e) ==
  /\ process = "running"
  /\ stage[e] = "running" /\ child[e] \in {"succeeded", "failed"}
  /\ exitCode' = IF child[e] = "failed" THEN 1 ELSE 0
  /\ stage' = [stage EXCEPT ![e] = "ended"]
  /\ UNCHANGED <<argv, process, queue, child, printed, collected, statusUrls, table>>

\* The exit event: note a failure and end the stream.
OnExit(e) ==
  /\ process = "running"
  /\ stage[e] = "running" /\ child[e] \in {"succeeded", "failed"}
  /\ exitCode' = IF child[e] = "failed" THEN 1 ELSE exitCode
  /\ stage' = [stage EXCEPT ![e] = "ended"]
  /\ UNCHANGED <<argv, process, queue, child, printed, collected, statusUrls, table>>

\* A data event that comes after the end of the stream and before the pipe is
\* taken down is a write after end, and the promise of the output rejects.
LateData(e) ==
  /\ process = "running"
  /\ stage[e] = "ended" /\ collected[e] < Len(printed[e])
  /\ Crash

\* What the stream has collected of an entry's output contains a link.
HasUrl(e) == \E i \in 1 .. collected[e] : "url" \in printed[e][i]

Row(e) == <<"row", e, child[e] = "failed", HasUrl(e)>>

\* writeEntry, with the header before the first row.
WriteEntry(e) ==
  table' = Append(IF table = <<>> THEN <<<<"header">>>> ELSE table, Row(e))

\* The output is complete as far as the stream goes: write the row and the
\* details, and let p-limit go on.  Data that comes later is dropped.
Report(e) ==
  /\ process = "running"
  /\ stage[e] = "ended"
  /\ WriteEntry(e)
  /\ stage' = [stage EXCEPT ![e] = "reported"]
  /\ UNCHANGED <<argv, process, exitCode, queue, child, printed, collected, statusUrls>>

\* The script ends when there is nothing left to wait for.
Finish ==
  /\ process = "running"
  /\ queue = {} /\ Active = {}
  /\ process' = "exited"
  /\ UNCHANGED <<argv, exitCode, queue, stage, child, printed, collected, statusUrls, table>>

CertoraNext ==
  \/ Main \/ Start \/ Finish
  \/ \E e \in Entries :
       \/ SpawnFails(e) \/ OnData(e) \/ OnExit(e) \/ LateData(e) \/ Report(e)
       \/ \E chunk \in Chunks : ChildPrints(e, chunk)
       \/ \E outcome \in {"succeeded", "failed"} : Exit(e, outcome)

\* The event loop gets to every event; a prover's run comes to an end.
CertoraFairness ==
  /\ WF_certoraVars(Main) /\ WF_certoraVars(Start) /\ WF_certoraVars(Finish)
  /\ \A e \in Entries :
       /\ WF_certoraVars(\E outcome \in {"succeeded", "failed"} : Exit(e, outcome))
       /\ WF_certoraVars(OnExit(e)) /\ WF_certoraVars(Report(e))

CertoraSpec == CertoraInit /\ [][CertoraNext]_certoraVars /\ CertoraFairness

-----------------------------------------------------------------------------
Rows == {i \in 1 .. Len(table) : table[i][1] = "row"}
RowsOf(e) == {i \in Rows : table[i][2] = e}

\* Types, a table that is one header and then one row for each reported run
\* and no other, and never more children at work than argv.parallel allows.
RunnerOK ==
  /\ process \in {"starting", "running", "exited"}
  /\ exitCode \in {0, 1}
  /\ stage \in [Entries -> {"waiting", "running", "ended", "reported"}]
  /\ child \in [Entries -> {"none", "alive", "succeeded", "failed"}]
  /\ \A e \in Entries : collected[e] <= Len(printed[e]) /\ statusUrls[e] <= 1
  /\ Cardinality(Active) <= Parallel
  /\ table # <<>> => table[1] = <<"header">> /\ Cardinality(Rows) = Len(table) - 1
  /\ \A e \in Entries : Cardinality(RowsOf(e)) = IF stage[e] = "reported" THEN 1 ELSE 0

\* The script exits with zero only when every request named a spec, and every
\* spec that was selected has run, has succeeded and has its row; no row calls a
\* failure a success.
ZeroMeansVerified ==
  /\ process = "exited" /\ exitCode = 0 =>
       /\ RequestsMissing = {}
       /\ \A e \in Selected :
            child[e] = "succeeded" /\ \E i \in RowsOf(e) : ~table[i][3]
  /\ \A i \in Rows : table[i][3] <=> child[table[i][2]] = "failed"

\* Nothing runs that was not asked for.
OnlyRequestedRun ==
  \A e \in Entries :
    child[e] # "none" =>
      argv.all \/ \E r \in argv.requests :
                    r.spec = e.spec /\ (r.contract # AnyContract => r.contract = e.contract)

\* Table and exit code are true of what ran, and what ran was asked for,
\* whatever the order of the children's events.
ReportIsTrue == RunnerOK /\ ZeroMeansVerified /\ OnlyRequestedRun

\* Unless it ends early, the script reports everything it has started on and
\* everything that waits behind it.
AllAreReported ==
  \A e \in Entries :
    process = "running" /\ e \in Selected
      ~> stage[e] = "reported" \/ (process = "exited" /\ exitCode = 1)
=============================================================================
