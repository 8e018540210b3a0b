---------------------------- MODULE WorkflowProofs ----------------------------
(***************************************************************************)
(* What the workflows keep, for every number of changesets, clones and     *)
(* provers: the release cycle (changesets and the versions made of them),  *)
(* the docs branch, and the runs of the prover.  The parts share nothing   *)
(* but what they extend, and each has an invariant of its own.             *)
(***************************************************************************)
EXTENDS ReleaseCycle, DocsBranch, CertoraRun,
        FiniteSetTheorems, SequenceTheorems, TLAPS

-----------------------------------------------------------------------------
(* The release cycle.                                                      *)

Versions == [patch : Nat \cup {-2}, rc : Nat \cup {Final}]

BranchCommits ==
  [version : Versions, mode : {"none", "pre", "exit"}, fresh : Nat, recorded : Nat]

\* What the version, the mode and the changesets of a commit of a started
\* branch have to do with each other; n changesets have been committed.
Consistent(c, n) ==
  /\ c.version.patch = -2 => c.version.rc = Final
  /\ c.mode # "none" => c.fresh + c.recorded \in 1 .. n
  /\ c.mode = "none" => c.recorded = 0 /\ IsFinal(c.version) /\ c.version # OldVersion
  /\ c.mode # "none" /\ IsFinal(c.version) => c.version = OldVersion
  /\ c.version = OldVersion => c.recorded = 0
  /\ ~IsFinal(c.version) => c.version.patch = 0
  /\ c.version # OldVersion => c.version.patch + c.fresh <= n

\* The branch with the given head has been at commit c.
Earlier(c, head, use) ==
  /\ c \in BranchCommits
  /\ Consistent(c, use.commits + 1)
  /\ \/ Precedes(c.version, head.version)
     \/ /\ c.version = head.version
        /\ c.recorded = head.recorded
        /\ c.fresh <= head.fresh
        /\ c.mode = "none" <=> head.mode = "none"
  /\ use.dispatches = 0 => c.mode = "pre"

\* The steps that look at the commit of their run.
JobSteps == {"exit prerelease", "changesets", "publish", "delete next",
             "push tags", "create release", "merge"}

Runs == [commit : BranchCommits, steps : SUBSET (JobSteps \cup {"rerun"})]

Events == [event : {"push", "dispatch"}, ref : {"release"}, bot : BOOLEAN,
           commit : BranchCommits]

VersionPRs == [commit : BranchCommits, title : Int]

ReleaseTypeOK ==
  /\ branch \in BranchCommits
  /\ versionPR \in VersionPRs \cup {None}
  /\ starting \subseteq {"start", "rerun"}
  /\ run \in Runs \cup {None}
  /\ pending \in Events \cup {None}
  /\ started \in BOOLEAN
  /\ used \in [commits : 0 .. MaxChangesets, dispatches : Nat, failures : Nat]
  /\ npm \in [DOMAIN npm -> BOOLEAN]
  /\ distTags \in [latest : Versions, next : Versions \cup {None}]

HeadOK ==
  /\ started =>
       /\ Earlier(branch, branch, used)
       /\ branch.mode # "none" => branch.fresh + branch.recorded = used.commits + 1
  /\ ~started =>
       /\ branch = [version |-> OldVersion, mode |-> "none", fresh |-> 1, recorded |-> 0]
       /\ used.commits = 0 /\ used.dispatches = 0
       /\ versionPR = None /\ run = None /\ pending = None

\* The run on master starts the branch once, and then asks for a run on it.
StartingOK ==
  /\ "start" \in starting => ~started
  /\ "rerun" \in starting => started

PullRequestOK ==
  versionPR # None =>
    /\ Earlier(versionPR.commit, branch, used)
    /\ HasPendingChangesets(versionPR.commit)
    /\ versionPR.title = TitlePatch(versionPR.commit.version)

PendingOK ==
  pending # None =>
    /\ Earlier(pending.commit, branch, used)
    /\ pending.event = "dispatch" /\ ~pending.bot => used.dispatches > 0

\* What is so when a step of a run on the given commit is still to be taken.
StepOK(step, commit) ==
  /\ step \in JobSteps => Earlier(commit, branch, used)
  /\ step = "exit prerelease" => Prerelease(commit) /\ used.dispatches > 0
  /\ step \in {"publish", "merge"} => ~HasPendingChangesets(commit)
  /\ step = "merge" => IsFinal(commit.version) /\ ~Prerelease(commit)
  /\ step \in {"delete next", "push tags"} => commit.version \in DOMAIN npm
  /\ step = "create release" => commit.version \in tags

RunOK == run # None => \A step \in run.steps : StepOK(step, run.commit)

RegistryOK ==
  /\ \A v \in DOMAIN npm : v \in Versions /\ v.patch <= MaxChangesets + 1
  /\ releases \subseteq tags /\ tags \subseteq DOMAIN npm
  /\ DistTagsFit
  /\ MergeBackIsFinal
  /\ used.dispatches = 0 => \A v \in DOMAIN npm : IsFinal(v) => v = OldVersion

\* Something will bring the version PR up to date, or it is.
Upcoming ==
  \/ "rerun" \in starting
  \/ run # None /\ "rerun" \in run.steps
  \/ /\ pending # None => pending.commit = branch
     /\ \/ ~HasPendingChangesets(branch)
        \/ pending # None
        \/ /\ run # None /\ run.commit = branch
           /\ run.steps \cap {"exit prerelease", "changesets"} # {}
        \/ /\ versionPR # None /\ versionPR.commit = branch
           /\ run # None /\ "changesets" \in run.steps => run.commit = branch

UpcomingOK == started /\ used.failures = 0 => Upcoming

ReleaseIInv ==
  /\ ReleaseTypeOK /\ HeadOK /\ StartingOK /\ PullRequestOK /\ PendingOK /\ RunOK
  /\ RegistryOK /\ UpcomingOK

-----------------------------------------------------------------------------
LEMMA NoneIsNothing ==
  None \notin Runs /\ None \notin Events /\ None \notin VersionPRs /\ None \notin Versions
<1>1. DOMAIN None = {"none"}
  BY DEF None
<1>2. /\ \A r \in Runs : "commit" \in DOMAIN r
      /\ \A e \in Events : "commit" \in DOMAIN e
      /\ \A p \in VersionPRs : "commit" \in DOMAIN p
      /\ \A v \in Versions : "patch" \in DOMAIN v
  BY DEF Runs, Events, VersionPRs, Versions
<1> QED
  BY <1>1, <1>2

\* Versions only differ in their two numbers.
LEMMA SameVersion ==
  ASSUME NEW v \in Versions, NEW w \in Versions
  PROVE  v = w <=> v.patch = w.patch /\ v.rc = w.rc
BY DEF Versions

LEMMA VersionArithmetic ==
  /\ Final = -1
  /\ OldVersion \in Versions /\ OldVersion.patch = -2 /\ OldVersion.rc = Final
  /\ \A v \in Versions : v.patch \in Int /\ v.rc \in Int /\ v.patch >= -2 /\ v.patch # -1 /\ v.rc >= -1
BY DEF Final, OldVersion, Version, Versions

LEMMA CommitNumbers ==
  ASSUME NEW c \in BranchCommits
  PROVE  /\ c.fresh \in Nat /\ c.recorded \in Nat
         /\ c.version \in Versions /\ c.version.patch \in Int /\ c.version.rc \in Int
BY VersionArithmetic DEF BranchCommits

LEMMA UsedNumbers ==
  ASSUME ReleaseTypeOK
  PROVE  /\ used.commits \in Nat /\ used.commits <= MaxChangesets
         /\ used.dispatches \in Nat /\ used.failures \in Nat
BY BoundAssumption DEF ReleaseTypeOK

LEMMA PrecedesIsTransitive ==
  ASSUME NEW u \in Versions, NEW v \in Versions, NEW w \in Versions,
         Precedes(u, v), Precedes(v, w)
  PROVE  Precedes(u, w)
BY VersionArithmetic DEF Precedes, IsFinal

LEMMA PrecedesIsIrreflexive ==
  ASSUME NEW v \in Versions
  PROVE  ~Precedes(v, v)
BY VersionArithmetic DEF Precedes, IsFinal

\* What the job "state" lets run, and on which events.
LEMMA StepsAsked ==
  ASSUME NEW r
  PROVE  /\ StepsOf(r) \subseteq JobSteps \cup {"start", "rerun"}
         /\ "start" \in StepsOf(r) <=> ShouldRunStart(r)
         /\ "exit prerelease" \in StepsOf(r) <=> ShouldRunPromote(r) /\ Prerelease(r.commit)
         /\ "rerun" \in StepsOf(r) <=> ShouldRunPromote(r) /\ ~Prerelease(r.commit)
         /\ "changesets" \in StepsOf(r) <=> ShouldRunChangesets(r)
         /\ "publish" \in StepsOf(r) <=> ShouldRunPublish(r)
         /\ "merge" \in StepsOf(r) <=> ShouldRunMerge(r)
         /\ StepsOf(r) \cap {"delete next", "push tags", "create release"} = {}
<1>1. \A s \in StepsOf(r) :
        s \in {"start", "exit prerelease", "rerun", "changesets", "publish", "merge"}
  BY DEF StepsOf
<1>2. /\ StepsOf(r) \subseteq JobSteps \cup {"start", "rerun"}
      /\ StepsOf(r) \cap {"delete next", "push tags", "create release"} = {}
  BY <1>1 DEF JobSteps
<1>3. "start" \in StepsOf(r) <=> ShouldRunStart(r)
  BY DEF StepsOf
<1>4. "exit prerelease" \in StepsOf(r) <=> ShouldRunPromote(r) /\ Prerelease(r.commit)
  BY DEF StepsOf
<1>5. "rerun" \in StepsOf(r) <=> ShouldRunPromote(r) /\ ~Prerelease(r.commit)
  BY DEF StepsOf
<1>6. "changesets" \in StepsOf(r) <=> ShouldRunChangesets(r)
  BY DEF StepsOf
<1>7. "publish" \in StepsOf(r) <=> ShouldRunPublish(r)
  BY DEF StepsOf
<1>8. "merge" \in StepsOf(r) <=> ShouldRunMerge(r)
  BY DEF StepsOf
<1> QED
  BY <1>2, <1>3, <1>4, <1>5, <1>6, <1>7, <1>8

LEMMA ReleaseInitOK ==
  ASSUME ReleaseInit
  PROVE  ReleaseIInv
<1> DEFINE onMaster == [event |-> "dispatch", ref |-> "master", bot |-> FALSE, commit |-> branch]
<1>4. starting \subseteq {"start"}
  <2>1. starting = StepsOf(onMaster) /\ onMaster.ref = "master"
    BY DEF ReleaseInit
  <2> HIDE DEF onMaster
  <2>2. /\ StepsOf(onMaster) \subseteq JobSteps \cup {"start", "rerun"}
        /\ StepsOf(onMaster) \cap {"delete next", "push tags", "create release"} = {}
        /\ StepsOf(onMaster) \cap {"exit prerelease", "rerun", "changesets", "publish", "merge"} = {}
    BY <2>1, StepsAsked DEF ShouldRunPromote, ShouldRunChangesets, ShouldRunPublish, ShouldRunMerge
  <2> QED
    BY <2>1, <2>2 DEF JobSteps
<1>1. ReleaseTypeOK
  <2>1. /\ branch = [version |-> OldVersion, mode |-> "none", fresh |-> 1, recorded |-> 0]
        /\ versionPR = None /\ run = None /\ pending = None /\ started = FALSE
        /\ npm = [v \in {OldVersion} |-> FALSE]
        /\ distTags = [latest |-> OldVersion, next |-> None]
        /\ used = [commits |-> 0, dispatches |-> 0, failures |-> 0]
    BY DEF ReleaseInit, Unreleased
  <2>2. branch \in BranchCommits
    BY <2>1, VersionArithmetic DEF BranchCommits
  <2>3. starting \subseteq {"start", "rerun"}
    BY <1>4
  <2>4. used \in [commits : 0 .. MaxChangesets, dispatches : Nat, failures : Nat]
    BY <2>1, BoundAssumption
  <2>5. /\ npm \in [DOMAIN npm -> BOOLEAN]
        /\ distTags \in [latest : Versions, next : Versions \cup {None}]
    BY <2>1, VersionArithmetic
  <2> QED
    BY <2>1, <2>2, <2>3, <2>4, <2>5 DEF ReleaseTypeOK
<1>2. HeadOK /\ StartingOK /\ PullRequestOK /\ PendingOK /\ RunOK /\ UpcomingOK
  BY <1>4 DEF ReleaseInit, Unreleased, HeadOK, StartingOK, PullRequestOK, PendingOK, RunOK, UpcomingOK
<1>3. RegistryOK
  <2>1. /\ DOMAIN npm = {OldVersion} /\ npm[OldVersion] = FALSE
        /\ distTags.latest = OldVersion /\ distTags.next = None
        /\ tags = {OldVersion} /\ releases = {OldVersion}
        /\ mergePR = None
    BY DEF ReleaseInit, Unreleased
  <2>2. MaxChangesets \in Nat
    BY BoundAssumption
  <2>3. IsFinal(OldVersion) /\ ~Precedes(OldVersion, OldVersion)
    BY VersionArithmetic, PrecedesIsIrreflexive DEF IsFinal
  <2>4. DistTagsFit /\ MergeBackIsFinal
    BY <2>1, <2>3 DEF DistTagsFit, MergeBackIsFinal
  <2> QED
    BY <2>1, <2>2, <2>4, VersionArithmetic DEF RegistryOK
<1> QED
  BY <1>1, <1>2, <1>3 DEF ReleaseIInv

-----------------------------------------------------------------------------
(* Commits of the branch.                                                  *)

\* What stays true of the commits that the branch has been at.
Remembers == \A c : Earlier(c, branch, used) => Earlier(c, branch', used')

LEMMA NewVersionRemembers ==
  ASSUME ReleaseTypeOK, branch' \in BranchCommits,
         Precedes(branch.version, branch'.version),
         used'.commits = used.commits, used'.dispatches = used.dispatches
  PROVE  Remembers
<1> SUFFICES ASSUME NEW c, Earlier(c, branch, used)
             PROVE  Earlier(c, branch', used')
  BY DEF Remembers
<1>1. c.version \in Versions /\ branch.version \in Versions /\ branch'.version \in Versions
  BY DEF Earlier, ReleaseTypeOK, BranchCommits
<1>2. Precedes(c.version, branch'.version)
  BY <1>1, PrecedesIsTransitive DEF Earlier
<1> QED
  BY <1>2 DEF Earlier

LEMMA SameVersionRemembers ==
  ASSUME ReleaseTypeOK, branch' \in BranchCommits,
         branch'.version = branch.version,
         branch'.recorded = branch.recorded,
         branch'.fresh >= branch.fresh,
         branch'.mode = "none" <=> branch.mode = "none",
         used'.commits \in Nat, used'.commits >= used.commits,
         used'.dispatches \in Nat, used'.dispatches >= used.dispatches
  PROVE  Remembers
<1> SUFFICES ASSUME NEW c, Earlier(c, branch, used)
             PROVE  Earlier(c, branch', used')
  BY DEF Remembers
<1>1. /\ c \in BranchCommits /\ c.fresh \in Nat /\ c.recorded \in Nat
      /\ branch.fresh \in Nat /\ branch'.fresh \in Nat
      /\ c.version.patch \in Int
      /\ used.commits \in Nat /\ used.dispatches \in Nat
  BY VersionArithmetic DEF Earlier, ReleaseTypeOK, BranchCommits
<1>2. Consistent(c, used'.commits + 1)
  BY <1>1 DEF Earlier, Consistent
<1>3. used'.dispatches = 0 => c.mode = "pre"
  BY <1>1 DEF Earlier
<1>4. \/ Precedes(c.version, branch'.version)
      \/ /\ c.version = branch'.version
         /\ c.recorded = branch'.recorded
         /\ c.fresh <= branch'.fresh
         /\ c.mode = "none" <=> branch'.mode = "none"
  BY <1>1 DEF Earlier
<1> QED
  BY <1>1, <1>2, <1>3, <1>4 DEF Earlier

LEMMA SameHeadRemembers ==
  ASSUME ReleaseTypeOK, branch' = branch,
         used'.commits = used.commits, used'.dispatches = used.dispatches
  PROVE  Remembers
BY DEF Remembers, Earlier

-----------------------------------------------------------------------------
(* The steps of a run.                                                     *)

LEMMA StepShape ==
  ASSUME ReleaseIInv, NEW step, NEW next \in SUBSET (JobSteps \cup {"rerun"}), Step(step, next)
  PROVE  /\ run \in Runs /\ run # None /\ step \in run.steps
         /\ run' \in Runs /\ run' # None
         /\ run'.commit = run.commit
         /\ run'.steps = (run.steps \ {step}) \cup next
         /\ used' = used
         /\ started
<1>1. run \in Runs /\ run # None /\ step \in run.steps /\ used' = used
  BY DEF Step, ReleaseIInv, ReleaseTypeOK
<1>2. run' = [run EXCEPT !.steps = (run.steps \ {step}) \cup next]
  BY DEF Step
<1>3. /\ run' \in Runs /\ run'.commit = run.commit
      /\ run'.steps = (run.steps \ {step}) \cup next
  BY <1>1, <1>2 DEF Runs
<1>4. started
  BY <1>1 DEF ReleaseIInv, HeadOK, ReleaseTypeOK
<1> QED
  BY <1>1, <1>3, <1>4, NoneIsNothing

\* What a step of a job leaves alone on the branch.
LEMMA JobStepKeeps ==
  ASSUME ReleaseIInv, UNCHANGED <<branch, started, starting, used, pending>>, started
  PROVE  Remembers /\ HeadOK' /\ StartingOK' /\ PendingOK'
<1>1. Remembers
  BY SameHeadRemembers DEF ReleaseIInv
<1>2. HeadOK'
  BY DEF ReleaseIInv, HeadOK
<1>3. StartingOK' /\ PendingOK'
  BY DEF ReleaseIInv, StartingOK, PendingOK
<1> QED
  BY <1>1, <1>2, <1>3

LEMMA RegistryKept ==
  ASSUME ReleaseIInv, UNCHANGED registryVars, used'.dispatches = 0 => used.dispatches = 0
  PROVE  RegistryOK'
BY DEF ReleaseIInv, RegistryOK, registryVars, DistTagsFit, MergeBackIsFinal

\* What a step leaves of the steps to come.
LEMMA StepOKKept ==
  ASSUME ReleaseIInv, Remembers, started, started',
         DOMAIN npm \subseteq DOMAIN npm', tags \subseteq tags',
         used.dispatches > 0 => used'.dispatches > 0,
         NEW step, NEW commit, StepOK(step, commit)
  PROVE  StepOK(step, commit)'
BY DEF StepOK, Remembers

LEMMA RunKept ==
  ASSUME ReleaseIInv, Remembers, started, started',
         DOMAIN npm \subseteq DOMAIN npm', tags \subseteq tags',
         used.dispatches > 0 => used'.dispatches > 0,
         run # None, run' # None, run'.commit = run.commit,
         run'.steps \subseteq run.steps \cup {"rerun"}
  PROVE  RunOK'
<1>1. ASSUME NEW step \in run'.steps
      PROVE  StepOK(step, run.commit)'
  <2>1. StepOK(step, run.commit)
    BY <1>1 DEF ReleaseIInv, RunOK, StepOK, JobSteps
  <2> QED
    BY <2>1, StepOKKept
<1> QED
  BY <1>1 DEF RunOK, StepOK

LEMMA UpcomingKept ==
  ASSUME ReleaseIInv, UNCHANGED <<branch, versionPR, starting, pending>>,
         started' => started, used'.failures = used.failures,
         run # None, run' # None, run'.commit = run.commit,
         \A step \in {"rerun", "exit prerelease", "changesets"} :
           step \in run'.steps <=> step \in run.steps
  PROVE  UpcomingOK'
<1>1. ASSUME Upcoming
      PROVE  Upcoming'
  <2>1. run'.steps \cap {"exit prerelease", "changesets"} # {}
          <=> run.steps \cap {"exit prerelease", "changesets"} # {}
    OBVIOUS
  <2> QED
    BY <1>1, <2>1 DEF Upcoming
<1> QED
  BY <1>1 DEF ReleaseIInv, UpcomingOK

LEMMA PullRequestKept ==
  ASSUME ReleaseIInv, Remembers, UNCHANGED versionPR
  PROVE  PullRequestOK'
BY DEF ReleaseIInv, PullRequestOK, Remembers

LEMMA StartReleaseOK ==
  ASSUME ReleaseIInv, StartRelease
  PROVE  ReleaseIInv'
<1>1. "start" \in starting /\ starting' = (starting \ {"start"}) \cup {"rerun"}
  BY DEF StartRelease
<1>2. /\ ~started /\ run = None /\ pending = None
      /\ branch = [version |-> OldVersion, mode |-> "none", fresh |-> 1, recorded |-> 0]
      /\ used.commits = 0 /\ used.dispatches = 0
      /\ versionPR = None
  BY <1>1 DEF ReleaseIInv, StartingOK, HeadOK
<1>3. /\ branch' = [version |-> OldVersion, mode |-> "pre", fresh |-> 1, recorded |-> 0]
      /\ started' = TRUE /\ versionPR' = versionPR /\ run' = run /\ pending' = pending
      /\ used' = used
      /\ UNCHANGED registryVars
  BY <1>2 DEF StartRelease
<1>4. branch' \in BranchCommits
  BY <1>3, VersionArithmetic DEF BranchCommits
<1>5. ReleaseTypeOK'
  BY <1>1, <1>3, <1>4 DEF ReleaseIInv, ReleaseTypeOK, registryVars
<1>6. Consistent(branch', used.commits + 1)
  BY <1>2, <1>3, VersionArithmetic DEF Consistent, IsFinal
<1>7. HeadOK'
  BY <1>1, <1>2, <1>3, <1>4, <1>6 DEF HeadOK, Earlier
<1>8. PullRequestOK' /\ PendingOK' /\ RunOK'
  BY <1>2, <1>3 DEF PullRequestOK, PendingOK, RunOK
<1>9. StartingOK'
  BY <1>1, <1>3 DEF StartingOK
<1>10. UpcomingOK'
  BY <1>1 DEF UpcomingOK, Upcoming
<1>11. RegistryOK'
  BY <1>1, <1>3, RegistryKept
<1> QED
  BY <1>5, <1>7, <1>8, <1>9, <1>10, <1>11 DEF ReleaseIInv

LEMMA ExitPrereleaseOK ==
  ASSUME ReleaseIInv, ExitPrerelease
  PROVE  ReleaseIInv'
<1> DEFINE next == IF branch = run.commit THEN {"rerun"} ELSE {}
<1>1. /\ run \in Runs /\ run # None /\ "exit prerelease" \in run.steps
      /\ run' \in Runs /\ run' # None /\ run'.commit = run.commit
      /\ run'.steps = (run.steps \ {"exit prerelease"}) \cup next
      /\ used' = used /\ started
  <2>1. Step("exit prerelease", next) /\ next \in SUBSET (JobSteps \cup {"rerun"})
    BY DEF ExitPrerelease
  <2> HIDE DEF next
  <2> QED
    BY <2>1, StepShape
<1>2. /\ branch' = IF branch = run.commit THEN [branch EXCEPT !.mode = "exit"] ELSE branch
      /\ UNCHANGED <<versionPR, started, starting, pending, registryVars>>
  BY DEF ExitPrerelease
<1>7. used' = used
  BY <1>1
<1>3. run.commit.mode = "pre" /\ used.dispatches > 0
  BY <1>1 DEF ReleaseIInv, RunOK, StepOK, Prerelease
<1>4. /\ branch \in BranchCommits
      /\ used.commits \in Nat /\ used.dispatches \in Nat
  BY DEF ReleaseIInv, ReleaseTypeOK
<1>5. CASE branch = run.commit
  <2>1. /\ branch' \in BranchCommits /\ branch'.mode = "exit" /\ branch.mode = "pre"
        /\ branch'.version = branch.version
        /\ branch'.fresh = branch.fresh /\ branch'.recorded = branch.recorded
    <3>1. branch' = [branch EXCEPT !.mode = "exit"] /\ branch.mode = "pre"
      BY <1>2, <1>3, <1>5
    <3> QED
      BY <3>1, <1>4 DEF BranchCommits
  <2>2. Remembers
    <3>1. branch'.fresh >= branch.fresh
      BY <2>1, <1>4, CommitNumbers
    <3>3. used'.commits \in Nat /\ used'.commits >= used.commits
      BY <1>4, <1>7
    <3>4. used'.dispatches \in Nat /\ used'.dispatches >= used.dispatches
      BY <1>4, <1>7
    <3>2. branch'.mode = "none" <=> branch.mode = "none"
      BY <2>1
    <3> QED
      BY <2>1, <3>1, <3>2, <3>3, <3>4, SameVersionRemembers DEF ReleaseIInv
  <2>3. HeadOK'
    <3>1. Earlier(branch, branch, used) /\ branch.fresh + branch.recorded = used.commits + 1
      BY <1>1, <2>1 DEF ReleaseIInv, HeadOK
    <3>2. Consistent(branch', used.commits + 1)
      BY <2>1, <3>1 DEF Earlier, Consistent
    <3>3. Earlier(branch', branch', used')
      <4>1. branch'.fresh <= branch'.fresh
        BY <2>1, CommitNumbers
      <4>2. used'.commits = used.commits /\ ~(used'.dispatches = 0)
        BY <1>3, <1>4, <1>7
      <4>3. Consistent(branch', used'.commits + 1)
        BY <3>2, <4>2
      <4> QED
        BY <2>1, <4>1, <4>2, <4>3 DEF Earlier
    <3> QED
      BY <1>1, <1>2, <2>1, <3>1, <3>3 DEF HeadOK
  <2>4. StartingOK' /\ PendingOK'
    BY <1>1, <1>2, <2>2 DEF ReleaseIInv, StartingOK, PendingOK, Remembers
  <2>5. UpcomingOK'
    BY <1>1, <1>5 DEF UpcomingOK, Upcoming
  <2>6. ReleaseTypeOK'
    BY <1>1, <1>2, <2>1 DEF ReleaseIInv, ReleaseTypeOK, registryVars
  <2>7. PullRequestOK' /\ RegistryOK'
    BY <1>1, <1>2, <2>2, PullRequestKept, RegistryKept
  <2>8. RunOK'
    BY <1>1, <1>2, <1>4, <2>2, RunKept DEF registryVars
  <2> QED
    BY <2>3, <2>4, <2>5, <2>6, <2>7, <2>8 DEF ReleaseIInv
<1>6. CASE branch # run.commit
  <2>1. branch' = branch /\ run'.steps = run.steps \ {"exit prerelease"}
    BY <1>1, <1>2, <1>6
  <2>2. Remembers /\ HeadOK' /\ StartingOK' /\ PendingOK'
    BY <1>1, <1>2, <2>1, JobStepKeeps
  <2>3. UpcomingOK'
    <3>1. Upcoming => Upcoming'
      BY <1>1, <1>2, <1>6, <2>1 DEF Upcoming
    <3> QED
      BY <1>1, <1>2, <3>1 DEF ReleaseIInv, UpcomingOK
  <2>4. ReleaseTypeOK'
    BY <1>1, <1>2, <2>1 DEF ReleaseIInv, ReleaseTypeOK, registryVars
  <2>5. PullRequestOK' /\ RegistryOK'
    BY <1>1, <1>2, <2>2, PullRequestKept, RegistryKept
  <2>6. RunOK'
    BY <1>1, <1>2, <1>4, <2>1, <2>2, RunKept DEF registryVars
  <2> QED
    BY <2>2, <2>3, <2>4, <2>5, <2>6 DEF ReleaseIInv
<1> QED
  BY <1>5, <1>6

\* An event asks for a run on the head of the branch.
LEMMA EventAsks ==
  ASSUME NEW e \in {"push", "dispatch"}, NEW b \in BOOLEAN, branch' \in BranchCommits,
         pending' = [event |-> e, ref |-> "release", bot |-> b, commit |-> branch']
  PROVE  /\ pending' \in Events /\ pending' # None
         /\ pending'.commit = branch' /\ pending'.ref = "release"
         /\ pending'.event = e /\ pending'.bot = b
<1>1. pending' \in Events
  BY DEF Events
<1>2. /\ pending'.commit = branch' /\ pending'.ref = "release"
      /\ pending'.event = e /\ pending'.bot = b
  OBVIOUS
<1> QED
  BY <1>1, <1>2, NoneIsNothing

LEMMA RerunOK ==
  ASSUME ReleaseIInv, Rerun
  PROVE  ReleaseIInv'
<1>1. \/ Step("rerun", {}) /\ starting' = starting
      \/ "rerun" \in starting /\ starting' = starting \ {"rerun"} /\ run' = run /\ used' = used
  BY DEF Rerun
<1>2. started /\ used' = used
  <2>1. CASE Step("rerun", {})
    BY <2>1, StepShape
  <2>2. CASE "rerun" \in starting /\ used' = used
    BY <2>2 DEF ReleaseIInv, StartingOK
  <2> QED
    BY <1>1, <2>1, <2>2
<1>3. branch' = branch /\ versionPR' = versionPR /\ started' = started /\ UNCHANGED registryVars
  BY DEF Rerun
<1>4. pending' = [event |-> "dispatch", ref |-> "release", bot |-> TRUE, commit |-> branch']
  BY DEF Rerun, Dispatch
<1>5. branch \in BranchCommits /\ Earlier(branch, branch, used)
  BY <1>2 DEF ReleaseIInv, ReleaseTypeOK, HeadOK
<1>6. /\ pending' \in Events /\ pending' # None
      /\ pending'.commit = branch /\ pending'.ref = "release" /\ pending'.bot
  BY <1>3, <1>4, <1>5, EventAsks
<1>7. Remembers
  BY <1>2, <1>3, SameHeadRemembers DEF ReleaseIInv
<1>8. run' \in Runs \cup {None} /\ RunOK'
  <2>1. CASE Step("rerun", {})
    <3>1. /\ run # None /\ run' \in Runs /\ run' # None /\ run'.commit = run.commit
          /\ run'.steps \subseteq run.steps
      BY <2>1, StepShape
    <3> QED
      BY <1>2, <1>3, <1>7, <3>1, RunKept DEF registryVars
  <2>2. CASE run' = run
    <3>1. CASE run = None
      BY <2>2, <3>1 DEF RunOK
    <3>2. CASE run # None
      BY <1>2, <1>3, <1>7, <2>2, <3>2, RunKept DEF registryVars, ReleaseIInv, ReleaseTypeOK
    <3> QED
      BY <3>1, <3>2
  <2> QED
    BY <1>1, <2>1, <2>2
<1>9. starting' \subseteq {"start", "rerun"} /\ StartingOK'
  BY <1>1, <1>3 DEF ReleaseIInv, ReleaseTypeOK, StartingOK
<1>10. ReleaseTypeOK'
  BY <1>2, <1>3, <1>6, <1>8, <1>9 DEF ReleaseIInv, ReleaseTypeOK, registryVars
<1>11. HeadOK'
  BY <1>2, <1>3 DEF ReleaseIInv, HeadOK
<1>12. PullRequestOK' /\ RegistryOK'
  BY <1>2, <1>3, <1>7, PullRequestKept, RegistryKept
<1>13. PendingOK'
  BY <1>2, <1>3, <1>5, <1>6 DEF PendingOK
<1>14. UpcomingOK'
  BY <1>3, <1>6 DEF UpcomingOK, Upcoming
<1> QED
  BY <1>8, <1>9, <1>10, <1>11, <1>12, <1>13, <1>14 DEF ReleaseIInv

LEMMA ChangesetsOK ==
  ASSUME ReleaseIInv, Changesets
  PROVE  ReleaseIInv'
<1>1. /\ run \in Runs /\ run # None /\ "changesets" \in run.steps
      /\ run' \in Runs /\ run' # None /\ run'.commit = run.commit
      /\ run'.steps = run.steps \ {"changesets"}
      /\ started
  BY StepShape DEF Changesets
<1>2. /\ used' = used /\ branch' = branch /\ started' = started
      /\ starting' = starting /\ pending' = pending
  BY StepShape DEF Changesets
<1>3. UNCHANGED registryVars
  BY DEF Changesets
<1>4. versionPR' = IF HasPendingChangesets(run.commit)
                     THEN [commit |-> run.commit, title |-> TitlePatch(run.commit.version)]
                     ELSE versionPR
  BY DEF Changesets
<1>5. run.commit \in BranchCommits /\ Earlier(run.commit, branch, used)
  BY <1>1 DEF ReleaseIInv, RunOK, StepOK, JobSteps, Runs
<1>6. HasPendingChangesets(run.commit) =>
        /\ versionPR' \in VersionPRs /\ versionPR' # None
        /\ versionPR'.commit = run.commit
        /\ versionPR'.title = TitlePatch(run.commit.version)
  <2>1. TitlePatch(run.commit.version) \in Int
    BY <1>5, CommitNumbers DEF TitlePatch
  <2> QED
    BY <1>4, <1>5, <2>1, NoneIsNothing DEF VersionPRs
<1>7. ~HasPendingChangesets(run.commit) => versionPR' = versionPR
  BY <1>4
<1>8. ReleaseTypeOK'
  BY <1>1, <1>2, <1>3, <1>6, <1>7 DEF ReleaseIInv, ReleaseTypeOK, registryVars
<1>9. Remembers /\ HeadOK' /\ StartingOK' /\ PendingOK'
  BY <1>1, <1>2, JobStepKeeps
<1>10. PullRequestOK'
  BY <1>5, <1>6, <1>7, <1>9 DEF PullRequestOK, ReleaseIInv, Remembers
<1>11. RunOK'
  BY <1>1, <1>2, <1>3, <1>9, RunKept DEF registryVars
<1>12. RegistryOK'
  BY <1>2, <1>3, RegistryKept
<1>13. Upcoming => Upcoming'
  <2>1. ~("changesets" \in run'.steps)
    BY <1>1
  <2>2. \A step \in {"rerun", "exit prerelease"} : step \in run'.steps <=> step \in run.steps
    BY <1>1
  <2>3. run.commit = branch /\ HasPendingChangesets(branch) => versionPR' # None /\ versionPR'.commit = branch
    BY <1>6
  <2> QED
    BY <1>1, <1>2, <1>7, <2>1, <2>2, <2>3 DEF Upcoming
<1>14. UpcomingOK'
  BY <1>2, <1>13 DEF UpcomingOK, ReleaseIInv
<1> QED
  BY <1>8, <1>9, <1>10, <1>11, <1>12, <1>14 DEF ReleaseIInv

\* The steps that publish leave the branch and the version PR alone.
LEMMA RegistryStep ==
  ASSUME ReleaseIInv, UNCHANGED <<branchVars, pending>>,
         NEW step \in {"publish", "delete next", "push tags", "create release", "merge"},
         NEW next \in SUBSET {"delete next", "push tags", "create release"},
         Step(step, next),
         npm' \in [DOMAIN npm' -> BOOLEAN],
         distTags' \in [latest : Versions, next : Versions \cup {None}],
         DOMAIN npm \subseteq DOMAIN npm', tags \subseteq tags',
         \A s \in next : StepOK(s, run.commit)',
         RegistryOK'
  PROVE  ReleaseIInv'
<1>1. /\ run \in Runs /\ run # None
      /\ run' \in Runs /\ run' # None /\ run'.commit = run.commit
      /\ run'.steps = (run.steps \ {step}) \cup next
      /\ started
  BY StepShape DEF JobSteps
<1>2. /\ used' = used /\ branch' = branch /\ started' = started /\ starting' = starting
      /\ pending' = pending /\ versionPR' = versionPR
  BY StepShape DEF JobSteps, branchVars
<1>3. Remembers /\ HeadOK' /\ StartingOK' /\ PendingOK' /\ PullRequestOK'
  BY <1>1, <1>2, JobStepKeeps, PullRequestKept
<1>4. ReleaseTypeOK'
  BY <1>1, <1>2 DEF ReleaseIInv, ReleaseTypeOK
<1>5. RunOK'
  <2>1. ASSUME NEW s \in run.steps
        PROVE  StepOK(s, run.commit)'
    <3>1. StepOK(s, run.commit)
      BY <1>1, <2>1 DEF ReleaseIInv, RunOK
    <3> QED
      BY <1>1, <1>2, <1>3, <3>1, StepOKKept
  <2>2. \A s \in run'.steps : StepOK(s, run.commit)'
    BY <1>1, <2>1
  <2> QED
    BY <1>1, <1>2, <2>2 DEF RunOK, StepOK
<1>6. UpcomingOK'
  <2>1. \A s \in {"rerun", "exit prerelease", "changesets"} : s \in run'.steps <=> s \in run.steps
    BY <1>1
  <2> QED
    BY <1>1, <1>2, <2>1, UpcomingKept
<1> QED
  BY <1>3, <1>4, <1>5, <1>6 DEF ReleaseIInv

\* A commit without pending changesets is a candidate in pre mode or a final
\* version.
LEMMA NothingPending ==
  ASSUME NEW c, Earlier(c, branch, used), ~HasPendingChangesets(c)
  PROVE  /\ c.mode = "pre" <=> ~IsFinal(c.version)
         /\ c.mode \in {"none", "pre"}
<1>1. /\ c \in BranchCommits /\ c.fresh \in Nat /\ c.recorded \in Nat
      /\ c.mode \in {"none", "pre", "exit"}
      /\ Consistent(c, used.commits + 1)
  BY CommitNumbers DEF Earlier, BranchCommits
<1>2. CASE c.mode = "pre"
  <2>1. c.fresh = 0
    BY <1>1, <1>2 DEF HasPendingChangesets, PendingChangesets
  <2>2. c.recorded # 0
    BY <1>1, <1>2, <2>1 DEF Consistent
  <2> QED
    BY <1>1, <1>2, <2>2 DEF Consistent
<1>3. CASE c.mode = "none"
  BY <1>1, <1>3 DEF Consistent
<1>4. CASE c.mode = "exit"
  BY <1>1, <1>4 DEF Consistent, HasPendingChangesets, PendingChangesets
<1> QED
  BY <1>1, <1>2, <1>3, <1>4

LEMMA PublishOK ==
  ASSUME ReleaseIInv, Publish
  PROVE  ReleaseIInv'
<1> DEFINE version == run.commit.version
           prerelease == Prerelease(run.commit)
           tag == DistTag(version, prerelease)
           next == IF IsPublishedOnNpm(version) THEN {}
                   ELSE {IF tag = "latest" THEN "delete next" ELSE "push tags"}
<1>1. /\ Step("publish", next)
      /\ npm' = IF IsPublishedOnNpm(version) THEN npm
                ELSE [v \in DOMAIN npm \cup {version} |->
                        IF v = version THEN prerelease ELSE npm[v]]
      /\ distTags' = IF IsPublishedOnNpm(version) \/ tag = "tmp" THEN distTags
                     ELSE [distTags EXCEPT ![tag] = version]
      /\ UNCHANGED <<branchVars, pending, tags, releases, mergePR>>
  BY DEF Publish
<1>2. next \in SUBSET {"delete next", "push tags", "create release"}
  OBVIOUS
<1>3. run # None /\ "publish" \in run.steps /\ used' = used /\ started /\ started' = started
  <2>1. next \in SUBSET (JobSteps \cup {"rerun"})
    BY <1>2 DEF JobSteps
  <2> HIDE DEF next
  <2> QED
    BY <1>1, <2>1, StepShape DEF branchVars
<1>4. /\ Earlier(run.commit, branch, used)
      /\ prerelease <=> ~IsFinal(version)
      /\ version \in Versions
  <2>1. Earlier(run.commit, branch, used) /\ ~HasPendingChangesets(run.commit)
    BY <1>3 DEF ReleaseIInv, RunOK, StepOK, JobSteps
  <2> QED
    BY <2>1, NothingPending, CommitNumbers DEF Prerelease, Earlier
<1>5. version.patch <= MaxChangesets + 1 /\ (used.dispatches = 0 => ~IsFinal(version))
  <2>1. /\ Consistent(run.commit, used.commits + 1)
        /\ run.commit.fresh \in Nat /\ version.patch \in Int
        /\ used.commits \in Nat /\ used.commits <= MaxChangesets /\ MaxChangesets \in Nat
    BY <1>4, CommitNumbers, UsedNumbers, BoundAssumption DEF Earlier, ReleaseIInv
  <2>2. version.patch <= MaxChangesets + 1
    BY <2>1, VersionArithmetic DEF Consistent
  <2> QED
    BY <1>4, <2>2 DEF Earlier, Prerelease
<1>6. CASE version \in DOMAIN npm
  <2>1. UNCHANGED registryVars /\ next = {}
    BY <1>1, <1>6 DEF IsPublishedOnNpm, registryVars
  <2>2. RegistryOK'
    BY <1>3, <2>1, RegistryKept
  <2>3. Step("publish", {})
    BY <1>1, <2>1
  <2>4. /\ npm' \in [DOMAIN npm' -> BOOLEAN]
        /\ distTags' \in [latest : Versions, next : Versions \cup {None}]
    BY <2>1 DEF ReleaseIInv, ReleaseTypeOK, registryVars
  <2> QED
    BY <1>1, <2>1, <2>2, <2>3, <2>4, RegistryStep DEF registryVars
<1>7. CASE version \notin DOMAIN npm
  <2>1. /\ DOMAIN npm' = DOMAIN npm \cup {version}
        /\ npm'[version] = prerelease
        /\ \A v \in DOMAIN npm : npm'[v] = npm[v]
        /\ npm' \in [DOMAIN npm' -> BOOLEAN]
    BY <1>1, <1>7 DEF IsPublishedOnNpm, Prerelease, ReleaseIInv, ReleaseTypeOK
  <2>2. /\ distTags \in [latest : Versions, next : Versions \cup {None}]
        /\ distTags' = IF tag = "tmp" THEN distTags ELSE [distTags EXCEPT ![tag] = version]
        /\ tag = IF prerelease THEN "next"
                 ELSE IF Precedes(distTags.latest, version) THEN "latest" ELSE "tmp"
    BY <1>1, <1>7 DEF IsPublishedOnNpm, DistTag, ReleaseIInv, ReleaseTypeOK
  <2>3. /\ distTags' \in [latest : Versions, next : Versions \cup {None}]
        /\ distTags'.latest = IF tag = "latest" THEN version ELSE distTags.latest
        /\ distTags'.next = IF tag = "next" THEN version ELSE distTags.next
    BY <1>4, <2>2
  <2>4. /\ \A v \in DOMAIN npm : v \in Versions /\ v.patch <= MaxChangesets + 1
        /\ \A v \in DOMAIN npm : npm[v] <=> ~IsFinal(v)
        /\ IsFinal(distTags.latest)
        /\ \A v \in DOMAIN npm : IsFinal(v) => ~Precedes(distTags.latest, v)
        /\ distTags.next # None => ~IsFinal(distTags.next)
        /\ releases \subseteq tags /\ tags \subseteq DOMAIN npm
        /\ used.dispatches = 0 => \A v \in DOMAIN npm : IsFinal(v) => v = OldVersion
        /\ MergeBackIsFinal
    BY DEF ReleaseIInv, RegistryOK, DistTagsFit
  <2> HIDE DEF tag, next
  <2>5. \A v \in DOMAIN npm' : IsFinal(v) => ~Precedes(distTags'.latest, v)
    <3>1. SUFFICES ASSUME NEW v \in DOMAIN npm', IsFinal(v), Precedes(distTags'.latest, v)
                   PROVE  FALSE
      OBVIOUS
    <3>2. v \in Versions /\ (v \in DOMAIN npm \/ v = version)
      BY <1>4, <2>1, <2>4, <3>1
    <3>3. CASE tag = "latest"
      <4>1. Precedes(distTags.latest, version) /\ distTags'.latest = version
        BY <2>2, <2>3, <3>3
      <4>2. v # version
        BY <1>4, <3>1, <4>1, PrecedesIsIrreflexive
      <4>3. Precedes(distTags.latest, v)
        BY <1>4, <2>2, <3>1, <3>2, <4>1, PrecedesIsTransitive
      <4> QED
        BY <2>4, <3>1, <3>2, <4>2, <4>3
    <3>4. CASE tag # "latest"
      <4>1. distTags'.latest = distTags.latest
        BY <2>3, <3>4
      <4>2. CASE v = version
        BY <1>4, <2>2, <3>1, <3>4, <4>1, <4>2
      <4> QED
        BY <2>4, <3>1, <3>2, <4>1, <4>2
    <3> QED
      BY <3>3, <3>4
  <2>6. DistTagsFit'
    <3>1. \A v \in DOMAIN npm' : npm'[v] <=> ~IsFinal(v)
      BY <1>4, <2>1, <2>4
    <3>2. IsFinal(distTags'.latest)
      BY <1>4, <2>2, <2>3, <2>4
    <3>3. distTags'.next # None => ~IsFinal(distTags'.next)
      BY <1>4, <2>2, <2>3, <2>4
    <3> QED
      BY <2>5, <3>1, <3>2, <3>3 DEF DistTagsFit
  <2>7. RegistryOK'
    <3>1. releases' = releases /\ tags' = tags /\ mergePR' = mergePR
      BY <1>1
    <3>2. MergeBackIsFinal'
      BY <2>4, <3>1 DEF MergeBackIsFinal
    <3>3. \A v \in DOMAIN npm' : v \in Versions /\ v.patch <= MaxChangesets + 1
      BY <1>4, <1>5, <2>1, <2>4
    <3>4. used.dispatches = 0 => \A v \in DOMAIN npm' : IsFinal(v) => v = OldVersion
      BY <1>5, <2>1, <2>4
    <3> QED
      BY <1>3, <2>1, <2>4, <2>6, <3>1, <3>2, <3>3, <3>4 DEF RegistryOK
  <2>8. \A s \in next : StepOK(s, run.commit)'
    <3>1. SUFFICES ASSUME NEW s \in {"delete next", "push tags"}
                   PROVE  StepOK(s, run.commit)'
      BY DEF next
    <3>2. version \in DOMAIN npm'
      BY <2>1
    <3>3. branch' = branch /\ used' = used /\ started'
      <4>1. UNCHANGED branchVars
        BY DEF Publish
      <4>2. branch' = branch
        BY <4>1 DEF branchVars
      <4>3. used' = used /\ started'
        BY <1>3
      <4> QED
        BY <4>2, <4>3
    <3>4. run'.commit = run.commit
      <4>1. next \in SUBSET (JobSteps \cup {"rerun"})
        BY <1>2 DEF JobSteps
      <4> QED
        BY <1>1, <4>1, StepShape
    <3>5. Earlier(run.commit, branch', used')
      BY <1>4, <3>3
    <3> QED
      BY <3>2, <3>3, <3>4, <3>5 DEF StepOK
  <2>9. DOMAIN npm \subseteq DOMAIN npm' /\ tags \subseteq tags'
    BY <1>1, <2>1
  <2> QED
    BY <1>1, <1>2, <2>1, <2>3, <2>7, <2>8, <2>9, RegistryStep
<1> QED
  BY <1>6, <1>7

\* A step of the job that publishes, and what may follow it.
LEMMA JobGoesOn ==
  ASSUME ReleaseIInv, UNCHANGED branchVars,
         NEW step \in {"publish", "delete next", "push tags", "create release", "merge"},
         NEW next \in SUBSET {"delete next", "push tags", "create release"},
         Step(step, next)
  PROVE  /\ run # None /\ step \in run.steps
         /\ Earlier(run.commit, branch, used) /\ StepOK(step, run.commit)
         /\ run'.commit = run.commit /\ used' = used /\ started'
         /\ run.commit.version \in DOMAIN npm'
              => StepOK("delete next", run.commit)' /\ StepOK("push tags", run.commit)'
         /\ run.commit.version \in tags' => StepOK("create release", run.commit)'
<1>1. /\ run # None /\ step \in run.steps
      /\ run'.commit = run.commit /\ used' = used /\ started
  BY StepShape DEF JobSteps
<1>2. StepOK(step, run.commit)
  BY <1>1 DEF ReleaseIInv, RunOK
<1>3. Earlier(run.commit, branch, used)
  BY <1>2 DEF StepOK, JobSteps
<1>4. branch' = branch
  BY DEF branchVars
<1>5. started' = started
  BY DEF branchVars
<1>6. Earlier(run'.commit, branch', used')
  BY <1>1, <1>3, <1>4
<1>7. started'
  BY <1>1, <1>5
<1>8. run'.commit.version \in DOMAIN npm'
        => StepOK("delete next", run.commit)' /\ StepOK("push tags", run.commit)'
  BY <1>6, <1>7 DEF StepOK
<1>9. run'.commit.version \in tags' => StepOK("create release", run.commit)'
  BY <1>6, <1>7 DEF StepOK
<1> QED
  BY <1>1, <1>2, <1>3, <1>7, <1>8, <1>9

LEMMA DeleteNextOK ==
  ASSUME ReleaseIInv, DeleteNext
  PROVE  ReleaseIInv'
<1> DEFINE next == IF distTags.next = None THEN {} ELSE {"push tags"}
<1>1. /\ Step("delete next", next)
      /\ UNCHANGED <<branchVars, pending>>
      /\ next \in SUBSET {"delete next", "push tags", "create release"}
      /\ \A s \in next : s \in {"delete next", "push tags"}
  BY DEF DeleteNext
<1> HIDE DEF next
<1>2. /\ npm' = npm /\ tags' = tags /\ releases' = releases /\ mergePR' = mergePR
      /\ distTags' = [distTags EXCEPT !.next = None]
  BY DEF DeleteNext
<1>3. /\ run # None /\ StepOK("delete next", run.commit)
      /\ run'.commit = run.commit /\ used' = used
  BY <1>1, JobGoesOn
<1>4. run.commit.version \in DOMAIN npm
  BY <1>3 DEF StepOK
<1>5. /\ distTags' \in [latest : Versions, next : Versions \cup {None}]
      /\ distTags'.latest = distTags.latest /\ distTags'.next = None
      /\ npm \in [DOMAIN npm -> BOOLEAN]
  BY <1>2 DEF ReleaseIInv, ReleaseTypeOK
<1>6. RegistryOK'
  BY <1>2, <1>3, <1>5 DEF ReleaseIInv, RegistryOK, DistTagsFit, MergeBackIsFinal
<1>7. /\ npm' \in [DOMAIN npm' -> BOOLEAN]
      /\ DOMAIN npm \subseteq DOMAIN npm' /\ tags \subseteq tags'
  BY <1>2, <1>5
<1>8. \A s \in next : StepOK(s, run.commit)'
  <2>1. run.commit.version \in DOMAIN npm'
    BY <1>2, <1>4
  <2> QED
    BY <1>1, <2>1, JobGoesOn
<1> QED
  BY <1>1, <1>5, <1>6, <1>7, <1>8, RegistryStep

LEMMA PushTagsOK ==
  ASSUME ReleaseIInv, PushTags
  PROVE  ReleaseIInv'
<1> DEFINE next == {"create release"}
<1>1. /\ Step("push tags", next)
      /\ UNCHANGED <<branchVars, pending>>
      /\ next \in SUBSET {"delete next", "push tags", "create release"}
      /\ \A s \in next : s = "create release"
  BY DEF PushTags
<1> HIDE DEF next
<1>2. /\ npm' = npm /\ distTags' = distTags /\ releases' = releases /\ mergePR' = mergePR
      /\ tags' = tags \cup {run.commit.version}
  BY DEF PushTags
<1>3. /\ run # None /\ StepOK("push tags", run.commit)
      /\ run'.commit = run.commit /\ used' = used
      /\ run.commit.version \in tags' => StepOK("create release", run.commit)'
  BY <1>1, JobGoesOn
<1>4. run.commit.version \in DOMAIN npm
  BY <1>3 DEF StepOK
<1>5. RegistryOK'
  <2>1. releases' \subseteq tags' /\ tags' \subseteq DOMAIN npm'
    BY <1>2, <1>4 DEF ReleaseIInv, RegistryOK
  <2> QED
    BY <1>2, <1>3, <2>1 DEF ReleaseIInv, RegistryOK, DistTagsFit, MergeBackIsFinal
<1>6. /\ npm' \in [DOMAIN npm' -> BOOLEAN]
      /\ distTags' \in [latest : Versions, next : Versions \cup {None}]
      /\ DOMAIN npm \subseteq DOMAIN npm' /\ tags \subseteq tags'
  BY <1>2 DEF ReleaseIInv, ReleaseTypeOK
<1>7. \A s \in next : StepOK(s, run.commit)'
  BY <1>2, <1>3 DEF next
<1> QED
  BY <1>1, <1>5, <1>6, <1>7, RegistryStep

LEMMA CreateReleaseOK ==
  ASSUME ReleaseIInv, CreateRelease
  PROVE  ReleaseIInv'
<1>1. Step("create release", {}) /\ UNCHANGED <<branchVars, pending>>
  BY DEF CreateRelease
<1>2. /\ npm' = npm /\ distTags' = distTags /\ tags' = tags /\ mergePR' = mergePR
      /\ releases' = releases \cup {run.commit.version}
  BY DEF CreateRelease
<1>3. /\ run # None /\ StepOK("create release", run.commit) /\ used' = used
  <2>1. {} \in SUBSET {"delete next", "push tags", "create release"}
    OBVIOUS
  <2> QED
    BY <1>1, <2>1, JobGoesOn
<1>4. run.commit.version \in tags
  BY <1>3 DEF StepOK
<1>5. RegistryOK'
  <2>1. releases' \subseteq tags' /\ tags' \subseteq DOMAIN npm'
    BY <1>2, <1>4 DEF ReleaseIInv, RegistryOK
  <2> QED
    BY <1>2, <1>3, <2>1 DEF ReleaseIInv, RegistryOK, DistTagsFit, MergeBackIsFinal
<1>6. /\ npm' \in [DOMAIN npm' -> BOOLEAN]
      /\ distTags' \in [latest : Versions, next : Versions \cup {None}]
      /\ DOMAIN npm \subseteq DOMAIN npm' /\ tags \subseteq tags'
  BY <1>2 DEF ReleaseIInv, ReleaseTypeOK
<1>7. /\ {} \in SUBSET {"delete next", "push tags", "create release"}
      /\ \A s \in {} : StepOK(s, run.commit)'
  OBVIOUS
<1> QED
  BY <1>1, <1>5, <1>6, <1>7, RegistryStep

LEMMA MergeOK ==
  ASSUME ReleaseIInv, Merge
  PROVE  ReleaseIInv'
<1>1. Step("merge", {}) /\ UNCHANGED <<branchVars, pending>>
  BY DEF Merge
<1>2. /\ npm' = npm /\ distTags' = distTags /\ tags' = tags /\ releases' = releases
      /\ mergePR' = run.commit
  BY DEF Merge
<1>3. /\ run # None /\ StepOK("merge", run.commit) /\ used' = used
      /\ Earlier(run.commit, branch, used)
  <2>1. {} \in SUBSET {"delete next", "push tags", "create release"}
    OBVIOUS
  <2> QED
    BY <1>1, <2>1, JobGoesOn
<1>4. MergeBackIsFinal'
  <2>1. ~HasPendingChangesets(run.commit) /\ IsFinal(run.commit.version) /\ ~Prerelease(run.commit)
    BY <1>3 DEF StepOK
  <2>2. run.commit.mode = "none"
    BY <1>3, <2>1, NothingPending DEF Prerelease
  <2> QED
    BY <1>2, <2>1, <2>2 DEF MergeBackIsFinal
<1>5. RegistryOK'
  BY <1>2, <1>3, <1>4 DEF ReleaseIInv, RegistryOK, DistTagsFit
<1>6. /\ npm' \in [DOMAIN npm' -> BOOLEAN]
      /\ distTags' \in [latest : Versions, next : Versions \cup {None}]
      /\ DOMAIN npm \subseteq DOMAIN npm' /\ tags \subseteq tags'
  BY <1>2 DEF ReleaseIInv, ReleaseTypeOK
<1>7. /\ {} \in SUBSET {"delete next", "push tags", "create release"}
      /\ \A s \in {} : StepOK(s, run.commit)'
  OBVIOUS
<1> QED
  BY <1>1, <1>5, <1>6, <1>7, RegistryStep

-----------------------------------------------------------------------------
(* Runs begin, end and lose steps.                                         *)

LEMMA BeginRunOK ==
  ASSUME ReleaseIInv, BeginRun
  PROVE  ReleaseIInv'
<1>1. run = None /\ pending # None /\ pending \in Events /\ started
  BY DEF BeginRun, ReleaseIInv, ReleaseTypeOK, HeadOK
<1>2. pending' = None /\ used' = used
  BY DEF BeginRun
<1>3. branch' = branch /\ versionPR' = versionPR /\ started' = started /\ starting' = starting
  BY DEF BeginRun, branchVars
<1>4. UNCHANGED registryVars
  BY DEF BeginRun
<1>5. run' = [commit |-> pending.commit, steps |-> StepsOf(pending)]
  BY DEF BeginRun
<1>6. run' \in Runs /\ run'.commit = pending.commit /\ run'.steps = StepsOf(pending)
  <2>1. pending.commit \in BranchCommits /\ pending.ref = "release"
    BY <1>1 DEF Events
  <2>2. StepsOf(pending) \subseteq JobSteps \cup {"rerun"}
    BY <2>1, StepsAsked DEF ShouldRunStart
  <2> QED
    BY <1>5, <2>1, <2>2 DEF Runs
<1>7. ReleaseTypeOK'
  BY <1>2, <1>3, <1>4, <1>6 DEF ReleaseIInv, ReleaseTypeOK, registryVars
<1>8. HeadOK' /\ StartingOK' /\ PullRequestOK' /\ RegistryOK'
  <2>1. Remembers
    BY <1>2, <1>3, SameHeadRemembers DEF ReleaseIInv
  <2> QED
    BY <1>1, <1>2, <1>3, <1>4, <2>1, PullRequestKept, RegistryKept DEF ReleaseIInv, HeadOK, StartingOK
<1>9. PendingOK'
  BY <1>2 DEF PendingOK
<1>10. RunOK'
  <2>1. /\ Earlier(pending.commit, branch, used)
        /\ pending.event = "dispatch" /\ ~pending.bot => used.dispatches > 0
    BY <1>1 DEF ReleaseIInv, PendingOK
  <2>2. Earlier(run'.commit, branch', used')
    BY <1>2, <1>3, <1>6, <2>1
  <2>3. /\ "exit prerelease" \in run'.steps => Prerelease(run'.commit) /\ used.dispatches > 0
        /\ "publish" \in run'.steps => ~HasPendingChangesets(run'.commit)
        /\ "merge" \in run'.steps => /\ ~HasPendingChangesets(run'.commit)
                                    /\ IsFinal(run'.commit.version) /\ ~Prerelease(run'.commit)
        /\ run'.steps \cap {"delete next", "push tags", "create release"} = {}
    BY <1>6, <2>1, StepsAsked DEF ShouldRunPromote, ShouldRunPublish, ShouldRunMerge
  <2>4. ASSUME NEW s \in run'.steps
        PROVE  StepOK(s, run.commit)'
    BY <1>2, <2>2, <2>3, <2>4 DEF StepOK
  <2> QED
    BY <2>4 DEF RunOK
<1>11. UpcomingOK'
  <2>1. SUFFICES ASSUME started, used.failures = 0
                 PROVE  Upcoming'
    BY <1>2, <1>3 DEF UpcomingOK
  <2>2. CASE "rerun" \in starting
    BY <1>3, <2>2 DEF Upcoming
  <2>3. /\ pending.ref = "release"
        /\ pending.event \in {"push", "dispatch"} /\ pending.bot \in BOOLEAN
    BY <1>1 DEF Events
  <2>4. run'.steps \cap {"rerun", "exit prerelease", "changesets"} # {}
    BY <1>6, <2>3, StepsAsked DEF ShouldRunPromote, ShouldRunChangesets
  <2>5. CASE pending.commit = branch
    <3>1. run' # None /\ run'.commit = branch'
      BY <1>3, <1>6, <2>5, NoneIsNothing
    <3> QED
      BY <1>2, <2>4, <3>1 DEF Upcoming
  <2> QED
    BY <1>1, <2>1, <2>2, <2>5 DEF ReleaseIInv, UpcomingOK, Upcoming
<1> QED
  BY <1>7, <1>8, <1>9, <1>10, <1>11 DEF ReleaseIInv

LEMMA EndRunOK ==
  ASSUME ReleaseIInv, EndRun
  PROVE  ReleaseIInv'
<1>1. run # None /\ run.steps = {} /\ run' = None /\ used' = used /\ pending' = pending
  BY DEF EndRun
<1>2. branch' = branch /\ versionPR' = versionPR /\ started' = started /\ starting' = starting
  BY DEF EndRun, branchVars
<1>3. UNCHANGED registryVars
  BY DEF EndRun
<1>4. ReleaseTypeOK'
  BY <1>1, <1>2, <1>3 DEF ReleaseIInv, ReleaseTypeOK, registryVars
<1>5. HeadOK' /\ StartingOK' /\ PullRequestOK' /\ RegistryOK'
  <2>1. Remembers
    BY <1>1, <1>2, SameHeadRemembers DEF ReleaseIInv
  <2> QED
    BY <1>1, <1>2, <1>3, <2>1, PullRequestKept, RegistryKept DEF ReleaseIInv, HeadOK, StartingOK
<1>6. PendingOK' /\ RunOK'
  BY <1>1, <1>2 DEF ReleaseIInv, PendingOK, RunOK
<1>7. Upcoming => Upcoming'
  BY <1>1, <1>2 DEF Upcoming
<1>8. UpcomingOK'
  BY <1>1, <1>2, <1>7 DEF ReleaseIInv, UpcomingOK
<1> QED
  BY <1>4, <1>5, <1>6, <1>8 DEF ReleaseIInv

LEMMA StepFailsOK ==
  ASSUME ReleaseIInv, StepFails
  PROVE  ReleaseIInv'
<1>1. \/ /\ run # None
         /\ \E step \in run.steps : run' = [run EXCEPT !.steps = @ \ {step}]
         /\ starting' = starting
      \/ (\E step \in starting : starting' = starting \ {step}) /\ run' = run
  BY DEF StepFails
<1>2. used' = [used EXCEPT !.failures = @ + 1]
  BY DEF StepFails
<1>3. /\ used' \in [commits : 0 .. MaxChangesets, dispatches : Nat, failures : Nat]
      /\ used'.commits = used.commits /\ used'.dispatches = used.dispatches
      /\ used'.failures # 0
  BY <1>2, UsedNumbers DEF ReleaseIInv, ReleaseTypeOK
<1>4. branch' = branch /\ versionPR' = versionPR /\ started' = started /\ pending' = pending
  BY DEF StepFails
<1>5. UNCHANGED registryVars
  BY DEF StepFails
<1>6. \/ run' = run
      \/ /\ run # None /\ run' \in Runs /\ run' # None
         /\ run'.commit = run.commit /\ run'.steps \subseteq run.steps
  <2>1. CASE run' = run
    BY <2>1
  <2>2. CASE run # None /\ \E step \in run.steps : run' = [run EXCEPT !.steps = @ \ {step}]
    <3>1. run \in Runs
      BY <2>2 DEF ReleaseIInv, ReleaseTypeOK
    <3>2. run' \in Runs /\ run'.commit = run.commit /\ run'.steps \subseteq run.steps
      BY <2>2, <3>1 DEF Runs
    <3> QED
      BY <2>2, <3>2, NoneIsNothing
  <2> QED
    BY <1>1, <2>1, <2>2
<1>7. starting' \subseteq starting
  BY <1>1
<1>8. ReleaseTypeOK'
  <2>1. run' \in Runs \cup {None}
    BY <1>6 DEF ReleaseIInv, ReleaseTypeOK
  <2>2. starting' \subseteq {"start", "rerun"}
    BY <1>7 DEF ReleaseIInv, ReleaseTypeOK
  <2> QED
    BY <1>3, <1>4, <1>5, <2>1, <2>2 DEF ReleaseIInv, ReleaseTypeOK, registryVars
<1>9. Remembers
  BY <1>3, <1>4, SameHeadRemembers DEF ReleaseIInv
<1>10. PullRequestOK' /\ RegistryOK'
  BY <1>3, <1>4, <1>5, <1>9, PullRequestKept, RegistryKept
<1>11. HeadOK'
  BY <1>3, <1>4, <1>6, <1>9 DEF ReleaseIInv, HeadOK, Remembers
<1>12. StartingOK' /\ PendingOK'
  BY <1>3, <1>4, <1>7, <1>9 DEF ReleaseIInv, StartingOK, PendingOK, Remembers
<1>13. RunOK'
  <2>1. CASE run = None
    BY <1>6, <2>1 DEF RunOK
  <2>2. CASE run # None
    <3>1. started
      BY <2>2 DEF ReleaseIInv, ReleaseTypeOK, HeadOK
    <3>2. started' /\ (used.dispatches > 0 => used'.dispatches > 0)
      BY <1>3, <1>4, <3>1
    <3>3. DOMAIN npm \subseteq DOMAIN npm' /\ tags \subseteq tags'
      BY <1>5 DEF registryVars
    <3>4. run' # None /\ run'.commit = run.commit /\ run'.steps \subseteq run.steps \cup {"rerun"}
      BY <1>6, <2>2
    <3> QED
      BY <1>9, <2>2, <3>1, <3>2, <3>3, <3>4, RunKept
  <2> QED
    BY <2>1, <2>2
<1>14. UpcomingOK'
  BY <1>3 DEF UpcomingOK
<1> QED
  BY <1>8, <1>10, <1>11, <1>12, <1>13, <1>14 DEF ReleaseIInv

-----------------------------------------------------------------------------
(* Maintainers.                                                            *)

\* A maintainer moves the head, or asks for a run on it.
LEMMA HeadMoves ==
  ASSUME ReleaseIInv, Remembers, HeadOK', started, started' = started,
         branch' \in BranchCommits, versionPR' \in {None, versionPR},
         run' = run, starting' = starting, UNCHANGED registryVars,
         used' \in [commits : 0 .. MaxChangesets, dispatches : Nat, failures : Nat],
         used'.dispatches >= used.dispatches,
         NEW e \in {"push", "dispatch"},
         pending' = [event |-> e, ref |-> "release", bot |-> FALSE, commit |-> branch'],
         e = "dispatch" => used'.dispatches > 0
  PROVE  ReleaseIInv'
<1>1. /\ pending' \in Events /\ pending' # None
      /\ pending'.commit = branch' /\ pending'.ref = "release" /\ pending'.event = e
  BY EventAsks
<1>2. started'
  OBVIOUS
<1>3. used.dispatches \in Nat /\ used'.dispatches \in Nat
  BY UsedNumbers DEF ReleaseIInv
<1>4. /\ used.dispatches > 0 => used'.dispatches > 0
      /\ used'.dispatches = 0 => used.dispatches = 0
  BY <1>3
<1>5. ReleaseTypeOK'
  BY <1>1 DEF ReleaseIInv, ReleaseTypeOK, registryVars
<1>6. PullRequestOK'
  BY DEF ReleaseIInv, PullRequestOK, Remembers
<1>7. StartingOK' /\ PendingOK'
  <2>1. Earlier(pending'.commit, branch', used')
    BY <1>1, <1>2 DEF HeadOK
  <2>2. pending'.event = "dispatch" => used'.dispatches > 0
    BY <1>1
  <2> QED
    BY <1>1, <2>1, <2>2 DEF PendingOK, ReleaseIInv, StartingOK
<1>8. RunOK'
  <2>1. CASE run = None
    BY <2>1 DEF RunOK
  <2>2. CASE run # None
    BY <1>2, <1>4, <2>2, RunKept DEF registryVars
  <2> QED
    BY <2>1, <2>2
<1>9. RegistryOK'
  BY <1>4, RegistryKept
<1>10. UpcomingOK'
  BY <1>1 DEF UpcomingOK, Upcoming
<1> QED
  BY <1>5, <1>6, <1>7, <1>8, <1>9, <1>10 DEF ReleaseIInv

LEMMA CommitChangesetOK ==
  ASSUME ReleaseIInv, CommitChangeset
  PROVE  ReleaseIInv'
<1>1. started /\ used.commits < MaxChangesets
  BY DEF CommitChangeset
<1>2. started' = started /\ starting' = starting /\ versionPR' = versionPR /\ run' = run
  BY DEF CommitChangeset
<1>3. UNCHANGED registryVars
  BY DEF CommitChangeset
<1>4. pending' = [event |-> "push", ref |-> "release", bot |-> FALSE, commit |-> branch']
  BY DEF CommitChangeset, PushEvent
<1>5. /\ used.commits \in Nat /\ used.dispatches \in Nat
      /\ used'.commits = used.commits + 1 /\ used'.dispatches = used.dispatches
      /\ used' \in [commits : 0 .. MaxChangesets, dispatches : Nat, failures : Nat]
  <2>1. used' = [used EXCEPT !.commits = used.commits + 1]
    BY DEF CommitChangeset
  <2>2. used.commits + 1 \in 0 .. MaxChangesets
    BY <1>1, UsedNumbers, BoundAssumption DEF ReleaseIInv
  <2> QED
    BY <2>1, <2>2, UsedNumbers DEF ReleaseIInv, ReleaseTypeOK
<1>6. /\ branch \in BranchCommits /\ branch.fresh \in Nat /\ branch.recorded \in Nat
      /\ branch.version.patch \in Int
      /\ Consistent(branch, used.commits + 1)
      /\ used.dispatches = 0 => branch.mode = "pre"
      /\ branch.mode # "none" => branch.fresh + branch.recorded = used.commits + 1
  BY <1>1, CommitNumbers DEF ReleaseIInv, HeadOK, Earlier
<1>7. /\ branch' \in BranchCommits
      /\ branch'.version = branch.version /\ branch'.mode = branch.mode
      /\ branch'.recorded = branch.recorded /\ branch'.fresh = branch.fresh + 1
  <2>1. branch' = [branch EXCEPT !.fresh = branch.fresh + 1]
    BY DEF CommitChangeset
  <2>2. branch.fresh + 1 \in Nat
    BY <1>6
  <2> QED
    BY <1>6, <2>1, <2>2 DEF BranchCommits
<1>8. Remembers
  <2>1. /\ used'.commits \in Nat /\ used'.commits >= used.commits
        /\ used'.dispatches \in Nat /\ used'.dispatches >= used.dispatches
        /\ branch'.fresh >= branch.fresh
    BY <1>5, <1>6, <1>7
  <2> QED
    BY <1>7, <2>1, SameVersionRemembers DEF ReleaseIInv
<1>9. HeadOK'
  <2>1. Consistent(branch', used'.commits + 1)
    <3>1. branch'.fresh + branch'.recorded = (branch.fresh + branch.recorded) + 1
      BY <1>6, <1>7
    <3> QED
      BY <1>5, <1>6, <1>7, <3>1 DEF Consistent
  <2>2. branch'.fresh <= branch'.fresh
    BY <1>6, <1>7
  <2>3. Earlier(branch', branch', used')
    BY <1>5, <1>6, <1>7, <2>1, <2>2 DEF Earlier
  <2>4. branch'.mode # "none" => branch'.fresh + branch'.recorded = used'.commits + 1
    BY <1>5, <1>6, <1>7
  <2> QED
    BY <1>1, <1>2, <2>3, <2>4 DEF HeadOK
<1>10. used'.dispatches >= used.dispatches
  BY <1>5
<1> QED
  BY <1>1, <1>2, <1>3, <1>4, <1>5, <1>7, <1>8, <1>9, <1>10, HeadMoves

\* A version PR whose version is still that of the branch was made from a commit
\* that differs from the head by later changesets and the end of pre mode.
LEMMA BaseOfThePR ==
  ASSUME ReleaseIInv, versionPR # None, versionPR.commit.version = branch.version
  PROVE  LET base == versionPR.commit
         IN  /\ started
             /\ base \in BranchCommits /\ branch \in BranchCommits
             /\ Consistent(base, used.commits + 1) /\ Consistent(branch, used.commits + 1)
             /\ branch.mode # "none" => branch.fresh + branch.recorded = used.commits + 1
             /\ base.recorded = branch.recorded /\ base.fresh <= branch.fresh
             /\ base.mode = "none" <=> branch.mode = "none"
             /\ used.dispatches = 0 => base.mode = "pre" /\ branch.mode = "pre"
             /\ HasPendingChangesets(base)
<1>1. started
  BY DEF ReleaseIInv, ReleaseTypeOK, HeadOK
<1>2. Earlier(branch, branch, used) /\ Earlier(versionPR.commit, branch, used)
  BY <1>1 DEF ReleaseIInv, HeadOK, PullRequestOK
<1>3. ~Precedes(branch.version, branch.version)
  BY <1>2, PrecedesIsIrreflexive, CommitNumbers DEF Earlier
<1> QED
  BY <1>1, <1>2, <1>3 DEF Earlier, ReleaseIInv, HeadOK, PullRequestOK

LEMMA MergeVersionPROK ==
  ASSUME ReleaseIInv, MergeVersionPR
  PROVE  ReleaseIInv'
<1> DEFINE base == versionPR.commit
           after == VersionAfter(base)
           n == used.commits + 1
<1>1. versionPR # None /\ base.version = branch.version
  BY DEF MergeVersionPR
<1>2. /\ versionPR' = None /\ started' = started /\ starting' = starting
      /\ run' = run /\ used' = used
  BY DEF MergeVersionPR
<1>3. UNCHANGED registryVars
  BY DEF MergeVersionPR
<1>4. pending' = [event |-> "push", ref |-> "release", bot |-> FALSE, commit |-> branch']
  BY DEF MergeVersionPR, PushEvent
<1>5. /\ started
      /\ base \in BranchCommits /\ branch \in BranchCommits
      /\ Consistent(base, n) /\ Consistent(branch, n)
      /\ branch.mode # "none" => branch.fresh + branch.recorded = n
      /\ base.recorded = branch.recorded /\ base.fresh <= branch.fresh
      /\ base.mode = "none" <=> branch.mode = "none"
      /\ used.dispatches = 0 => base.mode = "pre" /\ branch.mode = "pre"
      /\ HasPendingChangesets(base)
  BY <1>1, BaseOfThePR
<1>6. /\ base.fresh \in Nat /\ base.recorded \in Nat
      /\ branch.fresh \in Nat /\ branch.recorded \in Nat
      /\ branch.version \in Versions /\ branch.version.patch \in Int /\ branch.version.rc \in Int
      /\ base.mode \in {"none", "pre", "exit"} /\ branch.mode \in {"none", "pre", "exit"}
      /\ n \in Nat
  BY <1>5, CommitNumbers, UsedNumbers DEF BranchCommits, ReleaseIInv
<1>7. branch' = [version |-> after,
                 mode |-> IF base.mode = "pre" THEN branch.mode ELSE "none",
                 fresh |-> branch.fresh - base.fresh,
                 recorded |-> IF base.mode = "pre" THEN branch.recorded + base.fresh
                              ELSE branch.recorded - base.recorded]
  BY DEF MergeVersionPR
<1> HIDE DEF after, n
<1>8. /\ branch'.version = after
      /\ branch'.mode = IF base.mode = "pre" THEN branch.mode ELSE "none"
      /\ branch'.fresh = branch.fresh - base.fresh /\ branch'.fresh \in Nat
      /\ branch'.recorded = IF base.mode = "pre" THEN branch.recorded + base.fresh ELSE 0
      /\ branch'.recorded \in Nat
      /\ branch'.mode \in {"none", "pre", "exit"}
  BY <1>5, <1>6, <1>7
<1>9. /\ after \in Versions /\ after.patch \in Nat /\ after # OldVersion
      /\ Precedes(branch.version, after)
      /\ Consistent(branch', n)
      /\ branch'.mode # "none" => branch'.fresh + branch'.recorded = n
      /\ used.dispatches = 0 => branch'.mode = "pre"
  <2>1. CASE base.mode = "pre"
    <3>1. base.fresh > 0
      BY <1>5, <1>6, <2>1 DEF HasPendingChangesets, PendingChangesets
    <3>2. PICK rc \in Nat : after = [patch |-> 0, rc |-> rc] /\ Precedes(branch.version, after)
      <4>1. CASE branch.version = OldVersion
        <5>1. after = [patch |-> 0, rc |-> 0]
          BY <1>1, <2>1, <4>1, VersionArithmetic DEF after, VersionAfter, Version, IsFinal
        <5>2. Precedes(branch.version, after)
          BY <4>1, <5>1, VersionArithmetic DEF Precedes
        <5> QED
          BY <5>1, <5>2
      <4>2. CASE branch.version # OldVersion
        <5>1. ~IsFinal(branch.version) /\ branch.version.patch = 0
          BY <1>1, <1>5, <2>1, <4>2 DEF Consistent
        <5>2. after = [patch |-> 0, rc |-> branch.version.rc + 1]
          BY <1>1, <2>1, <4>2, <5>1 DEF after, VersionAfter, Version
        <5>3. branch.version.rc \in Nat
          BY <1>6, <5>1, VersionArithmetic DEF IsFinal, Versions
        <5>4. Precedes(branch.version, after)
          BY <5>1, <5>2, <5>3 DEF Precedes
        <5> QED
          BY <5>2, <5>3, <5>4
      <4> QED
        BY <4>1, <4>2
    <3>3. /\ after \in Versions /\ after.patch = 0 /\ ~IsFinal(after) /\ after # OldVersion
      BY <3>2, VersionArithmetic DEF Versions, IsFinal
    <3>4. branch'.mode = branch.mode /\ branch.mode # "none"
      BY <1>5, <1>8, <2>1
    <3>5. branch'.fresh + branch'.recorded = n /\ branch'.fresh <= n /\ n >= 1
      BY <1>5, <1>6, <1>8, <2>1, <3>1, <3>4
    <3>6. Consistent(branch', n)
      BY <1>6, <1>8, <3>3, <3>4, <3>5 DEF Consistent
    <3> QED
      BY <1>5, <3>2, <3>3, <3>4, <3>5, <3>6
  <2>2. CASE base.mode = "exit"
    <3>1. after = [patch |-> 0, rc |-> Final] /\ Precedes(branch.version, after)
      <4>1. CASE branch.version = OldVersion
        <5>1. after = [patch |-> 0, rc |-> Final]
          BY <1>1, <2>2, <4>1 DEF after, VersionAfter, Version
        <5> QED
          BY <4>1, <5>1, VersionArithmetic DEF Precedes
      <4>2. CASE branch.version # OldVersion
        <5>1. ~IsFinal(branch.version) /\ branch.version.patch = 0
          BY <1>1, <1>5, <2>2, <4>2 DEF Consistent
        <5>2. after = [patch |-> 0, rc |-> Final]
          BY <1>1, <2>2, <4>2, <5>1 DEF after, VersionAfter, Version
        <5> QED
          BY <5>1, <5>2 DEF Precedes, IsFinal
      <4> QED
        BY <4>1, <4>2
    <3>2. after \in Versions /\ after.patch = 0 /\ IsFinal(after) /\ after # OldVersion
      BY <3>1, VersionArithmetic DEF Versions, IsFinal
    <3>3. branch'.mode = "none" /\ branch'.recorded = 0 /\ used.dispatches # 0
      BY <1>5, <1>8, <2>2
    <3>4. branch'.fresh <= n
      BY <1>5, <1>6, <1>8, <2>2
    <3>5. Consistent(branch', n)
      BY <1>6, <1>8, <3>2, <3>3, <3>4 DEF Consistent
    <3> QED
      BY <3>1, <3>2, <3>3, <3>5
  <2>3. CASE base.mode = "none"
    <3>1. IsFinal(branch.version) /\ branch.version # OldVersion /\ base.recorded = 0
      BY <1>1, <1>5, <2>3 DEF Consistent
    <3>2. base.fresh > 0
      BY <1>5, <1>6, <2>3, <3>1 DEF HasPendingChangesets, PendingChangesets
    <3>3. branch.version.patch \in Nat
      BY <1>6, <3>1, VersionArithmetic, SameVersion DEF IsFinal
    <3>4. after = [patch |-> branch.version.patch + 1, rc |-> Final]
      BY <1>1, <2>3, <3>1 DEF after, VersionAfter, Version
    <3>5. after \in Versions /\ after.patch = branch.version.patch + 1 /\ IsFinal(after)
      BY <3>3, <3>4 DEF Versions, IsFinal
    <3>6. after # OldVersion /\ Precedes(branch.version, after)
      BY <3>3, <3>5, VersionArithmetic DEF Precedes
    <3>7. branch'.mode = "none" /\ branch'.recorded = 0 /\ used.dispatches # 0
      BY <1>5, <1>8, <2>3
    <3>8. after.patch + branch'.fresh <= n
      <4>1. branch.version.patch + branch.fresh <= n
        BY <1>5, <3>1 DEF Consistent
      <4> QED
        BY <1>6, <1>8, <3>2, <3>3, <3>5, <4>1
    <3>9. Consistent(branch', n)
      BY <1>8, <3>3, <3>5, <3>6, <3>7, <3>8 DEF Consistent
    <3> QED
      BY <3>3, <3>5, <3>6, <3>7, <3>9
  <2> QED
    BY <1>6, <2>1, <2>2, <2>3
<1>10. branch' \in BranchCommits
  <2>1. branch' = [version |-> branch'.version, mode |-> branch'.mode,
                   fresh |-> branch'.fresh, recorded |-> branch'.recorded]
    BY <1>7
  <2> QED
    BY <1>8, <1>9, <2>1 DEF BranchCommits
<1>11. Remembers
  BY <1>2, <1>8, <1>9, <1>10, NewVersionRemembers DEF ReleaseIInv
<1>12. HeadOK'
  <2>1. branch'.fresh <= branch'.fresh
    BY <1>8
  <2>2. Earlier(branch', branch', used')
    BY <1>2, <1>9, <1>10, <2>1 DEF Earlier, n
  <2> QED
    BY <1>2, <1>5, <1>9, <2>2 DEF HeadOK, n
<1>13. /\ used' \in [commits : 0 .. MaxChangesets, dispatches : Nat, failures : Nat]
       /\ used'.dispatches >= used.dispatches
  BY <1>2, UsedNumbers DEF ReleaseIInv, ReleaseTypeOK
<1> QED
  BY <1>2, <1>3, <1>4, <1>5, <1>10, <1>11, <1>12, <1>13, HeadMoves

LEMMA DispatchOnBranchOK ==
  ASSUME ReleaseIInv, DispatchOnBranch
  PROVE  ReleaseIInv'
<1>1. started /\ run' = run
  BY DEF DispatchOnBranch
<1>2. branch' = branch /\ versionPR' = versionPR /\ started' = started /\ starting' = starting
  BY DEF DispatchOnBranch, branchVars
<1>3. UNCHANGED registryVars
  BY DEF DispatchOnBranch
<1>4. pending' = [event |-> "dispatch", ref |-> "release", bot |-> FALSE, commit |-> branch']
  BY DEF DispatchOnBranch, Dispatch
<1>5. /\ used.commits \in Nat /\ used.dispatches \in Nat
      /\ used'.commits = used.commits /\ used'.dispatches = used.dispatches + 1
      /\ used' \in [commits : 0 .. MaxChangesets, dispatches : Nat, failures : Nat]
  <2>1. used' = [used EXCEPT !.dispatches = used.dispatches + 1]
    BY DEF DispatchOnBranch
  <2> QED
    BY <2>1, UsedNumbers DEF ReleaseIInv, ReleaseTypeOK
<1>6. used'.dispatches >= used.dispatches /\ used'.dispatches > 0 /\ used'.dispatches # 0
  BY <1>5
<1>7. /\ branch \in BranchCommits /\ branch.fresh \in Nat
      /\ Earlier(branch, branch, used)
  BY <1>1, CommitNumbers DEF ReleaseIInv, ReleaseTypeOK, HeadOK
<1>8. Remembers
  <2>1. used'.commits \in Nat /\ used'.commits >= used.commits /\ used'.dispatches \in Nat
    BY <1>5
  <2>2. branch' \in BranchCommits /\ branch'.fresh >= branch.fresh
    BY <1>2, <1>7
  <2> QED
    BY <1>2, <1>6, <2>1, <2>2, SameVersionRemembers DEF ReleaseIInv
<1>9. HeadOK'
  <2>1. Earlier(branch', branch', used')
    BY <1>2, <1>7, <1>8 DEF Remembers
  <2>2. branch'.mode # "none" => branch'.fresh + branch'.recorded = used'.commits + 1
    BY <1>1, <1>2, <1>5 DEF ReleaseIInv, HeadOK
  <2> QED
    BY <1>1, <1>2, <2>1, <2>2 DEF HeadOK
<1>10. branch' \in BranchCommits
  BY <1>2, <1>7
<1> QED
  BY <1>1, <1>2, <1>3, <1>4, <1>5, <1>6, <1>8, <1>9, <1>10, HeadMoves

\* The registry changes by the work of another branch or of a maintainer of
\* master.
LEMMA RegistryAlone ==
  ASSUME ReleaseIInv, UNCHANGED <<branchVars, run, pending, used, npm, tags>>,
         distTags' \in [latest : Versions, next : Versions \cup {None}],
         RegistryOK'
  PROVE  ReleaseIInv'
<1>1. branch' = branch /\ versionPR' = versionPR /\ started' = started /\ starting' = starting
  BY DEF branchVars
<1>2. run' = run /\ pending' = pending /\ used' = used /\ npm' = npm /\ tags' = tags
  OBVIOUS
<1>3. ReleaseTypeOK'
  BY <1>1, <1>2 DEF ReleaseIInv, ReleaseTypeOK
<1>4. HeadOK' /\ StartingOK' /\ PullRequestOK' /\ PendingOK'
  BY <1>1, <1>2 DEF ReleaseIInv, HeadOK, StartingOK, PullRequestOK, PendingOK
<1>5. RunOK'
  BY <1>1, <1>2 DEF ReleaseIInv, RunOK, StepOK
<1>6. UpcomingOK'
  BY <1>1, <1>2 DEF ReleaseIInv, UpcomingOK, Upcoming
<1> QED
  BY <1>3, <1>4, <1>5, <1>6 DEF ReleaseIInv

LEMMA MergeBackOK ==
  ASSUME ReleaseIInv, MergeBack
  PROVE  ReleaseIInv'
<1>1. UNCHANGED <<branchVars, run, pending, used, npm, tags>>
  BY DEF MergeBack
<1>2. releases' = releases /\ distTags' = distTags /\ mergePR' = None
  BY DEF MergeBack
<1>3. distTags' \in [latest : Versions, next : Versions \cup {None}]
  BY <1>2 DEF ReleaseIInv, ReleaseTypeOK
<1>4. npm' = npm /\ tags' = tags /\ used' = used
  BY <1>1
<1>5. RegistryOK'
  BY <1>2, <1>4 DEF ReleaseIInv, RegistryOK, DistTagsFit, MergeBackIsFinal
<1> QED
  BY <1>1, <1>3, <1>5, RegistryAlone

LEMMA ReleaseNewerMinorOK ==
  ASSUME ReleaseIInv, ReleaseNewerMinor
  PROVE  ReleaseIInv'
<1>1. UNCHANGED <<branchVars, run, pending, used, npm, tags>>
  BY DEF ReleaseNewerMinor
<1>2. releases' = releases /\ mergePR' = mergePR /\ distTags' = [latest |-> NewerVersion, next |-> None]
  BY DEF ReleaseNewerMinor
<1>3. MaxChangesets \in Nat
  BY BoundAssumption
<1>4. /\ NewerVersion \in Versions /\ NewerVersion.patch = MaxChangesets + 2
      /\ IsFinal(NewerVersion) /\ NewerVersion.rc = Final
  BY <1>3 DEF NewerVersion, Version, Versions, IsFinal
<1>5. /\ distTags' \in [latest : Versions, next : Versions \cup {None}]
      /\ distTags'.latest = NewerVersion /\ distTags'.next = None
  BY <1>2, <1>4
<1>6. npm' = npm /\ tags' = tags /\ used' = used
  BY <1>1
<1>7. \A v \in DOMAIN npm : ~Precedes(NewerVersion, v)
  <2>1. SUFFICES ASSUME NEW v \in DOMAIN npm
                 PROVE  ~Precedes(NewerVersion, v)
    OBVIOUS
  <2>2. v.patch \in Int /\ v.patch <= MaxChangesets + 1
    BY <2>1, VersionArithmetic DEF ReleaseIInv, RegistryOK
  <2> QED
    BY <1>3, <1>4, <2>2 DEF Precedes
<1>8. DistTagsFit'
  BY <1>4, <1>5, <1>6, <1>7 DEF ReleaseIInv, RegistryOK, DistTagsFit
<1>9. RegistryOK'
  BY <1>2, <1>6, <1>8 DEF ReleaseIInv, RegistryOK, MergeBackIsFinal
<1> QED
  BY <1>1, <1>5, <1>9, RegistryAlone

LEMMA ReleaseStutterOK ==
  ASSUME ReleaseIInv, UNCHANGED releaseVars
  PROVE  ReleaseIInv'
<1>1. UNCHANGED <<branchVars, run, pending, used>> /\ UNCHANGED registryVars
  BY DEF releaseVars
<1>2. UNCHANGED <<branchVars, run, pending, used, npm, tags>>
  BY <1>1 DEF registryVars
<1>3. distTags' \in [latest : Versions, next : Versions \cup {None}]
  BY <1>1 DEF registryVars, ReleaseIInv, ReleaseTypeOK
<1>4. RegistryOK'
  BY <1>1, RegistryKept
<1> QED
  BY <1>2, <1>3, <1>4, RegistryAlone

LEMMA ReleaseInvariant == ReleaseSpec => []ReleaseIInv
<1>1. ReleaseInit => ReleaseIInv
  BY ReleaseInitOK
<1>2. ReleaseIInv /\ [ReleaseNext]_releaseVars => ReleaseIInv'
  <2> SUFFICES ASSUME ReleaseIInv, [ReleaseNext]_releaseVars
               PROVE  ReleaseIInv'
    OBVIOUS
  <2>1. CASE UNCHANGED releaseVars
    BY <2>1, ReleaseStutterOK
  <2>2. CASE BeginRun \/ EndRun \/ StepFails
    BY <2>2, BeginRunOK, EndRunOK, StepFailsOK
  <2>3. CASE StartRelease \/ ExitPrerelease \/ Rerun \/ Changesets
    BY <2>3, StartReleaseOK, ExitPrereleaseOK, RerunOK, ChangesetsOK
  <2>4. CASE Publish \/ DeleteNext \/ PushTags \/ CreateRelease \/ Merge
    BY <2>4, PublishOK, DeleteNextOK, PushTagsOK, CreateReleaseOK, MergeOK
  <2>5. CASE CommitChangeset \/ MergeVersionPR \/ DispatchOnBranch \/ MergeBack \/ ReleaseNewerMinor
    BY <2>5, CommitChangesetOK, MergeVersionPROK, DispatchOnBranchOK, MergeBackOK, ReleaseNewerMinorOK
  <2> QED
    BY <2>1, <2>2, <2>3, <2>4, <2>5 DEF ReleaseNext, Workflow, Maintainers
<1> QED
  BY <1>1, <1>2, PTL DEF ReleaseSpec

-----------------------------------------------------------------------------
(* What follows for every number of changesets, dispatches and failures.   *)

\* No changeset is lost or counted twice before the final version, and nothing
\* is released that is not tagged, or tagged that is not published: what
\* state.js, changesets/action and publish.sh do for a branch that moves on.
THEOREM ChangesetsAreKept == ReleaseSpec => []ReleaseOK
<1>1. ReleaseIInv => ReleaseOK
  <2> SUFFICES ASSUME ReleaseIInv
               PROVE  ReleaseOK
    OBVIOUS
  <2>1. releases \subseteq tags /\ tags \subseteq DOMAIN npm
    BY DEF ReleaseIInv, RegistryOK
  <2>2. used.commits \in Nat /\ used.commits <= MaxChangesets /\ MaxChangesets \in Nat
    BY UsedNumbers, BoundAssumption DEF ReleaseIInv
  <2>3. CASE started
    <3>1. /\ branch \in BranchCommits /\ branch.fresh \in Nat /\ branch.recorded \in Nat
          /\ branch.mode \in {"none", "pre", "exit"}
          /\ branch.version \in Versions
          /\ Consistent(branch, used.commits + 1)
          /\ branch.mode # "none" => branch.fresh + branch.recorded = used.commits + 1
      BY <2>3, CommitNumbers DEF ReleaseIInv, HeadOK, Earlier, BranchCommits
    <3>2. CASE branch.mode = "none"
      <4>1. branch.recorded = 0 /\ IsFinal(branch.version) /\ branch.version # OldVersion
        BY <3>1, <3>2 DEF Consistent
      <4>2. branch.version.patch \in Nat
        BY <3>1, <4>1, VersionArithmetic, SameVersion DEF IsFinal
      <4>3. branch.fresh <= MaxChangesets + 1
        BY <2>2, <3>1, <4>1, <4>2 DEF Consistent
      <4> QED
        BY <2>1, <2>2, <3>1, <3>2, <4>1, <4>3 DEF ReleaseOK
    <3>3. CASE branch.mode # "none"
      <4>1. branch.fresh <= MaxChangesets + 1 /\ branch.recorded <= MaxChangesets + 1
        BY <2>2, <3>1, <3>3
      <4> QED
        BY <2>1, <2>2, <3>1, <3>3, <4>1 DEF ReleaseOK
    <3> QED
      BY <3>2, <3>3
  <2>4. CASE ~started
    <3>1. branch = [version |-> OldVersion, mode |-> "none", fresh |-> 1, recorded |-> 0]
      BY <2>4 DEF ReleaseIInv, HeadOK
    <3> QED
      BY <2>1, <2>2, <3>1, VersionArithmetic DEF ReleaseOK, IsFinal
  <2> QED
    BY <2>3, <2>4
<1> QED
  BY <1>1, ReleaseInvariant, PTL

\* Whichever commit a run works on, a candidate is published as one and a final
\* version as a final one, "latest" and "next" stay what they should be, what
\* goes back to master is final, and nothing final is published before a
\* maintainer has dispatched the workflow: shouldRunPublish, pack.sh and
\* shouldRunMerge.
THEOREM PublishedAsTheyAre == ReleaseSpec => []VersionsFit
<1>1. ReleaseIInv => VersionsFit
  <2> SUFFICES ASSUME ReleaseIInv
               PROVE  VersionsFit
    OBVIOUS
  <2>1. DistTagsFit /\ MergeBackIsFinal
    BY DEF ReleaseIInv, RegistryOK
  <2>2. FinalNeedsDispatch
    BY DEF ReleaseIInv, RegistryOK, HeadOK, Earlier, FinalNeedsDispatch
  <2> QED
    BY <2>1, <2>2 DEF VersionsFit
<1> QED
  BY <1>1, ReleaseInvariant, PTL

\* The title of the version PR names the version that merging it brings, and
\* when the workflow rests without a failure the PR is that of the present head,
\* although runs work on older commits and waiting runs are cancelled.
THEOREM ThePRIsCurrent == ReleaseSpec => []VersionPRFits
<1>1. ReleaseIInv => VersionPRFits
  <2> SUFFICES ASSUME ReleaseIInv
               PROVE  VersionPRFits
    OBVIOUS
  <2>1. TitleNamesTheVersion
    <3> SUFFICES ASSUME versionPR # None
                 PROVE  versionPR.title = VersionAfter(versionPR.commit).patch
      BY DEF TitleNamesTheVersion, PRVersion
    <3> DEFINE base == versionPR.commit
               v == base.version
    <3>1. /\ base \in BranchCommits /\ Consistent(base, used.commits + 1)
          /\ versionPR.title = TitlePatch(v)
      BY DEF ReleaseIInv, PullRequestOK, Earlier
    <3>2. /\ v \in Versions /\ v.patch \in Int /\ v.rc \in Int
          /\ v.patch >= -2 /\ v.patch # -1
      BY <3>1, CommitNumbers, VersionArithmetic
    <3>3. VersionAfter(base).patch = IF v = OldVersion THEN 0
                                     ELSE IF IsFinal(v) THEN v.patch + 1 ELSE v.patch
      BY DEF VersionAfter, Version
    <3>4. CASE v = OldVersion
      BY <3>1, <3>3, <3>4, VersionArithmetic DEF TitlePatch, IsFinal
    <3>5. CASE v # OldVersion
      <4>1. v.patch >= 0
        BY <3>1, <3>2, <3>5, VersionArithmetic, SameVersion DEF Consistent
      <4> QED
        BY <3>1, <3>2, <3>3, <3>5, <4>1 DEF TitlePatch
    <3> QED
      BY <3>4, <3>5
  <2>2. PRIsCurrentAtRest
    BY DEF ReleaseIInv, UpcomingOK, Upcoming, PRIsCurrentAtRest, AtRest
  <2> QED
    BY <2>1, <2>2 DEF VersionPRFits
<1> QED
  BY <1>1, ReleaseInvariant, PTL

-----------------------------------------------------------------------------
(* The docs branch.                                                        *)

Idles == [phase : {"idle"}, docs : Seq(Commits)]
Works == [phase : {"started", "checked", "committed"}, docs : Seq(Commits), tree : Trees]

DocsTypes ==
  /\ tip \in [Minors -> Seq(BOOLEAN)]
  /\ \A m \in Minors : Len(tip[m]) <= MaxPushes
  /\ remote \in Seq(Commits)
  /\ clone \in [Clones -> Idles \cup Works]

NoPrerelease(docs) == \A i \in DOMAIN docs : ~docs[i].tree.pre

\* The first n commits of docs are those of origin's branch.
Follows(docs, n) == n <= Len(remote) /\ \A i \in 1 .. n : docs[i] = remote[i]

\* A docs branch that does not start with origin's was started in its own clone.
CloneOK(c, k) ==
  /\ NoPrerelease(k.docs)
  /\ k.phase \in {"checked", "committed"} => ~k.tree.pre
  /\ remote = <<>> /\ k.docs # <<>> => k.docs[1].by = c
  /\ remote # <<>> /\ k.docs # <<>> /\ k.docs[1] = remote[1] =>
       /\ Follows(k.docs, Len(k.docs) - 1)
       /\ k.phase = "checked" => Follows(k.docs, Len(k.docs))

DocsIInv ==
  /\ DocsTypes
  /\ NoPrerelease(remote)
  /\ \A c \in Clones : CloneOK(c, clone[c])

InOrder(docs) ==
  \A i, j \in DOMAIN docs : i <= j => docs[i].tree.minor <= docs[j].tree.minor

\* What the refusal ensures of the commit to come.
OrderOK(k) ==
  /\ InOrder(k.docs)
  /\ k.phase = "checked" /\ k.docs # <<>> => PublishedMinor(k.docs) <= k.tree.minor

OrderIInv ==
  /\ InOrder(remote)
  /\ \A c \in Clones : OrderOK(clone[c])

LEMMA CloneFields ==
  ASSUME DocsTypes, NEW c \in Clones
  PROVE  /\ clone[c] \in Idles \cup Works
         /\ clone[c].docs \in Seq(Commits)
         /\ clone[c].phase \in {"idle", "started", "checked", "committed"}
         /\ clone[c].phase # "idle" => clone[c] \in Works /\ clone[c].tree \in Trees
BY DEF DocsTypes, Idles, Works

LEMMA LengthsOfDocs ==
  ASSUME NEW docs \in Seq(Commits)
  PROVE  /\ Len(docs) \in Nat /\ DOMAIN docs = 1 .. Len(docs)
         /\ docs # <<>> => Len(docs) >= 1 /\ 1 \in DOMAIN docs /\ Len(docs) \in DOMAIN docs
         /\ Len(docs) = 0 => docs = <<>>
         /\ \A i \in DOMAIN docs : docs[i] \in Commits
OBVIOUS

LEMMA DocsInitOK ==
  ASSUME DocsInit
  PROVE  DocsIInv /\ OrderIInv
<1>1. remote = <<>> /\ tip = [m \in Minors |-> <<>>]
      /\ clone = [c \in Clones |-> [phase |-> "idle", docs |-> <<>>]]
  BY DEF DocsInit, Idle
<1>2. DocsTypes
  BY <1>1, DocsAssumption DEF DocsTypes, Idles
<1>3. \A c \in Clones : clone[c].docs = <<>> /\ clone[c].phase = "idle"
  BY <1>1
<1> QED
  BY <1>1, <1>2, <1>3 DEF DocsIInv, OrderIInv, NoPrerelease, CloneOK, InOrder, OrderOK

\* A clone goes its own way.
LEMMA CloneMoves ==
  ASSUME DocsIInv, NEW c \in Clones, NEW k \in Idles \cup Works,
         clone' = [clone EXCEPT ![c] = k], remote' = remote, tip' = tip,
         CloneOK(c, k)
  PROVE  DocsIInv' /\ (OrderIInv /\ OrderOK(k) => OrderIInv')
<1>1. /\ clone' \in [Clones -> Idles \cup Works] /\ clone'[c] = k
      /\ \A d \in Clones \ {c} : clone'[d] = clone[d]
  BY DEF DocsIInv, DocsTypes
<1>2. DocsTypes'
  BY <1>1 DEF DocsIInv, DocsTypes
<1>3. ASSUME NEW d \in Clones
      PROVE  CloneOK(d, clone[d])'
  <2>1. CASE d = c
    BY <1>1, <2>1 DEF CloneOK, Follows
  <2>2. CASE d # c
    <3>1. CloneOK(d, clone[d])
      BY DEF DocsIInv
    <3> QED
      BY <1>1, <2>2, <3>1 DEF CloneOK, Follows
  <2> QED
    BY <2>1, <2>2
<1>4. DocsIInv'
  BY <1>2, <1>3 DEF DocsIInv
<1>5. ASSUME OrderIInv, OrderOK(k)
      PROVE  OrderIInv'
  BY <1>1, <1>5 DEF OrderIInv
<1> QED
  BY <1>4, <1>5

\* A run that stops leaves its docs branch behind.
LEMMA StopOK ==
  ASSUME DocsIInv, NEW c \in Clones, Stop(c), remote' = remote, tip' = tip
  PROVE  DocsIInv' /\ (OrderIInv => OrderIInv')
<1> DEFINE k == Idle(clone[c].docs)
<1>1. clone' = [clone EXCEPT ![c] = k]
  BY DEF Stop
<1>2. k \in Idles /\ k.docs = clone[c].docs /\ k.phase = "idle"
  BY CloneFields DEF DocsIInv, Idle, Idles
<1> HIDE DEF k
<1>3. CloneOK(c, k)
  <2>1. CloneOK(c, clone[c])
    BY DEF DocsIInv
  <2> QED
    BY <1>2, <2>1 DEF CloneOK
<1>4. OrderIInv => OrderOK(k)
  BY <1>2 DEF OrderIInv, OrderOK
<1> QED
  BY <1>1, <1>2, <1>3, <1>4, CloneMoves

LEMMA PushTreeOK ==
  ASSUME DocsIInv, NEW m \in Minors, PushTree(m)
  PROVE  DocsIInv' /\ (OrderIInv => OrderIInv')
<1>1. remote' = remote /\ clone' = clone /\ Len(tip[m]) < MaxPushes
  BY DEF PushTree
<1>2. PICK pre \in BOOLEAN : tip' = [tip EXCEPT ![m] = Append(tip[m], pre)]
  BY DEF PushTree
<1>3. tip \in [Minors -> Seq(BOOLEAN)] /\ \A n \in Minors : Len(tip[n]) <= MaxPushes
  BY DEF DocsIInv, DocsTypes
<1>4. Append(tip[m], pre) \in Seq(BOOLEAN) /\ Len(Append(tip[m], pre)) = Len(tip[m]) + 1
      /\ Len(tip[m]) \in Nat
  BY <1>3
<1>5. tip' \in [Minors -> Seq(BOOLEAN)] /\ \A n \in Minors : Len(tip'[n]) <= MaxPushes
  BY <1>1, <1>2, <1>3, <1>4, DocsAssumption
<1> QED
  BY <1>1, <1>5 DEF DocsIInv, DocsTypes, OrderIInv, CloneOK, Follows

LEMMA StartRunOK ==
  ASSUME DocsIInv, NEW c \in Clones, StartRun(c)
  PROVE  DocsIInv' /\ (OrderIInv => OrderIInv')
<1>1. remote' = remote /\ tip' = tip
  BY DEF StartRun
<1>2. PICK m \in Minors, fresh \in BOOLEAN : \E n \in DOMAIN tip[m] :
        clone' = [clone EXCEPT ![c] =
                    Started([minor |-> m, push |-> n, pre |-> tip[m][n]],
                            IF fresh THEN <<>> ELSE clone[c].docs)]
  BY DEF StartRun
<1>3. PICK n \in DOMAIN tip[m] :
        clone' = [clone EXCEPT ![c] =
                    Started([minor |-> m, push |-> n, pre |-> tip[m][n]],
                            IF fresh THEN <<>> ELSE clone[c].docs)]
  BY <1>2
<1> DEFINE tree == [minor |-> m, push |-> n, pre |-> tip[m][n]]
           docs == IF fresh THEN <<>> ELSE clone[c].docs
           k == Started(tree, docs)
<1>4. tree \in Trees
  <2>1. tip[m] \in Seq(BOOLEAN) /\ Len(tip[m]) <= MaxPushes
    BY DEF DocsIInv, DocsTypes
  <2>2. n \in 1 .. MaxPushes /\ tip[m][n] \in BOOLEAN
    BY <2>1, DocsAssumption
  <2> QED
    BY <2>2 DEF Trees
<1>5. docs \in Seq(Commits)
  BY CloneFields DEF DocsIInv
<1> HIDE DEF tree
<1>6. k \in Works /\ k.docs = docs /\ k.phase = "started"
  BY <1>4, <1>5 DEF Started, Works
<1>7. CloneOK(c, clone[c])
  BY DEF DocsIInv
<1>8. clone' = [clone EXCEPT ![c] = k]
  BY <1>3 DEF tree
<1> HIDE DEF k
<1>9. CloneOK(c, k)
  <2>1. CASE fresh
    BY <1>6, <2>1 DEF CloneOK, NoPrerelease
  <2>2. CASE ~fresh
    BY <1>6, <1>7, <2>2 DEF CloneOK
  <2> QED
    BY <2>1, <2>2
<1>10. OrderIInv => OrderOK(k)
  BY <1>6 DEF OrderIInv, OrderOK, InOrder
<1> QED
  BY <1>1, <1>6, <1>8, <1>9, <1>10, CloneMoves

\* The minors of one digit are compared as numbers are.
LEMMA OneDigitMinors ==
  ASSUME NEW m \in 0 .. 9, NEW n \in 0 .. 9, ~StringLess(Digits(m), Digits(n))
  PROVE  n <= m
<1>1. Digits(m) = <<m>> /\ Digits(n) = <<n>>
  BY DEF Digits
<1>2. m < n => StringLess(<<m>>, <<n>>)
  <2>1. 1 \in DOMAIN <<m>> \cap DOMAIN <<n>> /\ <<m>>[1] = m /\ <<n>>[1] = n
    OBVIOUS
  <2>2. \A j \in 1 .. 1 - 1 : <<m>>[j] = <<n>>[j]
    OBVIOUS
  <2> QED
    BY <2>1, <2>2 DEF StringLess
<1> QED
  BY <1>1, <1>2

LEMMA FetchOK ==
  ASSUME DocsIInv, NEW c \in Clones, Fetch(c)
  PROVE  DocsIInv' /\ (Minors \subseteq 0 .. 9 /\ OrderIInv => OrderIInv')
<1> DEFINE old == clone[c]
           heads == {remote, old.docs} \ {<<>>}
           published == IF old.docs = <<>> THEN remote ELSE old.docs
           refused == heads # {} /\ (Conflicting(heads) \/ Refuses(old.tree.minor, published))
           k == [phase |-> "checked", docs |-> published, tree |-> old.tree]
<1>1. remote' = remote /\ tip' = tip /\ old.phase = "started" /\ ~old.tree.pre
  BY DEF Fetch, IsPrerelease
<1>2. CASE refused
  <2>1. Stop(c)
    BY <1>2 DEF Fetch
  <2> QED
    BY <1>1, <2>1, StopOK
<1>3. CASE ~refused
  <2>1. old \in Works /\ old.docs \in Seq(Commits) /\ old.tree \in Trees /\ CloneOK(c, old)
    BY <1>1, CloneFields DEF DocsIInv
  <2>2. remote \in Seq(Commits) /\ NoPrerelease(remote)
    BY DEF DocsIInv, DocsTypes
  <2>3. clone' = [clone EXCEPT ![c] = k]
    <3>1. clone' = [clone EXCEPT ![c].phase = "checked", ![c].docs = published]
      BY <1>3 DEF Fetch
    <3>2. [[old EXCEPT !.phase = "checked"] EXCEPT !.docs = published] = k
      <4>1. old = [phase |-> old.phase, docs |-> old.docs, tree |-> old.tree]
        BY <2>1 DEF Works
      <4>2. ASSUME NEW p, NEW d, NEW t
            PROVE  [[phase |-> p, docs |-> d, tree |-> t] EXCEPT !.phase = "checked"]
                     = [phase |-> "checked", docs |-> d, tree |-> t]
        OBVIOUS
      <4>3. ASSUME NEW p, NEW d, NEW t, NEW e
            PROVE  [[phase |-> p, docs |-> d, tree |-> t] EXCEPT !.docs = e]
                     = [phase |-> p, docs |-> e, tree |-> t]
        OBVIOUS
      <4>4. [old EXCEPT !.phase = "checked"] = [phase |-> "checked", docs |-> old.docs, tree |-> old.tree]
        BY <4>1, <4>2
      <4> HIDE DEF old, published
      <4>5. [[phase |-> "checked", docs |-> old.docs, tree |-> old.tree] EXCEPT !.docs = published] = k
        BY <4>3
      <4> HIDE DEF k
      <4> QED
        BY <4>4, <4>5
    <3>3. clone \in [Clones -> Idles \cup Works]
      BY DEF DocsIInv, DocsTypes
    <3> QED
      BY <3>1, <3>2, <3>3
  <2>4. published \in Seq(Commits) /\ NoPrerelease(published)
    BY <2>1, <2>2 DEF CloneOK
  <2>5. old.docs # <<>> /\ remote # <<>> => old.docs = remote
    BY <1>3 DEF Conflicting
  <2>6. k \in Works /\ k.phase = "checked" /\ k.docs = published /\ k.tree = old.tree
    BY <2>1, <2>4 DEF Works
  <2>7. published # <<>> => ~Refuses(old.tree.minor, published)
    BY <1>3
  <2>8. remote # <<>> => published = remote
    BY <2>5
  <2>9. remote = <<>> => published = old.docs
    OBVIOUS
  <2>10. OrderIInv => InOrder(published)
    BY DEF OrderIInv, OrderOK
  <2> HIDE DEF published, k, heads, refused
  <2>11. CloneOK(c, k)
    <3>1. remote = <<>> /\ k.docs # <<>> => k.docs[1].by = c
      BY <2>1, <2>6, <2>9 DEF CloneOK
    <3>2. remote # <<>> => Follows(k.docs, Len(k.docs) - 1) /\ Follows(k.docs, Len(k.docs))
      BY <2>2, <2>6, <2>8 DEF Follows
    <3> QED
      BY <1>1, <2>4, <2>6, <3>1, <3>2 DEF CloneOK
  <2>12. Minors \subseteq 0 .. 9 /\ OrderIInv => OrderOK(k)
    <3>1. SUFFICES ASSUME Minors \subseteq 0 .. 9, OrderIInv, published # <<>>
                   PROVE  PublishedMinor(published) <= old.tree.minor
      BY <2>6, <2>10 DEF OrderOK
    <3>2. published[Len(published)] \in Commits
      BY <2>4, <3>1, LengthsOfDocs
    <3>3. old.tree.minor \in 0 .. 9 /\ PublishedMinor(published) \in 0 .. 9
      BY <2>1, <3>1, <3>2 DEF Trees, Commits, PublishedMinor
    <3> QED
      BY <2>7, <3>1, <3>3, OneDigitMinors DEF Refuses
  <2> QED
    BY <1>1, <2>3, <2>6, <2>11, <2>12, CloneMoves
<1> QED
  BY <1>2, <1>3

LEMMA CommitDocsOK ==
  ASSUME DocsIInv, NEW c \in Clones, CommitDocs(c)
  PROVE  DocsIInv' /\ (OrderIInv => OrderIInv')
<1> DEFINE old == clone[c]
           new == [tree |-> old.tree, by |-> c]
           k == [phase |-> "committed", docs |-> Append(old.docs, new), tree |-> old.tree]
<1>1. remote' = remote /\ tip' = tip /\ old.phase = "checked"
  BY DEF CommitDocs
<1>2. CASE NothingToCommit(c)
  <2>1. Stop(c)
    BY <1>2 DEF CommitDocs
  <2> QED
    BY <1>1, <2>1, StopOK
<1>3. CASE ~NothingToCommit(c)
  <2>1. old \in Works /\ old.docs \in Seq(Commits) /\ old.tree \in Trees /\ CloneOK(c, old)
    BY <1>1, CloneFields DEF DocsIInv
  <2>2. new \in Commits /\ new.tree = old.tree /\ new.by = c
    BY <2>1 DEF Commits
  <2>3. clone' = [clone EXCEPT ![c] = k]
    <3>1. clone' = [clone EXCEPT ![c].phase = "committed", ![c].docs = Append(@, new)]
      BY <1>3 DEF CommitDocs
    <3>2. [[old EXCEPT !.phase = "committed"] EXCEPT !.docs = Append(@, new)] = k
      <4>1. old = [phase |-> old.phase, docs |-> old.docs, tree |-> old.tree]
        BY <2>1 DEF Works
      <4>2. ASSUME NEW p, NEW d, NEW t
            PROVE  [[phase |-> p, docs |-> d, tree |-> t] EXCEPT !.phase = "committed"]
                     = [phase |-> "committed", docs |-> d, tree |-> t]
        OBVIOUS
      <4>3. ASSUME NEW p, NEW d, NEW t, NEW e
            PROVE  [[phase |-> p, docs |-> d, tree |-> t] EXCEPT !.docs = Append(@, e)]
                     = [phase |-> p, docs |-> Append(d, e), tree |-> t]
        OBVIOUS
      <4>4. [old EXCEPT !.phase = "committed"]
              = [phase |-> "committed", docs |-> old.docs, tree |-> old.tree]
        BY <4>1, <4>2
      <4> HIDE DEF old, new
      <4>5. [[phase |-> "committed", docs |-> old.docs, tree |-> old.tree] EXCEPT !.docs = Append(@, new)]
              = k
        BY <4>3
      <4> HIDE DEF k
      <4> QED
        BY <4>4, <4>5
    <3>3. clone \in [Clones -> Idles \cup Works]
      BY DEF DocsIInv, DocsTypes
    <3> QED
      BY <3>1, <3>2, <3>3
  <2> HIDE DEF new
  <2>4. /\ Append(old.docs, new) \in Seq(Commits)
        /\ Len(old.docs) \in Nat
        /\ Len(Append(old.docs, new)) = Len(old.docs) + 1
        /\ \A i \in 1 .. Len(old.docs) : Append(old.docs, new)[i] = old.docs[i]
        /\ Append(old.docs, new)[Len(old.docs) + 1] = new
        /\ old.docs # <<>> => Len(old.docs) >= 1
        /\ old.docs = <<>> => Len(old.docs) = 0
    BY <2>1, <2>2
  <2>5. k \in Works /\ k.phase = "committed" /\ k.docs = Append(old.docs, new) /\ k.tree = old.tree
    BY <2>1, <2>4 DEF Works
  <2> HIDE DEF k
  <2>6. /\ k.docs \in Seq(Commits) /\ Len(k.docs) = Len(old.docs) + 1
        /\ \A i \in 1 .. Len(old.docs) : k.docs[i] = old.docs[i]
        /\ k.docs[Len(old.docs) + 1] = new
        /\ DOMAIN k.docs = 1 .. Len(old.docs) + 1 /\ DOMAIN old.docs = 1 .. Len(old.docs)
    BY <2>1, <2>4, <2>5, LengthsOfDocs
  <2>7. \A i \in DOMAIN k.docs : i \in DOMAIN old.docs \/ i = Len(old.docs) + 1
    BY <2>4, <2>6
  <2>8. CloneOK(c, k)
    <3>1. NoPrerelease(k.docs)
      BY <1>1, <2>1, <2>2, <2>6, <2>7 DEF CloneOK, NoPrerelease
    <3>2. ~k.tree.pre
      BY <1>1, <2>1, <2>5 DEF CloneOK
    <3>3. remote = <<>> => k.docs[1].by = c
      <4>1. CASE old.docs = <<>>
        BY <2>2, <2>4, <2>6, <4>1
      <4>2. CASE old.docs # <<>>
        BY <2>1, <2>4, <2>6, <4>2 DEF CloneOK
      <4> QED
        BY <4>1, <4>2
    <3>4. remote # <<>> /\ k.docs[1] = remote[1] => Follows(k.docs, Len(k.docs) - 1)
      <4>1. Len(remote) \in Nat
        BY DEF DocsIInv, DocsTypes
      <4>2. Len(k.docs) - 1 = Len(old.docs)
        BY <2>4, <2>6
      <4>3. CASE old.docs = <<>>
        <5>1. Len(k.docs) - 1 = 0
          BY <2>4, <4>2, <4>3
        <5>2. 0 <= Len(remote) /\ \A i \in 1 .. 0 : FALSE
          BY <4>1
        <5>3. Follows(k.docs, 0)
          BY <5>2 DEF Follows
        <5> QED
          BY <5>1, <5>3
      <4>4. CASE old.docs # <<>>
        BY <1>1, <2>1, <2>4, <2>6, <4>2, <4>4 DEF CloneOK, Follows
      <4> QED
        BY <4>3, <4>4
    <3> QED
      BY <2>5, <3>1, <3>2, <3>3, <3>4 DEF CloneOK
  <2>9. OrderIInv => OrderOK(k)
    <3>1. SUFFICES ASSUME OrderIInv
                   PROVE  InOrder(k.docs)
      BY <2>5 DEF OrderOK
    <3>2. InOrder(old.docs) /\ (old.docs # <<>> => PublishedMinor(old.docs) <= old.tree.minor)
      BY <1>1, <3>1 DEF OrderIInv, OrderOK
    <3>3. old.tree.minor \in Nat /\ \A i \in DOMAIN old.docs : old.docs[i].tree.minor \in Nat
      <4>1. \A t \in Trees : t.minor \in Nat
        <5>1. \A m \in Minors : m \in Nat
          BY DocsAssumption
        <5>2. \A t \in Trees : t.minor \in Minors
          BY DEF Trees
        <5> QED
          BY <5>1, <5>2
      <4>2. \A x \in Commits : x.tree.minor \in Nat
        BY <4>1 DEF Commits
      <4> QED
        BY <2>1, <4>1, <4>2, LengthsOfDocs
    <3>4. \A i \in DOMAIN old.docs : old.docs[i].tree.minor <= old.tree.minor
      <4>1. SUFFICES ASSUME NEW i \in DOMAIN old.docs
                     PROVE  old.docs[i].tree.minor <= old.tree.minor
        OBVIOUS
      <4>2. i <= Len(old.docs) /\ old.docs # <<>> /\ Len(old.docs) \in DOMAIN old.docs
        BY <2>4, <2>6, <4>1, LengthsOfDocs
      <4>3. old.docs[i].tree.minor <= old.docs[Len(old.docs)].tree.minor
        BY <3>2, <4>1, <4>2 DEF InOrder
      <4> QED
        BY <3>2, <3>3, <4>1, <4>2, <4>3 DEF PublishedMinor
    <3>5. \A i \in DOMAIN k.docs : k.docs[i].tree.minor =
            IF i \in DOMAIN old.docs THEN old.docs[i].tree.minor ELSE old.tree.minor
      BY <2>2, <2>6, <2>7
    <3>6. Len(old.docs) + 1 \notin DOMAIN old.docs
      BY <2>4, <2>6
    <3>7. \A i, j \in DOMAIN k.docs : i <= j /\ j \in DOMAIN old.docs => i \in DOMAIN old.docs
      BY <2>4, <2>6
    <3> QED
      BY <3>2, <3>3, <3>4, <3>5, <3>7 DEF InOrder
  <2> QED
    BY <1>1, <2>3, <2>5, <2>8, <2>9, CloneMoves
<1> QED
  BY <1>2, <1>3

\* A push that origin takes, which extends its branch.
LEMMA PushDocsOK ==
  ASSUME DocsIInv, NEW c \in Clones, PushDocs(c)
  PROVE  DocsIInv' /\ (OrderIInv => OrderIInv')
<1> DEFINE docs == clone[c].docs
           k == Idle(docs)
<1>1. tip' = tip /\ docs # <<>> /\ Stop(c)
  BY DEF PushDocs
<1>2. CASE ~FastForward(docs)
  <2>1. remote' = remote
    BY <1>2 DEF PushDocs
  <2> QED
    BY <1>1, <2>1, StopOK
<1>3. CASE FastForward(docs)
  <2>1. remote' = docs
    BY <1>3 DEF PushDocs
  <2>2. docs \in Seq(Commits) /\ remote \in Seq(Commits) /\ CloneOK(c, clone[c])
    BY CloneFields DEF DocsIInv, DocsTypes
  <2>3. k \in Idles /\ k.docs = docs /\ k.phase = "idle"
    BY <2>2 DEF Idle, Idles
  <2>4. clone' = [clone EXCEPT ![c] = k]
    BY <1>1 DEF Stop
  <2> HIDE DEF k
  <2>5. /\ clone' \in [Clones -> Idles \cup Works] /\ clone'[c] = k
        /\ \A d \in Clones \ {c} : clone'[d] = clone[d]
    BY <2>3, <2>4 DEF DocsIInv, DocsTypes
  <2>6. /\ Len(remote) \in Nat /\ Len(docs) \in Nat /\ Len(docs) >= 1
        /\ Len(remote) <= Len(docs)
        /\ \A i \in 1 .. Len(remote) : remote[i] = docs[i]
    <3>1. Len(remote) <= Len(docs) /\ remote = SubSeq(docs, 1, Len(remote))
      BY <1>3 DEF FastForward, IsPrefixOf
    <3>2. Len(remote) \in Nat /\ Len(docs) \in Nat /\ Len(docs) >= 1
      BY <1>1, <2>2, LengthsOfDocs
    <3>3. \A i \in 1 .. Len(remote) : SubSeq(docs, 1, Len(remote))[i] = docs[i]
      BY <2>2, <3>1, <3>2
    <3> QED
      BY <3>1, <3>2, <3>3
  <2>7. DocsTypes'
    BY <1>1, <2>1, <2>2, <2>5 DEF DocsIInv, DocsTypes
  <2>8. NoPrerelease(remote')
    BY <2>1, <2>2 DEF CloneOK
  <2>9. ASSUME NEW d \in Clones
        PROVE  CloneOK(d, clone[d])'
    <3>1. CASE d = c
      <4>1. clone'[d].docs = remote' /\ clone'[d].phase = "idle"
        BY <2>1, <2>3, <2>5, <3>1
      <4>2. Len(remote') \in Nat
        BY <2>1, <2>6
      <4>3. Follows(clone[d].docs, Len(clone[d].docs) - 1)'
        BY <4>1, <4>2 DEF Follows
      <4> QED
        BY <1>1, <2>1, <2>8, <4>1, <4>3 DEF CloneOK
    <3>2. CASE d # c
      <4>1. clone'[d] = clone[d] /\ CloneOK(d, clone[d]) /\ clone[d].docs \in Seq(Commits)
        BY <2>5, <3>2, CloneFields DEF DocsIInv
      <4>2. CASE remote = <<>>
        <5>1. remote'[1].by = c
          BY <1>1, <2>1, <2>2, <4>2 DEF CloneOK
        <5>2. clone[d].docs # <<>> => clone[d].docs[1].by = d
          BY <4>1, <4>2 DEF CloneOK
        <5> QED
          BY <1>1, <2>1, <3>2, <4>1, <5>1, <5>2 DEF CloneOK
      <4>3. CASE remote # <<>>
        <5>1. remote'[1] = remote[1] /\ Len(remote) >= 1
          BY <2>1, <2>2, <2>6, <4>3, LengthsOfDocs
        <5>2. ASSUME NEW n \in Int, Follows(clone[d].docs, n)
              PROVE  n <= Len(docs) /\ \A i \in 1 .. n : clone[d].docs[i] = docs[i]
          BY <2>6, <5>2 DEF Follows
        <5>3. Len(clone[d].docs) \in Int /\ Len(clone[d].docs) - 1 \in Int
          BY <4>1, LengthsOfDocs
        <5>4. Follows(clone[d].docs, Len(clone[d].docs) - 1)
                => Follows(clone[d].docs, Len(clone[d].docs) - 1)'
          BY <2>1, <4>1, <5>2, <5>3 DEF Follows
        <5>5. Follows(clone[d].docs, Len(clone[d].docs)) => Follows(clone[d].docs, Len(clone[d].docs))'
          BY <2>1, <4>1, <5>2, <5>3 DEF Follows
        <5> QED
          BY <1>1, <2>1, <4>1, <4>3, <5>1, <5>4, <5>5 DEF CloneOK
      <4> QED
        BY <4>2, <4>3
    <3> QED
      BY <3>1, <3>2
  <2>10. DocsIInv'
    BY <2>7, <2>8, <2>9 DEF DocsIInv
  <2>11. OrderIInv => OrderIInv'
    <3>1. SUFFICES ASSUME OrderIInv
                   PROVE  OrderIInv'
      OBVIOUS
    <3>2. InOrder(docs)
      BY <3>1 DEF OrderIInv, OrderOK
    <3>3. \A d \in Clones : OrderOK(clone'[d])
      BY <2>3, <2>5, <3>1, <3>2 DEF OrderIInv, OrderOK
    <3> QED
      BY <2>1, <3>2, <3>3 DEF OrderIInv
  <2> QED
    BY <2>10, <2>11
<1> QED
  BY <1>2, <1>3

LEMMA DocsStepOK ==
  ASSUME DocsIInv, [DocsNext]_docsVars
  PROVE  DocsIInv' /\ (Minors \subseteq 0 .. 9 /\ OrderIInv => OrderIInv')
<1>1. CASE UNCHANGED docsVars
  BY <1>1 DEF docsVars, DocsIInv, DocsTypes, OrderIInv, CloneOK, Follows
<1>2. CASE \E m \in Minors : PushTree(m)
  BY <1>2, PushTreeOK
<1>3. ASSUME NEW c \in Clones, RefusePrerelease(c) \/ Abort(c)
      PROVE  DocsIInv' /\ (OrderIInv => OrderIInv')
  <2>1. Stop(c) /\ remote' = remote /\ tip' = tip
    BY <1>3 DEF RefusePrerelease, Abort
  <2> QED
    BY <2>1, StopOK
<1>4. ASSUME NEW c \in Clones, StartRun(c) \/ Fetch(c) \/ CommitDocs(c) \/ PushDocs(c)
      PROVE  DocsIInv' /\ (Minors \subseteq 0 .. 9 /\ OrderIInv => OrderIInv')
  BY <1>4, StartRunOK, FetchOK, CommitDocsOK, PushDocsOK
<1> QED
  BY <1>1, <1>2, <1>3, <1>4 DEF DocsNext

LEMMA DocsInvariant == DocsSpec => []DocsIInv
<1>1. DocsInit => DocsIInv
  BY DocsInitOK
<1>2. DocsIInv /\ [DocsNext]_docsVars => DocsIInv'
  BY DocsStepOK
<1> QED
  BY <1>1, <1>2, PTL DEF DocsSpec

LEMMA DocsIInvIsEnough ==
  ASSUME DocsIInv
  PROVE  DocsTypeOK /\ AtMostOneAhead
<1>1. DocsTypeOK
  <2>1. \A i \in DOMAIN remote : remote[i] \in Commits /\ ~remote[i].tree.pre
    BY LengthsOfDocs DEF DocsIInv, DocsTypes, NoPrerelease
  <2>2. ASSUME NEW c \in Clones
        PROVE  /\ clone[c].phase \in {"idle", "started", "checked", "committed"}
               /\ clone[c].phase # "idle" => clone[c].tree \in Trees
               /\ \A i \in DOMAIN clone[c].docs : clone[c].docs[i] \in Commits
    BY CloneFields, LengthsOfDocs DEF DocsIInv
  <2> QED
    BY <2>1, <2>2 DEF DocsTypeOK
<1>2. ASSUME NEW c \in Clones, clone[c].docs # <<>>, remote # <<>>, clone[c].docs[1] = remote[1]
      PROVE  IsPrefixOf(SubSeq(clone[c].docs, 1, Len(clone[c].docs) - 1), remote)
  <2> DEFINE docs == clone[c].docs
             front == SubSeq(docs, 1, Len(docs) - 1)
  <2>1. docs \in Seq(Commits) /\ remote \in Seq(Commits)
    BY CloneFields DEF DocsIInv, DocsTypes
  <2>2. Len(docs) - 1 <= Len(remote) /\ \A i \in 1 .. Len(docs) - 1 : docs[i] = remote[i]
    BY <1>2 DEF DocsIInv, CloneOK, Follows
  <2>3. Len(docs) \in Nat /\ Len(docs) >= 1 /\ Len(remote) \in Nat
    BY <1>2, <2>1, LengthsOfDocs
  <2>4. PICK n \in Nat : n = Len(docs) - 1
    <3> HIDE DEF docs
    <3>1. Len(docs) - 1 \in Nat
      BY <2>3
    <3> QED
      BY <3>1
  <2>5. /\ front \in Seq(Commits) /\ Len(front) = n
        /\ \A i \in 1 .. n : front[i] = docs[i]
    BY <2>1, <2>3, <2>4
  <2>6. /\ SubSeq(remote, 1, n) \in Seq(Commits) /\ Len(SubSeq(remote, 1, n)) = n
        /\ \A i \in 1 .. n : SubSeq(remote, 1, n)[i] = remote[i]
    BY <2>1, <2>2, <2>3, <2>4
  <2> HIDE DEF front
  <2>7. front = SubSeq(remote, 1, n)
    <3>1. \A i \in 1 .. Len(front) : front[i] = SubSeq(remote, 1, n)[i]
      BY <2>2, <2>4, <2>5, <2>6
    <3> QED
      BY <2>5, <2>6, <3>1, SeqEqual
  <2>8. IsPrefixOf(front, remote)
    BY <2>2, <2>4, <2>5, <2>7 DEF IsPrefixOf
  <2> QED
    BY <2>8 DEF front
<1>3. AtMostOneAhead
  BY <1>2 DEF AtMostOneAhead
<1> QED
  BY <1>1, <1>3

\* Whatever the number of clones, pushes and runs and whatever they had fetched:
\* as long as the minors of a major version have one digit, the docs of a minor
\* never replace those of a newer one, no prerelease is documented, and no run
\* builds on a commit that was never pushed (scripts/update-docs-branch.js).
THEOREM DocsOfOneDigitStayInOrder ==
  ASSUME Minors \subseteq 0 .. 9
  PROVE  DocsSpec => []DocsStayInOrder
<1> DEFINE Inv == DocsIInv /\ OrderIInv
<1>1. DocsInit => Inv
  BY DocsInitOK
<1>2. Inv /\ [DocsNext]_docsVars => Inv'
  BY DocsStepOK
<1>3. Inv => DocsStayInOrder
  BY DocsIInvIsEnough DEF DocsStayInOrder, OrderIInv, InOrder, MinorsOnlyGrow
<1> HIDE DEF Inv
<1> QED
  BY <1>1, <1>2, <1>3, PTL DEF DocsSpec

\* For minors of one or two digits: no prerelease is documented, and a clone
\* that shares its docs branch with origin is one commit ahead of it at most,
\* which is what the refusal of conflicting branches is for (lines 40-47 of
\* update-docs-branch.js).
THEOREM NoRunBuildsOnLostCommits == DocsSpec => [](DocsTypeOK /\ AtMostOneAhead)
<1>1. DocsIInv => DocsTypeOK /\ AtMostOneAhead
  BY DocsIInvIsEnough
<1> QED
  BY <1>1, DocsInvariant, PTL

-----------------------------------------------------------------------------
(* The prover's runs.                                                      *)

TableLines == {<<"header">>} \cup ({"row"} \X Entries \X BOOLEAN \X BOOLEAN)

Stages == {"waiting", "running", "ended", "reported"}
Children == {"none", "alive", "succeeded", "failed"}

CertoraTypeOK ==
  /\ process \in {"starting", "running", "exited"}
  /\ exitCode \in {0, 1}
  /\ queue \subseteq DOMAIN Specs
  /\ stage \in [Entries -> Stages]
  /\ child \in [Entries -> Children]
  /\ table \in Seq(TableLines)

OutputOK ==
  /\ printed \in [Entries -> Seq(Chunks)]
  /\ collected \in [Entries -> Nat]
  /\ statusUrls \in [Entries -> {0, 1}]
  /\ \A e \in Entries : collected[e] <= Len(printed[e])

\* A run has a child from its start on, and one that has ended from its end on;
\* only what is selected is queued, and it stays queued until it starts.
StagesOK ==
  /\ \A e \in Entries : stage[e] = "waiting" <=> child[e] = "none"
  /\ \A e \in Entries : stage[e] \in {"ended", "reported"} => child[e] \in {"succeeded", "failed"}
  /\ \A i \in queue : stage[Specs[i]] = "waiting" /\ Specs[i] \in Selected
  /\ \A e \in Entries : child[e] # "none" => e \in Selected
  /\ process = "starting" =>
       exitCode = 0 /\ queue = {} /\ \A e \in Entries : stage[e] = "waiting"
  /\ process = "running" => RequestsMissing = {}
  /\ process = "running" =>
       \A e \in Selected : stage[e] # "waiting" \/ \E i \in queue : Specs[i] = e
  /\ process = "exited" /\ exitCode = 0 =>
       RequestsMissing = {} /\ \A e \in Selected : stage[e] = "reported"
  /\ exitCode = 0 =>
       \A e \in Entries : stage[e] \in {"ended", "reported"} => child[e] = "succeeded"

\* The lines after the header are those of the entries that are reported.
TableOK ==
  /\ table # <<>> => table[1] = <<"header">>
  /\ \A i \in 2 .. Len(table) :
       /\ table[i] \in {"row"} \X Entries \X BOOLEAN \X BOOLEAN
       /\ stage[table[i][2]] = "reported"
       /\ table[i][3] <=> child[table[i][2]] = "failed"
  /\ \A i, j \in 2 .. Len(table) : table[i][2] = table[j][2] => i = j
  /\ \A e \in Entries :
       stage[e] = "reported" => \E i \in 2 .. Len(table) : table[i][2] = e

CertoraIInv ==
  /\ CertoraTypeOK /\ OutputOK /\ StagesOK /\ TableOK
  /\ Cardinality(Active) <= Parallel

LEMMA EntriesAreFinite == IsFiniteSet(Entries)
<1>1. Specs \in Seq(Range(Specs)) /\ Entries = Range(Specs)
  BY RunAssumption DEF Entries
<1>2. Len(Specs) \in Nat /\ Specs \in [1 .. Len(Specs) -> Entries]
  BY <1>1
<1>3. Specs \in Surjection(1 .. Len(Specs), Entries)
  BY <1>1, <1>2 DEF Surjection, Range
<1>4. IsFiniteSet(1 .. Len(Specs))
  BY <1>2, FS_Interval
<1> QED
  BY <1>3, <1>4, FS_Surjection

LEMMA PlacesOfEntries ==
  /\ \A i \in DOMAIN Specs : Specs[i] \in Entries
  /\ \A i, j \in DOMAIN Specs : Specs[i] = Specs[j] => i = j
  /\ \A e \in Entries : \E i \in DOMAIN Specs : Specs[i] = e
BY RunAssumption DEF Entries, Range, IsInjective

LEMMA ActiveIsFinite ==
  ASSUME NEW S \in SUBSET Entries
  PROVE  IsFiniteSet(S) /\ Cardinality(S) \in Nat
BY EntriesAreFinite, FS_Subset, FS_CardinalityType

LEMMA CertoraInitOK ==
  ASSUME CertoraInit
  PROVE  CertoraIInv
<1>1. /\ process = "starting" /\ exitCode = 0 /\ queue = {} /\ table = <<>>
      /\ stage = [e \in Entries |-> "waiting"] /\ child = [e \in Entries |-> "none"]
      /\ printed = [e \in Entries |-> <<>>]
      /\ collected = [e \in Entries |-> 0] /\ statusUrls = [e \in Entries |-> 0]
  BY DEF CertoraInit, NothingRun
<1>2. CertoraTypeOK /\ OutputOK
  BY <1>1 DEF CertoraTypeOK, OutputOK, Stages, Children
<1>3. StagesOK /\ TableOK
  BY <1>1 DEF StagesOK, TableOK
<1>4. Active = {}
  BY <1>1 DEF Active
<1>5. Cardinality(Active) <= Parallel
  BY <1>4, FS_EmptySet, RunAssumption
<1> QED
  BY <1>2, <1>3, <1>5 DEF CertoraIInv

\* The selection never changes.
LEMMA SelectionKept ==
  ASSUME argv' = argv
  PROVE  Selected' = Selected /\ RequestsMissing' = RequestsMissing
BY DEF Selected, RequestsMissing

LEMMA ActiveKept ==
  ASSUME stage' = stage, Cardinality(Active) <= Parallel
  PROVE  Cardinality(Active') <= Parallel
BY DEF Active

LEMMA MainOK ==
  ASSUME CertoraIInv, Main
  PROVE  CertoraIInv'
<1>1. /\ process = "starting" /\ argv' = argv /\ stage' = stage /\ child' = child
      /\ printed' = printed /\ collected' = collected /\ statusUrls' = statusUrls
      /\ table' = table
  BY DEF Main
<1>2. Selected' = Selected /\ RequestsMissing' = RequestsMissing
  BY <1>1, SelectionKept
<1>3. OutputOK' /\ TableOK' /\ Cardinality(Active') <= Parallel
  BY <1>1, ActiveKept DEF CertoraIInv, OutputOK, TableOK
<1>4. exitCode = 0 /\ queue = {} /\ \A e \in Entries : stage[e] = "waiting"
  BY <1>1 DEF CertoraIInv, StagesOK
<1>5. CASE RequestsMissing # {}
  <2>1. process' = "exited" /\ exitCode' = 1 /\ queue' = queue
    BY <1>5 DEF Main
  <2> QED
    BY <1>1, <1>2, <1>3, <2>1 DEF CertoraIInv, CertoraTypeOK, StagesOK
<1>6. CASE RequestsMissing = {}
  <2>1. /\ process' = "running" /\ exitCode' = exitCode
        /\ queue' = {i \in DOMAIN Specs : Specs[i] \in Selected}
    BY <1>6 DEF Main
  <2>2. CertoraTypeOK'
    BY <1>1, <2>1 DEF CertoraIInv, CertoraTypeOK
  <2>3. \A i \in queue' : stage'[Specs[i]] = "waiting" /\ Specs[i] \in Selected'
    BY <1>1, <1>2, <1>4, <2>1, PlacesOfEntries
  <2>4. \A e \in Selected' : \E i \in queue' : Specs[i] = e
    <3>1. Selected \subseteq Entries
      BY DEF Selected
    <3> QED
      BY <1>2, <2>1, <3>1, PlacesOfEntries
  <2>5. StagesOK'
    BY <1>1, <1>2, <1>4, <1>6, <2>1, <2>3, <2>4 DEF CertoraIInv, StagesOK
  <2> QED
    BY <1>3, <2>2, <2>5 DEF CertoraIInv
<1> QED
  BY <1>5, <1>6

LEMMA StartOK ==
  ASSUME CertoraIInv, Start
  PROVE  CertoraIInv'
<1>1. /\ process = "running" /\ process' = process /\ argv' = argv /\ exitCode' = exitCode
      /\ printed' = printed /\ collected' = collected /\ statusUrls' = statusUrls
      /\ table' = table
      /\ Cardinality(Active) < Parallel
  BY DEF Start
<1>2. PICK i \in queue : /\ queue' = queue \ {i}
                         /\ stage' = [stage EXCEPT ![Specs[i]] = "running"]
                         /\ child' = [child EXCEPT ![Specs[i]] = "alive"]
  BY DEF Start
<1>3. Selected' = Selected /\ RequestsMissing' = RequestsMissing
  BY <1>1, SelectionKept
<1>4. /\ i \in DOMAIN Specs /\ Specs[i] \in Entries
      /\ stage[Specs[i]] = "waiting" /\ Specs[i] \in Selected
      /\ stage \in [Entries -> Stages] /\ child \in [Entries -> Children]
      /\ queue \subseteq DOMAIN Specs
  BY PlacesOfEntries DEF CertoraIInv, CertoraTypeOK, StagesOK
<1>5. /\ stage' \in [Entries -> Stages] /\ child' \in [Entries -> Children]
      /\ stage'[Specs[i]] = "running" /\ child'[Specs[i]] = "alive"
      /\ \A e \in Entries \ {Specs[i]} : stage'[e] = stage[e] /\ child'[e] = child[e]
  BY <1>2, <1>4 DEF Stages, Children
<1>6. CertoraTypeOK' /\ OutputOK'
  BY <1>1, <1>2, <1>5 DEF CertoraIInv, CertoraTypeOK, OutputOK
<1>7. queue' \subseteq queue /\ i \notin queue' /\ \A j \in queue : j = i \/ j \in queue'
  BY <1>2
<1>8. StagesOK'
  <2>1. \A j \in queue' : stage'[Specs[j]] = "waiting" /\ Specs[j] \in Selected
    <3>1. \A j \in queue' : Specs[j] \in Entries \ {Specs[i]}
      BY <1>4, <1>7, PlacesOfEntries
    <3> QED
      BY <1>5, <1>7, <3>1 DEF CertoraIInv, StagesOK
  <2>2. \A e \in Entries : stage'[e] = "waiting" <=> child'[e] = "none"
    BY <1>5 DEF CertoraIInv, StagesOK
  <2>3. \A e \in Entries : stage'[e] \in {"ended", "reported"} => child'[e] \in {"succeeded", "failed"}
    BY <1>5 DEF CertoraIInv, StagesOK
  <2>4. \A e \in Entries : child'[e] # "none" => e \in Selected
    BY <1>4, <1>5 DEF CertoraIInv, StagesOK
  <2>5. \A e \in Selected : stage'[e] # "waiting" \/ \E j \in queue' : Specs[j] = e
    <3>1. Selected \subseteq Entries
      BY DEF Selected
    <3> QED
      BY <1>1, <1>5, <1>7, <3>1 DEF CertoraIInv, StagesOK
  <2>6. exitCode = 0 =>
          \A e \in Entries : stage'[e] \in {"ended", "reported"} => child'[e] = "succeeded"
    BY <1>5 DEF CertoraIInv, StagesOK
  <2> QED
    BY <1>1, <1>3, <2>1, <2>2, <2>3, <2>4, <2>5, <2>6 DEF CertoraIInv, StagesOK
<1>9. TableOK'
  <2>1. \A k \in 2 .. Len(table) : table[k][2] \in Entries \ {Specs[i]}
    BY <1>4 DEF CertoraIInv, TableOK
  <2>2. \A k \in 2 .. Len(table) :
          stage'[table[k][2]] = stage[table[k][2]] /\ child'[table[k][2]] = child[table[k][2]]
    BY <1>5, <2>1
  <2>3. \A e \in Entries : stage'[e] = "reported" => stage[e] = "reported"
    BY <1>5
  <2> QED
    BY <1>1, <2>2, <2>3 DEF CertoraIInv, TableOK
<1>10. Cardinality(Active') <= Parallel
  <2>1. Active' = Active \cup {Specs[i]}
    BY <1>4, <1>5 DEF Active
  <2>2. IsFiniteSet(Active) /\ Cardinality(Active) \in Nat
    BY ActiveIsFinite DEF Active
  <2>3. Cardinality(Active \cup {Specs[i]}) <= Cardinality(Active) + 1
    BY <2>2, FS_AddElement
  <2>4. Cardinality(Active \cup {Specs[i]}) \in Nat
    BY <2>2, FS_AddElement, FS_CardinalityType
  <2> QED
    BY <1>1, <2>1, <2>2, <2>3, <2>4, RunAssumption
<1> QED
  BY <1>6, <1>8, <1>9, <1>10 DEF CertoraIInv

LEMMA CrashOK ==
  ASSUME CertoraIInv, Crash
  PROVE  CertoraIInv'
<1>1. /\ process' = "exited" /\ exitCode' = 1 /\ argv' = argv /\ queue' = queue
      /\ stage' = stage /\ child' = child /\ table' = table
      /\ printed' = printed /\ collected' = collected /\ statusUrls' = statusUrls
  BY DEF Crash
<1>2. Selected' = Selected /\ RequestsMissing' = RequestsMissing
  BY <1>1, SelectionKept
<1>3. CertoraTypeOK' /\ OutputOK' /\ TableOK' /\ Cardinality(Active') <= Parallel
  BY <1>1, ActiveKept DEF CertoraIInv, CertoraTypeOK, OutputOK, TableOK
<1>4. StagesOK'
  BY <1>1, <1>2 DEF CertoraIInv, StagesOK
<1> QED
  BY <1>3, <1>4 DEF CertoraIInv

\* Output goes its own way: it disturbs no stage and no row.
LEMMA OutputMoves ==
  ASSUME CertoraIInv, OutputOK',
         UNCHANGED <<argv, process, exitCode, queue, stage, child, table>>
  PROVE  CertoraIInv'
<1>1. Selected' = Selected /\ RequestsMissing' = RequestsMissing
  BY SelectionKept
<1>2. CertoraTypeOK' /\ TableOK' /\ Cardinality(Active') <= Parallel
  BY ActiveKept DEF CertoraIInv, CertoraTypeOK, TableOK
<1>3. StagesOK'
  BY <1>1 DEF CertoraIInv, StagesOK
<1> QED
  BY <1>2, <1>3 DEF CertoraIInv

LEMMA ChildPrintsOK ==
  ASSUME CertoraIInv, NEW e \in Entries, NEW chunk \in Chunks, ChildPrints(e, chunk)
  PROVE  CertoraIInv'
<1>1. /\ printed' = [printed EXCEPT ![e] = Append(printed[e], chunk)]
      /\ collected' = collected /\ statusUrls' = statusUrls
      /\ UNCHANGED <<argv, process, exitCode, queue, stage, child, table>>
  BY DEF ChildPrints
<1>2. /\ printed \in [Entries -> Seq(Chunks)]
      /\ collected \in [Entries -> Nat] /\ statusUrls \in [Entries -> {0, 1}]
      /\ \A d \in Entries : collected[d] <= Len(printed[d])
  BY DEF CertoraIInv, OutputOK
<1>3. Append(printed[e], chunk) \in Seq(Chunks) /\ Len(Append(printed[e], chunk)) = Len(printed[e]) + 1
  BY <1>2
<1>4. /\ printed' \in [Entries -> Seq(Chunks)]
      /\ \A d \in Entries : Len(printed'[d]) >= Len(printed[d])
  BY <1>1, <1>2, <1>3
<1>5. \A d \in Entries : Len(printed[d]) \in Nat /\ Len(printed'[d]) \in Nat
  BY <1>2, <1>4
<1>6. \A d \in Entries : collected[d] <= Len(printed'[d])
  BY <1>2, <1>4, <1>5
<1>7. OutputOK'
  BY <1>1, <1>2, <1>4, <1>6 DEF OutputOK
<1> QED
  BY <1>1, <1>7, OutputMoves

LEMMA OnDataOK ==
  ASSUME CertoraIInv, NEW e \in Entries, OnData(e)
  PROVE  CertoraIInv'
<1>1. /\ collected[e] < Len(printed[e])
      /\ collected' = [collected EXCEPT ![e] = collected[e] + 1]
      /\ printed' = printed
      /\ UNCHANGED <<argv, process, exitCode, queue, stage, child, table>>
  BY DEF OnData
<1>2. PICK links : statusUrls' = [statusUrls EXCEPT ![e] = links]
                   /\ (links = 1 \/ links = statusUrls[e])
  BY DEF OnData
<1>3. /\ printed \in [Entries -> Seq(Chunks)]
      /\ collected \in [Entries -> Nat] /\ statusUrls \in [Entries -> {0, 1}]
      /\ \A d \in Entries : collected[d] <= Len(printed[d])
  BY DEF CertoraIInv, OutputOK
<1>4. statusUrls' \in [Entries -> {0, 1}]
  BY <1>2, <1>3
<1>5. Len(printed[e]) \in Nat
  BY <1>3
<1>6. collected' \in [Entries -> Nat] /\ \A d \in Entries : collected'[d] <= Len(printed[d])
  BY <1>1, <1>3, <1>5
<1>7. OutputOK'
  BY <1>1, <1>3, <1>4, <1>6 DEF OutputOK
<1> QED
  BY <1>1, <1>7, OutputMoves

LEMMA ExitOK ==
  ASSUME CertoraIInv, NEW e \in Entries, NEW outcome \in {"succeeded", "failed"},
         Exit(e, outcome)
  PROVE  CertoraIInv'
<1>1. /\ child[e] = "alive"
      /\ child' = [child EXCEPT ![e] = outcome]
      /\ argv' = argv /\ process' = process /\ exitCode' = exitCode /\ queue' = queue
      /\ stage' = stage /\ table' = table
      /\ printed' = printed /\ collected' = collected /\ statusUrls' = statusUrls
  BY DEF Exit
<1>2. Selected' = Selected /\ RequestsMissing' = RequestsMissing
  BY <1>1, SelectionKept
<1>3. stage \in [Entries -> Stages] /\ child \in [Entries -> Children]
  BY DEF CertoraIInv, CertoraTypeOK
<1>4. /\ child' \in [Entries -> Children] /\ child'[e] = outcome
      /\ \A d \in Entries \ {e} : child'[d] = child[d]
  BY <1>1, <1>3 DEF Children
<1>5. CertoraTypeOK' /\ OutputOK' /\ Cardinality(Active') <= Parallel
  BY <1>1, <1>4, ActiveKept DEF CertoraIInv, CertoraTypeOK, OutputOK
<1>6. stage[e] = "running"
  BY <1>1, <1>3 DEF CertoraIInv, StagesOK, Stages
<1>7. StagesOK'
  <2>1. \A d \in Entries : stage[d] = "waiting" <=> child'[d] = "none"
    BY <1>1, <1>4 DEF CertoraIInv, StagesOK
  <2>2. \A d \in Entries : stage[d] \in {"ended", "reported"} => child'[d] \in {"succeeded", "failed"}
    BY <1>4 DEF CertoraIInv, StagesOK
  <2>3. \A d \in Entries : child'[d] # "none" => d \in Selected
    BY <1>1, <1>4 DEF CertoraIInv, StagesOK
  <2>4. exitCode = 0 =>
          \A d \in Entries : stage[d] \in {"ended", "reported"} => child'[d] = "succeeded"
    BY <1>4, <1>6 DEF CertoraIInv, StagesOK
  <2> QED
    BY <1>1, <1>2, <2>1, <2>2, <2>3, <2>4 DEF CertoraIInv, StagesOK
<1>8. TableOK'
  <2>1. \A k \in 2 .. Len(table) : table[k][2] \in Entries \ {e}
    BY <1>6 DEF CertoraIInv, TableOK
  <2>2. \A k \in 2 .. Len(table) : child'[table[k][2]] = child[table[k][2]]
    BY <1>4, <2>1
  <2> QED
    BY <1>1, <2>2 DEF CertoraIInv, TableOK
<1> QED
  BY <1>5, <1>7, <1>8 DEF CertoraIInv

LEMMA OnExitOK ==
  ASSUME CertoraIInv, NEW e \in Entries, OnExit(e)
  PROVE  CertoraIInv'
<1>1. /\ process = "running" /\ stage[e] = "running" /\ child[e] \in {"succeeded", "failed"}
      /\ stage' = [stage EXCEPT ![e] = "ended"]
      /\ argv' = argv /\ process' = process /\ queue' = queue /\ child' = child /\ table' = table
      /\ printed' = printed /\ collected' = collected /\ statusUrls' = statusUrls
  BY DEF OnExit
<1>2. exitCode' = IF child[e] = "failed" THEN 1 ELSE exitCode
  BY DEF OnExit
<1>3. Selected' = Selected /\ RequestsMissing' = RequestsMissing
  BY <1>1, SelectionKept
<1>4. /\ stage \in [Entries -> Stages] /\ exitCode \in {0, 1}
  BY DEF CertoraIInv, CertoraTypeOK
<1>5. /\ stage' \in [Entries -> Stages] /\ stage'[e] = "ended"
      /\ \A d \in Entries \ {e} : stage'[d] = stage[d]
  BY <1>1, <1>4 DEF Stages
<1>6. exitCode' \in {0, 1} /\ (exitCode' = 0 => exitCode = 0 /\ child[e] = "succeeded")
  BY <1>1, <1>2, <1>4
<1>7. CertoraTypeOK' /\ OutputOK'
  BY <1>1, <1>5, <1>6 DEF CertoraIInv, CertoraTypeOK, OutputOK
<1>8. \A d \in Entries : stage'[d] = "waiting" <=> stage[d] = "waiting"
  BY <1>1, <1>5
<1>9. StagesOK'
  <2>1. \A d \in Entries : stage'[d] \in {"ended", "reported"} => child[d] \in {"succeeded", "failed"}
    BY <1>1, <1>5 DEF CertoraIInv, StagesOK
  <2>2. exitCode' = 0 =>
          \A d \in Entries : stage'[d] \in {"ended", "reported"} => child[d] = "succeeded"
    BY <1>5, <1>6 DEF CertoraIInv, StagesOK
  <2>3. \A i \in queue : stage'[Specs[i]] = "waiting" /\ Specs[i] \in Selected
    BY <1>8, PlacesOfEntries DEF CertoraIInv, StagesOK, CertoraTypeOK
  <2>4. \A d \in Selected : stage'[d] # "waiting" \/ \E i \in queue : Specs[i] = d
    <3>1. Selected \subseteq Entries
      BY DEF Selected
    <3> QED
      BY <1>1, <1>8, <3>1 DEF CertoraIInv, StagesOK
  <2>5. \A d \in Entries : stage'[d] = "waiting" <=> child'[d] = "none"
    BY <1>1, <1>8 DEF CertoraIInv, StagesOK
  <2> QED
    BY <1>1, <1>3, <2>1, <2>2, <2>3, <2>4, <2>5 DEF CertoraIInv, StagesOK
<1>10. TableOK'
  <2>1. \A d \in Entries : stage'[d] = "reported" <=> stage[d] = "reported"
    BY <1>1, <1>5
  <2> QED
    BY <1>1, <2>1 DEF CertoraIInv, TableOK
<1>11. Active' = Active
  BY <1>1, <1>5 DEF Active
<1> QED
  BY <1>7, <1>9, <1>10, <1>11 DEF CertoraIInv

\* What a row that is appended does to the table.
LEMMA TableGrows ==
  ASSUME CertoraTypeOK, NEW e \in Entries, WriteEntry(e)
  PROVE  /\ Row(e) \in {"row"} \X Entries \X BOOLEAN \X BOOLEAN
         /\ Row(e)[2] = e /\ Row(e)[3] = (child[e] = "failed")
         /\ table' \in Seq(TableLines)
         /\ table' # <<>>
         /\ table = <<>> => table'[1] = <<"header">> /\ Len(table') = 2
         /\ table # <<>> => table'[1] = table[1] /\ Len(table') = Len(table) + 1
         /\ \A k \in 2 .. Len(table) : k \in 2 .. Len(table') /\ table'[k] = table[k]
         /\ Len(table') \in 2 .. Len(table') /\ table'[Len(table')] = Row(e)
         /\ \A k \in 2 .. Len(table') : k \in 2 .. Len(table) \/ k = Len(table')
<1>1. HasUrl(e) \in BOOLEAN
  BY DEF HasUrl
<1>2. Row(e) \in {"row"} \X Entries \X BOOLEAN \X BOOLEAN
  BY <1>1 DEF Row
<1>3. Row(e)[2] = e /\ Row(e)[3] = (child[e] = "failed")
  BY DEF Row
<1> DEFINE head == IF table = <<>> THEN <<<<"header">>>> ELSE table
<1>4. table \in Seq(TableLines) /\ table' = Append(head, Row(e))
  BY DEF CertoraTypeOK, WriteEntry
<1>5. head \in Seq(TableLines) /\ Row(e) \in TableLines
  BY <1>2, <1>4 DEF TableLines
<1>6. CASE table = <<>>
  <2>1. head = <<<<"header">>>> /\ Len(table) = 0 /\ Len(head) = 1 /\ head[1] = <<"header">>
    BY <1>6
  <2> HIDE DEF head
  <2>2. /\ table' \in Seq(TableLines) /\ Len(table') = 2
        /\ table'[1] = <<"header">> /\ table'[2] = Row(e)
    BY <1>4, <1>5, <2>1
  <2>3. /\ \A k \in 2 .. Len(table) : FALSE
        /\ \A k \in 2 .. Len(table') : k = Len(table')
        /\ Len(table') \in 2 .. Len(table') /\ table'[Len(table')] = Row(e)
    BY <2>1, <2>2
  <2>4. table' # <<>>
    BY <2>2
  <2> QED
    BY <1>2, <1>3, <1>6, <2>2, <2>3, <2>4
<1>7. CASE table # <<>>
  <2>1. head = table /\ Len(table) \in Nat /\ Len(table) >= 1
    BY <1>4, <1>7
  <2> HIDE DEF head
  <2>2. /\ table' \in Seq(TableLines) /\ Len(table') = Len(table) + 1
        /\ table'[Len(table) + 1] = Row(e)
        /\ \A k \in 1 .. Len(table) : table'[k] = table[k]
    BY <1>4, <1>5, <2>1
  <2> QED
    BY <1>2, <1>3, <1>7, <2>1, <2>2
<1> QED
  BY <1>6, <1>7

LEMMA ReportOK ==
  ASSUME CertoraIInv, NEW e \in Entries, Report(e)
  PROVE  CertoraIInv'
<1>1. /\ process = "running" /\ stage[e] = "ended"
      /\ stage' = [stage EXCEPT ![e] = "reported"]
      /\ argv' = argv /\ process' = process /\ exitCode' = exitCode /\ queue' = queue
      /\ child' = child
      /\ printed' = printed /\ collected' = collected /\ statusUrls' = statusUrls
  BY DEF Report
<1>2. /\ Row(e) \in {"row"} \X Entries \X BOOLEAN \X BOOLEAN
      /\ Row(e)[2] = e /\ Row(e)[3] = (child[e] = "failed")
      /\ table' \in Seq(TableLines)
      /\ table' # <<>>
      /\ table = <<>> => table'[1] = <<"header">> /\ Len(table') = 2
      /\ table # <<>> => table'[1] = table[1] /\ Len(table') = Len(table) + 1
      /\ \A k \in 2 .. Len(table) : k \in 2 .. Len(table') /\ table'[k] = table[k]
      /\ Len(table') \in 2 .. Len(table') /\ table'[Len(table')] = Row(e)
      /\ \A k \in 2 .. Len(table') : k \in 2 .. Len(table) \/ k = Len(table')
  <2>1. WriteEntry(e)
    BY DEF Report
  <2> QED
    BY <2>1, TableGrows DEF CertoraIInv
<1>3. Selected' = Selected /\ RequestsMissing' = RequestsMissing
  BY <1>1, SelectionKept
<1>4. stage \in [Entries -> Stages] /\ stage' \in [Entries -> Stages] /\ stage'[e] = "reported"
      /\ \A d \in Entries \ {e} : stage'[d] = stage[d]
  BY <1>1 DEF CertoraIInv, CertoraTypeOK, Stages
<1>5. CertoraTypeOK' /\ OutputOK'
  BY <1>1, <1>2, <1>4 DEF CertoraIInv, CertoraTypeOK, OutputOK
<1>6. \A d \in Entries : stage'[d] = "waiting" <=> stage[d] = "waiting"
  BY <1>1, <1>4
<1>7. \A d \in Entries : stage'[d] \in {"ended", "reported"} <=> stage[d] \in {"ended", "reported"}
  BY <1>1, <1>4
<1>8. StagesOK'
  <2>1. \A i \in queue : stage'[Specs[i]] = "waiting" /\ Specs[i] \in Selected
    BY <1>6, PlacesOfEntries DEF CertoraIInv, StagesOK, CertoraTypeOK
  <2>2. \A d \in Selected : stage'[d] # "waiting" \/ \E i \in queue : Specs[i] = d
    <3>1. Selected \subseteq Entries
      BY DEF Selected
    <3> QED
      BY <1>1, <1>6, <3>1 DEF CertoraIInv, StagesOK
  <2>3. \A d \in Entries : stage'[d] = "waiting" <=> child'[d] = "none"
    BY <1>1, <1>6 DEF CertoraIInv, StagesOK
  <2>4. \A d \in Entries : stage'[d] \in {"ended", "reported"} => child[d] \in {"succeeded", "failed"}
    BY <1>7 DEF CertoraIInv, StagesOK
  <2>5. exitCode = 0 =>
          \A d \in Entries : stage'[d] \in {"ended", "reported"} => child[d] = "succeeded"
    BY <1>7 DEF CertoraIInv, StagesOK
  <2> QED
    BY <1>1, <1>3, <2>1, <2>2, <2>3, <2>4, <2>5 DEF CertoraIInv, StagesOK
<1>9. TableOK'
  <2>1. table'[1] = <<"header">>
    BY <1>2 DEF CertoraIInv, TableOK
  <2>2. \A k \in 2 .. Len(table') :
          /\ table'[k] \in {"row"} \X Entries \X BOOLEAN \X BOOLEAN
          /\ stage'[table'[k][2]] = "reported"
          /\ table'[k][3] <=> child[table'[k][2]] = "failed"
    <3>1. SUFFICES ASSUME NEW k \in 2 .. Len(table')
                   PROVE  /\ table'[k] \in {"row"} \X Entries \X BOOLEAN \X BOOLEAN
                          /\ stage'[table'[k][2]] = "reported"
                          /\ table'[k][3] <=> child[table'[k][2]] = "failed"
      OBVIOUS
    <3>2. CASE k \in 2 .. Len(table)
      <4>1. /\ table'[k] = table[k]
            /\ table[k] \in {"row"} \X Entries \X BOOLEAN \X BOOLEAN
            /\ stage[table[k][2]] = "reported"
            /\ table[k][3] <=> child[table[k][2]] = "failed"
        BY <1>2, <3>2 DEF CertoraIInv, TableOK
      <4>2. table[k][2] \in Entries \ {e}
        BY <1>1, <4>1
      <4> QED
        BY <1>4, <4>1, <4>2
    <3>3. CASE k = Len(table')
      BY <1>2, <1>4, <3>3
    <3> QED
      BY <1>2, <3>1, <3>2, <3>3
  <2>3. \A i, j \in 2 .. Len(table') : table'[i][2] = table'[j][2] => i = j
    <3>1. \A k \in 2 .. Len(table) : table'[k][2] = table[k][2] /\ table[k][2] # e
      BY <1>1, <1>2 DEF CertoraIInv, TableOK
    <3>2. table'[Len(table')][2] = e
      BY <1>2
    <3>3. \A i, j \in 2 .. Len(table) : table[i][2] = table[j][2] => i = j
      BY DEF CertoraIInv, TableOK
    <3>4. \A k \in 2 .. Len(table') : k \in 2 .. Len(table) \/ k = Len(table')
      BY <1>2
    <3> QED
      BY <3>1, <3>2, <3>3, <3>4
  <2>4. \A d \in Entries :
          stage'[d] = "reported" => \E i \in 2 .. Len(table') : table'[i][2] = d
    <3>1. SUFFICES ASSUME NEW d \in Entries, stage'[d] = "reported"
                   PROVE  \E i \in 2 .. Len(table') : table'[i][2] = d
      OBVIOUS
    <3>2. CASE d = e
      BY <1>2, <3>2
    <3>3. CASE d # e
      <4>1. PICK i \in 2 .. Len(table) : table[i][2] = d
        BY <1>4, <3>1, <3>3 DEF CertoraIInv, TableOK
      <4> QED
        BY <1>2, <4>1
    <3> QED
      BY <3>2, <3>3
  <2> QED
    BY <1>1, <2>1, <2>2, <2>3, <2>4 DEF TableOK
<1>10. Cardinality(Active') <= Parallel
  <2>1. Active' \subseteq Active
    BY <1>1, <1>4 DEF Active
  <2>2. IsFiniteSet(Active) /\ Cardinality(Active) \in Nat
    BY ActiveIsFinite DEF Active
  <2>3. Cardinality(Active') <= Cardinality(Active) /\ Cardinality(Active') \in Nat
    BY <2>1, <2>2, FS_Subset, FS_CardinalityType
  <2> QED
    BY <2>2, <2>3, RunAssumption DEF CertoraIInv
<1> QED
  BY <1>5, <1>8, <1>9, <1>10 DEF CertoraIInv

LEMMA FinishOK ==
  ASSUME CertoraIInv, Finish
  PROVE  CertoraIInv'
<1>1. /\ process = "running" /\ queue = {} /\ Active = {} /\ process' = "exited"
      /\ argv' = argv /\ exitCode' = exitCode /\ queue' = queue /\ stage' = stage
      /\ child' = child /\ table' = table
      /\ printed' = printed /\ collected' = collected /\ statusUrls' = statusUrls
  BY DEF Finish
<1>2. Selected' = Selected /\ RequestsMissing' = RequestsMissing
  BY <1>1, SelectionKept
<1>3. CertoraTypeOK' /\ OutputOK' /\ TableOK' /\ Cardinality(Active') <= Parallel
  BY <1>1, ActiveKept DEF CertoraIInv, CertoraTypeOK, OutputOK, TableOK
<1>4. \A e \in Selected : stage[e] = "reported"
  <2>1. SUFFICES ASSUME NEW e \in Selected
                 PROVE  stage[e] = "reported"
    OBVIOUS
  <2>2. e \in Entries /\ stage[e] \in Stages
    BY DEF Selected, CertoraIInv, CertoraTypeOK
  <2>3. stage[e] \notin {"running", "ended"}
    BY <1>1, <2>2 DEF Active
  <2>4. stage[e] # "waiting"
    BY <1>1 DEF CertoraIInv, StagesOK
  <2> QED
    BY <2>2, <2>3, <2>4 DEF Stages
<1>5. StagesOK'
  BY <1>1, <1>2, <1>4 DEF CertoraIInv, StagesOK
<1> QED
  BY <1>3, <1>5 DEF CertoraIInv

LEMMA CertoraInvariant == CertoraSpec => []CertoraIInv
<1>1. CertoraInit => CertoraIInv
  BY CertoraInitOK
<1>2. CertoraIInv /\ [CertoraNext]_certoraVars => CertoraIInv'
  <2> SUFFICES ASSUME CertoraIInv, [CertoraNext]_certoraVars
               PROVE  CertoraIInv'
    OBVIOUS
  <2>1. CASE UNCHANGED certoraVars
    <3>1. UNCHANGED <<argv, process, exitCode, queue, stage, child, table>>
      BY <2>1 DEF certoraVars
    <3>2. OutputOK'
      BY <2>1 DEF certoraVars, CertoraIInv, OutputOK
    <3> QED
      BY <3>1, <3>2, OutputMoves
  <2>2. CASE Main \/ Start \/ Finish
    BY <2>2, MainOK, StartOK, FinishOK
  <2>3. ASSUME NEW e \in Entries,
               \/ SpawnFails(e) \/ OnData(e) \/ OnExit(e) \/ LateData(e) \/ Report(e)
               \/ \E chunk \in Chunks : ChildPrints(e, chunk)
               \/ \E outcome \in {"succeeded", "failed"} : Exit(e, outcome)
        PROVE  CertoraIInv'
    <3>1. CASE SpawnFails(e) \/ LateData(e)
      <4>1. Crash
        BY <3>1 DEF SpawnFails, LateData
      <4> QED
        BY <4>1, CrashOK
    <3>2. CASE OnData(e) \/ OnExit(e) \/ Report(e)
      BY <3>2, OnDataOK, OnExitOK, ReportOK
    <3>3. CASE \E chunk \in Chunks : ChildPrints(e, chunk)
      BY <3>3, ChildPrintsOK
    <3>4. CASE \E outcome \in {"succeeded", "failed"} : Exit(e, outcome)
      BY <3>4, ExitOK
    <3> QED
      BY <2>3, <3>1, <3>2, <3>3, <3>4
  <2> QED
    BY <2>1, <2>2, <2>3 DEF CertoraNext
<1> QED
  BY <1>1, <1>2, PTL DEF CertoraSpec

\* certora/run.js: the table has a header and one true row for each run that
\* was reported, never more than argv.parallel provers are at work, nothing runs
\* that was not asked for, and an exit code of zero means that all that was
\* asked for was found, ran and succeeded, for any list of specs and requests and
\* whatever the order of the children's events.
THEOREM TheReportIsTrue == CertoraSpec => []ReportIsTrue
<1>1. CertoraIInv => ReportIsTrue
  <2> SUFFICES ASSUME CertoraIInv
               PROVE  ReportIsTrue
    OBVIOUS
  <2>1. /\ CertoraTypeOK /\ OutputOK /\ StagesOK /\ TableOK
        /\ Cardinality(Active) <= Parallel
    BY DEF CertoraIInv
  <2>2. Len(table) \in Nat
    BY <2>1 DEF CertoraTypeOK
  <2>3. Rows = 2 .. Len(table)
    <3>1. \A i \in 2 .. Len(table) : table[i][1] = "row"
      BY <2>1 DEF TableOK
    <3>2. Len(table) >= 1 => table # <<>>
      OBVIOUS
    <3>3. table # <<>> => table[1][1] = "header"
      BY <2>1 DEF TableOK
    <3>4. \A i \in 1 .. Len(table) : i = 1 \/ i \in 2 .. Len(table)
      BY <2>2
    <3>5. \A i \in 2 .. Len(table) : i \in 1 .. Len(table) /\ i # 1
      BY <2>2
    <3>6. \A i \in 1 .. Len(table) : table # <<>>
      BY <2>2, <3>2
    <3> QED
      BY <3>1, <3>3, <3>4, <3>5, <3>6 DEF Rows
  <2>4. table # <<>> => Cardinality(Rows) = Len(table) - 1
    <3>1. Cardinality(2 .. Len(table)) = IF 2 > Len(table) THEN 0 ELSE Len(table) - 2 + 1
      BY <2>2, FS_Interval
    <3>2. table # <<>> => Len(table) >= 1
      BY <2>1 DEF CertoraTypeOK
    <3> QED
      BY <2>2, <2>3, <3>1, <3>2
  <2>5. \A e \in Entries : Cardinality(RowsOf(e)) = IF stage[e] = "reported" THEN 1 ELSE 0
    <3>1. SUFFICES ASSUME NEW e \in Entries
                   PROVE  Cardinality(RowsOf(e)) = IF stage[e] = "reported" THEN 1 ELSE 0
      OBVIOUS
    <3>2. RowsOf(e) = {i \in 2 .. Len(table) : table[i][2] = e}
      BY <2>3 DEF RowsOf
    <3>3. CASE stage[e] = "reported"
      <4>1. PICK i \in 2 .. Len(table) : table[i][2] = e
        BY <2>1, <3>3 DEF TableOK
      <4>2. RowsOf(e) = {i}
        BY <2>1, <3>2, <4>1 DEF TableOK
      <4> QED
        BY <3>3, <4>2, FS_Singleton
    <3>4. CASE stage[e] # "reported"
      <4>1. RowsOf(e) = {}
        BY <2>1, <3>2, <3>4 DEF TableOK
      <4> QED
        BY <3>4, <4>1, FS_EmptySet
    <3> QED
      BY <3>3, <3>4
  <2>6. RunnerOK
    <3>1. \A e \in Entries : collected[e] <= Len(printed[e]) /\ statusUrls[e] <= 1
      BY <2>1 DEF OutputOK
    <3> QED
      BY <2>1, <2>4, <2>5, <3>1 DEF RunnerOK, CertoraTypeOK, Stages, Children, TableOK
  <2>7. ZeroMeansVerified
    <3>1. \A i \in Rows : table[i][3] <=> child[table[i][2]] = "failed"
      BY <2>1, <2>3 DEF TableOK
    <3>2. ASSUME process = "exited", exitCode = 0, NEW e \in Selected
          PROVE  child[e] = "succeeded" /\ \E i \in RowsOf(e) : ~table[i][3]
      <4>1. e \in Entries /\ stage[e] = "reported" /\ child[e] = "succeeded"
        BY <2>1, <3>2 DEF Selected, StagesOK
      <4>2. PICK i \in 2 .. Len(table) : table[i][2] = e
        BY <2>1, <4>1 DEF TableOK
      <4>3. i \in RowsOf(e) /\ ~table[i][3]
        BY <2>3, <3>1, <4>1, <4>2 DEF RowsOf
      <4> QED
        BY <4>1, <4>3
    <3>3. process = "exited" /\ exitCode = 0 => RequestsMissing = {}
      BY <2>1 DEF StagesOK
    <3> QED
      BY <3>1, <3>2, <3>3 DEF ZeroMeansVerified
  <2>8. OnlyRequestedRun
    <3>1. SUFFICES ASSUME NEW e \in Entries, child[e] # "none", ~argv.all
                   PROVE  \E r \in argv.requests :
                            r.spec = e.spec /\ (r.contract # AnyContract => r.contract = e.contract)
      BY DEF OnlyRequestedRun
    <3>2. PICK r \in argv.requests : Match(e, r)
      BY <2>1, <3>1 DEF StagesOK, Selected
    <3> QED
      BY <3>2 DEF Match
  <2> QED
    BY <2>6, <2>7, <2>8 DEF ReportIsTrue
<1> QED
  BY <1>1, CertoraInvariant, PTL
===============================================================================
