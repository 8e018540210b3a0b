---------------------------- MODULE ReleaseCycle ----------------------------
(***************************************************************************)
(* The release workflow of the vendored OpenZeppelin tree: what state.js   *)
(* decides for each run of release-cycle.yml, and what the jobs it starts  *)
(* do to one release branch, the version PR, npm, the tags and the PR back *)
(* to master.  Runs of one branch come one at a time; of the runs that     *)
(* wait only the latest survives.  The run on master that starts the       *)
(* release branch does not count among those of the branch.  A run works   *)
(* on the commit of its event while maintainers go on pushing, merging and *)
(* dispatching.  Pushes made with the workflow's own token start no run.   *)
(***************************************************************************)
EXTENDS Integers, FiniteSets

CONSTANTS MaxChangesets,    \* bound on the commits with a changeset
          MaxDispatches,    \* bound on the dispatches by maintainers
          MaxFailures       \* bound on the steps that fail for outside reasons

ASSUME BoundAssumption == {MaxChangesets, MaxDispatches, MaxFailures} \subseteq Nat

None == [none |-> TRUE]

\* A version of the branch's minor: its patch and the number of the candidate,
\* Final for a version without "-rc.".
Final == -1
Version(patch, rc) == [patch |-> patch, rc |-> rc]
IsFinal(version) == version.rc = Final

\* The version on master when the branch starts belongs to the minor before.
OldVersion == Version(-2, Final)

\* A version of the next minor, which another branch may release: it follows
\* every patch that this branch can come to.
NewerVersion == Version(MaxChangesets + 2, Final)

\* The order of semver.
Precedes(v, w) ==
  \/ v.patch < w.patch
  \/ v.patch = w.patch /\ ~IsFinal(v) /\ (IsFinal(w) \/ v.rc < w.rc)

VARIABLES
  branch,       \* the head of the release branch: its version, the mode of
                \* preState, the changesets not in preState and those in it
  versionPR,    \* the commit from which the open version PR was made, its title
  starting,     \* the steps to come of the run on master
  run, pending, \* on the release branch, the run in progress and the one that waits
  npm,          \* the published versions and whether as a prerelease
  distTags,     \* what "latest" and "next" point to on npm
  tags,         \* the versions with a tag on GitHub
  releases,     \* the versions with a release on GitHub
  mergePR,      \* the commit of the open PR back to master
  started,      \* start.sh has pushed the branch
  used          \* what has been used of the bounds

branchVars == <<branch, versionPR, started, starting>>
registryVars == <<npm, distTags, tags, releases, mergePR>>
releaseVars == <<branchVars, run, pending, registryVars, used>>

\* A changeset waits on master for its release.
Unreleased ==
  /\ branch = [version |-> OldVersion, mode |-> "none", fresh |-> 1, recorded |-> 0]
  /\ versionPR = None
  /\ run = None /\ pending = None
  /\ npm = [v \in {OldVersion} |-> FALSE]
  /\ distTags = [latest |-> OldVersion, next |-> None]
  /\ tags = {OldVersion} /\ releases = {OldVersion}
  /\ mergePR = None
  /\ started = FALSE
  /\ used = [commits |-> 0, dispatches |-> 0, failures |-> 0]

-----------------------------------------------------------------------------
(* What a run knows: state.js.                                             *)

\* readChangesetState: in pre mode the changesets of earlier candidates do not
\* count; after "pre exit" all of them wait for the final version.
PendingChangesets(commit) ==
  IF commit.mode = "pre" THEN commit.fresh ELSE commit.fresh + commit.recorded

HasPendingChangesets(commit) == PendingChangesets(commit) > 0

Prerelease(commit) == commit.mode = "pre"

IsPublishedOnNpm(version) == version \in DOMAIN npm

ShouldRunStart(r) == r.ref = "master" /\ r.event = "dispatch" /\ ~r.bot

\* A fault in shouldRunPromote: the run that a job dispatches promotes again.
PromoteAgain(r) == r.ref = "release" /\ r.event = "dispatch"

ShouldRunPromote(r) == r.ref = "release" /\ r.event = "dispatch" /\ ~r.bot

\* A fault in shouldRunChangesets: only pushes update the version PR.
ChangesetsOnPush(r) == r.ref = "release" /\ r.event = "push"

ShouldRunChangesets(r) ==
  /\ r.ref = "release"
  /\ \/ r.event = "push"
     \/ r.event = "dispatch" /\ r.bot

\* A fault in shouldRunPublish: changesets may be pending.
PublishAnyway(r) ==
  r.ref = "release" /\ r.event = "push" /\ ~IsPublishedOnNpm(r.commit.version)

ShouldRunPublish(r) ==
  /\ r.ref = "release" /\ r.event = "push"
  /\ ~HasPendingChangesets(r.commit)
  /\ ~IsPublishedOnNpm(r.commit.version)

\* prBackExists, in spite of its name, says that there is no open PR.
ShouldRunMerge(r) ==
  /\ r.ref = "release" /\ r.event = "push"
  /\ ~Prerelease(r.commit) /\ IsFinal(r.commit.version)
  /\ ~HasPendingChangesets(r.commit)
  /\ mergePR = None

\* set-changesets-pr-title.js: the next patch, or patch 0 of the branch.
TitlePatch(version) ==
  LET nextPatch == IF IsFinal(version) THEN version.patch + 1 ELSE version.patch
  IN  IF nextPatch < 0 THEN 0 ELSE nextPatch

\* The first steps of the jobs that the job "state" lets run.
StepsOf(r) ==
  UNION {
    IF ShouldRunStart(r) THEN {"start"} ELSE {},
    IF ~ShouldRunPromote(r) THEN {}
      ELSE IF Prerelease(r.commit) THEN {"exit prerelease"} ELSE {"rerun"},
    IF ShouldRunChangesets(r) THEN {"changesets"} ELSE {},
    IF ShouldRunPublish(r) THEN {"publish"} ELSE {},
    IF ShouldRunMerge(r) THEN {"merge"} ELSE {}}

\* The workflow has been dispatched on master, where no run was in progress.
ReleaseInit ==
  /\ Unreleased
  /\ starting = StepsOf([event |-> "dispatch", ref |-> "master", bot |-> FALSE, commit |-> branch])

-----------------------------------------------------------------------------
(* Runs.                                                                   *)

\* An event asks for a run; a run that waits already is cancelled.
PushEvent(commit) == pending' = [event |-> "push", ref |-> "release", bot |-> FALSE, commit |-> commit]

Dispatch(bot) ==
  pending' = [event |-> "dispatch", ref |-> "release", bot |-> bot, commit |-> branch']

BeginRun ==
  /\ run = None /\ pending # None
  /\ run' = [commit |-> pending.commit, steps |-> StepsOf(pending)]
  /\ pending' = None
  /\ UNCHANGED <<branchVars, registryVars, used>>

EndRun ==
  /\ run # None /\ run.steps = {}
  /\ run' = None
  /\ UNCHANGED <<branchVars, pending, registryVars, used>>

\* A job's step is done and the job goes on with the steps next.
Step(step, next) ==
  /\ run # None /\ step \in run.steps
  /\ run' = [run EXCEPT !.steps = (@ \ {step}) \cup next]
  /\ UNCHANGED used

\* A step fails for a reason outside of this repository, and ends its job.
StepFails ==
  /\ used.failures < MaxFailures
  /\ used' = [used EXCEPT !.failures = @ + 1]
  /\ \/ /\ run # None
        /\ \E step \in run.steps : run' = [run EXCEPT !.steps = @ \ {step}]
        /\ UNCHANGED starting
     \/ /\ \E step \in starting : starting' = starting \ {step}
        /\ UNCHANGED run
  /\ UNCHANGED <<branch, versionPR, started, pending, registryVars>>

\* start.sh: the branch starts in pre mode.
StartRelease ==
  /\ "start" \in starting
  /\ starting' = (starting \ {"start"}) \cup {"rerun"}
  /\ branch' = [branch EXCEPT !.mode = "pre"]
  /\ started' = TRUE
  /\ UNCHANGED <<versionPR, run, pending, registryVars, used>>

\* A fault in exit-prerelease.sh: the push is forced.
ExitPrereleaseForced ==
  /\ Step("exit prerelease", {"rerun"})
  /\ branch' = [run.commit EXCEPT !.mode = "exit"]
  /\ UNCHANGED <<versionPR, started, starting, pending, registryVars>>

\* exit-prerelease.sh: its push is rejected when the branch has moved on.
ExitPrerelease ==
  /\ Step("exit prerelease", IF branch = run.commit THEN {"rerun"} ELSE {})
  /\ branch' = IF branch = run.commit THEN [branch EXCEPT !.mode = "exit"] ELSE branch
  /\ UNCHANGED <<versionPR, started, starting, pending, registryVars>>

\* rerun.js, at the end of "promote" and of "start".
Rerun ==
  /\ \/ Step("rerun", {}) /\ UNCHANGED starting
     \/ /\ "rerun" \in starting
        /\ starting' = starting \ {"rerun"}
        /\ UNCHANGED <<run, used>>
  /\ UNCHANGED <<branch, versionPR, started, registryVars>>
  /\ Dispatch(TRUE)

\* The version that "changeset version" makes of a commit with changesets.
VersionAfter(commit) ==
  LET v == commit.version
      patch == IF v = OldVersion THEN 0 ELSE IF IsFinal(v) THEN v.patch + 1 ELSE v.patch
  IN  IF commit.mode # "pre" THEN Version(patch, Final)
      ELSE Version(patch, IF IsFinal(v) THEN 0 ELSE v.rc + 1)

\* changesets/action makes the version PR anew from the commit of the run.
Changesets ==
  /\ Step("changesets", {})
  /\ versionPR' = IF HasPendingChangesets(run.commit)
                    THEN [commit |-> run.commit, title |-> TitlePatch(run.commit.version)]
                    ELSE versionPR
  /\ UNCHANGED <<branch, started, starting, pending, registryVars>>

\* dist_tag in pack.sh
DistTag(version, prerelease) ==
  IF prerelease THEN "next"
  ELSE IF Precedes(distTags.latest, version) THEN "latest" ELSE "tmp"

\* pack.sh, "changeset tag" and npm publish, which refuses a version it has.
Publish ==
  LET version == run.commit.version
      prerelease == Prerelease(run.commit)
      tag == DistTag(version, prerelease)
  IN  /\ Step("publish", IF IsPublishedOnNpm(version) THEN {}
                         ELSE {IF tag = "latest" THEN "delete next" ELSE "push tags"})
      /\ npm' = IF IsPublishedOnNpm(version) THEN npm
                ELSE [v \in DOMAIN npm \cup {version} |->
                        IF v = version THEN prerelease ELSE npm[v]]
      /\ distTags' = IF IsPublishedOnNpm(version) \/ tag = "tmp" THEN distTags
                     ELSE [distTags EXCEPT ![tag] = version]
      /\ UNCHANGED <<branchVars, pending, tags, releases, mergePR>>

\* delete_tag next in publish.sh: npm fails when there is no such tag, and then
\* the script does.
DeleteNext ==
  /\ Step("delete next", IF distTags.next = None THEN {} ELSE {"push tags"})
  /\ distTags' = [distTags EXCEPT !.next = None]
  /\ UNCHANGED <<branchVars, pending, npm, tags, releases, mergePR>>

PushTags ==
  /\ Step("push tags", {"create release"})
  /\ tags' = tags \cup {run.commit.version}
  /\ UNCHANGED <<branchVars, pending, npm, distTags, releases, mergePR>>

\* github-release.js
CreateRelease ==
  /\ Step("create release", {})
  /\ releases' = releases \cup {run.commit.version}
  /\ UNCHANGED <<branchVars, pending, npm, distTags, tags, mergePR>>

\* The job "merge": push the commit to merge/release-vX.Y and open a PR.
Merge ==
  /\ Step("merge", {})
  /\ mergePR' = run.commit
  /\ UNCHANGED <<branchVars, pending, npm, distTags, tags, releases>>

-----------------------------------------------------------------------------
(* Maintainers, at any time.                                               *)

\* A commit with a changeset goes to the release branch.
CommitChangeset ==
  /\ started /\ used.commits < MaxChangesets
  /\ used' = [used EXCEPT !.commits = @ + 1]
  /\ branch' = [branch EXCEPT !.fresh = @ + 1]
  /\ PushEvent(branch')
  /\ UNCHANGED <<versionPR, started, starting, run, registryVars>>

\* The version PR is merged into a branch that may have moved on since; when
\* another version has been merged meanwhile, it conflicts.
MergeVersionPR ==
  /\ versionPR # None /\ versionPR.commit.version = branch.version
  /\ LET base == versionPR.commit
     IN  branch' = [version |-> VersionAfter(base),
                    mode |-> IF base.mode = "pre" THEN branch.mode ELSE "none",
                    fresh |-> branch.fresh - base.fresh,
                    recorded |-> IF base.mode = "pre" THEN branch.recorded + base.fresh
                                 ELSE branch.recorded - base.recorded]
  /\ versionPR' = None
  /\ PushEvent(branch')
  /\ UNCHANGED <<started, starting, run, registryVars, used>>

\* The workflow is dispatched on the release branch.
DispatchOnBranch ==
  /\ started /\ used.dispatches < MaxDispatches
  /\ used' = [used EXCEPT !.dispatches = @ + 1]
  /\ UNCHANGED <<branchVars, run, registryVars>>
  /\ Dispatch(FALSE)

\* The PR back to master is merged.
MergeBack ==
  /\ mergePR # None
  /\ mergePR' = None
  /\ UNCHANGED <<branchVars, run, pending, npm, distTags, tags, releases, used>>

\* Another branch releases the next minor.
ReleaseNewerMinor ==
  /\ started
  /\ distTags' = [latest |-> NewerVersion, next |-> None]
  /\ UNCHANGED <<branchVars, run, pending, npm, tags, releases, mergePR, used>>

Workflow ==
  \/ BeginRun \/ EndRun \/ StartRelease \/ ExitPrerelease \/ Rerun \/ Changesets
  \/ Publish \/ DeleteNext \/ PushTags \/ CreateRelease \/ Merge

Maintainers ==
  CommitChangeset \/ MergeVersionPR \/ DispatchOnBranch \/ MergeBack \/ ReleaseNewerMinor

ReleaseNext == Workflow \/ StepFails \/ Maintainers

\* Runs that are asked for are served and come to an end.
ReleaseFairness == WF_releaseVars(Workflow)

ReleaseSpec == ReleaseInit /\ [][ReleaseNext]_releaseVars /\ ReleaseFairness

-----------------------------------------------------------------------------
AtRest == run = None /\ pending = None /\ starting = {}

PRVersion == VersionAfter(versionPR.commit)

\* Types, and the bookkeeping of changesets: until the final version has used
\* them up none is lost or counted twice, though version PRs are merged into a
\* branch that has moved on and jobs push commits of an older head; after it
\* nothing stays on record.
ReleaseOK ==
  /\ branch.mode \in {"none", "pre", "exit"}
  /\ branch.fresh \in 0 .. MaxChangesets + 1 /\ branch.recorded \in 0 .. MaxChangesets + 1
  /\ branch.mode # "none" => branch.fresh + branch.recorded = used.commits + 1
  /\ branch.mode = "none" => branch.recorded = 0
  /\ ~IsFinal(branch.version) => branch.mode # "none"
  /\ releases \subseteq tags /\ tags \subseteq DOMAIN npm

\* A candidate is never published as a final version nor a final one as a
\* candidate; "latest" is a final version that no published final one follows,
\* and "next" is a candidate.
DistTagsFit ==
  /\ \A v \in DOMAIN npm : npm[v] <=> ~IsFinal(v)
  /\ IsFinal(distTags.latest)
  /\ \A v \in DOMAIN npm : IsFinal(v) => ~Precedes(distTags.latest, v)
  /\ distTags.next # None => ~IsFinal(distTags.next)

\* What goes back to master is a final version with nothing left to release.
MergeBackIsFinal ==
  mergePR # None =>
    IsFinal(mergePR.version) /\ mergePR.mode = "none" /\ ~HasPendingChangesets(mergePR)

\* The title of the version PR names the version that it brings.
TitleNamesTheVersion == versionPR # None => versionPR.title = PRVersion.patch

\* No final version of the branch is prepared or published before a maintainer
\* has dispatched the workflow on the branch.
FinalNeedsDispatch ==
  started /\ used.dispatches = 0 =>
    /\ branch.mode = "pre"
    /\ \A v \in DOMAIN npm : IsFinal(v) => v = OldVersion

\* Whatever was pushed, merged and dispatched while runs were at work, and
\* whichever of them were cancelled: at rest a version PR of the present head
\* is open if there is anything to release.
PRIsCurrentAtRest ==
  AtRest /\ started /\ used.failures = 0 /\ HasPendingChangesets(branch) =>
    versionPR # None /\ versionPR.commit = branch

\* What is published, tagged and merged back is what its version number says,
\* whichever commit a run worked on.
VersionsFit == DistTagsFit /\ MergeBackIsFinal /\ FinalNeedsDispatch

\* The version PR is what it says at all times, and up to date at rest.
VersionPRFits == TitleNamesTheVersion /\ PRIsCurrentAtRest

\* The jobs that start runs of their own do not keep each other going.
ComesToRest == []<>AtRest
=============================================================================
