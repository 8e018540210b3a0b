-------------------------------- MODULE DocsBranch --------------------------------
(* scripts/update-docs-branch.js as .github/workflows/docs.yml and maintainers *)
(* run it: every push to a release branch starts a run, in a clone of its own, *)
(* that adds a commit to the one docs branch of the major version. Nothing     *)
(* orders the runs; the script looks at what is published, and git refuses a   *)
(* push that does not extend it. A release tree is [minor, push, pre]: the     *)
(* minor of its branch, how many pushes it has, and whether its version in     *)
(* package.json is a prerelease.                                               *)
EXTENDS Naturals, Sequences

CONSTANTS
    Minors,         \* release branches release-v<major>.<minor>
    Clones,         \* clones of the repository, on a runner or a desk
    MaxPushes,      \* bound: pushes to a release branch
    MaxDocs         \* bound: no run starts once a docs branch has as many

ASSUME DocsAssumption == Minors \subseteq 0 .. 99 /\ MaxPushes \in Nat /\ MaxDocs \in Nat

VARIABLES
    tip,        \* the pushes of each release branch: whether each is a prerelease
    remote,     \* the docs branch of origin: its commits, <<>> when there is none
    clone       \* per clone: the run in it, and its own docs branch

docsVars == <<tip, remote, clone>>

Trees == [minor : Minors, push : 1 .. MaxPushes, pre : BOOLEAN]

\* A commit of the docs branch: the tree it was made from and the clone it was made in.
Commits == [tree : Trees, by : Clones]

IsPrefixOf(s, t) == Len(s) <= Len(t) /\ s = SubSeq(t, 1, Len(s))

Idle(docs) == [phase |-> "idle", docs |-> docs]

Started(tree, docs) == [phase |-> "started", docs |-> docs, tree |-> tree]

DocsInit ==
    /\ tip = [m \in Minors |-> <<>>]
    /\ remote = <<>>
    /\ clone = [c \in Clones |-> Idle(<<>>)]

\* A push to a release branch: candidates first, then final versions.
PushTree(m) ==
    /\ Len(tip[m]) < MaxPushes
    /\ \E pre \in BOOLEAN :
          /\ pre => \A i \in DOMAIN tip[m] : tip[m][i]
          /\ tip' = [tip EXCEPT ![m] = Append(@, pre)]
    /\ UNCHANGED <<remote, clone>>

\* A run starts for one of the pushes, the last one or one that was delayed,
\* in a new clone or in one that keeps the docs branch of its last run.
StartRun(c) ==
    /\ clone[c].phase = "idle"
    /\ Len(remote) < MaxDocs /\ Len(clone[c].docs) < MaxDocs
    /\ \E m \in Minors, fresh \in BOOLEAN : \E n \in DOMAIN tip[m] :
          clone' = [clone EXCEPT ![c] =
                       Started([minor |-> m, push |-> n, pre |-> tip[m][n]],
                               IF fresh THEN <<>> ELSE @.docs)]
    /\ UNCHANGED <<tip, remote>>

-----------------------------------------------------------------------------
(* The script                                                                 *)

Digits(n) == IF n < 10 THEN <<n>> ELSE <<n \div 10, n % 10>>

\* The order of strings: the first digit that differs, or the shorter one.
StringLess(s, t) ==
    \/ \E i \in DOMAIN s \cap DOMAIN t :
          /\ s[i] < t[i]
          /\ \A j \in 1 .. i - 1 : s[j] = t[j]
    \/ Len(s) < Len(t) /\ s = SubSeq(t, 1, Len(s))

PublishedMinor(docs) == docs[Len(docs)].tree.minor

\* A fault: the refusal is dropped.
NeverRefuses(minor, docs) == FALSE

\* The minors are groups of a regular expression, hence strings.
Refuses(minor, docs) == StringLess(Digits(minor), Digits(PublishedMinor(docs)))

\* git rev-parse --glob finds the clone's own branch and origin's.
Conflicting(heads) == \E s, t \in heads : s # t

Stop(c) == clone' = [clone EXCEPT ![c] = Idle(@.docs)]

IsPrerelease(tree) == tree.pre

RefusePrerelease(c) ==
    /\ clone[c].phase = "started"
    /\ IsPrerelease(clone[c].tree)
    /\ Stop(c)
    /\ UNCHANGED <<tip, remote>>

\* The fetch, and the decision taken on what it brought: the branch the commit
\* will extend is the clone's docs branch from here on.
Fetch(c) ==
    /\ clone[c].phase = "started"
    /\ ~IsPrerelease(clone[c].tree)
    /\ LET heads == {remote, clone[c].docs} \ {<<>>}
           published == IF clone[c].docs = <<>> THEN remote ELSE clone[c].docs
       IN  IF heads # {} /\ (Conflicting(heads) \/ Refuses(clone[c].tree.minor, published))
           THEN Stop(c)
           ELSE clone' = [clone EXCEPT ![c].phase = "checked", ![c].docs = published]
    /\ UNCHANGED <<tip, remote>>

\* git commit fails when the docs branch holds this very tree already.
NothingToCommit(c) ==
    /\ clone[c].docs # <<>>
    /\ clone[c].docs[Len(clone[c].docs)].tree = clone[c].tree

CommitDocs(c) ==
    /\ clone[c].phase = "checked"
    /\ IF NothingToCommit(c)
       THEN Stop(c)
       ELSE clone' = [clone EXCEPT ![c].phase = "committed",
                                   ![c].docs = Append(@, [tree |-> clone[c].tree, by |-> c])]
    /\ UNCHANGED <<tip, remote>>

\* A step of the run fails, or its machine goes away.
Abort(c) ==
    /\ clone[c].phase # "idle"
    /\ Stop(c)
    /\ UNCHANGED <<tip, remote>>

FastForward(docs) == IsPrefixOf(remote, docs)

\* git push --all, at the end of the run or by hand at any later time: taken
\* when it extends origin's branch, rejected otherwise.
PushDocs(c) ==
    /\ clone[c].phase \in {"committed", "idle"}
    /\ clone[c].docs # <<>>
    /\ remote' = IF FastForward(clone[c].docs) THEN clone[c].docs ELSE remote
    /\ Stop(c)
    /\ UNCHANGED tip

DocsNext ==
    \/ \E m \in Minors : PushTree(m)
    \/ \E c \in Clones :
          \/ StartRun(c)
          \/ RefusePrerelease(c)
          \/ Fetch(c)
          \/ CommitDocs(c)
          \/ Abort(c)
          \/ PushDocs(c)

DocsSpec == DocsInit /\ [][DocsNext]_docsVars

-----------------------------------------------------------------------------
(* Properties                                                                 *)

\* Type invariant. Prereleases are never documented (line 24).
DocsTypeOK ==
    /\ \A i \in DOMAIN remote : remote[i] \in Commits /\ ~remote[i].tree.pre
    /\ \A c \in Clones :
          /\ clone[c].phase \in {"idle", "started", "checked", "committed"}
          /\ clone[c].phase # "idle" => clone[c].tree \in Trees
          /\ \A i \in DOMAIN clone[c].docs : clone[c].docs[i] \in Commits

\* What the refusal of line 51 is for, whatever the order of the runs: the
\* docs of a version never replace those of a newer minor. It is so among
\* minors of one digit; as strings, "9" comes after "10".
MinorsOnlyGrow ==
    \A i, j \in DOMAIN remote : i <= j => remote[i].tree.minor <= remote[j].tree.minor

\* A clone that shares its docs branch with origin is at most one commit ahead
\* of it: once origin has the branch, no run builds on a commit that was never
\* pushed (lines 40-47).
AtMostOneAhead ==
    \A c \in Clones :
        LET docs == clone[c].docs
        IN  (docs # <<>> /\ remote # <<>> /\ docs[1] = remote[1])
                => IsPrefixOf(SubSeq(docs, 1, Len(docs) - 1), remote)

\* What is pushed to the docs branch stays in order whatever clones had fetched
\* when they decided to push.
DocsStayInOrder == DocsTypeOK /\ MinorsOnlyGrow /\ AtMostOneAhead
=============================================================================
