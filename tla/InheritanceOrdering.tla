---------------------------- MODULE InheritanceOrdering ----------------------------
(* scripts/checks/inheritance-ordering.js: for each build artifact the script *)
(* collects in one graph which contract comes before which in the             *)
(* linearizations solc computed, and fails when two contracts come in both    *)
(* orders. A contract is its number in the artifact; the script's point is    *)
(* that contracts that come in one order everywhere may be inherited together.*)
EXTENDS Naturals, Sequences, FiniteSets, SequencesExt

CONSTANTS
    Builds,                 \* command lines: sequences of compilations [bases, mocks]
    Linearization(_, _),    \* what solc gives for a contract of such bases
    Compiles(_, _)          \* whether solc accepts one more contract with a list of bases

\* The contracts of a compilation that are not mocks.
Checked(p) == {c \in DOMAIN p.bases : c \notin p.mocks}

\* A linearization names every contract once.
ASSUME LinearizationAssumption ==
    \A build \in Builds :
        /\ build \in Seq([bases : Seq(Seq(Nat)), mocks : SUBSET Nat])
        /\ \A i \in DOMAIN build : \A c \in Checked(build[i]) :
               LET chain == Linearization(build[i].bases, c)
               IN  chain \in Seq(Nat) /\ IsInjective(chain)

VARIABLES
    artifacts,      \* the compilations, in command line order
    current,        \* the one the loop is at
    visited,        \* how many of its contracts have been visited
    edges,          \* graph: pairs in linearization order
    linearized,     \* the chains pushed so far
    report,         \* conflicts printed: [at, pair, above, below]
    exitCode,
    consistent      \* the closing line has been printed

orderingVars == <<artifacts, current, visited, edges, linearized, report, exitCode, consistent>>

-----------------------------------------------------------------------------
(* The script                                                                 *)

Bases == artifacts[current].bases

Position(chain, c) == CHOOSE i \in DOMAIN chain : chain[i] = c

\* A fault: only neighbours of a chain are joined by an edge.
NeighboursOnly(chain) == {<<chain[i], chain[i + 1]>> : i \in 1 .. Len(chain) - 1}

\* Every contract of a chain comes before all those that follow it.
OrderedPairs(chain) ==
    UNION {{<<chain[i], chain[j]>> : j \in i + 1 .. Len(chain)} : i \in DOMAIN chain}

NothingVisited ==
    /\ current = 1
    /\ visited = 0
    /\ edges = {}
    /\ linearized = {}
    /\ report = {}
    /\ exitCode = 0
    /\ consistent = FALSE

OrderingInit == artifacts \in Builds /\ NothingVisited

InLoop == current <= Len(artifacts)

\* A contract of a source under /mocks/ is passed over.
SkipMock ==
    /\ InLoop
    /\ visited < Len(Bases)
    /\ visited + 1 \in artifacts[current].mocks
    /\ visited' = visited + 1
    /\ UNCHANGED <<artifacts, current, edges, linearized, report, exitCode, consistent>>

Visit ==
    /\ InLoop
    /\ visited < Len(Bases)
    /\ visited + 1 \notin artifacts[current].mocks
    /\ LET chain == Linearization(Bases, visited + 1)
       IN  /\ linearized' = linearized \union {chain}
           /\ edges' = edges \union OrderedPairs(chain)
    /\ visited' = visited + 1
    /\ UNCHANGED <<artifacts, current, report, exitCode, consistent>>

Conflicts == {pair \in edges : pair[1] < pair[2] /\ <<pair[2], pair[1]>> \in edges}

\* The chains printed under a conflict, by the order they show.
ChainsAbove(c, d) ==
    {chain \in linearized : /\ {c, d} \subseteq ToSet(chain)
                            /\ Position(chain, c) < Position(chain, d)}

Conflict(pair) ==
    [at |-> current, pair |-> pair,
     above |-> ChainsAbove(pair[1], pair[2]), below |-> ChainsAbove(pair[2], pair[1])]

\* A fault: one graph for all artifacts, whose contract numbers are reused.
OneGraph == edges

FreshGraph == {}

\* All contracts visited: every pair of nodes is compared, and the loop goes
\* on with a new graph. The exit code is only ever set.
ComparePairs ==
    /\ InLoop
    /\ visited = Len(Bases)
    /\ report' = report \union {Conflict(pair) : pair \in Conflicts}
    /\ exitCode' = IF Conflicts = {} THEN exitCode ELSE 1
    /\ current' = current + 1
    /\ visited' = 0
    /\ edges' = FreshGraph
    /\ linearized' = {}
    /\ UNCHANGED <<artifacts, consistent>>

Conclude ==
    /\ ~InLoop
    /\ exitCode = 0
    /\ ~consistent
    /\ consistent' = TRUE
    /\ UNCHANGED <<artifacts, current, visited, edges, linearized, report, exitCode>>

OrderingNext == SkipMock \/ Visit \/ ComparePairs \/ Conclude

OrderingSpec == OrderingInit /\ [][OrderingNext]_orderingVars

-----------------------------------------------------------------------------
(* Properties                                                                 *)

\* Two contracts of p show x and y in different orders.
Opposed(p, x, y) ==
    \E c, d \in Checked(p) :
        LET one == Linearization(p.bases, c)  other == Linearization(p.bases, d)
        IN  /\ {x, y} \subseteq ToSet(one) \cap ToSet(other)
            /\ Position(one, x) < Position(one, y)
            /\ Position(other, y) < Position(other, x)

\* Type invariant of the script's variables.
OrderingTypeOK ==
    /\ current \in 1 .. Len(artifacts) + 1
    /\ exitCode \in {0, 1}
    /\ consistent \in BOOLEAN
    /\ InLoop => visited \in 0 .. Len(Bases)
    /\ \A pair \in edges : pair[1] # pair[2]

\* The conflicts printed are exactly the pairs two contracts of one artifact
\* show in different orders, for every artifact compared so far: no artifact
\* hides, or adds to, what another one shows (lines 11-13 and 47-52).
ConflictsAreReal ==
    /\ \A i \in 1 .. current - 1 : \A x, y \in DOMAIN artifacts[i].bases :
          x < y => (Opposed(artifacts[i], x, y)
                       <=> \E r \in report : r.at = i /\ r.pair = <<x, y>>)
    /\ exitCode = 1 <=> report # {}
    /\ consistent => \A i \in DOMAIN artifacts : \A x, y \in DOMAIN artifacts[i].bases :
                        ~Opposed(artifacts[i], x, y)

\* What is printed under a conflict lets the reader see it: a chain with the
\* one order and a chain with the other (lines 39-46).
ConflictsShowBothSides == \A r \in report : r.above # {} /\ r.below # {}

\* The report is exact, for each artifact by itself, and shows its evidence.
ConflictsAreExact == OrderingTypeOK /\ ConflictsAreReal /\ ConflictsShowBothSides

\* Contracts the script found consistent may be inherited together, two at a
\* time: solc accepts them in one order or the other.
AnyTwoMayBeInherited ==
    consistent => \A i \in DOMAIN artifacts :
        LET bases == artifacts[i].bases
        IN  \A c, d \in Checked(artifacts[i]) :
               c # d => Compiles(bases, <<c, d>>) \/ Compiles(bases, <<d, c>>)
=============================================================================
