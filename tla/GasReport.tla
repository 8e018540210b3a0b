-------------------------------- MODULE GasReport --------------------------------
(* scripts/checks/compareGasReports.js, as the gas-compare action of the        *)
(* workflow runs it: a push uploads its gas report, a pull request is compared  *)
(* with the last report of its base branch. The script computes with JavaScript *)
(* numbers: what has no calls has an infinite minimum and no average, and such  *)
(* numbers reach the deltas, the filter of the rows and the cells. A report is  *)
(* [metadata, methods, deployments]; methods gives the gas of each call.        *)
EXTENDS Integers, Sequences, FiniteSets

CONSTANTS
    HideEqual,      \* options, TRUE and FALSE when left out
    StrictTesting,
    Reports         \* the reports a run of the tests may produce

ASSUME OptionsAssumption == HideEqual \in BOOLEAN /\ StrictTesting \in BOOLEAN

BASE_TX_COST == 21000

VARIABLES
    base,       \* the last report of the base branch, in a sequence of one, or <<>>
    update,     \* the report of the pull request, likewise
    rows,       \* what the comparison shows
    outcome     \* "none", "compared" or "thrown"

gasVars == <<base, update, rows, outcome>>

-----------------------------------------------------------------------------
(* JavaScript numbers, as far as signs and zeros go                           *)

Finite(n) == [kind |-> "finite", n |-> n]
Infinite(sign) == [kind |-> "infinite", n |-> sign]
NaN == [kind |-> "NaN", n |-> 0]

IsFinite(x) == x.kind = "finite"
Truthy(x) == x.n # 0
Sign(n) == IF n > 0 THEN 1 ELSE IF n < 0 THEN -1 ELSE 0

Minus(x, y) ==
    IF IsFinite(x) /\ IsFinite(y) THEN Finite(x.n - y.n)
    ELSE IF x = NaN \/ y = NaN \/ x = y THEN NaN
    ELSE IF IsFinite(y) THEN x
    ELSE Infinite(-Sign(y.n))

\* A quotient, by its sign: the script shows it and never computes with it.
Over(x, y) ==
    CASE IsFinite(x) /\ IsFinite(y) /\ y.n # 0      -> Finite(Sign(x.n) * Sign(y.n))
      [] IsFinite(x) /\ y = Finite(0) /\ x.n # 0    -> Infinite(Sign(x.n))
      [] IsFinite(x) /\ ~IsFinite(y) /\ y # NaN     -> Finite(0)
      [] ~IsFinite(x) /\ x # NaN /\ IsFinite(y)     -> Infinite(IF y.n < 0 THEN -x.n ELSE x.n)
      [] OTHER                                      -> NaN

Calls(gasData) == {gasData[i] : i \in DOMAIN gasData}

Sum(gasData) ==
    LET Upto[i \in 0 .. Len(gasData)] == IF i = 0 THEN 0 ELSE Upto[i - 1] + gasData[i]
    IN  Upto[Len(gasData)]

\* Math.min(), Math.max() and Math.round(average()) of the calls.
Lowest(gasData) ==
    IF gasData = <<>> THEN Infinite(1)
    ELSE Finite(CHOOSE g \in Calls(gasData) : \A o \in Calls(gasData) : g <= o)

Highest(gasData) ==
    IF gasData = <<>> THEN Infinite(-1)
    ELSE Finite(CHOOSE g \in Calls(gasData) : \A o \in Calls(gasData) : g >= o)

Average(gasData) ==
    IF gasData = <<>> THEN NaN
    ELSE Finite((2 * Sum(gasData) + Len(gasData)) \div (2 * Len(gasData)))

-----------------------------------------------------------------------------
(* Report.compare                                                             *)

Variation(current, previous, offset) ==
    [value |-> current,
     delta |-> Minus(current, previous),
     prcnt |-> Over(Minus(current, previous), Minus(previous, Finite(offset)))]

\* A cell of a row that has none: undefined.
NoCell == [value |-> NaN, delta |-> NaN, prcnt |-> NaN]

DeploymentRows(new, old) ==
    LET both == {c \in DOMAIN new.deployments \cap DOMAIN old.deployments :
                    new.deployments[c].gasData # <<>> /\ old.deployments[c].gasData # <<>>}
        Row(c, what, avg) == [contract |-> c, method |-> what,
                              min |-> NoCell, max |-> NoCell, avg |-> avg]
    IN  {Row(c, "[bytecode length]", Variation(Finite(new.deployments[c].size),
                                               Finite(old.deployments[c].size), 0)) : c \in both}
        \union
        {Row(c, "[construction cost]", Variation(Average(new.deployments[c].gasData),
                                                 Average(old.deployments[c].gasData),
                                                 BASE_TX_COST)) : c \in both}

IsCalled(new, old, key) == new.methods[key] # <<>>

MethodRow(new, old, key) ==
    LET Cell(F(_)) == Variation(F(new.methods[key]), F(old.methods[key]), BASE_TX_COST)
    IN  [contract |-> "-", method |-> key,
         min |-> Cell(Lowest), max |-> Cell(Highest), avg |-> Cell(Average)]

MethodRows(new, old, strictTesting) ==
    {MethodRow(new, old, key) :
        key \in {k \in DOMAIN new.methods \cap DOMAIN old.methods :
                    /\ IsCalled(new, old, k)
                    /\ strictTesting => Len(new.methods[k]) = Len(old.methods[k])}}

\* A fault: the average decides alone.
AverageChanged(row) == Truthy(row.avg.delta)

IsChanged(row) == Truthy(row.min.delta) \/ Truthy(row.max.delta) \/ Truthy(row.avg.delta)

Compare(new, old, hideEqual, strictTesting) ==
    {row \in DeploymentRows(new, old) \union MethodRows(new, old, strictTesting) :
        hideEqual => IsChanged(row)}

\* What tests report: every transaction pays the base cost, and the names of
\* methods are not those of the rows of deployments.
GasOfCalls == Seq({g \in Nat : g >= BASE_TX_COST})

ASSUME ReportsAssumption ==
    \A report \in Reports :
        /\ \A key \in DOMAIN report.methods :
               /\ key \notin {"[bytecode length]", "[construction cost]"}
               /\ report.methods[key] \in GasOfCalls
        /\ \A c \in DOMAIN report.deployments :
               /\ report.deployments[c].gasData \in GasOfCalls
               /\ report.deployments[c].size \in Nat

-----------------------------------------------------------------------------
GasInit ==
    /\ base = <<>>
    /\ update = <<>>
    /\ rows = {}
    /\ outcome = "none"

\* A push to the base branch: the tests run and the report is kept.
Push ==
    /\ outcome = "none"
    /\ \E report \in Reports : base' = <<report>>
    /\ UNCHANGED <<update, rows, outcome>>

\* A run of the tests for a pull request, and the comparison, if there is a
\* report to compare with. Reports made with other settings are refused.
PullRequest ==
    /\ outcome = "none"
    /\ base # <<>>
    /\ \E report \in Reports :
          /\ update' = <<report>>
          /\ IF report.metadata = base[1].metadata
             THEN /\ rows' = Compare(report, base[1], HideEqual, StrictTesting)
                  /\ outcome' = "compared"
             ELSE /\ rows' = {}
                  /\ outcome' = "thrown"
    /\ UNCHANGED base

GasNext == Push \/ PullRequest

GasSpec == GasInit /\ [][GasNext]_gasVars

-----------------------------------------------------------------------------
(* The cells                                                                  *)

\* What a cell says: nothing ("-"), or the number; colour and trend mark by delta.
Shown(x) == IsFinite(x)
Trend(cell) == IF cell.delta.n > 0 THEN ":x:" ELSE
               IF cell.delta.n < 0 THEN ":heavy_check_mark:" ELSE ":heavy_minus_sign:"

Cells(row) == {row.min, row.max, row.avg}

-----------------------------------------------------------------------------
(* Properties                                                                 *)

Measured(report, key) == key \in DOMAIN report.methods /\ report.methods[key] # <<>>

SameCost(a, b) == Lowest(a) = Lowest(b) /\ Highest(a) = Highest(b) /\ Average(a) = Average(b)

\* With equal rows hidden, a method measured on both sides has a row exactly
\* when its lowest, highest or average cost differs (lines 78-95).
ChangesAreShown ==
    (outcome = "compared" /\ HideEqual /\ ~StrictTesting) =>
        \A key \in DOMAIN update[1].methods :
            (Measured(update[1], key) /\ Measured(base[1], key)) =>
                (~SameCost(update[1].methods[key], base[1].methods[key])
                    <=> \E row \in rows : row.method = key)

\* A method the base knows but never called is shown with its costs and
\* nothing about a change: no infinite delta or percentage reaches a cell
\* (lines 87-89 and 108-115).
FirstCallsShowNoChange ==
    (outcome = "compared" /\ ~StrictTesting) =>
        \A key \in DOMAIN update[1].methods \cap DOMAIN base[1].methods :
            (Measured(update[1], key) /\ ~Measured(base[1], key)) =>
                \E row \in rows : row.method = key /\
                    \A cell \in Cells(row) :
                        Shown(cell.value) /\ ~Shown(cell.delta) /\ ~Shown(cell.prcnt)

\* The percentage of a cell goes the way of its delta and of its trend mark:
\* no call costs less than the base cost taken off the denominator.
PercentFollowsDelta ==
    \A row \in rows : \A cell \in Cells(row) :
        Shown(cell.prcnt) =>
            /\ Shown(cell.delta)
            /\ Sign(cell.delta.n) = cell.prcnt.n
            /\ Trend(cell) = (IF cell.prcnt.n > 0 THEN ":x:" ELSE
                              IF cell.prcnt.n < 0 THEN ":heavy_check_mark:" ELSE ":heavy_minus_sign:")

\* A row is hidden only when nothing changed, and a cell that is shown says
\* what happened to the cost.
RowsAreExact == ChangesAreShown /\ FirstCallsShowNoChange /\ PercentFollowsDelta
=============================================================================
