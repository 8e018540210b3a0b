------------------------------ MODULE MCScripts ------------------------------
(***************************************************************************)
(* The scripts that work alone on what they are given: migrate-imports,    *)
(* the gas report and the inheritance check.  They share nothing, so a     *)
(* behaviour follows one of them.                                          *)
(***************************************************************************)
EXTENDS MigrateImports, GasReport, InheritanceOrdering, Solc

VARIABLE subject    \* the script that this behaviour follows

-----------------------------------------------------------------------------
(* A project of two Solidity files, in a directory and one below it, and a *)
(* file of another kind; the script is called with a directory, two that   *)
(* overlap, or a path that does not exist.                                 *)
Tree ==
  "contracts" :> <<"contracts/A.sol", "contracts/sub", "contracts/README.md">>
  @@ "contracts/sub" :> <<"contracts/sub/B.sol">>

Imports ==
  {Import("contracts", "math/Math"), Import("contracts-upgradeable", "math/Math"),
   Import("contracts", "utils/Initializable"), Import("contracts", "proxy/utils/Initializable")}

Texts == {<<i>> : i \in Imports} \union (Imports \X Imports)

Project ==
  "contracts/A.sol" :> Texts @@ "contracts/sub/B.sol" :> Texts
  @@ "contracts/README.md" :> {<<Import("contracts", "math/Math")>>}

MCCalls == {<<"contracts">>, <<"contracts/sub", "contracts">>, <<"contracts/sub", "missing">>}

-----------------------------------------------------------------------------
(* One method, absent or called up to twice at three costs, the base cost  *)
(* among them; one contract, absent, never deployed or deployed once.      *)
Gas == {21000, 21100, 21101}

GasData == {<<>>} \union {<<g>> : g \in Gas} \union (Gas \X Gas)

Methods == [{} -> GasData] \union [{"mint"} -> GasData]

Deployments ==
  [{"ERC20"} -> [size : {100}, gasData : {<<>>, <<50000>>}]
                  \union [size : {101}, gasData : {<<50000>>}]]
  \union [{} -> {}]

SmallReports ==
  {r \in [metadata : {"optimized", "debug"}, methods : Methods, deployments : Deployments] :
      r.metadata = "debug" => DOMAIN r.deployments = {}}

-----------------------------------------------------------------------------
(* Six contracts: the first three may inherit from each other (2 and 3     *)
(* from 1), the last three inherit any two of those in either order.       *)
UpToTwo(S) ==
  {<<>>} \union {<<c>> : c \in S} \union {pair \in S \X S : pair[1] # pair[2]}

MaybeFirst == {<<>>, <<1>>}

Valid(p) == \A c \in DOMAIN p.bases : SolcCompiles(p.bases, p.bases[c])

Compilations ==
  {p \in [bases : {<<<<>>, b, c, d, e, f>> :
                      b, c \in MaybeFirst, d, e, f \in UpToTwo(1 .. 3)},
          mocks : {{}}] : Valid(p)}

\* Two contracts over two bases, for builds of several artifacts.
SmallCompilations ==
  {p \in [bases : {<<<<>>, b, d, e>> : b \in MaybeFirst, d, e \in UpToTwo(1 .. 2)},
          mocks : {{}, {4}}] : Valid(p)}

OneOrTwoArtifacts ==
  {<<p>> : p \in Compilations} \union (SmallCompilations \X SmallCompilations)

-----------------------------------------------------------------------------
ScriptsInit ==
  /\ subject \in {"migrate", "gas", "inheritance"}
  /\ GasInit
  /\ IF subject = "migrate" THEN MigrateInit ELSE disk = (CHOOSE d \in Disks : TRUE) /\ NotCalled
  /\ IF subject = "inheritance" THEN OrderingInit ELSE artifacts = <<>> /\ NothingVisited

ScriptsNext ==
  /\ UNCHANGED subject
  /\ \/ subject = "migrate" /\ MigrateNext /\ UNCHANGED <<gasVars, orderingVars>>
     \/ subject = "gas" /\ GasNext /\ UNCHANGED <<migrateVars, orderingVars>>
     \/ subject = "inheritance" /\ OrderingNext /\ UNCHANGED <<migrateVars, gasVars>>

\* Nothing is demanded of migrate-imports while it has not been called.
ScriptsSpec ==
  /\ ScriptsInit
  /\ [][ScriptsNext]_<<subject, migrateVars, gasVars, orderingVars>>
  /\ MigrateFairness
=============================================================================
