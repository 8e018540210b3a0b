# Rupee Coin: specifications, checks and proofs

TLA+ models of the contracts of this repository, of their deployment, and of the
stateful parts of the OpenZeppelin tree that the repository carries; the TLC
configurations that check them and the TLAPS proofs about them. Paths are relative
to the repository's root; `src/` is the contracts' own directory, and `OZ/` stands for
`lib/openzeppelin-contracts/`.

## The system

Rupee Coin is a coin issued against collateral. Users deposit collateral tokens
(wETH, wBTC) with the **engine** and mint coins worth at most half of it; an
account whose collateral has fallen below twice its debt can be liquidated.

| Component | State | Operations | What makes it correct |
|---|---|---|---|
| ERC20 ledger (OpenZeppelin `ERC20.sol`) | balances, allowances, total supply | `transfer`, `transferFrom`, `approve`, `increase/decreaseAllowance`, `_mint`, `_burn` | the balances add up to the supply, so the `unchecked` arithmetic is exact; nobody takes more than was allowed |
| `RupeeCoin.sol` with `ERC20Burnable`, `Ownable` | a ledger, the owner | `mint`, `burn` (owner only), `burnFrom` (anybody with an allowance), ownership | only the owner mints; renouncing is final |
| `RupeeCoinEngine.sol`: positions | `s_collateralDeposited`, `s_coinMinted` | `depositCollateral`, `mintCoin`, `redeemCollateral`, `burnCoin`, the two composite calls | deposits on record are held; coins in circulation are owed; no transaction leaves its sender unhealthy |
| engine: valuation | none | `getINRValue`, `getTokenAmountFromINR`, `getTotalCollateralDepositedBy`, `_healthFactor` | roundings agree with each other; an overflow blocks nobody who needs no price |
| engine: liquidation | as positions | `liquidate` | only unhealthy positions, at most 5% above the debt repaid, and the position improves |
| collateral tokens (external) | a ledger each | the ERC20 functions | as above |
| price feeds (external, `MockPriceFeedsAggregator.sol`) | the answer, its time | `updateAnswer` | none: the price may do anything |
| constructor of the engine | `s_collateralTokens`, `s_priceFeed` | called once, with arrays of tokens and feeds | what may be deposited is counted |
| `DeployRupeeCoin.s.sol`, `HelperConfig.s.sol` | the transactions still to send, the configuration | choose a network, create coin and engine, hand the coin over | each coin ends up with the engine made for it; each token is counted once |
| getters, tests, build files | | | not modelled, see below |

How they interact: the engine calls `transfer`/`transferFrom` on the collateral
tokens, `mint`, `transferFrom` and `burn` on the coin (whose owner it is), and
reads the feeds. Users call everything directly too: they trade coins and tokens,
send them to the engine, approve each other, burn coins through `burnFrom`.

### The vendored OpenZeppelin tree

The repository contains the whole of OpenZeppelin Contracts, not only the two contracts
that Rupee Coin inherits from: the generators of its libraries and the scripts that
maintain it. None of the following is called by the Rupee Coin contracts. It is
modelled because it is code of this tree with state, order and failure of its own.

| Component | State | Operations | What makes it correct |
|---|---|---|---|
| `EnumerableSet.js`, `EnumerableMap.js` (`OZ/scripts/generate/templates/`) | an array and the positions of its elements; values by key | `add`, `remove`, `set`, `contains`, `at`, `values`, `get`, `tryGet` | array and positions agree; callers see a set and a map |
| `SafeCast.js` | none | casts down and between signs | the integer is kept, and only what does not fit reverts |
| `Checkpoints.js` | an array of (key, value) | `push`, the lookups | binary searches find what a scan would; the past does not change |
| `OZ/certora/run.js` | queue, child processes, streams, exit code | select, start, collect output, report | exit code 0 means that all that was asked for was verified |
| release workflow: `release-cycle.yml`, `state.js` and the scripts in `OZ/scripts/release/` | a release branch, its version PR, runs, npm, dist-tags, tags, releases | one job per decision of `state.js`, their steps | versions, tags and PRs fit together whatever maintainers do meanwhile |
| `OZ/scripts/update-docs-branch.js` | clones, a shared docs branch | fetch, refuse, commit, push | docs of an older version do not replace newer ones |
| `OZ/scripts/checks/inheritance-ordering.js` | a graph per artifact | collect, look for conflicts | what it prints are the conflicts; what it passes may be inherited together |
| `OZ/scripts/checks/compareGasReports.js` | two reports | compare, show | changes are shown, numbers without meaning are not |
| `OZ/scripts/migrate-imports.js` | files, the work list | list, rewrite | what a run reports is so; little is lost when it dies |

### What is hard

- **interleaving** of transactions of different users, liquidators and price
  updates, each of which acts on what the others left; of runs of the deployment
  script with each other, with other uses of their key, and with what cuts them short; of child processes; of workflow runs with maintainers' pushes, merges and
  dispatches; of clones that push to one branch;
- **intermediate states**: a transaction of the engine is a sequence of calls into
  other contracts, which see what it has changed so far, and which a later check
  may undo;
- **prices** that move between any two transactions;
- **several ledgers** (engine records, coin, tokens) that one transaction must
  change consistently, with checks that come after the changes;
- **arithmetic**: fixed-point roundings against strict comparisons, overflow that
  reverts, wrap-around in `unchecked` blocks, division by a zero price, casts that
  cut, JavaScript's infinite and not-a-number values, minors compared as strings;
- **back doors** of the inherited functions: `burnFrom`, tokens and coins sent to
  the engine, infinite allowances;
- **failure half way**: a revert in the second half of a composite call; a job that
  fails between npm and the tags; a process that dies while a file is empty; output
  that arrives after the exit of the child that wrote it; a run that is replaced
  before it starts.

On the chain nothing is lost or restarted and a transaction is atomic, so the models of
the contracts have no crashes, messages or timeouts; those belong to the scripts.

## Modules

| Module | Contents |
|---|---|
| `ERC20` | the ledger as pure operators: for each internal function the conjunction of its `require`s (`Can...`) and the ledger it leaves (`Transferred`, `Minted`, ...). No variables, because the coin and every collateral token are instances of the same contract |
| `RupeeCoin` | the coin contract as a state machine, one action per function; extends `ERC20` |
| `RupeeCoinEngine` | the whole system: engine, coin, tokens, feeds, deployment; extends `RupeeCoin` and uses its actions for the engine's calls (`Mint(Engine, ...)`) and for the holders' own |
| `EngineCalls` | the engine's transactions call by call: the steps each function takes, what a step requires and changes, and a revert that restores what was saved at the start; extends `RupeeCoinEngine` and implements it |
| `Deployment` | runs of the scripts as forge sends their transactions, with nonces fixed before, until they end or fail; and the constructor on any arrays, called by the script and by others |
| `CollateralVault` | what the engine promises about positions, in unbounded arithmetic, with neither tokens nor transactions: the market moves, users adjust, unsafe positions are seized in part |
| `EnumerableSet` | storage of the set and its conversions of types, as operators |
| `EnumerableMap` | a contract that calls set and map in any order; extends `EnumerableSet` |
| `Collections` | what the two promise: a set, a map, and truthful replies |
| `SafeCast`, `CastChain` | the four casts as operators; a contract that chains them, reverts included |
| `Checkpoints` | insertion, the binary searches and the lookups, as operators |
| `Trace`, `History` | contracts that keep a trace with any keys, or a history by block number |
| `Timeline` | what both promise: a value for every time, of which the past is fixed |
| `CertoraRun` | the script, its children, and the events of the operating system |
| `ReleaseCycle` | one release branch, the workflow's runs on it, and the maintainers |
| `DocsBranch` | pushes, clones, and the script in each |
| `InheritanceOrdering` | the script; what solc gives it is a constant |
| `Solc` | solc's linearization (external), which the instance for TLC gives that constant |
| `GasReport` | JavaScript's numbers, `Report.compare`, the cells |
| `MigrateImports` | the listing loop, the rewriting, writes of two steps, crashes |
| `MCRupeeCoin`, `MCEngine`, `MCEngineCalls`, `MCDeployment`, `MCLibraries`, `MCWorkflows`, `MCScripts` | instances for TLC; the `.cfg` files choose among their constants |
| `ArithmeticLemmas` | finite sums: independence of order, effect of a change, monotonicity, bounds; multiplication and rounding division of naturals; induction over numbers; powers of two |
| `RupeeCoinProofs` | what each ledger operator does to a sound ledger, and the theorems about the coin |
| `CollateralVaultProofs` | the theorem about the vault |
| `RupeeCoinEngineProofs` | custody and debt, the refinement of the vault, the backing of the supply, who pays for what, the hand-over, and what stays open to users |
| `EngineCallsProofs` | what called contracts see, that payouts succeed, and the atomicity of transactions |
| `LibraryProofs` | the theorems about `EnumerableMap`, `CastChain`, `Trace` and `History` |
| `ScriptProofs` | the theorems about `Deployment`, `MigrateImports`, `GasReport` and `InheritanceOrdering` |
| `WorkflowProofs` | the theorems about `ReleaseCycle`, `DocsBranch` and `CertoraRun` |

Correspondence of state: `coin`, `owner` are the coin's storage; `tokens[t]` the
storage of collateral token `t`; `s_collateralDeposited`, `s_coinMinted` the
engine's mappings of the same names; `price[t]` the feed's `latestAnswer`.
`s_collateralTokens` and `s_priceFeed` never change after the constructor and are
the constant `Tokens`.

An action is a transaction that succeeds. Its first argument is `msg.sender`. Its
conjuncts follow the order of the code, and since a revert restores everything, a
check that the code makes after its updates is a guard on primed variables
(`IssueCoin`, `RedeemerIsHealthy`, `HealthFactorImproves`). The private functions
`_redeemCollateral` and `_burnCoin` and the bodies of `depositCollateral` and
`mintCoin` are operators (`ReleaseCollateral`, `RetireCoin`, `TakeDeposit`,
`IssueCoin`) which the transactions combine the way the code calls them. For each
computation that can revert on overflow or a zero divisor there is a `...Fits`
predicate beside the operator with its value.

In `EngineCalls` a transaction is instead a list of steps, in the order of the code:
records, calls, checks. `Begin` sends one and saves the storage; `Continue` takes the next
step; `Revert` follows when its check or call fails, and restores what was saved. While a
transaction runs nobody else's does. `require` stands for the `moreThanZero` modifier;
`allowedToken` has no step, since inputs come from `Tokens`.

In the models of scripts the state is that of the processes and of what they share.
`Deployment`: a contract of the deployer's is stood for by the nonce of the transaction that
creates it, from which its address is computed. `coinNonce[r]` is what forge fixed for the coin of run `r` when
it executed the script, `left[r]` how many transactions it has still to send, `nonce` the account's;
`Fail` ends a run at any of its transactions, with or without the nonce used, and `UseKey` is any other transaction of the
account. The mocks are sent by the account of forge's command line, which may be the deployer or another.
`engine[a].list` and `.feed` are the storage the constructor writes. `CertoraRun`: `queue` holds the places in `Specs` of the runs that wait, of which `p-limit` starts
the first; `stage[e]` is
how far `runCertora` has got for an entry, `child[e]` the process and `collected[e]` how much
of what it `printed` has gone through the stream; each event handler is an action.
`ReleaseCycle`: `branch` is the head as the decisions of `state.js` read it (version, pre mode,
changesets), `run` the commit of the run in progress and the steps it has still to do,
`pending` the only run that waits in its concurrency group. The group is per `ref`: the run on master that starts the
branch does not take the place of one on the branch, and has its steps in `starting`. `DocsBranch`: `clone[c]` holds the
phase of the run in a clone and the clone's own docs branch, `remote` that of origin.
`InheritanceOrdering`: `edges` is the script's graph, `visited` its place in the loop.
`MigrateImports`: `writing[f]` is what a file that `fs.writeFile` has emptied will contain.

Some modules also define, before an operator, a variant of it with a plausible
mistake (its comment says what is wrong). No specification uses them: each
property was also checked against the specification with one operator replaced by
its variant, and TLC then reports the property violated.

## Runs

| Run | Instance | Shows |
|---|---|---|
| `coin` (`MCRupeeCoin.cfg`) | 3 accounts (one of them null), 2-bit integers, every amount | types, `SupplyIsSumOfBalances`, `NoTakingWithoutAllowance`, `OnlyAnOwnerMints` |
| `engine` (`engine.cfg`) | 2 users, 1 token, a price among 1.0, 0.7 and 0.5 | types, `CollateralInCustody`, `HealthyMeansBacked`, `CoveredDebtIsLiquidable`, the refinement `VaultSpec`, `OnlyTheMarketEndangers`, `LossesRepayDebt` |
| `two_tokens` | 2 users, 2 tokens whose feeds have different decimals, amounts 21 and 9 at prices 1.3 and 0.6 | `QuotesAreAccepted` |
| `extreme_prices` | prices 0, 1.0 and 30, integers up to 5000 | `NobodyIsLockedIn` |
| `currency` | fixed price, approvals between the users, limited and infinite | `SupplyIsOwed`, `DebtFollowsSupply` |
| `calls` (`calls.cfg`) | as `engine`, with one amount each for coins and collateral, call by call | `CoveredBetweenCalls`, the refinement `AtomicSpec` |
| `deployment` | two runs of the script with one key on either network, 8 nonces, failures and other transactions of the key anywhere; an engine of another account with up to two tokens and feeds | `EnginesCountTheirTokens`, `MinterIsItsEngine`, `ReportedIsDeployed` |
| `crash` | the price may fall to 0.4 | violates `ProtocolHasMoreDepositedThanMinted` |
| `gap` | the price may fall to 0.5, where a full position is worth its debt | violates `UnhealthyIsLiquidable` |
| `libraries` | a set of addresses and a map from integers to addresses, words of 2 bits and addresses of 1; types of 2, 4 and 6 bits and every integer; traces with keys of 3 bits; histories with blocks up to 9 | `StorageOK`, `ReadsAgree`, the refinement `CollectionSpec`; `CastsAreExact`; `SearchesAreExact`, `HistoryIsExact`, and the refinements of both traces and histories, `PastIsFixed` |
| `workflows` | release: two commits, two dispatches, one failure for an outside reason; docs: minors 8 and 9, two clones, two pushes to each branch, three docs commits; prover: three entries, two for one spec, two at a time | `ReleaseOK`, `VersionsFit`, `VersionPRFits`, `ComesToRest`; `DocsStayInOrder`; `ReportIsTrue`, `AllAreReported` |
| `scripts` | migration: two Solidity files in nested directories, two imports each, one crash; gas: one method and one contract, costs at, above and one above the base cost; inheritance: six contracts, three of which inherit from the others, or two artifacts of four | `LittleIsLost`, `NoneUpdatedMeansUpToDate`, `RunsEnd`; `RowsAreExact`; `ConflictsAreExact`, `AnyTwoMayBeInherited` |

The last three rows are about machines that share nothing. Their MC modules choose one of the
machines in the initial state (`subject`); it takes all the steps of the behaviour, and the others
stay at rest in a state of their own where their fair actions are not enabled. So each run is several
checks in one, and its properties are about the machine they name. Several properties are
conjunctions of parts that have names and comments of their own in the modules.

What the properties say:

- `SupplyIsSumOfBalances`: balances add up to the supply as unbounded integers,
  the fact the comments in `_transfer`, `_mint` and `_burn` rely on.
- `NoTakingWithoutAllowance`, `OnlyAnOwnerMints`: action properties over every
  call of every sender.
- `CollateralInCustody`: the engine holds at least the deposits on record, token
  by token. It is an inequality since anybody may send it more.
- `SupplyIsOwed`, `DebtFollowsSupply`: the supply never exceeds the sum of debts,
  and only `burnFrom` opens a gap between them.
- `HealthyMeansBacked`: as long as all positions are healthy the engine's tokens
  are worth twice the supply. It relates health factors of single users, each with
  its roundings, to the valuation of all the tokens at once.
- `NobodyIsLockedIn`: what must work at *any* price, also at one that makes valuations
  revert: debt can be repaid (`RepaymentIsOpen`), and without debt a deposit can be taken
  out (`DebtFreeMayLeave`). A redemption is checked for a debtor only, a repayment never.
- `QuotesAreAccepted`: what a user computes from the engine's own views, in the way
  the fuzzing `Handler` does, is accepted.
- `CoveredDebtIsLiquidable`: a position that holds debt plus 5% in one token can be
  liquidated in full by whoever can pay.
- `VaultSpec`: the engine implements `CollateralVault`, under the mapping `locked` =
  `s_collateralDeposited`, `debt` = `s_coinMinted`, `rate` = the scaled price. So
  an unsafe position changes only by becoming safe, by deposits or repayments that take nothing out, or by a seizure, which takes at most 105%
  of the debt it repays, repays no more than one token unit above what it takes,
  and leaves the position better covered. The vault's `Adjust` has no actor: that it is the user's own doing,
  also when a liquidation makes a position safe at once, is left to `LossesRepayDebt`.
- `OnlyTheMarketEndangers`: no transaction, of its owner or of anybody, turns a safe
  position unsafe.
- `LossesRepayDebt`: the books of every user, over wallet and deposit together. No
  transaction with the engine costs anybody collateral but a liquidation, which takes, of one
  token, at most 105% of the worth of the debt it relieves, and from an unhealthy user only; and nobody's debt
  grows by anything but the coins that this user gets. The vault does not know of wallets, and lets
  a user adjust at will.
- `CoveredBetweenCalls`: what a token or the coin sees when the
  engine calls it. The engine never holds less than the deposits on record, except for the
  deposit it is just asking for (`CustodyBetweenCalls`), and the supply is never ahead of the debt, except for
  the coins of a repayment under way (`DebtBetweenCalls`). And the calls that pay out and that burn, which
  come after the record has changed, do not fail (`PayoutsSucceed`): what can fail
  are the engine's own checks, a call that asks a user for something, and the mint. The one exception is the
  liquidation of nothing, which the coin's `burn` refuses, not the engine. The order of record, check and call in every
  function decides all this, and no test looks between two calls.
- `AtomicSpec`: from outside every transaction is one step of `RupeeCoinEngine` or none.
  Checks that come between the calls of the code, and are guards on the state after the
  transaction there, decide the same; a revert after half a composite call leaves nothing.
- `EnginesCountTheirTokens`: in any engine that anybody constructs, the tokens that may be
  deposited are those that valuations go through (`DepositsAreCounted`), and the script's
  engines have each token once and feeds of at most 18 decimals (`ScriptEnginesCountOnce`). The constructor
  does not guarantee the latter (an engine of another account in this run does list a token twice);
  the script does, by the configurations it passes on. That their feeds have at most 18 decimals is assumed of the
  configurations (`ConfigAssumption`); the property only says that they reach the engine.
- `MinterIsItsEngine`: wherever a run is cut short, and whatever the deployer's key signs in between, a coin
  that has left the deployer belongs to an engine that exists and was built for it. The script passes
  addresses that forge computed before anything was sent; a transaction that failed and was passed
  over would hand the coin to an address without an engine.
- `ReportedIsDeployed`: what a completed run returned, from its execution in forge, is on the chain: its own coin, its
  engine as the owner, and the engine's tokens and feeds. Between two of its transactions the key may be used for
  others, so that the next one creates its contract elsewhere; that it is refused instead makes this true. A run
  that is cut short promises less: its coin may stay with the deployer, or not exist. The script has no
  retry, so no liveness is claimed.
- `StorageOK`, `ReadsAgree`, `CollectionSpec`: swap-and-pop keeps positions and
  values inverse; the assembly of `values`, which relabels words without converting them,
  shows what `at` shows (`ViewsAgree`); a stored zero is told from no entry (`LookupsAgree`); and set and map
  reply truthfully to every call.
- `CastsAreExact`: no chain of casts changes an integer (`NumberIsKept`), and a cast reverts if and
  only if the integer does not fit the type it was to return (`OnlyMisfitsRevert`). A revert leaves the
  integer where it is, and other casts may follow.
- `SearchesAreExact`, `HistoryIsExact`, `PastIsFixed`: the three searches, the one
  that starts among the last checkpoints included, agree with a scan; a push
  returns the value before and after, and changes no answer about an earlier key. In
  `History` block numbers outgrow the keys: `push` then reverts instead of writing into the past.
- `ReportIsTrue`, `AllAreReported`: whatever the order of the
  children's exits, exit code 0 means that every request matched a spec and every spec
  selected succeeded (`ZeroMeansVerified`), nothing else ran, and each run has one row; and what waits for
  a place is reported in the end, unless the script stops with exit code 1.
- `ReleaseOK`: no changeset is lost or released twice, though version PRs are merged
  into a branch that has moved on. `VersionsFit`: what npm serves as `latest` is final and
  no final version published here is newer; what is merged back has nothing left to release; a final
  version needs a dispatch. `VersionPRFits`: its title names its version, and
  although waiting runs are cancelled, it is of the present head once nothing
  runs. `ComesToRest`: jobs that dispatch the workflow they belong to do not keep it going.
- `DocsStayInOrder`: whatever is delayed, aborted or pushed again later,
  the docs never go back to an older minor of one digit (`MinorsOnlyGrow`), no clone builds on docs
  that were never pushed, and no prerelease is documented.
- `ConflictsAreExact`, `AnyTwoMayBeInherited`: what is
  printed are exactly the pairs in opposite orders within one artifact, with
  a witness of each; two contracts that are found consistent can be inherited together.
- `RowsAreExact`: rows are hidden only when
  nothing changed; the infinite minimum of a method that was never called reaches no
  cell; a percentage has the sign of its difference.
- `LittleIsLost`, `NoneUpdatedMeansUpToDate`, `RunsEnd`: files are emptied one at a time;
  "No files were updated" is true; a run ends, also with a path that does not exist or
  directories named twice.

`QuotesAreAccepted` and `CoveredDebtIsLiquidable` are claims about amounts for which
valuations do not overflow, so their runs use integers large enough; in
`extreme_prices` they would not hold, and the properties checked there are the ones
meant to survive overflow.

The two violations are disagreements of code and documentation:

- `crash`: the header of the engine and the fuzzing invariant say the collateral is
  always worth more than the coins. That depends on liquidators acting in time; after
  a fall by more than half it is false. The fuzzing harness never changes a price.
- `gap`: the notice on `liquidate` lets unhealthy users be liquidated. In the run, at collateral worth
  exactly the debt, no amount is accepted. Below 105% of the debt a partial liquidation takes
  105% of what it repays and so worsens the position, which the last check refuses,
  and a full one needs more collateral than there is. The exception, on the chain, are amounts of a few wei of
  collateral whose bonus rounds to zero: above 100% they may be accepted, one after the other.

### What the models show not to hold

Met while modelling the vendored scripts, and left out of the properties above. Each follows
from the code as modelled; none concerns the Rupee Coin contracts.

- `_upperBinaryLookup` of `Checkpoints.js` returns one more than the index its comment names; all
  callers subtract one, so lookups are right (`SearchesAreExact`).
- The prover's runner ends a run's stream at the exit of the child, so output still on its
  way is lost; and it shows the link of a run only when both ids arrive in one chunk. The exit
  code depends on neither (`ReportIsTrue`).
- A dispatch promotes a release branch whatever state it is in, while the workflow's
  diagram draws the arrow from a released candidate only. What is left is that a final
  version needs a dispatch (`VersionsFit`).
- The run of a merged version PR may be replaced by a dispatch while it waits, and no other run
  publishes that version.
- Publishing under `latest` is followed by the removal of the dist-tag `next`, which fails when
  there is none, before tag and release are made.
- The refusal "newer version is published" in `update-docs-branch.js` compares minors as strings, so
  minor 10 counts as older than 9, and compares nothing but minors, so two runs of one minor may
  publish in either order. `DocsStayInOrder` is therefore checked for minors of one digit.
- The inheritance check looks for pairs in opposite orders. Three contracts can order three
  others in a circle without such a pair ("needs proof", says its comment), and cannot be inherited together;
  `AnyTwoMayBeInherited` is what the check does establish.
- `migrate-imports.js` replaces the first occurrence of an old path only. A run that reports no updated
  files has nothing left (`NoneUpdatedMeansUpToDate`); one that reports some may have.

### Bounds

`MaxUint` stands for `type(uint256).max`, `PRECISION` for 1e18 and `MAX_DECIMALS` for
18. TLC's integers have 32 bits, so the runs take 10 for `PRECISION` and one decimal;
that makes roundings coarser, hence more visible, than they are on the chain.
`CoinAmounts`, `CollateralAmounts` and `Approvals` bound what a call may carry;
`Answers` the prices; `Endowment` what users own at the start, which bounds all else.
In the `engine` run amounts 20 and 40 at prices 1.0, 0.7 and 0.5 give positions that
are at the limit, above it, unhealthy but fully liquidable, unhealthy after a partial
liquidation, and beyond liquidation. Two users suffice for every interaction of the code, which never involves
more than a debtor and one other account. No symmetry is used, since `alice` is also
the deployer.

`calls` has the same prices with one amount of coins (10) and one of collateral (40):
enough for deposits, mints, composite calls that fail in their second half, and
liquidations that reach the last check and pass or fail it. `deployment` has the two runs
it takes to confuse coins and engines, and eight nonces: enough for both to complete, or for one that sends its own mocks,
with transactions of other origin between them; `ConstructOther` with all arrays of up to two
entries over two tokens, two feeds (one of 20 decimals) and the zero address.

`WordSize` 4 and `AddressSize` 2 leave words that are no address, which the assembly of
`values` must never show. Six bits and steps of two give casts that cut, keep and
change sign. A trace of eight checkpoints is longer than the five from which the search
among recent ones differs from the plain one. `MaxBlock` 9 is beyond the last key, 7.

`Parallel` 2 with three entries makes one wait. `MaxChunks` bounds the data events of a
child. `MaxChangesets`, `MaxDispatches` and
`MaxFailures` bound the maintainers and the outside world: two commits and two
dispatches reach candidates, the promotion, the final release and a patch, with a commit or
dispatch during any of their runs. In `DocsBranch`, `MaxPushes` bounds the versions of a minor
(a candidate and a final one, or two final ones) and `MaxDocs` the docs commits; two clones suffice for one to
overtake the other. Three contracts over three others are what a circle needs. In
`MigrateImports`, five entries of the table stand for all: a path that moved, two old paths of one new
one, a rename, a longer path; `MaxCrashes` is 1.

The deadlock check is off where the system may really stop: `libraries` (the last block of a history), `workflows` (the prover's script ends; maintainers may
stop, and the bounds stop them), `scripts` (a comparison and an inheritance check end) and `deployment`
(runs are over, or out of nonces). It is on in all others.

### Fairness

The contracts schedule nothing: no user, liquidator or feed is obliged to act, so their
specifications have no fairness, and what must remain *possible* is stated with `ENABLED` in
invariants instead. Nor has `Deployment`: a run of the deployment script is refused by the node when its
key was used in between, fails for lack of gas, or loses its connection, and the script does not try
again. The other scripts are scheduled:

- `CertoraRun`: weak fairness of `Main`, `Start`, `Finish`, and for each entry of `OnExit`, `Report` and
  of the exit of its child. The event loop of node gets to every event, and a prover's run
  comes to an end, as Certora's do at a time limit. No child is obliged to print, and
  output is not obliged to arrive.
- `ReleaseCycle`: weak fairness of `Workflow`: a run that is asked for is served, and its jobs
  come to an end. Maintainers owe nothing. `ComesToRest` is about them in the
  sense that their commits and dispatches are bounded, as they are between two releases;
  the dispatches of the jobs themselves are not bounded.
- `MigrateImports`: weak fairness of the script's own steps and of each write. The process goes
  on unless it crashes, which it may do at any step.

## Proofs

The theorems about the contracts hold for all finite sets of accounts and tokens, all prices and
every width of the integers, from the named `ASSUME`s of `ERC20`, `RupeeCoin` and
`RupeeCoinEngine` (types of the constants; the null address is an account and neither
the engine nor a user; feeds have at most 18 decimals; users' endowments fit into a uint and the engine
starts without tokens).

| Theorem | Property |
|---|---|
| `RupeeCoinProofs!CoinTypeCorrect` | `CoinTypeOK` |
| `RupeeCoinProofs!SupplyIsConserved` | `SupplyIsSumOfBalances` |
| `RupeeCoinProofs!NobodyTakesWithoutAllowance` | `NoTakingWithoutAllowance` |
| `RupeeCoinProofs!OnlyTheOwnerMints` | `OnlyAnOwnerMints` |
| `RupeeCoinEngineProofs!EngineTypeCorrect` | `TypeOK` |
| `RupeeCoinEngineProofs!DepositsAreCovered` | `CollateralInCustody` |
| `RupeeCoinEngineProofs!CoinsAreOwed` | `SupplyIsOwed` |
| `RupeeCoinEngineProofs!DebtAndSupplyMoveTogether` | `DebtFollowsSupply` |
| `CollateralVaultProofs!VaultIsSafe` | `OnlyTheMarketEndangers`, in the vault |
| `RupeeCoinEngineProofs!EngineImplementsVault` | `VaultSpec` |
| `RupeeCoinEngineProofs!EngineEndangersNobody` | `OnlyTheMarketEndangers`, in the engine |
| `RupeeCoinEngineProofs!HealthBacksTheSupply` | `HealthyMeansBacked` |
| `RupeeCoinEngineProofs!LossesOnlyRepayDebt` | `LossesRepayDebt` |
| `RupeeCoinEngineProofs!HandedOverOnce` | the coin changes hands once, from the deployer to the engine, before there are coins |
| `RupeeCoinEngineProofs!OwedCoinIsTheEngines` | whoever owes coins can pay them back to their owner |
| `RupeeCoinEngineProofs!DebtFreeLeaves` | a witness for `DebtFreeMayLeave` in `NobodyIsLockedIn` |
| `RupeeCoinEngineProofs!RepaymentGoesThrough` | a witness for `RepaymentIsOpen` in `NobodyIsLockedIn` |
| `RupeeCoinEngineProofs!ExcessLeaves`, `RoomIsMinted` | witnesses for `QuotesAreAccepted` |
| `RupeeCoinEngineProofs!CoveredDebtIsSettled` | a witness for `CoveredDebtIsLiquidable` |
| `EngineCallsProofs!CoveredBetweenTheCalls` | `CoveredBetweenCalls` |
| `EngineCallsProofs!TransactionsAreAtomic` | `AtomicSpec` |
| `LibraryProofs!StorageIsConsistent` | `StorageOK` |
| `LibraryProofs!ReadsAreExact` | `ReadsAgree` |
| `LibraryProofs!ImplementsCollections` | `CollectionSpec` |
| `LibraryProofs!SearchesFindWhatIsThere` | `SearchesAreExact` |
| `LibraryProofs!HistoriesAnswer` | `HistoryIsExact` |
| `LibraryProofs!TracesKeepThePast`, `HistoriesKeepThePast` | the refinement of `Timeline` by each |
| `LibraryProofs!ThePastIsFixed` | `PastIsFixed` |
| `LibraryProofs!ChainsAreExact` | `CastsAreExact` |
| `ScriptProofs!CoinsGoToTheirEngines` | `MinterIsItsEngine` |
| `ScriptProofs!CompletedRunsAreDeployed` | `ReportedIsDeployed` |
| `ScriptProofs!DepositsCountOnce` | `EnginesCountTheirTokens` |
| `ScriptProofs!DeploymentsAreFinal` | what is constructed or handed over stays so (`DeploymentIsFinal`) |
| `ScriptProofs!ScriptEnginesMeetAssumptions` | the script's engines are what `RupeeCoinEngine` assumes |
| `ScriptProofs!CrashesCostOneFileEach` | `LittleIsLost` |
| `ScriptProofs!NothingIsLeftUnsaid` | `NoneUpdatedMeansUpToDate` |
| `ScriptProofs!ComparisonsAreExact` | `RowsAreExact` |
| `ScriptProofs!ConflictsAreFound` | `ConflictsAreExact` |
| `WorkflowProofs!ChangesetsAreKept` | `ReleaseOK` |
| `WorkflowProofs!PublishedAsTheyAre` | `VersionsFit` |
| `WorkflowProofs!ThePRIsCurrent` | `VersionPRFits` |
| `WorkflowProofs!DocsOfOneDigitStayInOrder` | `DocsStayInOrder`, for minors of one digit |
| `WorkflowProofs!NoRunBuildsOnLostCommits` | its parts `DocsTypeOK` and `AtMostOneAhead`, for minors up to 99 |
| `WorkflowProofs!TheReportIsTrue` | `ReportIsTrue` |

**The coin.** `CoinTypeOK` alone is not inductive: only because the balances add up to
a supply that fits is `balance + amount` in an `unchecked` block below 2^256, so the
invariant (`CoinIInv`) is "the ledger is *sound*", types and sum together.
The first part of `RupeeCoinProofs` shows for every ledger operator that it preserves soundness and what
exactly it does to each balance. One lemma per action gives `GoodCall`, what a call of
any sender leaves true, from which the action properties follow as well.

**The engine.** `EngineIInv` adds the types of the positions, soundness of every
token's ledger, custody and `SupplyIsOwed`. A transaction is a combination of a
custody half (`TakeDeposit`, `ReleaseCollateral` or nothing) and a debt half
(`IssueCoin`, `RetireCoin` or nothing); each of the four is proved once, and `Halves`
combines them. The health factor plays no part: custody and debt hold without it.

**The refinement.** Three rounding lemmas carry it. `HealthFactorIsExact`: two
roundings down in a row, compared with `MIN_HEALTH_FACTOR`, decide exactly whether the
collateral is worth twice the debt, so the code's check is the vault's `Safe`.
`RewardBounds`: the rounded reward and bonus of a liquidation take at most 105% of
the debt repaid, and one token unit more would be worth more than that debt.
`HigherQuotient`: a strictly higher health factor means a strictly better cover.
With them each transaction is shown to be `Adjust`, `Seize`, `Reprice` or a stutter,
in states where `EngineIInv` holds (the types of the positions are needed; custody is
not). `VaultIsSafe` is proved in the vault, with no notion of a health factor, and
`EngineEndangersNobody` carries it over through the refinement; `SameVault` says that the
vault instantiated with its proofs is the vault of the property.

**Backing.** `TogetherCovered` is an induction over the set of users: the value of all
deposits together is at least the sum of the users' values (`ValueSuperadditive`, since
rounding once loses no more than rounding twice). Custody and `SupplyIsOwed` then turn
deposits into holdings and debt into supply.

**Who pays for what.** `LossesRepayDebt` is about all users at once, while a transaction names two.
One lemma for each half of a transaction says what it does to every `Holding`: a deposit and a redemption
move collateral between wallet and record of one user, and a liquidation from the record of one into the
wallet of another, which is the same user if somebody liquidates the own position. Then nothing is lost, whatever the amount; this
is the case to be kept apart. That the loss is bounded by the debt relieved is `RewardBounds` again.

**The hand-over.** Debts exist only once the engine owns the coin (`EngineOwnsOwedCoin`), the supply is
owed, hence there are no coins before the hand-over; and no transaction but the hand-over writes `owner`. So
`HandedOverOnce`: the owner changes once, from the deployer to the engine, when the supply is zero.

**What stays open.** TLAPS does not reason about `ENABLED`, so the theorems state what an
`ENABLED` hides: the guards as hypotheses, the primed variables equal to the values that the code
writes, and the action as conclusion. `WritesRelease` and `WritesRepayment` are those values for
`_redeemCollateral` and `_burnCoin`; none of the guards that come after the writes may then fail.
The hypotheses beyond those of the checked properties are the ones about overflow that the runs'
constants make true (`...Fits`, `MaxUint`), written out; `RoomIsMinted` and `CoveredDebtIsSettled` need the
rounding lemmas, `ExcessLeaves` a bound on what one redemption takes off the rounded sum. The step
from a witness to `ENABLED` itself stays with TLC. Two of them need `EngineOwnsOwedCoin`.

**Call by call.** `CallsIInv` says of the steps still to come how they are ordered (`Ordered`: a
record is followed at once by the call that settles it) and of the state by how much records and ledgers
disagree meanwhile (`CustodyUnderWay`, `DebtUnderWay`); the saved state satisfies the invariant of the engine.

That payouts succeed follows from custody for `transfer`: the amount recorded as released is still there on
top of all deposits. For `burn` a second invariant, `RepaidIsAtHand`, follows the coins from the
repayment on record (somebody owes, so the engine owns the coin) through the pull to the burn. While a
loan is under way its debt is on record before the mint has shown who the owner is; `ToMint` marks
these states.

For atomicity it does not help to know the present state alone: the code's checks look at
states in the middle of the transaction. `Replayed` therefore keeps the whole way: a sequence
of states from the saved one to the present one, each led to from the one before by the next step of
one of the transactions. When the last step is taken, the sequence has the length of the transaction, and
one lemma per function composes its steps into the action of `RupeeCoinEngine`; a revert
returns to the saved state, a stutter there.

**Deployment.** `MinterIsItsEngine` says nothing of a coin that the deployer still has, so it
does not survive the transaction that hands it over. `RunOK` in `ScriptProofs` says of every run that was not
cut short how far it has got: the number of transactions it has left determines who owns its coin and whether its engine is
there, at the addresses fixed for them. Both runs and the other uses of the key draw on one nonce, so each
address below it is taken once (`CoinsApart`) and nothing is above it (`AddressOK`); a transaction is
accepted at its own nonce only, and therefore creates what the later ones refer to where they refer to it. `AddressOK` also keeps
what runs that were cut short have left behind. From it `DeploymentsAreFinal` follows too: constructors write to
addresses that nothing is at yet, and each coin is created, and handed over, once.
`ScriptEnginesMeetAssumptions` closes the gap to the models of the engine, which take their tokens as given:
`MeetsAssumptions` is what the assumptions on `Tokens` and `FeedDecimals` ask for. `DepositsCountOnce` follows from a lemma about the constructor
on any arrays, and one about pairs of different tokens. The number of runs, `MaxNonce`, the addresses and the
arrays of other accounts are arbitrary. Assumed are that the deployer's account is no contract
(`NamesAssumption`) and what the configurations provide (`ConfigAssumption`): on both networks
two different tokens whose feeds have at most 18 decimals. The decimals of the feeds on
Sepolia are not in this repository; the mocks have 8.

**Sets and maps.** `StorageOK` is nearly inductive but says nothing of words: a value that
is read back as an address is the address that was written only if storage holds words of
the right type. `IInv` in `LibraryProofs` therefore says that the array and positions of both sets are
*sound* (each the inverse of the other), that every stored word is a word of its type, and that absent keys
have no value behind them. One lemma each shows what insertion and swap-and-pop leave of a
sound set, the case where the last element is the one removed included. The refinement maps the storage to the
set of its words; `NextRefines` has one step per call. The theorems assume only the sizes of words and
addresses and that the types are among those the generator knows (`SizeAssumption`, `TypeAssumption`).

**Casts.** `PowerCountsSubsets` gives a power of two its meaning, the number of subsets of a set; doubling,
growth and `2 ^ m * 2 ^ n` follow, so the length of words is arbitrary. `CastToUint` and `CastToSint` say that
Solidity's cast keeps an integer which the target can hold, and `GuardsOfCasts` that the guard of each of the four
functions, the comparison after a signed cast included, refuses exactly those that it cannot.
The invariant of a chain (`CastOK`) is that the integer is the one it began with and fits its type, and that the
last cast reverted exactly if it had to.

**Checkpoints.** The searches are loops over two bounds, and in the model recursive functions. That each
exists and what it returns is proved together, by induction over the distance of
the bounds: in checkpoints whose keys increase, a search between two bounds gives the position in their
range that is nearest to the cut between smaller and greater keys (`Nearest`). A search among
recent checkpoints therefore needs from its square root only that the start it computes lies in the sequence and, if the key
there is greater, above the cut; that Newton's steps stay between 1 and their argument (`NewtonStep`, `SqrtOf`) is
enough. `_insert` is shown to leave the checkpoints with smaller keys and the new one, and
hence to change what lookups answer from its key on and nothing before. Both contracts then refine `Timeline`;
for `History` the invariant adds that keys are blocks up to the present one, which a block number that
outgrows the keys cannot violate because `push` reverts.
Assumed are only positive lengths of keys and values (`LengthsAssumption`).

**The release cycle.** The parts of `ReleaseIInv` follow the variables. `Consistent` relates version, mode
and changesets of a commit (a prerelease is in pre mode with patch 0; no more
changesets than were committed); it holds for the head and, since runs work on old commits,
for every commit that a run, a waiting event or the version PR refers to. What makes old commits harmless is
`Earlier`: the head has a later version, or the same version with as many recorded
changesets and at least as many fresh ones. `RegistryOK` relates the commits' versions to what is on npm, and
`UpcomingOK` says what must be true for the PR to be current at rest: some run, waiting run or step still
has to bring it up to date, or it is. `StartingOK` and `HeadOK` order the two groups of runs: nothing runs on the branch before the
run on master has started it. Any number of changesets, dispatches and failures is allowed.

**The docs branch.** `DocsIInv` says that a clone's own branch, where it starts with the first commit of
origin's, follows it up to its last commit, and up to the end once a run has fetched; a branch that
starts otherwise was started in that clone and can never be pushed over origin's. The order of the
minors (`OrderIInv`) needs in addition that strings of one digit compare like numbers
(`OneDigitMinors`), hence its hypothesis `Minors \subseteq 0 .. 9`: without it the property is
false (see What the models show not to hold). Types and `AtMostOneAhead` need no such hypothesis.

**The prover's runs.** `CertoraIInv` ties the stage of a run to its child (a stage beyond waiting has a child, one that has
ended has a result), the queue to the stages, the table to the runs reported (one row
each, with its result), the exit code to failures and missing requests, and counts the children at work.

**migrate-imports.** The invariant `MigrateIInv` follows the file that is being written: there is at most
one, it is empty, and its new contents are not. Each file that a run was given is still to
come, counted as updated, or up to date, which `NoneUpdatedMeansUpToDate` needs when the list is at
its end. That a file read without a change is up to date needs the table: no new path is an old one (`NoChains`), and of equal
imports the first is replaced. Projects, imports, arguments and
the number of crashes are arbitrary; assumed is that files are finitely many and hold imports
(`ContentsAssumption`: one without any is never written, and leaving it out lets the empty contents stand for a loss).

**The gas report.** Rows that are shown are those of `Compare` of two reports (`GasIInv`); the rest is
about numbers. The sum of the costs of calls is a function over positions, which
exists by induction over numbers and is at least the number of calls times the base
cost; so lowest, highest and average cost, wherever they are finite, leave a denominator that is not
negative, and one of zero makes an infinite percentage or none, which is not shown.
`ReportsAssumption` says what the tests' reporter provides: every transaction pays `BASE_TX_COST`, and
no method is named like a row of deployments.

**The inheritance check.** `OrderingIInv` says that the graph has exactly the pairs of the contracts seen in the
present artifact, and that the report tells of the artifacts before it what is opposed there.
What solc gives is a constant, `Linearization`, of which only is assumed that a linearization names
nothing twice (`LinearizationAssumption`). The comment `needs proof` on line 33 of the script is
about cycles of length two: they are found if and only if two contracts come in both
orders. Longer cycles, of contracts that agree two by two, are neither reported nor excluded.

**Sums.** `SumFunction` folds over a set in an unspecified order and is defined by
recursion. `ArithmeticLemmas` constructs the function of all partial sums, in which any element
may be taken first, by an induction over the subsets of a finite set. The induction is
itself a lemma about *sets* of subsets, drawn from the well-foundedness of strict
inclusion, so no theorem with an operator parameter is needed. Induction over numbers is one about sets
of numbers (`NumberInduction`, `NumberStrongInduction`), drawn from the same source through the least element
of a set; it is how a recursive function is shown to exist, and what it computes.

Only model-checked:

- `ENABLED` itself in `NobodyIsLockedIn`, `QuotesAreAccepted` and `CoveredDebtIsLiquidable` (their witnesses are proved), and liveness under fairness
  (`ComesToRest`, `AllAreReported`, `RunsEnd`), both out of the prover's reach;
- that powers of ten are natural numbers, which `FeedAssumption` states and TLC evaluates: the prover knows nothing of `^`;
- `AnyTwoMayBeInherited`: it is about the linearization itself, whose operators are recursive (`Solc`);
- the two violated properties, which the runs refute.

## Not modelled

- Events, names, error values: no property is about them.
- Getters that return one variable or constant.
- The timestamp of a price: the engine discards it.
- Collateral tokens other than plain OpenZeppelin ERC20s: tokens that call back, charge a
  fee, or return `false`. `EngineCalls` says what a called token would see, but gives it no
  step of its own. The scripts deploy or name only plain ones; with them the `if (!success)`
  branches are never taken.
- Gas.
- Before the coin is handed over, the deployer does what the script does: no minting, burning
  or change of owner of its own. `RupeeCoin` by itself lets the owner do all of these.
- In `RupeeCoinEngine`, `increaseAllowance` and `decreaseAllowance` of the coin (actions of
  `RupeeCoin`), since there `approve` with other amounts has the same effects; and third
  parties spending allowances on collateral tokens.
- Who calls the views of the engine, its unit tests and fuzzing harness (their assertions are among the
  properties), and the build files.
- Of the release workflow: the check of the published package's contents, release branches beside the
  one modelled (they share only npm's dist-tags), and texts of notes and comments.
- Wording and layout of what scripts print: colours, column widths, command lines, the Solidity text
  that the templates produce. The models are of what the generated code does.
- The other scripts of OpenZeppelin, which transform text or set up build tools once, and its contracts other
  than those `RupeeCoin` inherits from: they keep no state here, or nothing here uses them.

## Plan

Done: ledger, coin, engine, vault; the calls of a transaction; constructor, configuration
and deployment; the vendored libraries and scripts that keep state; the runs and theorems above.

What is left: liquidation as a process, a keeper under fairness against a market that moves, and which
positions are eventually healthy again. The repository has no keeper yet.
