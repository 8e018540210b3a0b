-------------------------------- MODULE Deployment --------------------------------
(* How engines come to be: script/HelperConfig.s.sol and DeployRupeeCoin.s.sol *)
(* as forge runs them, and the constructor of the engine, which anybody may    *)
(* call with other arguments. forge executes a script once to find out its     *)
(* transactions, fixes the nonce of each and with it the address of what it    *)
(* creates, and then sends them one by one; between two of them other          *)
(* accounts, other runs and other uses of the same key go on. A transaction    *)
(* that is refused or fails ends the run: the script has no retry. (A run that *)
(* is resumed by hand at the transaction it ended at is one that waited.)      *)
EXTENDS Integers, Sequences, FiniteSets

CONSTANTS
    Runs,           \* bound: runs of the script
    MaxNonce,       \* bound: transactions of the deployer
    ChainIds,       \* the chains that forge may be pointed to
    ZeroAddress,
    Deployer,       \* the account of deployerKey
    None,           \* no account, no coin
    SepoliaTokens,  \* <<weth, wbtc>> and their feeds, in the code's constants
    SepoliaFeeds,
    MockToken(_, _),    \* the address of a mock made by a run
    MockFeed(_, _),
    FeedDecimals(_),    \* what a feed answers to decimals()
    OtherTokens,    \* bound: the arrays other accounts pass to the constructor
    OtherFeeds

MAX_DECIMALS == 18
SEPOLIA == 11155111
MOCKS == 4          \* the transactions of getAnvilConfig
DEPLOYMENTS == 3    \* the transactions of run: coin, engine, transferOwnership

ASSUME NonceAssumption == MaxNonce \in Nat

\* The address of what the deployer creates is a function of the nonce of the
\* transaction that creates it, and stood for by that nonce.
Addresses == 0 .. MaxNonce

\* Accounts are no contracts of the deployer.
ASSUME NamesAssumption == Deployer \notin Int /\ None \notin Int /\ Deployer # None

\* Both networks name two different tokens; their feeds can be evaluated.
PairOfTokens(tokens, feeds) ==
    /\ tokens = <<tokens[1], tokens[2]>> /\ tokens[1] # tokens[2]
    /\ feeds = <<feeds[1], feeds[2]>>
    /\ \A i \in 1 .. 2 : FeedDecimals(feeds[i]) \in 0 .. MAX_DECIMALS

ASSUME ConfigAssumption ==
    /\ PairOfTokens(SepoliaTokens, SepoliaFeeds)
    /\ \A r \in Runs : PairOfTokens(<<MockToken(r, 1), MockToken(r, 2)>>,
                                   <<MockFeed(r, 1), MockFeed(r, 2)>>)

VARIABLES
    chainid,    \* the chain
    nonce,      \* of the deployer's next transaction
    config,     \* per run, the network configuration of its HelperConfig
    coinNonce,  \* per run, the nonce fixed for the creation of its coin
    left,       \* per run, how many of its transactions are still to be sent
    aborted,    \* the runs that failed
    coinOwner,  \* per address, the owner of the coin there, None without one
    engine,     \* per address, [coin, list, feed] or NoEngine
    otherEngine \* an engine that another account constructed

chainVars == <<nonce, coinOwner, engine, otherEngine>>
vars == <<chainid, config, coinNonce, left, aborted, chainVars>>

NoEngine == [coin |-> None, list |-> <<>>, feed |-> <<>>]
NoConfig == [tokens |-> <<>>, feeds |-> <<>>]

-----------------------------------------------------------------------------
(* The constructor of RupeeCoinEngine                                         *)

Elements(s) == {s[i] : i \in DOMAIN s}

CanConstruct(tokens, feeds) ==
    /\ Len(tokens) = Len(feeds)
    /\ \A i \in DOMAIN tokens : tokens[i] # ZeroAddress /\ feeds[i] # ZeroAddress

\* s_collateralTokens: pushed in turn, whatever was pushed before.
Listed(tokens) == tokens

\* s_priceFeed: a later entry for the same token replaces an earlier one.
FeedOf(tokens, feeds) ==
    [t \in Elements(tokens) |->
        feeds[CHOOSE i \in DOMAIN tokens :
                  tokens[i] = t /\ \A j \in DOMAIN tokens : tokens[j] = t => j <= i]]

Constructed(coin, tokens, feeds) ==
    [coin |-> coin, list |-> Listed(tokens), feed |-> FeedOf(tokens, feeds)]

-----------------------------------------------------------------------------
(* A run of the script, in forge                                              *)

SepoliaConfig == [tokens |-> SepoliaTokens, feeds |-> SepoliaFeeds]

\* A fault: the first mock is taken for both tokens.
OneMockConfig(r) ==
    [tokens |-> <<MockToken(r, 1), MockToken(r, 1)>>, feeds |-> <<MockFeed(r, 1), MockFeed(r, 2)>>]

AnvilConfig(r) ==
    [tokens |-> <<MockToken(r, 1), MockToken(r, 2)>>, feeds |-> <<MockFeed(r, 1), MockFeed(r, 2)>>]

NetworkConfig(r) == IF chainid = SEPOLIA THEN SepoliaConfig ELSE AnvilConfig(r)

\* Up to the list of transactions. The mocks come first; they are sent by the
\* account of forge's command line, which may be the deployer or another.
\* Nothing is sent unless every transaction succeeds here.
Run(r) ==
    /\ config[r] = NoConfig
    /\ CanConstruct(NetworkConfig(r).tokens, NetworkConfig(r).feeds)
    /\ config' = [config EXCEPT ![r] = NetworkConfig(r)]
    /\ \E mocks \in IF chainid = SEPOLIA THEN {0} ELSE {0, MOCKS} :
          /\ coinNonce' = [coinNonce EXCEPT ![r] = nonce + mocks]
          /\ left' = [left EXCEPT ![r] = mocks + DEPLOYMENTS]
    /\ UNCHANGED <<chainid, aborted, chainVars>>

\* The nonce of the next transaction of a run, and the address of its engine.
NonceOf(r) == coinNonce[r] + DEPLOYMENTS - left[r]
EngineAddress(r) == coinNonce[r] + 1

\* A fault: a transaction is sent with whatever nonce is the next by now.
AnyNonce(r) == nonce >= NonceOf(r)

Accepted(r) == nonce = NonceOf(r)

NonceUsed == nonce < MaxNonce /\ nonce' = nonce + 1

-----------------------------------------------------------------------------
(* Its transactions, on the chain                                             *)

Send(r) ==
    /\ left[r] > 0 /\ Accepted(r) /\ NonceUsed
    /\ left' = [left EXCEPT ![r] = @ - 1]
    /\ UNCHANGED <<chainid, config, coinNonce, aborted, otherEngine>>

CreateMock(r) ==
    /\ left[r] > DEPLOYMENTS
    /\ Send(r)
    /\ UNCHANGED <<coinOwner, engine>>

CreateCoin(r) ==
    /\ left[r] = 3
    /\ coinOwner' = [coinOwner EXCEPT ![nonce] = Deployer]
    /\ Send(r)
    /\ UNCHANGED engine

\* The coin's address is an argument, as it was found in forge.
CreateEngine(r) ==
    /\ left[r] = 2
    /\ engine' = [engine EXCEPT ![nonce] = Constructed(coinNonce[r], config[r].tokens, config[r].feeds)]
    /\ Send(r)
    /\ UNCHANGED coinOwner

\* Sent to the address of the coin, with that of the engine, as found in forge.
TransferOwnership(r) ==
    /\ left[r] = 1
    /\ coinOwner[coinNonce[r]] = Deployer
    /\ coinOwner' = [coinOwner EXCEPT ![coinNonce[r]] = EngineAddress(r)]
    /\ Send(r)
    /\ UNCHANGED engine

\* A fault: a transaction that failed is passed over.
PassOver(r) == left' = [left EXCEPT ![r] = @ - 1] /\ UNCHANGED aborted

Stop(r) == left' = [left EXCEPT ![r] = 0] /\ aborted' = aborted \union {r}

\* At any time: the nonce is no longer the account's next, the node refuses or
\* does not answer, forge is interrupted; or the transaction is mined and
\* fails, for which it needs its nonce.
Fail(r) ==
    /\ left[r] > 0
    /\ Stop(r)
    /\ \/ UNCHANGED nonce
       \/ Accepted(r) /\ NonceUsed
    /\ UNCHANGED <<chainid, config, coinNonce, coinOwner, engine, otherEngine>>

\* The deployer's key signs something else.
UseKey ==
    /\ NonceUsed
    /\ UNCHANGED <<chainid, config, coinNonce, left, aborted, coinOwner, engine, otherEngine>>

\* Another account constructs an engine for a coin that exists.
ConstructOther ==
    /\ otherEngine = NoEngine
    /\ \E coin \in Addresses, tokens \in OtherTokens, feeds \in OtherFeeds :
          /\ coinOwner[coin] # None
          /\ CanConstruct(tokens, feeds)
          /\ otherEngine' = Constructed(coin, tokens, feeds)
    /\ UNCHANGED <<chainid, config, coinNonce, left, aborted, nonce, coinOwner, engine>>

Init ==
    /\ chainid \in ChainIds
    /\ nonce = 0
    /\ config = [r \in Runs |-> NoConfig]
    /\ coinNonce = [r \in Runs |-> 0]
    /\ left = [r \in Runs |-> 0]
    /\ aborted = {}
    /\ coinOwner = [a \in Addresses |-> None]
    /\ engine = [a \in Addresses |-> NoEngine]
    /\ otherEngine = NoEngine

Next ==
    \/ \E r \in Runs :
          \/ Run(r)
          \/ CreateMock(r) \/ CreateCoin(r) \/ CreateEngine(r) \/ TransferOwnership(r)
          \/ Fail(r)
    \/ UseKey
    \/ ConstructOther

\* Without fairness: a run may stop anywhere.
Spec == Init /\ [][Next]_vars

-----------------------------------------------------------------------------
(* Properties                                                                 *)

EnginesOfAll == {engine[a] : a \in Addresses} \union {otherEngine}

\* How often getTotalCollateralDepositedBy adds the value of a token.
TimesCounted(e, t) == Cardinality({i \in DOMAIN e.list : e.list[i] = t})

\* Type invariant.
DeploymentTypeOK ==
    /\ nonce \in 0 .. MaxNonce
    /\ left \in [Runs -> 0 .. MOCKS + DEPLOYMENTS]
    /\ aborted \subseteq Runs
    /\ \A a \in Addresses : coinOwner[a] \in Addresses \union {Deployer, None}
    /\ \A e \in EnginesOfAll : ZeroAddress \notin Elements(e.list) \union DOMAIN e.feed

\* In every engine, whatever the arguments of its constructor: the tokens that
\* may be deposited, those with a feed, are the tokens a valuation goes
\* through, so that no deposit is left out of it (lines 86-87).
DepositsAreCounted ==
    \A e \in EnginesOfAll : DOMAIN e.feed = Elements(e.list)

\* The engines of the script count each of their tokens once; the constructor
\* does not ensure it (line 87). And they are those of its configurations: two
\* tokens with feeds of at most MAX_DECIMALS decimals.
ScriptEnginesCountOnce ==
    \A a \in Addresses : engine[a] # NoEngine =>
        /\ Cardinality(DOMAIN engine[a].feed) = 2
        /\ \A t \in DOMAIN engine[a].feed :
              /\ TimesCounted(engine[a], t) = 1
              /\ FeedDecimals(engine[a].feed[t]) \in 0 .. MAX_DECIMALS

\* No deposit is left out of a valuation, in any engine, and none is counted
\* twice in those of the script.
EnginesCountTheirTokens ==
    DeploymentTypeOK /\ DepositsAreCounted /\ ScriptEnginesCountOnce

\* Wherever runs were cut short, and whatever else the key was used for in
\* between: a coin that has left the deployer belongs to an engine that exists
\* and was built for it. No coin is minted against the deposits of another
\* coin's engine, and none is lost to an address without one (line 26).
MinterIsItsEngine ==
    \A coin \in Addresses : coinOwner[coin] \notin {Deployer, None} =>
        engine[coinOwner[coin]].coin = coin

Completed(r) == config[r] # NoConfig /\ left[r] = 0 /\ r \notin aborted

\* What a run that was not cut short has returned, from its execution in
\* forge, is on the chain: at the address of its coin one that belongs to the
\* engine at the address of its engine, which has the tokens and feeds of its
\* configuration; and no other run has returned the same.
ReportedIsDeployed ==
    \A r \in Runs : Completed(r) =>
        /\ coinOwner[coinNonce[r]] = EngineAddress(r)
        /\ engine[EngineAddress(r)] = Constructed(coinNonce[r], config[r].tokens, config[r].feeds)
        /\ \A s \in Runs \ {r} : Completed(s) => coinNonce[s] # coinNonce[r]

\* What is deployed stays as it is: an engine's tokens, feeds and coin are
\* those of its constructor, and a coin changes hands once, from the deployer
\* to an engine that is already there for it.
DeploymentIsFinal ==
    [][/\ \A a \in Addresses : engine[a] # NoEngine => engine'[a] = engine[a]
       /\ \A a \in Addresses : coinOwner'[a] # coinOwner[a] =>
             \/ coinOwner[a] = None /\ coinOwner'[a] = Deployer
             \/ coinOwner[a] = Deployer /\ coinOwner'[a] = a + 1 /\ engine[a + 1].coin = a]_vars
=============================================================================
