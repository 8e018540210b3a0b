----------------------------- MODULE ScriptProofs -----------------------------
(* The scripts that work alone, each for whatever it is given: deployments     *)
(* and their arguments, projects of any files and imports, gas reports of any  *)
(* numbers, builds of any contracts.                                           *)
EXTENDS Deployment, MigrateImports, GasReport, InheritanceOrdering,
        ArithmeticLemmas, SequenceTheorems, FiniteSetTheorems, TLAPS

-----------------------------------------------------------------------------
(* The deployment. Wherever runs stop, coins end up with nobody but their own  *)
(* engine, and every token that may be deposited is counted.                   *)

Configs(r) == {SepoliaConfig, AnvilConfig(r)}

\* An engine that transactions of a run make, from either configuration.
ScriptEngine(e) ==
    \E r \in Runs : \E found \in Configs(r) :
        /\ CanConstruct(found.tokens, found.feeds)
        /\ e = Constructed(e.coin, found.tokens, found.feeds)

OtherEngine(e) ==
    \E coin, tokens, feeds : CanConstruct(tokens, feeds) /\ e = Constructed(coin, tokens, feeds)

DeployTypes ==
    /\ nonce \in 0 .. MaxNonce
    /\ left \in [Runs -> 0 .. 7]
    /\ coinNonce \in [Runs -> Nat]
    /\ aborted \subseteq Runs
    /\ DOMAIN config = Runs /\ config = [r \in Runs |-> config[r]]
    /\ coinOwner \in [Addresses -> Addresses \union {Deployer, None}]
    /\ DOMAIN engine = Addresses /\ engine = [a \in Addresses |-> engine[a]]

Begun(r) == config[r] # NoConfig /\ r \notin aborted

\* What a run has sent is where forge found that it would be: what tells where
\* is the number of its transactions that are left.
RunOK(r) ==
    /\ config[r] = NoConfig => r \notin aborted
    /\ config[r] = NoConfig \/ r \in aborted => left[r] = 0
    /\ config[r] # NoConfig => config[r] \in Configs(r) /\ CanConstruct(config[r].tokens, config[r].feeds)
    /\ Begun(r) /\ left[r] <= 2 =>
          /\ coinNonce[r] < nonce
          /\ coinOwner[coinNonce[r]] = IF left[r] = 0 THEN EngineAddress(r) ELSE Deployer
    /\ Begun(r) /\ left[r] <= 1 =>
          /\ EngineAddress(r) < nonce
          /\ engine[EngineAddress(r)] = Constructed(coinNonce[r], config[r].tokens, config[r].feeds)

\* A nonce is used once, so no two runs have sent the creation of one coin.
CoinsApart ==
    \A r, s \in Runs : Begun(r) /\ left[r] <= 2 /\ Begun(s) /\ left[s] <= 2 /\ r # s =>
        coinNonce[r] # coinNonce[s]

\* Nothing is where no transaction has created anything yet, and whatever has
\* become of the run that created it, a coin has its own engine or the deployer.
AddressOK(a) ==
    /\ coinOwner[a] \in {None, Deployer, a + 1}
    /\ a >= nonce => coinOwner[a] = None /\ engine[a] = NoEngine
    /\ coinOwner[a] = a + 1 => engine[a + 1].coin = a /\ a + 1 \in Addresses
    /\ engine[a] = NoEngine \/ ScriptEngine(engine[a])

IInv ==
    /\ DeployTypes
    /\ \A r \in Runs : RunOK(r)
    /\ CoinsApart
    /\ \A a \in Addresses : AddressOK(a)
    /\ otherEngine = NoEngine \/ OtherEngine(otherEngine)

-----------------------------------------------------------------------------
LEMMA ConfigsAreReal ==
    ASSUME NEW r \in Runs, NEW found \in Configs(r)
    PROVE  found # NoConfig /\ PairOfTokens(found.tokens, found.feeds)
<1>1. PairOfTokens(found.tokens, found.feeds)
  BY ConfigAssumption DEF Configs, SepoliaConfig, AnvilConfig
<1>2. NoConfig.tokens = <<>>
  BY DEF NoConfig
<1>3. found.tokens # <<>>
  <2>1. found.tokens = <<found.tokens[1], found.tokens[2]>>
    BY <1>1 DEF PairOfTokens
  <2>2. <<found.tokens[1], found.tokens[2]>> # <<>>
    OBVIOUS
  <2> QED
    BY <2>1, <2>2
<1> QED
  BY <1>1, <1>2, <1>3

LEMMA NewEngine ==
    ASSUME NEW coin, NEW tokens, NEW feeds
    PROVE  Constructed(coin, tokens, feeds).coin = coin /\ Constructed(coin, tokens, feeds).list = tokens
BY DEF Constructed, Listed

LEMMA NamesApart ==
    /\ Deployer # None
    /\ \A a \in Int : a # Deployer /\ a # None
BY NamesAssumption

LEMMA NoEngineHasNone == NoEngine.coin = None
BY DEF NoEngine

LEMMA InitIInv == Init => IInv
<1> SUFFICES ASSUME Init PROVE IInv
  OBVIOUS
<1>1. DeployTypes
  <2>1. 0 \in 0 .. MaxNonce /\ 0 \in 0 .. 7 /\ 0 \in Nat
    BY NonceAssumption
  <2> QED
    BY <2>1 DEF Init, DeployTypes
<1>2. ASSUME NEW r \in Runs PROVE RunOK(r) /\ ~Begun(r)
  BY DEF Init, RunOK, Begun
<1>3. ASSUME NEW a \in Addresses PROVE AddressOK(a)
  <2>1. coinOwner[a] = None /\ engine[a] = NoEngine
    BY DEF Init
  <2>2. None # a + 1
    BY NamesApart DEF Addresses
  <2> QED
    BY <2>1, <2>2 DEF AddressOK
<1>4. CoinsApart
  BY <1>2 DEF CoinsApart
<1>5. otherEngine = NoEngine
  BY DEF Init
<1> QED
  BY <1>1, <1>2, <1>3, <1>4, <1>5 DEF IInv

\* What steps of others leave of a run: nonces are used up, and where the run
\* has created something it stays.
LEMMA RunKept ==
    ASSUME NEW r \in Runs, IInv, DeployTypes',
           config'[r] = config[r], coinNonce'[r] = coinNonce[r], left'[r] = left[r],
           r \in aborted' <=> r \in aborted, nonce' >= nonce,
           Begun(r) /\ left[r] <= 2 => coinOwner'[coinNonce[r]] = coinOwner[coinNonce[r]],
           Begun(r) /\ left[r] <= 1 => engine'[EngineAddress(r)] = engine[EngineAddress(r)]
    PROVE  RunOK(r)'
<1>1. RunOK(r) /\ (Begun(r)' <=> Begun(r)) /\ EngineAddress(r)' = EngineAddress(r)
  BY DEF IInv, Begun, EngineAddress
<1>2. /\ left[r] \in 0 .. 7 /\ coinNonce[r] \in Nat /\ EngineAddress(r) \in Int
      /\ nonce \in Int /\ nonce' \in Int
  BY NonceAssumption DEF IInv, DeployTypes, EngineAddress
<1>3. /\ config'[r] = NoConfig => r \notin aborted'
      /\ config'[r] = NoConfig \/ r \in aborted' => left'[r] = 0
      /\ config'[r] # NoConfig => /\ config'[r] \in Configs(r)
                                  /\ CanConstruct(config'[r].tokens, config'[r].feeds)
  BY <1>1 DEF RunOK
<1>4. Begun(r)' /\ left'[r] <= 2 =>
        /\ coinNonce'[r] < nonce'
        /\ coinOwner'[coinNonce'[r]] = IF left'[r] = 0 THEN EngineAddress(r)' ELSE Deployer
  BY <1>1, <1>2 DEF RunOK
<1>5. Begun(r)' /\ left'[r] <= 1 =>
        /\ EngineAddress(r)' < nonce'
        /\ engine'[EngineAddress(r)'] = Constructed(coinNonce'[r], config'[r].tokens, config'[r].feeds)
  BY <1>1, <1>2 DEF RunOK
<1> QED
  BY <1>3, <1>4, <1>5 DEF RunOK, Configs, SepoliaConfig, AnvilConfig

\* A transaction of a run is sent.
LEMMA SendShape ==
    ASSUME IInv, NEW r \in Runs, Send(r)
    PROVE  /\ nonce \in Addresses /\ nonce + 1 \in Addresses /\ nonce' = nonce + 1
           /\ nonce = coinNonce[r] + 3 - left[r]
           /\ left[r] \in 1 .. 7 /\ left'[r] = left[r] - 1
           /\ left' \in [Runs -> 0 .. 7]
           /\ \A s \in Runs \ {r} : left'[s] = left[s]
           /\ config' = config /\ coinNonce' = coinNonce /\ aborted' = aborted
           /\ otherEngine' = otherEngine
<1>1. left[r] \in 0 .. 7 /\ left[r] > 0 /\ left \in [Runs -> 0 .. 7]
  BY DEF Send, IInv, DeployTypes
<1>2. left' = [left EXCEPT ![r] = @ - 1]
  BY DEF Send
<1>3. /\ left'[r] = left[r] - 1 /\ left' \in [Runs -> 0 .. 7]
      /\ \A s \in Runs \ {r} : left'[s] = left[s]
  BY <1>1, <1>2
<1>4. nonce \in 0 .. MaxNonce /\ nonce < MaxNonce /\ nonce' = nonce + 1
  BY DEF Send, NonceUsed, IInv, DeployTypes
<1>5. nonce = coinNonce[r] + 3 - left[r]
  BY DEF Send, Accepted, NonceOf, DEPLOYMENTS
<1> QED
  BY <1>1, <1>3, <1>4, <1>5, NonceAssumption DEF Send, Addresses

\* Runs that are past the creation of their coins stay apart unless another
\* one gets there.
LEMMA ApartKept ==
    ASSUME IInv,
           \A r \in Runs : Begun(r)' /\ left'[r] <= 2 =>
               Begun(r) /\ left[r] <= 2 /\ coinNonce'[r] = coinNonce[r]
    PROVE  CoinsApart'
<1> SUFFICES ASSUME NEW r \in Runs, NEW s \in Runs, r # s, Begun(r)', left'[r] <= 2, Begun(s)', left'[s] <= 2
             PROVE  coinNonce'[r] # coinNonce'[s]
  BY DEF CoinsApart
<1>1. /\ Begun(r) /\ left[r] <= 2 /\ coinNonce'[r] = coinNonce[r]
      /\ Begun(s) /\ left[s] <= 2 /\ coinNonce'[s] = coinNonce[s]
  OBVIOUS
<1> QED
  BY <1>1 DEF IInv, CoinsApart

\* Addresses, when nothing is created.
LEMMA AddressKept ==
    ASSUME IInv, NEW a \in Addresses, nonce' >= nonce, nonce' \in Int,
           coinOwner' = coinOwner, engine' = engine
    PROVE  AddressOK(a)'
<1>1. AddressOK(a) /\ nonce \in Int /\ a \in Int
  BY NonceAssumption DEF IInv, DeployTypes, Addresses
<1>2. a >= nonce' => a >= nonce
  BY <1>1
<1> QED
  BY <1>1, <1>2 DEF AddressOK, ScriptEngine, Configs, SepoliaConfig, AnvilConfig

LEMMA RunInv == ASSUME IInv, NEW r \in Runs, Run(r) PROVE IInv'
<1>1. /\ config[r] = NoConfig /\ UNCHANGED <<aborted, nonce, coinOwner, engine, otherEngine>>
      /\ CanConstruct(NetworkConfig(r).tokens, NetworkConfig(r).feeds)
      /\ config' = [config EXCEPT ![r] = NetworkConfig(r)]
  BY DEF Run, chainVars
<1>2. PICK mocks \in {0, 4} : /\ coinNonce' = [coinNonce EXCEPT ![r] = nonce + mocks]
                              /\ left' = [left EXCEPT ![r] = mocks + 3]
  BY DEF Run, MOCKS, DEPLOYMENTS
<1>3. NetworkConfig(r) \in Configs(r)
  BY DEF NetworkConfig, Configs
<1>4. DeployTypes
  BY DEF IInv
<1>5. DeployTypes'
  <2>1. mocks + 3 \in 0 .. 7 /\ nonce + mocks \in Nat
    BY <1>4, NonceAssumption DEF DeployTypes
  <2>2. left' \in [Runs -> 0 .. 7] /\ coinNonce' \in [Runs -> Nat]
    BY <1>2, <1>4, <2>1 DEF DeployTypes
  <2>3. DOMAIN config' = Runs /\ config' = [s \in Runs |-> config'[s]]
    BY <1>1, <1>4 DEF DeployTypes
  <2> QED
    BY <1>1, <1>4, <2>2, <2>3 DEF DeployTypes
<1>6. /\ config'[r] = NetworkConfig(r) /\ left'[r] \in {3, 7}
      /\ \A s \in Runs \ {r} : config'[s] = config[s] /\ left'[s] = left[s] /\ coinNonce'[s] = coinNonce[s]
  BY <1>1, <1>2, <1>4 DEF DeployTypes
<1>7. nonce' = nonce /\ nonce \in Int /\ nonce' >= nonce
  BY <1>1, <1>4, NonceAssumption DEF DeployTypes
<1>8. ASSUME NEW s \in Runs PROVE RunOK(s)'
  <2>1. CASE s # r
    BY <1>1, <1>5, <1>6, <1>7, <2>1, RunKept
  <2>2. CASE s = r
    <3>1. config'[r] \in Configs(r) /\ config'[r] # NoConfig
      BY <1>3, <1>6, ConfigsAreReal
    <3>2. CanConstruct(config'[r].tokens, config'[r].feeds)
      BY <1>1, <1>6
    <3>3. ~(left'[r] <= 2) /\ ~(left'[r] <= 1)
      BY <1>6
    <3>4. r \notin aborted'
      BY <1>1 DEF IInv, RunOK
    <3> QED
      BY <2>2, <3>1, <3>2, <3>3, <3>4 DEF RunOK, Configs, SepoliaConfig, AnvilConfig
  <2> QED
    BY <2>1, <2>2
<1>9. CoinsApart'
  <2>1. ASSUME NEW s \in Runs, Begun(s)', left'[s] <= 2
        PROVE  Begun(s) /\ left[s] <= 2 /\ coinNonce'[s] = coinNonce[s]
    <3>1. s # r
      BY <1>6, <2>1
    <3> QED
      BY <1>1, <1>6, <2>1, <3>1 DEF Begun
  <2> QED
    BY <2>1, ApartKept
<1>10. \A a \in Addresses : AddressOK(a)'
  BY <1>1, <1>7, AddressKept
<1> QED
  BY <1>1, <1>5, <1>8, <1>9, <1>10 DEF IInv, OtherEngine

LEMMA CreateMockInv == ASSUME IInv, NEW r \in Runs, CreateMock(r) PROVE IInv'
<1>1. left[r] > 3 /\ coinOwner' = coinOwner /\ engine' = engine
  BY DEF CreateMock, DEPLOYMENTS
<1>2. /\ nonce \in Addresses /\ nonce + 1 \in Addresses /\ nonce' = nonce + 1
      /\ left[r] \in 1 .. 7 /\ left'[r] = left[r] - 1 /\ left' \in [Runs -> 0 .. 7]
      /\ \A s \in Runs \ {r} : left'[s] = left[s]
      /\ config' = config /\ coinNonce' = coinNonce /\ aborted' = aborted
      /\ otherEngine' = otherEngine
  BY SendShape DEF CreateMock
<1>3. nonce' >= nonce /\ nonce' \in Int /\ nonce \in Int
  BY <1>2, NonceAssumption DEF Addresses
<1>4. DeployTypes'
  BY <1>1, <1>2 DEF IInv, DeployTypes, Addresses
<1>5. ~(left'[r] <= 2) /\ ~(left'[r] <= 1) /\ left[r] # 0
  BY <1>1, <1>2
<1>6. ASSUME NEW s \in Runs PROVE RunOK(s)'
  <2>1. CASE s # r
    BY <1>1, <1>2, <1>3, <1>4, <2>1, RunKept
  <2>2. CASE s = r
    <3>1. RunOK(r)
      BY DEF IInv
    <3>2. config[r] # NoConfig /\ r \notin aborted
      BY <1>5, <3>1 DEF RunOK
    <3>3. config'[r] = config[r] /\ r \notin aborted'
      BY <1>2, <3>2
    <3>4. config'[r] \in Configs(r) /\ CanConstruct(config'[r].tokens, config'[r].feeds)
      BY <3>1, <3>2, <3>3 DEF RunOK
    <3> QED
      BY <1>5, <2>2, <3>2, <3>3, <3>4 DEF RunOK, Configs, SepoliaConfig, AnvilConfig
  <2> QED
    BY <2>1, <2>2
<1>7. CoinsApart'
  <2>1. ASSUME NEW s \in Runs, Begun(s)', left'[s] <= 2
        PROVE  Begun(s) /\ left[s] <= 2 /\ coinNonce'[s] = coinNonce[s]
    BY <1>2, <1>5, <2>1 DEF Begun
  <2> QED
    BY <2>1, ApartKept
<1>8. \A a \in Addresses : AddressOK(a)'
  BY <1>1, <1>3, AddressKept
<1> QED
  BY <1>2, <1>4, <1>6, <1>7, <1>8 DEF IInv, OtherEngine

LEMMA CreateCoinInv == ASSUME IInv, NEW r \in Runs, CreateCoin(r) PROVE IInv'
<1>1. left[r] = 3 /\ coinOwner' = [coinOwner EXCEPT ![nonce] = Deployer] /\ engine' = engine
  BY DEF CreateCoin
<1>2. /\ nonce \in Addresses /\ nonce + 1 \in Addresses /\ nonce' = nonce + 1
      /\ nonce = coinNonce[r] + 3 - left[r]
      /\ left'[r] = left[r] - 1 /\ left' \in [Runs -> 0 .. 7]
      /\ \A s \in Runs \ {r} : left'[s] = left[s]
      /\ config' = config /\ coinNonce' = coinNonce /\ aborted' = aborted
      /\ otherEngine' = otherEngine
  BY SendShape DEF CreateCoin
<1>3. nonce' >= nonce /\ nonce' \in Int /\ nonce \in Int
  BY <1>2, NonceAssumption DEF Addresses
<1>4. DeployTypes
  BY DEF IInv
<1>5. coinNonce[r] = nonce /\ left'[r] = 2
  BY <1>1, <1>2, <1>3, <1>4 DEF DeployTypes
<1>6. /\ coinOwner'[nonce] = Deployer
      /\ \A a \in Addresses \ {nonce} : coinOwner'[a] = coinOwner[a]
      /\ coinOwner' \in [Addresses -> Addresses \union {Deployer, None}]
  BY <1>1, <1>2, <1>4 DEF DeployTypes
<1>7. DeployTypes'
  BY <1>1, <1>2, <1>4, <1>6 DEF DeployTypes, Addresses
<1>8. ASSUME NEW s \in Runs, Begun(s), left[s] <= 2
      PROVE  coinNonce[s] \in Addresses \ {nonce}
  <2>1. coinNonce[s] < nonce /\ coinNonce[s] \in Nat
    BY <1>4, <1>8 DEF IInv, RunOK, DeployTypes
  <2> QED
    BY <1>2, <2>1, NonceAssumption DEF Addresses
<1>9. ASSUME NEW s \in Runs PROVE RunOK(s)'
  <2>1. CASE s # r
    BY <1>1, <1>2, <1>3, <1>6, <1>7, <1>8, <2>1, RunKept
  <2>2. CASE s = r
    <3>1. RunOK(r)
      BY DEF IInv
    <3>2. coinNonce'[r] < nonce' /\ coinOwner'[coinNonce'[r]] = Deployer
      BY <1>2, <1>3, <1>5, <1>6
    <3>3. ~(left'[r] <= 1) /\ left'[r] # 0 /\ config[r] # NoConfig /\ r \notin aborted
      BY <1>1, <1>5, <3>1 DEF RunOK
    <3>4. config'[r] = config[r] /\ aborted' = aborted
      BY <1>2
    <3> QED
      BY <2>2, <3>1, <3>2, <3>3, <3>4 DEF RunOK, Configs, SepoliaConfig, AnvilConfig
  <2> QED
    BY <2>1, <2>2
<1>10. CoinsApart'
  <2> SUFFICES ASSUME NEW p \in Runs, NEW q \in Runs, p # q, Begun(p)', left'[p] <= 2, Begun(q)', left'[q] <= 2
               PROVE  coinNonce'[p] # coinNonce'[q]
    BY DEF CoinsApart
  <2>1. ASSUME NEW s \in Runs, Begun(s)', left'[s] <= 2, s # r
        PROVE  Begun(s) /\ left[s] <= 2 /\ coinNonce[s] # nonce
    <3>1. Begun(s) /\ left[s] <= 2
      BY <1>2, <2>1 DEF Begun
    <3> QED
      BY <1>8, <3>1
  <2>2. CASE p # r /\ q # r
    <3>1. Begun(p) /\ left[p] <= 2 /\ Begun(q) /\ left[q] <= 2
      BY <2>1, <2>2
    <3> QED
      BY <1>2, <3>1 DEF IInv, CoinsApart
  <2>3. CASE p = r
    BY <1>2, <1>5, <2>1, <2>3
  <2>4. CASE q = r
    BY <1>2, <1>5, <2>1, <2>4
  <2> QED
    BY <2>2, <2>3, <2>4
<1>11. ASSUME NEW a \in Addresses PROVE AddressOK(a)'
  <2>1. AddressOK(a) /\ a \in Int
    BY DEF IInv, Addresses
  <2>2. CASE a = nonce
    <3>1. coinOwner'[a] = Deployer /\ ~(a >= nonce')
      BY <1>2, <1>3, <1>6, <2>2
    <3>2. Deployer # a + 1
      BY <2>1, NamesApart
    <3> QED
      BY <1>1, <2>1, <3>1, <3>2 DEF AddressOK, ScriptEngine, Configs, SepoliaConfig, AnvilConfig
  <2>3. CASE a # nonce
    <3>1. coinOwner'[a] = coinOwner[a] /\ (a >= nonce' => a >= nonce)
      BY <1>2, <1>3, <1>6, <2>1, <2>3
    <3> QED
      BY <1>1, <2>1, <3>1 DEF AddressOK, ScriptEngine, Configs, SepoliaConfig, AnvilConfig
  <2> QED
    BY <2>2, <2>3
<1> QED
  BY <1>2, <1>7, <1>9, <1>10, <1>11 DEF IInv, OtherEngine

LEMMA CreateEngineInv == ASSUME IInv, NEW r \in Runs, CreateEngine(r) PROVE IInv'
<1> DEFINE new == Constructed(coinNonce[r], config[r].tokens, config[r].feeds)
<1>1. left[r] = 2 /\ engine' = [engine EXCEPT ![nonce] = new] /\ coinOwner' = coinOwner
  BY DEF CreateEngine
<1>2. /\ nonce \in Addresses /\ nonce + 1 \in Addresses /\ nonce' = nonce + 1
      /\ nonce = coinNonce[r] + 3 - left[r]
      /\ left'[r] = left[r] - 1 /\ left' \in [Runs -> 0 .. 7]
      /\ \A s \in Runs \ {r} : left'[s] = left[s]
      /\ config' = config /\ coinNonce' = coinNonce /\ aborted' = aborted
      /\ otherEngine' = otherEngine
  BY SendShape DEF CreateEngine
<1>3. nonce' >= nonce /\ nonce' \in Int /\ nonce \in Int
  BY <1>2, NonceAssumption DEF Addresses
<1>4. DeployTypes /\ RunOK(r)
  BY DEF IInv
<1>5. EngineAddress(r) = nonce /\ left'[r] = 1 /\ coinNonce[r] \in Int
  BY <1>1, <1>2, <1>3, <1>4 DEF DeployTypes, EngineAddress
<1>6. new.coin = coinNonce[r] /\ ScriptEngine(new)
  <2>1. config[r] \in Configs(r) /\ CanConstruct(config[r].tokens, config[r].feeds)
    BY <1>1, <1>4 DEF RunOK
  <2>2. new.coin = coinNonce[r]
    BY NewEngine
  <2> QED
    BY <2>1, <2>2 DEF ScriptEngine
<1> HIDE DEF new
<1>7. /\ engine'[nonce] = new
      /\ \A a \in Addresses \ {nonce} : engine'[a] = engine[a]
      /\ DOMAIN engine' = Addresses /\ engine' = [a \in Addresses |-> engine'[a]]
  BY <1>1, <1>2, <1>4 DEF DeployTypes
<1>8. DeployTypes'
  BY <1>1, <1>2, <1>4, <1>7 DEF DeployTypes, Addresses
<1>9. ASSUME NEW s \in Runs, Begun(s), left[s] <= 1
      PROVE  EngineAddress(s) \in Addresses \ {nonce}
  <2>1. EngineAddress(s) < nonce /\ EngineAddress(s) \in Nat
    BY <1>4, <1>9 DEF IInv, RunOK, DeployTypes, EngineAddress
  <2> QED
    BY <1>2, <2>1, NonceAssumption DEF Addresses
<1>10. ASSUME NEW s \in Runs PROVE RunOK(s)'
  <2>1. CASE s # r
    BY <1>1, <1>2, <1>3, <1>7, <1>8, <1>9, <2>1, RunKept
  <2>2. CASE s = r
    <3>1. /\ config'[r] = config[r] /\ coinNonce'[r] = coinNonce[r] /\ aborted' = aborted
          /\ EngineAddress(r)' = nonce /\ nonce < nonce'
          /\ config[r] # NoConfig /\ r \notin aborted
      <4>1. EngineAddress(r)' = EngineAddress(r)
        BY <1>2 DEF EngineAddress
      <4> QED
        BY <1>1, <1>2, <1>3, <1>4, <1>5, <4>1 DEF RunOK
    <3>2. engine'[nonce] = Constructed(coinNonce[r], config[r].tokens, config[r].feeds)
      BY <1>7 DEF new
    <3>3. Begun(r)' => coinNonce'[r] < nonce' /\ coinOwner'[coinNonce'[r]] = Deployer
      <4>1. Begun(r)' => Begun(r)
        BY <3>1 DEF Begun
      <4>2. coinNonce'[r] < nonce'
        BY <1>3, <1>5, <3>1 DEF EngineAddress
      <4>3. Begun(r) => coinOwner[coinNonce[r]] = Deployer
        BY <1>1, <1>4 DEF RunOK
      <4> QED
        BY <1>1, <3>1, <4>1, <4>2, <4>3
    <3>4. config'[r] \in Configs(r) /\ CanConstruct(config'[r].tokens, config'[r].feeds)
      BY <1>4, <3>1 DEF RunOK
    <3>5. /\ Begun(r)' /\ left'[r] <= 2 =>
               /\ coinNonce'[r] < nonce'
               /\ coinOwner'[coinNonce'[r]] = IF left'[r] = 0 THEN EngineAddress(r)' ELSE Deployer
          /\ EngineAddress(r)' < nonce'
          /\ engine'[EngineAddress(r)'] = Constructed(coinNonce'[r], config'[r].tokens, config'[r].feeds)
      BY <1>5, <3>1, <3>2, <3>3
    <3> QED
      BY <2>2, <3>1, <3>4, <3>5 DEF RunOK, Configs, SepoliaConfig, AnvilConfig
  <2> QED
    BY <2>1, <2>2
<1>11. CoinsApart'
  <2>1. ASSUME NEW s \in Runs, Begun(s)', left'[s] <= 2
        PROVE  Begun(s) /\ left[s] <= 2 /\ coinNonce'[s] = coinNonce[s]
    BY <1>1, <1>2, <2>1 DEF Begun
  <2> QED
    BY <2>1, ApartKept
<1>12. ASSUME NEW a \in Addresses PROVE AddressOK(a)'
  <2>1. AddressOK(a) /\ a \in Int /\ coinOwner'[a] = coinOwner[a] /\ AddressOK(nonce)
    BY <1>1, <1>2 DEF IInv, Addresses
  <2>2. engine[nonce] = NoEngine
    BY <1>3, <2>1 DEF AddressOK
  <2>3. coinOwner[a] = a + 1 => engine'[a + 1].coin = a /\ a + 1 \in Addresses
    <3>1. ASSUME coinOwner[a] = a + 1 PROVE engine[a + 1].coin = a /\ a + 1 \in Addresses
      BY <2>1, <3>1 DEF AddressOK
    <3>2. ASSUME coinOwner[a] = a + 1 PROVE a + 1 # nonce
      BY <2>1, <2>2, <3>1, <3>2, NamesApart, NoEngineHasNone
    <3> QED
      BY <1>7, <3>1, <3>2
  <2>4. a >= nonce' => coinOwner'[a] = None /\ engine'[a] = NoEngine
    BY <1>2, <1>3, <1>7, <2>1 DEF AddressOK
  <2>5. engine'[a] = NoEngine \/ ScriptEngine(engine'[a])
    BY <1>6, <1>7, <2>1 DEF AddressOK
  <2> QED
    BY <2>1, <2>3, <2>4, <2>5 DEF AddressOK, ScriptEngine, Configs, SepoliaConfig, AnvilConfig
<1> QED
  BY <1>2, <1>8, <1>10, <1>11, <1>12 DEF IInv, OtherEngine

LEMMA TransferOwnershipInv == ASSUME IInv, NEW r \in Runs, TransferOwnership(r) PROVE IInv'
<1> DEFINE coin == coinNonce[r]
<1>1. /\ left[r] = 1 /\ engine' = engine /\ coinOwner[coin] = Deployer
      /\ coinOwner' = [coinOwner EXCEPT ![coin] = EngineAddress(r)]
  BY DEF TransferOwnership
<1>2. /\ nonce \in Addresses /\ nonce + 1 \in Addresses /\ nonce' = nonce + 1
      /\ left'[r] = left[r] - 1 /\ left' \in [Runs -> 0 .. 7]
      /\ \A s \in Runs \ {r} : left'[s] = left[s]
      /\ config' = config /\ coinNonce' = coinNonce /\ aborted' = aborted
      /\ otherEngine' = otherEngine
  BY SendShape DEF TransferOwnership
<1>3. nonce' >= nonce /\ nonce' \in Int /\ nonce \in Int
  BY <1>2, NonceAssumption DEF Addresses
<1>4. DeployTypes /\ RunOK(r)
  BY DEF IInv
<1>5. Begun(r)
  BY <1>1, <1>4 DEF RunOK, Begun
<1>6. /\ coin \in Nat /\ EngineAddress(r) = coin + 1 /\ EngineAddress(r) < nonce
      /\ engine[coin + 1] = Constructed(coin, config[r].tokens, config[r].feeds)
  BY <1>1, <1>4, <1>5 DEF RunOK, DeployTypes, EngineAddress
<1>7. coin \in Addresses /\ coin + 1 \in Addresses /\ coin \in Int
  BY <1>2, <1>3, <1>6, NonceAssumption DEF Addresses
<1>8. engine[coin + 1].coin = coin
  BY <1>6, NewEngine
<1> HIDE DEF coin
<1>9. /\ coinOwner'[coin] = coin + 1
      /\ \A a \in Addresses \ {coin} : coinOwner'[a] = coinOwner[a]
      /\ coinOwner' \in [Addresses -> Addresses \union {Deployer, None}]
  BY <1>1, <1>4, <1>6, <1>7 DEF DeployTypes
<1>10. DeployTypes'
  BY <1>1, <1>2, <1>4, <1>9 DEF DeployTypes, Addresses
<1>11. ASSUME NEW s \in Runs, Begun(s), left[s] <= 2, s # r
       PROVE  coinNonce[s] \in Addresses \ {coin}
  <2>1. coinNonce[s] < nonce /\ coinNonce[s] \in Nat
    BY <1>4, <1>11 DEF IInv, RunOK, DeployTypes
  <2>2. coinNonce[s] # coin
    BY <1>1, <1>5, <1>11 DEF IInv, CoinsApart, coin
  <2> QED
    BY <1>2, <1>3, <2>1, <2>2, NonceAssumption DEF Addresses
<1>12. left'[r] = 0
  BY <1>1, <1>2
<1>13. ASSUME NEW s \in Runs PROVE RunOK(s)'
  <2>1. CASE s # r
    BY <1>1, <1>2, <1>3, <1>9, <1>10, <1>11, <2>1, RunKept
  <2>2. CASE s = r
    <3>1. /\ config'[r] = config[r] /\ coinNonce'[r] = coin /\ aborted' = aborted
          /\ config[r] # NoConfig /\ r \notin aborted
      BY <1>2, <1>5 DEF Begun, coin
    <3>2. EngineAddress(r)' = coin + 1 /\ EngineAddress(r)' < nonce' /\ coin < nonce'
      <4>1. EngineAddress(r)' = EngineAddress(r)
        BY <1>2 DEF EngineAddress
      <4> QED
        BY <1>2, <1>3, <1>6, <1>7, <4>1
    <3>3. engine'[coin + 1] = Constructed(coin, config[r].tokens, config[r].feeds)
      BY <1>1, <1>6
    <3>4. config'[r] \in Configs(r) /\ CanConstruct(config'[r].tokens, config'[r].feeds)
      BY <1>4, <3>1 DEF RunOK
    <3>5. /\ coinNonce'[r] < nonce'
          /\ coinOwner'[coinNonce'[r]] = IF left'[r] = 0 THEN EngineAddress(r)' ELSE Deployer
          /\ EngineAddress(r)' < nonce'
          /\ engine'[EngineAddress(r)'] = Constructed(coinNonce'[r], config'[r].tokens, config'[r].feeds)
      BY <1>9, <1>12, <3>1, <3>2, <3>3
    <3> QED
      BY <1>12, <2>2, <3>1, <3>4, <3>5 DEF RunOK, Configs, SepoliaConfig, AnvilConfig
  <2> QED
    BY <2>1, <2>2
<1>14. CoinsApart'
  <2>1. ASSUME NEW s \in Runs, Begun(s)', left'[s] <= 2
        PROVE  Begun(s) /\ left[s] <= 2 /\ coinNonce'[s] = coinNonce[s]
    BY <1>1, <1>2, <2>1 DEF Begun
  <2> QED
    BY <2>1, ApartKept
<1>15. ASSUME NEW a \in Addresses PROVE AddressOK(a)'
  <2>1. AddressOK(a) /\ a \in Int
    BY DEF IInv, Addresses
  <2>2. a >= nonce' => a >= nonce
    BY <1>2, <1>3, <2>1
  <2>3. CASE a = coin
    <3>1. ~(a >= nonce')
      BY <1>2, <1>3, <1>6, <1>7, <2>3
    <3> QED
      BY <1>1, <1>7, <1>8, <1>9, <2>1, <2>3, <3>1 DEF AddressOK, ScriptEngine, Configs, SepoliaConfig, AnvilConfig
  <2>4. CASE a # coin
    <3>1. coinOwner'[a] = coinOwner[a]
      BY <1>9, <2>4
    <3> QED
      BY <1>1, <2>1, <2>2, <3>1 DEF AddressOK, ScriptEngine, Configs, SepoliaConfig, AnvilConfig
  <2> QED
    BY <2>3, <2>4
<1> QED
  BY <1>2, <1>10, <1>13, <1>14, <1>15 DEF IInv, OtherEngine

LEMMA FailInv == ASSUME IInv, NEW r \in Runs, Fail(r) PROVE IInv'
<1>1. /\ left[r] > 0 /\ left' = [left EXCEPT ![r] = 0] /\ aborted' = aborted \union {r}
      /\ config' = config /\ coinNonce' = coinNonce /\ coinOwner' = coinOwner
      /\ engine' = engine /\ otherEngine' = otherEngine
  BY DEF Fail, Stop
<1>2. nonce' \in 0 .. MaxNonce /\ nonce' >= nonce /\ nonce' \in Int
  BY NonceAssumption DEF Fail, NonceUsed, IInv, DeployTypes
<1>3. /\ left'[r] = 0 /\ r \in aborted' /\ left' \in [Runs -> 0 .. 7]
      /\ \A s \in Runs \ {r} : left'[s] = left[s] /\ (s \in aborted' <=> s \in aborted)
  BY <1>1 DEF IInv, DeployTypes
<1>4. DeployTypes'
  BY <1>1, <1>2, <1>3 DEF IInv, DeployTypes
<1>5. ASSUME NEW s \in Runs PROVE RunOK(s)'
  <2>1. CASE s # r
    BY <1>1, <1>2, <1>3, <1>4, <2>1, RunKept
  <2>2. CASE s = r
    <3>1. RunOK(r) /\ left[r] # 0 /\ ~Begun(r)'
      BY <1>1, <1>3 DEF IInv, Begun
    <3> QED
      BY <1>1, <1>3, <2>2, <3>1 DEF RunOK, Configs, SepoliaConfig, AnvilConfig
  <2> QED
    BY <2>1, <2>2
<1>6. CoinsApart'
  <2>1. ASSUME NEW s \in Runs, Begun(s)', left'[s] <= 2
        PROVE  Begun(s) /\ left[s] <= 2 /\ coinNonce'[s] = coinNonce[s]
    <3>1. s # r
      BY <1>3, <2>1 DEF Begun
    <3> QED
      BY <1>1, <1>3, <2>1, <3>1 DEF Begun
  <2> QED
    BY <2>1, ApartKept
<1>7. \A a \in Addresses : AddressOK(a)'
  BY <1>1, <1>2, AddressKept
<1> QED
  BY <1>1, <1>4, <1>5, <1>6, <1>7 DEF IInv, OtherEngine

\* What runs are not involved in.
LEMMA NoRunInv ==
    ASSUME IInv, UNCHANGED <<config, coinNonce, left, aborted, coinOwner, engine>>,
           nonce' \in 0 .. MaxNonce, nonce' >= nonce,
           otherEngine' = NoEngine \/ OtherEngine(otherEngine')
    PROVE  IInv'
<1>1. DeployTypes' /\ nonce' \in Int
  BY NonceAssumption DEF IInv, DeployTypes
<1>2. \A r \in Runs : RunOK(r)'
  BY <1>1, RunKept
<1>3. CoinsApart'
  <2>1. ASSUME NEW s \in Runs, Begun(s)', left'[s] <= 2
        PROVE  Begun(s) /\ left[s] <= 2 /\ coinNonce'[s] = coinNonce[s]
    BY <2>1 DEF Begun
  <2> QED
    BY <2>1, ApartKept
<1>4. \A a \in Addresses : AddressOK(a)'
  BY <1>1, AddressKept
<1> QED
  BY <1>1, <1>2, <1>3, <1>4 DEF IInv, OtherEngine

LEMMA NextIInv == IInv /\ [Next]_vars => IInv'
<1> SUFFICES ASSUME IInv, [Next]_vars PROVE IInv'
  OBVIOUS
<1>1. nonce \in 0 .. MaxNonce /\ (otherEngine = NoEngine \/ OtherEngine(otherEngine))
  BY DEF IInv, DeployTypes
<1>2. CASE UseKey
  <2>1. nonce' \in 0 .. MaxNonce /\ nonce' >= nonce
    BY <1>1, <1>2, NonceAssumption DEF UseKey, NonceUsed
  <2> QED
    BY <1>1, <1>2, <2>1, NoRunInv DEF UseKey
<1>3. CASE ConstructOther
  <2>1. PICK coin \in Addresses, tokens \in OtherTokens, feeds \in OtherFeeds :
          CanConstruct(tokens, feeds) /\ otherEngine' = Constructed(coin, tokens, feeds)
    BY <1>3 DEF ConstructOther
  <2>2. OtherEngine(otherEngine')
    BY <2>1 DEF OtherEngine
  <2>3. nonce' = nonce /\ nonce' >= nonce
    BY <1>1, <1>3, NonceAssumption DEF ConstructOther
  <2> QED
    BY <1>1, <1>3, <2>2, <2>3, NoRunInv DEF ConstructOther
<1>4. CASE UNCHANGED vars
  <2>1. nonce' = nonce /\ nonce' >= nonce
    BY <1>1, <1>4, NonceAssumption DEF vars, chainVars
  <2> QED
    BY <1>1, <1>4, <2>1, NoRunInv DEF vars, chainVars
<1> QED
  BY <1>2, <1>3, <1>4, RunInv, CreateMockInv, CreateCoinInv, CreateEngineInv,
     TransferOwnershipInv, FailInv DEF Next

THEOREM Inductive == Spec => []IInv
BY InitIInv, NextIInv, PTL DEF Spec

-----------------------------------------------------------------------------
\* MinterIsItsEngine: wherever runs are cut short and whatever else the key is
\* used for, a coin that has left the deployer belongs to an engine that was
\* built for it.
THEOREM CoinsGoToTheirEngines == Spec => []MinterIsItsEngine
<1>1. IInv => MinterIsItsEngine
  <2> SUFFICES ASSUME IInv, NEW coin \in Addresses, coinOwner[coin] \notin {Deployer, None}
               PROVE  engine[coinOwner[coin]].coin = coin
    BY DEF MinterIsItsEngine
  <2>1. AddressOK(coin)
    BY DEF IInv
  <2> QED
    BY <2>1 DEF AddressOK
<1> QED
  BY <1>1, Inductive, PTL

\* ReportedIsDeployed: what forge found for a run that was not cut short is
\* what is on the chain, however old it was when the last transaction came.
THEOREM CompletedRunsAreDeployed == Spec => []ReportedIsDeployed
<1>1. IInv => ReportedIsDeployed
  <2> SUFFICES ASSUME IInv, NEW r \in Runs, Completed(r)
               PROVE  /\ coinOwner[coinNonce[r]] = EngineAddress(r)
                      /\ engine[EngineAddress(r)] = Constructed(coinNonce[r], config[r].tokens, config[r].feeds)
                      /\ \A s \in Runs \ {r} : Completed(s) => coinNonce[s] # coinNonce[r]
    BY DEF ReportedIsDeployed
  <2>1. \A s \in Runs : Completed(s) => Begun(s) /\ left[s] = 0 /\ left[s] <= 2 /\ left[s] <= 1
    BY DEF Completed, Begun
  <2>2. RunOK(r)
    BY DEF IInv
  <2>3. \A s \in Runs \ {r} : Completed(s) => coinNonce[s] # coinNonce[r]
    BY <2>1 DEF IInv, CoinsApart
  <2> QED
    BY <2>1, <2>2, <2>3 DEF RunOK
<1> QED
  BY <1>1, Inductive, PTL

\* The body of DeploymentIsFinal.
FinalStep ==
    /\ \A a \in Addresses : engine[a] # NoEngine => engine'[a] = engine[a]
    /\ \A a \in Addresses : coinOwner'[a] # coinOwner[a] =>
          \/ coinOwner[a] = None /\ coinOwner'[a] = Deployer
          \/ coinOwner[a] = Deployer /\ coinOwner'[a] = a + 1 /\ engine[a + 1].coin = a

LEMMA NextIsFinal == IInv /\ [Next]_vars => FinalStep
<1> SUFFICES ASSUME IInv, [Next]_vars PROVE FinalStep
  OBVIOUS
<1>1. DeployTypes /\ nonce \in Int
  BY NonceAssumption DEF IInv, DeployTypes
<1>2. ASSUME NEW r \in Runs, CreateCoin(r) PROVE FinalStep
  <2>1. coinOwner' = [coinOwner EXCEPT ![nonce] = Deployer] /\ engine' = engine
    BY <1>2 DEF CreateCoin
  <2>2. nonce \in Addresses
    BY <1>2, SendShape DEF CreateCoin
  <2>3. coinOwner[nonce] = None
    BY <1>1, <2>2 DEF IInv, AddressOK
  <2> QED
    BY <1>1, <2>1, <2>2, <2>3 DEF FinalStep, DeployTypes
<1>3. ASSUME NEW r \in Runs, CreateEngine(r) PROVE FinalStep
  <2>1. /\ \E new : engine' = [engine EXCEPT ![nonce] = new]
        /\ coinOwner' = coinOwner
    BY <1>3 DEF CreateEngine
  <2>2. nonce \in Addresses
    BY <1>3, SendShape DEF CreateEngine
  <2>3. engine[nonce] = NoEngine
    BY <1>1, <2>2 DEF IInv, AddressOK
  <2> QED
    BY <1>1, <2>1, <2>2, <2>3 DEF FinalStep, DeployTypes
<1>4. ASSUME NEW r \in Runs, TransferOwnership(r) PROVE FinalStep
  <2>1. /\ coinOwner' = [coinOwner EXCEPT ![coinNonce[r]] = EngineAddress(r)]
        /\ coinOwner[coinNonce[r]] = Deployer /\ engine' = engine /\ left[r] = 1
    BY <1>4 DEF TransferOwnership
  <2>2. RunOK(r) /\ Begun(r)
    BY <2>1 DEF IInv, RunOK, Begun
  <2>3. /\ engine[coinNonce[r] + 1] = Constructed(coinNonce[r], config[r].tokens, config[r].feeds)
        /\ EngineAddress(r) = coinNonce[r] + 1
    BY <2>1, <2>2 DEF RunOK, EngineAddress
  <2>4. engine[coinNonce[r] + 1].coin = coinNonce[r]
    BY <2>3, NewEngine
  <2> QED
    BY <1>1, <2>1, <2>3, <2>4 DEF FinalStep, DeployTypes
<1>5. CASE UNCHANGED <<coinOwner, engine>>
  BY <1>5 DEF FinalStep
<1>6. ASSUME NEW r \in Runs, Run(r) \/ CreateMock(r) \/ Fail(r) PROVE UNCHANGED <<coinOwner, engine>>
  BY <1>6 DEF Run, chainVars, CreateMock, Fail
<1>7. UseKey \/ ConstructOther \/ UNCHANGED vars => UNCHANGED <<coinOwner, engine>>
  BY DEF UseKey, ConstructOther, vars, chainVars
<1> QED
  BY <1>2, <1>3, <1>4, <1>5, <1>6, <1>7 DEF Next

\* DeploymentIsFinal: no constructed engine ever changes, and a coin changes
\* hands once, to an engine that is there for it, whatever else is deployed.
THEOREM DeploymentsAreFinal == Spec => DeploymentIsFinal
<1>1. IInv /\ [Next]_vars => [FinalStep]_vars
  BY NextIsFinal
<1>2. DeploymentIsFinal <=> [][FinalStep]_vars
  BY DEF DeploymentIsFinal, FinalStep
<1> QED
  BY <1>1, <1>2, Inductive, PTL DEF Spec

\* An engine of any arrays counts what it takes, and takes no zero address.
LEMMA ConstructedCounts ==
    ASSUME NEW coin, NEW tokens, NEW feeds, CanConstruct(tokens, feeds)
    PROVE  LET e == Constructed(coin, tokens, feeds)
           IN  DOMAIN e.feed = Elements(e.list) /\ ZeroAddress \notin Elements(e.list)
<1>1. Constructed(coin, tokens, feeds).feed = FeedOf(tokens, feeds)
  BY DEF Constructed
<1>2. DOMAIN FeedOf(tokens, feeds) = Elements(tokens)
  BY DEF FeedOf
<1>3. ZeroAddress \notin Elements(tokens)
  BY DEF Elements, CanConstruct
<1> QED
  BY <1>1, <1>2, <1>3, NewEngine

\* An engine of two different tokens has each of them once.
LEMMA PairCountsOnce ==
    ASSUME NEW coin, NEW tokens, NEW feeds, PairOfTokens(tokens, feeds)
    PROVE  LET e == Constructed(coin, tokens, feeds)
           IN  /\ Cardinality(DOMAIN e.feed) = 2
               /\ \A t \in DOMAIN e.feed :
                    /\ Cardinality({i \in DOMAIN e.list : e.list[i] = t}) = 1
                    /\ FeedDecimals(e.feed[t]) \in 0 .. MAX_DECIMALS
<1> DEFINE a == tokens[1]
           b == tokens[2]
           e == Constructed(coin, tokens, feeds)
<1>1. tokens = <<a, b>> /\ a # b /\ feeds = <<feeds[1], feeds[2]>>
  BY DEF PairOfTokens
<1>2. DOMAIN tokens = {1, 2} /\ 1 # 2
  <2>1. DOMAIN <<a, b>> = {1, 2}
    OBVIOUS
  <2> QED
    BY <1>1, <2>1
<1>3. Elements(tokens) = {a, b}
  BY <1>2 DEF Elements
<1>4. e.list = tokens /\ e.feed = FeedOf(tokens, feeds) /\ DOMAIN e.feed = {a, b}
  BY <1>3 DEF Constructed, Listed, FeedOf
<1>5. Cardinality({a, b}) = 2
  <2>1. IsFiniteSet({a}) /\ Cardinality({a}) = 1
    BY FS_Singleton
  <2>2. Cardinality({a} \union {b}) = 1 + 1
    BY <1>1, <2>1, FS_AddElement
  <2>3. {a} \union {b} = {a, b}
    OBVIOUS
  <2> QED
    BY <2>2, <2>3
<1>6. ASSUME NEW t \in {a, b}
      PROVE  /\ Cardinality({i \in DOMAIN tokens : tokens[i] = t}) = 1
             /\ FeedDecimals(FeedOf(tokens, feeds)[t]) \in 0 .. MAX_DECIMALS
  <2>1. PICK k \in {1, 2} : \A i \in {1, 2} : tokens[i] = t <=> i = k
    BY <1>1
  <2>2. {i \in DOMAIN tokens : tokens[i] = t} = {k}
    BY <1>2, <2>1
  <2>3. Cardinality({k}) = 1
    BY FS_Singleton
  <2> DEFINE LastFor(i) == i \in DOMAIN tokens /\ tokens[i] = t /\ \A j \in DOMAIN tokens : tokens[j] = t => j <= i
  <2>4. \A i : LastFor(i) <=> i = k
    BY <1>2, <2>1
  <2>5. (CHOOSE i \in DOMAIN tokens : tokens[i] = t /\ \A j \in DOMAIN tokens : tokens[j] = t => j <= i) = k
    BY <2>4
  <2>6. FeedOf(tokens, feeds)[t] = feeds[k]
    BY <1>3, <2>5 DEF FeedOf
  <2>7. FeedDecimals(feeds[k]) \in 0 .. MAX_DECIMALS
    BY DEF PairOfTokens
  <2> QED
    BY <2>2, <2>3, <2>6, <2>7
<1> QED
  BY <1>4, <1>5, <1>6

\* No deposit is left out of a valuation, in an engine of anybody; the engines
\* of the script count none twice and can evaluate all.
THEOREM DepositsCountOnce == Spec => []EnginesCountTheirTokens
<1>1. IInv => EnginesCountTheirTokens
  <2> SUFFICES ASSUME IInv PROVE EnginesCountTheirTokens
    OBVIOUS
  <2>1. ASSUME NEW e \in EnginesOfAll
        PROVE  DOMAIN e.feed = Elements(e.list) /\ ZeroAddress \notin Elements(e.list)
    <3>1. e = NoEngine \/ OtherEngine(e)
      <4>1. e = NoEngine \/ ScriptEngine(e) \/ OtherEngine(e)
        BY DEF IInv, AddressOK, EnginesOfAll
      <4>2. ScriptEngine(e) => OtherEngine(e)
        BY DEF ScriptEngine, OtherEngine
      <4> QED
        BY <4>1, <4>2
    <3>2. CASE e = NoEngine
      <4>1. DOMAIN <<>> = {} /\ NoEngine.feed = <<>> /\ NoEngine.list = <<>>
        BY DEF NoEngine
      <4>2. Elements(<<>>) = {}
        BY <4>1 DEF Elements
      <4> QED
        BY <3>2, <4>1, <4>2
    <3>3. CASE OtherEngine(e)
      <4>1. PICK coin, tokens, feeds : CanConstruct(tokens, feeds) /\ e = Constructed(coin, tokens, feeds)
        BY <3>3 DEF OtherEngine
      <4> QED
        BY <4>1, ConstructedCounts
    <3> QED
      BY <3>1, <3>2, <3>3
  <2>2. DepositsAreCounted
    BY <2>1 DEF DepositsAreCounted
  <2>3. ScriptEnginesCountOnce
    <3> SUFFICES ASSUME NEW a \in Addresses, engine[a] # NoEngine
                 PROVE  /\ Cardinality(DOMAIN engine[a].feed) = 2
                        /\ \A t \in DOMAIN engine[a].feed :
                             /\ Cardinality({i \in DOMAIN engine[a].list : engine[a].list[i] = t}) = 1
                             /\ FeedDecimals(engine[a].feed[t]) \in 0 .. MAX_DECIMALS
      BY DEF ScriptEnginesCountOnce, TimesCounted
    <3>1. ScriptEngine(engine[a])
      BY DEF IInv, AddressOK
    <3> DEFINE coin == engine[a].coin
    <3>2. PICK r \in Runs : \E c \in Configs(r) : engine[a] = Constructed(coin, c.tokens, c.feeds)
      BY <3>1 DEF ScriptEngine
    <3>3. PICK found \in Configs(r) : engine[a] = Constructed(coin, found.tokens, found.feeds)
      BY <3>2
    <3>4. PairOfTokens(found.tokens, found.feeds)
      BY ConfigsAreReal
    <3> HIDE DEF coin
    <3> QED
      BY <3>3, <3>4, PairCountsOnce
  <2>4. DeploymentTypeOK
    <3>1. \A e \in EnginesOfAll : ZeroAddress \notin Elements(e.list) \union DOMAIN e.feed
      BY <2>1
    <3> QED
      BY <3>1 DEF DeploymentTypeOK, IInv, DeployTypes, MOCKS, DEPLOYMENTS
  <2> QED
    BY <2>2, <2>3, <2>4 DEF EnginesCountTheirTokens
<1> QED
  BY <1>1, Inductive, PTL

\* What RupeeCoinEngine assumes of its tokens and their feeds, of a constructed
\* engine: finitely many tokens, which the list names once each, and decimals
\* that no price has more of than the engine's numbers.
MeetsAssumptions(e) ==
    LET tokens == DOMAIN e.feed
    IN  /\ IsFiniteSet(tokens)
        /\ [t \in tokens |-> FeedDecimals(e.feed[t])] \in [tokens -> 0 .. MAX_DECIMALS]
        /\ Elements(e.list) = tokens
        /\ \A i, j \in DOMAIN e.list : e.list[i] = e.list[j] => i = j

LEMMA PairMeetsAssumptions ==
    ASSUME NEW coin, NEW tokens, NEW feeds, PairOfTokens(tokens, feeds),
           CanConstruct(tokens, feeds)
    PROVE  MeetsAssumptions(Constructed(coin, tokens, feeds))
<1> DEFINE e == Constructed(coin, tokens, feeds)
<1>1. DOMAIN e.feed = Elements(e.list) /\ e.list = tokens
  BY ConstructedCounts, NewEngine
<1>2. tokens = <<tokens[1], tokens[2]>> /\ tokens[1] # tokens[2]
  BY DEF PairOfTokens
<1>3. DOMAIN tokens = {1, 2}
  <2>1. DOMAIN <<tokens[1], tokens[2]>> = {1, 2}
    OBVIOUS
  <2> QED
    BY <1>2, <2>1
<1>4. IsFiniteSet(DOMAIN e.feed)
  <2>1. IsFiniteSet({tokens[1]})
    BY FS_Singleton
  <2>2. IsFiniteSet({tokens[1]} \union {tokens[2]})
    BY <2>1, FS_AddElement
  <2>3. DOMAIN e.feed = {tokens[1]} \union {tokens[2]}
    BY <1>1, <1>3 DEF Elements
  <2> QED
    BY <2>2, <2>3
<1>5. \A t \in DOMAIN e.feed : FeedDecimals(e.feed[t]) \in 0 .. MAX_DECIMALS
  BY PairCountsOnce
<1>6. \A i, j \in DOMAIN e.list : e.list[i] = e.list[j] => i = j
  BY <1>1, <1>2, <1>3
<1> HIDE DEF e
<1>7. MeetsAssumptions(e)
  BY <1>1, <1>4, <1>5, <1>6 DEF MeetsAssumptions
<1> QED
  BY <1>7 DEF e

\* The engines of the script are what RupeeCoinEngine models: it assumes of its
\* tokens and their feeds nothing that the script does not see to, on either
\* network and whatever else is deployed.
THEOREM ScriptEnginesMeetAssumptions ==
    Spec => [](\A a \in Addresses : engine[a] # NoEngine => MeetsAssumptions(engine[a]))
<1>1. IInv => \A a \in Addresses : engine[a] # NoEngine => MeetsAssumptions(engine[a])
  <2> SUFFICES ASSUME IInv, NEW a \in Addresses, engine[a] # NoEngine
               PROVE  MeetsAssumptions(engine[a])
    OBVIOUS
  <2>1. ScriptEngine(engine[a])
    BY DEF IInv, AddressOK
  <2> DEFINE coin == engine[a].coin
  <2>2. PICK r \in Runs : \E c \in Configs(r) :
          CanConstruct(c.tokens, c.feeds) /\ engine[a] = Constructed(coin, c.tokens, c.feeds)
    BY <2>1 DEF ScriptEngine
  <2>3. PICK found \in Configs(r) :
          /\ CanConstruct(found.tokens, found.feeds)
          /\ engine[a] = Constructed(coin, found.tokens, found.feeds)
    BY <2>2
  <2>4. PairOfTokens(found.tokens, found.feeds)
    BY ConfigsAreReal
  <2> HIDE DEF coin
  <2>5. MeetsAssumptions(Constructed(coin, found.tokens, found.feeds))
    BY <2>3, <2>4, PairMeetsAssumptions
  <2> QED
    BY <2>3, <2>5
<1> QED
  BY <1>1, Inductive, PTL

-----------------------------------------------------------------------------
(* migrate-imports.                                                        *)

\* Paths are strings; the new ones are named, since the prover does not know of
\* a literal that it is one.
Paths == STRING \union {PathUpdates[i][2] : i \in DOMAIN PathUpdates}

Texts == Seq([package : Packages, path : Paths])

LEMMA SourcesAreTexts == Sources \subseteq Texts
<1>1. ASSUME NEW S, NEW T, S \subseteq T
      PROVE  Seq(S) \subseteq Seq(T)
  BY <1>1
<1>2. [package : Packages, path : STRING] \subseteq [package : Packages, path : Paths]
  <2>1. STRING \subseteq Paths
    BY DEF Paths
  <2> QED
    BY <2>1
<1> QED
  BY <1>1, <1>2 DEF Sources, Texts

Emptied == {f \in Files : disk[f] = <<>>}

UpToDate(file) == OutdatedIn(file) = {}

\* What a run relies on between two steps.  At most one file is being written;
\* it is empty, and its new contents are not.  Of the files that a run was given
\* each is still to come, counted as updated, or up to date.
MigrateIInv ==
    /\ phase \in {"idle", "listing", "updating", "failed"}
    /\ disk \in [Files -> Texts]
    /\ files \in Seq({f \in Files : IsSolidity(f)})
    /\ updated \subseteq Files
    /\ crashes \in Nat
    /\ done = [files |-> done.files, updated |-> done.updated]
    /\ done.files \subseteq Files
    /\ DOMAIN writing \subseteq Files
    /\ writing = [f \in DOMAIN writing |-> writing[f]]
    /\ phase # "updating" => writing = Nothing
    /\ \A f \in DOMAIN writing :
         /\ writing[f] \in Texts \ {<<>>} /\ disk[f] = <<>> /\ f \in updated
         /\ \A g \in DOMAIN writing : f = g
    /\ Cardinality(Emptied) <= crashes + (IF writing = Nothing THEN 0 ELSE 1)
    /\ phase \in {"listing", "failed"} => done.files = {}
    /\ phase = "updating" =>
         \A f \in done.files : f \in ToSet(files) \/ f \in updated \/ UpToDate(f)
    /\ phase = "idle" /\ done.updated = {} => \A f \in done.files : UpToDate(f)

LEMMA NothingIs ==
  ASSUME NEW w, w = [f \in DOMAIN w |-> w[f]]
  PROVE  w = Nothing <=> DOMAIN w = {}
BY DEF Nothing

\* The first import of an old path is replaced, and every new path differs from
\* its old one.
LEMMA UpdateChanges ==
  ASSUME NEW source \in Texts
  PROVE  /\ UpdateImportPaths(source) \in Texts
         /\ UpdateImportPaths(source) = <<>> <=> source = <<>>
         /\ UpdateImportPaths(source) = source =>
              {i \in DOMAIN source : source[i].path \in Old} = {}
<1> DEFINE n == Len(source)
           new == UpdateImportPaths(source)
<1>1. /\ n \in Nat /\ DOMAIN source = 1 .. n
      /\ \A i \in 1 .. n : source[i] \in [package : Packages, path : Paths]
      /\ source = <<>> <=> n = 0
  <2>1. PICK S : S = [package : Packages, path : Paths]
    OBVIOUS
  <2>2. source \in Seq(S)
    BY <2>1 DEF Texts
  <2>3. /\ n \in Nat /\ DOMAIN source = 1 .. n
        /\ \A i \in 1 .. n : source[i] \in S
        /\ source = <<>> <=> n = 0
    BY <2>2
  <2> QED
    BY <2>1, <2>3
<1>2. \A path \in Old : NewPath(path) \in Paths /\ NewPath(path) \notin Old
  <2> SUFFICES ASSUME NEW path \in Old
               PROVE  NewPath(path) \in Paths /\ NewPath(path) \notin Old
    OBVIOUS
  <2>1. PICK i \in DOMAIN PathUpdates :
          PathUpdates[i][1] = path /\ NewPath(path) = PathUpdates[i][2]
    BY DEF Old, NewPath
  <2>2. PathUpdates[i][2] \in Paths
    BY DEF Paths
  <2> QED
    BY <2>1, <2>2, NoChains
<1>3. \A i \in 1 .. n : new[i] =
        IF /\ source[i].package \in SearchedPackages
           /\ source[i].path \in Old
           /\ IsReplaced(source, i)
        THEN Import(source[i].package, NewPath(source[i].path))
        ELSE source[i]
  BY <1>1 DEF UpdateImportPaths
<1>4. new \in [1 .. n -> [package : Packages, path : Paths]]
  <2>1. ASSUME NEW i \in 1 .. n
        PROVE  new[i] \in [package : Packages, path : Paths]
    <3>1. source[i] \in [package : Packages, path : Paths]
      BY <1>1
    <3>2. source[i].package \in Packages
      BY <3>1
    <3>3. ASSUME source[i].path \in Old
          PROVE  Import(source[i].package, NewPath(source[i].path)) \in [package : Packages, path : Paths]
      BY <1>2, <3>2, <3>3 DEF Import
    <3> HIDE DEF new
    <3>4. new[i] = source[i] \/ (source[i].path \in Old /\ new[i] = Import(source[i].package, NewPath(source[i].path)))
      BY <1>3
    <3> QED
      BY <3>1, <3>3, <3>4
  <2>2. new = [i \in 1 .. n |-> new[i]]
    BY <1>1 DEF UpdateImportPaths
  <2> HIDE DEF new
  <2> QED
    BY <2>1, <2>2
<1>5. new \in Texts /\ Len(new) = n
  <2> HIDE DEF new, n
  <2> QED
    BY <1>1, <1>4 DEF Texts
<1>6. new = <<>> <=> source = <<>>
  <2> HIDE DEF new, n
  <2> QED
    BY <1>1, <1>4, <1>5
<1>7. ASSUME new = source, NEW i \in 1 .. n, source[i].path \in Old
      PROVE  FALSE
  <2> DEFINE Same == {j \in 1 .. n : source[j] = source[i]}
  <2>1. PICK j \in Same : \A k \in Same : j <= k
    <3>1. Same \in SUBSET Nat /\ i \in Same
      BY <1>1
    <3> QED
      BY <3>1, LeastNumber
  <2>2. j \in 1 .. n /\ source[j] = source[i]
    OBVIOUS
  <2>3. IsReplaced(source, j)
    <3>1. ASSUME NEW k \in 1 .. j - 1
          PROVE  source[k] # source[j]
      BY <1>1, <2>1, <2>2
    <3> QED
      BY <3>1 DEF IsReplaced
  <2>4. source[j].package \in SearchedPackages
    BY <1>1, <2>2 DEF SearchedPackages
  <2>5. new[j] = Import(source[j].package, NewPath(source[j].path))
    BY <1>3, <1>7, <2>2, <2>3, <2>4
  <2>6. new[j].path = NewPath(source[j].path)
    BY <2>5 DEF Import
  <2>7. NewPath(source[j].path) \notin Old
    BY <1>2, <1>7, <2>2
  <2> QED
    BY <1>7, <2>2, <2>6, <2>7
<1> QED
  BY <1>1, <1>5, <1>6, <1>7

LEMMA EmptiedIsFinite == IsFiniteSet(Emptied) /\ Cardinality(Emptied) \in Nat
<1>1. Emptied \subseteq Files
  BY DEF Emptied
<1> QED
  BY <1>1, ContentsAssumption, FS_Subset, FS_CardinalityType

LEMMA MigrateInitOK == MigrateInit => MigrateIInv
<1> SUFFICES ASSUME MigrateInit
             PROVE  MigrateIInv
  OBVIOUS
<1>1. disk \in [Files -> Texts] /\ \A f \in Files : disk[f] # <<>>
  <2>1. disk = [f \in Files |-> disk[f]] /\ \A f \in Files : disk[f] \in Contents[f]
    BY DEF MigrateInit, Disks
  <2>2. \A f \in Files : disk[f] \in Texts /\ disk[f] # <<>>
    BY <2>1, ContentsAssumption, SourcesAreTexts
  <2> QED
    BY <2>1, <2>2
<1>2. Cardinality(Emptied) = 0
  <2>1. Emptied = {}
    BY <1>1 DEF Emptied
  <2> QED
    BY <2>1, FS_EmptySet
<1>3. writing = Nothing /\ DOMAIN writing = {} /\ writing = [f \in DOMAIN writing |-> writing[f]]
  BY DEF MigrateInit, NotCalled, Nothing
<1>4. /\ phase = "idle" /\ files = <<>> /\ updated = {} /\ crashes = 0
      /\ done = [files |-> {}, updated |-> {}]
  BY DEF MigrateInit, NotCalled
<1> QED
  BY <1>1, <1>2, <1>3, <1>4 DEF MigrateIInv

\* Steps that touch no file leave the bound on emptied files to crashes.
LEMMA SameDisk ==
  ASSUME disk' = disk
  PROVE  Emptied' = Emptied /\ \A f : UpToDate(f)' = UpToDate(f)
BY DEF Emptied, UpToDate, OutdatedIn

LEMMA MainOK == MigrateIInv /\ Main => MigrateIInv'
<1> SUFFICES ASSUME MigrateIInv, Main
             PROVE  MigrateIInv'
  OBVIOUS
<1>1. /\ phase' = "listing" /\ files' = <<>> /\ updated' = {}
      /\ done' = [files |-> {}, updated |-> {}]
      /\ disk' = disk /\ writing' = writing /\ crashes' = crashes
  BY DEF Main
<1>2. writing = Nothing /\ DOMAIN writing = {}
  BY DEF MigrateIInv, Main, Nothing
<1>3. Emptied' = Emptied
  BY <1>1, SameDisk
<1> QED
  BY <1>1, <1>2, <1>3 DEF MigrateIInv

LEMMA ListNextOK == MigrateIInv /\ ListNext => MigrateIInv'
<1> SUFFICES ASSUME MigrateIInv, ListNext
             PROVE  MigrateIInv'
  OBVIOUS
<1> DEFINE top == Head(queue)
<1>1. /\ phase = "listing" /\ phase' \in {"listing", "failed"}
      /\ files' = IF top \in Files /\ IsSolidity(top) THEN Append(files, top) ELSE files
      /\ UNCHANGED <<disk, writing, updated, done, crashes>>
  BY DEF ListNext
<1>2. writing = Nothing /\ DOMAIN writing = {}
  BY <1>1 DEF MigrateIInv, Nothing
<1>3. Emptied' = Emptied
  BY <1>1, SameDisk
<1>4. files' \in Seq({f \in Files : IsSolidity(f)})
  <2>1. PICK S : S = {f \in Files : IsSolidity(f)}
    OBVIOUS
  <2>2. files \in Seq(S) /\ (top \in Files /\ IsSolidity(top) => top \in S)
    BY <2>1 DEF MigrateIInv
  <2>3. files' \in Seq(S)
    BY <1>1, <2>2
  <2> QED
    BY <2>1, <2>3
<1> QED
  BY <1>1, <1>2, <1>3, <1>4 DEF MigrateIInv

LEMMA EndListingOK == MigrateIInv /\ EndListing => MigrateIInv'
<1> SUFFICES ASSUME MigrateIInv, EndListing
             PROVE  MigrateIInv'
  OBVIOUS
<1>1. /\ phase = "listing" /\ phase' = "updating"
      /\ done' = [done EXCEPT !.files = ToSet(files)]
      /\ UNCHANGED <<disk, queue, files, writing, updated, crashes>>
  BY DEF EndListing
<1>2. writing = Nothing /\ DOMAIN writing = {}
  BY <1>1 DEF MigrateIInv, Nothing
<1>3. Emptied' = Emptied
  BY <1>1, SameDisk
<1>4. ToSet(files) \subseteq Files
  BY DEF MigrateIInv, ToSet
<1>5. done' = [files |-> ToSet(files), updated |-> done.updated]
  BY <1>1 DEF MigrateIInv
<1>6. /\ done' = [files |-> done'.files, updated |-> done'.updated]
      /\ done'.files = ToSet(files) /\ files' = files
  BY <1>1, <1>5
<1> QED
  BY <1>1, <1>2, <1>3, <1>4, <1>6 DEF MigrateIInv

\* The files still to come are the next one and those after it.
LEMMA NextFile ==
  ASSUME MigrateIInv, files # <<>>
  PROVE  /\ Head(files) \in Files
         /\ Tail(files) \in Seq({f \in Files : IsSolidity(f)})
         /\ \A f \in ToSet(files) : f = Head(files) \/ f \in ToSet(Tail(files))
<1>1. PICK S : S = {f \in Files : IsSolidity(f)}
  OBVIOUS
<1>2. files \in Seq(S)
  BY <1>1 DEF MigrateIInv
<1>3. Head(files) \in S /\ Tail(files) \in Seq(S)
  BY <1>2
<1>4. ASSUME NEW i \in DOMAIN files, files[i] # Head(files)
      PROVE  files[i] \in ToSet(Tail(files))
  <2>1. /\ Len(files) \in Nat /\ i \in 1 .. Len(files) /\ i # 1
        /\ Len(Tail(files)) = Len(files) - 1
        /\ DOMAIN Tail(files) = 1 .. Len(files) - 1
    BY <1>2, <1>3, <1>4
  <2>2. i - 1 \in DOMAIN Tail(files) /\ Tail(files)[i - 1] = files[i]
    BY <1>2, <2>1
  <2> QED
    BY <2>2 DEF ToSet
<1> QED
  BY <1>1, <1>3, <1>4 DEF ToSet

LEMMA UpdateFileOK == MigrateIInv /\ UpdateFile => MigrateIInv'
<1> SUFFICES ASSUME MigrateIInv, UpdateFile
             PROVE  MigrateIInv'
  OBVIOUS
<1>1. PICK file : file = Head(files)
  OBVIOUS
<1>2. /\ phase = "updating" /\ files # <<>> /\ writing = Nothing /\ files' = Tail(files)
      /\ phase' = phase /\ done' = done /\ crashes' = crashes
  BY DEF UpdateFile, WriteAwaited
<1>3. /\ file \in Files /\ disk[file] \in Texts
      /\ Tail(files) \in Seq({f \in Files : IsSolidity(f)})
      /\ \A f \in ToSet(files) : f = file \/ f \in ToSet(Tail(files))
  BY <1>1, <1>2, NextFile DEF MigrateIInv
<1>4. DOMAIN writing = {}
  BY <1>2 DEF Nothing
<1>5. CASE Unchanged(file)
  <2>1. UNCHANGED <<disk, writing, updated>>
    BY <1>1, <1>5 DEF UpdateFile
  <2>2. UpToDate(file)
    BY <1>3, <1>5, UpdateChanges DEF Unchanged, UpToDate, OutdatedIn
  <2>3. Emptied' = Emptied /\ \A f : UpToDate(f)' = UpToDate(f)
    BY <2>1, SameDisk
  <2>4. \A f \in done.files : f \in ToSet(files)' \/ f \in updated' \/ UpToDate(f)'
    BY <1>2, <1>3, <2>1, <2>2, <2>3 DEF MigrateIInv
  <2> QED
    BY <1>2, <1>3, <1>4, <2>1, <2>3, <2>4 DEF MigrateIInv
<1>6. CASE ~Unchanged(file)
  <2> DEFINE text == UpdateImportPaths(disk[file])
  <2>1. /\ disk' = [disk EXCEPT ![file] = <<>>]
        /\ writing' = [f \in DOMAIN writing \union {file} |->
                         IF f = file THEN text ELSE writing[f]]
        /\ updated' = updated \union {file}
    BY <1>1, <1>6 DEF UpdateFile
  <2>2. disk[file] # <<>> /\ text \in Texts /\ text # <<>>
    BY <1>3, <1>6, UpdateChanges DEF Unchanged
  <2> HIDE DEF text
  <2>3. /\ DOMAIN writing' = {file} /\ writing'[file] = text
        /\ writing' = [f \in DOMAIN writing' |-> writing'[f]]
    BY <1>4, <2>1
  <2>4. /\ disk' \in [Files -> Texts] /\ disk'[file] = <<>>
        /\ \A f \in Files \ {file} : disk'[f] = disk[f]
    <3>1. <<>> \in Texts
      BY DEF Texts
    <3>2. disk \in [Files -> Texts]
      BY DEF MigrateIInv
    <3> QED
      BY <1>3, <2>1, <3>1, <3>2
  <2>5. Cardinality(Emptied') <= crashes' + 1
    <3>1. Emptied' = Emptied \union {file} /\ file \notin Emptied
      BY <1>3, <2>2, <2>4 DEF Emptied
    <3>2. Cardinality(Emptied') = Cardinality(Emptied) + 1
      BY <3>1, EmptiedIsFinite, FS_AddElement
    <3>3. Cardinality(Emptied) <= crashes /\ crashes \in Nat
      BY <1>2 DEF MigrateIInv
    <3> QED
      BY <1>2, <3>2, <3>3, EmptiedIsFinite
  <2>6. writing' # Nothing
    BY <2>3 DEF Nothing
  <2>7. \A f \in done.files : f \in ToSet(files)' \/ f \in updated' \/ UpToDate(f)'
    <3> SUFFICES ASSUME NEW f \in done.files, f # file, f \notin ToSet(files)', f \notin updated
                 PROVE  UpToDate(f)'
      BY <2>1
    <3>1. f \in Files /\ UpToDate(f)
      BY <1>2, <1>3 DEF MigrateIInv
    <3>2. disk'[f] = disk[f]
      BY <2>4, <3>1
    <3> QED
      BY <3>1, <3>2 DEF UpToDate, OutdatedIn
  <2>8. \A f \in DOMAIN writing' :
          /\ writing'[f] \in Texts \ {<<>>} /\ disk'[f] = <<>> /\ f \in updated'
          /\ \A g \in DOMAIN writing' : f = g
    BY <2>1, <2>2, <2>3, <2>4
  <2>9. updated' \subseteq Files /\ DOMAIN writing' \subseteq Files
    BY <1>3, <2>1, <2>3 DEF MigrateIInv
  <2> QED
    BY <1>2, <1>3, <2>3, <2>4, <2>5, <2>6, <2>7, <2>8, <2>9 DEF MigrateIInv
<1> QED
  BY <1>5, <1>6

LEMMA WriteRefusedOK == MigrateIInv /\ WriteRefused => MigrateIInv'
<1> SUFFICES ASSUME MigrateIInv, WriteRefused
             PROVE  MigrateIInv'
  OBVIOUS
<1>1. /\ phase' = "failed" /\ files' = <<>> /\ done' = [files |-> {}, updated |-> {}]
      /\ writing = Nothing
      /\ UNCHANGED <<disk, queue, writing, updated, crashes>>
  BY DEF WriteRefused, WriteAwaited
<1>2. DOMAIN writing = {}
  BY <1>1 DEF Nothing
<1>3. Emptied' = Emptied
  BY <1>1, SameDisk
<1> QED
  BY <1>1, <1>2, <1>3 DEF MigrateIInv

LEMMA WrittenOK == ASSUME MigrateIInv, NEW file \in Files, Written(file) PROVE MigrateIInv'
<1>1. /\ file \in DOMAIN writing
      /\ disk' = [disk EXCEPT ![file] = writing[file]]
      /\ writing' = [f \in DOMAIN writing \ {file} |-> writing[f]]
      /\ UNCHANGED <<phase, queue, files, updated, done, crashes>>
  BY DEF Written
<1>2. /\ writing[file] \in Texts /\ writing[file] # <<>> /\ disk[file] = <<>> /\ file \in updated
      /\ DOMAIN writing = {file}
  BY <1>1 DEF MigrateIInv
<1>3. writing # Nothing /\ phase = "updating"
  BY <1>1 DEF MigrateIInv, Nothing
<1>4. writing' = Nothing /\ DOMAIN writing' = {} /\ writing' = [f \in DOMAIN writing' |-> writing'[f]]
  <2>1. writing' = [f \in {} |-> writing[f]]
    BY <1>1, <1>2
  <2> QED
    BY <2>1 DEF Nothing
<1>5. /\ disk' \in [Files -> Texts] /\ disk'[file] # <<>>
      /\ \A f \in Files \ {file} : disk'[f] = disk[f]
  BY <1>1, <1>2 DEF MigrateIInv
<1>6. Cardinality(Emptied') <= crashes'
  <2>1. Emptied' = Emptied \ {file} /\ file \in Emptied
    BY <1>2, <1>5 DEF Emptied
  <2>2. Cardinality(Emptied') = Cardinality(Emptied) - 1
    BY <2>1, EmptiedIsFinite, FS_RemoveElement
  <2>3. Cardinality(Emptied) <= crashes + 1 /\ crashes \in Nat
    BY <1>3 DEF MigrateIInv
  <2> QED
    BY <1>1, <2>2, <2>3, EmptiedIsFinite
<1>7. \A f \in done.files : f \in ToSet(files) \/ f \in updated \/ UpToDate(f)'
  <2> SUFFICES ASSUME NEW f \in done.files, f \notin ToSet(files), f \notin updated
               PROVE  UpToDate(f)'
    OBVIOUS
  <2>1. f \in Files /\ f # file /\ UpToDate(f)
    BY <1>2, <1>3 DEF MigrateIInv
  <2>2. disk'[f] = disk[f]
    BY <1>5, <2>1
  <2> QED
    BY <2>1, <2>2 DEF UpToDate, OutdatedIn
<1>8. ToSet(files)' = ToSet(files)
  BY <1>1
<1> QED
  BY <1>1, <1>3, <1>4, <1>5, <1>6, <1>7, <1>8 DEF MigrateIInv

LEMMA FinishOK == MigrateIInv /\ Finish => MigrateIInv'
<1> SUFFICES ASSUME MigrateIInv, Finish
             PROVE  MigrateIInv'
  OBVIOUS
<1>1. /\ phase = "updating" /\ phase' = "idle" /\ files = <<>> /\ writing = Nothing
      /\ done' = [done EXCEPT !.updated = updated]
      /\ UNCHANGED <<disk, queue, files, writing, updated, crashes>>
  BY DEF Finish, WriteAwaited
<1>2. DOMAIN writing = {}
  BY <1>1 DEF Nothing
<1>3. Emptied' = Emptied /\ \A f : UpToDate(f)' = UpToDate(f)
  BY <1>1, SameDisk
<1>4. done' = [files |-> done.files, updated |-> updated]
  BY <1>1 DEF MigrateIInv
<1>5. done'.files = done.files /\ done'.updated = updated
      /\ done' = [files |-> done'.files, updated |-> done'.updated]
  BY <1>4
<1>6. ToSet(files) = {}
  BY <1>1 DEF ToSet
<1>7. \A f \in done.files : f \in updated \/ UpToDate(f)'
  BY <1>1, <1>3, <1>6 DEF MigrateIInv
<1> QED
  BY <1>1, <1>2, <1>3, <1>5, <1>7 DEF MigrateIInv

LEMMA CrashOK == MigrateIInv /\ Crash => MigrateIInv'
<1> SUFFICES ASSUME MigrateIInv, Crash
             PROVE  MigrateIInv'
  OBVIOUS
<1>1. /\ crashes' = crashes + 1 /\ phase' = "idle" /\ files' = <<>> /\ writing' = Nothing
      /\ updated' = {} /\ done' = [files |-> {}, updated |-> {}] /\ disk' = disk
  BY DEF Crash
<1>2. DOMAIN writing' = {} /\ writing' = [f \in DOMAIN writing' |-> writing'[f]]
  BY <1>1 DEF Nothing
<1>3. Emptied' = Emptied
  BY <1>1, SameDisk
<1>4. Cardinality(Emptied) <= crashes + 1 /\ crashes \in Nat
  BY EmptiedIsFinite DEF MigrateIInv
<1> QED
  BY <1>1, <1>2, <1>3, <1>4 DEF MigrateIInv

LEMMA MigrateStepOK == MigrateIInv /\ [MigrateNext]_migrateVars => MigrateIInv'
<1>1. MigrateIInv /\ UNCHANGED migrateVars => MigrateIInv'
  BY DEF MigrateIInv, migrateVars, Emptied, UpToDate, OutdatedIn
<1> QED
  BY <1>1, MainOK, ListNextOK, EndListingOK, UpdateFileOK, WriteRefusedOK, WrittenOK, FinishOK,
     CrashOK DEF MigrateNext

LEMMA MigrateInvariant == MigrateSpec => []MigrateIInv
BY MigrateInitOK, MigrateStepOK, PTL DEF MigrateSpec

\* However often the script is started and killed, on any files: a crash costs at
\* most the file that main was just writing, since updateFile is awaited.
THEOREM CrashesCostOneFileEach == MigrateSpec => []LittleIsLost
<1>1. ASSUME MigrateIInv
      PROVE  LittleIsLost
  <2>1. MigrationTypeOK
    BY <1>1 DEF MigrateIInv, MigrationTypeOK, ToSet
  <2>2. OneFilePerCrash
    <3>1. Cardinality(Emptied) <= crashes + (IF phase = "updating" THEN 1 ELSE 0)
      BY <1>1, EmptiedIsFinite DEF MigrateIInv
    <3> QED
      BY <3>1 DEF OneFilePerCrash, Emptied
  <2> QED
    BY <2>1, <2>2 DEF LittleIsLost
<1> QED
  BY <1>1, MigrateInvariant, PTL

\* When main says "No files were updated", no file it was given holds a path that
\* updateImportPaths knows to have moved, although each call replaces only the
\* first of equal paths.
THEOREM NothingIsLeftUnsaid == MigrateSpec => []NoneUpdatedMeansUpToDate
<1>1. ASSUME MigrateIInv
      PROVE  NoneUpdatedMeansUpToDate
  BY <1>1 DEF MigrateIInv, NoneUpdatedMeansUpToDate, Finished, UpToDate
<1> QED
  BY <1>1, MigrateInvariant, PTL

-----------------------------------------------------------------------------
(* The comparison of gas reports.                                          *)

\* JavaScript's numbers, as far as the script computes with them.
Numbers == {Finite(n) : n \in Int} \union {Infinite(1), Infinite(-1), NaN}

LEMMA NumberFields ==
  /\ \A n \in Int : IsFinite(Finite(n)) /\ Finite(n).n = n
  /\ \A s \in {1, -1} : ~IsFinite(Infinite(s)) /\ Infinite(s).n = s /\ Infinite(s) # NaN
  /\ Infinite(1) # Infinite(-1)
  /\ ~IsFinite(NaN) /\ NaN.n = 0
  /\ \A x \in Numbers : IsFinite(x) => x.n \in Int /\ x = Finite(x.n)
  /\ \A n \in Int : Finite(n) # NaN
BY DEF IsFinite, Finite, Infinite, NaN, Numbers

\* A percentage that is shown has the sign of its delta, if nothing costs less
\* than what is taken off the denominator.
LEMMA PercentHasTheSign ==
  ASSUME NEW now \in Numbers, NEW before \in Numbers, NEW offset \in Nat,
         IsFinite(before) => before.n >= offset,
         IsFinite(Variation(now, before, offset).prcnt)
  PROVE  LET cell == Variation(now, before, offset)
         IN  IsFinite(cell.delta) /\ cell.delta.n \in Int /\ Sign(cell.delta.n) = cell.prcnt.n
<1> DEFINE delta == Minus(now, before)
           over == Minus(before, Finite(offset))
<1>1. /\ Variation(now, before, offset).delta = delta
      /\ Variation(now, before, offset).prcnt = Over(delta, over)
  BY DEF Variation
<1>2. CASE IsFinite(now) /\ IsFinite(before)
  <2>1. /\ delta = Finite(now.n - before.n) /\ over = Finite(before.n - offset)
        /\ now.n \in Int /\ before.n \in Int /\ before.n - offset >= 0
    BY <1>2, NumberFields DEF Minus
  <2>2. PICK d \in Int, o \in Int : d = now.n - before.n /\ o = before.n - offset /\ o >= 0
    BY <2>1
  <2>3. delta = Finite(d) /\ over = Finite(o)
    BY <2>1, <2>2
  <2> HIDE DEF delta, over
  <2>4. IsFinite(delta) /\ IsFinite(over) /\ delta.n = d /\ over.n = o /\ delta # NaN /\ over # NaN
    BY <2>2, <2>3, NumberFields
  <2>5. o # 0
    <3>1. ASSUME o = 0
          PROVE  FALSE
      <4>1. Over(delta, over) = IF d = 0 THEN NaN ELSE Infinite(Sign(d))
        BY <2>3, <2>4, <3>1 DEF Over
      <4>2. ~IsFinite(NaN) /\ ~IsFinite(Infinite(Sign(d)))
        BY DEF IsFinite, Infinite, NaN
      <4> QED
        BY <1>1, <4>1, <4>2
    <3> QED
      BY <3>1
  <2>6. Over(delta, over) = Finite(Sign(d) * Sign(o))
    <3>1. over # Finite(0)
      BY <2>4, <2>5, NumberFields
    <3>2. Over(delta, over) = Finite(Sign(delta.n) * Sign(over.n))
      BY <2>4, <2>5, <3>1 DEF Over
    <3> QED
      BY <2>4, <3>2
  <2>7. Sign(o) = 1 /\ Sign(d) \in Int
    BY <2>2, <2>5 DEF Sign
  <2>8. Over(delta, over).n = Sign(d)
    BY <2>6, <2>7, NumberFields
  <2> QED
    BY <1>1, <2>4, <2>8
<1>3. CASE ~(IsFinite(now) /\ IsFinite(before))
  <2>1. ~IsFinite(delta)
    <3>1. \A s \in {1, -1} : Sign(s) = s /\ -s \in {1, -1}
      BY DEF Sign
    <3>2. now \in {Infinite(1), Infinite(-1), NaN} \/ IsFinite(now)
      BY NumberFields DEF Numbers
    <3>3. before \in {Infinite(1), Infinite(-1), NaN} \/ IsFinite(before)
      BY NumberFields DEF Numbers
    <3> QED
      BY <1>3, <3>1, <3>2, <3>3, NumberFields DEF Minus
  <2>2. \A n : ~IsFinite(Infinite(n))
    BY DEF IsFinite, Infinite
  <2> HIDE DEF delta, over
  <2>3. ~IsFinite(Over(delta, over))
    BY <2>1, <2>2, NumberFields DEF Over
  <2> QED
    BY <1>1, <2>3
<1> QED
  BY <1>2, <1>3

\* The sum of calls that cost at least low each: summation as the code does it,
\* from the first call on.
LEMMA SumExists ==
  ASSUME NEW gas \in Seq(Nat)
  PROVE  \E s \in [0 .. Len(gas) -> Nat] :
           s = [i \in 0 .. Len(gas) |-> IF i = 0 THEN 0 ELSE s[i - 1] + gas[i]]
<1> DEFINE n == Len(gas)
           Sums(k) == {s \in [0 .. k -> Nat] :
                         s[0] = 0 /\ \A i \in 1 .. k : s[i] = s[i - 1] + gas[i]}
           G == {k \in Nat : k <= n => Sums(k) # {}}
<1>1. n \in Nat /\ \A i \in 1 .. n : gas[i] \in Nat
  OBVIOUS
<1> HIDE DEF n
<1>2. 0 \in G
  <2>1. [i \in 0 .. 0 |-> 0] \in Sums(0)
    OBVIOUS
  <2> QED
    BY <2>1
<1>3. ASSUME NEW k \in Nat, k \in G
      PROVE  k + 1 \in G
  <2>0. k + 1 \in Nat
    OBVIOUS
  <2> SUFFICES ASSUME k + 1 <= n
               PROVE  Sums(k + 1) # {}
    BY <2>0, Zenon
  <2>1. PICK s \in [0 .. k -> Nat] : s[0] = 0 /\ \A i \in 1 .. k : s[i] = s[i - 1] + gas[i]
    <3>1. k <= n
      BY <1>1
    <3> QED
      BY <1>3, <3>1
  <2>2. gas[k + 1] \in Nat
    BY <1>1
  <2>3. PICK t : t = [i \in 0 .. k + 1 |-> IF i <= k THEN s[i] ELSE s[k] + gas[k + 1]]
    OBVIOUS
  <2>4. s[k] + gas[k + 1] \in Nat
    BY <2>1, <2>2
  <2>5. t \in [0 .. k + 1 -> Nat]
    BY <2>1, <2>3, <2>4
  <2>6. t[0] = 0
    BY <2>1, <2>3
  <2>7. ASSUME NEW i \in 1 .. k + 1
        PROVE  t[i] = t[i - 1] + gas[i]
    <3>1. CASE i <= k
      BY <2>1, <2>3, <3>1
    <3>2. CASE i = k + 1
      <4>1. t[i] = s[k] + gas[k + 1] /\ t[k] = s[k]
        BY <2>3, <3>2
      <4>2. i - 1 = k
        BY <3>2
      <4> QED
        BY <3>2, <4>1, <4>2
    <3> QED
      BY <3>1, <3>2
  <2>8. t \in Sums(k + 1)
    BY <2>5, <2>6, <2>7
  <2> QED
    BY <2>8
<1> HIDE DEF G
<1>4. n \in G
  BY <1>1, <1>2, <1>3, NumberInduction
<1>5. PICK s \in [0 .. n -> Nat] : s[0] = 0 /\ \A i \in 1 .. n : s[i] = s[i - 1] + gas[i]
  BY <1>1, <1>4 DEF G
<1>6. s = [i \in 0 .. n |-> IF i = 0 THEN 0 ELSE s[i - 1] + gas[i]]
  <2>1. s = [i \in 0 .. n |-> s[i]]
    BY <1>5
  <2>2. \A i \in 0 .. n : s[i] = IF i = 0 THEN 0 ELSE s[i - 1] + gas[i]
    BY <1>1, <1>5
  <2> QED
    BY <2>1, <2>2
<1> QED
  BY <1>6 DEF n

LEMMA SumAtLeast ==
  ASSUME NEW low \in Nat, NEW gas \in Seq(Nat),
         \A i \in 1 .. Len(gas) : gas[i] >= low
  PROVE  Sum(gas) \in Nat /\ Sum(gas) >= Len(gas) * low
<1> DEFINE n == Len(gas)
<1>1. PICK s : s = CHOOSE u : u = [i \in 0 .. n |-> IF i = 0 THEN 0 ELSE u[i - 1] + gas[i]]
  OBVIOUS
<1>2. s = [i \in 0 .. n |-> IF i = 0 THEN 0 ELSE s[i - 1] + gas[i]]
  BY <1>1, SumExists
<1>3. Sum(gas) = s[n]
  BY <1>1, Zenon DEF Sum
<1>4. n \in Nat /\ \A i \in 1 .. n : gas[i] \in Nat /\ gas[i] >= low
  OBVIOUS
<1> HIDE DEF n
<1> DEFINE G == {k \in Nat : k <= n => s[k] \in Nat /\ s[k] >= k * low}
<1>5. 0 \in G
  <2>1. s[0] = 0
    BY <1>2, <1>4
  <2> QED
    BY <2>1
<1>6. ASSUME NEW k \in Nat, k \in G
      PROVE  k + 1 \in G
  <2> SUFFICES ASSUME k + 1 <= n
               PROVE  s[k + 1] \in Nat /\ s[k + 1] >= (k + 1) * low
    OBVIOUS
  <2>1. s[k] \in Nat /\ s[k] >= k * low
    BY <1>4, <1>6
  <2>2. s[k + 1] = s[k] + gas[k + 1]
    <3>1. k + 1 \in 0 .. n /\ k + 1 # 0 /\ (k + 1) - 1 = k
      BY <1>4
    <3> QED
      BY <1>2, <3>1
  <2>3. gas[k + 1] \in Nat /\ gas[k + 1] >= low
    BY <1>4
  <2>4. (k + 1) * low = k * low + low
    OBVIOUS
  <2> QED
    BY <2>1, <2>2, <2>3, <2>4
<1> HIDE DEF G
<1>7. n \in G
  BY <1>4, <1>5, <1>6, NumberInduction
<1> QED
  BY <1>3, <1>4, <1>7 DEF G, n

\* Among finitely many numbers there is a greatest one.
LEMMA GreatestExists ==
  ASSUME NEW gas \in Seq(Nat), gas # <<>>
  PROVE  \E m \in 1 .. Len(gas) : \A i \in 1 .. Len(gas) : gas[i] <= gas[m]
<1> DEFINE n == Len(gas)
           IsGreatest(m, k) == \A i \in 1 .. k : gas[i] <= gas[m]
           G == {k \in Nat : k + 1 <= n => \E m \in 1 .. k + 1 : IsGreatest(m, k + 1)}
<1>1. n \in Nat /\ n >= 1 /\ \A i \in 1 .. n : gas[i] \in Nat
  OBVIOUS
<1> HIDE DEF n
<1>2. 0 \in G
  <2>1. n >= 1 /\ gas[1] \in Nat
    BY <1>1
  <2>2. IsGreatest(1, 0 + 1)
    BY <2>1
  <2> QED
    BY <2>2
<1>3. ASSUME NEW k \in Nat, k \in G
      PROVE  k + 1 \in G
  <2>0. k + 1 \in Nat
    OBVIOUS
  <2> SUFFICES ASSUME k + 1 + 1 <= n
               PROVE  \E m \in 1 .. k + 1 + 1 : IsGreatest(m, k + 1 + 1)
    BY <2>0, Zenon
  <2>1. PICK m \in 1 .. k + 1 : IsGreatest(m, k + 1)
    BY <1>1, <1>3
  <2>2. gas[m] \in Nat /\ gas[k + 2] \in Nat /\ \A i \in 1 .. k + 1 : gas[i] \in Nat
    BY <1>1
  <2>3. CASE gas[k + 2] <= gas[m]
    <3>1. IsGreatest(m, k + 1 + 1) /\ m \in 1 .. k + 1 + 1
      BY <2>1, <2>2, <2>3
    <3> HIDE DEF IsGreatest
    <3> QED
      BY <3>1
  <2>4. CASE gas[k + 2] > gas[m]
    <3>1. IsGreatest(k + 2, k + 1 + 1) /\ k + 2 \in 1 .. k + 1 + 1
      BY <2>1, <2>2, <2>4
    <3> HIDE DEF IsGreatest
    <3> QED
      BY <3>1
  <2>5. k + 1 + 1 = k + 2 /\ (gas[k + 2] <= gas[m] \/ gas[k + 2] > gas[m])
    BY <2>2
  <2> HIDE DEF IsGreatest
  <2> QED
    BY <2>3, <2>4, <2>5
<1> HIDE DEF G
<1>4. n - 1 \in G
  BY <1>1, <1>2, <1>3, NumberInduction
<1> QED
  <2>1. (n - 1) + 1 = n /\ n - 1 \in Nat
    BY <1>1
  <2>2. \E m \in 1 .. n : IsGreatest(m, n)
    BY <1>4, <2>1 DEF G
  <2> QED
    BY <2>2 DEF n

\* The three costs of a method: none of no calls, and none below the base cost.
LEMMA CostsOfNoCalls ==
  Lowest(<<>>) = Infinite(1) /\ Highest(<<>>) = Infinite(-1) /\ Average(<<>>) = NaN
BY DEF Lowest, Highest, Average

IsCost(x) == x \in Numbers /\ IsFinite(x) /\ x.n \in Int /\ x.n >= BASE_TX_COST

LEMMA FiniteIsCost ==
  ASSUME NEW g \in Nat, g >= BASE_TX_COST
  PROVE  IsCost(Finite(g))
BY NumberFields DEF IsCost, Numbers, BASE_TX_COST

LEMMA CostsOfCalls ==
  ASSUME NEW gas \in GasOfCalls, gas # <<>>
  PROVE  IsCost(Lowest(gas)) /\ IsCost(Highest(gas)) /\ IsCost(Average(gas))
<1>1. PICK S : S = {g \in Nat : g >= BASE_TX_COST}
  OBVIOUS
<1>2. gas \in Seq(S) /\ \A g \in S : g \in Nat /\ g >= BASE_TX_COST
  BY <1>1 DEF GasOfCalls
<1>3. /\ Len(gas) \in Nat /\ Len(gas) >= 1 /\ DOMAIN gas = 1 .. Len(gas)
      /\ \A i \in 1 .. Len(gas) : gas[i] \in Nat /\ gas[i] >= BASE_TX_COST
  BY <1>2
<1>4. gas \in Seq(Nat)
  <2>1. gas \in [1 .. Len(gas) -> Nat]
    BY <1>2
  <2> QED
    BY <1>3, <2>1
<1>5. Calls(gas) \subseteq Nat /\ Calls(gas) # {} /\ \A g \in Calls(gas) : g >= BASE_TX_COST
  BY <1>3 DEF Calls
<1>6. IsCost(Lowest(gas))
  <2>1. \E g \in Calls(gas) : \A o \in Calls(gas) : g <= o
    BY <1>5, LeastNumber
  <2>2. PICK g \in Calls(gas) : Lowest(gas) = Finite(g)
    BY <2>1 DEF Lowest
  <2> QED
    BY <1>5, <2>2, FiniteIsCost
<1>7. IsCost(Highest(gas))
  <2>1. \E g \in Calls(gas) : \A o \in Calls(gas) : g >= o
    <3>1. PICK m \in 1 .. Len(gas) : \A i \in 1 .. Len(gas) : gas[i] <= gas[m]
      BY <1>4, GreatestExists
    <3>2. gas[m] \in Calls(gas)
      BY <1>3 DEF Calls
    <3>3. \A o \in Calls(gas) : gas[m] >= o
      BY <1>3, <3>1 DEF Calls
    <3> QED
      BY <3>2, <3>3
  <2>2. PICK g \in Calls(gas) : Highest(gas) = Finite(g)
    BY <2>1 DEF Highest
  <2> QED
    BY <1>5, <2>2, FiniteIsCost
<1>8. IsCost(Average(gas))
  <2>1. PICK n \in Nat, s \in Nat, b \in Nat :
          n = Len(gas) /\ s = Sum(gas) /\ b = BASE_TX_COST /\ n >= 1
    <3>1. BASE_TX_COST \in Nat
      BY DEF BASE_TX_COST
    <3> QED
      BY <1>3, <1>4, <3>1, SumAtLeast
  <2>2. s >= n * b
    BY <1>3, <1>4, <2>1, SumAtLeast
  <2>3. 2 * s + n >= (2 * n) * b
    <3>1. (2 * n) * b = 2 * (n * b) /\ n * b \in Nat
      OBVIOUS
    <3> QED
      BY <2>2, <3>1
  <2>4. PICK a \in Nat, m \in Nat \ {0} : a = 2 * s + n /\ m = 2 * n
    BY <2>1
  <2>5. a \div m \in Nat /\ a \div m >= b
    BY <2>3, <2>4, DivBounds, DivGeq
  <2>6. Average(gas) = Finite(a \div m)
    BY <2>1, <2>4 DEF Average
  <2> QED
    BY <2>1, <2>5, <2>6, FiniteIsCost
<1> QED
  BY <1>6, <1>7, <1>8

-----------------------------------------------------------------------------
(* The rows of a comparison.                                               *)

\* What the prover is told of cells: the percentage that is shown follows.
Follows(cell) ==
  IsFinite(cell.prcnt) => /\ IsFinite(cell.delta) /\ cell.delta.n \in Int
                          /\ Sign(cell.delta.n) = cell.prcnt.n

LEMMA MethodRowIs ==
  ASSUME NEW new, NEW old, NEW key
  PROVE  LET row == MethodRow(new, old, key)
             u == new.methods[key]
             b == old.methods[key]
         IN  /\ row.method = key
             /\ row.min = Variation(Lowest(u), Lowest(b), BASE_TX_COST)
             /\ row.max = Variation(Highest(u), Highest(b), BASE_TX_COST)
             /\ row.avg = Variation(Average(u), Average(b), BASE_TX_COST)
BY DEF MethodRow

\* A cost that exists on both sides: its delta is zero exactly if it is the same.
LEMMA DeltaOfCosts ==
  ASSUME NEW x, NEW y, IsCost(x), IsCost(y)
  PROVE  LET cell == Variation(x, y, BASE_TX_COST)
         IN  (Truthy(cell.delta) <=> x # y) /\ Follows(cell)
<1>1. Variation(x, y, BASE_TX_COST).delta = Finite(x.n - y.n)
  BY DEF Variation, Minus, IsCost
<1>2. x.n \in Int /\ y.n \in Int /\ x = Finite(x.n) /\ y = Finite(y.n)
  BY NumberFields DEF IsCost
<1>3. Finite(x.n - y.n).n = x.n - y.n
  BY <1>2, NumberFields
<1>4. x = y <=> x.n = y.n
  BY <1>2
<1>5. BASE_TX_COST \in Nat
  BY DEF BASE_TX_COST
<1>6. Follows(Variation(x, y, BASE_TX_COST))
  BY <1>5, PercentHasTheSign DEF Follows, IsCost
<1> QED
  BY <1>1, <1>2, <1>3, <1>4, <1>6 DEF Truthy

\* A cost that exists in the update alone.
LEMMA DeltaOfFirstCosts ==
  ASSUME NEW x, IsCost(x), NEW y \in {Infinite(1), Infinite(-1), NaN}
  PROVE  LET cell == Variation(x, y, BASE_TX_COST)
         IN  /\ cell.value = x
             /\ ~IsFinite(cell.delta) /\ ~IsFinite(cell.prcnt)
             /\ y # NaN => Truthy(cell.delta)
             /\ Follows(cell)
<1> DEFINE offset == Finite(BASE_TX_COST)
           delta == Minus(x, y)
           over == Minus(y, offset)
<1>1. /\ IsFinite(x) /\ x # NaN /\ ~IsFinite(y)
      /\ IsFinite(offset) /\ offset # NaN
  BY NumberFields DEF IsCost, BASE_TX_COST
<1>2. \A s \in {1, -1} : Sign(s) = s /\ -s \in {1, -1} /\ -s # 0
  BY DEF Sign
<1>3. CASE y = NaN
  <2>1. delta = NaN /\ over = NaN
    BY <1>1, <1>3 DEF Minus
  <2>2. Over(NaN, NaN) = NaN
    BY NumberFields DEF Over
  <2> QED
    BY <1>3, <2>1, <2>2, NumberFields DEF Variation, Follows
<1>4. CASE y # NaN
  <2>1. PICK s \in {1, -1} : y = Infinite(s)
    BY <1>4
  <2>2. delta = Infinite(-s)
    <3>1. x # y /\ y.n = s
      BY <1>1, <2>1, NumberFields
    <3> QED
      BY <1>1, <1>2, <1>4, <3>1 DEF Minus
  <2>3. over = y
    BY <1>1, <1>4 DEF Minus
  <2>4. ~IsFinite(delta) /\ delta.n = -s /\ delta # NaN
    BY <1>2, <2>2, NumberFields
  <2> HIDE DEF delta, over
  <2>5. Over(delta, over) = NaN
    BY <1>1, <2>3, <2>4 DEF Over
  <2>6. /\ Variation(x, y, BASE_TX_COST).value = x
        /\ Variation(x, y, BASE_TX_COST).delta = delta
        /\ Variation(x, y, BASE_TX_COST).prcnt = NaN
    BY <2>5 DEF Variation, delta, over
  <2> QED
    BY <1>2, <2>4, <2>6, NumberFields DEF Truthy, Follows
<1> QED
  BY <1>3, <1>4

LEMMA NoCellFollows == Follows(NoCell)
BY NumberFields DEF Follows, NoCell

\* Methods of two reports, called in the update.
LEMMA CellsOfMethods ==
  ASSUME NEW u \in GasOfCalls, u # <<>>, NEW b \in GasOfCalls
  PROVE  /\ Follows(Variation(Lowest(u), Lowest(b), BASE_TX_COST))
         /\ Follows(Variation(Highest(u), Highest(b), BASE_TX_COST))
         /\ Follows(Variation(Average(u), Average(b), BASE_TX_COST))
<1>1. IsCost(Lowest(u)) /\ IsCost(Highest(u)) /\ IsCost(Average(u))
  BY CostsOfCalls
<1>2. CASE b # <<>>
  <2>1. IsCost(Lowest(b)) /\ IsCost(Highest(b)) /\ IsCost(Average(b))
    BY <1>2, CostsOfCalls
  <2> QED
    BY <1>1, <2>1, DeltaOfCosts
<1>3. CASE b = <<>>
  BY <1>1, <1>3, CostsOfNoCalls, DeltaOfFirstCosts
<1> QED
  BY <1>2, <1>3

LEMMA DeploymentRowIs ==
  ASSUME NEW new, NEW old, NEW row \in DeploymentRows(new, old)
  PROVE  /\ row.method \in {"[bytecode length]", "[construction cost]"}
         /\ row.min = NoCell /\ row.max = NoCell
         /\ \E c \in DOMAIN new.deployments \cap DOMAIN old.deployments :
              /\ new.deployments[c].gasData # <<>> /\ old.deployments[c].gasData # <<>>
              /\ \/ row.avg = Variation(Finite(new.deployments[c].size),
                                        Finite(old.deployments[c].size), 0)
                 \/ row.avg = Variation(Average(new.deployments[c].gasData),
                                        Average(old.deployments[c].gasData), BASE_TX_COST)
<1> DEFINE sizes(c) == Variation(Finite(new.deployments[c].size),
                                 Finite(old.deployments[c].size), 0)
           costs(c) == Variation(Average(new.deployments[c].gasData),
                                 Average(old.deployments[c].gasData), BASE_TX_COST)
           both == {c \in DOMAIN new.deployments \cap DOMAIN old.deployments :
                      new.deployments[c].gasData # <<>> /\ old.deployments[c].gasData # <<>>}
           Row(c, what, avg) == [contract |-> c, method |-> what,
                                 min |-> NoCell, max |-> NoCell, avg |-> avg]
<1>1. \E c \in both : \/ row = Row(c, "[bytecode length]", sizes(c))
                      \/ row = Row(c, "[construction cost]", costs(c))
  BY Zenon DEF DeploymentRows
<1> HIDE DEF sizes, costs, both
<1>2. PICK c \in both : \/ row = Row(c, "[bytecode length]", sizes(c))
                        \/ row = Row(c, "[construction cost]", costs(c))
  BY <1>1
<1>3. /\ row.method \in {"[bytecode length]", "[construction cost]"}
      /\ row.min = NoCell /\ row.max = NoCell
      /\ row.avg = sizes(c) \/ row.avg = costs(c)
  <2>1. PICK s, a : s = sizes(c) /\ a = costs(c)
    OBVIOUS
  <2>2. CASE row = Row(c, "[bytecode length]", s)
    BY <2>1, <2>2
  <2>3. CASE row = Row(c, "[construction cost]", a)
    BY <2>1, <2>3
  <2> QED
    BY <1>2, <2>1, <2>2, <2>3
<1> QED
  BY <1>3, Zenon DEF sizes, costs, both

\* In every row the percentages follow the deltas.
LEMMA RowsFollow ==
  ASSUME NEW new \in Reports, NEW old \in Reports, NEW hideEqual, NEW strictTesting,
         NEW row \in Compare(new, old, hideEqual, strictTesting), NEW cell \in Cells(row)
  PROVE  Follows(cell)
<1>1. cell = row.min \/ cell = row.max \/ cell = row.avg
  BY DEF Cells
<1>2. row \in DeploymentRows(new, old) \/ row \in MethodRows(new, old, strictTesting)
  BY DEF Compare
<1>3. CASE row \in MethodRows(new, old, strictTesting)
  <2>1. PICK key \in DOMAIN new.methods \cap DOMAIN old.methods :
          row = MethodRow(new, old, key) /\ new.methods[key] # <<>>
    BY <1>3 DEF MethodRows, IsCalled
  <2>2. new.methods[key] \in GasOfCalls /\ old.methods[key] \in GasOfCalls
    BY ReportsAssumption
  <2> QED
    BY <1>1, <2>1, <2>2, MethodRowIs, CellsOfMethods
<1>4. CASE row \in DeploymentRows(new, old)
  <2>1. PICK c \in DOMAIN new.deployments \cap DOMAIN old.deployments :
          /\ new.deployments[c].gasData # <<>> /\ old.deployments[c].gasData # <<>>
          /\ \/ row.avg = Variation(Finite(new.deployments[c].size),
                                    Finite(old.deployments[c].size), 0)
             \/ row.avg = Variation(Average(new.deployments[c].gasData),
                                    Average(old.deployments[c].gasData), BASE_TX_COST)
    BY <1>4, DeploymentRowIs
  <2>2. /\ new.deployments[c].gasData \in GasOfCalls /\ old.deployments[c].gasData \in GasOfCalls
        /\ new.deployments[c].size \in Nat /\ old.deployments[c].size \in Nat
    BY ReportsAssumption
  <2>3. Follows(Variation(Average(new.deployments[c].gasData),
                          Average(old.deployments[c].gasData), BASE_TX_COST))
    BY <2>1, <2>2, CellsOfMethods
  <2>4. Follows(Variation(Finite(new.deployments[c].size), Finite(old.deployments[c].size), 0))
    <3>1. PICK n \in Nat, o \in Nat :
            n = new.deployments[c].size /\ o = old.deployments[c].size
      BY <2>2
    <3>2. Finite(n) \in Numbers /\ Finite(o) \in Numbers /\ Finite(o).n >= 0
      BY NumberFields DEF Numbers
    <3>3. Follows(Variation(Finite(n), Finite(o), 0))
      BY <3>2, PercentHasTheSign DEF Follows
    <3> QED
      BY <3>1, <3>3
  <2> QED
    BY <1>1, <1>4, <2>1, <2>3, <2>4, NoCellFollows, DeploymentRowIs
<1> QED
  BY <1>2, <1>3, <1>4

\* A method has one row at most, and no row of a deployment has its name.
LEMMA RowOfMethod ==
  ASSUME NEW new \in Reports, NEW old \in Reports, NEW hideEqual \in BOOLEAN,
         NEW key \in DOMAIN new.methods \cap DOMAIN old.methods, new.methods[key] # <<>>
  PROVE  (\E row \in Compare(new, old, hideEqual, FALSE) : row.method = key)
           <=> (hideEqual => IsChanged(MethodRow(new, old, key)))
<1>1. MethodRow(new, old, key) \in MethodRows(new, old, FALSE)
  BY DEF MethodRows, IsCalled
<1>2. MethodRow(new, old, key).method = key
  BY MethodRowIs
<1>3. ASSUME NEW row \in Compare(new, old, hideEqual, FALSE), row.method = key
      PROVE  row = MethodRow(new, old, key)
  <2>1. row \in DeploymentRows(new, old) \/ row \in MethodRows(new, old, FALSE)
    BY DEF Compare
  <2>2. row \notin DeploymentRows(new, old)
    BY <1>3, DeploymentRowIs, ReportsAssumption
  <2>3. PICK k \in DOMAIN new.methods \cap DOMAIN old.methods : row = MethodRow(new, old, k)
    BY <2>1, <2>2 DEF MethodRows
  <2>4. k = key
    BY <1>3, <2>3, MethodRowIs
  <2> QED
    BY <2>3, <2>4
<1>4. \A row \in Compare(new, old, hideEqual, FALSE) : hideEqual => IsChanged(row)
  BY DEF Compare
<1>5. (hideEqual => IsChanged(MethodRow(new, old, key)))
        => MethodRow(new, old, key) \in Compare(new, old, hideEqual, FALSE)
  BY <1>1 DEF Compare
<1> QED
  BY <1>2, <1>3, <1>4, <1>5

LEMMA ChangedMeans ==
  ASSUME NEW new \in Reports, NEW old \in Reports,
         NEW key \in DOMAIN new.methods \cap DOMAIN old.methods, new.methods[key] # <<>>
  PROVE  /\ old.methods[key] # <<>> =>
              (IsChanged(MethodRow(new, old, key))
                 <=> ~SameCost(new.methods[key], old.methods[key]))
         /\ old.methods[key] = <<>> =>
              /\ IsChanged(MethodRow(new, old, key))
              /\ \A cell \in Cells(MethodRow(new, old, key)) :
                   IsFinite(cell.value) /\ ~IsFinite(cell.delta) /\ ~IsFinite(cell.prcnt)
<1> DEFINE u == new.methods[key]
           b == old.methods[key]
           row == MethodRow(new, old, key)
<1>1. u \in GasOfCalls /\ b \in GasOfCalls
  BY ReportsAssumption
<1>2. /\ row.min = Variation(Lowest(u), Lowest(b), BASE_TX_COST)
      /\ row.max = Variation(Highest(u), Highest(b), BASE_TX_COST)
      /\ row.avg = Variation(Average(u), Average(b), BASE_TX_COST)
  BY MethodRowIs
<1>3. IsCost(Lowest(u)) /\ IsCost(Highest(u)) /\ IsCost(Average(u))
  BY <1>1, CostsOfCalls
<1> HIDE DEF row, u, b
<1>4. ASSUME b # <<>>
      PROVE  IsChanged(row) <=> ~SameCost(u, b)
  <2>1. IsCost(Lowest(b)) /\ IsCost(Highest(b)) /\ IsCost(Average(b))
    BY <1>1, <1>4, CostsOfCalls
  <2>2. /\ Truthy(row.min.delta) <=> Lowest(u) # Lowest(b)
        /\ Truthy(row.max.delta) <=> Highest(u) # Highest(b)
        /\ Truthy(row.avg.delta) <=> Average(u) # Average(b)
    BY <1>2, <1>3, <2>1, DeltaOfCosts
  <2> QED
    BY <2>2 DEF IsChanged, SameCost
<1>5. ASSUME b = <<>>
      PROVE  /\ IsChanged(row)
             /\ \A cell \in Cells(row) :
                  IsFinite(cell.value) /\ ~IsFinite(cell.delta) /\ ~IsFinite(cell.prcnt)
  <2>1. Lowest(b) = Infinite(1) /\ Highest(b) = Infinite(-1) /\ Average(b) = NaN
    BY <1>5, CostsOfNoCalls
  <2>2. Infinite(1) # NaN
    BY NumberFields
  <2>3. Truthy(row.min.delta)
    BY <1>2, <1>3, <2>1, <2>2, DeltaOfFirstCosts
  <2>4. \A cell \in {row.min, row.max, row.avg} :
          IsFinite(cell.value) /\ ~IsFinite(cell.delta) /\ ~IsFinite(cell.prcnt)
    BY <1>2, <1>3, <2>1, DeltaOfFirstCosts DEF IsCost
  <2> QED
    BY <2>3, <2>4 DEF IsChanged, Cells
<1> QED
  BY <1>4, <1>5 DEF row, u, b

-----------------------------------------------------------------------------

\* What a comparison has shown is a comparison of reports.
GasIInv ==
  /\ base = <<>> \/ base[1] \in Reports
  /\ outcome = "compared" =>
       /\ base[1] \in Reports /\ update[1] \in Reports
       /\ rows = Compare(update[1], base[1], HideEqual, StrictTesting)
  /\ outcome # "compared" => rows = {}

LEMMA GasInvariant == GasSpec => []GasIInv
<1>1. GasInit => GasIInv
  BY DEF GasInit, GasIInv
<1>2. ASSUME GasIInv, [GasNext]_gasVars
      PROVE  GasIInv'
  <2>1. CASE Push
    <3>1. PICK r \in Reports : base' = <<r>>
      BY <2>1 DEF Push
    <3>2. base'[1] \in Reports
      BY <3>1
    <3>3. outcome = "none" /\ rows' = rows /\ outcome' = outcome
      BY <2>1 DEF Push
    <3> QED
      BY <1>2, <3>2, <3>3 DEF GasIInv
  <2>2. CASE PullRequest
    <3>1. PICK r \in Reports :
            /\ update' = <<r>>
            /\ IF r.metadata = base[1].metadata
               THEN /\ rows' = Compare(r, base[1], HideEqual, StrictTesting)
                    /\ outcome' = "compared"
               ELSE /\ rows' = {}
                    /\ outcome' = "thrown"
      BY <2>2 DEF PullRequest
    <3>2. base # <<>> /\ base' = base /\ base[1] \in Reports
      BY <1>2, <2>2 DEF PullRequest, GasIInv
    <3>3. update'[1] = r
      BY <3>1
    <3> QED
      BY <3>1, <3>2, <3>3 DEF GasIInv
  <2>3. CASE UNCHANGED gasVars
    BY <1>2, <2>3 DEF GasIInv, gasVars
  <2> QED
    BY <1>2, <2>1, <2>2, <2>3 DEF GasNext
<1> QED
  BY <1>1, <1>2, PTL DEF GasSpec

\* Report.compare hides a row only if no cost of the method has changed, shows no
\* change where the base has no calls, and shows percentages that go the way of
\* their deltas, for any reports of transactions that pay BASE_TX_COST.
THEOREM ComparisonsAreExact == GasSpec => []RowsAreExact
<1>1. ASSUME GasIInv
      PROVE  RowsAreExact
  <2> DEFINE u == update[1]
             b == base[1]
  <2>1. outcome = "compared" =>
          /\ b \in Reports /\ u \in Reports
          /\ rows = Compare(u, b, HideEqual, StrictTesting)
    BY <1>1 DEF GasIInv
  <2>2. ChangesAreShown
    <3> SUFFICES ASSUME outcome = "compared", HideEqual, ~StrictTesting,
                        NEW key \in DOMAIN u.methods,
                        Measured(u, key), Measured(b, key)
                 PROVE  ~SameCost(u.methods[key], b.methods[key])
                          <=> \E row \in rows : row.method = key
      BY DEF ChangesAreShown
    <3>1. /\ key \in DOMAIN u.methods \cap DOMAIN b.methods
          /\ u.methods[key] # <<>> /\ b.methods[key] # <<>>
      BY DEF Measured
    <3>2. HideEqual = TRUE /\ StrictTesting = FALSE
      BY OptionsAssumption
    <3>3. b \in Reports /\ u \in Reports /\ rows = Compare(u, b, TRUE, FALSE)
      BY <2>1, <3>2
    <3> HIDE DEF u, b
    <3>4. (\E row \in rows : row.method = key) <=> IsChanged(MethodRow(u, b, key))
      <4>1. TRUE \in BOOLEAN
        OBVIOUS
      <4>2. (\E row \in Compare(u, b, TRUE, FALSE) : row.method = key)
              <=> (TRUE => IsChanged(MethodRow(u, b, key)))
        BY <3>1, <3>3, <4>1, RowOfMethod
      <4> QED
        BY <3>3, <4>2
    <3> QED
      BY <3>1, <3>3, <3>4, ChangedMeans
  <2>3. FirstCallsShowNoChange
    <3> SUFFICES ASSUME outcome = "compared", ~StrictTesting,
                        NEW key \in DOMAIN u.methods \cap DOMAIN b.methods,
                        Measured(u, key), ~Measured(b, key)
                 PROVE  \E row \in rows : row.method = key /\
                          \A cell \in Cells(row) :
                            Shown(cell.value) /\ ~Shown(cell.delta) /\ ~Shown(cell.prcnt)
      BY DEF FirstCallsShowNoChange
    <3>1. u.methods[key] # <<>> /\ b.methods[key] = <<>>
      BY DEF Measured
    <3>2. StrictTesting = FALSE /\ HideEqual \in BOOLEAN
      BY OptionsAssumption
    <3>3. b \in Reports /\ u \in Reports /\ rows = Compare(u, b, HideEqual, FALSE)
      BY <2>1, <3>2
    <3> HIDE DEF u, b
    <3>4. MethodRow(u, b, key) \in MethodRows(u, b, FALSE)
      BY <3>1 DEF MethodRows, IsCalled
    <3>5. /\ IsChanged(MethodRow(u, b, key))
          /\ \A cell \in Cells(MethodRow(u, b, key)) :
               IsFinite(cell.value) /\ ~IsFinite(cell.delta) /\ ~IsFinite(cell.prcnt)
      BY <3>1, <3>3, ChangedMeans
    <3>6. MethodRow(u, b, key) \in rows
      BY <3>3, <3>4, <3>5 DEF Compare
    <3>7. MethodRow(u, b, key).method = key
      BY MethodRowIs
    <3> QED
      BY <3>5, <3>6, <3>7 DEF Shown
  <2>4. PercentFollowsDelta
    <3> SUFFICES ASSUME NEW row \in rows, NEW cell \in Cells(row), IsFinite(cell.prcnt)
                 PROVE  /\ Shown(cell.delta)
                        /\ Sign(cell.delta.n) = cell.prcnt.n
                        /\ Trend(cell) = (IF cell.prcnt.n > 0 THEN ":x:" ELSE
                              IF cell.prcnt.n < 0 THEN ":heavy_check_mark:"
                              ELSE ":heavy_minus_sign:")
      BY DEF PercentFollowsDelta, Shown
    <3>1. outcome = "compared"
      BY <1>1 DEF GasIInv
    <3>2. Follows(cell)
      BY <2>1, <3>1, RowsFollow
    <3>3. IsFinite(cell.delta) /\ cell.delta.n \in Int /\ Sign(cell.delta.n) = cell.prcnt.n
      BY <3>2 DEF Follows
    <3> QED
      BY <3>3 DEF Shown, Trend, Sign
  <2> QED
    BY <2>2, <2>3, <2>4 DEF RowsAreExact
<1> QED
  BY <1>1, GasInvariant, PTL

-----------------------------------------------------------------------------
(* The inheritance check.                                                  *)

Chain(p, c) == Linearization(p.bases, c)

\* In a chain that names nothing twice, pairs are in the order of positions.
LEMMA PairsAreOrdered ==
  ASSUME NEW chain \in Seq(Nat), IsInjective(chain), NEW x, NEW y
  PROVE  <<x, y>> \in OrderedPairs(chain)
           <=> {x, y} \subseteq ToSet(chain) /\ Position(chain, x) < Position(chain, y)
<1>1. Len(chain) \in Nat /\ DOMAIN chain = 1 .. Len(chain)
  OBVIOUS
<1>2. ASSUME NEW i \in 1 .. Len(chain)
      PROVE  Position(chain, chain[i]) = i
  BY <1>1 DEF Position, IsInjective
<1>3. ASSUME <<x, y>> \in OrderedPairs(chain)
      PROVE  {x, y} \subseteq ToSet(chain) /\ Position(chain, x) < Position(chain, y)
  <2>0. PICK i \in 1 .. Len(chain) :
          \E j \in i + 1 .. Len(chain) : <<x, y>> = <<chain[i], chain[j]>>
    BY <1>1, <1>3 DEF OrderedPairs
  <2>1. PICK j \in i + 1 .. Len(chain) : <<x, y>> = <<chain[i], chain[j]>>
    BY <2>0
  <2>2. x = chain[i] /\ y = chain[j] /\ j \in 1 .. Len(chain) /\ i < j
    BY <1>1, <2>1
  <2> QED
    BY <1>1, <1>2, <2>2 DEF ToSet
<1>4. ASSUME {x, y} \subseteq ToSet(chain), Position(chain, x) < Position(chain, y)
      PROVE  <<x, y>> \in OrderedPairs(chain)
  <2>1. PICK i \in 1 .. Len(chain), j \in 1 .. Len(chain) : x = chain[i] /\ y = chain[j]
    BY <1>1, <1>4 DEF ToSet
  <2>2. i < j
    BY <1>2, <1>4, <2>1
  <2>3. j \in i + 1 .. Len(chain)
    BY <1>1, <2>2
  <2>4. <<chain[i], chain[j]>> \in {<<chain[i], chain[k]>> : k \in i + 1 .. Len(chain)}
    BY <2>3
  <2> QED
    BY <1>1, <2>1, <2>4 DEF OrderedPairs
<1> QED
  BY <1>3, <1>4

LEMMA PositionIsNumber ==
  ASSUME NEW chain \in Seq(Nat), IsInjective(chain), NEW c \in ToSet(chain)
  PROVE  Position(chain, c) \in Nat
<1>1. Len(chain) \in Nat /\ DOMAIN chain = 1 .. Len(chain)
  OBVIOUS
<1>2. PICK i \in 1 .. Len(chain) : c = chain[i]
  BY <1>1 DEF ToSet
<1>3. Position(chain, c) = i
  BY <1>1, <1>2 DEF Position, IsInjective
<1> QED
  BY <1>3

\* Pairs are pairs, of two different contracts.
LEMMA PairsAreProper ==
  ASSUME NEW chain \in Seq(Nat), IsInjective(chain), NEW pair \in OrderedPairs(chain)
  PROVE  pair = <<pair[1], pair[2]>> /\ pair[1] # pair[2]
<1>1. Len(chain) \in Nat /\ DOMAIN chain = 1 .. Len(chain)
  OBVIOUS
<1>0. PICK i \in 1 .. Len(chain) :
        \E j \in i + 1 .. Len(chain) : pair = <<chain[i], chain[j]>>
  BY <1>1 DEF OrderedPairs
<1>2. PICK j \in i + 1 .. Len(chain) : pair = <<chain[i], chain[j]>>
  BY <1>0
<1>3. j \in 1 .. Len(chain) /\ i # j
  BY <1>1, <1>2
<1>4. chain[i] # chain[j]
  BY <1>1, <1>3 DEF IsInjective
<1> QED
  BY <1>2, <1>4

LEMMA ArtifactsAre ==
  ASSUME artifacts \in Builds
  PROVE  /\ Len(artifacts) \in Nat /\ DOMAIN artifacts = 1 .. Len(artifacts)
         /\ \A i \in 1 .. Len(artifacts) :
              LET p == artifacts[i]
              IN  /\ Len(p.bases) \in Nat /\ DOMAIN p.bases = 1 .. Len(p.bases)
                  /\ Checked(p) = {c \in 1 .. Len(p.bases) : c \notin p.mocks}
                  /\ \A c \in Checked(p) : Chain(p, c) \in Seq(Nat) /\ IsInjective(Chain(p, c))
<1>1. PICK S : S = [bases : Seq(Seq(Nat)), mocks : SUBSET Nat]
  OBVIOUS
<1>2. artifacts \in Seq(S)
  BY <1>1, LinearizationAssumption
<1>3. /\ Len(artifacts) \in Nat /\ DOMAIN artifacts = 1 .. Len(artifacts)
      /\ \A i \in 1 .. Len(artifacts) : artifacts[i] \in S
  BY <1>2
<1>4. ASSUME NEW i \in 1 .. Len(artifacts)
      PROVE  /\ Len(artifacts[i].bases) \in Nat
             /\ DOMAIN artifacts[i].bases = 1 .. Len(artifacts[i].bases)
  <2>1. artifacts[i].bases \in Seq(Seq(Nat))
    BY <1>1, <1>3
  <2> QED
    BY <2>1
<1>5. ASSUME NEW i \in 1 .. Len(artifacts), NEW c \in Checked(artifacts[i])
      PROVE  Chain(artifacts[i], c) \in Seq(Nat) /\ IsInjective(Chain(artifacts[i], c))
  BY <1>3, LinearizationAssumption DEF Chain
<1> QED
  BY <1>3, <1>4, <1>5 DEF Checked

\* The contracts of the present artifact that have been visited.
Seen == {c \in 1 .. visited : c \notin artifacts[current].mocks}

\* A report tells, of each of the first artifacts, the contracts opposed there.
ReportIsOf(build, count, conflicts) ==
  \A i \in 1 .. count : \A x, y \in DOMAIN build[i].bases :
    x < y => (Opposed(build[i], x, y) <=> \E r \in conflicts : r.at = i /\ r.pair = <<x, y>>)

\* While the loop is in an artifact, graph and chains are those of the contracts
\* seen in it; what is reported is what the artifacts before it show.
OrderingIInv ==
  /\ artifacts \in Builds
  /\ current \in 1 .. Len(artifacts) + 1
  /\ InLoop =>
       /\ visited \in 0 .. Len(Bases)
       /\ linearized = {Chain(artifacts[current], c) : c \in Seen}
       /\ edges = UNION {OrderedPairs(Chain(artifacts[current], c)) : c \in Seen}
  /\ ~InLoop => edges = {}
  /\ ReportIsOf(artifacts, current - 1, report)
  /\ \A r \in report : r.above # {} /\ r.below # {} /\ r.at \in 1 .. current - 1
  /\ exitCode = IF report = {} THEN 0 ELSE 1
  /\ consistent \in BOOLEAN
  /\ consistent => ~InLoop /\ exitCode = 0

LEMMA OrderingInitOK == OrderingInit => OrderingIInv
<1> SUFFICES ASSUME OrderingInit
             PROVE  OrderingIInv
  OBVIOUS
<1>1. /\ artifacts \in Builds /\ current = 1 /\ visited = 0 /\ edges = {} /\ linearized = {}
      /\ report = {} /\ exitCode = 0 /\ consistent = FALSE
  BY DEF OrderingInit, NothingVisited
<1>2. Len(artifacts) \in Nat
  BY <1>1, ArtifactsAre
<1>3. Seen = {}
  BY <1>1 DEF Seen
<1>4. InLoop => visited \in 0 .. Len(Bases)
  BY <1>1, <1>2, ArtifactsAre DEF InLoop, Bases
<1>5. current \in 1 .. Len(artifacts) + 1 /\ 1 .. current - 1 = {}
  BY <1>1, <1>2
<1>6. ReportIsOf(artifacts, current - 1, report)
  BY <1>5 DEF ReportIsOf
<1> QED
  BY <1>1, <1>3, <1>4, <1>5, <1>6 DEF OrderingIInv

LEMMA Present ==
  ASSUME OrderingIInv, InLoop
  PROVE  /\ current \in 1 .. Len(artifacts) /\ current \in Nat /\ Len(artifacts) \in Nat
         /\ Len(Bases) \in Nat /\ visited \in 0 .. Len(Bases)
         /\ Seen \subseteq Checked(artifacts[current])
         /\ visited = Len(Bases) => Seen = Checked(artifacts[current])
         /\ \A c \in Seen : /\ Chain(artifacts[current], c) \in Seq(Nat)
                            /\ IsInjective(Chain(artifacts[current], c))
<1>1. current \in 1 .. Len(artifacts) /\ current \in Nat /\ Len(artifacts) \in Nat
  BY ArtifactsAre DEF OrderingIInv, InLoop
<1>2. /\ Len(Bases) \in Nat /\ visited \in 0 .. Len(Bases)
      /\ Checked(artifacts[current]) = {c \in 1 .. Len(Bases) : c \notin artifacts[current].mocks}
  BY <1>1, ArtifactsAre DEF OrderingIInv, Bases
<1>3. Seen \subseteq Checked(artifacts[current])
  BY <1>2 DEF Seen
<1>4. visited = Len(Bases) => Seen = Checked(artifacts[current])
  BY <1>2 DEF Seen
<1> QED
  BY <1>1, <1>2, <1>3, <1>4, ArtifactsAre DEF OrderingIInv

LEMMA EdgesMean ==
  ASSUME OrderingIInv, InLoop
  PROVE  /\ \A x, y : <<x, y>> \in edges <=>
              \E c \in Seen :
                LET chain == Chain(artifacts[current], c)
                IN  {x, y} \subseteq ToSet(chain) /\ Position(chain, x) < Position(chain, y)
         /\ \A pair \in edges : pair = <<pair[1], pair[2]>> /\ pair[1] # pair[2]
<1>1. \A e : e \in edges <=> \E c \in Seen : e \in OrderedPairs(Chain(artifacts[current], c))
  BY DEF OrderingIInv
<1>2. ASSUME NEW x, NEW y, NEW c \in Seen
      PROVE  <<x, y>> \in OrderedPairs(Chain(artifacts[current], c)) <=>
               LET chain == Chain(artifacts[current], c)
               IN  {x, y} \subseteq ToSet(chain) /\ Position(chain, x) < Position(chain, y)
  BY Present, PairsAreOrdered
<1>3. ASSUME NEW pair \in edges
      PROVE  pair = <<pair[1], pair[2]>> /\ pair[1] # pair[2]
  <2>1. PICK c \in Seen : pair \in OrderedPairs(Chain(artifacts[current], c))
    BY <1>1
  <2> QED
    BY <2>1, Present, PairsAreProper
<1> QED
  BY <1>1, <1>2, <1>3

LEMMA SkipMockOK == ASSUME OrderingIInv, SkipMock PROVE OrderingIInv'
<1>1. /\ InLoop /\ visited < Len(Bases) /\ visited + 1 \in artifacts[current].mocks
      /\ visited' = visited + 1
      /\ UNCHANGED <<artifacts, current, edges, linearized, report, exitCode, consistent>>
  BY DEF SkipMock
<1>2. visited \in Nat /\ visited' \in 0 .. Len(Bases)
  BY <1>1, Present
<1>3. Seen' = Seen
  BY <1>1, <1>2 DEF Seen
<1>4. Bases' = Bases /\ InLoop' = InLoop
  BY <1>1 DEF Bases, InLoop
<1> QED
  BY <1>1, <1>2, <1>3, <1>4 DEF OrderingIInv

LEMMA VisitOK == ASSUME OrderingIInv, Visit PROVE OrderingIInv'
<1> DEFINE chain == Linearization(Bases, visited + 1)
<1>1. /\ InLoop /\ visited < Len(Bases) /\ visited + 1 \notin artifacts[current].mocks
      /\ visited' = visited + 1
      /\ linearized' = linearized \union {chain}
      /\ edges' = edges \union OrderedPairs(chain)
      /\ UNCHANGED <<artifacts, current, report, exitCode, consistent>>
  BY DEF Visit
<1>2. visited \in Nat /\ visited' \in 0 .. Len(Bases)
  BY <1>1, Present
<1>3. Seen' = Seen \union {visited + 1}
  BY <1>1, <1>2 DEF Seen
<1>4. Bases' = Bases /\ InLoop' = InLoop
  BY <1>1 DEF Bases, InLoop
<1>5. chain = Chain(artifacts[current], visited + 1)
  BY DEF Chain, Bases
<1> HIDE DEF chain
<1>6. linearized' = {Chain(artifacts[current], c) : c \in Seen'}
  BY <1>1, <1>3, <1>5 DEF OrderingIInv
<1>7. edges' = UNION {OrderedPairs(Chain(artifacts[current], c)) : c \in Seen'}
  <2>1. edges = UNION {OrderedPairs(Chain(artifacts[current], c)) : c \in Seen}
    BY <1>1 DEF OrderingIInv
  <2> QED
    BY <1>1, <1>3, <1>5, <2>1
<1> QED
  BY <1>1, <1>2, <1>4, <1>6, <1>7 DEF OrderingIInv

\* What the comparison of all pairs of nodes finds, once every contract is seen.
LEMMA ComparisonFinds ==
  ASSUME OrderingIInv, InLoop, visited = Len(Bases)
  PROVE  /\ \A x, y \in DOMAIN Bases : x < y =>
              (Opposed(artifacts[current], x, y) <=> <<x, y>> \in Conflicts)
         /\ \A pair \in Conflicts : /\ pair = <<pair[1], pair[2]>>
                                    /\ ChainsAbove(pair[1], pair[2]) # {}
                                    /\ ChainsAbove(pair[2], pair[1]) # {}
<1>1. Seen = Checked(artifacts[current])
  BY Present
<1>2. ASSUME NEW x, NEW y
      PROVE  Opposed(artifacts[current], x, y) <=> <<x, y>> \in edges /\ <<y, x>> \in edges
  <2> DEFINE Shows(c, a, b) == LET chain == Chain(artifacts[current], c)
                               IN  /\ {a, b} \subseteq ToSet(chain)
                                   /\ Position(chain, a) < Position(chain, b)
  <2>1. \A a, b : <<a, b>> \in edges <=> \E c \in Seen : Shows(c, a, b)
    BY EdgesMean
  <2>2. Opposed(artifacts[current], x, y) <=> \E c, d \in Seen : Shows(c, x, y) /\ Shows(d, y, x)
    BY <1>1 DEF Opposed, Chain
  <2> HIDE DEF Shows
  <2> QED
    BY <2>1, <2>2
<1>3. \A x, y : <<x, y>> \in Conflicts <=>
        <<x, y>> \in edges /\ x < y /\ <<y, x>> \in edges
  BY DEF Conflicts
<1>4. ASSUME NEW x, NEW y, <<x, y>> \in edges
      PROVE  ChainsAbove(x, y) # {}
  <2>1. PICK c \in Seen :
          LET chain == Chain(artifacts[current], c)
          IN  {x, y} \subseteq ToSet(chain) /\ Position(chain, x) < Position(chain, y)
    BY <1>4, EdgesMean
  <2>2. Chain(artifacts[current], c) \in linearized
    BY DEF OrderingIInv
  <2> QED
    BY <2>1, <2>2 DEF ChainsAbove
<1>5. ASSUME NEW pair \in Conflicts
      PROVE  /\ pair = <<pair[1], pair[2]>>
             /\ ChainsAbove(pair[1], pair[2]) # {} /\ ChainsAbove(pair[2], pair[1]) # {}
  <2>1. pair \in edges /\ <<pair[2], pair[1]>> \in edges
    BY DEF Conflicts
  <2>2. pair = <<pair[1], pair[2]>>
    BY <2>1, EdgesMean
  <2>3. <<pair[1], pair[2]>> \in edges
    BY <2>1, <2>2
  <2> QED
    BY <1>4, <2>1, <2>2, <2>3
<1> QED
  BY <1>2, <1>3, <1>5

LEMMA ComparePairsOK == ASSUME OrderingIInv, ComparePairs PROVE OrderingIInv'
<1>1. /\ InLoop /\ visited = Len(Bases)
      /\ report' = report \union {Conflict(pair) : pair \in Conflicts}
      /\ exitCode' = IF Conflicts = {} THEN exitCode ELSE 1
      /\ current' = current + 1 /\ visited' = 0 /\ edges' = {} /\ linearized' = {}
      /\ artifacts' = artifacts /\ consistent' = consistent
  BY DEF ComparePairs, FreshGraph
<1>2. current \in 1 .. Len(artifacts) /\ current \in Nat /\ Len(artifacts) \in Nat
  BY <1>1, Present
<1>3. \A pair \in Conflicts :
        /\ Conflict(pair).at = current /\ Conflict(pair).pair = pair
        /\ Conflict(pair).above # {} /\ Conflict(pair).below # {}
  BY <1>1, ComparisonFinds DEF Conflict
<1>4. current' \in 1 .. Len(artifacts') + 1
  BY <1>1, <1>2
<1>5. Seen' = {}
  BY <1>1 DEF Seen
<1>6. InLoop' => visited' \in 0 .. Len(Bases')
  <2>1. InLoop' => Len(Bases') \in Nat
    BY <1>1, <1>2, ArtifactsAre DEF InLoop, Bases, OrderingIInv
  <2> QED
    BY <1>1, <2>1
<1>7. ReportIsOf(artifacts, current, report')
  <2>0. ReportIsOf(artifacts, current - 1, report)
    BY DEF OrderingIInv
  <2> SUFFICES ASSUME NEW i \in 1 .. current, NEW x \in DOMAIN artifacts[i].bases,
                      NEW y \in DOMAIN artifacts[i].bases, x < y
               PROVE  Opposed(artifacts[i], x, y)
                        <=> \E r \in report' : r.at = i /\ r.pair = <<x, y>>
    BY DEF ReportIsOf
  <2>1. CASE i = current
    <3>1. Opposed(artifacts[i], x, y) <=> <<x, y>> \in Conflicts
      BY <1>1, <2>1, ComparisonFinds DEF Bases
    <3>2. \A r \in report : r.at # i
      BY <1>2, <2>1 DEF OrderingIInv
    <3>3. ASSUME NEW r \in report', r.at = i, r.pair = <<x, y>>
          PROVE  <<x, y>> \in Conflicts
      <4>1. PICK pair \in Conflicts : r = Conflict(pair)
        BY <1>1, <3>2, <3>3
      <4> QED
        BY <1>3, <3>3, <4>1
    <3>4. ASSUME <<x, y>> \in Conflicts
          PROVE  \E r \in report' : r.at = i /\ r.pair = <<x, y>>
      <4>1. Conflict(<<x, y>>) \in report'
        BY <1>1, <3>4
      <4>2. Conflict(<<x, y>>).at = i /\ Conflict(<<x, y>>).pair = <<x, y>>
        BY <1>3, <2>1, <3>4
      <4> QED
        BY <4>1, <4>2, Zenon
    <3> QED
      BY <3>1, <3>3, <3>4
  <2>2. CASE i # current
    <3>1. i \in 1 .. current - 1
      BY <1>2, <2>2
    <3>2. \A pair \in Conflicts : Conflict(pair).at # i
      BY <1>3, <2>2
    <3>3. Opposed(artifacts[i], x, y) <=> \E r \in report : r.at = i /\ r.pair = <<x, y>>
      BY <2>0, <3>1 DEF ReportIsOf
    <3>4. \A r \in report' : r.at = i <=> r \in report /\ r.at = i
      BY <1>1, <3>2
    <3>5. report \subseteq report'
      BY <1>1
    <3> QED
      BY <3>3, <3>4, <3>5
  <2> QED
    BY <2>1, <2>2
<1>8. \A r \in report' : r.above # {} /\ r.below # {} /\ r.at \in 1 .. current' - 1
  <2>1. \A r \in report : r.above # {} /\ r.below # {} /\ r.at \in 1 .. current - 1
    BY DEF OrderingIInv
  <2>2. current \in 1 .. current' - 1 /\ 1 .. current - 1 \subseteq 1 .. current' - 1
    BY <1>1, <1>2
  <2> QED
    BY <1>1, <1>3, <2>1, <2>2
<1>9. exitCode' = IF report' = {} THEN 0 ELSE 1
  <2>1. exitCode = IF report = {} THEN 0 ELSE 1
    BY DEF OrderingIInv
  <2> QED
    BY <1>1, <2>1
<1>10. consistent = FALSE
  BY <1>1 DEF OrderingIInv
<1>11. ReportIsOf(artifacts', current' - 1, report')
  <2>1. current' - 1 = current
    BY <1>1, <1>2
  <2> QED
    BY <1>1, <1>7, <2>1
<1>12. artifacts' \in Builds
  BY <1>1 DEF OrderingIInv
<1> QED
  BY <1>1, <1>4, <1>5, <1>6, <1>8, <1>9, <1>10, <1>11, <1>12 DEF OrderingIInv

LEMMA ConcludeOK == ASSUME OrderingIInv, Conclude PROVE OrderingIInv'
<1>1. /\ ~InLoop /\ exitCode = 0 /\ consistent' = TRUE
      /\ UNCHANGED <<artifacts, current, visited, edges, linearized, report, exitCode>>
  BY DEF Conclude
<1>2. InLoop' = InLoop
  BY <1>1 DEF InLoop
<1> QED
  BY <1>1, <1>2 DEF OrderingIInv

LEMMA OrderingInvariant == OrderingSpec => []OrderingIInv
<1>1. ASSUME OrderingIInv, UNCHANGED orderingVars
      PROVE  OrderingIInv'
  BY <1>1 DEF OrderingIInv, orderingVars, InLoop, Seen, Bases
<1>2. OrderingIInv /\ [OrderingNext]_orderingVars => OrderingIInv'
  BY <1>1, SkipMockOK, VisitOK, ComparePairsOK, ConcludeOK DEF OrderingNext
<1> QED
  BY <1>2, OrderingInitOK, PTL DEF OrderingSpec

\* However solc linearizes, as long as a linearization names nothing twice: for
\* each artifact by itself the script prints exactly the pairs of contracts that
\* come in both orders, with chains of both kinds, and fails exactly if there are
\* any: since all pairs of a chain are edges, a cycle of length two is a conflict
\* of two contracts and the other way round (line 33).
THEOREM ConflictsAreFound == OrderingSpec => []ConflictsAreExact
<1>1. ASSUME OrderingIInv
      PROVE  ConflictsAreExact
  <2>0. artifacts \in Builds
    BY <1>1 DEF OrderingIInv
  <2>1. /\ Len(artifacts) \in Nat /\ DOMAIN artifacts = 1 .. Len(artifacts)
        /\ \A i \in 1 .. Len(artifacts) :
             Len(artifacts[i].bases) \in Nat /\ DOMAIN artifacts[i].bases = 1 .. Len(artifacts[i].bases)
    BY <2>0, ArtifactsAre
  <2>2. OrderingTypeOK
    <3>1. \A pair \in edges : pair[1] # pair[2]
      BY <1>1, EdgesMean DEF OrderingIInv
    <3> QED
      BY <1>1, <3>1 DEF OrderingIInv, OrderingTypeOK
  <2>3. ConflictsAreReal
    <3>1. exitCode = 1 <=> report # {}
      BY <1>1 DEF OrderingIInv
    <3>2. ASSUME consistent, NEW i \in DOMAIN artifacts,
                 NEW x \in DOMAIN artifacts[i].bases, NEW y \in DOMAIN artifacts[i].bases
          PROVE  ~Opposed(artifacts[i], x, y)
      <4>1. report = {} /\ current = Len(artifacts) + 1
        BY <1>1, <2>1, <3>2 DEF OrderingIInv, InLoop
      <4>2. i \in 1 .. current - 1 /\ x \in Nat /\ y \in Nat
        BY <2>1, <4>1
      <4>3. \A a, b \in DOMAIN artifacts[i].bases : a < b => ~Opposed(artifacts[i], a, b)
        BY <1>1, <4>1, <4>2 DEF OrderingIInv, ReportIsOf
      <4>4. Opposed(artifacts[i], x, y) => Opposed(artifacts[i], y, x)
        BY DEF Opposed
      <4>5. x = y => ~Opposed(artifacts[i], x, y)
        <5>1. ASSUME NEW c \in Checked(artifacts[i]), x \in ToSet(Chain(artifacts[i], c))
              PROVE  Position(Chain(artifacts[i], c), x) \in Nat
          <6>1. /\ Chain(artifacts[i], c) \in Seq(Nat) /\ IsInjective(Chain(artifacts[i], c))
            BY <2>0, <2>1, ArtifactsAre
          <6> QED
            BY <5>1, <6>1, PositionIsNumber
        <5>2. \A c \in Checked(artifacts[i]) : {x, x} \subseteq ToSet(Chain(artifacts[i], c)) =>
                ~(Position(Chain(artifacts[i], c), x) < Position(Chain(artifacts[i], c), x))
          BY <5>1
        <5> QED
          BY <5>2 DEF Opposed, Chain
      <4> QED
        BY <4>2, <4>3, <4>4, <4>5
    <3>3. ReportIsOf(artifacts, current - 1, report)
      BY <1>1 DEF OrderingIInv
    <3>4. \A i \in 1 .. current - 1 : \A x, y \in DOMAIN artifacts[i].bases :
            x < y => (Opposed(artifacts[i], x, y)
                        <=> \E r \in report : r.at = i /\ r.pair = <<x, y>>)
      BY <3>3 DEF ReportIsOf
    <3> QED
      BY <3>1, <3>2, <3>4 DEF ConflictsAreReal
  <2>4. ConflictsShowBothSides
    BY <1>1 DEF OrderingIInv, ConflictsShowBothSides
  <2> QED
    BY <2>2, <2>3, <2>4 DEF ConflictsAreExact
<1> QED
  BY <1>1, OrderingInvariant, PTL
=============================================================================
