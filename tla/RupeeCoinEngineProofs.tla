----------------------- MODULE RupeeCoinEngineProofs -----------------------
(***************************************************************************)
(* Proofs about the engine, for any users, tokens, prices and amounts and  *)
(* any width of the integers.                                              *)
(***************************************************************************)
EXTENDS RupeeCoinEngine, RupeeCoinProofs

\* Ledgers are sound, what is on record is covered by what is held.
PositionsTypeOK ==
  /\ s_collateralDeposited \in [Users -> [Tokens -> UInt]]
  /\ s_coinMinted \in [Users -> UInt]

TokensSound ==
  /\ tokens \in [Tokens -> Ledger]
  /\ \A t \in Tokens : Sound(tokens[t])

\* The inductive invariant.
EngineIInv ==
  /\ CoinIInv
  /\ PositionsTypeOK
  /\ TokensSound
  /\ price \in [Tokens -> UInt]
  /\ CollateralInCustody
  /\ SupplyIsOwed

LEMMA EngineIInvImplies ==
  ASSUME EngineIInv
  PROVE  TypeOK /\ CollateralInCustody /\ SupplyIsOwed
BY CoinIInvImplies DEF EngineIInv, PositionsTypeOK, TokensSound, TypeOK

LEMMA Accounts ==
  /\ \A u \in Users : u \in Senders /\ u \in Addresses /\ u # Engine
  /\ Engine \in Senders /\ Engine \in Addresses
  /\ Deployer \in Senders
  /\ IsFiniteSet(Users)
<1>1. Users \subseteq Addresses /\ IsFiniteSet(Addresses)
  BY AccountAssumption, AddressAssumption DEF Senders
<1>2. IsFiniteSet(Users)
  BY <1>1, FS_Subset
<1> QED
  BY <1>2, AccountAssumption DEF Senders

-----------------------------------------------------------------------------
(* How the totals follow a change of one position.                         *)

LEMMA TotalsInt ==
  ASSUME PositionsTypeOK
  PROVE  /\ TotalMinted \in Nat
         /\ \A u \in Users : s_coinMinted[u] <= TotalMinted
         /\ \A t \in Tokens : Deposited(t) \in Nat
<1>1. s_coinMinted \in [Users -> Nat]
  BY DEF PositionsTypeOK, UInt
<1>2. TotalMinted \in Nat /\ \A u \in Users : s_coinMinted[u] <= TotalMinted
  BY <1>1, Accounts, SumFunctionNat DEF TotalMinted
<1>3. ASSUME NEW t \in Tokens
      PROVE  Deposited(t) \in Nat
  <2> DEFINE f == [u \in Users |-> s_collateralDeposited[u][t]]
  <2>1. f \in [Users -> Nat]
    BY DEF PositionsTypeOK, UInt
  <2>2. SumFunction(f) \in Nat
    <3> HIDE DEF f
    <3> QED
      BY <2>1, Accounts, SumFunctionNat
  <2> QED
    BY <2>2 DEF Deposited
<1> QED
  BY <1>2, <1>3

LEMMA MintedUpdate ==
  ASSUME PositionsTypeOK, NEW u \in Users, NEW n \in UInt,
         s_coinMinted' = [s_coinMinted EXCEPT ![u] = n]
  PROVE  /\ s_coinMinted' \in [Users -> UInt]
         /\ TotalMinted' = TotalMinted - s_coinMinted[u] + n
<1>1. s_coinMinted' \in [Users -> UInt]
  BY DEF PositionsTypeOK
<1>2. s_coinMinted \in [Users -> Int] /\ s_coinMinted' \in [Users -> Int]
  BY <1>1 DEF PositionsTypeOK, UInt
<1>3. \A v \in Users \ {u} : s_coinMinted'[v] = s_coinMinted[v]
  BY DEF PositionsTypeOK
<1>4. s_coinMinted'[u] = n
  BY DEF PositionsTypeOK
<1> DEFINE f == s_coinMinted
           g == s_coinMinted'
<1>5. SumFunction(g) = SumFunction(f) - f[u] + g[u]
  <2>1. f \in [Users -> Int] /\ g \in [Users -> Int] /\ \A v \in Users \ {u} : g[v] = f[v]
    BY <1>2, <1>3
  <2> HIDE DEF f, g
  <2> QED
    BY <2>1, Accounts, SumFunctionUpdate
<1> QED
  BY <1>1, <1>4, <1>5 DEF TotalMinted

LEMMA DepositedUpdate ==
  ASSUME PositionsTypeOK, NEW u \in Users, NEW t \in Tokens, NEW n \in UInt,
         s_collateralDeposited' = [s_collateralDeposited EXCEPT ![u][t] = n]
  PROVE  /\ s_collateralDeposited' \in [Users -> [Tokens -> UInt]]
         /\ \A s \in Tokens :
              Deposited(s)' = IF s = t THEN Deposited(s) - s_collateralDeposited[u][t] + n
                                       ELSE Deposited(s)
<1>1. /\ s_collateralDeposited \in [Users -> [Tokens -> UInt]]
      /\ s_collateralDeposited' \in [Users -> [Tokens -> UInt]]
  BY DEF PositionsTypeOK
<1>2. \A v \in Users, s \in Tokens :
        s_collateralDeposited'[v][s] =
          IF v = u /\ s = t THEN n ELSE s_collateralDeposited[v][s]
  BY <1>1
<1>3. ASSUME NEW s \in Tokens
      PROVE  Deposited(s)' = IF s = t THEN Deposited(s) - s_collateralDeposited[u][t] + n
                                      ELSE Deposited(s)
  <2> DEFINE f == [v \in Users |-> s_collateralDeposited[v][s]]
             g == [v \in Users |-> s_collateralDeposited'[v][s]]
  <2>1. f \in [Users -> Int] /\ g \in [Users -> Int]
    BY <1>1 DEF UInt
  <2>2. \A v \in Users \ {u} : g[v] = f[v]
    BY <1>2
  <2>3. f[u] = s_collateralDeposited[u][s] /\ g[u] = s_collateralDeposited'[u][s]
    OBVIOUS
  <2>4. SumFunction(g) = SumFunction(f) - f[u] + g[u] /\ SumFunction(f) \in Int /\ f[u] \in Int
    <3> HIDE DEF f, g
    <3> QED
      BY <2>1, <2>2, Accounts, SumFunctionUpdate, SumFunctionInt
  <2>5. Deposited(s) = SumFunction(f) /\ Deposited(s)' = SumFunction(g)
    BY DEF Deposited
  <2> HIDE DEF f, g
  <2>6. CASE s = t
    BY <1>2, <2>3, <2>4, <2>5, <2>6
  <2>7. CASE s # t
    BY <1>2, <2>3, <2>4, <2>5, <2>7
  <2> QED
    BY <2>6, <2>7
<1> QED
  BY <1>1, <1>3

-----------------------------------------------------------------------------
(* The steps the transactions are made of.                                 *)

\* What the engine's collateral and its records are after a step.
CustodyKept ==
  /\ s_collateralDeposited' \in [Users -> [Tokens -> UInt]]
  /\ TokensSound'
  /\ CollateralInCustody'

\* Debt and supply change by the same amount.
DebtMovesWithSupply ==
  /\ s_coinMinted' \in [Users -> UInt]
  /\ CoinIInv'
  /\ TotalMinted' - TotalMinted = coin'.totalSupply - coin.totalSupply
  /\ SupplyIsOwed'

LEMMA EngineBalances ==
  ASSUME EngineIInv
  PROVE  /\ \A t \in Tokens : /\ tokens[t].balances[Engine] \in Nat
                              /\ Deposited(t) \in Nat
                              /\ tokens[t].balances[Engine] >= Deposited(t)
         /\ \A u \in Users, t \in Tokens : s_collateralDeposited[u][t] \in Nat
         /\ coin.totalSupply \in Nat
         /\ TotalMinted \in Nat
         /\ TotalMinted >= coin.totalSupply
         /\ UInt = 0 .. MaxUint /\ MaxUint \in Nat
<1>1. \A t \in Tokens : tokens[t].balances[Engine] \in Nat
  BY Accounts, BalancesAreInt DEF EngineIInv, TokensSound
<1>2. coin.totalSupply \in Nat
  BY Accounts, BalancesAreInt DEF EngineIInv, CoinIInv
<1>3. \A u \in Users, t \in Tokens : s_collateralDeposited[u][t] \in Nat
  BY DEF EngineIInv, PositionsTypeOK, UInt
<1> QED
  BY <1>1, <1>2, <1>3, TotalsInt, MaxUintAssumption
     DEF EngineIInv, CollateralInCustody, SupplyIsOwed, UInt

\* Custody after a step that replaces the ledger of t and moves the engine's
\* balance and the deposits on record by the same amount.
LEMMA CustodyFollows ==
  ASSUME EngineIInv, NEW u \in Users, NEW t \in Tokens, NEW n \in UInt, NEW m,
         s_collateralDeposited' = [s_collateralDeposited EXCEPT ![u][t] = n],
         tokens' = [tokens EXCEPT ![t] = m],
         Sound(m),
         m.balances[Engine] - tokens[t].balances[Engine] = n - s_collateralDeposited[u][t]
  PROVE  CustodyKept
<1>1. /\ s_collateralDeposited' \in [Users -> [Tokens -> UInt]]
      /\ \A s \in Tokens :
           Deposited(s)' = IF s = t THEN Deposited(s) - s_collateralDeposited[u][t] + n
                                    ELSE Deposited(s)
  BY DepositedUpdate DEF EngineIInv
<1>2. /\ tokens' \in [Tokens -> Ledger]
      /\ \A s \in Tokens : tokens'[s] = IF s = t THEN m ELSE tokens[s]
  BY DEF EngineIInv, TokensSound, Sound
<1>3. TokensSound'
  BY <1>2 DEF EngineIInv, TokensSound
<1>4. \A s \in Tokens : tokens'[s].balances[Engine] >= Deposited(s)'
  <2>1. m.balances[Engine] \in Nat
    BY Accounts, BalancesAreInt
  <2> QED
    BY <1>1, <1>2, <2>1, EngineBalances
<1> QED
  BY <1>1, <1>3, <1>4 DEF CustodyKept, CollateralInCustody

LEMMA TakeDepositKeepsCustody ==
  ASSUME EngineIInv, NEW u \in Users, NEW t \in Tokens, NEW amount \in UInt,
         TakeDeposit(u, t, amount)
  PROVE  CustodyKept
<1> DEFINE m == TransferredFrom(tokens[t], Engine, u, Engine, amount)
           n == s_collateralDeposited[u][t] + amount
<1>1. Sound(tokens[t]) /\ CanTransferFrom(tokens[t], Engine, u, Engine, amount)
  BY DEF EngineIInv, TokensSound, TakeDeposit
<1>2. Sound(m) /\ m.balances[Engine] = tokens[t].balances[Engine] + amount
  BY <1>1, Accounts, TransferredFromIsSound
<1>3. n \in UInt
  BY EngineBalances DEF TakeDeposit
<1>4. /\ s_collateralDeposited' = [s_collateralDeposited EXCEPT ![u][t] = n]
      /\ tokens' = [tokens EXCEPT ![t] = m]
  BY DEF TakeDeposit, EngineIInv, PositionsTypeOK, TokensSound
<1>5. m.balances[Engine] - tokens[t].balances[Engine] = n - s_collateralDeposited[u][t]
  BY <1>2, EngineBalances
<1> HIDE DEF m, n
<1> QED
  BY <1>2, <1>3, <1>4, <1>5, CustodyFollows

LEMMA ReleaseCollateralKeepsCustody ==
  ASSUME EngineIInv, NEW t \in Tokens, NEW from \in Users, NEW to \in Users,
         NEW amount \in Nat, ReleaseCollateral(t, from, to, amount)
  PROVE  CustodyKept
<1> DEFINE m == Transferred(tokens[t], Engine, to, amount)
           n == s_collateralDeposited[from][t] - amount
<1>1. Sound(tokens[t]) /\ CanTransfer(tokens[t], Engine, to, amount)
  BY DEF EngineIInv, TokensSound, ReleaseCollateral
<1>2. amount \in UInt /\ n \in UInt
  <2>1. s_collateralDeposited[from][t] \in UInt
    BY DEF EngineIInv, PositionsTypeOK
  <2> QED
    BY <2>1, EngineBalances DEF ReleaseCollateral
<1>3. Sound(m) /\ m.balances[Engine] = tokens[t].balances[Engine] - amount
  BY <1>1, <1>2, Accounts, TransferredIsSound
<1>4. /\ s_collateralDeposited' = [s_collateralDeposited EXCEPT ![from][t] = n]
      /\ tokens' = [tokens EXCEPT ![t] = m]
  BY DEF ReleaseCollateral, EngineIInv, PositionsTypeOK, TokensSound
<1>5. m.balances[Engine] - tokens[t].balances[Engine] = n - s_collateralDeposited[from][t]
  BY <1>3, EngineBalances
<1> HIDE DEF m, n
<1> QED
  BY <1>2, <1>3, <1>4, <1>5, CustodyFollows

LEMMA IssueCoinKeepsDebt ==
  ASSUME EngineIInv, NEW u \in Users, NEW amount \in UInt, IssueCoin(u, amount)
  PROVE  DebtMovesWithSupply
<1>1. CoinIInv' /\ coin'.totalSupply = coin.totalSupply + amount
  BY Accounts, MintIsGood DEF IssueCoin, EngineIInv, GoodCall
<1> DEFINE n == s_coinMinted[u] + amount
<1>2. s_coinMinted[u] \in UInt
  BY DEF EngineIInv, PositionsTypeOK
<1>3. n \in UInt
  BY <1>2, EngineBalances DEF IssueCoin
<1>4. s_coinMinted' = [s_coinMinted EXCEPT ![u] = n]
  BY DEF IssueCoin, EngineIInv, PositionsTypeOK
<1>5. /\ s_coinMinted' \in [Users -> UInt]
      /\ TotalMinted' = TotalMinted - s_coinMinted[u] + n
  <2> HIDE DEF n
  <2> QED
    BY <1>3, <1>4, MintedUpdate DEF EngineIInv
<1>6. TotalMinted' = TotalMinted + amount
  BY <1>2, <1>5, EngineBalances
<1> QED
  BY <1>1, <1>5, <1>6, EngineBalances DEF DebtMovesWithSupply, SupplyIsOwed

LEMMA RetireCoinKeepsDebt ==
  ASSUME EngineIInv, NEW onBehalfOf \in Users, NEW from \in Users, NEW amount \in UInt,
         RetireCoin(onBehalfOf, from, amount)
  PROVE  DebtMovesWithSupply
<1> DEFINE pulled == TransferredFrom(coin, Engine, from, Engine, amount)
           n == s_coinMinted[onBehalfOf] - amount
<1>1. Sound(pulled) /\ pulled.totalSupply = coin.totalSupply
  BY Accounts, TransferredFromIsSound DEF RetireCoin, EngineIInv, CoinIInv
<1>2. CanBurn(pulled, Engine, amount) /\ coin' = Burned(pulled, Engine, amount)
  BY DEF RetireCoin, CanOwnerBurn
<1>3. CoinIInv' /\ coin'.totalSupply = coin.totalSupply - amount
  <2> HIDE DEF pulled
  <2>1. Sound(coin') /\ coin'.totalSupply = coin.totalSupply - amount
    BY <1>1, <1>2, Accounts, BurnedIsSound
  <2> QED
    BY <2>1 DEF CoinIInv, EngineIInv, RetireCoin
<1>4. s_coinMinted[onBehalfOf] \in UInt
  BY DEF EngineIInv, PositionsTypeOK
<1>5. n \in UInt
  BY <1>4, EngineBalances DEF RetireCoin
<1>6. s_coinMinted' = [s_coinMinted EXCEPT ![onBehalfOf] = n]
  BY DEF RetireCoin, EngineIInv, PositionsTypeOK
<1>7. /\ s_coinMinted' \in [Users -> UInt]
      /\ TotalMinted' = TotalMinted - s_coinMinted[onBehalfOf] + n
  <2> HIDE DEF n
  <2> QED
    BY <1>5, <1>6, MintedUpdate DEF EngineIInv
<1>8. TotalMinted' = TotalMinted - amount
  BY <1>4, <1>7, EngineBalances
<1> HIDE DEF pulled, n
<1> QED
  BY <1>3, <1>7, <1>8, EngineBalances DEF DebtMovesWithSupply, SupplyIsOwed

-----------------------------------------------------------------------------
(* The transactions.                                                       *)

DebtStep ==
  \/ TotalMinted' - TotalMinted = coin'.totalSupply - coin.totalSupply
  \/ /\ UNCHANGED engineVars
     /\ coin'.totalSupply < coin.totalSupply

GoodStep == EngineIInv' /\ DebtStep

LEMMA UnchangedCustody ==
  ASSUME EngineIInv, UNCHANGED <<s_collateralDeposited, tokens>>
  PROVE  CustodyKept
<1>1. s_collateralDeposited' = s_collateralDeposited /\ tokens' = tokens
  OBVIOUS
<1>2. \A t \in Tokens : Deposited(t)' = Deposited(t)
  BY <1>1 DEF Deposited
<1> QED
  BY <1>1, <1>2
     DEF CustodyKept, EngineIInv, PositionsTypeOK, TokensSound, CollateralInCustody

LEMMA UnchangedDebt ==
  ASSUME EngineIInv, UNCHANGED <<s_coinMinted, coinVars>>
  PROVE  DebtMovesWithSupply
<1>1. s_coinMinted' = s_coinMinted /\ coin' = coin /\ owner' = owner
  BY DEF coinVars
<1>2. TotalMinted' = TotalMinted
  BY <1>1 DEF TotalMinted
<1> QED
  BY <1>1, <1>2, EngineBalances
     DEF DebtMovesWithSupply, EngineIInv, PositionsTypeOK, CoinIInv, SupplyIsOwed

\* Custody and debt are the two halves of the invariant.
LEMMA Halves ==
  ASSUME EngineIInv, CustodyKept, DebtMovesWithSupply, UNCHANGED price
  PROVE  GoodStep
BY DEF EngineIInv, CustodyKept, DebtMovesWithSupply, GoodStep, DebtStep, PositionsTypeOK

LEMMA DivIsNat ==
  ASSUME NEW a \in Nat, NEW b \in Nat, b > 0
  PROVE  a \div b \in Nat
OBVIOUS

LEMMA LiquidateIsGood ==
  ASSUME EngineIInv, NEW liquidator \in Users, NEW user \in Users, NEW t \in Tokens,
         NEW debtToCover \in UInt, Liquidate(liquidator, user, t, debtToCover)
  PROVE  GoodStep
<1> DEFINE reward == TokenAmountFromINR(t, debtToCover)
           bonus  == LiquidationBonus(reward)
<1>1. /\ TokenAmountFits(t, debtToCover)
      /\ ReleaseCollateral(t, user, liquidator, reward + bonus)
      /\ RetireCoin(user, liquidator, debtToCover)
      /\ UNCHANGED price
  BY DEF Liquidate, CanLiquidate
<1>2. reward \in Nat
  <2>1. FeedPrice(t) \in Nat /\ FeedPrice(t) > 0
    BY <1>1, EngineBalances DEF TokenAmountFits
  <2>2. debtToCover * PRECISION \in Nat
    BY PrecisionAssumption, EngineBalances
  <2> QED
    BY <2>1, <2>2, DivIsNat DEF TokenAmountFromINR
<1>3. bonus \in Nat
  <2> HIDE DEF reward
  <2>1. reward * LIQUIDATION_BONUS \in Nat
    BY <1>2 DEF LIQUIDATION_BONUS
  <2> QED
    BY <2>1, DivIsNat DEF LiquidationBonus, LIQUIDATION_PRECISION
<1> HIDE DEF reward, bonus
<1>4. reward + bonus \in Nat
  BY <1>2, <1>3
<1> QED
  BY <1>1, <1>4, ReleaseCollateralKeepsCustody, RetireCoinKeepsDebt, Halves

LEMMA CallEngineIsGood ==
  ASSUME EngineIInv, NEW u \in Users, CallEngine(u)
  PROVE  GoodStep
<1>1. CoinAmounts \subseteq UInt /\ CollateralAmounts \subseteq UInt /\ UInt \subseteq Nat
  BY CoinAmountsAssumption, InputAssumption DEF UInt
<1>2. ASSUME NEW b \in CoinAmounts, MintCoin(u, b)
      PROVE  GoodStep
  BY <1>1, <1>2, UnchangedCustody, IssueCoinKeepsDebt, Halves DEF MintCoin
<1>3. ASSUME NEW b \in CoinAmounts, BurnCoin(u, b)
      PROVE  GoodStep
  BY <1>1, <1>3, UnchangedCustody, RetireCoinKeepsDebt, Halves DEF BurnCoin
<1>4. ASSUME NEW b \in CoinAmounts, NEW t \in Tokens, NEW v \in Users, Liquidate(u, v, t, b)
      PROVE  GoodStep
  BY <1>1, <1>4, LiquidateIsGood
<1>5. ASSUME NEW b \in CoinAmounts, NEW t \in Tokens, NEW a \in CollateralAmounts,
             DepositCollateralAndMintCoin(u, t, a, b)
      PROVE  GoodStep
  BY <1>1, <1>5, TakeDepositKeepsCustody, IssueCoinKeepsDebt, Halves
     DEF DepositCollateralAndMintCoin
<1>6. ASSUME NEW b \in CoinAmounts, NEW t \in Tokens, NEW a \in CollateralAmounts,
             BurnCoinAndRedeemCollateral(u, t, a, b)
      PROVE  GoodStep
  BY <1>1, <1>6, ReleaseCollateralKeepsCustody, RetireCoinKeepsDebt, Halves
     DEF BurnCoinAndRedeemCollateral
<1>7. ASSUME NEW t \in Tokens, NEW a \in CollateralAmounts, DepositCollateral(u, t, a)
      PROVE  GoodStep
  BY <1>1, <1>7, TakeDepositKeepsCustody, UnchangedDebt, Halves DEF DepositCollateral
<1>8. ASSUME NEW t \in Tokens, NEW a \in CollateralAmounts, RedeemCollateral(u, t, a)
      PROVE  GoodStep
  BY <1>1, <1>8, ReleaseCollateralKeepsCustody, UnchangedDebt, Halves DEF RedeemCollateral
<1> QED
  BY <1>2, <1>3, <1>4, <1>5, <1>6, <1>7, <1>8 DEF CallEngine

LEMMA UseCoinIsGood ==
  ASSUME EngineIInv, NEW u \in Users, UseCoin(u)
  PROVE  GoodStep
<1>1. UNCHANGED <<engineVars, tokens, price>>
  BY DEF UseCoin
<1>2. CustodyKept
  BY <1>1, UnchangedCustody DEF engineVars
<1>3. CoinIInv' /\ coin'.totalSupply <= coin.totalSupply
  <2>1. /\ CoinIInv
        /\ u \in Senders
        /\ CoinAmounts \subseteq UInt
        /\ \A v \in Users \cup {Engine} : v \in Addresses
        /\ coin.totalSupply \in Nat
        /\ UInt \subseteq Nat
    BY Accounts, CoinAmountsAssumption, EngineBalances DEF EngineIInv
  <2>2. ASSUME NEW to \in Users \cup {Engine}, NEW amount \in CoinAmounts,
               Transfer(u, to, amount)
        PROVE  CoinIInv' /\ coin'.totalSupply <= coin.totalSupply
    BY <2>1, <2>2, TransferIsGood DEF GoodCall
  <2>3. ASSUME NEW a \in Approvals, Approve(u, a[2], a[3])
        PROVE  CoinIInv' /\ coin'.totalSupply <= coin.totalSupply
    <3>1. a[2] \in Addresses /\ a[3] \in UInt
      BY InputAssumption DEF Senders
    <3>2. GoodCall(u) /\ coin'.totalSupply = coin.totalSupply
      BY <2>1, <2>3, <3>1, ApproveIsGood
    <3> QED
      BY <2>1, <3>2 DEF GoodCall
  <2>4. ASSUME NEW from \in Users, NEW amount \in CoinAmounts, BurnFrom(u, from, amount)
        PROVE  CoinIInv' /\ coin'.totalSupply <= coin.totalSupply
    <3>1. amount \in Nat
      BY <2>1
    <3> QED
      BY <2>1, <2>4, <3>1, BurnFromIsGood DEF GoodCall
  <2>5. ASSUME NEW from \in Users, NEW amount \in CoinAmounts,
               NEW to \in Users \cup {Engine}, TransferFrom(u, from, to, amount)
        PROVE  CoinIInv' /\ coin'.totalSupply <= coin.totalSupply
    BY <2>1, <2>5, TransferFromIsGood DEF GoodCall
  <2> QED
    BY <2>2, <2>3, <2>4, <2>5 DEF UseCoin
<1>4. coin'.totalSupply \in Nat
  BY <1>3, Accounts, BalancesAreInt DEF CoinIInv
<1>5. s_coinMinted' = s_coinMinted /\ TotalMinted' = TotalMinted
  BY <1>1 DEF engineVars, TotalMinted
<1>6. SupplyIsOwed' /\ DebtStep
  BY <1>1, <1>3, <1>4, <1>5, EngineBalances DEF SupplyIsOwed, DebtStep
<1> QED
  BY <1>1, <1>2, <1>3, <1>5, <1>6 DEF GoodStep, EngineIInv, CustodyKept, PositionsTypeOK

LEMMA UseTokenIsGood ==
  ASSUME EngineIInv, NEW u \in Users, NEW t \in Tokens, UseToken(u, t)
  PROVE  GoodStep
<1>1. UNCHANGED <<engineVars, price, coinVars>>
  BY DEF UseToken
<1>2. Sound(tokens[t])
  BY DEF EngineIInv, TokensSound
<1> DEFINE m == tokens'[t]
<1>3. /\ tokens' = [tokens EXCEPT ![t] = m]
      /\ Sound(m)
      /\ m.balances[Engine] >= tokens[t].balances[Engine]
  <2>1. tokens[t].balances[Engine] \in Nat /\ tokens \in [Tokens -> Ledger]
    BY EngineBalances DEF EngineIInv, TokensSound
  <2>2. ASSUME NEW to \in Users \cup {Engine}, NEW amount \in CollateralAmounts,
               CanTransfer(tokens[t], u, to, amount),
               tokens' = [tokens EXCEPT ![t] = Transferred(@, u, to, amount)]
        PROVE  <1>3!:
    <3>1. /\ amount \in UInt /\ amount \in Nat
          /\ u \in Addresses /\ to \in Addresses /\ u # Engine /\ Engine \in Addresses
      BY Accounts, InputAssumption DEF UInt
    <3>2. m = Transferred(tokens[t], u, to, amount)
      BY <2>1, <2>2
    <3>3. Sound(m) /\ m.balances[Engine] \in {tokens[t].balances[Engine],
                                              tokens[t].balances[Engine] + amount}
      BY <1>2, <2>2, <3>1, <3>2, TransferredIsSound
    <3>4. tokens' = [tokens EXCEPT ![t] = m]
      BY <2>2, <3>2
    <3> HIDE DEF m
    <3> QED
      BY <2>1, <3>1, <3>3, <3>4
  <2>3. ASSUME NEW a \in Approvals,
               tokens' = [tokens EXCEPT ![t] = Approved(@, u, a[2], a[3])]
        PROVE  <1>3!:
    <3>1. u \in Addresses /\ a[2] \in Addresses /\ a[3] \in UInt
      BY Accounts, InputAssumption DEF Senders
    <3>2. m = Approved(tokens[t], u, a[2], a[3])
      BY <2>1, <2>3
    <3>3. Sound(m) /\ m.balances = tokens[t].balances
      BY <1>2, <3>1, <3>2, ApprovedIsSound
    <3>4. tokens' = [tokens EXCEPT ![t] = m]
      BY <2>3, <3>2
    <3> HIDE DEF m
    <3> QED
      BY <2>1, <3>3, <3>4
  <2> QED
    BY <2>2, <2>3 DEF UseToken
<1> HIDE DEF m
<1>4. /\ tokens' \in [Tokens -> Ledger]
      /\ \A s \in Tokens : tokens'[s] = IF s = t THEN m ELSE tokens[s]
  BY <1>3 DEF EngineIInv, TokensSound, Sound
<1>5. m.balances[Engine] \in Nat
  BY <1>3, Accounts, BalancesAreInt
<1>6. \A s \in Tokens : Deposited(s)' = Deposited(s)
  BY <1>1 DEF engineVars, Deposited
<1>7. \A s \in Tokens : tokens'[s].balances[Engine] >= Deposited(s)'
  BY <1>3, <1>4, <1>5, <1>6, EngineBalances
<1>8. TokensSound'
  BY <1>3, <1>4 DEF EngineIInv, TokensSound
<1>9. CustodyKept
  BY <1>1, <1>7, <1>8
     DEF CustodyKept, CollateralInCustody, EngineIInv, PositionsTypeOK, engineVars
<1>10. DebtMovesWithSupply
  BY <1>1, UnchangedDebt DEF engineVars
<1> QED
  BY <1>1, <1>9, <1>10, Halves

-----------------------------------------------------------------------------
(* The specification.                                                      *)

LEMMA InitIInv ==
  ASSUME Init
  PROVE  EngineIInv
<1>1. CoinIInv
  BY CoinInitIInv DEF Init
<1>2. 0 \in UInt
  BY MaxUintAssumption DEF UInt
<1>3. PositionsTypeOK
  BY <1>2 DEF Init, PositionsTypeOK
<1>4. ASSUME NEW t \in Tokens
      PROVE  Sound(tokens[t]) /\ tokens[t].balances[Engine] = 0
  <2>1. tokens[t] = [EmptyLedger EXCEPT !.balances = Endowment[t],
                                        !.totalSupply = SumFunction(Endowment[t])]
    BY DEF Init
  <2>2. tokens[t] = [balances    |-> Endowment[t],
                     allowances  |-> [x \in Addresses |-> [y \in Addresses |-> 0]],
                     totalSupply |-> SumFunction(Endowment[t])]
    BY <2>1 DEF EmptyLedger
  <2>3. /\ Endowment[t] \in [Addresses -> UInt]
        /\ SumFunction(Endowment[t]) \in UInt
        /\ Endowment[t][Engine] = 0
    BY InputAssumption
  <2> QED
    BY <1>2, <2>2, <2>3 DEF Sound, SumOfBalances, Ledger
<1>5. TokensSound
  <2>1. tokens \in [Tokens -> Ledger]
    BY <1>4 DEF Init, Sound
  <2> QED
    BY <1>4, <2>1 DEF TokensSound
<1>6. price \in [Tokens -> UInt]
  BY FeedAssumption DEF Init
<1>7. CollateralInCustody
  <2>1. ASSUME NEW t \in Tokens
        PROVE  Deposited(t) = 0
    <3> DEFINE f == [u \in Users |-> s_collateralDeposited[u][t]]
    <3>1. f \in [Users -> Int] /\ \A u \in Users : f[u] = 0
      <4>1. \A u \in Users : s_collateralDeposited[u][t] = 0
        BY DEF Init
      <4> QED
        BY <4>1
    <3>2. SumFunction(f) = 0
      <4> HIDE DEF f
      <4> QED
        BY <3>1, Accounts, SumFunctionZero
    <3> QED
      BY <3>2 DEF Deposited
  <2> QED
    BY <1>4, <2>1 DEF CollateralInCustody
<1>8. SupplyIsOwed
  <2>1. coin.totalSupply = 0
    BY DEF Init, CoinInit, EmptyLedger
  <2>2. TotalMinted \in Nat
    BY <1>3, TotalsInt
  <2> QED
    BY <2>1, <2>2 DEF SupplyIsOwed
<1> QED
  BY <1>1, <1>3, <1>5, <1>6, <1>7, <1>8 DEF EngineIInv

LEMMA NextIsGood ==
  ASSUME EngineIInv, Next
  PROVE  GoodStep
<1>1. CASE HandOverCoin
  <2>1. UNCHANGED <<engineVars, tokens, price, coin>>
    BY <1>1 DEF HandOverCoin, TransferOwnership
  <2>2. CoinIInv'
    BY <1>1, Accounts, TransferOwnershipIsGood DEF HandOverCoin, EngineIInv, GoodCall
  <2>3. CustodyKept
    BY <2>1, UnchangedCustody DEF engineVars
  <2>4. TotalMinted' = TotalMinted /\ s_coinMinted' = s_coinMinted /\ coin' = coin
    BY <2>1 DEF engineVars, TotalMinted
  <2>5. DebtMovesWithSupply
    BY <2>2, <2>4, EngineBalances
       DEF DebtMovesWithSupply, EngineIInv, PositionsTypeOK, SupplyIsOwed
  <2> QED
    BY <2>1, <2>3, <2>5, Halves
<1>2. ASSUME NEW u \in Users, CallEngine(u) \/ UseCoin(u)
      PROVE  GoodStep
  BY <1>2, CallEngineIsGood, UseCoinIsGood
<1>3. ASSUME NEW u \in Users, NEW t \in Tokens, UseToken(u, t)
      PROVE  GoodStep
  BY <1>3, UseTokenIsGood
<1>4. ASSUME NEW t \in Tokens, UpdateAnswer(t)
      PROVE  GoodStep
  <2>1. UNCHANGED <<engineVars, tokens, coinVars>>
    BY <1>4 DEF UpdateAnswer
  <2>2. price' \in [Tokens -> UInt]
    BY <1>4, FeedAssumption DEF UpdateAnswer, EngineIInv
  <2>3. CustodyKept /\ DebtMovesWithSupply
    BY <2>1, UnchangedCustody, UnchangedDebt DEF engineVars
  <2> QED
    BY <2>2, <2>3
       DEF GoodStep, DebtStep, EngineIInv, CustodyKept, DebtMovesWithSupply, PositionsTypeOK
<1> QED
  BY <1>1, <1>2, <1>3, <1>4 DEF Next

LEMMA UnchangedIsGood ==
  ASSUME EngineIInv, UNCHANGED vars
  PROVE  EngineIInv'
<1>1. CustodyKept /\ DebtMovesWithSupply
  BY UnchangedCustody, UnchangedDebt DEF vars, engineVars
<1> QED
  BY <1>1, Halves DEF vars, GoodStep

LEMMA EngineInvariant == Spec => []EngineIInv
<1>1. Init => EngineIInv
  BY InitIInv
<1>2. EngineIInv /\ [Next]_vars => EngineIInv'
  BY NextIsGood, UnchangedIsGood DEF GoodStep
<1> QED
  BY <1>1, <1>2, PTL DEF Spec

-----------------------------------------------------------------------------
\* Every variable keeps its type: in particular no subtraction in the engine
\* or in a token goes below zero.
THEOREM EngineTypeCorrect == Spec => []TypeOK
<1>1. EngineIInv => TypeOK
  BY EngineIInvImplies
<1> QED
  BY <1>1, EngineInvariant, PTL

\* The engine can always pay out every deposit on record, in full and in kind:
\* deposits, redemptions and liquidations move the record and the tokens
\* together, and nothing else takes tokens from the engine.
THEOREM DepositsAreCovered == Spec => []CollateralInCustody
<1>1. EngineIInv => CollateralInCustody
  BY EngineIInvImplies
<1> QED
  BY <1>1, EngineInvariant, PTL

\* Every coin in circulation is owed to the engine by some user, even though
\* holders may burn coins behind the engine's back.
THEOREM CoinsAreOwed == Spec => []SupplyIsOwed
<1>1. EngineIInv => SupplyIsOwed
  BY EngineIInvImplies
<1> QED
  BY <1>1, EngineInvariant, PTL

\* Only a holder's burnFrom changes the supply without changing the debt.
THEOREM DebtAndSupplyMoveTogether == Spec => DebtFollowsSupply
<1>1. EngineIInv /\ [Next]_vars => [DebtStep]_vars
  BY NextIsGood DEF GoodStep
<1>2. DebtFollowsSupply <=> [][DebtStep]_vars
  BY DEF DebtFollowsSupply, DebtStep
<1> QED
  BY <1>1, <1>2, EngineInvariant, PTL DEF Spec

-----------------------------------------------------------------------------
(* The engine implements the vault, for all constants, and the vault's     *)
(* safety is therefore the engine's.                                       *)

\* The vault's theorems, under the refinement mapping.
Proved == INSTANCE CollateralVaultProofs WITH
            locked <- s_collateralDeposited,
            debt   <- s_coinMinted,
            rate   <- [t \in Tokens |-> FeedPrice(t)],
            One    <- PRECISION

-----------------------------------------------------------------------------
(* Valuation.                                                              *)

LEMMA FeedPriceNat ==
  ASSUME price \in [Tokens -> UInt], NEW t \in Tokens
  PROVE  FeedPrice(t) \in Nat
<1>1. price[t] \in Nat /\ 10 ^ (MAX_DECIMALS - FeedDecimals[t]) \in Nat
  BY FeedAssumption, MaxUintAssumption DEF UInt
<1> QED
  BY <1>1, MultNat DEF FeedPrice

LEMMA ValueNat ==
  ASSUME price \in [Tokens -> UInt], NEW b \in [Tokens -> Nat]
  PROVE  CollateralValue(b) \in Nat
<1> DEFINE f == [t \in Tokens |-> INRValue(t, b[t])]
<1>1. ASSUME NEW t \in Tokens
      PROVE  INRValue(t, b[t]) \in Nat
  <2>1. FeedPrice(t) \in Nat /\ b[t] \in Nat
    BY FeedPriceNat
  <2>2. FeedPrice(t) * b[t] \in Nat
    BY <2>1, MultNat
  <2> QED
    BY <2>2, PrecisionAssumption, DivBounds DEF INRValue
<1>2. f \in [Tokens -> Nat]
  BY <1>1
<1>3. SumFunction(f) \in Nat
  <2> HIDE DEF f
  <2> QED
    BY <1>2, FeedAssumption, SumFunctionNat
<1> QED
  BY <1>3 DEF CollateralValue

\* The vault and the engine value deposits alike.
LEMMA WorthIsValue ==
  ASSUME NEW b
  PROVE  Vault!Worth(b) = CollateralValue(b)
<1>1. ASSUME NEW f
      PROVE  Vault!SumFunction(f) = SumFunction(f)
  BY DEF Vault!SumFunction, Vault!SumFunctionOnSet, Vault!FoldFunctionOnSet,
         Vault!MapThenFoldSet, SumFunction, SumFunctionOnSet, FoldFunctionOnSet,
         MapThenFoldSet
<1> DEFINE f == [t \in Tokens |-> ([s \in Tokens |-> FeedPrice(s)][t] * b[t]) \div PRECISION]
           g == [t \in Tokens |-> INRValue(t, b[t])]
<1>2. \A t \in Tokens :
        ([s \in Tokens |-> FeedPrice(s)][t] * b[t]) \div PRECISION = INRValue(t, b[t])
  BY DEF INRValue
<1>3. f = g
  BY <1>2
<1>4. Vault!Worth(b) = Vault!SumFunction(f)
  BY DEF Vault!Worth
<1>5. CollateralValue(b) = SumFunction(g)
  BY DEF CollateralValue
<1> HIDE DEF f, g
<1> QED
  BY <1>1, <1>3, <1>4, <1>5

LEMMA ThresholdIsHalf ==
  ASSUME price \in [Tokens -> UInt], NEW b \in [Tokens -> Nat]
  PROVE  /\ ThresholdCollateral(b) \in Nat
         /\ ThresholdCollateral(b) = CollateralValue(b) \div 2
<1> DEFINE v == CollateralValue(b)
<1>1. v \in Nat
  BY ValueNat
<1>2. (v * 50) \div 100 = v \div 2 /\ v \div 2 \in Nat
  <2> HIDE DEF v
  <2> QED
    BY <1>1
<1> QED
  BY <1>2 DEF ThresholdCollateral, LIQUIDATION_THRESHOLD, LIQUIDATION_PRECISION

\* The engine's comparison of rounded health factors decides exactly whether
\* the collateral is worth twice the debt.
LEMMA HealthFactorIsExact ==
  ASSUME price \in [Tokens -> UInt], NEW b \in [Tokens -> Nat], NEW n \in Nat \ {0}
  PROVE  HealthFactor(b, n) >= MIN_HEALTH_FACTOR <=> CollateralValue(b) >= 2 * n
<1> DEFINE v == CollateralValue(b)
           c == ThresholdCollateral(b)
<1>1. v \in Nat /\ c \in Nat /\ c = v \div 2 /\ PRECISION \in Nat /\ PRECISION > 0
  BY ValueNat, ThresholdIsHalf, PrecisionAssumption
<1>2. HealthFactor(b, n) = (c * PRECISION) \div n
  BY DEF HealthFactor
<1> HIDE DEF v, c
<1>3. c * PRECISION \in Nat /\ n * PRECISION \in Nat
  BY <1>1, MultNat
<1>4. (c * PRECISION) \div n >= PRECISION <=> c * PRECISION >= n * PRECISION
  BY <1>1, <1>3, DivGeq
<1>5. c * PRECISION >= n * PRECISION <=> c >= n
  <2>1. CASE c >= n
    BY <1>1, <1>3, <2>1, MultMono
  <2>2. CASE c < n
    <3>1. c * PRECISION < n * PRECISION
      BY <1>1, <2>2, MultMonoStrict
    <3> QED
      BY <1>1, <1>3, <2>2, <3>1
  <2> QED
    BY <1>1, <2>1, <2>2
<1>6. c >= n <=> v >= 2 * n
  BY <1>1
<1> QED
  BY <1>2, <1>4, <1>5, <1>6 DEF MIN_HEALTH_FACTOR, v

\* A quotient that grows means a fraction that grows: a higher health factor is
\* a better cover, whatever the rounding.
LEMMA HigherQuotient ==
  ASSUME NEW a \in Nat, NEW b \in Nat, NEW p \in Nat, p > 0,
         NEW m \in Nat, m > 0, NEW n \in Nat, n > 0,
         (b * p) \div n > (a * p) \div m
  PROVE  b * m > a * n
<1> DEFINE q == (a * p) \div m
           r == (b * p) \div n
<1>1. /\ a * p \in Nat /\ b * p \in Nat /\ a * n \in Nat /\ b * m \in Nat
      /\ m * n \in Nat
  BY MultNat
<1>2. q \in Nat /\ a * p < m * (q + 1)
  BY <1>1, DivBounds
<1>3. r \in Nat /\ n * r <= b * p
  BY <1>1, DivBounds
<1>4. q + 1 <= r
  BY <1>2, <1>3
<1> HIDE DEF q, r
<1>5. (a * p) * n < (m * (q + 1)) * n
  <2>1. m * (q + 1) \in Nat
    BY <1>2, MultNat
  <2> QED
    BY <1>1, <1>2, <2>1, MultMonoStrict
<1>6. (m * (q + 1)) * n <= (n * r) * m
  <2>1. (q + 1) * (m * n) <= r * (m * n)
    BY <1>1, <1>2, <1>3, <1>4, MultMono
  <2>2. (m * (q + 1)) * n = (q + 1) * (m * n) /\ (n * r) * m = r * (m * n)
    BY <1>2, <1>3
  <2> QED
    BY <2>1, <2>2
<1>7. (n * r) * m <= (b * p) * m
  <2>1. n * r \in Nat
    BY <1>3, MultNat
  <2> QED
    BY <1>1, <1>3, <2>1, MultMono
<1>8. (a * p) * n < (b * p) * m
  <2>1. /\ (a * p) * n \in Nat /\ (m * (q + 1)) * n \in Nat
        /\ (n * r) * m \in Nat /\ (b * p) * m \in Nat
    <3>1. m * (q + 1) \in Nat /\ n * r \in Nat
      BY <1>2, <1>3, MultNat
    <3> QED
      BY <1>1, <3>1, MultNat
  <2> QED
    BY <1>5, <1>6, <1>7, <2>1
<1>9. (a * p) * n = (a * n) * p /\ (b * p) * m = (b * m) * p
  OBVIOUS
<1>10. CASE b * m <= a * n
  <2>1. (b * m) * p <= (a * n) * p
    BY <1>1, <1>10, MultMono
  <2>2. (b * m) * p \in Nat /\ (a * n) * p \in Nat
    BY <1>1, MultNat
  <2> QED
    BY <1>8, <1>9, <2>1, <2>2
<1> QED
  BY <1>1, <1>10

\* What a liquidation takes for x, in tokens of price p: one token unit more
\* would be worth more than x, and it is worth at most five percent more.
LEMMA RewardBounds ==
  ASSUME NEW x \in Nat, NEW t \in Tokens, FeedPrice(t) \in Nat, FeedPrice(t) > 0
  PROVE  LET reward == TokenAmountFromINR(t, x)
             taken  == reward + LiquidationBonus(reward)
         IN  /\ taken \in Nat
             /\ FeedPrice(t) * (taken + 1) > PRECISION * x
             /\ 100 * FeedPrice(t) * taken <= 105 * PRECISION * x
<1> DEFINE p      == FeedPrice(t)
           worth  == x * PRECISION
           reward == TokenAmountFromINR(t, x)
           bonus  == LiquidationBonus(reward)
           taken  == reward + bonus
<1>1. p \in Nat /\ p > 0 /\ worth \in Nat /\ worth = PRECISION * x
  BY PrecisionAssumption, MultNat
<1>2. reward = worth \div p
  BY DEF TokenAmountFromINR
<1>3. bonus = (reward * 5) \div 100
  BY DEF LiquidationBonus, LIQUIDATION_BONUS, LIQUIDATION_PRECISION
<1> HIDE DEF p, worth, reward, bonus
<1>4. reward \in Nat /\ p * reward <= worth /\ worth < p * (reward + 1)
  BY <1>1, <1>2, DivBounds
<1>5. bonus \in Nat /\ 100 * bonus <= 5 * reward
  BY <1>3, <1>4
<1>6. taken \in Nat /\ reward + 1 <= taken + 1 /\ 100 * taken <= 105 * reward
  BY <1>4, <1>5
<1> HIDE DEF taken
<1>7. p * (taken + 1) > worth
  <2>1. (reward + 1) * p <= (taken + 1) * p
    BY <1>1, <1>4, <1>6, MultMono
  <2>2. p * (reward + 1) \in Nat /\ p * (taken + 1) \in Nat
    BY <1>1, <1>4, <1>6, MultNat
  <2>3. p * (reward + 1) = (reward + 1) * p /\ p * (taken + 1) = (taken + 1) * p
    BY <1>1, <1>4, <1>6
  <2> QED
    BY <1>1, <1>4, <2>1, <2>2, <2>3
<1>8. 100 * p * taken <= 105 * worth
  <2>1. (100 * taken) * p <= (105 * reward) * p
    BY <1>1, <1>4, <1>6, MultMono
  <2>2. (100 * taken) * p = 100 * p * taken /\ (105 * reward) * p = 105 * (p * reward)
    BY <1>1, <1>4, <1>6
  <2>3. p * reward \in Nat
    BY <1>1, <1>4, MultNat
  <2>4. 105 * (p * reward) <= 105 * worth
    BY <1>1, <1>4, <2>3
  <2>5. 100 * p * taken \in Nat
    <3>1. 100 * p \in Nat
      BY <1>1
    <3> QED
      BY <1>6, <3>1, MultNat
  <2> QED
    BY <1>1, <2>1, <2>2, <2>3, <2>4, <2>5
<1>9. 105 * worth = 105 * PRECISION * x
  BY <1>1, PrecisionAssumption
<1> QED
  BY <1>1, <1>6, <1>7, <1>8, <1>9 DEF p, reward, bonus, taken

-----------------------------------------------------------------------------
(* Every transaction is a step of the vault.                               *)

PositionsNext ==
  /\ s_collateralDeposited' \in [Users -> [Tokens -> UInt]]
  /\ s_coinMinted' \in [Users -> UInt]

LEMMA Typed ==
  ASSUME EngineIInv
  PROVE  /\ price \in [Tokens -> UInt]
         /\ s_collateralDeposited \in [Users -> [Tokens -> Nat]]
         /\ s_coinMinted \in [Users -> Nat]
         /\ UInt \subseteq Nat
BY DEF EngineIInv, PositionsTypeOK, UInt

LEMMA TypedNext ==
  ASSUME EngineIInv'
  PROVE  /\ PositionsNext
         /\ price' \in [Tokens -> UInt]
         /\ s_collateralDeposited' \in [Users -> [Tokens -> Nat]]
         /\ s_coinMinted' \in [Users -> Nat]
<1>1. UInt \subseteq Nat
  BY DEF UInt
<1>2. PositionsNext /\ price' \in [Tokens -> UInt]
  BY DEF EngineIInv, PositionsTypeOK, PositionsNext
<1> QED
  BY <1>1, <1>2 DEF PositionsNext

LEMMA SafeNow ==
  ASSUME NEW u
  PROVE  Vault!Safe(u) <=> \/ s_coinMinted[u] = 0
                           \/ CollateralValue(s_collateralDeposited[u]) >= 2 * s_coinMinted[u]
BY WorthIsValue DEF Vault!Safe

LEMMA SafeNext ==
  ASSUME price' = price, NEW u
  PROVE  Vault!Safe(u)' <=> \/ s_coinMinted'[u] = 0
                            \/ CollateralValue(s_collateralDeposited'[u]) >= 2 * s_coinMinted'[u]
<1>1. Vault!Worth(s_collateralDeposited[u])' = Vault!Worth(s_collateralDeposited'[u])
  BY DEF Vault!Worth, FeedPrice
<1>2. Vault!Worth(s_collateralDeposited[u])' = CollateralValue(s_collateralDeposited'[u])
  BY <1>1, WorthIsValue
<1> QED
  BY <1>2 DEF Vault!Safe

\* A health check passed after the changes makes the position safe.
LEMMA CheckedIsSafe ==
  ASSUME EngineIInv, EngineIInv', price' = price, NEW u \in Users,
         s_coinMinted'[u] > 0 => HealthFactorIsGood(s_collateralDeposited'[u], s_coinMinted'[u])
  PROVE  Vault!Safe(u)'
<1>1. s_collateralDeposited'[u] \in [Tokens -> Nat] /\ s_coinMinted'[u] \in Nat
  BY TypedNext
<1>2. CASE s_coinMinted'[u] = 0
  BY <1>2, SafeNext
<1>3. CASE s_coinMinted'[u] > 0
  <2>1. HealthFactor(s_collateralDeposited'[u], s_coinMinted'[u]) >= MIN_HEALTH_FACTOR
    BY <1>3 DEF HealthFactorIsGood
  <2>2. CollateralValue(s_collateralDeposited'[u]) >= 2 * s_coinMinted'[u]
    BY <1>1, <1>3, <2>1, Typed, HealthFactorIsExact
  <2> QED
    BY <2>2, SafeNext
<1> QED
  BY <1>1, <1>2, <1>3

\* The steps of the code change the record of one user only.
LEMMA OthersKeep ==
  ASSUME EngineIInv, EngineIInv', price' = price, NEW u \in Users,
         \/ UNCHANGED s_collateralDeposited
         \/ \E t \in Tokens, n \in Int :
              s_collateralDeposited' = [s_collateralDeposited EXCEPT ![u][t] = n],
         \/ UNCHANGED s_coinMinted
         \/ \E n \in Int : s_coinMinted' = [s_coinMinted EXCEPT ![u] = n]
  PROVE  Vault!Moves(u)
<1>1. \A v \in Users \ {u} : s_collateralDeposited'[v] = s_collateralDeposited[v]
  BY Typed
<1>2. \A v \in Users \ {u} : s_coinMinted'[v] = s_coinMinted[v]
  BY Typed
<1>3. UNCHANGED [t \in Tokens |-> FeedPrice(t)]
  BY DEF FeedPrice
<1> QED
  BY <1>1, <1>2, <1>3, TypedNext DEF Vault!Moves

LEMMA TakeDepositShape ==
  ASSUME EngineIInv, NEW u \in Users, NEW t \in Tokens, NEW amount \in Nat,
         TakeDeposit(u, t, amount)
  PROVE  /\ \E n \in Int :
              s_collateralDeposited' = [s_collateralDeposited EXCEPT ![u][t] = n]
         /\ \A s \in Tokens : s_collateralDeposited'[u][s] >= s_collateralDeposited[u][s]
<1>1. s_collateralDeposited' =
        [s_collateralDeposited EXCEPT ![u][t] = s_collateralDeposited[u][t] + amount]
  BY Typed DEF TakeDeposit
<1>2. s_collateralDeposited[u][t] + amount \in Int
  BY Typed
<1>3. \A s \in Tokens : s_collateralDeposited'[u][s] >= s_collateralDeposited[u][s]
  BY <1>1, Typed
<1> QED
  BY <1>1, <1>2, <1>3

LEMMA ReleaseShape ==
  ASSUME EngineIInv, NEW u \in Users, NEW to, NEW t \in Tokens, NEW amount \in Nat,
         ReleaseCollateral(t, u, to, amount)
  PROVE  /\ \E n \in Int :
              s_collateralDeposited' = [s_collateralDeposited EXCEPT ![u][t] = n]
         /\ s_collateralDeposited[u][t] - s_collateralDeposited'[u][t] = amount
         /\ \A s \in Tokens \ {t} : s_collateralDeposited'[u][s] = s_collateralDeposited[u][s]
<1>1. s_collateralDeposited' =
        [s_collateralDeposited EXCEPT ![u][t] = s_collateralDeposited[u][t] - amount]
  BY Typed DEF ReleaseCollateral
<1>2. s_collateralDeposited[u][t] - amount \in Int
  BY Typed
<1>3. s_collateralDeposited'[u][t] = s_collateralDeposited[u][t] - amount
  BY <1>1, Typed
<1>4. s_collateralDeposited[u][t] - s_collateralDeposited'[u][t] = amount
  BY <1>3, Typed
<1>5. \A s \in Tokens \ {t} : s_collateralDeposited'[u][s] = s_collateralDeposited[u][s]
  BY <1>1, Typed
<1> QED
  BY <1>1, <1>2, <1>4, <1>5

LEMMA IssueShape ==
  ASSUME EngineIInv, NEW u \in Users, NEW amount \in Nat, IssueCoin(u, amount)
  PROVE  /\ \E n \in Int : s_coinMinted' = [s_coinMinted EXCEPT ![u] = n]
         /\ HealthFactorIsGood(s_collateralDeposited'[u], s_coinMinted'[u])
<1>1. s_coinMinted' = [s_coinMinted EXCEPT ![u] = s_coinMinted[u] + amount]
  BY Typed DEF IssueCoin
<1>2. s_coinMinted[u] + amount \in Int
  BY Typed
<1> QED
  BY <1>1, <1>2 DEF IssueCoin

LEMMA RetireShape ==
  ASSUME EngineIInv, NEW u \in Users, NEW from, NEW amount \in Nat,
         RetireCoin(u, from, amount)
  PROVE  /\ \E n \in Int : s_coinMinted' = [s_coinMinted EXCEPT ![u] = n]
         /\ s_coinMinted[u] - s_coinMinted'[u] = amount
         /\ amount > 0
<1>1. s_coinMinted' = [s_coinMinted EXCEPT ![u] = s_coinMinted[u] - amount]
  BY Typed DEF RetireCoin
<1>2. s_coinMinted[u] - amount \in Int
  BY Typed
<1>3. s_coinMinted[u] - s_coinMinted'[u] = amount
  BY <1>1, Typed
<1>4. amount > 0
  BY DEF RetireCoin, CanOwnerBurn
<1> QED
  BY <1>1, <1>2, <1>3, <1>4

\* The bounds on what a call may carry are naturals.
LEMMA InputsNat ==
  CoinAmounts \subseteq Nat /\ CollateralAmounts \subseteq Nat
BY CoinAmountsAssumption, InputAssumption DEF UInt

LEMMA DepositIsAdjustment ==
  ASSUME EngineIInv, EngineIInv', NEW u \in Users, NEW t \in Tokens, NEW amount \in Nat,
         DepositCollateral(u, t, amount)
  PROVE  Vault!Adjust(u)
<1>1. TakeDeposit(u, t, amount) /\ s_coinMinted' = s_coinMinted /\ price' = price
  BY DEF DepositCollateral
<1>2. Vault!Moves(u)
  BY <1>1, TakeDepositShape, OthersKeep
<1>3. Vault!Strengthens(u)
  BY <1>1, TakeDepositShape, Typed DEF Vault!Strengthens
<1> QED
  BY <1>2, <1>3 DEF Vault!Adjust

LEMMA BurnIsAdjustment ==
  ASSUME EngineIInv, EngineIInv', NEW u \in Users, NEW amount \in Nat, BurnCoin(u, amount)
  PROVE  Vault!Adjust(u)
<1>1. /\ RetireCoin(u, u, amount)
      /\ s_collateralDeposited' = s_collateralDeposited /\ price' = price
  BY DEF BurnCoin
<1>2. Vault!Moves(u)
  BY <1>1, RetireShape, OthersKeep
<1>3. Vault!Strengthens(u)
  <2>1. s_coinMinted[u] \in Nat /\ s_coinMinted'[u] \in Nat
    BY Typed, TypedNext
  <2>2. s_coinMinted'[u] <= s_coinMinted[u]
    BY <1>1, <2>1, RetireShape
  <2> QED
    BY <1>1, <2>2, Typed DEF Vault!Strengthens
<1> QED
  BY <1>2, <1>3 DEF Vault!Adjust

LEMMA MintIsAdjustment ==
  ASSUME EngineIInv, EngineIInv', NEW u \in Users, NEW amount \in Nat, MintCoin(u, amount)
  PROVE  Vault!Adjust(u)
<1>1. IssueCoin(u, amount) /\ s_collateralDeposited' = s_collateralDeposited /\ price' = price
  BY DEF MintCoin
<1>2. Vault!Moves(u)
  BY <1>1, IssueShape, OthersKeep
<1> QED
  BY <1>1, <1>2, IssueShape, CheckedIsSafe DEF Vault!Adjust

\* The other calls end with a health check, at least of those in debt.
LEMMA CheckedIsAdjustment ==
  ASSUME EngineIInv, EngineIInv', NEW u \in Users,
         NEW t \in Tokens, NEW a \in Nat, NEW b \in Nat,
         \/ DepositCollateralAndMintCoin(u, t, a, b)
         \/ RedeemCollateral(u, t, a)
         \/ BurnCoinAndRedeemCollateral(u, t, a, b)
  PROVE  Vault!Adjust(u)
<1>1. CASE DepositCollateralAndMintCoin(u, t, a, b)
  <2>1. TakeDeposit(u, t, a) /\ IssueCoin(u, b) /\ price' = price
    BY <1>1 DEF DepositCollateralAndMintCoin
  <2>2. Vault!Moves(u)
    BY <2>1, TakeDepositShape, IssueShape, OthersKeep
  <2> QED
    BY <2>1, <2>2, IssueShape, CheckedIsSafe DEF Vault!Adjust
<1>2. CASE RedeemCollateral(u, t, a)
  <2>1. /\ ReleaseCollateral(t, u, u, a) /\ s_coinMinted' = s_coinMinted
        /\ price' = price /\ RedeemerIsHealthy(u)
    BY <1>2 DEF RedeemCollateral
  <2>2. Vault!Moves(u)
    BY <2>1, ReleaseShape, OthersKeep
  <2> QED
    BY <2>1, <2>2, CheckedIsSafe DEF Vault!Adjust, RedeemerIsHealthy
<1>3. CASE BurnCoinAndRedeemCollateral(u, t, a, b)
  <2>1. /\ ReleaseCollateral(t, u, u, a) /\ RetireCoin(u, u, b)
        /\ price' = price /\ RedeemerIsHealthy(u)
    BY <1>3 DEF BurnCoinAndRedeemCollateral
  <2>2. Vault!Moves(u)
    BY <2>1, ReleaseShape, RetireShape, OthersKeep
  <2> QED
    BY <2>1, <2>2, CheckedIsSafe DEF Vault!Adjust, RedeemerIsHealthy
<1> QED
  BY <1>1, <1>2, <1>3

\* The last check of liquidate, seen through the rounding.
LEMMA ImprovementIsCover ==
  ASSUME EngineIInv, EngineIInv', price' = price, NEW u \in Users,
         HealthFactorImproves(u), s_coinMinted[u] > 0, s_coinMinted'[u] > 0
  PROVE  Vault!Cover(u)' * s_coinMinted[u] > Vault!Cover(u) * s_coinMinted'[u]
<1> DEFINE a == ThresholdCollateral(s_collateralDeposited[u])
           b == ThresholdCollateral(s_collateralDeposited'[u])
           m == s_coinMinted[u]
           n == s_coinMinted'[u]
<1>1. /\ s_collateralDeposited[u] \in [Tokens -> Nat] /\ m \in Nat
      /\ s_collateralDeposited'[u] \in [Tokens -> Nat] /\ n \in Nat
  BY Typed, TypedNext
<1>2. (b * PRECISION) \div n > (a * PRECISION) \div m
  BY <1>1 DEF HealthFactorImproves, HealthFactor
<1>3. /\ a \in Nat /\ a = CollateralValue(s_collateralDeposited[u]) \div 2
      /\ b \in Nat /\ b = CollateralValue(s_collateralDeposited'[u]) \div 2
  BY <1>1, Typed, ThresholdIsHalf
<1>4. Vault!Cover(u) = a
  BY <1>3, WorthIsValue DEF Vault!Cover
<1>5. Vault!Cover(u)' = b
  <2>1. Vault!Worth(s_collateralDeposited[u])' = Vault!Worth(s_collateralDeposited'[u])
    BY DEF Vault!Worth, FeedPrice
  <2> QED
    BY <1>3, <2>1, WorthIsValue DEF Vault!Cover
<1>6. m > 0 /\ n > 0 /\ PRECISION \in Nat /\ PRECISION > 0
  BY PrecisionAssumption
<1> HIDE DEF a, b, m, n
<1>7. b * m > a * n
  BY <1>1, <1>2, <1>3, <1>6, HigherQuotient
<1> QED
  BY <1>4, <1>5, <1>7 DEF m, n

LEMMA LiquidateIsSeizure ==
  ASSUME EngineIInv, EngineIInv', NEW l \in Users, NEW u \in Users, NEW t \in Tokens,
         NEW x \in Nat, Liquidate(l, u, t, x)
  PROVE  Vault!Seize(u, t)
<1> DEFINE reward == TokenAmountFromINR(t, x)
           taken  == reward + LiquidationBonus(reward)
<1>1. /\ HealthFactor(s_collateralDeposited[u], s_coinMinted[u]) < MIN_HEALTH_FACTOR
      /\ TokenAmountFits(t, x)
      /\ ReleaseCollateral(t, u, l, taken)
      /\ RetireCoin(u, l, x)
      /\ HealthFactorImproves(u)
      /\ price' = price
  BY DEF Liquidate, CanLiquidate
<1>2. FeedPrice(t) \in Nat /\ FeedPrice(t) > 0
  BY <1>1, Typed, FeedPriceNat DEF TokenAmountFits
<1>3. /\ taken \in Nat
      /\ FeedPrice(t) * (taken + 1) > PRECISION * x
      /\ 100 * FeedPrice(t) * taken <= 105 * PRECISION * x
  BY <1>2, RewardBounds
<1> HIDE DEF taken
<1>4. /\ s_coinMinted[u] - s_coinMinted'[u] = x /\ x > 0
      /\ s_coinMinted[u] \in Nat /\ s_coinMinted'[u] \in Nat /\ s_coinMinted[u] > 0
  BY <1>1, RetireShape, Typed, TypedNext
<1>5. /\ s_collateralDeposited[u][t] - s_collateralDeposited'[u][t] = taken
      /\ \A s \in Tokens \ {t} : s_collateralDeposited'[u][s] = s_collateralDeposited[u][s]
  BY <1>1, <1>3, ReleaseShape
<1>6. Vault!Moves(u)
  <2>1. \E n \in Int : s_collateralDeposited' = [s_collateralDeposited EXCEPT ![u][t] = n]
    BY <1>1, <1>3, ReleaseShape
  <2>2. \E n \in Int : s_coinMinted' = [s_coinMinted EXCEPT ![u] = n]
    BY <1>1, RetireShape
  <2> QED
    BY <1>1, <2>1, <2>2, OthersKeep
<1>7. ~Vault!Safe(u)
  <2> DEFINE h == HealthFactor(s_collateralDeposited[u], s_coinMinted[u])
             v == CollateralValue(s_collateralDeposited[u])
  <2>1. s_collateralDeposited[u] \in [Tokens -> Nat] /\ price \in [Tokens -> UInt]
    BY Typed
  <2>2. v \in Nat
    BY <2>1, ValueNat
  <2>3. h >= MIN_HEALTH_FACTOR <=> v >= 2 * s_coinMinted[u]
    BY <1>4, <2>1, HealthFactorIsExact
  <2>4. h \in Nat /\ MIN_HEALTH_FACTOR \in Nat
    <3>1. ThresholdCollateral(s_collateralDeposited[u]) * PRECISION \in Nat
      BY <2>1, ThresholdIsHalf, PrecisionAssumption, MultNat
    <3> QED
      BY <1>4, <3>1, DivBounds, PrecisionAssumption DEF HealthFactor, MIN_HEALTH_FACTOR
  <2>5. h < MIN_HEALTH_FACTOR
    BY <1>1
  <2>6. ~(h >= MIN_HEALTH_FACTOR)
    <3> HIDE DEF h
    <3> QED
      BY <2>4, <2>5
  <2> QED
    BY <1>4, <2>3, <2>6, SafeNow
<1>8. s_coinMinted'[u] > 0 =>
        Vault!Cover(u)' * s_coinMinted[u] > Vault!Cover(u) * s_coinMinted'[u]
  BY <1>1, <1>4, ImprovementIsCover
<1>9. [s \in Tokens |-> FeedPrice(s)][t] = FeedPrice(t)
  OBVIOUS
<1> QED
  BY <1>3, <1>4, <1>5, <1>6, <1>7, <1>8, <1>9 DEF Vault!Seize

-----------------------------------------------------------------------------
(* The refinement.                                                         *)

LEMMA InitRefines ==
  ASSUME Init
  PROVE  Vault!Init
<1>1. price \in [Tokens -> UInt]
  BY InitIInv DEF EngineIInv
<1>2. [t \in Tokens |-> FeedPrice(t)] \in [Tokens -> Nat]
  BY <1>1, FeedPriceNat
<1> QED
  BY <1>2 DEF Init, Vault!Init

LEMMA CallEngineRefines ==
  ASSUME EngineIInv, EngineIInv', NEW u \in Users, CallEngine(u)
  PROVE  Vault!Next
<1>1. ASSUME Vault!Adjust(u)
      PROVE  Vault!Next
  BY <1>1 DEF Vault!Next
<1>2. ASSUME NEW v \in Users, NEW t \in Tokens, NEW x \in CoinAmounts, Liquidate(u, v, t, x)
      PROVE  Vault!Next
  BY <1>2, InputsNat, LiquidateIsSeizure DEF Vault!Next
<1>3. ASSUME NEW b \in CoinAmounts, BurnCoin(u, b)
      PROVE  Vault!Next
  BY <1>1, <1>3, InputsNat, BurnIsAdjustment
<1>4. ASSUME NEW t \in Tokens, NEW a \in CollateralAmounts, DepositCollateral(u, t, a)
      PROVE  Vault!Next
  BY <1>1, <1>4, InputsNat, DepositIsAdjustment
<1>5. ASSUME NEW t \in Tokens, NEW a \in CollateralAmounts, RedeemCollateral(u, t, a)
      PROVE  Vault!Next
  <2>1. 0 \in Nat /\ a \in Nat
    BY InputsNat
  <2> QED
    BY <1>1, <1>5, <2>1, CheckedIsAdjustment
<1>6. ASSUME NEW t \in Tokens, NEW a \in CollateralAmounts, NEW b \in CoinAmounts,
             DepositCollateralAndMintCoin(u, t, a, b) \/ BurnCoinAndRedeemCollateral(u, t, a, b)
      PROVE  Vault!Next
  BY <1>1, <1>6, InputsNat, CheckedIsAdjustment
<1>7. ASSUME NEW b \in CoinAmounts, MintCoin(u, b)
      PROVE  Vault!Next
  BY <1>1, <1>7, InputsNat, MintIsAdjustment
<1> QED
  BY <1>2, <1>3, <1>4, <1>5, <1>6, <1>7 DEF CallEngine

LEMMA NextRefines ==
  ASSUME EngineIInv, EngineIInv', [Next]_vars
  PROVE  [Vault!Next]_Vault!vars
<1>1. ASSUME UNCHANGED <<engineVars, price>>
      PROVE  UNCHANGED Vault!vars
  BY <1>1 DEF Vault!vars, engineVars, FeedPrice
<1>2. CASE UNCHANGED vars
  BY <1>1, <1>2 DEF vars
<1>3. CASE HandOverCoin
  BY <1>1, <1>3 DEF HandOverCoin
<1>4. ASSUME NEW u \in Users, CallEngine(u)
      PROVE  Vault!Next
  BY <1>4, CallEngineRefines
<1>5. ASSUME NEW u \in Users, UseCoin(u)
      PROVE  UNCHANGED Vault!vars
  BY <1>1, <1>5 DEF UseCoin
<1>6. ASSUME NEW u \in Users, NEW t \in Tokens, UseToken(u, t)
      PROVE  UNCHANGED Vault!vars
  BY <1>1, <1>6 DEF UseToken
<1>7. ASSUME NEW t \in Tokens, UpdateAnswer(t)
      PROVE  Vault!Next
  <2>1. \A s \in Tokens : FeedPrice(s)' \in Nat
    <3>1. \A s \in Tokens : price'[s] \in Nat /\ 10 ^ (MAX_DECIMALS - FeedDecimals[s]) \in Nat
      BY TypedNext, FeedAssumption, MaxUintAssumption DEF UInt
    <3>2. \A s \in Tokens : price'[s] * 10 ^ (MAX_DECIMALS - FeedDecimals[s]) \in Nat
      BY <3>1, MultNat
    <3> QED
      BY <3>2 DEF FeedPrice
  <2>2. [s \in Tokens |-> FeedPrice(s)]' \in [Tokens -> Nat]
    BY <2>1
  <2>3. UNCHANGED <<s_collateralDeposited, s_coinMinted>>
    BY <1>7 DEF UpdateAnswer, engineVars
  <2> QED
    BY <2>2, <2>3 DEF Vault!Next, Vault!Reprice
<1> QED
  BY <1>2, <1>3, <1>4, <1>5, <1>6, <1>7 DEF Next

\* The engine implements the vault: every transaction of anybody moves the
\* positions as the vault allows, for all prices, amounts and roundings.
THEOREM EngineImplementsVault == Spec => VaultSpec
<1>1. Init => Vault!Init
  BY InitRefines
<1>2. EngineIInv /\ EngineIInv' /\ [Next]_vars => [Vault!Next]_Vault!vars
  BY NextRefines
<1> QED
  BY <1>1, <1>2, EngineInvariant, PTL DEF Spec, VaultSpec, Vault!Spec

\* The two names of the vault stand for one specification.
LEMMA SameVault ==
  /\ Proved!Init <=> Vault!Init
  /\ [Proved!Next]_Proved!vars <=> [Vault!Next]_Vault!vars
  /\ [\A u \in Users : Proved!Safe(u) /\ ~Proved!Safe(u)' =>
        [t \in Tokens |-> FeedPrice(t)]' # [t \in Tokens |-> FeedPrice(t)]]_Proved!vars
     <=>
     [\A u \in Users : Vault!Safe(u) /\ ~Vault!Safe(u)' =>
        [t \in Tokens |-> FeedPrice(t)]' # [t \in Tokens |-> FeedPrice(t)]]_Vault!vars
BY DEF Proved!Init, Vault!Init, Proved!vars, Vault!vars,
       Proved!Next, Vault!Next, Proved!Reprice, Vault!Reprice,
       Proved!Adjust, Vault!Adjust, Proved!Seize, Vault!Seize,
       Proved!Moves, Vault!Moves, Proved!Strengthens, Vault!Strengthens,
       Proved!Safe, Vault!Safe, Proved!Cover, Vault!Cover, Proved!Worth, Vault!Worth,
       Proved!SumFunction, Vault!SumFunction,
       Proved!SumFunctionOnSet, Vault!SumFunctionOnSet,
       Proved!FoldFunctionOnSet, Vault!FoldFunctionOnSet,
       Proved!MapThenFoldSet, Vault!MapThenFoldSet

\* No transaction of the engine, of its owner or of anybody else, turns a safe
\* position unsafe: the vault's theorem carries over.
THEOREM EngineEndangersNobody == Spec => OnlyTheMarketEndangers
<1> DEFINE A == \A u \in Users : Proved!Safe(u) /\ ~Proved!Safe(u)' =>
                  [t \in Tokens |-> FeedPrice(t)]' # [t \in Tokens |-> FeedPrice(t)]
           B == \A u \in Users : Vault!Safe(u) /\ ~Vault!Safe(u)' =>
                  [t \in Tokens |-> FeedPrice(t)]' # [t \in Tokens |-> FeedPrice(t)]
<1>1. Proved!VaultConstants
  BY PrecisionAssumption, FeedAssumption
     DEF Proved!VaultConstants, Proved!IsFiniteSet, IsFiniteSet
<1>2. Proved!Spec => Proved!OnlyTheMarketEndangers
  BY <1>1, Proved!VaultIsSafe
<1>3. Proved!OnlyTheMarketEndangers <=> [][A]_Proved!vars
  BY DEF Proved!OnlyTheMarketEndangers
<1>4. OnlyTheMarketEndangers <=> [][B]_Vault!vars
  BY DEF OnlyTheMarketEndangers, Vault!OnlyTheMarketEndangers
<1>5. /\ Proved!Init <=> Vault!Init
      /\ [Proved!Next]_Proved!vars <=> [Vault!Next]_Vault!vars
      /\ [A]_Proved!vars <=> [B]_Vault!vars
  BY SameVault
<1> HIDE DEF A, B
<1> QED
  BY <1>2, <1>3, <1>4, <1>5, EngineImplementsVault, PTL
     DEF VaultSpec, Vault!Spec, Proved!Spec

-----------------------------------------------------------------------------
(* Healthy positions back the supply.                                      *)

LEMMA ValueMonotone ==
  ASSUME price \in [Tokens -> UInt],
         NEW b \in [Tokens -> Nat], NEW c \in [Tokens -> Nat],
         \A t \in Tokens : b[t] <= c[t]
  PROVE  CollateralValue(b) <= CollateralValue(c)
<1> DEFINE f == [t \in Tokens |-> INRValue(t, b[t])]
           g == [t \in Tokens |-> INRValue(t, c[t])]
<1>1. ASSUME NEW t \in Tokens
      PROVE  f[t] \in Int /\ g[t] \in Int /\ f[t] <= g[t]
  <2>1. /\ FeedPrice(t) \in Nat /\ b[t] \in Nat /\ c[t] \in Nat /\ b[t] <= c[t]
        /\ PRECISION \in Nat /\ PRECISION > 0
    BY FeedPriceNat, PrecisionAssumption
  <2>2. /\ FeedPrice(t) * b[t] \in Nat /\ FeedPrice(t) * c[t] \in Nat
        /\ FeedPrice(t) * b[t] <= FeedPrice(t) * c[t]
    BY <2>1, MultNat
  <2>3. /\ (FeedPrice(t) * b[t]) \div PRECISION \in Nat
        /\ (FeedPrice(t) * c[t]) \div PRECISION \in Nat
        /\ (FeedPrice(t) * b[t]) \div PRECISION <= (FeedPrice(t) * c[t]) \div PRECISION
    BY <2>1, <2>2, DivBounds, DivMonotone
  <2> QED
    BY <2>3 DEF INRValue
<1>2. f \in [Tokens -> Int] /\ g \in [Tokens -> Int]
  BY <1>1
<1>3. SumFunction(f) <= SumFunction(g)
  <2> HIDE DEF f, g
  <2> QED
    BY <1>1, <1>2, FeedAssumption, SumFunctionMonotone
<1> QED
  BY <1>3 DEF CollateralValue

\* Deposits valued one by one are worth no more than valued together.
LEMMA ValueSuperadditive ==
  ASSUME price \in [Tokens -> UInt], NEW b \in [Tokens -> Nat], NEW c \in [Tokens -> Nat]
  PROVE  CollateralValue(b) + CollateralValue(c)
           <= CollateralValue([t \in Tokens |-> b[t] + c[t]])
<1> DEFINE f == [t \in Tokens |-> INRValue(t, b[t])]
           g == [t \in Tokens |-> INRValue(t, c[t])]
           s == [t \in Tokens |-> f[t] + g[t]]
           d == [t \in Tokens |-> b[t] + c[t]]
           w == [t \in Tokens |-> INRValue(t, d[t])]
<1>1. ASSUME NEW t \in Tokens
      PROVE  f[t] \in Int /\ g[t] \in Int /\ w[t] \in Int /\ f[t] + g[t] <= w[t]
  <2>1. /\ FeedPrice(t) \in Nat /\ b[t] \in Nat /\ c[t] \in Nat
        /\ PRECISION \in Nat /\ PRECISION > 0
    BY FeedPriceNat, PrecisionAssumption
  <2> DEFINE x == FeedPrice(t) * b[t]
             y == FeedPrice(t) * c[t]
  <2>2. /\ x \in Nat /\ y \in Nat /\ x + y \in Nat
        /\ FeedPrice(t) * (b[t] + c[t]) = x + y
    BY <2>1, MultNat
  <2>3. f[t] = x \div PRECISION /\ g[t] = y \div PRECISION /\ w[t] = (x + y) \div PRECISION
    BY <2>2 DEF INRValue
  <2> HIDE DEF x, y, f, g, w
  <2> QED
    BY <2>1, <2>2, <2>3, DivBounds, DivSuperadditive
<1>2. f \in [Tokens -> Int] /\ g \in [Tokens -> Int] /\ w \in [Tokens -> Int]
  BY <1>1
<1>3. s \in [Tokens -> Int] /\ \A t \in Tokens : s[t] <= w[t]
  BY <1>1
<1>4. SumFunction(s) = SumFunction(f) + SumFunction(g) /\ SumFunction(s) <= SumFunction(w)
  <2>1. SumFunction(s) = SumFunction(f) + SumFunction(g)
    <3> HIDE DEF f, g
    <3> QED
      BY <1>2, FeedAssumption, SumFunctionAdd
  <2>2. SumFunction(s) <= SumFunction(w)
    <3> HIDE DEF f, g, s, w
    <3> QED
      BY <1>2, <1>3, FeedAssumption, SumFunctionMonotone
  <2> QED
    BY <2>1, <2>2
<1>5. CollateralValue(b) = SumFunction(f) /\ CollateralValue(c) = SumFunction(g)
      /\ CollateralValue(d) = SumFunction(w)
  BY DEF CollateralValue
<1> QED
  BY <1>4, <1>5

LEMMA HealthyIsCovered ==
  ASSUME EngineIInv, NEW u \in Users, Healthy(u)
  PROVE  CollateralValue(s_collateralDeposited[u]) >= 2 * s_coinMinted[u]
<1>1. /\ price \in [Tokens -> UInt] /\ s_collateralDeposited[u] \in [Tokens -> Nat]
      /\ s_coinMinted[u] \in Nat
  BY Typed
<1>2. CollateralValue(s_collateralDeposited[u]) \in Nat
  BY <1>1, ValueNat
<1>3. CASE s_coinMinted[u] = 0
  BY <1>2, <1>3
<1>4. CASE s_coinMinted[u] # 0
  BY <1>1, <1>4, HealthFactorIsExact DEF Healthy
<1> QED
  BY <1>3, <1>4

\* What all users have deposited together covers what they owe together, when
\* each user's deposits cover the own debt.
LEMMA TogetherCovered ==
  ASSUME EngineIInv,
         \A u \in Users :
           CollateralValue(s_collateralDeposited[u]) >= 2 * s_coinMinted[u]
  PROVE  CollateralValue([t \in Tokens |-> Deposited(t)]) >= 2 * TotalMinted
<1>1. /\ price \in [Tokens -> UInt] /\ s_collateralDeposited \in [Users -> [Tokens -> Nat]]
      /\ s_coinMinted \in [Users -> Nat] /\ IsFiniteSet(Users)
  BY Typed, Accounts
<1> DEFINE col(t) == [u \in Users |-> s_collateralDeposited[u][t]]
           part   == [t \in Tokens |-> CHOOSE h : h \in PartialSums(Users, col(t))]
<1>2. PICK owed \in PartialSums(Users, s_coinMinted) : SumFunction(s_coinMinted) = owed[Users]
  <2>1. s_coinMinted \in [Users -> Int]
    BY <1>1
  <2> QED
    BY <1>1, <2>1, PartialSumsExist, SumFunctionIsPartialSum
<1>3. ASSUME NEW t \in Tokens
      PROVE  part[t] \in PartialSums(Users, col(t)) /\ part[t][Users] = Deposited(t)
  <2>1. col(t) \in [Users -> Int]
    BY <1>1
  <2>2. PartialSums(Users, col(t)) # {}
    <3> HIDE DEF col
    <3> QED
      BY <1>1, <2>1, PartialSumsExist
  <2>3. part[t] \in PartialSums(Users, col(t))
    BY <2>2
  <2>4. SumFunction(col(t)) = part[t][Users]
    <3> HIDE DEF col, part
    <3> QED
      BY <1>1, <2>1, <2>3, SumFunctionIsPartialSum
  <2> QED
    BY <2>3, <2>4 DEF Deposited
<1> DEFINE bundle(S) == [t \in Tokens |-> part[t][S]]
           G == {S \in SUBSET Users : /\ bundle(S) \in [Tokens -> Nat]
                                      /\ CollateralValue(bundle(S)) >= 2 * owed[S]}
<1> HIDE DEF part
<1>4. ASSUME NEW S \in SUBSET Users, \A R \in SUBSET S : R # S => R \in G
      PROVE  S \in G
  <2>1. CASE S = {}
    <3>1. bundle(S) \in [Tokens -> Nat] /\ owed[S] = 0
      BY <1>2, <1>3, <2>1 DEF PartialSums
    <3>2. CollateralValue(bundle(S)) \in Nat
      <4> HIDE DEF bundle
      <4> QED
        BY <1>1, <3>1, ValueNat
    <3> QED
      BY <3>1, <3>2
  <2>2. CASE S # {}
    <3>1. PICK x : x \in S
      BY <2>2
    <3> DEFINE R   == S \ {x}
               dep == s_collateralDeposited[x]
    <3>2. bundle(R) \in [Tokens -> Nat] /\ CollateralValue(bundle(R)) >= 2 * owed[R]
      <4>1. R \in SUBSET S /\ R # S
        BY <3>1
      <4> QED
        BY <1>4, <4>1
    <3>3. owed[S] = s_coinMinted[x] + owed[R] /\ owed[R] \in Int /\ s_coinMinted[x] \in Nat
      BY <1>1, <1>2, <3>1 DEF PartialSums
    <3>4. dep \in [Tokens -> Nat] /\ CollateralValue(dep) >= 2 * s_coinMinted[x]
      BY <1>1, <3>1
    <3>5. \A t \in Tokens : part[t][S] = dep[t] + part[t][R]
      BY <1>1, <1>3, <3>1 DEF PartialSums
    <3>6. bundle(S) = [t \in Tokens |-> dep[t] + bundle(R)[t]]
      BY <3>5
    <3>7. bundle(S) \in [Tokens -> Nat]
      <4> HIDE DEF bundle, dep
      <4> QED
        BY <3>2, <3>4, <3>6
    <3>8. /\ CollateralValue(dep) + CollateralValue(bundle(R)) <= CollateralValue(bundle(S))
          /\ CollateralValue(dep) \in Nat /\ CollateralValue(bundle(R)) \in Nat
          /\ CollateralValue(bundle(S)) \in Nat
      <4> HIDE DEF bundle, dep, R
      <4> QED
        BY <1>1, <3>2, <3>4, <3>6, <3>7, ValueSuperadditive, ValueNat
    <3>9. CollateralValue(bundle(S)) >= 2 * owed[S]
      <4> HIDE DEF bundle, dep, R
      <4> QED
        BY <3>2, <3>3, <3>4, <3>8
    <3> QED
      BY <3>7, <3>9
  <2> QED
    BY <2>1, <2>2
<1>5. Users \in G
  <2>1. SUBSET Users \subseteq G
    <3> HIDE DEF G
    <3> QED
      BY <1>1, <1>4, SubsetStrongInduction
  <2> QED
    BY <2>1
<1>6. bundle(Users) = [t \in Tokens |-> Deposited(t)]
  BY <1>3
<1> QED
  BY <1>2, <1>5, <1>6 DEF TotalMinted

\* While every position is healthy, the engine's tokens are worth twice the
\* supply: no rounding of any number of positions adds up to a shortfall.
THEOREM HealthBacksTheSupply == Spec => []HealthyMeansBacked
<1>1. ASSUME EngineIInv, \A u \in Users : Healthy(u)
      PROVE  CollateralValue([t \in Tokens |-> tokens[t].balances[Engine]])
               >= 2 * coin.totalSupply
  <2> DEFINE held == [t \in Tokens |-> tokens[t].balances[Engine]]
             dep  == [t \in Tokens |-> Deposited(t)]
  <2>1. CollateralValue(dep) >= 2 * TotalMinted
    BY <1>1, HealthyIsCovered, TogetherCovered
  <2>2. /\ held \in [Tokens -> Nat] /\ dep \in [Tokens -> Nat]
        /\ \A t \in Tokens : dep[t] <= held[t]
        /\ coin.totalSupply \in Nat /\ TotalMinted \in Nat
        /\ TotalMinted >= coin.totalSupply
    BY <1>1, EngineBalances
  <2>3. /\ CollateralValue(dep) <= CollateralValue(held)
        /\ CollateralValue(dep) \in Nat /\ CollateralValue(held) \in Nat
    <3> HIDE DEF dep, held
    <3> QED
      BY <1>1, <2>2, Typed, ValueMonotone, ValueNat
  <2> HIDE DEF dep
  <2> QED
    BY <2>1, <2>2, <2>3
<1>2. EngineIInv => HealthyMeansBacked
  BY <1>1 DEF HealthyMeansBacked
<1> QED
  BY <1>2, EngineInvariant, PTL

-----------------------------------------------------------------------------
(* Who pays for what: the holdings of every user, in the own wallet and on  *)
(* record, through the transactions of the engine.                          *)

\* The body of LossesRepayDebt, for one user.
PaidFor(u) ==
  LET relief == s_coinMinted[u] - s_coinMinted'[u]
  IN  /\ \A t \in Tokens :
           LET loss == Holding(u, t) - Holding(u, t)'
           IN  loss > 0 =>
                 /\ ~Healthy(u) /\ relief > 0
                 /\ 100 * FeedPrice(t) * loss <= 105 * PRECISION * relief
                 /\ \A s \in Tokens \ {t} : Holding(u, s)' = Holding(u, s)
      /\ relief < 0 => coin'.balances[u] = coin.balances[u] - relief

PaidStep == UNCHANGED engineVars \/ \A u \in Users : PaidFor(u)

HoldingsKept == \A v \in Users, s \in Tokens : Holding(v, s)' = Holding(v, s)

DebtsDoNotGrow == \A v \in Users : s_coinMinted'[v] <= s_coinMinted[v]

LEMMA HoldingsNat ==
  ASSUME EngineIInv
  PROVE  \A v \in Users, s \in Tokens :
           /\ tokens[s].balances[v] \in Nat
           /\ s_collateralDeposited[v][s] \in Nat
           /\ Holding(v, s) \in Nat
<1>1. \A v \in Users, s \in Tokens : tokens[s].balances[v] \in Nat
  BY Accounts, BalancesAreInt DEF EngineIInv, TokensSound
<1>2. \A v \in Users, s \in Tokens : s_collateralDeposited[v][s] \in Nat
  BY Typed
<1> QED
  BY <1>1, <1>2 DEF Holding

LEMMA HoldingsNatNext ==
  ASSUME EngineIInv'
  PROVE  \A v \in Users, s \in Tokens : Holding(v, s)' \in Nat
<1>1. \A v \in Users, s \in Tokens : tokens'[s].balances[v] \in Nat
  BY Accounts, BalancesAreInt DEF EngineIInv, TokensSound
<1>2. \A v \in Users, s \in Tokens : s_collateralDeposited'[v][s] \in Nat
  BY TypedNext
<1> QED
  BY <1>1, <1>2 DEF Holding

\* A deposit moves from the wallet to the record.
LEMMA DepositKeepsHoldings ==
  ASSUME EngineIInv, NEW u \in Users, NEW t \in Tokens, NEW amount \in UInt,
         TakeDeposit(u, t, amount)
  PROVE  HoldingsKept
<1> DEFINE m == TransferredFrom(tokens[t], Engine, u, Engine, amount)
           n == s_collateralDeposited[u][t] + amount
<1>1. Sound(tokens[t]) /\ CanTransferFrom(tokens[t], Engine, u, Engine, amount)
  BY DEF EngineIInv, TokensSound, TakeDeposit
<1>2. \A v \in Users : m.balances[v] = IF v = u THEN tokens[t].balances[v] - amount
                                                ELSE tokens[t].balances[v]
  BY <1>1, Accounts, TransferredFromIsSound
<1>3. /\ s_collateralDeposited' = [s_collateralDeposited EXCEPT ![u][t] = n]
      /\ tokens' = [tokens EXCEPT ![t] = m]
  BY DEF TakeDeposit, EngineIInv, PositionsTypeOK, TokensSound
<1>4. amount \in Nat /\ n \in Nat /\ n = s_collateralDeposited[u][t] + amount
  BY Typed
<1> HIDE DEF m, n
<1>5. \A v \in Users, s \in Tokens :
        /\ tokens'[s] = IF s = t THEN m ELSE tokens[s]
        /\ s_collateralDeposited'[v][s] =
             IF v = u /\ s = t THEN n ELSE s_collateralDeposited[v][s]
  BY <1>3, Typed DEF EngineIInv, TokensSound
<1>6. ASSUME NEW v \in Users, NEW s \in Tokens
      PROVE  Holding(v, s)' = Holding(v, s)
  <2>1. tokens[s].balances[v] \in Nat /\ s_collateralDeposited[v][s] \in Nat
    BY HoldingsNat
  <2> QED
    BY <1>2, <1>4, <1>5, <2>1 DEF Holding
<1> QED
  BY <1>6 DEF HoldingsKept

\* What is released leaves the record of one user and enters the wallet of
\* another, or of the same.
LEMMA ReleaseMovesHoldings ==
  ASSUME EngineIInv, NEW t \in Tokens, NEW from \in Users, NEW to \in Users,
         NEW amount \in Nat, ReleaseCollateral(t, from, to, amount)
  PROVE  \A v \in Users, s \in Tokens :
           Holding(v, s)' = Holding(v, s)
             + (IF s = t /\ v = to THEN amount ELSE 0)
             - (IF s = t /\ v = from THEN amount ELSE 0)
<1> DEFINE m == Transferred(tokens[t], Engine, to, amount)
           n == s_collateralDeposited[from][t] - amount
<1>1. Sound(tokens[t]) /\ CanTransfer(tokens[t], Engine, to, amount)
  BY DEF EngineIInv, TokensSound, ReleaseCollateral
<1>2. amount \in UInt /\ n \in Nat /\ n = s_collateralDeposited[from][t] - amount
  <2>1. s_collateralDeposited[from][t] \in UInt
    BY DEF EngineIInv, PositionsTypeOK
  <2> QED
    BY <2>1, EngineBalances DEF ReleaseCollateral
<1>3. \A v \in Users : m.balances[v] = IF v = to THEN tokens[t].balances[v] + amount
                                                 ELSE tokens[t].balances[v]
  BY <1>1, <1>2, Accounts, TransferredIsSound
<1>4. /\ s_collateralDeposited' = [s_collateralDeposited EXCEPT ![from][t] = n]
      /\ tokens' = [tokens EXCEPT ![t] = m]
  BY DEF ReleaseCollateral, EngineIInv, PositionsTypeOK, TokensSound
<1> HIDE DEF m, n
<1>5. \A v \in Users, s \in Tokens :
        /\ tokens'[s] = IF s = t THEN m ELSE tokens[s]
        /\ s_collateralDeposited'[v][s] =
             IF v = from /\ s = t THEN n ELSE s_collateralDeposited[v][s]
  BY <1>4, Typed DEF EngineIInv, TokensSound
<1> TAKE v \in Users, s \in Tokens
<1>6. tokens[s].balances[v] \in Nat /\ s_collateralDeposited[v][s] \in Nat
  BY HoldingsNat
<1>7. tokens'[s].balances[v] =
        tokens[s].balances[v] + (IF s = t /\ v = to THEN amount ELSE 0)
  BY <1>3, <1>5, <1>6
<1>8. s_collateralDeposited'[v][s] =
        s_collateralDeposited[v][s] - (IF s = t /\ v = from THEN amount ELSE 0)
  BY <1>2, <1>5, <1>6
<1>9. /\ (IF s = t /\ v = to THEN amount ELSE 0) \in Nat
      /\ (IF s = t /\ v = from THEN amount ELSE 0) \in Nat
  OBVIOUS
<1> QED
  BY <1>6, <1>7, <1>8, <1>9 DEF Holding

\* New debt comes with the coins.
LEMMA IssuedIsOwed ==
  ASSUME EngineIInv, NEW u \in Users, NEW amount \in UInt, IssueCoin(u, amount)
  PROVE  /\ s_coinMinted'[u] = s_coinMinted[u] + amount
         /\ coin'.balances[u] = coin.balances[u] + amount
         /\ \A v \in Users \ {u} : s_coinMinted'[v] = s_coinMinted[v]
<1>1. s_coinMinted' = [s_coinMinted EXCEPT ![u] = s_coinMinted[u] + amount]
  BY Typed DEF IssueCoin
<1>2. CanMint(coin, u, amount) /\ coin' = Minted(coin, u, amount) /\ Sound(coin)
  BY DEF IssueCoin, Mint, EngineIInv, CoinIInv
<1>3. coin'.balances[u] = coin.balances[u] + amount
  BY <1>2, Accounts, MintedIsSound
<1> QED
  BY <1>1, <1>3, Typed

LEMMA RetiredIsRepaid ==
  ASSUME EngineIInv, NEW u \in Users, NEW from, NEW amount \in Nat,
         RetireCoin(u, from, amount)
  PROVE  DebtsDoNotGrow
<1>1. s_coinMinted' = [s_coinMinted EXCEPT ![u] = s_coinMinted[u] - amount]
  BY Typed DEF RetireCoin
<1> QED
  BY <1>1, Typed DEF DebtsDoNotGrow

\* Without a loss there is nothing to pay for; without new debt, no coins.
LEMMA NothingToPayFor ==
  ASSUME EngineIInv, EngineIInv', HoldingsKept, DebtsDoNotGrow, NEW u \in Users
  PROVE  PaidFor(u)
<1>1. \A t \in Tokens : Holding(u, t)' = Holding(u, t) /\ Holding(u, t) \in Nat
  BY HoldingsNat DEF HoldingsKept
<1>2. \A t \in Tokens : ~(Holding(u, t) - Holding(u, t)' > 0)
  BY <1>1
<1>3. ~(s_coinMinted[u] - s_coinMinted'[u] < 0)
  BY Typed, TypedNext DEF DebtsDoNotGrow
<1> QED
  BY <1>2, <1>3 DEF PaidFor

LEMMA IssueIsPaidFor ==
  ASSUME EngineIInv, EngineIInv', HoldingsKept, NEW u \in Users, NEW amount \in UInt,
         IssueCoin(u, amount), NEW v \in Users
  PROVE  PaidFor(v)
<1>1. \A t \in Tokens : Holding(v, t)' = Holding(v, t) /\ Holding(v, t) \in Nat
  BY HoldingsNat DEF HoldingsKept
<1>2. \A t \in Tokens : ~(Holding(v, t) - Holding(v, t)' > 0)
  BY <1>1
<1>3. s_coinMinted[v] - s_coinMinted'[v] < 0
        => coin'.balances[v] = coin.balances[v] - (s_coinMinted[v] - s_coinMinted'[v])
  <2>1. /\ s_coinMinted[v] \in Nat /\ s_coinMinted'[v] \in Nat /\ amount \in Nat
        /\ coin.balances[v] \in Nat
    BY Typed, TypedNext, Accounts, BalancesAreInt DEF EngineIInv, CoinIInv
  <2>2. CASE v = u
    <3>1. s_coinMinted'[v] = s_coinMinted[v] + amount
      BY <2>2, IssuedIsOwed
    <3>2. coin'.balances[v] = coin.balances[v] + amount
      BY <2>2, IssuedIsOwed
    <3>3. coin.balances[v] - (s_coinMinted[v] - s_coinMinted'[v]) = coin.balances[v] + amount
      BY <2>1, <3>1
    <3> QED
      BY <3>2, <3>3
  <2>3. CASE v # u
    <3>1. s_coinMinted'[v] = s_coinMinted[v]
      BY <2>3, IssuedIsOwed
    <3> QED
      BY <2>1, <3>1
  <2> QED
    BY <2>2, <2>3
<1> QED
  BY <1>2, <1>3 DEF PaidFor

\* The code compares rounded health factors: whoever fails is in debt.
LEMMA LowFactorIsUnhealthy ==
  ASSUME EngineIInv, NEW u \in Users, s_coinMinted[u] > 0,
         HealthFactor(s_collateralDeposited[u], s_coinMinted[u]) < MIN_HEALTH_FACTOR
  PROVE  ~Healthy(u)
<1> DEFINE h == HealthFactor(s_collateralDeposited[u], s_coinMinted[u])
<1>1. /\ s_collateralDeposited[u] \in [Tokens -> Nat] /\ price \in [Tokens -> UInt]
      /\ s_coinMinted[u] \in Nat
  BY Typed
<1>2. ThresholdCollateral(s_collateralDeposited[u]) * PRECISION \in Nat
  BY <1>1, ThresholdIsHalf, PrecisionAssumption, MultNat
<1>3. h \in Nat /\ MIN_HEALTH_FACTOR \in Nat
  BY <1>1, <1>2, DivBounds, PrecisionAssumption DEF HealthFactor, MIN_HEALTH_FACTOR
<1>4. ~(h >= MIN_HEALTH_FACTOR)
  <2> HIDE DEF h
  <2>1. h < MIN_HEALTH_FACTOR
    BY DEF h
  <2> QED
    BY <1>3, <2>1
<1> QED
  BY <1>1, <1>4 DEF Healthy

LEMMA LiquidationIsPaidFor ==
  ASSUME EngineIInv, EngineIInv', NEW l \in Users, NEW u \in Users, NEW t \in Tokens,
         NEW x \in Nat, Liquidate(l, u, t, x), NEW v \in Users
  PROVE  PaidFor(v)
<1> DEFINE reward == TokenAmountFromINR(t, x)
           taken  == reward + LiquidationBonus(reward)
<1>1. /\ HealthFactor(s_collateralDeposited[u], s_coinMinted[u]) < MIN_HEALTH_FACTOR
      /\ TokenAmountFits(t, x)
      /\ ReleaseCollateral(t, u, l, taken)
      /\ RetireCoin(u, l, x)
  BY DEF Liquidate, CanLiquidate
<1>2. FeedPrice(t) \in Nat /\ FeedPrice(t) > 0
  BY <1>1, Typed, FeedPriceNat DEF TokenAmountFits
<1>3. /\ taken \in Nat
      /\ 100 * FeedPrice(t) * taken <= 105 * PRECISION * x
  BY <1>2, RewardBounds
<1> HIDE DEF taken
<1>4. /\ s_coinMinted[u] - s_coinMinted'[u] = x /\ x > 0 /\ s_coinMinted[u] > 0
      /\ s_coinMinted[u] \in Nat /\ s_coinMinted'[u] \in Nat
  BY <1>1, RetireShape, Typed, TypedNext
<1>5. ~Healthy(u)
  BY <1>1, <1>4, LowFactorIsUnhealthy
<1>6. \A s \in Tokens :
        /\ Holding(v, s) \in Nat /\ Holding(v, s)' \in Nat
        /\ Holding(v, s)' = Holding(v, s)
             + (IF s = t /\ v = l THEN taken ELSE 0)
             - (IF s = t /\ v = u THEN taken ELSE 0)
  BY <1>1, <1>3, HoldingsNat, HoldingsNatNext, ReleaseMovesHoldings
<1>7. ~(s_coinMinted[v] - s_coinMinted'[v] < 0)
  BY <1>1, RetiredIsRepaid, Typed, TypedNext DEF DebtsDoNotGrow
<1>8. CASE v # u \/ v = l
  <2>1. \A s \in Tokens : ~(Holding(v, s) - Holding(v, s)' > 0)
    BY <1>3, <1>6, <1>8
  <2> QED
    BY <1>7, <2>1 DEF PaidFor
<1>9. CASE v = u /\ v # l
  <2>1. Holding(v, t) - Holding(v, t)' = taken
    BY <1>3, <1>6, <1>9
  <2>2. \A s \in Tokens \ {t} : Holding(v, s)' = Holding(v, s)
    BY <1>6, <1>9
  <2>3. \A s \in Tokens : Holding(v, s) - Holding(v, s)' > 0 => s = t
    BY <1>6, <2>2
  <2>4. ASSUME NEW s \in Tokens, Holding(v, s) - Holding(v, s)' > 0
        PROVE  /\ ~Healthy(v) /\ s_coinMinted[v] - s_coinMinted'[v] > 0
               /\ 100 * FeedPrice(s) * (Holding(v, s) - Holding(v, s)')
                    <= 105 * PRECISION * (s_coinMinted[v] - s_coinMinted'[v])
               /\ \A r \in Tokens \ {s} : Holding(v, r)' = Holding(v, r)
    <3>1. s = t
      BY <2>3, <2>4
    <3>2. s_coinMinted[v] - s_coinMinted'[v] = x /\ x > 0
      BY <1>4, <1>9
    <3> QED
      BY <1>3, <1>5, <1>9, <2>1, <2>2, <3>1, <3>2
  <2> QED
    BY <1>7, <2>4 DEF PaidFor
<1> QED
  BY <1>8, <1>9

\* Redeeming one's own collateral moves it from the record to the wallet.
LEMMA RedeemKeepsHoldings ==
  ASSUME EngineIInv, NEW t \in Tokens, NEW u \in Users, NEW amount \in Nat,
         ReleaseCollateral(t, u, u, amount)
  PROVE  HoldingsKept
<1>1. ASSUME NEW v \in Users, NEW s \in Tokens
      PROVE  Holding(v, s)' = Holding(v, s)
  <2>1. Holding(v, s) \in Nat
    BY HoldingsNat
  <2>2. Holding(v, s)' = Holding(v, s)
             + (IF s = t /\ v = u THEN amount ELSE 0)
             - (IF s = t /\ v = u THEN amount ELSE 0)
    BY ReleaseMovesHoldings
  <2> QED
    BY <2>1, <2>2
<1> QED
  BY <1>1 DEF HoldingsKept

LEMMA CallsArePaidFor ==
  ASSUME EngineIInv, EngineIInv', NEW u \in Users, CallEngine(u), NEW v \in Users
  PROVE  PaidFor(v)
<1>1. CoinAmounts \subseteq UInt /\ CollateralAmounts \subseteq UInt /\ UInt \subseteq Nat
  BY CoinAmountsAssumption, InputAssumption DEF UInt
<1>2. ASSUME UNCHANGED <<s_collateralDeposited, tokens>>
      PROVE  HoldingsKept
  BY <1>2 DEF HoldingsKept, Holding
<1>3. ASSUME UNCHANGED s_coinMinted
      PROVE  DebtsDoNotGrow
  BY <1>3, Typed DEF DebtsDoNotGrow
<1>4. ASSUME NEW b \in CoinAmounts, MintCoin(u, b)
      PROVE  PaidFor(v)
  BY <1>1, <1>2, <1>4, IssueIsPaidFor DEF MintCoin
<1>5. ASSUME NEW b \in CoinAmounts, BurnCoin(u, b)
      PROVE  PaidFor(v)
  BY <1>1, <1>2, <1>5, RetiredIsRepaid, NothingToPayFor DEF BurnCoin
<1>6. ASSUME NEW b \in CoinAmounts, NEW t \in Tokens, NEW w \in Users, Liquidate(u, w, t, b)
      PROVE  PaidFor(v)
  BY <1>1, <1>6, LiquidationIsPaidFor
<1>7. ASSUME NEW b \in CoinAmounts, NEW t \in Tokens, NEW a \in CollateralAmounts,
             DepositCollateralAndMintCoin(u, t, a, b)
      PROVE  PaidFor(v)
  BY <1>1, <1>7, DepositKeepsHoldings, IssueIsPaidFor DEF DepositCollateralAndMintCoin
<1>8. ASSUME NEW b \in CoinAmounts, NEW t \in Tokens, NEW a \in CollateralAmounts,
             BurnCoinAndRedeemCollateral(u, t, a, b)
      PROVE  PaidFor(v)
  BY <1>1, <1>8, RedeemKeepsHoldings, RetiredIsRepaid, NothingToPayFor
     DEF BurnCoinAndRedeemCollateral
<1>9. ASSUME NEW t \in Tokens, NEW a \in CollateralAmounts, DepositCollateral(u, t, a)
      PROVE  PaidFor(v)
  BY <1>1, <1>3, <1>9, DepositKeepsHoldings, NothingToPayFor DEF DepositCollateral
<1>10. ASSUME NEW t \in Tokens, NEW a \in CollateralAmounts, RedeemCollateral(u, t, a)
       PROVE  PaidFor(v)
  BY <1>1, <1>3, <1>10, RedeemKeepsHoldings, NothingToPayFor DEF RedeemCollateral
<1> QED
  BY <1>4, <1>5, <1>6, <1>7, <1>8, <1>9, <1>10 DEF CallEngine

\* LossesRepayDebt: no transaction with the engine costs anybody collateral but
\* a liquidation, which takes at most 105% of the debt it relieves and only
\* from the unhealthy; nobody goes into debt without getting the coins.
THEOREM LossesOnlyRepayDebt == Spec => LossesRepayDebt
<1>1. ASSUME EngineIInv, EngineIInv', [Next]_vars
      PROVE  UNCHANGED vars \/ UNCHANGED engineVars \/ \A u \in Users : PaidFor(u)
  <2>1. ASSUME NEW u \in Users, CallEngine(u)
        PROVE  \A v \in Users : PaidFor(v)
    BY <1>1, <2>1, CallsArePaidFor
  <2>2. ASSUME HandOverCoin
        PROVE  UNCHANGED engineVars
    BY <2>2 DEF HandOverCoin
  <2>3. ASSUME NEW u \in Users, UseCoin(u)
        PROVE  UNCHANGED engineVars
    BY <2>3 DEF UseCoin
  <2>4. ASSUME NEW u \in Users, NEW t \in Tokens, UseToken(u, t)
        PROVE  UNCHANGED engineVars
    BY <2>4 DEF UseToken
  <2>5. ASSUME NEW t \in Tokens, UpdateAnswer(t)
        PROVE  UNCHANGED engineVars
    BY <2>5 DEF UpdateAnswer
  <2> QED
    BY <1>1, <2>1, <2>2, <2>3, <2>4, <2>5 DEF Next
<1>2. EngineIInv /\ EngineIInv' /\ [Next]_vars => [PaidStep]_vars
  BY <1>1 DEF PaidStep
<1>3. LossesRepayDebt <=> [][PaidStep]_vars
  BY DEF LossesRepayDebt, PaidStep, PaidFor
<1> QED
  BY <1>2, <1>3, EngineInvariant, PTL DEF Spec

-----------------------------------------------------------------------------
(* What stays open to a user.  ENABLED of a transaction asks for values of *)
(* the primed variables that make it true: the theorems give those values  *)
(* and prove that no check of the transaction stands in the way.           *)

\* Coins are owed only after the coin was handed over to the engine, which
\* then keeps it.
EngineOwnsOwedCoin == \A u \in Users : s_coinMinted[u] > 0 => owner = Engine

LEMMA CallKeepsOwnership ==
  ASSUME EngineOwnsOwedCoin, NEW u \in Users, CallEngine(u)
  PROVE  EngineOwnsOwedCoin'
<1>1. ASSUME NEW v, NEW amount, IssueCoin(v, amount)
      PROVE  owner' = Engine
  BY <1>1 DEF IssueCoin, Mint, OnlyOwner
<1>2. ASSUME NEW v, NEW from, NEW amount, RetireCoin(v, from, amount)
      PROVE  owner' = Engine
  BY <1>2 DEF RetireCoin, CanOwnerBurn, OnlyOwner
<1>3. \/ owner' = Engine
      \/ UNCHANGED <<s_coinMinted, owner>>
  <2>1. ASSUME NEW b \in CoinAmounts, MintCoin(u, b) \/ BurnCoin(u, b)
        PROVE  owner' = Engine
    BY <1>1, <1>2, <2>1 DEF MintCoin, BurnCoin
  <2>2. ASSUME NEW b \in CoinAmounts, NEW t \in Tokens, NEW v \in Users, Liquidate(u, v, t, b)
        PROVE  owner' = Engine
    BY <1>2, <2>2 DEF Liquidate
  <2>3. ASSUME NEW b \in CoinAmounts, NEW t \in Tokens, NEW a \in CollateralAmounts,
               \/ DepositCollateralAndMintCoin(u, t, a, b)
               \/ BurnCoinAndRedeemCollateral(u, t, a, b)
        PROVE  owner' = Engine
    BY <1>1, <1>2, <2>3 DEF DepositCollateralAndMintCoin, BurnCoinAndRedeemCollateral
  <2>4. ASSUME NEW t \in Tokens, NEW a \in CollateralAmounts,
               DepositCollateral(u, t, a) \/ RedeemCollateral(u, t, a)
        PROVE  UNCHANGED <<s_coinMinted, owner>>
    BY <2>4 DEF DepositCollateral, RedeemCollateral, coinVars
  <2> QED
    BY <2>1, <2>2, <2>3, <2>4 DEF CallEngine
<1> QED
  BY <1>3 DEF EngineOwnsOwedCoin

\* Nothing but the hand-over changes the owner, and nobody takes the coin back
\* from the engine: whoever owes coins can pay them back to their owner.
THEOREM OwedCoinIsTheEngines == Spec => []EngineOwnsOwedCoin
<1>1. Init => EngineOwnsOwedCoin
  <2>1. ASSUME Init
        PROVE  s_coinMinted = [u \in Users |-> 0]
    BY <2>1 DEF Init
  <2> QED
    BY <2>1 DEF EngineOwnsOwedCoin
<1>2. ASSUME EngineOwnsOwedCoin, [Next]_vars
      PROVE  EngineOwnsOwedCoin'
  <2>1. CASE HandOverCoin
    BY <2>1 DEF HandOverCoin, TransferOwnership, EngineOwnsOwedCoin
  <2>2. ASSUME NEW u \in Users, CallEngine(u)
        PROVE  EngineOwnsOwedCoin'
    BY <1>2, <2>2, CallKeepsOwnership
  <2>3. ASSUME NEW u \in Users, UseCoin(u)
        PROVE  EngineOwnsOwedCoin'
    <3>1. UNCHANGED <<s_coinMinted, owner>>
      BY <2>3 DEF UseCoin, engineVars, Transfer, Approve, BurnFrom, TransferFrom
    <3> QED
      BY <1>2, <3>1 DEF EngineOwnsOwedCoin
  <2>4. ASSUME \/ \E u \in Users, t \in Tokens : UseToken(u, t)
               \/ \E t \in Tokens : UpdateAnswer(t)
               \/ UNCHANGED vars
        PROVE  EngineOwnsOwedCoin'
    <3>1. UNCHANGED <<s_coinMinted, owner>>
      BY <2>4 DEF UseToken, UpdateAnswer, vars, engineVars, coinVars
    <3> QED
      BY <1>2, <3>1 DEF EngineOwnsOwedCoin
  <2> QED
    BY <1>2, <2>1, <2>2, <2>3, <2>4 DEF Next
<1> QED
  BY <1>1, <1>2, PTL DEF Spec

\* The coin leaves the deployer once, for the engine, before anybody has a coin;
\* the engine never gives it away, whatever is called.
CoinChangesHandsOnce ==
  [][owner' # owner =>
       /\ owner = Deployer /\ owner' = Engine
       /\ coin.totalSupply = 0 /\ UNCHANGED coin]_vars

LEMMA CallKeepsOwner ==
  ASSUME NEW u \in Users, CallEngine(u)
  PROVE  UNCHANGED owner
<1>1. ASSUME NEW b \in CoinAmounts, MintCoin(u, b) \/ BurnCoin(u, b)
      PROVE  UNCHANGED owner
  BY <1>1 DEF MintCoin, BurnCoin, IssueCoin, RetireCoin, Mint
<1>2. ASSUME NEW b \in CoinAmounts, NEW t \in Tokens, NEW v \in Users, Liquidate(u, v, t, b)
      PROVE  UNCHANGED owner
  BY <1>2 DEF Liquidate, RetireCoin
<1>3. ASSUME NEW b \in CoinAmounts, NEW t \in Tokens, NEW a \in CollateralAmounts,
             \/ DepositCollateralAndMintCoin(u, t, a, b)
             \/ BurnCoinAndRedeemCollateral(u, t, a, b)
      PROVE  UNCHANGED owner
  BY <1>3 DEF DepositCollateralAndMintCoin, BurnCoinAndRedeemCollateral, IssueCoin,
              RetireCoin, Mint
<1>4. ASSUME NEW t \in Tokens, NEW a \in CollateralAmounts,
             DepositCollateral(u, t, a) \/ RedeemCollateral(u, t, a)
      PROVE  UNCHANGED owner
  BY <1>4 DEF DepositCollateral, RedeemCollateral, coinVars
<1> QED
  BY <1>1, <1>2, <1>3, <1>4 DEF CallEngine

\* CoinChangesHandsOnce: what the deployment does to an engine of its own is
\* also all that ever happens to the ownership of the coin.
THEOREM HandedOverOnce == Spec => CoinChangesHandsOnce
<1>1. ASSUME EngineIInv, EngineOwnsOwedCoin, [Next]_vars, owner' # owner
      PROVE  /\ owner = Deployer /\ owner' = Engine
             /\ coin.totalSupply = 0 /\ UNCHANGED coin
  <2>1. HandOverCoin
    <3>1. ASSUME NEW u \in Users, CallEngine(u) \/ UseCoin(u)
          PROVE  UNCHANGED owner
      BY <3>1, CallKeepsOwner DEF UseCoin, Transfer, Approve, BurnFrom, TransferFrom
    <3>2. ASSUME \/ \E u \in Users, t \in Tokens : UseToken(u, t)
                 \/ \E t \in Tokens : UpdateAnswer(t)
                 \/ UNCHANGED vars
          PROVE  UNCHANGED owner
      BY <3>2 DEF UseToken, UpdateAnswer, vars, coinVars
    <3> QED
      BY <1>1, <3>1, <3>2 DEF Next
  <2>2. owner = Deployer /\ owner' = Engine /\ UNCHANGED coin
    BY <2>1 DEF HandOverCoin, TransferOwnership, OnlyOwner
  <2>3. owner # Engine
    BY <2>2, Accounts, AccountAssumption
  <2>4. s_coinMinted \in [Users -> Int] /\ \A u \in Users : s_coinMinted[u] = 0
    BY <1>1, <2>3, Typed DEF EngineOwnsOwedCoin
  <2>5. TotalMinted = 0
    BY <2>4, Accounts, SumFunctionZero DEF TotalMinted
  <2>6. coin.totalSupply = 0
    BY <1>1, <2>5, EngineBalances
  <2> QED
    BY <2>2, <2>6
<1>2. EngineIInv /\ EngineOwnsOwedCoin /\ [Next]_vars
        => [owner' # owner =>
              /\ owner = Deployer /\ owner' = Engine
              /\ coin.totalSupply = 0 /\ UNCHANGED coin]_vars
  BY <1>1
<1> QED
  BY <1>2, EngineInvariant, OwedCoinIsTheEngines, PTL DEF Spec, CoinChangesHandsOnce

\* The values that _redeemCollateral and _burnCoin write.
WritesRelease(t, from, to, amount) ==
  /\ s_collateralDeposited' = [s_collateralDeposited EXCEPT ![from][t] = @ - amount]
  /\ tokens' = [tokens EXCEPT ![t] = Transferred(@, Engine, to, amount)]

WritesRepayment(onBehalfOf, from, amount) ==
  /\ s_coinMinted' = [s_coinMinted EXCEPT ![onBehalfOf] = @ - amount]
  /\ coin' = Burned(TransferredFrom(coin, Engine, from, Engine, amount), Engine, amount)
  /\ UNCHANGED owner

\* The engine's tokens cover every single deposit.
LEMMA DepositWithinCustody ==
  ASSUME EngineIInv, NEW u \in Users, NEW t \in Tokens
  PROVE  s_collateralDeposited[u][t] <= tokens[t].balances[Engine]
<1> DEFINE f == [v \in Users |-> s_collateralDeposited[v][t]]
<1>1. f \in [Users -> Nat] /\ f[u] = s_collateralDeposited[u][t]
  BY Typed
<1>2. f[u] <= SumFunction(f)
  <2> HIDE DEF f
  <2> QED
    BY <1>1, Accounts, SumFunctionNat
<1>3. SumFunction(f) = Deposited(t)
  BY DEF Deposited
<1>4. SumFunction(f) <= tokens[t].balances[Engine]
  BY <1>3, EngineBalances
<1> HIDE DEF f
<1>5. f[u] \in Nat /\ SumFunction(f) \in Nat /\ tokens[t].balances[Engine] \in Nat
  BY <1>1, <1>3, EngineBalances
<1> QED
  BY <1>1, <1>2, <1>4, <1>5

LEMMA ReleaseIsOpen ==
  ASSUME EngineIInv, NEW t \in Tokens, NEW from \in Users, NEW to \in Users, NEW amount \in Nat,
         amount <= s_collateralDeposited[from][t], WritesRelease(t, from, to, amount)
  PROVE  ReleaseCollateral(t, from, to, amount)
<1>1. Engine # ZeroAddress /\ to # ZeroAddress
  BY Accounts DEF Senders
<1>2. /\ s_collateralDeposited[from][t] \in Nat /\ tokens[t].balances[Engine] \in Nat
      /\ s_collateralDeposited[from][t] <= tokens[t].balances[Engine]
  BY EngineBalances, DepositWithinCustody
<1>3. CanTransfer(tokens[t], Engine, to, amount)
  BY <1>1, <1>2 DEF CanTransfer
<1> QED
  BY <1>3 DEF ReleaseCollateral, WritesRelease

LEMMA RetireIsOpen ==
  ASSUME EngineIInv, EngineOwnsOwedCoin,
         NEW u \in Users, NEW from \in Users, NEW amount \in Nat \ {0},
         amount <= s_coinMinted[u],
         amount <= coin.balances[from],
         amount <= coin.allowances[from][Engine],
         WritesRepayment(u, from, amount)
  PROVE  RetireCoin(u, from, amount)
<1> DEFINE pulled == TransferredFrom(coin, Engine, from, Engine, amount)
<1>1. Sound(coin) /\ from \in Addresses /\ from # Engine /\ from # ZeroAddress
      /\ Engine \in Addresses /\ Engine # ZeroAddress
  BY Accounts DEF EngineIInv, CoinIInv, Senders
<1>2. s_coinMinted[u] \in UInt /\ s_coinMinted[u] \in Nat /\ amount \in UInt /\ owner = Engine
  <2>1. s_coinMinted[u] \in UInt
    BY DEF EngineIInv, PositionsTypeOK
  <2> QED
    BY <2>1, MaxUintAssumption DEF EngineOwnsOwedCoin, UInt
<1>3. CanSpendAllowance(coin, from, Engine, amount)
  BY <1>1 DEF CanSpendAllowance, CanApprove
<1>4. AllowanceSpent(coin, from, Engine, amount).balances = coin.balances
  BY <1>1, <1>2, <1>3, AllowanceSpentIsSound
<1>5. CanTransferFrom(coin, Engine, from, Engine, amount)
  BY <1>1, <1>3, <1>4 DEF CanTransferFrom, CanTransfer
<1>6. pulled.balances[Engine] = coin.balances[Engine] + amount
  BY <1>1, <1>2, <1>5, TransferredFromIsSound
<1>7. coin.balances[Engine] \in Nat
  BY <1>1, BalancesAreInt
<1>8. CanOwnerBurn(pulled, Engine, amount)
  <2> HIDE DEF pulled
  <2> QED
    BY <1>1, <1>2, <1>6, <1>7 DEF CanOwnerBurn, OnlyOwner, CanBurn
<1> QED
  BY <1>5, <1>8 DEF RetireCoin, WritesRepayment

\* A user without debt can take out any part of a deposit, whatever the feeds
\* say: the successor that DebtFreeMayLeave calls enabled.
THEOREM DebtFreeLeaves ==
  ASSUME EngineIInv, NEW u \in Users, NEW t \in Tokens, NEW amount \in Nat \ {0},
         s_coinMinted[u] = 0,
         amount <= s_collateralDeposited[u][t],
         WritesRelease(t, u, u, amount),
         UNCHANGED <<s_coinMinted, price, coinVars>>
  PROVE  RedeemCollateral(u, t, amount)
<1>1. ReleaseCollateral(t, u, u, amount)
  BY ReleaseIsOpen
<1>2. RedeemerIsHealthy(u)
  BY DEF RedeemerIsHealthy
<1> QED
  BY <1>1, <1>2 DEF RedeemCollateral

\* Whoever holds coins and lets the engine take them can repay, at any price
\* and in any health: the successor that RepaymentIsOpen calls enabled.
THEOREM RepaymentGoesThrough ==
  ASSUME EngineIInv, EngineOwnsOwedCoin, NEW u \in Users, NEW amount \in Nat \ {0},
         amount <= s_coinMinted[u],
         amount <= coin.balances[u],
         amount <= coin.allowances[u][Engine],
         WritesRepayment(u, u, amount),
         UNCHANGED <<s_collateralDeposited, tokens, price>>
  PROVE  BurnCoin(u, amount)
<1>1. RetireCoin(u, u, amount)
  BY RetireIsOpen
<1> QED
  BY <1>1 DEF BurnCoin

\* A smaller position is evaluated without an overflow if a larger one is.
LEMMA LessFits ==
  ASSUME price \in [Tokens -> UInt],
         NEW b \in [Tokens -> Nat], NEW c \in [Tokens -> Nat],
         \A t \in Tokens : c[t] <= b[t],
         NEW m, NEW n, n # 0 => m # 0,
         HealthFactorFits(b, m)
  PROVE  HealthFactorFits(c, n)
<1>1. /\ CollateralValue(b) \in Nat /\ CollateralValue(c) \in Nat /\ MaxUint \in Nat
      /\ CollateralValue(c) <= CollateralValue(b)
      /\ PRECISION \in Nat
  BY ValueNat, ValueMonotone, MaxUintAssumption, PrecisionAssumption
<1>2. /\ ThresholdCollateral(b) \in Nat /\ ThresholdCollateral(c) \in Nat
      /\ ThresholdCollateral(c) <= ThresholdCollateral(b)
  BY <1>1, ThresholdIsHalf, DivMonotone
<1>3. ASSUME NEW t \in Tokens
      PROVE  INRValueFits(t, c[t])
  <2>1. FeedPrice(t) \in Nat /\ b[t] \in Nat /\ c[t] \in Nat /\ c[t] <= b[t]
    BY FeedPriceNat
  <2>2. FeedPrice(t) * c[t] <= FeedPrice(t) * b[t]
    BY <2>1, MultMono
  <2>3. FeedPrice(t) * c[t] \in Nat /\ FeedPrice(t) * b[t] \in Nat
    BY <2>1, MultNat
  <2> QED
    BY <1>1, <2>1, <2>2, <2>3 DEF INRValueFits, HealthFactorFits
<1>4. ASSUME n # 0
      PROVE  /\ CollateralValue(c) * LIQUIDATION_THRESHOLD <= MaxUint
             /\ ThresholdCollateral(c) * PRECISION <= MaxUint
  <2>1. /\ CollateralValue(b) * 50 <= MaxUint
        /\ ThresholdCollateral(b) * PRECISION <= MaxUint
    BY <1>4 DEF HealthFactorFits, LIQUIDATION_THRESHOLD
  <2>2. ThresholdCollateral(c) * PRECISION <= ThresholdCollateral(b) * PRECISION
    BY <1>1, <1>2, MultMono
  <2>3. /\ ThresholdCollateral(c) * PRECISION \in Nat
        /\ ThresholdCollateral(b) * PRECISION \in Nat
    BY <1>1, <1>2, MultNat
  <2>4. CollateralValue(c) * 50 <= MaxUint
    BY <1>1, <2>1
  <2> QED
    BY <1>1, <2>1, <2>2, <2>3, <2>4 DEF LIQUIDATION_THRESHOLD
<1> QED
  BY <1>1, <1>3, <1>4 DEF HealthFactorFits

LEMMA QuotientDrop ==
  ASSUME NEW a \in Nat, NEW b \in Nat, NEW x \in Nat, NEW p \in Nat, p > 0,
         a <= b + x * p
  PROVE  a \div p <= b \div p + x
<1> DEFINE q == a \div p
           r == b \div p
<1>1. q \in Nat /\ p * q <= a
  BY DivBounds
<1>2. r \in Nat /\ b < p * (r + 1)
  BY DivBounds
<1> HIDE DEF q, r
<1>3. CASE r + 1 + x <= q
  <2>1. (r + 1 + x) * p <= q * p
    BY <1>1, <1>2, <1>3, MultMono
  <2>2. (r + 1 + x) * p = p * (r + 1) + x * p /\ q * p = p * q
    BY <1>1, <1>2
  <2>3. p * (r + 1) \in Nat /\ x * p \in Nat /\ p * q \in Nat
    BY <1>1, <1>2, MultNat
  <2> QED
    BY <1>1, <1>2, <2>1, <2>2, <2>3
<1>4. q <= r + x
  BY <1>1, <1>2, <1>3
<1> QED
  BY <1>4 DEF q, r

\* What is worth at most x, unrounded, lowers the rounded value by at most x.
LEMMA ValueAfterRelease ==
  ASSUME price \in [Tokens -> UInt], NEW b \in [Tokens -> Nat], NEW t \in Tokens,
         NEW amount \in Nat, amount <= b[t], NEW x \in Nat,
         FeedPrice(t) * amount <= x * PRECISION,
         NEW c \in [Tokens -> Nat], c[t] = b[t] - amount,
         \A s \in Tokens \ {t} : c[s] = b[s]
  PROVE  CollateralValue(b) <= CollateralValue(c) + x
<1> DEFINE f == [s \in Tokens |-> INRValue(s, b[s])]
           g == [s \in Tokens |-> INRValue(s, c[s])]
<1>1. PRECISION \in Nat /\ PRECISION > 0 /\ IsFiniteSet(Tokens)
  BY PrecisionAssumption, FeedAssumption
<1>2. ASSUME NEW s \in Tokens
      PROVE  INRValue(s, b[s]) \in Int /\ INRValue(s, c[s]) \in Int
  <2>1. FeedPrice(s) * b[s] \in Nat /\ FeedPrice(s) * c[s] \in Nat
    BY FeedPriceNat, MultNat
  <2> QED
    BY <1>1, <2>1, DivBounds DEF INRValue
<1>3. f \in [Tokens -> Int] /\ g \in [Tokens -> Int] /\ \A s \in Tokens \ {t} : g[s] = f[s]
  BY <1>2
<1>4. f[t] <= g[t] + x
  <2>1. FeedPrice(t) \in Nat /\ b[t] \in Nat /\ c[t] \in Nat /\ b[t] = c[t] + amount
    BY FeedPriceNat
  <2>2. FeedPrice(t) * b[t] = FeedPrice(t) * c[t] + FeedPrice(t) * amount
    BY <2>1
  <2>3. /\ FeedPrice(t) * b[t] \in Nat /\ FeedPrice(t) * c[t] \in Nat
        /\ FeedPrice(t) * amount \in Nat /\ x * PRECISION \in Nat
    BY <1>1, <2>1, MultNat
  <2>4. FeedPrice(t) * b[t] <= FeedPrice(t) * c[t] + x * PRECISION
    BY <2>2, <2>3
  <2>5. (FeedPrice(t) * b[t]) \div PRECISION <= (FeedPrice(t) * c[t]) \div PRECISION + x
    BY <1>1, <2>3, <2>4, QuotientDrop
  <2> QED
    BY <2>5 DEF INRValue
<1>5. SumFunction(g) = SumFunction(f) - f[t] + g[t] /\ SumFunction(f) \in Int /\ f[t] \in Int /\ g[t] \in Int
  <2> HIDE DEF f, g
  <2> QED
    BY <1>1, <1>3, SumFunctionUpdate, SumFunctionInt
<1>6. CollateralValue(b) = SumFunction(f) /\ CollateralValue(c) = SumFunction(g)
  BY DEF CollateralValue
<1> HIDE DEF f, g
<1> QED
  BY <1>4, <1>5, <1>6

\* What exceeds twice the debt, converted into any token and rounded down as
\* getTokenAmountFromINR does, can be taken out.
THEOREM ExcessLeaves ==
  ASSUME EngineIInv, NEW u \in Users, NEW t \in Tokens, FeedPrice(t) > 0,
         HealthFactorFits(s_collateralDeposited[u], s_coinMinted[u]),
         CollateralValue(s_collateralDeposited[u]) - 2 * s_coinMinted[u] >= 0,
         NEW amount \in Nat \ {0},
         amount <= TokenAmountFromINR(t,
           CollateralValue(s_collateralDeposited[u]) - 2 * s_coinMinted[u]),
         amount <= s_collateralDeposited[u][t],
         WritesRelease(t, u, u, amount),
         UNCHANGED <<s_coinMinted, price, coinVars>>
  PROVE  RedeemCollateral(u, t, amount)
<1> DEFINE b == s_collateralDeposited[u]
           c == s_collateralDeposited'[u]
           m == s_coinMinted[u]
           x == CollateralValue(b) - 2 * m
           p == FeedPrice(t)
<1>1. /\ price \in [Tokens -> UInt] /\ b \in [Tokens -> Nat] /\ m \in Nat
      /\ PRECISION \in Nat /\ PRECISION > 0 /\ p \in Nat /\ p > 0 /\ amount \in Nat
  BY Typed, PrecisionAssumption, FeedPriceNat
<1>2. CollateralValue(b) \in Nat /\ x \in Nat /\ CollateralValue(b) = x + 2 * m
  BY <1>1, ValueNat
<1>3. c \in [Tokens -> Nat] /\ c[t] = b[t] - amount /\ \A s \in Tokens \ {t} : c[s] = b[s]
  BY <1>1, Typed DEF WritesRelease
<1>4. amount <= (x * PRECISION) \div p
  BY DEF TokenAmountFromINR
<1> HIDE DEF c, b, m, x, p
<1>5. p * amount <= x * PRECISION
  <2>1. x * PRECISION \in Nat
    BY <1>1, <1>2, MultNat
  <2>2. /\ (x * PRECISION) \div p \in Nat
        /\ p * ((x * PRECISION) \div p) <= x * PRECISION
    BY <1>1, <2>1, DivBounds
  <2>3. amount * p <= ((x * PRECISION) \div p) * p
    BY <1>1, <1>4, <2>2, MultMono
  <2> QED
    BY <1>1, <1>2, <2>1, <2>2, <2>3
<1>6. CollateralValue(b) <= CollateralValue(c) + x
  BY <1>1, <1>2, <1>3, <1>5, ValueAfterRelease DEF p, b
<1>7. CollateralValue(c) \in Nat /\ CollateralValue(c) >= 2 * m
  BY <1>1, <1>2, <1>3, <1>6, ValueNat
<1>8. ASSUME m > 0
      PROVE  HealthFactorIsGood(c, m)
  <2>1. HealthFactorFits(c, m)
    <3>1. \A s \in Tokens : c[s] <= b[s]
      BY <1>1, <1>3
    <3>2. HealthFactorFits(b, m)
      BY DEF b, m
    <3> QED
      BY <1>1, <1>3, <3>1, <3>2, LessFits
  <2>2. HealthFactor(c, m) >= MIN_HEALTH_FACTOR
    BY <1>1, <1>3, <1>7, <1>8, HealthFactorIsExact
  <2> QED
    BY <2>1, <2>2 DEF HealthFactorIsGood
<1>9. RedeemerIsHealthy(u)
  BY <1>8 DEF RedeemerIsHealthy, c, m
<1>10. ReleaseCollateral(t, u, u, amount)
  BY <1>1, ReleaseIsOpen
<1> QED
  BY <1>9, <1>10 DEF RedeemCollateral

\* What is missing to half the collateral can be minted, as long as the
\* integers can hold it.
THEOREM RoomIsMinted ==
  ASSUME EngineIInv, owner = Engine, NEW u \in Users, NEW amount \in Nat \ {0},
         amount <= (CollateralValue(s_collateralDeposited[u]) * 50) \div 100 - s_coinMinted[u],
         HealthFactorFits(s_collateralDeposited[u], s_coinMinted[u] + amount),
         coin.totalSupply + amount <= MaxUint,
         s_coinMinted' = [s_coinMinted EXCEPT ![u] = @ + amount],
         coin' = Minted(coin, u, amount),
         UNCHANGED <<owner, s_collateralDeposited, tokens, price>>
  PROVE  MintCoin(u, amount)
<1> DEFINE b == s_collateralDeposited[u]
           n == s_coinMinted[u] + amount
<1>1. /\ price \in [Tokens -> UInt] /\ b \in [Tokens -> Nat] /\ MaxUint \in Nat
      /\ s_coinMinted[u] \in Nat /\ n \in Nat \ {0}
  BY Typed, MaxUintAssumption
<1>2. CollateralValue(b) \in Nat /\ CollateralValue(b) >= 2 * n
  <2>1. CollateralValue(b) \in Nat
    BY <1>1, ValueNat
  <2> HIDE DEF b
  <2>2. amount <= (CollateralValue(b) * 50) \div 100 - s_coinMinted[u]
    BY DEF b
  <2> QED
    BY <1>1, <2>1, <2>2
<1>3. n <= MaxUint
  BY <1>1, <1>2 DEF HealthFactorFits
<1>4. s_coinMinted'[u] = n /\ s_collateralDeposited'[u] = b
  BY Typed
<1>5. HealthFactorIsGood(s_collateralDeposited'[u], s_coinMinted'[u])
  <2>1. HealthFactor(b, n) >= MIN_HEALTH_FACTOR
    <3> HIDE DEF b, n
    <3> QED
      BY <1>1, <1>2, HealthFactorIsExact
  <2> QED
    BY <1>4, <2>1 DEF HealthFactorIsGood
<1>6. Mint(Engine, u, amount)
  BY Accounts DEF Mint, OnlyOwner, CanMint, Senders
<1>7. IssueCoin(u, amount)
  BY <1>1, <1>3, <1>5, <1>6 DEF IssueCoin
<1> QED
  BY <1>7 DEF MintCoin

\* A position that holds, in one token, the debt and five percent more can be
\* liquidated in full by whoever can pay, as long as the integers can hold the
\* amounts: neither rounding nor the check at the end stands in the way.
THEOREM CoveredDebtIsSettled ==
  ASSUME EngineIInv, EngineOwnsOwedCoin,
         NEW l \in Users, NEW u \in Users, NEW t \in Tokens,
         CanPayFor(l, u),
         100 * FeedPrice(t) * s_collateralDeposited[u][t] >= 105 * PRECISION * s_coinMinted[u],
         MIN_HEALTH_FACTOR <= MaxUint,
         HealthFactorFits(s_collateralDeposited[l], s_coinMinted[l]),
         HealthFactorFits(s_collateralDeposited[u], s_coinMinted[u]),
         TokenAmountFromINR(t, s_coinMinted[u]) * LIQUIDATION_BONUS <= MaxUint,
         LET reward == TokenAmountFromINR(t, s_coinMinted[u])
         IN  WritesRelease(t, u, l, reward + LiquidationBonus(reward)),
         WritesRepayment(u, l, s_coinMinted[u]),
         UNCHANGED price
  PROVE  Liquidate(l, u, t, s_coinMinted[u])
<1> DEFINE p      == FeedPrice(t)
           m      == s_coinMinted[u]
           d      == s_collateralDeposited[u][t]
           reward == TokenAmountFromINR(t, m)
           taken  == reward + LiquidationBonus(reward)
<1>1. /\ price \in [Tokens -> UInt] /\ m \in Nat /\ d \in Nat /\ p \in Nat
      /\ PRECISION \in Nat /\ PRECISION > 0 /\ MaxUint \in Nat
      /\ m <= MaxUint /\ d <= MaxUint
      /\ s_coinMinted[l] \in Nat
  <2>1. m \in UInt /\ d \in UInt
    BY DEF EngineIInv, PositionsTypeOK
  <2> QED
    BY <2>1, Typed, PrecisionAssumption, MaxUintAssumption, FeedPriceNat DEF UInt
<1>2. m > 0 /\ HealthFactor(s_collateralDeposited[u], m) < MIN_HEALTH_FACTOR
  <2>1. ThresholdCollateral(s_collateralDeposited[u]) \in Nat
    BY <1>1, Typed, ThresholdIsHalf
  <2>2. m # 0 /\ ~(HealthFactor(s_collateralDeposited[u], m) >= MIN_HEALTH_FACTOR)
    BY DEF CanPayFor, Healthy
  <2>3. HealthFactor(s_collateralDeposited[u], m)
          = (ThresholdCollateral(s_collateralDeposited[u]) * PRECISION) \div m
    BY <2>2 DEF HealthFactor
  <2>4. ThresholdCollateral(s_collateralDeposited[u]) * PRECISION \in Nat
    BY <1>1, <2>1, MultNat
  <2>5. HealthFactor(s_collateralDeposited[u], m) \in Nat
    BY <1>1, <2>2, <2>3, <2>4, DivBounds
  <2> HIDE DEF m
  <2> QED
    BY <1>1, <2>2, <2>5 DEF MIN_HEALTH_FACTOR
<1>3. /\ m <= coin.balances[l] /\ m <= coin.allowances[l][Engine]
      /\ INRValueFits(t, d)
  <2>1. /\ m <= coin.balances[l] /\ m <= coin.allowances[l][Engine]
    <3>1. /\ coin.balances[l] \in Nat /\ coin.allowances[l][Engine] \in Nat
      BY Accounts, BalancesAreInt DEF EngineIInv, CoinIInv, Sound, Ledger, UInt
    <3> QED
      BY <1>1, <3>1 DEF CanPayFor
  <2>2. INRValueFits(t, d)
    BY DEF HealthFactorFits
  <2> QED
    BY <2>1, <2>2
<1>4. 100 * p * d >= 105 * PRECISION * m
  OBVIOUS
<1>5. HealthFactorIsGood(s_collateralDeposited[l], s_coinMinted[l])
  BY <1>1 DEF HealthFactorIsGood, CanPayFor, Healthy, HealthFactor
<1>6. p * d <= MaxUint /\ p <= MaxUint
  BY <1>3 DEF INRValueFits
<1> HIDE DEF p, m, d
<1>7. p > 0 /\ m * PRECISION <= MaxUint
  <2>1. PRECISION * m \in Nat /\ PRECISION * m > 0 /\ p * d \in Nat /\ m * PRECISION = PRECISION * m
    BY <1>1, <1>2, MultNat, MultMonoStrict
  <2>2. 100 * p * d = 100 * (p * d) /\ 105 * PRECISION * m = 105 * (PRECISION * m)
    BY <1>1
  <2>3. 100 * (p * d) >= 105 * (PRECISION * m)
    BY <1>4, <2>2
  <2>4. p * d > 0 /\ PRECISION * m <= p * d
    BY <2>1, <2>3
  <2>5. p # 0
    BY <1>1, <2>4
  <2> QED
    BY <1>1, <1>6, <2>1, <2>4, <2>5
<1>8. TokenAmountFits(t, m)
  BY <1>1, <1>6, <1>7 DEF TokenAmountFits, p
<1>9. taken \in Nat /\ 100 * p * taken <= 105 * PRECISION * m
  BY <1>1, <1>7, RewardBounds DEF p
<1> HIDE DEF taken
<1>10. taken <= d
  <2>1. 100 * p \in Nat /\ 100 * p > 0
    BY <1>1, <1>7
  <2>2. CASE d < taken
    <3>1. d * (100 * p) < taken * (100 * p)
      BY <1>1, <1>9, <2>1, <2>2, MultMonoStrict
    <3>2. d * (100 * p) = 100 * p * d /\ taken * (100 * p) = 100 * p * taken
      BY <1>1, <1>9
    <3>3. 100 * p * d \in Nat /\ 100 * p * taken \in Nat /\ 105 * PRECISION * m \in Nat
      BY <1>1, <1>9, MultNat
    <3> QED
      BY <1>4, <1>9, <3>1, <3>2, <3>3
  <2> QED
    BY <1>1, <1>9, <2>2
<1>11. ReleaseCollateral(t, u, l, taken)
  BY <1>9, <1>10, ReleaseIsOpen DEF d, taken, m
<1>12. RetireCoin(u, l, m)
  BY <1>1, <1>2, <1>3, RetireIsOpen DEF m
<1>13. HealthFactorImproves(u)
  <2> DEFINE c == s_collateralDeposited'[u]
  <2>1. s_coinMinted'[u] = 0
    BY <1>1, Typed DEF WritesRepayment, m
  <2>2. c \in [Tokens -> Nat] /\ \A s \in Tokens : c[s] <= s_collateralDeposited[u][s]
    <3>1. s_collateralDeposited' = [s_collateralDeposited EXCEPT ![u][t] = d - taken]
      BY <1>11 DEF ReleaseCollateral, d
    <3>2. d - taken \in Nat /\ d - taken <= d
      BY <1>1, <1>9, <1>10
    <3> QED
      BY <3>1, <3>2, Typed DEF d
  <2>3. HealthFactorFits(c, 0)
    <3>1. s_collateralDeposited[u] \in [Tokens -> Nat]
      BY Typed
    <3> HIDE DEF c
    <3> QED
      BY <1>1, <1>2, <2>2, <3>1, LessFits DEF m
  <2>4. HealthFactor(c, 0) = MaxUint
    BY DEF HealthFactor
  <2>5. HealthFactor(s_collateralDeposited[u], m) \in Int
    <3>1. ThresholdCollateral(s_collateralDeposited[u]) \in Nat
      BY <1>1, Typed, ThresholdIsHalf
    <3>2. ThresholdCollateral(s_collateralDeposited[u]) * PRECISION \in Nat
      BY <1>1, <3>1, MultNat
    <3> QED
      BY <1>1, <1>2, <3>2, DivBounds DEF HealthFactor
  <2>6. HealthFactor(s_collateralDeposited[u], m) < MaxUint
    BY <1>1, <1>2, <2>5 DEF MIN_HEALTH_FACTOR
  <2> QED
    BY <2>1, <2>3, <2>4, <2>6 DEF HealthFactorImproves, m
<1>14. CanLiquidate(l, u, t, m)
  BY <1>2, <1>5, <1>8 DEF CanLiquidate, m
<1>15. reward * LIQUIDATION_BONUS <= MaxUint /\ taken <= MaxUint
  BY <1>1, <1>9, <1>10 DEF m
<1> QED
  BY <1>11, <1>12, <1>13, <1>14, <1>15 DEF Liquidate, taken, m
=============================================================================
