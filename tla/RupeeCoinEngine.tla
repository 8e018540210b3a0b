-------------------------- MODULE RupeeCoinEngine --------------------------
(***************************************************************************)
(* The Rupee Coin Engine together with everything it calls: the coin, the  *)
(* collateral tokens and the price feeds.  One action is one successful    *)
(* transaction.  The chain executes transactions one after the other and   *)
(* undoes one that reverts, so a revert is a stuttering step; a guard that *)
(* reads primed variables is a check the code makes after its updates.     *)
(* The first argument of an action is msg.sender.  Events are left out.    *)
(***************************************************************************)
EXTENDS RupeeCoin

CONSTANTS Users,               \* the accounts that send transactions
          Tokens,              \* s_collateralTokens, listed once each
          Engine,              \* address(this)
          PRECISION,           \* 1e18 in the code
          MAX_DECIMALS,        \* 18 in the code
          FeedDecimals,        \* decimals() of each token's price feed
          Answers,             \* bound: the answers each feed may report
          Endowment,           \* the tokens each user holds at the start
          CollateralAmounts,   \* bound: token amounts a call may carry
          Approvals            \* bound: the <<holder, spender, amount>> of approve calls

ASSUME PrecisionAssumption == PRECISION \in Nat \ {0}

ASSUME AccountAssumption ==
  /\ Users \subseteq Senders \ {Engine}
  /\ Deployer \in Users
  /\ Engine \in Senders

\* A feed with more than 18 decimals would make every valuation revert.
ASSUME FeedAssumption ==
  /\ IsFiniteSet(Tokens)
  /\ MAX_DECIMALS \in Nat
  /\ FeedDecimals \in [Tokens -> 0 .. MAX_DECIMALS]
  /\ \A t \in Tokens : 10 ^ (MAX_DECIMALS - FeedDecimals[t]) \in Nat \ {0}
  /\ Answers \in [Tokens -> SUBSET UInt]

ASSUME InputAssumption ==
  /\ Endowment \in [Tokens -> [Addresses -> UInt]]
  /\ \A t \in Tokens : Endowment[t][Engine] = 0 /\ SumFunction(Endowment[t]) \in UInt
  /\ CollateralAmounts \subseteq UInt
  /\ Approvals \subseteq Users \X Senders \X UInt

VARIABLES s_collateralDeposited,   \* user -> token -> amount
          s_coinMinted,            \* user -> coins owed
          tokens,                  \* the ledger of each collateral token
          price                    \* the answer of each token's price feed

engineVars == <<s_collateralDeposited, s_coinMinted>>
vars == <<engineVars, tokens, price, coinVars>>

LIQUIDATION_THRESHOLD == 50
LIQUIDATION_PRECISION == 100
LIQUIDATION_BONUS == 5
MIN_HEALTH_FACTOR == PRECISION

TypeOK ==
  /\ CoinTypeOK
  /\ s_collateralDeposited \in [Users -> [Tokens -> UInt]]
  /\ s_coinMinted \in [Users -> UInt]
  /\ tokens \in [Tokens -> Ledger]
  /\ price \in [Tokens -> UInt]

\* The contracts are deployed, the coin still belongs to the deployer.
Init ==
  /\ CoinInit
  /\ s_collateralDeposited = [u \in Users |-> [t \in Tokens |-> 0]]
  /\ s_coinMinted = [u \in Users |-> 0]
  /\ tokens = [t \in Tokens |->
                 [EmptyLedger EXCEPT !.balances = Endowment[t],
                                     !.totalSupply = SumFunction(Endowment[t])]]
  /\ price \in {p \in [Tokens -> UNION {Answers[t] : t \in Tokens}] :
                  \A t \in Tokens : p[t] \in Answers[t]}

-----------------------------------------------------------------------------
(* Valuation.  A ...Fits predicate holds when no checked operation of the  *)
(* computation it is named for overflows or divides by zero.               *)

\* price * additionalFeedPrecision
FeedPrice(t) == price[t] * 10 ^ (MAX_DECIMALS - FeedDecimals[t])

INRValue(t, amount) == (FeedPrice(t) * amount) \div PRECISION

INRValueFits(t, amount) ==
  /\ FeedPrice(t) <= MaxUint
  /\ FeedPrice(t) * amount <= MaxUint

\* A fault in getTokenAmountFromINR: it rounds up.
TokenAmountFromINRUp(t, inrValue) == ((inrValue * PRECISION) \div FeedPrice(t)) + 1

TokenAmountFromINR(t, inrValue) == (inrValue * PRECISION) \div FeedPrice(t)

TokenAmountFits(t, inrValue) ==
  /\ FeedPrice(t) \in 1 .. MaxUint
  /\ inrValue * PRECISION <= MaxUint

\* getTotalCollateralDepositedBy, for a user with these deposits.
CollateralValue(deposits) ==
  SumFunction([t \in Tokens |-> INRValue(t, deposits[t])])

\* The collateral that may stand against debt.
ThresholdCollateral(deposits) ==
  (CollateralValue(deposits) * LIQUIDATION_THRESHOLD) \div LIQUIDATION_PRECISION

\* A fault in _healthFactor: coins may be minted against the whole collateral.
HealthFactorWholeValue(deposits, minted) ==
  IF minted = 0 THEN MaxUint
                ELSE (CollateralValue(deposits) * PRECISION) \div minted

\* _healthFactor
HealthFactor(deposits, minted) ==
  IF minted = 0 THEN MaxUint
                ELSE (ThresholdCollateral(deposits) * PRECISION) \div minted

HealthFactorFits(deposits, minted) ==
  /\ \A t \in Tokens : INRValueFits(t, deposits[t])
  /\ CollateralValue(deposits) <= MaxUint
  /\ minted # 0 =>
       /\ CollateralValue(deposits) * LIQUIDATION_THRESHOLD <= MaxUint
       /\ ThresholdCollateral(deposits) * PRECISION <= MaxUint

\* A call of revertIfHealthFactorIsBroken that does not revert.
HealthFactorIsGood(deposits, minted) ==
  /\ HealthFactorFits(deposits, minted)
  /\ HealthFactor(deposits, minted) >= MIN_HEALTH_FACTOR

-----------------------------------------------------------------------------
(* The steps the engine's transactions are made of.                        *)

\* depositCollateral
TakeDeposit(u, t, amount) ==
  /\ amount # 0
  /\ s_collateralDeposited[u][t] + amount <= MaxUint
  /\ s_collateralDeposited' = [s_collateralDeposited EXCEPT ![u][t] = @ + amount]
  /\ CanTransferFrom(tokens[t], Engine, u, Engine, amount)
  /\ tokens' = [tokens EXCEPT ![t] = TransferredFrom(@, Engine, u, Engine, amount)]

\* mintCoin.  The health factor is that of the deposits the transaction has
\* recorded so far and of the new debt.
IssueCoin(u, amount) ==
  /\ amount # 0
  /\ s_coinMinted[u] + amount <= MaxUint
  /\ s_coinMinted' = [s_coinMinted EXCEPT ![u] = @ + amount]
  /\ HealthFactorIsGood(s_collateralDeposited'[u], s_coinMinted'[u])
  /\ Mint(Engine, u, amount)

\* A fault in _redeemCollateral: the tokens leave, the deposit stays on record.
PayOutUnrecorded(t, from, to, amount) ==
  /\ amount <= s_collateralDeposited[from][t]
  /\ UNCHANGED s_collateralDeposited
  /\ CanTransfer(tokens[t], Engine, to, amount)
  /\ tokens' = [tokens EXCEPT ![t] = Transferred(@, Engine, to, amount)]

\* _redeemCollateral
ReleaseCollateral(t, from, to, amount) ==
  /\ amount <= s_collateralDeposited[from][t]
  /\ s_collateralDeposited' = [s_collateralDeposited EXCEPT ![from][t] = @ - amount]
  /\ CanTransfer(tokens[t], Engine, to, amount)
  /\ tokens' = [tokens EXCEPT ![t] = Transferred(@, Engine, to, amount)]

\* A fault in _burnCoin: the coins are pulled in and never burnt.
PullCoin(onBehalfOf, from, amount) ==
  /\ amount <= s_coinMinted[onBehalfOf]
  /\ s_coinMinted' = [s_coinMinted EXCEPT ![onBehalfOf] = @ - amount]
  /\ CanTransferFrom(coin, Engine, from, Engine, amount)
  /\ coin' = TransferredFrom(coin, Engine, from, Engine, amount)
  /\ UNCHANGED owner

\* A fault in _burnCoin: the amount is not compared with the debt.
RetireBeyondDebt(onBehalfOf, from, amount) ==
  /\ s_coinMinted' = [s_coinMinted EXCEPT ![onBehalfOf] = @ - amount]
  /\ CanTransferFrom(coin, Engine, from, Engine, amount)
  /\ LET pulled == TransferredFrom(coin, Engine, from, Engine, amount)
     IN  /\ CanOwnerBurn(pulled, Engine, amount)
         /\ coin' = Burned(pulled, Engine, amount)
  /\ UNCHANGED owner

\* _burnCoin: the coins are pulled in and then burnt by their owner, the engine.
RetireCoin(onBehalfOf, from, amount) ==
  /\ amount <= s_coinMinted[onBehalfOf]
  /\ s_coinMinted' = [s_coinMinted EXCEPT ![onBehalfOf] = @ - amount]
  /\ CanTransferFrom(coin, Engine, from, Engine, amount)
  /\ LET pulled == TransferredFrom(coin, Engine, from, Engine, amount)
     IN  /\ CanOwnerBurn(pulled, Engine, amount)
         /\ coin' = Burned(pulled, Engine, amount)
  /\ UNCHANGED owner

\* A fault in redeemCollateral: the check made before the deposit is reduced.
RedeemerWasHealthy(u) ==
  s_coinMinted'[u] > 0 =>
    HealthFactorIsGood(s_collateralDeposited[u], s_coinMinted'[u])

\* A fault in redeemCollateral: users without debt are valued as well.
EveryRedeemerIsHealthy(u) ==
  HealthFactorIsGood(s_collateralDeposited'[u], s_coinMinted'[u])

\* The end of redeemCollateral: only a user in debt is checked.
RedeemerIsHealthy(u) ==
  s_coinMinted'[u] > 0 =>
    HealthFactorIsGood(s_collateralDeposited'[u], s_coinMinted'[u])

-----------------------------------------------------------------------------
(* The transactions of the engine.                                         *)

DepositCollateral(u, t, amount) ==
  /\ TakeDeposit(u, t, amount)
  /\ UNCHANGED <<s_coinMinted, price, coinVars>>

MintCoin(u, amount) ==
  /\ UNCHANGED <<s_collateralDeposited, tokens, price>>
  /\ IssueCoin(u, amount)

DepositCollateralAndMintCoin(u, t, collateralAmount, coinAmount) ==
  /\ TakeDeposit(u, t, collateralAmount)
  /\ IssueCoin(u, coinAmount)
  /\ UNCHANGED price

RedeemCollateral(u, t, amount) ==
  /\ amount # 0
  /\ ReleaseCollateral(t, u, u, amount)
  /\ UNCHANGED <<s_coinMinted, price, coinVars>>
  /\ RedeemerIsHealthy(u)

BurnCoin(u, amount) ==
  /\ amount # 0
  /\ RetireCoin(u, u, amount)
  /\ UNCHANGED <<s_collateralDeposited, tokens, price>>

BurnCoinAndRedeemCollateral(u, t, collateralAmount, burnAmount) ==
  /\ burnAmount # 0
  /\ RetireCoin(u, u, burnAmount)
  /\ collateralAmount # 0
  /\ ReleaseCollateral(t, u, u, collateralAmount)
  /\ RedeemerIsHealthy(u)
  /\ UNCHANGED price

\* A fault in liquidate: the bonus divided by 10 where 100 was meant.
TenfoldBonus(reward) == (reward * LIQUIDATION_BONUS) \div 10

LiquidationBonus(reward) == (reward * LIQUIDATION_BONUS) \div LIQUIDATION_PRECISION

\* A fault in liquidate: the health of the user is not looked at.
CanLiquidateAnyone(liquidator, user, t, debtToCover) ==
  /\ HealthFactorIsGood(s_collateralDeposited[liquidator], s_coinMinted[liquidator])
  /\ HealthFactorFits(s_collateralDeposited[user], s_coinMinted[user])
  /\ TokenAmountFits(t, debtToCover)

\* The checks of liquidate before it moves anything.
CanLiquidate(liquidator, user, t, debtToCover) ==
  /\ HealthFactorIsGood(s_collateralDeposited[liquidator], s_coinMinted[liquidator])
  /\ HealthFactorFits(s_collateralDeposited[user], s_coinMinted[user])
  /\ HealthFactor(s_collateralDeposited[user], s_coinMinted[user]) < MIN_HEALTH_FACTOR
  /\ TokenAmountFits(t, debtToCover)

\* A fault in liquidate: any health factor will do at the end.
AnyHealthFactor(user) ==
  HealthFactorFits(s_collateralDeposited'[user], s_coinMinted'[user])

\* The check at the end of liquidate.
HealthFactorImproves(user) ==
  /\ HealthFactorFits(s_collateralDeposited'[user], s_coinMinted'[user])
  /\ HealthFactor(s_collateralDeposited'[user], s_coinMinted'[user])
       > HealthFactor(s_collateralDeposited[user], s_coinMinted[user])

\* debtToCover is not required to be positive here; the burn requires it.
Liquidate(liquidator, user, t, debtToCover) ==
  LET reward == TokenAmountFromINR(t, debtToCover)
      bonus  == LiquidationBonus(reward)
  IN  /\ CanLiquidate(liquidator, user, t, debtToCover)
      /\ reward * LIQUIDATION_BONUS <= MaxUint
      /\ reward + bonus <= MaxUint
      /\ ReleaseCollateral(t, user, liquidator, reward + bonus)
      /\ RetireCoin(user, liquidator, debtToCover)
      /\ HealthFactorImproves(user)
      /\ UNCHANGED price

-----------------------------------------------------------------------------
(* What happens around the engine.                                         *)

\* The last transaction of the deployment script.
HandOverCoin ==
  /\ TransferOwnership(Deployer, Engine)
  /\ UNCHANGED <<engineVars, tokens, price>>

\* Holders use the coin as a currency, burn it, and let others spend it.
UseCoin(u) ==
  /\ \/ \E to \in Users \cup {Engine}, amount \in CoinAmounts :
          Transfer(u, to, amount)
     \/ \E a \in Approvals : a[1] = u /\ Approve(u, a[2], a[3])
     \/ \E from \in Users, amount \in CoinAmounts :
          \/ BurnFrom(u, from, amount)
          \/ \E to \in Users \cup {Engine} : TransferFrom(u, from, to, amount)
  /\ UNCHANGED <<engineVars, tokens, price>>

\* Holders of a collateral token send it to others, the engine included, and
\* let others spend it.
UseToken(u, t) ==
  /\ \/ \E to \in Users \cup {Engine}, amount \in CollateralAmounts :
          /\ CanTransfer(tokens[t], u, to, amount)
          /\ tokens' = [tokens EXCEPT ![t] = Transferred(@, u, to, amount)]
     \/ \E a \in Approvals :
          /\ a[1] = u
          /\ CanApprove(tokens[t], u, a[2])
          /\ tokens' = [tokens EXCEPT ![t] = Approved(@, u, a[2], a[3])]
  /\ UNCHANGED <<engineVars, price, coinVars>>

\* The feed of token t reports a new answer.  The engine ignores when.
UpdateAnswer(t) ==
  /\ \E answer \in Answers[t] : price' = [price EXCEPT ![t] = answer]
  /\ UNCHANGED <<engineVars, tokens, coinVars>>

\* The engine's transactions that u can send.
CallEngine(u) ==
  \/ \E b \in CoinAmounts :
       \/ MintCoin(u, b)
       \/ BurnCoin(u, b)
       \/ \E t \in Tokens :
            \/ \E v \in Users : Liquidate(u, v, t, b)
            \/ \E a \in CollateralAmounts :
                 \/ DepositCollateralAndMintCoin(u, t, a, b)
                 \/ BurnCoinAndRedeemCollateral(u, t, a, b)
  \/ \E t \in Tokens, a \in CollateralAmounts :
       \/ DepositCollateral(u, t, a)
       \/ RedeemCollateral(u, t, a)

Next ==
  \/ HandOverCoin
  \/ \E u \in Users : CallEngine(u) \/ UseCoin(u)
  \/ \E u \in Users, t \in Tokens : UseToken(u, t)
  \/ \E t \in Tokens : UpdateAnswer(t)

Spec == Init /\ [][Next]_vars
-----------------------------------------------------------------------------
(* Properties.                                                             *)

Deposited(t) == SumFunction([u \in Users |-> s_collateralDeposited[u][t]])

TotalMinted == SumFunction(s_coinMinted)

\* The engine holds, of every collateral token, at least what it has recorded
\* as deposited: every deposit could be paid out in full.
CollateralInCustody ==
  \A t \in Tokens : tokens[t].balances[Engine] >= Deposited(t)

\* Every coin in circulation is some user's debt to the engine.
SupplyIsOwed == coin.totalSupply <= TotalMinted

\* A position that may be liquidated or must not mint, as getHealthFactor
\* shows it.
Healthy(u) ==
  s_coinMinted[u] = 0 \/
    HealthFactor(s_collateralDeposited[u], s_coinMinted[u]) >= MIN_HEALTH_FACTOR

\* While every position is healthy the engine's tokens are worth at least
\* twice the supply, and so the assertion of InvariantTest holds.
HealthyMeansBacked ==
  (\A u \in Users : Healthy(u)) =>
     CollateralValue([t \in Tokens |-> tokens[t].balances[Engine]])
       >= 2 * coin.totalSupply

\* Debt and supply move together: only a holder's burnFrom, which repays no
\* debt, opens a gap between the two.
DebtFollowsSupply ==
  [][\/ TotalMinted' - TotalMinted = coin'.totalSupply - coin.totalSupply
     \/ /\ UNCHANGED engineVars
        /\ coin'.totalSupply < coin.totalSupply]_vars

\* What u has of token t, in the own wallet and on record with the engine.
Holding(u, t) == tokens[t].balances[u] + s_collateralDeposited[u][t]

\* No transaction with the engine costs anybody collateral, except that a
\* liquidation takes from the unhealthy user, of the one token, at most 105%
\* of the worth of the debt it relieves the user of.  And nobody's debt grows
\* by anything but the coins that user gets.
LossesRepayDebt ==
  [][UNCHANGED engineVars \/ \A u \in Users :
       LET relief == s_coinMinted[u] - s_coinMinted'[u]
       IN  /\ \A t \in Tokens :
                LET loss == Holding(u, t) - Holding(u, t)'
                IN  loss > 0 =>
                      /\ ~Healthy(u) /\ relief > 0
                      /\ 100 * FeedPrice(t) * loss <= 105 * PRECISION * relief
                      /\ \A s \in Tokens \ {t} : Holding(u, s)' = Holding(u, s)
           /\ relief < 0 => coin'.balances[u] = coin.balances[u] - relief]_vars

\* A user without debt can take out any part of a deposit, whatever the price
\* feeds say and even if they cannot be evaluated.
DebtFreeMayLeave ==
  \A u \in Users, t \in Tokens, amount \in CollateralAmounts \ {0} :
    s_coinMinted[u] = 0 /\ amount <= s_collateralDeposited[u][t] =>
      ENABLED RedeemCollateral(u, t, amount)

\* A user with coins and an allowance to the engine can repay debt at any
\* price, healthy or not.
RepaymentIsOpen ==
  \A u \in Users, amount \in CoinAmounts \ {0} :
    /\ amount <= s_coinMinted[u]
    /\ amount <= coin.balances[u]
    /\ amount <= coin.allowances[u][Engine]
    => ENABLED BurnCoin(u, amount)

\* At any price of its feeds the engine lets users repay what they owe and
\* take out what they deposited.
NobodyIsLockedIn == RepaymentIsOpen /\ DebtFreeMayLeave

\* Amounts computed from the engine's own view functions, the way the fuzzing
\* Handler computes them, are accepted for as long as the state stays: what
\* exceeds twice the debt, converted into any token, can be redeemed, and what
\* is missing to half the collateral can be minted.  Rounding never gets in
\* the way.
QuotesAreAccepted ==
  \A u \in Users :
    LET value  == CollateralValue(s_collateralDeposited[u])
        excess == value - 2 * s_coinMinted[u]
        room   == (value * 50) \div 100 - s_coinMinted[u]
    IN  excess >= 0 =>
          /\ \A t \in {t \in Tokens : FeedPrice(t) > 0} :
               LET quote  == TokenAmountFromINR(t, excess)
                   amount == IF quote < s_collateralDeposited[u][t]
                               THEN quote ELSE s_collateralDeposited[u][t]
               IN  amount > 0 => ENABLED RedeemCollateral(u, t, amount)
          /\ room > 0 /\ owner = Engine => ENABLED MintCoin(u, room)

\* An account that can pay for all of an unhealthy user's debt.
CanPayFor(liquidator, user) ==
  /\ Healthy(liquidator)
  /\ ~Healthy(user)
  /\ coin.balances[liquidator] >= s_coinMinted[user]
  /\ coin.allowances[liquidator][Engine] >= s_coinMinted[user]

\* A position that holds, in one token, the debt and five percent more can be
\* liquidated in full by whoever can pay: the rounding of the reward and of
\* the bonus never asks for more than is there.
CoveredDebtIsLiquidable ==
  \A l, u \in Users, t \in Tokens :
    /\ CanPayFor(l, u)
    /\ 100 * FeedPrice(t) * s_collateralDeposited[u][t]
         >= 105 * PRECISION * s_coinMinted[u]
    => ENABLED Liquidate(l, u, t, s_coinMinted[u])

\* The notice on liquidate: it "allows people to liquidate the user whose
\* health is below minimum health factor", by some amount in some token.
UnhealthyIsLiquidable ==
  \A l, u \in Users :
    CanPayFor(l, u) =>
      \E t \in Tokens, debtToCover \in 1 .. s_coinMinted[u] :
        ENABLED Liquidate(l, u, t, debtToCover)

\* The invariant in the contract's header, as InvariantTest asserts it: the
\* engine's tokens are worth at least the supply.
ProtocolHasMoreDepositedThanMinted ==
  CollateralValue([t \in Tokens |-> tokens[t].balances[Engine]])
    >= coin.totalSupply

\* The engine implements the vault: health factors, two-step token payments
\* and order of checks come down to the vault's three kinds of step.
Vault == INSTANCE CollateralVault WITH
           locked <- s_collateralDeposited,
           debt   <- s_coinMinted,
           rate   <- [t \in Tokens |-> FeedPrice(t)],
           One    <- PRECISION

VaultSpec == Vault!Spec

OnlyTheMarketEndangers == Vault!OnlyTheMarketEndangers
=============================================================================
