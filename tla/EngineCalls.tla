------------------------------- MODULE EngineCalls -------------------------------
(***************************************************************************)
(* The engine's transactions call by call: what the engine records, every  *)
(* call to a token or to the coin, every check, in the order of the code.  *)
(* While a transaction runs nobody else's does, but the contracts it calls *)
(* see what it has changed so far; when a check or a call fails, all it    *)
(* has changed is undone.  Shown to implement RupeeCoinEngine, where a     *)
(* transaction is one step.                                                *)
(***************************************************************************)
EXTENDS RupeeCoinEngine, Sequences

VARIABLES
  steps,      \* what the running transaction has still to do, <<>> when none runs
  sender,     \* its msg.sender
  starting,   \* userStartingHealthFactor, in a liquidation
  saved       \* the state before it: what a revert goes back to

storage == <<s_collateralDeposited, s_coinMinted, tokens, coin, owner>>
callVars == <<vars, steps, sender, starting, saved>>

Step(op, t, from, to, amount) ==
  [op |-> op, t |-> t, from |-> from, to |-> to, amount |-> amount]

-----------------------------------------------------------------------------
(* The functions, as the steps they take.                                  *)

DepositSteps(u, t, amount) ==
  << Step("require", t, u, u, amount),
     Step("recordDeposit", t, u, Engine, amount),
     Step("pullToken", t, u, Engine, amount) >>

\* mintCoin
MintSteps(u, t, amount) ==
  << Step("require", t, u, u, amount),
     Step("recordDebt", t, u, u, amount),
     Step("checkHealth", t, u, u, amount),
     Step("mintCoin", t, Engine, u, amount) >>

\* A fault in _redeemCollateral: the tokens leave before the record changes.
PayFirst(t, from, to, amount) ==
  << Step("pushToken", t, Engine, to, amount),
     Step("recordRelease", t, from, to, amount) >>

\* _redeemCollateral
ReleaseSteps(t, from, to, amount) ==
  << Step("recordRelease", t, from, to, amount),
     Step("pushToken", t, Engine, to, amount) >>

\* _burnCoin
RetireSteps(t, onBehalfOf, from, amount) ==
  << Step("recordRepayment", t, onBehalfOf, from, amount),
     Step("pullCoin", t, from, Engine, amount),
     Step("burnCoin", t, Engine, Engine, amount) >>

RedeemSteps(u, t, amount) ==
  <<Step("require", t, u, u, amount)>> \o ReleaseSteps(t, u, u, amount)
    \o <<Step("checkRedeemer", t, u, u, amount)>>

BurnSteps(u, t, amount) ==
  <<Step("require", t, u, u, amount)>> \o RetireSteps(t, u, u, amount)

\* The reward is computed from the price, which no call of a transaction changes.
LiquidateSteps(u, user, t, debtToCover) ==
  LET reward == IF FeedPrice(t) = 0 THEN 0 ELSE TokenAmountFromINR(t, debtToCover)
  IN  << Step("checkHealth", t, u, u, debtToCover),
         Step("checkUnhealthy", t, user, user, debtToCover),
         Step("checkReward", t, user, user, debtToCover) >>
      \o ReleaseSteps(t, user, u, reward + LiquidationBonus(reward))
      \o RetireSteps(t, user, u, debtToCover)
      \o <<Step("checkImproved", t, user, user, debtToCover)>>

Transactions(u) ==
  UNION {
    {DepositSteps(u, t, a) : t \in Tokens, a \in CollateralAmounts},
    {RedeemSteps(u, t, a) : t \in Tokens, a \in CollateralAmounts},
    {MintSteps(u, t, b) : t \in Tokens, b \in CoinAmounts},
    {BurnSteps(u, t, b) : t \in Tokens, b \in CoinAmounts},
    {DepositSteps(u, t, a) \o MintSteps(u, t, b) :
       t \in Tokens, a \in CollateralAmounts, b \in CoinAmounts},
    {BurnSteps(u, t, b) \o RedeemSteps(u, t, a) :
       t \in Tokens, a \in CollateralAmounts, b \in CoinAmounts},
    {LiquidateSteps(u, user, t, b) : user \in Users, t \in Tokens, b \in CoinAmounts} }

-----------------------------------------------------------------------------
(* What a step requires, and what it changes.                              *)

Succeeds(s) ==
  CASE s.op = "require"         -> s.amount # 0
    [] s.op = "recordDeposit"   -> s_collateralDeposited[s.from][s.t] + s.amount <= MaxUint
    [] s.op = "pullToken"       -> CanTransferFrom(tokens[s.t], Engine, s.from, Engine, s.amount)
    [] s.op = "recordDebt"      -> s_coinMinted[s.from] + s.amount <= MaxUint
    [] s.op = "checkHealth"     -> HealthFactorIsGood(s_collateralDeposited[s.from],
                                                      s_coinMinted[s.from])
    [] s.op = "mintCoin"        -> OnlyOwner(Engine) /\ CanMint(coin, s.to, s.amount)
    [] s.op = "recordRelease"   -> s.amount <= s_collateralDeposited[s.from][s.t]
    [] s.op = "pushToken"       -> CanTransfer(tokens[s.t], Engine, s.to, s.amount)
    [] s.op = "recordRepayment" -> s.amount <= s_coinMinted[s.from]
    [] s.op = "pullCoin"        -> CanTransferFrom(coin, Engine, s.from, Engine, s.amount)
    [] s.op = "burnCoin"        -> CanOwnerBurn(coin, Engine, s.amount)
    [] s.op = "checkRedeemer"   -> s_coinMinted[s.from] > 0 =>
                                     HealthFactorIsGood(s_collateralDeposited[s.from],
                                                        s_coinMinted[s.from])
    [] s.op = "checkUnhealthy"  ->
         /\ HealthFactorFits(s_collateralDeposited[s.from], s_coinMinted[s.from])
         /\ HealthFactor(s_collateralDeposited[s.from], s_coinMinted[s.from]) < MIN_HEALTH_FACTOR
    [] s.op = "checkReward"     ->
         /\ TokenAmountFits(s.t, s.amount)
         /\ LET reward == TokenAmountFromINR(s.t, s.amount)
            IN  /\ reward * LIQUIDATION_BONUS <= MaxUint
                /\ reward + LiquidationBonus(reward) <= MaxUint
    [] s.op = "checkImproved"   ->
         /\ HealthFactorFits(s_collateralDeposited[s.from], s_coinMinted[s.from])
         /\ HealthFactor(s_collateralDeposited[s.from], s_coinMinted[s.from]) > starting

Records(s) ==
  /\ s_collateralDeposited' =
       CASE s.op = "recordDeposit" -> [s_collateralDeposited EXCEPT ![s.from][s.t] = @ + s.amount]
         [] s.op = "recordRelease" -> [s_collateralDeposited EXCEPT ![s.from][s.t] = @ - s.amount]
         [] OTHER -> s_collateralDeposited
  /\ s_coinMinted' =
       CASE s.op = "recordDebt"      -> [s_coinMinted EXCEPT ![s.from] = @ + s.amount]
         [] s.op = "recordRepayment" -> [s_coinMinted EXCEPT ![s.from] = @ - s.amount]
         [] OTHER -> s_coinMinted

Calls(s) ==
  /\ tokens' =
       CASE s.op = "pullToken" ->
              [tokens EXCEPT ![s.t] = TransferredFrom(@, Engine, s.from, Engine, s.amount)]
         [] s.op = "pushToken" -> [tokens EXCEPT ![s.t] = Transferred(@, Engine, s.to, s.amount)]
         [] OTHER -> tokens
  /\ coin' =
       CASE s.op = "mintCoin" -> Minted(coin, s.to, s.amount)
         [] s.op = "pullCoin" -> TransferredFrom(coin, Engine, s.from, Engine, s.amount)
         [] s.op = "burnCoin" -> Burned(coin, Engine, s.amount)
         [] OTHER -> coin
  /\ UNCHANGED owner

-----------------------------------------------------------------------------
Running == steps # <<>>

CallsInit ==
  /\ Init
  /\ steps = <<>>
  /\ sender = Deployer
  /\ starting = 0
  /\ saved = storage

\* A transaction is sent to the engine, when the last one is over.
Begin(u) ==
  /\ ~Running
  /\ \E transaction \in Transactions(u) : steps' = transaction
  /\ sender' = u
  /\ saved' = storage
  /\ UNCHANGED <<vars, starting>>

Continue ==
  /\ Running
  /\ LET s == Head(steps)
     IN  /\ Succeeds(s)
         /\ Records(s)
         /\ Calls(s)
         /\ starting' =
              CASE Len(steps) = 1         -> 0
                [] s.op = "checkUnhealthy" ->
                     HealthFactor(s_collateralDeposited[s.from], s_coinMinted[s.from])
                [] OTHER                  -> starting
  /\ steps' = Tail(steps)
  /\ UNCHANGED <<price, sender>>
  /\ saved' = IF Len(steps) = 1 THEN storage' ELSE saved

\* A fault of the platform: what other contracts did is kept.
UndoOwn ==
  /\ s_collateralDeposited' = saved[1]
  /\ s_coinMinted' = saved[2]
  /\ UNCHANGED <<tokens, coin, owner>>

Undo ==
  /\ s_collateralDeposited' = saved[1]
  /\ s_coinMinted' = saved[2]
  /\ tokens' = saved[3]
  /\ coin' = saved[4]
  /\ owner' = saved[5]

Revert ==
  /\ Running
  /\ ~Succeeds(Head(steps))
  /\ Undo
  /\ steps' = <<>>
  /\ starting' = 0
  /\ UNCHANGED <<price, sender, saved>>

\* Transactions that do not go through the engine, each a single call.
Elsewhere ==
  /\ ~Running
  /\ \/ HandOverCoin
     \/ \E u \in Users : UseCoin(u)
     \/ \E u \in Users, t \in Tokens : UseToken(u, t)
     \/ \E t \in Tokens : UpdateAnswer(t)
  /\ saved' = storage'
  /\ UNCHANGED <<steps, sender, starting>>

CallsNext ==
  \/ \E u \in Users : Begin(u)
  \/ Continue
  \/ Revert
  \/ Elsewhere

CallsSpec == CallsInit /\ [][CallsNext]_callVars

-----------------------------------------------------------------------------
(* Properties.                                                             *)

\* A call of the running transaction that comes next, of this kind.
Awaits(op) == Running /\ Head(steps).op = op

\* What a token called by the engine sees: unless it is being asked for a
\* deposit, the engine holds at least the deposits on record, of every token,
\* also between the calls of a transaction that may yet be undone.
CustodyBetweenCalls ==
  \A t \in Tokens :
    tokens[t].balances[Engine]
      + (IF Awaits("pullToken") /\ Head(steps).t = t THEN Head(steps).amount ELSE 0)
      >= Deposited(t)

\* And of the coin: its supply is owed, up to what a repayment under way has
\* taken off the debt and not yet burnt.
DebtBetweenCalls ==
  coin.totalSupply
    <= TotalMinted
       + (IF Awaits("pullCoin") \/ Awaits("burnCoin") THEN Head(steps).amount ELSE 0)

\* The calls that pay out and that burn do not fail: what a release has taken
\* off the record the engine holds, and what a repayment has pulled it can burn,
\* unless it is nothing (liquidate does not ask for more than zero: the coin does).
PayoutsSucceed ==
  /\ Awaits("pushToken") => Succeeds(Head(steps))
  /\ Awaits("burnCoin") /\ Head(steps).amount # 0 => Succeeds(Head(steps))

\* What contracts see when the engine calls them never shows deposits without
\* tokens or coins without debt, though any step so far may yet be undone; and
\* the engine has what it is about to give away.
CoveredBetweenCalls == CustodyBetweenCalls /\ DebtBetweenCalls /\ PayoutsSucceed

\* Seen from outside, where a running transaction has not happened yet, every
\* transaction is one step of RupeeCoinEngine or none: checks made between the
\* calls decide like those of the whole, and a revert leaves nothing behind.
Atomic == INSTANCE RupeeCoinEngine WITH
  s_collateralDeposited <- IF Running THEN saved[1] ELSE s_collateralDeposited,
  s_coinMinted          <- IF Running THEN saved[2] ELSE s_coinMinted,
  tokens                <- IF Running THEN saved[3] ELSE tokens,
  coin                  <- IF Running THEN saved[4] ELSE coin,
  owner                 <- IF Running THEN saved[5] ELSE owner

AtomicSpec == Atomic!Spec
=============================================================================
