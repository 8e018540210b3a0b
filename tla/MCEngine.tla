------------------------------ MODULE MCEngine ------------------------------
(***************************************************************************)
(* Small instances of the engine.                                          *)
(***************************************************************************)
EXTENDS RupeeCoinEngine

CONSTANTS zero, engine, alice, bob, weth, wbtc   \* model values

MCAddresses == {zero, engine, alice, bob}
MCUsers == {alice, bob}
MCOneToken == {weth}
MCTwoTokens == {weth, wbtc}

\* One decimal in the feed and in the fixed-point numbers: an answer of 10 is
\* one INR per token.
MCFeedDecimals == [t \in Tokens |-> 1]

MCEndowment == [t \in Tokens |-> [a \in Addresses |-> IF a \in Users THEN 40 ELSE 0]]
MCCollateralAmounts == {20, 40}
MCCoinAmounts == {10, 20}
MCAnswers == [t \in Tokens |-> {5, 7, 10}]
MCApprovals == {<<u, engine, MaxUint>> : u \in MCUsers}

\* Two tokens whose feeds differ in decimals, amounts that do not divide evenly,
\* and a holder of both tokens beside a holder of one.
MixedFeedDecimals == [t \in Tokens |-> IF t = weth THEN 1 ELSE 0]
MixedEndowment ==
  [t \in Tokens |-> [a \in Addresses |->
     IF a = alice \/ (a = bob /\ t = weth) THEN 21 ELSE 0]]
MixedCollateralAmounts == {21}
MixedCoinAmounts == {9}
MixedAnswers == [t \in Tokens |-> IF t = weth THEN {6, 13} ELSE {1}]

\* Prices that cannot be evaluated: zero, and one whose product with a deposit
\* overflows.
ExtremeAnswers == [t \in Tokens |-> {0, 10, 300}]

\* Coins that circulate: everyone spends for everyone, within a limit or not.
SpenderApprovals ==
  {<<u, engine, MaxUint>> : u \in MCUsers}
    \cup {<<alice, bob, 10>>, <<bob, alice, MaxUint>>, <<bob, bob, MaxUint>>}
MCFixedAnswers == [t \in Tokens |-> {10}]
MCOneCollateralAmount == {40}
MCOneCoinAmount == {10}

\* The price falls to half, and to a level between the debt and 105% of it.
CrashAnswers == [t \in Tokens |-> {4, 10}]
GapAnswers == [t \in Tokens |-> {5, 10}]
=============================================================================
