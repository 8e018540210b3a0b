-------------------------- MODULE EngineCallsProofs --------------------------
(***************************************************************************)
(* Proofs about the engine's transactions call by call.  First, what other *)
(* contracts see: between the steps of a transaction the ledgers and the   *)
(* records disagree by the amount that is under way, and the invariant     *)
(* says by how much and which of the steps to come settles it.  Then, that *)
(* a transaction is atomic: what it has done so far is replayed from the   *)
(* saved state, and when it ends the replay is a step of RupeeCoinEngine.  *)
(***************************************************************************)
EXTENDS EngineCalls, RupeeCoinEngineProofs

Operations ==
  {"require", "recordDeposit", "pullToken", "recordDebt", "checkHealth", "mintCoin",
   "recordRelease", "pushToken", "recordRepayment", "pullCoin", "burnCoin",
   "checkRedeemer", "checkUnhealthy", "checkReward", "checkImproved"}

CallSteps ==
  [op : Operations, t : Tokens, from : Addresses, to : Addresses, amount : Nat]

\* Steps that leave the next one an amount to settle.
Announces(s) ==
  s.op \in {"recordDeposit", "recordRelease", "recordRepayment", "pullCoin"}

\* Who a step concerns, and amounts that are compared with nothing before.
WellTyped(s) ==
  /\ s.op \in {"recordDeposit", "recordRelease", "recordDebt", "recordRepayment",
               "pullToken", "pullCoin"} => s.from \in Users
  /\ s.op \in {"pushToken", "mintCoin"} => s.to \in Users
  /\ s.op \notin {"recordRelease", "pushToken"} => s.amount \in UInt

Follows(s, n) ==
  /\ n.op = "pullToken" <=> s.op = "recordDeposit"
  /\ n.op = "pushToken" <=> s.op = "recordRelease"
  /\ n.op = "pullCoin"  <=> s.op = "recordRepayment"
  /\ n.op = "burnCoin"  <=> s.op = "pullCoin"
  /\ n.op = "mintCoin"   => s.op = "checkHealth"
  /\ Announces(s) => n.t = s.t /\ n.amount = s.amount

\* Every change of a record is followed by the call that settles it, and by
\* none without.
Ordered(q) ==
  /\ q \in Seq(CallSteps)
  /\ \A i \in 1 .. Len(q) :
       /\ WellTyped(q[i])
       /\ Announces(q[i]) => i < Len(q)
       /\ i < Len(q) => Follows(q[i], q[i + 1])
       /\ q[i].op = "recordDebt" =>
            i + 1 < Len(q) /\ q[i + 1].op = "checkHealth"
                           /\ q[i + 2].op = "mintCoin" /\ q[i + 2].amount = q[i].amount
       /\ i + 1 < Len(q) /\ q[i + 2].op = "mintCoin" => q[i].op = "recordDebt"

\* The amounts that the next steps of q settle.
ToPull(q, t) == IF q # <<>> /\ q[1].op = "pullToken" /\ q[1].t = t THEN q[1].amount ELSE 0
ToPush(q, t) == IF q # <<>> /\ q[1].op = "pushToken" /\ q[1].t = t THEN q[1].amount ELSE 0
ToBurn(q)    == IF q # <<>> /\ q[1].op \in {"pullCoin", "burnCoin"} THEN q[1].amount ELSE 0
ToMint(q)    == IF q # <<>> /\ q[1].op = "mintCoin" THEN q[1].amount
                ELSE IF Len(q) > 1 /\ q[2].op = "mintCoin" THEN q[2].amount
                ELSE 0

\* The engine's invariant, of a state given by its values.
Settled(deposited, minted, ledgers, coins, by) ==
  /\ Sound(coins) /\ by \in Addresses
  /\ deposited \in [Users -> [Tokens -> UInt]]
  /\ minted \in [Users -> UInt]
  /\ ledgers \in [Tokens -> Ledger]
  /\ \A t \in Tokens :
       /\ Sound(ledgers[t])
       /\ ledgers[t].balances[Engine] >= SumFunction([u \in Users |-> deposited[u][t]])
  /\ coins.totalSupply <= SumFunction(minted)

TypesOK ==
  /\ CoinIInv
  /\ PositionsTypeOK
  /\ TokensSound
  /\ price \in [Tokens -> UInt]

\* Between the calls of a transaction custody and debt are off by what the
\* next steps settle, and by nothing else.
CustodyUnderWay ==
  \A t \in Tokens :
    tokens[t].balances[Engine] + ToPull(steps, t) - ToPush(steps, t) >= Deposited(t)

DebtUnderWay == coin.totalSupply + ToMint(steps) <= TotalMinted + ToBurn(steps)

\* The inductive invariant.  The state a revert goes back to is a good one.
CallsIInv ==
  /\ TypesOK
  /\ Ordered(steps)
  /\ CustodyUnderWay
  /\ DebtUnderWay
  /\ Settled(saved[1], saved[2], saved[3], saved[4], saved[5])

-----------------------------------------------------------------------------
(* Sequences of steps.                                                     *)

LEMMA Joined ==
  ASSUME NEW S, NEW p \in Seq(S), NEW q \in Seq(S), NEW r \in Seq(S),
         Len(r) = Len(p) + Len(q),
         \A i \in 1 .. Len(p) : r[i] = p[i],
         \A i \in 1 .. Len(q) : r[Len(p) + i] = q[i]
  PROVE  p \o q = r
<1>1. /\ p \o q \in Seq(S)
      /\ Len(p \o q) = Len(p) + Len(q)
      /\ \A i \in 1 .. Len(p) + Len(q) :
           (p \o q)[i] = IF i <= Len(p) THEN p[i] ELSE q[i - Len(p)]
  OBVIOUS
<1>2. ASSUME NEW i \in 1 .. Len(p) + Len(q)
      PROVE  (p \o q)[i] = r[i]
  <2>1. CASE i <= Len(p)
    BY <1>1, <2>1
  <2>2. CASE i > Len(p)
    <3>1. i - Len(p) \in 1 .. Len(q) /\ Len(p) + (i - Len(p)) = i
      BY <2>2
    <3> QED
      BY <1>1, <2>2, <3>1
  <2> QED
    BY <2>1, <2>2
<1> QED
  BY <1>1, <1>2

LEMMA Rest ==
  ASSUME NEW q \in Seq(CallSteps), q # <<>>
  PROVE  /\ Tail(q) \in Seq(CallSteps)
         /\ Len(q) \in Nat \ {0}
         /\ Len(Tail(q)) = Len(q) - 1
         /\ Head(q) = q[1] /\ q[1] \in CallSteps
         /\ \A i \in 1 .. Len(q) - 1 : Tail(q)[i] = q[i + 1]
         /\ Tail(q) = <<>> <=> Len(q) = 1
<1>1. /\ Tail(q) \in Seq(CallSteps)
      /\ Len(q) \in Nat /\ Len(q) > 0
      /\ Len(Tail(q)) = Len(q) - 1
      /\ Head(q) = q[1]
      /\ \A i \in 1 .. Len(q) - 1 : Tail(q)[i] = q[i + 1]
  OBVIOUS
<1>2. Tail(q) = <<>> <=> Len(Tail(q)) = 0
  BY <1>1
<1>3. q[1] \in CallSteps
  BY <1>1
<1> QED
  BY <1>1, <1>2, <1>3

\* What a step leaves to the next ones to settle.
LEMMA Settling ==
  ASSUME NEW q, Ordered(q), q # <<>>
  PROVE  LET s == Head(q)
         IN  /\ Ordered(Tail(q))
             /\ s = q[1] /\ s \in CallSteps /\ WellTyped(s)
             /\ \A t \in Tokens :
                  /\ ToPull(Tail(q), t) =
                       IF s.op = "recordDeposit" /\ s.t = t THEN s.amount ELSE 0
                  /\ ToPush(Tail(q), t) =
                       IF s.op = "recordRelease" /\ s.t = t THEN s.amount ELSE 0
             /\ ToBurn(Tail(q)) =
                  IF s.op \in {"recordRepayment", "pullCoin"} THEN s.amount ELSE 0
             /\ ToMint(Tail(q)) = IF s.op = "recordDebt" THEN s.amount
                                  ELSE IF s.op = "checkHealth" THEN ToMint(q) ELSE 0
<1> DEFINE s == Head(q)
           r == Tail(q)
<1>1. /\ q \in Seq(CallSteps) /\ r \in Seq(CallSteps)
      /\ Len(q) \in Nat \ {0} /\ Len(r) = Len(q) - 1
      /\ s = q[1] /\ s \in CallSteps
      /\ \A i \in 1 .. Len(r) : r[i] = q[i + 1]
      /\ r = <<>> <=> Len(r) = 0
      /\ 1 \in 1 .. Len(q)
  BY Rest DEF Ordered
<1> HIDE DEF s, r
<1>2. Ordered(r)
  <2> SUFFICES ASSUME NEW i \in 1 .. Len(r)
               PROVE  /\ WellTyped(r[i])
                      /\ Announces(r[i]) => i < Len(r)
                      /\ i < Len(r) => Follows(r[i], r[i + 1])
                      /\ r[i].op = "recordDebt" =>
                           i + 1 < Len(r) /\ r[i + 1].op = "checkHealth"
                             /\ r[i + 2].op = "mintCoin" /\ r[i + 2].amount = r[i].amount
                      /\ i + 1 < Len(r) /\ r[i + 2].op = "mintCoin" => r[i].op = "recordDebt"
    BY <1>1 DEF Ordered
  <2>1. i + 1 \in 1 .. Len(q) /\ r[i] = q[i + 1] /\ i \in Nat
    BY <1>1
  <2>2. i < Len(r) => r[i + 1] = q[(i + 1) + 1]
    BY <1>1
  <2>3. i + 1 < Len(r) => r[i + 2] = q[(i + 1) + 2]
    BY <1>1
  <2> QED
    BY <1>1, <2>1, <2>2, <2>3 DEF Ordered
<1>3. CASE Len(q) = 1
  <2>1. r = <<>> /\ Len(r) = 0
    BY <1>1, <1>3
  <2>2. ~Announces(s) /\ s.op # "recordDebt" /\ WellTyped(s)
    BY <1>1, <1>3 DEF Ordered
  <2>3. ToMint(q) = 0 \/ s.op # "checkHealth"
    BY <1>1, <1>3 DEF ToMint
  <2> QED
    BY <1>1, <1>2, <2>1, <2>2, <2>3 DEF ToPull, ToPush, ToBurn, ToMint, Announces, s, r
<1>4. CASE Len(q) > 1
  <2>1. /\ r # <<>> /\ r[1] = q[2]
        /\ Follows(s, r[1]) /\ WellTyped(s)
        /\ Len(r) > 1 => r[2] = q[3]
        /\ s.op = "recordDebt" =>
             Len(r) > 1 /\ r[1].op = "checkHealth"
             /\ r[2].op = "mintCoin" /\ r[2].amount = s.amount
        /\ Len(r) > 1 /\ r[2].op = "mintCoin" => s.op = "recordDebt"
    BY <1>1, <1>4 DEF Ordered
  <2>2. /\ \A t \in Tokens :
             /\ ToPull(r, t) = IF s.op = "recordDeposit" /\ s.t = t THEN s.amount ELSE 0
             /\ ToPush(r, t) = IF s.op = "recordRelease" /\ s.t = t THEN s.amount ELSE 0
        /\ ToBurn(r) = IF s.op \in {"recordRepayment", "pullCoin"} THEN s.amount ELSE 0
    BY <2>1 DEF ToPull, ToPush, ToBurn, Follows, Announces
  <2>3. ToMint(r) = IF s.op = "recordDebt" THEN s.amount
                    ELSE IF s.op = "checkHealth" THEN ToMint(q) ELSE 0
    BY <1>1, <1>4, <2>1 DEF ToMint, Follows
  <2> QED
    BY <1>1, <1>2, <2>1, <2>2, <2>3 DEF s, r
<1> QED
  BY <1>1, <1>3, <1>4

-----------------------------------------------------------------------------
(* The transactions, written out.                                          *)

DepositSeries(u, t, a) ==
  << Step("require", t, u, u, a),
     Step("recordDeposit", t, u, Engine, a),
     Step("pullToken", t, u, Engine, a) >>

MintSeries(u, t, b) ==
  << Step("require", t, u, u, b),
     Step("recordDebt", t, u, u, b),
     Step("checkHealth", t, u, u, b),
     Step("mintCoin", t, Engine, u, b) >>

RedeemSeries(u, t, a) ==
  << Step("require", t, u, u, a),
     Step("recordRelease", t, u, u, a),
     Step("pushToken", t, Engine, u, a),
     Step("checkRedeemer", t, u, u, a) >>

BurnSeries(u, t, b) ==
  << Step("require", t, u, u, b),
     Step("recordRepayment", t, u, u, b),
     Step("pullCoin", t, u, Engine, b),
     Step("burnCoin", t, Engine, Engine, b) >>

DepositMintSeries(u, t, a, b) ==
  << Step("require", t, u, u, a),
     Step("recordDeposit", t, u, Engine, a),
     Step("pullToken", t, u, Engine, a),
     Step("require", t, u, u, b),
     Step("recordDebt", t, u, u, b),
     Step("checkHealth", t, u, u, b),
     Step("mintCoin", t, Engine, u, b) >>

BurnRedeemSeries(u, t, a, b) ==
  << Step("require", t, u, u, b),
     Step("recordRepayment", t, u, u, b),
     Step("pullCoin", t, u, Engine, b),
     Step("burnCoin", t, Engine, Engine, b),
     Step("require", t, u, u, a),
     Step("recordRelease", t, u, u, a),
     Step("pushToken", t, Engine, u, a),
     Step("checkRedeemer", t, u, u, a) >>

LiquidateSeries(u, v, t, a, b) ==
  << Step("checkHealth", t, u, u, b),
     Step("checkUnhealthy", t, v, v, b),
     Step("checkReward", t, v, v, b),
     Step("recordRelease", t, v, u, a),
     Step("pushToken", t, Engine, u, a),
     Step("recordRepayment", t, v, u, b),
     Step("pullCoin", t, u, Engine, b),
     Step("burnCoin", t, Engine, Engine, b),
     Step("checkImproved", t, v, v, b) >>

\* What liquidate pays out for a repayment of b.
Payout(t, b) ==
  LET reward == IF FeedPrice(t) = 0 THEN 0 ELSE TokenAmountFromINR(t, b)
  IN  reward + LiquidationBonus(reward)

\* What a transaction of u is.
IsTransaction(T, u) ==
  \/ \E t \in Tokens, a \in CollateralAmounts : T = DepositSeries(u, t, a)
  \/ \E t \in Tokens, a \in CollateralAmounts : T = RedeemSeries(u, t, a)
  \/ \E t \in Tokens, b \in CoinAmounts : T = MintSeries(u, t, b)
  \/ \E t \in Tokens, b \in CoinAmounts : T = BurnSeries(u, t, b)
  \/ \E t \in Tokens, a \in CollateralAmounts, b \in CoinAmounts :
       T = DepositMintSeries(u, t, a, b)
  \/ \E t \in Tokens, a \in CollateralAmounts, b \in CoinAmounts :
       T = BurnRedeemSeries(u, t, a, b)
  \/ \E v \in Users, t \in Tokens, b \in CoinAmounts :
       T = LiquidateSeries(u, v, t, Payout(t, b), b)

LEMMA Join13 ==
  ASSUME NEW a1, NEW a2, NEW a3, NEW a4
  PROVE  <<a1>> \o <<a2, a3, a4>> =
           <<a1, a2, a3, a4>>
<1> DEFINE S == {a1, a2, a3, a4}
           p == <<a1>>
           q == <<a2, a3, a4>>
           r == <<a1, a2, a3, a4>>
<1>1. p \in Seq(S) /\ q \in Seq(S) /\ r \in Seq(S)
  OBVIOUS
<1>2. Len(r) = Len(p) + Len(q)
  OBVIOUS
<1>3. \A i \in 1 .. Len(p) : r[i] = p[i]
  OBVIOUS
<1>4. \A i \in 1 .. Len(q) : r[Len(p) + i] = q[i]
  OBVIOUS
<1> HIDE DEF p, q, r, S
<1>5. p \o q = r
  BY <1>1, <1>2, <1>3, <1>4, Joined
<1> QED
  BY <1>5 DEF p, q, r

LEMMA Join12 ==
  ASSUME NEW a1, NEW a2, NEW a3
  PROVE  <<a1>> \o <<a2, a3>> =
           <<a1, a2, a3>>
<1> DEFINE S == {a1, a2, a3}
           p == <<a1>>
           q == <<a2, a3>>
           r == <<a1, a2, a3>>
<1>1. p \in Seq(S) /\ q \in Seq(S) /\ r \in Seq(S)
  OBVIOUS
<1>2. Len(r) = Len(p) + Len(q)
  OBVIOUS
<1>3. \A i \in 1 .. Len(p) : r[i] = p[i]
  OBVIOUS
<1>4. \A i \in 1 .. Len(q) : r[Len(p) + i] = q[i]
  OBVIOUS
<1> HIDE DEF p, q, r, S
<1>5. p \o q = r
  BY <1>1, <1>2, <1>3, <1>4, Joined
<1> QED
  BY <1>5 DEF p, q, r

LEMMA Join31 ==
  ASSUME NEW a1, NEW a2, NEW a3, NEW a4
  PROVE  <<a1, a2, a3>> \o <<a4>> =
           <<a1, a2, a3, a4>>
<1> DEFINE S == {a1, a2, a3, a4}
           p == <<a1, a2, a3>>
           q == <<a4>>
           r == <<a1, a2, a3, a4>>
<1>1. p \in Seq(S) /\ q \in Seq(S) /\ r \in Seq(S)
  OBVIOUS
<1>2. Len(r) = Len(p) + Len(q)
  OBVIOUS
<1>3. \A i \in 1 .. Len(p) : r[i] = p[i]
  OBVIOUS
<1>4. \A i \in 1 .. Len(q) : r[Len(p) + i] = q[i]
  OBVIOUS
<1> HIDE DEF p, q, r, S
<1>5. p \o q = r
  BY <1>1, <1>2, <1>3, <1>4, Joined
<1> QED
  BY <1>5 DEF p, q, r

LEMMA Join34 ==
  ASSUME NEW a1, NEW a2, NEW a3, NEW a4, NEW a5, NEW a6, NEW a7
  PROVE  <<a1, a2, a3>> \o <<a4, a5, a6, a7>> =
           <<a1, a2, a3, a4, a5, a6, a7>>
<1> DEFINE S == {a1, a2, a3, a4, a5, a6, a7}
           p == <<a1, a2, a3>>
           q == <<a4, a5, a6, a7>>
           r == <<a1, a2, a3, a4, a5, a6, a7>>
<1>1. p \in Seq(S) /\ q \in Seq(S) /\ r \in Seq(S)
  OBVIOUS
<1>2. Len(r) = Len(p) + Len(q)
  OBVIOUS
<1>3. \A i \in 1 .. Len(p) : r[i] = p[i]
  OBVIOUS
<1>4. \A i \in 1 .. Len(q) : r[Len(p) + i] = q[i]
  OBVIOUS
<1> HIDE DEF p, q, r, S
<1>5. p \o q = r
  BY <1>1, <1>2, <1>3, <1>4, Joined
<1> QED
  BY <1>5 DEF p, q, r

LEMMA Join44 ==
  ASSUME NEW a1, NEW a2, NEW a3, NEW a4, NEW a5, NEW a6, NEW a7, NEW a8
  PROVE  <<a1, a2, a3, a4>> \o <<a5, a6, a7, a8>> =
           <<a1, a2, a3, a4, a5, a6, a7, a8>>
<1> DEFINE S == {a1, a2, a3, a4, a5, a6, a7, a8}
           p == <<a1, a2, a3, a4>>
           q == <<a5, a6, a7, a8>>
           r == <<a1, a2, a3, a4, a5, a6, a7, a8>>
<1>1. p \in Seq(S) /\ q \in Seq(S) /\ r \in Seq(S)
  OBVIOUS
<1>2. Len(r) = Len(p) + Len(q)
  OBVIOUS
<1>3. \A i \in 1 .. Len(p) : r[i] = p[i]
  OBVIOUS
<1>4. \A i \in 1 .. Len(q) : r[Len(p) + i] = q[i]
  OBVIOUS
<1> HIDE DEF p, q, r, S
<1>5. p \o q = r
  BY <1>1, <1>2, <1>3, <1>4, Joined
<1> QED
  BY <1>5 DEF p, q, r

LEMMA Join32 ==
  ASSUME NEW a1, NEW a2, NEW a3, NEW a4, NEW a5
  PROVE  <<a1, a2, a3>> \o <<a4, a5>> =
           <<a1, a2, a3, a4, a5>>
<1> DEFINE S == {a1, a2, a3, a4, a5}
           p == <<a1, a2, a3>>
           q == <<a4, a5>>
           r == <<a1, a2, a3, a4, a5>>
<1>1. p \in Seq(S) /\ q \in Seq(S) /\ r \in Seq(S)
  OBVIOUS
<1>2. Len(r) = Len(p) + Len(q)
  OBVIOUS
<1>3. \A i \in 1 .. Len(p) : r[i] = p[i]
  OBVIOUS
<1>4. \A i \in 1 .. Len(q) : r[Len(p) + i] = q[i]
  OBVIOUS
<1> HIDE DEF p, q, r, S
<1>5. p \o q = r
  BY <1>1, <1>2, <1>3, <1>4, Joined
<1> QED
  BY <1>5 DEF p, q, r

LEMMA Join53 ==
  ASSUME NEW a1, NEW a2, NEW a3, NEW a4, NEW a5, NEW a6, NEW a7, NEW a8
  PROVE  <<a1, a2, a3, a4, a5>> \o <<a6, a7, a8>> =
           <<a1, a2, a3, a4, a5, a6, a7, a8>>
<1> DEFINE S == {a1, a2, a3, a4, a5, a6, a7, a8}
           p == <<a1, a2, a3, a4, a5>>
           q == <<a6, a7, a8>>
           r == <<a1, a2, a3, a4, a5, a6, a7, a8>>
<1>1. p \in Seq(S) /\ q \in Seq(S) /\ r \in Seq(S)
  OBVIOUS
<1>2. Len(r) = Len(p) + Len(q)
  OBVIOUS
<1>3. \A i \in 1 .. Len(p) : r[i] = p[i]
  OBVIOUS
<1>4. \A i \in 1 .. Len(q) : r[Len(p) + i] = q[i]
  OBVIOUS
<1> HIDE DEF p, q, r, S
<1>5. p \o q = r
  BY <1>1, <1>2, <1>3, <1>4, Joined
<1> QED
  BY <1>5 DEF p, q, r

LEMMA Join81 ==
  ASSUME NEW a1, NEW a2, NEW a3, NEW a4, NEW a5, NEW a6, NEW a7, NEW a8,
         NEW a9
  PROVE  <<a1, a2, a3, a4, a5, a6, a7, a8>> \o <<a9>> =
           <<a1, a2, a3, a4, a5, a6, a7, a8, a9>>
<1> DEFINE S == {a1, a2, a3, a4, a5, a6, a7, a8, a9}
           p == <<a1, a2, a3, a4, a5, a6, a7, a8>>
           q == <<a9>>
           r == <<a1, a2, a3, a4, a5, a6, a7, a8, a9>>
<1>1. p \in Seq(S) /\ q \in Seq(S) /\ r \in Seq(S)
  OBVIOUS
<1>2. Len(r) = Len(p) + Len(q)
  OBVIOUS
<1>3. \A i \in 1 .. Len(p) : r[i] = p[i]
  OBVIOUS
<1>4. \A i \in 1 .. Len(q) : r[Len(p) + i] = q[i]
  OBVIOUS
<1> HIDE DEF p, q, r, S
<1>5. p \o q = r
  BY <1>1, <1>2, <1>3, <1>4, Joined
<1> QED
  BY <1>5 DEF p, q, r

LEMMA AmountsNat ==
  /\ CoinAmounts \subseteq UInt /\ CollateralAmounts \subseteq UInt
  /\ UInt \subseteq Nat /\ UInt = 0 .. MaxUint /\ MaxUint \in Nat
BY CoinAmountsAssumption, InputAssumption, MaxUintAssumption DEF UInt

LEMMA DepositShape ==
  ASSUME NEW u, NEW t, NEW a
  PROVE  DepositSteps(u, t, a) = DepositSeries(u, t, a)
BY DEF DepositSteps, DepositSeries

LEMMA MintShape ==
  ASSUME NEW u, NEW t, NEW b
  PROVE  MintSteps(u, t, b) = MintSeries(u, t, b)
BY DEF MintSteps, MintSeries

LEMMA BurnShape ==
  ASSUME NEW u, NEW t, NEW b
  PROVE  BurnSteps(u, t, b) = BurnSeries(u, t, b)
BY Join13 DEF BurnSteps, RetireSteps, BurnSeries

LEMMA RedeemShape ==
  ASSUME NEW u, NEW t, NEW a
  PROVE  RedeemSteps(u, t, a) = RedeemSeries(u, t, a)
<1>1. <<Step("require", t, u, u, a)>> \o ReleaseSteps(t, u, u, a) =
        << Step("require", t, u, u, a),
           Step("recordRelease", t, u, u, a),
           Step("pushToken", t, Engine, u, a) >>
  BY Join12 DEF ReleaseSteps
<1> QED
  BY <1>1, Join31 DEF RedeemSteps, RedeemSeries

LEMMA DepositMintShape ==
  ASSUME NEW u, NEW t, NEW a, NEW b
  PROVE  DepositSteps(u, t, a) \o MintSteps(u, t, b) = DepositMintSeries(u, t, a, b)
BY Join34 DEF DepositSteps, MintSteps, DepositMintSeries

LEMMA BurnRedeemShape ==
  ASSUME NEW u, NEW t, NEW a, NEW b
  PROVE  BurnSteps(u, t, b) \o RedeemSteps(u, t, a) = BurnRedeemSeries(u, t, a, b)
<1>1. BurnSeries(u, t, b) \o RedeemSeries(u, t, a) = BurnRedeemSeries(u, t, a, b)
  BY Join44 DEF BurnSeries, RedeemSeries, BurnRedeemSeries
<1> QED
  BY <1>1, BurnShape, RedeemShape

LEMMA LiquidateShape ==
  ASSUME NEW u, NEW v, NEW t, NEW b, NEW a, a = Payout(t, b)
  PROVE  LiquidateSteps(u, v, t, b) = LiquidateSeries(u, v, t, a, b)
<1> DEFINE checks == << Step("checkHealth", t, u, u, b),
                        Step("checkUnhealthy", t, v, v, b),
                        Step("checkReward", t, v, v, b) >>
<1>1. checks \o ReleaseSteps(t, v, u, a) =
        << Step("checkHealth", t, u, u, b),
           Step("checkUnhealthy", t, v, v, b),
           Step("checkReward", t, v, v, b),
           Step("recordRelease", t, v, u, a),
           Step("pushToken", t, Engine, u, a) >>
  BY Join32 DEF ReleaseSteps
<1>2. RetireSteps(t, v, u, b) =
        << Step("recordRepayment", t, v, u, b),
           Step("pullCoin", t, u, Engine, b),
           Step("burnCoin", t, Engine, Engine, b) >>
  BY DEF RetireSteps
<1>3. LiquidateSteps(u, v, t, b) =
        ((checks \o ReleaseSteps(t, v, u, a)) \o RetireSteps(t, v, u, b))
          \o <<Step("checkImproved", t, v, v, b)>>
  BY DEF LiquidateSteps, Payout, checks
<1> HIDE DEF checks
<1>4. (checks \o ReleaseSteps(t, v, u, a)) \o RetireSteps(t, v, u, b) =
        << Step("checkHealth", t, u, u, b),
           Step("checkUnhealthy", t, v, v, b),
           Step("checkReward", t, v, v, b),
           Step("recordRelease", t, v, u, a),
           Step("pushToken", t, Engine, u, a),
           Step("recordRepayment", t, v, u, b),
           Step("pullCoin", t, u, Engine, b),
           Step("burnCoin", t, Engine, Engine, b) >>
  BY <1>1, <1>2, Join53
<1> QED
  BY <1>3, <1>4, Join81 DEF LiquidateSeries

LEMMA DepositOrdered ==
  ASSUME NEW u \in Users, NEW t \in Tokens, NEW a \in UInt
  PROVE  Ordered(DepositSeries(u, t, a))
<1> DEFINE T == DepositSeries(u, t, a)
<1>1. T \in Seq(CallSteps)
  <2>1. /\ Step("require", t, u, u, a) \in CallSteps
        /\ Step("recordDeposit", t, u, Engine, a) \in CallSteps
        /\ Step("pullToken", t, u, Engine, a) \in CallSteps
    BY Accounts, AmountsNat DEF Step, CallSteps, Operations
  <2> QED
    BY <2>1 DEF DepositSeries
<1>2. Len(T) = 3
  BY DEF DepositSeries
<1>3. /\ T[1] = Step("require", t, u, u, a)
      /\ T[2] = Step("recordDeposit", t, u, Engine, a)
      /\ T[3] = Step("pullToken", t, u, Engine, a)
  BY DEF DepositSeries
<1> HIDE DEF T
<1>4. \A i \in 1 .. 3 : i = 1 \/ i = 2 \/ i = 3
  OBVIOUS
<1> QED
  BY <1>1, <1>2, <1>3, <1>4, Accounts, AmountsNat
     DEF Ordered, WellTyped, Follows, Announces, Step, T

LEMMA MintOrdered ==
  ASSUME NEW u \in Users, NEW t \in Tokens, NEW b \in UInt
  PROVE  Ordered(MintSeries(u, t, b))
<1> DEFINE T == MintSeries(u, t, b)
<1>1. T \in Seq(CallSteps)
  <2>1. /\ Step("require", t, u, u, b) \in CallSteps
        /\ Step("recordDebt", t, u, u, b) \in CallSteps
        /\ Step("checkHealth", t, u, u, b) \in CallSteps
        /\ Step("mintCoin", t, Engine, u, b) \in CallSteps
    BY Accounts, AmountsNat DEF Step, CallSteps, Operations
  <2> QED
    BY <2>1 DEF MintSeries
<1>2. Len(T) = 4
  BY DEF MintSeries
<1>3. /\ T[1] = Step("require", t, u, u, b)
      /\ T[2] = Step("recordDebt", t, u, u, b)
      /\ T[3] = Step("checkHealth", t, u, u, b)
      /\ T[4] = Step("mintCoin", t, Engine, u, b)
  BY DEF MintSeries
<1> HIDE DEF T
<1>4. \A i \in 1 .. 4 : i = 1 \/ i = 2 \/ i = 3 \/ i = 4
  OBVIOUS
<1> QED
  BY <1>1, <1>2, <1>3, <1>4, Accounts, AmountsNat
     DEF Ordered, WellTyped, Follows, Announces, Step, T

LEMMA RedeemOrdered ==
  ASSUME NEW u \in Users, NEW t \in Tokens, NEW a \in UInt
  PROVE  Ordered(RedeemSeries(u, t, a))
<1> DEFINE T == RedeemSeries(u, t, a)
<1>1. T \in Seq(CallSteps)
  <2>1. /\ Step("require", t, u, u, a) \in CallSteps
        /\ Step("recordRelease", t, u, u, a) \in CallSteps
        /\ Step("pushToken", t, Engine, u, a) \in CallSteps
        /\ Step("checkRedeemer", t, u, u, a) \in CallSteps
    BY Accounts, AmountsNat DEF Step, CallSteps, Operations
  <2> QED
    BY <2>1 DEF RedeemSeries
<1>2. Len(T) = 4
  BY DEF RedeemSeries
<1>3. /\ T[1] = Step("require", t, u, u, a)
      /\ T[2] = Step("recordRelease", t, u, u, a)
      /\ T[3] = Step("pushToken", t, Engine, u, a)
      /\ T[4] = Step("checkRedeemer", t, u, u, a)
  BY DEF RedeemSeries
<1> HIDE DEF T
<1>4. \A i \in 1 .. 4 : i = 1 \/ i = 2 \/ i = 3 \/ i = 4
  OBVIOUS
<1> QED
  BY <1>1, <1>2, <1>3, <1>4, Accounts, AmountsNat
     DEF Ordered, WellTyped, Follows, Announces, Step, T

LEMMA BurnOrdered ==
  ASSUME NEW u \in Users, NEW t \in Tokens, NEW b \in UInt
  PROVE  Ordered(BurnSeries(u, t, b))
<1> DEFINE T == BurnSeries(u, t, b)
<1>1. T \in Seq(CallSteps)
  <2>1. /\ Step("require", t, u, u, b) \in CallSteps
        /\ Step("recordRepayment", t, u, u, b) \in CallSteps
        /\ Step("pullCoin", t, u, Engine, b) \in CallSteps
        /\ Step("burnCoin", t, Engine, Engine, b) \in CallSteps
    BY Accounts, AmountsNat DEF Step, CallSteps, Operations
  <2> QED
    BY <2>1 DEF BurnSeries
<1>2. Len(T) = 4
  BY DEF BurnSeries
<1>3. /\ T[1] = Step("require", t, u, u, b)
      /\ T[2] = Step("recordRepayment", t, u, u, b)
      /\ T[3] = Step("pullCoin", t, u, Engine, b)
      /\ T[4] = Step("burnCoin", t, Engine, Engine, b)
  BY DEF BurnSeries
<1> HIDE DEF T
<1>4. \A i \in 1 .. 4 : i = 1 \/ i = 2 \/ i = 3 \/ i = 4
  OBVIOUS
<1> QED
  BY <1>1, <1>2, <1>3, <1>4, Accounts, AmountsNat
     DEF Ordered, WellTyped, Follows, Announces, Step, T

LEMMA DepositMintOrdered ==
  ASSUME NEW u \in Users, NEW t \in Tokens, NEW a \in UInt, NEW b \in UInt
  PROVE  Ordered(DepositMintSeries(u, t, a, b))
<1> DEFINE T == DepositMintSeries(u, t, a, b)
<1>1. T \in Seq(CallSteps)
  <2>1. /\ Step("require", t, u, u, a) \in CallSteps
        /\ Step("recordDeposit", t, u, Engine, a) \in CallSteps
        /\ Step("pullToken", t, u, Engine, a) \in CallSteps
        /\ Step("require", t, u, u, b) \in CallSteps
        /\ Step("recordDebt", t, u, u, b) \in CallSteps
        /\ Step("checkHealth", t, u, u, b) \in CallSteps
        /\ Step("mintCoin", t, Engine, u, b) \in CallSteps
    BY Accounts, AmountsNat DEF Step, CallSteps, Operations
  <2> QED
    BY <2>1 DEF DepositMintSeries
<1>2. Len(T) = 7
  BY DEF DepositMintSeries
<1>3. /\ T[1] = Step("require", t, u, u, a)
      /\ T[2] = Step("recordDeposit", t, u, Engine, a)
      /\ T[3] = Step("pullToken", t, u, Engine, a)
      /\ T[4] = Step("require", t, u, u, b)
      /\ T[5] = Step("recordDebt", t, u, u, b)
      /\ T[6] = Step("checkHealth", t, u, u, b)
      /\ T[7] = Step("mintCoin", t, Engine, u, b)
  BY DEF DepositMintSeries
<1> HIDE DEF T
<1>4. \A i \in 1 .. 7 : i = 1 \/ i = 2 \/ i = 3 \/ i = 4 \/ i = 5 \/ i = 6 \/ i = 7
  OBVIOUS
<1> QED
  BY <1>1, <1>2, <1>3, <1>4, Accounts, AmountsNat
     DEF Ordered, WellTyped, Follows, Announces, Step, T

LEMMA BurnRedeemOrdered ==
  ASSUME NEW u \in Users, NEW t \in Tokens, NEW a \in UInt, NEW b \in UInt
  PROVE  Ordered(BurnRedeemSeries(u, t, a, b))
<1> DEFINE T == BurnRedeemSeries(u, t, a, b)
<1>1. T \in Seq(CallSteps)
  <2>1. /\ Step("require", t, u, u, b) \in CallSteps
        /\ Step("recordRepayment", t, u, u, b) \in CallSteps
        /\ Step("pullCoin", t, u, Engine, b) \in CallSteps
        /\ Step("burnCoin", t, Engine, Engine, b) \in CallSteps
        /\ Step("require", t, u, u, a) \in CallSteps
        /\ Step("recordRelease", t, u, u, a) \in CallSteps
        /\ Step("pushToken", t, Engine, u, a) \in CallSteps
        /\ Step("checkRedeemer", t, u, u, a) \in CallSteps
    BY Accounts, AmountsNat DEF Step, CallSteps, Operations
  <2> QED
    BY <2>1 DEF BurnRedeemSeries
<1>2. Len(T) = 8
  BY DEF BurnRedeemSeries
<1>3. /\ T[1] = Step("require", t, u, u, b)
      /\ T[2] = Step("recordRepayment", t, u, u, b)
      /\ T[3] = Step("pullCoin", t, u, Engine, b)
      /\ T[4] = Step("burnCoin", t, Engine, Engine, b)
      /\ T[5] = Step("require", t, u, u, a)
      /\ T[6] = Step("recordRelease", t, u, u, a)
      /\ T[7] = Step("pushToken", t, Engine, u, a)
      /\ T[8] = Step("checkRedeemer", t, u, u, a)
  BY DEF BurnRedeemSeries
<1> HIDE DEF T
<1>4. \A i \in 1 .. 8 : i = 1 \/ i = 2 \/ i = 3 \/ i = 4 \/ i = 5 \/ i = 6 \/ i = 7 \/ i = 8
  OBVIOUS
<1> QED
  BY <1>1, <1>2, <1>3, <1>4, Accounts, AmountsNat
     DEF Ordered, WellTyped, Follows, Announces, Step, T

LEMMA LiquidateOrdered ==
  ASSUME NEW u \in Users, NEW t \in Tokens, NEW v \in Users,
         NEW a \in Nat, NEW b \in UInt
  PROVE  Ordered(LiquidateSeries(u, v, t, a, b))
<1> DEFINE T == LiquidateSeries(u, v, t, a, b)
<1>1. T \in Seq(CallSteps)
  <2>1. /\ Step("checkHealth", t, u, u, b) \in CallSteps
        /\ Step("checkUnhealthy", t, v, v, b) \in CallSteps
        /\ Step("checkReward", t, v, v, b) \in CallSteps
        /\ Step("recordRelease", t, v, u, a) \in CallSteps
        /\ Step("pushToken", t, Engine, u, a) \in CallSteps
        /\ Step("recordRepayment", t, v, u, b) \in CallSteps
        /\ Step("pullCoin", t, u, Engine, b) \in CallSteps
        /\ Step("burnCoin", t, Engine, Engine, b) \in CallSteps
        /\ Step("checkImproved", t, v, v, b) \in CallSteps
    BY Accounts, AmountsNat DEF Step, CallSteps, Operations
  <2> QED
    BY <2>1 DEF LiquidateSeries
<1>2. Len(T) = 9
  BY DEF LiquidateSeries
<1>3. /\ T[1] = Step("checkHealth", t, u, u, b)
      /\ T[2] = Step("checkUnhealthy", t, v, v, b)
      /\ T[3] = Step("checkReward", t, v, v, b)
      /\ T[4] = Step("recordRelease", t, v, u, a)
      /\ T[5] = Step("pushToken", t, Engine, u, a)
      /\ T[6] = Step("recordRepayment", t, v, u, b)
      /\ T[7] = Step("pullCoin", t, u, Engine, b)
      /\ T[8] = Step("burnCoin", t, Engine, Engine, b)
      /\ T[9] = Step("checkImproved", t, v, v, b)
  BY DEF LiquidateSeries
<1> HIDE DEF T
<1>4. \A i \in 1 .. 9 : \/ i = 1 \/ i = 2 \/ i = 3 \/ i = 4 \/ i = 5
                       \/ i = 6 \/ i = 7 \/ i = 8 \/ i = 9
  OBVIOUS
<1> QED
  BY <1>1, <1>2, <1>3, <1>4, Accounts, AmountsNat
     DEF Ordered, WellTyped, Follows, Announces, Step, T

LEMMA PayoutNat ==
  ASSUME price \in [Tokens -> UInt], NEW t \in Tokens, NEW b \in UInt
  PROVE  Payout(t, b) \in Nat
<1> DEFINE reward == IF FeedPrice(t) = 0 THEN 0 ELSE TokenAmountFromINR(t, b)
<1>1. FeedPrice(t) \in Nat
  <2>1. price[t] \in Nat /\ 10 ^ (MAX_DECIMALS - FeedDecimals[t]) \in Nat
    BY AmountsNat, FeedAssumption
  <2> QED
    BY <2>1, MultNat DEF FeedPrice
<1>2. reward \in Nat
  <2>1. b * PRECISION \in Nat
    BY AmountsNat, PrecisionAssumption, MultNat
  <2> QED
    BY <1>1, <2>1, DivIsNat DEF TokenAmountFromINR
<1>3. LiquidationBonus(reward) \in Nat
  <2> HIDE DEF reward
  <2>1. reward * LIQUIDATION_BONUS \in Nat
    BY <1>2 DEF LIQUIDATION_BONUS
  <2> QED
    BY <2>1, DivIsNat DEF LiquidationBonus, LIQUIDATION_PRECISION
<1>4. Payout(t, b) = reward + LiquidationBonus(reward)
  BY DEF Payout
<1> HIDE DEF reward
<1> QED
  BY <1>2, <1>3, <1>4

LEMMA Kinds ==
  ASSUME NEW u, NEW T \in Transactions(u)
  PROVE  IsTransaction(T, u)
<1>1. CASE \E t \in Tokens, a \in CollateralAmounts : T = DepositSteps(u, t, a)
  BY <1>1, DepositShape DEF IsTransaction
<1>2. CASE \E t \in Tokens, a \in CollateralAmounts : T = RedeemSteps(u, t, a)
  BY <1>2, RedeemShape DEF IsTransaction
<1>3. CASE \E t \in Tokens, b \in CoinAmounts : T = MintSteps(u, t, b)
  BY <1>3, MintShape DEF IsTransaction
<1>4. CASE \E t \in Tokens, b \in CoinAmounts : T = BurnSteps(u, t, b)
  BY <1>4, BurnShape DEF IsTransaction
<1>5. CASE \E t \in Tokens, a \in CollateralAmounts, b \in CoinAmounts :
             T = DepositSteps(u, t, a) \o MintSteps(u, t, b)
  BY <1>5, DepositMintShape DEF IsTransaction
<1>6. CASE \E t \in Tokens, a \in CollateralAmounts, b \in CoinAmounts :
             T = BurnSteps(u, t, b) \o RedeemSteps(u, t, a)
  BY <1>6, BurnRedeemShape DEF IsTransaction
<1>7. CASE \E v \in Users, t \in Tokens, b \in CoinAmounts : T = LiquidateSteps(u, v, t, b)
  BY <1>7, LiquidateShape DEF IsTransaction
<1> QED
  BY <1>1, <1>2, <1>3, <1>4, <1>5, <1>6, <1>7 DEF Transactions

\* When a transaction begins nothing is under way.
LEMMA BeginsEven ==
  ASSUME NEW u \in Users, price \in [Tokens -> UInt], NEW T \in Transactions(u)
  PROVE  /\ Ordered(T)
         /\ \A t \in Tokens : ToPull(T, t) = 0 /\ ToPush(T, t) = 0
         /\ ToMint(T) = 0 /\ ToBurn(T) = 0
<1> DEFINE Even == /\ T[1].op \in {"require", "checkHealth"}
                   /\ T[2].op # "mintCoin"
<1>1. Ordered(T) /\ Even
  <2>1. ASSUME NEW t \in Tokens, NEW a \in CollateralAmounts, T = DepositSeries(u, t, a)
        PROVE  <1>1!:
    BY <2>1, AmountsNat, DepositOrdered DEF DepositSeries, Step
  <2>2. ASSUME NEW t \in Tokens, NEW a \in CollateralAmounts, T = RedeemSeries(u, t, a)
        PROVE  <1>1!:
    BY <2>2, AmountsNat, RedeemOrdered DEF RedeemSeries, Step
  <2>3. ASSUME NEW t \in Tokens, NEW b \in CoinAmounts, T = MintSeries(u, t, b)
        PROVE  <1>1!:
    BY <2>3, AmountsNat, MintOrdered DEF MintSeries, Step
  <2>4. ASSUME NEW t \in Tokens, NEW b \in CoinAmounts, T = BurnSeries(u, t, b)
        PROVE  <1>1!:
    BY <2>4, AmountsNat, BurnOrdered DEF BurnSeries, Step
  <2>5. ASSUME NEW t \in Tokens, NEW a \in CollateralAmounts, NEW b \in CoinAmounts,
               T = DepositMintSeries(u, t, a, b)
        PROVE  <1>1!:
    BY <2>5, AmountsNat, DepositMintOrdered DEF DepositMintSeries, Step
  <2>6. ASSUME NEW t \in Tokens, NEW a \in CollateralAmounts, NEW b \in CoinAmounts,
               T = BurnRedeemSeries(u, t, a, b)
        PROVE  <1>1!:
    BY <2>6, AmountsNat, BurnRedeemOrdered DEF BurnRedeemSeries, Step
  <2>7. ASSUME NEW v \in Users, NEW t \in Tokens, NEW b \in CoinAmounts,
               T = LiquidateSeries(u, v, t, Payout(t, b), b)
        PROVE  <1>1!:
    <3>1. Payout(t, b) \in Nat /\ b \in UInt
      BY AmountsNat, PayoutNat
    <3> QED
      BY <2>7, <3>1, LiquidateOrdered DEF LiquidateSeries, Step
  <2> QED
    BY <2>1, <2>2, <2>3, <2>4, <2>5, <2>6, <2>7, Kinds DEF IsTransaction
<1> QED
  BY <1>1 DEF ToPull, ToPush, ToMint, ToBurn

-----------------------------------------------------------------------------
(* One call after the other.                                               *)

LEMMA UnderWayNat ==
  ASSUME NEW q, Ordered(q)
  PROVE  /\ \A t \in Tokens : ToPull(q, t) \in Nat /\ ToPush(q, t) \in Nat
         /\ ToMint(q) \in Nat /\ ToBurn(q) \in Nat
<1>1. q \in Seq(CallSteps) /\ Len(q) \in Nat /\ (q # <<>> => Len(q) > 0)
  BY DEF Ordered
<1>2. \A i \in 1 .. Len(q) : q[i].amount \in Nat
  <2>1. \A i \in 1 .. Len(q) : q[i] \in CallSteps
    BY <1>1
  <2> QED
    BY <2>1 DEF CallSteps
<1>3. /\ q # <<>> => q[1].amount \in Nat
      /\ Len(q) > 1 => q[2].amount \in Nat
  BY <1>1, <1>2
<1> QED
  BY <1>3 DEF ToPull, ToPush, ToMint, ToBurn

\* What the invariant says in terms of numbers.
LEMMA Numbers ==
  ASSUME TypesOK
  PROVE  /\ \A t \in Tokens : /\ tokens[t].balances[Engine] \in Nat
                              /\ Deposited(t) \in Nat
                              /\ Sound(tokens[t])
         /\ \A u \in Users, t \in Tokens : s_collateralDeposited[u][t] \in UInt
         /\ \A u \in Users : s_coinMinted[u] \in UInt
         /\ coin.totalSupply \in Nat
         /\ TotalMinted \in Nat
         /\ UInt = 0 .. MaxUint /\ MaxUint \in Nat
<1>1. \A t \in Tokens : Sound(tokens[t]) /\ tokens[t].balances[Engine] \in Nat
  BY Accounts, BalancesAreInt DEF TypesOK, TokensSound
<1>2. coin.totalSupply \in Nat
  BY Accounts, BalancesAreInt DEF TypesOK, CoinIInv
<1>3. PositionsTypeOK
  BY DEF TypesOK
<1> QED
  BY <1>1, <1>2, <1>3, TotalsInt, AmountsNat DEF PositionsTypeOK

LEMMA AtRest ==
  ASSUME TypesOK, CustodyUnderWay, DebtUnderWay, ~Running
  PROVE  EngineIInv
<1>1. /\ \A t \in Tokens : ToPull(steps, t) = 0 /\ ToPush(steps, t) = 0
      /\ ToBurn(steps) = 0 /\ ToMint(steps) = 0
  BY DEF Running, ToPull, ToPush, ToBurn, ToMint
<1>2. CollateralInCustody
  BY <1>1, Numbers DEF CustodyUnderWay, CollateralInCustody
<1>3. SupplyIsOwed
  BY <1>1, Numbers DEF DebtUnderWay, SupplyIsOwed
<1> QED
  BY <1>2, <1>3 DEF EngineIInv, TypesOK

LEMMA RestIsSettled ==
  ASSUME EngineIInv
  PROVE  Settled(s_collateralDeposited, s_coinMinted, tokens, coin, owner)
BY DEF EngineIInv, Settled, CoinIInv, PositionsTypeOK, TokensSound, CollateralInCustody,
       SupplyIsOwed, Deposited, TotalMinted

LEMMA ContinueCustody ==
  ASSUME TypesOK, Ordered(steps), CustodyUnderWay, Continue
  PROVE  /\ s_collateralDeposited' \in [Users -> [Tokens -> UInt]]
         /\ TokensSound'
         /\ CustodyUnderWay'
<1> DEFINE s == Head(steps)
           n == s.amount
<1>1. /\ steps # <<>>
      /\ Succeeds(s) /\ Records(s) /\ Calls(s)
      /\ steps' = Tail(steps)
  BY DEF Continue, Running
<1>2. /\ s \in CallSteps /\ WellTyped(s) /\ s = steps[1]
      /\ \A t \in Tokens :
           /\ ToPull(steps', t) = IF s.op = "recordDeposit" /\ s.t = t THEN n ELSE 0
           /\ ToPush(steps', t) = IF s.op = "recordRelease" /\ s.t = t THEN n ELSE 0
  BY <1>1, Settling
<1> HIDE DEF s
<1>3. \A t \in Tokens :
        /\ ToPull(steps, t) = IF s.op = "pullToken" /\ s.t = t THEN n ELSE 0
        /\ ToPush(steps, t) = IF s.op = "pushToken" /\ s.t = t THEN n ELSE 0
  BY <1>1, <1>2 DEF ToPull, ToPush
<1>4. s.t \in Tokens /\ n \in Nat
  BY <1>2 DEF CallSteps
<1>5. /\ \A t \in Tokens : /\ tokens[t].balances[Engine] \in Nat
                           /\ Deposited(t) \in Nat
                           /\ Sound(tokens[t])
                           /\ tokens[t].balances[Engine] + ToPull(steps, t) - ToPush(steps, t)
                                >= Deposited(t)
      /\ tokens \in [Tokens -> Ledger] /\ PositionsTypeOK
      /\ UInt = 0 .. MaxUint /\ MaxUint \in Nat
  BY Numbers DEF CustodyUnderWay, TypesOK, TokensSound
<1> HIDE DEF n
<1>14. ASSUME \A t \in Tokens : tokens'[t].balances[Engine] + ToPull(steps', t) - ToPush(steps', t)
                                  >= Deposited(t)'
       PROVE  CustodyUnderWay'
  BY <1>14 DEF CustodyUnderWay, ToPull, ToPush
<1>6. ASSUME UNCHANGED tokens
      PROVE  TokensSound' /\ \A t \in Tokens : tokens'[t].balances[Engine] = tokens[t].balances[Engine]
  BY <1>6 DEF TypesOK, TokensSound
<1>7. ASSUME UNCHANGED s_collateralDeposited
      PROVE  /\ s_collateralDeposited' \in [Users -> [Tokens -> UInt]]
             /\ \A t \in Tokens : Deposited(t)' = Deposited(t)
  BY <1>5, <1>7 DEF PositionsTypeOK, Deposited
<1>8. ASSUME NEW m, Sound(m), tokens' = [tokens EXCEPT ![s.t] = m]
      PROVE  /\ TokensSound'
             /\ m.balances[Engine] \in Nat
             /\ \A t \in Tokens : tokens'[t] = IF t = s.t THEN m ELSE tokens[t]
  <2>1. m \in Ledger /\ m.balances[Engine] \in Nat
    BY <1>8, Accounts, BalancesAreInt DEF Sound
  <2>2. tokens' \in [Tokens -> Ledger]
        /\ \A t \in Tokens : tokens'[t] = IF t = s.t THEN m ELSE tokens[t]
    BY <1>4, <1>5, <1>8, <2>1
  <2> QED
    BY <1>5, <1>8, <2>1, <2>2 DEF TokensSound
<1>9. CASE s.op = "recordDeposit"
  <2> DEFINE k == s_collateralDeposited[s.from][s.t] + n
  <2>1. /\ s_collateralDeposited' = [s_collateralDeposited EXCEPT ![s.from][s.t] = k]
        /\ UNCHANGED tokens
        /\ k <= MaxUint /\ s.from \in Users
    BY <1>1, <1>2, <1>5, <1>9 DEF Records, Calls, Succeeds, WellTyped, PositionsTypeOK, n
  <2>2. s_collateralDeposited[s.from][s.t] \in UInt /\ k \in UInt
    BY <1>4, <1>5, <2>1, Numbers
  <2>3. /\ s_collateralDeposited' \in [Users -> [Tokens -> UInt]]
        /\ \A t \in Tokens :
             Deposited(t)' = IF t = s.t THEN Deposited(t) - s_collateralDeposited[s.from][s.t] + k
                                        ELSE Deposited(t)
    <3>1. PositionsTypeOK /\ s.from \in Users /\ s.t \in Tokens /\ k \in UInt
      BY <1>4, <1>5, <2>1, <2>2
    <3>2. s_collateralDeposited' = [s_collateralDeposited EXCEPT ![s.from][s.t] = k]
      BY <2>1
    <3> HIDE DEF k
    <3> QED
      BY <3>1, <3>2, DepositedUpdate
  <2>4. \A t \in Tokens : Deposited(t)' = IF t = s.t THEN Deposited(t) + n ELSE Deposited(t)
    BY <1>4, <1>5, <2>2, <2>3
  <2> QED
    BY <1>2, <1>3, <1>4, <1>5, <1>6, <1>9, <2>1, <2>3, <2>4, <1>14
<1>10. CASE s.op = "recordRelease"
  <2> DEFINE k == s_collateralDeposited[s.from][s.t] - n
  <2>1. /\ s_collateralDeposited' = [s_collateralDeposited EXCEPT ![s.from][s.t] = k]
        /\ UNCHANGED tokens
        /\ n <= s_collateralDeposited[s.from][s.t] /\ s.from \in Users
    BY <1>1, <1>2, <1>5, <1>10 DEF Records, Calls, Succeeds, WellTyped, PositionsTypeOK, n
  <2>2. s_collateralDeposited[s.from][s.t] \in UInt /\ k \in UInt
    BY <1>4, <1>5, <2>1, Numbers
  <2>3. /\ s_collateralDeposited' \in [Users -> [Tokens -> UInt]]
        /\ \A t \in Tokens :
             Deposited(t)' = IF t = s.t THEN Deposited(t) - s_collateralDeposited[s.from][s.t] + k
                                        ELSE Deposited(t)
    <3>1. PositionsTypeOK /\ s.from \in Users /\ s.t \in Tokens /\ k \in UInt
      BY <1>4, <1>5, <2>1, <2>2
    <3>2. s_collateralDeposited' = [s_collateralDeposited EXCEPT ![s.from][s.t] = k]
      BY <2>1
    <3> HIDE DEF k
    <3> QED
      BY <3>1, <3>2, DepositedUpdate
  <2>4. \A t \in Tokens : Deposited(t)' = IF t = s.t THEN Deposited(t) - n ELSE Deposited(t)
    BY <1>4, <1>5, <2>2, <2>3
  <2> QED
    BY <1>2, <1>3, <1>4, <1>5, <1>6, <1>10, <2>1, <2>3, <2>4, <1>14
<1>11. CASE s.op = "pullToken"
  <2> DEFINE m == TransferredFrom(tokens[s.t], Engine, s.from, Engine, n)
  <2>1. /\ tokens' = [tokens EXCEPT ![s.t] = m]
        /\ UNCHANGED s_collateralDeposited
        /\ CanTransferFrom(tokens[s.t], Engine, s.from, Engine, n)
        /\ s.from \in Users /\ n \in UInt
    BY <1>1, <1>2, <1>4, <1>5, <1>11 DEF Records, Calls, Succeeds, WellTyped, n
  <2>2. Sound(m) /\ m.balances[Engine] = tokens[s.t].balances[Engine] + n
    BY <1>4, <1>5, <2>1, Accounts, TransferredFromIsSound
  <2> HIDE DEF m
  <2>3. /\ TokensSound' /\ m.balances[Engine] \in Nat
        /\ \A t \in Tokens : tokens'[t] = IF t = s.t THEN m ELSE tokens[t]
    BY <2>1, <2>2, <1>8
  <2>4. /\ s_collateralDeposited' \in [Users -> [Tokens -> UInt]]
        /\ \A t \in Tokens : Deposited(t)' = Deposited(t)
    BY <2>1, <1>7
  <2>5. ASSUME NEW t \in Tokens
        PROVE  tokens'[t].balances[Engine] + ToPull(steps', t) - ToPush(steps', t)
                 >= Deposited(t)'
    <3>1. /\ ToPull(steps', t) = 0 /\ ToPush(steps', t) = 0
          /\ ToPull(steps, t) = (IF s.t = t THEN n ELSE 0) /\ ToPush(steps, t) = 0
          /\ Deposited(t)' = Deposited(t) /\ Deposited(t) \in Nat
          /\ tokens[t].balances[Engine] \in Nat
          /\ tokens[t].balances[Engine] + ToPull(steps, t) - ToPush(steps, t) >= Deposited(t)
      BY <1>2, <1>3, <1>5, <1>11, <2>4
    <3>2. CASE t = s.t
      <4>1. tokens'[t].balances[Engine] = tokens[t].balances[Engine] + n
        BY <2>2, <2>3, <3>2
      <4> QED
        BY <1>4, <3>1, <3>2, <4>1
    <3>3. CASE t # s.t
      <4>1. tokens'[t].balances[Engine] = tokens[t].balances[Engine]
        BY <2>3, <3>3
      <4> QED
        BY <3>1, <3>3, <4>1
    <3> QED
      BY <3>2, <3>3
  <2> QED
    BY <2>3, <2>4, <2>5, <1>14
<1>12. CASE s.op = "pushToken"
  <2> DEFINE m == Transferred(tokens[s.t], Engine, s.to, n)
  <2>1. /\ tokens' = [tokens EXCEPT ![s.t] = m]
        /\ UNCHANGED s_collateralDeposited
        /\ CanTransfer(tokens[s.t], Engine, s.to, n)
        /\ s.to \in Users
    BY <1>1, <1>2, <1>4, <1>5, <1>12 DEF Records, Calls, Succeeds, WellTyped, n
  <2>2. n \in UInt
    <3>1. tokens[s.t].balances[Engine] \in UInt
      BY <1>4, <1>5, Accounts DEF Ledger
    <3> QED
      BY <1>4, <1>5, <2>1, <3>1 DEF CanTransfer
  <2>3. Sound(m) /\ m.balances[Engine] = tokens[s.t].balances[Engine] - n
    BY <1>4, <1>5, <2>1, <2>2, Accounts, TransferredIsSound
  <2> HIDE DEF m
  <2>4. /\ TokensSound' /\ m.balances[Engine] \in Nat
        /\ \A t \in Tokens : tokens'[t] = IF t = s.t THEN m ELSE tokens[t]
    BY <2>1, <2>3, <1>8
  <2>5. /\ s_collateralDeposited' \in [Users -> [Tokens -> UInt]]
        /\ \A t \in Tokens : Deposited(t)' = Deposited(t)
    BY <2>1, <1>7
  <2>6. ASSUME NEW t \in Tokens
        PROVE  tokens'[t].balances[Engine] + ToPull(steps', t) - ToPush(steps', t)
                 >= Deposited(t)'
    <3>1. /\ ToPull(steps', t) = 0 /\ ToPush(steps', t) = 0
          /\ ToPull(steps, t) = 0 /\ ToPush(steps, t) = (IF s.t = t THEN n ELSE 0)
          /\ Deposited(t)' = Deposited(t) /\ Deposited(t) \in Nat
          /\ tokens[t].balances[Engine] \in Nat
          /\ tokens[t].balances[Engine] + ToPull(steps, t) - ToPush(steps, t) >= Deposited(t)
      BY <1>2, <1>3, <1>5, <1>12, <2>5
    <3>2. CASE t = s.t
      <4>1. tokens'[t].balances[Engine] = tokens[t].balances[Engine] - n
        BY <2>3, <2>4, <3>2
      <4> QED
        BY <1>4, <3>1, <3>2, <4>1
    <3>3. CASE t # s.t
      <4>1. tokens'[t].balances[Engine] = tokens[t].balances[Engine]
        BY <2>4, <3>3
      <4> QED
        BY <3>1, <3>3, <4>1
    <3> QED
      BY <3>2, <3>3
  <2> QED
    BY <2>4, <2>5, <2>6, <1>14
<1>13. CASE s.op \notin {"recordDeposit", "recordRelease", "pullToken", "pushToken"}
  <2>1. UNCHANGED <<s_collateralDeposited, tokens>>
    BY <1>1, <1>13 DEF Records, Calls
  <2> QED
    BY <1>2, <1>3, <1>5, <1>6, <1>7, <1>13, <2>1, <1>14
<1> QED
  BY <1>9, <1>10, <1>11, <1>12, <1>13

LEMMA ContinueDebt ==
  ASSUME TypesOK, Ordered(steps), DebtUnderWay, Continue
  PROVE  /\ s_coinMinted' \in [Users -> UInt]
         /\ CoinIInv'
         /\ DebtUnderWay'
<1> DEFINE s == Head(steps)
           n == s.amount
<1>1. /\ steps # <<>>
      /\ Succeeds(s) /\ Records(s) /\ Calls(s)
      /\ steps' = Tail(steps)
  BY DEF Continue, Running
<1>2. /\ s \in CallSteps /\ WellTyped(s) /\ s = steps[1]
      /\ ToBurn(steps') = IF s.op \in {"recordRepayment", "pullCoin"} THEN n ELSE 0
      /\ ToMint(steps') = IF s.op = "recordDebt" THEN n
                          ELSE IF s.op = "checkHealth" THEN ToMint(steps) ELSE 0
  BY <1>1, Settling
<1> HIDE DEF s
<1>3. /\ ToBurn(steps) = IF s.op \in {"pullCoin", "burnCoin"} THEN n ELSE 0
      /\ s.op = "mintCoin" => ToMint(steps) = n
      /\ ToMint(steps) \in Nat
  <2>1. ToMint(steps) \in Nat
    BY UnderWayNat
  <2> QED
    BY <1>1, <1>2, <2>1 DEF ToBurn, ToMint
<1>4. n \in Nat /\ (s.op # "recordRelease" /\ s.op # "pushToken" => n \in UInt)
  BY <1>2 DEF CallSteps, WellTyped
<1>5. /\ \A u \in Users : s_coinMinted[u] \in UInt
      /\ coin.totalSupply \in Nat /\ TotalMinted \in Nat
      /\ coin.totalSupply + ToMint(steps) <= TotalMinted + ToBurn(steps)
      /\ PositionsTypeOK /\ Sound(coin) /\ owner \in Addresses
      /\ owner' = owner
      /\ UInt = 0 .. MaxUint /\ MaxUint \in Nat
  BY <1>1, Numbers DEF DebtUnderWay, TypesOK, CoinIInv, Calls
<1> HIDE DEF n
<1>6. ASSUME coin'.totalSupply + ToMint(steps') <= TotalMinted' + ToBurn(steps')
      PROVE  DebtUnderWay'
  BY <1>6 DEF DebtUnderWay, ToMint, ToBurn
<1>7. ASSUME UNCHANGED coin
      PROVE  CoinIInv' /\ coin'.totalSupply = coin.totalSupply
  BY <1>5, <1>7 DEF CoinIInv
<1>8. ASSUME UNCHANGED s_coinMinted
      PROVE  s_coinMinted' \in [Users -> UInt] /\ TotalMinted' = TotalMinted
  BY <1>5, <1>8 DEF PositionsTypeOK, TotalMinted
<1>9. CASE s.op = "recordDebt"
  <2> DEFINE k == s_coinMinted[s.from] + n
  <2>1. /\ s_coinMinted' = [s_coinMinted EXCEPT ![s.from] = k]
        /\ UNCHANGED coin
        /\ k <= MaxUint /\ s.from \in Users
    BY <1>1, <1>2, <1>5, <1>9 DEF Records, Calls, Succeeds, WellTyped, PositionsTypeOK, n
  <2>2. s_coinMinted[s.from] \in UInt /\ k \in UInt
    BY <1>4, <1>5, <2>1
  <2>3. /\ s_coinMinted' \in [Users -> UInt]
        /\ TotalMinted' = TotalMinted - s_coinMinted[s.from] + k
    <3> HIDE DEF k
    <3> QED
      BY <1>5, <2>1, <2>2, MintedUpdate
  <2>4. TotalMinted' = TotalMinted + n
    BY <1>4, <1>5, <2>2, <2>3
  <2> QED
    BY <1>2, <1>3, <1>4, <1>5, <1>6, <1>7, <1>9, <2>1, <2>3, <2>4
<1>10. CASE s.op = "recordRepayment"
  <2> DEFINE k == s_coinMinted[s.from] - n
  <2>1. /\ s_coinMinted' = [s_coinMinted EXCEPT ![s.from] = k]
        /\ UNCHANGED coin
        /\ n <= s_coinMinted[s.from] /\ s.from \in Users
    BY <1>1, <1>2, <1>5, <1>10 DEF Records, Calls, Succeeds, WellTyped, PositionsTypeOK, n
  <2>2. s_coinMinted[s.from] \in UInt /\ k \in UInt
    BY <1>4, <1>5, <2>1
  <2>3. /\ s_coinMinted' \in [Users -> UInt]
        /\ TotalMinted' = TotalMinted - s_coinMinted[s.from] + k
    <3> HIDE DEF k
    <3> QED
      BY <1>5, <2>1, <2>2, MintedUpdate
  <2>4. TotalMinted' = TotalMinted - n
    BY <1>4, <1>5, <2>2, <2>3
  <2> QED
    BY <1>2, <1>3, <1>4, <1>5, <1>6, <1>7, <1>10, <2>1, <2>3, <2>4
<1>11. CASE s.op = "mintCoin"
  <2>1. /\ coin' = Minted(coin, s.to, n)
        /\ UNCHANGED s_coinMinted
        /\ CanMint(coin, s.to, n)
        /\ s.to \in Users
    BY <1>1, <1>2, <1>11 DEF Records, Calls, Succeeds, WellTyped, n
  <2>2. Sound(coin') /\ coin'.totalSupply = coin.totalSupply + n
    BY <1>4, <1>5, <1>11, <2>1, Accounts, MintedIsSound
  <2> QED
    BY <1>2, <1>3, <1>4, <1>5, <1>6, <1>8, <1>11, <2>1, <2>2 DEF CoinIInv
<1>12. CASE s.op = "pullCoin"
  <2>1. /\ coin' = TransferredFrom(coin, Engine, s.from, Engine, n)
        /\ UNCHANGED s_coinMinted
        /\ CanTransferFrom(coin, Engine, s.from, Engine, n)
        /\ s.from \in Users
    BY <1>1, <1>2, <1>12 DEF Records, Calls, Succeeds, WellTyped, n
  <2>2. Sound(coin') /\ coin'.totalSupply = coin.totalSupply
    BY <1>4, <1>5, <1>12, <2>1, Accounts, TransferredFromIsSound
  <2> QED
    BY <1>2, <1>3, <1>4, <1>5, <1>6, <1>8, <1>12, <2>1, <2>2 DEF CoinIInv
<1>13. CASE s.op = "burnCoin"
  <2>1. /\ coin' = Burned(coin, Engine, n)
        /\ UNCHANGED s_coinMinted
        /\ CanBurn(coin, Engine, n)
    BY <1>1, <1>2, <1>13 DEF Records, Calls, Succeeds, CanOwnerBurn, n
  <2>2. Sound(coin') /\ coin'.totalSupply = coin.totalSupply - n
    BY <1>4, <1>5, <1>13, <2>1, Accounts, BurnedIsSound
  <2> QED
    BY <1>2, <1>3, <1>4, <1>5, <1>6, <1>8, <1>13, <2>1, <2>2 DEF CoinIInv
<1>14. CASE s.op \notin {"recordDebt", "recordRepayment", "mintCoin", "pullCoin", "burnCoin"}
  <2>1. UNCHANGED <<s_coinMinted, coin>>
    BY <1>1, <1>14 DEF Records, Calls
  <2> QED
    BY <1>2, <1>3, <1>5, <1>6, <1>7, <1>8, <1>14, <2>1
<1> QED
  BY <1>9, <1>10, <1>11, <1>12, <1>13, <1>14

\* Where nothing runs nothing is under way.
LEMMA RestIsEven ==
  ASSUME EngineIInv, steps = <<>>
  PROVE  TypesOK /\ Ordered(steps) /\ CustodyUnderWay /\ DebtUnderWay
<1>1. /\ \A t \in Tokens : ToPull(steps, t) = 0 /\ ToPush(steps, t) = 0
      /\ ToBurn(steps) = 0 /\ ToMint(steps) = 0
  BY DEF ToPull, ToPush, ToBurn, ToMint
<1>2. TypesOK
  BY DEF EngineIInv, TypesOK
<1>3. CustodyUnderWay
  BY <1>1, EngineBalances DEF CustodyUnderWay
<1>4. DebtUnderWay
  BY <1>1, EngineBalances DEF DebtUnderWay
<1>5. Ordered(steps)
  BY DEF Ordered
<1> QED
  BY <1>2, <1>3, <1>4, <1>5

\* The same facts, of the next state.
LEMMA AtRestNext ==
  (TypesOK /\ CustodyUnderWay /\ DebtUnderWay /\ ~Running => EngineIInv)'
<1>1. TypesOK /\ CustodyUnderWay /\ DebtUnderWay /\ ~Running => EngineIInv
  BY AtRest
<1> QED
  BY <1>1, PTL

LEMMA RestIsSettledNext ==
  (EngineIInv => Settled(s_collateralDeposited, s_coinMinted, tokens, coin, owner))'
<1>1. EngineIInv => Settled(s_collateralDeposited, s_coinMinted, tokens, coin, owner)
  BY RestIsSettled
<1> QED
  BY <1>1, PTL

LEMMA RestIsEvenNext ==
  (EngineIInv /\ steps = <<>> =>
     TypesOK /\ Ordered(steps) /\ CustodyUnderWay /\ DebtUnderWay)'
<1>1. EngineIInv /\ steps = <<>> =>
        TypesOK /\ Ordered(steps) /\ CustodyUnderWay /\ DebtUnderWay
  BY RestIsEven
<1> QED
  BY <1>1, PTL

\* A step that ends between transactions, in a good state.
LEMMA EndsWell ==
  ASSUME EngineIInv', steps' = <<>>,
         saved' = storage' \/ (UNCHANGED saved /\ CallsIInv)
  PROVE  CallsIInv'
<1>1. TypesOK' /\ Ordered(steps)' /\ CustodyUnderWay' /\ DebtUnderWay'
  BY RestIsEvenNext
<1>2. Settled(saved[1], saved[2], saved[3], saved[4], saved[5])'
  <2>1. CASE saved' = storage'
    <3>1. /\ saved'[1] = s_collateralDeposited' /\ saved'[2] = s_coinMinted'
          /\ saved'[3] = tokens' /\ saved'[4] = coin' /\ saved'[5] = owner'
      BY <2>1 DEF storage
    <3> QED
      BY <3>1, RestIsSettledNext DEF Settled
  <2>2. CASE UNCHANGED saved /\ CallsIInv
    BY <2>2 DEF CallsIInv, Settled
  <2> QED
    BY <2>1, <2>2
<1> QED
  BY <1>1, <1>2 DEF CallsIInv

-----------------------------------------------------------------------------
(* The specification.                                                      *)

LEMMA CallsInitIInv ==
  ASSUME CallsInit
  PROVE  CallsIInv
<1>1. EngineIInv /\ steps = <<>> /\ saved = storage
  BY InitIInv DEF CallsInit
<1>2. TypesOK /\ Ordered(steps) /\ CustodyUnderWay /\ DebtUnderWay
  BY <1>1, RestIsEven
<1>3. /\ saved[1] = s_collateralDeposited /\ saved[2] = s_coinMinted
      /\ saved[3] = tokens /\ saved[4] = coin /\ saved[5] = owner
  BY <1>1 DEF storage
<1> QED
  BY <1>1, <1>2, <1>3, RestIsSettled DEF CallsIInv, Settled

LEMMA BeginIsGood ==
  ASSUME CallsIInv, NEW u \in Users, Begin(u)
  PROVE  CallsIInv'
<1>1. PICK T \in Transactions(u) : steps' = T
  BY DEF Begin
<1>2. /\ UNCHANGED vars /\ saved' = storage /\ ~Running
      /\ TypesOK /\ CustodyUnderWay /\ DebtUnderWay
  BY DEF Begin, CallsIInv
<1>3. /\ Ordered(T)
      /\ \A t \in Tokens : ToPull(T, t) = 0 /\ ToPush(T, t) = 0
      /\ ToMint(T) = 0 /\ ToBurn(T) = 0
  BY <1>1, <1>2, BeginsEven DEF TypesOK
<1>4. EngineIInv
  BY <1>2, AtRest
<1>5. /\ UNCHANGED <<s_collateralDeposited, s_coinMinted, tokens, price, coin, owner>>
      /\ \A t \in Tokens : Deposited(t)' = Deposited(t)
      /\ TotalMinted' = TotalMinted
  BY <1>2 DEF vars, engineVars, coinVars, Deposited, TotalMinted
<1>6. TypesOK' /\ Ordered(steps)'
  BY <1>1, <1>2, <1>3, <1>5 DEF TypesOK, CoinIInv, PositionsTypeOK, TokensSound
<1>7. CustodyUnderWay'
  <2>1. \A t \in Tokens : /\ ToPull(steps, t)' = 0 /\ ToPush(steps, t)' = 0
                          /\ tokens'[t].balances[Engine] >= Deposited(t)'
                          /\ tokens'[t].balances[Engine] \in Nat
    BY <1>1, <1>3, <1>4, <1>5, EngineBalances DEF ToPull, ToPush
  <2> QED
    BY <2>1 DEF CustodyUnderWay
<1>8. DebtUnderWay'
  <2>1. /\ ToMint(steps)' = 0 /\ ToBurn(steps)' = 0
        /\ coin'.totalSupply <= TotalMinted'
        /\ coin'.totalSupply \in Nat /\ TotalMinted' \in Nat
    BY <1>1, <1>3, <1>4, <1>5, EngineBalances DEF ToMint, ToBurn
  <2> QED
    BY <2>1 DEF DebtUnderWay
<1>9. /\ saved'[1] = s_collateralDeposited /\ saved'[2] = s_coinMinted
      /\ saved'[3] = tokens /\ saved'[4] = coin /\ saved'[5] = owner
  BY <1>2 DEF storage
<1> QED
  BY <1>4, <1>6, <1>7, <1>8, <1>9, RestIsSettled DEF CallsIInv, Settled

LEMMA ContinueIsGood ==
  ASSUME CallsIInv, Continue
  PROVE  CallsIInv'
<1>1. /\ TypesOK /\ Ordered(steps) /\ CustodyUnderWay /\ DebtUnderWay
      /\ steps # <<>> /\ steps' = Tail(steps) /\ UNCHANGED price
  BY DEF CallsIInv, Continue, Running
<1>2. TypesOK' /\ CustodyUnderWay' /\ DebtUnderWay'
  BY <1>1, ContinueCustody, ContinueDebt DEF TypesOK, PositionsTypeOK
<1>3. Ordered(steps)'
  BY <1>1, Settling
<1>4. CASE Len(steps) = 1
  <2>1. steps' = <<>> /\ saved' = storage'
    BY <1>1, <1>4, Rest DEF Ordered, Continue
  <2>2. EngineIInv'
    BY <1>2, <2>1, AtRestNext DEF Running
  <2> QED
    BY <2>1, <2>2, EndsWell
<1>5. CASE Len(steps) # 1
  <2>1. UNCHANGED saved
    BY <1>5 DEF Continue
  <2> QED
    BY <1>2, <1>3, <2>1 DEF CallsIInv, Settled
<1> QED
  BY <1>4, <1>5

LEMMA RevertIsGood ==
  ASSUME CallsIInv, Revert
  PROVE  CallsIInv'
<1>1. /\ s_collateralDeposited' = saved[1] /\ s_coinMinted' = saved[2]
      /\ tokens' = saved[3] /\ coin' = saved[4] /\ owner' = saved[5]
      /\ UNCHANGED <<price, saved>> /\ steps' = <<>>
  BY DEF Revert, Undo
<1>2. EngineIInv'
  BY <1>1 DEF CallsIInv, TypesOK, Settled, EngineIInv, CoinIInv, PositionsTypeOK, TokensSound,
     CollateralInCustody, SupplyIsOwed, Deposited, TotalMinted
<1> QED
  BY <1>1, <1>2, EndsWell

LEMMA ElsewhereIsGood ==
  ASSUME CallsIInv, Elsewhere
  PROVE  CallsIInv'
<1>1. EngineIInv
  BY AtRest DEF Elsewhere, CallsIInv
<1>2. Next
  BY DEF Elsewhere, Next
<1>3. EngineIInv'
  BY <1>1, <1>2, NextIsGood DEF GoodStep
<1>4. steps' = <<>> /\ saved' = storage'
  BY DEF Elsewhere, Running
<1> QED
  BY <1>3, <1>4, EndsWell

LEMMA CallsUnchanged ==
  ASSUME CallsIInv, UNCHANGED callVars
  PROVE  CallsIInv'
<1>1. UNCHANGED <<s_collateralDeposited, s_coinMinted, tokens, price, coin, owner, steps, saved>>
  BY DEF callVars, vars, engineVars, coinVars
<1> QED
  BY <1>1 DEF CallsIInv, TypesOK, CoinIInv, PositionsTypeOK, TokensSound, Ordered,
     CustodyUnderWay, DebtUnderWay, Settled, Deposited, TotalMinted,
     ToPull, ToPush, ToMint, ToBurn

LEMMA CallsInvariant == CallsSpec => []CallsIInv
<1>1. CallsInit => CallsIInv
  BY CallsInitIInv
<1>2. CallsIInv /\ [CallsNext]_callVars => CallsIInv'
  BY BeginIsGood, ContinueIsGood, RevertIsGood, ElsewhereIsGood, CallsUnchanged
     DEF CallsNext
<1> QED
  BY <1>1, <1>2, PTL DEF CallsSpec

-----------------------------------------------------------------------------
(* Payouts.  What is about to be burnt has been pulled, and from the first *)
(* debt on the coin is the engine's: while a loan is under way its debt is *)
(* on record already, so the mint to come decides.                         *)

RepaidIsAtHand ==
  /\ ToMint(steps) = 0 => EngineOwnsOwedCoin
  /\ steps # <<>> /\ steps[1].op \in {"pullCoin", "burnCoin"} /\ steps[1].amount # 0
       => owner = Engine
  /\ steps # <<>> /\ steps[1].op = "burnCoin" => coin.balances[Engine] >= steps[1].amount
  /\ \A u \in Users : saved[2][u] > 0 => saved[5] = Engine

LEMMA NextStep ==
  ASSUME NEW q, Ordered(q), q # <<>>, Tail(q) # <<>>
  PROVE  Follows(q[1], Tail(q)[1])
<1>1. q \in Seq(CallSteps) /\ Len(q) \in Nat /\ Len(q) > 1 /\ Tail(q)[1] = q[2]
  BY Rest DEF Ordered
<1> QED
  BY <1>1 DEF Ordered

\* Only a check of health and the mint itself have a mint ahead.
LEMMA NoMintAhead ==
  ASSUME NEW q, Ordered(q), q # <<>>, q[1].op \notin {"checkHealth", "mintCoin"}
  PROVE  ToMint(q) = 0
<1>1. q \in Seq(CallSteps) /\ Len(q) \in Nat
  BY DEF Ordered
<1>2. ASSUME Len(q) > 1
      PROVE  Follows(q[1], q[2])
  BY <1>1, <1>2 DEF Ordered
<1> QED
  BY <1>2 DEF ToMint, Follows

\* Between transactions.
LEMMA RestIsAtHand ==
  ASSUME EngineOwnsOwedCoin', steps' = <<>>,
         \/ saved' = storage'
         \/ UNCHANGED saved /\ RepaidIsAtHand
  PROVE  RepaidIsAtHand'
<1>1. \A u \in Users : saved'[2][u] > 0 => saved'[5] = Engine
  <2>1. CASE saved' = storage'
    <3>1. saved'[2] = s_coinMinted' /\ saved'[5] = owner'
      BY <2>1 DEF storage
    <3> QED
      BY <3>1 DEF EngineOwnsOwedCoin
  <2>2. CASE UNCHANGED saved /\ RepaidIsAtHand
    BY <2>2 DEF RepaidIsAtHand
  <2> QED
    BY <2>1, <2>2
<1> QED
  BY <1>1 DEF RepaidIsAtHand

LEMMA ContinueKeepsAtHand ==
  ASSUME CallsIInv, RepaidIsAtHand, Continue
  PROVE  RepaidIsAtHand'
<1> DEFINE s == Head(steps)
           n == s.amount
<1>1. /\ Ordered(steps) /\ steps # <<>> /\ steps' = Tail(steps)
      /\ Succeeds(s) /\ Records(s) /\ Calls(s)
      /\ Sound(coin) /\ PositionsTypeOK
      /\ owner' = owner
  BY DEF CallsIInv, TypesOK, CoinIInv, Continue, Running, Calls
<1>2. /\ s \in CallSteps /\ WellTyped(s) /\ s = steps[1]
      /\ ToMint(steps') = IF s.op = "recordDebt" THEN n
                          ELSE IF s.op = "checkHealth" THEN ToMint(steps) ELSE 0
  BY <1>1, Settling
<1>3. ASSUME steps' # <<>>
      PROVE  Follows(s, steps'[1])
  BY <1>1, <1>2, <1>3, NextStep
<1> HIDE DEF s
<1>4. n \in Nat
  BY <1>2 DEF CallSteps
<1>5. s.op \notin {"checkHealth", "mintCoin"} => EngineOwnsOwedCoin
  BY <1>1, <1>2, NoMintAhead DEF RepaidIsAtHand
<1>6. \A u \in Users : s_coinMinted[u] \in Nat
  BY <1>1, AmountsNat DEF PositionsTypeOK
<1> HIDE DEF n
<1>7. ASSUME ToMint(steps') = 0
      PROVE  EngineOwnsOwedCoin'
  <2>1. CASE s.op = "recordDebt"
    <3>1. n = 0
      BY <1>2, <1>7, <2>1
    <3>2. s_coinMinted' = [s_coinMinted EXCEPT ![s.from] = @ + n]
      BY <1>1, <2>1 DEF Records, n
    <3>3. \A u \in Users : s_coinMinted'[u] = s_coinMinted[u]
      BY <1>1, <1>6, <3>1, <3>2 DEF PositionsTypeOK
    <3>4. EngineOwnsOwedCoin
      BY <1>5, <2>1
    <3> QED
      BY <1>1, <3>3, <3>4 DEF EngineOwnsOwedCoin
  <2>2. CASE s.op = "recordRepayment"
    <3>1. s_coinMinted' = [s_coinMinted EXCEPT ![s.from] = @ - n]
      BY <1>1, <2>2 DEF Records, n
    <3>2. \A u \in Users : s_coinMinted'[u] > 0 => s_coinMinted[u] > 0
      BY <1>1, <1>4, <1>6, <3>1 DEF PositionsTypeOK
    <3>3. EngineOwnsOwedCoin
      BY <1>5, <2>2
    <3> QED
      BY <1>1, <3>2, <3>3 DEF EngineOwnsOwedCoin
  <2>3. CASE s.op = "mintCoin"
    <3>1. owner = Engine
      BY <1>1, <2>3 DEF Succeeds, OnlyOwner
    <3> QED
      BY <1>1, <3>1 DEF EngineOwnsOwedCoin
  <2>4. CASE s.op \notin {"recordDebt", "recordRepayment", "mintCoin"}
    <3>1. UNCHANGED s_coinMinted
      BY <1>1, <2>4 DEF Records
    <3>2. EngineOwnsOwedCoin
      BY <1>2, <1>5, <1>7, <2>4 DEF RepaidIsAtHand
    <3> QED
      BY <1>1, <3>1, <3>2 DEF EngineOwnsOwedCoin
  <2> QED
    BY <2>1, <2>2, <2>3, <2>4
<1>8. ASSUME steps' # <<>>, steps'[1].op \in {"pullCoin", "burnCoin"}, steps'[1].amount # 0
      PROVE  owner' = Engine
  <2>1. s.op \in {"recordRepayment", "pullCoin"} /\ n # 0
    BY <1>3, <1>8 DEF Follows, Announces, n
  <2>2. CASE s.op = "recordRepayment"
    <3>1. s.from \in Users /\ n <= s_coinMinted[s.from]
      BY <1>1, <1>2, <2>2 DEF Succeeds, WellTyped, n
    <3>2. s_coinMinted[s.from] > 0
      BY <1>4, <1>6, <2>1, <3>1
    <3> QED
      BY <1>1, <1>5, <2>2, <3>1, <3>2 DEF EngineOwnsOwedCoin
  <2>3. CASE s.op = "pullCoin"
    BY <1>1, <1>2, <2>1, <2>3 DEF RepaidIsAtHand, n
  <2> QED
    BY <2>1, <2>2, <2>3
<1>9. ASSUME steps' # <<>>, steps'[1].op = "burnCoin"
      PROVE  coin'.balances[Engine] >= steps'[1].amount
  <2>1. s.op = "pullCoin" /\ steps'[1].amount = n
    BY <1>3, <1>9 DEF Follows, Announces, n
  <2>2. /\ CanTransferFrom(coin, Engine, s.from, Engine, n)
        /\ coin' = TransferredFrom(coin, Engine, s.from, Engine, n)
        /\ s.from \in Users /\ n \in UInt
    BY <1>1, <1>2, <2>1 DEF Succeeds, Calls, WellTyped, n
  <2>3. coin'.balances[Engine] = coin.balances[Engine] + n
    BY <1>1, <2>2, Accounts, TransferredFromIsSound
  <2>4. coin.balances[Engine] \in Nat
    BY <1>1, Accounts, BalancesAreInt
  <2> QED
    BY <1>4, <2>1, <2>3, <2>4
<1>10. \A u \in Users : saved'[2][u] > 0 => saved'[5] = Engine
  <2>1. CASE Len(steps) = 1
    <3>1. steps' = <<>> /\ saved' = storage'
      BY <1>1, <2>1, Rest DEF Ordered, Continue
    <3>2. ToMint(steps') = 0
      BY <3>1 DEF ToMint
    <3>3. saved'[2] = s_coinMinted' /\ saved'[5] = owner'
      BY <3>1 DEF storage
    <3> QED
      BY <1>7, <3>2, <3>3 DEF EngineOwnsOwedCoin
  <2>2. CASE Len(steps) # 1
    BY <2>2 DEF Continue, RepaidIsAtHand
  <2> QED
    BY <2>1, <2>2
<1>11. ToMint(steps)' = ToMint(steps')
  BY DEF ToMint
<1> QED
  BY <1>7, <1>8, <1>9, <1>10, <1>11 DEF RepaidIsAtHand

LEMMA AtHandInvariant == CallsSpec => []RepaidIsAtHand
<1>1. CallsInit => RepaidIsAtHand
  <2> SUFFICES ASSUME CallsInit
               PROVE  RepaidIsAtHand
    OBVIOUS
  <2>1. s_coinMinted = [u \in Users |-> 0] /\ steps = <<>> /\ saved = storage
    BY DEF CallsInit, Init
  <2>2. EngineOwnsOwedCoin
    BY <2>1 DEF EngineOwnsOwedCoin
  <2>3. saved[2] = s_coinMinted /\ saved[5] = owner
    BY <2>1 DEF storage
  <2> QED
    BY <2>1, <2>2, <2>3 DEF RepaidIsAtHand, EngineOwnsOwedCoin
<1>2. CallsIInv /\ RepaidIsAtHand /\ [CallsNext]_callVars => RepaidIsAtHand'
  <2> SUFFICES ASSUME CallsIInv, RepaidIsAtHand, [CallsNext]_callVars
               PROVE  RepaidIsAtHand'
    OBVIOUS
  <2>1. ~Running => EngineOwnsOwedCoin
    BY DEF Running, ToMint, RepaidIsAtHand
  <2>2. ASSUME NEW u \in Users, Begin(u)
        PROVE  RepaidIsAtHand'
    <3>1. PICK T \in Transactions(u) : steps' = T
      BY <2>2 DEF Begin
    <3>2. /\ UNCHANGED <<s_coinMinted, coin, owner>> /\ saved' = storage /\ ~Running
          /\ price \in [Tokens -> UInt]
      BY <2>2 DEF Begin, vars, engineVars, coinVars, CallsIInv, TypesOK
    <3>3. T # <<>> /\ T[1].op \in {"pullCoin", "burnCoin"} => T[1].amount = 0
      BY <3>1, <3>2, BeginsEven DEF ToBurn
    <3>6. coin.balances[Engine] \in Nat
      BY Accounts, BalancesAreInt DEF CallsIInv, TypesOK, CoinIInv
    <3>4. EngineOwnsOwedCoin'
      BY <2>1, <3>2 DEF EngineOwnsOwedCoin
    <3>5. saved'[2] = s_coinMinted /\ saved'[5] = owner
      BY <3>2 DEF storage
    <3> QED
      BY <2>1, <3>1, <3>2, <3>3, <3>4, <3>5, <3>6 DEF RepaidIsAtHand, EngineOwnsOwedCoin
  <2>3. CASE Continue
    BY <2>3, ContinueKeepsAtHand
  <2>4. CASE Revert
    <3>1. /\ s_coinMinted' = saved[2] /\ owner' = saved[5]
          /\ UNCHANGED saved /\ steps' = <<>>
      BY <2>4 DEF Revert, Undo
    <3>2. EngineOwnsOwedCoin'
      BY <3>1 DEF EngineOwnsOwedCoin, RepaidIsAtHand
    <3> QED
      BY <3>1, <3>2, RestIsAtHand
  <2>5. CASE Elsewhere
    <3>1. steps' = <<>> /\ saved' = storage' /\ ~Running
      BY <2>5 DEF Elsewhere, Running
    <3>2. EngineOwnsOwedCoin'
      <4>1. CASE HandOverCoin
        BY <4>1 DEF HandOverCoin, TransferOwnership, EngineOwnsOwedCoin
      <4>2. ASSUME NEW u \in Users, UseCoin(u)
            PROVE  UNCHANGED <<s_coinMinted, owner>>
        BY <4>2 DEF UseCoin, engineVars, Transfer, Approve, BurnFrom, TransferFrom
      <4>3. ASSUME \/ \E u \in Users, t \in Tokens : UseToken(u, t)
                   \/ \E t \in Tokens : UpdateAnswer(t)
            PROVE  UNCHANGED <<s_coinMinted, owner>>
        BY <4>3 DEF UseToken, UpdateAnswer, engineVars, coinVars
      <4> QED
        BY <2>1, <2>5, <3>1, <4>1, <4>2, <4>3 DEF Elsewhere, EngineOwnsOwedCoin
    <3> QED
      BY <3>1, <3>2, RestIsAtHand
  <2>6. CASE UNCHANGED callVars
    <3>1. UNCHANGED <<s_coinMinted, coin, owner, steps, saved>>
      BY <2>6 DEF callVars, vars, engineVars, coinVars
    <3> QED
      BY <3>1 DEF RepaidIsAtHand, EngineOwnsOwedCoin, ToMint
  <2> QED
    BY <2>2, <2>3, <2>4, <2>5, <2>6 DEF CallsNext
<1> QED
  BY <1>1, <1>2, CallsInvariant, PTL DEF CallsSpec

-----------------------------------------------------------------------------
\* Whatever calls a token or the coin makes back into view functions while the
\* engine is in the middle of a transaction: it sees deposits that are covered,
\* but for those it is being asked for, and coins that are owed, but for those
\* being burnt.  And the calls by which the engine gives away what it has, to a
\* user or to nobody, do not fail.
THEOREM CoveredBetweenTheCalls == CallsSpec => []CoveredBetweenCalls
<1>1. ASSUME CallsIInv, RepaidIsAtHand
      PROVE  CoveredBetweenCalls
  <2>1. TypesOK /\ Ordered(steps) /\ CustodyUnderWay /\ DebtUnderWay
    BY <1>1 DEF CallsIInv
  <2>2. steps # <<>> => Head(steps) = steps[1]
    BY <2>1, Settling
  <2>3. CustodyBetweenCalls
    <3> SUFFICES ASSUME NEW t \in Tokens
                 PROVE  tokens[t].balances[Engine]
                          + (IF Awaits("pullToken") /\ Head(steps).t = t
                               THEN Head(steps).amount ELSE 0)
                          >= Deposited(t)
      BY DEF CustodyBetweenCalls
    <3>1. (IF Awaits("pullToken") /\ Head(steps).t = t THEN Head(steps).amount ELSE 0)
            = ToPull(steps, t)
      BY <2>2 DEF Awaits, Running, ToPull
    <3>2. tokens[t].balances[Engine] + ToPull(steps, t) - ToPush(steps, t) >= Deposited(t)
      BY <2>1 DEF CustodyUnderWay
    <3>3. /\ tokens[t].balances[Engine] \in Nat /\ Deposited(t) \in Nat
          /\ ToPull(steps, t) \in Nat /\ ToPush(steps, t) \in Nat
      BY <2>1, Numbers, UnderWayNat
    <3> QED
      BY <3>1, <3>2, <3>3
  <2>4. DebtBetweenCalls
    <3>1. (IF Awaits("pullCoin") \/ Awaits("burnCoin") THEN Head(steps).amount ELSE 0)
            = ToBurn(steps)
      BY <2>2 DEF Awaits, Running, ToBurn
    <3>2. /\ coin.totalSupply \in Nat /\ TotalMinted \in Nat
          /\ ToMint(steps) \in Nat /\ ToBurn(steps) \in Nat
      BY <2>1, Numbers, UnderWayNat
    <3> QED
      BY <2>1, <3>1, <3>2 DEF DebtUnderWay, DebtBetweenCalls
  <2>5. ASSUME Awaits("pushToken")
        PROVE  Succeeds(Head(steps))
    <3> DEFINE s == Head(steps)
    <3>1. /\ s.op = "pushToken" /\ steps # <<>> /\ s = steps[1]
          /\ s \in CallSteps /\ WellTyped(s)
      BY <2>1, <2>2, <2>5, Settling DEF Awaits, Running
    <3> HIDE DEF s
    <3>2. s.t \in Tokens /\ s.amount \in Nat /\ s.to \in Users
      BY <3>1 DEF CallSteps, WellTyped
    <3>3. ToPush(steps, s.t) = s.amount /\ ToPull(steps, s.t) = 0
      BY <3>1 DEF ToPush, ToPull
    <3>4. tokens[s.t].balances[Engine] + ToPull(steps, s.t) - ToPush(steps, s.t)
            >= Deposited(s.t)
      BY <2>1, <3>2 DEF CustodyUnderWay
    <3>5. tokens[s.t].balances[Engine] \in Nat /\ Deposited(s.t) \in Nat
      BY <2>1, <3>2, Numbers
    <3>6. tokens[s.t].balances[Engine] >= s.amount
      BY <3>2, <3>3, <3>4, <3>5
    <3>7. Engine # ZeroAddress /\ s.to # ZeroAddress
      BY <3>2, Accounts DEF Senders
    <3> QED
      BY <3>1, <3>6, <3>7 DEF Succeeds, CanTransfer, s
  <2>6. ASSUME Awaits("burnCoin"), Head(steps).amount # 0
        PROVE  Succeeds(Head(steps))
    <3>1. Head(steps).op = "burnCoin" /\ steps # <<>> /\ Head(steps) = steps[1]
      BY <2>2, <2>6 DEF Awaits, Running
    <3>2. owner = Engine /\ coin.balances[Engine] >= Head(steps).amount
      BY <1>1, <2>6, <3>1 DEF RepaidIsAtHand
    <3>3. Engine # ZeroAddress
      BY Accounts DEF Senders
    <3> QED
      BY <2>6, <3>1, <3>2, <3>3 DEF Succeeds, CanOwnerBurn, OnlyOwner, CanBurn
  <2>7. PayoutsSucceed
    BY <2>5, <2>6 DEF PayoutsSucceed
  <2> QED
    BY <2>3, <2>4, <2>7 DEF CoveredBetweenCalls
<1> QED
  BY <1>1, CallsInvariant, AtHandInvariant, PTL

-----------------------------------------------------------------------------
(* The refinement.  What a transaction has done so far can be replayed on  *)
(* values: a state is the tuple of the values that a revert restores, as   *)
(* in saved.                                                               *)

\* Succeeds, of the state x and a health factor h at the start.
Can(x, s, h) ==
  CASE s.op = "require"         -> s.amount # 0
    [] s.op = "recordDeposit"   -> x[1][s.from][s.t] + s.amount <= MaxUint
    [] s.op = "pullToken"       -> CanTransferFrom(x[3][s.t], Engine, s.from, Engine, s.amount)
    [] s.op = "recordDebt"      -> x[2][s.from] + s.amount <= MaxUint
    [] s.op = "checkHealth"     -> HealthFactorIsGood(x[1][s.from], x[2][s.from])
    [] s.op = "mintCoin"        -> x[5] = Engine /\ CanMint(x[4], s.to, s.amount)
    [] s.op = "recordRelease"   -> s.amount <= x[1][s.from][s.t]
    [] s.op = "pushToken"       -> CanTransfer(x[3][s.t], Engine, s.to, s.amount)
    [] s.op = "recordRepayment" -> s.amount <= x[2][s.from]
    [] s.op = "pullCoin"        -> CanTransferFrom(x[4], Engine, s.from, Engine, s.amount)
    [] s.op = "burnCoin"        -> /\ x[5] = Engine /\ s.amount # 0
                                   /\ CanBurn(x[4], Engine, s.amount)
    [] s.op = "checkRedeemer"   -> x[2][s.from] > 0 =>
                                     HealthFactorIsGood(x[1][s.from], x[2][s.from])
    [] s.op = "checkUnhealthy"  ->
         /\ HealthFactorFits(x[1][s.from], x[2][s.from])
         /\ HealthFactor(x[1][s.from], x[2][s.from]) < MIN_HEALTH_FACTOR
    [] s.op = "checkReward"     ->
         /\ TokenAmountFits(s.t, s.amount)
         /\ LET reward == TokenAmountFromINR(s.t, s.amount)
            IN  /\ reward * LIQUIDATION_BONUS <= MaxUint
                /\ reward + LiquidationBonus(reward) <= MaxUint
    [] s.op = "checkImproved"   ->
         /\ HealthFactorFits(x[1][s.from], x[2][s.from])
         /\ HealthFactor(x[1][s.from], x[2][s.from]) > h

\* Records and Calls, of the state x.
After(x, s) ==
  << CASE s.op = "recordDeposit" -> [x[1] EXCEPT ![s.from][s.t] = @ + s.amount]
       [] s.op = "recordRelease" -> [x[1] EXCEPT ![s.from][s.t] = @ - s.amount]
       [] OTHER -> x[1],
     CASE s.op = "recordDebt"      -> [x[2] EXCEPT ![s.from] = @ + s.amount]
       [] s.op = "recordRepayment" -> [x[2] EXCEPT ![s.from] = @ - s.amount]
       [] OTHER -> x[2],
     CASE s.op = "pullToken" ->
            [x[3] EXCEPT ![s.t] = TransferredFrom(@, Engine, s.from, Engine, s.amount)]
       [] s.op = "pushToken" -> [x[3] EXCEPT ![s.t] = Transferred(@, Engine, s.to, s.amount)]
       [] OTHER -> x[3],
     CASE s.op = "mintCoin" -> Minted(x[4], s.to, s.amount)
       [] s.op = "pullCoin" -> TransferredFrom(x[4], Engine, s.from, Engine, s.amount)
       [] s.op = "burnCoin" -> Burned(x[4], Engine, s.amount)
       [] OTHER -> x[4],
     x[5] >>

\* The step s leads from x to y.
Leads(x, s, y, h) == Can(x, s, h) /\ y = After(x, s)

LEMMA StepLeads ==
  ASSUME Continue, Head(steps).op \in Operations
  PROVE  Leads(storage, Head(steps), storage', starting)
<1> DEFINE s == Head(steps)
<1>1. Succeeds(s) /\ Records(s) /\ Calls(s)
  BY DEF Continue
<1> HIDE DEF s
<1>2. Can(storage, s, starting)
  <2>1. Succeeds(s) => Can(storage, s, starting)
    BY DEF Succeeds, Can, storage, OnlyOwner, CanOwnerBurn
  <2> QED
    BY <1>1, <2>1
<1>3. storage' = After(storage, s)
  BY <1>1 DEF Records, Calls, After, storage
<1> QED
  BY <1>2, <1>3 DEF Leads, s

\* The price does not change while a transaction runs.
LEMMA SamePrice ==
  ASSUME UNCHANGED price
  PROVE  /\ \A t : FeedPrice(t)' = FeedPrice(t)
         /\ \A d : CollateralValue(d)' = CollateralValue(d)
         /\ \A d, m : /\ HealthFactor(d, m)' = HealthFactor(d, m)
                      /\ HealthFactorFits(d, m)' <=> HealthFactorFits(d, m)
                      /\ HealthFactorIsGood(d, m)' <=> HealthFactorIsGood(d, m)
         /\ \A t, n : /\ TokenAmountFits(t, n)' <=> TokenAmountFits(t, n)
                      /\ TokenAmountFromINR(t, n)' = TokenAmountFromINR(t, n)
                      /\ Payout(t, n)' = Payout(t, n)
<1>1. \A t : FeedPrice(t)' = FeedPrice(t)
  BY DEF FeedPrice
<1>2. \A t, n : INRValue(t, n)' = INRValue(t, n) /\ (INRValueFits(t, n)' <=> INRValueFits(t, n))
  BY <1>1 DEF INRValue, INRValueFits
<1>3. \A d : CollateralValue(d)' = CollateralValue(d)
  <2> SUFFICES ASSUME NEW d
               PROVE  CollateralValue(d)' = CollateralValue(d)
    OBVIOUS
  <2>1. [t \in Tokens |-> INRValue(t, d[t])]' = [t \in Tokens |-> INRValue(t, d[t])]
    BY <1>2
  <2> QED
    BY <2>1 DEF CollateralValue
<1>4. \A d, m : HealthFactor(d, m)' = HealthFactor(d, m)
  BY <1>3 DEF HealthFactor, ThresholdCollateral
<1>5. \A d, m : HealthFactorFits(d, m)' <=> HealthFactorFits(d, m)
  BY <1>2, <1>3 DEF HealthFactorFits, ThresholdCollateral
<1>6. \A d, m : HealthFactorIsGood(d, m)' <=> HealthFactorIsGood(d, m)
  BY <1>4, <1>5 DEF HealthFactorIsGood
<1>7. \A t, n : /\ TokenAmountFits(t, n)' <=> TokenAmountFits(t, n)
                /\ TokenAmountFromINR(t, n)' = TokenAmountFromINR(t, n)
  BY <1>1 DEF TokenAmountFits, TokenAmountFromINR
<1>8. \A t, n : Payout(t, n)' = Payout(t, n)
  BY <1>1, <1>7 DEF Payout
<1> QED
  BY <1>1, <1>3, <1>4, <1>5, <1>6, <1>7, <1>8

LEMMA LeadsLater ==
  ASSUME UNCHANGED price, NEW x, NEW s, NEW y, NEW h, NEW k, s.op \in Operations,
         Leads(x, s, y, h), s.op # "checkImproved" \/ h = k
  PROVE  Leads(x, s, y, k)'
<1>1. Can(x, s, k)
  <2>1. CASE h = k
    BY <2>1 DEF Leads
  <2>2. CASE s.op # "checkImproved"
    <3>1. Can(x, s, h)
      BY DEF Leads
    <3>2. Can(x, s, h) = Can(x, s, k)
      BY <2>2 DEF Can, Operations
    <3> QED
      BY <3>1, <3>2
  <2> QED
    BY <2>1, <2>2
<1>2. Can(x, s, k)'
  <2>1. CASE s.op = "checkHealth"
    BY <1>1, <2>1, SamePrice DEF Can
  <2>2. CASE s.op = "checkRedeemer"
    BY <1>1, <2>2, SamePrice DEF Can
  <2>3. CASE s.op = "checkUnhealthy"
    BY <1>1, <2>3, SamePrice DEF Can
  <2>4. CASE s.op = "checkReward"
    BY <1>1, <2>4, SamePrice DEF Can
  <2>5. CASE s.op = "checkImproved"
    BY <1>1, <2>5, SamePrice DEF Can
  <2>6. CASE s.op \in Operations \ {"checkHealth", "checkRedeemer", "checkUnhealthy",
                                    "checkReward", "checkImproved"}
    BY <1>1, <2>6 DEF Can, Operations
  <2> QED
    BY <2>1, <2>2, <2>3, <2>4, <2>5, <2>6
<1>3. y = After(x, s)
  BY DEF Leads
<1> QED
  BY <1>2, <1>3 DEF Leads, After

-----------------------------------------------------------------------------
(* The running transaction, replayed.                                      *)

\* The first n steps of T lead from the saved state, by way of the states r,
\* to the present one; the others are still to come.  The health factor at the
\* start is that of the state where it was checked.
Replays(T, r, n) ==
  /\ sender \in Users /\ IsTransaction(T, sender)
  /\ n \in Nat /\ n < Len(T)
  /\ Len(steps) = Len(T) - n
  /\ \A i \in 1 .. Len(T) - n : steps[i] = T[n + i]
  /\ r[0] = saved /\ r[n] = storage
  /\ \A j \in 0 .. n - 1 :
       /\ Leads(r[j], T[j + 1], r[j + 1], starting)
       /\ T[j + 1].op = "checkUnhealthy" =>
            starting = HealthFactor(r[j][1][T[j + 1].from], r[j][2][T[j + 1].from])

Replayed == Running => \E T, r, n : Replays(T, r, n)

LEMMA Formed ==
  ASSUME NEW u, NEW T, IsTransaction(T, u)
  PROVE  /\ Len(T) \in Nat /\ Len(T) > 0
         /\ \A i \in 1 .. Len(T) : T[i].op \in Operations
         /\ \A i \in 1 .. Len(T) : T[i].op = "checkImproved" => i = Len(T)
         /\ \A i \in 1 .. Len(T) : T[i].op = "checkUnhealthy" => i = 2 /\ Len(T) > 2
<1> DEFINE Goal == /\ Len(T) \in Nat /\ Len(T) > 0
                   /\ \A i \in 1 .. Len(T) : T[i].op \in Operations
                   /\ \A i \in 1 .. Len(T) : T[i].op = "checkImproved" => i = Len(T)
                   /\ \A i \in 1 .. Len(T) : T[i].op = "checkUnhealthy" => i = 2 /\ Len(T) > 2
<1>1. ASSUME NEW t \in Tokens, NEW a \in CollateralAmounts,
             T = DepositSeries(u, t, a)
      PROVE  Goal
  BY <1>1 DEF DepositSeries, Step, Operations
<1>2. ASSUME NEW t \in Tokens, NEW a \in CollateralAmounts,
             T = RedeemSeries(u, t, a)
      PROVE  Goal
  BY <1>2 DEF RedeemSeries, Step, Operations
<1>3. ASSUME NEW t \in Tokens, NEW b \in CoinAmounts,
             T = MintSeries(u, t, b)
      PROVE  Goal
  BY <1>3 DEF MintSeries, Step, Operations
<1>4. ASSUME NEW t \in Tokens, NEW b \in CoinAmounts,
             T = BurnSeries(u, t, b)
      PROVE  Goal
  BY <1>4 DEF BurnSeries, Step, Operations
<1>5. ASSUME NEW t \in Tokens, NEW a \in CollateralAmounts, NEW b \in CoinAmounts,
             T = DepositMintSeries(u, t, a, b)
      PROVE  Goal
  BY <1>5 DEF DepositMintSeries, Step, Operations
<1>6. ASSUME NEW t \in Tokens, NEW a \in CollateralAmounts, NEW b \in CoinAmounts,
             T = BurnRedeemSeries(u, t, a, b)
      PROVE  Goal
  BY <1>6 DEF BurnRedeemSeries, Step, Operations
<1>7. ASSUME NEW v \in Users, NEW t \in Tokens, NEW b \in CoinAmounts,
             T = LiquidateSeries(u, v, t, Payout(t, b), b)
      PROVE  Goal
  BY <1>7 DEF LiquidateSeries, Step, Operations
<1> QED
  BY <1>1, <1>2, <1>3, <1>4, <1>5, <1>6, <1>7 DEF IsTransaction

\* The transaction that begins has nothing to replay.
LEMMA BeginReplays ==
  ASSUME NEW u \in Users, Begin(u), price \in [Tokens -> UInt]
  PROVE  Replayed'
<1>1. PICK T \in Transactions(u) : steps' = T
  BY DEF Begin
<1>2. /\ UNCHANGED vars /\ saved' = storage /\ sender' = u
  BY DEF Begin
<1>3. UNCHANGED price /\ storage' = storage
  BY <1>2 DEF vars, engineVars, coinVars, storage
<1>4. IsTransaction(T, u)
  BY Kinds
<1>5. IsTransaction(T, u)'
  BY <1>3, <1>4, SamePrice DEF IsTransaction
<1>6. Len(T) \in Nat /\ Len(T) > 0
  BY <1>4, Formed
<1>7. PICK r : r = [j \in {0} |-> storage]
  OBVIOUS
<1>8. Replays(T, r, 0)'
  BY <1>1, <1>2, <1>3, <1>5, <1>6, <1>7 DEF Replays
<1> QED
  BY <1>8 DEF Replayed

\* One more step has been taken of those to replay.
LEMMA TakesStep ==
  ASSUME Ordered(steps), Continue, NEW T, NEW r, NEW n, Replays(T, r, n)
  PROVE  /\ Head(steps) = T[n + 1]
         /\ n + 1 \in 1 .. Len(T)
         /\ T[n + 1].op \in Operations
         /\ \A j \in 0 .. n - 1 : Leads(r[j], T[j + 1], r[j + 1], starting)
         /\ r[0] = saved /\ r[n] = storage
         /\ Leads(storage, T[n + 1], storage', starting)
         /\ Len(steps) = 1 <=> n + 1 = Len(T)
<1>1. Len(T) \in Nat /\ \A i \in 1 .. Len(T) : T[i].op \in Operations
  BY Formed DEF Replays
<1>2. /\ n \in Nat /\ n < Len(T) /\ Len(steps) = Len(T) - n
      /\ \A i \in 1 .. Len(T) - n : steps[i] = T[n + i]
  BY DEF Replays
<1>3. Head(steps) = steps[1]
  BY Rest DEF Continue, Running, Ordered
<1>4. Head(steps) = T[n + 1] /\ n + 1 \in 1 .. Len(T) /\ T[n + 1].op \in Operations
  BY <1>1, <1>2, <1>3
<1>5. Leads(storage, T[n + 1], storage', starting)
  BY <1>4, StepLeads
<1>6. Len(steps) = 1 <=> n + 1 = Len(T)
  BY <1>1, <1>2
<1> QED
  BY <1>4, <1>5, <1>6 DEF Replays

LEMMA ContinueReplays ==
  ASSUME Ordered(steps), Continue, Len(steps) # 1, NEW T, NEW r, NEW n, Replays(T, r, n)
  PROVE  Replayed'
<1> DEFINE s == T[n + 1]
<1> PICK q : q = [j \in 0 .. n + 1 |-> IF j = n + 1 THEN storage' ELSE r[j]]
  OBVIOUS
<1> PICK k : k = starting'
  OBVIOUS
<1>1. /\ s = Head(steps) /\ n + 1 \in 1 .. Len(T) /\ n + 1 # Len(T)
      /\ s.op \in Operations
      /\ r[0] = saved /\ r[n] = storage
      /\ Leads(storage, s, storage', starting)
  BY TakesStep
<1>2. /\ sender \in Users /\ IsTransaction(T, sender)
      /\ n \in Nat /\ Len(T) \in Nat
      /\ Len(steps) = Len(T) - n
      /\ \A i \in 1 .. Len(T) - n : steps[i] = T[n + i]
      /\ \A j \in 0 .. n - 1 :
           /\ Leads(r[j], T[j + 1], r[j + 1], starting)
           /\ T[j + 1].op = "checkUnhealthy" =>
                starting = HealthFactor(r[j][1][T[j + 1].from], r[j][2][T[j + 1].from])
  BY Formed DEF Replays
<1>3. /\ \A i \in 1 .. Len(T) : T[i].op \in Operations
      /\ \A i \in 1 .. Len(T) : T[i].op = "checkImproved" => i = Len(T)
      /\ \A i \in 1 .. Len(T) : T[i].op = "checkUnhealthy" => i = 2
  BY <1>2, Formed
<1>4. /\ UNCHANGED <<price, sender, saved>> /\ steps' = Tail(steps)
      /\ starting' = IF s.op = "checkUnhealthy"
                       THEN HealthFactor(s_collateralDeposited[s.from], s_coinMinted[s.from])
                       ELSE starting
  BY <1>1 DEF Continue
<1>5. /\ q[0] = saved /\ q[n + 1] = storage'
      /\ \A j \in 0 .. n : q[j] = r[j]
  BY <1>1, <1>2
<1>6. IsTransaction(T, sender)'
  BY <1>2, <1>4, SamePrice DEF IsTransaction
<1>7. /\ Len(steps)' = Len(T) - (n + 1)
      /\ \A i \in 1 .. Len(T) - (n + 1) : steps'[i] = T[(n + 1) + i]
  <2>1. /\ Len(Tail(steps)) = Len(steps) - 1
        /\ \A i \in 1 .. Len(steps) - 1 : Tail(steps)[i] = steps[i + 1]
    BY Rest DEF Continue, Running, Ordered
  <2>2. ASSUME NEW i \in 1 .. Len(T) - (n + 1)
        PROVE  steps'[i] = T[(n + 1) + i]
    <3>1. i + 1 \in 1 .. Len(T) - n /\ i \in 1 .. Len(steps) - 1
      BY <1>2
    <3>2. steps[i + 1] = T[n + (i + 1)] /\ n + (i + 1) = (n + 1) + i
      BY <1>2, <3>1
    <3> QED
      BY <1>4, <2>1, <3>1, <3>2
  <2> QED
    BY <1>2, <1>4, <2>1, <2>2
<1>8. ASSUME NEW j \in 0 .. (n + 1) - 1
      PROVE  /\ Leads(q[j], T[j + 1], q[j + 1], k)'
             /\ T[j + 1].op = "checkUnhealthy" =>
                  starting' = HealthFactor(q[j][1][T[j + 1].from], q[j][2][T[j + 1].from])'
  <2>1. T[j + 1].op \in Operations /\ T[j + 1].op # "checkImproved"
    BY <1>1, <1>2, <1>3
  <2>2. CASE j = n
    <3>1. q[j] = storage /\ q[j + 1] = storage' /\ T[j + 1] = s
      BY <1>1, <1>2, <1>5, <2>2
    <3>2. Leads(q[j], T[j + 1], q[j + 1], starting)
      BY <1>1, <3>1
    <3>3. Leads(q[j], T[j + 1], q[j + 1], k)'
      BY <1>4, <2>1, <3>2, LeadsLater
    <3>4. s.op = "checkUnhealthy" => starting' = HealthFactor(q[j][1][s.from], q[j][2][s.from])
      <4>1. storage[1] = s_collateralDeposited /\ storage[2] = s_coinMinted
        BY DEF storage
      <4> QED
        BY <1>4, <3>1, <4>1
    <3> QED
      BY <1>4, <3>1, <3>3, <3>4, SamePrice
  <2>3. CASE j # n
    <3>1. j \in 0 .. n - 1 /\ q[j] = r[j] /\ q[j + 1] = r[j + 1]
      BY <1>2, <1>5, <2>3
    <3>2. Leads(q[j], T[j + 1], q[j + 1], starting)
      BY <1>2, <3>1
    <3>3. Leads(q[j], T[j + 1], q[j + 1], k)'
      BY <1>4, <2>1, <3>2, LeadsLater
    <3>4. T[j + 1].op = "checkUnhealthy" =>
            starting = HealthFactor(q[j][1][T[j + 1].from], q[j][2][T[j + 1].from])
      BY <1>2, <3>1
    <3>5. T[j + 1].op = "checkUnhealthy" => starting' = starting
      <4>1. j + 1 \in 1 .. Len(T) /\ n + 1 \in 1 .. Len(T) /\ j + 1 # n + 1
        BY <1>1, <1>2, <2>3
      <4> QED
        BY <1>3, <1>4, <4>1
    <3>6. T[j + 1].op = "checkUnhealthy" =>
            starting' = HealthFactor(q[j][1][T[j + 1].from], q[j][2][T[j + 1].from])'
      BY <1>4, <3>4, <3>5, SamePrice
    <3> QED
      BY <3>3, <3>6
  <2> QED
    BY <2>2, <2>3
<1>9. Replays(T, q, n + 1)'
  <2>1. sender' \in Users /\ n + 1 \in Nat /\ n + 1 < Len(T)
    BY <1>1, <1>2, <1>4
  <2>2. q[0] = saved' /\ q[n + 1] = storage'
    BY <1>4, <1>5
  <2> QED
    BY <1>6, <1>7, <1>8, <2>1, <2>2 DEF Replays
<1> QED
  BY <1>9 DEF Replayed

-----------------------------------------------------------------------------
(* What the functions come down to: the transition each makes from x to y. *)

Deposits(x, y, u, t, a) ==
  /\ a # 0
  /\ x[1][u][t] + a <= MaxUint
  /\ CanTransferFrom(x[3][t], Engine, u, Engine, a)
  /\ y[1] = [x[1] EXCEPT ![u][t] = @ + a]
  /\ y[3] = [x[3] EXCEPT ![t] = TransferredFrom(@, Engine, u, Engine, a)]
  /\ y[2] = x[2] /\ y[4] = x[4] /\ y[5] = x[5]

Mints(x, y, u, b) ==
  /\ b # 0
  /\ x[2][u] + b <= MaxUint
  /\ y[2] = [x[2] EXCEPT ![u] = @ + b]
  /\ HealthFactorIsGood(y[1][u], y[2][u])
  /\ x[5] = Engine /\ CanMint(x[4], u, b)
  /\ y[4] = Minted(x[4], u, b)
  /\ y[1] = x[1] /\ y[3] = x[3] /\ y[5] = x[5]

Releases(x, y, t, from, to, a) ==
  /\ a <= x[1][from][t]
  /\ CanTransfer(x[3][t], Engine, to, a)
  /\ y[1] = [x[1] EXCEPT ![from][t] = @ - a]
  /\ y[3] = [x[3] EXCEPT ![t] = Transferred(@, Engine, to, a)]
  /\ y[2] = x[2] /\ y[4] = x[4] /\ y[5] = x[5]

Retires(x, y, onBehalfOf, from, b) ==
  LET pulled == TransferredFrom(x[4], Engine, from, Engine, b)
  IN  /\ b <= x[2][onBehalfOf]
      /\ y[2] = [x[2] EXCEPT ![onBehalfOf] = @ - b]
      /\ CanTransferFrom(x[4], Engine, from, Engine, b)
      /\ x[5] = Engine /\ b # 0 /\ CanBurn(pulled, Engine, b)
      /\ y[4] = Burned(pulled, Engine, b)
      /\ y[1] = x[1] /\ y[3] = x[3] /\ y[5] = x[5]

Redeems(x, y, u, t, a) ==
  /\ a # 0
  /\ Releases(x, y, t, u, u, a)
  /\ y[2][u] > 0 => HealthFactorIsGood(y[1][u], y[2][u])

Burns(x, y, u, b) == b # 0 /\ Retires(x, y, u, u, b)

\* The checks of liquidate before it moves anything.
Admits(x, u, v, t, b) ==
  LET reward == TokenAmountFromINR(t, b)
  IN  /\ HealthFactorIsGood(x[1][u], x[2][u])
      /\ HealthFactorFits(x[1][v], x[2][v])
      /\ HealthFactor(x[1][v], x[2][v]) < MIN_HEALTH_FACTOR
      /\ TokenAmountFits(t, b)
      /\ reward * LIQUIDATION_BONUS <= MaxUint
      /\ reward + LiquidationBonus(reward) <= MaxUint

LEMMA RequireLeads ==
  ASSUME NEW x, NEW y, NEW h, NEW t, NEW u, NEW n, Leads(x, Step("require", t, u, u, n), y, h)
  PROVE  /\ n # 0
         /\ y[1] = x[1] /\ y[2] = x[2] /\ y[3] = x[3] /\ y[4] = x[4] /\ y[5] = x[5]
BY DEF Leads, Can, After, Step

LEMMA DepositLeads ==
  ASSUME NEW t, NEW u, NEW a, NEW h, NEW x0, NEW x1, NEW x2, NEW x3,
         Leads(x0, Step("require", t, u, u, a), x1, h),
         Leads(x1, Step("recordDeposit", t, u, Engine, a), x2, h),
         Leads(x2, Step("pullToken", t, u, Engine, a), x3, h)
  PROVE  Deposits(x0, x3, u, t, a)
<1>1. /\ a # 0
      /\ x1[1] = x0[1] /\ x1[2] = x0[2] /\ x1[3] = x0[3] /\ x1[4] = x0[4] /\ x1[5] = x0[5]
  BY RequireLeads
<1>2. /\ x1[1][u][t] + a <= MaxUint
      /\ x2[1] = [x1[1] EXCEPT ![u][t] = @ + a]
      /\ x2[2] = x1[2] /\ x2[3] = x1[3] /\ x2[4] = x1[4] /\ x2[5] = x1[5]
  BY DEF Leads, Can, After, Step
<1>3. /\ CanTransferFrom(x2[3][t], Engine, u, Engine, a)
      /\ x3[3] = [x2[3] EXCEPT ![t] = TransferredFrom(@, Engine, u, Engine, a)]
      /\ x3[1] = x2[1] /\ x3[2] = x2[2] /\ x3[4] = x2[4] /\ x3[5] = x2[5]
  BY DEF Leads, Can, After, Step
<1> QED
  BY <1>1, <1>2, <1>3 DEF Deposits

LEMMA MintLeads ==
  ASSUME NEW t, NEW u, NEW b, NEW h, NEW x0, NEW x1, NEW x2, NEW x3, NEW x4,
         Leads(x0, Step("require", t, u, u, b), x1, h),
         Leads(x1, Step("recordDebt", t, u, u, b), x2, h),
         Leads(x2, Step("checkHealth", t, u, u, b), x3, h),
         Leads(x3, Step("mintCoin", t, Engine, u, b), x4, h)
  PROVE  Mints(x0, x4, u, b)
<1>1. /\ b # 0
      /\ x1[1] = x0[1] /\ x1[2] = x0[2] /\ x1[3] = x0[3] /\ x1[4] = x0[4] /\ x1[5] = x0[5]
  BY RequireLeads
<1>2. /\ x1[2][u] + b <= MaxUint
      /\ x2[2] = [x1[2] EXCEPT ![u] = @ + b]
      /\ x2[1] = x1[1] /\ x2[3] = x1[3] /\ x2[4] = x1[4] /\ x2[5] = x1[5]
  BY DEF Leads, Can, After, Step
<1>3. /\ HealthFactorIsGood(x2[1][u], x2[2][u])
      /\ x3[1] = x2[1] /\ x3[2] = x2[2] /\ x3[3] = x2[3] /\ x3[4] = x2[4] /\ x3[5] = x2[5]
  BY DEF Leads, Can, After, Step
<1>4. /\ x3[5] = Engine /\ CanMint(x3[4], u, b)
      /\ x4[4] = Minted(x3[4], u, b)
      /\ x4[1] = x3[1] /\ x4[2] = x3[2] /\ x4[3] = x3[3] /\ x4[5] = x3[5]
  BY DEF Leads, Can, After, Step
<1> QED
  BY <1>1, <1>2, <1>3, <1>4 DEF Mints

LEMMA ReleaseLeads ==
  ASSUME NEW t, NEW from, NEW to, NEW a, NEW h, NEW x0, NEW x1, NEW x2,
         Leads(x0, Step("recordRelease", t, from, to, a), x1, h),
         Leads(x1, Step("pushToken", t, Engine, to, a), x2, h)
  PROVE  Releases(x0, x2, t, from, to, a)
<1>1. /\ a <= x0[1][from][t]
      /\ x1[1] = [x0[1] EXCEPT ![from][t] = @ - a]
      /\ x1[2] = x0[2] /\ x1[3] = x0[3] /\ x1[4] = x0[4] /\ x1[5] = x0[5]
  BY DEF Leads, Can, After, Step
<1>2. /\ CanTransfer(x1[3][t], Engine, to, a)
      /\ x2[3] = [x1[3] EXCEPT ![t] = Transferred(@, Engine, to, a)]
      /\ x2[1] = x1[1] /\ x2[2] = x1[2] /\ x2[4] = x1[4] /\ x2[5] = x1[5]
  BY DEF Leads, Can, After, Step
<1> QED
  BY <1>1, <1>2 DEF Releases

LEMMA RetireLeads ==
  ASSUME NEW t, NEW onBehalfOf, NEW from, NEW b, NEW h, NEW x0, NEW x1, NEW x2, NEW x3,
         Leads(x0, Step("recordRepayment", t, onBehalfOf, from, b), x1, h),
         Leads(x1, Step("pullCoin", t, from, Engine, b), x2, h),
         Leads(x2, Step("burnCoin", t, Engine, Engine, b), x3, h)
  PROVE  Retires(x0, x3, onBehalfOf, from, b)
<1>1. /\ b <= x0[2][onBehalfOf]
      /\ x1[2] = [x0[2] EXCEPT ![onBehalfOf] = @ - b]
      /\ x1[1] = x0[1] /\ x1[3] = x0[3] /\ x1[4] = x0[4] /\ x1[5] = x0[5]
  BY DEF Leads, Can, After, Step
<1>2. /\ CanTransferFrom(x1[4], Engine, from, Engine, b)
      /\ x2[4] = TransferredFrom(x1[4], Engine, from, Engine, b)
      /\ x2[1] = x1[1] /\ x2[2] = x1[2] /\ x2[3] = x1[3] /\ x2[5] = x1[5]
  BY DEF Leads, Can, After, Step
<1>3. /\ x2[5] = Engine /\ b # 0 /\ CanBurn(x2[4], Engine, b)
      /\ x3[4] = Burned(x2[4], Engine, b)
      /\ x3[1] = x2[1] /\ x3[2] = x2[2] /\ x3[3] = x2[3] /\ x3[5] = x2[5]
  BY DEF Leads, Can, After, Step
<1> QED
  BY <1>1, <1>2, <1>3 DEF Retires

LEMMA RedeemLeads ==
  ASSUME NEW t, NEW u, NEW a, NEW h, NEW x0, NEW x1, NEW x2, NEW x3, NEW x4,
         Leads(x0, Step("require", t, u, u, a), x1, h),
         Leads(x1, Step("recordRelease", t, u, u, a), x2, h),
         Leads(x2, Step("pushToken", t, Engine, u, a), x3, h),
         Leads(x3, Step("checkRedeemer", t, u, u, a), x4, h)
  PROVE  Redeems(x0, x4, u, t, a)
<1>1. /\ a # 0
      /\ x1[1] = x0[1] /\ x1[2] = x0[2] /\ x1[3] = x0[3] /\ x1[4] = x0[4] /\ x1[5] = x0[5]
  BY RequireLeads
<1>2. Releases(x1, x3, t, u, u, a)
  BY ReleaseLeads
<1>3. /\ x3[2][u] > 0 => HealthFactorIsGood(x3[1][u], x3[2][u])
      /\ x4[1] = x3[1] /\ x4[2] = x3[2] /\ x4[3] = x3[3] /\ x4[4] = x3[4] /\ x4[5] = x3[5]
  BY DEF Leads, Can, After, Step
<1> QED
  BY <1>1, <1>2, <1>3 DEF Redeems, Releases

LEMMA BurnLeads ==
  ASSUME NEW t, NEW u, NEW b, NEW h, NEW x0, NEW x1, NEW x2, NEW x3, NEW x4,
         Leads(x0, Step("require", t, u, u, b), x1, h),
         Leads(x1, Step("recordRepayment", t, u, u, b), x2, h),
         Leads(x2, Step("pullCoin", t, u, Engine, b), x3, h),
         Leads(x3, Step("burnCoin", t, Engine, Engine, b), x4, h)
  PROVE  Burns(x0, x4, u, b)
<1>1. /\ b # 0
      /\ x1[1] = x0[1] /\ x1[2] = x0[2] /\ x1[3] = x0[3] /\ x1[4] = x0[4] /\ x1[5] = x0[5]
  BY RequireLeads
<1>2. Retires(x1, x4, u, u, b)
  BY RetireLeads
<1> QED
  BY <1>1, <1>2 DEF Burns, Retires

LEMMA LiquidationLeads ==
  ASSUME NEW t, NEW u, NEW v, NEW b, NEW h, NEW x0, NEW x1, NEW x2, NEW x3,
         Leads(x0, Step("checkHealth", t, u, u, b), x1, h),
         Leads(x1, Step("checkUnhealthy", t, v, v, b), x2, h),
         Leads(x2, Step("checkReward", t, v, v, b), x3, h)
  PROVE  /\ Admits(x0, u, v, t, b)
         /\ x1[1] = x0[1] /\ x1[2] = x0[2]
         /\ x3[1] = x0[1] /\ x3[2] = x0[2] /\ x3[3] = x0[3] /\ x3[4] = x0[4] /\ x3[5] = x0[5]
<1>1. /\ HealthFactorIsGood(x0[1][u], x0[2][u])
      /\ x1[1] = x0[1] /\ x1[2] = x0[2] /\ x1[3] = x0[3] /\ x1[4] = x0[4] /\ x1[5] = x0[5]
  BY DEF Leads, Can, After, Step
<1>2. /\ HealthFactorFits(x1[1][v], x1[2][v])
      /\ HealthFactor(x1[1][v], x1[2][v]) < MIN_HEALTH_FACTOR
      /\ x2[1] = x1[1] /\ x2[2] = x1[2] /\ x2[3] = x1[3] /\ x2[4] = x1[4] /\ x2[5] = x1[5]
  BY DEF Leads, Can, After, Step
<1>3. /\ TokenAmountFits(t, b)
      /\ TokenAmountFromINR(t, b) * LIQUIDATION_BONUS <= MaxUint
      /\ TokenAmountFromINR(t, b) + LiquidationBonus(TokenAmountFromINR(t, b)) <= MaxUint
      /\ x3[1] = x2[1] /\ x3[2] = x2[2] /\ x3[3] = x2[3] /\ x3[4] = x2[4] /\ x3[5] = x2[5]
  BY DEF Leads, Can, After, Step
<1> QED
  BY <1>1, <1>2, <1>3 DEF Admits

LEMMA ImprovedLeads ==
  ASSUME NEW x, NEW y, NEW h, NEW t, NEW v, NEW n,
         Leads(x, Step("checkImproved", t, v, v, n), y, h)
  PROVE  /\ HealthFactorFits(y[1][v], y[2][v])
         /\ HealthFactor(y[1][v], y[2][v]) > h
         /\ y[1] = x[1] /\ y[2] = x[2] /\ y[3] = x[3] /\ y[4] = x[4] /\ y[5] = x[5]
BY DEF Leads, Can, After, Step

-----------------------------------------------------------------------------
(* The same operators, of the instance and of the modules extended.        *)

LEMMA SameLedgers ==
  /\ \A l, x, y, n : /\ Atomic!CanTransfer(l, x, y, n) <=> CanTransfer(l, x, y, n)
                     /\ Atomic!Transferred(l, x, y, n) = Transferred(l, x, y, n)
                     /\ Atomic!Approved(l, x, y, n) = Approved(l, x, y, n)
                     /\ Atomic!CanSpendAllowance(l, x, y, n) <=> CanSpendAllowance(l, x, y, n)
                     /\ Atomic!AllowanceSpent(l, x, y, n) = AllowanceSpent(l, x, y, n)
  /\ \A l, x, y : Atomic!CanApprove(l, x, y) <=> CanApprove(l, x, y)
  /\ \A l, x, n : /\ Atomic!CanMint(l, x, n) <=> CanMint(l, x, n)
                  /\ Atomic!Minted(l, x, n) = Minted(l, x, n)
                  /\ Atomic!CanBurn(l, x, n) <=> CanBurn(l, x, n)
                  /\ Atomic!Burned(l, x, n) = Burned(l, x, n)
  /\ \A l, x, y, z, n :
       /\ Atomic!CanTransferFrom(l, x, y, z, n) <=> CanTransferFrom(l, x, y, z, n)
       /\ Atomic!TransferredFrom(l, x, y, z, n) = TransferredFrom(l, x, y, z, n)
<1>1. \A l, x, y, n : /\ Atomic!CanTransfer(l, x, y, n) <=> CanTransfer(l, x, y, n)
                      /\ Atomic!Transferred(l, x, y, n) = Transferred(l, x, y, n)
  BY DEF Atomic!CanTransfer, CanTransfer, Atomic!Transferred, Transferred, Atomic!Unchecked,
     Unchecked
<1>2. \A l, x, y, n : Atomic!Approved(l, x, y, n) = Approved(l, x, y, n)
  BY DEF Atomic!Approved, Approved
<1>3. \A l, x, y : Atomic!CanApprove(l, x, y) <=> CanApprove(l, x, y)
  BY DEF Atomic!CanApprove, CanApprove
<1>4. \A l, x, y, n : Atomic!CanSpendAllowance(l, x, y, n) <=> CanSpendAllowance(l, x, y, n)
  BY <1>3 DEF Atomic!CanSpendAllowance, CanSpendAllowance
<1>5. \A l, x, y, n : Atomic!AllowanceSpent(l, x, y, n) = AllowanceSpent(l, x, y, n)
  BY <1>2 DEF Atomic!AllowanceSpent, AllowanceSpent, Atomic!Approved, Approved,
     Atomic!Unchecked, Unchecked
<1>6. \A l, x, n : /\ Atomic!CanMint(l, x, n) <=> CanMint(l, x, n)
                   /\ Atomic!Minted(l, x, n) = Minted(l, x, n)
  BY DEF Atomic!CanMint, CanMint, Atomic!Minted, Minted, Atomic!Unchecked, Unchecked
<1>7. \A l, x, n : /\ Atomic!CanBurn(l, x, n) <=> CanBurn(l, x, n)
                   /\ Atomic!Burned(l, x, n) = Burned(l, x, n)
  BY DEF Atomic!CanBurn, CanBurn, Atomic!Burned, Burned, Atomic!Unchecked, Unchecked
<1>8. \A l, x, y, z, n :
        /\ Atomic!CanTransferFrom(l, x, y, z, n) <=> CanTransferFrom(l, x, y, z, n)
        /\ Atomic!TransferredFrom(l, x, y, z, n) = TransferredFrom(l, x, y, z, n)
  BY <1>1, <1>4, <1>5 DEF Atomic!CanTransferFrom, CanTransferFrom, Atomic!TransferredFrom,
     TransferredFrom
<1> QED
  BY <1>1, <1>2, <1>3, <1>4, <1>5, <1>6, <1>7, <1>8

LEMMA SameValues ==
  /\ \A d, m : /\ Atomic!HealthFactor(d, m) = HealthFactor(d, m)
               /\ Atomic!HealthFactorFits(d, m) <=> HealthFactorFits(d, m)
               /\ Atomic!HealthFactorIsGood(d, m) <=> HealthFactorIsGood(d, m)
  /\ \A t, n : /\ Atomic!TokenAmountFits(t, n) <=> TokenAmountFits(t, n)
               /\ Atomic!TokenAmountFromINR(t, n) = TokenAmountFromINR(t, n)
  /\ \A n : Atomic!LiquidationBonus(n) = LiquidationBonus(n)
  /\ Atomic!MIN_HEALTH_FACTOR = MIN_HEALTH_FACTOR
  /\ Atomic!LIQUIDATION_BONUS = LIQUIDATION_BONUS
  /\ \A f : Atomic!SumFunction(f) = SumFunction(f)
<1>1. \A f : Atomic!SumFunction(f) = SumFunction(f)
  <2> SUFFICES ASSUME NEW f
               PROVE  Atomic!SumFunction(f) = SumFunction(f)
    OBVIOUS
  <2> QED
    BY DEF Atomic!SumFunction, Atomic!SumFunctionOnSet, Atomic!FoldFunctionOnSet,
           Atomic!MapThenFoldSet, SumFunction, SumFunctionOnSet, FoldFunctionOnSet,
           MapThenFoldSet
<1>2. \A t : Atomic!FeedPrice(t) = FeedPrice(t)
  BY DEF Atomic!FeedPrice, FeedPrice
<1>3. \A t, n : /\ Atomic!INRValue(t, n) = INRValue(t, n)
                /\ Atomic!INRValueFits(t, n) <=> INRValueFits(t, n)
  BY <1>2 DEF Atomic!INRValue, INRValue, Atomic!INRValueFits, INRValueFits
<1>4. \A d : Atomic!CollateralValue(d) = CollateralValue(d)
  <2> SUFFICES ASSUME NEW d
               PROVE  Atomic!CollateralValue(d) = CollateralValue(d)
    OBVIOUS
  <2>1. [t \in Tokens |-> Atomic!INRValue(t, d[t])] = [t \in Tokens |-> INRValue(t, d[t])]
    BY <1>3
  <2> QED
    BY <1>1, <2>1 DEF Atomic!CollateralValue, CollateralValue
<1>5. \A d : Atomic!ThresholdCollateral(d) = ThresholdCollateral(d)
  BY <1>4 DEF Atomic!ThresholdCollateral, ThresholdCollateral, Atomic!LIQUIDATION_THRESHOLD,
     LIQUIDATION_THRESHOLD, Atomic!LIQUIDATION_PRECISION, LIQUIDATION_PRECISION
<1>6. \A d, m : Atomic!HealthFactor(d, m) = HealthFactor(d, m)
  BY <1>5 DEF Atomic!HealthFactor, HealthFactor
<1>7. \A d, m : Atomic!HealthFactorFits(d, m) <=> HealthFactorFits(d, m)
  BY <1>3, <1>4, <1>5 DEF Atomic!HealthFactorFits, HealthFactorFits,
     Atomic!LIQUIDATION_THRESHOLD, LIQUIDATION_THRESHOLD
<1>8. Atomic!MIN_HEALTH_FACTOR = MIN_HEALTH_FACTOR
  BY DEF Atomic!MIN_HEALTH_FACTOR, MIN_HEALTH_FACTOR
<1>9. \A d, m : Atomic!HealthFactorIsGood(d, m) <=> HealthFactorIsGood(d, m)
  BY <1>6, <1>7, <1>8 DEF Atomic!HealthFactorIsGood, HealthFactorIsGood
<1>10. \A t, n : /\ Atomic!TokenAmountFits(t, n) <=> TokenAmountFits(t, n)
                 /\ Atomic!TokenAmountFromINR(t, n) = TokenAmountFromINR(t, n)
  BY <1>2 DEF Atomic!TokenAmountFits, TokenAmountFits, Atomic!TokenAmountFromINR,
     TokenAmountFromINR
<1>11. /\ \A n : Atomic!LiquidationBonus(n) = LiquidationBonus(n)
       /\ Atomic!LIQUIDATION_BONUS = LIQUIDATION_BONUS
  BY DEF Atomic!LiquidationBonus, LiquidationBonus, Atomic!LIQUIDATION_BONUS,
     LIQUIDATION_BONUS, Atomic!LIQUIDATION_PRECISION, LIQUIDATION_PRECISION
<1> QED
  BY <1>1, <1>6, <1>7, <1>8, <1>9, <1>10, <1>11

-----------------------------------------------------------------------------
(* The end of a transaction, seen from outside: the step from the saved    *)
(* state to the present one is the engine's step.                          *)

\* The transaction that runs ends now, in the state y.
Ends(y) == Running /\ ~Running' /\ UNCHANGED price /\ y = storage'

LEMMA Outside ==
  ASSUME NEW y, Ends(y)
  PROVE  /\ (IF Running THEN saved[1] ELSE s_collateralDeposited) = saved[1]
         /\ (IF Running THEN saved[2] ELSE s_coinMinted) = saved[2]
         /\ (IF Running THEN saved[3] ELSE tokens) = saved[3]
         /\ (IF Running THEN saved[4] ELSE coin) = saved[4]
         /\ (IF Running THEN saved[5] ELSE owner) = saved[5]
         /\ (IF Running THEN saved[1] ELSE s_collateralDeposited)' = y[1]
         /\ (IF Running THEN saved[2] ELSE s_coinMinted)' = y[2]
         /\ (IF Running THEN saved[3] ELSE tokens)' = y[3]
         /\ (IF Running THEN saved[4] ELSE coin)' = y[4]
         /\ (IF Running THEN saved[5] ELSE owner)' = y[5]
         /\ UNCHANGED price
BY DEF Ends, storage

LEMMA DepositEnds ==
  ASSUME NEW y, Ends(y), NEW u, NEW t, NEW a, Deposits(saved, y, u, t, a)
  PROVE  Atomic!DepositCollateral(u, t, a)
BY Outside, SameLedgers
   DEF Deposits, Atomic!DepositCollateral, Atomic!TakeDeposit, Atomic!coinVars

LEMMA MintEnds ==
  ASSUME NEW y, Ends(y), NEW u, NEW b, Mints(saved, y, u, b)
  PROVE  Atomic!MintCoin(u, b)
BY Outside, SameLedgers, SameValues
   DEF Mints, Atomic!MintCoin, Atomic!IssueCoin, Atomic!Mint, Atomic!OnlyOwner

LEMMA BurnEnds ==
  ASSUME NEW y, Ends(y), NEW u, NEW b, Burns(saved, y, u, b)
  PROVE  Atomic!BurnCoin(u, b)
BY Outside, SameLedgers
   DEF Burns, Retires, Atomic!BurnCoin, Atomic!RetireCoin, Atomic!CanOwnerBurn,
       Atomic!OnlyOwner

LEMMA RedeemEnds ==
  ASSUME NEW y, Ends(y), NEW u, NEW t, NEW a, Redeems(saved, y, u, t, a)
  PROVE  Atomic!RedeemCollateral(u, t, a)
BY Outside, SameLedgers, SameValues
   DEF Redeems, Releases, Atomic!RedeemCollateral, Atomic!ReleaseCollateral,
       Atomic!RedeemerIsHealthy, Atomic!coinVars

LEMMA DepositMintEnds ==
  ASSUME NEW y, Ends(y), NEW u, NEW t, NEW a, NEW b, NEW x,
         Deposits(saved, x, u, t, a), Mints(x, y, u, b)
  PROVE  Atomic!DepositCollateralAndMintCoin(u, t, a, b)
<1>1. Atomic!TakeDeposit(u, t, a)
  BY Outside, SameLedgers DEF Deposits, Mints, Atomic!TakeDeposit
<1>2. Atomic!IssueCoin(u, b)
  <2>1. /\ saved[2] = x[2] /\ saved[4] = x[4] /\ saved[5] = x[5]
    BY DEF Deposits
  <2> QED
    BY <2>1, Outside, SameLedgers, SameValues
       DEF Mints, Atomic!IssueCoin, Atomic!Mint, Atomic!OnlyOwner
<1> QED
  BY <1>1, <1>2, Outside DEF Atomic!DepositCollateralAndMintCoin

LEMMA BurnRedeemEnds ==
  ASSUME NEW y, Ends(y), NEW u, NEW t, NEW a, NEW b, NEW x,
         Burns(saved, x, u, b), Redeems(x, y, u, t, a)
  PROVE  Atomic!BurnCoinAndRedeemCollateral(u, t, a, b)
BY Outside, SameLedgers, SameValues
   DEF Burns, Retires, Redeems, Releases, Atomic!BurnCoinAndRedeemCollateral,
       Atomic!RetireCoin, Atomic!CanOwnerBurn, Atomic!OnlyOwner, Atomic!ReleaseCollateral,
       Atomic!RedeemerIsHealthy

LEMMA LiquidateEnds ==
  ASSUME NEW y, Ends(y), NEW u, NEW v, NEW t, NEW b, NEW x1, NEW x2,
         MaxUint \in Nat,
         Admits(saved, u, v, t, b),
         Releases(saved, x1, t, v, u, Payout(t, b)),
         Retires(x1, x2, v, u, b),
         y[1] = x2[1], y[2] = x2[2], y[3] = x2[3], y[4] = x2[4], y[5] = x2[5],
         HealthFactorFits(y[1][v], y[2][v]),
         HealthFactor(y[1][v], y[2][v]) > HealthFactor(saved[1][v], saved[2][v])
  PROVE  Atomic!Liquidate(u, v, t, b)
<1> DEFINE reward == TokenAmountFromINR(t, b)
<1>1. Payout(t, b) = reward + LiquidationBonus(reward)
  <2>1. FeedPrice(t) # 0
    BY MaxUintAssumption DEF Admits, TokenAmountFits
  <2> QED
    BY <2>1 DEF Payout
<1>2. Releases(saved, x1, t, v, u, reward + LiquidationBonus(reward))
  BY <1>1
<1>3. Atomic!CanLiquidate(u, v, t, b)
  BY Outside, SameValues DEF Admits, Atomic!CanLiquidate
<1>4. Atomic!ReleaseCollateral(t, v, u, reward + LiquidationBonus(reward))
  <2> HIDE DEF reward
  <2> QED
    BY <1>2, Outside, SameLedgers DEF Releases, Retires, Atomic!ReleaseCollateral
<1>5. Atomic!RetireCoin(v, u, b)
  <2> HIDE DEF reward
  <2> QED
    BY <1>2, Outside, SameLedgers DEF Releases, Retires, Atomic!RetireCoin,
       Atomic!CanOwnerBurn, Atomic!OnlyOwner
<1>6. Atomic!HealthFactorImproves(v)
  BY Outside, SameValues DEF Atomic!HealthFactorImproves
<1>7. /\ reward * LIQUIDATION_BONUS <= MaxUint
      /\ reward + LiquidationBonus(reward) <= MaxUint
  BY DEF Admits
<1>8. /\ Atomic!TokenAmountFromINR(t, b) = reward
      /\ Atomic!LiquidationBonus(reward) = LiquidationBonus(reward)
      /\ Atomic!LIQUIDATION_BONUS = LIQUIDATION_BONUS
  BY SameValues
<1> HIDE DEF reward
<1> QED
  BY <1>3, <1>4, <1>5, <1>6, <1>7, <1>8, Outside DEF Atomic!Liquidate

\* The last step of a transaction completes the replay.
LEMMA Completes ==
  ASSUME Ordered(steps), Continue, Len(steps) = 1, NEW T, NEW r, NEW n, Replays(T, r, n)
  PROVE  \E q : /\ q[0] = saved /\ Ends(q[Len(T)])
                /\ \A j \in 0 .. Len(T) - 1 :
                     /\ Leads(q[j], T[j + 1], q[j + 1], starting)
                     /\ T[j + 1].op = "checkUnhealthy" =>
                          starting = HealthFactor(q[j][1][T[j + 1].from], q[j][2][T[j + 1].from])
<1> PICK q : q = [j \in 0 .. n + 1 |-> IF j = n + 1 THEN storage' ELSE r[j]]
  OBVIOUS
<1>1. /\ n + 1 \in 1 .. Len(T) /\ n + 1 = Len(T)
      /\ r[0] = saved /\ r[n] = storage
      /\ Leads(storage, T[n + 1], storage', starting)
  BY TakesStep
<1>2. /\ IsTransaction(T, sender)
      /\ n \in Nat /\ Len(T) \in Nat
      /\ \A j \in 0 .. n - 1 :
           /\ Leads(r[j], T[j + 1], r[j + 1], starting)
           /\ T[j + 1].op = "checkUnhealthy" =>
                starting = HealthFactor(r[j][1][T[j + 1].from], r[j][2][T[j + 1].from])
  BY Formed DEF Replays
<1>3. /\ q[0] = saved /\ q[Len(T)] = storage'
      /\ \A j \in 0 .. n : q[j] = r[j]
  BY <1>1, <1>2
<1>4. Ends(q[Len(T)])
  <2>1. steps' = <<>> /\ Running /\ UNCHANGED price
    BY Rest DEF Continue, Running, Ordered
  <2> QED
    BY <1>3, <2>1 DEF Ends, Running
<1>5. ASSUME NEW j \in 0 .. Len(T) - 1
      PROVE  /\ Leads(q[j], T[j + 1], q[j + 1], starting)
             /\ T[j + 1].op = "checkUnhealthy" =>
                  starting = HealthFactor(q[j][1][T[j + 1].from], q[j][2][T[j + 1].from])
  <2>1. CASE j = n
    <3>1. T[j + 1].op # "checkUnhealthy"
      <4>1. \A i \in 1 .. Len(T) : T[i].op = "checkUnhealthy" => i = 2 /\ Len(T) > 2
        BY <1>2, Formed
      <4> QED
        BY <1>1, <1>2, <2>1, <4>1
    <3> QED
      BY <1>1, <1>2, <1>3, <2>1, <3>1
  <2>2. CASE j # n
    <3>1. j \in 0 .. n - 1 /\ q[j] = r[j] /\ q[j + 1] = r[j + 1]
      BY <1>1, <1>2, <1>3, <2>2
    <3> QED
      BY <1>2, <3>1
  <2> QED
    BY <2>1, <2>2
<1> QED
  BY <1>3, <1>4, <1>5

LEMMA EndIsStep ==
  ASSUME Ordered(steps), Continue, Len(steps) = 1, Replayed
  PROVE  Atomic!CallEngine(sender) /\ sender \in Users
<1>1. PICK T, r, n : Replays(T, r, n)
  BY DEF Replayed, Continue
<1> DEFINE u == sender
           h == starting
<1>2. PICK q : /\ q[0] = saved /\ Ends(q[Len(T)])
               /\ \A j \in 0 .. Len(T) - 1 :
                    /\ Leads(q[j], T[j + 1], q[j + 1], h)
                    /\ T[j + 1].op = "checkUnhealthy" =>
                         h = HealthFactor(q[j][1][T[j + 1].from], q[j][2][T[j + 1].from])
  BY <1>1, Completes
<1>3. IsTransaction(T, u) /\ u \in Users
  BY <1>1 DEF Replays
<1> HIDE DEF u, h
<1>4. ASSUME NEW t \in Tokens, NEW a \in CollateralAmounts,
             T = DepositSeries(u, t, a)
      PROVE  Atomic!CallEngine(u)
  <2>1. /\ Len(T) = 3
        /\ T[1] = Step("require", t, u, u, a)
        /\ T[2] = Step("recordDeposit", t, u, Engine, a)
        /\ T[3] = Step("pullToken", t, u, Engine, a)
    BY <1>4 DEF DepositSeries
  <2>2. /\ Leads(q[0], Step("require", t, u, u, a), q[1], h)
        /\ Leads(q[1], Step("recordDeposit", t, u, Engine, a), q[2], h)
        /\ Leads(q[2], Step("pullToken", t, u, Engine, a), q[3], h)
    BY <1>2, <2>1
  <2>3. Deposits(saved, q[3], u, t, a)
    BY <1>2, <2>2, DepositLeads
  <2>4. Atomic!DepositCollateral(u, t, a)
    BY <1>2, <2>1, <2>3, DepositEnds
  <2> QED
    BY <1>4, <2>4 DEF Atomic!CallEngine
<1>5. ASSUME NEW t \in Tokens, NEW a \in CollateralAmounts,
             T = RedeemSeries(u, t, a)
      PROVE  Atomic!CallEngine(u)
  <2>1. /\ Len(T) = 4
        /\ T[1] = Step("require", t, u, u, a)
        /\ T[2] = Step("recordRelease", t, u, u, a)
        /\ T[3] = Step("pushToken", t, Engine, u, a)
        /\ T[4] = Step("checkRedeemer", t, u, u, a)
    BY <1>5 DEF RedeemSeries
  <2>2. /\ Leads(q[0], Step("require", t, u, u, a), q[1], h)
        /\ Leads(q[1], Step("recordRelease", t, u, u, a), q[2], h)
        /\ Leads(q[2], Step("pushToken", t, Engine, u, a), q[3], h)
        /\ Leads(q[3], Step("checkRedeemer", t, u, u, a), q[4], h)
    BY <1>2, <2>1
  <2>3. Redeems(saved, q[4], u, t, a)
    BY <1>2, <2>2, RedeemLeads
  <2>4. Atomic!RedeemCollateral(u, t, a)
    BY <1>2, <2>1, <2>3, RedeemEnds
  <2> QED
    BY <1>5, <2>4 DEF Atomic!CallEngine
<1>6. ASSUME NEW t \in Tokens, NEW b \in CoinAmounts,
             T = MintSeries(u, t, b)
      PROVE  Atomic!CallEngine(u)
  <2>1. /\ Len(T) = 4
        /\ T[1] = Step("require", t, u, u, b)
        /\ T[2] = Step("recordDebt", t, u, u, b)
        /\ T[3] = Step("checkHealth", t, u, u, b)
        /\ T[4] = Step("mintCoin", t, Engine, u, b)
    BY <1>6 DEF MintSeries
  <2>2. /\ Leads(q[0], Step("require", t, u, u, b), q[1], h)
        /\ Leads(q[1], Step("recordDebt", t, u, u, b), q[2], h)
        /\ Leads(q[2], Step("checkHealth", t, u, u, b), q[3], h)
        /\ Leads(q[3], Step("mintCoin", t, Engine, u, b), q[4], h)
    BY <1>2, <2>1
  <2>3. Mints(saved, q[4], u, b)
    BY <1>2, <2>2, MintLeads
  <2>4. Atomic!MintCoin(u, b)
    BY <1>2, <2>1, <2>3, MintEnds
  <2> QED
    BY <1>6, <2>4 DEF Atomic!CallEngine
<1>7. ASSUME NEW t \in Tokens, NEW b \in CoinAmounts,
             T = BurnSeries(u, t, b)
      PROVE  Atomic!CallEngine(u)
  <2>1. /\ Len(T) = 4
        /\ T[1] = Step("require", t, u, u, b)
        /\ T[2] = Step("recordRepayment", t, u, u, b)
        /\ T[3] = Step("pullCoin", t, u, Engine, b)
        /\ T[4] = Step("burnCoin", t, Engine, Engine, b)
    BY <1>7 DEF BurnSeries
  <2>2. /\ Leads(q[0], Step("require", t, u, u, b), q[1], h)
        /\ Leads(q[1], Step("recordRepayment", t, u, u, b), q[2], h)
        /\ Leads(q[2], Step("pullCoin", t, u, Engine, b), q[3], h)
        /\ Leads(q[3], Step("burnCoin", t, Engine, Engine, b), q[4], h)
    BY <1>2, <2>1
  <2>3. Burns(saved, q[4], u, b)
    BY <1>2, <2>2, BurnLeads
  <2>4. Atomic!BurnCoin(u, b)
    BY <1>2, <2>1, <2>3, BurnEnds
  <2> QED
    BY <1>7, <2>4 DEF Atomic!CallEngine
<1>8. ASSUME NEW t \in Tokens, NEW a \in CollateralAmounts, NEW b \in CoinAmounts,
             T = DepositMintSeries(u, t, a, b)
      PROVE  Atomic!CallEngine(u)
  <2>1. /\ Len(T) = 7
        /\ T[1] = Step("require", t, u, u, a)
        /\ T[2] = Step("recordDeposit", t, u, Engine, a)
        /\ T[3] = Step("pullToken", t, u, Engine, a)
        /\ T[4] = Step("require", t, u, u, b)
        /\ T[5] = Step("recordDebt", t, u, u, b)
        /\ T[6] = Step("checkHealth", t, u, u, b)
        /\ T[7] = Step("mintCoin", t, Engine, u, b)
    BY <1>8 DEF DepositMintSeries
  <2>2. /\ Leads(q[0], Step("require", t, u, u, a), q[1], h)
        /\ Leads(q[1], Step("recordDeposit", t, u, Engine, a), q[2], h)
        /\ Leads(q[2], Step("pullToken", t, u, Engine, a), q[3], h)
        /\ Leads(q[3], Step("require", t, u, u, b), q[4], h)
        /\ Leads(q[4], Step("recordDebt", t, u, u, b), q[5], h)
        /\ Leads(q[5], Step("checkHealth", t, u, u, b), q[6], h)
        /\ Leads(q[6], Step("mintCoin", t, Engine, u, b), q[7], h)
    BY <1>2, <2>1
  <2>3. /\ Deposits(saved, q[3], u, t, a)
        /\ Mints(q[3], q[7], u, b)
    BY <1>2, <2>2, DepositLeads, MintLeads
  <2>4. Atomic!DepositCollateralAndMintCoin(u, t, a, b)
    BY <1>2, <2>1, <2>3, DepositMintEnds
  <2> QED
    BY <1>8, <2>4 DEF Atomic!CallEngine
<1>9. ASSUME NEW t \in Tokens, NEW a \in CollateralAmounts, NEW b \in CoinAmounts,
             T = BurnRedeemSeries(u, t, a, b)
      PROVE  Atomic!CallEngine(u)
  <2>1. /\ Len(T) = 8
        /\ T[1] = Step("require", t, u, u, b)
        /\ T[2] = Step("recordRepayment", t, u, u, b)
        /\ T[3] = Step("pullCoin", t, u, Engine, b)
        /\ T[4] = Step("burnCoin", t, Engine, Engine, b)
        /\ T[5] = Step("require", t, u, u, a)
        /\ T[6] = Step("recordRelease", t, u, u, a)
        /\ T[7] = Step("pushToken", t, Engine, u, a)
        /\ T[8] = Step("checkRedeemer", t, u, u, a)
    BY <1>9 DEF BurnRedeemSeries
  <2>2. /\ Leads(q[0], Step("require", t, u, u, b), q[1], h)
        /\ Leads(q[1], Step("recordRepayment", t, u, u, b), q[2], h)
        /\ Leads(q[2], Step("pullCoin", t, u, Engine, b), q[3], h)
        /\ Leads(q[3], Step("burnCoin", t, Engine, Engine, b), q[4], h)
        /\ Leads(q[4], Step("require", t, u, u, a), q[5], h)
        /\ Leads(q[5], Step("recordRelease", t, u, u, a), q[6], h)
        /\ Leads(q[6], Step("pushToken", t, Engine, u, a), q[7], h)
        /\ Leads(q[7], Step("checkRedeemer", t, u, u, a), q[8], h)
    BY <1>2, <2>1
  <2>3. /\ Burns(saved, q[4], u, b)
        /\ Redeems(q[4], q[8], u, t, a)
    BY <1>2, <2>2, BurnLeads, RedeemLeads
  <2>4. Atomic!BurnCoinAndRedeemCollateral(u, t, a, b)
    BY <1>2, <2>1, <2>3, BurnRedeemEnds
  <2> QED
    BY <1>9, <2>4 DEF Atomic!CallEngine
<1>10. ASSUME NEW v \in Users, NEW t \in Tokens, NEW b \in CoinAmounts,
              T = LiquidateSeries(u, v, t, Payout(t, b), b)
       PROVE  Atomic!CallEngine(u)
  <2>1. /\ Len(T) = 9
        /\ T[1] = Step("checkHealth", t, u, u, b)
        /\ T[2] = Step("checkUnhealthy", t, v, v, b)
        /\ T[3] = Step("checkReward", t, v, v, b)
        /\ T[4] = Step("recordRelease", t, v, u, Payout(t, b))
        /\ T[5] = Step("pushToken", t, Engine, u, Payout(t, b))
        /\ T[6] = Step("recordRepayment", t, v, u, b)
        /\ T[7] = Step("pullCoin", t, u, Engine, b)
        /\ T[8] = Step("burnCoin", t, Engine, Engine, b)
        /\ T[9] = Step("checkImproved", t, v, v, b)
    BY <1>10 DEF LiquidateSeries
  <2>2. /\ Leads(q[0], Step("checkHealth", t, u, u, b), q[1], h)
        /\ Leads(q[1], Step("checkUnhealthy", t, v, v, b), q[2], h)
        /\ Leads(q[2], Step("checkReward", t, v, v, b), q[3], h)
        /\ Leads(q[3], Step("recordRelease", t, v, u, Payout(t, b)), q[4], h)
        /\ Leads(q[4], Step("pushToken", t, Engine, u, Payout(t, b)), q[5], h)
        /\ Leads(q[5], Step("recordRepayment", t, v, u, b), q[6], h)
        /\ Leads(q[6], Step("pullCoin", t, u, Engine, b), q[7], h)
        /\ Leads(q[7], Step("burnCoin", t, Engine, Engine, b), q[8], h)
        /\ Leads(q[8], Step("checkImproved", t, v, v, b), q[9], h)
    BY <1>2, <2>1
  <2>3. /\ Admits(saved, u, v, t, b)
        /\ q[1][1] = saved[1] /\ q[1][2] = saved[2]
        /\ q[3][1] = saved[1] /\ q[3][2] = saved[2] /\ q[3][3] = saved[3]
        /\ q[3][4] = saved[4] /\ q[3][5] = saved[5]
    BY <1>2, <2>2, LiquidationLeads
  <2>4. Releases(q[3], q[5], t, v, u, Payout(t, b))
    BY <2>2, ReleaseLeads
  <2>5. Retires(q[5], q[8], v, u, b)
    BY <2>2, RetireLeads
  <2>6. /\ HealthFactorFits(q[9][1][v], q[9][2][v])
        /\ HealthFactor(q[9][1][v], q[9][2][v]) > h
        /\ q[9][1] = q[8][1] /\ q[9][2] = q[8][2] /\ q[9][3] = q[8][3]
        /\ q[9][4] = q[8][4] /\ q[9][5] = q[8][5]
    BY <2>2, ImprovedLeads
  <2>7. h = HealthFactor(saved[1][v], saved[2][v])
    <3>1. T[1 + 1].op = "checkUnhealthy" /\ T[1 + 1].from = v
      BY <2>1 DEF Step
    <3>2. h = HealthFactor(q[1][1][v], q[1][2][v])
      BY <1>2, <2>1, <3>1
    <3> QED
      BY <2>3, <3>2
  <2>8. Releases(saved, q[5], t, v, u, Payout(t, b))
    BY <2>3, <2>4 DEF Releases
  <2>9. Atomic!Liquidate(u, v, t, b)
    BY <1>2, <2>1, <2>3, <2>5, <2>6, <2>7, <2>8, LiquidateEnds, MaxUintAssumption
  <2> QED
    BY <1>10, <2>9 DEF Atomic!CallEngine
<1>11. Atomic!CallEngine(u)
  BY <1>3, <1>4, <1>5, <1>6, <1>7, <1>8, <1>9, <1>10 DEF IsTransaction
<1> QED
  BY <1>3, <1>11 DEF u

-----------------------------------------------------------------------------
(* The other steps.                                                        *)

\* Between transactions the present state is what is seen.
LEMMA Inside ==
  ASSUME ~Running, ~Running'
  PROVE  /\ (IF Running THEN saved[1] ELSE s_collateralDeposited) = s_collateralDeposited
         /\ (IF Running THEN saved[2] ELSE s_coinMinted) = s_coinMinted
         /\ (IF Running THEN saved[3] ELSE tokens) = tokens
         /\ (IF Running THEN saved[4] ELSE coin) = coin
         /\ (IF Running THEN saved[5] ELSE owner) = owner
         /\ (IF Running THEN saved[1] ELSE s_collateralDeposited)' = s_collateralDeposited'
         /\ (IF Running THEN saved[2] ELSE s_coinMinted)' = s_coinMinted'
         /\ (IF Running THEN saved[3] ELSE tokens)' = tokens'
         /\ (IF Running THEN saved[4] ELSE coin)' = coin'
         /\ (IF Running THEN saved[5] ELSE owner)' = owner'
OBVIOUS

LEMMA ElsewhereIsStep ==
  ASSUME Elsewhere
  PROVE  Atomic!Next
<1>1. ~Running /\ ~Running'
  BY DEF Elsewhere, Running
<1>2. CASE HandOverCoin
  <2>1. Atomic!HandOverCoin
    BY <1>1, <1>2, Inside
       DEF HandOverCoin, Atomic!HandOverCoin, TransferOwnership, Atomic!TransferOwnership,
           OnlyOwner, Atomic!OnlyOwner, engineVars, Atomic!engineVars
  <2> QED
    BY <2>1 DEF Atomic!Next
<1>3. ASSUME NEW u \in Users, UseCoin(u)
      PROVE  Atomic!Next
  <2>1. /\ UNCHANGED <<s_collateralDeposited, s_coinMinted, tokens, price>>
        /\ \/ \E to \in Users \cup {Engine}, amount \in CoinAmounts : Transfer(u, to, amount)
           \/ \E a \in Approvals : a[1] = u /\ Approve(u, a[2], a[3])
           \/ \E from \in Users, amount \in CoinAmounts :
                \/ BurnFrom(u, from, amount)
                \/ \E to \in Users \cup {Engine} : TransferFrom(u, from, to, amount)
    BY <1>3 DEF UseCoin, engineVars
  <2>2. /\ \A x, n : Transfer(u, x, n) => Atomic!Transfer(u, x, n)
        /\ \A x, n : Approve(u, x, n) => Atomic!Approve(u, x, n)
        /\ \A x, n : BurnFrom(u, x, n) => Atomic!BurnFrom(u, x, n)
        /\ \A x, y, n : TransferFrom(u, x, y, n) => Atomic!TransferFrom(u, x, y, n)
    <3>1. \A x, n : Transfer(u, x, n) => Atomic!Transfer(u, x, n)
      BY <1>1, Inside, SameLedgers DEF Transfer, Atomic!Transfer
    <3>2. \A x, n : Approve(u, x, n) => Atomic!Approve(u, x, n)
      BY <1>1, Inside, SameLedgers DEF Approve, Atomic!Approve
    <3>3. \A x, n : BurnFrom(u, x, n) => Atomic!BurnFrom(u, x, n)
      BY <1>1, Inside, SameLedgers DEF BurnFrom, Atomic!BurnFrom
    <3>4. \A x, y, n : TransferFrom(u, x, y, n) => Atomic!TransferFrom(u, x, y, n)
      BY <1>1, Inside, SameLedgers DEF TransferFrom, Atomic!TransferFrom
    <3> QED
      BY <3>1, <3>2, <3>3, <3>4
  <2>3. Atomic!UseCoin(u)
    BY <1>1, <2>1, <2>2, Inside DEF Atomic!UseCoin, Atomic!engineVars
  <2> QED
    BY <2>3 DEF Atomic!Next
<1>4. ASSUME NEW u \in Users, NEW t \in Tokens, UseToken(u, t)
      PROVE  Atomic!Next
  <2>1. Atomic!UseToken(u, t)
    BY <1>1, <1>4, Inside, SameLedgers
       DEF UseToken, Atomic!UseToken, engineVars, coinVars, Atomic!engineVars, Atomic!coinVars
  <2> QED
    BY <2>1 DEF Atomic!Next
<1>5. ASSUME NEW t \in Tokens, UpdateAnswer(t)
      PROVE  Atomic!Next
  <2>1. Atomic!UpdateAnswer(t)
    BY <1>1, <1>5, Inside
       DEF UpdateAnswer, Atomic!UpdateAnswer, engineVars, coinVars, Atomic!engineVars,
           Atomic!coinVars
  <2> QED
    BY <2>1 DEF Atomic!Next
<1> QED
  BY <1>2, <1>3, <1>4, <1>5 DEF Elsewhere

\* From outside nothing happens while a transaction runs, nor when it fails.
LEMMA NothingSeen ==
  ASSUME \/ \E u \in Users : Begin(u)
         \/ Continue /\ Len(steps) # 1 /\ Ordered(steps)
         \/ Revert
         \/ UNCHANGED callVars
  PROVE  UNCHANGED Atomic!vars
<1> DEFINE Goal == /\ UNCHANGED price
                   /\ UNCHANGED (IF Running THEN saved[1] ELSE s_collateralDeposited)
                   /\ UNCHANGED (IF Running THEN saved[2] ELSE s_coinMinted)
                   /\ UNCHANGED (IF Running THEN saved[3] ELSE tokens)
                   /\ UNCHANGED (IF Running THEN saved[4] ELSE coin)
                   /\ UNCHANGED (IF Running THEN saved[5] ELSE owner)
<1>1. ASSUME NEW u \in Users, Begin(u)
      PROVE  Goal
  BY <1>1 DEF Begin, vars, engineVars, coinVars, storage
<1>2. ASSUME Continue /\ Len(steps) # 1 /\ Ordered(steps)
      PROVE  Goal
  <2>1. Running /\ Running' /\ UNCHANGED <<price, saved>>
    BY <1>2, Rest DEF Continue, Running, Ordered
  <2> QED
    BY <2>1
<1>3. ASSUME Revert
      PROVE  Goal
  <2>1. Running /\ ~Running' /\ UNCHANGED price
    BY <1>3 DEF Revert, Running
  <2> QED
    BY <1>3, <2>1 DEF Revert, Undo
<1>4. ASSUME UNCHANGED callVars
      PROVE  Goal
  <2>1. UNCHANGED <<s_collateralDeposited, s_coinMinted, tokens, price, coin, owner, steps, saved>>
    BY <1>4 DEF callVars, vars, engineVars, coinVars
  <2> QED
    BY <2>1 DEF Running
<1>5. Goal
  BY <1>1, <1>2, <1>3, <1>4
<1> QED
  BY <1>5 DEF Atomic!vars, Atomic!engineVars, Atomic!coinVars

LEMMA InitIsInit ==
  ASSUME CallsInit
  PROVE  Atomic!Init
<1>1. ~Running /\ Init
  BY DEF CallsInit, Running
<1>2. Atomic!EmptyLedger = EmptyLedger
  BY DEF Atomic!EmptyLedger, EmptyLedger
<1> QED
  BY <1>1, <1>2, SameValues DEF Init, Atomic!Init, CoinInit, Atomic!CoinInit

\* What is replayed is carried on from step to step.
LEMMA ReplayInvariant == CallsSpec => []Replayed
<1>1. CallsInit => Replayed
  BY DEF CallsInit, Replayed, Running
<1>2. CallsIInv /\ Replayed /\ [CallsNext]_callVars => Replayed'
  <2> SUFFICES ASSUME CallsIInv, Replayed, [CallsNext]_callVars
               PROVE  Replayed'
    OBVIOUS
  <2>1. Ordered(steps) /\ price \in [Tokens -> UInt]
    BY DEF CallsIInv, TypesOK
  <2>2. ASSUME NEW u \in Users, Begin(u)
        PROVE  Replayed'
    BY <2>1, <2>2, BeginReplays
  <2>3. CASE Continue
    <3>1. CASE Len(steps) = 1
      <4>1. ~Running'
        BY <2>1, <2>3, <3>1, Rest DEF Continue, Running, Ordered
      <4> QED
        BY <4>1 DEF Replayed
    <3>2. CASE Len(steps) # 1
      <4>1. PICK T, r, n : Replays(T, r, n)
        BY <2>3 DEF Continue, Replayed
      <4> QED
        BY <2>1, <2>3, <3>2, <4>1, ContinueReplays
    <3> QED
      BY <3>1, <3>2
  <2>4. CASE Revert \/ Elsewhere
    <3>1. ~Running'
      BY <2>4 DEF Revert, Elsewhere, Running
    <3> QED
      BY <3>1 DEF Replayed
  <2>5. CASE UNCHANGED callVars
    <3>1. UNCHANGED <<price, steps, sender, starting, saved>> /\ storage' = storage
      BY <2>5 DEF callVars, vars, engineVars, coinVars, storage
    <3>2. ASSUME Running'
          PROVE  \E T, r, n : Replays(T, r, n)'
      <4>1. PICK T, r, n : Replays(T, r, n)
        BY <3>1, <3>2 DEF Replayed, Running
      <4>2. IsTransaction(T, sender)'
        BY <3>1, <4>1, SamePrice DEF IsTransaction, Replays
      <4>3. /\ Len(T) \in Nat /\ \A i \in 1 .. Len(T) : T[i].op \in Operations
            /\ n \in Nat /\ n < Len(T)
        BY <4>1, Formed DEF Replays
      <4>4. ASSUME NEW j \in 0 .. n - 1
            PROVE  /\ Leads(r[j], T[j + 1], r[j + 1], starting)'
                   /\ T[j + 1].op = "checkUnhealthy" =>
                        starting' = HealthFactor(r[j][1][T[j + 1].from], r[j][2][T[j + 1].from])'
        <5> PICK k : k = starting
          OBVIOUS
        <5>1. /\ Leads(r[j], T[j + 1], r[j + 1], k)
              /\ T[j + 1].op = "checkUnhealthy" =>
                   k = HealthFactor(r[j][1][T[j + 1].from], r[j][2][T[j + 1].from])
          BY <4>1 DEF Replays
        <5>2. T[j + 1].op \in Operations
          BY <4>3
        <5>3. Leads(r[j], T[j + 1], r[j + 1], k)'
          BY <3>1, <5>1, <5>2, LeadsLater
        <5>4. k = starting'
          BY <3>1
        <5> QED
          BY <3>1, <5>1, <5>3, <5>4, SamePrice
      <4>5. Replays(T, r, n)'
        BY <3>1, <4>1, <4>2, <4>4 DEF Replays
      <4> QED
        BY <4>5
    <3> QED
      BY <3>2 DEF Replayed
  <2> QED
    BY <2>2, <2>3, <2>4, <2>5 DEF CallsNext
<1> QED
  BY <1>1, <1>2, CallsInvariant, PTL DEF CallsSpec

\* Every transaction, carried out call by call and undone when any call or
\* check of it fails, is one step of the engine or none.
THEOREM TransactionsAreAtomic == CallsSpec => AtomicSpec
<1>1. CallsInit => Atomic!Init
  BY InitIsInit
<1>2. CallsIInv /\ Replayed /\ [CallsNext]_callVars => [Atomic!Next]_(Atomic!vars)
  <2> SUFFICES ASSUME CallsIInv, Replayed, [CallsNext]_callVars
               PROVE  Atomic!Next \/ UNCHANGED Atomic!vars
    OBVIOUS
  <2>1. Ordered(steps)
    BY DEF CallsIInv
  <2>2. CASE Continue /\ Len(steps) = 1
    BY <2>1, <2>2, EndIsStep DEF Atomic!Next
  <2>3. CASE Elsewhere
    BY <2>3, ElsewhereIsStep
  <2>4. CASE \/ \E u \in Users : Begin(u)
             \/ Continue /\ Len(steps) # 1
             \/ Revert
             \/ UNCHANGED callVars
    BY <2>1, <2>4, NothingSeen
  <2> QED
    BY <2>2, <2>3, <2>4 DEF CallsNext
<1> QED
  BY <1>1, <1>2, CallsInvariant, ReplayInvariant, PTL DEF CallsSpec, AtomicSpec, Atomic!Spec
=============================================================================
