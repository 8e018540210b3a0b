-------------------------- MODULE CollateralVault --------------------------
(***************************************************************************)
(* What the Rupee Coin Engine promises about the positions of its users,   *)
(* with no tokens, no transactions and no machine integers.  A position is *)
(* what a user has locked of each token and what the user owes.  It is     *)
(* safe when the locked tokens are worth at least twice the debt.  Only    *)
(* three things happen:                                                    *)
(*                                                                         *)
(*   - the market moves;                                                   *)
(*   - a user adjusts the own position, which must then be safe unless the *)
(*     change only repays debt and adds collateral;                        *)
(*   - an unsafe position is seized in part: some debt is repaid, tokens   *)
(*     of one kind worth that debt and at most five percent more leave     *)
(*     (to within one unit of the token), and the position is better       *)
(*     covered than before.                                                *)
(***************************************************************************)
EXTENDS Integers, Functions

CONSTANTS Users, Tokens,
          One   \* the fixed-point representation of 1 in rate

VARIABLES locked,   \* locked[u][t]: amount of token t that user u has locked
          debt,     \* debt[u]: coins user u owes
          rate      \* rate[t]: INR per token t, times One

vars == <<locked, debt, rate>>

TypeOK ==
  /\ locked \in [Users -> [Tokens -> Nat]]
  /\ debt \in [Users -> Nat]
  /\ rate \in [Tokens -> Nat]

\* The INR worth of a bundle of tokens, each amount rounded down.
Worth(bundle) == SumFunction([t \in Tokens |-> (rate[t] * bundle[t]) \div One])

Safe(u) == debt[u] = 0 \/ Worth(locked[u]) >= 2 * debt[u]

\* Half of what is locked is what may stand against debt.
Cover(u) == Worth(locked[u]) \div 2

Init ==
  /\ locked = [u \in Users |-> [t \in Tokens |-> 0]]
  /\ debt = [u \in Users |-> 0]
  /\ rate \in [Tokens -> Nat]

\* A step that changes the position of u only.
Moves(u) ==
  /\ locked' \in [Users -> [Tokens -> Nat]]
  /\ debt' \in [Users -> Nat]
  /\ UNCHANGED rate
  /\ \A v \in Users \ {u} : locked'[v] = locked[v] /\ debt'[v] = debt[v]

Reprice ==
  /\ rate' \in [Tokens -> Nat]
  /\ UNCHANGED <<locked, debt>>

Strengthens(u) ==
  /\ debt'[u] <= debt[u]
  /\ \A t \in Tokens : locked'[u][t] >= locked[u][t]

Adjust(u) ==
  /\ Moves(u)
  /\ Strengthens(u) \/ Safe(u)'

\* The seizure of `amount' of token t for the repayment of x of u's debt.
Seize(u, t) ==
  LET amount == locked[u][t] - locked'[u][t]
      x      == debt[u] - debt'[u]
  IN  /\ ~Safe(u)
      /\ Moves(u)
      /\ \A s \in Tokens \ {t} : locked'[u][s] = locked[u][s]
      /\ amount >= 0
      /\ x > 0
      /\ rate[t] * (amount + 1) > One * x
      /\ 100 * rate[t] * amount <= 105 * One * x
      /\ debt'[u] > 0 => Cover(u)' * debt[u] > Cover(u) * debt'[u]

Next ==
  \/ Reprice
  \/ \E u \in Users : Adjust(u)
  \/ \E u \in Users, t \in Tokens : Seize(u, t)

Spec == Init /\ [][Next]_vars

-----------------------------------------------------------------------------
\* Nothing but the market can make a safe position unsafe: neither its owner
\* nor any other user.
OnlyTheMarketEndangers ==
  [][\A u \in Users : Safe(u) /\ ~Safe(u)' => rate' # rate]_vars
=============================================================================
