------------------------------- MODULE ERC20 -------------------------------
(***************************************************************************)
(* The ledger behind an OpenZeppelin ERC20 token: balances, allowances and *)
(* the total supply.  The module has no variables.  Each internal function *)
(* of the contract is a pair of operators on a ledger l: Can...(l, ...) is *)
(* the conjunction of its require statements (a call that fails one of     *)
(* them reverts and changes nothing), and the operator named by a          *)
(* participle is the ledger the call leaves behind.                        *)
(*                                                                         *)
(* Solidity integers are uint256: MaxUint stands for type(uint256).max,    *)
(* checked additions carry a guard, and the arithmetic the source puts in  *)
(* `unchecked' blocks wraps around.                                        *)
(***************************************************************************)
EXTENDS Integers, FiniteSets, Functions

CONSTANTS Addresses,    \* every account that can occur, the null one included
          ZeroAddress,  \* address(0)
          MaxUint       \* type(uint256).max

ASSUME AddressAssumption ==
  /\ ZeroAddress \in Addresses
  /\ IsFiniteSet(Addresses)

ASSUME MaxUintAssumption == MaxUint \in Nat

UInt == 0 .. MaxUint

Unchecked(n) == n % (MaxUint + 1)

Ledger == [balances    : [Addresses -> UInt],
           allowances  : [Addresses -> [Addresses -> UInt]],
           totalSupply : UInt]

EmptyLedger == [balances    |-> [x \in Addresses |-> 0],
                allowances  |-> [x \in Addresses |-> [y \in Addresses |-> 0]],
                totalSupply |-> 0]

\* What _transfer would do if it read both balances before writing either.
TransferredStale(l, from, to, amount) ==
  [l EXCEPT !.balances =
     [@ EXCEPT ![from] = Unchecked(@ - amount),
               ![to]   = Unchecked(l.balances[to] + amount)]]

\* _transfer.  The credit reads the balance the debit has already written,
\* so a transfer to oneself changes nothing.
CanTransfer(l, from, to, amount) ==
  /\ from # ZeroAddress
  /\ to # ZeroAddress
  /\ l.balances[from] >= amount

Transferred(l, from, to, amount) ==
  LET debited == [l.balances EXCEPT ![from] = Unchecked(@ - amount)]
  IN  [l EXCEPT !.balances = [debited EXCEPT ![to] = Unchecked(@ + amount)]]

\* _mint without the checked addition to the total supply.
CanMintUnchecked(l, account, amount) == account # ZeroAddress

\* _mint: the total supply is added to with an overflow check, the balance
\* without one.
CanMint(l, account, amount) ==
  /\ account # ZeroAddress
  /\ l.totalSupply + amount <= MaxUint

Minted(l, account, amount) ==
  [l EXCEPT !.totalSupply = @ + amount,
            !.balances[account] = Unchecked(@ + amount)]

\* _burn.
CanBurn(l, account, amount) ==
  /\ account # ZeroAddress
  /\ l.balances[account] >= amount

Burned(l, account, amount) ==
  [l EXCEPT !.balances[account] = Unchecked(@ - amount),
            !.totalSupply = Unchecked(@ - amount)]

\* _approve.
CanApprove(l, holder, spender) ==
  /\ holder # ZeroAddress
  /\ spender # ZeroAddress

Approved(l, holder, spender, amount) ==
  [l EXCEPT !.allowances[holder][spender] = amount]

\* _spendAllowance: an allowance of MaxUint is infinite and is never reduced.
CanSpendAllowance(l, holder, spender, amount) ==
  l.allowances[holder][spender] # MaxUint =>
    /\ l.allowances[holder][spender] >= amount
    /\ CanApprove(l, holder, spender)

AllowanceSpent(l, holder, spender, amount) ==
  IF l.allowances[holder][spender] = MaxUint
    THEN l
    ELSE Approved(l, holder, spender,
                  Unchecked(l.allowances[holder][spender] - amount))

\* transferFrom, called by spender.
CanTransferFrom(l, spender, from, to, amount) ==
  /\ CanSpendAllowance(l, from, spender, amount)
  /\ CanTransfer(AllowanceSpent(l, from, spender, amount), from, to, amount)

TransferredFrom(l, spender, from, to, amount) ==
  Transferred(AllowanceSpent(l, from, spender, amount), from, to, amount)

\* The sum of all balances of a ledger, as the comments in the contract mean
\* it: an unbounded integer.
SumOfBalances(l) == SumFunction(l.balances)
=============================================================================
