----------------------------- MODULE RupeeCoin -----------------------------
(***************************************************************************)
(* The Rupee Coin contract: an ERC20Burnable and Ownable token whose mint  *)
(* and burn belong to the owner.  An action is one successful transaction, *)
(* called by the account named sender; a call that reverts is a stuttering *)
(* step.  burnFrom and the allowance functions are inherited, so they are  *)
(* open to every holder.                                                   *)
(***************************************************************************)
EXTENDS ERC20

CONSTANTS Deployer,     \* the account that runs the deployment
          CoinAmounts   \* bound: the amounts a call may carry

ASSUME DeployerAssumption == Deployer \in Addresses \ {ZeroAddress}

ASSUME CoinAmountsAssumption == CoinAmounts \subseteq UInt

VARIABLES coin,   \* the ledger of Rupee Coins
          owner   \* Ownable's _owner

coinVars == <<coin, owner>>

Senders == Addresses \ {ZeroAddress}

CoinTypeOK ==
  /\ coin \in Ledger
  /\ owner \in Addresses

CoinInit ==
  /\ coin = EmptyLedger
  /\ owner = Deployer

-----------------------------------------------------------------------------
\* The onlyOwner modifier forgotten.
AnySender(sender) == TRUE

OnlyOwner(sender) == owner = sender

\* RupeeCoin.mint
Mint(sender, to, amount) ==
  /\ OnlyOwner(sender)
  /\ amount # 0
  /\ CanMint(coin, to, amount)
  /\ coin' = Minted(coin, to, amount)
  /\ UNCHANGED owner

\* The checks and the effect of RupeeCoin.burn on a ledger l; the engine
\* calls it on the ledger its transferFrom has just left behind.
CanOwnerBurn(l, sender, amount) ==
  /\ OnlyOwner(sender)
  /\ amount # 0
  /\ CanBurn(l, sender, amount)

Burn(sender, amount) ==
  /\ CanOwnerBurn(coin, sender, amount)
  /\ coin' = Burned(coin, sender, amount)
  /\ UNCHANGED owner

\* burnFrom with the call to _spendAllowance left out.
BurnFromUnspent(sender, account, amount) ==
  /\ CanBurn(coin, account, amount)
  /\ coin' = Burned(coin, account, amount)
  /\ UNCHANGED owner

\* ERC20Burnable.burnFrom is not overridden, hence has no onlyOwner.
BurnFrom(sender, account, amount) ==
  /\ CanSpendAllowance(coin, account, sender, amount)
  /\ LET spent == AllowanceSpent(coin, account, sender, amount)
     IN  /\ CanBurn(spent, account, amount)
         /\ coin' = Burned(spent, account, amount)
  /\ UNCHANGED owner

Transfer(sender, to, amount) ==
  /\ CanTransfer(coin, sender, to, amount)
  /\ coin' = Transferred(coin, sender, to, amount)
  /\ UNCHANGED owner

TransferFrom(sender, from, to, amount) ==
  /\ CanTransferFrom(coin, sender, from, to, amount)
  /\ coin' = TransferredFrom(coin, sender, from, to, amount)
  /\ UNCHANGED owner

Approve(sender, spender, amount) ==
  /\ CanApprove(coin, sender, spender)
  /\ coin' = Approved(coin, sender, spender, amount)
  /\ UNCHANGED owner

\* A checked addition, so an allowance may be raised up to MaxUint exactly
\* and thereby become infinite.
IncreaseAllowance(sender, spender, amount) ==
  /\ coin.allowances[sender][spender] + amount <= MaxUint
  /\ Approve(sender, spender, coin.allowances[sender][spender] + amount)

DecreaseAllowance(sender, spender, amount) ==
  /\ coin.allowances[sender][spender] >= amount
  /\ Approve(sender, spender, coin.allowances[sender][spender] - amount)

TransferOwnership(sender, newOwner) ==
  /\ OnlyOwner(sender)
  /\ newOwner # ZeroAddress
  /\ owner' = newOwner
  /\ UNCHANGED coin

RenounceOwnership(sender) ==
  /\ OnlyOwner(sender)
  /\ owner' = ZeroAddress
  /\ UNCHANGED coin

-----------------------------------------------------------------------------
\* Every transaction that sender can send to the contract.
CallBy(sender) ==
  \/ RenounceOwnership(sender)
  \/ \E x \in Addresses : TransferOwnership(sender, x)
  \/ \E amount \in CoinAmounts :
       \/ Burn(sender, amount)
       \/ \E x \in Addresses :
            \/ Mint(sender, x, amount)
            \/ BurnFrom(sender, x, amount)
            \/ Transfer(sender, x, amount)
            \/ Approve(sender, x, amount)
            \/ IncreaseAllowance(sender, x, amount)
            \/ DecreaseAllowance(sender, x, amount)
            \/ \E y \in Addresses : TransferFrom(sender, x, y, amount)

CoinNext == \E sender \in Senders : CallBy(sender)

CoinSpec == CoinInit /\ [][CoinNext]_coinVars

-----------------------------------------------------------------------------
\* The balances always add up to the total supply, as unbounded integers: no
\* unchecked addition or subtraction in the token ever wraps around.  This is
\* what the comments in _transfer, _mint and _burn rely on.
SupplyIsSumOfBalances == SumOfBalances(coin) = coin.totalSupply

\* Whoever calls, a balance other than the caller's own only shrinks by an
\* amount its holder allowed the caller to take, and a finite allowance
\* shrinks by as much in the same transaction (_spendAllowance).
NoTakingWithoutAllowance ==
  [][\A sender \in Senders, x \in Addresses :
       /\ x # sender
       /\ coin'.balances[x] < coin.balances[x]
       /\ CallBy(sender)
       => LET taken   == coin.balances[x] - coin'.balances[x]
              allowed == coin.allowances[x][sender]
          IN  \/ allowed = MaxUint
              \/ /\ allowed >= taken
                 /\ coin'.allowances[x][sender] = allowed - taken]_coinVars

\* The supply grows only by a mint of the present owner, into one balance; a
\* coin whose ownership was renounced can never be minted nor owned again.
OnlyAnOwnerMints ==
  [][/\ coin'.totalSupply > coin.totalSupply =>
          /\ owner # ZeroAddress
          /\ \A sender \in Senders \ {owner} : ~CallBy(sender)
     /\ owner = ZeroAddress => owner' = ZeroAddress]_coinVars
=============================================================================
