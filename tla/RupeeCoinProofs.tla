-------------------------- MODULE RupeeCoinProofs --------------------------
(***************************************************************************)
(* Proofs about the coin contract, for any finite set of accounts and any  *)
(* width of its integers.                                                  *)
(***************************************************************************)
EXTENDS RupeeCoin, ArithmeticLemmas

-----------------------------------------------------------------------------
(* The ledger: what the functions of a token do to one whose balances add  *)
(* up to its supply.  Nothing wraps around, and the balances still add up. *)


\* A ledger as the contract keeps it.
Sound(l) ==
  /\ l \in Ledger
  /\ SumOfBalances(l) = l.totalSupply

\* Unchecked arithmetic whose exact result is a uint does not wrap.
LEMMA UncheckedIsExact ==
  ASSUME NEW n \in UInt
  PROVE  Unchecked(n) = n
BY MaxUintAssumption DEF Unchecked, UInt

\* The comments in _transfer, _mint and _burn: no balance, nor the balances
\* of two accounts together, exceed the supply.
LEMMA BalancesWithinSupply ==
  ASSUME NEW l, Sound(l)
  PROVE  /\ \A x \in Addresses : l.balances[x] <= l.totalSupply
         /\ \A x, y \in Addresses :
              x # y => l.balances[x] + l.balances[y] <= l.totalSupply
<1>1. l.balances \in [Addresses -> Nat]
  BY DEF Sound, Ledger, UInt
<1>2. IsFiniteSet(Addresses)
  BY AddressAssumption
<1> QED
  BY <1>1, <1>2, SumFunctionNat DEF Sound, SumOfBalances

\* _transfer moves the amount exactly and keeps the ledger sound.
LEMMA TransferredIsSound ==
  ASSUME NEW l, Sound(l), NEW from \in Addresses, NEW to \in Addresses,
         NEW amount \in UInt, CanTransfer(l, from, to, amount)
  PROVE  /\ Sound(Transferred(l, from, to, amount))
         /\ Transferred(l, from, to, amount).totalSupply = l.totalSupply
         /\ Transferred(l, from, to, amount).allowances = l.allowances
         /\ \A x \in Addresses :
              Transferred(l, from, to, amount).balances[x] =
                IF from = to THEN l.balances[x]
                ELSE IF x = from THEN l.balances[x] - amount
                ELSE IF x = to THEN l.balances[x] + amount
                ELSE l.balances[x]
<1> DEFINE b == l.balances
           d == [b EXCEPT ![from] = Unchecked(@ - amount)]
           c == [d EXCEPT ![to] = Unchecked(@ + amount)]
           m == Transferred(l, from, to, amount)
<1>1. /\ b \in [Addresses -> UInt]
      /\ l.allowances \in [Addresses -> [Addresses -> UInt]]
      /\ l.totalSupply \in UInt
      /\ SumFunction(b) = l.totalSupply
  BY DEF Sound, Ledger, SumOfBalances
<1>2. UInt = 0 .. MaxUint /\ MaxUint \in Nat /\ IsFiniteSet(Addresses)
  BY MaxUintAssumption, AddressAssumption DEF UInt
<1>3. amount <= b[from] /\ b[from] - amount \in UInt
  BY <1>1, <1>2 DEF CanTransfer
<1>4. d \in [Addresses -> UInt] /\ d[from] = b[from] - amount
  BY <1>1, <1>3, UncheckedIsExact
<1>5. SumFunction(d) = SumFunction(b) - amount
  <2>1. b \in [Addresses -> Int] /\ d \in [Addresses -> Int]
    BY <1>1, <1>2, <1>4
  <2>2. \A y \in Addresses \ {from} : d[y] = b[y]
    BY <1>1
  <2>3. SumFunction(d) = SumFunction(b) - b[from] + d[from]
    <3> HIDE DEF b, d
    <3> QED
      BY <1>2, <2>1, <2>2, SumFunctionUpdate
  <2> QED
    BY <1>1, <1>2, <1>4, <2>1, <2>3
<1>6. d[to] + amount \in UInt
  <2>1. d \in [Addresses -> Nat]
    BY <1>2, <1>4
  <2>2. d[to] <= SumFunction(d)
    <3> HIDE DEF d
    <3> QED
      BY <1>2, <2>1, SumFunctionNat
  <2>3. d[to] + amount <= l.totalSupply
    <3> HIDE DEF d
    <3> QED
      BY <1>1, <1>2, <1>4, <1>5, <2>2
  <2> HIDE DEF d
  <2> QED
    BY <1>1, <1>2, <1>4, <2>3
<1>7. c \in [Addresses -> UInt] /\ c[to] = d[to] + amount
  <2> HIDE DEF d
  <2> QED
    BY <1>4, <1>6, UncheckedIsExact
<1>8. SumFunction(c) = l.totalSupply
  <2>1. d \in [Addresses -> Int] /\ c \in [Addresses -> Int]
    BY <1>2, <1>4, <1>7
  <2>2. \A y \in Addresses \ {to} : c[y] = d[y]
    BY <1>4
  <2>3. SumFunction(c) = SumFunction(d) - d[to] + c[to]
    <3> HIDE DEF c, d
    <3> QED
      BY <1>2, <2>1, <2>2, SumFunctionUpdate
  <2>4. SumFunction(d) \in Int /\ d[to] \in Int
    <3> HIDE DEF c, d
    <3> QED
      BY <1>2, <2>1, SumFunctionInt
  <2> HIDE DEF c, d
  <2> QED
    BY <1>1, <1>2, <1>5, <1>7, <2>3, <2>4
<1>9. m = [l EXCEPT !.balances = c]
  BY DEF Transferred
<1>10. m.balances = c /\ m.totalSupply = l.totalSupply /\ m.allowances = l.allowances
  <2> HIDE DEF c, m
  <2> QED
    BY <1>9 DEF Sound, Ledger
<1>11. Sound(m)
  <2>1. m \in Ledger
    <3> HIDE DEF c, m
    <3> QED
      BY <1>1, <1>7, <1>9 DEF Sound, Ledger
  <2> HIDE DEF c, m
  <2> QED
    BY <1>8, <1>10, <2>1 DEF Sound, SumOfBalances
<1>12. ASSUME NEW x \in Addresses
       PROVE  c[x] = IF from = to THEN b[x]
                     ELSE IF x = from THEN b[x] - amount
                     ELSE IF x = to THEN b[x] + amount
                     ELSE b[x]
  <2>1. c[x] = IF x = to THEN d[to] + amount ELSE d[x]
    BY <1>4, <1>7
  <2>2. d[x] = IF x = from THEN b[from] - amount ELSE b[x]
    BY <1>1, <1>4
  <2>3. d[to] = IF to = from THEN b[from] - amount ELSE b[to]
    BY <1>1, <1>4
  <2>4. b[x] \in Int /\ b[from] \in Int
    BY <1>1, <1>2
  <2> HIDE DEF b, c, d
  <2> QED
    BY <2>1, <2>2, <2>3, <2>4, <1>2
<1> QED
  <2> HIDE DEF c, m
  <2>1. \A x \in Addresses : m.balances[x] = c[x]
    BY <1>10
  <2> QED
    BY <1>10, <1>11, <1>12, <2>1 DEF m

\* _mint credits the amount exactly, whatever the unchecked addition.
LEMMA MintedIsSound ==
  ASSUME NEW l, Sound(l), NEW account \in Addresses,
         NEW amount \in UInt, CanMint(l, account, amount)
  PROVE  /\ Sound(Minted(l, account, amount))
         /\ Minted(l, account, amount).totalSupply = l.totalSupply + amount
         /\ Minted(l, account, amount).allowances = l.allowances
         /\ \A x \in Addresses :
              Minted(l, account, amount).balances[x] =
                IF x = account THEN l.balances[x] + amount ELSE l.balances[x]
<1> DEFINE b == l.balances
           c == [b EXCEPT ![account] = Unchecked(@ + amount)]
           m == Minted(l, account, amount)
<1>1. /\ b \in [Addresses -> UInt]
      /\ l.allowances \in [Addresses -> [Addresses -> UInt]]
      /\ l.totalSupply \in UInt
      /\ SumFunction(b) = l.totalSupply
  BY DEF Sound, Ledger, SumOfBalances
<1>2. UInt = 0 .. MaxUint /\ MaxUint \in Nat /\ IsFiniteSet(Addresses)
  BY MaxUintAssumption, AddressAssumption DEF UInt
<1>3. b[account] + amount \in UInt /\ l.totalSupply + amount \in UInt
  <2>1. b[account] <= l.totalSupply
    BY BalancesWithinSupply
  <2> QED
    BY <1>1, <1>2, <2>1 DEF CanMint
<1>4. c \in [Addresses -> UInt] /\ c[account] = b[account] + amount
  BY <1>1, <1>3, UncheckedIsExact
<1>5. SumFunction(c) = l.totalSupply + amount
  <2>1. b \in [Addresses -> Int] /\ c \in [Addresses -> Int]
    BY <1>1, <1>2, <1>4
  <2>2. \A y \in Addresses \ {account} : c[y] = b[y]
    BY <1>1
  <2>3. SumFunction(c) = SumFunction(b) - b[account] + c[account]
    <3> HIDE DEF b, c
    <3> QED
      BY <1>2, <2>1, <2>2, SumFunctionUpdate
  <2> HIDE DEF b, c
  <2> QED
    BY <1>1, <1>2, <1>4, <2>1, <2>3
<1>6. m = [l EXCEPT !.totalSupply = @ + amount, !.balances = c]
  BY DEF Minted, Sound, Ledger
<1> HIDE DEF c, m
<1>7. m.balances = c /\ m.totalSupply = l.totalSupply + amount /\ m.allowances = l.allowances
  BY <1>6 DEF Sound, Ledger
<1>8. m \in Ledger
  BY <1>1, <1>3, <1>4, <1>6 DEF Sound, Ledger
<1>9. Sound(m)
  BY <1>5, <1>7, <1>8 DEF Sound, SumOfBalances
<1>10. \A x \in Addresses : c[x] = IF x = account THEN b[x] + amount ELSE b[x]
  BY <1>1, <1>4 DEF c
<1> QED
  BY <1>7, <1>9, <1>10 DEF m

\* _burn debits the amount exactly.
LEMMA BurnedIsSound ==
  ASSUME NEW l, Sound(l), NEW account \in Addresses,
         NEW amount \in UInt, CanBurn(l, account, amount)
  PROVE  /\ Sound(Burned(l, account, amount))
         /\ Burned(l, account, amount).totalSupply = l.totalSupply - amount
         /\ Burned(l, account, amount).allowances = l.allowances
         /\ \A x \in Addresses :
              Burned(l, account, amount).balances[x] =
                IF x = account THEN l.balances[x] - amount ELSE l.balances[x]
<1> DEFINE b == l.balances
           c == [b EXCEPT ![account] = Unchecked(@ - amount)]
           m == Burned(l, account, amount)
<1>1. /\ b \in [Addresses -> UInt]
      /\ l.allowances \in [Addresses -> [Addresses -> UInt]]
      /\ l.totalSupply \in UInt
      /\ SumFunction(b) = l.totalSupply
  BY DEF Sound, Ledger, SumOfBalances
<1>2. UInt = 0 .. MaxUint /\ MaxUint \in Nat /\ IsFiniteSet(Addresses)
  BY MaxUintAssumption, AddressAssumption DEF UInt
<1>3. b[account] - amount \in UInt /\ l.totalSupply - amount \in UInt
  <2>1. b[account] <= l.totalSupply
    BY BalancesWithinSupply
  <2> QED
    BY <1>1, <1>2, <2>1 DEF CanBurn
<1>4. c \in [Addresses -> UInt] /\ c[account] = b[account] - amount
  BY <1>1, <1>3, UncheckedIsExact
<1>5. SumFunction(c) = l.totalSupply - amount
  <2>1. b \in [Addresses -> Int] /\ c \in [Addresses -> Int]
    BY <1>1, <1>2, <1>4
  <2>2. \A y \in Addresses \ {account} : c[y] = b[y]
    BY <1>1
  <2>3. SumFunction(c) = SumFunction(b) - b[account] + c[account]
    <3> HIDE DEF b, c
    <3> QED
      BY <1>2, <2>1, <2>2, SumFunctionUpdate
  <2> HIDE DEF b, c
  <2> QED
    BY <1>1, <1>2, <1>4, <2>1, <2>3
<1>6. m = [l EXCEPT !.balances = c, !.totalSupply = l.totalSupply - amount]
  BY <1>3, UncheckedIsExact DEF Burned, Sound, Ledger
<1> HIDE DEF c, m
<1>7. m.balances = c /\ m.totalSupply = l.totalSupply - amount /\ m.allowances = l.allowances
  BY <1>6 DEF Sound, Ledger
<1>8. m \in Ledger
  BY <1>1, <1>3, <1>4, <1>6 DEF Sound, Ledger
<1>9. Sound(m)
  BY <1>5, <1>7, <1>8 DEF Sound, SumOfBalances
<1>10. \A x \in Addresses : c[x] = IF x = account THEN b[x] - amount ELSE b[x]
  BY <1>1, <1>4 DEF c
<1> QED
  BY <1>7, <1>9, <1>10 DEF m

\* _approve moves nothing and writes one allowance.
LEMMA ApprovedIsSound ==
  ASSUME NEW l, Sound(l), NEW holder \in Addresses, NEW spender \in Addresses,
         NEW amount \in UInt
  PROVE  /\ Sound(Approved(l, holder, spender, amount))
         /\ Approved(l, holder, spender, amount).totalSupply = l.totalSupply
         /\ Approved(l, holder, spender, amount).balances = l.balances
         /\ Approved(l, holder, spender, amount).allowances[holder][spender] = amount
<1> DEFINE a == [l.allowances EXCEPT ![holder] = [@ EXCEPT ![spender] = amount]]
           m == Approved(l, holder, spender, amount)
<1>1. l \in Ledger /\ l.allowances \in [Addresses -> [Addresses -> UInt]]
  BY DEF Sound, Ledger
<1>2. a \in [Addresses -> [Addresses -> UInt]] /\ a[holder][spender] = amount
  BY <1>1
<1>3. m = [l EXCEPT !.allowances = a]
  BY <1>1 DEF Approved
<1> HIDE DEF a, m
<1>4. m.balances = l.balances /\ m.totalSupply = l.totalSupply /\ m.allowances = a
  BY <1>1, <1>3 DEF Ledger
<1>5. m \in Ledger
  BY <1>1, <1>2, <1>3 DEF Ledger
<1>6. Sound(m)
  BY <1>4, <1>5 DEF Sound, SumOfBalances
<1> QED
  BY <1>2, <1>4, <1>6 DEF m

\* _spendAllowance moves nothing; a finite allowance shrinks by the amount.
LEMMA AllowanceSpentIsSound ==
  ASSUME NEW l, Sound(l), NEW holder \in Addresses, NEW spender \in Addresses,
         NEW amount \in UInt, CanSpendAllowance(l, holder, spender, amount)
  PROVE  /\ Sound(AllowanceSpent(l, holder, spender, amount))
         /\ AllowanceSpent(l, holder, spender, amount).totalSupply = l.totalSupply
         /\ AllowanceSpent(l, holder, spender, amount).balances = l.balances
         /\ l.allowances[holder][spender] # MaxUint =>
              /\ amount <= l.allowances[holder][spender]
              /\ AllowanceSpent(l, holder, spender, amount).allowances[holder][spender]
                   = l.allowances[holder][spender] - amount
<1>1. l.allowances[holder][spender] \in UInt
  BY DEF Sound, Ledger
<1>2. CASE l.allowances[holder][spender] = MaxUint
  BY <1>2 DEF AllowanceSpent
<1>3. CASE l.allowances[holder][spender] # MaxUint
  <2>1. amount <= l.allowances[holder][spender]
    BY <1>3 DEF CanSpendAllowance
  <2>2. l.allowances[holder][spender] - amount \in UInt
    BY <1>1, <2>1, MaxUintAssumption DEF UInt
  <2>3. AllowanceSpent(l, holder, spender, amount) =
          Approved(l, holder, spender, l.allowances[holder][spender] - amount)
    BY <1>3, <2>2, UncheckedIsExact DEF AllowanceSpent
  <2> QED
    BY <2>1, <2>2, <2>3, ApprovedIsSound
<1> QED
  BY <1>2, <1>3

\* transferFrom, likewise.
LEMMA TransferredFromIsSound ==
  ASSUME NEW l, Sound(l), NEW spender \in Addresses, NEW from \in Addresses,
         NEW to \in Addresses, NEW amount \in UInt,
         CanTransferFrom(l, spender, from, to, amount)
  PROVE  /\ Sound(TransferredFrom(l, spender, from, to, amount))
         /\ TransferredFrom(l, spender, from, to, amount).totalSupply = l.totalSupply
         /\ amount <= l.balances[from]
         /\ \A x \in Addresses :
              TransferredFrom(l, spender, from, to, amount).balances[x] =
                IF from = to THEN l.balances[x]
                ELSE IF x = from THEN l.balances[x] - amount
                ELSE IF x = to THEN l.balances[x] + amount
                ELSE l.balances[x]
         /\ l.allowances[from][spender] # MaxUint =>
              /\ amount <= l.allowances[from][spender]
              /\ TransferredFrom(l, spender, from, to, amount).allowances[from][spender]
                   = l.allowances[from][spender] - amount
<1> DEFINE s == AllowanceSpent(l, from, spender, amount)
<1>1. /\ CanSpendAllowance(l, from, spender, amount)
      /\ CanTransfer(s, from, to, amount)
      /\ TransferredFrom(l, spender, from, to, amount) = Transferred(s, from, to, amount)
  BY DEF CanTransferFrom, TransferredFrom
<1>2. /\ Sound(s)
      /\ s.totalSupply = l.totalSupply
      /\ s.balances = l.balances
      /\ l.allowances[from][spender] # MaxUint =>
           /\ amount <= l.allowances[from][spender]
           /\ s.allowances[from][spender] = l.allowances[from][spender] - amount
  BY <1>1, AllowanceSpentIsSound
<1>3. amount <= l.balances[from]
  BY <1>1, <1>2 DEF CanTransfer
<1> HIDE DEF s
<1> QED
  BY <1>1, <1>2, <1>3, TransferredIsSound

-----------------------------------------------------------------------------
(* The contract.                                                           *)

\* The inductive invariant: the type invariant is not inductive without the
\* sum of the balances, because only the sum keeps the unchecked arithmetic
\* from wrapping around.
CoinIInv ==
  /\ Sound(coin)
  /\ owner \in Addresses

LEMMA CoinIInvImplies ==
  ASSUME CoinIInv
  PROVE  CoinTypeOK /\ SupplyIsSumOfBalances
BY DEF CoinIInv, CoinTypeOK, SupplyIsSumOfBalances, Sound

LEMMA EmptyLedgerIsSound == Sound(EmptyLedger)
<1> DEFINE z == [x \in Addresses |-> 0]
<1>1. 0 \in UInt
  BY MaxUintAssumption DEF UInt
<1>2. EmptyLedger \in Ledger
  BY <1>1 DEF EmptyLedger, Ledger
<1>3. SumFunction(z) = 0
  <2>1. z \in [Addresses -> Int] /\ \A x \in Addresses : z[x] = 0
    OBVIOUS
  <2> HIDE DEF z
  <2> QED
    BY <2>1, AddressAssumption, SumFunctionZero
<1> QED
  BY <1>2, <1>3 DEF Sound, SumOfBalances, EmptyLedger

LEMMA CoinInitIInv ==
  ASSUME CoinInit
  PROVE  CoinIInv
BY EmptyLedgerIsSound, DeployerAssumption DEF CoinInit, CoinIInv

\* What a transaction of `sender' may do to the balances of others.
TakesOnlyWhatIsAllowed(sender) ==
  \A x \in Addresses :
    /\ x # sender
    /\ coin'.balances[x] < coin.balances[x]
    => LET taken   == coin.balances[x] - coin'.balances[x]
           allowed == coin.allowances[x][sender]
       IN  \/ allowed = MaxUint
           \/ /\ allowed >= taken
              /\ coin'.allowances[x][sender] = allowed - taken

\* What every transaction of `sender' leaves true.
GoodCall(sender) ==
  /\ CoinIInv'
  /\ TakesOnlyWhatIsAllowed(sender)
  /\ coin'.totalSupply > coin.totalSupply => OnlyOwner(sender)
  /\ owner' # owner => OnlyOwner(sender)

LEMMA BalancesAreInt ==
  ASSUME NEW l, Sound(l), NEW x \in Addresses
  PROVE  l.balances[x] \in Nat /\ l.totalSupply \in Nat
BY MaxUintAssumption DEF Sound, Ledger, UInt

LEMMA MintIsGood ==
  ASSUME CoinIInv, NEW sender \in Senders, NEW to \in Addresses,
         NEW amount \in UInt, Mint(sender, to, amount)
  PROVE  GoodCall(sender) /\ coin'.totalSupply = coin.totalSupply + amount
<1>1. /\ Sound(coin')
      /\ coin'.totalSupply = coin.totalSupply + amount
      /\ \A x \in Addresses :
           coin'.balances[x] = IF x = to THEN coin.balances[x] + amount ELSE coin.balances[x]
  BY MintedIsSound DEF Mint, CoinIInv
<1>2. TakesOnlyWhatIsAllowed(sender)
  <2>1. \A x \in Addresses : ~(coin'.balances[x] < coin.balances[x])
    BY <1>1, BalancesAreInt, MaxUintAssumption DEF CoinIInv, UInt
  <2> QED
    BY <2>1 DEF TakesOnlyWhatIsAllowed
<1> QED
  BY <1>1, <1>2 DEF GoodCall, CoinIInv, Mint

LEMMA BurnIsGood ==
  ASSUME CoinIInv, NEW sender \in Senders,
         NEW amount \in UInt, Burn(sender, amount)
  PROVE  GoodCall(sender)
<1>1. /\ Sound(coin')
      /\ coin'.totalSupply = coin.totalSupply - amount
      /\ \A x \in Addresses :
           coin'.balances[x] = IF x = sender THEN coin.balances[x] - amount ELSE coin.balances[x]
  BY BurnedIsSound DEF Burn, CanOwnerBurn, CoinIInv, Senders
<1>2. TakesOnlyWhatIsAllowed(sender)
  <2>1. \A x \in Addresses : x # sender => ~(coin'.balances[x] < coin.balances[x])
    BY <1>1, BalancesAreInt DEF CoinIInv
  <2> QED
    BY <2>1 DEF TakesOnlyWhatIsAllowed
<1> QED
  BY <1>1, <1>2 DEF GoodCall, CoinIInv, Burn, CanOwnerBurn

LEMMA BurnFromIsGood ==
  ASSUME CoinIInv, NEW sender \in Senders, NEW account \in Addresses,
         NEW amount \in UInt, BurnFrom(sender, account, amount)
  PROVE  GoodCall(sender) /\ coin'.totalSupply = coin.totalSupply - amount
<1> DEFINE s == AllowanceSpent(coin, account, sender, amount)
<1>1. sender \in Addresses
  BY DEF Senders
<1>2. /\ Sound(s)
      /\ s.totalSupply = coin.totalSupply
      /\ s.balances = coin.balances
      /\ coin.allowances[account][sender] # MaxUint =>
           /\ amount <= coin.allowances[account][sender]
           /\ s.allowances[account][sender] = coin.allowances[account][sender] - amount
  BY <1>1, AllowanceSpentIsSound DEF BurnFrom, CoinIInv
<1>3. CanBurn(s, account, amount) /\ coin' = Burned(s, account, amount)
  BY DEF BurnFrom
<1> HIDE DEF s
<1>4. /\ Sound(coin')
      /\ coin'.totalSupply = coin.totalSupply - amount
      /\ coin'.allowances = s.allowances
      /\ \A x \in Addresses :
           coin'.balances[x] = IF x = account THEN coin.balances[x] - amount ELSE coin.balances[x]
  BY <1>2, <1>3, BurnedIsSound
<1>5. \A x \in Addresses : coin.balances[x] \in Nat /\ coin.totalSupply \in Nat
  BY BalancesAreInt DEF CoinIInv
<1>6. TakesOnlyWhatIsAllowed(sender)
  <2>1. ASSUME NEW x \in Addresses, coin'.balances[x] < coin.balances[x]
        PROVE  x = account /\ coin.balances[x] - coin'.balances[x] = amount
    BY <1>4, <1>5, <2>1, MaxUintAssumption DEF UInt
  <2> QED
    BY <1>2, <1>4, <2>1 DEF TakesOnlyWhatIsAllowed
<1>7. ~(coin'.totalSupply > coin.totalSupply)
  BY <1>4, <1>5, <1>1, MaxUintAssumption DEF UInt
<1> QED
  BY <1>4, <1>6, <1>7 DEF GoodCall, CoinIInv, BurnFrom

LEMMA TransferIsGood ==
  ASSUME CoinIInv, NEW sender \in Senders, NEW to \in Addresses,
         NEW amount \in UInt, Transfer(sender, to, amount)
  PROVE  GoodCall(sender) /\ coin'.totalSupply = coin.totalSupply
<1>1. /\ Sound(coin')
      /\ coin'.totalSupply = coin.totalSupply
      /\ \A x \in Addresses :
           x # sender => coin'.balances[x] \in {coin.balances[x], coin.balances[x] + amount}
  BY TransferredIsSound DEF Transfer, CoinIInv, Senders
<1>2. TakesOnlyWhatIsAllowed(sender)
  <2>1. \A x \in Addresses : x # sender => ~(coin'.balances[x] < coin.balances[x])
    BY <1>1, BalancesAreInt, MaxUintAssumption DEF CoinIInv, UInt
  <2> QED
    BY <2>1 DEF TakesOnlyWhatIsAllowed
<1>3. coin.totalSupply \in Nat
  BY BalancesAreInt, DeployerAssumption DEF CoinIInv
<1> QED
  BY <1>1, <1>2, <1>3 DEF GoodCall, CoinIInv, Transfer

LEMMA TransferFromIsGood ==
  ASSUME CoinIInv, NEW sender \in Senders, NEW from \in Addresses, NEW to \in Addresses,
         NEW amount \in UInt, TransferFrom(sender, from, to, amount)
  PROVE  GoodCall(sender) /\ coin'.totalSupply = coin.totalSupply
<1>1. sender \in Addresses
  BY DEF Senders
<1>2. /\ Sound(coin')
      /\ coin'.totalSupply = coin.totalSupply
      /\ \A x \in Addresses :
           coin'.balances[x] =
             IF from = to THEN coin.balances[x]
             ELSE IF x = from THEN coin.balances[x] - amount
             ELSE IF x = to THEN coin.balances[x] + amount
             ELSE coin.balances[x]
      /\ coin.allowances[from][sender] # MaxUint =>
           /\ amount <= coin.allowances[from][sender]
           /\ coin'.allowances[from][sender] = coin.allowances[from][sender] - amount
  BY <1>1, TransferredFromIsSound DEF TransferFrom, CoinIInv
<1>3. \A x \in Addresses : coin.balances[x] \in Nat /\ coin.totalSupply \in Nat
  BY BalancesAreInt DEF CoinIInv
<1>4. TakesOnlyWhatIsAllowed(sender)
  <2>1. ASSUME NEW x \in Addresses, coin'.balances[x] < coin.balances[x]
        PROVE  x = from /\ coin.balances[x] - coin'.balances[x] = amount
    BY <1>2, <1>3, <2>1, MaxUintAssumption DEF UInt
  <2> QED
    BY <1>2, <2>1 DEF TakesOnlyWhatIsAllowed
<1> QED
  BY <1>1, <1>2, <1>3, <1>4 DEF GoodCall, CoinIInv, TransferFrom

\* Also increaseAllowance and decreaseAllowance, which end in an approve.
LEMMA ApproveIsGood ==
  ASSUME CoinIInv, NEW sender \in Senders, NEW spender \in Addresses,
         NEW amount \in UInt, Approve(sender, spender, amount)
  PROVE  GoodCall(sender) /\ coin'.totalSupply = coin.totalSupply
<1>1. Sound(coin') /\ coin'.totalSupply = coin.totalSupply /\ coin'.balances = coin.balances
  BY ApprovedIsSound DEF Approve, CoinIInv, Senders
<1>2. \A x \in Addresses : coin.balances[x] \in Nat /\ coin.totalSupply \in Nat
  BY BalancesAreInt DEF CoinIInv
<1>3. TakesOnlyWhatIsAllowed(sender)
  BY <1>1, <1>2 DEF TakesOnlyWhatIsAllowed
<1>4. ~(coin'.totalSupply > coin.totalSupply)
  BY <1>1, <1>2, DeployerAssumption
<1> QED
  BY <1>1, <1>3, <1>4 DEF GoodCall, CoinIInv, Approve

LEMMA TransferOwnershipIsGood ==
  ASSUME CoinIInv, NEW sender \in Senders, NEW newOwner \in Addresses,
         TransferOwnership(sender, newOwner)
  PROVE  GoodCall(sender)
<1>1. CoinIInv'
  BY DEF TransferOwnership, CoinIInv
<1>2. \A x \in Addresses : coin.balances[x] \in Nat /\ coin.totalSupply \in Nat
  BY BalancesAreInt DEF CoinIInv
<1>3. TakesOnlyWhatIsAllowed(sender)
  BY <1>2 DEF TakesOnlyWhatIsAllowed, TransferOwnership
<1> QED
  BY <1>1, <1>3 DEF GoodCall, TransferOwnership

LEMMA RenounceOwnershipIsGood ==
  ASSUME CoinIInv, NEW sender \in Senders, RenounceOwnership(sender)
  PROVE  GoodCall(sender)
<1>1. CoinIInv'
  BY AddressAssumption DEF RenounceOwnership, CoinIInv
<1>2. \A x \in Addresses : coin.balances[x] \in Nat /\ coin.totalSupply \in Nat
  BY BalancesAreInt DEF CoinIInv
<1>3. TakesOnlyWhatIsAllowed(sender)
  BY <1>2 DEF TakesOnlyWhatIsAllowed, RenounceOwnership
<1> QED
  BY <1>1, <1>3 DEF GoodCall, RenounceOwnership

LEMMA CallIsGood ==
  ASSUME CoinIInv, NEW sender \in Senders, CallBy(sender)
  PROVE  GoodCall(sender)
<1>1. sender \in Addresses
  BY DEF Senders
<1>2. CASE RenounceOwnership(sender)
  BY <1>2, RenounceOwnershipIsGood
<1>3. CASE \E x \in Addresses : TransferOwnership(sender, x)
  BY <1>3, TransferOwnershipIsGood
<1>4. ASSUME NEW amount \in CoinAmounts,
             \/ Burn(sender, amount)
             \/ \E x \in Addresses :
                  \/ Mint(sender, x, amount)
                  \/ BurnFrom(sender, x, amount)
                  \/ Transfer(sender, x, amount)
                  \/ Approve(sender, x, amount)
                  \/ IncreaseAllowance(sender, x, amount)
                  \/ DecreaseAllowance(sender, x, amount)
                  \/ \E y \in Addresses : TransferFrom(sender, x, y, amount)
      PROVE  GoodCall(sender)
  <2>1. amount \in UInt
    BY CoinAmountsAssumption
  <2>2. CASE Burn(sender, amount)
    BY <2>1, <2>2, BurnIsGood
  <2>3. ASSUME NEW x \in Addresses, Mint(sender, x, amount)
        PROVE  GoodCall(sender)
    BY <2>1, <2>3, MintIsGood
  <2>4. ASSUME NEW x \in Addresses, BurnFrom(sender, x, amount)
        PROVE  GoodCall(sender)
    BY <2>1, <2>4, BurnFromIsGood
  <2>5. ASSUME NEW x \in Addresses, Transfer(sender, x, amount)
        PROVE  GoodCall(sender)
    BY <2>1, <2>5, TransferIsGood
  <2>6. ASSUME NEW x \in Addresses, Approve(sender, x, amount)
        PROVE  GoodCall(sender)
    BY <2>1, <2>6, ApproveIsGood
  <2>7. ASSUME NEW x \in Addresses
        PROVE  coin.allowances[sender][x] \in UInt
    BY <1>1 DEF CoinIInv, Sound, Ledger
  <2>8. ASSUME NEW x \in Addresses, IncreaseAllowance(sender, x, amount)
        PROVE  GoodCall(sender)
    <3>1. coin.allowances[sender][x] + amount \in UInt
      BY <2>1, <2>7, <2>8, MaxUintAssumption DEF IncreaseAllowance, UInt
    <3> QED
      BY <2>8, <3>1, ApproveIsGood DEF IncreaseAllowance
  <2>9. ASSUME NEW x \in Addresses, DecreaseAllowance(sender, x, amount)
        PROVE  GoodCall(sender)
    <3>1. coin.allowances[sender][x] - amount \in UInt
      BY <2>1, <2>7, <2>9, MaxUintAssumption DEF DecreaseAllowance, UInt
    <3> QED
      BY <2>9, <3>1, ApproveIsGood DEF DecreaseAllowance
  <2>10. ASSUME NEW x \in Addresses, NEW y \in Addresses, TransferFrom(sender, x, y, amount)
         PROVE  GoodCall(sender)
    BY <2>1, <2>10, TransferFromIsGood
  <2> QED
    BY <1>4, <2>2, <2>3, <2>4, <2>5, <2>6, <2>8, <2>9, <2>10
<1> QED
  BY <1>2, <1>3, <1>4 DEF CallBy

LEMMA CoinIInvInductive ==
  ASSUME CoinIInv, [CoinNext]_coinVars
  PROVE  CoinIInv'
<1>1. CASE CoinNext
  BY <1>1, CallIsGood DEF CoinNext, GoodCall
<1>2. CASE UNCHANGED coinVars
  BY <1>2 DEF coinVars, CoinIInv
<1> QED
  BY <1>1, <1>2

LEMMA CoinInvariant == CoinSpec => []CoinIInv
<1>1. CoinInit => CoinIInv
  BY CoinInitIInv
<1>2. CoinIInv /\ [CoinNext]_coinVars => CoinIInv'
  BY CoinIInvInductive
<1> QED
  BY <1>1, <1>2, PTL DEF CoinSpec

-----------------------------------------------------------------------------
\* Every value of the coin contract keeps its type.
THEOREM CoinTypeCorrect == CoinSpec => []CoinTypeOK
<1>1. CoinIInv => CoinTypeOK
  BY CoinIInvImplies
<1> QED
  BY <1>1, CoinInvariant, PTL

\* The balances add up to the supply after any sequence of transactions of
\* anybody, so the arithmetic that the token contract leaves unchecked never
\* wraps around.
THEOREM SupplyIsConserved == CoinSpec => []SupplyIsSumOfBalances
<1>1. CoinIInv => SupplyIsSumOfBalances
  BY CoinIInvImplies
<1> QED
  BY <1>1, CoinInvariant, PTL

\* Nobody's balance shrinks by another's transaction but within an allowance,
\* which shrinks with it.
THEOREM NobodyTakesWithoutAllowance == CoinSpec => NoTakingWithoutAllowance
<1> DEFINE A == \A sender \in Senders, x \in Addresses :
                  /\ x # sender
                  /\ coin'.balances[x] < coin.balances[x]
                  /\ CallBy(sender)
                  => LET taken   == coin.balances[x] - coin'.balances[x]
                         allowed == coin.allowances[x][sender]
                     IN  \/ allowed = MaxUint
                         \/ /\ allowed >= taken
                            /\ coin'.allowances[x][sender] = allowed - taken
<1>1. CoinIInv => A
  BY CallIsGood DEF GoodCall, TakesOnlyWhatIsAllowed
<1>2. CoinIInv /\ [CoinNext]_coinVars => [A]_coinVars
  BY <1>1
<1>3. NoTakingWithoutAllowance <=> [][A]_coinVars
  BY DEF NoTakingWithoutAllowance
<1> HIDE DEF A
<1> QED
  BY <1>2, <1>3, CoinInvariant, PTL DEF CoinSpec

\* Only a mint of the present owner increases the supply, and renouncing the
\* ownership is final.
THEOREM OnlyTheOwnerMints == CoinSpec => OnlyAnOwnerMints
<1> DEFINE A == /\ coin'.totalSupply > coin.totalSupply =>
                     /\ owner # ZeroAddress
                     /\ \A sender \in Senders \ {owner} : ~CallBy(sender)
                /\ owner = ZeroAddress => owner' = ZeroAddress
<1>1. ASSUME CoinIInv, CoinNext
      PROVE  A
  <2>1. PICK sender \in Senders : CallBy(sender)
    BY <1>1 DEF CoinNext
  <2>2. \A s \in Senders : CallBy(s) => GoodCall(s)
    BY <1>1, CallIsGood
  <2>3. \A s \in Senders : OnlyOwner(s) => owner = s /\ s # ZeroAddress
    BY DEF OnlyOwner, Senders
  <2> QED
    BY <2>1, <2>2, <2>3 DEF GoodCall
<1>2. CoinIInv /\ [CoinNext]_coinVars => [A]_coinVars
  BY <1>1
<1>3. OnlyAnOwnerMints <=> [][A]_coinVars
  BY DEF OnlyAnOwnerMints
<1> HIDE DEF A
<1> QED
  BY <1>2, <1>3, CoinInvariant, PTL DEF CoinSpec
=============================================================================
