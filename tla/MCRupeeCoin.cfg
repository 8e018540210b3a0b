CONSTANTS
  zero = zero
  deployer = deployer
  holder = holder
  Addresses <- MCAddresses
  ZeroAddress = zero
  Deployer = deployer
  MaxUint = 3
  CoinAmounts <- MCAmounts

SPECIFICATION CoinSpec

INVARIANTS
  CoinTypeOK
  SupplyIsSumOfBalances

PROPERTIES
  NoTakingWithoutAllowance
  OnlyAnOwnerMints
