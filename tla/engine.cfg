CONSTANTS
  zero = zero
  engine = engine
  alice = alice
  bob = bob
  weth = weth
  wbtc = wbtc
  Addresses <- MCAddresses
  ZeroAddress = zero
  Deployer = alice
  Engine = engine
  Users <- MCUsers
  Tokens <- MCOneToken
  MaxUint = 20000
  PRECISION = 10
  MAX_DECIMALS = 1
  FeedDecimals <- MCFeedDecimals
  Answers <- MCAnswers
  Endowment <- MCEndowment
  CollateralAmounts <- MCCollateralAmounts
  CoinAmounts <- MCCoinAmounts
  Approvals <- MCApprovals

SPECIFICATION Spec

INVARIANTS
  TypeOK
  CollateralInCustody
  HealthyMeansBacked
  CoveredDebtIsLiquidable

PROPERTIES
  VaultSpec
  OnlyTheMarketEndangers
  LossesRepayDebt
