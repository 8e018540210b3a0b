CONSTANTS
  zero = zero
  engine = engine
  alice = alice
  bob = bob
  weth = weth
  wbtc = wbtc
  Addresses <- MCAddresses
  ZeroAddress = zero
  Deployer = alice
  Engine = engine
  Users <- MCUsers
  Tokens <- MCOneToken
  MaxUint = 20000
  PRECISION = 10
  MAX_DECIMALS = 1
  FeedDecimals <- MCFeedDecimals
  Answers <- MCFixedAnswers
  Endowment <- MCEndowment
  CollateralAmounts <- MCOneCollateralAmount
  CoinAmounts <- MCOneCoinAmount
  Approvals <- SpenderApprovals

SPECIFICATION Spec

INVARIANTS
  SupplyIsOwed

PROPERTIES
  DebtFollowsSupply
