CONSTANTS
  zero = zero
  engine = engine
  alice = alice
  bob = bob
  weth = weth
  wbtc = wbtc
  Addresses <- MCAddresses
  ZeroAddress = zero
  Deployer = alice
  Engine = engine
  Users <- MCUsers
  Tokens <- MCTwoTokens
  MaxUint = 20000
  PRECISION = 10
  MAX_DECIMALS = 1
  FeedDecimals <- MixedFeedDecimals
  Answers <- MixedAnswers
  Endowment <- MixedEndowment
  CollateralAmounts <- MixedCollateralAmounts
  CoinAmounts <- MixedCoinAmounts
  Approvals <- MCApprovals

SPECIFICATION Spec

INVARIANTS
  QuotesAreAccepted
