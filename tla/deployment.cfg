SPECIFICATION Spec
CONSTANTS
    Runs <- MCRuns
    MaxNonce = 8
    ChainIds <- MCChainIds
    ZeroAddress <- Zero
    Deployer = Deployer
    None = None
    SepoliaTokens <- SepoliaPair
    SepoliaFeeds <- SepoliaFeedPair
    MockToken <- Mock
    MockFeed <- MockAggregator
    FeedDecimals <- MCDecimals
    OtherTokens <- MCOtherTokens
    OtherFeeds <- MCOtherFeeds
INVARIANTS
  EnginesCountTheirTokens
  
  ReportedIsDeployed
CHECK_DEADLOCK FALSE
