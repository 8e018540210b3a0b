------------------------------- MODULE MCDeployment -------------------------------
(* Two runs of the script, and another account that lists tokens twice, mixes  *)
(* up feeds, or uses a feed of 20 decimals.                                    *)
EXTENDS Deployment

MCRuns == {"first", "second"}
MCChainIds == {SEPOLIA, 31337}

\* An address is <<who made the contract, a number, what it is>>.
Weth == <<"sepolia", 1, "token">>
Wbtc == <<"sepolia", 2, "token">>
EthFeed == <<"sepolia", 1, "feed">>
BtcFeed == <<"sepolia", 2, "feed">>
WideFeed == <<"other", 1, "feed">>
Zero == <<"nobody", 0, "none">>

SepoliaPair == <<Weth, Wbtc>>
SepoliaFeedPair == <<EthFeed, BtcFeed>>

Mock(r, i) == <<r, i, "token">>
MockAggregator(r, i) == <<r, i, "feed">>

\* The mocks and the feeds of Sepolia have eight decimals.
MCDecimals(feed) == IF feed = WideFeed THEN 20 ELSE 8

ArraysOf(S) == {<<>>} \union {<<a>> : a \in S} \union (S \X S)

MCOtherTokens == ArraysOf({Weth, Wbtc, Zero})
MCOtherFeeds == ArraysOf({EthFeed, WideFeed, Zero})
=============================================================================
