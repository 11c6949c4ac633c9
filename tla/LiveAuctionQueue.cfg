CONSTANTS
  ana = ana
  bob = bob
  shop = shop
  book = book
  NoUser = NoUser
  Users <- OneUser
  Products <- TwoProducts
  Members <- BookOwned
  InitialCoins <- OneCoin
  Price <- Prices
  SpecialStart <- Starts
  BidIncrement = 1
  AuctionDuration = 2
  MinAuctionDuration = 1
  SchedulerTick = 0
  AuctionGap = 1
  AntiSnipeWindow = 1
  AntiSnipeExtend = 1
  EnqueueCutoff = 1
  PhaseEndsAt = 3
  Manual = {"start", "end", "settle", "move", "fail"}
  AdminDeltas = {}
  AdminBound = 0
  MaxRestarts = 1
  MaxTime = 3
SPECIFICATION Spec
CHECK_DEADLOCK FALSE
INVARIANTS
  OneLive
PROPERTIES
  LiveNotSwept
  NoWinAfterFinal
