CONSTANTS
  ana = ana
  bob = bob
  shop = shop
  book = book
  NoUser = NoUser
  Users <- TwoUsers
  Products <- OneProduct
  Members <- Unowned
  InitialCoins <- ThreeAndTwo
  Price <- OnePrice
  SpecialStart <- OneStart
  BidIncrement = 1
  AuctionDuration = 2
  MinAuctionDuration = 1
  SchedulerTick = 0
  AuctionGap = 1
  AntiSnipeWindow = 1
  AntiSnipeExtend = 1
  EnqueueCutoff = 1
  PhaseEndsAt = 3
  Manual = {"settle", "adjust"}
  AdminDeltas <- Corrections
  AdminBound = 1
  MaxRestarts = 0
  MaxTime = 3
SPECIFICATION Spec
CHECK_DEADLOCK FALSE
INVARIANTS
  TypeOK
  LeaderBacked
  LeaderWins
  TimeToAnswer
  BooksMatchSales
PROPERTIES
  ImplementsAccounts
  ImplementsAscending
