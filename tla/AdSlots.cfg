CONSTANTS
  ana = ana
  ali = ali
  bob = bob
  red = red
  blue = blue
  push1 = push1
  banner2 = banner2
  NoUser = NoUser
  NoSlot = NoSlot
  Users = {ana, ali, bob}
  Teams = {red, blue}
  TeamOf <- TwoTeams
  InitialCoins <- Coins
  Reserved <- Leads
  Slots = {push1, banner2}
  PushSlots = {push1}
  HourStart <- Hours
  BasePrice <- Prices
  BidIncrement = 1
  MaxPerTeam = 1
  Duration = 1
  PhaseEndsAt = 3
  Amounts = {1, 2}
  Viewers = {v1}
  Faults = {"send", "refund", "end", "date", "restart", "module"}
  MaxFailures = 1
  MaxTime = 3
SPECIFICATION FairSpec
INVARIANTS
  TypeOK
  HolderPaid
  QuotaKept
  PushKept
PROPERTIES
  SlotsSettled
  ImplementsAccounts
