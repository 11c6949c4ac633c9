CONSTANTS
  ana = ana
  small = small
  large = large
  NoOrder = NoOrder
  Users <- OneUser
  Orders <- TwoOrders
  Owner <- AnaOwns
  Coins <- OneAndTwo
  InitialCoins <- NoCoins
  Online <- TwoOrders
  MaxBought = 2
  Callbacks = {c1, c2}
  Clerks = {a1}
  Faults = {"start", "close", "restart"}
SPECIFICATION FairSpec
CHECK_DEADLOCK FALSE
INVARIANTS
  TypeOK
  PaymentsBooked
  CapKept
PROPERTIES
  ImplementsAccounts
  ConfirmedIsKept
