CONSTANTS
  AiConfigured = TRUE
  Manual = {"end", "deadline", "settle", "resettle", "ai", "fail", "restart"}
  MaxPresses = 3
  MaxFacts = 1
SPECIFICATION FairSpec
CHECK_DEADLOCK FALSE
INVARIANTS
  TypeOK
  FinalHasAll
  ForcedIsFresh
PROPERTIES
  SettleKeepsFinal
  EndsSettled
