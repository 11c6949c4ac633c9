CONSTANTS
  AiConfigured = FALSE
  Manual = {"end", "settle"}
  MaxPresses = 2
  MaxFacts = 1
SPECIFICATION Spec
CHECK_DEADLOCK FALSE
INVARIANTS
  ResultCoversContest
