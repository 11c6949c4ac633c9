CONSTANTS
  AiConfigured = FALSE
  Manual = {"end", "deadline"}
  MaxPresses = 2
  MaxFacts = 0
SPECIFICATION Spec
CHECK_DEADLOCK FALSE
PROPERTIES
  ClosedForGood
