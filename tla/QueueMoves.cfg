CONSTANTS
  NoId = NoId
  Users = {b, v}
  Cycles = {1, 2, 3}
  Tokens = {}
  Rows = {1, 2}
  Builder = b
  Visitors = {v}
  MaxVisits = 1
  MaxCrashes = 0
  Refusals = FALSE
  Evictions = {"stall"}
SPECIFICATION Spec
INVARIANT LiveBuildHoldsCheckout
PROPERTY QueueMoves
CHECK_DEADLOCK FALSE
