CONSTANTS
  NoId = NoId
  Users = {b, v}
  Cycles = {1, 2}
  Tokens = {t1}
  Rows = {1}
  Builder = b
  Visitors = {v}
  MaxVisits = 2
  MaxCrashes = 1
  Refusals = TRUE
  Evictions = {"idle", "force", "stall"}
SPECIFICATION Spec
INVARIANTS TypeOK ReservationHeld NoLeakedCheckout
CHECK_DEADLOCK FALSE
