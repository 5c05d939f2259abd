CONSTANTS
  NoId = NoId
  Users = {b, v}
  Cycles = {1, 2}
  Tokens = {}
  Rows = {1}
  Builder = b
  Visitors = {v}
  MaxVisits = 1
  MaxCrashes = 1
  Refusals = FALSE
  Evictions = {}
SPECIFICATION Spec
PROPERTY LostStartRequeued
CHECK_DEADLOCK FALSE
