\* A status request purging beside the questions of two analysts.
SPECIFICATION Spec
CONSTANTS
  Loop = Loop
  Workers = {w1}
  Analyst = {a1, u1}
  Uuid = {u1}
  Pool = TRUE
  Rate = 2
  Window = 2
  TTL = 0
  MaxTokens = 3
  Tokens = {1, 2}
  MaxAsks = 2
  MaxTime = 2
CHECK_DEADLOCK FALSE
INVARIANTS TypeOK RollingLimit SlotHeldOnlyInFlight NoExpiredAnswer
