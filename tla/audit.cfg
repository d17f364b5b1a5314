SPECIFICATION Spec
CONSTANTS
  Req = {r1, r2, r3}
  None = None
  Old = 3
  Limit = 2
  MaxRestarts = 1
SYMMETRY Sym
INVARIANTS TypeOK EveryAnswerRecorded MetricsTrue AnswersDurable PagingComplete
CHECK_DEADLOCK FALSE
