SPECIFICATION Spec
CONSTANTS
  Thread = {t1, t2}
  Job = {j1}
  MaxChanges = 1
  MaxAttempts = 2
  MaxCrashes = 1
INVARIANTS
  TypeOK
  OneChangeCaught
  RetryFindsEmptyRoot
  TornDownIsGone
PROPERTIES
  ApprovedStands
  JobSettles
CHECK_DEADLOCK FALSE
