SPECIFICATION Spec
CONSTANTS
  Record <- MCRecord
  Initial <- MCInitial
  Bumps <- MCBumps
  Fallback = 0
  MaxEdits = 2
  MaxSyn = 2
INVARIANTS
  TypeOK
  NoVersionSwallowed
  RecordsApart
  StampedEditReviewed
  TimelineOrder
CHECK_DEADLOCK FALSE
