CONSTANTS
  Absent = Absent
  Deleted = Deleted
  MaxRounds = 3
SPECIFICATION Spec
INVARIANTS
  TypeOK
  RoundConsistent
  NoPeeking
PROPERTIES
  ThrowsFinal
  ScoreCountsRounds
  ImplementsSeries
\* A deleted game takes no further step.
CHECK_DEADLOCK FALSE
