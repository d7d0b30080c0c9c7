SPECIFICATION Spec
CONSTANTS
  Max16 = 168
  Escape = 3
  MaxV5 = 3
  Shapes <- MCShapes
  Budgets <- MCBudgets
  RecordLimits <- MCRecordLimits
  Lengths <- MCLengths
INVARIANTS
  CollectorReadsBack
  MatchesOneShot
  FitsMeansAppends
CHECK_DEADLOCK FALSE
