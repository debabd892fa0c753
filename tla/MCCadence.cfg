CONSTANTS
  MaxPeriods = 7
  MaxFailures = 2
  Remembered = 3
  MaxHostCalls = 2
  Setups <- MCSetups
  Lines <- MCLines
SPECIFICATION FairSpec
INVARIANTS CadenceInv Measured CountedForLife
PROPERTIES RhythmHeard SteadyHeard
CHECK_DEADLOCK FALSE
