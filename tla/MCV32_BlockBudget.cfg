CONSTANTS
  Scaled <- MCScaled
  Sym = 3
  Limit = 46
  Turnaround = 2
  Rtd = 4
  Tad = 3
  LossLimit = 1
  MaxRetrains = 1
  Calls <- MCCalls
SPECIFICATION Spec
INVARIANT BlockBudget
