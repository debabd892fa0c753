CONSTANTS
  Scaled <- MCScaled
  Deadline = 13
  LossMax = 2
  LossBack = 1
  Bps <- MCBps
  Hosts <- MCHosts
  MaxDrops = 2
  MaxPoor = 2
SPECIFICATION FairSpec
INVARIANTS
  WordsInv
  OneRate
PROPERTIES
  CallSettles
  NotLeftAlone
