CONSTANTS
  DeadlineA = 30
  DeadlineB = 34
  Window = 2
  Settle = 2
  DrainSlots = 4
  MsgWords = 6
  Idle = 3
  MaxDamage = 1
  MaxClips = 1
  MaxDelay = 3
  MaxPast = 2
  Forged <- MCForged
  Calls <- MCCalls
SPECIFICATION FairSpec
INVARIANTS
  CollectInv
  LeaveTogether
PROPERTIES
  NegotiationEnds
