CONSTANTS
  SilenceBefore = 1
  PreambleMin = 2
  PreambleMax = 3
  HostLimit = 4
  S7 = 2
  AnswerTone = 1
  ScrmSilence = 1
  Quiet = 1
  Train = 1
  Codes <- MCCodes
  BytesPerBlock <- MCBytesPerBlock
  EtxPad = 3
  FifoSize = 6
  HdlcWant = 8
  HostBuffer = 9
  QueueSize = 9
  FrameLen = 3
  SuperSize = 8
  Messages <- MCMessages
  Pages <- MCPages
  Garbage <- MCGarbage
  MaxFrames = 1
  Damaged <- MCDamaged
  MaxTurns = 2
  MaxCommands = 2
  MaxSent = 2
  Splits <- MCSplits
SPECIFICATION Spec
INVARIANTS
  SessionInv
  SentWhole
PROPERTIES
  Answered
CHECK_DEADLOCK FALSE
