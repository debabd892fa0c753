CONSTANTS
  SilenceBefore = 1
  PreambleMin = 1
  PreambleMax = 2
  HostLimit = 3
  S7 = 1
  AnswerTone = 1
  ScrmSilence = 1
  Quiet = 1
  Train = 1
  Codes <- MCNone
  BytesPerBlock <- MCNoBytes
  EtxPad = 3
  FifoSize = 7
  HdlcWant = 8
  HostBuffer = 9
  QueueSize = 9
  FrameLen = 3
  SuperSize = 9
  Messages <- MCNone
  Pages <- MCNone
  Garbage <- MCOneGarbage
  MaxFrames = 6
  Damaged <- MCThird
  MaxTurns = 5
  MaxCommands = 5
  MaxSent = 2
  Splits <- MCSplits
SPECIFICATION Spec
INVARIANTS
  NoFrameTwice
PROPERTIES
  RepliesKnown
  Answered
CHECK_DEADLOCK FALSE
