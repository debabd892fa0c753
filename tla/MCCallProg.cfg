CONSTANTS
  SampleRate = 2
  BlockSamples = 3
  AnswerBlocks = 2
  NoAnswerTimeOut = 3
  BlindDialPause = 1
  DialToneWait = 4
  BongTimeOut = 2
  Modes = {TRUE, FALSE}
  Scripts <- MCScripts
SPECIFICATION FairSpec
INVARIANTS BusyNeverIgnored TimeoutsOnTime
PROPERTIES EndIsFinal DialsOnlyWhenAllowed SilentEndsKnown CallEnds
