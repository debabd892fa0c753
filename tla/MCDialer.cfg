CONSTANTS
  BlockSamples = 40
  SamplesPerMs = 8
  SamplesPerSecond = 24
  DTMFDialSpeed = 8
  PulseBetweenDigits = 1
  Pause = 1
  PauseLimit = 2
  PulseBreak = 10
  PulseMake = 5
  HookFlash = 2
  Tick = 5
  MaxString = 8
  Countries <- MCCountries
  Strings <- MCStrings
SPECIFICATION FairSpec
INVARIANT DialerInv
PROPERTIES PulsesRight ScriptFollowed DialEnds
CHECK_DEADLOCK FALSE
