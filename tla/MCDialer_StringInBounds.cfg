CONSTANTS
  BlockSamples = 40
  SamplesPerMs = 8
  SamplesPerSecond = 24
  DTMFDialSpeed = 8
  PulseBetweenDigits = 1
  Pause = 1
  PauseLimit = 2
  PulseBreak = 10
  PulseMake = 5
  HookFlash = 2
  Tick = 5
  MaxString = 3
  Countries <- MCCountries
  Strings <- MCStringsFull
SPECIFICATION FairSpec
CHECK_DEADLOCK FALSE
INVARIANT StringInBounds
