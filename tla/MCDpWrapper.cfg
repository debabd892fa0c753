CONSTANTS
  DpFrags = {0, 5}
  Rates = {0, 4, 5, 6}
  ConverterPairs <- MCPairs
  DPW_MAX_FRAG = 7
  Statuses = {0, 1}
  MaxCount = 14
  MaxSamples = 26
SPECIFICATION FairSpec
INVARIANTS Latency StatusesReported
PROPERTY RunReturns
CHECK_DEADLOCK TRUE
