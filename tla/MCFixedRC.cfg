CONSTANTS
  Modes = {0, 1, 2, 3, 4, 5, 11, 17}
  Taps <- MCTaps
  History = 7
  Counts = {0, 1, 6, 10, 24}
  Limits = {0, 2, 5, 160}
  MaxSamples = 48
SPECIFICATION Spec
INVARIANT WholeBlocks
PROPERTIES LastTaps OutputInstants
