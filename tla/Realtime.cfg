SPECIFICATION Spec
CONSTANTS
  Inputs = {mic1, mic2}
  MaxStreams = 2
  MaxDepth = 2
SYMMETRY Symmetry
INVARIANTS
  MutedIsMuted
  ServerKnowsMute
  IndicatorIsTold
  EarlySubscriberKnowsRoster
CHECK_DEADLOCK FALSE
