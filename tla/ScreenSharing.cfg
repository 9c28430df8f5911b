SPECIFICATION Spec
CONSTANTS
  MaxSockets = 2
  RetryLimit = 2
  Streams = {s1, s2}
  MaxStops = 2
SYMMETRY Symmetry
INVARIANTS
  CaptureIsHeld
  OneConnection
  ServiceFollows
  RetryIsUnderWay
CHECK_DEADLOCK FALSE
