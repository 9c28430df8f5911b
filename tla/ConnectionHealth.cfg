SPECIFICATION Spec
CONSTANTS
  MissedPongs = 3
  NoPackets = 3
  DelayPoints = 1
  Samples = 1
  Wait = 1
  CoolDown = 1
  MaxWarnings = 1
  MaxTasks = 2
  MaxRestarts = 1
  Silence = 6
INVARIANTS
  MissesAreSilence
  NoticesAlternate
  WarnedSparingly
PROPERTY
  SilenceIsNoticed
CHECK_DEADLOCK FALSE
