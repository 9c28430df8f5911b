SPECIFICATION Spec
CONSTANTS
  Streams <- MCStreams
  Owner <- MCOwner
  Content = {"b"}
  MaxRate <- MCMaxRate
  Averages <- MCAverages
  Reports <- MCCollapse
  DefaultRate = 2800
  Startup = 1
  MinProbe = 1
  MaxHold = 2
  MinSubscribe = 1
  AfterProbe = 1
INVARIANT
  UpgradeOnlyWithinThreshold
CHECK_DEADLOCK FALSE
