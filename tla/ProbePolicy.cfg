SPECIFICATION Spec
CONSTANTS
  Streams <- MCStreams
  Owner <- MCOwner
  Content = {}
  MaxRate <- MCMaxRate
  Averages <- MCAverages
  Reports <- MCReports
  DefaultRate = 2800
  Startup = 1
  MinProbe = 1
  MaxHold = 2
  MinSubscribe = 1
  AfterProbe = 1
INVARIANTS
  WithinTarget
  KnownStreamsOnly
  AmpleBandwidthIsUsed
PROPERTIES
  Settles
CHECK_DEADLOCK FALSE
