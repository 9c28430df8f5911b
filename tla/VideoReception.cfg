SPECIFICATION Spec
CONSTANTS
  NumAttendees = 2
  Simulcast = {1}
  MaxFrames = 1
INVARIANTS
  OneTilePerAttendee
  TileShowsItsAttendee
  PauseReachesStream
PROPERTIES
  SlotsAreExact
  Settles
CHECK_DEADLOCK FALSE
