SPECIFICATION Spec
CONSTANTS
  MaxLoad = 3
  MaxJobs = 7
  TracksActivity = FALSE
  UsesVideo = TRUE
PROPERTY DeferredStopIsCarriedOut
CHECK_DEADLOCK FALSE
