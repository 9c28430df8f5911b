\* One session with retries, updates, restarts and deferred requests.
SPECIFICATION Spec
CONSTANTS
  MaxLoad = 3
  MaxJobs = 7
  TracksActivity = TRUE
  UsesVideo = TRUE
INVARIANTS TypeOK DeferredOnlyWhileBusy OneTeardown BusyHasDriver
PROPERTIES StopOutranks NoRetryOnceDisabled
CHECK_DEADLOCK FALSE
