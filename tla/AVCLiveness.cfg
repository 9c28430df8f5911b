\* Fairness of timers and task groups: teardowns end, retries end, and the
\* application sees an orderly life cycle.
SPECIFICATION FairSpec
CONSTANTS
  MaxLoad = 3
  MaxJobs = 4
  TracksActivity = FALSE
  UsesVideo = FALSE
PROPERTIES StopCompletes PastDeadlineEnds LifecycleImplemented
CHECK_DEADLOCK FALSE
