\* Loops keep running; one fault at any point; no symmetry (liveness).
SPECIFICATION FairSpec
CONSTANTS
  k1 = k1
  k2 = k2
  Task <- MCTask
  Once <- MCOnce
  Schedule <- MCSchedule
  Admin = {a1}
  Judger = judger
  NoTask = NoTask
  MaxTime = 2
  MaxRequests = 2
  MaxFaults = 1
INVARIANTS TypeOK ScheduleRunsOnce
PROPERTIES OccurrencesRunAtMostOnce WaitsEnd
\* Time and requests are bounded, and everything may have been served.
CHECK_DEADLOCK FALSE
