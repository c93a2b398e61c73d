SPECIFICATION FairSpec
CONSTANTS
  r1 = r1
  r2 = r2
  r3 = r3
  w1 = w1
  w2 = w2
  Requests = {r1, r2, r3}
  Oneway = {r3}
  Workers = {w1, w2}
  Owner <- TwoWorkers
  Timers <- FirstTimers
  Flows = {r2}
  Bypass = {r3}
  Tracking = TRUE
  MaxRequests = 1
INVARIANTS AnsweredOnce ShedNeverRuns ActiveRequestsExact JoinedWhenDrained
PROPERTIES NoLateStart EveryRequestAnswered StopCompletes
CHECK_DEADLOCK FALSE
