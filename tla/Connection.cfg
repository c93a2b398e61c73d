SPECIFICATION FairSpec
CONSTANTS
  r = r
  o = o
  s = s
  k = k
  Singles = {r}
  Oneways = {o}
  Streams = {s}
  Sinks = {k}
  HasFds = {s}
  Faulty = {r}
  MaxArrivals = 2
  MaxTokens = 1
  MaxGrants = 1
  MaxHandles = 1
  Threshold = 1
  Recovery = 1
  EgressLimit = 2
INVARIANTS CompletedOnce ReportedAfterWritten ClosedIsClean FlowsAgree Backpressure
PROPERTIES EventuallyClosed
CHECK_DEADLOCK FALSE
