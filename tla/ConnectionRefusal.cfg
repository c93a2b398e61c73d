SPECIFICATION Spec
CONSTANTS
  r = r
  o = o
  s = s
  k = k
  Singles = {r}
  Oneways = {o}
  Streams = {s}
  Sinks = {k}
  HasFds = {s}
  Faulty = {s, k}
  MaxArrivals = 2
  MaxTokens = 1
  MaxGrants = 1
  MaxHandles = 0
  Threshold = 1
  Recovery = 1
  EgressLimit = 2
INVARIANTS CompletedAtMostOnce
CHECK_DEADLOCK FALSE
