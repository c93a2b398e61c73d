SPECIFICATION FairSpec
CONSTANTS
  a = a
  b = b
  f = f
  s = s
  RR = {a}
  FNF = {f}
  Streams = {s}
  Timed = {a, s}
  Deferred = TRUE
  HasFds = {}
INVARIANTS QueuesAgree CalledOnce UnsentMeansUnsent ClosesWhenDrained
PROPERTIES TimedRequestsAnswered ErrorCloses
CHECK_DEADLOCK FALSE
