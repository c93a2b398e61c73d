\* A pile of several buckets without an expiration delegate.
SPECIFICATION FairSpec
CONSTANTS
  Requests = {r1, r2, r3}
  Oneway = {r3}
  Threads = {t1, t2}
  PileLimit = 2
  Word = 8
  InitialLimit = 1
  NewLimits = {}
  MultiBucket = TRUE
  Delegate = FALSE
  NoRequest = NoRequest
  NoLimit = NoLimit
INVARIANTS ExecutionTickets NoStrandedRequest
PROPERTIES QueuedRequestsLeave ExecutorQuiesces
