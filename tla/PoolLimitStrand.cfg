SPECIFICATION Spec
CONSTANTS
  Requests = {r1, r2}
  Oneway = {}
  Threads = {t1, t2}
  PileLimit = 3
  Word = 8
  InitialLimit = 1
  NewLimits = {2}
  MultiBucket = FALSE
  Delegate = FALSE
  NoRequest = NoRequest
  NoLimit = NoLimit
INVARIANTS NoStrandedRequest
