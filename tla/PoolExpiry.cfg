SPECIFICATION Spec
CONSTANTS
  Requests = {r1, r2, r3}
  Oneway = {r3}
  Threads = {t1, t2}
  PileLimit = 3
  Word = 8
  InitialLimit = 1
  NewLimits = {2}
  MultiBucket = TRUE
  Delegate = TRUE
  NoRequest = NoRequest
  NoLimit = NoLimit
SYMMETRY Symmetry
INVARIANTS DequeueTickets ExecutionLimitRespected
