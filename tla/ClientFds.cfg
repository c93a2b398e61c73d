SPECIFICATION Spec
CONSTANTS
  a = a
  b = b
  f = f
  s = s
  RR = {a}
  FNF = {f}
  Streams = {s}
  Timed = {a, s}
  Deferred = FALSE
  HasFds = {a}
INVARIANTS UnsentMeansUnsent
CHECK_DEADLOCK FALSE
