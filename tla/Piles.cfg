CONSTANTS
  r1 = r1  r2 = r2  r3 = r3  r4 = r4  r5 = r5
  Requests = {r1, r2, r3, r4, r5}
  Threads = {t1, t2}
  Shape <- TwoPriorities
  Placement <- Mixed
  MaxRequests = 1
  Filtered = {}
  Delegate = TRUE
  None = None
SPECIFICATION Spec
CHECK_DEADLOCK FALSE
INVARIANTS OneConsumer SlotsConserved
PROPERTIES RoundRobin ImplementsRequestPile
SYMMETRY Symmetry
