\* Two releases of one ticket at a time.
SPECIFICATION Spec
CONSTANTS
  Users = {1, 2}
  Jtis = {j1, j2}
  Ticks = {d1}
  Requests = {r1, r2}
  StockCount = 1
  QueueCap = 2
  RateLimit = 2
  Caps = {NoCap}
  NoCap = NoCap
  NoJti = NoJti
  NoUser = NoUser
  Faults = {}
  AdminOps = {}
  ClientMay = {"overlap"}
  MaxJoins <- EachOnce
  MaxDup = 1
  MaxMishaps = 0
SYMMETRY Symmetry
CHECK_DEADLOCK FALSE
INVARIANTS
  ReturnedOnce
