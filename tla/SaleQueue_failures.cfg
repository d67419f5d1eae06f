\* Everything may fail; calls are retried; the event is paused, resumed and ended.
SPECIFICATION Spec
CONSTANTS
  Users = {1, 2}
  Jtis = {j1}
  Ticks = {d1}
  Requests = {r1}
  StockCount = 1
  QueueCap = 2
  RateLimit = 2
  Caps = {1}
  NoCap = NoCap
  NoJti = NoJti
  NoUser = NoUser
  Faults = {"crash", "io", "sign"}
  AdminOps = {"pause", "resume", "end"}
  ClientMay = {"reuse"}
  MaxJoins <- EachOnce
  MaxDup = 1
  MaxMishaps = 2
SYMMETRY Symmetry
CHECK_DEADLOCK FALSE
INVARIANTS
  UnitsWithinMishaps
  
  ActiveIsDrained
