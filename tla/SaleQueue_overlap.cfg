\* Two drain ticks, two calls of an orderly backend, a cap that comes and goes; a user joins again in the hands of a drain.
SPECIFICATION Spec
CONSTANTS
  Users = {1, 2, 3}
  Jtis = {j1, j2}
  Ticks = {d1, d2}
  Requests = {r1, r2}
  StockCount = 1
  QueueCap = 2
  RateLimit = 2
  Caps = {NoCap, 1}
  NoCap = NoCap
  NoJti = NoJti
  NoUser = NoUser
  Faults = {}
  AdminOps = {"capacity"}
  ClientMay = {}
  MaxJoins <- FirstTwice
  MaxDup = 1
  MaxMishaps = 0
SYMMETRY Symmetry
CHECK_DEADLOCK FALSE
INVARIANTS
  OneTicketPerUser
  DoorHolds
  SoldWithinInventory
PROPERTIES
  KeepsToSale
