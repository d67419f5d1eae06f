\* One drain at a time, one verify or release call at a time, no failures; maxConcurrent is not set, or 1.
SPECIFICATION FairSpec
CONSTANTS
  Users = {1, 2, 3}
  Jtis = {j1, j2, j3}
  Ticks = {d1}
  Requests = {r1}
  StockCount = 1
  QueueCap = 3
  RateLimit = 2
  Caps = {NoCap, 1}
  NoCap = NoCap
  NoJti = NoJti
  NoUser = NoUser
  Faults = {}
  AdminOps = {}
  ClientMay = {}
  MaxJoins <- EachOnce
  MaxDup = 1
  MaxMishaps = 0
CHECK_DEADLOCK FALSE
INVARIANTS
  StockConserved
  NobodyLost
  WinnerHasTicket
  GateOvershoot
PROPERTIES
  ServedInOrder
  TurnedAwayWhenEmpty
  EveryoneAnswered
