\* One tab on one page about one event; two requests of its timers at a time; one failure.
SPECIFICATION FairReportsSpec
CONSTANTS
  OpenPages = {"event", "adminEvent", "dashboard", "events", "clients", "overview", "system", "live"}
  Polls = {p1, p2}
  Unseen = Unseen
  MaxSold = 1
  MaxOps = 1
  MaxFailures = 1
CHECK_DEADLOCK FALSE
INVARIANTS
  ShownTruly
PROPERTIES
  CatchesUp
