\* Three webhooks in a list of two, with a crash or a failed command.
SPECIFICATION FairSpec
CONSTANTS
  Hooks = {h1, h2, h3}
  Passes = {p1, p2}
  MaxEntries = 2
  MaxAttempts = 2
  Backoff <- TwoWaits
  Faults = {"crash", "io"}
  MaxFaults = 1
CHECK_DEADLOCK FALSE
INVARIANTS
  NothingForgotten
  QueuedOnce
PROPERTIES
  NotSentAgain
  Settles
