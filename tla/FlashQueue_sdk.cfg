\* A user in the waiting room, with failing requests and a tab that is hidden once.
SPECIFICATION FairSpec
CONSTANTS
  Polls <- TwoPolls
  MaxPollRetries = 4
  MaxRetries = 1
  MaxHides = 1
CHECK_DEADLOCK FALSE
INVARIANTS
  PollsBounded
PROPERTIES
  Final
  DestroyedForGood
  Answered
