\* Requests that callers may run side by side, with crashes and failed calls.
SPECIFICATION Spec
CONSTANTS
  Admins = {a1, a2}
  Lookups = {l1}
  Mode = "TEST"
  Faults = {"crash", "io"}
  Together <- Orderly
  NoEntry = NoEntry
  MaxChanges = 2
SYMMETRY Symmetry
CHECK_DEADLOCK FALSE
INVARIANTS
  OpenOnlyIfActivated
  TransitionsSettle
  SettingsFresh
PROPERTIES
  KeepsToLife
