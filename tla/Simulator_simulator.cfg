\* Two users join through one place, in two runs of which the first may be stopped, reset or
\* overtaken, and a request may fail: what do the counters show?
SPECIFICATION Spec
CONSTANTS
    Users = {u1, u2}
    Cap = 1
    MaxRuns = 2
    MaxFaults = 1
    u1 = u1
    u2 = u2
SYMMETRY Symmetry
CHECK_DEADLOCK FALSE
INVARIANTS
    CountersAgree
    CapKept
