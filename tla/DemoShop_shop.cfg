\* Two tabs of one customer, two calls at a time, one of them lost: who pays for what?
SPECIFICATION Spec
CONSTANTS
    Tabs = {t1, t2}
    Calls = {c1, c2}
    MaxFaults = 1
    NoTab = NoTab
    t1 = t1
    t2 = t2
    c1 = c1
    c2 = c2
SYMMETRY Symmetry
CHECK_DEADLOCK FALSE
INVARIANTS
    OneOrder
    BurntOnlyByFault
    SoldOrReturned
