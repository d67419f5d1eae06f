\* Two customers at a time buy a product of which one unit is left while its seller edits it:
\* how far may the shop oversell, and what does a lost reply leave behind?
SPECIFICATION Spec
CONSTANTS
    Pages = {p1, p2}
    Requests = {r1, r2}
    OrderIds = {o1, o2, o3}
    Supply = {1}
    Chosen = {"UPCOMING", "ACTIVE"}
    MaxEdits = 1
    MaxFaults = 1
    MaxCancels = 1
    NoPage = NoPage
    NoOrder = NoOrder
    p1 = p1
    p2 = p2
    r1 = r1
    r2 = r2
    o1 = o1
    o2 = o2
    o3 = o3
SYMMETRY Symmetry
CHECK_DEADLOCK FALSE
INVARIANTS
    SoldWithinSupply
    PendingOnlyByFault
    OneOrderPerPage
    ShownIsPaid
