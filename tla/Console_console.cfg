CONSTANTS
    Clients = {ann}
    Boss = boss
    None = none
    Browsers = {b1, b2}
    Tabs = {t1, t2}
    Requests = {r1, r2}
    Urls = {"dashboard"}
    Forms = {"login", "signup"}
    Buttons = {"activate"}
SPECIFICATION Spec
SYMMETRY Symmetry
INVARIANTS
    SuspendedStaysShut
    RightAccount
    NeverStuck
