\* Two requests at a time from one address to two accounts, five in all.
SPECIFICATION Spec
CONSTANTS
    Writer = {p1, p2}
    Ip = {i1}
    Account = {a1, a2}
    None = None
    Limit = 1
    Retention = 1
    MaxRows = 5
    MaxTime = 2
    Window = 2
    MaxIp = 2
    MaxAccount = 1
    MaxFaults = 1
SYMMETRY Symmetric
INVARIANTS
    AllowanceHolds
PROPERTIES
    RefusedForCause
    PagesGoBack
    HistoryIsShown
