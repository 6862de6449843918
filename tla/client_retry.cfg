\* A grace period as long as the SDK's timeout, as shipped; two failures of any
\* kind: losses, deaths, errors, calls that overtake one another.
SPECIFICATION FairClientSpec
CONSTANTS
    u1 = u1
    c1 = c1
    User = {u1}
    Client = {c1}
    ClientOf <- OneClient
    Slot = {p1, p2}
    Op = {o1, o2}
    NoOp = NoOp
    Grace = 2
    Life = 20
    Retention = 1
    LegacyOwner = {}
    MaxTokens = 5
    MaxTime = 3
    Timeout = 2
    Delay = 1
    MaxFailures = 2
CHECK_DEADLOCK FALSE
INVARIANTS
    NeverSignedOutEverywhere
PROPERTIES
    RefreshSucceeds
    RefreshEnds
    PairsAdvance
