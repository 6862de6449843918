\* One lost answer under the proportions of the shipped defaults: a grace period
\* as long as the timeout.  A documented consequence that TLC finds broken.
SPECIFICATION ClientSpec
CONSTANTS
    u1 = u1
    c1 = c1
    User = {u1}
    Client = {c1}
    ClientOf <- OneClient
    Slot = {p1, p2}
    Op = {o1, o2}
    NoOp = NoOp
    Grace = 2
    Life = 20
    Retention = 1
    LegacyOwner = {}
    MaxTokens = 5
    MaxTime = 3
    Timeout = 2
    Delay = 1
    MaxFailures = 1
CHECK_DEADLOCK FALSE
INVARIANTS
    LossSignsNobodyOut
