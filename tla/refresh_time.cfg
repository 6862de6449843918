\* One request at a time while the clock runs: grace, expiry, retention, rows
\* that an older release left behind.
SPECIFICATION Spec
CONSTANTS
    u1 = u1
    u2 = u2
    c1 = c1
    c2 = c2
    User = {u1}
    Client = {c1}
    ClientOf <- OneClient
    Slot = {p1}
    Op = {o1, o2}
    NoOp = NoOp
    Grace = 1
    Life = 2
    Retention = 1
    LegacyOwner = {u1}
    MaxTokens = 4
    MaxTime = 4
SYMMETRY Symmetric
PROPERTIES
    RetriesEndWithGrace
