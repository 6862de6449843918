\* Two requests over one account, a second application that presents its
\* tokens: every race of rotation, retry, replay, logout and revocation.
SPECIFICATION Spec
CONSTANTS
    u1 = u1
    u2 = u2
    c1 = c1
    c2 = c2
    User = {u1}
    Client = {c1, c2}
    ClientOf <- OneClient
    Slot = {p1, p2}
    Op = {o1, o2}
    NoOp = NoOp
    Grace = 1
    Life = 2
    Retention = 1
    LegacyOwner = {}
    MaxTokens = 3
    MaxTime = 0
SYMMETRY Symmetric
INVARIANTS
    TypeOK
    OneLivePerLogin
    LiveIsRecordedSuccessor
    ReplayOnlyOfRedeemed
PROPERTIES
    RedeemedByOneOperation
    BoundToClient
    ImplementsSessions
