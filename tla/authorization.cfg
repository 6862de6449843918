\* Two requests over one role, user, account and key; another client's role.
SPECIFICATION Spec
CONSTANTS
    c1 = c1
    c2 = c2
    u1 = u1
    a1 = a1
    r1 = r1
    r2 = r2
    read1 = read1
    all1 = all1
    read2 = read2
    Client = {c1, c2}
    Managed = {c1}
    User = {u1}
    Account = {a1}
    NoAccount = NoAccount
    Role = {r1, r2}
    Default = {r1}
    Permission = {all1, read2}
    Key = {k1}
    ClientOf <- Owners
    NameOf <- Names
    ScopeLists <- Lists
    Needed <- Writing
    Slot = {p1, p2}
SYMMETRY Symmetric
INVARIANTS
    Silo
    NoOrphans
PROPERTIES
    AdmittedFresh
    RefusedRightly
