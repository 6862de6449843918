\* Two requests at a time, two admins, one role that is deleted and recreated.
SPECIFICATION Spec
CONSTANTS
    Slot = {p1, p2}
    Email = {e1, e2}
    Name = {n1}
    Management = {m1, m2}
    MaxRoles = 2
    MaxSecrets = 3
    None = None
SYMMETRY Symmetric
INVARIANTS
    AdminInPlace
PROPERTIES
    FailsForCause
    OldSecretsDie
