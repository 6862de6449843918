\* Two requests over one account, two links, a second application.
SPECIFICATION Spec
CONSTANTS
    u1 = u1
    u2 = u2
    c1 = c1
    c2 = c2
    User = {u1}
    Client = {c1, c2}
    ClientOf <- OfFirst
    Password = {w1, w2}
    NoPassword = NoPassword
    Slot = {p1, p2}
    MaxTokens = 2
    MaxSessions = 2
SYMMETRY Symmetric
INVARIANTS
    OneWritePerToken
    VerifiedThroughMailbox
    RevocationIsComplete
PROPERTIES
    PasswordsAreAuthorized
    TokensSurviveOthers
