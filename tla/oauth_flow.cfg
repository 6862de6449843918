\* Two applications with a redirect target each, with and without PKCE, while
\* the clock runs past the life of states, markers and codes.
SPECIFICATION Spec
CONSTANTS
    User = {u1}
    Provider = {github}
    Verifying = {github}
    Subject = {s1}
    App = {a1, a2}
    Public = {a2}
    Redirect = {r1, r2}
    Challenge = {k1}
    NoChallenge = NoChallenge
    Slot = {p1, p2}
    StateLife = 2
    CodeLife = 1
    Away = 1
    Lag = 1
    MaxStates = 2
    MaxCodes = 2
    MaxTime = 3
SYMMETRY Symmetric
INVARIANTS
    StatesPassOnce
    CodesOpenOnce
    SessionsMatchTransactions
PROPERTIES
    CodesSurviveOthers
