\* Two requests at one consumer, one rotation; a key set lives two ticks, and a
\* cache on the way may answer with a key replaced a tick ago.
SPECIFICATION Spec
CONSTANTS
    Slot = {p1, p2}
    MaxKeys = 2
    MaxTime = 5
    Life = 5
    MaxAge = 2
    Cooldown = 1
    Timeout = 1
    Reuse = 1
    None = None
PROPERTIES
    OldKeysDie
    DeniedRightly
    LegacyOnlyAsked
