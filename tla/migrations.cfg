\* A container of the newest release, one of the release before, a tool run.
SPECIFICATION Spec
CONSTANTS
    c1 = c1
    c2 = c2
    t1 = t1
    Newest = 3
    Idempotent = {1}
    Container = {c1, c2}
    Tool = {t1}
    Build <- Builds
    NoJournal = NoJournal
    Nobody = Nobody
    MaxEdits = 1
    MaxAborts = 1
INVARIANTS
    Vouched
    ReplaysNothing
    JournalWhole
PROPERTIES
    WritesTrue
    AdoptionEnds
CHECK_DEADLOCK FALSE
