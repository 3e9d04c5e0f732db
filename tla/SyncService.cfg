SPECIFICATION FairSpec
CONSTANTS
    Conns = {c1, c2}
    Reqs = {r1, r2, r3}
    NoRun = NoRun
    NoSession = NoSession
    PENDING_CAPACITY = 1
    PENDING_TTL_SECONDS = 1
    MaxTime = 1
INVARIANTS
    TypeOK
    WithinCapacity
    ParkedIsOpen
    OneCloser
    OneOutcome
PROPERTIES
    OnlyRightfulEviction
    OnlyRefusedSmsLeaks
    ImplementsRegistry
    EveryRequestAnswered
