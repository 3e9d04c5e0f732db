SPECIFICATION Spec
CONSTANTS
    Conns = {c1, c2}
    Reqs = {r1, r2}
    NoRun = NoRun
    NoSession = NoSession
    PENDING_CAPACITY = 2
    PENDING_TTL_SECONDS = 1
    MaxTime = 1
SYMMETRY Symmetry
INVARIANTS
    ReleasedAtShutdown
