SPECIFICATION Spec
CONSTANTS
    NULL = NULL
    Threads = {t1, t2}
    Accounts = {a1, a2}
    Amounts <- Cents
    Types = {"expense"}
    Uuids = {x1, x2}
    MaxTx = 2
    MaxCat = 2
    MaxRejections = 0
SYMMETRY Symmetry
CONSTRAINT FewIds
INVARIANTS
    TypeOK
    PartsAddUp
PROPERTIES
    TransfersStand
