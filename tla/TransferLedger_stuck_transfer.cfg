SPECIFICATION Spec
CONSTANTS
    NULL = NULL
    Threads = {t1}
    Accounts = {a1, a2}
    Amounts <- Cents
    Types = {"income", "expense"}
    Uuids = {x1}
    MaxTx = 2
    MaxCat = 1
    MaxRejections = 0
SYMMETRY Symmetry
INVARIANTS
    CanBeSplit
