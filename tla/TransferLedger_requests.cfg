SPECIFICATION Spec
CONSTANTS
    NULL = NULL
    Threads = {t1}
    Accounts = {a1, a2}
    Amounts <- Cents
    Types = {"income", "expense"}
    Uuids = {x1}
    MaxTx = 3
    MaxCat = 2
    MaxRejections = 1
SYMMETRY Symmetry
CONSTRAINT FewRows
INVARIANTS
    PointersAgree
    CountedOnce
PROPERTIES
    SignsGuarded
