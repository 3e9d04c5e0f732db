SPECIFICATION MCSpec
CONSTANTS
    None = None
    Category = {k1}
    Year = {1, 2}
    Month = {1, 2}
    Amount = {0, 1, 2}
    Today <- MCToday
    GoalTarget = 1
    MaxOps = 3
    MaxSessions = 1
    Tx = {1, 2, 3}
    Legs = {1, 2}
    Cat = {0, 1}
    Light = 1
    TX_CHUNK = 1
    MaxAsked = 2
INVARIANTS
    EditingTypeOK
    Agreement
    LedgerAgrees
    HistoryComplete
PROPERTIES
    CopiesWhatWasSeen
    EditsSettle
    SavesInOrder
    NewerEditsKept
CHECK_DEADLOCK FALSE
