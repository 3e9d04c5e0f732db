SPECIFICATION Spec
CONSTANTS
    None = None
    Parts = {"books"}
    Categories = {1, 2, 3, 4}
    KindOf <- MCKindOf
    Years = {1, 2, 3}
    MonthsInYear = 2
    Floor = 2
    ChartLimit = 1
    StartingBooks <- MCBooks
    EntryDates <- MCEntryDates
    Today <- MCToday
    Archived = {3}
    GoalTarget <- MCGoalTarget
    Amounts <- MCAmounts
    Budgeted <- MCBudgeted
    Demo = FALSE
    MaxEntries = 1
    People = {"A", "B"}
    Subjects = {"s"}
    Widths = {2}
    MaxMoves = 6
    StartingBoard <- MCBoard
    GroupKinds = {"expense", "goal"}
    MaxBoardAsked = 2
    Totals = {5, 7}
    Rouble = 2
    Typed = {0, 2, 3, 9}
    MaxParts = 3
    MaxStrokes = 4
    ImportAccounts = {1, 2}
    Operations = {"coffee", "coffee."}
    Statements <- MCStatements
    KeyOf <- MCKeyOf
    MaxImportSteps = 4
    StartingAccounts <- MCAccountList
    MaxAccountsAsked = 2
    ViewRows <- MCViewRows
    Filters <- MCFilters
    TableTop = 1
    RowHeight = 3
    ScreenHeight = 5
    Overscan = 2
    FirstWindow = 4
    MaxViewSteps = 3
    BankAccounts = {1, 2, 3}
    BankRefs = {"r"}
    BankCards = {"own", "shared", "other"}
    CardOwners <- MCCardOwners
    StartingBanks <- MCBanks
    MaxBankAsked = 4
    AdminUsers = {1}
    AdminRows = {1, 2}
    RowOwner <- MCRowOwner
    RowAccount <- MCRowAccount
    SqlStatements = {"look", "wipe"}
    Wipes <- MCWipes
    MaxAdminAsked = 4
    MaxAdminCalls = 2
    Connectors = {1, 2}
    MaxRunnerAsked = 4
INVARIANT ReconciledMatches
CHECK_DEADLOCK FALSE
