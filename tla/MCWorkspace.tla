---------------------------- MODULE MCWorkspace ----------------------------
(***************************************************************************)
(* The parts of the web client, and the runner of the server's bank        *)
(* logins, that keep state of their own and share none of it: which of     *)
(* them moves is chosen at the start, the others stay as they are when     *)
(* nobody uses them.                                                       *)
(***************************************************************************)
EXTENDS Books, SideTabs, CategoryBoard, SplitEditor, StatementImport, AccountList, LedgerView,
    BankSync, AdminDesk, ConnectorWorker

CONSTANT Parts  \* those that may move

VARIABLE part

MCKindOf == (1 :> "income") @@ (2 :> "expense") @@ (3 :> "expense") @@ (4 :> "goal")

Row(date, amount, c, a, x, splits) ==
    [date |-> date, amount |-> amount, categoryId |-> c, accountId |-> a, transferId |-> x,
     source |-> "import", splits |-> splits, hidden |-> FALSE]
Filed(c, amount) == [categoryId |-> c, amount |-> amount]

MCBooks ==
    [categories |-> Categories,
     accounts |-> (1 :> [openingBalance |-> 50, openingDate |-> None])
                  @@ (2 :> [openingBalance |-> 7, openingDate |-> <<2, 1, 1>>]),
     transactions |->
        (1 :> Row(<<1, 2, 1>>, 30, 1, 1, None, <<>>))
        @@ (2 :> Row(<<1, 2, 2>>, -30, 2, 1, None, <<>>))
        @@ (3 :> Row(<<2, 1, 1>>, -20, None, 1, None, <<Filed(2, -12), Filed(3, -8)>>))
        @@ (4 :> Row(<<2, 1, 2>>, -10, None, 1, 4, <<>>))
        @@ (5 :> Row(<<2, 1, 2>>, 10, None, 2, 4, <<>>))
        @@ (6 :> Row(<<2, 2, 1>>, -10, 4, 2, None, <<>>))
        @@ (7 :> Row(<<2, 2, 2>>, -5, None, 2, None, <<>>)),
     budgets |-> [k \in BudgetKeys |->
        CASE k = <<2, 1, 2>> -> 20 [] k = <<4, 2, 1>> -> 10 [] k = <<3, 2, 1>> -> 5 [] OTHER -> 0]]

MCEntryDates == {<<1, 1, 1>>}
MCToday      == <<2, 2, 2>>
MCGoalTarget == [c \in Categories |-> IF KindOf[c] = "goal" THEN 15 ELSE 0]
MCAmounts    == {-10, 40}
MCBudgeted   == {-5, 20}

\* Rows of the table: one is hidden, two are legs, one is split.
MCViewRows ==
    [i \in {1, 3, 4, 5, 6} |-> MCBooks.transactions[i]]
    @@ (2 :> [MCBooks.transactions[2] EXCEPT !.hidden = TRUE])
MCFilters == [year : {None}, account : {None, 1}, category : {None, {}, {2}}]

MCBoard ==
    [groups |-> (1 :> [kind |-> "expense", sort |-> 2]) @@ (2 :> [kind |-> "goal", sort |-> 1]),
     cats |-> (1 :> [group |-> 1, sort |-> 1, target |-> 0, archived |-> FALSE])
              @@ (2 :> [group |-> 1, sort |-> 2, target |-> 0, archived |-> FALSE])
              @@ (3 :> [group |-> 2, sort |-> 3, target |-> 1, archived |-> FALSE])]

\* The wording of one operation drifts between statements.
Line(operation, account) == [operation |-> operation, account |-> account]
MCStatements ==
    {<<Line("coffee", 1), Line("coffee", 1)>>, <<Line("coffee", None), Line("coffee.", 1)>>}
MCKeyOf == [o \in Operations |-> "coffee"]

MCAccountList ==
    [order |-> <<1, 2, 3>>, archived |-> {3}, home |-> [t \in 1 .. 3 |-> IF t = 3 THEN 2 ELSE 1]]

\* No login, or one that two accounts share; the third has no reference.
MCBankStart ==
    [status |-> None, pending |-> None, link |-> {},
     ref |-> [a \in BankAccounts |-> IF a = Min(BankAccounts) THEN None ELSE "r"]]
MCBanks ==
    {MCBankStart,
     [MCBankStart EXCEPT !.status = "connected", !.link = BankAccounts \ {Min(BankAccounts)}]}

\* A card of one account, one that two have, and one of nobody's.
MCCardOwners == ("own" :> {2}) @@ ("shared" :> {1, 3}) @@ ("other" :> {})

MCRowOwner   == [r \in AdminRows |-> 1]
MCRowAccount == [r \in AdminRows |-> r]
MCWipes      == [s \in SqlStatements |-> IF s = "look" THEN {} ELSE {1}]

-----------------------------------------------------------------------------
allVars == <<part, booksVars, sideVars, boardVars, splitVars, importVars, accountVars, viewVars, bankVars, adminVars, runnerVars>>

Init ==
    /\ part \in Parts
    /\ IF part = "books" THEN BooksInit
       ELSE /\ books = None /\ results = <<>> /\ last = [op |-> "none"] /\ entries = 0
    /\ SideInit /\ (demoPage => part = "tabs")
    /\ SplitInit /\ (total # Min(Totals) => part = "split")
    /\ BoardInit /\ ImportInit /\ AccountInit /\ ViewInit
    /\ AdminInit /\ RunnerInit /\ BankInit /\ (bank # MCBankStart => part = "bank")

BooksMove == part = "books" /\ BooksNext
    /\ UNCHANGED <<part, sideVars, boardVars, splitVars, importVars, accountVars, viewVars, bankVars, adminVars, runnerVars>>
TabsMove == part = "tabs" /\ SideNext
    /\ UNCHANGED <<part, booksVars, boardVars, splitVars, importVars, accountVars, viewVars, bankVars, adminVars, runnerVars>>
BoardMoves == part = "board" /\ BoardNext
    /\ UNCHANGED <<part, booksVars, sideVars, splitVars, importVars, accountVars, viewVars, bankVars, adminVars, runnerVars>>
SplitMoves == part = "split" /\ SplitNext
    /\ UNCHANGED <<part, booksVars, sideVars, boardVars, importVars, accountVars, viewVars, bankVars, adminVars, runnerVars>>
ImportMoves == part = "import" /\ ImportNext
    /\ UNCHANGED <<part, booksVars, sideVars, boardVars, splitVars, accountVars, viewVars, bankVars, adminVars, runnerVars>>
AccountsMove == part = "accounts" /\ AccountNext
    /\ UNCHANGED <<part, booksVars, sideVars, boardVars, splitVars, importVars, viewVars, bankVars, adminVars, runnerVars>>
ViewMoves == part = "view" /\ ViewNext
    /\ UNCHANGED <<part, booksVars, sideVars, boardVars, splitVars, importVars, accountVars, bankVars, adminVars, runnerVars>>
BankMoves == part = "bank" /\ BankNext
    /\ UNCHANGED <<part, booksVars, sideVars, boardVars, splitVars, importVars, accountVars, viewVars, adminVars, runnerVars>>
AdminMoves == part = "admin" /\ AdminNext
    /\ UNCHANGED <<part, booksVars, sideVars, boardVars, splitVars, importVars, accountVars, viewVars, bankVars, runnerVars>>
WorkerMoves == part = "worker" /\ RunnerNext
    /\ UNCHANGED <<part, booksVars, sideVars, boardVars, splitVars, importVars, accountVars, viewVars, bankVars, adminVars>>

Next ==
    \/ BooksMove \/ TabsMove \/ BoardMoves \/ SplitMoves
    \/ ImportMoves \/ AccountsMove \/ ViewMoves \/ BankMoves \/ AdminMoves
    \/ WorkerMoves

Spec == Init /\ [][Next]_allVars
=============================================================================
