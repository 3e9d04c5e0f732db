------------------------------- MODULE Books -------------------------------
(***************************************************************************)
(* The books a person keeps: the snapshot as the store's operations change *)
(* it, one at a time and each answered before the next, and the budget the *)
(* pages recompute from it (App.tsx).  A demo runs the operations in the   *)
(* browser, otherwise the server does.  Hidden rows and edits that overlap *)
(* are LedgerClient's, the server's checks TransferLedger's.               *)
(***************************************************************************)
EXTENDS BudgetTable

CONSTANTS
    StartingBooks,  \* the books at the start
    EntryDates,     \* dates entered for transactions and transfers
    Amounts,        \* amounts entered for transactions, transfers and balances
    Budgeted,       \* amounts entered for budgets
    Demo,           \* TRUE in the demo
    MaxEntries      \* bound: operations

ASSUME BooksAssumption ==
    /\ DOMAIN StartingBooks = {"categories", "accounts", "transactions", "budgets"}
    /\ DOMAIN StartingBooks.transactions \subseteq Nat /\ IsFiniteSet(DOMAIN StartingBooks.transactions)
    /\ \A i \in DOMAIN StartingBooks.transactions :
          LET row == StartingBooks.transactions[i] IN "amount" \in DOMAIN row /\ row.amount \in Int
    /\ \A a \in DOMAIN StartingBooks.accounts : StartingBooks.accounts[a].openingBalance \in Int
    /\ Amounts \subseteq Int

VARIABLES
    books,    \* the snapshot, or None
    results,  \* ComputeRange of it
    last,     \* ghost: the last operation
    entries   \* ghost: operations so far

booksVars == <<books, results, last, entries>>

\* No page is shown before the snapshot has arrived.
Loaded == books # None

Record(b, op) ==
    /\ entries < MaxEntries /\ entries' = entries + 1
    /\ books' = b /\ books' # books
    /\ results' = ComputeRange(b) /\ last' = op

Ids == DOMAIN books.transactions
NextId == Max({0} \cup Ids) + 1
Ordinary(i) == ~IsTransfer(books.transactions[i])
WithRow(rows, i, row) == [j \in DOMAIN rows \cup {i} |-> IF j = i THEN row ELSE rows[j]]

Edited(change(_)) == [i \in Ids |-> change(books.transactions[i])]
Kept(ids) == [i \in ids |-> books.transactions[i]]

-----------------------------------------------------------------------------
\* saveBudget, of a row that is listed: setBudget, and the celebration.
SetBudget(key, amount) ==
    /\ key[1] \in CatsOfGroup(books, results[key[2]], KindOf[key[1]], TRUE)
    /\ Commits(results, key, amount)
    /\ Record([books EXCEPT !.budgets[key] = amount],
              [op |-> "budget", key |-> key, hitsZero |-> HitsZero(results, key, amount),
               before |-> results[key[2]].available[key[3]]])

\* "Fill to Dec", fillBudgetForward: the months after this one get its amount.
FillBudgetForward(key) ==
    /\ key[3] < MonthsInYear
    /\ Record([books EXCEPT !.budgets = [k \in BudgetKeys |->
                   IF k[1] = key[1] /\ k[2] = key[2] /\ k[3] > key[3] THEN @[key] ELSE @[k]]],
              [op |-> "fill"])

\* "Create the year", copyBudgetYear: it becomes a copy of the year before.
CopyBudgetYear(year) ==
    /\ CanCreateYear(books, year) /\ year - 1 \in Years
    /\ Record([books EXCEPT !.budgets = [k \in BudgetKeys |->
                   IF k[2] = year THEN @[<<k[1], year - 1, k[3]>>] ELSE @[k]]],
              [op |-> "copy", replaced |-> {k \in BudgetKeys : k[2] = year /\ books.budgets[k] # 0}])

\* addTransaction
AddTransaction(date, amount, c, a) ==
    Record([books EXCEPT !.transactions = WithRow(@, NextId,
                [date |-> date, amount |-> amount, categoryId |-> c, accountId |-> a,
                 transferId |-> None, source |-> "manual", splits |-> <<>>])],
           [op |-> "add"])

\* updateTransaction: the category of a row that is whole.
SetTxCategory(i, c) ==
    /\ Ordinary(i) /\ books.transactions[i].splits = <<>>
    /\ Record([books EXCEPT !.transactions[i].categoryId = c], [op |-> "categorize"])

\* replaceTransactionSplits: two parts of one category each, or none.
ReplaceTransactionSplits(i, first, second) ==
    /\ Ordinary(i)
    /\ \/ \E n \in Amounts :
            LET t == books.transactions[i] IN
            /\ n * t.amount > 0 /\ (t.amount - n) * t.amount > 0
            /\ Record([books EXCEPT
                 !.transactions[i].categoryId = None,
                 !.transactions[i].splits = <<[categoryId |-> first, amount |-> n],
                                              [categoryId |-> second, amount |-> t.amount - n]>>],
                 [op |-> "split"])
       \/ Record([books EXCEPT !.transactions[i].splits = <<>>], [op |-> "unsplit"])

\* deleteTransaction
DeleteTransaction(i) ==
    /\ Ordinary(i)
    /\ Record([books EXCEPT !.transactions = Kept(Ids \ {i})], [op |-> "delete"])

\* createTransfer: two rows without a category.
CreateTransfer(from, to, amount, date) ==
    LET leg(a, n) == [date |-> date, amount |-> n, categoryId |-> None, accountId |-> a,
                      transferId |-> NextId, source |-> "transfer", splits |-> <<>>]
    IN  /\ from # to /\ amount > 0
        /\ Record([books EXCEPT !.transactions =
                     WithRow(WithRow(@, NextId, leg(from, -amount)), NextId + 1, leg(to, amount))],
                  [op |-> "transfer"])

\* splitTransfer: the legs stay, as ordinary rows.
SplitTransfer(x) ==
    Record([books EXCEPT !.transactions =
               Edited(LAMBDA t : IF t.transferId = x THEN [t EXCEPT !.transferId = None] ELSE t)],
           [op |-> "apart"])

DeleteTransferWithLegs(x) ==
    Record([books EXCEPT !.transactions = Kept(Ids \ LegsOf(books, x))], [op |-> "deleteTransfer"])

\* What an account is taken to hold: the server leaves out rows that have no
\* category, are no leg and no adjustment, split ones among them; the demo
\* leaves out none.
ReconciledBalance(a) ==
    LET counted == {i \in Ids : books.transactions[i].accountId = a
                        /\ (Demo \/ Counts(books.transactions[i])
                                 \/ books.transactions[i].source = "transfer")}
    IN  books.accounts[a].openingBalance
        + SumFunctionOnSet([i \in counted |-> books.transactions[i].amount], counted)

\* reconcileAccount: an adjustment for the difference.
ReconcileAccount(a, actual) ==
    LET delta == actual - ReconciledBalance(a)
        row   == [date |-> Today, amount |-> delta, categoryId |-> None, accountId |-> a,
                  transferId |-> None, source |-> "adjustment", splits |-> <<>>]
    IN  /\ delta # 0
        /\ Record([books EXCEPT !.transactions = WithRow(@, NextId, row)],
                  [op |-> "reconcile", account |-> a, actual |-> actual])

\* deleteAccount: its rows move to another account.
DeleteAccount(a, to) ==
    /\ to \in DOMAIN books.accounts \ {a}
    /\ Record([books EXCEPT
                 !.accounts = [x \in DOMAIN @ \ {a} |-> @[x]],
                 !.transactions = Edited(LAMBDA t :
                    IF t.accountId = a THEN [t EXCEPT !.accountId = to] ELSE t)],
              [op |-> "deleteAccount"])

\* deleteCategory: its rows lose their category and its budgets go.  The server
\* refuses while parts of split rows are filed under it; in the demo they stay.
DeleteCategory(c) ==
    /\ Demo \/ \A i \in Ids : \A n \in DOMAIN books.transactions[i].splits :
                  books.transactions[i].splits[n].categoryId # c
    /\ Record([books EXCEPT
                 !.categories = @ \ {c},
                 !.budgets = [k \in BudgetKeys |-> IF k[1] = c THEN 0 ELSE @[k]],
                 !.transactions = Edited(LAMBDA t :
                    IF t.categoryId = c THEN [t EXCEPT !.categoryId = None] ELSE t)],
              [op |-> "deleteCategory"])

\* The plans are summed month by month.
MergedBudgets(c, into) ==
    [k \in BudgetKeys |->
        CASE k[1] = c    -> 0
          [] k[1] = into -> books.budgets[k] + books.budgets[<<c, k[2], k[3]>>]
          [] OTHER       -> books.budgets[k]]

\* mergeCategories: rows and plan move to the target, parts of split rows
\* stay.  The page offers targets of the same kind.
MergeCategory(c, into) ==
    /\ c # into /\ KindOf[c] = KindOf[into]
    /\ Record([books EXCEPT
                 !.categories = @ \ {c},
                 !.budgets = MergedBudgets(c, into),
                 !.transactions = Edited(LAMBDA t :
                    IF t.categoryId = c THEN [t EXCEPT !.categoryId = into] ELSE t)],
              [op |-> "merge"])

-----------------------------------------------------------------------------
BooksInit ==
    /\ books = StartingBooks /\ results = ComputeRange(books)
    /\ last = [op |-> "none"] /\ entries = 0

Transfers == {books.transactions[i].transferId : i \in Ids} \ {None}
Accounts == DOMAIN books.accounts

Budgeting ==
    \/ \E c \in Envelopes(books), y \in ShownYears(books), m \in Months :
          \/ \E n \in Budgeted : SetBudget(<<c, y, m>>, n)
          \/ FillBudgetForward(<<c, y, m>>)
    \/ \E y \in ShownYears(books) : CopyBudgetYear(y)

Bookkeeping ==
    \/ \E d \in EntryDates, n \in Amounts, a \in Accounts :
          \/ \E c \in books.categories \cup {None} : AddTransaction(d, n, c, a)
          \/ \E to \in Accounts : CreateTransfer(a, to, n, d)
    \/ \E i \in Ids :
          \/ \E c \in books.categories \cup {None} : SetTxCategory(i, c)
          \/ \E c, d \in books.categories : ReplaceTransactionSplits(i, c, d)
          \/ DeleteTransaction(i)
    \/ \E x \in Transfers : (Demo /\ SplitTransfer(x)) \/ DeleteTransferWithLegs(x)
    \/ \E a \in Accounts, n \in Amounts : ReconcileAccount(a, n)

Structure ==
    \/ \E a, to \in Accounts : DeleteAccount(a, to)
    \/ \E c \in books.categories :
          DeleteCategory(c) \/ \E into \in books.categories : MergeCategory(c, into)

BooksNext == Budgeting \/ Bookkeeping \/ Structure

BooksSpec == BooksInit /\ [][BooksNext]_booksVars

-----------------------------------------------------------------------------
LastYear == Max(Years)
AllRows == EffectiveTransactions(books)
Over(b, r, f(_, _, _)) ==
    MapThenSumSet(LAMBDA k : f(k[1], k[2], k[3]), Envelopes(b) \X (DOMAIN r) \X Months)

\* Every kopeck of the accounts is in an envelope, or free to be budgeted, or
\* in a row that no envelope counts: an adjustment, a leg, or a part filed under
\* a category that is gone.  A goal's overspending alone is forgiven when the
\* next month begins (engine/budget.ts, computeYear and accountBalances).
MoneyConserved == Loaded =>
    LET atEnd(c) == results[LastYear].byCategory[c, MonthsInYear].balance
        held     == MapThenSumSet(LAMBDA a : AccountBalance(books, a), Accounts)
        outside  == SumOf({t \in AllRows : Counts(t) /\
                        (t.categoryId = None \/ IsTransfer(t) \/ t.categoryId \notin books.categories)})
        forgiven == Over(books, results, LAMBDA c, y, m :
                        IF KindOf[c] = "goal" /\ <<y, m>> # <<LastYear, MonthsInYear>>
                        THEN Negative(results[y].byCategory[c, m].balance) ELSE 0)
    IN  held - outside = results[LastYear].available[MonthsInYear] + forgiven
                         + MapThenSumSet(atEnd, Envelopes(books))

\* The year-by-year engine, carrying over and skipping the years before the
\* first one that has anything, gives every envelope the balance of the
\* reference, which knows no years (computeRange).
EnvelopesAreBestRuns == Loaded =>
    LET txIndex == BuildTxIndex(books)
        span    == Span(books)
    IN  \A now \in span :
            LET upTo == {ym \in span : ~Before(now, ym)} IN
            \A c \in Envelopes(books) :
                results[now[1]].byCategory[c, now[2]].balance = BestRun(books, c, upTo, txIndex)

\* Every chart agrees with the budget page to the kopeck (DashboardPage.tsx):
\* the series, the charts by category with what they fold into "Other", by
\* group, by account and by day; and what the discipline table charges to a month
\* is what the envelope is in the red by, wherever the budget is not negative.
ChartsAgree == Loaded =>
    LET all    == Categorized(books)
        shown  == DashboardRows(books)
        scopes == {Categorized(Scoped(books, a)) : a \in Accounts}
        groups == {{c \in books.categories : KindOf[c] = k} : k \in {"expense", "goal"}}
        keys   == SeriesKeys(all)
        totals == MapThenSumSet(LAMBDA c : Signed(KindOf[c], CategoryTotal(books, c)), books.categories)
    IN  /\ \A ym \in keys : (\A k \in keys : ~Before(ym, k)) => CumulativeNet(all, ym) = totals
        /\ \A y \in DOMAIN results :
              LET matrix == CategoryYearMatrix(all, y, "expense")
                  spent  == Spent(books, y)
              IN
              /\ \A m \in Months :
                    LET v == MonthlyValue(shown, y, m) IN
                    /\ v.expense = -MapThenSumSet(LAMBDA c : results[y].byCategory[c, m].outflows,
                                                  Envelopes(books))
                    /\ v = MonthlyValue(all, y, m)
                    /\ v.expense = ChartMonth(matrix, m)
                    /\ v.expense = MapThenSumSet(LAMBDA g : GroupStack(all, g, y, m), groups)
                    /\ v.income - v.expense = MapThenSumSet(LAMBDA rows : Net(rows, {<<y, m>>}), scopes)
              /\ LET total == YearTotal(all, y)
                 IN  total.income - total.expense = Net(all, {ym \in SeriesKeys(all) : ym[1] = y})
              /\ -SumOf(spent) = MapThenSumSet(LAMBDA d :
                     ProfileBy(spent, [t \in spent |-> t.date[3]], d), {t.date[3] : t \in spent})
              /\ \A c \in Envelopes(books), m \in Months : books.budgets[<<c, y, m>>] >= 0 =>
                    Overrun(results[y], c, m) = -Negative(results[y].byCategory[c, m].balance)

\* The pieces in a month's header sum to what is available; the rows of each
\* group add up to its subtotals, and the subtotals to the header and to the
\* spending of the year, but for what was set aside, whether or not the unused
\* categories are shown; a month is celebrated exactly when an edit leaves
\* nothing to budget in it; and creating a year replaces no amount
\* (BudgetPage.tsx, YearGrid.tsx).
BudgetPageAgrees == Loaded =>
    LET plus(d, e) == [budgeted |-> d.budgeted + e.budgeted, outflows |-> d.outflows + e.outflows,
                       balance  |-> d.balance + e.balance]
        all == Categorized(books)
    IN
    /\ \A y \in DOMAIN results, m \in Months :
          LET pieces == Breakdown(results, y, m) IN
          results[y].available[m] = pieces.carried + pieces.overspent + pieces.income + pieces.budgeted
    /\ \A y \in DOMAIN results, unused \in BOOLEAN :
          LET r       == results[y]
              row     == Tabulated([g \in Groups |-> GroupRow(r, g, CatsOfGroup(books, r, g, unused))])
              rows    == UNION {CategoryRows(r, g, CatsOfGroup(books, r, g, unused), {}) : g \in Groups}
              aside   == {c \in Envelopes(books) \ {x.category : x \in rows} : SetAside(books, c)}
          IN  /\ \A m \in Months :
                    plus(plus(row["expense"].cells[m], row["goal"].cells[m]), GroupTotals(r, aside, m))
                    = [budgeted |-> r.budgetedTotal[m], outflows |-> -MonthlyValue(all, y, m).expense,
                       balance  |-> GroupTotals(r, Envelopes(books), m).balance]
              /\ row["expense"].total + row["goal"].total + YearSpent(r, aside) = -YearTotal(all, y).expense
              /\ \A g \in Groups : LET mine == {x \in rows : KindOf[x.category] = g} IN
                    /\ Cardinality(mine) = row[g].count
                    /\ MapThenSumSet(LAMBDA x : x.total, mine) = row[g].total
    /\ last.op = "budget" =>
          (last.hitsZero <=> last.before # 0 /\ results[last.key[2]].available[last.key[3]] = 0)
    /\ last.op = "copy" => last.replaced = {}

\* The charts and the budget page, which derive the same amounts each in its own
\* way, agree with themselves and with each other (App.tsx recomputes both).
PagesAgree == ChartsAgree /\ BudgetPageAgrees

\* Whichever rows a filter leaves and whichever transfers are opened, the table
\* shows every row of them once, in an item of its own or in its transfer's, and
\* no item twice (mergeTransferRows).
RowsShownOnce == Loaded =>
    \A a \in Accounts \cup {None}, expanded \in SUBSET Transfers :
        LET rows  == Sorted(DOMAIN Scoped(books, a).transactions, LAMBDA i, j : i > j)
            items == MergeTransferRows(books, rows, expanded)
            shown(i) == {n \in DOMAIN items :
                \/ items[n].kind = "tx" /\ items[n].tx = i
                \/ items[n].kind = "transfer" /\ items[n].transferId = books.transactions[i].transferId}
        IN  /\ \A k \in DOMAIN rows : Cardinality(shown(rows[k])) = 1
            /\ \A j, k \in DOMAIN items : items[j] = items[k] => j = k

\* A reconciled account shows the balance it was reconciled to: an adjustment
\* "will be posted so the account matches your bank" (AccountDialogs.tsx:398).
\* The code does not ensure it, see findings.
ReconciledMatches ==
    last.op = "reconcile" => AccountBalance(books, last.account) = last.actual
=============================================================================
