----------------------------- MODULE Analytics -----------------------------
(***************************************************************************)
(* What the dashboard and the analytics pages, the account balances and    *)
(* the ledger table derive from a snapshot (engine/analytics.ts,           *)
(* engine/transfers.ts, DashboardPage.tsx, AnalyticsPage.tsx).  Expenses   *)
(* are positive.                                                           *)
(***************************************************************************)
EXTENDS BudgetEngine, SequencesExt

CONSTANT ChartLimit  \* categories a chart shows before "Other"

YearMonths == Years \X Months

\* accountBalances: a row without a category counts only if it is a transfer
\* leg or an adjustment.
Counts(t) == t.categoryId # None \/ IsTransfer(t) \/ t.source = "adjustment"

AccountBalance(b, a) ==
    b.accounts[a].openingBalance
    + SumOf({t \in EffectiveTransactions(b) : t.accountId = a /\ Counts(t)})

\* What the analytics count: rows of an existing category, no transfer legs.
Categorized(b) ==
    {t \in EffectiveTransactions(b) : ~IsTransfer(t) /\ t.categoryId \in b.categories}

\* The rows the dashboard counts: it does not look at transferId.
DashboardRows(b) == {t \in EffectiveTransactions(b) : t.categoryId \in b.categories}

In(t, year, month) == t.date[1] = year /\ t.date[2] = month

\* monthlySeries, and the monthly of DashboardPage
MonthlyValue(rows, year, month) ==
    LET here == {t \in rows : In(t, year, month)} IN
    [income  |-> SumOf({t \in here : KindOf[t.categoryId] = "income"}),
     expense |-> -SumOf({t \in here : KindOf[t.categoryId] # "income"})]

SeriesKeys(rows) == {ym \in YearMonths : \E t \in rows : In(t, ym[1], ym[2])}

\* yearTotals
YearTotal(rows, year) ==
    LET keys == {ym \in SeriesKeys(rows) : ym[1] = year}
        sum(f(_)) == MapThenSumSet(f, keys)
    IN  [income  |-> sum(LAMBDA ym : MonthlyValue(rows, ym[1], ym[2]).income),
         expense |-> sum(LAMBDA ym : MonthlyValue(rows, ym[1], ym[2]).expense),
         months  |-> Cardinality(keys)]

-----------------------------------------------------------------------------
\* categoryYearMatrix: a row for each category of the kind, biggest first, and
\* what is past the limit folded into "Other".  rows are the categorized ones.
OfKind(c, kind) == (KindOf[c] = "income") = (kind = "income")
Signed(kind, sum) == IF kind = "income" THEN sum ELSE -sum

MatrixRow(rows, year, kind, c) ==
    [m \in Months |-> Signed(kind, SumOf({t \in rows : t.categoryId = c /\ In(t, year, m)}))]

RowTotal(row) == MapThenSumSet(LAMBDA m : row[m], Months)

Ranked(rows, year, kind) ==
    LET inYear == {t \in rows : t.date[1] = year /\ OfKind(t.categoryId, kind)}
        Entry(c) == LET row == MatrixRow(inYear, year, kind, c)
                    IN  [id |-> c, total |-> RowTotal(row), empty |-> \A m \in Months : row[m] = 0]
        entries == {Entry(c) : c \in {t.categoryId : t \in inYear}}
        ranked  == Sorted({e \in entries : ~e.empty},
                          LAMBDA d, e : d.total > e.total \/ (d.total = e.total /\ d.id < e.id))
    IN  [i \in DOMAIN ranked |-> ranked[i].id]

\* Mutant of Folded: what is past the limit is not shown.
FoldedAway(ranked) == {}

\* The categories that end up in the "Other" row.
Folded(ranked) == {ranked[i] : i \in ChartLimit + 1 .. Len(ranked)}

CategoryYearMatrix(rows, year, kind) ==
    LET ranked == Ranked(rows, year, kind)
        shown  == {ranked[i] : i \in 1 .. Min({ChartLimit, Len(ranked)})}
    IN  [rows  |-> [c \in shown |-> MatrixRow(rows, year, kind, c)],
         other |-> [m \in Months |->
            MapThenSumSet(LAMBDA c : MatrixRow(rows, year, kind, c)[m], Folded(ranked))]]

\* What a month of the chart adds up to.
ChartMonth(matrix, m) ==
    MapThenSumSet(LAMBDA c : matrix.rows[c][m], DOMAIN matrix.rows) + matrix.other[m]

\* categoryTotals: slices of the donut of all time.
CategoryTotal(b, c) ==
    Signed(KindOf[c], SumOf({t \in Categorized(b) : t.categoryId = c}))

\* weekdayProfile, dayOfMonthProfile, topMerchants, txStats: outflows of a
\* year, gross, by some key.
Spent(b, year) ==
    {t \in Categorized(b) : t.date[1] = year /\ t.amount < 0 /\ KindOf[t.categoryId] # "income"}

ProfileBy(spent, keyOf, k) == -SumOf({t \in spent : keyOf[t] = k})

-----------------------------------------------------------------------------
\* The dashboard, for all accounts (None) or for one.
Scoped(b, account) ==
    [b EXCEPT !.transactions = [i \in {i \in DOMAIN b.transactions :
        account \in {None, b.transactions[i].accountId}} |-> b.transactions[i]]]

Net(rows, yms) ==
    MapThenSumSet(LAMBDA ym : LET v == MonthlyValue(rows, ym[1], ym[2]) IN v.income - v.expense, yms)

\* cumulativeData
CumulativeNet(rows, ym) ==
    Net(rows, {k \in SeriesKeys(rows) : k = ym \/ Before(k, ym)})

\* groupStack: the month's expenses by group.
GroupStack(rows, members, year, m) ==
    MapThenSumSet(LAMBDA c : MatrixRow(rows, year, "expense", c)[m], members)

-----------------------------------------------------------------------------
\* disciplineMatrix: a month is judged against what the envelope held.
Held(result, c, m) == result.byCategory[c, m].balance - result.byCategory[c, m].outflows

Judged(result, c, m) == Held(result, c, m) > 0 \/ result.byCategory[c, m].outflows < 0

Overrun(result, c, m) ==
    IF Judged(result, c, m)
    THEN Positive(-result.byCategory[c, m].outflows - Positive(Held(result, c, m))) ELSE 0

-----------------------------------------------------------------------------
\* mergeTransferRows: the table's items, transfers collapsed into one, their
\* legs below where the person opened them.
LegsOf(b, x) == {i \in DOMAIN b.transactions : b.transactions[i].transferId = x}

Mergeable(b, x) ==
    /\ Cardinality(LegsOf(b, x)) = 2
    /\ \E i \in LegsOf(b, x) : b.transactions[i].amount < 0
    /\ \E i \in LegsOf(b, x) : b.transactions[i].amount > 0

OutLeg(b, x) == CHOOSE i \in LegsOf(b, x) : b.transactions[i].amount < 0
InLeg(b, x)  == CHOOSE i \in LegsOf(b, x) : b.transactions[i].amount > 0

\* Mutant of Emits: the second leg in view is not recognized.
EmitsAgain(b, rows, n) == TRUE

\* The row makes an item: it is no leg of a transfer that has been emitted.
Emits(b, rows, n) ==
    LET x == b.transactions[rows[n]].transferId IN
    ~(x # None /\ Mergeable(b, x) /\ \E k \in 1 .. n - 1 : b.transactions[rows[k]].transferId = x)

ItemsOf(b, i, expanded) ==
    LET x == b.transactions[i].transferId IN
    IF x = None \/ ~Mergeable(b, x) THEN <<[kind |-> "tx", tx |-> i]>>
    ELSE <<[kind |-> "transfer", transferId |-> x]>>
         \o (IF x \in expanded
             THEN <<[kind |-> "leg", tx |-> OutLeg(b, x)], [kind |-> "leg", tx |-> InLeg(b, x)]>>
             ELSE <<>>)

MergeTransferRows(b, rows, expanded) ==
    FlattenSeq([n \in DOMAIN rows |->
        IF Emits(b, rows, n) THEN ItemsOf(b, rows[n], expanded) ELSE <<>>])
=============================================================================
