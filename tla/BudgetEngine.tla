---------------------------- MODULE BudgetEngine ----------------------------
(***************************************************************************)
(* The budget engine (engine/budget.ts, engine/splits.ts, engine/goals.ts):*)
(* pure functions from a snapshot to its budget, year by year.             *)
(*                                                                         *)
(* A snapshot, here books, is a record                                     *)
(*   categories    the categories that exist                               *)
(*   accounts      their opening balances and dates                        *)
(*   transactions  rows by id: date, amount, categoryId, accountId,        *)
(*                 transferId, source and splits                           *)
(*   budgets       the amount of each cell, 0 where there is none          *)
(* Dates are <<year, month, day>>, amounts whole numbers.                  *)
(***************************************************************************)
EXTENDS Integers, Sequences, FiniteSets, FiniteSetsExt, Absent, Ordering

CONSTANTS
    Categories, KindOf,   \* all category ids; the kind of each one's group
    Years, MonthsInYear,  \* the calendar
    Floor                 \* year from which an empty account is shown

ASSUME EngineAssumption ==
    /\ KindOf \in [Categories -> {"income", "expense", "goal"}]
    /\ Years \subseteq Nat /\ Floor \in Years /\ MonthsInYear \in Nat \ {0}
    /\ None \notin Categories

\* f itself; TLC then computes each of its values once.
Tabulated(f) == f @@ <<>>

Months == 1..MonthsInYear
BudgetKeys == Categories \X Years \X Months
Envelopes(b) == {c \in b.categories : KindOf[c] # "income"}

SumOf(S) == MapThenSumSet(LAMBDA e : e.amount, S)
Positive(n) == IF n > 0 THEN n ELSE 0
Negative(n) == IF n < 0 THEN n ELSE 0

-----------------------------------------------------------------------------
\* effectiveTransactions: a split transaction counts as its parts.
Part(i, k, t, categoryId, amount) ==
    [id |-> i, part |-> k, date |-> t.date, amount |-> amount, categoryId |-> categoryId,
     accountId |-> t.accountId, transferId |-> t.transferId, source |-> t.source]

EffectiveTransactions(b) ==
    UNION {LET t == b.transactions[i] IN
           IF t.splits = <<>> THEN {Part(i, 0, t, t.categoryId, t.amount)}
           ELSE {Part(i, k, t, t.splits[k].categoryId, t.splits[k].amount) : k \in DOMAIN t.splits}
           : i \in DOMAIN b.transactions}

IsTransfer(t) == t.transferId # None

BuildTxIndex(b) ==
    LET counted == {t \in EffectiveTransactions(b) : t.categoryId # None /\ ~IsTransfer(t)} IN
    Tabulated([k \in BudgetKeys |->
        SumOf({t \in counted : t.categoryId = k[1] /\ t.date[1] = k[2] /\ t.date[2] = k[3]})])

\* firstBudgetYear
FirstBudgetYear(b) ==
    Min({Floor} \cup {b.transactions[i].date[1] : i \in DOMAIN b.transactions}
                \cup {k[2] : k \in {k \in BudgetKeys : b.budgets[k] # 0}})

Earlier(d, e) ==
    \/ d[1] < e[1]
    \/ d[1] = e[1] /\ d[2] < e[2]
    \/ d[1] = e[1] /\ d[2] = e[2] /\ d[3] < e[3]

\* The month an opening balance counts in: its date, or that of the account's
\* first transaction, or the very first month.
OpeningMonth(b, a, firstYear) ==
    LET dates == {b.transactions[i].date :
                    i \in {i \in DOMAIN b.transactions : b.transactions[i].accountId = a}}
        date  == IF b.accounts[a].openingDate # None THEN b.accounts[a].openingDate
                 ELSE IF dates # {}
                 THEN CHOOSE d \in dates : \A e \in dates : ~Earlier(e, d)
                 ELSE None
    IN  IF date # None /\ date[1] >= firstYear THEN <<date[1], date[2]>> ELSE <<firstYear, 1>>

BuildOpeningIndex(b, firstYear) ==
    Tabulated([ym \in Years \X Months |->
        MapThenSumSet(LAMBDA a : b.accounts[a].openingBalance,
                      {a \in DOMAIN b.accounts : OpeningMonth(b, a, firstYear) = ym})])

-----------------------------------------------------------------------------
\* Mutant of Carried: an overspent envelope starts the next month in the red.
CarriedInTheRed(balance) == balance

\* What an envelope brings into the next month.
Carried(balance) == Positive(balance)

\* Mutant of Brought: every year starts from nothing.
BroughtNothing(prev, c) == 0

\* The balance an envelope ended the year before with.
Brought(prev, c) == IF prev = None THEN 0 ELSE prev.byCategory[c, MonthsInYear].balance

\* computeYear: a year from the one before it, None for the first.
ComputeYear(b, year, prev, txIndex, openingIndex) ==
    LET balances[c \in Envelopes(b), m \in 0..MonthsInYear] ==
            IF m = 0
            THEN [budgeted |-> 0, outflows |-> 0, balance |-> Brought(prev, c)]
            ELSE [budgeted |-> b.budgets[<<c, year, m>>], outflows |-> txIndex[<<c, year, m>>],
                  balance  |-> Carried(balances[c, m - 1].balance)
                               + b.budgets[<<c, year, m>>] + txIndex[<<c, year, m>>]]
        byCategory == Tabulated(balances)
        income == Tabulated([m \in Months |->
            openingIndex[<<year, m>>]
            + MapThenSumSet(LAMBDA c : txIndex[<<c, year, m>>], b.categories \ Envelopes(b))])
        budgetedTotal == Tabulated([m \in Months |->
            MapThenSumSet(LAMBDA c : b.budgets[<<c, year, m>>], Envelopes(b))])
        overspent == Tabulated([m \in Months |->
            MapThenSumSet(LAMBDA c : Negative(byCategory[c, m].balance),
                          {c \in Envelopes(b) : KindOf[c] = "expense"})])
        available[m \in 0..MonthsInYear] ==
            IF m = 0 THEN IF prev = None THEN 0 ELSE prev.available[MonthsInYear]
            ELSE available[m - 1] + income[m] - budgetedTotal[m]
                 + (IF m > 1 THEN overspent[m - 1]
                    ELSE IF prev = None THEN 0 ELSE prev.overspent[MonthsInYear])
    IN  [byCategory |-> byCategory, income |-> income, budgetedTotal |-> budgetedTotal,
         overspent |-> overspent, available |-> Tabulated(available)]

\* computeRange, from the first year that has anything.
ComputeRange(b) ==
    LET first        == FirstBudgetYear(b)
        txIndex      == BuildTxIndex(b)
        openingIndex == BuildOpeningIndex(b, first)
        results[year \in {y \in Years : y >= first}] ==
            ComputeYear(b, year, IF year = first THEN None ELSE results[year - 1],
                        txIndex, openingIndex)
    IN  results

\* groupTotals: months of a group, negative balances left out.
GroupTotals(result, members, m) ==
    [budgeted |-> MapThenSumSet(LAMBDA c : result.byCategory[c, m].budgeted, members),
     outflows |-> MapThenSumSet(LAMBDA c : result.byCategory[c, m].outflows, members),
     balance  |-> MapThenSumSet(LAMBDA c : Positive(result.byCategory[c, m].balance), members)]

\* goalProgress: what was allotted so far; purchases never drain it.
Funded(b, c, year, month) ==
    MapThenSumSet(LAMBDA k : b.budgets[k],
        {k \in BudgetKeys : k[1] = c /\ (k[2] < year \/ (k[2] = year /\ k[3] <= month))})

-----------------------------------------------------------------------------
\* The reference: an envelope month by month over the whole calendar, without
\* years, written as the largest sum of its flows over the latest months.
Before(ym, now) == ym[1] < now[1] \/ (ym[1] = now[1] /\ ym[2] < now[2])
Span(b) == LET first == FirstBudgetYear(b) IN {ym \in Years \X Months : ym[1] >= first}

BestRun(b, c, upTo, txIndex) ==
    LET flow(ym) == b.budgets[<<c, ym[1], ym[2]>>] + txIndex[<<c, ym[1], ym[2]>>]
    IN  Max({MapThenSumSet(flow, {ym \in upTo : ~Before(ym, from)}) : from \in upTo})
=============================================================================
