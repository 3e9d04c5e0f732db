---------------------------- MODULE BudgetTable ----------------------------
(***************************************************************************)
(* What the budget page makes of the engine's results (BudgetPage.tsx,     *)
(* YearGrid.tsx, BudgetCell.tsx, engine/goals.ts): which categories it     *)
(* lists, a row of subtotals for each group, the header of each month, and *)
(* what it does when a cell is edited.  The kinds stand for the groups.    *)
(***************************************************************************)
EXTENDS Analytics

CONSTANTS
    Archived,    \* archived categories
    GoalTarget,  \* what each goal is to collect, 0 if it has no target
    Today

ASSUME TableAssumption ==
    /\ Archived \subseteq Categories /\ GoalTarget \in [Categories -> Nat]
    /\ Today[1] \in Years /\ Today[2] \in Months

Groups == {"expense", "goal"}

-----------------------------------------------------------------------------
\* lastYear: the year after everything there is.
LastShownYear(b) ==
    1 + Max({Today[1], Floor} \cup {b.transactions[i].date[1] : i \in DOMAIN b.transactions}
            \cup {k[2] : k \in {k \in BudgetKeys : b.budgets[k] # 0}})

ShownYears(b) == {y \in Years : FirstBudgetYear(b) <= y /\ y <= LastShownYear(b)}

\* canCreateYear
CanCreateYear(b, year) == year = LastShownYear(b)

-----------------------------------------------------------------------------
\* goalProgress: by what was allotted until today.
GoalStatus(b, c) ==
    IF c \in Archived THEN "archived"
    ELSE IF GoalTarget[c] > 0 /\ Funded(b, c, Today[1], Today[2]) >= GoalTarget[c] THEN "achieved"
    ELSE "active"

\* Mutant of Used: a category that only carries a balance is not used.
UsedThisYear(result, c) ==
    \E m \in Months : result.byCategory[c, m].budgeted # 0 \/ result.byCategory[c, m].outflows # 0

\* used: "a carried balance keeps it visible, since hiding money would be worse".
Used(result, c) ==
    \E m \in Months : \E field \in {"budgeted", "outflows", "balance"} : result.byCategory[c, m][field] # 0

\* Never counted as used, whatever they hold.
SetAside(b, c) == IF KindOf[c] = "goal" THEN GoalStatus(b, c) # "active" ELSE c \in Archived

Active(b, result, c) == ~SetAside(b, c) /\ (KindOf[c] = "goal" \/ Used(result, c))

\* catsByGroup: "Show unused" brings back the unused, and the goals set aside.
CatsOfGroup(b, result, g, showUnused) ==
    {c \in Envelopes(b) : KindOf[c] = g /\
        (Active(b, result, c) \/ (showUnused /\ (g = "goal" \/ c \notin Archived)))}

-----------------------------------------------------------------------------
\* The rows, of the year grid or of one of its months.
YearSpent(result, members) ==
    MapThenSumSet(LAMBDA k : result.byCategory[k[1], k[2]].outflows, members \X Months)

GroupRow(result, g, members) ==
    [group |-> g, count |-> Cardinality(members), total |-> YearSpent(result, members),
     cells |-> Tabulated([m \in Months |-> GroupTotals(result, members, m)])]

CategoryRow(result, c) ==
    [category |-> c, total |-> YearSpent(result, {c}), cells |-> [m \in Months |-> result.byCategory[c, m]]]

CategoryRows(result, g, members, collapsed) ==
    IF g \in collapsed THEN {} ELSE {CategoryRow(result, c) : c \in members}

\* The pieces of a month's header that sum to Available.
Breakdown(results, year, m) ==
    LET earlier == IF m > 1 THEN <<year, m - 1>> ELSE <<year - 1, MonthsInYear>>
        none    == earlier[1] \notin DOMAIN results
    IN  [carried  |-> IF none THEN 0 ELSE results[earlier[1]].available[earlier[2]],
         overspent |-> IF none THEN 0 ELSE results[earlier[1]].overspent[earlier[2]],
         income   |-> results[year].income[m],
         budgeted |-> -results[year].budgetedTotal[m]]

-----------------------------------------------------------------------------
\* BudgetCell, commit: an amount that is not the one shown is saved.
Commits(results, key, amount) == amount # results[key[2]].byCategory[key[1], key[3]].budgeted

\* saveBudget celebrates the month whose Available this edit drives to zero.
HitsZero(results, key, amount) ==
    LET result == results[key[2]]
        before == result.available[key[3]]
        delta  == amount - result.byCategory[key[1], key[3]].budgeted
    IN  before # 0 /\ before - delta = 0
=============================================================================
