----------------------------- MODULE LedgerView -----------------------------
(***************************************************************************)
(* The table of transactions (TransactionsPage.tsx, useWindowedRows.ts):   *)
(* which rows its filters leave, the items they make, and the window of    *)
(* items that is rendered while the person scrolls, opens transfers and    *)
(* split rows, and the history keeps arriving.  Lengths are in pixels.     *)
(***************************************************************************)
EXTENDS Analytics

CONSTANTS
    ViewRows,   \* the ledger: rows by id, newer ones with greater ids
    Filters,    \* what the person filters by: year, account and category, None for
                \* all; as category a set of one, or {} for rows that have none
    TableTop, RowHeight, ScreenHeight,
    Overscan,      \* items rendered beyond the screen
    FirstWindow,   \* items rendered before anything is measured
    MaxViewSteps   \* bound: what the person does

ASSUME LedgerViewAssumption ==
    /\ RowHeight \in Nat \ {0} /\ ScreenHeight \in Nat /\ TableTop \in Nat
    /\ Overscan \in Nat \ {0} /\ FirstWindow \in Nat /\ MaxViewSteps \in Nat
    /\ DOMAIN ViewRows \subseteq Nat /\ IsFiniteSet(DOMAIN ViewRows)
    /\ \A i \in DOMAIN ViewRows :
          ViewRows[i].splits \in Seq([categoryId : Categories \cup {None}, amount : Int])

VARIABLES
    arrived,      \* rows of the snapshot: the newest ones, as history loads
    hiddenShown,  \* showHidden, once the hidden rows are there
    filter, amountRange,
    expanded,     \* the transfers and the split rows that are opened
    items,        \* what they make of the ledger, top to bottom
    scrollY,
    window,       \* range: the items to render, from start until before end
    counted,      \* the count the effect last ran for
    frameDue,     \* a measure waits for the next frame
    measuredAt,   \* ghost: scrollY when range was measured
    viewSteps     \* ghost

viewVars == <<arrived, hiddenShown, filter, amountRange, expanded, items, scrollY, window, counted,
              frameDue, measuredAt, viewSteps>>

-----------------------------------------------------------------------------
\* What the filters leave: of all rows, those that are there
FiledUnder(row, choice) ==
    CASE choice = None -> TRUE
      [] choice = {}   -> row.categoryId = None /\ row.splits = <<>>
      [] OTHER         -> \/ row.categoryId \in choice
                          \/ \E n \in DOMAIN row.splits : row.splits[n].categoryId \in choice

\* combined
Combined(newest, hidden) ==
    {i \in DOMAIN ViewRows : IF ViewRows[i].hidden THEN hidden ELSE i \in newest}

\* amountSourceRows
AmountSourceRows(rows, f) ==
    {i \in rows :
        /\ f.year \in {None, ViewRows[i].date[1]}
        /\ f.account \in {None, ViewRows[i].accountId}
        /\ FiledUnder(ViewRows[i], f.category)}

AmountsIn(ids) == {ViewRows[i].amount : i \in ids}

\* effectiveAmountRange, filtered: a selection that no longer overlaps the rows
\* filters nothing.
InRange(source, selected) ==
    IF \/ selected = None \/ source = {}
       \/ selected[2] < Min(AmountsIn(source)) \/ selected[1] > Max(AmountsIn(source))
    THEN source ELSE {i \in source : ViewRows[i].amount \in selected[1] .. selected[2]}

\* The rows as legs of transfers: hidden ones are not in the snapshot.
LegRows == [i \in DOMAIN ViewRows |->
    IF ViewRows[i].hidden THEN [ViewRows[i] EXCEPT !.transferId = None] ELSE ViewRows[i]]

\* Parts of a split row come below it, when it is opened.
WithParts(item, opened) ==
    IF item.kind = "tx" /\ item.tx \in opened.splits
    THEN <<item>> \o [n \in DOMAIN ViewRows[item.tx].splits |->
                        [kind |-> "split", tx |-> item.tx, part |-> n]]
    ELSE <<item>>

\* items, newest first
ItemsOfView(newest, hidden, f, selected, opened) ==
    LET rows   == Combined(newest, hidden)
        ids    == Sorted(InRange(AmountSourceRows(rows, f), selected), LAMBDA i, j : i > j)
        merged == MergeTransferRows([transactions |-> [i \in rows |-> LegRows[i]]], ids, opened.transfers)
    IN  FlattenSeq([n \in DOMAIN merged |-> WithParts(merged[n], opened)])

Count == Len(items)

\* Where the page may be scrolled to: the spacers keep it as high as all items.
MaxScroll(count) == Max({0, TableTop + count * RowHeight - ScreenHeight})

-----------------------------------------------------------------------------
\* useWindowedRows
CeilDiv(a, b) == (a + b - 1) \div b
Within(count, n) == Max({0, Min({count, n})})

\* Mutant of Visible: a row that is cut off by the edge of the screen is not counted.
VisibleWhole(height) == height \div RowHeight

Visible(height) == CeilDiv(height, RowHeight)

Measured(count, y) ==
    LET first == (y - TableTop) \div RowHeight IN
    [start |-> Within(count, first - Overscan),
     end   |-> Within(count, first + Visible(ScreenHeight) + Overscan)]

\* What is rendered: the top, if the list has shrunk to before the window.
Rendered ==
    IF Count > 0 /\ window.start >= Count THEN [start |-> 0, end |-> Min({Count, FirstWindow})]
    ELSE [start |-> Min({window.start, Count}), end |-> Min({window.end, Count})]

\* measure, when the frame comes
Measure ==
    /\ frameDue /\ frameDue' = FALSE
    /\ window' = Measured(Count, scrollY) /\ measuredAt' = scrollY
    /\ UNCHANGED <<arrived, hiddenShown, filter, amountRange, expanded, items, scrollY, counted, viewSteps>>

\* The effect runs again when the count is another, and drops the frame it had
\* asked for.
EffectRuns ==
    /\ counted # Count /\ counted' = Count
    /\ window' = Measured(Count, scrollY) /\ measuredAt' = scrollY /\ frameDue' = FALSE
    /\ UNCHANGED <<arrived, hiddenShown, filter, amountRange, expanded, items, scrollY, viewSteps>>

-----------------------------------------------------------------------------
\* The person, and the history that arrives.  The browser keeps the page from
\* being scrolled past its end; any scrolling asks for a frame.
ViewStep == viewSteps < MaxViewSteps /\ viewSteps' = viewSteps + 1

ScrollsTo(y) ==
    /\ scrollY' = Min({y, MaxScroll(Len(items'))}) /\ frameDue' = (frameDue \/ scrollY' # scrollY)
    /\ UNCHANGED <<window, counted, measuredAt>>

\* The page is rendered anew, once the effect of the last time has run.
RendersAt(y) ==
    /\ counted = Count
    /\ items' = ItemsOfView(arrived', hiddenShown', filter', amountRange', expanded')
    /\ ScrollsTo(y)

Scroll(y) ==
    /\ ViewStep /\ y # scrollY
    /\ UNCHANGED <<arrived, hiddenShown, filter, amountRange, expanded, items>>
    /\ ScrollsTo(y)

\* resetScroll: back to the top first.
ChooseFilter(f) ==
    /\ ViewStep /\ filter' = f /\ f # filter
    /\ UNCHANGED <<arrived, hiddenShown, amountRange, expanded>>
    /\ RendersAt(0)

\* The slider spans the amounts of the rows before it; its reset does not scroll.
ChooseAmounts(low, high) ==
    /\ ViewStep /\ low <= high /\ amountRange' = <<low, high>>
    /\ UNCHANGED <<arrived, hiddenShown, filter, expanded>>
    /\ RendersAt(0)

ResetAmounts ==
    /\ ViewStep /\ amountRange # None /\ amountRange' = None
    /\ UNCHANGED <<arrived, hiddenShown, filter, expanded>>
    /\ RendersAt(scrollY)

\* toggleTransfer, toggleSplit
ToggleItem(kind, x) ==
    /\ ViewStep /\ expanded' = [expanded EXCEPT ![kind] = (@ \ {x}) \cup ({x} \ @)]
    /\ UNCHANGED <<arrived, hiddenShown, filter, amountRange>>
    /\ RendersAt(scrollY)

\* The toggle of hidden rows, once they are there.
ShowHidden ==
    /\ ViewStep /\ hiddenShown' = ~hiddenShown
    /\ UNCHANGED <<arrived, filter, amountRange, expanded>>
    /\ RendersAt(scrollY)

\* A page of older rows.
HistoryArrives ==
    LET next == {i \in DOMAIN ViewRows \ arrived : ~ViewRows[i].hidden} IN
    /\ next # {} /\ arrived' = arrived \cup {Max(next)}
    /\ UNCHANGED <<hiddenShown, filter, amountRange, expanded, viewSteps>>
    /\ RendersAt(scrollY)

ViewInit ==
    /\ arrived = {Max({i \in DOMAIN ViewRows : ~ViewRows[i].hidden})}
    /\ hiddenShown = FALSE /\ filter = [year |-> None, account |-> None, category |-> None]
    /\ amountRange = None /\ expanded = [transfers |-> {}, splits |-> {}] /\ scrollY = 0
    /\ items = ItemsOfView(arrived, hiddenShown, filter, amountRange, expanded)
    /\ window = [start |-> 0, end |-> Min({1, FirstWindow})]
    /\ counted = 0 /\ frameDue = FALSE /\ measuredAt = 0 /\ viewSteps = 0

ViewNext ==
    \/ Measure \/ EffectRuns \/ ResetAmounts \/ ShowHidden \/ HistoryArrives
    \/ \E y \in 0 .. MaxScroll(Count) : Scroll(y)
    \/ \E f \in Filters : ChooseFilter(f)
    \/ \E low, high \in AmountsIn(AmountSourceRows(Combined(arrived, hiddenShown), filter)) :
          ChooseAmounts(low, high)
    \/ \E n \in DOMAIN items :
          \/ items[n].kind = "transfer" /\ ToggleItem("transfers", items[n].transferId)
          \/ items[n].kind = "tx" /\ ViewRows[items[n].tx].splits # <<>> /\ ToggleItem("splits", items[n].tx)

ViewSpec == ViewInit /\ [][ViewNext]_viewVars

-----------------------------------------------------------------------------
\* Items on the screen, from 0
OnScreen ==
    {n \in 0 .. Count - 1 :
        /\ TableTop + (n + 1) * RowHeight > scrollY
        /\ TableTop + n * RowHeight < scrollY + ScreenHeight}

Distance(x, y) == Max({x - y, y - x})

\* No gap is ever scrolled into view: once the effect has seen the list, every
\* item on the screen is rendered, although a frame is still due, as long as
\* less than what is rendered beyond the screen was scrolled since the last one
\* (useWindowedRows); lists that grow, shrink and open under the person
\* included.
ViewIsCovered ==
    counted = Count /\ Distance(scrollY, measuredAt) <= (Overscan - 1) * RowHeight =>
        OnScreen \subseteq Rendered.start .. Rendered.end - 1
=============================================================================
