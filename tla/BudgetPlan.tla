----------------------------- MODULE BudgetPlan -----------------------------
(***************************************************************************)
(* What saving a budget promises, without sessions, revisions, requests or *)
(* answers: the edits and year copies a person asks for are decided one at *)
(* a time and in the order they were asked for, each taking effect whole   *)
(* or not at all; a bulk write changes the cells of one category, at any   *)
(* moment.  BudgetWrites implements this module: see Plan there.           *)
(***************************************************************************)
EXTENDS Sequences

CONSTANTS Category, Year, Month, Amount

VARIABLES
    plan,      \* plan[c]: the saved amount of cell c
    todo       \* what has been asked for and not been decided yet

vars == <<plan, todo>>

Cell == Category \X Year \X Month

Edits  == [kind : {"edit"}, cell : Cell, amount : Amount]
Copies == [kind : {"copy"}, from : Year, to : Year]

\* The plan p after year `to` has become an exact copy of year `from`.
CopiedPlan(p, from, to) ==
    [c \in Cell |-> IF c[2] = to THEN p[<<c[1], from, c[3]>>] ELSE p[c]]

Effect(op) ==
    IF op.kind = "edit" THEN [plan EXCEPT ![op.cell] = op.amount]
                        ELSE CopiedPlan(plan, op.from, op.to)

Init ==
    /\ plan \in [Cell -> Amount]
    /\ todo = <<>>

Ask ==
    /\ \E op \in Edits \cup Copies : todo' = Append(todo, op)
    /\ UNCHANGED plan

\* The oldest operation is decided: it takes effect or it is dropped.
Decide ==
    /\ todo # <<>>
    /\ todo' = Tail(todo)
    /\ plan' \in {plan, Effect(Head(todo))}

BulkWrite ==
    /\ \E k \in Category : \A c \in Cell : c[1] # k => plan'[c] = plan[c]
    /\ plan' \in [Cell -> Amount]
    /\ UNCHANGED todo

Next == Ask \/ Decide \/ BulkWrite

Spec == Init /\ [][Next]_vars
=============================================================================
