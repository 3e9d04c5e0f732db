------------------------------ MODULE MCEditing ------------------------------
(* What the store shows at once and saves behind it: budget cells, on two   *)
(* months of two years, and ledger rows, on three rows that arrive one by  *)
(* one.  The two share no state of the store, so a behaviour edits one of  *)
(* them and leaves the other as it was.                                    *)
EXTENDS BudgetWrites, LedgerClient

VARIABLE edits  \* what is edited: "budget" or "ledger"

MCToday == <<1, 2>>

BudgetAtRest ==
    /\ Init
    /\ \A c \in Cell : saved[c] = IF c[2] = 1 /\ c[3] = 2 THEN 1 ELSE 0

LedgerAtRest ==
    /\ srvTx = <<>> /\ srvHidden = {}
    /\ ledger = [rows |-> <<>>, total |-> 0]
    /\ fill = None /\ txProgress = FALSE
    /\ loads = {} /\ hiddenTx = None /\ hiddenLoad = None /\ calls = {}
    /\ revisions = <<>> /\ newest = <<>> /\ shownEpoch = 0 /\ asked = 0
    /\ doubt = {} /\ shifted = {}

MCInit ==
    /\ BudgetAtRest
    /\ \/ edits = "budget" /\ LedgerAtRest
       \/ edits = "ledger" /\ LedgerInit

MCNext ==
    /\ UNCHANGED edits
    /\ \/ edits = "budget" /\ Next /\ UNCHANGED ledgerVars
       \/ edits = "ledger" /\ LedgerNext /\ UNCHANGED vars

\* Type invariant of both.
EditingTypeOK == TypeOK /\ LedgerTypeOK

\* Everything that runs behind the page ends: the saves of the budget and the
\* arrival of the history.
EditsSettle == ChainDrains /\ HistoryEnds

LedgerOnly ==
    /\ edits = "ledger" /\ LedgerInit /\ BudgetAtRest
    /\ [][MCNext]_<<edits, vars, ledgerVars>> /\ LedgerFairness

MCSpec == MCInit /\ [][MCNext]_<<edits, vars, ledgerVars>> /\ Fairness /\ LedgerFairness
=============================================================================
