---------------------------- MODULE AccountList ----------------------------
(***************************************************************************)
(* The accounts page (AccountsPage.tsx, AccountDialogs.tsx), what store.ts *)
(* does for it, and the server (routers/accounts.py).  Rows of the list    *)
(* are dragged into order; accounts are created, archived and deleted, and *)
(* a deletion moves the transactions to another account.  The order shows  *)
(* at once, the rest once it is saved.  A listing is a record              *)
(*   order     the accounts in order                                       *)
(*   archived  those that are archived                                     *)
(*   home      the account of each transaction                             *)
(* Archiving stands for whatever a patch may change.                       *)
(***************************************************************************)
EXTENDS Integers, Sequences, FiniteSets, SequencesExt, FiniteSetsExt, Absent, Ordering

CONSTANTS
    StartingAccounts,  \* a listing
    MaxAccountsAsked   \* bound: what is asked for

\* Listings of the transactions there are.
Listings ==
    [order : Seq(Nat), archived : SUBSET Nat, home : [DOMAIN StartingAccounts.home -> Nat]]

ASSUME AccountListAssumption ==
    /\ StartingAccounts \in Listings
    /\ StartingAccounts.order # <<>> /\ IsInjective(StartingAccounts.order)
    /\ \A t \in DOMAIN StartingAccounts.home :
          StartingAccounts.home[t] \in ToSet(StartingAccounts.order)
    /\ MaxAccountsAsked \in Nat

VARIABLES
    accountsSaved,   \* the listing on the server
    listed,          \* the listing in the snapshot
    rowDrag,         \* AccountDrag: the index grabbed and the one hovered, or None
    deleting,        \* AccountDeleteDialog: its account, target and busy, or None
    accountCalls,    \* what was asked for and is not answered
    accountsAsked,   \* ghost: how much was asked for
    adrift           \* ghost: one of the calls that may leave the page behind

accountVars == <<accountsSaved, listed, rowDrag, deleting, accountCalls, accountsAsked, adrift>>

-----------------------------------------------------------------------------
RowsOf(b, a) == {t \in DOMAIN b.home : b.home[t] = a}

Moved(home, a, target) == [t \in DOMAIN home |-> IF home[t] = a THEN target ELSE home[t]]

WithoutAccount(b, a, target) ==
    [order    |-> Filtered(b.order, LAMBDA x : x # a),
     archived |-> b.archived \ {a},
     home     |-> IF target = None THEN b.home ELSE Moved(b.home, a, target)]

Archiving(b, a, value) ==
    [b EXCEPT !.archived = IF value /\ a \in ToSet(b.order) THEN @ \cup {a} ELSE @ \ {a}]

\* Calls whose answers, in whatever order they come, leave the page right: they
\* touch different accounts.  The others read the snapshot before they are
\* answered, or leave a trace of each other.
Independent(c, d) ==
    /\ {c.op, d.op} \subseteq {"archive", "delete", "reorder"}
    /\ c.op = d.op => c.op = "archive" /\ c.account # d.account

\* What a call says as long as nothing is asked: the snapshot it may rely on.
PlainCall ==
    [op |-> "create", account |-> None, archived |-> None, target |-> None, ids |-> None,
     at |-> accountsAsked, before |-> listed, answer |-> "none", made |-> None]

AccountCall(c) ==
    /\ accountsAsked < MaxAccountsAsked /\ accountsAsked' = accountsAsked + 1
    /\ accountCalls' = accountCalls \cup {c}
    /\ adrift' = (adrift \/ \E d \in accountCalls : ~Independent(c, d))
    /\ UNCHANGED accountsSaved

AnsweredAs(c, answer) == accountCalls' = (accountCalls \ {c}) \cup {[c EXCEPT !.answer = answer]}

-----------------------------------------------------------------------------
\* The page

\* startDrag: the index of the row is taken now.
StartDrag(i) ==
    /\ rowDrag = None /\ deleting = None
    /\ rowDrag' = [from |-> i, target |-> i]
    /\ UNCHANGED <<accountsSaved, listed, deleting, accountCalls, accountsAsked, adrift>>

\* onMove: within the list as it is by then.
DragTo(n) ==
    /\ rowDrag # None /\ rowDrag' = [rowDrag EXCEPT !.target = n]
    /\ UNCHANGED <<accountsSaved, listed, deleting, accountCalls, accountsAsked, adrift>>

\* The list with the row at one index spliced in at another; an index past the
\* end takes nothing out.
Spliced(order, from, target) ==
    IF from > Len(order) THEN order
    ELSE LET rest == RemoveAt(order, from)
         IN  InsertAt(rest, IF target > Len(order) THEN Len(order) ELSE target, order[from])

\* onUp, commitOrder: shown at once.
Drop ==
    /\ rowDrag # None /\ rowDrag' = None
    /\ IF rowDrag.target = rowDrag.from
       THEN UNCHANGED <<listed, accountCalls, accountsAsked, adrift, accountsSaved>>
       ELSE LET ids == Spliced(listed.order, rowDrag.from, rowDrag.target) IN
            /\ AccountCall([PlainCall EXCEPT !.op = "reorder", !.ids = ids])
            /\ listed' = [listed EXCEPT !.order = ids]
    /\ UNCHANGED deleting

\* createAccount, from the account's side tab.
CreateAccount ==
    /\ AccountCall(PlainCall)
    /\ UNCHANGED <<listed, rowDrag, deleting>>

\* The row's menu, or the side tab of the account: patchAccount.
Archive(a) ==
    /\ rowDrag = None /\ deleting = None
    /\ AccountCall([PlainCall EXCEPT !.op = "archive", !.account = a,
                                !.archived = a \notin listed.archived])
    /\ UNCHANGED <<listed, rowDrag, deleting>>

\* AccountDeleteDialog: the first of the other accounts is offered.
OpenDelete(a) ==
    LET others == Filtered(listed.order, LAMBDA x : x # a) IN
    /\ rowDrag = None /\ deleting = None
    /\ deleting' = [account |-> a, target |-> IF others = <<>> THEN None ELSE Head(others), busy |-> FALSE]
    /\ UNCHANGED <<accountsSaved, listed, rowDrag, accountCalls, accountsAsked, adrift>>

\* "Move to" is offered while transactions belong to the account.
PickTarget(b) ==
    /\ deleting # None /\ RowsOf(listed, deleting.account) # {}
    /\ b \notin {deleting.account, deleting.target}
    /\ deleting' = [deleting EXCEPT !.target = b]
    /\ UNCHANGED <<accountsSaved, listed, rowDrag, accountCalls, accountsAsked, adrift>>

\* deleteAccount
ApplyDelete ==
    /\ deleting # None /\ ~deleting.busy
    /\ RowsOf(listed, deleting.account) # {} => deleting.target # None
    /\ deleting' = [deleting EXCEPT !.busy = TRUE]
    /\ AccountCall([PlainCall EXCEPT !.op = "delete", !.account = deleting.account,
                                !.target = deleting.target])
    /\ UNCHANGED <<listed, rowDrag>>

\* onClose: also while the deletion is under way.
CloseDelete ==
    /\ deleting # None /\ deleting' = None
    /\ UNCHANGED <<accountsSaved, listed, rowDrag, accountCalls, accountsAsked, adrift>>

-----------------------------------------------------------------------------
\* The server

NewAccountId == Max({0} \cup ToSet(accountsSaved.order)) + 1

\* What the checks of the handlers let through.
Allowed(c) ==
    \/ c.op = "create"
    \/ c.op = "archive" /\ c.account \in ToSet(accountsSaved.order)
    \/ /\ c.op = "delete" /\ c.account \in ToSet(accountsSaved.order) /\ Len(accountsSaved.order) > 1
       /\ RowsOf(accountsSaved, c.account) # {} =>
             c.target \in ToSet(accountsSaved.order) \ {c.account}
    \/ c.op = "reorder" /\ ToSet(c.ids) = ToSet(accountsSaved.order)

AccountSaved(c) ==
    CASE c.op = "create" -> [accountsSaved EXCEPT !.order = Append(@, NewAccountId)]
      [] c.op = "archive" -> Archiving(accountsSaved, c.account, c.archived)
      [] c.op = "delete" -> WithoutAccount(accountsSaved, c.account, c.target)
      [] c.op = "reorder" -> [accountsSaved EXCEPT !.order = c.ids]

AccountAccepted(c) ==
    /\ c.answer = "none" /\ Allowed(c)
    /\ accountsSaved' = AccountSaved(c)
    /\ accountCalls' = (accountCalls \ {c}) \cup {[c EXCEPT !.answer = "ok", !.made = NewAccountId]}
    /\ UNCHANGED <<listed, rowDrag, deleting, accountsAsked, adrift>>

\* It is turned down (a name taken, say), or never arrives.
AccountRefused(c) ==
    /\ c.answer = "none" /\ AnsweredAs(c, "failed")
    /\ UNCHANGED <<accountsSaved, listed, rowDrag, deleting, accountsAsked, adrift>>

\* The answer is lost on the way back.
AccountAnswerLost(c) ==
    /\ c.answer = "ok" /\ AnsweredAs(c, "failed") /\ adrift' = TRUE
    /\ UNCHANGED <<accountsSaved, listed, rowDrag, deleting, accountsAsked>>

-----------------------------------------------------------------------------
\* Back in the page

\* Mutant of ListedThen: a deletion, too, starts from the snapshot it was called with.
ListedFromBefore(c) ==
    CASE c.op = "create" -> [c.before EXCEPT !.order = Append(@, c.made)]
      [] c.op = "archive" -> Archiving(listed, c.account, c.archived)
      [] c.op = "delete" -> WithoutAccount(c.before, c.account, c.target)
      [] c.op = "reorder" -> listed

\* createAccount writes back the snapshot it was called with; the others change
\* the one there is.
ListedThen(c) ==
    CASE c.op = "create" -> [c.before EXCEPT !.order = Append(@, c.made)]
      [] c.op = "archive" -> Archiving(listed, c.account, c.archived)
      [] c.op = "delete" -> WithoutAccount(listed, c.account, c.target)
      [] c.op = "reorder" -> listed

\* A deletion that is answered closes the dialog there is.
AccountAnswer(c) ==
    /\ c.answer = "ok" /\ accountCalls' = accountCalls \ {c}
    /\ listed' = ListedThen(c)
    /\ deleting' = IF c.op = "delete" THEN None ELSE deleting
    /\ UNCHANGED <<accountsSaved, rowDrag, accountsAsked, adrift>>

\* An order that was not saved stays on the page.
AccountFails(c) ==
    /\ c.answer = "failed" /\ accountCalls' = accountCalls \ {c}
    /\ deleting' = IF c.op = "delete" /\ deleting # None /\ deleting.account = c.account
                   THEN [deleting EXCEPT !.busy = FALSE] ELSE deleting
    /\ adrift' = (adrift \/ c.op = "reorder")
    /\ UNCHANGED <<accountsSaved, listed, rowDrag, accountsAsked>>

AccountInit ==
    /\ accountsSaved = StartingAccounts /\ listed = StartingAccounts
    /\ rowDrag = None /\ deleting = None
    /\ accountCalls = {} /\ accountsAsked = 0 /\ adrift = FALSE

AccountNext ==
    \/ \E i \in DOMAIN listed.order : StartDrag(i) \/ DragTo(i)
    \/ Drop \/ CreateAccount \/ ApplyDelete \/ CloseDelete
    \/ \E a \in ToSet(listed.order) : Archive(a) \/ OpenDelete(a) \/ PickTarget(a)
    \/ \E c \in accountCalls :
          \/ AccountAccepted(c) \/ AccountRefused(c) \/ AccountAnswerLost(c)
          \/ AccountAnswer(c) \/ AccountFails(c)

AccountSpec == AccountInit /\ [][AccountNext]_accountVars

-----------------------------------------------------------------------------
\* Once everything is answered the page lists the accounts as they are saved, in
\* their order, and each transaction under the account it was moved to, although
\* calls overlap and are answered in any order and rows are dragged meanwhile
\* (store.ts patchAccount, deleteAccount; AccountsPage commitOrder): unless an
\* order was not saved, an answer was lost, or two of the calls that are not
\* independent were under way together.
AccountsAgree == accountCalls = {} /\ ~adrift => listed = accountsSaved
=============================================================================
