-------------------------- MODULE StatementImport --------------------------
(***************************************************************************)
(* The side tab that imports a statement (ImportPanel.tsx) and the server  *)
(* behind it (routers/imports.py, ingest.py).  Rows get their account from *)
(* the card they name or by hand; the server flags those the account       *)
(* already holds and, once more, skips them when they are committed.       *)
(* Answers may be late, out of order or lost; a request the tab gave up on *)
(* may still be handled; a commit reads the copies an account has before   *)
(* it holds the write lock.  The ledger grows meanwhile: by hand, and by   *)
(* the pulls of a bank (connections.py), which count copies in another     *)
(* way.  What identifies a row in its account (its hash: date, amount and  *)
(* description) is an operation; categories are left out.                  *)
(***************************************************************************)
EXTENDS Integers, Sequences, FiniteSets, SequencesExt, FiniteSetsExt, Absent

CONSTANTS
    ImportAccounts, Operations,
    Statements,      \* files: sequences of rows, each with its operation and the
                     \* account its card belongs to, or None
    KeyOf,           \* of an operation: what a pull tells it by (day, amount and
                     \* dedup_text), so that wordings that drifted are one
    MaxImportSteps   \* bound: what is done in the tab, entered by hand and pulled

ASSUME StatementImportAssumption ==
    /\ None \notin ImportAccounts /\ IsFiniteSet(ImportAccounts) /\ IsFiniteSet(Operations)
    /\ DOMAIN KeyOf = Operations /\ MaxImportSteps \in Nat
    /\ \A f \in Statements :
          f \in Seq([operation : Operations, account : ImportAccounts \cup {None}])

VARIABLES
    held,        \* server: how many copies of an operation each account holds
    rows,        \* the rows under review, or None
    busy,
    checking,    \* checkingDuplicates
    checkEpoch,  \* duplicateEpoch
    previews,    \* previews under way
    checks,      \* duplicate checks under way
    commits,     \* commits under way, whether or not the tab still waits
    batches,     \* pulls that have counted and not written yet
    entered,     \* the copies that were entered by hand
    imported,    \* ghost: the copies that commits inserted
    owed,        \* ghost: copies in a committed statement, as reviewed
    behind,      \* ghost: copies other commits inserted between a commit's count and its write
    due,         \* ghost: the copies a bank's operation may have (PullsRepeatNothing)
    misflagged,  \* ghost: the flags need not be those of the rows
    steps        \* ghost: what was begun

importTab == <<rows, busy, checking, checkEpoch, previews, checks, misflagged>>
importLedger == <<held, entered, imported, owed, behind, due, batches>>
importVars == <<importTab, importLedger, commits, steps>>

-----------------------------------------------------------------------------
Nothing == [a \in ImportAccounts |-> [o \in Operations |-> 0]]

\* Copies of an operation among some rows under review.
Copies(review, among, a, o) ==
    Cardinality({n \in among : review[n].account = a /\ review[n].operation = o})

\* _mark_duplicates: as many copies as the account holds.
Duplicates(review) ==
    [n \in DOMAIN review |->
        LET row == review[n] IN
        /\ row.account # None
        /\ Copies(review, 1 .. (n - 1), row.account, row.operation) < held[row.account][row.operation]]

Flagged(review, duplicates) ==
    [n \in DOMAIN review |->
        [review[n] EXCEPT !.duplicate = n \in DOMAIN duplicates /\ duplicates[n]]]

\* The accounts' copies that a commit goes by: of the account it counted first
\* those it read then; the others are counted under the lock.
Had(c) ==
    [a \in ImportAccounts |->
        IF c.look # None /\ c.look.account = a THEN c.look.known ELSE held[a]]

\* Mutant of NewCopies: every row sent is inserted.
NewCopiesAll(c) ==
    [a \in ImportAccounts |-> [o \in Operations |-> Copies(c.review, c.sent, a, o)]]

\* commit_rows: for each operation, as many rows are skipped as the account had.
NewCopies(c) ==
    [a \in ImportAccounts |-> [o \in Operations |->
        Max({0, Copies(c.review, c.sent, a, o) - Had(c)[a][o]})]]

Plus(counts, more) ==
    [a \in ImportAccounts |-> [o \in Operations |-> counts[a][o] + more[a][o]]]

\* Copies, by what a pull tells them by and in whatever account.
Keys == {KeyOf[o] : o \in Operations}
PlacesOf(k) == {at \in ImportAccounts \X Operations : KeyOf[at[2]] = k}
OfKey(counts, k) == SumFunctionOnSet([at \in PlacesOf(k) |-> counts[at[1]][at[2]]], PlacesOf(k))

\* historical_day_counts: what was entered by hand is left out.
DayCounts == [k \in Keys |-> OfKey(held, k) - OfKey(entered, k)]

KeyRows(feed, k) == {n \in DOMAIN feed : KeyOf[feed[n].operation] = k}

\* Mutant of Unseen: nothing is dropped.
UnseenAll(b) == DOMAIN b.feed

\* drop_already_present: the first rows of a key, as many as were counted, are dropped.
Unseen(b) ==
    {n \in DOMAIN b.feed :
        LET k == KeyOf[b.feed[n].operation]
        IN  Cardinality({m \in KeyRows(b.feed, k) : m < n}) >= b.known[k]}

\* _route_rows: a row goes to the one account that owns its card, or stays.
Routed(b) ==
    [n \in DOMAIN b.feed |->
        IF b.feed[n].account = None THEN [b.feed[n] EXCEPT !.account = b.account] ELSE b.feed[n]]

\* commit_rows again, under the lock.
PulledIn(b) ==
    [a \in ImportAccounts |-> [o \in Operations |->
        Max({0, Copies(Routed(b), Unseen(b), a, o) - held[a][o]})]]

\* The rows that a commit sends.
Fresh(review) == {n \in DOMAIN review : ~review[n].duplicate}

AllAssigned == rows # None /\ rows # <<>> /\ \A n \in DOMAIN rows : rows[n].account # None

Step == steps < MaxImportSteps /\ steps' = steps + 1

\* Commits nobody waits for any more.
Abandoned(others) == {[c EXCEPT !.open = FALSE] : c \in {d \in others : ~d.answered}}

\* The tab starts anew; answers to the one before land nowhere.
Blank ==
    /\ rows' = None /\ busy' = FALSE /\ checking' = FALSE /\ checkEpoch' = 0
    /\ previews' = {} /\ checks' = {} /\ misflagged' = FALSE

-----------------------------------------------------------------------------
\* pickFile: the button is taken while the first preview is under way, but not
\* once there are rows.
PickFile(file) ==
    /\ Step /\ ~(busy /\ rows = None)
    /\ busy' = TRUE
    /\ previews' = previews \cup {[file |-> file, at |-> steps, answer |-> None]}
    /\ UNCHANGED <<rows, checking, checkEpoch, checks, misflagged, importLedger, commits>>

\* import_preview
PreviewRead(p) ==
    /\ p.answer = None
    /\ LET review == [n \in DOMAIN p.file |->
                      [operation |-> p.file[n].operation, account |-> p.file[n].account,
                       duplicate |-> FALSE]] IN
       previews' = (previews \ {p}) \cup {[p EXCEPT !.answer = Flagged(review, Duplicates(review))]}
    /\ UNCHANGED <<rows, busy, checking, checkEpoch, checks, misflagged, steps, importLedger, commits>>

\* A preview does not end the check that is under way.
PreviewReturns(p) ==
    /\ p.answer # None
    /\ rows' = p.answer /\ busy' = FALSE /\ previews' = previews \ {p}
    /\ misflagged' = checking /\ checks' = {[c EXCEPT !.overtaken = TRUE] : c \in checks}
    /\ UNCHANGED <<checking, checkEpoch, steps, importLedger, commits>>

PreviewFails(p) ==
    /\ busy' = FALSE /\ previews' = previews \ {p}
    /\ UNCHANGED <<rows, checking, checkEpoch, checks, misflagged, steps, importLedger, commits>>

\* changeAccount: the flags are asked for again.
ChangeAccount(n, account) ==
    /\ Step /\ rows[n].account # account
    /\ rows' = [rows EXCEPT ![n].account = account]
    /\ checkEpoch' = checkEpoch + 1 /\ checking' = TRUE
    /\ checks' = checks \cup {[epoch |-> checkEpoch', rows |-> rows', answer |-> None,
                                 overtaken |-> FALSE]}
    /\ UNCHANGED <<busy, previews, misflagged, importLedger, commits>>

\* import_duplicates
CheckRead(c) ==
    /\ c.answer = None
    /\ checks' = (checks \ {c}) \cup {[c EXCEPT !.answer = Duplicates(c.rows)]}
    /\ UNCHANGED <<rows, busy, checking, checkEpoch, previews, misflagged, steps, importLedger, commits>>

\* Mutant of IsLatest: any answer counts.
IsLatestAny(c) == TRUE

\* Whether an answer is to what was asked last.
IsLatest(c) == c.epoch = checkEpoch

\* refreshDuplicates
CheckReturns(c) ==
    /\ c.answer # None /\ checks' = checks \ {c}
    /\ IF IsLatest(c)
       THEN /\ rows' = Flagged(rows, c.answer) /\ checking' = FALSE
            /\ misflagged' = c.overtaken
       ELSE UNCHANGED <<rows, checking, misflagged>>
    /\ UNCHANGED <<busy, checkEpoch, previews, steps, importLedger, commits>>

\* The flags stay those of the account the row had.
CheckFails(c) ==
    /\ checks' = checks \ {c}
    /\ IF IsLatest(c) THEN checking' = FALSE /\ misflagged' = TRUE
       ELSE UNCHANGED <<checking, misflagged>>
    /\ UNCHANGED <<rows, busy, checkEpoch, previews, steps, importLedger, commits>>

\* commit: the button is taken while anything else is under way.
Commit ==
    /\ Step /\ AllAssigned /\ ~checking /\ ~busy
    /\ busy' = TRUE
    /\ commits' = commits \cup
         {[at |-> steps, sent |-> Fresh(rows), review |-> rows, look |-> None, open |-> TRUE, answered |-> FALSE]}
    /\ UNCHANGED <<rows, checking, checkEpoch, previews, checks, misflagged, importLedger>>

\* import_commit takes the accounts one by one, and commit_rows counts what the
\* account holds before any row is inserted.  Until a first row is, nothing is locked.
CountsFirst(c, n) ==
    LET account == c.review[n].account
        mine == {m \in c.sent : c.review[m].account = account}
        news == \E o \in Operations : Copies(c.review, c.sent, account, o) > held[account][o]
    IN
    /\ ~c.answered /\ c.look = None /\ \A m \in c.sent : n <= m
    /\ commits' = (commits \ {c}) \cup
         {IF news THEN [c EXCEPT !.look = [account |-> account, known |-> held[account],
                                             seen |-> imported[account]]]
          ELSE [c EXCEPT !.sent = c.sent \ mine]}
    /\ UNCHANGED <<importTab, importLedger, steps>>

\* The rest is done under the lock, which the first INSERT takes.
CommitDone(c) ==
    /\ ~c.answered /\ (c.look # None \/ c.sent = {})
    /\ held' = Plus(held, NewCopies(c)) /\ imported' = Plus(imported, NewCopies(c))
    /\ due' = [k \in Keys |-> due[k] + OfKey(NewCopies(c), k)]
    /\ owed' = [a \in ImportAccounts |-> [o \in Operations |-> Max({owed[a][o], Copies(c.review, DOMAIN c.review, a, o)})]]
    /\ behind' = [a \in ImportAccounts |-> [o \in Operations |->
                     IF c.look # None /\ c.look.account = a
                     THEN behind[a][o] + (imported[a][o] - c.look.seen[o]) ELSE behind[a][o]]]
    /\ commits' = (commits \ {c}) \cup (IF c.open THEN {[c EXCEPT !.answered = TRUE]} ELSE {})
    /\ UNCHANGED <<importTab, entered, batches, steps>>

\* The tab closes, and whatever it was doing is forgotten.
CommitReturns(c) ==
    /\ c.answered /\ c.open
    /\ Blank /\ commits' = Abandoned(commits \ {c})
    /\ UNCHANGED <<steps, importLedger>>

\* It is refused, or lost on the way: the rows stay, to be committed again.
CommitFails(c) ==
    /\ busy' = IF c.open THEN FALSE ELSE busy
    /\ commits' = commits \ {c}
    /\ UNCHANGED <<rows, checking, checkEpoch, previews, checks, misflagged, steps, importLedger>>

\* The tab takes it for failed, but it is still to be handled.
CommitGivenUp(c) ==
    /\ c.open /\ ~c.answered
    /\ busy' = FALSE /\ commits' = (commits \ {c}) \cup {[c EXCEPT !.open = FALSE]}
    /\ UNCHANGED <<rows, checking, checkEpoch, previews, checks, misflagged, steps, importLedger>>

\* onClose: the tab may be closed at any time and opened again.
Close ==
    /\ Step /\ Blank /\ commits' = Abandoned(commits)
    /\ UNCHANGED importLedger

-----------------------------------------------------------------------------
\* A transaction entered by hand.
EnterElsewhere(a, o) ==
    /\ Step /\ entered' = [entered EXCEPT ![a][o] = @ + 1]
    /\ held' = [held EXCEPT ![a][o] = @ + 1]
    /\ UNCHANGED <<importTab, imported, owed, behind, due, batches, commits>>

\* A pull of an account has its rows, and _finish_account counts what the ledger has.
BatchCounts(account, feed) ==
    /\ Step
    /\ batches' = batches \cup
         {[at |-> steps, account |-> account, feed |-> feed, known |-> DayCounts]}
    /\ UNCHANGED <<importTab, held, entered, imported, owed, behind, due, commits>>

\* The rest of _finish_account, under the lock.
BatchLands(b) ==
    /\ batches' = batches \ {b}
    /\ held' = Plus(held, PulledIn(b))
    /\ due' = [k \in Keys |-> Max({due[k], Cardinality(KeyRows(b.feed, k)) + (DayCounts[k] - b.known[k])})]
    /\ UNCHANGED <<importTab, entered, imported, owed, behind, commits, steps>>

BatchFails(b) ==
    /\ batches' = batches \ {b}
    /\ UNCHANGED <<importTab, held, entered, imported, owed, behind, due, commits, steps>>

-----------------------------------------------------------------------------
ImportInit ==
    /\ held = Nothing /\ rows = None /\ busy = FALSE /\ checking = FALSE /\ checkEpoch = 0
    /\ previews = {} /\ checks = {} /\ commits = {} /\ batches = {}
    /\ entered = Nothing /\ imported = Nothing /\ owed = Nothing /\ behind = Nothing
    /\ due = [k \in Keys |-> 0] /\ misflagged = FALSE /\ steps = 0

ImportNext ==
    \/ \E file \in Statements : PickFile(file)
    \/ \E p \in previews : PreviewRead(p) \/ PreviewReturns(p) \/ PreviewFails(p)
    \/ rows # None /\ \E n \in DOMAIN rows, a \in ImportAccounts : ChangeAccount(n, a)
    \/ \E c \in checks : CheckRead(c) \/ CheckReturns(c) \/ CheckFails(c)
    \/ Commit \/ Close
    \/ \E c \in commits : \E n \in c.sent : CountsFirst(c, n)
    \/ \E c \in commits : CommitDone(c) \/ CommitReturns(c) \/ CommitFails(c) \/ CommitGivenUp(c)
    \/ \E a \in ImportAccounts, o \in Operations : EnterElsewhere(a, o)
    \/ \E a \in ImportAccounts, feed \in Statements : BatchCounts(a, feed)
    \/ \E b \in batches : BatchLands(b) \/ BatchFails(b)

ImportSpec == ImportInit /\ [][ImportNext]_importVars

-----------------------------------------------------------------------------
\* An operation the account does not hold yet is never flagged, and so left out
\* of the import, whatever accounts its row passed through and whichever answer
\* came last (refreshDuplicates); except after a check failed, or a file was
\* picked during one, when flags of other accounts or rows remain.
NothingNewHeldBack ==
    rows # None /\ ~checking /\ ~misflagged =>
        \A a \in ImportAccounts, o \in Operations :
            Cardinality({n \in DOMAIN rows : rows[n].account = a /\ rows[n].operation = o
                                             /\ rows[n].duplicate}) <= held[a][o]

\* However often statements are imported, commits repeated after a lost answer and
\* requests handled after they were given up included, commits insert no more copies
\* of an operation than one reviewed statement has, besides what another commit
\* inserted between the count of one and its write (commit_rows).
RepeatsImportNothing ==
    \A a \in ImportAccounts, o \in Operations : imported[a][o] <= owed[a][o] + behind[a][o]

\* An import neither drops a new operation nor takes an old one twice: the two
\* above together (docs/importing.md).
ImportsCountCopies == NothingNewHeldBack /\ RepeatsImportNothing

\* The same bank operation that arrives through another door, another account or
\* with another wording is not taken again: its copies are never more than imports
\* inserted, or than one feed had together with what was written between the count
\* of that pull and its write (drop_already_present, _route_rows, commit_rows).
PullsRepeatNothing == \A k \in Keys : DayCounts[k] <= due[k]

\* A double submit creates no duplicates: commits insert no more copies than one
\* reviewed statement has, whatever overlaps (import_commit's docstring).
DoubleSubmitSafe ==
    \A a \in ImportAccounts, o \in Operations : imported[a][o] <= owed[a][o]

\* A committed statement is imported in full: each account then holds at least
\* the copies that were reviewed (docs/importing.md: of three copies of which the
\* database has one, the first is skipped and the other two are inserted).
StatementImportedInFull ==
    \A a \in ImportAccounts, o \in Operations : held[a][o] >= owed[a][o]
=============================================================================
