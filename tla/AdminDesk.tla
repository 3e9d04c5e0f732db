----------------------------- MODULE AdminDesk -----------------------------
(***************************************************************************)
(* The admin page (AdminPage.tsx) and the two tabs docked beside it, which *)
(* stay when the page is left: one user's transactions (AdminTxTab.tsx)    *)
(* and the SQL console (AdminSqlTab.tsx); with the handlers they call      *)
(* (routers/admin.py, routers/admin_sql.py).  A tab that changed something *)
(* ticks, and the page, if it is there, reads again.  Of the lists the     *)
(* page shows each user's number of transactions is kept.                  *)
(***************************************************************************)
EXTENDS Integers, FiniteSets, Absent

CONSTANTS
    AdminUsers, AdminRows,  \* the users but for the admin, their transactions
    RowOwner, RowAccount,
    SqlStatements, Wipes,   \* what may be typed, and the transactions each deletes
    MaxAdminAsked,          \* bounds: actions that ask the server, and the requests
    MaxAdminCalls           \* under way when one is added

ASSUME AdminAssumption ==
    /\ RowOwner \in [AdminRows -> AdminUsers] /\ Wipes \in [SqlStatements -> SUBSET AdminRows]
    /\ IsFiniteSet(AdminRows) /\ None \notin AdminUsers \cup AdminRows

VARIABLES
    srvUsers, srvRows,  \* saved
    adminPage,          \* mount, lists, detail, broken, armed and busy rows; or None
    ticked,             \* adminTick is not 0
    txTab,              \* number, user, rows, selected, armed, busy and account; or None
    console,            \* sql, pending (the statement a prompt is about), busy and history
    adminCalls,         \* requests that have not been answered
    clock, newest,      \* ghosts: server steps so far, and that of the latest answer shown
    late,               \* ghost: an older answer was shown after a newer one, or none came
    swapped,            \* ghost: the text changed under a run or a prompt
    adminAsked          \* ghost: actions so far

adminSaved == <<srvUsers, srvRows>>
adminGhosts == <<newest, late, swapped>>
adminVars == <<adminSaved, adminPage, ticked, txTab, console, adminCalls, clock, adminGhosts, adminAsked>>

OwnRows(u) == {r \in srvRows : RowOwner[r] = u}

-----------------------------------------------------------------------------
Request(fn, n, to) ==
    [fn |-> fn, n |-> n, to |-> to, at |-> "sent", stamp |-> 0, user |-> None, ids |-> {}, sure |-> {},
     stmt |-> None, about |-> None, dry |-> FALSE, lists |-> None, rows |-> None, verdict |-> None]

Asks(new) ==
    /\ adminAsked < MaxAdminAsked /\ adminAsked' = adminAsked + 1
    /\ Cardinality(adminCalls) < MaxAdminCalls
    /\ adminCalls' = adminCalls \cup new

\* Mutant of Ticks: the page is not told.
TicksNever(c) == adminCalls' = adminCalls \ {c} /\ UNCHANGED <<ticked, newest>>

\* bumpAdminTick: the page reads the lists again, and the user it has open.
Ticks(c) ==
    /\ ticked' = TRUE
    /\ adminCalls' = (adminCalls \ {c}) \cup
         (IF adminPage = None THEN {}
          ELSE {Request("lists", c.n, adminPage.mount)}
               \cup (IF adminPage.detail = None THEN {}
                     ELSE {[Request("refetch", c.n, adminPage.mount) EXCEPT !.user = adminPage.detail.user]}))
    /\ newest' = [newest EXCEPT !.detail = clock]

-----------------------------------------------------------------------------
\* The page

EnterPage ==
    /\ adminPage = None
    /\ Asks({Request(IF again THEN "relists" ELSE "lists", adminAsked, adminAsked) : again \in {FALSE, ticked}})
    /\ adminPage' = [mount |-> adminAsked, lists |-> None, detail |-> None, broken |-> FALSE,
                     armed |-> {}, busy |-> {}]
    /\ newest' = [lists |-> 0, detail |-> 0]
    /\ UNCHANGED <<adminSaved, ticked, txTab, console, clock, late, swapped>>

LeavePage ==
    /\ adminPage # None /\ adminPage' = None
    /\ UNCHANGED <<adminSaved, ticked, txTab, console, adminCalls, clock, adminGhosts, adminAsked>>

Listed == IF adminPage = None \/ adminPage.broken \/ adminPage.lists = None THEN {} ELSE DOMAIN adminPage.lists

OpenUser == IF adminPage.detail = None THEN None ELSE adminPage.detail.user

\* openDetail: a click on a row opens its user, or closes it.
OpenDetail(u) ==
    /\ u \in Listed
    /\ IF OpenUser = u
       THEN /\ adminPage' = [adminPage EXCEPT !.detail = None]
            /\ UNCHANGED <<adminCalls, adminAsked>>
       ELSE /\ Asks({[Request("detail", adminAsked, adminPage.mount) EXCEPT !.user = u]})
            /\ UNCHANGED adminPage
    /\ UNCHANGED <<adminSaved, ticked, txTab, console, clock, adminGhosts>>

\* UserRow, remove: the first click arms the button.
RemoveUser(u) ==
    /\ u \in Listed /\ u \notin adminPage.busy
    /\ IF u \in adminPage.armed
       THEN /\ Asks({[Request("deleteUser", adminAsked, adminPage.mount) EXCEPT !.user = u]})
            /\ adminPage' = [adminPage EXCEPT !.busy = @ \cup {u}]
       ELSE /\ adminPage' = [adminPage EXCEPT !.armed = @ \cup {u}]
            /\ UNCHANGED <<adminCalls, adminAsked>>
    /\ UNCHANGED <<adminSaved, ticked, txTab, console, clock, adminGhosts>>

MouseLeaves(u) ==
    /\ u \in Listed /\ u \in adminPage.armed
    /\ adminPage' = [adminPage EXCEPT !.armed = @ \ {u}]
    /\ UNCHANGED <<adminSaved, ticked, txTab, console, adminCalls, clock, adminGhosts, adminAsked>>

\* "Manage" opens the tab of the user; bound: one such tab at a time.
Manage ==
    /\ Listed # {} /\ adminPage.detail # None /\ txTab = None
    /\ Asks({[Request("txLoad", adminAsked, adminAsked) EXCEPT !.user = OpenUser]})
    /\ txTab' = [number |-> adminAsked, user |-> OpenUser, rows |-> None, selected |-> {},
                 armed |-> FALSE, sure |-> {}, busy |-> FALSE, account |-> None]
    /\ UNCHANGED <<adminSaved, adminPage, ticked, console, clock, adminGhosts>>

-----------------------------------------------------------------------------
\* The transactions of a user

InTab(tab) ==
    /\ txTab # None /\ txTab' = tab
    /\ UNCHANGED <<adminSaved, adminPage, ticked, console, adminCalls, clock, adminGhosts, adminAsked>>

\* visible
VisibleRows ==
    {r \in txTab.rows : txTab.account \in {None, RowAccount[r]}}

\* toggleRow, toggleAllVisible, the account filter: each disarms the button.
Ticking(rows) == InTab([txTab EXCEPT !.armed = FALSE, !.selected = rows])

ToggleRow(r) ==
    /\ txTab # None /\ txTab.rows # None /\ r \in VisibleRows
    /\ Ticking(IF r \in txTab.selected THEN txTab.selected \ {r} ELSE txTab.selected \cup {r})

ToggleAllVisible ==
    /\ txTab # None /\ txTab.rows # None /\ VisibleRows # {}
    /\ Ticking(IF VisibleRows \subseteq txTab.selected THEN txTab.selected \ VisibleRows
               ELSE txTab.selected \cup VisibleRows)

FilterRows(account) ==
    /\ txTab # None /\ account # txTab.account
    /\ InTab([txTab EXCEPT !.armed = FALSE, !.account = account])

\* removeSelected: the first click arms the button.
RemoveSelected ==
    /\ txTab # None /\ txTab.selected # {} /\ ~txTab.busy
    /\ IF txTab.armed
       THEN /\ Asks({[Request("txDelete", adminAsked, txTab.number) EXCEPT
                         !.user = txTab.user, !.ids = txTab.selected, !.sure = txTab.sure]})
            /\ txTab' = [txTab EXCEPT !.busy = TRUE]
       ELSE /\ txTab' = [txTab EXCEPT !.armed = TRUE, !.sure = txTab.selected]
            /\ UNCHANGED <<adminCalls, adminAsked>>
    /\ UNCHANGED <<adminSaved, adminPage, ticked, console, clock, adminGhosts>>

CloseTxTab == InTab(None)

-----------------------------------------------------------------------------
\* The console: the text can be changed while a statement runs.

\* Mutant of WithText: typing leaves the prompt.
WithTextOnly(s) == [console EXCEPT !.sql = s]

\* Typing takes the prompt away.
WithText(s) == [console EXCEPT !.sql = s, !.pending = None]

Rewrite(s, to) ==
    /\ s # console.sql /\ console' = to
    /\ UNCHANGED <<adminSaved, adminPage, ticked, txTab, adminCalls, clock, newest, late, adminAsked>>

TypeSql(s) == Rewrite(s, WithText(s)) /\ swapped' = (swapped \/ console.busy)

\* A click in the history does not.
PickSql(s) ==
    /\ s \in console.history /\ Rewrite(s, [console EXCEPT !.sql = s])
    /\ swapped' = (swapped \/ console.busy \/ console.pending # None)

\* run: "Apply write" confirms, the keys and "Dry run" never do.
RunSql(confirm, dry) ==
    /\ console.sql # None /\ ~console.busy
    /\ confirm => console.pending # None /\ ~dry
    /\ Asks({[Request("sql", adminAsked, 0) EXCEPT
                 !.stmt = console.sql, !.dry = dry, !.about = IF confirm THEN console.pending ELSE None]})
    /\ console' = [console EXCEPT !.busy = TRUE, !.pending = None]
    /\ UNCHANGED <<adminSaved, adminPage, ticked, txTab, clock, adminGhosts>>

CancelWrite ==
    /\ console.pending # None /\ console' = [console EXCEPT !.pending = None]
    /\ UNCHANGED <<adminSaved, adminPage, ticked, txTab, adminCalls, clock, adminGhosts, adminAsked>>

-----------------------------------------------------------------------------
\* The server

Done(c) == adminCalls' = (adminCalls \ {c}) \cup {[c EXCEPT !.at = "done", !.stamp = clock + 1]}

\* users, and the user's detail and transactions
ReadAdmin(c) ==
    /\ c.at = "sent" /\ c.fn \in {"lists", "relists", "detail", "refetch", "txLoad", "txReload"}
    /\ c.user \in srvUsers \cup {None}
    /\ adminCalls' = (adminCalls \ {c}) \cup
         {[c EXCEPT !.at = "done", !.stamp = clock + 1,
                    !.lists = IF c.user = None THEN [u \in srvUsers |-> Cardinality(OwnRows(u))] ELSE None,
                    !.rows = IF c.user = None THEN None ELSE OwnRows(c.user)]}
    /\ UNCHANGED adminSaved

\* delete_user
DeleteUser(c) ==
    /\ c.at = "sent" /\ c.fn = "deleteUser" /\ c.user \in srvUsers /\ Done(c)
    /\ srvUsers' = srvUsers \ {c.user} /\ srvRows' = srvRows \ OwnRows(c.user)

\* delete_user_transactions: all of them, or it fails.
DeleteRows(c) ==
    /\ c.at = "sent" /\ c.fn = "txDelete" /\ c.ids \subseteq OwnRows(c.user) /\ Done(c)
    /\ srvRows' = srvRows \ c.ids /\ UNCHANGED srvUsers

\* run_sql: a write that is not confirmed is rolled back, and so is a dry run.
ExecuteSql(c) ==
    LET writes == Wipes[c.stmt] # {}
        Answers(verdict) ==
            adminCalls' = (adminCalls \ {c}) \cup
                {[c EXCEPT !.at = "done", !.stamp = clock + 1, !.verdict = verdict]}
    IN  /\ c.at = "sent" /\ c.fn = "sql"
        /\ \/ writes /\ ~c.dry /\ c.about # None
              /\ srvRows' = srvRows \ Wipes[c.stmt] /\ UNCHANGED srvUsers /\ Answers("written")
           \/ writes /\ ~c.dry /\ c.about = None /\ UNCHANGED adminSaved /\ Answers("refused")
           \/ (~writes \/ c.dry) /\ UNCHANGED adminSaved /\ Answers("read")

AdminServes(c) ==
    /\ ReadAdmin(c) \/ DeleteUser(c) \/ DeleteRows(c) \/ ExecuteSql(c)
    /\ clock' = clock + 1
    /\ UNCHANGED <<adminPage, ticked, txTab, console, adminGhosts, adminAsked>>

-----------------------------------------------------------------------------
\* The answers

OnPage(c) == adminPage # None /\ adminPage.mount = c.to
InItsTab(c) == txTab # None /\ txTab.number = c.to
Shows(kind, c) ==
    /\ newest' = IF OnPage(c) THEN [newest EXCEPT ![kind] = IF @ > c.stamp THEN @ ELSE c.stamp] ELSE newest
    /\ late' = (late \/ (OnPage(c) /\ c.stamp < newest[kind]))

ListsCome(c) ==
    /\ c.fn \in {"lists", "relists"} /\ Shows("lists", c) /\ adminCalls' = adminCalls \ {c}
    /\ adminPage' = IF OnPage(c)
                    THEN [adminPage EXCEPT !.lists = c.lists, !.armed = @ \cap DOMAIN c.lists,
                                           !.busy = @ \cap DOMAIN c.lists]
                    ELSE adminPage
    /\ UNCHANGED <<ticked, txTab, console>>

DetailComes(c) ==
    /\ c.fn \in {"detail", "refetch"} /\ Shows("detail", c) /\ adminCalls' = adminCalls \ {c}
    /\ adminPage' = IF OnPage(c) THEN [adminPage EXCEPT !.detail = [user |-> c.user, rows |-> c.rows]]
                    ELSE adminPage
    /\ UNCHANGED <<ticked, txTab, console>>

\* The user's tab closes, and the page reads the lists again: the one that asked,
\* if it is still there.
UserDeleted(c) ==
    /\ c.fn = "deleteUser" /\ UNCHANGED <<ticked, console>>
    /\ late' = (late \/ (adminPage # None /\ ~OnPage(c)))
    /\ txTab' = IF txTab # None /\ txTab.user = c.user THEN None ELSE txTab
    /\ IF OnPage(c)
       THEN /\ adminPage' = [adminPage EXCEPT !.detail = None]
            /\ adminCalls' = (adminCalls \ {c}) \cup {Request("lists", c.n, c.to)}
            /\ newest' = [newest EXCEPT !.detail = clock]
       ELSE /\ adminCalls' = adminCalls \ {c} /\ UNCHANGED <<adminPage, newest>>

TxLoaded(c) ==
    /\ c.fn = "txLoad" /\ adminCalls' = adminCalls \ {c}
    /\ txTab' = IF InItsTab(c) THEN [txTab EXCEPT !.rows = c.rows] ELSE txTab
    /\ UNCHANGED <<adminPage, ticked, console, newest, late>>

\* removeSelected goes on: it loads the rows again, then ticks.
TxDeleted(c) ==
    /\ c.fn = "txDelete"
    /\ adminCalls' = (adminCalls \ {c}) \cup {[Request("txReload", c.n, c.to) EXCEPT !.user = c.user]}
    /\ txTab' = IF InItsTab(c) THEN [txTab EXCEPT !.selected = {}, !.armed = FALSE] ELSE txTab
    /\ UNCHANGED <<adminPage, ticked, console, newest, late>>

TxReloaded(c) ==
    /\ c.fn = "txReload" /\ Ticks(c)
    /\ txTab' = IF InItsTab(c) THEN [txTab EXCEPT !.rows = c.rows, !.busy = FALSE] ELSE txTab
    /\ UNCHANGED <<adminPage, console, late>>

SqlAnswers(c) ==
    /\ c.fn = "sql" /\ UNCHANGED <<adminPage, txTab, late>>
    /\ console' = [console EXCEPT !.busy = FALSE,
                      !.pending = IF c.verdict = "refused" THEN c.stmt ELSE @,
                      !.history = IF c.verdict = "refused" THEN @ ELSE @ \cup {c.stmt}]
    /\ IF c.verdict = "written" THEN Ticks(c)
       ELSE adminCalls' = adminCalls \ {c} /\ UNCHANGED <<ticked, newest>>

AdminAnswers(c) ==
    /\ c.at = "done"
    /\ \/ ListsCome(c) \/ DetailComes(c) \/ UserDeleted(c)
       \/ TxLoaded(c) \/ TxDeleted(c) \/ TxReloaded(c) \/ SqlAnswers(c)
    /\ UNCHANGED <<adminSaved, clock, swapped, adminAsked>>

\* The request is refused, or it or its answer gets lost.  What was changed and
\* not told to the page makes it late.
AdminFails(c) ==
    /\ adminCalls' = adminCalls \ {c}
    /\ late' = (late \/ c.fn = "txReload" \/ (c.at = "done" /\ (c.fn \in {"deleteUser", "txDelete"} \/ c.verdict = "written")))
    /\ adminPage' =
         CASE ~OnPage(c) -> adminPage
           [] OnPage(c) /\ c.fn \in {"lists", "relists"} -> [adminPage EXCEPT !.broken = TRUE]
           [] OnPage(c) /\ c.fn = "refetch" -> [adminPage EXCEPT !.detail = None]
           [] OnPage(c) /\ c.fn = "deleteUser" ->
                [adminPage EXCEPT !.armed = @ \ {c.user}, !.busy = @ \ {c.user}]
           [] OTHER -> adminPage
    /\ txTab' = IF InItsTab(c) /\ c.fn \in {"txDelete", "txReload"} THEN [txTab EXCEPT !.busy = FALSE]
                ELSE txTab
    /\ console' = IF c.fn = "sql" THEN [console EXCEPT !.busy = FALSE] ELSE console
    /\ UNCHANGED <<adminSaved, ticked, clock, newest, swapped, adminAsked>>

-----------------------------------------------------------------------------
AdminInit ==
    /\ srvUsers = AdminUsers /\ srvRows = AdminRows
    /\ adminPage = None /\ ticked = FALSE /\ txTab = None /\ adminCalls = {}
    /\ console = [sql |-> None, pending |-> None, busy |-> FALSE, history |-> {}]
    /\ clock = 0 /\ newest = [lists |-> 0, detail |-> 0]
    /\ late = FALSE /\ swapped = FALSE /\ adminAsked = 0

AdminUser ==
    \/ EnterPage \/ LeavePage \/ Manage
    \/ \E u \in AdminUsers : OpenDetail(u) \/ RemoveUser(u) \/ MouseLeaves(u)
    \/ \E r \in AdminRows : ToggleRow(r)
    \/ ToggleAllVisible \/ RemoveSelected \/ CloseTxTab
    \/ \E a \in {RowAccount[r] : r \in AdminRows} \cup {None} : FilterRows(a)
    \/ \E s \in SqlStatements : TypeSql(s) \/ PickSql(s)
    \/ CancelWrite \/ \E confirm, dry \in BOOLEAN : RunSql(confirm, dry)

AdminNext ==
    \/ AdminUser
    \/ \E c \in adminCalls : AdminServes(c) \/ AdminAnswers(c) \/ AdminFails(c)

AdminSpec == AdminInit /\ [][AdminNext]_adminVars

-----------------------------------------------------------------------------
\* When all is answered the page shows what is saved, and no user that was
\* deleted, whatever the docked tabs changed behind it and however often it was
\* left, as long as none of its answers is older than what it was told and none was lost
\* (adminTick, reload, onDeleted).
AdminPageAgrees ==
    adminCalls = {} /\ adminPage # None /\ ~late =>
        /\ ~adminPage.broken => adminPage.lists = [u \in srvUsers |-> Cardinality(OwnRows(u))]
        /\ adminPage.detail # None =>
              /\ adminPage.detail.user \in srvUsers
              /\ adminPage.detail.rows = OwnRows(adminPage.detail.user)

\* A write reaches the database only after the server refused that statement
\* once, unless the text changed under the run or the prompt: "a write is refused
\* once by the server and only applies after the admin confirms that count"
\* (AdminSqlTab.tsx:36).  A bulk deletion takes the rows that were ticked when the
\* button asked, whatever is ticked and filtered meanwhile (removeSelected).
ActsAsConfirmed ==
    \A c \in adminCalls :
        /\ c.fn = "sql" /\ c.about # None => c.about = c.stmt \/ swapped
        /\ c.fn = "txDelete" => c.ids = c.sure
=============================================================================
