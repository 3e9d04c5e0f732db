------------------------------ MODULE SideTabs ------------------------------
(***************************************************************************)
(* A page of the browser, who is signed in on it and the side tabs docked  *)
(* to it (App.tsx, store.ts, ui/tabPersist.ts, TabHost.tsx, Tab.tsx).      *)
(* Tabs are mirrored into localStorage, so that they survive a reload;     *)
(* they must not survive the session.  Answers about the session may be    *)
(* late, sessions expire, and the demo of the same browser uses the same   *)
(* storage.  One page is open at a time.                                   *)
(***************************************************************************)
EXTENDS Integers, Sequences, FiniteSets, Functions, FiniteSetsExt, Absent, Ordering

CONSTANTS
    People,    \* those who sign in
    Subjects,  \* accounts and transactions a tab may be about
    Widths,    \* widths a tab is dragged to
    MaxMoves   \* bound: what is done on the page

ASSUME SideTabsAssumption ==
    /\ None \notin People /\ "demo" \notin People
    /\ None \notin Subjects /\ None # "own"
    /\ Widths \subseteq Nat /\ IsFiniteSet(Widths)

VARIABLES
    token,       \* localStorage: monori_token
    storedTabs,  \* localStorage: monori_tabs
    tabLook,     \* localStorage: monori_tab_collapsed, monori_tab_width
    user,        \* store: who is signed in
    authChecked,
    tabs, nextTabId,
    book,        \* store: whose snapshot is loaded, and the subjects in it
    demoPage,    \* the page is under /demo
    meCalls,     \* requests about the session: checkAuth and login
    bookCalls,   \* loads that have not been answered, one at most current
    alive,       \* server: people whose session has not expired
    existing,    \* server: the subjects that have not been deleted
    moves        \* ghost: what has been done

storage == <<token, storedTabs, tabLook>>
sideVars == <<storage, user, authChecked, tabs, nextTabId, book, demoPage, meCalls, bookCalls,
              alive, existing, moves>>

Move == moves < MaxMoves /\ moves' = moves + 1

SetTabs(ts) == tabs' = ts /\ storedTabs' = ts

\* What localStorage gives back: loadTabs leaves out tabs without a key.
LoadTabs == Filtered(storedTabs, LAMBDA t : t.key # None)

\* nextTabId carries on past the restored ids.
FirstTabId(ts) == 1 + Max({0} \cup {ts[i].id : i \in DOMAIN ts})

\* The page starts anew: a reload, or another address typed in.
Boot(toDemo) ==
    /\ tabs' = LoadTabs /\ nextTabId' = FirstTabId(LoadTabs)
    /\ user' = None /\ authChecked' = FALSE /\ book' = None
    /\ demoPage' = toDemo /\ meCalls' = {} /\ bookCalls' = {}

Reload(toDemo) ==
    /\ Move /\ Boot(toDemo)
    /\ UNCHANGED <<storage, alive, existing>>

-----------------------------------------------------------------------------
\* The session

\* Mutant of NoSession: the tabs stay.
NoSessionTabsStay == UNCHANGED <<tabs, storedTabs>>

\* There is no token: restored tabs go.
NoSession == SetTabs(<<>>)

\* checkAuth, when App or LoginRoute mounts: at the start, and again whenever
\* the route changes.
CheckAuth ==
    /\ authChecked => Move
    /\ ~authChecked => UNCHANGED moves
    /\ \/ /\ demoPage
          /\ authChecked' = TRUE
          /\ UNCHANGED <<meCalls, tabs, storedTabs>>
       \/ /\ ~demoPage /\ token = None
          /\ NoSession /\ authChecked' = TRUE
          /\ UNCHANGED meCalls
       \/ /\ ~demoPage /\ token # None
          /\ [login |-> FALSE, token |-> token] \notin meCalls
          /\ meCalls' = meCalls \cup {[login |-> FALSE, token |-> token]}
          /\ UNCHANGED <<authChecked, tabs, storedTabs>>
    /\ UNCHANGED <<token, tabLook, user, nextTabId, book, demoPage, bookCalls, alive, existing>>

\* login, from the form: the token is stored before the person is known.
SignIn(p) ==
    /\ Move /\ ~demoPage /\ authChecked /\ user = None
    /\ ~\E c \in meCalls : c.login
    /\ token' = p /\ alive' = alive \cup {p}
    /\ meCalls' = meCalls \cup {[login |-> TRUE, token |-> p]}
    /\ UNCHANGED <<storedTabs, tabLook, user, authChecked, tabs, nextTabId, book, demoPage,
                   bookCalls, existing>>

\* The answer of authMe.  No-one asks whether the session is still the same.
MeAnswers(c) ==
    /\ meCalls' = meCalls \ {c}
    /\ \/ /\ c.token \in alive
          /\ user' = c.token /\ authChecked' = TRUE
          /\ UNCHANGED <<token, tabs, storedTabs>>
       \/ /\ ~c.login
          /\ token' = None /\ SetTabs(<<>>) /\ user' = None /\ authChecked' = TRUE
       \/ /\ c.login
          /\ UNCHANGED <<token, user, authChecked, tabs, storedTabs>>
    /\ UNCHANGED <<tabLook, nextTabId, book, demoPage, bookCalls, alive, existing, moves>>

\* logout
SignOut ==
    /\ Move /\ ~demoPage /\ user # None
    /\ token' = None /\ SetTabs(<<>>) /\ user' = None
    /\ UNCHANGED <<tabLook, authChecked, nextTabId, book, demoPage, meCalls, bookCalls, alive,
                   existing>>

Expire(p) ==
    /\ Move /\ p \in alive /\ alive' = alive \ {p}
    /\ UNCHANGED <<storage, user, authChecked, tabs, nextTabId, book, demoPage, meCalls,
                   bookCalls, existing>>

\* load, once somebody is known or in the demo, and when asked again.
Load ==
    /\ demoPage \/ (authChecked /\ user # None)
    /\ IF book = None /\ bookCalls = {} THEN UNCHANGED moves ELSE Move
    /\ IF demoPage THEN book' = [owner |-> "demo", subjects |-> Subjects] /\ UNCHANGED bookCalls
                   ELSE /\ UNCHANGED book
                        /\ bookCalls' = {[c EXCEPT !.current = FALSE] : c \in bookCalls}
                                        \cup {[token |-> token, current |-> TRUE]}
    /\ UNCHANGED <<storage, user, authChecked, tabs, nextTabId, demoPage, meCalls, alive, existing>>

\* A request that the server does not admit drops the token and the page, also
\* if it was a superseded load.
LoadAnswers(c) ==
    \/ /\ c.token \notin alive /\ token # None
       /\ token' = None /\ Boot(FALSE)
       /\ UNCHANGED <<storedTabs, tabLook, alive, existing, moves>>
    \/ /\ c.token \in alive \/ token = None
       /\ bookCalls' = bookCalls \ {c}
       /\ book' = IF c.current /\ c.token \in alive
                  THEN [owner |-> c.token, subjects |-> existing] ELSE book
       /\ UNCHANGED <<storage, user, authChecked, tabs, nextTabId, demoPage, meCalls, alive,
                      existing, moves>>

-----------------------------------------------------------------------------
\* The tabs

\* TabHost is on the page.
Shown == book # None /\ (demoPage \/ (authChecked /\ user # None))

NotYetOpen(key) == key = None \/ ~\E i \in DOMAIN tabs : tabs[i].key = key

Who == IF demoPage THEN "demo" ELSE token

\* openTab: a tab about a subject, or None for one of its own.
OpenTab(subject) ==
    /\ Move /\ Shown /\ subject \in book.subjects \cup {"own"}
    /\ NotYetOpen(subject)
    /\ SetTabs(Append(tabs, [id |-> nextTabId, key |-> subject, owner |-> Who]))
    /\ nextTabId' = nextTabId + 1
    /\ UNCHANGED <<token, tabLook, user, authChecked, book, demoPage, meCalls, bookCalls, alive,
                   existing>>

\* closeTab, by the person, or by TabHost because the subject is not there.
CloseTab(t) ==
    /\ Shown
    /\ IF t.key = "own" \/ t.key \in book.subjects THEN Move ELSE UNCHANGED moves
    /\ SetTabs(Filtered(tabs, LAMBDA s : s.id # t.id))
    /\ UNCHANGED <<token, tabLook, user, authChecked, nextTabId, book, demoPage, meCalls,
                   bookCalls, alive, existing>>

DeleteSubject(s) ==
    /\ Move /\ s \in existing /\ existing' = existing \ {s}
    /\ UNCHANGED <<storage, user, authChecked, tabs, nextTabId, book, demoPage, meCalls,
                   bookCalls, alive>>

\* A tab is folded to its strip, or opened; dragged wider while it is open; and
\* given back its own width by a double click.
Look(t, look) ==
    /\ Move /\ Shown
    /\ tabLook' = [k \in DOMAIN tabLook \cup {t.key} |-> IF k = t.key THEN look ELSE tabLook[k]]
    /\ tabLook' # tabLook
    /\ UNCHANGED <<token, storedTabs, user, authChecked, tabs, nextTabId, book, demoPage, meCalls,
                   bookCalls, alive, existing>>

LookOf(t) == IF t.key \in DOMAIN tabLook THEN tabLook[t.key] ELSE [collapsed |-> FALSE, width |-> 0]

Toggle(t) == Look(t, [LookOf(t) EXCEPT !.collapsed = ~@])
Resize(t, w) == ~LookOf(t).collapsed /\ Look(t, [LookOf(t) EXCEPT !.width = w])

\* computeOffset: a tab lies left of those that were opened before it.
WidthOf(t) == IF LookOf(t).collapsed THEN 1 ELSE Max(Widths \cup {LookOf(t).width})
OffsetOf(n) == SumFunctionOnSet([k \in DOMAIN tabs |-> WidthOf(tabs[k])], 1 .. n - 1)

-----------------------------------------------------------------------------
SideInit ==
    /\ token = None /\ storedTabs = <<>> /\ tabLook = <<>>
    /\ user = None /\ authChecked = FALSE /\ tabs = <<>> /\ nextTabId = 1 /\ book = None
    /\ demoPage \in BOOLEAN /\ meCalls = {} /\ bookCalls = {}
    /\ alive = {} /\ existing = Subjects /\ moves = 0

Tabs == {tabs[i] : i \in DOMAIN tabs}

SideNext ==
    \/ \E toDemo \in BOOLEAN : Reload(toDemo)
    \/ CheckAuth \/ SignOut \/ Load
    \/ \E p \in People : SignIn(p) \/ Expire(p)
    \/ \E c \in meCalls : MeAnswers(c)
    \/ \E c \in bookCalls : LoadAnswers(c)
    \/ \E s \in Subjects \cup {"own"} : OpenTab(s)
    \/ \E s \in Subjects : DeleteSubject(s)
    \/ \E t \in Tabs : CloseTab(t) \/ Toggle(t) \/ \E w \in Widths \cup {0} : Resize(t, w)

SideSpec == SideInit /\ [][SideNext]_sideVars

-----------------------------------------------------------------------------
\* Tabs never resurface for whoever signs in next: while there is a session, all
\* that are open, and all that a reload would bring back, were opened in it or
\* in the demo, however late the answers about earlier sessions come
\* (checkAuth, logout, the reload after a 401).  And across reloads no two tabs
\* share an id or a key, so that closing one closes no other; what is open is
\* what a reload brings back, and none lies over another (openTab, loadTabs).
TabsStayWithSession ==
    /\ token # None => \A ts \in {tabs, storedTabs} : \A i \in DOMAIN ts :
           ts[i].owner \in {token, "demo"}
    /\ \A i, j \in DOMAIN tabs : i # j => tabs[i].id # tabs[j].id /\ tabs[i].key # tabs[j].key
    /\ \A i \in DOMAIN tabs : tabs[i].id < nextTabId
    /\ LoadTabs = tabs
    /\ \A i, j \in DOMAIN tabs : i < j => OffsetOf(i) + WidthOf(tabs[i]) <= OffsetOf(j)
=============================================================================
