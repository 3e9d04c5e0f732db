--------------------------- MODULE ConnectorWorker ---------------------------
(***************************************************************************)
(* The runner that keeps logins in the server's own process (LocalRunner,  *)
(* sync_runner.py) and the connector it keeps (tbank_playwright.py): a     *)
(* thread that drives a browser and talks to whoever holds the connector   *)
(* through two queues.  Requests about one connection run on threads of    *)
(* their own, at the same time, and nothing but the dictionary's pop is    *)
(* atomic among them.  What the browser meets is left open.                *)
(***************************************************************************)
EXTENDS Integers, Sequences, Absent

CONSTANTS
    Connectors,      \* the connectors that may be made
    MaxRunnerAsked   \* bound: requests

ASSUME ConnectorWorkerAssumption == None \notin Connectors /\ MaxRunnerAsked \in Nat

VARIABLES
    pending,      \* _pending of the connection: the connector parked, or None
    drivers,      \* drivers[c]: state of the worker thread, to_worker and from_worker
    hands,        \* the requests under way, each with the connector it holds, or None
    replaced,     \* ghost: connectors that another one was parked over
    runnerAsked   \* ghost: requests so far

runnerVars == <<pending, drivers, hands, replaced, runnerAsked>>

-----------------------------------------------------------------------------
Driver(state) == [state |-> state, inbox |-> <<>>, outbox |-> <<>>]

Alive(c) == drivers[c].state # "gone"

Put(c, queue, message) == drivers' = [drivers EXCEPT ![c][queue] = Append(@, message)]

\* A request comes, with the connector it takes.
Comes(fn, at, c) ==
    /\ runnerAsked < MaxRunnerAsked /\ runnerAsked' = runnerAsked + 1
    /\ hands' = hands \cup {[n |-> runnerAsked, fn |-> fn, at |-> at, holds |-> c]}
    /\ UNCHANGED <<drivers, replaced>>

StandsAt(r, at) == hands' = (hands \ {r}) \cup {[r EXCEPT !.at = at]}
Leaves(r) == hands' = hands \ {r}

\* resume closes a connector that fails; start leaves it alone.
Errs(r) == IF r.fn = "resume" THEN StandsAt(r, "close") ELSE Leaves(r)

-----------------------------------------------------------------------------
\* The requests

\* start: cancel pops what is parked, then a connector is made.
StartLogin == pending' = None /\ Comes("start", IF pending = None THEN "make" ELSE "close", pending)

CancelLogin == pending # None /\ pending' = None /\ Comes("cancel", "close", pending)

\* Mutant of ResumeLogin: the connector stays in the dictionary.
ResumeLoginPeeks == pending # None /\ pending' = pending /\ Comes("resume", "code", pending)

\* resume: without a parked login it is refused.
ResumeLogin == pending # None /\ pending' = None /\ Comes("resume", "code", pending)

\* close: tell the worker and wait for it ...
CloseConnector(r) ==
    /\ r.at = "close" /\ StandsAt(r, "join")
    /\ IF Alive(r.holds) THEN Put(r.holds, "inbox", "cancel") ELSE UNCHANGED drivers
    /\ UNCHANGED <<pending, replaced, runnerAsked>>

\* ... until it is gone, or for ten seconds.
JoinEnds(r) ==
    /\ r.at = "join"
    /\ IF r.fn = "start" THEN hands' = (hands \ {r}) \cup {[r EXCEPT !.at = "make", !.holds = None]}
                         ELSE Leaves(r)
    /\ UNCHANGED <<pending, drivers, replaced, runnerAsked>>

\* sync: the worker starts.
MakeConnector(r, c) ==
    /\ r.at = "make" /\ drivers[c].state = "unmade"
    /\ drivers' = [drivers EXCEPT ![c] = Driver("driving")]
    /\ hands' = (hands \ {r}) \cup {[r EXCEPT !.at = "await", !.holds = c]}
    /\ UNCHANGED <<pending, replaced, runnerAsked>>

\* resume_sync
GiveCode(r) ==
    /\ r.at = "code"
    /\ IF Alive(r.holds) THEN Put(r.holds, "inbox", "sms") /\ StandsAt(r, "await")
                         ELSE UNCHANGED drivers /\ Errs(r)
    /\ UNCHANGED <<pending, replaced, runnerAsked>>

\* await_worker, an event comes: a connector that asks for a code is parked,
\* whatever is parked already.
Hears(r) ==
    LET event == Head(drivers[r.holds].outbox) IN
    /\ r.at = "await" /\ drivers[r.holds].outbox # <<>>
    /\ drivers' = [drivers EXCEPT ![r.holds].outbox = Tail(@)]
    /\ IF event = "sms_required"
       THEN pending' = r.holds /\ replaced' = replaced \cup ({pending} \ {None}) /\ Leaves(r)
       ELSE UNCHANGED <<pending, replaced>> /\ IF event = "error" THEN Errs(r) ELSE Leaves(r)
    /\ UNCHANGED runnerAsked

\* None has come for a while: is the worker still there?
HearsNothing(r) ==
    /\ r.at = "await" /\ drivers[r.holds].outbox = <<>> /\ StandsAt(r, "look")
    /\ UNCHANGED <<pending, drivers, replaced, runnerAsked>>

LooksAfter(r) ==
    /\ r.at = "look" /\ IF Alive(r.holds) THEN StandsAt(r, "await") ELSE Errs(r)
    /\ UNCHANGED <<pending, drivers, replaced, runnerAsked>>

-----------------------------------------------------------------------------
\* The worker

Reports(c, event, state) ==
    drivers' = [drivers EXCEPT ![c].outbox = Append(@, event), ![c].state = state]

\* ask_sms: the thread waits for an answer without end.
AsksSms(c) == drivers[c].state = "driving" /\ Reports(c, "sms_required", "waiting")

\* ask_sms goes on, or gives up: "login aborted".
ReadsAnswer(c) ==
    /\ drivers[c].state = "waiting" /\ drivers[c].inbox # <<>>
    /\ LET said == Head(drivers[c].inbox)
           read == [drivers EXCEPT ![c].inbox = Tail(@)]
       IN  drivers' = IF said = "sms" THEN [read EXCEPT ![c].state = "driving"]
                      ELSE [read EXCEPT ![c].outbox = Append(@, "error"), ![c].state = "leaving"]

\* _run comes to its end.
Finishes(c) ==
    /\ drivers[c].state = "driving"
    /\ \E event \in {"result", "error"} : Reports(c, event, "leaving")

\* The thread is over, also because of an exception that _run does not expect.
Stops(c) ==
    /\ drivers[c].state \in {"driving", "leaving"}
    /\ drivers' = [drivers EXCEPT ![c].state = "gone"]

Drives(c) ==
    /\ AsksSms(c) \/ ReadsAnswer(c) \/ Finishes(c) \/ Stops(c)
    /\ UNCHANGED <<pending, hands, replaced, runnerAsked>>

-----------------------------------------------------------------------------
RunnerInit ==
    /\ pending = None /\ drivers = [c \in Connectors |-> Driver("unmade")]
    /\ hands = {} /\ replaced = {} /\ runnerAsked = 0

RunnerNext ==
    \/ StartLogin \/ CancelLogin \/ ResumeLogin
    \/ \E r \in hands :
          \/ CloseConnector(r) \/ JoinEnds(r) \/ GiveCode(r)
          \/ \E c \in Connectors : MakeConnector(r, c)
          \/ Hears(r) \/ HearsNothing(r) \/ LooksAfter(r)
    \/ \E c \in Connectors : Drives(c)

RunnerSpec == RunnerInit /\ [][RunnerNext]_runnerVars

-----------------------------------------------------------------------------
AsksForCode(c) == drivers[c].state = "waiting" /\ drivers[c].inbox = <<>>
UnderWay(c) == c = pending \/ \E r \in hands : r.holds = c

\* However requests overlap, a connector is in the hands of one: of the
\* dictionary, or of a single request (LocalRunner's pops).  So the code that is
\* typed goes to a worker that waits for it and has nothing else to say, the
\* answer that is read is the answer to that code (resume_sync, await_worker), and
\* no worker is left waiting, unless another login was parked over it.
HandsOfOne ==
    /\ \A r, s \in hands : r # s /\ r.holds # None => r.holds # s.holds
    /\ \A r \in hands : r.holds # None => r.holds # pending
    /\ \A c \in Connectors :
          /\ c = pending \/ (\E r \in hands : r.at = "code" /\ r.holds = c) =>
                AsksForCode(c) /\ drivers[c].outbox = <<>>
          /\ Len(drivers[c].outbox) <= 1
          /\ AsksForCode(c) => UnderWay(c) \/ c \in replaced
=============================================================================
