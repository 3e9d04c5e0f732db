---------------------------- MODULE SyncService ----------------------------
(***************************************************************************)
(* The standalone bank-sync service: src/server/app/sync_service.py.       *)
(*                                                                         *)
(* FastAPI runs every handler in a thread of its own.  The threads share   *)
(* PENDING, the registry of login runs, and touch it only under            *)
(* PENDING_LOCK; connectors run, and are closed, outside the lock.  A      *)
(* locked block is therefore one action here and everything between two    *)
(* locked blocks may interleave with the other threads.                    *)
(*                                                                         *)
(* A request is a member of Reqs and is served once.  /runs/{cid} creates  *)
(* a connector and a RunToken that stay together for good, so one name,    *)
(* the request itself, stands for both: a "run".                           *)
(***************************************************************************)
EXTENDS Naturals, FiniteSets

CONSTANTS
    Conns,                \* connection ids
    Reqs,                 \* HTTP requests; also names of the runs they start
    NoRun,                \* "no run": not a request
    NoSession,            \* "no entry in PENDING"
    PENDING_CAPACITY,
    PENDING_TTL_SECONDS,
    MaxTime               \* bound on the clock, for model checking only

Sessions == [run : Reqs, expires_at : Nat]

ASSUME SyncServiceAssumption ==
    /\ PENDING_CAPACITY \in Nat
    /\ PENDING_TTL_SECONDS \in Nat
    /\ MaxTime \in Nat
    /\ NoRun \notin Reqs
    /\ NoSession \notin Sessions

VARIABLES
    PENDING,    \* PENDING[c]: the PendingSession of connection c, or NoSession
    now,        \* monotonic()
    serving,    \* FALSE once the lifespan hook has run
    cid,        \* cid[r]: the connection request r names
    pc,         \* pc[r]: where the thread of request r is
    run,        \* run[r]: the token and connector the thread works with
    stale,      \* stale[r]: connectors the thread still has to close
    reply,      \* reply[r]: the answer the thread will give, or gave
    connector   \* connector[k]: the connector created by request k

vars == <<PENDING, now, serving, cid, pc, run, stale, reply, connector>>

Outcomes == {"done", "error"}
Replies == Outcomes \cup {"none", "awaiting_sms", "cancelled", "409", "429", "500"}

TypeOK ==
    /\ PENDING \in [Conns -> Sessions \cup {NoSession}]
    /\ now \in Nat
    /\ serving \in BOOLEAN
    /\ cid \in [Reqs -> Conns]
    /\ pc \in [Reqs -> {"idle", "closing", "running", "replied"}]
    /\ run \in [Reqs -> Reqs \cup {NoRun}]
    /\ stale \in [Reqs -> SUBSET Reqs]
    /\ reply \in [Reqs -> Replies]
    /\ connector \in [Reqs -> {"none", "open", "closed"}]

-----------------------------------------------------------------------------
(* The registry.                                                           *)

Occupied(P) == {c \in Conns : P[c] # NoSession}

Expired == {c \in Occupied(PENDING) : PENDING[c].expires_at <= now}

\* PENDING once the entries of the connections in C are deleted ...
Without(C) == [c \in Conns |-> IF c \in C THEN NoSession ELSE PENDING[c]]

\* ... and the connectors those entries held.
RunsOf(C) == {PENDING[c].run : c \in C \cap Occupied(PENDING)}

\* Mutant: the deadline is computed with the wrong sign.
SessionInThePast(k) == [run |-> k, expires_at |-> now - PENDING_TTL_SECONDS]

Session(k) == [run |-> k, expires_at |-> now + PENDING_TTL_SECONDS]

\* Mutant: any entry of the connection passes for the thread's own.
OwnedByAnybody(r) == PENDING[cid[r]] # NoSession

\* current is not None and current.token is token
Owned(r) ==
    /\ PENDING[cid[r]] # NoSession
    /\ PENDING[cid[r]].run = run[r]

-----------------------------------------------------------------------------
Init ==
    /\ PENDING = [c \in Conns |-> NoSession]
    /\ now = 0
    /\ serving = TRUE
    /\ cid \in [Reqs -> Conns]
    /\ pc = [r \in Reqs |-> "idle"]
    /\ run = [r \in Reqs |-> NoRun]
    /\ stale = [r \in Reqs |-> {}]
    /\ reply = [r \in Reqs |-> "none"]
    /\ connector = [r \in Reqs |-> "none"]

\* The thread leaves a locked block: the registry becomes P, the connectors in
\* C are its to close, and a is its answer once they are.
Leave(r, P, C, a) ==
    /\ PENDING' = P
    /\ stale' = [stale EXCEPT ![r] = C]
    /\ reply' = [reply EXCEPT ![r] = a]
    /\ pc' = [pc EXCEPT ![r] = "closing"]
    /\ UNCHANGED <<now, serving, cid>>

Arrives(r) == serving /\ pc[r] = "idle"

\* What _reserve deletes first: expired entries, then the connection's own.
Replaced(r) == Expired \cup {cid[r]}

\* Mutant: the capacity is compared with > instead of >=.
StartRunOffByOne(r) ==
    LET kept == Without(Replaced(r)) IN
    /\ Arrives(r)
    /\ Cardinality(Occupied(kept)) <= PENDING_CAPACITY
    /\ connector' = [connector EXCEPT ![r] = "open"]
    /\ run' = [run EXCEPT ![r] = r]
    /\ Leave(r, [kept EXCEPT ![cid[r]] = Session(r)], RunsOf(Replaced(r)), "none")

\* POST /runs/{cid}, admitted: the connector is created and registered.
StartRun(r) ==
    LET kept == Without(Replaced(r)) IN
    /\ Arrives(r)
    /\ Cardinality(Occupied(kept)) < PENDING_CAPACITY
    /\ connector' = [connector EXCEPT ![r] = "open"]
    /\ run' = [run EXCEPT ![r] = r]
    /\ Leave(r, [kept EXCEPT ![cid[r]] = Session(r)], RunsOf(Replaced(r)), "none")

\* POST /runs/{cid}, refused with 429: the new connector is closed.  The list
\* of deleted connectors is a local of _reserve and is lost with the exception.
StartRunRefused(r) ==
    LET kept == Without(Replaced(r)) IN
    /\ Arrives(r)
    /\ Cardinality(Occupied(kept)) >= PENDING_CAPACITY
    /\ connector' = [connector EXCEPT ![r] = "open"]
    /\ Leave(r, kept, {r}, "429")
    /\ UNCHANGED run

\* POST /runs/{cid}/sms with a login waiting: the entry is popped and put back.
SubmitSms(r) ==
    /\ Arrives(r)
    /\ cid[r] \in Occupied(Without(Expired))
    /\ run' = [run EXCEPT ![r] = PENDING[cid[r]].run]
    /\ Leave(r, Without(Expired), RunsOf(Expired), "none")
    /\ UNCHANGED connector

\* POST /runs/{cid}/sms with no login waiting: 409 is raised before the loop
\* that closes the expired connectors.
SubmitSmsRefused(r) ==
    /\ Arrives(r)
    /\ cid[r] \notin Occupied(Without(Expired))
    /\ Leave(r, Without(Expired), {}, "409")
    /\ UNCHANGED <<run, connector>>

\* Mutant: only the cancelled login is closed, not those that expired.
CancelRunForgetful(r) ==
    /\ Arrives(r)
    /\ Leave(r, Without(Replaced(r)), RunsOf({cid[r]}), "cancelled")
    /\ UNCHANGED <<run, connector>>

\* POST /runs/{cid}/cancel
CancelRun(r) ==
    /\ Arrives(r)
    /\ Leave(r, Without(Replaced(r)), RunsOf(Replaced(r)), "cancelled")
    /\ UNCHANGED <<run, connector>>

-----------------------------------------------------------------------------
(* Outside the lock.                                                       *)

\* Mutant: a close that fails is tried again instead of being suppressed.
CloseConnectorRetried(r) ==
    /\ pc[r] = "closing"
    /\ \E k \in stale[r] : connector' = [connector EXCEPT ![k] = "closed"]
    /\ UNCHANGED <<PENDING, now, serving, cid, pc, run, stale, reply>>

CloseConnector(r) ==
    /\ pc[r] = "closing"
    /\ \E k \in stale[r] :
        /\ connector' = [connector EXCEPT ![k] = "closed"]
        /\ stale' = [stale EXCEPT ![r] = @ \ {k}]
    /\ UNCHANGED <<PENDING, now, serving, cid, pc, run, reply>>

\* Nothing left to close: call the connector, or send the answer.
Proceed(r) ==
    /\ pc[r] = "closing"
    /\ stale[r] = {}
    /\ pc' = [pc EXCEPT ![r] = IF reply[r] = "none" THEN "running" ELSE "replied"]
    /\ UNCHANGED <<PENDING, now, serving, cid, run, stale, reply, connector>>

\* Mutant: the login is parked again without looking whose entry it is.
RunParksUnchecked(r) ==
    /\ pc[r] = "running"
    /\ Leave(r, [PENDING EXCEPT ![cid[r]] = Session(run[r])], {}, "awaiting_sms")
    /\ UNCHANGED <<run, connector>>

\* connector.sync / resume_sync raised SmsRequiredError.
RunParks(r) ==
    /\ pc[r] = "running"
    /\ IF Owned(r)
         THEN Leave(r, [PENDING EXCEPT ![cid[r]] = Session(run[r])], {}, "awaiting_sms")
         ELSE Leave(r, PENDING, {}, "409")
    /\ UNCHANGED <<run, connector>>

\* Mutant: the outcome is reported and the connector closed without having
\* removed the entry oneself.
RunEndsUnchecked(r, outcome) ==
    /\ pc[r] = "running"
    /\ Leave(r, IF Owned(r) THEN Without({cid[r]}) ELSE PENDING, {run[r]}, outcome)
    /\ UNCHANGED <<run, connector>>

\* It returned ("done") or raised ConnectorError ("error"): only the owner of
\* the entry removes it, closes the connector and answers with the outcome.
RunEnds(r, outcome) ==
    /\ pc[r] = "running"
    /\ IF Owned(r)
         THEN Leave(r, Without({cid[r]}), {run[r]}, outcome)
         ELSE Leave(r, PENDING, {}, "409")
    /\ UNCHANGED <<run, connector>>

\* It raised anything else, which no handler catches: the entry stays.
RunCrashes(r) ==
    /\ pc[r] = "running"
    /\ Leave(r, PENDING, {}, "500")
    /\ UNCHANGED <<run, connector>>

Tick ==
    /\ now < MaxTime
    /\ now' = now + 1
    /\ UNCHANGED <<PENDING, serving, cid, pc, run, stale, reply, connector>>

\* uvicorn lets the accepted requests finish and only then runs the lifespan
\* hook, so nobody sees close_all_pending half done.
Shutdown ==
    /\ serving
    /\ \A r \in Reqs : pc[r] \in {"idle", "replied"}
    /\ serving' = FALSE
    /\ PENDING' = [c \in Conns |-> NoSession]
    /\ connector' = [k \in Reqs |->
                        IF k \in RunsOf(Conns) THEN "closed" ELSE connector[k]]
    /\ UNCHANGED <<now, cid, pc, run, stale, reply>>

Stopped == ~serving /\ UNCHANGED vars

\* What the thread of a request does by itself once the request was accepted.
Step(r) ==
    \/ CloseConnector(r)
    \/ Proceed(r)
    \/ RunParks(r)
    \/ \E outcome \in Outcomes : RunEnds(r, outcome)
    \/ RunCrashes(r)

Request(r) ==
    \/ StartRun(r)
    \/ StartRunRefused(r)
    \/ SubmitSms(r)
    \/ SubmitSmsRefused(r)
    \/ CancelRun(r)

Next ==
    \/ \E r \in Reqs : Request(r) \/ Step(r)
    \/ Tick
    \/ Shutdown
    \/ Stopped

Spec == Init /\ [][Next]_vars

\* An accepted request has a thread, which the operating system schedules, and
\* every wait of a connector is bounded by a browser timeout.
Fairness == \A r \in Reqs : WF_vars(Step(r))

FairSpec == Spec /\ Fairness

-----------------------------------------------------------------------------
(* Correctness.                                                            *)

InRegistry(k) == \E c \in Conns : PENDING[c] # NoSession /\ PENDING[c].run = k

\* Somebody is going to close connector k: the registry, or a thread's list.
Kept(k) == InRegistry(k) \/ \E r \in Reqs : k \in stale[r]

Finished(k) == \E r \in Reqs : run[r] = k /\ reply[r] \in Outcomes

\* PENDING never holds more than PENDING_CAPACITY logins, whatever order
\* starts, parks and expiries come in (_reserve, _park_if_owned).
WithinCapacity ==
    /\ IsFiniteSet(Occupied(PENDING))
    /\ Cardinality(Occupied(PENDING)) <= PENDING_CAPACITY

\* A connector in PENDING has not been closed: a late _park_if_owned of a run
\* that was cancelled or replaced never brings a dead browser back.
ParkedIsOpen ==
    \A c \in Occupied(PENDING) : connector[PENDING[c].run] = "open"

\* A connector is closed by one thread only: it is never in two threads' lists,
\* nor in a list and in PENDING, and nothing in a list is closed yet.
OneCloser ==
    \A r \in Reqs : \A k \in stale[r] :
        /\ connector[k] = "open"
        /\ ~InRegistry(k)
        /\ \A q \in Reqs \ {r} : k \notin stale[q]

\* Of the threads working on one login (its /runs request and any number of
\* concurrent /sms requests) at most one reports the outcome, and from then on
\* no entry of PENDING belongs to that login.
OneOutcome ==
    \A r \in Reqs : run[r] \in Reqs /\ reply[r] \in Outcomes =>
        /\ \A q \in Reqs \ {r} : run[q] = run[r] => reply[q] \notin Outcomes
        /\ ~InRegistry(run[r])

\* An entry of PENDING goes away, or passes to another login, only by its
\* deadline, by a new login or a cancel for the same connection, by a thread of
\* the very same login, or at shutdown: a superseded run never evicts the login
\* that superseded it.
Evicted(c) == PENDING[c] # NoSession /\ (PENDING'[c] = NoSession \/ PENDING'[c].run # PENDING[c].run)

OnlyRightfulEviction ==
    [][\A c \in Conns : Evicted(c) =>
          \/ PENDING[c].expires_at <= now
          \/ ~serving'
          \/ \E r \in Reqs : /\ cid[r] = c
                             /\ pc[r] = "idle" /\ pc'[r] = "closing"
                             /\ r = run'[r] \/ reply'[r] = "cancelled"
          \/ \E r \in Reqs : /\ run[r] = PENDING[c].run
                             /\ pc[r] = "running" /\ reply'[r] \in Outcomes]_vars

\* No step loses an open connector somebody was going to close, with one
\* exception: a /sms answered 409.  In particular _reserve, which forgets the
\* entries it deleted when it raises 429, has never deleted any by then.
OnlyRefusedSmsLeaks ==
    [][\A k \in Reqs :
          Kept(k) /\ ~Kept(k)' /\ connector'[k] = "open"
            => \E r \in Reqs : SubmitSmsRefused(r)]_vars

\* Every request the service accepts is answered.
EveryRequestAnswered ==
    \A r \in Reqs : pc[r] # "idle" ~> pc[r] = "replied"

\* lifespan: "Release every pending connector when FastAPI stops."
ReleasedAtShutdown ==
    ~serving => \A k \in Reqs : connector[k] # "open"

-----------------------------------------------------------------------------
(* What makes the properties above inductive: how the entries of PENDING   *)
(* and the threads' local variables hang together.                         *)

SessionsAreRuns ==
    \A c \in Occupied(PENDING) :
        /\ cid[PENDING[c].run] = c
        /\ run[PENDING[c].run] = PENDING[c].run

ThreadsAreSound ==
    \A r \in Reqs :
        /\ pc[r] = "idle" => /\ run[r] = NoRun /\ reply[r] = "none"
                             /\ connector[r] = "none"
        /\ pc[r] # "closing" => stale[r] = {}
        /\ pc[r] \in {"closing", "running"} /\ reply[r] = "none" => run[r] \in Reqs
        /\ pc[r] = "running" => reply[r] = "none"
        /\ run[r] \in Reqs => /\ run[run[r]] = run[r]
                              /\ cid[run[r]] = cid[r]

IInv ==
    /\ TypeOK
    /\ SessionsAreRuns
    /\ ThreadsAreSound
    /\ WithinCapacity
    /\ ParkedIsOpen
    /\ OneCloser
    /\ OneOutcome

-----------------------------------------------------------------------------
(* The service implements the registry of LoginRegistry.                   *)

Phase(k) ==
    IF InRegistry(k) THEN "live"
    ELSE IF Finished(k) THEN "finished"
    ELSE IF run[k] = k THEN "revoked" ELSE "new"

Registry == INSTANCE LoginRegistry
    WITH Runs <- Reqs, Capacity <- PENDING_CAPACITY,
         target <- cid, phase <- [k \in Reqs |-> Phase(k)]

ImplementsRegistry == Registry!Spec
=============================================================================
