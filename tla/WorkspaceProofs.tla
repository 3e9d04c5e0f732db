--------------------------- MODULE WorkspaceProofs ---------------------------
(***************************************************************************)
(* Theorems about the parts of the web client that keep state of their     *)
(* own, and about the runner of the server's bank logins.                  *)
(***************************************************************************)
EXTENDS ConnectorWorker, BankSync, StatementImport, AdminDesk, SplitEditor, SideTabs,
        AccountList, FoldLemmas, SequenceTheorems

-----------------------------------------------------------------------------
(* The connectors of the bank logins.  What makes HandsOfOne inductive is  *)
(* how far the worker of a connector has come for each point its holder    *)
(* can be at: see HandStage and Loose.                                     *)

Messages == {"sms", "cancel"}
Events == {"sms_required", "result", "error"}

Drivers ==
    [state : {"unmade", "driving", "waiting", "leaving", "gone"},
     inbox : Seq(Messages), outbox : Seq(Events)]

Hands ==
    [n : Nat, fn : {"start", "cancel", "resume"},
     at : {"close", "join", "make", "code", "await", "look"}, holds : Connectors \cup {None}]

\* The worker waits for a code, and nobody has said anything more.
Asking(d) == d.state = "waiting" /\ d.inbox = <<>> /\ d.outbox = <<>>

\* It has been told to stop.
Told(d) == d.state = "waiting" /\ d.inbox = <<"cancel">> /\ d.outbox = <<>>

\* It is at its end, and may have said how it went.
Over(d) == d.state \in {"leaving", "gone"} /\ d.outbox \in {<<>>, <<"result">>, <<"error">>}

\* It is about to say something to the one that awaits it.
Working(d) ==
    \/ d.state = "driving" /\ d.inbox = <<>> /\ d.outbox = <<>>
    \/ d.state = "waiting" /\ d.inbox = <<"sms">> /\ d.outbox = <<>>
    \/ d.state = "waiting" /\ d.inbox = <<>> /\ d.outbox = <<"sms_required">>

\* What a request can rely on where it stands.
DriverFits(at, d) ==
    /\ at = "code" => Asking(d)
    /\ at \in {"await", "look"} => Working(d) \/ Over(d)
    /\ at = "close" => Asking(d) \/ Over(d)
    /\ at = "join" => Told(d) \/ Over(d)

HandStage(r) ==
    IF r.at = "make" THEN r.holds = None ELSE r.holds # None /\ DriverFits(r.at, drivers[r.holds])

\* What becomes of a connector that nobody holds.
Loose(c) ==
    LET d == drivers[c] IN
    d = Driver("unmade") \/ Told(d) \/ Over(d) \/ (Asking(d) /\ c \in replaced)

RunnersTyped ==
    /\ pending \in Connectors \cup {None}
    /\ drivers \in [Connectors -> Drivers]
    /\ hands \subseteq Hands
    /\ runnerAsked \in Nat

OneHolder ==
    /\ \A r, s \in hands : r # s /\ r.holds # None => r.holds # s.holds
    /\ \A r \in hands : r.holds # None => r.holds # pending

Stages == \A r \in hands : HandStage(r)

Parked == \A c \in Connectors :
    IF c = pending THEN Asking(drivers[c])
    ELSE (\E r \in hands : r.holds = c) \/ Loose(c)

WorkerInv == RunnersTyped /\ OneHolder /\ Stages /\ Parked

-----------------------------------------------------------------------------
LEMMA InitWorker == RunnerInit => WorkerInv
BY ConnectorWorkerAssumption
   DEF RunnerInit, WorkerInv, RunnersTyped, OneHolder, Stages, Parked, Loose, Driver, Drivers, Hands

\* A request comes and takes what is parked (StartLogin, CancelLogin, ResumeLogin).
LEMMA ComesKeeps ==
    ASSUME WorkerInv, NEW fn \in {"start", "cancel", "resume"}, NEW at \in {"close", "make", "code"},
           at = "make" <=> pending = None, pending' = None, Comes(fn, at, pending)
    PROVE  WorkerInv'
<1> DEFINE new == [n |-> runnerAsked, fn |-> fn, at |-> at, holds |-> pending]
<1> USE ConnectorWorkerAssumption DEF Comes, WorkerInv
<1>1. hands' = hands \cup {new} /\ drivers' = drivers /\ replaced' = replaced
  OBVIOUS
<1>2. new \in Hands /\ new.at = at /\ new.holds = pending
  BY DEF RunnersTyped, Hands
<1> HIDE DEF new
<1>3. RunnersTyped'
  BY <1>1, <1>2 DEF RunnersTyped
<1>4. OneHolder'
  BY <1>1, <1>2 DEF OneHolder, RunnersTyped, Hands
<1>5. Stages'
  <2>1. CASE pending = None
    BY <1>1, <1>2, <2>1 DEF Stages, HandStage
  <2>2. CASE pending # None
    <3>1. at \in {"close", "code"} /\ Asking(drivers[pending])
      BY <2>2 DEF Parked, RunnersTyped
    <3> QED
      BY <1>1, <1>2, <2>2, <3>1 DEF Stages, HandStage, DriverFits
  <2> QED
    BY <2>1, <2>2
<1>6. Parked'
  <2> SUFFICES ASSUME NEW c \in Connectors PROVE (\E r \in hands' : r.holds = c) \/ Loose(c)'
    BY DEF Parked
  <2>1. CASE c = pending
    BY <1>1, <1>2, <2>1
  <2>2. CASE c # pending
    BY <1>1, <2>2 DEF Parked, Loose
  <2> QED
    BY <2>1, <2>2
<1> QED
  BY <1>3, <1>4, <1>5, <1>6

\* A request goes on or leaves, and the connector it held changes: what has to be
\* shown is only about that connector.  next holds the request, if it goes on.
LEMMA HandGoesOnKeeps ==
    ASSUME WorkerInv, NEW r \in hands, NEW next \in SUBSET Hands,
           NEW c \in Connectors, NEW d \in Drivers,
           r.holds = c \/ (r.holds = None /\ drivers[c] = Driver("unmade")),
           hands' = (hands \ {r}) \cup next,
           \A s, t \in next : s = t,
           \A s \in next : IF s.at = "make" THEN s.holds = None ELSE s.holds = c /\ DriverFits(s.at, d),
           drivers' = [drivers EXCEPT ![c] = d],
           UNCHANGED <<pending, replaced, runnerAsked>>,
           (\A s \in next : s.holds = None) => Told(d) \/ Over(d)
    PROVE  WorkerInv'
<1> USE ConnectorWorkerAssumption DEF WorkerInv
<1>0. c # pending
  BY DEF OneHolder, Parked, RunnersTyped, Asking, Driver
<1>1. RunnersTyped' /\ drivers'[c] = d
  BY DEF RunnersTyped
<1>2. OneHolder'
  <2>1. \A s \in hands \ {r} : s.holds # c
    BY DEF OneHolder, RunnersTyped, Hands, Stages, HandStage, DriverFits, Asking, Working, Over, Told, Driver
  <2> QED
    BY <1>0, <2>1 DEF OneHolder
<1>3. Stages'
  <2>0. \A s \in next : HandStage(s)'
    BY <1>1 DEF HandStage
  <2> SUFFICES ASSUME NEW s \in hands, s # r PROVE HandStage(s)'
    BY <2>0 DEF Stages
  <2>1. s.holds # c /\ s.holds \in Connectors \cup {None}
    BY DEF OneHolder, RunnersTyped, Hands, Stages, HandStage, DriverFits, Asking, Working, Over, Told, Driver
  <2> QED
    BY <2>1 DEF Stages, HandStage, RunnersTyped
<1>4. Parked'
  <2> SUFFICES ASSUME NEW b \in Connectors
               PROVE  IF b = pending' THEN Asking(drivers'[b])
                      ELSE (\E s \in hands' : s.holds = b) \/ Loose(b)'
    BY DEF Parked
  <2>1. CASE b = c
    <3>1. CASE \A s \in next : s.holds = None
      BY <1>0, <1>1, <2>1, <3>1 DEF Loose
    <3>2. CASE \E s \in next : s.holds # None
      <4>1. \E s \in next : s.holds = c
        BY <3>2
      <4> QED
        BY <1>0, <2>1, <4>1
    <3> QED
      BY <3>1, <3>2
  <2>2. CASE b # c
    <3>1. drivers'[b] = drivers[b]
      BY <2>2 DEF RunnersTyped
    <3>2. r.holds # b
      BY <2>2
    <3> QED
      BY <3>1, <3>2 DEF Parked, Loose
  <2> QED
    BY <2>1, <2>2
<1> QED
  BY <1>1, <1>2, <1>3, <1>4

-----------------------------------------------------------------------------
(* The requests.                                                           *)

\* The connector a request holds is known, except to one that makes a new one.
LEMMA HeldIsKnown ==
    ASSUME WorkerInv, NEW r \in hands, r.at # "make"
    PROVE  /\ r \in Hands /\ r.holds \in Connectors
           /\ drivers[r.holds] \in Drivers
           /\ drivers = [drivers EXCEPT ![r.holds] = drivers[r.holds]]
BY DEF WorkerInv, RunnersTyped, Stages, HandStage, Hands

\* The request goes on with the connector it holds ...
LEMMA AtKeeps ==
    ASSUME WorkerInv, NEW r \in hands, r.at # "make", NEW d \in Drivers,
           NEW at \in {"close", "join", "await", "look"}, StandsAt(r, at), DriverFits(at, d),
           drivers' = [drivers EXCEPT ![r.holds] = d], UNCHANGED <<pending, replaced, runnerAsked>>
    PROVE  WorkerInv'
<1> DEFINE next == {[r EXCEPT !.at = at]}
<1>1. r \in Hands /\ r.holds \in Connectors
  BY HeldIsKnown
<1>2. /\ next \in SUBSET Hands /\ \A s, t \in next : s = t
      /\ \A s \in next : s.at = at /\ s.holds = r.holds
      /\ \E s \in next : s.holds = r.holds
  BY <1>1 DEF Hands
<1>3. hands' = (hands \ {r}) \cup next
  BY DEF StandsAt
<1> HIDE DEF next
<1>4. \A s \in next : IF s.at = "make" THEN s.holds = None ELSE s.holds = r.holds /\ DriverFits(s.at, d)
  BY <1>2
<1>5. ~\A s \in next : s.holds = None
  BY <1>1, <1>2, ConnectorWorkerAssumption
<1> QED
  BY <1>1, <1>2, <1>3, <1>4, <1>5, HandGoesOnKeeps

\* ... or leaves with it.
LEMMA LeavesKeeps ==
    ASSUME WorkerInv, NEW r \in hands, r.at # "make", NEW d \in Drivers, Leaves(r), Told(d) \/ Over(d),
           drivers' = [drivers EXCEPT ![r.holds] = d], UNCHANGED <<pending, replaced, runnerAsked>>
    PROVE  WorkerInv'
<1> DEFINE next == {}
<1>1. r.holds \in Connectors /\ hands' = (hands \ {r}) \cup next
  BY HeldIsKnown DEF Leaves
<1>2. /\ next \in SUBSET Hands /\ \A s, t \in next : s = t
      /\ \A s \in next : IF s.at = "make" THEN s.holds = None ELSE s.holds = r.holds /\ DriverFits(s.at, d)
  OBVIOUS
<1> HIDE DEF next
<1> QED
  BY <1>1, <1>2, HandGoesOnKeeps

LEMMA ErrsKeeps ==
    ASSUME WorkerInv, NEW r \in hands, r.at # "make", NEW d \in Drivers, Errs(r), Over(d),
           drivers' = [drivers EXCEPT ![r.holds] = d], UNCHANGED <<pending, replaced, runnerAsked>>
    PROVE  WorkerInv'
<1>1. DriverFits("close", d)
  BY DEF DriverFits
<1>2. CASE r.fn = "resume"
  BY <1>1, <1>2, AtKeeps DEF Errs
<1>3. CASE r.fn # "resume"
  BY <1>3, LeavesKeeps DEF Errs
<1> QED
  BY <1>2, <1>3

\* Something is put into the inbox of a worker.
LEMMA PutInbox ==
    ASSUME NEW d \in Drivers, NEW message \in Messages
    PROVE  LET e == [d EXCEPT !.inbox = Append(@, message)] IN
           /\ e \in Drivers
           /\ Over(d) => Over(e)
           /\ Asking(d) => e.state = "waiting" /\ e.inbox = <<message>> /\ e.outbox = <<>>
<1> DEFINE more == Append(d.inbox, message)
           e == [d EXCEPT !.inbox = more]
<1>0. d.inbox \in Seq(Messages)
  BY DEF Drivers
<1>1. more \in Seq(Messages) /\ (d.inbox = <<>> => more = <<message>>)
  <2>1. more \in Seq(Messages)
    BY <1>0
  <2>2. d.inbox = <<>> => more = <<message>>
    OBVIOUS
  <2> QED
    BY <2>1, <2>2
<1> HIDE DEF more
<1>2. e \in Drivers /\ e.state = d.state /\ e.outbox = d.outbox /\ e.inbox = more
  BY <1>1 DEF Drivers
<1> HIDE DEF e
<1>3. (Over(d) => Over(e)) /\ (Asking(d) => e.state = "waiting" /\ e.inbox = <<message>> /\ e.outbox = <<>>)
  BY <1>1, <1>2 DEF Over, Asking
<1> QED
  BY <1>2, <1>3 DEF e, more

LEMMA CloseConnectorKeeps ==
    ASSUME WorkerInv, NEW r \in hands, CloseConnector(r)
    PROVE  WorkerInv'
<1> DEFINE old == drivers[r.holds]
           told == [old EXCEPT !.inbox = Append(@, "cancel")]
<1>1. /\ r.at = "close" /\ StandsAt(r, "join") /\ r.holds \in Connectors /\ old \in Drivers
      /\ UNCHANGED <<pending, replaced, runnerAsked>>
  BY HeldIsKnown DEF CloseConnector
<1>2. Asking(old) \/ Over(old)
  BY <1>1 DEF WorkerInv, Stages, HandStage, DriverFits
<1>3. CASE Alive(r.holds)
  <2>1. drivers' = [drivers EXCEPT ![r.holds] = told]
    BY <1>3 DEF CloseConnector, Put
  <2>2. told \in Drivers /\ (Told(told) \/ Over(told))
    BY <1>1, <1>2, PutInbox DEF Told, Messages
  <2> HIDE DEF told
  <2>3. DriverFits("join", told)
    BY <2>2 DEF DriverFits
  <2> QED
    BY <1>1, <2>1, <2>2, <2>3, AtKeeps
<1>4. CASE ~Alive(r.holds)
  <2>1. drivers' = [drivers EXCEPT ![r.holds] = old]
    BY <1>1, <1>4, HeldIsKnown DEF CloseConnector
  <2>2. DriverFits("join", old)
    BY <1>2, <1>4 DEF DriverFits, Asking, Alive
  <2> QED
    BY <1>1, <2>1, <2>2, AtKeeps
<1> QED
  BY <1>3, <1>4

LEMMA GiveCodeKeeps ==
    ASSUME WorkerInv, NEW r \in hands, GiveCode(r)
    PROVE  WorkerInv'
<1> DEFINE old == drivers[r.holds]
           given == [old EXCEPT !.inbox = Append(@, "sms")]
<1>1. /\ r.at = "code" /\ r.holds \in Connectors /\ old \in Drivers
      /\ UNCHANGED <<pending, replaced, runnerAsked>>
  BY HeldIsKnown DEF GiveCode
<1>2. Asking(old)
  BY <1>1 DEF WorkerInv, Stages, HandStage, DriverFits
<1>3. StandsAt(r, "await") /\ drivers' = [drivers EXCEPT ![r.holds] = given]
  BY <1>2 DEF GiveCode, Put, Alive, Asking
<1>4. given \in Drivers /\ Working(given)
  BY <1>1, <1>2, PutInbox DEF Working, Messages
<1> HIDE DEF given
<1>5. DriverFits("await", given)
  BY <1>4 DEF DriverFits
<1> QED
  BY <1>1, <1>3, <1>4, <1>5, AtKeeps

LEMMA HearsNothingKeeps ==
    ASSUME WorkerInv, NEW r \in hands, HearsNothing(r)
    PROVE  WorkerInv'
<1>1. r.at = "await" /\ StandsAt(r, "look") /\ UNCHANGED <<pending, drivers, replaced, runnerAsked>>
  BY DEF HearsNothing
<1>2. DriverFits("look", drivers[r.holds])
  BY <1>1 DEF WorkerInv, Stages, HandStage, DriverFits
<1> QED
  BY <1>1, <1>2, HeldIsKnown, AtKeeps

LEMMA LooksAfterKeeps ==
    ASSUME WorkerInv, NEW r \in hands, LooksAfter(r)
    PROVE  WorkerInv'
<1> DEFINE d == drivers[r.holds]
<1>1. r.at = "look" /\ UNCHANGED <<pending, drivers, replaced, runnerAsked>>
  BY DEF LooksAfter
<1>2. Working(d) \/ Over(d)
  BY <1>1 DEF WorkerInv, Stages, HandStage, DriverFits
<1>3. d \in Drivers /\ drivers' = [drivers EXCEPT ![r.holds] = d]
  BY <1>1, HeldIsKnown
<1>4. CASE Alive(r.holds)
  <2>1. StandsAt(r, "await") /\ DriverFits("await", d)
    BY <1>2, <1>4 DEF LooksAfter, DriverFits
  <2> QED
    BY <1>1, <1>3, <2>1, AtKeeps
<1>5. CASE ~Alive(r.holds)
  <2>1. Errs(r) /\ Over(d)
    BY <1>2, <1>5 DEF LooksAfter, Working, Alive
  <2> QED
    BY <1>1, <1>3, <2>1, ErrsKeeps
<1> QED
  BY <1>4, <1>5

LEMMA JoinEndsKeeps ==
    ASSUME WorkerInv, NEW r \in hands, JoinEnds(r)
    PROVE  WorkerInv'
<1> DEFINE d == drivers[r.holds]
           next == {[r EXCEPT !.at = "make", !.holds = None]}
<1>1. r.at = "join" /\ UNCHANGED <<pending, drivers, replaced, runnerAsked>>
  BY DEF JoinEnds
<1>2. Told(d) \/ Over(d)
  BY <1>1 DEF WorkerInv, Stages, HandStage, DriverFits
<1>3. /\ r \in Hands /\ r.holds \in Connectors /\ d \in Drivers
      /\ drivers' = [drivers EXCEPT ![r.holds] = d]
  BY <1>1, HeldIsKnown
<1>4. CASE r.fn = "start"
  <2>1. hands' = (hands \ {r}) \cup next
    BY <1>4 DEF JoinEnds
  <2>2. /\ next \in SUBSET Hands /\ \A s, t \in next : s = t
        /\ \A s \in next : IF s.at = "make" THEN s.holds = None ELSE s.holds = r.holds /\ DriverFits(s.at, d)
    BY <1>3 DEF Hands
  <2> HIDE DEF next
  <2> QED
    BY <1>1, <1>2, <1>3, <2>1, <2>2, HandGoesOnKeeps
<1>5. CASE r.fn # "start"
  <2>1. Leaves(r)
    BY <1>5 DEF JoinEnds
  <2> QED
    BY <1>1, <1>2, <1>3, <2>1, LeavesKeeps
<1> QED
  BY <1>4, <1>5

LEMMA MakeConnectorKeeps ==
    ASSUME WorkerInv, NEW r \in hands, NEW c \in Connectors, MakeConnector(r, c)
    PROVE  WorkerInv'
<1> DEFINE d == Driver("driving")
           next == {[r EXCEPT !.at = "await", !.holds = c]}
<1>1. /\ r.at = "make" /\ r \in Hands /\ r.holds = None /\ drivers[c].state = "unmade"
      /\ hands' = (hands \ {r}) \cup next /\ drivers' = [drivers EXCEPT ![c] = d]
      /\ UNCHANGED <<pending, replaced, runnerAsked>>
  BY DEF MakeConnector, WorkerInv, RunnersTyped, Stages, HandStage
<1>2. drivers[c] = Driver("unmade")
  <2>1. c # pending
    BY <1>1 DEF WorkerInv, Parked, Asking
  <2>2. \A s \in hands : s.holds # c
    <3> SUFFICES ASSUME NEW s \in hands, s.holds = c PROVE FALSE
      OBVIOUS
    <3>1. s.at # "make" /\ s \in Hands
      BY ConnectorWorkerAssumption DEF WorkerInv, Stages, HandStage, RunnersTyped
    <3>2. DriverFits(s.at, drivers[c])
      BY <3>1 DEF WorkerInv, Stages, HandStage
    <3> QED
      BY <1>1, <3>1, <3>2 DEF DriverFits, Hands, Asking, Working, Told, Over
  <2>3. Loose(c)
    BY <2>1, <2>2 DEF WorkerInv, Parked
  <2> QED
    BY <1>1, <2>3 DEF Loose, Told, Over, Asking
<1>3. d \in Drivers /\ Working(d)
  BY DEF Drivers, Driver, Working
<1>4. /\ next \in SUBSET Hands /\ \A s, t \in next : s = t
      /\ \A s \in next : s.at = "await" /\ s.holds = c
      /\ \E s \in next : s.holds = c
  BY <1>1 DEF Hands
<1> HIDE DEF d, next
<1>5. \A s \in next : IF s.at = "make" THEN s.holds = None ELSE s.holds = c /\ DriverFits(s.at, d)
  BY <1>3, <1>4 DEF DriverFits
<1>6. ~\A s \in next : s.holds = None
  BY <1>4, ConnectorWorkerAssumption
<1> QED
  BY <1>1, <1>2, <1>3, <1>4, <1>5, <1>6, HandGoesOnKeeps

\* A connector that asks for a code is parked over the one that is there.
LEMMA HearsCodeKeeps ==
    ASSUME WorkerInv, NEW r \in hands, r.at # "make", NEW d \in Drivers, Asking(d),
           Leaves(r), drivers' = [drivers EXCEPT ![r.holds] = d], pending' = r.holds,
           replaced' = replaced \cup ({pending} \ {None}), UNCHANGED runnerAsked
    PROVE  WorkerInv'
<1> USE ConnectorWorkerAssumption DEF WorkerInv
<1>0. r.holds \in Connectors /\ r.holds # pending
  BY HeldIsKnown DEF OneHolder
<1>1. RunnersTyped' /\ drivers'[r.holds] = d /\ hands' = hands \ {r}
  BY <1>0 DEF RunnersTyped, Leaves
<1>2. \A s \in hands' : s \in hands /\ s.holds # r.holds
  BY <1>0, <1>1 DEF OneHolder
<1>3. OneHolder'
  BY <1>1, <1>2 DEF OneHolder
<1>4. Stages'
  <2> SUFFICES ASSUME NEW s \in hands' PROVE HandStage(s)'
    BY DEF Stages
  <2>1. HandStage(s) /\ s.holds \in Connectors \cup {None} /\ s.holds # r.holds
    BY <1>2 DEF Stages, RunnersTyped, Hands
  <2> QED
    BY <2>1 DEF HandStage, RunnersTyped
<1>5. Parked'
  <2> SUFFICES ASSUME NEW b \in Connectors, b # r.holds
               PROVE  (\E s \in hands' : s.holds = b) \/ Loose(b)'
    BY <1>1 DEF Parked
  <2>1. drivers'[b] = drivers[b]
    BY DEF RunnersTyped
  <2>2. CASE b = pending
    BY <2>1, <2>2 DEF Parked, Loose
  <2>3. CASE b # pending
    <3>1. (\E s \in hands : s.holds = b) \/ Loose(b)
      BY <2>3 DEF Parked
    <3>2. Loose(b) => Loose(b)'
      BY <2>1 DEF Loose
    <3> QED
      BY <1>1, <3>1, <3>2
  <2> QED
    BY <2>2, <2>3
<1> QED
  BY <1>1, <1>3, <1>4, <1>5

LEMMA OfOne ==
    ASSUME NEW x PROVE Len(<<x>>) = 1 /\ Head(<<x>>) = x /\ Tail(<<x>>) = <<>>
<1>1. <<x>> \in Seq({x}) /\ <<x>> # <<>>
  OBVIOUS
<1>2. Len(Tail(<<x>>)) = 0 /\ Tail(<<x>>) \in Seq({x})
  BY <1>1
<1>3. Tail(<<x>>) = <<>>
  BY <1>2
<1>4. Len(<<x>>) = 1
  OBVIOUS
<1>5. Head(<<x>>) = x
  OBVIOUS
<1> QED
  BY <1>3, <1>4, <1>5

LEMMA HearsKeeps ==
    ASSUME WorkerInv, NEW r \in hands, Hears(r)
    PROVE  WorkerInv'
<1> DEFINE old == drivers[r.holds]
           event == Head(old.outbox)
           heard == [old EXCEPT !.outbox = Tail(@)]
<1>1. /\ r.at = "await" /\ old.outbox # <<>> /\ UNCHANGED runnerAsked
      /\ drivers' = [drivers EXCEPT ![r.holds].outbox = Tail(@)]
  BY DEF Hears
<1>2. IF event = "sms_required"
      THEN pending' = r.holds /\ replaced' = replaced \cup ({pending} \ {None}) /\ Leaves(r)
      ELSE UNCHANGED <<pending, replaced>> /\ IF event = "error" THEN Errs(r) ELSE Leaves(r)
  BY DEF Hears
<1>3. old \in Drivers /\ r.holds \in Connectors /\ (Working(old) \/ Over(old))
  BY <1>1, HeldIsKnown DEF WorkerInv, Stages, HandStage, DriverFits
<1>4. drivers' = [drivers EXCEPT ![r.holds] = heard]
  BY <1>1, <1>3 DEF WorkerInv, RunnersTyped
<1>5. CASE Working(old)
  <2>1. event = "sms_required" /\ old.state = "waiting" /\ old.inbox = <<>> /\ Tail(old.outbox) = <<>>
    BY <1>1, <1>5, OfOne DEF Working
  <2>2. heard \in Drivers /\ Asking(heard)
    <3>0. <<>> \in Seq(Events)
      OBVIOUS
    <3>1. heard = [old EXCEPT !.outbox = <<>>]
      BY <2>1
    <3>2. heard \in Drivers /\ heard.state = old.state /\ heard.inbox = old.inbox /\ heard.outbox = <<>>
      BY <1>3, <3>0, <3>1 DEF Drivers
    <3> QED
      BY <2>1, <3>2 DEF Asking
  <2> HIDE DEF heard
  <2> QED
    BY <1>1, <1>2, <1>4, <2>1, <2>2, HearsCodeKeeps
<1>6. CASE Over(old)
  <2>1. event \in {"result", "error"} /\ Tail(old.outbox) = <<>> /\ old.state \in {"leaving", "gone"}
    BY <1>1, <1>6, OfOne DEF Over
  <2>2. heard \in Drivers /\ Over(heard)
    <3>0. <<>> \in Seq(Events)
      OBVIOUS
    <3>1. heard = [old EXCEPT !.outbox = <<>>]
      BY <2>1
    <3>2. heard \in Drivers /\ heard.state = old.state /\ heard.outbox = <<>>
      BY <1>3, <3>0, <3>1 DEF Drivers
    <3> QED
      BY <2>1, <3>2 DEF Over
  <2> HIDE DEF heard
  <2>3. CASE event = "error"
    BY <1>1, <1>2, <1>4, <2>2, <2>3, ErrsKeeps
  <2>4. CASE event = "result"
    BY <1>1, <1>2, <1>4, <2>2, <2>4, LeavesKeeps
  <2> QED
    BY <2>1, <2>3, <2>4
<1> QED
  BY <1>3, <1>5, <1>6

-----------------------------------------------------------------------------
(* The worker.                                                             *)

\* The worker goes from one place to the next: neither parked nor yet to be made.
LEMMA DriverKeeps ==
    ASSUME WorkerInv, NEW c \in Connectors, NEW d \in Drivers,
           ~Asking(drivers[c]), drivers[c].state # "unmade",
           Working(drivers[c]) => Working(d) \/ Over(d),
           Told(drivers[c]) => Told(d) \/ Over(d), Over(drivers[c]) => Over(d),
           drivers' = [drivers EXCEPT ![c] = d], UNCHANGED <<pending, hands, replaced, runnerAsked>>
    PROVE  WorkerInv'
<1> USE ConnectorWorkerAssumption DEF WorkerInv
<1>1. RunnersTyped' /\ OneHolder' /\ drivers'[c] = d /\ c # pending
  BY DEF RunnersTyped, OneHolder, Parked
<1>2. Stages'
  <2> SUFFICES ASSUME NEW s \in hands PROVE HandStage(s)'
    BY DEF Stages
  <2>1. HandStage(s) /\ s.holds \in Connectors \cup {None}
    BY DEF Stages, RunnersTyped, Hands
  <2>2. CASE s.holds = c
    BY <1>1, <2>1, <2>2 DEF HandStage, DriverFits
  <2>3. CASE s.holds # c
    BY <2>1, <2>3 DEF HandStage, RunnersTyped
  <2> QED
    BY <2>2, <2>3
<1>3. Parked'
  <2> SUFFICES ASSUME NEW b \in Connectors
               PROVE  IF b = pending THEN Asking(drivers'[b])
                      ELSE (\E s \in hands : s.holds = b) \/ Loose(b)'
    BY DEF Parked
  <2>1. CASE b = c
    <3>1. Loose(c) => Loose(c)'
      BY <1>1 DEF Loose, Driver
    <3> QED
      BY <1>1, <2>1, <3>1 DEF Parked
  <2>2. CASE b # c
    <3>1. drivers'[b] = drivers[b]
      BY <2>2 DEF RunnersTyped
    <3>2. Loose(b) => Loose(b)'
      BY <3>1 DEF Loose
    <3> QED
      BY <3>1, <3>2 DEF Parked
  <2> QED
    BY <2>1, <2>2
<1> QED
  BY <1>1, <1>2, <1>3

\* What the worker reports comes out last.
LEMMA PutOutbox ==
    ASSUME NEW d \in Drivers, NEW event \in Events
    PROVE  Append(d.outbox, event) \in Seq(Events) /\ (d.outbox = <<>> => Append(d.outbox, event) = <<event>>)
<1>1. d.outbox \in Seq(Events)
  BY DEF Drivers
<1>2. Append(d.outbox, event) \in Seq(Events)
  BY <1>1
<1>3. d.outbox = <<>> => Append(d.outbox, event) = <<event>>
  OBVIOUS
<1> QED
  BY <1>2, <1>3

LEMMA ReportsKeeps ==
    ASSUME WorkerInv, NEW c \in Connectors, drivers[c].state = "driving",
           NEW event \in Events, NEW state \in {"waiting", "leaving"},
           (state = "waiting") <=> (event = "sms_required"), Reports(c, event, state),
           UNCHANGED <<pending, hands, replaced, runnerAsked>>
    PROVE  WorkerInv'
<1> DEFINE old == drivers[c]
           more == Append(old.outbox, event)
           d == [old EXCEPT !.outbox = more, !.state = state]
<1>1. old \in Drivers
  BY DEF WorkerInv, RunnersTyped
<1>2. more \in Seq(Events) /\ (old.outbox = <<>> => more = <<event>>)
  BY <1>1, PutOutbox
<1>3. drivers' = [drivers EXCEPT ![c] = d]
  BY DEF WorkerInv, RunnersTyped, Reports
<1> HIDE DEF more
<1>4. d \in Drivers /\ d.state = state /\ d.inbox = old.inbox /\ d.outbox = more
  BY <1>1, <1>2 DEF Drivers
<1> HIDE DEF d
<1>5. ~Asking(old) /\ ~Told(old) /\ ~Over(old)
  BY DEF Asking, Told, Over
<1>6. Working(old) => Working(d) \/ Over(d)
  BY <1>2, <1>4 DEF Working, Over, Events
<1> QED
  BY <1>1, <1>3, <1>4, <1>5, <1>6, DriverKeeps

LEMMA ReadsAnswerKeeps ==
    ASSUME WorkerInv, NEW c \in Connectors, ReadsAnswer(c),
           UNCHANGED <<pending, hands, replaced, runnerAsked>>
    PROVE  WorkerInv'
<1> DEFINE old == drivers[c]
           said == Head(old.inbox)
           read == [old EXCEPT !.inbox = Tail(@)]
           on == [read EXCEPT !.state = "driving"]
           more == Append(read.outbox, "error")
           off == [read EXCEPT !.outbox = more, !.state = "leaving"]
<1>1. old \in Drivers /\ old.state = "waiting" /\ old.inbox # <<>>
  BY DEF WorkerInv, RunnersTyped, ReadsAnswer
<1>2. Tail(old.inbox) \in Seq(Messages) /\ said \in Messages
  BY <1>1 DEF Drivers
<1>3. /\ read \in Drivers /\ read.state = "waiting" /\ read.inbox = Tail(old.inbox)
      /\ read.outbox = old.outbox
  BY <1>1, <1>2 DEF Drivers
<1>4. drivers' = [drivers EXCEPT ![c] = IF said = "sms" THEN on ELSE off]
  BY DEF ReadsAnswer, WorkerInv, RunnersTyped
<1> HIDE DEF read
<1>5. ~Asking(old) /\ ~Over(old)
  BY <1>1 DEF Asking, Over
<1>6. CASE said = "sms"
  <2>1. on \in Drivers /\ on.state = "driving" /\ on.inbox = Tail(old.inbox) /\ on.outbox = old.outbox
    BY <1>3 DEF Drivers
  <2> HIDE DEF on
  <2>2. ~Told(old)
    BY <1>6, OfOne DEF Told
  <2>3. Working(old) => Working(on)
    BY <1>1, <2>1, OfOne DEF Working
  <2> QED
    BY <1>1, <1>4, <1>5, <1>6, <2>1, <2>2, <2>3, DriverKeeps
<1>7. CASE said # "sms"
  <2>1. /\ off \in Drivers /\ off.state = "leaving"
        /\ read.outbox = <<>> => off.outbox = <<"error">>
    <3>1. more \in Seq(Events) /\ (read.outbox = <<>> => more = <<"error">>)
      BY <1>3, PutOutbox DEF Events
    <3> HIDE DEF more
    <3> QED
      BY <1>3, <3>1 DEF Drivers
  <2> HIDE DEF off
  <2>2. ~Working(old)
    BY <1>1, <1>7, OfOne DEF Working
  <2>3. Told(old) => Over(off)
    BY <1>3, <2>1 DEF Told, Over
  <2> QED
    BY <1>1, <1>4, <1>5, <1>7, <2>1, <2>2, <2>3, DriverKeeps
<1> QED
  BY <1>6, <1>7

LEMMA StopsKeeps ==
    ASSUME WorkerInv, NEW c \in Connectors, Stops(c), UNCHANGED <<pending, hands, replaced, runnerAsked>>
    PROVE  WorkerInv'
<1> DEFINE old == drivers[c]
           d == [old EXCEPT !.state = "gone"]
<1>1. /\ old \in Drivers /\ drivers' = [drivers EXCEPT ![c] = d]
      /\ old.state \in {"driving", "leaving"}
  BY DEF WorkerInv, RunnersTyped, Stops
<1>2. d \in Drivers /\ d.state = "gone" /\ d.outbox = old.outbox
  BY <1>1 DEF Drivers
<1> HIDE DEF d
<1>3. ~Asking(old) /\ ~Told(old)
  BY <1>1 DEF Asking, Told
<1>4. (Working(old) => Over(d)) /\ (Over(old) => Over(d))
  BY <1>1, <1>2 DEF Working, Over
<1> QED
  BY <1>1, <1>2, <1>3, <1>4, DriverKeeps

-----------------------------------------------------------------------------
LEMMA NextWorker == WorkerInv /\ [RunnerNext]_runnerVars => WorkerInv'
<1> SUFFICES ASSUME WorkerInv, [RunnerNext]_runnerVars PROVE WorkerInv'
  OBVIOUS
<1>1. CASE StartLogin
  BY <1>1, ComesKeeps DEF StartLogin
<1>2. CASE CancelLogin
  BY <1>2, ComesKeeps DEF CancelLogin
<1>3. CASE ResumeLogin
  BY <1>3, ComesKeeps DEF ResumeLogin
<1>4. ASSUME NEW r \in hands, CloseConnector(r) PROVE WorkerInv'
  BY <1>4, CloseConnectorKeeps
<1>5. ASSUME NEW r \in hands, JoinEnds(r) PROVE WorkerInv'
  BY <1>5, JoinEndsKeeps
<1>6. ASSUME NEW r \in hands, GiveCode(r) PROVE WorkerInv'
  BY <1>6, GiveCodeKeeps
<1>7. ASSUME NEW r \in hands, NEW c \in Connectors, MakeConnector(r, c) PROVE WorkerInv'
  BY <1>7, MakeConnectorKeeps
<1>8. ASSUME NEW r \in hands, Hears(r) PROVE WorkerInv'
  BY <1>8, HearsKeeps
<1>9. ASSUME NEW r \in hands, HearsNothing(r) PROVE WorkerInv'
  BY <1>9, HearsNothingKeeps
<1>10. ASSUME NEW r \in hands, LooksAfter(r) PROVE WorkerInv'
  BY <1>10, LooksAfterKeeps
<1>11. ASSUME NEW c \in Connectors, Drives(c) PROVE WorkerInv'
  <2>0. UNCHANGED <<pending, hands, replaced, runnerAsked>>
    BY <1>11 DEF Drives
  <2>1. CASE AsksSms(c)
    BY <2>0, <2>1, ReportsKeeps DEF AsksSms, Events
  <2>2. CASE ReadsAnswer(c)
    BY <2>0, <2>2, ReadsAnswerKeeps
  <2>3. CASE Finishes(c)
    BY <2>0, <2>3, ReportsKeeps DEF Finishes, Events
  <2>4. CASE Stops(c)
    BY <2>0, <2>4, StopsKeeps
  <2> QED
    BY <1>11, <2>1, <2>2, <2>3, <2>4 DEF Drives
<1>12. CASE UNCHANGED runnerVars
  <2>1. UNCHANGED pending /\ UNCHANGED drivers /\ UNCHANGED hands
        /\ UNCHANGED replaced /\ UNCHANGED runnerAsked
    BY <1>12 DEF runnerVars
  <2> QED
    BY <2>1 DEF WorkerInv, RunnersTyped, OneHolder, Stages, HandStage, Parked, Loose
<1> QED
  BY <1>1, <1>2, <1>3, <1>4, <1>5, <1>6, <1>7, <1>8, <1>9, <1>10, <1>11, <1>12 DEF RunnerNext

\* A connector is in the hands of one, however requests overlap: of the dictionary,
\* or of a single request.  The code that is typed goes to a worker that waits for
\* it, and no worker is left waiting unless another login was parked over its own
\* (LocalRunner, TBankPlaywrightConnector), for any connectors and requests.
THEOREM HandsHeldByOne == RunnerSpec => []HandsOfOne
<1>1. WorkerInv => HandsOfOne
  <2> SUFFICES ASSUME WorkerInv PROVE HandsOfOne
    OBVIOUS
  <2> USE ConnectorWorkerAssumption DEF WorkerInv
  <2>1. ASSUME NEW c \in Connectors,
               c = pending \/ \E r \in hands : r.at = "code" /\ r.holds = c
        PROVE  Asking(drivers[c])
    <3>1. CASE c = pending
      BY <3>1 DEF Parked
    <3>2. ASSUME NEW r \in hands, r.at = "code", r.holds = c PROVE Asking(drivers[c])
      BY <3>2 DEF Stages, HandStage, DriverFits
    <3> QED
      BY <2>1, <3>1, <3>2
  <2>2. ASSUME NEW c \in Connectors PROVE Len(drivers[c].outbox) <= 1
    <3>1. Asking(drivers[c]) \/ Told(drivers[c]) \/ Over(drivers[c]) \/ Working(drivers[c])
          \/ drivers[c] = Driver("unmade")
      <4>1. CASE c = pending
        BY <4>1 DEF Parked
      <4>2. CASE Loose(c)
        BY <4>2 DEF Loose
      <4>3. ASSUME NEW r \in hands, r.holds = c
            PROVE  \/ Asking(drivers[c]) \/ Told(drivers[c])
                   \/ Over(drivers[c]) \/ Working(drivers[c])
        <5>1. r \in Hands /\ r.at # "make"
          BY <4>3 DEF RunnersTyped, Stages, HandStage
        <5> QED
          BY <4>3, <5>1 DEF Stages, HandStage, DriverFits, Hands
      <4> QED
        BY <4>1, <4>2, <4>3 DEF Parked
    <3> QED
      <4>1. Driver("unmade").outbox = <<>>
        BY DEF Driver
      <4>2. \/ drivers[c].outbox = <<>> \/ drivers[c].outbox = <<"result">>
            \/ drivers[c].outbox = <<"error">> \/ drivers[c].outbox = <<"sms_required">>
        <5>1. CASE drivers[c] = Driver("unmade")
          BY <4>1, <5>1
        <5>2. CASE Asking(drivers[c])
          BY <5>2 DEF Asking
        <5>3. CASE Told(drivers[c])
          BY <5>3 DEF Told
        <5>4. CASE Over(drivers[c])
          BY <5>4 DEF Over
        <5>5. CASE Working(drivers[c])
          BY <5>5 DEF Working
        <5> QED
          BY <3>1, <5>1, <5>2, <5>3, <5>4, <5>5
      <4>3. Len(<<>>) = 0 /\ Len(<<"result">>) = 1 /\ Len(<<"error">>) = 1 /\ Len(<<"sms_required">>) = 1
        OBVIOUS
      <4> QED
        <5>1. \A s : s = <<>> \/ s = <<"result">> \/ s = <<"error">> \/ s = <<"sms_required">> => Len(s) <= 1
          BY <4>3
        <5> QED
          BY <4>2, <5>1
  <2>3. ASSUME NEW c \in Connectors, AsksForCode(c) PROVE UnderWay(c) \/ c \in replaced
    BY <2>3 DEF AsksForCode, UnderWay, Parked, Loose, Told, Over, Driver
  <2> QED
    BY <2>1, <2>2, <2>3 DEF HandsOfOne, OneHolder, Asking, AsksForCode
<1>2. QED
  BY InitWorker, NextWorker, <1>1, PTL DEF RunnerSpec

-----------------------------------------------------------------------------
(* The bank page.  As long as nothing is tangled one request runs at a time, *)
(* and where it stands says what the row and the runner hold: see RunStage. *)

BankShaped == bank = [status |-> bank.status, pending |-> bank.pending,
                      link |-> bank.link, ref |-> bank.ref]

DialogShaped == bankDialog # None =>
    bankDialog = [account |-> bankDialog.account, number |-> bankDialog.number,
                  field |-> bankDialog.field, busy |-> bankDialog.busy,
                  step |-> bankDialog.step, conn |-> bankDialog.conn]

Functions == {"connect", "sync", "sms", "save", "syncNow", "unlink", "disconnect", "cancel"}

RunShaped(r) ==
    r.fn \in Functions /\ r = [fn |-> r.fn, at |-> r.at, asked |-> r.asked, number |-> r.number, account |-> r.account,
         field |-> r.field, todo |-> r.todo, pull |-> r.pull, on |-> r.on]

Shapes == BankShaped /\ DialogShaped /\ \A r \in runs : RunShaped(r)

OnSms == bankDialog # None /\ bankDialog.step = "sms"

\* The row says that a code is awaited exactly while a pull is parked.
Quiet ==
    /\ bank.status = "awaiting_sms" <=> parked # {}
    /\ \A pull \in parked : bank.pending = pull.account

Short == {"create", "link", "save", "unlink", "delete", "cancel", "sync", "sms"}

RunStage(r) ==
    /\ r.at \in Short => Quiet
    /\ r.at = "create" => bank.status = None
    /\ r.at = "next" => bank.status # None /\ (r.todo = <<>> => parked = {})
    /\ r.at = "pulling" => bank.status # None /\ parked = {}
    /\ r.at = "parking" => bank.status # None /\ parked = {r.pull}
    /\ r.at = "resumed" =>
          bank.status = "awaiting_sms" /\ parked = {} /\ bank.pending = r.pull.account
    /\ r.at = "asks" => Quiet /\ parked # {}
    /\ r.at = "done" => Quiet

\* One request at a time, and none while the dialog waits for the code.
Orderly ==
    /\ \A r, s \in runs : r = s
    /\ \A r \in runs : RunStage(r) /\ ~OnSms
    /\ runs = {} => Quiet /\ (OnSms => parked # {})

BankInv == Shapes /\ (~tangled => Orderly)

-----------------------------------------------------------------------------
LEMMA InitBank == BankInit => BankInv
BY BankAssumption DEF BankInit, BankInv, Shapes, BankShaped, DialogShaped, Orderly, Quiet, OnSms

\* What the user does while nothing is asked of the server.
LEMMA DialogKeeps ==
    ASSUME BankInv, UNCHANGED <<bank, parked, runs, tangled>>, DialogShaped', OnSms' => OnSms
    PROVE  BankInv'
BY DEF BankInv, Shapes, BankShaped, RunShaped, Orderly, RunStage, Quiet

\* A request begins.
LEMMA BeginsKeeps ==
    ASSUME BankInv, NEW fn \in Functions, NEW at \in Short, Begins(fn, at), DialogShaped', ~OnSms',
           at = "create" => bank.status = None
    PROVE  BankInv'
<1>1. UNCHANGED <<bank, parked>> /\ tangled' = (tangled \/ runs # {})
  BY DEF Begins
<1>2. PICK new : runs' = runs \cup {new} /\ RunShaped(new) /\ new.at = at
  <2> DEFINE n == [fn |-> fn, at |-> at, asked |-> bankAsked, number |-> bankDialog.number,
                   account |-> bankDialog.account, field |-> bankDialog.field,
                   todo |-> <<>>, pull |-> None, on |-> None]
  <2>1. runs' = runs \cup {n}
    BY DEF Begins
  <2>2. RunShaped(n) /\ n.at = at
    BY DEF RunShaped
  <2> QED
    BY <2>1, <2>2
<1>3. Shapes'
  BY <1>1, <1>2 DEF BankInv, Shapes, BankShaped, RunShaped
<1>4. ASSUME ~tangled' PROVE Orderly'
  <2>0. ~tangled /\ runs = {}
    BY <1>1, <1>4
  <2>1. Quiet' /\ runs' = {new}
    <3>1. Quiet
      BY <2>0 DEF BankInv, Orderly
    <3> QED
      BY <1>1, <1>2, <2>0, <3>1 DEF Quiet
  <2>2. RunStage(new)'
    <3>1. new.at \in Short /\ (new.at = "create" => bank'.status = None)
      BY <1>1, <1>2
    <3> QED
      BY <2>1, <3>1 DEF RunStage, Short
  <2> QED
    BY <2>1, <2>2 DEF Orderly
<1> QED
  BY <1>3, <1>4 DEF BankInv

\* A request goes on, and becomes n.
LEMMA RunGoesOnKeeps ==
    ASSUME BankInv, NEW r \in runs, NEW n, RunShaped(n), runs' = (runs \ {r}) \cup {n},
           UNCHANGED tangled, BankShaped', DialogShaped', OnSms' => OnSms,
           Orderly => RunStage(n)'
    PROVE  BankInv'
<1>1. Shapes'
  BY DEF BankInv, Shapes, RunShaped
<1>2. ASSUME Orderly PROVE Orderly'
  <2>1. runs' = {n}
    BY <1>2 DEF Orderly
  <2> QED
    BY <1>2, <2>1 DEF Orderly
<1> QED
  BY <1>1, <1>2 DEF BankInv

\* A request ends.
LEMMA EndsKeeps ==
    ASSUME BankInv, NEW r \in runs, Ends(r), UNCHANGED tangled, BankShaped', DialogShaped',
           Orderly => Quiet' /\ (OnSms' => parked' # {})
    PROVE  BankInv'
<1>1. Shapes'
  BY DEF BankInv, Shapes, RunShaped, Ends
<1>2. ASSUME Orderly PROVE Orderly'
  <2>1. runs' = {}
    BY <1>2 DEF Orderly, Ends
  <2> QED
    BY <1>2, <2>1 DEF Orderly
<1> QED
  BY <1>1, <1>2 DEF BankInv

-----------------------------------------------------------------------------
(* The dialog and the user.                                                *)

\* An answer moves the dialog to a step, if it is still there.
LEMMA StepShown ==
    ASSUME BankInv, NEW r, NEW step, ToStep(r, step)
    PROVE  DialogShaped' /\ (OnSms' => OnSms \/ step = "sms")
<1>1. CASE Mine(r)
  <2>1. bankDialog # None /\ bankDialog' = [bankDialog EXCEPT !.step = step, !.busy = FALSE]
    BY <1>1 DEF ToStep, Mine
  <2> QED
    BY <2>1 DEF BankInv, Shapes, DialogShaped, OnSms
<1>2. CASE ~Mine(r)
  BY <1>2 DEF ToStep, BankInv, Shapes, DialogShaped, OnSms
<1> QED
  BY <1>1, <1>2

LEMMA UserKeeps == BankInv /\ BankUser => BankInv'
<1> SUFFICES ASSUME BankInv, BankUser PROVE BankInv'
  OBVIOUS
<1>1. DialogShaped /\ BankShaped
  BY DEF BankInv, Shapes
<1>2. ASSUME NEW a \in BankAccounts, OpenBank(a) PROVE BankInv'
  <2>1. DialogShaped' /\ ~OnSms' /\ UNCHANGED <<bank, parked, runs, tangled>>
    BY <1>2 DEF OpenBank, DialogShaped, OnSms
  <2> QED
    BY <2>1, DialogKeeps
<1>3. ASSUME NEW a \in BankAccounts, RelinkElsewhere(a) PROVE BankInv'
  <2>1. /\ bank' = [bank EXCEPT !.link = IF a \in @ THEN @ \ {a} ELSE @ \cup {a}]
        /\ tangled' = (tangled \/ runs # {} \/ parked # {} \/ bankDialog # None)
        /\ parked' = parked /\ bankDialog' = bankDialog /\ runs' = runs
    BY <1>3 DEF RelinkElsewhere
  <2>2. BankShaped' /\ bank'.status = bank.status
    BY <1>1, <2>1 DEF BankShaped
  <2>3. Shapes'
    BY <2>1, <2>2 DEF BankInv, Shapes, DialogShaped, RunShaped
  <2>4. ~tangled' => Orderly'
    BY <2>1, <2>2 DEF BankInv, Orderly, Quiet, OnSms
  <2> QED
    BY <2>3, <2>4 DEF BankInv
<1>4. ASSUME NEW ref \in BankRefs \cup {None}, TypeRef(ref) PROVE BankInv'
  <2>1. DialogShaped' /\ ~OnSms' /\ UNCHANGED <<bank, parked, runs, tangled>>
    BY <1>1, <1>4 DEF TypeRef, DialogShaped, OnSms
  <2> QED
    BY <2>1, DialogKeeps
<1>5. CASE Connect
  <2>1. DialogShaped' /\ ~OnSms'
    BY <1>1, <1>5 DEF Connect, OnStep, Busy, DialogShaped, OnSms
  <2> QED
    BY <1>5, <2>1, BeginsKeeps DEF Functions, Connect, Short
<1>6. CASE SyncNow
  <2>1. DialogShaped' /\ ~OnSms'
    BY <1>1, <1>6 DEF SyncNow, OnStep, Busy, Syncing, DialogShaped, OnSms
  <2> QED
    BY <1>6, <2>1, BeginsKeeps DEF Functions, SyncNow, Short
<1>7. CASE SaveRef
  <2>1. DialogShaped' /\ ~OnSms'
    BY <1>1, <1>7 DEF SaveRef, OnStep, Busy, DialogShaped, OnSms
  <2> QED
    BY <1>7, <2>1, BeginsKeeps DEF Functions, SaveRef, Short
<1>8. CASE Unlink
  <2>1. DialogShaped' /\ ~OnSms'
    BY <1>1, <1>8 DEF Unlink, OnStep, Busy, DialogShaped, OnSms
  <2> QED
    BY <1>8, <2>1, BeginsKeeps DEF Functions, Unlink, Short
<1>9. CASE Disconnect
  <2>1. DialogShaped' /\ ~OnSms'
    BY <1>1, <1>9 DEF Disconnect, OnStep, Busy, DialogShaped, OnSms
  <2> QED
    BY <1>9, <2>1, BeginsKeeps DEF Functions, Disconnect, Short
<1>10. CASE ConfirmSms
  <2>1. DialogShaped' /\ ~OnSms'
    BY <1>1, <1>10 DEF ConfirmSms, OnStep, Syncing, DialogShaped, OnSms
  <2> QED
    BY <1>10, <2>1, BeginsKeeps DEF Functions, ConfirmSms, Short
<1>11. CASE Retry
  <2>1. bankDialog # None /\ bankDialog.step = "error"
    BY <1>11 DEF Retry, OnStep
  <2>2. CASE bankDialog.conn
    <3>1. Begins("sync", "sync") /\ DialogShaped' /\ ~OnSms'
      BY <1>1, <1>11, <2>1, <2>2 DEF Retry, Syncing, DialogShaped, OnSms
    <3> QED
      BY <3>1, BeginsKeeps DEF Functions, Short
  <2>3. CASE ~bankDialog.conn
    <3>1. DialogShaped' /\ ~OnSms' /\ UNCHANGED <<bank, parked, runs, tangled>>
      BY <1>1, <1>11, <2>1, <2>3 DEF Retry, DialogShaped, OnSms
    <3> QED
      BY <3>1, DialogKeeps
  <2> QED
    BY <2>2, <2>3
<1>12. CASE CloseBank
  <2>1. DialogShaped' /\ ~OnSms'
    BY <1>12 DEF CloseBank, DialogShaped, OnSms
  <2>2. CASE bankDialog.step = "sms"
    BY <1>12, <2>1, <2>2, BeginsKeeps DEF Functions, CloseBank, Short
  <2>3. CASE bankDialog.step # "sms"
    BY <1>12, <2>1, <2>3, DialogKeeps DEF CloseBank
  <2> QED
    BY <2>2, <2>3
<1>13. CASE Gone
  <2>1. DialogShaped' /\ ~OnSms' /\ UNCHANGED <<bank, parked, runs, tangled>>
    BY <1>13 DEF Gone, DialogShaped, OnSms
  <2> QED
    BY <2>1, DialogKeeps
<1> QED
  BY <1>2, <1>3, <1>4, <1>5, <1>6, <1>7, <1>8, <1>9, <1>10, <1>11, <1>12, <1>13 DEF BankUser

-----------------------------------------------------------------------------
(* The server.                                                             *)

\* A request goes on with what it carries ...
LEMMA GoesToKeeps ==
    ASSUME BankInv, NEW r \in runs, NEW at, GoesTo(r, at),
           UNCHANGED tangled, BankShaped', DialogShaped', OnSms' => OnSms,
           Orderly => \A n : n.at = at /\ n.pull = r.pull /\ n.todo = r.todo => RunStage(n)'
    PROVE  BankInv'
<1>1. RunShaped(r)
  BY DEF BankInv, Shapes
<1>2. PICK n : /\ runs' = (runs \ {r}) \cup {n} /\ RunShaped(n)
               /\ n.at = at /\ n.pull = r.pull /\ n.todo = r.todo
  <2> DEFINE n == [r EXCEPT !.at = at]
  <2>1. runs' = (runs \ {r}) \cup {n}
    BY DEF GoesTo
  <2>2. RunShaped(n) /\ n.at = at /\ n.pull = r.pull /\ n.todo = r.todo
    BY <1>1 DEF RunShaped
  <2> QED
    BY <2>1, <2>2
<1> QED
  BY <1>2, RunGoesOnKeeps

\* Requests like r, but for what is given.
RunLike(r, at, todo, pull, on) ==
    [fn : Functions, at : {r.at, at}, asked : {r.asked}, number : {r.number},
     account : {r.account}, field : {r.field}, todo : {r.todo, todo},
     pull : {r.pull, pull}, on : {r.on, on}]

\* ... or with other pulls to make.
LEMMA PullsKeeps ==
    ASSUME BankInv, NEW r \in runs, NEW at, NEW todo, NEW pull, Pulls(r, at, todo, pull),
           UNCHANGED tangled, BankShaped', DialogShaped', OnSms' => OnSms,
           Orderly => \A n : n.at = at /\ n.todo = todo => RunStage(n)'
    PROVE  BankInv'
<1>1. RunShaped(r)
  BY DEF BankInv, Shapes
<1>2. PICK n : /\ runs' = (runs \ {r}) \cup {n} /\ RunShaped(n)
               /\ n.at = at /\ n.todo = todo
  <2> DEFINE n == [r EXCEPT !.at = at, !.todo = todo, !.pull = pull]
  <2>1. /\ runs' = (runs \ {r}) \cup {n}
        /\ n = [r EXCEPT !.at = at, !.todo = todo, !.pull = pull]
    BY DEF Pulls
  <2>2. r \in RunLike(r, at, todo, pull, r.on)
    BY <1>1 DEF RunShaped, RunLike
  <2>3. n \in RunLike(r, at, todo, pull, r.on) /\ n.at = at /\ n.todo = todo
    BY <2>2 DEF RunLike
  <2> HIDE DEF n
  <2>4. RunShaped(n)
    BY <2>3 DEF RunShaped, RunLike
  <2> QED
    BY <2>1, <2>3, <2>4
<1> QED
  BY <1>2, RunGoesOnKeeps

\* Where a request stands, and what that says.
LEMMA Standing ==
    ASSUME Orderly, NEW r \in runs PROVE RunStage(r) /\ ~OnSms
BY DEF Orderly

LEMMA Untouched == ASSUME BankInv, UNCHANGED <<bank, bankDialog>>
                   PROVE  BankShaped' /\ DialogShaped' /\ (OnSms' => OnSms)
BY DEF BankInv, Shapes, BankShaped, DialogShaped, OnSms

LEMMA RequestFailsKeeps ==
    ASSUME BankInv, NEW r \in runs, RequestFails(r) PROVE BankInv'
<1>1. /\ Ends(r) /\ ToStep(r, FailsAt(r)) /\ UNCHANGED <<bank, parked, tangled>> /\ r.at \in Short
  BY DEF RequestFails, Fails, serverVars, Short
<1>2. BankShaped'
  BY <1>1 DEF BankInv, Shapes, BankShaped
<1>3. ASSUME Orderly PROVE Quiet' /\ ~OnSms'
  <2>1. Quiet /\ ~OnSms
    BY <1>1, <1>3, Standing DEF RunStage
  <2>2. FailsAt(r) # "sms"
    <3>1. r.fn \in Functions
      BY DEF BankInv, Shapes, RunShaped
    <3> QED
      BY <3>1 DEF FailsAt, Functions
  <2> QED
    BY <1>1, <2>1, <2>2, StepShown DEF Quiet
<1> QED
  BY <1>1, <1>2, <1>3, StepShown, EndsKeeps

LEMMA CreateConnectionKeeps ==
    ASSUME BankInv, NEW r \in runs, CreateConnection(r) PROVE BankInv'
<1>1. /\ r.at = "create" /\ bank' = [bank EXCEPT !.status = "disconnected"] /\ parked' = parked
      /\ GoesTo(r, "link") /\ UNCHANGED tangled
      /\ bankDialog' = IF Mine(r) THEN [bankDialog EXCEPT !.conn = TRUE] ELSE bankDialog
  BY DEF CreateConnection
<1>2. BankShaped' /\ bank'.status = "disconnected"
  BY <1>1 DEF BankInv, Shapes, BankShaped
<1>3. DialogShaped' /\ (OnSms' => OnSms)
  BY <1>1 DEF BankInv, Shapes, DialogShaped, OnSms, Mine
<1>4. ASSUME Orderly, NEW n, n.at = "link" PROVE RunStage(n)'
  <2>1. parked' = {}
    BY <1>1, <1>4, Standing, BankAssumption DEF RunStage, Quiet, Short
  <2> QED
    BY <1>2, <1>4, <2>1 DEF RunStage, Quiet, Short
<1> QED
  BY <1>1, <1>2, <1>3, <1>4, GoesToKeeps

\* The row keeps its status.
LEMMA SameStatus ==
    ASSUME Quiet, parked' = parked, bank'.status = bank.status, bank'.pending = bank.pending
    PROVE  Quiet'
BY DEF Quiet

LEMMA LinkAccountKeeps ==
    ASSUME BankInv, NEW r \in runs, LinkAccount(r) PROVE BankInv'
<1>1. /\ r.at = "link" /\ parked' = parked /\ GoesTo(r, "sync") /\ UNCHANGED tangled
      /\ bank' = [bank EXCEPT !.link = @ \cup {r.account}, !.ref[r.account] = r.field]
      /\ bankDialog' = IF Mine(r) THEN [bankDialog EXCEPT !.step = "syncing"] ELSE bankDialog
  BY DEF LinkAccount
<1>2. BankShaped' /\ bank'.status = bank.status /\ bank'.pending = bank.pending
  BY <1>1 DEF BankInv, Shapes, BankShaped
<1>3. DialogShaped' /\ (OnSms' => OnSms)
  BY <1>1 DEF BankInv, Shapes, DialogShaped, OnSms, Mine
<1>4. ASSUME Orderly, NEW n, n.at = "sync" PROVE RunStage(n)'
  <2>1. Quiet'
    BY <1>1, <1>2, <1>4, Standing, SameStatus DEF RunStage, Short
  <2> QED
    BY <1>4, <2>1 DEF RunStage, Short
<1> QED
  BY <1>1, <1>2, <1>3, <1>4, GoesToKeeps

LEMMA SaveReferenceKeeps ==
    ASSUME BankInv, NEW r \in runs, SaveReference(r) PROVE BankInv'
<1>1. /\ r.at = "save" /\ parked' = parked /\ UNCHANGED tangled
      /\ bank' = [bank EXCEPT !.ref[r.account] = r.field]
  BY DEF SaveReference
<1>2. BankShaped' /\ bank'.status = bank.status /\ bank'.pending = bank.pending
  BY <1>1 DEF BankInv, Shapes, BankShaped
<1>3. Orderly => Quiet' /\ ~OnSms
  BY <1>1, <1>2, Standing, SameStatus DEF RunStage, Short
<1>4. CASE r.fn = "syncNow"
  <2>1. /\ bankDialog' = IF Mine(r) THEN [bankDialog EXCEPT !.step = "syncing"] ELSE bankDialog
        /\ GoesTo(r, "sync")
    BY <1>4 DEF SaveReference
  <2>2. DialogShaped' /\ (OnSms' => OnSms)
    BY <2>1 DEF BankInv, Shapes, DialogShaped, OnSms, Mine
  <2>3. ASSUME Orderly, NEW n, n.at = "sync" PROVE RunStage(n)'
    BY <1>3, <2>3 DEF RunStage, Short
  <2> QED
    BY <1>1, <1>2, <2>1, <2>2, <2>3, GoesToKeeps
<1>5. CASE r.fn # "syncNow"
  <2>1. Ends(r) /\ ToStep(r, "ready")
    BY <1>5 DEF SaveReference
  <2> QED
    BY <1>1, <1>2, <1>3, <2>1, StepShown, EndsKeeps
<1> QED
  BY <1>4, <1>5

LEMMA UnlinkAccountKeeps ==
    ASSUME BankInv, NEW r \in runs, UnlinkAccount(r) PROVE BankInv'
<1>1. /\ r.at = "unlink" /\ parked' = parked /\ UNCHANGED tangled /\ Ends(r) /\ bankDialog' = None
      /\ bank' = [bank EXCEPT !.link = @ \ {r.account}]
  BY DEF UnlinkAccount
<1>2. BankShaped' /\ bank'.status = bank.status /\ bank'.pending = bank.pending
  BY <1>1 DEF BankInv, Shapes, BankShaped
<1>3. Orderly => Quiet'
  BY <1>1, <1>2, Standing, SameStatus DEF RunStage, Short
<1>4. DialogShaped' /\ ~OnSms'
  BY <1>1 DEF DialogShaped, OnSms
<1> QED
  BY <1>1, <1>2, <1>3, <1>4, EndsKeeps

LEMMA DeleteConnectionKeeps ==
    ASSUME BankInv, NEW r \in runs, DeleteConnection(r) PROVE BankInv'
<1>1. /\ parked' = {} /\ UNCHANGED tangled /\ Ends(r) /\ bankDialog' = None
      /\ bank' = [bank EXCEPT !.status = None, !.pending = None, !.link = {}]
  BY DEF DeleteConnection, NoLogin
<1>2. BankShaped' /\ bank'.status = None
  BY <1>1 DEF BankInv, Shapes, BankShaped
<1>3. Quiet' /\ DialogShaped' /\ ~OnSms'
  BY <1>1, <1>2, BankAssumption DEF Quiet, DialogShaped, OnSms
<1> QED
  BY <1>1, <1>2, <1>3, EndsKeeps

LEMMA CancelSyncKeeps ==
    ASSUME BankInv, NEW r \in runs, CancelSync(r) PROVE BankInv'
<1>1. /\ r.at = "cancel" /\ parked' = {} /\ UNCHANGED <<bankDialog, tangled>> /\ Ends(r)
      /\ bank' = IF bank.status = "awaiting_sms"
                 THEN [bank EXCEPT !.status = "disconnected", !.pending = None] ELSE bank
  BY DEF CancelSync
<1>2. BankShaped' /\ bank'.status # "awaiting_sms"
  BY <1>1 DEF BankInv, Shapes, BankShaped
<1>3. DialogShaped' /\ (OnSms' => OnSms)
  BY <1>1 DEF BankInv, Shapes, DialogShaped, OnSms
<1>4. Quiet' /\ (Orderly => ~OnSms)
  BY <1>1, <1>2, Standing DEF Quiet
<1> QED
  BY <1>1, <1>2, <1>3, <1>4, EndsKeeps

\* The row of a login that is there changes its status.
LEMMA StatusSet ==
    ASSUME BankShaped, NEW status, NEW account,
           bank' = IF bank.status = None THEN bank
                   ELSE [bank EXCEPT !.status = status, !.pending = account]
    PROVE  /\ BankShaped'
           /\ bank'.status = IF bank.status = None THEN None ELSE status
           /\ bank.status # None => bank'.pending = account
BY DEF BankShaped

LEMMA SyncConnectionKeeps ==
    ASSUME BankInv, NEW r \in runs, SyncConnection(r) PROVE BankInv'
<1> DEFINE accounts == LinkedAccounts(bank)
<1>1. /\ bank.status # None /\ accounts # <<>> /\ Pulls(r, "next", accounts, None)
      /\ UNCHANGED <<bank, parked, bankDialog, tangled>>
  BY DEF SyncConnection
<1>2. PICK todo : todo = accounts
  OBVIOUS
<1> HIDE DEF accounts
<1>3. ASSUME Orderly, NEW n, n.at = "next", n.todo = todo PROVE RunStage(n)'
  BY <1>1, <1>2, <1>3 DEF RunStage, Short
<1> QED
  BY <1>1, <1>2, <1>3, Untouched, PullsKeeps

LEMMA StartPullKeeps ==
    ASSUME BankInv, NEW r \in runs, StartPull(r) PROVE BankInv'
<1>1. /\ r.at = "next" /\ parked' = {} /\ Pulls(r, "pulling", Tail(r.todo), Head(r.todo))
      /\ UNCHANGED <<bank, bankDialog, tangled>>
  BY DEF StartPull
<1>2. ASSUME Orderly, NEW n, n.at = "pulling" PROVE RunStage(n)'
  <2>1. bank.status # None
    BY <1>1, <1>2, Standing DEF RunStage
  <2> QED
    BY <1>1, <1>2, <2>1 DEF RunStage, Short
<1> QED
  BY <1>1, <1>2, Untouched, PullsKeeps

\* The rows of a pull land, and nothing is parked.
LEMMA LandsKeeps ==
    ASSUME BankInv, NEW r \in runs, r.at \in {"pulling", "resumed"}, NEW on, NEW todo, Lands(r, on, todo)
    PROVE  BankInv'
<1>1. bank.status # None /\ Pulls(r, "next", todo, None) /\ UNCHANGED <<bank, parked, bankDialog, tangled>>
  BY DEF Lands
<1>2. ASSUME Orderly, NEW n, n.at = "next" PROVE RunStage(n)'
  <2>1. parked = {}
    BY <1>2, Standing DEF RunStage
  <2> QED
    BY <1>1, <1>2, <2>1 DEF RunStage, Short
<1> QED
  BY <1>1, <1>2, Untouched, PullsKeeps

LEMMA PullParksKeeps ==
    ASSUME BankInv, NEW r \in runs, PullParks(r) PROVE BankInv'
<1>1. /\ r.at = "pulling" /\ parked' = {r.pull} /\ GoesTo(r, "parking")
      /\ UNCHANGED <<bank, bankDialog, tangled>>
  BY DEF PullParks
<1>2. ASSUME Orderly, NEW n, n.at = "parking", n.pull = r.pull PROVE RunStage(n)'
  <2>1. bank.status # None
    BY <1>1, <1>2, Standing DEF RunStage
  <2> QED
    BY <1>1, <1>2, <2>1 DEF RunStage, Short
<1> QED
  BY <1>1, <1>2, Untouched, GoesToKeeps

LEMMA SaysAwaitingKeeps ==
    ASSUME BankInv, NEW r \in runs, SaysAwaiting(r) PROVE BankInv'
<1>1. /\ r.at = "parking" /\ GoesTo(r, "asks") /\ UNCHANGED <<parked, bankDialog, tangled>>
      /\ bank' = IF bank.status = None THEN bank
                 ELSE [bank EXCEPT !.status = "awaiting_sms", !.pending = r.pull.account]
  BY DEF SaysAwaiting
<1>2. /\ BankShaped'
      /\ bank'.status = IF bank.status = None THEN None ELSE "awaiting_sms"
      /\ bank.status # None => bank'.pending = r.pull.account
  BY <1>1, StatusSet DEF BankInv, Shapes
<1>3. DialogShaped' /\ (OnSms' => OnSms)
  BY <1>1 DEF BankInv, Shapes, DialogShaped, OnSms
<1>4. ASSUME Orderly, NEW n, n.at = "asks" PROVE RunStage(n)'
  <2>1. bank.status # None /\ parked = {r.pull}
    BY <1>1, <1>4, Standing DEF RunStage
  <2>2. Quiet' /\ parked' # {}
    BY <1>1, <1>2, <2>1 DEF Quiet
  <2> QED
    BY <1>4, <2>2 DEF RunStage, Short
<1> QED
  BY <1>1, <1>2, <1>3, <1>4, GoesToKeeps

LEMMA PullFailsKeeps ==
    ASSUME BankInv, NEW r \in runs, PullFails(r) PROVE BankInv'
<1>1. /\ r.at \in {"pulling", "resumed"} /\ Ends(r) /\ ToStep(r, FailsAt(r)) /\ UNCHANGED <<parked, tangled>>
      /\ bank' = IF bank.status = None THEN bank ELSE [bank EXCEPT !.status = "error", !.pending = None]
  BY DEF PullFails, Fails
<1>2. BankShaped' /\ bank'.status = IF bank.status = None THEN None ELSE "error"
  BY <1>1, StatusSet DEF BankInv, Shapes
<1>3. ASSUME Orderly PROVE Quiet' /\ ~OnSms'
  <2>1. parked' = {} /\ ~OnSms
    BY <1>1, <1>3, Standing DEF RunStage
  <2>2. FailsAt(r) # "sms"
    <3>1. r.fn \in Functions
      BY DEF BankInv, Shapes, RunShaped
    <3> QED
      BY <3>1 DEF FailsAt, Functions
  <2> QED
    BY <1>1, <1>2, <2>1, <2>2, StepShown, BankAssumption DEF Quiet
<1> QED
  BY <1>1, <1>2, <1>3, StepShown, EndsKeeps

LEMMA SubmitSmsKeeps ==
    ASSUME BankInv, NEW r \in runs, SubmitSms(r) PROVE BankInv'
<1>1. /\ r.at = "sms" /\ parked' = {} /\ UNCHANGED <<bank, bankDialog, tangled>>
  BY DEF SubmitSms
<1>2. PICK pull, todo, on : pull \in parked /\
         runs' = (runs \ {r}) \cup {[r EXCEPT !.at = "resumed", !.todo = todo, !.pull = pull, !.on = on]}
  BY DEF SubmitSms
<1>3. PICK n : runs' = (runs \ {r}) \cup {n} /\ RunShaped(n) /\ n.at = "resumed" /\ n.pull = pull
  <2> DEFINE n == [r EXCEPT !.at = "resumed", !.todo = todo, !.pull = pull, !.on = on]
  <2>1. /\ RunShaped(r) /\ runs' = (runs \ {r}) \cup {n}
        /\ n = [r EXCEPT !.at = "resumed", !.todo = todo, !.pull = pull, !.on = on]
    BY <1>2 DEF BankInv, Shapes
  <2>2. r \in RunLike(r, "resumed", todo, pull, on)
    BY <2>1 DEF RunShaped, RunLike
  <2>3. n \in RunLike(r, "resumed", todo, pull, on) /\ n.at = "resumed" /\ n.pull = pull
    BY <2>2 DEF RunLike
  <2> HIDE DEF n
  <2>4. RunShaped(n)
    BY <2>3 DEF RunShaped, RunLike
  <2> QED
    BY <2>1, <2>3, <2>4
<1>4. ASSUME Orderly PROVE RunStage(n)'
  <2>1. bank.status = "awaiting_sms" /\ bank.pending = pull.account
    BY <1>1, <1>2, <1>4, Standing DEF RunStage, Short, Quiet
  <2> QED
    BY <1>1, <1>3, <2>1 DEF RunStage, Short
<1> QED
  BY <1>1, <1>3, <1>4, Untouched, RunGoesOnKeeps

LEMMA CodeRejectedKeeps ==
    ASSUME BankInv, NEW r \in runs, CodeRejected(r) PROVE BankInv'
<1>1. /\ r.at = "resumed" /\ parked' = {r.pull} /\ GoesTo(r, "asks")
      /\ UNCHANGED <<bank, bankDialog, tangled>>
  BY DEF CodeRejected
<1>2. ASSUME Orderly, NEW n, n.at = "asks" PROVE RunStage(n)'
  <2>1. bank.status = "awaiting_sms" /\ bank.pending = r.pull.account
    BY <1>1, <1>2, Standing DEF RunStage
  <2>2. Quiet' /\ parked' # {}
    BY <1>1, <2>1 DEF Quiet
  <2> QED
    BY <1>2, <2>2 DEF RunStage, Short
<1> QED
  BY <1>1, <1>2, Untouched, GoesToKeeps

LEMMA MarkConnectedKeeps ==
    ASSUME BankInv, NEW r \in runs, MarkConnected(r) PROVE BankInv'
<1>1. /\ r.at = "next" /\ r.todo = <<>> /\ GoesTo(r, "done") /\ UNCHANGED <<parked, bankDialog, tangled>>
      /\ bank' = IF bank.status = None THEN bank
                 ELSE [bank EXCEPT !.status = "connected", !.pending = None]
  BY DEF MarkConnected
<1>2. BankShaped' /\ bank'.status = IF bank.status = None THEN None ELSE "connected"
  BY <1>1, StatusSet DEF BankInv, Shapes
<1>3. DialogShaped' /\ (OnSms' => OnSms)
  BY <1>1 DEF BankInv, Shapes, DialogShaped, OnSms
<1>4. ASSUME Orderly, NEW n, n.at = "done" PROVE RunStage(n)'
  <2>1. parked' = {}
    BY <1>1, <1>4, Standing DEF RunStage
  <2>2. Quiet'
    BY <1>2, <2>1, BankAssumption DEF Quiet
  <2> QED
    BY <1>4, <2>2 DEF RunStage, Short
<1> QED
  BY <1>1, <1>2, <1>3, <1>4, GoesToKeeps

LEMMA LoginAnswersKeeps ==
    ASSUME BankInv, NEW r \in runs, LoginAnswers(r) PROVE BankInv'
<1>1. /\ r.at \in {"asks", "done"} /\ Ends(r) /\ UNCHANGED <<bank, parked, tangled>>
      /\ ToStep(r, IF r.at = "asks" THEN "sms" ELSE "done")
  BY DEF LoginAnswers
<1>2. BankShaped'
  BY <1>1 DEF BankInv, Shapes, BankShaped
<1>3. ASSUME Orderly PROVE Quiet' /\ (OnSms' => parked' # {})
  <2>1. Quiet' /\ ~OnSms /\ (r.at = "asks" => parked' # {})
    BY <1>1, <1>3, Standing DEF RunStage, Quiet
  <2>2. OnSms' => r.at = "asks"
    BY <1>1, <2>1, StepShown
  <2> QED
    BY <2>1, <2>2
<1> QED
  BY <1>1, <1>2, <1>3, StepShown, EndsKeeps

-----------------------------------------------------------------------------
LEMMA NextBank == BankInv /\ [BankNext]_bankVars => BankInv'
<1> SUFFICES ASSUME BankInv, [BankNext]_bankVars PROVE BankInv'
  OBVIOUS
<1>1. CASE BankUser
  BY <1>1, UserKeeps
<1>2. ASSUME NEW r \in runs, BankServer(r) PROVE BankInv'
  <2>1. CASE PullReturns(r)
    BY <2>1, LandsKeeps DEF PullReturns
  <2>2. CASE CodeAccepted(r)
    <3>1. PICK todo, on : r.at = "resumed" /\ Lands(r, on, todo)
      BY <2>2 DEF CodeAccepted
    <3> QED
      BY <3>1, LandsKeeps
  <2> QED
    BY <1>2, <2>1, <2>2, RequestFailsKeeps, CreateConnectionKeeps, LinkAccountKeeps,
       SaveReferenceKeeps, UnlinkAccountKeeps, DeleteConnectionKeeps, CancelSyncKeeps,
       SyncConnectionKeeps, StartPullKeeps, PullParksKeeps, SaysAwaitingKeeps, PullFailsKeeps,
       SubmitSmsKeeps, CodeRejectedKeeps, MarkConnectedKeeps, LoginAnswersKeeps DEF BankServer
<1>3. CASE UNCHANGED bankVars
  BY <1>3, DialogKeeps DEF bankVars, BankInv, Shapes, DialogShaped, OnSms
<1> QED
  BY <1>1, <1>2, <1>3 DEF BankNext

\* When nothing is under way, the row says that a code is awaited exactly while a pull
\* is parked for its account, and a dialog asks for a code only then, unless requests
\* overlapped or links changed under a login (connections.py, LocalRunner,
\* ConnectionDialog): for any accounts, references and requests.
THEOREM AwaitedIsParked == BankSpec => []WaitingIsParked
<1>1. BankInv => WaitingIsParked
  BY DEF BankInv, Orderly, Quiet, OnSms, WaitingIsParked
<1> QED
  BY InitBank, NextBank, <1>1, PTL DEF BankSpec

-----------------------------------------------------------------------------
(* What the bank page pulls.                                               *)

\* What is to be pulled, and what of it has landed.
Plan == LinkedAccounts(bank)
After(k) == SubSeq(Plan, k + 1, Len(Plan))
LandedFirst(k) == pulled = [i \in 1 .. k |-> [pull |-> Plan[i], landed |-> Landing(Plan[i].account)]]

\* The next of them waits for a code.
AwaitedNext == \E k \in 1 .. Len(Plan) : LandedFirst(k - 1) /\ parked = {Plan[k]}

PullStage(r) ==
    /\ r.at = "next" => \E k \in 0 .. Len(Plan) : LandedFirst(k) /\ r.todo = After(k)
    /\ r.at \in {"pulling", "parking"} =>
          \E k \in 1 .. Len(Plan) : LandedFirst(k - 1) /\ r.pull = Plan[k] /\ r.todo = After(k)
    /\ r.at = "resumed" =>
          \E k \in 1 .. Len(Plan) :
             LandedFirst(k - 1) /\ r.pull = Plan[k] /\ r.todo = Plan /\ r.on = Plan[k].account
    /\ r.at \in {"sms", "asks"} => AwaitedNext
    /\ r.at = "done" => LandedFirst(Len(Plan))

OnDone == bankDialog # None /\ bankDialog.step = "done"

PullsInOrder ==
    /\ \A r \in runs : PullStage(r) /\ ~OnDone
    /\ runs = {} => (OnSms => AwaitedNext) /\ (OnDone => LandedFirst(Len(Plan)))

DialogOwned == bankDialog # None => bankDialog.account \in BankAccounts

BankOwned ==
    /\ bank.link \subseteq BankAccounts
    /\ DialogOwned
    /\ \A r \in runs : r.account \in BankAccounts

PullInv == BankInv /\ BankOwned /\ (~tangled => PullsInOrder)

-----------------------------------------------------------------------------
(* The linked accounts, one by one.                                        *)

LEMMA LinkedOnce ==
    ASSUME BankOwned
    PROVE  /\ Len(Plan) = Cardinality(bank.link) /\ Len(Plan) \in Nat
           /\ Plan \in Seq({Plan[i] : i \in 1 .. Len(Plan)})
           /\ \A i \in 1 .. Len(Plan) : Plan[i].account \in bank.link
           /\ \A i, j \in 1 .. Len(Plan) : Plan[i].account = Plan[j].account => i = j
<1> DEFINE L == bank.link
           n == Cardinality(L)
           s == Ascending(L)
           e(i) == [account |-> s[i], ref |-> bank.ref[s[i]]]
<1>1. L \in SUBSET Int /\ IsFiniteSet(L)
  BY BankAssumption, FS_Subset DEF BankOwned
<1>2. /\ n \in Nat /\ DOMAIN s = 1 .. n /\ s \in Seq(L)
      /\ \A i, j \in 1 .. n : i < j => s[i] < s[j]
  BY <1>1, AscendingEach
<1>3. Plan = [i \in 1 .. n |-> e(i)] /\ \A i : e(i).account = s[i]
  BY <1>2 DEF Plan, LinkedAccounts
<1> HIDE DEF n, s, e
<1>4. \A i \in 1 .. n : Plan[i] = e(i) /\ Plan[i].account = s[i] /\ s[i] \in L
  BY <1>2, <1>3
<1>5. Plan \in Seq({Plan[i] : i \in 1 .. n}) /\ Len(Plan) = n
  BY <1>2, <1>3, <1>4
<1>6. \A i, j \in 1 .. n : s[i] = s[j] => i = j
  <2> SUFFICES ASSUME NEW i \in 1 .. n, NEW j \in 1 .. n, s[i] = s[j] PROVE i = j
    OBVIOUS
  <2>1. s[i] \in Int /\ s[j] \in Int
    BY <1>1, <1>4
  <2>2. ~(i < j) /\ ~(j < i)
    BY <1>2, <2>1
  <2> QED
    BY <1>2, <2>2
<1> QED
  BY <1>2, <1>4, <1>5, <1>6 DEF n

\* They are the same while no link and no reference changes.
LEMMA PlanStays ==
    ASSUME bank'.link = bank.link, bank'.ref = bank.ref
    PROVE  /\ Plan' = Plan /\ \A k : After(k)' = After(k)
           /\ pulled' = pulled => \A k : LandedFirst(k)' <=> LandedFirst(k)
           /\ pulled' = pulled /\ parked' = parked /\ AwaitedNext => AwaitedNext'
<1>1. Plan' = Plan
  BY DEF Plan, LinkedAccounts
<1>2. \A k : After(k)' = After(k)
  BY <1>1 DEF After
<1>3. ASSUME pulled' = pulled PROVE \A k : LandedFirst(k)' <=> LandedFirst(k)
  BY <1>1, <1>3 DEF LandedFirst
<1>4. ASSUME pulled' = pulled, parked' = parked, AwaitedNext PROVE AwaitedNext'
  <2>1. PICK k \in 1 .. Len(Plan) : LandedFirst(k - 1) /\ parked = {Plan[k]}
    BY <1>4 DEF AwaitedNext
  <2>2. k \in 1 .. Len(Plan') /\ LandedFirst(k - 1)' /\ parked' = {Plan'[k]}
    BY <1>1, <1>3, <1>4, <2>1
  <2> QED
    BY <2>2 DEF AwaitedNext
<1> QED
  BY <1>1, <1>2, <1>3, <1>4

\* None is left after the last, the rest after the first.
LEMMA AfterEach ==
    ASSUME BankOwned
    PROVE  /\ After(0) = Plan
           /\ \A k \in 0 .. Len(Plan) : (After(k) = <<>> <=> k = Len(Plan))
           /\ \A k \in 0 .. Len(Plan) - 1 : Head(After(k)) = Plan[k + 1] /\ Tail(After(k)) = After(k + 1)
<1> DEFINE S == {Plan[i] : i \in 1 .. Len(Plan)}
<1>1. Plan \in Seq(S) /\ Len(Plan) \in Nat
  BY LinkedOnce
<1> HIDE DEF S
<1>2. After(0) = Plan
  BY <1>1, SubSeqFull DEF After
<1>3. ASSUME NEW k \in 0 .. Len(Plan) PROVE After(k) = <<>> <=> k = Len(Plan)
  <2>1. k + 1 \in Int /\ Len(Plan) \in Int /\ \A i \in k + 1 .. Len(Plan) : Plan[i] \in S
    BY <1>1
  <2>2. Len(After(k)) = IF k + 1 <= Len(Plan) THEN Len(Plan) - (k + 1) + 1 ELSE 0
    BY <2>1, SubSeqProperties DEF After
  <2>3. After(k) \in Seq(S)
    BY <2>1, SubSeqProperties, ZenonT(30) DEF After
  <2>4. After(k) = <<>> <=> Len(After(k)) = 0
    BY <2>3, EmptySeq
  <2> QED
    BY <1>1, <2>2, <2>4
<1>4. ASSUME NEW k \in 0 .. Len(Plan) - 1
      PROVE  Head(After(k)) = Plan[k + 1] /\ Tail(After(k)) = After(k + 1)
  <2>1. k + 1 \in 1 .. Len(Plan) /\ Len(Plan) \in k + 1 .. Len(Plan)
    BY <1>1
  <2> QED
    BY <1>1, <2>1, HeadTailOfSubSeq DEF After
<1> QED
  BY <1>2, <1>3, <1>4

\* The accounts that remain after one of them.
LEMMA RemainingIsAfter ==
    ASSUME BankOwned, NEW k \in 1 .. Len(Plan)
    PROVE  Remaining(Plan, Plan[k].account) = After(k)
<1> DEFINE I == {i \in 1 .. Len(Plan) : Plan[i].account = Plan[k].account}
<1>1. I = {k}
  BY LinkedOnce
<1>2. Min(I) = k
  BY <1>1, LinkedOnce DEF Min
<1>3. I # {} /\ k # 0
  BY <1>1
<1>4. SelectInSeq(Plan, LAMBDA p : p.account = Plan[k].account) = IF I # {} THEN Min(I) ELSE 0
  BY DEF SelectInSeq
<1>5. SelectInSeq(Plan, LAMBDA p : p.account = Plan[k].account) = k
  BY <1>2, <1>3, <1>4
<1> QED
  BY <1>3, <1>5 DEF Remaining, After

\* One more has landed.
LEMMA LandsNext ==
    ASSUME BankOwned, NEW k \in 1 .. Len(Plan), LandedFirst(k - 1),
           pulled' = Append(pulled, [pull |-> Plan[k], landed |-> Landing(Plan[k].account)]),
           bank' = bank
    PROVE  LandedFirst(k)'
<1> DEFINE e(i) == [pull |-> Plan[i], landed |-> Landing(Plan[i].account)]
           S == {e(i) : i \in 1 .. Len(Plan)}
<1>1. Len(Plan) \in Nat /\ k \in Nat /\ k - 1 \in Nat
  BY LinkedOnce
<1>2. pulled = [i \in 1 .. k - 1 |-> e(i)] /\ pulled' = Append(pulled, e(k)) /\ e(k) \in S
  BY DEF LandedFirst
<1>3. \A i \in 1 .. k - 1 : e(i) \in S
  BY <1>1
<1> HIDE DEF e, S
<1>4. pulled \in Seq(S) /\ Len(pulled) = k - 1
  BY <1>1, <1>2, <1>3
<1>5. pulled' = [i \in 1 .. k |-> e(i)]
  BY <1>1, <1>2, <1>4
<1>6. Plan' = Plan
  BY DEF Plan, LinkedAccounts
<1> QED
  BY <1>5, <1>6 DEF LandedFirst, e

-----------------------------------------------------------------------------
(* Each step.  BankInv' is known (NextBank); in an orderly state the run     *)
(* that moves is the only one.                                               *)

\* What a run still is when it moves.
LEMMA GoesOn ==
    ASSUME NEW r, RunShaped(r), NEW at, GoesTo(r, at)
    PROVE  \E n : /\ runs' = (runs \ {r}) \cup {n} /\ n.account = r.account
                  /\ n.at = at /\ n.todo = r.todo /\ n.pull = r.pull /\ n.on = r.on
<1> DEFINE n == [r EXCEPT !.at = at]
<1>1. runs' = (runs \ {r}) \cup {n}
  BY DEF GoesTo
<1>2. n.account = r.account /\ n.at = at /\ n.todo = r.todo /\ n.pull = r.pull /\ n.on = r.on
  BY DEF RunShaped
<1> QED
  BY <1>1, <1>2

LEMMA GoesPulling ==
    ASSUME NEW r, RunShaped(r), NEW at, NEW todo, NEW pull, Pulls(r, at, todo, pull)
    PROVE  \E n : /\ runs' = (runs \ {r}) \cup {n} /\ n.account = r.account
                  /\ n.at = at /\ n.todo = todo /\ n.pull = pull
<1> DEFINE n == [r EXCEPT !.at = at, !.todo = todo, !.pull = pull]
<1>1. /\ runs' = (runs \ {r}) \cup {n}
      /\ n = [r EXCEPT !.at = at, !.todo = todo, !.pull = pull]
  BY DEF Pulls
<1>2. r \in RunLike(r, at, todo, pull, r.on)
  BY DEF RunShaped, RunLike
<1>3. /\ n \in RunLike(r, at, todo, pull, r.on)
      /\ n.at = at /\ n.todo = todo /\ n.pull = pull
  BY <1>2 DEF RunLike
<1> HIDE DEF n
<1>4. n.account = r.account
  BY <1>3 DEF RunLike
<1> QED
  BY <1>1, <1>3, <1>4

LEMMA PullsGoOn ==
    ASSUME PullInv, BankInv', NEW r \in runs, NEW n, n.account = r.account,
           runs' = (runs \ {r}) \cup {n}, UNCHANGED tangled,
           bank'.link \subseteq BankAccounts, DialogOwned', OnDone' => OnDone,
           Orderly /\ PullStage(r) => PullStage(n)'
    PROVE  PullInv'
<1>1. BankOwned'
  BY DEF PullInv, BankOwned
<1>2. ASSUME ~tangled PROVE PullsInOrder'
  <2>1. Orderly /\ PullStage(r) /\ ~OnDone /\ runs = {r}
    BY <1>2 DEF PullInv, BankInv, Orderly, PullsInOrder
  <2>2. runs' = {n} /\ PullStage(n)' /\ ~OnDone'
    BY <2>1
  <2> QED
    BY <2>2 DEF PullsInOrder
<1> QED
  BY <1>1, <1>2 DEF PullInv

LEMMA PullsEnd ==
    ASSUME PullInv, BankInv', NEW r \in runs, Ends(r), UNCHANGED tangled,
           bank'.link \subseteq BankAccounts, DialogOwned',
           Orderly /\ PullStage(r) /\ ~OnDone =>
               (OnSms' => AwaitedNext') /\ (OnDone' => LandedFirst(Len(Plan))')
    PROVE  PullInv'
<1>1. BankOwned'
  BY DEF PullInv, BankOwned, Ends
<1>2. ASSUME ~tangled PROVE PullsInOrder'
  <2>1. Orderly /\ PullStage(r) /\ ~OnDone /\ runs = {r}
    BY <1>2 DEF PullInv, BankInv, Orderly, PullsInOrder
  <2>2. runs' = {}
    BY <2>1 DEF Ends
  <2> QED
    BY <2>1, <2>2 DEF PullsInOrder
<1> QED
  BY <1>1, <1>2 DEF PullInv

\* The answer of a run moves the dialog.
LEMMA StepOwned ==
    ASSUME PullInv, NEW r, NEW step, ToStep(r, step)
    PROVE  DialogOwned' /\ (OnDone' => OnDone \/ step = "done") /\ (OnSms' => OnSms \/ step = "sms")
<1>0. DialogShaped /\ DialogOwned
  BY DEF PullInv, BankInv, Shapes, BankOwned
<1>1. CASE Mine(r)
  <2>1. bankDialog # None /\ bankDialog' = [bankDialog EXCEPT !.step = step, !.busy = FALSE]
    BY <1>1 DEF ToStep, Mine
  <2>2. bankDialog'.account = bankDialog.account /\ bankDialog'.step = step
    BY <1>0, <2>1 DEF DialogShaped
  <2> QED
    BY <1>0, <2>1, <2>2 DEF DialogOwned, OnDone, OnSms
<1>2. CASE ~Mine(r)
  BY <1>0, <1>2 DEF ToStep, DialogOwned, OnDone, OnSms
<1> QED
  BY <1>1, <1>2

\* Only the dialog changes, and not to what tells of a login.
LEMMA DialogPulls ==
    ASSUME PullInv, BankInv', UNCHANGED <<bank, parked, runs, pulled, tangled>>,
           DialogOwned', OnSms' => OnSms, OnDone' => OnDone
    PROVE  PullInv'
<1>1. BankOwned'
  BY DEF PullInv, BankOwned
<1>2. ASSUME ~tangled PROVE PullsInOrder'
  <2>1. PullsInOrder /\ runs' = runs
    BY <1>2 DEF PullInv
  <2>2. Plan' = Plan /\ (\A k : After(k)' = After(k)) /\ (\A k : LandedFirst(k)' <=> LandedFirst(k))
    BY PlanStays
  <2>3. AwaitedNext => AwaitedNext'
    BY PlanStays
  <2>4. \A r : PullStage(r) => PullStage(r)'
    BY <2>2, <2>3 DEF PullStage
  <2>5. LandedFirst(Len(Plan)) => LandedFirst(Len(Plan))'
    BY <2>2 DEF LandedFirst
  <2> QED
    BY <2>1, <2>3, <2>4, <2>5 DEF PullsInOrder
<1> QED
  BY <1>1, <1>2 DEF PullInv

\* A request begins: it is no pull yet, or it takes the code.
LEMMA BeginsPulls ==
    ASSUME PullInv, BankInv', NEW fn, NEW at \in Short, Begins(fn, at), bankDialog # None,
           DialogOwned', ~OnDone', at = "sms" => OnSms
    PROVE  PullInv'
<1>1. /\ UNCHANGED <<bank, parked, pulled>> /\ tangled' = (tangled \/ runs # {})
  BY DEF Begins
<1>2. PICK new : runs' = runs \cup {new} /\ new.at = at /\ new.account = bankDialog.account
  <2> DEFINE n == [fn |-> fn, at |-> at, asked |-> bankAsked, number |-> bankDialog.number,
                   account |-> bankDialog.account, field |-> bankDialog.field,
                   todo |-> <<>>, pull |-> None, on |-> None]
  <2>1. runs' = runs \cup {n}
    BY DEF Begins
  <2>2. n.at = at /\ n.account = bankDialog.account
    OBVIOUS
  <2> QED
    BY <2>1, <2>2
<1>3. BankOwned'
  BY <1>1, <1>2 DEF PullInv, BankOwned, DialogOwned
<1>4. ASSUME ~tangled' PROVE PullsInOrder'
  <2>1. ~tangled /\ runs' = {new}
    BY <1>1, <1>2, <1>4
  <2>2. at = "sms" => AwaitedNext'
    <3>1. at = "sms" => AwaitedNext
      BY <1>1, <1>4 DEF PullInv, PullsInOrder
    <3> QED
      BY <1>1, <3>1, PlanStays
  <2>3. PullStage(new)'
    BY <1>2, <2>2 DEF PullStage, Short
  <2> QED
    BY <2>1, <2>3 DEF PullsInOrder
<1> QED
  BY <1>3, <1>4 DEF PullInv

LEMMA UserPulls ==
    ASSUME PullInv, BankInv', BankUser PROVE PullInv'
<1>1. DialogShaped /\ BankShaped /\ DialogOwned
  BY DEF PullInv, BankInv, Shapes, BankOwned
<1>2. ASSUME NEW a \in BankAccounts, OpenBank(a) PROVE PullInv'
  <2>1. /\ DialogOwned' /\ ~OnSms' /\ ~OnDone'
        /\ UNCHANGED <<bank, parked, runs, pulled, tangled>>
    BY <1>2 DEF OpenBank, DialogOwned, OnSms, OnDone
  <2> QED
    BY <2>1, DialogPulls
<1>3. ASSUME NEW a \in BankAccounts, RelinkElsewhere(a) PROVE PullInv'
  <2>1. /\ bank' = [bank EXCEPT !.link = IF a \in @ THEN @ \ {a} ELSE @ \cup {a}]
        /\ tangled' = (tangled \/ runs # {} \/ parked # {} \/ bankDialog # None)
        /\ bankDialog' = bankDialog /\ runs' = runs
    BY <1>3 DEF RelinkElsewhere
  <2>2. bank'.link = IF a \in bank.link THEN bank.link \ {a} ELSE bank.link \cup {a}
    BY <1>1, <2>1 DEF BankShaped
  <2>3. BankOwned'
    BY <2>1, <2>2 DEF PullInv, BankOwned, DialogOwned
  <2>4. ~tangled' => PullsInOrder'
    BY <2>1 DEF PullsInOrder, OnSms, OnDone
  <2> QED
    BY <2>3, <2>4 DEF PullInv
<1>4. ASSUME NEW ref \in BankRefs \cup {None}, TypeRef(ref) PROVE PullInv'
  <2>1. /\ DialogOwned' /\ ~OnSms' /\ ~OnDone'
        /\ UNCHANGED <<bank, parked, runs, pulled, tangled>>
    BY <1>1, <1>4 DEF TypeRef, DialogShaped, DialogOwned, OnSms, OnDone
  <2> QED
    BY <2>1, DialogPulls
<1>5. CASE Connect
  <2>1. bankDialog # None /\ DialogOwned' /\ ~OnDone'
    BY <1>1, <1>5 DEF Connect, OnStep, Busy, DialogShaped, DialogOwned, OnDone
  <2> QED
    BY <1>5, <2>1, BeginsPulls DEF Connect, Short
<1>6. CASE SyncNow
  <2>1. bankDialog # None /\ DialogOwned' /\ ~OnDone'
    BY <1>1, <1>6 DEF SyncNow, OnStep, Busy, Syncing, DialogShaped, DialogOwned, OnDone
  <2> QED
    BY <1>6, <2>1, BeginsPulls DEF SyncNow, Short
<1>7. CASE SaveRef
  <2>1. bankDialog # None /\ DialogOwned' /\ ~OnDone'
    BY <1>1, <1>7 DEF SaveRef, OnStep, Busy, DialogShaped, DialogOwned, OnDone
  <2> QED
    BY <1>7, <2>1, BeginsPulls DEF SaveRef, Short
<1>8. CASE Unlink
  <2>1. bankDialog # None /\ DialogOwned' /\ ~OnDone'
    BY <1>1, <1>8 DEF Unlink, OnStep, Busy, DialogShaped, DialogOwned, OnDone
  <2> QED
    BY <1>8, <2>1, BeginsPulls DEF Unlink, Short
<1>9. CASE Disconnect
  <2>1. bankDialog # None /\ DialogOwned' /\ ~OnDone'
    BY <1>1, <1>9 DEF Disconnect, OnStep, Busy, DialogShaped, DialogOwned, OnDone
  <2> QED
    BY <1>9, <2>1, BeginsPulls DEF Disconnect, Short
<1>10. CASE ConfirmSms
  <2>1. bankDialog # None /\ OnSms /\ DialogOwned' /\ ~OnDone'
    BY <1>1, <1>10 DEF ConfirmSms, OnStep, Syncing, DialogShaped, DialogOwned, OnSms, OnDone
  <2> QED
    BY <1>10, <2>1, BeginsPulls DEF ConfirmSms, Short
<1>11. CASE Retry
  <2>1. bankDialog # None /\ bankDialog.step = "error"
    BY <1>11 DEF Retry, OnStep
  <2>2. CASE bankDialog.conn
    <3>1. Begins("sync", "sync") /\ DialogOwned' /\ ~OnDone'
      BY <1>1, <1>11, <2>1, <2>2 DEF Retry, Syncing, DialogShaped, DialogOwned, OnDone
    <3> QED
      BY <2>1, <3>1, BeginsPulls DEF Short
  <2>3. CASE ~bankDialog.conn
    <3>1. /\ DialogOwned' /\ ~OnSms' /\ ~OnDone'
          /\ UNCHANGED <<bank, parked, runs, pulled, tangled>>
      BY <1>1, <1>11, <2>1, <2>3 DEF Retry, DialogShaped, DialogOwned, OnSms, OnDone
    <3> QED
      BY <3>1, DialogPulls
  <2> QED
    BY <2>2, <2>3
<1>12. CASE CloseBank
  <2>1. bankDialog # None /\ DialogOwned' /\ ~OnSms' /\ ~OnDone'
    BY <1>12 DEF CloseBank, DialogOwned, OnSms, OnDone
  <2>2. CASE bankDialog.step = "sms"
    BY <1>12, <2>1, <2>2, BeginsPulls DEF CloseBank, Short
  <2>3. CASE bankDialog.step # "sms"
    BY <1>12, <2>1, <2>3, DialogPulls DEF CloseBank
  <2> QED
    BY <2>2, <2>3
<1>13. CASE Gone
  <2>1. /\ DialogOwned' /\ ~OnSms' /\ ~OnDone'
        /\ UNCHANGED <<bank, parked, runs, pulled, tangled>>
    BY <1>13 DEF Gone, DialogOwned, OnSms, OnDone
  <2> QED
    BY <2>1, DialogPulls
<1> QED
  BY <1>2, <1>3, <1>4, <1>5, <1>6, <1>7, <1>8, <1>9, <1>10, <1>11, <1>12, <1>13 DEF BankUser

\* The answers that are no pulls: what they move is not told of.
LEMMA ShortRequestPulls ==
    ASSUME PullInv, BankInv', NEW r \in runs,
           \/ RequestFails(r) \/ CreateConnection(r) \/ LinkAccount(r) \/ SaveReference(r)
           \/ UnlinkAccount(r) \/ DeleteConnection(r) \/ CancelSync(r)
    PROVE  PullInv'
<1>1. /\ DialogShaped /\ BankShaped /\ RunShaped(r) /\ DialogOwned
      /\ bank.link \subseteq BankAccounts /\ r.account \in BankAccounts
  BY DEF PullInv, BankInv, Shapes, BankOwned
<1>2. CASE RequestFails(r)
  <2>1. Ends(r) /\ ToStep(r, FailsAt(r)) /\ UNCHANGED <<bank, tangled>>
    BY <1>2 DEF RequestFails, Fails, serverVars
  <2>2. FailsAt(r) # "sms" /\ FailsAt(r) # "done"
    BY <1>1 DEF FailsAt, RunShaped, Functions
  <2>3. Orderly => ~OnSms
    BY DEF Orderly
  <2> QED
    BY <1>1, <2>1, <2>2, <2>3, StepOwned, PullsEnd
<1>3. CASE CreateConnection(r)
  <2>1. /\ bank' = [bank EXCEPT !.status = "disconnected"] /\ GoesTo(r, "link") /\ UNCHANGED tangled
        /\ bankDialog' = IF Mine(r) THEN [bankDialog EXCEPT !.conn = TRUE] ELSE bankDialog
    BY <1>3 DEF CreateConnection
  <2>2. bank'.link = bank.link
    BY <1>1, <2>1 DEF BankShaped
  <2>3. DialogOwned' /\ (OnDone' => OnDone)
    BY <1>1, <2>1 DEF DialogShaped, DialogOwned, OnDone, Mine
  <2>4. PICK n : runs' = (runs \ {r}) \cup {n} /\ n.account = r.account /\ n.at = "link"
    BY <1>1, <2>1, GoesOn
  <2> QED
    BY <1>1, <2>1, <2>2, <2>3, <2>4, PullsGoOn DEF PullStage
<1>4. CASE LinkAccount(r)
  <2>1. /\ GoesTo(r, "sync") /\ UNCHANGED tangled
        /\ bank' = [bank EXCEPT !.link = @ \cup {r.account}, !.ref[r.account] = r.field]
        /\ bankDialog' = IF Mine(r) THEN [bankDialog EXCEPT !.step = "syncing"] ELSE bankDialog
    BY <1>4 DEF LinkAccount
  <2>2. bank'.link = bank.link \cup {r.account}
    BY <1>1, <2>1 DEF BankShaped
  <2>3. DialogOwned' /\ (OnDone' => OnDone)
    BY <1>1, <2>1 DEF DialogShaped, DialogOwned, OnDone, Mine
  <2>4. PICK n : runs' = (runs \ {r}) \cup {n} /\ n.account = r.account /\ n.at = "sync"
    BY <1>1, <2>1, GoesOn
  <2> QED
    BY <1>1, <2>1, <2>2, <2>3, <2>4, PullsGoOn DEF PullStage
<1>5. CASE SaveReference(r)
  <2>1. bank' = [bank EXCEPT !.ref[r.account] = r.field] /\ UNCHANGED tangled
    BY <1>5 DEF SaveReference
  <2>2. bank'.link = bank.link
    BY <1>1, <2>1 DEF BankShaped
  <2>3. CASE r.fn = "syncNow"
    <3>1. /\ bankDialog' = IF Mine(r) THEN [bankDialog EXCEPT !.step = "syncing"] ELSE bankDialog
          /\ GoesTo(r, "sync")
      BY <1>5, <2>3 DEF SaveReference
    <3>2. DialogOwned' /\ (OnDone' => OnDone)
      BY <1>1, <3>1 DEF DialogShaped, DialogOwned, OnDone, Mine
    <3>3. PICK n : runs' = (runs \ {r}) \cup {n} /\ n.account = r.account /\ n.at = "sync"
      BY <1>1, <3>1, GoesOn
    <3> QED
      BY <1>1, <2>1, <2>2, <3>2, <3>3, PullsGoOn DEF PullStage
  <2>4. CASE r.fn # "syncNow"
    <3>1. Ends(r) /\ ToStep(r, "ready")
      BY <1>5, <2>4 DEF SaveReference
    <3>2. Orderly => ~OnSms
      BY DEF Orderly
    <3> QED
      BY <1>1, <2>1, <2>2, <3>1, <3>2, StepOwned, PullsEnd
  <2> QED
    BY <2>3, <2>4
<1>6. CASE UnlinkAccount(r)
  <2>1. /\ UNCHANGED tangled /\ Ends(r) /\ bankDialog' = None
        /\ bank' = [bank EXCEPT !.link = @ \ {r.account}]
    BY <1>6 DEF UnlinkAccount
  <2>2. bank'.link = bank.link \ {r.account}
    BY <1>1, <2>1 DEF BankShaped
  <2>3. DialogOwned' /\ ~OnSms' /\ ~OnDone'
    BY <2>1 DEF DialogOwned, OnSms, OnDone
  <2> QED
    BY <1>1, <2>1, <2>2, <2>3, PullsEnd
<1>7. CASE DeleteConnection(r)
  <2>1. /\ UNCHANGED tangled /\ Ends(r) /\ bankDialog' = None
        /\ bank' = [bank EXCEPT !.status = None, !.pending = None, !.link = {}]
    BY <1>7 DEF DeleteConnection, NoLogin
  <2>2. bank'.link = {}
    BY <1>1, <2>1 DEF BankShaped
  <2>3. DialogOwned' /\ ~OnSms' /\ ~OnDone'
    BY <2>1 DEF DialogOwned, OnSms, OnDone
  <2> QED
    BY <2>1, <2>2, <2>3, PullsEnd
<1>8. CASE CancelSync(r)
  <2>1. /\ UNCHANGED <<bankDialog, tangled>> /\ Ends(r)
        /\ bank' = IF bank.status = "awaiting_sms"
                   THEN [bank EXCEPT !.status = "disconnected", !.pending = None] ELSE bank
    BY <1>8 DEF CancelSync
  <2>2. bank'.link = bank.link
    BY <1>1, <2>1 DEF BankShaped
  <2>3. DialogOwned' /\ (OnDone' => OnDone) /\ (OnSms' => OnSms)
    BY <1>1, <2>1 DEF DialogOwned, OnDone, OnSms
  <2>4. Orderly => ~OnSms
    BY DEF Orderly
  <2> QED
    BY <1>1, <2>1, <2>2, <2>3, <2>4, PullsEnd
<1> QED
  BY <1>2, <1>3, <1>4, <1>5, <1>6, <1>7, <1>8

\* The pulls.
LEMMA SyncConnectionPulls ==
    ASSUME PullInv, BankInv', NEW r \in runs, SyncConnection(r) PROVE PullInv'
<1>1. /\ Pulls(r, "next", Plan, None) /\ pulled' = <<>>
      /\ UNCHANGED <<bank, bankDialog, tangled>>
  BY DEF SyncConnection, Plan
<1>2. RunShaped(r) /\ BankOwned
  BY DEF PullInv, BankInv, Shapes
<1>3. PICK n : runs' = (runs \ {r}) \cup {n} /\ n.account = r.account /\ n.at = "next" /\ n.todo = Plan
  BY <1>1, <1>2, GoesPulling
<1>4. PullStage(n)'
  <2>1. LandedFirst(0)'
    BY <1>1 DEF LandedFirst
  <2>2. n.todo = After(0)' /\ Len(Plan') = Len(Plan) /\ 0 \in 0 .. Len(Plan)
    BY <1>1, <1>2, <1>3, PlanStays, AfterEach, LinkedOnce
  <2> QED
    BY <1>3, <2>1, <2>2 DEF PullStage
<1>5. bank'.link \subseteq BankAccounts /\ DialogOwned' /\ (OnDone' => OnDone)
  BY <1>1, <1>2 DEF BankOwned, DialogOwned, OnDone
<1> QED
  BY <1>1, <1>3, <1>4, <1>5, PullsGoOn

\* Nothing that is told of the accounts or the dialog changes.
LEMMA OnlyPulls ==
    ASSUME PullInv, bank'.link = bank.link, UNCHANGED bankDialog
    PROVE  bank'.link \subseteq BankAccounts /\ DialogOwned' /\ (OnDone' => OnDone)
BY DEF PullInv, BankOwned, DialogOwned, OnDone

LEMMA StartPullPulls ==
    ASSUME PullInv, BankInv', NEW r \in runs, StartPull(r) PROVE PullInv'
<1>1. /\ r.at = "next" /\ r.todo # <<>> /\ Pulls(r, "pulling", Tail(r.todo), Head(r.todo))
      /\ UNCHANGED <<bank, bankDialog, pulled, tangled>>
  BY DEF StartPull
<1>2. RunShaped(r) /\ BankOwned
  BY DEF PullInv, BankInv, Shapes
<1>3. PICK n : /\ runs' = (runs \ {r}) \cup {n} /\ n.account = r.account
               /\ n.at = "pulling" /\ n.todo = Tail(r.todo) /\ n.pull = Head(r.todo)
  BY <1>1, <1>2, GoesPulling
<1>4. ASSUME PullStage(r) PROVE PullStage(n)'
  <2>1. PICK k \in 0 .. Len(Plan) : LandedFirst(k) /\ r.todo = After(k)
    BY <1>1, <1>4 DEF PullStage
  <2>2. k + 1 \in 1 .. Len(Plan) /\ k \in 0 .. Len(Plan) - 1 /\ (k + 1) - 1 = k
    BY <1>1, <1>2, <2>1, AfterEach, LinkedOnce
  <2>3. n.pull = Plan[k + 1] /\ n.todo = After(k + 1)
    BY <1>2, <1>3, <2>1, <2>2, AfterEach
  <2>4. /\ LandedFirst((k + 1) - 1)' /\ n.pull = Plan'[k + 1] /\ n.todo = After(k + 1)'
        /\ k + 1 \in 1 .. Len(Plan')
    BY <1>1, <2>1, <2>2, <2>3, PlanStays
  <2> QED
    BY <1>3, <2>4 DEF PullStage
<1> QED
  BY <1>1, <1>3, <1>4, OnlyPulls, PullsGoOn

LEMMA LandsPulls ==
    ASSUME PullInv, BankInv', NEW r \in runs, NEW on, NEW todo, Lands(r, on, todo),
           PullStage(r) =>
             \E k \in 1 .. Len(Plan) :
                LandedFirst(k - 1) /\ r.pull = Plan[k] /\ on = Plan[k].account /\ todo = After(k)
    PROVE  PullInv'
<1>1. /\ pulled' = Append(pulled, [pull |-> r.pull, landed |-> Landing(on)]) /\ Pulls(r, "next", todo, None)
      /\ UNCHANGED <<bank, bankDialog, tangled>>
  BY DEF Lands
<1>2. RunShaped(r) /\ BankOwned
  BY DEF PullInv, BankInv, Shapes
<1>3. PICK n : runs' = (runs \ {r}) \cup {n} /\ n.account = r.account /\ n.at = "next" /\ n.todo = todo
  BY <1>1, <1>2, GoesPulling
<1>4. ASSUME PullStage(r) PROVE PullStage(n)'
  <2>1. PICK k \in 1 .. Len(Plan) :
           LandedFirst(k - 1) /\ r.pull = Plan[k] /\ on = Plan[k].account /\ todo = After(k)
    BY <1>4
  <2>2. LandedFirst(k)'
    BY <1>1, <1>2, <2>1, LandsNext
  <2>3. n.todo = After(k)' /\ k \in 0 .. Len(Plan')
    BY <1>1, <1>2, <1>3, <2>1, PlanStays, LinkedOnce
  <2> QED
    BY <1>3, <2>2, <2>3 DEF PullStage
<1> QED
  BY <1>1, <1>3, <1>4, OnlyPulls, PullsGoOn

LEMMA PullReturnsPulls ==
    ASSUME PullInv, BankInv', NEW r \in runs, PullReturns(r) PROVE PullInv'
<1>1. r.at = "pulling" /\ Lands(r, r.pull.account, r.todo)
  BY DEF PullReturns
<1>2. PullStage(r) =>
        \E k \in 1 .. Len(Plan) :
           LandedFirst(k - 1) /\ r.pull = Plan[k] /\ r.pull.account = Plan[k].account /\ r.todo = After(k)
  BY <1>1 DEF PullStage
<1> QED
  BY <1>1, <1>2, LandsPulls

LEMMA CodeAcceptedPulls ==
    ASSUME PullInv, BankInv', NEW r \in runs, CodeAccepted(r) PROVE PullInv'
<1>1. r.at = "resumed" /\ Lands(r, r.on, Remaining(r.todo, r.on))
  BY DEF CodeAccepted
<1>2. ASSUME PullStage(r)
      PROVE  \E k \in 1 .. Len(Plan) :
                /\ LandedFirst(k - 1) /\ r.pull = Plan[k] /\ r.on = Plan[k].account
                /\ Remaining(r.todo, r.on) = After(k)
  <2>1. PICK k \in 1 .. Len(Plan) :
           LandedFirst(k - 1) /\ r.pull = Plan[k] /\ r.todo = Plan /\ r.on = Plan[k].account
    BY <1>1, <1>2 DEF PullStage
  <2>2. Remaining(r.todo, r.on) = After(k)
    BY <2>1, RemainingIsAfter DEF PullInv
  <2> QED
    BY <2>1, <2>2
<1> QED
  BY <1>1, <1>2, LandsPulls

\* The pull is parked for the code.
LEMMA ParksPulls ==
    ASSUME PullInv, BankInv', NEW r \in runs, PullParks(r) \/ CodeRejected(r) PROVE PullInv'
<1>1. RunShaped(r)
  BY DEF PullInv, BankInv, Shapes
<1>2. CASE PullParks(r)
  <2>1. r.at = "pulling" /\ GoesTo(r, "parking") /\ UNCHANGED <<bank, bankDialog, pulled, tangled>>
    BY <1>2 DEF PullParks
  <2>2. PICK n : /\ runs' = (runs \ {r}) \cup {n} /\ n.account = r.account
                 /\ n.at = "parking" /\ n.todo = r.todo /\ n.pull = r.pull
    BY <1>1, <2>1, GoesOn
  <2>3. ASSUME PullStage(r) PROVE PullStage(n)'
    <3>1. PICK k \in 1 .. Len(Plan) : LandedFirst(k - 1) /\ r.pull = Plan[k] /\ r.todo = After(k)
      BY <2>1, <2>3 DEF PullStage
    <3>2. /\ LandedFirst(k - 1)' /\ n.pull = Plan'[k] /\ n.todo = After(k)'
          /\ k \in 1 .. Len(Plan')
      BY <2>1, <2>2, <3>1, PlanStays
    <3> QED
      BY <2>2, <3>2 DEF PullStage
  <2> QED
    BY <2>1, <2>2, <2>3, OnlyPulls, PullsGoOn
<1>3. CASE CodeRejected(r)
  <2>1. /\ r.at = "resumed" /\ parked' = {r.pull} /\ GoesTo(r, "asks")
        /\ UNCHANGED <<bank, bankDialog, pulled, tangled>>
    BY <1>3 DEF CodeRejected
  <2>2. PICK n : runs' = (runs \ {r}) \cup {n} /\ n.account = r.account /\ n.at = "asks"
    BY <1>1, <2>1, GoesOn
  <2>3. ASSUME PullStage(r) PROVE PullStage(n)'
    <3>1. PICK k \in 1 .. Len(Plan) : LandedFirst(k - 1) /\ r.pull = Plan[k]
      BY <2>1, <2>3 DEF PullStage
    <3>2. LandedFirst(k - 1)' /\ parked' = {Plan'[k]} /\ k \in 1 .. Len(Plan')
      BY <2>1, <3>1, PlanStays
    <3> QED
      BY <2>2, <3>2 DEF PullStage, AwaitedNext
  <2> QED
    BY <2>1, <2>2, <2>3, OnlyPulls, PullsGoOn
<1> QED
  BY <1>2, <1>3

\* The row changes its status, the accounts stay.
LEMMA StatusPulls ==
    ASSUME PullInv, NEW status, NEW account,
           bank' = IF bank.status = None THEN bank
                   ELSE [bank EXCEPT !.status = status, !.pending = account]
    PROVE  bank'.link = bank.link /\ bank'.ref = bank.ref
BY DEF PullInv, BankInv, Shapes, BankShaped

LEMMA SaysAwaitingPulls ==
    ASSUME PullInv, BankInv', NEW r \in runs, SaysAwaiting(r) PROVE PullInv'
<1>1. /\ r.at = "parking" /\ GoesTo(r, "asks") /\ UNCHANGED <<parked, bankDialog, pulled, tangled>>
      /\ bank' = IF bank.status = None THEN bank
                 ELSE [bank EXCEPT !.status = "awaiting_sms", !.pending = r.pull.account]
  BY DEF SaysAwaiting
<1>2. RunShaped(r) /\ bank'.link = bank.link /\ bank'.ref = bank.ref
  BY <1>1, StatusPulls DEF PullInv, BankInv, Shapes
<1>3. PICK n : runs' = (runs \ {r}) \cup {n} /\ n.account = r.account /\ n.at = "asks"
  BY <1>1, <1>2, GoesOn
<1>4. ASSUME Orderly, PullStage(r) PROVE PullStage(n)'
  <2>1. PICK k \in 1 .. Len(Plan) : LandedFirst(k - 1) /\ r.pull = Plan[k]
    BY <1>1, <1>4 DEF PullStage
  <2>2. parked = {r.pull}
    BY <1>1, <1>4, Standing DEF RunStage
  <2>3. AwaitedNext
    BY <2>1, <2>2 DEF AwaitedNext
  <2>4. AwaitedNext'
    BY <1>1, <1>2, <2>3, PlanStays
  <2> QED
    BY <1>3, <2>4 DEF PullStage
<1> QED
  BY <1>1, <1>2, <1>3, <1>4, OnlyPulls, PullsGoOn

LEMMA PullFailsPulls ==
    ASSUME PullInv, BankInv', NEW r \in runs, PullFails(r) PROVE PullInv'
<1>1. /\ Ends(r) /\ ToStep(r, FailsAt(r)) /\ UNCHANGED tangled
      /\ bank' = IF bank.status = None THEN bank ELSE [bank EXCEPT !.status = "error", !.pending = None]
  BY DEF PullFails, Fails
<1>2. bank'.link \subseteq BankAccounts
  BY <1>1, StatusPulls DEF PullInv, BankOwned
<1>3. FailsAt(r) # "sms" /\ FailsAt(r) # "done"
  BY DEF PullInv, BankInv, Shapes, RunShaped, FailsAt, Functions
<1>4. Orderly => ~OnSms
  BY DEF Orderly
<1> QED
  BY <1>1, <1>2, <1>3, <1>4, StepOwned, PullsEnd

LEMMA SubmitSmsPulls ==
    ASSUME PullInv, BankInv', NEW r \in runs, SubmitSms(r) PROVE PullInv'
<1>1. r.at = "sms" /\ parked' = {} /\ UNCHANGED <<bank, bankDialog, pulled, tangled>>
  BY DEF SubmitSms
<1>2. PICK pull \in parked : \E on : on = PendingOf(Plan) /\
         runs' = (runs \ {r}) \cup {[r EXCEPT !.at = "resumed", !.todo = Plan, !.pull = pull, !.on = on]}
  BY DEF SubmitSms, Plan
<1>3. PICK on : on = PendingOf(Plan) /\
         runs' = (runs \ {r}) \cup {[r EXCEPT !.at = "resumed", !.todo = Plan, !.pull = pull, !.on = on]}
  BY <1>2
<1>4. PICK todo : todo = Plan
  OBVIOUS
<1>5. PICK n : /\ runs' = (runs \ {r}) \cup {n} /\ n.account = r.account
               /\ n.at = "resumed" /\ n.todo = todo /\ n.pull = pull /\ n.on = on
  <2> DEFINE n == [r EXCEPT !.at = "resumed", !.todo = todo, !.pull = pull, !.on = on]
  <2>1. /\ RunShaped(r) /\ runs' = (runs \ {r}) \cup {n}
        /\ n = [r EXCEPT !.at = "resumed", !.todo = todo, !.pull = pull, !.on = on]
    BY <1>3, <1>4 DEF PullInv, BankInv, Shapes
  <2>2. r \in RunLike(r, "resumed", todo, pull, on)
    BY <2>1 DEF RunShaped, RunLike
  <2>3. /\ n \in RunLike(r, "resumed", todo, pull, on)
        /\ n.at = "resumed" /\ n.todo = todo /\ n.pull = pull /\ n.on = on
    BY <2>2 DEF RunLike
  <2> HIDE DEF n
  <2>4. n.account = r.account
    BY <2>3 DEF RunLike
  <2> QED
    BY <2>1, <2>3, <2>4
<1>6. ASSUME Orderly, PullStage(r) PROVE PullStage(n)'
  <2>1. PICK k \in 1 .. Len(Plan) : LandedFirst(k - 1) /\ parked = {Plan[k]}
    BY <1>1, <1>6 DEF PullStage, AwaitedNext
  <2>2. pull = Plan[k]
    BY <2>1
  <2>3. on = Plan[k].account
    <3>1. bank.pending = pull.account
      BY <1>1, <1>6, Standing DEF RunStage, Quiet, Short
    <3>2. pull.account \in BankAccounts
      BY <2>2, LinkedOnce DEF PullInv, BankOwned
    <3> QED
      BY <1>3, <2>2, <3>1, <3>2, BankAssumption DEF PendingOf
  <2>4. Plan' = Plan /\ LandedFirst(k - 1)'
    BY <1>1, <2>1, PlanStays
  <2> QED
    BY <1>4, <1>5, <2>2, <2>3, <2>4 DEF PullStage
<1> QED
  BY <1>1, <1>5, <1>6, OnlyPulls, PullsGoOn

LEMMA MarkConnectedPulls ==
    ASSUME PullInv, BankInv', NEW r \in runs, MarkConnected(r) PROVE PullInv'
<1>1. /\ r.at = "next" /\ r.todo = <<>> /\ GoesTo(r, "done") /\ UNCHANGED <<bankDialog, pulled, tangled>>
      /\ bank' = IF bank.status = None THEN bank
                 ELSE [bank EXCEPT !.status = "connected", !.pending = None]
  BY DEF MarkConnected
<1>2. RunShaped(r) /\ BankOwned /\ bank'.link = bank.link /\ bank'.ref = bank.ref
  BY <1>1, StatusPulls DEF PullInv, BankInv, Shapes
<1>3. PICK n : runs' = (runs \ {r}) \cup {n} /\ n.account = r.account /\ n.at = "done"
  BY <1>1, <1>2, GoesOn
<1>4. ASSUME PullStage(r) PROVE PullStage(n)'
  <2>1. PICK k \in 0 .. Len(Plan) : LandedFirst(k) /\ r.todo = After(k)
    BY <1>1, <1>4 DEF PullStage
  <2>2. k = Len(Plan)
    BY <1>1, <1>2, <2>1, AfterEach
  <2>3. LandedFirst(k)' /\ k = Len(Plan')
    BY <1>1, <1>2, <2>1, <2>2, PlanStays
  <2>4. LandedFirst(Len(Plan))'
    BY <2>3 DEF LandedFirst
  <2> QED
    BY <1>3, <2>4 DEF PullStage
<1> QED
  BY <1>1, <1>2, <1>3, <1>4, OnlyPulls, PullsGoOn

LEMMA LoginAnswersPulls ==
    ASSUME PullInv, BankInv', NEW r \in runs, LoginAnswers(r) PROVE PullInv'
<1>1. /\ r.at \in {"asks", "done"} /\ Ends(r) /\ UNCHANGED <<bank, parked, pulled, tangled>>
      /\ ToStep(r, IF r.at = "asks" THEN "sms" ELSE "done")
  BY DEF LoginAnswers
<1>2. DialogOwned' /\ bank'.link \subseteq BankAccounts
  BY <1>1, StepOwned DEF PullInv, BankOwned
<1>3. ASSUME Orderly, PullStage(r), ~OnDone
      PROVE  (OnSms' => AwaitedNext') /\ (OnDone' => LandedFirst(Len(Plan))')
  <2>1. ~OnSms
    BY <1>3 DEF Orderly
  <2>2. (OnSms' => r.at = "asks") /\ (OnDone' => r.at = "done")
    BY <1>1, <1>3, <2>1, StepOwned
  <2>3. (r.at = "asks" => AwaitedNext) /\ (r.at = "done" => LandedFirst(Len(Plan)))
    BY <1>3 DEF PullStage
  <2>4. Plan' = Plan /\ (AwaitedNext => AwaitedNext')
    BY <1>1, PlanStays
  <2>5. LandedFirst(Len(Plan)) => LandedFirst(Len(Plan))'
    BY <1>1, <2>4 DEF LandedFirst
  <2> QED
    BY <2>2, <2>3, <2>4, <2>5
<1> QED
  BY <1>1, <1>2, <1>3, PullsEnd

-----------------------------------------------------------------------------
LEMMA InitPulls == BankInit => PullInv
<1> SUFFICES ASSUME BankInit PROVE PullInv
  OBVIOUS
<1>1. BankInv
  BY InitBank
<1>2. bank.link \subseteq BankAccounts /\ bankDialog = None /\ runs = {}
  BY BankAssumption DEF BankInit
<1> QED
  BY <1>1, <1>2 DEF PullInv, BankOwned, DialogOwned, PullsInOrder, OnSms, OnDone

LEMMA NextPulls == PullInv /\ [BankNext]_bankVars => PullInv'
<1> SUFFICES ASSUME PullInv, [BankNext]_bankVars PROVE PullInv'
  OBVIOUS
<1>1. BankInv'
  BY NextBank DEF PullInv
<1>2. CASE BankUser
  BY <1>1, <1>2, UserPulls
<1>3. ASSUME NEW r \in runs, BankServer(r) PROVE PullInv'
  BY <1>1, <1>3, ShortRequestPulls, SyncConnectionPulls, StartPullPulls, PullReturnsPulls, ParksPulls,
     SaysAwaitingPulls, PullFailsPulls, SubmitSmsPulls, CodeAcceptedPulls, MarkConnectedPulls,
     LoginAnswersPulls DEF BankServer
<1>4. CASE UNCHANGED bankVars
  <2>1. UNCHANGED <<bank, parked, runs, pulled, tangled, bankDialog>>
    BY <1>4 DEF bankVars
  <2>2. DialogOwned' /\ (OnSms' => OnSms) /\ (OnDone' => OnDone)
    BY <2>1 DEF PullInv, BankOwned, DialogOwned, OnSms, OnDone
  <2> QED
    BY <1>1, <2>1, <2>2, DialogPulls
<1> QED
  BY <1>2, <1>3, <1>4 DEF BankNext

\* A row of a card goes to the only account that has the card, or stays.
LEMMA LandsByCard ==
    ASSUME NEW card \in BankCards, NEW account
    PROVE  Landing(account)[card] \in
             IF Cardinality(CardOwners[card]) = 1 THEN CardOwners[card] ELSE {account}
<1>1. CASE Cardinality(CardOwners[card]) = 1
  <2>1. CardOwners[card] # {}
    BY <1>1, FS_EmptySet
  <2> QED
    BY <1>1, <2>1 DEF Landing, Target
<1>2. CASE Cardinality(CardOwners[card]) # 1
  BY <1>2 DEF Landing, Target
<1> QED
  BY <1>1, <1>2

\* A login the dialog calls done has pulled each linked account once, in order and by
\* the reference that is saved, and its rows went to the account that alone has their
\* card or else to the one pulled, however many codes the bank asked for, unless
\* requests overlapped or links changed under it (_sync_accounts, submit_sms,
\* _route_rows, ConnectionDialog runSync and confirmSms): for any accounts, cards,
\* references and requests.
THEOREM PulledInOrder == BankSpec => []PulledOnceEach
<1>1. PullInv => PulledOnceEach
  <2> SUFFICES ASSUME PullInv, bankDialog # None, bankDialog.step = "done", ~tangled
               PROVE  /\ [i \in DOMAIN pulled |-> pulled[i].pull] = LinkedAccounts(bank)
                      /\ \A i \in DOMAIN pulled, card \in BankCards :
                            pulled[i].landed[card] \in
                               IF Cardinality(CardOwners[card]) = 1 THEN CardOwners[card]
                               ELSE {pulled[i].pull.account}
    BY DEF PulledOnceEach
  <2>1. LandedFirst(Len(Plan))
    BY DEF PullInv, PullsInOrder, OnDone
  <2>2. /\ DOMAIN pulled = 1 .. Len(Plan)
        /\ \A i \in 1 .. Len(Plan) :
              pulled[i].pull = Plan[i] /\ pulled[i].landed = Landing(Plan[i].account)
    BY <2>1 DEF LandedFirst
  <2>3. Plan = [i \in 1 .. Len(Plan) |-> Plan[i]]
    <3>1. BankOwned
      BY DEF PullInv
    <3>2. PICK S : Plan \in Seq(S)
      BY <3>1, LinkedOnce
    <3> QED
      BY <3>2
  <2>4. [i \in DOMAIN pulled |-> pulled[i].pull] = Plan
    BY <2>2, <2>3
  <2>5. ASSUME NEW i \in DOMAIN pulled, NEW card \in BankCards
        PROVE  pulled[i].landed[card] \in
                 IF Cardinality(CardOwners[card]) = 1 THEN CardOwners[card]
                 ELSE {pulled[i].pull.account}
    <3>1. pulled[i].landed = Landing(pulled[i].pull.account)
      BY <2>2
    <3> QED
      BY <3>1, LandsByCard
  <2> QED
    BY <2>4, <2>5 DEF Plan
<1> QED
  BY InitPulls, NextPulls, <1>1, PTL DEF BankSpec

-----------------------------------------------------------------------------
(* The import of statements.  That no new operation is held back rests on a *)
(* count (FlaggedAtMostHeld), on flags staying with the rows they were asked *)
(* for (Answers), and on accounts never losing copies.  That repeats import *)
(* nothing rests on what a commit counted: no less than commits had inserted *)
(* by then (LookBehind).                                                   *)

Row == [operation : Operations, account : ImportAccounts \cup {None}, duplicate : BOOLEAN]

CopyCounts == [ImportAccounts -> [Operations -> Nat]]

\* Flags of rows, as many of them for an operation as the account holds.
Modest(review, flags) ==
    \A a \in ImportAccounts, o \in Operations :
        Cardinality({n \in DOMAIN review : review[n].account = a /\ review[n].operation = o
                                           /\ n \in DOMAIN flags /\ flags[n]}) <= held[a][o]

FlagsOf(review) == [n \in DOMAIN review |-> review[n].duplicate]

SameRows(review, other) ==
    /\ DOMAIN review = DOMAIN other
    /\ \A n \in DOMAIN review : review[n].account = other[n].account
                                /\ review[n].operation = other[n].operation

\* An account holds what commits inserted, and maybe more.
Counted ==
    /\ held \in CopyCounts /\ owed \in CopyCounts /\ imported \in CopyCounts /\ behind \in CopyCounts
    /\ entered \in CopyCounts
    /\ \A a \in ImportAccounts, o \in Operations : imported[a][o] <= held[a][o]

Pulling ==
    /\ due \in [Keys -> Int] /\ PullsRepeatNothing
    /\ \A b \in batches : b.feed \in Statements /\ b.known \in [Keys -> Int]

Reviewed == (rows # None => rows \in Seq(Row)) /\ checkEpoch \in Nat

Previewed == \A p \in previews :
    /\ p = [file |-> p.file, at |-> p.at, answer |-> p.answer] /\ p.file \in Statements
    /\ p.answer # None => p.answer \in Seq(Row) /\ Modest(p.answer, FlagsOf(p.answer))

\* What a commit counted is at least what commits had inserted then, and no more has
\* been inserted since than now.
LookBehind(look) ==
    /\ look.account \in ImportAccounts
    /\ look.known \in [Operations -> Nat] /\ look.seen \in [Operations -> Nat]
    /\ \A o \in Operations :
          look.seen[o] <= look.known[o] /\ look.seen[o] <= imported[look.account][o]

CommitShaped(c) ==
    /\ c = [at |-> c.at, sent |-> c.sent, review |-> c.review, look |-> c.look,
            open |-> c.open, answered |-> c.answered]
    /\ c.review \in Seq(Row) /\ c.sent \subseteq DOMAIN c.review

\* Every row under review that is committed has its account.
Committed == \A c \in commits :
    /\ CommitShaped(c)
    /\ \A n \in DOMAIN c.review : c.review[n].account \in ImportAccounts
    /\ c.look # None => LookBehind(c.look)

\* A check is about the rows there are, if it is the latest and they stayed.
Answers == \A c \in checks :
    /\ c = [epoch |-> c.epoch, rows |-> c.rows, answer |-> c.answer, overtaken |-> c.overtaken]
    /\ c.rows \in Seq(Row) /\ c.epoch \in Nat /\ c.epoch <= checkEpoch /\ c.overtaken \in BOOLEAN
    /\ c.answer # None => Modest(c.rows, c.answer)
    /\ rows \in Seq(Row) /\ (IsLatest(c) /\ ~c.overtaken => SameRows(c.rows, rows))

ImportInv == Counted /\ Pulling /\ Reviewed /\ Previewed /\ Committed /\ Answers /\ ImportsCountCopies

-----------------------------------------------------------------------------
(* Counting.                                                               *)

LEMMA MaxOfTwo ==
    ASSUME NEW x \in Int, NEW y \in Int
    PROVE  Max({x, y}) \in Int /\ Max({x, y}) >= x /\ Max({x, y}) >= y
           /\ (Max({x, y}) = x \/ Max({x, y}) = y)
<1>1. \E m \in {x, y} : \A n \in {x, y} : m >= n
  <2>1. CASE x >= y
    BY <2>1
  <2>2. CASE y >= x
    BY <2>2
  <2> QED
    BY <2>1, <2>2
<1> QED
  BY <1>1 DEF Max

LEMMA PartFinite ==
    ASSUME NEW s, NEW S, s \in Seq(S), NEW N \in SUBSET DOMAIN s
    PROVE  IsFiniteSet(N) /\ Cardinality(N) \in Nat /\ Cardinality(N) <= Cardinality(DOMAIN s)
<1>1. DOMAIN s = 1 .. Len(s) /\ Len(s) \in Nat
  OBVIOUS
<1>2. IsFiniteSet(DOMAIN s)
  BY <1>1, FS_Interval
<1> QED
  BY <1>2, FS_Subset, FS_CardinalityType

LEMMA InSeq == ASSUME NEW S, NEW s \in Seq(S), NEW n \in 1 .. Len(s) PROVE s[n] \in S
OBVIOUS

\* Among more rows there are no fewer copies.
LEMMA CopiesGrow ==
    ASSUME NEW review, review \in Seq(Row), NEW N \in SUBSET DOMAIN review, NEW M \in SUBSET N,
           NEW a, NEW o
    PROVE  /\ Copies(review, M, a, o) \in Nat /\ Copies(review, N, a, o) \in Nat
           /\ Copies(review, M, a, o) <= Copies(review, N, a, o)
<1> DEFINE Of(K) == {n \in K : review[n].account = a /\ review[n].operation = o}
<1>1. Of(N) \in SUBSET DOMAIN review /\ Of(M) \in SUBSET DOMAIN review /\ Of(M) \in SUBSET Of(N)
  OBVIOUS
<1> HIDE DEF Of
<1>2. IsFiniteSet(Of(N)) /\ Cardinality(Of(N)) \in Nat /\ Cardinality(Of(M)) \in Nat
  BY <1>1, PartFinite
<1>3. Cardinality(Of(M)) <= Cardinality(Of(N))
  BY <1>1, <1>2, FS_Subset
<1> QED
  BY <1>2, <1>3 DEF Copies, Of

\* A row counts itself: there are more copies before a later one.
LEMMA CopiesBefore ==
    ASSUME NEW review, review \in Seq(Row), NEW a, NEW o,
           NEW m \in DOMAIN review, NEW n \in DOMAIN review, m < n,
           review[m].account = a, review[m].operation = o
    PROVE  /\ Copies(review, 1 .. (m - 1), a, o) \in Nat /\ Copies(review, 1 .. (n - 1), a, o) \in Nat
           /\ Copies(review, 1 .. (m - 1), a, o) < Copies(review, 1 .. (n - 1), a, o)
<1>0. m \in Nat \ {0} /\ n \in Nat \ {0} /\ DOMAIN review = 1 .. Len(review) /\ Len(review) \in Nat
  OBVIOUS
<1> DEFINE Of(K) == {i \in K : review[i].account = a /\ review[i].operation = o}
           early == Of(1 .. (m - 1))
           later == Of(1 .. (n - 1))
<1>1. early \cup {m} \subseteq later /\ m \notin early /\ later \in SUBSET DOMAIN review
      /\ early \in SUBSET DOMAIN review
  BY <1>0
<1>2. Copies(review, 1 .. (m - 1), a, o) = Cardinality(early)
      /\ Copies(review, 1 .. (n - 1), a, o) = Cardinality(later)
  BY DEF Copies
<1> HIDE DEF early, later, Of
<1>3. IsFiniteSet(later) /\ IsFiniteSet(early) /\ Cardinality(early) \in Nat /\ Cardinality(later) \in Nat
  BY <1>1, PartFinite
<1>4. Cardinality(early \cup {m}) = Cardinality(early) + 1
  BY <1>1, <1>3, FS_AddElement
<1>5. Cardinality(early \cup {m}) <= Cardinality(later)
  BY <1>1, <1>3, FS_Subset
<1> QED
  BY <1>2, <1>3, <1>4, <1>5

\* The server flags as many copies as the account holds, and no more: the number of
\* copies before it tells the flagged rows apart.
LEMMA FlaggedAtMostHeld ==
    ASSUME held \in CopyCounts, NEW review, review \in Seq(Row), None \notin ImportAccounts
    PROVE  Modest(review, Duplicates(review))
<1> SUFFICES ASSUME NEW a \in ImportAccounts, NEW o \in Operations
             PROVE  Cardinality({n \in DOMAIN review : review[n].account = a /\ review[n].operation = o
                                   /\ n \in DOMAIN Duplicates(review) /\ Duplicates(review)[n]})
                    <= held[a][o]
  BY DEF Modest
<1> DEFINE before(n) == Copies(review, 1 .. (n - 1), a, o)
           set == {n \in DOMAIN review : review[n].account = a /\ review[n].operation = o
                                         /\ before(n) < held[a][o]}
           range == 0 .. (held[a][o] - 1)
           f == [n \in set |-> before(n)]
<1>1. {n \in DOMAIN review : review[n].account = a /\ review[n].operation = o
         /\ n \in DOMAIN Duplicates(review) /\ Duplicates(review)[n]} = set
  BY DEF Duplicates
<1>2. held[a][o] \in Nat
  BY DEF CopyCounts
<1>3. \A n \in set : n \in DOMAIN review /\ review[n].account = a /\ review[n].operation = o
                     /\ before(n) < held[a][o]
  OBVIOUS
<1>4. \A n \in DOMAIN review : before(n) \in Nat
  <2> SUFFICES ASSUME NEW n \in DOMAIN review PROVE before(n) \in Nat
    OBVIOUS
  <2>1. 1 .. (n - 1) \in SUBSET DOMAIN review
    OBVIOUS
  <2> QED
    BY <2>1, CopiesGrow
<1>5. \A m, n \in DOMAIN review : m < n /\ review[m].account = a /\ review[m].operation = o
                                  => before(m) < before(n)
  BY CopiesBefore
<1>6. \A m, n \in DOMAIN review : m = n \/ m < n \/ n < m
  OBVIOUS
<1> HIDE DEF before, set
<1>7. f \in Injection(set, range)
  <2>1. f \in [set -> range]
    BY <1>2, <1>3, <1>4
  <2>2. IsInjective(f)
    <3> SUFFICES ASSUME NEW m \in set, NEW n \in set, before(m) = before(n) PROVE m = n
      BY DEF IsInjective
    <3> QED
      BY <1>3, <1>4, <1>5, <1>6
  <2> QED
    BY <2>1, <2>2 DEF Injection
<1>8. IsFiniteSet(range) /\ Cardinality(range) = held[a][o]
  <2> DEFINE h == held[a][o]
  <2>1. h \in Nat /\ 0 \in Int /\ h - 1 \in Int
    BY <1>2
  <2> HIDE DEF h
  <2>2. IsFiniteSet(0 .. (h - 1)) /\ Cardinality(0 .. (h - 1)) = IF 0 > h - 1 THEN 0 ELSE h - 1 - 0 + 1
    BY <2>1, FS_Interval
  <2>3. (IF 0 > h - 1 THEN 0 ELSE h - 1 - 0 + 1) = h
    BY <2>1
  <2> QED
    BY <2>2, <2>3 DEF h
<1> HIDE DEF f, range
<1>9. Cardinality(set) <= held[a][o]
  BY <1>7, <1>8, FS_Injection
<1> QED
  BY <1>1, <1>9

\* Copies that are put together.
LEMMA PutTogether ==
    ASSUME NEW counts \in CopyCounts, NEW more \in CopyCounts
    PROVE  /\ Plus(counts, more) \in CopyCounts
           /\ \A a \in ImportAccounts, o \in Operations :
                 /\ counts[a][o] \in Nat /\ more[a][o] \in Nat
                 /\ Plus(counts, more)[a][o] = counts[a][o] + more[a][o]
                 /\ counts[a][o] <= Plus(counts, more)[a][o]
BY DEF Plus, CopyCounts

LEMMA PlacesFinite ==
    ASSUME NEW k
    PROVE  IsFiniteSet(PlacesOf(k)) /\ \A at \in PlacesOf(k) : at[1] \in ImportAccounts /\ at[2] \in Operations
<1>1. IsFiniteSet(ImportAccounts \X Operations)
  BY StatementImportAssumption, FS_Product
<1>2. PlacesOf(k) \subseteq ImportAccounts \X Operations
  BY DEF PlacesOf
<1> QED
  BY <1>1, <1>2, FS_Subset

\* The copies of a key: those there were and those that came.
LEMMA OfKeyAdds ==
    ASSUME NEW counts \in CopyCounts, NEW more \in CopyCounts, NEW k
    PROVE  /\ OfKey(counts, k) \in Nat /\ OfKey(more, k) \in Nat
           /\ OfKey(Plus(counts, more), k) = OfKey(counts, k) + OfKey(more, k)
<1> DEFINE P == PlacesOf(k)
           f == [at \in P |-> counts[at[1]][at[2]]]
           g == [at \in P |-> more[at[1]][at[2]]]
           h == [at \in P |-> Plus(counts, more)[at[1]][at[2]]]
<1>1. IsFiniteSet(P) /\ \A at \in P : f[at] \in Nat /\ g[at] \in Nat /\ h[at] = f[at] + g[at]
  BY PutTogether, PlacesFinite
<1>2. /\ OfKey(counts, k) = SumFunctionOnSet(f, P) /\ OfKey(more, k) = SumFunctionOnSet(g, P)
      /\ OfKey(Plus(counts, more), k) = SumFunctionOnSet(h, P)
  BY DEF OfKey
<1> HIDE DEF P, f, g, h
<1>3. SumFunctionOnSet(f, P) \in Nat /\ SumFunctionOnSet(g, P) \in Nat
  BY <1>1, SumType
<1>4. \A at \in P : f[at] \in Int /\ g[at] \in Int /\ h[at] = f[at] + g[at]
  BY <1>1
<1>5. SumFunctionOnSet(h, P) = SumFunctionOnSet(f, P) + SumFunctionOnSet(g, P)
  BY <1>1, <1>4, SumPlus
<1> QED
  BY <1>2, <1>3, <1>5

\* What pulls count grows by what came and was not entered by hand.
LEMMA DayCountsGrow ==
    ASSUME NEW more \in CopyCounts, held \in CopyCounts, entered \in CopyCounts,
           held' = Plus(held, more), UNCHANGED entered, NEW k \in Keys
    PROVE  DayCounts[k] \in Int /\ OfKey(more, k) \in Nat /\ DayCounts'[k] = DayCounts[k] + OfKey(more, k)
<1>1. DayCounts[k] = OfKey(held, k) - OfKey(entered, k)
  BY DEF DayCounts
<1>2. DayCounts'[k] = OfKey(Plus(held, more), k) - OfKey(entered, k)
  BY DEF DayCounts, OfKey
<1>3. /\ OfKey(held, k) \in Nat /\ OfKey(more, k) \in Nat /\ OfKey(entered, k) \in Nat
      /\ OfKey(Plus(held, more), k) = OfKey(held, k) + OfKey(more, k)
  BY OfKeyAdds
<1> QED
  BY <1>1, <1>2, <1>3

\* Of the rows of a key all but the first are kept: the number of those before it tells
\* the kept ones apart.
LEMMA KeptFew ==
    ASSUME NEW b, b.feed \in Statements, NEW k \in Keys, b.known[k] \in Int
    PROVE  LET mine == KeyRows(b.feed, k)
               kept == Unseen(b) \cap mine
           IN  /\ IsFiniteSet(kept) /\ Cardinality(mine) \in Nat
               /\ Cardinality(kept) = 0 \/ Cardinality(kept) <= Cardinality(mine) - b.known[k]
<1> DEFINE mine == KeyRows(b.feed, k)
           before(n) == Cardinality({m \in mine : m < n})
           kept == Unseen(b) \cap mine
           known == b.known[k]
           range == known .. (Cardinality(mine) - 1)
           f == [n \in kept |-> before(n)]
<1>1. b.feed \in Seq([operation : Operations, account : ImportAccounts \cup {None}])
  BY StatementImportAssumption
<1>2. mine \in SUBSET DOMAIN b.feed /\ DOMAIN b.feed = 1 .. Len(b.feed) /\ Len(b.feed) \in Nat
  <2>1. DOMAIN b.feed = 1 .. Len(b.feed) /\ Len(b.feed) \in Nat
    BY <1>1
  <2>2. mine \subseteq DOMAIN b.feed
    BY DEF KeyRows
  <2> QED
    BY <2>1, <2>2
<1>3. ASSUME NEW n \in kept PROVE n \in mine /\ before(n) >= known
  <2> DEFINE key == KeyOf[b.feed[n].operation]
  <2>1. Cardinality({m \in KeyRows(b.feed, key) : m < n}) >= b.known[key]
    BY DEF Unseen
  <2>2. n \in mine
    OBVIOUS
  <2>3. key = k
    BY <2>2 DEF KeyRows
  <2> HIDE DEF key
  <2> QED
    BY <2>1, <2>2, <2>3, Zenon
<1>4. known \in Int
  OBVIOUS
<1> HIDE DEF mine, known
<1>5. IsFiniteSet(mine) /\ Cardinality(mine) \in Nat
  BY <1>1, <1>2, PartFinite
<1>6. ASSUME NEW n \in mine
      PROVE  before(n) \in Nat /\ before(n) < Cardinality(mine)
             /\ \A l \in mine : l < n => before(l) < before(n)
  <2>0. \A l \in mine : l \in Int
    BY <1>2
  <2> DEFINE Early(l) == {m \in mine : m < l}
  <2>1. \A l \in mine : Early(l) \subseteq mine /\ l \notin Early(l)
    BY <2>0
  <2>2. \A l \in mine : l < n => Early(l) \cup {l} \subseteq Early(n)
    BY <2>0
  <2>3. \A l : before(l) = Cardinality(Early(l))
    OBVIOUS
  <2> HIDE DEF Early, before
  <2>4. \A l \in mine : IsFiniteSet(Early(l)) /\ before(l) \in Nat
    BY <1>5, <2>1, <2>3, FS_Subset, FS_CardinalityType
  <2>5. \A l \in mine : Cardinality(Early(l) \cup {l}) = before(l) + 1
    BY <2>1, <2>3, <2>4, FS_AddElement
  <2>6. before(n) + 1 <= Cardinality(mine)
    <3>1. Early(n) \cup {n} \subseteq mine
      BY <2>1
    <3> QED
      BY <1>5, <2>5, <3>1, FS_Subset
  <2>7. ASSUME NEW l \in mine, l < n PROVE before(l) < before(n)
    <3>1. Cardinality(Early(l) \cup {l}) <= Cardinality(Early(n))
      BY <2>2, <2>4, <2>7, FS_Subset
    <3> QED
      BY <2>3, <2>4, <2>5, <3>1
  <2> QED
    BY <1>5, <2>4, <2>6, <2>7
<1>7. \A m, n \in mine : m = n \/ m < n \/ n < m
  BY <1>2
<1> HIDE DEF before, kept
<1>8. f \in Injection(kept, range)
  <2>1. f \in [kept -> range]
    BY <1>3, <1>4, <1>5, <1>6
  <2>2. IsInjective(f)
    <3> SUFFICES ASSUME NEW m \in kept, NEW n \in kept, before(m) = before(n) PROVE m = n
      BY DEF IsInjective
    <3> QED
      BY <1>3, <1>6, <1>7
  <2> QED
    BY <2>1, <2>2 DEF Injection
<1>9. IsFiniteSet(range) /\ (Cardinality(range) = 0 \/ Cardinality(range) = Cardinality(mine) - known)
  <2> DEFINE top == Cardinality(mine) - 1
  <2>1. top \in Int
    BY <1>5
  <2> HIDE DEF top
  <2>2. IsFiniteSet(known .. top) /\ Cardinality(known .. top) = IF known > top THEN 0 ELSE top - known + 1
    BY <1>4, <2>1, FS_Interval
  <2>3. Cardinality(known .. top) = 0 \/ Cardinality(known .. top) = top - known + 1
    BY <2>2
  <2>4. top - known + 1 = Cardinality(mine) - known
    BY <1>4, <1>5 DEF top
  <2> QED
    BY <2>2, <2>3, <2>4 DEF top
<1> HIDE DEF f, range
<1>10. Cardinality(kept) <= Cardinality(range)
  BY <1>8, <1>9, FS_Injection
<1>11. IsFiniteSet(kept) /\ Cardinality(kept) \in Nat
  <2>1. kept \subseteq mine
    BY DEF kept
  <2> QED
    BY <1>5, <2>1, FS_Subset, FS_CardinalityType
<1>12. Cardinality(kept) = 0 \/ Cardinality(kept) <= Cardinality(mine) - known
  <2>1. CASE Cardinality(range) = 0
    BY <1>10, <1>11, <2>1
  <2>2. CASE Cardinality(range) = Cardinality(mine) - known
    BY <1>10, <2>2
  <2> QED
    BY <1>9, <2>1, <2>2
<1> QED
  BY <1>5, <1>11, <1>12 DEF kept, mine, known

\* A pull brings no more copies of a key than rows of it were kept.
LEMMA BroughtFew ==
    ASSUME held \in CopyCounts, NEW b, b.feed \in Statements
    PROVE  /\ PulledIn(b) \in CopyCounts
           /\ \A k \in Keys : OfKey(PulledIn(b), k) <= Cardinality(Unseen(b) \cap KeyRows(b.feed, k))
<1> DEFINE routed == Routed(b)
           kept == Unseen(b)
<1>1. b.feed \in Seq([operation : Operations, account : ImportAccounts \cup {None}])
  BY StatementImportAssumption
<1>2. kept \in SUBSET DOMAIN b.feed /\ DOMAIN b.feed = 1 .. Len(b.feed)
  BY <1>1 DEF Unseen
<1>3. \A n \in DOMAIN b.feed : routed[n].operation = b.feed[n].operation
  <2>1. \A n \in DOMAIN b.feed :
           b.feed[n] \in [operation : Operations, account : ImportAccounts \cup {None}]
    BY <1>1, <1>2, InSeq
  <2> QED
    BY <2>1 DEF Routed
<1> HIDE DEF routed, kept
<1> DEFINE Copied(a, o) == {n \in kept : routed[n].account = a /\ routed[n].operation = o}
<1>4. ASSUME NEW a \in ImportAccounts, NEW o \in Operations
      PROVE  /\ PulledIn(b)[a][o] = Max({0, Copies(routed, kept, a, o) - held[a][o]})
             /\ PulledIn(b)[a][o] \in Nat /\ PulledIn(b)[a][o] <= Cardinality(Copied(a, o))
  <2>1. PulledIn(b)[a][o] = Max({0, Copies(routed, kept, a, o) - held[a][o]})
    BY DEF PulledIn, routed, kept
  <2>2. Copies(routed, kept, a, o) = Cardinality(Copied(a, o))
    BY DEF Copies
  <2>3. Copied(a, o) \in SUBSET DOMAIN b.feed
    BY <1>2
  <2> HIDE DEF Copied
  <2>4. Cardinality(Copied(a, o)) \in Nat
    BY <1>1, <2>3, PartFinite
  <2>5. held[a][o] \in Nat
    BY DEF CopyCounts
  <2> DEFINE x == Copies(routed, kept, a, o) - held[a][o]
  <2>6. x \in Int /\ x <= Cardinality(Copied(a, o))
    BY <2>2, <2>4, <2>5
  <2>7. PulledIn(b)[a][o] = Max({0, x})
    BY <2>1
  <2> HIDE DEF x
  <2>8. Max({0, x}) \in Int /\ Max({0, x}) >= 0 /\ (Max({0, x}) = 0 \/ Max({0, x}) = x)
    <3>1. 0 \in Int /\ x \in Int
      BY <2>6
    <3> QED
      BY <3>1, MaxOfTwo, Zenon
  <2> QED
    BY <2>1, <2>4, <2>6, <2>7, <2>8
<1>5. PulledIn(b) \in CopyCounts
  <2>1. DOMAIN PulledIn(b) = ImportAccounts /\ \A a \in ImportAccounts : DOMAIN PulledIn(b)[a] = Operations
    BY DEF PulledIn
  <2>2. PulledIn(b) = [a \in ImportAccounts |-> [o \in Operations |-> PulledIn(b)[a][o]]]
    BY DEF PulledIn
  <2> QED
    BY <1>4, <2>2 DEF CopyCounts
<1>6. ASSUME NEW k \in Keys PROVE OfKey(PulledIn(b), k) <= Cardinality(kept \cap KeyRows(b.feed, k))
  <2> DEFINE K == kept \cap KeyRows(b.feed, k)
             P == PlacesOf(k)
             p == [n \in K |-> <<routed[n].account, routed[n].operation>>]
             f == [at \in P |-> PulledIn(b)[at[1]][at[2]]]
  <2>1. OfKey(PulledIn(b), k) = SumFunctionOnSet(f, P)
    BY DEF OfKey
  <2>2. IsFiniteSet(K)
    <3>1. K \in SUBSET DOMAIN b.feed
      BY <1>2
    <3> QED
      BY <1>1, <3>1, PartFinite
  <2>3. ASSUME NEW at \in P
        PROVE  f[at] \in Nat /\ f[at] <= Cardinality({n \in K : p[n] = at})
    <3>1. /\ at[1] \in ImportAccounts /\ at[2] \in Operations
          /\ at = <<at[1], at[2]>> /\ KeyOf[at[2]] = k
      BY DEF PlacesOf
    <3>2. Copied(at[1], at[2]) = {n \in K : p[n] = at}
      <4>1. ASSUME NEW n, n \in Copied(at[1], at[2]) PROVE n \in K /\ p[n] = at
        <5>1. n \in kept /\ routed[n].account = at[1] /\ routed[n].operation = at[2]
          BY <4>1
        <5>2. n \in DOMAIN b.feed /\ b.feed[n].operation = at[2]
          BY <1>2, <1>3, <5>1
        <5>3. n \in KeyRows(b.feed, k)
          BY <3>1, <5>2 DEF KeyRows
        <5> QED
          BY <3>1, <5>1, <5>3
      <4>2. ASSUME NEW n \in K, p[n] = at PROVE n \in Copied(at[1], at[2])
        <5>1. <<routed[n].account, routed[n].operation>> = <<at[1], at[2]>> /\ n \in kept
          BY <3>1, <4>2
        <5>2. routed[n].account = at[1] /\ routed[n].operation = at[2]
          BY <5>1
        <5> QED
          BY <5>1, <5>2
      <4> HIDE DEF Copied, K, p
      <4>3. Copied(at[1], at[2]) \subseteq {n \in K : p[n] = at}
        BY <4>1
      <4>4. {n \in K : p[n] = at} \subseteq Copied(at[1], at[2])
        BY <4>2
      <4> QED
        BY <4>3, <4>4
    <3> QED
      BY <1>4, <3>1, <3>2
  <2>4. IsFiniteSet(P)
    BY PlacesFinite
  <2> HIDE DEF K, P, p, f
  <2>5. SumFunctionOnSet(f, P) <= Cardinality(K)
    BY <2>2, <2>3, <2>4, SumOfPlaced
  <2> QED
    BY <2>1, <2>5 DEF K
<1> QED
  BY <1>5, <1>6 DEF kept

-----------------------------------------------------------------------------
LEMMA InitImport == ImportInit => ImportInv
<1> SUFFICES ASSUME ImportInit PROVE ImportInv
  OBVIOUS
<1>1. Counted
  BY DEF ImportInit, Nothing, CopyCounts, Counted
<1>2. RepeatsImportNothing
  BY DEF RepeatsImportNothing, ImportInit, Nothing
<1>3. Pulling
  <2> SUFFICES ASSUME NEW k \in Keys PROVE DayCounts[k] = 0
    BY DEF ImportInit, Pulling, PullsRepeatNothing
  <2>1. OfKey(held, k) \in Nat
    BY <1>1, OfKeyAdds DEF Counted
  <2>2. held = entered
    BY DEF ImportInit
  <2> QED
    BY <2>1, <2>2 DEF DayCounts
<1> QED
  BY <1>1, <1>2, <1>3 DEF ImportInit, ImportInv, Reviewed, Previewed, Committed, Answers,
     ImportsCountCopies, NothingNewHeldBack

\* The rows of the tab are those that were flagged as they are.
LEMMA HeldBack ==
    /\ NothingNewHeldBack <=>
          (rows # None /\ ~checking /\ ~misflagged => Modest(rows, FlagsOf(rows)))
    /\ NothingNewHeldBack' <=>
          (rows # None /\ ~checking /\ ~misflagged => Modest(rows, FlagsOf(rows)))'
<1> DEFINE Flags(review, a, o) ==
             {n \in DOMAIN review : review[n].account = a /\ review[n].operation = o /\ review[n].duplicate}
           Same(review, a, o) ==
             {n \in DOMAIN review : review[n].account = a /\ review[n].operation = o
                                     /\ n \in DOMAIN FlagsOf(review) /\ FlagsOf(review)[n]}
<1>1. \A review, a, o : Flags(review, a, o) = Same(review, a, o)
  BY DEF FlagsOf
<1>2. NothingNewHeldBack <=>
          (rows # None /\ ~checking /\ ~misflagged => Modest(rows, FlagsOf(rows)))
  <2>1. NothingNewHeldBack <=>
          (rows # None /\ ~checking /\ ~misflagged =>
             \A a \in ImportAccounts, o \in Operations : Cardinality(Flags(rows, a, o)) <= held[a][o])
    BY DEF NothingNewHeldBack
  <2>2. Modest(rows, FlagsOf(rows)) <=>
          \A a \in ImportAccounts, o \in Operations : Cardinality(Same(rows, a, o)) <= held[a][o]
    BY DEF Modest
  <2> HIDE DEF Flags, Same
  <2> QED
    BY <1>1, <2>1, <2>2
<1>3. NothingNewHeldBack' <=>
          (rows # None /\ ~checking /\ ~misflagged => Modest(rows, FlagsOf(rows)))'
  <2>1. NothingNewHeldBack' <=>
          (rows' # None /\ ~checking' /\ ~misflagged' =>
             \A a \in ImportAccounts, o \in Operations : Cardinality(Flags(rows', a, o)) <= held'[a][o])
    BY DEF NothingNewHeldBack
  <2>2. Modest(rows, FlagsOf(rows))' <=>
          \A a \in ImportAccounts, o \in Operations : Cardinality(Same(rows', a, o)) <= held'[a][o]
    BY DEF Modest, FlagsOf
  <2> HIDE DEF Flags, Same
  <2> QED
    BY <1>1, <2>1, <2>2
<1> QED
  BY <1>2, <1>3

\* Flags stay modest when accounts hold more, and for the same rows.
LEMMA ModestStays ==
    ASSUME NEW review, review \in Seq(Row), NEW flags, Modest(review, flags),
           held \in CopyCounts, held' \in CopyCounts,
           \A a \in ImportAccounts, o \in Operations : held[a][o] <= held'[a][o]
    PROVE  Modest(review, flags)'
<1> SUFFICES ASSUME NEW a \in ImportAccounts, NEW o \in Operations
             PROVE  Cardinality({n \in DOMAIN review : review[n].account = a /\ review[n].operation = o
                                   /\ n \in DOMAIN flags /\ flags[n]}) <= held'[a][o]
  BY DEF Modest
<1> DEFINE set == {n \in DOMAIN review : review[n].account = a /\ review[n].operation = o
                                         /\ n \in DOMAIN flags /\ flags[n]}
<1>1. Cardinality(set) \in Nat
  BY PartFinite
<1>2. Cardinality(set) <= held[a][o] /\ held[a][o] <= held'[a][o]
  BY DEF Modest
<1>3. held[a][o] \in Nat /\ held'[a][o] \in Nat
  BY DEF CopyCounts
<1> HIDE DEF set
<1>4. Cardinality(set) <= held'[a][o]
  BY <1>1, <1>2, <1>3
<1> QED
  BY <1>4 DEF set

\* Rows take flags, and those of rows like them fit.
LEMMA FlaggedAlike ==
    ASSUME NEW review, review \in Seq(Row), NEW flags
    PROVE  /\ Flagged(review, flags) \in Seq(Row)
           /\ SameRows(review, Flagged(review, flags))
           /\ \A asked : SameRows(asked, review) /\ Modest(asked, flags)
                           => Modest(Flagged(review, flags), FlagsOf(Flagged(review, flags)))
<1> DEFINE new == Flagged(review, flags)
<1>1. \A n \in DOMAIN review :
         /\ review[n] \in Row
         /\ new[n] = [review[n] EXCEPT !.duplicate = n \in DOMAIN flags /\ flags[n]]
  BY DEF Flagged
<1>2. DOMAIN new = DOMAIN review /\ DOMAIN review = 1 .. Len(review) /\ Len(review) \in Nat
      /\ new = [n \in DOMAIN review |-> new[n]]
  BY DEF Flagged
<1> HIDE DEF new
<1>3. \A n \in DOMAIN review :
         /\ new[n] \in Row /\ new[n].account = review[n].account /\ new[n].operation = review[n].operation
         /\ new[n].duplicate <=> n \in DOMAIN flags /\ flags[n]
  BY <1>1 DEF Row
<1>4. new \in Seq(Row)
  BY <1>2, <1>3
<1>5. SameRows(review, new)
  BY <1>2, <1>3 DEF SameRows
<1>6. ASSUME NEW asked, SameRows(asked, review), Modest(asked, flags) PROVE Modest(new, FlagsOf(new))
  <2> SUFFICES ASSUME NEW a \in ImportAccounts, NEW o \in Operations
               PROVE  Cardinality({n \in DOMAIN new : new[n].account = a /\ new[n].operation = o
                                   /\ n \in DOMAIN FlagsOf(new) /\ FlagsOf(new)[n]}) <= held[a][o]
    BY DEF Modest
  <2>1. {n \in DOMAIN new : new[n].account = a /\ new[n].operation = o
                            /\ n \in DOMAIN FlagsOf(new) /\ FlagsOf(new)[n]}
        = {n \in DOMAIN asked : asked[n].account = a /\ asked[n].operation = o
                                /\ n \in DOMAIN flags /\ flags[n]}
    BY <1>2, <1>3, <1>6 DEF FlagsOf, SameRows
  <2> QED
    BY <1>6, <2>1 DEF Modest
<1> QED
  BY <1>4, <1>5, <1>6 DEF new

-----------------------------------------------------------------------------
\* What happens outside of the counts.
LEMMA CountsStay ==
    ASSUME ImportInv, UNCHANGED importLedger
    PROVE  Counted' /\ Pulling' /\ RepeatsImportNothing' /\ \A review, flags : Modest(review, flags) => Modest(review, flags)'
<1>1. UNCHANGED <<held, entered, imported, owed, behind, due, batches>>
  BY DEF importLedger
<1>2. Counted' /\ RepeatsImportNothing' /\ \A review, flags : Modest(review, flags) => Modest(review, flags)'
  BY <1>1 DEF ImportInv, Counted, ImportsCountCopies, RepeatsImportNothing, Modest
<1>3. Pulling'
  BY <1>1 DEF ImportInv, Pulling, PullsRepeatNothing, DayCounts, OfKey
<1> QED
  BY <1>2, <1>3

\* Accounts hold more, and the tab stays as it is.
LEMMA HeldGrows ==
    ASSUME ImportInv, held' \in CopyCounts, \A a \in ImportAccounts, o \in Operations : held[a][o] <= held'[a][o],
           UNCHANGED <<rows, checking, checkEpoch, previews, checks, misflagged>>
    PROVE  Reviewed' /\ Previewed' /\ Answers' /\ NothingNewHeldBack'
<1>1. ASSUME NEW review \in Seq(Row), NEW flags, Modest(review, flags) PROVE Modest(review, flags)'
  BY <1>1, ModestStays DEF ImportInv, Counted
<1>2. Reviewed'
  BY DEF ImportInv, Reviewed
<1>3. Previewed'
  BY <1>1 DEF ImportInv, Previewed, FlagsOf
<1>4. Answers'
  BY <1>1 DEF ImportInv, Answers, IsLatest
<1>5. NothingNewHeldBack'
  <2>1. rows # None /\ ~checking /\ ~misflagged => Modest(rows, FlagsOf(rows))
    BY HeldBack DEF ImportInv, ImportsCountCopies
  <2>2. rows # None => rows \in Seq(Row)
    BY DEF ImportInv, Reviewed
  <2>3. PICK review : review = rows
    OBVIOUS
  <2>4. rows # None /\ ~checking /\ ~misflagged => Modest(review, FlagsOf(review))'
    BY <1>1, <2>1, <2>2, <2>3
  <2> QED
    BY <2>3, <2>4, HeldBack
<1> QED
  BY <1>2, <1>3, <1>4, <1>5

\* The tab stays as it is, but for what it waits for.
LEMMA ReviewStays ==
    ASSUME ImportInv, UNCHANGED <<held, rows, checking, misflagged>>
    PROVE  NothingNewHeldBack'
BY HeldBack DEF ImportInv, ImportsCountCopies, Modest, FlagsOf

LEMMA PreviewsStay ==
    ASSUME ImportInv, UNCHANGED held, previews' \subseteq previews PROVE Previewed'
BY DEF ImportInv, Previewed, Modest

LEMMA ChecksStay ==
    ASSUME ImportInv, UNCHANGED <<held, rows, checkEpoch>>, checks' \subseteq checks PROVE Answers'
BY DEF ImportInv, Answers, Modest, IsLatest

LEMMA CommitsStay ==
    ASSUME ImportInv, UNCHANGED imported, commits' \subseteq commits PROVE Committed'
BY DEF ImportInv, Committed, CommitShaped, LookBehind

LEMMA RowsStay ==
    ASSUME ImportInv, UNCHANGED <<rows, checkEpoch>> PROVE Reviewed'
BY DEF ImportInv, Reviewed

LEMMA SameAsItself == ASSUME NEW review PROVE SameRows(review, review)
BY DEF SameRows

-----------------------------------------------------------------------------
(* Previews.                                                               *)

LEMMA PickFileKeeps ==
    ASSUME ImportInv, NEW file \in Statements, PickFile(file) PROVE ImportInv'
<1>1. /\ previews' = previews \cup {[file |-> file, at |-> steps, answer |-> None]}
      /\ UNCHANGED <<held, rows, checking, checkEpoch, checks, commits, importLedger, imported, misflagged>>
  BY DEF PickFile, importLedger
<1>2. Previewed'
  BY <1>1 DEF ImportInv, Previewed, Modest
<1> QED
  BY <1>1, <1>2, CountsStay, ReviewStays, ChecksStay, CommitsStay, RowsStay DEF ImportInv, ImportsCountCopies

LEMMA PreviewReadKeeps ==
    ASSUME ImportInv, NEW p \in previews, PreviewRead(p) PROVE ImportInv'
<1> DEFINE review == [n \in DOMAIN p.file |->
                        [operation |-> p.file[n].operation, account |-> p.file[n].account,
                         duplicate |-> FALSE]]
           answer == Flagged(review, Duplicates(review))
<1>1. /\ previews' = (previews \ {p}) \cup {[p EXCEPT !.answer = answer]}
      /\ UNCHANGED <<held, rows, checking, checkEpoch, checks, commits, importLedger, imported, misflagged>>
  BY DEF PreviewRead, importLedger
<1>2. review \in Seq(Row)
  <2>1. p.file \in Seq([operation : Operations, account : ImportAccounts \cup {None}])
    BY StatementImportAssumption DEF ImportInv, Previewed
  <2>2. DOMAIN p.file = 1 .. Len(p.file) /\ Len(p.file) \in Nat
    BY <2>1
  <2>3. ASSUME NEW n \in DOMAIN p.file PROVE review[n] \in Row
    <3>0. n \in 1 .. Len(p.file)
      BY <2>2
    <3>1. p.file[n] \in [operation : Operations, account : ImportAccounts \cup {None}]
      BY <2>1, <3>0, InSeq
    <3> HIDE DEF review
    <3>2. review[n] = [operation |-> p.file[n].operation, account |-> p.file[n].account,
                       duplicate |-> FALSE]
      BY DEF review
    <3> QED
      BY <3>1, <3>2 DEF Row
  <2>4. DOMAIN review = DOMAIN p.file /\ review = [n \in DOMAIN review |-> review[n]]
    OBVIOUS
  <2> HIDE DEF review
  <2> QED
    BY <2>2, <2>3, <2>4
<1> HIDE DEF review
<1>3. answer \in Seq(Row) /\ Modest(answer, FlagsOf(answer))
  <2>1. Modest(review, Duplicates(review))
    BY <1>2, FlaggedAtMostHeld, StatementImportAssumption DEF ImportInv, Counted
  <2> QED
    BY <1>2, <2>1, FlaggedAlike, SameAsItself
<1> HIDE DEF answer
<1>4. Modest(answer, FlagsOf(answer)) /\ p = [file |-> p.file, at |-> p.at, answer |-> p.answer] /\ p.file \in Statements
  BY <1>3 DEF ImportInv, Previewed
<1>5. PICK a, q : a = answer /\ q = [file |-> p.file, at |-> p.at, answer |-> a]
  OBVIOUS
<1>6. [p EXCEPT !.answer = answer] = q
  BY <1>4, <1>5
<1>7. Modest(a, FlagsOf(a))'
  BY <1>1, <1>3, <1>5 DEF Modest, FlagsOf
<1>8. Previewed'
  <2> SUFFICES ASSUME NEW s \in previews'
               PROVE  /\ s = [file |-> s.file, at |-> s.at, answer |-> s.answer] /\ s.file \in Statements
                      /\ s.answer # None => s.answer \in Seq(Row) /\ Modest(s.answer, FlagsOf(s.answer))'
    BY DEF Previewed
  <2>1. CASE s \in previews
    BY <1>1, <2>1 DEF ImportInv, Previewed, Modest, FlagsOf
  <2>2. CASE s = q
    BY <1>3, <1>4, <1>5, <1>7, <2>2
  <2> QED
    BY <1>1, <1>6, <2>1, <2>2
<1> QED
  BY <1>1, <1>8, CountsStay, ReviewStays, ChecksStay, CommitsStay, RowsStay DEF ImportInv, ImportsCountCopies

LEMMA PreviewReturnsKeeps ==
    ASSUME ImportInv, NEW p \in previews, PreviewReturns(p) PROVE ImportInv'
<1>1. /\ p.answer # None /\ rows' = p.answer /\ previews' \subseteq previews
      /\ misflagged' = checking /\ checks' = {[c EXCEPT !.overtaken = TRUE] : c \in checks}
      /\ UNCHANGED <<held, checking, checkEpoch, commits, importLedger, imported>>
  BY DEF PreviewReturns, importLedger
<1>2. p.answer \in Seq(Row) /\ Modest(p.answer, FlagsOf(p.answer))
  BY <1>1 DEF ImportInv, Previewed
<1>3. NothingNewHeldBack'
  <2>1. Modest(rows, FlagsOf(rows))'
    BY <1>1, <1>2 DEF Modest, FlagsOf
  <2> QED
    BY <2>1, HeldBack
<1>4. Reviewed'
  BY <1>1, <1>2 DEF ImportInv, Reviewed
<1>5. Answers'
  <2> SUFFICES ASSUME NEW c \in checks, NEW d, d = [c EXCEPT !.overtaken = TRUE]
               PROVE  /\ d = [epoch |-> d.epoch, rows |-> d.rows, answer |-> d.answer, overtaken |-> d.overtaken]
                      /\ d.rows \in Seq(Row) /\ d.epoch \in Nat /\ d.epoch <= checkEpoch /\ d.overtaken
                      /\ d.answer # None => Modest(d.rows, d.answer)'
    BY <1>1, <1>2 DEF Answers
  <2>1. /\ c = [epoch |-> c.epoch, rows |-> c.rows, answer |-> c.answer, overtaken |-> c.overtaken]
        /\ c.rows \in Seq(Row) /\ c.epoch \in Nat /\ c.epoch <= checkEpoch
        /\ c.answer # None => Modest(c.rows, c.answer)
    BY DEF ImportInv, Answers
  <2>2. c.answer # None => Modest(c.rows, c.answer)'
    BY <1>1, <2>1 DEF Modest
  <2>3. /\ d = [epoch |-> c.epoch, rows |-> c.rows, answer |-> c.answer, overtaken |-> TRUE]
        /\ d.rows = c.rows /\ d.answer = c.answer /\ d.epoch = c.epoch /\ d.overtaken = TRUE
    BY <2>1
  <2> QED
    BY <2>1, <2>2, <2>3
<1> QED
  BY <1>1, <1>3, <1>4, <1>5, CountsStay, PreviewsStay, CommitsStay DEF ImportInv, ImportsCountCopies

LEMMA PreviewFailsKeeps ==
    ASSUME ImportInv, NEW p \in previews, PreviewFails(p) PROVE ImportInv'
<1>1. /\ previews' \subseteq previews
      /\ UNCHANGED <<held, rows, checking, checkEpoch, checks, commits, importLedger, imported, misflagged>>
  BY DEF PreviewFails, importLedger
<1> QED
  BY <1>1, CountsStay, ReviewStays, PreviewsStay, ChecksStay, CommitsStay, RowsStay
     DEF ImportInv, ImportsCountCopies

-----------------------------------------------------------------------------
(* Duplicate checks.                                                       *)

LEMMA ChangeAccountKeeps ==
    ASSUME ImportInv, rows # None, NEW n \in DOMAIN rows, NEW account \in ImportAccounts,
           ChangeAccount(n, account)
    PROVE  ImportInv'
<1> DEFINE new == [epoch |-> checkEpoch', rows |-> rows', answer |-> None, overtaken |-> FALSE]
<1>1. /\ rows' = [rows EXCEPT ![n].account = account]
      /\ checkEpoch' = checkEpoch + 1 /\ checking' = TRUE /\ checks' = checks \cup {new}
      /\ UNCHANGED <<held, previews, commits, importLedger, imported, misflagged>>
  BY DEF ChangeAccount, importLedger
<1>2. rows' \in Seq(Row) /\ checkEpoch \in Nat
  <2>1. rows \in Seq(Row) /\ rows[n] \in Row /\ checkEpoch \in Nat
    BY DEF ImportInv, Reviewed
  <2>2. [rows[n] EXCEPT !.account = account] \in Row
    BY <2>1 DEF Row
  <2>3. rows' = [rows EXCEPT ![n] = [rows[n] EXCEPT !.account = account]]
    BY <1>1
  <2> QED
    BY <2>1, <2>2, <2>3
<1>3. NothingNewHeldBack'
  BY <1>1 DEF NothingNewHeldBack
<1>4. Reviewed'
  BY <1>1, <1>2 DEF Reviewed
<1>5. PICK made : made = new
  OBVIOUS
<1>6. /\ made = [epoch |-> made.epoch, rows |-> made.rows, answer |-> made.answer, overtaken |-> made.overtaken]
      /\ made.rows = rows' /\ made.epoch = checkEpoch' /\ made.answer = None /\ made.overtaken = FALSE
  BY <1>5
<1> HIDE DEF new
<1>8. Answers'
  <2> SUFFICES ASSUME NEW c \in checks'
               PROVE  /\ c = [epoch |-> c.epoch, rows |-> c.rows, answer |-> c.answer, overtaken |-> c.overtaken]
                      /\ c.rows \in Seq(Row) /\ c.epoch \in Nat /\ c.epoch <= checkEpoch' /\ c.overtaken \in BOOLEAN
                      /\ c.answer # None => Modest(c.rows, c.answer)'
                      /\ rows' \in Seq(Row) /\ (c.epoch = checkEpoch' /\ ~c.overtaken => SameRows(c.rows, rows'))
    BY DEF Answers, IsLatest, SameRows
  <2>1. CASE c \in checks
    <3>1. /\ c = [epoch |-> c.epoch, rows |-> c.rows, answer |-> c.answer, overtaken |-> c.overtaken]
          /\ c.rows \in Seq(Row) /\ c.epoch \in Nat /\ c.epoch <= checkEpoch /\ c.overtaken \in BOOLEAN
          /\ c.answer # None => Modest(c.rows, c.answer)
      BY <2>1 DEF ImportInv, Answers
    <3>2. c.answer # None => Modest(c.rows, c.answer)'
      BY <1>1, <3>1 DEF Modest
    <3> QED
      BY <1>1, <1>2, <3>1, <3>2
  <2>2. CASE c = made
    <3>1. SameRows(c.rows, rows')
      BY <1>6, <2>2 DEF SameRows
    <3> QED
      <4>1. checkEpoch' \in Nat /\ c.epoch = checkEpoch' /\ c.rows \in Seq(Row)
        BY <1>1, <1>2, <1>6, <2>2
      <4>2. c.answer = None /\ c.overtaken = FALSE
        BY <1>6, <2>2
      <4>3. c = [epoch |-> c.epoch, rows |-> c.rows, answer |-> c.answer, overtaken |-> c.overtaken]
        BY <1>6, <2>2
      <4>4. c.epoch \in Nat /\ c.epoch <= checkEpoch'
        BY <4>1
      <4>5. c.overtaken \in BOOLEAN
        BY <4>2
      <4> QED
        BY <1>2, <3>1, <4>1, <4>2, <4>3, <4>4, <4>5, Zenon
  <2> QED
    BY <1>1, <1>5, <2>1, <2>2
<1> QED
  BY <1>1, <1>3, <1>4, <1>8, CountsStay, PreviewsStay, CommitsStay DEF ImportInv, ImportsCountCopies

LEMMA CheckReadKeeps ==
    ASSUME ImportInv, NEW c \in checks, CheckRead(c) PROVE ImportInv'
<1>1. /\ checks' = (checks \ {c}) \cup {[c EXCEPT !.answer = Duplicates(c.rows)]}
      /\ UNCHANGED <<held, rows, checking, checkEpoch, previews, commits, importLedger, imported, misflagged>>
  BY DEF CheckRead, importLedger
<1>2. /\ c = [epoch |-> c.epoch, rows |-> c.rows, answer |-> c.answer, overtaken |-> c.overtaken]
      /\ c.rows \in Seq(Row) /\ c.epoch \in Nat /\ c.epoch <= checkEpoch /\ c.overtaken \in BOOLEAN
      /\ rows \in Seq(Row) /\ (IsLatest(c) /\ ~c.overtaken => SameRows(c.rows, rows))
  BY DEF ImportInv, Answers
<1>3. PICK answer : answer = Duplicates(c.rows)
  OBVIOUS
<1>4. Modest(c.rows, answer)
  BY <1>2, <1>3, FlaggedAtMostHeld, StatementImportAssumption DEF ImportInv, Counted
<1>5. Modest(c.rows, answer)'
  BY <1>1, <1>4 DEF Modest
<1>6. PICK d : /\ checks' = (checks \ {c}) \cup {d}
               /\ d = [epoch |-> c.epoch, rows |-> c.rows, answer |-> answer, overtaken |-> c.overtaken]
  <2> DEFINE d == [c EXCEPT !.answer = answer]
  <2>1. d = [epoch |-> c.epoch, rows |-> c.rows, answer |-> answer, overtaken |-> c.overtaken]
    BY <1>2
  <2>2. checks' = (checks \ {c}) \cup {d}
    BY <1>1, <1>3
  <2> QED
    BY <2>1, <2>2
<1>7. Answers'
  <2> SUFFICES ASSUME NEW s \in checks'
               PROVE  /\ s = [epoch |-> s.epoch, rows |-> s.rows, answer |-> s.answer, overtaken |-> s.overtaken]
                      /\ s.rows \in Seq(Row) /\ s.epoch \in Nat /\ s.epoch <= checkEpoch /\ s.overtaken \in BOOLEAN
                      /\ s.answer # None => Modest(s.rows, s.answer)'
                      /\ rows \in Seq(Row) /\ (s.epoch = checkEpoch /\ ~s.overtaken => SameRows(s.rows, rows))
    BY <1>1 DEF Answers, IsLatest, SameRows
  <2>1. CASE s \in checks
    BY <1>1, <2>1 DEF ImportInv, Answers, IsLatest, Modest
  <2>2. CASE s = d
    BY <1>2, <1>5, <1>6, <2>2 DEF IsLatest
  <2> QED
    BY <1>6, <2>1, <2>2
<1> QED
  BY <1>1, <1>7, CountsStay, ReviewStays, PreviewsStay, CommitsStay, RowsStay DEF ImportInv, ImportsCountCopies

LEMMA CheckReturnsKeeps ==
    ASSUME ImportInv, NEW c \in checks, CheckReturns(c) PROVE ImportInv'
<1>1. /\ c.answer # None /\ checks' = checks \ {c}
      /\ UNCHANGED <<held, checkEpoch, previews, commits, importLedger, imported>>
  BY DEF CheckReturns, importLedger
<1>2. CASE ~IsLatest(c)
  <2>1. UNCHANGED <<rows, checking, misflagged>>
    BY <1>2 DEF CheckReturns
  <2> QED
    BY <1>1, <2>1, CountsStay, ReviewStays, PreviewsStay, ChecksStay, CommitsStay, RowsStay
       DEF ImportInv, ImportsCountCopies
<1>3. CASE IsLatest(c)
  <2>1. rows' = Flagged(rows, c.answer) /\ checking' = FALSE /\ misflagged' = c.overtaken
    BY <1>3 DEF CheckReturns
  <2>2. rows \in Seq(Row) /\ c.overtaken \in BOOLEAN
        /\ (c.overtaken = FALSE => Modest(c.rows, c.answer) /\ SameRows(c.rows, rows))
    BY <1>1, <1>3 DEF ImportInv, Answers
  <2>3. rows' \in Seq(Row) /\ SameRows(rows, rows')
        /\ (c.overtaken = FALSE => Modest(rows', FlagsOf(rows')))
    BY <2>1, <2>2, FlaggedAlike
  <2>4. NothingNewHeldBack'
    <3>1. c.overtaken = FALSE => Modest(rows, FlagsOf(rows))'
      BY <1>1, <2>3 DEF Modest, FlagsOf
    <3> QED
      BY <2>1, <2>2, <3>1, HeldBack
  <2>5. Answers'
    <3> SUFFICES ASSUME NEW s \in checks
                 PROVE  /\ s = [epoch |-> s.epoch, rows |-> s.rows, answer |-> s.answer, overtaken |-> s.overtaken]
                        /\ s.rows \in Seq(Row) /\ s.epoch \in Nat /\ s.epoch <= checkEpoch /\ s.overtaken \in BOOLEAN
                        /\ s.answer # None => Modest(s.rows, s.answer)'
                        /\ s.epoch = checkEpoch /\ ~s.overtaken => SameRows(s.rows, rows')
      BY <1>1, <2>3 DEF Answers, IsLatest, SameRows
    <3>1. /\ s = [epoch |-> s.epoch, rows |-> s.rows, answer |-> s.answer, overtaken |-> s.overtaken]
          /\ s.rows \in Seq(Row) /\ s.epoch \in Nat /\ s.epoch <= checkEpoch /\ s.overtaken \in BOOLEAN
          /\ s.answer # None => Modest(s.rows, s.answer)
          /\ s.epoch = checkEpoch /\ ~s.overtaken => SameRows(s.rows, rows)
      BY DEF ImportInv, Answers, IsLatest
    <3>2. s.answer # None => Modest(s.rows, s.answer)'
      BY <1>1, <3>1 DEF Modest
    <3>3. SameRows(s.rows, rows) => SameRows(s.rows, rows')
      BY <2>3 DEF SameRows
    <3> QED
      BY <3>1, <3>2, <3>3
  <2>6. Reviewed'
    BY <1>1, <2>3 DEF ImportInv, Reviewed
  <2> QED
    BY <1>1, <2>4, <2>5, <2>6, CountsStay, PreviewsStay, CommitsStay DEF ImportInv, ImportsCountCopies
<1> QED
  BY <1>2, <1>3

LEMMA CheckFailsKeeps ==
    ASSUME ImportInv, NEW c \in checks, CheckFails(c) PROVE ImportInv'
<1>1. /\ checks' \subseteq checks
      /\ UNCHANGED <<held, rows, checkEpoch, previews, commits, importLedger, imported>>
  BY DEF CheckFails, importLedger
<1>2. NothingNewHeldBack'
  <2>1. CASE IsLatest(c)
    BY <2>1 DEF CheckFails, NothingNewHeldBack
  <2>2. CASE ~IsLatest(c)
    BY <1>1, <2>2, ReviewStays DEF CheckFails
  <2> QED
    BY <2>1, <2>2
<1> QED
  BY <1>1, <1>2, CountsStay, PreviewsStay, ChecksStay, CommitsStay, RowsStay DEF ImportInv, ImportsCountCopies

-----------------------------------------------------------------------------
(* Commits.                                                                *)

\* What was counted stays behind what is held and inserted.
LEMMA CommitsAlike ==
    ASSUME ImportInv, imported' \in CopyCounts,
           \A a \in ImportAccounts, o \in Operations : imported[a][o] <= imported'[a][o],
           \A d \in commits' : \E c \in commits : CommitShaped(d) /\ d.review = c.review /\ d.look = c.look
    PROVE  Committed'
<1>1. ASSUME NEW look, LookBehind(look) PROVE LookBehind(look)'
  <2>1. \A o \in Operations :
           /\ look.seen[o] \in Nat /\ imported[look.account][o] \in Nat /\ imported'[look.account][o] \in Nat
           /\ look.seen[o] <= imported[look.account][o]
           /\ imported[look.account][o] <= imported'[look.account][o]
    BY <1>1 DEF LookBehind, ImportInv, Counted, CopyCounts
  <2>2. \A o \in Operations : look.seen[o] <= imported'[look.account][o]
    BY <2>1
  <2> QED
    BY <1>1, <2>2 DEF LookBehind
<1> SUFFICES ASSUME NEW d \in commits'
             PROVE  /\ CommitShaped(d)
                    /\ \A n \in DOMAIN d.review : d.review[n].account \in ImportAccounts
                    /\ d.look # None => LookBehind(d.look)'
  BY DEF Committed, CommitShaped
<1>2. PICK c \in commits : CommitShaped(d) /\ d.review = c.review /\ d.look = c.look
  OBVIOUS
<1>3. /\ \A n \in DOMAIN c.review : c.review[n].account \in ImportAccounts
      /\ c.look # None => LookBehind(c.look)
  BY DEF ImportInv, Committed
<1> QED
  BY <1>1, <1>2, <1>3

LEMMA CommitKeeps ==
    ASSUME ImportInv, Commit PROVE ImportInv'
<1> DEFINE new == [at |-> steps, sent |-> Fresh(rows), review |-> rows, look |-> None,
                   open |-> TRUE, answered |-> FALSE]
<1>1. /\ rows # None /\ commits' = commits \cup {new}
      /\ \A n \in DOMAIN rows : rows[n].account # None
      /\ UNCHANGED <<held, rows, checking, checkEpoch, previews, checks, importLedger, misflagged>>
  BY DEF Commit, AllAssigned, importLedger
<1>2. PICK made : made = new
  OBVIOUS
<1>3. /\ CommitShaped(made) /\ made.look = None
      /\ \A n \in DOMAIN made.review : made.review[n].account \in ImportAccounts
  <2>1. rows \in Seq(Row) /\ \A n \in DOMAIN rows : rows[n] \in Row
    BY <1>1 DEF ImportInv, Reviewed
  <2>2. \A n \in DOMAIN rows : rows[n].account \in ImportAccounts
    BY <1>1, <2>1 DEF Row
  <2> QED
    BY <1>2, <2>1, <2>2 DEF Fresh, CommitShaped
<1> HIDE DEF new
<1>4. Committed'
  <2>1. UNCHANGED imported
    BY <1>1 DEF importLedger
  <2> QED
    BY <1>1, <1>2, <1>3, <2>1 DEF ImportInv, Committed, CommitShaped, LookBehind
<1> QED
  BY <1>1, <1>4, CountsStay, ReviewStays, PreviewsStay, ChecksStay, RowsStay DEF ImportInv, ImportsCountCopies

LEMMA CountsFirstKeeps ==
    ASSUME ImportInv, NEW c \in commits, NEW n \in c.sent, CountsFirst(c, n) PROVE ImportInv'
<1> DEFINE account == c.review[n].account
           look == [account |-> account, known |-> held[account], seen |-> imported[account]]
<1>1. UNCHANGED <<held, rows, checking, checkEpoch, previews, checks, importLedger, misflagged>>
  BY DEF CountsFirst, importTab, importLedger
<1>2. /\ CommitShaped(c) /\ c.look = None
      /\ \A m \in DOMAIN c.review : c.review[m].account \in ImportAccounts
  BY DEF ImportInv, Committed, CountsFirst
<1>3. account \in ImportAccounts
  BY <1>2 DEF CommitShaped
<1>4. LookBehind(look)
  <2>1. /\ held[account] \in [Operations -> Nat] /\ imported[account] \in [Operations -> Nat]
        /\ \A o \in Operations : imported[account][o] <= held[account][o]
    BY <1>3 DEF ImportInv, Counted, CopyCounts
  <2> HIDE DEF account
  <2> QED
    BY <1>3, <2>1 DEF LookBehind
<1>5. PICK d : /\ commits' = (commits \ {c}) \cup {d} /\ CommitShaped(d) /\ d.review = c.review
               /\ d.look = None \/ d.look = look
  <2>0. c = [at |-> c.at, sent |-> c.sent, review |-> c.review, look |-> c.look,
            open |-> c.open, answered |-> c.answered]
    BY <1>2 DEF CommitShaped
  <2>1. \E s : \/ commits' = (commits \ {c}) \cup {[c EXCEPT !.look = look]}
               \/ commits' = (commits \ {c}) \cup {[c EXCEPT !.sent = c.sent \ s]}
    BY DEF CountsFirst
  <2> HIDE DEF look
  <2>2. CASE commits' = (commits \ {c}) \cup {[c EXCEPT !.look = look]}
    <3>1. [c EXCEPT !.look = look] = [at |-> c.at, sent |-> c.sent, review |-> c.review, look |-> look,
                                       open |-> c.open, answered |-> c.answered]
      BY <1>2 DEF CommitShaped
    <3>2. PICK d : d = [at |-> c.at, sent |-> c.sent, review |-> c.review, look |-> look,
                        open |-> c.open, answered |-> c.answered]
      OBVIOUS
    <3>3. CommitShaped(d) /\ d.review = c.review /\ d.look = look
      BY <1>2, <3>2 DEF CommitShaped
    <3> QED
      BY <2>2, <3>1, <3>2, <3>3
  <2>3. ASSUME NEW s, commits' = (commits \ {c}) \cup {[c EXCEPT !.sent = c.sent \ s]}
        PROVE  \E d : /\ commits' = (commits \ {c}) \cup {d} /\ CommitShaped(d) /\ d.review = c.review
                      /\ d.look = None
    <3>1. [c EXCEPT !.sent = c.sent \ s] = [at |-> c.at, sent |-> c.sent \ s, review |-> c.review,
                                             look |-> c.look, open |-> c.open, answered |-> c.answered]
      BY <2>0
    <3>2. PICK d : d = [at |-> c.at, sent |-> c.sent \ s, review |-> c.review, look |-> c.look,
                        open |-> c.open, answered |-> c.answered]
      OBVIOUS
    <3>3. CommitShaped(d) /\ d.review = c.review /\ d.look = None
      BY <1>2, <3>2 DEF CommitShaped
    <3> QED
      BY <2>3, <3>1, <3>2, <3>3
  <2> QED
    BY <2>1, <2>2, <2>3
<1>6. Committed'
  <2>1. UNCHANGED imported
    BY <1>1 DEF importLedger
  <2>2. d.look # None => LookBehind(d.look)
    BY <1>4, <1>5
  <2> HIDE DEF look
  <2> QED
    BY <1>2, <1>5, <2>1, <2>2 DEF ImportInv, Committed, CommitShaped, LookBehind
<1> QED
  BY <1>1, <1>6, CountsStay, ReviewStays, PreviewsStay, ChecksStay, RowsStay DEF ImportInv, ImportsCountCopies

\* A commit inserts what it sent beyond what the account had: no more than was held when
\* it counted lies between them.
LEMMA CommitInserts ==
    ASSUME ImportInv, NEW c \in commits, NEW a \in ImportAccounts, NEW o \in Operations
    PROVE  LET ins == NewCopies(c)[a][o]
               whole == Copies(c.review, DOMAIN c.review, a, o)
           IN  /\ ins \in Nat /\ whole \in Nat
               /\ IF c.look # None /\ c.look.account = a
                  THEN /\ c.look.seen[o] \in Nat /\ c.look.seen[o] <= imported[a][o]
                       /\ ins = 0 \/ c.look.seen[o] + ins <= whole
                  ELSE ins = 0 \/ imported[a][o] + ins <= whole
<1> DEFINE sent == Copies(c.review, c.sent, a, o)
           whole == Copies(c.review, DOMAIN c.review, a, o)
           had == Had(c)[a][o]
           ins == NewCopies(c)[a][o]
<1>1. CommitShaped(c) /\ (c.look # None => LookBehind(c.look))
  BY DEF ImportInv, Committed
<1>2. sent \in Nat /\ whole \in Nat /\ sent <= whole
  BY <1>1, CopiesGrow DEF CommitShaped
<1>3. held[a][o] \in Nat /\ imported[a][o] \in Nat /\ imported[a][o] <= held[a][o]
  BY DEF ImportInv, Counted, CopyCounts
<1>4. ins = Max({0, sent - had})
  BY DEF NewCopies
<1>5. CASE c.look # None /\ c.look.account = a
  <2>1. had = c.look.known[o]
    BY <1>5 DEF Had
  <2>2. c.look.known[o] \in Nat /\ c.look.seen[o] \in Nat /\ c.look.seen[o] <= c.look.known[o]
        /\ c.look.seen[o] <= imported[a][o]
    BY <1>1, <1>5 DEF LookBehind
  <2> HIDE DEF sent, whole, had, ins
  <2>3. sent - had \in Int
    BY <1>2, <2>1, <2>2
  <2>4. ins \in Int /\ ins >= 0 /\ (ins = 0 \/ ins = sent - had)
    BY <1>4, <2>3, MaxOfTwo
  <2>5. ins \in Nat /\ (ins = 0 \/ c.look.seen[o] + ins <= whole)
    BY <1>2, <2>1, <2>2, <2>4
  <2> QED
    BY <1>2, <1>5, <2>2, <2>5 DEF ins, whole
<1>6. CASE ~(c.look # None /\ c.look.account = a)
  <2>1. had = held[a][o]
    BY <1>6 DEF Had
  <2> HIDE DEF sent, whole, had, ins
  <2>3. sent - had \in Int
    BY <1>2, <1>3, <2>1
  <2>4. ins \in Int /\ ins >= 0 /\ (ins = 0 \/ ins = sent - had)
    BY <1>4, <2>3, MaxOfTwo
  <2>5. ins \in Nat /\ (ins = 0 \/ imported[a][o] + ins <= whole)
    BY <1>2, <1>3, <2>1, <2>4
  <2> QED
    BY <1>2, <1>6, <2>5 DEF ins, whole
<1> QED
  BY <1>5, <1>6

LEMMA CommitDoneKeeps ==
    ASSUME ImportInv, NEW c \in commits, CommitDone(c) PROVE ImportInv'
<1> DEFINE ins == NewCopies(c)
           whole(a, o) == Copies(c.review, DOMAIN c.review, a, o)
           most(a, o) == Max({owed[a][o], whole(a, o)})
           mine(a) == c.look # None /\ c.look.account = a
           rest(a, o) == IF mine(a) THEN behind[a][o] + (imported[a][o] - c.look.seen[o]) ELSE behind[a][o]
<1>1. /\ held' = Plus(held, ins) /\ imported' = Plus(imported, ins)
      /\ due' = [k \in Keys |-> due[k] + OfKey(ins, k)]
      /\ owed' = [a \in ImportAccounts |-> [o \in Operations |-> most(a, o)]]
      /\ behind' = [a \in ImportAccounts |-> [o \in Operations |-> rest(a, o)]]
      /\ UNCHANGED <<rows, checking, checkEpoch, previews, checks, misflagged, entered, batches>>
  BY DEF CommitDone, importTab
<1>2. \A a \in ImportAccounts, o \in Operations : ins[a][o] \in Nat
  BY CommitInserts
<1>3. ins \in CopyCounts
  <2>1. ins = [a \in ImportAccounts |-> [o \in Operations |-> ins[a][o]]]
    BY DEF NewCopies
  <2> HIDE DEF ins
  <2> QED
    BY <1>2, <2>1 DEF CopyCounts
<1>4. /\ held \in CopyCounts /\ owed \in CopyCounts /\ imported \in CopyCounts /\ behind \in CopyCounts
      /\ entered \in CopyCounts
  BY DEF ImportInv, Counted
<1>5. ASSUME NEW a \in ImportAccounts, NEW o \in Operations
      PROVE  /\ most(a, o) \in Nat /\ rest(a, o) \in Nat
             /\ imported'[a][o] <= held'[a][o] /\ imported'[a][o] <= most(a, o) + rest(a, o)
  <2>1. /\ ins[a][o] \in Nat /\ whole(a, o) \in Nat
        /\ mine(a) => /\ c.look.seen[o] \in Nat /\ c.look.seen[o] <= imported[a][o]
                      /\ ins[a][o] = 0 \/ c.look.seen[o] + ins[a][o] <= whole(a, o)
        /\ ~mine(a) => ins[a][o] = 0 \/ imported[a][o] + ins[a][o] <= whole(a, o)
    BY CommitInserts
  <2>2. /\ owed[a][o] \in Nat /\ behind[a][o] \in Nat /\ imported[a][o] \in Nat /\ held[a][o] \in Nat
        /\ imported[a][o] <= held[a][o] /\ imported[a][o] <= owed[a][o] + behind[a][o]
    BY DEF ImportInv, Counted, CopyCounts, ImportsCountCopies, RepeatsImportNothing
  <2>3. imported'[a][o] = imported[a][o] + ins[a][o] /\ held'[a][o] = held[a][o] + ins[a][o]
    BY <1>1, <1>3, <1>4, PutTogether
  <2> HIDE DEF whole, mine, ins
  <2>4. most(a, o) \in Int /\ most(a, o) >= owed[a][o] /\ most(a, o) >= whole(a, o)
    BY <2>1, <2>2, MaxOfTwo
  <2> HIDE DEF most
  <2>5. CASE mine(a)
    <3>1. rest(a, o) = behind[a][o] + (imported[a][o] - c.look.seen[o])
      BY <2>5
    <3> HIDE DEF rest
    <3> QED
      BY <2>1, <2>2, <2>3, <2>4, <2>5, <3>1
  <2>6. CASE ~mine(a)
    <3>1. rest(a, o) = behind[a][o]
      BY <2>6
    <3> HIDE DEF rest
    <3> QED
      BY <2>1, <2>2, <2>3, <2>4, <2>6, <3>1
  <2> QED
    BY <2>5, <2>6
<1>6. held' \in CopyCounts /\ imported' \in CopyCounts
      /\ \A a \in ImportAccounts, o \in Operations :
            held[a][o] <= held'[a][o] /\ imported[a][o] <= imported'[a][o]
  BY <1>1, <1>3, <1>4, PutTogether
<1>7. Pulling'
  <2> SUFFICES ASSUME NEW k \in Keys PROVE due'[k] \in Int /\ DayCounts'[k] <= due'[k]
    BY <1>1 DEF ImportInv, Pulling, PullsRepeatNothing
  <2>1. DayCounts[k] \in Int /\ OfKey(ins, k) \in Nat /\ DayCounts'[k] = DayCounts[k] + OfKey(ins, k)
    BY <1>1, <1>3, <1>4, DayCountsGrow
  <2>2. due[k] \in Int /\ DayCounts[k] <= due[k]
    BY DEF ImportInv, Pulling, PullsRepeatNothing
  <2> HIDE DEF ins
  <2> QED
    BY <1>1, <2>1, <2>2
<1>8. Committed'
  <2>1. CommitShaped(c)
    BY DEF ImportInv, Committed
  <2>0. c = [at |-> c.at, sent |-> c.sent, review |-> c.review, look |-> c.look,
            open |-> c.open, answered |-> c.answered]
    BY <2>1 DEF CommitShaped
  <2>2. PICK d : d = [c EXCEPT !.answered = TRUE]
    OBVIOUS
  <2>3. d = [at |-> c.at, sent |-> c.sent, review |-> c.review, look |-> c.look,
             open |-> c.open, answered |-> TRUE]
    BY <2>0, <2>2
  <2>4. CommitShaped(d) /\ d.review = c.review /\ d.look = c.look
    BY <2>1, <2>3 DEF CommitShaped
  <2>5. \A e \in commits' : e \in commits \/ e = d
    BY <2>2, <2>3 DEF CommitDone
  <2>6. \A e \in commits : CommitShaped(e)
    BY DEF ImportInv, Committed
  <2> QED
    BY <1>6, <2>4, <2>5, <2>6, CommitsAlike
<1> HIDE DEF ins, most, rest
<1>9. Counted' /\ RepeatsImportNothing'
  <2>1. owed' \in CopyCounts /\ behind' \in CopyCounts /\ entered' \in CopyCounts
    BY <1>1, <1>4, <1>5 DEF CopyCounts
  <2>2. \A a \in ImportAccounts, o \in Operations :
           imported'[a][o] <= held'[a][o] /\ imported'[a][o] <= owed'[a][o] + behind'[a][o]
    BY <1>1, <1>5
  <2> QED
    BY <1>6, <2>1, <2>2 DEF Counted, RepeatsImportNothing
<1> QED
  BY <1>1, <1>6, <1>7, <1>8, <1>9, HeldGrows DEF ImportInv, ImportsCountCopies

\* Requests go on when nobody waits for them.
LEMMA NobodyWaits ==
    ASSUME ImportInv, UNCHANGED imported,
           \A d \in commits' : d \in commits \/ \E c \in commits : d = [c EXCEPT !.open = FALSE]
    PROVE  Committed'
<1>1. imported \in CopyCounts /\ \A c \in commits : CommitShaped(c)
  BY DEF ImportInv, Counted, Committed
<1>2. \A a \in ImportAccounts, o \in Operations : imported[a][o] <= imported'[a][o]
  BY <1>1 DEF CopyCounts
<1>3. ASSUME NEW c \in commits, NEW d, d = [c EXCEPT !.open = FALSE]
      PROVE  CommitShaped(d) /\ d.review = c.review /\ d.look = c.look
  <2>0. c = [at |-> c.at, sent |-> c.sent, review |-> c.review, look |-> c.look,
            open |-> c.open, answered |-> c.answered]
    BY <1>1 DEF CommitShaped
  <2>1. d = [at |-> c.at, sent |-> c.sent, review |-> c.review, look |-> c.look,
             open |-> FALSE, answered |-> c.answered]
    BY <1>3, <2>0
  <2> QED
    BY <1>1, <2>1 DEF CommitShaped
<1>4. \A d \in commits' : \E c \in commits : CommitShaped(d) /\ d.review = c.review /\ d.look = c.look
  BY <1>1, <1>3
<1> QED
  BY <1>1, <1>2, <1>4, CommitsAlike

\* The tab starts anew.
LEMMA BlankKeeps ==
    ASSUME ImportInv, Blank, UNCHANGED importLedger, NEW S \in SUBSET commits, commits' = Abandoned(S)
    PROVE  ImportInv'
<1>1. /\ rows' = None /\ checking' = FALSE /\ checkEpoch' = 0
      /\ previews' = {} /\ checks' = {} /\ misflagged' = FALSE
  BY DEF Blank
<1>2. Reviewed' /\ Previewed' /\ Answers' /\ NothingNewHeldBack'
  BY <1>1 DEF Reviewed, Previewed, Answers, NothingNewHeldBack
<1>3. Committed'
  <2>1. UNCHANGED imported
    BY DEF importLedger
  <2>2. \A d \in commits' : \E c \in commits : d = [c EXCEPT !.open = FALSE]
    BY DEF Abandoned
  <2> QED
    BY <2>1, <2>2, NobodyWaits
<1> QED
  BY <1>2, <1>3, CountsStay DEF ImportInv, ImportsCountCopies

LEMMA CommitEndsKeeps ==
    ASSUME ImportInv, NEW c \in commits, CommitFails(c) \/ CommitGivenUp(c) PROVE ImportInv'
<1>1. UNCHANGED <<held, rows, checking, checkEpoch, previews, checks, importLedger, misflagged>>
  BY DEF CommitFails, CommitGivenUp, importLedger
<1>2. UNCHANGED imported /\ \A d \in commits' : d \in commits \/ d = [c EXCEPT !.open = FALSE]
  BY <1>1 DEF CommitFails, CommitGivenUp, importLedger
<1>3. Committed'
  BY <1>2, NobodyWaits
<1> QED
  BY <1>1, <1>3, CountsStay, ReviewStays, PreviewsStay, ChecksStay, RowsStay
     DEF ImportInv, ImportsCountCopies

-----------------------------------------------------------------------------
(* The ledger grows elsewhere.                                             *)

\* Accounts hold more that no commit inserted.
LEMMA LedgerGrows ==
    ASSUME ImportInv, held' \in CopyCounts, entered' \in CopyCounts, Pulling',
           \A a \in ImportAccounts, o \in Operations : held[a][o] <= held'[a][o],
           UNCHANGED <<importTab, imported, owed, behind, commits>>
    PROVE  ImportInv'
<1>1. UNCHANGED <<rows, checking, checkEpoch, previews, checks, misflagged>>
  BY DEF importTab
<1>2. \A a \in ImportAccounts, o \in Operations :
         /\ imported[a][o] \in Nat /\ held[a][o] \in Nat /\ held'[a][o] \in Nat
         /\ imported[a][o] <= held[a][o] /\ held[a][o] <= held'[a][o]
  BY DEF ImportInv, Counted, CopyCounts
<1>3. \A a \in ImportAccounts, o \in Operations : imported[a][o] <= held'[a][o]
  BY <1>2
<1>4. Counted' /\ RepeatsImportNothing'
  BY <1>3 DEF ImportInv, Counted, ImportsCountCopies, RepeatsImportNothing
<1> QED
  BY <1>1, <1>4, HeldGrows, CommitsStay DEF ImportInv, ImportsCountCopies

LEMMA EnterElsewhereKeeps ==
    ASSUME ImportInv, NEW a \in ImportAccounts, NEW o \in Operations, EnterElsewhere(a, o) PROVE ImportInv'
<1> DEFINE one == [b \in ImportAccounts |-> [q \in Operations |-> IF b = a /\ q = o THEN 1 ELSE 0]]
<1>1. /\ entered' = [entered EXCEPT ![a][o] = @ + 1] /\ held' = [held EXCEPT ![a][o] = @ + 1]
      /\ UNCHANGED <<importTab, imported, owed, behind, due, batches, commits>>
  BY DEF EnterElsewhere
<1>2. held \in CopyCounts /\ entered \in CopyCounts /\ one \in CopyCounts
  BY DEF ImportInv, Counted, CopyCounts
<1>3. ASSUME NEW counts \in CopyCounts
      PROVE  [counts EXCEPT ![a][o] = @ + 1] = Plus(counts, one)
  <2> DEFINE new == [counts EXCEPT ![a][o] = @ + 1]
             sum == Plus(counts, one)
  <2>1. /\ new = [b \in ImportAccounts |-> new[b]] /\ sum = [b \in ImportAccounts |-> sum[b]]
        /\ \A b \in ImportAccounts : /\ new[b] = [q \in Operations |-> new[b][q]]
                                     /\ sum[b] = [q \in Operations |-> sum[b][q]]
    BY DEF Plus, CopyCounts
  <2>2. \A b \in ImportAccounts, q \in Operations : new[b][q] = sum[b][q]
    BY DEF Plus, CopyCounts
  <2> HIDE DEF new, sum
  <2>3. \A b \in ImportAccounts : new[b] = sum[b]
    BY <2>1, <2>2
  <2> QED
    BY <2>1, <2>3 DEF new, sum
<1>4. held' = Plus(held, one) /\ entered' = Plus(entered, one)
  BY <1>1, <1>2, <1>3
<1> HIDE DEF one
<1>5. held' \in CopyCounts /\ entered' \in CopyCounts
      /\ \A b \in ImportAccounts, q \in Operations : held[b][q] <= held'[b][q]
  BY <1>2, <1>4, PutTogether
<1>6. Pulling'
  <2>1. ASSUME NEW k \in Keys PROVE DayCounts'[k] = DayCounts[k]
    <3>1. DayCounts[k] = OfKey(held, k) - OfKey(entered, k)
      BY DEF DayCounts
    <3>2. DayCounts'[k] = OfKey(Plus(held, one), k) - OfKey(Plus(entered, one), k)
      BY <1>4 DEF DayCounts, OfKey
    <3>3. /\ OfKey(held, k) \in Nat /\ OfKey(entered, k) \in Nat /\ OfKey(one, k) \in Nat
          /\ OfKey(Plus(held, one), k) = OfKey(held, k) + OfKey(one, k)
          /\ OfKey(Plus(entered, one), k) = OfKey(entered, k) + OfKey(one, k)
      BY <1>2, OfKeyAdds
    <3> QED
      BY <3>1, <3>2, <3>3
  <2> QED
    BY <1>1, <2>1 DEF ImportInv, Pulling, PullsRepeatNothing
<1> QED
  BY <1>1, <1>5, <1>6, LedgerGrows

LEMMA BatchLandsKeeps ==
    ASSUME ImportInv, NEW b \in batches, BatchLands(b) PROVE ImportInv'
<1> DEFINE more == PulledIn(b)
           rose(k) == Cardinality(KeyRows(b.feed, k)) + (DayCounts[k] - b.known[k])
<1>1. /\ batches' = batches \ {b} /\ held' = Plus(held, more)
      /\ due' = [k \in Keys |-> Max({due[k], rose(k)})]
      /\ UNCHANGED <<importTab, entered, imported, owed, behind, commits>>
  BY DEF BatchLands
<1>2. /\ b.feed \in Statements /\ b.known \in [Keys -> Int]
      /\ held \in CopyCounts /\ entered \in CopyCounts
  BY DEF ImportInv, Counted, Pulling
<1>3. more \in CopyCounts
  BY <1>2, BroughtFew
<1>4. held' \in CopyCounts /\ \A a \in ImportAccounts, o \in Operations : held[a][o] <= held'[a][o]
  BY <1>1, <1>2, <1>3, PutTogether
<1>5. ASSUME NEW k \in Keys PROVE due'[k] \in Int /\ DayCounts'[k] <= due'[k]
  <2> DEFINE all == Cardinality(KeyRows(b.feed, k))
             kept == Cardinality(Unseen(b) \cap KeyRows(b.feed, k))
             known == b.known[k]
  <2>1. DayCounts[k] \in Int /\ OfKey(more, k) \in Nat /\ DayCounts'[k] = DayCounts[k] + OfKey(more, k)
    BY <1>1, <1>2, <1>3, DayCountsGrow
  <2>2. OfKey(more, k) <= kept
    BY <1>2, BroughtFew
  <2>3. known \in Int
    BY <1>2
  <2>4. kept \in Nat /\ all \in Nat /\ (kept = 0 \/ kept <= all - known)
    BY <1>2, <2>3, KeptFew, FS_CardinalityType
  <2>5. due[k] \in Int /\ DayCounts[k] <= due[k]
    BY DEF ImportInv, Pulling, PullsRepeatNothing
  <2>6. due'[k] = Max({due[k], rose(k)}) /\ rose(k) = all + (DayCounts[k] - known)
    BY <1>1
  <2> HIDE DEF more, all, kept, known, rose
  <2>7. rose(k) \in Int
    BY <2>1, <2>3, <2>4, <2>6
  <2>8. due'[k] \in Int /\ due'[k] >= due[k] /\ due'[k] >= rose(k)
    BY <2>5, <2>6, <2>7, MaxOfTwo
  <2>9. CASE kept = 0
    BY <2>1, <2>2, <2>5, <2>8, <2>9
  <2>10. CASE kept <= all - known
    BY <2>1, <2>2, <2>3, <2>4, <2>6, <2>7, <2>8, <2>10
  <2> QED
    BY <2>4, <2>8, <2>9, <2>10
<1>6. Pulling'
  BY <1>1, <1>5 DEF ImportInv, Pulling, PullsRepeatNothing
<1> QED
  BY <1>1, <1>2, <1>4, <1>6, LedgerGrows

LEMMA BatchWaitsKeeps ==
    ASSUME ImportInv, UNCHANGED <<importTab, held, entered, imported, owed, behind, due, commits>>,
           \A b \in batches' : b \in batches \/ (b.feed \in Statements /\ b.known = DayCounts)
    PROVE  ImportInv'
<1>1. held \in CopyCounts /\ entered \in CopyCounts
  BY DEF ImportInv, Counted
<1>2. \A k \in Keys : DayCounts[k] \in Int
  BY <1>1, OfKeyAdds DEF DayCounts
<1>3. DayCounts \in [Keys -> Int] /\ DayCounts' = DayCounts
  <2>1. DayCounts = [k \in Keys |-> DayCounts[k]]
    BY DEF DayCounts
  <2>2. DayCounts' = DayCounts
    BY DEF DayCounts, OfKey
  <2> QED
    BY <1>2, <2>1, <2>2
<1>4. Pulling'
  BY <1>3 DEF ImportInv, Pulling, PullsRepeatNothing
<1>5. held' \in CopyCounts /\ \A a \in ImportAccounts, o \in Operations : held[a][o] <= held'[a][o]
  BY <1>1 DEF CopyCounts
<1> QED
  BY <1>1, <1>4, <1>5, LedgerGrows

-----------------------------------------------------------------------------
LEMMA NextImport == ImportInv /\ [ImportNext]_importVars => ImportInv'
<1> SUFFICES ASSUME ImportInv, [ImportNext]_importVars PROVE ImportInv'
  OBVIOUS
<1>1. ASSUME NEW file \in Statements, PickFile(file) PROVE ImportInv'
  BY <1>1, PickFileKeeps
<1>2. ASSUME NEW p \in previews, PreviewRead(p) \/ PreviewReturns(p) \/ PreviewFails(p) PROVE ImportInv'
  BY <1>2, PreviewReadKeeps, PreviewReturnsKeeps, PreviewFailsKeeps
<1>3. ASSUME rows # None, NEW n \in DOMAIN rows, NEW a \in ImportAccounts, ChangeAccount(n, a) PROVE ImportInv'
  BY <1>3, ChangeAccountKeeps
<1>4. ASSUME NEW c \in checks, CheckRead(c) \/ CheckReturns(c) \/ CheckFails(c) PROVE ImportInv'
  BY <1>4, CheckReadKeeps, CheckReturnsKeeps, CheckFailsKeeps
<1>5. CASE Commit
  BY <1>5, CommitKeeps
<1>6. CASE Close
  BY <1>6, BlankKeeps DEF Close
<1>7. ASSUME NEW c \in commits, CommitDone(c) \/ CommitReturns(c) \/ CommitFails(c) \/ CommitGivenUp(c)
      PROVE  ImportInv'
  <2>1. CASE CommitReturns(c)
    BY <2>1, BlankKeeps DEF CommitReturns
  <2> QED
    BY <1>7, <2>1, CommitDoneKeeps, CommitEndsKeeps
<1>8. ASSUME NEW c \in commits, NEW n \in c.sent, CountsFirst(c, n) PROVE ImportInv'
  BY <1>8, CountsFirstKeeps
<1>9. ASSUME NEW a \in ImportAccounts, NEW o \in Operations, EnterElsewhere(a, o) PROVE ImportInv'
  BY <1>9, EnterElsewhereKeeps
<1>10. ASSUME NEW a \in ImportAccounts, NEW feed \in Statements, BatchCounts(a, feed) PROVE ImportInv'
  <2>1. /\ batches' = batches \cup {[at |-> steps, account |-> a, feed |-> feed, known |-> DayCounts]}
        /\ UNCHANGED <<importTab, held, entered, imported, owed, behind, due, commits>>
    BY <1>10 DEF BatchCounts
  <2>2. \A b \in batches' : b \in batches \/ (b.feed \in Statements /\ b.known = DayCounts)
    BY <2>1
  <2> QED
    BY <2>1, <2>2, BatchWaitsKeeps
<1>11. ASSUME NEW b \in batches, BatchLands(b) \/ BatchFails(b) PROVE ImportInv'
  <2>1. CASE BatchFails(b)
    BY <2>1, BatchWaitsKeeps DEF BatchFails
  <2> QED
    BY <1>11, <2>1, BatchLandsKeeps
<1>12. CASE UNCHANGED importVars
  <2>1. UNCHANGED <<held, rows, checking, checkEpoch, previews, checks, commits, importLedger, imported, misflagged>>
    BY <1>12 DEF importVars, importTab, importLedger
  <2> QED
    BY <2>1, CountsStay, ReviewStays, PreviewsStay, ChecksStay, CommitsStay, RowsStay
       DEF ImportInv, ImportsCountCopies
<1> QED
  BY <1>1, <1>2, <1>3, <1>4, <1>5, <1>6, <1>7, <1>8, <1>9, <1>10, <1>11, <1>12 DEF ImportNext

\* An import neither drops a new operation nor takes an old one twice, whatever answers
\* are late or lost and whichever requests are handled after they were given up, but for
\* copies another commit inserted between the count of one and its write (ImportPanel,
\* _mark_duplicates, commit_rows): for any accounts and statements.
THEOREM CopiesCounted == ImportSpec => []ImportsCountCopies
<1>1. ImportInv => ImportsCountCopies
  BY DEF ImportInv
<1> QED
  BY InitImport, NextImport, <1>1, PTL DEF ImportSpec

\* A bank operation that comes again, by another pull, in another account or with another
\* wording, is not taken again (drop_already_present, _route_rows, commit_rows): for any
\* accounts, statements and wordings.
THEOREM PullsTakenOnce == ImportSpec => []PullsRepeatNothing
<1>1. ImportInv => PullsRepeatNothing
  BY DEF ImportInv, Pulling
<1> QED
  BY InitImport, NextImport, <1>1, PTL DEF ImportSpec

-----------------------------------------------------------------------------
(* The admin desk.  One statement runs at a time, and it and the prompt are *)
(* about the text as it stands, unless that was changed under them; an armed *)
(* button is about the rows that are ticked.                               *)

CallShaped(c) ==
    c = [fn |-> c.fn, n |-> c.n, to |-> c.to, at |-> c.at, stamp |-> c.stamp, user |-> c.user,
         ids |-> c.ids, sure |-> c.sure, stmt |-> c.stmt, about |-> c.about, dry |-> c.dry,
         lists |-> c.lists, rows |-> c.rows, verdict |-> c.verdict]

\* What a call says of the statement it carries, or of the rows it deletes.
Honest(c) ==
    /\ c.fn = "sql" =>
          /\ console.busy /\ (c.stmt = console.sql \/ swapped)
          /\ c.about # None => c.about = c.stmt \/ swapped
    /\ c.fn = "txDelete" => c.ids = c.sure

Calls == \A c \in adminCalls : CallShaped(c) /\ Honest(c)

OneRun == \A c, d \in adminCalls : c.fn = "sql" /\ d.fn = "sql" => c = d

Prompted ==
    /\ console = [sql |-> console.sql, pending |-> console.pending, busy |-> console.busy,
                  history |-> console.history]
    /\ console.busy \in BOOLEAN /\ swapped \in BOOLEAN
    /\ console.pending # None => console.pending = console.sql \/ swapped

TabShaped(tab) ==
    /\ tab = [number |-> tab.number, user |-> tab.user, rows |-> tab.rows,
              selected |-> tab.selected, armed |-> tab.armed, sure |-> tab.sure,
              busy |-> tab.busy, account |-> tab.account]
    /\ tab.armed \in BOOLEAN

Ticked == txTab # None => TabShaped(txTab) /\ (txTab.armed => txTab.sure = txTab.selected)

AdminInv == Calls /\ OneRun /\ Prompted /\ Ticked

-----------------------------------------------------------------------------
LEMMA InitAdmin == AdminInit => AdminInv
<1> SUFFICES ASSUME AdminInit PROVE AdminInv
  OBVIOUS
<1>1. Calls /\ OneRun /\ Ticked
  BY DEF AdminInit, Calls, OneRun, Ticked
<1>2. console = [sql |-> None, pending |-> None, busy |-> FALSE, history |-> {}] /\ swapped = FALSE
  BY DEF AdminInit
<1>3. Prompted
  BY <1>2 DEF Prompted
<1> QED
  BY <1>1, <1>3 DEF AdminInv

\* A call that neither runs a statement nor deletes rows.
Innocent(d) == CallShaped(d) /\ d.fn \notin {"sql", "txDelete"}

\* d does for the statement or the rows what c does.
SameErrand(c, d) ==
    CallShaped(d) /\ d.fn = c.fn /\ d.stmt = c.stmt /\ d.about = c.about /\ d.ids = c.ids /\ d.sure = c.sure

LEMMA RequestShaped ==
    ASSUME NEW fn, NEW n, NEW to
    PROVE  CallShaped(Request(fn, n, to)) /\ Request(fn, n, to).fn = fn
BY DEF CallShaped, Request

\* Requests, but for what is filled in.
Asked(fn, n, to, who, ids, sure, stmt, about) ==
    [fn : {fn}, n : {n}, to : {to}, at : {"sent"}, stamp : {0}, user : {None, who}, ids : {{}, ids},
     sure : {{}, sure}, stmt : {None, stmt}, about : {None, about}, dry : BOOLEAN,
     lists : {None}, rows : {None}, verdict : {None}]

LEMMA AskedShaped ==
    ASSUME NEW fn, NEW n, NEW to, NEW who, NEW ids, NEW sure, NEW stmt, NEW about,
           NEW d \in Asked(fn, n, to, who, ids, sure, stmt, about)
    PROVE  CallShaped(d) /\ d.fn = fn
BY DEF CallShaped, Asked

LEMMA RequestAsks ==
    ASSUME NEW fn, NEW n, NEW to, NEW who, NEW ids, NEW sure, NEW stmt, NEW about
    PROVE  Request(fn, n, to) \in Asked(fn, n, to, who, ids, sure, stmt, about)
BY DEF Request, Asked

\* Nothing happens to the console, and no statement or deletion is asked for.
LEMMA ElsewhereKeeps ==
    ASSUME AdminInv, UNCHANGED <<console, swapped>>, Ticked',
           \A d \in adminCalls' : d \in adminCalls \/ Innocent(d)
    PROVE  AdminInv'
<1>1. Calls'
  BY DEF AdminInv, Calls, Honest, Innocent
<1>2. OneRun'
  BY DEF AdminInv, OneRun, Innocent
<1>3. Prompted'
  BY DEF AdminInv, Prompted
<1> QED
  BY <1>1, <1>2, <1>3 DEF AdminInv

\* A call goes on to another stage.
LEMMA CallGoesOnKeeps ==
    ASSUME AdminInv, NEW c \in adminCalls, NEW d, adminCalls' = (adminCalls \ {c}) \cup {d},
           SameErrand(c, d), UNCHANGED <<console, swapped, txTab>>
    PROVE  AdminInv'
<1>1. Calls'
  BY DEF AdminInv, Calls, Honest, SameErrand
<1>2. OneRun'
  BY DEF AdminInv, OneRun, SameErrand
<1>3. Prompted' /\ Ticked'
  BY DEF AdminInv, Prompted, Ticked
<1> QED
  BY <1>1, <1>2, <1>3 DEF AdminInv

\* Calls like c, but for what is answered.
CallLike(c, stamp, lists, shownRows, verdict) ==
    [fn : {c.fn}, n : {c.n}, to : {c.to}, at : {c.at, "done"}, stamp : {c.stamp, stamp},
     user : {c.user}, ids : {c.ids}, sure : {c.sure}, stmt : {c.stmt}, about : {c.about},
     dry : {c.dry}, lists : {c.lists, lists}, rows : {c.rows, shownRows}, verdict : {c.verdict, verdict}]

LEMMA LikeIsSame ==
    ASSUME NEW c, NEW stamp, NEW lists, NEW shownRows, NEW verdict, NEW d \in CallLike(c, stamp, lists, shownRows, verdict)
    PROVE  SameErrand(c, d)
BY DEF CallLike, SameErrand, CallShaped

\* The server reads, deletes or runs a statement.
LEMMA ServesKeeps ==
    ASSUME AdminInv, NEW c \in adminCalls, AdminServes(c) PROVE AdminInv'
<1>1. UNCHANGED <<console, swapped, txTab>>
  BY DEF AdminServes, adminGhosts
<1>2. CallShaped(c)
  BY DEF AdminInv, Calls
<1>3. CASE ReadAdmin(c)
  <2>1. PICK lists, shownRows, d : /\ adminCalls' = (adminCalls \ {c}) \cup {d}
            /\ d = [c EXCEPT !.at = "done", !.stamp = clock + 1, !.lists = lists, !.rows = shownRows]
    BY <1>3 DEF ReadAdmin
  <2>2. c \in CallLike(c, clock + 1, lists, shownRows, None)
    BY <1>2 DEF CallShaped, CallLike
  <2>3. d \in CallLike(c, clock + 1, lists, shownRows, None)
    BY <2>1, <2>2 DEF CallLike
  <2> QED
    BY <1>1, <2>1, <2>3, LikeIsSame, CallGoesOnKeeps
<1>4. CASE DeleteUser(c) \/ DeleteRows(c)
  <2>1. PICK d : /\ adminCalls' = (adminCalls \ {c}) \cup {d}
                 /\ d = [c EXCEPT !.at = "done", !.stamp = clock + 1]
    BY <1>4 DEF DeleteUser, DeleteRows, Done
  <2>2. c \in CallLike(c, clock + 1, None, None, None)
    BY <1>2 DEF CallShaped, CallLike
  <2>3. d \in CallLike(c, clock + 1, None, None, None)
    BY <2>1, <2>2 DEF CallLike
  <2> QED
    BY <1>1, <2>1, <2>3, LikeIsSame, CallGoesOnKeeps
<1>5. CASE ExecuteSql(c)
  <2>1. PICK verdict, d : /\ adminCalls' = (adminCalls \ {c}) \cup {d}
            /\ d = [c EXCEPT !.at = "done", !.stamp = clock + 1, !.verdict = verdict]
    BY <1>5 DEF ExecuteSql
  <2>2. c \in CallLike(c, clock + 1, None, None, verdict)
    BY <1>2 DEF CallShaped, CallLike
  <2>3. d \in CallLike(c, clock + 1, None, None, verdict)
    BY <2>1, <2>2 DEF CallLike
  <2> QED
    BY <1>1, <2>1, <2>3, LikeIsSame, CallGoesOnKeeps
<1> QED
  BY <1>3, <1>4, <1>5 DEF AdminServes

-----------------------------------------------------------------------------
(* The page.                                                               *)

LEMMA PageKeeps ==
    ASSUME AdminInv, EnterPage \/ LeavePage \/ \E u \in AdminUsers : OpenDetail(u) \/ RemoveUser(u) \/ MouseLeaves(u)
    PROVE  AdminInv'
<1>1. UNCHANGED <<console, swapped, txTab>>
  BY DEF EnterPage, LeavePage, OpenDetail, RemoveUser, MouseLeaves, adminGhosts
<1>2. ASSUME NEW d \in adminCalls' PROVE d \in adminCalls \/ Innocent(d)
  <2>1. CASE EnterPage
    <3>1. d \in adminCalls \/ \E again \in {FALSE, ticked} :
                 d = Request(IF again THEN "relists" ELSE "lists", adminAsked, adminAsked)
      BY <1>2, <2>1 DEF EnterPage, Asks
    <3>2. d \in adminCalls \/ d = Request("relists", adminAsked, adminAsked)
              \/ d = Request("lists", adminAsked, adminAsked)
      BY <3>1
    <3> QED
      BY <3>2, RequestShaped DEF Innocent
  <2>2. ASSUME NEW u \in AdminUsers, OpenDetail(u) PROVE d \in adminCalls \/ Innocent(d)
    <3> DEFINE asked == [Request("detail", adminAsked, adminPage.mount) EXCEPT !.user = u]
    <3>1. adminCalls' = adminCalls \/ adminCalls' = adminCalls \cup {asked}
      BY <2>2 DEF OpenDetail, Asks
    <3>2. asked \in Asked("detail", adminAsked, adminPage.mount, u, {}, {}, None, None)
      <4>1. Request("detail", adminAsked, adminPage.mount)
               \in Asked("detail", adminAsked, adminPage.mount, u, {}, {}, None, None)
        BY RequestAsks
      <4> QED
        BY <4>1 DEF Asked
    <3> HIDE DEF asked
    <3>3. Innocent(asked)
      BY <3>2, AskedShaped DEF Innocent
    <3> QED
      BY <1>2, <3>1, <3>3
  <2>3. ASSUME NEW u \in AdminUsers, RemoveUser(u) PROVE d \in adminCalls \/ Innocent(d)
    <3> DEFINE asked == [Request("deleteUser", adminAsked, adminPage.mount) EXCEPT !.user = u]
    <3>1. adminCalls' = adminCalls \/ adminCalls' = adminCalls \cup {asked}
      BY <2>3 DEF RemoveUser, Asks
    <3>2. asked \in Asked("deleteUser", adminAsked, adminPage.mount, u, {}, {}, None, None)
      <4>1. Request("deleteUser", adminAsked, adminPage.mount)
               \in Asked("deleteUser", adminAsked, adminPage.mount, u, {}, {}, None, None)
        BY RequestAsks
      <4> QED
        BY <4>1 DEF Asked
    <3> HIDE DEF asked
    <3>3. Innocent(asked)
      BY <3>2, AskedShaped DEF Innocent
    <3> QED
      BY <1>2, <3>1, <3>3
  <2> QED
    BY <1>2, <2>1, <2>2, <2>3 DEF LeavePage, MouseLeaves
<1>3. Ticked'
  BY <1>1 DEF AdminInv, Ticked
<1> QED
  BY <1>1, <1>2, <1>3, ElsewhereKeeps

-----------------------------------------------------------------------------
(* The transactions of a user.                                             *)

\* Tabs like tab, but for what is given.
TabLike(tab, shownRows, selected, sure, account) ==
    [number : {tab.number}, user : {tab.user}, rows : {tab.rows, shownRows},
     selected : {tab.selected, selected}, armed : BOOLEAN, sure : {tab.sure, sure},
     busy : {tab.busy, TRUE, FALSE}, account : {tab.account, account}]

LEMMA LikeIsShaped ==
    ASSUME NEW tab, NEW shownRows, NEW selected, NEW sure, NEW account,
           NEW t \in TabLike(tab, shownRows, selected, sure, account)
    PROVE  TabShaped(t)
BY DEF TabLike, TabShaped

LEMMA InTabKeeps ==
    ASSUME AdminInv, UNCHANGED <<console, swapped, adminCalls>>, Ticked' PROVE AdminInv'
BY ElsewhereKeeps

LEMMA TickingKeeps ==
    ASSUME AdminInv, txTab # None, NEW selected, NEW account, UNCHANGED <<console, swapped, adminCalls>>,
           \/ txTab' = [txTab EXCEPT !.armed = FALSE, !.selected = selected]
           \/ txTab' = [txTab EXCEPT !.armed = FALSE, !.account = account]
    PROVE  AdminInv'
<1>1. txTab \in TabLike(txTab, None, selected, None, account)
  BY DEF AdminInv, Ticked, TabShaped, TabLike
<1>2. txTab' \in TabLike(txTab, None, selected, None, account) /\ ~txTab'.armed
  BY <1>1 DEF TabLike
<1>3. TabShaped(txTab')
  BY <1>2, LikeIsShaped
<1>4. Ticked'
  BY <1>2, <1>3 DEF Ticked, TabShaped
<1> QED
  BY <1>4, InTabKeeps

LEMMA TabKeeps ==
    ASSUME AdminInv, \/ \E r \in AdminRows : ToggleRow(r)
                 \/ ToggleAllVisible \/ CloseTxTab
                 \/ \E a \in {RowAccount[r] : r \in AdminRows} \cup {None} : FilterRows(a)
    PROVE  AdminInv'
<1>1. UNCHANGED <<console, swapped, adminCalls>>
  BY DEF ToggleRow, ToggleAllVisible, CloseTxTab, FilterRows, Ticking, InTab, adminGhosts
<1>2. CASE (\E r \in AdminRows : ToggleRow(r)) \/ ToggleAllVisible
  <2>1. txTab # None /\ \E selected : txTab' = [txTab EXCEPT !.armed = FALSE, !.selected = selected]
    BY <1>2 DEF ToggleRow, ToggleAllVisible, Ticking, InTab
  <2> QED
    BY <1>1, <2>1, TickingKeeps
<1>3. ASSUME NEW a, FilterRows(a) PROVE AdminInv'
  <2>1. txTab # None /\ txTab' = [txTab EXCEPT !.armed = FALSE, !.account = a]
    BY <1>3 DEF FilterRows, InTab
  <2> QED
    BY <1>1, <2>1, TickingKeeps
<1>4. CASE CloseTxTab
  BY <1>1, <1>4, InTabKeeps DEF CloseTxTab, InTab, Ticked
<1> QED
  BY <1>2, <1>3, <1>4

\* "Manage" opens the tab.
LEMMA ManageKeeps == ASSUME AdminInv, Manage PROVE AdminInv'
<1>1. UNCHANGED <<console, swapped>>
  BY DEF Manage, adminGhosts
<1>2. Ticked'
  BY DEF Manage, Ticked, TabShaped
<1>3. ASSUME NEW d \in adminCalls' PROVE d \in adminCalls \/ Innocent(d)
  <2> DEFINE asked == [Request("txLoad", adminAsked, adminAsked) EXCEPT !.user = OpenUser]
             S     == Asked("txLoad", adminAsked, adminAsked, OpenUser, {}, {}, None, None)
  <2>1. adminCalls' = adminCalls \cup {asked}
    BY DEF Manage, Asks
  <2>2. Request("txLoad", adminAsked, adminAsked) \in S
    BY RequestAsks
  <2>3. asked \in S
    BY <2>2 DEF Asked
  <2> HIDE DEF asked
  <2>4. Innocent(asked)
    BY <2>3, AskedShaped DEF Innocent
  <2> QED
    BY <1>3, <2>1, <2>4
<1> QED
  BY <1>1, <1>2, <1>3, ElsewhereKeeps

\* The first click arms the button for the rows that are ticked, the second deletes them.
LEMMA RemoveSelectedKeeps == ASSUME AdminInv, RemoveSelected PROVE AdminInv'
<1>1. UNCHANGED <<console, swapped>> /\ txTab # None
  BY DEF RemoveSelected, adminGhosts
<1>2. txTab \in TabLike(txTab, None, None, txTab.selected, None)
  BY <1>1 DEF AdminInv, Ticked, TabShaped, TabLike
<1>3. CASE ~txTab.armed
  <2>1. txTab' = [txTab EXCEPT !.armed = TRUE, !.sure = txTab.selected] /\ adminCalls' = adminCalls
    BY <1>3 DEF RemoveSelected
  <2>2. /\ txTab' \in TabLike(txTab, None, None, txTab.selected, None)
        /\ txTab'.sure = txTab.selected /\ txTab'.selected = txTab.selected
    BY <1>2, <2>1 DEF TabLike
  <2>3. TabShaped(txTab')
    BY <2>2, LikeIsShaped
  <2>4. Ticked'
    BY <2>2, <2>3 DEF Ticked, TabShaped
  <2> QED
    BY <1>1, <2>1, <2>4, InTabKeeps
<1>4. CASE txTab.armed
  <2> DEFINE n     == adminAsked
             to    == txTab.number
             asked == [Request("txDelete", n, to) EXCEPT
                          !.user = txTab.user, !.ids = txTab.selected, !.sure = txTab.sure]
             S     == Asked("txDelete", n, to, txTab.user, txTab.selected, txTab.sure, None, None)
  <2>1. txTab' = [txTab EXCEPT !.busy = TRUE] /\ adminCalls' = adminCalls \cup {asked}
    BY <1>4 DEF RemoveSelected, Asks
  <2>2. Request("txDelete", n, to) \in S
    BY RequestAsks
  <2>3. asked \in S /\ asked.ids = txTab.selected /\ asked.sure = txTab.sure
    BY <2>2 DEF Asked
  <2> HIDE DEF asked
  <2>4. CallShaped(asked) /\ asked.fn = "txDelete" /\ asked.ids = asked.sure
    BY <1>1, <1>4, <2>3, AskedShaped DEF AdminInv, Ticked
  <2>5. /\ txTab' \in TabLike(txTab, None, None, txTab.selected, None)
        /\ txTab'.sure = txTab.sure /\ txTab'.selected = txTab.selected
    BY <1>2, <2>1 DEF TabLike
  <2>6. TabShaped(txTab')
    BY <2>5, LikeIsShaped
  <2>7. Ticked'
    BY <1>1, <1>4, <2>5, <2>6 DEF AdminInv, Ticked, TabShaped
  <2>8. Calls'
    BY <1>1, <2>1, <2>4 DEF AdminInv, Calls, Honest
  <2>9. OneRun' /\ Prompted'
    BY <1>1, <2>1, <2>4 DEF AdminInv, OneRun, Prompted
  <2> QED
    BY <2>7, <2>8, <2>9 DEF AdminInv
<1> QED
  BY <1>1, <1>3, <1>4 DEF AdminInv, Ticked, TabShaped

-----------------------------------------------------------------------------
(* The console.                                                            *)

\* Consoles like the one there is, but for what is given.
ConsoleLike(sql, waiting, history) ==
    [sql : {console.sql, sql}, pending : {console.pending, waiting, None}, busy : BOOLEAN,
     history : {console.history, history}]

LEMMA ConsoleFits ==
    ASSUME AdminInv, NEW sql, NEW waiting, NEW history
    PROVE  console \in ConsoleLike(sql, waiting, history)
BY DEF AdminInv, Prompted, ConsoleLike

ConsoleShaped == console \in [sql : {console.sql}, pending : {console.pending}, busy : BOOLEAN,
                              history : {console.history}]

LEMMA LikeIsConsole ==
    ASSUME NEW sql, NEW waiting, NEW history, console' \in ConsoleLike(sql, waiting, history)
    PROVE  ConsoleShaped'
BY DEF ConsoleLike, ConsoleShaped

\* The text changes, and takes the prompt away or swaps what it is about.
LEMMA RewriteKeeps ==
    ASSUME AdminInv, NEW s, TypeSql(s) \/ PickSql(s) PROVE AdminInv'
<1>1. UNCHANGED <<adminCalls, txTab>> /\ swapped' \in BOOLEAN /\ (swapped \/ console.busy => swapped')
  BY DEF AdminInv, Prompted, TypeSql, PickSql, Rewrite
<1>2. console \in ConsoleLike(s, None, None)
  BY ConsoleFits
<1>3. \/ console' = [console EXCEPT !.sql = s, !.pending = None]
      \/ console' = [console EXCEPT !.sql = s] /\ (console.pending # None => swapped')
  BY DEF AdminInv, Prompted, TypeSql, PickSql, Rewrite, WithText
<1>4. /\ console' \in ConsoleLike(s, None, None) /\ console'.busy = console.busy
      /\ console'.pending # None => swapped'
  BY <1>2, <1>3 DEF ConsoleLike
<1>5. Calls' /\ OneRun'
  BY <1>1, <1>4 DEF AdminInv, Calls, OneRun, Honest
<1>6. Prompted'
  BY <1>1, <1>4, LikeIsConsole DEF Prompted, ConsoleShaped
<1>7. Ticked'
  BY <1>1 DEF AdminInv, Ticked
<1> QED
  BY <1>5, <1>6, <1>7 DEF AdminInv

LEMMA CancelWriteKeeps == ASSUME AdminInv, CancelWrite PROVE AdminInv'
<1>1. UNCHANGED <<adminCalls, txTab, swapped>> /\ console' = [console EXCEPT !.pending = None]
  BY DEF CancelWrite, adminGhosts
<1>2. console \in ConsoleLike(None, None, None)
  BY ConsoleFits
<1>3. /\ console' \in ConsoleLike(None, None, None) /\ console'.busy = console.busy
      /\ console'.sql = console.sql /\ console'.pending = None
  BY <1>1, <1>2 DEF ConsoleLike
<1>4. Calls' /\ OneRun'
  BY <1>1, <1>3 DEF AdminInv, Calls, OneRun, Honest
<1>5. Prompted' /\ Ticked'
  BY <1>1, <1>3, LikeIsConsole DEF AdminInv, Prompted, ConsoleShaped, Ticked
<1> QED
  BY <1>4, <1>5 DEF AdminInv

\* A statement is sent while none runs: what it confirms is the prompt.
LEMMA RunSqlKeeps ==
    ASSUME AdminInv, NEW confirm \in BOOLEAN, NEW dry \in BOOLEAN, RunSql(confirm, dry) PROVE AdminInv'
<1> DEFINE about == IF confirm THEN console.pending ELSE None
           n     == adminAsked
           asked == [Request("sql", n, 0) EXCEPT !.stmt = console.sql, !.dry = dry, !.about = about]
           S     == Asked("sql", n, 0, None, {}, {}, console.sql, about)
<1>1. /\ UNCHANGED <<txTab, swapped>> /\ ~console.busy
      /\ console' = [console EXCEPT !.busy = TRUE, !.pending = None]
      /\ adminCalls' = adminCalls \cup {asked}
  BY DEF RunSql, Asks, adminGhosts
<1>2. Request("sql", n, 0) \in S
  BY RequestAsks
<1>3. asked \in S /\ asked.stmt = console.sql /\ asked.about = about
  BY <1>2 DEF Asked
<1>4. about # None => about = console.sql \/ swapped
  BY DEF AdminInv, Prompted
<1> HIDE DEF asked
<1>5. /\ CallShaped(asked) /\ asked.fn = "sql" /\ asked.stmt = console.sql
      /\ asked.about # None => asked.about = asked.stmt \/ swapped
  BY <1>3, <1>4, AskedShaped
<1>6. console \in ConsoleLike(None, None, None)
  BY ConsoleFits
<1>7. /\ console' \in ConsoleLike(None, None, None) /\ console'.busy = TRUE
      /\ console'.sql = console.sql /\ console'.pending = None
  BY <1>1, <1>6 DEF ConsoleLike
<1>8. \A c \in adminCalls : c.fn # "sql"
  BY <1>1 DEF AdminInv, Calls, Honest
<1>9. Calls'
  BY <1>1, <1>5, <1>7, <1>8 DEF AdminInv, Calls, Honest
<1>10. OneRun'
  BY <1>1, <1>8 DEF OneRun
<1>11. Prompted' /\ Ticked'
  BY <1>1, <1>7, LikeIsConsole DEF AdminInv, Prompted, ConsoleShaped, Ticked
<1> QED
  BY <1>9, <1>10, <1>11 DEF AdminInv

-----------------------------------------------------------------------------
(* The answers.                                                            *)

\* A statement comes to an end, and others that are innocent may be asked.
LEMMA RunEndsKeeps ==
    ASSUME AdminInv, NEW c \in adminCalls, c.fn = "sql", UNCHANGED <<txTab, swapped>>,
           ConsoleShaped', console'.sql = console.sql, console'.pending \in {console.pending, c.stmt},
           \A d \in adminCalls' : d \in adminCalls \ {c} \/ Innocent(d)
    PROVE  AdminInv'
<1>1. \A d \in adminCalls' : d.fn # "sql" /\ (d \in adminCalls \/ Innocent(d))
  BY DEF AdminInv, OneRun, Innocent
<1>2. Calls'
  BY <1>1 DEF AdminInv, Calls, Honest, Innocent
<1>3. OneRun'
  BY <1>1 DEF OneRun
<1>4. c.stmt = console.sql \/ swapped
  BY DEF AdminInv, Calls, Honest
<1>5. Prompted'
  BY <1>4 DEF AdminInv, Prompted, ConsoleShaped
<1>6. Ticked'
  BY DEF AdminInv, Ticked
<1> QED
  BY <1>2, <1>3, <1>5, <1>6 DEF AdminInv

\* What the end of a statement does to the console.
LEMMA EndShaped ==
    ASSUME AdminInv, NEW prompt, NEW past,
           \/ console' = [console EXCEPT !.busy = FALSE]
           \/ console' = [console EXCEPT !.busy = FALSE, !.pending = prompt, !.history = past]
    PROVE  ConsoleShaped' /\ console'.sql = console.sql /\ console'.pending \in {console.pending, prompt}
<1>1. console \in ConsoleLike(None, prompt, past)
  BY ConsoleFits
<1>2. /\ console' \in ConsoleLike(None, prompt, past) /\ console'.sql = console.sql
      /\ console'.pending \in {console.pending, prompt}
  BY <1>1 DEF ConsoleLike
<1> QED
  BY <1>2, LikeIsConsole

\* The page is told to read again.
LEMMA TicksAsks ==
    ASSUME NEW c \in adminCalls, Ticks(c), NEW d \in adminCalls'
    PROVE  d \in adminCalls \ {c} \/ Innocent(d)
<1> DEFINE fetch == [Request("refetch", c.n, adminPage.mount) EXCEPT !.user = adminPage.detail.user]
           S     == Asked("refetch", c.n, adminPage.mount, adminPage.detail.user, {}, {}, None, None)
<1>1. d \in adminCalls \ {c} \/ d = Request("lists", c.n, adminPage.mount) \/ d = fetch
  BY DEF Ticks
<1>2. Request("refetch", c.n, adminPage.mount) \in S
  BY RequestAsks
<1>3. fetch \in S
  BY <1>2 DEF Asked
<1> HIDE DEF fetch
<1>4. Innocent(fetch)
  BY <1>3, AskedShaped DEF Innocent
<1> QED
  BY <1>1, <1>4, RequestShaped DEF Innocent

LEMMA SqlAnswersKeeps ==
    ASSUME AdminInv, NEW c \in adminCalls, SqlAnswers(c), UNCHANGED swapped PROVE AdminInv'
<1> DEFINE prompt == IF c.verdict = "refused" THEN c.stmt ELSE console.pending
           past   == IF c.verdict = "refused" THEN console.history ELSE console.history \cup {c.stmt}
<1>1. console' = [console EXCEPT !.busy = FALSE, !.pending = prompt, !.history = past]
  BY DEF SqlAnswers
<1>2. prompt \in {console.pending, c.stmt}
  OBVIOUS
<1> HIDE DEF prompt, past
<1>3. ConsoleShaped' /\ console'.sql = console.sql /\ console'.pending \in {console.pending, c.stmt}
  BY <1>1, <1>2, EndShaped
<1>4. \A d \in adminCalls' : d \in adminCalls \ {c} \/ Innocent(d)
  BY TicksAsks DEF SqlAnswers
<1>5. c.fn = "sql" /\ UNCHANGED <<txTab, swapped>>
  BY DEF SqlAnswers
<1> QED
  BY <1>3, <1>4, <1>5, RunEndsKeeps

LEMMA PageAnswersKeeps ==
    ASSUME AdminInv, NEW c \in adminCalls, UNCHANGED swapped,
           ListsCome(c) \/ DetailComes(c) \/ UserDeleted(c)
    PROVE  AdminInv'
<1>1. UNCHANGED console /\ (txTab' = txTab \/ txTab' = None)
  BY DEF ListsCome, DetailComes, UserDeleted
<1>2. ASSUME NEW d \in adminCalls' PROVE d \in adminCalls \/ Innocent(d)
  BY <1>2, RequestShaped DEF ListsCome, DetailComes, UserDeleted, Innocent
<1>3. Ticked'
  BY <1>1 DEF AdminInv, Ticked
<1> QED
  BY <1>1, <1>2, <1>3, ElsewhereKeeps

\* What the tab loads leaves its ticks alone, and after a deletion nothing is ticked.
LEMMA TxAnswersKeeps ==
    ASSUME AdminInv, NEW c \in adminCalls, UNCHANGED swapped,
           TxLoaded(c) \/ TxDeleted(c) \/ TxReloaded(c)
    PROVE  AdminInv'
<1>1. UNCHANGED console
  BY DEF TxLoaded, TxDeleted, TxReloaded
<1>2. ASSUME NEW d \in adminCalls' PROVE d \in adminCalls \/ Innocent(d)
  <2>1. CASE TxLoaded(c)
    BY <1>2, <2>1 DEF TxLoaded
  <2>2. CASE TxDeleted(c)
    <3> DEFINE load == [Request("txReload", c.n, c.to) EXCEPT !.user = c.user]
               S    == Asked("txReload", c.n, c.to, c.user, {}, {}, None, None)
    <3>1. d \in adminCalls \/ d = load
      BY <1>2, <2>2 DEF TxDeleted
    <3>2. Request("txReload", c.n, c.to) \in S
      BY RequestAsks
    <3>3. load \in S
      BY <3>2 DEF Asked
    <3> HIDE DEF load
    <3>4. Innocent(load)
      BY <3>3, AskedShaped DEF Innocent
    <3> QED
      BY <3>1, <3>4
  <2>3. CASE TxReloaded(c)
    BY <1>2, <2>3, TicksAsks DEF TxReloaded
  <2> QED
    BY <2>1, <2>2, <2>3
<1>3. Ticked'
  <2>1. \/ txTab' = txTab
        \/ txTab # None /\ \/ txTab' = [txTab EXCEPT !.rows = c.rows]
                            \/ txTab' = [txTab EXCEPT !.selected = {}, !.armed = FALSE]
                            \/ txTab' = [txTab EXCEPT !.rows = c.rows, !.busy = FALSE]
    BY DEF TxLoaded, TxDeleted, TxReloaded, InItsTab
  <2>2. CASE txTab' = txTab
    BY <2>2 DEF AdminInv, Ticked
  <2>3. CASE txTab # None /\ txTab' # txTab
    <3>1. txTab \in TabLike(txTab, c.rows, {}, None, None)
      BY <2>3 DEF AdminInv, Ticked, TabShaped, TabLike
    <3>2. /\ txTab' \in TabLike(txTab, c.rows, {}, None, None)
          /\ ~txTab'.armed \/ (txTab'.armed = txTab.armed /\ txTab'.sure = txTab.sure
                                /\ txTab'.selected = txTab.selected)
      BY <2>1, <2>3, <3>1 DEF TabLike
    <3>3. TabShaped(txTab')
      BY <3>2, LikeIsShaped
    <3> QED
      BY <2>3, <3>2, <3>3 DEF AdminInv, Ticked, TabShaped
  <2> QED
    BY <2>1, <2>2, <2>3
<1> QED
  BY <1>1, <1>2, <1>3, ElsewhereKeeps

LEMMA AdminFailsKeeps ==
    ASSUME AdminInv, NEW c \in adminCalls, AdminFails(c) PROVE AdminInv'
<1>1. UNCHANGED swapped /\ adminCalls' = adminCalls \ {c}
  BY DEF AdminFails
<1>2. CASE c.fn = "sql"
  <2>1. console' = [console EXCEPT !.busy = FALSE] /\ UNCHANGED <<txTab, swapped>>
    BY <1>2 DEF AdminFails, InItsTab
  <2>2. ConsoleShaped' /\ console'.sql = console.sql /\ console'.pending \in {console.pending, c.stmt}
    BY <2>1, EndShaped
  <2> QED
    BY <1>1, <1>2, <2>1, <2>2, RunEndsKeeps
<1>3. CASE c.fn # "sql"
  <2>1. UNCHANGED console
    BY <1>3 DEF AdminFails
  <2>2. txTab' = txTab \/ (txTab # None /\ txTab' = [txTab EXCEPT !.busy = FALSE])
    BY DEF AdminFails, InItsTab
  <2>3. CASE txTab # None /\ txTab' = [txTab EXCEPT !.busy = FALSE]
    <3>1. txTab \in TabLike(txTab, None, None, None, None)
      BY <2>3 DEF AdminInv, Ticked, TabShaped, TabLike
    <3>2. /\ txTab' \in TabLike(txTab, None, None, None, None) /\ txTab'.armed = txTab.armed
          /\ txTab'.sure = txTab.sure /\ txTab'.selected = txTab.selected
      BY <2>3, <3>1 DEF TabLike
    <3>3. TabShaped(txTab')
      BY <3>2, LikeIsShaped
    <3>4. Ticked'
      BY <2>3, <3>2, <3>3 DEF AdminInv, Ticked, TabShaped
    <3> QED
      BY <1>1, <2>1, <3>4, ElsewhereKeeps
  <2>4. CASE txTab' = txTab
    <3>1. Ticked'
      BY <2>4 DEF AdminInv, Ticked
    <3> QED
      BY <1>1, <2>1, <3>1, ElsewhereKeeps
  <2> QED
    BY <2>2, <2>3, <2>4
<1> QED
  BY <1>2, <1>3

-----------------------------------------------------------------------------
LEMMA NextAdmin == AdminInv /\ [AdminNext]_adminVars => AdminInv'
<1> SUFFICES ASSUME AdminInv, [AdminNext]_adminVars PROVE AdminInv'
  OBVIOUS
<1>1. CASE AdminUser
  BY <1>1, PageKeeps, TabKeeps, ManageKeeps, RemoveSelectedKeeps, RewriteKeeps, CancelWriteKeeps,
     RunSqlKeeps DEF AdminUser
<1>2. ASSUME NEW c \in adminCalls, AdminAnswers(c) PROVE AdminInv'
  BY <1>2, PageAnswersKeeps, TxAnswersKeeps, SqlAnswersKeeps DEF AdminAnswers
<1>3. CASE UNCHANGED adminVars
  BY <1>3 DEF adminVars, adminGhosts, AdminInv, Calls, Honest, OneRun, Prompted, Ticked
<1> QED
  BY <1>1, <1>2, <1>3, ServesKeeps, AdminFailsKeeps DEF AdminNext

\* A write is applied only after the server refused that very statement, unless the
\* text changed under the run or the prompt, and a bulk deletion takes the rows that
\* were ticked when the button asked (AdminSqlTab.tsx, AdminTxTab.tsx): for any users,
\* transactions, statements and number of requests.
THEOREM DoneAsConfirmed == AdminSpec => []ActsAsConfirmed
<1>1. AdminInv => ActsAsConfirmed
  BY DEF AdminInv, Calls, Honest, ActsAsConfirmed
<1> QED
  BY InitAdmin, NextAdmin, <1>1, PTL DEF AdminSpec

-----------------------------------------------------------------------------
(* What the page shows.  While a change is not told to the page a request   *)
(* owes it; once it is told, the page has asked again, and an answer older  *)
(* than the change is known to be late.                                    *)

Current == [u \in srvUsers |-> Cardinality(OwnRows(u))]
AnyList == UNION {[D -> Nat] : D \in SUBSET AdminUsers}

\* Lists of the same users with as many rows each, or fewer of either.
Below(few, many) == DOMAIN few \subseteq DOMAIN many /\ \A u \in DOMAIN few : few[u] <= many[u]

AsSavedNow(x) == x.user \in srvUsers /\ x.rows = OwnRows(x.user)

ReadsLists(c) == c.fn \in {"lists", "relists"}
ReadsUser(c)  == c.fn \in {"detail", "refetch"}

\* What the server answers is what it holds, which only gets less.
CallFits(c) ==
    /\ c.stamp \in 0 .. clock /\ c.at \in {"sent", "done"} /\ (c.at = "done" => c.stamp # 0)
    /\ ReadsLists(c) \/ ReadsUser(c) => c.to \in 0 .. adminAsked - 1
    /\ ReadsLists(c) => c.user = None
    /\ ReadsUser(c) => c.user \in AdminUsers
    /\ c.at = "done" /\ ReadsLists(c) => c.lists \in AnyList /\ Below(Current, c.lists)
    /\ c.at = "done" /\ ReadsUser(c) /\ c.stamp = clock => AsSavedNow(c)

PageShaped(page) ==
    page = [mount |-> page.mount, lists |-> page.lists, detail |-> page.detail,
            broken |-> page.broken, armed |-> page.armed, busy |-> page.busy]

PageFits ==
    /\ PageShaped(adminPage) /\ adminPage.mount \in 0 .. adminAsked - 1 /\ adminPage.broken \in BOOLEAN
    /\ newest.lists # 0 => adminPage.lists \in AnyList /\ Below(Current, adminPage.lists)
    /\ adminPage.detail # None => adminPage.detail.user \in AdminUsers

DeskTyped ==
    /\ srvUsers \subseteq AdminUsers /\ srvRows \subseteq AdminRows
    /\ clock \in Nat /\ adminAsked \in Nat /\ newest \in [lists : 0 .. clock, detail : 0 .. clock]
    /\ \A c \in adminCalls : CallFits(c)
    /\ adminPage # None => PageFits

\* A later answer shows no more than an earlier one.
Ordered ==
    \A a, b \in adminCalls :
        ReadsLists(a) /\ ReadsLists(b) /\ a.at = "done" /\ b.at = "done" /\ a.stamp <= b.stamp =>
            Below(b.lists, a.lists)

\* The request has changed something that the page will be told.
Owes(c) ==
    \/ c.fn = "txReload"
    \/ c.at = "done" /\ c.fn \in {"deleteUser", "txDelete"}
    \/ c.at = "done" /\ c.fn = "sql" /\ c.verdict = "written"

Untold == \E c \in adminCalls : Owes(c)

\* Requests of the page that is there.
ForLists(c)   == ReadsLists(c) /\ c.to = adminPage.mount
ForRefetch(c) == c.fn = "refetch" /\ c.to = adminPage.mount

ListsKnown ==
    /\ newest.lists # 0 =>
          \A c \in adminCalls : ForLists(c) /\ c.at = "done" /\ newest.lists <= c.stamp =>
              Below(c.lists, adminPage.lists)
    /\ ~adminPage.broken =>
          \/ Untold
          \/ newest.lists # 0 /\ adminPage.lists = Current
          \/ \E c \in adminCalls : ForLists(c) /\ (c.at = "sent" \/ c.lists = Current)

UserKnown ==
    /\ \A c \in adminCalls : ReadsUser(c) /\ c.to = adminPage.mount /\ c.at = "done" =>
          Untold \/ AsSavedNow(c) \/ c.stamp < newest.detail
    /\ adminPage.detail # None =>
          Untold \/ AsSavedNow(adminPage.detail) \/ \E c \in adminCalls : ForRefetch(c)

DeskInv ==
    /\ AdminInv /\ DeskTyped /\ Ordered
    /\ adminPage # None /\ ~late => ListsKnown /\ UserKnown

-----------------------------------------------------------------------------
LEMMA BelowEach ==
    ASSUME NEW a \in AnyList, NEW b \in AnyList
    PROVE  /\ Below(a, a)
           /\ Below(a, b) /\ Below(b, a) => a = b
           /\ \A m \in AnyList : Below(a, m) /\ Below(m, b) => Below(a, b)
<1>1. PICK D \in SUBSET AdminUsers, E \in SUBSET AdminUsers : a \in [D -> Nat] /\ b \in [E -> Nat]
  BY DEF AnyList
<1>2. Below(a, a)
  BY <1>1 DEF Below
<1>3. ASSUME Below(a, b), Below(b, a) PROVE a = b
  <2>1. D = E /\ \A u \in D : a[u] = b[u]
    BY <1>1, <1>3 DEF Below
  <2> QED
    BY <1>1, <2>1
<1>4. ASSUME NEW m \in AnyList, Below(a, m), Below(m, b) PROVE Below(a, b)
  <2>1. PICK F \in SUBSET AdminUsers : m \in [F -> Nat]
    BY DEF AnyList
  <2> QED
    BY <1>1, <1>4, <2>1 DEF Below
<1> QED
  BY <1>2, <1>3, <1>4

\* The lists that the server would answer, before and after a deletion.
LEMMA CurrentShrinks ==
    ASSUME DeskTyped, srvUsers' \subseteq srvUsers, srvRows' \subseteq srvRows
    PROVE  Current \in AnyList /\ Current' \in AnyList /\ Below(Current', Current)
<1>1. ASSUME NEW u PROVE /\ Cardinality(OwnRows(u)) \in Nat /\ Cardinality(OwnRows(u)') \in Nat
                         /\ Cardinality(OwnRows(u)') <= Cardinality(OwnRows(u))
  <2>1. OwnRows(u) \subseteq AdminRows /\ OwnRows(u)' \subseteq OwnRows(u)
    BY DEF DeskTyped, OwnRows
  <2>2. IsFiniteSet(OwnRows(u))
    BY <2>1, AdminAssumption, FS_Subset
  <2>3. IsFiniteSet(OwnRows(u)') /\ Cardinality(OwnRows(u)') <= Cardinality(OwnRows(u))
    BY <2>1, <2>2, FS_Subset
  <2> QED
    BY <2>2, <2>3, FS_CardinalityType
<1>2. /\ Current = [u \in srvUsers |-> Cardinality(OwnRows(u))]
      /\ Current' = [u \in srvUsers' |-> Cardinality(OwnRows(u)')]
  BY DEF Current
<1>3. Current \in [srvUsers -> Nat] /\ Current' \in [srvUsers' -> Nat]
  BY <1>1, <1>2
<1>4. srvUsers \in SUBSET AdminUsers /\ srvUsers' \in SUBSET AdminUsers
  BY DEF DeskTyped
<1>5. Current \in AnyList /\ Current' \in AnyList
  BY <1>3, <1>4 DEF AnyList
<1>6. Below(Current', Current)
  BY <1>1, <1>2 DEF Below
<1> QED
  BY <1>5, <1>6

LEMMA NothingDeleted ==
    ASSUME UNCHANGED adminSaved
    PROVE  /\ Current' = Current /\ srvUsers' = srvUsers /\ srvRows' = srvRows
           /\ \A u : OwnRows(u)' = OwnRows(u)
BY DEF adminSaved, Current, OwnRows

\* A request that has just been made.
JustAsked(d) ==
    /\ d.stamp = 0 /\ d.at = "sent"
    /\ ReadsLists(d) => d.to \in 0 .. adminAsked' - 1 /\ d.user = None
    /\ ReadsUser(d) => d.to \in 0 .. adminAsked' - 1 /\ d.user \in AdminUsers

\* Requests are made or come to an end, and the server does nothing.
LEMMA AskingTyped ==
    ASSUME DeskTyped, Ordered, UNCHANGED <<adminSaved, clock>>, adminAsked' \in {adminAsked, adminAsked + 1},
           \A d \in adminCalls' : d \in adminCalls \/ (d.at = "sent" /\ CallFits(d)')
    PROVE  (\A d \in adminCalls' : CallFits(d)') /\ Ordered'
<1>1. ASSUME NEW d \in adminCalls, CallFits(d) PROVE CallFits(d)'
  BY <1>1, NothingDeleted DEF CallFits, AsSavedNow, DeskTyped
<1>2. \A d \in adminCalls' : CallFits(d)'
  BY <1>1 DEF DeskTyped
<1>3. Ordered'
  BY DEF Ordered
<1> QED
  BY <1>2, <1>3

LEMMA JustAskedFits ==
    ASSUME NEW d, JustAsked(d), DeskTyped, UNCHANGED clock PROVE d.at = "sent" /\ CallFits(d)'
BY DEF JustAsked, CallFits, DeskTyped, ReadsLists, ReadsUser

\* The page stays as far as its lists and the user it has open are concerned,
\* or forgets them; what it had asked for them is still on its way.
PageStays ==
    adminPage' # None =>
        /\ adminPage # None /\ PageShaped(adminPage')
        /\ adminPage'.mount = adminPage.mount /\ adminPage'.lists = adminPage.lists
        /\ \/ adminPage'.broken = TRUE
           \/ /\ adminPage'.broken = adminPage.broken
              /\ \A c \in adminCalls \ adminCalls' : ~ForLists(c)
        /\ \/ adminPage'.detail = None
           \/ /\ adminPage'.detail = adminPage.detail
              /\ \A c \in adminCalls \ adminCalls' : ~ForRefetch(c)

LEMMA StayingFits ==
    ASSUME DeskTyped, UNCHANGED <<adminSaved, newest>>, adminAsked' \in {adminAsked, adminAsked + 1}, PageStays,
           adminPage' # None
    PROVE  PageFits'
<1>1. PageFits /\ adminPage'.mount \in 0 .. adminAsked' - 1
  BY DEF DeskTyped, PageStays, PageFits
<1> QED
  BY <1>1, NothingDeleted DEF PageStays, PageFits

\* The person or an answer that does not concern the page: nothing that is owed
\* is forgotten, unless the page is late then.
LEMMA DeskStays ==
    ASSUME DeskInv, AdminInv', UNCHANGED <<adminSaved, clock, newest>>,
           adminAsked' \in {adminAsked, adminAsked + 1}, PageStays,
           \A d \in adminCalls' : d \in adminCalls \/ JustAsked(d),
           late => late', late' \/ adminPage' = None \/ (Untold => Untold')
    PROVE  DeskInv'
<1>1. DeskTyped /\ Ordered
  BY DEF DeskInv
<1>2. \A d \in adminCalls' : d \in adminCalls \/ (d.at = "sent" /\ CallFits(d)')
  BY <1>1, JustAskedFits
<1>3. (\A d \in adminCalls' : CallFits(d)') /\ Ordered'
  BY <1>1, <1>2, AskingTyped
<1>4. DeskTyped'
  BY <1>1, <1>3, StayingFits DEF DeskTyped, adminSaved
<1>5. ASSUME adminPage' # None, ~late' PROVE ListsKnown' /\ UserKnown'
  <2>1. adminPage # None /\ ListsKnown /\ UserKnown /\ (Untold => Untold')
    BY <1>5 DEF DeskInv, PageStays
  <2>2. Current' = Current /\ \A x : AsSavedNow(x)' <=> AsSavedNow(x)
    BY NothingDeleted DEF AsSavedNow
  <2>3. \A c : (ForLists(c)' <=> ForLists(c)) /\ (ForRefetch(c)' <=> ForRefetch(c))
    BY <1>5 DEF ForLists, ForRefetch, PageStays
  <2>4. ASSUME NEW c \in adminCalls', ForLists(c)', c.at = "done", newest'.lists <= c.stamp,
               newest'.lists # 0
        PROVE  Below(c.lists, adminPage'.lists)
    BY <1>5, <2>1, <2>3, <2>4 DEF ListsKnown, JustAsked, PageStays
  <2>5. ASSUME ~adminPage'.broken
        PROVE  \/ Untold'
               \/ newest'.lists # 0 /\ adminPage'.lists = Current'
               \/ \E c \in adminCalls' : ForLists(c)' /\ (c.at = "sent" \/ c.lists = Current')
    BY <1>5, <2>1, <2>2, <2>3, <2>5 DEF ListsKnown, PageStays
  <2>6. ASSUME NEW c \in adminCalls', ReadsUser(c), c.to = adminPage'.mount, c.at = "done"
        PROVE  Untold' \/ AsSavedNow(c)' \/ c.stamp < newest'.detail
    BY <1>5, <2>1, <2>2, <2>6 DEF UserKnown, JustAsked, PageStays
  <2>7. ASSUME adminPage'.detail # None
        PROVE  Untold' \/ AsSavedNow(adminPage.detail)' \/ \E c \in adminCalls' : ForRefetch(c)'
    <3>1. adminPage'.detail = adminPage.detail
      BY <1>5, <2>7 DEF PageStays
    <3> QED
      BY <1>5, <2>1, <2>2, <2>3, <2>7, <3>1 DEF UserKnown, PageStays
  <2> QED
    BY <2>4, <2>5, <2>6, <2>7 DEF ListsKnown, UserKnown, ReadsUser
<1> QED
  BY <1>1, <1>3, <1>4, <1>5 DEF DeskInv

\* The page is told of a change: it reads the lists again and the user it has
\* open, or closes it.
LEMMA DeskTold ==
    ASSUME DeskInv, AdminInv', UNCHANGED <<adminSaved, clock, adminAsked>>, late => late',
           newest' = [newest EXCEPT !.detail = clock],
           \A d \in adminCalls' : d \in adminCalls \/ JustAsked(d),
           adminPage' # None =>
              /\ adminPage # None /\ PageShaped(adminPage')
              /\ adminPage'.mount = adminPage.mount /\ adminPage'.lists = adminPage.lists
              /\ adminPage'.broken = adminPage.broken
              /\ adminPage'.detail \in {adminPage.detail, None}
              /\ \E d \in adminCalls' : ForLists(d) /\ d.at = "sent"
              /\ adminPage'.detail # None => \E d \in adminCalls' : ForRefetch(d)
    PROVE  DeskInv'
<1>1. DeskTyped /\ Ordered
  BY DEF DeskInv
<1>2. \A d \in adminCalls' : d \in adminCalls \/ (d.at = "sent" /\ CallFits(d)')
  BY <1>1, JustAskedFits
<1>3. (\A d \in adminCalls' : CallFits(d)') /\ Ordered'
  BY <1>1, <1>2, AskingTyped
<1>4. newest' \in [lists : 0 .. clock, detail : 0 .. clock] /\ newest'.lists = newest.lists /\ newest'.detail = clock
  BY <1>1 DEF DeskTyped
<1>5. adminPage' # None => PageFits'
  BY <1>1, NothingDeleted DEF DeskTyped, PageFits
<1>6. DeskTyped'
  BY <1>1, <1>3, <1>4, <1>5 DEF DeskTyped, adminSaved
<1>7. ASSUME adminPage' # None, ~late' PROVE ListsKnown' /\ UserKnown'
  <2>1. adminPage # None /\ ListsKnown
    BY <1>7 DEF DeskInv
  <2>2. \A c : (ForLists(c)' <=> ForLists(c)) /\ (ForRefetch(c)' <=> ForRefetch(c))
    BY <1>7 DEF ForLists, ForRefetch
  <2>3. ListsKnown'
    BY <1>4, <1>7, <2>1, <2>2 DEF ListsKnown, JustAsked
  <2>4. ASSUME NEW c \in adminCalls', ReadsUser(c), c.at = "done"
        PROVE  AsSavedNow(c)' \/ c.stamp < newest'.detail
    BY <1>3, <1>4, <2>4 DEF CallFits
  <2>5. UserKnown'
    BY <1>7, <2>2, <2>4 DEF UserKnown, ReadsUser
  <2> QED
    BY <2>3, <2>5
<1> QED
  BY <1>1, <1>3, <1>6, <1>7 DEF DeskInv

-----------------------------------------------------------------------------
(* The server.                                                             *)

\* c has been served, d is its answer.
Answer(c, d) ==
    /\ adminCalls' = (adminCalls \ {c}) \cup {d}
    /\ d.fn = c.fn /\ d.to = c.to /\ d.user = c.user
    /\ c.at = "sent" /\ d.at = "done" /\ d.stamp = clock + 1

\* What was read before is as true as it was, but for the last step.
LEMMA EarlierFits ==
    ASSUME DeskTyped, DeskTyped => Below(Current', Current) /\ Current' \in AnyList /\ Current \in AnyList,
           clock' = clock + 1, UNCHANGED adminAsked, NEW c \in adminCalls
    PROVE  CallFits(c)' /\ c.stamp < clock'
<1>1. CallFits(c) /\ clock \in Nat
  BY DEF DeskTyped
<1>2. c.stamp \in 0 .. clock' /\ c.stamp < clock'
  BY <1>1 DEF CallFits
<1>3. c.at = "done" /\ ReadsLists(c) => Below(Current', c.lists)
  BY <1>1, BelowEach DEF CallFits
<1> QED
  BY <1>1, <1>2, <1>3 DEF CallFits, ReadsLists, ReadsUser

\* The server reads, or refuses.
LEMMA DeskReads ==
    ASSUME DeskInv, AdminInv', NEW c \in adminCalls, NEW d, Answer(c, d), clock' = clock + 1,
           UNCHANGED <<adminSaved, adminPage, newest, late, adminAsked>>,
           ReadsLists(c) => d.lists = Current, ReadsUser(c) => AsSavedNow(d)
    PROVE  DeskInv'
<1>1. DeskTyped /\ Ordered
  BY DEF DeskInv
<1>2. /\ Current' = Current /\ Current \in AnyList /\ Below(Current, Current)
      /\ \A x : AsSavedNow(x)' <=> AsSavedNow(x)
  BY <1>1, NothingDeleted, CurrentShrinks, BelowEach DEF AsSavedNow
<1>3. \A e \in adminCalls : CallFits(e)' /\ e.stamp < clock'
  BY <1>1, <1>2, EarlierFits
<1>4. CallFits(d)'
  <2>1. CallFits(c) /\ clock \in Nat
    BY <1>1 DEF DeskTyped
  <2> QED
    BY <1>2, <2>1 DEF CallFits, Answer, ReadsLists, ReadsUser
<1>5. \A e \in adminCalls' : CallFits(e)'
  BY <1>3, <1>4 DEF Answer
<1>6. DeskTyped'
  <2>1. newest' \in [lists : 0 .. clock', detail : 0 .. clock'] /\ clock' \in Nat
    BY <1>1 DEF DeskTyped
  <2>2. adminPage' # None => PageFits'
    BY <1>1, <1>2 DEF DeskTyped, PageFits
  <2> QED
    BY <1>1, <1>5, <2>1, <2>2, NothingDeleted DEF DeskTyped
<1>7. Ordered'
  <2> SUFFICES ASSUME NEW a \in adminCalls', NEW b \in adminCalls', ReadsLists(a), ReadsLists(b),
                      a.at = "done", b.at = "done", a.stamp <= b.stamp
               PROVE  Below(b.lists, a.lists)
    BY DEF Ordered, ReadsLists
  <2>1. CASE a \in adminCalls /\ b \in adminCalls
    BY <1>1, <2>1 DEF Ordered
  <2>2. CASE b = d
    BY <1>2, <1>5, <2>2 DEF CallFits, Answer, ReadsLists
  <2>3. CASE a = d /\ b \in adminCalls
    BY <1>1, <1>3, <2>3 DEF Answer, DeskTyped, CallFits
  <2> QED
    BY <2>1, <2>2, <2>3 DEF Answer
<1>8. Untold => Untold'
  <2> SUFFICES ASSUME Owes(c) PROVE Owes(d)
    BY DEF Untold, Answer, Owes
  <2> QED
    BY DEF Owes, Answer
<1>9. ASSUME adminPage' # None, ~late' PROVE ListsKnown' /\ UserKnown'
  <2>1. ListsKnown /\ UserKnown /\ PageFits
    BY <1>1, <1>9 DEF DeskInv, DeskTyped
  <2>2. /\ \A e : (ForLists(e)' <=> ForLists(e)) /\ (ForRefetch(e)' <=> ForRefetch(e))
        /\ (ForLists(d) <=> ForLists(c)) /\ (ForRefetch(d) <=> ForRefetch(c))
    BY DEF ForLists, ForRefetch, Answer, ReadsLists
  <2>3. ASSUME newest.lists # 0, NEW e \in adminCalls', ForLists(e), e.at = "done", newest.lists <= e.stamp
        PROVE  Below(e.lists, adminPage.lists)
    BY <2>1, <2>2, <2>3 DEF ListsKnown, Answer, PageFits, ForLists
  <2>4. ASSUME ~adminPage.broken
        PROVE  \/ Untold'
               \/ newest.lists # 0 /\ adminPage.lists = Current
               \/ \E e \in adminCalls' : ForLists(e) /\ (e.at = "sent" \/ e.lists = Current)
    <3>1. CASE Untold \/ (newest.lists # 0 /\ adminPage.lists = Current)
      BY <1>8, <3>1
    <3>2. CASE \E e \in adminCalls : ForLists(e) /\ (e.at = "sent" \/ e.lists = Current)
      <4>1. PICK e \in adminCalls : ForLists(e) /\ (e.at = "sent" \/ e.lists = Current)
        BY <3>2
      <4>2. CASE e = c
        BY <2>2, <4>1, <4>2 DEF Answer, ForLists
      <4>3. CASE e # c
        BY <4>1, <4>3 DEF Answer
      <4> QED
        BY <4>2, <4>3
    <3> QED
      BY <2>1, <2>4, <3>1, <3>2 DEF ListsKnown
  <2>5. ListsKnown'
    BY <1>2, <2>2, <2>3, <2>4 DEF ListsKnown
  <2>6. ASSUME NEW e \in adminCalls', ReadsUser(e), e.to = adminPage.mount, e.at = "done"
        PROVE  Untold' \/ AsSavedNow(e) \/ e.stamp < newest.detail
    BY <1>8, <2>1, <2>6 DEF UserKnown, Answer, ReadsUser
  <2>7. ASSUME adminPage.detail # None
        PROVE  Untold' \/ AsSavedNow(adminPage.detail) \/ \E e \in adminCalls' : ForRefetch(e)
    <3>1. (\E e \in adminCalls : ForRefetch(e)) => \E e \in adminCalls' : ForRefetch(e)
      BY <2>2 DEF Answer
    <3> QED
      BY <1>8, <2>1, <2>7, <3>1 DEF UserKnown
  <2>8. UserKnown'
    BY <1>2, <2>2, <2>6, <2>7 DEF UserKnown, ReadsUser
  <2> QED
    BY <2>5, <2>8
<1> QED
  BY <1>6, <1>7, <1>9 DEF DeskInv

\* The server deletes, and owes it to the page to say so.
LEMMA DeskDeletes ==
    ASSUME DeskInv, AdminInv', NEW c \in adminCalls, NEW d, Answer(c, d), clock' = clock + 1,
           UNCHANGED <<adminPage, newest, late, adminAsked>>,
           srvUsers' \subseteq srvUsers, srvRows' \subseteq srvRows,
           ~ReadsLists(c), ~ReadsUser(c), Owes(d)
    PROVE  DeskInv'
<1>1. DeskTyped /\ Ordered
  BY DEF DeskInv
<1>2. Current \in AnyList /\ Current' \in AnyList /\ Below(Current', Current)
  BY <1>1, CurrentShrinks
<1>3. \A e \in adminCalls : CallFits(e)'
  BY <1>1, <1>2, EarlierFits
<1>4. CallFits(d)'
  BY <1>1 DEF CallFits, Answer, ReadsLists, ReadsUser, DeskTyped
<1>5. \A e \in adminCalls' : CallFits(e)'
  BY <1>3, <1>4 DEF Answer
<1>6. DeskTyped'
  <2>1. newest' \in [lists : 0 .. clock', detail : 0 .. clock'] /\ clock' \in Nat
    BY <1>1 DEF DeskTyped
  <2>2. adminPage # None => PageFits
    BY <1>1 DEF DeskTyped
  <2>3. adminPage' # None /\ newest.lists # 0 => Below(Current', adminPage.lists)
    BY <1>2, <2>2, BelowEach DEF PageFits
  <2>4. adminPage' # None => PageFits'
    BY <2>2, <2>3 DEF PageFits
  <2> QED
    BY <1>1, <1>5, <2>1, <2>4 DEF DeskTyped
<1>7. Ordered'
  BY <1>1 DEF Ordered, Answer, ReadsLists
<1>8. Untold'
  BY DEF Untold, Answer, Owes
<1>9. ASSUME adminPage' # None, ~late' PROVE ListsKnown' /\ UserKnown'
  <2>1. ListsKnown
    BY <1>9 DEF DeskInv
  <2>2. ListsKnown'
    BY <1>8, <2>1 DEF ListsKnown, Answer, ForLists, ReadsLists
  <2>3. UserKnown'
    BY <1>8 DEF UserKnown
  <2> QED
    BY <2>2, <2>3
<1> QED
  BY <1>6, <1>7, <1>9 DEF DeskInv

-----------------------------------------------------------------------------
(* The page is entered, and what it has asked for comes.                   *)

LEMMA DeskEnters ==
    ASSUME DeskInv, AdminInv', UNCHANGED <<adminSaved, clock, late>>, adminAsked' = adminAsked + 1,
           newest' = [lists |-> 0, detail |-> 0],
           PageShaped(adminPage'), adminPage'.mount = adminAsked, adminPage'.detail = None,
           adminPage'.broken = FALSE,
           \A d \in adminCalls' : d \in adminCalls \/ JustAsked(d),
           \E d \in adminCalls' : ReadsLists(d) /\ d.to = adminAsked /\ d.at = "sent"
    PROVE  DeskInv'
<1>1. DeskTyped /\ Ordered
  BY DEF DeskInv
<1>2. \A d \in adminCalls' : d \in adminCalls \/ (d.at = "sent" /\ CallFits(d)')
  BY <1>1, JustAskedFits
<1>3. (\A d \in adminCalls' : CallFits(d)') /\ Ordered'
  BY <1>1, <1>2, AskingTyped
<1>4. PageFits'
  <2>1. adminPage'.mount \in 0 .. adminAsked' - 1
    BY <1>1 DEF DeskTyped
  <2>2. newest'.lists = 0
    OBVIOUS
  <2> QED
    BY <2>1, <2>2 DEF PageFits
<1>5. DeskTyped'
  BY <1>1, <1>3, <1>4 DEF DeskTyped, adminSaved
<1>6. ASSUME NEW d \in adminCalls', d.at = "done" PROVE ~(ReadsLists(d) \/ ReadsUser(d)) \/ d.to # adminAsked
  BY <1>1, <1>6 DEF JustAsked, CallFits, DeskTyped
<1>7. ListsKnown' /\ UserKnown'
  BY <1>6 DEF ListsKnown, UserKnown, ForLists, ReadsLists, ReadsUser
<1> QED
  BY <1>3, <1>5, <1>7 DEF DeskInv

\* What an answer leaves of the page, but for what it brings.
LEMMA DeskLists ==
    ASSUME DeskInv, AdminInv', UNCHANGED <<adminSaved, clock, adminAsked>>,
           NEW c \in adminCalls, ReadsLists(c), c.at = "done", adminCalls' = adminCalls \ {c},
           adminPage # None, c.to = adminPage.mount, PageShaped(adminPage'),
           adminPage'.mount = adminPage.mount, adminPage'.lists = c.lists,
           adminPage'.detail = adminPage.detail, adminPage'.broken = adminPage.broken,
           newest' = [newest EXCEPT !.lists = IF @ > c.stamp THEN @ ELSE c.stamp],
           late' = (late \/ c.stamp < newest.lists)
    PROVE  DeskInv'
<1>1. DeskTyped /\ Ordered /\ PageFits /\ CallFits(c)
  BY DEF DeskInv, DeskTyped
<1>2. (\A d \in adminCalls' : CallFits(d)') /\ Ordered'
  BY <1>1, AskingTyped
<1>3. /\ newest' \in [lists : 0 .. clock, detail : 0 .. clock] /\ newest'.detail = newest.detail
      /\ newest'.lists = IF newest.lists > c.stamp THEN newest.lists ELSE c.stamp
  BY <1>1 DEF DeskTyped, CallFits
<1>4. /\ Current' = Current /\ Current \in AnyList /\ c.lists \in AnyList /\ Below(Current, c.lists)
      /\ \A x : AsSavedNow(x)' <=> AsSavedNow(x)
  BY <1>1, NothingDeleted, CurrentShrinks DEF AsSavedNow, CallFits
<1>5. PageFits'
  BY <1>1, <1>4 DEF PageFits
<1>6. DeskTyped'
  BY <1>1, <1>2, <1>3, <1>5 DEF DeskTyped, adminSaved
<1>7. ASSUME ~late' PROVE ListsKnown' /\ UserKnown'
  <2>0. newest.lists \in Nat /\ c.stamp \in Nat /\ c.stamp # 0
    BY <1>1 DEF DeskTyped, CallFits
  <2>9. ListsKnown /\ UserKnown /\ ~(c.stamp < newest.lists)
    BY <1>7 DEF DeskInv
  <2>1. ListsKnown /\ UserKnown /\ newest'.lists = c.stamp /\ newest.lists <= c.stamp /\ c.stamp # 0
    BY <1>3, <2>0, <2>9
  <2>2. ~Owes(c) /\ ~ForRefetch(c) /\ (Untold => Untold') /\ ForLists(c)
    BY DEF Owes, Untold, ReadsLists, ForRefetch, ForLists
  <2>3. \A e : (ForLists(e)' <=> ForLists(e)) /\ (ForRefetch(e)' <=> ForRefetch(e))
    BY DEF ForLists, ForRefetch
  <2>4. ASSUME NEW e \in adminCalls', ForLists(e), e.at = "done", c.stamp <= e.stamp
        PROVE  Below(e.lists, c.lists)
    BY <1>1, <2>4 DEF Ordered, ForLists
  <2>5. newest.lists # 0 /\ adminPage.lists = Current => c.lists = Current
    <3>1. newest.lists # 0 => Below(c.lists, adminPage.lists)
      BY <2>1, <2>2 DEF ListsKnown
    <3> QED
      BY <1>4, <3>1, BelowEach
  <2>6. ASSUME ~adminPage.broken
        PROVE  Untold' \/ c.lists = Current
                 \/ \E e \in adminCalls' : ForLists(e) /\ (e.at = "sent" \/ e.lists = Current)
    BY <2>1, <2>2, <2>5, <2>6 DEF ListsKnown
  <2>7. ListsKnown'
    BY <1>4, <2>1, <2>3, <2>4, <2>6 DEF ListsKnown
  <2>8. UserKnown'
    BY <1>3, <1>4, <2>1, <2>2, <2>3 DEF UserKnown, ReadsUser
  <2> QED
    BY <2>7, <2>8
<1> QED
  BY <1>2, <1>6, <1>7 DEF DeskInv

LEMMA DeskUser ==
    ASSUME DeskInv, AdminInv', UNCHANGED <<adminSaved, clock, adminAsked>>,
           NEW c \in adminCalls, ReadsUser(c), c.at = "done", adminCalls' = adminCalls \ {c},
           adminPage # None, c.to = adminPage.mount, PageShaped(adminPage'),
           adminPage'.mount = adminPage.mount, adminPage'.lists = adminPage.lists,
           adminPage'.detail = [user |-> c.user, rows |-> c.rows], adminPage'.broken = adminPage.broken,
           newest' = [newest EXCEPT !.detail = IF @ > c.stamp THEN @ ELSE c.stamp],
           late' = (late \/ c.stamp < newest.detail)
    PROVE  DeskInv'
<1>1. DeskTyped /\ Ordered /\ PageFits /\ CallFits(c)
  BY DEF DeskInv, DeskTyped
<1>2. (\A d \in adminCalls' : CallFits(d)') /\ Ordered'
  BY <1>1, AskingTyped
<1>3. /\ newest' \in [lists : 0 .. clock, detail : 0 .. clock] /\ newest'.lists = newest.lists
      /\ newest.detail <= newest'.detail
  BY <1>1 DEF DeskTyped, CallFits
<1>4. Current' = Current /\ \A x : AsSavedNow(x)' <=> AsSavedNow(x)
  BY NothingDeleted DEF AsSavedNow
<1>5. PageFits'
  BY <1>1, <1>3, <1>4 DEF PageFits, CallFits
<1>6. DeskTyped'
  BY <1>1, <1>2, <1>3, <1>5 DEF DeskTyped, adminSaved
<1>7. ASSUME ~late' PROVE ListsKnown' /\ UserKnown'
  <2>1. ListsKnown /\ UserKnown /\ ~(c.stamp < newest.detail)
    BY <1>7 DEF DeskInv
  <2>2. ~Owes(c) /\ ~ForLists(c) /\ (Untold => Untold')
    BY DEF Owes, Untold, ReadsUser, ReadsLists, ForLists
  <2>3. \A e : (ForLists(e)' <=> ForLists(e)) /\ (ForRefetch(e)' <=> ForRefetch(e))
    BY DEF ForLists, ForRefetch
  <2>4. ListsKnown'
    BY <1>3, <1>4, <2>1, <2>2, <2>3 DEF ListsKnown
  <2>5. ASSUME NEW e \in adminCalls', ReadsUser(e), e.to = adminPage.mount, e.at = "done"
        PROVE  Untold' \/ AsSavedNow(e) \/ e.stamp < newest'.detail
    <3>1. Untold' \/ AsSavedNow(e) \/ e.stamp < newest.detail
      BY <2>1, <2>2, <2>5 DEF UserKnown
    <3>2. e.stamp \in Nat /\ newest.detail \in Nat /\ newest'.detail \in Nat
      BY <1>1, <1>3 DEF DeskTyped, CallFits
    <3> QED
      BY <1>3, <3>1, <3>2
  <2>6. Untold' \/ AsSavedNow(c)
    BY <2>1, <2>2 DEF UserKnown
  <2>7. AsSavedNow(c) => AsSavedNow(adminPage'.detail)
    BY DEF AsSavedNow
  <2>8. UserKnown'
    BY <1>4, <2>5, <2>6, <2>7 DEF UserKnown, ReadsUser
  <2> QED
    BY <2>4, <2>8
<1> QED
  BY <1>2, <1>6, <1>7 DEF DeskInv

-----------------------------------------------------------------------------
(* The actions, one after the other.                                       *)

LEMMA RequestOf ==
    ASSUME NEW fn, NEW n, NEW to
    PROVE  /\ Request(fn, n, to).fn = fn /\ Request(fn, n, to).to = to /\ Request(fn, n, to).user = None
           /\ Request(fn, n, to).at = "sent" /\ Request(fn, n, to).stamp = 0
BY DEF Request

\* Pages like page, but for what is given.
PageLike(page, lists, detail, armed, taken) ==
    [mount : {page.mount}, lists : {page.lists, lists}, detail : {page.detail, detail, None},
     broken : {page.broken, TRUE}, armed : {page.armed, armed}, busy : {page.busy, taken}]

LEMMA PageLikeItself ==
    ASSUME NEW page, PageShaped(page), NEW lists, NEW detail, NEW armed, NEW taken
    PROVE  page \in PageLike(page, lists, detail, armed, taken)
BY DEF PageShaped, PageLike

LEMMA LikeIsPage ==
    ASSUME NEW page, NEW lists, NEW detail, NEW armed, NEW taken,
           NEW p \in PageLike(page, lists, detail, armed, taken)
    PROVE  PageShaped(p) /\ p.mount = page.mount
BY DEF PageShaped, PageLike

\* One field of a page is changed.
LEMMA PageArmed ==
    ASSUME NEW page, PageShaped(page), NEW armed, NEW p, p = [page EXCEPT !.armed = armed]
    PROVE  /\ PageShaped(p) /\ p.mount = page.mount /\ p.lists = page.lists /\ p.detail = page.detail
           /\ p.broken = page.broken
<1>1. page \in PageLike(page, None, None, armed, None)
  BY PageLikeItself
<1>2. p \in PageLike(page, None, None, armed, None) /\ p.lists = page.lists /\ p.detail = page.detail
      /\ p.broken = page.broken
  BY <1>1 DEF PageLike
<1> QED
  BY <1>2, LikeIsPage

LEMMA PageBusy ==
    ASSUME NEW page, PageShaped(page), NEW taken, NEW p, p = [page EXCEPT !.busy = taken]
    PROVE  /\ PageShaped(p) /\ p.mount = page.mount /\ p.lists = page.lists /\ p.detail = page.detail
           /\ p.broken = page.broken
<1>1. page \in PageLike(page, None, None, None, taken)
  BY PageLikeItself
<1>2. p \in PageLike(page, None, None, None, taken) /\ p.lists = page.lists /\ p.detail = page.detail
      /\ p.broken = page.broken
  BY <1>1 DEF PageLike
<1> QED
  BY <1>2, LikeIsPage

LEMMA PageDetailed ==
    ASSUME NEW page, PageShaped(page), NEW detail, NEW p, p = [page EXCEPT !.detail = detail]
    PROVE  /\ PageShaped(p) /\ p.mount = page.mount /\ p.lists = page.lists /\ p.detail = detail
           /\ p.broken = page.broken
<1>1. page \in PageLike(page, None, detail, None, None)
  BY PageLikeItself
<1>2. p \in PageLike(page, None, detail, None, None) /\ p.lists = page.lists /\ p.detail = detail
      /\ p.broken = page.broken
  BY <1>1 DEF PageLike
<1> QED
  BY <1>2, LikeIsPage

LEMMA PageBroken ==
    ASSUME NEW page, PageShaped(page), NEW p, p = [page EXCEPT !.broken = TRUE]
    PROVE  /\ PageShaped(p) /\ p.mount = page.mount /\ p.lists = page.lists /\ p.detail = page.detail
           /\ p.broken = TRUE
<1>1. page \in PageLike(page, None, None, None, None)
  BY PageLikeItself
<1>2. p \in PageLike(page, None, None, None, None) /\ p.lists = page.lists /\ p.detail = page.detail
      /\ p.broken = TRUE
  BY <1>1 DEF PageLike
<1> QED
  BY <1>2, LikeIsPage

\* Nothing that the page shows or waits for is touched, but more may be asked.
LEMMA DeskAsks ==
    ASSUME DeskInv, AdminInv', UNCHANGED <<adminSaved, adminPage, clock, newest, late>>,
           adminAsked' \in {adminAsked, adminAsked + 1}, adminCalls \subseteq adminCalls',
           \A d \in adminCalls' : d \in adminCalls \/ JustAsked(d)
    PROVE  DeskInv'
<1>1. PageStays
  BY DEF PageStays, DeskInv, DeskTyped, PageFits
<1>2. Untold => Untold'
  BY DEF Untold, Owes
<1> QED
  BY <1>1, <1>2, DeskStays

LEMMA InitDesk == AdminInit => DeskInv
<1> SUFFICES ASSUME AdminInit PROVE DeskInv
  OBVIOUS
<1>1. AdminInv
  BY InitAdmin
<1>2. srvUsers = AdminUsers /\ srvRows = AdminRows /\ adminPage = None /\ adminCalls = {} /\ clock = 0
      /\ newest = [lists |-> 0, detail |-> 0] /\ adminAsked = 0
  BY DEF AdminInit
<1>3. DeskTyped /\ Ordered
  BY <1>2 DEF DeskTyped, Ordered
<1> QED
  BY <1>1, <1>2, <1>3 DEF DeskInv

LEMMA EnterDesk == ASSUME DeskInv, AdminInv', EnterPage PROVE DeskInv'
<1> DEFINE first == Request("lists", adminAsked, adminAsked)
           again == Request("relists", adminAsked, adminAsked)
<1>1. /\ UNCHANGED <<adminSaved, clock, late>> /\ adminAsked' = adminAsked + 1
      /\ newest' = [lists |-> 0, detail |-> 0]
      /\ adminPage' = [mount |-> adminAsked, lists |-> None, detail |-> None, broken |-> FALSE,
                       armed |-> {}, busy |-> {}]
  BY DEF EnterPage, Asks
<1>2. adminCalls' = adminCalls \cup {Request(IF a THEN "relists" ELSE "lists", adminAsked, adminAsked) : a \in {FALSE, ticked}}
  BY DEF EnterPage, Asks
<1>3. first \in adminCalls' /\ \A d \in adminCalls' : d \in adminCalls \/ d = first \/ d = again
  BY <1>2
<1>4. /\ first.fn = "lists" /\ first.to = adminAsked /\ first.at = "sent" /\ first.stamp = 0 /\ first.user = None
      /\ again.fn = "relists" /\ again.to = adminAsked /\ again.at = "sent" /\ again.stamp = 0
      /\ again.user = None
  BY RequestOf
<1>5. adminAsked \in Nat
  BY DEF DeskInv, DeskTyped
<1> HIDE DEF first, again
<1>6. \A d \in adminCalls' : d \in adminCalls \/ JustAsked(d)
  BY <1>1, <1>3, <1>4, <1>5 DEF JustAsked, ReadsLists, ReadsUser
<1>7. \E d \in adminCalls' : ReadsLists(d) /\ d.to = adminAsked /\ d.at = "sent"
  BY <1>3, <1>4 DEF ReadsLists
<1>8. /\ PageShaped(adminPage') /\ adminPage'.mount = adminAsked /\ adminPage'.detail = None
      /\ adminPage'.broken = FALSE
  BY <1>1 DEF PageShaped
<1> QED
  BY <1>1, <1>6, <1>7, <1>8, DeskEnters

\* A request the page makes about a user.
LEMMA UserAsked ==
    ASSUME DeskTyped, adminPage # None, NEW fn, NEW n, NEW u \in AdminUsers, fn \notin {"lists", "relists"},
           adminAsked' \in {adminAsked, adminAsked + 1}
    PROVE  JustAsked([Request(fn, n, adminPage.mount) EXCEPT !.user = u])
<1> DEFINE d == [Request(fn, n, adminPage.mount) EXCEPT !.user = u]
<1>0. d = [Request(fn, n, adminPage.mount) EXCEPT !.user = u]
  OBVIOUS
<1> HIDE DEF d
<1>1. d.fn = fn /\ d.to = adminPage.mount /\ d.user = u /\ d.at = "sent" /\ d.stamp = 0
  BY <1>0 DEF Request
<1>2. adminPage.mount \in 0 .. adminAsked' - 1
  BY DEF DeskTyped, PageFits
<1>3. JustAsked(d)
  BY <1>1, <1>2 DEF JustAsked, ReadsLists, ReadsUser
<1> QED
  BY <1>3 DEF d

LEMMA ListedPage == ASSUME NEW u \in Listed PROVE adminPage # None
BY DEF Listed

LEMMA PageDesk ==
    ASSUME DeskInv, AdminInv', NEW u \in AdminUsers, OpenDetail(u) \/ RemoveUser(u) \/ MouseLeaves(u)
    PROVE  DeskInv'
<1>1. /\ UNCHANGED <<adminSaved, clock, newest, late>> /\ adminPage # None
      /\ adminAsked' \in {adminAsked, adminAsked + 1}
  BY ListedPage DEF OpenDetail, RemoveUser, MouseLeaves, Asks, adminGhosts
<1>2. DeskTyped /\ PageShaped(adminPage)
  BY <1>1 DEF DeskInv, DeskTyped, PageFits
<1>3. adminCalls \subseteq adminCalls' /\ \A d \in adminCalls' : d \in adminCalls \/ JustAsked(d)
  BY <1>1, <1>2, UserAsked DEF OpenDetail, RemoveUser, MouseLeaves, Asks
<1>4. PageStays
  <2>1. CASE adminPage' = [adminPage EXCEPT !.detail = None]
    <3>1. /\ PageShaped(adminPage') /\ adminPage'.mount = adminPage.mount /\ adminPage'.lists = adminPage.lists
          /\ adminPage'.detail = None /\ adminPage'.broken = adminPage.broken
      BY <1>2, <2>1, PageDetailed
    <3> QED
      BY <1>1, <1>3, <3>1 DEF PageStays
  <2> DEFINE same == /\ PageShaped(adminPage') /\ adminPage'.mount = adminPage.mount
                     /\ adminPage'.lists = adminPage.lists /\ adminPage'.detail = adminPage.detail
                     /\ adminPage'.broken = adminPage.broken
  <2>2. CASE adminPage' = adminPage
    <3>1. same
      BY <1>2, <2>2
    <3> QED
      BY <1>1, <1>3, <3>1 DEF PageStays
  <2>3. ASSUME NEW armed, adminPage' = [adminPage EXCEPT !.armed = armed] PROVE same
    BY <1>2, <2>3, PageArmed
  <2>4. ASSUME NEW taken, adminPage' = [adminPage EXCEPT !.busy = taken] PROVE same
    BY <1>2, <2>4, PageBusy
  <2>5. \/ adminPage' = [adminPage EXCEPT !.detail = None] \/ adminPage' = adminPage
        \/ \E armed : adminPage' = [adminPage EXCEPT !.armed = armed]
        \/ \E taken : adminPage' = [adminPage EXCEPT !.busy = taken]
    BY DEF OpenDetail, RemoveUser, MouseLeaves
  <2>6. ASSUME same PROVE PageStays
    BY <1>1, <1>3, <2>6 DEF PageStays
  <2> QED
    BY <2>1, <2>2, <2>3, <2>4, <2>5, <2>6
<1>5. Untold => Untold'
  BY <1>3 DEF Untold, Owes
<1> QED
  BY <1>1, <1>3, <1>4, <1>5, DeskStays

LEMMA LeaveDesk == ASSUME DeskInv, AdminInv', LeavePage PROVE DeskInv'
<1>1. /\ UNCHANGED <<adminSaved, clock, newest, late, adminCalls, adminAsked>> /\ adminPage' = None
  BY DEF LeavePage, adminGhosts
<1>2. PageStays
  BY <1>1 DEF PageStays
<1> QED
  BY <1>1, <1>2, DeskStays

\* The tab of transactions and the console, which ask on their own behalf.
Docked(d) == d.fn \in {"txLoad", "txDelete", "sql"} /\ d.at = "sent" /\ d.stamp = 0

LEMMA DockedDesk ==
    ASSUME DeskInv, AdminInv', UNCHANGED <<adminSaved, adminPage, clock, newest, late>>,
           adminAsked' \in {adminAsked, adminAsked + 1},
           adminCalls' = adminCalls \/ \E d : Docked(d) /\ adminCalls' = adminCalls \cup {d}
    PROVE  DeskInv'
<1>1. adminCalls \subseteq adminCalls' /\ \A d \in adminCalls' : d \in adminCalls \/ JustAsked(d)
  BY DEF JustAsked, Docked, ReadsLists, ReadsUser
<1> QED
  BY <1>1, DeskAsks

LEMMA InTabDesk == ASSUME DeskInv, AdminInv', NEW tab, InTab(tab) PROVE DeskInv'
BY DockedDesk DEF InTab, adminGhosts

LEMMA ManageDesk == ASSUME DeskInv, AdminInv', Manage PROVE DeskInv'
<1> DEFINE d == [Request("txLoad", adminAsked, adminAsked) EXCEPT !.user = OpenUser]
<1>1. /\ UNCHANGED <<adminSaved, adminPage, clock, newest, late>> /\ adminAsked' = adminAsked + 1
      /\ adminCalls' = adminCalls \cup {d}
  BY DEF Manage, Asks, adminGhosts
<1>2. Docked(d)
  BY DEF Docked, Request
<1> HIDE DEF d
<1> QED
  BY <1>1, <1>2, DockedDesk

LEMMA RemoveSelectedDesk == ASSUME DeskInv, AdminInv', RemoveSelected PROVE DeskInv'
<1> DEFINE d == [Request("txDelete", adminAsked, txTab.number) EXCEPT
                    !.user = txTab.user, !.ids = txTab.selected, !.sure = txTab.sure]
<1>1. /\ UNCHANGED <<adminSaved, adminPage, clock, newest, late>>
      /\ adminAsked' \in {adminAsked, adminAsked + 1}
      /\ adminCalls' \in {adminCalls, adminCalls \cup {d}}
  BY DEF RemoveSelected, Asks, adminGhosts
<1>2. Docked(d)
  BY DEF Docked, Request
<1> HIDE DEF d
<1> QED
  BY <1>1, <1>2, DockedDesk

LEMMA RunSqlDesk ==
    ASSUME DeskInv, AdminInv', NEW confirm \in BOOLEAN, NEW dry \in BOOLEAN, RunSql(confirm, dry)
    PROVE  DeskInv'
<1> DEFINE d == [Request("sql", adminAsked, 0) EXCEPT
                    !.stmt = console.sql, !.dry = dry, !.about = IF confirm THEN console.pending ELSE None]
<1>1. /\ UNCHANGED <<adminSaved, adminPage, clock, newest, late>> /\ adminAsked' = adminAsked + 1
      /\ adminCalls' = adminCalls \cup {d}
  BY DEF RunSql, Asks, adminGhosts
<1>2. Docked(d)
  BY DEF Docked, Request
<1> HIDE DEF d
<1> QED
  BY <1>1, <1>2, DockedDesk

LEMMA ConsoleDesk ==
    ASSUME DeskInv, AdminInv', CancelWrite \/ \E s \in SqlStatements : TypeSql(s) \/ PickSql(s)
    PROVE  DeskInv'
<1>1. UNCHANGED <<adminSaved, adminPage, clock, newest, late, adminAsked, adminCalls>>
  BY DEF CancelWrite, TypeSql, PickSql, Rewrite, adminGhosts
<1> QED
  BY <1>1, DockedDesk

LEMMA PersonDesk == ASSUME DeskInv, AdminInv', AdminUser PROVE DeskInv'
<1>1. ASSUME NEW r, ToggleRow(r) PROVE DeskInv'
  BY <1>1, InTabDesk DEF ToggleRow, Ticking
<1>2. ASSUME NEW a, FilterRows(a) PROVE DeskInv'
  BY <1>2, InTabDesk DEF FilterRows
<1>3. CASE ToggleAllVisible \/ CloseTxTab
  BY <1>3, InTabDesk DEF ToggleAllVisible, Ticking, CloseTxTab
<1> QED
  BY <1>1, <1>2, <1>3, EnterDesk, LeaveDesk, PageDesk, ManageDesk, RemoveSelectedDesk, RunSqlDesk, ConsoleDesk
     DEF AdminUser

-----------------------------------------------------------------------------
\* What is filled in when c is answered.
LEMMA Served ==
    ASSUME NEW c, CallShaped(c), NEW stamp, NEW lists, NEW shownRows, NEW verdict
    PROVE  /\ [c EXCEPT !.at = "done", !.stamp = stamp] \in CallLike(c, stamp, None, None, None)
           /\ [c EXCEPT !.at = "done", !.stamp = stamp, !.lists = lists, !.rows = shownRows]
                \in CallLike(c, stamp, lists, shownRows, None)
           /\ [c EXCEPT !.at = "done", !.stamp = stamp, !.verdict = verdict]
                \in CallLike(c, stamp, None, None, verdict)
<1>1. /\ c \in CallLike(c, stamp, None, None, None) /\ c \in CallLike(c, stamp, lists, shownRows, None)
      /\ c \in CallLike(c, stamp, None, None, verdict)
  BY DEF CallShaped, CallLike
<1> QED
  BY <1>1 DEF CallLike

LEMMA ServesAnswer ==
    ASSUME NEW c, NEW stamp, NEW lists, NEW shownRows, NEW verdict,
           NEW d \in CallLike(c, stamp, lists, shownRows, verdict)
    PROVE  d.fn = c.fn /\ d.to = c.to /\ d.user = c.user
BY DEF CallLike

LEMMA ReadDesk ==
    ASSUME DeskInv, AdminInv', NEW c \in adminCalls, ReadAdmin(c), clock' = clock + 1,
           UNCHANGED <<adminPage, newest, late, adminAsked>>
    PROVE  DeskInv'
<1> DEFINE lists == IF c.user = None THEN [u \in srvUsers |-> Cardinality(OwnRows(u))] ELSE None
           read  == IF c.user = None THEN None ELSE OwnRows(c.user)
<1>1. adminCalls' = (adminCalls \ {c}) \cup
         {[c EXCEPT !.at = "done", !.stamp = clock + 1, !.lists = lists, !.rows = read]}
  BY Zenon DEF ReadAdmin
<1>2. c.at = "sent" /\ c.user \in srvUsers \cup {None} /\ UNCHANGED adminSaved
  BY Zenon DEF ReadAdmin
<1>3. (c.user = None => lists = Current) /\ (c.user # None => read = OwnRows(c.user))
  BY DEF Current
<1> HIDE DEF lists, read
<1> DEFINE d == [c EXCEPT !.at = "done", !.stamp = clock + 1, !.lists = lists, !.rows = read]
<1>4. adminCalls' = (adminCalls \ {c}) \cup {d}
  BY <1>1
<1>5. CallShaped(c) /\ CallFits(c)
  BY DEF DeskInv, AdminInv, Calls, DeskTyped
<1>6. d \in CallLike(c, clock + 1, lists, read, None)
  BY <1>5, Zenon, Served
<1>7. d.at = "done" /\ d.stamp = clock + 1 /\ d.lists = lists /\ d.rows = read
  BY <1>5 DEF CallShaped
<1> HIDE DEF d
<1>8. Answer(c, d)
  BY <1>2, <1>4, <1>6, <1>7, ServesAnswer DEF Answer
<1>9. ReadsLists(c) => d.lists = Current
  BY <1>3, <1>5, <1>7 DEF CallFits
<1>10. ReadsUser(c) => AsSavedNow(d)
  BY <1>2, <1>3, <1>5, <1>7, <1>8, AdminAssumption DEF CallFits, AsSavedNow, Answer
<1> QED
  BY <1>2, <1>8, <1>9, <1>10, DeskReads

LEMMA DeleteDesk ==
    ASSUME DeskInv, AdminInv', NEW c \in adminCalls, DeleteUser(c) \/ DeleteRows(c), clock' = clock + 1,
           UNCHANGED <<adminPage, newest, late, adminAsked>>
    PROVE  DeskInv'
<1> DEFINE d == [c EXCEPT !.at = "done", !.stamp = clock + 1]
<1>1. /\ c.at = "sent" /\ c.fn \in {"deleteUser", "txDelete"}
      /\ adminCalls' = (adminCalls \ {c}) \cup {d}
      /\ srvUsers' \subseteq srvUsers /\ srvRows' \subseteq srvRows
  BY DEF DeleteUser, DeleteRows, Done
<1>2. CallShaped(c)
  BY DEF DeskInv, AdminInv, Calls
<1>3. d \in CallLike(c, clock + 1, None, None, None)
  BY <1>2, Zenon, Served
<1>4. d.at = "done" /\ d.stamp = clock + 1
  BY <1>2 DEF CallShaped
<1> HIDE DEF d
<1>5. Answer(c, d)
  BY <1>1, <1>3, <1>4, ServesAnswer DEF Answer
<1>6. Owes(d) /\ ~ReadsLists(c) /\ ~ReadsUser(c)
  BY <1>1, <1>4, <1>5 DEF Owes, Answer, ReadsLists, ReadsUser
<1> QED
  BY <1>1, <1>5, <1>6, DeskDeletes

LEMMA ExecuteDesk ==
    ASSUME DeskInv, AdminInv', NEW c \in adminCalls, ExecuteSql(c), clock' = clock + 1,
           UNCHANGED <<adminPage, newest, late, adminAsked>>
    PROVE  DeskInv'
<1> DEFINE Verdict(v) == [c EXCEPT !.at = "done", !.stamp = clock + 1, !.verdict = v]
           written == Verdict("written")
           refused == Verdict("refused")
           read    == Verdict("read")
<1>1. c.at = "sent" /\ c.fn = "sql"
  BY DEF ExecuteSql
<1>2. \/ /\ srvRows' \subseteq srvRows /\ srvUsers' \subseteq srvUsers
         /\ adminCalls' = (adminCalls \ {c}) \cup {written}
      \/ /\ UNCHANGED adminSaved
         /\ \/ adminCalls' = (adminCalls \ {c}) \cup {refused}
            \/ adminCalls' = (adminCalls \ {c}) \cup {read}
  BY DEF ExecuteSql
<1>3. CallShaped(c)
  BY DEF DeskInv, AdminInv, Calls
<1>4. /\ written \in CallLike(c, clock + 1, None, None, "written") /\ refused \in CallLike(c, clock + 1, None, None, "refused")
      /\ read \in CallLike(c, clock + 1, None, None, "read")
  BY <1>3, Zenon, Served
<1>5. /\ written.at = "done" /\ written.stamp = clock + 1 /\ written.verdict = "written"
      /\ refused.at = "done" /\ refused.stamp = clock + 1
      /\ read.at = "done" /\ read.stamp = clock + 1
  BY <1>3 DEF CallShaped
<1> HIDE DEF written, refused, read
<1>6. ~ReadsLists(c) /\ ~ReadsUser(c)
  BY <1>1 DEF ReadsLists, ReadsUser
<1>7. adminCalls' = (adminCalls \ {c}) \cup {written} => Answer(c, written)
  BY <1>1, <1>4, <1>5, ServesAnswer DEF Answer
<1>8. adminCalls' = (adminCalls \ {c}) \cup {refused} => Answer(c, refused)
  BY <1>1, <1>4, <1>5, ServesAnswer DEF Answer
<1>9. adminCalls' = (adminCalls \ {c}) \cup {read} => Answer(c, read)
  BY <1>1, <1>4, <1>5, ServesAnswer DEF Answer
<1>10. Answer(c, written) => Owes(written)
  BY <1>1, <1>5 DEF Owes, Answer
<1>11. ASSUME NEW d, Answer(c, d), UNCHANGED adminSaved PROVE DeskInv'
  BY <1>6, <1>11, DeskReads
<1>12. ASSUME Answer(c, written), srvRows' \subseteq srvRows, srvUsers' \subseteq srvUsers PROVE DeskInv'
  BY <1>6, <1>10, <1>12, DeskDeletes
<1> QED
  BY <1>2, <1>7, <1>8, <1>9, <1>11, <1>12

LEMMA ServesDesk == ASSUME DeskInv, AdminInv', NEW c \in adminCalls, AdminServes(c) PROVE DeskInv'
<1>1. clock' = clock + 1 /\ UNCHANGED <<adminPage, newest, late, adminAsked>>
  BY DEF AdminServes, adminGhosts
<1> QED
  BY <1>1, ReadDesk, DeleteDesk, ExecuteDesk DEF AdminServes

-----------------------------------------------------------------------------
(* An answer, or none, that leaves the page as it is.                      *)
LEMMA ElsewhereDesk ==
    ASSUME DeskInv, AdminInv', NEW c \in adminCalls, adminCalls' = adminCalls \ {c},
           UNCHANGED <<adminSaved, adminPage, clock, newest, adminAsked>>,
           ~OnPage(c) \/ (~ReadsLists(c) /\ c.fn # "refetch"),
           late => late', late' \/ adminPage = None \/ ~Owes(c)
    PROVE  DeskInv'
<1>1. PageStays
  BY DEF PageStays, DeskInv, DeskTyped, PageFits, OnPage, ForLists, ForRefetch
<1>2. ~Owes(c) => (Untold => Untold')
  BY DEF Untold, Owes
<1> QED
  BY <1>1, <1>2, DeskStays

LEMMA ListsDesk ==
    ASSUME DeskInv, AdminInv', NEW c \in adminCalls, c.at = "done", ListsCome(c),
           UNCHANGED <<adminSaved, clock, adminAsked>>
    PROVE  DeskInv'
<1>1. ReadsLists(c) /\ adminCalls' = adminCalls \ {c} /\ ~Owes(c)
  BY DEF ListsCome, ReadsLists, Owes
<1>2. CASE ~OnPage(c)
  <2>1. UNCHANGED <<adminPage, newest>> /\ (late => late')
    BY <1>2 DEF ListsCome, Shows
  <2> QED
    BY <1>1, <1>2, <2>1, ElsewhereDesk
<1>3. CASE OnPage(c)
  <2> DEFINE armed == adminPage.armed \cap DOMAIN c.lists
             taken  == adminPage.busy \cap DOMAIN c.lists
  <2>1. adminPage' = [adminPage EXCEPT !.lists = c.lists, !.armed = armed, !.busy = taken]
    BY <1>3 DEF ListsCome
  <2>2. /\ newest' = [newest EXCEPT !.lists = IF @ > c.stamp THEN @ ELSE c.stamp]
        /\ late' = (late \/ c.stamp < newest.lists)
    BY <1>3 DEF ListsCome, Shows
  <2>3. adminPage # None /\ c.to = adminPage.mount /\ PageShaped(adminPage)
    BY <1>3 DEF OnPage, DeskInv, DeskTyped, PageFits
  <2> HIDE DEF armed, taken
  <2>4. adminPage \in PageLike(adminPage, c.lists, None, armed, taken)
    BY <2>3, PageLikeItself
  <2>5. /\ adminPage' \in PageLike(adminPage, c.lists, None, armed, taken) /\ adminPage'.lists = c.lists
        /\ adminPage'.detail = adminPage.detail /\ adminPage'.broken = adminPage.broken
    BY <2>1, <2>4 DEF PageLike
  <2>6. PageShaped(adminPage') /\ adminPage'.mount = adminPage.mount
    BY <2>5, LikeIsPage
  <2> QED
    BY <1>1, <2>2, <2>3, <2>5, <2>6, DeskLists
<1> QED
  BY <1>2, <1>3

LEMMA DetailDesk ==
    ASSUME DeskInv, AdminInv', NEW c \in adminCalls, c.at = "done", DetailComes(c),
           UNCHANGED <<adminSaved, clock, adminAsked>>
    PROVE  DeskInv'
<1>1. ReadsUser(c) /\ adminCalls' = adminCalls \ {c} /\ ~Owes(c)
  BY DEF DetailComes, ReadsUser, Owes
<1>2. CASE ~OnPage(c)
  <2>1. UNCHANGED <<adminPage, newest>> /\ (late => late')
    BY <1>2 DEF DetailComes, Shows
  <2> QED
    BY <1>1, <1>2, <2>1, ElsewhereDesk
<1>3. CASE OnPage(c)
  <2> DEFINE detail == [user |-> c.user, rows |-> c.rows]
  <2>1. adminPage' = [adminPage EXCEPT !.detail = detail]
    BY <1>3 DEF DetailComes
  <2>2. /\ newest' = [newest EXCEPT !.detail = IF @ > c.stamp THEN @ ELSE c.stamp]
        /\ late' = (late \/ c.stamp < newest.detail)
    BY <1>3 DEF DetailComes, Shows
  <2>3. adminPage # None /\ c.to = adminPage.mount /\ PageShaped(adminPage)
    BY <1>3 DEF OnPage, DeskInv, DeskTyped, PageFits
  <2>4. detail = [user |-> c.user, rows |-> c.rows]
    OBVIOUS
  <2> HIDE DEF detail
  <2>5. /\ PageShaped(adminPage') /\ adminPage'.mount = adminPage.mount /\ adminPage'.lists = adminPage.lists
        /\ adminPage'.detail = detail /\ adminPage'.broken = adminPage.broken
    BY <2>1, <2>3, PageDetailed
  <2> QED
    BY <1>1, <2>2, <2>3, <2>4, <2>5, DeskUser
<1> QED
  BY <1>2, <1>3

LEMMA UserDeletedDesk ==
    ASSUME DeskInv, AdminInv', NEW c \in adminCalls, UserDeleted(c),
           UNCHANGED <<adminSaved, clock, adminAsked>>
    PROVE  DeskInv'
<1>1. CASE ~OnPage(c)
  <2>1. /\ adminCalls' = adminCalls \ {c} /\ UNCHANGED <<adminPage, newest>>
        /\ (late => late') /\ (adminPage = None \/ late')
    BY <1>1 DEF UserDeleted
  <2> QED
    BY <1>1, <2>1, ElsewhereDesk
<1>2. CASE OnPage(c)
  <2> DEFINE d == Request("lists", c.n, c.to)
  <2>1. /\ adminPage' = [adminPage EXCEPT !.detail = None] /\ adminCalls' = (adminCalls \ {c}) \cup {d}
        /\ newest' = [newest EXCEPT !.detail = clock] /\ (late => late')
    BY <1>2 DEF UserDeleted
  <2>2. d.fn = "lists" /\ d.to = c.to /\ d.user = None /\ d.at = "sent" /\ d.stamp = 0
    BY RequestOf
  <2> HIDE DEF d
  <2>3. adminPage # None /\ c.to = adminPage.mount /\ PageFits
    BY <1>2 DEF OnPage, DeskInv, DeskTyped
  <2>4. /\ PageShaped(adminPage') /\ adminPage'.mount = adminPage.mount /\ adminPage'.lists = adminPage.lists
        /\ adminPage'.detail = None /\ adminPage'.broken = adminPage.broken
    BY <2>1, <2>3, PageDetailed DEF PageFits
  <2>5. JustAsked(d) /\ ForLists(d)
    BY <2>2, <2>3 DEF JustAsked, ReadsLists, ReadsUser, PageFits, ForLists
  <2> QED
    BY <2>1, <2>2, <2>3, <2>4, <2>5, DeskTold
<1> QED
  BY <1>1, <1>2

LEMMA TicksDesk ==
    ASSUME DeskInv, AdminInv', NEW c \in adminCalls, Ticks(c),
           UNCHANGED <<adminSaved, adminPage, clock, late, adminAsked>>
    PROVE  DeskInv'
<1>1. newest' = [newest EXCEPT !.detail = clock]
  BY DEF Ticks
<1>2. CASE adminPage = None
  BY <1>1, <1>2, DeskTold DEF Ticks
<1>3. CASE adminPage # None
  <2> DEFINE d == Request("lists", c.n, adminPage.mount)
             e == [Request("refetch", c.n, adminPage.mount) EXCEPT !.user = adminPage.detail.user]
  <2>1. adminCalls' = (adminCalls \ {c}) \cup ({d} \cup (IF adminPage.detail = None THEN {} ELSE {e}))
    BY <1>3 DEF Ticks
  <2>2. d.fn = "lists" /\ d.to = adminPage.mount /\ d.user = None /\ d.at = "sent" /\ d.stamp = 0
    BY RequestOf
  <2>3. DeskTyped /\ PageFits
    BY <1>3 DEF DeskInv, DeskTyped
  <2>4. JustAsked(d) /\ ForLists(d)
    BY <2>2, <2>3 DEF JustAsked, ReadsLists, ReadsUser, PageFits, ForLists
  <2>5. adminPage.detail # None => JustAsked(e)
    BY <1>3, <2>3, UserAsked DEF PageFits
  <2>6. ForRefetch(e)
    BY DEF ForRefetch, Request
  <2> HIDE DEF d, e
  <2>7. \A x \in adminCalls' : x \in adminCalls \/ JustAsked(x)
    BY <2>1, <2>4, <2>5
  <2>8. (\E x \in adminCalls' : ForLists(x) /\ x.at = "sent") /\ (adminPage.detail # None => \E x \in adminCalls' : ForRefetch(x))
    BY <2>1, <2>2, <2>4, <2>6
  <2> QED
    BY <1>1, <1>3, <2>3, <2>7, <2>8, DeskTold DEF PageFits
<1> QED
  BY <1>2, <1>3

LEMMA TxDesk ==
    ASSUME DeskInv, AdminInv', NEW c \in adminCalls, TxLoaded(c) \/ TxDeleted(c) \/ TxReloaded(c),
           UNCHANGED <<adminSaved, clock, adminAsked>>
    PROVE  DeskInv'
<1>1. CASE TxLoaded(c)
  <2>1. adminCalls' = adminCalls \ {c} /\ UNCHANGED <<adminPage, newest, late>> /\ c.fn = "txLoad"
    BY <1>1 DEF TxLoaded
  <2> QED
    BY <2>1, ElsewhereDesk DEF ReadsLists, Owes
<1>2. CASE TxDeleted(c)
  <2> DEFINE d == [Request("txReload", c.n, c.to) EXCEPT !.user = c.user]
  <2>1. /\ adminCalls' = (adminCalls \ {c}) \cup {d} /\ UNCHANGED <<adminPage, newest, late>>
        /\ c.fn = "txDelete"
    BY <1>2 DEF TxDeleted
  <2>2. d.fn = "txReload" /\ d.at = "sent" /\ d.stamp = 0
    BY DEF Request
  <2> HIDE DEF d
  <2>3. JustAsked(d) /\ Owes(d)
    BY <2>2 DEF JustAsked, ReadsLists, ReadsUser, Owes
  <2>4. Untold'
    BY <2>1, <2>3 DEF Untold, Owes
  <2>5. PageStays
    BY <2>1 DEF PageStays, DeskInv, DeskTyped, PageFits, ForLists, ReadsLists, ForRefetch
  <2> QED
    BY <2>1, <2>3, <2>4, <2>5, DeskStays
<1>3. CASE TxReloaded(c)
  BY <1>3, TicksDesk DEF TxReloaded
<1> QED
  BY <1>1, <1>2, <1>3

LEMMA SqlDesk ==
    ASSUME DeskInv, AdminInv', NEW c \in adminCalls, SqlAnswers(c), UNCHANGED <<adminSaved, clock, adminAsked>>
    PROVE  DeskInv'
<1>1. c.fn = "sql" /\ UNCHANGED <<adminPage, late>>
  BY DEF SqlAnswers
<1>2. CASE c.verdict = "written"
  BY <1>1, <1>2, TicksDesk DEF SqlAnswers
<1>3. CASE c.verdict # "written"
  <2>1. adminCalls' = adminCalls \ {c} /\ UNCHANGED newest
    BY <1>3 DEF SqlAnswers
  <2> QED
    BY <1>1, <1>3, <2>1, ElsewhereDesk DEF ReadsLists, Owes
<1> QED
  BY <1>2, <1>3

LEMMA FailsDesk == ASSUME DeskInv, AdminInv', NEW c \in adminCalls, AdminFails(c) PROVE DeskInv'
<1>1. /\ adminCalls' = adminCalls \ {c} /\ UNCHANGED <<adminSaved, clock, newest, adminAsked>>
      /\ (late => late') /\ (Owes(c) => late')
  BY DEF AdminFails, Owes
<1>2. CASE adminPage' = adminPage /\ (~OnPage(c) \/ (~ReadsLists(c) /\ c.fn # "refetch"))
  BY <1>1, <1>2, ElsewhereDesk
<1>3. CASE OnPage(c) /\ (ReadsLists(c) \/ c.fn \in {"refetch", "deleteUser"})
  <2>1. PageShaped(adminPage) /\ adminPage # None
    BY <1>3 DEF OnPage, DeskInv, DeskTyped, PageFits
  <2>2. ASSUME ReadsLists(c) PROVE PageStays
    <3>1. adminPage' = [adminPage EXCEPT !.broken = TRUE]
      BY <1>3, <2>2 DEF AdminFails, ReadsLists
    <3>2. /\ PageShaped(adminPage') /\ adminPage'.mount = adminPage.mount /\ adminPage'.lists = adminPage.lists
          /\ adminPage'.detail = adminPage.detail /\ adminPage'.broken = TRUE
      BY <2>1, <3>1, PageBroken
    <3> QED
      BY <1>1, <2>1, <2>2, <3>2 DEF PageStays, ForRefetch, ReadsLists
  <2>3. ASSUME c.fn = "refetch" PROVE PageStays
    <3>1. adminPage' = [adminPage EXCEPT !.detail = None]
      BY <1>3, <2>3 DEF AdminFails
    <3>2. /\ PageShaped(adminPage') /\ adminPage'.mount = adminPage.mount /\ adminPage'.lists = adminPage.lists
          /\ adminPage'.detail = None /\ adminPage'.broken = adminPage.broken
      BY <2>1, <3>1, PageDetailed
    <3> QED
      BY <1>1, <2>1, <2>3, <3>2 DEF PageStays, ForLists, ReadsLists
  <2>4. ASSUME c.fn = "deleteUser" PROVE PageStays
    <3> DEFINE armed == adminPage.armed \ {c.user}
               taken  == adminPage.busy \ {c.user}
    <3>1. adminPage' = [adminPage EXCEPT !.armed = armed, !.busy = taken]
      BY <1>3, <2>4 DEF AdminFails
    <3> HIDE DEF armed, taken
    <3>2. adminPage \in PageLike(adminPage, None, None, armed, taken)
      BY <2>1, PageLikeItself
    <3>3. /\ adminPage' \in PageLike(adminPage, None, None, armed, taken) /\ adminPage'.lists = adminPage.lists
          /\ adminPage'.detail = adminPage.detail /\ adminPage'.broken = adminPage.broken
      BY <3>1, <3>2 DEF PageLike
    <3>4. PageShaped(adminPage') /\ adminPage'.mount = adminPage.mount
      BY <3>3, LikeIsPage
    <3> QED
      BY <1>1, <2>1, <2>4, <3>3, <3>4 DEF PageStays, ForLists, ReadsLists, ForRefetch
  <2>5. PageStays
    BY <1>3, <2>2, <2>3, <2>4
  <2>6. ~Owes(c) => (Untold => Untold')
    BY <1>1 DEF Untold, Owes
  <2> QED
    BY <1>1, <2>5, <2>6, DeskStays
<1>4. OnPage(c) /\ ~ReadsLists(c) /\ c.fn \notin {"refetch", "deleteUser"} => adminPage' = adminPage
  BY DEF AdminFails, ReadsLists
<1>5. ~OnPage(c) => adminPage' = adminPage
  BY DEF AdminFails
<1> QED
  BY <1>2, <1>3, <1>4, <1>5

-----------------------------------------------------------------------------
LEMMA NextDesk == DeskInv /\ [AdminNext]_adminVars => DeskInv'
<1> SUFFICES ASSUME DeskInv, [AdminNext]_adminVars PROVE DeskInv'
  OBVIOUS
<1>1. AdminInv'
  BY NextAdmin DEF DeskInv
<1>2. ASSUME NEW c \in adminCalls, AdminAnswers(c) PROVE DeskInv'
  BY <1>1, <1>2, ListsDesk, DetailDesk, UserDeletedDesk, TxDesk, SqlDesk DEF AdminAnswers
<1>3. CASE UNCHANGED adminVars
  BY <1>1, <1>3, DockedDesk DEF adminVars, adminGhosts
<1> QED
  BY <1>1, <1>2, <1>3, PersonDesk, ServesDesk, FailsDesk DEF AdminNext

\* When all is answered, and no answer was late or lost, the page shows the users and
\* the transactions that are saved, whatever the tabs docked beside it deleted
\* meanwhile and however often it was left (adminTick, reload, onDeleted in
\* AdminPage.tsx): for any users, transactions, statements and number of requests.
THEOREM PageAgrees == AdminSpec => []AdminPageAgrees
<1>1. DeskInv => AdminPageAgrees
  <2> SUFFICES ASSUME DeskInv, adminCalls = {}, adminPage # None, ~late
               PROVE  /\ ~adminPage.broken => adminPage.lists = Current
                      /\ adminPage.detail # None => AsSavedNow(adminPage.detail)
    BY DEF AdminPageAgrees, Current, AsSavedNow
  <2>1. ListsKnown /\ UserKnown /\ ~Untold
    BY DEF DeskInv, Untold
  <2> QED
    BY <2>1 DEF ListsKnown, UserKnown
<1> QED
  BY InitDesk, NextDesk, <1>1, PTL DEF AdminSpec

-----------------------------------------------------------------------------
(* The split editor.  While one field is typed in, the draft differs from  *)
(* the one remembered in that field and in the part that takes the         *)
(* difference, and there by what the field differs, if both can be shown:  *)
(* see DiffersAt.                                                          *)

Part == [amount : Nat, filed : BOOLEAN]

DraftTyped ==
    /\ total \in Nat
    /\ parts \in Seq(Part) /\ Len(parts) >= 2
    /\ lastValid \in Seq(Nat) \cup {None}

\* A draft that is fully assigned is the one remembered.
Remembered == FullyAssigned(AmountsOf(parts), total) => lastValid = AmountsOf(parts)

\* A draft that differs from the remembered one in field i, and in the part that
\* takes the difference: exactly so if both can be shown.
DiffersAt(i) ==
    /\ lastValid \in Seq(Nat) /\ Len(lastValid) = Len(parts)
    /\ FullyAssigned(lastValid, total)
    /\ \A n \in DOMAIN parts \ {i, Recipient(i)} : parts[n].amount = lastValid[n]
    /\ LET rest == lastValid[Recipient(i)] - (parts[i].amount - lastValid[i])
       IN  parts[i].amount # 0 /\ rest >= Rouble => parts[Recipient(i)].amount = rest

SplitInv == DraftTyped /\ Remembered /\ (typing \in DOMAIN parts => DiffersAt(typing))

LEMMA RecipientIsOther ==
    ASSUME NEW i \in DOMAIN parts, DraftTyped
    PROVE  Recipient(i) \in DOMAIN parts /\ Recipient(i) # i
BY DEF Recipient, DraftTyped

LEMMA AmountsTyped ==
    ASSUME NEW draft \in Seq(Part)
    PROVE  /\ AmountsOf(draft) \in Seq(Nat) /\ Len(AmountsOf(draft)) = Len(draft)
           /\ DOMAIN AmountsOf(draft) = DOMAIN draft
           /\ \A n \in DOMAIN draft : AmountsOf(draft)[n] = draft[n].amount
<1> DEFINE f == [n \in 1 .. Len(draft) |-> draft[n].amount]
<1>1. DOMAIN draft = 1 .. Len(draft) /\ Len(draft) \in Nat /\ AmountsOf(draft) = f
  BY DEF AmountsOf
<1>2. \A n \in 1 .. Len(draft) : draft[n].amount \in Nat
  <2>1. \A n \in 1 .. Len(draft) : draft[n] \in Part
    BY <1>1
  <2> QED
    BY <2>1 DEF Part
<1>3. f \in Seq(Nat) /\ Len(f) = Len(draft)
  BY <1>1, <1>2
<1> QED
  BY <1>1, <1>3

\* The same of two drafts.
LEMMA SumsDiffer ==
    ASSUME NEW f, NEW g, NEW i, NEW r,
           f \in Seq(Nat), g \in Seq(Nat), Len(f) = Len(g),
           i \in DOMAIN f, r \in DOMAIN f, i # r,
           \A n \in DOMAIN f \ {i, r} : f[n] = g[n]
    PROVE  /\ SumSeq(f) \in Nat
           /\ SumSeq(g) = Exchanged(SumSeq(f), f, g, i, r)
<1>1. /\ DOMAIN f = 1 .. Len(f) /\ DOMAIN g = DOMAIN f /\ Len(f) \in Nat
      /\ \A n \in DOMAIN f : f[n] \in Nat /\ g[n] \in Nat
  OBVIOUS
<1>2. IsFiniteSet(DOMAIN f)
  BY <1>1, FS_Interval
<1>3. \A n \in DOMAIN f : f[n] \in Int /\ g[n] \in Int
  BY <1>1
<1>4. SumFunctionOnSet(f, DOMAIN f) \in Nat
  BY <1>1, <1>2, SumType
<1>5. SumFunctionOnSet(g, DOMAIN f) = Exchanged(SumFunctionOnSet(f, DOMAIN f), f, g, i, r)
  <2> DEFINE S == DOMAIN f
  <2>1. i \in S /\ r \in S /\ i # r /\ IsFiniteSet(S)
    BY <1>2
  <2>2. \A n \in S : f[n] \in Int /\ g[n] \in Int
    BY <1>3
  <2>3. \A n \in S \ {i, r} : f[n] = g[n]
    OBVIOUS
  <2> HIDE DEF S
  <2>5. ASSUME NEW u, NEW v, u = f, v = g
        PROVE  SumFunctionOnSet(v, S) = Exchanged(SumFunctionOnSet(u, S), u, v, i, r)
    <3>1. \A n \in S : u[n] \in Int /\ v[n] \in Int
      BY <2>2, <2>5
    <3>2. \A n \in S : n # i /\ n # r => u[n] = v[n]
      BY <2>3, <2>5
    <3> QED
      BY ONLY <2>1, <3>1, <3>2, SumTwoChanges
  <2>4. SumFunctionOnSet(g, S) = Exchanged(SumFunctionOnSet(f, S), f, g, i, r)
    BY <2>5
  <2> QED
    BY <2>4 DEF S
<1> QED
  BY <1>1, <1>4, <1>5 DEF SumSeq, SumFunction

\* The invariant is what the property needs.
LEMMA TypingFromInv == SplitInv => TypingKeepsTheSum
<1> SUFFICES ASSUME SplitInv, typing \in DOMAIN parts PROVE TypingKeepsTheSum
  BY DEF TypingKeepsTheSum
<1> DEFINE i == typing
           r == Recipient(typing)
           f == AmountsOf(parts)
<1>1. DraftTyped /\ DiffersAt(i) /\ i \in DOMAIN parts
  BY DEF SplitInv
<1>2. r \in DOMAIN parts /\ r # i
  BY <1>1, RecipientIsOther
<1>3. /\ f \in Seq(Nat) /\ Len(f) = Len(parts) /\ DOMAIN f = DOMAIN parts
      /\ \A n \in DOMAIN parts : f[n] = parts[n].amount
  BY <1>1, AmountsTyped DEF DraftTyped
<1>4. /\ lastValid \in Seq(Nat) /\ Len(lastValid) = Len(f)
      /\ SumSeq(lastValid) = total /\ (\A n \in DOMAIN lastValid : lastValid[n] # 0)
      /\ \A n \in DOMAIN f \ {i, r} : f[n] = lastValid[n]
      /\ f[i] # 0 /\ lastValid[r] - (f[i] - lastValid[i]) >= Rouble
            => f[r] = lastValid[r] - (f[i] - lastValid[i])
  <2>1. f[i] = parts[i].amount /\ f[r] = parts[r].amount
    BY <1>1, <1>2, <1>3
  <2> HIDE DEF f
  <2> QED
    BY <1>1, <1>2, <1>3, <2>1 DEF DiffersAt, FullyAssigned
<1> HIDE DEF f, i, r
<1>5. /\ SumSeq(f) \in Nat
      /\ total = SumSeq(f) - f[i] - f[r] + lastValid[i] + lastValid[r]
  <2>1. /\ SumSeq(f) \in Nat
        /\ SumSeq(lastValid) = SumSeq(f) - f[i] - f[r] + lastValid[i] + lastValid[r]
    <3>1. f \in Seq(Nat) /\ lastValid \in Seq(Nat) /\ Len(f) = Len(lastValid)
          /\ i \in DOMAIN f /\ r \in DOMAIN f /\ i # r
      BY <1>1, <1>2, <1>3, <1>4
    <3>2. \A n \in DOMAIN f \ {i, r} : f[n] = lastValid[n]
      BY <1>4
    <3>3. SumSeq(f) \in Nat
      BY ONLY <3>1, <3>2, SumsDiffer
    <3>4. SumSeq(lastValid) = Exchanged(SumSeq(f), f, lastValid, i, r)
      BY ONLY <3>1, <3>2, SumsDiffer
    <3> QED
      BY <3>3, <3>4 DEF Exchanged
  <2> QED
    BY <1>4, <2>1
<1>6. DOMAIN f = 1 .. Len(f) /\ DOMAIN lastValid = DOMAIN f
      /\ \A n \in DOMAIN f : f[n] \in Nat /\ lastValid[n] \in Nat
  <2>1. f \in Seq(Nat) /\ lastValid \in Seq(Nat) /\ Len(lastValid) = Len(f)
    BY <1>3, <1>4
  <2>2. DOMAIN f = 1 .. Len(f) /\ DOMAIN lastValid = DOMAIN f
    BY <2>1
  <2>3. ASSUME NEW n \in DOMAIN f PROVE f[n] \in Nat /\ lastValid[n] \in Nat
    BY <2>1, <2>2
  <2> QED
    BY <2>2, <2>3
<1>7. ASSUME f[i] >= Rouble, total - (SumSeq(f) - f[i] - f[r]) - f[i] >= Rouble
      PROVE  FullyAssigned(f, total)
  <2>1. /\ Rouble \in Nat \ {0} /\ total \in Nat
        /\ i \in DOMAIN f /\ r \in DOMAIN f
        /\ lastValid[i] \in Nat /\ lastValid[r] \in Nat /\ f[r] \in Nat /\ f[i] \in Nat
    BY <1>1, <1>2, <1>3, <1>6, SplitEditorAssumption DEF DraftTyped
  <2>5. f[i] # 0
    BY <1>7, <2>1
  <2> DEFINE a == f[i]
             b == f[r]
             c == lastValid[i]
             d == lastValid[r]
             s == SumSeq(f)
  <2>6. /\ a \in Nat /\ b \in Nat /\ c \in Nat /\ d \in Nat /\ s \in Nat /\ total \in Nat
        /\ total = s - a - b + c + d /\ (d - (a - c) >= Rouble => b = d - (a - c))
        /\ total - (s - a - b) - a >= Rouble /\ Rouble \in Nat
    BY <1>4, <1>5, <1>7, <2>1, <2>5
  <2> HIDE DEF a, b, c, d, s
  <2>7. b = d - (a - c) /\ b >= Rouble /\ s = total
    BY <2>6
  <2>2. f[r] >= Rouble
    BY <2>7 DEF b
  <2>3. SumSeq(f) = total
    BY <2>7 DEF s
  <2>4. \A n \in DOMAIN f : f[n] # 0
    <3>1. ASSUME NEW n \in DOMAIN f, n # i, n # r PROVE f[n] # 0
      <4>1. n \in DOMAIN lastValid /\ f[n] = lastValid[n]
        BY <1>4, <1>6, <3>1
      <4> QED
        BY <1>4, <4>1
    <3>2. f[r] # 0
      BY <2>1, <2>2
    <3> QED
      BY <2>5, <3>1, <3>2
  <2> QED
    BY <2>3, <2>4 DEF FullyAssigned
<1> QED
  BY <1>1, <1>2, <1>3, <1>7 DEF TypingKeepsTheSum, i, r, f

-----------------------------------------------------------------------------
\* What the steps build

LEMMA TypedAmount ==
    ASSUME NEW x \in Int
    PROVE  AsTyped(x) \in Nat /\ (x >= Rouble => AsTyped(x) = x)
BY SplitEditorAssumption DEF AsTyped

LEMMA PartWith ==
    ASSUME NEW part \in Part, NEW x \in Nat
    PROVE  [part EXCEPT !.amount = x] \in Part /\ [part EXCEPT !.amount = x].amount = x
BY DEF Part

\* A sequence given part by part.
LEMMA DraftOf ==
    ASSUME NEW N \in Nat, NEW draft, draft = [n \in 1 .. N |-> draft[n]],
           \A n \in 1 .. N : draft[n] \in Part
    PROVE  draft \in Seq(Part) /\ Len(draft) = N
OBVIOUS

LEMMA WithAmountsTyped ==
    ASSUME NEW draft \in Seq(Part), NEW amounts, \A n \in DOMAIN amounts : amounts[n] \in Int
    PROVE  WithAmounts(draft, amounts) \in Seq(Part) /\ Len(WithAmounts(draft, amounts)) = Len(draft)
<1> DEFINE x(n) == IF n \in DOMAIN amounts THEN AsTyped(amounts[n]) ELSE 0
           d == [n \in DOMAIN draft |-> [draft[n] EXCEPT !.amount = x(n)]]
<1>1. \A n \in DOMAIN draft : x(n) \in Nat
  BY TypedAmount
<1>2. DOMAIN draft = 1 .. Len(draft) /\ Len(draft) \in Nat /\ \A n \in DOMAIN draft : draft[n] \in Part
  OBVIOUS
<1> HIDE DEF x
<1>3. \A n \in DOMAIN draft : [draft[n] EXCEPT !.amount = x(n)] \in Part
  BY <1>1, <1>2, PartWith
<1>4. d \in Seq(Part) /\ Len(d) = Len(draft)
  BY <1>2, <1>3
<1>5. WithAmounts(draft, amounts) = d
  BY DEF WithAmounts, x
<1> HIDE DEF d
<1> QED
  BY <1>4, <1>5

LEMMA EvenTyped ==
    ASSUME NEW sum \in Nat, NEW count \in Nat, count # 0
    PROVE  EvenAmounts(sum, count) \in Seq(Int) /\ Len(EvenAmounts(sum, count)) = count
<1>1. sum \div count \in Int
  OBVIOUS
<1> DEFINE b == sum \div count
<1> HIDE DEF b
<1>2. b * (count - 1) \in Int
  BY <1>1 DEF b
<1>3. \A n \in 1 .. count : (IF n = count THEN sum - b * (count - 1) ELSE b) \in Int
  BY <1>1, <1>2 DEF b
<1> DEFINE e == [n \in 1 .. count |-> IF n = count THEN sum - b * (count - 1) ELSE b]
<1>4. EvenAmounts(sum, count) = e
  BY DEF EvenAmounts, b
<1>5. e \in Seq(Int) /\ Len(e) = count
  BY <1>3
<1> QED
  BY <1>4, <1>5

LEMMA BarTyped == DraftTyped => BarAmounts \in Seq(Int)
<1> SUFFICES ASSUME DraftTyped PROVE BarAmounts \in Seq(Int)
  OBVIOUS
<1>1. lastValid # None => lastValid \in Seq(Int)
  <2>1. \A s \in Seq(Nat) : s \in Seq(Int)
    OBVIOUS
  <2> QED
    BY <2>1 DEF DraftTyped
<1>2. EvenAmounts(total, Len(parts)) \in Seq(Int)
  BY EvenTyped DEF DraftTyped
<1> QED
  BY <1>1, <1>2 DEF BarAmounts

LEMMA SumSeqTyped ==
    ASSUME NEW s, s \in Seq(Int)
    PROVE  SumSeq(s) \in Int
<1>1. DOMAIN s = 1 .. Len(s) /\ Len(s) \in Nat /\ \A n \in DOMAIN s : s[n] \in Int
  OBVIOUS
<1>2. IsFiniteSet(DOMAIN s)
  BY <1>1, FS_Interval
<1> QED
  BY <1>1, <1>2, SumType DEF SumSeq, SumFunction

LEMMA ExtremesTyped ==
    ASSUME NEW x \in Int, NEW y \in Int
    PROVE  Max({x, y}) \in Int /\ Min({x, y}) \in {x, y} /\ Min({x, y}) =< y
<1>1. \E z \in {x, y} : \A w \in {x, y} : z >= w
  BY x >= y \/ y >= x
<1>2. \E z \in {x, y} : \A w \in {x, y} : z =< w
  BY x =< y \/ y =< x
<1> QED
  BY <1>1, <1>2 DEF Max, Min

-----------------------------------------------------------------------------
\* A new draft keeps the invariant when it was not typed

LEMMA OtherDraft ==
    ASSUME SplitInv, NEW draft, NEW sum, draft \in Seq(Part), Len(draft) >= 2, sum \in Nat,
           Drafted(draft, sum, 0)
    PROVE  SplitInv'
<1>1. parts' = draft /\ total' = sum /\ typing' \in {0, -1}
      /\ lastValid' = IF FullyAssigned(AmountsOf(draft), sum) THEN AmountsOf(draft) ELSE lastValid
  BY DEF Drafted
<1>2. AmountsOf(draft) \in Seq(Nat)
  BY AmountsTyped
<1>3. DraftTyped'
  BY <1>1, <1>2 DEF SplitInv, DraftTyped
<1>4. Remembered'
  BY <1>1 DEF Remembered
<1>5. DOMAIN draft = 1 .. Len(draft) /\ typing' \notin DOMAIN draft
  BY <1>1
<1> QED
  BY <1>1, <1>3, <1>4, <1>5 DEF SplitInv

LEMMA InitHolds == SplitInit => SplitInv
<1> SUFFICES ASSUME SplitInit PROVE SplitInv
  OBVIOUS
<1> DEFINE d == WithAmounts(<<BlankPart, BlankPart>>, EvenAmounts(total, 2))
<1>1. total \in Nat
  BY SplitEditorAssumption DEF SplitInit
<1>2. <<BlankPart, BlankPart>> \in Seq(Part) /\ Len(<<BlankPart, BlankPart>>) = 2
  BY DEF BlankPart, Part
<1>3. \A n \in DOMAIN EvenAmounts(total, 2) : EvenAmounts(total, 2)[n] \in Int
  BY <1>1, EvenTyped
<1>4. d \in Seq(Part) /\ Len(d) = 2
  BY <1>2, <1>3, WithAmountsTyped
<1>8. parts = d
  BY DEF SplitInit
<1> HIDE DEF d
<1>5. parts \in Seq(Part) /\ Len(parts) = 2
  BY <1>4, <1>8
<1>9. lastValid = IF FullyAssigned(AmountsOf(parts), total) THEN AmountsOf(parts) ELSE None
  BY DEF SplitInit
<1>10. AmountsOf(parts) \in Seq(Nat) /\ parts \in Seq(Part) /\ Len(parts) >= 2
  BY <1>5, AmountsTyped
<1>6. DraftTyped /\ Remembered
  BY <1>1, <1>9, <1>10 DEF DraftTyped, Remembered
<1>7. typing \notin DOMAIN parts
  BY <1>4, <1>5 DEF SplitInit
<1> QED
  BY <1>6, <1>7 DEF SplitInv

\* A typed amount: the field and the part that takes the difference.
LEMMA Typing ==
    ASSUME SplitInv, NEW i \in DOMAIN parts, NEW amount \in Typed, ChangeAmount(i, amount)
    PROVE  SplitInv'
<1> DEFINE r == Recipient(i)
           rest == At(Basis, r) - (amount - At(Basis, i))
           d == [n \in DOMAIN parts |->
                    IF n = i THEN [parts[n] EXCEPT !.amount = amount]
                    ELSE IF n = r /\ amount # 0 /\ rest > 0
                    THEN [parts[n] EXCEPT !.amount = AsTyped(rest)] ELSE parts[n]]
           a == AmountsOf(d)
<1>1. Drafted(d, total, i)
  BY DEF ChangeAmount
<1>2. /\ DraftTyped /\ Remembered /\ r \in DOMAIN parts /\ r # i /\ amount \in Nat
      /\ DOMAIN parts = 1 .. Len(parts) /\ Len(parts) \in Nat /\ parts \in Seq(Part)
      /\ \A n \in DOMAIN parts : parts[n] \in Part
  BY RecipientIsOther, SplitEditorAssumption DEF SplitInv, DraftTyped
<1>3. \A n \in DOMAIN parts : At(Basis, n) \in Nat
  <2>1. Basis \in Seq(Nat)
    BY <1>2, AmountsTyped DEF Basis, DraftTyped
  <2> QED
    BY <2>1 DEF At
<1> HIDE DEF r
<1>4. rest \in Int
  <2>1. At(Basis, r) \in Nat /\ At(Basis, i) \in Nat
    BY <1>2, <1>3
  <2> QED
    BY <1>2, <2>1
<1>5. \A n \in DOMAIN parts : d[n] \in Part
  <2> HIDE DEF rest
  <2>1. AsTyped(rest) \in Nat
    BY <1>4, TypedAmount
  <2> QED
    BY <1>2, <2>1, PartWith
<1>6. d \in Seq(Part) /\ Len(d) = Len(parts)
  <2>1. DOMAIN d = 1 .. Len(parts) /\ d = [n \in 1 .. Len(parts) |-> d[n]]
    BY <1>2
  <2> HIDE DEF d
  <2> QED
    BY <1>2, <1>5, <2>1, DraftOf
<1>7. /\ d[i].amount = amount
      /\ \A n \in DOMAIN parts \ {i, r} : d[n] = parts[n]
      /\ amount # 0 /\ rest >= Rouble => d[r].amount = rest
  <2>1. d[i].amount = amount
    BY <1>2, PartWith
  <2>2. \A n \in DOMAIN parts \ {i, r} : d[n] = parts[n]
    OBVIOUS
  <2>3. ASSUME amount # 0, rest >= Rouble PROVE d[r].amount = rest
    <3> HIDE DEF rest
    <3>1. rest > 0 /\ AsTyped(rest) \in Nat /\ AsTyped(rest) = rest
      BY <1>4, <2>3, TypedAmount, SplitEditorAssumption
    <3>2. d[r] = [parts[r] EXCEPT !.amount = AsTyped(rest)]
      BY <1>2, <2>3, <3>1
    <3> QED
      BY <1>2, <3>1, <3>2, PartWith
  <2> QED
    BY <2>1, <2>2, <2>3
<1> HIDE DEF d
<1>8. /\ a \in Seq(Nat) /\ Len(a) = Len(parts) /\ DOMAIN a = DOMAIN parts
      /\ \A n \in DOMAIN parts : a[n] = d[n].amount
  BY <1>2, <1>6, AmountsTyped
<1> HIDE DEF a, rest
<1>9. /\ parts' = d /\ total' = total
      /\ lastValid' = IF FullyAssigned(a, total) THEN a ELSE lastValid
      /\ typing' = IF i # 0 /\ (typing = i \/ FullyAssigned(AmountsOf(parts), total)) THEN i
                   ELSE IF FullyAssigned(a, total) THEN 0 ELSE -1
  BY <1>1 DEF Drafted, a
<1>10. DraftTyped'
  BY <1>2, <1>6, <1>8, <1>9 DEF DraftTyped
<1>11. Remembered'
  BY <1>9 DEF Remembered, a
<1>12. ASSUME typing' \in DOMAIN parts' PROVE DiffersAt(typing)'
  <2>1. /\ typing' = i
        /\ typing = i \/ FullyAssigned(AmountsOf(parts), total)
    <3>1. typing' \in Nat /\ typing' # 0
      BY <1>6, <1>9, <1>12
    <3> QED
      BY <1>9, <3>1
  <2>2. DiffersAt(i)
    <3>1. CASE typing = i
      BY <3>1 DEF SplitInv
    <3>2. CASE FullyAssigned(AmountsOf(parts), total)
      <4>1. /\ lastValid = AmountsOf(parts) /\ AmountsOf(parts) \in Seq(Nat)
            /\ Len(AmountsOf(parts)) = Len(parts)
            /\ \A n \in DOMAIN parts : AmountsOf(parts)[n] = parts[n].amount
        BY <1>2, <3>2, AmountsTyped DEF Remembered
      <4>2. /\ lastValid[i] = parts[i].amount /\ lastValid[r] = parts[r].amount
            /\ lastValid[i] \in Nat /\ lastValid[r] \in Nat
        BY <1>2, <4>1
      <4>3. lastValid[r] - (parts[i].amount - lastValid[i]) = parts[r].amount
        BY <4>2
      <4> QED
        BY <3>2, <4>1, <4>3 DEF DiffersAt, r
    <3> QED
      BY <2>1, <3>1, <3>2
  <2>3. Recipient(i)' = r /\ DOMAIN parts' = DOMAIN parts /\ Len(parts') = Len(parts)
    BY <1>2, <1>6, <1>9 DEF Recipient, r
  <2>4. CASE FullyAssigned(a, total)
    <3>1. lastValid' = a /\ a[i] = d[i].amount /\ a[r] = d[r].amount /\ a[i] \in Nat /\ a[r] \in Nat
      BY <1>2, <1>8, <1>9, <2>4
    <3>2. a[r] - (d[i].amount - a[i]) = d[r].amount
      BY <3>1
    <3>3. \A n \in DOMAIN parts' \ {i, r} : parts'[n].amount = a[n]
      BY <1>8, <1>9, <2>3
    <3> QED
      BY <1>8, <1>9, <2>1, <2>3, <2>4, <3>1, <3>2, <3>3 DEF DiffersAt
  <2>5. CASE ~FullyAssigned(a, total)
    <3>1. lastValid' = lastValid
      BY <1>9, <2>5
    <3>2. lastValid # None /\ lastValid \in Seq(Nat) /\ Len(lastValid) = Len(parts)
          /\ FullyAssigned(lastValid, total)
          /\ \A n \in DOMAIN parts \ {i, r} : parts[n].amount = lastValid[n]
      BY <2>2, SplitEditorAssumption DEF DiffersAt, r
    <3>3. rest = lastValid[r] - (amount - lastValid[i])
      <4>1. i \in DOMAIN lastValid /\ r \in DOMAIN lastValid
        BY <1>2, <3>2
      <4> QED
        BY <3>2, <4>1 DEF rest, Basis, At
    <3>4. \A n \in DOMAIN parts' \ {i, r} : parts'[n].amount = lastValid[n]
      BY <1>7, <1>9, <2>3, <3>2
    <3>5. parts'[i].amount # 0 /\ lastValid[r] - (parts'[i].amount - lastValid[i]) >= Rouble
            => parts'[r].amount = lastValid[r] - (parts'[i].amount - lastValid[i])
      BY <1>7, <1>9, <3>3
    <3> QED
      BY <1>9, <2>1, <2>3, <3>1, <3>2, <3>4, <3>5 DEF DiffersAt
  <2> QED
    BY <2>4, <2>5
<1> QED
  BY <1>10, <1>11, <1>12 DEF SplitInv

LEMMA MovedBoundary ==
    ASSUME SplitInv, NEW i \in 1 .. Len(BarAmounts) - 1, NEW value \in 1 .. total - 1,
           MoveBoundary(i, value)
    PROVE  SplitInv'
<1> DEFINE upTo(n)  == IF n = 0 THEN 0 ELSE SumSeq(SubSeq(BarAmounts, 1, n))
           next     == IF i = Len(BarAmounts) - 1 THEN total ELSE upTo(i + 1)
           boundary == Max({upTo(i - 1) + 1, Min({next - 1, value})})
           bar      == [BarAmounts EXCEPT ![i] = boundary - upTo(i - 1), ![i + 1] = next - boundary]
<1>1. /\ DraftTyped /\ BarAmounts \in Seq(Int) /\ i \in Int /\ value \in Int /\ total \in Nat
      /\ parts \in Seq(Part) /\ Len(parts) >= 2
  BY BarTyped DEF SplitInv, DraftTyped
<1>2. ASSUME NEW n \in 0 .. Len(BarAmounts) PROVE upTo(n) \in Int
  <2>1. SubSeq(BarAmounts, 1, n) \in Seq(Int)
    <3>1. \A k \in 1 .. n : BarAmounts[k] \in Int
      BY <1>1
    <3> QED
      BY <3>1, SubSeqProperties
  <2>2. SumSeq(SubSeq(BarAmounts, 1, n)) \in Int
    BY <2>1, SumSeqTyped
  <2> QED
    BY <2>2
<1>3. Len(BarAmounts) \in Nat /\ i - 1 \in 0 .. Len(BarAmounts) /\ i + 1 \in 0 .. Len(BarAmounts)
  BY <1>1
<1>4. next \in Int /\ upTo(i - 1) \in Int
  BY <1>1, <1>2, <1>3
<1>5. boundary \in Int
  <2>1. next - 1 \in Int /\ upTo(i - 1) + 1 \in Int
    BY <1>4
  <2> HIDE DEF next, upTo
  <2>2. Min({next - 1, value}) \in Int
    BY <1>1, <2>1, ExtremesTyped
  <2> QED
    BY <2>1, <2>2, ExtremesTyped
<1>6. MoveBoundary(i, value) => Drafted(WithAmounts(parts, bar), total, 0)
  BY DEF MoveBoundary
<1> HIDE DEF next, boundary, upTo
<1>7. \A n \in DOMAIN bar : bar[n] \in Int
  BY <1>1, <1>4, <1>5
<1> HIDE DEF bar
<1> QED
  BY <1>1, <1>6, <1>7, WithAmountsTyped, OtherDraft

LEMMA Removed ==
    ASSUME SplitInv, NEW i \in DOMAIN parts, RemovePart(i)
    PROVE  SplitInv'
<1> DEFINE next == RemoveAt(parts, i)
           heir == Min({i, Len(next)})
           d    == [next EXCEPT ![heir].amount = AsTyped(@ + parts[i].amount)]
<1>1. /\ DraftTyped /\ parts \in Seq(Part) /\ Len(parts) > 2 /\ i \in 1 .. Len(parts)
      /\ Len(parts) \in Nat /\ total \in Nat /\ Drafted(d, total, 0)
  BY DEF SplitInv, DraftTyped, RemovePart
<1>2. next \in Seq(Part) /\ Len(next) = Len(parts) - 1
  <2>1. SubSeq(parts, 1, i - 1) \in Seq(Part) /\ Len(SubSeq(parts, 1, i - 1)) = i - 1
    <3>1. \A k \in 1 .. i - 1 : parts[k] \in Part
      BY <1>1
    <3> QED
      BY <1>1, <3>1, SubSeqProperties
  <2>2. /\ SubSeq(parts, i + 1, Len(parts)) \in Seq(Part)
        /\ Len(SubSeq(parts, i + 1, Len(parts))) = Len(parts) - i
    <3>1. \A k \in i + 1 .. Len(parts) : parts[k] \in Part
      BY <1>1
    <3> QED
      BY <1>1, <3>1, SubSeqProperties
  <2> DEFINE s == SubSeq(parts, 1, i - 1)
             u == SubSeq(parts, i + 1, Len(parts))
  <2>3. next = s \o u
    BY DEF RemoveAt
  <2>4. s \in Seq(Part) /\ u \in Seq(Part) /\ Len(s) = i - 1 /\ Len(u) = Len(parts) - i
    BY <2>1, <2>2
  <2> HIDE DEF s, u, next
  <2>5. s \o u \in Seq(Part) /\ Len(s \o u) = Len(s) + Len(u)
    BY <2>4
  <2> QED
    BY <1>1, <2>3, <2>4, <2>5
<1> HIDE DEF next
<1>3. heir \in 1 .. Len(next)
  <2>2. i \in Int /\ Len(next) \in Int /\ Len(next) > 1 /\ i >= 1
    BY <1>1, <1>2
  <2>1. Min({i, Len(next)}) \in {i, Len(next)}
    BY <2>2, ExtremesTyped
  <2>3. Min({i, Len(next)}) =< Len(next)
    BY <2>2, ExtremesTyped
  <2> QED
    BY <1>1, <1>2, <2>1, <2>2, <2>3
<1> HIDE DEF heir
<1>4. next[heir].amount + parts[i].amount \in Int
  <2>1. next[heir] \in Part /\ parts[i] \in Part
    BY <1>1, <1>2, <1>3
  <2> QED
    BY <2>1 DEF Part
<1>5. d \in Seq(Part) /\ Len(d) = Len(next)
  <2> DEFINE x == AsTyped(next[heir].amount + parts[i].amount)
             p == [next[heir] EXCEPT !.amount = x]
  <2>1. x \in Nat
    BY <1>4, TypedAmount
  <2>2. p \in Part
    <3>1. next[heir] \in Part
      BY <1>2, <1>3
    <3> HIDE DEF x
    <3> QED
      BY <2>1, <3>1, PartWith
  <2>3. d = [next EXCEPT ![heir] = p]
    BY <1>2, <1>3
  <2> HIDE DEF p, d
  <2> QED
    BY <1>2, <1>3, <2>2, <2>3
<1> HIDE DEF d
<1> QED
  BY <1>1, <1>2, <1>5, OtherDraft

LEMMA SplitStep == SplitInv /\ [SplitNext]_splitVars => SplitInv'
<1> SUFFICES ASSUME SplitInv, [SplitNext]_splitVars PROVE SplitInv'
  OBVIOUS
<1>1. /\ parts \in Seq(Part) /\ Len(parts) \in Nat /\ Len(parts) >= 2 /\ total \in Nat
      /\ DOMAIN parts = 1 .. Len(parts)
  BY DEF SplitInv, DraftTyped
<1>2. ASSUME NEW i \in DOMAIN parts, NEW amount \in Typed, ChangeAmount(i, amount) PROVE SplitInv'
  BY <1>2, Typing
<1>3. ASSUME NEW i \in DOMAIN parts, ChooseCategory(i) PROVE SplitInv'
  <2> DEFINE d == [parts EXCEPT ![i].filed = TRUE]
  <2>1. [parts[i] EXCEPT !.filed = TRUE] \in Part
    <3>1. parts[i] \in Part
      BY <1>1
    <3> QED
      BY <3>1 DEF Part
  <2>2. d \in Seq(Part) /\ Len(d) = Len(parts)
    BY <1>1, <2>1
  <2>3. Drafted(d, total, 0)
    BY <1>3 DEF ChooseCategory
  <2> HIDE DEF d
  <2> QED
    BY <1>1, <2>2, <2>3, OtherDraft
<1>4. ASSUME NEW i \in DOMAIN parts, RemovePart(i) PROVE SplitInv'
  BY <1>4, Removed
<1>5. ASSUME NEW i \in 1 .. Len(BarAmounts) - 1, NEW value \in 1 .. total - 1, MoveBoundary(i, value)
      PROVE  SplitInv'
  BY <1>5, MovedBoundary
<1>6. CASE SplitEvenly
  <2>1. \A n \in DOMAIN EvenAmounts(total, Len(parts)) : EvenAmounts(total, Len(parts))[n] \in Int
    BY <1>1, EvenTyped
  <2> QED
    BY <1>1, <1>6, <2>1, WithAmountsTyped, OtherDraft DEF SplitEvenly
<1>7. CASE AddPart
  <2> DEFINE more == Append(parts, BlankPart)
  <2>1. more \in Seq(Part) /\ Len(more) = Len(parts) + 1
    BY <1>1 DEF BlankPart, Part
  <2>2. Drafted(WithAmounts(more, EvenAmounts(total, Len(more))), total, 0)
    BY <1>7 DEF AddPart
  <2> HIDE DEF more
  <2>3. \A n \in DOMAIN EvenAmounts(total, Len(more)) : EvenAmounts(total, Len(more))[n] \in Int
    <3>1. Len(more) \in Nat /\ Len(more) # 0
      BY <1>1, <2>1
    <3> QED
      BY <1>1, <3>1, EvenTyped
  <2>4. /\ WithAmounts(more, EvenAmounts(total, Len(more))) \in Seq(Part)
        /\ Len(WithAmounts(more, EvenAmounts(total, Len(more)))) >= 2
    BY <1>1, <2>1, <2>3, WithAmountsTyped
  <2> QED
    BY <1>1, <2>2, <2>4, OtherDraft
<1>8. ASSUME NEW sum \in Totals, AmountChanges(sum) PROVE SplitInv'
  <2>1. sum \in Nat
    BY SplitEditorAssumption
  <2> QED
    BY <1>1, <1>8, <2>1, OtherDraft DEF AmountChanges
<1>9. CASE Save
  BY <1>9 DEF Save, SplitInv, DraftTyped, Remembered, DiffersAt, Recipient
<1>10. CASE UNCHANGED splitVars
  BY <1>10 DEF splitVars, SplitInv, DraftTyped, Remembered, DiffersAt, Recipient
<1> QED
  BY <1>2, <1>3, <1>4, <1>5, <1>6, <1>7, <1>8, <1>9, <1>10 DEF SplitNext

\* However the parts of a transaction are edited, and whatever becomes of its
\* amount meanwhile, typing into one field leaves the draft fully assigned as
\* soon as both amounts can be shown (SplitTransactionTab.tsx, changeAmount).
THEOREM TypingSums == SplitSpec => []TypingKeepsTheSum
<1>1. SplitSpec => []SplitInv
  BY InitHolds, SplitStep, PTL DEF SplitSpec
<1> QED
  BY <1>1, TypingFromInv, PTL

-----------------------------------------------------------------------------
(* The side tabs.  Who is signed in and what is stored can be out of step  *)
(* for as long as an answer is under way; what keeps the tabs apart is     *)
(* that nobody can sign in while there are any (EmptyAtLogin).             *)

SideTab == [id : Nat, key : Subjects \cup {"own"}, owner : People \cup {"demo", None}]

SideLooks == [collapsed : BOOLEAN, width : Widths \cup {0}]

SideTypes ==
    /\ tabs \in Seq(SideTab) /\ storedTabs = tabs /\ nextTabId \in Nat
    /\ token \in People \cup {None} /\ alive \subseteq People
    /\ existing \subseteq Subjects /\ (book # None => book.subjects \subseteq Subjects)
    /\ \A k \in DOMAIN tabLook : tabLook[k] \in SideLooks

OwnedTabs == token # None => \A i \in DOMAIN tabs : tabs[i].owner \in {token, "demo"}

TabsApart ==
    /\ \A i, j \in DOMAIN tabs : i # j => tabs[i].id # tabs[j].id /\ tabs[i].key # tabs[j].key
    /\ \A i \in DOMAIN tabs : tabs[i].id < nextTabId

EmptyAtLogin == ~demoPage /\ authChecked /\ user = None => tabs = <<>>

SideInv == SideTypes /\ OwnedTabs /\ TabsApart /\ EmptyAtLogin

LEMMA EachTab ==
    ASSUME NEW ts \in Seq(SideTab), NEW i \in DOMAIN ts
    PROVE  ts[i].id \in Nat /\ ts[i].key \in Subjects \cup {"own"} /\ ts[i].key # None
<1>1. ts[i] \in SideTab
  OBVIOUS
<1> QED
  BY <1>1, SideTabsAssumption DEF SideTab

\* What localStorage gives back is what was mirrored into it.
LEMMA AllLoaded == ASSUME SideTypes PROVE LoadTabs = tabs
<1> DEFINE K == {i \in DOMAIN storedTabs : storedTabs[i].key # None}
<1>1. K = DOMAIN tabs /\ storedTabs = tabs /\ tabs \in Seq(SideTab)
  BY EachTab DEF SideTypes
<1>2. LoadTabs = Picked(storedTabs, K)
  BY DEF LoadTabs, Filtered
<1> HIDE DEF K
<1>3. Picked(tabs, K) = tabs
  BY <1>1, PickedEach
<1> QED
  BY <1>1, <1>2, <1>3

\* The first id of a page is greater than those of its restored tabs.
LEMMA FirstIdNew ==
    ASSUME NEW ts \in Seq(SideTab)
    PROVE  FirstTabId(ts) \in Nat /\ \A i \in DOMAIN ts : ts[i].id < FirstTabId(ts)
<1> DEFINE K == {0} \cup {ts[i].id : i \in DOMAIN ts}
<1>1. K \subseteq Nat /\ 0 \in K /\ \A i \in DOMAIN ts : ts[i].id \in K
  BY EachTab
<1>2. IsFiniteSet(K)
  <2>1. DOMAIN ts = 1 .. Len(ts) /\ Len(ts) \in Nat
    OBVIOUS
  <2>2. IsFiniteSet(DOMAIN ts)
    BY <2>1, FS_Interval
  <2>3. IsFiniteSet({ts[i].id : i \in DOMAIN ts})
    <3> DEFINE f == [i \in DOMAIN ts |-> ts[i].id]
               T == {ts[i].id : i \in DOMAIN ts}
    <3>1. f \in Surjection(DOMAIN ts, T)
      BY DEF Surjection
    <3> QED
      BY <2>2, <3>1, FS_Surjection
  <2> QED
    BY <2>3, FS_Singleton, FS_Union
<1> HIDE DEF K
<1>3. PICK x \in K : \A y \in K : x >= y
  BY <1>1, <1>2, Greatest
<1>4. Max(K) \in K /\ \A y \in K : Max(K) >= y
  BY <1>3 DEF Max
<1>5. FirstTabId(ts) = 1 + Max(K)
  BY DEF FirstTabId, K
<1>6. \A i \in DOMAIN ts : ts[i].id <= Max(K) /\ ts[i].id \in Nat
  BY <1>1, <1>4
<1> QED
  <2>1. Max(K) \in Nat
    BY <1>1, <1>4
  <2> QED
    BY <1>5, <1>6, <2>1

\* The width of a tab is a number.
LEMMA WidthIsNumber ==
    ASSUME SideTypes, NEW t PROVE WidthOf(t) \in Nat
<1>1. LookOf(t).width \in Widths \cup {0}
  BY DEF SideTypes, LookOf, SideLooks
<1> DEFINE w == LookOf(t).width
           K == Widths \cup {w}
<1>2. \A x \in Widths : x \in Nat
  BY SideTabsAssumption
<1>3. w \in Nat
  <2>1. \A x \in Widths \cup {0} : x \in Nat
    BY SideTabsAssumption
  <2> QED
    BY <1>1, <2>1
<1> HIDE DEF w
<1>4. K \in SUBSET Int /\ K \subseteq Nat /\ K # {} /\ IsFiniteSet(K)
  <2>1. IsFiniteSet(K)
    BY SideTabsAssumption, FS_AddElement
  <2>2. \A x \in K : x \in Nat /\ x \in Int
    BY <1>2, <1>3
  <2> QED
    BY <2>1, <2>2
<1> HIDE DEF K
<1>5. PICK x \in K : \A y \in K : x >= y
  BY <1>4, Greatest
<1>6. Max(K) \in K
  BY <1>5 DEF Max
<1> QED
  BY <1>4, <1>6 DEF WidthOf, K, w

\* No tab lies over another.
LEMMA NoneOverlaps ==
    ASSUME SideTypes
    PROVE  \A i, j \in DOMAIN tabs : i < j => OffsetOf(i) + WidthOf(tabs[i]) <= OffsetOf(j)
<1> DEFINE w == [k \in DOMAIN tabs |-> WidthOf(tabs[k])]
<1>1. DOMAIN tabs = 1 .. Len(tabs) /\ Len(tabs) \in Nat
  BY DEF SideTypes
<1>2. \A k \in DOMAIN tabs : w[k] \in Nat /\ w[k] = WidthOf(tabs[k])
  BY WidthIsNumber
<1>3. \A n : OffsetOf(n) = SumFunctionOnSet(w, 1 .. n - 1)
  BY DEF OffsetOf
<1> HIDE DEF w
<1>4. \A n \in DOMAIN tabs : OffsetOf(n) \in Nat
  <2> SUFFICES ASSUME NEW n \in DOMAIN tabs PROVE OffsetOf(n) \in Nat
    OBVIOUS
  <2>1. n - 1 \in Int /\ \A k \in 1 .. n - 1 : k \in DOMAIN tabs
    BY <1>1
  <2>2. IsFiniteSet(1 .. n - 1)
    BY <2>1, FS_Interval
  <2> QED
    BY <1>2, <1>3, <2>1, <2>2, SumType
<1>5. \A n \in DOMAIN tabs : n + 1 \in DOMAIN tabs => OffsetOf(n + 1) = OffsetOf(n) + w[n]
  <2> SUFFICES ASSUME NEW n \in DOMAIN tabs, n + 1 \in DOMAIN tabs
               PROVE  OffsetOf(n + 1) = OffsetOf(n) + w[n]
    OBVIOUS
  <2> DEFINE S == 1 .. n
  <2>1. /\ n \in S /\ S \ {n} = 1 .. n - 1 /\ S = 1 .. (n + 1) - 1
        /\ S \subseteq DOMAIN tabs /\ n \in Int
    BY <1>1
  <2>0. IsFiniteSet(S)
    BY <2>1, FS_Interval
  <2>2. \A x \in S : w[x] \in Int
    BY <1>2, <2>1
  <2> HIDE DEF S
  <2>3. SumFunctionOnSet(w, S) = w[n] + SumFunctionOnSet(w, S \ {n})
    BY <2>0, <2>1, <2>2, SumApart
  <2>4. OffsetOf(n + 1) = w[n] + OffsetOf(n)
    BY <1>3, <2>1, <2>3
  <2> QED
    BY <1>2, <1>4, <2>4
<1>6. ASSUME NEW i \in DOMAIN tabs, NEW j \in DOMAIN tabs, i < j
      PROVE  OffsetOf(i) + w[i] <= OffsetOf(j)
  <2> DEFINE T == {k \in Nat : i + 1 + k \in DOMAIN tabs => OffsetOf(i) + w[i] <= OffsetOf(i + 1 + k)}
  <2>1. 0 \in T
    <3>1. i + 1 \in DOMAIN tabs => OffsetOf(i) + w[i] <= OffsetOf(i + 1)
      BY <1>2, <1>4, <1>5
    <3>2. i + 1 + 0 = i + 1
      BY <1>1
    <3> QED
      BY <3>1, <3>2
  <2>2. ASSUME NEW k \in Nat, k \in T PROVE k + 1 \in T
    <3> SUFFICES ASSUME i + 1 + (k + 1) \in DOMAIN tabs
                 PROVE  OffsetOf(i) + w[i] <= OffsetOf(i + 1 + (k + 1))
      OBVIOUS
    <3> DEFINE m == i + 1 + k
    <3>1. m \in DOMAIN tabs /\ i + 1 + (k + 1) = m + 1 /\ m + 1 \in DOMAIN tabs
      BY <1>1
    <3>2. OffsetOf(i) + w[i] <= OffsetOf(m)
      BY <2>2, <3>1
    <3> HIDE DEF m
    <3>3. OffsetOf(m + 1) = OffsetOf(m) + w[m]
      BY <1>5, <3>1
    <3>4. OffsetOf(i) \in Nat /\ w[i] \in Nat /\ OffsetOf(m) \in Nat /\ w[m] \in Nat
      BY <1>2, <1>4, <3>1
    <3>5. OffsetOf(i) + w[i] <= OffsetOf(m + 1)
      BY <3>2, <3>3, <3>4
    <3> QED
      BY <3>1, <3>5
  <2> HIDE DEF T
  <2>3. Nat \subseteq T
    BY <2>1, <2>2, Induct
  <2>4. j - (i + 1) \in T /\ i + 1 + (j - (i + 1)) = j
    BY <1>1, <1>6, <2>3
  <2> QED
    BY <2>4 DEF T
<1> QED
  BY <1>2, <1>6

-----------------------------------------------------------------------------
LEMMA InitSide == SideInit => SideInv
<1> SUFFICES ASSUME SideInit PROVE SideInv
  OBVIOUS
<1>1. SideTypes
  BY DEF SideInit, SideTypes
<1> QED
  BY <1>1 DEF SideInit, SideInv, OwnedTabs, TabsApart, EmptyAtLogin

\* Nothing is docked any more: whoever signs in finds nothing.
LEMMA NoTabs ==
    ASSUME SideInv, tabs' = <<>>, storedTabs' = <<>>, nextTabId' = nextTabId,
           token' \in People \cup {None}, alive' \subseteq People, existing' = existing,
           book' = book, tabLook' = tabLook
    PROVE  SideInv'
<1>1. SideTypes'
  BY DEF SideInv, SideTypes
<1> QED
  BY <1>1 DEF SideInv, OwnedTabs, TabsApart, EmptyAtLogin

\* The tabs stay, and the token stays or goes.
LEMMA SameTabs ==
    ASSUME SideInv, tabs' = tabs, storedTabs' = storedTabs, nextTabId' = nextTabId,
           token' \in {token, None}, alive' \subseteq People, existing' \subseteq Subjects,
           book' # None => book'.subjects \subseteq Subjects,
           \A k \in DOMAIN tabLook' : tabLook'[k] \in SideLooks, EmptyAtLogin'
    PROVE  SideInv'
<1>1. SideTypes'
  BY DEF SideInv, SideTypes
<1>2. OwnedTabs'
  BY DEF SideInv, OwnedTabs
<1>3. TabsApart'
  BY DEF SideInv, TabsApart
<1> QED
  BY <1>1, <1>2, <1>3 DEF SideInv

\* A page that starts anew.
LEMMA BootKeeps ==
    ASSUME SideInv, NEW toDemo, Boot(toDemo), storedTabs' = storedTabs, tabLook' = tabLook,
           token' \in {token, None}, alive' = alive, existing' = existing
    PROVE  SideInv'
<1>1. tabs' = tabs /\ nextTabId' = FirstTabId(tabs) /\ tabs \in Seq(SideTab)
  BY AllLoaded DEF SideInv, Boot, SideTypes
<1>2. nextTabId' \in Nat /\ \A i \in DOMAIN tabs : tabs[i].id < nextTabId'
  BY <1>1, FirstIdNew
<1>3. SideTypes'
  BY <1>1, <1>2 DEF SideInv, SideTypes, Boot
<1>4. OwnedTabs'
  BY <1>1 DEF SideInv, OwnedTabs
<1>5. TabsApart'
  BY <1>1, <1>2 DEF SideInv, TabsApart
<1> QED
  BY <1>3, <1>4, <1>5 DEF SideInv, EmptyAtLogin, Boot

LEMMA NextSide == SideInv /\ [SideNext]_sideVars => SideInv'
<1> SUFFICES ASSUME SideInv, [SideNext]_sideVars PROVE SideInv'
  OBVIOUS
<1> USE SideTabsAssumption
<1>0. /\ alive \subseteq People /\ existing \subseteq Subjects
      /\ token \in People \cup {None} /\ storedTabs = tabs
      /\ book # None => book.subjects \subseteq Subjects
      /\ \A k \in DOMAIN tabLook : tabLook[k] \in SideLooks
  BY DEF SideInv, SideTypes
<1>1. CASE \E toDemo \in BOOLEAN : Reload(toDemo)
  BY <1>1, BootKeeps DEF Reload, storage
<1>2. CASE CheckAuth
  <2>1. CASE tabs' = tabs /\ storedTabs' = storedTabs
    <3>1. EmptyAtLogin'
      BY <1>2, <2>1 DEF CheckAuth, SideInv, EmptyAtLogin, NoSession, SetTabs
    <3> QED
      BY <1>0, <1>2, <2>1, <3>1, SameTabs DEF CheckAuth
  <2>2. CASE tabs' = <<>> /\ storedTabs' = <<>>
    BY <1>0, <1>2, <2>2, NoTabs DEF CheckAuth
  <2> QED
    BY <1>2, <2>1, <2>2 DEF CheckAuth, NoSession, SetTabs
<1>3. CASE SignOut
  BY <1>0, <1>3, NoTabs DEF SignOut, SetTabs
<1>4. CASE Load
  <2>1. book' # None => book'.subjects \subseteq Subjects
    BY <1>0, <1>4 DEF Load
  <2>2. EmptyAtLogin'
    BY <1>4 DEF Load, SideInv, EmptyAtLogin, storage
  <2> QED
    BY <1>0, <1>4, <2>1, <2>2, SameTabs DEF Load, storage
<1>5. CASE \E p \in People : SignIn(p)
  <2>1. PICK p \in People : SignIn(p)
    BY <1>5
  <2>2. tabs = <<>>
    BY <2>1 DEF SignIn, SideInv, EmptyAtLogin
  <2> QED
    BY <1>0, <2>1, <2>2, NoTabs DEF SignIn
<1>6. CASE \E p \in People : Expire(p)
  <2>1. EmptyAtLogin'
    BY <1>6 DEF Expire, SideInv, EmptyAtLogin
  <2> QED
    BY <1>0, <1>6, <2>1, SameTabs DEF Expire, storage
<1>7. CASE \E c \in meCalls : MeAnswers(c)
  <2>1. PICK c \in meCalls : MeAnswers(c)
    BY <1>7
  <2>2. CASE tabs' = tabs /\ storedTabs' = storedTabs /\ token' = token
    <3>1. EmptyAtLogin'
      BY <1>0, <2>1, <2>2 DEF MeAnswers, SideInv, EmptyAtLogin, SetTabs
    <3> QED
      BY <1>0, <2>1, <2>2, <3>1, SameTabs DEF MeAnswers
  <2>3. CASE tabs' = <<>> /\ storedTabs' = <<>> /\ token' = None
    BY <1>0, <2>1, <2>3, NoTabs DEF MeAnswers
  <2> QED
    BY <2>1, <2>2, <2>3 DEF MeAnswers, SetTabs
<1>8. CASE \E c \in bookCalls : LoadAnswers(c)
  <2>1. PICK c \in bookCalls : LoadAnswers(c)
    BY <1>8
  <2>2. CASE token' = None /\ Boot(FALSE)
    BY <2>1, <2>2, BootKeeps DEF LoadAnswers, storage, Boot
  <2>3. CASE UNCHANGED <<storage, user, authChecked, tabs, nextTabId, demoPage, alive, existing>>
    <3>1. book' # None => book'.subjects \subseteq Subjects
      BY <1>0, <2>1 DEF LoadAnswers, Boot
    <3>2. EmptyAtLogin'
      BY <2>3 DEF SideInv, EmptyAtLogin, storage
    <3> QED
      BY <1>0, <2>3, <3>1, <3>2, SameTabs DEF storage
  <2> QED
    BY <2>1, <2>2, <2>3 DEF LoadAnswers
<1>9. CASE \E s \in Subjects \cup {"own"} : OpenTab(s)
  <2>1. PICK s \in Subjects \cup {"own"} : OpenTab(s)
    BY <1>9
  <2> DEFINE t == [id |-> nextTabId, key |-> s, owner |-> Who]
  <2>2. /\ tabs \in Seq(SideTab) /\ nextTabId \in Nat
        /\ t \in SideTab /\ t.id = nextTabId /\ t.key = s /\ t.owner = Who
    BY <1>0 DEF SideInv, SideTypes, SideTab, Who
  <2>3. tabs' = Append(tabs, t) /\ storedTabs' = Append(tabs, t) /\ nextTabId' = nextTabId + 1
    BY <2>1 DEF OpenTab, SetTabs
  <2> HIDE DEF t
  <2>4. /\ Len(tabs) \in Nat /\ DOMAIN tabs = 1 .. Len(tabs)
        /\ tabs' \in Seq(SideTab) /\ DOMAIN tabs' = 1 .. Len(tabs) + 1
        /\ tabs'[Len(tabs) + 1] = t /\ \A i \in DOMAIN tabs : tabs'[i] = tabs[i]
        /\ \A i \in DOMAIN tabs' : i \in DOMAIN tabs \/ i = Len(tabs) + 1
    BY <2>2, <2>3
  <2>5. SideTypes'
    BY <1>0, <2>1, <2>2, <2>3, <2>4 DEF SideTypes, OpenTab
  <2>6. OwnedTabs'
    BY <2>1, <2>2, <2>4 DEF SideInv, OwnedTabs, OpenTab, Who
  <2>7. \A i \in DOMAIN tabs : tabs[i].key # s /\ tabs[i].id < nextTabId /\ tabs[i].id \in Nat
    <3>1. s # None /\ NotYetOpen(s)
      BY <2>1 DEF OpenTab
    <3> QED
      BY <2>2, <3>1, EachTab DEF NotYetOpen, SideInv, TabsApart
  <2>8. \A i \in DOMAIN tabs' : tabs'[i].id < nextTabId'
    BY <2>2, <2>3, <2>4, <2>7
  <2>9. \A i, j \in DOMAIN tabs' : i # j => tabs'[i].id # tabs'[j].id /\ tabs'[i].key # tabs'[j].key
    <3>1. \A i \in DOMAIN tabs : tabs[i].id # t.id /\ tabs[i].key # t.key
      BY <2>2, <2>7
    <3> QED
      BY <2>4, <3>1 DEF SideInv, TabsApart
  <2>10. EmptyAtLogin'
    BY <2>1 DEF OpenTab, Shown, EmptyAtLogin
  <2> QED
    BY <2>5, <2>6, <2>8, <2>9, <2>10 DEF SideInv, TabsApart
<1>10. CASE \E s \in Subjects : DeleteSubject(s)
  <2>1. EmptyAtLogin'
    BY <1>10 DEF DeleteSubject, SideInv, EmptyAtLogin
  <2> QED
    BY <1>0, <1>10, <2>1, SameTabs DEF DeleteSubject, storage
<1>11. CASE \E t \in Tabs : CloseTab(t)
  <2>1. PICK t \in Tabs : CloseTab(t)
    BY <1>11
  <2> DEFINE K == {i \in DOMAIN tabs : tabs[i].id # t.id}
  <2>2. tabs' = Picked(tabs, K) /\ storedTabs' = Picked(tabs, K) /\ tabs \in Seq(SideTab) /\ K \subseteq DOMAIN tabs
    BY <2>1 DEF CloseTab, SetTabs, Filtered, SideInv, SideTypes
  <2> HIDE DEF K
  <2> DEFINE a == Ascending(K)
  <2>3. /\ tabs' \in Seq(SideTab) /\ K \in SUBSET Int /\ IsFiniteSet(K)
        /\ DOMAIN tabs' = 1 .. Cardinality(K)
        /\ \A n \in DOMAIN tabs' : a[n] \in K /\ tabs'[n] = tabs[a[n]]
    BY <2>2, PickedEach
  <2>4. /\ Cardinality(K) \in Nat
        /\ \A i, j \in 1 .. Cardinality(K) : i < j => a[i] < a[j]
    BY <2>3, AscendingEach
  <2> HIDE DEF a
  <2>5. \A i, j \in DOMAIN tabs' : i # j => a[i] # a[j]
    <3> SUFFICES ASSUME NEW i \in DOMAIN tabs', NEW j \in DOMAIN tabs', i # j PROVE a[i] # a[j]
      OBVIOUS
    <3>1. (i < j \/ j < i) /\ a[i] \in Int /\ a[j] \in Int
      BY <2>3, <2>4
    <3>2. a[i] < a[j] \/ a[j] < a[i]
      BY <2>3, <2>4, <3>1
    <3> QED
      BY <3>1, <3>2
  <2>6. \A n \in DOMAIN tabs' : a[n] \in DOMAIN tabs
    BY <2>2, <2>3
  <2>7. SideTypes'
    BY <1>0, <2>1, <2>2, <2>3 DEF SideInv, SideTypes, CloseTab
  <2>8. OwnedTabs'
    BY <2>1, <2>3, <2>6 DEF SideInv, OwnedTabs, CloseTab
  <2>9. TabsApart'
    BY <2>1, <2>3, <2>5, <2>6 DEF SideInv, TabsApart, CloseTab
  <2>10. EmptyAtLogin'
    BY <2>1 DEF CloseTab, Shown, EmptyAtLogin
  <2> QED
    BY <2>7, <2>8, <2>9, <2>10 DEF SideInv
<1>12. CASE \E t \in Tabs : Toggle(t) \/ \E w \in Widths \cup {0} : Resize(t, w)
  <2>1. PICK t \in Tabs, look \in SideLooks : Look(t, look)
    <3>1. \A t : LookOf(t) \in SideLooks
      BY <1>0 DEF LookOf, SideLooks
    <3>2. \A l \in SideLooks : [l EXCEPT !.collapsed = ~@] \in SideLooks
      BY DEF SideLooks
    <3>3. \A l \in SideLooks, w \in Widths \cup {0} : [l EXCEPT !.width = w] \in SideLooks
      BY DEF SideLooks
    <3> QED
      BY <1>12, <3>1, <3>2, <3>3 DEF Toggle, Resize
  <2>2. \A k \in DOMAIN tabLook' : tabLook'[k] \in SideLooks
    BY <1>0, <2>1 DEF Look
  <2>3. EmptyAtLogin'
    BY <2>1 DEF Look, SideInv, EmptyAtLogin
  <2> QED
    BY <1>0, <2>1, <2>2, <2>3, SameTabs DEF Look
<1>13. CASE UNCHANGED sideVars
  <2>1. EmptyAtLogin'
    BY <1>13 DEF sideVars, SideInv, EmptyAtLogin
  <2> QED
    BY <1>0, <1>13, <2>1, SameTabs DEF sideVars, storage
<1> QED
  BY <1>1, <1>2, <1>3, <1>4, <1>5, <1>6, <1>7, <1>8, <1>9, <1>10, <1>11, <1>12, <1>13 DEF SideNext

\* Tabs never resurface for whoever signs in next, and no two are one or lie one
\* over the other, for any people, subjects and widths and however long the page
\* is used (store.ts checkAuth, login, logout, openTab; tabPersist.ts loadTabs).
THEOREM TabsStayApart == SideSpec => []TabsStayWithSession
<1>1. SideInv => TabsStayWithSession
  <2> SUFFICES ASSUME SideInv PROVE TabsStayWithSession
    OBVIOUS
  <2>1. storedTabs = tabs /\ LoadTabs = tabs
    BY AllLoaded DEF SideInv, SideTypes
  <2>2. \A i, j \in DOMAIN tabs : i < j => OffsetOf(i) + WidthOf(tabs[i]) <= OffsetOf(j)
    BY NoneOverlaps DEF SideInv
  <2> QED
    BY <2>1, <2>2 DEF SideInv, OwnedTabs, TabsApart, TabsStayWithSession
<1> QED
  BY InitSide, NextSide, <1>1, PTL DEF SideSpec

-----------------------------------------------------------------------------
(* The list of accounts.  As long as only independent calls overlap, the   *)
(* page is behind the server by what was accepted and not yet answered:    *)
(* one deletion at most, and what was archived.                            *)

AccountCalls ==
    [op : {"create", "archive", "delete", "reorder"}, account : Nat \cup {None},
     archived : BOOLEAN \cup {None}, target : Nat \cup {None}, ids : Seq(Nat) \cup {None},
     at : Nat, before : Listings, answer : {"none", "ok", "failed"}, made : Nat \cup {None}]

AccountTypes ==
    /\ accountsSaved \in Listings /\ listed \in Listings
    /\ rowDrag # None => rowDrag \in [from : Nat \ {0}, target : Nat \ {0}]
    /\ deleting # None => deleting \in [account : Nat, target : Nat \cup {None}, busy : BOOLEAN]
    /\ accountCalls \subseteq AccountCalls /\ accountsAsked \in Nat
    /\ \A c \in accountCalls :
          /\ c.op = "archive" => c.archived \in BOOLEAN
          /\ c.op = "reorder" => c.ids \in Seq(Nat)
          /\ c.op = "create" /\ c.answer = "ok" => c.made \in Nat

\* Accepted and not answered.
Due(c, op) == c.op = op /\ c.answer = "ok"

\* Asked for, and neither accepted nor given up.
Unsettled(c) == c.op = "reorder" /\ c.answer # "ok"

NoneDue(op) == \A c \in accountCalls : ~Due(c, op)
AllSettled == \A c \in accountCalls : ~Unsettled(c)

\* A sequence without an account.
Rest(s, a) == Picked(s, {i \in DOMAIN s : s[i] # a})

Pairwise == \A c, d \in accountCalls : c # d => Independent(c, d)

CreatesAlone ==
    \A c \in accountCalls : c.op = "create" =>
        /\ c.before = listed
        /\ accountsSaved = IF c.answer = "ok" THEN [listed EXCEPT !.order = Append(@, c.made)]
                                              ELSE listed

DeletesAhead ==
    \A c \in accountCalls : Due(c, "delete") =>
        /\ c.account \in ToSet(listed.order) /\ c.account \notin accountsSaved.archived
        /\ ToSet(accountsSaved.order) = ToSet(listed.order) \ {c.account}
        /\ accountsSaved.home = WithoutAccount(listed, c.account, c.target).home
        /\ AllSettled => accountsSaved.order = Rest(listed.order, c.account)

NothingAhead ==
    NoneDue("delete") /\ NoneDue("create") =>
        /\ ToSet(accountsSaved.order) = ToSet(listed.order)
        /\ accountsSaved.home = listed.home
        /\ AllSettled => accountsSaved.order = listed.order

OrderAsked ==
    \A c \in accountCalls : c.op = "reorder" /\ c.answer = "none" =>
        /\ ToSet(accountsSaved.order) \subseteq ToSet(c.ids)
        /\ ToSet(c.ids) = ToSet(accountsSaved.order) => c.ids = listed.order

ArchivedAhead ==
    \A x :
        \/ \E c \in accountCalls : Due(c, "delete") /\ c.account = x
        \/ \E c \in accountCalls :
              /\ Due(c, "archive") /\ c.account = x
              /\ x \in accountsSaved.archived <=> c.archived /\ x \in ToSet(accountsSaved.order)
        \/ /\ \A c \in accountCalls : Due(c, "archive") => c.account # x
           /\ x \in accountsSaved.archived <=> x \in listed.archived

Ahead == Pairwise /\ CreatesAlone /\ DeletesAhead /\ NothingAhead /\ OrderAsked /\ ArchivedAhead

AccountInv == AccountTypes /\ (~adrift => Ahead)

-----------------------------------------------------------------------------
LEMMA RestOf ==
    ASSUME NEW s \in Seq(Nat), NEW a
    PROVE  Rest(s, a) \in Seq(Nat) /\ ToSet(Rest(s, a)) = ToSet(s) \ {a}
<1> DEFINE K == {i \in DOMAIN s : s[i] # a}
           r == Rest(s, a)
           k == Ascending(K)
<1>1. K \in SUBSET DOMAIN s /\ \A i \in DOMAIN s : i \in K <=> s[i] # a
  OBVIOUS
<1>2. r = Picked(s, K)
  BY DEF Rest
<1> HIDE DEF K, r
<1>3. /\ IsFiniteSet(K) /\ K \in SUBSET Int /\ r \in Seq(Nat)
      /\ DOMAIN r = 1 .. Cardinality(K)
      /\ \A n \in 1 .. Cardinality(K) : k[n] \in K /\ r[n] = s[k[n]]
  BY <1>1, <1>2, PickedEach
<1>4. \A i \in K : \E n \in 1 .. Cardinality(K) : k[n] = i
  BY <1>3, AscendingEach
<1> HIDE DEF k
<1>5. \A n \in DOMAIN r : r[n] \in ToSet(s) /\ r[n] # a
  BY <1>1, <1>3 DEF ToSet
<1>6. \A i \in DOMAIN s : s[i] # a => s[i] \in ToSet(r)
  <2> SUFFICES ASSUME NEW i \in DOMAIN s, s[i] # a PROVE s[i] \in ToSet(r)
    OBVIOUS
  <2>1. PICK n \in DOMAIN r : k[n] = i
    BY <1>1, <1>3, <1>4
  <2>2. r[n] = s[i]
    BY <1>3, <2>1
  <2> QED
    BY <2>1, <2>2 DEF ToSet
<1>7. ToSet(r) = ToSet(s) \ {a}
  BY <1>5, <1>6 DEF ToSet
<1> QED
  BY <1>3, <1>7 DEF r

\* A row that is spliced in elsewhere is still in the list, and so are the others.
LEMMA SplicedKeeps ==
    ASSUME NEW s \in Seq(Nat), NEW i \in Nat \ {0}, NEW j \in Nat \ {0}
    PROVE  Spliced(s, i, j) \in Seq(Nat) /\ ToSet(Spliced(s, i, j)) = ToSet(s)
<1> DEFINE r == RemoveAt(s, i)
           k == IF j > Len(s) THEN Len(s) ELSE j
           t == InsertAt(r, k, s[i])
<1>1. CASE i > Len(s)
  BY <1>1 DEF Spliced
<1>2. CASE ~(i > Len(s))
  <2>1. i \in 1 .. Len(s) /\ Len(s) \in Nat /\ k \in 1 .. Len(s) /\ s[i] \in Nat
    BY <1>2
  <2>2. Spliced(s, i, j) = t
    BY <1>2 DEF Spliced
  <2> HIDE DEF k
  <2> DEFINE a == SubSeq(s, 1, i - 1)
             b == SubSeq(s, i + 1, Len(s))
  <2>8. /\ a \in Seq(Nat) /\ Len(a) = i - 1 /\ \A n \in 1 .. i - 1 : a[n] = s[n]
    <3>1. 1 \in Int /\ i - 1 \in Int /\ 1 <= i - 1 + 1 /\ i - 1 <= Len(s) /\ i - 1 + 1 - 1 = i - 1
      BY <2>1
    <3>2. /\ a \in Seq(Nat) /\ Len(a) = i - 1 /\ \A n \in 1 .. i - 1 : a[n] = s[1 + n - 1]
      BY <3>1, Stretch
    <3> HIDE DEF a
    <3> QED
      BY <2>1, <3>2
  <2>9. /\ b \in Seq(Nat) /\ Len(b) = Len(s) - i /\ \A n \in 1 .. Len(s) - i : b[n] = s[i + n]
    <3>1. /\ i + 1 \in Int /\ 1 <= i + 1 /\ Len(s) \in Int /\ i + 1 <= Len(s) + 1 /\ Len(s) <= Len(s)
          /\ Len(s) + 1 - (i + 1) = Len(s) - i
      BY <2>1
    <3>2. /\ b \in Seq(Nat) /\ Len(b) = Len(s) - i
          /\ \A n \in 1 .. Len(s) - i : b[n] = s[i + 1 + n - 1]
      BY <3>1, Stretch
    <3>3. \A n \in 1 .. Len(s) - i : i + 1 + n - 1 = i + n
      BY <2>1
    <3> HIDE DEF b
    <3> QED
      BY <3>2, <3>3
  <2>10. r = a \o b
    BY DEF RemoveAt
  <2> HIDE DEF a, b
  <2>3. /\ r \in Seq(Nat) /\ Len(r) = Len(s) - 1
        /\ \A n \in 1 .. Len(s) - 1 : r[n] = IF n < i THEN s[n] ELSE s[n + 1]
    <3> HIDE DEF r
    <3>1. /\ r \in Seq(Nat) /\ Len(r) = Len(a) + Len(b)
          /\ \A n \in 1 .. Len(a) + Len(b) : r[n] = IF n <= Len(a) THEN a[n] ELSE b[n - Len(a)]
      BY <2>8, <2>9, <2>10, ConcatProperties
    <3>2. Len(a) + Len(b) = Len(s) - 1
      BY <2>1, <2>8, <2>9
    <3>3. ASSUME NEW n \in 1 .. Len(s) - 1 PROVE r[n] = IF n < i THEN s[n] ELSE s[n + 1]
      <4>1. CASE n < i
        <5>1. n \in 1 .. i - 1 /\ n <= Len(a)
          BY <2>1, <2>8, <4>1
        <5> QED
          BY <2>8, <3>1, <3>2, <4>1, <5>1
      <4>2. CASE ~(n < i)
        <5>1. n - (i - 1) \in 1 .. Len(s) - i /\ ~(n <= Len(a)) /\ i + (n - (i - 1)) = n + 1
          BY <2>1, <2>8, <4>2
        <5>2. r[n] = b[n - (i - 1)]
          BY <2>8, <3>1, <3>2, <5>1
        <5>3. b[n - (i - 1)] = s[n + 1]
          BY <2>9, <5>1
        <5> QED
          BY <4>2, <5>2, <5>3
      <4> QED
        BY <4>1, <4>2
    <3> QED
      BY <3>1, <3>2, <3>3
  <2> DEFINE e == s[i]
             c == SubSeq(r, 1, k - 1)
             d == SubSeq(r, k, Len(r))
  <2>11. t = c \o <<e>> \o d
    BY DEF InsertAt
  <2>14. e \in Nat
    BY <2>1
  <2> HIDE DEF r, e
  <2>15. r \in Seq(Nat) /\ Len(r) = Len(s) - 1
    BY <2>3
  <2>12. c \in Seq(Nat) /\ Len(c) = k - 1 /\ \A n \in 1 .. k - 1 : c[n] = r[n]
    <3>1. /\ k \in Int /\ 1 \in Int /\ k - 1 \in Int /\ 1 <= k - 1 + 1 /\ k - 1 <= Len(r)
          /\ k - 1 + 1 - 1 = k - 1
      BY <2>1, <2>15
    <3>2. /\ c \in Seq(Nat) /\ Len(c) = k - 1 /\ \A n \in 1 .. k - 1 : c[n] = r[1 + n - 1]
      BY <2>15, <3>1, Stretch
    <3> HIDE DEF c
    <3> QED
      BY <3>1, <3>2
  <2>13. d \in Seq(Nat) /\ Len(d) = Len(s) - k /\ \A n \in 1 .. Len(s) - k : d[n] = r[k + n - 1]
    <3>1. /\ k \in Int /\ Len(r) \in Int /\ 1 <= k /\ k <= Len(r) + 1 /\ Len(r) <= Len(r)
          /\ Len(r) + 1 - k = Len(s) - k
      BY <2>1, <2>15
    <3> QED
      BY <2>15, <3>1, Stretch
  <2>4. /\ t \in Seq(Nat) /\ Len(t) = Len(s)
        /\ \A n \in 1 .. Len(s) : t[n] = IF n < k THEN r[n] ELSE IF n = k THEN s[i] ELSE r[n - 1]
    <3> HIDE DEF c, d, t
    <3>0. Len(c) + 1 + Len(d) = Len(s)
      BY <2>1, <2>12, <2>13
    <3>4. c \in Seq(Nat) /\ d \in Seq(Nat)
      BY <2>12, <2>13
    <3>1. t \in Seq(Nat) /\ Len(t) = Len(c) + 1 + Len(d)
      BY <2>11, <2>14, <3>4, OneBetween
    <3>2. \A n \in 1 .. Len(c) + 1 + Len(d) :
             t[n] = IF n <= Len(c) THEN c[n] ELSE IF n = Len(c) + 1 THEN e ELSE d[n - (Len(c) + 1)]
      BY <2>11, <2>14, <3>4, OneBetween
    <3>3. ASSUME NEW n \in 1 .. Len(s)
          PROVE  t[n] = IF n < k THEN r[n] ELSE IF n = k THEN e ELSE r[n - 1]
      <4>1. CASE n < k
        <5>1. n \in 1 .. k - 1 /\ n <= Len(c)
          BY <2>1, <2>12, <4>1
        <5> QED
          BY <2>12, <3>0, <3>2, <4>1, <5>1
      <4>2. CASE n = k
        BY <2>1, <2>12, <3>0, <3>2, <4>2
      <4>3. CASE n > k
        <5>0. k \in Nat /\ n \in Nat /\ n <= Len(s) /\ Len(s) \in Nat /\ Len(c) = k - 1
          BY <2>1, <2>12
        <5>1. n - k \in 1 .. Len(s) - k /\ ~(n <= Len(c)) /\ n # Len(c) + 1 /\ ~(n < k) /\ n # k
              /\ k + (n - k) - 1 = n - 1 /\ n - (Len(c) + 1) = n - k
          BY <4>3, <5>0
        <5>2. n \in 1 .. Len(c) + 1 + Len(d)
          BY <3>0
        <5>3. t[n] = d[n - k]
          BY <3>2, <5>1, <5>2
        <5>4. d[n - k] = r[n - 1]
          BY <2>13, <5>1
        <5> QED
          BY <5>1, <5>3, <5>4
      <4> QED
        BY <2>1, <4>1, <4>2, <4>3
    <3> QED
      BY <3>0, <3>1, <3>3 DEF e
  <2> HIDE DEF t
  <2>5. \A n \in DOMAIN t : \E m \in DOMAIN s : t[n] = s[m]
    <3> SUFFICES ASSUME NEW n \in 1 .. Len(s) PROVE \E m \in 1 .. Len(s) : t[n] = s[m]
      <4>1. DOMAIN t = 1 .. Len(s) /\ DOMAIN s = 1 .. Len(s)
        BY <2>1, <2>4
      <4> QED
        BY <4>1
    <3>1. CASE n < k
      <4>1. n \in 1 .. Len(s) - 1 /\ n + 1 \in 1 .. Len(s) /\ t[n] = r[n]
        BY <2>1, <2>4, <3>1
      <4>2. r[n] = s[n] \/ r[n] = s[n + 1]
        BY <2>3, <4>1
      <4> QED
        BY <4>1, <4>2
    <3>2. CASE n = k
      BY <2>1, <2>4, <3>2
    <3>3. CASE n > k
      <4>1. n - 1 \in 1 .. Len(s) - 1 /\ n - 1 \in 1 .. Len(s) /\ n - 1 + 1 = n /\ t[n] = r[n - 1]
        BY <2>1, <2>4, <3>3
      <4>2. r[n - 1] = s[n - 1] \/ r[n - 1] = s[n - 1 + 1]
        BY <2>3, <4>1
      <4> QED
        BY <4>1, <4>2
    <3> QED
      BY <2>1, <3>1, <3>2, <3>3
  <2>6. \A m \in DOMAIN s : \E n \in DOMAIN t : t[n] = s[m]
    <3> SUFFICES ASSUME NEW m \in 1 .. Len(s) PROVE \E n \in 1 .. Len(s) : t[n] = s[m]
      <4>1. DOMAIN t = 1 .. Len(s) /\ DOMAIN s = 1 .. Len(s)
        BY <2>1, <2>4
      <4> QED
        BY <4>1
    <3>1. \A p \in 1 .. Len(s) - 1 : \E n \in 1 .. Len(s) : t[n] = r[p]
      <4> SUFFICES ASSUME NEW p \in 1 .. Len(s) - 1 PROVE \E n \in 1 .. Len(s) : t[n] = r[p]
        OBVIOUS
      <4>1. CASE p < k
        <5>1. p \in 1 .. Len(s)
          BY <2>1
        <5>2. t[p] = r[p]
          BY <2>4, <4>1, <5>1
        <5> QED
          BY <5>1, <5>2
      <4>2. CASE ~(p < k)
        <5>1. p + 1 \in 1 .. Len(s) /\ ~(p + 1 < k) /\ p + 1 # k /\ p + 1 - 1 = p
          BY <2>1, <4>2
        <5>2. t[p + 1] = IF p + 1 < k THEN r[p + 1] ELSE IF p + 1 = k THEN s[i] ELSE r[p + 1 - 1]
          BY <2>4, <5>1
        <5>3. t[p + 1] = r[p]
          BY <5>1, <5>2
        <5> QED
          BY <5>1, <5>3
      <4> QED
        BY <4>1, <4>2
    <3>2. CASE m = i
      <4>1. k \in 1 .. Len(s)
        BY <2>1
      <4>2. t[k] = s[i]
        BY <2>4, <4>1
      <4> QED
        BY <3>2, <4>1, <4>2
    <3>3. CASE m < i
      <4>1. m \in 1 .. Len(s) - 1 /\ r[m] = s[m]
        BY <2>1, <2>3, <3>3
      <4> QED
        BY <3>1, <4>1
    <3>4. CASE m > i
      <4>1. m - 1 \in 1 .. Len(s) - 1 /\ ~(m - 1 < i) /\ m - 1 + 1 = m
        BY <2>1, <3>4
      <4>2. r[m - 1] = s[m]
        BY <2>3, <4>1
      <4> QED
        BY <3>1, <4>1, <4>2
    <3> QED
      BY <2>1, <3>2, <3>3, <3>4
  <2>7. ToSet(t) = ToSet(s)
    BY <2>5, <2>6 DEF ToSet
  <2> QED
    BY <2>2, <2>4, <2>7
<1> QED
  BY <1>1, <1>2

-----------------------------------------------------------------------------
\* What the operations make of a listing.
LEMMA ArchivingOf ==
    ASSUME NEW b \in Listings, NEW c
    PROVE  /\ Archiving(b, c.account, c.archived) \in Listings
           /\ Archiving(b, c.account, c.archived).order = b.order /\ Archiving(b, c.account, c.archived).home = b.home
           /\ Archiving(b, c.account, c.archived).archived =
                  IF c.archived /\ c.account \in ToSet(b.order)
                  THEN b.archived \cup {c.account} ELSE b.archived \ {c.account}
<1>1. b.order \in Seq(Nat) /\ b.archived \subseteq Nat
  BY DEF Listings
<1> DEFINE s == IF c.archived /\ c.account \in ToSet(b.order)
                  THEN b.archived \cup {c.account} ELSE b.archived \ {c.account}
<1>2. \A x \in ToSet(b.order) : x \in Nat
  BY <1>1 DEF ToSet
<1>3. s \subseteq Nat
  BY <1>1, <1>2
<1>4. Archiving(b, c.account, c.archived) = [b EXCEPT !.archived = s]
  BY DEF Archiving
<1> HIDE DEF s
<1>5. /\ [b EXCEPT !.archived = s] \in Listings /\ [b EXCEPT !.archived = s].archived = s
      /\ [b EXCEPT !.archived = s].order = b.order /\ [b EXCEPT !.archived = s].home = b.home
  BY <1>3 DEF Listings
<1> QED
  BY <1>4, <1>5 DEF s

LEMMA ListingOps ==
    ASSUME NEW b \in Listings
    PROVE  /\ \A a, t \in Nat \cup {None} :
                 /\ WithoutAccount(b, a, t) \in Listings
                 /\ WithoutAccount(b, a, t).order = Rest(b.order, a)
                 /\ WithoutAccount(b, a, t).archived = b.archived \ {a}
           /\ \A n \in Nat : [b EXCEPT !.order = Append(@, n)] \in Listings
           /\ \A ids \in Seq(Nat) : [b EXCEPT !.order = ids] \in Listings
<1>1. b.order \in Seq(Nat) /\ b.archived \subseteq Nat
      /\ b.home \in [DOMAIN StartingAccounts.home -> Nat]
  BY DEF Listings
<1>2. ASSUME NEW a \in Nat \cup {None}, NEW t \in Nat \cup {None}
      PROVE  /\ WithoutAccount(b, a, t) \in Listings
             /\ WithoutAccount(b, a, t).order = Rest(b.order, a)
             /\ WithoutAccount(b, a, t).archived = b.archived \ {a}
  <2> DEFINE h == IF t = None THEN b.home ELSE Moved(b.home, a, t)
             o == Rest(b.order, a)
  <2>1. WithoutAccount(b, a, t) = [order |-> o, archived |-> b.archived \ {a}, home |-> h]
    BY DEF WithoutAccount, Filtered, Rest
  <2>2. h \in [DOMAIN StartingAccounts.home -> Nat]
    BY <1>1 DEF Moved
  <2>3. o \in Seq(Nat)
    BY <1>1, RestOf
  <2> HIDE DEF h, o
  <2>4. [order |-> o, archived |-> b.archived \ {a}, home |-> h] \in Listings
    BY <1>1, <2>2, <2>3 DEF Listings
  <2> QED
    BY <2>1, <2>4 DEF o
<1>4. \A ids \in Seq(Nat) : [b EXCEPT !.order = ids] \in Listings
  BY DEF Listings
<1>5. ASSUME NEW n \in Nat PROVE [b EXCEPT !.order = Append(@, n)] \in Listings
  <2> DEFINE ids == Append(b.order, n)
  <2>1. ids \in Seq(Nat)
    BY <1>1
  <2>2. [b EXCEPT !.order = Append(@, n)] = [b EXCEPT !.order = ids]
    OBVIOUS
  <2> HIDE DEF ids
  <2> QED
    BY <1>4, <2>1, <2>2
<1> QED
  BY <1>2, <1>4, <1>5

LEMMA NewIdIsNumber == ASSUME AccountTypes PROVE NewAccountId \in Nat
<1> DEFINE o == accountsSaved.order
           K == {0} \cup ToSet(o)
<1>1. o \in Seq(Nat)
  BY DEF AccountTypes, Listings
<1> HIDE DEF o
<1>2. DOMAIN o = 1 .. Len(o) /\ Len(o) \in Nat /\ \A i \in DOMAIN o : o[i] \in Nat
  BY <1>1
<1>3. \A x \in K : x \in Nat /\ x \in Int
  BY <1>2 DEF ToSet
<1>4. IsFiniteSet(ToSet(o))
  <2>1. IsFiniteSet(DOMAIN o)
    BY <1>2, FS_Interval
  <2> DEFINE f == [i \in DOMAIN o |-> o[i]]
  <2>2. f \in Surjection(DOMAIN o, ToSet(o))
    BY DEF Surjection, ToSet
  <2> QED
    BY <2>1, <2>2, FS_Surjection
<1>5. IsFiniteSet(K)
  <2>1. K = ToSet(o) \cup {0}
    OBVIOUS
  <2> QED
    BY <1>4, <2>1, FS_AddElement
<1>6. NewAccountId = Max(K) + 1 /\ 0 \in K
  BY DEF NewAccountId, o
<1> HIDE DEF K
<1>7. PICK x \in K : \A y \in K : x >= y
  BY <1>3, <1>5, <1>6, Greatest
<1>8. Max(K) \in K
  BY <1>7 DEF Max
<1> QED
  BY <1>3, <1>6, <1>8

-----------------------------------------------------------------------------
LEMMA AnsweredType ==
    ASSUME NEW c \in AccountCalls
    PROVE  /\ \A answer \in {"none", "ok", "failed"} : [c EXCEPT !.answer = answer] \in AccountCalls
           /\ \A n \in Nat : [c EXCEPT !.answer = "ok", !.made = n] \in AccountCalls
BY DEF AccountCalls

LEMMA PlainType ==
    ASSUME AccountTypes
    PROVE  /\ PlainCall \in AccountCalls
           /\ \A ids \in Seq(Nat) : [PlainCall EXCEPT !.op = "reorder", !.ids = ids] \in AccountCalls
           /\ \A a \in Nat, v \in BOOLEAN :
                 [PlainCall EXCEPT !.op = "archive", !.account = a, !.archived = v] \in AccountCalls
           /\ \A a \in Nat, t \in Nat \cup {None} :
                 [PlainCall EXCEPT !.op = "delete", !.account = a, !.target = t] \in AccountCalls
BY DEF AccountTypes, AccountCalls, PlainCall

LEMMA CallTypes ==
    ASSUME AccountTypes, NEW c \in AccountCalls, AccountCall(c), c.answer = "none",
           c.op = "archive" => c.archived \in BOOLEAN, c.op = "reorder" => c.ids \in Seq(Nat)
    PROVE  /\ accountsSaved' = accountsSaved
           /\ accountCalls' \subseteq AccountCalls /\ accountsAsked' \in Nat
           /\ \A d \in accountCalls' :
                 /\ d.op = "archive" => d.archived \in BOOLEAN
                 /\ d.op = "reorder" => d.ids \in Seq(Nat)
                 /\ d.op = "create" /\ d.answer = "ok" => d.made \in Nat
BY DEF AccountTypes, AccountCall

LEMMA AccountTypesNext == AccountTypes /\ [AccountNext]_accountVars => AccountTypes'
<1> SUFFICES ASSUME AccountTypes, [AccountNext]_accountVars PROVE AccountTypes'
  OBVIOUS
<1>0. /\ accountsSaved \in Listings /\ listed \in Listings
      /\ listed.order \in Seq(Nat) /\ DOMAIN listed.order \subseteq Nat \ {0}
      /\ ToSet(listed.order) \subseteq Nat
  BY DEF AccountTypes, Listings, ToSet
<1>1. CASE \E i \in DOMAIN listed.order : StartDrag(i) \/ DragTo(i)
  BY <1>0, <1>1 DEF StartDrag, DragTo, AccountTypes
<1>2. CASE Drop
  <2>1. CASE rowDrag.target = rowDrag.from
    BY <1>2, <2>1 DEF Drop, AccountTypes
  <2>2. CASE rowDrag.target # rowDrag.from
    <3> DEFINE ids == Spliced(listed.order, rowDrag.from, rowDrag.target)
               c == [PlainCall EXCEPT !.op = "reorder", !.ids = ids]
    <3>1. /\ AccountCall(c) /\ listed' = [listed EXCEPT !.order = ids]
          /\ rowDrag' = None /\ deleting' = deleting
      BY <1>2, <2>2 DEF Drop
    <3>2. ids \in Seq(Nat)
      BY <1>0, <1>2, SplicedKeeps DEF Drop, AccountTypes
    <3> HIDE DEF ids
    <3>3. c \in AccountCalls /\ c.answer = "none" /\ c.op = "reorder" /\ c.ids = ids
      BY <3>2, PlainType DEF PlainCall
    <3> HIDE DEF c
    <3>4. listed' \in Listings
      BY <1>0, <3>1, <3>2, ListingOps
    <3> QED
      BY <3>1, <3>2, <3>3, <3>4, CallTypes DEF AccountTypes
  <2> QED
    BY <2>1, <2>2
<1>3. CASE CreateAccount
  <2>1. PlainCall \in AccountCalls /\ PlainCall.answer = "none" /\ PlainCall.op = "create"
    BY PlainType DEF PlainCall
  <2> QED
    BY <1>3, <2>1, CallTypes DEF CreateAccount, AccountTypes
<1>4. CASE ApplyDelete
  <2> DEFINE c == [PlainCall EXCEPT !.op = "delete", !.account = deleting.account,
                                    !.target = deleting.target]
  <2>1. AccountCall(c) /\ deleting' = [deleting EXCEPT !.busy = TRUE] /\ deleting # None
        /\ listed' = listed /\ rowDrag' = rowDrag
    BY <1>4 DEF ApplyDelete
  <2>2. deleting' \in [account : Nat, target : Nat \cup {None}, busy : BOOLEAN]
        /\ deleting.account \in Nat /\ deleting.target \in Nat \cup {None}
    BY <2>1 DEF AccountTypes
  <2>3. c \in AccountCalls /\ c.answer = "none" /\ c.op = "delete"
    BY <2>2, PlainType DEF PlainCall
  <2> HIDE DEF c
  <2> QED
    BY <2>1, <2>2, <2>3, CallTypes DEF AccountTypes
<1>5. CASE CloseDelete
  BY <1>5 DEF CloseDelete, AccountTypes
<1>6. CASE \E a \in ToSet(listed.order) : Archive(a)
  <2>1. PICK a \in Nat : Archive(a)
    BY <1>0, <1>6
  <2> DEFINE c == [PlainCall EXCEPT !.op = "archive", !.account = a, !.archived = a \notin listed.archived]
  <2>2. AccountCall(c) /\ UNCHANGED <<listed, rowDrag, deleting>>
    BY <2>1 DEF Archive
  <2>3. c \in AccountCalls /\ c.answer = "none" /\ c.op = "archive" /\ c.archived \in BOOLEAN
    BY PlainType DEF PlainCall
  <2> HIDE DEF c
  <2> QED
    BY <2>2, <2>3, CallTypes DEF AccountTypes
<1>7. CASE \E a \in ToSet(listed.order) : OpenDelete(a)
  <2>1. PICK a \in Nat : OpenDelete(a)
    BY <1>0, <1>7
  <2>2. Filtered(listed.order, LAMBDA x : x # a) = Rest(listed.order, a)
    BY DEF Filtered, Rest
  <2> DEFINE o == Rest(listed.order, a)
  <2>3. o \in Seq(Nat)
    BY <1>0, RestOf
  <2> HIDE DEF o
  <2>4. o # <<>> => Head(o) \in Nat
    BY <2>3
  <2>5. deleting' = [account |-> a, target |-> IF o = <<>> THEN None ELSE Head(o), busy |-> FALSE]
    BY <2>1, <2>2 DEF OpenDelete, o
  <2> QED
    BY <2>1, <2>4, <2>5 DEF OpenDelete, AccountTypes
<1>8. CASE \E a \in ToSet(listed.order) : PickTarget(a)
  BY <1>0, <1>8 DEF PickTarget, AccountTypes
<1>9. CASE \E c \in accountCalls : AccountAccepted(c)
  <2>1. PICK c \in accountCalls : AccountAccepted(c)
    BY <1>9
  <2> DEFINE d == [c EXCEPT !.answer = "ok", !.made = NewAccountId]
  <2>2. /\ c \in AccountCalls /\ NewAccountId \in Nat
        /\ c.op = "archive" => c.archived \in BOOLEAN
        /\ c.op = "reorder" => c.ids \in Seq(Nat)
    BY NewIdIsNumber DEF AccountTypes
  <2>3. d \in AccountCalls /\ d.op = c.op /\ d.archived = c.archived /\ d.ids = c.ids /\ d.made = NewAccountId
    BY <2>2, AnsweredType DEF AccountCalls
  <2>4. accountCalls' = (accountCalls \ {c}) \cup {d}
    BY <2>1 DEF AccountAccepted
  <2> HIDE DEF d
  <2>5. accountsSaved' \in Listings
    <3>1. /\ c.op = "create" => accountsSaved' = [accountsSaved EXCEPT !.order = Append(@, NewAccountId)]
          /\ c.op = "archive" => accountsSaved' = Archiving(accountsSaved, c.account, c.archived)
          /\ c.op = "delete" => accountsSaved' = WithoutAccount(accountsSaved, c.account, c.target)
          /\ c.op = "reorder" => accountsSaved' = [accountsSaved EXCEPT !.order = c.ids]
          /\ c.op \in {"create", "archive", "delete", "reorder"}
          /\ c.account \in Nat \cup {None} /\ c.target \in Nat \cup {None}
      BY <2>1, <2>2 DEF AccountAccepted, AccountSaved, AccountCalls
    <3>2. [accountsSaved EXCEPT !.order = Append(@, NewAccountId)] \in Listings
      BY <1>0, <2>2, ListingOps
    <3>3. Archiving(accountsSaved, c.account, c.archived) \in Listings
      BY <1>0, ArchivingOf
    <3>4. WithoutAccount(accountsSaved, c.account, c.target) \in Listings
      BY <1>0, <3>1, ListingOps
    <3>5. c.op = "reorder" => [accountsSaved EXCEPT !.order = c.ids] \in Listings
      BY <1>0, <2>2, ListingOps
    <3> QED
      BY <3>1, <3>2, <3>3, <3>4, <3>5
  <2> QED
    BY <2>1, <2>2, <2>3, <2>4, <2>5 DEF AccountAccepted, AccountTypes
<1>10. CASE \E c \in accountCalls : AccountRefused(c) \/ AccountAnswerLost(c)
  <2>1. PICK c \in accountCalls : AccountRefused(c) \/ AccountAnswerLost(c)
    BY <1>10
  <2> DEFINE d == [c EXCEPT !.answer = "failed"]
  <2>2. d \in AccountCalls /\ d.op = c.op /\ d.archived = c.archived /\ d.ids = c.ids /\ d.answer = "failed"
    BY AnsweredType DEF AccountTypes, AccountCalls
  <2>3. accountCalls' = (accountCalls \ {c}) \cup {d}
    BY <2>1 DEF AccountRefused, AccountAnswerLost, AnsweredAs
  <2> HIDE DEF d
  <2> QED
    BY <2>1, <2>2, <2>3 DEF AccountRefused, AccountAnswerLost, AccountTypes
<1>11. CASE \E c \in accountCalls : AccountAnswer(c)
  <2>1. PICK c \in accountCalls : AccountAnswer(c)
    BY <1>11
  <2>2. listed' \in Listings
    <3>1. /\ c.op = "create" => listed' = [c.before EXCEPT !.order = Append(@, c.made)]
          /\ c.op = "archive" => listed' = Archiving(listed, c.account, c.archived)
          /\ c.op = "delete" => listed' = WithoutAccount(listed, c.account, c.target)
          /\ c.op = "reorder" => listed' = listed
      BY <2>1 DEF AccountAnswer, ListedThen
    <3>2. /\ c.op \in {"create", "archive", "delete", "reorder"} /\ c.before \in Listings
          /\ c.account \in Nat \cup {None} /\ c.target \in Nat \cup {None}
          /\ c.op = "create" => c.made \in Nat
      BY <2>1 DEF AccountAnswer, AccountTypes, AccountCalls
    <3>3. c.op = "create" => [c.before EXCEPT !.order = Append(@, c.made)] \in Listings
      BY <3>2, ListingOps
    <3>4. Archiving(listed, c.account, c.archived) \in Listings
      BY <1>0, ArchivingOf
    <3>5. WithoutAccount(listed, c.account, c.target) \in Listings
      BY <1>0, <3>2, ListingOps
    <3> QED
      BY <1>0, <3>1, <3>2, <3>3, <3>4, <3>5
  <2> QED
    BY <2>1, <2>2 DEF AccountAnswer, AccountTypes
<1>12. CASE \E c \in accountCalls : AccountFails(c)
  BY <1>12 DEF AccountFails, AccountTypes
<1>13. CASE UNCHANGED accountVars
  BY <1>13 DEF accountVars, AccountTypes
<1> QED
  BY <1>1, <1>2, <1>3, <1>4, <1>5, <1>6, <1>7, <1>8, <1>9, <1>10, <1>11, <1>12, <1>13 DEF AccountNext

-----------------------------------------------------------------------------
LEMMA IndependentSymmetric == \A c, d : Independent(c, d) => Independent(d, c)
BY DEF Independent

\* Nothing that the page and the server hold is changed, and no call answered.
LEMMA SameAhead ==
    ASSUME Ahead, UNCHANGED <<accountsSaved, listed, accountCalls>>
    PROVE  Ahead'
BY DEF Ahead, Pairwise, CreatesAlone, DeletesAhead, NothingAhead, OrderAsked, ArchivedAhead,
       NoneDue, AllSettled

\* An account is to be archived or deleted.
LEMMA AskedAhead ==
    ASSUME Ahead, UNCHANGED <<accountsSaved, listed>>, NEW c,
           c.op \in {"archive", "delete"}, c.answer = "none",
           accountCalls' = accountCalls \cup {c}, \A d \in accountCalls : Independent(c, d)
    PROVE  Ahead'
<1>1. /\ ~Due(c, "delete") /\ ~Due(c, "create") /\ ~Due(c, "archive") /\ ~Unsettled(c)
      /\ c.op # "create" /\ c.op # "reorder"
  BY DEF Due, Unsettled
<1>2. /\ NoneDue("delete")' <=> NoneDue("delete")
      /\ NoneDue("create")' <=> NoneDue("create")
      /\ AllSettled' <=> AllSettled
  BY <1>1 DEF NoneDue, AllSettled
<1>3. Pairwise'
  BY IndependentSymmetric DEF Ahead, Pairwise
<1>4. CreatesAlone' /\ OrderAsked'
  BY <1>1 DEF Ahead, CreatesAlone, OrderAsked
<1>5. DeletesAhead' /\ NothingAhead'
  BY <1>1, <1>2 DEF Ahead, DeletesAhead, NothingAhead
<1>6. ArchivedAhead'
  BY <1>1 DEF Ahead, ArchivedAhead
<1> QED
  BY <1>3, <1>4, <1>5, <1>6 DEF Ahead

\* The order is asked for: it shows at once.
LEMMA OrderedAhead ==
    ASSUME Ahead, accountsSaved' = accountsSaved, NEW c, NEW ids \in Seq(Nat), listed \in Listings,
           c.op = "reorder", c.ids = ids, c.answer = "none", ToSet(ids) = ToSet(listed.order),
           listed' = [listed EXCEPT !.order = ids],
           accountCalls' = accountCalls \cup {c}, \A d \in accountCalls : Independent(c, d)
    PROVE  Ahead'
<1>1. /\ ~Due(c, "delete") /\ ~Due(c, "create") /\ ~Due(c, "archive") /\ Unsettled(c)
      /\ c.op # "create"
  BY DEF Due, Unsettled
<1>2. /\ listed'.order = ids /\ listed'.home = listed.home /\ listed'.archived = listed.archived
      /\ ToSet(listed'.order) = ToSet(listed.order)
  BY DEF Listings
<1>3. \A d \in accountCalls : d.op # "create" /\ d.op # "reorder"
  BY DEF Independent
<1>4. /\ NoneDue("delete")' <=> NoneDue("delete")
      /\ ~AllSettled'
  BY <1>1 DEF NoneDue, AllSettled
<1>5. NoneDue("create")
  BY <1>3 DEF NoneDue, Due
<1>6. Pairwise'
  BY IndependentSymmetric DEF Ahead, Pairwise
<1>7. CreatesAlone'
  BY <1>1, <1>3 DEF Ahead, CreatesAlone
<1>8. \A a, t : WithoutAccount(listed', a, t).home = WithoutAccount(listed, a, t).home
  BY <1>2 DEF WithoutAccount
<1>9. DeletesAhead'
  BY <1>1, <1>2, <1>4, <1>8 DEF Ahead, DeletesAhead
<1>10. NothingAhead'
  BY <1>2, <1>4, <1>5 DEF Ahead, NothingAhead
<1>11. ArchivedAhead'
  BY <1>1, <1>2 DEF Ahead, ArchivedAhead
<1>12. ToSet(accountsSaved.order) \subseteq ToSet(listed.order)
  BY <1>5 DEF Ahead, DeletesAhead, NothingAhead, NoneDue
<1>13. OrderAsked'
  <2> SUFFICES ASSUME NEW d \in accountCalls', d.op = "reorder"
               PROVE  /\ ToSet(accountsSaved.order) \subseteq ToSet(d.ids)
                      /\ d.ids = listed'.order
    BY DEF OrderAsked
  <2>1. d = c
    BY <1>3
  <2> QED
    BY <1>2, <1>12, <2>1
<1> QED
  BY <1>6, <1>7, <1>9, <1>10, <1>11, <1>13 DEF Ahead

\* An account is to be created, which is asked for alone.
LEMMA CreatedAhead ==
    ASSUME Ahead, UNCHANGED <<accountsSaved, listed>>, NEW c,
           accountsSaved \in Listings, listed \in Listings,
           c.op = "create", c.answer = "none", c.before = listed,
           accountCalls' = accountCalls \cup {c}, \A d \in accountCalls : Independent(c, d)
    PROVE  Ahead'
<1>1. accountCalls = {} /\ accountCalls' = {c}
  BY DEF Independent
<1>2. accountsSaved.order = listed.order /\ accountsSaved.home = listed.home
  BY <1>1 DEF Ahead, NothingAhead, NoneDue, AllSettled
<1>3. accountsSaved.archived = listed.archived
  <2>1. \A x : x \in accountsSaved.archived <=> x \in listed.archived
    BY <1>1 DEF Ahead, ArchivedAhead
  <2> QED
    BY <2>1 DEF Listings
<1>4. accountsSaved = listed
  BY <1>2, <1>3 DEF Listings
<1> QED
  BY <1>1, <1>4 DEF Ahead, Pairwise, CreatesAlone, DeletesAhead, NothingAhead, OrderAsked,
                    ArchivedAhead, NoneDue, AllSettled, Due, Unsettled

-----------------------------------------------------------------------------
\* What a call is about stays the same while it is answered.
LEMMA SameCall ==
    ASSUME Pairwise, NEW c \in accountCalls, NEW d, d.op = c.op, d.account = c.account,
           accountCalls' = (accountCalls \ {c}) \cup {d}
    PROVE  Pairwise' /\ \A x \in accountCalls \ {c} : Independent(c, x)
<1>1. \A x \in accountCalls \ {c} : Independent(c, x) /\ Independent(d, x) /\ Independent(x, d)
  BY DEF Pairwise, Independent
<1> QED
  BY <1>1 DEF Pairwise

\* A call is turned down.
LEMMA RefusedAhead ==
    ASSUME Ahead, UNCHANGED <<accountsSaved, listed>>, NEW c \in accountCalls,
           c \in AccountCalls, AccountRefused(c)
    PROVE  Ahead'
<1> DEFINE d == [c EXCEPT !.answer = "failed"]
<1>1. /\ d.op = c.op /\ d.account = c.account /\ d.answer = "failed" /\ c.answer = "none"
      /\ d.before = c.before
      /\ accountCalls' = (accountCalls \ {c}) \cup {d}
  BY DEF AccountCalls, AccountRefused, AnsweredAs
<1> HIDE DEF d
<1>2. /\ \A op : ~Due(c, op) /\ ~Due(d, op)
      /\ Unsettled(c) <=> Unsettled(d)
  BY <1>1 DEF Due, Unsettled
<1>3. /\ NoneDue("delete")' <=> NoneDue("delete")
      /\ NoneDue("create")' <=> NoneDue("create")
      /\ AllSettled' <=> AllSettled
  BY <1>1, <1>2 DEF NoneDue, AllSettled
<1>4. Pairwise'
  BY <1>1, SameCall DEF Ahead
<1>5. CreatesAlone' /\ OrderAsked'
  BY <1>1 DEF Ahead, CreatesAlone, OrderAsked
<1>6. DeletesAhead' /\ NothingAhead'
  BY <1>1, <1>2, <1>3 DEF Ahead, DeletesAhead, NothingAhead
<1>7. ArchivedAhead'
  BY <1>1, <1>2 DEF Ahead, ArchivedAhead
<1> QED
  BY <1>4, <1>5, <1>6, <1>7 DEF Ahead

\* What its handler makes of an accepted call.
LEMMA AcceptedAhead ==
    ASSUME AccountTypes, Ahead, listed' = listed, NEW c \in accountCalls, AccountAccepted(c)
    PROVE  Ahead'
<1> DEFINE d == [c EXCEPT !.answer = "ok", !.made = NewAccountId]
<1>1. /\ d.op = c.op /\ d.account = c.account /\ d.answer = "ok" /\ c.answer = "none"
      /\ d.before = c.before /\ d.archived = c.archived /\ d.target = c.target /\ d.ids = c.ids
      /\ d.made = NewAccountId
      /\ accountCalls' = (accountCalls \ {c}) \cup {d}
      /\ c.op \in {"create", "archive", "delete", "reorder"}
      /\ c.account \in Nat \cup {None} /\ c.target \in Nat \cup {None}
      /\ c.op = "archive" => c.archived \in BOOLEAN
      /\ c.op = "reorder" => c.ids \in Seq(Nat)
  BY DEF AccountTypes, AccountCalls, AccountAccepted
<1>2. /\ accountsSaved' = AccountSaved(c) /\ Allowed(c)
      /\ accountsSaved \in Listings /\ listed \in Listings
      /\ accountsSaved.order \in Seq(Nat) /\ listed.order \in Seq(Nat)
  BY DEF AccountTypes, AccountAccepted, Listings
<1> HIDE DEF d
<1>3. \A op : ~Due(c, op) /\ (Due(d, op) <=> op = c.op)
  BY <1>1 DEF Due
<1>4. Pairwise' /\ \A x \in accountCalls \ {c} : Independent(c, x)
  BY <1>1, SameCall DEF Ahead
<1>5. /\ \A x \in accountCalls \ {c} : x \in accountCalls'
      /\ \A x \in accountCalls' : x = d \/ x \in accountCalls \ {c}
      /\ d \in accountCalls'
  BY <1>1
<1>6. CASE c.op = "create"
  <2>1. accountCalls = {c} /\ accountCalls' = {d}
    BY <1>1, <1>4, <1>6 DEF Independent
  <2>2. accountsSaved = listed /\ c.before = listed
    BY <1>1, <1>6 DEF Ahead, CreatesAlone
  <2>3. accountsSaved' = [listed EXCEPT !.order = Append(@, NewAccountId)]
    BY <1>2, <1>6, <2>2 DEF AccountSaved
  <2>4. accountsSaved'.archived = listed.archived
    BY <1>2, <2>3 DEF Listings
  <2>5. CreatesAlone'
    BY <1>1, <2>1, <2>2, <2>3 DEF CreatesAlone
  <2>6. DeletesAhead' /\ OrderAsked'
    BY <1>1, <1>6, <2>1 DEF DeletesAhead, OrderAsked, Due
  <2>7. NothingAhead'
    BY <1>3, <1>6, <2>1 DEF NothingAhead, NoneDue
  <2>8. ArchivedAhead'
    BY <1>1, <1>6, <2>1, <2>4 DEF ArchivedAhead, Due
  <2> QED
    BY <1>4, <2>5, <2>6, <2>7, <2>8 DEF Ahead
<1>7. CASE c.op = "archive"
  <2>1. /\ accountsSaved' = Archiving(accountsSaved, c.account, c.archived)
        /\ c.account \in ToSet(accountsSaved.order)
    BY <1>2, <1>7 DEF AccountSaved, Allowed
  <2>2. /\ accountsSaved'.order = accountsSaved.order /\ accountsSaved'.home = accountsSaved.home
        /\ accountsSaved'.archived = IF c.archived THEN accountsSaved.archived \cup {c.account}
                                                ELSE accountsSaved.archived \ {c.account}
    BY <1>2, <2>1, ArchivingOf
  <2>3. \A x \in accountCalls : x.op # "create"
    BY <1>4, <1>7 DEF Independent
  <2>4. /\ NoneDue("delete")' <=> NoneDue("delete")
        /\ NoneDue("create")' <=> NoneDue("create")
        /\ AllSettled' <=> AllSettled
    BY <1>3, <1>5, <1>7, <1>1 DEF NoneDue, AllSettled, Unsettled
  <2>5. CreatesAlone'
    BY <1>1, <1>5, <1>7, <2>3 DEF CreatesAlone
  <2>6. OrderAsked'
    BY <1>1, <1>5, <1>7, <2>2 DEF Ahead, OrderAsked
  <2>7. DeletesAhead'
    <3> SUFFICES ASSUME NEW x \in accountCalls, Due(x, "delete")
                 PROVE  /\ x.account \in ToSet(listed.order) /\ x.account \notin accountsSaved'.archived
                        /\ ToSet(accountsSaved'.order) = ToSet(listed.order) \ {x.account}
                        /\ accountsSaved'.home = WithoutAccount(listed, x.account, x.target).home
                        /\ AllSettled' => accountsSaved'.order = Rest(listed.order, x.account)
      BY <1>3, <1>5, <1>7 DEF DeletesAhead
    <3>1. /\ x.account \in ToSet(listed.order) /\ x.account \notin accountsSaved.archived
          /\ ToSet(accountsSaved.order) = ToSet(listed.order) \ {x.account}
          /\ accountsSaved.home = WithoutAccount(listed, x.account, x.target).home
          /\ AllSettled => accountsSaved.order = Rest(listed.order, x.account)
      BY DEF Ahead, DeletesAhead
    <3> QED
      BY <2>1, <2>2, <2>4, <3>1
  <2>8. NothingAhead'
    BY <2>2, <2>4 DEF Ahead, NothingAhead
  <2>9. ArchivedAhead'
    <3> SUFFICES ASSUME NEW x
                 PROVE  \/ \E y \in accountCalls' : Due(y, "delete") /\ y.account = x
                        \/ \E y \in accountCalls' :
                              /\ Due(y, "archive") /\ y.account = x
                              /\ x \in accountsSaved'.archived <=> y.archived /\ x \in ToSet(accountsSaved'.order)
                        \/ /\ \A y \in accountCalls' : Due(y, "archive") => y.account # x
                           /\ x \in accountsSaved'.archived <=> x \in listed'.archived
      BY DEF ArchivedAhead
    <3>1. CASE x = c.account
      BY <1>1, <1>3, <1>5, <1>7, <2>1, <2>2, <3>1
    <3>2. CASE x # c.account
      <4>1. x \in accountsSaved'.archived <=> x \in accountsSaved.archived
        BY <2>2, <3>2
      <4>2. \/ \E y \in accountCalls : Due(y, "delete") /\ y.account = x
            \/ \E y \in accountCalls :
                  /\ Due(y, "archive") /\ y.account = x
                  /\ x \in accountsSaved.archived <=> y.archived /\ x \in ToSet(accountsSaved.order)
            \/ /\ \A y \in accountCalls : Due(y, "archive") => y.account # x
               /\ x \in accountsSaved.archived <=> x \in listed.archived
        BY DEF Ahead, ArchivedAhead
      <4> QED
        BY <1>1, <1>3, <1>5, <2>2, <3>2, <4>1, <4>2
    <3> QED
      BY <3>1, <3>2
  <2> QED
    BY <1>4, <2>5, <2>6, <2>7, <2>8, <2>9 DEF Ahead
<1>8. CASE c.op = "delete"
  <2>1. /\ accountsSaved' = WithoutAccount(accountsSaved, c.account, c.target)
        /\ c.account \in ToSet(accountsSaved.order)
    BY <1>2, <1>8 DEF AccountSaved, Allowed
  <2>2. /\ accountsSaved'.order = Rest(accountsSaved.order, c.account)
        /\ accountsSaved'.archived = accountsSaved.archived \ {c.account}
    <3> DEFINE s == WithoutAccount(accountsSaved, c.account, c.target)
    <3>0. /\ accountsSaved \in Listings
          /\ c.account \in Nat \cup {None} /\ c.target \in Nat \cup {None}
      BY <1>1, <1>2
    <3>1. /\ s.order = Rest(accountsSaved.order, c.account)
          /\ s.archived = accountsSaved.archived \ {c.account}
      BY <3>0, ListingOps
    <3> HIDE DEF s
    <3> QED
      BY <2>1, <3>1 DEF s
  <2>3. ToSet(accountsSaved'.order) = ToSet(accountsSaved.order) \ {c.account}
    BY <1>2, <2>2, RestOf
  <2>4. \A x \in accountCalls : x.op # "create" /\ (x.op = "delete" => x = c)
    BY <1>4, <1>8 DEF Independent
  <2>5. NoneDue("delete") /\ NoneDue("create") /\ ~NoneDue("delete")'
    BY <1>3, <1>5, <1>8, <2>4 DEF NoneDue, Due
  <2>6. AllSettled' <=> AllSettled
    BY <1>1, <1>5, <1>8 DEF AllSettled, Unsettled
  <2>7. /\ ToSet(accountsSaved.order) = ToSet(listed.order) /\ accountsSaved.home = listed.home
        /\ AllSettled => accountsSaved.order = listed.order
    BY <2>5 DEF Ahead, NothingAhead
  <2>8. accountsSaved'.home = WithoutAccount(listed, c.account, c.target).home
    BY <2>1, <2>7 DEF WithoutAccount
  <2>9. DeletesAhead'
    <3>1. \A x \in accountCalls' : Due(x, "delete") => x = d
      BY <1>3, <1>5, <2>5 DEF NoneDue
    <3> QED
      BY <1>1, <2>1, <2>2, <2>3, <2>6, <2>7, <2>8, <3>1 DEF DeletesAhead
  <2>10. CreatesAlone' /\ NothingAhead'
    BY <1>1, <1>5, <1>8, <2>4, <2>5 DEF CreatesAlone, NothingAhead
  <2>11. OrderAsked'
    <3> SUFFICES ASSUME NEW x \in accountCalls, x.op = "reorder", x.answer = "none"
                 PROVE  /\ ToSet(accountsSaved'.order) \subseteq ToSet(x.ids)
                        /\ ToSet(x.ids) = ToSet(accountsSaved'.order) => x.ids = listed.order
      BY <1>1, <1>5, <1>8 DEF OrderAsked
    <3>1. ToSet(accountsSaved.order) \subseteq ToSet(x.ids)
      BY DEF Ahead, OrderAsked
    <3> QED
      BY <2>1, <2>3, <3>1
  <2>12. ArchivedAhead'
    <3> SUFFICES ASSUME NEW x, x # c.account
                 PROVE  \/ \E y \in accountCalls' :
                              /\ Due(y, "archive") /\ y.account = x
                              /\ x \in accountsSaved'.archived <=> y.archived /\ x \in ToSet(accountsSaved'.order)
                        \/ /\ \A y \in accountCalls' : Due(y, "archive") => y.account # x
                           /\ x \in accountsSaved'.archived <=> x \in listed'.archived
      BY <1>1, <1>3, <1>5, <1>8 DEF ArchivedAhead
    <3>1. \/ \E y \in accountCalls :
               /\ Due(y, "archive") /\ y.account = x
               /\ x \in accountsSaved.archived <=> y.archived /\ x \in ToSet(accountsSaved.order)
          \/ /\ \A y \in accountCalls : Due(y, "archive") => y.account # x
             /\ x \in accountsSaved.archived <=> x \in listed.archived
      BY <2>5 DEF Ahead, ArchivedAhead, NoneDue
    <3> QED
      BY <1>1, <1>3, <1>5, <1>8, <2>2, <2>3, <3>1
  <2> QED
    BY <1>4, <2>9, <2>10, <2>11, <2>12 DEF Ahead
<1>9. CASE c.op = "reorder"
  <2>1. /\ accountsSaved' = [accountsSaved EXCEPT !.order = c.ids]
        /\ ToSet(c.ids) = ToSet(accountsSaved.order)
    BY <1>2, <1>9 DEF AccountSaved, Allowed
  <2>2. /\ accountsSaved'.order = c.ids /\ accountsSaved'.home = accountsSaved.home
        /\ accountsSaved'.archived = accountsSaved.archived
    BY <1>2, <2>1 DEF Listings
  <2>3. c.ids = listed.order
    BY <1>1, <1>9, <2>1 DEF Ahead, OrderAsked
  <2>4. \A x \in accountCalls : x.op # "create" /\ (x.op = "reorder" => x = c)
    BY <1>4, <1>9 DEF Independent
  <2>5. NoneDue("delete") /\ NoneDue("create")
    BY <2>1, <2>3, <2>4 DEF Ahead, DeletesAhead, NoneDue, Due
  <2>6. NoneDue("delete")'
    BY <1>3, <1>5, <1>9, <2>5 DEF NoneDue
  <2>7. CreatesAlone' /\ OrderAsked'
    BY <1>1, <1>5, <1>9, <2>4 DEF CreatesAlone, OrderAsked
  <2>8. DeletesAhead'
    BY <2>6 DEF DeletesAhead, NoneDue
  <2>9. NothingAhead'
    BY <2>1, <2>2, <2>3, <2>5 DEF Ahead, NothingAhead
  <2>10. ArchivedAhead'
    <3> SUFFICES ASSUME NEW x
                 PROVE  \/ \E y \in accountCalls' :
                              /\ Due(y, "archive") /\ y.account = x
                              /\ x \in accountsSaved'.archived <=> y.archived /\ x \in ToSet(accountsSaved'.order)
                        \/ /\ \A y \in accountCalls' : Due(y, "archive") => y.account # x
                           /\ x \in accountsSaved'.archived <=> x \in listed'.archived
      BY DEF ArchivedAhead
    <3>1. \/ \E y \in accountCalls :
               /\ Due(y, "archive") /\ y.account = x
               /\ x \in accountsSaved.archived <=> y.archived /\ x \in ToSet(accountsSaved.order)
          \/ /\ \A y \in accountCalls : Due(y, "archive") => y.account # x
             /\ x \in accountsSaved.archived <=> x \in listed.archived
      BY <2>5 DEF Ahead, ArchivedAhead, NoneDue
    <3> QED
      BY <1>1, <1>3, <1>5, <1>9, <2>1, <2>2, <3>1
  <2> QED
    BY <1>4, <2>7, <2>8, <2>9, <2>10 DEF Ahead
<1> QED
  BY <1>1, <1>6, <1>7, <1>8, <1>9

-----------------------------------------------------------------------------
\* A call that failed is over; it was not to save an order.
LEMMA FailedAhead ==
    ASSUME Ahead, UNCHANGED <<accountsSaved, listed>>, NEW c \in accountCalls,
           c.answer = "failed", c.op # "reorder", accountCalls' = accountCalls \ {c}
    PROVE  Ahead'
<1>1. (\A op : ~Due(c, op)) /\ ~Unsettled(c)
  BY DEF Due, Unsettled
<1>2. /\ NoneDue("delete")' <=> NoneDue("delete")
      /\ NoneDue("create")' <=> NoneDue("create")
      /\ AllSettled' <=> AllSettled
  BY <1>1 DEF NoneDue, AllSettled
<1>3. Pairwise' /\ CreatesAlone' /\ OrderAsked'
  BY DEF Ahead, Pairwise, CreatesAlone, OrderAsked
<1>4. DeletesAhead' /\ NothingAhead'
  BY <1>2 DEF Ahead, DeletesAhead, NothingAhead
<1>5. ArchivedAhead'
  BY <1>1 DEF Ahead, ArchivedAhead
<1> QED
  BY <1>3, <1>4, <1>5 DEF Ahead

\* What the page makes of an answer.
LEMMA AnsweredAhead ==
    ASSUME AccountTypes, Ahead, accountsSaved' = accountsSaved, NEW c \in accountCalls,
           AccountAnswer(c)
    PROVE  Ahead'
<1>1. /\ c.answer = "ok" /\ accountCalls' = accountCalls \ {c} /\ listed' = ListedThen(c)
      /\ c.op \in {"create", "archive", "delete", "reorder"}
      /\ c.account \in Nat \cup {None} /\ c.target \in Nat \cup {None}
      /\ c.op = "archive" => c.archived \in BOOLEAN
  BY DEF AccountTypes, AccountCalls, AccountAnswer
<1>2. /\ accountsSaved \in Listings /\ listed \in Listings
      /\ accountsSaved.order \in Seq(Nat) /\ listed.order \in Seq(Nat)
  BY DEF AccountTypes, Listings
<1>3. \A op : Due(c, op) <=> op = c.op
  BY <1>1 DEF Due
<1>4. Pairwise' /\ \A x \in accountCalls \ {c} : Independent(c, x)
  BY <1>1 DEF Ahead, Pairwise
<1>5. \A x : x \in accountCalls' <=> x \in accountCalls /\ x # c
  BY <1>1
<1>6. CASE c.op = "create"
  <2>1. accountCalls' = {}
    BY <1>1, <1>4, <1>6 DEF Independent
  <2>2. listed' = accountsSaved
    BY <1>1, <1>6 DEF Ahead, CreatesAlone, ListedThen
  <2> QED
    BY <1>4, <2>1, <2>2 DEF Ahead, Pairwise, CreatesAlone, DeletesAhead, NothingAhead, OrderAsked,
                            ArchivedAhead
<1>7. CASE c.op = "archive"
  <2>1. listed' = Archiving(listed, c.account, c.archived)
    BY <1>1, <1>7 DEF ListedThen
  <2>2. /\ listed'.order = listed.order /\ listed'.home = listed.home
        /\ listed'.archived = IF c.archived /\ c.account \in ToSet(listed.order)
                              THEN listed.archived \cup {c.account} ELSE listed.archived \ {c.account}
    BY <1>2, <2>1, ArchivingOf
  <2>3. \A x \in accountCalls : x.op # "create"
    BY <1>4, <1>7 DEF Independent
  <2>4. /\ NoneDue("delete")' <=> NoneDue("delete")
        /\ NoneDue("create")
        /\ AllSettled' <=> AllSettled
    BY <1>3, <1>5, <1>7, <2>3 DEF NoneDue, AllSettled, Unsettled, Due
  <2>5. CreatesAlone' /\ OrderAsked'
    BY <1>5, <2>2, <2>3 DEF Ahead, CreatesAlone, OrderAsked
  <2>6. \A a, t : WithoutAccount(listed', a, t).home = WithoutAccount(listed, a, t).home
    BY <2>2 DEF WithoutAccount
  <2>7. DeletesAhead'
    <3> SUFFICES ASSUME NEW x \in accountCalls, Due(x, "delete")
                 PROVE  /\ x.account \in ToSet(listed'.order) /\ x.account \notin accountsSaved'.archived
                        /\ ToSet(accountsSaved'.order) = ToSet(listed'.order) \ {x.account}
                        /\ accountsSaved'.home = WithoutAccount(listed', x.account, x.target).home
                        /\ AllSettled' => accountsSaved'.order = Rest(listed'.order, x.account)
      BY <1>5 DEF DeletesAhead
    <3> QED
      BY <2>2, <2>4, <2>6 DEF Ahead, DeletesAhead
  <2>8. NothingAhead'
    BY <2>2, <2>4 DEF Ahead, NothingAhead
  <2>9. ArchivedAhead'
    <3> SUFFICES ASSUME NEW x, \A y \in accountCalls : Due(y, "delete") => y.account # x
                 PROVE  \/ \E y \in accountCalls' :
                              /\ Due(y, "archive") /\ y.account = x
                              /\ x \in accountsSaved'.archived <=> y.archived /\ x \in ToSet(accountsSaved'.order)
                        \/ /\ \A y \in accountCalls' : Due(y, "archive") => y.account # x
                           /\ x \in accountsSaved'.archived <=> x \in listed'.archived
      BY <1>3, <1>5, <1>7 DEF ArchivedAhead
    <3>1. \/ \E y \in accountCalls :
               /\ Due(y, "archive") /\ y.account = x
               /\ x \in accountsSaved.archived <=> y.archived /\ x \in ToSet(accountsSaved.order)
          \/ /\ \A y \in accountCalls : Due(y, "archive") => y.account # x
             /\ x \in accountsSaved.archived <=> x \in listed.archived
      BY DEF Ahead, ArchivedAhead
    <3>2. CASE x # c.account
      BY <1>5, <2>2, <3>1, <3>2
    <3>3. CASE x = c.account
      <4>1. x \in ToSet(accountsSaved.order) <=> x \in ToSet(listed.order)
        <5>1. CASE NoneDue("delete")
          BY <2>4, <5>1 DEF Ahead, NothingAhead
        <5>2. CASE ~NoneDue("delete")
          <6>1. PICK y \in accountCalls : Due(y, "delete")
            BY <5>2 DEF NoneDue
          <6>2. ToSet(accountsSaved.order) = ToSet(listed.order) \ {y.account} /\ y.account # x
            BY <6>1 DEF Ahead, DeletesAhead
          <6> QED
            BY <6>2
        <5> QED
          BY <5>1, <5>2
      <4>2. \A y \in accountCalls : Due(y, "archive") /\ y.account = x => y = c
        BY <1>4, <1>7, <3>3 DEF Independent, Due
      <4>3. x \in accountsSaved.archived <=> c.archived /\ x \in ToSet(accountsSaved.order)
        BY <1>3, <1>7, <3>1, <3>3, <4>2
      <4>4. x \in listed'.archived <=> c.archived /\ x \in ToSet(listed.order)
        BY <2>2, <3>3
      <4> QED
        BY <1>5, <4>1, <4>2, <4>3, <4>4
    <3> QED
      BY <3>2, <3>3
  <2> QED
    BY <1>4, <2>5, <2>7, <2>8, <2>9 DEF Ahead
<1>8. CASE c.op = "delete"
  <2>1. listed' = WithoutAccount(listed, c.account, c.target)
    BY <1>1, <1>8 DEF ListedThen
  <2>2. /\ listed'.order = Rest(listed.order, c.account)
        /\ listed'.archived = listed.archived \ {c.account}
    <3> DEFINE s == WithoutAccount(listed, c.account, c.target)
    <3>1. s.order = Rest(listed.order, c.account) /\ s.archived = listed.archived \ {c.account}
      BY <1>1, <1>2, ListingOps
    <3> HIDE DEF s
    <3> QED
      BY <2>1, <3>1 DEF s
  <2>3. ToSet(listed'.order) = ToSet(listed.order) \ {c.account}
    BY <1>2, <2>2, RestOf
  <2>4. /\ c.account \in ToSet(listed.order) /\ c.account \notin accountsSaved.archived
        /\ ToSet(accountsSaved.order) = ToSet(listed'.order)
        /\ accountsSaved.home = listed'.home
        /\ AllSettled => accountsSaved.order = listed'.order
    BY <1>3, <1>8, <2>1, <2>2, <2>3 DEF Ahead, DeletesAhead
  <2>5. \A x \in accountCalls : x.op # "create" /\ (x.op = "delete" => x = c)
    BY <1>4, <1>8 DEF Independent
  <2>6. NoneDue("delete")' /\ (AllSettled' <=> AllSettled)
    BY <1>5, <1>8, <2>5 DEF NoneDue, Due, AllSettled, Unsettled
  <2>7. CreatesAlone' /\ DeletesAhead'
    BY <1>5, <2>5, <2>6 DEF CreatesAlone, DeletesAhead, NoneDue
  <2>8. NothingAhead'
    BY <2>4, <2>6 DEF NothingAhead
  <2>9. OrderAsked'
    <3> SUFFICES ASSUME NEW x \in accountCalls, x.op = "reorder", x.answer = "none"
                 PROVE  /\ ToSet(accountsSaved.order) \subseteq ToSet(x.ids)
                        /\ ToSet(x.ids) # ToSet(accountsSaved.order)
      BY <1>5 DEF OrderAsked
    <3>1. /\ ToSet(accountsSaved.order) \subseteq ToSet(x.ids)
          /\ ToSet(x.ids) = ToSet(accountsSaved.order) => x.ids = listed.order
      BY DEF Ahead, OrderAsked
    <3> QED
      BY <2>3, <2>4, <3>1
  <2>10. ArchivedAhead'
    <3> SUFFICES ASSUME NEW x
                 PROVE  \/ \E y \in accountCalls' :
                              /\ Due(y, "archive") /\ y.account = x
                              /\ x \in accountsSaved.archived <=> y.archived /\ x \in ToSet(accountsSaved.order)
                        \/ /\ \A y \in accountCalls' : Due(y, "archive") => y.account # x
                           /\ x \in accountsSaved.archived <=> x \in listed'.archived
      BY DEF ArchivedAhead
    <3>1. CASE x = c.account
      BY <2>2, <2>3, <2>4, <3>1
    <3>2. CASE x # c.account
      <4>1. \/ \E y \in accountCalls :
                 /\ Due(y, "archive") /\ y.account = x
                 /\ x \in accountsSaved.archived <=> y.archived /\ x \in ToSet(accountsSaved.order)
            \/ /\ \A y \in accountCalls : Due(y, "archive") => y.account # x
               /\ x \in accountsSaved.archived <=> x \in listed.archived
        BY <2>5, <3>2 DEF Ahead, ArchivedAhead, Due
      <4> QED
        BY <1>3, <1>5, <1>8, <2>2, <3>2, <4>1
    <3> QED
      BY <3>1, <3>2
  <2> QED
    BY <1>4, <2>7, <2>8, <2>9, <2>10 DEF Ahead
<1>9. CASE c.op = "reorder"
  <2>1. listed' = listed
    BY <1>1, <1>9 DEF ListedThen
  <2>2. \A x \in accountCalls : x.op # "create"
    BY <1>4, <1>9 DEF Independent
  <2>3. /\ NoneDue("delete")' <=> NoneDue("delete")
        /\ NoneDue("create")
        /\ AllSettled' <=> AllSettled
    BY <1>1, <1>3, <1>5, <1>9, <2>2 DEF NoneDue, AllSettled, Unsettled, Due
  <2>4. CreatesAlone' /\ OrderAsked'
    BY <1>5, <2>1, <2>2 DEF Ahead, CreatesAlone, OrderAsked
  <2>5. DeletesAhead' /\ NothingAhead'
    BY <1>5, <2>1, <2>3 DEF Ahead, DeletesAhead, NothingAhead
  <2>6. ArchivedAhead'
    BY <1>3, <1>5, <1>9, <2>1 DEF Ahead, ArchivedAhead
  <2> QED
    BY <1>4, <2>4, <2>5, <2>6 DEF Ahead
<1> QED
  BY <1>1, <1>6, <1>7, <1>8, <1>9

-----------------------------------------------------------------------------
LEMMA InitAccounts == AccountInit => AccountInv
<1> SUFFICES ASSUME AccountInit PROVE AccountInv
  OBVIOUS
<1>1. AccountTypes
  BY AccountListAssumption DEF AccountInit, AccountTypes
<1>2. Ahead
  BY DEF AccountInit, Ahead, Pairwise, CreatesAlone, DeletesAhead, NothingAhead, OrderAsked,
         ArchivedAhead
<1> QED
  BY <1>1, <1>2 DEF AccountInv

LEMMA NextAccounts == AccountInv /\ [AccountNext]_accountVars => AccountInv'
<1> SUFFICES ASSUME AccountInv, [AccountNext]_accountVars PROVE AccountInv'
  OBVIOUS
<1>0. AccountTypes /\ AccountTypes'
  BY AccountTypesNext DEF AccountInv
<1> SUFFICES ASSUME ~adrift' PROVE Ahead'
  BY <1>0 DEF AccountInv
<1>1. ~adrift => Ahead
  BY DEF AccountInv
<1>2. CASE UNCHANGED <<accountsSaved, listed, accountCalls, adrift>>
  BY <1>1, <1>2, SameAhead
<1>3. CASE Drop /\ rowDrag.target # rowDrag.from
  <2> DEFINE ids == Spliced(listed.order, rowDrag.from, rowDrag.target)
             c == [PlainCall EXCEPT !.op = "reorder", !.ids = ids]
  <2>1. /\ AccountCall(c) /\ listed' = [listed EXCEPT !.order = ids]
        /\ c.op = "reorder" /\ c.ids = ids /\ c.answer = "none"
    BY <1>3 DEF Drop, PlainCall
  <2>2. ids \in Seq(Nat) /\ ToSet(ids) = ToSet(listed.order) /\ listed \in Listings
    <3>1. listed \in Listings /\ rowDrag # None
      BY <1>0, <1>3 DEF Drop, AccountTypes
    <3>2. listed.order \in Seq(Nat)
      BY <3>1 DEF Listings
    <3>3. rowDrag.from \in Nat \ {0} /\ rowDrag.target \in Nat \ {0}
      BY <1>0, <3>1 DEF AccountTypes
    <3> QED
      BY <3>1, <3>2, <3>3, SplicedKeeps
  <2> HIDE DEF ids, c
  <2> QED
    BY <1>1, <2>1, <2>2, OrderedAhead DEF AccountCall
<1>4. CASE CreateAccount
  <2>1. /\ PlainCall.op = "create" /\ PlainCall.answer = "none" /\ PlainCall.before = listed
        /\ AccountCall(PlainCall) /\ listed' = listed
    BY <1>4 DEF CreateAccount, PlainCall
  <2> QED
    BY <1>0, <1>1, <2>1, CreatedAhead DEF AccountCall, AccountTypes
<1>5. CASE ApplyDelete
  <2> DEFINE c == [PlainCall EXCEPT !.op = "delete", !.account = deleting.account,
                                    !.target = deleting.target]
  <2>1. c.op = "delete" /\ c.answer = "none"
    BY DEF PlainCall
  <2>2. AccountCall(c) /\ listed' = listed
    BY <1>5 DEF ApplyDelete
  <2> HIDE DEF c
  <2>3. /\ Ahead /\ accountsSaved' = accountsSaved /\ accountCalls' = accountCalls \cup {c}
        /\ \A d \in accountCalls : Independent(c, d)
    BY <1>1, <2>2 DEF AccountCall
  <2> QED
    BY <2>1, <2>2, <2>3, AskedAhead
<1>6. CASE \E a \in ToSet(listed.order) : Archive(a)
  <2>1. PICK a : Archive(a)
    BY <1>6
  <2> DEFINE c == [PlainCall EXCEPT !.op = "archive", !.account = a, !.archived = a \notin listed.archived]
  <2>2. AccountCall(c) /\ listed' = listed
    BY <2>1 DEF Archive
  <2>3. c.op = "archive" /\ c.answer = "none"
    BY DEF PlainCall
  <2> HIDE DEF c
  <2>4. /\ Ahead /\ accountsSaved' = accountsSaved /\ accountCalls' = accountCalls \cup {c}
        /\ \A d \in accountCalls : Independent(c, d)
    BY <1>1, <2>2 DEF AccountCall
  <2> QED
    BY <2>2, <2>3, <2>4, AskedAhead
<1>7. CASE \E c \in accountCalls : AccountAccepted(c)
  <2>1. PICK c \in accountCalls : AccountAccepted(c)
    BY <1>7
  <2>2. listed' = listed /\ adrift' = adrift
    BY <2>1 DEF AccountAccepted
  <2> QED
    BY <1>0, <1>1, <2>1, <2>2, AcceptedAhead
<1>8. CASE \E c \in accountCalls : AccountRefused(c)
  BY <1>0, <1>1, <1>8, RefusedAhead DEF AccountRefused, AccountTypes
<1>9. CASE \E c \in accountCalls : AccountAnswer(c)
  BY <1>0, <1>1, <1>9, AnsweredAhead DEF AccountAnswer
<1>10. CASE \E c \in accountCalls : AccountFails(c)
  BY <1>1, <1>10, FailedAhead DEF AccountFails
<1> QED
  BY <1>2, <1>3, <1>4, <1>5, <1>6, <1>7, <1>8, <1>9, <1>10
     DEF AccountNext, accountVars, StartDrag, DragTo, Drop, CloseDelete, OpenDelete, PickTarget,
         AccountAnswerLost

\* Once everything is answered the page lists the accounts as they are saved,
\* for any accounts and any number of calls, as long as no two were under way
\* that are not independent, no order was refused and no answer lost (store.ts
\* patchAccount, deleteAccount, createAccount; AccountsPage commitOrder).
THEOREM AccountsSettle == AccountSpec => []AccountsAgree
<1>1. AccountInv => AccountsAgree
  <2> SUFFICES ASSUME AccountInv, accountCalls = {}, ~adrift PROVE listed = accountsSaved
    BY DEF AccountsAgree
  <2>1. accountsSaved.order = listed.order /\ accountsSaved.home = listed.home
    BY DEF AccountInv, Ahead, NothingAhead, NoneDue, AllSettled
  <2>2. \A x : x \in accountsSaved.archived <=> x \in listed.archived
    BY DEF AccountInv, Ahead, ArchivedAhead
  <2>3. accountsSaved \in Listings /\ listed \in Listings
    BY DEF AccountInv, AccountTypes
  <2>4. accountsSaved.archived = listed.archived
    BY <2>2, <2>3 DEF Listings
  <2> QED
    BY <2>1, <2>3, <2>4 DEF Listings
<1> QED
  BY InitAccounts, NextAccounts, <1>1, PTL DEF AccountSpec
=============================================================================
