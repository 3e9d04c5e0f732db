------------------------- MODULE SyncServiceProofs -------------------------
(***************************************************************************)
(* What TLAPS proves of SyncService for any set of requests and            *)
(* connections, any capacity, any time to live and any clock bound.        *)
(***************************************************************************)
EXTENDS SyncService, FiniteSetTheorems, TLAPS

LEMMA TypeStep == TypeOK /\ [Next]_vars => TypeOK'
<1>. USE SyncServiceAssumption
<1>. SUFFICES ASSUME TypeOK, [Next]_vars
              PROVE  TypeOK'
  OBVIOUS
<1>. USE DEF TypeOK
<1>1. ASSUME NEW r \in Reqs, StartRun(r) PROVE TypeOK'
  BY <1>1 DEF StartRun, Leave, Without, RunsOf, Occupied, Session, Sessions, Replies, Outcomes
<1>2. ASSUME NEW r \in Reqs, StartRunRefused(r) PROVE TypeOK'
  BY <1>2 DEF StartRunRefused, Leave, Without, Replies, Outcomes
<1>3. ASSUME NEW r \in Reqs, SubmitSms(r) PROVE TypeOK'
  BY <1>3 DEF SubmitSms, Leave, Without, RunsOf, Occupied, Sessions, Replies, Outcomes
<1>4. ASSUME NEW r \in Reqs, SubmitSmsRefused(r) PROVE TypeOK'
  BY <1>4 DEF SubmitSmsRefused, Leave, Without, Replies, Outcomes
<1>5. ASSUME NEW r \in Reqs, CancelRun(r) PROVE TypeOK'
  BY <1>5 DEF CancelRun, Leave, Without, RunsOf, Occupied, Sessions, Replies, Outcomes
<1>6. ASSUME NEW r \in Reqs, CloseConnector(r) PROVE TypeOK'
  BY <1>6 DEF CloseConnector
<1>7. ASSUME NEW r \in Reqs, Proceed(r) PROVE TypeOK'
  BY <1>7 DEF Proceed
<1>8. ASSUME NEW r \in Reqs, RunParks(r) PROVE TypeOK'
  <2>1. UNCHANGED <<now, serving, cid, run, connector>>
    BY <1>8 DEF RunParks, Leave
  <2>2. /\ stale' = [stale EXCEPT ![r] = {}] /\ pc' = [pc EXCEPT ![r] = "closing"]
        /\ reply' \in [Reqs -> Replies]
    BY <1>8 DEF RunParks, Leave, Replies, Outcomes
  <2>3. PENDING' \in [Conns -> Sessions \cup {NoSession}]
    <3>1. CASE Owned(r)
      <4>1. Session(run[r]) \in Sessions
        <5>1. run[r] \in Reqs
          BY <3>1 DEF Owned, Sessions
        <5> QED
          BY <5>1 DEF Session, Sessions
      <4>2. PENDING' = [PENDING EXCEPT ![cid[r]] = Session(run[r])]
        BY <1>8, <3>1 DEF RunParks, Leave
      <4> QED
        BY <4>1, <4>2
    <3>2. CASE ~Owned(r)
      BY <1>8, <3>2 DEF RunParks, Leave
    <3> QED
      BY <3>1, <3>2
  <2> QED
    BY <2>1, <2>2, <2>3
<1>9. ASSUME NEW r \in Reqs, NEW outcome \in Outcomes, RunEnds(r, outcome) PROVE TypeOK'
  BY <1>9 DEF RunEnds, Leave, Owned, Without, Sessions, Replies, Outcomes
<1>10. ASSUME NEW r \in Reqs, RunCrashes(r) PROVE TypeOK'
  BY <1>10 DEF RunCrashes, Leave, Replies, Outcomes
<1>11. CASE Tick
  BY <1>11 DEF Tick
<1>12. CASE Shutdown
  BY <1>12 DEF Shutdown
<1>13. CASE UNCHANGED vars
  BY <1>13 DEF vars
<1>. QED
  BY <1>1, <1>2, <1>3, <1>4, <1>5, <1>6, <1>7, <1>8, <1>9, <1>10, <1>11, <1>12, <1>13
     DEF Next, Request, Step, Stopped

(* Deleting entries cannot overfill the registry.                          *)
LEMMA OccupiedWithout ==
  ASSUME NEW C
  PROVE  Occupied(Without(C)) = Occupied(PENDING) \ C
BY DEF Occupied, Without

LEMMA WithoutFits ==
  ASSUME WithinCapacity, PENDING_CAPACITY \in Nat, NEW C
  PROVE  /\ IsFiniteSet(Occupied(Without(C)))
         /\ Cardinality(Occupied(Without(C))) <= PENDING_CAPACITY
<1>1. Occupied(Without(C)) \subseteq Occupied(PENDING)
  BY OccupiedWithout
<1>2. IsFiniteSet(Occupied(PENDING)) /\ Cardinality(Occupied(PENDING)) \in Nat
  BY FS_CardinalityType DEF WithinCapacity
<1>3. /\ IsFiniteSet(Occupied(Without(C)))
      /\ Cardinality(Occupied(Without(C))) <= Cardinality(Occupied(PENDING))
  BY <1>1, <1>2, FS_Subset
<1>4. Cardinality(Occupied(Without(C))) \in Nat
  BY <1>3, FS_CardinalityType
<1>. QED
  BY <1>2, <1>3, <1>4 DEF WithinCapacity

(* A login is in one entry of PENDING at most, and its name is that of a   *)
(* request that was accepted.                                              *)
LEMMA EntriesApart ==
  ASSUME IInv
  PROVE  /\ \A c, d \in Occupied(PENDING) : PENDING[c].run = PENDING[d].run => c = d
         /\ \A c \in Occupied(PENDING) : /\ PENDING[c].run \in Reqs
                                         /\ pc[PENDING[c].run] # "idle"
BY SyncServiceAssumption
   DEF IInv, TypeOK, Sessions, Occupied, SessionsAreRuns, ParkedIsOpen, ThreadsAreSound

LEMMA InvInductive == IInv /\ [Next]_vars => IInv'
<1>. SUFFICES ASSUME IInv, [Next]_vars
              PROVE  IInv'
  OBVIOUS
<1>. USE SyncServiceAssumption
<1>a. TypeOK'
  BY TypeStep DEF IInv
<1>1. ASSUME NEW r \in Reqs, StartRun(r) PROVE IInv'
  <2>1. SessionsAreRuns'
    BY <1>1, <1>a DEF IInv, TypeOK, Occupied, SessionsAreRuns, ParkedIsOpen,
           ThreadsAreSound, StartRun, Leave, Arrives, Replaced, Expired, Without, RunsOf,
           Session, Sessions
  <2>2. ThreadsAreSound'
    BY <1>1, <1>a DEF IInv, TypeOK, Occupied, ThreadsAreSound, SessionsAreRuns, Outcomes,
           StartRun, Leave, Arrives, Replaced, Expired, Without, RunsOf, Session, Sessions
  <2>3. WithinCapacity'
    <3>. DEFINE rest == Without(Replaced(r))
    <3>1. IsFiniteSet(Occupied(rest)) /\ Cardinality(Occupied(rest)) \in Nat
      BY WithoutFits, FS_CardinalityType DEF IInv
    <3>2. Occupied(PENDING') = Occupied(rest) \cup {cid[r]}
      BY <1>1 DEF IInv, TypeOK, StartRun, Leave, Occupied, Session, Sessions, Without
    <3>3. cid[r] \notin Occupied(rest)
      BY DEF Occupied, Without, Replaced
    <3>4. /\ IsFiniteSet(Occupied(PENDING'))
          /\ Cardinality(Occupied(PENDING')) = Cardinality(Occupied(rest)) + 1
      BY <3>1, <3>2, <3>3, FS_AddElement
    <3>. QED
      BY <1>1, <3>1, <3>4 DEF StartRun, WithinCapacity, Occupied
  <2>4. ParkedIsOpen'
    BY <1>1, <1>a DEF IInv, TypeOK, Occupied, ParkedIsOpen, SessionsAreRuns,
           ThreadsAreSound, OneCloser, InRegistry, StartRun, Leave, Arrives, Replaced,
           Expired, Without, RunsOf, Session, Sessions
  <2>5. OneCloser'
    <3>1. /\ connector[r] = "none"
          /\ \A k \in Reqs : k # r => (InRegistry(k)' => InRegistry(k))
      BY <1>1 DEF IInv, TypeOK, StartRun, Leave, Arrives, ThreadsAreSound, InRegistry, Without, Session
    <3>2. stale'[r] = RunsOf(Replaced(r))
      BY <1>1 DEF IInv, TypeOK, StartRun, Leave
    <3>3. ASSUME NEW q \in Reqs \ {r}, NEW k \in stale[q]
          PROVE  k # r /\ ~InRegistry(k)' /\ k \notin stale'[r]
      <4>1. k \in Reqs /\ connector[k] = "open" /\ ~InRegistry(k)
        BY <3>3 DEF IInv, TypeOK, OneCloser
      <4>. QED
        BY <3>1, <3>2, <4>1 DEF RunsOf, InRegistry, Occupied
    <3>4. ASSUME NEW k \in stale'[r]
          PROVE  k # r /\ connector[k] = "open" /\ ~InRegistry(k)' /\ k \in Reqs
      <4>1. PICK c \in Replaced(r) \cap Occupied(PENDING) : k = PENDING[c].run
        BY <3>2, <3>4 DEF RunsOf
      <4>2. k \in Reqs /\ k # r /\ connector[k] = "open"
        BY <4>1, <3>1, EntriesApart DEF IInv, ParkedIsOpen
      <4>3. PENDING' = [Without(Replaced(r)) EXCEPT ![cid[r]] = Session(r)]
        BY <1>1 DEF StartRun, Leave
      <4>4. ASSUME NEW d \in Conns, PENDING'[d] # NoSession, PENDING'[d].run = k
            PROVE  FALSE
        <5>1. d # cid[r]
          BY <4>2, <4>3, <4>4 DEF Session, Without
        <5>2. d \in Occupied(PENDING) /\ d \notin Replaced(r) /\ PENDING[d].run = k
          BY <4>3, <4>4, <5>1 DEF Without, Occupied
        <5>. QED
          BY <4>1, <5>2, EntriesApart
      <4>. QED
        BY <4>2, <4>4 DEF InRegistry
    <3>. QED
      BY <1>1, <3>1, <3>3, <3>4 DEF IInv, TypeOK, StartRun, Leave, OneCloser
  <2>6. OneOutcome'
    <3>1. \A q \in Reqs : reply[q] \in Outcomes => run[q] # r
      BY <1>1 DEF IInv, TypeOK, StartRun, Arrives, ThreadsAreSound, Outcomes
    <3>. QED
      BY <1>1, <3>1 DEF IInv, TypeOK, StartRun, Leave, Arrives, OneOutcome, InRegistry,
         Without, Session, Outcomes, Occupied
  <2>. QED
    BY <1>a, <2>1, <2>2, <2>3, <2>4, <2>5, <2>6 DEF IInv
<1>2. ASSUME NEW r \in Reqs, StartRunRefused(r) PROVE IInv'
  <2>1. SessionsAreRuns'
    BY <1>2, <1>a DEF IInv, TypeOK, Occupied, SessionsAreRuns, ParkedIsOpen,
           ThreadsAreSound, StartRunRefused, Leave, Arrives, Replaced, Expired, Without
  <2>2. ThreadsAreSound'
    BY <1>2, <1>a DEF IInv, TypeOK, Occupied, ThreadsAreSound, SessionsAreRuns, Outcomes,
           StartRunRefused, Leave, Arrives, Replaced, Expired, Without
  <2>3. WithinCapacity'
    BY <1>2, WithoutFits DEF IInv, WithinCapacity, Occupied, StartRunRefused, Leave
  <2>4. ParkedIsOpen'
    BY <1>2, <1>a DEF IInv, TypeOK, Occupied, ParkedIsOpen, SessionsAreRuns,
           ThreadsAreSound, OneCloser, InRegistry, StartRunRefused, Leave, Arrives,
           Replaced, Expired, Without
  <2>5. OneCloser'
    BY <1>2, <1>a DEF IInv, TypeOK, Occupied, OneCloser, InRegistry, ParkedIsOpen,
           SessionsAreRuns, ThreadsAreSound, StartRunRefused, Leave, Arrives, Replaced,
           Expired, Without
  <2>6. OneOutcome'
    BY <1>2, <1>a DEF IInv, TypeOK, Occupied, OneOutcome, InRegistry, Outcomes,
           SessionsAreRuns, ThreadsAreSound, StartRunRefused, Leave, Arrives, Replaced,
           Expired, Without
  <2>. QED
    BY <1>a, <2>1, <2>2, <2>3, <2>4, <2>5, <2>6 DEF IInv
<1>3. ASSUME NEW r \in Reqs, SubmitSms(r) PROVE IInv'
  <2>1. SessionsAreRuns'
    BY <1>3, <1>a DEF IInv, TypeOK, Occupied, SessionsAreRuns, ParkedIsOpen,
           ThreadsAreSound, SubmitSms, Leave, Arrives, Expired, Without, RunsOf, Sessions
  <2>2. ThreadsAreSound'
    BY <1>3, <1>a DEF IInv, TypeOK, Occupied, ThreadsAreSound, SessionsAreRuns, Outcomes,
           SubmitSms, Leave, Arrives, Expired, Without, RunsOf, Sessions
  <2>3. WithinCapacity'
    BY <1>3, WithoutFits DEF IInv, WithinCapacity, Occupied, SubmitSms, Leave
  <2>4. ParkedIsOpen'
    BY <1>3, <1>a DEF IInv, TypeOK, Occupied, ParkedIsOpen, SessionsAreRuns,
           ThreadsAreSound, OneCloser, InRegistry, SubmitSms, Leave, Arrives, Expired,
           Without, RunsOf, Sessions
  <2>5. OneCloser'
    BY <1>3, <1>a DEF IInv, TypeOK, Occupied, OneCloser, InRegistry, ParkedIsOpen,
           SessionsAreRuns, ThreadsAreSound, SubmitSms, Leave, Arrives, Expired, Without,
           RunsOf, Sessions
  <2>6. OneOutcome'
    BY <1>3, <1>a DEF IInv, TypeOK, Occupied, OneOutcome, InRegistry, Outcomes,
           SessionsAreRuns, ThreadsAreSound, SubmitSms, Leave, Arrives, Expired, Without,
           RunsOf, Sessions
  <2>. QED
    BY <1>a, <2>1, <2>2, <2>3, <2>4, <2>5, <2>6 DEF IInv
<1>4. ASSUME NEW r \in Reqs, SubmitSmsRefused(r) PROVE IInv'
  <2>1. SessionsAreRuns'
    BY <1>4, <1>a DEF IInv, TypeOK, Occupied, SessionsAreRuns, ParkedIsOpen,
           ThreadsAreSound, SubmitSmsRefused, Leave, Arrives, Expired, Without
  <2>2. ThreadsAreSound'
    BY <1>4, <1>a DEF IInv, TypeOK, Occupied, ThreadsAreSound, SessionsAreRuns, Outcomes,
           SubmitSmsRefused, Leave, Arrives, Expired, Without
  <2>3. WithinCapacity'
    BY <1>4, WithoutFits DEF IInv, WithinCapacity, Occupied, SubmitSmsRefused, Leave
  <2>4. ParkedIsOpen'
    BY <1>4, <1>a DEF IInv, TypeOK, Occupied, ParkedIsOpen, SessionsAreRuns,
           ThreadsAreSound, OneCloser, InRegistry, SubmitSmsRefused, Leave, Arrives,
           Expired, Without
  <2>5. OneCloser'
    BY <1>4, <1>a DEF IInv, TypeOK, Occupied, OneCloser, InRegistry, ParkedIsOpen,
           SessionsAreRuns, ThreadsAreSound, SubmitSmsRefused, Leave, Arrives, Expired,
           Without
  <2>6. OneOutcome'
    BY <1>4, <1>a DEF IInv, TypeOK, Occupied, OneOutcome, InRegistry, Outcomes,
           SessionsAreRuns, ThreadsAreSound, SubmitSmsRefused, Leave, Arrives, Expired,
           Without
  <2>. QED
    BY <1>a, <2>1, <2>2, <2>3, <2>4, <2>5, <2>6 DEF IInv
<1>5. ASSUME NEW r \in Reqs, CancelRun(r) PROVE IInv'
  <2>1. SessionsAreRuns'
    BY <1>5, <1>a DEF IInv, TypeOK, Occupied, SessionsAreRuns, ParkedIsOpen,
           ThreadsAreSound, CancelRun, Leave, Arrives, Replaced, Expired, Without, RunsOf,
           Sessions
  <2>2. ThreadsAreSound'
    BY <1>5, <1>a DEF IInv, TypeOK, Occupied, ThreadsAreSound, SessionsAreRuns, Outcomes,
           CancelRun, Leave, Arrives, Replaced, Expired, Without, RunsOf, Sessions
  <2>3. WithinCapacity'
    BY <1>5, WithoutFits DEF IInv, WithinCapacity, Occupied, CancelRun, Leave
  <2>4. ParkedIsOpen'
    BY <1>5, <1>a DEF IInv, TypeOK, Occupied, ParkedIsOpen, SessionsAreRuns,
           ThreadsAreSound, OneCloser, InRegistry, CancelRun, Leave, Arrives, Replaced,
           Expired, Without, RunsOf, Sessions
  <2>5. OneCloser'
    BY <1>5, <1>a DEF IInv, TypeOK, Occupied, OneCloser, InRegistry, ParkedIsOpen,
           SessionsAreRuns, ThreadsAreSound, CancelRun, Leave, Arrives, Replaced, Expired,
           Without, RunsOf, Sessions
  <2>6. OneOutcome'
    BY <1>5, <1>a DEF IInv, TypeOK, Occupied, OneOutcome, InRegistry, Outcomes,
           SessionsAreRuns, ThreadsAreSound, CancelRun, Leave, Arrives, Replaced, Expired,
           Without, RunsOf, Sessions
  <2>. QED
    BY <1>a, <2>1, <2>2, <2>3, <2>4, <2>5, <2>6 DEF IInv
<1>6. ASSUME NEW r \in Reqs, CloseConnector(r) PROVE IInv'
  <2>1. SessionsAreRuns'
    BY <1>6, <1>a DEF IInv, TypeOK, Occupied, SessionsAreRuns, ParkedIsOpen,
           ThreadsAreSound, CloseConnector
  <2>2. ThreadsAreSound'
    BY <1>6 DEF IInv, TypeOK, ThreadsAreSound, OneCloser, CloseConnector
  <2>3. WithinCapacity'
    BY <1>6, <1>a DEF IInv, TypeOK, Occupied, WithinCapacity, CloseConnector
  <2>4. ParkedIsOpen'
    BY <1>6, <1>a DEF IInv, TypeOK, Occupied, ParkedIsOpen, SessionsAreRuns,
           ThreadsAreSound, OneCloser, InRegistry, CloseConnector
  <2>5. OneCloser'
    BY <1>6, <1>a DEF IInv, TypeOK, Occupied, OneCloser, InRegistry, ParkedIsOpen,
           SessionsAreRuns, ThreadsAreSound, CloseConnector
  <2>6. OneOutcome'
    BY <1>6, <1>a DEF IInv, TypeOK, Occupied, OneOutcome, InRegistry, Outcomes,
           SessionsAreRuns, ThreadsAreSound, CloseConnector
  <2>. QED
    BY <1>a, <2>1, <2>2, <2>3, <2>4, <2>5, <2>6 DEF IInv
<1>7. ASSUME NEW r \in Reqs, Proceed(r) PROVE IInv'
  <2>1. SessionsAreRuns'
    BY <1>7, <1>a DEF IInv, TypeOK, Occupied, SessionsAreRuns, ParkedIsOpen,
           ThreadsAreSound, Proceed
  <2>2. ThreadsAreSound'
    BY <1>7, <1>a DEF IInv, TypeOK, Occupied, ThreadsAreSound, SessionsAreRuns, Outcomes,
           Proceed
  <2>3. WithinCapacity'
    BY <1>7, <1>a DEF IInv, TypeOK, Occupied, WithinCapacity, Proceed
  <2>4. ParkedIsOpen'
    BY <1>7, <1>a DEF IInv, TypeOK, Occupied, ParkedIsOpen, SessionsAreRuns,
           ThreadsAreSound, OneCloser, InRegistry, Proceed
  <2>5. OneCloser'
    BY <1>7, <1>a DEF IInv, TypeOK, Occupied, OneCloser, InRegistry, ParkedIsOpen,
           SessionsAreRuns, ThreadsAreSound, Proceed
  <2>6. OneOutcome'
    BY <1>7, <1>a DEF IInv, TypeOK, Occupied, OneOutcome, InRegistry, Outcomes,
           SessionsAreRuns, ThreadsAreSound, Proceed
  <2>. QED
    BY <1>a, <2>1, <2>2, <2>3, <2>4, <2>5, <2>6 DEF IInv
<1>8. ASSUME NEW r \in Reqs, RunParks(r) PROVE IInv'
  <2>1. SessionsAreRuns'
    BY <1>8, <1>a DEF IInv, TypeOK, Occupied, SessionsAreRuns, ParkedIsOpen,
           ThreadsAreSound, RunParks, Leave, Owned, Session, Sessions
  <2>2. ThreadsAreSound'
    BY <1>8, <1>a DEF IInv, TypeOK, Occupied, ThreadsAreSound, SessionsAreRuns, Outcomes,
           RunParks, Leave, Owned, Session, Sessions
  <2>3. WithinCapacity'
    <3>1. Occupied(PENDING') = Occupied(PENDING)
      BY <1>8 DEF IInv, TypeOK, RunParks, Leave, Owned, Session, Sessions, Occupied
    <3>. QED
      BY <3>1 DEF IInv, WithinCapacity, Occupied
  <2>4. ParkedIsOpen'
    BY <1>8, <1>a DEF IInv, TypeOK, Occupied, ParkedIsOpen, SessionsAreRuns,
           ThreadsAreSound, OneCloser, InRegistry, RunParks, Leave, Owned, Session, Sessions
  <2>5. OneCloser'
    <3>1. \A k \in Reqs : InRegistry(k)' => InRegistry(k)
      BY <1>8 DEF IInv, TypeOK, RunParks, Leave, Owned, Session, Sessions, InRegistry
    <3>. QED
      BY <1>8, <3>1 DEF IInv, TypeOK, RunParks, Leave, OneCloser
  <2>6. OneOutcome'
    BY <1>8, <1>a DEF IInv, TypeOK, Occupied, OneOutcome, InRegistry, Outcomes,
           SessionsAreRuns, ThreadsAreSound, RunParks, Leave, Owned, Session, Sessions
  <2>. QED
    BY <1>a, <2>1, <2>2, <2>3, <2>4, <2>5, <2>6 DEF IInv
<1>9. ASSUME NEW r \in Reqs, NEW outcome \in Outcomes, RunEnds(r, outcome) PROVE IInv'
  <2>1. SessionsAreRuns'
    BY <1>9, <1>a DEF IInv, TypeOK, Occupied, SessionsAreRuns, ParkedIsOpen,
           ThreadsAreSound, RunEnds, Leave, Owned, Without, Sessions
  <2>2. ThreadsAreSound'
    BY <1>9, <1>a DEF IInv, TypeOK, Occupied, ThreadsAreSound, SessionsAreRuns, Outcomes,
           RunEnds, Leave, Owned, Without, Sessions
  <2>3. WithinCapacity'
    BY <1>9, WithoutFits DEF IInv, WithinCapacity, Occupied, RunEnds, Leave
  <2>4. ParkedIsOpen'
    BY <1>9, <1>a DEF IInv, TypeOK, Occupied, ParkedIsOpen, SessionsAreRuns,
           ThreadsAreSound, OneCloser, InRegistry, RunEnds, Leave, Owned, Without, Sessions
  <2>5. OneCloser'
    <3>1. \A k \in Reqs : InRegistry(k)' => InRegistry(k)
      BY <1>9 DEF IInv, TypeOK, RunEnds, Leave, Without, InRegistry
    <3>2. CASE Owned(r)
      <4>1. InRegistry(run[r]) /\ connector[run[r]] = "open" /\ run[r] \in Reqs
        BY <3>2 DEF IInv, TypeOK, Owned, InRegistry, ParkedIsOpen, Occupied, Sessions
      <4>2. ~InRegistry(run[r])'
        BY <1>9, <3>2, EntriesApart
           DEF IInv, TypeOK, RunEnds, Leave, Owned, Without, InRegistry, Occupied
      <4>. QED
        BY <1>9, <3>1, <3>2, <4>1, <4>2 DEF IInv, TypeOK, RunEnds, Leave, OneCloser
    <3>3. CASE ~Owned(r)
      BY <1>9, <3>1, <3>3 DEF IInv, TypeOK, RunEnds, Leave, OneCloser
    <3>. QED
      BY <3>2, <3>3
  <2>6. OneOutcome'
    BY <1>9, <1>a DEF IInv, TypeOK, Occupied, OneOutcome, InRegistry, Outcomes,
           SessionsAreRuns, ThreadsAreSound, RunEnds, Leave, Owned, Without, Sessions
  <2>. QED
    BY <1>a, <2>1, <2>2, <2>3, <2>4, <2>5, <2>6 DEF IInv
<1>10. ASSUME NEW r \in Reqs, RunCrashes(r) PROVE IInv'
  <2>1. SessionsAreRuns'
    BY <1>10, <1>a DEF IInv, TypeOK, Occupied, SessionsAreRuns, ParkedIsOpen,
           ThreadsAreSound, RunCrashes, Leave
  <2>2. ThreadsAreSound'
    BY <1>10, <1>a DEF IInv, TypeOK, Occupied, ThreadsAreSound, SessionsAreRuns, Outcomes,
           RunCrashes, Leave
  <2>3. WithinCapacity'
    BY <1>10, <1>a DEF IInv, TypeOK, Occupied, WithinCapacity, RunCrashes, Leave
  <2>4. ParkedIsOpen'
    BY <1>10, <1>a DEF IInv, TypeOK, Occupied, ParkedIsOpen, SessionsAreRuns,
           ThreadsAreSound, OneCloser, InRegistry, RunCrashes, Leave
  <2>5. OneCloser'
    BY <1>10, <1>a DEF IInv, TypeOK, Occupied, OneCloser, InRegistry, ParkedIsOpen,
           SessionsAreRuns, ThreadsAreSound, RunCrashes, Leave
  <2>6. OneOutcome'
    BY <1>10, <1>a DEF IInv, TypeOK, Occupied, OneOutcome, InRegistry, Outcomes,
           SessionsAreRuns, ThreadsAreSound, RunCrashes, Leave
  <2>. QED
    BY <1>a, <2>1, <2>2, <2>3, <2>4, <2>5, <2>6 DEF IInv
<1>11. CASE Tick
  <2>1. SessionsAreRuns'
    BY <1>11, <1>a DEF IInv, TypeOK, Occupied, SessionsAreRuns, ParkedIsOpen,
           ThreadsAreSound, Tick
  <2>2. ThreadsAreSound'
    BY <1>11, <1>a DEF IInv, TypeOK, Occupied, ThreadsAreSound, SessionsAreRuns, Outcomes,
           Tick
  <2>3. WithinCapacity'
    BY <1>11, <1>a DEF IInv, TypeOK, Occupied, WithinCapacity, Tick
  <2>4. ParkedIsOpen'
    BY <1>11, <1>a DEF IInv, TypeOK, Occupied, ParkedIsOpen, SessionsAreRuns,
           ThreadsAreSound, OneCloser, InRegistry, Tick
  <2>5. OneCloser'
    BY <1>11, <1>a DEF IInv, TypeOK, Occupied, OneCloser, InRegistry, ParkedIsOpen,
           SessionsAreRuns, ThreadsAreSound, Tick
  <2>6. OneOutcome'
    BY <1>11, <1>a DEF IInv, TypeOK, Occupied, OneOutcome, InRegistry, Outcomes,
           SessionsAreRuns, ThreadsAreSound, Tick
  <2>. QED
    BY <1>a, <2>1, <2>2, <2>3, <2>4, <2>5, <2>6 DEF IInv
<1>12. CASE Shutdown
  <2>1. SessionsAreRuns'
    BY <1>12, <1>a DEF IInv, TypeOK, Occupied, SessionsAreRuns, ParkedIsOpen,
           ThreadsAreSound, Shutdown, RunsOf
  <2>2. ThreadsAreSound'
    BY <1>12, <1>a DEF IInv, TypeOK, Occupied, ThreadsAreSound, SessionsAreRuns, Outcomes,
           Shutdown, RunsOf
  <2>3. WithinCapacity'
    <3>1. Occupied(PENDING') = {}
      BY <1>12 DEF Shutdown, Occupied
    <3>. QED
      BY <3>1, FS_EmptySet DEF WithinCapacity, Occupied
  <2>4. ParkedIsOpen'
    BY <1>12, <1>a DEF IInv, TypeOK, Occupied, ParkedIsOpen, SessionsAreRuns,
           ThreadsAreSound, OneCloser, InRegistry, Shutdown, RunsOf
  <2>5. OneCloser'
    BY <1>12, <1>a DEF IInv, TypeOK, Occupied, OneCloser, InRegistry, ParkedIsOpen,
           SessionsAreRuns, ThreadsAreSound, Shutdown, RunsOf
  <2>6. OneOutcome'
    BY <1>12, <1>a DEF IInv, TypeOK, Occupied, OneOutcome, InRegistry, Outcomes,
           SessionsAreRuns, ThreadsAreSound, Shutdown, RunsOf
  <2>. QED
    BY <1>a, <2>1, <2>2, <2>3, <2>4, <2>5, <2>6 DEF IInv
<1>13. CASE UNCHANGED vars
  BY <1>13 DEF IInv, TypeOK, SessionsAreRuns, ThreadsAreSound, WithinCapacity,
     ParkedIsOpen, OneCloser, OneOutcome, Occupied, InRegistry, vars
<1>. QED
  BY <1>1, <1>2, <1>3, <1>4, <1>5, <1>6, <1>7, <1>8, <1>9, <1>10, <1>11, <1>12, <1>13
     DEF Next, Request, Step, Stopped

LEMMA InvInit == Init => IInv
<1>. SUFFICES ASSUME Init PROVE IInv
  OBVIOUS
<1>1. TypeOK
  BY SyncServiceAssumption DEF Init, TypeOK, Replies, Outcomes
<1>2. Occupied(PENDING) = {}
  BY DEF Init, Occupied
<1>3. WithinCapacity
  BY <1>2, FS_EmptySet, SyncServiceAssumption DEF WithinCapacity
<1>. QED
  BY <1>1, <1>2, <1>3, SyncServiceAssumption
     DEF Init, IInv, SessionsAreRuns, ThreadsAreSound, ParkedIsOpen, OneCloser, OneOutcome, Outcomes

(* The inductive invariant holds in every reachable state.                 *)
THEOREM InvHolds == Spec => []IInv
BY InvInit, InvInductive, PTL DEF Spec

(* Every variable keeps its type.                                          *)
THEOREM TypeCorrect == Spec => []TypeOK
<1>1. IInv => TypeOK
  BY DEF IInv
<1>. QED
  BY <1>1, InvHolds, PTL

(* PENDING never holds more logins than PENDING_CAPACITY.                  *)
THEOREM CapacityHolds == Spec => []WithinCapacity
<1>1. IInv => WithinCapacity
  BY DEF IInv
<1>. QED
  BY <1>1, InvHolds, PTL

(* The connector of an entry of PENDING is never one that was closed.      *)
THEOREM ParkedStaysOpen == Spec => []ParkedIsOpen
<1>1. IInv => ParkedIsOpen
  BY DEF IInv
<1>. QED
  BY <1>1, InvHolds, PTL

(* No connector is ever handed to two closers.                             *)
THEOREM ClosedByOne == Spec => []OneCloser
<1>1. IInv => OneCloser
  BY DEF IInv
<1>. QED
  BY <1>1, InvHolds, PTL

(* A login has one outcome, and no entry once it has it.                   *)
THEOREM OutcomeIsUnique == Spec => []OneOutcome
<1>1. IInv => OneOutcome
  BY DEF IInv
<1>. QED
  BY <1>1, InvHolds, PTL

(* When _reserve answers 429 it has deleted nothing: the registry was full *)
(* and could not have been fuller, so the list it forgets is empty.        *)
LEMMA RefusalDeletesNothing ==
  ASSUME IInv, NEW r \in Reqs, StartRunRefused(r)
  PROVE  PENDING' = PENDING
<1>. DEFINE C == Replaced(r)
<1>1. /\ Occupied(Without(C)) \subseteq Occupied(PENDING)
      /\ IsFiniteSet(Occupied(PENDING))
  BY OccupiedWithout DEF IInv, WithinCapacity
<1>2. Cardinality(Occupied(PENDING)) <= Cardinality(Occupied(Without(C)))
  <2>1. /\ Cardinality(Occupied(PENDING)) \in Nat
        /\ Cardinality(Occupied(Without(C))) \in Nat
    BY <1>1, FS_Subset, FS_CardinalityType
  <2>. QED
    BY <2>1, SyncServiceAssumption DEF IInv, WithinCapacity, StartRunRefused
<1>3. Occupied(Without(C)) = Occupied(PENDING)
  <2>1. /\ Cardinality(Occupied(PENDING)) \in Nat
        /\ Cardinality(Occupied(Without(C))) \in Nat
        /\ Cardinality(Occupied(Without(C))) <= Cardinality(Occupied(PENDING))
    BY <1>1, FS_Subset, FS_CardinalityType
  <2>. QED
    BY <1>1, <1>2, <2>1, FS_Subset
<1>4. \A c \in Conns : c \in C => PENDING[c] = NoSession
  BY <1>3 DEF Occupied, Without
<1>. QED
  BY <1>4 DEF IInv, TypeOK, StartRunRefused, Leave, Without

(* No step but a refused /sms loses an open connector.                     *)
THEOREM LeaksOnlyOnRefusedSms == Spec => OnlyRefusedSmsLeaks
<1>1. ASSUME IInv, [Next]_vars, NEW k \in Reqs, Kept(k), ~Kept(k)', connector'[k] = "open"
      PROVE  \E r \in Reqs : SubmitSmsRefused(r)
  <2>. USE <1>1 DEF IInv, TypeOK
  <2>1. ASSUME NEW r \in Reqs, StartRun(r) PROVE FALSE
    <3>1. stale[r] = {} /\ stale' = [stale EXCEPT ![r] = RunsOf(Replaced(r))]
      BY <2>1 DEF StartRun, Arrives, Leave, ThreadsAreSound
    <3>2. PENDING' = [Without(Replaced(r)) EXCEPT ![cid[r]] = Session(r)]
      BY <2>1 DEF StartRun, Leave
    <3>3. InRegistry(k)
      BY <3>1 DEF Kept
    <3>4. PICK c \in Occupied(PENDING) : PENDING[c].run = k
      BY <3>3 DEF InRegistry, Occupied
    <3>5. CASE c \in Replaced(r)
      BY <3>1, <3>4, <3>5 DEF Kept, RunsOf
    <3>6. CASE c \notin Replaced(r)
      <4>1. c # cid[r] /\ PENDING'[c] = PENDING[c] /\ c \in Conns
        BY <3>2, <3>4, <3>6 DEF Without, Occupied, Replaced
      <4>. QED
        BY <3>4, <4>1 DEF Kept, InRegistry, Occupied
    <3>. QED
      BY <3>5, <3>6
  <2>2. ASSUME NEW r \in Reqs, StartRunRefused(r) PROVE FALSE
    <3>1. stale[r] = {} /\ stale' = [stale EXCEPT ![r] = {r}]
      BY <2>2 DEF StartRunRefused, Arrives, Leave, ThreadsAreSound
    <3>2. PENDING' = PENDING
      BY <2>2, RefusalDeletesNothing
    <3>. QED
      BY <3>1, <3>2 DEF Kept, InRegistry
  <2>3. ASSUME NEW r \in Reqs, SubmitSms(r) PROVE FALSE
    BY <2>3 DEF SubmitSms, Arrives, Leave, Kept, InRegistry, ThreadsAreSound, Without,
       RunsOf, Occupied
  <2>4. ASSUME NEW r \in Reqs, CancelRun(r) PROVE FALSE
    BY <2>4 DEF CancelRun, Arrives, Leave, Kept, InRegistry, ThreadsAreSound, Without,
       RunsOf, Occupied
  <2>5. ASSUME NEW r \in Reqs, CloseConnector(r) PROVE FALSE
    BY <2>5 DEF CloseConnector, Kept, InRegistry
  <2>6. ASSUME NEW r \in Reqs, Proceed(r) PROVE FALSE
    BY <2>6 DEF Proceed, Kept, InRegistry
  <2>7. ASSUME NEW r \in Reqs, RunParks(r) PROVE FALSE
    <3>1. stale[r] = {} /\ stale' = [stale EXCEPT ![r] = {}]
      BY <2>7 DEF RunParks, Leave, ThreadsAreSound
    <3>2. InRegistry(k)' <=> InRegistry(k)
      <4>1. CASE Owned(r)
        <5>1. /\ PENDING' = [PENDING EXCEPT ![cid[r]] = Session(run[r])]
              /\ PENDING[cid[r]] # NoSession /\ PENDING[cid[r]].run = run[r]
              /\ cid[r] \in Conns /\ run[r] \in Reqs
          BY <2>7, <4>1 DEF RunParks, Leave, Owned, Sessions
        <5>2. Session(run[r]) # NoSession /\ Session(run[r]).run = run[r]
          BY <5>1, SyncServiceAssumption DEF Session, Sessions
        <5>3. \A c \in Conns :
                 (PENDING'[c] # NoSession /\ PENDING'[c].run = k)
                    <=> (PENDING[c] # NoSession /\ PENDING[c].run = k)
          BY <5>1, <5>2
        <5>. QED
          BY <5>3 DEF InRegistry
      <4>2. CASE ~Owned(r)
        BY <2>7, <4>2 DEF RunParks, Leave, InRegistry
      <4>. QED
        BY <4>1, <4>2
    <3>. QED
      BY <3>1, <3>2 DEF Kept
  <2>8. ASSUME NEW r \in Reqs, NEW outcome \in Outcomes, RunEnds(r, outcome) PROVE FALSE
    BY <2>8 DEF RunEnds, Owned, Without, Leave, Kept, InRegistry, ThreadsAreSound
  <2>9. ASSUME NEW r \in Reqs, RunCrashes(r) PROVE FALSE
    BY <2>9 DEF RunCrashes, Leave, Kept, InRegistry, ThreadsAreSound
  <2>10. ~Tick /\ vars' # vars
    BY DEF Tick, Kept, InRegistry, vars
  <2>11. CASE Shutdown
    BY <2>11 DEF Shutdown, Kept, InRegistry, ThreadsAreSound, RunsOf, Occupied
  <2>. QED
    BY <2>1, <2>2, <2>3, <2>4, <2>5, <2>6, <2>7, <2>8, <2>9, <2>10, <2>11
       DEF Next, Request, Step, Stopped
<1>2. IInv /\ [Next]_vars =>
        [\A k \in Reqs : Kept(k) /\ ~Kept(k)' /\ connector'[k] = "open"
            => \E r \in Reqs : SubmitSmsRefused(r)]_vars
  BY <1>1
<1>. QED
  BY <1>2, InvHolds, PTL DEF Spec, OnlyRefusedSmsLeaks

(* An entry of PENDING is evicted only by those entitled to.               *)
THEOREM EvictionIsRightful == Spec => OnlyRightfulEviction
<1>. DEFINE Rightful(c) ==
       \/ PENDING[c].expires_at <= now
       \/ ~serving'
       \/ \E r \in Reqs : /\ cid[r] = c
                          /\ pc[r] = "idle" /\ pc'[r] = "closing"
                          /\ r = run'[r] \/ reply'[r] = "cancelled"
       \/ \E r \in Reqs : /\ run[r] = PENDING[c].run
                          /\ pc[r] = "running" /\ reply'[r] \in Outcomes
<1>1. ASSUME IInv, [Next]_vars, NEW c \in Conns, Evicted(c)
      PROVE  Rightful(c)
  <2>. USE <1>1 DEF IInv, TypeOK, Evicted
  <2>1. ASSUME NEW r \in Reqs, StartRun(r) PROVE Rightful(c)
    BY <2>1 DEF StartRun, Arrives, Leave, Without, Replaced, Expired, Occupied
  <2>2. ASSUME NEW r \in Reqs, StartRunRefused(r) PROVE Rightful(c)
    BY <2>2, RefusalDeletesNothing
  <2>3. ASSUME NEW r \in Reqs, SubmitSms(r) PROVE Rightful(c)
    BY <2>3 DEF SubmitSms, Leave, Without, Expired, Occupied
  <2>4. ASSUME NEW r \in Reqs, SubmitSmsRefused(r) PROVE Rightful(c)
    BY <2>4 DEF SubmitSmsRefused, Leave, Without, Expired, Occupied
  <2>5. ASSUME NEW r \in Reqs, CancelRun(r) PROVE Rightful(c)
    BY <2>5 DEF CancelRun, Arrives, Leave, Without, Replaced, Expired, Occupied, Replies
  <2>6. ASSUME NEW r \in Reqs, RunParks(r) PROVE Rightful(c)
    BY <2>6, SyncServiceAssumption DEF RunParks, Owned, Session, Sessions, Leave
  <2>7. ASSUME NEW r \in Reqs, NEW outcome \in Outcomes, RunEnds(r, outcome) PROVE Rightful(c)
    BY <2>7 DEF RunEnds, Owned, Without, Leave
  <2>8. ASSUME NEW r \in Reqs, CloseConnector(r) \/ Proceed(r) \/ RunCrashes(r) PROVE Rightful(c)
    BY <2>8 DEF CloseConnector, Proceed, RunCrashes, Leave
  <2>9. CASE Tick \/ Shutdown \/ UNCHANGED vars
    BY <2>9 DEF Tick, Shutdown, vars
  <2>. QED
    BY <2>1, <2>2, <2>3, <2>4, <2>5, <2>6, <2>7, <2>8, <2>9
       DEF Next, Request, Step, Stopped
<1>2. IInv /\ [Next]_vars => [\A c \in Conns : Evicted(c) => Rightful(c)]_vars
  BY <1>1
<1>. QED
  BY <1>2, InvHolds, PTL DEF Spec, OnlyRightfulEviction

-----------------------------------------------------------------------------
(* The service implements LoginRegistry.                                   *)

\* LoginRegistry's instance of FiniteSets and this module's are the same.
LEMMA SameCardinality == \A S : Registry!Cardinality(S) = Cardinality(S)
BY DEF Registry!Cardinality, Cardinality

LEMMA LiveRuns == Registry!Live = {k \in Reqs : InRegistry(k)}
BY DEF Registry!Live, Phase

(* Deleting the entries of C revokes their logins and no other.            *)
LEMMA DeletionRevokes ==
  ASSUME IInv, NEW C, PENDING' = Without(C), cid' = cid,
         \A k \in Reqs : Finished(k)' <=> Finished(k),
         \A k \in Reqs : (run'[k] = k) <=> (run[k] = k)
  PROVE  Registry!Next
<1>. DEFINE R == RunsOf(C)
<1>1. R \subseteq {k \in Reqs : InRegistry(k)}
  BY EntriesApart DEF RunsOf, InRegistry, Occupied
<1>2. \A k \in Reqs : InRegistry(k)' <=> InRegistry(k) /\ k \notin R
  BY EntriesApart DEF InRegistry, Without, RunsOf, Occupied
<1>3. \A k \in R : run[k] = k /\ ~Finished(k)
  BY <1>1 DEF IInv, TypeOK, SessionsAreRuns, OneOutcome, Finished, InRegistry, Occupied
<1>4. \A k \in Reqs : Phase(k)' = IF k \in R THEN "revoked" ELSE Phase(k)
  BY <1>1, <1>2, <1>3 DEF Phase
<1>5. Registry!Revoke(R)
  BY <1>1, <1>4, LiveRuns DEF Registry!Revoke, Registry!Revoked
<1>. QED
  BY <1>1, <1>5 DEF Registry!Next

(* A step that changes neither PENDING nor an outcome is invisible.        *)
LEMMA SamePhases ==
  ASSUME cid' = cid,
         \A k \in Reqs : InRegistry(k)' <=> InRegistry(k),
         \A k \in Reqs : Finished(k)' <=> Finished(k),
         run' = run
  PROVE  UNCHANGED Registry!vars
BY DEF Registry!vars, Phase

(* An admitted /runs request is one Admit step of the registry.            *)
LEMMA StartAdmits ==
  ASSUME IInv, NEW r \in Reqs, StartRun(r)
  PROVE  Registry!Next
<1>. DEFINE C == Replaced(r)
            R == RunsOf(C)
            rest == Without(C)
<1>. USE SyncServiceAssumption
<1>1. /\ run[r] = NoRun /\ reply[r] = "none" /\ connector[r] = "none"
      /\ run' = [run EXCEPT ![r] = r]
      /\ reply' = [reply EXCEPT ![r] = "none"]
      /\ PENDING' = [rest EXCEPT ![cid[r]] = Session(r)]
      /\ cid' = cid
      /\ Cardinality(Occupied(rest)) < PENDING_CAPACITY
  BY DEF IInv, ThreadsAreSound, StartRun, Arrives, Leave
<1>2. /\ R \subseteq {k \in Reqs : InRegistry(k)}
      /\ r \notin R
      /\ ~InRegistry(r)
  BY EntriesApart DEF StartRun, Arrives, RunsOf, InRegistry, Occupied
<1>3. \A c \in Conns : PENDING'[c] # NoSession <=> c = cid[r] \/ c \in Occupied(rest)
  BY <1>1 DEF Session, Sessions, Without, Occupied, IInv, TypeOK
<1>4. \A c \in Conns : PENDING'[c] = IF c = cid[r] THEN Session(r) ELSE rest[c]
  BY <1>1 DEF Without
<1>5. \A k \in Reqs \ {r} : InRegistry(k)' <=> InRegistry(k) /\ k \notin R
  <2>. TAKE k \in Reqs \ {r}
  <2>1. ASSUME NEW c \in Conns, PENDING'[c] # NoSession, PENDING'[c].run = k
        PROVE  c \in Occupied(PENDING) /\ c \notin C /\ PENDING[c].run = k
    BY <2>1, <1>3, <1>4 DEF Session, Occupied, Without
  <2>2. ASSUME NEW c \in Occupied(PENDING), c \notin C, PENDING[c].run = k
        PROVE  PENDING'[c] # NoSession /\ PENDING'[c].run = k /\ c \in Conns
    BY <2>2, <1>3, <1>4 DEF Occupied, Without, Replaced
  <2>. QED
    BY <2>1, <2>2, EntriesApart DEF InRegistry, RunsOf, Occupied
<1>6. InRegistry(r)'
  BY <1>3, <1>4 DEF InRegistry, Session, IInv, TypeOK
<1>7. \A k \in Reqs : ~Finished(r) /\ (Finished(k)' <=> Finished(k))
  <2>1. \A q \in Reqs : run[q] # r
    BY <1>1 DEF IInv, ThreadsAreSound
  <2>. QED
    BY <1>1, <2>1 DEF Finished, Outcomes, IInv, TypeOK
<1>8. \A k \in R : run[k] = k /\ ~Finished(k)
  BY <1>2 DEF IInv, TypeOK, SessionsAreRuns, OneOutcome, Finished, InRegistry, Occupied
<1>9. \A k \in Reqs : Phase(k)' = IF k = r THEN "live" ELSE IF k \in R THEN "revoked" ELSE Phase(k)
  BY <1>1, <1>2, <1>5, <1>6, <1>7, <1>8 DEF Phase, IInv, TypeOK
<1>10. Phase(r) = "new"
  BY <1>1, <1>2, <1>7 DEF Phase
<1>11. \A k \in Registry!Live \ R : \E c \in Occupied(rest) : k = PENDING[c].run
  BY LiveRuns DEF InRegistry, RunsOf, Occupied, Without
<1>12. \A k \in Registry!Live \ R : cid[k] # cid[r]
  <2>1. \A c \in Occupied(rest) : c \in Occupied(PENDING) /\ c # cid[r]
    BY DEF Occupied, Without, Replaced
  <2>2. \A c \in Occupied(rest) : cid[PENDING[c].run] # cid[r]
    BY <2>1 DEF IInv, SessionsAreRuns
  <2>. QED
    BY <1>11, <2>2
<1>13. Cardinality(Registry!Live \ R) < PENDING_CAPACITY
  <2>. DEFINE img == {PENDING[c].run : c \in Occupied(rest)}
              f == [c \in Occupied(rest) |-> PENDING[c].run]
  <2>1. IsFiniteSet(Occupied(rest)) /\ Cardinality(Occupied(rest)) \in Nat
    BY WithoutFits, FS_CardinalityType DEF IInv
  <2>2. IsFiniteSet(img) /\ Cardinality(img) <= Cardinality(Occupied(rest))
    <3>1. f \in Surjection(Occupied(rest), img)
      BY DEF Surjection
    <3>. QED
      BY <2>1, <3>1, FS_Surjection
  <2>3. Registry!Live \ R \subseteq img
    BY <1>11
  <2>4. /\ Cardinality(Registry!Live \ R) <= Cardinality(img)
        /\ Cardinality(Registry!Live \ R) \in Nat /\ Cardinality(img) \in Nat
    BY <2>2, <2>3, FS_Subset, FS_CardinalityType
  <2>. QED
    BY <1>1, <2>1, <2>2, <2>4
<1>14. Registry!Admit(r, R)
  <2>1. R \subseteq Registry!Live
    BY <1>2, LiveRuns
  <2>2. [k \in Reqs |-> Phase(k)]' = [Registry!Revoked(R) EXCEPT ![r] = "live"]
    BY <1>9 DEF Registry!Revoked
  <2>. QED
    <3>1. [k \in Reqs |-> Phase(k)][r] = "new"
      BY <1>10
    <3>. QED
      BY <1>1, <1>12, <1>13, <2>1, <2>2, <3>1, SameCardinality DEF Registry!Admit
<1>. QED
  BY <1>2, <1>14 DEF Registry!Next

(* Every behaviour of the service is one of LoginRegistry: a login run is      *)
(* admitted once, holds its connection's only place and ends once.             *)
THEOREM Refinement == Spec => ImplementsRegistry
<1>1. Init => Registry!Init
  BY SyncServiceAssumption
     DEF Init, Registry!Init, Phase, InRegistry, Finished, Outcomes
<1>2. IInv /\ [Next]_vars => [Registry!Next]_(Registry!vars)
  <2>. SUFFICES ASSUME IInv, [Next]_vars
                PROVE  Registry!Next \/ UNCHANGED Registry!vars
    OBVIOUS
  <2>. USE SyncServiceAssumption
  <2>1. ASSUME NEW r \in Reqs, StartRun(r) PROVE Registry!Next
    BY <2>1, StartAdmits
  <2>2. ASSUME NEW r \in Reqs, StartRunRefused(r) PROVE UNCHANGED Registry!vars
    <3>1. /\ cid' = cid /\ run' = run
          /\ \A k \in Reqs : InRegistry(k)' <=> InRegistry(k)
      BY <2>2, RefusalDeletesNothing DEF StartRunRefused, Leave, InRegistry
    <3>2. \A k \in Reqs : Finished(k)' <=> Finished(k)
      BY <2>2 DEF IInv, TypeOK, StartRunRefused, Arrives, Leave, ThreadsAreSound, Finished, Outcomes
    <3>. QED
      BY <3>1, <3>2, SamePhases
  <2>3. ASSUME NEW r \in Reqs, SubmitSms(r) PROVE Registry!Next
    <3>1. cid' = cid /\ PENDING' = Without(Expired)
      BY <2>3 DEF SubmitSms, Leave
    <3>2. run[r] = NoRun /\ run' = [run EXCEPT ![r] = PENDING[cid[r]].run]
      BY <2>3 DEF IInv, SubmitSms, Arrives, ThreadsAreSound
    <3>3. PENDING[cid[r]].run # r
      BY <2>3, EntriesApart DEF SubmitSms, Arrives, Occupied, Without, IInv, TypeOK
    <3>4. \A k \in Reqs : Finished(k)' <=> Finished(k)
      BY <2>3 DEF IInv, TypeOK, SubmitSms, Arrives, Leave, ThreadsAreSound, Finished, Outcomes
    <3>5. \A k \in Reqs : (run'[k] = k) <=> (run[k] = k)
      BY <3>2, <3>3 DEF IInv, TypeOK
    <3>. QED
      BY <3>1, <3>4, <3>5, DeletionRevokes
  <2>4. ASSUME NEW r \in Reqs, SubmitSmsRefused(r) PROVE Registry!Next
    <3>1. cid' = cid /\ PENDING' = Without(Expired) /\ run' = run
      BY <2>4 DEF SubmitSmsRefused, Leave
    <3>2. \A k \in Reqs : Finished(k)' <=> Finished(k)
      BY <2>4 DEF IInv, TypeOK, SubmitSmsRefused, Arrives, Leave, ThreadsAreSound, Finished, Outcomes
    <3>. QED
      BY <3>1, <3>2, DeletionRevokes
  <2>5. ASSUME NEW r \in Reqs, CancelRun(r) PROVE Registry!Next
    <3>1. cid' = cid /\ PENDING' = Without(Replaced(r)) /\ run' = run
      BY <2>5 DEF CancelRun, Leave
    <3>2. \A k \in Reqs : Finished(k)' <=> Finished(k)
      BY <2>5 DEF IInv, TypeOK, CancelRun, Arrives, Leave, ThreadsAreSound, Finished, Outcomes
    <3>. QED
      BY <3>1, <3>2, DeletionRevokes
  <2>6. ASSUME NEW r \in Reqs, RunParks(r) PROVE UNCHANGED Registry!vars
    <3>1. \A k \in Reqs : InRegistry(k)' <=> InRegistry(k)
      BY <2>6 DEF IInv, TypeOK, RunParks, Owned, Session, Sessions, Leave, InRegistry
    <3>2. \A k \in Reqs : Finished(k)' <=> Finished(k)
      BY <2>6 DEF IInv, TypeOK, RunParks, Leave, ThreadsAreSound, Finished, Outcomes
    <3>. QED
      BY <2>6, <3>1, <3>2, SamePhases DEF RunParks, Leave
  <2>7. ASSUME NEW r \in Reqs, NEW outcome \in Outcomes, RunEnds(r, outcome)
        PROVE  [Registry!Next]_(Registry!vars)
    <3>1. CASE Owned(r)
      <4>1. /\ PENDING' = Without({cid[r]}) /\ cid' = cid /\ run' = run
            /\ reply' = [reply EXCEPT ![r] = outcome]
            /\ reply[r] = "none"
        BY <2>7, <3>1 DEF IInv, RunEnds, Leave, ThreadsAreSound
      <4>2. InRegistry(run[r]) /\ run[r] \in Reqs
        BY <3>1 DEF IInv, TypeOK, Owned, InRegistry, Sessions
      <4>3. \A k \in Reqs : InRegistry(k)' <=> InRegistry(k) /\ k # run[r]
        <5>1. \A c \in Occupied(PENDING) : PENDING[c].run = run[r] <=> c = cid[r]
          BY <3>1, EntriesApart DEF Owned, Occupied, IInv, TypeOK
        <5>. QED
          BY <4>1, <5>1 DEF InRegistry, Without, Occupied
      <4>4. \A k \in Reqs : Finished(k)' <=> Finished(k) \/ k = run[r]
        BY <4>1 DEF Finished, Outcomes, IInv, TypeOK
      <4>5. \A k \in Reqs : Phase(k)' = IF k = run[r] THEN "finished" ELSE Phase(k)
        BY <4>1, <4>3, <4>4 DEF Phase
      <4>6. Registry!Finish(run[r])
        BY <4>1, <4>2, <4>5 DEF Registry!Finish, Phase
      <4>. QED
        BY <4>2, <4>6 DEF Registry!Next
    <3>2. CASE ~Owned(r)
      <4>1. PENDING' = PENDING /\ cid' = cid /\ run' = run
        BY <2>7, <3>2 DEF RunEnds, Leave
      <4>2. \A k \in Reqs : Finished(k)' <=> Finished(k)
        BY <2>7, <3>2 DEF IInv, TypeOK, RunEnds, Leave, ThreadsAreSound, Finished, Outcomes
      <4>. QED
        BY <4>1, <4>2, SamePhases DEF InRegistry
    <3>. QED
      BY <3>1, <3>2
  <2>8. ASSUME NEW r \in Reqs, RunCrashes(r) PROVE UNCHANGED Registry!vars
    <3>1. \A k \in Reqs : Finished(k)' <=> Finished(k)
      BY <2>8 DEF IInv, TypeOK, RunCrashes, Leave, ThreadsAreSound, Finished, Outcomes
    <3>. QED
      BY <2>8, <3>1, SamePhases DEF RunCrashes, Leave, InRegistry
  <2>9. ASSUME NEW r \in Reqs, CloseConnector(r) \/ Proceed(r) PROVE UNCHANGED Registry!vars
    BY <2>9, SamePhases DEF CloseConnector, Proceed, InRegistry, Finished
  <2>10. CASE Tick \/ UNCHANGED vars
    BY <2>10, SamePhases DEF Tick, vars, InRegistry, Finished
  <2>11. CASE Shutdown
    <3>1. PENDING' = Without(Conns) /\ cid' = cid /\ run' = run /\ reply' = reply
      BY <2>11 DEF Shutdown, Without
    <3>. QED
      BY <3>1, DeletionRevokes DEF Finished
  <2>. QED
    BY <2>1, <2>2, <2>3, <2>4, <2>5, <2>6, <2>7, <2>8, <2>9, <2>10, <2>11
       DEF Next, Request, Step, Stopped
<1>. QED
  BY <1>1, <1>2, InvHolds, PTL DEF Spec, ImplementsRegistry, Registry!Spec
=============================================================================
