--------------------------- MODULE LoginRegistry ---------------------------
(***************************************************************************)
(* What the registry of parked bank logins promises, without threads,      *)
(* locks, deadlines or HTTP: a login run is admitted for one connection,   *)
(* holds the connection's only place, and ends exactly once, either        *)
(* finished by its own request or revoked by somebody else (a newer login, *)
(* a cancel, the deadline, the service stopping).  SyncService implements  *)
(* this module: see Registry in SyncService.tla.                           *)
(***************************************************************************)
EXTENDS Naturals, FiniteSets

CONSTANTS
    Runs,      \* login runs, each named by the request that starts it
    Conns,     \* bank connections
    Capacity   \* how many logins may be live at once

VARIABLES
    target,    \* target[k]: the connection run k is for
    phase      \* phase[k]: how far run k has come

vars == <<target, phase>>

Live == {k \in Runs : phase[k] = "live"}

Revoked(R) == [k \in Runs |-> IF k \in R THEN "revoked" ELSE phase[k]]

Init ==
    /\ target \in [Runs -> Conns]
    /\ phase = [k \in Runs |-> "new"]

\* Run k takes its connection's place; the runs in R, among them any holder
\* of that place, are revoked in the same step.
Admit(k, R) ==
    /\ phase[k] = "new"
    /\ R \subseteq Live
    /\ \A j \in Live \ R : target[j] # target[k]
    /\ Cardinality(Live \ R) < Capacity
    /\ phase' = [Revoked(R) EXCEPT ![k] = "live"]
    /\ UNCHANGED target

Finish(k) ==
    /\ phase[k] = "live"
    /\ phase' = [phase EXCEPT ![k] = "finished"]
    /\ UNCHANGED target

Revoke(R) ==
    /\ R \subseteq Live
    /\ phase' = Revoked(R)
    /\ UNCHANGED target

Next ==
    \/ \E k \in Runs, R \in SUBSET Runs : Admit(k, R)
    \/ \E k \in Runs : Finish(k)
    \/ \E R \in SUBSET Runs : Revoke(R)

Spec == Init /\ [][Next]_vars

-----------------------------------------------------------------------------
TypeOK ==
    /\ target \in [Runs -> Conns]
    /\ phase \in [Runs -> {"new", "live", "finished", "revoked"}]

\* A connection has one live login at most, and there are never more live
\* logins than the service has room for.
Exclusive ==
    /\ \A j, k \in Live : target[j] = target[k] => j = k
    /\ IsFiniteSet(Live) /\ Cardinality(Live) <= Capacity

\* A login that ended, finished or revoked, has ended for good and the way it
\* ended stands: nobody parks, finishes or revokes it again.
EndedForGood ==
    [][\A k \in Runs : phase[k] \in {"finished", "revoked"} => phase'[k] = phase[k]]_vars
=============================================================================
