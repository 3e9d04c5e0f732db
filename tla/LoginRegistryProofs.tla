------------------------ MODULE LoginRegistryProofs ------------------------
(***************************************************************************)
(* What the abstract registry guarantees by itself.  SyncService inherits  *)
(* it through its refinement theorem.                                      *)
(***************************************************************************)
EXTENDS LoginRegistry, FiniteSetTheorems, TLAPS

LRInv == TypeOK /\ Exclusive

LEMMA InitLRInv ==
    ASSUME Capacity \in Nat
    PROVE  Init => LRInv
<1> SUFFICES ASSUME Init PROVE LRInv
  OBVIOUS
<1>1. Live = {}
  BY DEF Init, Live
<1>2. IsFiniteSet(Live) /\ Cardinality(Live) = 0
  BY <1>1, FS_EmptySet
<1> QED
  BY <1>1, <1>2 DEF Init, LRInv, TypeOK, Exclusive

\* Runs that only leave Live leave it exclusive (_expire_pending, _release_if_owned).
LEMMA FewerLive ==
    ASSUME LRInv, Capacity \in Nat, Live' \subseteq Live, UNCHANGED target
    PROVE  Exclusive'
<1>1. IsFiniteSet(Live) /\ Cardinality(Live) <= Capacity
  BY DEF LRInv, Exclusive
<1>2. /\ IsFiniteSet(Live')
      /\ Cardinality(Live') <= Cardinality(Live)
      /\ Cardinality(Live) \in Nat /\ Cardinality(Live') \in Nat
  BY <1>1, FS_Subset, FS_CardinalityType
<1>3. \A j, k \in Live' : target'[j] = target'[k] => j = k
  BY DEF LRInv, Exclusive
<1> QED
  BY <1>1, <1>2, <1>3 DEF Exclusive

\* Admitting a run into the place it or nobody holds (_reserve).
LEMMA AdmitKeeps ==
    ASSUME LRInv, Capacity \in Nat, NEW k \in Runs, NEW R \in SUBSET Runs, Admit(k, R)
    PROVE  LRInv'
<1> DEFINE Rest == Live \ R
<1>1. phase' \in [Runs -> {"new", "live", "finished", "revoked"}] /\ target' = target
  BY DEF Admit, Revoked, LRInv, TypeOK
<1>2. Live' = Rest \cup {k}
  BY DEF Admit, Revoked, Live, LRInv, TypeOK
<1>3. k \notin Rest
  BY DEF Admit, Live
<1>4. IsFiniteSet(Live) /\ IsFiniteSet(Rest)
  BY FS_Subset DEF LRInv, Exclusive
<1>5. Cardinality(Rest) \in Nat /\ Cardinality(Rest) < Capacity
  BY <1>4, FS_CardinalityType DEF Admit
<1>6. IsFiniteSet(Live') /\ Cardinality(Live') = Cardinality(Rest) + 1
  BY <1>2, <1>3, <1>4, FS_AddElement
<1>7. \A i, j \in Live' : target'[i] = target'[j] => i = j
  BY <1>1, <1>2 DEF Admit, LRInv, Exclusive
<1> HIDE DEF Rest
<1>8. Cardinality(Live') <= Capacity
  BY <1>5, <1>6
<1> QED
  BY <1>1, <1>6, <1>7, <1>8 DEF LRInv, TypeOK, Exclusive

LEMMA NextLRInv ==
    ASSUME Capacity \in Nat
    PROVE  LRInv /\ [Next]_vars => LRInv'
<1> SUFFICES ASSUME LRInv, [Next]_vars PROVE LRInv'
  OBVIOUS
<1>1. ASSUME NEW k \in Runs, NEW R \in SUBSET Runs, Admit(k, R) PROVE LRInv'
  BY <1>1, AdmitKeeps
<1>2. ASSUME NEW k \in Runs, Finish(k) PROVE LRInv'
  <2>1. TypeOK' /\ Live' \subseteq Live /\ UNCHANGED target
    BY <1>2 DEF Finish, Live, LRInv, TypeOK
  <2> QED
    BY <2>1, FewerLive DEF LRInv
<1>3. ASSUME NEW R \in SUBSET Runs, Revoke(R) PROVE LRInv'
  <2>1. TypeOK' /\ Live' \subseteq Live /\ UNCHANGED target
    BY <1>3 DEF Revoke, Revoked, Live, LRInv, TypeOK
  <2> QED
    BY <2>1, FewerLive DEF LRInv
<1>4. CASE UNCHANGED vars
  BY <1>4 DEF vars, LRInv, TypeOK, Exclusive, Live
<1> QED
  BY <1>1, <1>2, <1>3, <1>4 DEF Next

LEMMA RegistryInv ==
    ASSUME Capacity \in Nat
    PROVE  Spec => []LRInv
BY InitLRInv, NextLRInv, PTL DEF Spec

\* One live login per connection, and no more than the service has room for
\* (PENDING is keyed by connection; _reserve counts it).
THEOREM ExclusiveHolds ==
    ASSUME Capacity \in Nat
    PROVE  Spec => []Exclusive
<1>1. LRInv => Exclusive
  BY DEF LRInv
<1> QED
  BY <1>1, RegistryInv, PTL

\* A login that ended stays ended, and the way it ended stands.
THEOREM EndedStays ==
    ASSUME Capacity \in Nat
    PROVE  Spec => EndedForGood
<1>1. LRInv /\ [Next]_vars
        => [\A k \in Runs : phase[k] \in {"finished", "revoked"} => phase'[k] = phase[k]]_vars
  BY DEF LRInv, TypeOK, Next, Admit, Finish, Revoke, Revoked, Live, vars
<1> QED
  BY <1>1, RegistryInv, PTL DEF Spec, EndedForGood
=============================================================================
