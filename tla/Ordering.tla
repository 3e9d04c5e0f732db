------------------------------ MODULE Ordering ------------------------------
(***************************************************************************)
(* Sorting, as the web client sorts: by a strict total order, mostly by    *)
(* the position that was saved, then by id.  And filtering.                *)
(***************************************************************************)
EXTENDS Integers, Sequences, FiniteSets, TLC

\* The one at i is the one with i - 1 before it.
Sorted(S, Less(_, _)) ==
    [i \in 1 .. Cardinality(S) |-> CHOOSE x \in S : Cardinality({y \in S : Less(y, x)}) = i - 1]

Ascending(S) == Sorted(S, <)

\* What of a sequence is at some places, in its order.
Picked(seq, places) == LET at == Ascending(places) IN [n \in DOMAIN at |-> seq[at[n]]]

Filtered(seq, Kept(_)) == Picked(seq, {i \in DOMAIN seq : Kept(seq[i])})

BySortThenId(items, a, b) ==
    items[a].sort < items[b].sort \/ (items[a].sort = items[b].sort /\ a < b)
=============================================================================
