-------------------------- MODULE MCTransferLedger --------------------------
(* TransferLedger on small instances.                                      *)
EXTENDS TransferLedger, TLC

\* Two kopecks are the smallest amount that can be split.
Cents == {-2, 2}

\* Bound: a third transaction and a dismissed pair, or two categories of any
\* types, not both.
FewRows ==
    \/ transactions[MaxTx] = NULL /\ rejections = {}
    \/ \A c \in Cats : categories[c] # NULL => c = 1 /\ categories[c] = "expense"

\* Bound: two transfer ids or two categories, not both.
FewIds == Fresh # {} \/ \A c \in Cats : categories[c] # NULL => c = 1

Symmetry == Permutations(Accounts) \cup Permutations(Uuids) \cup Permutations(Threads)
=============================================================================
