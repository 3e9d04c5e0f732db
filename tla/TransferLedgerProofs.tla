------------------------ MODULE TransferLedgerProofs ------------------------
(***************************************************************************)
(* What holds of TransferLedger, for ledgers of any size.                  *)
(*                                                                         *)
(* However many requests overlap, rows keep their types, since what a      *)
(* thread remembers may be stale but still has the fields of a row, the    *)
(* parts of a split add up to its amount, and no transfer is changed or    *)
(* robbed of a leg by another merge.                                       *)
(*                                                                         *)
(* As long as requests do not overlap, the two tables agree on the         *)
(* transfers.  The lemmas say what the three building blocks of the        *)
(* handlers, LinkAll, Detached and DeleteRows, do to tables that agree;    *)
(* the step theorem then has one case per handler.  Each row is then       *)
(* counted once and filed under a category of its sign.  The first of      *)
(* these is inductive together with that agreement (a leg restored by      *)
(* split() still points to its transfer, so it is no split) and with the   *)
(* two categories a merge has read, which must still exist when it moves   *)
(* the parts.                                                              *)
(***************************************************************************)
EXTENDS TransferLedger, FoldLemmas

TxTable == [Txs -> Rows \cup {NULL}]
TransferTable == [Uuids -> Transfers \cup {NULL}]

\* The transfers table once the rows in D are deleted.
Less(D) == [x \in Uuids |-> IF x \in D THEN NULL ELSE transfers[x]]

\* A job is of the kind its op says (locals of the handlers of several steps).
LEMMA JobKinds ==
    ASSUME NEW j \in Jobs
    PROVE  /\ j.op = "create" => /\ j.account \in Accounts /\ j.amount \in Amounts
                                 /\ j.category \in Cats \cup {NULL}
           /\ j.op = "merge" => j.from \in Cats /\ j.into \in Cats
           /\ j.op = "detach" => j.tx \in Txs /\ j.id \in Uuids
           /\ j.op = "remove" => /\ j.tx \in Txs
                                 /\ j.found \in Uuids \cup {NULL}
                                 /\ j.row \in Transfers \cup {NULL}
           /\ j.op = "split" => j.found \in Uuids /\ j.row \in Transfers
           /\ j.op = "detect" => j.pairs \subseteq Pairs
BY DEF Jobs

\* The legs of a transfer are rows of the table they point from, and point to
\* one transfer only (schema.sql, UNIQUE on both legs).
LEMMA OneTransfer ==
    ASSUME NEW T, NEW X, Agree(T, X),
           NEW t \in Txs, NEW x \in Uuids, NEW y \in Uuids,
           X[x] # NULL, IsLeg(t, X[x]), X[y] # NULL, IsLeg(t, X[y])
    PROVE  x = y /\ T[t] # NULL /\ T[t].transfer_id = x
BY DEF Agree

\* split() on the transfers in D: the two tables agree again (split).
LEMMA DetachedAgrees ==
    ASSUME TypeOK, PointersAgree,
           NEW D \in SUBSET Uuids, \A x \in D : transfers[x] # NULL
    PROVE  LET R == {transfers[x] : x \in D} IN
           Detached(R) \in TxTable /\ Agree(Detached(R), Less(D))
<1> DEFINE R == {transfers[x] : x \in D}
           T == Detached(R)
           Hit(t) == transactions[t] # NULL /\ \E r \in R : IsLeg(t, r)
<1>1. R \subseteq Transfers
  BY DEF TypeOK
<1>2. ASSUME NEW t \in Txs, Hit(t)
      PROVE  T[t] \in Rows /\ T[t].transfer_id = NULL
  <2> DEFINE r == CHOOSE r \in R : IsLeg(t, r)
             c == SavedCategory(t, r)
  <2>1. r \in Transfers
    BY <1>1, <1>2
  <2>2. c \in Cats \cup {NULL}
    BY <2>1 DEF SavedCategory, Transfers
  <2>3. transactions[t] \in Rows
    BY <1>2 DEF TypeOK
  <2>4. T[t] = [transactions[t] EXCEPT !.transfer_id = NULL, !.category_id = c]
    BY <1>2 DEF Detached
  <2> HIDE DEF c, T
  <2> QED
    BY <2>2, <2>3, <2>4 DEF Rows
<1>3. ASSUME NEW t \in Txs, ~Hit(t)
      PROVE  T[t] = transactions[t]
  BY <1>3 DEF Detached
<1>4. T \in TxTable
  <2>1. T = [t \in Txs |-> T[t]]
    BY DEF Detached
  <2>2. \A t \in Txs : T[t] \in Rows \cup {NULL}
    <3> SUFFICES ASSUME NEW t \in Txs PROVE T[t] \in Rows \cup {NULL}
      OBVIOUS
    <3>1. CASE Hit(t)
      BY <3>1, <1>2
    <3>2. CASE ~Hit(t)
      <4> HIDE DEF Hit, T
      <4> QED
        BY <3>2, <1>3 DEF TypeOK
    <3> QED
      BY <3>1, <3>2
  <2> HIDE DEF T
  <2> QED
    BY <2>1, <2>2 DEF TxTable
<1>5. Agree(T, Less(D))
  <2> SUFFICES ASSUME NEW x \in Uuids
               PROVE  /\ \A t \in Txs : (T[t] # NULL /\ T[t].transfer_id = x)
                                           <=> (Less(D)[x] # NULL /\ IsLeg(t, Less(D)[x]))
                      /\ Less(D)[x] # NULL => Less(D)[x].out_tx_id # Less(D)[x].in_tx_id
    BY DEF Agree
  <2>1. CASE x \in D
    <3>1. Less(D)[x] = NULL
      BY <2>1 DEF Less
    <3>2. ASSUME NEW t \in Txs, T[t] # NULL, T[t].transfer_id = x PROVE FALSE
      <4>1. ~Hit(t)
        BY <3>2, <1>2, TransferLedgerAssumption
      <4>2. transactions[t] # NULL /\ transactions[t].transfer_id = x
        BY <3>2, <4>1, <1>3
      <4>3. IsLeg(t, transfers[x])
        BY <4>2 DEF PointersAgree, Agree
      <4> QED
        BY <4>1, <4>2, <4>3, <2>1
    <3> QED
      BY <3>1, <3>2
  <2>2. CASE x \notin D
    <3>1. Less(D)[x] = transfers[x]
      BY <2>2 DEF Less
    <3>2. ASSUME NEW t \in Txs
          PROVE  (T[t] # NULL /\ T[t].transfer_id = x)
                   <=> (transfers[x] # NULL /\ IsLeg(t, transfers[x]))
      <4>1. CASE Hit(t)
        <5>1. PICK y \in D : IsLeg(t, transfers[y])
          BY <4>1
        <5>2. ~(transfers[x] # NULL /\ IsLeg(t, transfers[x]))
          BY <5>1, <2>2, OneTransfer DEF PointersAgree
        <5> QED
          BY <4>1, <5>2, <1>2, TransferLedgerAssumption
      <4>2. CASE ~Hit(t)
        BY <4>2, <1>3 DEF PointersAgree, Agree
      <4> QED
        BY <4>1, <4>2
    <3> QED
      BY <3>1, <3>2 DEF PointersAgree, Agree
  <2> QED
    BY <2>1, <2>2
<1> QED
  BY <1>4, <1>5

\* Deleting rows, with the cascades, from tables that agree once the transfers
\* in D are gone, and where the legs left are deleted together (ON DELETE
\* CASCADE of transfers and transfer_rejections).
LEMMA DeletionAgrees ==
    ASSUME TypeOK, NEW T \in TxTable, NEW D \in SUBSET Uuids, NEW S \in SUBSET Txs,
           Agree(T, Less(D)), DeleteRows(T, D, S),
           \A x \in TransfersOf(S) \ D : \A t \in Txs : IsLeg(t, transfers[x]) => t \in S
    PROVE  /\ transactions' \in TxTable
           /\ transfers' \in TransferTable
           /\ rejections' \subseteq Pairs
           /\ PointersAgree'
<1>1. transactions' \in TxTable
  BY DEF DeleteRows, WithoutRows, TxTable
<1>2. transfers' \in TransferTable
  BY DEF DeleteRows, TransferTable, TypeOK
<1>3. rejections' \subseteq Pairs
  BY DEF DeleteRows, TypeOK
<1>4. \A t \in Txs : transactions'[t] = IF t \in S THEN NULL ELSE T[t]
  BY DEF DeleteRows, WithoutRows
<1>5. \A x \in Uuids : transfers'[x] = IF x \in D \cup TransfersOf(S) THEN NULL ELSE transfers[x]
  BY DEF DeleteRows
<1>6. ASSUME NEW x \in Uuids
      PROVE  /\ \A t \in Txs : (transactions'[t] # NULL /\ transactions'[t].transfer_id = x)
                                  <=> (transfers'[x] # NULL /\ IsLeg(t, transfers'[x]))
             /\ transfers'[x] # NULL => transfers'[x].out_tx_id # transfers'[x].in_tx_id
  <2>0. /\ \A t \in Txs : (T[t] # NULL /\ T[t].transfer_id = x)
                             <=> (Less(D)[x] # NULL /\ IsLeg(t, Less(D)[x]))
        /\ Less(D)[x] # NULL => Less(D)[x].out_tx_id # Less(D)[x].in_tx_id
    BY DEF Agree
  <2>1. CASE x \in D
    BY <2>0, <2>1, <1>4, <1>5 DEF Less
  <2>2. CASE x \notin D /\ x \in TransfersOf(S)
    <3>1. transfers'[x] = NULL /\ Less(D)[x] = transfers[x]
      BY <2>2, <1>5 DEF Less
    <3>2. \A t \in Txs : IsLeg(t, transfers[x]) => t \in S
      BY <2>2
    <3> QED
      BY <3>1, <3>2, <2>0, <1>4
  <2>3. CASE x \notin D /\ x \notin TransfersOf(S)
    <3>1. transfers'[x] = transfers[x] /\ Less(D)[x] = transfers[x]
      BY <2>3, <1>5 DEF Less
    <3>2. transfers[x] # NULL => \A t \in S : ~IsLeg(t, transfers[x])
      BY <2>3 DEF TransfersOf
    <3> QED
      BY <3>1, <3>2, <2>0, <1>4
  <2> QED
    BY <2>1, <2>2, <2>3
<1>7. PointersAgree'
  BY <1>6 DEF PointersAgree, Agree
<1> QED
  BY <1>1, <1>2, <1>3, <1>7

\* Merging pairs that are linkable and share no transaction, under new ids,
\* keeps the tables in agreement (link).
LEMMA LinkAgrees ==
    ASSUME TypeOK, NEW T \in TxTable, Agree(T, transfers),
           NEW P \in SUBSET Pairs, Disjoint(P),
           \A q \in P : Linkable(T, q[1], q[2]),
           NEW id \in [P -> Uuids], \A q \in P : transfers[id[q]] = NULL,
           \A q, r \in P : id[q] = id[r] => q = r,
           LinkAll(T, P, id)
    PROVE  /\ transactions' \in TxTable
           /\ transfers' \in TransferTable
           /\ rejections' \subseteq Pairs
           /\ PointersAgree'
<1> DEFINE In(t, q) == t \in {q[1], q[2]}
<1>0. \A q \in P : /\ q[1] \in Txs /\ q[2] \in Txs
                   /\ T[q[1]] \in Rows /\ T[q[2]] \in Rows
                   /\ T[q[1]].transfer_id = NULL /\ T[q[2]].transfer_id = NULL
                   /\ q[1] # q[2]
  <2> SUFFICES ASSUME NEW q \in P
               PROVE  /\ q[1] \in Txs /\ q[2] \in Txs
                      /\ T[q[1]] \in Rows /\ T[q[2]] \in Rows
                      /\ T[q[1]].transfer_id = NULL /\ T[q[2]].transfer_id = NULL
                      /\ q[1] # q[2]
    OBVIOUS
  <2>1. q[1] \in Txs /\ q[2] \in Txs
    BY DEF Pairs
  <2>2. /\ T[q[1]] # NULL /\ T[q[2]] # NULL
        /\ T[q[1]].account_id # T[q[2]].account_id
        /\ T[q[1]].transfer_id = NULL /\ T[q[2]].transfer_id = NULL
    BY DEF Linkable
  <2> QED
    BY <2>1, <2>2 DEF TxTable
<1>1. ASSUME NEW t \in Txs, NEW q \in P, In(t, q)
      PROVE  /\ transactions'[t] \in Rows /\ transactions'[t].transfer_id = id[q]
             /\ T[t] # NULL /\ T[t].transfer_id = NULL
  <2>1. (CHOOSE r \in P : In(t, r)) = q
    <3>1. \A r \in P : In(t, r) => r = q
      BY <1>1 DEF Disjoint
    <3> QED
      BY <1>1, <3>1
  <2>2. transactions'[t] = [T[t] EXCEPT !.category_id = NULL, !.transfer_id = id[q]]
    BY <1>1, <2>1 DEF LinkAll
  <2>3. T[t] \in Rows /\ T[t].transfer_id = NULL
    BY <1>0, <1>1
  <2> QED
    BY <2>2, <2>3, TransferLedgerAssumption DEF Rows
<1>2. ASSUME NEW t \in Txs, \A q \in P : ~In(t, q)
      PROVE  transactions'[t] = T[t]
  BY <1>2 DEF LinkAll
<1>3. ASSUME NEW q \in P
      PROVE  LET x == transfers'[id[q]] IN
             x \in Transfers /\ x.out_tx_id = q[1] /\ x.in_tx_id = q[2]
  <2>1. (CHOOSE r \in P : id[r] = id[q]) = q
    OBVIOUS
  <2>2. transfers'[id[q]] = [out_tx_id |-> q[1], in_tx_id |-> q[2],
                             out_category_id |-> T[q[1]].category_id,
                             in_category_id |-> T[q[2]].category_id]
    BY <2>1 DEF LinkAll
  <2>3. T[q[1]].category_id \in Cats \cup {NULL} /\ T[q[2]].category_id \in Cats \cup {NULL}
    BY <1>0 DEF Rows
  <2> QED
    BY <2>2, <2>3, <1>0 DEF Transfers
<1>4. ASSUME NEW x \in Uuids, \A q \in P : id[q] # x
      PROVE  transfers'[x] = transfers[x]
  BY <1>4 DEF LinkAll
<1>5. transactions' \in TxTable
  <2>1. transactions' = [t \in Txs |-> transactions'[t]]
    BY DEF LinkAll
  <2>2. \A t \in Txs : transactions'[t] \in Rows \cup {NULL}
    BY <1>1, <1>2 DEF TxTable
  <2> QED
    BY <2>1, <2>2 DEF TxTable
<1>6. transfers' \in TransferTable
  <2>1. transfers' = [x \in Uuids |-> transfers'[x]]
    BY DEF LinkAll
  <2>2. \A x \in Uuids : transfers'[x] \in Transfers \cup {NULL}
    BY <1>3, <1>4 DEF TypeOK
  <2> QED
    BY <2>1, <2>2 DEF TransferTable
<1>7. rejections' \subseteq Pairs
  BY DEF LinkAll, TypeOK
<1>8. ASSUME NEW x \in Uuids
      PROVE  /\ \A t \in Txs : (transactions'[t] # NULL /\ transactions'[t].transfer_id = x)
                                  <=> (transfers'[x] # NULL /\ IsLeg(t, transfers'[x]))
             /\ transfers'[x] # NULL => transfers'[x].out_tx_id # transfers'[x].in_tx_id
  <2>1. CASE \E q \in P : id[q] = x
    <3>1. PICK q \in P : id[q] = x
      BY <2>1
    <3>2. transfers'[x] # NULL /\ transfers'[x].out_tx_id = q[1] /\ transfers'[x].in_tx_id = q[2]
      BY <3>1, <1>3, TransferLedgerAssumption
    <3>3. ASSUME NEW t \in Txs
          PROVE  (transactions'[t] # NULL /\ transactions'[t].transfer_id = x) <=> In(t, q)
      <4>1. CASE \E r \in P : In(t, r)
        <5>1. PICK r \in P : In(t, r)
          BY <4>1
        <5>2. transactions'[t] # NULL /\ transactions'[t].transfer_id = id[r]
          BY <5>1, <1>1, TransferLedgerAssumption
        <5>3. In(t, q) <=> r = q
          BY <5>1 DEF Disjoint
        <5> QED
          BY <5>2, <5>3, <3>1
      <4>2. CASE \A r \in P : ~In(t, r)
        <5>1. transfers[x] = NULL
          BY <3>1
        <5> QED
          BY <4>2, <5>1, <1>2 DEF Agree
      <4> QED
        BY <4>1, <4>2
    <3> QED
      BY <3>2, <3>3, <1>0 DEF IsLeg
  <2>2. CASE \A q \in P : id[q] # x
    <3>1. transfers'[x] = transfers[x]
      BY <2>2, <1>4
    <3>2. ASSUME NEW t \in Txs
          PROVE  (transactions'[t] # NULL /\ transactions'[t].transfer_id = x)
                   <=> (transfers[x] # NULL /\ IsLeg(t, transfers[x]))
      <4>1. CASE \E r \in P : In(t, r)
        <5>1. PICK r \in P : In(t, r)
          BY <4>1
        <5>2. transactions'[t].transfer_id = id[r] /\ T[t].transfer_id = NULL
          BY <5>1, <1>1
        <5> QED
          BY <5>2, <2>2, TransferLedgerAssumption DEF Agree
      <4>2. CASE \A r \in P : ~In(t, r)
        BY <4>2, <1>2 DEF Agree
      <4> QED
        BY <4>1, <4>2
    <3> QED
      BY <3>1, <3>2 DEF Agree
  <2> QED
    BY <2>1, <2>2
<1>9. PointersAgree'
  BY <1>8 DEF PointersAgree, Agree
<1> QED
  BY <1>5, <1>6, <1>7, <1>9

-----------------------------------------------------------------------------
(* The handlers of one step.                                               *)

TablesOK ==
    /\ transactions \in TxTable
    /\ transfers \in TransferTable
    /\ rejections \subseteq Pairs
    /\ categories \in [Cats -> Types \cup {NULL}]
    /\ PointersAgree

Pointer(T, t) == IF T[t] = NULL THEN NULL ELSE T[t].transfer_id

\* Tables agree as long as neither the transfers nor the pointers of the
\* transactions change (create, patch, splits, categorize, merge).
LEMMA SamePointers ==
    ASSUME NEW T, NEW U, NEW X, Agree(T, X), \A t \in Txs : Pointer(U, t) = Pointer(T, t)
    PROVE  Agree(U, X)
<1>1. \A t \in Txs, x \in Uuids :
          (U[t] # NULL /\ U[t].transfer_id = x) <=> (T[t] # NULL /\ T[t].transfer_id = x)
  BY TransferLedgerAssumption DEF Pointer
<1> QED
  BY <1>1 DEF Agree

LEMMA PatchTransactionKeeps ==
    ASSUME IInv, NEW t \in Txs, NEW amount \in Amounts \cup {NULL},
           NEW c \in Cats \cup {0, NULL}, NEW account \in Accounts \cup {NULL},
           PatchTransaction(t, amount, c, account)
    PROVE  TablesOK'
<1> DEFINE row == transactions[t]
           a == IF amount = NULL THEN row.amount ELSE amount
           d == IF c = NULL THEN row.category_id ELSE IF c = 0 THEN NULL ELSE c
           b == IF account = NULL THEN row.account_id ELSE account
           new == [row EXCEPT !.amount = a, !.category_id = d, !.account_id = b]
<1>1. row \in Rows
  BY DEF PatchTransaction, IInv, TypeOK
<1>2. a \in Int /\ d \in Cats \cup {NULL} /\ b \in Accounts
  BY <1>1, TransferLedgerAssumption DEF Rows
<1>3. transactions' = [transactions EXCEPT ![t] = new]
  BY DEF PatchTransaction
<1>4. new \in Rows /\ new.transfer_id = row.transfer_id
  <2> HIDE DEF a, b, d, row
  <2> QED
    BY <1>1, <1>2 DEF Rows
<1>5. transactions' \in TxTable
  <2> HIDE DEF new
  <2> QED
    BY <1>3, <1>4 DEF IInv, TypeOK, TxTable
<1>6. \A u \in Txs : Pointer(transactions', u) = Pointer(transactions, u)
  <2> HIDE DEF new
  <2> QED
    BY <1>1, <1>3, <1>4, TransferLedgerAssumption DEF Pointer, IInv, TypeOK
<1>7. UNCHANGED <<transfers, rejections, categories>>
  BY DEF PatchTransaction
<1>8. Agree(transactions', transfers)
  BY <1>6, SamePointers DEF IInv, PointersAgree
<1> QED
  BY <1>5, <1>7, <1>8 DEF IInv, TypeOK, TransferTable, TablesOK, PointersAgree

LEMMA ReplaceSplitsKeeps ==
    ASSUME IInv, NEW t \in Txs, transactions[t] # NULL,
           NEW parts \in Divisions(transactions[t].amount), ReplaceSplits(t, parts)
    PROVE  TablesOK'
<1> DEFINE row == transactions[t]
           d == IF parts = NoSplits THEN row.category_id ELSE NULL
           new == [row EXCEPT !.splits = parts, !.category_id = d]
<1>1. row \in Rows
  BY DEF IInv, TypeOK
<1>2. parts \in [Cats -> Int] /\ d \in Cats \cup {NULL}
  <2>1. row.amount \in Int
    BY <1>1 DEF Rows
  <2>2. \A n \in row.amount..0 : n \in Int
    BY <2>1
  <2>3. \A n \in 0..row.amount : n \in Int
    BY <2>1
  <2> QED
    BY <1>1, <2>2, <2>3 DEF Divisions, Rows
<1>3. transactions' = [transactions EXCEPT ![t] = new]
  BY DEF ReplaceSplits
<1>4. new \in Rows /\ new.transfer_id = row.transfer_id
  <2> HIDE DEF d, row
  <2> QED
    BY <1>1, <1>2 DEF Rows
<1>5. transactions' \in TxTable
  <2> HIDE DEF new
  <2> QED
    BY <1>3, <1>4 DEF IInv, TypeOK, TxTable
<1>6. \A u \in Txs : Pointer(transactions', u) = Pointer(transactions, u)
  <2> HIDE DEF new
  <2> QED
    BY <1>1, <1>3, <1>4, TransferLedgerAssumption DEF Pointer, IInv, TypeOK
<1>7. UNCHANGED <<transfers, rejections, categories>>
  BY DEF ReplaceSplits
<1>8. Agree(transactions', transfers)
  BY <1>6, SamePointers DEF IInv, PointersAgree
<1> QED
  BY <1>5, <1>7, <1>8 DEF IInv, TypeOK, TransferTable, TablesOK, PointersAgree

\* Undoing the transfers in D and deleting the rows in S, none of which is a
\* leg of another transfer.
LEMMA DetachAndDeleteKeeps ==
    ASSUME IInv, NEW D \in SUBSET Uuids, \A x \in D : transfers[x] # NULL,
           NEW S \in SUBSET Txs, TransfersOf(S) \subseteq D,
           DeleteRows(Detached({transfers[x] : x \in D}), D, S), UNCHANGED categories
    PROVE  TablesOK'
<1> DEFINE T == Detached({transfers[x] : x \in D})
<1>1. T \in TxTable /\ Agree(T, Less(D))
  BY DetachedAgrees DEF IInv
<1>2. DeleteRows(T, D, S)
  OBVIOUS
<1> HIDE DEF T
<1> QED
  BY <1>1, <1>2, DeletionAgrees DEF IInv, TypeOK, TablesOK

LEMMA BulkDeleteKeeps ==
    ASSUME IInv, NEW S \in SUBSET Txs, BulkDelete(S)
    PROVE  TablesOK'
<1>1. TransfersOf(S) \subseteq Uuids /\ \A x \in TransfersOf(S) : transfers[x] # NULL
  BY DEF TransfersOf
<1> QED
  BY <1>1, DetachAndDeleteKeeps DEF BulkDelete

LEMMA BulkCategorizeKeeps ==
    ASSUME IInv, NEW S \in SUBSET Txs, NEW c \in Cats \cup {NULL}, BulkCategorize(S, c)
    PROVE  TablesOK'
<1>1. \A t \in Txs : transactions'[t] =
          IF t \in S THEN [transactions[t] EXCEPT !.category_id = c] ELSE transactions[t]
  BY DEF BulkCategorize
<1>2. \A t \in S : transactions[t] \in Rows /\ transactions[t] # NULL
  BY DEF BulkCategorize, IInv, TypeOK
<1>3. \A t \in S : /\ transactions'[t] \in Rows
                   /\ transactions'[t].transfer_id = transactions[t].transfer_id
  BY <1>1, <1>2 DEF Rows
<1>4. transactions' \in TxTable
  <2>1. transactions' = [t \in Txs |-> transactions'[t]]
    BY DEF BulkCategorize
  <2>2. \A t \in Txs : transactions'[t] \in Rows \cup {NULL}
    BY <1>1, <1>3 DEF IInv, TypeOK
  <2> QED
    BY <2>1, <2>2 DEF TxTable
<1>5. \A t \in Txs : Pointer(transactions', t) = Pointer(transactions, t)
  BY <1>1, <1>2, <1>3, TransferLedgerAssumption DEF Pointer
<1>6. UNCHANGED <<transfers, rejections, categories>>
  BY DEF BulkCategorize
<1>7. Agree(transactions', transfers)
  BY <1>5, SamePointers DEF IInv, PointersAgree
<1> QED
  BY <1>4, <1>6, <1>7 DEF IInv, TypeOK, TransferTable, TablesOK, PointersAgree

LEMMA LinkKeeps ==
    ASSUME IInv, NEW o \in Txs, NEW i \in Txs, NEW x \in Uuids, Link(o, i, x)
    PROVE  TablesOK'
<1> DEFINE P == {<<o, i>>}
           id == [q \in P |-> x]
<1>1. P \in SUBSET Pairs /\ Disjoint(P) /\ id \in [P -> Uuids]
  BY DEF Pairs, Disjoint
<1>2. transfers[x] = NULL
  BY DEF Link, Fresh, Known
<1>3. \A q \in P : Linkable(transactions, q[1], q[2]) /\ transfers[id[q]] = NULL
  BY <1>2 DEF Link
<1>4. \A q, r \in P : id[q] = id[r] => q = r
  OBVIOUS
<1>5. LinkAll(transactions, P, id) /\ UNCHANGED categories
  BY DEF Link
<1>6. transactions \in TxTable /\ Agree(transactions, transfers)
  BY DEF IInv, TypeOK, TxTable, PointersAgree
<1> HIDE DEF P, id
<1> QED
  BY <1>1, <1>3, <1>4, <1>5, <1>6, LinkAgrees DEF IInv, TypeOK, TablesOK

LEMMA CreateTransferKeeps ==
    ASSUME IInv, NEW o \in Txs, NEW from \in Accounts, NEW to \in Accounts,
           NEW amount \in Amounts, NEW x \in Uuids, CreateTransfer(o, from, to, amount, x)
    PROVE  TablesOK'
<1> DEFINE P == {<<o, o + 1>>}
           id == [q \in P |-> x]
           r1 == NewRow(from, -amount, NULL)
           r2 == NewRow(to, amount, NULL)
           T == [transactions EXCEPT ![o] = r1, ![o + 1] = r2]
<1>1. o + 1 \in Txs /\ o # o + 1 /\ transactions[o] = NULL /\ transactions[o + 1] = NULL
  BY DEF CreateTransfer, NextId, Txs
<1>2. P \in SUBSET Pairs /\ Disjoint(P) /\ id \in [P -> Uuids]
  BY <1>1 DEF Pairs, Disjoint
<1>3. transfers[x] = NULL
  BY DEF CreateTransfer, Fresh, Known
<1>4. /\ r1 \in Rows /\ r1.amount < 0 /\ r1.account_id = from
      /\ r1.transfer_id = NULL /\ r1.splits = NoSplits
  BY TransferLedgerAssumption DEF NewRow, Rows, NoSplits, CreateTransfer
<1>5. /\ r2 \in Rows /\ r2.amount > 0 /\ r2.account_id = to
      /\ r2.transfer_id = NULL /\ r2.splits = NoSplits
  BY TransferLedgerAssumption DEF NewRow, Rows, NoSplits, CreateTransfer
<1>6. LinkAll(T, P, id) /\ UNCHANGED categories
  BY DEF CreateTransfer
<1>7. from # to
  BY DEF CreateTransfer
<1> HIDE DEF r1, r2
<1>8. /\ T \in TxTable /\ T[o] = r1 /\ T[o + 1] = r2
      /\ \A t \in Txs \ {o, o + 1} : T[t] = transactions[t]
  BY <1>1, <1>4, <1>5 DEF IInv, TypeOK, TxTable
<1> HIDE DEF T
<1>9. Agree(T, transfers)
  <2>1. \A t \in Txs : Pointer(T, t) = Pointer(transactions, t)
    BY <1>1, <1>4, <1>5, <1>8 DEF Pointer
  <2> QED
    BY <2>1, SamePointers DEF IInv, PointersAgree
<1>10. Linkable(T, o, o + 1)
  <2>1. \A y \in Uuids : transfers[y] # NULL =>
            transfers[y].out_tx_id # o /\ transfers[y].in_tx_id # o + 1
    BY <1>1 DEF IInv, PointersAgree, Agree, IsLeg
  <2>2. r1 # NULL /\ r2 # NULL
    BY <1>4, <1>5, TransferLedgerAssumption
  <2> QED
    BY <2>1, <2>2, <1>4, <1>5, <1>7, <1>8 DEF Linkable, IsSplit
<1>11. \A q \in P : Linkable(T, q[1], q[2]) /\ transfers[id[q]] = NULL
  BY <1>3, <1>10
<1>12. \A q, r \in P : id[q] = id[r] => q = r
  OBVIOUS
<1> HIDE DEF P, id
<1> QED
  BY <1>2, <1>6, <1>8, <1>9, <1>11, <1>12, LinkAgrees DEF IInv, TypeOK, TablesOK

LEMMA DeleteWithLegsKeeps ==
    ASSUME IInv, NEW x \in Uuids, DeleteWithLegs(x)
    PROVE  TablesOK'
<1> DEFINE S == {t \in Txs : IsLeg(t, transfers[x])}
<1>1. transfers[x] # NULL
  BY DEF DeleteWithLegs
<1>2. \A y \in TransfersOf(S) : y = x
  BY <1>1, OneTransfer DEF TransfersOf, IInv, PointersAgree
<1>3. \A y \in TransfersOf(S) \ {} : \A t \in Txs : IsLeg(t, transfers[y]) => t \in S
  BY <1>2
<1>4. Less({}) = transfers
  BY DEF Less, IInv, TypeOK
<1>5. transactions \in TxTable /\ Agree(transactions, Less({}))
  BY <1>4 DEF IInv, TypeOK, TxTable, PointersAgree
<1>6. DeleteRows(transactions, {}, S) /\ UNCHANGED categories
  BY DEF DeleteWithLegs
<1> HIDE DEF S
<1>7. S \in SUBSET Txs
  BY DEF S
<1> QED
  BY <1>3, <1>5, <1>6, <1>7, DeletionAgrees DEF IInv, TypeOK, TablesOK

LEMMA DeleteCategoryKeeps ==
    ASSUME IInv, NEW c \in Cats, DeleteCategory(c)
    PROVE  TablesOK'
<1>1. \A t \in Txs : transactions'[t] =
          IF transactions[t] # NULL /\ transactions[t].category_id = c
            THEN [transactions[t] EXCEPT !.category_id = NULL] ELSE transactions[t]
  BY DEF DeleteCategory
<1>2. ASSUME NEW t \in Txs, transactions[t] # NULL
      PROVE  /\ transactions'[t] \in Rows
             /\ transactions'[t].transfer_id = transactions[t].transfer_id
  <2>1. transactions[t] \in Rows
    BY <1>2 DEF IInv, TypeOK
  <2>2. CASE transactions[t].category_id = c
    <3>1. transactions'[t] = [transactions[t] EXCEPT !.category_id = NULL]
      BY <1>1, <1>2, <2>2
    <3> QED
      BY <2>1, <3>1 DEF Rows
  <2>3. CASE transactions[t].category_id # c
    <3>1. transactions'[t] = transactions[t]
      BY <1>1, <2>3
    <3> QED
      BY <2>1, <3>1
  <2> QED
    BY <2>2, <2>3
<1>3. transactions' \in TxTable
  <2>1. transactions' = [t \in Txs |-> transactions'[t]]
    BY DEF DeleteCategory
  <2>2. \A t \in Txs : transactions'[t] \in Rows \cup {NULL}
    BY <1>1, <1>2
  <2> QED
    BY <2>1, <2>2 DEF TxTable
<1>4. \A t \in Txs : Pointer(transactions', t) = Pointer(transactions, t)
  BY <1>1, <1>2, TransferLedgerAssumption DEF Pointer
<1>5. categories' \in [Cats -> Types \cup {NULL}]
  BY DEF DeleteCategory, IInv, TypeOK
<1>6. UNCHANGED <<transfers, rejections>>
  BY DEF DeleteCategory
<1>7. Agree(transactions', transfers)
  BY <1>4, SamePointers DEF IInv, PointersAgree
<1> QED
  BY <1>3, <1>5, <1>6, <1>7 DEF IInv, TypeOK, TransferTable, TablesOK, PointersAgree

\* Every handler of one step keeps the tables in agreement.
LEMMA HandlerKeeps ==
    ASSUME IInv, Handler
    PROVE  TablesOK'
<1> USE DEF Handler
<1>1. ASSUME NEW t \in Txs, NEW amount \in Amounts \cup {NULL},
             NEW c \in Cats \cup {0, NULL}, NEW account \in Accounts \cup {NULL},
             PatchTransaction(t, amount, c, account)
      PROVE  TablesOK'
  BY <1>1, PatchTransactionKeeps
<1>2. ASSUME NEW t \in Txs, transactions[t] # NULL,
             NEW parts \in Divisions(transactions[t].amount), ReplaceSplits(t, parts)
      PROVE  TablesOK'
  BY <1>2, ReplaceSplitsKeeps
<1>3. ASSUME NEW S \in SUBSET Txs, BulkDelete(S) PROVE TablesOK'
  BY <1>3, BulkDeleteKeeps
<1>4. ASSUME NEW S \in SUBSET Txs, NEW c \in Cats \cup {NULL}, BulkCategorize(S, c)
      PROVE  TablesOK'
  BY <1>4, BulkCategorizeKeeps
<1>5. ASSUME NEW o \in Txs, NEW from \in Accounts, NEW to \in Accounts,
             NEW amount \in Amounts, NEW x \in Uuids, CreateTransfer(o, from, to, amount, x)
      PROVE  TablesOK'
  BY <1>5, CreateTransferKeeps
<1>6. ASSUME NEW o \in Txs, NEW i \in Txs, NEW x \in Uuids, Link(o, i, x) PROVE TablesOK'
  BY <1>6, LinkKeeps
<1>7. ASSUME NEW o \in Txs, NEW i \in Txs, Dismiss(o, i) PROVE TablesOK'
  BY <1>7 DEF Dismiss, IInv, TypeOK, TxTable, TransferTable, TablesOK, PointersAgree, Pairs
<1>8. ASSUME NEW x \in Uuids, DeleteWithLegs(x) PROVE TablesOK'
  BY <1>8, DeleteWithLegsKeeps
<1>9. ASSUME NEW c \in Cats, NEW type \in Types, CreateCategory(c, type) PROVE TablesOK'
  BY <1>9 DEF CreateCategory, IInv, TypeOK, TxTable, TransferTable, TablesOK, PointersAgree
<1>10. ASSUME NEW c \in Cats, DeleteCategory(c) PROVE TablesOK'
  BY <1>10, DeleteCategoryKeeps
<1>11. ASSUME NEW C \in SUBSET Cats, NEW type \in Types, Retype(C, type) PROVE TablesOK'
  BY <1>11 DEF Retype, IInv, TypeOK, TxTable, TransferTable, TablesOK, PointersAgree
<1> QED
  BY <1>1, <1>2, <1>3, <1>4, <1>5, <1>6, <1>7, <1>8, <1>9, <1>10, <1>11

-----------------------------------------------------------------------------
(* The handlers of several steps, while p is the only thread.              *)

JobTable == [Threads -> Jobs \cup {NULL}]

\* What is left to show of a step of the only thread: the tables still agree,
\* and what the thread remembers, if anything, is what the tables say.
LEMMA Closing ==
    ASSUME NEW p \in Threads, \A q \in Threads : q = p,
           TablesOK', job' \in JobTable,
           job'[p] = NULL \/ ReadIsCurrent(job[p])'
    PROVE  IInv'
<1>1. TypeOK'
  BY DEF TypeOK, TablesOK, TxTable, TransferTable, JobTable
<1>2. PointersAgree'
  BY DEF TablesOK
<1>3. \A q \in Threads : ~Idle(q)' => ReadIsCurrent(job[q])'
  BY DEF Idle
<1> QED
  BY <1>1, <1>2, <1>3 DEF IInv

LEMMA OnlyReadsKeeps ==
    ASSUME IInv, OnlyReads
    PROVE  TablesOK'
BY DEF OnlyReads, IInv, TypeOK, TxTable, TransferTable, TablesOK, PointersAgree

\* Remembering a value, or nothing, keeps the table of jobs typed.
LEMMA RememberKeeps ==
    ASSUME IInv, NEW p \in Threads, NEW v \in Jobs \cup {NULL}, Remember(p, v)
    PROVE  job' \in JobTable /\ job'[p] = v
BY DEF Remember, IInv, TypeOK, JobTable

LEMMA ReadCategoryKeeps ==
    ASSUME IInv, NEW p \in Threads, \A q \in Threads : q = p,
           NEW account \in Accounts, NEW amount \in Amounts, NEW c \in Cats \cup {NULL},
           ReadCategory(p, account, amount, c)
    PROVE  IInv'
<1> DEFINE v == [op |-> "create", account |-> account, amount |-> amount, category |-> c]
<1>1. v \in Jobs
  BY DEF Jobs
<1>2. v.op = "create"
  OBVIOUS
<1>3. Remember(p, v) /\ TablesOK'
  BY OnlyReadsKeeps DEF ReadCategory
<1> HIDE DEF v
<1>4. job' \in JobTable /\ job'[p] = v
  BY <1>1, <1>3, RememberKeeps
<1>5. ReadIsCurrent(job[p])'
  BY <1>2, <1>4 DEF ReadIsCurrent
<1> QED
  BY <1>3, <1>4, <1>5, Closing

LEMMA CreateTransactionKeeps ==
    ASSUME IInv, NEW p \in Threads, \A q \in Threads : q = p,
           NEW t \in Txs, CreateTransaction(p, t)
    PROVE  IInv'
<1> DEFINE row == NewRow(job[p].account, job[p].amount, job[p].category)
<1>1. job[p] \in Jobs /\ job[p].op = "create"
  BY DEF CreateTransaction, IInv, TypeOK, Idle
<1>2. row \in Rows /\ row.transfer_id = NULL
  <2>1. /\ job[p].account \in Accounts /\ job[p].amount \in Int
        /\ job[p].category \in Cats \cup {NULL}
    BY <1>1, JobKinds, TransferLedgerAssumption
  <2> QED
    BY <2>1 DEF NewRow, Rows, NoSplits
<1>3. transactions[t] = NULL
  BY DEF CreateTransaction, NextId, Txs
<1>4. transactions' = [transactions EXCEPT ![t] = row]
  BY DEF CreateTransaction
<1> HIDE DEF row
<1>5. transactions' \in TxTable
  BY <1>2, <1>4 DEF IInv, TypeOK, TxTable
<1>6. \A u \in Txs : Pointer(transactions', u) = Pointer(transactions, u)
  BY <1>2, <1>3, <1>4 DEF Pointer, IInv, TypeOK
<1>7. UNCHANGED <<transfers, rejections, categories>>
  BY DEF CreateTransaction
<1>8. Agree(transactions', transfers)
  BY <1>6, SamePointers DEF IInv, PointersAgree
<1>9. TablesOK'
  BY <1>5, <1>7, <1>8 DEF IInv, TypeOK, TransferTable, TablesOK, PointersAgree
<1>10. job' \in JobTable /\ job'[p] = NULL
  BY RememberKeeps DEF CreateTransaction
<1> QED
  BY <1>9, <1>10, Closing

LEMMA ReadKindsKeeps ==
    ASSUME IInv, NEW p \in Threads, \A q \in Threads : q = p,
           NEW c \in Cats, NEW into \in Cats, ReadKinds(p, c, into)
    PROVE  IInv'
<1> DEFINE v == [op |-> "merge", from |-> c, into |-> into]
<1>1. v \in Jobs
  BY DEF Jobs
<1>2. v.op = "merge"
  OBVIOUS
<1>3. Remember(p, v) /\ TablesOK'
  BY OnlyReadsKeeps DEF ReadKinds
<1> HIDE DEF v
<1>4. job' \in JobTable /\ job'[p] = v
  BY <1>1, <1>3, RememberKeeps
<1>5. ReadIsCurrent(job[p])'
  BY <1>2, <1>4 DEF ReadIsCurrent
<1> QED
  BY <1>3, <1>4, <1>5, Closing

LEMMA MergeCategoryKeeps ==
    ASSUME IInv, NEW p \in Threads, \A q \in Threads : q = p, MergeCategory(p)
    PROVE  IInv'
<1> DEFINE c == job[p].from
           into == job[p].into
           D(t) == IF transactions[t].category_id = c THEN into ELSE transactions[t].category_id
           B(t) == Refiled(transactions[t].splits, c, into)
<1>0. c \in Cats /\ into \in Cats
  BY JobKinds DEF MergeCategory, IInv, TypeOK, Idle
<1>1. \A t \in Txs : transactions'[t] =
          IF transactions[t] = NULL THEN NULL
          ELSE [transactions[t] EXCEPT !.category_id = D(t), !.splits = B(t)]
  BY DEF MergeCategory
<1>2. ASSUME NEW t \in Txs, transactions[t] # NULL
      PROVE  /\ transactions'[t] \in Rows
             /\ transactions'[t].transfer_id = transactions[t].transfer_id
  <2> HIDE DEF c, into
  <2>1. transactions[t] \in Rows
    BY <1>2 DEF IInv, TypeOK
  <2>2. D(t) \in Cats \cup {NULL}
    BY <1>0, <2>1 DEF Rows
  <2>3. B(t) \in [Cats -> Int]
    <3>1. transactions[t].splits \in [Cats -> Int]
      BY <2>1 DEF Rows
    <3>2. transactions[t].splits[into] + transactions[t].splits[c] \in Int
      BY <1>0, <3>1
    <3> QED
      BY <1>0, <3>1, <3>2 DEF Refiled
  <2> HIDE DEF B, D
  <2> QED
    BY <1>1, <1>2, <2>1, <2>2, <2>3 DEF Rows
<1>3. transactions' \in TxTable
  <2>1. transactions' = [t \in Txs |-> transactions'[t]]
    BY DEF MergeCategory
  <2>2. \A t \in Txs : transactions'[t] \in Rows \cup {NULL}
    BY <1>1, <1>2
  <2> QED
    BY <2>1, <2>2 DEF TxTable
<1>4. \A t \in Txs : Pointer(transactions', t) = Pointer(transactions, t)
  BY <1>1, <1>2, TransferLedgerAssumption DEF Pointer
<1>5. categories' \in [Cats -> Types \cup {NULL}]
  BY DEF MergeCategory, IInv, TypeOK
<1>6. UNCHANGED <<transfers, rejections>>
  BY DEF MergeCategory
<1>7. Agree(transactions', transfers)
  BY <1>4, SamePointers DEF IInv, PointersAgree
<1>8. TablesOK'
  BY <1>3, <1>5, <1>6, <1>7 DEF IInv, TypeOK, TransferTable, TablesOK, PointersAgree
<1>9. job' \in JobTable /\ job'[p] = NULL
  BY RememberKeeps DEF MergeCategory
<1> QED
  BY <1>8, <1>9, Closing

LEMMA ReadTransferKeeps ==
    ASSUME IInv, NEW p \in Threads, \A q \in Threads : q = p,
           NEW x \in Uuids, ReadTransfer(p, x)
    PROVE  IInv'
<1> DEFINE v == [op |-> "split", found |-> x, row |-> transfers[x]]
<1>1. transfers[x] \in Transfers
  BY DEF ReadTransfer, IInv, TypeOK
<1>2. v \in Jobs
  BY <1>1 DEF Jobs
<1>3. TablesOK' /\ transfers' = transfers
  BY OnlyReadsKeeps DEF ReadTransfer, OnlyReads
<1>4. v.op = "split" /\ v.found = x /\ v.row = transfers[x]
  OBVIOUS
<1> HIDE DEF v
<1>5. Remember(p, v)
  BY DEF ReadTransfer, v
<1>6. job' \in JobTable /\ job'[p] = v
  BY <1>2, <1>5, RememberKeeps
<1>7. ReadIsCurrent(job[p])'
  BY <1>3, <1>4, <1>6 DEF ReadIsCurrent
<1> QED
  BY <1>3, <1>6, <1>7, Closing

LEMMA SplitTransferKeeps ==
    ASSUME IInv, NEW p \in Threads, \A q \in Threads : q = p, SplitTransfer(p)
    PROVE  IInv'
<1> DEFINE D == {job[p].found}
<1>1. job[p] \in Jobs /\ job[p].op = "split" /\ ReadIsCurrent(job[p])
  BY DEF SplitTransfer, IInv, TypeOK, Idle
<1>2. /\ job[p].found \in Uuids /\ job[p].row \in Transfers
      /\ transfers[job[p].found] = job[p].row
  BY <1>1, JobKinds DEF ReadIsCurrent
<1>3. D \in SUBSET Uuids /\ \A x \in D : transfers[x] # NULL
  BY <1>2, TransferLedgerAssumption
<1>4. {transfers[x] : x \in D} = {job[p].row}
  BY <1>2
<1>5. DeleteRows(Detached({transfers[x] : x \in D}), D, {}) /\ UNCHANGED categories
  BY <1>4 DEF SplitTransfer
<1>6. TransfersOf({}) \subseteq D
  BY DEF TransfersOf
<1>7. TablesOK'
  <2> HIDE DEF D
  <2> QED
    BY <1>3, <1>5, <1>6, DetachAndDeleteKeeps
<1>8. job' \in JobTable /\ job'[p] = NULL
  BY RememberKeeps DEF SplitTransfer
<1> QED
  BY <1>7, <1>8, Closing

LEMMA FindTransferKeeps ==
    ASSUME IInv, NEW p \in Threads, \A q \in Threads : q = p,
           NEW t \in Txs, FindTransfer(p, t)
    PROVE  IInv'
<1>1. TablesOK' /\ transfers' = transfers
  BY OnlyReadsKeeps DEF FindTransfer, OnlyReads
<1>2. ASSUME NEW x \in TransfersOf({t}), Remember(p, [op |-> "detach", tx |-> t, id |-> x])
      PROVE  IInv'
  <2> DEFINE v == [op |-> "detach", tx |-> t, id |-> x]
  <2>1. x \in Uuids /\ transfers[x] # NULL /\ IsLeg(t, transfers[x])
    BY DEF TransfersOf
  <2>2. v \in Jobs
    BY <2>1 DEF Jobs
  <2>3. v.op = "detach" /\ v.tx = t /\ v.id = x
    OBVIOUS
  <2> HIDE DEF v
  <2>4. Remember(p, v)
    BY <1>2 DEF v
  <2>5. job' \in JobTable /\ job'[p] = v
    BY <2>2, <2>4, RememberKeeps
  <2>6. ReadIsCurrent(job[p])'
    BY <1>1, <2>1, <2>3, <2>5 DEF ReadIsCurrent, IsLeg
  <2> QED
    BY <1>1, <2>5, <2>6, Closing
<1>3. ASSUME TransfersOf({t}) = {},
             Remember(p, [op |-> "remove", tx |-> t, found |-> NULL, row |-> NULL])
      PROVE  IInv'
  <2> DEFINE v == [op |-> "remove", tx |-> t, found |-> NULL, row |-> NULL]
  <2>1. v \in Jobs
    BY DEF Jobs
  <2>2. v.op = "remove" /\ v.tx = t /\ v.found = NULL /\ v.row = NULL
    OBVIOUS
  <2> HIDE DEF v
  <2>3. Remember(p, v)
    BY <1>3 DEF v
  <2>4. job' \in JobTable /\ job'[p] = v
    BY <2>1, <2>3, RememberKeeps
  <2>5. TransfersOf({t})' = {}
    BY <1>1, <1>3 DEF TransfersOf, IsLeg
  <2>6. ReadIsCurrent(job[p])'
    BY <2>2, <2>4, <2>5 DEF ReadIsCurrent, TransfersOf
  <2> QED
    BY <1>1, <2>4, <2>6, Closing
<1> QED
  BY <1>2, <1>3 DEF FindTransfer

LEMMA ReadFoundTransferKeeps ==
    ASSUME IInv, NEW p \in Threads, \A q \in Threads : q = p, ReadFoundTransfer(p)
    PROVE  IInv'
<1> DEFINE v == [op |-> "remove", tx |-> job[p].tx, found |-> job[p].id,
                 row |-> transfers[job[p].id]]
<1>1. job[p] \in Jobs /\ job[p].op = "detach" /\ ReadIsCurrent(job[p])
  BY DEF ReadFoundTransfer, IInv, TypeOK, Idle
<1>2. /\ job[p].tx \in Txs /\ job[p].id \in Uuids
      /\ transfers[job[p].id] # NULL /\ IsLeg(job[p].tx, transfers[job[p].id])
  BY <1>1, JobKinds DEF ReadIsCurrent
<1>3. transfers[job[p].id] \in Transfers
  BY <1>2 DEF IInv, TypeOK
<1>4. v \in Jobs
  BY <1>2, <1>3 DEF Jobs
<1>5. TablesOK' /\ transfers' = transfers
  BY OnlyReadsKeeps DEF ReadFoundTransfer, OnlyReads
<1>6. /\ v.op = "remove" /\ v.tx = job[p].tx /\ v.found = job[p].id
      /\ v.row = transfers[job[p].id]
  OBVIOUS
<1>7. Remember(p, v)
  BY <1>2 DEF ReadFoundTransfer
<1> HIDE DEF v
<1>8. job' \in JobTable /\ job'[p] = v
  BY <1>4, <1>7, RememberKeeps
<1>9. ReadIsCurrent(job[p])'
  <2>1. v.row # NULL /\ v.found # NULL /\ transfers[v.found] = v.row /\ IsLeg(v.tx, v.row)
    BY <1>2, <1>6, TransferLedgerAssumption
  <2> QED
    BY <2>1, <1>5, <1>6, <1>8 DEF ReadIsCurrent, IsLeg
<1> QED
  BY <1>5, <1>8, <1>9, Closing

LEMMA DeleteTransactionKeeps ==
    ASSUME IInv, NEW p \in Threads, \A q \in Threads : q = p, DeleteTransaction(p)
    PROVE  IInv'
<1> DEFINE D == {job[p].found} \cap Uuids
           S == {job[p].tx}
<1>1. job[p] \in Jobs /\ job[p].op = "remove" /\ ReadIsCurrent(job[p])
  BY DEF DeleteTransaction, IInv, TypeOK, Idle
<1>2. /\ job[p].tx \in Txs /\ job[p].found \in Uuids \cup {NULL}
      /\ job[p].row \in Transfers \cup {NULL}
  BY <1>1, JobKinds
<1>3. /\ {transfers[x] : x \in D} = {job[p].row} \ {NULL}
      /\ \A x \in D : transfers[x] # NULL
      /\ TransfersOf(S) \subseteq D
  <2>1. CASE job[p].row = NULL
    <3>1. job[p].found = NULL /\ TransfersOf(S) = {}
      BY <1>1, <2>1 DEF ReadIsCurrent
    <3>2. D = {}
      BY <3>1, TransferLedgerAssumption
    <3> QED
      BY <2>1, <3>1, <3>2
  <2>2. CASE job[p].row # NULL
    <3>1. /\ job[p].found # NULL /\ transfers[job[p].found] = job[p].row
          /\ IsLeg(job[p].tx, job[p].row)
      BY <1>1, <2>2 DEF ReadIsCurrent
    <3>2. job[p].found \in Uuids /\ D = {job[p].found}
      BY <1>2, <3>1
    <3>3. ASSUME NEW x \in TransfersOf(S) PROVE x = job[p].found
      <4>1. x \in Uuids /\ transfers[x] # NULL /\ IsLeg(job[p].tx, transfers[x])
        BY DEF TransfersOf
      <4> QED
        BY <4>1, <3>1, <3>2, <1>2, <2>2, OneTransfer DEF IInv, PointersAgree
    <3> QED
      BY <2>2, <3>1, <3>2, <3>3
  <2> QED
    BY <2>1, <2>2
<1>4. DeleteRows(Detached({transfers[x] : x \in D}), D, S) /\ UNCHANGED categories
  BY <1>3 DEF DeleteTransaction
<1>5. D \in SUBSET Uuids /\ S \in SUBSET Txs
  BY <1>2
<1>6. TablesOK'
  <2> HIDE DEF D, S
  <2> QED
    BY <1>3, <1>4, <1>5, DetachAndDeleteKeeps
<1>7. job' \in JobTable /\ job'[p] = NULL
  BY RememberKeeps DEF DeleteTransaction
<1> QED
  BY <1>6, <1>7, Closing

LEMMA FindPairsKeeps ==
    ASSUME IInv, NEW p \in Threads, \A q \in Threads : q = p, FindPairs(p)
    PROVE  IInv'
<1>1. PICK P \in SUBSET Pairs : Disjoint(P) /\ Remember(p, [op |-> "detect", pairs |-> P])
  BY DEF FindPairs
<1> DEFINE v == [op |-> "detect", pairs |-> P]
<1>2. v \in Jobs
  BY DEF Jobs
<1>3. v.op = "detect" /\ v.pairs = P
  OBVIOUS
<1> HIDE DEF v
<1>4. Remember(p, v)
  BY <1>1 DEF v
<1>5. job' \in JobTable /\ job'[p] = v
  BY <1>2, <1>4, RememberKeeps
<1>6. ReadIsCurrent(job[p])'
  BY <1>1, <1>3, <1>5 DEF ReadIsCurrent, Disjoint
<1>7. TablesOK'
  BY OnlyReadsKeeps DEF FindPairs
<1> QED
  BY <1>5, <1>6, <1>7, Closing

LEMMA LinkPairsKeeps ==
    ASSUME IInv, NEW p \in Threads, \A q \in Threads : q = p, LinkPairs(p)
    PROVE  IInv'
<1> DEFINE P == {q \in job[p].pairs : Linkable(transactions, q[1], q[2])}
<1>1. job[p] \in Jobs /\ job[p].op = "detect" /\ ReadIsCurrent(job[p])
  BY DEF LinkPairs, IInv, TypeOK, Idle
<1>2. job[p].pairs \subseteq Pairs /\ Disjoint(job[p].pairs)
  BY <1>1, JobKinds DEF ReadIsCurrent
<1>3. P \in SUBSET Pairs /\ Disjoint(P) /\ \A q \in P : Linkable(transactions, q[1], q[2])
  BY <1>2 DEF Disjoint
<1>4. UNCHANGED categories
  BY DEF LinkPairs
<1>5. job' \in JobTable /\ job'[p] = NULL
  BY RememberKeeps DEF LinkPairs
<1>6. PICK id \in [P -> Fresh] : /\ \A q, r \in P : id[q] = id[r] => q = r
                                 /\ LinkAll(transactions, P, id)
  BY DEF LinkPairs
<1> HIDE DEF P
<1>7. id \in [P -> Uuids] /\ \A q \in P : transfers[id[q]] = NULL
  BY DEF Fresh, Known
<1>8. transactions \in TxTable /\ Agree(transactions, transfers)
  BY DEF IInv, TypeOK, TxTable, PointersAgree
<1>9. TablesOK'
  BY <1>3, <1>4, <1>6, <1>7, <1>8, LinkAgrees DEF IInv, TypeOK, TablesOK
<1> QED
  BY <1>5, <1>9, Closing

LEMMA FailsKeeps ==
    ASSUME IInv, NEW p \in Threads, \A q \in Threads : q = p, Fails(p)
    PROVE  IInv'
<1>1. TablesOK'
  BY OnlyReadsKeeps DEF Fails
<1>2. job' \in JobTable /\ job'[p] = NULL
  BY RememberKeeps DEF Fails
<1> QED
  BY <1>1, <1>2, Closing

-----------------------------------------------------------------------------
(* Theorems.                                                               *)

LEMMA InitInv == Init => IInv
<1> SUFFICES ASSUME Init PROVE IInv
  OBVIOUS
<1>1. TypeOK
  BY DEF Init, TypeOK
<1>2. PointersAgree
  BY DEF Init, PointersAgree, Agree
<1>3. \A p \in Threads : Idle(p)
  BY DEF Init, Idle
<1> QED
  BY <1>1, <1>2, <1>3 DEF IInv

\* The induction step, one case per disjunct of Next.
LEMMA NextInv ==
    ASSUME \A p, q \in Threads : p = q
    PROVE  IInv /\ [Next]_vars => IInv'
<1> SUFFICES ASSUME IInv, [Next]_vars PROVE IInv'
  OBVIOUS
<1>1. ASSUME NEW p \in Threads, Step(p) PROVE IInv'
  <2>0. \A q \in Threads : q = p
    OBVIOUS
  <2>1. ASSUME NEW x \in Uuids, ReadTransfer(p, x) PROVE IInv'
    BY <2>0, <2>1, ReadTransferKeeps
  <2>2. CASE SplitTransfer(p)
    BY <2>0, <2>2, SplitTransferKeeps
  <2>3. ASSUME NEW t \in Txs, FindTransfer(p, t) PROVE IInv'
    BY <2>0, <2>3, FindTransferKeeps
  <2>4. CASE ReadFoundTransfer(p)
    BY <2>0, <2>4, ReadFoundTransferKeeps
  <2>5. CASE DeleteTransaction(p)
    BY <2>0, <2>5, DeleteTransactionKeeps
  <2>6. CASE FindPairs(p)
    BY <2>0, <2>6, FindPairsKeeps
  <2>7. CASE LinkPairs(p)
    BY <2>0, <2>7, LinkPairsKeeps
  <2>8. CASE Fails(p)
    BY <2>0, <2>8, FailsKeeps
  <2>9. ASSUME NEW account \in Accounts, NEW amount \in Amounts, NEW c \in Cats \cup {NULL},
               ReadCategory(p, account, amount, c)
        PROVE  IInv'
    BY <2>0, <2>9, ReadCategoryKeeps
  <2>10. ASSUME NEW t \in Txs, CreateTransaction(p, t) PROVE IInv'
    BY <2>0, <2>10, CreateTransactionKeeps
  <2>11. ASSUME NEW c \in Cats, NEW into \in Cats, ReadKinds(p, c, into) PROVE IInv'
    BY <2>0, <2>11, ReadKindsKeeps
  <2>12. CASE MergeCategory(p)
    BY <2>0, <2>12, MergeCategoryKeeps
  <2> QED
    BY <1>1, <2>1, <2>2, <2>3, <2>4, <2>5, <2>6, <2>7, <2>8, <2>9, <2>10, <2>11, <2>12
       DEF Step
<1>2. ASSUME NEW p \in Threads, Idle(p), Handler PROVE IInv'
  <2>1. TablesOK'
    BY <1>2, HandlerKeeps
  <2>2. job' = job /\ job[p] = NULL
    BY <1>2 DEF Handler, Idle
  <2>3. job' \in JobTable /\ job'[p] = NULL
    BY <2>2 DEF IInv, TypeOK, JobTable
  <2> QED
    BY <2>1, <2>3, Closing
<1>3. CASE UNCHANGED vars
  BY <1>3 DEF vars, IInv, TypeOK, PointersAgree, Agree, Idle, ReadIsCurrent,
              TransfersOf, IsLeg, Disjoint
<1> QED
  BY <1>1, <1>2, <1>3 DEF Next

\* The tables and what a thread remembers are typed and agree, whatever the
\* handlers do one after the other.
THEOREM InvHolds ==
    ASSUME \A p, q \in Threads : p = q
    PROVE  Spec => []IInv
<1>1. IInv /\ [Next]_vars => IInv'
  BY NextInv
<1> QED
  BY <1>1, InitInv, PTL DEF Spec

\* A transaction points to a transfer exactly if it is one of its legs
\* (link, split, detach_leg, ON DELETE CASCADE).
THEOREM PointersHold ==
    ASSUME \A p, q \in Threads : p = q
    PROVE  Spec => []PointersAgree
<1>1. IInv => PointersAgree
  BY DEF IInv
<1> QED
  BY <1>1, InvHolds, PTL

-----------------------------------------------------------------------------
(* Rows.                                                                   *)

\* A row just inserted is a row, and no split.
LEMMA NewRowIsNoSplit ==
    ASSUME NEW account \in Accounts, NEW amount \in Int, NEW c \in Cats \cup {NULL}
    PROVE  /\ NewRow(account, amount, c) \in Rows
           /\ NewRow(account, amount, c).splits = NoSplits
BY DEF NewRow, Rows, NoSplits

-----------------------------------------------------------------------------
(* Types, whatever the threads do.                                         *)

Typed == transactions' \in TxTable /\ transfers' \in TransferTable /\ rejections' \subseteq Pairs

LEMMA PatchTransactionTypes ==
    ASSUME TypeOK, NEW t \in Txs, NEW amount \in Amounts \cup {NULL},
           NEW c \in Cats \cup {0, NULL}, NEW account \in Accounts \cup {NULL},
           PatchTransaction(t, amount, c, account)
    PROVE  Typed
<1> DEFINE row == transactions[t]
           a == IF amount = NULL THEN row.amount ELSE amount
           d == IF c = NULL THEN row.category_id ELSE IF c = 0 THEN NULL ELSE c
           b == IF account = NULL THEN row.account_id ELSE account
           new == [row EXCEPT !.amount = a, !.category_id = d, !.account_id = b]
<1>1. row \in Rows
  BY DEF PatchTransaction, TypeOK
<1>2. a \in Int /\ d \in Cats \cup {NULL} /\ b \in Accounts
  BY <1>1, TransferLedgerAssumption DEF Rows
<1>3. transactions' = [transactions EXCEPT ![t] = new] /\ UNCHANGED <<transfers, rejections>>
  BY DEF PatchTransaction
<1>4. new \in Rows
  <2> HIDE DEF a, b, d, row
  <2> QED
    BY <1>1, <1>2 DEF Rows
<1> HIDE DEF new
<1> QED
  BY <1>3, <1>4 DEF Typed, TypeOK, TxTable, TransferTable

LEMMA ReplaceSplitsTypes ==
    ASSUME TypeOK, NEW t \in Txs, transactions[t] # NULL,
           NEW parts \in Divisions(transactions[t].amount), ReplaceSplits(t, parts)
    PROVE  Typed
<1> DEFINE row == transactions[t]
           d == IF parts = NoSplits THEN row.category_id ELSE NULL
           new == [row EXCEPT !.splits = parts, !.category_id = d]
<1>1. row \in Rows
  BY DEF TypeOK
<1>2. parts \in [Cats -> Int] /\ d \in Cats \cup {NULL}
  <2>1. row.amount \in Int
    BY <1>1 DEF Rows
  <2>2. \A n \in row.amount..0 : n \in Int
    BY <2>1
  <2>3. \A n \in 0..row.amount : n \in Int
    BY <2>1
  <2> QED
    BY <1>1, <2>2, <2>3 DEF Divisions, Rows
<1>3. transactions' = [transactions EXCEPT ![t] = new] /\ UNCHANGED <<transfers, rejections>>
  BY DEF ReplaceSplits
<1>4. new \in Rows
  <2> HIDE DEF d, row
  <2> QED
    BY <1>1, <1>2 DEF Rows
<1> HIDE DEF new
<1> QED
  BY <1>3, <1>4 DEF Typed, TypeOK, TxTable, TransferTable

LEMMA BulkCategorizeTypes ==
    ASSUME TypeOK, NEW S \in SUBSET Txs, NEW c \in Cats \cup {NULL}, BulkCategorize(S, c)
    PROVE  Typed
<1> DEFINE T(t) == IF t \in S THEN [transactions[t] EXCEPT !.category_id = c]
                   ELSE transactions[t]
<1>1. ASSUME NEW t \in S PROVE [transactions[t] EXCEPT !.category_id = c] \in Rows
  <2>1. transactions[t] \in Rows
    BY DEF BulkCategorize, TypeOK
  <2> QED
    BY <2>1 DEF Rows
<1>2. \A t \in Txs : T(t) \in Rows \cup {NULL}
  BY <1>1 DEF TypeOK
<1>3. transactions' = [t \in Txs |-> T(t)] /\ UNCHANGED <<transfers, rejections>>
  BY DEF BulkCategorize
<1> HIDE DEF T
<1> QED
  BY <1>2, <1>3 DEF Typed, TypeOK, TxTable, TransferTable

LEMMA DeleteCategoryTypes ==
    ASSUME TypeOK, NEW c \in Cats, DeleteCategory(c)
    PROVE  Typed
<1> DEFINE T(t) == IF transactions[t] # NULL /\ transactions[t].category_id = c
                     THEN [transactions[t] EXCEPT !.category_id = NULL] ELSE transactions[t]
<1>1. ASSUME NEW t \in Txs, transactions[t] # NULL
      PROVE  [transactions[t] EXCEPT !.category_id = NULL] \in Rows
  <2>1. transactions[t] \in Rows
    BY <1>1 DEF TypeOK
  <2> QED
    BY <2>1 DEF Rows
<1>2. \A t \in Txs : T(t) \in Rows \cup {NULL}
  BY <1>1 DEF TypeOK
<1>3. transactions' = [t \in Txs |-> T(t)] /\ UNCHANGED <<transfers, rejections>>
  BY DEF DeleteCategory
<1> HIDE DEF T
<1> QED
  BY <1>2, <1>3 DEF Typed, TypeOK, TxTable, TransferTable

LEMMA MergeCategoryTypes ==
    ASSUME TypeOK, NEW p \in Threads, MergeCategory(p)
    PROVE  Typed
<1> DEFINE c == job[p].from
           into == job[p].into
           D(t) == IF transactions[t].category_id = c THEN into ELSE transactions[t].category_id
           B(t) == Refiled(transactions[t].splits, c, into)
           T(t) == IF transactions[t] = NULL THEN NULL
                   ELSE [transactions[t] EXCEPT !.category_id = D(t), !.splits = B(t)]
<1>0. c \in Cats /\ into \in Cats
  BY JobKinds DEF MergeCategory, TypeOK, Idle
<1>1. transactions' = [t \in Txs |-> T(t)] /\ UNCHANGED <<transfers, rejections>>
  BY DEF MergeCategory
<1>2. ASSUME NEW t \in Txs, transactions[t] # NULL PROVE T(t) \in Rows
  <2> HIDE DEF c, into
  <2>1. transactions[t] \in Rows /\ transactions[t].splits \in [Cats -> Int]
    BY <1>2 DEF TypeOK, Rows
  <2>2. D(t) \in Cats \cup {NULL}
    BY <1>0, <2>1 DEF Rows
  <2>3. transactions[t].splits[into] + transactions[t].splits[c] \in Int
    BY <1>0, <2>1
  <2>4. B(t) \in [Cats -> Int]
    BY <1>0, <2>1, <2>3 DEF Refiled
  <2> HIDE DEF B, D
  <2> QED
    BY <1>2, <2>1, <2>2, <2>4 DEF Rows
<1>3. \A t \in Txs : T(t) \in Rows \cup {NULL}
  BY <1>2
<1> HIDE DEF T
<1> QED
  BY <1>1, <1>3 DEF Typed, TypeOK, TxTable, TransferTable

\* split() and the cascades, on transfer rows of any age.
LEMMA DetachTypes ==
    ASSUME TypeOK, NEW R \in SUBSET Transfers, NEW D, NEW S, DeleteRows(Detached(R), D, S)
    PROVE  Typed
<1> DEFINE T == Detached(R)
<1>1. ASSUME NEW t \in Txs PROVE T[t] \in Rows \cup {NULL}
  <2>1. CASE transactions[t] # NULL /\ \E r \in R : IsLeg(t, r)
    <3> DEFINE r == CHOOSE r \in R : IsLeg(t, r)
               c == SavedCategory(t, r)
    <3>1. r \in Transfers
      BY <2>1
    <3>2. c \in Cats \cup {NULL}
      BY <3>1 DEF SavedCategory, Transfers
    <3>3. transactions[t] \in Rows
      BY <2>1 DEF TypeOK
    <3>4. T[t] = [transactions[t] EXCEPT !.transfer_id = NULL, !.category_id = c]
      BY <2>1 DEF Detached
    <3> HIDE DEF c, T
    <3> QED
      BY <3>2, <3>3, <3>4 DEF Rows
  <2>2. CASE ~(transactions[t] # NULL /\ \E r \in R : IsLeg(t, r))
    BY <2>2 DEF Detached, TypeOK
  <2> QED
    BY <2>1, <2>2
<1>2. DeleteRows(T, D, S)
  OBVIOUS
<1> HIDE DEF T
<1> QED
  BY <1>1, <1>2 DEF DeleteRows, WithoutRows, Typed, TypeOK, TxTable, TransferTable

LEMMA DeletionTypes ==
    ASSUME TypeOK, NEW S, DeleteRows(transactions, {}, S)
    PROVE  Typed
BY DEF DeleteRows, WithoutRows, Typed, TypeOK, TxTable, TransferTable

\* link(), on a table of transactions that may just have got two rows.
LEMMA LinkTypes ==
    ASSUME TypeOK, NEW T \in TxTable, NEW P \in SUBSET Pairs,
           \A q \in P : T[q[1]] # NULL /\ T[q[2]] # NULL,
           NEW id \in [P -> Uuids], LinkAll(T, P, id)
    PROVE  Typed
<1>1. \A q \in P : q[1] \in Txs /\ q[2] \in Txs /\ T[q[1]] \in Rows /\ T[q[2]] \in Rows
  BY DEF Pairs, TxTable
<1>2. ASSUME NEW t \in Txs PROVE transactions'[t] \in Rows \cup {NULL}
  <2>1. CASE \E q \in P : t \in {q[1], q[2]}
    <3> DEFINE x == id[CHOOSE q \in P : t \in {q[1], q[2]}]
    <3>1. transactions'[t] = [T[t] EXCEPT !.category_id = NULL, !.transfer_id = x]
      BY <2>1 DEF LinkAll
    <3>2. x \in Uuids /\ T[t] \in Rows
      BY <1>1, <2>1
    <3> HIDE DEF x
    <3> QED
      BY <3>1, <3>2 DEF Rows
  <2>2. CASE ~\E q \in P : t \in {q[1], q[2]}
    BY <2>2 DEF LinkAll, TxTable
  <2> QED
    BY <2>1, <2>2
<1>3. ASSUME NEW x \in Uuids PROVE transfers'[x] \in Transfers \cup {NULL}
  <2>1. CASE \E q \in P : id[q] = x
    <3> DEFINE q == CHOOSE q \in P : id[q] = x
    <3>1. q \in P
      BY <2>1
    <3>2. transfers'[x] = [out_tx_id |-> q[1], in_tx_id |-> q[2],
                           out_category_id |-> T[q[1]].category_id,
                           in_category_id |-> T[q[2]].category_id]
      BY <2>1 DEF LinkAll
    <3> HIDE DEF q
    <3>3. T[q[1]].category_id \in Cats \cup {NULL} /\ T[q[2]].category_id \in Cats \cup {NULL}
      BY <1>1, <3>1 DEF Rows
    <3> QED
      BY <1>1, <3>1, <3>2, <3>3 DEF Transfers
  <2>2. CASE ~\E q \in P : id[q] = x
    BY <2>2 DEF LinkAll, TypeOK
  <2> QED
    BY <2>1, <2>2
<1>4. transactions' = [t \in Txs |-> transactions'[t]] /\ transfers' = [x \in Uuids |-> transfers'[x]]
  BY DEF LinkAll
<1>5. transactions' \in TxTable /\ transfers' \in TransferTable
  BY <1>2, <1>3, <1>4 DEF TxTable, TransferTable
<1>6. rejections' \subseteq Pairs
  BY DEF LinkAll, TypeOK
<1> QED
  BY <1>5, <1>6 DEF Typed

LEMMA CreateTransferTypes ==
    ASSUME TypeOK, NEW o \in Txs, NEW from \in Accounts, NEW to \in Accounts,
           NEW amount \in Amounts, NEW x \in Uuids, CreateTransfer(o, from, to, amount, x)
    PROVE  Typed
<1> DEFINE P == {<<o, o + 1>>}
           id == [q \in P |-> x]
           r1 == NewRow(from, -amount, NULL)
           r2 == NewRow(to, amount, NULL)
           T == [transactions EXCEPT ![o] = r1, ![o + 1] = r2]
<1>1. o + 1 \in Txs /\ o # o + 1
  BY DEF CreateTransfer, Txs
<1>2. r1 \in Rows /\ r2 \in Rows
  <2>1. amount \in Int /\ -amount \in Int
    BY TransferLedgerAssumption
  <2> QED
    BY <2>1, NewRowIsNoSplit
<1>3. LinkAll(T, P, id)
  BY DEF CreateTransfer
<1> HIDE DEF r1, r2
<1>4. T \in TxTable /\ T[o] = r1 /\ T[o + 1] = r2
  BY <1>1, <1>2 DEF TypeOK, TxTable
<1>5. P \in SUBSET Pairs /\ id \in [P -> Uuids]
  BY <1>1 DEF Pairs
<1> HIDE DEF T
<1>6. \A q \in P : T[q[1]] # NULL /\ T[q[2]] # NULL
  BY <1>2, <1>4, TransferLedgerAssumption
<1> HIDE DEF P, id
<1> QED
  BY <1>3, <1>4, <1>5, <1>6, LinkTypes

LEMMA LinkHandlerTypes ==
    ASSUME TypeOK, NEW o \in Txs, NEW i \in Txs, NEW x \in Uuids, Link(o, i, x)
    PROVE  Typed
<1> DEFINE P == {<<o, i>>}
           id == [q \in P |-> x]
<1>1. LinkAll(transactions, P, id) /\ P \in SUBSET Pairs /\ id \in [P -> Uuids]
  BY DEF Link, Pairs
<1>2. \A q \in P : transactions[q[1]] # NULL /\ transactions[q[2]] # NULL
  BY DEF Link, Linkable
<1>3. transactions \in TxTable
  BY DEF TypeOK, TxTable
<1> HIDE DEF P, id
<1> QED
  BY <1>1, <1>2, <1>3, LinkTypes

LEMMA LinkPairsTypes ==
    ASSUME TypeOK, NEW p \in Threads, LinkPairs(p)
    PROVE  Typed
<1> DEFINE P == {q \in job[p].pairs : Linkable(transactions, q[1], q[2])}
<1>1. P \in SUBSET Pairs
  BY JobKinds DEF LinkPairs, TypeOK, Idle
<1>2. \A q \in P : transactions[q[1]] # NULL /\ transactions[q[2]] # NULL
  BY DEF Linkable
<1>3. PICK id \in [P -> Fresh] : LinkAll(transactions, P, id)
  BY DEF LinkPairs
<1>4. transactions \in TxTable
  BY DEF TypeOK, TxTable
<1> HIDE DEF P
<1>5. id \in [P -> Uuids]
  BY DEF Fresh
<1> QED
  BY <1>1, <1>2, <1>3, <1>4, <1>5, LinkTypes

LEMMA CreateTransactionTypes ==
    ASSUME TypeOK, NEW p \in Threads, NEW t \in Txs, CreateTransaction(p, t)
    PROVE  Typed
<1> DEFINE new == NewRow(job[p].account, job[p].amount, job[p].category)
<1>1. /\ job[p].account \in Accounts /\ job[p].amount \in Int
      /\ job[p].category \in Cats \cup {NULL}
  BY JobKinds, TransferLedgerAssumption DEF CreateTransaction, TypeOK, Idle
<1>2. new \in Rows
  BY <1>1, NewRowIsNoSplit
<1>3. transactions' = [transactions EXCEPT ![t] = new] /\ UNCHANGED <<transfers, rejections>>
  BY DEF CreateTransaction
<1> HIDE DEF new
<1> QED
  BY <1>2, <1>3 DEF Typed, TypeOK, TxTable, TransferTable

LEMMA TablesTyped ==
    ASSUME Typed, categories' \in [Cats -> Types \cup {NULL}], job' \in JobTable
    PROVE  TypeOK'
BY DEF Typed, TypeOK, TxTable, TransferTable, JobTable

LEMMA SameTables ==
    ASSUME TypeOK, UNCHANGED transactions, UNCHANGED transfers, rejections' \subseteq Pairs
    PROVE  Typed
BY DEF Typed, TypeOK, TxTable, TransferTable

LEMMA HandlerTypes ==
    ASSUME TypeOK, Handler
    PROVE  TypeOK'
<1> DEFINE Goal == Typed /\ categories' \in [Cats -> Types \cup {NULL}]
<1>0. categories \in [Cats -> Types \cup {NULL}] /\ rejections \subseteq Pairs
  BY DEF TypeOK
<1>1. ASSUME NEW t \in Txs, NEW amount \in Amounts \cup {NULL},
             NEW c \in Cats \cup {0, NULL}, NEW account \in Accounts \cup {NULL},
             PatchTransaction(t, amount, c, account)
      PROVE  Goal
  BY <1>0, <1>1, PatchTransactionTypes DEF PatchTransaction
<1>2. ASSUME NEW t \in Txs, transactions[t] # NULL,
             NEW parts \in Divisions(transactions[t].amount), ReplaceSplits(t, parts)
      PROVE  Goal
  BY <1>0, <1>2, ReplaceSplitsTypes DEF ReplaceSplits
<1>3. ASSUME NEW S \in SUBSET Txs, BulkDelete(S) PROVE Goal
  <2>1. {transfers[x] : x \in TransfersOf(S)} \in SUBSET Transfers
    BY DEF TransfersOf, TypeOK
  <2> QED
    BY <1>0, <1>3, <2>1, DetachTypes DEF BulkDelete
<1>4. ASSUME NEW S \in SUBSET Txs, NEW c \in Cats \cup {NULL}, BulkCategorize(S, c)
      PROVE  Goal
  BY <1>0, <1>4, BulkCategorizeTypes DEF BulkCategorize
<1>5. ASSUME NEW o \in Txs, NEW from \in Accounts, NEW to \in Accounts,
             NEW amount \in Amounts, NEW x \in Uuids, CreateTransfer(o, from, to, amount, x)
      PROVE  Goal
  BY <1>0, <1>5, CreateTransferTypes DEF CreateTransfer
<1>6. ASSUME NEW o \in Txs, NEW i \in Txs, NEW x \in Uuids, Link(o, i, x) PROVE Goal
  BY <1>0, <1>6, LinkHandlerTypes DEF Link
<1>7. ASSUME NEW o \in Txs, NEW i \in Txs, Dismiss(o, i) PROVE Goal
  BY <1>0, <1>7, SameTables DEF Dismiss, Pairs
<1>8. ASSUME NEW x \in Uuids, DeleteWithLegs(x) PROVE Goal
  BY <1>0, <1>8, DeletionTypes DEF DeleteWithLegs
<1>9. ASSUME NEW c \in Cats, NEW type \in Types, CreateCategory(c, type) PROVE Goal
  BY <1>0, <1>9, SameTables DEF CreateCategory
<1>10. ASSUME NEW c \in Cats, DeleteCategory(c) PROVE Goal
  BY <1>0, <1>10, DeleteCategoryTypes DEF DeleteCategory
<1>11. ASSUME NEW C \in SUBSET Cats, NEW type \in Types, Retype(C, type) PROVE Goal
  BY <1>0, <1>11, SameTables DEF Retype
<1>12. Goal
  BY <1>1, <1>2, <1>3, <1>4, <1>5, <1>6, <1>7, <1>8, <1>9, <1>10, <1>11 DEF Handler
<1>13. job' \in JobTable
  BY DEF Handler, TypeOK, JobTable
<1> QED
  BY <1>12, <1>13, TablesTyped

LEMMA ReadingTypes ==
    ASSUME TypeOK, NEW p \in Threads, NEW v \in Jobs \cup {NULL}, Remember(p, v), OnlyReads
    PROVE  TypeOK'
BY DEF TypeOK, OnlyReads, Remember

LEMMA EndingTypes ==
    ASSUME TypeOK, NEW p \in Threads, Remember(p, NULL), Typed,
           categories' \in [Cats -> Types \cup {NULL}]
    PROVE  TypeOK'
<1>1. job' \in JobTable
  BY DEF TypeOK, Remember, JobTable
<1> QED
  BY <1>1, TablesTyped

\* What a thread reads is typed when it reads it, and its job stays as it is
\* until it writes.
LEMMA StepTypes ==
    ASSUME TypeOK, NEW p \in Threads, Step(p)
    PROVE  TypeOK'
<1>0. categories \in [Cats -> Types \cup {NULL}] /\ transfers \in TransferTable
  BY DEF TypeOK, TransferTable
<1>1. ASSUME NEW account \in Accounts, NEW amount \in Amounts, NEW c \in Cats \cup {NULL},
             ReadCategory(p, account, amount, c)
      PROVE  TypeOK'
  <2> DEFINE v == [op |-> "create", account |-> account, amount |-> amount, category |-> c]
  <2>1. v \in Jobs
    BY DEF Jobs
  <2>2. Remember(p, v) /\ OnlyReads
    BY <1>1 DEF ReadCategory
  <2> HIDE DEF v
  <2> QED
    BY <2>1, <2>2, ReadingTypes
<1>2. ASSUME NEW t \in Txs, CreateTransaction(p, t) PROVE TypeOK'
  BY <1>0, <1>2, CreateTransactionTypes, EndingTypes DEF CreateTransaction
<1>3. ASSUME NEW c \in Cats, NEW into \in Cats, ReadKinds(p, c, into) PROVE TypeOK'
  <2> DEFINE v == [op |-> "merge", from |-> c, into |-> into]
  <2>1. v \in Jobs
    BY DEF Jobs
  <2>2. Remember(p, v) /\ OnlyReads
    BY <1>3 DEF ReadKinds
  <2> HIDE DEF v
  <2> QED
    BY <2>1, <2>2, ReadingTypes
<1>4. ASSUME MergeCategory(p) PROVE TypeOK'
  <2>1. categories' \in [Cats -> Types \cup {NULL}]
    BY <1>0, <1>4 DEF MergeCategory
  <2> QED
    BY <1>4, <2>1, MergeCategoryTypes, EndingTypes DEF MergeCategory
<1>5. ASSUME NEW x \in Uuids, ReadTransfer(p, x) PROVE TypeOK'
  <2> DEFINE v == [op |-> "split", found |-> x, row |-> transfers[x]]
  <2>1. v \in Jobs
    BY <1>5 DEF Jobs, ReadTransfer, TypeOK
  <2>2. Remember(p, v) /\ OnlyReads
    BY <1>5 DEF ReadTransfer
  <2> HIDE DEF v
  <2> QED
    BY <2>1, <2>2, ReadingTypes
<1>6. ASSUME SplitTransfer(p) PROVE TypeOK'
  <2>1. {job[p].row} \in SUBSET Transfers
    BY <1>6, JobKinds DEF SplitTransfer, TypeOK, Idle
  <2>2. Typed
    BY <1>6, <2>1, DetachTypes DEF SplitTransfer
  <2> QED
    BY <1>0, <1>6, <2>2, EndingTypes DEF SplitTransfer
<1>7. ASSUME NEW t \in Txs, FindTransfer(p, t) PROVE TypeOK'
  <2> DEFINE v(x) == [op |-> "detach", tx |-> t, id |-> x]
             w == [op |-> "remove", tx |-> t, found |-> NULL, row |-> NULL]
  <2>1. w \in Jobs /\ \A x \in Uuids : v(x) \in Jobs
    BY DEF Jobs
  <2>2. OnlyReads /\ (Remember(p, w) \/ \E x \in Uuids : Remember(p, v(x)))
    BY <1>7 DEF FindTransfer, TransfersOf
  <2> HIDE DEF v, w
  <2> QED
    BY <2>1, <2>2, ReadingTypes
<1>8. ASSUME ReadFoundTransfer(p) PROVE TypeOK'
  <2> DEFINE i == IF transfers[job[p].id] = NULL THEN NULL ELSE job[p].id
             v == [op |-> "remove", tx |-> job[p].tx, found |-> i, row |-> transfers[job[p].id]]
  <2>1. job[p].tx \in Txs /\ job[p].id \in Uuids
    BY <1>8, JobKinds DEF ReadFoundTransfer, TypeOK, Idle
  <2>2. i \in Uuids \cup {NULL} /\ transfers[job[p].id] \in Transfers \cup {NULL}
    BY <1>0, <2>1 DEF TransferTable
  <2>3. Remember(p, v) /\ OnlyReads
    BY <1>8 DEF ReadFoundTransfer
  <2> HIDE DEF i
  <2>4. v \in Jobs
    BY <2>1, <2>2 DEF Jobs
  <2> HIDE DEF v
  <2> QED
    BY <2>3, <2>4, ReadingTypes
<1>9. ASSUME DeleteTransaction(p) PROVE TypeOK'
  <2>1. {job[p].row} \ {NULL} \in SUBSET Transfers
    BY <1>9, JobKinds DEF DeleteTransaction, TypeOK, Idle
  <2>2. Typed
    BY <1>9, <2>1, DetachTypes DEF DeleteTransaction
  <2> QED
    BY <1>0, <1>9, <2>2, EndingTypes DEF DeleteTransaction
<1>10. ASSUME FindPairs(p) PROVE TypeOK'
  <2>1. PICK P \in SUBSET Pairs : Remember(p, [op |-> "detect", pairs |-> P])
    BY <1>10 DEF FindPairs
  <2>2. [op |-> "detect", pairs |-> P] \in Jobs
    BY DEF Jobs
  <2> QED
    BY <1>10, <2>1, <2>2, ReadingTypes DEF FindPairs
<1>11. ASSUME LinkPairs(p) PROVE TypeOK'
  BY <1>0, <1>11, LinkPairsTypes, EndingTypes DEF LinkPairs
<1>12. ASSUME Fails(p) PROVE TypeOK'
  BY <1>12, ReadingTypes DEF Fails
<1> QED
  BY <1>1, <1>2, <1>3, <1>4, <1>5, <1>6, <1>7, <1>8, <1>9, <1>10, <1>11, <1>12 DEF Step

\* The tables and what the threads remember are typed, however many requests
\* overlap: every handler writes whole rows, and what a thread has read, stale
\* or not, is of the kind it acts upon.
THEOREM TypesHold == Spec => []TypeOK
<1>1. Init => TypeOK
  BY DEF Init, TypeOK
<1>2. TypeOK /\ [Next]_vars => TypeOK'
  <2> SUFFICES ASSUME TypeOK, [Next]_vars PROVE TypeOK'
    OBVIOUS
  <2>1. CASE UNCHANGED vars
    BY <2>1 DEF vars, TypeOK
  <2> QED
    BY <2>1, StepTypes, HandlerTypes DEF Next
<1> QED
  BY <1>1, <1>2, PTL DEF Spec

-----------------------------------------------------------------------------
(* Rows counted once.                                                      *)

\* A row that is split has neither category nor transfer, and the categories of
\* its parts exist in C.
Once(row, C) ==
    row # NULL /\ row.splits # NoSplits =>
        /\ row.category_id = NULL
        /\ row.transfer_id = NULL
        /\ \A c \in Cats : row.splits[c] # 0 => C[c] # NULL

\* What merge_category has read is still true when it writes.
KindsAreCurrent(read) ==
    read.op = "merge" =>
        /\ read.from # read.into
        /\ categories[read.from] # NULL /\ categories[read.into] # NULL

CountedInv ==
    /\ IInv
    /\ CountedOnce
    /\ \A p \in Threads : ~Idle(p) => KindsAreCurrent(job[p])

\* CountedOnce says of the table what Once says of a row.
LEMMA RowByRow == CountedOnce <=> \A t \in Txs : Once(transactions[t], categories)
BY DEF CountedOnce, Once, IsSplit

LEMMA RowByRowNext == CountedOnce' <=> \A t \in Txs : Once(transactions'[t], categories')
BY DEF CountedOnce, Once, IsSplit

\* Categories that stay, as far as parts use them, keep a row counted once.
LEMMA SameRows ==
    ASSUME CountedOnce, transactions' = transactions,
           \A c \in Cats : categories[c] # NULL => categories'[c] # NULL
    PROVE  CountedOnce'
BY RowByRow, RowByRowNext DEF Once

\* A change of category_id, transfer_id, amount or account_id on rows that are
\* no splits, and deletions, keep every row counted once.
LEMMA OtherRows ==
    ASSUME CountedOnce, UNCHANGED categories,
           \A t \in Txs :
               \/ transactions'[t] = NULL
               \/ transactions'[t] = transactions[t]
               \/ transactions'[t].splits = NoSplits
    PROVE  CountedOnce'
BY RowByRow, RowByRowNext DEF Once

-----------------------------------------------------------------------------
(* The building blocks of the handlers.                                    *)

\* A leg of a transfer is no split (replace_splits and link refuse each other's
\* rows).
LEMMA LegIsNoSplit ==
    ASSUME IInv, CountedOnce, NEW t \in Txs, transactions[t] # NULL,
           NEW x \in Uuids, transfers[x] # NULL, IsLeg(t, transfers[x])
    PROVE  transactions[t].splits = NoSplits
<1>1. transactions[t].transfer_id = x
  BY OneTransfer DEF IInv, PointersAgree
<1> QED
  BY <1>1, TransferLedgerAssumption DEF CountedOnce, IsSplit

\* split() and deletion on transfers that are still in the table.
LEMMA DetachCounts ==
    ASSUME IInv, CountedOnce, UNCHANGED categories,
           NEW D \in SUBSET Uuids, \A x \in D : transfers[x] # NULL,
           NEW E, NEW S, DeleteRows(Detached({transfers[x] : x \in D}), E, S)
    PROVE  CountedOnce'
<1> DEFINE R == {transfers[x] : x \in D}
           T == Detached(R)
<1>1. \A t \in Txs : transactions'[t] = IF t \in S THEN NULL ELSE T[t]
  BY DEF DeleteRows, WithoutRows
<1>2. ASSUME NEW t \in Txs
      PROVE  T[t] = transactions[t] \/ T[t].splits = NoSplits
  <2>1. CASE transactions[t] # NULL /\ \E r \in R : IsLeg(t, r)
    <3>1. transactions[t].splits = NoSplits
      BY <2>1, LegIsNoSplit
    <3>2. transactions[t] \in Rows
      BY <2>1 DEF IInv, TypeOK
    <3> DEFINE c == SavedCategory(t, CHOOSE r \in R : IsLeg(t, r))
    <3>3. T[t] = [transactions[t] EXCEPT !.transfer_id = NULL, !.category_id = c]
      BY <2>1 DEF Detached
    <3> HIDE DEF c, T
    <3> QED
      BY <3>1, <3>2, <3>3 DEF Rows
  <2>2. CASE ~(transactions[t] # NULL /\ \E r \in R : IsLeg(t, r))
    BY <2>2 DEF Detached
  <2> QED
    BY <2>1, <2>2
<1> HIDE DEF T
<1> QED
  BY <1>1, <1>2, OtherRows

\* link() takes rows that are no splits.
LEMMA LinkCounts ==
    ASSUME CountedOnce, UNCHANGED categories, NEW T, NEW P, NEW id, LinkAll(T, P, id),
           \A t \in Txs : T[t] = transactions[t] \/ T[t].splits = NoSplits,
           \A q \in P : \A t \in {q[1], q[2]} : T[t] \in Rows /\ T[t].splits = NoSplits
    PROVE  CountedOnce'
<1>1. ASSUME NEW t \in Txs
      PROVE  transactions'[t] = transactions[t] \/ transactions'[t].splits = NoSplits
  <2>1. CASE \E q \in P : t \in {q[1], q[2]}
    <3>1. T[t] \in Rows /\ T[t].splits = NoSplits
      BY <2>1
    <3> DEFINE x == id[CHOOSE q \in P : t \in {q[1], q[2]}]
    <3>2. transactions'[t] = [T[t] EXCEPT !.category_id = NULL, !.transfer_id = x]
      BY <2>1 DEF LinkAll
    <3> HIDE DEF x
    <3> QED
      BY <3>1, <3>2 DEF Rows
  <2>2. CASE ~\E q \in P : t \in {q[1], q[2]}
    BY <2>2 DEF LinkAll
  <2> QED
    BY <2>1, <2>2
<1> QED
  BY <1>1, OtherRows

LEMMA LinkableRows ==
    ASSUME IInv, NEW o \in Txs, NEW i \in Txs, Linkable(transactions, o, i)
    PROVE  \A t \in {o, i} : transactions[t] \in Rows /\ transactions[t].splits = NoSplits
BY DEF Linkable, IsSplit, IInv, TypeOK

-----------------------------------------------------------------------------
(* The handlers of one step.                                               *)

\* An edited row is still counted once if it keeps its splits and its transfer
\* and, where it is split, has no category; the other rows stay.
LEMMA OneRowEdited ==
    ASSUME IInv, CountedOnce, UNCHANGED categories, NEW t \in Txs, NEW new,
           transactions' = [transactions EXCEPT ![t] = new], Once(new, categories)
    PROVE  CountedOnce'
BY RowByRow, RowByRowNext DEF IInv, TypeOK

LEMMA PatchTransactionCounts ==
    ASSUME IInv, CountedOnce, NEW t \in Txs, NEW amount \in Amounts \cup {NULL},
           NEW c \in Cats \cup {0, NULL}, NEW account \in Accounts \cup {NULL},
           PatchTransaction(t, amount, c, account)
    PROVE  CountedOnce'
<1> DEFINE row == transactions[t]
           a == IF amount = NULL THEN row.amount ELSE amount
           d == IF c = NULL THEN row.category_id ELSE IF c = 0 THEN NULL ELSE c
           b == IF account = NULL THEN row.account_id ELSE account
           new == [row EXCEPT !.amount = a, !.category_id = d, !.account_id = b]
<1>1. row \in Rows /\ row # NULL
  BY DEF PatchTransaction, IInv, TypeOK
<1>2. row.splits # NoSplits => d = row.category_id
  BY DEF PatchTransaction, IsSplit
<1>3. transactions' = [transactions EXCEPT ![t] = new] /\ UNCHANGED categories
  BY DEF PatchTransaction
<1>4. Once(row, categories)
  BY RowByRow
<1>5. new.splits = row.splits /\ new.transfer_id = row.transfer_id /\ new.category_id = d
  <2> HIDE DEF a, b, d, row
  <2> QED
    BY <1>1 DEF Rows
<1>6. Once(new, categories)
  <2> HIDE DEF new, d, row
  <2> QED
    BY <1>1, <1>2, <1>4, <1>5 DEF Once
<1> QED
  BY <1>3, <1>6, OneRowEdited

\* A split is refused on a leg, clears the category, and resolves every part.
LEMMA ReplaceSplitsCounts ==
    ASSUME IInv, CountedOnce, NEW t \in Txs, transactions[t] # NULL,
           NEW parts \in Divisions(transactions[t].amount), ReplaceSplits(t, parts)
    PROVE  CountedOnce'
<1> DEFINE row == transactions[t]
           d == IF parts = NoSplits THEN row.category_id ELSE NULL
           new == [row EXCEPT !.splits = parts, !.category_id = d]
<1>1. row \in Rows /\ row.transfer_id = NULL
  BY DEF IInv, TypeOK, ReplaceSplits
<1>2. transactions' = [transactions EXCEPT ![t] = new] /\ UNCHANGED categories
  BY DEF ReplaceSplits
<1>3. new.splits = parts /\ new.transfer_id = NULL /\ new.category_id = d
  <2> HIDE DEF d, row
  <2> QED
    BY <1>1 DEF Rows
<1>4. parts # NoSplits => \A c \in Cats : parts[c] # 0 => categories[c] # NULL
  BY DEF ReplaceSplits, Resolves
<1>5. Once(new, categories)
  <2> HIDE DEF new
  <2> QED
    BY <1>3, <1>4 DEF Once
<1> QED
  BY <1>2, <1>5, OneRowEdited

LEMMA BulkDeleteCounts ==
    ASSUME IInv, CountedOnce, NEW S \in SUBSET Txs, BulkDelete(S)
    PROVE  CountedOnce'
<1>1. TransfersOf(S) \subseteq Uuids /\ \A x \in TransfersOf(S) : transfers[x] # NULL
  BY DEF TransfersOf
<1> QED
  BY <1>1, DetachCounts DEF BulkDelete

LEMMA BulkCategorizeCounts ==
    ASSUME IInv, CountedOnce, NEW S \in SUBSET Txs, NEW c \in Cats \cup {NULL},
           BulkCategorize(S, c)
    PROVE  CountedOnce'
<1>1. ASSUME NEW t \in Txs
      PROVE  transactions'[t] = transactions[t] \/ transactions'[t].splits = NoSplits
  <2>1. CASE t \in S
    <3>1. transactions[t] \in Rows /\ transactions[t].splits = NoSplits
      BY <2>1 DEF BulkCategorize, IsSplit, IInv, TypeOK
    <3>2. transactions'[t] = [transactions[t] EXCEPT !.category_id = c]
      BY <2>1 DEF BulkCategorize
    <3> QED
      BY <3>1, <3>2 DEF Rows
  <2>2. CASE t \notin S
    BY <2>2 DEF BulkCategorize
  <2> QED
    BY <2>1, <2>2
<1> QED
  BY <1>1, OtherRows DEF BulkCategorize

LEMMA CreateTransferCounts ==
    ASSUME IInv, CountedOnce, NEW o \in Txs, NEW from \in Accounts, NEW to \in Accounts,
           NEW amount \in Amounts, NEW x \in Uuids, CreateTransfer(o, from, to, amount, x)
    PROVE  CountedOnce'
<1> DEFINE P == {<<o, o + 1>>}
           id == [q \in P |-> x]
           r1 == NewRow(from, -amount, NULL)
           r2 == NewRow(to, amount, NULL)
           T == [transactions EXCEPT ![o] = r1, ![o + 1] = r2]
<1>1. o + 1 \in Txs /\ o # o + 1
  BY DEF CreateTransfer, Txs
<1>2. r1 \in Rows /\ r1.splits = NoSplits /\ r2 \in Rows /\ r2.splits = NoSplits
  <2>1. amount \in Int /\ -amount \in Int
    BY TransferLedgerAssumption
  <2> QED
    BY <2>1, NewRowIsNoSplit
<1>3. LinkAll(T, P, id) /\ UNCHANGED categories
  BY DEF CreateTransfer
<1> HIDE DEF r1, r2
<1>4. /\ T[o] = r1 /\ T[o + 1] = r2
      /\ \A t \in Txs \ {o, o + 1} : T[t] = transactions[t]
  BY <1>1 DEF IInv, TypeOK
<1> HIDE DEF T
<1>5. \A q \in P : \A t \in {q[1], q[2]} : T[t] \in Rows /\ T[t].splits = NoSplits
  BY <1>2, <1>4
<1>6. \A t \in Txs : T[t] = transactions[t] \/ T[t].splits = NoSplits
  BY <1>2, <1>4
<1> HIDE DEF P, id
<1> QED
  BY <1>3, <1>5, <1>6, LinkCounts

LEMMA LinkCountsOnce ==
    ASSUME IInv, CountedOnce, NEW o \in Txs, NEW i \in Txs, NEW x \in Uuids, Link(o, i, x)
    PROVE  CountedOnce'
<1> DEFINE P == {<<o, i>>}
           id == [q \in P |-> x]
<1>1. LinkAll(transactions, P, id) /\ UNCHANGED categories
  BY DEF Link
<1>2. \A q \in P : \A t \in {q[1], q[2]} :
          transactions[t] \in Rows /\ transactions[t].splits = NoSplits
  BY LinkableRows DEF Link
<1> HIDE DEF P, id
<1> QED
  BY <1>1, <1>2, LinkCounts

LEMMA DeleteWithLegsCounts ==
    ASSUME IInv, CountedOnce, NEW x \in Uuids, DeleteWithLegs(x)
    PROVE  CountedOnce'
<1>1. \A t \in Txs : transactions'[t] = NULL \/ transactions'[t] = transactions[t]
  BY DEF DeleteWithLegs, DeleteRows, WithoutRows
<1> QED
  BY <1>1, OtherRows DEF DeleteWithLegs

\* A category in use by a part is not deleted (ON DELETE RESTRICT).
LEMMA DeleteCategoryCounts ==
    ASSUME IInv, CountedOnce, NEW c \in Cats, DeleteCategory(c)
    PROVE  CountedOnce'
<1>1. \A d \in Cats : categories'[d] = IF d = c THEN NULL ELSE categories[d]
  BY DEF DeleteCategory, IInv, TypeOK
<1>2. ASSUME NEW t \in Txs PROVE Once(transactions'[t], categories')
  <2>1. CASE transactions[t] = NULL
    BY <2>1 DEF DeleteCategory, Once
  <2>2. CASE transactions[t] # NULL /\ transactions[t].category_id = c
    <3>1. transactions[t] \in Rows /\ c # NULL
      BY <2>2, TransferLedgerAssumption DEF IInv, TypeOK, Cats
    <3>2. transactions[t].splits = NoSplits
      BY <2>2, <3>1, RowByRow DEF Once
    <3>3. transactions'[t] = [transactions[t] EXCEPT !.category_id = NULL]
      BY <2>2 DEF DeleteCategory
    <3> QED
      BY <3>1, <3>2, <3>3 DEF Rows, Once
  <2>3. CASE transactions[t] # NULL /\ transactions[t].category_id # c
    <3>1. transactions'[t] = transactions[t] /\ transactions[t].splits[c] = 0
      BY <2>3 DEF DeleteCategory
    <3> QED
      BY <3>1, <1>1, RowByRow DEF Once
  <2> QED
    BY <2>1, <2>2, <2>3
<1> QED
  BY <1>2, RowByRowNext

LEMMA HandlerCounts ==
    ASSUME IInv, CountedOnce, Handler
    PROVE  CountedOnce'
<1> USE DEF Handler
<1>1. ASSUME NEW t \in Txs, NEW amount \in Amounts \cup {NULL},
             NEW c \in Cats \cup {0, NULL}, NEW account \in Accounts \cup {NULL},
             PatchTransaction(t, amount, c, account)
      PROVE  CountedOnce'
  BY <1>1, PatchTransactionCounts
<1>2. ASSUME NEW t \in Txs, transactions[t] # NULL,
             NEW parts \in Divisions(transactions[t].amount), ReplaceSplits(t, parts)
      PROVE  CountedOnce'
  BY <1>2, ReplaceSplitsCounts
<1>3. ASSUME NEW S \in SUBSET Txs, BulkDelete(S) PROVE CountedOnce'
  BY <1>3, BulkDeleteCounts
<1>4. ASSUME NEW S \in SUBSET Txs, NEW c \in Cats \cup {NULL}, BulkCategorize(S, c)
      PROVE  CountedOnce'
  BY <1>4, BulkCategorizeCounts
<1>5. ASSUME NEW o \in Txs, NEW from \in Accounts, NEW to \in Accounts,
             NEW amount \in Amounts, NEW x \in Uuids, CreateTransfer(o, from, to, amount, x)
      PROVE  CountedOnce'
  BY <1>5, CreateTransferCounts
<1>6. ASSUME NEW o \in Txs, NEW i \in Txs, NEW x \in Uuids, Link(o, i, x) PROVE CountedOnce'
  BY <1>6, LinkCountsOnce
<1>7. ASSUME NEW o \in Txs, NEW i \in Txs, Dismiss(o, i) PROVE CountedOnce'
  BY <1>7, SameRows DEF Dismiss
<1>8. ASSUME NEW x \in Uuids, DeleteWithLegs(x) PROVE CountedOnce'
  BY <1>8, DeleteWithLegsCounts
<1>9. ASSUME NEW c \in Cats, NEW type \in Types, CreateCategory(c, type) PROVE CountedOnce'
  BY <1>9, SameRows, TransferLedgerAssumption DEF CreateCategory, IInv, TypeOK
<1>10. ASSUME NEW c \in Cats, DeleteCategory(c) PROVE CountedOnce'
  BY <1>10, DeleteCategoryCounts
<1>11. ASSUME NEW C \in SUBSET Cats, NEW type \in Types, Retype(C, type) PROVE CountedOnce'
  BY <1>11, SameRows, TransferLedgerAssumption DEF Retype
<1> QED
  BY <1>1, <1>2, <1>3, <1>4, <1>5, <1>6, <1>7, <1>8, <1>9, <1>10, <1>11

-----------------------------------------------------------------------------
(* The handlers of several steps, while p is the only thread.              *)

LEMMA CreateTransactionCounts ==
    ASSUME IInv, CountedOnce, NEW p \in Threads, NEW t \in Txs, CreateTransaction(p, t)
    PROVE  CountedOnce'
<1> DEFINE new == NewRow(job[p].account, job[p].amount, job[p].category)
<1>1. /\ job[p].account \in Accounts /\ job[p].amount \in Amounts
      /\ job[p].category \in Cats \cup {NULL}
  BY JobKinds DEF CreateTransaction, IInv, TypeOK, Idle
<1>2. new.splits = NoSplits
  BY <1>1, NewRowIsNoSplit, TransferLedgerAssumption
<1>3. transactions' = [transactions EXCEPT ![t] = new] /\ UNCHANGED categories
  BY DEF CreateTransaction
<1> HIDE DEF new
<1>4. Once(new, categories)
  BY <1>2 DEF Once
<1> QED
  BY <1>3, <1>4, OneRowEdited

\* The parts of the category that goes become parts of one that exists.
LEMMA MergeCategoryCounts ==
    ASSUME IInv, CountedOnce, NEW p \in Threads, KindsAreCurrent(job[p]), MergeCategory(p)
    PROVE  CountedOnce'
<1> DEFINE c == job[p].from
           into == job[p].into
           D(t) == IF transactions[t].category_id = c THEN into ELSE transactions[t].category_id
           B(t) == Refiled(transactions[t].splits, c, into)
<1>0. c \in Cats /\ into \in Cats
  BY JobKinds DEF MergeCategory, IInv, TypeOK, Idle
<1>1. c \in Cats /\ into \in Cats /\ c # NULL
  BY <1>0, TransferLedgerAssumption DEF Cats
<1>2. c # into /\ categories[into] # NULL
  BY DEF KindsAreCurrent, MergeCategory
<1>3. \A d \in Cats : categories'[d] = IF d = c THEN NULL ELSE categories[d]
  BY DEF MergeCategory, IInv, TypeOK
<1>4. \A t \in Txs : transactions'[t] =
          IF transactions[t] = NULL THEN NULL
          ELSE [transactions[t] EXCEPT !.category_id = D(t), !.splits = B(t)]
  BY DEF MergeCategory
<1>5. ASSUME NEW t \in Txs, transactions[t] # NULL
      PROVE  Once(transactions'[t], categories')
  <2> HIDE DEF c, into
  <2>1. transactions[t] \in Rows /\ transactions[t].splits \in [Cats -> Int]
    BY <1>5 DEF IInv, TypeOK, Rows
  <2>2. /\ transactions'[t].category_id = D(t)
        /\ transactions'[t].transfer_id = transactions[t].transfer_id
        /\ transactions'[t].splits = B(t)
    <3> HIDE DEF B, D
    <3> QED
      BY <1>4, <1>5, <2>1 DEF Rows
  <2>3. /\ B(t)[c] = 0
        /\ \A d \in Cats \ {c, into} : B(t)[d] = transactions[t].splits[d]
    BY <1>1, <1>2, <2>1 DEF Refiled
  <2>4. transactions[t].splits = NoSplits => B(t) = NoSplits
    <3> SUFFICES ASSUME transactions[t].splits = NoSplits PROVE B(t) = NoSplits
      OBVIOUS
    <3>1. \A d \in Cats : transactions[t].splits[d] = 0
      BY DEF NoSplits
    <3>2. transactions[t].splits[into] + transactions[t].splits[c] = 0
      BY <1>1, <3>1
    <3>3. \A d \in Cats : B(t)[d] = 0
      BY <1>1, <2>1, <3>1, <3>2 DEF Refiled
    <3>4. B(t) = [d \in Cats |-> B(t)[d]]
      BY <2>1 DEF Refiled
    <3> HIDE DEF B
    <3> QED
      BY <3>3, <3>4 DEF NoSplits
  <2>5. ASSUME B(t) # NoSplits
        PROVE  /\ D(t) = NULL /\ transactions[t].transfer_id = NULL
               /\ \A d \in Cats : B(t)[d] # 0 => categories'[d] # NULL
    <3>1. /\ transactions[t].category_id = NULL /\ transactions[t].transfer_id = NULL
          /\ \A d \in Cats : transactions[t].splits[d] # 0 => categories[d] # NULL
      BY <1>5, <2>4, <2>5, RowByRow DEF Once
    <3>2. D(t) = NULL
      BY <1>1, <3>1
    <3> HIDE DEF B
    <3> QED
      BY <1>2, <1>3, <2>3, <3>1, <3>2
  <2> HIDE DEF B, D
  <2> QED
    BY <2>2, <2>5 DEF Once
<1>6. \A t \in Txs : Once(transactions'[t], categories')
  <2> SUFFICES ASSUME NEW t \in Txs, transactions[t] = NULL
               PROVE  Once(transactions'[t], categories')
    BY <1>5
  <2> QED
    BY <1>4 DEF Once
<1> QED
  BY <1>6, RowByRowNext

\* delete_transfer undoes the transfer it has read, which is still there.
LEMMA SplitTransferCounts ==
    ASSUME IInv, CountedOnce, NEW p \in Threads, SplitTransfer(p)
    PROVE  CountedOnce'
<1> DEFINE D == {job[p].found}
<1>1. job[p] \in Jobs /\ job[p].op = "split" /\ ReadIsCurrent(job[p])
  BY DEF SplitTransfer, IInv, TypeOK, Idle
<1>2. /\ job[p].found \in Uuids /\ job[p].row \in Transfers
      /\ transfers[job[p].found] = job[p].row
  BY <1>1, JobKinds DEF ReadIsCurrent
<1>3. D \in SUBSET Uuids /\ \A x \in D : transfers[x] # NULL
  BY <1>2, TransferLedgerAssumption
<1>4. {transfers[x] : x \in D} = {job[p].row}
  BY <1>2
<1>5. DeleteRows(Detached({transfers[x] : x \in D}), D, {}) /\ UNCHANGED categories
  BY <1>4 DEF SplitTransfer
<1> HIDE DEF D
<1> QED
  BY <1>3, <1>5, DetachCounts

\* delete_transaction likewise, if it has found one.
LEMMA DeleteTransactionCounts ==
    ASSUME IInv, CountedOnce, NEW p \in Threads, DeleteTransaction(p)
    PROVE  CountedOnce'
<1> DEFINE D == {job[p].found} \cap Uuids
<1>1. job[p] \in Jobs /\ job[p].op = "remove" /\ ReadIsCurrent(job[p])
  BY DEF DeleteTransaction, IInv, TypeOK, Idle
<1>2. job[p].found \in Uuids \cup {NULL}
  BY <1>1, JobKinds
<1>3. /\ {transfers[x] : x \in D} = {job[p].row} \ {NULL}
      /\ \A x \in D : transfers[x] # NULL
  <2>1. CASE job[p].row = NULL
    <3>1. D = {}
      BY <1>1, <2>1, TransferLedgerAssumption DEF ReadIsCurrent
    <3> QED
      BY <2>1, <3>1
  <2>2. CASE job[p].row # NULL
    <3>1. job[p].found # NULL /\ transfers[job[p].found] = job[p].row
      BY <1>1, <2>2 DEF ReadIsCurrent
    <3>2. D = {job[p].found}
      BY <1>2, <3>1
    <3> QED
      BY <2>2, <3>1, <3>2
  <2> QED
    BY <2>1, <2>2
<1>4. DeleteRows(Detached({transfers[x] : x \in D}), D, {job[p].tx}) /\ UNCHANGED categories
  BY <1>3 DEF DeleteTransaction
<1> HIDE DEF D
<1>5. D \in SUBSET Uuids
  BY DEF D
<1> QED
  BY <1>3, <1>4, <1>5, DetachCounts

LEMMA LinkPairsCounts ==
    ASSUME IInv, CountedOnce, NEW p \in Threads, LinkPairs(p)
    PROVE  CountedOnce'
<1> DEFINE P == {q \in job[p].pairs : Linkable(transactions, q[1], q[2])}
<1>1. job[p].pairs \subseteq Pairs
  BY JobKinds DEF LinkPairs, IInv, TypeOK, Idle
<1>2. ASSUME NEW q \in P
      PROVE  \A t \in {q[1], q[2]} :
                 transactions[t] \in Rows /\ transactions[t].splits = NoSplits
  <2>1. q[1] \in Txs /\ q[2] \in Txs
    BY <1>1 DEF Pairs
  <2> QED
    BY <2>1, LinkableRows
<1>3. UNCHANGED categories
  BY DEF LinkPairs
<1>4. PICK id \in [P -> Fresh] : LinkAll(transactions, P, id)
  BY DEF LinkPairs
<1> HIDE DEF P
<1> QED
  BY <1>2, <1>3, <1>4, LinkCounts

\* A step of the only thread: the parts that are its own stay counted once.
LEMMA StepCounts ==
    ASSUME IInv, CountedOnce, NEW p \in Threads, ~Idle(p) => KindsAreCurrent(job[p]), Step(p)
    PROVE  CountedOnce'
<1>1. ASSUME OnlyReads PROVE CountedOnce'
  BY <1>1, SameRows DEF OnlyReads
<1>2. ASSUME NEW t \in Txs, CreateTransaction(p, t) PROVE CountedOnce'
  BY <1>2, CreateTransactionCounts
<1>3. CASE MergeCategory(p)
  BY <1>3, MergeCategoryCounts DEF MergeCategory
<1>4. CASE SplitTransfer(p)
  BY <1>4, SplitTransferCounts
<1>5. CASE DeleteTransaction(p)
  BY <1>5, DeleteTransactionCounts
<1>6. CASE LinkPairs(p)
  BY <1>6, LinkPairsCounts
<1> QED
  BY <1>1, <1>2, <1>3, <1>4, <1>5, <1>6
     DEF Step, ReadCategory, ReadKinds, ReadTransfer, FindTransfer, ReadFoundTransfer,
         FindPairs, Fails

\* What the only thread has read of categories is current after its step: it
\* reads nothing else, or it has ended.
LEMMA StepReads ==
    ASSUME IInv, NEW p \in Threads, Step(p)
    PROVE  ~Idle(p)' => KindsAreCurrent(job[p])'
<1>1. ASSUME NEW v, Remember(p, v) PROVE job'[p] = v
  BY <1>1 DEF Remember, IInv, TypeOK
<1>2. ASSUME NEW v, Remember(p, v), v.op # "merge" PROVE KindsAreCurrent(job[p])'
  BY <1>1, <1>2 DEF KindsAreCurrent
<1>3. ASSUME Remember(p, NULL) PROVE Idle(p)'
  BY <1>1, <1>3 DEF Idle
<1>4. ASSUME NEW account \in Accounts, NEW amount \in Amounts, NEW c \in Cats \cup {NULL},
             ReadCategory(p, account, amount, c)
      PROVE  KindsAreCurrent(job[p])'
  <2> DEFINE v == [op |-> "create", account |-> account, amount |-> amount, category |-> c]
  <2>1. v.op # "merge"
    OBVIOUS
  <2>2. Remember(p, v)
    BY <1>4 DEF ReadCategory
  <2> HIDE DEF v
  <2> QED
    BY <1>2, <2>1, <2>2
<1>5. ASSUME NEW c \in Cats, NEW into \in Cats, ReadKinds(p, c, into)
      PROVE  KindsAreCurrent(job[p])'
  <2> DEFINE v == [op |-> "merge", from |-> c, into |-> into]
  <2>1. v.from = c /\ v.into = into
    OBVIOUS
  <2>2. Remember(p, v) /\ OnlyReads
    BY <1>5 DEF ReadKinds
  <2> HIDE DEF v
  <2>3. job'[p] = v /\ categories' = categories
    BY <1>1, <2>2 DEF OnlyReads
  <2>4. c # into /\ categories[c] # NULL /\ categories[into] # NULL
    BY <1>5 DEF ReadKinds
  <2> QED
    BY <2>1, <2>3, <2>4 DEF KindsAreCurrent
<1>6. ASSUME NEW x \in Uuids, ReadTransfer(p, x) PROVE KindsAreCurrent(job[p])'
  <2> DEFINE v == [op |-> "split", found |-> x, row |-> transfers[x]]
  <2>1. v.op # "merge"
    OBVIOUS
  <2>2. Remember(p, v)
    BY <1>6 DEF ReadTransfer
  <2> HIDE DEF v
  <2> QED
    BY <1>2, <2>1, <2>2
<1>7. ASSUME NEW t \in Txs, FindTransfer(p, t) PROVE KindsAreCurrent(job[p])'
  <2> DEFINE v(x) == [op |-> "detach", tx |-> t, id |-> x]
             w == [op |-> "remove", tx |-> t, found |-> NULL, row |-> NULL]
  <2>1. w.op # "merge" /\ \A x : v(x).op # "merge"
    OBVIOUS
  <2>2. Remember(p, w) \/ \E x : Remember(p, v(x))
    BY <1>7 DEF FindTransfer
  <2> HIDE DEF v, w
  <2> QED
    BY <1>2, <2>1, <2>2
<1>8. ASSUME ReadFoundTransfer(p) PROVE KindsAreCurrent(job[p])'
  <2> DEFINE v == [op |-> "remove", tx |-> job[p].tx,
                   found |-> IF transfers[job[p].id] = NULL THEN NULL ELSE job[p].id,
                   row |-> transfers[job[p].id]]
  <2>1. v.op # "merge"
    OBVIOUS
  <2>2. Remember(p, v)
    BY <1>8 DEF ReadFoundTransfer
  <2> HIDE DEF v
  <2> QED
    BY <1>2, <2>1, <2>2
<1>9. ASSUME FindPairs(p) PROVE KindsAreCurrent(job[p])'
  <2>1. PICK P : Remember(p, [op |-> "detect", pairs |-> P])
    BY <1>9 DEF FindPairs
  <2> DEFINE v == [op |-> "detect", pairs |-> P]
  <2>2. v.op # "merge" /\ Remember(p, v)
    BY <2>1
  <2> HIDE DEF v
  <2> QED
    BY <1>2, <2>2
<1> QED
  BY <1>3, <1>4, <1>5, <1>6, <1>7, <1>8, <1>9
     DEF Step, CreateTransaction, MergeCategory, SplitTransfer, DeleteTransaction,
         LinkPairs, Fails

-----------------------------------------------------------------------------
(* Theorems.                                                               *)

LEMMA InitCounted == Init => CountedInv
<1> SUFFICES ASSUME Init PROVE CountedInv
  OBVIOUS
<1>1. IInv
  BY InitInv
<1>2. CountedOnce
  BY DEF Init, CountedOnce
<1>3. \A p \in Threads : Idle(p)
  BY DEF Init, Idle
<1> QED
  BY <1>1, <1>2, <1>3 DEF CountedInv

LEMMA NextCounted ==
    ASSUME \A p, q \in Threads : p = q
    PROVE  CountedInv /\ [Next]_vars => CountedInv'
<1> SUFFICES ASSUME CountedInv, [Next]_vars PROVE CountedInv'
  OBVIOUS
<1>0. IInv /\ CountedOnce /\ IInv'
  BY NextInv DEF CountedInv
<1>1. ASSUME NEW p \in Threads, Step(p) PROVE CountedInv'
  <2>1. CountedOnce'
    BY <1>0, <1>1, StepCounts DEF CountedInv
  <2>2. ~Idle(p)' => KindsAreCurrent(job[p])'
    BY <1>0, <1>1, StepReads
  <2>3. \A q \in Threads : ~Idle(q)' => KindsAreCurrent(job[q])'
    BY <2>2
  <2> QED
    BY <1>0, <2>1, <2>3 DEF CountedInv
<1>2. ASSUME NEW p \in Threads, Idle(p), Handler PROVE CountedInv'
  <2>1. CountedOnce'
    BY <1>0, <1>2, HandlerCounts
  <2>2. \A q \in Threads : Idle(q)'
    BY <1>2 DEF Handler, Idle
  <2> QED
    BY <1>0, <2>1, <2>2 DEF CountedInv
<1>3. CASE UNCHANGED vars
  BY <1>0, <1>3 DEF vars, CountedInv, CountedOnce, IsSplit, Idle, KindsAreCurrent
<1> QED
  BY <1>1, <1>2, <1>3 DEF Next

\* A split transaction counts through its parts only: it has no category, is no
\* leg of a transfer, and its parts have categories that exist (replace_splits,
\* link, merge_category, ON DELETE RESTRICT), for ledgers of any size.
THEOREM CountsOnce ==
    ASSUME \A p, q \in Threads : p = q
    PROVE  Spec => []CountedOnce
<1>1. CountedInv => CountedOnce
  BY DEF CountedInv
<1>2. CountedInv /\ [Next]_vars => CountedInv'
  BY NextCounted
<1> QED
  BY <1>1, <1>2, InitCounted, PTL DEF Spec

-----------------------------------------------------------------------------
(* The parts of a split, whatever the threads do.                          *)

LEMMA PartsSummed ==
    ASSUME NEW parts \in [Cats -> Int]
    PROVE  FoldFunction(+, 0, parts) = SumFunctionOnSet(parts, Cats)
BY DEF FoldFunction, SumFunctionOnSet, FoldFunctionOnSet

LEMMA CatsFinite == IsFiniteSet(Cats)
BY FS_Interval, TransferLedgerAssumption DEF Cats

\* Moving the parts of one category to another does not change their sum.
LEMMA RefiledSum ==
    ASSUME NEW parts \in [Cats -> Int], NEW c \in Cats, NEW into \in Cats, c # into
    PROVE  /\ Refiled(parts, c, into) \in [Cats -> Int]
           /\ FoldFunction(+, 0, Refiled(parts, c, into)) = FoldFunction(+, 0, parts)
<1> DEFINE moved == [parts EXCEPT ![into] = parts[into] + parts[c]]
           left  == [moved EXCEPT ![c] = 0]
<1>1. moved \in [Cats -> Int] /\ left \in [Cats -> Int] /\ left = Refiled(parts, c, into)
  BY DEF Refiled
<1>2. /\ moved[into] = parts[into] + parts[c] /\ moved[c] = parts[c] /\ left[c] = 0
      /\ \A d \in Cats \ {into} : parts[d] = moved[d]
      /\ \A d \in Cats \ {c} : moved[d] = left[d]
  OBVIOUS
<1> HIDE DEF moved, left
<1>3. \A d \in Cats : parts[d] \in Int /\ moved[d] \in Int /\ left[d] \in Int
  BY <1>1
<1>4. SumFunctionOnSet(moved, Cats) = SumFunctionOnSet(parts, Cats) - parts[into] + moved[into]
  BY <1>2, <1>3, CatsFinite, SumChange
<1>5. SumFunctionOnSet(left, Cats) = SumFunctionOnSet(moved, Cats) - moved[c] + left[c]
  BY <1>2, <1>3, CatsFinite, SumChange
<1>6. SumFunctionOnSet(parts, Cats) \in Int
  BY <1>3, CatsFinite, SumType
<1>7. SumFunctionOnSet(left, Cats) = SumFunctionOnSet(parts, Cats)
  BY <1>2, <1>3, <1>4, <1>5, <1>6
<1> QED
  BY <1>1, <1>7, PartsSummed

\* Where c has no part, none arrive.
LEMMA RefiledNone ==
    ASSUME NEW c \in Cats, NEW into \in Cats
    PROVE  Refiled(NoSplits, c, into) = NoSplits
<1>1. NoSplits \in [Cats -> Int] /\ \A d \in Cats : NoSplits[d] = 0
  BY DEF NoSplits
<1>2. NoSplits[into] + NoSplits[c] = 0
  BY <1>1
<1> QED
  BY <1>1, <1>2 DEF Refiled, NoSplits

\* PartsAddUp says of the table what AddsUp says of a row.
AddsUp(row) == row # NULL /\ row.splits # NoSplits => SplitTotal(row) = row.amount

LEMMA SumByRow == PartsAddUp <=> \A t \in Txs : AddsUp(transactions[t])
BY DEF PartsAddUp, AddsUp, IsSplit

LEMMA SumByRowNext == PartsAddUp' <=> \A t \in Txs : AddsUp(transactions'[t])
BY DEF PartsAddUp, AddsUp, IsSplit

\* A row that keeps amount and parts, or has none, is added up as before.
SameMoney(t) ==
    \/ transactions'[t] = NULL
    \/ transactions'[t].splits = NoSplits
    \/ /\ transactions[t] # NULL
       /\ transactions'[t].splits = transactions[t].splits
       /\ transactions'[t].amount = transactions[t].amount

LEMMA MoneyKept ==
    ASSUME PartsAddUp, \A t \in Txs : SameMoney(t) \/ AddsUp(transactions'[t])
    PROVE  PartsAddUp'
BY SumByRow, SumByRowNext DEF SameMoney, AddsUp, SplitTotal

\* The legs of a transfer, detached or linked, keep their money.
LEMMA DetachMoney ==
    ASSUME TypeOK, PartsAddUp, NEW R, NEW D, NEW S, DeleteRows(Detached(R), D, S)
    PROVE  PartsAddUp'
<1> DEFINE T == Detached(R)
<1>1. \A t \in Txs : transactions'[t] = IF t \in S THEN NULL ELSE T[t]
  BY DEF DeleteRows, WithoutRows
<1>2. ASSUME NEW t \in Txs
      PROVE  \/ T[t] = transactions[t]
             \/ /\ transactions[t] # NULL /\ T[t].splits = transactions[t].splits
                /\ T[t].amount = transactions[t].amount
  <2>1. CASE transactions[t] # NULL /\ \E r \in R : IsLeg(t, r)
    <3>1. transactions[t] \in Rows
      BY <2>1 DEF TypeOK
    <3> DEFINE c == SavedCategory(t, CHOOSE r \in R : IsLeg(t, r))
    <3>2. T[t] = [transactions[t] EXCEPT !.transfer_id = NULL, !.category_id = c]
      BY <2>1 DEF Detached
    <3> HIDE DEF c, T
    <3> QED
      BY <2>1, <3>1, <3>2 DEF Rows
  <2>2. CASE ~(transactions[t] # NULL /\ \E r \in R : IsLeg(t, r))
    BY <2>2 DEF Detached
  <2> QED
    BY <2>1, <2>2
<1> HIDE DEF T
<1>3. \A t \in Txs : SameMoney(t)
  BY <1>1, <1>2 DEF SameMoney
<1> QED
  BY <1>3, MoneyKept

LEMMA LinkMoney ==
    ASSUME PartsAddUp, NEW T, NEW P, NEW id, LinkAll(T, P, id),
           \A t \in Txs : T[t] = transactions[t] \/ T[t].splits = NoSplits,
           \A q \in P : \A t \in {q[1], q[2]} : T[t] \in Rows
    PROVE  PartsAddUp'
<1>1. ASSUME NEW t \in Txs PROVE SameMoney(t)
  <2>1. CASE \E q \in P : t \in {q[1], q[2]}
    <3>1. T[t] \in Rows /\ T[t] # NULL
      BY <2>1, TransferLedgerAssumption
    <3> DEFINE x == id[CHOOSE q \in P : t \in {q[1], q[2]}]
    <3>2. transactions'[t] = [T[t] EXCEPT !.category_id = NULL, !.transfer_id = x]
      BY <2>1 DEF LinkAll
    <3> HIDE DEF x
    <3>3. transactions'[t].splits = T[t].splits /\ transactions'[t].amount = T[t].amount
      BY <3>1, <3>2 DEF Rows
    <3> QED
      BY <3>1, <3>3 DEF SameMoney
  <2>2. CASE ~\E q \in P : t \in {q[1], q[2]}
    BY <2>2 DEF LinkAll, SameMoney
  <2> QED
    BY <2>1, <2>2
<1> QED
  BY <1>1, MoneyKept

\* One row changes.
LEMMA OneRowMoney ==
    ASSUME TypeOK, PartsAddUp, NEW t \in Txs, NEW new,
           transactions' = [transactions EXCEPT ![t] = new], AddsUp(new)
    PROVE  PartsAddUp'
<1>1. \A s \in Txs : transactions'[s] = IF s = t THEN new ELSE transactions[s]
  BY DEF TypeOK
<1> QED
  BY <1>1, MoneyKept, SumByRow

-----------------------------------------------------------------------------
(* The handlers keep the sums.                                             *)

\* A split row may be patched only with the total of its parts as amount.
LEMMA PatchTransactionMoney ==
    ASSUME TypeOK, PartsAddUp, NEW t \in Txs, NEW amount \in Amounts \cup {NULL},
           NEW c \in Cats \cup {0, NULL}, NEW account \in Accounts \cup {NULL},
           PatchTransaction(t, amount, c, account)
    PROVE  PartsAddUp'
<1> DEFINE row == transactions[t]
           a == IF amount = NULL THEN row.amount ELSE amount
           d == IF c = NULL THEN row.category_id ELSE IF c = 0 THEN NULL ELSE c
           b == IF account = NULL THEN row.account_id ELSE account
           new == [row EXCEPT !.amount = a, !.category_id = d, !.account_id = b]
<1>1. row \in Rows /\ row # NULL
  BY DEF PatchTransaction, TypeOK
<1>2. row.splits # NoSplits => a = FoldFunction(+, 0, row.splits)
  BY DEF PatchTransaction, IsSplit, SplitTotal
<1>3. transactions' = [transactions EXCEPT ![t] = new]
  BY DEF PatchTransaction
<1>4. new.splits = row.splits /\ new.amount = a
  <2> HIDE DEF a, b, d, row
  <2> QED
    BY <1>1 DEF Rows
<1>5. AddsUp(new)
  <2> HIDE DEF new, a, row
  <2> QED
    BY <1>2, <1>4 DEF AddsUp, SplitTotal
<1> HIDE DEF new
<1> QED
  BY <1>3, <1>5, OneRowMoney

LEMMA ReplaceSplitsMoney ==
    ASSUME TypeOK, PartsAddUp, NEW t \in Txs, NEW parts, ReplaceSplits(t, parts)
    PROVE  PartsAddUp'
<1> DEFINE row == transactions[t]
           d == IF parts = NoSplits THEN row.category_id ELSE NULL
           new == [row EXCEPT !.splits = parts, !.category_id = d]
<1>1. row \in Rows
  BY DEF ReplaceSplits, TypeOK
<1>2. transactions' = [transactions EXCEPT ![t] = new]
  BY DEF ReplaceSplits
<1>3. new.splits = parts /\ new.amount = row.amount
  <2> HIDE DEF d, row
  <2> QED
    BY <1>1 DEF Rows
<1>4. AddsUp(new)
  <2>1. parts # NoSplits => FoldFunction(+, 0, parts) = row.amount
    BY DEF ReplaceSplits
  <2> HIDE DEF new, row
  <2> QED
    BY <1>3, <2>1 DEF AddsUp, SplitTotal
<1> HIDE DEF new
<1> QED
  BY <1>2, <1>4, OneRowMoney

LEMMA BulkCategorizeMoney ==
    ASSUME TypeOK, PartsAddUp, NEW S \in SUBSET Txs, NEW c, BulkCategorize(S, c)
    PROVE  PartsAddUp'
<1>1. ASSUME NEW t \in Txs PROVE SameMoney(t)
  <2>1. CASE t \in S
    <3>1. transactions[t] \in Rows /\ transactions[t].splits = NoSplits
      BY <2>1 DEF BulkCategorize, IsSplit, TypeOK
    <3>2. transactions'[t] = [transactions[t] EXCEPT !.category_id = c]
      BY <2>1 DEF BulkCategorize
    <3> QED
      BY <3>1, <3>2 DEF SameMoney, Rows
  <2>2. CASE t \notin S
    BY <2>2 DEF BulkCategorize, SameMoney
  <2> QED
    BY <2>1, <2>2
<1> QED
  BY <1>1, MoneyKept

LEMMA DeleteCategoryMoney ==
    ASSUME TypeOK, PartsAddUp, NEW c \in Cats, DeleteCategory(c)
    PROVE  PartsAddUp'
<1>1. ASSUME NEW t \in Txs PROVE SameMoney(t)
  <2>1. CASE transactions[t] # NULL /\ transactions[t].category_id = c
    <3>1. transactions[t] \in Rows
      BY <2>1 DEF TypeOK
    <3>2. transactions'[t] = [transactions[t] EXCEPT !.category_id = NULL]
      BY <2>1 DEF DeleteCategory
    <3> QED
      BY <2>1, <3>1, <3>2 DEF SameMoney, Rows
  <2>2. CASE ~(transactions[t] # NULL /\ transactions[t].category_id = c)
    BY <2>2 DEF DeleteCategory, SameMoney
  <2> QED
    BY <2>1, <2>2
<1> QED
  BY <1>1, MoneyKept

LEMMA CreateTransferMoney ==
    ASSUME TypeOK, PartsAddUp, NEW o \in Txs, NEW from \in Accounts, NEW to \in Accounts,
           NEW amount \in Amounts, NEW x \in Uuids, CreateTransfer(o, from, to, amount, x)
    PROVE  PartsAddUp'
<1> DEFINE P == {<<o, o + 1>>}
           id == [q \in P |-> x]
           r1 == NewRow(from, -amount, NULL)
           r2 == NewRow(to, amount, NULL)
           T == [transactions EXCEPT ![o] = r1, ![o + 1] = r2]
<1>1. o + 1 \in Txs /\ o # o + 1
  BY DEF CreateTransfer, Txs
<1>2. r1 \in Rows /\ r2 \in Rows /\ r1.splits = NoSplits /\ r2.splits = NoSplits
  <2>1. amount \in Int /\ -amount \in Int
    BY TransferLedgerAssumption
  <2> QED
    BY <2>1, NewRowIsNoSplit
<1>3. LinkAll(T, P, id)
  BY DEF CreateTransfer
<1> HIDE DEF r1, r2
<1>4. \A t \in Txs : T[t] = IF t = o + 1 THEN r2 ELSE IF t = o THEN r1 ELSE transactions[t]
  BY <1>1 DEF TypeOK
<1>5. \A q \in P : q[1] = o /\ q[2] = o + 1
  OBVIOUS
<1> HIDE DEF T, P, id
<1>6. \A t \in Txs : T[t] = transactions[t] \/ T[t].splits = NoSplits
  BY <1>2, <1>4
<1>7. \A q \in P : \A t \in {q[1], q[2]} : T[t] \in Rows
  BY <1>1, <1>2, <1>4, <1>5
<1> QED
  BY <1>3, <1>6, <1>7, LinkMoney

LEMMA LinkedMoney ==
    ASSUME TypeOK, PartsAddUp, NEW P \in SUBSET Pairs, NEW id, LinkAll(transactions, P, id),
           \A q \in P : transactions[q[1]] # NULL /\ transactions[q[2]] # NULL
    PROVE  PartsAddUp'
<1>1. \A q \in P : \A t \in {q[1], q[2]} : transactions[t] \in Rows
  BY DEF Pairs, TypeOK
<1> QED
  BY <1>1, LinkMoney

LEMMA HandlerMoney ==
    ASSUME TypeOK, PartsAddUp, Handler
    PROVE  PartsAddUp'
<1> USE DEF Handler
<1>1. ASSUME NEW t \in Txs, NEW amount \in Amounts \cup {NULL},
             NEW c \in Cats \cup {0, NULL}, NEW account \in Accounts \cup {NULL},
             PatchTransaction(t, amount, c, account)
      PROVE  PartsAddUp'
  BY <1>1, PatchTransactionMoney
<1>2. ASSUME NEW t \in Txs, NEW parts, ReplaceSplits(t, parts) PROVE PartsAddUp'
  BY <1>2, ReplaceSplitsMoney
<1>3. ASSUME NEW S \in SUBSET Txs, BulkDelete(S) PROVE PartsAddUp'
  BY <1>3, DetachMoney DEF BulkDelete
<1>4. ASSUME NEW S \in SUBSET Txs, NEW c \in Cats \cup {NULL}, BulkCategorize(S, c)
      PROVE  PartsAddUp'
  BY <1>4, BulkCategorizeMoney
<1>5. ASSUME NEW o \in Txs, NEW from \in Accounts, NEW to \in Accounts,
             NEW amount \in Amounts, NEW x \in Uuids, CreateTransfer(o, from, to, amount, x)
      PROVE  PartsAddUp'
  BY <1>5, CreateTransferMoney
<1>6. ASSUME NEW o \in Txs, NEW i \in Txs, NEW x \in Uuids, Link(o, i, x) PROVE PartsAddUp'
  <2> DEFINE P == {<<o, i>>}
             id == [q \in P |-> x]
  <2>1. LinkAll(transactions, P, id) /\ P \in SUBSET Pairs
    BY <1>6 DEF Link, Pairs
  <2>2. \A q \in P : transactions[q[1]] # NULL /\ transactions[q[2]] # NULL
    BY <1>6 DEF Link, Linkable
  <2> HIDE DEF P, id
  <2> QED
    BY <2>1, <2>2, LinkedMoney
<1>7. ASSUME UNCHANGED transactions PROVE PartsAddUp'
  BY <1>7, SumByRow, SumByRowNext
<1>8. ASSUME NEW x \in Uuids, DeleteWithLegs(x) PROVE PartsAddUp'
  BY <1>8, MoneyKept DEF DeleteWithLegs, DeleteRows, WithoutRows, SameMoney
<1>9. ASSUME NEW c \in Cats, DeleteCategory(c) PROVE PartsAddUp'
  BY <1>9, DeleteCategoryMoney
<1> QED
  BY <1>1, <1>2, <1>3, <1>4, <1>5, <1>6, <1>7, <1>8, <1>9 DEF Dismiss, CreateCategory, Retype

\* A merge moves parts between two categories.
MergesTwo == \A p \in Threads : ~Idle(p) /\ job[p].op = "merge" => job[p].from # job[p].into

LEMMA MergeCategoryMoney ==
    ASSUME TypeOK, PartsAddUp, MergesTwo, NEW p \in Threads, MergeCategory(p)
    PROVE  PartsAddUp'
<1> DEFINE c == job[p].from
           into == job[p].into
           D(t) == IF transactions[t].category_id = c THEN into ELSE transactions[t].category_id
           B(t) == Refiled(transactions[t].splits, c, into)
<1>1. c \in Cats /\ into \in Cats /\ c # into
  BY JobKinds DEF MergeCategory, TypeOK, Idle, MergesTwo
<1>2. \A t \in Txs : transactions'[t] =
          IF transactions[t] = NULL THEN NULL
          ELSE [transactions[t] EXCEPT !.category_id = D(t), !.splits = B(t)]
  BY DEF MergeCategory
<1> HIDE DEF c, into
<1>3. ASSUME NEW t \in Txs, transactions[t] # NULL PROVE AddsUp(transactions'[t])
  <2>1. transactions[t] \in Rows /\ transactions[t].splits \in [Cats -> Int]
    BY <1>3 DEF TypeOK, Rows
  <2>2. /\ transactions'[t].splits = B(t)
        /\ transactions'[t].amount = transactions[t].amount
    <3> HIDE DEF B, D
    <3> QED
      BY <1>2, <1>3, <2>1 DEF Rows
  <2>3. FoldFunction(+, 0, B(t)) = FoldFunction(+, 0, transactions[t].splits)
    BY <1>1, <2>1, RefiledSum
  <2>4. transactions[t].splits = NoSplits => B(t) = NoSplits
    BY <1>1, RefiledNone
  <2>5. AddsUp(transactions[t])
    BY SumByRow
  <2> HIDE DEF B
  <2> QED
    BY <1>3, <2>2, <2>3, <2>4, <2>5 DEF AddsUp, SplitTotal
<1>4. \A t \in Txs : transactions[t] = NULL => transactions'[t] = NULL
  BY <1>2
<1> QED
  BY <1>3, <1>4, MoneyKept DEF SameMoney

LEMMA StepMoney ==
    ASSUME TypeOK, PartsAddUp, MergesTwo, NEW p \in Threads, Step(p)
    PROVE  PartsAddUp'
<1>1. ASSUME OnlyReads PROVE PartsAddUp'
  BY <1>1, SumByRow, SumByRowNext DEF OnlyReads
<1>2. ASSUME NEW t \in Txs, CreateTransaction(p, t) PROVE PartsAddUp'
  <2> DEFINE new == NewRow(job[p].account, job[p].amount, job[p].category)
  <2>1. transactions' = [transactions EXCEPT ![t] = new]
    BY <1>2 DEF CreateTransaction
  <2>2. new.splits = NoSplits
    BY DEF NewRow
  <2> HIDE DEF new
  <2> QED
    BY <2>1, <2>2, OneRowMoney DEF AddsUp, SplitTotal
<1>3. CASE MergeCategory(p)
  BY <1>3, MergeCategoryMoney
<1>4. CASE SplitTransfer(p)
  BY <1>4, DetachMoney DEF SplitTransfer
<1>5. CASE DeleteTransaction(p)
  BY <1>5, DetachMoney DEF DeleteTransaction
<1>6. CASE LinkPairs(p)
  <2> DEFINE P == {q \in job[p].pairs : Linkable(transactions, q[1], q[2])}
  <2>1. P \in SUBSET Pairs
    BY <1>6, JobKinds DEF LinkPairs, TypeOK, Idle
  <2>2. \A q \in P : transactions[q[1]] # NULL /\ transactions[q[2]] # NULL
    BY DEF Linkable
  <2>3. PICK id \in [P -> Fresh] : LinkAll(transactions, P, id)
    BY <1>6 DEF LinkPairs
  <2> HIDE DEF P
  <2> QED
    BY <2>1, <2>2, <2>3, LinkedMoney
<1> QED
  BY <1>1, <1>2, <1>3, <1>4, <1>5, <1>6
     DEF Step, ReadCategory, ReadKinds, ReadTransfer, FindTransfer, ReadFoundTransfer,
         FindPairs, Fails

LEMMA StepMergesTwo ==
    ASSUME TypeOK, MergesTwo, NEW p \in Threads, Step(p)
    PROVE  MergesTwo'
<1>1. ASSUME NEW v, Remember(p, v), v = NULL \/ v.op # "merge" \/ v.from # v.into
      PROVE  MergesTwo'
  <2>1. \A q \in Threads : job'[q] = IF q = p THEN v ELSE job[q]
    BY <1>1 DEF Remember, TypeOK
  <2> QED
    BY <1>1, <2>1 DEF MergesTwo, Idle
<1>2. ASSUME NEW account \in Accounts, NEW amount \in Amounts, NEW c \in Cats \cup {NULL},
             ReadCategory(p, account, amount, c)
      PROVE  MergesTwo'
  <2> DEFINE v == [op |-> "create", account |-> account, amount |-> amount, category |-> c]
  <2>1. Remember(p, v) /\ v.op # "merge"
    BY <1>2 DEF ReadCategory
  <2> HIDE DEF v
  <2> QED
    BY <1>1, <2>1
<1>3. ASSUME NEW c \in Cats, NEW into \in Cats, ReadKinds(p, c, into) PROVE MergesTwo'
  <2> DEFINE v == [op |-> "merge", from |-> c, into |-> into]
  <2>1. Remember(p, v) /\ v.from # v.into
    BY <1>3 DEF ReadKinds
  <2> HIDE DEF v
  <2> QED
    BY <1>1, <2>1
<1>4. ASSUME NEW x \in Uuids, ReadTransfer(p, x) PROVE MergesTwo'
  <2> DEFINE v == [op |-> "split", found |-> x, row |-> transfers[x]]
  <2>1. Remember(p, v) /\ v.op # "merge"
    BY <1>4 DEF ReadTransfer
  <2> HIDE DEF v
  <2> QED
    BY <1>1, <2>1
<1>5. ASSUME NEW t \in Txs, FindTransfer(p, t) PROVE MergesTwo'
  <2> DEFINE v(x) == [op |-> "detach", tx |-> t, id |-> x]
             w == [op |-> "remove", tx |-> t, found |-> NULL, row |-> NULL]
  <2>1. w.op # "merge" /\ \A x : v(x).op # "merge"
    OBVIOUS
  <2>2. Remember(p, w) \/ \E x : Remember(p, v(x))
    BY <1>5 DEF FindTransfer
  <2> HIDE DEF v, w
  <2> QED
    BY <1>1, <2>1, <2>2
<1>6. ASSUME ReadFoundTransfer(p) PROVE MergesTwo'
  <2> DEFINE v == [op |-> "remove", tx |-> job[p].tx,
                   found |-> IF transfers[job[p].id] = NULL THEN NULL ELSE job[p].id,
                   row |-> transfers[job[p].id]]
  <2>1. Remember(p, v) /\ v.op # "merge"
    BY <1>6 DEF ReadFoundTransfer
  <2> HIDE DEF v
  <2> QED
    BY <1>1, <2>1
<1>7. ASSUME FindPairs(p) PROVE MergesTwo'
  <2>1. PICK P : Remember(p, [op |-> "detect", pairs |-> P])
    BY <1>7 DEF FindPairs
  <2> DEFINE v == [op |-> "detect", pairs |-> P]
  <2>2. v.op # "merge" /\ Remember(p, v)
    BY <2>1
  <2> HIDE DEF v
  <2> QED
    BY <1>1, <2>2
<1>8. ASSUME Remember(p, NULL) PROVE MergesTwo'
  BY <1>1, <1>8
<1> QED
  BY <1>2, <1>3, <1>4, <1>5, <1>6, <1>7, <1>8
     DEF Step, CreateTransaction, MergeCategory, SplitTransfer, DeleteTransaction,
         LinkPairs, Fails

\* The parts of a split add up to its transaction, for ledgers of any size and
\* however many requests overlap: a stale read never leads to a write that
\* changes an amount or its parts alone (replace_splits, patch_transaction,
\* merge_category, split, link).
THEOREM PartsAlwaysAddUp == Spec => []PartsAddUp
<1>1. Spec => []TypeOK
  BY TypesHold
<1>2. Init => PartsAddUp /\ MergesTwo
  BY DEF Init, PartsAddUp, MergesTwo, Idle
<1>3. TypeOK /\ PartsAddUp /\ MergesTwo /\ [Next]_vars => PartsAddUp' /\ MergesTwo'
  <2> SUFFICES ASSUME TypeOK, PartsAddUp, MergesTwo, [Next]_vars PROVE PartsAddUp' /\ MergesTwo'
    OBVIOUS
  <2>1. CASE UNCHANGED vars
    BY <2>1, SumByRow, SumByRowNext DEF vars, MergesTwo, Idle
  <2>2. ASSUME NEW p \in Threads, Step(p) PROVE PartsAddUp' /\ MergesTwo'
    BY <2>2, StepMoney, StepMergesTwo
  <2>3. CASE Handler
    <3>1. MergesTwo'
      BY <2>3 DEF Handler, MergesTwo, Idle
    <3> QED
      BY <2>3, <3>1, HandlerMoney
  <2> QED
    BY <2>1, <2>2, <2>3 DEF Next
<1> QED
  BY <1>1, <1>2, <1>3, PTL DEF Spec

-----------------------------------------------------------------------------
(* Signs, as long as requests do not overlap.                              *)

\* Every row is filed under a category that exists, or under none.
FilesExist ==
    \A t \in Txs : transactions[t] # NULL /\ transactions[t].category_id # NULL
        => categories[transactions[t].category_id] # NULL

\* What create_transaction and merge_category have read is still true when they
\* write.
Knows(read) ==
    /\ read.op = "create" /\ read.category # NULL => Resolves(read.category, read.amount)
    /\ read.op = "merge" => /\ categories[read.from] # NULL
                            /\ categories[read.into] = categories[read.from]

GuardInv ==
    /\ CountedInv
    /\ PartsAddUp
    /\ FilesExist
    /\ \A p \in Threads : ~Idle(p) => Knows(job[p])

Guarded(t) ==
    Mismatched(t)' => Mismatched(t) \/ (transactions[t] # NULL /\ transactions[t].transfer_id # NULL)

\* A category that resolves for an amount has its sign.
LEMMA ResolvedSign ==
    ASSUME NEW c, NEW amount \in Int, Resolves(c, amount)
    PROVE  categories[c] # NULL /\ ~(Sign(categories[c]) * amount < 0)
<1>1. CASE amount < 0
  BY <1>1 DEF Resolves
<1>2. CASE amount = 0
  BY <1>2 DEF Resolves, Sign
<1>3. CASE amount > 0
  BY <1>3 DEF Resolves
<1> QED
  BY <1>1, <1>2, <1>3

\* What a write may make of a row: nothing, a row filed where its sign belongs,
\* the same row filed as before or nowhere, a leg that gets its category back,
\* or parts that are each filed where their sign belongs.
Filing(t) ==
    \/ transactions'[t] = NULL
    \/ /\ transactions'[t].splits = NoSplits
       /\ \/ transactions'[t].category_id = NULL
          \/ Resolves(transactions'[t].category_id, transactions'[t].amount)
    \/ /\ transactions[t] # NULL
       /\ transactions'[t].splits = transactions[t].splits
       /\ transactions'[t].amount = transactions[t].amount
       /\ transactions'[t].category_id \in {transactions[t].category_id, NULL}
    \/ /\ transactions[t] # NULL /\ transactions[t].transfer_id # NULL
       /\ transactions'[t].category_id # NULL => categories[transactions'[t].category_id] # NULL
    \/ /\ transactions'[t].category_id = NULL
       /\ \A c \in Cats : transactions'[t].splits[c] # 0 => Resolves(c, transactions'[t].amount)

LEMMA FilingGuards ==
    ASSUME FilesExist, UNCHANGED categories, TypeOK', \A t \in Txs : Filing(t)
    PROVE  FilesExist' /\ \A t \in Txs : Guarded(t)
<1>1. \A t \in Txs : transactions'[t] # NULL => transactions'[t].amount \in Int
  BY DEF TypeOK, Rows
<1>2. \A c \in Cats : c # NULL
  BY TransferLedgerAssumption DEF Cats
<1>3. ASSUME NEW t \in Txs, transactions'[t] # NULL, transactions'[t].category_id # NULL
      PROVE  categories'[transactions'[t].category_id] # NULL
  BY <1>1, <1>3 DEF Filing, FilesExist, Resolves
<1>4. ASSUME NEW t \in Txs PROVE Guarded(t)
  <2> SUFFICES ASSUME transactions'[t] # NULL, NEW c \in Cats,
                      transactions'[t].category_id = c \/ transactions'[t].splits[c] # 0,
                      categories[c] # NULL, Sign(categories[c]) * transactions'[t].amount < 0,
                      transactions[t] # NULL => transactions[t].transfer_id = NULL
               PROVE  Mismatched(t)
    BY DEF Guarded, Mismatched
  <2>1. ~Resolves(c, transactions'[t].amount)
    BY <1>1, ResolvedSign
  <2>2. NoSplits[c] = 0
    BY DEF NoSplits
  <2> QED
    BY <1>2, <2>1, <2>2 DEF Filing, Mismatched
<1> QED
  BY <1>3, <1>4 DEF FilesExist

\* A leg of a transfer carries its id, so it may get its category back.
LEMMA DetachFiles ==
    ASSUME IInv, NEW D \in SUBSET Uuids, \A x \in D : transfers[x] # NULL,
           Restorable({transfers[x] : x \in D}),
           NEW E, NEW S, DeleteRows(Detached({transfers[x] : x \in D}), E, S)
    PROVE  \A t \in Txs : Filing(t)
<1> DEFINE R == {transfers[x] : x \in D}
           T == Detached(R)
<1>1. \A t \in Txs : transactions'[t] = IF t \in S THEN NULL ELSE T[t]
  BY DEF DeleteRows, WithoutRows
<1>2. ASSUME NEW t \in Txs
      PROVE  \/ T[t] = transactions[t]
             \/ /\ transactions[t] # NULL /\ transactions[t].transfer_id # NULL
                /\ T[t].category_id # NULL => categories[T[t].category_id] # NULL
  <2>1. CASE transactions[t] # NULL /\ \E r \in R : IsLeg(t, r)
    <3>1. transactions[t] \in Rows
      BY <2>1 DEF IInv, TypeOK
    <3>2. PICK x \in D : IsLeg(t, transfers[x]) /\ transfers[x] # NULL
      BY <2>1
    <3>3. transactions[t].transfer_id = x /\ x # NULL
      BY <2>1, <3>2, OneTransfer, TransferLedgerAssumption DEF IInv, PointersAgree
    <3> DEFINE r == CHOOSE r \in R : IsLeg(t, r)
               c == SavedCategory(t, r)
    <3>4. r \in R /\ IsLeg(t, r)
      BY <2>1
    <3>5. c # NULL => categories[c] # NULL
      BY <2>1, <3>4 DEF Restorable
    <3>6. T[t] = [transactions[t] EXCEPT !.transfer_id = NULL, !.category_id = c]
      BY <2>1 DEF Detached
    <3> HIDE DEF c, T, r
    <3>7. T[t].category_id = c
      BY <3>1, <3>6 DEF Rows
    <3> QED
      BY <2>1, <3>3, <3>5, <3>7
  <2>2. CASE ~(transactions[t] # NULL /\ \E r \in R : IsLeg(t, r))
    BY <2>2 DEF Detached
  <2> QED
    BY <2>1, <2>2
<1> HIDE DEF T
<1> QED
  BY <1>1, <1>2 DEF Filing

\* link() files its legs nowhere.
LEMMA LinkFiles ==
    ASSUME NEW T, NEW P, NEW id, LinkAll(T, P, id),
           \A t \in Txs : T[t] = transactions[t] \/ (T[t].splits = NoSplits /\ T[t].category_id = NULL),
           \A q \in P : \A t \in {q[1], q[2]} : T[t] \in Rows /\ T[t].splits = NoSplits
    PROVE  \A t \in Txs : Filing(t)
<1> TAKE t \in Txs
<1>1. CASE \E q \in P : t \in {q[1], q[2]}
  <2>1. T[t] \in Rows /\ T[t].splits = NoSplits
    BY <1>1
  <2> DEFINE x == id[CHOOSE q \in P : t \in {q[1], q[2]}]
  <2>2. transactions'[t] = [T[t] EXCEPT !.category_id = NULL, !.transfer_id = x]
    BY <1>1 DEF LinkAll
  <2> HIDE DEF x
  <2>3. transactions'[t].splits = NoSplits /\ transactions'[t].category_id = NULL
    BY <2>1, <2>2 DEF Rows
  <2> QED
    BY <2>3 DEF Filing
<1>2. CASE ~\E q \in P : t \in {q[1], q[2]}
  <2>1. transactions'[t] = T[t]
    BY <1>2 DEF LinkAll
  <2> QED
    BY <2>1 DEF Filing
<1> QED
  BY <1>1, <1>2

\* One row is written.
LEMMA OneRowFiled ==
    ASSUME TypeOK, NEW t \in Txs, NEW new, transactions' = [transactions EXCEPT ![t] = new], Filing(t)
    PROVE  \A s \in Txs : Filing(s)
<1>1. \A s \in Txs : s # t => transactions'[s] = transactions[s]
  BY DEF TypeOK
<1> QED
  BY <1>1 DEF Filing

-----------------------------------------------------------------------------
(* The handlers file rows where their sign belongs.                        *)

LEMMA PatchTransactionFiles ==
    ASSUME TypeOK, PartsAddUp, NEW t \in Txs, NEW amount \in Amounts \cup {NULL},
           NEW c \in Cats \cup {0, NULL}, NEW account \in Accounts \cup {NULL},
           PatchTransaction(t, amount, c, account)
    PROVE  \A s \in Txs : Filing(s)
<1> DEFINE row == transactions[t]
           a == IF amount = NULL THEN row.amount ELSE amount
           d == IF c = NULL THEN row.category_id ELSE IF c = 0 THEN NULL ELSE c
           b == IF account = NULL THEN row.account_id ELSE account
           new == [row EXCEPT !.amount = a, !.category_id = d, !.account_id = b]
<1>1. row \in Rows /\ row # NULL
  BY DEF PatchTransaction, TypeOK
<1>2. row.splits # NoSplits => a = row.amount /\ d = row.category_id
  BY DEF PatchTransaction, IsSplit, PartsAddUp
<1>3. transactions' = [transactions EXCEPT ![t] = new]
  BY DEF PatchTransaction
<1>4. new.splits = row.splits /\ new.amount = a /\ new.category_id = d
  <2> HIDE DEF a, b, d, row
  <2> QED
    BY <1>1 DEF Rows
<1>5. (c # NULL \/ amount # NULL) /\ d # NULL => Resolves(d, a)
  BY DEF PatchTransaction
<1>6. c = NULL /\ amount = NULL => a = row.amount /\ d = row.category_id
  OBVIOUS
<1>7. transactions'[t] = new
  BY <1>3 DEF TypeOK
<1>8. Filing(t)
  <2> HIDE DEF new, a, d
  <2> QED
    BY <1>1, <1>2, <1>4, <1>5, <1>6, <1>7 DEF Filing
<1> HIDE DEF new
<1> QED
  BY <1>3, <1>8, OneRowFiled

LEMMA ReplaceSplitsFiles ==
    ASSUME TypeOK, CountedOnce, NEW t \in Txs, NEW parts, ReplaceSplits(t, parts)
    PROVE  \A s \in Txs : Filing(s)
<1> DEFINE row == transactions[t]
           d == IF parts = NoSplits THEN row.category_id ELSE NULL
           new == [row EXCEPT !.splits = parts, !.category_id = d]
<1>1. row \in Rows /\ row # NULL
  BY DEF ReplaceSplits, TypeOK
<1>2. transactions' = [transactions EXCEPT ![t] = new]
  BY DEF ReplaceSplits
<1>3. new.splits = parts /\ new.amount = row.amount /\ new.category_id = d
  <2> HIDE DEF d, row
  <2> QED
    BY <1>1 DEF Rows
<1>4. parts # NoSplits => \A c \in Cats : parts[c] # 0 => Resolves(c, row.amount)
  BY DEF ReplaceSplits
<1>5. row.splits # NoSplits => row.category_id = NULL
  BY <1>1 DEF CountedOnce, IsSplit
<1>6. transactions'[t] = new
  BY <1>2 DEF TypeOK
<1>7. Filing(t)
  <2> HIDE DEF new
  <2> QED
    BY <1>1, <1>3, <1>4, <1>5, <1>6 DEF Filing
<1> HIDE DEF new
<1> QED
  BY <1>2, <1>7, OneRowFiled

LEMMA BulkCategorizeFiles ==
    ASSUME TypeOK, NEW S \in SUBSET Txs, NEW c, BulkCategorize(S, c)
    PROVE  \A t \in Txs : Filing(t)
<1> TAKE t \in Txs
<1>1. CASE t \in S
  <2>1. /\ transactions[t] \in Rows /\ transactions[t].splits = NoSplits
        /\ c # NULL => Resolves(c, transactions[t].amount)
    BY <1>1 DEF BulkCategorize, IsSplit, TypeOK
  <2>2. transactions'[t] = [transactions[t] EXCEPT !.category_id = c]
    BY <1>1 DEF BulkCategorize
  <2>3. /\ transactions'[t].splits = NoSplits /\ transactions'[t].category_id = c
        /\ transactions'[t].amount = transactions[t].amount
    BY <2>1, <2>2 DEF Rows
  <2> QED
    BY <2>1, <2>3 DEF Filing
<1>2. CASE t \notin S
  <2>1. transactions'[t] = transactions[t]
    BY <1>2 DEF BulkCategorize
  <2> QED
    BY <2>1 DEF Filing
<1> QED
  BY <1>1, <1>2

LEMMA CreateTransferFiles ==
    ASSUME TypeOK, NEW o \in Txs, NEW from \in Accounts, NEW to \in Accounts,
           NEW amount \in Amounts, NEW x \in Uuids, CreateTransfer(o, from, to, amount, x)
    PROVE  \A t \in Txs : Filing(t)
<1> DEFINE P == {<<o, o + 1>>}
           id == [q \in P |-> x]
           r1 == NewRow(from, -amount, NULL)
           r2 == NewRow(to, amount, NULL)
           T == [transactions EXCEPT ![o] = r1, ![o + 1] = r2]
<1>1. o + 1 \in Txs /\ o # o + 1
  BY DEF CreateTransfer, Txs
<1>2. /\ r1 \in Rows /\ r1.splits = NoSplits /\ r1.category_id = NULL
      /\ r2 \in Rows /\ r2.splits = NoSplits /\ r2.category_id = NULL
  <2>1. amount \in Int /\ -amount \in Int
    BY TransferLedgerAssumption
  <2> QED
    BY <2>1 DEF NewRow, Rows, NoSplits
<1>3. LinkAll(T, P, id)
  BY DEF CreateTransfer
<1> HIDE DEF r1, r2
<1>4. \A t \in Txs : T[t] = IF t = o + 1 THEN r2 ELSE IF t = o THEN r1 ELSE transactions[t]
  BY <1>1 DEF TypeOK
<1>5. \A q \in P : q[1] = o /\ q[2] = o + 1
  OBVIOUS
<1> HIDE DEF T, P, id
<1>6. \A t \in Txs : T[t] = transactions[t] \/ (T[t].splits = NoSplits /\ T[t].category_id = NULL)
  BY <1>2, <1>4
<1>7. \A q \in P : \A t \in {q[1], q[2]} : T[t] \in Rows /\ T[t].splits = NoSplits
  BY <1>1, <1>2, <1>4, <1>5
<1> QED
  BY <1>3, <1>6, <1>7, LinkFiles

LEMMA LinkedFiles ==
    ASSUME IInv, NEW P \in SUBSET Pairs, NEW id, LinkAll(transactions, P, id),
           \A q \in P : Linkable(transactions, q[1], q[2])
    PROVE  \A t \in Txs : Filing(t)
<1>1. ASSUME NEW q \in P
      PROVE  \A t \in {q[1], q[2]} :
                 transactions[t] \in Rows /\ transactions[t].splits = NoSplits
  <2>1. q[1] \in Txs /\ q[2] \in Txs
    BY DEF Pairs
  <2> QED
    BY <2>1, LinkableRows
<1> QED
  BY <1>1, LinkFiles

\* A category that goes, comes or is merged leaves no row with the wrong sign.
LEMMA DeleteCategoryGuards ==
    ASSUME TypeOK, FilesExist, NEW c \in Cats, DeleteCategory(c)
    PROVE  FilesExist' /\ \A t \in Txs : Guarded(t)
<1>1. \A d \in Cats : categories'[d] = IF d = c THEN NULL ELSE categories[d]
  BY DEF DeleteCategory, TypeOK
<1>2. ASSUME NEW t \in Txs, transactions[t] # NULL
      PROVE  /\ transactions'[t].splits = transactions[t].splits
             /\ transactions'[t].amount = transactions[t].amount
             /\ transactions'[t].category_id = IF transactions[t].category_id = c
                                               THEN NULL ELSE transactions[t].category_id
             /\ transactions[t].category_id \in Cats \cup {NULL}
  <2>1. transactions[t] \in Rows
    BY <1>2 DEF TypeOK
  <2>2. CASE transactions[t].category_id = c
    <3>1. transactions'[t] = [transactions[t] EXCEPT !.category_id = NULL]
      BY <1>2, <2>2 DEF DeleteCategory
    <3> QED
      BY <2>1, <2>2, <3>1 DEF Rows
  <2>3. CASE transactions[t].category_id # c
    <3>1. transactions'[t] = transactions[t]
      BY <2>3 DEF DeleteCategory
    <3> QED
      BY <2>1, <2>3, <3>1 DEF Rows
  <2> QED
    BY <2>2, <2>3
<1>3. \A t \in Txs : transactions[t] = NULL => transactions'[t] = NULL
  BY DEF DeleteCategory
<1>4. \A d \in Cats : d # NULL
  BY TransferLedgerAssumption DEF Cats
<1>5. ASSUME NEW t \in Txs, transactions'[t] # NULL, transactions'[t].category_id # NULL
      PROVE  categories'[transactions'[t].category_id] # NULL
  BY <1>1, <1>2, <1>3, <1>5 DEF FilesExist
<1>6. ASSUME NEW t \in Txs PROVE Guarded(t)
  BY <1>1, <1>2, <1>3, <1>4 DEF Guarded, Mismatched
<1> QED
  BY <1>5, <1>6 DEF FilesExist

LEMMA CreateCategoryGuards ==
    ASSUME TypeOK, FilesExist, CountedOnce, NEW c \in Cats, NEW type \in Types, CreateCategory(c, type)
    PROVE  FilesExist' /\ \A t \in Txs : Guarded(t)
<1>1. /\ \A d \in Cats : categories'[d] = IF d = c THEN type ELSE categories[d]
      /\ UNCHANGED transactions /\ categories[c] = NULL
  BY DEF CreateCategory, NextId, TypeOK, Cats
<1>2. ASSUME NEW t \in Txs, transactions[t] # NULL
      PROVE  /\ transactions[t].category_id # c /\ transactions[t].splits[c] = 0
             /\ transactions[t].category_id \in Cats \cup {NULL}
  <2>1. transactions[t].category_id \in Cats \cup {NULL} /\ c # NULL
    BY <1>2, TransferLedgerAssumption DEF TypeOK, Rows, Cats
  <2>2. transactions[t].splits = NoSplits => transactions[t].splits[c] = 0
    BY DEF NoSplits
  <2> QED
    BY <1>1, <1>2, <2>1, <2>2 DEF FilesExist, CountedOnce, IsSplit
<1>3. type # NULL
  BY TransferLedgerAssumption
<1> QED
  BY <1>1, <1>2, <1>3 DEF FilesExist, Guarded, Mismatched

LEMMA MergeCategoryGuards ==
    ASSUME TypeOK, FilesExist, NEW p \in Threads, Knows(job[p]), MergeCategory(p),
           job[p].from # job[p].into
    PROVE  FilesExist' /\ \A t \in Txs : Guarded(t)
<1> DEFINE c == job[p].from
           into == job[p].into
           D(t) == IF transactions[t].category_id = c THEN into ELSE transactions[t].category_id
           B(t) == Refiled(transactions[t].splits, c, into)
<1>1. /\ c \in Cats /\ into \in Cats /\ c # into /\ c # NULL /\ into # NULL
      /\ categories[c] # NULL /\ categories[into] = categories[c]
  <2>1. job[p] \in Jobs \cup {NULL} /\ job[p] # NULL /\ job[p].op = "merge"
    BY DEF MergeCategory, TypeOK, Idle
  <2>2. c \in Cats /\ into \in Cats
    <3> HIDE DEF c, into
    <3>1. job[p].from \in Cats /\ job[p].into \in Cats
      BY <2>1, JobKinds
    <3> QED
      BY <3>1 DEF c, into
  <2>3. categories[c] # NULL /\ categories[into] = categories[c]
    BY <2>1 DEF Knows
  <2>4. \A d \in Cats : d # NULL
    BY TransferLedgerAssumption DEF Cats
  <2> QED
    BY <2>2, <2>3, <2>4
<1>2. \A d \in Cats : categories'[d] = IF d = c THEN NULL ELSE categories[d]
  BY DEF MergeCategory, TypeOK
<1>3. \A t \in Txs : transactions'[t] =
          IF transactions[t] = NULL THEN NULL
          ELSE [transactions[t] EXCEPT !.category_id = D(t), !.splits = B(t)]
  BY DEF MergeCategory
<1> HIDE DEF c, into
<1>4. ASSUME NEW t \in Txs, transactions[t] # NULL
      PROVE  /\ transactions'[t].category_id = D(t) /\ transactions'[t].splits = B(t)
             /\ transactions'[t].amount = transactions[t].amount
             /\ transactions[t].category_id \in Cats \cup {NULL}
             /\ B(t)[into] # 0 => transactions[t].splits[into] # 0 \/ transactions[t].splits[c] # 0
             /\ \A d \in Cats \ {c, into} : B(t)[d] = transactions[t].splits[d]
  <2>1. transactions[t] \in Rows /\ transactions[t].splits \in [Cats -> Int]
    BY <1>4 DEF TypeOK, Rows
  <2>2. /\ transactions'[t].category_id = D(t) /\ transactions'[t].splits = B(t)
        /\ transactions'[t].amount = transactions[t].amount
    <3> HIDE DEF B, D
    <3> QED
      BY <1>3, <1>4, <2>1 DEF Rows
  <2>3. B(t)[into] = transactions[t].splits[into] + transactions[t].splits[c]
    BY <1>1, <2>1 DEF Refiled
  <2>4. \A d \in Cats \ {c, into} : B(t)[d] = transactions[t].splits[d]
    BY <1>1, <2>1 DEF Refiled
  <2>5. transactions[t].category_id \in Cats \cup {NULL}
    BY <2>1 DEF Rows
  <2> HIDE DEF B, D
  <2> QED
    BY <1>1, <2>1, <2>2, <2>3, <2>4, <2>5
<1> HIDE DEF B
<1>5. ASSUME NEW t \in Txs, transactions'[t] # NULL
      PROVE  /\ transactions[t] # NULL
             /\ transactions'[t].category_id # NULL => categories'[transactions'[t].category_id] # NULL
  <2>1. transactions[t] # NULL
    BY <1>3, <1>5
  <2>2. transactions'[t].category_id = D(t) /\ transactions[t].category_id \in Cats \cup {NULL}
    BY <1>4, <2>1
  <2>3. transactions[t].category_id # NULL => categories[transactions[t].category_id] # NULL
    BY <2>1 DEF FilesExist
  <2>4. CASE transactions[t].category_id = c
    BY <1>1, <1>2, <2>1, <2>2, <2>4
  <2>5. CASE transactions[t].category_id # c
    BY <1>1, <1>2, <2>1, <2>2, <2>3, <2>5
  <2> QED
    BY <2>4, <2>5
<1>6. ASSUME NEW t \in Txs PROVE Guarded(t)
  <2> SUFFICES ASSUME transactions'[t] # NULL, NEW d \in Cats, categories'[d] # NULL,
                      transactions'[t].category_id = d \/ transactions'[t].splits[d] # 0,
                      Sign(categories'[d]) * transactions'[t].amount < 0
               PROVE  Mismatched(t)
    BY DEF Guarded, Mismatched
  <2>1. transactions[t] # NULL /\ d # c /\ categories'[d] = categories[d]
        /\ transactions'[t].amount = transactions[t].amount
    BY <1>2, <1>4, <1>5
  <2>2. CASE d = into
    <3>1. PICK e \in {c, into} : transactions[t].category_id = e \/ transactions[t].splits[e] # 0
      BY <1>4, <2>1, <2>2
    <3> QED
      BY <1>1, <2>1, <2>2, <3>1 DEF Mismatched
  <2>3. CASE d # into
    <3>1. transactions[t].category_id = d \/ transactions[t].splits[d] # 0
      BY <1>4, <2>1, <2>3
    <3> QED
      BY <2>1, <3>1 DEF Mismatched
  <2> QED
    BY <2>2, <2>3
<1> QED
  BY <1>5, <1>6 DEF FilesExist

-----------------------------------------------------------------------------
(* Every handler and every step files rows where their sign belongs.       *)

LEMMA SameRowsFiled ==
    ASSUME UNCHANGED transactions
    PROVE  \A t \in Txs : Filing(t)
BY DEF Filing

LEMMA DeletedRowsFiled ==
    ASSUME NEW X, NEW S, DeleteRows(transactions, X, S)
    PROVE  \A t \in Txs : Filing(t)
BY DEF DeleteRows, WithoutRows, Filing

LEMMA LinkHandlerFiles ==
    ASSUME IInv, NEW o \in Txs, NEW i \in Txs, NEW x \in Uuids, Link(o, i, x)
    PROVE  \A t \in Txs : Filing(t)
<1> DEFINE P == {<<o, i>>}
           id == [q \in P |-> x]
<1>1. \A q \in P : Linkable(transactions, q[1], q[2])
  BY DEF Link
<1>2. LinkAll(transactions, P, id)
  BY DEF Link
<1>3. P \in SUBSET Pairs
  BY DEF Pairs
<1> HIDE DEF P, id
<1> QED
  BY <1>1, <1>2, <1>3, LinkedFiles

LEMMA BulkDeleteFiles ==
    ASSUME IInv, NEW S \in SUBSET Txs, BulkDelete(S)
    PROVE  \A t \in Txs : Filing(t)
<1> DEFINE D == TransfersOf(S)
<1>1. D \in SUBSET Uuids /\ \A x \in D : transfers[x] # NULL
  BY DEF TransfersOf
<1>2. /\ Restorable({transfers[x] : x \in D})
      /\ DeleteRows(Detached({transfers[x] : x \in D}), D, S)
  BY DEF BulkDelete
<1> HIDE DEF D
<1> QED
  BY <1>1, <1>2, DetachFiles

LEMMA HandlerGuards ==
    ASSUME IInv, CountedOnce, PartsAddUp, FilesExist, Handler, TypeOK'
    PROVE  /\ FilesExist'
           /\ \/ \A t \in Txs : Guarded(t)
              \/ \E C \in SUBSET Cats, type \in Types : Retype(C, type)
<1> DEFINE Goal == FilesExist' /\ \A t \in Txs : Guarded(t)
<1>0. TypeOK /\ TypeOK'
  BY DEF IInv
<1>f. ASSUME UNCHANGED categories, \A t \in Txs : Filing(t) PROVE Goal
  BY <1>0, <1>f, FilingGuards
<1> HIDE DEF Goal
<1>1. ASSUME NEW t \in Txs, NEW amount \in Amounts \cup {NULL},
             NEW c \in Cats \cup {0, NULL}, NEW account \in Accounts \cup {NULL},
             PatchTransaction(t, amount, c, account)
      PROVE  Goal
  BY <1>0, <1>1, <1>f, PatchTransactionFiles DEF PatchTransaction
<1>2. ASSUME NEW t \in Txs, NEW parts, ReplaceSplits(t, parts) PROVE Goal
  BY <1>0, <1>2, <1>f, ReplaceSplitsFiles DEF ReplaceSplits
<1>3. ASSUME NEW S \in SUBSET Txs, BulkDelete(S) PROVE Goal
  BY <1>3, <1>f, BulkDeleteFiles DEF BulkDelete
<1>4. ASSUME NEW S \in SUBSET Txs, NEW c \in Cats \cup {NULL}, BulkCategorize(S, c)
      PROVE  Goal
  BY <1>0, <1>4, <1>f, BulkCategorizeFiles DEF BulkCategorize
<1>5. ASSUME NEW o \in Txs, NEW from \in Accounts, NEW to \in Accounts,
             NEW amount \in Amounts, NEW x \in Uuids, CreateTransfer(o, from, to, amount, x)
      PROVE  Goal
  BY <1>0, <1>5, <1>f, CreateTransferFiles DEF CreateTransfer
<1>6. ASSUME NEW o \in Txs, NEW i \in Txs, NEW x \in Uuids, Link(o, i, x) PROVE Goal
  BY <1>6, <1>f, LinkHandlerFiles DEF Link
<1>7. ASSUME NEW o \in Txs, NEW i \in Txs, Dismiss(o, i) PROVE Goal
  BY <1>7, <1>f, SameRowsFiled DEF Dismiss
<1>8. ASSUME NEW x \in Uuids, DeleteWithLegs(x) PROVE Goal
  BY <1>8, <1>f, DeletedRowsFiled DEF DeleteWithLegs
<1>9. ASSUME NEW c \in Cats, NEW type \in Types, CreateCategory(c, type) PROVE Goal
  BY <1>0, <1>9, CreateCategoryGuards DEF Goal
<1>10. ASSUME NEW c \in Cats, DeleteCategory(c) PROVE Goal
  BY <1>0, <1>10, DeleteCategoryGuards DEF Goal
<1>11. ASSUME NEW C \in SUBSET Cats, NEW type \in Types, Retype(C, type) PROVE FilesExist'
  <2>1. \A t \in Txs : transactions[t] # NULL => transactions[t].category_id \in Cats \cup {NULL}
    BY <1>0 DEF TypeOK, Rows
  <2>2. \A d \in Cats : categories[d] # NULL => categories'[d] # NULL
    BY <1>11, TransferLedgerAssumption DEF Retype
  <2> QED
    BY <1>11, <2>1, <2>2 DEF Retype, FilesExist
<1> QED
  BY <1>1, <1>2, <1>3, <1>4, <1>5, <1>6, <1>7, <1>8, <1>9, <1>10, <1>11 DEF Handler, Goal

LEMMA CreateTransactionFiles ==
    ASSUME TypeOK, NEW p \in Threads, Knows(job[p]), NEW t \in Txs, CreateTransaction(p, t)
    PROVE  \A s \in Txs : Filing(s)
<1> DEFINE new == NewRow(job[p].account, job[p].amount, job[p].category)
<1>1. /\ transactions' = [transactions EXCEPT ![t] = new]
      /\ job[p].op = "create"
  BY DEF CreateTransaction
<1>2. job[p].category # NULL => Resolves(job[p].category, job[p].amount)
  BY <1>1 DEF Knows
<1>3. new.splits = NoSplits /\ new.category_id = job[p].category /\ new.amount = job[p].amount
  BY DEF NewRow
<1> HIDE DEF new
<1>4. transactions'[t] = new
  BY <1>1 DEF TypeOK
<1>5. Filing(t)
  BY <1>2, <1>3, <1>4 DEF Filing
<1> QED
  BY <1>1, <1>5, OneRowFiled

LEMMA SplitTransferFiles ==
    ASSUME IInv, NEW p \in Threads, SplitTransfer(p)
    PROVE  \A t \in Txs : Filing(t)
<1> DEFINE D == {job[p].found}
<1>1. job[p] \in Jobs /\ job[p].op = "split" /\ ReadIsCurrent(job[p])
  BY DEF SplitTransfer, IInv, TypeOK, Idle
<1>2. /\ job[p].found \in Uuids /\ job[p].row \in Transfers
      /\ transfers[job[p].found] = job[p].row
  BY <1>1, JobKinds DEF ReadIsCurrent
<1>3. D \in SUBSET Uuids /\ \A x \in D : transfers[x] # NULL
  BY <1>2, TransferLedgerAssumption
<1>4. {transfers[x] : x \in D} = {job[p].row}
  BY <1>2
<1>5. /\ Restorable({transfers[x] : x \in D})
      /\ DeleteRows(Detached({transfers[x] : x \in D}), D, {})
  BY <1>4 DEF SplitTransfer
<1> HIDE DEF D
<1> QED
  BY <1>3, <1>5, DetachFiles

LEMMA DeleteTransactionFiles ==
    ASSUME IInv, NEW p \in Threads, DeleteTransaction(p)
    PROVE  \A t \in Txs : Filing(t)
<1> DEFINE D == {job[p].found} \cap Uuids
<1>1. job[p] \in Jobs /\ job[p].op = "remove" /\ ReadIsCurrent(job[p])
  BY DEF DeleteTransaction, IInv, TypeOK, Idle
<1>2. job[p].found \in Uuids \cup {NULL}
  BY <1>1, JobKinds
<1>3. /\ {transfers[x] : x \in D} = {job[p].row} \ {NULL}
      /\ \A x \in D : transfers[x] # NULL
  <2>1. CASE job[p].row = NULL
    <3>1. D = {}
      BY <1>1, <2>1, TransferLedgerAssumption DEF ReadIsCurrent
    <3> QED
      BY <2>1, <3>1
  <2>2. CASE job[p].row # NULL
    <3>1. job[p].found # NULL /\ transfers[job[p].found] = job[p].row
      BY <1>1, <2>2 DEF ReadIsCurrent
    <3>2. D = {job[p].found}
      BY <1>2, <3>1
    <3> QED
      BY <2>2, <3>1, <3>2
  <2> QED
    BY <2>1, <2>2
<1>4. /\ Restorable({transfers[x] : x \in D})
      /\ DeleteRows(Detached({transfers[x] : x \in D}), D, {job[p].tx})
  BY <1>3 DEF DeleteTransaction
<1> HIDE DEF D
<1>5. D \in SUBSET Uuids
  BY DEF D
<1> QED
  BY <1>3, <1>4, <1>5, DetachFiles

LEMMA LinkPairsFiles ==
    ASSUME IInv, NEW p \in Threads, LinkPairs(p)
    PROVE  \A t \in Txs : Filing(t)
<1> DEFINE P == {q \in job[p].pairs : Linkable(transactions, q[1], q[2])}
<1>1. P \in SUBSET Pairs
  BY JobKinds DEF LinkPairs, IInv, TypeOK, Idle
<1>2. \A q \in P : Linkable(transactions, q[1], q[2])
  OBVIOUS
<1>3. PICK id \in [P -> Fresh] : LinkAll(transactions, P, id)
  BY DEF LinkPairs
<1> HIDE DEF P
<1> QED
  BY <1>1, <1>2, <1>3, LinkedFiles

LEMMA StepGuards ==
    ASSUME IInv, FilesExist, NEW p \in Threads, ~Idle(p) => Knows(job[p]),
           job[p].op = "merge" /\ ~Idle(p) => job[p].from # job[p].into,
           Step(p), TypeOK'
    PROVE  FilesExist' /\ \A t \in Txs : Guarded(t)
<1> DEFINE Goal == FilesExist' /\ \A t \in Txs : Guarded(t)
<1>0. TypeOK
  BY DEF IInv
<1>f. ASSUME UNCHANGED categories, \A t \in Txs : Filing(t) PROVE Goal
  BY <1>0, <1>f, FilingGuards
<1> HIDE DEF Goal
<1>1. ASSUME OnlyReads PROVE Goal
  BY <1>1, <1>f, SameRowsFiled DEF OnlyReads
<1>2. ASSUME NEW t \in Txs, CreateTransaction(p, t) PROVE Goal
  BY <1>0, <1>2, <1>f, CreateTransactionFiles DEF CreateTransaction
<1>3. ASSUME MergeCategory(p) PROVE Goal
  BY <1>0, <1>3, MergeCategoryGuards DEF MergeCategory, Goal
<1>4. ASSUME SplitTransfer(p) PROVE Goal
  BY <1>4, <1>f, SplitTransferFiles DEF SplitTransfer
<1>5. ASSUME DeleteTransaction(p) PROVE Goal
  BY <1>5, <1>f, DeleteTransactionFiles DEF DeleteTransaction
<1>6. ASSUME LinkPairs(p) PROVE Goal
  BY <1>6, <1>f, LinkPairsFiles DEF LinkPairs
<1> QED
  BY <1>1, <1>2, <1>3, <1>4, <1>5, <1>6
     DEF Step, ReadCategory, ReadKinds, ReadTransfer, FindTransfer, ReadFoundTransfer,
         FindPairs, Fails, Goal

\* What a step has read is true when it has read it.
LEMMA StepKnows ==
    ASSUME TypeOK, NEW p \in Threads, Step(p)
    PROVE  ~Idle(p)' => Knows(job[p])'
<1>1. ASSUME NEW v, Remember(p, v) PROVE job'[p] = v
  BY <1>1 DEF Remember, TypeOK
<1>2. ASSUME NEW v, Remember(p, v), v.op \notin {"create", "merge"} PROVE Knows(job[p])'
  BY <1>1, <1>2 DEF Knows
<1>3. ASSUME Remember(p, NULL) PROVE Idle(p)'
  BY <1>1, <1>3 DEF Idle
<1>4. ASSUME NEW account \in Accounts, NEW amount \in Amounts, NEW c \in Cats \cup {NULL},
             ReadCategory(p, account, amount, c)
      PROVE  Knows(job[p])'
  <2> DEFINE v == [op |-> "create", account |-> account, amount |-> amount, category |-> c]
  <2>1. v.op = "create" /\ v.category = c /\ v.amount = amount
    OBVIOUS
  <2>2. Remember(p, v) /\ OnlyReads /\ (c # NULL => Resolves(c, amount))
    BY <1>4 DEF ReadCategory
  <2> HIDE DEF v
  <2>3. job'[p] = v /\ categories' = categories
    BY <1>1, <2>2 DEF OnlyReads
  <2> QED
    BY <2>1, <2>2, <2>3 DEF Knows, Resolves
<1>5. ASSUME NEW c \in Cats, NEW into \in Cats, ReadKinds(p, c, into) PROVE Knows(job[p])'
  <2> DEFINE v == [op |-> "merge", from |-> c, into |-> into]
  <2>1. v.op = "merge" /\ v.from = c /\ v.into = into
    OBVIOUS
  <2>2. Remember(p, v) /\ OnlyReads /\ categories[c] # NULL /\ categories[into] = categories[c]
    BY <1>5 DEF ReadKinds
  <2> HIDE DEF v
  <2>3. job'[p] = v /\ categories' = categories
    BY <1>1, <2>2 DEF OnlyReads
  <2> QED
    BY <2>1, <2>2, <2>3 DEF Knows
<1>6. ASSUME NEW x \in Uuids, ReadTransfer(p, x) PROVE Knows(job[p])'
  <2> DEFINE v == [op |-> "split", found |-> x, row |-> transfers[x]]
  <2>1. v.op = "split"
    OBVIOUS
  <2>2. Remember(p, v)
    BY <1>6 DEF ReadTransfer
  <2> HIDE DEF v
  <2> QED
    BY <1>2, <2>1, <2>2
<1>7. ASSUME NEW t \in Txs, FindTransfer(p, t) PROVE Knows(job[p])'
  <2> DEFINE v(x) == [op |-> "detach", tx |-> t, id |-> x]
             w == [op |-> "remove", tx |-> t, found |-> NULL, row |-> NULL]
  <2>1. w.op = "remove" /\ \A x : v(x).op = "detach"
    OBVIOUS
  <2>2. Remember(p, w) \/ \E x : Remember(p, v(x))
    BY <1>7 DEF FindTransfer
  <2> HIDE DEF v, w
  <2> QED
    BY <1>2, <2>1, <2>2
<1>8. ASSUME ReadFoundTransfer(p) PROVE Knows(job[p])'
  <2> DEFINE v == [op |-> "remove", tx |-> job[p].tx,
                   found |-> IF transfers[job[p].id] = NULL THEN NULL ELSE job[p].id,
                   row |-> transfers[job[p].id]]
  <2>1. v.op = "remove"
    OBVIOUS
  <2>2. Remember(p, v)
    BY <1>8 DEF ReadFoundTransfer
  <2> HIDE DEF v
  <2> QED
    BY <1>2, <2>1, <2>2
<1>9. ASSUME FindPairs(p) PROVE Knows(job[p])'
  <2> DEFINE v(P) == [op |-> "detect", pairs |-> P]
  <2>1. \A P : v(P).op = "detect"
    OBVIOUS
  <2>2. \E P : Remember(p, v(P))
    BY <1>9 DEF FindPairs
  <2> HIDE DEF v
  <2> QED
    BY <1>2, <2>1, <2>2
<1> QED
  BY <1>3, <1>4, <1>5, <1>6, <1>7, <1>8, <1>9
     DEF Step, CreateTransaction, MergeCategory, SplitTransfer, DeleteTransaction,
         LinkPairs, Fails

LEMMA NextGuarded ==
    ASSUME \A p, q \in Threads : p = q, GuardInv, [Next]_vars
    PROVE  /\ GuardInv'
           /\ \/ \A t \in Txs : Guarded(t)
              \/ \E C \in SUBSET Cats, type \in Types : Retype(C, type)
<1>0. IInv /\ TypeOK /\ CountedOnce /\ PartsAddUp /\ FilesExist
  BY DEF GuardInv, CountedInv, IInv
<1>1. CountedInv' /\ TypeOK'
  BY NextCounted DEF GuardInv, CountedInv, IInv
<1>2. MergesTwo
  BY DEF GuardInv, CountedInv, KindsAreCurrent, MergesTwo
<1>3. ASSUME NEW p \in Threads, Step(p)
      PROVE  GuardInv' /\ \A t \in Txs : Guarded(t)
  <2>1. PartsAddUp'
    BY <1>0, <1>2, <1>3, StepMoney
  <2>2. FilesExist' /\ \A t \in Txs : Guarded(t)
    BY <1>0, <1>1, <1>2, <1>3, StepGuards DEF GuardInv, MergesTwo
  <2>3. \A q \in Threads : ~Idle(q)' => Knows(job[q])'
    BY <1>0, <1>3, StepKnows
  <2> QED
    BY <1>1, <2>1, <2>2, <2>3 DEF GuardInv
<1>4. ASSUME NEW p \in Threads, Idle(p), Handler
      PROVE  /\ GuardInv'
             /\ \/ \A t \in Txs : Guarded(t)
                \/ \E C \in SUBSET Cats, type \in Types : Retype(C, type)
  <2>1. PartsAddUp'
    BY <1>0, <1>4, HandlerMoney
  <2>2. \A q \in Threads : Idle(q)'
    BY <1>4 DEF Handler, Idle
  <2> QED
    BY <1>0, <1>1, <1>4, <2>1, <2>2, HandlerGuards DEF GuardInv
<1>5. CASE UNCHANGED vars
  <2>1. PartsAddUp'
    BY <1>0, <1>5, SumByRow, SumByRowNext DEF vars
  <2>2. FilesExist' /\ \A p \in Threads : ~Idle(p)' => Knows(job[p])'
    BY <1>5 DEF vars, GuardInv, FilesExist, Idle, Knows, Resolves
  <2>3. \A t \in Txs : Guarded(t)
    BY <1>5 DEF vars, Guarded, Mismatched
  <2> QED
    BY <1>1, <2>1, <2>2, <2>3 DEF GuardInv
<1> QED
  BY <1>3, <1>4, <1>5 DEF Next

LEMMA InitGuarded == Init => GuardInv
<1> SUFFICES ASSUME Init PROVE GuardInv
  OBVIOUS
<1>1. CountedInv
  BY InitCounted
<1>2. PartsAddUp /\ FilesExist
  BY DEF Init, PartsAddUp, FilesExist
<1>3. \A p \in Threads : Idle(p)
  BY DEF Init, Idle
<1> QED
  BY <1>1, <1>2, <1>3 DEF GuardInv

\* As long as requests do not overlap, a category of the wrong sign comes only
\* from a change of kind or from a transfer that gives a category back
\* (_validate_category_type, _resolve_category, merge_category), for ledgers of
\* any size.
THEOREM SignsAreGuarded ==
    ASSUME \A p, q \in Threads : p = q
    PROVE  Spec => SignsGuarded
<1>1. GuardInv /\ [Next]_vars =>
        GuardInv' /\ [\A t \in Txs : Mismatched(t)' =>
                         \/ Mismatched(t)
                         \/ \E C \in SUBSET Cats, type \in Types : Retype(C, type)
                         \/ transactions[t] # NULL /\ transactions[t].transfer_id # NULL]_vars
  BY NextGuarded DEF Guarded
<1> QED
  BY <1>1, InitGuarded, PTL DEF Spec, SignsGuarded

-----------------------------------------------------------------------------
(* Transfers stand.  Whatever a thread remembers, a merge looks at the rows *)
(* under the lock and takes an id nobody knows; every other write to a leg *)
(* keeps its transfer_id or clears it.                                     *)

\* A row as it may be after a step.
RowStands(row, new) ==
    row # NULL /\ row.transfer_id # NULL /\ new # NULL => new.transfer_id \in {NULL, row.transfer_id}

Stands ==
    /\ \A x \in Uuids : transfers[x] # NULL => transfers'[x] \in {NULL, transfers[x]}
    /\ \A t \in Txs : RowStands(transactions[t], transactions'[t])

LEMMA RowsStand ==
    ASSUME UNCHANGED transfers, \A t \in Txs : RowStands(transactions[t], transactions'[t])
    PROVE  Stands
BY DEF Stands

\* Merging rows that are in no transfer, under ids nobody knows.
LEMMA LinkStands ==
    ASSUME NEW T, \A t \in Txs : RowStands(transactions[t], T[t]),
           \A t \in Txs : transactions[t] # NULL => T[t] = transactions[t],
           NEW P, \A q \in P : Linkable(T, q[1], q[2]),
           NEW id \in [P -> Fresh], LinkAll(T, P, id)
    PROVE  Stands
<1>1. ASSUME NEW x \in Uuids, transfers[x] # NULL PROVE transfers'[x] = transfers[x]
  <2>1. ~\E q \in P : id[q] = x
    BY <1>1 DEF Fresh, Known
  <2> QED
    BY <2>1 DEF LinkAll
<1>2. ASSUME NEW t \in Txs, transactions[t] # NULL, transactions[t].transfer_id # NULL
      PROVE  transactions'[t] = transactions[t]
  <2>1. T[t] = transactions[t]
    BY <1>2
  <2>2. ~\E q \in P : t \in {q[1], q[2]}
    BY <1>2, <2>1 DEF Linkable
  <2> QED
    BY <2>1, <2>2 DEF LinkAll
<1> QED
  BY <1>1, <1>2 DEF Stands, RowStands

\* Deleting rows and transfers.
LEMMA DeletionStands ==
    ASSUME NEW T, NEW X, NEW S, \A t \in Txs : RowStands(transactions[t], T[t]), DeleteRows(T, X, S)
    PROVE  Stands
BY DEF DeleteRows, WithoutRows, Stands, RowStands

\* Legs that are detached.
LEMMA DetachedStand ==
    ASSUME TypeOK, NEW R PROVE \A t \in Txs : RowStands(transactions[t], Detached(R)[t])
<1> SUFFICES ASSUME NEW t \in Txs PROVE RowStands(transactions[t], Detached(R)[t])
  OBVIOUS
<1>1. transactions[t] # NULL => transactions[t] \in Rows
  BY DEF TypeOK
<1>2. CASE transactions[t] # NULL /\ \E r \in R : IsLeg(t, r)
  <2> DEFINE c == SavedCategory(t, CHOOSE r \in R : IsLeg(t, r))
  <2>1. Detached(R)[t] = [transactions[t] EXCEPT !.transfer_id = NULL, !.category_id = c]
    BY <1>2 DEF Detached
  <2> HIDE DEF c
  <2>2. Detached(R)[t].transfer_id = NULL
    BY <1>1, <1>2, <2>1 DEF Rows
  <2> QED
    BY <2>2 DEF RowStands
<1>3. CASE ~(transactions[t] # NULL /\ \E r \in R : IsLeg(t, r))
  BY <1>3 DEF Detached, RowStands
<1> QED
  BY <1>2, <1>3

LEMMA HandlerStands == ASSUME TypeOK, Handler PROVE Stands
<1>0. \A t \in Txs : transactions[t] # NULL => transactions[t] \in Rows
  BY DEF TypeOK
<1>1. ASSUME NEW t \in Txs, NEW a, NEW c, NEW d, PatchTransaction(t, a, c, d) PROVE Stands
  BY <1>0, <1>1, RowsStand DEF PatchTransaction, Rows, RowStands, TypeOK
<1>2. ASSUME NEW t \in Txs, NEW parts, ReplaceSplits(t, parts) PROVE Stands
  BY <1>0, <1>2, RowsStand DEF ReplaceSplits, Rows, RowStands, TypeOK
<1>3. ASSUME NEW S \in SUBSET Txs, BulkDelete(S) PROVE Stands
  BY <1>3, DetachedStand, DeletionStands DEF BulkDelete
<1>4. ASSUME NEW S \in SUBSET Txs, NEW c, BulkCategorize(S, c) PROVE Stands
  BY <1>0, <1>4, RowsStand DEF BulkCategorize, Rows, RowStands
<1>5. ASSUME NEW o \in Txs, NEW from, NEW to, NEW amount, NEW x \in Uuids,
             CreateTransfer(o, from, to, amount, x)
      PROVE  Stands
  <2> DEFINE T == [transactions EXCEPT ![o] = NewRow(from, -amount, NULL),
                                       ![o + 1] = NewRow(to, amount, NULL)]
             X == {<<o, o + 1>>}
             id == [q \in X |-> x]
  <2>1. /\ NextId(transactions, Txs, o) /\ o + 1 \in Txs /\ x \in Fresh /\ LinkAll(T, X, id)
    BY <1>5 DEF CreateTransfer
  <2>2. transactions[o] = NULL /\ transactions[o + 1] = NULL
    BY <2>1 DEF NextId, Txs
  <2>3. \A t \in Txs : transactions[t] # NULL => T[t] = transactions[t]
    BY <2>2 DEF TypeOK
  <2>4. ASSUME NEW y \in Uuids, transfers[y] # NULL PROVE transfers'[y] = transfers[y]
    <3>1. ~\E q \in X : id[q] = y
      BY <2>1, <2>4 DEF Fresh, Known
    <3> QED
      BY <2>1, <3>1 DEF LinkAll
  <2>5. ASSUME NEW t \in Txs, transactions[t] # NULL PROVE transactions'[t] = transactions[t]
    <3>1. ~\E q \in X : t \in {q[1], q[2]}
      BY <2>2, <2>5
    <3> QED
      BY <2>1, <2>3, <2>5, <3>1 DEF LinkAll
  <2> QED
    BY <2>4, <2>5 DEF Stands, RowStands
<1>6. ASSUME NEW o \in Txs, NEW i \in Txs, NEW x \in Uuids, Link(o, i, x) PROVE Stands
  <2> DEFINE P == {<<o, i>>}
             id == [q \in P |-> x]
  <2>1. LinkAll(transactions, P, id) /\ id \in [P -> Fresh]
    BY <1>6 DEF Link
  <2>2. \A q \in P : Linkable(transactions, q[1], q[2])
    BY <1>6 DEF Link
  <2> HIDE DEF P, id
  <2> QED
    BY <2>1, <2>2, LinkStands DEF RowStands
<1>7. ASSUME NEW o \in Txs, NEW i \in Txs, Dismiss(o, i) PROVE Stands
  BY <1>7 DEF Dismiss, Stands, RowStands
<1>8. ASSUME NEW x \in Uuids, DeleteWithLegs(x) PROVE Stands
  BY <1>8, DeletionStands DEF DeleteWithLegs, RowStands
<1>9. ASSUME NEW c, NEW type, CreateCategory(c, type) PROVE Stands
  BY <1>9 DEF CreateCategory, Stands, RowStands
<1>10. ASSUME NEW c \in Cats, DeleteCategory(c) PROVE Stands
  BY <1>0, <1>10, RowsStand DEF DeleteCategory, Rows, RowStands
<1>11. ASSUME NEW C, NEW type, Retype(C, type) PROVE Stands
  BY <1>11 DEF Retype, Stands, RowStands
<1> QED
  BY <1>1, <1>2, <1>3, <1>4, <1>5, <1>6, <1>7, <1>8, <1>9, <1>10, <1>11 DEF Handler

LEMMA StepStands == ASSUME TypeOK, NEW p \in Threads, Step(p) PROVE Stands
<1>0. \A t \in Txs : transactions[t] # NULL => transactions[t] \in Rows
  BY DEF TypeOK
<1>1. CASE OnlyReads
  BY <1>1 DEF OnlyReads, Stands, RowStands
<1>2. ASSUME NEW t \in Txs, CreateTransaction(p, t) PROVE Stands
  <2>1. transactions[t] = NULL /\ UNCHANGED transfers
    BY <1>2 DEF CreateTransaction, NextId, Txs
  <2>2. \A u \in Txs : transactions[u] # NULL => transactions'[u] = transactions[u]
    BY <1>2, <2>1 DEF CreateTransaction, TypeOK
  <2> QED
    BY <2>1, <2>2, RowsStand DEF RowStands
<1>3. CASE MergeCategory(p)
  BY <1>0, <1>3, RowsStand DEF MergeCategory, Rows, RowStands
<1>4. CASE SplitTransfer(p)
  BY <1>4, DetachedStand, DeletionStands DEF SplitTransfer
<1>5. CASE DeleteTransaction(p)
  BY <1>5, DetachedStand, DeletionStands DEF DeleteTransaction
<1>6. CASE LinkPairs(p)
  <2> DEFINE P == {q \in job[p].pairs : Linkable(transactions, q[1], q[2])}
  <2>1. PICK id \in [P -> Fresh] : LinkAll(transactions, P, id)
    BY <1>6 DEF LinkPairs
  <2>2. \A q \in P : Linkable(transactions, q[1], q[2])
    OBVIOUS
  <2> HIDE DEF P
  <2> QED
    BY <2>1, <2>2, LinkStands DEF RowStands
<1> QED
  BY <1>1, <1>2, <1>3, <1>4, <1>5, <1>6
     DEF Step, ReadCategory, ReadKinds, ReadTransfer, FindTransfer, ReadFoundTransfer, FindPairs, Fails

\* However many requests overlap, a transfer is what link() made it until it is split
\* or deleted, and no leg goes from one transfer to another (link, run_detection,
\* split, detach_leg), for ledgers of any size.
THEOREM TransfersAlwaysStand == Spec => TransfersStand
<1>1. TypeOK /\ [Next]_vars =>
        [/\ \A x \in Uuids : transfers[x] # NULL => transfers'[x] \in {NULL, transfers[x]}
         /\ \A t \in Txs :
               transactions[t] # NULL /\ transactions[t].transfer_id # NULL /\ transactions'[t] # NULL
                  => transactions'[t].transfer_id \in {NULL, transactions[t].transfer_id}]_vars
  <2> SUFFICES ASSUME TypeOK, Next PROVE Stands
    BY DEF Stands, RowStands
  <2> QED
    BY HandlerStands, StepStands DEF Next
<1> QED
  BY <1>1, TypesHold, PTL DEF Spec, TransfersStand
=============================================================================
