--------------------------- MODULE TransferLedger ---------------------------
(***************************************************************************)
(* The ledger of one user: transactions, their splits, transfers, the      *)
(* pairs dismissed as "not a transfer", and categories.  The handlers are  *)
(* those of routers/transactions.py, transfers.py, categories.py and       *)
(* groups.py, with transfer_service.py; the tables are schema.sql.         *)
(*                                                                         *)
(* A handler runs on a thread with a SQLite connection of its own.  Its    *)
(* changes are one database transaction, which starts with begin_write or  *)
(* with its first INSERT, UPDATE or DELETE: from there to the commit it is *)
(* alone.  A SELECT before that point sees the database of that moment     *)
(* and locks nothing.  A handler is therefore one action if it calls       *)
(* begin_write first, or if its constraints make a stale SELECT harmless;  *)
(* create_transaction, delete_transaction, delete_transfer, run_detection  *)
(* and merge_category, which act on what an earlier SELECT returned, are   *)
(* several, and `job` holds what was read.                                 *)
(* A request refused with 4xx or 500 is rolled back and is not a step.     *)
(***************************************************************************)
EXTENDS Integers, FiniteSets, Functions

CONSTANTS
    Threads,        \* handlers that may run at the same time
    Accounts,       \* account ids
    Amounts,        \* amounts, in kopecks, a client may send
    Types,          \* types of category groups in use
    Uuids,          \* transfer ids; uuid4 never issues one again
    NULL,           \* SQL NULL, "no such row", "field not given", "thread idle"
    MaxTx,          \* bound on transaction ids
    MaxCat,         \* bound on category ids
    MaxRejections   \* bound on dismissed pairs, for model checking only

Txs == 1..MaxTx
Cats == 1..MaxCat
Pairs == Txs \X Txs

Rows == [account_id : Accounts, amount : Int, category_id : Cats \cup {NULL},
         transfer_id : Uuids \cup {NULL}, splits : [Cats -> Int]]

Transfers == [out_tx_id : Txs, in_tx_id : Txs,
              out_category_id : Cats \cup {NULL}, in_category_id : Cats \cup {NULL}]

\* What create_transaction, merge_category, delete_transaction, delete_transfer
\* and run_detection remember.
Jobs == [op : {"create"}, account : Accounts, amount : Amounts, category : Cats \cup {NULL}]
   \cup [op : {"merge"}, from : Cats, into : Cats]
   \cup [op : {"detach"}, tx : Txs, id : Uuids]
   \cup [op : {"remove"}, tx : Txs, found : Uuids \cup {NULL}, row : Transfers \cup {NULL}]
   \cup [op : {"split"}, found : Uuids, row : Transfers]
   \cup [op : {"detect"}, pairs : SUBSET Pairs]

ASSUME TransferLedgerAssumption ==
    /\ MaxTx \in Nat /\ MaxCat \in Nat /\ MaxRejections \in Nat
    /\ Amounts \subseteq Int
    /\ Types \subseteq {"income", "expense", "goal"}
    /\ NULL \notin Int /\ NULL \notin Accounts /\ NULL \notin Uuids /\ NULL \notin Types
    /\ NULL \notin Rows /\ NULL \notin Transfers /\ NULL \notin Jobs

VARIABLES
    transactions,   \* transactions[t]: the row, with its splits, or NULL
    transfers,      \* transfers[x]: the row, or NULL
    rejections,     \* transfer_rejections: pairs <<out, in>>
    categories,     \* categories[c]: the type of its group, or NULL
    job             \* job[p]: what thread p has read so far, or NULL

vars == <<transactions, transfers, rejections, categories, job>>

TypeOK ==
    /\ transactions \in [Txs -> Rows \cup {NULL}]
    /\ transfers \in [Uuids -> Transfers \cup {NULL}]
    /\ rejections \subseteq Pairs
    /\ categories \in [Cats -> Types \cup {NULL}]
    /\ job \in [Threads -> Jobs \cup {NULL}]

-----------------------------------------------------------------------------
(* Rows and their splits.  A split keeps, per category, the total of the   *)
(* parts filed under it: 0 means no part.                                  *)

NoSplits == [c \in Cats |-> 0]

IsSplit(row) == row.splits # NoSplits

SplitTotal(row) == FoldFunction(+, 0, row.splits)

\* transaction_sign of a group type.
Sign(type) == IF type = "income" THEN 1 ELSE -1

\* _resolve_category accepts c for an amount.
Resolves(c, amount) ==
    /\ categories[c] # NULL
    /\ amount < 0 => Sign(categories[c]) = -1
    /\ amount > 0 => Sign(categories[c]) = 1

\* Ways to divide an amount over categories, for the inputs of replace_splits.
Divisions(amount) ==
    IF amount < 0 THEN [Cats -> amount..0] ELSE [Cats -> 0..amount]

\* SQLite gives a new row the id after the largest in use.
NextId(table, ids, n) ==
    /\ n \in ids
    /\ \A k \in ids : k >= n => table[k] = NULL
    /\ n - 1 \in ids => table[n - 1] # NULL

NewRow(account, amount, category) ==
    [account_id |-> account, amount |-> amount, category_id |-> category,
     transfer_id |-> NULL, splits |-> NoSplits]

WithoutRows(T, S) == [t \in Txs |-> IF t \in S THEN NULL ELSE T[t]]

-----------------------------------------------------------------------------
(* Transfers.                                                              *)

IsLeg(t, transfer) == t = transfer.out_tx_id \/ t = transfer.in_tx_id

\* The transfers a row of S is a leg of.
TransfersOf(S) == {x \in Uuids : transfers[x] # NULL /\ \E t \in S : IsLeg(t, transfers[x])}

SavedCategory(t, transfer) ==
    IF t = transfer.in_tx_id THEN transfer.in_category_id ELSE transfer.out_category_id

\* split() on the transfer rows in R: the legs that still exist get the saved
\* categories back ...
Detached(R) ==
    [t \in Txs |->
        IF transactions[t] # NULL /\ \E r \in R : IsLeg(t, r)
          THEN [transactions[t] EXCEPT
                  !.transfer_id = NULL,
                  !.category_id = SavedCategory(t, CHOOSE r \in R : IsLeg(t, r))]
          ELSE transactions[t]]

\* ... unless a foreign key forbids it.
Restorable(R) ==
    \A r \in R : \A t \in Txs :
        IsLeg(t, r) /\ transactions[t] # NULL /\ SavedCategory(t, r) # NULL
          => categories[SavedCategory(t, r)] # NULL

Known(x) ==
    \/ transfers[x] # NULL
    \/ \E t \in Txs : transactions[t] # NULL /\ transactions[t].transfer_id = x
    \/ \E p \in Threads : job[p] # NULL /\ \/ job[p].op = "detach" /\ job[p].id = x
                                           \/ job[p].op \in {"remove", "split"} /\ job[p].found = x

\* uuid4().hex: an id nobody has seen, or remembers.
Fresh == {x \in Uuids : ~Known(x)}

\* link() accepts the pair <<o, i>>, given the transactions T.
Linkable(T, o, i) ==
    /\ T[o] # NULL /\ T[i] # NULL
    /\ T[o].amount < 0 /\ T[i].amount > 0
    /\ T[o].account_id # T[i].account_id
    /\ T[o].transfer_id = NULL /\ T[i].transfer_id = NULL
    /\ ~IsSplit(T[o]) /\ ~IsSplit(T[i])
    /\ \A x \in Uuids : transfers[x] # NULL =>
          transfers[x].out_tx_id # o /\ transfers[x].in_tx_id # i

\* link() merges the pairs of P, no two of which share a transaction; id[q] is
\* the transfer id of pair q.
LinkAll(T, P, id) ==
    /\ transactions' = [t \in Txs |->
          IF \E q \in P : t \in {q[1], q[2]}
            THEN [T[t] EXCEPT !.category_id = NULL,
                              !.transfer_id = id[CHOOSE q \in P : t \in {q[1], q[2]}]]
            ELSE T[t]]
    /\ transfers' = [x \in Uuids |->
          IF \E q \in P : id[q] = x
            THEN LET q == CHOOSE q \in P : id[q] = x IN
                 [out_tx_id |-> q[1], in_tx_id |-> q[2],
                  out_category_id |-> T[q[1]].category_id,
                  in_category_id |-> T[q[2]].category_id]
            ELSE transfers[x]]
    /\ rejections' = rejections \ P

\* Deleting the rows of S cascades to transfers and rejections.  T is the
\* transactions table by then, X the transfers deleted already.
DeleteRows(T, X, S) ==
    /\ transactions' = WithoutRows(T, S)
    /\ transfers' = [x \in Uuids |-> IF x \in X \cup TransfersOf(S) THEN NULL ELSE transfers[x]]
    /\ rejections' = {q \in rejections : q[1] \notin S /\ q[2] \notin S}

-----------------------------------------------------------------------------
Init ==
    /\ transactions = [t \in Txs |-> NULL]
    /\ transfers = [x \in Uuids |-> NULL]
    /\ rejections = {}
    /\ categories = [c \in Cats |-> NULL]
    /\ job = [p \in Threads |-> NULL]

Idle(p) == job[p] = NULL

(* Handlers of one step (routers/transactions.py).                         *)

\* Mutants: category 0, "uncategorized", is stored as it is; the total of a
\* split may be edited.
PatchStoresZero(t, amount, c, account) ==
    LET row == transactions[t] IN
    /\ row # NULL
    /\ ~IsSplit(row) /\ c # NULL
    /\ c # 0 => Resolves(c, row.amount)
    /\ transactions' = [transactions EXCEPT ![t].category_id = c]
    /\ UNCHANGED <<transfers, rejections, categories>>

PatchEditsTotal(t, amount, c, account) ==
    /\ transactions[t] # NULL /\ amount # NULL
    /\ transactions' = [transactions EXCEPT ![t].amount = amount]
    /\ UNCHANGED <<transfers, rejections, categories>>

\* amount, c and account are NULL when the body leaves them out; c = 0 clears
\* the category.
PatchTransaction(t, amount, c, account) ==
    LET row == transactions[t]
        newAmount == IF amount = NULL THEN row.amount ELSE amount
        newCategory == IF c = NULL THEN row.category_id ELSE IF c = 0 THEN NULL ELSE c
        newAccount == IF account = NULL THEN row.account_id ELSE account
    IN
    /\ row # NULL
    /\ IsSplit(row) => newAmount = SplitTotal(row) /\ c = NULL
    /\ (c # NULL \/ amount # NULL) /\ newCategory # NULL => Resolves(newCategory, newAmount)
    /\ transactions' = [transactions EXCEPT ![t] =
          [row EXCEPT !.amount = newAmount, !.category_id = newCategory, !.account_id = newAccount]]
    /\ UNCHANGED <<transfers, rejections, categories>>

\* An amount has two non-zero parts of its own sign exactly if it is two
\* kopecks or more (MIN_SPLIT_PARTS).
ReplaceSplits(t, parts) ==
    LET row == transactions[t] IN
    /\ row # NULL
    /\ row.transfer_id = NULL
    /\ parts # NoSplits =>
          /\ row.amount \notin {-1, 1}
          /\ FoldFunction(+, 0, parts) = row.amount
          /\ \A c \in Cats : parts[c] # 0 => Resolves(c, row.amount)
    /\ transactions' = [transactions EXCEPT ![t] =
          [row EXCEPT !.splits = parts,
                      !.category_id = IF parts = NoSplits THEN @ ELSE NULL]]
    /\ UNCHANGED <<transfers, rejections, categories>>

\* Mutant: the rows go, their transfers cascade, the other legs are forgotten.
BulkDeleteUndetached(S) ==
    /\ DeleteRows(transactions, {}, S)
    /\ UNCHANGED categories

BulkDelete(S) ==
    LET X == TransfersOf(S)
        R == {transfers[x] : x \in X}
    IN
    /\ Restorable(R)
    /\ DeleteRows(Detached(R), X, S)
    /\ UNCHANGED categories

\* Mutant: a split transaction is categorized like any other.
BulkCategorizeSplits(S, c) ==
    /\ \A t \in S : /\ transactions[t] # NULL
                    /\ c # NULL => Resolves(c, transactions[t].amount)
    /\ transactions' = [t \in Txs |->
          IF t \in S THEN [transactions[t] EXCEPT !.category_id = c] ELSE transactions[t]]
    /\ UNCHANGED <<transfers, rejections, categories>>

BulkCategorize(S, c) ==
    /\ \A t \in S : /\ transactions[t] # NULL
                    /\ ~IsSplit(transactions[t])
                    /\ c # NULL => Resolves(c, transactions[t].amount)
    /\ transactions' = [t \in Txs |->
          IF t \in S THEN [transactions[t] EXCEPT !.category_id = c] ELSE transactions[t]]
    /\ UNCHANGED <<transfers, rejections, categories>>

(* Handlers of one step (routers/transfers.py).                            *)

CreateTransfer(o, from, to, amount, x) ==
    LET T == [transactions EXCEPT ![o] = NewRow(from, -amount, NULL),
                                  ![o + 1] = NewRow(to, amount, NULL)] IN
    /\ amount > 0 /\ from # to
    /\ NextId(transactions, Txs, o) /\ o + 1 \in Txs
    /\ x \in Fresh
    /\ LinkAll(T, {<<o, o + 1>>}, [q \in {<<o, o + 1>>} |-> x])
    /\ UNCHANGED categories

Link(o, i, x) ==
    /\ Linkable(transactions, o, i)
    /\ x \in Fresh
    /\ LinkAll(transactions, {<<o, i>>}, [q \in {<<o, i>>} |-> x])
    /\ UNCHANGED categories

Dismiss(o, i) ==
    /\ Cardinality(rejections) < MaxRejections
    /\ transactions[o] # NULL /\ transactions[i] # NULL
    /\ rejections' = rejections \cup {<<o, i>>}
    /\ UNCHANGED <<transactions, transfers, categories>>

DeleteWithLegs(x) ==
    LET legs == {t \in Txs : IsLeg(t, transfers[x])} IN
    /\ transfers[x] # NULL
    /\ \A t \in legs : transactions[t] # NULL /\ transactions[t].transfer_id = x
    /\ DeleteRows(transactions, {}, legs)
    /\ UNCHANGED categories

(* Handlers of one step (routers/categories.py, groups.py).                *)

CreateCategory(c, type) ==
    /\ NextId(categories, Cats, c)
    /\ categories' = [categories EXCEPT ![c] = type]
    /\ UNCHANGED <<transactions, transfers, rejections>>

\* ON DELETE RESTRICT from splits, ON DELETE SET NULL from transactions; the
\* categories saved in transfers are not foreign keys.
DeleteCategory(c) ==
    /\ categories[c] # NULL
    /\ \A t \in Txs : transactions[t] # NULL => transactions[t].splits[c] = 0
    /\ categories' = [categories EXCEPT ![c] = NULL]
    /\ transactions' = [t \in Txs |->
          IF transactions[t] # NULL /\ transactions[t].category_id = c
            THEN [transactions[t] EXCEPT !.category_id = NULL] ELSE transactions[t]]
    /\ UNCHANGED <<transfers, rejections>>

\* patch_group with a kind (C: the categories of the group), or patch_category
\* with a groupId (C: that category).
Retype(C, type) ==
    /\ C # {}
    /\ \A c, d \in C : categories[c] # NULL /\ categories[c] = categories[d]
    /\ categories' = [c \in Cats |-> IF c \in C THEN type ELSE categories[c]]
    /\ UNCHANGED <<transactions, transfers, rejections>>

\* A handler of one step, on a thread that is free.
Handler ==
    /\ \/ \E t \in Txs, amount \in Amounts \cup {NULL}, c \in Cats \cup {0, NULL},
             account \in Accounts \cup {NULL} : PatchTransaction(t, amount, c, account)
       \/ \E t \in Txs : transactions[t] # NULL /\
             \E parts \in Divisions(transactions[t].amount) : ReplaceSplits(t, parts)
       \/ \E S \in SUBSET Txs : BulkDelete(S)
       \/ \E S \in SUBSET Txs, c \in Cats \cup {NULL} : BulkCategorize(S, c)
       \/ \E o \in Txs, from, to \in Accounts, amount \in Amounts, x \in Uuids :
             CreateTransfer(o, from, to, amount, x)
       \/ \E o, i \in Txs, x \in Uuids : Link(o, i, x)
       \/ \E o, i \in Txs : Dismiss(o, i)
       \/ \E x \in Uuids : DeleteWithLegs(x)
       \/ \E c \in Cats, type \in Types : CreateCategory(c, type)
       \/ \E c \in Cats : DeleteCategory(c)
       \/ \E C \in SUBSET Cats, type \in Types : Retype(C, type)
    /\ UNCHANGED job

-----------------------------------------------------------------------------
(* Handlers of several steps.                                              *)

Remember(p, value) == job' = [job EXCEPT ![p] = value]
OnlyReads == UNCHANGED <<transactions, transfers, rejections, categories>>

\* create_transaction: the category is looked up (with no id left in the model,
\* nothing is created),
ReadCategory(p, account, amount, c) ==
    /\ Idle(p)
    /\ \E t \in Txs : NextId(transactions, Txs, t)
    /\ c # NULL => Resolves(c, amount)
    /\ Remember(p, [op |-> "create", account |-> account, amount |-> amount, category |-> c])
    /\ OnlyReads

\* and the row inserted.
CreateTransaction(p, t) ==
    LET read == job[p] IN
    /\ ~Idle(p) /\ read.op = "create"
    /\ NextId(transactions, Txs, t)
    /\ read.category # NULL => categories[read.category] # NULL
    /\ transactions' = [transactions EXCEPT ![t] =
          NewRow(read.account, read.amount, read.category)]
    /\ Remember(p, NULL)
    /\ UNCHANGED <<transfers, rejections, categories>>

\* Mutant: the kinds are not compared.
ReadAnyKinds(p, c, into) ==
    /\ Idle(p)
    /\ c # into
    /\ categories[c] # NULL /\ categories[into] # NULL
    /\ Remember(p, [op |-> "merge", from |-> c, into |-> into])
    /\ OnlyReads

\* merge_category: both categories are read and their kinds compared,
ReadKinds(p, c, into) ==
    /\ Idle(p)
    /\ c # into
    /\ categories[c] # NULL /\ categories[into] = categories[c]
    /\ Remember(p, [op |-> "merge", from |-> c, into |-> into])
    /\ OnlyReads

FiledUnder(c) ==
    {t \in Txs : /\ transactions[t] # NULL
                 /\ transactions[t].category_id = c \/ transactions[t].splits[c] # 0}

\* The parts filed under c go to the category `into`.
Refiled(splits, c, into) == [splits EXCEPT ![into] = @ + splits[c], ![c] = 0]

\* and everything filed under the one goes to the other.
MergeCategory(p) ==
    LET c == job[p].from
        into == job[p].into
    IN
    /\ ~Idle(p) /\ job[p].op = "merge"
    /\ categories[into] = NULL => FiledUnder(c) = {}
    /\ categories' = [categories EXCEPT ![c] = NULL]
    /\ transactions' = [t \in Txs |->
          IF transactions[t] = NULL THEN NULL
          ELSE [transactions[t] EXCEPT
                  !.category_id = IF @ = c THEN into ELSE @,
                  !.splits = Refiled(@, c, into)]]
    /\ Remember(p, NULL)
    /\ UNCHANGED <<transfers, rejections>>

\* delete_transfer: split() reads the transfer row.
ReadTransfer(p, x) ==
    /\ Idle(p)
    /\ transfers[x] # NULL
    /\ Remember(p, [op |-> "split", found |-> x, row |-> transfers[x]])
    /\ OnlyReads

\* ... then restores both legs and deletes the row.
SplitTransfer(p) ==
    LET read == job[p] IN
    /\ ~Idle(p) /\ read.op = "split"
    /\ Restorable({read.row})
    /\ DeleteRows(Detached({read.row}), {read.found}, {})
    /\ Remember(p, NULL)
    /\ UNCHANGED categories

\* delete_transaction, for a row the client has seen: detach_leg looks for the
\* transfer of the row,
FindTransfer(p, t) ==
    /\ Idle(p)
    /\ transactions[t] # NULL
    /\ \/ \E x \in TransfersOf({t}) : Remember(p, [op |-> "detach", tx |-> t, id |-> x])
       \/ /\ TransfersOf({t}) = {}
          /\ Remember(p, [op |-> "remove", tx |-> t, found |-> NULL, row |-> NULL])
    /\ OnlyReads

\* split() reads it if it is still there,
ReadFoundTransfer(p) ==
    LET read == job[p] IN
    /\ ~Idle(p) /\ read.op = "detach"
    /\ Remember(p, [op |-> "remove", tx |-> read.tx,
                    found |-> IF transfers[read.id] = NULL THEN NULL ELSE read.id,
                    row |-> transfers[read.id]])
    /\ OnlyReads

\* and the legs are restored, the transfer and the transaction deleted.
DeleteTransaction(p) ==
    LET read == job[p]
        R == {read.row} \ {NULL}
    IN
    /\ ~Idle(p) /\ read.op = "remove"
    /\ Restorable(R)
    /\ DeleteRows(Detached(R), {read.found} \cap Uuids, {read.tx})
    /\ Remember(p, NULL)
    /\ UNCHANGED categories

Candidate(o, i) ==
    /\ transactions[o] # NULL /\ transactions[i] # NULL
    /\ transactions[o].transfer_id = NULL /\ transactions[i].transfer_id = NULL
    /\ transactions[o].amount < 0 /\ transactions[i].amount = -transactions[o].amount
    /\ transactions[o].account_id # transactions[i].account_id
    /\ <<o, i>> \notin rejections

\* No transaction is used twice.
Disjoint(P) == \A q, r \in P : q # r => {q[1], q[2]} \cap {r[1], r[2]} = {}

\* run_detection: candidates() reads the rows and the rejections and pairs them
\* up; which pairs are confident depends on dates and descriptions.
FindPairs(p) ==
    /\ Idle(p)
    /\ \E P \in SUBSET {q \in Pairs : Candidate(q[1], q[2])} :
          Disjoint(P) /\ P # {} /\ Remember(p, [op |-> "detect", pairs |-> P])
    /\ OnlyReads

\* Mutant: the pairs are merged as they were read.
LinkPairsAsRead(p) ==
    LET P == {q \in job[p].pairs : transactions[q[1]] # NULL /\ transactions[q[2]] # NULL} IN
    /\ ~Idle(p) /\ job[p].op = "detect"
    /\ \E id \in [P -> Fresh] :
          /\ \A q, r \in P : id[q] = id[r] => q = r
          /\ LinkAll(transactions, P, id)
    /\ Remember(p, NULL)
    /\ UNCHANGED categories

\* ... and link() merges those that are still linkable.
LinkPairs(p) ==
    LET P == {q \in job[p].pairs : Linkable(transactions, q[1], q[2])} IN
    /\ ~Idle(p) /\ job[p].op = "detect"
    /\ \E id \in [P -> Fresh] :
          /\ \A q, r \in P : id[q] = id[r] => q = r
          /\ LinkAll(transactions, P, id)
    /\ Remember(p, NULL)
    /\ UNCHANGED categories

\* Rolled back: a foreign key forbids the insert, the merge or the restore, or
\* (in the model only) the transaction or transfer ids are used up.
Refused(read) ==
    \/ /\ read.op = "create"
       /\ \/ read.category # NULL /\ categories[read.category] = NULL
          \/ \A t \in Txs : ~NextId(transactions, Txs, t)
    \/ read.op = "merge" /\ categories[read.into] = NULL /\ FiledUnder(read.from) # {}
    \/ read.op \in {"remove", "split"} /\ ~Restorable({read.row} \ {NULL})
    \/ read.op = "detect" /\ Cardinality(Fresh) < Cardinality(read.pairs)

Fails(p) ==
    /\ ~Idle(p) /\ Refused(job[p])
    /\ Remember(p, NULL)
    /\ OnlyReads

Step(p) ==
    \/ \E account \in Accounts, amount \in Amounts, c \in Cats \cup {NULL} :
          ReadCategory(p, account, amount, c)
    \/ \E t \in Txs : CreateTransaction(p, t)
    \/ \E c, into \in Cats : ReadKinds(p, c, into)
    \/ MergeCategory(p)
    \/ \E x \in Uuids : ReadTransfer(p, x)
    \/ SplitTransfer(p)
    \/ \E t \in Txs : FindTransfer(p, t)
    \/ ReadFoundTransfer(p)
    \/ DeleteTransaction(p)
    \/ FindPairs(p)
    \/ LinkPairs(p)
    \/ Fails(p)

Next == \E p \in Threads : Step(p) \/ (Idle(p) /\ Handler)

Spec == Init /\ [][Next]_vars

-----------------------------------------------------------------------------
(* Correctness.                                                            *)

Agree(T, X) ==
    \A x \in Uuids :
        /\ \A t \in Txs :
              (T[t] # NULL /\ T[t].transfer_id = x) <=> (X[x] # NULL /\ IsLeg(t, X[x]))
        /\ X[x] # NULL => X[x].out_tx_id # X[x].in_tx_id

\* A transaction carries the id of a transfer exactly if it is one of the two
\* legs of the transfer stored under that id (link, split, detach_leg, the
\* cascades): no pointer dangles, and no transfer has lost a leg.
PointersAgree == Agree(transactions, transfers)

\* The parts of a split always add up to the transaction (replace_splits,
\* patch_transaction, merge_category, bulk edits), also when requests overlap.
PartsAddUp ==
    \A t \in Txs : transactions[t] # NULL /\ IsSplit(transactions[t])
        => SplitTotal(transactions[t]) = transactions[t].amount

\* A split transaction counts through its parts only: it has no category of its
\* own, is no leg of a transfer, and every part has a category that exists.
CountedOnce ==
    \A t \in Txs : transactions[t] # NULL /\ IsSplit(transactions[t]) =>
        /\ transactions[t].category_id = NULL
        /\ transactions[t].transfer_id = NULL
        /\ \A c \in Cats : transactions[t].splits[c] # 0 => categories[c] # NULL

\* A transfer is what link() made it until it is split or deleted, and a leg leaves
\* its transfer before it joins another, however requests overlap: detection, a
\* client's link, splits and deletions included, each of which may act on rows read
\* before it had the write lock (link, run_detection, split, detach_leg).
TransfersStand ==
    [][/\ \A x \in Uuids : transfers[x] # NULL => transfers'[x] \in {NULL, transfers[x]}
       /\ \A t \in Txs :
             transactions[t] # NULL /\ transactions[t].transfer_id # NULL /\ transactions'[t] # NULL
                => transactions'[t].transfer_id \in {NULL, transactions[t].transfer_id}]_vars

\* The category of a row, or of a part of it, has the wrong sign for the row.
Mismatched(t) ==
    transactions[t] # NULL /\
    \E c \in Cats :
        /\ transactions[t].category_id = c \/ transactions[t].splits[c] # 0
        /\ categories[c] # NULL
        /\ Sign(categories[c]) * transactions[t].amount < 0

\* merge_category: "income and expense never mix".  An income category on an
\* expense, or the reverse, comes only from changing the kind of a category in
\* use, or from a transfer giving a category back to its leg: creating, patching,
\* splitting, categorizing, deleting and merging never cause it
\* (_validate_category_type), as long as requests do not overlap.
SignsGuarded ==
    [][\A t \in Txs : Mismatched(t)' => \/ Mismatched(t)
                                        \/ \E C \in SUBSET Cats, type \in Types : Retype(C, type)
                                        \/ transactions[t] # NULL /\ transactions[t].transfer_id # NULL]_vars

\* link(): the categories are moved aside "so a later split restores exactly
\* what was there": every transfer can be split.
CanBeSplit ==
    \A x \in Uuids : transfers[x] # NULL => Restorable({transfers[x]})

-----------------------------------------------------------------------------
(* What makes PointersAgree inductive as long as requests do not overlap:  *)
(* what a thread has read is still true when it writes.                    *)

ReadIsCurrent(read) ==
    /\ read.op = "detach" =>
          transfers[read.id] # NULL /\ IsLeg(read.tx, transfers[read.id])
    /\ read.op = "remove" =>
          IF read.row = NULL
            THEN read.found = NULL /\ TransfersOf({read.tx}) = {}
            ELSE /\ read.found # NULL
                 /\ transfers[read.found] = read.row
                 /\ IsLeg(read.tx, read.row)
    /\ read.op = "split" => transfers[read.found] = read.row
    /\ read.op = "detect" => Disjoint(read.pairs)

IInv ==
    /\ TypeOK
    /\ PointersAgree
    /\ \A p \in Threads : ~Idle(p) => ReadIsCurrent(job[p])
=============================================================================
