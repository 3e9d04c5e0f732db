------------------------- MODULE LedgerClientProofs -------------------------
(***************************************************************************)
(* Theorems about LedgerClient: its types, what the page shows of a row    *)
(* once every request has been answered, and that it shows all of them.    *)
(***************************************************************************)
EXTENDS LedgerClient, FoldLemmas

-----------------------------------------------------------------------------
(* Tables of rows.                                                         *)

\* Rows that a table may hold: only the legs of the transfer are legs.
Good(f) == IsTable(f) /\ \A i \in DOMAIN f : f[i].leg = (i \in Legs)

RowOf(i) == {row \in Row : row.leg = (i \in Legs)}

LEMMA GoodRows ==
    ASSUME NEW f
    PROVE  Good(f) <=> /\ DOMAIN f \subseteq AnyTx /\ f = [i \in DOMAIN f |-> f[i]]
                       /\ \A i \in DOMAIN f : f[i] \in RowOf(i)
BY DEF Good, IsTable, RowOf

LEMMA MergeGood ==
    ASSUME NEW f, NEW g, Good(f), Good(g)
    PROVE  LET h == MergeTransactions(f, g)
           IN  /\ Good(h) /\ DOMAIN h = DOMAIN f \cup DOMAIN g
               /\ \A i \in DOMAIN f : h[i] = f[i]
               /\ \A i \in DOMAIN g \ DOMAIN f : h[i] = g[i]
<1> DEFINE h == MergeTransactions(f, g)
<1>1. /\ h = [i \in DOMAIN f \cup DOMAIN g |-> IF i \in DOMAIN f THEN f[i] ELSE g[i]]
      /\ DOMAIN h = DOMAIN f \cup DOMAIN g
      /\ \A i \in DOMAIN f : h[i] = f[i]
      /\ \A i \in DOMAIN g \ DOMAIN f : h[i] = g[i]
  BY DEF MergeTransactions
<1>2. DOMAIN h \subseteq AnyTx /\ \A i \in DOMAIN h : h[i] \in RowOf(i)
  BY <1>1, GoodRows
<1>3. h = [i \in DOMAIN h |-> h[i]]
  BY <1>1
<1> HIDE DEF h
<1>4. Good(h)
  BY <1>2, <1>3, GoodRows
<1> QED
  BY <1>1, <1>4 DEF h

LEMMA OnlyGood ==
    ASSUME NEW f, Good(f), NEW S \in SUBSET DOMAIN f
    PROVE  LET h == Only(f, S)
           IN  Good(h) /\ DOMAIN h = S /\ \A i \in S : h[i] = f[i]
<1> DEFINE h == Only(f, S)
<1>1. h = [i \in S |-> f[i]] /\ DOMAIN h = S /\ \A i \in S : h[i] = f[i]
  BY DEF Only
<1>2. DOMAIN h \subseteq AnyTx /\ \A i \in DOMAIN h : h[i] \in RowOf(i)
  BY <1>1, GoodRows
<1>3. h = [i \in DOMAIN h |-> h[i]]
  BY <1>1
<1> HIDE DEF h
<1>4. Good(h)
  BY <1>2, <1>3, GoodRows
<1> QED
  BY <1>1, <1>4 DEF h

LEMMA WithoutGood ==
    ASSUME NEW f, Good(f), NEW S
    PROVE  LET h == Without(f, S)
           IN  Good(h) /\ DOMAIN h = DOMAIN f \ S /\ \A i \in DOMAIN f \ S : h[i] = f[i]
BY OnlyGood DEF Without

\* A table of one row.
One(i, row) == [j \in {i} |-> row]

LEMMA OneGood ==
    ASSUME NEW i \in AnyTx, NEW row \in RowOf(i)
    PROVE  Good(One(i, row)) /\ DOMAIN One(i, row) = {i} /\ One(i, row)[i] = row
<1> DEFINE h == One(i, row)
<1>1. DOMAIN h = {i} /\ h[i] = row /\ h = [j \in DOMAIN h |-> h[j]]
  BY DEF One
<1> HIDE DEF h
<1>2. Good(h)
  BY <1>1, GoodRows
<1> QED
  BY <1>1, <1>2 DEF h

LEMMA ChangeGood ==
    ASSUME NEW f, Good(f), NEW i \in DOMAIN f, NEW row \in RowOf(i)
    PROVE  LET h == [f EXCEPT ![i] = row]
           IN  /\ Good(h) /\ DOMAIN h = DOMAIN f
               /\ h[i] = row /\ \A j \in DOMAIN f \ {i} : h[j] = f[j]
<1> DEFINE h == [f EXCEPT ![i] = row]
<1>1. /\ DOMAIN h = DOMAIN f /\ h[i] = row /\ \A j \in DOMAIN f \ {i} : h[j] = f[j]
      /\ h = [j \in DOMAIN h |-> h[j]]
  OBVIOUS
<1> HIDE DEF h
<1>2. Good(h)
  BY <1>1, GoodRows
<1> QED
  BY <1>1, <1>2 DEF h

LEMMA EmptyGood == Good(<<>>) /\ DOMAIN <<>> = {}
<1>1. DOMAIN <<>> = {} /\ <<>> = [i \in DOMAIN <<>> |-> <<>>[i]]
  OBVIOUS
<1> QED
  BY <1>1, GoodRows

\* The greatest id at the start.
LEMMA LastTxOf == LastTx \in Nat /\ \A i \in Tx : i <= LastTx
<1> DEFINE S == {0} \cup Tx
<1>1. S \subseteq Nat /\ S \in SUBSET Int /\ IsFiniteSet(S) /\ S # {}
  BY LedgerClientAssumption, FS_AddElement
<1>2. \E x \in S : \A y \in S : x >= y
  BY <1>1, Greatest
<1>3. LastTx \in S /\ \A y \in S : LastTx >= y
  BY <1>2 DEF LastTx, Max
<1> QED
  BY <1>1, <1>3

LEMMA Ids == AnyTx \subseteq Nat /\ IsFiniteSet(AnyTx) /\ Tx \subseteq AnyTx /\ Legs \subseteq AnyTx
<1>1. IsFiniteSet(LastTx + 1 .. LastTx + MaxAsked)
  BY LastTxOf, LedgerClientAssumption, FS_Interval
<1>2. IsFiniteSet(AnyTx)
  BY <1>1, LedgerClientAssumption, FS_Union DEF AnyTx
<1> QED
  BY <1>2, LastTxOf, LedgerClientAssumption DEF AnyTx

LEMMA SizeNat ==
    ASSUME NEW f, Good(f)
    PROVE  IsFiniteSet(DOMAIN f) /\ Size(f) \in Nat
BY GoodRows, Ids, FS_Subset, FS_CardinalityType DEF Size

\* A row with one field written, or its parts.
Fits(field, value) == IF field = "date" THEN value \in Tx ELSE value \in Cat

LEMMA FieldWritten ==
    ASSUME NEW i, NEW row \in RowOf(i), NEW field \in Field, NEW value, Fits(field, value)
    PROVE  LET h == [row EXCEPT ![field] = value]
           IN  /\ h \in RowOf(i) /\ h[field] = value
               /\ \A f \in Field \cup {"splits"} : f # field => h[f] = row[f]
BY DEF RowOf, Row, Field, Fits

LEMMA FieldRestored ==
    ASSUME NEW row \in Row, NEW field \in Field, NEW value
    PROVE  [[row EXCEPT ![field] = value] EXCEPT ![field] = row[field]] = row
BY DEF Row, Field

LEMMA PartsWritten ==
    ASSUME NEW i, NEW row \in RowOf(i), NEW parts \in {0, 1}
    PROVE  Parted(row, parts) \in RowOf(i) /\ Parted(Parted(row, parts), parts) = Parted(row, parts)
BY LedgerClientAssumption DEF RowOf, Row, Parted

LEMMA PartsRestored ==
    ASSUME NEW i, NEW row \in RowOf(i), NEW parts \in {0, 1}
    PROVE  [Parted(row, parts) EXCEPT !.splits = row.splits, !.categoryId = row.categoryId] = row
BY DEF RowOf, Row, Parted

-----------------------------------------------------------------------------
(* The parts of the state.                                                 *)

LedgerOK(l) == l = [rows |-> l.rows, total |-> l.total] /\ Good(l.rows) /\ l.total \in Nat

\* Tables of rows that are not legs.
Loose(f) == Good(f) /\ DOMAIN f \cap Legs = {}

IsAsked(f) ==
    /\ f = [stage |-> "asked", offset |-> f.offset, total |-> f.total, pending |-> f.pending]
    /\ f.offset \in Nat /\ f.total \in Nat /\ Good(f.pending)

IsAnswered(f) ==
    /\ f = [stage |-> "answered", offset |-> f.offset, total |-> f.total, pending |-> f.pending,
            page |-> f.page, count |-> f.count]
    /\ f.offset \in Nat /\ f.total \in Nat /\ Good(f.pending) /\ Good(f.page) /\ f.count \in Nat

FillOK(f) == f = None \/ IsAsked(f) \/ IsAnswered(f)

LoadOK(l) ==
    \/ l = [n |-> l.n, current |-> l.current, stage |-> "asked", hidden |-> l.hidden]
    \/ /\ l = [n |-> l.n, current |-> l.current, stage |-> "answered", hidden |-> l.hidden,
               rows |-> l.rows, total |-> l.total]
       /\ Good(l.rows) /\ l.total \in Nat

ListOK(h) ==
    \/ h = [stage |-> "asked"]
    \/ h = [stage |-> "answered", rows |-> h.rows] /\ Loose(h.rows)

Hiding == {"hide", "unhide"}

\* What a request says.
Says(c) ==
    CASE c.kind = "create"     -> c.what.row \in RowOf(c.tx) /\ c.tx = LastTx + c.n
      [] c.kind = "patch"      -> /\ c.what.field \in Field
                                  /\ Fits(c.what.field, c.what.value)
                                  /\ Fits(c.what.field, c.what.before)
      [] c.kind = "splits"     -> c.what.parts \in {0, 1} /\ c.what.before \in RowOf(c.tx)
      [] c.kind = "deleteLegs" -> TRUE
      [] OTHER                 -> c.what.before \in RowOf(c.tx)

CallOK(c) ==
    /\ c = [n |-> c.n, kind |-> c.kind, tx |-> c.tx, epoch |-> c.epoch, stage |-> c.stage,
            what |-> c.what]
    /\ c.n \in Nat \ {0} /\ c.stage \in {"sent", "accepted", "refused"}
    /\ c.kind \in {"create", "patch", "splits", "delete", "deleteLegs"} \cup Hiding
    /\ c.kind # "deleteLegs" => c.tx \in AnyTx \ Legs
    /\ Says(c)

LEMMA TablesAreNotNone == ASSUME NEW f, Good(f) PROVE f # None
BY FillAssumption DEF Good, IsTable

LEMMA FillsAreNotNone ==
    ASSUME NEW f, IsAsked(f) \/ IsAnswered(f)
    PROVE  f # None
<1>1. CASE IsAsked(f)
  <2>1. DOMAIN f.pending \in SUBSET AnyTx /\ f.pending \in [DOMAIN f.pending -> Row]
    BY <1>1 DEF IsAsked, Good, IsTable
  <2>2. f \in Fills(DOMAIN f.pending, {})
    BY <1>1, <2>1 DEF IsAsked, Fills
  <2> QED
    BY <2>1, <2>2, FillAssumption
<1>2. CASE IsAnswered(f)
  <2>1. /\ DOMAIN f.pending \in SUBSET AnyTx /\ f.pending \in [DOMAIN f.pending -> Row]
        /\ DOMAIN f.page \in SUBSET AnyTx /\ f.page \in [DOMAIN f.page -> Row]
    BY <1>2 DEF IsAnswered, Good, IsTable
  <2>2. f \in Fills(DOMAIN f.pending, DOMAIN f.page)
    BY <1>2, <2>1 DEF IsAnswered, Fills
  <2> QED
    BY <2>1, <2>2, FillAssumption
<1> QED
  BY <1>1, <1>2

\* One row of the ledger, written.
LEMMA FieldEdited ==
    ASSUME NEW l, LedgerOK(l), NEW i \in DOMAIN l.rows, NEW field \in Field, NEW value,
           Fits(field, value)
    PROVE  LET row == [l.rows[i] EXCEPT ![field] = value]
           IN  /\ [l EXCEPT !.rows[i][field] = value] =
                     [rows |-> [l.rows EXCEPT ![i] = row], total |-> l.total]
               /\ row \in RowOf(i)
<1>1. l.rows[i] \in RowOf(i)
  BY GoodRows DEF LedgerOK
<1>2. l = [rows |-> l.rows, total |-> l.total]
  BY DEF LedgerOK
<1> QED
  BY <1>1, <1>2, FieldWritten

LEMMA RowEdited ==
    ASSUME NEW l, LedgerOK(l), NEW i \in DOMAIN l.rows, NEW row
    PROVE  [l EXCEPT !.rows[i] = row] = [rows |-> [l.rows EXCEPT ![i] = row], total |-> l.total]
<1>1. l = [rows |-> l.rows, total |-> l.total]
  BY DEF LedgerOK
<1> QED
  BY <1>1

-----------------------------------------------------------------------------
(* The shapes of the variables.                                            *)

ServerOK ==
    /\ Good(srvTx) /\ srvHidden \subseteq DOMAIN srvTx \ Legs
    /\ \A i \in DOMAIN srvTx : i <= LastTx + asked

ShownOK ==
    /\ LedgerOK(ledger) /\ FillOK(fill) /\ \A l \in loads : LoadOK(l)
    /\ hiddenTx # None => Loose(hiddenTx)
    /\ hiddenLoad # None => ListOK(hiddenLoad)

CallsOK ==
    /\ \A c \in calls : CallOK(c) /\ c.n <= asked
    /\ \A c, d \in calls : c.n = d.n => c = d

\* An edit owns its field until it settles, unless a newer one took it.
RevisionsOK ==
    /\ revisions = [field |-> revisions.field, split |-> revisions.split, hidden |-> revisions.hidden]
    /\ revisions.field \in [AnyTx \X Field -> Nat] /\ newest \in [AnyTx \X Field -> Nat]
    /\ revisions.split \in [AnyTx -> Nat] /\ revisions.hidden \in [AnyTx -> Nat]
    /\ \A f \in AnyTx \X Field : revisions.field[f] \in {0, newest[f]}

ProgressOK ==
    /\ \A l, m \in loads : l.current /\ m.current => l = m
    /\ txProgress => fill # None \/ \E l \in loads : l.current

CountsOK ==
    /\ shownEpoch \in Nat /\ asked \in 0 .. MaxAsked /\ doubt \subseteq AnyTx
    /\ shifted \subseteq {"failed", "moved", "deleted", "ended", "raced", "backdated"}

Shape == ServerOK /\ ShownOK /\ CallsOK /\ RevisionsOK /\ ProgressOK /\ CountsOK

LEMMA ShapeTypes == Shape => LedgerTypeOK
<1> SUFFICES ASSUME Shape PROVE LedgerTypeOK
  OBVIOUS
<1>1. IsTable(srvTx) /\ srvHidden \subseteq DOMAIN srvTx
  BY DEF Shape, ServerOK, Good
<1>2. IsTable(ledger.rows) /\ ledger.total \in Nat
  BY DEF Shape, ShownOK, LedgerOK, Good
<1>3. hiddenTx # None => IsTable(hiddenTx)
  BY DEF Shape, ShownOK, Loose, Good
<1>4. fill # None => /\ IsTable(fill.pending) /\ fill.offset \in Nat /\ fill.total \in Nat
                     /\ fill.stage = "answered" => IsTable(fill.page) /\ fill.count \in Nat
  <2>1. IsAsked(fill) => fill.stage = "asked"
    BY DEF IsAsked
  <2> QED
    BY <2>1 DEF Shape, ShownOK, FillOK, IsAsked, IsAnswered, Good
<1>5. \A c \in calls : c.stage \in {"sent", "accepted", "refused"} /\ c.n \in 1..asked
  BY DEF Shape, CallsOK, CallOK, CountsOK
<1> QED
  BY <1>1, <1>2, <1>3, <1>4, <1>5 DEF Shape, ProgressOK, CountsOK, LedgerTypeOK

-----------------------------------------------------------------------------
(* What the operators of the model give.                                   *)

LEMMA PageGood ==
    ASSUME ServerOK, NEW offset, NEW limit
    PROVE  LET p == Page(offset, limit)
           IN  /\ Good(p) /\ DOMAIN p \subseteq Visible
               /\ \A i \in DOMAIN p : p[i] = srvTx[i]
<1> DEFINE rank(i) == Cardinality({j \in Visible : NewerThan(j, i)})
           S == {i \in Visible : rank(i) \in offset .. offset + limit - 1}
<1>1. Page(offset, limit) = Only(srvTx, S)
  BY DEF Page
<1>2. S \subseteq Visible /\ S \in SUBSET DOMAIN srvTx
  BY DEF Visible
<1> HIDE DEF S
<1> QED
  BY <1>1, <1>2, OnlyGood DEF ServerOK

LEMMA NewFillOK ==
    ASSUME NEW l, LedgerOK(l)
    PROVE  FillOK(NewFill(l)) /\ (NewFill(l) # None => NewFill(l).stage = "asked"
                                                       /\ NewFill(l).pending = <<>>)
<1> DEFINE f == [stage |-> "asked", offset |-> Size(l.rows), total |-> l.total, pending |-> <<>>]
<1>0. Size(l.rows) \in Nat /\ l.total \in Nat
  BY SizeNat DEF LedgerOK
<1>1. IsAsked(f) /\ f.stage = "asked" /\ f.pending = <<>>
  BY <1>0, EmptyGood DEF IsAsked
<1> HIDE DEF f
<1>2. NewFill(l) \in {None, f}
  BY DEF NewFill, f
<1> QED
  BY <1>1, <1>2 DEF FillOK

LEMMA GreaterNat == ASSUME NEW a \in Int, NEW b \in Nat PROVE Greater(a, b) \in Nat /\ Greater(b, a) \in Nat
BY DEF Greater

LEMMA KeptOK ==
    ASSUME LedgerOK(ledger), NEW rows, Good(rows)
    PROVE  LedgerOK(Kept(rows)) /\ Kept(rows).rows = MergeTransactions(ledger.rows, rows)
<1> DEFINE h == MergeTransactions(ledger.rows, rows)
<1>1. Good(h)
  BY MergeGood DEF LedgerOK
<1>2. Size(rows) \in Nat
  BY SizeNat
<1> HIDE DEF h
<1>3. ledger.total + Size(rows) \in Nat
  BY <1>2 DEF LedgerOK
<1> QED
  BY <1>1, <1>3 DEF LedgerOK, Kept, h

LEMMA DroppedOK ==
    ASSUME LedgerOK(ledger), NEW ids, IsFiniteSet(ids)
    PROVE  LedgerOK(Dropped(ids)) /\ Dropped(ids).rows = Without(ledger.rows, ids)
<1>1. Cardinality(ids) \in Nat
  BY FS_CardinalityType
<1>2. ledger.total - Cardinality(ids) \in Int
  BY <1>1 DEF LedgerOK
<1>3. Greater(0, ledger.total - Cardinality(ids)) \in Nat
  BY <1>2, GreaterNat
<1> QED
  BY <1>3, WithoutGood DEF LedgerOK, Dropped

LEMMA LoadsOK ==
    ASSUME NEW n, NEW b, NEW h
    PROVE  /\ LoadOK([n |-> n, current |-> b, stage |-> "asked", hidden |-> h])
           /\ \A r, k : Good(r) /\ k \in Nat =>
                  LoadOK([n |-> n, current |-> b, stage |-> "answered", hidden |-> h,
                          rows |-> r, total |-> k])
BY DEF LoadOK

\* A load that a newer one replaces.
LEMMA Superseded ==
    ASSUME NEW l, LoadOK(l), NEW m, m = [l EXCEPT !.current = FALSE]
    PROVE  /\ LoadOK(m) /\ m.current = FALSE /\ m.stage = l.stage
           /\ l.stage = "answered" => m.rows = l.rows
<1>1. CASE l = [n |-> l.n, current |-> l.current, stage |-> "asked", hidden |-> l.hidden]
  <2>0. PICK n, b, h : l = [n |-> n, current |-> b, stage |-> "asked", hidden |-> h]
    BY <1>1
  <2>1. m = [n |-> n, current |-> FALSE, stage |-> "asked", hidden |-> h]
    BY <2>0
  <2>2. l.stage = "asked" /\ m.stage = "asked" /\ m.current = FALSE
    BY <2>0, <2>1
  <2>3. LoadOK([n |-> n, current |-> FALSE, stage |-> "asked", hidden |-> h])
    BY LoadsOK
  <2> QED
    BY <2>1, <2>2, <2>3
<1>2. CASE /\ l = [n |-> l.n, current |-> l.current, stage |-> "answered", hidden |-> l.hidden,
                   rows |-> l.rows, total |-> l.total]
           /\ Good(l.rows) /\ l.total \in Nat
  <2>0. PICK n, b, h, r, k : l = [n |-> n, current |-> b, stage |-> "answered", hidden |-> h,
                                  rows |-> r, total |-> k]
    BY <1>2
  <2>1. /\ m = [n |-> n, current |-> FALSE, stage |-> "answered", hidden |-> h, rows |-> r, total |-> k]
        /\ r = l.rows /\ k = l.total
    BY <2>0
  <2>2. l.stage = "answered" /\ m.stage = "answered" /\ m.current = FALSE /\ m.rows = l.rows
    BY <2>0, <2>1
  <2>3. LoadOK([n |-> n, current |-> FALSE, stage |-> "answered", hidden |-> h, rows |-> r,
                total |-> k])
    BY <1>2, <2>1, LoadsOK
  <2> QED
    BY <2>1, <2>2, <2>3
<1>3. \/ l = [n |-> l.n, current |-> l.current, stage |-> "asked", hidden |-> l.hidden]
      \/ /\ l = [n |-> l.n, current |-> l.current, stage |-> "answered", hidden |-> l.hidden,
                 rows |-> l.rows, total |-> l.total]
         /\ Good(l.rows) /\ l.total \in Nat
  BY DEF LoadOK
<1> QED
  BY <1>1, <1>2, <1>3

\* The fill and the loads have their shape; nothing waits in a fill that was
\* started again, and loads at most stop being current.
Refilled ==
    /\ FillOK(fill') /\ ProgressOK'
    /\ \/ fill' = fill
       \/ fill' = None
       \/ fill'.stage = "asked" /\ fill'.pending = <<>>
    /\ \A m \in loads' :
          LoadOK(m) /\ \E l \in loads : m.stage = l.stage /\ (l.stage = "answered" => m.rows = l.rows)

LEMMA RestartedOK ==
    ASSUME Shape, NEW current, LedgerOK(current), Restarted(current)
    PROVE  Refilled
<1>1. CASE txProgress
  <2>1. fill' = NewFill(current) /\ txProgress' = (fill' # None)
        /\ loads' = {[l EXCEPT !.current = FALSE] : l \in loads}
    BY <1>1 DEF Restarted, StartFill
  <2>2. ASSUME NEW m \in loads'
        PROVE  /\ LoadOK(m) /\ m.current = FALSE
               /\ \E l \in loads : m.stage = l.stage /\ (l.stage = "answered" => m.rows = l.rows)
    <3>1. PICK l \in loads : m = [l EXCEPT !.current = FALSE]
      BY <2>1
    <3>2. LoadOK(l)
      BY DEF Shape, ShownOK
    <3> QED
      BY <3>1, <3>2, Superseded
  <2>3. ProgressOK'
    BY <2>1, <2>2 DEF ProgressOK
  <2>4. FillOK(fill') /\ (fill' # None => fill'.stage = "asked" /\ fill'.pending = <<>>)
    BY <2>1, NewFillOK
  <2> QED
    BY <2>2, <2>3, <2>4 DEF Refilled
<1>2. CASE ~txProgress
  BY <1>2 DEF Restarted, Shape, ShownOK, ProgressOK, Refilled
<1> QED
  BY <1>1, <1>2

\* A request that leaves.
LEMMA DoOK ==
    ASSUME Shape, NEW kind, NEW tx, NEW what, Do(kind, tx, what), CallOK(Call(kind, tx, what))
    PROVE  /\ CallsOK' /\ asked' = asked + 1 /\ asked' \in 0 .. MaxAsked
           /\ ServerOK' /\ UNCHANGED server
           /\ calls' = calls \cup {Call(kind, tx, what)}
<1>1. asked \in Nat /\ MaxAsked \in Nat /\ asked < MaxAsked /\ asked' = asked + 1
  BY LedgerClientAssumption DEF Shape, CountsOK, Do, CanDo
<1>2. calls' = calls \cup {Call(kind, tx, what)} /\ UNCHANGED server
  BY DEF Do
<1>3. Call(kind, tx, what).n = asked + 1
  BY DEF Call
<1>4. \A c \in calls : CallOK(c) /\ c.n <= asked /\ c.n \in Nat
  BY DEF Shape, CallsOK, CallOK
<1>5. \A c \in calls' : CallOK(c) /\ c.n <= asked'
  BY <1>1, <1>2, <1>3, <1>4
<1>6. \A c, d \in calls' : c.n = d.n => c = d
  BY <1>1, <1>2, <1>3, <1>4 DEF Shape, CallsOK
<1>7. CallsOK'
  BY <1>5, <1>6 DEF CallsOK
<1>8. ServerOK'
  <2>1. LastTx \in Nat
    BY LastTxOf
  <2>2. \A i \in DOMAIN srvTx : i \in Nat
    BY Ids, GoodRows DEF Shape, ServerOK
  <2> QED
    BY <1>1, <1>2, <2>1, <2>2 DEF Shape, ServerOK, server
<1> QED
  BY <1>1, <1>2, <1>7, <1>8

LEMMA TouchedRows == ASSUME NEW c, CallOK(c) PROVE Touched(c.kind, c.tx) \subseteq AnyTx
BY Ids DEF CallOK, Touched

LEMMA UnansweredRows == CallsOK => Unanswered \subseteq AnyTx
BY TouchedRows DEF CallsOK, Unanswered

LEMMA DoubtGrows ==
    ASSUME Shape, NEW kind, NEW tx, NEW what, Do(kind, tx, what), CallOK(Call(kind, tx, what))
    PROVE  doubt' \subseteq AnyTx
<1>1. Touched(kind, tx) \subseteq AnyTx
  BY TouchedRows DEF Call
<1>2. doubt' \in {doubt, doubt \cup Touched(kind, tx)}
  BY DEF Do
<1> QED
  BY <1>1, <1>2 DEF Shape, CountsOK

-----------------------------------------------------------------------------
(* Every step keeps the shapes: loads and pages.                           *)

LEMMA CountUp ==
    ASSUME Shape, CanDo
    PROVE  /\ asked \in Nat /\ asked + 1 \in 0 .. MaxAsked
           /\ \A i \in DOMAIN srvTx : i \in Nat /\ i <= LastTx + (asked + 1)
           /\ \A c \in calls : CallOK(c) /\ c.n <= asked + 1
<1>1. asked \in Nat /\ asked + 1 \in 0 .. MaxAsked
  BY LedgerClientAssumption DEF Shape, CountsOK, CanDo
<1>2. \A i \in DOMAIN srvTx : i \in Nat /\ i <= LastTx + (asked + 1)
  <2>1. \A i \in DOMAIN srvTx : i \in Nat /\ i <= LastTx + asked
    BY Ids, GoodRows DEF Shape, ServerOK
  <2> QED
    BY <1>1, <2>1, LastTxOf
<1>3. \A c \in calls : CallOK(c) /\ c.n <= asked + 1
  <2>1. \A c \in calls : CallOK(c) /\ c.n <= asked /\ c.n \in Nat
    BY DEF Shape, CallsOK, CallOK
  <2> QED
    BY <1>1, <2>1
<1> QED
  BY <1>1, <1>2, <1>3

LEMMA LoadShape == Shape /\ Load => Shape'
<1> SUFFICES ASSUME Shape, Load PROVE Shape'
  OBVIOUS
<1> DEFINE new == [n |-> asked, current |-> TRUE, stage |-> "asked", hidden |-> hiddenTx # None]
<1>0. CanDo /\ asked' = asked + 1 /\ UNCHANGED <<server, ledger, txProgress, revisions, shownEpoch,
                                                 calls, newest, shifted>>
      /\ fill' = None /\ hiddenTx' = None /\ hiddenLoad' = None
      /\ doubt' = doubt \cup Unanswered
      /\ loads' = {[l EXCEPT !.current = FALSE] : l \in loads} \cup {new}
  BY DEF Load
<1>1. LoadOK(new) /\ new.current
  BY LoadsOK
<1>2. \A m \in loads' : LoadOK(m) /\ (m = new \/ m.current = FALSE)
  <2> SUFFICES ASSUME NEW m \in loads', m # new PROVE LoadOK(m) /\ m.current = FALSE
    BY <1>1
  <2>1. PICK l \in loads : m = [l EXCEPT !.current = FALSE]
    BY <1>0
  <2>2. LoadOK(l)
    BY DEF Shape, ShownOK
  <2> QED
    BY <2>1, <2>2, Superseded
<1>3. new \in loads'
  BY <1>0
<1> HIDE DEF new
<1>4. ServerOK'
  BY <1>0, CountUp DEF Shape, ServerOK, server
<1>5. ShownOK'
  BY <1>0, <1>2 DEF Shape, ShownOK, FillOK
<1>6. CallsOK'
  BY <1>0, CountUp DEF Shape, CallsOK
<1>7. RevisionsOK'
  BY <1>0 DEF Shape, RevisionsOK
<1>8. ProgressOK'
  BY <1>1, <1>2, <1>3 DEF ProgressOK
<1>9. CountsOK'
  BY <1>0, CountUp, UnansweredRows DEF Shape, CountsOK
<1> QED
  BY <1>4, <1>5, <1>6, <1>7, <1>8, <1>9 DEF Shape

LEMMA SnapshotReadShape == Shape /\ SnapshotRead => Shape'
<1> SUFFICES ASSUME Shape, SnapshotRead PROVE Shape'
  OBVIOUS
<1>0. /\ UNCHANGED <<server, ledger, txProgress, fill, hiddenTx, hiddenLoad, revisions, shownEpoch,
                     calls, asked, newest, shifted>>
      /\ doubt' = doubt \cup Unanswered
  BY DEF SnapshotRead
<1>1. PICK l \in loads :
         /\ l.stage = "asked"
         /\ loads' = (loads \ {l}) \cup
                {[n |-> l.n, current |-> l.current, stage |-> "answered", hidden |-> l.hidden,
                  rows |-> Page(0, Light), total |-> Cardinality(Visible)]}
  BY DEF SnapshotRead
<1> DEFINE new == [n |-> l.n, current |-> l.current, stage |-> "answered", hidden |-> l.hidden,
                   rows |-> Page(0, Light), total |-> Cardinality(Visible)]
<1>2. Good(Page(0, Light)) /\ Cardinality(Visible) \in Nat
  <2>1. IsFiniteSet(Visible)
    BY SizeNat, FS_Subset DEF Visible, Shape, ServerOK
  <2> QED
    BY <2>1, FS_CardinalityType, PageGood DEF Shape
<1>3. LoadOK(new) /\ new.current = l.current
  BY <1>2, LoadsOK
<1>4. loads' = (loads \ {l}) \cup {new}
  BY <1>1
<1> HIDE DEF new
<1>5. ShownOK'
  BY <1>0, <1>3, <1>4 DEF Shape, ShownOK
<1>6. ProgressOK'
  BY <1>0, <1>3, <1>4 DEF Shape, ProgressOK
<1>7. CountsOK' /\ ServerOK' /\ CallsOK' /\ RevisionsOK'
  BY <1>0, UnansweredRows DEF Shape, CountsOK, ServerOK, CallsOK, RevisionsOK, server
<1> QED
  BY <1>5, <1>6, <1>7 DEF Shape

LEMMA SnapshotReturnsShape == Shape /\ SnapshotReturns => Shape'
<1> SUFFICES ASSUME Shape, SnapshotReturns PROVE Shape'
  OBVIOUS
<1>1. PICK l \in loads :
        /\ l.stage = "answered" /\ loads' = loads \ {l}
        /\ IF l.current
           THEN /\ ledger' = [rows |-> l.rows, total |-> l.total]
                /\ shownEpoch' = shownEpoch + 1
                /\ StartFill(ledger')
                /\ hiddenLoad' = IF l.hidden THEN [stage |-> "asked"] ELSE hiddenLoad
           ELSE UNCHANGED <<ledger, shownEpoch, fill, txProgress, hiddenLoad>>
        /\ UNCHANGED <<server, hiddenTx, revisions, calls, asked, newest, doubt, shifted>>
  BY DEF SnapshotReturns
<1>2. Good(l.rows) /\ l.total \in Nat
  BY <1>1 DEF Shape, ShownOK, LoadOK
<1>3. ServerOK' /\ CallsOK' /\ RevisionsOK'
  BY <1>1 DEF Shape, ServerOK, CallsOK, RevisionsOK, server
<1>4. CASE l.current
  <2>1. LedgerOK(ledger')
    BY <1>1, <1>2, <1>4 DEF LedgerOK
  <2>2. fill' = NewFill(ledger') /\ txProgress' = (fill' # None)
    BY <1>1, <1>4 DEF StartFill
  <2>3. FillOK(fill')
    BY <2>1, <2>2, NewFillOK
  <2>4. \/ hiddenLoad' = hiddenLoad
        \/ hiddenLoad' = [stage |-> "asked"]
    BY <1>1, <1>4
  <2>5. hiddenLoad' # None => ListOK(hiddenLoad')
    BY <2>4 DEF Shape, ShownOK, ListOK
  <2>6. ShownOK'
    BY <1>1, <2>1, <2>3, <2>5 DEF Shape, ShownOK
  <2>7. ProgressOK'
    BY <1>1, <2>2 DEF Shape, ProgressOK
  <2>8. CountsOK'
    BY <1>1, <1>4 DEF Shape, CountsOK
  <2> QED
    BY <1>3, <2>6, <2>7, <2>8 DEF Shape
<1>5. CASE ~l.current
  <2>1. ShownOK' /\ ProgressOK' /\ CountsOK'
    BY <1>1, <1>5 DEF Shape, ShownOK, ProgressOK, CountsOK
  <2> QED
    BY <1>3, <2>1 DEF Shape
<1> QED
  BY <1>4, <1>5

LEMMA LoadFailsShape == Shape /\ LoadFails => Shape'
<1> SUFFICES ASSUME Shape, LoadFails PROVE Shape'
  OBVIOUS
<1>1. /\ loads' \subseteq loads /\ txProgress' = FALSE /\ shifted' = shifted \cup {"failed"}
      /\ UNCHANGED <<server, ledger, fill, hiddenTx, hiddenLoad, revisions, shownEpoch, calls, asked,
                     newest, doubt>>
  BY DEF LoadFails
<1>2. ServerOK' /\ ShownOK' /\ CallsOK' /\ RevisionsOK'
  BY <1>1 DEF Shape, ServerOK, ShownOK, CallsOK, RevisionsOK, server
<1>3. ProgressOK' /\ CountsOK'
  BY <1>1 DEF Shape, ProgressOK, CountsOK
<1> QED
  BY <1>2, <1>3 DEF Shape

LEMMA HiddenListShape == Shape /\ (LoadHiddenTx \/ HiddenRead \/ HiddenReturns) => Shape'
<1> SUFFICES ASSUME Shape, LoadHiddenTx \/ HiddenRead \/ HiddenReturns PROVE Shape'
  OBVIOUS
<1>1. CASE LoadHiddenTx
  <2>1. /\ CanDo /\ asked' = asked + 1 /\ hiddenLoad' = [stage |-> "asked"]
        /\ doubt' = doubt \cup Unanswered
        /\ UNCHANGED <<server, ledger, txProgress, fill, loads, hiddenTx, revisions, shownEpoch, calls,
                       newest, shifted>>
    BY <1>1 DEF LoadHiddenTx
  <2>2. ServerOK' /\ CallsOK'
    BY <2>1, CountUp DEF Shape, ServerOK, CallsOK, server
  <2>3. ListOK(hiddenLoad')
    BY <2>1 DEF ListOK
  <2>4. ShownOK' /\ RevisionsOK' /\ ProgressOK'
    BY <2>1, <2>3 DEF Shape, ShownOK, RevisionsOK, ProgressOK
  <2>5. CountsOK'
    BY <2>1, CountUp, UnansweredRows DEF Shape, CountsOK
  <2> QED
    BY <2>2, <2>4, <2>5 DEF Shape
<1>2. CASE HiddenRead
  <2>1. /\ hiddenLoad' = [stage |-> "answered", rows |-> Only(srvTx, srvHidden)]
        /\ UNCHANGED <<server, ledger, txProgress, fill, loads, hiddenTx, revisions, shownEpoch, calls,
                       asked, newest, doubt, shifted>>
    BY <1>2 DEF HiddenRead
  <2>2. Loose(Only(srvTx, srvHidden))
    BY OnlyGood DEF Shape, ServerOK, Loose
  <2>3. ListOK(hiddenLoad')
    BY <2>1, <2>2 DEF ListOK
  <2> QED
    BY <2>1, <2>3 DEF Shape, ServerOK, ShownOK, CallsOK, RevisionsOK, ProgressOK, CountsOK, server
<1>3. CASE HiddenReturns
  <2>1. /\ hiddenLoad # None /\ hiddenLoad' = None
        /\ (hiddenLoad.stage = "answered" /\ hiddenTx' = hiddenLoad.rows) \/ UNCHANGED hiddenTx
        /\ UNCHANGED <<server, ledger, txProgress, fill, loads, revisions, shownEpoch, calls, asked,
                       newest, doubt, shifted>>
    BY <1>3 DEF HiddenReturns
  <2>2. hiddenTx' # None => Loose(hiddenTx')
    BY <2>1 DEF Shape, ShownOK, ListOK
  <2> QED
    BY <2>1, <2>2 DEF Shape, ServerOK, ShownOK, CallsOK, RevisionsOK, ProgressOK, CountsOK, server
<1> QED
  BY <1>1, <1>2, <1>3

LEMMA PageReadShape == Shape /\ PageRead => Shape'
<1> SUFFICES ASSUME Shape, PageRead PROVE Shape'
  OBVIOUS
<1> DEFINE p == Page(fill.offset, TX_CHUNK)
           k == Cardinality(Visible)
<1>0. fill # None /\ fill.stage = "asked"
  BY DEF PageRead
<1>1. /\ fill' = [stage |-> "answered", offset |-> fill.offset, total |-> fill.total,
                  pending |-> fill.pending, page |-> p, count |-> k]
      /\ doubt' = doubt \cup (Unanswered \cap DOMAIN fill'.page)
      /\ shifted' \in {shifted, shifted \cup {"raced"}}
      /\ UNCHANGED <<server, ledger, txProgress, loads, hiddenTx, hiddenLoad, revisions, shownEpoch,
                     calls, asked, newest>>
  BY DEF PageRead
<1>2. Good(p) /\ k \in Nat
  <2>1. IsFiniteSet(Visible)
    BY SizeNat, FS_Subset DEF Visible, Shape, ServerOK
  <2> QED
    BY <2>1, FS_CardinalityType, PageGood DEF Shape
<1> HIDE DEF p, k
<1>3. IsAsked(fill)
  BY <1>0 DEF Shape, ShownOK, FillOK, IsAnswered
<1>4. IsAnswered(fill')
  BY <1>1, <1>2, <1>3 DEF IsAsked, IsAnswered
<1>5. FillOK(fill') /\ fill' # None
  BY <1>4, FillsAreNotNone DEF FillOK
<1>6. ShownOK' /\ ProgressOK'
  BY <1>1, <1>5 DEF Shape, ShownOK, ProgressOK
<1>7. ServerOK' /\ CallsOK' /\ RevisionsOK'
  BY <1>1 DEF Shape, ServerOK, CallsOK, RevisionsOK, server
<1>8. CountsOK'
  BY <1>1, UnansweredRows DEF Shape, CountsOK
<1> QED
  BY <1>6, <1>7, <1>8 DEF Shape

\* A page that arrives: the ledger and the fill that it leaves.
LEMMA PageReturnsGives ==
    ASSUME Shape, PageReturns
    PROVE  LET pending == MergeTransactions(fill.pending, fill.page)
           IN  /\ fill # None /\ fill.stage = "answered" /\ IsAnswered(fill)
               /\ UNCHANGED <<server, loads, hiddenTx, hiddenLoad, revisions, shownEpoch, calls, asked,
                              newest, doubt>>
               /\ shifted' \in {shifted, shifted \cup {"ended"}}
               /\ \/ /\ LedgerOK(ledger') /\ ledger'.rows = MergeTransactions(ledger.rows, pending)
                     /\ \/ fill' = None /\ txProgress' = FALSE
                        \/ fill' # None /\ IsAsked(fill') /\ fill'.pending = <<>>
                  \/ /\ UNCHANGED <<ledger, txProgress>>
                     /\ fill' # None /\ IsAsked(fill') /\ fill'.pending = pending
<1>0. fill # None /\ fill.stage = "answered"
  BY DEF PageReturns
<1>1. IsAnswered(fill)
  BY <1>0 DEF Shape, ShownOK, FillOK, IsAsked
<1> DEFINE offset  == fill.offset + Size(fill.page)
           count   == Greater(fill.count, offset)
           pending == MergeTransactions(fill.pending, fill.page)
           done    == FillDone(Size(fill.page), Size(ledger.rows) + Size(pending), count)
           merged  == MergeTransactions(ledger.rows, pending)
           total   == Greater(Greater(count, ledger.total), Size(merged))
<1>2. /\ \/ /\ ledger' = [rows |-> merged, total |-> total]
            /\ txProgress' = ~done
            /\ fill' = IF done THEN None
                       ELSE [stage |-> "asked", offset |-> offset, total |-> count, pending |-> <<>>]
            /\ shifted' = IF done /\ calls # {} THEN shifted \cup {"ended"} ELSE shifted
         \/ /\ ~done
            /\ fill' = [stage |-> "asked", offset |-> offset, total |-> count, pending |-> pending]
            /\ UNCHANGED <<ledger, txProgress, shifted>>
      /\ UNCHANGED <<server, loads, hiddenTx, hiddenLoad, revisions, shownEpoch, calls, asked, newest,
                     doubt>>
  BY DEF PageReturns
<1>3. offset \in Nat /\ count \in Nat
  BY <1>1, SizeNat, GreaterNat DEF IsAnswered
<1>4. Good(pending) /\ Good(merged)
  BY <1>1, MergeGood DEF IsAnswered, Shape, ShownOK, LedgerOK
<1>5. total \in Nat
  BY <1>3, <1>4, SizeNat, GreaterNat DEF Shape, ShownOK, LedgerOK
<1> HIDE DEF offset, count, done, total, pending, merged
<1>6. LedgerOK([rows |-> merged, total |-> total])
  BY <1>4, <1>5 DEF LedgerOK
<1>7. ASSUME NEW q, Good(q)
      PROVE  LET f == [stage |-> "asked", offset |-> offset, total |-> count, pending |-> q]
             IN  f # None /\ IsAsked(f) /\ f.pending = q
  <2> DEFINE f == [stage |-> "asked", offset |-> offset, total |-> count, pending |-> q]
  <2>1. IsAsked(f) /\ f.pending = q
    BY <1>3, <1>7 DEF IsAsked
  <2> HIDE DEF f
  <2>2. f # None
    BY <2>1, FillsAreNotNone
  <2> QED
    BY <2>1, <2>2 DEF f
<1>8. CASE /\ ledger' = [rows |-> merged, total |-> total]
           /\ txProgress' = ~done
           /\ fill' = IF done THEN None
                      ELSE [stage |-> "asked", offset |-> offset, total |-> count, pending |-> <<>>]
           /\ shifted' = IF done /\ calls # {} THEN shifted \cup {"ended"} ELSE shifted
  <2>1. LedgerOK(ledger') /\ ledger'.rows = merged
    BY <1>6, <1>8
  <2>2. \/ fill' = None /\ txProgress' = FALSE
        \/ fill' # None /\ IsAsked(fill') /\ fill'.pending = <<>>
    BY <1>7, <1>8, EmptyGood
  <2> QED
    BY <1>0, <1>1, <1>2, <1>8, <2>1, <2>2 DEF merged, pending
<1>9. CASE /\ ~done
           /\ fill' = [stage |-> "asked", offset |-> offset, total |-> count, pending |-> pending]
           /\ UNCHANGED <<ledger, txProgress, shifted>>
  <2>1. fill' # None /\ IsAsked(fill') /\ fill'.pending = pending
    BY <1>4, <1>7, <1>9
  <2> QED
    BY <1>0, <1>1, <1>2, <1>9, <2>1 DEF pending
<1> QED
  BY <1>2, <1>8, <1>9

LEMMA PageReturnsShape == Shape /\ PageReturns => Shape'
<1> SUFFICES ASSUME Shape, PageReturns PROVE Shape'
  OBVIOUS
<1>1. /\ UNCHANGED <<server, loads, hiddenTx, hiddenLoad, revisions, shownEpoch, calls, asked, newest,
                     doubt>>
      /\ shifted' \in {shifted, shifted \cup {"ended"}}
      /\ \/ LedgerOK(ledger') \/ UNCHANGED ledger
      /\ \/ fill' = None /\ txProgress' = FALSE
         \/ fill' # None /\ IsAsked(fill')
  BY PageReturnsGives
<1>2. ShownOK' /\ ProgressOK'
  BY <1>1 DEF Shape, ShownOK, FillOK, ProgressOK
<1>3. ServerOK' /\ CallsOK' /\ RevisionsOK' /\ CountsOK'
  BY <1>1 DEF Shape, ServerOK, CallsOK, RevisionsOK, CountsOK, server
<1> QED
  BY <1>2, <1>3 DEF Shape

LEMMA FillFailsShape == Shape /\ FillFails => Shape'
<1> SUFFICES ASSUME Shape, FillFails PROVE Shape'
  OBVIOUS
<1> QED
  BY DEF FillFails, Shape, ServerOK, ShownOK, CallsOK, RevisionsOK, ProgressOK, CountsOK, FillOK, server

-----------------------------------------------------------------------------
(* Every step keeps the shapes: what the person does.                      *)

LEMMA NewCall ==
    ASSUME Shape, CanDo, NEW kind \in {"create", "patch", "splits", "delete", "deleteLegs"} \cup Hiding,
           NEW tx, kind # "deleteLegs" => tx \in AnyTx \ Legs, NEW what, Says(Call(kind, tx, what))
    PROVE  CallOK(Call(kind, tx, what))
<1>1. asked + 1 \in Nat \ {0}
  BY CountUp
<1> DEFINE c == Call(kind, tx, what)
<1>2. /\ c = [n |-> c.n, kind |-> c.kind, tx |-> c.tx, epoch |-> c.epoch, stage |-> c.stage,
              what |-> c.what]
      /\ c.n = asked + 1 /\ c.kind = kind /\ c.tx = tx /\ c.stage = "sent"
  BY DEF Call
<1> HIDE DEF c
<1>3. Says(c)
  BY DEF c
<1>4. CallOK(c)
  BY <1>1, <1>2, <1>3 DEF CallOK
<1> QED
  BY <1>4 DEF c

\* Revisions with one entry written.
LEMMA EntryWritten ==
    ASSUME NEW f, NEW s, NEW h, NEW r, r = [field |-> f, split |-> s, hidden |-> h], NEW n, NEW x
    PROVE  /\ [r EXCEPT !.field[x] = n] = [field |-> [f EXCEPT ![x] = n], split |-> s, hidden |-> h]
           /\ [r EXCEPT !.split[x] = n] = [field |-> f, split |-> [s EXCEPT ![x] = n], hidden |-> h]
           /\ [r EXCEPT !.hidden[x] = n] = [field |-> f, split |-> s, hidden |-> [h EXCEPT ![x] = n]]
OBVIOUS

LEMMA RevisionWritten ==
    ASSUME RevisionsOK, NEW n, NEW x
    PROVE  /\ [revisions EXCEPT !.field[x] = n] =
                  [field |-> [revisions.field EXCEPT ![x] = n],
                   split |-> revisions.split, hidden |-> revisions.hidden]
           /\ [revisions EXCEPT !.split[x] = n] =
                  [field |-> revisions.field, split |-> [revisions.split EXCEPT ![x] = n],
                   hidden |-> revisions.hidden]
           /\ [revisions EXCEPT !.hidden[x] = n] =
                  [field |-> revisions.field, split |-> revisions.split,
                   hidden |-> [revisions.hidden EXCEPT ![x] = n]]
<1> DEFINE f == revisions.field
           s == revisions.split
           h == revisions.hidden
<1>1. revisions = [field |-> f, split |-> s, hidden |-> h]
  BY DEF RevisionsOK
<1> HIDE DEF f, s, h
<1>2. /\ [revisions EXCEPT !.field[x] = n] = [field |-> [f EXCEPT ![x] = n], split |-> s, hidden |-> h]
      /\ [revisions EXCEPT !.split[x] = n] = [field |-> f, split |-> [s EXCEPT ![x] = n], hidden |-> h]
      /\ [revisions EXCEPT !.hidden[x] = n] = [field |-> f, split |-> s, hidden |-> [h EXCEPT ![x] = n]]
  BY <1>1, EntryWritten
<1> QED
  BY <1>2 DEF f, s, h

LEMMA RevisionsMade ==
    ASSUME NEW f, NEW s, NEW h, revisions' = [field |-> f, split |-> s, hidden |-> h],
           f \in [AnyTx \X Field -> Nat], newest' \in [AnyTx \X Field -> Nat],
           s \in [AnyTx -> Nat], h \in [AnyTx -> Nat],
           \A x \in AnyTx \X Field : f[x] \in {0, newest'[x]}
    PROVE  RevisionsOK'
BY DEF RevisionsOK

LEMMA SplitOwned ==
    ASSUME RevisionsOK, NEW i \in AnyTx, NEW n \in Nat, newest' = newest,
           \/ revisions' = revisions
           \/ revisions' = [revisions EXCEPT !.split[i] = n]
           \/ revisions' = [revisions EXCEPT !.hidden[i] = n]
    PROVE  RevisionsOK'
<1> DEFINE s == [revisions.split EXCEPT ![i] = n]
           h == [revisions.hidden EXCEPT ![i] = n]
<1>1. s \in [AnyTx -> Nat] /\ h \in [AnyTx -> Nat]
  BY DEF RevisionsOK
<1>3. \/ revisions' = revisions
      \/ revisions' = [field |-> revisions.field, split |-> s, hidden |-> revisions.hidden]
      \/ revisions' = [field |-> revisions.field, split |-> revisions.split, hidden |-> h]
  BY RevisionWritten
<1> HIDE DEF s, h
<1>4. CASE revisions' = revisions
  BY <1>4 DEF RevisionsOK
<1>5. CASE revisions' = [field |-> revisions.field, split |-> s, hidden |-> revisions.hidden]
  BY <1>1, <1>5, RevisionsMade DEF RevisionsOK
<1>6. CASE revisions' = [field |-> revisions.field, split |-> revisions.split, hidden |-> h]
  BY <1>1, <1>6, RevisionsMade DEF RevisionsOK
<1> QED
  BY <1>3, <1>4, <1>5, <1>6

LEMMA FieldOwned ==
    ASSUME RevisionsOK, NEW i \in AnyTx, NEW field \in Field, NEW n \in Nat,
           revisions' = [revisions EXCEPT !.field[<<i, field>>] = n],
           (n = 0 /\ newest' = newest) \/ newest' = [newest EXCEPT ![<<i, field>>] = n]
    PROVE  RevisionsOK'
<1> DEFINE f == [revisions.field EXCEPT ![<<i, field>>] = n]
<1>1. f \in [AnyTx \X Field -> Nat] /\ newest' \in [AnyTx \X Field -> Nat]
  BY DEF RevisionsOK
<1>2. \A x \in AnyTx \X Field : f[x] \in {0, newest'[x]}
  <2> SUFFICES ASSUME NEW x \in AnyTx \X Field PROVE f[x] \in {0, newest'[x]}
    OBVIOUS
  <2>1. revisions.field[x] \in {0, newest[x]}
    BY DEF RevisionsOK
  <2>2. CASE x = <<i, field>>
    <3>1. f[x] = n /\ (n = 0 \/ newest'[x] = n)
      BY <2>2 DEF RevisionsOK
    <3> QED
      BY <3>1
  <2>3. CASE x # <<i, field>>
    <3>1. f[x] = revisions.field[x] /\ newest'[x] = newest[x]
      BY <2>3 DEF RevisionsOK
    <3> QED
      BY <2>1, <3>1
  <2> QED
    BY <2>2, <2>3
<1>3. revisions' = [field |-> f, split |-> revisions.split, hidden |-> revisions.hidden]
  <2>1. [revisions EXCEPT !.field[<<i, field>>] = n] =
          [field |-> [revisions.field EXCEPT ![<<i, field>>] = n], split |-> revisions.split,
           hidden |-> revisions.hidden]
    BY RevisionWritten
  <2> QED
    BY <2>1
<1> HIDE DEF f
<1> QED
  BY <1>1, <1>2, <1>3, RevisionsMade DEF RevisionsOK

\* What an edit leaves, when what it shows and what it owns have their shape.
LEMMA EditShape ==
    ASSUME Shape, NEW kind, NEW tx, NEW what, Do(kind, tx, what), CallOK(Call(kind, tx, what)),
           ShownOK', RevisionsOK', UNCHANGED <<fill, loads, txProgress, shownEpoch>>,
           shifted' \subseteq shifted \cup {"moved", "deleted"}
    PROVE  Shape'
<1>1. CallsOK' /\ ServerOK' /\ asked' \in 0 .. MaxAsked
  BY DoOK
<1>2. doubt' \subseteq AnyTx
  BY DoubtGrows
<1>3. ProgressOK'
  BY DEF Shape, ProgressOK
<1>4. CountsOK'
  BY <1>1, <1>2 DEF Shape, CountsOK
<1> QED
  BY <1>1, <1>3, <1>4 DEF Shape

\* A row shown, and whether it is a leg.
LEMMA ShownRow ==
    ASSUME Shape, NEW i \in DOMAIN ledger.rows
    PROVE  i \in AnyTx /\ ledger.rows[i] \in RowOf(i) /\ (ledger.rows[i].leg <=> i \in Legs)
BY GoodRows DEF Shape, ShownOK, LedgerOK, RowOf

LEMMA AddShape ==
    ASSUME Shape, NEW date \in Tx, AddTransaction(date)
    PROVE  Shape' /\ LET what == [row |-> [date |-> date, categoryId |-> 0, splits |-> 0, leg |-> FALSE]]
                     IN  /\ Do("create", LastTx + asked + 1, what)
                         /\ CallOK(Call("create", LastTx + asked + 1, what))
                         /\ LastTx + asked + 1 \in AnyTx \ Legs
                         /\ UNCHANGED <<client, newest, shifted>>
<1> DEFINE row == [date |-> date, categoryId |-> 0, splits |-> 0, leg |-> FALSE]
           what == [row |-> row]
           tx == LastTx + asked + 1
<1>1. Do("create", tx, what) /\ UNCHANGED <<client, newest, shifted>>
  BY DEF AddTransaction
<1>2. CanDo
  BY <1>1 DEF Do
<1>3. tx \in AnyTx \ Legs
  <2>1. tx \in LastTx + 1 .. LastTx + MaxAsked
    BY <1>2, CountUp, LastTxOf, LedgerClientAssumption
  <2>2. tx > LastTx /\ \A j \in Legs : j <= LastTx
    BY <1>2, CountUp, LastTxOf, LedgerClientAssumption
  <2> QED
    BY <2>1, <2>2, LastTxOf DEF AnyTx
<1>4. row \in RowOf(tx)
  <2>1. tx \notin Legs
    BY <1>3
  <2> HIDE DEF tx
  <2>2. row \in Row /\ row.leg \in BOOLEAN /\ ~row.leg
    BY LedgerClientAssumption DEF Row
  <2> HIDE DEF row
  <2>3. row.leg = (tx \in Legs)
    BY <2>1, <2>2
  <2> QED
    BY <2>2, <2>3 DEF RowOf
<1>5. Says(Call("create", tx, what))
  <2>1. what.row = row
    OBVIOUS
  <2> HIDE DEF what, row
  <2>2. /\ Call("create", tx, what).kind = "create" /\ Call("create", tx, what).tx = tx
        /\ Call("create", tx, what).what = what /\ Call("create", tx, what).n = asked + 1
    BY DEF Call
  <2>3. tx = LastTx + (asked + 1)
    BY <1>2, CountUp, LastTxOf
  <2> QED
    BY <1>4, <2>1, <2>2, <2>3 DEF Says
<1> HIDE DEF what, tx, row
<1>6. CallOK(Call("create", tx, what))
  BY <1>2, <1>3, <1>5, NewCall
<1>7. ShownOK' /\ RevisionsOK'
  BY <1>1 DEF client, Shape, ShownOK, RevisionsOK
<1>8. Shape'
  BY <1>1, <1>6, <1>7, EditShape DEF client
<1> QED
  BY <1>1, <1>3, <1>6, <1>8 DEF what, tx, row

LEMMA UpdateShape ==
    ASSUME Shape, NEW i, NEW field \in Field, NEW value, Fits(field, value),
           UpdateTransaction(i, field, value)
    PROVE  Shape' /\ LET what == [field |-> field, value |-> value, before |-> ledger.rows[i][field]]
                         row == [ledger.rows[i] EXCEPT ![field] = value]
                     IN  /\ Do("patch", i, what) /\ CallOK(Call("patch", i, what))
                         /\ i \in DOMAIN ledger.rows /\ i \in AnyTx \ Legs /\ row \in RowOf(i)
                         /\ ledger'.rows = [ledger.rows EXCEPT ![i] = row]
                         /\ revisions'.split = revisions.split /\ revisions'.hidden = revisions.hidden
                         /\ revisions'.field = [revisions.field EXCEPT ![<<i, field>>] = asked + 1]
                         /\ UNCHANGED <<txProgress, fill, loads, hiddenTx, hiddenLoad, shownEpoch>>
<1> DEFINE before == ledger.rows[i][field]
           what == [field |-> field, value |-> value, before |-> before]
           row == [ledger.rows[i] EXCEPT ![field] = value]
<1>1. /\ i \in DOMAIN ledger.rows /\ IsEditable(i) /\ Do("patch", i, what)
      /\ revisions' = [revisions EXCEPT !.field[<<i, field>>] = asked']
      /\ newest' = [newest EXCEPT ![<<i, field>>] = asked']
      /\ ledger' = [ledger EXCEPT !.rows[i][field] = value]
      /\ shifted' \subseteq shifted \cup {"moved"}
      /\ UNCHANGED <<txProgress, fill, loads, hiddenTx, hiddenLoad, shownEpoch>>
  BY DEF UpdateTransaction
<1>2. CanDo /\ asked' = asked + 1 /\ asked + 1 \in Nat
  BY <1>1, CountUp DEF Do
<1>3. i \in AnyTx \ Legs /\ ledger.rows[i] \in RowOf(i)
  BY <1>1, ShownRow DEF IsEditable
<1>4. Fits(field, before)
  BY <1>3 DEF RowOf, Row, Fits, Field
<1>5. row \in RowOf(i) /\ ledger' = [rows |-> [ledger.rows EXCEPT ![i] = row], total |-> ledger.total]
  BY <1>1, FieldEdited DEF Shape, ShownOK
<1>6. LedgerOK(ledger') /\ ledger'.rows = [ledger.rows EXCEPT ![i] = row]
  <2>1. Good([ledger.rows EXCEPT ![i] = row])
    BY <1>1, <1>5, ChangeGood DEF Shape, ShownOK, LedgerOK
  <2> QED
    BY <1>5, <2>1 DEF LedgerOK, Shape, ShownOK
<1>7. Says(Call("patch", i, what))
  <2>1. what.field = field /\ what.value = value /\ what.before = before
    OBVIOUS
  <2> HIDE DEF what, before
  <2>2. Call("patch", i, what).kind = "patch" /\ Call("patch", i, what).what = what
    BY DEF Call
  <2> QED
    BY <1>4, <2>1, <2>2 DEF Says
<1> HIDE DEF what, row, before
<1>8. CallOK(Call("patch", i, what))
  BY <1>2, <1>3, <1>7, NewCall
<1>9. RevisionsOK'
  BY <1>1, <1>2, <1>3, FieldOwned DEF Shape
<1>10. ShownOK'
  BY <1>1, <1>6 DEF Shape, ShownOK
<1>11. Shape'
  BY <1>1, <1>8, <1>9, <1>10, EditShape
<1>12. /\ revisions'.split = revisions.split /\ revisions'.hidden = revisions.hidden
       /\ revisions'.field = [revisions.field EXCEPT ![<<i, field>>] = asked + 1]
  BY <1>1, <1>2, RevisionWritten DEF Shape
<1> QED
  BY <1>1, <1>3, <1>5, <1>6, <1>8, <1>11, <1>12 DEF what, row, before

LEMMA SplitsShape ==
    ASSUME Shape, NEW i, NEW parts \in {0, 1}, ReplaceTransactionSplits(i, parts)
    PROVE  Shape' /\ LET what == [parts |-> parts, before |-> ledger.rows[i]]
                     IN  /\ Do("splits", i, what) /\ CallOK(Call("splits", i, what))
                         /\ i \in DOMAIN ledger.rows /\ i \in AnyTx \ Legs
                         /\ ledger'.rows = [ledger.rows EXCEPT ![i] = Parted(ledger.rows[i], parts)]
                         /\ revisions'.field = revisions.field /\ revisions'.hidden = revisions.hidden
                         /\ revisions'.split = [revisions.split EXCEPT ![i] = asked + 1]
                         /\ UNCHANGED <<txProgress, fill, loads, hiddenTx, hiddenLoad, shownEpoch>>
<1> DEFINE before == ledger.rows[i]
           what == [parts |-> parts, before |-> before]
           row == Parted(ledger.rows[i], parts)
<1>1. /\ i \in DOMAIN ledger.rows /\ ~ledger.rows[i].leg /\ Do("splits", i, what)
      /\ revisions' = [revisions EXCEPT !.split[i] = asked']
      /\ ledger' = [ledger EXCEPT !.rows[i] = row]
      /\ UNCHANGED <<txProgress, fill, loads, hiddenTx, hiddenLoad, shownEpoch, newest, shifted>>
  BY DEF ReplaceTransactionSplits
<1>2. CanDo /\ asked' = asked + 1 /\ asked + 1 \in Nat
  BY <1>1, CountUp DEF Do
<1>3. i \in AnyTx \ Legs /\ ledger.rows[i] \in RowOf(i)
  BY <1>1, ShownRow
<1>4. row \in RowOf(i)
  BY <1>3, PartsWritten
<1> HIDE DEF row
<1>5. ledger' = [rows |-> [ledger.rows EXCEPT ![i] = row], total |-> ledger.total]
  BY <1>1, RowEdited DEF Shape, ShownOK
<1>6. LedgerOK(ledger') /\ ledger'.rows = [ledger.rows EXCEPT ![i] = row]
  <2>1. Good([ledger.rows EXCEPT ![i] = row])
    BY <1>1, <1>4, ChangeGood DEF Shape, ShownOK, LedgerOK
  <2> QED
    BY <1>5, <2>1 DEF LedgerOK, Shape, ShownOK
<1>7. Says(Call("splits", i, what))
  <2>1. what.parts = parts /\ what.before = before /\ before \in RowOf(i)
    BY <1>3
  <2> HIDE DEF what, before
  <2>2. /\ Call("splits", i, what).kind = "splits" /\ Call("splits", i, what).what = what
        /\ Call("splits", i, what).tx = i
    BY DEF Call
  <2> QED
    BY <2>1, <2>2 DEF Says
<1> HIDE DEF what, before
<1>8. CallOK(Call("splits", i, what))
  BY <1>2, <1>3, <1>7, NewCall
<1>9. RevisionsOK'
  BY <1>1, <1>2, <1>3, SplitOwned DEF Shape
<1>10. ShownOK'
  BY <1>1, <1>6 DEF Shape, ShownOK
<1>11. Shape'
  BY <1>1, <1>8, <1>9, <1>10, EditShape
<1>12. /\ revisions'.field = revisions.field /\ revisions'.hidden = revisions.hidden
       /\ revisions'.split = [revisions.split EXCEPT ![i] = asked + 1]
  BY <1>1, <1>2, RevisionWritten DEF Shape
<1> QED
  BY <1>1, <1>3, <1>6, <1>8, <1>11, <1>12 DEF what, row, before

\* A request that remembers the row it takes away.
LEMMA RememberingCall ==
    ASSUME Shape, CanDo, NEW kind \in {"delete"} \cup Hiding, NEW i \in AnyTx \ Legs,
           NEW before \in RowOf(i)
    PROVE  CallOK(Call(kind, i, [before |-> before]))
<1> DEFINE what == [before |-> before]
<1>1. what.before = before
  OBVIOUS
<1> HIDE DEF what
<1>2. Call(kind, i, what).kind = kind /\ Call(kind, i, what).tx = i /\ Call(kind, i, what).what = what
  BY DEF Call
<1>3. Says(Call(kind, i, what))
  BY <1>1, <1>2 DEF Says, Hiding
<1> QED
  BY <1>3, NewCall DEF what

LEMMA DeleteShape ==
    ASSUME Shape, NEW i, DeleteTransaction(i)
    PROVE  Shape' /\ LET what == [before |-> ledger.rows[i]]
                     IN  /\ Do("delete", i, what) /\ CallOK(Call("delete", i, what))
                         /\ i \in DOMAIN ledger.rows /\ i \in AnyTx \ Legs
                         /\ ledger'.rows = Without(ledger.rows, {i})
                         /\ UNCHANGED <<txProgress, fill, loads, hiddenTx, hiddenLoad, revisions,
                                        shownEpoch>>
<1> DEFINE what == [before |-> ledger.rows[i]]
<1>1. /\ i \in DOMAIN ledger.rows /\ ~ledger.rows[i].leg /\ Do("delete", i, what)
      /\ ledger' = Dropped({i})
      /\ shifted' \subseteq shifted \cup {"deleted"}
      /\ UNCHANGED <<txProgress, fill, loads, hiddenTx, hiddenLoad, revisions, shownEpoch, newest>>
  BY DEF DeleteTransaction
<1>2. CanDo
  BY <1>1 DEF Do
<1>3. i \in AnyTx \ Legs /\ ledger.rows[i] \in RowOf(i)
  BY <1>1, ShownRow
<1>4. LedgerOK(ledger') /\ ledger'.rows = Without(ledger.rows, {i})
  BY <1>1, FS_Singleton, DroppedOK DEF Shape, ShownOK
<1>5. CallOK(Call("delete", i, what))
  BY <1>2, <1>3, RememberingCall
<1> HIDE DEF what
<1>6. ShownOK' /\ RevisionsOK'
  BY <1>1, <1>4 DEF Shape, ShownOK, RevisionsOK
<1>7. Shape'
  BY <1>1, <1>5, <1>6, EditShape
<1> QED
  BY <1>1, <1>3, <1>4, <1>5, <1>7 DEF what

LEMMA DeleteLegsShape ==
    ASSUME Shape, DeleteTransferWithLegs
    PROVE  Shape' /\ LET tx == CHOOSE i \in Legs : TRUE
                     IN  /\ Do("deleteLegs", tx, <<>>) /\ CallOK(Call("deleteLegs", tx, <<>>))
                         /\ UNCHANGED <<client, newest, shifted>>
<1> DEFINE tx == CHOOSE i \in Legs : TRUE
<1>1. Do("deleteLegs", tx, <<>>) /\ UNCHANGED <<client, newest, shifted>>
  BY DEF DeleteTransferWithLegs
<1> HIDE DEF tx
<1>2. CanDo
  BY <1>1 DEF Do
<1>3. Says(Call("deleteLegs", tx, <<>>))
  <2>1. Call("deleteLegs", tx, <<>>).kind = "deleteLegs"
    BY DEF Call
  <2> QED
    BY <2>1 DEF Says
<1>4. CallOK(Call("deleteLegs", tx, <<>>))
  BY <1>2, <1>3, NewCall
<1>5. ShownOK' /\ RevisionsOK'
  BY <1>1 DEF client, Shape, ShownOK, RevisionsOK
<1>6. Shape'
  BY <1>1, <1>4, <1>5, EditShape DEF client
<1> QED
  BY <1>1, <1>4, <1>6 DEF tx

\* The rows set aside, none when there is no list.
SetAside == IF hiddenTx = None THEN <<>> ELSE hiddenTx

LEMMA SetAsideLoose == Shape => Loose(SetAside)
BY EmptyGood DEF Shape, ShownOK, SetAside, Loose

LEMMA HideShape ==
    ASSUME Shape, NEW i, HideTx(i)
    PROVE  Shape' /\ LET what == [before |-> ledger.rows[i]]
                     IN  /\ Do("hide", i, what) /\ CallOK(Call("hide", i, what))
                         /\ i \in DOMAIN ledger.rows /\ i \in AnyTx \ Legs
                         /\ ledger'.rows = Without(ledger.rows, {i})
                         /\ hiddenTx' = MergeTransactions(SetAside, Only(ledger.rows, {i}))
                         /\ Good(SetAside) /\ Good(Only(ledger.rows, {i}))
                         /\ revisions'.field = revisions.field /\ revisions'.split = revisions.split
                         /\ revisions'.hidden = [revisions.hidden EXCEPT ![i] = asked + 1]
                         /\ hiddenLoad' = None
                         /\ UNCHANGED <<txProgress, fill, loads, shownEpoch>>
<1> DEFINE what == [before |-> ledger.rows[i]]
<1>1. /\ i \in DOMAIN ledger.rows /\ ~ledger.rows[i].leg /\ Do("hide", i, what)
      /\ ledger' = Dropped({i})
      /\ revisions' = [revisions EXCEPT !.hidden[i] = asked']
      /\ hiddenTx' = MergeTransactions(SetAside, Only(ledger.rows, {i}))
      /\ hiddenLoad' = None
      /\ UNCHANGED <<txProgress, fill, loads, shownEpoch, newest, shifted>>
  BY DEF HideTx, SetAside
<1>2. CanDo /\ asked' = asked + 1 /\ asked + 1 \in Nat
  BY <1>1, CountUp DEF Do
<1>3. i \in AnyTx \ Legs /\ ledger.rows[i] \in RowOf(i)
  BY <1>1, ShownRow
<1>4. LedgerOK(ledger') /\ ledger'.rows = Without(ledger.rows, {i})
  BY <1>1, FS_Singleton, DroppedOK DEF Shape, ShownOK
<1>5. CallOK(Call("hide", i, what))
  BY <1>2, <1>3, RememberingCall DEF Hiding
<1> HIDE DEF what
<1>6. /\ Good(SetAside) /\ DOMAIN SetAside \cap Legs = {}
      /\ Good(Only(ledger.rows, {i})) /\ DOMAIN Only(ledger.rows, {i}) = {i}
  BY <1>1, SetAsideLoose, OnlyGood DEF Loose, Shape, ShownOK, LedgerOK
<1>7. Loose(hiddenTx')
  BY <1>1, <1>3, <1>6, MergeGood DEF Loose
<1>8. ShownOK'
  BY <1>1, <1>4, <1>7 DEF Shape, ShownOK
<1>9. RevisionsOK'
  BY <1>1, <1>2, <1>3, SplitOwned DEF Shape
<1>10. Shape'
  BY <1>1, <1>5, <1>8, <1>9, EditShape
<1>11. /\ revisions'.field = revisions.field /\ revisions'.split = revisions.split
       /\ revisions'.hidden = [revisions.hidden EXCEPT ![i] = asked + 1]
  BY <1>1, <1>2, RevisionWritten DEF Shape
<1> QED
  BY <1>1, <1>3, <1>4, <1>5, <1>6, <1>10, <1>11 DEF what

LEMMA UnhideShape ==
    ASSUME Shape, NEW i, UnhideTx(i)
    PROVE  Shape' /\ LET what == [before |-> hiddenTx[i]]
                     IN  /\ Do("unhide", i, what) /\ CallOK(Call("unhide", i, what))
                         /\ hiddenTx # None /\ i \in DOMAIN hiddenTx /\ i \in AnyTx \ Legs
                         /\ Good(hiddenTx) /\ Good(Only(hiddenTx, {i}))
                         /\ ledger'.rows = MergeTransactions(ledger.rows, Only(hiddenTx, {i}))
                         /\ hiddenTx' = Without(hiddenTx, {i})
                         /\ revisions'.field = revisions.field /\ revisions'.split = revisions.split
                         /\ revisions'.hidden = [revisions.hidden EXCEPT ![i] = asked + 1]
                         /\ hiddenLoad' = None
                         /\ UNCHANGED <<txProgress, fill, loads, shownEpoch>>
<1> DEFINE what == [before |-> hiddenTx[i]]
<1>1. /\ hiddenTx # None /\ i \in DOMAIN hiddenTx /\ Do("unhide", i, what)
      /\ ledger' = Kept(Only(hiddenTx, {i}))
      /\ revisions' = [revisions EXCEPT !.hidden[i] = asked']
      /\ hiddenTx' = Without(hiddenTx, {i})
      /\ hiddenLoad' = None
      /\ UNCHANGED <<txProgress, fill, loads, shownEpoch, newest, shifted>>
  BY DEF UnhideTx
<1>2. CanDo /\ asked' = asked + 1 /\ asked + 1 \in Nat
  BY <1>1, CountUp DEF Do
<1>3. Good(hiddenTx) /\ DOMAIN hiddenTx \cap Legs = {}
  BY <1>1 DEF Shape, ShownOK, Loose
<1>4. i \in AnyTx \ Legs /\ hiddenTx[i] \in RowOf(i)
  BY <1>1, <1>3, GoodRows
<1>5. Good(Only(hiddenTx, {i}))
  BY <1>1, <1>3, OnlyGood
<1>6. LedgerOK(ledger') /\ ledger'.rows = MergeTransactions(ledger.rows, Only(hiddenTx, {i}))
  BY <1>1, <1>5, KeptOK DEF Shape, ShownOK
<1>7. CallOK(Call("unhide", i, what))
  BY <1>2, <1>4, RememberingCall DEF Hiding
<1> HIDE DEF what
<1>8. Loose(hiddenTx')
  <2>1. /\ Good(Without(hiddenTx, {i}))
        /\ DOMAIN Without(hiddenTx, {i}) = DOMAIN hiddenTx \ {i}
    BY <1>3, WithoutGood
  <2>2. Loose(Without(hiddenTx, {i}))
    BY <1>3, <2>1 DEF Loose
  <2> QED
    BY <1>1, <2>2
<1>9. ShownOK'
  BY <1>1, <1>6, <1>8 DEF Shape, ShownOK
<1>10. RevisionsOK'
  BY <1>1, <1>2, <1>4, SplitOwned DEF Shape
<1>11. Shape'
  BY <1>1, <1>7, <1>9, <1>10, EditShape
<1>12. /\ revisions'.field = revisions.field /\ revisions'.split = revisions.split
       /\ revisions'.hidden = [revisions.hidden EXCEPT ![i] = asked + 1]
  BY <1>1, <1>2, RevisionWritten DEF Shape
<1> QED
  BY <1>1, <1>3, <1>4, <1>5, <1>6, <1>7, <1>11, <1>12 DEF what

-----------------------------------------------------------------------------
(* Every step keeps the shapes: the server.                                *)

LEMMA CallMade ==
    ASSUME NEW n, NEW kind, NEW tx, NEW epoch, NEW stage, NEW what, NEW c,
           c = [n |-> n, kind |-> kind, tx |-> tx, epoch |-> epoch, stage |-> stage, what |-> what]
    PROVE  /\ c = [n |-> c.n, kind |-> c.kind, tx |-> c.tx, epoch |-> c.epoch, stage |-> c.stage,
                   what |-> c.what]
           /\ c.n = n /\ c.kind = kind /\ c.tx = tx /\ c.epoch = epoch /\ c.stage = stage
           /\ c.what = what
OBVIOUS

LEMMA Restaged ==
    ASSUME NEW c, CallOK(c), NEW stage \in {"accepted", "refused"}
    PROVE  LET d == [c EXCEPT !.stage = stage]
           IN  /\ CallOK(d) /\ d.n = c.n /\ d.kind = c.kind /\ d.tx = c.tx /\ d.epoch = c.epoch
               /\ d.stage = stage /\ d.what = c.what
<1> DEFINE d == [c EXCEPT !.stage = stage]
<1>1. PICK n, kind, tx, epoch, was, what :
         c = [n |-> n, kind |-> kind, tx |-> tx, epoch |-> epoch, stage |-> was, what |-> what]
  BY DEF CallOK
<1>2. d = [n |-> n, kind |-> kind, tx |-> tx, epoch |-> epoch, stage |-> stage, what |-> what]
  BY <1>1
<1> HIDE DEF d
<1>3. c.n = n /\ c.kind = kind /\ c.tx = tx /\ c.epoch = epoch /\ c.what = what
  BY <1>1, CallMade
<1>4. /\ d = [n |-> d.n, kind |-> d.kind, tx |-> d.tx, epoch |-> d.epoch, stage |-> d.stage,
              what |-> d.what]
      /\ d.n = n /\ d.kind = kind /\ d.tx = tx /\ d.epoch = epoch /\ d.stage = stage
      /\ d.what = what
  BY <1>2, CallMade
<1>5. Says(d)
  BY <1>3, <1>4 DEF CallOK, Says
<1>6. CallOK(d)
  BY <1>3, <1>4, <1>5 DEF CallOK
<1> QED
  BY <1>3, <1>4, <1>6 DEF d

LEMMA CallAtOK ==
    ASSUME CallsOK, NEW c \in calls, NEW stage \in {"accepted", "refused"}, CallAt(c, stage),
           asked' = asked
    PROVE  CallsOK'
<1> DEFINE e == [c EXCEPT !.stage = stage]
<1>1. calls' = (calls \ {c}) \cup {e}
  BY DEF CallAt
<1>2. CallOK(e) /\ e.n = c.n
  BY Restaged DEF CallsOK
<1> HIDE DEF e
<1> QED
  BY <1>1, <1>2 DEF CallsOK

\* What the server makes of a request.
LEMMA AcceptedGives ==
    ASSUME Shape, NEW c \in calls, c.kind # "create" => c.tx \in DOMAIN srvTx, Accepted(c)
    PROVE  /\ c.kind = "create" => srvTx' = MergeTransactions(srvTx, One(c.tx, c.what.row))
           /\ c.kind = "patch" => /\ srvTx' = [srvTx EXCEPT ![c.tx] =
                                                [srvTx[c.tx] EXCEPT ![c.what.field] = c.what.value]]
                                  /\ [srvTx[c.tx] EXCEPT ![c.what.field] = c.what.value] \in RowOf(c.tx)
           /\ c.kind = "splits" => /\ srvTx' = [srvTx EXCEPT ![c.tx] = Parted(srvTx[c.tx], c.what.parts)]
                                   /\ Parted(srvTx[c.tx], c.what.parts) \in RowOf(c.tx)
           /\ c.kind = "delete" => srvTx' = Without(srvTx, {c.tx}) /\ srvHidden' = srvHidden \ {c.tx}
           /\ c.kind = "deleteLegs" => srvTx' = Without(srvTx, Legs) /\ srvHidden' = srvHidden \ Legs
           /\ c.kind = "hide" => srvHidden' = srvHidden \cup {c.tx}
           /\ c.kind = "unhide" => srvHidden' = srvHidden \ {c.tx}
           /\ c.kind \in Hiding => srvTx' = srvTx
           /\ c.kind \in {"create", "patch", "splits"} => srvHidden' = srvHidden
<1>0. CallOK(c) /\ c.kind \in {"create", "patch", "splits", "delete", "deleteLegs"} \cup Hiding
  BY DEF Shape, CallsOK, CallOK
<1>1. CASE c.kind = "create"
  BY <1>1 DEF Accepted, One, Hiding
<1>2. CASE c.kind = "patch"
  <2>1. c.what.field \in Field /\ Fits(c.what.field, c.what.value)
    BY <1>0, <1>2 DEF CallOK, Says
  <2>2. srvTx[c.tx] \in RowOf(c.tx)
    BY <1>2, GoodRows DEF Shape, ServerOK
  <2>3. srvTx' = [srvTx EXCEPT ![c.tx][c.what.field] = c.what.value] /\ UNCHANGED srvHidden
    BY <1>2 DEF Accepted
  <2> QED
    BY <1>2, <2>1, <2>2, <2>3, FieldWritten DEF Hiding
<1>3. CASE c.kind = "splits"
  <2>1. c.what.parts \in {0, 1}
    BY <1>0, <1>3 DEF CallOK, Says
  <2>2. srvTx[c.tx] \in RowOf(c.tx)
    BY <1>3, GoodRows DEF Shape, ServerOK
  <2>3. srvTx' = [srvTx EXCEPT ![c.tx] = Parted(srvTx[c.tx], c.what.parts)] /\ UNCHANGED srvHidden
    BY <1>3 DEF Accepted
  <2> QED
    BY <1>3, <2>1, <2>2, <2>3, PartsWritten DEF Hiding
<1>4. CASE c.kind = "delete"
  BY <1>4 DEF Accepted, Hiding
<1>5. CASE c.kind = "deleteLegs"
  BY <1>5 DEF Accepted, Hiding
<1>6. CASE c.kind = "hide"
  BY <1>6 DEF Accepted, Hiding
<1>7. CASE c.kind = "unhide"
  BY <1>7 DEF Accepted, Hiding
<1> QED
  BY <1>0, <1>1, <1>2, <1>3, <1>4, <1>5, <1>6, <1>7 DEF Hiding

LEMMA AcceptedOK ==
    ASSUME Shape, NEW c \in calls, c.kind # "create" => c.tx \in DOMAIN srvTx, Accepted(c),
           asked' = asked
    PROVE  ServerOK'
<1>0. /\ CallOK(c) /\ c.kind \in {"create", "patch", "splits", "delete", "deleteLegs"} \cup Hiding
      /\ c.n <= asked /\ c.n \in Nat /\ asked \in Nat
      /\ Good(srvTx) /\ srvHidden \subseteq DOMAIN srvTx \ Legs
      /\ \A i \in DOMAIN srvTx : i <= LastTx + asked
  BY LedgerClientAssumption DEF Shape, CallsOK, CallOK, CountsOK, ServerOK
<1> SUFFICES /\ Good(srvTx') /\ srvHidden' \subseteq DOMAIN srvTx' \ Legs
             /\ \A i \in DOMAIN srvTx' : i <= LastTx + asked
  BY DEF ServerOK
<1>1. CASE c.kind = "create"
  <2>1. c.what.row \in RowOf(c.tx) /\ c.tx = LastTx + c.n /\ c.tx \in AnyTx
    BY <1>0, <1>1 DEF CallOK, Says
  <2>2. Good(One(c.tx, c.what.row)) /\ DOMAIN One(c.tx, c.what.row) = {c.tx}
    BY <2>1, OneGood
  <2>3. srvTx' = MergeTransactions(srvTx, One(c.tx, c.what.row)) /\ srvHidden' = srvHidden
    BY <1>1, AcceptedGives
  <2>4. Good(srvTx') /\ DOMAIN srvTx' = DOMAIN srvTx \cup {c.tx}
    BY <1>0, <2>2, <2>3, MergeGood, ZenonT(60)
  <2>5. c.tx <= LastTx + asked
    BY <1>0, <2>1, LastTxOf
  <2> QED
    BY <1>0, <2>3, <2>4, <2>5
<1>2. CASE c.kind = "patch"
  <2>1. PICK row \in RowOf(c.tx) : srvTx' = [srvTx EXCEPT ![c.tx] = row] /\ srvHidden' = srvHidden
    BY <1>2, AcceptedGives
  <2>2. c.tx \in DOMAIN srvTx
    BY <1>2
  <2>3. Good(srvTx') /\ DOMAIN srvTx' = DOMAIN srvTx
    BY <1>0, <2>1, <2>2, ChangeGood
  <2> QED
    BY <1>0, <2>1, <2>3
<1>3. CASE c.kind = "splits"
  <2>1. PICK row \in RowOf(c.tx) : srvTx' = [srvTx EXCEPT ![c.tx] = row] /\ srvHidden' = srvHidden
    BY <1>3, AcceptedGives
  <2>2. c.tx \in DOMAIN srvTx
    BY <1>3
  <2>3. Good(srvTx') /\ DOMAIN srvTx' = DOMAIN srvTx
    BY <1>0, <2>1, <2>2, ChangeGood
  <2> QED
    BY <1>0, <2>1, <2>3
<1>4. CASE c.kind = "delete"
  <2>1. srvTx' = Without(srvTx, {c.tx}) /\ srvHidden' = srvHidden \ {c.tx}
    BY <1>4, AcceptedGives
  <2>2. Good(srvTx') /\ DOMAIN srvTx' = DOMAIN srvTx \ {c.tx}
    BY <1>0, <2>1, WithoutGood
  <2> QED
    BY <1>0, <2>1, <2>2
<1>5. CASE c.kind = "deleteLegs"
  <2>1. srvTx' = Without(srvTx, Legs) /\ srvHidden' = srvHidden \ Legs
    BY <1>5, AcceptedGives
  <2>2. Good(srvTx') /\ DOMAIN srvTx' = DOMAIN srvTx \ Legs
    BY <1>0, <2>1, WithoutGood
  <2> QED
    BY <1>0, <2>1, <2>2
<1>6. CASE c.kind \in Hiding
  <2>1. srvTx' = srvTx /\ srvHidden' \in {srvHidden \cup {c.tx}, srvHidden \ {c.tx}}
    BY <1>6, AcceptedGives DEF Hiding
  <2>2. c.tx \in DOMAIN srvTx \ Legs
    BY <1>0, <1>6 DEF CallOK, Hiding
  <2> QED
    BY <1>0, <2>1, <2>2
<1> QED
  BY <1>0, <1>1, <1>2, <1>3, <1>4, <1>5, <1>6

LEMMA ServerShape == Shape /\ (ServerAccepts \/ Refuse) => Shape'
<1> SUFFICES ASSUME Shape, ServerAccepts \/ Refuse PROVE Shape'
  OBVIOUS
<1>1. UNCHANGED <<client, asked, newest, doubt, shifted>>
  BY DEF ServerAccepts, Refuse
<1>2. ServerOK' /\ CallsOK'
  <2>1. CASE ServerAccepts
    <3>1. PICK c \in calls : /\ c.kind # "create" => c.tx \in DOMAIN srvTx
                             /\ Accepted(c) /\ CallAt(c, "accepted")
      BY <2>1 DEF ServerAccepts
    <3> QED
      BY <1>1, <3>1, AcceptedOK, CallAtOK DEF Shape
  <2>2. CASE Refuse
    <3>1. PICK c \in calls : CallAt(c, "refused") /\ UNCHANGED server
      BY <2>2 DEF Refuse
    <3> QED
      BY <1>1, <3>1, CallAtOK DEF Shape, ServerOK, server
  <2> QED
    BY <2>1, <2>2
<1>3. ShownOK' /\ RevisionsOK' /\ ProgressOK' /\ CountsOK'
  BY <1>1 DEF client, Shape, ShownOK, RevisionsOK, ProgressOK, CountsOK
<1> QED
  BY <1>2, <1>3 DEF Shape

-----------------------------------------------------------------------------
(* Every step keeps the shapes: answers.                                   *)

LEMMA NotRefilled == Shape /\ UNCHANGED <<fill, txProgress, loads>> => Refilled
BY DEF Shape, ShownOK, ProgressOK, Refilled

\* What an answer leaves of the ledger.
LEMMA SavedGives ==
    ASSUME Shape, NEW c \in calls, Saved(c)
    PROVE  /\ LedgerOK(ledger') /\ Refilled /\ UNCHANGED hiddenTx
           /\ c.kind = "create" => ledger'.rows = MergeTransactions(ledger.rows, One(c.tx, c.what.row))
           /\ c.kind = "deleteLegs" => ledger'.rows = Without(ledger.rows, Legs)
           /\ c.kind = "splits" =>
                 IF revisions.split[c.tx] = c.n /\ c.tx \in DOMAIN ledger.rows
                 THEN ledger'.rows = [ledger.rows EXCEPT ![c.tx] = Parted(ledger.rows[c.tx], c.what.parts)]
                 ELSE ledger' = ledger
           /\ c.kind \in {"patch", "delete"} \cup Hiding => ledger' = ledger
<1>0. /\ CallOK(c) /\ c.kind \in {"create", "patch", "splits", "delete", "deleteLegs"} \cup Hiding
      /\ LedgerOK(ledger) /\ UNCHANGED hiddenTx
  BY DEF Shape, CallsOK, CallOK, ShownOK, Saved
<1>1. CASE c.kind = "create"
  <2>1. c.what.row \in RowOf(c.tx) /\ c.tx \in AnyTx
    BY <1>0, <1>1 DEF CallOK, Says
  <2>2. ledger' = Kept(One(c.tx, c.what.row)) /\ Restarted(ledger')
    BY <1>1 DEF Saved, One
  <2>3. LedgerOK(ledger') /\ ledger'.rows = MergeTransactions(ledger.rows, One(c.tx, c.what.row))
    BY <1>0, <2>1, <2>2, OneGood, KeptOK
  <2>4. Refilled
    BY <2>2, <2>3, RestartedOK
  <2> QED
    BY <1>0, <1>1, <2>3, <2>4 DEF Hiding
<1>2. CASE c.kind = "deleteLegs"
  <2>1. ledger' = Dropped(Legs) /\ Restarted(ledger')
    BY <1>2 DEF Saved, Dropped
  <2>2. IsFiniteSet(Legs)
    BY LedgerClientAssumption, FS_Subset
  <2>3. LedgerOK(ledger') /\ ledger'.rows = Without(ledger.rows, Legs)
    BY <1>0, <2>1, <2>2, DroppedOK
  <2>4. Refilled
    BY <2>1, <2>3, RestartedOK
  <2> QED
    BY <1>0, <1>2, <2>3, <2>4 DEF Hiding
<1>3. CASE c.kind \in Hiding
  <2>1. ledger' = ledger /\ Restarted(ledger)
    BY <1>3 DEF Saved, Hiding
  <2>2. Refilled
    BY <1>0, <2>1, RestartedOK
  <2> QED
    BY <1>0, <1>3, <2>1, <2>2 DEF Hiding
<1>4. CASE c.kind = "splits"
  <2> DEFINE mine == revisions.split[c.tx] = c.n /\ c.tx \in DOMAIN ledger.rows
             row == Parted(ledger.rows[c.tx], c.what.parts)
  <2>1. /\ ledger' = IF mine THEN [ledger EXCEPT !.rows[c.tx] = row] ELSE ledger
        /\ UNCHANGED <<fill, txProgress, loads>>
    BY <1>4 DEF Saved
  <2>2. c.what.parts \in {0, 1}
    BY <1>0, <1>4 DEF CallOK, Says
  <2>3. ASSUME mine
        PROVE  LedgerOK(ledger') /\ ledger'.rows = [ledger.rows EXCEPT ![c.tx] = row]
    <3>1. row \in RowOf(c.tx)
      BY <2>2, <2>3, ShownRow, PartsWritten
    <3> HIDE DEF row
    <3>2. ledger' = [rows |-> [ledger.rows EXCEPT ![c.tx] = row], total |-> ledger.total]
      BY <1>0, <2>1, <2>3, RowEdited
    <3>3. Good([ledger.rows EXCEPT ![c.tx] = row])
      BY <1>0, <2>3, <3>1, ChangeGood DEF LedgerOK
    <3> QED
      BY <1>0, <3>2, <3>3 DEF LedgerOK
  <2>4. ~mine => ledger' = ledger
    BY <2>1
  <2> HIDE DEF row
  <2>5. Refilled
    BY <2>1, NotRefilled
  <2>6. LedgerOK(ledger')
    BY <1>0, <2>3, <2>4
  <2> QED
    BY <1>0, <1>4, <2>3, <2>4, <2>5, <2>6 DEF Hiding, row
<1>5. CASE c.kind \in {"patch", "delete"}
  <2>1. UNCHANGED <<ledger, fill, txProgress, loads>>
    BY <1>5 DEF Saved
  <2>2. Refilled
    BY <2>1, NotRefilled
  <2> QED
    BY <1>0, <1>5, <2>1, <2>2 DEF Hiding
<1> QED
  BY <1>0, <1>1, <1>2, <1>3, <1>4, <1>5

LEMMA ReleasedGives ==
    ASSUME Shape, NEW c \in calls, revisions' = Released(c), newest' = newest
    PROVE  /\ RevisionsOK' /\ revisions'.hidden = revisions.hidden
           /\ \A i \in AnyTx, f \in Field :
                 revisions'.field[<<i, f>>] =
                     IF c.kind = "patch" /\ i = c.tx /\ f = c.what.field /\ revisions.field[<<i, f>>] = c.n
                     THEN 0 ELSE revisions.field[<<i, f>>]
           /\ \A i \in AnyTx :
                 revisions'.split[i] = IF c.kind = "splits" /\ i = c.tx /\ revisions.split[i] = c.n
                                       THEN 0 ELSE revisions.split[i]
<1>0. CallOK(c) /\ RevisionsOK
  BY DEF Shape, CallsOK
<1>1. CASE c.kind = "patch" /\ revisions.field[<<c.tx, c.what.field>>] = c.n
  <2>1. c.tx \in AnyTx /\ c.what.field \in Field
    BY <1>0, <1>1 DEF CallOK, Says
  <2>2. revisions' = [revisions EXCEPT !.field[<<c.tx, c.what.field>>] = 0]
    BY <1>1 DEF Released
  <2>3. RevisionsOK'
    BY <1>0, <2>1, <2>2, FieldOwned
  <2>4. /\ revisions'.field = [revisions.field EXCEPT ![<<c.tx, c.what.field>>] = 0]
        /\ revisions'.split = revisions.split /\ revisions'.hidden = revisions.hidden
    BY <1>0, <2>2, RevisionWritten
  <2> QED
    BY <1>0, <1>1, <2>1, <2>3, <2>4, ZenonT(60) DEF RevisionsOK
<1>2. CASE c.kind = "splits" /\ revisions.split[c.tx] = c.n
  <2>1. c.tx \in AnyTx
    BY <1>0, <1>2 DEF CallOK
  <2>2. revisions' = [revisions EXCEPT !.split[c.tx] = 0]
    BY <1>2 DEF Released
  <2>3. RevisionsOK'
    BY <1>0, <2>1, <2>2, SplitOwned
  <2>4. /\ revisions'.split = [revisions.split EXCEPT ![c.tx] = 0]
        /\ revisions'.field = revisions.field /\ revisions'.hidden = revisions.hidden
    BY <1>0, <2>2, RevisionWritten
  <2> QED
    BY <1>0, <1>2, <2>1, <2>3, <2>4 DEF RevisionsOK
<1>3. CASE /\ ~(c.kind = "patch" /\ revisions.field[<<c.tx, c.what.field>>] = c.n)
           /\ ~(c.kind = "splits" /\ revisions.split[c.tx] = c.n)
  <2>1. revisions' = revisions
    BY <1>3 DEF Released
  <2> QED
    BY <1>0, <1>3, <2>1 DEF RevisionsOK
<1> QED
  BY <1>1, <1>2, <1>3

LEMMA SucceedShape == Shape /\ Succeed => Shape'
<1> SUFFICES ASSUME Shape, Succeed PROVE Shape'
  OBVIOUS
<1>0. UNCHANGED <<server, hiddenLoad, shownEpoch, asked, newest, doubt>>
  BY DEF Succeed
<1>1. PICK c \in calls :
        /\ Saved(c) /\ calls' = calls \ {c} /\ revisions' = Released(c)
        /\ shifted' = shifted \cup (IF Moving(calls') THEN {"raced"} ELSE {})
                              \cup (IF Backdated(c) THEN {"backdated"} ELSE {})
  BY DEF Succeed
<1>2. LedgerOK(ledger') /\ Refilled /\ UNCHANGED hiddenTx
  BY <1>1, SavedGives
<1>3. RevisionsOK'
  BY <1>0, <1>1, ReleasedGives
<1>4. ShownOK' /\ ProgressOK'
  BY <1>0, <1>2 DEF Shape, ShownOK, Refilled
<1>5. ServerOK' /\ CallsOK' /\ CountsOK'
  BY <1>0, <1>1 DEF Shape, ServerOK, CallsOK, CountsOK, server
<1> QED
  BY <1>3, <1>4, <1>5 DEF Shape

\* The parts and the category of another row, put back.
PartsOf(row, before) == [row EXCEPT !.splits = before.splits, !.categoryId = before.categoryId]

LEMMA PartsPutBack ==
    ASSUME NEW i, NEW row \in RowOf(i), NEW before \in RowOf(i)
    PROVE  PartsOf(row, before) \in RowOf(i)
BY DEF PartsOf, RowOf, Row

\* The hide or unhide that the failure of c takes back.
Newest(c) == revisions.hidden[c.tx] = c.n /\ c.epoch = shownEpoch

LEMMA NotSavedGives ==
    ASSUME Shape, NEW c \in calls, NotSaved(c)
    PROVE  /\ LedgerOK(ledger') /\ (hiddenTx' # None => Loose(hiddenTx'))
           /\ UNCHANGED <<fill, txProgress, loads>>
           /\ c.kind = "patch" =>
                 /\ hiddenTx' = hiddenTx
                 /\ IF c.epoch = shownEpoch /\ c.tx \in DOMAIN ledger.rows /\ UndoesField(c)
                    THEN ledger'.rows = [ledger.rows EXCEPT ![c.tx] =
                                           [ledger.rows[c.tx] EXCEPT ![c.what.field] = c.what.before]]
                    ELSE ledger' = ledger
           /\ c.kind = "splits" =>
                 /\ hiddenTx' = hiddenTx
                 /\ IF revisions.split[c.tx] = c.n /\ c.tx \in DOMAIN ledger.rows
                    THEN ledger'.rows = [ledger.rows EXCEPT ![c.tx] = PartsOf(ledger.rows[c.tx], c.what.before)]
                    ELSE ledger' = ledger
           /\ c.kind = "delete" =>
                 hiddenTx' = hiddenTx /\ ledger'.rows = MergeTransactions(ledger.rows, One(c.tx, c.what.before))
           /\ c.kind = "hide" =>
                 IF Newest(c)
                 THEN /\ ledger'.rows = MergeTransactions(ledger.rows, One(c.tx, c.what.before))
                      /\ hiddenTx' = IF hiddenTx = None THEN <<>> ELSE Without(hiddenTx, {c.tx})
                 ELSE UNCHANGED <<ledger, hiddenTx>>
           /\ c.kind = "unhide" =>
                 IF Newest(c)
                 THEN /\ ledger'.rows = Without(ledger.rows, {c.tx})
                      /\ hiddenTx' = MergeTransactions(SetAside, One(c.tx, c.what.before))
                 ELSE UNCHANGED <<ledger, hiddenTx>>
           /\ c.kind \in {"create", "deleteLegs"} => UNCHANGED <<ledger, hiddenTx>>
<1>0. /\ CallOK(c) /\ c.kind \in {"create", "patch", "splits", "delete", "deleteLegs"} \cup Hiding
      /\ LedgerOK(ledger) /\ UNCHANGED <<fill, txProgress, loads>>
      /\ hiddenTx # None => Loose(hiddenTx)
  BY DEF Shape, CallsOK, CallOK, ShownOK, NotSaved
<1>1. CASE c.kind = "patch"
  <2> DEFINE back == c.epoch = shownEpoch /\ c.tx \in DOMAIN ledger.rows /\ UndoesField(c)
             row == [ledger.rows[c.tx] EXCEPT ![c.what.field] = c.what.before]
  <2>1. /\ ledger' = IF back THEN [ledger EXCEPT !.rows[c.tx][c.what.field] = c.what.before] ELSE ledger
        /\ UNCHANGED hiddenTx
    BY <1>1 DEF NotSaved
  <2>2. c.what.field \in Field /\ Fits(c.what.field, c.what.before)
    BY <1>0, <1>1 DEF CallOK, Says
  <2>3. ASSUME back
        PROVE  LedgerOK(ledger') /\ ledger'.rows = [ledger.rows EXCEPT ![c.tx] = row]
    <3>1. /\ row \in RowOf(c.tx)
          /\ ledger' = [rows |-> [ledger.rows EXCEPT ![c.tx] = row], total |-> ledger.total]
      BY <1>0, <2>1, <2>2, <2>3, FieldEdited
    <3> HIDE DEF row
    <3>2. Good([ledger.rows EXCEPT ![c.tx] = row])
      BY <1>0, <2>3, <3>1, ChangeGood DEF LedgerOK
    <3> QED
      BY <1>0, <3>1, <3>2 DEF LedgerOK
  <2>4. ~back => ledger' = ledger
    BY <2>1
  <2> HIDE DEF row
  <2>5. LedgerOK(ledger')
    BY <1>0, <2>3, <2>4
  <2> QED
    BY <1>0, <1>1, <2>1, <2>3, <2>4, <2>5 DEF row
<1>2. CASE c.kind = "splits"
  <2> DEFINE mine == revisions.split[c.tx] = c.n /\ c.tx \in DOMAIN ledger.rows
             row == PartsOf(ledger.rows[c.tx], c.what.before)
  <2>1. /\ ledger' = IF mine THEN [ledger EXCEPT !.rows[c.tx] = row] ELSE ledger
        /\ UNCHANGED hiddenTx
    BY <1>2 DEF NotSaved, PartsOf
  <2>2. c.what.before \in RowOf(c.tx)
    BY <1>0, <1>2 DEF CallOK, Says
  <2>3. ASSUME mine
        PROVE  LedgerOK(ledger') /\ ledger'.rows = [ledger.rows EXCEPT ![c.tx] = row]
    <3>1. row \in RowOf(c.tx)
      BY <2>2, <2>3, ShownRow, PartsPutBack
    <3> HIDE DEF row
    <3>2. ledger' = [rows |-> [ledger.rows EXCEPT ![c.tx] = row], total |-> ledger.total]
      BY <1>0, <2>1, <2>3, RowEdited
    <3>3. Good([ledger.rows EXCEPT ![c.tx] = row])
      BY <1>0, <2>3, <3>1, ChangeGood DEF LedgerOK
    <3> QED
      BY <1>0, <3>2, <3>3 DEF LedgerOK
  <2>4. ~mine => ledger' = ledger
    BY <2>1
  <2> HIDE DEF row
  <2>5. LedgerOK(ledger')
    BY <1>0, <2>3, <2>4
  <2> QED
    BY <1>0, <1>2, <2>1, <2>3, <2>4, <2>5 DEF row
<1>3. ASSUME c.kind \in {"delete"} \cup Hiding
      PROVE  /\ Good(One(c.tx, c.what.before)) /\ DOMAIN One(c.tx, c.what.before) = {c.tx}
             /\ c.tx \notin Legs
             /\ LedgerOK(Kept(One(c.tx, c.what.before)))
             /\ Kept(One(c.tx, c.what.before)).rows = MergeTransactions(ledger.rows, One(c.tx, c.what.before))
  <2>1. c.what.before \in RowOf(c.tx) /\ c.tx \in AnyTx \ Legs
    BY <1>0, <1>3 DEF CallOK, Says, Hiding
  <2> QED
    BY <1>0, <2>1, OneGood, KeptOK
<1>4. CASE c.kind = "delete"
  <2>1. ledger' = Kept(One(c.tx, c.what.before)) /\ UNCHANGED hiddenTx
    BY <1>4 DEF NotSaved, One
  <2> QED
    BY <1>0, <1>3, <1>4, <2>1
<1>5. CASE c.kind = "hide"
  <2>1. IF Newest(c)
        THEN /\ ledger' = Kept(One(c.tx, c.what.before))
             /\ hiddenTx' = IF hiddenTx = None THEN <<>> ELSE Without(hiddenTx, {c.tx})
        ELSE UNCHANGED <<ledger, hiddenTx>>
    BY <1>5 DEF NotSaved, One, Newest
  <2>2. Loose(<<>>)
    BY EmptyGood DEF Loose
  <2>3. hiddenTx # None => Loose(Without(hiddenTx, {c.tx}))
    <3> SUFFICES ASSUME hiddenTx # None PROVE Loose(Without(hiddenTx, {c.tx}))
      OBVIOUS
    <3>1. Good(Without(hiddenTx, {c.tx})) /\ DOMAIN Without(hiddenTx, {c.tx}) = DOMAIN hiddenTx \ {c.tx}
      BY <1>0, WithoutGood DEF Loose
    <3> QED
      BY <1>0, <3>1 DEF Loose
  <2>4. hiddenTx' # None => Loose(hiddenTx')
    BY <1>0, <2>1, <2>2, <2>3
  <2>5. LedgerOK(ledger')
    BY <1>0, <1>3, <1>5, <2>1 DEF Hiding
  <2> QED
    BY <1>0, <1>3, <1>5, <2>1, <2>4, <2>5 DEF Hiding
<1>6. CASE c.kind = "unhide"
  <2>1. IF Newest(c)
        THEN /\ ledger' = Dropped({c.tx})
             /\ hiddenTx' = MergeTransactions(SetAside, One(c.tx, c.what.before))
        ELSE UNCHANGED <<ledger, hiddenTx>>
    BY <1>6 DEF NotSaved, One, Newest, SetAside
  <2>2. LedgerOK(Dropped({c.tx})) /\ Dropped({c.tx}).rows = Without(ledger.rows, {c.tx})
    BY <1>0, FS_Singleton, DroppedOK
  <2>3. Loose(MergeTransactions(SetAside, One(c.tx, c.what.before)))
    <3>1. Good(SetAside) /\ DOMAIN SetAside \cap Legs = {}
      BY SetAsideLoose DEF Loose
    <3> DEFINE one == One(c.tx, c.what.before)
    <3>2. Good(one) /\ DOMAIN one = {c.tx} /\ c.tx \notin Legs
      BY <1>3, <1>6 DEF Hiding
    <3> HIDE DEF one
    <3>3. /\ Good(MergeTransactions(SetAside, one))
          /\ DOMAIN MergeTransactions(SetAside, one) = DOMAIN SetAside \cup DOMAIN one
      BY <3>1, <3>2, MergeGood
    <3>4. Loose(MergeTransactions(SetAside, one))
      BY <3>1, <3>2, <3>3 DEF Loose
    <3> QED
      BY <3>4 DEF one
  <2>4. LedgerOK(ledger') /\ (hiddenTx' # None => Loose(hiddenTx'))
    BY <1>0, <2>1, <2>2, <2>3
  <2>5. IF Newest(c)
        THEN /\ ledger'.rows = Without(ledger.rows, {c.tx})
             /\ hiddenTx' = MergeTransactions(SetAside, One(c.tx, c.what.before))
        ELSE UNCHANGED <<ledger, hiddenTx>>
    BY <2>1, <2>2
  <2> QED
    BY <1>0, <1>6, <2>4, <2>5
<1>7. CASE c.kind \in {"create", "deleteLegs"}
  BY <1>0, <1>7 DEF NotSaved
<1> QED
  BY <1>0, <1>1, <1>2, <1>4, <1>5, <1>6, <1>7 DEF Hiding

LEMMA FailShape == Shape /\ Fail => Shape'
<1> SUFFICES ASSUME Shape, Fail PROVE Shape'
  OBVIOUS
<1>0. UNCHANGED <<server, hiddenLoad, shownEpoch, asked, newest>>
  BY DEF Fail
<1>1. PICK c \in calls :
        /\ NotSaved(c) /\ calls' = calls \ {c} /\ revisions' = Released(c)
        /\ doubt' \in {doubt, doubt \cup Touched(c.kind, c.tx)}
        /\ shifted' \in {shifted, shifted \cup {"failed"}}
  BY DEF Fail
<1>2. /\ LedgerOK(ledger') /\ (hiddenTx' # None => Loose(hiddenTx'))
      /\ UNCHANGED <<fill, txProgress, loads>>
  BY <1>1, NotSavedGives
<1>3. RevisionsOK'
  BY <1>0, <1>1, ReleasedGives
<1>4. ShownOK' /\ ProgressOK'
  BY <1>0, <1>2 DEF Shape, ShownOK, ProgressOK
<1>5. ServerOK' /\ CallsOK'
  BY <1>0, <1>1 DEF Shape, ServerOK, CallsOK, server
<1>6. Touched(c.kind, c.tx) \subseteq AnyTx
  BY TouchedRows DEF Shape, CallsOK
<1>7. CountsOK'
  BY <1>0, <1>1, <1>6 DEF Shape, CountsOK
<1> QED
  BY <1>3, <1>4, <1>5, <1>7 DEF Shape

-----------------------------------------------------------------------------
(* The shapes, always.                                                     *)

LEMMA InitShape == LedgerInit => Shape
<1> SUFFICES ASSUME LedgerInit PROVE Shape
  OBVIOUS
<1>1. Good(srvTx) /\ DOMAIN srvTx = Tx /\ srvHidden = {}
  <2> DEFINE f == [i \in Tx |-> [date |-> i, categoryId |-> 0, splits |-> 0, leg |-> i \in Legs]]
  <2>1. \A i \in Tx : f[i] \in RowOf(i)
    BY LedgerClientAssumption DEF RowOf, Row
  <2>2. DOMAIN f = Tx /\ f = [i \in DOMAIN f |-> f[i]] /\ Tx \subseteq AnyTx
    BY Ids
  <2>3. srvTx = f /\ srvHidden = {}
    BY DEF LedgerInit
  <2> HIDE DEF f
  <2>4. Good(f)
    BY <2>1, <2>2, GoodRows
  <2> QED
    BY <2>2, <2>3, <2>4
<1>2. /\ ledger = [rows |-> Page(0, Light), total |-> Cardinality(Tx)]
      /\ fill = NewFill(ledger) /\ txProgress = (fill # None)
      /\ loads = {} /\ hiddenTx = None /\ hiddenLoad = None /\ calls = {}
      /\ revisions = [field  |-> [f \in AnyTx \X Field |-> 0], split |-> [i \in AnyTx |-> 0],
                      hidden |-> [i \in AnyTx |-> 0]]
      /\ shownEpoch = 0 /\ asked = 0 /\ newest = [f \in AnyTx \X Field |-> 0]
      /\ doubt = {} /\ shifted = {}
  BY DEF LedgerInit
<1>3. ServerOK
  BY <1>1, <1>2, LastTxOf DEF ServerOK
<1>4. LedgerOK(ledger)
  <2>1. Good(Page(0, Light))
    BY <1>3, PageGood
  <2>2. Cardinality(Tx) \in Nat
    BY LedgerClientAssumption, FS_CardinalityType
  <2> QED
    BY <1>2, <2>1, <2>2 DEF LedgerOK
<1>5. ShownOK /\ ProgressOK
  BY <1>2, <1>4, NewFillOK DEF ShownOK, ProgressOK
<1>6. RevisionsOK
  <2> DEFINE ff == [f \in AnyTx \X Field |-> 0]
             ii == [i \in AnyTx |-> 0]
  <2>1. ff \in [AnyTx \X Field -> Nat] /\ ii \in [AnyTx -> Nat] /\ \A x \in AnyTx \X Field : ff[x] = 0
    OBVIOUS
  <2>2. revisions = [field |-> ff, split |-> ii, hidden |-> ii] /\ newest = ff
    BY <1>2
  <2> HIDE DEF ff, ii
  <2> QED
    BY <2>1, <2>2 DEF RevisionsOK
<1>7. CallsOK /\ CountsOK
  BY <1>2, LedgerClientAssumption DEF CallsOK, CountsOK
<1> QED
  BY <1>3, <1>5, <1>6, <1>7 DEF Shape

LEMMA NextShape == Shape /\ [LedgerNext]_ledgerVars => Shape'
<1> SUFFICES ASSUME Shape, [LedgerNext]_ledgerVars PROVE Shape'
  OBVIOUS
<1>1. ASSUME Person PROVE Shape'
  <2>1. CASE Load
    BY <2>1, LoadShape
  <2>2. CASE LoadHiddenTx
    BY <2>2, HiddenListShape
  <2>3. CASE DeleteTransferWithLegs
    BY <2>3, DeleteLegsShape
  <2>4. CASE \E d \in Tx : AddTransaction(d)
    BY <2>4, AddShape
  <2>5. CASE \E i \in AnyTx, k \in Cat : UpdateTransaction(i, "categoryId", k)
    BY <2>5, UpdateShape DEF Field, Fits
  <2>6. CASE \E i \in AnyTx, d \in Tx : UpdateTransaction(i, "date", d)
    BY <2>6, UpdateShape DEF Field, Fits
  <2>7. CASE \E i \in AnyTx, parts \in {0, 1} : ReplaceTransactionSplits(i, parts)
    BY <2>7, SplitsShape
  <2>8. CASE \E i \in AnyTx : DeleteTransaction(i)
    BY <2>8, DeleteShape
  <2>9. CASE \E i \in AnyTx : HideTx(i)
    BY <2>9, HideShape
  <2>10. CASE \E i \in AnyTx : UnhideTx(i)
    BY <2>10, UnhideShape
  <2> QED
    BY <1>1, <2>1, <2>2, <2>3, <2>4, <2>5, <2>6, <2>7, <2>8, <2>9, <2>10 DEF Person
<1>2. ASSUME Arrival PROVE Shape'
  BY <1>2, PageReadShape, PageReturnsShape, SnapshotReadShape, SnapshotReturnsShape, HiddenListShape
     DEF Arrival
<1>3. CASE FillFails \/ LoadFails \/ HiddenReturns
  BY <1>3, FillFailsShape, LoadFailsShape, HiddenListShape
<1>4. CASE ServerAccepts \/ Refuse \/ Succeed \/ Fail
  BY <1>4, ServerShape, SucceedShape, FailShape
<1>5. CASE UNCHANGED ledgerVars
  BY <1>5 DEF ledgerVars, client, server, Shape, ServerOK, ShownOK, CallsOK, RevisionsOK, ProgressOK,
              CountsOK
<1> QED
  BY <1>1, <1>2, <1>3, <1>4, <1>5 DEF LedgerNext

\* The variables keep their types, at most one load is current, and history is
\* only said to be loading while something can end it (store.ts, load,
\* fillTransactions, restartFill).
THEOREM LedgerTypes == LedgerSpec => []LedgerTypeOK
<1>1. LedgerInit => Shape
  BY InitShape
<1>2. Shape /\ [LedgerNext]_ledgerVars => Shape'
  BY NextShape
<1>3. Shape => LedgerTypeOK
  BY ShapeTypes
<1> QED
  BY <1>1, <1>2, <1>3, PTL DEF LedgerSpec

\* Only the failure of an edit can change, in the row it is about, what the
\* page shows when the request ends, and then only the field the edit owns.
LEMMA EditsStep ==
    ASSUME Shape, [LedgerNext]_ledgerVars
    PROVE  \A c \in calls \ calls' : c.kind = "patch" /\ c.tx \in DOMAIN ledger.rows =>
              /\ c.tx \in DOMAIN ledger'.rows
              /\ \A f \in Field : ledger'.rows[c.tx][f] # ledger.rows[c.tx][f] =>
                    f = c.what.field /\ newest[<<c.tx, f>>] = c.n
<1> SUFFICES ASSUME NEW c \in calls, c \notin calls', c.kind = "patch", c.tx \in DOMAIN ledger.rows
             PROVE  /\ c.tx \in DOMAIN ledger'.rows
                    /\ \A f \in Field : ledger'.rows[c.tx][f] # ledger.rows[c.tx][f] =>
                          f = c.what.field /\ newest[<<c.tx, f>>] = c.n
  OBVIOUS
<1>0. CallOK(c) /\ c.n \in Nat \ {0} /\ c.tx \in AnyTx /\ c.what.field \in Field
      /\ Fits(c.what.field, c.what.before) /\ ledger.rows[c.tx] \in RowOf(c.tx)
  BY ShownRow DEF Shape, CallsOK, CallOK, Says
<1>1. CASE ledger' = ledger
  BY <1>1
<1>2. ASSUME NEW d \in calls, calls' = calls \ {d} PROVE d = c
  BY <1>2
<1>3. CASE Succeed
  <2>1. Saved(c)
    BY <1>2, <1>3 DEF Succeed
  <2> QED
    BY <1>1, <2>1, SavedGives
<1>4. CASE Fail
  <2>1. NotSaved(c)
    BY <1>2, <1>4 DEF Fail
  <2>2. CASE c.epoch = shownEpoch /\ c.tx \in DOMAIN ledger.rows /\ UndoesField(c)
    <3> DEFINE row == [ledger.rows[c.tx] EXCEPT ![c.what.field] = c.what.before]
    <3>1. ledger'.rows = [ledger.rows EXCEPT ![c.tx] = row]
      BY <2>1, <2>2, NotSavedGives
    <3>2. \A f \in Field : f # c.what.field => row[f] = ledger.rows[c.tx][f]
      BY <1>0, FieldWritten
    <3> HIDE DEF row
    <3>3. c.tx \in DOMAIN ledger'.rows /\ ledger'.rows[c.tx] = row
      BY <3>1
    <3>4. newest[<<c.tx, c.what.field>>] = c.n
      BY <1>0, <2>2 DEF UndoesField, Shape, RevisionsOK
    <3> QED
      BY <3>2, <3>3, <3>4
  <2>3. CASE ~(c.epoch = shownEpoch /\ c.tx \in DOMAIN ledger.rows /\ UndoesField(c))
    BY <1>1, <2>1, <2>3, NotSavedGives
  <2> QED
    BY <2>2, <2>3
<1>5. CASE ServerAccepts \/ Refuse
  BY <1>1, <1>5 DEF ServerAccepts, Refuse, client
<1>6. CASE Person
  <2>1. \A kind, tx, what : Do(kind, tx, what) => calls \subseteq calls'
    BY DEF Do
  <2>2. Load \/ LoadHiddenTx => calls' = calls
    BY DEF Load, LoadHiddenTx
  <2>3. ASSUME NEW d, AddTransaction(d) PROVE calls \subseteq calls'
    BY <2>1, <2>3 DEF AddTransaction
  <2>4. DeleteTransferWithLegs => calls \subseteq calls'
    BY <2>1 DEF DeleteTransferWithLegs
  <2>5. ASSUME NEW i
        PROVE  /\ \A field, value : UpdateTransaction(i, field, value) => calls \subseteq calls'
               /\ \A parts : ReplaceTransactionSplits(i, parts) => calls \subseteq calls'
               /\ DeleteTransaction(i) \/ HideTx(i) \/ UnhideTx(i) => calls \subseteq calls'
    BY <2>1 DEF UpdateTransaction, ReplaceTransactionSplits, DeleteTransaction, HideTx, UnhideTx
  <2>6. calls \subseteq calls'
    BY <1>6, <2>2, <2>3, <2>4, <2>5 DEF Person
  <2> QED
    BY <2>6
<1>7. CASE Arrival \/ FillFails \/ LoadFails \/ HiddenReturns \/ UNCHANGED ledgerVars
  <2>1. calls' = calls
    BY <1>7 DEF Arrival, PageRead, PageReturns, SnapshotRead, SnapshotReturns, HiddenRead, FillFails,
                LoadFails, HiddenReturns, ledgerVars
  <2> QED
    BY <2>1
<1> QED
  BY <1>3, <1>4, <1>5, <1>6, <1>7 DEF LedgerNext

\* An edit that fails never undoes a newer edit of the same field
\* (updateTransaction, store.ts:637, the revision it compares).
THEOREM EditsKept == LedgerSpec => NewerEditsKept
<1>1. LedgerInit => Shape
  BY InitShape
<1>2. Shape /\ [LedgerNext]_ledgerVars => Shape'
  BY NextShape
<1>3. ASSUME Shape, [LedgerNext]_ledgerVars
      PROVE  [\A c \in calls \ calls' : c.kind = "patch" /\ c.tx \in DOMAIN ledger.rows =>
                 /\ c.tx \in DOMAIN ledger'.rows
                 /\ \A f \in Field : ledger'.rows[c.tx][f] # ledger.rows[c.tx][f] =>
                       f = c.what.field /\ newest[<<c.tx, f>>] = c.n]_ledgerVars
  BY <1>3, EditsStep
<1> QED
  BY <1>1, <1>2, <1>3, PTL DEF LedgerSpec, NewerEditsKept

-----------------------------------------------------------------------------
(* What is known of a row that is not in doubt.                            *)

\* The requests about the row that have not been answered.
Of(i) == {c \in calls : i \in Touched(c.kind, c.tx)}

Aside(i) == hiddenTx # None /\ i \in DOMAIN hiddenTx
AsSaved(rows, i) == i \in DOMAIN rows => i \in Visible /\ rows[i] = srvTx[i]
AsHidden(rows, i) == i \in DOMAIN rows => i \in srvHidden /\ rows[i] = srvTx[i]

\* Whatever is on its way to the page shows the row as the server holds it.
Images(i) ==
    /\ fill # None => AsSaved(fill.pending, i) /\ (fill.stage = "answered" => AsSaved(fill.page, i))
    /\ \A l \in loads : l.stage = "answered" => AsSaved(l.rows, i)
    /\ hiddenLoad # None /\ hiddenLoad.stage = "answered" => AsHidden(hiddenLoad.rows, i)

\* Nothing is on its way while a request about the row is.
Alone(i) == Of(i) # {} => loads = {} /\ hiddenLoad = None /\ i \notin Arriving

\* Between requests, the page shows the row as the server holds it.
Rested(i) == Of(i) = {} => AsSaved(ledger.rows, i) /\ (Aside(i) => AsHidden(hiddenTx, i))

OneOrHiding(i) == \A c, d \in Of(i) : c = d \/ {c.kind, d.kind} \subseteq Hiding

\* What the page and the server hold while a request is on its way.
Out(c, i) ==
    /\ c.kind = "create" =>
         /\ i \notin DOMAIN ledger.rows /\ ~Aside(i)
         /\ IF c.stage = "accepted" THEN i \in Visible /\ srvTx[i] = c.what.row ELSE i \notin DOMAIN srvTx
    /\ c.kind \in {"patch", "splits"} =>
         /\ i \in DOMAIN ledger.rows /\ i \in Visible /\ ~Aside(i)
         /\ c.stage = "accepted" => ledger.rows[i] = srvTx[i]
    /\ c.kind = "patch" =>
         /\ revisions.field[<<i, c.what.field>>] = c.n /\ c.epoch = shownEpoch
         /\ c.stage # "accepted" => /\ ledger.rows[i] = [srvTx[i] EXCEPT ![c.what.field] = c.what.value]
                                    /\ c.what.before = srvTx[i][c.what.field]
    /\ c.kind = "splits" =>
         /\ revisions.split[i] = c.n
         /\ ledger.rows[i] = Parted(srvTx[i], c.what.parts)
         /\ c.stage # "accepted" => c.what.before = srvTx[i]
    /\ c.kind = "delete" =>
         /\ i \notin DOMAIN ledger.rows /\ ~Aside(i)
         /\ IF c.stage = "accepted" THEN i \notin DOMAIN srvTx
            ELSE i \in Visible /\ c.what.before = srvTx[i]
    /\ c.kind = "deleteLegs" =>
         /\ ~Aside(i)
         /\ IF c.stage = "accepted" THEN i \notin DOMAIN srvTx ELSE AsSaved(ledger.rows, i)

First(c, i) == \A d \in Of(i) : c.n <= d.n

\* One request of the chain of hides and unhides of a row: it is the first, or
\* it waits; and two that ask the same have another between them.
Link(c, i) ==
    /\ c.kind \in Hiding /\ c.epoch = shownEpoch /\ c.what.before = srvTx[i]
    /\ c.n <= revisions.hidden[i]
    /\ First(c, i) => (i \in srvHidden <=> (c.stage = "accepted" <=> c.kind = "hide"))
    /\ ~First(c, i) => c.stage = "sent"
    /\ \A d \in Of(i) : c.n < d.n /\ c.kind = d.kind => \E e \in Of(i) : c.n < e.n /\ e.n < d.n

\* The page shows the row where the last of the chain puts it.
Ends(c, i) ==
    /\ c.n = revisions.hidden[i]
    /\ c.kind = "hide" => i \notin DOMAIN ledger.rows /\ Aside(i) /\ hiddenTx[i] = srvTx[i]
    /\ c.kind = "unhide" => i \in DOMAIN ledger.rows /\ ledger.rows[i] = srvTx[i] /\ ~Aside(i)

Chained(i) ==
    (\E c \in Of(i) : c.kind \in Hiding) =>
        /\ i \in DOMAIN srvTx
        /\ \A c \in Of(i) : Link(c, i)
        /\ \E c \in Of(i) : Ends(c, i)

Core(i) == Rested(i) /\ OneOrHiding(i) /\ (\A c \in Of(i) : Out(c, i)) /\ Chained(i)

RowInv(i) == Images(i) /\ Alone(i) /\ Core(i)

AgreementInv == Shape /\ \A i \in AnyTx \ doubt : RowInv(i)

LEMMA AgreementGives == AgreementInv => LedgerAgrees
<1> SUFFICES ASSUME AgreementInv, Quiet
             PROVE  /\ \A i \in DOMAIN ledger.rows \ doubt :
                          i \in Visible /\ \A f \in Field \cup {"splits"} : ledger.rows[i][f] = srvTx[i][f]
                    /\ hiddenTx # None => \A i \in DOMAIN hiddenTx \ doubt : i \in srvHidden
  BY DEF LedgerAgrees
<1>1. \A i : Of(i) = {}
  BY DEF Quiet, Of
<1>2. \A i \in AnyTx \ doubt : AsSaved(ledger.rows, i) /\ (Aside(i) => AsHidden(hiddenTx, i))
  BY <1>1 DEF AgreementInv, RowInv, Core, Rested
<1>3. DOMAIN ledger.rows \subseteq AnyTx /\ (hiddenTx # None => DOMAIN hiddenTx \subseteq AnyTx)
  BY DEF AgreementInv, Shape, ShownOK, LedgerOK, Loose, Good, IsTable
<1> QED
  BY <1>2, <1>3 DEF AsSaved, AsHidden, Aside

-----------------------------------------------------------------------------
(* Frames.                                                                 *)

\* The server holds the row as it did.
SameSaved(i) ==
    /\ i \in DOMAIN srvTx' <=> i \in DOMAIN srvTx
    /\ i \in DOMAIN srvTx => srvTx'[i] = srvTx[i]
    /\ i \in srvHidden' <=> i \in srvHidden

\* The page shows the row as it did.
SameShown(i) ==
    /\ i \in DOMAIN ledger'.rows <=> i \in DOMAIN ledger.rows
    /\ i \in DOMAIN ledger.rows => ledger'.rows[i] = ledger.rows[i]
    /\ Aside(i)' <=> Aside(i)
    /\ Aside(i) => hiddenTx'[i] = hiddenTx[i]

SameOwned(i) ==
    /\ \A f \in Field : revisions'.field[<<i, f>>] = revisions.field[<<i, f>>]
    /\ revisions'.split[i] = revisions.split[i] /\ revisions'.hidden[i] = revisions.hidden[i]

LEMMA CoreSame ==
    ASSUME Shape, NEW i, Core(i),
           Of(i)' = Of(i), SameSaved(i), SameShown(i), SameOwned(i), shownEpoch' = shownEpoch
    PROVE  Core(i)'
<1>0. srvHidden \subseteq DOMAIN srvTx /\ \A c \in Of(i) : CallOK(c)
  BY DEF Shape, ServerOK, CallsOK, Of
<1>1. Rested(i)'
  BY <1>0 DEF Core, Rested, AsSaved, AsHidden, Visible, SameSaved, SameShown, Aside
<1>2. OneOrHiding(i)'
  BY DEF Core, OneOrHiding
<1>3. ASSUME NEW c \in Of(i) PROVE Out(c, i)'
  <2>1. c.kind = "patch" => c.what.field \in Field
    BY <1>0 DEF CallOK, Says
  <2>2. Out(c, i)
    BY DEF Core
  <2> QED
    BY <2>1, <2>2 DEF Out, AsSaved, Visible, SameSaved, SameShown, SameOwned, Aside
<1>4. Chained(i)'
  <2>1. \A c \in Of(i) : First(c, i)' <=> First(c, i)
    BY DEF First
  <2>2. ASSUME NEW c \in Of(i), Link(c, i), i \in DOMAIN srvTx PROVE Link(c, i)'
    BY <2>1, <2>2 DEF Link, SameSaved, SameOwned
  <2>3. ASSUME NEW c \in Of(i), Ends(c, i), i \in DOMAIN srvTx PROVE Ends(c, i)'
    BY <2>3 DEF Ends, SameSaved, SameShown, SameOwned
  <2> QED
    BY <2>2, <2>3 DEF Core, Chained, SameSaved
<1> QED
  BY <1>1, <1>2, <1>3, <1>4 DEF Core

\* A row nothing is asked about.
LEMMA LeftAlone ==
    ASSUME NEW i, Of(i)' = {}, Images(i)', Rested(i)'
    PROVE  RowInv(i)'
BY DEF RowInv, Alone, Core, OneOrHiding, Chained

\* A row of which nothing is on its way.
LEMMA Clear ==
    ASSUME NEW i, loads' = {}, hiddenLoad' = None, i \notin Arriving'
    PROVE  Images(i)' /\ Alone(i)'
BY DEF Images, Alone, Arriving, AsSaved

LEMMA ImagesKept ==
    ASSUME Shape, NEW i, Images(i), Refilled, hiddenLoad' \in {hiddenLoad, None}, SameSaved(i)
    PROVE  Images(i)'
<1>0. srvHidden \subseteq DOMAIN srvTx
  BY DEF Shape, ServerOK
<1>1. \A rows : AsSaved(rows, i) => (i \in DOMAIN rows => i \in Visible' /\ rows[i] = srvTx'[i])
  BY DEF AsSaved, SameSaved, Visible
<1>2. \A rows : AsHidden(rows, i) => (i \in DOMAIN rows => i \in srvHidden' /\ rows[i] = srvTx'[i])
  BY <1>0 DEF AsHidden, SameSaved
<1> DEFINE SavedThen(rows) == i \in DOMAIN rows => i \in Visible' /\ rows[i] = srvTx'[i]
           HiddenThen(rows) == i \in DOMAIN rows => i \in srvHidden' /\ rows[i] = srvTx'[i]
<1>3. fill' # None => SavedThen(fill'.pending) /\ (fill'.stage = "answered" => SavedThen(fill'.page))
  BY <1>1, EmptyGood DEF Images, Refilled
<1>4. \A m \in loads' : m.stage = "answered" => SavedThen(m.rows)
  <2> SUFFICES ASSUME NEW m \in loads', m.stage = "answered" PROVE SavedThen(m.rows)
    OBVIOUS
  <2>1. PICK l \in loads : l.stage = "answered" /\ m.rows = l.rows
    BY DEF Refilled
  <2> QED
    BY <1>1, <2>1 DEF Images
<1>5. hiddenLoad' # None /\ hiddenLoad'.stage = "answered" => HiddenThen(hiddenLoad'.rows)
  BY <1>2 DEF Images
<1> QED
  BY <1>3, <1>4, <1>5 DEF Images, AsSaved, AsHidden

-----------------------------------------------------------------------------
(* Loads and pages keep what is known of a row.                            *)

LEMMA NotAsked == ASSUME NEW i, i \notin Unanswered PROVE Of(i) = {}
BY DEF Unanswered, Of

LEMMA SameOf == ASSUME NEW i, calls' = calls PROVE Of(i)' = Of(i)
BY DEF Of

LEMMA LoadKeeps ==
    ASSUME Shape, NEW i \in AnyTx \ doubt', RowInv(i), Load
    PROVE  RowInv(i)'
<1>1. /\ UNCHANGED <<srvTx, srvHidden, ledger, calls>>
      /\ fill' = None /\ hiddenTx' = None /\ hiddenLoad' = None
      /\ doubt' = doubt \cup Unanswered
      /\ loads' = {[l EXCEPT !.current = FALSE] : l \in loads}
                  \cup {[n |-> asked, current |-> TRUE, stage |-> "asked", hidden |-> hiddenTx # None]}
  BY DEF Load, server
<1>2. Of(i) = {} /\ Of(i)' = {}
  BY <1>1, NotAsked, SameOf
<1>3. \A m \in loads' : m.stage = "answered" => \E l \in loads : l.stage = "answered" /\ m.rows = l.rows
  <2> SUFFICES ASSUME NEW m \in loads', m.stage = "answered"
               PROVE  \E l \in loads : l.stage = "answered" /\ m.rows = l.rows
    OBVIOUS
  <2>1. PICK l \in loads : m = [l EXCEPT !.current = FALSE]
    BY <1>1
  <2>2. LoadOK(l)
    BY DEF Shape, ShownOK
  <2> QED
    BY <2>1, <2>2, Superseded
<1>4. Images(i)'
  BY <1>1, <1>3 DEF RowInv, Images, AsSaved, Visible
<1>5. Rested(i)'
  BY <1>1, <1>2 DEF RowInv, Core, Rested, AsSaved, Aside, Visible
<1> QED
  BY <1>2, <1>4, <1>5, LeftAlone

LEMMA SnapshotReadKeeps ==
    ASSUME Shape, NEW i \in AnyTx \ doubt', RowInv(i), SnapshotRead
    PROVE  RowInv(i)'
<1>1. /\ UNCHANGED <<srvTx, srvHidden, ledger, fill, hiddenTx, hiddenLoad, calls>>
      /\ doubt' = doubt \cup Unanswered
  BY DEF SnapshotRead, server
<1>2. Of(i) = {} /\ Of(i)' = {}
  BY <1>1, NotAsked, SameOf
<1>3. PICK l \in loads :
         loads' = (loads \ {l}) \cup
                {[n |-> l.n, current |-> l.current, stage |-> "answered", hidden |-> l.hidden,
                  rows |-> Page(0, Light), total |-> Cardinality(Visible)]}
  BY DEF SnapshotRead
<1>4. AsSaved(Page(0, Light), i)
  BY PageGood DEF Shape, AsSaved
<1>5. \A m \in loads' : m.stage = "answered" => AsSaved(m.rows, i)
  BY <1>3, <1>4 DEF RowInv, Images
<1>6. Images(i)'
  BY <1>1, <1>5 DEF RowInv, Images, AsSaved, AsHidden, Visible
<1>7. Rested(i)'
  BY <1>1, <1>2 DEF RowInv, Core, Rested, AsSaved, AsHidden, Aside, Visible
<1> QED
  BY <1>2, <1>6, <1>7, LeftAlone

LEMMA SnapshotReturnsKeeps ==
    ASSUME Shape, NEW i \in AnyTx \ doubt', RowInv(i), SnapshotReturns
    PROVE  RowInv(i)'
<1>1. PICK l \in loads :
        /\ l.stage = "answered" /\ loads' = loads \ {l}
        /\ IF l.current
           THEN /\ ledger' = [rows |-> l.rows, total |-> l.total]
                /\ StartFill(ledger')
                /\ hiddenLoad' = IF l.hidden THEN [stage |-> "asked"] ELSE hiddenLoad
           ELSE UNCHANGED <<ledger, fill, hiddenLoad>>
        /\ UNCHANGED <<srvTx, srvHidden, hiddenTx, calls>>
  BY DEF SnapshotReturns, server
<1>2. Of(i) = {} /\ Of(i)' = {}
  BY <1>1, SameOf DEF RowInv, Alone
<1>3. AsSaved(l.rows, i) /\ Good(l.rows) /\ l.total \in Nat
  BY <1>1 DEF RowInv, Images, Shape, ShownOK, LoadOK
<1>4. AsSaved(ledger'.rows, i)
  BY <1>1, <1>2, <1>3 DEF RowInv, Core, Rested
<1>5. \/ fill' = fill
      \/ fill' = None
      \/ fill'.stage = "asked" /\ fill'.pending = <<>>
  <2>1. CASE l.current
    <3>1. LedgerOK(ledger')
      BY <1>1, <1>3, <2>1 DEF LedgerOK
    <3> QED
      BY <1>1, <2>1, <3>1, NewFillOK DEF StartFill
  <2> QED
    BY <1>1, <2>1
<1>6. hiddenLoad' = hiddenLoad \/ hiddenLoad' = [stage |-> "asked"]
  BY <1>1
<1>7. Images(i)'
  <2>1. fill' # None => /\ AsSaved(fill'.pending, i)
                        /\ fill'.stage = "answered" => AsSaved(fill'.page, i)
    BY <1>5, EmptyGood DEF RowInv, Images, AsSaved
  <2>2. \A m \in loads' : m.stage = "answered" => AsSaved(m.rows, i)
    BY <1>1 DEF RowInv, Images
  <2>3. hiddenLoad' # None /\ hiddenLoad'.stage = "answered" => AsHidden(hiddenLoad'.rows, i)
    BY <1>6 DEF RowInv, Images
  <2> QED
    BY <1>1, <2>1, <2>2, <2>3 DEF Images, AsSaved, AsHidden, Visible
<1>8. Rested(i)'
  <2>1. Aside(i) => AsHidden(hiddenTx, i)
    BY <1>2 DEF RowInv, Core, Rested
  <2> QED
    BY <1>1, <1>2, <1>4, <2>1 DEF Rested, AsSaved, AsHidden, Aside, Visible
<1> QED
  BY <1>2, <1>7, <1>8, LeftAlone

LEMMA LoadFailsKeeps ==
    ASSUME Shape, NEW i \in AnyTx \ doubt', RowInv(i), LoadFails
    PROVE  RowInv(i)'
<1>1. /\ loads # {} /\ loads' \subseteq loads
      /\ UNCHANGED <<srvTx, srvHidden, ledger, fill, hiddenTx, hiddenLoad, calls>>
  BY DEF LoadFails, server
<1>2. Of(i) = {} /\ Of(i)' = {}
  BY <1>1, SameOf DEF RowInv, Alone
<1>3. Images(i)'
  BY <1>1 DEF RowInv, Images, AsSaved, AsHidden, Visible
<1>4. Rested(i)'
  BY <1>1, <1>2 DEF RowInv, Core, Rested, AsSaved, AsHidden, Aside, Visible
<1> QED
  BY <1>2, <1>3, <1>4, LeftAlone

LEMMA HiddenListKeeps ==
    ASSUME Shape, NEW i \in AnyTx \ doubt', RowInv(i), LoadHiddenTx \/ HiddenRead \/ HiddenReturns
    PROVE  RowInv(i)'
<1>1. /\ UNCHANGED <<srvTx, srvHidden, ledger, fill, loads, calls>>
      /\ doubt' = doubt \cup Unanswered \/ hiddenLoad # None
  BY DEF LoadHiddenTx, HiddenRead, HiddenReturns, server
<1>2. Of(i) = {} /\ Of(i)' = {}
  BY <1>1, NotAsked, SameOf DEF RowInv, Alone
<1>3. \/ hiddenLoad' = [stage |-> "asked"]
      \/ hiddenLoad' = [stage |-> "answered", rows |-> Only(srvTx, srvHidden)]
      \/ hiddenLoad' = None
  BY DEF LoadHiddenTx, HiddenRead, HiddenReturns
<1>4. AsHidden(Only(srvTx, srvHidden), i)
  BY OnlyGood DEF Shape, ServerOK, AsHidden
<1>5. Images(i)'
  BY <1>1, <1>3, <1>4 DEF RowInv, Images, AsSaved, AsHidden, Visible
<1>6. \/ hiddenTx' = hiddenTx
      \/ hiddenLoad # None /\ hiddenLoad.stage = "answered" /\ hiddenTx' = hiddenLoad.rows
  BY DEF LoadHiddenTx, HiddenRead, HiddenReturns
<1>7. Rested(i)'
  BY <1>1, <1>2, <1>6 DEF RowInv, Images, Core, Rested, AsSaved, AsHidden, Aside, Visible
<1> QED
  BY <1>2, <1>5, <1>7, LeftAlone

LEMMA Unmoved ==
    ASSUME NEW i
    PROVE  /\ UNCHANGED <<srvTx, srvHidden>> => SameSaved(i)
           /\ UNCHANGED <<ledger, hiddenTx>> => SameShown(i)
           /\ revisions' = revisions => SameOwned(i)
BY DEF SameSaved, SameShown, SameOwned, Aside

LEMMA PageReadKeeps ==
    ASSUME Shape, NEW i \in AnyTx \ doubt', RowInv(i), PageRead
    PROVE  RowInv(i)'
<1> DEFINE p == Page(fill.offset, TX_CHUNK)
           k == Cardinality(Visible)
<1>1. /\ fill # None /\ fill.stage = "asked"
      /\ fill' = [stage |-> "answered", offset |-> fill.offset, total |-> fill.total,
                  pending |-> fill.pending, page |-> p, count |-> k]
      /\ doubt' = doubt \cup (Unanswered \cap DOMAIN fill'.page)
      /\ UNCHANGED <<srvTx, srvHidden, ledger, loads, hiddenTx, hiddenLoad, revisions, shownEpoch, calls>>
  BY DEF PageRead, server
<1>2. AsSaved(p, i)
  BY PageGood DEF Shape, AsSaved
<1> HIDE DEF p, k
<1>3. fill'.stage = "answered" /\ fill'.pending = fill.pending /\ fill'.page = p /\ fill' # None
  <2>1. fill'.stage = "answered" /\ fill'.pending = fill.pending /\ fill'.page = p
    BY <1>1
  <2>2. FillOK(fill') /\ (fill' # None)
    <3>1. IsAnswered(fill')
      <4>1. IsAsked(fill)
        BY <1>1 DEF Shape, ShownOK, FillOK, IsAnswered
      <4>2. Good(p) /\ k \in Nat
        <5>1. IsFiniteSet(Visible)
          BY SizeNat, FS_Subset DEF Visible, Shape, ServerOK
        <5> QED
          BY <5>1, FS_CardinalityType, PageGood DEF Shape, p, k
      <4> QED
        BY <1>1, <4>1, <4>2 DEF IsAsked, IsAnswered
    <3> QED
      BY <3>1, FillsAreNotNone DEF FillOK
  <2> QED
    BY <2>1, <2>2
<1>4. Images(i)'
  <2>1. AsSaved(fill'.pending, i) /\ AsSaved(fill'.page, i)
    BY <1>1, <1>2, <1>3 DEF RowInv, Images
  <2> QED
    BY <1>1, <2>1 DEF RowInv, Images, AsSaved, AsHidden, Visible
<1>5. Of(i)' = Of(i)
  BY <1>1, SameOf
<1>6. Alone(i)'
  <2> SUFFICES ASSUME Of(i) # {} PROVE loads' = {} /\ hiddenLoad' = None /\ i \notin Arriving'
    BY <1>5 DEF Alone
  <2>1. loads = {} /\ hiddenLoad = None /\ i \notin DOMAIN fill.pending
    BY <1>1 DEF RowInv, Alone, Arriving
  <2>2. i \notin DOMAIN fill'.page
    <3>1. i \in Unanswered
      BY DEF Unanswered, Of
    <3> QED
      BY <1>1, <3>1
  <2> QED
    BY <1>1, <1>3, <2>1, <2>2 DEF Arriving
<1>7. Core(i)'
  BY <1>1, <1>5, Unmoved, CoreSame DEF RowInv
<1> QED
  BY <1>4, <1>6, <1>7 DEF RowInv

LEMMA PageReturnsKeeps ==
    ASSUME Shape, NEW i \in AnyTx \ doubt', RowInv(i), PageReturns
    PROVE  RowInv(i)'
<1> DEFINE pending == MergeTransactions(fill.pending, fill.page)
<1>1. /\ fill # None /\ fill.stage = "answered" /\ IsAnswered(fill)
      /\ UNCHANGED <<srvTx, srvHidden, loads, hiddenTx, hiddenLoad, revisions, shownEpoch, calls>>
      /\ \/ /\ LedgerOK(ledger') /\ ledger'.rows = MergeTransactions(ledger.rows, pending)
            /\ \/ fill' = None
               \/ fill' # None /\ IsAsked(fill') /\ fill'.pending = <<>>
         \/ /\ UNCHANGED ledger
            /\ fill' # None /\ IsAsked(fill') /\ fill'.pending = pending
  BY PageReturnsGives DEF server
<1>2. Good(ledger.rows) /\ Good(fill.pending) /\ Good(fill.page)
  BY <1>1 DEF Shape, ShownOK, LedgerOK, IsAnswered
<1>3. /\ Good(pending) /\ DOMAIN pending = DOMAIN fill.pending \cup DOMAIN fill.page
      /\ \A j \in DOMAIN fill.pending : pending[j] = fill.pending[j]
      /\ \A j \in DOMAIN fill.page \ DOMAIN fill.pending : pending[j] = fill.page[j]
  BY <1>2, MergeGood
<1> HIDE DEF pending
<1>4. AsSaved(pending, i)
  BY <1>1, <1>3 DEF RowInv, Images, AsSaved
<1>5. \/ fill' = None
      \/ /\ fill' # None /\ fill'.stage = "asked"
         /\ fill'.pending = pending \/ fill'.pending = <<>>
  BY <1>1 DEF IsAsked
<1>6. Images(i)'
  <2>1. fill' # None => AsSaved(fill'.pending, i) /\ fill'.stage # "answered"
    BY <1>4, <1>5, EmptyGood DEF AsSaved
  <2> QED
    BY <1>1, <2>1 DEF RowInv, Images, AsSaved, AsHidden, Visible
<1>7. Of(i)' = Of(i)
  BY <1>1, SameOf
<1>8. /\ DOMAIN MergeTransactions(ledger.rows, pending) = DOMAIN ledger.rows \cup DOMAIN pending
      /\ \A j \in DOMAIN ledger.rows : MergeTransactions(ledger.rows, pending)[j] = ledger.rows[j]
      /\ \A j \in DOMAIN pending \ DOMAIN ledger.rows :
            MergeTransactions(ledger.rows, pending)[j] = pending[j]
  BY <1>2, <1>3, MergeGood, ZenonT(60)
<1>9. CASE Of(i) = {}
  <2>1. AsSaved(ledger.rows, i) /\ (Aside(i) => AsHidden(hiddenTx, i))
    BY <1>9 DEF RowInv, Core, Rested
  <2>2. AsSaved(MergeTransactions(ledger.rows, pending), i)
    BY <1>4, <1>8, <2>1 DEF AsSaved
  <2>3. AsSaved(ledger'.rows, i)
    BY <1>1, <2>1, <2>2
  <2>4. Rested(i)'
    BY <1>1, <2>1, <2>3 DEF Rested, AsSaved, AsHidden, Aside, Visible
  <2> QED
    BY <1>6, <1>7, <1>9, <2>4, LeftAlone
<1>10. CASE Of(i) # {}
  <2>1. loads = {} /\ hiddenLoad = None /\ i \notin DOMAIN fill.pending /\ i \notin DOMAIN fill.page
    BY <1>1, <1>10 DEF RowInv, Alone, Arriving
  <2>2. i \notin DOMAIN pending
    BY <1>3, <2>1
  <2>3. i \notin Arriving'
    BY <1>5, <2>2, EmptyGood DEF Arriving
  <2>4. SameShown(i)
    BY <1>1, <1>8, <2>2 DEF SameShown, Aside
  <2>5. Core(i)'
    BY <1>1, <1>7, <2>4, Unmoved, CoreSame DEF RowInv
  <2>6. Alone(i)'
    BY <1>1, <2>1, <2>3 DEF Alone
  <2> QED
    BY <1>6, <2>5, <2>6 DEF RowInv
<1> QED
  BY <1>9, <1>10

LEMMA FillFailsKeeps ==
    ASSUME Shape, NEW i \in AnyTx \ doubt', RowInv(i), FillFails
    PROVE  RowInv(i)'
<1>1. /\ fill' = None
      /\ UNCHANGED <<srvTx, srvHidden, ledger, loads, hiddenTx, hiddenLoad, revisions, shownEpoch, calls>>
  BY DEF FillFails, server
<1>2. Of(i)' = Of(i)
  BY <1>1, SameOf
<1>3. Images(i)' /\ Alone(i)'
  BY <1>1, <1>2 DEF RowInv, Images, Alone, Arriving, AsSaved, AsHidden, Visible
<1>4. Core(i)'
  BY <1>1, <1>2, Unmoved, CoreSame DEF RowInv
<1> QED
  BY <1>3, <1>4 DEF RowInv

-----------------------------------------------------------------------------
(* What the person does keeps what is known of a row.                      *)

LEMMA AloneKept ==
    ASSUME NEW i, Alone(i), Refilled, hiddenLoad' \in {hiddenLoad, None}, Of(i)' # {} => Of(i) # {}
    PROVE  Alone(i)'
<1> SUFFICES ASSUME Of(i)' # {} PROVE loads' = {} /\ hiddenLoad' = None /\ i \notin Arriving'
  BY DEF Alone
<1>1. loads = {} /\ hiddenLoad = None /\ i \notin Arriving
  BY DEF Alone
<1>2. i \notin Arriving'
  BY <1>1, EmptyGood DEF Arriving, Refilled
<1> QED
  BY <1>1, <1>2 DEF Refilled

\* A request that leaves, and the row it is about or any other.
LEMMA DoRow ==
    ASSUME Shape, NEW kind, NEW tx, NEW what, Do(kind, tx, what), CallOK(Call(kind, tx, what)),
           NEW i \in AnyTx \ doubt', RowInv(i), NEW c, c = Call(kind, tx, what)
    PROVE  /\ c.n = asked + 1 /\ c.kind = kind /\ c.tx = tx /\ c.epoch = shownEpoch
           /\ c.stage = "sent" /\ c.what = what
           /\ \A d \in calls : d.n \in Nat /\ d.n < c.n
           /\ UNCHANGED <<srvTx, srvHidden>> /\ asked \in Nat
           /\ i \notin Touched(kind, tx) => Of(i)' = Of(i)
           /\ i \in Touched(kind, tx) =>
                 /\ Of(i)' = Of(i) \cup {c}
                 /\ loads = {} /\ hiddenLoad = None /\ i \notin Arriving
                 /\ Of(i) = {} \/ (kind \in Hiding /\ \A d \in Of(i) : d.kind \in Hiding)
<1>1. /\ c.n = asked + 1 /\ c.kind = kind /\ c.tx = tx /\ c.epoch = shownEpoch
      /\ c.stage = "sent" /\ c.what = what
  BY DEF Call
<1>2. CanDo /\ calls' = calls \cup {c} /\ UNCHANGED <<srvTx, srvHidden>>
  BY DEF Do, server
<1>3. asked \in Nat /\ \A d \in calls : d.n \in Nat /\ d.n < c.n
  <2>1. \A d \in calls : d.n \in Nat /\ d.n <= asked
    BY DEF Shape, CallsOK, CallOK
  <2> QED
    BY <1>1, <1>2, <2>1, CountUp
<1>4. i \notin Touched(kind, tx) => Of(i)' = Of(i)
  BY <1>1, <1>2 DEF Of
<1>5. ASSUME i \in Touched(kind, tx)
      PROVE  /\ Of(i)' = Of(i) \cup {c}
             /\ loads = {} /\ hiddenLoad = None /\ i \notin Arriving
             /\ Of(i) = {} \/ (kind \in Hiding /\ \A d \in Of(i) : d.kind \in Hiding)
  <2>1. Of(i)' = Of(i) \cup {c}
    BY <1>1, <1>2, <1>5 DEF Of
  <2>2. ~ \/ loads # {} \/ hiddenLoad # None
          \/ Touched(kind, tx) \cap Arriving # {}
          \/ /\ Touched(kind, tx) \cap Unanswered # {}
             /\ \E d \in calls : {d.kind, kind} \ {"hide", "unhide"} # {}
    BY <1>5 DEF Do
  <2>3. Of(i) # {} => Touched(kind, tx) \cap Unanswered # {}
    BY <1>5 DEF Of, Unanswered
  <2>4. Of(i) # {} => kind \in Hiding /\ \A d \in Of(i) : d.kind \in Hiding
    BY <2>2, <2>3 DEF Of, Hiding
  <2> QED
    BY <1>5, <2>1, <2>2, <2>4
<1> QED
  BY <1>1, <1>2, <1>3, <1>4, <1>5

LEMMA UntouchedKeeps ==
    ASSUME Shape, NEW i, RowInv(i), Of(i)' = Of(i), SameShown(i), SameOwned(i),
           UNCHANGED <<srvTx, srvHidden, fill, loads, txProgress, shownEpoch>>,
           hiddenLoad' \in {hiddenLoad, None}
    PROVE  RowInv(i)'
<1>1. Refilled /\ SameSaved(i)
  BY NotRefilled, Unmoved
<1>2. Images(i)' /\ Alone(i)'
  BY <1>1, ImagesKept, AloneKept DEF RowInv
<1>3. Core(i)'
  BY <1>1, CoreSame DEF RowInv
<1> QED
  BY <1>2, <1>3 DEF RowInv

\* The one request about a row.
LEMMA Lone ==
    ASSUME NEW i, NEW c, Of(i)' = {c}, c.kind \notin Hiding, Out(c, i)'
    PROVE  Core(i)'
BY DEF Core, Rested, OneOrHiding, Chained

LEMMA AddKeeps ==
    ASSUME Shape, NEW i \in AnyTx \ doubt', RowInv(i), NEW date \in Tx, AddTransaction(date)
    PROVE  RowInv(i)'
<1> DEFINE tx == LastTx + asked + 1
           what == [row |-> [date |-> date, categoryId |-> 0, splits |-> 0, leg |-> FALSE]]
<1>1. /\ Do("create", tx, what) /\ CallOK(Call("create", tx, what)) /\ tx \in AnyTx \ Legs
      /\ UNCHANGED <<ledger, txProgress, fill, loads, hiddenTx, hiddenLoad, revisions, shownEpoch>>
  BY AddShape DEF client
<1>2. PICK c : c = Call("create", tx, what)
  OBVIOUS
<1> HIDE DEF what
<1>3. /\ c.kind = "create" /\ c.stage = "sent" /\ asked \in Nat
      /\ UNCHANGED <<srvTx, srvHidden>>
      /\ i \notin Touched("create", tx) => Of(i)' = Of(i)
      /\ i \in Touched("create", tx) => /\ Of(i)' = Of(i) \cup {c} /\ Of(i) = {}
                                        /\ loads = {} /\ hiddenLoad = None /\ i \notin Arriving
  <2>1. "create" \notin Hiding
    BY DEF Hiding
  <2> QED
    BY <1>1, <1>2, <2>1, DoRow
<1>4. CASE i \notin Touched("create", tx)
  BY <1>1, <1>3, <1>4, Unmoved, UntouchedKeeps
<1>5. CASE i \in Touched("create", tx)
  <2>1. i = tx
    BY <1>5 DEF Touched
  <2>2. i \notin DOMAIN srvTx
    <3>1. \A j \in DOMAIN srvTx : j \in Nat /\ j <= LastTx + asked
      BY Ids, GoodRows DEF Shape, ServerOK
    <3>2. LastTx \in Nat /\ asked \in Nat
      BY <1>3, LastTxOf
    <3>3. ~(i <= LastTx + asked)
      BY <2>1, <3>2
    <3> QED
      BY <3>1, <3>3
  <2>3. i \notin DOMAIN ledger.rows /\ ~Aside(i)
    <3>1. AsSaved(ledger.rows, i) /\ (Aside(i) => AsHidden(hiddenTx, i))
      BY <1>3, <1>5 DEF RowInv, Core, Rested
    <3>2. srvHidden \subseteq DOMAIN srvTx
      BY DEF Shape, ServerOK
    <3> QED
      BY <2>2, <3>1, <3>2 DEF AsSaved, AsHidden, Visible, Aside
  <2>4. Out(c, i)'
    BY <1>1, <1>3, <2>2, <2>3 DEF Out, Aside
  <2>5. Core(i)'
    BY <1>3, <1>5, <2>4, Lone DEF Hiding
  <2>6. Images(i)' /\ Alone(i)'
    BY <1>1, <1>3, <1>5, Clear DEF Arriving
  <2> QED
    BY <2>5, <2>6 DEF RowInv
<1> QED
  BY <1>4, <1>5

LEMMA NothingOpen ==
    ASSUME Shape, NEW i, RowInv(i), Of(i) = {}
    PROVE  /\ i \in DOMAIN ledger.rows => /\ i \in DOMAIN srvTx /\ i \notin srvHidden
                                          /\ ledger.rows[i] = srvTx[i] /\ ~Aside(i)
           /\ Aside(i) => /\ i \in DOMAIN srvTx /\ i \in srvHidden
                          /\ hiddenTx[i] = srvTx[i] /\ i \notin DOMAIN ledger.rows
<1>1. AsSaved(ledger.rows, i) /\ (Aside(i) => AsHidden(hiddenTx, i))
  BY DEF RowInv, Core, Rested
<1>2. srvHidden \subseteq DOMAIN srvTx
  BY DEF Shape, ServerOK
<1> QED
  BY <1>1, <1>2 DEF AsSaved, AsHidden, Visible, Aside

LEMMA UpdateKeeps ==
    ASSUME Shape, NEW i \in AnyTx \ doubt', RowInv(i), NEW tx, NEW field \in Field, NEW value,
           Fits(field, value), UpdateTransaction(tx, field, value)
    PROVE  RowInv(i)'
<1> DEFINE what == [field |-> field, value |-> value, before |-> ledger.rows[tx][field]]
           row == [ledger.rows[tx] EXCEPT ![field] = value]
<1>1. /\ Do("patch", tx, what) /\ CallOK(Call("patch", tx, what))
      /\ tx \in DOMAIN ledger.rows /\ tx \in AnyTx \ Legs
      /\ ledger'.rows = [ledger.rows EXCEPT ![tx] = row]
      /\ revisions'.split = revisions.split /\ revisions'.hidden = revisions.hidden
      /\ revisions'.field = [revisions.field EXCEPT ![<<tx, field>>] = asked + 1]
      /\ UNCHANGED <<txProgress, fill, loads, hiddenTx, hiddenLoad, shownEpoch>>
  BY UpdateShape, ZenonT(60)
<1>2. PICK c : c = Call("patch", tx, what)
  OBVIOUS
<1>3. what.field = field /\ what.value = value /\ what.before = ledger.rows[tx][field]
  OBVIOUS
<1> HIDE DEF what, row
<1>4. "patch" \notin Hiding
  BY DEF Hiding
<1>5. /\ c.n = asked + 1 /\ c.kind = "patch" /\ c.epoch = shownEpoch /\ c.stage = "sent" /\ c.what = what
      /\ UNCHANGED <<srvTx, srvHidden>>
      /\ i \notin Touched("patch", tx) => Of(i)' = Of(i)
      /\ i \in Touched("patch", tx) => /\ Of(i)' = Of(i) \cup {c} /\ Of(i) = {}
                                       /\ loads = {} /\ hiddenLoad = None /\ i \notin Arriving
  BY <1>1, <1>2, <1>4, DoRow
<1>6. DOMAIN revisions.field = AnyTx \X Field
  BY DEF Shape, RevisionsOK
<1>7. CASE i \notin Touched("patch", tx)
  <2>1. i # tx
    BY <1>7 DEF Touched
  <2>2. SameShown(i)
    BY <1>1, <2>1 DEF SameShown, Aside
  <2>3. SameOwned(i)
    BY <1>1, <1>6, <2>1 DEF SameOwned
  <2> QED
    BY <1>1, <1>5, <1>7, <2>2, <2>3, UntouchedKeeps
<1>8. CASE i \in Touched("patch", tx)
  <2>1. i = tx
    BY <1>8 DEF Touched
  <2>2. i \in DOMAIN srvTx /\ i \notin srvHidden /\ ledger.rows[i] = srvTx[i] /\ ~Aside(i)
    BY <1>1, <1>5, <1>8, <2>1, NothingOpen
  <2>3. /\ i \in DOMAIN ledger'.rows /\ ledger'.rows[i] = [srvTx[i] EXCEPT ![field] = value]
        /\ c.what.before = srvTx[i][field]
    BY <1>1, <1>3, <1>5, <2>1, <2>2 DEF row
  <2>4. revisions'.field[<<i, field>>] = c.n
    BY <1>1, <1>5, <1>6, <2>1
  <2>5. Out(c, i)'
    BY <1>1, <1>3, <1>5, <2>2, <2>3, <2>4 DEF Out, Aside, Visible
  <2>6. Core(i)'
    BY <1>4, <1>5, <1>8, <2>5, Lone
  <2>7. Images(i)' /\ Alone(i)'
    BY <1>1, <1>5, <1>8, Clear DEF Arriving
  <2> QED
    BY <2>6, <2>7 DEF RowInv
<1> QED
  BY <1>7, <1>8

LEMMA SplitsKeeps ==
    ASSUME Shape, NEW i \in AnyTx \ doubt', RowInv(i), NEW tx, NEW parts \in {0, 1},
           ReplaceTransactionSplits(tx, parts)
    PROVE  RowInv(i)'
<1> DEFINE what == [parts |-> parts, before |-> ledger.rows[tx]]
<1>1. /\ Do("splits", tx, what) /\ CallOK(Call("splits", tx, what))
      /\ tx \in DOMAIN ledger.rows /\ tx \in AnyTx \ Legs
      /\ ledger'.rows = [ledger.rows EXCEPT ![tx] = Parted(ledger.rows[tx], parts)]
      /\ revisions'.field = revisions.field /\ revisions'.hidden = revisions.hidden
      /\ revisions'.split = [revisions.split EXCEPT ![tx] = asked + 1]
      /\ UNCHANGED <<txProgress, fill, loads, hiddenTx, hiddenLoad, shownEpoch>>
  BY SplitsShape
<1>2. PICK c : c = Call("splits", tx, what)
  OBVIOUS
<1>3. what.parts = parts /\ what.before = ledger.rows[tx]
  OBVIOUS
<1> HIDE DEF what
<1>4. "splits" \notin Hiding
  BY DEF Hiding
<1>5. /\ c.n = asked + 1 /\ c.kind = "splits" /\ c.stage = "sent" /\ c.what = what
      /\ UNCHANGED <<srvTx, srvHidden>>
      /\ i \notin Touched("splits", tx) => Of(i)' = Of(i)
      /\ i \in Touched("splits", tx) => /\ Of(i)' = Of(i) \cup {c} /\ Of(i) = {}
                                        /\ loads = {} /\ hiddenLoad = None /\ i \notin Arriving
  BY <1>1, <1>2, <1>4, DoRow
<1>6. DOMAIN revisions.split = AnyTx
  BY DEF Shape, RevisionsOK
<1>7. CASE i \notin Touched("splits", tx)
  <2>1. i # tx
    BY <1>7 DEF Touched
  <2>2. SameShown(i)
    BY <1>1, <2>1 DEF SameShown, Aside
  <2>3. SameOwned(i)
    BY <1>1, <1>6, <2>1 DEF SameOwned
  <2> QED
    BY <1>1, <1>5, <1>7, <2>2, <2>3, UntouchedKeeps
<1>8. CASE i \in Touched("splits", tx)
  <2>1. i = tx
    BY <1>8 DEF Touched
  <2>2. i \in DOMAIN srvTx /\ i \notin srvHidden /\ ledger.rows[i] = srvTx[i] /\ ~Aside(i)
    BY <1>1, <1>5, <1>8, <2>1, NothingOpen
  <2>3. /\ i \in DOMAIN ledger'.rows /\ ledger'.rows[i] = Parted(srvTx[i], c.what.parts)
        /\ c.what.before = srvTx[i]
    BY <1>1, <1>3, <1>5, <2>1, <2>2
  <2>4. revisions'.split[i] = c.n
    BY <1>1, <1>5, <1>6, <2>1
  <2>5. Out(c, i)'
    BY <1>1, <1>5, <2>2, <2>3, <2>4 DEF Out, Aside, Visible
  <2>6. Core(i)'
    BY <1>4, <1>5, <1>8, <2>5, Lone
  <2>7. Images(i)' /\ Alone(i)'
    BY <1>1, <1>5, <1>8, Clear DEF Arriving
  <2> QED
    BY <2>6, <2>7 DEF RowInv
<1> QED
  BY <1>7, <1>8

LEMMA DeleteKeeps ==
    ASSUME Shape, NEW i \in AnyTx \ doubt', RowInv(i), NEW tx, DeleteTransaction(tx)
    PROVE  RowInv(i)'
<1> DEFINE what == [before |-> ledger.rows[tx]]
<1>1. /\ Do("delete", tx, what) /\ CallOK(Call("delete", tx, what))
      /\ tx \in DOMAIN ledger.rows /\ tx \in AnyTx \ Legs
      /\ ledger'.rows = Without(ledger.rows, {tx})
      /\ UNCHANGED <<txProgress, fill, loads, hiddenTx, hiddenLoad, revisions, shownEpoch>>
  BY DeleteShape
<1>2. PICK c : c = Call("delete", tx, what)
  OBVIOUS
<1>3. what.before = ledger.rows[tx]
  OBVIOUS
<1> HIDE DEF what
<1>4. "delete" \notin Hiding
  BY DEF Hiding
<1>5. /\ c.kind = "delete" /\ c.stage = "sent" /\ c.what = what
      /\ UNCHANGED <<srvTx, srvHidden>>
      /\ i \notin Touched("delete", tx) => Of(i)' = Of(i)
      /\ i \in Touched("delete", tx) => /\ Of(i)' = Of(i) \cup {c} /\ Of(i) = {}
                                        /\ loads = {} /\ hiddenLoad = None /\ i \notin Arriving
  BY <1>1, <1>2, <1>4, DoRow
<1>6. /\ DOMAIN ledger'.rows = DOMAIN ledger.rows \ {tx}
      /\ \A j \in DOMAIN ledger.rows \ {tx} : ledger'.rows[j] = ledger.rows[j]
  <2>1. Good(ledger.rows)
    BY DEF Shape, ShownOK, LedgerOK
  <2> DEFINE h == Without(ledger.rows, {tx})
  <2>2. DOMAIN h = DOMAIN ledger.rows \ {tx} /\ \A j \in DOMAIN ledger.rows \ {tx} : h[j] = ledger.rows[j]
    BY <2>1, WithoutGood
  <2>3. ledger'.rows = h
    BY <1>1
  <2> HIDE DEF h
  <2> QED
    BY <2>2, <2>3
<1>7. CASE i \notin Touched("delete", tx)
  <2>1. i # tx
    BY <1>7 DEF Touched
  <2>2. SameShown(i)
    BY <1>1, <1>6, <2>1 DEF SameShown, Aside
  <2> QED
    BY <1>1, <1>5, <1>7, <2>2, Unmoved, UntouchedKeeps
<1>8. CASE i \in Touched("delete", tx)
  <2>1. i = tx
    BY <1>8 DEF Touched
  <2>2. i \in DOMAIN srvTx /\ i \notin srvHidden /\ ledger.rows[i] = srvTx[i] /\ ~Aside(i)
    BY <1>1, <1>5, <1>8, <2>1, NothingOpen
  <2>3. Out(c, i)'
    BY <1>1, <1>3, <1>5, <1>6, <2>1, <2>2 DEF Out, Aside, Visible
  <2>4. Core(i)'
    BY <1>4, <1>5, <1>8, <2>3, Lone
  <2>5. Images(i)' /\ Alone(i)'
    BY <1>1, <1>5, <1>8, Clear DEF Arriving
  <2> QED
    BY <2>4, <2>5 DEF RowInv
<1> QED
  BY <1>7, <1>8

LEMMA DeleteLegsKeeps ==
    ASSUME Shape, NEW i \in AnyTx \ doubt', RowInv(i), DeleteTransferWithLegs
    PROVE  RowInv(i)'
<1> DEFINE tx == CHOOSE j \in Legs : TRUE
<1>1. /\ Do("deleteLegs", tx, <<>>) /\ CallOK(Call("deleteLegs", tx, <<>>))
      /\ UNCHANGED <<ledger, txProgress, fill, loads, hiddenTx, hiddenLoad, revisions, shownEpoch>>
  BY DeleteLegsShape DEF client
<1> HIDE DEF tx
<1>2. PICK c : c = Call("deleteLegs", tx, <<>>)
  OBVIOUS
<1>3. "deleteLegs" \notin Hiding
  BY DEF Hiding
<1>4. /\ c.kind = "deleteLegs" /\ c.stage = "sent"
      /\ UNCHANGED <<srvTx, srvHidden>>
      /\ i \notin Touched("deleteLegs", tx) => Of(i)' = Of(i)
      /\ i \in Touched("deleteLegs", tx) => /\ Of(i)' = Of(i) \cup {c} /\ Of(i) = {}
                                            /\ loads = {} /\ hiddenLoad = None /\ i \notin Arriving
  BY <1>1, <1>2, <1>3, DoRow
<1>5. CASE i \notin Touched("deleteLegs", tx)
  BY <1>1, <1>4, <1>5, Unmoved, UntouchedKeeps
<1>6. CASE i \in Touched("deleteLegs", tx)
  <2>1. i \in Legs
    BY <1>6 DEF Touched
  <2>2. ~Aside(i)
    BY <2>1 DEF Shape, ShownOK, Loose, Aside
  <2>3. AsSaved(ledger.rows, i)
    BY <1>4, <1>6 DEF RowInv, Core, Rested
  <2>4. Out(c, i)'
    BY <1>1, <1>4, <2>2, <2>3 DEF Out, Aside, AsSaved, Visible
  <2>5. Core(i)'
    BY <1>3, <1>4, <1>6, <2>4, Lone
  <2>6. Images(i)' /\ Alone(i)'
    BY <1>1, <1>4, <1>6, Clear DEF Arriving
  <2> QED
    BY <2>5, <2>6 DEF RowInv
<1> QED
  BY <1>5, <1>6

\* One more hide or unhide at the end of a chain.
LEMMA NextInLine ==
    ASSUME Shape, NEW i, RowInv(i), i \in DOMAIN srvTx, NEW c,
           c.kind \in Hiding, c.stage = "sent", c.epoch = shownEpoch, c.what.before = srvTx[i],
           c.n \in Nat, \A d \in calls : d.n \in Nat /\ d.n < c.n,
           Of(i)' = Of(i) \cup {c}, UNCHANGED <<srvTx, srvHidden, shownEpoch>>,
           revisions'.hidden[i] = c.n,
           Of(i) # {} => \E e \in Of(i) : Ends(e, i) /\ e.kind # c.kind,
           \A d \in Of(i) : d.kind \in Hiding,
           Of(i) = {} => (i \in srvHidden <=> c.kind = "unhide"),
           Ends(c, i)'
    PROVE  Core(i)'
<1>1. Of(i) \subseteq calls /\ c \in Of(i)' /\ c \notin calls
  BY DEF Of
<1>2. \A d \in Of(i)' : d.kind \in Hiding
  OBVIOUS
<1>3. Rested(i)' /\ OneOrHiding(i)'
  BY <1>1, <1>2 DEF Rested, OneOrHiding
<1>4. \A d \in Of(i)' : Out(d, i)'
  BY <1>2 DEF Out, Hiding
<1>5. Link(c, i)'
  <2>1. \A d \in Of(i)' : ~(c.n < d.n)
    BY <1>1
  <2>2. First(c, i)' => Of(i) = {}
    BY <1>1 DEF First
  <2>3. First(c, i)' => (i \in srvHidden' <=> (c.stage = "accepted" <=> c.kind = "hide"))
    BY <2>2 DEF Hiding
  <2> QED
    BY <2>1, <2>3 DEF Link
<1>6. ASSUME NEW d \in Of(i) PROVE Link(d, i)'
  <2>1. Link(d, i) /\ \A e \in Of(i) : Link(e, i)
    BY <1>6 DEF RowInv, Core, Chained
  <2>2. First(d, i)' <=> First(d, i)
    BY <1>1 DEF First
  <2>3. d.n < c.n /\ d.n \in Nat
    BY <1>1
  <2>4. ASSUME NEW e \in Of(i)', d.n < e.n, d.kind = e.kind
        PROVE  \E f \in Of(i)' : d.n < f.n /\ f.n < e.n
    <3>1. CASE e \in Of(i)
      BY <2>1, <2>4, <3>1 DEF Link
    <3>2. CASE e = c
      <4>1. PICK f \in Of(i) : Ends(f, i) /\ f.kind # c.kind
        BY <1>6
      <4>2. d.n <= f.n
        BY <2>1, <4>1 DEF Link, Ends
      <4>3. d.n # f.n
        BY <1>1, <2>4, <3>2, <4>1 DEF Shape, CallsOK
      <4>4. f.n \in Nat /\ f.n < c.n
        BY <1>1
      <4> QED
        BY <2>3, <3>2, <4>2, <4>3, <4>4
    <3> QED
      BY <3>1, <3>2
  <2> QED
    BY <2>1, <2>2, <2>3, <2>4 DEF Link
<1>7. Chained(i)'
  BY <1>1, <1>5, <1>6 DEF Chained
<1> QED
  BY <1>3, <1>4, <1>7 DEF Core

\* The last of the chain, when there is one.
LEMMA ChainEnd ==
    ASSUME NEW i, RowInv(i), NEW d \in Of(i), d.kind \in Hiding
    PROVE  /\ i \in DOMAIN srvTx /\ \A c \in Of(i) : Link(c, i)
           /\ \E e \in Of(i) : Ends(e, i)
BY DEF RowInv, Core, Chained

LEMMA HideKeeps ==
    ASSUME Shape, NEW i \in AnyTx \ doubt', RowInv(i), NEW tx, HideTx(tx)
    PROVE  RowInv(i)'
<1> DEFINE what == [before |-> ledger.rows[tx]]
           only == Only(ledger.rows, {tx})
<1>1. /\ Do("hide", tx, what) /\ CallOK(Call("hide", tx, what))
      /\ tx \in DOMAIN ledger.rows /\ tx \in AnyTx \ Legs
      /\ ledger'.rows = Without(ledger.rows, {tx})
      /\ hiddenTx' = MergeTransactions(SetAside, only)
      /\ Good(SetAside) /\ Good(only)
      /\ revisions'.field = revisions.field /\ revisions'.split = revisions.split
      /\ revisions'.hidden = [revisions.hidden EXCEPT ![tx] = asked + 1]
      /\ hiddenLoad' = None
      /\ UNCHANGED <<txProgress, fill, loads, shownEpoch>>
  BY HideShape
<1>2. PICK c : c = Call("hide", tx, what)
  OBVIOUS
<1>3. what.before = ledger.rows[tx]
  OBVIOUS
<1> HIDE DEF what
<1>4. /\ c.n = asked + 1 /\ c.kind = "hide" /\ c.epoch = shownEpoch /\ c.stage = "sent" /\ c.what = what
      /\ \A d \in calls : d.n \in Nat /\ d.n < c.n
      /\ UNCHANGED <<srvTx, srvHidden>> /\ asked \in Nat
      /\ i \notin Touched("hide", tx) => Of(i)' = Of(i)
      /\ i \in Touched("hide", tx) =>
            /\ Of(i)' = Of(i) \cup {c}
            /\ loads = {} /\ hiddenLoad = None /\ i \notin Arriving
            /\ \A d \in Of(i) : d.kind \in Hiding
  BY <1>1, <1>2, DoRow
<1>5. DOMAIN revisions.hidden = AnyTx
  BY DEF Shape, RevisionsOK
<1>6. /\ DOMAIN ledger'.rows = DOMAIN ledger.rows \ {tx}
      /\ \A j \in DOMAIN ledger.rows \ {tx} : ledger'.rows[j] = ledger.rows[j]
  <2>1. Good(ledger.rows)
    BY DEF Shape, ShownOK, LedgerOK
  <2>2. /\ DOMAIN Without(ledger.rows, {tx}) = DOMAIN ledger.rows \ {tx}
        /\ \A j \in DOMAIN ledger.rows \ {tx} : Without(ledger.rows, {tx})[j] = ledger.rows[j]
    BY <2>1, WithoutGood
  <2> QED
    BY <1>1, <2>2
<1>7. DOMAIN only = {tx} /\ only[tx] = ledger.rows[tx]
  BY <1>1, OnlyGood DEF Shape, ShownOK, LedgerOK
<1> HIDE DEF only
<1>8. /\ DOMAIN hiddenTx' = DOMAIN SetAside \cup {tx} /\ Good(hiddenTx')
      /\ \A j \in DOMAIN SetAside : hiddenTx'[j] = SetAside[j]
      /\ tx \notin DOMAIN SetAside => hiddenTx'[tx] = ledger.rows[tx]
  <2>1. Good(SetAside) /\ Good(only)
    BY <1>1
  <2>2. /\ Good(MergeTransactions(SetAside, only))
        /\ DOMAIN MergeTransactions(SetAside, only) = DOMAIN SetAside \cup DOMAIN only
        /\ \A j \in DOMAIN SetAside : MergeTransactions(SetAside, only)[j] = SetAside[j]
        /\ \A j \in DOMAIN only \ DOMAIN SetAside : MergeTransactions(SetAside, only)[j] = only[j]
    BY <2>1, MergeGood
  <2> QED
    BY <1>1, <1>7, <2>2
<1>9. hiddenTx' # None
  BY <1>8, TablesAreNotNone
<1>10. /\ Aside(i)' <=> Aside(i) \/ i = tx
       /\ Aside(i) => hiddenTx'[i] = hiddenTx[i]
       /\ ~Aside(i) /\ i = tx => hiddenTx'[i] = ledger.rows[tx]
  BY <1>8, <1>9, EmptyGood DEF Aside, SetAside
<1>11. CASE i \notin Touched("hide", tx)
  <2>1. i # tx
    BY <1>11 DEF Touched
  <2>2. SameShown(i)
    BY <1>1, <1>6, <1>10, <2>1 DEF SameShown
  <2>3. SameOwned(i)
    BY <1>1, <1>5, <2>1 DEF SameOwned
  <2> QED
    BY <1>1, <1>4, <1>11, <2>2, <2>3, UntouchedKeeps
<1>12. CASE i \in Touched("hide", tx)
  <2>1. i = tx
    BY <1>12 DEF Touched
  <2>2. ASSUME NEW d \in Of(i) PROVE i \in DOMAIN srvTx /\ \E e \in Of(i) : Ends(e, i)
    BY <1>4, <1>12, ChainEnd
  <2>3. ASSUME NEW e \in Of(i), Ends(e, i)
        PROVE  e.kind = "unhide" /\ ledger.rows[i] = srvTx[i] /\ ~Aside(i)
    BY <1>1, <1>4, <1>12, <2>1, <2>3 DEF Ends, Hiding
  <2>4. i \in DOMAIN srvTx /\ ledger.rows[i] = srvTx[i] /\ ~Aside(i)
    <3>1. CASE Of(i) = {}
      BY <1>1, <2>1, <3>1, NothingOpen
    <3>2. CASE Of(i) # {}
      BY <2>2, <2>3, <3>2
    <3> QED
      BY <3>1, <3>2
  <2>5. Of(i) = {} => i \notin srvHidden
    BY <1>1, <2>1, NothingOpen
  <2>6. Of(i) # {} => \E e \in Of(i) : Ends(e, i) /\ e.kind # c.kind
    BY <1>4, <2>2, <2>3
  <2>7. revisions'.hidden[i] = c.n
    BY <1>1, <1>4, <1>5, <2>1
  <2>8. Ends(c, i)'
    BY <1>4, <1>6, <1>10, <2>1, <2>4, <2>7 DEF Ends
  <2>9. c.what.before = srvTx[i] /\ c.n \in Nat /\ c.kind \in Hiding /\ c.kind # "unhide"
    BY <1>3, <1>4, <2>1, <2>4 DEF Hiding
  <2>10. Core(i)'
    BY <1>1, <1>4, <1>12, <2>4, <2>5, <2>6, <2>7, <2>8, <2>9, NextInLine
  <2>11. Images(i)' /\ Alone(i)'
    BY <1>1, <1>4, <1>12, Clear DEF Arriving
  <2> QED
    BY <2>10, <2>11 DEF RowInv
<1> QED
  BY <1>11, <1>12

LEMMA UnhideKeeps ==
    ASSUME Shape, NEW i \in AnyTx \ doubt', RowInv(i), NEW tx, UnhideTx(tx)
    PROVE  RowInv(i)'
<1> DEFINE what == [before |-> hiddenTx[tx]]
           only == Only(hiddenTx, {tx})
<1>1. /\ Do("unhide", tx, what) /\ CallOK(Call("unhide", tx, what))
      /\ hiddenTx # None /\ tx \in DOMAIN hiddenTx /\ tx \in AnyTx \ Legs
      /\ Good(hiddenTx) /\ Good(only)
      /\ ledger'.rows = MergeTransactions(ledger.rows, only)
      /\ hiddenTx' = Without(hiddenTx, {tx})
      /\ revisions'.field = revisions.field /\ revisions'.split = revisions.split
      /\ revisions'.hidden = [revisions.hidden EXCEPT ![tx] = asked + 1]
      /\ hiddenLoad' = None
      /\ UNCHANGED <<txProgress, fill, loads, shownEpoch>>
  BY UnhideShape
<1>2. PICK c : c = Call("unhide", tx, what)
  OBVIOUS
<1>3. what.before = hiddenTx[tx]
  OBVIOUS
<1> HIDE DEF what
<1>4. /\ c.n = asked + 1 /\ c.kind = "unhide" /\ c.epoch = shownEpoch /\ c.stage = "sent"
      /\ c.what = what
      /\ \A d \in calls : d.n \in Nat /\ d.n < c.n
      /\ UNCHANGED <<srvTx, srvHidden>> /\ asked \in Nat
      /\ i \notin Touched("unhide", tx) => Of(i)' = Of(i)
      /\ i \in Touched("unhide", tx) =>
            /\ Of(i)' = Of(i) \cup {c}
            /\ loads = {} /\ hiddenLoad = None /\ i \notin Arriving
            /\ \A d \in Of(i) : d.kind \in Hiding
  BY <1>1, <1>2, DoRow
<1>5. DOMAIN revisions.hidden = AnyTx
  BY DEF Shape, RevisionsOK
<1>6. /\ DOMAIN hiddenTx' = DOMAIN hiddenTx \ {tx} /\ Good(hiddenTx')
      /\ \A j \in DOMAIN hiddenTx \ {tx} : hiddenTx'[j] = hiddenTx[j]
  <2>1. Good(hiddenTx)
    BY <1>1
  <2>2. /\ Good(Without(hiddenTx, {tx}))
        /\ DOMAIN Without(hiddenTx, {tx}) = DOMAIN hiddenTx \ {tx}
        /\ \A j \in DOMAIN hiddenTx \ {tx} : Without(hiddenTx, {tx})[j] = hiddenTx[j]
    BY <2>1, WithoutGood
  <2> QED
    BY <1>1, <2>2
<1>7. DOMAIN only = {tx} /\ only[tx] = hiddenTx[tx]
  BY <1>1, OnlyGood
<1> HIDE DEF only
<1>8. /\ DOMAIN ledger'.rows = DOMAIN ledger.rows \cup {tx}
      /\ \A j \in DOMAIN ledger.rows : ledger'.rows[j] = ledger.rows[j]
      /\ tx \notin DOMAIN ledger.rows => ledger'.rows[tx] = hiddenTx[tx]
  <2>1. Good(ledger.rows)
    BY DEF Shape, ShownOK, LedgerOK
  <2>2. Good(only)
    BY <1>1
  <2>3. /\ DOMAIN MergeTransactions(ledger.rows, only) = DOMAIN ledger.rows \cup DOMAIN only
        /\ \A j \in DOMAIN ledger.rows : MergeTransactions(ledger.rows, only)[j] = ledger.rows[j]
        /\ \A j \in DOMAIN only \ DOMAIN ledger.rows : MergeTransactions(ledger.rows, only)[j] = only[j]
    BY <2>1, <2>2, MergeGood
  <2> QED
    BY <1>1, <1>7, <2>3
<1>9. hiddenTx' # None
  BY <1>6, TablesAreNotNone
<1>10. /\ Aside(i)' <=> Aside(i) /\ i # tx
       /\ Aside(i) /\ i # tx => hiddenTx'[i] = hiddenTx[i]
  BY <1>1, <1>6, <1>9 DEF Aside
<1>11. CASE i \notin Touched("unhide", tx)
  <2>1. i # tx
    BY <1>11 DEF Touched
  <2>2. SameShown(i)
    BY <1>1, <1>8, <1>10, <2>1 DEF SameShown
  <2>3. SameOwned(i)
    BY <1>1, <1>5, <2>1 DEF SameOwned
  <2> QED
    BY <1>1, <1>4, <1>11, <2>2, <2>3, UntouchedKeeps
<1>12. CASE i \in Touched("unhide", tx)
  <2>1. i = tx /\ Aside(i)
    BY <1>1, <1>12 DEF Touched, Aside
  <2>2. ASSUME NEW d \in Of(i) PROVE i \in DOMAIN srvTx /\ \E e \in Of(i) : Ends(e, i)
    BY <1>4, <1>12, ChainEnd
  <2>3. ASSUME NEW e \in Of(i), Ends(e, i)
        PROVE  e.kind = "hide" /\ hiddenTx[i] = srvTx[i] /\ i \notin DOMAIN ledger.rows
    BY <1>4, <1>12, <2>1, <2>3 DEF Ends, Hiding
  <2>4. i \in DOMAIN srvTx /\ hiddenTx[i] = srvTx[i] /\ i \notin DOMAIN ledger.rows
    <3>1. CASE Of(i) = {}
      BY <2>1, <3>1, NothingOpen
    <3>2. CASE Of(i) # {}
      BY <2>2, <2>3, <3>2
    <3> QED
      BY <3>1, <3>2
  <2>5. Of(i) = {} => i \in srvHidden
    BY <2>1, NothingOpen
  <2>6. Of(i) # {} => \E e \in Of(i) : Ends(e, i) /\ e.kind # c.kind
    BY <1>4, <2>2, <2>3
  <2>7. revisions'.hidden[i] = c.n
    BY <1>1, <1>4, <1>5, <2>1
  <2>8. Ends(c, i)'
    BY <1>4, <1>8, <1>10, <2>1, <2>4, <2>7 DEF Ends
  <2>9. c.what.before = srvTx[i] /\ c.n \in Nat /\ c.kind \in Hiding /\ c.kind = "unhide"
    BY <1>3, <1>4, <2>1, <2>4 DEF Hiding
  <2>10. Core(i)'
    BY <1>1, <1>4, <1>12, <2>4, <2>5, <2>6, <2>7, <2>8, <2>9, NextInLine
  <2>11. Images(i)' /\ Alone(i)'
    BY <1>1, <1>4, <1>12, Clear DEF Arriving
  <2> QED
    BY <2>10, <2>11 DEF RowInv
<1> QED
  BY <1>11, <1>12

-----------------------------------------------------------------------------
(* The server's answers keep what is known of a row.                       *)

\* A row the step is not about.
LEMMA ElsewhereKeeps ==
    ASSUME Shape, NEW i, RowInv(i), Of(i)' = Of(i), SameSaved(i), SameShown(i), SameOwned(i),
           Refilled, shownEpoch' = shownEpoch, hiddenLoad' \in {hiddenLoad, None}
    PROVE  RowInv(i)'
<1>1. Images(i)' /\ Alone(i)'
  BY ImagesKept, AloneKept DEF RowInv
<1>2. Core(i)'
  BY CoreSame DEF RowInv
<1> QED
  BY <1>1, <1>2 DEF RowInv

LEMMA Decided ==
    ASSUME Shape, NEW c \in calls, NEW stage \in {"accepted", "refused"}, CallAt(c, stage), NEW i,
           NEW d, d = [c EXCEPT !.stage = stage]
    PROVE  /\ CallOK(c) /\ d.n = c.n /\ d.kind = c.kind /\ d.tx = c.tx /\ d.epoch = c.epoch
           /\ d.stage = stage /\ d.what = c.what
           /\ i \notin Touched(c.kind, c.tx) => Of(i)' = Of(i)
           /\ i \in Touched(c.kind, c.tx) => c \in Of(i) /\ Of(i)' = (Of(i) \ {c}) \cup {d}
<1>1. CallOK(c)
  BY DEF Shape, CallsOK
<1>2. /\ d.n = c.n /\ d.kind = c.kind /\ d.tx = c.tx /\ d.epoch = c.epoch
      /\ d.stage = stage /\ d.what = c.what
  BY <1>1, Restaged
<1>3. calls' = (calls \ {c}) \cup {d}
  BY DEF CallAt
<1> QED
  BY <1>1, <1>2, <1>3 DEF Of

\* The server decides the first of a chain.
LEMMA SendableFirst ==
    ASSUME Shape, NEW i, RowInv(i), NEW c \in Of(i), c.kind \in Hiding, Sendable(c)
    PROVE  First(c, i) /\ Link(c, i)
<1>1. \A e \in Of(i) : e.kind \in Hiding /\ e.n \in Nat /\ e \in calls
  BY DEF RowInv, Core, OneOrHiding, Of, Shape, CallsOK, CallOK
<1>2. \A e \in Of(i) : e.tx = i
  BY <1>1 DEF Of, Touched, Hiding
<1>3. \A e \in Of(i) : ~(e.n < c.n)
  BY <1>1, <1>2 DEF Sendable, Hiding
<1>4. First(c, i)
  BY <1>1, <1>3 DEF First
<1> QED
  BY <1>4 DEF RowInv, Core, Chained

LEMMA ChainDecided ==
    ASSUME Shape, NEW i, RowInv(i), NEW c \in Of(i), c.kind \in Hiding, Sendable(c), NEW d,
           d.n = c.n, d.kind = c.kind, d.epoch = c.epoch, d.what = c.what,
           d.stage \in {"accepted", "refused"},
           Of(i)' = (Of(i) \ {c}) \cup {d}, UNCHANGED <<srvTx, client>>,
           i \in srvHidden' <=> (d.stage = "accepted" <=> d.kind = "hide")
    PROVE  Core(i)'
<1>1. Of(i) \subseteq calls /\ \A e \in Of(i) : e.n \in Nat
  BY DEF Of, Shape, CallsOK, CallOK
<1>2. /\ \A e \in Of(i) : e.kind \in Hiding
      /\ i \in DOMAIN srvTx /\ \A e \in Of(i) : Link(e, i)
  BY DEF RowInv, Core, OneOrHiding, Chained
<1>4. First(c, i)
  BY SendableFirst
<1>5. \A e, f \in Of(i) : e.n = f.n => e = f
  BY <1>1 DEF Shape, CallsOK
<1>6. ledger' = ledger /\ hiddenTx' = hiddenTx /\ revisions' = revisions /\ shownEpoch' = shownEpoch
  BY DEF client
<1>7. First(d, i)'
  BY <1>4 DEF First
<1>8. \A e \in Of(i) \ {c} : First(e, i)' <=> First(e, i)
  BY DEF First
<1>9. \A e \in Of(i) \ {c} : ~First(e, i)
  BY <1>1, <1>4, <1>5 DEF First
<1>10. Rested(i)' /\ OneOrHiding(i)' /\ \A e \in Of(i)' : Out(e, i)'
  BY <1>2 DEF Rested, OneOrHiding, Out, Hiding
<1>11. ASSUME NEW e \in Of(i), NEW g \in Of(i), e.n < g.n, e.kind = g.kind
       PROVE  \E f \in Of(i)' : e.n < f.n /\ f.n < g.n
  <2>1. PICK f \in Of(i) : e.n < f.n /\ f.n < g.n
    BY <1>2, <1>11 DEF Link
  <2> QED
    BY <2>1
<1>12. Link(d, i)'
  <2>1. \A g \in Of(i)' : d.n < g.n /\ d.kind = g.kind => \E f \in Of(i)' : d.n < f.n /\ f.n < g.n
    <3> SUFFICES ASSUME NEW g \in Of(i)', d.n < g.n, d.kind = g.kind
                 PROVE  \E f \in Of(i)' : d.n < f.n /\ f.n < g.n
      OBVIOUS
    <3>1. g \in Of(i)
      BY <1>1
    <3> QED
      BY <1>11, <3>1
  <2>2. Link(c, i)
    BY <1>2
  <2> QED
    BY <1>6, <1>7, <2>1, <2>2 DEF Link
<1>13. ASSUME NEW e \in Of(i) \ {c} PROVE Link(e, i)'
  <2>1. \A g \in Of(i)' : e.n < g.n /\ e.kind = g.kind => \E f \in Of(i)' : e.n < f.n /\ f.n < g.n
    <3> SUFFICES ASSUME NEW g \in Of(i)', e.n < g.n, e.kind = g.kind
                 PROVE  \E f \in Of(i)' : e.n < f.n /\ f.n < g.n
      OBVIOUS
    <3>1. CASE g = d
      BY <1>11, <3>1
    <3>2. CASE g \in Of(i)
      BY <1>11, <3>2
    <3> QED
      BY <3>1, <3>2
  <2>2. Link(e, i)
    BY <1>2
  <2> QED
    BY <1>6, <1>8, <1>9, <2>1, <2>2 DEF Link
<1>14. \E e \in Of(i)' : Ends(e, i)'
  <2>1. PICK e \in Of(i) : Ends(e, i)
    BY DEF RowInv, Core, Chained
  <2>2. CASE e = c
    BY <1>6, <2>1, <2>2 DEF Ends, Aside
  <2>3. CASE e # c
    BY <1>6, <2>1, <2>3 DEF Ends, Aside
  <2> QED
    BY <2>2, <2>3
<1>15. Chained(i)'
  BY <1>2, <1>12, <1>13, <1>14 DEF Chained
<1> QED
  BY <1>10, <1>15 DEF Core

\* Whatever the server decides, the row it is about stays alone.
LEMMA DecidedAlone ==
    ASSUME NEW i, RowInv(i), Of(i) # {}, UNCHANGED client
    PROVE  Images(i)' /\ Alone(i)'
<1>1. loads = {} /\ hiddenLoad = None /\ i \notin Arriving
  BY DEF RowInv, Alone
<1>2. loads' = loads /\ hiddenLoad' = hiddenLoad /\ fill' = fill
  BY DEF client
<1> QED
  BY <1>1, <1>2, Clear DEF Arriving

LEMMA ClientStill ==
    ASSUME Shape, NEW i, UNCHANGED client
    PROVE  /\ SameShown(i) /\ SameOwned(i) /\ Refilled /\ shownEpoch' = shownEpoch
           /\ hiddenLoad' = hiddenLoad
<1>1. UNCHANGED <<ledger, txProgress, fill, loads, hiddenTx, hiddenLoad, revisions, shownEpoch>>
  BY DEF client
<1>2. Refilled
  BY <1>1, NotRefilled
<1> QED
  BY <1>1, <1>2 DEF SameShown, SameOwned, Aside

LEMMA RefuseKeeps ==
    ASSUME Shape, NEW i \in AnyTx \ doubt', RowInv(i), Refuse
    PROVE  RowInv(i)'
<1>1. PICK c \in calls : Sendable(c) /\ CallAt(c, "refused")
  BY DEF Refuse
<1>2. UNCHANGED client /\ UNCHANGED <<srvTx, srvHidden>>
  BY DEF Refuse, server
<1>3. PICK d : d = [c EXCEPT !.stage = "refused"]
  OBVIOUS
<1>4. /\ CallOK(c) /\ d.n = c.n /\ d.kind = c.kind /\ d.tx = c.tx /\ d.epoch = c.epoch
      /\ d.stage = "refused" /\ d.what = c.what
      /\ i \notin Touched(c.kind, c.tx) => Of(i)' = Of(i)
      /\ i \in Touched(c.kind, c.tx) => c \in Of(i) /\ Of(i)' = (Of(i) \ {c}) \cup {d}
  BY <1>1, <1>3, Decided
<1>5. CASE i \notin Touched(c.kind, c.tx)
  <2>1. SameSaved(i)
    BY <1>2 DEF SameSaved
  <2> QED
    BY <1>2, <1>4, <1>5, <2>1, ClientStill, ElsewhereKeeps
<1>6. CASE i \in Touched(c.kind, c.tx)
  <2>1. Images(i)' /\ Alone(i)'
    BY <1>2, <1>4, <1>6, DecidedAlone
  <2>2. c.stage = "sent" /\ Core(i) /\ Out(c, i)
    BY <1>1, <1>4, <1>6 DEF Sendable, RowInv, Core
  <2>3. CASE c.kind \in Hiding
    <3>2. First(c, i) /\ Link(c, i)
      BY <1>1, <1>4, <1>6, <2>3, SendableFirst
    <3>3. i \in srvHidden' <=> (d.stage = "accepted" <=> d.kind = "hide")
      BY <1>2, <1>4, <2>2, <3>2 DEF Link
    <3>4. Core(i)'
      BY <1>1, <1>2, <1>4, <1>6, <2>3, <3>3, ChainDecided
    <3> QED
      BY <2>1, <3>4 DEF RowInv
  <2>4. CASE c.kind \notin Hiding
    <3>1. Of(i)' = {d}
      BY <1>4, <1>6, <2>2, <2>4 DEF Core, OneOrHiding
    <3>2. Out(d, i)'
      BY <1>2, <1>4, <2>2 DEF Out, client, Visible, Aside, AsSaved
    <3> QED
      BY <1>4, <2>1, <2>4, <3>1, <3>2, Lone DEF RowInv
  <2> QED
    BY <2>3, <2>4
<1> QED
  BY <1>5, <1>6

LEMMA AcceptedElsewhere ==
    ASSUME Shape, NEW c \in calls, c.kind # "create" => c.tx \in DOMAIN srvTx, Accepted(c),
           NEW i, i \notin Touched(c.kind, c.tx)
    PROVE  SameSaved(i)
<1>0. /\ CallOK(c) /\ c.kind \in {"create", "patch", "splits", "delete", "deleteLegs"} \cup Hiding
      /\ Good(srvTx)
  BY DEF Shape, CallsOK, CallOK, ServerOK
<1>1. CASE c.kind = "create"
  <2>1. c.what.row \in RowOf(c.tx) /\ c.tx \in AnyTx /\ i # c.tx
    BY <1>0, <1>1 DEF CallOK, Says, Touched
  <2> DEFINE one == One(c.tx, c.what.row)
  <2>2. Good(one) /\ DOMAIN one = {c.tx}
    BY <2>1, OneGood
  <2>3. srvTx' = MergeTransactions(srvTx, one) /\ srvHidden' = srvHidden
    BY <1>1, AcceptedGives
  <2> HIDE DEF one
  <2>4. /\ DOMAIN MergeTransactions(srvTx, one) = DOMAIN srvTx \cup DOMAIN one
        /\ \A j \in DOMAIN srvTx : MergeTransactions(srvTx, one)[j] = srvTx[j]
    BY <1>0, <2>2, MergeGood
  <2> QED
    BY <2>1, <2>2, <2>3, <2>4 DEF SameSaved
<1>2. CASE c.kind \in {"patch", "splits"}
  <2>1. i # c.tx
    BY <1>2 DEF Touched
  <2>2. srvHidden' = srvHidden /\ \E row : srvTx' = [srvTx EXCEPT ![c.tx] = row]
    BY <1>2, AcceptedGives
  <2> QED
    BY <2>1, <2>2 DEF SameSaved
<1>3. CASE c.kind \in {"delete", "deleteLegs"}
  <2> DEFINE gone == Touched(c.kind, c.tx)
  <2>1. srvTx' = Without(srvTx, gone) /\ srvHidden' = srvHidden \ gone
    BY <1>3, AcceptedGives DEF Touched
  <2>2. i \notin gone
    OBVIOUS
  <2> HIDE DEF gone
  <2>3. /\ DOMAIN Without(srvTx, gone) = DOMAIN srvTx \ gone
        /\ \A j \in DOMAIN srvTx \ gone : Without(srvTx, gone)[j] = srvTx[j]
    BY <1>0, WithoutGood
  <2> QED
    BY <2>1, <2>2, <2>3 DEF SameSaved
<1>4. CASE c.kind \in Hiding
  <2>1. i # c.tx
    BY <1>4 DEF Touched, Hiding
  <2>2. srvTx' = srvTx /\ srvHidden' \in {srvHidden \cup {c.tx}, srvHidden \ {c.tx}}
    BY <1>4, AcceptedGives DEF Hiding
  <2> QED
    BY <2>1, <2>2 DEF SameSaved
<1> QED
  BY <1>0, <1>1, <1>2, <1>3, <1>4

\* What is known of a row once its one request, which is no hide, is accepted.
LEMMA AcceptedOut ==
    ASSUME Shape, NEW c \in calls, c.kind # "create" => c.tx \in DOMAIN srvTx, Accepted(c),
           NEW i \in Touched(c.kind, c.tx), RowInv(i), c.kind \notin Hiding, c.stage = "sent", UNCHANGED client,
           NEW d, d.n = c.n, d.kind = c.kind, d.epoch = c.epoch, d.stage = "accepted", d.what = c.what
    PROVE  Out(d, i)'
<1>0. /\ CallOK(c) /\ c.kind \in {"create", "patch", "splits", "delete", "deleteLegs"}
      /\ Good(srvTx) /\ srvHidden \subseteq DOMAIN srvTx
  BY DEF Shape, CallsOK, CallOK, ServerOK
<1>1. Out(c, i)
  BY DEF RowInv, Core, Of
<1>2. UNCHANGED <<ledger, hiddenTx, revisions, shownEpoch>>
  BY DEF client
<1>3. CASE c.kind = "create"
  <2>1. c.what.row \in RowOf(c.tx) /\ c.tx \in AnyTx /\ i = c.tx
    BY <1>0, <1>3 DEF CallOK, Says, Touched
  <2> DEFINE one == One(c.tx, c.what.row)
  <2>2. Good(one) /\ DOMAIN one = {c.tx} /\ one[c.tx] = c.what.row
    BY <2>1, OneGood
  <2>3. srvTx' = MergeTransactions(srvTx, one) /\ srvHidden' = srvHidden
    BY <1>3, AcceptedGives
  <2> HIDE DEF one
  <2>4. /\ DOMAIN MergeTransactions(srvTx, one) = DOMAIN srvTx \cup DOMAIN one
        /\ \A j \in DOMAIN one \ DOMAIN srvTx : MergeTransactions(srvTx, one)[j] = one[j]
    BY <1>0, <2>2, MergeGood, ZenonT(60)
  <2>5. i \notin DOMAIN srvTx /\ i \notin DOMAIN ledger.rows /\ ~Aside(i)
    BY <1>1, <1>3 DEF Out
  <2>6. i \in DOMAIN srvTx' /\ srvTx'[i] = c.what.row /\ i \notin srvHidden'
    BY <1>0, <2>1, <2>2, <2>3, <2>4, <2>5
  <2> QED
    BY <1>2, <1>3, <2>5, <2>6 DEF Out, Visible, Aside
<1>4. CASE c.kind = "patch"
  <2>1. i = c.tx
    BY <1>4 DEF Touched
  <2> DEFINE row == [srvTx[i] EXCEPT ![c.what.field] = c.what.value]
  <2>2. srvTx' = [srvTx EXCEPT ![i] = row] /\ srvHidden' = srvHidden
    BY <1>4, <2>1, AcceptedGives
  <2>3. /\ i \in DOMAIN ledger.rows /\ i \in Visible /\ ~Aside(i) /\ ledger.rows[i] = row
        /\ revisions.field[<<i, c.what.field>>] = c.n /\ c.epoch = shownEpoch
    BY <1>1, <1>4 DEF Out
  <2> HIDE DEF row
  <2> QED
    BY <1>2, <1>4, <2>2, <2>3 DEF Out, Visible, Aside
<1>5. CASE c.kind = "splits"
  <2>1. i = c.tx
    BY <1>5 DEF Touched
  <2> DEFINE row == Parted(srvTx[i], c.what.parts)
  <2>2. srvTx' = [srvTx EXCEPT ![i] = row] /\ srvHidden' = srvHidden
    BY <1>5, <2>1, AcceptedGives
  <2>3. /\ i \in DOMAIN ledger.rows /\ i \in Visible /\ ~Aside(i) /\ ledger.rows[i] = row
        /\ revisions.split[i] = c.n
    BY <1>1, <1>5 DEF Out
  <2>4. Parted(row, c.what.parts) = row
    <3>1. srvTx[i] \in RowOf(i) /\ c.what.parts \in {0, 1}
      BY <1>0, <1>5, <2>3, GoodRows DEF Visible, CallOK, Says
    <3> QED
      BY <3>1, PartsWritten
  <2> HIDE DEF row
  <2> QED
    BY <1>2, <1>5, <2>2, <2>3, <2>4 DEF Out, Visible, Aside
<1>6. CASE c.kind \in {"delete", "deleteLegs"}
  <2> DEFINE gone == Touched(c.kind, c.tx)
  <2>1. srvTx' = Without(srvTx, gone) /\ i \in gone
    BY <1>6, AcceptedGives DEF Touched
  <2> HIDE DEF gone
  <2>2. DOMAIN Without(srvTx, gone) = DOMAIN srvTx \ gone
    BY <1>0, WithoutGood
  <2>3. i \notin DOMAIN srvTx'
    BY <2>1, <2>2
  <2> QED
    BY <1>1, <1>2, <1>6, <2>3 DEF Out, Aside
<1> QED
  BY <1>0, <1>3, <1>4, <1>5, <1>6

LEMMA AcceptKeeps ==
    ASSUME Shape, NEW i \in AnyTx \ doubt', RowInv(i), ServerAccepts
    PROVE  RowInv(i)'
<1>1. PICK c \in calls : /\ Sendable(c) /\ (c.kind # "create" => c.tx \in DOMAIN srvTx)
                         /\ Accepted(c) /\ CallAt(c, "accepted")
  BY DEF ServerAccepts
<1>2. UNCHANGED client
  BY DEF ServerAccepts
<1>3. PICK d : d = [c EXCEPT !.stage = "accepted"]
  OBVIOUS
<1>4. /\ CallOK(c) /\ d.n = c.n /\ d.kind = c.kind /\ d.tx = c.tx /\ d.epoch = c.epoch
      /\ d.stage = "accepted" /\ d.what = c.what
      /\ i \notin Touched(c.kind, c.tx) => Of(i)' = Of(i)
      /\ i \in Touched(c.kind, c.tx) => c \in Of(i) /\ Of(i)' = (Of(i) \ {c}) \cup {d}
  BY <1>1, <1>3, Decided
<1>5. CASE i \notin Touched(c.kind, c.tx)
  <2>1. SameSaved(i)
    BY <1>1, <1>5, AcceptedElsewhere
  <2> QED
    BY <1>2, <1>4, <1>5, <2>1, ClientStill, ElsewhereKeeps
<1>6. CASE i \in Touched(c.kind, c.tx)
  <2>1. Images(i)' /\ Alone(i)'
    BY <1>2, <1>4, <1>6, DecidedAlone
  <2>2. CASE c.kind \in Hiding
    <3>1. i = c.tx
      BY <1>6, <2>2 DEF Touched, Hiding
    <3>2. /\ srvTx' = srvTx
          /\ c.kind = "hide" => srvHidden' = srvHidden \cup {i}
          /\ c.kind = "unhide" => srvHidden' = srvHidden \ {i}
      BY <1>1, <2>2, <3>1, AcceptedGives
    <3>3. i \in srvHidden' <=> (d.stage = "accepted" <=> d.kind = "hide")
      BY <1>4, <2>2, <3>2 DEF Hiding
    <3>4. Core(i)'
      BY <1>1, <1>2, <1>4, <1>6, <2>2, <3>2, <3>3, ChainDecided
    <3> QED
      BY <2>1, <3>4 DEF RowInv
  <2>3. CASE c.kind \notin Hiding
    <3>1. Of(i)' = {d}
      BY <1>4, <1>6, <2>3 DEF RowInv, Core, OneOrHiding
    <3>2. c.stage = "sent"
      BY <1>1 DEF Sendable
    <3>3. Out(d, i)'
      BY <1>1, <1>2, <1>4, <1>6, <2>3, <3>2, AcceptedOut
    <3> QED
      BY <1>4, <2>1, <2>3, <3>1, <3>3, Lone DEF RowInv
  <2> QED
    BY <2>2, <2>3
<1> QED
  BY <1>5, <1>6

-----------------------------------------------------------------------------
(* Answers keep what is known of a row: successes.                         *)

LEMMA Answered ==
    ASSUME Shape, NEW c \in calls, calls' = calls \ {c}, NEW i
    PROVE  /\ CallOK(c) /\ c.kind \in {"create", "patch", "splits", "delete", "deleteLegs"} \cup Hiding
           /\ i \notin Touched(c.kind, c.tx) => Of(i)' = Of(i)
           /\ i \in Touched(c.kind, c.tx) => c \in Of(i) /\ Of(i)' = Of(i) \ {c}
BY DEF Of, Shape, CallsOK, CallOK

LEMMA OwnedElsewhere ==
    ASSUME Shape, NEW c \in calls, revisions' = Released(c), newest' = newest,
           NEW i \in AnyTx, i \notin Touched(c.kind, c.tx)
    PROVE  SameOwned(i)
<1>1. /\ revisions'.hidden = revisions.hidden
      /\ \A f \in Field :
            revisions'.field[<<i, f>>] =
                IF c.kind = "patch" /\ i = c.tx /\ f = c.what.field /\ revisions.field[<<i, f>>] = c.n
                THEN 0 ELSE revisions.field[<<i, f>>]
      /\ revisions'.split[i] = IF c.kind = "splits" /\ i = c.tx /\ revisions.split[i] = c.n
                               THEN 0 ELSE revisions.split[i]
  BY ReleasedGives
<1>2. c.kind \in {"patch", "splits"} => i # c.tx
  BY DEF Touched
<1> QED
  BY <1>1, <1>2 DEF SameOwned

\* The rows of a table that another row is added to or removed from.
LEMMA MergedElsewhere ==
    ASSUME NEW f, Good(f), NEW tx \in AnyTx, NEW row \in RowOf(tx), NEW i
    PROVE  LET h == MergeTransactions(f, One(tx, row))
           IN  /\ Good(h) /\ DOMAIN h = DOMAIN f \cup {tx}
               /\ i \in DOMAIN f => h[i] = f[i]
               /\ tx \notin DOMAIN f => h[tx] = row
<1> DEFINE one == One(tx, row)
<1>1. Good(one) /\ DOMAIN one = {tx} /\ one[tx] = row
  BY OneGood
<1> HIDE DEF one
<1>2. /\ Good(MergeTransactions(f, one))
      /\ DOMAIN MergeTransactions(f, one) = DOMAIN f \cup DOMAIN one
      /\ \A j \in DOMAIN f : MergeTransactions(f, one)[j] = f[j]
      /\ \A j \in DOMAIN one \ DOMAIN f : MergeTransactions(f, one)[j] = one[j]
  BY <1>1, MergeGood
<1>3. /\ Good(MergeTransactions(f, one))
      /\ DOMAIN MergeTransactions(f, one) = DOMAIN f \cup {tx}
      /\ i \in DOMAIN f => MergeTransactions(f, one)[i] = f[i]
      /\ tx \notin DOMAIN f => MergeTransactions(f, one)[tx] = row
  BY <1>1, <1>2
<1> QED
  BY <1>3 DEF one

LEMMA SavedElsewhere ==
    ASSUME Shape, NEW c \in calls, Saved(c), NEW i, i \notin Touched(c.kind, c.tx)
    PROVE  SameShown(i)
<1>0. /\ CallOK(c) /\ c.kind \in {"create", "patch", "splits", "delete", "deleteLegs"} \cup Hiding
      /\ Good(ledger.rows) /\ hiddenTx' = hiddenTx
  BY SavedGives DEF Shape, CallsOK, CallOK, ShownOK, LedgerOK
<1> SUFFICES /\ i \in DOMAIN ledger'.rows <=> i \in DOMAIN ledger.rows
             /\ i \in DOMAIN ledger.rows => ledger'.rows[i] = ledger.rows[i]
  BY <1>0 DEF SameShown, Aside
<1>1. CASE c.kind = "create"
  <2>1. c.what.row \in RowOf(c.tx) /\ c.tx \in AnyTx /\ i # c.tx
    BY <1>0, <1>1 DEF CallOK, Says, Touched
  <2>2. ledger'.rows = MergeTransactions(ledger.rows, One(c.tx, c.what.row))
    BY <1>1, SavedGives
  <2>3. /\ DOMAIN MergeTransactions(ledger.rows, One(c.tx, c.what.row)) = DOMAIN ledger.rows \cup {c.tx}
        /\ i \in DOMAIN ledger.rows =>
              MergeTransactions(ledger.rows, One(c.tx, c.what.row))[i] = ledger.rows[i]
    BY <1>0, <2>1, MergedElsewhere, ZenonT(60)
  <2> QED
    BY <2>1, <2>2, <2>3
<1>2. CASE c.kind = "deleteLegs"
  <2>1. ledger'.rows = Without(ledger.rows, Legs) /\ i \notin Legs
    BY <1>2, SavedGives DEF Touched
  <2>2. /\ DOMAIN Without(ledger.rows, Legs) = DOMAIN ledger.rows \ Legs
        /\ \A j \in DOMAIN ledger.rows \ Legs : Without(ledger.rows, Legs)[j] = ledger.rows[j]
    BY <1>0, WithoutGood
  <2> QED
    BY <2>1, <2>2
<1>3. CASE c.kind = "splits"
  <2>1. i # c.tx
    BY <1>3 DEF Touched
  <2>2. ledger' = ledger \/ \E row : ledger'.rows = [ledger.rows EXCEPT ![c.tx] = row]
    BY <1>3, SavedGives
  <2> QED
    BY <2>1, <2>2
<1>4. CASE c.kind \in {"patch", "delete"} \cup Hiding
  BY <1>4, SavedGives
<1> QED
  BY <1>0, <1>1, <1>2, <1>3, <1>4

\* The one request about a row, which is no hide, was accepted and answered.
LEMMA SavedSettles ==
    ASSUME Shape, NEW c \in calls, Saved(c), c.stage = "accepted", c.kind \notin Hiding,
           NEW i \in Touched(c.kind, c.tx), Out(c, i), UNCHANGED <<srvTx, srvHidden>>
    PROVE  Rested(i)'
<1>0. /\ CallOK(c) /\ c.kind \in {"create", "patch", "splits", "delete", "deleteLegs"}
      /\ Good(ledger.rows) /\ hiddenTx' = hiddenTx
  BY SavedGives DEF Shape, CallsOK, CallOK, ShownOK, LedgerOK
<1>1. ~Aside(i)
  BY <1>0 DEF Out
<1> SUFFICES i \in DOMAIN ledger'.rows => i \in Visible /\ ledger'.rows[i] = srvTx[i]
  BY <1>0, <1>1 DEF Rested, AsSaved, Aside, Visible
<1>2. CASE c.kind = "create"
  <2>1. c.what.row \in RowOf(c.tx) /\ c.tx \in AnyTx /\ i = c.tx
    BY <1>0, <1>2 DEF CallOK, Says, Touched
  <2>2. ledger'.rows = MergeTransactions(ledger.rows, One(c.tx, c.what.row))
    BY <1>2, SavedGives
  <2>3. c.tx \notin DOMAIN ledger.rows =>
            MergeTransactions(ledger.rows, One(c.tx, c.what.row))[c.tx] = c.what.row
    BY <1>0, <2>1, MergedElsewhere
  <2> QED
    BY <1>2, <2>1, <2>2, <2>3 DEF Out
<1>3. CASE c.kind = "patch"
  BY <1>3, SavedGives DEF Out
<1>4. CASE c.kind = "splits"
  <2>1. i = c.tx
    BY <1>4 DEF Touched
  <2>2. /\ i \in DOMAIN ledger.rows /\ i \in Visible /\ revisions.split[i] = c.n
        /\ ledger.rows[i] = srvTx[i] /\ ledger.rows[i] = Parted(srvTx[i], c.what.parts)
    BY <1>4 DEF Out
  <2>3. ledger'.rows = [ledger.rows EXCEPT ![i] = Parted(ledger.rows[i], c.what.parts)]
    BY <1>4, <2>1, <2>2, SavedGives
  <2> QED
    BY <2>2, <2>3
<1>5. CASE c.kind = "delete"
  BY <1>5, SavedGives DEF Out
<1>6. CASE c.kind = "deleteLegs"
  <2>1. ledger'.rows = Without(ledger.rows, Legs) /\ i \in Legs
    BY <1>6, SavedGives DEF Touched
  <2>2. DOMAIN Without(ledger.rows, Legs) = DOMAIN ledger.rows \ Legs
    BY <1>0, WithoutGood
  <2> QED
    BY <2>1, <2>2
<1> QED
  BY <1>0, <1>2, <1>3, <1>4, <1>5, <1>6

\* The first of a chain was accepted and answered; the next may be sent.
LEMMA ChainAnswered ==
    ASSUME Shape, NEW i, RowInv(i), NEW c \in Of(i), c.kind \in Hiding, c.stage = "accepted",
           Of(i)' = Of(i) \ {c},
           UNCHANGED <<srvTx, srvHidden, ledger, hiddenTx, shownEpoch>>, SameOwned(i)
    PROVE  Core(i)'
<1>1. Of(i) \subseteq calls /\ \A e \in Of(i) : e.n \in Nat
  BY DEF Of, Shape, CallsOK, CallOK
<1>2. /\ \A e \in Of(i) : e.kind \in Hiding
      /\ i \in DOMAIN srvTx /\ \A e \in Of(i) : Link(e, i)
  BY DEF RowInv, Core, OneOrHiding, Chained
<1>3. First(c, i) /\ (i \in srvHidden <=> c.kind = "hide")
  BY <1>2 DEF Link
<1>4. \A e \in Of(i) \ {c} : c.n < e.n
  BY <1>1, <1>3 DEF First, Shape, CallsOK
<1>5. revisions'.hidden[i] = revisions.hidden[i]
  BY DEF SameOwned
<1>6. PICK last \in Of(i) : Ends(last, i)
  BY DEF RowInv, Core, Chained
<1>7. \A e \in Of(i) : e.n <= last.n
  BY <1>2, <1>6 DEF Link, Ends
<1>8. OneOrHiding(i)' /\ \A e \in Of(i)' : Out(e, i)'
  BY <1>2 DEF OneOrHiding, Out, Hiding
<1>9. Rested(i)'
  <2> SUFFICES ASSUME Of(i)' = {}
               PROVE  Rested(i)'
    BY DEF Rested
  <2>1. last = c
    BY <1>6
  <2>2. AsSaved(ledger.rows, i) /\ (Aside(i) => AsHidden(hiddenTx, i))
    BY <1>2, <1>3, <1>6, <2>1 DEF Ends, Hiding, AsSaved, AsHidden, Visible
  <2> QED
    BY <2>2 DEF Rested, AsSaved, AsHidden, Aside, Visible
<1>10. ASSUME NEW g \in Of(i)' PROVE Link(g, i)'
  <2>1. Link(g, i) /\ g.stage = "sent" /\ c.n < g.n /\ g.n \in Nat /\ c.n \in Nat
    <3>1. ~First(g, i)
      BY <1>1, <1>4 DEF First
    <3> QED
      BY <1>1, <1>2, <1>4, <3>1 DEF Link
  <2>2. ASSUME First(g, i)' PROVE g.kind # c.kind
    <3>1. SUFFICES ASSUME g.kind = c.kind PROVE FALSE
      OBVIOUS
    <3>2. PICK f \in Of(i) : c.n < f.n /\ f.n < g.n
      BY <1>2, <2>1, <3>1 DEF Link
    <3>3. f \in Of(i)' /\ f.n \in Nat
      BY <1>1, <2>1, <3>2
    <3> QED
      BY <2>1, <2>2, <3>2, <3>3 DEF First
  <2>3. First(g, i)' => (i \in srvHidden' <=> (g.stage = "accepted" <=> g.kind = "hide"))
    BY <1>2, <1>3, <2>1, <2>2 DEF Hiding
  <2>4. \A d \in Of(i)' : g.n < d.n /\ g.kind = d.kind => \E e \in Of(i)' : g.n < e.n /\ e.n < d.n
    <3> SUFFICES ASSUME NEW d \in Of(i)', g.n < d.n, g.kind = d.kind
                 PROVE  \E e \in Of(i)' : g.n < e.n /\ e.n < d.n
      OBVIOUS
    <3>1. PICK e \in Of(i) : g.n < e.n /\ e.n < d.n
      BY <2>1 DEF Link
    <3>2. e.n \in Nat /\ e # c
      BY <1>1, <2>1, <3>1
    <3> QED
      BY <3>1, <3>2
  <2> QED
    BY <1>5, <2>1, <2>3, <2>4 DEF Link
<1>11. Of(i)' # {} => \E e \in Of(i)' : Ends(e, i)'
  <2> SUFFICES ASSUME NEW g \in Of(i)' PROVE \E e \in Of(i)' : Ends(e, i)'
    OBVIOUS
  <2>1. last # c
    BY <1>1, <1>4, <1>7
  <2>2. Ends(last, i)'
    BY <1>5, <1>6 DEF Ends, Aside
  <2> QED
    BY <2>1, <2>2
<1>12. Chained(i)'
  BY <1>2, <1>10, <1>11 DEF Chained
<1> QED
  BY <1>8, <1>9, <1>12 DEF Core

LEMMA SucceedKeeps ==
    ASSUME Shape, NEW i \in AnyTx \ doubt', RowInv(i), Succeed
    PROVE  RowInv(i)'
<1>1. PICK c \in calls : /\ c.stage = "accepted" /\ Saved(c)
                         /\ calls' = calls \ {c} /\ revisions' = Released(c)
  BY DEF Succeed
<1>2. UNCHANGED <<srvTx, srvHidden, hiddenLoad, shownEpoch, newest>> /\ i \in AnyTx
  BY DEF Succeed, server
<1>3. /\ CallOK(c) /\ c.kind \in {"create", "patch", "splits", "delete", "deleteLegs"} \cup Hiding
      /\ i \notin Touched(c.kind, c.tx) => Of(i)' = Of(i)
      /\ i \in Touched(c.kind, c.tx) => c \in Of(i) /\ Of(i)' = Of(i) \ {c}
  BY <1>1, Answered
<1>4. Refilled /\ SameSaved(i) /\ hiddenTx' = hiddenTx
  BY <1>1, <1>2, SavedGives, Unmoved
<1>5. Images(i)' /\ Alone(i)'
  BY <1>2, <1>3, <1>4, ImagesKept, AloneKept DEF RowInv
<1>6. CASE i \notin Touched(c.kind, c.tx)
  <2>1. SameShown(i) /\ SameOwned(i)
    BY <1>1, <1>2, <1>6, SavedElsewhere, OwnedElsewhere
  <2> QED
    BY <1>2, <1>3, <1>4, <1>6, <2>1, ElsewhereKeeps
<1>7. CASE i \in Touched(c.kind, c.tx) /\ c.kind \notin Hiding
  <2>1. Out(c, i) /\ Of(i)' = {}
    BY <1>3, <1>7 DEF RowInv, Core, OneOrHiding
  <2>2. Rested(i)'
    BY <1>1, <1>2, <1>7, <2>1, SavedSettles
  <2> QED
    BY <1>5, <2>1, <2>2, LeftAlone
<1>8. CASE i \in Touched(c.kind, c.tx) /\ c.kind \in Hiding
  <2>1. ledger' = ledger
    BY <1>1, <1>8, SavedGives
  <2>2. SameOwned(i)
    <3>1. revisions' = revisions
      BY <1>1, <1>8 DEF Released, Hiding
    <3> QED
      BY <3>1, Unmoved
  <2>3. Core(i)'
    BY <1>1, <1>2, <1>3, <1>4, <1>8, <2>1, <2>2, ChainAnswered
  <2> QED
    BY <1>5, <2>3 DEF RowInv
<1> QED
  BY <1>6, <1>7, <1>8

-----------------------------------------------------------------------------
(* Answers keep what is known of a row: failures.                          *)

LEMMA NotSavedElsewhere ==
    ASSUME Shape, NEW c \in calls, NotSaved(c), NEW i, i \notin Touched(c.kind, c.tx)
    PROVE  SameShown(i)
<1>0. /\ CallOK(c) /\ c.kind \in {"create", "patch", "splits", "delete", "deleteLegs"} \cup Hiding
      /\ Good(ledger.rows) /\ Good(SetAside) /\ (hiddenTx # None => Good(hiddenTx))
  BY SetAsideLoose DEF Shape, CallsOK, CallOK, ShownOK, LedgerOK, Loose
<1>1. CASE c.kind \in {"patch", "splits"}
  <2>1. i # c.tx
    BY <1>1 DEF Touched
  <2>2. hiddenTx' = hiddenTx /\ (ledger' = ledger \/ \E row : ledger'.rows = [ledger.rows EXCEPT ![c.tx] = row])
    BY <1>1, NotSavedGives
  <2> QED
    BY <2>1, <2>2 DEF SameShown, Aside
<1>2. ASSUME c.kind \in {"delete"} \cup Hiding
      PROVE  c.what.before \in RowOf(c.tx) /\ c.tx \in AnyTx /\ i # c.tx
  BY <1>0, <1>2 DEF CallOK, Says, Touched, Hiding
<1> DEFINE more == MergeTransactions(ledger.rows, One(c.tx, c.what.before))
<1>3. ASSUME c.kind \in {"delete"} \cup Hiding
      PROVE  /\ i \in DOMAIN more <=> i \in DOMAIN ledger.rows
             /\ i \in DOMAIN ledger.rows => more[i] = ledger.rows[i]
  <2>1. DOMAIN more = DOMAIN ledger.rows \cup {c.tx} /\ (i \in DOMAIN ledger.rows => more[i] = ledger.rows[i])
    BY <1>0, <1>2, <1>3, MergedElsewhere, ZenonT(60)
  <2> QED
    BY <1>2, <1>3, <2>1
<1>4. CASE c.kind = "delete"
  <2>1. hiddenTx' = hiddenTx /\ ledger'.rows = more
    BY <1>4, NotSavedGives
  <2> HIDE DEF more
  <2> QED
    BY <1>3, <1>4, <2>1 DEF SameShown, Aside
<1>5. CASE c.kind = "hide" /\ Newest(c)
  <2>1. ledger'.rows = more /\ hiddenTx' = IF hiddenTx = None THEN <<>> ELSE Without(hiddenTx, {c.tx})
    BY <1>5, NotSavedGives
  <2>2. i # c.tx
    BY <1>2, <1>5 DEF Hiding
  <2> HIDE DEF more
  <2>3. i \in DOMAIN ledger'.rows <=> i \in DOMAIN ledger.rows
    BY <1>3, <1>5, <2>1 DEF Hiding
  <2>4. i \in DOMAIN ledger.rows => ledger'.rows[i] = ledger.rows[i]
    BY <1>3, <1>5, <2>1 DEF Hiding
  <2>5. CASE hiddenTx = None
    BY <2>1, <2>3, <2>4, <2>5, EmptyGood DEF SameShown, Aside
  <2>6. CASE hiddenTx # None
    <3>1. /\ Good(Without(hiddenTx, {c.tx}))
          /\ DOMAIN Without(hiddenTx, {c.tx}) = DOMAIN hiddenTx \ {c.tx}
          /\ \A j \in DOMAIN hiddenTx \ {c.tx} : Without(hiddenTx, {c.tx})[j] = hiddenTx[j]
      BY <1>0, <2>6, WithoutGood
    <3>2. hiddenTx' = Without(hiddenTx, {c.tx}) /\ hiddenTx' # None
      BY <2>1, <2>6, <3>1, TablesAreNotNone
    <3> QED
      BY <2>2, <2>3, <2>4, <2>6, <3>1, <3>2 DEF SameShown, Aside
  <2> QED
    BY <2>5, <2>6
<1>6. CASE c.kind = "unhide" /\ Newest(c)
  <2> DEFINE aside == MergeTransactions(SetAside, One(c.tx, c.what.before))
  <2>1. ledger'.rows = Without(ledger.rows, {c.tx}) /\ hiddenTx' = aside
    BY <1>6, NotSavedGives
  <2>2. i # c.tx /\ c.what.before \in RowOf(c.tx) /\ c.tx \in AnyTx
    BY <1>2, <1>6 DEF Hiding
  <2>3. /\ DOMAIN Without(ledger.rows, {c.tx}) = DOMAIN ledger.rows \ {c.tx}
        /\ \A j \in DOMAIN ledger.rows \ {c.tx} : Without(ledger.rows, {c.tx})[j] = ledger.rows[j]
    BY <1>0, WithoutGood
  <2>4. /\ Good(aside) /\ DOMAIN aside = DOMAIN SetAside \cup {c.tx}
        /\ i \in DOMAIN SetAside => aside[i] = SetAside[i]
    BY <1>0, <2>2, MergedElsewhere
  <2> HIDE DEF aside
  <2>5. hiddenTx' # None
    BY <2>1, <2>4, TablesAreNotNone
  <2>6. (Aside(i) <=> i \in DOMAIN SetAside) /\ (Aside(i) => SetAside[i] = hiddenTx[i])
    BY EmptyGood DEF Aside, SetAside
  <2>7. (Aside(i)' <=> Aside(i)) /\ (Aside(i) => hiddenTx'[i] = hiddenTx[i])
    BY <2>1, <2>2, <2>4, <2>5, <2>6 DEF Aside
  <2> QED
    BY <2>1, <2>2, <2>3, <2>7 DEF SameShown
<1>7. CASE c.kind \in {"create", "deleteLegs"} \/ (c.kind \in Hiding /\ ~Newest(c))
  <2>1. UNCHANGED <<ledger, hiddenTx>>
    BY <1>7, NotSavedGives DEF Hiding
  <2> QED
    BY <2>1, Unmoved
<1> QED
  BY <1>0, <1>1, <1>4, <1>5, <1>6, <1>7 DEF Hiding

\* The one request about a row, which is no hide, was refused: what its failure
\* puts back is what the server holds.
LEMMA NotSavedSettles ==
    ASSUME Shape, NEW c \in calls, NotSaved(c), c.stage = "refused", c.kind \notin Hiding,
           NEW i \in Touched(c.kind, c.tx), Out(c, i), UNCHANGED <<srvTx, srvHidden>>
    PROVE  Rested(i)'
<1>0. /\ CallOK(c) /\ c.kind \in {"create", "patch", "splits", "delete", "deleteLegs"}
      /\ Good(ledger.rows) /\ Good(srvTx)
  BY DEF Shape, CallsOK, CallOK, ShownOK, LedgerOK, ServerOK
<1>1. ~Aside(i) /\ hiddenTx' = hiddenTx
  BY <1>0, NotSavedGives DEF Out
<1> SUFFICES i \in DOMAIN ledger'.rows => i \in Visible /\ ledger'.rows[i] = srvTx[i]
  BY <1>1 DEF Rested, AsSaved, Aside, Visible
<1>2. ASSUME i \in DOMAIN srvTx PROVE srvTx[i] \in RowOf(i)
  BY <1>0, <1>2, GoodRows
<1>3. CASE c.kind = "create"
  BY <1>3, NotSavedGives DEF Out
<1>4. CASE c.kind = "patch"
  <2>1. i = c.tx
    BY <1>4 DEF Touched
  <2>2. /\ i \in DOMAIN ledger.rows /\ i \in Visible /\ c.epoch = shownEpoch
        /\ revisions.field[<<i, c.what.field>>] = c.n
        /\ ledger.rows[i] = [srvTx[i] EXCEPT ![c.what.field] = c.what.value]
        /\ c.what.before = srvTx[i][c.what.field]
    BY <1>4 DEF Out
  <2>3. ledger'.rows = [ledger.rows EXCEPT ![i] = [ledger.rows[i] EXCEPT ![c.what.field] = c.what.before]]
    BY <1>4, <2>1, <2>2, NotSavedGives DEF UndoesField
  <2>4. srvTx[i] \in Row /\ c.what.field \in Field
    BY <1>0, <1>2, <1>4, <2>2 DEF Visible, RowOf, CallOK, Says
  <2>5. [ledger.rows[i] EXCEPT ![c.what.field] = c.what.before] = srvTx[i]
    BY <2>2, <2>4, FieldRestored
  <2> QED
    BY <2>2, <2>3, <2>5
<1>5. CASE c.kind = "splits"
  <2>1. i = c.tx
    BY <1>5 DEF Touched
  <2>2. /\ i \in DOMAIN ledger.rows /\ i \in Visible /\ revisions.split[i] = c.n
        /\ ledger.rows[i] = Parted(srvTx[i], c.what.parts)
        /\ c.what.before = srvTx[i]
    BY <1>5 DEF Out
  <2>3. ledger'.rows = [ledger.rows EXCEPT ![i] = PartsOf(ledger.rows[i], c.what.before)]
    BY <1>5, <2>1, <2>2, NotSavedGives
  <2>4. srvTx[i] \in RowOf(i) /\ c.what.parts \in {0, 1}
    BY <1>0, <1>2, <1>5, <2>2 DEF Visible, CallOK, Says
  <2>5. PartsOf(Parted(srvTx[i], c.what.parts), srvTx[i]) = srvTx[i]
    BY <2>4, PartsRestored DEF PartsOf
  <2> QED
    BY <2>2, <2>3, <2>5
<1>6. CASE c.kind = "delete"
  <2>1. i = c.tx /\ c.what.before \in RowOf(c.tx) /\ c.tx \in AnyTx
    BY <1>0, <1>6 DEF Touched, CallOK, Says
  <2>2. ledger'.rows = MergeTransactions(ledger.rows, One(c.tx, c.what.before))
    BY <1>6, NotSavedGives
  <2>3. c.tx \notin DOMAIN ledger.rows =>
            MergeTransactions(ledger.rows, One(c.tx, c.what.before))[c.tx] = c.what.before
    BY <1>0, <2>1, MergedElsewhere
  <2> QED
    BY <1>6, <2>1, <2>2, <2>3 DEF Out
<1>7. CASE c.kind = "deleteLegs"
  BY <1>7, NotSavedGives DEF Out, AsSaved
<1> QED
  BY <1>0, <1>3, <1>4, <1>5, <1>6, <1>7

\* The last hide or unhide of a row was refused: it was the only one, and the
\* row is back where the server has it.
LEMMA ChainRefused ==
    ASSUME Shape, NEW i, RowInv(i), NEW c \in Of(i), c.kind \in Hiding, c.stage = "refused",
           NotSaved(c), revisions.hidden[i] = c.n, UNCHANGED <<srvTx, srvHidden>>
    PROVE  Of(i) = {c} /\ Rested(i)'
<1>1. Of(i) \subseteq calls /\ \A e \in Of(i) : e.n \in Nat
  BY DEF Of, Shape, CallsOK, CallOK
<1>2. /\ \A e \in Of(i) : e.kind \in Hiding
      /\ i \in DOMAIN srvTx /\ \A e \in Of(i) : Link(e, i)
  BY DEF RowInv, Core, OneOrHiding, Chained
<1>3. /\ First(c, i) /\ (i \in srvHidden <=> c.kind = "unhide")
      /\ c.epoch = shownEpoch /\ c.what.before = srvTx[i]
  BY <1>2 DEF Link, Hiding
<1>4. Of(i) = {c}
  <2>1. \A e \in Of(i) : e.n = c.n
    BY <1>1, <1>2, <1>3 DEF First, Link
  <2> QED
    BY <1>1, <2>1 DEF Shape, CallsOK
<1>5. Ends(c, i)
  BY <1>4 DEF RowInv, Core, Chained
<1>6. /\ i = c.tx /\ i \in AnyTx /\ Newest(c)
      /\ Good(ledger.rows) /\ Good(SetAside) /\ (hiddenTx # None => Good(hiddenTx))
      /\ c.what.before \in RowOf(i) /\ srvHidden \subseteq DOMAIN srvTx
  <2>1. i = c.tx
    BY DEF Of, Touched, Hiding
  <2>2. Good(ledger.rows) /\ (hiddenTx # None => Good(hiddenTx)) /\ srvHidden \subseteq DOMAIN srvTx
    BY DEF Shape, ShownOK, LedgerOK, Loose, ServerOK
  <2>3. CallOK(c)
    BY <1>1 DEF Shape, CallsOK
  <2>4. i \in AnyTx /\ c.what.before \in RowOf(i)
    BY <2>1, <2>3 DEF CallOK, Says, Hiding
  <2>5. Newest(c)
    BY <1>3, <2>1 DEF Newest
  <2> QED
    BY <2>1, <2>2, <2>4, <2>5, SetAsideLoose DEF Loose
<1>7. CASE c.kind = "hide"
  <2>1. /\ ledger'.rows = MergeTransactions(ledger.rows, One(i, c.what.before))
        /\ hiddenTx' = IF hiddenTx = None THEN <<>> ELSE Without(hiddenTx, {i})
    BY <1>1, <1>6, <1>7, NotSavedGives
  <2>2. i \notin DOMAIN ledger.rows =>
            MergeTransactions(ledger.rows, One(i, c.what.before))[i] = c.what.before
    BY <1>6, MergedElsewhere
  <2>3. i \notin DOMAIN ledger.rows /\ hiddenTx # None
    BY <1>5, <1>7 DEF Ends, Aside
  <2>4. DOMAIN Without(hiddenTx, {i}) = DOMAIN hiddenTx \ {i}
    BY <1>6, <2>3, WithoutGood
  <2>5. ~Aside(i)'
    BY <2>1, <2>3, <2>4 DEF Aside
  <2>6. ledger'.rows[i] = srvTx[i] /\ i \in DOMAIN srvTx /\ i \notin srvHidden
    BY <1>2, <1>3, <1>7, <2>1, <2>2, <2>3
  <2> QED
    BY <1>4, <2>5, <2>6 DEF Rested, AsSaved, Visible
<1>8. CASE c.kind = "unhide"
  <2>1. /\ ledger'.rows = Without(ledger.rows, {i})
        /\ hiddenTx' = MergeTransactions(SetAside, One(i, c.what.before))
    BY <1>1, <1>6, <1>8, NotSavedGives
  <2>2. i \notin DOMAIN SetAside =>
            MergeTransactions(SetAside, One(i, c.what.before))[i] = c.what.before
    BY <1>6, MergedElsewhere
  <2>3. i \notin DOMAIN SetAside
    BY <1>5, <1>8, EmptyGood DEF Ends, Aside, SetAside
  <2>4. DOMAIN Without(ledger.rows, {i}) = DOMAIN ledger.rows \ {i}
    BY <1>6, WithoutGood
  <2>5. i \notin DOMAIN ledger'.rows
    BY <2>1, <2>4
  <2>6. hiddenTx'[i] = srvTx[i] /\ i \in srvHidden
    BY <1>3, <1>8, <2>1, <2>2, <2>3
  <2> QED
    BY <1>4, <2>5, <2>6 DEF Rested, AsSaved, AsHidden
<1> QED
  BY <1>4, <1>7, <1>8 DEF Hiding

LEMMA FailKeeps ==
    ASSUME Shape, NEW i \in AnyTx \ doubt', RowInv(i), Fail
    PROVE  RowInv(i)'
<1>1. PICK c \in calls : /\ c.stage \in {"accepted", "refused"} /\ NotSaved(c)
                         /\ calls' = calls \ {c} /\ revisions' = Released(c)
                         /\ doubt' = IF \/ c.stage = "accepted"
                                        \/ c.kind \in {"hide", "unhide"} /\ revisions.hidden[c.tx] # c.n
                                     THEN doubt \cup Touched(c.kind, c.tx) ELSE doubt
  BY DEF Fail
<1>2. UNCHANGED <<srvTx, srvHidden, hiddenLoad, shownEpoch, newest>> /\ i \in AnyTx
  BY DEF Fail, server
<1>3. /\ CallOK(c) /\ c.kind \in {"create", "patch", "splits", "delete", "deleteLegs"} \cup Hiding
      /\ i \notin Touched(c.kind, c.tx) => Of(i)' = Of(i)
      /\ i \in Touched(c.kind, c.tx) => c \in Of(i) /\ Of(i)' = Of(i) \ {c}
  BY <1>1, Answered
<1>4. Refilled /\ SameSaved(i)
  <2>1. UNCHANGED <<fill, txProgress, loads>>
    BY <1>1, NotSavedGives
  <2> QED
    BY <1>2, <2>1, NotRefilled, Unmoved
<1>5. Images(i)'
  BY <1>2, <1>4, ImagesKept DEF RowInv
<1>6. CASE i \notin Touched(c.kind, c.tx)
  <2>1. SameShown(i) /\ SameOwned(i)
    BY <1>1, <1>2, <1>6, NotSavedElsewhere, OwnedElsewhere
  <2> QED
    BY <1>2, <1>3, <1>4, <1>6, <2>1, ElsewhereKeeps
<1>7. CASE i \in Touched(c.kind, c.tx)
  <2>1. c.stage = "refused" /\ (c.kind \in Hiding => revisions.hidden[c.tx] = c.n)
    BY <1>1, <1>7 DEF Hiding
  <2>2. CASE c.kind \notin Hiding
    <3>1. Out(c, i) /\ Of(i)' = {}
      BY <1>3, <1>7, <2>2 DEF RowInv, Core, OneOrHiding
    <3>2. Rested(i)'
      BY <1>1, <1>2, <1>7, <2>1, <2>2, <3>1, NotSavedSettles
    <3> QED
      BY <1>5, <3>1, <3>2, LeftAlone
  <2>3. CASE c.kind \in Hiding
    <3>1. i = c.tx
      BY <1>7, <2>3 DEF Touched, Hiding
    <3>2. Of(i) = {c} /\ Rested(i)'
      BY <1>1, <1>2, <1>3, <1>7, <2>1, <2>3, <3>1, ChainRefused
    <3>3. Of(i)' = {}
      BY <1>3, <1>7, <3>2
    <3> QED
      BY <1>5, <3>2, <3>3, LeftAlone
  <2> QED
    BY <2>2, <2>3
<1> QED
  BY <1>6, <1>7

-----------------------------------------------------------------------------
(* What the page shows agrees with the server, always.                     *)

LEMMA InitAgreement == LedgerInit => AgreementInv
<1> SUFFICES ASSUME LedgerInit, NEW i \in AnyTx PROVE RowInv(i)
  BY InitShape DEF AgreementInv
<1>1. Shape
  BY InitShape
<1>2. /\ ledger.rows = Page(0, Light) /\ fill = NewFill(ledger) /\ loads = {} /\ hiddenTx = None
      /\ hiddenLoad = None /\ calls = {}
  BY DEF LedgerInit
<1>3. Of(i) = {} /\ ~Aside(i)
  BY <1>2 DEF Of, Aside
<1>4. AsSaved(ledger.rows, i)
  BY <1>1, <1>2, PageGood DEF Shape, AsSaved
<1>5. fill # None => fill.stage = "asked" /\ fill.pending = <<>>
  BY <1>1, <1>2, NewFillOK DEF Shape, ShownOK
<1>6. Images(i)
  BY <1>2, <1>5, EmptyGood DEF Images, AsSaved
<1>7. Alone(i) /\ Core(i)
  BY <1>3, <1>4 DEF Alone, Core, Rested, OneOrHiding, Chained
<1> QED
  BY <1>6, <1>7 DEF RowInv

\* A row stays in doubt.
LEMMA DoubtStays == [LedgerNext]_ledgerVars => doubt \subseteq doubt'
<1> SUFFICES ASSUME [LedgerNext]_ledgerVars PROVE doubt \subseteq doubt'
  OBVIOUS
<1>1. \A kind, tx, what : Do(kind, tx, what) => doubt \subseteq doubt'
  BY DEF Do
<1>2. CASE Load \/ LoadHiddenTx
  BY <1>2 DEF Load, LoadHiddenTx
<1>3. CASE DeleteTransferWithLegs \/ \E d \in Tx : AddTransaction(d)
  BY <1>1, <1>3 DEF DeleteTransferWithLegs, AddTransaction
<1>4. CASE \E i \in AnyTx : \/ \E k \in Cat : UpdateTransaction(i, "categoryId", k)
                            \/ \E d \in Tx : UpdateTransaction(i, "date", d)
                            \/ \E parts \in {0, 1} : ReplaceTransactionSplits(i, parts)
                            \/ DeleteTransaction(i) \/ HideTx(i) \/ UnhideTx(i)
  BY <1>1, <1>4 DEF UpdateTransaction, ReplaceTransactionSplits, DeleteTransaction, HideTx, UnhideTx
<1>5. CASE Arrival
  BY <1>5 DEF Arrival, PageRead, PageReturns, SnapshotRead, SnapshotReturns, HiddenRead
<1>6. CASE FillFails \/ LoadFails \/ HiddenReturns \/ ServerAccepts \/ Refuse \/ Succeed \/ Fail
  BY <1>6 DEF FillFails, LoadFails, HiddenReturns, ServerAccepts, Refuse, Succeed, Fail
<1>7. CASE UNCHANGED ledgerVars
  BY <1>7 DEF ledgerVars
<1> QED
  BY <1>2, <1>3, <1>4, <1>5, <1>6, <1>7 DEF LedgerNext, Person

LEMMA NextAgreement == AgreementInv /\ [LedgerNext]_ledgerVars => AgreementInv'
<1> SUFFICES ASSUME AgreementInv, [LedgerNext]_ledgerVars, NEW i \in AnyTx \ doubt'
             PROVE  RowInv(i)'
  BY NextShape DEF AgreementInv
<1>1. Shape /\ RowInv(i)
  BY DoubtStays DEF AgreementInv
<1>2. CASE Person
  <2>1. CASE Load
    BY <1>1, <2>1, LoadKeeps
  <2>2. CASE LoadHiddenTx
    BY <1>1, <2>2, HiddenListKeeps
  <2>3. CASE DeleteTransferWithLegs
    BY <1>1, <2>3, DeleteLegsKeeps
  <2>4. CASE \E d \in Tx : AddTransaction(d)
    BY <1>1, <2>4, AddKeeps
  <2>5. CASE \E tx \in AnyTx, k \in Cat : UpdateTransaction(tx, "categoryId", k)
    BY <1>1, <2>5, UpdateKeeps DEF Field, Fits
  <2>6. CASE \E tx \in AnyTx, d \in Tx : UpdateTransaction(tx, "date", d)
    BY <1>1, <2>6, UpdateKeeps DEF Field, Fits
  <2>7. CASE \E tx \in AnyTx, parts \in {0, 1} : ReplaceTransactionSplits(tx, parts)
    BY <1>1, <2>7, SplitsKeeps
  <2>8. CASE \E tx \in AnyTx : DeleteTransaction(tx)
    BY <1>1, <2>8, DeleteKeeps
  <2>9. CASE \E tx \in AnyTx : HideTx(tx)
    BY <1>1, <2>9, HideKeeps
  <2>10. CASE \E tx \in AnyTx : UnhideTx(tx)
    BY <1>1, <2>10, UnhideKeeps
  <2> QED
    BY <1>2, <2>1, <2>2, <2>3, <2>4, <2>5, <2>6, <2>7, <2>8, <2>9, <2>10 DEF Person
<1>3. CASE Arrival
  BY <1>1, <1>3, PageReadKeeps, PageReturnsKeeps, SnapshotReadKeeps, SnapshotReturnsKeeps, HiddenListKeeps
     DEF Arrival
<1>4. CASE FillFails \/ LoadFails \/ HiddenReturns
  BY <1>1, <1>4, FillFailsKeeps, LoadFailsKeeps, HiddenListKeeps
<1>5. CASE ServerAccepts \/ Refuse \/ Succeed \/ Fail
  BY <1>1, <1>5, AcceptKeeps, RefuseKeeps, SucceedKeeps, FailKeeps
<1>6. CASE UNCHANGED ledgerVars
  <2>1. UNCHANGED <<srvTx, srvHidden, ledger, txProgress, fill, loads, hiddenTx, hiddenLoad, revisions,
                    shownEpoch, calls>>
    BY <1>6 DEF ledgerVars, client, server
  <2> QED
    BY <1>1, <2>1, SameOf, Unmoved, UntouchedKeeps
<1> QED
  BY <1>2, <1>3, <1>4, <1>5, <1>6 DEF LedgerNext

\* Once every request has been answered, what the page shows of a row is what
\* the server holds, and a row is shown where it belongs, however edits, hides
\* and unhides overlapped with loads and pages, and whichever of them failed
\* (store.ts, updateTransaction, chainedPatchTx, fillTransactions).
THEOREM LedgerAgreement == LedgerSpec => []LedgerAgrees
<1>1. LedgerInit => AgreementInv
  BY InitAgreement
<1>2. AgreementInv /\ [LedgerNext]_ledgerVars => AgreementInv'
  BY NextAgreement
<1>3. AgreementInv => LedgerAgrees
  BY AgreementGives
<1> QED
  BY <1>1, <1>2, <1>3, PTL DEF LedgerSpec

-----------------------------------------------------------------------------
(* The whole history.  As long as nothing moved the rows that the pages    *)
(* are counted by, what has not been loaded is behind what is shown, and   *)
(* no page begins behind a row that has not been loaded.                   *)

Clean == doubt = {} /\ shifted = {}

\* Some row is asked for twice: a chain of hides and unhides.
Braided == \E i \in AnyTx : \E c, d \in Of(i) : c # d

Shown == DOMAIN ledger.rows

\* The rows that requests of these kinds are about.
With(kinds) == {i \in AnyTx : \E c \in Of(i) : c.kind \in kinds}

\* What has been loaded, whether or not the person has put it aside meanwhile.
Held == (Shown \ With({"unhide"})) \cup With({"hide", "delete"})

\* What has not been loaded.
Behind == Visible \ (Shown \cup With({"hide", "delete", "create"}))

\* What the total counts.
Counted == (Visible \cup Shown \cup With({"deleteLegs"})) \ With({"hide", "delete", "create"})

\* What was visible before any request that is open.
Standing == Visible \ With({"create", "unhide"})

Rank(i) == Cardinality({j \in Visible : NewerThan(j, i)})

\* No row has left its place that a page may have been counted by.
InPlace == \A c \in calls : c.kind \in {"hide", "delete", "deleteLegs"} => c.stage # "accepted"

GotTo == fill.offset + IF fill.stage = "answered" THEN Size(fill.page) ELSE 0

CountsAll == Cardinality(Counted) <= ledger.total

InOrder ==
    /\ \A j \in Held \cap Visible, i \in Behind : NewerThan(j, i)
    /\ \A j \in Arriving, i \in Behind \ Arriving : NewerThan(j, i)

FillReaches ==
    /\ txProgress
    /\ InPlace => \A i \in Behind \ Arriving : Rank(i) >= GotTo
    /\ Cardinality(Held) + Size(fill.pending) <= fill.offset
    /\ fill.stage = "answered" =>
          /\ Size(fill.page) < TX_CHUNK => Behind \subseteq Arriving
          /\ Cardinality(Standing) <= fill.count

Fresh ==
    /\ loads # {} => calls = {}
    /\ \A l \in loads : l.stage = "answered" =>
          l.rows = Page(0, Light) /\ l.total = Cardinality(Visible)

Orderly ==
    /\ \A c \in calls : /\ c.kind = "patch" => c.what.field = "categoryId"
                        /\ c.kind = "delete" => ~txProgress
                        /\ c.kind = "deleteLegs" => Legs # {}
    /\ Legs \subseteq DOMAIN srvTx \/ Legs \cap DOMAIN srvTx = {}

History ==
    /\ CountsAll /\ InOrder /\ Fresh /\ Orderly
    /\ fill # None => FillReaches
    /\ fill = None /\ (\A l \in loads : ~l.current) => Behind = {}

HistoryInv == AgreementInv /\ (Clean => Braided \/ History)

-----------------------------------------------------------------------------
(* Where the rows are that requests are about.                             *)

Unbraided == AgreementInv /\ Clean /\ ~Braided

\* What is known of a row from the request about it.
Where(i) ==
    /\ Of(i) = {} => (i \in Shown => i \in Visible)
    /\ \A c \in Of(i) :
          /\ Of(i) = {c}
          /\ c.kind = "create" => i \notin Shown /\ (c.stage = "accepted" <=> i \in Visible)
          /\ c.kind \in {"patch", "splits"} => i \in Shown /\ i \in Visible
          /\ c.kind \in {"delete", "hide"} => i \notin Shown /\ (c.stage # "accepted" <=> i \in Visible)
          /\ c.kind = "unhide" => i \in Shown /\ (c.stage = "accepted" <=> i \in Visible)
          /\ c.kind = "deleteLegs" =>
                IF c.stage = "accepted" THEN i \notin Visible ELSE i \in Shown => i \in Visible

LEMMA WhereRows == Unbraided => \A i \in AnyTx : Where(i)
<1> SUFFICES ASSUME Unbraided, NEW i \in AnyTx PROVE Where(i)
  OBVIOUS
<1>1. Shape /\ RowInv(i) /\ ~Braided
  BY DEF Unbraided, Clean, AgreementInv
<1>2. srvHidden \subseteq DOMAIN srvTx /\ Visible = DOMAIN srvTx \ srvHidden
  BY <1>1 DEF Shape, ServerOK, Visible
<1>3. Of(i) = {} => (i \in Shown => i \in Visible)
  BY <1>1 DEF RowInv, Core, Rested, AsSaved, Shown
<1>4. ASSUME NEW c \in Of(i)
      PROVE  /\ Of(i) = {c}
             /\ c.kind = "create" => i \notin Shown /\ (c.stage = "accepted" <=> i \in Visible)
             /\ c.kind \in {"patch", "splits"} => i \in Shown /\ i \in Visible
             /\ c.kind \in {"delete", "hide"} => i \notin Shown /\ (c.stage # "accepted" <=> i \in Visible)
             /\ c.kind = "unhide" => i \in Shown /\ (c.stage = "accepted" <=> i \in Visible)
             /\ c.kind = "deleteLegs" =>
                   IF c.stage = "accepted" THEN i \notin Visible ELSE i \in Shown => i \in Visible
  <2>1. Of(i) = {c}
    BY <1>1 DEF Braided
  <2>2. Out(c, i) /\ Chained(i)
    BY <1>1 DEF RowInv, Core
  <2>3. c.kind \in Hiding => i \in DOMAIN srvTx /\ Link(c, i) /\ Ends(c, i) /\ First(c, i)
    BY <1>1, <2>1, <2>2 DEF Chained, First, Link, Shape, CallsOK, CallOK, Of
  <2>4. c.kind \in Hiding => (i \in srvHidden <=> (c.stage = "accepted" <=> c.kind = "hide"))
    BY <2>3 DEF Link
  <2>5. c.kind = "hide" => i \notin Shown /\ (c.stage # "accepted" <=> i \in Visible)
    BY <1>2, <2>3, <2>4 DEF Ends, Shown, Hiding
  <2>6. c.kind = "unhide" => i \in Shown /\ (c.stage = "accepted" <=> i \in Visible)
    BY <1>2, <2>3, <2>4 DEF Ends, Shown, Hiding
  <2>7. c.kind \in {"create", "patch", "splits", "delete", "deleteLegs"} =>
           /\ c.kind = "create" => i \notin Shown /\ (c.stage = "accepted" <=> i \in Visible)
           /\ c.kind \in {"patch", "splits"} => i \in Shown /\ i \in Visible
           /\ c.kind = "delete" => i \notin Shown /\ (c.stage # "accepted" <=> i \in Visible)
           /\ c.kind = "deleteLegs" =>
                 IF c.stage = "accepted" THEN i \notin Visible ELSE i \in Shown => i \in Visible
    BY <1>2, <2>2 DEF Out, Shown, AsSaved
  <2> QED
    BY <2>1, <2>5, <2>6, <2>7
<1> QED
  BY <1>3, <1>4 DEF Where

-----------------------------------------------------------------------------
(* Ranks: the order of the rows as the server counts them in pages.        *)

LEMMA NewerOrder ==
    ASSUME Shape
    PROVE  /\ \A i \in DOMAIN srvTx : ~NewerThan(i, i)
           /\ \A i, j, k \in DOMAIN srvTx : NewerThan(i, j) /\ NewerThan(j, k) => NewerThan(i, k)
           /\ \A i, j \in DOMAIN srvTx : i = j \/ NewerThan(i, j) \/ NewerThan(j, i)
<1>1. \A i \in DOMAIN srvTx : i \in Nat /\ srvTx[i].date \in Nat
  BY GoodRows, Ids, LedgerClientAssumption DEF Shape, ServerOK, Good, IsTable, Row
<1> QED
  BY <1>1 DEF NewerThan

LEMMA VisibleRows ==
    ASSUME Shape
    PROVE  /\ Visible \subseteq DOMAIN srvTx /\ Visible \subseteq AnyTx
           /\ IsFiniteSet(Visible) /\ Cardinality(Visible) \in Nat
BY Ids, FS_Subset, FS_CardinalityType DEF Visible, Shape, ServerOK, Good, IsTable

LEMMA Ranks ==
    ASSUME Shape
    PROVE  /\ \A i \in Visible : Rank(i) \in 0 .. Cardinality(Visible) - 1
           /\ \A i, j \in Visible : NewerThan(j, i) <=> Rank(j) < Rank(i)
           /\ \A i, j \in Visible : Rank(i) = Rank(j) => i = j
           /\ \A r \in 0 .. Cardinality(Visible) - 1 : \E i \in Visible : Rank(i) = r
<1> DEFINE V == Visible
           R == {p \in V \X V : NewerThan(p[1], p[2])}
<1>1. \A x, y \in V : <<x, y>> \in R <=> NewerThan(x, y)
  OBVIOUS
<1>2. \A x \in V : Place(x, V, R) = Rank(x)
  <2>1. \A x \in V : {y \in V : <<y, x>> \in R} = {y \in V : NewerThan(y, x)}
    BY <1>1
  <2> QED
    BY <2>1 DEF Place, Rank
<1>3. V \subseteq DOMAIN srvTx /\ IsFiniteSet(V)
  BY VisibleRows
<1> HIDE DEF R, V
<1>4. /\ \A x \in V : <<x, x>> \notin R
      /\ \A x, y, z \in V : <<x, y>> \in R /\ <<y, z>> \in R => <<x, z>> \in R
      /\ \A x, y \in V : x = y \/ <<x, y>> \in R \/ <<y, x>> \in R
  BY <1>1, <1>3, NewerOrder
<1>5. /\ Cardinality(V) \in Nat
      /\ \A x \in V : Place(x, V, R) \in 0 .. Cardinality(V) - 1
      /\ \A x, y \in V : <<x, y>> \in R => Place(x, V, R) < Place(y, V, R)
      /\ \A i \in 0 .. Cardinality(V) - 1 : \E x \in V : Place(x, V, R) = i
  BY <1>3, <1>4, Places, Z3
<1>6. \A x \in V : Rank(x) \in 0 .. Cardinality(V) - 1
  BY <1>2, <1>5
<1>7. \A x, y \in V : NewerThan(x, y) => Rank(x) < Rank(y)
  BY <1>1, <1>2, <1>5
<1>8. \A x, y \in V : x = y \/ NewerThan(x, y) \/ NewerThan(y, x)
  BY <1>1, <1>4
<1>9. \A x, y \in V : NewerThan(x, y) <=> Rank(x) < Rank(y)
  <2> SUFFICES ASSUME NEW x \in V, NEW y \in V, Rank(x) < Rank(y) PROVE NewerThan(x, y)
    BY <1>7
  <2>1. Rank(x) \in Int /\ Rank(y) \in Int
    BY <1>6
  <2> QED
    BY <1>7, <1>8, <2>1
<1>10. \A x, y \in V : Rank(x) = Rank(y) => x = y
  <2> SUFFICES ASSUME NEW x \in V, NEW y \in V, Rank(x) = Rank(y) PROVE x = y
    OBVIOUS
  <2>1. Rank(x) \in Int /\ Rank(y) \in Int
    BY <1>6
  <2> QED
    BY <1>7, <1>8, <2>1
<1>11. \A r \in 0 .. Cardinality(V) - 1 : \E i \in V : Rank(i) = r
  BY <1>2, <1>5
<1> QED
  BY <1>6, <1>9, <1>10, <1>11 DEF V

\* A page has the rows of these ranks, as many as it may unless they end.
LEMMA PageRanks ==
    ASSUME Shape, NEW offset \in Nat, NEW limit \in Nat
    PROVE  LET p == Page(offset, limit)
           IN  /\ DOMAIN p = {i \in Visible : Rank(i) \in offset .. offset + limit - 1}
               /\ IsFiniteSet(DOMAIN p) /\ Size(p) \in Nat /\ Size(p) <= limit
               /\ (\E i \in Visible : Rank(i) >= offset + limit) => Size(p) = limit
<1> DEFINE D == DOMAIN Page(offset, limit)
           I == offset .. offset + limit - 1
           m == [i \in D |-> Rank(i)]
<1>1. D = {i \in Visible : Rank(i) \in I}
  BY DEF Page, Only, Rank
<1>2. IsFiniteSet(I) /\ Cardinality(I) = limit
  BY FS_Interval
<1>3. IsFiniteSet(D) /\ Cardinality(D) \in Nat
  BY <1>1, VisibleRows, FS_Subset, FS_CardinalityType
<1> HIDE DEF D, I
<1>4. m \in Injection(D, I)
  BY <1>1, Ranks DEF Injection, IsInjective
<1>5. Cardinality(D) <= limit
  BY <1>2, <1>4, FS_Injection
<1>6. ASSUME NEW i \in Visible, Rank(i) >= offset + limit PROVE Cardinality(D) = limit
  <2>1. Rank(i) \in Nat /\ Rank(i) <= Cardinality(Visible) - 1 /\ Cardinality(Visible) \in Nat
    BY Ranks, VisibleRows
  <2>2. I \subseteq 0 .. Cardinality(Visible) - 1
    BY <1>6, <2>1 DEF I
  <2>3. \A r \in I : \E j \in D : m[j] = r
    BY <1>1, <2>2, Ranks
  <2>4. m \in Surjection(D, I)
    BY <1>4, <2>3 DEF Injection, Surjection
  <2> QED
    BY <1>2, <1>3, <1>5, <2>4, FS_Surjection
<1> QED
  BY <1>1, <1>3, <1>5, <1>6 DEF D, I, Size

LEMMA Finites ==
    ASSUME Shape
    PROVE  /\ Held \subseteq AnyTx /\ Behind \subseteq AnyTx /\ Counted \subseteq AnyTx
           /\ Standing \subseteq AnyTx /\ Shown \subseteq AnyTx
           /\ \A S \in SUBSET AnyTx : IsFiniteSet(S) /\ Cardinality(S) \in Nat
<1>1. Shown \subseteq AnyTx
  BY GoodRows DEF Shape, ShownOK, LedgerOK, Shown
<1>2. Visible \subseteq AnyTx
  BY VisibleRows
<1>3. \A S \in SUBSET AnyTx : IsFiniteSet(S) /\ Cardinality(S) \in Nat
  BY Ids, FS_Subset, FS_CardinalityType
<1> QED
  BY <1>1, <1>2, <1>3 DEF Held, Behind, Counted, Standing, With

\* How the lists that the invariant speaks of take a row, by the request about it.
Listing(i) ==
    /\ Of(i) = {} => /\ i \in Held <=> i \in Shown
                     /\ i \in Behind <=> i \in Visible /\ i \notin Shown
                     /\ i \in Counted <=> i \in Visible
                     /\ i \in Standing <=> i \in Visible
                     /\ i \in Shown => i \in Visible
    /\ \A c \in Of(i) :
          /\ Of(i) = {c}
          /\ c.kind = "create" => i \notin Held /\ i \notin Behind /\ i \notin Counted /\ i \notin Standing
          /\ c.kind \in {"patch", "splits"} =>
                i \in Held /\ i \notin Behind /\ i \in Counted /\ i \in Standing /\ i \in Visible
          /\ c.kind \in {"delete", "hide"} =>
                i \in Held /\ i \notin Behind /\ i \notin Counted /\ (i \in Standing <=> i \in Visible)
          /\ c.kind = "unhide" => i \notin Held /\ i \notin Behind /\ i \in Counted /\ i \notin Standing
          /\ c.kind = "deleteLegs" =>
                /\ i \in Held <=> i \in Shown
                /\ i \in Behind <=> i \in Visible /\ i \notin Shown
                /\ i \in Counted /\ (i \in Standing <=> i \in Visible)

LEMMA Listed == Unbraided => \A i \in AnyTx : Listing(i)
<1> SUFFICES ASSUME Unbraided, NEW i \in AnyTx PROVE Listing(i)
  OBVIOUS
<1>1. Where(i)
  BY WhereRows
<1>2. CASE Of(i) = {}
  <2>1. \A kinds : i \notin With(kinds)
    BY <1>2 DEF With
  <2> QED
    BY <1>1, <1>2, <2>1 DEF Where, Listing, Held, Behind, Counted, Standing
<1>3. ASSUME NEW c \in Of(i)
      PROVE  /\ Of(i) = {c}
             /\ c.kind = "create" => i \notin Held /\ i \notin Behind /\ i \notin Counted /\ i \notin Standing
             /\ c.kind \in {"patch", "splits"} =>
                   i \in Held /\ i \notin Behind /\ i \in Counted /\ i \in Standing /\ i \in Visible
             /\ c.kind \in {"delete", "hide"} =>
                   i \in Held /\ i \notin Behind /\ i \notin Counted /\ (i \in Standing <=> i \in Visible)
             /\ c.kind = "unhide" => i \notin Held /\ i \notin Behind /\ i \in Counted /\ i \notin Standing
             /\ c.kind = "deleteLegs" =>
                   /\ i \in Held <=> i \in Shown
                   /\ i \in Behind <=> i \in Visible /\ i \notin Shown
                   /\ i \in Counted /\ (i \in Standing <=> i \in Visible)
  <2>1. Of(i) = {c}
    BY <1>1, <1>3 DEF Where
  <2>2. \A kinds : i \in With(kinds) <=> c.kind \in kinds
    BY <2>1 DEF With
  <2>3. /\ c.kind = "create" => i \notin Shown
        /\ c.kind \in {"patch", "splits"} => i \in Shown /\ i \in Visible
        /\ c.kind \in {"delete", "hide"} => i \notin Shown
        /\ c.kind = "unhide" => i \in Shown
    BY <1>1, <1>3 DEF Where
  <2>4. /\ i \in Held <=> (i \in Shown /\ c.kind # "unhide") \/ c.kind \in {"hide", "delete"}
        /\ i \in Behind <=> i \in Visible /\ i \notin Shown /\ c.kind \notin {"hide", "delete", "create"}
        /\ i \in Counted <=> /\ i \in Visible \/ i \in Shown \/ c.kind = "deleteLegs"
                             /\ c.kind \notin {"hide", "delete", "create"}
        /\ i \in Standing <=> i \in Visible /\ c.kind \notin {"create", "unhide"}
    BY <2>2 DEF Held, Behind, Counted, Standing
  <2> QED
    BY <2>1, <2>3, <2>4
<1> QED
  BY <1>2, <1>3 DEF Listing

\* A row that the step does not concern is listed as before.
LEMMA SameListing ==
    ASSUME NEW i, Of(i)' = Of(i), i \in Shown' <=> i \in Shown, i \in Visible' <=> i \in Visible
    PROVE  /\ i \in Held' <=> i \in Held
           /\ i \in Behind' <=> i \in Behind
           /\ i \in Counted' <=> i \in Counted
           /\ i \in Standing' <=> i \in Standing
<1>1. \A kinds : i \in With(kinds)' <=> i \in With(kinds)
  BY DEF With
<1> QED
  BY <1>1 DEF Held, Behind, Counted, Standing

-----------------------------------------------------------------------------
(* A fill that starts, from what is shown.                                 *)

Restarting ==
    /\ Unbraided /\ CountsAll /\ ~Moving(calls)
    /\ \A j \in Held \cap Visible, i \in Behind : NewerThan(j, i)
    /\ fill = NewFill(ledger) /\ txProgress = (fill # None)

LEMMA NewFillReaches ==
    Restarting => /\ InOrder /\ (fill # None => FillReaches) /\ (fill = None => Behind = {})
<1> SUFFICES ASSUME Restarting
             PROVE  InOrder /\ (fill # None => FillReaches) /\ (fill = None => Behind = {})
  OBVIOUS
<1>1. Shape /\ Unbraided /\ fill = NewFill(ledger) /\ txProgress = (fill # None)
  BY DEF Restarting, Unbraided, AgreementInv
<1>2. \A i \in AnyTx : \/ Of(i) = {}
                       \/ \E c \in Of(i) : Of(i) = {c} /\ c.kind \in {"patch", "create", "splits"}
  BY <1>1, Listed DEF Listing, Restarting, Moving, Of
<1>3. \A i \in AnyTx : Listing(i) /\ Where(i)
  BY <1>1, Listed, WhereRows
<1>4. \A i \in AnyTx : /\ i \in Held <=> i \in Shown
                       /\ i \in Shown => i \in Visible /\ i \in Counted /\ i \notin Behind
                       /\ i \in Counted => i \in Shown \/ i \in Behind
                       /\ i \in Behind => i \in Counted
  <2> SUFFICES ASSUME NEW i \in AnyTx
               PROVE  /\ i \in Held <=> i \in Shown
                      /\ i \in Shown => i \in Visible /\ i \in Counted /\ i \notin Behind
                      /\ i \in Counted => i \in Shown \/ i \in Behind
                      /\ i \in Behind => i \in Counted
    OBVIOUS
  <2>1. CASE Of(i) = {}
    BY <1>3, <2>1 DEF Listing
  <2>2. ASSUME NEW c \in Of(i), c.kind = "create" PROVE i \notin Held /\ i \notin Shown /\ i \notin Counted /\ i \notin Behind
    BY <1>3, <2>2 DEF Listing, Where
  <2>3. ASSUME NEW c \in Of(i), c.kind \in {"patch", "splits"}
        PROVE  i \in Held /\ i \in Shown /\ i \in Visible /\ i \in Counted /\ i \notin Behind
    BY <1>3, <2>3 DEF Listing, Where
  <2> QED
    BY <1>2, <2>1, <2>2, <2>3
<1>5. Held = Shown /\ Shown \subseteq Visible /\ Shown \subseteq Counted /\ Counted \ Shown = Behind
      /\ Shown \cap Behind = {}
  BY <1>1, <1>4, Finites, VisibleRows
<1>6. /\ IsFiniteSet(Shown) /\ IsFiniteSet(Counted) /\ Cardinality(Shown) \in Nat /\ Cardinality(Counted) \in Nat
      /\ Size(ledger.rows) = Cardinality(Shown) /\ ledger.total \in Nat
  BY <1>1, Finites DEF Size, Shown, Shape, ShownOK, LedgerOK
<1>7. ASSUME fill = None PROVE Behind = {}
  <2>1. Cardinality(Shown) >= ledger.total
    <3>1. Size(ledger.rows) >= ledger.total
      <4>1. SUFFICES ASSUME ~(Size(ledger.rows) >= ledger.total) PROVE FALSE
        OBVIOUS
      <4> DEFINE f == NewFill(ledger)
      <4>2. IsAsked(f)
        BY <1>6, <4>1, EmptyGood DEF NewFill, IsAsked, Size
      <4> QED
        BY <1>1, <1>7, <4>2, FillsAreNotNone
    <3> QED
      BY <1>6, <3>1
  <2>2. Cardinality(Counted) <= Cardinality(Shown)
    BY <1>6, <2>1 DEF Restarting, CountsAll
  <2>3. Shown = Counted
    BY <1>5, <1>6, <2>2, FS_Subset
  <2> QED
    BY <1>5, <2>3
<1>8. ASSUME fill # None
      PROVE  fill.stage = "asked" /\ fill.pending = <<>> /\ fill.offset = Cardinality(Shown)
  BY <1>1, <1>6, <1>8 DEF NewFill
<1>9. Arriving = {}
  BY <1>8 DEF Arriving
<1>10. InOrder
  BY <1>9 DEF InOrder, Restarting
<1>11. ASSUME fill # None PROVE FillReaches
  <2>1. Size(fill.pending) = 0
    BY <1>8, <1>11, FS_EmptySet, EmptyGood DEF Size
  <2>2. ASSUME NEW i \in Behind PROVE Rank(i) >= Cardinality(Shown)
    <3> DEFINE N == {j \in Visible : NewerThan(j, i)}
    <3>1. Shown \subseteq N
      BY <1>5, <2>2 DEF Restarting
    <3>2. IsFiniteSet(N)
      BY <1>1, VisibleRows, FS_Subset
    <3> QED
      BY <1>6, <3>1, <3>2, FS_Subset, FS_CardinalityType DEF Rank
  <2>3. GotTo = Cardinality(Shown)
    BY <1>6, <1>8, <1>11 DEF GotTo
  <2>4. txProgress /\ fill.stage = "asked"
    BY <1>1, <1>8, <1>11
  <2>5. \A i \in Behind \ Arriving : Rank(i) >= GotTo
    BY <2>2, <2>3
  <2>6. Cardinality(Held) + Size(fill.pending) <= fill.offset
    BY <1>5, <1>6, <1>8, <1>11, <2>1
  <2> QED
    BY <2>4, <2>5, <2>6 DEF FillReaches
<1> QED
  BY <1>7, <1>10, <1>11

\* The ledger as a snapshot gives it.
Snapped ==
    /\ Unbraided /\ calls = {}
    /\ ledger.rows = Page(0, Light) /\ ledger.total = Cardinality(Visible)

LEMMA SnappedOrder ==
    Snapped => CountsAll /\ \A j \in Held \cap Visible, i \in Behind : NewerThan(j, i)
<1> SUFFICES ASSUME Snapped
             PROVE  CountsAll /\ \A j \in Held \cap Visible, i \in Behind : NewerThan(j, i)
  OBVIOUS
<1>1. Shape /\ Unbraided /\ Light \in Nat
  BY LedgerClientAssumption DEF Snapped, Unbraided, AgreementInv
<1>2. \A i \in AnyTx : Of(i) = {} /\ Listing(i)
  BY <1>1, Listed DEF Snapped, Of
<1>3. Counted = Visible /\ Held = Shown /\ Behind = Visible \ Shown
  BY <1>1, <1>2, Finites, VisibleRows DEF Listing
<1>4. CountsAll
  BY <1>1, <1>3, VisibleRows DEF CountsAll, Snapped
<1>5. DOMAIN Page(0, Light) = {i \in Visible : Rank(i) \in 0 .. 0 + Light - 1}
  BY <1>1, PageRanks, Zenon
<1>6. Shown = {i \in Visible : Rank(i) \in 0 .. Light - 1}
  BY <1>1, <1>5 DEF Shown, Snapped
<1>7. ASSUME NEW j \in Shown, NEW i \in Visible \ Shown PROVE NewerThan(j, i)
  <2>1. Rank(i) \in Nat /\ Rank(j) \in Nat
    BY <1>1, <1>6, Ranks, VisibleRows
  <2>2. Rank(j) < Rank(i)
    BY <1>1, <1>6, <2>1
  <2> QED
    BY <1>1, <1>6, <2>2, Ranks
<1> QED
  BY <1>3, <1>4, <1>7

-----------------------------------------------------------------------------
(* What a step keeps that leaves the fill alone.                           *)

SameDates == \A i \in DOMAIN srvTx \cap DOMAIN srvTx' : srvTx'[i].date = srvTx[i].date

\* What is on its way is visible, and nothing is asked of it.
LEMMA ArrivingRows == Unbraided => Arriving \subseteq Visible /\ \A i \in Arriving : Of(i) = {}
<1> SUFFICES ASSUME Unbraided, NEW i \in Arriving PROVE i \in Visible /\ Of(i) = {}
  OBVIOUS
<1>1. Shape /\ fill # None
  BY DEF Unbraided, AgreementInv, Arriving
<1>2. i \in DOMAIN fill.pending \/ (fill.stage = "answered" /\ i \in DOMAIN fill.page)
  BY <1>1 DEF Arriving
<1>3. i \in AnyTx
  BY <1>1, <1>2, GoodRows DEF Shape, ShownOK, FillOK, IsAsked, IsAnswered
<1>4. RowInv(i)
  BY <1>3 DEF Unbraided, Clean, AgreementInv
<1> QED
  BY <1>1, <1>2, <1>4 DEF RowInv, Images, Alone, AsSaved, Visible

LEMMA OrderKept ==
    ASSUME Unbraided, Unbraided', InOrder, SameDates, fill' = fill, Behind' \subseteq Behind,
           (Held \cap Visible)' \subseteq Held \cap Visible
    PROVE  InOrder'
<1>1. Behind \subseteq Visible /\ Visible \subseteq DOMAIN srvTx
  BY DEF Behind, Visible
<1>2. (Behind \subseteq Visible /\ Visible \subseteq DOMAIN srvTx)'
  BY DEF Behind, Visible
<1>3. Arriving' = Arriving
  BY DEF Arriving
<1>4. Arriving \subseteq Visible
  BY ArrivingRows
<1>5. (Unbraided => Arriving \subseteq Visible /\ \A i \in Arriving : Of(i) = {})'
  BY ArrivingRows, PTL
<1>6. \A i, j \in DOMAIN srvTx \cap DOMAIN srvTx' : NewerThan(i, j)' <=> NewerThan(i, j)
  BY DEF SameDates, NewerThan
<1>7. ASSUME NEW j \in (Held \cap Visible)', NEW i \in Behind' PROVE NewerThan(j, i)'
  <2>1. NewerThan(j, i)
    BY DEF InOrder
  <2>2. i \in DOMAIN srvTx \cap DOMAIN srvTx' /\ j \in DOMAIN srvTx \cap DOMAIN srvTx'
    BY <1>1, <1>2
  <2> QED
    BY <1>6, <2>1, <2>2
<1>8. ASSUME NEW j \in Arriving', NEW i \in (Behind \ Arriving)' PROVE NewerThan(j, i)'
  <2>1. NewerThan(j, i)
    BY <1>3 DEF InOrder
  <2>2. i \in DOMAIN srvTx \cap DOMAIN srvTx' /\ j \in DOMAIN srvTx \cap DOMAIN srvTx'
    BY <1>1, <1>2, <1>3, <1>4, <1>5
  <2> QED
    BY <1>6, <2>1, <2>2
<1> QED
  BY <1>7, <1>8 DEF InOrder

LEMMA VisibleFinite == Shape => IsFiniteSet(Visible)
BY VisibleRows

LEMMA RanksKept ==
    ASSUME Shape, Shape', SameDates, Visible \subseteq Visible', NEW i \in Visible
    PROVE  Rank(i) \in Nat /\ Rank(i)' \in Nat /\ Rank(i)' >= Rank(i)
<1> DEFINE N == {j \in Visible : NewerThan(j, i)}
<1>1. Visible \subseteq DOMAIN srvTx /\ Visible' \subseteq DOMAIN srvTx'
  BY DEF Visible
<1>2. N \subseteq N'
  BY <1>1 DEF SameDates, NewerThan
<1>3. IsFiniteSet(Visible) /\ IsFiniteSet(Visible')
  <2>1. (Shape => IsFiniteSet(Visible))'
    BY VisibleFinite, PTL
  <2> QED
    BY <2>1, VisibleRows
<1>4. N \subseteq Visible /\ N' \subseteq Visible'
  OBVIOUS
<1>5. Rank(i) = Cardinality(N) /\ Rank(i)' = Cardinality(N')
  BY DEF Rank
<1> HIDE DEF N
<1>6. IsFiniteSet(N) /\ IsFiniteSet(N')
  BY <1>3, <1>4, FS_Subset
<1> QED
  BY <1>2, <1>5, <1>6, FS_Subset, FS_CardinalityType

LEMMA FinitesHere ==
    Shape => /\ Held \subseteq AnyTx /\ Behind \subseteq AnyTx /\ Counted \subseteq AnyTx
             /\ Standing \subseteq AnyTx /\ Shown \subseteq AnyTx /\ Visible \subseteq AnyTx
             /\ IsFiniteSet(Held) /\ IsFiniteSet(Counted) /\ IsFiniteSet(Standing)
             /\ IsFiniteSet(Shown) /\ IsFiniteSet(Visible)
BY Finites, VisibleRows

LEMMA Smaller ==
    ASSUME NEW S, NEW T, IsFiniteSet(T), S \subseteq T
    PROVE  /\ IsFiniteSet(S) /\ Cardinality(S) \in Nat /\ Cardinality(T) \in Nat
           /\ Cardinality(S) <= Cardinality(T)
BY FS_Subset, FS_CardinalityType

LEMMA FillNumbers ==
    ASSUME Shape, fill # None
    PROVE  /\ fill.stage \in {"asked", "answered"} /\ fill.offset \in Nat
           /\ Good(fill.pending) /\ Size(fill.pending) \in Nat
           /\ fill.stage = "answered" => /\ Good(fill.page) /\ Size(fill.page) \in Nat
                                         /\ fill.count \in Nat
           /\ GotTo \in Nat
<1>1. IsAsked(fill) \/ IsAnswered(fill)
  BY DEF Shape, ShownOK, FillOK
<1>2. /\ fill.stage \in {"asked", "answered"} /\ fill.offset \in Nat /\ Good(fill.pending)
      /\ fill.stage = "answered" => Good(fill.page) /\ fill.count \in Nat
  BY <1>1 DEF IsAsked, IsAnswered
<1>3. Size(fill.pending) \in Nat /\ (fill.stage = "answered" => Size(fill.page) \in Nat)
  BY <1>2, SizeNat
<1> QED
  BY <1>2, <1>3 DEF GotTo

LEMMA ReachesKept ==
    ASSUME Shape, Shape', SameDates, fill # None, fill' = fill, txProgress' = txProgress, FillReaches,
           Behind' \subseteq Behind, Held' \subseteq Held, Standing' \subseteq Standing,
           InPlace' => InPlace /\ Visible \subseteq Visible'
    PROVE  FillReaches'
<1>1. Arriving' = Arriving /\ GotTo' = GotTo
  BY DEF Arriving, GotTo
<1>2. fill.offset \in Nat /\ Size(fill.pending) \in Nat /\ GotTo \in Nat
      /\ (fill.stage = "answered" => fill.count \in Nat)
  BY FillNumbers
<1>3. ASSUME InPlace', NEW i \in (Behind \ Arriving)' PROVE Rank(i)' >= GotTo'
  <2>1. Rank(i) >= GotTo /\ i \in Visible
    BY <1>1, <1>3 DEF FillReaches, Behind
  <2>2. Rank(i) \in Nat /\ Rank(i)' \in Nat /\ Rank(i)' >= Rank(i)
    BY <1>3, <2>1, RanksKept
  <2> QED
    BY <1>1, <1>2, <2>1, <2>2
<1>4. /\ Cardinality(Held') \in Nat /\ Cardinality(Held) \in Nat
      /\ Cardinality(Held') <= Cardinality(Held)
  BY FinitesHere, Smaller
<1>5. Cardinality(Held') + Size(fill'.pending) <= fill'.offset
  <2>1. Cardinality(Held) + Size(fill.pending) <= fill.offset
    BY DEF FillReaches
  <2> QED
    BY <1>2, <1>4, <2>1
<1>6. ASSUME fill.stage = "answered"
      PROVE  /\ Size(fill'.page) < TX_CHUNK => Behind' \subseteq Arriving'
             /\ Cardinality(Standing') <= fill'.count
  <2>1. /\ Cardinality(Standing') \in Nat /\ Cardinality(Standing) \in Nat
        /\ Cardinality(Standing') <= Cardinality(Standing)
    BY FinitesHere, Smaller
  <2>2. Cardinality(Standing) <= fill.count /\ (Size(fill.page) < TX_CHUNK => Behind \subseteq Arriving)
    BY <1>6 DEF FillReaches
  <2>3. Cardinality(Standing') <= fill.count
    BY <1>2, <1>6, <2>1, <2>2
  <2> QED
    BY <1>1, <2>2, <2>3
<1>7. txProgress'
  BY DEF FillReaches
<1> QED
  BY <1>3, <1>5, <1>6, <1>7 DEF FillReaches

LEMMA Framed ==
    ASSUME Unbraided, Unbraided', History, UNCHANGED <<fill, loads, txProgress>>, SameDates,
           Behind' \subseteq Behind, Held' \subseteq Held, (Held \cap Visible)' \subseteq Held \cap Visible,
           Standing' \subseteq Standing,
           fill # None => (InPlace' => InPlace /\ Visible \subseteq Visible'),
           CountsAll', Fresh', Orderly'
    PROVE  History'
<1>1. Shape /\ Shape'
  BY DEF Unbraided, AgreementInv
<1>2. InOrder'
  BY OrderKept DEF History
<1>3. fill' # None => FillReaches'
  BY <1>1, ReachesKept DEF History
<1>4. fill' = None /\ (\A l \in loads' : ~l.current) => Behind' = {}
  BY DEF History
<1> QED
  BY <1>2, <1>3, <1>4 DEF History

\* As many rows are counted, or one more or one less, as the total says.
LEMMA CountKept ==
    ASSUME Shape, Shape', CountsAll, Counted' \subseteq Counted, ledger'.total = ledger.total
    PROVE  CountsAll'
<1>1. /\ Cardinality(Counted') \in Nat /\ Cardinality(Counted) \in Nat
      /\ Cardinality(Counted') <= Cardinality(Counted)
  BY FinitesHere, Smaller
<1>2. ledger.total \in Nat
  BY DEF Shape, ShownOK, LedgerOK
<1> QED
  BY <1>1, <1>2 DEF CountsAll

LEMMA CountMore ==
    ASSUME Shape, CountsAll, NEW t, Counted' \subseteq Counted \cup {t}, ledger'.total = ledger.total + 1
    PROVE  CountsAll'
<1>1. IsFiniteSet(Counted) /\ Cardinality(Counted) \in Nat
  BY FinitesHere, FS_CardinalityType
<1>2. IsFiniteSet(Counted \cup {t}) /\ Cardinality(Counted \cup {t}) <= Cardinality(Counted) + 1
      /\ Cardinality(Counted \cup {t}) \in Nat
  <2> DEFINE S == Counted
  <2>1. IsFiniteSet(S) /\ Cardinality(S) \in Nat
    BY <1>1
  <2> HIDE DEF S
  <2>2. /\ IsFiniteSet(S \cup {t})
        /\ Cardinality(S \cup {t}) = IF t \in S THEN Cardinality(S) ELSE Cardinality(S) + 1
    BY <2>1, FS_AddElement
  <2>3. IsFiniteSet(S \cup {t}) /\ Cardinality(S \cup {t}) <= Cardinality(S) + 1
        /\ Cardinality(S \cup {t}) \in Nat
    BY <2>1, <2>2
  <2> QED
    BY <2>3 DEF S
<1>3. /\ Cardinality(Counted') \in Nat /\ Cardinality(Counted') <= Cardinality(Counted \cup {t})
  BY <1>2, Smaller
<1>4. ledger.total \in Nat
  BY DEF Shape, ShownOK, LedgerOK
<1> QED
  BY <1>1, <1>2, <1>3, <1>4 DEF CountsAll

LEMMA CountLess ==
    ASSUME Shape, CountsAll, NEW T, T \subseteq Counted, Counted' \subseteq Counted \ T,
           ledger'.total = Greater(0, ledger.total - Cardinality(T))
    PROVE  CountsAll'
<1>1. IsFiniteSet(Counted) /\ Cardinality(Counted) \in Nat
  BY FinitesHere, FS_CardinalityType
<1>2. IsFiniteSet(T) /\ Cardinality(T) \in Nat
  BY <1>1, Smaller
<1>3. /\ IsFiniteSet(Counted \ T) /\ Cardinality(Counted \ T) \in Nat
      /\ Cardinality(Counted \ T) = Cardinality(Counted) - Cardinality(T)
  <2>1. Counted \cap T = T
    OBVIOUS
  <2> QED
    BY <1>1, <1>2, <2>1, FS_Difference, FS_CardinalityType
<1>4. /\ Cardinality(Counted') \in Nat /\ Cardinality(Counted') <= Cardinality(Counted \ T)
  BY <1>3, Smaller
<1>5. ledger.total \in Nat
  BY DEF Shape, ShownOK, LedgerOK
<1>6. Cardinality(Counted) <= ledger.total
  BY DEF CountsAll
<1>7. ledger'.total >= ledger.total - Cardinality(T) /\ ledger'.total \in Int
  BY <1>2, <1>5 DEF Greater
<1> QED
  BY <1>1, <1>2, <1>3, <1>4, <1>5, <1>6, <1>7 DEF CountsAll

-----------------------------------------------------------------------------
(* The person's requests.                                                  *)

Rows ==
    /\ Shape /\ doubt = {} /\ shifted = {}
    /\ \A i \in AnyTx : RowInv(i) /\ Where(i) /\ Listing(i)
    /\ Held \subseteq AnyTx /\ Behind \subseteq AnyTx /\ Counted \subseteq AnyTx
    /\ Standing \subseteq AnyTx /\ Shown \subseteq AnyTx /\ Visible \subseteq AnyTx

LEMMA RowsHere == Unbraided => Rows
<1> SUFFICES ASSUME Unbraided PROVE Rows
  OBVIOUS
<1>1. Shape /\ doubt = {} /\ shifted = {} /\ \A i \in AnyTx : RowInv(i)
  BY DEF Unbraided, Clean, AgreementInv
<1>2. \A i \in AnyTx : Where(i) /\ Listing(i)
  BY Listed, WhereRows
<1> QED
  BY <1>1, <1>2, FinitesHere DEF Rows

LEMMA RowsThen == ASSUME Unbraided' PROVE Rows'
<1>1. (Unbraided => Rows)'
  BY RowsHere, PTL
<1> QED
  BY <1>1

\* The rows of a request that leaves are asked nothing else.
LEMMA LeavesAlone ==
    ASSUME Unbraided, Unbraided', NEW kind, NEW tx, NEW what, Do(kind, tx, what),
           CallOK(Call(kind, tx, what)), Touched(kind, tx) # {}
    PROVE  /\ loads = {} /\ UNCHANGED server /\ Visible' = Visible /\ SameDates
           /\ InPlace' => InPlace
           /\ \E c : /\ c.kind = kind /\ c.tx = tx /\ c.what = what /\ c.stage = "sent"
                     /\ calls' = calls \cup {c}
                     /\ \A i \in AnyTx : IF i \in Touched(kind, tx) THEN Of(i) = {} /\ Of(i)' = {c}
                                         ELSE Of(i)' = Of(i)
<1> DEFINE c == Call(kind, tx, what)
<1>1. Shape /\ doubt' = {} /\ \A i \in AnyTx : RowInv(i)
  BY RowsHere, RowsThen DEF Rows
<1>2. Touched(kind, tx) \subseteq AnyTx
  <2>1. c.kind = kind /\ c.tx = tx
    BY DEF Call
  <2> QED
    BY <2>1, TouchedRows
<1>3. \A i \in AnyTx : \A d, e \in Of(i)' : d = e
  BY DEF Unbraided, Braided
<1>4. ASSUME NEW i \in AnyTx
      PROVE  /\ c.kind = kind /\ c.tx = tx /\ c.what = what /\ c.stage = "sent"
             /\ i \in Touched(kind, tx) => Of(i) = {} /\ Of(i)' = {c} /\ loads = {}
             /\ i \notin Touched(kind, tx) => Of(i)' = Of(i)
  <2>1. /\ c.kind = kind /\ c.tx = tx /\ c.stage = "sent" /\ c.what = what
        /\ \A d \in calls : d.n \in Nat /\ d.n < c.n
        /\ i \notin Touched(kind, tx) => Of(i)' = Of(i)
        /\ i \in Touched(kind, tx) => Of(i)' = Of(i) \cup {c} /\ loads = {}
    BY <1>1, DoRow
  <2>2. Of(i) \subseteq calls /\ c \notin calls
    BY <2>1 DEF Of
  <2> HIDE DEF c
  <2> QED
    BY <1>3, <2>1, <2>2
<1>5. calls' = calls \cup {c} /\ UNCHANGED server
  BY DEF Do
<1> HIDE DEF c
<1>6. loads = {} /\ c.kind = kind /\ c.tx = tx /\ c.what = what /\ c.stage = "sent"
  BY <1>2, <1>4
<1>7. Visible' = Visible /\ SameDates
  BY <1>5 DEF server, Visible, SameDates
<1>8. InPlace' => InPlace
  BY <1>5 DEF InPlace
<1> QED
  BY <1>4, <1>5, <1>6, <1>7, <1>8

\* What they are listed as, before and after.
LEMMA LeavesListed ==
    ASSUME Unbraided, Unbraided', NEW kind, NEW tx, NEW what, Do(kind, tx, what),
           CallOK(Call(kind, tx, what)), Touched(kind, tx) # {},
           \A i \in AnyTx \ Touched(kind, tx) : i \in Shown' <=> i \in Shown,
           kind \in {"patch", "splits", "delete", "hide"} => tx \in Shown,
           kind = "deleteLegs" => Shown' = Shown,
           NEW i \in AnyTx
    PROVE  /\ i \in Held' => i \in Held
           /\ i \in Behind' => i \in Behind
           /\ i \in Standing' => i \in Standing
           /\ IF i \in Touched(kind, tx)
              THEN /\ kind \in {"create", "delete", "hide"} => i \notin Counted'
                   /\ kind \in {"patch", "splits", "delete", "hide"} => i \in Counted
                   /\ i \in Counted <=> i \in Visible
              ELSE i \in Counted' <=> i \in Counted
<1>1. PICK c : /\ c.kind = kind /\ c.tx = tx
               /\ \A j \in AnyTx : IF j \in Touched(kind, tx) THEN Of(j) = {} /\ Of(j)' = {c}
                                   ELSE Of(j)' = Of(j)
  BY LeavesAlone
<1>2. Visible' = Visible
  BY LeavesAlone
<1>3. CASE i \notin Touched(kind, tx)
  BY <1>1, <1>2, <1>3, SameListing
<1>4. CASE i \in Touched(kind, tx)
  <2>1. Of(i) = {} /\ c \in Of(i)'
    BY <1>1, <1>4
  <2>2. Listing(i)
    BY RowsHere DEF Rows
  <2>4. Listing(i)'
    BY RowsThen DEF Rows
  <2>5. kind # "deleteLegs" => i = tx
    BY <1>4 DEF Touched
  <2>6. kind \in {"create", "patch", "splits", "delete", "deleteLegs", "hide", "unhide"}
    <3>1. Call(kind, tx, what).kind = kind
      BY DEF Call
    <3> QED
      BY <3>1 DEF CallOK, Hiding
  <2>7. /\ i \in Held <=> i \in Shown
        /\ i \in Behind <=> i \in Visible /\ i \notin Shown
        /\ i \in Counted <=> i \in Visible
        /\ i \in Standing <=> i \in Visible
        /\ i \in Shown => i \in Visible
    BY <2>1, <2>2 DEF Listing
  <2>8. /\ kind = "create" => i \notin Held' /\ i \notin Behind' /\ i \notin Counted' /\ i \notin Standing'
        /\ kind \in {"patch", "splits"} => i \notin Behind'
        /\ kind \in {"delete", "hide"} => i \notin Behind' /\ i \notin Counted' /\ (i \in Standing' <=> i \in Visible')
        /\ kind = "unhide" => i \notin Held' /\ i \notin Behind' /\ i \notin Standing'
        /\ kind = "deleteLegs" =>
              /\ i \in Held' <=> i \in Shown'
              /\ i \in Behind' <=> i \in Visible' /\ i \notin Shown'
              /\ (i \in Standing' <=> i \in Visible')
    BY <1>1, <2>1, <2>4 DEF Listing
  <2> QED
    BY <1>2, <1>4, <2>5, <2>6, <2>7, <2>8
<1> QED
  BY <1>3, <1>4

LEMMA LeavesHistory ==
    ASSUME Unbraided, Unbraided', History, NEW kind, NEW tx, NEW what, Do(kind, tx, what),
           CallOK(Call(kind, tx, what)), Touched(kind, tx) # {}, UNCHANGED <<fill, loads, txProgress>>,
           \A i \in AnyTx \ Touched(kind, tx) : i \in Shown' <=> i \in Shown,
           kind \in {"patch", "splits", "delete", "hide"} => tx \in Shown,
           kind = "deleteLegs" => Shown' = Shown,
           kind = "patch" => what.field = "categoryId", kind = "delete" => ~txProgress,
           CountsAll'
    PROVE  History'
<1>1. /\ loads = {} /\ UNCHANGED server /\ Visible' = Visible /\ SameDates
      /\ InPlace' => InPlace
  BY LeavesAlone
<1>2. PICK c : /\ c.kind = kind /\ c.tx = tx /\ c.what = what /\ calls' = calls \cup {c}
  BY LeavesAlone
<1>3. Behind' \subseteq Behind /\ Held' \subseteq Held /\ Standing' \subseteq Standing
  <2>1. Behind' \subseteq AnyTx /\ Held' \subseteq AnyTx /\ Standing' \subseteq AnyTx
    BY RowsThen DEF Rows
  <2> QED
    BY <2>1, LeavesListed
<1>4. (Held \cap Visible)' \subseteq Held \cap Visible
  BY <1>1, <1>3
<1>5. Fresh'
  BY <1>1 DEF Fresh
<1>6. Orderly'
  <2>1. kind = "deleteLegs" => Legs # {}
    BY DEF Touched
  <2>2. \A d \in calls' : d \in calls \/ d = c
    BY <1>2
  <2>3. \A d \in calls' : /\ d.kind = "patch" => d.what.field = "categoryId"
                          /\ d.kind = "delete" => ~txProgress'
                          /\ d.kind = "deleteLegs" => Legs # {}
    BY <1>2, <2>1, <2>2 DEF History, Orderly
  <2> QED
    BY <1>1, <2>3 DEF History, Orderly, server
<1> QED
  BY <1>1, <1>3, <1>4, <1>5, <1>6, Framed

LEMMA CreateHistory ==
    ASSUME Unbraided, Unbraided', History, NEW date \in Tx, AddTransaction(date)
    PROVE  History'
<1>1. PICK what : /\ Do("create", LastTx + asked + 1, what)
                  /\ CallOK(Call("create", LastTx + asked + 1, what))
                  /\ UNCHANGED <<client, newest, shifted>>
  BY RowsHere, AddShape DEF Rows
<1> DEFINE t == LastTx + asked + 1
<1>2. Touched("create", t) = {t}
  BY DEF Touched
<1>3. UNCHANGED <<fill, loads, txProgress, ledger>> /\ Shown' = Shown
  BY <1>1 DEF client, Shown
<1> HIDE DEF t
<1>4. CountsAll'
  <2>1. Counted' \subseteq AnyTx
    BY RowsThen DEF Rows
  <2>2. \A i \in AnyTx : i \in Counted' => i \in Counted
    BY <1>1, <1>2, <1>3, LeavesListed DEF t
  <2> QED
    BY <1>3, <2>1, <2>2, RowsHere, RowsThen, CountKept DEF Rows, History
<1> QED
  BY <1>1, <1>2, <1>3, <1>4, LeavesHistory DEF t

\* A category or parts written, in a row that is shown.
LEMMA WriteHistory ==
    ASSUME Unbraided, Unbraided', History, NEW kind \in {"patch", "splits"}, NEW i, NEW what,
           Do(kind, i, what), CallOK(Call(kind, i, what)), i \in Shown, Shown' = Shown,
           UNCHANGED <<fill, loads, txProgress>>, ledger'.total = ledger.total,
           kind = "patch" => what.field = "categoryId"
    PROVE  History'
<1>1. Touched(kind, i) = {i}
  BY DEF Touched
<1>2. CountsAll'
  <2>1. Counted' \subseteq AnyTx
    BY RowsThen DEF Rows
  <2>2. \A j \in AnyTx : j \in Counted' => j \in Counted
    BY <1>1, LeavesListed
  <2> QED
    BY <2>1, <2>2, RowsHere, RowsThen, CountKept DEF Rows, History
<1> QED
  BY <1>1, <1>2, LeavesHistory

LEMMA UpdateHistory ==
    ASSUME Unbraided, Unbraided', History, NEW i, NEW field \in Field, NEW value, Fits(field, value),
           UpdateTransaction(i, field, value)
    PROVE  History'
<1> DEFINE what == [field |-> field, value |-> value, before |-> ledger.rows[i][field]]
           row == [ledger.rows[i] EXCEPT ![field] = value]
<1>1. /\ Do("patch", i, what) /\ CallOK(Call("patch", i, what))
      /\ i \in DOMAIN ledger.rows /\ i \in AnyTx \ Legs
      /\ ledger'.rows = [ledger.rows EXCEPT ![i] = row]
      /\ revisions'.split = revisions.split /\ revisions'.hidden = revisions.hidden
      /\ revisions'.field = [revisions.field EXCEPT ![<<i, field>>] = asked + 1]
      /\ UNCHANGED <<txProgress, fill, loads, hiddenTx, hiddenLoad, shownEpoch>>
  <2>1. Shape
    BY RowsHere DEF Rows
  <2>2. Shape' /\ (/\ Do("patch", i, what) /\ CallOK(Call("patch", i, what))
                   /\ i \in DOMAIN ledger.rows /\ i \in AnyTx \ Legs /\ row \in RowOf(i)
                   /\ ledger'.rows = [ledger.rows EXCEPT ![i] = row]
                   /\ revisions'.split = revisions.split /\ revisions'.hidden = revisions.hidden
                   /\ revisions'.field = [revisions.field EXCEPT ![<<i, field>>] = asked + 1]
                   /\ UNCHANGED <<txProgress, fill, loads, hiddenTx, hiddenLoad, shownEpoch>>)
    BY <2>1, UpdateShape, Zenon
  <2> QED
    BY <2>2
<1>2. field = "categoryId"
  <2>1. shifted' = {}
    BY RowsThen DEF Rows
  <2> QED
    BY <2>1 DEF UpdateTransaction, Field
<1>3. ledger'.total = ledger.total
  <2>1. LedgerOK(ledger)
    BY RowsHere DEF Rows, Shape, ShownOK
  <2> QED
    BY <1>1, <2>1, FieldEdited DEF UpdateTransaction
<1>4. what.field = "categoryId"
  BY <1>2
<1>5. i \in Shown /\ Shown' = Shown
  BY <1>1 DEF Shown
<1> HIDE DEF what, row
<1> QED
  BY <1>1, <1>3, <1>4, <1>5, WriteHistory

LEMMA SplitsHistory ==
    ASSUME Unbraided, Unbraided', History, NEW i, NEW parts \in {0, 1}, ReplaceTransactionSplits(i, parts)
    PROVE  History'
<1> DEFINE what == [parts |-> parts, before |-> ledger.rows[i]]
<1>1. /\ Do("splits", i, what) /\ CallOK(Call("splits", i, what))
      /\ i \in DOMAIN ledger.rows /\ ledger'.rows = [ledger.rows EXCEPT ![i] = Parted(ledger.rows[i], parts)]
      /\ UNCHANGED <<txProgress, fill, loads>>
  <2>1. Shape
    BY RowsHere DEF Rows
  <2> QED
    BY <2>1, SplitsShape
<1> HIDE DEF what
<1>2. ledger'.total = ledger.total
  <2>1. LedgerOK(ledger)
    BY RowsHere DEF Rows, Shape, ShownOK
  <2> QED
    BY <1>1, <2>1, RowEdited DEF ReplaceTransactionSplits
<1>3. i \in Shown /\ Shown' = Shown
  BY <1>1 DEF Shown
<1> QED
  BY <1>1, <1>2, <1>3, WriteHistory

\* A row that is shown no longer.
LEMMA TakeHistory ==
    ASSUME Unbraided, Unbraided', History, NEW kind \in {"delete", "hide"}, NEW i, NEW what,
           Do(kind, i, what), CallOK(Call(kind, i, what)), i \in Shown, ledger' = Dropped({i}),
           UNCHANGED <<fill, loads, txProgress>>, kind = "delete" => ~txProgress
    PROVE  History'
<1>1. Touched(kind, i) = {i}
  BY DEF Touched
<1>2. Shape /\ Shape' /\ Good(ledger.rows)
  BY RowsHere, RowsThen DEF Rows, Shape, ShownOK, LedgerOK
<1>3. /\ ledger'.rows = Without(ledger.rows, {i})
      /\ ledger'.total = Greater(0, ledger.total - Cardinality({i}))
  BY DEF Dropped
<1>4. Shown' = Shown \ {i}
  BY <1>2, <1>3, WithoutGood DEF Shown
<1>5. CountsAll'
  <2>1. Counted' \subseteq AnyTx /\ i \in AnyTx
    BY RowsHere, RowsThen DEF Rows
  <2>2. \A j \in AnyTx : /\ j \in Counted' => j \in Counted /\ j # i
                         /\ j = i => j \in Counted
    <3> TAKE j \in AnyTx
    <3>1. IF j \in Touched(kind, i)
          THEN /\ kind \in {"create", "delete", "hide"} => j \notin Counted'
               /\ kind \in {"patch", "splits", "delete", "hide"} => j \in Counted
          ELSE j \in Counted' <=> j \in Counted
      BY <1>1, <1>4, LeavesListed
    <3> QED
      BY <1>1, <3>1
  <2>3. {i} \subseteq Counted /\ Counted' \subseteq Counted \ {i}
    BY <2>1, <2>2
  <2>4. CountsAll
    BY DEF History
  <2> QED
    BY <1>2, <1>3, <2>3, <2>4, CountLess
<1> QED
  BY <1>1, <1>4, <1>5, LeavesHistory

LEMMA DeleteHistory ==
    ASSUME Unbraided, Unbraided', History, NEW i, DeleteTransaction(i)
    PROVE  History'
<1> DEFINE what == [before |-> ledger.rows[i]]
<1>1. /\ Do("delete", i, what) /\ CallOK(Call("delete", i, what))
      /\ i \in DOMAIN ledger.rows
      /\ UNCHANGED <<txProgress, fill, loads>>
  <2>1. Shape
    BY RowsHere DEF Rows
  <2> QED
    BY <2>1, DeleteShape
<1> HIDE DEF what
<1>2. ~txProgress /\ ledger' = Dropped({i})
  <2>1. shifted' = {}
    BY RowsThen DEF Rows
  <2> QED
    BY <2>1 DEF DeleteTransaction
<1> QED
  BY <1>1, <1>2, TakeHistory DEF Shown

LEMMA HideHistory ==
    ASSUME Unbraided, Unbraided', History, NEW i, HideTx(i)
    PROVE  History'
<1> DEFINE what == [before |-> ledger.rows[i]]
<1>1. /\ Do("hide", i, what) /\ CallOK(Call("hide", i, what))
      /\ i \in DOMAIN ledger.rows
      /\ UNCHANGED <<txProgress, fill, loads>>
  <2>1. Shape
    BY RowsHere DEF Rows
  <2> QED
    BY <2>1, HideShape
<1> HIDE DEF what
<1>2. ledger' = Dropped({i})
  BY DEF HideTx
<1> QED
  BY <1>1, <1>2, TakeHistory DEF Shown

LEMMA UnhideHistory ==
    ASSUME Unbraided, Unbraided', History, NEW i, UnhideTx(i)
    PROVE  History'
<1> DEFINE what == [before |-> hiddenTx[i]]
<1>1. /\ Do("unhide", i, what) /\ CallOK(Call("unhide", i, what))
      /\ hiddenTx # None /\ i \in DOMAIN hiddenTx /\ i \in AnyTx \ Legs
      /\ Good(hiddenTx) /\ Good(Only(hiddenTx, {i}))
      /\ ledger'.rows = MergeTransactions(ledger.rows, Only(hiddenTx, {i}))
      /\ UNCHANGED <<txProgress, fill, loads>>
  <2>1. Shape
    BY RowsHere DEF Rows
  <2> QED
    BY <2>1, UnhideShape
<1> HIDE DEF what
<1>2. Touched("unhide", i) = {i}
  BY DEF Touched
<1>3. Shape /\ Shape' /\ Good(ledger.rows)
  BY RowsHere, RowsThen DEF Rows, Shape, ShownOK, LedgerOK
<1>4. DOMAIN Only(hiddenTx, {i}) = {i}
  BY DEF Only
<1>5. Shown' = Shown \cup {i}
  <2> DEFINE one == Only(hiddenTx, {i})
  <2>1. Good(one) /\ DOMAIN one = {i} /\ ledger'.rows = MergeTransactions(ledger.rows, one)
    BY <1>1, <1>4
  <2> HIDE DEF one
  <2>2. DOMAIN MergeTransactions(ledger.rows, one) = DOMAIN ledger.rows \cup DOMAIN one
    BY DEF MergeTransactions
  <2> QED
    BY <2>1, <2>2 DEF Shown
<1>6. ledger'.total = ledger.total + 1
  <2>1. Size(Only(hiddenTx, {i})) = 1
    BY <1>4, FS_Singleton DEF Size
  <2> QED
    BY <2>1 DEF UnhideTx, Kept
<1>7. CountsAll'
  <2>1. Counted' \subseteq AnyTx
    BY RowsThen DEF Rows
  <2>2. \A j \in AnyTx : j \in Counted' => j \in Counted \cup {i}
    BY <1>1, <1>2, <1>5, LeavesListed
  <2>3. Counted' \subseteq Counted \cup {i}
    BY <2>1, <2>2
  <2>4. CountsAll
    BY DEF History
  <2> QED
    BY <1>3, <1>6, <2>3, <2>4, CountMore
<1> QED
  BY <1>1, <1>2, <1>5, <1>7, LeavesHistory

LEMMA DeleteLegsHistory ==
    ASSUME Unbraided, Unbraided', History, DeleteTransferWithLegs
    PROVE  History'
<1> DEFINE tx == CHOOSE i \in Legs : TRUE
<1>1. /\ Do("deleteLegs", tx, <<>>) /\ CallOK(Call("deleteLegs", tx, <<>>))
      /\ UNCHANGED <<client, newest, shifted>>
  <2>1. Shape
    BY RowsHere DEF Rows
  <2> QED
    BY <2>1, DeleteLegsShape
<1>2. PICK l \in Legs : l \in Shown
  BY DEF DeleteTransferWithLegs, Shown
<1> HIDE DEF tx
<1>3. Touched("deleteLegs", tx) = Legs /\ Legs # {} /\ Legs \subseteq AnyTx
  BY <1>2, Ids DEF Touched
<1>4. UNCHANGED <<fill, loads, txProgress, ledger>> /\ Shown' = Shown
  BY <1>1 DEF client, Shown
<1>5. \A i \in Legs : Of(i) = {}
  BY <1>1, <1>3, LeavesAlone
<1>6. Legs \subseteq Visible
  <2>1. l \in Visible
    BY <1>2, <1>3, <1>5, RowsHere DEF Rows, Listing
  <2>2. l \in DOMAIN srvTx
    BY <2>1 DEF Visible
  <2>3. Legs \subseteq DOMAIN srvTx
    BY <2>2 DEF History, Orderly
  <2>4. srvHidden \cap Legs = {}
    BY RowsHere DEF Rows, Shape, ServerOK
  <2> QED
    BY <2>3, <2>4 DEF Visible
<1>7. CountsAll'
  <2>1. Counted' \subseteq AnyTx
    BY RowsThen DEF Rows
  <2>2. \A i \in AnyTx : i \in Counted' => i \in Counted
    <3> TAKE i \in AnyTx
    <3>1. IF i \in Legs THEN i \in Counted <=> i \in Visible ELSE i \in Counted' <=> i \in Counted
      BY <1>1, <1>3, <1>4, LeavesListed
    <3> QED
      BY <1>6, <3>1
  <2>3. ledger'.total = ledger.total /\ Counted' \subseteq Counted
    BY <1>4, <2>1, <2>2
  <2> QED
    BY <2>3, RowsHere, RowsThen, CountKept DEF Rows, History
<1> QED
  BY <1>1, <1>3, <1>4, <1>7, LeavesHistory

-----------------------------------------------------------------------------
(* The server's decisions.                                                 *)

LEMMA Restages ==
    ASSUME Unbraided, Unbraided', NEW c \in calls, NEW stage \in {"accepted", "refused"}, CallAt(c, stage)
    PROVE  \E d : /\ d.kind = c.kind /\ d.tx = c.tx /\ d.what = c.what /\ d.stage = stage
                  /\ calls' = (calls \ {c}) \cup {d}
                  /\ \A i \in AnyTx : IF i \in Touched(c.kind, c.tx) THEN Of(i) = {c} /\ Of(i)' = {d}
                                      ELSE Of(i)' = Of(i)
<1>1. PICK d : d = [c EXCEPT !.stage = stage]
  OBVIOUS
<1>2. Shape
  BY RowsHere DEF Rows
<1>3. calls' = (calls \ {c}) \cup {d}
  BY <1>1 DEF CallAt
<1>4. ASSUME NEW i \in AnyTx
      PROVE  /\ d.kind = c.kind /\ d.tx = c.tx /\ d.what = c.what /\ d.stage = stage
             /\ IF i \in Touched(c.kind, c.tx) THEN Of(i) = {c} /\ Of(i)' = {d} ELSE Of(i)' = Of(i)
  <2>1. d.kind = c.kind /\ d.tx = c.tx /\ d.what = c.what /\ d.stage = stage
    BY <1>1, <1>2, Decided
  <2>2. /\ i \notin Touched(c.kind, c.tx) => Of(i)' = Of(i)
        /\ i \in Touched(c.kind, c.tx) => c \in Of(i) /\ Of(i)' = (Of(i) \ {c}) \cup {d}
    BY <1>1, <1>2, Decided DEF Touched
  <2>3. \A a, b \in Of(i) : a = b
    BY DEF Unbraided, Braided
  <2> QED
    BY <2>1, <2>2, <2>3
<1>5. d.kind = c.kind /\ d.tx = c.tx /\ d.what = c.what /\ d.stage = stage
  BY <1>1, <1>2, Decided
<1> QED
  BY <1>3, <1>4, <1>5

LEMMA DecidedListed ==
    ASSUME Unbraided, Unbraided', NEW c \in calls, c.stage = "sent", NEW stage \in {"accepted", "refused"},
           CallAt(c, stage), UNCHANGED client, NEW i \in AnyTx,
           i \notin Touched(c.kind, c.tx) => SameSaved(i),
           stage = "refused" => UNCHANGED server
    PROVE  /\ i \in Held' => i \in Held
           /\ i \in Behind' => i \in Behind
           /\ i \in Counted' => i \in Counted
           /\ i \in Standing' => i \in Standing
           /\ i \in (Held \cap Visible)' => i \in Held \cap Visible
           /\ stage = "refused" \/ c.kind \notin {"hide", "delete", "deleteLegs"} =>
                 (i \in Visible => i \in Visible')
<1>1. PICK d : /\ d.kind = c.kind /\ d.tx = c.tx /\ d.stage = stage
               /\ \A j \in AnyTx : IF j \in Touched(c.kind, c.tx) THEN Of(j) = {c} /\ Of(j)' = {d}
                                   ELSE Of(j)' = Of(j)
  BY Restages
<1>2. Shown' = Shown
  BY DEF client, Shown
<1>3. Shape /\ Shape' /\ CallOK(c)
  BY RowsHere, RowsThen DEF Rows, Shape, CallsOK
<1>4. CASE i \notin Touched(c.kind, c.tx)
  <2>1. i \in Visible' <=> i \in Visible
    BY <1>4 DEF SameSaved, Visible
  <2> QED
    BY <1>1, <1>2, <1>4, <2>1, SameListing
<1>5. CASE i \in Touched(c.kind, c.tx)
  <2>1. c \in Of(i) /\ d \in Of(i)'
    BY <1>1, <1>5
  <2>2. Listing(i) /\ Where(i) /\ Listing(i)' /\ Where(i)'
    BY RowsHere, RowsThen DEF Rows
  <2>3. c.kind \in {"create", "patch", "splits", "delete", "deleteLegs", "hide", "unhide"}
    BY <1>3 DEF CallOK, Hiding
  <2>4. CASE c.kind = "create"
    BY <1>1, <2>1, <2>2, <2>4 DEF Listing, Where
  <2>5. CASE c.kind \in {"patch", "splits"}
    BY <1>1, <2>1, <2>2, <2>5 DEF Listing, Where
  <2>6. CASE c.kind \in {"delete", "hide"}
    <3>1. i \in Held /\ i \notin Behind' /\ i \notin Counted' /\ i \in Visible /\ (i \in Standing <=> i \in Visible)
      BY <1>1, <2>1, <2>2, <2>6 DEF Listing, Where
    <3>2. stage = "refused" => i \in Visible'
      BY <1>1, <2>1, <2>2, <2>6 DEF Where
    <3> QED
      BY <2>6, <3>1, <3>2
  <2>7. CASE c.kind = "unhide"
    <3>1. i \notin Held' /\ i \notin Behind' /\ i \in Counted /\ i \notin Standing' /\ i \notin Visible
      BY <1>1, <2>1, <2>2, <2>7 DEF Listing, Where
    <3> QED
      BY <3>1
  <2>8. CASE c.kind = "deleteLegs"
    <3>1. /\ i \in Held <=> i \in Shown
          /\ i \in Behind <=> i \in Visible /\ i \notin Shown
          /\ i \in Counted /\ (i \in Standing <=> i \in Visible)
      BY <2>1, <2>2, <2>8 DEF Listing
    <3>2. /\ i \in Held' <=> i \in Shown'
          /\ i \in Behind' <=> i \in Visible' /\ i \notin Shown'
          /\ (i \in Standing' <=> i \in Visible')
      BY <1>1, <2>1, <2>2, <2>8 DEF Listing
    <3>3. stage = "accepted" => i \notin Visible'
      BY <1>1, <2>1, <2>2, <2>8 DEF Where
    <3>4. stage = "refused" => Visible' = Visible
      BY DEF server, Visible
    <3> QED
      BY <1>2, <2>8, <3>1, <3>2, <3>3, <3>4
  <2> QED
    BY <2>3, <2>4, <2>5, <2>6, <2>7, <2>8
<1> QED
  BY <1>4, <1>5

LEMMA DecidedHistory ==
    ASSUME Unbraided, Unbraided', History, NEW c \in calls, c.stage = "sent",
           NEW stage \in {"accepted", "refused"}, CallAt(c, stage), UNCHANGED client,
           \A i \in AnyTx \ Touched(c.kind, c.tx) : SameSaved(i),
           stage = "refused" => UNCHANGED server, SameDates,
           Legs \subseteq DOMAIN srvTx' \/ Legs \cap DOMAIN srvTx' = {}
    PROVE  History'
<1>1. PICK d : /\ d.kind = c.kind /\ d.what = c.what /\ d.stage = stage
               /\ calls' = (calls \ {c}) \cup {d}
  BY Restages
<1>2. UNCHANGED <<fill, loads, txProgress, ledger>>
  BY DEF client
<1>3. /\ Behind' \subseteq Behind /\ Held' \subseteq Held /\ Standing' \subseteq Standing
      /\ Counted' \subseteq Counted /\ (Held \cap Visible)' \subseteq Held \cap Visible
  <2>1. Behind' \subseteq AnyTx /\ Held' \subseteq AnyTx /\ Standing' \subseteq AnyTx /\ Counted' \subseteq AnyTx
    BY RowsThen DEF Rows
  <2> QED
    BY <2>1, DecidedListed
<1>4. InPlace' => InPlace /\ Visible \subseteq Visible'
  <2> SUFFICES ASSUME InPlace' PROVE InPlace /\ Visible \subseteq Visible'
    OBVIOUS
  <2>1. InPlace
    BY <1>1 DEF InPlace
  <2>2. stage = "refused" \/ c.kind \notin {"hide", "delete", "deleteLegs"}
    BY <1>1 DEF InPlace
  <2>3. Visible \subseteq AnyTx
    BY RowsHere DEF Rows
  <2> QED
    BY <2>1, <2>2, <2>3, DecidedListed
<1>5. CountsAll'
  BY <1>2, <1>3, RowsHere, RowsThen, CountKept DEF Rows, History
<1>6. Fresh'
  BY <1>2 DEF Fresh, History
<1>7. Orderly'
  <2>1. \A e \in calls' : e \in calls \/ e = d
    BY <1>1
  <2>2. \A e \in calls' : /\ e.kind = "patch" => e.what.field = "categoryId"
                          /\ e.kind = "delete" => ~txProgress'
                          /\ e.kind = "deleteLegs" => Legs # {}
    BY <1>1, <1>2, <2>1 DEF History, Orderly
  <2> QED
    BY <2>2 DEF Orderly
<1> QED
  BY <1>2, <1>3, <1>4, <1>5, <1>6, <1>7, Framed

LEMMA RefuseHistory ==
    ASSUME Unbraided, Unbraided', History, Refuse
    PROVE  History'
<1>1. PICK c \in calls : Sendable(c) /\ CallAt(c, "refused")
  BY DEF Refuse
<1>2. UNCHANGED client /\ UNCHANGED server /\ UNCHANGED <<srvTx, srvHidden>>
  BY DEF Refuse, server
<1>3. SameDates /\ \A i : SameSaved(i)
  BY <1>2 DEF SameDates, SameSaved
<1>4. Legs \subseteq DOMAIN srvTx' \/ Legs \cap DOMAIN srvTx' = {}
  BY <1>2 DEF History, Orderly
<1> QED
  BY <1>1, <1>2, <1>3, <1>4, DecidedHistory DEF Sendable

LEMMA AcceptHistory ==
    ASSUME Unbraided, Unbraided', History, ServerAccepts
    PROVE  History'
<1>1. PICK c \in calls : /\ Sendable(c) /\ (c.kind # "create" => c.tx \in DOMAIN srvTx)
                         /\ Accepted(c) /\ CallAt(c, "accepted")
  BY DEF ServerAccepts
<1>2. UNCHANGED client /\ c.stage = "sent"
  BY <1>1 DEF ServerAccepts, Sendable
<1>3. Shape /\ CallOK(c) /\ Good(srvTx) /\ \A i \in AnyTx : RowInv(i)
  BY RowsHere DEF Rows, Shape, CallsOK, ServerOK
<1>4. \A i \in AnyTx \ Touched(c.kind, c.tx) : SameSaved(i)
  BY <1>1, <1>3, AcceptedElsewhere
<1>5. ASSUME NEW i \in DOMAIN srvTx \cap DOMAIN srvTx' PROVE srvTx'[i].date = srvTx[i].date
  <2>0. i \in AnyTx /\ srvTx[i] \in RowOf(i)
    BY <1>3, GoodRows
  <2>1. CASE i \notin Touched(c.kind, c.tx)
    BY <1>4, <2>0, <2>1 DEF SameSaved
  <2>2. CASE i \in Touched(c.kind, c.tx) /\ c.kind = "create"
    <3>1. Out(c, i)
      BY <1>3, <2>0, <2>2 DEF RowInv, Core, Of
    <3> QED
      BY <1>2, <2>2, <3>1 DEF Out
  <2>3. CASE i \in Touched(c.kind, c.tx) /\ c.kind = "patch"
    <3>1. i = c.tx /\ c.what.field = "categoryId"
      BY <2>3 DEF Touched, History, Orderly
    <3>2. srvTx' = [srvTx EXCEPT ![i] = [srvTx[i] EXCEPT ![c.what.field] = c.what.value]]
      BY <1>1, <1>3, <2>3, <3>1, AcceptedGives
    <3>3. srvTx'[i] = [srvTx[i] EXCEPT ![c.what.field] = c.what.value]
      BY <3>2
    <3>4. srvTx'[i] = [srvTx[i] EXCEPT !["categoryId"] = c.what.value]
      BY <3>1, <3>3
    <3> QED
      BY <2>0, <3>4 DEF RowOf, Row
  <2>4. CASE i \in Touched(c.kind, c.tx) /\ c.kind = "splits"
    <3>1. i = c.tx
      BY <2>4 DEF Touched
    <3>2. srvTx' = [srvTx EXCEPT ![i] = Parted(srvTx[i], c.what.parts)]
      BY <1>1, <1>3, <2>4, <3>1, AcceptedGives
    <3>3. srvTx'[i] = Parted(srvTx[i], c.what.parts)
      BY <3>2
    <3> QED
      BY <2>0, <3>3 DEF RowOf, Row, Parted
  <2>5. CASE i \in Touched(c.kind, c.tx) /\ c.kind \in {"delete", "deleteLegs"}
    <3>1. srvTx' = Without(srvTx, Touched(c.kind, c.tx))
      BY <1>1, <1>3, <2>5, AcceptedGives DEF Touched
    <3>2. DOMAIN Without(srvTx, Touched(c.kind, c.tx)) = DOMAIN srvTx \ Touched(c.kind, c.tx)
      BY <1>3, WithoutGood
    <3> QED
      BY <2>5, <3>1, <3>2
  <2>6. CASE c.kind \in Hiding
    BY <1>1, <1>3, <2>6, AcceptedGives
  <2> QED
    BY <1>3, <2>1, <2>2, <2>3, <2>4, <2>5, <2>6 DEF CallOK
<1>6. SameDates
  BY <1>5 DEF SameDates
<1>7. Legs \subseteq DOMAIN srvTx' \/ Legs \cap DOMAIN srvTx' = {}
  <2>1. CASE c.kind = "deleteLegs"
    <3>1. srvTx' = Without(srvTx, Legs)
      BY <1>1, <1>3, <2>1, AcceptedGives
    <3>2. DOMAIN Without(srvTx, Legs) = DOMAIN srvTx \ Legs
      BY <1>3, WithoutGood
    <3> QED
      BY <3>1, <3>2
  <2>2. CASE c.kind # "deleteLegs"
    <3>1. Legs \cap Touched(c.kind, c.tx) = {} /\ Legs \subseteq AnyTx
      BY <1>3, <2>2, Ids DEF CallOK, Touched
    <3>2. \A i \in Legs : i \in DOMAIN srvTx' <=> i \in DOMAIN srvTx
      BY <1>4, <3>1 DEF SameSaved
    <3> QED
      BY <3>2 DEF History, Orderly
  <2> QED
    BY <2>1, <2>2
<1> QED
  BY <1>1, <1>2, <1>4, <1>6, <1>7, DecidedHistory

-----------------------------------------------------------------------------
(* Answers.                                                                *)

LEMMA Answers ==
    ASSUME Unbraided, Unbraided', NEW c \in calls, calls' = calls \ {c}, UNCHANGED server, NEW i \in AnyTx
    PROVE  /\ i \in Visible' <=> i \in Visible
           /\ IF i \in Touched(c.kind, c.tx)
              THEN /\ Of(i) = {c} /\ Of(i)' = {}
                   /\ i \in Held' <=> i \in Shown'
                   /\ i \in Behind' <=> i \in Visible /\ i \notin Shown'
                   /\ i \in Counted' <=> i \in Visible
                   /\ i \in Standing' <=> i \in Visible
              ELSE /\ Of(i)' = Of(i)
                   /\ (i \in Shown' <=> i \in Shown) =>
                         /\ i \in Held' <=> i \in Held
                         /\ i \in Behind' <=> i \in Behind
                         /\ i \in Counted' <=> i \in Counted
                         /\ i \in Standing' <=> i \in Standing
<1>1. Shape
  BY RowsHere DEF Rows
<1>2. Visible' = Visible
  BY DEF server, Visible
<1>3. /\ i \notin Touched(c.kind, c.tx) => Of(i)' = Of(i)
      /\ i \in Touched(c.kind, c.tx) => c \in Of(i) /\ Of(i)' = Of(i) \ {c}
  BY <1>1, Answered
<1>4. \A a, b \in Of(i) : a = b
  BY DEF Unbraided, Braided
<1>5. CASE i \in Touched(c.kind, c.tx)
  <2>1. Of(i) = {c} /\ Of(i)' = {}
    BY <1>3, <1>4, <1>5
  <2>2. Listing(i)'
    BY RowsThen DEF Rows
  <2> QED
    BY <1>2, <1>5, <2>1, <2>2 DEF Listing
<1>6. CASE i \notin Touched(c.kind, c.tx)
  BY <1>2, <1>3, <1>6, SameListing
<1> QED
  BY <1>5, <1>6

\* An answer that leaves the fill alone.
LEMMA AnsweredHistory ==
    ASSUME Unbraided, Unbraided', History, NEW c \in calls, calls' = calls \ {c}, UNCHANGED server,
           UNCHANGED <<fill, loads, txProgress>>,
           \A i \in AnyTx : /\ i \in Held' => i \in Held
                            /\ i \in Behind' => i \in Behind
                            /\ i \in Standing' => i \in Standing,
           fill # None => (InPlace' => InPlace),
           CountsAll'
    PROVE  History'
<1>1. Visible' = Visible /\ SameDates
  BY DEF server, Visible, SameDates
<1>2. Behind' \subseteq Behind /\ Held' \subseteq Held /\ Standing' \subseteq Standing
  <2>1. Behind' \subseteq AnyTx /\ Held' \subseteq AnyTx /\ Standing' \subseteq AnyTx
    BY RowsThen DEF Rows
  <2> QED
    BY <2>1
<1>3. (Held \cap Visible)' \subseteq Held \cap Visible
  BY <1>1, <1>2
<1>4. Fresh'
  BY DEF Fresh, History
<1>5. Orderly'
  BY DEF Orderly, History, server
<1> QED
  BY <1>1, <1>2, <1>3, <1>4, <1>5, Framed

LEMMA FailHistory ==
    ASSUME Unbraided, Unbraided', History, Fail
    PROVE  History'
<1>1. PICK c \in calls :
         /\ c.stage \in {"accepted", "refused"} /\ NotSaved(c)
         /\ calls' = calls \ {c}
         /\ doubt' = IF \/ c.stage = "accepted"
                        \/ c.kind \in {"hide", "unhide"} /\ revisions.hidden[c.tx] # c.n
                     THEN doubt \cup Touched(c.kind, c.tx) ELSE doubt
         /\ shifted' = IF c.stage = "accepted" THEN shifted \cup {"failed"} ELSE shifted
  BY DEF Fail
<1>2. UNCHANGED server
  BY DEF Fail
<1>3. /\ Shape /\ Shape' /\ CallOK(c) /\ LedgerOK(ledger) /\ Good(ledger.rows)
      /\ doubt' = {} /\ shifted' = {} /\ \A i \in AnyTx : RowInv(i)
      /\ Counted' \subseteq AnyTx /\ CountsAll
  BY RowsHere, RowsThen DEF Rows, Shape, CallsOK, ShownOK, LedgerOK, History
<1>4. c.stage = "refused"
  BY <1>1, <1>3
<1>5. UNCHANGED <<fill, loads, txProgress>>
  BY <1>1, <1>3, NotSavedGives
<1>6. \A i \in AnyTx \ Touched(c.kind, c.tx) : i \in Shown' <=> i \in Shown
  BY <1>1, <1>3, NotSavedElsewhere DEF SameShown, Shown
<1>7. InPlace' => InPlace
  BY <1>1, <1>4 DEF InPlace
<1>8. ASSUME NEW i \in AnyTx, i \notin Touched(c.kind, c.tx)
      PROVE  /\ i \in Held' <=> i \in Held
             /\ i \in Behind' <=> i \in Behind
             /\ i \in Counted' <=> i \in Counted
             /\ i \in Standing' <=> i \in Standing
  BY <1>1, <1>2, <1>6, <1>8, Answers
<1>9. ASSUME NEW i \in AnyTx, i \in Touched(c.kind, c.tx)
      PROVE  /\ Of(i) = {c} /\ c \in Of(i)
             /\ i \in Held' <=> i \in Shown'
             /\ i \in Behind' <=> i \in Visible /\ i \notin Shown'
             /\ i \in Counted' <=> i \in Visible
             /\ i \in Standing' <=> i \in Visible
             /\ Listing(i) /\ Where(i)
  BY <1>1, <1>2, <1>9, RowsHere, Answers DEF Rows
<1>10. c.kind # "deleteLegs" => Touched(c.kind, c.tx) = {c.tx} /\ c.tx \in AnyTx
  BY <1>3 DEF Touched, CallOK
<1>11. c.kind \in {"hide", "unhide"} => Newest(c)
  <2> SUFFICES ASSUME c.kind \in {"hide", "unhide"} PROVE Newest(c)
    OBVIOUS
  <2>1. c.tx \in AnyTx /\ c.tx \in Touched(c.kind, c.tx) /\ c.kind \in Hiding
    BY <1>10 DEF Hiding
  <2>2. c \in Of(c.tx) /\ RowInv(c.tx)
    BY <1>3, <1>9, <2>1
  <2>3. c.epoch = shownEpoch
    BY <2>1, <2>2, ChainEnd DEF Link
  <2>4. revisions.hidden[c.tx] = c.n
    BY <1>1, <1>3, <2>1
  <2> QED
    BY <2>3, <2>4 DEF Newest
<1>12. CASE c.kind = "create"
  <2>1. Shown' = Shown /\ ledger'.total = ledger.total
    BY <1>1, <1>3, <1>12, NotSavedGives DEF Shown
  <2>2. ASSUME NEW i \in AnyTx, i \in Touched(c.kind, c.tx)
        PROVE  i \notin Held' /\ i \notin Behind' /\ i \notin Counted' /\ i \notin Standing'
    BY <1>4, <1>9, <1>12, <2>1, <2>2 DEF Where
  <2>3. \A i \in AnyTx : /\ i \in Held' => i \in Held
                         /\ i \in Behind' => i \in Behind
                         /\ i \in Counted' => i \in Counted
                         /\ i \in Standing' => i \in Standing
    BY <1>8, <2>2
  <2>4. CountsAll'
    BY <1>3, <2>1, <2>3, CountKept
  <2> QED
    BY <1>1, <1>2, <1>5, <1>7, <2>3, <2>4, AnsweredHistory
<1>13. CASE c.kind \in {"patch", "splits"}
  <2>1. Shown' = Shown
    <3>1. ledger' = ledger \/ \E row : ledger'.rows = [ledger.rows EXCEPT ![c.tx] = row]
      BY <1>1, <1>3, <1>13, NotSavedGives
    <3> QED
      BY <3>1 DEF Shown
  <2>2. ledger'.total = ledger.total
    BY <1>1, <1>3, <1>13 DEF NotSaved, LedgerOK
  <2>3. ASSUME NEW i \in AnyTx, i \in Touched(c.kind, c.tx)
        PROVE  i \in Held /\ i \notin Behind' /\ i \in Counted /\ i \in Standing
    <3>1. i \in Shown /\ i \in Held /\ i \in Counted /\ i \in Standing
      BY <1>9, <1>13, <2>3 DEF Where, Listing
    <3> QED
      BY <1>9, <2>1, <2>3, <3>1
  <2>4. \A i \in AnyTx : /\ i \in Held' => i \in Held
                         /\ i \in Behind' => i \in Behind
                         /\ i \in Counted' => i \in Counted
                         /\ i \in Standing' => i \in Standing
    BY <1>8, <2>3
  <2>5. CountsAll'
    BY <1>3, <2>2, <2>4, CountKept
  <2> QED
    BY <1>1, <1>2, <1>5, <1>7, <2>4, <2>5, AnsweredHistory
<1>14. CASE c.kind \in {"delete", "hide"}
  <2> DEFINE one == [j \in {c.tx} |-> c.what.before]
  <2>1. ledger' = Kept(one)
    BY <1>1, <1>11, <1>14 DEF NotSaved, Newest
  <2>2. DOMAIN one = {c.tx} /\ Size(one) = 1
    BY FS_Singleton DEF Size
  <2> HIDE DEF one
  <2>3. ledger'.total = ledger.total + 1 /\ Shown' = Shown \cup {c.tx}
    BY <2>1, <2>2 DEF Kept, MergeTransactions, Shown
  <2>4. c.tx \in Held /\ c.tx \notin Behind' /\ c.tx \in Standing
    BY <1>4, <1>9, <1>10, <1>14, <2>3 DEF Where, Listing
  <2>5. \A i \in AnyTx : /\ i \in Held' => i \in Held
                         /\ i \in Behind' => i \in Behind
                         /\ i \in Counted' => i \in Counted \cup {c.tx}
                         /\ i \in Standing' => i \in Standing
    BY <1>8, <1>10, <1>14, <2>4
  <2>6. CountsAll'
    BY <1>3, <2>3, <2>5, CountMore
  <2> QED
    BY <1>1, <1>2, <1>5, <1>7, <2>5, <2>6, AnsweredHistory
<1>15. CASE c.kind = "unhide"
  <2>1. ledger' = Dropped({c.tx})
    BY <1>1, <1>11, <1>15 DEF NotSaved, Newest
  <2>2. /\ ledger'.total = Greater(0, ledger.total - Cardinality({c.tx}))
        /\ Shown' = Shown \ {c.tx}
    BY <1>3, <2>1, WithoutGood DEF Dropped, Shown
  <2>3. c.tx \notin Visible /\ c.tx \in Counted
    BY <1>4, <1>9, <1>10, <1>15 DEF Where, Listing
  <2>4. c.tx \notin Held' /\ c.tx \notin Behind' /\ c.tx \notin Counted' /\ c.tx \notin Standing'
    BY <1>9, <1>10, <1>15, <2>2, <2>3
  <2>5. \A i \in AnyTx : /\ i \in Held' => i \in Held
                         /\ i \in Behind' => i \in Behind
                         /\ i \in Counted' => i \in Counted \ {c.tx}
                         /\ i \in Standing' => i \in Standing
    BY <1>8, <1>10, <1>15, <2>4
  <2>6. CountsAll'
    <3>1. {c.tx} \subseteq Counted /\ Counted' \subseteq Counted \ {c.tx}
      BY <1>3, <2>3, <2>5
    <3> QED
      BY <1>3, <2>2, <3>1, CountLess
  <2> QED
    BY <1>1, <1>2, <1>5, <1>7, <2>5, <2>6, AnsweredHistory
<1>16. CASE c.kind = "deleteLegs"
  <2>1. Shown' = Shown /\ ledger'.total = ledger.total
    BY <1>1, <1>3, <1>16, NotSavedGives DEF Shown
  <2>2. \A i \in AnyTx : /\ i \in Held' => i \in Held
                         /\ i \in Behind' => i \in Behind
                         /\ i \in Counted' => i \in Counted
                         /\ i \in Standing' => i \in Standing
    BY <1>8, <1>9, <1>16, <2>1 DEF Listing
  <2>3. CountsAll'
    BY <1>3, <2>1, <2>2, CountKept
  <2> QED
    BY <1>1, <1>2, <1>5, <1>7, <2>2, <2>3, AnsweredHistory
<1> QED
  BY <1>3, <1>12, <1>13, <1>14, <1>15, <1>16 DEF CallOK, Hiding

\* What a saved request changes of the lists.
LEMMA SavedListed ==
    ASSUME Unbraided, Unbraided', History, NEW c \in calls, c.stage = "accepted", Saved(c),
           calls' = calls \ {c}, UNCHANGED server
    PROVE  /\ \A i \in AnyTx :
                 /\ i \in Held' => i \in Held \/ (c.kind \in {"create", "unhide"} /\ i = c.tx)
                 /\ i \in Behind' => i \in Behind
                 /\ c.kind # "create" => (i \in Counted' => i \in Counted)
                 /\ i \in Standing' => i \in Standing \/ (c.kind \in {"create", "unhide"} /\ i = c.tx)
           /\ CountsAll'
<1>1. /\ Shape /\ Shape' /\ CallOK(c) /\ LedgerOK(ledger) /\ Good(ledger.rows)
      /\ \A i \in AnyTx : RowInv(i)
      /\ Counted' \subseteq AnyTx /\ CountsAll
  BY RowsHere, RowsThen DEF Rows, Shape, CallsOK, ShownOK, LedgerOK, History
<1>2. \A i \in AnyTx \ Touched(c.kind, c.tx) : i \in Shown' <=> i \in Shown
  BY <1>1, SavedElsewhere DEF SameShown, Shown
<1>3. ASSUME NEW i \in AnyTx, i \notin Touched(c.kind, c.tx)
      PROVE  /\ i \in Held' <=> i \in Held
             /\ i \in Behind' <=> i \in Behind
             /\ i \in Counted' <=> i \in Counted
             /\ i \in Standing' <=> i \in Standing
  BY <1>2, <1>3, Answers
<1>4. ASSUME NEW i \in AnyTx, i \in Touched(c.kind, c.tx)
      PROVE  /\ Of(i) = {c} /\ c \in Of(i)
             /\ i \in Held' <=> i \in Shown'
             /\ i \in Behind' <=> i \in Visible /\ i \notin Shown'
             /\ i \in Counted' <=> i \in Visible
             /\ i \in Standing' <=> i \in Visible
             /\ Listing(i) /\ Where(i)
  BY <1>4, RowsHere, Answers DEF Rows
<1>5. c.kind # "deleteLegs" => Touched(c.kind, c.tx) = {c.tx} /\ c.tx \in AnyTx
  BY <1>1 DEF Touched, CallOK
<1>6. CASE c.kind = "create"
  <2> DEFINE one == [j \in {c.tx} |-> c.what.row]
  <2>1. ledger' = Kept(one)
    BY <1>6 DEF Saved
  <2>2. DOMAIN one = {c.tx} /\ Size(one) = 1
    BY FS_Singleton DEF Size
  <2> HIDE DEF one
  <2>3. ledger'.total = ledger.total + 1 /\ Shown' = Shown \cup {c.tx}
    BY <2>1, <2>2 DEF Kept, MergeTransactions, Shown
  <2>4. c.tx \notin Behind'
    BY <1>4, <1>5, <1>6, <2>3
  <2>5. \A i \in AnyTx : /\ i \in Held' => i \in Held \/ i = c.tx
                         /\ i \in Behind' => i \in Behind
                         /\ i \in Counted' => i \in Counted \cup {c.tx}
                         /\ i \in Standing' => i \in Standing \/ i = c.tx
    BY <1>3, <1>5, <1>6, <2>4
  <2>6. CountsAll'
    BY <1>1, <2>3, <2>5, CountMore
  <2> QED
    BY <1>6, <2>5, <2>6
<1>7. CASE c.kind \in {"patch", "splits"}
  <2>1. Shown' = Shown
    <3>1. ledger' = ledger \/ \E row : ledger'.rows = [ledger.rows EXCEPT ![c.tx] = row]
      BY <1>1, <1>7, SavedGives
    <3> QED
      BY <3>1 DEF Shown
  <2>2. ledger'.total = ledger.total
    BY <1>1, <1>7 DEF Saved, LedgerOK
  <2>3. ASSUME NEW i \in AnyTx, i \in Touched(c.kind, c.tx)
        PROVE  i \in Held /\ i \notin Behind' /\ i \in Counted /\ i \in Standing
    <3>1. i \in Shown /\ i \in Held /\ i \in Counted /\ i \in Standing
      BY <1>4, <1>7, <2>3 DEF Where, Listing
    <3> QED
      BY <1>4, <2>1, <2>3, <3>1
  <2>4. \A i \in AnyTx : /\ i \in Held' => i \in Held
                         /\ i \in Behind' => i \in Behind
                         /\ i \in Counted' => i \in Counted
                         /\ i \in Standing' => i \in Standing
    BY <1>3, <2>3
  <2>5. CountsAll'
    BY <1>1, <2>2, <2>4, CountKept
  <2> QED
    BY <1>7, <2>4, <2>5
<1>8. CASE c.kind \in {"delete", "hide"}
  <2>1. ledger' = ledger /\ Shown' = Shown
    BY <1>1, <1>8, SavedGives DEF Hiding, Shown
  <2>2. ASSUME NEW i \in AnyTx, i \in Touched(c.kind, c.tx)
        PROVE  i \notin Held' /\ i \notin Behind' /\ i \notin Counted' /\ i \notin Standing'
    <3>1. i \notin Shown /\ i \notin Visible
      BY <1>4, <1>8, <2>2 DEF Where
    <3> QED
      BY <1>4, <2>1, <2>2, <3>1
  <2>3. \A i \in AnyTx : /\ i \in Held' => i \in Held
                         /\ i \in Behind' => i \in Behind
                         /\ i \in Counted' => i \in Counted
                         /\ i \in Standing' => i \in Standing
    BY <1>3, <2>2
  <2>4. CountsAll'
    BY <1>1, <2>1, <2>3, CountKept
  <2> QED
    BY <2>3, <2>4
<1>9. CASE c.kind = "unhide"
  <2>1. ledger' = ledger /\ Shown' = Shown
    BY <1>1, <1>9, SavedGives DEF Hiding, Shown
  <2>2. c.tx \in Shown /\ c.tx \in Counted
    BY <1>4, <1>5, <1>9 DEF Where, Listing
  <2>3. c.tx \notin Behind'
    BY <1>4, <1>5, <1>9, <2>1, <2>2
  <2>4. \A i \in AnyTx : /\ i \in Held' => i \in Held \/ i = c.tx
                         /\ i \in Behind' => i \in Behind
                         /\ i \in Counted' => i \in Counted
                         /\ i \in Standing' => i \in Standing \/ i = c.tx
    BY <1>3, <1>5, <1>9, <2>2, <2>3
  <2>5. CountsAll'
    BY <1>1, <2>1, <2>4, CountKept
  <2> QED
    BY <1>9, <2>4, <2>5
<1>10. CASE c.kind = "deleteLegs"
  <2>1. /\ ledger'.total = Greater(0, ledger.total - Cardinality(Legs))
        /\ ledger'.rows = Without(ledger.rows, Legs)
    BY <1>10 DEF Saved
  <2>2. Touched(c.kind, c.tx) = Legs /\ Legs \subseteq AnyTx
    BY <1>10, Ids DEF Touched
  <2>3. ASSUME NEW i \in AnyTx, i \in Legs
        PROVE  i \notin Held' /\ i \notin Behind' /\ i \notin Counted' /\ i \notin Standing' /\ i \in Counted
    <3>1. i \notin Visible /\ i \in Counted
      BY <1>4, <1>10, <2>2, <2>3 DEF Where, Listing
    <3>2. Shown' = Shown \ Legs
      BY <1>1, <2>1, WithoutGood DEF Shown
    <3> QED
      BY <1>4, <2>2, <2>3, <3>1, <3>2
  <2>4. \A i \in AnyTx : /\ i \in Held' => i \in Held
                         /\ i \in Behind' => i \in Behind
                         /\ i \in Counted' => i \in Counted \ Legs
                         /\ i \in Standing' => i \in Standing
    BY <1>3, <2>2, <2>3
  <2>5. CountsAll'
    <3>1. Legs \subseteq Counted /\ Counted' \subseteq Counted \ Legs
      BY <1>1, <2>2, <2>3, <2>4
    <3> QED
      BY <1>1, <2>1, <3>1, CountLess
  <2> QED
    BY <1>10, <2>4, <2>5
<1> QED
  BY <1>1, <1>6, <1>7, <1>8, <1>9, <1>10 DEF CallOK, Hiding

\* A row that now shows is newer than what has not been loaded.
LEMMA NewRowNewer ==
    ASSUME Unbraided, Unbraided', History, NEW c \in calls, c.stage = "accepted", Saved(c),
           calls' = calls \ {c}, UNCHANGED server, ~Backdated(c)
    PROVE  \A j \in (Held \cap Visible)', i \in Behind' : NewerThan(j, i)'
<1> SUFFICES ASSUME NEW j \in (Held \cap Visible)', NEW i \in Behind' PROVE NewerThan(j, i)
  BY DEF NewerThan, server
<1>1. /\ Shape /\ CallOK(c) /\ \A k \in AnyTx : RowInv(k) /\ Listing(k)
      /\ Held' \subseteq AnyTx /\ Behind' \subseteq AnyTx
  BY RowsHere, RowsThen DEF Rows, Shape, CallsOK
<1>2. Visible' = Visible
  BY DEF server, Visible
<1>3. i \in Behind /\ (j \in Held \/ (c.kind \in {"create", "unhide"} /\ j = c.tx))
  BY <1>1, SavedListed
<1>4. CASE j \in Held
  BY <1>2, <1>3, <1>4 DEF History, InOrder
<1>5. CASE c.kind \in {"create", "unhide"} /\ j = c.tx /\ j \notin Held
  <2>1. c \in Of(j)
    BY <1>5 DEF Of, Touched
  <2>2. Out(c, j)
    BY <1>1, <2>1 DEF RowInv, Core
  <2>3. c.kind = "create" => srvTx[j] = c.what.row
    BY <2>2 DEF Out
  <2>4. c.kind = "unhide" => srvTx[j] = c.what.before
    BY <1>1, <2>1, ChainEnd DEF Link, Hiding
  <2>5. i \in Visible /\ i \notin DOMAIN ledger.rows /\ i # j
    <3>1. i \in Visible /\ i \notin DOMAIN ledger.rows
      BY <1>3 DEF Behind, Shown
    <3>2. j \notin Behind
      BY <1>1, <1>5, <2>1 DEF Listing
    <3> QED
      BY <1>3, <3>1, <3>2
  <2>6. ~NewerThan(i, j)
    BY <1>5, <2>3, <2>4, <2>5 DEF Backdated, Older, NewerThan
  <2>7. i \in DOMAIN srvTx /\ j \in DOMAIN srvTx
    BY <1>2, <2>5 DEF Visible
  <2> QED
    BY <1>1, <2>5, <2>6, <2>7, NewerOrder
<1> QED
  BY <1>3, <1>4, <1>5

LEMMA SucceedHistory ==
    ASSUME Unbraided, Unbraided', History, Succeed
    PROVE  History'
<1>1. PICK c \in calls :
         /\ c.stage = "accepted" /\ Saved(c) /\ calls' = calls \ {c}
         /\ shifted' = shifted \cup (IF Moving(calls') THEN {"raced"} ELSE {})
                              \cup (IF Backdated(c) THEN {"backdated"} ELSE {})
  BY DEF Succeed
<1>2. UNCHANGED server
  BY DEF Succeed
<1>3. Shape /\ CallOK(c) /\ shifted' = {} /\ Behind' \subseteq AnyTx
  BY RowsHere, RowsThen DEF Rows, Shape, CallsOK
<1>4. ~Moving(calls') /\ ~Backdated(c)
  BY <1>1, <1>3
<1>5. loads = {}
  BY DEF History, Fresh
<1>6. /\ \A i \in AnyTx :
            /\ i \in Held' => i \in Held \/ (c.kind \in {"create", "unhide"} /\ i = c.tx)
            /\ i \in Behind' => i \in Behind
            /\ i \in Standing' => i \in Standing \/ (c.kind \in {"create", "unhide"} /\ i = c.tx)
      /\ CountsAll'
  BY <1>1, <1>2, SavedListed
<1>7. fill # None => txProgress
  BY DEF History, FillReaches
<1>8. CASE c.kind \in {"patch", "splits", "delete"}
  <2>1. UNCHANGED <<fill, loads, txProgress>>
    BY <1>1, <1>8 DEF Saved
  <2>2. c.kind = "delete" => fill = None
    BY <1>7 DEF History, Orderly
  <2>3. fill # None => (InPlace' => InPlace)
    BY <1>1, <1>8, <2>2 DEF InPlace
  <2>4. \A i \in AnyTx : /\ i \in Held' => i \in Held
                         /\ i \in Behind' => i \in Behind
                         /\ i \in Standing' => i \in Standing
    BY <1>6, <1>8
  <2> QED
    BY <1>1, <1>2, <1>6, <2>1, <2>3, <2>4, AnsweredHistory
<1>9. CASE c.kind \in {"create", "deleteLegs", "hide", "unhide"}
  <2>1. Restarted(ledger')
    BY <1>1, <1>9 DEF Saved
  <2>2. Behind' \subseteq Behind
    BY <1>3, <1>6
  <2>3. loads' = {} /\ Fresh'
    BY <1>5, <2>1 DEF Restarted, Fresh
  <2>4. CASE ~txProgress
    <3>1. fill = None /\ fill' = None /\ txProgress' = txProgress
      BY <1>7, <2>1, <2>4 DEF Restarted
    <3>2. Behind = {}
      BY <1>5, <3>1 DEF History
    <3>3. Behind' = {}
      BY <2>2, <3>2
    <3>4. InOrder'
      BY <3>3 DEF InOrder
    <3>5. Orderly'
      BY <1>1, <1>2, <3>1 DEF Orderly, History, server
    <3> QED
      BY <1>6, <2>3, <3>1, <3>3, <3>4, <3>5 DEF History
  <2>5. CASE txProgress
    <3>1. fill' = NewFill(ledger') /\ txProgress' = (fill' # None)
      BY <2>1, <2>5 DEF Restarted, StartFill
    <3>2. Restarting'
      BY <1>1, <1>2, <1>4, <1>6, <3>1, NewRowNewer DEF Restarting
    <3>3. (Restarting => /\ InOrder /\ (fill # None => FillReaches) /\ (fill = None => Behind = {}))'
      BY NewFillReaches, PTL
    <3>4. Orderly'
      <4>1. \A d \in calls' : d.kind # "delete"
        BY <1>4 DEF Moving
      <4>2. \A d \in calls' : d \in calls
        BY <1>1
      <4> QED
        BY <1>2, <4>1, <4>2 DEF Orderly, History, server
    <3> QED
      BY <1>6, <2>3, <3>2, <3>3, <3>4 DEF History
  <2> QED
    BY <2>4, <2>5
<1> QED
  BY <1>3, <1>8, <1>9 DEF CallOK, Hiding

-----------------------------------------------------------------------------
(* Loads and pages.                                                        *)

\* Neither the server, nor what is shown, nor what is asked changes.
LEMMA ListsSame ==
    ASSUME UNCHANGED <<srvTx, srvHidden, ledger, calls>>
    PROVE  /\ Visible' = Visible /\ SameDates /\ Shown' = Shown /\ (InPlace' <=> InPlace)
           /\ Behind' = Behind /\ Held' = Held /\ Standing' = Standing /\ Counted' = Counted
           /\ \A i, j : NewerThan(i, j)' <=> NewerThan(i, j)
           /\ \A i : Rank(i)' = Rank(i)
           /\ \A o, l : Page(o, l)' = Page(o, l)
           /\ CountsAll => CountsAll'
<1>1. Visible' = Visible /\ SameDates /\ Shown' = Shown /\ (InPlace' <=> InPlace)
  BY DEF Visible, SameDates, Shown, InPlace
<1>2. \A i : Of(i)' = Of(i)
  BY DEF Of
<1>3. Behind' = Behind /\ Held' = Held /\ Standing' = Standing /\ Counted' = Counted
  BY <1>1, <1>2 DEF Behind, Held, Standing, Counted, With
<1>4. \A i, j : NewerThan(i, j)' <=> NewerThan(i, j)
  BY DEF NewerThan
<1>5. \A i : Rank(i)' = Rank(i)
  BY <1>1, <1>4 DEF Rank
<1>6. \A o, l : Page(o, l)' = Page(o, l)
  BY <1>1, <1>4 DEF Page, Only
<1>7. CountsAll => CountsAll'
  BY <1>3 DEF CountsAll
<1> QED
  BY <1>1, <1>3, <1>4, <1>5, <1>6, <1>7

LEMMA StillHistory ==
    ASSUME Unbraided, Unbraided', History,
           UNCHANGED <<srvTx, srvHidden, ledger, fill, loads, txProgress, calls>>
    PROVE  History'
<1>1. /\ Visible' = Visible /\ SameDates /\ (InPlace' => InPlace)
      /\ Behind' = Behind /\ Held' = Held /\ Standing' = Standing
      /\ Page(0, Light)' = Page(0, Light)
  BY ListsSame
<1>2. CountsAll'
  BY ListsSame DEF History
<1>3. Orderly'
  BY DEF Orderly, History
<1>4. Fresh'
  BY <1>1 DEF Fresh, History
<1> QED
  BY <1>1, <1>2, <1>3, <1>4, Framed

\* A snapshot is asked for and read while nothing else is asked.
LEMMA NothingAsked ==
    ASSUME Unbraided, Unbraided', History, doubt' = doubt \cup Unanswered
    PROVE  calls = {}
<1>1. doubt' = {} /\ Shape
  BY RowsHere, RowsThen DEF Rows
<1>2. Unanswered = {}
  BY <1>1
<1>3. ASSUME NEW c \in calls PROVE FALSE
  <2>1. Touched(c.kind, c.tx) # {}
    BY DEF Touched, History, Orderly
  <2>2. Touched(c.kind, c.tx) \subseteq Unanswered
    BY DEF Unanswered
  <2> QED
    BY <1>2, <2>1, <2>2
<1> QED
  BY <1>3

LEMMA LoadHistory ==
    ASSUME Unbraided, Unbraided', History, Load
    PROVE  History'
<1>1. /\ UNCHANGED <<srvTx, srvHidden, ledger, txProgress, calls>> /\ fill' = None
      /\ doubt' = doubt \cup Unanswered
      /\ loads' = {[l EXCEPT !.current = FALSE] : l \in loads}
                  \cup {[n |-> asked, current |-> TRUE, stage |-> "asked", hidden |-> hiddenTx # None]}
  BY DEF Load, server
<1>2. calls = {}
  BY <1>1, NothingAsked
<1>3. /\ Visible' = Visible /\ Behind' = Behind /\ Held' = Held
      /\ (\A i, j : NewerThan(i, j)' <=> NewerThan(i, j))
      /\ Page(0, Light)' = Page(0, Light)
  BY <1>1, ListsSame
<1>4. CountsAll'
  BY <1>1, ListsSame DEF History
<1>5. InOrder'
  <2>1. Arriving' = {}
    BY <1>1 DEF Arriving
  <2> QED
    BY <1>3, <2>1 DEF InOrder, History
<1>6. Fresh'
  <2>1. ASSUME NEW m \in loads', m.stage = "answered"
        PROVE  m.rows = Page(0, Light) /\ m.total = Cardinality(Visible)
    <3>1. PICK l \in loads : m = [l EXCEPT !.current = FALSE]
      BY <1>1, <2>1
    <3>2. LoadOK(l)
      BY RowsHere DEF Rows, Shape, ShownOK
    <3>3. m.stage = l.stage /\ m.rows = l.rows
      BY <2>1, <3>1, <3>2, Superseded
    <3>4. m.total = l.total
      BY <2>1, <3>1, <3>2, <3>3 DEF LoadOK
    <3> QED
      BY <2>1, <3>3, <3>4 DEF Fresh, History
  <2> QED
    BY <1>1, <1>2, <1>3, <2>1 DEF Fresh
<1>7. Orderly'
  BY <1>1, <1>2 DEF Orderly, History
<1>8. \E l \in loads' : l.current
  <2>1. PICK l : l = [n |-> asked, current |-> TRUE, stage |-> "asked", hidden |-> hiddenTx # None]
    OBVIOUS
  <2>2. l \in loads' /\ l.current
    BY <1>1, <2>1
  <2> QED
    BY <2>2
<1> QED
  BY <1>1, <1>4, <1>5, <1>6, <1>7, <1>8 DEF History

\* The list of loads changes, and nothing else does.
LEMMA LoadsHistory ==
    ASSUME Unbraided, Unbraided', History,
           UNCHANGED <<srvTx, srvHidden, ledger, fill, txProgress, calls>>, calls = {},
           \A l \in loads' : l.stage = "answered" =>
              l.rows = Page(0, Light) /\ l.total = Cardinality(Visible),
           (\A l \in loads' : ~l.current) => \A l \in loads : ~l.current
    PROVE  History'
<1>1. /\ Visible' = Visible /\ SameDates /\ (InPlace' => InPlace)
      /\ Behind' = Behind /\ Held' = Held /\ Standing' = Standing
      /\ Page(0, Light)' = Page(0, Light)
  BY ListsSame
<1>2. CountsAll'
  BY ListsSame DEF History
<1>3. Shape /\ Shape'
  BY RowsHere, RowsThen DEF Rows
<1>4. InOrder'
  BY <1>1, OrderKept DEF History
<1>5. fill' # None => FillReaches'
  BY <1>1, <1>3, ReachesKept DEF History
<1>6. Fresh'
  BY <1>1 DEF Fresh
<1>7. Orderly'
  BY DEF Orderly, History
<1>8. fill' = None /\ (\A l \in loads' : ~l.current) => Behind' = {}
  BY <1>1 DEF History
<1> QED
  BY <1>2, <1>4, <1>5, <1>6, <1>7, <1>8 DEF History

LEMMA SnapshotReadHistory ==
    ASSUME Unbraided, Unbraided', History, SnapshotRead
    PROVE  History'
<1>0. PICK l \in loads :
         loads' = (loads \ {l}) \cup
            {[n |-> l.n, current |-> l.current, stage |-> "answered", hidden |-> l.hidden,
              rows |-> Page(0, Light), total |-> Cardinality(Visible)]}
  BY DEF SnapshotRead
<1> DEFINE p == Page(0, Light)
           k == Cardinality(Visible)
<1>1. \E m : /\ loads' = (loads \ {l}) \cup {m}
             /\ m.current = l.current /\ m.rows = p /\ m.total = k
  <2> HIDE DEF p, k
  <2>1. PICK m : m = [n |-> l.n, current |-> l.current, stage |-> "answered", hidden |-> l.hidden,
                      rows |-> p, total |-> k]
    OBVIOUS
  <2>2. m.current = l.current /\ m.rows = p /\ m.total = k
    BY <2>1
  <2> QED
    BY <1>0, <2>1, <2>2 DEF p, k
<1>2. /\ UNCHANGED <<srvTx, srvHidden, ledger, fill, txProgress, calls>>
      /\ doubt' = doubt \cup Unanswered
  BY DEF SnapshotRead, server
<1>3. calls = {}
  BY <1>2, NothingAsked
<1>4. \A m \in loads' : m.stage = "answered" =>
         m.rows = Page(0, Light) /\ m.total = Cardinality(Visible)
  BY <1>1 DEF Fresh, History
<1>5. (\A m \in loads' : ~m.current) => \A m \in loads : ~m.current
  BY <1>1
<1> QED
  BY <1>2, <1>3, <1>4, <1>5, LoadsHistory

LEMMA SnapshotReturnsHistory ==
    ASSUME Unbraided, Unbraided', History, SnapshotReturns
    PROVE  History'
<1>1. PICK l \in loads :
        /\ l.stage = "answered"
        /\ loads' = loads \ {l}
        /\ IF l.current
           THEN /\ ledger' = [rows |-> l.rows, total |-> l.total]
                /\ StartFill(ledger')
           ELSE UNCHANGED <<ledger, fill, txProgress>>
        /\ UNCHANGED <<srvTx, srvHidden, calls>>
  BY DEF SnapshotReturns, server
<1>2. calls = {} /\ l.rows = Page(0, Light) /\ l.total = Cardinality(Visible)
  BY <1>1 DEF History, Fresh
<1>3. Visible' = Visible /\ Page(0, Light)' = Page(0, Light)
  <2>1. Visible' = Visible
    BY <1>1 DEF Visible
  <2> QED
    BY <1>1, <2>1 DEF Page, NewerThan, Only
<1>4. CASE l.current
  <2>1. Snapped'
    BY <1>1, <1>2, <1>3, <1>4 DEF Snapped
  <2>2. (Snapped => CountsAll /\ \A j \in Held \cap Visible, i \in Behind : NewerThan(j, i))'
    BY SnappedOrder, PTL
  <2>3. Restarting'
    BY <1>1, <1>2, <1>4, <2>1, <2>2 DEF Restarting, Moving, StartFill
  <2>4. (Restarting => /\ InOrder /\ (fill # None => FillReaches) /\ (fill = None => Behind = {}))'
    BY NewFillReaches, PTL
  <2>5. Fresh'
    BY <1>1, <1>2, <1>3 DEF Fresh, History
  <2>6. Orderly'
    BY <1>1, <1>2 DEF Orderly, History
  <2> QED
    BY <2>1, <2>2, <2>3, <2>4, <2>5, <2>6 DEF History
<1>5. CASE ~l.current
  <2>1. UNCHANGED <<srvTx, srvHidden, ledger, fill, txProgress, calls>>
    BY <1>1, <1>5
  <2>2. \A m \in loads' : m.stage = "answered" =>
           m.rows = Page(0, Light) /\ m.total = Cardinality(Visible)
    BY <1>1 DEF Fresh, History
  <2>3. (\A m \in loads' : ~m.current) => \A m \in loads : ~m.current
    BY <1>1, <1>5
  <2> QED
    BY <1>2, <2>1, <2>2, <2>3, LoadsHistory
<1> QED
  BY <1>4, <1>5

LEMMA PageReadHistory ==
    ASSUME Unbraided, Unbraided', History, PageRead
    PROVE  History'
<1> DEFINE page == Page(fill.offset, TX_CHUNK)
           n == Cardinality(Visible)
<1>1. /\ fill # None /\ fill.stage = "asked"
      /\ fill' = [stage |-> "answered", offset |-> fill.offset, total |-> fill.total,
                  pending |-> fill.pending, page |-> page, count |-> n]
      /\ shifted' = IF Moving(calls) THEN shifted \cup {"raced"} ELSE shifted
      /\ UNCHANGED <<srvTx, srvHidden, ledger, txProgress, loads, calls>>
  BY DEF PageRead, server
<1>2. /\ Shape /\ shifted' = {} /\ Visible \subseteq AnyTx /\ Behind \subseteq Visible
      /\ Standing \subseteq Visible
  BY RowsHere, RowsThen DEF Rows, Behind, Standing
<1>3. ~Moving(calls)
  BY <1>1, <1>2
<1>4. InPlace
  BY <1>3 DEF Moving, InPlace
<1>5. fill.offset \in Nat /\ TX_CHUNK \in Nat /\ Size(fill.pending) \in Nat /\ GotTo = fill.offset
  BY <1>1, <1>2, FillNumbers, LedgerClientAssumption DEF GotTo
<1>6. /\ DOMAIN page = {i \in Visible : Rank(i) \in fill.offset .. fill.offset + TX_CHUNK - 1}
      /\ Size(page) \in Nat /\ Size(page) <= TX_CHUNK
      /\ (\E i \in Visible : Rank(i) >= fill.offset + TX_CHUNK) => Size(page) = TX_CHUNK
  BY <1>2, <1>5, PageRanks
<1>7. n \in Nat /\ IsFiniteSet(Visible) /\ \A i \in Visible : Rank(i) \in Nat
  BY <1>2, VisibleRows, Ranks
<1>8. Good(page)
  BY <1>2, PageGood DEF Shape
<1>9. IsAsked(fill)
  BY <1>1, <1>2 DEF Shape, ShownOK, FillOK, IsAnswered
<1> HIDE DEF page, n
<1>10. /\ fill'.stage = "answered" /\ fill'.offset = fill.offset /\ fill'.pending = fill.pending
       /\ fill'.page = page /\ fill'.count = n /\ fill' # None
  <2>1. /\ fill'.stage = "answered" /\ fill'.offset = fill.offset /\ fill'.pending = fill.pending
        /\ fill'.page = page /\ fill'.count = n /\ fill'.total = fill.total
    BY <1>1
  <2>2. IsAnswered(fill')
    BY <1>1, <1>7, <1>8, <1>9, <2>1 DEF IsAsked, IsAnswered
  <2> QED
    BY <2>1, <2>2, FillsAreNotNone
<1>11. Arriving = DOMAIN fill.pending /\ Arriving' = DOMAIN fill.pending \cup DOMAIN page
  BY <1>1, <1>10 DEF Arriving
<1>12. GotTo' = fill.offset + Size(page)
  BY <1>10 DEF GotTo
<1>13. /\ Visible' = Visible /\ Behind' = Behind /\ Held' = Held /\ Standing' = Standing
       /\ (\A i, j : NewerThan(i, j)' <=> NewerThan(i, j)) /\ (\A i : Rank(i)' = Rank(i))
       /\ Page(0, Light)' = Page(0, Light)
  BY <1>1, ListsSame
<1>14. ASSUME NEW i \in Behind, i \notin Arriving' PROVE i \in Visible /\ Rank(i) >= fill.offset + TX_CHUNK
  <2>1. Rank(i) >= fill.offset /\ i \in Visible /\ i \notin DOMAIN page
    BY <1>1, <1>2, <1>4, <1>5, <1>11, <1>14 DEF History, FillReaches
  <2> QED
    BY <1>5, <1>6, <1>7, <2>1
<1>15. InOrder'
  <2>1. ASSUME NEW j \in Arriving', NEW i \in Behind \ Arriving' PROVE NewerThan(j, i)
    <3>1. CASE j \in Arriving
      BY <1>11, <2>1, <3>1 DEF History, InOrder
    <3>2. CASE j \in DOMAIN page
      <4>1. j \in Visible /\ Rank(j) <= fill.offset + TX_CHUNK - 1
        BY <1>5, <1>6, <1>7, <3>2
      <4>2. i \in Visible /\ Rank(j) < Rank(i)
        BY <1>5, <1>7, <1>14, <2>1, <4>1
      <4> QED
        BY <1>2, <4>1, <4>2, Ranks
    <3> QED
      BY <1>11, <2>1, <3>1, <3>2
  <2> QED
    BY <1>13, <2>1 DEF InOrder, History
<1>16. FillReaches'
  <2>1. \A i \in Behind \ Arriving' : Rank(i) >= fill.offset + Size(page)
    <3> SUFFICES ASSUME NEW i \in Behind \ Arriving' PROVE Rank(i) >= fill.offset + Size(page)
      OBVIOUS
    <3>1. i \in Visible /\ Rank(i) >= fill.offset + TX_CHUNK
      BY <1>14
    <3> QED
      BY <1>5, <1>6, <1>7, <3>1
  <2>2. Size(page) < TX_CHUNK => Behind \subseteq Arriving'
    <3> SUFFICES ASSUME NEW i \in Behind \ Arriving', Size(page) < TX_CHUNK PROVE FALSE
      OBVIOUS
    <3>1. Size(page) = TX_CHUNK
      BY <1>6, <1>14
    <3> QED
      BY <1>5, <1>6, <3>1
  <2>3. Cardinality(Standing) <= n
    BY <1>2, <1>7, Smaller DEF n
  <2>4. txProgress' /\ Cardinality(Held) + Size(fill.pending) <= fill.offset
    BY <1>1 DEF FillReaches, History
  <2> QED
    BY <1>10, <1>12, <1>13, <2>1, <2>2, <2>3, <2>4 DEF FillReaches
<1>17. CountsAll'
  BY <1>1, ListsSame DEF History
<1>18. Fresh' /\ Orderly'
  BY <1>1, <1>13 DEF Fresh, Orderly, History
<1> QED
  BY <1>10, <1>15, <1>16, <1>17, <1>18 DEF History

LEMMA UnionSize ==
    ASSUME NEW S, NEW T, IsFiniteSet(S), IsFiniteSet(T)
    PROVE  /\ IsFiniteSet(S \cup T) /\ Cardinality(S \cup T) \in Nat
           /\ Cardinality(S \cup T) <= Cardinality(S) + Cardinality(T)
<1>1. IsFiniteSet(S \cup T) /\ Cardinality(S \cup T) = Cardinality(S) + Cardinality(T) - Cardinality(S \cap T)
  BY FS_Union
<1>2. IsFiniteSet(S \cap T)
  BY FS_Subset
<1> QED
  BY <1>1, <1>2, FS_CardinalityType

\* What waits once a page has joined it.
LEMMA Joins ==
    ASSUME Shape, fill # None, fill.stage = "answered"
    PROVE  LET pending == MergeTransactions(fill.pending, fill.page)
           IN  /\ Good(pending) /\ DOMAIN pending = Arriving
               /\ Size(pending) = Cardinality(Arriving) /\ Cardinality(Arriving) \in Nat
               /\ IsFiniteSet(Arriving)
               /\ Cardinality(Arriving) <= Size(fill.pending) + Size(fill.page)
<1> DEFINE p == fill.pending
           q == fill.page
           pending == MergeTransactions(p, q)
<1>1. Good(p) /\ Good(q)
  BY FillNumbers
<1>2. Arriving = DOMAIN p \cup DOMAIN q
  BY DEF Arriving
<1>3. IsFiniteSet(DOMAIN p) /\ IsFiniteSet(DOMAIN q)
  BY <1>1, SizeNat
<1>4. Cardinality(DOMAIN p \cup DOMAIN q) <= Cardinality(DOMAIN p) + Cardinality(DOMAIN q)
      /\ IsFiniteSet(DOMAIN p \cup DOMAIN q) /\ Cardinality(DOMAIN p \cup DOMAIN q) \in Nat
  BY <1>3, UnionSize
<1> HIDE DEF p, q
<1>5. Good(pending) /\ DOMAIN pending = DOMAIN p \cup DOMAIN q
  BY <1>1, MergeGood
<1> HIDE DEF pending
<1>6. /\ Good(pending) /\ DOMAIN pending = Arriving
      /\ Size(pending) = Cardinality(Arriving) /\ Cardinality(Arriving) \in Nat
      /\ IsFiniteSet(Arriving)
      /\ Cardinality(Arriving) <= Size(p) + Size(q)
  BY <1>2, <1>4, <1>5 DEF Size
<1> QED
  BY <1>6 DEF pending, p, q

\* What waits is shown.
LEMMA FlushListed ==
    ASSUME Unbraided, UNCHANGED <<srvTx, srvHidden, calls>>, Shown' = Shown \cup Arriving
    PROVE  /\ Held' = Held \cup Arriving /\ Behind' = Behind \ Arriving
           /\ Counted' = Counted /\ Standing' = Standing /\ Visible' = Visible
<1>1. Arriving \subseteq Visible /\ \A i \in Arriving : Of(i) = {}
  BY ArrivingRows
<1>2. \A i : Of(i)' = Of(i)
  BY DEF Of
<1>3. \A kinds : With(kinds)' = With(kinds) /\ With(kinds) \cap Arriving = {}
  BY <1>1, <1>2 DEF With
<1>4. Visible' = Visible
  BY DEF Visible
<1> QED
  BY <1>1, <1>3, <1>4 DEF Held, Behind, Counted, Standing

\* A fill that has read its last page has reached every row.
LEMMA LastPage ==
    ASSUME Unbraided, History, fill # None, fill.stage = "answered", calls = {},
           FillDone(Size(fill.page), Size(ledger.rows) + Cardinality(Arriving),
                    Greater(fill.count, fill.offset + Size(fill.page)))
    PROVE  Behind \subseteq Arriving
<1> SUFFICES ASSUME NEW i \in Behind, i \notin Arriving PROVE FALSE
  OBVIOUS
<1>1. Shape /\ FillReaches /\ InPlace
  BY RowsHere DEF Rows, History, InPlace
<1>2. /\ fill.offset \in Nat /\ Size(fill.pending) \in Nat /\ Size(fill.page) \in Nat /\ fill.count \in Nat
      /\ GotTo = fill.offset + Size(fill.page)
  BY <1>1, FillNumbers DEF GotTo
<1>3. Cardinality(Arriving) \in Nat /\ Cardinality(Arriving) <= Size(fill.pending) + Size(fill.page)
  BY <1>1, Joins
<1>4. Held = Shown /\ Standing = Visible
  BY DEF Held, Standing, With, Of
<1>5. Size(ledger.rows) = Cardinality(Held) /\ Cardinality(Held) \in Nat
  <2>1. IsFiniteSet(Shown)
    BY <1>1, FinitesHere
  <2> QED
    BY <1>4, <2>1, FS_CardinalityType DEF Size, Shown
<1>6. i \in Visible /\ Rank(i) \in Nat /\ Rank(i) < Cardinality(Visible) /\ Cardinality(Visible) \in Nat
  BY <1>1, Ranks, VisibleRows DEF Behind
<1>7. Rank(i) >= fill.offset + Size(fill.page)
  BY <1>1, <1>2 DEF FillReaches
<1>8. Cardinality(Visible) <= fill.count
  BY <1>1, <1>4 DEF FillReaches
<1>9. ~(Size(fill.page) < TX_CHUNK)
  BY <1>1 DEF FillReaches
<1>10. Size(ledger.rows) + Cardinality(Arriving) >= Greater(fill.count, fill.offset + Size(fill.page))
  BY <1>9 DEF FillDone
<1>11. Greater(fill.count, fill.offset + Size(fill.page)) >= fill.count
  BY <1>2 DEF Greater
<1>12. Cardinality(Held) + Size(fill.pending) <= fill.offset
  BY <1>1 DEF FillReaches
<1>13. Greater(fill.count, fill.offset + Size(fill.page)) \in Int
  BY <1>2 DEF Greater
<1> QED
  BY <1>2, <1>3, <1>5, <1>6, <1>7, <1>8, <1>10, <1>11, <1>12, <1>13

LEMMA PageReturnsHistory ==
    ASSUME Unbraided, Unbraided', History, PageReturns
    PROVE  History'
<1> DEFINE offset == fill.offset + Size(fill.page)
           count == Greater(fill.count, offset)
           pending == MergeTransactions(fill.pending, fill.page)
           done == FillDone(Size(fill.page), Size(ledger.rows) + Size(pending), count)
           merged == MergeTransactions(ledger.rows, pending)
           Asked(waiting) == [stage |-> "asked", offset |-> offset, total |-> count, pending |-> waiting]
<1>1. /\ fill # None /\ fill.stage = "answered"
      /\ UNCHANGED <<srvTx, srvHidden, loads, calls>>
      /\ \/ /\ ledger' = [rows |-> merged,
                          total |-> Greater(Greater(count, ledger.total), Size(merged))]
            /\ txProgress' = ~done
            /\ fill' = IF done THEN None ELSE Asked(<<>>)
            /\ shifted' = IF done /\ calls # {} THEN shifted \cup {"ended"} ELSE shifted
         \/ ~done /\ fill' = Asked(pending) /\ UNCHANGED <<ledger, txProgress>>
  BY DEF PageReturns, server
<1>2. Shape /\ Shape' /\ shifted' = {}
  BY RowsHere, RowsThen DEF Rows
<1>3. FillReaches /\ txProgress
  BY <1>1 DEF History, FillReaches
<1>4. /\ fill.offset \in Nat /\ Size(fill.pending) \in Nat /\ Size(fill.page) \in Nat /\ fill.count \in Nat
      /\ GotTo = offset
  BY <1>1, <1>2, FillNumbers DEF GotTo
<1>5. /\ Good(pending) /\ DOMAIN pending = Arriving
      /\ Size(pending) = Cardinality(Arriving) /\ Cardinality(Arriving) \in Nat
      /\ IsFiniteSet(Arriving)
      /\ Cardinality(Arriving) <= Size(fill.pending) + Size(fill.page)
  BY <1>1, <1>2, Joins
<1>6. LedgerOK(ledger) /\ Good(ledger.rows) /\ ledger.total \in Nat
  BY <1>2 DEF Shape, ShownOK, LedgerOK
<1>7. offset \in Nat /\ count \in Nat
  BY <1>4 DEF Greater
<1>8. Good(merged) /\ DOMAIN merged = Shown \cup Arriving
  <2> HIDE DEF pending
  <2> QED
    BY <1>5, <1>6, MergeGood DEF Shown
<1>9. done => (calls = {} => Behind \subseteq Arriving)
  BY <1>1, <1>5, LastPage
<1> HIDE DEF count, pending, done, merged
<1>10. ASSUME NEW waiting, Good(waiting), fill' = Asked(waiting)
       PROVE  /\ fill' # None /\ fill'.stage = "asked" /\ fill'.offset = offset
              /\ fill'.pending = waiting /\ GotTo' = offset /\ Arriving' = DOMAIN waiting
  <2>1. fill'.stage = "asked" /\ fill'.offset = offset /\ fill'.pending = waiting /\ fill'.total = count
    BY <1>10
  <2>2. IsAsked(fill')
    BY <1>7, <1>10, <2>1 DEF IsAsked
  <2>3. fill' # None
    BY <2>2, FillsAreNotNone
  <2> QED
    BY <1>7, <2>1, <2>3 DEF GotTo, Arriving
<1>11. (\A i, j : NewerThan(i, j)' <=> NewerThan(i, j)) /\ Visible' = Visible /\ (InPlace' <=> InPlace)
  BY <1>1 DEF NewerThan, Visible, InPlace
<1>12. (\A i : Rank(i)' = Rank(i)) /\ Page(0, Light)' = Page(0, Light)
  BY <1>1, <1>11 DEF Rank, Page, Only
<1>13. Fresh'
  BY <1>1, <1>11, <1>12 DEF Fresh, History
<1>14. txProgress' => Orderly'
  BY <1>1, <1>3 DEF Orderly, History
<1>15. CASE /\ ledger' = [rows |-> merged,
                          total |-> Greater(Greater(count, ledger.total), Size(merged))]
            /\ txProgress' = ~done
            /\ fill' = IF done THEN None ELSE Asked(<<>>)
            /\ shifted' = IF done /\ calls # {} THEN shifted \cup {"ended"} ELSE shifted
  <2>1. Shown' = Shown \cup Arriving
    BY <1>8, <1>15 DEF Shown
  <2>2. /\ Held' = Held \cup Arriving /\ Behind' = Behind \ Arriving
        /\ Counted' = Counted /\ Standing' = Standing
    BY <1>1, <2>1, FlushListed
  <2>3. Arriving' = {}
    <3>1. CASE done
      BY <1>15, <3>1 DEF Arriving
    <3>2. CASE ~done
      BY <1>10, <1>15, <3>2, EmptyGood
    <3> QED
      BY <3>1, <3>2
  <2>4. CountsAll'
    <3>1. Size(merged) \in Nat
      BY <1>8, SizeNat
    <3>2. ledger'.total >= ledger.total /\ ledger'.total \in Nat
      BY <1>6, <1>7, <1>15, <3>1 DEF Greater
    <3>3. Cardinality(Counted) \in Nat /\ Cardinality(Counted) <= ledger.total
      <4>1. IsFiniteSet(Counted)
        BY <1>2, FinitesHere
      <4> QED
        BY <4>1, FS_CardinalityType DEF History, CountsAll
    <3> QED
      BY <1>6, <2>2, <3>2, <3>3 DEF CountsAll
  <2>5. InOrder'
    BY <1>11, <2>2, <2>3 DEF InOrder, History
  <2>6. CASE done
    <3>1. fill' = None /\ ~txProgress' /\ calls = {}
      BY <1>2, <1>15, <2>6
    <3>2. Behind' = {}
      BY <1>9, <2>2, <2>6, <3>1
    <3>3. Orderly'
      BY <1>1, <3>1 DEF Orderly, History
    <3> QED
      BY <1>13, <2>4, <2>5, <3>1, <3>2, <3>3 DEF History
  <2>7. CASE ~done
    <3>1. /\ txProgress' /\ fill' # None /\ fill'.stage = "asked" /\ fill'.offset = offset
          /\ fill'.pending = <<>> /\ GotTo' = offset
      BY <1>10, <1>15, <2>7, EmptyGood
    <3>2. Size(fill'.pending) = 0
      BY <3>1, EmptyGood, FS_EmptySet DEF Size
    <3>3. Cardinality(Held') <= offset /\ Cardinality(Held') \in Nat
      <4>1. IsFiniteSet(Held) /\ Cardinality(Held) \in Nat
        BY <1>2, FinitesHere, FS_CardinalityType
      <4>2. Cardinality(Held \cup Arriving) <= Cardinality(Held) + Cardinality(Arriving)
            /\ Cardinality(Held \cup Arriving) \in Nat
        BY <1>5, <4>1, UnionSize
      <4>3. Cardinality(Held) + Size(fill.pending) <= fill.offset
        BY <1>3 DEF FillReaches
      <4> QED
        BY <1>4, <1>5, <2>2, <4>1, <4>2, <4>3
    <3>4. InPlace' => \A i \in Behind' \ Arriving' : Rank(i)' >= GotTo'
      BY <1>3, <1>4, <1>11, <1>12, <2>2, <3>1 DEF FillReaches
    <3>5. FillReaches'
      BY <1>7, <3>1, <3>2, <3>3, <3>4 DEF FillReaches
    <3> QED
      BY <1>13, <1>14, <2>4, <2>5, <3>1, <3>5 DEF History
  <2> QED
    BY <2>6, <2>7
<1>16. CASE ~done /\ fill' = Asked(pending) /\ UNCHANGED <<ledger, txProgress>>
  <2>1. /\ fill' # None /\ fill'.stage = "asked" /\ fill'.offset = offset
        /\ fill'.pending = pending /\ GotTo' = offset /\ Arriving' = Arriving
    BY <1>5, <1>10, <1>16
  <2>2. /\ Behind' = Behind /\ Held' = Held /\ Standing' = Standing
    BY <1>1, <1>16, ListsSame
  <2>3. CountsAll'
    BY <1>1, <1>16, ListsSame DEF History
  <2>4. InOrder'
    BY <1>11, <2>1, <2>2 DEF InOrder, History
  <2>5. Cardinality(Held') + Size(fill'.pending) <= offset
    <3>1. Cardinality(Held) \in Nat
      BY <1>2, FinitesHere, FS_CardinalityType
    <3>2. Cardinality(Held) + Size(fill.pending) <= fill.offset
      BY <1>3 DEF FillReaches
    <3> QED
      BY <1>4, <1>5, <2>1, <2>2, <3>1, <3>2
  <2>6. InPlace' => \A i \in Behind' \ Arriving' : Rank(i)' >= GotTo'
    BY <1>3, <1>4, <1>11, <1>12, <2>1, <2>2 DEF FillReaches
  <2>7. FillReaches'
    BY <1>3, <1>16, <2>1, <2>5, <2>6 DEF FillReaches
  <2> QED
    BY <1>3, <1>13, <1>14, <1>16, <2>1, <2>3, <2>4, <2>7 DEF History
<1> QED
  BY <1>1, <1>15, <1>16

-----------------------------------------------------------------------------
(* Rows asked for twice.                                                   *)

\* A row asked for twice is asked for twice until an answer comes that leaves
\* the fill in doubt.
LEMMA BraidedStays ==
    ASSUME AgreementInv, Braided, [LedgerNext]_ledgerVars, Clean, Clean'
    PROVE  Braided'
<1>1. Shape /\ \A i \in AnyTx : RowInv(i)
  BY DEF AgreementInv, Clean
<1>2. PICK i \in AnyTx : \E c, d \in Of(i) : c # d
  BY DEF Braided
<1>3. PICK c \in Of(i), d \in Of(i) : c # d
  BY <1>2
<1>4. doubt' = {} /\ shifted' = {}
  BY DEF Clean
<1>5. c.kind \in Hiding /\ d.kind \in Hiding /\ c \in calls /\ d \in calls
  BY <1>1, <1>3 DEF RowInv, Core, OneOrHiding, Of
<1>6. i = c.tx /\ i = d.tx
  BY <1>3, <1>5 DEF Of, Touched, Hiding
<1>7. ASSUME calls \subseteq calls' PROVE Braided'
  BY <1>3, <1>7 DEF Braided, Of
<1>8. CASE Person
  <2>1. \A kind, tx, what : Do(kind, tx, what) => calls \subseteq calls'
    BY DEF Do
  <2>2. CASE Load \/ LoadHiddenTx
    BY <1>7, <2>2 DEF Load, LoadHiddenTx
  <2>3. CASE DeleteTransferWithLegs \/ \E t \in Tx : AddTransaction(t)
    BY <1>7, <2>1, <2>3 DEF DeleteTransferWithLegs, AddTransaction
  <2>4. CASE \E j \in AnyTx : \/ \E k \in Cat : UpdateTransaction(j, "categoryId", k)
                              \/ \E t \in Tx : UpdateTransaction(j, "date", t)
                              \/ \E parts \in {0, 1} : ReplaceTransactionSplits(j, parts)
                              \/ DeleteTransaction(j) \/ HideTx(j) \/ UnhideTx(j)
    BY <1>7, <2>1, <2>4
       DEF UpdateTransaction, ReplaceTransactionSplits, DeleteTransaction, HideTx, UnhideTx
  <2> QED
    BY <1>8, <2>2, <2>3, <2>4 DEF Person
<1>9. CASE Arrival
  BY <1>7, <1>9 DEF Arrival, PageRead, PageReturns, SnapshotRead, SnapshotReturns, HiddenRead
<1>10. CASE FillFails \/ LoadFails \/ HiddenReturns \/ UNCHANGED ledgerVars
  BY <1>7, <1>10 DEF FillFails, LoadFails, HiddenReturns, ledgerVars
<1>11. CASE ServerAccepts \/ Refuse
  <2>1. PICK e \in calls, stage \in {"accepted", "refused"} : CallAt(e, stage)
    BY <1>11 DEF ServerAccepts, Refuse
  <2>2. PICK f : f = [e EXCEPT !.stage = stage]
    OBVIOUS
  <2>3. f.n = e.n /\ (i \notin Touched(e.kind, e.tx) => Of(i)' = Of(i))
        /\ (i \in Touched(e.kind, e.tx) => e \in Of(i) /\ Of(i)' = (Of(i) \ {e}) \cup {f})
    BY <1>1, <2>1, <2>2, Decided
  <2>4. c.n # d.n
    BY <1>1, <1>3, <1>5 DEF Shape, CallsOK
  <2>5. \E a, b \in Of(i)' : a # b
    <3>1. CASE i \notin Touched(e.kind, e.tx)
      BY <1>3, <2>3, <3>1
    <3>2. CASE i \in Touched(e.kind, e.tx) /\ e = c
      <4>1. f \in Of(i)' /\ d \in Of(i)' /\ f # d
        BY <1>3, <2>3, <2>4, <3>2
      <4> QED
        BY <4>1
    <3>3. CASE i \in Touched(e.kind, e.tx) /\ e = d
      <4>1. f \in Of(i)' /\ c \in Of(i)' /\ f # c
        BY <1>3, <2>3, <2>4, <3>3
      <4> QED
        BY <4>1
    <3>4. CASE i \in Touched(e.kind, e.tx) /\ e # c /\ e # d
      BY <1>3, <2>3, <3>4
    <3> QED
      BY <3>1, <3>2, <3>3, <3>4
  <2> QED
    BY <2>5 DEF Braided
<1>12. CASE Succeed
  <2>1. PICK e \in calls :
           /\ calls' = calls \ {e}
           /\ shifted' = shifted \cup (IF Moving(calls') THEN {"raced"} ELSE {})
                                \cup (IF Backdated(e) THEN {"backdated"} ELSE {})
    BY <1>12 DEF Succeed
  <2>2. ~Moving(calls')
    BY <1>4, <2>1
  <2>3. c \in calls' \/ d \in calls'
    BY <1>3, <1>5, <2>1
  <2> QED
    BY <1>5, <2>2, <2>3 DEF Moving, Hiding
<1>13. CASE Fail
  <2>1. PICK e \in calls :
           /\ e.stage \in {"accepted", "refused"} /\ calls' = calls \ {e}
           /\ doubt' = IF \/ e.stage = "accepted"
                          \/ e.kind \in {"hide", "unhide"} /\ revisions.hidden[e.tx] # e.n
                       THEN doubt \cup Touched(e.kind, e.tx) ELSE doubt
    BY <1>13 DEF Fail
  <2>2. CASE e # c /\ e # d
    BY <1>3, <2>1, <2>2 DEF Braided, Of
  <2>3. ASSUME NEW a \in Of(i), NEW b \in Of(i), a # b, e = a, a.kind \in Hiding, a.tx = i,
               b.kind \in Hiding
        PROVE  FALSE
    <3>1. Chained(i) /\ i \in DOMAIN srvTx /\ Link(a, i) /\ Link(b, i)
      BY <1>1, <2>3, ChainEnd DEF RowInv, Core
    <3>2. a.n # b.n /\ a.n \in Nat /\ b.n \in Nat
      BY <1>1, <2>3 DEF Shape, CallsOK, CallOK, Of
    <3>3. First(a, i)
      BY <2>1, <2>3, <3>1 DEF Link
    <3>4. a.n < b.n
      BY <2>3, <3>2, <3>3 DEF First
    <3>5. b.n <= revisions.hidden[i] /\ revisions.hidden[i] \in Nat
      BY <1>1, <3>1 DEF Link, Shape, RevisionsOK
    <3>6. revisions.hidden[a.tx] # a.n
      BY <2>3, <3>2, <3>4, <3>5
    <3>7. i \in doubt'
      BY <2>1, <2>3, <3>6 DEF Touched, Hiding
    <3> QED
      BY <1>4, <3>7
  <2> QED
    BY <1>3, <1>5, <1>6, <2>2, <2>3
<1> QED
  BY <1>8, <1>9, <1>10, <1>11, <1>12, <1>13 DEF LedgerNext

-----------------------------------------------------------------------------
(* Once everything has come, the whole history is shown.                   *)

LEMMA InitHistory == LedgerInit => HistoryInv
<1> SUFFICES ASSUME LedgerInit PROVE AgreementInv /\ History
  BY DEF HistoryInv
<1>1. /\ ledger = [rows |-> Page(0, Light), total |-> Cardinality(Tx)]
      /\ fill = NewFill(ledger) /\ txProgress = (fill # None) /\ loads = {} /\ calls = {}
      /\ DOMAIN srvTx = Tx /\ srvHidden = {} /\ doubt = {} /\ shifted = {}
  BY DEF LedgerInit
<1>2. AgreementInv
  BY InitAgreement
<1>3. Unbraided
  BY <1>1, <1>2 DEF Unbraided, Clean, Braided, Of
<1>4. Visible = Tx
  BY <1>1 DEF Visible
<1>5. Snapped
  <2> DEFINE page == Page(0, Light)
  <2>1. ledger = [rows |-> page, total |-> Cardinality(Visible)]
    BY <1>1, <1>4
  <2> HIDE DEF page
  <2>2. ledger.rows = page /\ ledger.total = Cardinality(Visible)
    BY <2>1
  <2> QED
    BY <1>1, <1>3, <2>2 DEF Snapped, page
<1>6. CountsAll /\ \A j \in Held \cap Visible, i \in Behind : NewerThan(j, i)
  BY <1>5, SnappedOrder
<1>7. Restarting
  BY <1>1, <1>3, <1>6 DEF Restarting, Moving
<1>8. InOrder /\ (fill # None => FillReaches) /\ (fill = None => Behind = {})
  BY <1>7, NewFillReaches
<1>9. Fresh /\ Orderly
  BY <1>1, LedgerClientAssumption DEF Fresh, Orderly
<1> QED
  BY <1>2, <1>6, <1>8, <1>9 DEF History

LEMMA ShiftedStays == Shape /\ [LedgerNext]_ledgerVars => shifted \subseteq shifted'
<1> SUFFICES ASSUME Shape, [LedgerNext]_ledgerVars PROVE shifted \subseteq shifted'
  OBVIOUS
<1>1. CASE Load \/ LoadHiddenTx \/ DeleteTransferWithLegs \/ \E d \in Tx : AddTransaction(d)
  BY <1>1 DEF Load, LoadHiddenTx, DeleteTransferWithLegs, AddTransaction
<1>2. CASE \E i \in AnyTx : \/ \E k \in Cat : UpdateTransaction(i, "categoryId", k)
                            \/ \E d \in Tx : UpdateTransaction(i, "date", d)
                            \/ \E parts \in {0, 1} : ReplaceTransactionSplits(i, parts)
                            \/ DeleteTransaction(i) \/ HideTx(i) \/ UnhideTx(i)
  BY <1>2 DEF UpdateTransaction, ReplaceTransactionSplits, DeleteTransaction, HideTx, UnhideTx
<1>3. CASE PageReturns
  BY <1>3, PageReturnsGives
<1>4. CASE PageRead \/ SnapshotRead \/ SnapshotReturns \/ HiddenRead
  BY <1>4 DEF PageRead, SnapshotRead, SnapshotReturns, HiddenRead
<1>5. CASE FillFails \/ LoadFails \/ HiddenReturns \/ ServerAccepts \/ Refuse \/ Succeed \/ Fail
  BY <1>5 DEF FillFails, LoadFails, HiddenReturns, ServerAccepts, Refuse, Succeed, Fail
<1>6. CASE UNCHANGED ledgerVars
  BY <1>6 DEF ledgerVars
<1> QED
  BY <1>1, <1>2, <1>3, <1>4, <1>5, <1>6 DEF LedgerNext, Person, Arrival

LEMMA StepHistory ==
    ASSUME Unbraided, Unbraided', History, [LedgerNext]_ledgerVars
    PROVE  History'
<1>1. CASE Person
  <2>1. CASE Load
    BY <2>1, LoadHistory
  <2>2. CASE LoadHiddenTx
    BY <2>2, StillHistory DEF LoadHiddenTx, server
  <2>3. CASE DeleteTransferWithLegs
    BY <2>3, DeleteLegsHistory
  <2>4. CASE \E d \in Tx : AddTransaction(d)
    BY <2>4, CreateHistory
  <2>5. CASE \E i \in AnyTx, k \in Cat : UpdateTransaction(i, "categoryId", k)
    BY <2>5, UpdateHistory DEF Field, Fits
  <2>6. CASE \E i \in AnyTx, d \in Tx : UpdateTransaction(i, "date", d)
    BY <2>6, UpdateHistory DEF Field, Fits
  <2>7. CASE \E i \in AnyTx, parts \in {0, 1} : ReplaceTransactionSplits(i, parts)
    BY <2>7, SplitsHistory
  <2>8. CASE \E i \in AnyTx : DeleteTransaction(i)
    BY <2>8, DeleteHistory
  <2>9. CASE \E i \in AnyTx : HideTx(i)
    BY <2>9, HideHistory
  <2>10. CASE \E i \in AnyTx : UnhideTx(i)
    BY <2>10, UnhideHistory
  <2> QED
    BY <1>1, <2>1, <2>2, <2>3, <2>4, <2>5, <2>6, <2>7, <2>8, <2>9, <2>10 DEF Person
<1>2. CASE Arrival
  <2>1. CASE HiddenRead
    BY <2>1, StillHistory DEF HiddenRead, server
  <2> QED
    BY <1>2, <2>1, PageReadHistory, PageReturnsHistory, SnapshotReadHistory, SnapshotReturnsHistory
       DEF Arrival
<1>3. CASE FillFails \/ LoadFails
  <2>1. shifted' = {}
    BY RowsThen DEF Rows
  <2> QED
    BY <1>3, <2>1 DEF FillFails, LoadFails
<1>4. CASE HiddenReturns
  BY <1>4, StillHistory DEF HiddenReturns, server
<1>5. CASE ServerAccepts \/ Refuse \/ Succeed \/ Fail
  BY <1>5, AcceptHistory, RefuseHistory, SucceedHistory, FailHistory
<1>6. CASE UNCHANGED ledgerVars
  BY <1>6, StillHistory DEF ledgerVars, client, server
<1> QED
  BY <1>1, <1>2, <1>3, <1>4, <1>5, <1>6 DEF LedgerNext

LEMMA NextHistory == HistoryInv /\ [LedgerNext]_ledgerVars => HistoryInv'
<1> SUFFICES ASSUME HistoryInv, [LedgerNext]_ledgerVars PROVE HistoryInv'
  OBVIOUS
<1>1. AgreementInv /\ AgreementInv'
  BY NextAgreement DEF HistoryInv
<1>2. ASSUME Clean' PROVE Braided' \/ History'
  <2>1. Clean
    <3>1. doubt \subseteq doubt' /\ shifted \subseteq shifted'
      BY <1>1, DoubtStays, ShiftedStays DEF AgreementInv
    <3> QED
      BY <1>2, <3>1 DEF Clean
  <2>2. CASE Braided
    BY <1>1, <1>2, <2>1, <2>2, BraidedStays
  <2>3. CASE ~Braided /\ ~Braided'
    <3>1. Unbraided /\ Unbraided' /\ History
      BY <1>1, <1>2, <2>1, <2>3 DEF Unbraided, HistoryInv
    <3> QED
      BY <3>1, StepHistory
  <2> QED
    BY <2>2, <2>3
<1> QED
  BY <1>1, <1>2 DEF HistoryInv

LEMMA HistoryGives == HistoryInv => HistoryComplete
<1> SUFFICES ASSUME HistoryInv, Quiet, shifted = {}, doubt = {} PROVE Visible \subseteq DOMAIN ledger.rows
  BY DEF HistoryComplete
<1>1. calls = {} /\ loads = {} /\ fill = None
  BY DEF Quiet
<1>2. \A i : Of(i) = {}
  BY <1>1 DEF Of
<1>3. History
  BY <1>2 DEF HistoryInv, Clean, Braided
<1>4. Behind = {}
  BY <1>1, <1>3 DEF History
<1>5. \A kinds : With(kinds) = {}
  BY <1>2 DEF With
<1> QED
  BY <1>4, <1>5 DEF Behind, Shown

\* When nothing moved the rows it counts by, the fill loads the whole history,
\* however often a save restarts it or a load supersedes it, and whatever else
\* is edited meanwhile (fillTransactions, store.ts:361, and the calls of it
\* after a save).
THEOREM HistoryLoaded == LedgerSpec => []HistoryComplete
<1>1. LedgerInit => HistoryInv
  BY InitHistory
<1>2. HistoryInv /\ [LedgerNext]_ledgerVars => HistoryInv'
  BY NextHistory
<1>3. HistoryInv => HistoryComplete
  BY HistoryGives
<1> QED
  BY <1>1, <1>2, <1>3, PTL DEF LedgerSpec
=============================================================================
