---------------------------- MODULE LedgerClient ----------------------------
(***************************************************************************)
(* The transactions a browser holds (store.ts): a light snapshot with the  *)
(* newest rows, older rows that arrive in pages behind it, the hidden rows *)
(* kept apart, and edits that show at once and are saved behind the page.  *)
(* Requests overlap, may be refused, and answers may be lost or late; the  *)
(* visibility requests of one row alone are chained.                       *)
(***************************************************************************)
EXTENDS Integers, FiniteSets, Sequences, SequencesExt, FiniteSetsExt, Absent

CONSTANTS
    Tx,        \* rows the server starts with; later ones get greater numbers
    Legs,      \* those of them that form the one transfer
    Cat,       \* categories; 0 is uncategorized
    Light,     \* rows in a light snapshot
    TX_CHUNK,  \* rows in a page
    MaxAsked   \* bound: what the person does

ASSUME LedgerClientAssumption ==
    /\ Tx \subseteq Nat \ {0} /\ IsFiniteSet(Tx) /\ Legs \subseteq Tx
    /\ Cat \subseteq Nat /\ 0 \in Cat
    /\ Light \in Nat /\ TX_CHUNK \in Nat \ {0} /\ MaxAsked \in Nat

VARIABLES
    srvTx,       \* server: its rows
    srvHidden,   \* server: the hidden ones
    ledger,      \* snapshot.transactions and transactionsTotal
    txProgress,  \* TRUE while history is said to be loading
    fill,        \* the fill of the current generation, or None
    loads,       \* load() calls under way, at most one of them current
    hiddenTx,    \* the hidden rows, None until asked for
    hiddenLoad,  \* the hidden-list request of the current hiddenEpoch, or None
    calls,       \* requests of edits, each until its answer has been handled
    revisions,   \* txFieldRevisions, splitRevisions, hiddenRevisions
    shownEpoch,  \* snapshotReplacementEpoch
    asked,       \* ghost: what the person has done so far
    newest,      \* ghost: the newest edit of each field of each row
    doubt,       \* ghost: rows whose requests crossed, or whose answer was lost
    shifted      \* ghost: what moved the rows under the pages, or ended the fill

client     == <<ledger, txProgress, fill, loads, hiddenTx, hiddenLoad, revisions, shownEpoch>>
server     == <<srvTx, srvHidden>>
ledgerVars == <<server, client, calls, asked, newest, doubt, shifted>>

Field == {"date", "categoryId"}
LastTx == Max({0} \cup Tx)
AnyTx == Tx \cup (LastTx + 1 .. LastTx + MaxAsked)

Row == [date : Tx, categoryId : Cat, splits : {0, 1}, leg : BOOLEAN]

\* Rows, by id.
IsTable(f) == DOMAIN f \subseteq AnyTx /\ f \in [DOMAIN f -> Row]

\* A fill that has asked for a page, or got it, with rows of these ids.
Fills(waiting, got) ==
    [stage : {"asked"}, offset : Nat, total : Nat, pending : [waiting -> Row]]
    \cup [stage : {"answered"}, offset : Nat, total : Nat, pending : [waiting -> Row],
          page : [got -> Row], count : Nat]

ASSUME FillAssumption ==
    \A waiting, got \in SUBSET AnyTx : None \notin [got -> Row] \cup Fills(waiting, got)

\* mergeTransactions: rows already present win.
MergeTransactions(existing, incoming) ==
    [i \in DOMAIN existing \cup DOMAIN incoming |->
        IF i \in DOMAIN existing THEN existing[i] ELSE incoming[i]]

Only(f, ids) == [i \in ids |-> f[i]]
Without(f, ids) == Only(f, DOMAIN f \ ids)
Size(f) == Cardinality(DOMAIN f)
Greater(a, b) == IF a > b THEN a ELSE b

Visible == DOMAIN srvTx \ srvHidden

\* ORDER BY date DESC, id DESC, the reverse of compareTx
NewerThan(a, b) ==
    \/ srvTx[a].date > srvTx[b].date
    \/ srvTx[a].date = srvTx[b].date /\ a > b

Page(offset, limit) ==
    LET rank(i) == Cardinality({j \in Visible : NewerThan(j, i)})
    IN  Only(srvTx, {i \in Visible : rank(i) \in offset .. offset + limit - 1})

-----------------------------------------------------------------------------
\* The fill

NewFill(current) ==
    IF Size(current.rows) >= current.total THEN None
    ELSE [stage |-> "asked", offset |-> Size(current.rows), total |-> current.total,
          pending |-> <<>>]

\* fillTransactions under a new generation: an older fill drops its results,
\* and so does a load that has not been answered.
StartFill(current) ==
    /\ fill' = NewFill(current)
    /\ txProgress' = (fill' # None)

\* Mutant of Restarted: the fill goes on with the offset it had.
RestartedNever(current) == UNCHANGED <<fill, txProgress, loads>>

Restarted(current) ==
    IF txProgress THEN StartFill(current) /\ loads' = {[l EXCEPT !.current = FALSE] : l \in loads}
                  ELSE UNCHANGED <<fill, txProgress, loads>>

Touched(kind, tx) == IF kind = "deleteLegs" THEN Legs ELSE {tx}
Unanswered == UNION {Touched(c.kind, c.tx) : c \in calls}

\* Some row is shown where it may not be on the server, or the other way round.
Moving(open) == \E c \in open : c.kind \notin {"patch", "create", "splits"}

PageRead ==
    /\ fill # None /\ fill.stage = "asked"
    /\ fill' = [stage |-> "answered", offset |-> fill.offset, total |-> fill.total,
                pending |-> fill.pending, page |-> Page(fill.offset, TX_CHUNK),
                count |-> Cardinality(Visible)]
    /\ doubt' = doubt \cup (Unanswered \cap DOMAIN fill'.page)
    /\ shifted' = IF Moving(calls) THEN shifted \cup {"raced"} ELSE shifted
    /\ UNCHANGED <<server, ledger, txProgress, loads, hiddenTx, hiddenLoad, revisions, shownEpoch,
                   calls, asked, newest>>

\* Mutant of FillDone: a short page is not taken for the last.
FillDoneByCount(got, loaded, count) == loaded >= count

FillDone(got, loaded, count) == got < TX_CHUNK \/ loaded >= count

\* A page joins those that wait; they are flushed into the snapshot when the
\* last has come, or when 250 ms have passed since the last flush.
PageReturns ==
    /\ fill # None /\ fill.stage = "answered"
    /\ LET offset  == fill.offset + Size(fill.page)
           count   == Greater(fill.count, offset)
           pending == MergeTransactions(fill.pending, fill.page)
           done    == FillDone(Size(fill.page), Size(ledger.rows) + Size(pending), count)
           merged  == MergeTransactions(ledger.rows, pending)
       IN  \/ /\ ledger' = [rows |-> merged,
                            total |-> Greater(Greater(count, ledger.total), Size(merged))]
              /\ txProgress' = ~done
              /\ fill' = IF done THEN None
                         ELSE [stage |-> "asked", offset |-> offset, total |-> count,
                               pending |-> <<>>]
              /\ shifted' = IF done /\ calls # {} THEN shifted \cup {"ended"} ELSE shifted
           \/ /\ ~done
              /\ fill' = [stage |-> "asked", offset |-> offset, total |-> count,
                          pending |-> pending]
              /\ UNCHANGED <<ledger, txProgress, shifted>>
    /\ UNCHANGED <<server, loads, hiddenTx, hiddenLoad, revisions, shownEpoch, calls, asked, newest,
                   doubt>>

FillFails ==
    /\ fill # None
    /\ fill' = None /\ txProgress' = FALSE /\ shifted' = shifted \cup {"failed"}
    /\ UNCHANGED <<server, ledger, loads, hiddenTx, hiddenLoad, revisions, shownEpoch, calls, asked,
                   newest, doubt>>

-----------------------------------------------------------------------------
\* load

CanDo == asked < MaxAsked

Load ==
    /\ CanDo /\ asked' = asked + 1
    /\ loads' = {[l EXCEPT !.current = FALSE] : l \in loads}
                \cup {[n |-> asked, current |-> TRUE, stage |-> "asked", hidden |-> hiddenTx # None]}
    /\ fill' = None /\ hiddenTx' = None /\ hiddenLoad' = None
    /\ doubt' = doubt \cup Unanswered
    /\ UNCHANGED <<server, ledger, txProgress, revisions, shownEpoch, calls, newest, shifted>>

SnapshotRead ==
    /\ \E l \in loads :
          /\ l.stage = "asked"
          /\ loads' = (loads \ {l}) \cup
                {[n |-> l.n, current |-> l.current, stage |-> "answered", hidden |-> l.hidden,
                  rows |-> Page(0, Light), total |-> Cardinality(Visible)]}
    /\ doubt' = doubt \cup Unanswered
    /\ UNCHANGED <<server, ledger, txProgress, fill, hiddenTx, hiddenLoad, revisions, shownEpoch,
                   calls, asked, newest, shifted>>

SnapshotReturns ==
    \E l \in loads :
        /\ l.stage = "answered"
        /\ loads' = loads \ {l}
        /\ IF l.current
           THEN /\ ledger' = [rows |-> l.rows, total |-> l.total]
                /\ shownEpoch' = shownEpoch + 1
                /\ StartFill(ledger')
                /\ hiddenLoad' = IF l.hidden THEN [stage |-> "asked"] ELSE hiddenLoad
           ELSE UNCHANGED <<ledger, shownEpoch, fill, txProgress, hiddenLoad>>
        /\ UNCHANGED <<server, hiddenTx, revisions, calls, asked, newest, doubt, shifted>>

\* The failure of any load, a superseded one too, ends the progress.
LoadFails ==
    /\ \E l \in loads : loads' = loads \ {l}
    /\ txProgress' = FALSE /\ shifted' = shifted \cup {"failed"}
    /\ UNCHANGED <<server, ledger, fill, hiddenTx, hiddenLoad, revisions, shownEpoch, calls, asked,
                   newest, doubt>>

-----------------------------------------------------------------------------
\* Hidden rows

\* The page shows the hidden rows: loadHiddenTx.
LoadHiddenTx ==
    /\ CanDo /\ hiddenLoad = None
    /\ asked' = asked + 1
    /\ hiddenLoad' = [stage |-> "asked"]
    /\ doubt' = doubt \cup Unanswered
    /\ UNCHANGED <<server, ledger, txProgress, fill, loads, hiddenTx, revisions, shownEpoch, calls,
                   newest, shifted>>

HiddenRead ==
    /\ hiddenLoad # None /\ hiddenLoad.stage = "asked"
    /\ hiddenLoad' = [stage |-> "answered", rows |-> Only(srvTx, srvHidden)]
    /\ UNCHANGED <<server, ledger, txProgress, fill, loads, hiddenTx, revisions, shownEpoch, calls,
                   asked, newest, doubt, shifted>>

\* The list replaces the one held, or the request failed.
HiddenReturns ==
    /\ hiddenLoad # None
    /\ hiddenLoad' = None
    /\ \/ hiddenLoad.stage = "answered" /\ hiddenTx' = hiddenLoad.rows
       \/ UNCHANGED hiddenTx
    /\ UNCHANGED <<server, ledger, txProgress, fill, loads, revisions, shownEpoch, calls, asked,
                   newest, doubt, shifted>>

-----------------------------------------------------------------------------
\* What the person does

\* A request, what it says and what its failure puts back.
Call(kind, tx, what) ==
    [n |-> asked + 1, kind |-> kind, tx |-> tx, epoch |-> shownEpoch, stage |-> "sent", what |-> what]

Arriving ==
    IF fill = None THEN {}
    ELSE DOMAIN fill.pending \cup IF fill.stage = "answered" THEN DOMAIN fill.page ELSE {}

\* A row is in doubt when a request for it leaves while another is unanswered,
\* or while an older image of the ledger is on its way to the page.
Do(kind, tx, what) ==
    /\ CanDo /\ asked' = asked + 1
    /\ calls' = calls \cup {Call(kind, tx, what)}
    /\ doubt' = IF \/ loads # {} \/ hiddenLoad # None
                   \/ Touched(kind, tx) \cap Arriving # {}
                   \/ /\ Touched(kind, tx) \cap Unanswered # {}
                      /\ \E c \in calls : {c.kind, kind} \ {"hide", "unhide"} # {}
                THEN doubt \cup Touched(kind, tx) ELSE doubt
    /\ UNCHANGED server

IsEditable(i) == ledger.rows[i].leg = FALSE /\ ledger.rows[i].splits = 0

\* addTransaction: nothing is shown before the answer; the new row is
\* uncategorized here.
AddTransaction(date) ==
    /\ Do("create", LastTx + asked + 1, [row |-> [date |-> date, categoryId |-> 0, splits |-> 0,
                                                  leg |-> FALSE]])
    /\ UNCHANGED <<client, newest, shifted>>

\* updateTransaction
UpdateTransaction(i, field, value) ==
    /\ i \in DOMAIN ledger.rows /\ IsEditable(i) /\ ledger.rows[i][field] # value
    /\ Do("patch", i, [field |-> field, value |-> value, before |-> ledger.rows[i][field]])
    /\ revisions' = [revisions EXCEPT !.field[<<i, field>>] = asked']
    /\ newest' = [newest EXCEPT ![<<i, field>>] = asked']
    /\ ledger' = [ledger EXCEPT !.rows[i][field] = value]
    /\ shifted' = IF field = "date" THEN shifted \cup {"moved"} ELSE shifted
    /\ UNCHANGED <<txProgress, fill, loads, hiddenTx, hiddenLoad, shownEpoch>>

\* Parts or none; a split row has no category.
Parted(row, parts) == [row EXCEPT !.splits = parts, !.categoryId = IF parts # 0 THEN 0 ELSE @]

\* replaceTransactionSplits
ReplaceTransactionSplits(i, parts) ==
    /\ i \in DOMAIN ledger.rows /\ ~ledger.rows[i].leg /\ ledger.rows[i].splits # parts
    /\ Do("splits", i, [parts |-> parts, before |-> ledger.rows[i]])
    /\ revisions' = [revisions EXCEPT !.split[i] = asked']
    /\ ledger' = [ledger EXCEPT !.rows[i] = Parted(@, parts)]
    /\ UNCHANGED <<txProgress, fill, loads, hiddenTx, hiddenLoad, shownEpoch, newest, shifted>>

Dropped(ids) == [rows |-> Without(ledger.rows, ids), total |-> Greater(0, ledger.total - Cardinality(ids))]
Kept(rows) == [rows |-> MergeTransactions(ledger.rows, rows), total |-> ledger.total + Size(rows)]

DeleteTransaction(i) ==
    /\ i \in DOMAIN ledger.rows /\ ~ledger.rows[i].leg
    /\ Do("delete", i, [before |-> ledger.rows[i]])
    /\ ledger' = Dropped({i})
    /\ shifted' = IF txProgress THEN shifted \cup {"deleted"} ELSE shifted
    /\ UNCHANGED <<txProgress, fill, loads, hiddenTx, hiddenLoad, revisions, shownEpoch, newest>>

\* deleteTransferWithLegs: nothing is shown before the answer.
DeleteTransferWithLegs ==
    /\ \E i \in Legs : i \in DOMAIN ledger.rows
    /\ Do("deleteLegs", CHOOSE i \in Legs : TRUE, <<>>)
    /\ UNCHANGED <<client, newest, shifted>>

HideTx(i) ==
    /\ i \in DOMAIN ledger.rows /\ ~ledger.rows[i].leg
    /\ Do("hide", i, [before |-> ledger.rows[i]])
    /\ revisions' = [revisions EXCEPT !.hidden[i] = asked']
    /\ ledger' = Dropped({i})
    /\ hiddenTx' = MergeTransactions(IF hiddenTx = None THEN <<>> ELSE hiddenTx,
                                     Only(ledger.rows, {i}))
    /\ hiddenLoad' = None
    /\ UNCHANGED <<txProgress, fill, loads, shownEpoch, newest, shifted>>

UnhideTx(i) ==
    /\ hiddenTx # None /\ i \in DOMAIN hiddenTx
    /\ Do("unhide", i, [before |-> hiddenTx[i]])
    /\ revisions' = [revisions EXCEPT !.hidden[i] = asked']
    /\ ledger' = Kept(Only(hiddenTx, {i}))
    /\ hiddenTx' = Without(hiddenTx, {i})
    /\ hiddenLoad' = None
    /\ UNCHANGED <<txProgress, fill, loads, shownEpoch, newest, shifted>>

-----------------------------------------------------------------------------
\* The server

\* Mutant of Sendable: visibility requests are not chained.
SendableUnchained(c) == c.stage = "sent"

\* chainedPatchTx: a visibility request leaves once the one before is settled.
Sendable(c) ==
    /\ c.stage = "sent"
    /\ c.kind \in {"hide", "unhide"} =>
         ~\E d \in calls : d.kind \in {"hide", "unhide"} /\ d.tx = c.tx /\ d.n < c.n

CallAt(c, stage) == calls' = (calls \ {c}) \cup {[c EXCEPT !.stage = stage]}

Accepted(c) ==
    CASE c.kind = "create" ->
            /\ srvTx' = MergeTransactions(srvTx, [j \in {c.tx} |-> c.what.row])
            /\ UNCHANGED srvHidden
      [] c.kind = "patch" ->
            /\ srvTx' = [srvTx EXCEPT ![c.tx][c.what.field] = c.what.value]
            /\ UNCHANGED srvHidden
      [] c.kind = "splits" ->
            /\ srvTx' = [srvTx EXCEPT ![c.tx] = Parted(@, c.what.parts)]
            /\ UNCHANGED srvHidden
      [] c.kind = "delete" ->
            srvTx' = Without(srvTx, {c.tx}) /\ srvHidden' = srvHidden \ {c.tx}
      [] c.kind = "deleteLegs" ->
            srvTx' = Without(srvTx, Legs) /\ srvHidden' = srvHidden \ Legs
      [] c.kind = "hide"   -> srvHidden' = srvHidden \cup {c.tx} /\ UNCHANGED srvTx
      [] c.kind = "unhide" -> srvHidden' = srvHidden \ {c.tx} /\ UNCHANGED srvTx

ServerAccepts ==
    /\ \E c \in calls :
          /\ Sendable(c) /\ (c.kind # "create" => c.tx \in DOMAIN srvTx)
          /\ Accepted(c) /\ CallAt(c, "accepted")
    /\ UNCHANGED <<client, asked, newest, doubt, shifted>>

Refuse ==
    /\ \E c \in calls : Sendable(c) /\ CallAt(c, "refused")
    /\ UNCHANGED <<server, client, asked, newest, doubt, shifted>>

-----------------------------------------------------------------------------
\* Answers

\* A created, hidden, unhidden row, or a deleted transfer, shifts every older
\* page: the fill starts again from what is loaded.
Saved(c) ==
    /\ CASE c.kind = "create" ->
              ledger' = Kept([j \in {c.tx} |-> c.what.row]) /\ Restarted(ledger')
         [] c.kind = "deleteLegs" ->
              /\ ledger' = [rows |-> Without(ledger.rows, Legs),
                            total |-> Greater(0, ledger.total - Cardinality(Legs))]
              /\ Restarted(ledger')
         [] c.kind \in {"hide", "unhide"} -> UNCHANGED ledger /\ Restarted(ledger)
         [] c.kind = "splits" ->
              /\ ledger' = IF revisions.split[c.tx] = c.n /\ c.tx \in DOMAIN ledger.rows
                           THEN [ledger EXCEPT !.rows[c.tx] = Parted(@, c.what.parts)]
                           ELSE ledger
              /\ UNCHANGED <<fill, txProgress, loads>>
         [] OTHER -> UNCHANGED <<ledger, fill, txProgress, loads>>
    /\ UNCHANGED hiddenTx

\* Mutant of UndoesField: revisions are not compared.
UndoesFieldAlways(c) == TRUE

UndoesField(c) == revisions.field[<<c.tx, c.what.field>>] = c.n

\* What a failure puts back, unless a newer edit or a new snapshot came between.
NotSaved(c) ==
    /\ CASE c.kind = "patch" ->
              /\ ledger' = IF c.epoch = shownEpoch /\ c.tx \in DOMAIN ledger.rows /\ UndoesField(c)
                           THEN [ledger EXCEPT !.rows[c.tx][c.what.field] = c.what.before] ELSE ledger
              /\ UNCHANGED hiddenTx
         [] c.kind = "splits" ->
              /\ ledger' = IF revisions.split[c.tx] = c.n /\ c.tx \in DOMAIN ledger.rows
                           THEN [ledger EXCEPT !.rows[c.tx] =
                                    [@ EXCEPT !.splits = c.what.before.splits,
                                              !.categoryId = c.what.before.categoryId]]
                           ELSE ledger
              /\ UNCHANGED hiddenTx
         [] c.kind = "delete" ->
              ledger' = Kept([j \in {c.tx} |-> c.what.before]) /\ UNCHANGED hiddenTx
         [] c.kind = "hide" ->
              IF revisions.hidden[c.tx] = c.n /\ c.epoch = shownEpoch
              THEN /\ ledger' = Kept([j \in {c.tx} |-> c.what.before])
                   /\ hiddenTx' = IF hiddenTx = None THEN <<>> ELSE Without(hiddenTx, {c.tx})
              ELSE UNCHANGED <<ledger, hiddenTx>>
         [] c.kind = "unhide" ->
              IF revisions.hidden[c.tx] = c.n /\ c.epoch = shownEpoch
              THEN /\ ledger' = Dropped({c.tx})
                   /\ hiddenTx' = MergeTransactions(IF hiddenTx = None THEN <<>> ELSE hiddenTx,
                                                    [j \in {c.tx} |-> c.what.before])
              ELSE UNCHANGED <<ledger, hiddenTx>>
         [] OTHER -> UNCHANGED <<ledger, hiddenTx>>
    /\ UNCHANGED <<fill, txProgress, loads>>

\* finally: the edit no longer owns its field.
Released(c) ==
    CASE c.kind = "patch" /\ revisions.field[<<c.tx, c.what.field>>] = c.n ->
            [revisions EXCEPT !.field[<<c.tx, c.what.field>>] = 0]
      [] c.kind = "splits" /\ revisions.split[c.tx] = c.n -> [revisions EXCEPT !.split[c.tx] = 0]
      [] OTHER -> revisions

\* The row that now shows, a new one or one no longer hidden, is older than a row
\* that has not been loaded: the page no longer holds the newest rows.
Older(row, tx, i) ==
    \/ srvTx[i].date > row.date
    \/ srvTx[i].date = row.date /\ i > tx

Backdated(c) ==
    \E i \in Visible \ DOMAIN ledger.rows :
        \/ c.kind = "create" /\ Older(c.what.row, c.tx, i)
        \/ c.kind = "unhide" /\ Older(c.what.before, c.tx, i)

Succeed ==
    /\ \E c \in calls :
          /\ c.stage = "accepted" /\ Saved(c)
          /\ calls' = calls \ {c} /\ revisions' = Released(c)
          /\ shifted' = shifted \cup (IF Moving(calls') THEN {"raced"} ELSE {})
                               \cup (IF Backdated(c) THEN {"backdated"} ELSE {})
    /\ UNCHANGED <<server, hiddenLoad, shownEpoch, asked, newest, doubt>>

\* Refused, or accepted and the answer lost.
Fail ==
    /\ \E c \in calls :
          /\ c.stage \in {"accepted", "refused"} /\ NotSaved(c)
          /\ calls' = calls \ {c} /\ revisions' = Released(c)
          /\ doubt' = IF \/ c.stage = "accepted"
                         \/ c.kind \in {"hide", "unhide"} /\ revisions.hidden[c.tx] # c.n
                      THEN doubt \cup Touched(c.kind, c.tx) ELSE doubt
          /\ shifted' = IF c.stage = "accepted" THEN shifted \cup {"failed"} ELSE shifted
    /\ UNCHANGED <<server, hiddenLoad, shownEpoch, asked, newest>>

-----------------------------------------------------------------------------
LedgerInit ==
    /\ srvTx = [i \in Tx |-> [date |-> i, categoryId |-> 0, splits |-> 0, leg |-> i \in Legs]]
    /\ srvHidden = {}
    /\ ledger = [rows |-> Page(0, Light), total |-> Cardinality(Tx)]
    /\ fill = NewFill(ledger) /\ txProgress = (fill # None)
    /\ loads = {} /\ hiddenTx = None /\ hiddenLoad = None
    /\ calls = {}
    /\ revisions = [field  |-> [f \in AnyTx \X Field |-> 0], split |-> [i \in AnyTx |-> 0],
                    hidden |-> [i \in AnyTx |-> 0]]
    /\ shownEpoch = 0 /\ asked = 0
    /\ newest = [f \in AnyTx \X Field |-> 0]
    /\ doubt = {} /\ shifted = {}

Person ==
    \/ Load \/ LoadHiddenTx \/ DeleteTransferWithLegs
    \/ \E d \in Tx : AddTransaction(d)
    \/ \E i \in AnyTx :
          \/ \E k \in Cat : UpdateTransaction(i, "categoryId", k)
          \/ \E d \in Tx : UpdateTransaction(i, "date", d)
          \/ \E parts \in {0, 1} : ReplaceTransactionSplits(i, parts)
          \/ DeleteTransaction(i) \/ HideTx(i) \/ UnhideTx(i)

Arrival == PageRead \/ PageReturns \/ SnapshotRead \/ SnapshotReturns \/ HiddenRead

LedgerNext ==
    \/ Person \/ Arrival \/ FillFails \/ LoadFails \/ HiddenReturns
    \/ ServerAccepts \/ Refuse \/ Succeed \/ Fail

\* The browser ends every request.
LedgerFairness == WF_ledgerVars(Arrival)

LedgerSpec == LedgerInit /\ [][LedgerNext]_ledgerVars /\ LedgerFairness

-----------------------------------------------------------------------------
\* The variables have their types; one load at most is current; and history is
\* only said to be loading while a fill or a current load is under way.
LedgerTypeOK ==
    /\ IsTable(srvTx) /\ srvHidden \subseteq DOMAIN srvTx
    /\ IsTable(ledger.rows) /\ ledger.total \in Nat
    /\ hiddenTx # None => IsTable(hiddenTx)
    /\ fill # None => /\ IsTable(fill.pending) /\ fill.offset \in Nat /\ fill.total \in Nat
                      /\ fill.stage = "answered" => IsTable(fill.page) /\ fill.count \in Nat
    /\ \A l, m \in loads : l.current /\ m.current => l = m
    /\ txProgress => fill # None \/ \E l \in loads : l.current
    /\ \A c \in calls : c.stage \in {"sent", "accepted", "refused"} /\ c.n \in 1..asked
    /\ shownEpoch \in Nat /\ asked \in 0..MaxAsked /\ doubt \subseteq AnyTx
    /\ shifted \subseteq {"failed", "moved", "deleted", "ended", "raced", "backdated"}

Quiet == calls = {} /\ loads = {} /\ fill = None /\ hiddenLoad = None

\* Once every request has been answered, what the page shows of a row is what
\* the server holds, and a row is shown where it belongs, however its edits,
\* hides and unhides overlapped with the pages of history and whichever of them
\* failed.  Rows in doubt are left out.
LedgerAgrees ==
    Quiet =>
        /\ \A i \in DOMAIN ledger.rows \ doubt :
              i \in Visible /\ \A f \in Field \cup {"splits"} : ledger.rows[i][f] = srvTx[i][f]
        /\ hiddenTx # None => \A i \in DOMAIN hiddenTx \ doubt : i \in srvHidden

\* When nothing moved the rows it counts, the fill loads the whole history,
\* however often it is restarted and superseded.
HistoryComplete == Quiet /\ shifted = {} /\ doubt = {} => Visible \subseteq DOMAIN ledger.rows

\* Rows created or unhidden while history loads shift the pages, and the fill
\* absorbs it (fillTransactions, store.ts:361).  The code does not, see findings.
InsertsAbsorbed ==
    Quiet /\ shifted \subseteq {"backdated"} /\ doubt = {} => Visible \subseteq DOMAIN ledger.rows

\* An edit that fails never undoes a newer edit of the same field
\* (updateTransaction, store.ts:637).
NewerEditsKept ==
    [][\A c \in calls \ calls' : c.kind = "patch" /\ c.tx \in DOMAIN ledger.rows =>
          /\ c.tx \in DOMAIN ledger'.rows
          /\ \A f \in Field :
                ledger'.rows[c.tx][f] # ledger.rows[c.tx][f] =>
                    f = c.what.field /\ newest[<<c.tx, f>>] = c.n]_ledgerVars

\* Whatever restarts or supersedes a fill, the page stops saying that history
\* is loading.
HistoryEnds == txProgress ~> ~txProgress
=============================================================================
