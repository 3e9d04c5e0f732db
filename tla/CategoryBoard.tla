--------------------------- MODULE CategoryBoard ---------------------------
(***************************************************************************)
(* The board of categories (CategoriesPage.tsx, its dialogs, and what      *)
(* store.ts does for them).  Cards and columns are dragged; a drop shows   *)
(* at once and is saved behind the page by one request or two.  What the   *)
(* dialogs ask for shows once it is saved.  A board is a record            *)
(*   groups  by id: kind and sort                                          *)
(*   cats    by id: group, sort, target (0: no goal) and archived          *)
(***************************************************************************)
EXTENDS Integers, Sequences, FiniteSets, SequencesExt, FiniteSetsExt, Absent, Ordering

CONSTANTS
    StartingBoard,
    GroupKinds,    \* kinds a group may be given
    MaxBoardAsked  \* bound: what is asked for

Late == 1000000000  \* sort of what was just created

Column == [kind : {"income", "expense", "goal"}, sort : Nat]
Card == [group : Nat, sort : Nat, target : Nat, archived : BOOLEAN]

IsBoard(b) ==
    /\ IsFiniteSet(DOMAIN b.groups) /\ DOMAIN b.groups \subseteq Nat
    /\ IsFiniteSet(DOMAIN b.cats) /\ DOMAIN b.cats \subseteq Nat
    /\ b \in [groups : [DOMAIN b.groups -> Column], cats : [DOMAIN b.cats -> Card]]

\* Every sort, and how many there are, is below a limit.
Below(items, limit) ==
    Cardinality(DOMAIN items) < limit /\ \A x \in DOMAIN items : items[x].sort < limit

\* However much is asked for, Late stays the last sort.
ASSUME CategoryBoardAssumption ==
    /\ GroupKinds \subseteq {"income", "expense", "goal"} /\ None \notin Nat
    /\ MaxBoardAsked \in Nat /\ IsBoard(StartingBoard)
    /\ Below(StartingBoard.groups, Late - MaxBoardAsked) /\ Below(StartingBoard.cats, Late - MaxBoardAsked)

VARIABLES
    onServer,     \* the saved board
    board,        \* the board in the snapshot
    cardDrag,     \* what is being dragged and over which slot, or None
    goalPrompt,   \* GoalTargetDialog and the move it is to make, or None
    boardCalls,   \* what has been asked for and is not settled
    boardAsked,   \* ghost: how much was asked for
    crossed       \* ghost: two calls were under way together, or an answer was lost

boardVars == <<onServer, board, cardDrag, goalPrompt, boardCalls, boardAsked, crossed>>

-----------------------------------------------------------------------------
\* orderedGroups, categoriesByGroup: by sort, then by id.
SortedById(items, S) == Sorted(S, LAMBDA x, y : BySortThenId(items, x, y))

OrderedGroups(b) == SortedById(b.groups, DOMAIN b.groups)

CategoriesByGroup(b) ==
    [g \in DOMAIN b.groups |-> SortedById(b.cats, {c \in DOMAIN b.cats : b.cats[c].group = g})]

IsGoalGroup(b, g) == g \in DOMAIN b.groups /\ b.groups[g].kind = "goal"

IndexIn(seq, x) == Min({n \in 0 .. Len(seq) : n = Len(seq) \/ seq[n + 1] = x})

\* Mutant of Inserted: the slot is counted with the dragged one still in place.
InsertedAfter(seq, index, x) == InsertAt(seq, Min({index + 1, Len(seq)}) + 1, x)

Inserted(seq, index, x) == InsertAt(seq, Min({index, Len(seq)}) + 1, x)

Others(seq, x) == Filtered(seq, LAMBDA y : y # x)

\* The ids of all categories, column after column, with id dropped in a slot.
OrderedIds(b, id, slot) ==
    LET columns == [g \in DOMAIN b.groups |->
            LET rest == Others(CategoriesByGroup(b)[g], id)
            IN  IF g = slot.group THEN Inserted(rest, slot.index, id) ELSE rest]
        order   == OrderedGroups(b)
    IN  FlattenSeq([n \in DOMAIN order |-> columns[order[n]]])

\* items with the sort of the listed ones set to 1..N
Resorted(items, ids) ==
    [x \in DOMAIN items |->
        IF x \in ToSet(ids) THEN [items[x] EXCEPT !.sort = IndexIn(ids, x) + 1] ELSE items[x]]

NewId(items) == Max({0} \cup DOMAIN items) + 1
Without(items, id) == [x \in DOMAIN items \ {id} |-> items[x]]
With(items, id, item) == [x \in DOMAIN items \cup {id} |-> IF x = id THEN item ELSE items[x]]
WithCat(b, id, cat) == [b EXCEPT !.cats = With(@, id, cat)]
WithGroup(b, id, group) == [b EXCEPT !.groups = With(@, id, group)]

\* A patch says None of what it leaves as it is.
NoPatch == [group |-> None, target |-> None, archived |-> None]
Given(value, otherwise) == IF value = None THEN otherwise ELSE value
Merged(cat, patch) ==
    [group |-> Given(patch.group, cat.group), sort |-> cat.sort,
     target |-> Given(patch.target, cat.target), archived |-> Given(patch.archived, cat.archived)]

-----------------------------------------------------------------------------
\* Calls: the requests they still have to make, the first of them under way.
Call(op, requests) ==
    [n |-> boardAsked, op |-> op, requests |-> requests, stage |-> "sent", before |-> None,
     card |-> None, slot |-> None, asked |-> FALSE, made |-> None, read |-> None]

Start(c) ==
    /\ boardAsked < MaxBoardAsked /\ boardAsked' = boardAsked + 1
    /\ boardCalls' = boardCalls \cup {c}
    /\ crossed' = (crossed \/ boardCalls # {})
    /\ UNCHANGED onServer

Settle(calls) == boardCalls' = calls /\ UNCHANGED <<boardAsked, onServer>>

\* CategoryEditDialog: a goal needs a target.
NeedsTarget(g, target) == IsGoalGroup(board, g) = (target # 0)

\* createCategory: the snapshot read here is written back with the answer.
CreateCategory(g, target) ==
    /\ NeedsTarget(g, target)
    /\ Start([Call("createCategory", <<[to |-> "create", group |-> g, target |-> target]>>)
              EXCEPT !.before = board])
    /\ UNCHANGED <<board, cardDrag, goalPrompt>>

\* patchCategory, archiveGoal: from the edit dialog, or the card's menu.
PatchCategory(id, patch) ==
    /\ patch.group # None => NeedsTarget(patch.group, Given(patch.target, 0))
    /\ Start(Call("patchCategory",
             <<[to |-> IF patch = [NoPatch EXCEPT !.archived = TRUE]
                          /\ IsGoalGroup(board, board.cats[id].group)
                       THEN "archiveGoal" ELSE "patch", id |-> id, patch |-> patch]>>))
    /\ UNCHANGED <<board, cardDrag, goalPrompt>>

\* deleteCategory, mergeCategory: the card disappears.
DeleteCard(id) ==
    /\ Start(Call("deleteCategory", <<[to |-> "delete", id |-> id]>>))
    /\ UNCHANGED <<board, cardDrag, goalPrompt>>

CreateGroup(kind) ==
    /\ Start([Call("createGroup", <<[to |-> "createGroup", kind |-> kind]>>) EXCEPT !.before = board])
    /\ UNCHANGED <<board, cardDrag, goalPrompt>>

PatchGroup(g, kind) ==
    /\ Start(Call("patchGroup", <<[to |-> "patchGroup", id |-> g, kind |-> kind]>>))
    /\ UNCHANGED <<board, cardDrag, goalPrompt>>

\* GroupDeleteDialog: not offered while the column holds cards.
DeleteGroup(g) ==
    /\ CategoriesByGroup(board)[g] = <<>>
    /\ Start(Call("deleteGroup", <<[to |-> "deleteGroup", id |-> g]>>))
    /\ UNCHANGED <<board, cardDrag, goalPrompt>>

\* moveCategory: the card is moved and every card is numbered; then the group
\* and the goal are patched, if they change, and the order is saved.
MoveCategory(id, slot, target) ==
    LET ids   == OrderedIds(board, id, slot)
        patch == [NoPatch EXCEPT
                     !.group = IF board.cats[id].group # slot.group THEN slot.group ELSE None,
                     !.target = IF target # 0 THEN target ELSE None]
        reorder == [to |-> "reorder", ids |-> ids]
        moved   == [board.cats EXCEPT ![id] = Merged(@, patch)]
    IN  /\ board' = [board EXCEPT !.cats = Resorted(moved, ids)]
        /\ Start([Call("move", IF patch = NoPatch THEN <<reorder>>
                               ELSE <<[to |-> "patch", id |-> id, patch |-> patch], reorder>>)
                  EXCEPT !.card = id, !.slot = slot, !.asked = (target # 0)])

ReorderGroups(ids) ==
    /\ board' = [board EXCEPT !.groups = Resorted(@, ids)]
    /\ Start(Call("reorderGroups", <<[to |-> "reorderGroups", ids |-> ids]>>))

-----------------------------------------------------------------------------
\* Dragging (startPress, beginDrag, updateOver, onUp, endDrag)

BeginDrag(kind, id) ==
    /\ cardDrag = None /\ boardAsked < MaxBoardAsked
    /\ cardDrag' = [kind |-> kind, id |-> id,
                    over |-> IF kind = "card"
                             THEN [group |-> board.cats[id].group,
                                   index |-> LET g == board.cats[id].group IN
                                       IF g \in DOMAIN board.groups
                                       THEN IndexIn(CategoriesByGroup(board)[g], id) ELSE 0]
                             ELSE [index |-> IndexIn(OrderedGroups(board), id)]]
    /\ UNCHANGED <<onServer, board, goalPrompt, boardCalls, boardAsked, crossed>>

\* Slots that can be hovered: those between the other cards, or columns.
Slots ==
    IF cardDrag.kind = "card"
    THEN UNION {{[group |-> g, index |-> n] :
                    n \in 0 .. Len(Others(CategoriesByGroup(board)[g], cardDrag.id))}
                : g \in DOMAIN board.groups}
    ELSE {[index |-> n] : n \in 0 .. Cardinality(DOMAIN board.groups \ {cardDrag.id})}

DragOver ==
    /\ cardDrag # None
    /\ \E slot \in Slots : cardDrag' = [cardDrag EXCEPT !.over = slot] /\ slot # cardDrag.over
    /\ UNCHANGED <<onServer, board, goalPrompt, boardCalls, boardAsked, crossed>>

\* Escape, or the pointer is cancelled.
EndDrag ==
    /\ cardDrag # None /\ cardDrag' = None
    /\ UNCHANGED <<onServer, board, goalPrompt, boardCalls, boardAsked, crossed>>

\* A card dropped into a goals column without a target waits for one.
DropCard ==
    /\ cardDrag # None /\ cardDrag.kind = "card"
    /\ cardDrag' = None
    /\ LET id == cardDrag.id
           slot == cardDrag.over IN
       IF id \notin DOMAIN board.cats \/ slot.group \notin DOMAIN board.groups
       THEN UNCHANGED <<onServer, board, goalPrompt, boardCalls, boardAsked, crossed>>
       ELSE IF IsGoalGroup(board, slot.group) /\ board.cats[id].target = 0
       THEN /\ goalPrompt' = [card |-> id, slot |-> slot, applying |-> FALSE]
            /\ UNCHANGED <<onServer, board, boardCalls, boardAsked, crossed>>
       ELSE MoveCategory(id, slot, 0) /\ UNCHANGED goalPrompt

DropColumn ==
    /\ cardDrag # None /\ cardDrag.kind = "column"
    /\ cardDrag' = None
    /\ ReorderGroups(Inserted(Others(OrderedGroups(board), cardDrag.id),
                              cardDrag.over.index, cardDrag.id))
    /\ UNCHANGED goalPrompt

\* GoalTargetDialog: the move is made on the board of this moment; it throws,
\* and the dialog stays, if the card or the column is gone.
ApplyGoal(target) ==
    /\ goalPrompt # None /\ ~goalPrompt.applying
    /\ goalPrompt.card \in DOMAIN board.cats /\ goalPrompt.slot.group \in DOMAIN board.groups
    /\ MoveCategory(goalPrompt.card, goalPrompt.slot, target)
    /\ goalPrompt' = [goalPrompt EXCEPT !.applying = TRUE]
    /\ UNCHANGED cardDrag

CloseGoal ==
    /\ goalPrompt # None /\ goalPrompt' = None
    /\ UNCHANGED <<onServer, board, cardDrag, boardCalls, boardAsked, crossed>>

-----------------------------------------------------------------------------
\* The server (categories.py, groups.py)

\* What the checks of the handlers let through.
Fits(r) ==
    LET goal == IsGoalGroup(onServer, r.group) IN
    \/ r.to = "create" /\ r.group \in DOMAIN onServer.groups /\ (goal => r.target # 0)
    \/ /\ r.to = "patch" /\ r.id \in DOMAIN onServer.cats
       /\ r.patch.group # None =>
            /\ r.patch.group \in DOMAIN onServer.groups
            /\ IsGoalGroup(onServer, r.patch.group)
                 => r.patch.target # None \/ onServer.cats[r.id].target # 0
    \/ /\ r.to = "archiveGoal" /\ r.id \in DOMAIN onServer.cats
       /\ IsGoalGroup(onServer, onServer.cats[r.id].group)
    \/ r.to = "delete" /\ r.id \in DOMAIN onServer.cats
    \/ r.to = "createGroup"
    \/ r.to = "patchGroup" /\ r.id \in DOMAIN onServer.groups
    \/ /\ r.to = "deleteGroup" /\ r.id \in DOMAIN onServer.groups
       /\ \A c \in DOMAIN onServer.cats : onServer.cats[c].group # r.id
    \/ r.to = "reorder" /\ ToSet(r.ids) = DOMAIN onServer.cats
    \/ r.to = "reorderGroups" /\ ToSet(r.ids) = DOMAIN onServer.groups

\* patch_category: a goal's target is kept in goal groups alone, and dropped on
\* the way to any other.
Patched(b, cat, patch) ==
    LET next == Merged(cat, patch) IN
    [next EXCEPT !.target = IF IsGoalGroup(b, next.group) THEN @
                            ELSE IF patch.group # None THEN 0 ELSE cat.target]

LastSort(items) == Max({0} \cup {items[x].sort : x \in DOMAIN items})

\* What a request leaves saved.
Effected(b, r) ==
    CASE r.to = "create" ->
            WithCat(b, NewId(b.cats), [group |-> r.group, sort |-> LastSort(b.cats) + 1,
                                       target |-> r.target, archived |-> FALSE])
      [] r.to \in {"patch", "archiveGoal"} -> [b EXCEPT !.cats[r.id] = Patched(b, @, r.patch)]
      [] r.to = "delete" -> [b EXCEPT !.cats = Without(@, r.id)]
      [] r.to = "createGroup" ->
            WithGroup(b, NewId(b.groups), [kind |-> r.kind, sort |-> LastSort(b.groups) + 1])
      [] r.to = "patchGroup" -> [b EXCEPT !.groups[r.id].kind = r.kind]
      [] r.to = "deleteGroup" -> [b EXCEPT !.groups = Without(@, r.id)]
      [] r.to = "reorder" -> [b EXCEPT !.cats = Resorted(@, r.ids)]
      [] r.to = "reorderGroups" -> [b EXCEPT !.groups = Resorted(@, r.ids)]

\* A request is handled; load reads the board, creating answers the id.
BoardAccepts(c) ==
    LET r == Head(c.requests) IN
    /\ c.stage = "sent"
    /\ IF r.to = "load"
       THEN /\ boardCalls' = (boardCalls \ {c}) \cup {[c EXCEPT !.stage = "ok", !.read = onServer]}
            /\ UNCHANGED onServer
       ELSE /\ Fits(r) /\ onServer' = Effected(onServer, r)
            /\ boardCalls' = (boardCalls \ {c}) \cup
                   {[c EXCEPT !.stage = "ok",
                              !.made = NewId(IF r.to = "createGroup" THEN onServer.groups
                                             ELSE onServer.cats)]}
    /\ UNCHANGED <<board, cardDrag, goalPrompt, boardAsked, crossed>>

\* It is turned down (a name taken, say), or never arrives.
BoardRefuses(c) ==
    /\ c.stage = "sent"
    /\ boardCalls' = (boardCalls \ {c}) \cup {[c EXCEPT !.stage = "failed"]}
    /\ UNCHANGED <<onServer, board, cardDrag, goalPrompt, boardAsked, crossed>>

\* Its answer is lost on the way back.
BoardAnswerLost(c) ==
    /\ c.stage = "ok" /\ crossed' = TRUE
    /\ boardCalls' = (boardCalls \ {c}) \cup {[c EXCEPT !.stage = "failed"]}
    /\ UNCHANGED <<onServer, board, cardDrag, goalPrompt, boardAsked>>

-----------------------------------------------------------------------------
\* Back in the page

\* patchCategory: the group of the patch is looked up in the snapshot.
ShownPatch(b, id, patch) ==
    IF id \notin DOMAIN b.cats THEN b
    ELSE [b EXCEPT !.cats[id] =
            IF patch.group \in DOMAIN b.groups /\ ~IsGoalGroup(b, patch.group)
            THEN [Merged(@, patch) EXCEPT !.target = 0] ELSE Merged(@, patch)]

\* What a snapshot becomes when the last request of a call was accepted.
ShownOnceSaved(b, c) ==
    LET r == Head(c.requests) IN
    CASE c.op = "createCategory" ->
            WithCat(c.before, c.made, [group |-> r.group, sort |-> Late,
                                       target |-> r.target, archived |-> FALSE])
      [] c.op = "createGroup" -> WithGroup(c.before, c.made, [kind |-> r.kind, sort |-> Late])
      [] c.op = "patchCategory" -> ShownPatch(b, r.id, r.patch)
      [] c.op = "deleteCategory" -> [b EXCEPT !.cats = Without(@, r.id)]
      [] c.op = "patchGroup" ->
            IF r.id \in DOMAIN b.groups THEN [b EXCEPT !.groups[r.id].kind = r.kind] ELSE b
      [] c.op = "deleteGroup" -> [b EXCEPT !.groups = Without(@, r.id)]
      [] c.op \in {"move", "reorderGroups"} ->
            IF r.to = "load" THEN c.read ELSE b

\* Asked from a dialog, which closes with the answer; what it closes is the
\* dialog open by then.
FromDialog(c) ==
    \/ c.op = "move" /\ c.asked /\ Head(c.requests).to # "load"
    \/ c.op = "patchCategory" /\ Head(c.requests).patch.group # None
    \/ c.op \notin {"move", "patchCategory", "reorderGroups"}

\* A failed move, once the board was read again, leaves its dialog open.
Reopened(c) ==
    IF c.op = "move" /\ c.asked /\ Head(c.requests).to = "load" /\ goalPrompt # None
    THEN [goalPrompt EXCEPT !.applying = FALSE] ELSE goalPrompt

BoardAnswer(c) ==
    /\ c.stage = "ok"
    /\ IF Len(c.requests) > 1
       THEN /\ Settle((boardCalls \ {c}) \cup
                   {[c EXCEPT !.requests = Tail(@), !.stage = "sent", !.made = None]})
            /\ UNCHANGED <<board, goalPrompt>>
       ELSE /\ board' = ShownOnceSaved(board, c)
            /\ goalPrompt' = IF FromDialog(c) THEN None ELSE Reopened(c)
            /\ Settle(boardCalls \ {c})
    /\ UNCHANGED <<cardDrag, crossed>>

\* Mutant of ReadAgain: what was dragged is not read again.
ReadAgainNever(c) == boardCalls \ {c}

\* moveCategory, reorderGroups: what was shown at once is read again.
ReadAgain(c) ==
    (boardCalls \ {c}) \cup
        {[c EXCEPT !.requests = <<[to |-> "load"]>>, !.stage = "sent", !.made = None]}

BoardFailure(c) ==
    /\ c.stage = "failed"
    /\ IF c.op \in {"move", "reorderGroups"} /\ Head(c.requests).to # "load"
       THEN Settle(ReadAgain(c)) /\ UNCHANGED <<goalPrompt, crossed>>
       ELSE /\ Settle(boardCalls \ {c})
            /\ goalPrompt' = Reopened(c)
            /\ crossed' = (crossed \/ Head(c.requests).to = "load")
    /\ UNCHANGED <<board, cardDrag>>

-----------------------------------------------------------------------------
BoardInit ==
    /\ onServer = StartingBoard /\ board = StartingBoard
    /\ cardDrag = None /\ goalPrompt = None
    /\ boardCalls = {} /\ boardAsked = 0 /\ crossed = FALSE

\* The dialogs and menus; a dialog covers the board.
BoardDialogs ==
    /\ goalPrompt = None /\ cardDrag = None
    /\ \/ \E g \in DOMAIN board.groups, target \in 0 .. 1 : CreateCategory(g, target)
       \/ \E id \in DOMAIN board.cats, g \in DOMAIN board.groups :
              PatchCategory(id, [NoPatch EXCEPT !.group = g,
                                                !.target = IF IsGoalGroup(board, g) THEN 1 ELSE None])
       \/ \E id \in DOMAIN board.cats :
              PatchCategory(id, [NoPatch EXCEPT !.archived = ~board.cats[id].archived])
       \/ \E id \in DOMAIN board.cats : DeleteCard(id)
       \/ \E kind \in GroupKinds : CreateGroup(kind)
       \/ \E g \in DOMAIN board.groups, kind \in GroupKinds : PatchGroup(g, kind)
       \/ \E g \in DOMAIN board.groups : DeleteGroup(g)

BoardDragging ==
    \/ /\ goalPrompt = None
       /\ \/ \E id \in DOMAIN board.cats : BeginDrag("card", id)
          \/ \E g \in DOMAIN board.groups : BeginDrag("column", g)
    \/ DragOver
    \/ EndDrag
    \/ DropCard
    \/ DropColumn
    \/ ApplyGoal(1)
    \/ CloseGoal

BoardNext ==
    \/ BoardDialogs
    \/ BoardDragging
    \/ \E c \in boardCalls :
          BoardAccepts(c) \/ BoardRefuses(c) \/ BoardAnswerLost(c) \/ BoardAnswer(c) \/ BoardFailure(c)

BoardSpec == BoardInit /\ [][BoardNext]_boardVars

-----------------------------------------------------------------------------
\* Columns, cards and their order, as they are drawn.
Drawn(b) ==
    [columns |-> OrderedGroups(b),
     kinds   |-> [g \in DOMAIN b.groups |-> b.groups[g].kind],
     cards   |-> CategoriesByGroup(b),
     closed  |-> {c \in DOMAIN b.cats : b.cats[c].archived}]

\* What is drawn is what is saved when nothing is under way, however it was
\* dragged, edited and refused, as long as no call overtook another and no
\* answer was lost (moveCategory, patchCategory, reorderGroups, load).
BoardAgrees == boardCalls = {} /\ ~crossed => Drawn(board) = Drawn(onServer)

\* The pairs of cards drawn one above the other.
Above(b, g, x, y) ==
    LET cards == CategoriesByGroup(b)[g] IN
    \E m, n \in DOMAIN cards : m < n /\ cards[m] = x /\ cards[n] = y

\* A dropped card lands in the slot that was shown for it, and no other card
\* moves: each keeps its column and what it was above of (onUp, moveCategory).
DropLandsInSlot ==
    [][\A c \in boardCalls' \ boardCalls :
         c.op = "move" /\ c.n = boardAsked /\ boardAsked' > boardAsked =>
           LET g     == c.slot.group
               cards == CategoriesByGroup(board')[g]
               rest  == Others(CategoriesByGroup(board)[g], c.card)
           IN  /\ IndexIn(cards, c.card) = Min({c.slot.index, Len(rest)})
               /\ \A h \in DOMAIN board.groups, x, y \in DOMAIN board.cats \ {c.card} :
                     Above(board, h, x, y) <=> Above(board', h, x, y)]_boardVars
=============================================================================
