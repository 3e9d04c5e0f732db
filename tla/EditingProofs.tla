--------------------------- MODULE EditingProofs ---------------------------
(***************************************************************************)
(* Proofs about what the browser shows at once and saves behind it.  First *)
(* the budget cells of BudgetWrites: the types, the agreement of page and  *)
(* server, what a year copy copies, and the refinement of BudgetPlan.      *)
(***************************************************************************)
EXTENDS MCEditing, LedgerClientProofs, SequenceTheorems

-----------------------------------------------------------------------------
\* The inductive invariant of BudgetWrites

\* The store's books: TypeOK without the chain and the bulk request, and that
\* who is signed out can still sign in.
BooksFine ==
    /\ shown \in Plans /\ saved \in Plans
    /\ nextRevision \in 0 .. MaxOps /\ revision \in [Cell -> 0 .. nextRevision]
    /\ baseline \in [Cell -> Amount \cup {None}]
    /\ \A c \in Cell : baseline[c] # None => revision[c] # 0
    /\ failed \subseteq Cell /\ lost \subseteq Cell /\ overtaken \subseteq Cell
    /\ epoch \in Nat /\ token \in Nat \cup {None} /\ boundToken \in Nat \cup {None}
    /\ ops \in 0 .. MaxOps /\ nextRevision <= ops
    /\ sessions \in 0 .. MaxSessions /\ (token = None => sessions < MaxSessions)
    /\ raced \in BOOLEAN

\* An operation of the chain at place i: only the head has left, an edit of
\* the current epoch is not newer than its cell's newest, and a copy is made
\* onto the last year.
PlaceFine(i) ==
    /\ i > 1 => chain[i].stage = "waiting"
    /\ chain[i].epoch <= epoch
    /\ chain[i].kind = "edit" /\ chain[i].epoch = epoch =>
          chain[i].revision <= revision[chain[i].cell]
    /\ chain[i].kind = "copy" =>
          chain[i].from + 1 = chain[i].to /\ \A y \in Year : y <= chain[i].to

ChainFine == chain \in Seq(Operation) /\ \A i \in DOMAIN chain : PlaceFine(i)

\* A bulk request writes the cells of one category.
BulkFine ==
    /\ bulk \in BulkRequest \cup {None}
    /\ bulk # None /\ bulk.kind # "load" =>
          \E k \in Category : \A c \in DOMAIN bulk.amounts : c[1] = k

Shapes == BooksFine /\ ChainFine /\ BulkFine

EditOf(i, c) == i \in DOMAIN chain /\ chain[i].kind = "edit" /\ chain[i].cell = c
CopyAt(i)    == i \in DOMAIN chain /\ chain[i].kind = "copy"
Idle(c)      == \A i \in DOMAIN chain : ~EditOf(i, c)

\* Without races, everything in the chain belongs to this session and nothing
\* runs beside it.
OneSession ==
    /\ Running => bulk = None /\ boundToken = token
    /\ \A i \in DOMAIN chain : IsCurrent(chain[i]) /\ chain[i].revision <= nextRevision
    /\ \A i, j \in DOMAIN chain : i < j =>
          /\ chain[i].revision <= chain[j].revision
          /\ chain[j].kind = "edit" => chain[i].revision < chain[j].revision

\* The books of a cell: its newest edit in the chain is what it shows and whose
\* revision it has; a baseline is kept as long as one is there.
BooksOfCell(c) ==
    /\ \A i \in DOMAIN chain : EditOf(i, c) =>
          /\ chain[i].revision <= revision[c]
          /\ (\A j \in DOMAIN chain : EditOf(j, c) => j <= i) =>
                shown[c] = chain[i].amount /\ revision[c] = chain[i].revision
          /\ baseline[c] # None
    /\ Idle(c) =>
          /\ baseline[c] = None
          /\ \A i \in DOMAIN chain : CopyAt(i) => revision[c] <= chain[i].revision

HeadEdits(c)  == Stage("accepted") /\ Op.kind = "edit" /\ Op.cell = c
HeadCopies(c) == Stage("accepted") /\ Op.kind = "copy" /\ Op.to = c[2]
BulkWrote(c)  == BulkStage("accepted") /\ bulk.kind # "load" /\ c \in DOMAIN bulk.amounts

\* What the server has of a cell: what is shown, or what a failure goes back to.
SavedOfCell(c) ==
    /\ c \notin lost \cup overtaken =>
          /\ Idle(c) /\ ~HeadCopies(c) /\ ~BulkWrote(c) => shown[c] = saved[c]
          /\ ~Idle(c) /\ ~HeadEdits(c) => baseline[c] = saved[c]
    /\ HeadEdits(c) => saved[c] = Op.amount
    /\ HeadCopies(c) => saved[c] = Op.plan[c]
    /\ BulkWrote(c) => saved[c] = bulk.amounts[c]
    /\ \A i, j \in DOMAIN chain : i < j /\ CopyAt(i) /\ EditOf(j, c) /\ chain[i].to = c[2] =>
          c \in overtaken

\* What a waiting copy recorded of its source: the newest edit before it, or
\* what is saved, unless that edit has failed.
CopyKnows(i, c) ==
    CopyAt(i) /\ chain[i].stage \in {"waiting", "sent"} /\ chain[i].from = c[2] =>
        /\ \A j \in DOMAIN chain :
              j < i /\ EditOf(j, c) /\ (\A m \in DOMAIN chain : m < i /\ EditOf(m, c) => m <= j)
                => chain[i].plan[c] = chain[j].amount
        /\ (\A j \in DOMAIN chain : j < i => ~EditOf(j, c)) /\ c \notin failed \cup lost \cup overtaken
              => chain[i].plan[c] = saved[c]

BulkKnows ==
    BulkStage("accepted") /\ bulk.kind = "load" => bulk.before = saved

FillKnows ==
    bulk # None /\ bulk.kind = "fill" => bulk.before = shown

Settled ==
    /\ OneSession
    /\ \A c \in Cell : BooksOfCell(c) /\ SavedOfCell(c)
    /\ \A c \in Cell : \A i \in DOMAIN chain : CopyKnows(i, c)
    /\ Stage("sent") /\ Op.kind = "copy" => failed = {}
    /\ BulkKnows /\ FillKnows

BudgetInv == Shapes /\ (~raced => Settled)

-----------------------------------------------------------------------------
\* Sequences and operations

LEMMA AtTheEnd ==
    ASSUME NEW S, NEW s \in Seq(S), NEW e \in S
    PROVE  /\ Append(s, e) \in Seq(S)
           /\ Len(s) \in Nat /\ DOMAIN s = 1 .. Len(s)
           /\ DOMAIN Append(s, e) = 1 .. Len(s) + 1
           /\ \A i \in DOMAIN s : Append(s, e)[i] = s[i]
           /\ Append(s, e)[Len(s) + 1] = e
           /\ Append(s, e) # <<>>
OBVIOUS

LEMMA WithoutHead ==
    ASSUME NEW S, NEW s \in Seq(S), s # <<>>
    PROVE  /\ Tail(s) \in Seq(S)
           /\ Len(s) \in Nat /\ 1 \in DOMAIN s /\ DOMAIN s = 1 .. Len(s)
           /\ DOMAIN Tail(s) = 1 .. Len(s) - 1
           /\ \A i \in DOMAIN Tail(s) : Tail(s)[i] = s[i + 1] /\ i + 1 \in DOMAIN s
           /\ Head(s) = s[1] /\ s[1] \in S
OBVIOUS

Stages == {"waiting", "sent", "accepted", "rejected"}

LEMMA AtStage ==
    ASSUME NEW op \in Operation, NEW t \in Stages
    PROVE  /\ [op EXCEPT !.stage = t] \in Operation
           /\ [op EXCEPT !.stage = t].stage = t
           /\ [op EXCEPT !.stage = t].kind = op.kind
           /\ [op EXCEPT !.stage = t].revision = op.revision
           /\ [op EXCEPT !.stage = t].epoch = op.epoch
           /\ [op EXCEPT !.stage = t].token = op.token
           /\ op.kind = "edit" => /\ [op EXCEPT !.stage = t].cell = op.cell
                                  /\ [op EXCEPT !.stage = t].amount = op.amount
           /\ op.kind = "copy" => /\ [op EXCEPT !.stage = t].from = op.from
                                  /\ [op EXCEPT !.stage = t].to = op.to
                                  /\ [op EXCEPT !.stage = t].plan = op.plan
<1>1. CASE op.kind = "edit"
  BY <1>1 DEF Operation, Stages
<1>2. CASE op.kind = "copy"
  BY <1>2 DEF Operation, Stages
<1> QED
  BY <1>1, <1>2 DEF Operation

\* An operation is an edit of a cell or a copy onto a year.
LEMMA EditOrCopy ==
    ASSUME NEW op \in Operation
    PROVE  /\ op.kind \in {"edit", "copy"} /\ op.stage \in Stages
           /\ op.epoch \in Nat /\ op.token \in Nat /\ op.revision \in 0 .. MaxOps
           /\ op.kind = "edit" => op.cell \in Cell /\ op.amount \in Amount /\ op.revision > 0
           /\ op.kind = "copy" => op.from \in Year /\ op.to \in Year /\ op.plan \in Plans
BY BudgetAssumption DEF Operation, Stages

\* The head alone changes: [chain EXCEPT ![1] = ...].
LEMMA HeadReplaced ==
    ASSUME NEW S, NEW s \in Seq(S), s # <<>>, NEW e \in S
    PROVE  /\ [s EXCEPT ![1] = e] \in Seq(S) /\ [s EXCEPT ![1] = e] # <<>>
           /\ DOMAIN [s EXCEPT ![1] = e] = DOMAIN s /\ 1 \in DOMAIN s
           /\ DOMAIN s = 1 .. Len(s) /\ Len(s) \in Nat
           /\ [s EXCEPT ![1] = e][1] = e /\ Head([s EXCEPT ![1] = e]) = e
           /\ \A i \in DOMAIN s : i # 1 => [s EXCEPT ![1] = e][i] = s[i]
           /\ Head(s) = s[1]
<1> DEFINE r == [s EXCEPT ![1] = e]
<1>1. Len(s) \in Nat /\ DOMAIN s = 1 .. Len(s) /\ 1 \in DOMAIN s /\ Head(s) = s[1]
  OBVIOUS
<1>2. /\ DOMAIN r = DOMAIN s
      /\ r[1] = e /\ \A i \in DOMAIN s : i # 1 => r[i] = s[i]
  BY <1>1
<1>3. r \in Seq(S)
  OBVIOUS
<1> HIDE DEF r
<1>4. r # <<>> /\ Head(r) = r[1]
  BY <1>1, <1>2, <1>3
<1> QED
  BY <1>1, <1>2, <1>3, <1>4 DEF r

-----------------------------------------------------------------------------
\* Distributing a goal

\* A share is no more than what is shared out.
LEMMA ShareBound ==
    ASSUME NEW r \in Nat, NEW m \in Nat, m > 0, NEW i \in Nat
    PROVE  r \div m + (IF i < r % m THEN 1 ELSE 0) \in 0 .. r
<1> DEFINE q == r \div m
           t == r % m
<1>1. q \in Nat /\ t \in Nat /\ t < m /\ r = m * q + t
  OBVIOUS
<1> HIDE DEF q, t
<1>2. q <= m * q
  BY <1>1
<1> QED
  BY <1>1, <1>2 DEF q, t

LEMMA CellsFinite == IsFiniteSet(Cell) /\ Cardinality(Cell) \in Nat /\ Cardinality(Month) \in Nat
<1> DEFINE Pairs == Category \X (Year \X Month)
           f     == [p \in Pairs |-> <<p[1], p[2][1], p[2][2]>>]
<1>1. IsFiniteSet(Pairs)
  BY BudgetAssumption, FS_Product
<1>2. f \in [Pairs -> Cell]
  BY DEF Cell
<1>3. ASSUME NEW c \in Cell PROVE \E p \in Pairs : f[p] = c
  <2>1. c[1] \in Category /\ c[2] \in Year /\ c[3] \in Month /\ c = <<c[1], c[2], c[3]>>
    BY DEF Cell
  <2>2. <<c[1], <<c[2], c[3]>>>> \in Pairs /\ f[<<c[1], <<c[2], c[3]>>>>] = c
    BY <2>1
  <2> QED
    BY <2>2
<1>4. f \in Surjection(Pairs, Cell)
  <2> HIDE DEF f, Pairs
  <2> QED
    BY <1>2, <1>3 DEF Surjection
<1>5. IsFiniteSet(Cell)
  <2> HIDE DEF f, Pairs
  <2> QED
    BY <1>1, <1>4, FS_Surjection
<1> QED
  BY <1>5, BudgetAssumption, FS_CardinalityType

\* The amounts of a distribution are amounts of cells of its category: no
\* share is larger than the target.
LEMMA DistributionWrites ==
    ASSUME shown \in Plans, NEW k \in Category, NEW months \in 1 .. Cardinality(Cell)
    PROVE  /\ Distribution(k, months) \in Writes
           /\ \A c \in DOMAIN Distribution(k, months) : c[1] = k
<1> DEFINE mine      == {c \in Cell : c[1] = k}
           planned   == SumFunctionOnSet(shown, {c \in mine : Offset(c) < 0})
           remaining == IF GoalTarget > planned THEN GoalTarget - planned ELSE 0
           share(i)  == remaining \div months + (IF i < remaining % months THEN 1 ELSE 0)
           D         == {d \in mine : Offset(d) >= 0 /\ (Offset(d) < months \/ shown[d] # 0)}
           new       == [c \in D |-> IF Offset(c) < months THEN share(Offset(c)) ELSE 0]
<1>1. Distribution(k, months) = new
  BY DEF Distribution
<1>2. planned \in Nat
  <2>1. IsFiniteSet({c \in mine : Offset(c) < 0})
    BY CellsFinite, FS_Subset
  <2>2. \A c \in Cell : shown[c] \in Nat
    BY BudgetAssumption DEF Plans
  <2> QED
    BY <2>1, <2>2, SumType
<1>3. remaining \in 0 .. GoalTarget /\ remaining \in Nat
  <2> HIDE DEF planned
  <2> QED
    BY <1>2, BudgetAssumption
<1>4. months \in Nat /\ months > 0
  BY CellsFinite
<1>5. ASSUME NEW d \in Cell PROVE Offset(d) \in Int
  <2>1. d[2] \in Nat /\ d[3] \in Nat /\ Today[1] \in Nat /\ Today[2] \in Nat
    BY BudgetAssumption DEF Cell
  <2>2. \A y, m \in Nat : Position(y, m) \in Int
    BY CellsFinite DEF Position
  <2> QED
    BY <2>1, <2>2 DEF Offset
<1>6. ASSUME NEW c \in D PROVE new[c] \in Amount
  <2>1. CASE Offset(c) < months
    <3>1. Offset(c) \in Nat
      BY <1>5
    <3> HIDE DEF remaining
    <3>2. share(Offset(c)) \in 0 .. remaining
      BY <1>3, <1>4, <3>1, ShareBound
    <3>3. share(Offset(c)) \in 0 .. GoalTarget
      BY <1>3, <3>2, BudgetAssumption
    <3> HIDE DEF share
    <3> QED
      BY <2>1, <3>3, BudgetAssumption
  <2>2. CASE ~(Offset(c) < months)
    BY <2>2, BudgetAssumption
  <2> QED
    BY <2>1, <2>2
<1>7. new \in [D -> Amount]
  <2> HIDE DEF share
  <2> QED
    BY <1>6
<1>8. D \in SUBSET Cell /\ DOMAIN new = D /\ \A c \in D : c[1] = k
  OBVIOUS
<1> HIDE DEF new, D
<1> QED
  BY <1>1, <1>7, <1>8 DEF Writes

-----------------------------------------------------------------------------
\* The types

LEMMA ShapesType == Shapes => TypeOK
<1> SUFFICES ASSUME Shapes PROVE TypeOK
  OBVIOUS
<1> USE DEF Shapes
<1>1. \A i \in DOMAIN chain : chain[i] \in Operation /\ (i > 1 => chain[i].stage = "waiting")
  BY DEF ChainFine, PlaceFine
<1>2. bulk \in BulkRequest \cup {None}
  BY DEF BulkFine
<1> QED
  BY <1>1, <1>2, BudgetAssumption DEF TypeOK, BooksFine

LEMMA ShapesInit == Init => Shapes
<1> SUFFICES ASSUME Init PROVE Shapes
  OBVIOUS
<1>1. BooksFine
  <2>1. token # None
    BY BudgetAssumption DEF Init
  <2>2. \A c \in Cell : revision[c] = 0 /\ baseline[c] = None
    BY DEF Init, NoBook
  <2>3. revision \in [Cell -> 0 .. nextRevision] /\ baseline \in [Cell -> Amount \cup {None}]
    BY DEF Init, NoBook
  <2>4. raced \in BOOLEAN /\ lost \subseteq Cell /\ overtaken \subseteq Cell /\ failed \subseteq Cell
    BY DEF Init
  <2>5. sessions \in 0 .. MaxSessions /\ ops \in 0 .. MaxOps /\ nextRevision \in 0 .. MaxOps
        /\ nextRevision <= ops
    BY BudgetAssumption DEF Init
  <2>6. epoch \in Nat /\ token \in Nat \cup {None} /\ boundToken \in Nat \cup {None}
        /\ shown \in Plans /\ saved \in Plans
    BY DEF Init
  <2> QED
    BY <2>1, <2>2, <2>3, <2>4, <2>5, <2>6 DEF BooksFine
<1>2. ChainFine
  BY DEF Init, ChainFine
<1>3. BulkFine
  BY DEF Init, BulkFine
<1> QED
  BY <1>1, <1>2, <1>3 DEF Shapes

\* The head, and where it is.
LEMMA HeadFine ==
    ASSUME ChainFine, Running
    PROVE  /\ Op = chain[1] /\ Op \in Operation /\ 1 \in DOMAIN chain /\ PlaceFine(1)
           /\ Len(chain) \in Nat /\ DOMAIN chain = 1 .. Len(chain)
BY WithoutHead DEF ChainFine, Running, Op

\* The books after a stamp, under whichever token.
LEMMA StampFine ==
    ASSUME BooksFine
    PROVE  /\ Stamped.epoch \in Nat /\ Stamped.epoch >= epoch
           /\ Stamped.next \in 0 .. MaxOps /\ Stamped.next <= ops
           /\ Stamped.rev \in [Cell -> 0 .. Stamped.next]
           /\ Stamped.base \in [Cell -> Amount \cup {None}]
           /\ \A c \in Cell : Stamped.base[c] # None => Stamped.rev[c] # 0
           /\ Stamped.fail \subseteq Cell
           /\ Stamped.epoch = epoch => Stamped.rev = revision /\ Stamped.next = nextRevision
BY BudgetAssumption DEF BooksFine, Stamped, NoBook

-----------------------------------------------------------------------------
\* The books are kept by every step

LEMMA DropFine ==
    ASSUME BooksFine, ChainFine, Running, NEW b \in [Cell -> Amount \cup {None}],
           \A c \in Cell : b[c] # None => revision[c] # 0
    PROVE  /\ DropBaseline(b, Op) \in [Cell -> Amount \cup {None}]
           /\ \A c \in Cell : DropBaseline(b, Op)[c] # None => revision[c] # 0
BY HeadFine, EditOrCopy DEF DropBaseline

LEMMA BooksAsk ==
    ASSUME Shapes, raced' \in BOOLEAN, Ask
    PROVE  BooksFine'
<1> USE DEF Shapes
<1>1. ASSUME NEW c \in Cell, NEW amount \in Amount, SetBudget(c, amount) PROVE BooksFine'
  <2>1. revision' \in [Cell -> 0 .. nextRevision'] /\ nextRevision' \in 0 .. MaxOps
        /\ nextRevision' <= ops' /\ ops' \in 0 .. MaxOps
    BY <1>1, StampFine, BudgetAssumption DEF SetBudget, CanAsk, BooksFine
  <2>2. /\ baseline' \in [Cell -> Amount \cup {None}] /\ shown' \in Plans
        /\ failed' \subseteq Cell /\ overtaken' \subseteq Cell /\ epoch' \in Nat
    BY <1>1, StampFine DEF SetBudget, TakeStamp, BooksFine, Plans
  <2>3. \A d \in Cell : baseline'[d] # None => revision'[d] # 0
    BY <1>1, StampFine, BudgetAssumption DEF SetBudget
  <2> QED
    BY <1>1, <2>1, <2>2, <2>3 DEF SetBudget, TakeStamp, BooksFine
<1>2. ASSUME NEW to \in Year, CopyBudgetYear(to) PROVE BooksFine'
  BY <1>2, StampFine, BudgetAssumption DEF CopyBudgetYear, TakeStamp, CanAsk, BooksFine
<1>3. ASSUME NEW request, StartBulk(request) PROVE BooksFine'
  BY <1>3, BudgetAssumption DEF StartBulk, CanAsk, BooksFine, book, session
<1> QED
  BY <1>1, <1>2, <1>3 DEF Ask, FillBudgetForward, SetBudgets, Reload

LEMMA BooksSession ==
    ASSUME Shapes, raced' \in BOOLEAN, SessionStep
    PROVE  BooksFine'
<1>1. CASE SignIn
  BY <1>1, BudgetAssumption DEF Shapes, SignIn, ResetSession, NoBook, BooksFine
<1>2. CASE SignOut
  BY <1>2, BudgetAssumption DEF Shapes, SignOut, ResetSession, NoBook, BooksFine
<1>3. CASE TokenChangesElsewhere
  BY <1>3, BudgetAssumption DEF Shapes, TokenChangesElsewhere, BooksFine, book
<1>4. CASE CheckAuthAnswers
  BY <1>4, BudgetAssumption DEF Shapes, CheckAuthAnswers, ResetSession, NoBook, BooksFine
<1> QED
  BY <1>1, <1>2, <1>3, <1>4 DEF SessionStep

LEMMA BooksChain ==
    ASSUME Shapes, raced' \in BOOLEAN, ChainStep
    PROVE  BooksFine'
<1> USE DEF Shapes
<1>0. Running
  BY DEF ChainStep, Orphaned, CopyRefused, Send, Accept, Reject, EditSaved, EditNotSaved,
         CopySaved, CopyNotSaved, Stage
<1> DEFINE Base == baseline \in [Cell -> Amount \cup {None}]
                   /\ \A c \in Cell : baseline[c] # None => revision[c] # 0
<1>a. Base
  BY DEF BooksFine
<1>b. DropBaseline(baseline, Op) \in [Cell -> Amount \cup {None}]
      /\ \A c \in Cell : DropBaseline(baseline, Op)[c] # None => revision[c] # 0
  BY <1>0, <1>a, DropFine
<1>c. Op \in Operation
  BY <1>0, HeadFine
<1>1. CASE Orphaned
  BY <1>1, <1>b DEF Orphaned, BooksFine, session
<1>2. CASE CopyRefused \/ Send \/ Reject
  BY <1>2 DEF CopyRefused, Send, Reject, BooksFine, book, session
<1>3. CASE Accept
  <2>1. saved' \in Plans
    <3>1. CASE Op.kind = "edit"
      BY <1>3, <1>c, <3>1, EditOrCopy DEF Accept, BooksFine, Plans
    <3>2. CASE Op.kind # "edit"
      <4>1. Op.from \in Year /\ saved' = Copied(saved, Op.from, Op.to)
        BY <1>3, <1>c, <3>2, EditOrCopy DEF Accept
      <4>2. \A c \in Cell : <<c[1], Op.from, c[3]>> \in Cell
        BY <4>1 DEF Cell
      <4> QED
        BY <4>1, <4>2 DEF Copied, BooksFine, Plans
    <3> QED
      BY <3>1, <3>2
  <2> QED
    BY <1>3, <2>1 DEF Accept, BooksFine, book, session
<1>4. ASSUME EditFails(Op), Op.kind = "edit"
      PROVE  /\ failed' \subseteq Cell /\ shown' \in Plans
             /\ baseline' \in [Cell -> Amount \cup {None}]
             /\ \A c \in Cell : baseline'[c] # None => revision[c] # 0
  <2>1. RolledBack(Op) \in Plans
    BY <1>4, <1>c, EditOrCopy, BudgetAssumption DEF RolledBack, BooksFine, Plans
  <2> QED
    BY <1>4, <1>b, <1>c, <2>1, EditOrCopy DEF EditFails, BooksFine
<1>5. CASE EditSaved
  <2>1. CASE IsCurrent(Op) /\ failed' = failed \ {Op.cell}
             /\ baseline' = DropBaseline([baseline EXCEPT ![Op.cell] = Op.amount], Op)
             /\ lost' \in {lost, lost \ {Op.cell}} /\ overtaken' \in {overtaken, overtaken \ {Op.cell}}
             /\ UNCHANGED shown
    <3> DEFINE b == [baseline EXCEPT ![Op.cell] = Op.amount]
    <3>1. Op.kind = "edit" /\ Op.cell \in Cell /\ Op.amount \in Amount /\ Op.revision > 0
      BY <1>5, <1>c, EditOrCopy DEF EditSaved
    <3>2. revision[Op.cell] # 0
      BY <1>0, <1>c, <2>1, <3>1, HeadFine, EditOrCopy DEF PlaceFine, IsCurrent, BooksFine
    <3>3. b \in [Cell -> Amount \cup {None}] /\ \A c \in Cell : b[c] # None => revision[c] # 0
      BY <1>a, <3>1, <3>2
    <3> HIDE DEF b
    <3>4. DropBaseline(b, Op) \in [Cell -> Amount \cup {None}]
          /\ \A c \in Cell : DropBaseline(b, Op)[c] # None => revision[c] # 0
      BY <1>0, <3>3, DropFine
    <3> QED
      BY <1>5, <2>1, <3>4 DEF EditSaved, BooksFine, session, b
  <2>2. CASE EditFails(Op) /\ UNCHANGED <<lost, overtaken>>
    BY <1>4, <1>5, <2>2 DEF EditSaved, BooksFine, session
  <2> QED
    BY <1>5, <2>1, <2>2 DEF EditSaved
<1>6. CASE EditNotSaved
  <2>1. lost' \subseteq Cell
    BY <1>6, <1>c, EditOrCopy DEF EditNotSaved, BooksFine
  <2> QED
    BY <1>4, <1>6, <2>1 DEF EditNotSaved, BooksFine, session
<1>7. CASE CopySaved
  <2>1. shown' \in Plans
    BY <1>7, <1>c, EditOrCopy DEF CopySaved, BooksFine, Plans
  <2> QED
    BY <1>7, <2>1 DEF CopySaved, BooksFine, book, session
<1>8. CASE CopyNotSaved
  <2>1. lost' \subseteq Cell
    BY <1>8 DEF CopyNotSaved, BooksFine
  <2> QED
    BY <1>8, <2>1 DEF CopyNotSaved, BooksFine, book, session
<1> QED
  BY <1>1, <1>2, <1>3, <1>5, <1>6, <1>7, <1>8 DEF ChainStep

\* A bulk request under way has amounts of cells, or an image of the plan.
LEMMA BulkTyped ==
    ASSUME BulkFine, bulk # None
    PROVE  /\ bulk.kind \in {"fill", "bulk", "load"} /\ bulk.stage \in {"sent", "accepted"}
           /\ bulk.kind # "load" => bulk.amounts \in Writes
           /\ bulk.kind = "fill" => bulk.before \in Plans
           /\ bulk.kind = "load" /\ bulk.stage = "accepted" => bulk.before \in Plans
BY DEF BulkFine, BulkRequest

LEMMA WrittenOver ==
    ASSUME NEW p \in Plans, NEW w \in Writes
    PROVE  Overwritten(p, w) \in Plans /\ DOMAIN w \subseteq Cell
BY DEF Plans, Writes, Overwritten

LEMMA BooksBulk ==
    ASSUME Shapes, raced' \in BOOLEAN, BulkStep
    PROVE  BooksFine'
<1> USE DEF Shapes
<1>0. bulk # None
  BY DEF BulkStep, BulkAnswered, BulkReturns, BulkFails, BulkStage
<1>1. CASE BulkAnswered
  <2>1. saved' \in Plans
    BY <1>0, <1>1, BulkTyped, WrittenOver DEF BulkAnswered, BooksFine
  <2> QED
    BY <1>1, <2>1 DEF BulkAnswered, BooksFine, book, session
<1>2. CASE BulkReturns
  <2>1. shown' \in Plans
    BY <1>0, <1>2, BulkTyped, WrittenOver DEF BulkReturns, BulkStage, BooksFine
  <2> QED
    BY <1>2, <2>1 DEF BulkReturns, BooksFine, book, session
<1>3. CASE BulkFails
  <2>1. lost' \subseteq Cell
    BY <1>0, <1>3, BulkTyped, WrittenOver DEF BulkFails, BooksFine
  <2> QED
    BY <1>3, <2>1 DEF BulkFails, BooksFine, book, session
<1> QED
  BY <1>1, <1>2, <1>3 DEF BulkStep

-----------------------------------------------------------------------------
\* The chain is kept by every step

\* A new operation at the end, under the epoch its stamp has.
LEMMA ChainGrows ==
    ASSUME BooksFine, ChainFine, NEW op \in Operation, chain' = Enqueued(op),
           op.stage = "waiting", op.epoch = epoch', TakeStamp,
           \/ op.kind = "copy" /\ op.from + 1 = op.to /\ (\A y \in Year : y <= op.to)
              /\ revision' = Stamped.rev
           \/ op.kind = "edit" /\ op.revision = Stamped.next + 1
              /\ revision' = [Stamped.rev EXCEPT ![op.cell] = op.revision]
    PROVE  ChainFine'
<1>1. chain \in Seq(Operation)
  BY DEF ChainFine
<1>2. /\ chain' \in Seq(Operation) /\ Len(chain) \in Nat /\ DOMAIN chain = 1 .. Len(chain)
      /\ DOMAIN chain' = 1 .. Len(chain) + 1 /\ chain'[Len(chain) + 1] = op
      /\ \A i \in DOMAIN chain : chain'[i] = chain[i]
  BY <1>1, AtTheEnd DEF Enqueued
<1>3. epoch' \in Nat /\ epoch \in Nat /\ epoch' >= epoch
  BY StampFine DEF TakeStamp, BooksFine
<1>4. ASSUME NEW i \in DOMAIN chain PROVE PlaceFine(i)'
  <2>1. PlaceFine(i) /\ chain'[i] = chain[i] /\ chain[i] \in Operation
    BY <1>1, <1>2 DEF ChainFine
  <2>2. ASSUME chain[i].kind = "edit", chain[i].epoch = epoch'
        PROVE  chain[i].revision <= revision'[chain[i].cell]
    <3>1. chain[i].cell \in Cell /\ chain[i].epoch = epoch /\ epoch' = epoch
          /\ chain[i].revision \in Nat
      BY <1>3, <2>1, <2>2, EditOrCopy, BudgetAssumption DEF PlaceFine
    <3>2. Stamped.rev = revision /\ Stamped.next = nextRevision
          /\ revision \in [Cell -> 0 .. nextRevision] /\ nextRevision \in Nat
      BY <3>1, StampFine, BudgetAssumption DEF TakeStamp, BooksFine
    <3>3. chain[i].revision <= revision[chain[i].cell]
      BY <2>1, <2>2, <3>1 DEF PlaceFine
    <3> QED
      BY <3>1, <3>2, <3>3, EditOrCopy
  <2> QED
    BY <1>3, <2>1, <2>2, EditOrCopy DEF PlaceFine
<1>5. ASSUME NEW i \in DOMAIN chain', i \notin DOMAIN chain PROVE PlaceFine(i)'
  <2>1. chain'[i] = op /\ i \in Nat
    BY <1>2, <1>5
  <2>2. op.revision \in Nat /\ op.kind = "edit" => op.cell \in Cell
    BY EditOrCopy, BudgetAssumption
  <2>3. op.kind = "edit" => op.revision <= revision'[op.cell]
    BY <2>2, EditOrCopy, StampFine, BudgetAssumption
  <2>4. op.kind = "copy" => op.from + 1 = op.to /\ \A y \in Year : y <= op.to
    OBVIOUS
  <2> QED
    BY <1>3, <2>1, <2>3, <2>4 DEF PlaceFine
<1> QED
  BY <1>2, <1>4, <1>5 DEF ChainFine

\* The chain does not move: the epoch is the same, or newer than all of it.
LEMMA ChainStands ==
    ASSUME BooksFine, ChainFine, UNCHANGED chain,
           \/ UNCHANGED <<epoch, revision>>
           \/ epoch' = epoch + 1
    PROVE  ChainFine'
<1>1. ASSUME NEW i \in DOMAIN chain PROVE PlaceFine(i)'
  <2>1. PlaceFine(i) /\ chain[i] \in Operation /\ chain[i].epoch \in Nat /\ epoch \in Nat
    BY EditOrCopy DEF ChainFine, BooksFine
  <2>2. CASE UNCHANGED <<epoch, revision>>
    BY <2>1, <2>2 DEF PlaceFine
  <2>3. CASE epoch' = epoch + 1
    BY <2>1, <2>3 DEF PlaceFine
  <2> QED
    BY <2>2, <2>3
<1> QED
  BY <1>1 DEF ChainFine

\* The head is settled.
LEMMA ChainShrinks ==
    ASSUME BooksFine, ChainFine, Running, chain' = Tail(chain), UNCHANGED <<epoch, revision>>
    PROVE  ChainFine'
<1>1. chain \in Seq(Operation) /\ chain # <<>>
  BY DEF ChainFine, Running
<1>2. /\ chain' \in Seq(Operation)
      /\ DOMAIN chain' = 1 .. Len(chain) - 1 /\ Len(chain) \in Nat
      /\ \A i \in DOMAIN chain' : chain'[i] = chain[i + 1] /\ i + 1 \in DOMAIN chain
  BY <1>1, WithoutHead
<1>3. ASSUME NEW i \in DOMAIN chain' PROVE PlaceFine(i)'
  <2>1. PlaceFine(i + 1) /\ chain'[i] = chain[i + 1] /\ i + 1 > 1
    BY <1>2 DEF ChainFine
  <2> QED
    BY <2>1 DEF PlaceFine
<1> QED
  BY <1>2, <1>3 DEF ChainFine

\* The head is sent, decided, or given the plan that the server answers.
LEMMA ChainAdvances ==
    ASSUME BooksFine, ChainFine, Running, NEW op \in Operation, chain' = [chain EXCEPT ![1] = op],
           op.kind = Op.kind, op.epoch = Op.epoch, op.revision = Op.revision,
           op.kind = "edit" => op.cell = Op.cell,
           op.kind = "copy" => op.from = Op.from /\ op.to = Op.to,
           UNCHANGED <<epoch, revision>>
    PROVE  ChainFine'
<1>1. chain \in Seq(Operation) /\ chain # <<>>
  BY DEF ChainFine, Running
<1>2. /\ chain' \in Seq(Operation) /\ DOMAIN chain' = DOMAIN chain /\ chain'[1] = op
      /\ \A i \in DOMAIN chain : i # 1 => chain'[i] = chain[i]
  BY <1>1, HeadReplaced
<1>3. ASSUME NEW i \in DOMAIN chain PROVE PlaceFine(i)'
  <2>1. PlaceFine(i)
    BY DEF ChainFine
  <2>2. CASE i = 1
    <3>1. Op = chain[1]
      BY HeadFine
    <3> QED
      BY <1>2, <2>1, <2>2, <3>1 DEF PlaceFine
  <2>3. CASE i # 1
    BY <1>2, <2>1, <2>3 DEF PlaceFine
  <2> QED
    BY <2>2, <2>3
<1> QED
  BY <1>2, <1>3 DEF ChainFine

\* Giving the head a stage is replacing it.
LEMMA ToStageReplaces ==
    ASSUME ChainFine, Running, NEW t \in Stages, ToStage(t)
    PROVE  chain' = [chain EXCEPT ![1] = [Op EXCEPT !.stage = t]]
BY HeadFine DEF ToStage, ChainFine

\* The chain once the server has accepted its head.
LEMMA AcceptReplaces ==
    ASSUME ChainFine, Accept, saved' \in Plans
    PROVE  \E op \in Operation :
              /\ chain' = [chain EXCEPT ![1] = op]
              /\ op.stage = "accepted" /\ op.kind = Op.kind /\ op.token = Op.token
              /\ op.epoch = Op.epoch /\ op.revision = Op.revision
              /\ op.kind = "edit" => op.cell = Op.cell /\ op.amount = Op.amount
              /\ op.kind = "copy" => op.from = Op.from /\ op.to = Op.to /\ op.plan = saved'
<1>1. Running /\ Op \in Operation /\ Op = chain[1] /\ 1 \in DOMAIN chain
  BY HeadFine DEF Accept, Stage
<1> DEFINE a == [Op EXCEPT !.stage = "accepted"]
<1>2. /\ a \in Operation /\ a.stage = "accepted" /\ a.kind = Op.kind /\ a.token = Op.token
      /\ a.epoch = Op.epoch /\ a.revision = Op.revision
      /\ Op.kind = "edit" => a.cell = Op.cell /\ a.amount = Op.amount
      /\ Op.kind = "copy" => a.from = Op.from /\ a.to = Op.to
  BY <1>1, AtStage DEF Stages
<1>3. CASE Op.kind = "edit"
  <2>1. chain' = [chain EXCEPT ![1] = a]
    BY <1>1, <1>3 DEF Accept, ChainFine
  <2> QED
    BY <1>2, <1>3, <2>1
<1>4. CASE Op.kind # "edit"
  <2> DEFINE b == [a EXCEPT !.plan = saved']
  <2>1. Op.kind = "copy"
    BY <1>1, <1>4, EditOrCopy
  <2>2. chain' = [chain EXCEPT ![1] = b]
    BY <1>1, <1>4 DEF Accept, ChainFine
  <2> HIDE DEF a
  <2>3. /\ b \in Operation /\ b.stage = "accepted" /\ b.kind = Op.kind /\ b.token = Op.token
        /\ b.epoch = Op.epoch /\ b.revision = Op.revision
        /\ b.from = Op.from /\ b.to = Op.to /\ b.plan = saved'
    BY <1>2, <2>1 DEF Operation
  <2> HIDE DEF b
  <2> QED
    BY <2>1, <2>2, <2>3
<1> QED
  BY <1>3, <1>4

LEMMA ChainKept ==
    ASSUME Shapes, Ask \/ ChainStep \/ BulkStep \/ SessionStep, BooksFine'
    PROVE  ChainFine'
<1> USE DEF Shapes
<1>1. ASSUME NEW c \in Cell, NEW amount \in Amount, SetBudget(c, amount) PROVE ChainFine'
  <2> DEFINE op == [kind |-> "edit", cell |-> c, amount |-> amount,
                    revision |-> nextRevision', epoch |-> epoch', token |-> token,
                    stage |-> "waiting"]
  <2>1. nextRevision' \in 1 .. MaxOps /\ epoch' \in Nat /\ token \in Nat
        /\ nextRevision' = Stamped.next + 1
    BY <1>1, StampFine, BudgetAssumption DEF SetBudget, CanAsk, BooksFine
  <2>2. op \in Operation
    BY <2>1 DEF Operation
  <2>3. /\ op.kind = "edit" /\ op.stage = "waiting" /\ op.epoch = epoch'
        /\ op.revision = Stamped.next + 1 /\ op.cell = c /\ op.revision = nextRevision'
    BY <2>1
  <2>4. chain' = Enqueued(op) /\ TakeStamp /\ revision' = [Stamped.rev EXCEPT ![c] = nextRevision']
    BY <1>1 DEF SetBudget
  <2> HIDE DEF op
  <2> QED
    BY <2>2, <2>3, <2>4, ChainGrows
<1>2. ASSUME NEW to \in Year, CopyBudgetYear(to) PROVE ChainFine'
  <2> DEFINE op == [kind |-> "copy", from |-> to - 1, to |-> to, revision |-> Stamped.next,
                    epoch |-> epoch', token |-> token, stage |-> "waiting", plan |-> shown]
  <2>1. Stamped.next \in 0 .. MaxOps /\ epoch' \in Nat /\ token \in Nat /\ shown \in Plans
        /\ to - 1 \in Year /\ to \in Nat
    BY <1>2, StampFine, BudgetAssumption DEF CopyBudgetYear, CanAsk, BooksFine
  <2>2. op \in Operation
    BY <2>1 DEF Operation
  <2>3. /\ op.kind = "copy" /\ op.stage = "waiting" /\ op.epoch = epoch'
        /\ op.from + 1 = op.to /\ (\A y \in Year : y <= op.to)
    BY <1>2, <2>1 DEF CopyBudgetYear
  <2>4. chain' = Enqueued(op) /\ TakeStamp /\ revision' = Stamped.rev
    BY <1>2 DEF CopyBudgetYear
  <2> HIDE DEF op
  <2> QED
    BY <2>2, <2>3, <2>4, ChainGrows
<1>3. ASSUME NEW request, StartBulk(request) PROVE ChainFine'
  BY <1>3, ChainStands DEF StartBulk, book, session
<1>4. CASE SessionStep
  BY <1>4, ChainStands DEF SessionStep, SignIn, SignOut, TokenChangesElsewhere, CheckAuthAnswers,
     ResetSession, book
<1>5. CASE BulkStep
  BY <1>5, ChainStands DEF BulkStep, BulkAnswered, BulkReturns, BulkFails, book, session
<1>6. CASE Orphaned \/ CopyRefused \/ EditSaved \/ EditNotSaved \/ CopySaved \/ CopyNotSaved
  BY <1>6, ChainShrinks DEF Orphaned, CopyRefused, EditSaved, EditNotSaved, CopySaved, CopyNotSaved,
     Stage, book, session
<1>7. CASE Send \/ Reject
  <2>1. PICK t \in Stages : ToStage(t) /\ Running /\ UNCHANGED <<epoch, revision>>
    BY <1>7 DEF Send, Reject, Stage, Stages, book, session
  <2>2. Op \in Operation
    BY <2>1, HeadFine
  <2> DEFINE op == [Op EXCEPT !.stage = t]
  <2>3. /\ op \in Operation /\ op.kind = Op.kind /\ op.epoch = Op.epoch
        /\ op.revision = Op.revision
        /\ op.kind = "edit" => op.cell = Op.cell
        /\ op.kind = "copy" => op.from = Op.from /\ op.to = Op.to
    BY <2>2, AtStage
  <2>4. chain' = [chain EXCEPT ![1] = op]
    BY <2>1, ToStageReplaces
  <2> HIDE DEF op
  <2> QED
    BY <2>1, <2>3, <2>4, ChainAdvances
<1>8. CASE Accept
  <2>1. Running /\ UNCHANGED <<epoch, revision>>
    BY <1>8 DEF Accept, Stage, book, session
  <2>2. saved' \in Plans
    BY DEF BooksFine
  <2> QED
    BY <1>8, <2>1, <2>2, AcceptReplaces, ChainAdvances
<1> QED
  BY <1>1, <1>2, <1>3, <1>4, <1>5, <1>6, <1>7, <1>8
     DEF Ask, FillBudgetForward, SetBudgets, Reload, ChainStep

-----------------------------------------------------------------------------
\* The bulk request is kept by every step

LEMMA BulkKept ==
    ASSUME Shapes, Ask \/ ChainStep \/ BulkStep \/ SessionStep
    PROVE  BulkFine'
<1> USE DEF Shapes
<1>0. ASSUME UNCHANGED bulk PROVE BulkFine'
  BY <1>0 DEF BulkFine
<1>a. ASSUME bulk' = None \/ bulk' = [kind |-> "load", stage |-> "sent"] PROVE BulkFine'
  <2>1. CASE bulk' = None
    BY <2>1 DEF BulkFine
  <2>2. CASE bulk' = [kind |-> "load", stage |-> "sent"]
    <3>1. bulk' \in [kind : {"load"}, stage : {"sent"}] /\ bulk'.kind = "load"
      BY <2>2
    <3> QED
      BY <3>1 DEF BulkFine, BulkRequest
  <2> QED
    BY <1>a, <2>1, <2>2
<1>1. ASSUME NEW c \in Cell, FillBudgetForward(c) PROVE BulkFine'
  <2> DEFINE later   == {d \in Cell : d[1] = c[1] /\ d[2] = c[2] /\ d[3] > c[3]}
             amounts == [d \in later |-> shown[c]]
  <2>1. shown[c] \in Amount /\ c[1] \in Category /\ shown \in Plans
    BY DEF BooksFine, Plans, Cell
  <2>2. amounts \in Writes /\ DOMAIN amounts = later
    <3>1. amounts \in [later -> Amount] /\ DOMAIN amounts = later /\ later \in SUBSET Cell
      BY <2>1
    <3> HIDE DEF amounts, later
    <3> QED
      BY <3>1 DEF Writes
  <2>3. bulk' = [kind |-> "fill", stage |-> "sent", before |-> shown, amounts |-> amounts]
    BY <1>1 DEF FillBudgetForward, StartBulk
  <2>4. \A d \in DOMAIN amounts : d[1] = c[1]
    OBVIOUS
  <2> HIDE DEF amounts
  <2>5. bulk' \in BulkRequest
    BY <2>1, <2>2, <2>3 DEF BulkRequest
  <2> QED
    BY <2>1, <2>3, <2>4, <2>5 DEF BulkFine
<1>2. ASSUME NEW k \in Category, NEW months \in 1 .. Cardinality(Cell), SetBudgets(k, months)
      PROVE  BulkFine'
  <2>1. bulk' = [kind |-> "bulk", stage |-> "sent", amounts |-> Distribution(k, months)]
    BY <1>2 DEF SetBudgets, StartBulk
  <2>2. Distribution(k, months) \in Writes /\ \A c \in DOMAIN Distribution(k, months) : c[1] = k
    BY DistributionWrites DEF BooksFine
  <2>3. bulk' \in BulkRequest
    BY <2>1, <2>2 DEF BulkRequest
  <2> QED
    BY <2>1, <2>2, <2>3 DEF BulkFine
<1>3. CASE Ask
  BY <1>0, <1>a, <1>1, <1>2, <1>3 DEF Ask, SetBudget, CopyBudgetYear, Reload, StartBulk
<1>4. CASE ChainStep
  BY <1>0, <1>4 DEF ChainStep, Orphaned, CopyRefused, Send, Accept, Reject, EditSaved,
     EditNotSaved, CopySaved, CopyNotSaved
<1>5. CASE SessionStep
  BY <1>0, <1>a, <1>5 DEF SessionStep, SignIn, SignOut, TokenChangesElsewhere, CheckAuthAnswers
<1>6. CASE BulkAnswered
  <2>1. bulk \in BulkRequest /\ bulk # None /\ saved \in Plans
    BY <1>6 DEF BulkAnswered, BulkStage, BulkFine, BooksFine
  <2>2. CASE bulk.kind = "load"
    <3>1. bulk' = [kind |-> "load", stage |-> "accepted", before |-> saved]
      BY <1>6, <2>2 DEF BulkAnswered
    <3> QED
      BY <2>1, <3>1 DEF BulkFine, BulkRequest
  <2>3. CASE bulk.kind # "load"
    <3> DEFINE new == [bulk EXCEPT !.stage = "accepted"]
    <3>1. bulk' = new
      BY <1>6, <2>3 DEF BulkAnswered
    <3>2. new \in BulkRequest /\ new.kind = bulk.kind /\ new.amounts = bulk.amounts
      BY <2>1, <2>3 DEF BulkRequest
    <3>3. PICK k \in Category : \A c \in DOMAIN bulk.amounts : c[1] = k
      BY <2>1, <2>3 DEF BulkFine
    <3> HIDE DEF new
    <3> QED
      BY <3>1, <3>2, <3>3 DEF BulkFine
  <2> QED
    BY <2>2, <2>3
<1>7. CASE BulkReturns \/ BulkFails
  BY <1>a, <1>7 DEF BulkReturns, BulkFails
<1> QED
  BY <1>3, <1>4, <1>5, <1>6, <1>7 DEF BulkStep

LEMMA ShapesNext == Shapes /\ [Next]_vars => Shapes'
<1> SUFFICES ASSUME Shapes, [Next]_vars PROVE Shapes'
  OBVIOUS
<1>1. CASE Next
  <2>1. raced' \in BOOLEAN /\ (Ask \/ ChainStep \/ BulkStep \/ SessionStep)
    BY <1>1 DEF Next
  <2>2. BooksFine'
    BY <2>1, BooksAsk, BooksChain, BooksBulk, BooksSession
  <2> QED
    BY <2>1, <2>2, ChainKept, BulkKept DEF Shapes
<1>2. CASE UNCHANGED vars
  <2>1. BooksFine'
    BY <1>2 DEF Shapes, BooksFine, vars, book, session
  <2>2. ChainFine'
    BY <1>2, ChainStands DEF Shapes, vars, book, session
  <2>3. BulkFine'
    BY <1>2 DEF Shapes, BulkFine, vars
  <2> QED
    BY <2>1, <2>2, <2>3 DEF Shapes
<1> QED
  BY <1>1, <1>2

THEOREM ShapesAlways == Spec => []Shapes
BY ShapesInit, ShapesNext, PTL DEF Spec

\* The store keeps the shapes TypeOK gives its budget cells, whatever is
\* asked, answered, refused or lost, and whoever is signed in.
THEOREM BudgetTypes == Spec => []TypeOK
BY ShapesAlways, ShapesType, PTL

\* Both stores keep their types side by side: MCEditing's behaviours edit the
\* budget or the ledger, and what is edited leaves the other as it was.
THEOREM EditingTypes == MCSpec => []EditingTypeOK
<1> DEFINE Both == /\ Shapes
                   /\ edits = "ledger" => Shape
                   /\ edits # "ledger" => LedgerTypeOK
<1>1. MCInit => Both
  <2> SUFFICES ASSUME MCInit PROVE Both
    OBVIOUS
  <2>1. Shapes
    BY ShapesInit DEF MCInit, BudgetAtRest
  <2>2. CASE edits = "budget" /\ LedgerAtRest
    <3>1. IsTable(<<>>)
      BY DEF IsTable
    <3>2. LedgerTypeOK
      BY <2>2, <3>1, LedgerClientAssumption DEF LedgerAtRest, LedgerTypeOK
    <3>3. edits # "ledger"
      BY <2>2
    <3> QED
      BY <2>1, <3>2, <3>3
  <2>3. CASE edits = "ledger" /\ LedgerInit
    BY <2>1, <2>3, InitShape
  <2> QED
    BY <2>2, <2>3 DEF MCInit
<1>2. Both /\ [MCNext]_<<edits, vars, ledgerVars>> => Both'
  <2> SUFFICES ASSUME Both, [MCNext]_<<edits, vars, ledgerVars>> PROVE Both'
    OBVIOUS
  <2>1. edits' = edits /\ [Next]_vars
    BY DEF MCNext
  <2>2. Shapes'
    BY <2>1, ShapesNext
  <2>3. CASE UNCHANGED ledgerVars
    <3>1. LedgerTypeOK
      BY ShapeTypes
    <3>2. LedgerTypeOK'
      BY <2>3, <3>1 DEF LedgerTypeOK, ledgerVars, client, server
    <3>3. [LedgerNext]_ledgerVars
      BY <2>3
    <3>4. (edits = "ledger")' => edits = "ledger"
      BY <2>1
    <3> QED
      BY <2>2, <3>2, <3>3, <3>4, NextShape
  <2>4. CASE edits = "ledger" /\ LedgerNext
    BY <2>1, <2>2, <2>4, NextShape
  <2> QED
    BY <2>3, <2>4 DEF MCNext
<1>3. Both => EditingTypeOK
  BY ShapesType, ShapeTypes DEF EditingTypeOK
<1> QED
  BY <1>1, <1>2, <1>3, PTL DEF MCSpec

-----------------------------------------------------------------------------
\* The refinement of BudgetPlan

\* An operation as BudgetPlan sees it.
View(op) ==
    IF op.kind = "edit" THEN [kind |-> "edit", cell |-> op.cell, amount |-> op.amount]
                        ELSE [kind |-> "copy", from |-> op.from, to |-> op.to]

Viewed(s) == [i \in DOMAIN s |-> View(s[i])]

Asked == Plan!Edits \cup Plan!Copies

LEMMA ViewAsked == ASSUME NEW op \in Operation PROVE View(op) \in Asked
BY EditOrCopy DEF View, Asked, Plan!Edits, Plan!Copies, Plan!Cell, Cell

LEMMA ViewedSeq ==
    ASSUME NEW s \in Seq(Operation)
    PROVE  Viewed(s) \in Seq(Asked) /\ Len(Viewed(s)) = Len(s) /\ DOMAIN Viewed(s) = 1 .. Len(s)
<1>1. Len(s) \in Nat /\ DOMAIN s = 1 .. Len(s) /\ \A i \in DOMAIN s : s[i] \in Operation
  OBVIOUS
<1>2. Viewed(s) \in [1 .. Len(s) -> Asked]
  BY <1>1, ViewAsked DEF Viewed
<1> QED
  BY <1>1, <1>2, SeqDef

LEMMA ViewedAppend ==
    ASSUME NEW s \in Seq(Operation), NEW op \in Operation
    PROVE  Viewed(Append(s, op)) = Append(Viewed(s), View(op))
<1> DEFINE n == Len(s)
<1>1. /\ Append(s, op) \in Seq(Operation) /\ n \in Nat /\ DOMAIN s = 1 .. n
      /\ DOMAIN Append(s, op) = 1 .. n + 1
      /\ Append(s, op)[n + 1] = op /\ \A i \in 1 .. n : Append(s, op)[i] = s[i]
  BY AtTheEnd
<1>2. /\ Viewed(s) \in Seq(Asked) /\ Len(Viewed(s)) = n /\ DOMAIN Viewed(s) = 1 .. n
      /\ \A i \in 1 .. n : Viewed(s)[i] = View(s[i])
  BY <1>1, ViewedSeq DEF Viewed
<1>3. /\ DOMAIN Append(Viewed(s), View(op)) = 1 .. n + 1
      /\ Append(Viewed(s), View(op)) \in Seq(Asked)
      /\ \A i \in 1 .. n : Append(Viewed(s), View(op))[i] = View(s[i])
      /\ Append(Viewed(s), View(op))[n + 1] = View(op)
  <2> DEFINE v == Viewed(s)
             w == View(op)
  <2>1. v \in Seq(Asked) /\ Len(v) = n /\ w \in Asked
    BY <1>2, ViewAsked
  <2>2. \A i \in 1 .. n : v[i] = View(s[i])
    BY <1>2
  <2> HIDE DEF v, w
  <2>3. /\ DOMAIN Append(v, w) = 1 .. n + 1 /\ Append(v, w) \in Seq(Asked) /\ DOMAIN v = 1 .. n
        /\ \A i \in DOMAIN v : Append(v, w)[i] = v[i]
        /\ Append(v, w)[n + 1] = w
    BY <2>1, AtTheEnd
  <2> QED
    BY <2>2, <2>3 DEF v, w
<1>4. /\ DOMAIN Viewed(Append(s, op)) = 1 .. n + 1
      /\ \A i \in 1 .. n : Viewed(Append(s, op))[i] = View(s[i])
      /\ Viewed(Append(s, op))[n + 1] = View(op)
      /\ Viewed(Append(s, op)) \in Seq(Asked)
  <2> DEFINE a == Append(s, op)
  <2>1. /\ a \in Seq(Operation) /\ DOMAIN a = 1 .. n + 1
        /\ a[n + 1] = op /\ \A i \in 1 .. n : a[i] = s[i]
    BY <1>1
  <2>2. n + 1 \in 1 .. n + 1 /\ \A i \in 1 .. n : i \in 1 .. n + 1
    BY <1>1
  <2> HIDE DEF a, n
  <2>3. Viewed(a) \in Seq(Asked) /\ DOMAIN Viewed(a) = DOMAIN a
        /\ \A i \in DOMAIN a : Viewed(a)[i] = View(a[i])
    BY <2>1, ViewedSeq DEF Viewed
  <2> QED
    BY <2>1, <2>2, <2>3 DEF a
<1> HIDE DEF n
<1>5. \A i \in 1 .. n + 1 : Viewed(Append(s, op))[i] = Append(Viewed(s), View(op))[i]
  <2>1. \A i \in 1 .. n + 1 : i \in 1 .. n \/ i = n + 1
    BY <1>1
  <2> QED
    BY <1>3, <1>4, <2>1
<1>6. Len(Viewed(Append(s, op))) = n + 1 /\ Len(Append(Viewed(s), View(op))) = n + 1
  BY <1>1, <1>3, <1>4
<1> QED
  BY <1>3, <1>4, <1>5, <1>6, SeqEqual

LEMMA ViewedTail ==
    ASSUME NEW s \in Seq(Operation), s # <<>>
    PROVE  /\ Viewed(Tail(s)) = Tail(Viewed(s))
           /\ Viewed(s) # <<>> /\ Head(Viewed(s)) = View(Head(s))
<1> DEFINE n == Len(s)
<1>1. /\ Tail(s) \in Seq(Operation) /\ n \in Nat /\ n > 0 /\ DOMAIN s = 1 .. n
      /\ DOMAIN Tail(s) = 1 .. n - 1
      /\ \A i \in 1 .. n - 1 : Tail(s)[i] = s[i + 1]
      /\ Head(s) = s[1]
  BY WithoutHead
<1>2. /\ Viewed(s) \in Seq(Asked) /\ Len(Viewed(s)) = n /\ DOMAIN Viewed(s) = 1 .. n
      /\ \A i \in 1 .. n : Viewed(s)[i] = View(s[i])
  BY <1>1, ViewedSeq DEF Viewed
<1>3. Viewed(s) # <<>>
  BY <1>1, <1>2
<1>4. /\ Tail(Viewed(s)) \in Seq(Asked) /\ DOMAIN Tail(Viewed(s)) = 1 .. n - 1
      /\ \A i \in 1 .. n - 1 : Tail(Viewed(s))[i] = View(s[i + 1])
      /\ Head(Viewed(s)) = View(s[1])
  BY <1>1, <1>2, <1>3, WithoutHead
<1>5. /\ Viewed(Tail(s)) \in Seq(Asked) /\ DOMAIN Viewed(Tail(s)) = 1 .. n - 1
      /\ \A i \in 1 .. n - 1 : Viewed(Tail(s))[i] = View(s[i + 1])
  BY <1>1, ViewedSeq DEF Viewed
<1> HIDE DEF n
<1>6. Len(Viewed(Tail(s))) = n - 1 /\ Len(Tail(Viewed(s))) = n - 1
  BY <1>1, <1>4, <1>5
<1> QED
  BY <1>1, <1>3, <1>4, <1>5, <1>6, SeqEqual

LEMMA OpenChain ==
    ASSUME ChainFine
    PROVE  /\ Undecided = Viewed(Open)
           /\ Open \in Seq(Operation)
           /\ ~Stage("accepted") /\ ~Stage("rejected") => Open = chain
           /\ Stage("accepted") \/ Stage("rejected") => Open = Tail(chain)
<1>1. Undecided = Viewed(Open)
  BY DEF Undecided, Viewed, View
<1>2. Running => Tail(chain) \in Seq(Operation)
  BY WithoutHead DEF Running, ChainFine
<1> QED
  BY <1>1, <1>2 DEF Open, Stage, ChainFine

\* What follows the head waits.
LEMMA RestIsOpen ==
    ASSUME ChainFine, ChainFine', Running, chain' = Tail(chain)
    PROVE  Open' = Tail(chain)
<1>1. CASE ~Running'
  BY <1>1 DEF Open, Stage, Running
<1>2. CASE Running'
  <2>1. chain' # <<>> /\ Op' = chain'[1] /\ 1 \in DOMAIN chain'
    BY <1>2, WithoutHead DEF ChainFine, Running, Op
  <2>2. chain'[1] = chain[2] /\ 2 \in DOMAIN chain
    BY <2>1, WithoutHead DEF ChainFine, Running
  <2>3. chain[2].stage = "waiting"
    BY <2>2 DEF ChainFine, PlaceFine
  <2> QED
    BY <2>1, <2>2, <2>3 DEF Open, Stage
<1> QED
  BY <1>1, <1>2

\* Asking for an edit or a copy asks BudgetPlan for it.
LEMMA AskSimulates ==
    ASSUME ChainFine, ChainFine', NEW op \in Operation, chain' = Enqueued(op),
           op.stage = "waiting", UNCHANGED saved
    PROVE  Plan!Ask
<1>0. chain \in Seq(Operation) /\ chain' \in Seq(Operation) /\ chain' = Append(chain, op)
  BY DEF ChainFine, Enqueued
<1>1. Open' = Append(Open, op)
  <2>1. CASE ~Running
    <3>1. chain = <<>> /\ chain' = <<op>> /\ Op' = op
      BY <1>0, <2>1 DEF Running, Op
    <3> QED
      BY <3>1 DEF Open, Stage, Running
  <2>2. CASE Running
    <3>1. chain # <<>> /\ chain' # <<>> /\ Op' = Op
      BY <1>0, <2>2, AtTheEnd, WithoutHead DEF Running, Op
    <3>2. Tail(Append(chain, op)) = Append(Tail(chain), op)
      BY <1>0, <3>1
    <3> QED
      BY <1>0, <3>1, <3>2 DEF Open, Stage, Running
  <2> QED
    BY <2>1, <2>2
<1>2. Open \in Seq(Operation) /\ Undecided = Viewed(Open)
  BY OpenChain
<1>3. Undecided' = Viewed(Open')
  BY DEF Undecided, Viewed, View
<1>4. Undecided' = Append(Undecided, View(op))
  BY <1>1, <1>2, <1>3, ViewedAppend
<1> QED
  BY <1>4, ViewAsked DEF Plan!Ask, Asked

\* The head is dropped without having been saved, or it is saved.
LEMMA DecideSimulates ==
    ASSUME ChainFine, Running, Op.stage \in {"waiting", "sent"}, Open' = Tail(chain),
           \/ UNCHANGED saved
           \/ Op.kind = "edit" /\ saved' = [saved EXCEPT ![Op.cell] = Op.amount]
           \/ Op.kind = "copy" /\ saved' = Copied(saved, Op.from, Op.to)
    PROVE  Plan!Decide
<1>1. Open = chain /\ chain \in Seq(Operation) /\ chain # <<>> /\ Undecided = Viewed(chain)
  BY OpenChain DEF Stage, Running, ChainFine
<1>2. Undecided' = Viewed(Open')
  BY DEF Undecided, Viewed, View
<1>3. /\ Undecided' = Tail(Undecided) /\ Undecided # <<>>
      /\ Head(Undecided) = View(Op)
  BY <1>1, <1>2, ViewedTail DEF Op
<1>4. saved' \in {saved, Plan!Effect(View(Op))}
  <2>1. Op \in Operation
    BY HeadFine
  <2>2. CASE Op.kind = "edit" /\ saved' = [saved EXCEPT ![Op.cell] = Op.amount]
    BY <2>2 DEF Plan!Effect, View
  <2>3. CASE Op.kind = "copy" /\ saved' = Copied(saved, Op.from, Op.to)
    BY <2>3 DEF Plan!Effect, View, Plan!CopiedPlan, Copied, Plan!Cell, Cell
  <2> QED
    BY <2>2, <2>3
<1> QED
  BY <1>3, <1>4 DEF Plan!Decide

\* The head moves on without being decided, or what was decided is settled.
LEMMA SameOpen ==
    ASSUME ChainFine, Viewed(Open') = Viewed(Open), UNCHANGED saved
    PROVE  UNCHANGED Plan!vars
<1>1. Undecided = Viewed(Open) /\ Undecided' = Viewed(Open')
  BY DEF Undecided, Viewed, View
<1> QED
  BY <1>1 DEF Plan!vars

\* A bulk request writes the cells of one category.
LEMMA BulkSimulates ==
    ASSUME Shapes, BooksFine', BulkAnswered
    PROVE  Plan!BulkWrite \/ UNCHANGED Plan!vars
<1>1. Undecided' = Undecided
  BY DEF BulkAnswered, Undecided, Open, Stage, Running, Op
<1>2. CASE bulk.kind = "load"
  BY <1>1, <1>2 DEF BulkAnswered, Plan!vars
<1>3. CASE bulk.kind # "load"
  <2>1. PICK k \in Category : \A c \in DOMAIN bulk.amounts : c[1] = k
    BY <1>3 DEF Shapes, BulkFine, BulkAnswered, BulkStage
  <2>2. saved' = Overwritten(saved, bulk.amounts) /\ saved \in Plans /\ saved' \in Plans
    BY <1>3 DEF BulkAnswered, Shapes, BooksFine
  <2>3. \A c \in Plan!Cell : c[1] # k => saved'[c] = saved[c]
    BY <2>1, <2>2 DEF Overwritten, Plan!Cell, Cell
  <2>4. saved' \in [Plan!Cell -> Amount]
    BY <2>2 DEF Plans, Plan!Cell, Cell
  <2> QED
    BY <1>1, <2>3, <2>4 DEF Plan!BulkWrite
<1> QED
  BY <1>2, <1>3

\* A new head leaves the rest of the chain as it was.
LEMMA TailOfReplaced ==
    ASSUME NEW s \in Seq(Operation), s # <<>>, NEW e \in Operation
    PROVE  /\ Tail([s EXCEPT ![1] = e]) = Tail(s)
           /\ View(e) = View(s[1]) => Viewed([s EXCEPT ![1] = e]) = Viewed(s)
<1> DEFINE r == [s EXCEPT ![1] = e]
<1>1. /\ r \in Seq(Operation) /\ r # <<>> /\ DOMAIN r = DOMAIN s /\ DOMAIN s = 1 .. Len(s)
      /\ Len(s) \in Nat /\ 1 \in DOMAIN s
      /\ r[1] = e /\ \A i \in DOMAIN s : i # 1 => r[i] = s[i]
  BY HeadReplaced
<1> HIDE DEF r
<1>2. Len(r) = Len(s)
  BY <1>1
<1>3. Tail(r) = Tail(s)
  <2>1. /\ Tail(r) \in Seq(Operation) /\ DOMAIN Tail(r) = 1 .. Len(s) - 1
        /\ \A i \in DOMAIN Tail(r) : Tail(r)[i] = r[i + 1]
    BY <1>1, <1>2, WithoutHead
  <2>2. /\ Tail(s) \in Seq(Operation) /\ DOMAIN Tail(s) = 1 .. Len(s) - 1
        /\ \A i \in DOMAIN Tail(s) : Tail(s)[i] = s[i + 1] /\ i + 1 \in DOMAIN s
    BY WithoutHead
  <2>3. Len(Tail(r)) = Len(Tail(s)) /\ DOMAIN Tail(s) = 1 .. Len(Tail(s))
    BY <1>1, <2>1, <2>2
  <2>4. \A i \in 1 .. Len(Tail(r)) : Tail(r)[i] = Tail(s)[i]
    BY <1>1, <2>1, <2>2, <2>3
  <2> QED
    BY <2>1, <2>2, <2>3, <2>4, SeqEqual
<1>4. ASSUME View(e) = View(s[1]) PROVE Viewed(r) = Viewed(s)
  BY <1>1, <1>4 DEF Viewed
<1> QED
  BY <1>3, <1>4 DEF r

LEMMA ChainSimulates ==
    ASSUME Shapes, Shapes', ChainStep
    PROVE  Plan!Decide \/ UNCHANGED Plan!vars
<1> USE DEF Shapes
<1>0. chain \in Seq(Operation) /\ Op \in Operation /\ Op = chain[1] /\ chain # <<>> /\ Running
  <2>1. Running
    BY DEF ChainStep, Orphaned, CopyRefused, Send, Accept, Reject, EditSaved, EditNotSaved,
       CopySaved, CopyNotSaved, Stage
  <2> QED
    BY <2>1, HeadFine DEF ChainFine, Running
<1>1. CASE Orphaned \/ CopyRefused
  <2>1. chain' = Tail(chain) /\ UNCHANGED saved /\ Op.stage = "waiting"
    BY <1>1 DEF Orphaned, CopyRefused, Stage
  <2> QED
    BY <1>0, <2>1, RestIsOpen, DecideSimulates
<1>2. CASE Send
  <2> DEFINE e == [Op EXCEPT !.stage = "sent"]
  <2>1. chain' = [chain EXCEPT ![1] = e]
    BY <1>0, <1>2, ToStageReplaces DEF Send, Stages
  <2>2. e \in Operation /\ e.stage = "sent" /\ View(e) = View(Op)
    <3>1. /\ e \in Operation /\ e.stage = "sent" /\ e.kind = Op.kind
          /\ Op.kind = "edit" => e.cell = Op.cell /\ e.amount = Op.amount
          /\ Op.kind = "copy" => e.from = Op.from /\ e.to = Op.to
      BY <1>0, AtStage DEF Stages
    <3>2. Op.kind = "edit" \/ Op.kind = "copy"
      BY <1>0, EditOrCopy
    <3> HIDE DEF e
    <3> QED
      BY <3>1, <3>2 DEF View
  <2> HIDE DEF e
  <2>3. chain' # <<>> /\ Op' = e
    BY <1>0, <2>1, <2>2, HeadReplaced DEF Op
  <2>4. Open = chain /\ Open' = chain'
    BY <1>2, <2>2, <2>3 DEF Open, Stage, Running, Send
  <2>5. Viewed(chain') = Viewed(chain)
    BY <1>0, <2>1, <2>2, TailOfReplaced
  <2> QED
    BY <1>2, <2>4, <2>5, SameOpen DEF Send
<1>3. CASE Accept
  <2>1. PICK e \in Operation : chain' = [chain EXCEPT ![1] = e] /\ e.stage = "accepted"
    BY <1>3, AcceptReplaces DEF BooksFine
  <2>2. chain' # <<>> /\ Op' = e /\ Tail(chain') = Tail(chain)
    BY <1>0, <2>1, HeadReplaced, TailOfReplaced DEF Op
  <2>3. Open' = Tail(chain)
    BY <2>1, <2>2 DEF Open, Stage, Running
  <2>4. Op.stage = "sent"
        /\ \/ Op.kind = "edit" /\ saved' = [saved EXCEPT ![Op.cell] = Op.amount]
           \/ Op.kind = "copy" /\ saved' = Copied(saved, Op.from, Op.to)
    BY <1>0, <1>3, EditOrCopy DEF Accept, Stage
  <2> QED
    BY <1>0, <2>3, <2>4, DecideSimulates
<1>4. CASE Reject
  <2> DEFINE e == [Op EXCEPT !.stage = "rejected"]
  <2>1. chain' = [chain EXCEPT ![1] = e] /\ e \in Operation /\ e.stage = "rejected"
    BY <1>0, <1>4, AtStage, ToStageReplaces DEF Reject, Stages
  <2> HIDE DEF e
  <2>2. chain' # <<>> /\ Op' = e /\ Tail(chain') = Tail(chain)
    BY <1>0, <2>1, HeadReplaced, TailOfReplaced DEF Op
  <2>3. Open' = Tail(chain)
    BY <2>1, <2>2 DEF Open, Stage, Running
  <2>4. Op.stage = "sent" /\ UNCHANGED saved
    BY <1>4 DEF Reject, Stage
  <2> QED
    BY <1>0, <2>3, <2>4, DecideSimulates
<1>5. CASE EditSaved \/ EditNotSaved \/ CopySaved \/ CopyNotSaved
  <2>1. chain' = Tail(chain) /\ UNCHANGED saved /\ (Stage("accepted") \/ Stage("rejected"))
    BY <1>5 DEF EditSaved, EditNotSaved, CopySaved, CopyNotSaved
  <2>2. Open = Tail(chain) /\ Open' = Tail(chain)
    BY <1>0, <2>1, RestIsOpen DEF Open
  <2> QED
    BY <2>1, <2>2, SameOpen
<1> QED
  BY <1>1, <1>2, <1>3, <1>4, <1>5 DEF ChainStep

LEMMA PlanInit == Init => Plan!Init
<1> SUFFICES ASSUME Init PROVE Plan!Init
  OBVIOUS
<1>1. Undecided = <<>>
  BY DEF Init, Undecided, Open, Stage, Running
<1> QED
  BY <1>1 DEF Init, Plan!Init, Plans, Plan!Cell, Cell

LEMMA PlanNext == Shapes /\ Shapes' /\ [Next]_vars => [Plan!Next]_(Plan!vars)
<1> SUFFICES ASSUME Shapes, Shapes', [Next]_vars PROVE Plan!Next \/ UNCHANGED Plan!vars
  OBVIOUS
<1> USE DEF Shapes
<1>1. ASSUME UNCHANGED <<saved, chain>> PROVE UNCHANGED Plan!vars
  BY <1>1 DEF Plan!vars, Undecided, Open, Stage, Running, Op
<1>2. ASSUME NEW c \in Cell, NEW amount \in Amount, SetBudget(c, amount) PROVE Plan!Ask
  <2> DEFINE op == [kind |-> "edit", cell |-> c, amount |-> amount,
                    revision |-> nextRevision', epoch |-> epoch', token |-> token,
                    stage |-> "waiting"]
  <2>1. nextRevision' \in 1 .. MaxOps /\ epoch' \in Nat /\ token \in Nat
    BY <1>2, StampFine, BudgetAssumption DEF SetBudget, CanAsk, BooksFine
  <2>2. op \in Operation /\ op.stage = "waiting"
    BY <2>1 DEF Operation
  <2>3. chain' = Enqueued(op) /\ UNCHANGED saved
    BY <1>2 DEF SetBudget
  <2> HIDE DEF op
  <2> QED
    BY <2>2, <2>3, AskSimulates
<1>3. ASSUME NEW to \in Year, CopyBudgetYear(to) PROVE Plan!Ask
  <2> DEFINE op == [kind |-> "copy", from |-> to - 1, to |-> to, revision |-> Stamped.next,
                    epoch |-> epoch', token |-> token, stage |-> "waiting", plan |-> shown]
  <2>1. Stamped.next \in 0 .. MaxOps /\ epoch' \in Nat /\ token \in Nat /\ shown \in Plans
        /\ to - 1 \in Year
    BY <1>3, StampFine, BudgetAssumption DEF CopyBudgetYear, CanAsk, BooksFine
  <2>2. op \in Operation /\ op.stage = "waiting"
    BY <2>1 DEF Operation
  <2>3. chain' = Enqueued(op) /\ UNCHANGED saved
    BY <1>3 DEF CopyBudgetYear
  <2> HIDE DEF op
  <2> QED
    BY <2>2, <2>3, AskSimulates
<1>4. CASE Ask
  BY <1>1, <1>2, <1>3, <1>4 DEF Ask, FillBudgetForward, SetBudgets, Reload, StartBulk, Plan!Next
<1>5. CASE ChainStep
  BY <1>5, ChainSimulates DEF Plan!Next
<1>6. CASE BulkStep
  BY <1>1, <1>6, BulkSimulates DEF BulkStep, BulkReturns, BulkFails, Plan!Next
<1>7. CASE SessionStep
  BY <1>1, <1>7 DEF SessionStep, SignIn, SignOut, TokenChangesElsewhere, CheckAuthAnswers
<1>8. CASE UNCHANGED vars
  BY <1>1, <1>8 DEF vars
<1> QED
  BY <1>4, <1>5, <1>6, <1>7, <1>8 DEF Next

\* The chain of the store implements BudgetPlan for every set of categories,
\* years, months and amounts: what was asked for is decided in its order, each
\* operation whole or not at all, across sessions and failures.
THEOREM PlanImplemented == Spec => SavesInOrder
<1>1. Spec => []Shapes
  BY ShapesAlways
<1> QED
  BY <1>1, PlanInit, PlanNext, PTL DEF Spec, SavesInOrder, Plan!Spec

-----------------------------------------------------------------------------
\* Page and server agree: what a quiet chain looks like

\* With an empty chain the books are empty, and what is shown is saved, but
\* for what a bulk request has written and not yet shown.
AtRest ==
    /\ \A c \in Cell :
          /\ baseline[c] = None
          /\ c \notin lost \cup overtaken /\ ~BulkWrote(c) => shown[c] = saved[c]
          /\ BulkWrote(c) => saved[c] = bulk.amounts[c]
    /\ BulkKnows /\ FillKnows

LEMMA RestIsSettled ==
    ASSUME chain = <<>>
    PROVE  Settled <=> AtRest
<1>1. DOMAIN chain = {} /\ ~Running
  BY DEF Running
<1>2. OneSession /\ ~(Stage("sent") /\ Op.kind = "copy")
  BY <1>1 DEF OneSession, Stage
<1>3. ASSUME NEW c \in Cell
      PROVE  /\ BooksOfCell(c) <=> baseline[c] = None
             /\ SavedOfCell(c) <=>
                   /\ c \notin lost \cup overtaken /\ ~BulkWrote(c) => shown[c] = saved[c]
                   /\ BulkWrote(c) => saved[c] = bulk.amounts[c]
  BY <1>1 DEF BooksOfCell, SavedOfCell, Idle, HeadEdits, HeadCopies, Stage
<1> QED
  BY <1>1, <1>2, <1>3 DEF Settled, AtRest

LEMMA RestIsSettledNext ==
    ASSUME chain' = <<>>
    PROVE  Settled' <=> AtRest'
<1>1. DOMAIN chain' = {} /\ ~Running'
  BY DEF Running
<1>2. OneSession' /\ ~(Stage("sent")' /\ Op'.kind = "copy")
  BY <1>1 DEF OneSession, Stage
<1>3. ASSUME NEW c \in Cell
      PROVE  /\ BooksOfCell(c)' <=> baseline'[c] = None
             /\ SavedOfCell(c)' <=>
                   /\ c \notin lost' \cup overtaken' /\ ~BulkWrote(c)' => shown'[c] = saved'[c]
                   /\ BulkWrote(c)' => saved'[c] = bulk'.amounts[c]
  BY <1>1 DEF BooksOfCell, SavedOfCell, Idle, HeadEdits, HeadCopies, Stage
<1> QED
  BY <1>1, <1>2, <1>3 DEF Settled, AtRest

LEMMA SettledInit == Init => Settled
<1> SUFFICES ASSUME Init PROVE AtRest
  BY RestIsSettled DEF Init
<1> QED
  BY DEF Init, AtRest, NoBook, BulkWrote, BulkStage, BulkKnows, FillKnows

\* A step of a history in which nothing has raced.
Calm == Shapes /\ Shapes' /\ Settled /\ ~Races

LEMMA RestBulk ==
    ASSUME Calm, BulkStep
    PROVE  Settled'
<1> USE DEF Calm
<1>1. bulk # None /\ chain = <<>> /\ chain' = <<>>
  BY DEF BulkStep, BulkAnswered, BulkReturns, BulkFails, BulkStage, Settled, OneSession, Running
<1>2. AtRest
  BY <1>1, RestIsSettled
<1>3. /\ shown \in Plans /\ saved \in Plans
      /\ bulk.kind \in {"fill", "bulk", "load"} /\ bulk.stage \in {"sent", "accepted"}
      /\ bulk.kind # "load" => bulk.amounts \in Writes /\ DOMAIN bulk.amounts \subseteq Cell
  BY <1>1, BulkTyped, WrittenOver DEF Shapes, BooksFine
<1>4. CASE BulkAnswered
  <2>1. CASE bulk.kind = "load"
    <3>1. bulk'.kind = "load" /\ bulk'.before = saved /\ UNCHANGED <<shown, saved, baseline, lost, overtaken>>
      BY <1>4, <2>1 DEF BulkAnswered, book
    <3>2. bulk.stage = "sent"
      BY <1>4 DEF BulkAnswered, BulkStage
    <3> QED
      BY <1>1, <1>2, <2>1, <3>1, <3>2, RestIsSettledNext
         DEF AtRest, BulkWrote, BulkStage, BulkKnows, FillKnows
  <2>2. CASE bulk.kind # "load"
    <3>1. /\ bulk'.kind = bulk.kind /\ bulk'.amounts = bulk.amounts /\ bulk'.stage = "accepted"
          /\ bulk.kind = "fill" => bulk'.before = bulk.before
      BY <1>1, <1>3, <1>4, <2>2 DEF BulkAnswered, Shapes, BulkFine, BulkRequest
    <3>2. bulk' # None
      <4>1. bulk' = [bulk EXCEPT !.stage = "accepted"] /\ bulk \in BulkRequest
        BY <1>1, <1>4, <2>2 DEF BulkAnswered, Shapes, BulkFine
      <4>2. bulk' \in BulkRequest
        BY <2>2, <4>1 DEF BulkRequest
      <4> QED
        BY <4>2, BulkAssumption
    <3>6. bulk.stage = "sent" /\ saved' = Overwritten(saved, bulk.amounts)
          /\ UNCHANGED <<shown, baseline, lost, overtaken>>
      BY <1>4, <2>2 DEF BulkAnswered, BulkStage, book
    <3>3. \A c \in Cell : BulkWrote(c)' <=> c \in DOMAIN bulk.amounts
      BY <2>2, <3>1, <3>2, <3>6 DEF BulkWrote, BulkStage
    <3>4. \A c \in Cell : saved'[c] = IF c \in DOMAIN bulk.amounts THEN bulk.amounts[c] ELSE saved[c]
      BY <3>6 DEF Overwritten
    <3>5. \A c \in Cell : ~BulkWrote(c)
      BY <3>6 DEF BulkWrote, BulkStage
    <3> QED
      BY <1>1, <1>2, <2>2, <3>1, <3>2, <3>3, <3>4, <3>5, <3>6, RestIsSettledNext
         DEF AtRest, BulkKnows, FillKnows
  <2> QED
    BY <2>1, <2>2
<1>5. CASE BulkReturns
  <2>1. bulk.stage = "accepted" /\ bulk' = None /\ UNCHANGED <<saved, baseline>>
    BY <1>5 DEF BulkReturns, BulkStage, book
  <2>2. \A c \in Cell : ~BulkWrote(c)'
    BY <2>1 DEF BulkWrote, BulkStage
  <2>3. ASSUME NEW c \in Cell, c \notin lost' \cup overtaken' PROVE shown'[c] = saved'[c]
    <3>1. CASE bulk.kind = "load"
      BY <1>1, <1>2, <1>5, <2>1, <3>1 DEF BulkReturns, AtRest, BulkKnows, BulkStage
    <3>2. CASE bulk.kind # "load"
      <4>1. shown' = Overwritten(shown, bulk.amounts)
        BY <1>1, <1>2, <1>3, <1>5, <3>2 DEF BulkReturns, AtRest, FillKnows
      <4>2. lost' = lost \ DOMAIN bulk.amounts /\ overtaken' = overtaken
        BY <1>5, <3>2 DEF BulkReturns
      <4>3. BulkWrote(c) <=> c \in DOMAIN bulk.amounts
        BY <1>1, <2>1, <3>2 DEF BulkWrote, BulkStage
      <4> QED
        BY <1>2, <2>1, <2>3, <4>1, <4>2, <4>3 DEF AtRest, Overwritten
    <3> QED
      BY <3>1, <3>2
  <2> QED
    BY <1>1, <1>2, <2>1, <2>2, <2>3, RestIsSettledNext DEF AtRest, BulkKnows, FillKnows, BulkStage
<1>6. CASE BulkFails
  <2>1. bulk' = None /\ UNCHANGED <<shown, saved, baseline, overtaken>>
    BY <1>6 DEF BulkFails, book
  <2>2. \A c \in Cell : BulkWrote(c) => c \in lost'
    BY <1>6 DEF BulkFails, BulkWrote, BulkStage
  <2>3. \A c \in Cell : ~BulkWrote(c)'
    BY <2>1 DEF BulkWrote, BulkStage
  <2>4. lost \subseteq lost'
    BY <1>6 DEF BulkFails
  <2> QED
    BY <1>1, <1>2, <2>1, <2>2, <2>3, <2>4, RestIsSettledNext
       DEF AtRest, BulkKnows, FillKnows, BulkStage
<1> QED
  BY <1>4, <1>5, <1>6 DEF BulkStep

\* A request beside the chain starts when the chain is empty.
LEMMA RestStarts ==
    ASSUME Calm, NEW request, StartBulk(request), request # None, request.stage = "sent",
           request.kind = "fill" => request.before = shown
    PROVE  Settled'
<1> USE DEF Calm
<1>1. chain = <<>> /\ chain' = <<>> /\ bulk = None
  BY DEF Races, StartBulk
<1>2. AtRest
  BY <1>1, RestIsSettled
<1>3. bulk' = request /\ UNCHANGED <<shown, saved, baseline, lost, overtaken>>
  BY DEF StartBulk, book
<1> QED
  BY <1>1, <1>2, <1>3, RestIsSettledNext DEF AtRest, BulkWrote, BulkStage, BulkKnows, FillKnows

\* The session changes when nothing is under way, or it does not change.
LEMMA RestSession ==
    ASSUME Calm, SessionStep
    PROVE  Settled'
<1> USE DEF Calm
<1>1. CASE TokenChangesElsewhere /\ token' = token
  BY <1>1 DEF TokenChangesElsewhere, book, Settled, OneSession, BooksOfCell, SavedOfCell, CopyKnows,
     EditOf, CopyAt, Idle, HeadEdits, HeadCopies, BulkWrote, BulkStage, Stage, Running, Op,
     BulkKnows, FillKnows, IsCurrent
<1>2. CASE ~(TokenChangesElsewhere /\ token' = token)
  <2>1. chain = <<>> /\ chain' = <<>> /\ bulk = None
    <3>1. epoch \in Nat
      BY DEF Shapes, BooksFine
    <3>2. epoch' # epoch \/ token' # token
      BY <1>2, <3>1 DEF SessionStep, SignIn, SignOut, CheckAuthAnswers, TokenChangesElsewhere, ResetSession
    <3> QED
      BY <3>2 DEF Races, Running, SessionStep, SignIn, SignOut, CheckAuthAnswers, TokenChangesElsewhere
  <2>2. AtRest
    BY <2>1, RestIsSettled
  <2>3. UNCHANGED <<shown, saved, lost, overtaken>> /\ (UNCHANGED baseline \/ baseline' = NoBook.base)
    BY DEF SessionStep, SignIn, SignOut, CheckAuthAnswers, TokenChangesElsewhere, ResetSession, book
  <2>4. bulk' = None \/ bulk' = [kind |-> "load", stage |-> "sent"]
    BY <2>1 DEF SessionStep, SignIn, SignOut, CheckAuthAnswers, TokenChangesElsewhere
  <2>5. \A c \in Cell : ~BulkWrote(c)' /\ ~BulkWrote(c) /\ baseline'[c] = None
    BY <2>1, <2>2, <2>3, <2>4 DEF BulkWrote, BulkStage, AtRest, NoBook
  <2>6. BulkKnows' /\ FillKnows'
    BY <2>4 DEF BulkKnows, FillKnows, BulkStage
  <2> QED
    BY <2>1, <2>2, <2>3, <2>5, <2>6, RestIsSettledNext DEF AtRest
<1> QED
  BY <1>1, <1>2

-----------------------------------------------------------------------------
\* Page and server agree: the head of the chain leaves

\* What moves up by one place when the head leaves.
LEMMA MovesUp ==
    ASSUME ChainFine, ChainFine', Running, chain' = Tail(chain)
    PROVE  /\ 1 \in DOMAIN chain /\ Op = chain[1] /\ Op \in Operation
           /\ \A i \in DOMAIN chain' :
                 i \in Nat /\ i + 1 > 1 /\ i + 1 \in DOMAIN chain /\ chain'[i] = chain[i + 1]
           /\ \A j \in DOMAIN chain : j \in Nat /\ j >= 1
           /\ \A j \in DOMAIN chain : j # 1 => j - 1 \in DOMAIN chain' /\ chain'[j - 1] = chain[j]
           /\ ~Stage("accepted")' /\ ~Stage("sent")'
<1>1. /\ chain \in Seq(Operation) /\ chain # <<>>
  BY DEF ChainFine, Running
<1>2. /\ Len(chain) \in Nat /\ DOMAIN chain = 1 .. Len(chain) /\ DOMAIN chain' = 1 .. Len(chain) - 1
      /\ \A i \in DOMAIN chain' : chain'[i] = chain[i + 1] /\ i + 1 \in DOMAIN chain
      /\ 1 \in DOMAIN chain
  BY <1>1, WithoutHead
<1>3. Op = chain[1] /\ Op \in Operation
  BY HeadFine
<1>4. \A j \in DOMAIN chain : j # 1 => j - 1 \in DOMAIN chain' /\ chain'[j - 1] = chain[j]
  BY <1>2
<1>5. Running' => Op'.stage = "waiting"
  <2>1. ASSUME Running' PROVE 1 \in DOMAIN chain' /\ Op' = chain'[1]
    BY <2>1, WithoutHead DEF ChainFine, Running, Op
  <2>2. ASSUME Running' PROVE chain'[1] = chain[2] /\ 2 \in DOMAIN chain /\ PlaceFine(2)
    BY <1>2, <2>1, <2>2 DEF ChainFine
  <2> QED
    BY <2>1, <2>2 DEF PlaceFine
<1> QED
  BY <1>2, <1>3, <1>4, <1>5 DEF Stage

\* What the rest of the chain keeps.
Leaves == Calm /\ Running /\ chain' = Tail(chain) /\ UNCHANGED <<revision, nextRevision, epoch, token, boundToken, bulk>>

LEMMA SessionLeaves == ASSUME Leaves PROVE OneSession' /\ bulk = None /\ bulk' = None
<1> USE DEF Leaves
<1>1. /\ \A i \in DOMAIN chain' :
            i \in Nat /\ i + 1 > 1 /\ i + 1 \in DOMAIN chain /\ chain'[i] = chain[i + 1]
  BY MovesUp DEF Calm, Shapes
<1>2. OneSession
  BY DEF Calm, Settled
<1>3. \A i, j \in DOMAIN chain' : i < j => i + 1 < j + 1
  BY <1>1
<1> QED
  BY <1>1, <1>2, <1>3 DEF OneSession, IsCurrent

LEMMA IdleLeaves ==
    ASSUME Leaves, NEW c \in Cell, ~EditOf(1, c)
    PROVE  Idle(c)' <=> Idle(c)
<1>1. /\ \A i \in DOMAIN chain' :
            i \in Nat /\ i + 1 > 1 /\ i + 1 \in DOMAIN chain /\ chain'[i] = chain[i + 1]
      /\ \A j \in DOMAIN chain : j \in Nat
      /\ \A j \in DOMAIN chain : j # 1 => j - 1 \in DOMAIN chain' /\ chain'[j - 1] = chain[j]
  BY MovesUp DEF Leaves, Calm, Shapes
<1> QED
  BY <1>1 DEF Idle, EditOf

\* A cell that the head did not edit keeps its books.
LEMMA BooksLeave ==
    ASSUME Leaves, NEW c \in Cell, ~EditOf(1, c), UNCHANGED <<shown[c], baseline[c]>>
    PROVE  BooksOfCell(c)' /\ (Idle(c)' <=> Idle(c))
<1> USE DEF Leaves
<1>1. /\ \A i \in DOMAIN chain' :
            i \in Nat /\ i + 1 > 1 /\ i + 1 \in DOMAIN chain /\ chain'[i] = chain[i + 1]
      /\ \A j \in DOMAIN chain : j \in Nat
      /\ \A j \in DOMAIN chain : j # 1 => j - 1 \in DOMAIN chain' /\ chain'[j - 1] = chain[j]
  BY MovesUp DEF Calm, Shapes
<1>2. BooksOfCell(c)
  BY DEF Calm, Settled
<1>3. Idle(c)' <=> Idle(c)
  BY IdleLeaves
<1>4. ASSUME NEW i \in DOMAIN chain', EditOf(i, c)'
      PROVE  /\ chain'[i].revision <= revision'[c]
             /\ (\A j \in DOMAIN chain' : EditOf(j, c)' => j <= i) =>
                   shown'[c] = chain'[i].amount /\ revision'[c] = chain'[i].revision
             /\ baseline'[c] # None
  <2>1. EditOf(i + 1, c) /\ i + 1 \in DOMAIN chain /\ chain'[i] = chain[i + 1]
    BY <1>1, <1>4 DEF EditOf
  <2>2. ASSUME \A j \in DOMAIN chain' : EditOf(j, c)' => j <= i
        PROVE  \A j \in DOMAIN chain : EditOf(j, c) => j <= i + 1
    <3>1. ASSUME NEW j \in DOMAIN chain, EditOf(j, c) PROVE j <= i + 1
      <4>1. j # 1
        BY <3>1
      <4>2. j - 1 \in DOMAIN chain' /\ EditOf(j - 1, c)'
        BY <1>1, <3>1, <4>1 DEF EditOf
      <4>3. j - 1 <= i /\ j \in Nat /\ i \in Nat
        BY <1>1, <2>2, <4>2
      <4> QED
        BY <4>3
    <3> QED
      BY <3>1
  <2> QED
    BY <1>2, <2>1, <2>2 DEF BooksOfCell
<1>5. Idle(c)' => baseline'[c] = None /\ \A i \in DOMAIN chain' : CopyAt(i)' => revision'[c] <= chain'[i].revision
  BY <1>1, <1>2, <1>3 DEF BooksOfCell, CopyAt
<1> QED
  BY <1>3, <1>4, <1>5 DEF BooksOfCell

\* Cells edited behind a copy onto them stay known as such.
LEMMA OvertakenLeaves ==
    ASSUME Leaves, NEW c \in Cell, c \in overtaken => c \in overtaken' \/ Idle(c)'
    PROVE  \A i, j \in DOMAIN chain' :
              i < j /\ CopyAt(i)' /\ EditOf(j, c)' /\ chain'[i].to = c[2] => c \in overtaken'
<1> USE DEF Leaves
<1>1. /\ \A i \in DOMAIN chain' :
            i \in Nat /\ i + 1 > 1 /\ i + 1 \in DOMAIN chain /\ chain'[i] = chain[i + 1]
  BY MovesUp DEF Calm, Shapes
<1> SUFFICES ASSUME NEW i \in DOMAIN chain', NEW j \in DOMAIN chain',
                    i < j, CopyAt(i)', EditOf(j, c)', chain'[i].to = c[2]
             PROVE  c \in overtaken'
  OBVIOUS
<1>2. i + 1 < j + 1 /\ CopyAt(i + 1) /\ EditOf(j + 1, c) /\ chain[i + 1].to = c[2]
  BY <1>1 DEF CopyAt, EditOf
<1>3. c \in overtaken
  BY <1>1, <1>2 DEF Calm, Settled, SavedOfCell
<1> QED
  BY <1>3 DEF Idle

\* A cell that the head did not edit, and whose saved value a head did not
\* copy or is now shown, agrees with the server as before.
LEMMA SavedLeaves ==
    ASSUME Leaves, NEW c \in Cell, ~EditOf(1, c), UNCHANGED baseline[c], UNCHANGED saved[c],
           c \in overtaken => c \in overtaken',
           c \notin lost' => c \notin lost /\
              (Idle(c) => shown'[c] = IF HeadCopies(c) THEN Op.plan[c] ELSE shown[c])
    PROVE  SavedOfCell(c)'
<1> USE DEF Leaves
<1>1. /\ Op = chain[1] /\ ~Stage("accepted")' /\ 1 \in DOMAIN chain
      /\ \A i \in DOMAIN chain' :
            i \in Nat /\ i + 1 > 1 /\ i + 1 \in DOMAIN chain /\ chain'[i] = chain[i + 1]
      /\ \A j \in DOMAIN chain : j # 1 => j - 1 \in DOMAIN chain' /\ chain'[j - 1] = chain[j]
  BY MovesUp DEF Calm, Shapes
<1>2. SavedOfCell(c) /\ bulk = None /\ bulk' = None
  BY SessionLeaves DEF Calm, Settled
<1>3. ~HeadEdits(c)' /\ ~HeadCopies(c)' /\ ~BulkWrote(c)' /\ ~BulkWrote(c) /\ ~HeadEdits(c)
  <2>1. ~HeadEdits(c)' /\ ~HeadCopies(c)'
    BY <1>1 DEF HeadEdits, HeadCopies
  <2>2. ~BulkWrote(c)' /\ ~BulkWrote(c)
    BY <1>2 DEF BulkWrote, BulkStage
  <2>3. ~HeadEdits(c)
    BY <1>1 DEF HeadEdits, EditOf
  <2> QED
    BY <2>1, <2>2, <2>3
<1>4. Idle(c)' <=> Idle(c)
  BY IdleLeaves
<1>5. ASSUME c \notin lost' \cup overtaken', Idle(c) PROVE shown'[c] = saved'[c]
  BY <1>2, <1>3, <1>5 DEF SavedOfCell
<1>6. ASSUME c \notin lost' \cup overtaken', ~Idle(c) PROVE baseline'[c] = saved'[c]
  BY <1>2, <1>3, <1>6 DEF SavedOfCell
<1>7. \A i, j \in DOMAIN chain' :
         i < j /\ CopyAt(i)' /\ EditOf(j, c)' /\ chain'[i].to = c[2] => c \in overtaken'
  BY OvertakenLeaves
<1> QED
  BY <1>3, <1>4, <1>5, <1>6, <1>7 DEF SavedOfCell

\* What a copy knows of a cell it keeps, unless the head saved or failed the
\* cell's only edit before it.
LEMMA CopyLeaves ==
    ASSUME Leaves, NEW c \in Cell, NEW i \in DOMAIN chain', UNCHANGED saved[c],
           \/ /\ ~EditOf(1, c)
              /\ c \in failed \cup lost \cup overtaken => c \in failed' \cup lost' \cup overtaken'
           \/ c \in failed' \cup lost' \cup overtaken'
           \/ EditOf(1, c) /\ saved[c] = Op.amount
    PROVE  CopyKnows(i, c)'
<1> USE DEF Leaves
<1>1. /\ Op = chain[1] /\ 1 \in DOMAIN chain /\ i \in Nat
      /\ \A k \in DOMAIN chain' :
            k \in Nat /\ k + 1 > 1 /\ k + 1 \in DOMAIN chain /\ chain'[k] = chain[k + 1]
      /\ \A j \in DOMAIN chain : j \in Nat /\ j >= 1
      /\ \A j \in DOMAIN chain : j # 1 => j - 1 \in DOMAIN chain' /\ chain'[j - 1] = chain[j]
  BY MovesUp DEF Calm, Shapes
<1>2. CopyKnows(i + 1, c)
  BY <1>1 DEF Calm, Settled
<1> SUFFICES ASSUME CopyAt(i)', chain'[i].stage \in {"waiting", "sent"}, chain'[i].from = c[2]
             PROVE  /\ \A j \in DOMAIN chain' :
                          j < i /\ EditOf(j, c)' /\ (\A m \in DOMAIN chain' : m < i /\ EditOf(m, c)' => m <= j)
                            => chain'[i].plan[c] = chain'[j].amount
                    /\ (\A j \in DOMAIN chain' : j < i => ~EditOf(j, c)')
                          /\ c \notin failed' \cup lost' \cup overtaken'
                          => chain'[i].plan[c] = saved'[c]
  BY DEF CopyKnows
<1>3. /\ \A j \in DOMAIN chain :
            j < i + 1 /\ EditOf(j, c) /\ (\A m \in DOMAIN chain : m < i + 1 /\ EditOf(m, c) => m <= j)
              => chain'[i].plan[c] = chain[j].amount
      /\ (\A j \in DOMAIN chain : j < i + 1 => ~EditOf(j, c)) /\ c \notin failed \cup lost \cup overtaken
            => chain'[i].plan[c] = saved[c]
  BY <1>1, <1>2 DEF CopyKnows, CopyAt
<1>4. ASSUME NEW j \in DOMAIN chain', j < i, EditOf(j, c)',
             \A m \in DOMAIN chain' : m < i /\ EditOf(m, c)' => m <= j
      PROVE  chain'[i].plan[c] = chain'[j].amount
  <2>1. j + 1 < i + 1 /\ EditOf(j + 1, c) /\ j + 1 \in DOMAIN chain
    BY <1>1, <1>4 DEF EditOf
  <2>2. ASSUME NEW m \in DOMAIN chain, m < i + 1, EditOf(m, c) PROVE m <= j + 1
    <3>1. CASE m = 1
      BY <1>1, <1>4, <3>1
    <3>2. CASE m # 1
      <4>1. m - 1 \in DOMAIN chain' /\ m - 1 < i /\ EditOf(m - 1, c)'
        BY <1>1, <2>2, <3>2 DEF EditOf
      <4> QED
        BY <1>1, <1>4, <4>1
    <3> QED
      BY <3>1, <3>2
  <2> QED
    BY <1>1, <1>3, <2>1, <2>2
<1>5. ASSUME \A j \in DOMAIN chain' : j < i => ~EditOf(j, c)',
             c \notin failed' \cup lost' \cup overtaken'
      PROVE  chain'[i].plan[c] = saved'[c]
  <2>1. ASSUME NEW j \in DOMAIN chain, j < i + 1, EditOf(j, c) PROVE j = 1
    <3> SUFFICES ASSUME j # 1 PROVE FALSE
      OBVIOUS
    <3>1. j - 1 \in DOMAIN chain' /\ EditOf(j - 1, c)' /\ j \in Nat
      BY <1>1, <2>1 DEF EditOf
    <3>2. j - 1 < i
      BY <1>1, <2>1, <3>1
    <3> QED
      BY <1>5, <3>1, <3>2
  <2>2. CASE ~EditOf(1, c)
    BY <1>3, <1>5, <2>1, <2>2
  <2>3. CASE EditOf(1, c) /\ saved[c] = Op.amount
    <3>1. 1 < i + 1 /\ \A m \in DOMAIN chain : m < i + 1 /\ EditOf(m, c) => m <= 1
      BY <1>1, <2>1
    <3> QED
      BY <1>1, <1>3, <2>3, <3>1
  <2> QED
    BY <1>5, <2>2, <2>3
<1> QED
  BY <1>4, <1>5

\* A head that was a copy has left, saved, refused or failed.
LEMMA CopyGone ==
    ASSUME Calm, CopyRefused \/ CopySaved \/ CopyNotSaved
    PROVE  Settled'
<1>1. Leaves /\ Op.kind = "copy" /\ UNCHANGED <<saved, baseline, failed, overtaken>> /\ lost \subseteq lost'
  BY DEF Leaves, CopyRefused, CopySaved, CopyNotSaved, Stage, book, session
<1>2. Op = chain[1] /\ Op \in Operation /\ 1 \in DOMAIN chain /\ ~Stage("sent")'
      /\ \A j \in DOMAIN chain : j \in Nat /\ j >= 1
  BY <1>1, MovesUp DEF Leaves, Calm, Shapes
<1>3. OneSession' /\ bulk = None /\ bulk' = None
  BY <1>1, SessionLeaves
<1>4. ASSUME NEW c \in Cell
      PROVE  BooksOfCell(c)' /\ SavedOfCell(c)' /\ \A i \in DOMAIN chain' : CopyKnows(i, c)'
  <2>1. ~EditOf(1, c)
    BY <1>1, <1>2 DEF EditOf
  <2>2. BooksOfCell(c) /\ SavedOfCell(c)
    BY DEF Calm, Settled
  <2>3. shown[c] \in Amount /\ shown \in Plans /\ revision[c] \in Nat /\ Op.revision \in Nat
    BY <1>2, EditOrCopy, BudgetAssumption DEF Calm, Shapes, BooksFine, Plans
  <2>4. ASSUME ~Idle(c) PROVE revision[c] > Op.revision
    <3>1. PICK j \in DOMAIN chain : EditOf(j, c)
      BY <2>4 DEF Idle
    <3>2. 1 < j /\ chain[j].kind = "edit"
      BY <1>2, <2>1, <3>1 DEF EditOf
    <3>3. chain[1].revision < chain[j].revision
      BY <1>2, <3>1, <3>2 DEF Calm, Settled, OneSession
    <3>4. chain[j].revision <= revision[c]
      BY <2>2, <3>1 DEF BooksOfCell
    <3>5. chain[j].revision \in Nat
      BY <3>1, EditOrCopy, BudgetAssumption DEF Calm, Shapes, ChainFine
    <3> QED
      BY <1>2, <2>3, <3>3, <3>4, <3>5
  <2>5. ASSUME Idle(c) PROVE revision[c] <= Op.revision
    BY <1>1, <1>2, <2>2, <2>5 DEF BooksOfCell, CopyAt
  <2>6. ASSUME CopySaved
        PROVE  shown'[c] = IF c[2] = Op.to /\ revision[c] <= Op.revision THEN Op.plan[c] ELSE shown[c]
    BY <2>6 DEF CopySaved
  <2>7. ~CopySaved => UNCHANGED shown
    BY DEF CopyRefused, CopyNotSaved
  <2>8. ~Idle(c) => shown'[c] = shown[c]
    BY <2>3, <2>4, <2>6, <2>7
  <2>9. BooksOfCell(c)'
    <3>1. CASE ~Idle(c)
      BY <1>1, <2>1, <2>8, <3>1, BooksLeave
    <3>2. CASE Idle(c)
      <4>1. Idle(c)'
        BY <1>1, <2>1, <3>2, IdleLeaves
      <4>2. baseline'[c] = None /\ revision'[c] = revision[c]
        BY <1>1, <2>2, <3>2 DEF BooksOfCell, Leaves
      <4>3. \A i \in DOMAIN chain' : CopyAt(i)' => revision'[c] <= chain'[i].revision
        BY <1>1, <2>2, <3>2, <4>2, MovesUp DEF BooksOfCell, CopyAt, Leaves, Calm, Shapes
      <4> QED
        BY <4>1, <4>2, <4>3 DEF BooksOfCell, Idle
    <3> QED
      BY <3>1, <3>2
  <2>10. ASSUME c \notin lost', Idle(c)
         PROVE  shown'[c] = IF HeadCopies(c) THEN Op.plan[c] ELSE shown[c]
    <3>1. CASE CopySaved
      BY <2>5, <2>6, <2>10, <3>1 DEF HeadCopies, CopySaved
    <3>2. CASE CopyNotSaved \/ CopyRefused
      <4>1. ~HeadCopies(c)
        BY <2>10, <3>2 DEF HeadCopies, CopyNotSaved, CopyRefused, Stage
      <4>2. UNCHANGED shown
        BY <3>2 DEF CopyNotSaved, CopyRefused
      <4> QED
        BY <4>1, <4>2
    <3> QED
      BY <3>1, <3>2
  <2>11. SavedOfCell(c)'
    BY <1>1, <2>1, <2>10, SavedLeaves
  <2>12. \A i \in DOMAIN chain' : CopyKnows(i, c)'
    BY <1>1, <2>1, CopyLeaves
  <2> QED
    BY <2>9, <2>11, <2>12
<1> QED
  BY <1>2, <1>3, <1>4 DEF Settled, BulkKnows, FillKnows, BulkStage

\* A head that was an edit has left, saved or failed.
LEMMA EditGone ==
    ASSUME Calm, EditSaved \/ EditNotSaved, NEW d \in Cell, d = Op.cell
    PROVE  Settled'
<1>1. Leaves /\ Op.kind = "edit" /\ UNCHANGED saved
  BY DEF Leaves, EditSaved, EditNotSaved, Stage, session
<1>2. Op = chain[1] /\ Op \in Operation /\ 1 \in DOMAIN chain /\ ~Stage("sent")' /\ ~Stage("accepted")'
      /\ (\A j \in DOMAIN chain : j \in Nat /\ j >= 1)
      /\ (\A j \in DOMAIN chain : j # 1 => j - 1 \in DOMAIN chain' /\ chain'[j - 1] = chain[j])
      /\ \A i \in DOMAIN chain' :
            i \in Nat /\ i + 1 > 1 /\ i + 1 \in DOMAIN chain /\ chain'[i] = chain[i + 1]
  BY <1>1, MovesUp DEF Leaves, Calm, Shapes
<1>3. OneSession' /\ bulk = None /\ bulk' = None
  BY <1>1, SessionLeaves
<1>4. d \in Cell /\ Op.amount \in Amount /\ Op.revision \in Nat /\ EditOf(1, d) /\ Op.amount # None
      /\ IsCurrent(Op)
  <2>1. d \in Cell /\ Op.amount \in Amount /\ Op.revision \in Nat
    BY <1>1, <1>2, EditOrCopy, BudgetAssumption
  <2> QED
    BY <1>1, <1>2, <2>1, BudgetAssumption DEF EditOf, Calm, Settled, OneSession
<1> DEFINE isNewest == revision[d] = Op.revision
<1>5. BooksOfCell(d) /\ SavedOfCell(d)
  BY <1>4 DEF Calm, Settled
<1>6. ASSUME isNewest PROVE Idle(d)'
  <2> SUFFICES ASSUME NEW j \in DOMAIN chain, EditOf(j, d), j # 1 PROVE FALSE
    BY <1>2 DEF Idle, EditOf
  <2>1. 1 < j /\ chain[j].kind = "edit"
    BY <1>2 DEF EditOf
  <2>2. chain[1].revision < chain[j].revision
    BY <1>2, <2>1 DEF Calm, Settled, OneSession
  <2>3. chain[j].revision <= revision[d]
    BY <1>5 DEF BooksOfCell
  <2>4. chain[j].revision \in Nat
    BY EditOrCopy, BudgetAssumption DEF Calm, Shapes, ChainFine
  <2> QED
    BY <1>2, <1>4, <1>6, <2>2, <2>3, <2>4
<1>7. ASSUME isNewest PROVE shown[d] = Op.amount
  <2>1. \A j \in DOMAIN chain : EditOf(j, d) => j = 1
    BY <1>2, <1>6, <1>7 DEF Idle, EditOf
  <2> QED
    BY <1>2, <1>4, <1>5, <2>1 DEF BooksOfCell
<1>8. ASSUME ~isNewest PROVE ~Idle(d)'
  <2>1. ~ \A j \in DOMAIN chain : EditOf(j, d) => j <= 1
    BY <1>2, <1>4, <1>5, <1>8 DEF BooksOfCell
  <2>2. PICK j \in DOMAIN chain : EditOf(j, d) /\ ~(j <= 1)
    BY <2>1
  <2> QED
    BY <1>2, <2>2 DEF Idle, EditOf
<1>9. /\ \A c \in Cell \ {d} :
            /\ UNCHANGED <<shown[c], baseline[c]>>
            /\ c \in failed' <=> c \in failed
            /\ c \in lost' <=> c \in lost
            /\ c \in overtaken' <=> c \in overtaken
      /\ d \in overtaken => d \in overtaken' \/ isNewest
      /\ baseline'[d] # None <=> ~isNewest
  <2>a. baseline \in [Cell -> Amount \cup {None}] /\ shown \in Plans /\ baseline[d] # None
    BY <1>2, <1>4, <1>5 DEF Calm, Shapes, BooksFine, BooksOfCell
  <2>1. CASE EditSaved
    <3>1. /\ failed' = failed \ {d}
          /\ baseline' = DropBaseline([baseline EXCEPT ![d] = Op.amount], Op) /\ UNCHANGED shown
          /\ IF isNewest THEN lost' = lost \ {d} /\ overtaken' = overtaken \ {d}
                       ELSE UNCHANGED <<lost, overtaken>>
      BY <1>4, <2>1 DEF EditSaved
    <3> QED
      BY <1>1, <1>4, <2>a, <3>1 DEF DropBaseline, IsCurrent
  <2>2. CASE EditNotSaved
    <3>1. /\ failed' = failed \cup {d} /\ shown' = RolledBack(Op)
          /\ baseline' = DropBaseline(baseline, Op) /\ UNCHANGED overtaken
          /\ lost' \in {lost, lost \cup {d}}
      BY <1>4, <2>2 DEF EditNotSaved, EditFails, IsCurrent
    <3> QED
      BY <1>1, <1>4, <2>a, <3>1 DEF DropBaseline, RolledBack, IsCurrent, Plans
  <2> QED
    BY <2>1, <2>2
<1>10. ASSUME NEW c \in Cell, c # d
       PROVE  BooksOfCell(c)' /\ SavedOfCell(c)' /\ \A i \in DOMAIN chain' : CopyKnows(i, c)'
  <2>1. ~EditOf(1, c) /\ ~HeadCopies(c)
    BY <1>1, <1>2, <1>10 DEF EditOf, HeadCopies
  <2>2. UNCHANGED <<shown[c], baseline[c], saved[c]>> /\ (c \in lost' <=> c \in lost)
        /\ (c \in overtaken' <=> c \in overtaken) /\ (c \in failed' <=> c \in failed)
    BY <1>1, <1>9, <1>10
  <2>3. BooksOfCell(c)'
    BY <1>1, <2>1, <2>2, BooksLeave
  <2>4. SavedOfCell(c)'
    BY <1>1, <2>1, <2>2, SavedLeaves
  <2>5. \A i \in DOMAIN chain' : CopyKnows(i, c)'
    BY <1>1, <2>1, <2>2, CopyLeaves
  <2> QED
    BY <2>3, <2>4, <2>5
<1>11. BooksOfCell(d)'
  <2>1. UNCHANGED revision
    BY <1>1 DEF Leaves
  <2>2. CASE isNewest
    <3>1. Idle(d)' /\ baseline'[d] = None
      BY <1>6, <1>9, <2>2
    <3>2. ASSUME NEW i \in DOMAIN chain' PROVE revision'[d] <= chain'[i].revision
      <4>1. 1 < i + 1 /\ i + 1 \in DOMAIN chain /\ chain'[i] = chain[i + 1]
        BY <1>2
      <4> QED
        BY <1>2, <2>1, <2>2, <4>1 DEF Calm, Settled, OneSession
    <3> QED
      BY <3>1, <3>2 DEF BooksOfCell, Idle
  <2>3. CASE ~isNewest
    <3>1. ~Idle(d)' /\ baseline'[d] # None
      BY <1>8, <1>9, <2>3
    <3>2. UNCHANGED shown[d]
      BY <1>4, <2>3 DEF EditSaved, EditNotSaved, EditFails, RolledBack, IsCurrent
    <3>3. ASSUME NEW i \in DOMAIN chain', EditOf(i, d)'
          PROVE  /\ chain'[i].revision <= revision'[d]
                 /\ (\A j \in DOMAIN chain' : EditOf(j, d)' => j <= i) =>
                       shown'[d] = chain'[i].amount /\ revision'[d] = chain'[i].revision
      <4>1. i + 1 \in DOMAIN chain /\ EditOf(i + 1, d) /\ chain'[i] = chain[i + 1] /\ i \in Nat
        BY <1>2, <3>3 DEF EditOf
      <4>2. ASSUME \A j \in DOMAIN chain' : EditOf(j, d)' => j <= i,
                   NEW j \in DOMAIN chain, EditOf(j, d)
            PROVE  j <= i + 1
        <5>1. CASE j = 1
          BY <4>1, <5>1
        <5>2. CASE j # 1
          <6>1. j - 1 \in DOMAIN chain' /\ EditOf(j - 1, d)' /\ j \in Nat
            BY <1>2, <4>2, <5>2 DEF EditOf
          <6>2. j - 1 <= i
            BY <4>2, <6>1
          <6> QED
            BY <4>1, <6>1, <6>2
        <5> QED
          BY <5>1, <5>2
      <4> QED
        BY <1>5, <2>1, <3>2, <4>1, <4>2 DEF BooksOfCell
    <3> QED
      BY <3>1, <3>3 DEF BooksOfCell
  <2> QED
    BY <2>2, <2>3
<1>12. SavedOfCell(d)'
  <2>1. ~HeadEdits(d)' /\ ~HeadCopies(d)' /\ ~BulkWrote(d)'
    BY <1>2, <1>3 DEF HeadEdits, HeadCopies, BulkWrote, BulkStage
  <2>2. \A i, j \in DOMAIN chain' :
           i < j /\ CopyAt(i)' /\ EditOf(j, d)' /\ chain'[i].to = d[2] => d \in overtaken'
    BY <1>1, <1>4, <1>6, <1>9, OvertakenLeaves
  <2>3. ASSUME d \notin lost' \cup overtaken'
        PROVE  IF isNewest THEN shown'[d] = saved'[d] ELSE baseline'[d] = saved'[d]
    <3>a. baseline \in [Cell -> Amount \cup {None}] /\ shown \in Plans
      BY DEF Calm, Shapes, BooksFine
    <3>1. CASE EditSaved
      <4>1. HeadEdits(d)
        BY <3>1 DEF EditSaved, HeadEdits
      <4>2. saved'[d] = Op.amount
        BY <1>1, <1>5, <4>1 DEF SavedOfCell
      <4>3. shown'[d] = shown[d] /\ baseline' = DropBaseline([baseline EXCEPT ![d] = Op.amount], Op)
        BY <1>4, <3>1 DEF EditSaved
      <4> QED
        BY <1>4, <1>7, <3>a, <4>2, <4>3 DEF DropBaseline
    <3>2. CASE EditNotSaved
      <4>1. Op.stage = "rejected" /\ d \notin lost \cup overtaken
        BY <2>3, <3>2 DEF EditNotSaved, Stage
      <4>2. ~HeadEdits(d) /\ ~Idle(d)
        BY <1>2, <1>4, <4>1 DEF HeadEdits, Stage, Idle
      <4>3. baseline[d] = saved[d] /\ baseline[d] # None
        BY <1>2, <1>4, <1>5, <4>1, <4>2 DEF SavedOfCell, BooksOfCell
      <4>4. shown' = RolledBack(Op) /\ baseline' = DropBaseline(baseline, Op)
        BY <1>4, <3>2 DEF EditNotSaved, EditFails, IsCurrent
      <4> QED
        BY <1>1, <1>4, <3>a, <4>3, <4>4 DEF RolledBack, DropBaseline, Plans
    <3> QED
      BY <3>1, <3>2
  <2> QED
    BY <1>6, <1>8, <2>1, <2>2, <2>3 DEF SavedOfCell
<1>13. ASSUME NEW i \in DOMAIN chain' PROVE CopyKnows(i, d)'
  <2>1. CASE EditSaved
    <3>1. HeadEdits(d)
      BY <2>1 DEF EditSaved, HeadEdits
    <3>2. saved[d] = Op.amount
      BY <1>5, <3>1 DEF SavedOfCell
    <3> QED
      BY <1>1, <1>4, <3>2, CopyLeaves
  <2>2. CASE EditNotSaved
    <3>1. d \in failed'
      BY <1>4, <2>2 DEF EditNotSaved, EditFails, IsCurrent
    <3> QED
      BY <1>1, <1>4, <3>1, CopyLeaves
  <2> QED
    BY <2>1, <2>2
<1> QED
  BY <1>2, <1>3, <1>10, <1>11, <1>12, <1>13 DEF Settled, BulkKnows, FillKnows, BulkStage

-----------------------------------------------------------------------------
\* Page and server agree: the head of the chain is sent and decided

\* The head moves on: it stays what it is, in another stage.
Moves(e) ==
    /\ Calm /\ Running /\ e \in Operation /\ chain' = [chain EXCEPT ![1] = e]
    /\ e.kind = Op.kind /\ e.epoch = Op.epoch /\ e.token = Op.token /\ e.revision = Op.revision
    /\ e.kind = "edit" => e.cell = Op.cell /\ e.amount = Op.amount
    /\ e.kind = "copy" => e.from = Op.from /\ e.to = Op.to
    /\ UNCHANGED <<shown, bulk, revision, nextRevision, baseline, failed, epoch, token, boundToken,
                   lost, overtaken>>

LEMMA SameElsewhere ==
    ASSUME NEW e, Moves(e)
    PROVE  /\ DOMAIN chain' = DOMAIN chain /\ 1 \in DOMAIN chain /\ Op = chain[1] /\ Op \in Operation
           /\ chain'[1] = e /\ Op' = e /\ Running'
           /\ \A i \in DOMAIN chain : i \in Nat /\ i >= 1 /\ (i # 1 => chain'[i] = chain[i])
           /\ OneSession' /\ bulk = None /\ bulk' = None
           /\ \A c \in Cell : BooksOfCell(c)' /\ (Idle(c)' <=> Idle(c))
           /\ \A c \in Cell : \A i \in DOMAIN chain : EditOf(i, c)' <=> EditOf(i, c)
           /\ \A i \in DOMAIN chain : CopyAt(i)' <=> CopyAt(i)
<1> USE DEF Moves
<1>1. chain \in Seq(Operation) /\ chain # <<>>
  BY DEF Calm, Shapes, ChainFine, Running
<1>2. /\ DOMAIN chain' = DOMAIN chain /\ 1 \in DOMAIN chain /\ DOMAIN chain = 1 .. Len(chain)
      /\ Len(chain) \in Nat /\ chain' # <<>> /\ chain'[1] = e /\ Op' = e
      /\ \A i \in DOMAIN chain : i # 1 => chain'[i] = chain[i]
  BY <1>1, HeadReplaced DEF Op
<1>3. Op = chain[1] /\ Op \in Operation
  BY HeadFine DEF Calm, Shapes
<1>4. \A i \in DOMAIN chain :
         /\ chain'[i].kind = chain[i].kind /\ chain'[i].revision = chain[i].revision
         /\ chain'[i].epoch = chain[i].epoch /\ chain'[i].token = chain[i].token
         /\ chain[i].kind = "edit" => chain'[i].cell = chain[i].cell /\ chain'[i].amount = chain[i].amount
  BY <1>2, <1>3
<1>5. \A c \in Cell : \A i \in DOMAIN chain : EditOf(i, c)' <=> EditOf(i, c)
  BY <1>2, <1>4 DEF EditOf
<1>6. \A i \in DOMAIN chain : CopyAt(i)' <=> CopyAt(i)
  BY <1>2, <1>4 DEF CopyAt
<1>7. OneSession' /\ bulk = None /\ bulk' = None
  <2>1. OneSession
    BY DEF Calm, Settled
  <2> QED
    BY <1>2, <1>4, <2>1 DEF OneSession, IsCurrent
<1>8. ASSUME NEW c \in Cell PROVE BooksOfCell(c)' /\ (Idle(c)' <=> Idle(c))
  <2>1. BooksOfCell(c)
    BY DEF Calm, Settled
  <2>2. Idle(c)' <=> Idle(c)
    BY <1>2, <1>5 DEF Idle
  <2>3. \A i \in DOMAIN chain' : EditOf(i, c)' =>
          /\ chain'[i].revision <= revision'[c]
          /\ (\A j \in DOMAIN chain' : EditOf(j, c)' => j <= i) =>
                shown'[c] = chain'[i].amount /\ revision'[c] = chain'[i].revision
          /\ baseline'[c] # None
    <3> SUFFICES ASSUME NEW i \in DOMAIN chain, EditOf(i, c)
                 PROVE  /\ chain'[i].revision <= revision[c]
                        /\ (\A j \in DOMAIN chain : EditOf(j, c) => j <= i) =>
                              shown[c] = chain'[i].amount /\ revision[c] = chain'[i].revision
                        /\ baseline[c] # None
      BY <1>2, <1>5
    <3>1. chain'[i].revision = chain[i].revision /\ chain'[i].amount = chain[i].amount
      BY <1>4 DEF EditOf
    <3> QED
      BY <2>1, <3>1 DEF BooksOfCell
  <2>4. Idle(c)' => /\ baseline'[c] = None
                    /\ \A i \in DOMAIN chain' : CopyAt(i)' => revision'[c] <= chain'[i].revision
    BY <1>2, <1>4, <1>6, <2>1, <2>2 DEF BooksOfCell
  <2> QED
    BY <2>2, <2>3, <2>4 DEF BooksOfCell
<1> QED
  BY <1>2, <1>3, <1>5, <1>6, <1>7, <1>8 DEF Running

\* What a copy knows survives when its cell is saved behind an edit of it, or
\* not saved at all.
LEMMA CopyMoves ==
    ASSUME NEW e, Moves(e), NEW c \in Cell, NEW i \in DOMAIN chain',
           i = 1 => e.stage \notin {"waiting", "sent"}
                    \/ (Op.stage \in {"waiting", "sent"} /\ (e.kind = "copy" => e.plan = Op.plan)),
           CopyAt(i) /\ i # 1 /\ chain[i].from = c[2] => saved'[c] = saved[c] \/ EditOf(1, c),
           i = 1 => UNCHANGED saved \/ e.stage \notin {"waiting", "sent"}
    PROVE  CopyKnows(i, c)'
<1>1. /\ DOMAIN chain' = DOMAIN chain /\ 1 \in DOMAIN chain /\ Op = chain[1] /\ Op \in Operation
      /\ chain'[1] = e
      /\ \A k \in DOMAIN chain : k \in Nat /\ k >= 1 /\ (k # 1 => chain'[k] = chain[k])
      /\ \A k \in DOMAIN chain : EditOf(k, c)' <=> EditOf(k, c)
      /\ CopyAt(i)' <=> CopyAt(i)
  BY SameElsewhere
<1>2. CopyKnows(i, c) /\ UNCHANGED <<failed, lost, overtaken>>
  BY <1>1 DEF Moves, Calm, Settled
<1> SUFFICES ASSUME CopyAt(i)', chain'[i].stage \in {"waiting", "sent"}, chain'[i].from = c[2]
             PROVE  /\ \A j \in DOMAIN chain' :
                          j < i /\ EditOf(j, c)' /\ (\A m \in DOMAIN chain' : m < i /\ EditOf(m, c)' => m <= j)
                            => chain'[i].plan[c] = chain'[j].amount
                    /\ (\A j \in DOMAIN chain' : j < i => ~EditOf(j, c)')
                          /\ c \notin failed' \cup lost' \cup overtaken'
                          => chain'[i].plan[c] = saved'[c]
  BY DEF CopyKnows
<1>3. /\ chain[i].stage \in {"waiting", "sent"} /\ chain[i].from = c[2] /\ CopyAt(i)
      /\ chain'[i].plan = chain[i].plan
  <2>1. CASE i = 1
    BY <1>1, <2>1 DEF Moves, CopyAt
  <2>2. CASE i # 1
    BY <1>1, <2>2
  <2> QED
    BY <2>1, <2>2
<1>4. /\ \A j \in DOMAIN chain :
            j < i /\ EditOf(j, c) /\ (\A m \in DOMAIN chain : m < i /\ EditOf(m, c) => m <= j)
              => chain[i].plan[c] = chain[j].amount
      /\ (\A j \in DOMAIN chain : j < i => ~EditOf(j, c)) /\ c \notin failed \cup lost \cup overtaken
            => chain[i].plan[c] = saved[c]
  BY <1>1, <1>2, <1>3 DEF CopyKnows
<1>5. \A j \in DOMAIN chain : EditOf(j, c) => chain'[j].amount = chain[j].amount
  BY <1>1 DEF EditOf, Moves
<1>6. ASSUME \A j \in DOMAIN chain : j < i => ~EditOf(j, c) PROVE saved'[c] = saved[c]
  <2>1. CASE i = 1
    BY <1>1, <2>1
  <2>2. CASE i # 1
    <3>1. ~EditOf(1, c)
      BY <1>1, <1>6, <2>2
    <3> QED
      BY <1>3, <2>2, <3>1
  <2> QED
    BY <2>1, <2>2
<1> QED
  BY <1>1, <1>2, <1>3, <1>4, <1>5, <1>6

\* Every copy is made onto the last year, from another.
LEMMA OneTarget ==
    ASSUME ChainFine, NEW i \in DOMAIN chain, NEW j \in DOMAIN chain, CopyAt(i), CopyAt(j)
    PROVE  chain[i].to = chain[j].to /\ chain[i].from # chain[j].to
<1>1. chain[i] \in Operation /\ chain[j] \in Operation /\ PlaceFine(i) /\ PlaceFine(j)
  BY DEF ChainFine
<1>2. chain[i].kind = "copy" /\ chain[j].kind = "copy"
  BY DEF CopyAt
<1>3. chain[i].to \in Year /\ chain[j].to \in Year /\ chain[i].from \in Year
  BY <1>1, <1>2, EditOrCopy
<1>4. chain[i].from + 1 = chain[i].to /\ chain[j].to <= chain[i].to /\ chain[i].to <= chain[j].to
  BY <1>1, <1>2, <1>3 DEF PlaceFine
<1>5. chain[i].to \in Nat /\ chain[j].to \in Nat /\ chain[i].from \in Nat
  BY <1>3, BudgetAssumption
<1> QED
  BY <1>4, <1>5

LEMMA HeadSent ==
    ASSUME Calm, Send \/ Reject
    PROVE  Settled'
<1>1. PICK s \in {"sent", "rejected"} : ToStage(s) /\ (s = "sent" => Send)
  BY DEF Send, Reject
<1>2. Running /\ UNCHANGED <<shown, saved, bulk, book, session, ops, lost, overtaken>>
      /\ Op.stage \in {"waiting", "sent"}
  BY DEF Send, Reject, Stage
<1>3. PICK e \in Operation : e = [Op EXCEPT !.stage = s]
  BY <1>2, HeadFine, AtStage DEF Stages, Calm, Shapes
<1>4. /\ e.stage = s /\ e.kind = Op.kind /\ e.revision = Op.revision /\ e.epoch = Op.epoch
      /\ e.token = Op.token
      /\ Op.kind = "edit" => e.cell = Op.cell /\ e.amount = Op.amount
      /\ Op.kind = "copy" => e.from = Op.from /\ e.to = Op.to /\ e.plan = Op.plan
  BY <1>2, <1>3, HeadFine, AtStage DEF Stages, Calm, Shapes
<1>5. chain' = [chain EXCEPT ![1] = e]
  BY <1>1, <1>2, <1>3, ToStageReplaces DEF Stages, Calm, Shapes
<1>6. Moves(e)
  BY <1>2, <1>4, <1>5 DEF Moves, book, session
<1>7. /\ OneSession' /\ bulk = None /\ bulk' = None
      /\ \A c \in Cell : BooksOfCell(c)' /\ (Idle(c)' <=> Idle(c))
      /\ Op' = e /\ DOMAIN chain' = DOMAIN chain /\ 1 \in DOMAIN chain
      /\ \A c \in Cell : \A i \in DOMAIN chain : EditOf(i, c)' <=> EditOf(i, c)
      /\ \A i \in DOMAIN chain : CopyAt(i)' <=> CopyAt(i)
      /\ chain'[1] = e /\ Op = chain[1]
      /\ \A i \in DOMAIN chain : i # 1 => chain'[i] = chain[i]
  BY <1>6, SameElsewhere
<1>8. ASSUME NEW c \in Cell PROVE SavedOfCell(c)'
  <2>1. ~HeadEdits(c)' /\ ~HeadCopies(c)' /\ ~HeadEdits(c) /\ ~HeadCopies(c)
    BY <1>2, <1>4, <1>7 DEF HeadEdits, HeadCopies, Stage
  <2>2. ~BulkWrote(c) /\ ~BulkWrote(c)'
    BY <1>7 DEF BulkWrote, BulkStage
  <2>3. SavedOfCell(c) /\ UNCHANGED <<shown, saved, baseline, lost, overtaken>>
    BY <1>2 DEF Calm, Settled, book
  <2>4. \A i \in DOMAIN chain : CopyAt(i) => chain'[i].to = chain[i].to
    BY <1>4, <1>7 DEF CopyAt
  <2>5. \A i, j \in DOMAIN chain' :
           i < j /\ CopyAt(i)' /\ EditOf(j, c)' /\ chain'[i].to = c[2] => c \in overtaken'
    BY <1>7, <2>3, <2>4 DEF SavedOfCell
  <2> QED
    BY <1>7, <2>1, <2>2, <2>3, <2>5 DEF SavedOfCell
<1>9. ASSUME NEW c \in Cell, NEW i \in DOMAIN chain' PROVE CopyKnows(i, c)'
  BY <1>2, <1>4, <1>6, CopyMoves
<1>10. Stage("sent")' /\ Op'.kind = "copy" => failed' = {}
  BY <1>1, <1>2, <1>4, <1>7 DEF Send, Stage, book
<1> QED
  BY <1>7, <1>8, <1>9, <1>10 DEF Settled, BulkKnows, FillKnows, BulkStage

LEMMA HeadAccepted ==
    ASSUME Calm, Accept
    PROVE  Settled'
<1>1. PICK e \in Operation :
         /\ chain' = [chain EXCEPT ![1] = e]
         /\ e.stage = "accepted" /\ e.kind = Op.kind /\ e.token = Op.token
         /\ e.epoch = Op.epoch /\ e.revision = Op.revision
         /\ e.kind = "edit" => e.cell = Op.cell /\ e.amount = Op.amount
         /\ e.kind = "copy" => e.from = Op.from /\ e.to = Op.to /\ e.plan = saved'
  BY AcceptReplaces DEF Calm, Shapes, BooksFine
<1>2. Running /\ UNCHANGED <<shown, bulk, book, session, ops, lost, overtaken>> /\ Op.stage = "sent"
  BY DEF Accept, Stage
<1>3. Moves(e)
  BY <1>1, <1>2 DEF Moves, book, session
<1>4. /\ OneSession' /\ bulk = None /\ bulk' = None
      /\ \A c \in Cell : BooksOfCell(c)' /\ (Idle(c)' <=> Idle(c))
      /\ Op' = e /\ DOMAIN chain' = DOMAIN chain /\ 1 \in DOMAIN chain
      /\ \A c \in Cell : \A i \in DOMAIN chain : EditOf(i, c)' <=> EditOf(i, c)
      /\ \A i \in DOMAIN chain : CopyAt(i)' <=> CopyAt(i)
      /\ chain'[1] = e /\ Op = chain[1] /\ Op \in Operation
      /\ \A i \in DOMAIN chain : i \in Nat /\ i >= 1 /\ (i # 1 => chain'[i] = chain[i])
      /\ Running'
  BY <1>3, SameElsewhere
<1>5. /\ Op.kind = "edit" \/ Op.kind = "copy"
      /\ Op.kind = "edit" => Op.cell \in Cell /\ saved' = [saved EXCEPT ![Op.cell] = Op.amount]
      /\ Op.kind = "copy" => saved' = Copied(saved, Op.from, Op.to)
      /\ saved \in Plans
  BY <1>4, EditOrCopy DEF Accept, Calm, Shapes, BooksFine
<1>6. /\ \A c \in Cell : HeadEdits(c)' <=> Op.kind = "edit" /\ Op.cell = c
      /\ \A c \in Cell : HeadCopies(c)' <=> Op.kind = "copy" /\ Op.to = c[2]
      /\ \A c \in Cell : ~HeadEdits(c) /\ ~HeadCopies(c)
  BY <1>1, <1>2, <1>4 DEF HeadEdits, HeadCopies, Stage
<1>7. ASSUME NEW c \in Cell, saved'[c] # saved[c] PROVE HeadEdits(c)' \/ HeadCopies(c)'
  <2>1. CASE Op.kind = "edit"
    BY <1>5, <1>6, <1>7, <2>1 DEF Plans
  <2>2. CASE Op.kind = "copy"
    BY <1>5, <1>6, <1>7, <2>2 DEF Copied
  <2> QED
    BY <1>5, <2>1, <2>2
<1>8. ASSUME NEW c \in Cell PROVE SavedOfCell(c)'
  <2>1. ~BulkWrote(c) /\ ~BulkWrote(c)'
    BY <1>4 DEF BulkWrote, BulkStage
  <2>2. SavedOfCell(c) /\ UNCHANGED <<shown, baseline, lost, overtaken>>
    BY <1>2 DEF Calm, Settled, book
  <2>3. \A i \in DOMAIN chain : CopyAt(i) => chain'[i].to = chain[i].to
    BY <1>1, <1>4 DEF CopyAt
  <2>4. \A i, j \in DOMAIN chain' :
           i < j /\ CopyAt(i)' /\ EditOf(j, c)' /\ chain'[i].to = c[2] => c \in overtaken'
    BY <1>4, <2>2, <2>3 DEF SavedOfCell
  <2>5. HeadEdits(c)' => saved'[c] = e.amount /\ ~Idle(c)
    BY <1>1, <1>4, <1>5, <1>6 DEF Idle, EditOf, Plans
  <2>6. HeadCopies(c)' => saved'[c] = e.plan[c]
    BY <1>1, <1>6
  <2>7. ASSUME HeadCopies(c)', ~Idle(c) PROVE c \in overtaken
    <3>1. PICK j \in DOMAIN chain : EditOf(j, c)
      BY <2>7 DEF Idle
    <3>2. CopyAt(1) /\ chain[1].to = c[2] /\ 1 < j
      BY <1>4, <1>6, <2>7, <3>1 DEF CopyAt, EditOf
    <3> QED
      BY <1>4, <2>2, <3>1, <3>2 DEF SavedOfCell
  <2>8. ASSUME c \notin lost \cup overtaken
        PROVE  /\ Idle(c) /\ ~HeadCopies(c)' => shown[c] = saved'[c]
               /\ ~Idle(c) /\ ~HeadEdits(c)' => baseline[c] = saved'[c]
    BY <1>6, <1>7, <2>1, <2>2, <2>5, <2>7, <2>8 DEF SavedOfCell
  <2> QED
    BY <1>4, <2>1, <2>2, <2>4, <2>5, <2>6, <2>8 DEF SavedOfCell
<1>9. ASSUME NEW c \in Cell, NEW i \in DOMAIN chain' PROVE CopyKnows(i, c)'
  <2>1. i = 1 => e.stage \notin {"waiting", "sent"}
    BY <1>1
  <2>2. ASSUME CopyAt(i), i # 1, chain[i].from = c[2], saved'[c] # saved[c] PROVE EditOf(1, c)
    <3>1. CASE Op.kind = "edit"
      BY <1>4, <1>6, <1>7, <2>2, <3>1 DEF EditOf
    <3>2. CASE Op.kind = "copy"
      <4>1. CopyAt(1) /\ i \in DOMAIN chain
        BY <1>4, <3>2 DEF CopyAt
      <4>2. chain[i].from # chain[1].to
        BY <1>4, <2>2, <4>1, OneTarget DEF Calm, Shapes
      <4> QED
        BY <1>4, <1>6, <1>7, <2>2, <3>2, <4>2
    <3> QED
      BY <1>5, <3>1, <3>2
  <2> QED
    BY <1>3, <2>1, <2>2, CopyMoves
<1>10. ~Stage("sent")'
  BY <1>1, <1>4 DEF Stage
<1> QED
  BY <1>4, <1>8, <1>9, <1>10 DEF Settled, BulkKnows, FillKnows, BulkStage

-----------------------------------------------------------------------------
\* Page and server agree: a new operation is put behind the others

\* A stamp taken in a calm history: baselines stay, and whoever waits keeps
\* its epoch and its books.
LEMMA StampAsks ==
    ASSUME Calm, TakeStamp, chain' # <<>>, UNCHANGED bulk
    PROVE  /\ bulk = None /\ bulk' = None /\ token' = token /\ boundToken' = token
           /\ epoch' = Stamped.epoch
           /\ \A c \in Cell : Stamped.base[c] = baseline[c]
           /\ Running => /\ epoch' = epoch /\ Stamped.rev = revision
                         /\ Stamped.next = nextRevision /\ Stamped.fail = failed
<1> USE DEF Calm
<1>1. bulk = None /\ bulk' = None
  BY DEF Races
<1>2. CASE Running
  <2>1. boundToken = token
    BY <1>2 DEF Settled, OneSession
  <2> QED
    BY <1>1, <1>2, <2>1 DEF TakeStamp, Stamped, Rebound
<1>3. CASE ~Running
  <2>1. \A c \in Cell : baseline[c] = None
    BY <1>3, RestIsSettled DEF Running, AtRest
  <2>2. \A c \in Cell : Stamped.base[c] = baseline[c]
    BY <2>1 DEF Stamped, NoBook
  <2> QED
    BY <1>1, <1>3, <2>2 DEF TakeStamp
<1> QED
  BY <1>2, <1>3

\* The chain has grown by op, the newest of the session.
Grows(op) ==
    /\ Calm /\ op \in Operation /\ op.stage = "waiting"
    /\ chain' = Append(chain, op)
    /\ bulk = None /\ bulk' = None /\ token' = token /\ boundToken' = token
    /\ op.token = token /\ op.epoch = epoch' /\ op.revision <= nextRevision'
    /\ UNCHANGED <<saved, lost>>
    /\ Running => /\ UNCHANGED <<epoch, failed>>
                  /\ nextRevision <= op.revision
                  /\ op.kind = "edit" => nextRevision < op.revision

LEMMA GrownChain ==
    ASSUME NEW op, Grows(op), NEW n, n = Len(chain) + 1
    PROVE  /\ n \in Nat /\ n \in DOMAIN chain' /\ chain'[n] = op
           /\ \A i \in DOMAIN chain' : i \in Nat /\ (i = n \/ (i < n /\ i \in DOMAIN chain))
           /\ \A i \in DOMAIN chain : /\ i \in Nat /\ i < n /\ i \in DOMAIN chain'
                                     /\ chain'[i] = chain[i]
           /\ DOMAIN chain # {} => Running
           /\ Running => Op' = Op /\ Running' /\ Op = chain[1] /\ 1 \in DOMAIN chain
           /\ \A s \in Stages : s # "waiting" => (Stage(s)' <=> Stage(s))
<1> USE DEF Grows
<1>1. chain \in Seq(Operation)
  BY DEF Calm, Shapes, ChainFine
<1>2. /\ Len(chain) \in Nat /\ DOMAIN chain = 1 .. Len(chain) /\ DOMAIN chain' = 1 .. Len(chain) + 1
      /\ \A i \in DOMAIN chain : chain'[i] = chain[i]
      /\ chain'[Len(chain) + 1] = op /\ chain' # <<>>
  BY <1>1, AtTheEnd
<1>3. chain' \in Seq(Operation) /\ Running'
  BY <1>1, <1>2, AtTheEnd DEF Running
<1>4. Op' = chain'[1] /\ (Running => Op = chain[1] /\ 1 \in DOMAIN chain)
  BY <1>1, <1>2, <1>3, WithoutHead DEF Op, Running
<1>5. ~Running => Op' = op /\ DOMAIN chain = {}
  <2>1. ~Running => Len(chain) = 0
    BY DEF Running
  <2> QED
    BY <1>2, <1>4, <2>1
<1>6. ASSUME NEW s \in Stages, s # "waiting" PROVE Stage(s)' <=> Stage(s)
  BY <1>2, <1>3, <1>4, <1>5, <1>6 DEF Stage
<1> QED
  BY <1>2, <1>3, <1>4, <1>5, <1>6

\* What the growth leaves as it was.
LEMMA GrownViews ==
    ASSUME NEW op, Grows(op), NEW n, n = Len(chain) + 1
    PROVE  /\ OneSession'
           /\ \A c \in Cell : /\ HeadEdits(c)' <=> HeadEdits(c)
                              /\ HeadCopies(c)' <=> HeadCopies(c)
                              /\ ~BulkWrote(c)' /\ ~BulkWrote(c)
                              /\ \A i \in DOMAIN chain : EditOf(i, c)' <=> EditOf(i, c)
                              /\ EditOf(n, c)' <=> op.kind = "edit" /\ op.cell = c
           /\ \A i \in DOMAIN chain : CopyAt(i)' <=> CopyAt(i)
           /\ CopyAt(n)' <=> op.kind = "copy"
           /\ Stage("sent")' /\ Op'.kind = "copy" => failed' = {}
<1> USE DEF Grows
<1>1. /\ n \in Nat /\ n \in DOMAIN chain' /\ chain'[n] = op
      /\ \A i \in DOMAIN chain' : i \in Nat /\ (i = n \/ (i < n /\ i \in DOMAIN chain))
      /\ \A i \in DOMAIN chain : i \in Nat /\ i < n /\ i \in DOMAIN chain' /\ chain'[i] = chain[i]
      /\ DOMAIN chain # {} => Running
      /\ Running => Op' = Op /\ Running'
      /\ Stage("sent")' <=> Stage("sent")
      /\ Stage("accepted")' <=> Stage("accepted")
  BY GrownChain DEF Stages
<1>2. OneSession /\ (Stage("sent") /\ Op.kind = "copy" => failed = {})
  BY DEF Calm, Settled
<1>3. \A i \in DOMAIN chain : chain[i].revision \in Nat
  BY EditOrCopy DEF Calm, Shapes, ChainFine
<1>4. nextRevision \in Nat /\ nextRevision' \in Nat /\ op.revision \in Nat
  BY EditOrCopy DEF Calm, Shapes, BooksFine
<1>5. ASSUME NEW i \in DOMAIN chain'
      PROVE  IsCurrent(chain[i])' /\ chain'[i].revision <= nextRevision'
  <2>1. CASE i = n
    BY <1>1, <2>1 DEF IsCurrent
  <2>2. CASE i # n
    <3>1. i \in DOMAIN chain /\ Running /\ chain'[i] = chain[i]
      BY <1>1, <2>2
    <3>2. IsCurrent(chain[i]) /\ chain[i].revision <= nextRevision
      BY <1>2, <3>1 DEF OneSession
    <3>3. chain[i].revision <= nextRevision'
      BY <1>3, <1>4, <3>1, <3>2
    <3> QED
      BY <3>1, <3>2, <3>3 DEF IsCurrent
  <2> QED
    BY <2>1, <2>2
<1>6. ASSUME NEW i \in DOMAIN chain', NEW j \in DOMAIN chain', i < j
      PROVE  /\ chain'[i].revision <= chain'[j].revision
             /\ chain'[j].kind = "edit" => chain'[i].revision < chain'[j].revision
  <2>1. i \in DOMAIN chain /\ Running /\ chain'[i] = chain[i]
    BY <1>1, <1>6
  <2>2. CASE j = n
    <3>1. chain[i].revision <= nextRevision
      BY <1>2, <2>1 DEF OneSession
    <3> QED
      BY <1>1, <1>3, <1>4, <2>1, <2>2, <3>1
  <2>3. CASE j # n
    BY <1>1, <1>2, <1>6, <2>1, <2>3 DEF OneSession
  <2> QED
    BY <2>2, <2>3
<1>7. OneSession'
  BY <1>5, <1>6 DEF OneSession
<1>8. ASSUME NEW c \in Cell
      PROVE  /\ HeadEdits(c)' <=> HeadEdits(c)
             /\ HeadCopies(c)' <=> HeadCopies(c)
             /\ ~BulkWrote(c)' /\ ~BulkWrote(c)
             /\ \A i \in DOMAIN chain : EditOf(i, c)' <=> EditOf(i, c)
             /\ EditOf(n, c)' <=> op.kind = "edit" /\ op.cell = c
  <2>1. (HeadEdits(c)' <=> HeadEdits(c)) /\ (HeadCopies(c)' <=> HeadCopies(c))
    BY <1>1 DEF HeadEdits, HeadCopies, Stage
  <2>2. ~BulkWrote(c)' /\ ~BulkWrote(c)
    BY DEF BulkWrote, BulkStage
  <2>3. \A i \in DOMAIN chain : EditOf(i, c)' <=> EditOf(i, c)
    BY <1>1 DEF EditOf
  <2>4. EditOf(n, c)' <=> op.kind = "edit" /\ op.cell = c
    BY <1>1 DEF EditOf
  <2> QED
    BY <2>1, <2>2, <2>3, <2>4
<1>9. (\A i \in DOMAIN chain : CopyAt(i)' <=> CopyAt(i)) /\ (CopyAt(n)' <=> op.kind = "copy")
  BY <1>1 DEF CopyAt
<1>10. Stage("sent")' /\ Op'.kind = "copy" => failed' = {}
  BY <1>1, <1>2 DEF Stage
<1> QED
  BY <1>7, <1>8, <1>9, <1>10

\* What a waiting copy knows is not touched by what comes behind it.
LEMMA CopyStays ==
    ASSUME NEW op, Grows(op), NEW c \in Cell, NEW i \in DOMAIN chain,
           c \in overtaken => c \in overtaken'
    PROVE  CopyKnows(i, c)'
<1> DEFINE n == Len(chain) + 1
<1>1. /\ \A k \in DOMAIN chain' : k \in Nat /\ (k = n \/ (k < n /\ k \in DOMAIN chain))
      /\ \A k \in DOMAIN chain : k \in Nat /\ k < n /\ k \in DOMAIN chain' /\ chain'[k] = chain[k]
      /\ Running /\ n \in Nat
  BY GrownChain
<1>2. /\ \A k \in DOMAIN chain : EditOf(k, c)' <=> EditOf(k, c)
      /\ CopyAt(i)' <=> CopyAt(i)
  BY GrownViews
<1>3. CopyKnows(i, c) /\ UNCHANGED <<saved, lost, failed>>
  BY <1>1 DEF Grows, Calm, Settled
<1> HIDE DEF n
<1>4. \A k \in DOMAIN chain' : k < i => k \in DOMAIN chain
  BY <1>1
<1> QED
  BY <1>1, <1>2, <1>3, <1>4 DEF CopyKnows

LEMMA EditAsked ==
    ASSUME Calm, NEW d \in Cell, NEW amount \in Amount, SetBudget(d, amount)
    PROVE  Settled'
<1>0. PICK n : n = Len(chain) + 1
  OBVIOUS
<1>1. PICK op \in Operation :
         /\ chain' = Append(chain, op) /\ op.kind = "edit" /\ op.cell = d /\ op.amount = amount
         /\ op.revision = nextRevision' /\ op.epoch = epoch' /\ op.token = token
         /\ op.stage = "waiting"
  <2> DEFINE o == [kind |-> "edit", cell |-> d, amount |-> amount, revision |-> nextRevision',
                   epoch |-> epoch', token |-> token, stage |-> "waiting"]
  <2>1. nextRevision' \in 1 .. MaxOps /\ epoch' \in Nat /\ token \in Nat
    BY StampFine, BudgetAssumption DEF SetBudget, CanAsk, Calm, Shapes, BooksFine
  <2>2. o \in Operation /\ chain' = Append(chain, o)
    BY <2>1 DEF Operation, SetBudget, Enqueued
  <2> QED
    BY <2>2
<1>2. /\ TakeStamp /\ UNCHANGED <<saved, bulk, lost>>
      /\ nextRevision' = Stamped.next + 1
      /\ revision' = [Stamped.rev EXCEPT ![d] = nextRevision']
      /\ baseline' = [Stamped.base EXCEPT ![d] = IF @ = None THEN shown[d] ELSE @]
      /\ failed' = Stamped.fail /\ shown' = [shown EXCEPT ![d] = amount]
      /\ overtaken' = IF CopyOnto(d) THEN overtaken \cup {d} ELSE overtaken
  BY DEF SetBudget
<1>3. chain' # <<>>
  BY <1>1, AtTheEnd DEF Calm, Shapes, ChainFine
<1>4. /\ bulk = None /\ bulk' = None /\ token' = token /\ boundToken' = token
      /\ \A c \in Cell : Stamped.base[c] = baseline[c]
      /\ Running => /\ epoch' = epoch /\ Stamped.rev = revision
                    /\ Stamped.next = nextRevision /\ Stamped.fail = failed
  BY <1>2, <1>3, StampAsks
<1>5. /\ Stamped.next \in Nat /\ Stamped.rev \in [Cell -> 0 .. Stamped.next]
      /\ Stamped.base \in [Cell -> Amount \cup {None}]
      /\ shown \in Plans /\ nextRevision \in Nat
  BY StampFine, BudgetAssumption DEF Calm, Shapes, BooksFine
<1>6. Grows(op)
  BY <1>1, <1>2, <1>4, <1>5 DEF Grows
<1>7. /\ n \in Nat /\ n \in DOMAIN chain' /\ chain'[n] = op
      /\ \A i \in DOMAIN chain' : i \in Nat /\ (i = n \/ (i < n /\ i \in DOMAIN chain))
      /\ \A i \in DOMAIN chain : /\ i \in Nat /\ i < n /\ i \in DOMAIN chain'
                                /\ chain'[i] = chain[i] /\ Running
      /\ Running => Op' = Op /\ Op = chain[1] /\ 1 \in DOMAIN chain
  BY <1>0, <1>6, GrownChain
<1>8. /\ OneSession' /\ (Stage("sent")' /\ Op'.kind = "copy" => failed' = {})
      /\ \A c \in Cell : /\ HeadEdits(c)' <=> HeadEdits(c)
                         /\ HeadCopies(c)' <=> HeadCopies(c)
                         /\ ~BulkWrote(c)' /\ ~BulkWrote(c)
                         /\ \A i \in DOMAIN chain : EditOf(i, c)' <=> EditOf(i, c)
                         /\ EditOf(n, c)' <=> c = d
      /\ \A i \in DOMAIN chain : CopyAt(i)' <=> CopyAt(i)
      /\ ~CopyAt(n)'
  BY <1>0, <1>1, <1>6, GrownViews
<1>9. \A c \in Cell : BooksOfCell(c) /\ SavedOfCell(c)
  BY DEF Calm, Settled
<1>10. \A c \in Cell : c # d =>
          /\ UNCHANGED <<shown[c], baseline[c]>> /\ (Idle(c)' <=> Idle(c))
          /\ Running => revision'[c] = revision[c]
          /\ c \in overtaken' <=> c \in overtaken
  <2> SUFFICES ASSUME NEW c \in Cell, c # d
               PROVE  /\ UNCHANGED <<shown[c], baseline[c]>> /\ (Idle(c)' <=> Idle(c))
                      /\ Running => revision'[c] = revision[c]
                      /\ c \in overtaken' <=> c \in overtaken
    OBVIOUS
  <2>1. UNCHANGED <<shown[c], baseline[c]>>
    BY <1>2, <1>4, <1>5 DEF Plans
  <2>2. Running => revision'[c] = revision[c]
    BY <1>2, <1>4, <1>5
  <2>3. Idle(c)' <=> Idle(c)
    BY <1>7, <1>8 DEF Idle
  <2> QED
    BY <1>2, <2>1, <2>2, <2>3
<1>11. /\ shown'[d] = amount /\ revision'[d] = nextRevision'
       /\ baseline'[d] = IF baseline[d] = None THEN shown[d] ELSE baseline[d]
       /\ baseline'[d] # None /\ ~Idle(d)' /\ overtaken \subseteq overtaken'
  <2>1. /\ shown'[d] = amount /\ revision'[d] = nextRevision'
        /\ baseline'[d] = IF baseline[d] = None THEN shown[d] ELSE baseline[d]
    BY <1>2, <1>4, <1>5 DEF Plans
  <2>2. shown[d] # None
    BY <1>5, BudgetAssumption DEF Plans
  <2>3. ~Idle(d)'
    BY <1>7, <1>8 DEF Idle
  <2> QED
    BY <1>2, <2>1, <2>2, <2>3
<1>12. ASSUME NEW c \in Cell, c # d PROVE BooksOfCell(c)'
  <2>1. ASSUME NEW i \in DOMAIN chain', EditOf(i, c)'
        PROVE  /\ chain'[i].revision <= revision'[c]
               /\ (\A j \in DOMAIN chain' : EditOf(j, c)' => j <= i) =>
                     shown'[c] = chain'[i].amount /\ revision'[c] = chain'[i].revision
               /\ baseline'[c] # None
    <3>1. i \in DOMAIN chain /\ EditOf(i, c) /\ chain'[i] = chain[i] /\ Running
      BY <1>7, <1>8, <1>12, <2>1
    <3>2. (\A j \in DOMAIN chain' : EditOf(j, c)' => j <= i) => (\A j \in DOMAIN chain : EditOf(j, c) => j <= i)
      BY <1>7, <1>8
    <3> QED
      BY <1>9, <1>10, <1>12, <3>1, <3>2 DEF BooksOfCell
  <2>2. ASSUME Idle(c)', NEW i \in DOMAIN chain', CopyAt(i)' PROVE revision'[c] <= chain'[i].revision
    <3>1. i \in DOMAIN chain /\ CopyAt(i) /\ chain'[i] = chain[i] /\ Running
      BY <1>7, <1>8, <2>2
    <3> QED
      BY <1>9, <1>10, <1>12, <2>2, <3>1 DEF BooksOfCell
  <2>3. Idle(c)' => baseline'[c] = None
    BY <1>9, <1>10, <1>12 DEF BooksOfCell
  <2> QED
    BY <2>1, <2>2, <2>3 DEF BooksOfCell
<1>13. BooksOfCell(d)'
  <2>1. ASSUME NEW i \in DOMAIN chain', EditOf(i, d)'
        PROVE  /\ chain'[i].revision <= revision'[d]
               /\ (\A j \in DOMAIN chain' : EditOf(j, d)' => j <= i) =>
                     shown'[d] = chain'[i].amount /\ revision'[d] = chain'[i].revision
    <3>1. CASE i = n
      BY <1>1, <1>2, <1>5, <1>7, <1>11, <3>1
    <3>2. CASE i # n
      <4>1. i \in DOMAIN chain /\ i < n /\ chain'[i] = chain[i] /\ Running /\ i \in Nat /\ n \in Nat
        BY <1>7, <3>2
      <4>2. chain[i].revision <= nextRevision /\ chain[i].revision \in Nat
        BY <4>1, EditOrCopy DEF Calm, Shapes, ChainFine, Settled, OneSession
      <4>3. chain'[i].revision <= revision'[d]
        BY <1>2, <1>4, <1>5, <1>11, <4>1, <4>2
      <4>4. ~ \A j \in DOMAIN chain' : EditOf(j, d)' => j <= i
        BY <1>7, <1>8, <4>1
      <4> QED
        BY <4>3, <4>4
    <3> QED
      BY <3>1, <3>2
  <2> QED
    BY <1>11, <2>1 DEF BooksOfCell
<1>14. ASSUME NEW c \in Cell, c # d PROVE SavedOfCell(c)'
  <2>1. \A i, j \in DOMAIN chain' :
           i < j /\ CopyAt(i)' /\ EditOf(j, c)' /\ chain'[i].to = c[2] => c \in overtaken'
    <3> SUFFICES ASSUME NEW i \in DOMAIN chain', NEW j \in DOMAIN chain',
                        i < j, CopyAt(i)', EditOf(j, c)', chain'[i].to = c[2]
                 PROVE  c \in overtaken'
      OBVIOUS
    <3>1. /\ i \in DOMAIN chain /\ CopyAt(i) /\ chain'[i] = chain[i]
          /\ j \in DOMAIN chain /\ EditOf(j, c)
      BY <1>7, <1>8, <1>14
    <3> QED
      BY <1>9, <1>10, <1>14, <3>1 DEF SavedOfCell
  <2>2. HeadEdits(c) \/ HeadCopies(c) => Op' = Op
    BY <1>7 DEF HeadEdits, HeadCopies, Stage
  <2> QED
    BY <1>2, <1>8, <1>9, <1>10, <1>14, <2>1, <2>2 DEF SavedOfCell
<1>15. SavedOfCell(d)'
  <2>1. \A i, j \in DOMAIN chain' :
           i < j /\ CopyAt(i)' /\ EditOf(j, d)' /\ chain'[i].to = d[2] => d \in overtaken'
    <3> SUFFICES ASSUME NEW i \in DOMAIN chain', NEW j \in DOMAIN chain',
                        i < j, CopyAt(i)', EditOf(j, d)', chain'[i].to = d[2]
                 PROVE  d \in overtaken'
      OBVIOUS
    <3>1. i \in DOMAIN chain /\ CopyAt(i) /\ chain'[i] = chain[i]
      BY <1>7, <1>8
    <3>2. CopyOnto(d)
      BY <3>1 DEF CopyOnto, CopyAt
    <3> QED
      BY <1>2, <3>2
  <2>2. HeadEdits(d) \/ HeadCopies(d) => Op' = Op
    BY <1>7 DEF HeadEdits, HeadCopies, Stage
  <2>3. ASSUME d \notin lost' \cup overtaken', ~HeadEdits(d)' PROVE baseline'[d] = saved'[d]
    <3>1. d \notin lost \cup overtaken /\ ~HeadEdits(d) /\ ~CopyOnto(d)
      BY <1>2, <1>8, <2>3
    <3>2. CASE Idle(d)
      <4>1. ~HeadCopies(d)
        BY <1>7, <3>1 DEF HeadCopies, CopyOnto, Stage
      <4>2. baseline[d] = None /\ shown[d] = saved[d]
        BY <1>8, <1>9, <3>1, <3>2, <4>1 DEF BooksOfCell, SavedOfCell
      <4> QED
        BY <1>2, <1>11, <4>2
    <3>3. CASE ~Idle(d)
      <4>1. baseline[d] # None /\ baseline[d] = saved[d]
        BY <1>9, <3>1, <3>3 DEF BooksOfCell, SavedOfCell, Idle
      <4> QED
        BY <1>2, <1>11, <4>1
    <3> QED
      BY <3>2, <3>3
  <2> QED
    BY <1>2, <1>8, <1>9, <1>11, <2>1, <2>2, <2>3 DEF SavedOfCell
<1>16. ASSUME NEW c \in Cell, NEW i \in DOMAIN chain' PROVE CopyKnows(i, c)'
  <2>1. CASE i = n
    BY <1>8, <2>1 DEF CopyKnows
  <2>2. CASE i # n
    BY <1>6, <1>7, <1>11, <2>2, CopyStays
  <2> QED
    BY <2>1, <2>2
<1> QED
  BY <1>4, <1>8, <1>12, <1>13, <1>14, <1>15, <1>16 DEF Settled, BulkKnows, FillKnows, BulkStage

LEMMA CopyAsked ==
    ASSUME Calm, NEW to \in Year, CopyBudgetYear(to)
    PROVE  Settled'
<1>0. PICK n : n = Len(chain) + 1
  OBVIOUS
<1>1. PICK op \in Operation :
         /\ chain' = Append(chain, op) /\ op.kind = "copy" /\ op.from = to - 1 /\ op.to = to
         /\ op.revision = Stamped.next /\ op.epoch = epoch' /\ op.token = token
         /\ op.stage = "waiting" /\ op.plan = shown
  <2> DEFINE o == [kind |-> "copy", from |-> to - 1, to |-> to, revision |-> Stamped.next,
                   epoch |-> epoch', token |-> token, stage |-> "waiting", plan |-> shown]
  <2>1. Stamped.next \in 0 .. MaxOps /\ epoch' \in Nat /\ token \in Nat /\ shown \in Plans
        /\ to - 1 \in Year
    BY StampFine, BudgetAssumption DEF CopyBudgetYear, CanAsk, Calm, Shapes, BooksFine
  <2>2. o \in Operation /\ chain' = Append(chain, o)
    BY <2>1 DEF Operation, CopyBudgetYear, Enqueued
  <2> QED
    BY <2>2
<1>2. /\ TakeStamp /\ UNCHANGED <<shown, saved, bulk, lost, overtaken>>
      /\ nextRevision' = Stamped.next /\ revision' = Stamped.rev
      /\ baseline' = Stamped.base /\ failed' = Stamped.fail
      /\ \A y \in Year : y <= to
  BY DEF CopyBudgetYear
<1>3. chain' # <<>>
  BY <1>1, AtTheEnd DEF Calm, Shapes, ChainFine
<1>4. /\ bulk = None /\ bulk' = None /\ token' = token /\ boundToken' = token
      /\ \A c \in Cell : baseline'[c] = baseline[c]
      /\ Running => /\ epoch' = epoch /\ Stamped.rev = revision
                    /\ Stamped.next = nextRevision /\ Stamped.fail = failed
  BY <1>2, <1>3, StampAsks
<1>5. Stamped.next \in Nat /\ Stamped.rev \in [Cell -> 0 .. Stamped.next] /\ nextRevision \in Nat
  BY StampFine DEF Calm, Shapes, BooksFine
<1>6. Grows(op)
  BY <1>1, <1>2, <1>4, <1>5 DEF Grows
<1>7. /\ n \in Nat /\ n \in DOMAIN chain' /\ chain'[n] = op
      /\ \A i \in DOMAIN chain' : i \in Nat /\ (i = n \/ (i < n /\ i \in DOMAIN chain))
      /\ \A i \in DOMAIN chain : /\ i \in Nat /\ i < n /\ i \in DOMAIN chain'
                                /\ chain'[i] = chain[i] /\ Running
      /\ Running => Op' = Op /\ Op = chain[1] /\ 1 \in DOMAIN chain
  BY <1>0, <1>6, GrownChain
<1>8. /\ OneSession' /\ (Stage("sent")' /\ Op'.kind = "copy" => failed' = {})
      /\ \A c \in Cell : /\ HeadEdits(c)' <=> HeadEdits(c)
                         /\ HeadCopies(c)' <=> HeadCopies(c)
                         /\ ~BulkWrote(c)' /\ ~BulkWrote(c)
                         /\ \A i \in DOMAIN chain : EditOf(i, c)' <=> EditOf(i, c)
                         /\ ~EditOf(n, c)'
      /\ \A i \in DOMAIN chain : CopyAt(i)' <=> CopyAt(i)
  BY <1>0, <1>1, <1>6, GrownViews
<1>9. ASSUME NEW c \in Cell PROVE Idle(c)' <=> Idle(c)
  BY <1>7, <1>8 DEF Idle
<1>10. ASSUME NEW c \in Cell PROVE BooksOfCell(c)'
  <2>0. BooksOfCell(c)
    BY DEF Calm, Settled
  <2>1. ASSUME NEW i \in DOMAIN chain', EditOf(i, c)'
        PROVE  /\ chain'[i].revision <= revision'[c]
               /\ (\A j \in DOMAIN chain' : EditOf(j, c)' => j <= i) =>
                     shown'[c] = chain'[i].amount /\ revision'[c] = chain'[i].revision
               /\ baseline'[c] # None
    <3>1. i \in DOMAIN chain /\ EditOf(i, c) /\ chain'[i] = chain[i] /\ Running
      BY <1>7, <1>8, <2>1
    <3>2. (\A j \in DOMAIN chain' : EditOf(j, c)' => j <= i) => (\A j \in DOMAIN chain : EditOf(j, c) => j <= i)
      BY <1>7, <1>8
    <3> QED
      BY <1>2, <1>4, <2>0, <3>1, <3>2 DEF BooksOfCell
  <2>2. ASSUME Idle(c)', NEW i \in DOMAIN chain', CopyAt(i)' PROVE revision'[c] <= chain'[i].revision
    <3>1. CASE i = n
      BY <1>1, <1>2, <1>5, <1>7, <3>1
    <3>2. CASE i # n
      <4>1. i \in DOMAIN chain /\ CopyAt(i) /\ chain'[i] = chain[i] /\ Running
        BY <1>7, <1>8, <2>2, <3>2
      <4> QED
        BY <1>2, <1>4, <1>9, <2>0, <2>2, <4>1 DEF BooksOfCell
    <3> QED
      BY <3>1, <3>2
  <2>3. Idle(c)' => baseline'[c] = None
    BY <1>4, <1>9, <2>0 DEF BooksOfCell
  <2> QED
    BY <2>1, <2>2, <2>3 DEF BooksOfCell
<1>11. ASSUME NEW c \in Cell PROVE SavedOfCell(c)'
  <2>0. SavedOfCell(c)
    BY DEF Calm, Settled
  <2>1. \A i, j \in DOMAIN chain' :
           i < j /\ CopyAt(i)' /\ EditOf(j, c)' /\ chain'[i].to = c[2] => c \in overtaken'
    <3> SUFFICES ASSUME NEW i \in DOMAIN chain', NEW j \in DOMAIN chain',
                        i < j, CopyAt(i)', EditOf(j, c)', chain'[i].to = c[2]
                 PROVE  c \in overtaken'
      OBVIOUS
    <3>1. /\ i \in DOMAIN chain /\ CopyAt(i) /\ chain'[i] = chain[i]
          /\ j \in DOMAIN chain /\ EditOf(j, c)
      BY <1>7, <1>8
    <3> QED
      BY <1>2, <2>0, <3>1 DEF SavedOfCell
  <2>2. HeadEdits(c) \/ HeadCopies(c) => Op' = Op
    BY <1>7 DEF HeadEdits, HeadCopies, Stage
  <2> QED
    BY <1>2, <1>4, <1>8, <1>9, <2>0, <2>1, <2>2 DEF SavedOfCell
<1>12. ASSUME NEW c \in Cell PROVE CopyKnows(n, c)'
  <2> SUFFICES ASSUME to - 1 = c[2]
               PROVE  /\ \A j \in DOMAIN chain' :
                            j < n /\ EditOf(j, c)' /\ (\A m \in DOMAIN chain' : m < n /\ EditOf(m, c)' => m <= j)
                              => shown[c] = chain'[j].amount
                      /\ (\A j \in DOMAIN chain' : j < n => ~EditOf(j, c)')
                            /\ c \notin failed' \cup lost' \cup overtaken'
                            => shown[c] = saved'[c]
    BY <1>1, <1>7 DEF CopyKnows
  <2>1. BooksOfCell(c) /\ SavedOfCell(c)
    BY DEF Calm, Settled
  <2>2. ASSUME NEW j \in DOMAIN chain', j < n, EditOf(j, c)',
               \A m \in DOMAIN chain' : m < n /\ EditOf(m, c)' => m <= j
        PROVE  shown[c] = chain'[j].amount
    <3>1. j \in DOMAIN chain /\ EditOf(j, c) /\ chain'[j] = chain[j]
      BY <1>7, <1>8, <2>2
    <3>2. \A m \in DOMAIN chain : EditOf(m, c) => m <= j
      BY <1>7, <1>8, <2>2
    <3> QED
      BY <2>1, <3>1, <3>2 DEF BooksOfCell
  <2>3. ASSUME \A j \in DOMAIN chain' : j < n => ~EditOf(j, c)', c \notin lost' \cup overtaken'
        PROVE  shown[c] = saved'[c]
    <3>1. Idle(c)
      BY <1>7, <1>8, <2>3 DEF Idle
    <3>2. ~HeadCopies(c)
      <4> SUFFICES ASSUME HeadCopies(c) PROVE FALSE
        OBVIOUS
      <4>1. Running /\ Op.kind = "copy" /\ Op.to = c[2]
        BY DEF HeadCopies, Stage
      <4>2. Op = chain[1] /\ PlaceFine(1)
        BY <4>1, HeadFine DEF Calm, Shapes
      <4>3. to <= Op.to /\ to \in Nat
        BY <4>1, <4>2, BudgetAssumption DEF PlaceFine
      <4> QED
        BY <4>1, <4>3
    <3> QED
      BY <1>2, <1>8, <2>1, <2>3, <3>1, <3>2 DEF SavedOfCell
  <2> QED
    BY <2>2, <2>3
<1>13. ASSUME NEW c \in Cell, NEW i \in DOMAIN chain' PROVE CopyKnows(i, c)'
  <2>1. CASE i = n
    BY <1>12, <2>1
  <2>2. CASE i # n
    BY <1>2, <1>6, <1>7, <2>2, CopyStays
  <2> QED
    BY <2>1, <2>2
<1> QED
  BY <1>4, <1>8, <1>10, <1>11, <1>13 DEF Settled, BulkKnows, FillKnows, BulkStage

-----------------------------------------------------------------------------
\* Page and server agree

\* A calm history orphans nothing: the chain belongs to the session.
LEMMA NoOrphans == ASSUME Calm PROVE ~Orphaned
<1> SUFFICES ASSUME Orphaned PROVE FALSE
  OBVIOUS
<1>1. Running /\ ~IsCurrent(Op)
  BY DEF Orphaned, Stage
<1>2. Op = chain[1] /\ 1 \in DOMAIN chain
  BY <1>1, HeadFine DEF Calm, Shapes
<1> QED
  BY <1>1, <1>2 DEF Calm, Settled, OneSession

LEMMA RestAsked ==
    ASSUME Calm, NEW request \in BulkRequest, StartBulk(request), request.stage = "sent",
           request.kind = "fill" => request.before = shown
    PROVE  Settled'
BY RestStarts, BulkAssumption

LEMMA SettledNext == BudgetInv /\ Shapes' /\ [Next]_vars => BudgetInv'
<1> SUFFICES ASSUME BudgetInv, Shapes', [Next]_vars, ~raced' PROVE Settled'
  BY DEF BudgetInv
<1>1. CASE UNCHANGED vars
  <2>1. Settled
    BY <1>1 DEF BudgetInv, vars
  <2> QED
    BY <1>1, <2>1 DEF vars, book, session, Settled, OneSession, BooksOfCell, SavedOfCell, CopyKnows,
       EditOf, CopyAt, Idle, HeadEdits, HeadCopies, BulkWrote, BulkStage, Stage, Running, Op,
       BulkKnows, FillKnows, IsCurrent
<1>2. CASE Next
  <2>1. Calm
    BY <1>2 DEF Next, Calm, BudgetInv, Shapes, BooksFine
  <2>2. CASE Ask
    <3>1. ASSUME NEW c \in Cell, NEW amount \in Amount, SetBudget(c, amount) PROVE Settled'
      BY <2>1, <3>1, EditAsked
    <3>2. ASSUME NEW to \in Year, CopyBudgetYear(to) PROVE Settled'
      BY <2>1, <3>2, CopyAsked
    <3>3. ASSUME NEW c \in Cell, FillBudgetForward(c) PROVE Settled'
      <4> DEFINE later == {d \in Cell : d[1] = c[1] /\ d[2] = c[2] /\ d[3] > c[3]}
                 amounts == [d \in later |-> shown[c]]
                 request == [kind |-> "fill", stage |-> "sent", before |-> shown,
                             amounts |-> amounts]
      <4>1. StartBulk(request)
        BY <3>3 DEF FillBudgetForward
      <4>2. amounts \in Writes /\ shown \in Plans
        <5>1. shown \in Plans
          BY <2>1 DEF Calm, Shapes, BooksFine
        <5>2. later \in SUBSET Cell /\ amounts \in [later -> Amount]
          BY <5>1 DEF Plans
        <5> HIDE DEF amounts, later
        <5> QED
          BY <5>1, <5>2 DEF Writes
      <4>3. request \in BulkRequest
        BY <4>2 DEF BulkRequest
      <4> QED
        BY <2>1, <4>1, <4>3, RestAsked
    <3>4. ASSUME NEW k \in Category, NEW months \in 1 .. Cardinality(Cell), SetBudgets(k, months)
          PROVE  Settled'
      <4> DEFINE request == [kind |-> "bulk", stage |-> "sent", amounts |-> Distribution(k, months)]
      <4>1. request \in BulkRequest
        BY <2>1, DistributionWrites DEF Calm, Shapes, BooksFine, BulkRequest
      <4>2. StartBulk(request)
        BY <3>4 DEF SetBudgets
      <4> QED
        BY <2>1, <4>1, <4>2, RestAsked
    <3>5. CASE Reload
      BY <2>1, <3>5, RestAsked DEF Reload, BulkRequest
    <3> QED
      BY <2>2, <3>1, <3>2, <3>3, <3>4, <3>5 DEF Ask
  <2>3. CASE ChainStep
    <3>1. CASE EditSaved \/ EditNotSaved
      <4>1. Op.cell \in Cell
        <5>1. Running /\ Op.kind = "edit"
          BY <3>1 DEF EditSaved, EditNotSaved, Stage
        <5> QED
          BY <2>1, <5>1, HeadFine, EditOrCopy DEF Calm, Shapes
      <4> QED
        BY <2>1, <3>1, <4>1, EditGone
    <3> QED
      BY <2>1, <2>3, <3>1, NoOrphans, CopyGone, HeadSent, HeadAccepted DEF ChainStep
  <2>4. CASE BulkStep
    BY <2>1, <2>4, RestBulk
  <2>5. CASE SessionStep
    BY <2>1, <2>5, RestSession
  <2> QED
    BY <1>2, <2>2, <2>3, <2>4, <2>5 DEF Next
<1> QED
  BY <1>1, <1>2

LEMMA BudgetInvAlways == Spec => []BudgetInv
<1>1. Spec => []Shapes
  BY ShapesAlways
<1>2. Init => BudgetInv
  BY ShapesInit, SettledInit DEF BudgetInv
<1>3. BudgetInv /\ Shapes' /\ [Next]_vars => BudgetInv'
  BY SettledNext
<1> QED
  BY <1>1, <1>2, <1>3, PTL DEF Spec

\* Whatever the sets of categories, years, months and amounts, and however many
\* operations may be asked for: a page whose edits have all been answered shows
\* what the server has saved (setBudget and copyBudgetYear, with the exceptions
\* Agreement names).
THEOREM AgreementHolds == Spec => []Agreement
<1>1. BudgetInv => Agreement
  <2> SUFFICES ASSUME BudgetInv, ~Running, bulk = None, ~raced, NEW c \in Cell \ (lost \cup overtaken)
               PROVE  shown[c] = saved[c]
    BY DEF Agreement
  <2>1. AtRest
    BY RestIsSettled DEF BudgetInv, Running
  <2> QED
    BY <2>1 DEF AtRest, BulkWrote, BulkStage
<1> QED
  BY <1>1, BudgetInvAlways, PTL

\* A year copy that the server carries out copies what the person saw when
\* asking for it, for every constant (copyBudgetYear).
THEOREM CopiesProved == Spec => CopiesWhatWasSeen
<1> DEFINE Seen == \/ ~(Stage("sent") /\ Op.kind = "copy" /\ saved' # saved) \/ raced'
                   \/ \A c \in Cell \ (lost \cup overtaken) :
                         c[2] = Op.from => saved[c] = Op.plan[c]
<1>1. BudgetInv /\ [Next]_vars => [Seen]_vars
  <2> SUFFICES ASSUME BudgetInv, Next, Stage("sent"), Op.kind = "copy", ~raced',
                      NEW c \in Cell \ (lost \cup overtaken), c[2] = Op.from
               PROVE  saved[c] = Op.plan[c]
    OBVIOUS
  <2>1. ~raced
    BY DEF Next, BudgetInv, Shapes, BooksFine
  <2>2. Settled /\ failed = {}
    BY <2>1 DEF BudgetInv, Settled
  <2>3. Op = chain[1] /\ 1 \in DOMAIN chain /\ Running /\ \A j \in DOMAIN chain : ~(j < 1)
    BY HeadFine DEF BudgetInv, Shapes, Stage
  <2>4. CopyKnows(1, c) /\ CopyAt(1) /\ chain[1].stage = "sent"
    BY <2>2, <2>3 DEF Settled, CopyAt, Stage
  <2> QED
    BY <2>2, <2>3, <2>4 DEF CopyKnows
<1> QED
  BY <1>1, BudgetInvAlways, PTL DEF Spec, CopiesWhatWasSeen
=============================================================================
