---------------------------- MODULE BudgetWrites ----------------------------
(***************************************************************************)
(* Budget amounts in the web client: every edit is shown at once and saved *)
(* behind it.  Edits and year copies go through one chain, so the server   *)
(* sees them in the order they were made; filling a year forward and       *)
(* distributing a goal are bulk requests outside the chain; loading the    *)
(* snapshot replaces everything shown.  A change of session orphans what   *)
(* the chain still holds.                                                  *)
(***************************************************************************)
EXTENDS Integers, Sequences, FiniteSets, Functions, Absent

CONSTANTS
    Category, Year, Month,
    Amount,      \* amounts of a cell; 0 is an empty cell
    Today,       \* <<year, month>> from which a goal is distributed
    GoalTarget,  \* what a goal is to collect
    MaxOps,      \* bound: edits, copies, bulk requests, loads and session changes
    MaxSessions  \* bound: session changes

ASSUME BudgetAssumption ==
    /\ IsFiniteSet(Category)
    /\ Year \subseteq Nat /\ IsFiniteSet(Year)
    /\ Month \subseteq Nat /\ IsFiniteSet(Month)
    /\ Amount \subseteq Nat /\ 0 \in Amount
    /\ Today \in Year \X Month
    /\ GoalTarget \in Nat /\ 0 .. GoalTarget \subseteq Amount
    /\ MaxOps \in Nat /\ MaxSessions \in Nat
    /\ None \notin Nat

VARIABLES
    shown,         \* shown[c]: the amount in the client's snapshot
    saved,         \* saved[c]: the amount in the server's table
    chain,         \* budgetOperationTail: operations in order, the head runs
    bulk,          \* the request outside the chain that is under way, or None
    revision,      \* budgetRevisions: the newest edit of each cell, 0 if none
    nextRevision,  \* nextBudgetRevision
    baseline,      \* budgetBaselines: the value to go back to, None if unset
    failed,        \* failedBudgetWrites: cells whose last write failed
    epoch,         \* sessionEpoch
    token,         \* monori_token in localStorage, shared by the browser's tabs
    boundToken,    \* budgetSessionToken: the token the bookkeeping belongs to
    ops,           \* ghost: operations asked for so far
    sessions,      \* ghost: session changes so far, the source of fresh tokens
    lost,          \* ghost: cells of writes that were saved and reported failed
    overtaken,     \* ghost: cells edited while a copy onto them was under way
    raced          \* ghost: something ran beside the chain, or orphaned it

book    == <<revision, nextRevision, baseline, failed>>
session == <<epoch, token, boundToken, sessions>>
vars    == <<shown, saved, chain, bulk, book, session, ops, lost, overtaken, raced>>

Cell == Category \X Year \X Month
Plans == [Cell -> Amount]
Writes == UNION {[D -> Amount] : D \in SUBSET Cell}

\* The requests beside the chain; a load that was answered has the server's plan.
BulkRequest ==
    [kind : {"fill"}, stage : {"sent", "accepted"}, before : Plans, amounts : Writes]
    \cup [kind : {"bulk"}, stage : {"sent", "accepted"}, amounts : Writes]
    \cup [kind : {"load"}, stage : {"sent"}]
    \cup [kind : {"load"}, stage : {"accepted"}, before : Plans]

ASSUME BulkAssumption == None \notin BulkRequest

Running == chain # <<>>
Op      == Head(chain)

Copied(p, from, to) ==
    [c \in Cell |-> IF c[2] = to THEN p[<<c[1], from, c[3]>>] ELSE p[c]]

Overwritten(p, amounts) ==
    [c \in Cell |-> IF c \in DOMAIN amounts THEN amounts[c] ELSE p[c]]

-----------------------------------------------------------------------------
\* Sessions

\* resetBudgetSession: a new epoch and empty books, bound to no token.
NoBook == [rev |-> [c \in Cell |-> 0], base |-> [c \in Cell |-> None]]

\* Mutant of ResetSession: the old baselines survive.
ResetSessionForgetful ==
    /\ epoch' = epoch + 1
    /\ boundToken' = None
    /\ nextRevision' = 0
    /\ revision' = NoBook.rev
    /\ failed' = {}
    /\ UNCHANGED baseline

ResetSession ==
    /\ epoch' = epoch + 1
    /\ boundToken' = None
    /\ nextRevision' = 0
    /\ revision' = NoBook.rev
    /\ baseline' = NoBook.base
    /\ failed' = {}

\* sessionStamp: the books that hold after an operation takes its stamp; they
\* start afresh when the stored token is not the one they belong to.
Rebound == token # boundToken

Stamped ==
    [epoch |-> IF Rebound THEN epoch + 1 ELSE epoch,
     rev   |-> IF Rebound THEN NoBook.rev ELSE revision,
     next  |-> IF Rebound THEN 0 ELSE nextRevision,
     base  |-> IF Rebound THEN NoBook.base ELSE baseline,
     fail  |-> IF Rebound THEN {} ELSE failed]

TakeStamp ==
    /\ epoch' = Stamped.epoch
    /\ boundToken' = token
    /\ UNCHANGED <<token, sessions>>

\* assertCurrentSession
IsCurrent(op) == op.epoch = epoch /\ op.token = token

\* login in this tab: a fresh token, then App mounts and loads the snapshot.
SignIn ==
    /\ token = None /\ bulk = None
    /\ ResetSession
    /\ token' = sessions + 1
    /\ sessions' = sessions + 1
    /\ bulk' = [kind |-> "load", stage |-> "sent"]
    /\ UNCHANGED <<shown, saved, chain, ops, lost, overtaken>>

\* logout: the snapshot stays in memory, the books go.
SignOut ==
    /\ token # None /\ ops < MaxOps /\ sessions < MaxSessions
    /\ ResetSession
    /\ token' = None
    /\ ops' = ops + 1
    /\ UNCHANGED <<shown, saved, chain, bulk, sessions, lost, overtaken>>

\* Another browser tab signed in anew: the token changes under this one, which
\* notices when it next takes a stamp.
TokenChangesElsewhere ==
    /\ token # None /\ ops < MaxOps /\ sessions < MaxSessions
    /\ token' = sessions + 1
    /\ sessions' = sessions + 1
    /\ ops' = ops + 1
    /\ UNCHANGED <<shown, saved, chain, bulk, book, epoch, boundToken, lost, overtaken>>

\* checkAuth answers: new books under the same token, and a new user object,
\* which makes App load again.
CheckAuthAnswers ==
    /\ token # None /\ bulk = None /\ ops < MaxOps /\ sessions < MaxSessions
    /\ ResetSession
    /\ sessions' = sessions + 1
    /\ bulk' = [kind |-> "load", stage |-> "sent"]
    /\ ops' = ops + 1
    /\ UNCHANGED <<token, shown, saved, chain, lost, overtaken>>

-----------------------------------------------------------------------------
\* What the person asks for

CanAsk == token # None /\ ops < MaxOps

CopyOnto(c) == \E i \in DOMAIN chain : chain[i].kind = "copy" /\ chain[i].to = c[2]

\* Mutant of Enqueued: a new operation overtakes those that wait.
EnqueuedFirst(op) == IF Running THEN <<Op, op>> \o Tail(chain) ELSE <<op>>

\* budgetOperationTail: a new operation runs after all others.
Enqueued(op) == Append(chain, op)

\* setBudget, called by a cell whose new amount differs from the one it shows.
SetBudget(c, amount) ==
    /\ CanAsk /\ amount # shown[c]
    /\ TakeStamp
    /\ nextRevision' = Stamped.next + 1
    /\ revision' = [Stamped.rev EXCEPT ![c] = nextRevision']
    /\ baseline' = [Stamped.base EXCEPT ![c] = IF @ = None THEN shown[c] ELSE @]
    /\ failed' = Stamped.fail
    /\ shown' = [shown EXCEPT ![c] = amount]
    /\ chain' = Enqueued([kind |-> "edit", cell |-> c, amount |-> amount,
                          revision |-> nextRevision', epoch |-> epoch',
                          token |-> token, stage |-> "waiting"])
    /\ overtaken' = IF CopyOnto(c) THEN overtaken \cup {c} ELSE overtaken
    /\ ops' = ops + 1
    /\ UNCHANGED <<saved, bulk, lost>>

\* copyBudgetYear, offered for the last year only, from the year before.
CopyBudgetYear(to) ==
    /\ CanAsk /\ to - 1 \in Year /\ \A y \in Year : y <= to
    /\ TakeStamp
    /\ nextRevision' = Stamped.next
    /\ revision' = Stamped.rev
    /\ baseline' = Stamped.base
    /\ failed' = Stamped.fail
    /\ chain' = Enqueued([kind |-> "copy", from |-> to - 1, to |-> to,
                          revision |-> Stamped.next, epoch |-> epoch',
                          token |-> token, stage |-> "waiting", plan |-> shown])
    /\ ops' = ops + 1
    /\ UNCHANGED <<shown, saved, bulk, lost, overtaken>>

\* A request beside the chain; one at a time is a bound of the model.
StartBulk(request) ==
    /\ CanAsk /\ bulk = None
    /\ bulk' = request
    /\ ops' = ops + 1
    /\ UNCHANGED <<shown, saved, chain, book, session, lost, overtaken>>

\* fillBudgetForward: the amount of c for every later month of its year; the
\* snapshot read here is the one written back when the answer arrives.
FillBudgetForward(c) ==
    LET later == {d \in Cell : d[1] = c[1] /\ d[2] = c[2] /\ d[3] > c[3]} IN
    /\ later # {}
    /\ StartBulk([kind |-> "fill", stage |-> "sent", before |-> shown,
                  amounts |-> [d \in later |-> shown[c]]])

\* DistributeGoalDialog: what the target still lacks before today is spread
\* over `months` months, the first of them one larger where it does not divide,
\* and what was planned for later months is cleared.
Position(y, m) == y * Cardinality(Month) + m
Offset(c) == Position(c[2], c[3]) - Position(Today[1], Today[2])

Distribution(k, months) ==
    LET mine      == {c \in Cell : c[1] = k}
        planned   == SumFunctionOnSet(shown, {c \in mine : Offset(c) < 0})
        remaining == IF GoalTarget > planned THEN GoalTarget - planned ELSE 0
        share(i)  == remaining \div months + (IF i < remaining % months THEN 1 ELSE 0)
    IN  [c \in {d \in mine : Offset(d) >= 0 /\ (Offset(d) < months \/ shown[d] # 0)} |->
            IF Offset(c) < months THEN share(Offset(c)) ELSE 0]

\* setBudgets, from that dialog; months beyond the last year are not modelled.
SetBudgets(k, months) ==
    /\ \E c \in Cell : Offset(c) = months - 1
    /\ StartBulk([kind |-> "bulk", stage |-> "sent", amounts |-> Distribution(k, months)])

Reload == StartBulk([kind |-> "load", stage |-> "sent"])

-----------------------------------------------------------------------------
\* The chain (chainedBudgetOperation)

Stage(s) == Running /\ Op.stage = s
ToStage(s) == chain' = [chain EXCEPT ![1].stage = s]

\* The step of setBudget that runs whatever happened to the write.
DropBaseline(b, op) ==
    IF op.kind = "edit" /\ op.epoch = epoch /\ revision[op.cell] = op.revision
    THEN [b EXCEPT ![op.cell] = None] ELSE b

\* The session changed while the operation waited: it is never sent.
Orphaned ==
    /\ Stage("waiting") /\ ~IsCurrent(Op)
    /\ chain' = Tail(chain)
    /\ baseline' = DropBaseline(baseline, Op)
    /\ UNCHANGED <<shown, saved, bulk, revision, nextRevision, failed, session, ops, lost,
                   overtaken>>

\* A copy is refused while some cell's last write has failed.
CopyRefused ==
    /\ Stage("waiting") /\ IsCurrent(Op) /\ Op.kind = "copy" /\ failed # {}
    /\ chain' = Tail(chain)
    /\ UNCHANGED <<shown, saved, bulk, book, session, ops, lost, overtaken>>

\* Mutant of Send: nobody asks whether the last writes failed.
SendUnchecked ==
    /\ Stage("waiting") /\ IsCurrent(Op)
    /\ ToStage("sent")
    /\ UNCHANGED <<shown, saved, bulk, book, session, ops, lost, overtaken>>

Send ==
    /\ Stage("waiting") /\ IsCurrent(Op)
    /\ Op.kind = "copy" => failed = {}
    /\ ToStage("sent")
    /\ UNCHANGED <<shown, saved, bulk, book, session, ops, lost, overtaken>>

\* put_budget, copy_budgets: one database transaction each.
Accept ==
    /\ Stage("sent")
    /\ saved' = IF Op.kind = "edit" THEN [saved EXCEPT ![Op.cell] = Op.amount]
                                    ELSE Copied(saved, Op.from, Op.to)
    /\ chain' = IF Op.kind = "edit" THEN [chain EXCEPT ![1].stage = "accepted"]
                ELSE [chain EXCEPT ![1].stage = "accepted", ![1].plan = saved']
    /\ UNCHANGED <<shown, bulk, book, session, ops, lost, overtaken>>

Reject ==
    /\ Stage("sent")
    /\ ToStage("rejected")
    /\ UNCHANGED <<shown, saved, bulk, book, session, ops, lost, overtaken>>

\* Mutant of RolledBack: newer edits of the cell are not looked at.
RolledBackAlways(op) ==
    LET c == op.cell IN [shown EXCEPT ![c] = IF baseline[c] = None THEN 0 ELSE baseline[c]]

\* A failed write goes back to the baseline, unless a newer edit was made.
RolledBack(op) ==
    LET c == op.cell IN
    IF revision[c] = op.revision
    THEN [shown EXCEPT ![c] = IF baseline[c] = None THEN 0 ELSE baseline[c]]
    ELSE shown

\* The catch branch of setBudget.
EditFails(op) ==
    /\ IF op.token = token
       THEN failed' = failed \cup {op.cell} /\ shown' = RolledBack(op)
       ELSE UNCHANGED <<failed, shown>>
    /\ baseline' = DropBaseline(baseline, op)

EditSaved ==
    /\ Stage("accepted") /\ Op.kind = "edit"
    /\ \/ /\ IsCurrent(Op)
          /\ failed' = failed \ {Op.cell}
          /\ baseline' = DropBaseline([baseline EXCEPT ![Op.cell] = Op.amount], Op)
          /\ IF revision[Op.cell] = Op.revision
             THEN lost' = lost \ {Op.cell} /\ overtaken' = overtaken \ {Op.cell}
             ELSE UNCHANGED <<lost, overtaken>>
          /\ UNCHANGED shown
       \/ /\ ~IsCurrent(Op)
          /\ EditFails(Op)
          /\ UNCHANGED <<lost, overtaken>>
    /\ chain' = Tail(chain)
    /\ UNCHANGED <<saved, bulk, revision, nextRevision, session, ops>>

\* Mutant of EditNotSaved: a rejection breaks the chain.
EditNotSavedStuck ==
    /\ Stage("accepted") /\ Op.kind = "edit"
    /\ EditFails(Op)
    /\ lost' = lost \cup {Op.cell}
    /\ chain' = Tail(chain)
    /\ UNCHANGED <<saved, bulk, revision, nextRevision, session, ops, overtaken>>

\* The request was rejected, or its answer never arrived.
EditNotSaved ==
    /\ Stage("rejected") \/ Stage("accepted")
    /\ Op.kind = "edit"
    /\ EditFails(Op)
    /\ lost' = IF Op.stage = "accepted" THEN lost \cup {Op.cell} ELSE lost
    /\ chain' = Tail(chain)
    /\ UNCHANGED <<saved, bulk, revision, nextRevision, session, ops, overtaken>>

\* The answer holds the saved cells of the target year: they replace the shown
\* ones, except those edited after the copy was asked for.
CopySaved ==
    /\ Stage("accepted") /\ Op.kind = "copy"
    /\ shown' = [c \in Cell |-> IF c[2] = Op.to /\ revision[c] <= Op.revision
                                THEN Op.plan[c] ELSE shown[c]]
    /\ chain' = Tail(chain)
    /\ UNCHANGED <<saved, bulk, book, session, ops, lost, overtaken>>

CopyNotSaved ==
    /\ Stage("rejected") \/ Stage("accepted")
    /\ Op.kind = "copy"
    /\ lost' = IF Op.stage = "accepted" THEN lost \cup {c \in Cell : c[2] = Op.to} ELSE lost
    /\ chain' = Tail(chain)
    /\ UNCHANGED <<shown, saved, bulk, book, session, ops, overtaken>>

-----------------------------------------------------------------------------
\* Requests beside the chain

BulkStage(s) == bulk # None /\ bulk.stage = s

\* bulk_budgets and the snapshot read: one database transaction each.
BulkAnswered ==
    /\ BulkStage("sent")
    /\ IF bulk.kind = "load"
       THEN bulk' = [kind |-> "load", stage |-> "accepted", before |-> saved] /\ UNCHANGED saved
       ELSE /\ saved' = Overwritten(saved, bulk.amounts)
            /\ bulk' = [bulk EXCEPT !.stage = "accepted"]
    /\ UNCHANGED <<shown, chain, book, session, ops, lost, overtaken>>

\* What is shown once the answer has arrived.  A fill writes back the snapshot
\* it read before its request; a load shows the server's, whatever was edited.
BulkReturns ==
    /\ BulkStage("accepted")
    /\ shown' = CASE bulk.kind = "fill" -> Overwritten(bulk.before, bulk.amounts)
                  [] bulk.kind = "bulk" -> Overwritten(shown, bulk.amounts)
                  [] bulk.kind = "load" -> bulk.before
    /\ lost' = IF bulk.kind = "load" THEN {} ELSE lost \ DOMAIN bulk.amounts
    /\ overtaken' = IF bulk.kind = "load" THEN {} ELSE overtaken
    /\ bulk' = None
    /\ UNCHANGED <<saved, chain, book, session, ops>>

BulkFails ==
    /\ BulkStage("sent") \/ BulkStage("accepted")
    /\ lost' = IF bulk.stage = "accepted" /\ bulk.kind # "load"
               THEN lost \cup DOMAIN bulk.amounts ELSE lost
    /\ bulk' = None
    /\ UNCHANGED <<shown, saved, chain, book, session, ops, overtaken>>

-----------------------------------------------------------------------------
Init ==
    /\ saved \in Plans
    /\ shown = saved
    /\ chain = <<>> /\ bulk = None
    /\ revision = NoBook.rev /\ nextRevision = 0
    /\ baseline = NoBook.base /\ failed = {}
    /\ epoch = 0 /\ token = 0 /\ boundToken = None
    /\ ops = 0 /\ sessions = 0
    /\ lost = {} /\ overtaken = {} /\ raced = FALSE

Ask ==
    \/ \E c \in Cell, amount \in Amount : SetBudget(c, amount)
    \/ \E to \in Year : CopyBudgetYear(to)
    \/ \E c \in Cell : FillBudgetForward(c)
    \/ \E k \in Category, months \in 1..Cardinality(Cell) : SetBudgets(k, months)
    \/ Reload

ChainStep ==
    Orphaned \/ CopyRefused \/ Send \/ Accept \/ Reject \/ EditSaved \/ EditNotSaved
        \/ CopySaved \/ CopyNotSaved

BulkStep == BulkAnswered \/ BulkReturns \/ BulkFails

SessionStep == SignIn \/ SignOut \/ TokenChangesElsewhere \/ CheckAuthAnswers

\* A request beside a busy chain, or a session that ends under either.
Races ==
    \/ chain' # <<>> /\ bulk' # None
    \/ epoch' # epoch /\ (Running \/ bulk # None)
    \/ token' # token /\ (Running \/ bulk # None)

Next ==
    /\ Ask \/ ChainStep \/ BulkStep \/ SessionStep
    /\ raced' = (raced \/ Races)

\* The browser ends every request, and the chain runs whenever it can.
Fairness == WF_vars(ChainStep /\ raced' = (raced \/ Races))

Spec == Init /\ [][Next]_vars /\ Fairness

-----------------------------------------------------------------------------
Operation ==
    [kind : {"edit"}, cell : Cell, amount : Amount, revision : 1..MaxOps, epoch : Nat,
     token : Nat, stage : {"waiting", "sent", "accepted", "rejected"}]
    \cup [kind : {"copy"}, from : Year, to : Year, revision : 0..MaxOps, epoch : Nat,
          token : Nat, stage : {"waiting", "sent", "accepted", "rejected"}, plan : Plans]

\* The variables stay within the shapes the store gives them; only the head of
\* the chain has been sent; and a baseline is kept for edited cells alone.
TypeOK ==
    /\ shown \in Plans /\ saved \in Plans
    /\ \A i \in DOMAIN chain : chain[i] \in Operation /\ (i > 1 => chain[i].stage = "waiting")
    /\ bulk \in BulkRequest \cup {None}
    /\ revision \in [Cell -> 0..nextRevision] /\ nextRevision \in 0..MaxOps
    /\ baseline \in [Cell -> Amount \cup {None}]
    /\ \A c \in Cell : baseline[c] # None => revision[c] # 0
    /\ failed \subseteq Cell
    /\ epoch \in Nat /\ token \in Nat \cup {None} /\ boundToken \in Nat \cup {None}
    /\ ops \in 0..MaxOps /\ sessions \in 0..(MaxSessions + 1)
    /\ lost \subseteq Cell /\ overtaken \subseteq Cell /\ raced \in BOOLEAN

\* Once everything asked for has been answered, the client shows what the
\* server has saved, however many edits of a cell were under way together and
\* whichever of them failed (setBudget, store.ts:426).  Left out: cells whose
\* saved write was reported failed, cells edited while a copy onto them was
\* under way, and histories in which something ran beside the chain.
Agreement ==
    ~Running /\ bulk = None /\ ~raced =>
        \A c \in Cell \ (lost \cup overtaken) : shown[c] = saved[c]

\* A year is copied as the person saw it when asking for the copy: the chain
\* has settled every edit made before, no later one has been sent, and a copy
\* is not made over a failed edit (copyBudgetYear, store.ts:533).
CopiesWhatWasSeen ==
    [][\/ ~(Stage("sent") /\ Op.kind = "copy" /\ saved' # saved) \/ raced'
       \/ \A c \in Cell \ (lost \cup overtaken) :
             c[2] = Op.from => saved[c] = Op.plan[c]]_vars

\* Every operation of the chain is settled in the end, whatever fails and
\* whoever signs out meanwhile.
ChainDrains == Running ~> ~Running

\* What is still to be decided, in the terms of BudgetPlan: the chain, without
\* its head once the server has decided that one.
Open == IF Stage("accepted") \/ Stage("rejected") THEN Tail(chain) ELSE chain

Undecided ==
    [i \in DOMAIN Open |->
        IF Open[i].kind = "edit"
        THEN [kind |-> "edit", cell |-> Open[i].cell, amount |-> Open[i].amount]
        ELSE [kind |-> "copy", from |-> Open[i].from, to |-> Open[i].to]]

Plan == INSTANCE BudgetPlan WITH plan <- saved, todo <- Undecided

\* The chain implements the abstract plan: operations are decided one by one,
\* in the order in which they were asked for, each whole or not at all.
SavesInOrder == Plan!Spec
=============================================================================
