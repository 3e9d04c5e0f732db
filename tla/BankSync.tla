------------------------------ MODULE BankSync ------------------------------
(***************************************************************************)
(* The bank dialog of an account (ConnectionDialog.tsx), what store.ts     *)
(* does for it, the server's handlers (routers/connections.py) and the     *)
(* runner they call in the same process (LocalRunner, sync_runner.py).     *)
(* A login serves the accounts linked to it: they are pulled one by one    *)
(* with their references, and the bank may stop any pull to ask for a code *)
(* that the user types.  The dialog's asynchronous functions go on after   *)
(* the dialog is closed.  There is one login; its credentials and session  *)
(* are not looked into, and of the rows of a pull only whose account they  *)
(* go to: whether the ledger has them already is StatementImport's.        *)
(***************************************************************************)
EXTENDS Integers, Sequences, FiniteSets, SequencesExt, Absent, Ordering

CONSTANTS
    BankAccounts,  \* the user's accounts, numbered in their order
    BankRefs,      \* references of accounts at the bank
    BankCards,     \* cards that rows name; a row without one counts as a card of nobody's
    CardOwners,    \* of a card: the accounts whose card_tails match it best
    StartingBanks, \* bank rows there may be at the start
    MaxBankAsked   \* bound: what is asked for

ASSUME BankAssumption ==
    /\ BankAccounts \subseteq Nat /\ IsFiniteSet(BankAccounts) /\ MaxBankAsked \in Nat
    /\ \A b \in StartingBanks :
          b = [status |-> b.status, pending |-> b.pending, link |-> b.link, ref |-> b.ref]
          /\ b.status # "awaiting_sms" /\ b.link \subseteq BankAccounts
    /\ None # "awaiting_sms" /\ None \notin BankAccounts
    /\ CardOwners \in [BankCards -> SUBSET BankAccounts]

VARIABLES
    bank,        \* saved: status (None: no such login), pending account, link and ref of the accounts
    shownBank,   \* the same, in the snapshot
    parked,      \* LocalRunner._pending: the pull that waits for a code, if there is one
    bankDialog,  \* account, step, conn, field, busy and its number; or None
    runs,        \* the asynchronous functions that are under way
    pulled,      \* ghost: the pulls since the login last began, and where their rows landed
    bankAsked,   \* ghost: how much was asked for
    tangled      \* ghost: two requests overlapped, or links changed under a login

bankVars == <<bank, shownBank, parked, bankDialog, runs, pulled, bankAsked, tangled>>
serverVars == <<bank, parked, pulled>>

-----------------------------------------------------------------------------
NoLogin == [bank EXCEPT !.status = None, !.pending = None, !.link = {}]

\* _linked_accounts: in order, with their references.
LinkedAccounts(b) ==
    LET Pull(a) == [account |-> a, ref |-> b.ref[a]]
        ids == Ascending(b.link)
    IN  [i \in DOMAIN ids |-> Pull(ids[i])]

HasRefs(todo) == \A i \in DOMAIN todo : todo[i].ref # None

\* The dialog's number tells a function whether its dialog is still there.
Mine(r) == bankDialog # None /\ bankDialog.number = r.number
ToStep(r, step) == bankDialog' = IF Mine(r) THEN [bankDialog EXCEPT !.step = step, !.busy = FALSE]
                                          ELSE bankDialog

\* A function of the dialog begins, at its first request.
Begins(fn, at) ==
    /\ bankAsked < MaxBankAsked /\ bankAsked' = bankAsked + 1
    /\ runs' = runs \cup {[fn |-> fn, at |-> at, asked |-> bankAsked, number |-> bankDialog.number,
                           account |-> bankDialog.account, field |-> bankDialog.field,
                           todo |-> <<>>, pull |-> None, on |-> None]}
    /\ tangled' = (tangled \/ runs # {})
    /\ UNCHANGED <<bank, shownBank, parked, pulled>>

GoesTo(r, at) == runs' = (runs \ {r}) \cup {[r EXCEPT !.at = at]}
Pulls(r, at, todo, pull) ==
    runs' = (runs \ {r}) \cup {[r EXCEPT !.at = at, !.todo = todo, !.pull = pull]}
Ends(r) == runs' = runs \ {r}

-----------------------------------------------------------------------------
\* The dialog

IsShown(a) == shownBank.status # None /\ a \in shownBank.link

OpenBank(a) ==
    /\ bankDialog = None /\ bankAsked < MaxBankAsked
    /\ bankDialog' =
         [account |-> a, number |-> bankAsked, field |-> shownBank.ref[a], busy |-> FALSE,
          step |-> IF IsShown(a) THEN "ready" ELSE "credentials", conn |-> IsShown(a)]
    /\ bankAsked' = bankAsked + 1
    /\ UNCHANGED <<bank, shownBank, parked, runs, pulled, tangled>>

OnStep(step) == bankDialog # None /\ bankDialog.step = step /\ ~bankDialog.busy
Busy == bankDialog' = [bankDialog EXCEPT !.busy = TRUE]
Syncing == bankDialog' = [bankDialog EXCEPT !.busy = TRUE, !.step = "syncing"]

\* The account's field of the first two steps: it is not disabled.
TypeRef(ref) ==
    /\ bankDialog # None /\ bankDialog.step \in {"credentials", "ready"} /\ ref # bankDialog.field
    /\ bankDialog' = [bankDialog EXCEPT !.field = ref]
    /\ UNCHANGED <<bank, shownBank, parked, runs, pulled, bankAsked, tangled>>

\* "Connect & sync": connect, with a new login or one that is shown.
Connect ==
    /\ OnStep("credentials") /\ bankDialog.field # None
    /\ IF shownBank.status = None
       THEN /\ bank.status = None /\ runs = {}   \* bound: one login
            /\ Begins("connect", "create") /\ Busy
       ELSE /\ Begins("connect", "link")
            /\ bankDialog' = [bankDialog EXCEPT !.busy = TRUE, !.conn = TRUE]

RefDirty == bankDialog.field # shownBank.ref[bankDialog.account]

\* "Sync now": saves a changed reference first.
SyncNow ==
    /\ OnStep("ready") /\ IsShown(bankDialog.account) /\ bankDialog.field # None
    /\ IF RefDirty THEN Begins("syncNow", "save") /\ Busy ELSE Begins("sync", "sync") /\ Syncing

SaveRef ==
    /\ OnStep("ready") /\ IsShown(bankDialog.account) /\ bankDialog.field # None /\ RefDirty
    /\ Begins("save", "save") /\ Busy

Unlink ==
    /\ OnStep("ready") /\ IsShown(bankDialog.account)
    /\ Begins("unlink", "unlink") /\ Busy

Disconnect ==
    /\ OnStep("ready") /\ IsShown(bankDialog.account)
    /\ Begins("disconnect", "delete") /\ Busy

ConfirmSms == OnStep("sms") /\ Begins("sms", "sms") /\ Syncing

Retry ==
    /\ OnStep("error")
    /\ IF bankDialog.conn THEN Begins("sync", "sync") /\ Syncing
       ELSE /\ bankDialog' = [bankDialog EXCEPT !.step = "credentials"]
            /\ UNCHANGED <<bank, shownBank, parked, runs, pulled, bankAsked, tangled>>

\* handleClose: a login that waits for a code is given up.
CloseBank ==
    /\ bankDialog # None /\ bankDialog' = None
    /\ IF bankDialog.step = "sms" THEN Begins("cancel", "cancel")
       ELSE UNCHANGED <<bank, shownBank, parked, runs, pulled, bankAsked, tangled>>

\* The login is gone from the snapshot: the dialog closes itself.
Gone ==
    /\ bankDialog # None /\ bankDialog.step = "ready" /\ ~IsShown(bankDialog.account)
    /\ bankDialog' = None
    /\ UNCHANGED <<bank, shownBank, parked, runs, pulled, bankAsked, tangled>>

\* Another tab of the browser links or unlinks an account.
RelinkElsewhere(a) ==
    /\ bankAsked < MaxBankAsked /\ bankAsked' = bankAsked + 1
    /\ bank.status # None
    /\ bank' = [bank EXCEPT !.link = IF a \in @ THEN @ \ {a} ELSE @ \cup {a}]
    /\ tangled' = (tangled \/ runs # {} \/ parked # {} \/ bankDialog # None)
    /\ UNCHANGED <<shownBank, parked, bankDialog, runs, pulled>>

-----------------------------------------------------------------------------
\* The short requests: each changes the server and comes back to the dialog.

FailsAt(r) ==
    CASE r.fn \in {"connect", "sync", "sms"} -> "error"
      [] r.fn \in {"save", "syncNow", "unlink", "disconnect"} -> "ready"
      [] r.fn = "cancel" -> "closed"

Fails(r) == Ends(r) /\ ToStep(r, FailsAt(r)) /\ UNCHANGED <<shownBank, bankAsked, tangled>>

\* A request is refused, or never arrives.
RequestFails(r) ==
    /\ r.at \in {"create", "link", "save", "unlink", "delete", "cancel", "sync", "sms"}
    /\ Fails(r) /\ UNCHANGED serverVars

\* create_connection, and load
CreateConnection(r) ==
    /\ r.at = "create"
    /\ bank' = [bank EXCEPT !.status = "disconnected"] /\ shownBank' = bank'
    /\ bankDialog' = IF Mine(r) THEN [bankDialog EXCEPT !.conn = TRUE] ELSE bankDialog
    /\ GoesTo(r, "link")
    /\ UNCHANGED <<parked, pulled, bankAsked, tangled>>

\* patch_account: of a login that is there; then store.ts patchAccount, and runSync
LinkAccount(r) ==
    LET Linked(b) == [b EXCEPT !.link = @ \cup {r.account}, !.ref[r.account] = r.field] IN
    /\ r.at = "link" /\ bank.status # None
    /\ bank' = Linked(bank) /\ shownBank' = Linked(shownBank)
    /\ bankDialog' = IF Mine(r) THEN [bankDialog EXCEPT !.step = "syncing"] ELSE bankDialog
    /\ GoesTo(r, "sync")
    /\ UNCHANGED <<parked, pulled, bankAsked, tangled>>

\* saveRef
SaveReference(r) ==
    LET Saved(b) == [b EXCEPT !.ref[r.account] = r.field] IN
    /\ r.at = "save" /\ bank' = Saved(bank) /\ shownBank' = Saved(shownBank)
    /\ IF r.fn = "syncNow"
       THEN /\ bankDialog' = IF Mine(r) THEN [bankDialog EXCEPT !.step = "syncing"] ELSE bankDialog
            /\ GoesTo(r, "sync")
       ELSE Ends(r) /\ ToStep(r, "ready")
    /\ UNCHANGED <<parked, pulled, bankAsked, tangled>>

\* unlink: onClose closes the dialog there is.
UnlinkAccount(r) ==
    LET Unlinked(b) == [b EXCEPT !.link = @ \ {r.account}] IN
    /\ r.at = "unlink" /\ bank' = Unlinked(bank) /\ shownBank' = Unlinked(shownBank)
    /\ Ends(r) /\ bankDialog' = None
    /\ UNCHANGED <<parked, pulled, bankAsked, tangled>>

\* disconnect: delete_connection, and load
DeleteConnection(r) ==
    /\ r.at = "delete" /\ bank.status # None
    /\ parked' = {} /\ bank' = NoLogin /\ shownBank' = bank'
    /\ Ends(r) /\ bankDialog' = None
    /\ UNCHANGED <<pulled, bankAsked, tangled>>

\* cancel_sync, and load
CancelSync(r) ==
    /\ r.at = "cancel" /\ bank.status # None
    /\ parked' = {}
    /\ bank' = IF bank.status = "awaiting_sms"
               THEN [bank EXCEPT !.status = "disconnected", !.pending = None] ELSE bank
    /\ shownBank' = bank' /\ Ends(r)
    /\ UNCHANGED <<bankDialog, pulled, bankAsked, tangled>>

-----------------------------------------------------------------------------
\* The login: sync_connection and submit_sms, pull by pull

SyncConnection(r) ==
    LET accounts == LinkedAccounts(bank) IN
    /\ r.at = "sync" /\ bank.status # None /\ accounts # <<>> /\ HasRefs(accounts)
    /\ Pulls(r, "next", accounts, None) /\ pulled' = <<>>
    /\ UNCHANGED <<bank, shownBank, parked, bankDialog, bankAsked, tangled>>

\* LocalRunner.start closes what is parked, and asks the bank.
StartPull(r) ==
    /\ r.at = "next" /\ r.todo # <<>>
    /\ parked' = {} /\ Pulls(r, "pulling", Tail(r.todo), Head(r.todo))
    /\ UNCHANGED <<bank, shownBank, bankDialog, pulled, bankAsked, tangled>>

\* _route_rows: the only account that has the card, or else the one that is synced.
Target(card, account) ==
    IF Cardinality(CardOwners[card]) = 1 THEN CHOOSE a \in CardOwners[card] : TRUE ELSE account

\* Where the rows of a pull go, by their cards.
Landing(account) == [card \in BankCards |-> Target(card, account)]

\* _finish_account.  The batches name a login: when that is gone, nothing lands.
Lands(r, on, todo) ==
    /\ bank.status # None
    /\ pulled' = Append(pulled, [pull |-> r.pull, landed |-> Landing(on)])
    /\ Pulls(r, "next", todo, None)
    /\ UNCHANGED <<bank, shownBank, parked, bankDialog, bankAsked, tangled>>

PullReturns(r) == r.at = "pulling" /\ Lands(r, r.pull.account, r.todo)

\* The bank wants a code: the pull is parked before the row says so.
PullParks(r) ==
    /\ r.at = "pulling" /\ parked' = {r.pull} /\ GoesTo(r, "parking")
    /\ UNCHANGED <<bank, shownBank, bankDialog, pulled, bankAsked, tangled>>

SaysAwaiting(r) ==
    /\ r.at = "parking" /\ GoesTo(r, "asks")
    /\ bank' = IF bank.status = None THEN bank
               ELSE [bank EXCEPT !.status = "awaiting_sms", !.pending = r.pull.account]
    /\ UNCHANGED <<shownBank, parked, bankDialog, pulled, bankAsked, tangled>>

\* _fail: the pull is over, or the login is gone.
PullFails(r) ==
    /\ r.at \in {"pulling", "resumed"} /\ Fails(r)
    /\ bank' = IF bank.status = None THEN bank ELSE [bank EXCEPT !.status = "error", !.pending = None]
    /\ UNCHANGED <<parked, pulled>>

\* submit_sms reads the row and takes the pull out of the registry.
PendingOf(accounts) == IF bank.pending # None THEN bank.pending ELSE Head(accounts).account

SubmitSms(r) ==
    LET accounts == LinkedAccounts(bank) IN
    /\ r.at = "sms" /\ bank.status # None /\ (bank.pending # None \/ accounts # <<>>)
    /\ parked' = {}
    /\ \E pull \in parked :
          runs' = (runs \ {r}) \cup
            {[r EXCEPT !.at = "resumed", !.todo = accounts, !.pull = pull, !.on = PendingOf(accounts)]}
    /\ UNCHANGED <<bank, shownBank, bankDialog, pulled, bankAsked, tangled>>

\* Mutant of Remaining: the account that was waiting is pulled again.
RemainingToo(accounts, account) ==
    LET at == SelectInSeq(accounts, LAMBDA p : p.account = account)
    IN  IF at = 0 THEN <<>> ELSE SubSeq(accounts, at, Len(accounts))

\* The accounts after the one that was waiting; none if it is not linked any more.
Remaining(accounts, account) ==
    LET at == SelectInSeq(accounts, LAMBDA p : p.account = account)
    IN  IF at = 0 THEN <<>> ELSE SubSeq(accounts, at + 1, Len(accounts))

CodeAccepted(r) == r.at = "resumed" /\ Lands(r, r.on, Remaining(r.todo, r.on))

\* Mutant of CodeRejected: the pull is not parked again.
CodeRejectedDropped(r) ==
    /\ r.at = "resumed" /\ parked' = parked /\ GoesTo(r, "asks")
    /\ UNCHANGED <<bank, shownBank, bankDialog, pulled, bankAsked, tangled>>

\* The pull is parked again, whatever was parked meanwhile.
CodeRejected(r) ==
    /\ r.at = "resumed" /\ parked' = {r.pull} /\ GoesTo(r, "asks")
    /\ UNCHANGED <<bank, shownBank, bankDialog, pulled, bankAsked, tangled>>

\* _mark_connected
MarkConnected(r) ==
    /\ r.at = "next" /\ r.todo = <<>> /\ GoesTo(r, "done")
    /\ bank' = IF bank.status = None THEN bank
               ELSE [bank EXCEPT !.status = "connected", !.pending = None]
    /\ UNCHANGED <<shownBank, parked, bankDialog, pulled, bankAsked, tangled>>

\* The answer, and load: then the dialog asks for the code or shows the result.
LoginAnswers(r) ==
    /\ r.at \in {"asks", "done"} /\ Ends(r) /\ shownBank' = bank
    /\ ToStep(r, IF r.at = "asks" THEN "sms" ELSE "done")
    /\ UNCHANGED <<bank, parked, pulled, bankAsked, tangled>>

-----------------------------------------------------------------------------
BankInit ==
    /\ bank \in StartingBanks /\ shownBank = bank
    /\ parked = {} /\ bankDialog = None /\ runs = {} /\ pulled = <<>>
    /\ bankAsked = 0 /\ tangled = FALSE

BankUser ==
    \/ \E a \in BankAccounts : OpenBank(a) \/ RelinkElsewhere(a)
    \/ \E ref \in BankRefs \cup {None} : TypeRef(ref)
    \/ Connect \/ SyncNow \/ SaveRef \/ Unlink \/ Disconnect
    \/ ConfirmSms \/ Retry \/ CloseBank \/ Gone

BankServer(r) ==
    \/ RequestFails(r) \/ CreateConnection(r) \/ LinkAccount(r) \/ SaveReference(r)
    \/ UnlinkAccount(r) \/ DeleteConnection(r) \/ CancelSync(r)
    \/ SyncConnection(r) \/ StartPull(r) \/ PullReturns(r) \/ PullParks(r) \/ SaysAwaiting(r)
    \/ PullFails(r) \/ SubmitSms(r) \/ CodeAccepted(r) \/ CodeRejected(r)
    \/ MarkConnected(r) \/ LoginAnswers(r)

BankNext == BankUser \/ \E r \in runs : BankServer(r)

BankSpec == BankInit /\ [][BankNext]_bankVars

-----------------------------------------------------------------------------
\* When nothing is under way, the row says that a code is awaited exactly while a
\* pull is parked, and names its account; and a dialog asks for a code only then
\* (connections.py, LocalRunner, ConnectionDialog handleClose): unless requests
\* overlapped or links changed under a login.
WaitingIsParked ==
    runs = {} /\ ~tangled =>
       /\ bank.status = "awaiting_sms" <=> parked # {}
       /\ \A pull \in parked : bank.pending = pull.account
       /\ bankDialog # None /\ bankDialog.step = "sms" => parked # {}

\* A login the dialog calls done has pulled each linked account once, in order,
\* by the reference that is saved; and the rows of each pull went to the account
\* that alone has their card, all others to the account that was pulled, however
\* many codes the bank asked for on the way (_sync_accounts, submit_sms,
\* _route_rows, ConnectionDialog runSync and confirmSms): unless requests
\* overlapped or links changed under it.
PulledOnceEach ==
    bankDialog # None /\ bankDialog.step = "done" /\ ~tangled =>
       /\ [i \in DOMAIN pulled |-> pulled[i].pull] = LinkedAccounts(bank)
       /\ \A i \in DOMAIN pulled, card \in BankCards :
             pulled[i].landed[card] \in IF Cardinality(CardOwners[card]) = 1 THEN CardOwners[card]
                                        ELSE {pulled[i].pull.account}
=============================================================================
