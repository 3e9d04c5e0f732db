# Formal models of monori

monori is a personal finance ledger: a FastAPI server over one SQLite file, a React client that
keeps a whole snapshot in memory, and a separate service that drives a browser through a bank's
login. This directory holds TLA+ models of its core logic, the TLC configurations that check them
on small instances, and TLAPS proofs of what matters most for instances of any size.

Paths below are relative to the repository root; `app/` stands for `server/app/`, `web/` for
`web/src/`.

## Inventory

| Component | State it keeps | Operations | Modelled in |
|---|---|---|---|
| Bank-sync service, `app/sync_service.py` | `PENDING`: connection → parked login (token, connector, deadline), under `PENDING_LOCK` | `/runs/{cid}`, `/runs/{cid}/sms`, `/runs/{cid}/cancel`, lifespan shutdown | `SyncService`, `LoginRegistry` |
| Ledger, `app/transfer_service.py`, `app/routers/{transactions,transfers,categories,groups}.py`, `schema.sql` | tables `transactions`, `splits`, `transfers`, `transfer_rejections`, `categories`, `category_groups` | create/patch/split/bulk-edit/delete a row; link, create, split, delete a transfer; dismiss, detect; create, delete, merge, re-kind categories | `TransferLedger` |
| Runner in the server, `app/sync_runner.py` | `LocalRunner._pending`: connection → connector, without a lock | `start`, `resume`, `cancel` | `ConnectorWorker`, `BankSync` |
| Connector worker, `app/connectors/tbank_playwright.py` | a worker thread, queues `to_worker`, `from_worker` | `sync`, `resume_sync`, `close`, `ask_sms`, `await_worker` | `ConnectorWorker` |
| Connections API, `app/routers/connections.py`, with `web/components/ConnectionDialog.tsx` | `bank_connections`: status, `pending_account_id`, links and references; the dialog's step | create, link, patch, unlink, delete, sync, sms, cancel | `BankSync` |
| Ingestion, `app/ingest.py`, `app/importer.py`, `app/routers/imports.py`, with `web/components/ImportPanel.tsx`, and `_finish_account` of `app/routers/connections.py` | counts of present rows; the rows under review; what a bank delivered | preview, check, commit; count, route and land a pull | `StatementImport` |
| Accounts API, `app/routers/accounts.py`, with `web/pages/AccountsPage.tsx` | `accounts` and their order | create, patch, reorder, delete with reassignment, reconcile | `AccountList`, `Books` |
| Budgets API, `app/routers/budgets.py`, with the budget part of `web/store.ts` | `budgets`; the chain of writes behind the page | put, bulk put, copy of a year | `BudgetWrites`, `BudgetPlan` |
| Client store, `web/store.ts` | the snapshot, optimistic edits, pages still loading, hidden rows, the session | load, fill, edit, hide, delete, sign in and out | `LedgerClient`, `BudgetWrites`, `SideTabs` |
| Budget engine, `web/engine/` | none (pure) | budget recurrence, goals, splits, analytics, collapsed transfers | `BudgetEngine`, `Analytics`, `BudgetTable`, `Books` |
| Category board, `web/pages/CategoriesPage.tsx` | the drag, optimistic order | drags, dialogs, merges | `CategoryBoard` |
| Ledger table, `web/pages/TransactionsPage.tsx`, `useWindowedRows.ts` | filters, opened rows, the rendered window | scroll, filter, open | `LedgerView` |
| Split editor, `web/components/SplitTransactionTab.tsx` | the draft parts | type, move a boundary, split evenly, add, remove, save | `SplitEditor` |
| Admin page and docked tabs, `web/pages/AdminPage.tsx`, `AdminTxTab.tsx`, `AdminSqlTab.tsx`, with `app/routers/admin.py`, `admin_sql.py` | lists, ticks, prompts | delete users and rows, run SQL | `AdminDesk` |
| Pairing rule `app/transfer_match.py`; workbook `app/workbook/`; bootstrap `app/db.py`; hashing, cookies, e-mail; rendering; CI and deployment | — | — | not modelled |

What is hard in each, and what makes it correct:

- **Bank-sync service.** FastAPI runs each handler in a thread of its own. A handler locks
  `PENDING` briefly, then closes connectors and drives a browser for minutes without the lock, then
  locks again. In between its entry may expire, be cancelled or be replaced. Correct means: one
  live login per connection and at most `PENDING_CAPACITY`; a login ends once, with one outcome; a
  connector is closed by one thread, is not parked after it was closed, and is not forgotten while
  open; every request is answered.
- **Ledger.** Handlers run in threads over one database file. Some take SQLite's write lock before
  they read (`begin_write`), others only with their first write. Transfers are stored twice, as a
  row of `transfers` and as a pointer in both legs, next to cascades and foreign keys. Correct
  means: the two copies agree, a split transaction is counted once, its parts add up, categories
  have the sign of what is filed under them, a transfer stays as it was linked until it is undone,
  and every transfer can be undone.
- **Runner, worker, connections.** The runner's dictionary is touched by any thread; a row of
  `bank_connections` is read before a login that takes minutes and written afterwards; whoever
  holds a connector talks to its worker through the same two queues. Correct means: a connector is
  in the hands of one, its queues never mix answers up, the status says that a code is awaited
  exactly while a login is parked, and a finished login pulled each linked account once, each row
  landing on the account that owns its card.
- **Ingestion.** Statements overlap and repeat rows, and are checked and committed in separate
  requests, which may overlap, be given up on and be sent again; a commit counts what is there before
  it holds the write lock; the same operations also arrive from the bank, under other accounts and
  wordings. Correct means: a repeated statement inserts nothing, a pull repeats nothing that came
  through another door, no new operation is held back.
- **Client store.** Every edit shows at once and is saved behind the page; answers are late, lost
  or in another order; a failed edit is rolled back; rows are paged by offset while rows come and
  go; sessions end under all of it. Correct means: once everything is answered the page shows what
  the server holds, a failed edit does not undo a newer one, the history is complete.
- **Budget engine.** Some ten derived tables count the same rows, each by a rule of its own for
  transfers, splits, refunds and debts. Correct means: no kopeck is lost, and they agree.
- **Pages.** They keep what was clicked while what it was about changes: an order while a card is
  dragged, ticks while rows are deleted, a prompt while the text is edited. Correct means: what is
  done is what was confirmed, and what is shown in the end is what is saved.

`PROJECT.json` lists every component with its status, and every hazard at its line.

## Modules

| Module | Extends | Role |
|---|---|---|
| `LoginRegistry` → `SyncService` → `MCSyncService` | | the abstract registry of logins; the service that implements it; its instance |
| `TransferLedger` → `MCTransferLedger` | | the server's ledger; its instance |
| `BudgetPlan` → `BudgetWrites` | | what saving a budget promises; the client's chain that implements it |
| `LedgerClient` | | the rows a browser holds |
| `MCEditing` | `BudgetWrites`, `LedgerClient` | the two sides of the store that edit, composed |
| `Ordering`, `BudgetEngine` → `Analytics` → `BudgetTable` → `Books` | each the one before | the pure engine, what pages derive from it, and books that change under it |
| `LedgerView` | `Analytics` | the table of rows and its window |
| `SideTabs`, `CategoryBoard`, `SplitEditor`, `StatementImport`, `AccountList`, `BankSync`, `AdminDesk`, `ConnectorWorker` | | one part of the program each |
| `MCWorkspace` | the last ten | their instance; `part` says which of them moves |
| `LoginRegistryProofs`, `SyncServiceProofs`, `TransferLedgerProofs`, `LedgerClientProofs` | the module they are named for | theorems |
| `EditingProofs` | `MCEditing`, `LedgerClientProofs` | theorems about the budget's side of the store, and about both sides |
| `WorkspaceProofs` | `ConnectorWorker`, `BankSync`, `StatementImport`, `AdminDesk`, `SplitEditor`, `SideTabs`, `AccountList` | theorems about these parts of the workspace |
| `PagesProofs` | `Books`, `LedgerView`, `CategoryBoard` | theorems about what pages draw and the board |
| `FoldLemmas` | `Ordering` | lemmas about sums, sorting and filtering, for the others |
| `Absent` | | the constant `None` for null and undefined |

"→" reads "is implemented or extended by". The refinements are `SyncService!Registry` and
`BudgetWrites!Plan`.

## Plan

All steps of the plan are done, in this order: the service and its registry; the server's ledger;
the client store (`BudgetWrites`, `LedgerClient`); the engine and `Books`; the pages; bank logins
(`BankSync`, `ConnectorWorker`); the admin desk; proofs. What would
come next: proofs about the engine's recurrences; overlapping reconciliations; dismissals while detection runs;
a second budget page.

## LoginRegistry, SyncService

`SyncService` is `app/sync_service.py`. A locked block of a handler is one action; what happens
between two locked blocks interleaves freely with other threads. A request is a member of `Reqs`,
served once, by the thread with the same name. `/runs` creates a connector and a `RunToken` that
stay together for good, so the request that made them names both (`run`).

| Code | Model |
|---|---|
| `PENDING[cid]` with token, connector, `expires_at` | `PENDING[c]`, a record of run and deadline, or `NoSession` |
| the local list of connectors to close | `stale[r]` |
| `_reserve`: expire, replace, compare with the capacity, register | `StartRun`, `StartRunRefused` (429) |
| `submit_sms`: expire, pop, put back | `SubmitSms`, `SubmitSmsRefused` (409) |
| `cancel_run` | `CancelRun` |
| the loops around `_close_connector`, then the call of the connector or the answer | `CloseConnector`, `Proceed` |
| `SmsRequiredError` → `_park_if_owned` | `RunParks` |
| a result or `ConnectorError` → `_release_if_owned` | `RunEnds` |
| any other exception | `RunCrashes` |
| `close_all_pending` in the lifespan hook | `Shutdown`, once accepted requests are answered, as uvicorn does |
| `monotonic()` | `now`, advanced by `Tick` |

`LoginRegistry` is the promise behind it: a run is admitted into the only place of its connection,
and ends once, finished by itself or revoked by others. There are no threads, locks, deadlines or
replies in it. `SyncService!Registry` instantiates it with the refinement mapping `Phase`: a run is
live while `PENDING` holds it, finished when one of its threads reported an outcome, revoked when
it was registered and is neither.

The properties, in `SyncService.tla`: `WithinCapacity`, `ParkedIsOpen`, `OneCloser`, `OneOutcome`
(invariants), `OnlyRightfulEviction`, `OnlyRefusedSmsLeaks` (what a step may never do),
`EveryRequestAnswered` (liveness), `ImplementsRegistry` (refinement).

The module docstring (`sync_service.py:9-10`) says a parked login lives "until the code arrives …,
the run is cancelled, or it is replaced by a new run"; the code also drops it at its deadline, and
`OnlyRightfulEviction` counts the deadline among the rightful reasons.

**Fairness.** `FairSpec` assumes weak fairness of `Step(r)` for each accepted request: its thread is
scheduled, and a connector returns or raises, because the browser's navigation and default timeouts
and the bounded number of login steps limit every wait. Nothing is assumed of clients (a request
need not arrive), of the clock or of the shutdown.

**Bounds.** Three requests on two connections with room for one login: enough for a login, its
successor and a late `/sms` or a competitor for the place. Deadline 1 and clock bound 1: a login
may expire at any point after it was registered. The clock bound limits only the number of ticks.

## TransferLedger

One user's ledger. A row of `transactions` with its `splits` is one record; parts are kept as one
total per category, which is all that any property tells apart. `transfers`, `rejections` and
`categories` (each with the type of its group) are the tables of the same names. The two
constraints that drive behaviour, `ON DELETE CASCADE` and the foreign keys, are `DeleteRows` and
the guards that look at `categories`. Ids of rows follow SQLite (`INTEGER PRIMARY KEY`: the largest
in use plus one, so ids come back after a deletion); transfer ids are never issued twice while
anything remembers them.

A handler runs on a thread with a connection of its own. If it calls `begin_write` first, or if its
constraints make its early reads harmless, it is one action. These write what they read without
the lock, and are several actions with what was read in `job[p]`:

| Handler | Actions |
|---|---|
| `create_transaction` | `ReadCategory`, `CreateTransaction` |
| `merge_category` | `ReadKinds`, `MergeCategory` |
| `delete_transfer` | `ReadTransfer`, `SplitTransfer` |
| `delete_transaction` | `FindTransfer`, `ReadFoundTransfer`, `DeleteTransaction` |
| `run_detection` | `FindPairs`, `LinkPairs` |
| any of them, refused by the database | `Fails` |

One action each: `PatchTransaction`, `ReplaceSplits`, `BulkDelete`, `BulkCategorize`,
`CreateTransfer`, `Link`, `Dismiss`, `DeleteWithLegs`, `CreateCategory`, `DeleteCategory`, and
`Retype` (`patch_group` with a kind, `patch_category` with a group). A request refused with 4xx is
rolled back and is not a step. `link`, `split`, `detach_leg` are the operators `Linkable` and
`LinkAll`, `Detached`, `TransfersOf`.

With one member in `Threads` requests come one at a time; with two they overlap in every way the
database allows.

The properties: `PointersAgree` (a row carries the id of a transfer exactly if it is one of its two
legs), `PartsAddUp`, `CountedOnce`, `TransfersStand` (a transfer stays as it was linked, the same legs
and the same saved categories, until it is split or deleted, and no leg passes from one transfer to
another, whatever overlaps), `SignsGuarded`, and one that the documentation states and the code does
not keep, `CanBeSplit`.

**Bounds.** Two kopecks is the smallest amount that can be split, and amounts of both signs are
needed for a transfer. Two transactions are one transfer; three allow a leg to be linked again to
another row. Two categories are a merge, or one of each kind. `FewRows` keeps a third transaction and a
second category apart: `ledger_requests` has either of them, not both. `FewIds` keeps, in
`ledger_overlap`, a second category and the use of both transfer ids apart: `TransfersStand` needs two
transfers that compete for a leg, `PartsAddUp` two categories. `Divisions` are all splits of an
amount. `MaxRejections` bounds dismissed pairs. Accounts, transfer ids and threads are
interchangeable and are reduced by symmetry, where no liveness is checked.

## BudgetPlan, BudgetWrites, LedgerClient (`MCEditing`)

`BudgetWrites` is `setBudget`, `copyBudgetYear`, `fillBudgetForward`, `setBudgets`, `load` and the
session functions of `web/store.ts`, with `routers/budgets.py` behind them.

| Code | Model |
|---|---|
| `snapshot.budgets`, table `budgets` | `shown`, `saved` |
| `budgetOperationTail` | `chain`; its head is under way (`stage`) |
| `budgetRevisions`, `budgetBaselines`, `failedBudgetWrites` | `revision`, `baseline`, `failed` |
| `sessionEpoch`, `monori_token`, `budgetSessionToken` | `epoch`, `token`, `boundToken` |
| fill forward, goal distribution, reload: requests outside the chain | `bulk` |

`BudgetPlan` is the promise: edits and copies are decided one at a time, in the order they were
asked for, whole or not at all. `SavesInOrder` is `Plan!Spec`, with `plan <- saved` and the
undecided part of the chain for `todo`. `Agreement`: once all is answered, the page shows what is
saved. `CopiesWhatWasSeen`: a year is copied as the person saw it. `ChainDrains`: every operation
is settled.

`LedgerClient` is the rows: `load`, `fillTransactions`, `addTransaction`, `updateTransaction`,
`replaceTransactionSplits`, `deleteTransaction`, `deleteTransferWithLegs`, `hideTx`, `unhideTx`,
`loadHiddenTx`, and what the server does with them. Edits of a row have revisions per field, hides of a row a chain; pages of history
are addressed by offset. `LedgerAgrees`, `HistoryComplete`, `NewerEditsKept`, `HistoryEnds`, and
`InsertsAbsorbed`, which the comments promise and the code does not keep.

What the code does not settle is kept out of the properties by ghosts that are named where they are
set: writes that were saved and reported failed (`lost`, `doubt`), a copy over cells edited
meanwhile (`overtaken`), something that ran beside the chain (`raced`), rows that moved under the
pages (`shifted`).

**Fairness.** `Fairness` and `LedgerFairness` are weak fairness of what the browser does by itself:
it ends every request, with an answer or an error, and runs the continuation. Nothing is assumed of
the person, of the server's answer or of the order of answers.

**Bounds.** Three operations on a budget of one category, two years of two months and amounts 0 to
2; one change of session. Two edits of one cell and a copy, or an edit, a failed edit and a
sign-out, are the histories that matter, and each needs at most three. Three rows, of which two are
a transfer, a light load of one row and pages of one row, so that two pages must follow; two
actions of the person while they do.

## The engine and the pages (`MCWorkspace`)

Ten parts share no state; `part` says which of them a behaviour moves, so that one run checks them
without the product of their states.

- **`BudgetEngine`, `Analytics`, `BudgetTable`, `Books`.** The engine as operators and recursive
  functions over a snapshot (`books`); `Books` changes the snapshot by the store's operations and
  recomputes what the pages show. `MoneyConserved`: over all years, every kopeck of the
  accounts is in an envelope, or free to be budgeted, or in a row that no envelope counts. `EnvelopesAreBestRuns`: the recurrence with its
  forgiven debts equals a closed definition, the best run of months that ends now. `PagesAgree`: every
  chart and the budget page, computed each in its own way, agree. `RowsShownOnce`: collapsed
  transfers show each row once.
  Instance: seven starting rows (income, expense, refund, split, transfer, goal), three years of two
  months, four categories, any two operations.
- **`SideTabs`.** Sessions and docked tabs, mirrored in `localStorage`, with late answers about
  earlier sessions. `TabsStayWithSession`.
- **`CategoryBoard`.** Drags, dialogs, one or two requests behind a drop. `DropLandsInSlot` (a step
  property: the card is where it was let go), `BoardAgrees`.
- **`SplitEditor`.** `TypingKeepsTheSum`: an amount typed, through its prefixes, leaves the draft
  fully assigned as soon as what is left for the part that takes the difference can be shown.
- **`StatementImport`.** Preview, reassignment, duplicate checks that overtake each other, commits,
  and the pulls of a bank. `import_commit` takes no lock before it counts, so a commit is two actions:
  `CountsFirst` reads the copies of the first account that has anything new, or passes over one that
  has nothing, and `CommitDone` writes what it found missing; the accounts after the first are counted
  under the lock that the first INSERT took. A commit the tab gave up on (`CommitGivenUp`, `Close`) stays
  under way and may be handled after the next. A pull reads the day counts of every account before
  the lock (`BatchCounts`), then drops what is present under any account or wording, routes the rest to
  the account that owns each card, and counts per account once more under the lock (`BatchLands`).
  `ImportsCountCopies`: nothing new is held back, and repeated commits insert no more copies than one
  reviewed statement has (`owed`), besides what other commits inserted between the count and the write
  of one (`behind`). `PullsRepeatNothing`: the copies of a bank operation are never more than imports
  inserted or one pull delivered (`due`). Without the allowance of `behind`, which is what the docstrings
  promise, the first is `DoubleSubmitSafe`, and the code does not keep it; nor does it keep
  `StatementImportedInFull`. `misflagged` excepts flags after a check failed.
- **`AccountList`.** Order, archiving, deletion with reassignment. `AccountsAgree`.
- **`LedgerView`.** `ViewIsCovered`: whatever is filtered or opened while rows arrive, every
  row on the screen is rendered, unless more was scrolled within a frame than is rendered beyond the
  screen.
- **`BankSync`.** The dialog, the handlers and the runner of one connection. A login pulls the
  linked accounts in order and may stop for a code at any of them. What a pull delivers is known by the
  cards of its rows: `Landing` sends each card to the account that alone owns it, and the rest to the
  account that was pulled. `WaitingIsParked`, `PulledOnceEach`. `tangled` excepts requests that overlap (two tabs, a cancel during a sync) and
  links that change under a login, where the code gives no such promise.
- **`ConnectorWorker`.** Threads that call the runner, and the worker behind the two queues.
  `HandsOfOne`: a connector is held by the dictionary or by one request; a code goes to a worker
  that waits for it and has nothing else to say. `replaced` excepts connectors that a second,
  overlapping `start` parked another one over.
- **`AdminDesk`.** The admin page and the tabs that outlive it. `AdminPageAgrees`,
  `ActsAsConfirmed`.

Bounds are the `Max…` constants of `Workspace.cfg`: as many requests, steps or strokes as it takes
two of them to overlap and a third to follow (two entries in the books, two requests of the board
and the accounts, four of bank, admin, worker and import, six moves of the tabs). Four steps of the
import are a file, a commit, a second commit of it and something written beside them.

The ghosts `tangled`, `replaced`, `raced`, `swapped` and `misflagged` each name a case in which the
code does not keep what the property says of the others. The hazards in `PROJECT.json` that are about
exactly such a case list no property, or say in a note that it is left out.

`Editing` and `Workspace` switch deadlock checking off: a person may stop, and the bounds end every
history. No other run does.

## Runs

| Run | Instance | Shows |
|---|---|---|
| `sync` | 3 requests, 2 connections, capacity 1 | all properties of `SyncService` above, the refinement and, under `FairSpec`, that every accepted request is answered |
| `sync_leak` | 2 requests, capacity 2 | finding: `ReleasedAtShutdown` fails |
| `ledger_overlap` | 2 threads, 2 transactions, 2 accounts, 2 expense categories or 2 transfer ids (`FewIds`) | types, `PartsAddUp` and `TransfersStand`, whatever overlaps (kinds do not matter to them) |
| `ledger_requests` | 1 thread; 3 transactions and a dismissed pair, or 2 categories of any kind (`FewRows`) | `PointersAgree`, `CountedOnce`, `SignsGuarded` |
| `ledger_dangling` | 2 threads | finding: `PointersAgree` fails |
| `ledger_stuck_transfer` | 1 thread | finding: `CanBeSplit` fails |
| `editing` | as above | types, `Agreement`, `CopiesWhatWasSeen`, `SavesInOrder` (refinement), `LedgerAgrees`, `HistoryComplete`, `NewerEditsKept`, and under fairness `EditsSettle` (`ChainDrains`, `HistoryEnds`) |
| `ledger_insert` | the ledger side alone | finding: `InsertsAbsorbed` fails |
| `workspace` | ten parts, one per behaviour | the properties listed above |
| `reconcile` | the books alone | finding: `ReconciledMatches` fails |
| `import_repeats` | the import alone | finding: `StatementImportedInFull` fails |
| `import_double_submit` | the import alone | finding: `DoubleSubmitSafe` fails |

Every property of a passing run has a mutant in `PROJECT.json`: a definition of the model changed
the way a plausible bug would change the code, under which TLC finds the property violated.

## Findings

- **A refused `/sms` forgets expired connectors** (`sync_leak`). `submit_sms` deletes every expired
  entry, then raises 409 if its own connection has none, before the loop that closes what it
  deleted. Neither a later request nor `shutdown` knows those browsers any more.
  `OnlyRefusedSmsLeaks` shows that it is the only leak of this kind: in particular `_reserve`, which
  also raises after deleting, has deleted nothing by the time the capacity is exhausted.
- **A dangling `transfer_id`** (`ledger_dangling`). `delete_transaction` looks for the transfer
  without the write lock; a link that commits in between is cascaded away and its other leg keeps
  the pointer, the state the docstring of `detach_leg` sets out to prevent.
- **A transfer that can no longer be undone** (`ledger_stuck_transfer`). The categories saved in
  `transfers` are no foreign keys; after such a category is deleted or merged, splitting the
  transfer or deleting a leg breaks the foreign key of `transactions` and answers 500.
- **A row inserted while history loads hides another** (`ledger_insert`). A restarted fill takes
  the number of loaded rows for its offset; if the new row is older than rows not loaded yet, the
  page at that offset skips one. A row that is unhidden meanwhile does the same. The comments of `fillTransactions` and `addTransaction` promise the
  contrary.
- **Reconciling an account with a split transaction misses the balance** (`reconcile`). The
  server's sum leaves out rows without a category, and so split ones; the client's balance counts
  their parts.
- **Copies of an operation are skipped twice** (`import_repeats`). The panel leaves out the rows
  that were flagged, and the commit skips as many again of those that are left.
- **A double submit imports twice** (`import_double_submit`). `commit_rows` reads
  `existing_hash_counts` (`ingest.py:155`) in autocommit, and only its first INSERT (`ingest.py:165`)
  takes the write lock. Two commits that overlap, or a retry that overtakes a request the browser gave
  up on, both find nothing and both insert, although `import_commit`'s docstring (`imports.py:442`) says
  "a double-submit can't create duplicates" and `ingest.py:7` says the same of a re-submit.

### Seen while modelling, without a run of their own

These follow from the models' guards, are excepted by a ghost, or lie outside a model.

- Ledger: legs of a transfer can be categorized, through `PATCH` and through the bulk action, although
  `docs/data-model.md:274` says this is excluded by construction. A merge or a new row may meet a
  category whose kind was changed after it was compared; `SignsGuarded` is checked for requests one at
  a time. When requests overlap, detection merges a pair that is dismissed while it runs (`link` does
  not look at rejections), although `schema.sql:143` and `docs/accounts.md:69` say that a dismissed pair
  is never offered again; no property is about dismissals.
- Store: a merge of categories leaves the parts of split rows on the old category until a reload;
  deletions and date edits do not restart a fill as insertions do; the failure of a superseded load
  clears `txProgress` while the newer one runs; a late answer of `authMe` after a sign-out, or hidden
  rows that arrive after it, are taken for the current session's.
- Budget page: an archived category that holds money is not listed, although the comment at
  `BudgetPage.tsx:92` says hiding money would be worse; the selected cell survives a change of year.
- Board: a goal dragged out of its group keeps its target on the client until the next load.
- Accounts: an order that could not be saved stays on the page; a drag uses an index that a
  deletion may have shifted; `createAccount` writes back a snapshot it read before its request.
- Import: a check that fails leaves the flags of the old account; two previews out of order leave
  the rows of the earlier file.
- Connections: a sync, a cancel and a code that overlap leave the row at `awaiting_sms` with
  nothing parked, or the reverse; closing the dialog while it syncs, or changing the credentials,
  leaves a login parked; a server restart leaves the row at `awaiting_sms`.
- Worker: between an empty queue and `is_alive` the worker may report its result and end, and
  `await_worker` then reports "stopped without a result" for a login that succeeded.
- Admin: a click in the history, or typing during a run, makes "Apply write" send a statement the
  server never refused (`AdminSqlTab.tsx:36` says a write is refused once first); a reload that fails
  leaves the page broken until it is entered again; SQL writes do not refresh the transactions tab.
- `components/ImportDialog.tsx` is not used by any page.

## Proofs

`SyncServiceProofs` proves, for any set of requests and connections, any capacity and any deadline
(`SyncServiceAssumption`):

- `InvHolds`: `Spec => []IInv`. `IInv` adds to the type invariant and the four invariants two
  facts that make them inductive. `SessionsAreRuns`: an entry of `PENDING` belongs to a run for that
  very connection, so "the entry of my connection has my token" identifies the login.
  `ThreadsAreSound`: a thread's locals agree with how far it is; without it a `/sms` thread could
  hold a token of another connection, or a thread not yet started could own connectors to close.
- `TypeCorrect`, `CapacityHolds`, `ParkedStaysOpen`, `ClosedByOne`, `OutcomeIsUnique`: its parts.
- `LeaksOnlyOnRefusedSms`, `EvictionIsRightful`: the action properties, from the same invariant.
- `Refinement`: `Spec => ImplementsRegistry`, each action mapped to `Admit`, `Finish`, `Revoke` or a
  stutter.

`LoginRegistryProofs` proves of the abstract registry `ExclusiveHolds` (one live login per
connection, never more than the capacity) and `EndedStays` (a login that ended stays ended), which
the service inherits through `Refinement`.

`TransferLedgerProofs` proves `InvHolds` and `PointersHold` (`PointersAgree`), for tables of any
size, under the hypothesis that there is at most one thread. The finding `ledger_dangling` shows
that the hypothesis is needed. The argument: four lemmas say what the building blocks do to tables
that agree (`DetachedAgrees`, `DeletionAgrees`, `LinkAgrees`, `SamePointers`); each handler has a
lemma that reduces it to one of them. What makes the invariant inductive is `ReadIsCurrent`: what
the thread has read and not yet acted upon is still what the tables hold.

`TransferLedgerProofs` goes on to prove five facts about the rows of the ledger. `TypesHold` (`TypeOK`),
`PartsAlwaysAddUp` (`PartsAddUp`) and `TransfersAlwaysStand` (`TransfersStand`) need no hypothesis:
however many requests overlap, a stale row still has the fields of a row, every way to change the
parts of a split leaves their sum alone, and no handler writes a transfer it did not make but to
remove it, since what a link checks of its legs it checks under the lock. Two assume one thread, like `PointersHold` and on top of it. `CountsOnce` (`CountedOnce`): a leg that
`split()` gives its category back still points to its transfer, so it is no split; `CountedInv` adds
that the two categories a merge has read exist when it moves the parts (`KindsAreCurrent`).
`SignsAreGuarded` (`SignsGuarded`) is a step property that rests on the same fact: what was read and
compared is still so when it is acted upon.

`LedgerClientProofs` is about the rows a browser holds, for any rows, any page size and any number
of requests. `LedgerTypes`: the shapes (`Shape`), among them that one load at most is current and
that history is said to load only while something can end it. `EditsKept` (`NewerEditsKept`) is the
step property of failed edits. `LedgerAgreement` (`LedgerAgrees`) is the main one. Its invariant
`AgreementInv` speaks of one row at a time (`RowInv`), of every row not in `doubt`: a copy on its way
to the page is the server's (`Images`) and none is on its way while a request about the row is open
(`Alone`); with no such request the page shows the server's row (`Rested`); with one, how page and
server differ is fixed by its kind and stage (`Out`); several are a chain of hides and unhides, whose
first is the only one that may have left and whose last is what the page shows (`Chained`). Every
action is shown to leave the rows it does not name alone, and one row's invariant is then followed
through the requests about it (`Of`).

`HistoryLoaded` (`HistoryComplete`) rests on `LedgerAgreement`: that no row moved under the pages
(`Clean`) says nothing of rows whose place on the page is not known. Its invariant `History` says, at
every moment of a load and a fill that may be restarted, superseded or failing, why the fill cannot
stop too early: the total is at least the number of rows it counts (`CountsAll`), so a list that is
full holds everything; what has been loaded, put aside by the person or not, is newer than what has
not (`InOrder`); no page begins behind a row that is not loaded (`FillReaches`: the offset is at most
the `Rank` of each); an answer that is under way holds what the server holds (`Fresh`); and when nothing
loads, nothing is left to load. Only a row asked for twice at once, by a hide and an unhide that are
both open (`Braided`), is left out of `HistoryInv`: it stays so until one of the two is answered, and
that answer restarts the fill while the other is open, or rolls a newer choice back, so the rows are
then `shifted` or in `doubt` (`BraidedStays`).

`EditingProofs` is about `MCEditing`. `EditingTypes` (`EditingTypeOK`) and `BudgetTypes` are types.
`PlanImplemented` (`SavesInOrder`) is the refinement `BudgetWrites!Plan`: each step of the chain is
`Ask`, `Decide` or a stutter of `BudgetPlan`, and a bulk request its `BulkWrite`, because only the head
of the chain can have been decided (`Shapes`). `AgreementHolds` (`Agreement`) rests on an invariant
about one cell at a time (`Settled`), which holds as long as nothing `raced`: an edited cell shows the
amount of the newest edit of it in the chain (`BooksOfCell`), and what the server holds is the baseline
while an edit of the cell is open, and what is shown when none is (`SavedOfCell`), but for cells that
are `lost` or `overtaken`. `CopiesProved` (`CopiesWhatWasSeen`): what a waiting copy recorded of a source
cell is the amount of the newest edit before it in the chain, or else what is saved (`CopyKnows`); at
the head of the chain only the latter is left.

`WorkspaceProofs` is about seven parts of the workspace, one section each.

- `HandsHeldByOne` (`HandsOfOne`), for any connectors and any number
  of overlapping requests. `HandsOfOne` alone is not inductive: that the queue holds one message at
  most depends on how far the request that holds the connector has come. `IInv` says so: `OneHolder`,
  where each request stands against its worker (`Stage`), that what is parked asks and has nothing
  else to say (`Parked`), and what a connector that nobody holds can still be doing (`Loose`).
- `AwaitedIsParked` (`WaitingIsParked`), for any accounts, references and
  number of requests. The property speaks of moments when nothing is under way; `Orderly` extends it
  to every stage of the one request that may run while nothing is `tangled`. Assumed of the start
  (`BankAssumption`): no row is left at `awaiting_sms`, as a restarted server may leave it.
- `PulledInOrder` (`PulledOnceEach`), for any bank accounts and any number of requests. Of the one
  run that may be under way while nothing is `tangled`, `PullInv` says at each stage that what has
  landed is that of the first so many of the linked accounts in the order they are pulled, each card's
  rows on the account that owns the card (`LandsByCard`), the one asked for or parked is the next, and `todo` is what comes after it; nothing is said once the dialog was closed, when
  the links may be changed under the run. That the order holds each account once rests on `Places`.
- `CopiesCounted` (`ImportsCountCopies`), for any statements, accounts
  and number of steps. The step that matters is about the flagging itself, for statements of any
  length (`FlaggedAtMostHeld`): the flagged copies of an operation are at most those the account
  holds, because the copies before the last flagged one are all different positions. `Answers` makes
  it inductive: an answer not overtaken is about the rows the panel still shows. Of repeats, what a
  commit counted is at least what commits had inserted by then (`LookBehind`), so that what it inserts
  beyond its statement is what others inserted since (`CommitInserts`).
- `PullsTakenOnce` (`PullsRepeatNothing`), for any statements, accounts, wordings and number of steps.
  Of the rows with one key, those a pull keeps are at most the rows less the copies it counted, since
  kept rows are told apart by how many come before them (`KeptFew`); what lands on all accounts together
  is at most what was kept, because each row is routed to one place (`BroughtFew`, from `SumOfPlaced` of
  `FoldLemmas`); and what commits insert raises the copies of a key by just as much (`OfKeyAdds`).
- `DoneAsConfirmed` (`ActsAsConfirmed`), for any users, rows, statements and
  number of requests: one statement runs at a time (`OneRun`), it and the prompt are about the text as
  it stands unless it was changed under them (`Honest`, `Prompted`), and an armed button is about the
  rows that are ticked (`Ticked`).
- `PageAgrees` (`AdminPageAgrees`), for any users, statements and number of requests, and any finite
  set of rows. The property speaks of moments when all is answered; `DeskInv` says what is known before:
  a row or user the page still shows although it is gone is owed to it, by an answer of a docked tab
  not yet told (`Untold`) or by a list asked for again, a later answer under way shows no more than an
  earlier one (`Ordered`), and so each list the page holds, and the opened user, is as saved or will be
  (`ListsKnown`, `UserKnown`).
- `TypingSums` (`TypingKeepsTheSum`), for any amounts and any number of parts. The property is about a
  draft; the invariant `SplitInv` relates it to the one remembered as fully assigned: while a single
  field is typed in, the draft differs from what is remembered in that field and in the part that
  takes the difference, nowhere else (`DiffersAt`), so that the sums of the two differ by what these
  two fields do (`SumTwoChanges`).
- `TabsStayApart` (`TabsStayWithSession`), for any people, subjects and widths. Who is signed in, what
  is stored and what the answers under way are about may disagree for long; what keeps one session's
  tabs from the next is that nobody can sign in while any is open (`EmptyAtLogin`). That the tabs do not
  overlap is a fact about the sums of their widths (`NoneOverlaps`).
- `AccountsSettle` (`AccountsAgree`), for any accounts and number of calls. The property speaks of
  moments when every call is answered; `Ahead` says by what the page is behind the server before: one
  deletion at most, accepted and not yet answered (`DeletesAhead`), what was archived
  (`ArchivedAhead`), and an account created alone (`CreatesAlone`), while an order asked for is the one
  shown as long as it lists the accounts that are saved (`OrderAsked`).

`PagesProofs` is about what pages draw, and about the board of categories.

- `NoGapInView` (`ViewIsCovered`), for any rows, filters and sizes in pixels. `ViewInv` ties the window to
  the moment it was measured: as long as the effect has run for the present count, the window is what
  `Measured` gives for that count and the place scrolled to then. The rest is arithmetic of quotients
  (`MeasuredCovers`), and that the items are a sequence at all (`ItemsAreSequence`).
- `TableShowsOnce` (`RowsShownOnce`), for any books. The invariant `Shaped` is modest (rows have numbers as
  ids and amounts, after every operation); the argument is about the table. Each row makes nothing,
  itself or its transfer with the legs that are opened (`MadeIs`); what two rows make is never the same
  (`MadeApart`), for which a leg must not go out and come in at once (`LegsApart`); and the first row
  of a transfer makes it (`FirstExists`). That sequences put one after the other hold what is in them, each in
  one place, is `FlattenHas` and `FlattenOnce`.

- `PageShowsTheBoard` (`BoardAgrees`), for any board and any number of calls. The property speaks of
  moments when nothing is under way; `BoardInv` says before that, of the one call there can be while
  nothing has `crossed`, how far the page and the server are apart, by the request it is at and what
  became of it (`CallInStep`): what a dialog asks for is not shown until it is saved, and showing it
  will make the two alike (`AskInStep`); a drop is shown at once, its group and goal not yet saved or
  saved but not in order (`PatchInStep`), or in their places but not in order (`ReorderInStep`); what is
  read after a failure is what is saved. The two boards need not be equal, only `Alike`: the page gives
  what was just created the sort `Late`, the server one more than the last, and targets may differ.
  So the order must depend on no more than what the sorts say of each other (`OrderKept`,
  `OrderGrows`), and no saved sort may ever reach `Late` (`Room`), for which `CategoryBoardAssumption` says
  that the board starts with sorts, columns and cards below 10^9 less the number of calls.
- `DropsLand` (`DropLandsInSlot`), for any board and whatever else is under way. All cards of the
  listed columns are numbered anew, column after column, so the ids of one column come in its order
  among all of them (`IdsInOrder`); a sequence that holds each card of a column once, in the order of
  their sorts, is that column as it is drawn (`SortedUnique`); so each column is drawn as it was dropped
  (`ColumnAsDropped`), and putting one among the others keeps their order (`InsertedAbove`,
  `OthersAbove`).

`FoldLemmas` has the sums. Induction over data is out of reach where it is stated for a predicate,
since the library's induction theorems take an operator as a parameter, which the provers cannot
instantiate; stated for a set of numbers instead, with no operator involved, it can be proved
(`Induct`: a set that holds 0 and the successor of each of its numbers holds all of them). From it
follow that a sum over a finite set is taken element by element, in whatever order (`SumStep`), that it is a
number, how it changes when one or two summands do, that it is additive (`SumPlus`), and that the sizes
of the places a set is distributed over add up to at most its own (`SumOfPlaced`); that in an order on a finite set each
place is taken by one element (`Places`), so that sorting numbers lists each of them once and in order
(`AscendingEach`); and what of a sequence a filter keeps (`PickedEach`). `Ordering` defines sorting
and filtering by these places instead of by the library's recursive operators, of which the prover
knows no more than their names.

Assumed in all of them are only the named assumptions of the modules, which TLC evaluates in the
runs: that bounds are numbers and sets of constants finite, that `None` is none of the values it
stands beside.

Only model-checked:

- the liveness properties (`EveryRequestAnswered`, `EditsSettle`): liveness and fairness are beyond
  the prover;
- the other properties of `Books`: the engine is recursive functions and folds over whole snapshots, and its
  recurrences would each need an induction of their own.

## Not modelled, and why

- In the service: the shared token of the API, JSON, `/health`; they change no state. The connector
  is an environment that returns, parks or raises.
- In the server's ledger: names, keywords, dates, descriptions, sort orders, import batches and list
  endpoints, which no property of `TransferLedger` depends on; accounts are fixed there. The two
  reads of `candidates` (rows, then rejections) are one. Handlers of two users never share a row.
- `app/transfer_match.py`: a pure function called once per detection; `TransferLedger` is checked
  for every set of disjoint pairs it could return.
- `app/db.py` and the migrations: what the next start makes of a file that a crash left half-built
  depends on the text of twenty SQL scripts.
- The workbook: one database transaction per upload; the rest is spreadsheet parsing and layout.
- `RemoteRunner`: it keeps no state; a request of its that is lost is a request `SyncService` never
  gets.
- Two budget pages of one person, two reconciliations at once, a change of credentials, a restart
  of the server during a login.
- Authentication beyond the session the client sees, e-mail, hashing; settings, landing and login
  pages, the dashboard's navigator, themes; statements of banks as text; CI and deployment.
