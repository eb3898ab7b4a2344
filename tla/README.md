# TLA+ for baicie/todo: sync, sessions, accounts and local data

This directory is the verification project of the todo application: TLA+ modules
translated from the source, TLC configurations that check them on small
instances, and TLAPS proofs. Paths are relative to the repository root.

- [The system](#the-system): the parts, their state, what is hard about them
- [Modules](#modules): what each module models, how it corresponds to the code
- [Runs](#runs): what each TLC run checks, with which bounds
- [Divergences](#divergences): where code and documents disagree
- [Proofs](#proofs): what holds for every value of the constants
- [Not modelled](#not-modelled) and [Plan](#plan)

Check a run with `tlc -workers 2 -config SyncServer_core.cfg MCSyncServer`, the
proofs with `tlapm SyncServerProofs.tla` (and likewise every other `*Proofs.tla`).

## The system

A todo application that works without a network. Every device keeps a complete
local copy of an account (IndexedDB in the browser, SQLite in the native shells),
edits it at once, and records each edit as a *mutation* in an outbox. A sync
engine sends the outbox to a Rust service in front of PostgreSQL and folds what
other devices did into the local copy.

| Part | State | Operations | What it talks to |
| --- | --- | --- | --- |
| Sync service (`apps/api/src/sync.rs`, `mutation.rs`, `bootstrap.rs`, `ops.rs`, `cursor.rs`) | rows with tombstones, `change_log`, `op_receipts`, `devices.last_client_seq`, `account_sync_state` (`next_server_seq`, `min_available_seq`) | `POST /sync`, `GET /sync/bootstrap`, device revocation, account deletion, `ops cleanup`, `ops prune-change-log` | HTTP from devices, one PostgreSQL transaction per request |
| Sync engine (`packages/sync`) | the run in progress | `syncNow`, `bootstrap`, retries | repository port, transport port |
| Web repository (`apps/app/src/adapters/web-repository.ts`) | `lists`, `tasks`, ... (the view), `shadow`, `mutations` (the outbox), `meta` (cursor, client sequence, device id, session epoch) | one method per user command, `syncApplyResponse`, `syncReplaceSnapshot`, `syncDiscardRejected`, `syncRotateDevice`, `syncInitializeCloud` | user interface, engine; other tabs through IndexedDB |
| Native core store (`crates/native-core`) | the same in SQLite | the same | Tauri commands |
| Cloud controller (`apps/app/src/sync/cloud.ts`) | tokens, session epoch, sync timer | sign-in, sign-out, restore on start, scheduled sync | engine, repository, API |
| Shared lists (`apps/api/src/shared.rs`, `apps/app/src/sync/shared-*.ts`) | lists with revisions, invitations, idempotency receipts; on the device an overlay of unsent edits | `If-Match` updates, poll, replay | HTTP |
| Native accounts (`crates/native-accounts`) | registry file, one database per account, switch journal | switch, recover, migrate | file system |
| Native shell (`apps/native/src-tauri`) | activation queue, secure token store, reminders | push, acknowledge, reload | operating system, web view |
| Authentication (`apps/api/src/auth`) | one-time codes, refresh token families, devices | request code, verify, refresh, logout | mail, HTTP |
| Domain (`packages/domain`, `packages/application`) | none | pure functions on dates, ranks and recurrence | - |

How they interact. A user command changes the view and appends to the outbox in
one local transaction. A run of the engine reads the pending mutations and the
cursor, sends both, and applies the answer in another local transaction: acks
remove or mark mutations, changes go into `shadow`, the rows concerned are
recomputed as `shadow` plus what is still pending, and the cursor advances. The
service handles a request in a transaction that locks the user row, the state row
of the account and the device row, in this order; it decides the operations one by
one, each within a savepoint, numbers the accepted ones with `server_seq`, and
answers with one ack per operation and a page of the change log. If the cursor is
older than the retained log the device downloads a bootstrap, page by page, and
replays what it has not sent. Retention jobs remove receipts and change log rows
while all this runs.

What is hard, and what correctness means, by part:

- **Sync service.** Answers get lost and batches are sent again, on other
  connections, together with newer operations, and after the receipts were
  removed. Nothing may be applied twice, skipped, or reordered within a device;
  the numbering must be dense, because a client reads "the change after my cursor";
  every cursor that is accepted must be servable; a bootstrap that is read while
  others commit must still converge; revocation must be final for requests that
  are already waiting.
- **Engine and local repositories.** The user edits between any two steps of a
  run; a request that was given up may be served later; the bootstrap replaces the
  rows under pending edits. No edit may vanish, be applied twice or overwritten by
  an older remote one, and all devices have to converge.
- **Cloud controller.** An answer arrives after sign-out; another tab signs in; the
  browser closes between rotating the device and storing the token.
- **Shared lists.** Optimistic concurrency with revisions, a pull between an edit
  and its answer, retries with idempotency keys.
- **Native accounts.** A crash at each write of journal and registry.
- **Native shell.** A bounded queue, acknowledgements from an older page session.
- **Authentication.** Refresh-token reuse against a lost answer, code guessing
  limits, concurrent verification.

`PROJECT.json` lists every hazard with its line and the property that watches it.

## Modules

| Module | Role |
| --- | --- |
| `AccountData` | rows, mutations, the checks of the server, and the two ways of folding a mutation into a row |
| `SyncLedger` | abstract: one append-only history per account, and a number per device up to which everything is decided |
| `SyncServer` | the sync service with its database transaction, bootstrap and retention |
| `MCSyncServer` | instances of `SyncServer`: contents of operations and batches |
| `SyncServerProofs` | theorems about `SyncServer`: numbering, order, watermark, revocation, the refinement; tombstones, receipts, retention, answers |
| `SyncServerReplayProofs` | the theorems about replaying the change log: from the beginning, and on top of a bootstrap |
| `SyncProtocol` | the devices (engine and web repository) and a service that answers in one step |
| `MCSyncProtocol` | instances of `SyncProtocol`: what the users may do |
| `SyncProtocolProofs` | the theorems about `SyncProtocol` |
| `NativeStore` | the SQLite store of the native app: commands, outbox, merge, answers and snapshots under foreign keys and a unique index |
| `MCNativeStore` | instances of `NativeStore`: what the account holds, what other devices send |
| `CloudSession` | one page or app: sign-in, tokens, session fence, reload; sessions of the service |
| `CloudSessionProofs` | the theorems about `CloudSession` |
| `SharedLists` | lists shared by users: the service with revisions and receipts, the engine of each device |
| `SharedListsProofs` | the theorems about `SharedLists` |
| `NotificationActivation` | a click on a reminder on its way through the native shell to the page |
| `NotificationActivationProofs` | the theorems about `NotificationActivation` |
| `AccountChoice` | abstract: one current account, changed in one step or not at all |
| `AccountSwitch` | the switch of the active account: page, gate, journal, registry, restart; implements `AccountChoice` |
| `AccountSwitchProofs` | the theorems about `AccountSwitch` |
| `AccountInstall` | what a start does before a database is opened: first installation and migration, file by file |
| `AccountInstallProofs` | the theorems about `AccountInstall` |

`SyncServer` and `SyncProtocol` compose the service and the devices: the first has the
service in full, the second has the devices in full and a service that answers in
one step, and both implement `SyncLedger`. `NativeStore` is one native device, with its
sign-ins, before a service and other devices that are one step each. `AccountInstall` ends where
`AccountSwitch` begins, at a registry that names the active account. `CloudSession`
decides when the runs of `SyncProtocol` may write; `SharedLists` runs beside them
under the same session.

### AccountData

An entity is a list, a task, a step or a day plan. A row has a parent (`list_id`
or `task_id`), columns, a tombstone flag and `created_at`. A mutation carries an
entity, one of the four kinds, a parent and a set of columns. `Accepts` is what
`apply_mutation` lets through (`sync.rs`, `apply_list` ... `apply_day_plan`): a
create meets no row, not even a tombstone; patch and delete need a live row; a
restore needs a tombstone; the parent must be live (`ensure_active_list`,
`ensure_active_task`); a day plan needs its slot `(task_id, local_date)` free, and
tombstones keep theirs. `ApplyMutation` is the row afterwards. Deleting a parent
touches no child, as in the code. `Merge` is the client's unconditional fold, used
here to state that the change log carries everything.

Columns are abstract names; `SlotColumn` is the one (`local_date`) in the unique
index. What a column may contain is validation and left out. So is the unique
index on recurrence occurrences, another reason for rejecting a task.

### SyncServer

| Action | Code |
| --- | --- |
| `Begin` | `sync`: `validate_batch`, `pool.begin()`; `created_at` will be this time |
| `Acquire`, `Refuse` | the three `SELECT ... FOR UPDATE`, the account, cursor and device checks, the reads of receipts and watermark |
| `AnswerFromReceipt`, `AnswerFromWatermark` | an operation that was decided before |
| `ApplyNext`, `RejectNext` | the next operation of the device, accepted or rolled back to its savepoint |
| `SequenceMismatch` | 409, the transaction rolls back |
| `Crash` | a statement fails, or the process or connection is gone |
| `Commit` | watermark, page of changes, commit |
| `Answer` | the answer arrives or is lost |
| `RevokeDevice`, `DeleteAccount` | `devices.rs`, `account.rs`, behind the lock on the user row |
| `OpenBootstrap`, `NextPage`, `CloseBootstrap` | `bootstrap.rs`: a cursor first, then pages, each a statement of its own |
| `CleanupReceipts` | `ops cleanup`: one batch of the oldest receipts, of any size |
| `SelectPrune`, `StartFloor`, `CommitPrune` | one batch of `ops prune-change-log`: select and lock, start the UPDATE of the floor, commit |
| `Tick` | the clock of the database |

A transaction is one record, `tx`: while it is not `None` its connection holds the
user row, and everything it wrote is in it, invisible until `Commit`. The receipts
of a transaction are read by two statements in the code; both run under the locks
and only the receipts job can come between, which removes receipts of decided
operations; the model reads them at once. The floor is updated from `FirstKept`
of the log as the UPDATE saw it when it *started*: if it then waits for a sync
transaction, PostgreSQL re-reads the locked state row but not the subquery over
`change_log`. `ledger` is a history variable, every change ever committed.

`SyncLedger` is what a device can rely on. `SyncServer` implements it with
`history <- ledger` in the order of `server_seq` and `decided <- watermark`:
whatever happens with connections, retries, receipts and retention, a step only
appends operations of one device, beyond the number decided for it, in order.

### SyncProtocol

The devices of an account around the service. `EngineStep` is a run of
`SyncEngine.run`, with a step for every `await` at which something else may happen:

| Action | Code |
| --- | --- |
| `Issue` | a user command of `web-repository.ts`: its checks against the local rows, the rows it writes and the mutations it appends, in one transaction; a command may be several mutations (`createTask` with a plan, `commitCompletion`, `reorderTask`, `deleteList`, which takes out every live task of the list: `EmptiesList`) |
| `Send` | `syncNow` to the `POST`: the first `Limit` pending mutations, the cursor |
| `Serve`, `Expired` | the request is handled (`Decide` is one operation, as in `SyncServer`; a refused operation fails the batch), or answered by `CURSOR_EXPIRED` |
| `Apply` | `syncApplyResult`: acks, shadow, reprojection, cursor |
| `OpenBootstrap`, `NextPage`, `Replace` | the bootstrap, `syncReplaceSnapshot` |
| `Drop` | the run ends at any point: network, error, page closed. A request on its way goes into `late` or is lost |
| `ServeLate` | a request nobody waits for is handled after all |
| `ClearRejected` | `syncClearRejected` |
| `Prune`, `Forget` | the retention jobs |

The outbox is the table `mutations` with the number of the device (`clientSeq`) as its key:
`Waiting` are the pending ones, `Rejected` the refused ones, and what is acked is taken out
of the table. `issued` is a history variable, the operations of a device in the order in
which they got their numbers.

`Reproject` is `reprojectEntity`, with its two peculiarities: a row without shadow
is left as it is, and a day plan deletes the plan it finds in its slot (`Displaced`).
`Mirrored` is `MUTABLE_FIELDS`: the columns that reprojection and snapshots copy.
A second tab needs no actor of its own: the session token lets only one engine
write (`assertSyncSession`), and edits in either tab are `Issue`. The reads of the
pending mutations and of the cursor are one step, because only the engine's own
run changes the cursor, and an edit between them is an edit after both. That a run
starts again by itself after one that left something to do is covered by `Send`
being possible whenever the engine is idle, as it is in the code (timer, online and
resume events, local changes).

Sync is on throughout; signing in and out is the matter of `CloudSession`.
`syncDiscardRejected` is left out: its transaction lacks the `shadow` table that
`reprojectEntity` reads, so that Dexie aborts it. The meta entry `bootstrapRequired` is
written and never read. A receipt that is removed before its answer arrived turns a
rejection into `already_processed`, which `docs/sync-protocol.md` accepts; therefore
`NoSilentLoss` is checked without `Forget`.

### NativeStore

`view`, `shadow`, `outbox` and `kv` are the tables of `store.rs`. Every method of
`TodoStore` is one transaction behind a mutex and one action here. `Put` is a statement
on one row: it fails when a foreign key has no row or the slot of a plan is taken
(`Referenced`, `SlotFree`), and with it fails the transaction.

| Action | Code |
| --- | --- |
| `CreateList` ... `DeleteStep` | the commands (`store.rs:252-1218`), each a sequence of mutations for `Execute`, which writes the rows and appends with `append_mutation` |
| `Send`, `Serve`, `Bootstrap` | `pending_mutations`, and the service in one step, with receipts and numbers as in `SyncServer` |
| `Apply` | `apply_server_result`: acks, `apply_server_change` row by row (`Materialize`), then `reproject_entities`; or nothing, when one statement fails |
| `ReplaceSnapshot` | `sync_replace_snapshot_fenced` |
| `SignIn` | `rotate_device_id`: the operations are numbered again from 1 |
| `Fetch`, `ChooseMerge`, `Cancel` | `verifyCode`, `chooseMerge`; a choice is offered when the export has a list or task, tombstones too; `Initialize` is `sync_initialize_cloud` with both modes |
| `SignOut`, `ClearAll`, `Expire`, `Restart`, `Resume` | `cloud.ts` with `sync_set_enabled`, `sync_clear_account_binding`, `clear_all` |
| `ClearRejected` | `sync_clear_rejected` |
| `OtherDevice`, `Prune`, `Drop` | what others commit, the retention job, a run that ends |

Which of two rows is the later one (`updated_at`) is a choice: `newer` is any set of rows
that both sides have. Import and export, queries, the search index and migrations of the
schema are left out. `buried` and `wiped` are history: rows that a merge kept as tombstones
of this device, and whether the data were cleared while the device id stayed in use.

### CloudSession

One page (or native web view) and the sessions of the service. `mem` holds the
variables of `createCloudController`, `disk` what outlives the page: the stored
configuration, the key store or cookie, and the `meta` entries for device, fence and
bound account. `proc` has the flows under way: `init` (`initialize`), `flow` (what the
user does, one thing at a time as `busy` makes it) and runs of the engine.

| Action | Code |
| --- | --- |
| `Serve`, `ServeLate` | `verify_code`, `refresh` with rotation and reuse detection, `logout`, `DEVICE_MISMATCH` of `sync` |
| `FenceStep` | one write of the queue `fenceTail`: `syncSetSession`, `syncClearSession` |
| `InitAnswer`, `InitBegin`, `InitActivate` | `initialize`, `activateCloud` |
| `StartRun`, `RunRefreshed`, `RunAnswered`, `Apply` | `executeSync` with one retry after a 401, `applyServerResult`, `assertSyncSession` |
| `ExpireSession`, `DropSession`, `SayExpired` | `expireSession` |
| `SetEmail`, `RequestCode`, `CodeSent` | the form, `requestCode` |
| `SignIn`, `SignedIn`, `Bind`, `Fetched`, `Choice` | `verifyCode`, split where it waits |
| `ChooseMerge`, `InitializeCloud`, `ActivateFlow` | `chooseMerge`, `syncInitializeCloud`, `activateCloud`; `GiveUp` is what follows when a newer session supersedes them: a sign-in is undone, a merge only says that it is disconnected |
| `Fail`, `Cancel`, `SignOut`, `Logout`, `LoggedOut` | the ways out: the session is invalidated, the service told, tokens are cleared |
| `Lose`, `EndElsewhere`, `Expire`, `Reload` | lost calls and answers, a session revoked elsewhere, an access token that expires, a page that is closed and opened |

Which edits a merge prepares, one-time codes, rate limits, push and a bootstrap the
user forces are left out. `hist` is history: whether a sign-in, or an address typed into
the form, overtook another flow, and whether data of another account were taken.

### SharedLists

One list that exists, and a device per user. The service is one record: revision, rows,
roles, invitations, receipts; each handler of `shared.rs` that changes it is one step,
because it begins with `FOR UPDATE` on the list. A device has the snapshot with the
revision it belongs to, the outbox, and the view (`rebaseSharedTasks`).

| Action | Code |
| --- | --- |
| `CreateTask`, `UpdateTask`, `DeleteTask`, `DiscardOp`, `RetryOp`, `RemoveLocalCopy` | the commands of `shared-sync.ts`, each one transaction |
| `StartRun`, `TakeIndex`, `TakeSnapshot`, `Choose`, `Post`, `TakeAnswer` | a run: index, pull, `nextPending`, `push`, `settle` |
| `Serve`, `ServeLate` | the handlers of the service, also for a request nobody waits for |
| `GiveUp` | the run is fenced off or its call lost |
| `PullAside`, `PeekStep` | the pull after an accepted invitation, beside the run |
| `Invite`, `AcceptInvitation`, `DeclineInvitation`, `SetRole`, `RemoveMember`, `DeleteList` | what owners and guests do |

A page that was closed or signed out finds its outbox again; the binding of the
store to an account, steps, positions, creating a list, and the limits of pulls and
batches (a run may start again at any time) are left out. `past` and `guess` are
history: what the list was at each revision, and whether a snapshot was completed by
a replayed answer. A call is `honest`, also history, when the edit is still the first
pending one of the outbox, as it was picked, and the snapshot was not guessed.

### NotificationActivation

`state` is the `DeliveryState` behind its lock. A click becomes an activation in a queue
with limited room; a call of the page reserves the head (`Reserve`), validates it without
the lock, and commits; the page opens the task and acknowledges. A reload registers a
new listener session, calls of the old one run on. Overflow, expiry, requeues with a
budget, deduplication and panics of a validation are in the model; the ticket of a
listener is its session, and the ring of diagnostics is left out. `ledger` follows the
`AuditLedger` that the code keeps in its own tests. `loose` is history: the page was told
that there is nothing while the slot was taken, an acknowledgement failed, or a call
panicked; then nothing wakes the page before the next click or reload.

### AccountSwitch and AccountInstall

`AccountSwitch` has the page (`CloudPanel`), the commands of the shell (which run one
after the other on the main thread), the gate with its leases, the worker threads that
hold them, the journal, the registry and the restart of the process. The two files
change one after the other, in any process state a crash may leave; `AccountChoice` is
implemented by reading the account the user is on from both. A durable write is one
step here. `AccountInstall` splits it: temporary file, rename, and on Windows the
fallback of `write_json_atomic` with its replacement journal, for the installation
marker, the migration state and the registry; it has the legacy database, backups,
copies, quarantine, and an old version of the app that is used in between. Contents of
databases are versions.

`owner` is what `classify_legacy_database` reads: the address that the legacy database is
bound to, if any, and whether it is clear that it belongs to nobody else. The old version changes it with
the data, for its user may sign in or out. A start reads it again only when the migration has not
begun or has failed; in between `resume_migration` derives it from the saved target and the
registry (`Ownership`). A migration whose saved target does not suit the owner ends in FAILED
(`RefuseTarget`), one whose owner is unclear is backed up and left to the user (`Preserve`, `Review`).
Every step and every write of `run_migration` may fail and ends in FAILED (`StepFails`, `WriteFails`, `Fail`).

| Action | Code |
| --- | --- |
| `WriteTemp` ... `DropJournal`, `WriteFails` | `write_json_atomic`, `replace_file` and its undoing |
| `Start`, `LoadFile`, `FromJournal`, `FromStray`, `NotRecovered` | loading the three files, from what a replacement left behind if need be |
| `DecideOpen` ... `DecideNot` | the cases of `ensure_active_account` |
| `Database` ... `Unmark` | `resume_fresh_installation` |
| `ChooseTarget` ... `Complete`, `Fail` | `resume_migration`, `run_migration` |
| `Open`, `Work`, `CreateOther`, `Switch`, `Close`, `Crash`, `OldVersion` | the app is used, ends, and is replaced by the old version |

Damage of `accounts.json`, loss of backups, an undoing that fails as well, read errors that go away by
the next start, symbolic links and the order of steps within SQLite are left out.

## Runs

Every run finishes within four minutes with two workers. Deadlock is not
an error where the system may rest: users stop clicking, editing or signing in.

| Run | Instance | Shows |
| --- | --- | --- |
| `server_core` | 2 devices, 2 connections, 1 task, 4 operations, 5 overlapping batches, all cursors, pages of 2 | `WatermarkCovers`, `ServerSeqDense`, `DeviceOrder`, `AnswersHaveNoGap`, `LogRebuildsRows`, `TombstonesHold`, `RevocationIsFinal`, `ImplementsLedger` |
| `server_upkeep` | 1 device, 2 connections, a task and its plan, two overlapping batches, receipts cleanup, one prune job, a reader with pages of one row, clock 0..1 | `BootstrapConverges`, `AppliedOnce`, `ReceiptsAreTrue`, `PruneIsPrefix`; `RequestsSettle` under fairness |
| `sync_edits` | 2 devices, 1 task, requests of 1 operation, 1 stopped run, both retention jobs | `ShadowConverges`, `ViewIsProjection`, `OutboxNeverJams`, `ImplementsLedger` |
| `sync_plans` | 2 devices, a task, two plans of one slot, 1 stopped run, pruning | `NoSilentLoss`; `Converges` under fairness |
| `session_flows` | browser and native app, 2 addresses, 1 sign-in, 1 reload, 1 fault | `NothingStrays`; `ComesToRest` under fairness |
| `shared_edits` | 2 users, 2 tasks, 2 edits, 1 lost answer | `ShadowIsServer`, `EditsAreSafe` |
| `shared_members` | 2 users, an invitation, 1 edit, 2 acts of the owner | `Settles` under fairness |
| `activation_clicks` | a queue of 2, 3 clicks on one reminder, 3 page loads, 1 fault | `Accounted`, `InClickOrder`, `OnlyTheListenerHolds`; `Settles` under fairness |
| `account_restart` | 3 accounts, 2 switches, 2 faults, one worker | `OneStep` (`AccountChoice`), `WritersStay`, `NoReminderLeftBehind`, `StartsOnCurrent`; `ComesUp`, `Reopens` under fairness |
| `account_start` | legacy data or none, of any owner, 2 addresses, 1 use of the old version, 3 faults, Windows | `NoEmptyDefault`, `WorkIsKept`, `CompleteIsCurrent`; `ComesUp` under fairness |
| `native_merge` | a list, a task and a plan in the account, a fresh id of each kind, 2 commands, 1 operation of another device, 1 sign-in, 1 fault, pruning | `NumbersHold`, `TablesAreProjection` |
| `native_slot` | a task that two devices plan for one day | violation of `RejectionNeverJams`, see below |

Why the bounds are enough. In `SyncServer` batches overlap as retries do: a
prefix, the whole, a suffix, and the same number with another operation, offered
to every device, so that every way in which a batch meets receipts and watermark
occurs: all decided, partly decided, next, ahead, taken. Two connections give every
race for the locks; a third would only wait. Pages of two or of one row split the
log and the snapshot, so that `has_more` and reading between commits happen. The
clock has one tick more than the retention, so that stamps differ and a cutoff
lies between them. In `SyncProtocol` a request carries one operation and an answer one
change, so that outbox and log are always longer than what one run handles; one
stopped run per instance leaves an answer lost and, later, a late request. The
operations are offered in any order the local checks allow, so that both devices
edit the same field, edit what the other has deleted, and plan the same slot.
In `CloudSession` one sign-in, one reload and one fault meet every step of every flow,
which gives every pair of flows that may overlap; the accounts are the one the data
belong to and another; with one place for runs, a run waits until the one of an older
session has ended. In `SharedLists` two edits are enough for one to be refused or
replayed while the other is sent, and one lost answer for a retry under a later revision.
In `NotificationActivation` three clicks overflow a queue of two, and three page loads
give a call two sessions old. In `AccountSwitch` a second switch finds what the first
left behind, and two faults a crash during the recovery from a crash. In
`AccountInstall` three faults are a refused replacement with a crash in it and another
crash, or a failed call, in the recovery; the old version is used once, between any two starts, and leaves any
owner behind: with two addresses the owner may be nobody, the registered one or another. In `NativeStore` two commands of any kind, before,
during or after the sign-in, meet one change from elsewhere and one fault at every step;
requests of two operations split what a merge prepares; every command fires. New plans are
for another day than the plan of the account, and nobody else creates rows, so that the
constraints do not fail: that they may is the matter of `native_slot`.

Fairness. `server_upkeep`: weak fairness of the steps of a connection, because a
transaction that holds its locks runs on; strong fairness of obtaining the locks,
because PostgreSQL queues waiters of a row lock. `Crash` and `Begin` have none.
`sync_plans`: weak fairness of `EngineStep`, because an engine that is connected is
started every 45 seconds and by events, and `fetch` returns or fails. `Drop`, the
user and the retention jobs have none; `MaxDrops` is the assumption that the network
fails only finitely often. `session_flows`: calls end, the fence queue and the flows go
on, a connected page polls; the user and the faults have none. `shared_members`: a run
goes on (weak), and the poll every 15 seconds starts one with the index (strong, because
other runs come between). `activation_clicks`: calls of the page, the page itself, the
registration of a listener and the handling of an acknowledgement; none for clicks,
reloads, the clock, panics and losses. `account_restart` and `account_start`: the start
goes on, and is made again when the app is down; commands end and the dialog is
answered; none for workers, faults and users.

Exceptions that the liveness properties name, because the code has them:

- `ComesToRest`: a sign-in, or a typed address, that overtakes a page start or a refresh
  that is still under way; and a sign-in from the page "expired" while token and mark of
  the older session are kept, interrupted by a reload. The page is then connected with
  tokens of another device and every sync is refused with `DEVICE_MISMATCH` until the user
  signs out.
- `Settles` of `NotificationActivation`: `loose`, see above; the comment at
  `notification_activation.rs:11` claims an end for every activation.
- `Reopens`: the page is reloaded while a switch is prepared; then nobody aborts it.
- `ComesUp` of `AccountSwitch`: the database of the account is damaged. Of
  `AccountInstall`: the temporary file of the first `accounts.json` was torn
  (`TornFirstRegistry`), a migration without target (`NoTarget`), a marker that a stale
  replacement journal brought back (`StaleMarker`), a state that asks for a review, and a
  migration whose target was chosen for an owner that the legacy database has no longer, because the
  old version was used in between to sign in, or out, or in with another address (`OwnerMoved`). As long
  as the old version does not do that, `OwnerMoved` never holds.

## Divergences

One run is expected to find a violation, `native_slot`. Two devices plan a task for the same
day; the native one is refused, and the answer that says so carries the plan of the other.
`apply_server_result` marks the refused operation, inserts the other plan, and meets
`UNIQUE(task_id, local_date)`, because the refused plan is still in the table: the INSERT fails and
the transaction is rolled back with the rejection in it. Every later answer fails in the same
way, though `docs/sync-protocol.md:48` says that rejections exist so that one bad operation does not
block the outbox for ever. The statement that makes room (`sync_support.rs:522`) is in the
reprojection, which runs after the insert. The web repository applies changes through the reprojection alone. The same happens
to a task that is created in a list which the native device has deleted meanwhile
(`ensure_active_list` within `apply_materialized_change`).

The other configurations are not runs of the project; each of them gives a
counterexample when checked with the module it is named after.

- `SharedLists_overwrite`: an edit that a snapshot fetched on the side has just refused is sent
  under the revision of that snapshot and overwrites what its author never saw, though
  `shared-sync.ts:34-36` says that it is marked rejected instead.
- `NativeStore_orphan`: a list and a task in it are created offline, both are deleted, and the
  task is restored. A merge leaves the deleted list out, the task refers to it, and
  `write_materialized` fails on the foreign key: this account can never be merged, only replaced.
- `NativeStore_settles` holds: `Converges`, a device that stays connected sends everything and
  shows the rows of the account, on an instance without conflicting plans.
- `wiped` in the properties of `NativeStore`: "clear all data" in a session that could not be resumed
  (`App.tsx:910-917`, the phase is not `connected`) keeps device id, number and cursor. When the session
  is resumed the rows are not downloaded again, and the numbers go on behind an empty outbox.
- `buried`: `docs/native.md:193` says that `updatedAt` decides a merge; a tombstone of this device wins
  always (`sync_support.rs:922`).
- `SyncServer_gap_order`: `created_at` of a change is the *begin* time of its
  transaction, `server_seq` is allocated after the lock. With two requests the
  orders can differ, and `prune-change-log`, which takes the oldest by
  `created_at`, removes `n + 1` before `n`. `MIN(server_seq)` of what is left does
  not cover the hole: a device with cursor `n` is served without change `n + 1`,
  although `docs/runbooks/operations.md:55-60` promises it `CURSOR_EXPIRED`.
- `SyncServer_gap_jobs`: the same document lets the job run repeatedly. Two runs at
  once take disjoint batches (`SKIP LOCKED`) and compute the floor while the rows
  of the other are still visible to them; the hole appears even when stamps are in
  order. `PruneIsPrefix` holds with one job (`server_upkeep`, theorem `RetentionKeepsTheRest`).
- `SyncProtocol_tags`: `MUTABLE_FIELDS.task` has no `tags`, nor have `taskFromData` and
  `taskFromEntity`; a reprojection drops tags that are still pending, and tags of
  other devices never arrive. `docs/architecture.md:74` says remote changes never
  overwrite pending local input. `PendingShows` is the property; with all
  columns mirrored it holds.
- `SyncProtocol_rebase`: after a bootstrap every pending mutation is replayed, also those
  that the snapshot contains because only their answer was lost;
  `docs/sync-protocol.md:103` says they are removed by `last_client_seq`. The view
  shows an old value until the next answer; the service applies nothing twice.
- `SyncProtocol_orphans`: a list is deleted on a device that has not heard of a task in it.
  The task stays alive in the deleted list, and patches that do not move it are
  rejected. `docs/design/README.md:649` asks that no orphans arise.
- `SyncProtocol_plan_rebase`: a bootstrap puts a pending day plan beside the plan that the
  service has for the same slot, and as the pending one never gets a shadow it
  stays in the view for good, after its rejection has been cleared.
  `docs/architecture.md:36` calls the slot unique.
- `SharedLists_replay`: an edit whose answer was lost is answered from its receipt, with
  the present revision. If exactly one change came between, the engine takes that for
  the revision its edit made, and completes the snapshot without the other change; the
  comment at `shared-sync.ts:825` expects a refresh in this case. The next pull repairs it.
  For the same reason an edit that was applied, whose answer was lost, and that is then
  refused and retried under its old `opId`, is answered by its old receipt and not applied
  again.
- `CloudSession_typed`: `activateCloud` reads the form after it has waited for the fence,
  and while a page resumes its session the form is shown; `cloud.ts:247` says that
  `connectedIdentity` is never a typed input.
- `CloudSession_overtaken`: `ComesToRest` without its exception.
- `NotificationActivation_notices`: one rejected activation is noticed twice, when the page
  is reloaded between the notice and its acknowledgement (`notification_activation.rs:1020`).
- `AccountInstall_marker`: a torn temporary file of the first `accounts.json` stops every
  further start; `docs/design/native-account-isolation.md:67` says a marked installation
  continues.
- `AccountInstall_retry`: a migration that was interrupted before its target was chosen
  stops every further start (`migration.rs:621`); the same document, line 96, says it continues.
  So does a migration whose state is FAILED, or whose registry names another account, when the owner of the
  database has changed since (`migration.rs:759-766`; `OwnerMoved`), though lines 81 and 96 promise that
  a later start tries again.
- `AccountInstall_owner`: an attempt to migrate an anonymous database is cut short after
  BACKUP_CREATED was saved (by a crash, or because FAILED could not be saved); the old version is used
  again and its user signs in. The start that resumes the migration does not look at the legacy
  database (`migration.rs:651`): it takes the owner from the saved target, backs up the present data, and completes
  in the default account, which belongs to nobody, what is bound to an address. Line 85 of the same
  document says that every state but COMPLETE checks the owning account again.

## Proofs

Eight modules, for all values of the constants; the assumptions are those of the modules
(`DataAssumption`, `ServerAssumption`, `ProtocolAssumption`, `SwitchAssumption`, `ActivationAssumption`,
`InstallAssumption`, `SharedAssumption`, `CloudAssumption`, `MarkAssumption`): sorts of the constants, that
"no file" is not the content of a file and the mark of a missing row not a row, and that the
pages of a bootstrap go through every row once (`PageOrder`, `IdOrder`: type and id are a total order
and each page goes on behind the last row of the one before). Nothing more, except where a theorem
names a condition.

### SyncServer

For any number of devices, connections, readers and jobs, any operations, batches,
page and prune sizes:

| Theorem | Statement |
| --- | --- |
| `TypeCorrect` | `[]TypeOK` |
| `NumbersAppliedOnce` | `[]AppliedOnce` |
| `WatermarkIsAuthoritative` | `[]WatermarkCovers` |
| `ServerSeqIsDense` | `[]ServerSeqDense` |
| `DevicesInOrder` | `[]DeviceOrder` |
| `RevocationHolds` | `RevocationIsFinal` |
| `ServiceIsLedger` | `ImplementsLedger`: the refinement |
| `TombstonesAreKept` | `TombstonesHold` |
| `ReceiptsTellTheTruth` | `[]ReceiptsAreTrue` |
| `RetentionKeepsTheRest` | `[]PruneIsPrefix`, with at most one job (`OneJob`) |
| `AnswersAreComplete` | `[]AnswersHaveNoGap`, without jobs, which is the instance of `server_core` |
| `AnswersCompleteWhilePruning` | `[](StampsInOrder => AnswersHaveNoGap)`, with at most one job |
| `LogIsTheTruth` | `[]LogRebuildsRows` |
| `BootstrapsConverge` | `[]BootstrapConverges` |

The properties speak of what is committed, but the steps work inside a
transaction, so the inductive invariant `IInv` says what a transaction may contain:

- `Serving`: who holds the locks is serving a request and has not answered it, and
  what it read under them (watermark, next number) is still current.
- `Bounded`: every number already committed lies at or below the watermark of
  its device, every `server_seq` below `next_server_seq`.
- `Written`: the changes a transaction has written are numbered without gap from
  the `next_server_seq` it found, belong to its device, and lie above the watermark
  it read and below the number it expects next, in the same order.
- `Committed`: density, uniqueness and order of the changes in `ledger`.

`Commit` then merely moves `Written` into `Committed`. `Invariant` is proved with
one lemma per kind of step; steps that touch neither `tx` nor what it relates to are
covered by `QuietStep`.

On top of it there is one invariant for each question about what is kept.
`TombstonesKept` says that a transaction which changed a tombstone has an accepted restore of it
among its changes; it is needed because other operations of the same batch come between the
restore and the commit. `ReceiptInv` follows receipts through a transaction whose receipts the
job removes meanwhile: those in the table, those the transaction read and those it wrote must
agree on what was decided. `RetainInv` relates log, floor and the batch that a job holds:
the batch is a prefix, the log it saw when it computed the floor lies after the batch, and
so every number from the floor on is in the log. Both conditions on it are needed:
`SyncServer_gap_jobs` and `SyncServer_gap_order` are the counterexamples without them. That an
answer has no gap then rests on counting: the page is the changes with the fewest
predecessors (`FewerPredecessors`, `PageIsPrefix`).

`LogIsTheTruth` is about a fold over a log of any length. Induction is replaced by the least
counterexample: a fold is a function `h` with `h[s]` made from `h[s - 1]`; that it exists
(`FoldsExist`) and that two of them agree (`FoldsAgree`) follow from the least number at which
they would not. The invariant carries such a function from commit to commit, and
`FoldFollowsServer` is the step: an accepted mutation folded without checks is what the
service made of the row.

`BootstrapsConverge` is about a snapshot that no state of the service ever was: a cursor is
read, then pages, one statement each, while others commit. Its invariant says of every row that a reader has
(`Gathered`), and of every row it has still to read, that the changes above its cursor, folded into
it without checks, give the row of the service (`Leads`). Two facts carry it. What is folded in
twice changes nothing (`ReplayAbsorbs`): a row that was read late holds changes which the client
will be sent again, and a suffix of the log folded into the result of folding it in is that result.
And no row carries a stamp that has not come (`Stamped`): what a bootstrap leaves out because it was
created after the first page was opened is created by a change above its cursor. A page
may be read before the running transaction commits and the next one after it, so `Leads` speaks of
every mix (`early`) of rows before and after that commit. `FoldOnTop` is the step: one
more accepted mutation, folded into rows that were gathered before the service made it or after,
is what the service made. `PageOrder` has to name every row once: a row that no page
reads, or that is read twice, would make the property false.

### SyncProtocol

For any number of devices, columns, commands of any length, any batch limit, any number of
given-up requests, late requests and bootstraps, with the retention jobs running at any time:

| Theorem | Statement |
| --- | --- |
| `TypeCorrect` | `[]TypeOK`, with cursors and retention jobs bounded by the change log |
| `NeverJams` | `[]OutboxNeverJams` |
| `NothingLost` | `[]NoSilentLoss`, where no receipts are removed (`~ Forgets`), the instance of `sync_plans` |
| `OneEffect` | `[]EffectOnce`: no operation is in the log twice, also after its receipt is gone |
| `ShadowsConverge` | `[]ShadowConverges` |
| `ViewsAreProjections` | `[]ViewIsProjection`, where operations carry only columns of `MUTABLE_FIELDS` (`AllMirrored`) |
| `ProtocolIsLedger` | `ImplementsLedger`: the refinement |

Without `AllMirrored` the view is not the projection: that is the divergence `SyncProtocol_tags`.
Without `~ Forgets` a rejection whose receipt is gone turns into `already_processed`.

A device and the service never look at each other's state, so the inductive invariant `Inv`
says what each of them, and everything on its way between them, still means at any later moment:

- `NumbersOK`: the numbers of a device have no gap, what is above the watermark of the service
  is pending, and no two operations share an id. From this `OutboxNeverJams` follows: the first pending number
  may be decided already, but never lies beyond the next one that the service expects.
- `DecisionsOK`, `ReceiptsOK`: whatever log and receipts name was decided, at or below
  the watermark, once. `LossOK` is `NoSilentLoss`.
- `DataOK`: the rows of the service and the shadow of a device lead to each other (`Leads`): the
  changes above the cursor, folded into the shadow, make the rows. `RowsOK` says the same of a row that
  a bootstrap with *any* cursor would read now; this is what makes it inductive, because
  a bootstrap that began long ago reads its last page now.
- `RunsOK`: of a request, an answer, and the pages of a bootstrap that a run holds. An answer is
  acks of decided operations and the slice of the log behind the cursor.
- `LateOK`: a request nobody waits for is still in order, and leaves nothing out above the watermark
  (`BatchOK`), however far the watermark has moved since.

The service folds `Decide` over a batch of any length in one step. Since induction over the
length cannot be stated for an operator, a fold is a recursive function
and what is said of it (`DecidedOK`) is proved for the least prefix at which it fails, which is
the empty one or one operation longer than a prefix that is fine. `ViewOK` relates view and shadow one
entity at a time: a row is the shadow with the pending mutations on it, up to the number that is being
projected, or a day plan that another one displaced. The refinement maps `history` to the log
and `decided` to the watermarks; the step of the service appends operations above the watermark in
their order (`Serve` and `ServeLate` alike). `Inv` was checked by TLC first.

### CloudSession

For any number of accounts, places for runs, sign-ins, reloads and faults, in browsers and native apps:

| Theorem | Statement |
| --- | --- |
| `TypeCorrect` | `[]TypeOK` |
| `NothingEverStrays` | `[]NothingStrays` |
| `EngineOwned` | an installed engine has the fence that stands in the store and, unless overtaken, tokens of the account that the data are bound to |

Data stray when an answer is written whose session is of another account. Nothing in the write itself
prevents that: `assertSyncSession` compares a fence, and never an account. So the
invariant `Inv` has to say whom everything belongs to at every `await` of every flow.

- `FenceOK`, which holds always: generations only grow, the newest one has the fence or will have it
  by a write that waits, a clear of the newest generation finds no session that needs it, and an engine that is
  installed has its fence written. A flow that finds its generation current after the wait
  (`Passed`) may therefore trust the fence.
- `Ours`, as long as no sign-in has overtaken another flow: a clause for each flow that may be under way.
  `Starting`: a page resumes the account its data are bound to. `SigningIn`: what a sign-in has
  fetched, holds and is about to write is of the address in the form. `Choosing`: so is the
  snapshot that the user is asked about. `Leaving`: no engine is installed, and a run that goes on
  belongs to the session that ends. `Active`: an installed engine has tokens of the bound account.
- `Running`: at most one run is there, also one of an engine that is gone. Such a run may still write, since the
  fence in the store is cleared later than the generation ends; the invariant names the
  clear that waits (`InFence(p)` implies one in `fences`), and `LoggedOut`, which may unbind the data,
  comes after that clear (`Passed`). This is why `signOut` has to wait for the fence before it forgets the account.

`Inv` is preserved action by action, with one lemma each; `FenceKept`, `FenceBegun` and `FenceDropped` are
the three things that a step may do to the fence, `FlowKeepsAll` and `RunKeeps` what flows and runs
leave alone. In the overtaken case `Inv` says nothing about accounts, but what strays then is
marked so (`StraysGrow`). `Inv` was checked by TLC first, with two places for runs.

### AccountSwitch

For any number of accounts, workers, switches and faults:

| Theorem | Statement |
| --- | --- |
| `TypeCorrect` | `[]TypeOK` |
| `WritersStayOnTheAccount` | `[]WritersStay` |
| `RemindersAreCancelled` | `[]NoReminderLeftBehind` |
| `StartsAgree` | `[]StartsOnCurrent` |
| `SwitchIsChoice` | `OneStep`: the switch implements `AccountChoice` |

`IInv` was checked by TLC first. It has to hold at every moment at which the process may die,
so it speaks of the files without the process (`Files`: two known accounts, the active one is
among them, and it is the source until a start has looked), of what a start knows at each of
its steps (`Starting`), of the journal that each step of a command finds (`InStep`), and of the
gate (`Closed`: once the account may be left nobody gets in, nobody is in, nothing is armed).
`WritersStay` alone is not inductive: a worker that has passed the first look at the gate is
counted later, and only `Closed` says that the second look sends it away.
`SwitchIsChoice` maps steps of start and command (`StartIsChoice`, `CommandIsChoice`): the write of
the journal is the choice, the commit of the registry and every repetition of it
a stutter, `Failed` the way back.

### NotificationActivation

For any capacity, limits of attempts, requeues and age, and any number of clicks, page loads
and faults:

| Theorem | Statement |
| --- | --- |
| `EveryClickIsAccounted` | `[]Accounted` |
| `ClicksStayInOrder` | `[]InClickOrder` |
| `ListenerHolds` | `[]OnlyTheListenerHolds` |

The methods of `DeliveryState` take an activation out of one place and put it into another, and
may end it, or make room, in between. So the lemmas speak of a state *with some ids in hand*:
`Balanced(state, clicks, hand)` says that what was admitted is in exactly one place, in hand,
or has ended once, and each helper (`TakeFirst`, `TakeHeld`, `GiveBack`, `Enqueue`, `Finish`,
`RoomIsMade`) has one lemma on how it moves ids between place and hand; an action begins and
ends with an empty hand (`Sound`). The order needs that only one of the two slots is taken
(`OneSlot`): with two ids held, the second one given back would overtake the first. What
does not follow from `DeliveryState` alone is who may call: `CallsHold` says that a call between
reservation and commit finds its own reservation, since a new listener leaves the
reservation to the call that made it; `PageHolds` that a page which opens a task has it in
flight unless it has ended meanwhile. `Accounted` is about the ledger, not about the ring
of completed targets, whose elements the invariant leaves untyped.

### AccountInstall

For any number of uses of the old version, by any owners, of crashes, refused replacements and failed calls,
with and without the fallback of Windows:

| Theorem | Statement |
| --- | --- |
| `TypeCorrect` | `[]TypeOK` |
| `DataIsThere` | `[]NoEmptyDefault` |
| `WorkStays` | `WorkIsKept` |
| `MigrationIsCurrent` | `CompleteIsCurrent` |

A property about the files alone is not inductive, because a later start may read something
else than the file: what a replacement journal names, or a left-over temporary file. The
invariant therefore speaks of `Values(f)`, everything that a later start may find in a file,
the write in progress included. `Swapping` says what file and journal hold at each step of
`write_json_atomic`, and `WriteStepDoes` that none of its steps adds a value or
loses the file: so the actions of a start need not know in which of seven steps
a write is, and a crash at any of them keeps what `Values` is said to satisfy. `SaveDoes`,
`FilesSame`, `EndDoes` and `WriteFailsDoes` say the same of the other ways to touch files.

On top of it `Course` relates the files to the start: an empty data root and one with a
legacy database never mix (`Worlds`); no state that a start may find is complete while a
migration runs, and nobody works before it is (`Ahead`); a complete one names a database
with content that every registry knows (`Left`); a database that was used is in
every registry (`Used`); backups are never newer than the source (`Backups`), which
makes a backup that is compared with the source the last one; and `Running` carries
source, backup, copy and registry through the run to its end. `Invariant` was checked by TLC
first, on the instance of `account_start`.

### SharedLists

For any number of users, edits, changes of members and given-up runs:

| Theorem | Statement |
| --- | --- |
| `TypeCorrect` | `[]TypeOK` |
| `CopiesAreExact` | `[]ShadowIsServer` |
| `EditsTakeEffectOnce` | `[]EditsAreSafe` |

An edit is safe when it is taken because it was safe when it was sent, and it was then
because of the last rebase, which may be long ago. The invariant `Inv` states each link:

- `CopyIsTrue`: the snapshot is the list at the revision of the device, and the first pending
  edit of the outbox suits it (`Suits`: it does not conflict with the row it is for). Only
  the first one: those behind it were compared with what the edits before them made of the
  snapshot, which is not what the service has until these have been taken.
- `CallIsTrue`: a request on its way, waited for or late, names a revision there was, and if it
  is honest it suits that revision. The service takes it at that revision only.
- `TaskIsTrue`: the task of an answer, put into the list at the revision that was asked for, gives
  the list at the next one, unless the answer is a replayed one. `SnapshotIsTrue` says the same
  of a snapshot on its way, in a run or on the side.
- `ReceiptsAreKept`: what took effect has a receipt, so it does not take effect again.

`RebaseAllSound` is about the loop of `rebaseSharedTasks` over outboxes of any length
(`Sound`: as long as nothing pending was met, the rows are the snapshot), by the least prefix
for which it fails. `RebasedIsTrue` follows: whatever a device has done to snapshot and
outbox, after `applyRebase` its first pending edit suits. That is why every operation
of the store ends with it. `HistoryGoesOn` carries what is said of a revision to longer
histories. `Inv` was checked by TLC first, on the instance of `shared_edits` and with
invitations and snapshots on the side (2.2 million states).

### Model-checked only

- Liveness: `RequestsSettle`, `Converges`, `ComesToRest`, `Settles`, `ComesUp`, `Reopens`.
- `NativeStore`: `NumbersHold` and `TablesAreProjection`. The model follows `store.rs` in folding
  functions over rows and changes (`FoldLeft`, `FoldFunction` with a `LAMBDA`), for which
  the provers have no facts; and the tables are a projection only as long as no constraint fails, which
  depends on what the other devices send (see `native_slot`).

## Not modelled

- Payload validation, request size limits, rate limits, metrics, mail, push.
- Encodings: UUIDs, JSON, base64 continuation tokens. A token is the record it
  stands for; its signature is external.
- One-time codes: their attempts and expiry; `Serve` refuses or accepts a code freely.
- Import and export, and what `syncInitializeCloud` of the browser merges; the merge of the
  native store is modelled.
- Of the SQLite store: queries, the search index, diagnostics, schema migrations.
- Shared lists: steps, positions, cached invitations, creating a list.
- User interface, date and recurrence arithmetic, ranks: sequential, pure, and
  covered by unit tests. Release scripts.
- Kotlin and Swift glue of the reminder plugin, key stores, the QA harness.

## Plan

1. `NumbersHold` of `NativeStore`, by the least prefix of a batch in place of induction, as in
   `SyncProtocol`.
2. One-time codes, with their attempts and expiry.
