---------------------------- MODULE SyncServer -----------------------------
(***************************************************************************)
(* The sync service of one account: POST /api/v1/sync with its database    *)
(* transaction, device revocation, account deletion, the paged bootstrap,  *)
(* and the two retention jobs (receipts and change log).                   *)
(*                                                                         *)
(* A connection opens a transaction (Begin), waits for the row locks of    *)
(* the account (Acquire), works through the operations of its batch one by *)
(* one, commits or rolls back, and its answer is then delivered or lost.   *)
(* What the transaction writes is kept in tx until it commits.             *)
(***************************************************************************)
EXTENDS AccountData

CONSTANTS
    Device,      \* devices registered for the account
    Conn,        \* database connections that serve sync requests
    Reader,      \* clients that page through a bootstrap
    Job,         \* runs of the change log retention job ({} : never run)
    Batches,     \* the batches of operations that devices send
    Cursor,      \* the cursors they send
    PageOrder,   \* order of the entities in the pages of a bootstrap
    PageLimit,   \* MAX_SYNC_CHANGES
    PruneBatch,  \* OPS_BATCH_SIZE
    Retention,   \* age after which receipts and changes may be removed
    MaxClock,    \* bound: the clock stops there
    None         \* no request, no transaction, no reader, no job

VARIABLES
    now,        \* the clock of the database
    active,     \* users.deleted_at IS NULL
    rows,       \* lists, tasks, steps, day_plans
    log,        \* change_log
    receipts,   \* op_receipts
    watermark,  \* devices.last_client_seq
    revoked,    \* devices with revoked_at
    nextSeq,    \* account_sync_state.next_server_seq
    minSeq,     \* account_sync_state.min_available_seq
    request,    \* the request a connection serves, or None
    tx,         \* the transaction that holds the locks of the account, or None
    reply,      \* the answer of a committed transaction, or None
    reading,    \* a bootstrap in progress
    pruning,    \* a retention batch that is selected but not committed
    ledger      \* history variable: every change ever committed

dbVars == <<rows, log, receipts, watermark, nextSeq, minSeq, ledger>>
vars == <<now, active, rows, log, receipts, watermark, revoked, nextSeq,
          minSeq, request, tx, reply, reading, pruning, ledger>>

Item == [op : OpId, seq : Nat]
Positive == Nat \ {0}

ASSUME ServerAssumption ==
    /\ IsFiniteSet(OpId) /\ IsFiniteSet(Device)
    /\ Batches \subseteq Seq(Item)
    /\ Cursor \subseteq Nat
    /\ PageOrder \in Seq(Entity)
    \* By type and id: a page goes on behind the last row of the one before.
    /\ \A e \in Entity : \E i \in DOMAIN PageOrder : PageOrder[i] = e
    /\ \A i, j \in DOMAIN PageOrder : PageOrder[i] = PageOrder[j] => i = j
    /\ PageLimit \in Positive /\ PruneBatch \in Positive
    /\ Retention \in Nat /\ MaxClock \in Nat

Change == [serverSeq : Positive, op : OpId, dev : Device, seq : Nat, at : Nat]
Receipt == [op : OpId, dev : Device, seq : Nat, serverSeq : Nat,
            status : {"applied", "rejected"}, at : Nat]
Ack == [op : OpId, status : {"applied", "rejected", "already_processed"}]
Request == [dev : Device, cursor : Nat, batch : Seq(Item), at : Nat]
Reply == [dev : Device, cursor : Nat, acks : Seq(Ack),
          changes : SUBSET Change, next : Nat, more : BOOLEAN]

\* known, floor: the receipts and the watermark as they were read under the
\* locks; the rest is what the transaction has written so far.
Transaction == [conn : Conn, todo : Seq(Item), acks : Seq(Ack),
                known : SUBSET Receipt, floor : Nat, expected : Positive,
                next : Positive, rows : Rows, changes : SUBSET Change,
                receipts : SUBSET Receipt]

Bootstrap == [cursor : Nat, at : Nat, pos : Positive, got : Rows]
Prune == [batch : SUBSET Change, seen : (SUBSET Change) \cup {None}]

TypeOK ==
    /\ now \in Nat /\ active \in BOOLEAN
    /\ rows \in Rows
    /\ log \subseteq Change /\ ledger \subseteq Change
    /\ receipts \subseteq Receipt
    /\ watermark \in [Device -> Nat]
    /\ revoked \subseteq Device
    /\ nextSeq \in Positive /\ minSeq \in Positive
    /\ request \in [Conn -> Request \cup {None}]
    /\ tx \in Transaction \cup {None}
    /\ reply \in [Conn -> Reply \cup {None}]
    /\ reading \in [Reader -> Bootstrap \cup {None}]
    /\ pruning \in [Job -> Prune \cup {None}]

Init ==
    /\ now = 0 /\ active = TRUE
    /\ rows = [e \in Entity |-> Absent]
    /\ log = {} /\ ledger = {} /\ receipts = {}
    /\ watermark = [d \in Device |-> 0]
    /\ revoked = {}
    /\ nextSeq = 1 /\ minSeq = 1
    /\ request = [c \in Conn |-> None]
    /\ tx = None
    /\ reply = [c \in Conn |-> None]
    /\ reading = [b \in Reader |-> None]
    /\ pruning = [j \in Job |-> None]

Tick ==
    /\ now < MaxClock
    /\ now' = now + 1
    /\ UNCHANGED <<active, dbVars, revoked, request, tx, reply, reading, pruning>>

----------------------------------------------------------------------------
(* POST /api/v1/sync *)

\* validate_batch: client_seq positive and strictly increasing, op_id unique.
ValidBatch(batch) ==
    /\ \A i \in DOMAIN batch : batch[i].seq > 0
    /\ \A i, j \in DOMAIN batch : i < j => /\ batch[i].seq < batch[j].seq
                                           /\ batch[i].op # batch[j].op

\* pool.begin(): created_at of everything the transaction writes is now().
Begin(c, d) ==
    /\ request[c] = None
    /\ \E batch \in Batches, cursor \in Cursor :
          /\ ValidBatch(batch)
          /\ request' = [request EXCEPT ![c] =
                [dev |-> d, cursor |-> cursor, batch |-> batch, at |-> now]]
    /\ UNCHANGED <<now, active, dbVars, revoked, tx, reply, reading, pruning>>

\* INVALID_CURSOR beyond what was allocated, CURSOR_EXPIRED below the
\* earliest cursor that the retained log can serve.
CursorReadable(cursor) == cursor <= nextSeq - 1 /\ cursor >= minSeq - 1

\* Slip: the device is not looked at.
AdmittedRevoked(c) == active /\ CursorReadable(request[c].cursor)

Admitted(c) ==
    /\ active
    /\ CursorReadable(request[c].cursor)
    /\ request[c].dev \notin revoked

Waiting(c) == request[c] # None /\ reply[c] = None /\ tx = None

\* Slip: the number is taken from the receipts that are left.
LastSeqOfReceipts(d) ==
    LET seqs == {r.seq : r \in {r \in receipts : r.dev = d}} \cup {0}
    IN  CHOOSE n \in seqs : \A k \in seqs : k <= n

\* devices.last_client_seq, as the transaction reads it.
LastSeq(d) == watermark[d]

\* SELECT ... FOR UPDATE on the user, the sync state and the device.
Acquire(c) ==
    /\ Waiting(c)
    /\ Admitted(c)
    /\ tx' = [conn |-> c, todo |-> request[c].batch, acks |-> <<>>,
              known |-> receipts, floor |-> LastSeq(request[c].dev),
              expected |-> LastSeq(request[c].dev) + 1, next |-> nextSeq,
              rows |-> rows, changes |-> {}, receipts |-> {}]
    /\ UNCHANGED <<now, active, dbVars, revoked, request, reply, reading, pruning>>

\* The account is deleted, the cursor unreadable or the device revoked.
Refuse(c) ==
    /\ Waiting(c)
    /\ ~Admitted(c)
    /\ request' = [request EXCEPT ![c] = None]
    /\ UNCHANGED <<now, active, dbVars, revoked, tx, reply, reading, pruning>>

Holds(c) == tx # None /\ tx.conn = c

Working(c) == Holds(c) /\ tx.todo # <<>>

ReceiptsOf(item) == {r \in tx.known : r.op = item.op}

\* A receipt of another operation under the sequence number of this one.
SeqTaken(c, item) ==
    \E r \in tx.known : /\ r.dev = request[c].dev
                        /\ r.seq = item.seq
                        /\ r.op # item.op

\* The same operation of the same device was answered before.
Retried(c, item, r) == r.dev = request[c].dev /\ r.seq = item.seq

\* The receipt is gone; the watermark tells that the number was decided.
Covered(c, item) ==
    /\ ReceiptsOf(item) = {}
    /\ ~SeqTaken(c, item)
    /\ item.seq <= tx.floor

\* Slip: any number without a receipt will do.
IsNextAnyNumber(c, item) == ReceiptsOf(item) = {} /\ ~SeqTaken(c, item)

\* The operation is the next one of its device.
IsNext(c, item) ==
    /\ ReceiptsOf(item) = {}
    /\ ~SeqTaken(c, item)
    /\ item.seq > tx.floor
    /\ item.seq = tx.expected

Answered(item, status) ==
    [tx EXCEPT !.todo = Tail(@),
               !.acks = Append(@, [op |-> item.op, status |-> status])]

AnswerFromReceipt(c) ==
    /\ Working(c)
    /\ \E r \in ReceiptsOf(Head(tx.todo)) :
          /\ Retried(c, Head(tx.todo), r)
          /\ tx' = Answered(Head(tx.todo), r.status)
    /\ UNCHANGED <<now, active, dbVars, revoked, request, reply, reading, pruning>>

AnswerFromWatermark(c) ==
    /\ Working(c)
    /\ Covered(c, Head(tx.todo))
    /\ tx' = Answered(Head(tx.todo), "already_processed")
    /\ UNCHANGED <<now, active, dbVars, revoked, request, reply, reading, pruning>>

\* The row, the change log entry and the receipt, all under one server_seq.
Applied(c, item) ==
    LET dev == request[c].dev
        at  == request[c].at
    IN  [Answered(item, "applied") EXCEPT
            !.expected = @ + 1,
            !.next = @ + 1,
            !.rows = ApplyMutation(@, Content[item.op], at),
            !.changes = @ \cup
               {[serverSeq |-> tx.next, op |-> item.op, dev |-> dev,
                 seq |-> item.seq, at |-> at]},
            !.receipts = @ \cup
               {[op |-> item.op, dev |-> dev, seq |-> item.seq,
                 serverSeq |-> tx.next, status |-> "applied", at |-> at]}]

\* Slip: a rejected operation uses up a server_seq.
RejectedTakesNumber(c, item) ==
    [Answered(item, "rejected") EXCEPT
        !.expected = @ + 1,
        !.next = @ + 1,
        !.receipts = @ \cup
           {[op |-> item.op, dev |-> request[c].dev, seq |-> item.seq,
             serverSeq |-> 0, status |-> "rejected", at |-> request[c].at]}]

\* ROLLBACK TO SAVEPOINT, then a receipt without a server_seq.
Rejected(c, item) ==
    [Answered(item, "rejected") EXCEPT
        !.expected = @ + 1,
        !.receipts = @ \cup
           {[op |-> item.op, dev |-> request[c].dev, seq |-> item.seq,
             serverSeq |-> 0, status |-> "rejected", at |-> request[c].at]}]

ApplyNext(c) ==
    /\ Working(c)
    /\ IsNext(c, Head(tx.todo))
    /\ Accepts(tx.rows, Content[Head(tx.todo).op])
    /\ tx' = Applied(c, Head(tx.todo))
    /\ UNCHANGED <<now, active, dbVars, revoked, request, reply, reading, pruning>>

RejectNext(c) ==
    /\ Working(c)
    /\ IsNext(c, Head(tx.todo))
    /\ ~Accepts(tx.rows, Content[Head(tx.todo).op])
    /\ tx' = Rejected(c, Head(tx.todo))
    /\ UNCHANGED <<now, active, dbVars, revoked, request, reply, reading, pruning>>

\* Slip: only a number that is ahead is refused.
SequenceMismatchAhead(c) ==
    /\ Working(c)
    /\ Head(tx.todo).seq > tx.expected
    /\ tx' = None
    /\ request' = [request EXCEPT ![c] = None]
    /\ UNCHANGED <<now, active, dbVars, revoked, reply, reading, pruning>>

\* 409 SEQUENCE_MISMATCH rolls back the operations before it as well.
SequenceMismatch(c) ==
    /\ Working(c)
    /\ LET item == Head(tx.todo)
       IN  /\ \A r \in ReceiptsOf(item) : ~Retried(c, item, r)
           /\ ~Covered(c, item)
           /\ ~IsNext(c, item)
    /\ tx' = None
    /\ request' = [request EXCEPT ![c] = None]
    /\ UNCHANGED <<now, active, dbVars, revoked, reply, reading, pruning>>

\* The service stops, the connection drops or a statement fails.
Crash(c) ==
    /\ Holds(c)
    /\ tx' = None
    /\ request' = [request EXCEPT ![c] = None]
    /\ UNCHANGED <<now, active, dbVars, revoked, reply, reading, pruning>>

\* The first PageLimit changes after a cursor.
Page(changes, cursor) ==
    LET after == {ch \in changes : ch.serverSeq > cursor}
    IN  {ch \in after :
            Cardinality({x \in after : x.serverSeq < ch.serverSeq}) < PageLimit}

\* Slip: the cursor moves to the head of the log.
NextCursorHead(page, cursor) == tx.next - 1

\* next_cursor: the last change returned, or the cursor that came in.
NextCursor(page, cursor) ==
    IF page = {} THEN cursor
    ELSE CHOOSE s \in {ch.serverSeq : ch \in page} :
            \A ch \in page : ch.serverSeq <= s

\* Slip: the last number of the batch, although a retry may end below.
WatermarkOfBatch(c) == request[c].batch[Len(request[c].batch)].seq

\* Slip: only the operations that were applied count.
WatermarkOfApplied(c) ==
    LET seqs == {ch.seq : ch \in tx.changes} \cup {watermark[request[c].dev]}
    IN  CHOOSE n \in seqs : \A k \in seqs : k <= n

\* last_client_seq only moves forward.
WatermarkAfter(c) ==
    IF tx.expected - 1 > tx.floor THEN tx.expected - 1 ELSE watermark[request[c].dev]

Commit(c) ==
    /\ Holds(c) /\ tx.todo = <<>>
    /\ LET visible == log \cup tx.changes
           cursor  == request[c].cursor
           page    == Page(visible, cursor)
       IN  /\ log' = visible
           /\ reply' = [reply EXCEPT ![c] =
                [dev |-> request[c].dev, cursor |-> cursor, acks |-> tx.acks,
                 changes |-> page, next |-> NextCursor(page, cursor),
                 more |-> \E ch \in visible : ch.serverSeq > cursor /\ ch \notin page]]
    /\ ledger' = ledger \cup tx.changes
    /\ rows' = tx.rows
    /\ receipts' = receipts \cup tx.receipts
    /\ watermark' = [watermark EXCEPT ![request[c].dev] = WatermarkAfter(c)]
    /\ nextSeq' = tx.next
    /\ tx' = None
    /\ UNCHANGED <<now, active, revoked, minSeq, request, reading, pruning>>

\* The answer reaches the device, or is lost on the way.
Answer(c) ==
    /\ reply[c] # None
    /\ reply' = [reply EXCEPT ![c] = None]
    /\ request' = [request EXCEPT ![c] = None]
    /\ UNCHANGED <<now, active, dbVars, revoked, tx, reading, pruning>>

----------------------------------------------------------------------------
(* DELETE /api/v1/devices/{id} and DELETE /api/v1/account: both take the   *)
(* lock on the user row first, so they wait for a sync transaction.        *)

RevokeDevice(d) ==
    /\ tx = None
    /\ active
    /\ d \notin revoked
    /\ revoked' = revoked \cup {d}
    /\ UNCHANGED <<now, active, dbVars, request, tx, reply, reading, pruning>>

DeleteAccount ==
    /\ tx = None
    /\ active
    /\ active' = FALSE
    /\ revoked' = Device
    /\ UNCHANGED <<now, dbVars, request, tx, reply, reading, pruning>>

----------------------------------------------------------------------------
(* GET /api/v1/sync/bootstrap takes no lock. Its first page fixes the      *)
(* cursor and the time; every page is a statement of its own, here of one  *)
(* row (limit 1), over the rows committed when it runs.                    *)

OpenBootstrap(b) ==
    /\ reading[b] = None
    /\ reading' = [reading EXCEPT ![b] =
            [cursor |-> nextSeq - 1, at |-> now, pos |-> 1,
             got |-> [e \in Entity |-> Absent]]]
    /\ UNCHANGED <<now, active, dbVars, revoked, request, tx, reply, pruning>>

Read(b) == reading[b] # None /\ reading[b].pos > Len(PageOrder)

\* The row of the page, as it is committed now; tombstones are listed too.
Listed(b, e) ==
    IF rows[e] # Absent /\ rows[e].created <= reading[b].at THEN rows[e] ELSE Absent

\* Slip: the last page brings the cursor that is current then.
PageReadLateCursor(b) ==
    LET e == PageOrder[reading[b].pos]
    IN  [reading[b] EXCEPT !.pos = @ + 1, !.got[e] = Listed(b, e),
                           !.cursor = nextSeq - 1]

PageRead(b) ==
    LET e == PageOrder[reading[b].pos]
    IN  [reading[b] EXCEPT !.pos = @ + 1, !.got[e] = Listed(b, e)]

NextPage(b) ==
    /\ reading[b] # None /\ ~Read(b)
    /\ reading' = [reading EXCEPT ![b] = PageRead(b)]
    /\ UNCHANGED <<now, active, dbVars, revoked, request, tx, reply, pruning>>

\* The client has its snapshot, or gives up; it may start again.
CloseBootstrap(b) ==
    /\ reading[b] # None
    /\ reading' = [reading EXCEPT ![b] = None]
    /\ UNCHANGED <<now, active, dbVars, revoked, request, tx, reply, pruning>>

----------------------------------------------------------------------------
(* todo-api ops cleanup and prune-change-log. The cutoff is computed when  *)
(* the job starts, so it may be older than the clock minus the retention.  *)

\* One batch of delete_batches: ORDER BY created_at LIMIT, of any size.
CleanupReceipts ==
    /\ Job # {}
    /\ \E batch \in SUBSET receipts \ {{}} :
          /\ \A r \in batch : /\ r.at < now - Retention
                              /\ \A s \in receipts \ batch : r.at <= s.at
          /\ receipts' = receipts \ batch
    /\ UNCHANGED <<now, active, rows, log, watermark, revoked, nextSeq, minSeq,
                   request, tx, reply, reading, pruning, ledger>>

Before(a, b) == a.at < b.at \/ (a.at = b.at /\ a.serverSeq < b.serverSeq)

\* ORDER BY created_at, user_id, server_seq LIMIT batch FOR UPDATE SKIP LOCKED
SelectPrune(j) ==
    /\ pruning[j] = None
    /\ \E cutoff \in 1..(now - Retention) :
          LET locked == UNION {pruning[k].batch : k \in {k \in Job : pruning[k] # None}}
              old    == {ch \in log \ locked : ch.at < cutoff}
          IN  /\ old # {}
              /\ pruning' = [pruning EXCEPT ![j] =
                    [batch |-> {ch \in old :
                        Cardinality({x \in old : Before(x, ch)}) < PruneBatch},
                     seen |-> None]]
    /\ UNCHANGED <<now, active, dbVars, revoked, request, tx, reply, reading>>

\* The UPDATE of account_sync_state starts: its subquery reads the change log
\* as committed now, without the rows that this job has just deleted.
StartFloor(j) ==
    /\ pruning[j] # None
    /\ pruning[j].seen = None
    /\ pruning' = [pruning EXCEPT ![j].seen = log \ pruning[j].batch]
    /\ UNCHANGED <<now, active, dbVars, revoked, request, tx, reply, reading>>

\* Slip: an empty log leaves the floor where it is.
FirstKeptOfSome(kept) ==
    IF kept = {} THEN minSeq
    ELSE CHOOSE s \in {ch.serverSeq : ch \in kept} :
            \A ch \in kept : s <= ch.serverSeq

\* MIN(server_seq) of the rows that the UPDATE saw, or next_server_seq.
FirstKept(kept) ==
    IF kept = {} THEN nextSeq
    ELSE CHOOSE s \in {ch.serverSeq : ch \in kept} :
            \A ch \in kept : s <= ch.serverSeq

\* The UPDATE waits for the row lock of a sync transaction; it then reads the
\* new version of the state row, but still its old view of the change log.
CommitPrune(j) ==
    /\ pruning[j] # None
    /\ pruning[j].seen # None
    /\ tx = None
    /\ log' = log \ pruning[j].batch
    /\ LET first == FirstKept(pruning[j].seen)
       IN  minSeq' = IF first > minSeq THEN first ELSE minSeq
    /\ pruning' = [pruning EXCEPT ![j] = None]
    /\ UNCHANGED <<now, active, rows, receipts, watermark, revoked, nextSeq,
                   request, tx, reply, reading, ledger>>

----------------------------------------------------------------------------
SyncStep(c) ==
    \/ Acquire(c) \/ Refuse(c)
    \/ AnswerFromReceipt(c) \/ AnswerFromWatermark(c)
    \/ ApplyNext(c) \/ RejectNext(c) \/ SequenceMismatch(c)
    \/ Commit(c)

Next ==
    \/ Tick
    \/ \E c \in Conn :
          \/ \E d \in Device : Begin(c, d)
          \/ SyncStep(c)
          \/ Crash(c)
          \/ Answer(c)
    \/ \E d \in Device : RevokeDevice(d)
    \/ DeleteAccount
    \/ \E b \in Reader : OpenBootstrap(b) \/ NextPage(b) \/ CloseBootstrap(b)
    \/ CleanupReceipts
    \/ \E j \in Job : SelectPrune(j) \/ StartFloor(j) \/ CommitPrune(j)

Spec == Init /\ [][Next]_vars

\* Row locks are granted in the order they were asked for, and a transaction
\* that holds them runs to its end: no connection waits for ever.
Fairness == \A c \in Conn : WF_vars(SyncStep(c)) /\ SF_vars(Acquire(c) \/ Refuse(c))

FairSpec == Spec /\ Fairness

----------------------------------------------------------------------------
(* Safety. *)

(***************************************************************************)
(* A sequence number of a device is applied at most once, whatever is      *)
(* retried, on whichever connection, before or after its receipt is        *)
(* removed: two changes of one device never share a client_seq.            *)
(***************************************************************************)
AppliedOnce ==
    \A a, b \in ledger : a.dev = b.dev /\ a.seq = b.seq => a = b

(***************************************************************************)
(* The watermark of a device covers everything that was decided for it, so *)
(* that receipts may be removed: no change and no receipt lies above it.   *)
(***************************************************************************)
WatermarkCovers ==
    /\ \A ch \in ledger : ch.seq <= watermark[ch.dev]
    /\ \A r \in receipts : r.seq <= watermark[r.dev]

(***************************************************************************)
(* server_seq has no gap and no duplicate: the changes ever committed are  *)
(* numbered 1 to next_server_seq - 1, across rejected operations, rolled   *)
(* back batches and crashes.                                               *)
(***************************************************************************)
ServerSeqDense ==
    /\ {ch.serverSeq : ch \in ledger} = 1..(nextSeq - 1)
    /\ \A a, b \in ledger : a.serverSeq = b.serverSeq => a = b

(***************************************************************************)
(* A receipt repeats what was decided: an applied one names the change it  *)
(* produced, a rejected one has produced none, and an operation or a       *)
(* sequence number of a device has one receipt at most.                    *)
(***************************************************************************)
ReceiptsAreTrue ==
    /\ \A r \in receipts :
          LET produced == {ch \in ledger : ch.dev = r.dev /\ ch.seq = r.seq}
          IN  IF r.status = "applied"
              THEN \E ch \in produced : ch.serverSeq = r.serverSeq /\ ch.op = r.op
              ELSE produced = {}
    /\ \A q, r \in receipts :
          q.op = r.op \/ (q.dev = r.dev /\ q.seq = r.seq) => q = r

(***************************************************************************)
(* The operations of a device take effect in the order it issued them.     *)
(***************************************************************************)
DeviceOrder ==
    \A a, b \in ledger : a.dev = b.dev /\ a.seq < b.seq => a.serverSeq < b.serverSeq

\* The mutation under a number.
MutationAt(changes, s) == Content[(CHOOSE ch \in changes : ch.serverSeq = s).op]

\* The rows that a client holds after the changes numbered from + 1 to upto.
Replay(changes, base, from, upto) ==
    LET held[s \in from..upto] ==
            IF s = from THEN base
            ELSE [held[s - 1] EXCEPT ![MutationAt(changes, s).entity] =
                                        Merge(@, MutationAt(changes, s))]
    IN  held[upto]

\* What a device shows of a row: created_at plays no part.
Shown(table) ==
    [e \in Entity |-> IF table[e] = Absent THEN Absent
                      ELSE [table[e] EXCEPT !.created = 0]]

NoRows == [e \in Entity |-> Absent]

(***************************************************************************)
(* The change log carries the whole truth: a client that folds every       *)
(* committed change, checking nothing, holds the rows of the server.       *)
(***************************************************************************)
LogRebuildsRows == Shown(Replay(ledger, NoRows, 0, nextSeq - 1)) = Shown(rows)

(***************************************************************************)
(* A bootstrap is no snapshot: its pages are read one after the other      *)
(* while other devices commit. With the changes after its cursor folded in *)
(* it nevertheless gives the rows of the server.                           *)
(***************************************************************************)
BootstrapConverges ==
    \A b \in Reader : Read(b) =>
        Shown(Replay(ledger, reading[b].got, reading[b].cursor, nextSeq - 1)) = Shown(rows)

(***************************************************************************)
(* An answer leaves nothing out: its changes are all those numbered from   *)
(* the cursor that came in to the cursor that goes out.                    *)
(***************************************************************************)
AnswersHaveNoGap ==
    \A c \in Conn : reply[c] # None =>
        {ch.serverSeq : ch \in reply[c].changes} = (reply[c].cursor + 1)..reply[c].next

(***************************************************************************)
(* Every cursor that the service accepts can be served: nothing between    *)
(* min_available_seq and next_server_seq is missing from the log.          *)
(***************************************************************************)
ReadableIsRetained ==
    \A s \in minSeq..(nextSeq - 1) : \E ch \in log : ch.serverSeq = s

\* Transactions of the account committed in the order they began.
StampsInOrder ==
    \A a, b \in ledger : a.serverSeq < b.serverSeq => a.at <= b.at

(***************************************************************************)
(* One retention job removes a prefix of the log and raises the floor      *)
(* above all of it, as long as transactions commit in the order they began.*)
(***************************************************************************)
PruneIsPrefix == StampsInOrder => ReadableIsRetained

----------------------------------------------------------------------------
(* What a step may never do. *)

(***************************************************************************)
(* A tombstone is left only by an accepted restore: no late patch, create  *)
(* or delete of a device that has not heard of it revives or alters a row. *)
(***************************************************************************)
TombstonesHold ==
    [][\A e \in Entity :
          (rows[e] # Absent /\ rows[e].deleted /\ rows'[e] # rows[e]) =>
              \E ch \in ledger' \ ledger :
                  Content[ch.op].entity = e /\ Content[ch.op].kind = "restore"]_vars

(***************************************************************************)
(* No change is committed for a device after its revocation, nor for an    *)
(* account after its deletion, even by a transaction that began before.    *)
(***************************************************************************)
RevocationIsFinal ==
    [][ledger' # ledger =>
          /\ active
          /\ \A ch \in ledger' \ ledger : ch.dev \notin revoked]_vars

----------------------------------------------------------------------------
(* Liveness. *)

(***************************************************************************)
(* Every request is settled: answered, refused or rolled back.             *)
(***************************************************************************)
RequestsSettle ==
    \A c \in Conn :
        (request[c] # None /\ reply[c] = None) ~> (request[c] = None \/ reply[c] # None)

----------------------------------------------------------------------------
(* The abstract promise: an append-only ledger per account. *)

HistoryOf(changes, next) ==
    [s \in 1..(next - 1) |->
        LET ch == CHOOSE ch \in changes : ch.serverSeq = s
        IN  [op |-> ch.op, dev |-> ch.dev, seq |-> ch.seq]]

History == HistoryOf(ledger, nextSeq)

Ledger == INSTANCE SyncLedger WITH history <- History, decided <- watermark

(***************************************************************************)
(* The service implements the ledger of SyncLedger.                        *)
(***************************************************************************)
ImplementsLedger == Ledger!Spec
============================================================================
