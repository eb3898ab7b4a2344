---------------------------- MODULE SyncProtocol ----------------------------
(***************************************************************************)
(* The devices of one account and the sync service between them. A device  *)
(* is the web repository (adapters/web-repository.ts: view, outbox,        *)
(* shadow, cursor in IndexedDB) with the sync engine (packages/sync) that  *)
(* runs on it. The service handles a request in one step here; SyncServer  *)
(* shows what its transactions look like inside.                           *)
(*                                                                         *)
(* A run of the engine sends what is pending, receives acks and changes    *)
(* and applies them; the user edits between any two of its steps. A run    *)
(* may stop anywhere (the network fails, the page is closed), and the      *)
(* request it leaves behind may still be served much later.                *)
(***************************************************************************)
EXTENDS AccountData, SequencesExt

CONSTANTS
    Client,     \* devices, each with an id of its own and one engine
    Commands,   \* what the user of a device may do: sequences of operations
    Mirrored,   \* MUTABLE_FIELDS: the columns that a device takes over
    Limit,      \* batchSize, for operations sent and for changes received
    IdOrder,    \* the entities in the order of their ids (UUIDv7)
    MaxDrops,   \* bound: how many runs stop half-way
    Expires,    \* whether the retention job prunes the change log
    Forgets     \* whether it removes receipts

VARIABLES
    \* the service
    rows,       \* the rows of the account
    log,        \* every change, in the order of server_seq
    floor,      \* min_available_seq - 1: the changes up to it are pruned
    receipts,   \* op_receipts
    mark,       \* devices.last_client_seq
    \* the devices
    view,       \* tables lists, tasks, steps, dayPlans: what the user sees
    outbox,     \* table mutations: the operations of the device by their clientSeq
    issued,     \* every operation of the device; its length is meta.clientSeq
    shadow,     \* table shadow: the rows as the service last told
    cursor,     \* meta.syncCursor
    run,        \* what the engine is doing
    cleared,    \* rejected operations that the user gave up (history)
    \* the network
    late,       \* requests that were given up and may still arrive
    drops       \* how many runs stopped half-way

server == <<rows, log, floor, receipts, mark>>
store == <<view, outbox, issued, shadow, cursor, cleared>>
vars == <<server, store, run, late, drops>>

Item == [op : OpId, seq : Nat]

ASSUME ProtocolAssumption ==
    /\ Commands \in [Client -> SUBSET Seq(OpId)]
    /\ Mirrored \subseteq Column
    /\ Limit \in Nat \ {0}
    /\ IdOrder \in Seq(Entity) /\ \A e \in Entity : Contains(IdOrder, e)
    /\ MaxDrops \in Nat
    /\ Expires \in BOOLEAN /\ Forgets \in BOOLEAN

Change == [op : OpId, dev : Client, seq : Nat]
Receipt == [op : OpId, dev : Client, seq : Nat, status : {"applied", "rejected"}]
Ack == [op : OpId, status : {"applied", "rejected", "already_processed"}]
StoredMutation == [op : OpId, status : {"pending", "rejected"}]

Run ==
    [phase : {"idle", "expired"}] \cup
    [phase : {"asking"}, batch : Seq(Item), cursor : Nat] \cup
    [phase : {"answered"}, acks : Seq(Ack), changes : Seq(Change), next : Nat] \cup
    [phase : {"paging"}, cursor : Nat, pos : Nat, got : Rows]

Idle == [phase |-> "idle"]

TypeOK ==
    /\ rows \in Rows /\ log \in Seq(Change) /\ floor \in 0..Len(log)
    /\ receipts \subseteq Receipt
    /\ mark \in [Client -> Nat]
    /\ view \in [Client -> Rows] /\ shadow \in [Client -> Rows]
    /\ issued \in [Client -> Seq(OpId)]
    /\ DOMAIN outbox = Client
    /\ \A c \in Client : \A s \in DOMAIN outbox[c] :
          s \in 1..Len(issued[c]) /\ outbox[c][s] \in StoredMutation
    /\ cursor \in [Client -> 0..Len(log)]
    /\ run \in [Client -> Run]
    /\ cleared \subseteq OpId
    /\ late \subseteq [dev : Client, batch : Seq(Item), cursor : Nat]
    /\ drops \in 0..MaxDrops

NoRows == [e \in Entity |-> Absent]

Init ==
    /\ rows = NoRows /\ log = <<>> /\ floor = 0 /\ receipts = {}
    /\ mark = [c \in Client |-> 0]
    /\ view = [c \in Client |-> NoRows] /\ shadow = [c \in Client |-> NoRows]
    /\ outbox = [c \in Client |-> <<>>] /\ issued = [c \in Client |-> <<>>]
    /\ cursor = [c \in Client |-> 0]
    /\ run = [c \in Client |-> Idle]
    /\ cleared = {} /\ late = {} /\ drops = 0

----------------------------------------------------------------------------
(* What a device keeps of a row. *)

\* The members of a sequence that lie in a set, in their order.
Filter(seq, S) ==
    LET f[n \in 0..Len(seq)] ==
            IF n = 0 THEN <<>>
            ELSE IF seq[n] \in S THEN Append(f[n - 1], seq[n]) ELSE f[n - 1]
    IN  f[Len(seq)]

EntityOf(o) == Content[o.op].entity
EntitiesOf(ops) == [i \in DOMAIN ops |-> EntityOf(ops[i])]

Waiting(box) == {s \in DOMAIN box : box[s].status = "pending"}
Rejected(box) == {s \in DOMAIN box : box[s].status = "rejected"}
PendingOn(box, e) == {s \in Waiting(box) : EntityOf(box[s]) = e}

\* The mutations with these numbers, in the order of clientSeq.
Listed(c, S) ==
    LET numbers == Filter([s \in 1..Len(issued[c]) |-> s], S)
    IN  [i \in DOMAIN numbers |-> [op |-> outbox[c][numbers[i]].op, seq |-> numbers[i]]]

Pending(c) == Listed(c, Waiting(outbox[c]))

\* Only the fields of MUTABLE_FIELDS are copied from a mutation.
Known(m) == [m EXCEPT !.val = [k \in DOMAIN @ \cap Mirrored |-> @[k]]]

\* taskFromData and the like rebuild a row from the fields they list.
Materialized(row) ==
    [row EXCEPT !.val = [k \in Column |-> IF k \in Mirrored THEN @[k] ELSE Default],
                !.created = 0]

\* A row with what is pending for it, up to a number, on top.
Folded(row, box, e, last) ==
    LET r[n \in 0..last] ==
            IF n = 0 THEN row
            ELSE IF n \in PendingOn(box, e) THEN Merge(r[n - 1], Known(Content[box[n].op]))
            ELSE r[n - 1]
    IN  r[last]

Projected(c, box, row, e) == Materialized(Folded(row, box, e, Len(issued[c])))

Before(f, g) == \E i, j \in DOMAIN IdOrder : i < j /\ IdOrder[i] = f /\ IdOrder[j] = g

\* dayPlans.where([taskId + localDate]).first(): the least id, the plan itself
\* included; what the user planned under another id disappears.
Displaced(table, e, row) ==
    LET slot == {f \in DayPlans :
                    /\ e \in DayPlans /\ table[f] # Absent
                    /\ table[f].parent = row.parent
                    /\ \A k \in SlotColumn : table[f].val[k] = row.val[k]}
    IN  {f \in slot \ {e} : \A g \in slot \ {f} : Before(f, g)}

\* reprojectEntity: the shadow row with what is pending on top. Without a
\* shadow row nothing happens.
Reproject(c, sh, box, table, e) ==
    IF sh[e] = Absent THEN table
    ELSE LET row == Projected(c, box, sh[e], e)
         IN  [f \in Entity |-> IF f = e THEN row
                               ELSE IF f \in Displaced(table, e, row) THEN Absent
                               ELSE table[f]]

\* Each entity once, where it first occurs (a Map keeps insertion order).
ReprojectEach(c, sh, box, table, entities) ==
    LET redo[n \in 0..Len(entities)] ==
            IF n = 0 THEN table
            ELSE IF \E i \in 1..(n - 1) : entities[i] = entities[n] THEN redo[n - 1]
            ELSE Reproject(c, sh, box, redo[n - 1], entities[n])
    IN  redo[Len(entities)]

----------------------------------------------------------------------------
(* The user. *)

\* The checks of createTask, patchTask, deleteTask, restoreTask, addToDay ...
\* against the rows of the device.
LocallyAllowed(table, m) ==
    \/ m.kind = "create" /\ CreateAllowed(table, m)
    \/ /\ m.kind = "patch" /\ Live(table, m.entity)
       /\ m.parent \in Entity => Live(table, m.parent)
    \/ m.kind = "delete" /\ Live(table, m.entity)
    \/ /\ m.kind = "restore" /\ table[m.entity] # Absent
       /\ m.entity \in DayPlans => /\ table[m.entity].deleted
                                   /\ Live(table, table[m.entity].parent)

\* deleteList takes every live task of the list out of it.
EmptiesList(table, command) ==
    \A i \in DOMAIN command :
        LET m == Content[command[i]]
        IN  (m.kind = "delete" /\ m.entity \in Lists) =>
                {Content[command[j]].entity : j \in (i + 1)..Len(command)} =
                {t \in Tasks : Live(table, t) /\ table[t].parent = m.entity}

\* The view after the first n operations of a command.
Edited(table, command, n) ==
    LET laid[i \in 0..n] ==
            IF i = 0 THEN table
            ELSE [laid[i - 1] EXCEPT ![Content[command[i]].entity] = Merge(@, Content[command[i]])]
    IN  laid[n]

NumberedFrom(last, command) ==
    [s \in (last + 1)..(last + Len(command)) |->
        [op |-> command[s - last], status |-> "pending"]]

\* The outbox with further mutations; no number is in both.
Added(box, more) ==
    [s \in DOMAIN box \cup DOMAIN more |-> IF s \in DOMAIN more THEN more[s] ELSE box[s]]

\* Slip: the numbers start after what is still in the outbox.
NumberedInOutbox(c, command) == NumberedFrom(Cardinality(DOMAIN outbox[c]), command)

\* appendMutation: clientSeq + 1 for every operation.
Numbered(c, command) == NumberedFrom(Len(issued[c]), command)

\* uuidv7: no operation has the id of another one.
FreshIds(command) ==
    /\ IsInjective(command)
    /\ \A i \in DOMAIN command : \A d \in Client : ~Contains(issued[d], command[i])

\* One user command: the view and the outbox change in one transaction.
Issue(c, command) ==
    /\ FreshIds(command)
    /\ \A i \in DOMAIN command :
          LocallyAllowed(Edited(view[c], command, i - 1), Content[command[i]])
    /\ EmptiesList(view[c], command)
    /\ view' = [view EXCEPT ![c] = Edited(@, command, Len(command))]
    /\ outbox' = [outbox EXCEPT ![c] = Added(@, Numbered(c, command))]
    /\ issued' = [issued EXCEPT ![c] = @ \o command]
    /\ UNCHANGED <<server, shadow, cursor, cleared, run, late, drops>>

\* syncClearRejected: the user gives up what the service did not accept.
ClearRejected(c) ==
    LET kept == Restrict(outbox[c], Waiting(outbox[c]))
        rejected == Listed(c, Rejected(outbox[c]))
    IN  /\ Rejected(outbox[c]) # {}
        /\ outbox' = [outbox EXCEPT ![c] = kept]
        /\ view' = [view EXCEPT ![c] =
              ReprojectEach(c, shadow[c], kept, @, EntitiesOf(rejected))]
        /\ cleared' = cleared \cup {o.op : o \in ToSet(rejected)}
        /\ UNCHANGED <<server, issued, shadow, cursor, run, late, drops>>

----------------------------------------------------------------------------
(* The service, one request in one step. *)

Acked(d, item, status) ==
    [d EXCEPT !.acks = Append(@, [op |-> item.op, status |-> status])]

Recorded(d, c, item, status) ==
    [Acked(d, item, status) EXCEPT
        !.expected = @ + 1,
        !.receipts = @ \cup {[op |-> item.op, dev |-> c, seq |-> item.seq,
                              status |-> status]}]

Retries(c, item, r) == r.op = item.op /\ r.dev = c /\ r.seq = item.seq

Collides(c, item, r) ==
    \/ r.op = item.op /\ ~Retries(c, item, r)
    \/ r.dev = c /\ r.seq = item.seq /\ r.op # item.op

\* Slip: only receipts tell what was decided.
CoveredNever(c, item) == FALSE

Covered(c, item) == item.seq <= mark[c]

\* One operation of a batch. A refused one fails the whole batch.
Decide(c, d, item) ==
    LET m == Content[item.op]
    IN  IF ~d.ok THEN d
        ELSE IF \E r \in receipts : Retries(c, item, r)
        THEN Acked(d, item, (CHOOSE r \in receipts : Retries(c, item, r)).status)
        ELSE IF \E r \in receipts : Collides(c, item, r) THEN [d EXCEPT !.ok = FALSE]
        ELSE IF Covered(c, item) THEN Acked(d, item, "already_processed")
        ELSE IF item.seq # d.expected THEN [d EXCEPT !.ok = FALSE]
        ELSE IF ~Accepts(d.rows, m) THEN Recorded(d, c, item, "rejected")
        ELSE [Recorded(d, c, item, "applied") EXCEPT
                 !.rows = ApplyMutation(@, m, Len(d.log) + 1),
                 !.log = Append(@, [op |-> item.op, dev |-> c, seq |-> item.seq])]

Decided(c, batch) ==
    LET d[n \in 0..Len(batch)] ==
            IF n = 0 THEN [ok |-> TRUE, acks |-> <<>>, rows |-> rows, log |-> log,
                           receipts |-> receipts, expected |-> mark[c] + 1]
            ELSE Decide(c, d[n - 1], batch[n])
    IN  d[Len(batch)]

\* Slip: the watermark is not stored.
CommittedUnmarked(c, d) ==
    /\ rows' = d.rows /\ log' = d.log /\ receipts' = d.receipts
    /\ UNCHANGED <<mark, floor>>

Committed(c, d) ==
    /\ rows' = d.rows /\ log' = d.log /\ receipts' = d.receipts
    /\ mark' = [mark EXCEPT ![c] = d.expected - 1]
    /\ UNCHANGED floor

\* CURSOR_EXPIRED below the retained log, before any operation is looked at.
Readable(at) == at >= floor

\* The acks, and the first Limit changes after the cursor of the request.
Answer(c, d) ==
    LET next == IF run[c].cursor + Limit < Len(d.log)
                THEN run[c].cursor + Limit ELSE Len(d.log)
    IN  [phase |-> "answered", acks |-> d.acks,
         changes |-> SubSeq(d.log, run[c].cursor + 1, next), next |-> next]

\* After SEQUENCE_MISMATCH the run ends with an error.
Serve(c) ==
    /\ run[c].phase = "asking" /\ Readable(run[c].cursor)
    /\ LET d == Decided(c, run[c].batch)
       IN  IF d.ok
           THEN Committed(c, d) /\ run' = [run EXCEPT ![c] = Answer(c, d)]
           ELSE UNCHANGED server /\ run' = [run EXCEPT ![c] = Idle]
    /\ UNCHANGED <<store, late, drops>>

Expired(c) ==
    /\ run[c].phase = "asking" /\ ~Readable(run[c].cursor)
    /\ run' = [run EXCEPT ![c] = [phase |-> "expired"]]
    /\ UNCHANGED <<server, store, late, drops>>

\* A request that nobody waits for any more.
ServeLate(q) ==
    /\ late' = late \ {q}
    /\ LET d == Decided(q.dev, q.batch)
       IN  IF Readable(q.cursor) /\ d.ok THEN Committed(q.dev, d) ELSE UNCHANGED server
    /\ UNCHANGED <<store, run, drops>>

\* The retention jobs; SyncServer shows when what they remove is a prefix.
Prune ==
    /\ Expires
    /\ \E n \in (floor + 1)..Len(log) : floor' = n
    /\ UNCHANGED <<rows, log, receipts, mark, store, run, late, drops>>

Forget ==
    /\ Forgets
    /\ \E r \in receipts : receipts' = receipts \ {r}
    /\ UNCHANGED <<rows, log, floor, mark, store, run, late, drops>>

----------------------------------------------------------------------------
(* The engine of a device. *)

\* getPendingMutations, getCursor, POST. Runs start on local changes, on
\* coming online or to the front, every 45 seconds, and after a run that left
\* something to do.
Send(c) ==
    /\ run[c].phase = "idle"
    /\ LET n == IF Len(Pending(c)) < Limit THEN Len(Pending(c)) ELSE Limit
       IN  run' = [run EXCEPT ![c] =
              [phase |-> "asking", cursor |-> cursor[c], batch |-> SubSeq(Pending(c), 1, n)]]
    /\ UNCHANGED <<server, store, late, drops>>

AcksOf(c, o) == {a \in ToSet(run[c].acks) : a.op = o.op}

\* Slip: a rejected mutation goes like an applied one.
OutboxUnacked(c) ==
    Restrict(outbox[c], {s \in DOMAIN outbox[c] : AcksOf(c, outbox[c][s]) = {}})

\* An ack removes its mutation, or marks it as rejected.
OutboxAfter(c) ==
    LET settled == {s \in DOMAIN outbox[c] :
                       \E a \in AcksOf(c, outbox[c][s]) : a.status # "rejected"}
    IN  [s \in DOMAIN outbox[c] \ settled |->
            IF AcksOf(c, outbox[c][s]) = {} THEN outbox[c][s]
            ELSE [outbox[c][s] EXCEPT !.status = "rejected"]]

\* applyServerChange, for one change.
FoldChange(row, ch) == [Merge(row, Known(Content[ch.op])) EXCEPT !.created = 0]

\* A row after the changes among these that concern it.
Told(row, e, changes) ==
    LET r[n \in 0..Len(changes)] ==
            IF n = 0 THEN row
            ELSE IF EntityOf(changes[n]) = e THEN FoldChange(r[n - 1], changes[n])
            ELSE r[n - 1]
    IN  r[Len(changes)]

ShadowAfter(table, changes) == [e \in Entity |-> Told(table[e], e, changes)]

\* syncApplyResult: acks, changes, reprojection and cursor in one transaction.
Apply(c) ==
    /\ run[c].phase = "answered"
    /\ LET sh == ShadowAfter(shadow[c], run[c].changes)
           acked == Filter(run[c].acks, {a \in ToSet(run[c].acks) :
                              \E s \in DOMAIN outbox[c] : outbox[c][s].op = a.op})
       IN  /\ shadow' = [shadow EXCEPT ![c] = sh]
           /\ outbox' = [outbox EXCEPT ![c] = OutboxAfter(c)]
           /\ view' = [view EXCEPT ![c] =
                 ReprojectEach(c, sh, OutboxAfter(c), @,
                               EntitiesOf(acked) \o EntitiesOf(run[c].changes))]
    /\ cursor' = [cursor EXCEPT ![c] = run[c].next]
    /\ run' = [run EXCEPT ![c] = Idle]
    /\ UNCHANGED <<server, issued, cleared, late, drops>>

\* The run stops here: no network, an error, or the page is closed. What the
\* repository holds stays; a request on its way may arrive later, or never.
Drop(c) ==
    /\ run[c].phase # "idle" /\ drops < MaxDrops
    /\ drops' = drops + 1
    /\ run' = [run EXCEPT ![c] = Idle]
    /\ \/ late' = late
       \/ /\ run[c].phase = "asking"
          /\ late' = late \cup
                {[dev |-> c, batch |-> run[c].batch, cursor |-> run[c].cursor]}
    /\ UNCHANGED <<server, store>>

----------------------------------------------------------------------------
(* Bootstrap after CURSOR_EXPIRED: a cursor first, then the rows, here one *)
(* to a page; rows created after the first page are left out.              *)

OpenBootstrap(c) ==
    /\ run[c].phase = "expired"
    /\ run' = [run EXCEPT ![c] = [phase |-> "paging", cursor |-> Len(log),
                                  pos |-> 1, got |-> NoRows]]
    /\ UNCHANGED <<server, store, late, drops>>

NextPage(c) ==
    /\ run[c].phase = "paging" /\ run[c].pos <= Len(IdOrder)
    /\ LET e == IdOrder[run[c].pos]
           listed == rows[e] # Absent /\ rows[e].created <= run[c].cursor
       IN  run' = [run EXCEPT ![c].pos = @ + 1,
                              ![c].got[e] = IF listed THEN Materialized(rows[e]) ELSE Absent]
    /\ UNCHANGED <<server, store, late, drops>>

\* Slip: what is pending is not replayed.
ReplacedBySnapshot(c, got) == got

\* The snapshot with what is pending on top; a row that the snapshot lacks is
\* kept as it is when something is pending for it, and dropped otherwise.
Replaced(c, got) ==
    [e \in Entity |->
        IF PendingOn(outbox[c], e) = {} THEN got[e]
        ELSE Projected(c, outbox[c], IF got[e] # Absent THEN got[e] ELSE view[c][e], e)]

\* Slip: the device believes to have seen everything.
ReplaceAtHead(c) ==
    /\ run[c].phase = "paging" /\ run[c].pos > Len(IdOrder)
    /\ view' = [view EXCEPT ![c] = Replaced(c, run[c].got)]
    /\ shadow' = [shadow EXCEPT ![c] = run[c].got]
    /\ cursor' = [cursor EXCEPT ![c] = Len(log)]
    /\ run' = [run EXCEPT ![c] = Idle]
    /\ UNCHANGED <<server, outbox, issued, cleared, late, drops>>

\* syncReplaceSnapshot; the outbox stays as it is.
Replace(c) ==
    /\ run[c].phase = "paging" /\ run[c].pos > Len(IdOrder)
    /\ view' = [view EXCEPT ![c] = Replaced(c, run[c].got)]
    /\ shadow' = [shadow EXCEPT ![c] = run[c].got]
    /\ cursor' = [cursor EXCEPT ![c] = run[c].cursor]
    /\ run' = [run EXCEPT ![c] = Idle]
    /\ UNCHANGED <<server, outbox, issued, cleared, late, drops>>

----------------------------------------------------------------------------
EngineStep(c) ==
    \/ Send(c) \/ Serve(c) \/ Expired(c) \/ Apply(c)
    \/ OpenBootstrap(c) \/ NextPage(c) \/ Replace(c)

UserStep(c) == ClearRejected(c) \/ \E command \in Commands[c] : Issue(c, command)

Next ==
    \/ \E c \in Client : EngineStep(c) \/ UserStep(c) \/ Drop(c)
    \/ \E q \in late : ServeLate(q)
    \/ Prune \/ Forget

Spec == Init /\ [][Next]_vars

\* A run is started again and again, and one that is not stopped goes on.
FairSpec == Spec /\ \A c \in Client : WF_vars(EngineStep(c))

----------------------------------------------------------------------------
(* Safety. *)

Applied(op) == \E i \in DOMAIN log : log[i].op = op

(***************************************************************************)
(* Nothing the user did gets lost silently: an operation is in the outbox, *)
(* pending or marked as rejected, or it has been applied, or the user has  *)
(* given it up, through lost answers, late requests and bootstraps.        *)
(***************************************************************************)
NoSilentLoss ==
    \A c \in Client : \A op \in ToSet(issued[c]) :
        \/ Applied(op) \/ op \in cleared
        \/ \E s \in DOMAIN outbox[c] : outbox[c][s].op = op

(***************************************************************************)
(* The outbox never jams: whenever a device sends what is pending, the     *)
(* service can decide all of it and never answers SEQUENCE_MISMATCH, even  *)
(* with requests of the same device still on their way or served late.     *)
(***************************************************************************)
OutboxNeverJams ==
    \A c \in Client : Decided(c, Pending(c)).ok

(***************************************************************************)
(* What the user did takes effect once, however often it was sent and      *)
(* whether or not its receipt is still there.                              *)
(***************************************************************************)
EffectOnce == \A i, j \in DOMAIN log : log[i].op = log[j].op => i = j

Shown(table) ==
    [e \in Entity |-> IF table[e] = Absent THEN Absent ELSE Materialized(table[e])]

(***************************************************************************)
(* The shadow of a device is right for its cursor: folding the changes it  *)
(* has not seen gives the rows of the service, after answers in pages as   *)
(* after a bootstrap read while others commit.                             *)
(***************************************************************************)
ShadowConverges ==
    \A c \in Client :
        ShadowAfter(shadow[c], SubSeq(log, cursor[c] + 1, Len(log))) = Shown(rows)

(***************************************************************************)
(* The view is the shadow with the pending operations on top: no accepted, *)
(* rejected or given-up operation leaves anything behind in it, whatever   *)
(* the order of edits and answers. (A row that the service never had is    *)
(* not covered: reprojection passes it by. A day plan may be displaced by  *)
(* another one of its slot.)                                               *)
(***************************************************************************)
ViewIsProjection ==
    \A c \in Client : \A e \in Entity :
        shadow[c][e] # Absent =>
            \/ view[c][e] = Projected(c, outbox[c], shadow[c][e], e)
            \/ e \in DayPlans /\ view[c][e] = Absent

(***************************************************************************)
(* Remote changes never overwrite local input: for every column, the value *)
(* of the last pending operation that carries it is what the user sees.    *)
(***************************************************************************)
PendingShows ==
    \A c \in Client : \A e \in Lists \cup Tasks \cup Steps : \A k \in Column :
        LET carrying == {s \in PendingOn(outbox[c], e) :
                            k \in DOMAIN Content[outbox[c][s].op].val}
        IN  \A s \in carrying : (\A u \in carrying : u <= s) =>
                /\ view[c][e] # Absent
                /\ view[c][e].val[k] = Content[outbox[c][s].op].val[k]

(***************************************************************************)
(* Only what is really unconfirmed is replayed: no pending operation lies  *)
(* among the changes that the shadow already holds.                        *)
(***************************************************************************)
PendingAboveCursor ==
    \A c \in Client : \A i \in 1..cursor[c] :
        \A s \in Waiting(outbox[c]) : log[i].op # outbox[c][s].op

\* Nothing is under way and every device has heard everything.
Quiet ==
    /\ late = {}
    /\ \A c \in Client : /\ Waiting(outbox[c]) = {}
                         /\ run[c] = Idle
                         /\ cursor[c] = Len(log)

(***************************************************************************)
(* Once everything is synchronised no task refers to a deleted list.       *)
(***************************************************************************)
NoOrphans ==
    Quiet => \A t \in Tasks : Live(rows, t) /\ rows[t].parent \in Lists =>
                                  Live(rows, rows[t].parent)

(***************************************************************************)
(* Two devices that plan one task for one day end up with one plan: once   *)
(* everything is synchronised and no rejection is left, the view of no     *)
(* device holds two plans of a slot.                                       *)
(***************************************************************************)
OnePlanPerSlot ==
    Quiet => \A c \in Client : DOMAIN outbox[c] = {} =>
        \A f \in DayPlans : view[c][f] # Absent => SlotFree(view[c], f, view[c][f])

----------------------------------------------------------------------------
(* Liveness. *)

\* Everybody has sent everything and shows what the service has.
InStep ==
    \A c \in Client :
        /\ Waiting(outbox[c]) = {}
        /\ cursor[c] = Len(log)
        /\ \A e \in Entity : rows[e] # Absent => view[c][e] = Materialized(rows[e])

(***************************************************************************)
(* When the users stop and the network holds, all devices end up with the  *)
(* same rows and empty outboxes, and stay that way.                        *)
(***************************************************************************)
Converges == <>[]InStep

----------------------------------------------------------------------------
(* The abstract promise. *)

Ledger == INSTANCE SyncLedger WITH Device <- Client, history <- log, decided <- mark

(***************************************************************************)
(* Devices and service together implement the ledger of SyncLedger.        *)
(***************************************************************************)
ImplementsLedger == Ledger!Spec
============================================================================
