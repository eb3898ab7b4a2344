----------------------------- MODULE NativeStore -----------------------------
(***************************************************************************)
(* The store of a native app (crates/native-core): the commands of the     *)
(* user, the outbox, the first merge with an account and the answers of    *)
(* the service, in SQLite tables with foreign keys and a unique index. The *)
(* service handles a request in one step, and what other devices send      *)
(* appears in its log. Every command and every answer is one transaction:  *)
(* a constraint that fails rolls all of it back.                           *)
(*                                                                         *)
(* A device that signs in gets a new id and numbers its operations anew;   *)
(* its tables are then filled from the account, or merged with it.         *)
(***************************************************************************)
EXTENDS AccountData, SequencesExt

CONSTANTS
    Start,      \* what the account holds at first: a sequence of mutations
    Foreign,    \* what other devices send
    Fresh,      \* the ids that this device may give (UUIDv7)
    Input,      \* the values that the user enters
    Rank,       \* the column that orders tasks
    Limit,      \* operations and changes per request
    MaxEdits,   \* bound: commands of the user
    MaxOthers,  \* bound: operations of other devices
    MaxSignIns, \* bound: sign-ins, each with a device id
    MaxFaults,  \* bound: runs lost, restarts, sessions that end
    Expires     \* whether the service prunes its log

VARIABLES
    \* the service
    rows,       \* the rows of the account
    log,        \* change_log, every change since Start
    floor,      \* the changes up to it are pruned
    receipts,   \* op_receipts of this device, under all its ids
    mark,       \* devices.last_client_seq
    \* the database
    view,       \* local_lists, local_tasks, local_steps, local_day_plans
    shadow,     \* server_shadow
    outbox,     \* outbox, in the order of client_seq
    kv,         \* kv_state: device_id, client_seq, sync_cursor, sync_enabled, sync_session
    \* the controller above it
    phase,
    snapshot,   \* what was fetched for the sign-in
    run,        \* the run of the sync engine
    \* history and bounds
    minted,     \* the ids given so far
    issued,     \* how many operations were appended; the next gets this op_id
    buried,     \* rows that a merge took over as tombstones of this device
    wiped,      \* the data was cleared while device id and tokens were kept
    used

service == <<rows, log, floor, receipts, mark>>
tables == <<view, shadow, outbox, kv>>
history == <<minted, issued, buried, wiped>>
vars == <<service, tables, phase, snapshot, run, history, used>>

ASSUME StoreAssumption ==
    /\ Start \in Seq(Mutation) /\ Foreign \subseteq Mutation
    /\ Fresh \subseteq Entity /\ Input \subseteq Value /\ Value \subseteq Nat
    /\ Rank \in Column \ SlotColumn
    /\ Limit \in Nat \ {0}
    /\ {MaxEdits, MaxOthers, MaxSignIns, MaxFaults} \subseteq Nat
    /\ Expires \in BOOLEAN

Device == 0..MaxSignIns
Status == {"pending", "local", "rejected"}
StoredMutation == [op : Nat, seq : Nat, m : Mutation, status : Status]
Change == [op : Nat, m : Mutation]
Receipt == [op : Nat, dev : Device, seq : Nat, status : {"applied", "rejected"}]

\* "kept" is "expired" with the tokens still there: a start without network.
Phase == {"off", "rotated", "fetched", "on", "expired", "kept"}

NoRows == [e \in Entity |-> Absent]
Idle == [phase |-> "idle"]
NoSnapshot == [rows |-> NoRows, cursor |-> 0, session |-> 0, empty |-> TRUE]

TypeOK ==
    /\ rows \in Rows /\ view \in Rows /\ shadow \in Rows
    /\ log \in Seq(Change) /\ floor \in 0..Len(log)
    /\ receipts \subseteq Receipt
    /\ mark \in [Device -> Nat]
    /\ outbox \in Seq(StoredMutation)
    /\ kv \in [device : Device, seq : Nat, cursor : 0..Len(log), enabled : BOOLEAN,
               session : Nat]
    /\ phase \in Phase
    /\ snapshot \in [rows : Rows, cursor : Nat, session : Nat, empty : BOOLEAN]
    /\ run.phase \in {"idle", "asking", "answered", "snapshot"}
    /\ minted \subseteq Fresh /\ issued \in Nat
    /\ buried \subseteq Entity /\ wiped \in BOOLEAN
    /\ used \in [edits : 0..MaxEdits, others : 0..MaxOthers, faults : 0..MaxFaults,
                 sessions : Nat]

\* ensure_local_identity: a new database has an id, number and cursor 0.
Init ==
    /\ rows = FoldLeft(LAMBDA t, m : ApplyMutation(t, m, 0), NoRows, Start)
    /\ log = <<>> /\ floor = 0 /\ receipts = {} /\ mark = [d \in Device |-> 0]
    /\ view = NoRows /\ shadow = NoRows /\ outbox = <<>>
    /\ kv = [device |-> 0, seq |-> 0, cursor |-> 0, enabled |-> FALSE, session |-> 0]
    /\ phase = "off" /\ snapshot = NoSnapshot /\ run = Idle
    /\ minted = {} /\ issued = 0 /\ buried = {} /\ wiped = FALSE
    /\ used = [edits |-> 0, others |-> 0, faults |-> 0, sessions |-> 0]

----------------------------------------------------------------------------
(* The tables and their constraints. *)

\* list_id and task_id are foreign keys; a tombstone satisfies them.
Referenced(table, e, row) ==
    \/ e \in Lists
    \/ e \in Tasks /\ row.parent = NoParent
    \/ row.parent \in Entity /\ table[row.parent] # Absent

\* A statement on one row, within a transaction t that a constraint may end.
Put(t, e, row) ==
    IF t.ok /\ Referenced(t.table, e, row) /\ SlotFree(t.table, e, row)
    THEN [t EXCEPT !.table[e] = row]
    ELSE [t EXCEPT !.ok = FALSE]

\* entity_order: lists, tasks, steps, day plans.
InOrder(entities) ==
    FlattenSeq([i \in 1..4 |->
        SetToSeq(entities \cap <<Lists, Tasks, Steps, DayPlans>>[i])])

Pending(box) == SelectSeq(box, LAMBDA o : o.status = "pending")

PendingOn(box, e) == SelectSeq(Pending(box), LAMBDA o : o.m.entity = e)

\* apply_mutation_to_data, for one operation after the other.
Replayed(row, ops) == FoldLeft(LAMBDA r, o : Merge(r, o.m), row, ops)

\* The other plans in the slot of a plan.
Rivals(table, e, row) ==
    {f \in DayPlans \ {e} :
        /\ e \in DayPlans /\ table[f] # Absent /\ table[f].parent = row.parent
        /\ \A k \in SlotColumn : table[f].val[k] = row.val[k]}

\* upsert_entity_data: a list that is missing is left out, a row without its
\* task is passed by, and a plan removes its rivals.
Upsert(table, e, row) ==
    LET kept == IF e \in Tasks /\ ~Referenced(table, e, row)
                THEN [row EXCEPT !.parent = NoParent] ELSE row
    IN  IF e \in Steps \cup DayPlans /\ ~Referenced(table, e, row) THEN table
        ELSE [f \in Entity |-> IF f = e THEN kept
                               ELSE IF f \in Rivals(table, e, row) THEN Absent
                               ELSE table[f]]

\* Slip: what is pending is not replayed.
ReprojectShadow(table, sh, box, e) ==
    IF sh[e] = Absent THEN table ELSE Upsert(table, e, sh[e])

\* reproject_entity: the shadow with what is pending on top. Without a shadow
\* there is nothing to rebuild from.
Reproject(table, sh, box, e) ==
    IF sh[e] = Absent THEN table
    ELSE Upsert(table, e, Replayed(sh[e], PendingOn(box, e)))

ReprojectAll(table, sh, box, entities) ==
    FoldLeft(LAMBDA t, e : Reproject(t, sh, box, e), table, InOrder(entities))

----------------------------------------------------------------------------
(* The commands of the user. *)

NoField == [c \in {} |-> Default]
Make(e, parent, val) == [entity |-> e, kind |-> "create", parent |-> parent, val |-> val]
Alter(e, val) == [entity |-> e, kind |-> "patch", parent |-> Keep, val |-> val]
Move(e, parent) == [entity |-> e, kind |-> "patch", parent |-> parent, val |-> NoField]
Mark(e, kind) == [entity |-> e, kind |-> kind, parent |-> Keep, val |-> NoField]

\* The columns of a new row, and a change of one column.
Filled == [Column -> Input]
Edit == UNION {[{k} -> Input] : k \in Column \ SlotColumn}

\* Slip: the number is taken from the outbox alone.
LastSeqOfOutbox == Max({0} \cup {o.seq : o \in ToSet(outbox)})

\* append_mutation counts on from what it finds in kv_state and in the outbox.
LastSeq == Max({kv.seq} \cup {o.seq : o \in ToSet(outbox)})

Numbered(ops, last, status) ==
    [i \in DOMAIN ops |-> [op |-> issued + i, seq |-> last + i, m |-> ops[i],
                           status |-> status]]

\* One command: the rows and the outbox change in one transaction.
Execute(ops) ==
    LET after == FoldLeft(LAMBDA t, m : Put(t, m.entity, Merge(t.table[m.entity], m)),
                          [ok |-> TRUE, table |-> view], ops)
        status == IF kv.enabled THEN "pending" ELSE "local"
    IN  /\ used.edits < MaxEdits /\ used' = [used EXCEPT !.edits = @ + 1]
        /\ after.ok
        /\ view' = after.table
        /\ outbox' = outbox \o Numbered(ops, LastSeq, status)
        /\ kv' = [kv EXCEPT !.seq = LastSeq + Len(ops)]
        /\ issued' = issued + Len(ops)
        /\ minted' = minted \cup {ops[i].entity : i \in {j \in DOMAIN ops : ops[j].kind = "create"}}
        /\ UNCHANGED <<service, shadow, phase, snapshot, run, buried, wiped>>

New(table) == table \cap (Fresh \ minted)

\* ensure_active_list, or no list.
Shelf == {NoParent} \cup {l \in Lists : Live(view, l)}

CreateList == \E l \in New(Lists), val \in Filled : Execute(<<Make(l, NoParent, val)>>)

PatchList == \E l \in Lists, val \in Edit : Live(view, l) /\ Execute(<<Alter(l, val)>>)

\* Every live task of the list is taken out of it.
DeleteList ==
    \E l \in Lists :
        LET inside == SetToSeq({t \in Tasks : Live(view, t) /\ view[t].parent = l})
        IN  /\ Live(view, l)
            /\ Execute(<<Mark(l, "delete")>> \o
                       [i \in DOMAIN inside |-> Move(inside[i], NoParent)])

Deleted(e) == view[e] # Absent /\ view[e].deleted

RestoreList == \E l \in Lists : Deleted(l) /\ Execute(<<Mark(l, "restore")>>)

\* With a plan for a day, or without.
CreateTask ==
    \E t \in New(Tasks), list \in Shelf, val \in Filled :
        \/ Execute(<<Make(t, list, val)>>)
        \/ \E p \in New(DayPlans) : Execute(<<Make(t, list, val), Make(p, t, val)>>)

PatchTask ==
    \E t \in Tasks :
        /\ Live(view, t)
        /\ \/ \E val \in Edit : Execute(<<Alter(t, val)>>)
           \/ \E list \in Shelf : Execute(<<Move(t, list)>>)

\* The next task of a series comes into the same list, which must be active.
CommitCompletion ==
    \E t \in Tasks, next \in New(Tasks), val \in Edit :
        /\ Live(view, t) /\ view[t].parent \in Shelf
        /\ Execute(<<Alter(t, val), Make(next, view[t].parent, view[t].val)>>)

DeleteTask == \E t \in Tasks : Live(view, t) /\ Execute(<<Mark(t, "delete")>>)

\* Whatever became of its list.
RestoreTask == \E t \in Tasks : Deleted(t) /\ Execute(<<Mark(t, "restore")>>)

\* Neighbours of a list exchange their ranks.
ReorderTask ==
    \E t, u \in {t \in Tasks : Live(view, t)} :
        LET rank(w) == view[w].val[Rank]
            ranked(v) == [k \in {Rank} |-> v]
            between(w) == \/ rank(t) < rank(w) /\ rank(w) < rank(u)
                          \/ rank(u) < rank(w) /\ rank(w) < rank(t)
        IN  /\ t # u /\ view[t].parent = view[u].parent
            /\ \A w \in Tasks : Live(view, w) /\ view[w].parent = view[t].parent =>
                                 ~between(w)
            /\ Execute(<<Alter(t, ranked(rank(u))), Alter(u, ranked(rank(t)))>>)

Planned(t, val) ==
    {p \in DayPlans : /\ view[p] # Absent /\ view[p].parent = t
                      /\ \A k \in SlotColumn : view[p].val[k] = val[k]}

AddToDay ==
    \E t \in Tasks, val \in Filled :
        /\ Live(view, t)
        /\ \/ \E p \in Planned(t, val) : Deleted(p) /\ Execute(<<Mark(p, "restore")>>)
           \/ /\ Planned(t, val) = {}
              /\ \E p \in New(DayPlans) : Execute(<<Make(p, t, val)>>)

RemoveFromDay == \E p \in DayPlans : Live(view, p) /\ Execute(<<Mark(p, "delete")>>)

CreateStep ==
    \E t \in Tasks, s \in New(Steps), val \in Filled :
        Live(view, t) /\ Execute(<<Make(s, t, val)>>)

PatchStep == \E s \in Steps, val \in Edit : Live(view, s) /\ Execute(<<Alter(s, val)>>)

DeleteStep == \E s \in Steps : Live(view, s) /\ Execute(<<Mark(s, "delete")>>)

Command ==
    \/ CreateList \/ PatchList \/ DeleteList \/ RestoreList
    \/ CreateTask \/ PatchTask \/ CommitCompletion \/ DeleteTask \/ RestoreTask
    \/ ReorderTask \/ AddToDay \/ RemoveFromDay
    \/ CreateStep \/ PatchStep \/ DeleteStep

\* sync_clear_rejected.
ClearRejected ==
    LET rejected == {o \in ToSet(outbox) : o.status = "rejected"}
        kept == SelectSeq(outbox, LAMBDA o : o.status # "rejected")
    IN  /\ rejected # {}
        /\ outbox' = kept
        /\ view' = ReprojectAll(view, shadow, kept, {o.m.entity : o \in rejected})
        /\ UNCHANGED <<service, shadow, kv, phase, snapshot, run, history, used>>

----------------------------------------------------------------------------
(* The service; SyncServer has its transactions. Receipts are kept here. *)

Recorded(d, o, status) ==
    [d EXCEPT !.acks = Append(@, [op |-> o.op, status |-> status]),
              !.expected = @ + 1,
              !.receipts = @ \cup {[op |-> o.op, dev |-> d.dev, seq |-> o.seq,
                                    status |-> status]}]

\* One operation of a batch. A refused number fails the whole batch.
Decide(d, o) ==
    LET known == {r \in receipts : r.op = o.op \/ (r.dev = d.dev /\ r.seq = o.seq)}
        first == CHOOSE r \in known : TRUE
    IN  IF ~d.ok THEN d
        ELSE IF known # {}
        THEN IF known = {first} /\ first.op = o.op /\ first.dev = d.dev /\ first.seq = o.seq
             THEN [d EXCEPT !.acks = Append(@, [op |-> o.op, status |-> first.status])]
             ELSE [d EXCEPT !.ok = FALSE]
        ELSE IF o.seq # d.expected THEN [d EXCEPT !.ok = FALSE]
        ELSE IF ~Accepts(d.rows, o.m) THEN Recorded(d, o, "rejected")
        ELSE [Recorded(d, o, "applied") EXCEPT
                 !.rows = ApplyMutation(@, o.m, 0),
                 !.log = Append(@, [op |-> o.op, m |-> o.m])]

Decided(dev, batch) ==
    FoldLeft(Decide, [ok |-> TRUE, dev |-> dev, acks |-> <<>>, rows |-> rows, log |-> log,
                      receipts |-> receipts, expected |-> mark[dev] + 1], batch)

Upto(n, limit) == IF n < limit THEN n ELSE limit

Serve ==
    /\ run.phase = "asking" /\ run.cursor >= floor
    /\ LET d == Decided(run.dev, run.batch)
           next == Upto(Len(d.log), run.cursor + Limit)
       IN  IF d.ok
           THEN /\ rows' = d.rows /\ log' = d.log /\ receipts' = d.receipts
                /\ mark' = [mark EXCEPT ![run.dev] = d.expected - 1]
                /\ run' = [phase |-> "answered", acks |-> d.acks, next |-> next,
                           changes |-> SubSeq(d.log, run.cursor + 1, next),
                           session |-> run.session]
           ELSE UNCHANGED <<rows, log, receipts, mark>> /\ run' = Idle
    /\ UNCHANGED <<floor, tables, phase, snapshot, history, used>>

\* CURSOR_EXPIRED and the bootstrap, whose pages SyncProtocol reads one by one.
Bootstrap ==
    /\ run.phase = "asking" /\ run.cursor < floor
    /\ run' = [phase |-> "snapshot", rows |-> rows, cursor |-> Len(log),
               session |-> run.session]
    /\ UNCHANGED <<service, tables, phase, snapshot, history, used>>

OtherDevice ==
    /\ used.others < MaxOthers /\ used' = [used EXCEPT !.others = @ + 1]
    /\ \E m \in Foreign :
          /\ Accepts(rows, m)
          /\ rows' = ApplyMutation(rows, m, 0)
          /\ log' = Append(log, [op |-> 0, m |-> m])
    /\ UNCHANGED <<floor, receipts, mark, tables, phase, snapshot, run, history>>

Prune ==
    /\ Expires
    /\ \E n \in (floor + 1)..Len(log) : floor' = n
    /\ UNCHANGED <<rows, log, receipts, mark, tables, phase, snapshot, run, history, used>>

----------------------------------------------------------------------------
(* The engine. *)

\* pending_mutations.
Send ==
    /\ phase = "on" /\ run = Idle
    /\ run' = [phase |-> "asking", dev |-> kv.device, cursor |-> kv.cursor,
               batch |-> SubSeq(Pending(outbox), 1, Upto(Len(Pending(outbox)), Limit)),
               session |-> kv.session]
    /\ UNCHANGED <<service, tables, phase, snapshot, history, used>>

\* assert_sync_session: an answer counts only in the session it was asked in.
InSession == kv.session = run.session /\ kv.session # 0

Acks(o) == SelectSeq(run.acks, LAMBDA a : a.op = o.op)

\* An ack removes its operation, or marks it as rejected.
OutboxAfter ==
    LET kept == SelectSeq(outbox, LAMBDA o : Acks(o) = <<>> \/ Acks(o)[1].status = "rejected")
    IN  [i \in DOMAIN kept |->
            IF Acks(kept[i]) = <<>> THEN kept[i] ELSE [kept[i] EXCEPT !.status = "rejected"]]

\* What a change makes of a row: its fields, and the tombstone of its kind.
Told(row, m) ==
    CASE m.kind = "delete"  -> Tombstoned(Patched(Base(row), m))
      [] m.kind = "restore" -> Revived(Base(row), m)
      [] OTHER              -> Patched(Base(row), m)

\* apply_server_change for the shadow.
ShadowAfter(sh, changes) ==
    FoldLeft(LAMBDA s, ch : [s EXCEPT ![ch.m.entity] = Told(@, ch.m)], sh, changes)

\* A create of a row that is not there; a task goes only into an active list.
Inserted(t, e, row) ==
    IF e \in Tasks /\ ~ParentActive(t.table, e, row.parent)
    THEN [t EXCEPT !.ok = FALSE] ELSE Put(t, e, row)

\* apply_materialized_change: a row that is there is updated, and any other
\* kind than a create passes by a row that is not.
Materialize(t, sh, m) ==
    LET e == m.entity
    IN  CASE t.table[e] # Absent -> Put(t, e, Told(t.table[e], m))
          [] t.table[e] = Absent /\ m.kind = "create" -> Inserted(t, e, Told(sh[e], m))
          [] OTHER -> t

\* The changes of an answer, one after the other, within one transaction.
TablesAfter(table, sh, changes) ==
    FoldLeft(LAMBDA t, ch : [Materialize(t, t.shadow, ch.m) EXCEPT
                                !.shadow[ch.m.entity] = Told(@, ch.m)],
             [ok |-> TRUE, table |-> table, shadow |-> sh], changes)

\* apply_server_result; a constraint that fails leaves everything as it was.
Apply ==
    /\ run.phase = "answered"
    /\ run' = Idle
    /\ LET after == TablesAfter(view, shadow, run.changes)
           acked == {o.m.entity : o \in {o \in ToSet(outbox) : Acks(o) # <<>>}}
           affected == acked \cup {ch.m.entity : ch \in ToSet(run.changes)}
       IN  IF InSession /\ after.ok
           THEN /\ shadow' = after.shadow
                /\ outbox' = OutboxAfter
                /\ view' = ReprojectAll(after.table, after.shadow, OutboxAfter, affected)
                /\ kv' = [kv EXCEPT !.cursor = run.next]
                /\ buried' = buried \ affected
           ELSE UNCHANGED <<tables, buried>>
    /\ UNCHANGED <<service, phase, snapshot, minted, issued, wiped, used>>

\* write_materialized: a task needs the row of its list, plans a slot of their
\* own; a step or plan without its task is passed by.
Writable(table) ==
    /\ \A t \in Tasks : table[t] # Absent => Referenced(table, t, table[t])
    /\ \A p \in DayPlans : table[p] # Absent => SlotFree(table, p, table[p])

Written(table) ==
    [e \in Entity |-> IF /\ e \in Steps \cup DayPlans /\ table[e] # Absent
                         /\ ~Referenced(table, e, table[e])
                      THEN Absent ELSE table[e]]

\* The snapshot with what is pending replayed, a plan only if its slot is free
\* in the snapshot.
Rebased(got) ==
    [e \in Entity |->
        LET row == Replayed(IF got[e] # Absent THEN got[e] ELSE view[e], PendingOn(outbox, e))
        IN  IF PendingOn(outbox, e) = <<>> \/ Rivals(got, e, row) # {}
            THEN got[e] ELSE row]

\* sync_replace_snapshot_fenced; the outbox stays as it is.
ReplaceSnapshot ==
    /\ run.phase = "snapshot"
    /\ run' = Idle
    /\ IF InSession /\ Writable(Rebased(run.rows))
       THEN /\ view' = Written(Rebased(run.rows))
            /\ shadow' = run.rows
            /\ kv' = [kv EXCEPT !.cursor = run.cursor]
            /\ buried' = {}
       ELSE UNCHANGED <<view, shadow, kv, buried>>
    /\ UNCHANGED <<service, outbox, phase, snapshot, minted, issued, wiped, used>>

Fault == used.faults < MaxFaults /\ used' = [used EXCEPT !.faults = @ + 1]

Drop ==
    /\ run # Idle /\ Fault
    /\ run' = Idle
    /\ UNCHANGED <<service, tables, phase, snapshot, history>>

----------------------------------------------------------------------------
(* Signing in and out. *)

\* sync_set_enabled: what is to be sent, and what waits for a sign-in.
Switched(box, enabled) ==
    [i \in DOMAIN box |->
        IF box[i].status = "rejected" THEN box[i]
        ELSE [box[i] EXCEPT !.status = IF enabled THEN "pending" ELSE "local"]]

\* rotate_device_id: the operations are numbered again, for the new id.
SignIn ==
    /\ phase \in {"off", "expired", "kept"} /\ kv.device < MaxSignIns
    /\ phase' = "rotated"
    /\ outbox' = [i \in DOMAIN outbox |->
                     [outbox[i] EXCEPT !.seq = i, !.status = "local"]]
    /\ kv' = [kv EXCEPT !.device = @ + 1, !.seq = 0, !.cursor = 0, !.enabled = FALSE]
    /\ UNCHANGED <<service, view, shadow, snapshot, run, history, used>>

\* The snapshot, whether the device has rows, tombstones too, and the session.
Fetch ==
    /\ phase = "rotated" /\ phase' = "fetched"
    /\ kv' = [kv EXCEPT !.session = used.sessions + 1]
    /\ used' = [used EXCEPT !.sessions = @ + 1]
    /\ snapshot' = [rows |-> rows, cursor |-> Len(log), session |-> used.sessions + 1,
                    empty |-> \A e \in Lists \cup Tasks : view[e] = Absent]
    /\ UNCHANGED <<service, view, shadow, outbox, run, history>>

\* What a merge makes of row e: the row of this device if the account has none,
\* or if it is a tombstone, or later.
Merged(got, newer) ==
    [e \in Entity |->
        CASE view[e] = Absent -> got[e]
          [] view[e] # Absent /\ got[e] = Absent ->
                IF view[e].deleted \/ Rivals(got, e, view[e]) # {} THEN Absent ELSE view[e]
          [] OTHER -> IF view[e].deleted \/ e \in newer THEN view[e] ELSE got[e]]

Full(e, kind) ==
    [entity |-> e, kind |-> kind, val |-> view[e].val, parent |-> view[e].parent]

\* The operation that tells the account.
Prepared(got, e) ==
    CASE got[e] = Absent -> Full(e, "create")
      [] got[e] # Absent /\ view[e].deleted -> Mark(e, "delete")
      [] got[e] # Absent /\ ~view[e].deleted /\ got[e].deleted -> Full(e, "restore")
      [] OTHER -> Full(e, "patch")

\* The rows that it has to be told of.
Untold(got, newer) ==
    {e \in Entity :
        /\ view[e] # Absent
        /\ IF got[e] = Absent THEN Merged(got, newer)[e] # Absent
           ELSE \/ view[e].deleted /\ ~got[e].deleted
                \/ ~view[e].deleted /\ e \in newer}

\* sync_initialize_cloud: the account replaces the data, or is merged with it.
\* newer are the rows that were changed here after they were in the account.
Initialize(mode, newer) ==
    LET got == snapshot.rows
        table == IF mode = "cloud" THEN got ELSE Merged(got, newer)
        entities == IF mode = "cloud" THEN <<>> ELSE InOrder(Untold(got, newer))
        ops == [i \in DOMAIN entities |-> Prepared(got, entities[i])]
    IN  /\ phase = "fetched" /\ snapshot' = NoSnapshot
        /\ IF kv.session = snapshot.session /\ Writable(table)
           THEN /\ phase' = "on"
                /\ view' = Written(table) /\ shadow' = got
                /\ outbox' = Numbered(ops, 0, "pending")
                /\ kv' = [kv EXCEPT !.seq = Len(ops), !.enabled = TRUE,
                                    !.cursor = snapshot.cursor]
                /\ issued' = issued + Len(ops)
                /\ buried' = IF mode = "cloud" THEN {}
                             ELSE {e \in Entity : /\ Deleted(e) /\ got[e] # Absent
                                                  /\ view[e] # Tombstoned(got[e])}
                /\ wiped' = FALSE
           ELSE phase' = "off" /\ UNCHANGED <<tables, issued, buried, wiped>>
        /\ UNCHANGED <<service, run, minted, used>>

\* A choice is offered when there is something to lose.
ChooseMerge ==
    \E mode \in {"cloud", "merge"} :
        /\ mode = "merge" => ~snapshot.empty
        /\ \E newer \in SUBSET {e \in Entity :
                mode = "merge" /\ Live(view, e) /\ snapshot.rows[e] # Absent} :
              Initialize(mode, newer)

\* The user cancels, or the sign-in fails.
Cancel ==
    /\ phase \in {"rotated", "fetched"} /\ phase' = "off"
    /\ snapshot' = NoSnapshot
    /\ kv' = [kv EXCEPT !.session = 0]
    /\ UNCHANGED <<service, view, shadow, outbox, run, history, used>>

\* clear_all: the tables, outbox and shadow, but not the rest of kv_state.
Emptied == view' = NoRows /\ shadow' = NoRows /\ buried' = {}

SignOut ==
    /\ phase = "on" /\ phase' = "off"
    /\ \/ /\ kv' = [kv EXCEPT !.session = 0, !.enabled = FALSE]
          /\ outbox' = Switched(outbox, FALSE)
          /\ UNCHANGED <<view, shadow, buried>>
       \/ \* with sync_clear_account_binding
          /\ kv' = [kv EXCEPT !.session = 0, !.enabled = FALSE, !.seq = 0, !.cursor = 0]
          /\ outbox' = <<>> /\ Emptied
    /\ UNCHANGED <<service, snapshot, run, minted, issued, wiped, used>>

ClearAll ==
    /\ phase # "on"
    /\ Emptied /\ outbox' = <<>>
    /\ kv' = [kv EXCEPT !.session = 0]
    /\ wiped' = (wiped \/ phase = "kept")
    /\ UNCHANGED <<service, phase, snapshot, run, minted, issued, used>>

\* expireSession: the tokens are gone.
Expire ==
    /\ phase = "on" /\ phase' = "expired" /\ Fault
    /\ kv' = [kv EXCEPT !.session = 0]
    /\ UNCHANGED <<service, view, shadow, outbox, snapshot, run, history>>

\* The app starts again, without network. A sign-in has to be repeated.
Restart ==
    /\ Fault
    /\ phase' = CASE phase = "on" -> "kept"
                  [] phase \in {"rotated", "fetched"} -> "off"
                  [] OTHER -> phase
    /\ run' = Idle /\ snapshot' = NoSnapshot
    /\ UNCHANGED <<service, tables, history>>

\* It starts with network.
Resume ==
    /\ phase = "kept" /\ phase' = "on"
    /\ outbox' = Switched(outbox, TRUE)
    /\ used' = [used EXCEPT !.sessions = @ + 1]
    /\ kv' = [kv EXCEPT !.enabled = TRUE, !.session = used.sessions + 1]
    /\ UNCHANGED <<service, view, shadow, snapshot, run, history>>

----------------------------------------------------------------------------
EngineStep == Send \/ Serve \/ Bootstrap \/ Apply \/ ReplaceSnapshot

Session ==
    \/ SignIn \/ Fetch \/ ChooseMerge \/ Cancel \/ SignOut \/ ClearAll
    \/ Expire \/ Restart \/ Resume

Next == Command \/ ClearRejected \/ EngineStep \/ OtherDevice \/ Prune \/ Drop \/ Session

Spec == Init /\ [][Next]_vars

\* An engine that is connected is started again and again, and goes on.
FairSpec == Spec /\ WF_vars(EngineStep)

----------------------------------------------------------------------------
(***************************************************************************)
(* The numbers of the operations hold: whatever was rotated, merged,       *)
(* signed out or resumed before, the service never refuses the number of   *)
(* what a connected device is going to send. (Not once the data were       *)
(* cleared under a device id that is used again.)                          *)
(***************************************************************************)
NumbersHold == phase = "on" /\ ~wiped => Decided(kv.device, Pending(outbox)).ok

(***************************************************************************)
(* The tables are the shadow with what is pending on top, however commands,*)
(* answers, rejections, merges and snapshots follow each other. (A row     *)
(* that a merge kept as a tombstone has columns of its own until the       *)
(* service tells of it.)                                                   *)
(***************************************************************************)
TablesAreProjection ==
    phase = "on" /\ ~wiped =>
        \A e \in Entity \ buried :
            shadow[e] # Absent => view[e] = Replayed(shadow[e], PendingOn(outbox, e))

(***************************************************************************)
(* The answer that a connected device gets next can be applied: no         *)
(* constraint of the tables makes its transaction fail, so that a bad      *)
(* operation cannot block the outbox for ever.                             *)
(***************************************************************************)
RejectionNeverJams ==
    run.phase = "answered" /\ InSession /\ ~wiped =>
        TablesAfter(view, shadow, run.changes).ok

(***************************************************************************)
(* A merge can be written: its rows satisfy the constraints of the tables, *)
(* whatever the device did before it was signed in.                        *)
(***************************************************************************)
MergeFits ==
    phase = "fetched" =>
        \A newer \in SUBSET {e \in Entity : Live(view, e) /\ snapshot.rows[e] # Absent} :
            Writable(Merged(snapshot.rows, newer))

\* Everything is sent, and the tables show what the account holds.
InStep ==
    /\ Pending(outbox) = <<>>
    /\ kv.cursor = Len(log)
    /\ \A e \in Entity \ buried : rows[e] # Absent => view[e] = rows[e]

(***************************************************************************)
(* A device that stays connected ends up with an empty outbox and the rows *)
(* of the account.                                                         *)
(***************************************************************************)
Converges == <>[](phase = "on" /\ ~wiped) => <>[]InStep
============================================================================
