---------------------------- MODULE SharedLists ----------------------------
(***************************************************************************)
(* A list shared by several users. The service numbers every change of the *)
(* list with a revision and takes a change only under the revision its     *)
(* sender has read; a receipt answers an edit that arrives again. Every    *)
(* user has a device with the last snapshot of the list, an outbox of      *)
(* edits, and a view: the snapshot with the pending edits on top.          *)
(*                                                                         *)
(* Code: apps/api/src/shared.rs, apps/app/src/sync/shared-sync.ts and      *)
(* shared-store.ts. One list that exists already, revisions counted from   *)
(* the one the model starts with. Steps, invitations as cached on the      *)
(* device, positions and the binding of the store to an account are left   *)
(* out. Every handler of the service is one transaction that begins with a *)
(* lock on the row of the list.                                            *)
(***************************************************************************)
EXTENDS Integers, Sequences, SequencesExt

CONSTANTS
    User,        \* the users, each with one device
    Founder,     \* the user who created the list
    Editors,     \* the users who are editors of it already
    Guests,      \* the users who have been invited as editors
    Task,        \* ids of tasks
    Field,       \* columns of a task
    Value,       \* contents of a column
    Start,       \* the live tasks the list begins with, a subset of Task
    First,       \* what their columns hold
    Absent,      \* in place of a row: there is none
    Gone,        \* in place of a row: a tombstone, its id is taken
    None,        \* no snapshot, no operation, no answer
    MaxEdits,    \* bound: edits by all users
    MaxAdmin,    \* bound: changes of the members, and the deletion
    MaxFaults    \* bound: runs that are given up

ASSUME SharedAssumption ==
    /\ Founder \in User /\ Editors \cup Guests \subseteq User \ {Founder}
    /\ Editors \cap Guests = {} /\ Start \subseteq Task /\ First \in Value
    /\ MaxEdits \in Nat /\ MaxAdmin \in Nat /\ MaxFaults \in Nat

Row == [Field -> Value]
Rows == [Task -> Row \cup {Absent}]

\* What stands in place of a row is told from every row.
ASSUME MarkAssumption ==
    Absent \notin Row /\ Gone \notin Row \cup {Absent}

VARIABLES
    server,      \* the row of the list, its tasks, members and receipts
    past,        \* history: the live tasks at every revision
    log,         \* history: the edits that took effect
    device,      \* per user: the store of the device
    run,         \* per user: the run of the engine, and its call
    peek,        \* per user: a snapshot fetched outside of a run
    late,        \* requests whose senders have given up
    used         \* how much of each bound is spent

vars == <<server, past, log, device, run, peek, late, used>>

Patch == UNION {[F -> Value] : F \in SUBSET Field}
Roles == {"owner", "editor", "viewer", "removed", "none"}

\* What the service answers with, and why an edit was refused.
Codes == {"", "snapshot", "listed", "missing", "task", "done", "REVISION_CONFLICT",
          "SHARED_LIST_NOT_FOUND", "SHARED_LIST_ACCESS_REVOKED", "SHARED_LIST_FORBIDDEN",
          "SHARED_TASK_EXISTS", "SHARED_TASK_NOT_FOUND", "SHARED_EDIT_CONFLICT"}

\* The patch of a new task has every column.
Op == {op \in [id: Nat, kind: {"create", "patch", "delete"}, task: Task, patch: Patch,
                base: Patch, status: {"pending", "rejected"}, code: Codes] :
          op.kind = "create" => op.patch \in Row}

Server == [rev: Nat, deleted: BOOLEAN, rows: [Task -> Row \cup {Absent, Gone}],
           role: [User -> Roles], invited: [User -> Roles], receipts: SUBSET Nat]

\* `guess` is history: the answer to a replayed edit was taken for the answer to
\* its first delivery, and completed the snapshot.
Device == [known: BOOLEAN, role: Roles, access: {"active", "revoked", "deleted"},
           sum: Nat, rev: Nat, snap: Rows \cup {None}, ops: Seq(Op), view: Rows,
           guess: BOOLEAN]

Reply == [code: Codes, role: Roles, rev: Nat, rows: Rows, replay: BOOLEAN]
Run == [pc: {"idle", "index", "locate", "list", "picked", "pull", "push"},
        pull: BOOLEAN, op: Op \cup {None}, expected: Nat, honest: BOOLEAN,
        answer: Reply \cup {None}]

Peek == [open: BOOLEAN, answer: Reply \cup {None}]

Idle == [pc |-> "idle", pull |-> FALSE, op |-> None, expected |-> 0, honest |-> TRUE,
         answer |-> None]
Closed == [open |-> FALSE, answer |-> None]
NoRows == [t \in Task |-> Absent]
Unknown == [known |-> FALSE, role |-> "none", access |-> "active", sum |-> 0, rev |-> 0,
            snap |-> None, ops |-> <<>>, view |-> NoRows, guess |-> FALSE]

Member(u) == server.role[u] \in {"owner", "editor", "viewer"}

\* The copy of a member who has fetched the list.
Held(u) == [Unknown EXCEPT !.known = TRUE, !.role = server.role[u], !.sum = 1, !.rev = 1,
                           !.snap = server.rows, !.view = server.rows]

Init ==
    /\ server = [rev |-> 1, deleted |-> FALSE,
                 rows |-> [t \in Task |-> IF t \in Start THEN [f \in Field |-> First] ELSE Absent],
                 role |-> [u \in User |-> CASE u = Founder   -> "owner"
                                            [] u \in Editors -> "editor"
                                            [] OTHER         -> "none"],
                 invited |-> [u \in User |-> IF u \in Guests THEN "editor" ELSE "none"],
                 receipts |-> {}]
    /\ past = <<server.rows>>
    /\ log = <<>>
    /\ device = [u \in User |-> IF Member(u) THEN Held(u) ELSE Unknown]
    /\ run = [u \in User |-> Idle]
    /\ peek = [u \in User |-> Closed]
    /\ late = {}
    /\ used = [edits |-> 0, admin |-> 0, faults |-> 0]

TypeOK ==
    /\ server \in Server
    /\ past \in Seq(Rows) /\ Len(past) = server.rev
    /\ device \in [User -> Device]
    /\ run \in [User -> Run]
    /\ peek \in [User -> Peek]

Spend(bound, max) == used[bound] < max /\ used' = [used EXCEPT ![bound] = @ + 1]

-----------------------------------------------------------------------------
(* The service. *)

Live(rows) == [t \in Task |-> IF rows[t] = Gone THEN Absent ELSE rows[t]]

\* What lock_access finds; deletion hides the list from everybody.
Access(u) ==
    IF server.deleted \/ server.role[u] = "none" THEN "SHARED_LIST_NOT_FOUND"
    ELSE IF server.role[u] = "removed" THEN "SHARED_LIST_ACCESS_REVOKED" ELSE "ok"

Says(u, code, replay) ==
    [code |-> code, role |-> server.role[u], rev |-> server.rev, rows |-> Live(server.rows),
     replay |-> replay]

\* The list with a change: every one takes the next revision.
Bumped(next) ==
    /\ server' = [next EXCEPT !.rev = server.rev + 1]
    /\ past' = Append(past, Live(next.rows))

Unchanged == UNCHANGED <<server, past, log>>

\* What an edit finds in the row it is for.
Fits(op) ==
    LET row == server.rows[op.task] IN
    CASE op.kind = "create" -> IF row = Absent THEN "ok" ELSE "SHARED_TASK_EXISTS"
      [] OTHER -> IF row \in {Absent, Gone} THEN "SHARED_TASK_NOT_FOUND" ELSE "ok"

Overlay(row, patch) == [f \in Field |-> IF f \in DOMAIN patch THEN patch[f] ELSE row[f]]

Written(op) ==
    CASE op.kind = "create" -> op.patch
      [] op.kind = "patch"  -> Overlay(server.rows[op.task], op.patch)
      [] OTHER              -> Gone

\* The answer to an edit that has a receipt: a task, if it is still there.
Replayed(u, op) ==
    IF op.kind = "delete" THEN Says(u, "done", TRUE)
    ELSE IF server.rows[op.task] \notin {Absent, Gone} THEN Says(u, "task", TRUE)
    ELSE Says(u, IF op.kind = "create" THEN "done" ELSE "SHARED_TASK_NOT_FOUND", TRUE)

\* An edit is refused before anything is written.
Verdict(u, op, expected) ==
    IF Access(u) # "ok" THEN Access(u)
    ELSE IF server.role[u] = "viewer" THEN "SHARED_LIST_FORBIDDEN"
    ELSE IF op.id \in server.receipts THEN "replay"
    ELSE IF server.rev # expected THEN "REVISION_CONFLICT"
    ELSE Fits(op)

\* Slip: the receipt is looked for, but never written.
TakeUnreceipted(u, op, honest) ==
    /\ Bumped([server EXCEPT !.rows[op.task] = Written(op)])
    /\ log' = Append(log, [op |-> op, before |-> server.rows[op.task], honest |-> honest])

Take(u, op, honest) ==
    /\ Bumped([server EXCEPT !.rows[op.task] = Written(op), !.receipts = @ \cup {op.id}])
    /\ log' = Append(log, [op |-> op, before |-> server.rows[op.task], honest |-> honest])

\* create_task, patch_task and delete_task, whoever still waits for the answer.
Handle(u, op, expected, honest) ==
    IF Verdict(u, op, expected) = "ok" THEN Take(u, op, honest) ELSE Unchanged

AnswerTo(u, op, expected) ==
    LET verdict == Verdict(u, op, expected) IN
    CASE verdict = "ok" ->
            [code |-> IF op.kind = "delete" THEN "done" ELSE "task", role |-> server.role[u],
             rev |-> server.rev + 1, replay |-> FALSE,
             rows |-> [Live(server.rows) EXCEPT ![op.task] =
                         IF op.kind = "delete" THEN Absent ELSE Written(op)]]
      [] verdict = "replay" -> Replayed(u, op)
      [] OTHER -> Says(u, verdict, FALSE)

\* get_list; list_lists says nothing of a list one is no member of.
Snapshot(u) == Says(u, IF Access(u) = "ok" THEN "snapshot" ELSE Access(u), FALSE)
Index(u) == Says(u, IF Access(u) = "ok" THEN "listed" ELSE "missing", FALSE)

-----------------------------------------------------------------------------
(* The members. An owner acts under the revision of the list. *)

Admin(u) == Access(u) = "ok" /\ server.role[u] = "owner" /\ Spend("admin", MaxAdmin)

\* patch_member: nobody demotes oneself.
SetRole(u, who, role) ==
    /\ Admin(u) /\ Member(who)
    /\ u = who => role = "owner"
    /\ Bumped([server EXCEPT !.role[who] = role])
    /\ UNCHANGED <<log, device, run, peek, late>>

RemoveMember(u, who) ==
    /\ Admin(u) /\ u # who /\ Member(who)
    /\ Bumped([server EXCEPT !.role[who] = "removed"])
    /\ UNCHANGED <<log, device, run, peek, late>>

DeleteList(u) ==
    /\ Admin(u)
    /\ Bumped([server EXCEPT !.deleted = TRUE])
    /\ UNCHANGED <<log, device, run, peek, late>>

DeclineInvitation(u) ==
    /\ ~server.deleted /\ server.invited[u] # "none"
    /\ Spend("admin", MaxAdmin)
    /\ Bumped([server EXCEPT !.invited[u] = "none"])
    /\ UNCHANGED <<log, device, run, peek, late>>

-----------------------------------------------------------------------------
(* The store of a device. *)

\* Another member changed a column that the edit was made against.
Conflicts(row, op) ==
    \E f \in DOMAIN op.base :
        row[f] # op.base[f] /\ (op.kind = "delete" \/ row[f] # op.patch[f])

Refused(op, code) == [op EXCEPT !.status = "rejected", !.code = code]

\* One edit on top of what the edits before it made of the snapshot; an edit of
\* a task that is gone is refused, a deletion of it is dropped.
RebaseOp(acc, op) ==
    LET row  == acc.rows[op.task]
        keep(o) == [rows |-> acc.rows, ops |-> Append(acc.ops, o)]
        show(r) == [rows |-> [acc.rows EXCEPT ![op.task] = r], ops |-> Append(acc.ops, op)]
    IN  IF op.status = "rejected" THEN keep(op)
        ELSE IF op.kind = "create" THEN show(IF row = Absent THEN op.patch ELSE row)
        ELSE IF row = Absent
        THEN IF op.kind = "delete" THEN acc ELSE keep(Refused(op, "SHARED_TASK_NOT_FOUND"))
        ELSE IF Conflicts(row, op) THEN keep(Refused(op, "SHARED_EDIT_CONFLICT"))
        ELSE show(IF op.kind = "delete" THEN Absent ELSE Overlay(row, op.patch))

RebaseAll(rows, ops) ==
    LET upTo[n \in 0..Len(ops)] ==
            IF n = 0 THEN [rows |-> rows, ops |-> <<>>] ELSE RebaseOp(upTo[n - 1], ops[n])
    IN upTo[Len(ops)]

Rebased(d) ==
    IF d.snap = None THEN d
    ELSE LET r == RebaseAll(d.snap, d.ops) IN [d EXCEPT !.view = r.rows, !.ops = r.ops]

Editable(d) == d.known /\ d.access = "active" /\ d.snap # None /\ d.role # "viewer"
Syncs(d) == d.known /\ d.access = "active"

\* nextPending: the first edit that no one has refused.
Quiet(ops) == \A i \in DOMAIN ops : ops[i].status # "pending"
NextUp(ops, i) == ops[i].status = "pending" /\ \A j \in 1..(i - 1) : ops[j].status # "pending"

\* The outbox without one edit; no two have the same id.
Without(d, id) ==
    [d EXCEPT !.ops = IF \E i \in DOMAIN @ : @[i].id = id
                      THEN RemoveAt(@, CHOOSE i \in DOMAIN @ : @[i].id = id) ELSE @]
Everything(d) == {d.ops[i].id : i \in DOMAIN d.ops}
RefuseAll(d, ids, code) ==
    [d EXCEPT !.ops = [i \in DOMAIN @ |->
        IF @[i].status = "pending" /\ @[i].id \in ids THEN Refused(@[i], code) ELSE @[i]]]

\* A list that the index or an accepted invitation names.
Listed(d, a) ==
    IF d.known THEN [d EXCEPT !.role = a.role, !.sum = a.rev, !.access = "active"]
    ELSE [Unknown EXCEPT !.known = TRUE, !.role = a.role, !.sum = a.rev]

\* loseAccess: everything still queued is refused, the copy stays.
LoseAccess(d, a) ==
    IF ~d.known THEN d
    ELSE Rebased([RefuseAll(d, Everything(d), a.code) EXCEPT
                    !.access = IF a.code = "SHARED_LIST_NOT_FOUND" THEN "deleted" ELSE "revoked"])

RejectOps(d, ids, code) == IF d.known THEN Rebased(RefuseAll(d, ids, code)) ELSE d

\* pull: an older answer must not roll the snapshot back.
Pulled(d, a) ==
    IF d.snap # None /\ a.rev < d.rev THEN d
    ELSE Rebased([d EXCEPT !.known = TRUE, !.role = a.role, !.access = "active", !.sum = a.rev,
                           !.rev = a.rev, !.snap = a.rows, !.guess = FALSE])

\* The answer of a pull, in a run or outside.
Fetched(d, a) == IF a.code = "snapshot" THEN Pulled(d, a) ELSE LoseAccess(d, a)

\* settle without a task: the edit is delivered, the snapshot has to be fetched.
Delivered(d, op) == IF d.known THEN Rebased(Without(d, op.id)) ELSE d

\* settle with the task that the service answered with.
Folded(d, op, expected, a) ==
    IF d.known /\ d.snap # None /\ d.rev = expected
    THEN Rebased([Without(d, op.id) EXCEPT
                    !.snap[op.task] = a.rows[op.task], !.rev = a.rev,
                    !.sum = IF @ < a.rev THEN a.rev ELSE @, !.guess = @ \/ (a.replay /\ a.rev = expected + 1)])
    ELSE Delivered(d, op)

-----------------------------------------------------------------------------
(* The user. *)

\* Whatever the outbox keeps, the view is made anew.
Store(u, d) == device' = [device EXCEPT ![u] = d]

Enqueue(u, kind, t, patch, base) ==
    LET op == [id |-> used.edits, kind |-> kind, task |-> t, patch |-> patch, base |-> base,
               status |-> "pending", code |-> ""] IN
    /\ Editable(device[u])
    /\ Spend("edits", MaxEdits)
    /\ Store(u, Rebased([device[u] EXCEPT !.ops = Append(@, op)]))
    /\ UNCHANGED <<server, past, log, run, peek, late>>

\* The id of a new task is new.
CreateTask(u, t) ==
    /\ server.rows[t] = Absent /\ device[u].view[t] = Absent
    /\ \A w \in User : \A i \in DOMAIN device[w].ops : device[w].ops[i].task # t
    /\ \A r \in late : r.op.task # t
    /\ \A w \in User : run[w].op # None => run[w].op.task # t
    /\ \E v \in Value : Enqueue(u, "create", t, [f \in Field |-> v], [f \in {} |-> v])

\* updateTask, with values that the view does not show already.
UpdateTask(u, t) ==
    LET row == device[u].view[t] IN
    /\ row # Absent
    /\ \E F \in SUBSET Field \ {{}} : \E patch \in [F -> Value] :
        /\ \A f \in F : patch[f] # row[f]
        /\ Enqueue(u, "patch", t, patch, [f \in F |-> row[f]])

DeleteTask(u, t) ==
    /\ device[u].view[t] # Absent
    /\ Enqueue(u, "delete", t, [f \in {} |-> First], device[u].view[t])

DiscardOp(u, i) ==
    /\ Store(u, LET d == Without(device[u], device[u].ops[i].id)
                IN IF d.known THEN Rebased(d) ELSE d)
    /\ UNCHANGED <<server, past, log, run, peek, late, used>>

\* retryOp: the same edit at the end of the outbox, against what the view shows.
RetryOp(u, i) ==
    LET op == device[u].ops[i]  row == device[u].view[op.task] IN
    /\ Editable(device[u]) /\ op.code = "SHARED_EDIT_CONFLICT" /\ row # Absent
    /\ Store(u, Rebased([Without(device[u], op.id) EXCEPT !.ops =
            Append(@, [op EXCEPT !.status = "pending", !.code = "",
                                 !.base = [f \in DOMAIN @ |-> row[f]]])]))
    /\ UNCHANGED <<server, past, log, run, peek, late, used>>

RemoveLocalCopy(u) ==
    /\ device[u].known /\ device[u].access # "active"
    /\ Store(u, Unknown)
    /\ UNCHANGED <<server, past, log, run, peek, late, used>>

\* pull(listId) outside of a run: nothing stops it when the run ends.
PullAside(u) == peek' = [peek EXCEPT ![u].open = TRUE]

\* invite: under the revision of the device; a conflict makes it fetch the list.
Invite(u, who, role) ==
    /\ Editable(device[u]) /\ device[u].role = "owner" /\ ~peek[u].open
    /\ Access(u) = "ok" /\ server.role[u] = "owner" /\ ~Member(who)
    /\ Spend("admin", MaxAdmin)
    /\ IF device[u].rev = server.rev
       THEN Bumped([server EXCEPT !.invited[who] = role]) ELSE UNCHANGED <<server, past>>
    /\ PullAside(u)
    /\ UNCHANGED <<log, device, run, late>>

AcceptInvitation(u) ==
    /\ ~server.deleted /\ server.invited[u] # "none" /\ ~peek[u].open
    /\ Spend("admin", MaxAdmin)
    /\ Bumped([server EXCEPT !.invited[u] = "none",
                             !.role[u] = IF Member(u) THEN @ ELSE server.invited[u]])
    /\ Store(u, Listed(device[u], [role |-> server'.role[u], rev |-> server'.rev]))
    /\ PullAside(u)
    /\ UNCHANGED <<log, run, late>>

UserStep(u) ==
    \/ \E t \in Task : CreateTask(u, t) \/ UpdateTask(u, t) \/ DeleteTask(u, t)
    \/ \E i \in DOMAIN device[u].ops : DiscardOp(u, i) \/ RetryOp(u, i)
    \/ RemoveLocalCopy(u)
    \/ AcceptInvitation(u) \/ DeclineInvitation(u) \/ DeleteList(u)
    \/ \E who \in User : RemoveMember(u, who) \/ \E role \in {"owner", "editor", "viewer"} :
        SetRole(u, who, role) \/ (role # "owner" /\ Invite(u, who, role))

-----------------------------------------------------------------------------
(* The run of an engine. Runs of one device never overlap; a run that asks  *)
(* for another, and the limits of five pulls and fifty edits in a run, come *)
(* to starting again.                                                       *)

Go(u, r) == run' = [run EXCEPT ![u] = r]
At(pc) == [Idle EXCEPT !.pc = pc]

\* Slip: only the first pull is asked for.
EnterKnown(d) ==
    IF Syncs(d) THEN [At("list") EXCEPT !.pull = (d.snap = None)] ELSE Idle

\* syncList: whether it begins with a pull.
Enter(d) ==
    IF Syncs(d) THEN [At("list") EXCEPT !.pull = (d.snap = None \/ d.sum > d.rev)] ELSE Idle

StartRun(u) ==
    /\ run[u].pc = "idle"
    /\ Go(u, At("index")) \/ Go(u, Enter(device[u]))
    /\ UNCHANGED <<server, past, log, device, peek, late, used>>

\* The next thing to do: fetch, or take the first edit that is pending.
Choose(u) ==
    LET ops == device[u].ops IN
    /\ run[u].pc = "list"
    /\ \/ run[u].pull /\ Go(u, At("pull"))
       \/ ~run[u].pull /\ Quiet(ops) /\ Go(u, Idle)
       \/ /\ ~run[u].pull
          /\ \E i \in DOMAIN ops : NextUp(ops, i) /\ Go(u, [At("picked") EXCEPT !.op = ops[i]])
    /\ UNCHANGED <<server, past, log, device, peek, late, used>>

\* push: the revision is read after the edit was. An honest call is for the edit
\* that is first in the outbox still, as it was picked.
Post(u) ==
    LET d == device[u] IN
    /\ run[u].pc = "picked"
    /\ Go(u, IF Syncs(d) /\ d.snap # None
             THEN [run[u] EXCEPT !.pc = "push", !.expected = d.rev,
                                 !.honest = /\ ~d.guess
                                             /\ \E i \in DOMAIN d.ops :
                                                   d.ops[i] = run[u].op /\ NextUp(d.ops, i)]
             ELSE Idle)
    /\ UNCHANGED <<server, past, log, device, peek, late, used>>

Waits(u) == run[u].pc \in {"index", "locate", "pull", "push"} /\ run[u].answer = None

\* The service answers the call of a run.
Serve(u) ==
    LET r == run[u]
        answers(a) == Go(u, [r EXCEPT !.answer = a])
    IN  /\ Waits(u)
        /\ \/ r.pc = "index" /\ answers(Index(u)) /\ Unchanged
           \/ r.pc \in {"locate", "pull"} /\ answers(Snapshot(u)) /\ Unchanged
           \/ r.pc = "push" /\ answers(AnswerTo(u, r.op, r.expected))
              /\ Handle(u, r.op, r.expected, r.honest)
        /\ UNCHANGED <<device, peek, late, used>>

Answered(u, pc) == run[u].pc = pc /\ run[u].answer # None

\* refreshIndex: a list that has vanished is looked up.
TakeIndex(u) ==
    LET a == run[u].answer  d == device[u] IN
    /\ Answered(u, "index")
    /\ IF a.code = "listed"
       THEN Store(u, Listed(d, a)) /\ Go(u, Enter(Listed(d, a)))
       ELSE UNCHANGED device /\ Go(u, IF Syncs(d) THEN At("locate") ELSE Idle)
    /\ UNCHANGED <<server, past, log, peek, late, used>>

TakeSnapshot(u) ==
    LET a == run[u].answer  d == Fetched(device[u], a) IN
    /\ Answered(u, "locate") \/ Answered(u, "pull")
    /\ Store(u, d)
    /\ Go(u, IF run[u].pc = "locate" THEN Enter(d)
             ELSE IF a.code = "snapshot" THEN At("list") ELSE Idle)
    /\ UNCHANGED <<server, past, log, peek, late, used>>

\* What push makes of the answer, and what comes next.
Again(pull) == [At("list") EXCEPT !.pull = pull]
Lost == {"SHARED_LIST_NOT_FOUND", "SHARED_LIST_ACCESS_REVOKED"}

\* Slip: any task will do.
CompletesAny(r) == r.answer.code = "task"

\* A task exactly one revision later is taken for the snapshot with this edit.
Completes(r) == r.answer.code = "task" /\ r.answer.rev = r.expected + 1

TakeAnswer(u) ==
    LET r == run[u]  a == r.answer  d == device[u]
        ends(e, after) == Store(u, e) /\ Go(u, after)
        refused == a.code \notin Lost \cup {"task", "done", "REVISION_CONFLICT"}
    IN  /\ Answered(u, "push")
        /\ \/ Completes(r) /\ ends(Folded(d, r.op, r.expected, a), Again(FALSE))
           \/ /\ a.code \in {"task", "done"} /\ ~Completes(r)
              /\ ends(Delivered(d, r.op), Again(TRUE))
           \/ a.code \in Lost /\ ends(LoseAccess(d, a), Idle)
           \/ a.code = "REVISION_CONFLICT" /\ ends(d, Again(TRUE))
           \/ /\ a.code = "SHARED_LIST_FORBIDDEN"
              /\ ends(RejectOps(d, Everything(d), a.code), Again(TRUE))
           \/ /\ a.code = "SHARED_TASK_NOT_FOUND" /\ r.op.kind = "delete"
              /\ ends(Delivered(d, r.op), Again(TRUE))
           \/ /\ refused /\ a.code # "SHARED_LIST_FORBIDDEN"
              /\ ~(a.code = "SHARED_TASK_NOT_FOUND" /\ r.op.kind = "delete")
              /\ ends(RejectOps(d, {r.op.id}, a.code), Again(FALSE))
        /\ UNCHANGED <<server, past, log, peek, late, used>>

\* The network fails, the page is closed, or the engine is stopped: the
\* request may be on its way still.
GiveUp(u) ==
    /\ run[u].pc # "idle"
    /\ Spend("faults", MaxFaults)
    /\ Go(u, Idle)
    /\ late' = IF Waits(u) /\ run[u].pc = "push"
               THEN late \cup {[user |-> u, op |-> run[u].op, expected |-> run[u].expected,
                                honest |-> run[u].honest]}
               ELSE late
    /\ UNCHANGED <<server, past, log, device, peek>>

\* A late request is handled after all, or lost.
ServeLate ==
    \E r \in late :
        /\ late' = late \ {r}
        /\ Handle(r.user, r.op, r.expected, r.honest) \/ Unchanged
        /\ UNCHANGED <<device, run, peek, used>>

PeekStep(u) ==
    /\ peek[u].open
    /\ IF peek[u].answer = None
       THEN peek' = [peek EXCEPT ![u].answer = Snapshot(u)] /\ UNCHANGED device
       ELSE /\ peek' = [peek EXCEPT ![u] = Closed]
            /\ Store(u, Fetched(device[u], peek[u].answer)) \/ UNCHANGED device
    /\ UNCHANGED <<server, past, log, run, late, used>>

EngineStep(u) ==
    StartRun(u) \/ Choose(u) \/ Post(u) \/ Serve(u) \/ TakeIndex(u) \/ TakeSnapshot(u) \/ TakeAnswer(u)

Next ==
    \/ \E u \in User : UserStep(u) \/ EngineStep(u) \/ GiveUp(u) \/ PeekStep(u)
    \/ ServeLate

Spec == Init /\ [][Next]_vars

\* An engine polls every fifteen seconds, with the index, and its calls end.
\* A snapshot fetched on the side may be given up.
StartWithIndex(u) == StartRun(u) /\ run'[u].pc = "index"
Continue(u) == EngineStep(u) /\ ~(run[u].pc = "idle")
Fairness == \A u \in User : WF_vars(Continue(u)) /\ SF_vars(StartWithIndex(u))
FairSpec == Spec /\ Fairness

-----------------------------------------------------------------------------
(* Properties. *)

(***************************************************************************)
(* The snapshot of a device is the list as it was at the revision that the *)
(* device names when it sends an edit. It may be wrong only where a        *)
(* replayed answer was taken for the answer to a first delivery.           *)
(***************************************************************************)
ShadowIsServer ==
    \A u \in User : LET d == device[u] IN
        d.snap # None /\ ~d.guess => d.snap = past[d.rev]

(***************************************************************************)
(* The same without the exception, as the comment in push says: a replayed *)
(* receipt answers with the current revision, so the snapshot is fetched   *)
(* anew. It is not, when exactly one change came between.                  *)
(***************************************************************************)
SnapshotIsExact ==
    \A u \in User : device[u].snap # None => device[u].snap = past[device[u].rev]

(***************************************************************************)
(* An edit takes effect once, however often it is sent, and only on what   *)
(* its author has seen: no value is replaced that is neither the one it    *)
(* was made against nor the one it writes. Edits sent from a wrong         *)
(* snapshot, or after a snapshot had refused them, are left aside.         *)
(***************************************************************************)
Unseen(e) ==
    e.op.kind # "create" /\
    \E f \in DOMAIN e.op.base :
        e.before[f] # e.op.base[f] /\ (e.op.kind = "delete" \/ e.before[f] # e.op.patch[f])

EditsAreSafe ==
    \A i \in DOMAIN log :
        /\ \A j \in DOMAIN log : log[i].op.id = log[j].op.id => i = j
        /\ log[i].honest => ~Unseen(log[i])

(***************************************************************************)
(* Nobody overwrites what a collaborator wrote unseen, as the header of    *)
(* shared-sync.ts says. It does happen.                                    *)
(***************************************************************************)
NeverOverwrites == \A i \in DOMAIN log : ~Unseen(log[i])

(***************************************************************************)
(* Once users and faults rest, every device has sent or refused all it     *)
(* holds, and a member has the list of the service.                        *)
(***************************************************************************)
Settles ==
    <>[](\A u \in User :
            /\ Quiet(device[u].ops)
            /\ Access(u) = "ok" /\ ~device[u].guess => device[u].snap = Live(server.rows))
============================================================================
