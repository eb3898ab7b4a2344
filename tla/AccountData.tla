---------------------------- MODULE AccountData ----------------------------
(***************************************************************************)
(* The data of one account, shared by the server and the client models:    *)
(* rows with tombstones and parents, the four kinds of mutation, and the   *)
(* two ways a mutation is folded into a row:                               *)
(*   - the server applies it under its checks (apps/api/src/sync.rs);      *)
(*   - a client folds an accepted change, or one of its own unconfirmed    *)
(*     mutations, into the row it keeps (adapters/web-repository.ts).      *)
(*                                                                         *)
(* A patch carries some of the columns of a row, and two devices may patch *)
(* different ones. The parent reference (list_id, task_id) is kept apart   *)
(* because it is the one the server checks against the other rows.         *)
(***************************************************************************)
EXTENDS Integers, Sequences, FiniteSets

CONSTANTS
    Lists, Tasks, Steps, DayPlans,  \* entity ids, by table
    Column,                         \* title, note, name, tags, local_date, ...
    Value,                          \* their values
    SlotColumn,                     \* local_date, unique for the day plans of a task
    NoParent,                       \* list_id = NULL, or no parent column
    Keep,                           \* the patch does not carry the parent
    Absent,                         \* there is no row with this id
    OpId,                           \* operation ids (UUIDv7)
    Content                         \* what the operation with an id asks for

Entity == Lists \cup Tasks \cup Steps \cup DayPlans
Kind == {"create", "patch", "delete", "restore"}

\* The columns that a mutation carries, with their values.
Fields == UNION {[carried -> Value] : carried \in SUBSET Column}

Mutation == [entity : Entity, kind : Kind,
             parent : Entity \cup {NoParent, Keep}, val : Fields]

\* created is the created_at column: the time its transaction began.
Row == [parent : Entity \cup {NoParent}, val : [Column -> Value],
        deleted : BOOLEAN, created : Nat]

Rows == [Entity -> Row \cup {Absent}]

ASSUME DataAssumption ==
    /\ Content \in [OpId -> Mutation]
    /\ NoParent \notin Entity /\ Keep \notin Entity /\ NoParent # Keep
    /\ Absent \notin Row
    /\ Value # {}
    /\ SlotColumn \subseteq Column

----------------------------------------------------------------------------
(* What a mutation makes of a row. *)

\* A column that a create leaves out gets its default.
Default == CHOOSE v \in Value : TRUE

Overlay(val, fields) ==
    [c \in Column |-> IF c \in DOMAIN fields THEN fields[c] ELSE val[c]]

Patched(row, m) ==
    [row EXCEPT !.parent = IF m.parent = Keep THEN @ ELSE m.parent,
                !.val    = Overlay(@, m.val)]

Created(m, at) ==
    Patched([parent |-> NoParent, val |-> [c \in Column |-> Default],
             deleted |-> FALSE, created |-> at], m)

Tombstoned(row) == [row EXCEPT !.deleted = TRUE]

Revived(row, m) == [Patched(row, m) EXCEPT !.deleted = FALSE]

----------------------------------------------------------------------------
(* The checks of the server. *)

Live(rows, e) == rows[e] # Absent /\ ~rows[e].deleted

\* ensure_active_list: a task may stand alone, otherwise its list is active.
\* ensure_active_task: a step and a day plan always have an active task.
ParentActive(rows, e, parent) ==
    \/ e \in Lists
    \/ e \in Tasks /\ parent = NoParent
    \/ e \in Tasks /\ parent \in Lists /\ Live(rows, parent)
    \/ e \in Steps \cup DayPlans /\ parent \in Tasks /\ Live(rows, parent)

\* UNIQUE (user_id, task_id, local_date): tombstones keep their slot.
SlotFree(rows, e, row) ==
    e \in DayPlans =>
        \A f \in DayPlans \ {e} :
            rows[f] # Absent =>
                ~(/\ rows[f].parent = row.parent
                  /\ \A k \in SlotColumn : rows[f].val[k] = row.val[k])

Fits(rows, e, row) == ParentActive(rows, e, row.parent) /\ SlotFree(rows, e, row)

CreateAllowed(rows, m) ==
    /\ rows[m.entity] = Absent
    /\ DOMAIN m.val # {}
    /\ Fits(rows, m.entity, Created(m, 0))

\* Slip: a tombstone may be patched.
PatchAllowedDeleted(rows, m) ==
    /\ rows[m.entity] # Absent
    /\ m.parent # Keep \/ DOMAIN m.val # {}
    /\ Fits(rows, m.entity, Patched(rows[m.entity], m))

PatchAllowed(rows, m) ==
    /\ Live(rows, m.entity)
    /\ m.parent # Keep \/ DOMAIN m.val # {}
    /\ Fits(rows, m.entity, Patched(rows[m.entity], m))

DeleteAllowed(rows, m) ==
    /\ Live(rows, m.entity)
    /\ m.parent = Keep /\ DOMAIN m.val = {}

RestoreAllowed(rows, m) ==
    /\ rows[m.entity] # Absent /\ rows[m.entity].deleted
    /\ Fits(rows, m.entity, Revived(rows[m.entity], m))

\* Whether apply_mutation accepts m; otherwise the operation is rejected.
Accepts(rows, m) ==
    \/ m.kind = "create"  /\ CreateAllowed(rows, m)
    \/ m.kind = "patch"   /\ PatchAllowed(rows, m)
    \/ m.kind = "delete"  /\ DeleteAllowed(rows, m)
    \/ m.kind = "restore" /\ RestoreAllowed(rows, m)

\* Slip: a deleted row is gone.
ApplyMutationHard(rows, m, at) ==
    [rows EXCEPT ![m.entity] =
        CASE m.kind = "create"  -> Created(m, at)
          [] m.kind = "patch"   -> Patched(@, m)
          [] m.kind = "delete"  -> Absent
          [] m.kind = "restore" -> Revived(@, m)]

\* The rows after an accepted mutation of a transaction begun at time at.
ApplyMutation(rows, m, at) ==
    [rows EXCEPT ![m.entity] =
        CASE m.kind = "create"  -> Created(m, at)
          [] m.kind = "patch"   -> Patched(@, m)
          [] m.kind = "delete"  -> Tombstoned(@)
          [] m.kind = "restore" -> Revived(@, m)]

----------------------------------------------------------------------------
(* What a client makes of a change, or of its own mutation. It checks      *)
(* nothing: a create starts from nothing, the others from whatever row is  *)
(* there, and a column nobody ever supplied reads as a default.            *)

Base(row) == IF row = Absent
             THEN [parent |-> NoParent, val |-> [c \in Column |-> Default],
                   deleted |-> FALSE, created |-> 0]
             ELSE row

Merge(row, m) ==
    CASE m.kind = "create"  -> Patched(Base(Absent), m)
      [] m.kind = "patch"   -> Patched(Base(row), m)
      [] m.kind = "delete"  -> Tombstoned(Base(row))
      [] m.kind = "restore" -> Revived(Base(row), m)
============================================================================
