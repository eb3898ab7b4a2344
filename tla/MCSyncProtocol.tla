--------------------------- MODULE MCSyncProtocol --------------------------
(***************************************************************************)
(* Small instances of SyncProtocol: what the users of two devices may do,  *)
(* in any order and at any time the rows on their devices allow it.        *)
(***************************************************************************)
EXTENDS SyncProtocol

CONSTANTS l, t, p, q, o1, o2, o3, o4, o5

Op(e, kind, parent, fields) ==
    [entity |-> e, kind |-> kind, parent |-> parent, val |-> fields]

Nothing == [k \in {} |-> 0]
Title(v) == [k \in {"title"} |-> v]
Note(v) == [k \in {"note"} |-> v]
Both(v) == [k \in {"title", "note"} |-> v]

\* One device creates a task and edits it; the other edits the same field and
\* deletes the task.
EditContent ==
    (o1 :> Op(t, "create", NoParent, Both(1))) @@ (o2 :> Op(t, "patch", Keep, Title(2))) @@
    (o3 :> Op(t, "patch", Keep, Note(2)))      @@ (o4 :> Op(t, "delete", Keep, Nothing)) @@
    (o5 :> Op(t, "patch", Keep, Title(3)))

EditCommands == (1 :> {<<o1>>, <<o2>>}) @@ (2 :> {<<o5>>, <<o4>>})

\* The other device edits another field.
FieldCommands == (1 :> {<<o1>>, <<o2>>}) @@ (2 :> {<<o3>>})

\* One device creates a task with a plan for the day; each removes it from
\* the day or plans it again, the other under an id of its own.
PlanContent ==
    (o1 :> Op(t, "create", NoParent, Both(1))) @@ (o2 :> Op(p, "create", t, Both(1))) @@
    (o3 :> Op(q, "create", t, Both(1)))        @@ (o4 :> Op(p, "delete", Keep, Nothing)) @@
    (o5 :> Op(p, "restore", Keep, Nothing))

PlanCommands ==
    (1 :> {<<o1>>, <<o2>>, <<o4>>}) @@ (2 :> {<<o3>>, <<o5>>})

\* One device creates a list and a task in it, the other deletes the list and
\* takes out the task if it sees it.
ListContent ==
    (o1 :> Op(l, "create", NoParent, Both(1))) @@ (o2 :> Op(t, "create", l, Both(1))) @@
    (o3 :> Op(l, "delete", Keep, Nothing))     @@ (o4 :> Op(t, "patch", NoParent, Nothing)) @@
    (o5 :> Op(l, "delete", Keep, Nothing))

ListCommands ==
    (1 :> {<<o1>>, <<o2>>}) @@ (2 :> {<<o3>>, <<o5, o4>>})

PlanIds == <<p, q, t>>
ListIds == <<l, t>>
TaskIds == <<t>>
============================================================================
