--------------------------- MODULE MCNativeStore ---------------------------
(***************************************************************************)
(* Small instances of NativeStore: what the account holds, and what other  *)
(* devices send.                                                           *)
(***************************************************************************)
EXTENDS NativeStore

CONSTANTS l, m, t, u, s, r, p, q

Text(v) == [k \in Column |-> v]

\* OpId and Content belong to SyncServer.
NoContent == [o \in OpId |-> Mark(CHOOSE e \in Entity : TRUE, "delete")]

\* A list with a task, and a plan that was taken from the day again.
HomeStart == <<Make(l, NoParent, Text(1)), Make(t, l, Text(1)), Make(p, t, Text(1)), Mark(p, "delete")>>
HomeForeign == {Alter(t, [k \in {"rank"} |-> 3]), Mark(t, "delete")}

NoStart == <<>>

\* A task that another device plans too.
TaskStart == <<Make(t, NoParent, Text(1))>>
TaskForeign == {Mark(t, "delete")}
SlotForeign == {Make(q, t, Text(1))}
============================================================================
