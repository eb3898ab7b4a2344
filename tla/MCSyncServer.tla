---------------------------- MODULE MCSyncServer ---------------------------
(***************************************************************************)
(* Small instances of SyncServer: what the operations ask for, and the     *)
(* batches that devices send. Batches overlap the way retries do: a        *)
(* prefix, a suffix and the whole of what a device has in its outbox. They *)
(* are offered to every device, so that two devices race for one row, and  *)
(* one number of a device may come with two operations.                    *)
(***************************************************************************)
EXTENDS SyncServer, TLC

CONSTANTS t, p, o1, o2, o3, o4, o5

Op(e, kind, parent, fields) ==
    [entity |-> e, kind |-> kind, parent |-> parent, val |-> fields]

Main(v) == [c \in Column |-> v]
Nothing == [c \in {} |-> 0]

At(op, seq) == [op |-> op, seq |-> seq]

\* One task: created, edited, deleted, restored.
TaskContent ==
    (o1 :> Op(t, "create", NoParent, Main(1))) @@ (o2 :> Op(t, "patch", Keep, Main(2))) @@
    (o3 :> Op(t, "delete", Keep, Nothing))  @@ (o4 :> Op(t, "restore", Keep, Nothing))

TaskBatches ==
    { <<At(o1, 1)>>, <<At(o1, 1), At(o2, 2)>>, <<At(o2, 2)>>,
      <<At(o3, 1)>>, <<At(o3, 1), At(o4, 2)>> }

TaskOrder == <<t>>

\* A task and its plan, so that the pages of a bootstrap lie apart.
PairContent ==
    (o1 :> Op(t, "create", NoParent, Main(1))) @@ (o2 :> Op(p, "create", t, Main(1))) @@
    (o3 :> Op(t, "patch", Keep, Main(2)))      @@ (o4 :> Op(p, "delete", Keep, Nothing)) @@
    (o5 :> Op(p, "restore", Keep, Nothing))

\* The device retries while the jobs run, also with another operation under
\* the number of the second.
PairBatches == { <<At(o1, 1), At(o2, 2)>>, <<At(o1, 1), At(o3, 2)>> }

PairOrder == <<p, t>>

\* Operations for the retention jobs: what matters is when they commit.
LogContent ==
    (o1 :> Op(t, "create", NoParent, Main(1))) @@ (o2 :> Op(t, "patch", Keep, Main(2))) @@
    (o3 :> Op(t, "create", NoParent, Main(2)))

LogBatches == { <<At(o1, 1)>>, <<At(o1, 1), At(o2, 2)>>, <<At(o3, 1)>> }
============================================================================
