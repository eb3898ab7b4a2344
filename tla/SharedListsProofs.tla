------------------------- MODULE SharedListsProofs -------------------------
(***************************************************************************)
(* Proofs about SharedLists: the copy of a list on a device is the list at *)
(* the revision it names, and an edit takes effect once, on nothing that   *)
(* its author has not seen.                                                *)
(***************************************************************************)
EXTENDS SharedLists, WellFoundedInduction, TLAPS

Entry == [op: Op, before: Row \cup {Absent, Gone}, honest: BOOLEAN]
Request == [user: User, op: Op, expected: Nat, honest: BOOLEAN]

Used == [edits: Nat, admin: Nat, faults: Nat]

\* An edit made against a row does not meet another one.
Suits(rows, op) ==
    op.kind # "create" /\ rows[op.task] # Absent => ~ Conflicts(rows[op.task], op)

\* The edit that is sent next was last compared with the snapshot.
NextSuits(rows, ops) == \A i \in DOMAIN ops : NextUp(ops, i) => Suits(rows, ops[i])

\* A copy is of a revision there was, and the right one unless it was guessed.
CopyIsDated(h, d) ==
    /\ ~ d.known => d.snap = None
    /\ d.snap # None => d.rev \in 1..Len(h) /\ (~ d.guess => d.snap = h[d.rev])

CopyIsTrue(h, d) == CopyIsDated(h, d) /\ (d.snap # None => NextSuits(d.snap, d.ops))

\* A snapshot on its way is of the revision it carries.
SnapshotIsTrue(h, a) ==
    a # None /\ a.code = "snapshot" => a.rev \in 1..Len(h) /\ a.rows = h[a.rev]

\* A call that is honest suits the revision it names.
CallIsTrue(h, c) ==
    /\ c.op \in Op /\ c.expected \in 1..Len(h)
    /\ c.honest => Suits(h[c.expected], c.op)

\* The answer to a first delivery is the revision before it with this edit.
TaskIsTrue(h, op, expected, a) ==
    /\ a.rev \in 1..Len(h)
    /\ ~ a.replay => h[a.rev] = [h[expected] EXCEPT ![op.task] = a.rows[op.task]]

RunIsTrue(h, r) ==
    /\ SnapshotIsTrue(h, r.answer)
    /\ r.pc = "picked" => r.op \in Op /\ r.answer = None
    /\ r.pc = "push" =>
        /\ CallIsTrue(h, r)
        /\ r.answer # None /\ r.answer.code = "task" => TaskIsTrue(h, r.op, r.expected, r.answer)

\* The history ends with the list as it is.
HistoryIsTrue == server.rev # 0 /\ past[server.rev] = Live(server.rows)

\* Whatever took effect has a receipt.
ReceiptsAreKept == \A i \in DOMAIN log : log[i].op.id \in server.receipts

ServerOK ==
    /\ server \in Server /\ past \in Seq(Rows) /\ Len(past) = server.rev
    /\ log \in Seq(Entry)
    /\ HistoryIsTrue /\ ReceiptsAreKept /\ EditsAreSafe

DevicesOK == device \in [User -> Device] /\ \A u \in User : CopyIsTrue(past, device[u])
RunsOK == run \in [User -> Run] /\ \A u \in User : RunIsTrue(past, run[u])
PeeksOK == peek \in [User -> Peek] /\ \A u \in User : SnapshotIsTrue(past, peek[u].answer)
LatesOK == late \subseteq Request /\ \A r \in late : CallIsTrue(past, r)
UsedOK == used \in Used

\* The inductive invariant.
Inv == ServerOK /\ DevicesOK /\ RunsOK /\ PeeksOK /\ LatesOK /\ UsedOK

----------------------------------------------------------------------------
(* Edits and outboxes. *)

\* A set of natural numbers has a least member.
LEMMA LeastExists ==
    ASSUME NEW S, S \subseteq Nat, S # {}
    PROVE  \E x \in S : \A y \in S : x <= y
<1>1. \E R : /\ IsWellFoundedOn(R, Nat)
             /\ \A x, y \in Nat : y < x => <<y, x>> \in R
  <2>1. \A x, y \in Nat : y < x => <<y, x>> \in OpToRel(<, Nat)
    BY DEF OpToRel
  <2> QED
    BY <2>1, NatLessThanWellFounded
<1>2. PICK R : /\ IsWellFoundedOn(R, Nat)
               /\ \A x, y \in Nat : y < x => <<y, x>> \in R
  BY <1>1
<1>3. PICK x \in S : \A y \in S : ~ (<<y, x>> \in R)
  BY <1>2, WFMin
<1>4. ASSUME NEW y \in S PROVE x <= y
  <2>1. x \in Nat /\ y \in Nat
    OBVIOUS
  <2>2. ~ (y < x)
    BY <1>2, <1>3, <2>1
  <2> QED
    BY <2>1, <2>2
<1> QED
  BY <1>4

\* The parts of an edit.
LEMMA OpParts ==
    ASSUME NEW op \in Op
    PROVE  /\ op \in [id: Nat, kind: {"create", "patch", "delete"}, task: Task, patch: Patch,
                      base: Patch, status: {"pending", "rejected"}, code: Codes]
           /\ op.kind = "create" => op.patch \in Row
  BY DEF Op

\* An edit that is refused stays the same edit.
LEMMA RefusedOp ==
    ASSUME NEW op \in Op, NEW code \in Codes
    PROVE  Refused(op, code) \in Op /\ Refused(op, code).status = "rejected"
  BY OpParts DEF Refused, Op

\* The two ways in which a rebase refuses an edit.
LEMMA RebaseRefusals ==
    ASSUME NEW op \in Op
    PROVE  /\ Refused(op, "SHARED_TASK_NOT_FOUND") \in Op
           /\ Refused(op, "SHARED_EDIT_CONFLICT") \in Op
           /\ Refused(op, "SHARED_TASK_NOT_FOUND").status = "rejected"
           /\ Refused(op, "SHARED_EDIT_CONFLICT").status = "rejected"
<1>1. "SHARED_TASK_NOT_FOUND" \in Codes /\ "SHARED_EDIT_CONFLICT" \in Codes
  BY DEF Codes
<1> QED
  BY <1>1, RefusedOp

\* A patch on a row gives a row.
LEMMA OverlayRow ==
    ASSUME NEW row \in Row, NEW patch \in Patch
    PROVE  Overlay(row, patch) \in Row
<1>1. PICK F \in SUBSET Field : patch \in [F -> Value]
  BY DEF Patch
<1>2. \A f \in Field : row[f] \in Value
  BY DEF Row
<1>3. \A f \in F : patch[f] \in Value
  BY <1>1
<1>4. DOMAIN patch = F
  BY <1>1
<1> QED
  BY <1>2, <1>3, <1>4 DEF Overlay, Row

\* The edit at the head of an outbox that grew is the old one or the new one.
LEMMA NextUpAppend ==
    ASSUME NEW ops \in Seq(Op), NEW op \in Op, NEW i \in DOMAIN Append(ops, op),
           NextUp(Append(ops, op), i)
    PROVE  \/ i \in DOMAIN ops /\ NextUp(ops, i) /\ Append(ops, op)[i] = ops[i]
           \/ Quiet(ops) /\ Append(ops, op)[i] = op /\ op.status = "pending"
<1>1. /\ DOMAIN ops = 1..Len(ops) /\ Len(ops) \in Nat
      /\ DOMAIN Append(ops, op) = 1..(Len(ops) + 1)
      /\ Append(ops, op)[Len(ops) + 1] = op
      /\ \A j \in 1..Len(ops) : Append(ops, op)[j] = ops[j]
  OBVIOUS
<1>2. CASE i \in 1..Len(ops)
  <2>1. \A j \in 1..(i - 1) : j \in 1..Len(ops)
    BY <1>1, <1>2
  <2> QED
    BY <1>1, <1>2, <2>1 DEF NextUp
<1>3. CASE i = Len(ops) + 1
  <2>1. 1..(i - 1) = 1..Len(ops)
    BY <1>1, <1>3
  <2> QED
    BY <1>1, <1>3, <2>1 DEF NextUp, Quiet
<1> QED
  BY <1>1, <1>2, <1>3

\* An outbox that grew is quiet only if it was, and the new edit is refused.
LEMMA QuietAppend ==
    ASSUME NEW ops \in Seq(Op), NEW op \in Op, Quiet(Append(ops, op))
    PROVE  Quiet(ops) /\ op.status # "pending"
<1>1. /\ DOMAIN ops = 1..Len(ops) /\ Len(ops) \in Nat
      /\ DOMAIN Append(ops, op) = 1..(Len(ops) + 1)
      /\ Append(ops, op)[Len(ops) + 1] = op
      /\ \A j \in 1..Len(ops) : Append(ops, op)[j] = ops[j]
  OBVIOUS
<1> QED
  BY <1>1 DEF Quiet

----------------------------------------------------------------------------
(* The rebase of an outbox. *)

Made == [rows: Rows, ops: Seq(Op)]

\* What the rebase keeps true as it goes through the edits: before the first
\* pending one, the rows are still the snapshot.
Sound(snap, acc) ==
    /\ Quiet(acc.ops) => acc.rows = snap
    /\ NextSuits(snap, acc.ops)

\* An edit that conflicts is refused, and one that does not is shown.
LEMMA RebaseOpRefuses ==
    ASSUME NEW acc, NEW op, op.status # "rejected", op.kind # "create",
           acc.rows[op.task] # Absent, Conflicts(acc.rows[op.task], op)
    PROVE  RebaseOp(acc, op) = [rows |-> acc.rows,
                                ops |-> Append(acc.ops, Refused(op, "SHARED_EDIT_CONFLICT"))]
  BY DEF RebaseOp

LEMMA RebaseOpShows ==
    ASSUME NEW acc, NEW op, op.status # "rejected", op.kind # "create",
           acc.rows[op.task] # Absent, ~ Conflicts(acc.rows[op.task], op)
    PROVE  RebaseOp(acc, op) =
               [rows |-> [acc.rows EXCEPT ![op.task] =
                             IF op.kind = "delete" THEN Absent
                             ELSE Overlay(acc.rows[op.task], op.patch)],
                ops |-> Append(acc.ops, op)]
  BY DEF RebaseOp

\* One edit more gives rows and edits.
LEMMA RebaseOpMakes ==
    ASSUME NEW acc \in Made, NEW op \in Op
    PROVE  RebaseOp(acc, op) \in Made
<1> DEFINE row == acc.rows[op.task]
<1>1. acc.rows \in Rows /\ acc.ops \in Seq(Op) /\ row \in Row \cup {Absent}
  BY OpParts DEF Made, Rows
<1>2. ASSUME NEW r \in Row \cup {Absent}
      PROVE  [rows |-> [acc.rows EXCEPT ![op.task] = r], ops |-> Append(acc.ops, op)] \in Made
  BY <1>1, <1>2, OpParts DEF Made, Rows
<1>3. ASSUME NEW o \in Op
      PROVE  [rows |-> acc.rows, ops |-> Append(acc.ops, o)] \in Made
  BY <1>1, <1>3 DEF Made
<1>5. /\ op.kind = "create" => op.patch \in Row
      /\ row # Absent => Overlay(row, op.patch) \in Row
  BY <1>1, OpParts, OverlayRow
<1> HIDE DEF row
<1>6. CASE op.status = "rejected"
  BY <1>3, <1>6 DEF RebaseOp
<1>7. CASE op.status # "rejected" /\ op.kind = "create"
  <2>1. (IF row = Absent THEN op.patch ELSE row) \in Row \cup {Absent}
    BY <1>1, <1>5, <1>7
  <2> QED
    BY <1>2, <1>7, <2>1 DEF RebaseOp, row
<1>8. CASE op.status # "rejected" /\ op.kind # "create" /\ row = Absent
  BY <1>3, <1>8, RebaseRefusals DEF RebaseOp, row
<1>9. CASE op.status # "rejected" /\ op.kind # "create" /\ row # Absent
  <2>1. CASE Conflicts(row, op)
    <3> DEFINE o == Refused(op, "SHARED_EDIT_CONFLICT")
    <3>1. RebaseOp(acc, op) = [rows |-> acc.rows, ops |-> Append(acc.ops, o)]
      BY <1>9, <2>1, RebaseOpRefuses DEF row
    <3>2. o \in Op
      BY RebaseRefusals
    <3> HIDE DEF o
    <3> QED
      BY <1>3, <3>1, <3>2
  <2>2. CASE ~ Conflicts(row, op)
    <3>1. (IF op.kind = "delete" THEN Absent ELSE Overlay(row, op.patch)) \in Row \cup {Absent}
      BY <1>5, <1>9
    <3>2. RebaseOp(acc, op) =
              [rows |-> [acc.rows EXCEPT ![op.task] =
                            IF op.kind = "delete" THEN Absent ELSE Overlay(row, op.patch)],
               ops |-> Append(acc.ops, op)]
      BY <1>9, <2>2, RebaseOpShows DEF row
    <3> QED
      BY <1>2, <3>1, <3>2
  <2> QED
    BY <2>1, <2>2
<1> QED
  BY <1>6, <1>7, <1>8, <1>9

\* The refused edit that joins an outbox leaves the first pending one alone.
LEMMA RefusedJoins ==
    ASSUME NEW snap \in Rows, NEW acc \in Made, Sound(snap, acc), NEW o \in Op,
           o.status = "rejected"
    PROVE  Sound(snap, [rows |-> acc.rows, ops |-> Append(acc.ops, o)])
<1> DEFINE new == [rows |-> acc.rows, ops |-> Append(acc.ops, o)]
<1>1. /\ acc.ops \in Seq(Op) /\ new.ops = Append(acc.ops, o) /\ new.rows = acc.rows
  BY DEF Made
<1>2. Quiet(new.ops) => new.rows = snap
  BY <1>1, QuietAppend DEF Sound
<1>3. ASSUME NEW i \in DOMAIN new.ops, NextUp(new.ops, i)
      PROVE  Suits(snap, new.ops[i])
  BY <1>1, <1>3, NextUpAppend DEF Sound, NextSuits
<1> QED
  BY <1>2, <1>3 DEF Sound, NextSuits

\* So does a pending edit that suits the rows it joins.
LEMMA PendingJoins ==
    ASSUME NEW snap \in Rows, NEW acc \in Made, Sound(snap, acc), NEW o \in Op,
           o.status = "pending", Suits(acc.rows, o), NEW rows
    PROVE  Sound(snap, [rows |-> rows, ops |-> Append(acc.ops, o)])
<1> DEFINE new == [rows |-> rows, ops |-> Append(acc.ops, o)]
<1>1. /\ acc.ops \in Seq(Op) /\ new.ops = Append(acc.ops, o)
  BY DEF Made
<1>2. ~ Quiet(new.ops)
  BY <1>1, QuietAppend
<1>3. ASSUME NEW i \in DOMAIN new.ops, NextUp(new.ops, i)
      PROVE  Suits(snap, new.ops[i])
  BY <1>1, <1>3, NextUpAppend DEF Sound, NextSuits
<1> QED
  BY <1>2, <1>3 DEF Sound, NextSuits

\* One edit more, and the first pending edit still suits the snapshot.
LEMMA RebaseOpSound ==
    ASSUME NEW snap \in Rows, NEW acc \in Made, Sound(snap, acc), NEW op \in Op
    PROVE  Sound(snap, RebaseOp(acc, op))
<1> DEFINE row == acc.rows[op.task]
<1>2. op.status \in {"pending", "rejected"}
  BY OpParts
<1> HIDE DEF row
<1>3. CASE op.status = "rejected"
  BY <1>3, RefusedJoins DEF RebaseOp
<1>4. CASE op.status = "pending" /\ op.kind = "create"
  <2>1. Suits(acc.rows, op)
    BY <1>4 DEF Suits
  <2> QED
    BY <1>4, <2>1, PendingJoins DEF RebaseOp
<1>5. CASE op.status = "pending" /\ op.kind # "create" /\ row = Absent
  BY <1>5, RebaseRefusals, RefusedJoins DEF RebaseOp, row
<1>6. CASE op.status = "pending" /\ op.kind # "create" /\ row # Absent
  <2>1. CASE Conflicts(row, op)
    <3> DEFINE o == Refused(op, "SHARED_EDIT_CONFLICT")
    <3>1. RebaseOp(acc, op) = [rows |-> acc.rows, ops |-> Append(acc.ops, o)]
      BY <1>6, <2>1, RebaseOpRefuses DEF row
    <3>2. o \in Op /\ o.status = "rejected"
      BY RebaseRefusals
    <3> HIDE DEF o
    <3> QED
      BY <3>1, <3>2, RefusedJoins
  <2>2. CASE ~ Conflicts(row, op)
    <3>1. Suits(acc.rows, op)
      BY <2>2 DEF Suits, row
    <3> QED
      <4>1. RebaseOp(acc, op) =
                [rows |-> [acc.rows EXCEPT ![op.task] =
                              IF op.kind = "delete" THEN Absent ELSE Overlay(row, op.patch)],
                 ops |-> Append(acc.ops, op)]
        BY <1>6, <2>2, RebaseOpShows DEF row
      <4> QED
        BY <1>6, <3>1, <4>1, PendingJoins
  <2> QED
    BY <2>1, <2>2
<1> QED
  BY <1>2, <1>3, <1>4, <1>5, <1>6

\* The rebase goes through the edits one after the other.
Goes(f, snap, ops) ==
    f = [n \in 0..Len(ops) |->
            IF n = 0 THEN [rows |-> snap, ops |-> <<>>] ELSE RebaseOp(f[n - 1], ops[n])]

\* It can.
LEMMA RebaseExists ==
    ASSUME NEW snap \in Rows, NEW ops \in Seq(Op)
    PROVE  \E f : Goes(f, snap, ops)
<1> DEFINE Start0 == [rows |-> snap, ops |-> <<>>]
           Upto(f, n) == /\ f \in [0..n -> Made] /\ f[0] = Start0
                         /\ \A k \in 1..n : f[k] = RebaseOp(f[k - 1], ops[k])
           Good(n) == \E f : Upto(f, n)
           Bad == {n \in 0..Len(ops) : ~ Good(n)}
<1>1. Start0 \in Made
  BY DEF Made
<1> HIDE DEF Start0
<1>2. ASSUME Bad # {} PROVE FALSE
  <2>1. PICK n \in Bad : \A k \in Bad : n <= k
    <3>1. Bad \subseteq Nat
      OBVIOUS
    <3> HIDE DEF Bad
    <3> QED
      BY <1>2, <3>1, LeastExists
  <2>2. n \in 0..Len(ops) /\ ~ Good(n)
    OBVIOUS
  <2>3. CASE n = 0
    <3>1. Upto([k \in 0..0 |-> Start0], 0)
      BY <1>1
    <3> QED
      BY <2>2, <2>3, <3>1
  <2>4. CASE n # 0
    <3>1. n - 1 \in 0..Len(ops) /\ ~ (n <= n - 1) /\ n \in 1..Len(ops)
      BY <2>2, <2>4
    <3>2. Good(n - 1)
      <4> HIDE DEF Good
      <4> QED
        BY <2>1, <3>1
    <3>3. PICK f : Upto(f, n - 1)
      BY <3>2
    <3> DEFINE g == [k \in 0..n |-> IF k = n THEN RebaseOp(f[n - 1], ops[n]) ELSE f[k]]
    <3>4. f[n - 1] \in Made /\ ops[n] \in Op
      BY <3>1, <3>3
    <3>5. RebaseOp(f[n - 1], ops[n]) \in Made
      BY <3>4, RebaseOpMakes
    <3>6. \A k \in 0..n : k # n => k \in 0..(n - 1)
      BY <3>1
    <3>7. g \in [0..n -> Made]
      BY <3>3, <3>5, <3>6
    <3>8. g[0] = Start0
      BY <2>4, <3>1, <3>3
    <3>9. ASSUME NEW k \in 1..n PROVE g[k] = RebaseOp(g[k - 1], ops[k])
      <4>1. k - 1 \in 0..n /\ k - 1 # n /\ k \in 0..n
        BY <3>1
      <4>2. g[k - 1] = f[k - 1]
        BY <4>1
      <4>3. CASE k = n
        BY <4>1, <4>2, <4>3
      <4>4. CASE k # n
        <5>1. k \in 1..(n - 1)
          BY <3>1, <4>4
        <5>2. f[k] = RebaseOp(f[k - 1], ops[k])
          BY <3>3, <5>1
        <5> QED
          BY <4>1, <4>2, <4>4, <5>2
      <4> QED
        BY <4>3, <4>4
    <3>10. Upto(g, n)
      <4> HIDE DEF g
      <4> QED
        BY <3>7, <3>8, <3>9
    <3> QED
      BY <2>2, <3>10
  <2> QED
    BY <2>3, <2>4
<1>3. Len(ops) \in 0..Len(ops)
  OBVIOUS
<1>4. Good(Len(ops))
  <2> HIDE DEF Good
  <2> QED
    BY <1>2, <1>3
<1>5. PICK f : Upto(f, Len(ops))
  BY <1>4
<1> DEFINE h == [n \in 0..Len(ops) |-> IF n = 0 THEN Start0 ELSE RebaseOp(f[n - 1], ops[n])]
<1>6. f = h
  <2>1. ASSUME NEW n \in 0..Len(ops) PROVE f[n] = h[n]
    <3>1. n # 0 => n \in 1..Len(ops)
      OBVIOUS
    <3> QED
      BY <1>5, <3>1
  <2> QED
    BY <1>5, <2>1
<1> QED
  BY <1>5, <1>6 DEF Goes, Start0

\* What comes of a rebase has the types of rows and edits, and is sound.
LEMMA RebaseAllSound ==
    ASSUME NEW snap \in Rows, NEW ops \in Seq(Op)
    PROVE  RebaseAll(snap, ops) \in Made /\ Sound(snap, RebaseAll(snap, ops))
<1>1. PICK f : Goes(f, snap, ops) /\ RebaseAll(snap, ops) = f[Len(ops)]
  <2>1. Goes(CHOOSE f : Goes(f, snap, ops), snap, ops)
    BY RebaseExists
  <2>2. RebaseAll(snap, ops) = (CHOOSE f : Goes(f, snap, ops))[Len(ops)]
    BY DEF RebaseAll, Goes
  <2> QED
    BY <2>1, <2>2
<1> DEFINE Good(n) == f[n] \in Made /\ Sound(snap, f[n])
           Bad == {n \in 0..Len(ops) : ~ Good(n)}
<1>2. /\ f[0] = [rows |-> snap, ops |-> <<>>]
      /\ \A n \in 1..Len(ops) : f[n] = RebaseOp(f[n - 1], ops[n])
  <2>1. \A n \in 0..Len(ops) : f[n] = IF n = 0 THEN [rows |-> snap, ops |-> <<>>]
                                      ELSE RebaseOp(f[n - 1], ops[n])
    BY <1>1 DEF Goes
  <2> QED
    BY <2>1
<1>3. ASSUME Bad # {} PROVE FALSE
  <2>1. PICK n \in Bad : \A k \in Bad : n <= k
    <3>1. Bad \subseteq Nat
      OBVIOUS
    <3> HIDE DEF Bad
    <3> QED
      BY <1>3, <3>1, LeastExists
  <2>2. n \in 0..Len(ops) /\ ~ Good(n)
    OBVIOUS
  <2>3. CASE n = 0
    <3>1. f[0] \in Made
      BY <1>2 DEF Made
    <3>2. Sound(snap, f[0])
      BY <1>2 DEF Sound, NextSuits, Quiet
    <3> QED
      BY <2>2, <2>3, <3>1, <3>2
  <2>4. CASE n # 0
    <3>1. n - 1 \in 0..Len(ops) /\ ~ (n <= n - 1) /\ n \in 1..Len(ops)
      BY <2>2, <2>4
    <3>2. Good(n - 1)
      <4> HIDE DEF Good
      <4> QED
        BY <2>1, <3>1
    <3>3. ops[n] \in Op /\ f[n] = RebaseOp(f[n - 1], ops[n])
      BY <1>2, <3>1
    <3> QED
      BY <2>2, <3>2, <3>3, RebaseOpMakes, RebaseOpSound
  <2> QED
    BY <2>3, <2>4
<1>4. Len(ops) \in 0..Len(ops)
  OBVIOUS
<1>5. Good(Len(ops))
  <2> HIDE DEF Good
  <2> QED
    BY <1>3, <1>4
<1> QED
  BY <1>1, <1>5

----------------------------------------------------------------------------
(* The store of a device. *)

\* The parts of a device that a rebase leaves alone.
SameCopy(d, e) ==
    /\ e.known = d.known /\ e.snap = d.snap /\ e.rev = d.rev /\ e.guess = d.guess

\* A rebase keeps the copy, and puts a suitable edit first.
LEMMA RebasedDevice ==
    ASSUME NEW d \in Device
    PROVE  /\ Rebased(d) \in Device /\ SameCopy(d, Rebased(d))
           /\ d.snap # None => NextSuits(d.snap, Rebased(d).ops)
<1>1. CASE d.snap = None
  BY <1>1 DEF Rebased, SameCopy
<1>2. CASE d.snap # None
  <2> DEFINE r == RebaseAll(d.snap, d.ops)
  <2>1. d.snap \in Rows /\ d.ops \in Seq(Op)
    BY <1>2 DEF Device
  <2>2. r \in Made /\ Sound(d.snap, r)
    BY <2>1, RebaseAllSound
  <2>3. Rebased(d) = [d EXCEPT !.view = r.rows, !.ops = r.ops]
    BY <1>2 DEF Rebased
  <2> HIDE DEF r
  <2>4. r.rows \in Rows /\ r.ops \in Seq(Op)
    BY <2>2 DEF Made
  <2>5. Rebased(d) \in Device /\ SameCopy(d, Rebased(d)) /\ Rebased(d).ops = r.ops
    BY <2>3, <2>4 DEF Device, SameCopy
  <2> QED
    BY <2>2, <2>5 DEF Sound
<1> QED
  BY <1>1, <1>2

\* An outbox without one edit is an outbox.
LEMMA WithoutDevice ==
    ASSUME NEW d \in Device, NEW id
    PROVE  Without(d, id) \in Device /\ SameCopy(d, Without(d, id))
<1>1. d.ops \in Seq(Op)
  BY DEF Device
<1>2. \A i \in DOMAIN d.ops : RemoveAt(d.ops, i) \in Seq(Op)
  BY <1>1 DEF RemoveAt
<1> DEFINE left == IF \E i \in DOMAIN d.ops : d.ops[i].id = id
                   THEN RemoveAt(d.ops, CHOOSE i \in DOMAIN d.ops : d.ops[i].id = id)
                   ELSE d.ops
<1>3. left \in Seq(Op)
  BY <1>1, <1>2
<1>4. Without(d, id) = [d EXCEPT !.ops = left]
  BY DEF Without
<1> HIDE DEF left
<1> QED
  BY <1>3, <1>4 DEF Device, SameCopy

\* So is one with edits refused.
LEMMA RefuseAllDevice ==
    ASSUME NEW d \in Device, NEW ids, NEW code \in Codes
    PROVE  RefuseAll(d, ids, code) \in Device /\ SameCopy(d, RefuseAll(d, ids, code))
<1> DEFINE new == [i \in DOMAIN d.ops |->
                      IF d.ops[i].status = "pending" /\ d.ops[i].id \in ids
                      THEN Refused(d.ops[i], code) ELSE d.ops[i]]
<1>1. d.ops \in Seq(Op) /\ DOMAIN d.ops = 1..Len(d.ops) /\ Len(d.ops) \in Nat
  BY DEF Device
<1>2. \A i \in DOMAIN d.ops : d.ops[i] \in Op /\ Refused(d.ops[i], code) \in Op
  BY <1>1, RefusedOp
<1>3. new \in Seq(Op)
  <2>1. new \in [1..Len(d.ops) -> Op]
    BY <1>1, <1>2
  <2> HIDE DEF new
  <2> QED
    BY <1>1, <2>1
<1>4. RefuseAll(d, ids, code) = [d EXCEPT !.ops = new]
  BY DEF RefuseAll
<1> HIDE DEF new
<1> QED
  BY <1>3, <1>4 DEF Device, SameCopy

\* Whatever a rebase starts from, a dated copy comes out true.
LEMMA RebasedIsTrue ==
    ASSUME NEW h, NEW d \in Device, CopyIsDated(h, d)
    PROVE  Rebased(d) \in Device /\ CopyIsTrue(h, Rebased(d))
  BY RebasedDevice DEF SameCopy, CopyIsDated, CopyIsTrue

\* A copy is dated alike where all it is dated by is the same.
LEMMA SameCopyIsDated ==
    ASSUME NEW h, NEW d, NEW e, SameCopy(d, e), CopyIsDated(h, d)
    PROVE  CopyIsDated(h, e)
  BY DEF SameCopy, CopyIsDated

LEMMA UnknownDevice == Unknown \in Device /\ \A h : CopyIsTrue(h, Unknown)
<1>1. NoRows \in Rows
  BY DEF NoRows, Rows
<1>2. << >> \in Seq(Op) /\ 0 \in Nat
  OBVIOUS
<1>3. Unknown \in Device
  BY <1>1, <1>2 DEF Unknown, Device, Roles
<1> QED
  BY <1>3 DEF Unknown, CopyIsTrue, CopyIsDated

LEMMA ListedDevice ==
    ASSUME NEW h, NEW d \in Device, CopyIsTrue(h, d), NEW a, a.role \in Roles, a.rev \in Nat
    PROVE  Listed(d, a) \in Device /\ CopyIsTrue(h, Listed(d, a))
<1>1. CASE d.known
  <2>1. Listed(d, a) = [d EXCEPT !.role = a.role, !.sum = a.rev, !.access = "active"]
    BY <1>1 DEF Listed
  <2> QED
    BY <2>1 DEF Device, CopyIsTrue, CopyIsDated
<1>2. CASE ~ d.known
  <2>1. Listed(d, a) = [Unknown EXCEPT !.known = TRUE, !.role = a.role, !.sum = a.rev]
    BY <1>2 DEF Listed
  <2>2. Listed(d, a) \in Device
    BY <2>1, UnknownDevice DEF Device
  <2>3. Listed(d, a).snap = None /\ Listed(d, a).known
    BY <2>1 DEF Unknown
  <2> QED
    BY <2>2, <2>3 DEF CopyIsTrue, CopyIsDated
<1> QED
  BY <1>1, <1>2

LEMMA LoseAccessDevice ==
    ASSUME NEW h, NEW d \in Device, CopyIsTrue(h, d), NEW a \in Reply
    PROVE  LoseAccess(d, a) \in Device /\ CopyIsTrue(h, LoseAccess(d, a))
<1> DEFINE e == RefuseAll(d, Everything(d), a.code)
           f == [e EXCEPT !.access = IF a.code = "SHARED_LIST_NOT_FOUND" THEN "deleted"
                                     ELSE "revoked"]
<1>1. e \in Device /\ SameCopy(d, e)
  BY RefuseAllDevice DEF Reply
<1> HIDE DEF e
<1>2. f \in Device /\ SameCopy(d, f)
  BY <1>1 DEF Device, SameCopy
<1>3. CASE d.known
  <2>1. LoseAccess(d, a) = Rebased(f)
    BY <1>3 DEF LoseAccess, e
  <2>2. CopyIsDated(h, f)
    BY <1>2, SameCopyIsDated DEF CopyIsTrue
  <2> HIDE DEF f
  <2> QED
    BY <1>2, <2>1, <2>2, RebasedIsTrue
<1>4. CASE ~ d.known
  BY <1>4 DEF LoseAccess
<1> QED
  BY <1>3, <1>4

LEMMA RejectOpsDevice ==
    ASSUME NEW h, NEW d \in Device, CopyIsTrue(h, d), NEW ids, NEW code \in Codes
    PROVE  RejectOps(d, ids, code) \in Device /\ CopyIsTrue(h, RejectOps(d, ids, code))
<1>1. RefuseAll(d, ids, code) \in Device /\ CopyIsDated(h, RefuseAll(d, ids, code))
  BY RefuseAllDevice, SameCopyIsDated DEF CopyIsTrue
<1> QED
  BY <1>1, RebasedIsTrue DEF RejectOps

LEMMA DeliveredDevice ==
    ASSUME NEW h, NEW d \in Device, CopyIsTrue(h, d), NEW op
    PROVE  Delivered(d, op) \in Device /\ CopyIsTrue(h, Delivered(d, op))
<1>1. Without(d, op.id) \in Device /\ CopyIsDated(h, Without(d, op.id))
  BY WithoutDevice, SameCopyIsDated DEF CopyIsTrue
<1> QED
  BY <1>1, RebasedIsTrue DEF Delivered

LEMMA FetchedDevice ==
    ASSUME NEW h, NEW d \in Device, CopyIsTrue(h, d), NEW a \in Reply, a # None,
           SnapshotIsTrue(h, a)
    PROVE  Fetched(d, a) \in Device /\ CopyIsTrue(h, Fetched(d, a))
<1>1. CASE a.code # "snapshot"
  BY <1>1, LoseAccessDevice DEF Fetched
<1>2. CASE a.code = "snapshot" /\ d.snap # None /\ a.rev < d.rev
  BY <1>2 DEF Fetched, Pulled
<1>3. CASE a.code = "snapshot" /\ ~ (d.snap # None /\ a.rev < d.rev)
  <2> DEFINE e == [d EXCEPT !.known = TRUE, !.role = a.role, !.access = "active", !.sum = a.rev,
                            !.rev = a.rev, !.snap = a.rows, !.guess = FALSE]
  <2>1. e \in Device
    BY DEF Device, Reply
  <2>2. CopyIsDated(h, e)
    BY <1>3 DEF CopyIsDated, SnapshotIsTrue, Device
  <2>3. Fetched(d, a) = Rebased(e)
    BY <1>3 DEF Fetched, Pulled
  <2> HIDE DEF e
  <2> QED
    BY <2>1, <2>2, <2>3, RebasedIsTrue
<1> QED
  BY <1>1, <1>2, <1>3

LEMMA FoldedDevice ==
    ASSUME NEW h \in Seq(Rows), NEW d \in Device, CopyIsTrue(h, d), NEW op \in Op,
           NEW expected \in Nat, NEW a \in Reply, TaskIsTrue(h, op, expected, a),
           a.rev = expected + 1
    PROVE  Folded(d, op, expected, a) \in Device /\ CopyIsTrue(h, Folded(d, op, expected, a))
<1>1. CASE ~ (d.known /\ d.snap # None /\ d.rev = expected)
  <2>1. Folded(d, op, expected, a) = Delivered(d, op)
    BY <1>1 DEF Folded
  <2> QED
    BY <2>1, DeliveredDevice
<1>2. CASE d.known /\ d.snap # None /\ d.rev = expected
  <2> DEFINE w == Without(d, op.id)
             e == [w EXCEPT !.snap[op.task] = a.rows[op.task], !.rev = a.rev,
                            !.sum = IF @ < a.rev THEN a.rev ELSE @,
                            !.guess = @ \/ (a.replay /\ a.rev = expected + 1)]
  <2>1. w \in Device /\ SameCopy(d, w)
    BY WithoutDevice
  <2> HIDE DEF w
  <2>2. w.snap \in Rows /\ w.snap # None
    BY <1>2, <2>1 DEF SameCopy, Device
  <2>3. [w.snap EXCEPT ![op.task] = a.rows[op.task]] \in Rows
    BY <2>2, OpParts DEF Rows, Reply
  <2>4. e \in Device
    BY <2>1, <2>3 DEF Device, Reply
  <2>5. /\ e.snap = [w.snap EXCEPT ![op.task] = a.rows[op.task]] /\ e.rev = a.rev
        /\ e.known = w.known /\ e.guess = (w.guess \/ a.replay)
    BY <2>1 DEF Device, Reply
  <2>6. CopyIsDated(h, e)
    <3>1. ~ e.guess => w.snap = h[expected] /\ ~ a.replay
      BY <1>2, <2>1, <2>5 DEF SameCopy, CopyIsTrue, CopyIsDated
    <3>2. e.known
      BY <1>2, <2>1, <2>5 DEF SameCopy
    <3> HIDE DEF e
    <3> QED
      BY <2>5, <3>1, <3>2 DEF CopyIsDated, TaskIsTrue
  <2>7. Folded(d, op, expected, a) = Rebased(e)
    BY <1>2 DEF Folded, w
  <2> HIDE DEF e
  <2> QED
    BY <2>4, <2>6, <2>7, RebasedIsTrue
<1> QED
  BY <1>1, <1>2

----------------------------------------------------------------------------
(* The service. *)

\* A history that goes on.
Extends(h, g) == Len(h) <= Len(g) /\ \A i \in 1..Len(h) : g[i] = h[i]

\* What is true of a revision stays true as the history goes on.
LEMMA HistoryGoesOn ==
    ASSUME NEW h \in Seq(Rows), NEW g \in Seq(Rows), Extends(h, g)
    PROVE  /\ \A d : CopyIsTrue(h, d) => CopyIsTrue(g, d)
           /\ \A a : SnapshotIsTrue(h, a) => SnapshotIsTrue(g, a)
           /\ \A c : CallIsTrue(h, c) => CallIsTrue(g, c)
           /\ \A r : RunIsTrue(h, r) => RunIsTrue(g, r)
<1>1. Len(h) \in Nat /\ Len(g) \in Nat /\ \A i \in 1..Len(h) : i \in 1..Len(g) /\ g[i] = h[i]
  BY DEF Extends
<1>2. \A d : CopyIsTrue(h, d) => CopyIsTrue(g, d)
  BY <1>1 DEF CopyIsTrue, CopyIsDated
<1>3. \A a : SnapshotIsTrue(h, a) => SnapshotIsTrue(g, a)
  BY <1>1 DEF SnapshotIsTrue
<1>4. \A c : CallIsTrue(h, c) => CallIsTrue(g, c)
  BY <1>1 DEF CallIsTrue
<1>5. ASSUME NEW op, NEW expected \in 1..Len(h), NEW a, TaskIsTrue(h, op, expected, a)
      PROVE  TaskIsTrue(g, op, expected, a)
  BY <1>1, <1>5 DEF TaskIsTrue
<1>6. ASSUME NEW r, RunIsTrue(h, r) PROVE RunIsTrue(g, r)
  <2>1. SnapshotIsTrue(g, r.answer) /\ (r.pc = "picked" => r.op \in Op /\ r.answer = None)
    BY <1>3, <1>6 DEF RunIsTrue
  <2>2. r.pc = "push" => CallIsTrue(h, r) /\ CallIsTrue(g, r) /\ r.expected \in 1..Len(h)
    BY <1>4, <1>6 DEF RunIsTrue, CallIsTrue
  <2>3. r.pc = "push" /\ r.answer # None /\ r.answer.code = "task" =>
            TaskIsTrue(g, r.op, r.expected, r.answer)
    BY <1>5, <1>6, <2>2 DEF RunIsTrue
  <2> QED
    BY <2>1, <2>2, <2>3 DEF RunIsTrue
<1> QED
  BY <1>2, <1>3, <1>4, <1>6

\* The live tasks of the list.
LEMMA LiveRows ==
    ASSUME NEW rows \in [Task -> Row \cup {Absent, Gone}]
    PROVE  Live(rows) \in Rows
  BY DEF Live, Rows

\* Nothing happens at the service.
LEMMA ServerRests ==
    ASSUME ServerOK, UNCHANGED <<server, past, log>>
    PROVE  ServerOK' /\ Extends(past, past')
<1>1. ServerOK'
  BY DEF ServerOK, HistoryIsTrue, ReceiptsAreKept, EditsAreSafe, Live, Unseen
<1>2. Extends(past, past')
  BY DEF ServerOK, Extends
<1> QED
  BY <1>1, <1>2

\* A change that is not of a task.
LEMMA ServerBumps ==
    ASSUME ServerOK, NEW next \in Server, next.rows = server.rows,
           next.receipts = server.receipts, Bumped(next), log' = log
    PROVE  ServerOK' /\ Extends(past, past')
<1>1. /\ server \in Server /\ past \in Seq(Rows) /\ Len(past) = server.rev
      /\ server.rev \in Nat /\ Live(server.rows) \in Rows
  BY LiveRows DEF ServerOK, Server
<1>2. /\ server' = [next EXCEPT !.rev = server.rev + 1]
      /\ past' = Append(past, Live(server.rows))
  BY DEF Bumped
<1>3. server' \in Server
  <2>1. server.rev + 1 \in Nat
    BY <1>1
  <2> QED
    BY <1>2, <2>1 DEF Server
<1>4. server'.rev = server.rev + 1 /\ server'.rows = server.rows /\ server'.receipts = server.receipts
  BY <1>2 DEF Server
<1>5. /\ past' \in Seq(Rows) /\ Len(past') = server'.rev /\ past'[server'.rev] = Live(server.rows)
      /\ \A i \in 1..Len(past) : past'[i] = past[i]
  BY <1>1, <1>2, <1>4
<1>6. HistoryIsTrue'
  <2>1. Live(server'.rows) = Live(server.rows) /\ server'.rev # 0
    BY <1>1, <1>4
  <2> QED
    BY <1>5, <2>1 DEF HistoryIsTrue, Live
<1>7. (log \in Seq(Entry) /\ ReceiptsAreKept /\ EditsAreSafe)'
  BY <1>4 DEF ServerOK, ReceiptsAreKept, EditsAreSafe, Unseen
<1>8. Extends(past, past')
  BY <1>1, <1>4, <1>5 DEF Extends
<1> QED
  BY <1>3, <1>5, <1>6, <1>7, <1>8 DEF ServerOK

\* An edit is taken only by a list its sender has read, and only once.
LEMMA VerdictIsOk ==
    ASSUME NEW u, NEW op, NEW expected, Verdict(u, op, expected) = "ok"
    PROVE  op.id \notin server.receipts /\ server.rev = expected /\ Fits(op) = "ok"
  BY DEF Verdict, Access

\* The row that an edit meets, and the one it leaves.
LEMMA FitsRow ==
    ASSUME ServerOK, NEW op \in Op, Fits(op) = "ok"
    PROVE  /\ server.rows[op.task] \in Row \cup {Absent}
           /\ op.kind # "create" => server.rows[op.task] \in Row
           /\ op.kind # "delete" => Written(op) \in Row
           /\ op.kind = "delete" => Written(op) = Gone
<1>1. server.rows[op.task] \in Row \cup {Absent, Gone}
  BY OpParts DEF ServerOK, Server
<1>2. op.kind \in {"create", "patch", "delete"} /\ op.patch \in Patch
  BY OpParts
<1>3. CASE op.kind = "create"
  BY <1>1, <1>3, OpParts DEF Fits, Written
<1>4. CASE op.kind # "create"
  <2>1. server.rows[op.task] \in Row
    BY <1>1, <1>4 DEF Fits
  <2> QED
    BY <1>2, <1>4, <2>1, OverlayRow DEF Written
<1> QED
  BY <1>3, <1>4

\* An edit takes effect.
LEMMA ServerTakes ==
    ASSUME ServerOK, NEW u \in User, NEW op \in Op, NEW expected \in Nat, NEW honest \in BOOLEAN,
           honest => Suits(past[expected], op),
           Verdict(u, op, expected) = "ok", Take(u, op, honest)
    PROVE  /\ ServerOK' /\ Extends(past, past')
           /\ expected = server.rev /\ Len(past') = expected + 1
           /\ past'[expected + 1] =
                 [past[expected] EXCEPT ![op.task] =
                     IF op.kind = "delete" THEN Absent ELSE Written(op)]
<1>1. /\ server \in Server /\ past \in Seq(Rows) /\ Len(past) = server.rev
      /\ server.rev \in Nat /\ server.rev # 0 /\ past[server.rev] = Live(server.rows)
      /\ server.rows \in [Task -> Row \cup {Absent, Gone}] /\ server.receipts \in SUBSET Nat
  BY DEF ServerOK, Server, HistoryIsTrue
<1>2. op.id \notin server.receipts /\ server.rev = expected /\ Fits(op) = "ok"
  BY VerdictIsOk
<1>3. op.task \in Task /\ op.id \in Nat /\ op.kind \in {"create", "patch", "delete"}
  BY OpParts
<1> DEFINE w == Written(op)
           rows == [server.rows EXCEPT ![op.task] = w]
           e == [op |-> op, before |-> server.rows[op.task], honest |-> honest]
<1>4. /\ server.rows[op.task] \in Row \cup {Absent}
      /\ op.kind # "create" => server.rows[op.task] \in Row
      /\ op.kind # "delete" => w \in Row
      /\ op.kind = "delete" => w = Gone
  BY <1>2, FitsRow
<1>5. server' = [server EXCEPT !.rows = rows, !.receipts = @ \cup {op.id}, !.rev = server.rev + 1]
  BY <1>1 DEF Take, Bumped, Server
<1>6. past' = Append(past, Live(rows)) /\ log' = Append(log, e)
  BY <1>1 DEF Take, Bumped, Server
<1> HIDE DEF w
<1>7. rows \in [Task -> Row \cup {Absent, Gone}] /\ Live(rows) \in Rows
  <2>1. rows \in [Task -> Row \cup {Absent, Gone}]
    BY <1>1, <1>4
  <2> HIDE DEF rows
  <2> QED
    BY <2>1, LiveRows
<1>8. Live(rows) = [past[expected] EXCEPT ![op.task] = IF op.kind = "delete" THEN Absent ELSE w]
  <2>1. Gone \notin Row \cup {Absent}
    BY MarkAssumption
  <2>2. \A t \in Task : rows[t] = IF t = op.task THEN w ELSE server.rows[t]
    BY <1>1
  <2>3. past[expected] = [t \in Task |-> IF server.rows[t] = Gone THEN Absent ELSE server.rows[t]]
    BY <1>1, <1>2 DEF Live
  <2>4. (IF w = Gone THEN Absent ELSE w) = IF op.kind = "delete" THEN Absent ELSE w
    BY <1>4, <2>1
  <2>5. Live(rows) = [t \in Task |-> IF rows[t] = Gone THEN Absent ELSE rows[t]]
    BY DEF Live
  <2> DEFINE x == IF op.kind = "delete" THEN Absent ELSE w
             live == [t \in Task |-> IF server.rows[t] = Gone THEN Absent ELSE server.rows[t]]
  <2> HIDE DEF rows
  <2>6. \A t \in Task : (IF rows[t] = Gone THEN Absent ELSE rows[t])
                           = IF t = op.task THEN x ELSE live[t]
    BY <2>2, <2>4
  <2>7. [live EXCEPT ![op.task] = x] = [t \in Task |-> IF t = op.task THEN x ELSE live[t]]
    <3> HIDE DEF x
    <3> QED
      BY <1>3
  <2>8. Live(rows) = [t \in Task |-> IF t = op.task THEN x ELSE live[t]]
    <3> HIDE DEF x, live
    <3> QED
      BY <2>5, <2>6
  <2>9. past[expected] = live
    BY <2>3
  <2>10. Live(rows) = [past[expected] EXCEPT ![op.task] = x]
    <3> HIDE DEF x, live
    <3> QED
      BY <2>7, <2>8, <2>9
  <2> QED
    BY <2>10
<1> HIDE DEF rows
<1>9. server' \in Server /\ server'.rows = rows /\ server'.rev = server.rev + 1
      /\ server'.receipts = server.receipts \cup {op.id}
  <2> DEFINE rs == server.receipts \cup {op.id}
             n  == server.rev + 1
  <2>1. rs \in SUBSET Nat /\ n \in Nat
    BY <1>1, <1>3
  <2>2. server' = [server EXCEPT !.rows = rows, !.receipts = rs, !.rev = n]
    BY <1>1, <1>5 DEF Server
  <2> HIDE DEF rs, n
  <2>3. server' \in Server /\ server'.rows = rows /\ server'.rev = n /\ server'.receipts = rs
    BY <1>1, <1>7, <2>1, <2>2 DEF Server
  <2> QED
    BY <2>3 DEF rs, n
<1>10. /\ past' \in Seq(Rows) /\ Len(past') = server'.rev /\ past'[server'.rev] = Live(rows)
       /\ \A i \in 1..Len(past) : past'[i] = past[i]
  BY <1>1, <1>6, <1>7, <1>9
<1>11. HistoryIsTrue'
  <2>1. server'.rev # 0 /\ past'[server'.rev] = Live(server'.rows)
    BY <1>1, <1>9, <1>10
  <2> QED
    BY <2>1 DEF HistoryIsTrue, Live
<1>12. e \in Entry /\ log \in Seq(Entry) /\ log' \in Seq(Entry)
  BY <1>4, <1>6 DEF Entry, ServerOK
<1>13. e.op = op /\ e.honest = honest /\ e.before = server.rows[op.task]
  OBVIOUS
<1>14. honest => ~ Unseen(e)
  <2>1. ASSUME honest, op.kind # "create" PROVE ~ Conflicts(server.rows[op.task], op)
    <3>1. past[expected][op.task] = server.rows[op.task] /\ server.rows[op.task] # Absent
      BY <1>1, <1>2, <1>3, <1>4, <2>1, MarkAssumption DEF Live
    <3> QED
      BY <2>1, <3>1 DEF Suits
  <2> QED
    BY <1>13, <2>1 DEF Unseen, Conflicts
<1> HIDE DEF e
<1>15. /\ DOMAIN log = 1..Len(log) /\ Len(log) \in Nat /\ DOMAIN log' = 1..(Len(log) + 1)
       /\ log'[Len(log) + 1] = e /\ \A i \in DOMAIN log : log'[i] = log[i]
  BY <1>6, <1>12
<1>16. \A i \in DOMAIN log : log[i].op.id # op.id
  BY <1>2 DEF ServerOK, ReceiptsAreKept
<1>17. ReceiptsAreKept'
  BY <1>9, <1>13, <1>15 DEF ServerOK, ReceiptsAreKept
<1>18. EditsAreSafe'
  <2>1. ASSUME NEW i \in DOMAIN log', NEW j \in DOMAIN log', log'[i].op.id = log'[j].op.id
        PROVE  i = j
    <3>1. i \in DOMAIN log \/ i = Len(log) + 1
      BY <1>15
    <3>2. j \in DOMAIN log \/ j = Len(log) + 1
      BY <1>15
    <3> QED
      BY <1>13, <1>15, <1>16, <2>1, <3>1, <3>2 DEF ServerOK, EditsAreSafe
  <2>2. ASSUME NEW i \in DOMAIN log', log'[i].honest
        PROVE  ~ Unseen(log'[i])
    <3>1. i \in DOMAIN log \/ i = Len(log) + 1
      BY <1>15
    <3> QED
      BY <1>13, <1>14, <1>15, <2>2, <3>1 DEF ServerOK, EditsAreSafe
  <2> QED
    BY <2>1, <2>2 DEF EditsAreSafe, Unseen
<1>19. Extends(past, past')
  BY <1>1, <1>9, <1>10 DEF Extends
<1>20. ServerOK'
  BY <1>9, <1>10, <1>11, <1>12, <1>17, <1>18 DEF ServerOK
<1>21. Len(past') = expected + 1 /\ past'[expected + 1] = Live(rows)
  BY <1>2, <1>9, <1>10
<1> QED
  BY <1>2, <1>8, <1>19, <1>20, <1>21 DEF w

\* A request is handled, whatever becomes of it.
LEMMA ServerHandles ==
    ASSUME ServerOK, NEW u \in User, NEW op \in Op, NEW expected \in Nat, NEW honest \in BOOLEAN,
           honest => Suits(past[expected], op), Handle(u, op, expected, honest)
    PROVE  ServerOK' /\ Extends(past, past')
<1>1. CASE Verdict(u, op, expected) = "ok"
  BY <1>1, ServerTakes DEF Handle
<1>2. CASE Verdict(u, op, expected) # "ok"
  BY <1>2, ServerRests DEF Handle, Unchanged
<1> QED
  BY <1>1, <1>2

\* What the service says of itself is the revision it is at.
LEMMA SaysTheTruth ==
    ASSUME ServerOK, NEW u \in User, NEW code \in Codes, NEW replay \in BOOLEAN
    PROVE  /\ Says(u, code, replay) \in Reply
           /\ Says(u, code, replay).code = code /\ Says(u, code, replay).replay = replay
           /\ Says(u, code, replay).rev \in 1..Len(past)
           /\ SnapshotIsTrue(past, Says(u, code, replay))
<1> DEFINE a == Says(u, code, replay)
<1>1. /\ server \in Server /\ past \in Seq(Rows) /\ Len(past) = server.rev
      /\ server.rev \in Nat /\ server.rev # 0 /\ past[server.rev] = Live(server.rows)
      /\ server.role[u] \in Roles /\ Live(server.rows) \in Rows
  BY LiveRows DEF ServerOK, Server, HistoryIsTrue
<1>2. /\ a.code = code /\ a.role = server.role[u] /\ a.rev = server.rev
      /\ a.rows = Live(server.rows) /\ a.replay = replay
  BY DEF Says
<1>3. a \in Reply
  BY <1>1 DEF Says, Reply
<1> HIDE DEF a
<1>4. SnapshotIsTrue(past, a) /\ a.rev \in 1..Len(past)
  BY <1>1, <1>2 DEF SnapshotIsTrue
<1> QED
  BY <1>2, <1>3, <1>4 DEF a

\* The snapshot, the index.
LEMMA SnapshotReply ==
    ASSUME ServerOK, NEW u \in User
    PROVE  /\ Snapshot(u) \in Reply /\ SnapshotIsTrue(past, Snapshot(u))
           /\ Index(u) \in Reply /\ SnapshotIsTrue(past, Index(u))
<1> DEFINE c == IF Access(u) = "ok" THEN "snapshot" ELSE Access(u)
           i == IF Access(u) = "ok" THEN "listed" ELSE "missing"
<1>1. c \in Codes /\ i \in Codes
  BY DEF Access, Codes
<1>2. Snapshot(u) = Says(u, c, FALSE) /\ Index(u) = Says(u, i, FALSE)
  BY DEF Snapshot, Index
<1> HIDE DEF c, i
<1> QED
  BY <1>1, <1>2, SaysTheTruth

\* What an edit is answered with is the truth once it has been handled.
LEMMA AnswerReply ==
    ASSUME ServerOK, NEW u \in User, NEW op \in Op, NEW expected \in Nat, NEW honest \in BOOLEAN,
           honest => Suits(past[expected], op), Handle(u, op, expected, honest)
    PROVE  LET a == AnswerTo(u, op, expected) IN
           /\ a \in Reply /\ SnapshotIsTrue(past', a)
           /\ a.code = "task" => TaskIsTrue(past', op, expected, a)
<1> DEFINE a == AnswerTo(u, op, expected)
           v == Verdict(u, op, expected)
<1>1. v \in {"ok", "replay"} \/ (v \in Codes /\ v \notin {"snapshot", "task"})
  BY DEF Verdict, Access, Fits, Codes
<1>2. CASE v = "ok"
  <2> DEFINE x == IF op.kind = "delete" THEN Absent ELSE Written(op)
             rows == [Live(server.rows) EXCEPT ![op.task] = x]
             c == IF op.kind = "delete" THEN "done" ELSE "task"
  <2>1. Take(u, op, honest)
    BY <1>2 DEF Handle
  <2>2. /\ ServerOK' /\ Extends(past, past') /\ expected = server.rev /\ Len(past') = expected + 1
        /\ past'[expected + 1] = [past[expected] EXCEPT ![op.task] = x]
    BY <1>2, <2>1, ServerTakes
  <2>3. /\ server.role[u] \in Roles /\ server.rev \in Nat /\ server.rev # 0
        /\ Len(past) = server.rev /\ Live(server.rows) \in Rows
    BY LiveRows DEF ServerOK, Server, HistoryIsTrue
  <2>4. x \in Row \cup {Absent}
    BY <1>2, FitsRow, VerdictIsOk
  <2>5. a = [code |-> c, role |-> server.role[u], rev |-> server.rev + 1, replay |-> FALSE,
             rows |-> rows]
    BY <1>2 DEF AnswerTo
  <2>6. c \in Codes /\ c # "snapshot"
    BY DEF Codes
  <2> HIDE DEF x, c
  <2>7. op.task \in Task
    BY OpParts
  <2>8. rows \in Rows /\ rows[op.task] = x
    BY <2>3, <2>4, <2>7 DEF Rows
  <2> HIDE DEF rows
  <2>9. server.rev + 1 \in Nat
    BY <2>3
  <2>10. a \in Reply /\ a.rev = server.rev + 1 /\ a.rows = rows /\ a.code = c
    BY <2>3, <2>5, <2>6, <2>8, <2>9 DEF Reply
  <2> HIDE DEF a
  <2>11. past'[expected] = past[expected]
    BY <2>2, <2>3 DEF Extends
  <2>12. TaskIsTrue(past', op, expected, a)
    <3>1. a.rev = expected + 1 /\ a.rev \in 1..Len(past')
      BY <2>2, <2>3, <2>10
    <3>2. past'[a.rev] = [past'[expected] EXCEPT ![op.task] = a.rows[op.task]]
      BY <2>2, <2>8, <2>10, <2>11, <3>1
    <3> QED
      BY <3>1, <3>2 DEF TaskIsTrue
  <2> QED
    BY <2>6, <2>10, <2>12 DEF SnapshotIsTrue, a
<1>3. CASE v # "ok"
  <2>1. past' = past
    BY <1>3 DEF Handle, Unchanged
  <2>2. PICK c \in Codes, replay \in BOOLEAN :
            a = Says(u, c, replay) /\ (c = "task" => replay)
    <3>1. CASE v = "replay"
      <4>1. "done" \in Codes /\ "task" \in Codes /\ "SHARED_TASK_NOT_FOUND" \in Codes
        BY DEF Codes
      <4>2. a = Replayed(u, op)
        BY <1>3, <3>1 DEF AnswerTo
      <4>3. \/ Replayed(u, op) = Says(u, "done", TRUE)
            \/ Replayed(u, op) = Says(u, "task", TRUE)
            \/ Replayed(u, op) = Says(u, "SHARED_TASK_NOT_FOUND", TRUE)
        BY DEF Replayed
      <4> QED
        BY <4>1, <4>2, <4>3
    <3>2. CASE v # "replay"
      <4>1. a = Says(u, v, FALSE)
        BY <1>3, <3>2 DEF AnswerTo
      <4>2. v \in Codes /\ v # "task"
        BY <1>1, <1>3, <3>2
      <4> HIDE DEF a, v
      <4> QED
        BY <4>1, <4>2
    <3> QED
      BY <3>1, <3>2
  <2> HIDE DEF a
  <2>3. /\ a \in Reply /\ SnapshotIsTrue(past, a) /\ a.rev \in 1..Len(past)
        /\ a.code = "task" => a.replay
    BY <2>2, SaysTheTruth
  <2>4. SnapshotIsTrue(past', a) /\ (a.code = "task" => TaskIsTrue(past', op, expected, a))
    BY <2>1, <2>3 DEF TaskIsTrue
  <2> QED
    BY <2>3, <2>4 DEF a
<1> QED
  BY <1>2, <1>3

----------------------------------------------------------------------------
(* What a step leaves alone, and what it changes for one user. *)

\* Two histories of the service, before a step and after it.
LEMMA DevicesGoOn ==
    ASSUME ServerOK, ServerOK', Extends(past, past'), DevicesOK, device' = device
    PROVE  DevicesOK'
  BY HistoryGoesOn DEF ServerOK, DevicesOK

LEMMA DeviceStored ==
    ASSUME ServerOK, ServerOK', Extends(past, past'), DevicesOK,
           NEW u \in User, NEW d \in Device, CopyIsTrue(past', d),
           device' = [device EXCEPT ![u] = d]
    PROVE  DevicesOK'
<1>1. device' \in [User -> Device]
  BY DEF DevicesOK
<1>2. ASSUME NEW v \in User PROVE CopyIsTrue(past', device'[v])
  <2>1. CopyIsTrue(past', device[v])
    BY HistoryGoesOn DEF ServerOK, DevicesOK
  <2>2. device'[v] = IF v = u THEN d ELSE device[v]
    BY DEF DevicesOK
  <2> QED
    BY <2>1, <2>2
<1> QED
  BY <1>1, <1>2 DEF DevicesOK

LEMMA RunsGoOn ==
    ASSUME ServerOK, ServerOK', Extends(past, past'), RunsOK, run' = run
    PROVE  RunsOK'
  BY HistoryGoesOn DEF ServerOK, RunsOK

LEMMA RunMoved ==
    ASSUME ServerOK, ServerOK', Extends(past, past'), RunsOK,
           NEW u \in User, NEW r \in Run, RunIsTrue(past', r),
           run' = [run EXCEPT ![u] = r]
    PROVE  RunsOK'
<1>1. run' \in [User -> Run]
  BY DEF RunsOK
<1>2. ASSUME NEW v \in User PROVE RunIsTrue(past', run'[v])
  <2>1. RunIsTrue(past', run[v])
    BY HistoryGoesOn DEF ServerOK, RunsOK
  <2>2. run'[v] = IF v = u THEN r ELSE run[v]
    BY DEF RunsOK
  <2> QED
    BY <2>1, <2>2
<1> QED
  BY <1>1, <1>2 DEF RunsOK

LEMMA PeeksGoOn ==
    ASSUME ServerOK, ServerOK', Extends(past, past'), PeeksOK, peek' = peek
    PROVE  PeeksOK'
  BY HistoryGoesOn DEF ServerOK, PeeksOK

LEMMA PeekMoved ==
    ASSUME ServerOK, ServerOK', Extends(past, past'), PeeksOK,
           NEW u \in User, NEW p \in Peek, SnapshotIsTrue(past', p.answer),
           peek' = [peek EXCEPT ![u] = p]
    PROVE  PeeksOK'
<1>1. peek' \in [User -> Peek]
  BY DEF PeeksOK
<1>2. ASSUME NEW v \in User PROVE SnapshotIsTrue(past', peek'[v].answer)
  <2>1. SnapshotIsTrue(past', peek[v].answer)
    BY HistoryGoesOn DEF ServerOK, PeeksOK
  <2>2. peek'[v] = IF v = u THEN p ELSE peek[v]
    BY DEF PeeksOK
  <2> QED
    BY <2>1, <2>2
<1> QED
  BY <1>1, <1>2 DEF PeeksOK

LEMMA LatesGoOn ==
    ASSUME ServerOK, ServerOK', Extends(past, past'), LatesOK, late' \subseteq late
    PROVE  LatesOK'
  BY HistoryGoesOn DEF ServerOK, LatesOK

\* The counters of the bounds.
LEMMA Spends ==
    ASSUME UsedOK, NEW bound \in {"edits", "admin", "faults"}, NEW max, Spend(bound, max)
    PROVE  UsedOK'
<1>1. used[bound] + 1 \in Nat
  BY DEF UsedOK, Used
<1>2. used' = [used EXCEPT ![bound] = used[bound] + 1]
  BY DEF Spend
<1> QED
  BY <1>1, <1>2 DEF UsedOK, Used

----------------------------------------------------------------------------
(* The initial states. *)

LEMMA RestingRun ==
    ASSUME NEW h, NEW pc \in {"idle", "index", "locate", "list", "pull"}, NEW pull \in BOOLEAN
    PROVE  /\ [At(pc) EXCEPT !.pull = pull] \in Run
           /\ RunIsTrue(h, [At(pc) EXCEPT !.pull = pull])
           /\ At(pc) \in Run /\ RunIsTrue(h, At(pc))
           /\ Idle \in Run /\ RunIsTrue(h, Idle)
<1>1. 0 \in Nat
  OBVIOUS
<1>2. Idle \in Run /\ Idle.answer = None /\ Idle.pc = "idle"
  BY <1>1 DEF Idle, Run
<1>3. At(pc) \in Run /\ At(pc).answer = None /\ At(pc).pc = pc
  BY <1>2 DEF At, Run
<1>4. /\ [At(pc) EXCEPT !.pull = pull] \in Run
      /\ [At(pc) EXCEPT !.pull = pull].answer = None /\ [At(pc) EXCEPT !.pull = pull].pc = pc
  BY <1>3 DEF Run
<1>5. ASSUME NEW r, r.answer = None, r.pc \notin {"picked", "push"} PROVE RunIsTrue(h, r)
  BY <1>5 DEF RunIsTrue, SnapshotIsTrue
<1> QED
  BY <1>2, <1>3, <1>4, <1>5

\* The revision that a list begins with holds the tasks it begins with.
LEMMA InitInv == Init => Inv
<1> SUFFICES ASSUME Init PROVE Inv
  OBVIOUS
<1> DEFINE rows == [t \in Task |-> IF t \in Start THEN [f \in Field |-> First] ELSE Absent]
           role == [u \in User |-> CASE u = Founder   -> "owner"
                                     [] u \in Editors -> "editor"
                                     [] OTHER         -> "none"]
           invited == [u \in User |-> IF u \in Guests THEN "editor" ELSE "none"]
<1>1. rows \in Rows /\ rows \in [Task -> Row \cup {Absent, Gone}]
  <2>1. [f \in Field |-> First] \in Row
    BY SharedAssumption DEF Row
  <2> QED
    BY <2>1 DEF Rows
<1>2. role \in [User -> Roles] /\ invited \in [User -> Roles]
  BY DEF Roles
<1>3. server = [rev |-> 1, deleted |-> FALSE, rows |-> rows, role |-> role,
                invited |-> invited, receipts |-> {}]
  BY DEF Init
<1> HIDE DEF rows, role, invited
<1>4. server \in Server /\ server.rev = 1 /\ server.rows = rows
  BY <1>1, <1>2, <1>3 DEF Server
<1>5. past = <<rows>> /\ past \in Seq(Rows) /\ Len(past) = 1 /\ past[1] = rows
  BY <1>1, <1>4 DEF Init
<1>6. Live(rows) = rows
  <2>1. \A t \in Task : rows[t] # Gone
    BY <1>1, MarkAssumption DEF Rows
  <2> QED
    BY <1>1, <2>1 DEF Live
<1>7. ServerOK
  BY <1>4, <1>5, <1>6 DEF Init, ServerOK, HistoryIsTrue, ReceiptsAreKept, EditsAreSafe
<1>8. DevicesOK
  <2>1. ASSUME NEW u \in User PROVE device[u] \in Device /\ CopyIsTrue(past, device[u])
    <3>1. CASE ~ Member(u)
      BY <3>1, UnknownDevice DEF Init
    <3>2. CASE Member(u)
      <4>1. Held(u) = [Unknown EXCEPT !.known = TRUE, !.role = server.role[u], !.sum = 1,
                                      !.rev = 1, !.snap = rows, !.view = rows]
        BY <1>4 DEF Held
      <4>2. server.role[u] \in Roles /\ 1 \in Nat
        BY <1>4 DEF Server
      <4>3. Held(u) \in Device
        BY <1>1, <4>1, <4>2, UnknownDevice DEF Device
      <4>4. /\ Held(u).known /\ Held(u).snap = rows /\ Held(u).rev = 1
            /\ Held(u).ops = << >>
        BY <4>1 DEF Unknown
      <4>5. CopyIsTrue(past, Held(u))
        BY <1>5, <4>4 DEF CopyIsTrue, CopyIsDated, NextSuits
      <4> QED
        BY <3>2, <4>3, <4>5 DEF Init
    <3> QED
      BY <3>1, <3>2
  <2> QED
    BY <2>1 DEF DevicesOK, Init
<1>9. RunsOK
  BY RestingRun DEF Init, RunsOK
<1>10. PeeksOK
  BY DEF Init, PeeksOK, Closed, Peek, SnapshotIsTrue
<1>11. LatesOK /\ UsedOK
  BY DEF Init, LatesOK, UsedOK, Used
<1> QED
  BY <1>7, <1>8, <1>9, <1>10, <1>11 DEF Inv

----------------------------------------------------------------------------
(* The members and the users. *)

\* A step of the service alone.
LEMMA OnlyServer ==
    ASSUME Inv, ServerOK', Extends(past, past'), UsedOK', UNCHANGED <<device, run, peek, late>>
    PROVE  Inv'
  BY DevicesGoOn, RunsGoOn, PeeksGoOn, LatesGoOn DEF Inv

\* A step of one device alone.
LEMMA OnlyDevice ==
    ASSUME Inv, NEW u \in User, NEW d \in Device, CopyIsTrue(past, d), Store(u, d),
           UsedOK', UNCHANGED <<server, past, log, run, peek, late>>
    PROVE  Inv'
<1>1. ServerOK' /\ Extends(past, past') /\ past' = past
  BY ServerRests DEF Inv
<1>2. DevicesOK'
  BY <1>1, DeviceStored DEF Inv, Store
<1> QED
  BY <1>1, <1>2, RunsGoOn, PeeksGoOn, LatesGoOn DEF Inv

LEMMA SetRoleKeeps ==
    ASSUME Inv, NEW u \in User, NEW who \in User, NEW role \in {"owner", "editor", "viewer"},
           SetRole(u, who, role)
    PROVE  Inv'
<1> DEFINE next == [server EXCEPT !.role[who] = role]
<1>1. next \in Server /\ next.rows = server.rows /\ next.receipts = server.receipts
  BY DEF Inv, ServerOK, Server, Roles
<1>2. Bumped(next) /\ log' = log
  BY DEF SetRole
<1> HIDE DEF next
<1>3. ServerOK' /\ Extends(past, past')
  BY <1>1, <1>2, ServerBumps DEF Inv
<1>4. UsedOK'
  BY Spends DEF Inv, SetRole, Admin
<1> QED
  BY <1>3, <1>4, OnlyServer DEF SetRole

LEMMA RemoveMemberKeeps ==
    ASSUME Inv, NEW u \in User, NEW who \in User, RemoveMember(u, who)
    PROVE  Inv'
<1> DEFINE next == [server EXCEPT !.role[who] = "removed"]
<1>1. next \in Server /\ next.rows = server.rows /\ next.receipts = server.receipts
  BY DEF Inv, ServerOK, Server, Roles
<1>2. Bumped(next) /\ log' = log
  BY DEF RemoveMember
<1> HIDE DEF next
<1>3. ServerOK' /\ Extends(past, past')
  BY <1>1, <1>2, ServerBumps DEF Inv
<1>4. UsedOK'
  BY Spends DEF Inv, RemoveMember, Admin
<1> QED
  BY <1>3, <1>4, OnlyServer DEF RemoveMember

LEMMA DeleteListKeeps ==
    ASSUME Inv, NEW u \in User, DeleteList(u)
    PROVE  Inv'
<1> DEFINE next == [server EXCEPT !.deleted = TRUE]
<1>1. next \in Server /\ next.rows = server.rows /\ next.receipts = server.receipts
  BY DEF Inv, ServerOK, Server
<1>2. Bumped(next) /\ log' = log
  BY DEF DeleteList
<1> HIDE DEF next
<1>3. ServerOK' /\ Extends(past, past')
  BY <1>1, <1>2, ServerBumps DEF Inv
<1>4. UsedOK'
  BY Spends DEF Inv, DeleteList, Admin
<1> QED
  BY <1>3, <1>4, OnlyServer DEF DeleteList

LEMMA DeclineInvitationKeeps ==
    ASSUME Inv, NEW u \in User, DeclineInvitation(u)
    PROVE  Inv'
<1> DEFINE next == [server EXCEPT !.invited[u] = "none"]
<1>1. next \in Server /\ next.rows = server.rows /\ next.receipts = server.receipts
  BY DEF Inv, ServerOK, Server, Roles
<1>2. Bumped(next) /\ log' = log
  BY DEF DeclineInvitation
<1> HIDE DEF next
<1>3. ServerOK' /\ Extends(past, past')
  BY <1>1, <1>2, ServerBumps DEF Inv
<1>4. UsedOK'
  BY Spends DEF Inv, DeclineInvitation
<1> QED
  BY <1>3, <1>4, OnlyServer DEF DeclineInvitation

\* A device, as the invariant has it.
LEMMA DeviceParts ==
    ASSUME Inv, NEW u \in User
    PROVE  /\ device[u] \in Device /\ CopyIsTrue(past, device[u])
           /\ device[u].view \in Rows /\ device[u].ops \in Seq(Op)
  BY DEF Inv, DevicesOK, Device

LEMMA EnqueueKeeps ==
    ASSUME Inv, NEW u \in User, NEW kind \in {"create", "patch", "delete"}, NEW t \in Task,
           NEW patch \in Patch, NEW base \in Patch, kind = "create" => patch \in Row,
           Enqueue(u, kind, t, patch, base)
    PROVE  Inv'
<1> DEFINE op == [id |-> used.edits, kind |-> kind, task |-> t, patch |-> patch, base |-> base,
                  status |-> "pending", code |-> ""]
           e == [device[u] EXCEPT !.ops = Append(@, op)]
<1>1. op \in Op
  <2>1. used.edits \in Nat /\ "" \in Codes
    BY DEF Inv, UsedOK, Used, Codes
  <2> QED
    BY <2>1 DEF Op
<1>2. Store(u, Rebased(e)) /\ UNCHANGED <<server, past, log, run, peek, late>>
  BY DEF Enqueue
<1> HIDE DEF op
<1>3. e \in Device /\ SameCopy(device[u], e)
  <2>1. Append(device[u].ops, op) \in Seq(Op)
    BY <1>1, DeviceParts
  <2> QED
    BY <2>1, DeviceParts DEF Device, SameCopy
<1> HIDE DEF e
<1>4. CopyIsDated(past, e)
  BY <1>3, DeviceParts, SameCopyIsDated DEF CopyIsTrue
<1>5. Rebased(e) \in Device /\ CopyIsTrue(past, Rebased(e))
  BY <1>3, <1>4, RebasedIsTrue
<1>6. UsedOK'
  BY Spends DEF Inv, Enqueue
<1> QED
  BY <1>2, <1>5, <1>6, OnlyDevice

LEMMA CreateTaskKeeps ==
    ASSUME Inv, NEW u \in User, NEW t \in Task, CreateTask(u, t)
    PROVE  Inv'
<1>1. PICK v \in Value : Enqueue(u, "create", t, [f \in Field |-> v], [f \in {} |-> v])
  BY DEF CreateTask
<1>2. /\ [f \in Field |-> v] \in Row /\ [f \in Field |-> v] \in Patch
      /\ [f \in {} |-> v] \in Patch
  <2>1. [f \in Field |-> v] \in [Field -> Value] /\ [f \in {} |-> v] \in [{} -> Value]
    OBVIOUS
  <2>2. Field \in SUBSET Field /\ {} \in SUBSET Field
    OBVIOUS
  <2> QED
    BY <2>1, <2>2 DEF Row, Patch
<1> QED
  BY <1>1, <1>2, EnqueueKeeps

LEMMA UpdateTaskKeeps ==
    ASSUME Inv, NEW u \in User, NEW t \in Task, UpdateTask(u, t)
    PROVE  Inv'
<1> DEFINE row == device[u].view[t]
<1>0. PICK F \in SUBSET Field : \E patch \in [F -> Value] :
          Enqueue(u, "patch", t, patch, [f \in F |-> row[f]])
  BY DEF UpdateTask
<1>1. PICK patch \in [F -> Value] : Enqueue(u, "patch", t, patch, [f \in F |-> row[f]])
  BY <1>0
<1>2. row \in Row
  BY DeviceParts DEF UpdateTask, Rows
<1> HIDE DEF row
<1>3. [f \in F |-> row[f]] \in [F -> Value]
  BY <1>2 DEF Row
<1>4. patch \in Patch /\ [f \in F |-> row[f]] \in Patch
  BY <1>3 DEF Patch
<1> QED
  BY <1>1, <1>4, EnqueueKeeps

LEMMA DeleteTaskKeeps ==
    ASSUME Inv, NEW u \in User, NEW t \in Task, DeleteTask(u, t)
    PROVE  Inv'
<1>1. Enqueue(u, "delete", t, [f \in {} |-> First], device[u].view[t])
  BY DEF DeleteTask
<1>2. device[u].view[t] \in Row
  BY DeviceParts DEF DeleteTask, Rows
<1>3. Field \in SUBSET Field /\ {} \in SUBSET Field /\ [f \in {} |-> First] \in [{} -> Value]
  OBVIOUS
<1>4. [f \in {} |-> First] \in Patch /\ device[u].view[t] \in Patch
  BY <1>2, <1>3 DEF Row, Patch
<1> QED
  BY <1>1, <1>4, EnqueueKeeps

LEMMA DiscardOpKeeps ==
    ASSUME Inv, NEW u \in User, NEW i \in DOMAIN device[u].ops, DiscardOp(u, i)
    PROVE  Inv'
<1> DEFINE d == Without(device[u], device[u].ops[i].id)
           e == IF d.known THEN Rebased(d) ELSE d
<1>1. d \in Device /\ SameCopy(device[u], d)
  BY DeviceParts, WithoutDevice
<1>2. Store(u, e) /\ UNCHANGED <<server, past, log, run, peek, late, used>>
  BY DEF DiscardOp
<1> HIDE DEF d
<1>3. CopyIsDated(past, d)
  BY <1>1, DeviceParts, SameCopyIsDated DEF CopyIsTrue
<1>4. e \in Device /\ CopyIsTrue(past, e)
  BY <1>1, <1>3, RebasedIsTrue DEF CopyIsTrue, CopyIsDated
<1> HIDE DEF e
<1>5. UsedOK'
  BY <1>2 DEF Inv, UsedOK
<1> QED
  BY <1>2, <1>4, <1>5, OnlyDevice

LEMMA RetryOpKeeps ==
    ASSUME Inv, NEW u \in User, NEW i \in DOMAIN device[u].ops, RetryOp(u, i)
    PROVE  Inv'
<1> DEFINE op == device[u].ops[i]
           row == device[u].view[op.task]
           base == [f \in DOMAIN op.base |-> row[f]]
           again == [op EXCEPT !.status = "pending", !.code = "", !.base = base]
           d == Without(device[u], op.id)
           e == [d EXCEPT !.ops = Append(@, again)]
<1>1. op \in Op
  BY DeviceParts
<1>2. row \in Row
  BY <1>1, DeviceParts, OpParts DEF RetryOp, Rows
<1>3. Store(u, Rebased(e)) /\ UNCHANGED <<server, past, log, run, peek, late, used>>
  <2>1. [op EXCEPT !.status = "pending", !.code = "", !.base = [f \in DOMAIN @ |-> row[f]]]
            = again
    BY <1>1, OpParts
  <2> QED
    BY <2>1 DEF RetryOp
<1>4. d \in Device /\ SameCopy(device[u], d)
  BY DeviceParts, WithoutDevice
<1> HIDE DEF op, row, d
<1>5. base \in Patch
  <2>1. PICK F \in SUBSET Field : op.base \in [F -> Value]
    BY <1>1, OpParts DEF Patch
  <2>2. DOMAIN op.base = F
    BY <2>1
  <2>3. base \in [F -> Value]
    BY <1>2, <2>2 DEF Row
  <2> QED
    BY <2>3 DEF Patch
<1> HIDE DEF base
<1>6. again \in Op
  <2>1. "" \in Codes
    BY DEF Codes
  <2> QED
    BY <1>1, <1>5, <2>1, OpParts DEF Op
<1> HIDE DEF again
<1>7. e \in Device /\ SameCopy(d, e)
  <2>1. d.ops \in Seq(Op)
    BY <1>4 DEF Device
  <2>2. Append(d.ops, again) \in Seq(Op)
    BY <1>6, <2>1
  <2> QED
    BY <1>4, <2>2 DEF Device, SameCopy
<1> HIDE DEF e
<1>8. CopyIsDated(past, e)
  BY <1>4, <1>7, DeviceParts DEF SameCopy, CopyIsTrue, CopyIsDated
<1>9. Rebased(e) \in Device /\ CopyIsTrue(past, Rebased(e))
  BY <1>7, <1>8, RebasedIsTrue
<1>10. UsedOK'
  BY <1>3 DEF Inv, UsedOK
<1> QED
  BY <1>3, <1>9, <1>10, OnlyDevice

LEMMA RemoveLocalCopyKeeps ==
    ASSUME Inv, NEW u \in User, RemoveLocalCopy(u)
    PROVE  Inv'
<1>1. UsedOK'
  BY DEF RemoveLocalCopy, Inv, UsedOK
<1> QED
  BY <1>1, UnknownDevice, OnlyDevice DEF RemoveLocalCopy

\* A snapshot is fetched on the side.
LEMMA PullAsideKeeps ==
    ASSUME Inv, ServerOK', Extends(past, past'), NEW u \in User, PullAside(u)
    PROVE  PeeksOK'
<1> DEFINE p == [peek[u] EXCEPT !.open = TRUE]
<1>1. peek[u] \in Peek /\ SnapshotIsTrue(past', peek[u].answer)
  BY HistoryGoesOn DEF Inv, PeeksOK, ServerOK
<1>2. p \in Peek /\ p.answer = peek[u].answer
  BY <1>1 DEF Peek
<1>3. peek' = [peek EXCEPT ![u] = p]
  BY DEF PullAside, Inv, PeeksOK
<1> HIDE DEF p
<1> QED
  BY <1>1, <1>2, <1>3, PeekMoved DEF Inv

LEMMA InviteKeeps ==
    ASSUME Inv, NEW u \in User, NEW who \in User, NEW role \in {"editor", "viewer"},
           Invite(u, who, role)
    PROVE  Inv'
<1>1. ServerOK' /\ Extends(past, past')
  <2>1. CASE device[u].rev = server.rev
    <3> DEFINE next == [server EXCEPT !.invited[who] = role]
    <3>1. next \in Server /\ next.rows = server.rows /\ next.receipts = server.receipts
      BY DEF Inv, ServerOK, Server, Roles
    <3>2. Bumped(next) /\ log' = log
      BY <2>1 DEF Invite
    <3> HIDE DEF next
    <3> QED
      BY <3>1, <3>2, ServerBumps DEF Inv
  <2>2. CASE device[u].rev # server.rev
    BY <2>2, ServerRests DEF Inv, Invite
  <2> QED
    BY <2>1, <2>2
<1>2. UsedOK'
  BY Spends DEF Inv, Invite
<1>3. PeeksOK'
  BY <1>1, PullAsideKeeps DEF Invite
<1>4. UNCHANGED <<device, run, late>>
  BY DEF Invite
<1> QED
  BY <1>1, <1>2, <1>3, <1>4, DevicesGoOn, RunsGoOn, LatesGoOn DEF Inv

LEMMA AcceptInvitationKeeps ==
    ASSUME Inv, NEW u \in User, AcceptInvitation(u)
    PROVE  Inv'
<1> DEFINE role == IF Member(u) THEN server.role[u] ELSE server.invited[u]
           next == [server EXCEPT !.invited[u] = "none", !.role[u] = role]
           a == [role |-> server'.role[u], rev |-> server'.rev]
<1>1. server \in Server /\ role \in Roles
  BY DEF Inv, ServerOK, Server
<1> HIDE DEF role
<1>2. next \in Server /\ next.rows = server.rows /\ next.receipts = server.receipts
  BY <1>1 DEF Server, Roles
<1>3. Bumped(next) /\ log' = log
  BY <1>1 DEF AcceptInvitation, role, Server
<1> HIDE DEF next
<1>4. ServerOK' /\ Extends(past, past')
  BY <1>2, <1>3, ServerBumps DEF Inv
<1>5. a.role \in Roles /\ a.rev \in Nat
  BY <1>4 DEF ServerOK, Server
<1>6. Store(u, Listed(device[u], a)) /\ UNCHANGED <<run, late>>
  BY DEF AcceptInvitation
<1> HIDE DEF a
<1>7. CopyIsTrue(past', device[u]) /\ device[u] \in Device
  BY <1>4, DeviceParts, HistoryGoesOn DEF Inv, ServerOK
<1>8. Listed(device[u], a) \in Device /\ CopyIsTrue(past', Listed(device[u], a))
  BY <1>5, <1>7, ListedDevice
<1>9. DevicesOK'
  BY <1>4, <1>6, <1>8, DeviceStored DEF Inv, Store
<1>10. PeeksOK'
  BY <1>4, PullAsideKeeps DEF AcceptInvitation
<1>11. UsedOK'
  BY Spends DEF Inv, AcceptInvitation
<1> QED
  BY <1>4, <1>6, <1>9, <1>10, <1>11, RunsGoOn, LatesGoOn DEF Inv

\* Whatever a user does.
LEMMA UserStepKeeps ==
    ASSUME Inv, NEW u \in User, UserStep(u)
    PROVE  Inv'
<1>1. ASSUME NEW t \in Task, CreateTask(u, t) \/ UpdateTask(u, t) \/ DeleteTask(u, t)
      PROVE  Inv'
  BY <1>1, CreateTaskKeeps, UpdateTaskKeeps, DeleteTaskKeeps
<1>2. ASSUME NEW i \in DOMAIN device[u].ops, DiscardOp(u, i) \/ RetryOp(u, i)
      PROVE  Inv'
  BY <1>2, DiscardOpKeeps, RetryOpKeeps
<1>3. CASE RemoveLocalCopy(u) \/ AcceptInvitation(u) \/ DeclineInvitation(u) \/ DeleteList(u)
  BY <1>3, RemoveLocalCopyKeeps, AcceptInvitationKeeps, DeclineInvitationKeeps, DeleteListKeeps
<1>4. ASSUME NEW who \in User, NEW role \in {"owner", "editor", "viewer"},
             SetRole(u, who, role) \/ (role # "owner" /\ Invite(u, who, role))
      PROVE  Inv'
  BY <1>4, SetRoleKeeps, InviteKeeps
<1>5. ASSUME NEW who \in User, RemoveMember(u, who) PROVE Inv'
  BY <1>5, RemoveMemberKeeps
<1> QED
  BY <1>1, <1>2, <1>3, <1>4, <1>5 DEF UserStep

----------------------------------------------------------------------------
(* The runs of an engine. *)

\* A run, as the invariant has it.
LEMMA RunParts ==
    ASSUME Inv, NEW u \in User
    PROVE  /\ run[u] \in Run /\ RunIsTrue(past, run[u])
           /\ run[u].answer # None => run[u].answer \in Reply
  BY DEF Inv, RunsOK, Run

\* A step of one run alone.
LEMMA OnlyRun ==
    ASSUME Inv, NEW u \in User, NEW r \in Run, RunIsTrue(past, r), Go(u, r),
           UNCHANGED <<server, past, log, device, peek, late, used>>
    PROVE  Inv'
<1>1. ServerOK' /\ Extends(past, past') /\ past' = past
  BY ServerRests DEF Inv
<1>2. RunsOK'
  BY <1>1, RunMoved DEF Inv, Go
<1>3. UsedOK'
  BY DEF Inv, UsedOK
<1> QED
  BY <1>1, <1>2, <1>3, DevicesGoOn, PeeksGoOn, LatesGoOn DEF Inv

\* A run and its device move, and nothing else.
LEMMA RunAndDevice ==
    ASSUME Inv, NEW u \in User, NEW d \in Device, CopyIsTrue(past, d), Store(u, d),
           NEW r \in Run, RunIsTrue(past, r), Go(u, r),
           UNCHANGED <<server, past, log, peek, late, used>>
    PROVE  Inv'
<1>1. ServerOK' /\ Extends(past, past') /\ past' = past
  BY ServerRests DEF Inv
<1>2. RunsOK'
  BY <1>1, RunMoved DEF Inv, Go
<1>3. DevicesOK'
  BY <1>1, DeviceStored DEF Inv, Store
<1>4. UsedOK'
  BY DEF Inv, UsedOK
<1> QED
  BY <1>1, <1>2, <1>3, <1>4, PeeksGoOn, LatesGoOn DEF Inv

\* Where a run begins with a list, and where it goes on with it.
LEMMA EnterRun ==
    ASSUME NEW h, NEW d
    PROVE  Enter(d) \in Run /\ RunIsTrue(h, Enter(d))
<1>1. (d.snap = None \/ d.sum > d.rev) \in BOOLEAN
  OBVIOUS
<1> QED
  BY <1>1, RestingRun DEF Enter

LEMMA AgainRun ==
    ASSUME NEW h, NEW pull \in BOOLEAN
    PROVE  Again(pull) \in Run /\ RunIsTrue(h, Again(pull))
  BY RestingRun DEF Again

LEMMA StartRunKeeps ==
    ASSUME Inv, NEW u \in User, StartRun(u)
    PROVE  Inv'
  BY RestingRun, EnterRun, OnlyRun DEF StartRun

LEMMA ChooseKeeps ==
    ASSUME Inv, NEW u \in User, Choose(u)
    PROVE  Inv'
<1>1. CASE Go(u, At("pull")) \/ Go(u, Idle)
  BY <1>1, RestingRun, OnlyRun DEF Choose
<1>2. ASSUME NEW i \in DOMAIN device[u].ops,
             Go(u, [At("picked") EXCEPT !.op = device[u].ops[i]])
      PROVE  Inv'
  <2> DEFINE r == [At("picked") EXCEPT !.op = device[u].ops[i]]
  <2>1. device[u].ops[i] \in Op
    BY DeviceParts
  <2>2. Idle \in Run
    BY RestingRun
  <2>3. r \in Run /\ r.pc = "picked" /\ r.op = device[u].ops[i] /\ r.answer = Idle.answer
    BY <2>1, <2>2 DEF At, Run
  <2>4. Idle.answer = None
    BY DEF Idle
  <2> HIDE DEF r
  <2>5. RunIsTrue(past, r)
    BY <2>1, <2>3, <2>4 DEF RunIsTrue, SnapshotIsTrue
  <2> QED
    BY <1>2, <2>3, <2>5, OnlyRun DEF Choose, r
<1> QED
  BY <1>1, <1>2 DEF Choose

LEMMA PostKeeps ==
    ASSUME Inv, NEW u \in User, Post(u)
    PROVE  Inv'
<1> DEFINE d == device[u]
           honest == ~ d.guess /\ \E i \in DOMAIN d.ops : d.ops[i] = run[u].op /\ NextUp(d.ops, i)
           r == [run[u] EXCEPT !.pc = "push", !.expected = d.rev, !.honest = honest]
<1>1. CASE ~ (Syncs(d) /\ d.snap # None)
  BY <1>1, RestingRun, OnlyRun DEF Post
<1>2. CASE Syncs(d) /\ d.snap # None
  <2>1. Go(u, r)
    BY <1>2 DEF Post
  <2>2. /\ run[u] \in Run /\ RunIsTrue(past, run[u]) /\ run[u].pc = "picked"
        /\ run[u].op \in Op /\ run[u].answer = None
    BY RunParts DEF Post, RunIsTrue
  <2>3. /\ d \in Device /\ d.rev \in 1..Len(past) /\ (~ d.guess => d.snap = past[d.rev])
        /\ NextSuits(d.snap, d.ops)
    BY <1>2, DeviceParts DEF CopyIsTrue, CopyIsDated
  <2>4. honest => Suits(past[d.rev], run[u].op)
    BY <2>3 DEF NextSuits
  <2>5. d.rev \in Nat /\ honest \in BOOLEAN
    BY <2>3 DEF Device
  <2> HIDE DEF honest
  <2>6. /\ r \in Run /\ r.pc = "push" /\ r.op = run[u].op /\ r.expected = d.rev
        /\ r.honest = honest /\ r.answer = run[u].answer
    BY <2>2, <2>5 DEF Run
  <2> HIDE DEF r
  <2>7. RunIsTrue(past, r)
    BY <2>2, <2>3, <2>4, <2>6 DEF RunIsTrue, SnapshotIsTrue, CallIsTrue
  <2> QED
    BY <2>1, <2>6, <2>7, OnlyRun DEF Post
<1> QED
  BY <1>1, <1>2

\* A call is answered in a run.
LEMMA AnsweredRun ==
    ASSUME NEW h, NEW r \in Run, NEW a \in Reply, SnapshotIsTrue(h, a),
           r.pc # "picked",
           r.pc = "push" => CallIsTrue(h, r)
                            /\ (a.code = "task" => TaskIsTrue(h, r.op, r.expected, a))
    PROVE  [r EXCEPT !.answer = a] \in Run /\ RunIsTrue(h, [r EXCEPT !.answer = a])
<1> DEFINE q == [r EXCEPT !.answer = a]
<1>1. /\ q \in Run /\ q.answer = a /\ q.pc = r.pc /\ q.op = r.op /\ q.expected = r.expected
      /\ q.honest = r.honest
  BY DEF Run
<1> HIDE DEF q
<1>2. RunIsTrue(h, q)
  BY <1>1 DEF RunIsTrue, CallIsTrue
<1> QED
  BY <1>1, <1>2 DEF q

LEMMA ServeKeeps ==
    ASSUME Inv, NEW u \in User, Serve(u)
    PROVE  Inv'
<1>1. ServerOK /\ DevicesOK /\ RunsOK /\ PeeksOK /\ LatesOK /\ UsedOK
  BY DEF Inv
<1>2. UNCHANGED <<device, peek, late, used>>
  BY DEF Serve
<1>3. \E a : /\ ServerOK' /\ Extends(past, past') /\ Go(u, [run[u] EXCEPT !.answer = a])
             /\ [run[u] EXCEPT !.answer = a] \in Run
             /\ RunIsTrue(past', [run[u] EXCEPT !.answer = a])
  <2>1. CASE run[u].pc = "push"
    <3> DEFINE r == run[u]
               a == AnswerTo(u, r.op, r.expected)
    <3>1. Go(u, [run[u] EXCEPT !.answer = a]) /\ Handle(u, r.op, r.expected, r.honest)
      BY <2>1 DEF Serve
    <3>2. r \in Run /\ CallIsTrue(past, r)
      BY <2>1, RunParts DEF RunIsTrue
    <3>3. r.op \in Op /\ r.expected \in Nat /\ r.honest \in BOOLEAN
          /\ (r.honest => Suits(past[r.expected], r.op))
      BY <3>2 DEF CallIsTrue, Run
    <3>4. ServerOK' /\ Extends(past, past')
      BY <1>1, <3>1, <3>3, ServerHandles
    <3>5. /\ a \in Reply /\ SnapshotIsTrue(past', a)
          /\ a.code = "task" => TaskIsTrue(past', r.op, r.expected, a)
      BY <1>1, <3>1, <3>3, AnswerReply
    <3>6. CallIsTrue(past', r)
      BY <1>1, <3>2, <3>4, HistoryGoesOn DEF ServerOK
    <3> HIDE DEF a
    <3> QED
      BY <2>1, <3>1, <3>2, <3>4, <3>5, <3>6, AnsweredRun
  <2>2. CASE run[u].pc \in {"index", "locate", "pull"}
    <3>1. PICK a \in {Snapshot(u), Index(u)} : Go(u, [run[u] EXCEPT !.answer = a]) /\ Unchanged
      BY <2>2 DEF Serve
    <3>2. a \in Reply /\ SnapshotIsTrue(past, a)
      BY <1>1, SnapshotReply
    <3>3. ServerOK' /\ Extends(past, past') /\ past' = past
      BY <1>1, <3>1, ServerRests DEF Unchanged
    <3>4. run[u] \in Run
      BY RunParts
    <3> QED
      BY <2>2, <3>1, <3>2, <3>3, <3>4, AnsweredRun
  <2> QED
    BY <2>1, <2>2 DEF Serve, Waits
<1>4. PICK a : /\ ServerOK' /\ Extends(past, past') /\ Go(u, [run[u] EXCEPT !.answer = a])
               /\ [run[u] EXCEPT !.answer = a] \in Run
               /\ RunIsTrue(past', [run[u] EXCEPT !.answer = a])
  BY <1>3
<1>5. RunsOK'
  BY <1>1, <1>4, RunMoved DEF Go
<1>6. UsedOK'
  BY <1>1, <1>2 DEF UsedOK
<1> QED
  BY <1>1, <1>2, <1>4, <1>5, <1>6, DevicesGoOn, PeeksGoOn, LatesGoOn DEF Inv

LEMMA TakeIndexKeeps ==
    ASSUME Inv, NEW u \in User, TakeIndex(u)
    PROVE  Inv'
<1> DEFINE a == run[u].answer
           d == device[u]
<1>1. a \in Reply
  BY RunParts DEF TakeIndex, Answered
<1>2. a.role \in Roles /\ a.rev \in Nat
  BY <1>1 DEF Reply
<1>3. d \in Device /\ CopyIsTrue(past, d)
  BY DeviceParts
<1>4. CASE a.code = "listed"
  <2>1. Listed(d, a) \in Device /\ CopyIsTrue(past, Listed(d, a))
    BY <1>2, <1>3, ListedDevice
  <2>2. Store(u, Listed(d, a)) /\ Go(u, Enter(Listed(d, a)))
    BY <1>4 DEF TakeIndex
  <2> QED
    BY <2>1, <2>2, EnterRun, RunAndDevice DEF TakeIndex
<1>5. CASE a.code # "listed"
  <2>1. Go(u, IF Syncs(d) THEN At("locate") ELSE Idle) /\ device' = device
    BY <1>5 DEF TakeIndex
  <2> QED
    BY <2>1, RestingRun, OnlyRun DEF TakeIndex
<1> QED
  BY <1>4, <1>5

LEMMA TakeSnapshotKeeps ==
    ASSUME Inv, NEW u \in User, TakeSnapshot(u)
    PROVE  Inv'
<1> DEFINE a == run[u].answer
           d == Fetched(device[u], a)
           r == IF run[u].pc = "locate" THEN Enter(d)
                ELSE IF a.code = "snapshot" THEN At("list") ELSE Idle
<1>1. a \in Reply /\ a # None /\ SnapshotIsTrue(past, a)
  BY RunParts DEF TakeSnapshot, Answered, RunIsTrue
<1>2. d \in Device /\ CopyIsTrue(past, d)
  BY <1>1, DeviceParts, FetchedDevice
<1>3. Store(u, d) /\ Go(u, r) /\ UNCHANGED <<server, past, log, peek, late, used>>
  BY DEF TakeSnapshot
<1> HIDE DEF d
<1>4. r \in Run /\ RunIsTrue(past, r)
  BY RestingRun, EnterRun
<1> HIDE DEF r
<1> QED
  BY <1>2, <1>3, <1>4, RunAndDevice

LEMMA TakeAnswerKeeps ==
    ASSUME Inv, NEW u \in User, TakeAnswer(u)
    PROVE  Inv'
<1> DEFINE r == run[u]
           a == run[u].answer
           d == device[u]
<1>1. /\ a \in Reply /\ a # None /\ r \in Run
      /\ CallIsTrue(past, r) /\ (a.code = "task" => TaskIsTrue(past, r.op, r.expected, a))
  BY RunParts DEF TakeAnswer, Answered, RunIsTrue
<1>2. r.op \in Op /\ r.expected \in Nat /\ a.code \in Codes
  BY <1>1 DEF CallIsTrue, Run, Reply
<1>3. d \in Device /\ CopyIsTrue(past, d)
  BY DeviceParts
<1>4. past \in Seq(Rows)
  BY DEF Inv, ServerOK
<1>5. UNCHANGED <<server, past, log, peek, late, used>>
  BY DEF TakeAnswer
<1>6. CASE Completes(r) /\ Store(u, Folded(d, r.op, r.expected, a)) /\ Go(u, Again(FALSE))
  <2>1. TaskIsTrue(past, r.op, r.expected, a) /\ a.rev = r.expected + 1
    BY <1>1, <1>6 DEF Completes
  <2>2. Folded(d, r.op, r.expected, a) \in Device /\ CopyIsTrue(past, Folded(d, r.op, r.expected, a))
    BY <1>1, <1>2, <1>3, <1>4, <2>1, FoldedDevice
  <2> QED
    BY <1>5, <1>6, <2>2, AgainRun, RunAndDevice
<1>7. CASE Store(u, Delivered(d, r.op)) /\ Go(u, Again(TRUE))
  <2>1. Delivered(d, r.op) \in Device /\ CopyIsTrue(past, Delivered(d, r.op))
    BY <1>3, DeliveredDevice
  <2> QED
    BY <1>5, <1>7, <2>1, AgainRun, RunAndDevice
<1>8. CASE Store(u, LoseAccess(d, a)) /\ Go(u, Idle)
  <2>1. LoseAccess(d, a) \in Device /\ CopyIsTrue(past, LoseAccess(d, a))
    BY <1>1, <1>3, LoseAccessDevice
  <2> QED
    BY <1>5, <1>8, <2>1, RestingRun, RunAndDevice
<1>9. CASE Store(u, d) /\ Go(u, Again(TRUE))
  BY <1>3, <1>5, <1>9, AgainRun, RunAndDevice
<1>10. ASSUME NEW ids, NEW pull \in BOOLEAN,
              Store(u, RejectOps(d, ids, a.code)), Go(u, Again(pull))
       PROVE  Inv'
  <2>1. RejectOps(d, ids, a.code) \in Device /\ CopyIsTrue(past, RejectOps(d, ids, a.code))
    BY <1>2, <1>3, RejectOpsDevice
  <2> QED
    BY <1>5, <1>10, <2>1, AgainRun, RunAndDevice
<1> QED
  BY <1>6, <1>7, <1>8, <1>9, <1>10 DEF TakeAnswer

\* A run that is given up may leave a request on its way.
LEMMA GiveUpKeeps ==
    ASSUME Inv, NEW u \in User, GiveUp(u)
    PROVE  Inv'
<1>1. ServerOK' /\ Extends(past, past') /\ past' = past
  BY ServerRests DEF Inv, GiveUp
<1>2. RunsOK'
  BY <1>1, RestingRun, RunMoved DEF Inv, GiveUp, Go
<1>3. UsedOK'
  BY Spends DEF Inv, GiveUp
<1>4. LatesOK'
  <2>1. CASE Waits(u) /\ run[u].pc = "push"
    <3> DEFINE c == [user |-> u, op |-> run[u].op, expected |-> run[u].expected,
                     honest |-> run[u].honest]
    <3>1. run[u] \in Run /\ CallIsTrue(past, run[u])
      BY <2>1, RunParts DEF RunIsTrue
    <3>2. c \in Request /\ CallIsTrue(past, c)
      BY <3>1 DEF Request, CallIsTrue, Run
    <3>3. late' = late \cup {c}
      BY <2>1 DEF GiveUp
    <3> HIDE DEF c
    <3> QED
      BY <1>1, <3>2, <3>3 DEF Inv, LatesOK
  <2>2. CASE ~ (Waits(u) /\ run[u].pc = "push")
    BY <1>1, <2>2, LatesGoOn DEF GiveUp, Inv
  <2> QED
    BY <2>1, <2>2
<1> QED
  BY <1>1, <1>2, <1>3, <1>4, DevicesGoOn, PeeksGoOn DEF Inv, GiveUp

LEMMA ServeLateKeeps ==
    ASSUME Inv, ServeLate
    PROVE  Inv'
<1>1. PICK r \in late : /\ late' = late \ {r}
                        /\ Handle(r.user, r.op, r.expected, r.honest) \/ Unchanged
                        /\ UNCHANGED <<device, run, peek, used>>
  BY DEF ServeLate
<1>2. /\ r.user \in User /\ r.op \in Op /\ r.expected \in Nat /\ r.honest \in BOOLEAN
      /\ r.honest => Suits(past[r.expected], r.op)
  BY DEF Inv, LatesOK, Request, CallIsTrue
<1>3. ServerOK' /\ Extends(past, past')
  BY <1>1, <1>2, ServerHandles, ServerRests DEF Inv, Unchanged
<1>4. UsedOK'
  BY <1>1 DEF Inv, UsedOK
<1> QED
  BY <1>1, <1>3, <1>4, DevicesGoOn, RunsGoOn, PeeksGoOn, LatesGoOn DEF Inv

LEMMA PeekStepKeeps ==
    ASSUME Inv, NEW u \in User, PeekStep(u)
    PROVE  Inv'
<1>1. ServerOK' /\ Extends(past, past') /\ past' = past
  BY ServerRests DEF Inv, PeekStep
<1>2. UsedOK' /\ UNCHANGED <<run, late>>
  BY DEF Inv, UsedOK, PeekStep
<1>3. peek[u] \in Peek /\ SnapshotIsTrue(past, peek[u].answer)
  BY DEF Inv, PeeksOK
<1>4. CASE peek[u].answer = None
  <2> DEFINE p == [peek[u] EXCEPT !.answer = Snapshot(u)]
  <2>1. Snapshot(u) \in Reply /\ SnapshotIsTrue(past, Snapshot(u))
    BY SnapshotReply DEF Inv
  <2>2. p \in Peek /\ p.answer = Snapshot(u)
    BY <1>3, <2>1 DEF Peek
  <2>3. peek' = [peek EXCEPT ![u] = p] /\ device' = device
    BY <1>4 DEF PeekStep, Inv, PeeksOK
  <2> HIDE DEF p
  <2>4. PeeksOK'
    BY <1>1, <2>1, <2>2, <2>3, PeekMoved DEF Inv
  <2> QED
    BY <1>1, <1>2, <2>3, <2>4, DevicesGoOn, RunsGoOn, LatesGoOn DEF Inv
<1>5. CASE peek[u].answer # None
  <2> DEFINE d == Fetched(device[u], peek[u].answer)
  <2>1. peek[u].answer \in Reply
    BY <1>3, <1>5 DEF Peek
  <2>2. d \in Device /\ CopyIsTrue(past, d)
    BY <1>3, <1>5, <2>1, DeviceParts, FetchedDevice
  <2>3. peek' = [peek EXCEPT ![u] = Closed] /\ (Store(u, d) \/ device' = device)
    BY <1>5 DEF PeekStep
  <2> HIDE DEF d
  <2>4. DevicesOK'
    BY <1>1, <2>2, <2>3, DeviceStored, DevicesGoOn DEF Inv, Store
  <2>5. Closed \in Peek /\ SnapshotIsTrue(past, Closed.answer)
    BY DEF Closed, Peek, SnapshotIsTrue
  <2>6. PeeksOK'
    BY <1>1, <2>3, <2>5, PeekMoved DEF Inv
  <2> QED
    BY <1>1, <1>2, <2>4, <2>6, RunsGoOn, LatesGoOn DEF Inv
<1> QED
  BY <1>4, <1>5

----------------------------------------------------------------------------
(* The theorems. *)

\* Every step keeps the invariant.
LEMMA StepKeepsInv == Inv /\ [Next]_vars => Inv'
<1> SUFFICES ASSUME Inv, [Next]_vars PROVE Inv'
  OBVIOUS
<1>1. ASSUME NEW u \in User, UserStep(u) PROVE Inv'
  BY <1>1, UserStepKeeps
<1>2. ASSUME NEW u \in User, EngineStep(u) PROVE Inv'
  BY <1>2, StartRunKeeps, ChooseKeeps, PostKeeps, ServeKeeps, TakeIndexKeeps,
     TakeSnapshotKeeps, TakeAnswerKeeps DEF EngineStep
<1>3. ASSUME NEW u \in User, GiveUp(u) \/ PeekStep(u) PROVE Inv'
  BY <1>3, GiveUpKeeps, PeekStepKeeps
<1>4. CASE ServeLate
  BY <1>4, ServeLateKeeps
<1>5. CASE UNCHANGED vars
  <2>1. UNCHANGED <<server, past, log, device, run, peek, late, used>>
    BY <1>5 DEF vars
  <2>2. ServerOK' /\ Extends(past, past')
    BY <2>1, ServerRests DEF Inv
  <2>3. UsedOK'
    BY <2>1 DEF Inv, UsedOK
  <2> QED
    BY <2>1, <2>2, <2>3, OnlyServer
<1> QED
  BY <1>1, <1>2, <1>3, <1>4, <1>5 DEF Next

(***************************************************************************)
(* The inductive invariant holds, whatever users do and whatever of their  *)
(* requests and answers gets lost or arrives late.                         *)
(***************************************************************************)
THEOREM InvariantHolds == Spec => []Inv
<1> QED
  BY InitInv, StepKeepsInv, PTL DEF Spec

(***************************************************************************)
(* Every variable has its type.                                            *)
(***************************************************************************)
THEOREM TypeCorrect == Spec => []TypeOK
<1>1. Inv => TypeOK
  BY DEF Inv, ServerOK, DevicesOK, RunsOK, PeeksOK, TypeOK
<1> QED
  BY <1>1, InvariantHolds, PTL

(***************************************************************************)
(* The snapshot that settle in shared-sync.ts puts together of the task    *)
(* the service answered with, and the one that pull stores, are the list   *)
(* as it was at the revision the device names, whenever no replayed answer *)
(* was taken for the answer to a first delivery.                           *)
(***************************************************************************)
THEOREM CopiesAreExact == Spec => []ShadowIsServer
<1>1. Inv => ShadowIsServer
  BY DEF Inv, DevicesOK, CopyIsTrue, CopyIsDated, ShadowIsServer
<1> QED
  BY <1>1, InvariantHolds, PTL

(***************************************************************************)
(* An edit takes effect once, and on nothing its author has not seen: what *)
(* the receipts, the revision under which push sends, and the rebase of    *)
(* the outbox on every snapshot do together.                               *)
(***************************************************************************)
THEOREM EditsTakeEffectOnce == Spec => []EditsAreSafe
<1>1. Inv => EditsAreSafe
  BY DEF Inv, ServerOK
<1> QED
  BY <1>1, InvariantHolds, PTL
============================================================================
