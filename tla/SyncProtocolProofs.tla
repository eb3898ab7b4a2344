------------------------- MODULE SyncProtocolProofs -------------------------
(***************************************************************************)
(* Proofs about SyncProtocol: the devices and the service implement the    *)
(* ledger, the outbox never jams and loses nothing, the shadow of a device *)
(* is right for its cursor, and its view is the shadow with what is        *)
(* pending on top.                                                         *)
(***************************************************************************)
EXTENDS SyncProtocol, WellFoundedInduction, TLAPS

\* What a row may be, with the rows that are not there.
Slot == Row \cup {Absent}

\* Every operation has one number, of one device.
IdsAreFresh ==
    \A c, d \in Client : \A i \in DOMAIN issued[c], j \in DOMAIN issued[d] :
        issued[c][i] = issued[d][j] => c = d /\ i = j

\* x is what the device c gave the number x.seq to.
IsOf(c, x) == x.seq \in 1..Len(issued[c]) /\ x.op = issued[c][x.seq]

\* What the service did not decide is waiting in the outbox.
OutboxOK(c) ==
    /\ \A s \in DOMAIN outbox[c] :
          /\ s \in 1..Len(issued[c]) /\ outbox[c][s] \in StoredMutation
          /\ outbox[c][s].op = issued[c][s]
    /\ mark[c] \in 0..Len(issued[c])
    /\ \A s \in (mark[c] + 1)..Len(issued[c]) : s \in Waiting(outbox[c])

NumbersOK ==
    /\ issued \in [Client -> Seq(OpId)] /\ DOMAIN outbox = Client /\ mark \in [Client -> Nat]
    /\ IdsAreFresh /\ \A c \in Client : OutboxOK(c)

\* A batch is in order, and above the watermark it leaves nothing out.
BatchOK(c, batch) ==
    /\ batch \in Seq(Item)
    /\ \A i \in DOMAIN batch :
          /\ IsOf(c, batch[i])
          /\ batch[i].seq > mark[c] + 1 => i > 1 /\ batch[i - 1].seq = batch[i].seq - 1
    /\ \A i, j \in DOMAIN batch : i < j => batch[i].seq < batch[j].seq

\* Something decided, at or below the watermark.
IsDecided(x) == IsOf(x.dev, x) /\ x.seq <= mark[x.dev]

DecisionsOK ==
    /\ log \in Seq(Change) /\ receipts \subseteq Receipt
    /\ \A i \in DOMAIN log : IsDecided(log[i])
    /\ \A i, j \in DOMAIN log : log[i].dev = log[j].dev /\ log[i].seq = log[j].seq => i = j
    /\ \A r \in receipts : IsDecided(r) /\ (r.status = "applied" => Applied(r.op))

\* Without the job that removes receipts there is one for every decision.
ReceiptsOK ==
    ~ Forgets => \A c \in Client : \A s \in 1..mark[c] :
                    \E r \in receipts : r.dev = c /\ r.seq = s

AckOK(c, a) ==
    /\ \E s \in 1..mark[c] : a.op = issued[c][s]
    /\ ~ Forgets /\ a.status # "rejected" => Applied(a.op)

LossOK == cleared \subseteq OpId /\ (~ Forgets => NoSilentLoss)

----------------------------------------------------------------------------

\* A row as a device keeps it.
Plain(row) == row \in Slot /\ (row # Absent => Materialized(row) = row)
PlainTable(table) == table \in Rows /\ \A e \in Entity : Plain(table[e])

\* The rest of a log makes of a row what the service has.
Leads(row, e, lg, from, rws) ==
    from \in 0..Len(lg) /\ Told(row, e, SubSeq(lg, from + 1, Len(lg))) = Shown(rws)[e]

\* What a bootstrap with the cursor at reads of a row.
Listing(rws, e, at) ==
    IF rws[e] # Absent /\ rws[e].created <= at THEN Materialized(rws[e]) ELSE Absent

\* Whenever a bootstrap began, a row read now goes with its cursor.
RowsOK(rws, lg) ==
    /\ rws \in Rows /\ lg \in Seq(Change)
    /\ \A e \in Entity : /\ rws[e] # Absent => rws[e].created \in 0..Len(lg)
                         /\ \A at \in 0..Len(lg) : Leads(Listing(rws, e, at), e, lg, at, rws)

ShadowOK(c) ==
    /\ cursor[c] \in 0..Len(log) /\ PlainTable(shadow[c])
    /\ \A e \in Entity : Leads(shadow[c][e], e, log, cursor[c], rows)

DataOK ==
    /\ shadow \in [Client -> Rows] /\ view \in [Client -> Rows] /\ cursor \in [Client -> Nat]
    /\ RowsOK(rows, log) /\ \A c \in Client : ShadowOK(c)

Read(c, e) == \E i \in 1..(run[c].pos - 1) : IdOrder[i] = e

RunOK(c) ==
    \/ run[c].phase \in {"idle", "expired"}
    \/ /\ run[c].phase = "asking"
       /\ run[c] \in [phase : {"asking"}, batch : Seq(Item), cursor : Nat]
       /\ run[c].cursor = cursor[c] /\ BatchOK(c, run[c].batch)
    \/ /\ run[c].phase = "answered"
       /\ run[c] \in [phase : {"answered"}, acks : Seq(Ack), changes : Seq(Change), next : Nat]
       /\ \A i \in DOMAIN run[c].acks : AckOK(c, run[c].acks[i])
       /\ run[c].next \in cursor[c]..Len(log)
       /\ run[c].changes = SubSeq(log, cursor[c] + 1, run[c].next)
    \/ /\ run[c].phase = "paging"
       /\ run[c] \in [phase : {"paging"}, cursor : Nat, pos : Nat, got : Rows]
       /\ run[c].cursor \in 0..Len(log) /\ run[c].pos \in 1..(Len(IdOrder) + 1)
       /\ PlainTable(run[c].got)
       /\ \A e \in Entity : Read(c, e) => Leads(run[c].got[e], e, log, run[c].cursor, rows)

RunsOK == run \in [Client -> Run] /\ \A c \in Client : RunOK(c)

LateOK ==
    \A q \in late : q \in [dev : Client, batch : Seq(Item), cursor : Nat] /\ BatchOK(q.dev, q.batch)

\* The inductive invariant.
Inv == NumbersOK /\ DecisionsOK /\ ReceiptsOK /\ LossOK /\ DataOK /\ RunsOK /\ LateOK

\* The operations carry nothing but the columns that a device takes over.
AllMirrored == \A o \in OpId : DOMAIN Content[o].val \subseteq Mirrored

\* A view goes with a shadow and with what is pending up to a number.
Shows(row, told, box, e, last) ==
    told # Absent => \/ row = Materialized(Folded(told, box, e, last))
                     \/ e \in DayPlans /\ row = Absent

Projects(table, sh, box, last) ==
    PlainTable(table) /\ \A e \in Entity : Shows(table[e], sh[e], box, e, last)

ViewOK == \A c \in Client : Projects(view[c], shadow[c], outbox[c], Len(issued[c]))

----------------------------------------------------------------------------
(* Recursion over the elements of a sequence. *)

\* A set of natural numbers has a least member.
LEMMA LeastExists ==
    ASSUME NEW S, S \subseteq Nat, S # {}
    PROVE  \E x \in S : \A y \in S : x <= y
<1>1. \E R : /\ IsWellFoundedOn(R, Nat)
             /\ \A x, y \in Nat : y < x => <<y, x>> \in R
  <2>1. \A x, y \in Nat : y < x => <<y, x>> \in OpToRel(<, Nat)
    BY DEF OpToRel
  <2> QED
    BY <2>1, NatLessThanWellFounded
<1>2. PICK R : /\ IsWellFoundedOn(R, Nat)
               /\ \A x, y \in Nat : y < x => <<y, x>> \in R
  BY <1>1
<1>3. PICK x \in S : \A y \in S : ~ (<<y, x>> \in R)
  BY <1>2, WFMin
<1>4. ASSUME NEW y \in S PROVE x <= y
  <2>1. x \in Nat /\ y \in Nat
    OBVIOUS
  <2>2. ~ (y < x)
    BY <1>2, <1>3, <2>1
  <2> QED
    BY <2>1, <2>2
<1> QED
  BY <1>4

\* A set that holds the first number, and the next of every number it holds.
LEMMA UpTo ==
    ASSUME NEW N \in Nat, NEW G, 0 \in G, \A n \in 1..N : n - 1 \in G => n \in G
    PROVE  \A n \in 0..N : n \in G
<1> DEFINE Bad == (0..N) \ G
<1>1. ASSUME Bad # {} PROVE FALSE
  <2>1. Bad \subseteq Nat
    OBVIOUS
  <2>2. PICK n \in Bad : \A k \in Bad : n <= k
    BY <1>1, <2>1, LeastExists
  <2>3. n # 0 /\ n \in 1..N /\ n - 1 \in 0..N /\ ~ (n <= n - 1)
    BY <2>2
  <2>4. n - 1 \in G
    BY <2>2, <2>3
  <2> QED
    BY <2>2, <2>3, <2>4
<1> QED
  BY <1>1

\* f goes from base step by step.
Stepwise(f, N, S, base, step) ==
    /\ f \in [0..N -> S] /\ f[0] = base
    /\ \A n \in 1..N : f[n] = step[n][f[n - 1]]

Follows(g, N, S, base, step) ==
    g[0] = base /\ \A n \in 1..N : g[n - 1] \in S => g[n] = step[n][g[n - 1]]

\* What is defined step by step exists.
LEMMA Recursion ==
    ASSUME NEW N \in Nat, NEW S, NEW base \in S, NEW step \in [1..N -> [S -> S]]
    PROVE  \E f : Stepwise(f, N, S, base, step)
<1> DEFINE Fold(f, m) == f[0] = base /\ \A n \in 1..m : f[n] = step[n][f[n - 1]]
           Good(m) == \E f \in [0..m -> S] : Fold(f, m)
           G == {m \in 0..N : Good(m)}
<1>1. 0 \in G
  <2> DEFINE h == [n \in 0..0 |-> base]
  <2>1. h \in [0..0 -> S] /\ Fold(h, 0)
    OBVIOUS
  <2> HIDE DEF h, Fold
  <2>2. Good(0)
    BY <2>1
  <2> HIDE DEF Good
  <2> QED
    BY <2>2
<1>2. ASSUME NEW m \in 1..N, m - 1 \in G PROVE m \in G
  <2>1. PICK f \in [0..(m - 1) -> S] : Fold(f, m - 1)
    BY <1>2
  <2> DEFINE g == [n \in 0..m |-> IF n = m THEN step[m][f[m - 1]] ELSE f[n]]
  <2>2. m - 1 \in 0..(m - 1) /\ step[m] \in [S -> S]
    OBVIOUS
  <2>3. step[m][f[m - 1]] \in S
    BY <2>2
  <2>4. \A n \in 0..m : n # m => n \in 0..(m - 1)
    OBVIOUS
  <2>5. g \in [0..m -> S]
    BY <2>3, <2>4
  <2>6. g[0] = base
    BY <2>1, <2>4
  <2>7. ASSUME NEW n \in 1..m PROVE g[n] = step[n][g[n - 1]]
    <3>1. n - 1 \in 0..m /\ n - 1 # m /\ g[n - 1] = f[n - 1]
      OBVIOUS
    <3>2. CASE n = m
      BY <3>1, <3>2
    <3>3. CASE n # m
      <4>1. n \in 1..(m - 1) /\ g[n] = f[n]
        BY <3>3
      <4>2. f[n] = step[n][f[n - 1]]
        BY <2>1, <4>1
      <4> HIDE DEF g
      <4> QED
        BY <3>1, <4>1, <4>2
    <3> QED
      BY <3>2, <3>3
  <2>8. Fold(g, m)
    <3> HIDE DEF g
    <3> QED
      BY <2>6, <2>7
  <2> HIDE DEF g, Fold
  <2>9. Good(m)
    BY <2>5, <2>8
  <2> HIDE DEF Good
  <2> QED
    BY <2>9
<1>3. N \in G
  <2> HIDE DEF G
  <2>1. N \in 0..N
    OBVIOUS
  <2> QED
    BY <1>1, <1>2, <2>1, UpTo
<1> QED
  BY <1>3 DEF Stepwise

\* Whatever goes by the same steps is the same.
LEMMA SameSteps ==
    ASSUME NEW N \in Nat, NEW S, NEW base, NEW step, NEW f, NEW g,
           Stepwise(f, N, S, base, step), Follows(g, N, S, base, step)
    PROVE  \A n \in 0..N : g[n] = f[n]
<1> DEFINE G == {n \in 0..N : g[n] = f[n]}
<1>1. 0 \in G
  BY DEF Stepwise, Follows
<1>2. ASSUME NEW n \in 1..N, n - 1 \in G PROVE n \in G
  <2>1. n - 1 \in 0..N /\ g[n - 1] = f[n - 1] /\ f[n - 1] \in S
    BY <1>2 DEF Stepwise
  <2>2. g[n] = step[n][g[n - 1]] /\ f[n] = step[n][f[n - 1]]
    BY <2>1 DEF Stepwise, Follows
  <2> QED
    BY <2>1, <2>2
<1>3. \A n \in 0..N : n \in G
  <2> HIDE DEF G
  <2> QED
    BY <1>1, <1>2, UpTo
<1> QED
  BY <1>3

----------------------------------------------------------------------------
(* What a mutation makes of a row, column by column. *)

\* The columns that m sets in a row that is there.
Sets(m) == IF m.kind = "delete" THEN {} ELSE DOMAIN m.val
SetsParent(m) == m.kind # "delete" /\ m.parent # Keep

LEMMA AbsentIsNoRow == Absent \notin Row /\ Default \in Value
BY DataAssumption DEF DataAssumption, Default

\* What an operation asks for.
LEMMA ContentIs ==
    ASSUME NEW o \in OpId
    PROVE  /\ Content[o] \in Mutation /\ Content[o].entity \in Entity
           /\ Content[o].kind \in {"create", "patch", "delete", "restore"}
<1>1. Content[o] \in Mutation
  BY DataAssumption DEF DataAssumption
<1> QED
  BY <1>1 DEF Mutation, Kind

\* A mutation keeps what it is when columns are left out.
LEMMA KnownIs ==
    ASSUME NEW m \in Mutation
    PROVE  /\ Known(m) \in Mutation
           /\ Known(m).entity = m.entity /\ Known(m).kind = m.kind /\ Known(m).parent = m.parent
           /\ DOMAIN Known(m).val = DOMAIN m.val \cap Mirrored
           /\ \A k \in DOMAIN Known(m).val : Known(m).val[k] = m.val[k]
<1>1. m.val \in Fields /\ m = [entity |-> m.entity, kind |-> m.kind, parent |-> m.parent, val |-> m.val]
  BY DEF Mutation
<1>2. PICK F \in SUBSET Column : m.val \in [F -> Value]
  BY <1>1 DEF Fields
<1> DEFINE v == [k \in DOMAIN m.val \cap Mirrored |-> m.val[k]]
<1>3. v \in [(F \cap Mirrored) -> Value]
  BY <1>2
<1>4. v \in Fields
  BY <1>3 DEF Fields
<1>5. Known(m) = [entity |-> m.entity, kind |-> m.kind, parent |-> m.parent, val |-> v]
  BY <1>1 DEF Known
<1> HIDE DEF v
<1>6. Known(m) \in Mutation
  BY <1>4, <1>5 DEF Mutation
<1>7. DOMAIN v = DOMAIN m.val \cap Mirrored /\ \A k \in DOMAIN v : v[k] = m.val[k]
  BY DEF v
<1> QED
  BY <1>5, <1>6, <1>7

LEMMA OverlayIs ==
    ASSUME NEW val \in [Column -> Value], NEW m \in Mutation
    PROVE  /\ Overlay(val, m.val) \in [Column -> Value]
           /\ \A k \in Column : Overlay(val, m.val)[k] = IF k \in DOMAIN m.val THEN m.val[k] ELSE val[k]
<1>1. m.val \in Fields
  BY DEF Mutation
<1>2. PICK F \in SUBSET Column : m.val \in [F -> Value]
  BY <1>1 DEF Fields
<1>3. \A k \in DOMAIN m.val : m.val[k] \in Value
  BY <1>2
<1> QED
  BY <1>3 DEF Overlay

\* A row is what its parts are.
LEMMA RowParts ==
    ASSUME NEW row \in Row
    PROVE  /\ row.parent \in Entity \cup {NoParent} /\ row.val \in [Column -> Value]
           /\ row.deleted \in BOOLEAN /\ row.created \in Nat
           /\ row = [parent |-> row.parent, val |-> row.val, deleted |-> row.deleted,
                     created |-> row.created]
BY DEF Row

LEMMA SameRow ==
    ASSUME NEW x \in Row, NEW y \in Row, x.parent = y.parent, x.deleted = y.deleted,
           x.created = y.created, \A k \in Column : x.val[k] = y.val[k]
    PROVE  x = y
<1>1. x.val = y.val
  BY RowParts
<1>2. /\ x = [parent |-> x.parent, val |-> x.val, deleted |-> x.deleted, created |-> x.created]
      /\ y = [parent |-> y.parent, val |-> y.val, deleted |-> y.deleted, created |-> y.created]
  BY RowParts
<1> QED
  BY <1>1, <1>2

LEMMA PatchedIs ==
    ASSUME NEW row \in Row, NEW m \in Mutation
    PROVE  /\ Patched(row, m) \in Row
           /\ Patched(row, m).parent = IF m.parent = Keep THEN row.parent ELSE m.parent
           /\ \A k \in Column : Patched(row, m).val[k] =
                                    IF k \in DOMAIN m.val THEN m.val[k] ELSE row.val[k]
           /\ Patched(row, m).deleted = row.deleted
           /\ Patched(row, m).created = row.created
<1> DEFINE pa == IF m.parent = Keep THEN row.parent ELSE m.parent
           va == Overlay(row.val, m.val)
<1>1. /\ row.val \in [Column -> Value] /\ row.deleted \in BOOLEAN /\ row.created \in Nat
      /\ row = [parent |-> row.parent, val |-> row.val, deleted |-> row.deleted,
                created |-> row.created]
  BY RowParts
<1>2. /\ va \in [Column -> Value]
      /\ \A k \in Column : va[k] = IF k \in DOMAIN m.val THEN m.val[k] ELSE row.val[k]
  BY <1>1, OverlayIs
<1>3. pa \in Entity \cup {NoParent}
  BY RowParts DEF Mutation
<1>0. Patched(row, m) = [row EXCEPT !.parent = pa, !.val = va]
  BY DEF Patched
<1> HIDE DEF pa, va
<1>4. Patched(row, m) = [parent |-> pa, val |-> va, deleted |-> row.deleted,
                         created |-> row.created]
  BY <1>0 DEF Row
<1>5. Patched(row, m).parent = pa
  BY <1>4
<1>6. Patched(row, m) \in Row
  BY <1>1, <1>2, <1>3, <1>4 DEF Row
<1>7. Patched(row, m).val = va /\ Patched(row, m).deleted = row.deleted
      /\ Patched(row, m).created = row.created
  BY <1>4
<1> QED
  BY <1>2, <1>5, <1>6, <1>7 DEF pa

\* The deletion mark, alone.
LEMMA MarkedIs ==
    ASSUME NEW row \in Row, NEW b \in BOOLEAN
    PROVE  /\ [row EXCEPT !.deleted = b] \in Row
           /\ [row EXCEPT !.deleted = b].parent = row.parent
           /\ [row EXCEPT !.deleted = b].val = row.val
           /\ [row EXCEPT !.deleted = b].deleted = b
           /\ [row EXCEPT !.deleted = b].created = row.created
BY DEF Row

\* The date, alone.
LEMMA DatedIs ==
    ASSUME NEW row \in Row, NEW n \in Nat
    PROVE  /\ [row EXCEPT !.created = n] \in Row
           /\ [row EXCEPT !.created = n].parent = row.parent
           /\ [row EXCEPT !.created = n].val = row.val
           /\ [row EXCEPT !.created = n].deleted = row.deleted
           /\ [row EXCEPT !.created = n].created = n
BY DEF Row

LEMMA BareIs ==
    ASSUME NEW at \in Nat
    PROVE  [parent |-> NoParent, val |-> [c \in Column |-> Default],
            deleted |-> FALSE, created |-> at] \in Row
BY AbsentIsNoRow DEF Row

LEMMA CreatedIs ==
    ASSUME NEW m \in Mutation, NEW at \in Nat
    PROVE  /\ Created(m, at) \in Row
           /\ Created(m, at).parent = IF m.parent = Keep THEN NoParent ELSE m.parent
           /\ \A k \in Column : Created(m, at).val[k] =
                                    IF k \in DOMAIN m.val THEN m.val[k] ELSE Default
           /\ Created(m, at).deleted = FALSE /\ Created(m, at).created = at
<1> DEFINE bare == [parent |-> NoParent, val |-> [c \in Column |-> Default],
                    deleted |-> FALSE, created |-> at]
<1>1. bare \in Row
  BY BareIs
<1>2. Created(m, at) = Patched(bare, m)
  BY DEF Created
<1>3. /\ bare.parent = NoParent /\ bare.deleted = FALSE /\ bare.created = at
      /\ \A k \in Column : bare.val[k] = Default
  OBVIOUS
<1> HIDE DEF bare
<1> QED
  BY <1>1, <1>2, <1>3, PatchedIs

LEMMA CreatedVal ==
    ASSUME NEW m \in Mutation, NEW at \in Nat, NEW k \in Column
    PROVE  Created(m, at).val[k] = IF k \in DOMAIN m.val THEN m.val[k] ELSE Default
<1>1. \A c \in Column : Created(m, at).val[c] = IF c \in DOMAIN m.val THEN m.val[c] ELSE Default
  BY CreatedIs
<1> QED
  BY <1>1

\* A create makes a row of its own, whatever was there.
LEMMA MergeCreate ==
    ASSUME NEW row \in Slot, NEW m \in Mutation, m.kind = "create"
    PROVE  Merge(row, m) = Created(m, 0)
BY DEF Merge, Created, Base

\* The other mutations change a row where they say so.
LEMMA MergeIs ==
    ASSUME NEW row \in Row, NEW m \in Mutation, m.kind # "create"
    PROVE  /\ Merge(row, m) \in Row
           /\ Merge(row, m).parent = IF SetsParent(m) THEN m.parent ELSE row.parent
           /\ \A k \in Column : Merge(row, m).val[k] =
                                    IF k \in Sets(m) THEN m.val[k] ELSE row.val[k]
           /\ Merge(row, m).deleted = IF m.kind = "patch" THEN row.deleted ELSE m.kind = "delete"
           /\ Merge(row, m).created = row.created
<1>1. Base(row) = row
  BY AbsentIsNoRow DEF Base
<1>2. m.kind \in {"create", "patch", "delete", "restore"}
  BY DEF Mutation, Kind
<1>3. CASE m.kind = "patch"
  <2>1. Merge(row, m) = Patched(row, m)
    BY <1>1, <1>3 DEF Merge
  <2> QED
    BY <1>3, <2>1, PatchedIs DEF Sets, SetsParent
<1>4. CASE m.kind = "delete"
  <2>1. Merge(row, m) = [row EXCEPT !.deleted = TRUE]
    BY <1>1, <1>4 DEF Merge, Tombstoned
  <2> QED
    BY <1>4, <2>1, MarkedIs DEF Sets, SetsParent
<1>5. CASE m.kind = "restore"
  <2>1. Merge(row, m) = [Patched(row, m) EXCEPT !.deleted = FALSE]
    BY <1>1, <1>5 DEF Merge, Revived
  <2> DEFINE p == Patched(row, m)
  <2>2. /\ p \in Row /\ p.parent = IF m.parent = Keep THEN row.parent ELSE m.parent
        /\ \A k \in Column : p.val[k] = IF k \in DOMAIN m.val THEN m.val[k] ELSE row.val[k]
        /\ p.created = row.created
    BY PatchedIs
  <2>3. Merge(row, m) = [p EXCEPT !.deleted = FALSE]
    BY <2>1
  <2>4. Sets(m) = DOMAIN m.val /\ (SetsParent(m) <=> m.parent # Keep)
    BY <1>5 DEF Sets, SetsParent
  <2> HIDE DEF p
  <2>5. /\ Merge(row, m) \in Row /\ Merge(row, m).parent = p.parent
        /\ Merge(row, m).val = p.val /\ Merge(row, m).deleted = FALSE
        /\ Merge(row, m).created = p.created
    BY <2>2, <2>3 DEF Row
  <2>6. Merge(row, m).deleted = IF m.kind = "patch" THEN row.deleted ELSE m.kind = "delete"
    BY <1>5, <2>5
  <2> QED
    BY <2>2, <2>4, <2>5, <2>6
<1> QED
  BY <1>2, <1>3, <1>4, <1>5

\* A mutation of a row that is not there starts from a bare one.
LEMMA MergeAbsent ==
    ASSUME NEW m \in Mutation
    PROVE  \E bare \in Row : Merge(Absent, m) = Merge(bare, m)
<1> DEFINE bare == [parent |-> NoParent, val |-> [c \in Column |-> Default],
                    deleted |-> FALSE, created |-> 0]
<1>1. bare \in Row
  BY BareIs
<1>2. Base(Absent) = bare
  BY DEF Base
<1> HIDE DEF bare
<1>3. Base(bare) = bare
  BY <1>1, AbsentIsNoRow DEF Base
<1>4. Merge(Absent, m) = Merge(bare, m)
  BY <1>2, <1>3 DEF Merge
<1> QED
  BY <1>1, <1>4

LEMMA MergeType ==
    ASSUME NEW row \in Slot, NEW m \in Mutation
    PROVE  Merge(row, m) \in Row
<1>1. CASE m.kind = "create"
  <2>1. Created(m, 0) \in Row
    BY CreatedIs
  <2> QED
    BY <1>1, <2>1, MergeCreate
<1>2. CASE m.kind # "create" /\ row = Absent
  <2>1. PICK bare \in Row : Merge(Absent, m) = Merge(bare, m)
    BY MergeAbsent
  <2> QED
    BY <1>2, <2>1, MergeIs
<1>3. CASE m.kind # "create" /\ row # Absent
  BY <1>3, MergeIs DEF Slot
<1> QED
  BY <1>1, <1>2, <1>3

\* A row as a device keeps it: with the columns it knows and without a date.
LEMMA MaterializedIs ==
    ASSUME NEW row \in Row
    PROVE  /\ Materialized(row) \in Row
           /\ Materialized(row).parent = row.parent /\ Materialized(row).deleted = row.deleted
           /\ \A k \in Column : Materialized(row).val[k] =
                                    IF k \in Mirrored THEN row.val[k] ELSE Default
           /\ Materialized(row).created = 0
<1> DEFINE v == [k \in Column |-> IF k \in Mirrored THEN row.val[k] ELSE Default]
<1>0. Materialized(row) = [row EXCEPT !.val = v, !.created = 0]
  BY DEF Materialized
<1>2. v \in [Column -> Value] /\ \A k \in Column : v[k] = IF k \in Mirrored THEN row.val[k] ELSE Default
  BY RowParts, AbsentIsNoRow
<1> HIDE DEF v
<1>1. Materialized(row) = [parent |-> row.parent, val |-> v, deleted |-> row.deleted, created |-> 0]
  BY <1>0 DEF Row
<1>3. Materialized(row) \in Row
  BY <1>1, <1>2, RowParts DEF Row
<1>4. /\ Materialized(row).parent = row.parent /\ Materialized(row).deleted = row.deleted
      /\ Materialized(row).created = 0 /\ Materialized(row).val = v
  BY <1>1
<1> QED
  BY <1>2, <1>3, <1>4

\* That is so exactly of rows with defaults in the columns it does not know.
LEMMA PlainIs ==
    ASSUME NEW row \in Row
    PROVE  Materialized(row) = row <=>
              row.created = 0 /\ \A k \in Column : k \notin Mirrored => row.val[k] = Default
<1>1. ASSUME Materialized(row) = row
      PROVE  row.created = 0 /\ \A k \in Column : k \notin Mirrored => row.val[k] = Default
  BY <1>1, MaterializedIs
<1>2. ASSUME row.created = 0, \A k \in Column : k \notin Mirrored => row.val[k] = Default
      PROVE  Materialized(row) = row
  <2>1. \A k \in Column : Materialized(row).val[k] = row.val[k]
    BY <1>2, MaterializedIs
  <2> QED
    BY <1>2, <2>1, MaterializedIs, SameRow
<1> QED
  BY <1>1, <1>2

----------------------------------------------------------------------------
(* Changes, as the service applies them and as a device folds them. *)

\* What a device makes of a row when it hears of a change.
Hears(row, e, ch) == IF EntityOf(ch) = e THEN FoldChange(row, ch) ELSE row

LEMMA FoldChangeType ==
    ASSUME NEW row \in Slot, NEW ch \in Change
    PROVE  /\ FoldChange(row, ch) \in Row /\ FoldChange(row, ch).created = 0
           /\ FoldChange(row, ch).parent = Merge(row, Known(Content[ch.op])).parent
           /\ FoldChange(row, ch).val = Merge(row, Known(Content[ch.op])).val
           /\ FoldChange(row, ch).deleted = Merge(row, Known(Content[ch.op])).deleted
<1>1. ch.op \in OpId
  BY DEF Change
<1>2. Merge(row, Known(Content[ch.op])) \in Row
  BY <1>1, ContentIs, KnownIs, MergeType
<1> QED
  BY <1>2, DatedIs DEF FoldChange

LEMMA HearsType ==
    ASSUME NEW row \in Slot, NEW ch \in Change, NEW e
    PROVE  Hears(row, e, ch) \in Slot
BY FoldChangeType DEF Hears, Slot

\* What is kept plain stays plain.
LEMMA MergePlain ==
    ASSUME NEW row \in Slot, Plain(row), NEW m \in Mutation, DOMAIN m.val \subseteq Mirrored
    PROVE  Merge(row, m) \in Row /\ Materialized(Merge(row, m)) = Merge(row, m)
<1>1. CASE m.kind = "create"
  <2> DEFINE r == Created(m, 0)
  <2>1. r \in Row /\ r.created = 0 /\ \A k \in Column : k \notin Mirrored => r.val[k] = Default
    <3>0. 0 \in Nat
      OBVIOUS
    <3>1. r \in Row /\ r.created = 0
      BY <3>0, CreatedIs
    <3>2. \A k \in Column : r.val[k] = IF k \in DOMAIN m.val THEN m.val[k] ELSE Default
      BY <3>0, CreatedIs
    <3>3. \A k \in Column : k \notin Mirrored => k \notin DOMAIN m.val
      OBVIOUS
    <3> HIDE DEF r
    <3> QED
      BY <3>1, <3>2, <3>3
  <2>2. Merge(row, m) = r
    BY <1>1, MergeCreate
  <2> HIDE DEF r
  <2> QED
    BY <2>1, <2>2, PlainIs
<1>2. CASE m.kind # "create"
  <2>1. ASSUME NEW x \in Row, x.created = 0, \A k \in Column : k \notin Mirrored => x.val[k] = Default
        PROVE  Merge(x, m) \in Row /\ Materialized(Merge(x, m)) = Merge(x, m)
    <3>1. Sets(m) \subseteq Mirrored
      BY DEF Sets
    <3>2. /\ Merge(x, m) \in Row /\ Merge(x, m).created = 0
          /\ \A k \in Column : k \notin Mirrored => Merge(x, m).val[k] = Default
      BY <1>2, <2>1, <3>1, MergeIs
    <3> QED
      BY <3>2, PlainIs
  <2>2. CASE row # Absent
    BY <2>1, <2>2, PlainIs DEF Plain, Slot
  <2>3. CASE row = Absent
    <3> DEFINE bare == [parent |-> NoParent, val |-> [c \in Column |-> Default],
                        deleted |-> FALSE, created |-> 0]
    <3>1. bare \in Row /\ bare.created = 0 /\ \A k \in Column : bare.val[k] = Default
      BY BareIs
    <3>2. Base(Absent) = bare
      BY DEF Base
    <3> HIDE DEF bare
    <3>3. Base(bare) = bare
      BY <3>1, AbsentIsNoRow DEF Base
    <3>4. Merge(row, m) = Merge(bare, m)
      BY <2>3, <3>2, <3>3 DEF Merge
    <3> QED
      BY <2>1, <3>1, <3>4
  <2> QED
    BY <2>2, <2>3
<1> QED
  BY <1>1, <1>2

LEMMA HearsPlain ==
    ASSUME NEW row \in Slot, Plain(row), NEW ch \in Change, NEW e
    PROVE  Plain(Hears(row, e, ch))
<1>1. CASE EntityOf(ch) # e
  BY <1>1 DEF Hears
<1>2. CASE EntityOf(ch) = e
  <2> DEFINE m == Known(Content[ch.op])
             r == Merge(row, m)
  <2>1. m \in Mutation /\ DOMAIN m.val \subseteq Mirrored
    <3>1. ch.op \in OpId
      BY DEF Change
    <3> QED
      BY <3>1, ContentIs, KnownIs
  <2>2. r \in Row /\ Materialized(r) = r
    <3> HIDE DEF m
    <3> QED
      BY <2>1, MergePlain
  <2>3. Hears(row, e, ch) = [r EXCEPT !.created = 0]
    BY <1>2 DEF Hears, FoldChange
  <2> HIDE DEF r
  <2>4. r.created = 0
    BY <2>2, PlainIs
  <2>5. [r EXCEPT !.created = 0] = r
    BY <2>2, <2>4 DEF Row
  <2> QED
    BY <2>2, <2>3, <2>5 DEF Plain, Slot
<1> QED
  BY <1>1, <1>2

\* f is the row after each of the changes.
Telling(f, row, e, changes) ==
    /\ f \in [0..Len(changes) -> Slot] /\ f[0] = row /\ Told(row, e, changes) = f[Len(changes)]
    /\ \A n \in 1..Len(changes) : f[n] = Hears(f[n - 1], e, changes[n])

\* The changes of a sequence, one after the other.
LEMMA ToldIs ==
    ASSUME NEW row \in Slot, NEW e, NEW changes \in Seq(Change)
    PROVE  \E f : Telling(f, row, e, changes)
<1> DEFINE N == Len(changes)
           step == [n \in 1..N |-> [r \in Slot |-> Hears(r, e, changes[n])]]
           Goes(r) == r = [n \in 0..N |->
                              IF n = 0 THEN row
                              ELSE IF EntityOf(changes[n]) = e THEN FoldChange(r[n - 1], changes[n])
                              ELSE r[n - 1]]
<1>1. N \in Nat /\ \A n \in 1..N : changes[n] \in Change
  OBVIOUS
<1>2. step \in [1..N -> [Slot -> Slot]]
  BY <1>1, HearsType
<1>3. \A n \in 1..N : \A r \in Slot : step[n][r] = Hears(r, e, changes[n])
  OBVIOUS
<1>4. Told(row, e, changes) = (CHOOSE r : Goes(r))[N]
  BY DEF Told
<1> HIDE DEF N, step
<1>5. PICK f : Stepwise(f, N, Slot, row, step)
  BY <1>1, <1>2, Recursion
<1>6. \A n \in 1..N : f[n] = Hears(f[n - 1], e, changes[n])
  <2> TAKE n \in 1..N
  <2>1. n - 1 \in 0..N
    BY <1>1
  <2> QED
    BY <1>3, <1>5, <2>1 DEF Stepwise
<1>7. Goes(f)
  <2>1. \A n \in 0..N : f[n] = IF n = 0 THEN row
                              ELSE IF EntityOf(changes[n]) = e THEN FoldChange(f[n - 1], changes[n])
                              ELSE f[n - 1]
    <3> TAKE n \in 0..N
    <3>1. n = 0 \/ n \in 1..N
      BY <1>1
    <3> QED
      BY <1>5, <1>6, <3>1 DEF Hears, Stepwise
  <2> QED
    BY <1>5, <2>1 DEF Stepwise
<1> DEFINE g == CHOOSE r : Goes(r)
<1>8. Goes(g)
  BY <1>7
<1> HIDE DEF g
<1>9. /\ g[0] = row
      /\ \A n \in 1..N : g[n] = Hears(g[n - 1], e, changes[n])
  <2>1. \A n \in 0..N : g[n] = IF n = 0 THEN row
                              ELSE IF EntityOf(changes[n]) = e THEN FoldChange(g[n - 1], changes[n])
                              ELSE g[n - 1]
    BY <1>8
  <2> QED
    BY <1>1, <2>1 DEF Hears
<1>10. Follows(g, N, Slot, row, step)
  BY <1>3, <1>9 DEF Follows
<1>11. N \in 0..N
  BY <1>1
<1>12. g[N] = f[N]
  <2>1. \A n \in 0..N : g[n] = f[n]
    BY <1>1, <1>5, <1>10, SameSteps
  <2> QED
    BY <1>11, <2>1
<1>13. Told(row, e, changes) = f[N]
  BY <1>4, <1>12 DEF g
<1> QED
  BY <1>5, <1>6, <1>13 DEF N, Telling, Stepwise

LEMMA ToldType ==
    ASSUME NEW row \in Slot, NEW e, NEW changes \in Seq(Change)
    PROVE  /\ Told(row, e, changes) \in Slot
           /\ Told(row, e, <<>>) = row
<1>1. Told(row, e, changes) \in Slot
  <2>1. PICK f : Telling(f, row, e, changes)
    BY ToldIs
  <2> QED
    BY <2>1 DEF Telling
<1>2. <<>> \in Seq(Change) /\ Len(<<>>) = 0
  OBVIOUS
<1>3. PICK f : Telling(f, row, e, <<>>)
  BY <1>2, ToldIs
<1> QED
  BY <1>1, <1>2, <1>3 DEF Telling

\* More changes are told on top of the first ones.
LEMMA ToldMore ==
    ASSUME NEW row \in Slot, NEW e, NEW a \in Seq(Change), NEW b \in Seq(Change)
    PROVE  Told(row, e, a \o b) = Told(Told(row, e, a), e, b)
<1> DEFINE ab == a \o b
<1>1. /\ ab \in Seq(Change) /\ Len(ab) = Len(a) + Len(b) /\ Len(a) \in Nat /\ Len(b) \in Nat
      /\ \A n \in 1..Len(a) : ab[n] = a[n]
      /\ \A n \in 1..Len(b) : ab[Len(a) + n] = b[n]
  OBVIOUS
<1> HIDE DEF ab
<1>2. PICK f : Telling(f, row, e, a)
  BY ToldIs
<1>3. PICK h : Telling(h, row, e, ab)
  BY <1>1, ToldIs
<1>4. Told(row, e, a) \in Slot
  BY ToldType
<1>5. PICK g : Telling(g, Told(row, e, a), e, b)
  BY <1>4, ToldIs
<1>6. \A n \in 0..Len(a) : h[n] = f[n]
  <2> DEFINE G == {n \in 0..Len(a) : h[n] = f[n]}
  <2>1. 0 \in G
    BY <1>1, <1>2, <1>3 DEF Telling
  <2>2. ASSUME NEW n \in 1..Len(a), n - 1 \in G PROVE n \in G
    <3>1. n \in 1..Len(ab) /\ n \in 0..Len(a)
      BY <1>1
    <3> QED
      BY <1>1, <1>2, <1>3, <2>2, <3>1 DEF Telling
  <2> HIDE DEF G
  <2>3. \A n \in 0..Len(a) : n \in G
    BY <1>1, <2>1, <2>2, UpTo
  <2> QED
    BY <2>3 DEF G
<1>7. \A n \in 0..Len(b) : h[Len(a) + n] = g[n]
  <2> DEFINE G == {n \in 0..Len(b) : h[Len(a) + n] = g[n]}
  <2>1. 0 \in G
    <3>1. Len(a) \in 0..Len(a) /\ Len(a) + 0 = Len(a) /\ 0 \in 0..Len(b)
      BY <1>1
    <3> QED
      BY <1>2, <1>5, <1>6, <3>1 DEF Telling
  <2>2. ASSUME NEW n \in 1..Len(b), n - 1 \in G PROVE n \in G
    <3>1. /\ Len(a) + n \in 1..Len(ab) /\ n \in 0..Len(b)
          /\ (Len(a) + n) - 1 = Len(a) + (n - 1)
      BY <1>1
    <3>2. h[Len(a) + n] = Hears(h[Len(a) + (n - 1)], e, b[n])
      BY <1>1, <1>3, <3>1 DEF Telling
    <3>3. h[Len(a) + (n - 1)] = g[n - 1]
      BY <2>2
    <3>4. g[n] = Hears(g[n - 1], e, b[n])
      BY <1>5 DEF Telling
    <3> QED
      BY <3>1, <3>2, <3>3, <3>4
  <2> HIDE DEF G
  <2>3. \A n \in 0..Len(b) : n \in G
    BY <1>1, <2>1, <2>2, UpTo
  <2> QED
    BY <2>3 DEF G
<1>8. Len(b) \in 0..Len(b)
  BY <1>1
<1>9. Told(row, e, ab) = Told(Told(row, e, a), e, b)
  BY <1>1, <1>3, <1>5, <1>7, <1>8 DEF Telling
<1> QED
  BY <1>9 DEF ab

LEMMA ToldOne ==
    ASSUME NEW row \in Slot, NEW e, NEW ch \in Change
    PROVE  Told(row, e, <<ch>>) = Hears(row, e, ch)
<1>1. <<ch>> \in Seq(Change) /\ Len(<<ch>>) = 1 /\ <<ch>>[1] = ch
  OBVIOUS
<1>2. PICK f : Telling(f, row, e, <<ch>>)
  BY <1>1, ToldIs
<1>3. f[1] = Hears(f[1 - 1], e, <<ch>>[1])
  BY <1>1, <1>2 DEF Telling
<1> QED
  BY <1>1, <1>2, <1>3 DEF Telling

LEMMA ToldPlain ==
    ASSUME NEW row \in Slot, Plain(row), NEW e, NEW changes \in Seq(Change)
    PROVE  Plain(Told(row, e, changes))
<1>1. PICK f : Telling(f, row, e, changes)
  BY ToldIs
<1> DEFINE G == {n \in 0..Len(changes) : Plain(f[n])}
<1>2. Len(changes) \in Nat /\ 0 \in G
  BY <1>1 DEF Telling
<1>3. ASSUME NEW n \in 1..Len(changes), n - 1 \in G PROVE n \in G
  <2>1. n \in 0..Len(changes) /\ n - 1 \in 0..Len(changes) /\ changes[n] \in Change
    OBVIOUS
  <2> QED
    BY <1>1, <1>3, <2>1, HearsPlain DEF Telling
<1> HIDE DEF G
<1>4. \A n \in 0..Len(changes) : n \in G
  BY <1>2, <1>3, UpTo
<1>5. Len(changes) \in 0..Len(changes)
  BY <1>2
<1> QED
  BY <1>1, <1>4, <1>5 DEF G, Telling

----------------------------------------------------------------------------
(* A change applied by the service and the same change told to a device. *)

\* x and y are the same but for what m determines.
AgreeBut(x, y, m) ==
    /\ x \in Row /\ y \in Row /\ x.created = y.created
    /\ SetsParent(m) \/ x.parent = y.parent
    /\ m.kind # "patch" \/ x.deleted = y.deleted
    /\ \A k \in Column : k \notin Sets(m) => x.val[k] = y.val[k]

\* A change leaves two rows as alike as it finds them.
LEMMA HearsAgree ==
    ASSUME NEW x, NEW y, NEW m \in Mutation, AgreeBut(x, y, m), NEW ch \in Change, NEW e
    PROVE  AgreeBut(Hears(x, e, ch), Hears(y, e, ch), m)
<1>1. CASE EntityOf(ch) # e
  BY <1>1 DEF Hears
<1>2. CASE EntityOf(ch) = e
  <2> DEFINE n == Known(Content[ch.op])
             u == Merge(x, n)
             v == Merge(y, n)
  <2>1. n \in Mutation
    <3>1. ch.op \in OpId
      BY DEF Change
    <3> QED
      BY <3>1, ContentIs, KnownIs
  <2>2. x \in Row /\ y \in Row /\ x \in Slot /\ y \in Slot
    BY DEF AgreeBut, Slot
  <2>3. Hears(x, e, ch) = [u EXCEPT !.created = 0] /\ Hears(y, e, ch) = [v EXCEPT !.created = 0]
    BY <1>2 DEF Hears, FoldChange
  <2> HIDE DEF n
  <2>4. CASE n.kind = "create"
    <3>1. u = Created(n, 0) /\ v = Created(n, 0)
      BY <2>1, <2>2, <2>4, MergeCreate
    <3>2. u = v /\ u \in Row
      BY <2>1, <2>2, <3>1, MergeType
    <3> HIDE DEF u, v
    <3>3. [u EXCEPT !.created = 0] \in Row
      BY <3>2, DatedIs
    <3> QED
      BY <2>3, <3>2, <3>3 DEF AgreeBut
  <2>5. CASE n.kind # "create"
    <3>1. /\ u \in Row /\ u.parent = IF SetsParent(n) THEN n.parent ELSE x.parent
          /\ \A k \in Column : u.val[k] = IF k \in Sets(n) THEN n.val[k] ELSE x.val[k]
          /\ u.deleted = IF n.kind = "patch" THEN x.deleted ELSE n.kind = "delete"
      BY <2>1, <2>2, <2>5, MergeIs
    <3>2. /\ v \in Row /\ v.parent = IF SetsParent(n) THEN n.parent ELSE y.parent
          /\ \A k \in Column : v.val[k] = IF k \in Sets(n) THEN n.val[k] ELSE y.val[k]
          /\ v.deleted = IF n.kind = "patch" THEN y.deleted ELSE n.kind = "delete"
      BY <2>1, <2>2, <2>5, MergeIs
    <3> HIDE DEF u, v
    <3>3. /\ [u EXCEPT !.created = 0] \in Row /\ [u EXCEPT !.created = 0].parent = u.parent
          /\ [u EXCEPT !.created = 0].val = u.val /\ [u EXCEPT !.created = 0].deleted = u.deleted
          /\ [u EXCEPT !.created = 0].created = 0
      BY <3>1, DatedIs
    <3>4. /\ [v EXCEPT !.created = 0] \in Row /\ [v EXCEPT !.created = 0].parent = v.parent
          /\ [v EXCEPT !.created = 0].val = v.val /\ [v EXCEPT !.created = 0].deleted = v.deleted
          /\ [v EXCEPT !.created = 0].created = 0
      BY <3>2, DatedIs
    <3>5. SetsParent(m) \/ u.parent = v.parent
      BY <3>1, <3>2 DEF AgreeBut
    <3>6. m.kind # "patch" \/ u.deleted = v.deleted
      BY <3>1, <3>2 DEF AgreeBut
    <3>7. \A k \in Column : k \notin Sets(m) => u.val[k] = v.val[k]
      BY <3>1, <3>2 DEF AgreeBut
    <3> QED
      BY <2>3, <3>3, <3>4, <3>5, <3>6, <3>7 DEF AgreeBut
  <2> QED
    BY <2>4, <2>5
<1> QED
  BY <1>1, <1>2

LEMMA ToldAgree ==
    ASSUME NEW x, NEW y, NEW m \in Mutation, AgreeBut(x, y, m), NEW e, NEW changes \in Seq(Change)
    PROVE  AgreeBut(Told(x, e, changes), Told(y, e, changes), m)
<1>1. x \in Slot /\ y \in Slot
  BY DEF AgreeBut, Slot
<1>2. PICK f : Telling(f, x, e, changes)
  BY <1>1, ToldIs
<1>3. PICK g : Telling(g, y, e, changes)
  BY <1>1, ToldIs
<1> DEFINE G == {n \in 0..Len(changes) : AgreeBut(f[n], g[n], m)}
<1>4. Len(changes) \in Nat /\ 0 \in G
  BY <1>2, <1>3 DEF Telling
<1>5. ASSUME NEW n \in 1..Len(changes), n - 1 \in G PROVE n \in G
  <2>1. n \in 0..Len(changes) /\ changes[n] \in Change
    OBVIOUS
  <2>2. AgreeBut(f[n - 1], g[n - 1], m)
    BY <1>5
  <2>3. AgreeBut(Hears(f[n - 1], e, changes[n]), Hears(g[n - 1], e, changes[n]), m)
    BY <2>1, <2>2, HearsAgree
  <2>4. f[n] = Hears(f[n - 1], e, changes[n]) /\ g[n] = Hears(g[n - 1], e, changes[n])
    BY <1>2, <1>3 DEF Telling
  <2> QED
    BY <2>1, <2>3, <2>4
<1> HIDE DEF G
<1>6. \A n \in 0..Len(changes) : n \in G
  BY <1>4, <1>5, UpTo
<1>7. Len(changes) \in 0..Len(changes)
  BY <1>4
<1> QED
  BY <1>2, <1>3, <1>6, <1>7 DEF G, Telling

\* What m determines comes out the same.
LEMMA MergeAgree ==
    ASSUME NEW x, NEW y, NEW m \in Mutation, m.kind # "create", AgreeBut(x, y, m)
    PROVE  Merge(x, m) = Merge(y, m)
<1> DEFINE u == Merge(x, m)
           v == Merge(y, m)
<1>1. x \in Row /\ y \in Row
  BY DEF AgreeBut
<1>2. /\ u \in Row /\ u.parent = IF SetsParent(m) THEN m.parent ELSE x.parent
      /\ \A k \in Column : u.val[k] = IF k \in Sets(m) THEN m.val[k] ELSE x.val[k]
      /\ u.deleted = IF m.kind = "patch" THEN x.deleted ELSE m.kind = "delete"
      /\ u.created = x.created
  BY <1>1, MergeIs
<1>3. /\ v \in Row /\ v.parent = IF SetsParent(m) THEN m.parent ELSE y.parent
      /\ \A k \in Column : v.val[k] = IF k \in Sets(m) THEN m.val[k] ELSE y.val[k]
      /\ v.deleted = IF m.kind = "patch" THEN y.deleted ELSE m.kind = "delete"
      /\ v.created = y.created
  BY <1>1, MergeIs
<1> HIDE DEF u, v
<1>4. u.parent = v.parent /\ u.created = v.created
  BY <1>2, <1>3 DEF AgreeBut
<1>5. u.deleted = v.deleted
  BY <1>2, <1>3 DEF AgreeBut
<1>6. \A k \in Column : u.val[k] = v.val[k]
  BY <1>2, <1>3 DEF AgreeBut
<1>7. u = v
  BY <1>2, <1>3, <1>4, <1>5, <1>6, SameRow
<1> QED
  BY <1>7 DEF u, v

\* An accepted operation makes a row, or changes the one that is there.
LEMMA AppliedIs ==
    ASSUME NEW rws \in Rows, NEW m \in Mutation, NEW at \in Nat, Accepts(rws, m)
    PROVE  /\ ApplyMutation(rws, m, at) \in Rows
           /\ \A e \in Entity : e # m.entity => ApplyMutation(rws, m, at)[e] = rws[e]
           /\ ApplyMutation(rws, m, at)[m.entity] \in Row
           /\ m.kind = "create" => /\ rws[m.entity] = Absent
                                   /\ ApplyMutation(rws, m, at)[m.entity] = Created(m, at)
           /\ m.kind # "create" => /\ rws[m.entity] \in Row
                                   /\ ApplyMutation(rws, m, at)[m.entity] = Merge(rws[m.entity], m)
<1> DEFINE row == rws[m.entity]
           new == CASE m.kind = "create"  -> Created(m, at)
                    [] m.kind = "patch"   -> Patched(row, m)
                    [] m.kind = "delete"  -> Tombstoned(row)
                    [] m.kind = "restore" -> Revived(row, m)
<1>1. /\ m.entity \in Entity /\ m.kind \in {"create", "patch", "delete", "restore"}
      /\ row \in Row \cup {Absent} /\ rws \in [Entity -> Row \cup {Absent}]
  BY DEF Mutation, Kind, Rows
<1>2. ApplyMutation(rws, m, at) = [rws EXCEPT ![m.entity] = new]
  BY DEF ApplyMutation
<1>3. m.kind = "create" => row = Absent /\ new = Created(m, at)
  BY DEF Accepts, CreateAllowed
<1>4. m.kind # "create" => row # Absent
  <2> HIDE DEF row, new
  <2>1. m.kind # "create" => Live(rws, m.entity) \/ rws[m.entity] # Absent
    BY <1>1 DEF Accepts, PatchAllowed, DeleteAllowed, RestoreAllowed
  <2> QED
    BY <2>1 DEF Live, row
<1>5. m.kind # "create" => row \in Row /\ new = Merge(row, m)
  <2> SUFFICES ASSUME m.kind # "create" PROVE row \in Row /\ new = Merge(row, m)
    OBVIOUS
  <2>1. row \in Row /\ Base(row) = row
    BY <1>1, <1>4 DEF Base
  <2> QED
    BY <1>1, <2>1 DEF Merge
<1> HIDE DEF row, new
<1>6. new \in Row
  <2>1. row \in Row => Merge(row, m) \in Row
    BY MergeType DEF Slot
  <2>2. Created(m, at) \in Row
    BY CreatedIs
  <2> QED
    BY <1>3, <1>5, <2>1, <2>2
<1>7. ApplyMutation(rws, m, at) \in Rows
  BY <1>1, <1>2, <1>6 DEF Rows
<1>8. ApplyMutation(rws, m, at)[m.entity] = new
  BY <1>1, <1>2
<1>9. \A e \in Entity : e # m.entity => ApplyMutation(rws, m, at)[e] = rws[e]
  BY <1>1, <1>2
<1> QED
  BY <1>3, <1>5, <1>6, <1>7, <1>8, <1>9 DEF row

\* A new row, as a device makes it.
LEMMA CreatedShown ==
    ASSUME NEW m \in Mutation, NEW at \in Nat
    PROVE  [Created(Known(m), 0) EXCEPT !.created = 0] = Materialized(Created(m, at))
<1> DEFINE n == Known(m)
           u == Created(n, 0)
           r == Created(m, at)
           w == Materialized(r)
<1>1. /\ n \in Mutation /\ n.parent = m.parent /\ DOMAIN n.val = DOMAIN m.val \cap Mirrored
      /\ \A k \in DOMAIN n.val : n.val[k] = m.val[k]
  BY KnownIs
<1>2. 0 \in Nat
  OBVIOUS
<1> HIDE DEF n
<1>3. /\ u \in Row /\ u.parent = IF n.parent = Keep THEN NoParent ELSE n.parent
      /\ \A k \in Column : u.val[k] = IF k \in DOMAIN n.val THEN n.val[k] ELSE Default
      /\ u.deleted = FALSE /\ u.created = 0
  <2>1. \A k \in Column : u.val[k] = IF k \in DOMAIN n.val THEN n.val[k] ELSE Default
    BY <1>1, <1>2, CreatedVal
  <2>2. u \in Row /\ u.parent = IF n.parent = Keep THEN NoParent ELSE n.parent
    BY <1>1, <1>2, CreatedIs
  <2>3. u.deleted = FALSE /\ u.created = 0
    BY <1>1, <1>2, CreatedIs
  <2> QED
    BY <2>1, <2>2, <2>3
<1>4. /\ r \in Row /\ r.parent = IF m.parent = Keep THEN NoParent ELSE m.parent
      /\ \A k \in Column : r.val[k] = IF k \in DOMAIN m.val THEN m.val[k] ELSE Default
      /\ r.deleted = FALSE
  BY CreatedIs
<1> HIDE DEF u, r
<1>5. /\ w \in Row /\ w.parent = r.parent /\ w.deleted = r.deleted /\ w.created = 0
      /\ \A k \in Column : w.val[k] = IF k \in Mirrored THEN r.val[k] ELSE Default
  BY <1>4, MaterializedIs
<1> HIDE DEF w
<1>6. \A k \in Column : u.val[k] = w.val[k]
  BY <1>1, <1>3, <1>4, <1>5
<1>7. u.parent = w.parent /\ u.deleted = w.deleted /\ u.created = w.created
  BY <1>1, <1>3, <1>4, <1>5
<1>8. u = w
  BY <1>3, <1>5, <1>6, <1>7, SameRow
<1>9. [u EXCEPT !.created = 0] = u
  BY <1>3 DEF Row
<1> QED
  BY <1>8, <1>9 DEF u, w, r, n

\* A changed row, as a device changes it.
LEMMA MergedShown ==
    ASSUME NEW row \in Row, NEW m \in Mutation, m.kind # "create"
    PROVE  [Merge(Materialized(row), Known(m)) EXCEPT !.created = 0] = Materialized(Merge(row, m))
<1> DEFINE n == Known(m)
           p == Materialized(row)
           u == Merge(p, n)
           r == Merge(row, m)
           w == Materialized(r)
<1>1. /\ n \in Mutation /\ n.parent = m.parent /\ n.kind = m.kind
      /\ DOMAIN n.val = DOMAIN m.val \cap Mirrored /\ \A k \in DOMAIN n.val : n.val[k] = m.val[k]
  BY KnownIs
<1> HIDE DEF n
<1>2. /\ p \in Row /\ p.parent = row.parent /\ p.deleted = row.deleted /\ p.created = 0
      /\ \A k \in Column : p.val[k] = IF k \in Mirrored THEN row.val[k] ELSE Default
  BY MaterializedIs
<1> HIDE DEF p
<1>3. /\ u \in Row /\ u.parent = IF SetsParent(n) THEN n.parent ELSE p.parent
      /\ \A k \in Column : u.val[k] = IF k \in Sets(n) THEN n.val[k] ELSE p.val[k]
      /\ u.deleted = IF n.kind = "patch" THEN p.deleted ELSE n.kind = "delete"
      /\ u.created = 0
  BY <1>1, <1>2, MergeIs
<1>4. /\ r \in Row /\ r.parent = IF SetsParent(m) THEN m.parent ELSE row.parent
      /\ \A k \in Column : r.val[k] = IF k \in Sets(m) THEN m.val[k] ELSE row.val[k]
      /\ r.deleted = IF m.kind = "patch" THEN row.deleted ELSE m.kind = "delete"
  BY MergeIs
<1> HIDE DEF u, r
<1>5. /\ w \in Row /\ w.parent = r.parent /\ w.deleted = r.deleted /\ w.created = 0
      /\ \A k \in Column : w.val[k] = IF k \in Mirrored THEN r.val[k] ELSE Default
  BY <1>4, MaterializedIs
<1> HIDE DEF w
<1>6. Sets(n) = Sets(m) \cap Mirrored /\ (SetsParent(n) <=> SetsParent(m))
      /\ \A k \in Sets(n) : n.val[k] = m.val[k]
  BY <1>1 DEF Sets, SetsParent
<1>7. \A k \in Column : u.val[k] = w.val[k]
  BY <1>2, <1>3, <1>4, <1>5, <1>6
<1>8. u.parent = w.parent /\ u.created = w.created
  BY <1>1, <1>2, <1>3, <1>4, <1>5, <1>6
<1>9. u.deleted = w.deleted
  BY <1>1, <1>2, <1>3, <1>4, <1>5
<1>10. u = w
  BY <1>3, <1>5, <1>7, <1>8, <1>9, SameRow
<1>11. [u EXCEPT !.created = 0] = u
  BY <1>3 DEF Row
<1> QED
  BY <1>10, <1>11 DEF u, w, r, n, p

\* What a changed row and its former state look like to a device differs
\* only in what the change determines.
LEMMA MergedAgree ==
    ASSUME NEW row \in Row, NEW m \in Mutation, m.kind # "create"
    PROVE  AgreeBut(Materialized(Merge(row, m)), Materialized(row), Known(m))
<1> DEFINE n == Known(m)
           p == Materialized(row)
           r == Merge(row, m)
           w == Materialized(r)
<1>1. /\ n.parent = m.parent /\ n.kind = m.kind
      /\ DOMAIN n.val = DOMAIN m.val \cap Mirrored
  BY KnownIs
<1> HIDE DEF n
<1>2. /\ p \in Row /\ p.parent = row.parent /\ p.deleted = row.deleted /\ p.created = 0
      /\ \A k \in Column : p.val[k] = IF k \in Mirrored THEN row.val[k] ELSE Default
  BY MaterializedIs
<1> HIDE DEF p
<1>4. /\ r \in Row /\ r.parent = IF SetsParent(m) THEN m.parent ELSE row.parent
      /\ \A k \in Column : r.val[k] = IF k \in Sets(m) THEN m.val[k] ELSE row.val[k]
      /\ r.deleted = IF m.kind = "patch" THEN row.deleted ELSE m.kind = "delete"
  BY MergeIs
<1> HIDE DEF r
<1>5. /\ w \in Row /\ w.parent = r.parent /\ w.deleted = r.deleted /\ w.created = 0
      /\ \A k \in Column : w.val[k] = IF k \in Mirrored THEN r.val[k] ELSE Default
  BY <1>4, MaterializedIs
<1> HIDE DEF w
<1>6. Sets(n) = Sets(m) \cap Mirrored /\ (SetsParent(n) <=> SetsParent(m))
  BY <1>1 DEF Sets, SetsParent
<1>7. \A k \in Column : k \notin Sets(n) => w.val[k] = p.val[k]
  BY <1>2, <1>4, <1>5, <1>6
<1>8. (SetsParent(n) \/ w.parent = p.parent) /\ w.created = p.created
  BY <1>2, <1>4, <1>5, <1>6
<1>9. n.kind # "patch" \/ w.deleted = p.deleted
  BY <1>1, <1>2, <1>4, <1>5
<1> QED
  BY <1>2, <1>5, <1>7, <1>8, <1>9 DEF AgreeBut, w, r, n, p

\* Rows and log after something more was decided: what led to the rows still
\* does.
Grows(rws, lg, rws2, lg2) ==
    \A e \in Entity : \A row \in Slot : \A from \in Nat :
        Leads(row, e, lg, from, rws) => Leads(row, e, lg2, from, rws2)

\* One change more: told to a row that was right it gives the right row.
LEMMA ShownNext ==
    ASSUME NEW rws \in Rows, NEW at \in Nat, NEW ch \in Change, Accepts(rws, Content[ch.op]),
           NEW e \in Entity
    PROVE  Hears(Shown(rws)[e], e, ch) = Shown(ApplyMutation(rws, Content[ch.op], at))[e]
<1> DEFINE m == Content[ch.op]
           rws2 == ApplyMutation(rws, m, at)
<1> SUFFICES Hears(Shown(rws)[e], e, ch) = Shown(rws2)[e]
  OBVIOUS
<1>1. m \in Mutation /\ Known(m) \in Mutation /\ Known(m).kind = m.kind
  <2>1. ch.op \in OpId
    BY DEF Change
  <2> QED
    BY <2>1, ContentIs, KnownIs
<1>2. /\ Hears(Shown(rws)[e], e, ch) = IF m.entity = e
              THEN [Merge(Shown(rws)[e], Known(m)) EXCEPT !.created = 0] ELSE Shown(rws)[e]
      /\ Shown(rws)[e] = IF rws[e] = Absent THEN Absent ELSE Materialized(rws[e])
      /\ Shown(rws2)[e] = IF rws2[e] = Absent THEN Absent ELSE Materialized(rws2[e])
  <2> HIDE DEF rws2
  <2> QED
    BY DEF Hears, EntityOf, FoldChange, Shown
<1>3. Accepts(rws, m)
  OBVIOUS
<1> HIDE DEF m
<1>4. /\ \A f \in Entity : f # m.entity => rws2[f] = rws[f]
      /\ rws2[m.entity] \in Row
      /\ m.kind = "create" => rws[m.entity] = Absent /\ rws2[m.entity] = Created(m, at)
      /\ m.kind # "create" => rws[m.entity] \in Row /\ rws2[m.entity] = Merge(rws[m.entity], m)
  BY <1>1, <1>3, AppliedIs
<1> HIDE DEF rws2
<1>5. CASE m.entity # e
  BY <1>2, <1>4, <1>5
<1>6. CASE m.entity = e /\ m.kind = "create"
  <2>1. Shown(rws)[e] = Absent /\ Absent \in Slot
    BY <1>2, <1>4, <1>6 DEF Slot
  <2>2. Merge(Shown(rws)[e], Known(m)) = Created(Known(m), 0)
    BY <1>1, <1>6, <2>1, MergeCreate
  <2>3. [Created(Known(m), 0) EXCEPT !.created = 0] = Materialized(Created(m, at))
    BY <1>1, CreatedShown
  <2> QED
    BY <1>2, <1>4, <1>6, <2>2, <2>3, AbsentIsNoRow
<1>7. CASE m.entity = e /\ m.kind # "create"
  <2>1. rws[e] \in Row /\ Shown(rws)[e] = Materialized(rws[e]) /\ rws2[e] = Merge(rws[e], m)
    BY <1>2, <1>4, <1>7, AbsentIsNoRow
  <2>2. [Merge(Materialized(rws[e]), Known(m)) EXCEPT !.created = 0] = Materialized(Merge(rws[e], m))
    BY <1>1, <1>7, <2>1, MergedShown
  <2> QED
    BY <1>2, <1>4, <1>7, <2>1, <2>2, AbsentIsNoRow
<1> QED
  BY <1>5, <1>6, <1>7

LEMMA ShownType ==
    ASSUME NEW rws \in Rows, NEW e \in Entity
    PROVE  Plain(Shown(rws)[e]) /\ Shown(rws)[e] \in Slot
<1>1. Shown(rws)[e] = IF rws[e] = Absent THEN Absent ELSE Materialized(rws[e])
  BY DEF Shown
<1>2. CASE rws[e] = Absent
  BY <1>1, <1>2 DEF Plain, Slot
<1>3. CASE rws[e] # Absent
  <2> DEFINE w == Materialized(rws[e])
  <2>1. rws[e] \in Row
    BY <1>3 DEF Rows
  <2>2. w \in Row /\ w.created = 0 /\ \A k \in Column : k \notin Mirrored => w.val[k] = Default
    BY <2>1, MaterializedIs
  <2> HIDE DEF w
  <2>3. Materialized(w) = w
    BY <2>2, PlainIs
  <2>4. Shown(rws)[e] = w
    BY <1>1, <1>3 DEF w
  <2> QED
    BY <2>2, <2>3, <2>4 DEF Plain, Slot
<1> QED
  BY <1>2, <1>3

\* The rest of a log with one change more.
LEMMA RestOf ==
    ASSUME NEW lg \in Seq(Change), NEW ch \in Change, NEW from \in 0..Len(lg)
    PROVE  /\ SubSeq(lg, from + 1, Len(lg)) \in Seq(Change)
           /\ Append(lg, ch) \in Seq(Change) /\ Len(Append(lg, ch)) = Len(lg) + 1
           /\ SubSeq(Append(lg, ch), from + 1, Len(lg) + 1) =
                  SubSeq(lg, from + 1, Len(lg)) \o <<ch>>
<1>1. SubSeq(lg, from + 1, Len(lg)) \in Seq(Change)
  OBVIOUS
<1>2. Append(lg, ch) \in Seq(Change) /\ Len(Append(lg, ch)) = Len(lg) + 1
  OBVIOUS
<1>3. SubSeq(Append(lg, ch), from + 1, Len(lg) + 1) = SubSeq(lg, from + 1, Len(lg)) \o <<ch>>
  <2> DEFINE x == SubSeq(Append(lg, ch), from + 1, Len(lg) + 1)
             y == SubSeq(lg, from + 1, Len(lg)) \o <<ch>>
  <2>1. x \in Seq(Change) /\ y \in Seq(Change) /\ Len(x) = Len(lg) + 1 - from /\ Len(y) = Len(x)
    BY <1>1, <1>2
  <2>2. ASSUME NEW i \in 1..Len(x) PROVE x[i] = y[i]
    <3>1. i + from \in 1..(Len(lg) + 1) /\ x[i] = Append(lg, ch)[i + from]
      BY <1>2, <2>1
    <3>2. CASE i = Len(x)
      <4>1. i + from = Len(lg) + 1 /\ Append(lg, ch)[Len(lg) + 1] = ch
        BY <2>1, <3>2
      <4>2. i = Len(SubSeq(lg, from + 1, Len(lg))) + 1
        BY <2>1, <3>2
      <4>3. y[i] = ch
        <5> DEFINE z == SubSeq(lg, from + 1, Len(lg))
        <5>1. z \in Seq(Change) /\ i = Len(z) + 1 /\ y = z \o <<ch>>
          BY <1>1, <4>2
        <5> HIDE DEF z, y
        <5> QED
          BY <5>1
      <4> QED
        BY <3>1, <4>1, <4>3
    <3>3. CASE i # Len(x)
      BY <1>1, <1>2, <2>1, <3>1, <3>3
    <3> QED
      BY <3>2, <3>3
  <2> HIDE DEF x, y
  <2>3. x = y
    BY <2>1, <2>2
  <2> QED
    BY <2>3 DEF x, y
<1> QED
  BY <1>1, <1>2, <1>3

LEMMA LeadsNext ==
    ASSUME NEW rws \in Rows, NEW lg \in Seq(Change), NEW ch \in Change,
           Accepts(rws, Content[ch.op])
    PROVE  Grows(rws, lg, ApplyMutation(rws, Content[ch.op], Len(lg) + 1), Append(lg, ch))
<1> DEFINE rws2 == ApplyMutation(rws, Content[ch.op], Len(lg) + 1)
           lg2 == Append(lg, ch)
<1>1. ASSUME NEW e \in Entity, NEW row \in Slot, NEW from \in Nat, Leads(row, e, lg, from, rws)
      PROVE  Leads(row, e, lg2, from, rws2)
  <2> DEFINE rest == SubSeq(lg, from + 1, Len(lg))
  <2>1. from \in 0..Len(lg) /\ Told(row, e, rest) = Shown(rws)[e]
    BY <1>1 DEF Leads
  <2>2. /\ rest \in Seq(Change) /\ <<ch>> \in Seq(Change) /\ Len(lg2) = Len(lg) + 1
        /\ SubSeq(lg2, from + 1, Len(lg2)) = rest \o <<ch>>
    <3>1. /\ rest \in Seq(Change) /\ Len(lg2) = Len(lg) + 1
          /\ SubSeq(lg2, from + 1, Len(lg) + 1) = rest \o <<ch>>
      BY <2>1, RestOf
    <3>2. <<ch>> \in Seq(Change)
      OBVIOUS
    <3> HIDE DEF rest, lg2
    <3> QED
      BY <3>1, <3>2
  <2> HIDE DEF rest, lg2, rws2
  <2>3. Told(row, e, rest \o <<ch>>) = Told(Shown(rws)[e], e, <<ch>>)
    <3> DEFINE last == <<ch>>
    <3>1. last \in Seq(Change)
      BY <2>2
    <3> HIDE DEF last
    <3>2. Told(row, e, rest \o last) = Told(Told(row, e, rest), e, last)
      BY <2>2, <3>1, ToldMore
    <3> QED
      BY <2>1, <3>2 DEF last
  <2>4. Told(Shown(rws)[e], e, <<ch>>) = Hears(Shown(rws)[e], e, ch)
    BY ShownType, ToldOne
  <2>5. Hears(Shown(rws)[e], e, ch) = Shown(rws2)[e]
    <3>1. Len(lg) + 1 \in Nat
      OBVIOUS
    <3> QED
      BY <3>1, ShownNext DEF rws2
  <2>6. from \in 0..Len(lg2)
    BY <2>1, <2>2
  <2> QED
    BY <2>2, <2>3, <2>4, <2>5, <2>6 DEF Leads
<1> HIDE DEF rws2, lg2
<1>2. Grows(rws, lg, rws2, lg2)
  BY <1>1 DEF Grows
<1> QED
  BY <1>2 DEF rws2, lg2

\* Whenever a bootstrap began, it may go on reading after one more change.
LEMMA RowsNext ==
    ASSUME NEW rws, NEW lg, RowsOK(rws, lg), NEW ch \in Change, Accepts(rws, Content[ch.op])
    PROVE  RowsOK(ApplyMutation(rws, Content[ch.op], Len(lg) + 1), Append(lg, ch))
<1> DEFINE m == Content[ch.op]
           rws2 == ApplyMutation(rws, m, Len(lg) + 1)
           lg2 == Append(lg, ch)
<1> SUFFICES RowsOK(rws2, lg2)
  OBVIOUS
<1>1. rws \in Rows /\ lg \in Seq(Change) /\ Len(lg) \in Nat /\ Len(lg) + 1 \in Nat
  BY DEF RowsOK
<1>2. m \in Mutation /\ Known(m) \in Mutation /\ Known(m).kind = m.kind
  <2>1. ch.op \in OpId
    BY DEF Change
  <2> QED
    BY <2>1, ContentIs, KnownIs
<1>3. Grows(rws, lg, rws2, lg2)
  BY <1>1, LeadsNext
<1>4. /\ lg2 \in Seq(Change) /\ Len(lg2) = Len(lg) + 1
      /\ \A from \in 0..Len(lg) : SubSeq(lg2, from + 1, Len(lg2)) =
                                      SubSeq(lg, from + 1, Len(lg)) \o <<ch>>
  <2>1. lg2 \in Seq(Change) /\ Len(lg2) = Len(lg) + 1
    BY <1>1
  <2>2. ASSUME NEW from \in 0..Len(lg)
        PROVE  SubSeq(lg2, from + 1, Len(lg) + 1) = SubSeq(lg, from + 1, Len(lg)) \o <<ch>>
    BY <1>1, RestOf
  <2> QED
    BY <2>1, <2>2
<1>5. /\ rws2 \in Rows
      /\ \A f \in Entity : f # m.entity => rws2[f] = rws[f]
      /\ rws2[m.entity] \in Row
      /\ m.kind = "create" => rws[m.entity] = Absent /\ rws2[m.entity] = Created(m, Len(lg) + 1)
      /\ m.kind # "create" => rws[m.entity] \in Row /\ rws2[m.entity] = Merge(rws[m.entity], m)
  BY <1>1, <1>2, AppliedIs
<1>6. \A e \in Entity : Hears(Shown(rws)[e], e, ch) = Shown(rws2)[e]
  BY <1>1, ShownNext
<1>7. EntityOf(ch) = m.entity
  BY DEF EntityOf
<1>10. Created(m, Len(lg) + 1).created = Len(lg) + 1
  <2>1. \A time \in Nat : Created(m, time).created = time
    BY <1>2, CreatedIs
  <2> QED
    BY <1>1, <2>1
<1> HIDE DEF rws2, lg2
<1>8. ASSUME NEW e \in Entity PROVE rws2[e] # Absent => rws2[e].created \in 0..Len(lg2)
  <2>1. CASE e # m.entity
    BY <1>1, <1>4, <1>5, <2>1 DEF RowsOK
  <2>2. CASE e = m.entity /\ m.kind = "create"
    <3>1. rws2[e].created = Len(lg) + 1
      BY <1>5, <1>10, <2>2
    <3> QED
      BY <1>1, <1>4, <3>1
  <2>3. CASE e = m.entity /\ m.kind # "create"
    <3>1. rws2[e].created = rws[e].created
      BY <1>2, <1>5, <2>3, MergeIs
    <3>2. rws[e].created \in 0..Len(lg)
      BY <1>5, <2>3, AbsentIsNoRow DEF RowsOK
    <3> QED
      BY <1>1, <1>4, <3>1, <3>2
  <2> QED
    BY <2>1, <2>2, <2>3
<1>9. ASSUME NEW e \in Entity, NEW at \in 0..Len(lg2)
      PROVE  Leads(Listing(rws2, e, at), e, lg2, at, rws2)
  <2>0. rws2[e] \in Row \cup {Absent} /\ rws[e] \in Row \cup {Absent} /\ at \in Nat
    BY <1>1, <1>5 DEF Rows
  <2>1. CASE at = Len(lg2)
    <3>1. Listing(rws2, e, at) = Shown(rws2)[e]
      BY <1>8, <2>1, <2>0, <1>4, <1>1 DEF Listing, Shown
    <3>2. SubSeq(lg2, at + 1, Len(lg2)) = <<>>
      BY <1>4, <2>1
    <3>3. Shown(rws2)[e] \in Slot /\ <<>> \in Seq(Change)
      BY <1>5, ShownType
    <3>4. Told(Shown(rws2)[e], e, <<>>) = Shown(rws2)[e]
      BY <3>3, ToldType
    <3> QED
      BY <3>1, <3>2, <3>4 DEF Leads
  <2>2. CASE at # Len(lg2) /\ Listing(rws2, e, at) = Listing(rws, e, at)
    <3>1. at \in 0..Len(lg)
      BY <1>1, <1>4, <2>2
    <3>2. Leads(Listing(rws, e, at), e, lg, at, rws)
      BY <3>1 DEF RowsOK
    <3>3. Listing(rws, e, at) \in Slot
      <4>1. rws[e] # Absent => Materialized(rws[e]) \in Row
        BY <2>0, MaterializedIs
      <4> QED
        BY <4>1 DEF Listing, Slot
    <3> QED
      BY <1>3, <2>0, <2>2, <3>2, <3>3 DEF Grows
  <2>3. CASE at # Len(lg2) /\ Listing(rws2, e, at) # Listing(rws, e, at)
    <3>1. at \in 0..Len(lg)
      BY <1>1, <1>4, <2>3
    <3>2. e = m.entity
      BY <1>5, <2>3 DEF Listing
    <3>3. m.kind # "create"
      <4> SUFFICES ASSUME m.kind = "create" PROVE FALSE
        OBVIOUS
      <4>1. rws[e] = Absent /\ rws2[e].created = Len(lg) + 1
        BY <1>5, <1>10, <3>2
      <4> QED
        BY <1>1, <2>3, <3>1, <4>1 DEF Listing
    <3>4. rws[e] \in Row /\ rws2[e] = Merge(rws[e], m) /\ rws2[e] \in Row
      BY <1>5, <3>2, <3>3
    <3>5. rws2[e].created = rws[e].created
      BY <1>2, <3>3, <3>4, MergeIs
    <3> DEFINE x == Materialized(rws2[e])
               y == Materialized(rws[e])
               rest == SubSeq(lg, at + 1, Len(lg))
    <3>6. Listing(rws2, e, at) = x /\ Listing(rws, e, at) = y
      BY <2>3, <3>4, <3>5, AbsentIsNoRow DEF Listing
    <3>7. AgreeBut(x, y, Known(m))
      BY <1>2, <3>3, <3>4, MergedAgree
    <3>8. Leads(y, e, lg, at, rws)
      BY <3>1, <3>6 DEF RowsOK
    <3>9. rest \in Seq(Change)
      BY <1>1, <3>1
    <3>10. SubSeq(lg2, at + 1, Len(lg2)) = rest \o <<ch>> /\ <<ch>> \in Seq(Change)
      <4>1. <<ch>> \in Seq(Change)
        OBVIOUS
      <4>2. SubSeq(lg2, at + 1, Len(lg2)) = SubSeq(lg, at + 1, Len(lg)) \o <<ch>>
        BY <1>4, <3>1
      <4> QED
        BY <4>1, <4>2
    <3>11. x \in Slot
      BY <3>7 DEF AgreeBut, Slot
    <3> HIDE DEF x, y, rest
    <3>12. AgreeBut(Told(x, e, rest), Told(y, e, rest), Known(m))
      BY <1>2, <3>7, <3>9, ToldAgree
    <3>13. Told(y, e, rest) = Shown(rws)[e]
      BY <3>8 DEF Leads, rest
    <3>14. Merge(Told(x, e, rest), Known(m)) = Merge(Shown(rws)[e], Known(m))
      BY <1>2, <3>3, <3>12, <3>13, MergeAgree
    <3>15. Hears(Told(x, e, rest), e, ch) = Shown(rws2)[e]
      BY <1>6, <1>7, <3>2, <3>14 DEF Hears, FoldChange
    <3>16. Told(x, e, rest \o <<ch>>) = Hears(Told(x, e, rest), e, ch)
      <4> DEFINE last == <<ch>>
      <4>1. last \in Seq(Change)
        BY <3>10
      <4>2. Told(x, e, rest) \in Slot
        BY <3>9, <3>11, ToldType
      <4>3. Told(Told(x, e, rest), e, last) = Hears(Told(x, e, rest), e, ch)
        BY <4>2, ToldOne
      <4> HIDE DEF last
      <4>4. Told(x, e, rest \o last) = Told(Told(x, e, rest), e, last)
        BY <3>9, <3>11, <4>1, ToldMore
      <4> QED
        BY <4>3, <4>4 DEF last
    <3> QED
      BY <3>6, <3>10, <3>15, <3>16 DEF Leads
  <2> QED
    BY <2>1, <2>2, <2>3
<1> QED
  BY <1>4, <1>5, <1>8, <1>9 DEF RowsOK

----------------------------------------------------------------------------
(* A batch, decided one operation after the other. *)

\* What the service holds between two operations of a batch.
Decision == [ok : BOOLEAN, acks : Seq(Ack), rows : Rows, log : Seq(Change),
             receipts : SUBSET Receipt, expected : Nat]

LEMMA DecisionParts ==
    ASSUME NEW d \in Decision
    PROVE  /\ d.ok \in BOOLEAN /\ d.acks \in Seq(Ack) /\ d.rows \in Rows /\ d.log \in Seq(Change)
           /\ d.receipts \in SUBSET Receipt /\ d.expected \in Nat
           /\ d = [ok |-> d.ok, acks |-> d.acks, rows |-> d.rows, log |-> d.log,
                   receipts |-> d.receipts, expected |-> d.expected]
BY DEF Decision

LEMMA AckedIs ==
    ASSUME NEW d \in Decision, NEW item \in Item,
           NEW status \in {"applied", "rejected", "already_processed"}
    PROVE  /\ Acked(d, item, status) \in Decision
           /\ Acked(d, item, status).ok = d.ok
           /\ Acked(d, item, status).acks = Append(d.acks, [op |-> item.op, status |-> status])
           /\ Acked(d, item, status).rows = d.rows /\ Acked(d, item, status).log = d.log
           /\ Acked(d, item, status).receipts = d.receipts
           /\ Acked(d, item, status).expected = d.expected
<1> DEFINE acks == Append(d.acks, [op |-> item.op, status |-> status])
<1>1. Acked(d, item, status) = [d EXCEPT !.acks = acks]
  BY DEF Acked
<1>2. acks \in Seq(Ack)
  <2>1. [op |-> item.op, status |-> status] \in Ack
    BY DEF Item, Ack
  <2> QED
    BY <2>1, DecisionParts
<1> HIDE DEF acks
<1>3. Acked(d, item, status) = [ok |-> d.ok, acks |-> acks, rows |-> d.rows, log |-> d.log,
                                receipts |-> d.receipts, expected |-> d.expected]
  BY <1>1 DEF Decision
<1>4. Acked(d, item, status) \in Decision
  BY <1>2, <1>3, DecisionParts DEF Decision
<1> QED
  BY <1>3, <1>4 DEF acks

LEMMA RecordedIs ==
    ASSUME NEW d \in Decision, NEW c \in Client, NEW item \in Item,
           NEW status \in {"applied", "rejected"}
    PROVE  /\ Recorded(d, c, item, status) \in Decision
           /\ Recorded(d, c, item, status).ok = d.ok
           /\ Recorded(d, c, item, status).acks =
                  Append(d.acks, [op |-> item.op, status |-> status])
           /\ Recorded(d, c, item, status).rows = d.rows
           /\ Recorded(d, c, item, status).log = d.log
           /\ Recorded(d, c, item, status).receipts = d.receipts \cup
                  {[op |-> item.op, dev |-> c, seq |-> item.seq, status |-> status]}
           /\ Recorded(d, c, item, status).expected = d.expected + 1
<1> DEFINE a == Acked(d, item, status)
           told == d.receipts \cup
                       {[op |-> item.op, dev |-> c, seq |-> item.seq, status |-> status]}
<1>1. /\ a \in Decision /\ a.ok = d.ok
      /\ a.acks = Append(d.acks, [op |-> item.op, status |-> status])
      /\ a.rows = d.rows /\ a.log = d.log /\ a.receipts = d.receipts /\ a.expected = d.expected
  <2>1. status \in {"applied", "rejected", "already_processed"}
    OBVIOUS
  <2> QED
    BY <2>1, AckedIs
<1>2. Recorded(d, c, item, status) = [a EXCEPT !.expected = a.expected + 1,
              !.receipts = a.receipts \cup
                  {[op |-> item.op, dev |-> c, seq |-> item.seq, status |-> status]}]
  BY DEF Recorded
<1>3. told \in SUBSET Receipt
  <2>1. [op |-> item.op, dev |-> c, seq |-> item.seq, status |-> status] \in Receipt
    BY DEF Item, Receipt
  <2> QED
    BY <2>1, DecisionParts
<1> HIDE DEF a
<1>4. Recorded(d, c, item, status) = [a EXCEPT !.expected = d.expected + 1, !.receipts = told]
  BY <1>1, <1>2
<1>5. d.expected + 1 \in Nat
  BY DecisionParts
<1> HIDE DEF told
<1>6. Recorded(d, c, item, status) =
         [ok |-> a.ok, acks |-> a.acks, rows |-> a.rows, log |-> a.log,
          receipts |-> told, expected |-> d.expected + 1]
  BY <1>1, <1>4 DEF Decision
<1>7. Recorded(d, c, item, status) \in Decision
  BY <1>1, <1>3, <1>5, <1>6, DecisionParts DEF Decision
<1> QED
  BY <1>1, <1>6, <1>7 DEF told

\* An operation that is accepted, with its change.
Taken(d, c, item) ==
    [Recorded(d, c, item, "applied") EXCEPT
        !.rows = ApplyMutation(@, Content[item.op], Len(d.log) + 1),
        !.log = Append(@, [op |-> item.op, dev |-> c, seq |-> item.seq])]

LEMMA TakenIs ==
    ASSUME NEW d \in Decision, NEW c \in Client, NEW item \in Item,
           Accepts(d.rows, Content[item.op])
    PROVE  /\ Taken(d, c, item) \in Decision /\ Taken(d, c, item).ok = d.ok
           /\ Taken(d, c, item).acks = Append(d.acks, [op |-> item.op, status |-> "applied"])
           /\ Taken(d, c, item).rows = ApplyMutation(d.rows, Content[item.op], Len(d.log) + 1)
           /\ Taken(d, c, item).log = Append(d.log, [op |-> item.op, dev |-> c, seq |-> item.seq])
           /\ Taken(d, c, item).receipts = d.receipts \cup
                  {[op |-> item.op, dev |-> c, seq |-> item.seq, status |-> "applied"]}
           /\ Taken(d, c, item).expected = d.expected + 1
<1> DEFINE r == Recorded(d, c, item, "applied")
           rws == ApplyMutation(d.rows, Content[item.op], Len(d.log) + 1)
           lg == Append(d.log, [op |-> item.op, dev |-> c, seq |-> item.seq])
           x == Taken(d, c, item)
<1>1. /\ r \in Decision /\ r.ok = d.ok
      /\ r.acks = Append(d.acks, [op |-> item.op, status |-> "applied"])
      /\ r.rows = d.rows /\ r.log = d.log
      /\ r.receipts = d.receipts \cup
             {[op |-> item.op, dev |-> c, seq |-> item.seq, status |-> "applied"]}
      /\ r.expected = d.expected + 1
  BY RecordedIs
<1>2. x = [r EXCEPT !.rows = rws, !.log = lg]
  <2>1. x = [r EXCEPT !.rows = ApplyMutation(r.rows, Content[item.op], Len(d.log) + 1),
                      !.log = Append(r.log, [op |-> item.op, dev |-> c, seq |-> item.seq])]
    BY DEF Taken
  <2> HIDE DEF r
  <2> QED
    BY <1>1, <2>1
<1>3. rws \in Rows
  <2>1. Content[item.op] \in Mutation /\ Len(d.log) + 1 \in Nat /\ d.rows \in Rows
    BY ContentIs, DecisionParts DEF Item
  <2> QED
    BY <2>1, AppliedIs
<1>4. lg \in Seq(Change)
  <2>1. [op |-> item.op, dev |-> c, seq |-> item.seq] \in Change
    BY DEF Item, Change
  <2> QED
    BY <2>1, DecisionParts
<1> HIDE DEF r, rws, lg, x
<1>5. x = [ok |-> r.ok, acks |-> r.acks, rows |-> rws, log |-> lg,
           receipts |-> r.receipts, expected |-> r.expected]
  BY <1>1, <1>2 DEF Decision
<1>6. x \in Decision
  BY <1>1, <1>3, <1>4, <1>5, DecisionParts DEF Decision
<1>7. /\ x.ok = r.ok /\ x.acks = r.acks /\ x.rows = rws /\ x.log = lg
      /\ x.receipts = r.receipts /\ x.expected = r.expected
  BY <1>5
<1>8. x.rows = ApplyMutation(d.rows, Content[item.op], Len(d.log) + 1)
  BY <1>7 DEF rws
<1>9. x.log = Append(d.log, [op |-> item.op, dev |-> c, seq |-> item.seq])
  BY <1>7 DEF lg
<1> QED
  BY <1>1, <1>6, <1>7, <1>8, <1>9 DEF x

\* What a batch starts from.
Start(c) == [ok |-> TRUE, acks |-> <<>>, rows |-> rows, log |-> log,
             receipts |-> receipts, expected |-> mark[c] + 1]

DecisionTypes ==
    /\ rows \in Rows /\ log \in Seq(Change) /\ receipts \subseteq Receipt
    /\ mark \in [Client -> Nat]

LEMMA StartType ==
    ASSUME DecisionTypes, NEW c \in Client
    PROVE  Start(c) \in Decision
<1>1. mark[c] + 1 \in Nat /\ <<>> \in Seq(Ack) /\ receipts \in SUBSET Receipt
  BY DEF DecisionTypes
<1> QED
  BY <1>1 DEF Start, Decision, DecisionTypes

\* One operation, by the way it goes.
LEMMA DecideIs ==
    ASSUME receipts \subseteq Receipt, NEW c \in Client, NEW d \in Decision, NEW item \in Item
    PROVE  \/ ~ d.ok /\ Decide(c, d, item) = d
           \/ /\ d.ok
              /\ \E r \in receipts : Retries(c, item, r) /\ Decide(c, d, item) = Acked(d, item, r.status)
           \/ /\ d.ok /\ \A r \in receipts : ~ Retries(c, item, r)
              /\ \E r \in receipts : Collides(c, item, r)
              /\ Decide(c, d, item) = [d EXCEPT !.ok = FALSE]
           \/ /\ d.ok /\ \A r \in receipts : ~ Retries(c, item, r)
              /\ Covered(c, item) /\ Decide(c, d, item) = Acked(d, item, "already_processed")
           \/ /\ d.ok /\ ~ Covered(c, item) /\ item.seq # d.expected
              /\ Decide(c, d, item) = [d EXCEPT !.ok = FALSE]
           \/ /\ d.ok /\ ~ Covered(c, item) /\ item.seq = d.expected
              /\ Decide(c, d, item) = Recorded(d, c, item, "rejected")
           \/ /\ d.ok /\ ~ Covered(c, item) /\ item.seq = d.expected
              /\ Accepts(d.rows, Content[item.op]) /\ Decide(c, d, item) = Taken(d, c, item)
<1> DEFINE again == \E r \in receipts : Retries(c, item, r)
           clash == \E r \in receipts : Collides(c, item, r)
           s == (CHOOSE r \in receipts : Retries(c, item, r)).status
<1>1. Decide(c, d, item) =
          IF ~ d.ok THEN d
          ELSE IF again THEN Acked(d, item, s)
          ELSE IF clash THEN [d EXCEPT !.ok = FALSE]
          ELSE IF Covered(c, item) THEN Acked(d, item, "already_processed")
          ELSE IF item.seq # d.expected THEN [d EXCEPT !.ok = FALSE]
          ELSE IF ~ Accepts(d.rows, Content[item.op]) THEN Recorded(d, c, item, "rejected")
          ELSE Taken(d, c, item)
  BY DEF Decide, Taken
<1>2. again => \E r \in receipts : Retries(c, item, r) /\ s = r.status
  OBVIOUS
<1>3. ~ again => \A r \in receipts : ~ Retries(c, item, r)
  OBVIOUS
<1>4. d.ok \in BOOLEAN
  BY DecisionParts
<1> HIDE DEF s, again
<1> QED
  BY <1>1, <1>2, <1>3, <1>4, Zenon

LEMMA DecideType ==
    ASSUME receipts \subseteq Receipt, NEW c \in Client, NEW d \in Decision, NEW item \in Item
    PROVE  Decide(c, d, item) \in Decision
<1>1. [d EXCEPT !.ok = FALSE] \in Decision
  BY DEF Decision
<1>2. \A r \in receipts : Acked(d, item, r.status) \in Decision
  <2> TAKE r \in receipts
  <2>1. r.status \in {"applied", "rejected", "already_processed"}
    BY DEF Receipt
  <2> QED
    BY <2>1, AckedIs
<1>3. Acked(d, item, "already_processed") \in Decision
  BY AckedIs
<1>4. Recorded(d, c, item, "rejected") \in Decision
  BY RecordedIs
<1>5. Accepts(d.rows, Content[item.op]) => Taken(d, c, item) \in Decision
  BY TakenIs
<1> QED
  BY <1>1, <1>2, <1>3, <1>4, <1>5, DecideIs

\* f is what the service holds after each operation of the batch.
Deciding(f, c, batch) ==
    /\ f \in [0..Len(batch) -> Decision] /\ f[0] = Start(c) /\ Decided(c, batch) = f[Len(batch)]
    /\ \A n \in 1..Len(batch) : f[n] = Decide(c, f[n - 1], batch[n])

LEMMA DecidedIs ==
    ASSUME DecisionTypes, NEW c \in Client, NEW batch \in Seq(Item)
    PROVE  \E f : Deciding(f, c, batch)
<1> DEFINE N == Len(batch)
           step == [n \in 1..N |-> [d \in Decision |-> Decide(c, d, batch[n])]]
           Goes(r) == r = [n \in 0..N |-> IF n = 0 THEN Start(c) ELSE Decide(c, r[n - 1], batch[n])]
<1>1. N \in Nat /\ \A n \in 1..N : batch[n] \in Item
  OBVIOUS
<1>2. step \in [1..N -> [Decision -> Decision]]
  BY <1>1, DecideType DEF DecisionTypes
<1>3. \A n \in 1..N : \A d \in Decision : step[n][d] = Decide(c, d, batch[n])
  OBVIOUS
<1>4. Decided(c, batch) = (CHOOSE r : Goes(r))[N]
  BY DEF Decided, Start
<1>5. Start(c) \in Decision
  BY StartType
<1> HIDE DEF N, step
<1>6. PICK f : Stepwise(f, N, Decision, Start(c), step)
  BY <1>1, <1>2, <1>5, Recursion
<1>7. \A n \in 1..N : f[n] = Decide(c, f[n - 1], batch[n])
  <2> TAKE n \in 1..N
  <2>1. n - 1 \in 0..N
    BY <1>1
  <2> QED
    BY <1>3, <1>6, <2>1 DEF Stepwise
<1>8. Goes(f)
  <2>1. \A n \in 0..N : f[n] = IF n = 0 THEN Start(c) ELSE Decide(c, f[n - 1], batch[n])
    <3> TAKE n \in 0..N
    <3>1. n = 0 \/ n \in 1..N
      BY <1>1
    <3> QED
      BY <1>6, <1>7, <3>1 DEF Stepwise
  <2> QED
    BY <1>6, <2>1 DEF Stepwise
<1> DEFINE g == CHOOSE r : Goes(r)
<1>9. Goes(g)
  BY <1>8
<1> HIDE DEF g
<1>10. Follows(g, N, Decision, Start(c), step)
  <2>1. \A n \in 0..N : g[n] = IF n = 0 THEN Start(c) ELSE Decide(c, g[n - 1], batch[n])
    BY <1>9
  <2> QED
    BY <1>1, <1>3, <2>1 DEF Follows
<1>11. g[N] = f[N]
  <2>1. \A n \in 0..N : g[n] = f[n]
    BY <1>1, <1>6, <1>10, SameSteps
  <2> QED
    BY <1>1, <2>1
<1> QED
  BY <1>4, <1>6, <1>7, <1>11 DEF N, g, Deciding, Stepwise

\* x is one of the operations of c that have been decided since.
TakenUp(c, d, x) == IsOf(c, x) /\ x.dev = c /\ x.seq \in (mark[c] + 1)..(d.expected - 1)

InLog(d, op) == \E i \in DOMAIN d.log : d.log[i].op = op

LogGoesOn(c, d) ==
    /\ Len(log) <= Len(d.log) /\ \A i \in DOMAIN log : d.log[i] = log[i]
    /\ \A i \in (Len(log) + 1)..Len(d.log) : TakenUp(c, d, d.log[i])
    /\ \A i, j \in (Len(log) + 1)..Len(d.log) : i < j => d.log[i].seq < d.log[j].seq

ReceiptsGoOn(c, d) ==
    /\ receipts \subseteq d.receipts
    /\ \A r \in d.receipts \ receipts : TakenUp(c, d, r) /\ (r.status = "applied" => InLog(d, r.op))
    /\ \A s \in (mark[c] + 1)..(d.expected - 1) : \E r \in d.receipts : r.dev = c /\ r.seq = s

AckGoes(c, d, a) ==
    /\ \E s \in 1..(d.expected - 1) : a.op = issued[c][s]
    /\ ~ Forgets /\ a.status # "rejected" => InLog(d, a.op)

\* How things stand in the middle of a batch.
DecidedOK(c, d) ==
    /\ d \in Decision /\ d.ok /\ d.expected \in (mark[c] + 1)..(Len(issued[c]) + 1)
    /\ LogGoesOn(c, d) /\ ReceiptsGoOn(c, d)
    /\ \A i \in DOMAIN d.acks : AckGoes(c, d, d.acks[i])
    /\ RowsOK(d.rows, d.log) /\ Grows(rows, log, d.rows, d.log)

\* An operation that was decided before is only acknowledged.
LEMMA AckedOK ==
    ASSUME NEW c \in Client, NEW d, DecidedOK(c, d), NEW item \in Item,
           NEW status \in {"applied", "rejected", "already_processed"},
           AckGoes(c, d, [op |-> item.op, status |-> status])
    PROVE  DecidedOK(c, Acked(d, item, status)) /\ Acked(d, item, status).expected = d.expected
<1> DEFINE x == Acked(d, item, status)
           a == [op |-> item.op, status |-> status]
<1>1. d \in Decision /\ d.ok /\ d.acks \in Seq(Ack)
  BY DecisionParts DEF DecidedOK
<1>2. /\ x \in Decision /\ x.ok = d.ok /\ x.acks = Append(d.acks, a)
      /\ x.rows = d.rows /\ x.log = d.log /\ x.receipts = d.receipts /\ x.expected = d.expected
  BY <1>1, AckedIs
<1>3. a \in Ack
  BY DEF Item, Ack
<1> HIDE DEF x, a
<1>4. LogGoesOn(c, x) /\ ReceiptsGoOn(c, x) /\ \A b : AckGoes(c, d, b) => AckGoes(c, x, b)
  BY <1>2 DEF DecidedOK, LogGoesOn, ReceiptsGoOn, AckGoes, TakenUp, InLog
<1>5. ASSUME NEW i \in DOMAIN x.acks PROVE AckGoes(c, x, x.acks[i])
  <2>1. i \in 1..(Len(d.acks) + 1)
    BY <1>1, <1>2
  <2>2. CASE i = Len(d.acks) + 1
    <3>1. x.acks[i] = a
      BY <1>1, <1>2, <2>2
    <3> QED
      BY <1>4, <3>1 DEF a
  <2>3. CASE i # Len(d.acks) + 1
    <3>1. i \in DOMAIN d.acks /\ x.acks[i] = d.acks[i]
      BY <1>1, <1>2, <2>1, <2>3
    <3> QED
      BY <1>4, <3>1 DEF DecidedOK
  <2> QED
    BY <2>2, <2>3
<1>6. RowsOK(x.rows, x.log) /\ Grows(rows, log, x.rows, x.log)
  BY <1>2 DEF DecidedOK
<1>7. x.ok /\ x.expected \in (mark[c] + 1)..(Len(issued[c]) + 1)
  BY <1>1, <1>2 DEF DecidedOK
<1>8. DecidedOK(c, x) /\ x.expected = d.expected
  BY <1>2, <1>4, <1>5, <1>6, <1>7 DEF DecidedOK
<1> QED
  BY <1>8 DEF x

\* The next operation is decided: x is what the service holds then, with or
\* without a change.
LEMMA NextOK ==
    ASSUME NumbersOK, NEW c \in Client, NEW d, DecidedOK(c, d), NEW item \in Item,
           IsOf(c, item), item.seq = d.expected,
           NEW status \in {"applied", "rejected"}, NEW x \in Decision, x.ok,
           x.acks = Append(d.acks, [op |-> item.op, status |-> status]),
           x.receipts = d.receipts \cup
               {[op |-> item.op, dev |-> c, seq |-> item.seq, status |-> status]},
           x.expected = d.expected + 1,
           \/ status = "rejected" /\ x.log = d.log
           \/ x.log = Append(d.log, [op |-> item.op, dev |-> c, seq |-> item.seq]),
           RowsOK(x.rows, x.log), Grows(rows, log, x.rows, x.log)
    PROVE  DecidedOK(c, x)
<1> DEFINE a == [op |-> item.op, status |-> status]
           r == [op |-> item.op, dev |-> c, seq |-> item.seq, status |-> status]
           ch == [op |-> item.op, dev |-> c, seq |-> item.seq]
<1>1. /\ d \in Decision /\ d.acks \in Seq(Ack) /\ d.log \in Seq(Change)
      /\ d.expected \in Nat /\ d.expected \in (mark[c] + 1)..(Len(issued[c]) + 1)
      /\ log \in Seq(Change) => Len(log) \in Nat
  BY DecisionParts DEF DecidedOK
<1>2. mark[c] \in Nat /\ Len(issued[c]) \in Nat /\ issued[c] \in Seq(OpId)
  BY DEF NumbersOK
<1>3. a \in Ack /\ ch \in Change
  BY DEF Item, Ack, Change
<1>4. x.expected \in (mark[c] + 1)..(Len(issued[c]) + 1)
  BY <1>1, <1>2 DEF IsOf
<1>5. \A y : TakenUp(c, d, y) => TakenUp(c, x, y)
  BY <1>1, <1>2 DEF TakenUp
<1>6. TakenUp(c, x, r) /\ TakenUp(c, x, ch)
  <2>1. item.seq \in (mark[c] + 1)..(x.expected - 1)
    BY <1>1, <1>2
  <2> QED
    BY <2>1 DEF TakenUp, IsOf
<1>7. /\ x.log \in Seq(Change) /\ \A i \in DOMAIN d.log : i \in DOMAIN x.log /\ x.log[i] = d.log[i]
      /\ Len(d.log) <= Len(x.log)
      /\ \A i \in DOMAIN x.log : i \notin DOMAIN d.log =>
             i = Len(d.log) + 1 /\ x.log[i] = ch /\ x.log = Append(d.log, ch)
      /\ status = "applied" => x.log = Append(d.log, ch)
  <2> HIDE DEF ch
  <2>1. x.log = d.log \/ x.log = Append(d.log, ch)
    BY DEF ch
  <2>2. status = "applied" => x.log = Append(d.log, ch)
    BY DEF ch
  <2>3. CASE x.log = d.log
    BY <1>1, <2>2, <2>3
  <2>4. CASE x.log = Append(d.log, ch)
    BY <1>1, <1>3, <2>4
  <2> QED
    BY <2>1, <2>3, <2>4
<1>8. \A op : InLog(d, op) => InLog(x, op)
  BY <1>7 DEF InLog
<1>9. status = "applied" => InLog(x, item.op)
  <2> SUFFICES ASSUME status = "applied" PROVE InLog(x, item.op)
    OBVIOUS
  <2>1. Len(d.log) + 1 \in DOMAIN x.log /\ x.log[Len(d.log) + 1] = ch
    BY <1>1, <1>3, <1>7
  <2> QED
    BY <2>1 DEF InLog
<1>10. LogGoesOn(c, x)
  <2>1. /\ LogGoesOn(c, d) /\ Len(d.log) \in Nat /\ Len(x.log) \in Nat
        /\ \A i \in (Len(log) + 1)..Len(d.log) : TakenUp(c, d, d.log[i])
    BY <1>1, <1>7 DEF DecidedOK, LogGoesOn
  <2>2. Len(log) \in Nat /\ Len(log) <= Len(d.log) /\ \A i \in DOMAIN log : i \in DOMAIN d.log
    BY <2>1, <1>1 DEF LogGoesOn, DecidedOK, DecisionTypes
  <2>3. Len(log) <= Len(x.log) /\ \A i \in DOMAIN log : x.log[i] = log[i]
    BY <1>7, <2>1, <2>2 DEF LogGoesOn
  <2>4. ASSUME NEW i \in (Len(log) + 1)..Len(x.log) PROVE TakenUp(c, x, x.log[i])
    <3>1. i \in DOMAIN x.log
      BY <1>7, <2>1, <2>2
    <3>2. CASE i \in DOMAIN d.log
      <4>1. i \in (Len(log) + 1)..Len(d.log) /\ x.log[i] = d.log[i]
        BY <1>1, <1>7, <2>1, <2>2, <3>2
      <4> QED
        BY <1>5, <2>1, <4>1
    <3>3. CASE i \notin DOMAIN d.log
      BY <1>6, <1>7, <3>1, <3>3
    <3> QED
      BY <3>2, <3>3
  <2>5. ASSUME NEW i \in (Len(log) + 1)..Len(x.log), NEW j \in (Len(log) + 1)..Len(x.log), i < j
        PROVE  x.log[i].seq < x.log[j].seq
    <3>1. i \in DOMAIN d.log /\ i \in (Len(log) + 1)..Len(d.log) /\ j \in DOMAIN x.log
      BY <1>1, <1>7, <2>1, <2>2, <2>5
    <3>2. x.log[i] = d.log[i] /\ TakenUp(c, d, d.log[i])
      BY <1>7, <2>1, <3>1
    <3>3. CASE j \in DOMAIN d.log
      <4>1. j \in (Len(log) + 1)..Len(d.log) /\ x.log[j] = d.log[j]
        BY <1>1, <1>7, <2>1, <2>2, <3>3
      <4> QED
        BY <2>1, <2>5, <3>1, <3>2, <4>1 DEF LogGoesOn
    <3>4. CASE j \notin DOMAIN d.log
      <4>1. x.log[j].seq = d.expected
        BY <1>7, <3>1, <3>4
      <4>2. x.log[i].seq \in (mark[c] + 1)..(d.expected - 1)
        BY <3>2 DEF TakenUp
      <4> QED
        BY <1>1, <1>2, <4>1, <4>2
    <3> QED
      BY <3>3, <3>4
  <2> QED
    BY <2>3, <2>4, <2>5 DEF LogGoesOn
<1>11. ReceiptsGoOn(c, x)
  <2>1. ReceiptsGoOn(c, d) /\ x.receipts = d.receipts \cup {r}
    BY DEF DecidedOK
  <2>2. ASSUME NEW y \in x.receipts \ receipts
        PROVE  TakenUp(c, x, y) /\ (y.status = "applied" => InLog(x, y.op))
    <3>1. CASE y \in d.receipts
      BY <1>5, <1>8, <2>1, <3>1 DEF ReceiptsGoOn
    <3>2. CASE y = r
      BY <1>6, <1>9, <3>2
    <3> QED
      BY <2>1, <3>1, <3>2
  <2>3. ASSUME NEW s \in (mark[c] + 1)..(x.expected - 1)
        PROVE  \E y \in x.receipts : y.dev = c /\ y.seq = s
    <3>1. CASE s \in (mark[c] + 1)..(d.expected - 1)
      BY <2>1, <3>1 DEF ReceiptsGoOn
    <3>2. CASE s = d.expected
      <4>1. r.dev = c /\ r.seq = s /\ r \in x.receipts
        BY <2>1, <3>2
      <4> QED
        BY <4>1
    <3>3. s \in (mark[c] + 1)..(d.expected - 1) \/ s = d.expected
      BY <1>1, <1>2
    <3> QED
      BY <3>1, <3>2, <3>3
  <2> QED
    BY <2>1, <2>2, <2>3 DEF ReceiptsGoOn
<1>12. ASSUME NEW i \in DOMAIN x.acks PROVE AckGoes(c, x, x.acks[i])
  <2>0. x.acks = Append(d.acks, a)
    OBVIOUS
  <2>1. i \in 1..(Len(d.acks) + 1)
    BY <1>1, <2>0
  <2>2. CASE i = Len(d.acks) + 1
    <3>1. x.acks[i] = a
      <4> HIDE DEF a
      <4> QED
        BY <1>1, <1>3, <2>0, <2>2
    <3>2. item.seq \in 1..(x.expected - 1) /\ a.op = issued[c][item.seq]
      BY <1>1, <1>2 DEF IsOf
    <3>3. a.status # "rejected" => InLog(x, a.op)
      BY <1>9
    <3> QED
      BY <3>1, <3>2, <3>3 DEF AckGoes
  <2>3. CASE i # Len(d.acks) + 1
    <3>1. i \in DOMAIN d.acks /\ x.acks[i] = d.acks[i]
      <4> HIDE DEF a
      <4> QED
        BY <1>1, <1>3, <2>0, <2>1, <2>3
    <3>2. AckGoes(c, d, d.acks[i])
      BY <3>1 DEF DecidedOK
    <3>3. \A s \in 1..(d.expected - 1) : s \in 1..(x.expected - 1)
      BY <1>1
    <3> QED
      BY <1>8, <3>1, <3>2, <3>3 DEF AckGoes
  <2> QED
    BY <2>2, <2>3
<1> QED
  BY <1>4, <1>10, <1>11, <1>12 DEF DecidedOK

\* An operation has one number.
LEMMA SameOp ==
    ASSUME NumbersOK, NEW c \in Client, NEW d \in Client, NEW x, NEW y, IsOf(c, x), IsOf(d, y),
           x.op = y.op
    PROVE  c = d /\ x.seq = y.seq
<1>1. x.seq \in DOMAIN issued[c] /\ y.seq \in DOMAIN issued[d]
  BY DEF NumbersOK, IsOf
<1>2. issued[c][x.seq] = issued[d][y.seq]
  BY DEF IsOf
<1> QED
  BY <1>1, <1>2 DEF NumbersOK, IdsAreFresh

\* One item of a batch after the other.
LEMMA BatchSteps ==
    ASSUME NEW c \in Client, NEW batch, BatchOK(c, batch), NEW n \in 1..Len(batch)
    PROVE  /\ batch[n] \in Item /\ batch[n].seq \in Nat
           /\ n = 1 => ~ (batch[n].seq > mark[c] + 1)
           /\ n # 1 => /\ n - 1 \in 1..Len(batch) /\ batch[n - 1].seq \in Nat
                       /\ batch[n - 1].seq < batch[n].seq
                       /\ batch[n].seq > mark[c] + 1 => batch[n - 1].seq = batch[n].seq - 1
<1>1. /\ batch \in Seq(Item) /\ n \in DOMAIN batch
      /\ \A i \in DOMAIN batch : batch[i] \in Item /\ batch[i].seq \in Nat
  <2>1. batch \in Seq(Item)
    BY DEF BatchOK
  <2>2. \A x \in Item : x.seq \in Nat
    BY DEF Item
  <2> QED
    BY <2>1, <2>2
<1>2. batch[n].seq > mark[c] + 1 => n > 1 /\ batch[n - 1].seq = batch[n].seq - 1
  BY <1>1 DEF BatchOK
<1>3. n # 1 => n - 1 \in DOMAIN batch /\ n - 1 < n
  BY <1>1
<1>4. n # 1 => batch[n - 1].seq < batch[n].seq
  BY <1>1, <1>3 DEF BatchOK
<1>5. DOMAIN batch = 1..Len(batch)
  BY <1>1
<1> QED
  BY <1>1, <1>2, <1>3, <1>4, <1>5

\* An operation of a batch: it was decided before, or it is the next one.
LEMMA DecideOK ==
    ASSUME NumbersOK, DecisionsOK, ReceiptsOK, NEW c \in Client, NEW d, DecidedOK(c, d),
           NEW item \in Item, IsOf(c, item), item.seq <= mark[c] \/ item.seq = d.expected
    PROVE  /\ DecidedOK(c, Decide(c, d, item))
           /\ Decide(c, d, item).expected =
                  IF item.seq <= mark[c] THEN d.expected ELSE item.seq + 1
<1> DEFINE x == Decide(c, d, item)
<1>1. /\ d \in Decision /\ d.ok /\ d.expected \in Nat /\ d.log \in Seq(Change) /\ d.rows \in Rows
      /\ d.expected \in (mark[c] + 1)..(Len(issued[c]) + 1)
  BY DecisionParts DEF DecidedOK
<1>2. /\ mark[c] \in Nat /\ item.seq \in Nat /\ item.op \in OpId /\ item.seq >= 1
      /\ Covered(c, item) <=> item.seq <= mark[c]
  BY DEF NumbersOK, Item, Covered, IsOf
<1>3. \A r \in receipts : IsOf(r.dev, r) /\ r.dev \in Client /\ r.seq <= mark[r.dev]
                          /\ r.status \in {"applied", "rejected"}
  BY DEF DecisionsOK, IsDecided, Receipt
<1>4. \A r \in receipts : ~ Collides(c, item, r)
  <2> SUFFICES ASSUME NEW r \in receipts, Collides(c, item, r) PROVE FALSE
    OBVIOUS
  <2>1. r.op # item.op \/ (r.dev = c /\ r.seq = item.seq)
    BY <1>3, SameOp
  <2>2. r.dev = c /\ r.seq = item.seq => r.op = item.op
    BY <1>3 DEF IsOf
  <2> QED
    BY <2>1, <2>2 DEF Collides, Retries
<1>5. ASSUME NEW r \in receipts, Retries(c, item, r), x = Acked(d, item, r.status)
      PROVE  DecidedOK(c, x) /\ x.expected = IF item.seq <= mark[c] THEN d.expected ELSE item.seq + 1
  <2>1. item.seq <= mark[c] /\ r.op = item.op /\ r.status \in {"applied", "rejected"}
    BY <1>3, <1>5 DEF Retries
  <2>2. r.status = "applied" => InLog(d, item.op)
    <3> SUFFICES ASSUME r.status = "applied" PROVE InLog(d, item.op)
      OBVIOUS
    <3>1. PICK i \in DOMAIN log : log[i].op = item.op
      BY <2>1 DEF DecisionsOK, Applied
    <3>2. i \in DOMAIN d.log /\ d.log[i] = log[i]
      BY <1>1, <3>1 DEF DecidedOK, LogGoesOn, DecisionsOK
    <3> QED
      BY <3>1, <3>2 DEF InLog
  <2> DEFINE a == [op |-> item.op, status |-> r.status]
  <2>3. AckGoes(c, d, a)
    <3>1. item.seq \in 1..(d.expected - 1) /\ a.op = issued[c][item.seq]
      BY <1>1, <1>2, <2>1 DEF IsOf
    <3>2. a.status # "rejected" => InLog(d, a.op)
      BY <2>1, <2>2
    <3> QED
      BY <3>1, <3>2 DEF AckGoes
  <2>4. r.status \in {"applied", "rejected", "already_processed"}
    BY <2>1
  <2>5. DecidedOK(c, Acked(d, item, r.status)) /\ Acked(d, item, r.status).expected = d.expected
    BY <2>3, <2>4, AckedOK
  <2> HIDE DEF x
  <2> QED
    BY <1>5, <2>1, <2>5
<1>6. ASSUME \A r \in receipts : ~ Retries(c, item, r), Covered(c, item),
             x = Acked(d, item, "already_processed")
      PROVE  DecidedOK(c, x) /\ x.expected = IF item.seq <= mark[c] THEN d.expected ELSE item.seq + 1
  <2>1. item.seq <= mark[c] /\ item.seq \in 1..mark[c]
    BY <1>2, <1>6
  <2>2. Forgets
    <3> SUFFICES ASSUME ~ Forgets PROVE FALSE
      OBVIOUS
    <3>1. PICK r \in receipts : r.dev = c /\ r.seq = item.seq
      BY <2>1 DEF ReceiptsOK
    <3>2. r.op = item.op
      BY <1>3, <3>1 DEF IsOf
    <3> QED
      BY <1>6, <3>1, <3>2 DEF Retries
  <2> DEFINE a == [op |-> item.op, status |-> "already_processed"]
  <2>3. AckGoes(c, d, a)
    <3>1. item.seq \in 1..(d.expected - 1) /\ a.op = issued[c][item.seq]
      BY <1>1, <1>2, <2>1 DEF IsOf
    <3> QED
      BY <2>2, <3>1 DEF AckGoes
  <2>4. /\ DecidedOK(c, Acked(d, item, "already_processed"))
        /\ Acked(d, item, "already_processed").expected = d.expected
    BY <2>3, AckedOK
  <2> HIDE DEF x
  <2> QED
    BY <1>6, <2>1, <2>4
<1>7. ASSUME ~ Covered(c, item), x = Recorded(d, c, item, "rejected")
      PROVE  DecidedOK(c, x) /\ x.expected = IF item.seq <= mark[c] THEN d.expected ELSE item.seq + 1
  <2>1. ~ (item.seq <= mark[c]) /\ item.seq = d.expected
    BY <1>2, <1>7
  <2> DEFINE y == Recorded(d, c, item, "rejected")
  <2>2. /\ y \in Decision /\ y.ok = d.ok
        /\ y.acks = Append(d.acks, [op |-> item.op, status |-> "rejected"])
        /\ y.rows = d.rows /\ y.log = d.log
        /\ y.receipts = d.receipts \cup
               {[op |-> item.op, dev |-> c, seq |-> item.seq, status |-> "rejected"]}
        /\ y.expected = d.expected + 1
    BY <1>1, RecordedIs
  <2> HIDE DEF x, y
  <2>3. RowsOK(y.rows, y.log) /\ Grows(rows, log, y.rows, y.log)
    BY <2>2 DEF DecidedOK
  <2>4. y.ok
    BY <1>1, <2>2
  <2>5. DecidedOK(c, y)
    BY <2>1, <2>2, <2>3, <2>4, NextOK
  <2>6. x = y
    BY <1>7 DEF y
  <2> QED
    BY <2>1, <2>2, <2>5, <2>6
<1>8. ASSUME ~ Covered(c, item), Accepts(d.rows, Content[item.op]), x = Taken(d, c, item)
      PROVE  DecidedOK(c, x) /\ x.expected = IF item.seq <= mark[c] THEN d.expected ELSE item.seq + 1
  <2>1. ~ (item.seq <= mark[c]) /\ item.seq = d.expected
    BY <1>2, <1>8
  <2> DEFINE ch == [op |-> item.op, dev |-> c, seq |-> item.seq]
  <2> DEFINE y == Taken(d, c, item)
  <2>2. /\ y \in Decision /\ y.ok = d.ok
        /\ y.acks = Append(d.acks, [op |-> item.op, status |-> "applied"])
        /\ y.rows = ApplyMutation(d.rows, Content[item.op], Len(d.log) + 1)
        /\ y.log = Append(d.log, ch)
        /\ y.receipts = d.receipts \cup
               {[op |-> item.op, dev |-> c, seq |-> item.seq, status |-> "applied"]}
        /\ y.expected = d.expected + 1
    <3>1. d \in Decision /\ Accepts(d.rows, Content[item.op])
      BY <1>1, <1>8
    <3> QED
      BY <3>1, TakenIs
  <2> HIDE DEF x, y
  <2>3. ch \in Change /\ Content[ch.op] = Content[item.op]
    BY <1>2 DEF Change
  <2>4. RowsOK(y.rows, y.log) /\ Grows(rows, log, y.rows, y.log)
    <3> HIDE DEF ch
    <3>1. RowsOK(d.rows, d.log) /\ Grows(rows, log, d.rows, d.log)
      BY DEF DecidedOK
    <3>2. Accepts(d.rows, Content[ch.op])
      BY <1>8, <2>3
    <3>3. RowsOK(ApplyMutation(d.rows, Content[ch.op], Len(d.log) + 1), Append(d.log, ch))
      BY <2>3, <3>1, <3>2, RowsNext
    <3>4. Grows(d.rows, d.log, ApplyMutation(d.rows, Content[ch.op], Len(d.log) + 1), Append(d.log, ch))
      BY <1>1, <2>3, <3>2, LeadsNext
    <3> QED
      BY <2>2, <2>3, <3>1, <3>3, <3>4 DEF Grows
  <2>5. y.ok
    BY <1>1, <2>2
  <2>6. DecidedOK(c, y)
    BY <2>1, <2>2, <2>4, <2>5, NextOK
  <2>7. x = y
    BY <1>8 DEF y
  <2> QED
    BY <2>1, <2>2, <2>6, <2>7
<1>9. receipts \subseteq Receipt
  BY DEF DecisionsOK
<1>10. \/ \E r \in receipts : Retries(c, item, r) /\ x = Acked(d, item, r.status)
       \/ /\ \A r \in receipts : ~ Retries(c, item, r)
          /\ Covered(c, item) /\ x = Acked(d, item, "already_processed")
       \/ ~ Covered(c, item) /\ x = Recorded(d, c, item, "rejected")
       \/ ~ Covered(c, item) /\ Accepts(d.rows, Content[item.op]) /\ x = Taken(d, c, item)
  <2>1. Covered(c, item) \/ item.seq = d.expected
    BY <1>2
  <2> HIDE DEF x
  <2> QED
    BY <1>1, <1>4, <1>9, <2>1, DecideIs DEF x
<1> HIDE DEF x
<1>11. DecidedOK(c, x) /\ x.expected = IF item.seq <= mark[c] THEN d.expected ELSE item.seq + 1
  BY <1>5, <1>6, <1>7, <1>8, <1>10
<1> QED
  BY <1>11 DEF x

\* A batch in order is decided to its end.
LEMMA BatchDecided ==
    ASSUME NumbersOK, DecisionsOK, ReceiptsOK, RowsOK(rows, log), NEW c \in Client,
           NEW batch, BatchOK(c, batch)
    PROVE  DecidedOK(c, Decided(c, batch))
<1>1. DecisionTypes
  BY DEF DecisionTypes, RowsOK, DecisionsOK, NumbersOK
<1>2. batch \in Seq(Item) /\ Len(batch) \in Nat
  BY DEF BatchOK
<1>3. PICK f : Deciding(f, c, batch)
  BY <1>1, <1>2, DecidedIs
<1>4. mark[c] \in Nat /\ mark[c] \in 0..Len(issued[c]) /\ Len(issued[c]) \in Nat
  BY DEF NumbersOK, OutboxOK
<1> DEFINE Good(n) == /\ DecidedOK(c, f[n])
                      /\ f[n].expected = IF n = 0 \/ batch[n].seq <= mark[c]
                                         THEN mark[c] + 1 ELSE batch[n].seq + 1
           G == {n \in 0..Len(batch) : Good(n)}
<1>5. 0 \in G
  <2>1. f[0] = Start(c) /\ Start(c) \in Decision
    BY <1>1, <1>3, StartType DEF Deciding
  <2> DEFINE s == Start(c)
  <2>2. /\ s.ok /\ s.acks = <<>> /\ s.rows = rows /\ s.log = log /\ s.receipts = receipts
        /\ s.expected = mark[c] + 1
    BY DEF Start
  <2> HIDE DEF s
  <2>3. s.expected \in (mark[c] + 1)..(Len(issued[c]) + 1)
    BY <1>4, <2>2
  <2>4. LogGoesOn(c, s) /\ ReceiptsGoOn(c, s)
    <3>1. log \in Seq(Change) /\ Len(log) \in Nat
      BY <1>1 DEF DecisionTypes
    <3>2. \A s0 \in (mark[c] + 1)..(s.expected - 1) : FALSE
      BY <1>4, <2>2
    <3>3. \A i \in (Len(log) + 1)..Len(s.log) : FALSE
      BY <2>2, <3>1
    <3> QED
      BY <2>2, <3>1, <3>2, <3>3 DEF LogGoesOn, ReceiptsGoOn
  <2>5. RowsOK(s.rows, s.log) /\ Grows(rows, log, s.rows, s.log)
    BY <2>2 DEF Grows
  <2>6. s \in Decision
    BY <2>1 DEF s
  <2>7. \A i \in DOMAIN s.acks : FALSE
    BY <2>2
  <2>8. DecidedOK(c, s)
    BY <2>2, <2>3, <2>4, <2>5, <2>6, <2>7 DEF DecidedOK
  <2>9. Good(0)
    BY <2>1, <2>2, <2>8 DEF s
  <2> HIDE DEF Good
  <2> QED
    BY <1>2, <2>9
<1>6. ASSUME NEW n \in 1..Len(batch), n - 1 \in G PROVE n \in G
  <2>1. n - 1 \in 0..Len(batch) /\ Good(n - 1) /\ batch[n] \in Item /\ n \in 0..Len(batch)
    BY <1>2, <1>6
  <2> DEFINE d == f[n - 1]
             item == batch[n]
  <2>2. IsOf(c, item) /\ item.seq \in Nat
    BY <1>2, <2>1 DEF BatchOK, Item
  <2>3. DecidedOK(c, d)
    BY <2>1
  <2>4. item.seq <= mark[c] => d.expected = mark[c] + 1
    <3>1. CASE n = 1
      BY <2>1, <3>1
    <3>2. CASE n # 1
      <4>1. batch[n - 1].seq < item.seq /\ batch[n - 1].seq \in Nat
        BY <3>2, BatchSteps
      <4> QED
        BY <1>4, <2>1, <2>2, <4>1
    <3> QED
      BY <3>1, <3>2
  <2>5. item.seq <= mark[c] \/ item.seq = d.expected
    <3> SUFFICES ASSUME ~ (item.seq <= mark[c]) PROVE item.seq = d.expected
      OBVIOUS
    <3>1. CASE item.seq = mark[c] + 1
      <4>1. n - 1 = 0 \/ batch[n - 1].seq <= mark[c]
        <5>1. CASE n - 1 # 0
          <6>1. batch[n - 1].seq < item.seq /\ batch[n - 1].seq \in Nat
            BY <5>1, BatchSteps
          <6> QED
            BY <1>4, <3>1, <6>1
        <5> QED
          BY <5>1
      <4> QED
        BY <2>1, <3>1, <4>1
    <3>2. CASE item.seq # mark[c] + 1
      <4>1. n # 1 /\ batch[n - 1].seq = item.seq - 1
        <5>1. item.seq > mark[c] + 1
          BY <1>4, <2>2, <3>2
        <5> QED
          BY <5>1, BatchSteps
      <4> QED
        BY <1>4, <2>1, <2>2, <3>2, <4>1
    <3> QED
      BY <3>1, <3>2
  <2>6. f[n] = Decide(c, d, item)
    BY <1>3 DEF Deciding
  <2> HIDE DEF d, item
  <2>7. /\ DecidedOK(c, Decide(c, d, item))
        /\ Decide(c, d, item).expected = IF item.seq <= mark[c] THEN d.expected ELSE item.seq + 1
    BY <2>1, <2>2, <2>3, <2>5, DecideOK DEF item
  <2>8. Good(n)
    BY <1>2, <2>4, <2>6, <2>7 DEF item
  <2> HIDE DEF Good
  <2> QED
    BY <2>1, <2>8
<1> HIDE DEF G
<1>7. \A n \in 0..Len(batch) : n \in G
  BY <1>2, <1>5, <1>6, UpTo
<1>8. Len(batch) \in 0..Len(batch)
  BY <1>2
<1> QED
  BY <1>3, <1>7, <1>8 DEF G, Deciding

----------------------------------------------------------------------------
(* What a device sends. *)

\* f is what is kept of the first elements.
Filtering(f, seq, S, A) ==
    /\ f \in [0..Len(seq) -> Seq(A)] /\ f[0] = <<>> /\ Filter(seq, S) = f[Len(seq)]
    /\ \A n \in 1..Len(seq) :
          f[n] = IF seq[n] \in S THEN Append(f[n - 1], seq[n]) ELSE f[n - 1]

LEMMA FilterIs ==
    ASSUME NEW A, NEW seq \in Seq(A), NEW S
    PROVE  \E f : Filtering(f, seq, S, A)
<1> DEFINE N == Len(seq)
           KeptOf(q, n) == IF seq[n] \in S THEN Append(q, seq[n]) ELSE q
           step == [n \in 1..N |-> [q \in Seq(A) |-> KeptOf(q, n)]]
           Goes(r) == r = [n \in 0..N |-> IF n = 0 THEN <<>>
                                          ELSE IF seq[n] \in S THEN Append(r[n - 1], seq[n])
                                          ELSE r[n - 1]]
<1>1. N \in Nat /\ \A n \in 1..N : seq[n] \in A
  OBVIOUS
<1>2. step \in [1..N -> [Seq(A) -> Seq(A)]]
  <2>1. ASSUME NEW n \in 1..N, NEW q \in Seq(A) PROVE KeptOf(q, n) \in Seq(A)
    BY <1>1
  <2> HIDE DEF KeptOf
  <2> QED
    BY <2>1
<1>3. \A n \in 1..N : \A q \in Seq(A) : step[n][q] = KeptOf(q, n)
  <2> HIDE DEF KeptOf
  <2> QED
    OBVIOUS
<1>4. Filter(seq, S) = (CHOOSE r : Goes(r))[N]
  BY DEF Filter
<1>5. <<>> \in Seq(A)
  OBVIOUS
<1> HIDE DEF N, step
<1> DEFINE none == <<>>
<1>12. none \in Seq(A)
  BY <1>5
<1>13. \A r : Goes(r) => \A n \in 0..N : r[n] = IF n = 0 THEN none ELSE KeptOf(r[n - 1], n)
  OBVIOUS
<1>14. \A r : r \in [0..N -> Seq(A)] /\ (\A n \in 0..N : r[n] = IF n = 0 THEN none ELSE KeptOf(r[n - 1], n))
              => Goes(r)
  OBVIOUS
<1> HIDE DEF none, KeptOf, Goes
<1>6. PICK f : Stepwise(f, N, Seq(A), none, step)
  BY <1>1, <1>2, <1>12, Recursion
<1>7. \A n \in 1..N : f[n] = KeptOf(f[n - 1], n)
  <2> TAKE n \in 1..N
  <2>1. n - 1 \in 0..N
    BY <1>1
  <2> QED
    BY <1>3, <1>6, <2>1 DEF Stepwise
<1>8. Goes(f)
  <2>1. ASSUME NEW n \in 0..N PROVE f[n] = IF n = 0 THEN none ELSE KeptOf(f[n - 1], n)
    <3>1. n = 0 \/ n \in 1..N
      BY <1>1
    <3> QED
      BY <1>6, <1>7, <3>1 DEF Stepwise
  <2> QED
    BY <1>6, <1>14, <2>1 DEF Stepwise
<1> DEFINE g == CHOOSE r : Goes(r)
<1>9. Goes(g)
  BY <1>8
<1> HIDE DEF g
<1>10. Follows(g, N, Seq(A), none, step)
  <2>1. \A n \in 0..N : g[n] = IF n = 0 THEN none ELSE KeptOf(g[n - 1], n)
    BY <1>9, <1>13
  <2> QED
    BY <1>1, <1>3, <2>1 DEF Follows
<1>11. g[N] = f[N]
  <2>1. \A n \in 0..N : g[n] = f[n]
    BY <1>1, <1>6, <1>10, SameSteps
  <2> QED
    BY <1>1, <2>1
<1>15. \A n \in 1..N : f[n] = IF seq[n] \in S THEN Append(f[n - 1], seq[n]) ELSE f[n - 1]
  BY <1>7 DEF KeptOf
<1>16. Filter(seq, S) = f[N]
  BY <1>4, <1>11 DEF g
<1> QED
  BY <1>6, <1>15, <1>16 DEF N, none, Filtering, Stepwise

\* The members of q are those of seq that lie in S.
Keeps(q, seq, S) ==
    \A x : (\E i \in DOMAIN q : q[i] = x) <=> x \in S /\ \E i \in DOMAIN seq : seq[i] = x

LEMMA FilterHas ==
    ASSUME NEW A, NEW seq \in Seq(A), NEW S
    PROVE  Filter(seq, S) \in Seq(A) /\ Keeps(Filter(seq, S), seq, S)
<1>1. PICK f : Filtering(f, seq, S, A)
  BY FilterIs
<1>2. Len(seq) \in Nat /\ \A n \in 1..Len(seq) : seq[n] \in A /\ n - 1 \in 0..Len(seq)
  OBVIOUS
<1>3. f \in [0..Len(seq) -> Seq(A)]
  BY <1>1 DEF Filtering
<1> DEFINE Has(n) == \A x : (\E i \in DOMAIN f[n] : f[n][i] = x)
                            <=> x \in S /\ \E i \in 1..n : seq[i] = x
           G == {n \in 0..Len(seq) : Has(n)}
<1>4. 0 \in G
  <2>1. f[0] = <<>>
    BY <1>1 DEF Filtering
  <2>2. Has(0)
    BY <2>1
  <2> HIDE DEF Has
  <2> QED
    BY <1>2, <2>2
<1>5. ASSUME NEW n \in 1..Len(seq), n - 1 \in G PROVE n \in G
  <2>1. /\ f[n - 1] \in Seq(A) /\ Has(n - 1) /\ n \in 0..Len(seq)
        /\ seq[n] \in A /\ n \in Nat
    BY <1>2, <1>3, <1>5
  <2> DEFINE p == f[n - 1]
             q == f[n]
  <2>2. q = IF seq[n] \in S THEN Append(p, seq[n]) ELSE p
    BY <1>1 DEF Filtering
  <2>3. /\ p \in Seq(A)
        /\ \A x : (\E i \in DOMAIN p : p[i] = x) <=> x \in S /\ \E i \in 1..(n - 1) : seq[i] = x
    BY <2>1
  <2> HIDE DEF p, q
  <2>4. ASSUME NEW x PROVE (\E i \in 1..n : seq[i] = x) <=> (seq[n] = x \/ \E i \in 1..(n - 1) : seq[i] = x)
    <3>1. \A i \in 1..n : i = n \/ i \in 1..(n - 1)
      BY <2>1
    <3>2. n \in 1..n /\ \A i \in 1..(n - 1) : i \in 1..n
      BY <2>1
    <3> QED
      BY <3>1, <3>2
  <2>5. CASE seq[n] \in S
    <3>1. ASSUME NEW x PROVE (\E i \in DOMAIN q : q[i] = x) <=> (seq[n] = x \/ \E i \in DOMAIN p : p[i] = x)
      <4>1. /\ q = Append(p, seq[n]) /\ Len(p) \in Nat /\ DOMAIN p = 1..Len(p)
            /\ DOMAIN q = 1..(Len(p) + 1) /\ q[Len(p) + 1] = seq[n]
            /\ \A i \in DOMAIN p : q[i] = p[i]
        BY <2>1, <2>2, <2>3, <2>5
      <4>2. \A i \in DOMAIN q : i = Len(p) + 1 \/ i \in DOMAIN p
        BY <4>1
      <4>3. Len(p) + 1 \in DOMAIN q /\ \A i \in DOMAIN p : i \in DOMAIN q
        BY <4>1
      <4> QED
        BY <4>1, <4>2, <4>3
    <3>2. \A x : (\E i \in DOMAIN q : q[i] = x) <=> x \in S /\ \E i \in 1..n : seq[i] = x
      BY <2>3, <2>4, <2>5, <3>1
    <3> QED
      BY <2>1, <3>2 DEF q
  <2>6. CASE seq[n] \notin S
    <3>1. \A x : (\E i \in DOMAIN q : q[i] = x) <=> x \in S /\ \E i \in 1..n : seq[i] = x
      BY <2>2, <2>3, <2>4, <2>6
    <3> QED
      BY <2>1, <3>1 DEF q
  <2> QED
    BY <2>5, <2>6
<1> HIDE DEF G
<1>6. \A n \in 0..Len(seq) : n \in G
  BY <1>2, <1>4, <1>5, UpTo
<1>7. Len(seq) \in 0..Len(seq) /\ DOMAIN seq = 1..Len(seq)
  BY <1>2
<1>8. Has(Len(seq)) /\ f[Len(seq)] \in Seq(A)
  BY <1>3, <1>6, <1>7 DEF G
<1>9. Filter(seq, S) = f[Len(seq)]
  BY <1>1 DEF Filtering
<1> QED
  BY <1>7, <1>8, <1>9 DEF Keeps

\* Numbers are kept in their order.
LEMMA FilterInOrder ==
    ASSUME NEW N \in Nat, NEW S
    PROVE  LET q == Filter([s \in 1..N |-> s], S)
           IN  /\ q \in Seq(1..N)
               /\ \A i, j \in DOMAIN q : i < j => q[i] < q[j]
               /\ \A s : (\E i \in DOMAIN q : q[i] = s) <=> s \in S /\ s \in 1..N
<1> DEFINE seq == [s \in 1..N |-> s]
           A == 1..N
<1>1. seq \in Seq(A) /\ Len(seq) = N /\ DOMAIN seq = 1..N /\ \A n \in 1..N : seq[n] = n
  OBVIOUS
<1> HIDE DEF seq
<1>2. PICK f : Filtering(f, seq, S, A)
  BY <1>1, FilterIs
<1>3. f \in [0..N -> Seq(A)]
  BY <1>1, <1>2 DEF Filtering
<1> DEFINE Sorted(n) == /\ \A i \in DOMAIN f[n] : f[n][i] <= n
                        /\ \A i, j \in DOMAIN f[n] : i < j => f[n][i] < f[n][j]
           G == {n \in 0..N : Sorted(n)}
<1>4. 0 \in G
  <2>1. f[0] = <<>>
    BY <1>2 DEF Filtering
  <2>2. Sorted(0)
    BY <2>1
  <2> HIDE DEF Sorted
  <2> QED
    BY <2>2
<1>5. ASSUME NEW n \in 1..N, n - 1 \in G PROVE n \in G
  <2> DEFINE p == f[n - 1]
             q == f[n]
  <2>1. /\ p \in Seq(A) /\ n \in 0..N /\ n \in A
        /\ \A i \in DOMAIN p : p[i] <= n - 1
        /\ \A i, j \in DOMAIN p : i < j => p[i] < p[j]
    BY <1>3, <1>5
  <2>2. q = IF n \in S THEN Append(p, n) ELSE p
    BY <1>1, <1>2 DEF Filtering
  <2> HIDE DEF p, q
  <2>3. \A i \in DOMAIN p : p[i] \in Nat
    BY <2>1
  <2>4. CASE n \in S
    <3>1. /\ Len(p) \in Nat /\ DOMAIN p = 1..Len(p) /\ DOMAIN q = 1..(Len(p) + 1)
          /\ q[Len(p) + 1] = n /\ \A i \in DOMAIN p : q[i] = p[i]
      BY <2>1, <2>2, <2>4
    <3>2. \A i \in DOMAIN q : i = Len(p) + 1 \/ i \in DOMAIN p
      BY <3>1
    <3>3. \A i \in DOMAIN q : q[i] <= n
      BY <2>1, <2>3, <3>1, <3>2
    <3>4. \A i, j \in DOMAIN q : i < j => i \in DOMAIN p
      BY <3>1
    <3>5. \A i, j \in DOMAIN q : i < j => q[i] < q[j]
      BY <2>1, <2>3, <3>1, <3>2, <3>4
    <3>6. Sorted(n)
      BY <3>3, <3>5 DEF q
    <3> HIDE DEF Sorted
    <3> QED
      BY <2>1, <3>6
  <2>5. CASE n \notin S
    <3>1. \A i \in DOMAIN q : q[i] <= n
      BY <2>1, <2>2, <2>3, <2>5
    <3>2. \A i, j \in DOMAIN q : i < j => q[i] < q[j]
      BY <2>1, <2>2, <2>5
    <3>3. Sorted(n)
      BY <3>1, <3>2 DEF q
    <3> HIDE DEF Sorted
    <3> QED
      BY <2>1, <3>3
  <2> QED
    BY <2>4, <2>5
<1> HIDE DEF G
<1>6. N \in G
  <2>1. \A n \in 0..N : n \in G
    BY <1>4, <1>5, UpTo
  <2> QED
    BY <2>1
<1> DEFINE q == Filter(seq, S)
<1>7. q = f[N]
  BY <1>1, <1>2 DEF Filtering
<1>8. \A i, j \in DOMAIN q : i < j => q[i] < q[j]
  <2> HIDE DEF q
  <2> QED
    BY <1>6, <1>7 DEF G
<1>9. q \in Seq(A)
  BY <1>1, FilterHas
<1>10. \A s : (\E i \in DOMAIN q : q[i] = s) <=> s \in S /\ s \in 1..N
  <2>1. \A s : (\E i \in DOMAIN q : q[i] = s) <=> s \in S /\ \E i \in DOMAIN seq : seq[i] = s
    <3>1. Keeps(q, seq, S)
      BY <1>1, FilterHas
    <3> HIDE DEF q
    <3> QED
      BY <3>1 DEF Keeps
  <2>2. \A s : (\E i \in DOMAIN seq : seq[i] = s) <=> s \in 1..N
    BY <1>1
  <2> HIDE DEF q
  <2> QED
    BY <2>1, <2>2
<1> QED
  BY <1>8, <1>9, <1>10 DEF seq

\* What is listed of the outbox: each operation with its number, in order.
LEMMA ListedIs ==
    ASSUME NumbersOK, NEW c \in Client, NEW S, S \subseteq DOMAIN outbox[c]
    PROVE  /\ Listed(c, S) \in Seq(Item)
           /\ \A i \in DOMAIN Listed(c, S) :
                  IsOf(c, Listed(c, S)[i]) /\ Listed(c, S)[i].seq \in S
           /\ \A i, j \in DOMAIN Listed(c, S) : i < j => Listed(c, S)[i].seq < Listed(c, S)[j].seq
           /\ \A s \in S : \E i \in DOMAIN Listed(c, S) : Listed(c, S)[i].seq = s
<1> DEFINE N == Len(issued[c])
           q == Filter([s \in 1..N |-> s], S)
           l == Listed(c, S)
<1>1. /\ N \in Nat /\ issued[c] \in Seq(OpId) /\ S \subseteq 1..N
      /\ \A s \in S : outbox[c][s].op = issued[c][s] /\ issued[c][s] \in OpId
  BY DEF NumbersOK, OutboxOK
<1>2. /\ q \in Seq(1..N) /\ \A i, j \in DOMAIN q : i < j => q[i] < q[j]
      /\ \A s : (\E i \in DOMAIN q : q[i] = s) <=> s \in S /\ s \in 1..N
  <2> HIDE DEF N
  <2> QED
    BY <1>1, FilterInOrder
<1>3. l = [i \in DOMAIN q |-> [op |-> outbox[c][q[i]].op, seq |-> q[i]]]
  BY DEF Listed
<1> HIDE DEF q, N, l
<1>4. \A i \in DOMAIN q : q[i] \in S /\ q[i] \in 1..N
  BY <1>2
<1>5. DOMAIN l = DOMAIN q /\ \A i \in DOMAIN l : l[i].seq = q[i] /\ l[i].op = issued[c][q[i]]
  BY <1>1, <1>3, <1>4
<1>6. \A i \in DOMAIN l : l[i] \in Item
  BY <1>1, <1>3, <1>4 DEF Item
<1>7. l \in Seq(Item)
  <2>1. DOMAIN q = 1..Len(q) /\ Len(q) \in Nat
    BY <1>2
  <2>2. l \in [1..Len(q) -> Item]
    BY <1>3, <1>5, <1>6, <2>1
  <2> QED
    BY <2>1, <2>2
<1>8. \A i \in DOMAIN l : IsOf(c, l[i]) /\ l[i].seq \in S
  BY <1>1, <1>4, <1>5 DEF IsOf, N
<1>9. \A i, j \in DOMAIN l : i < j => l[i].seq < l[j].seq
  BY <1>2, <1>5
<1>10. \A s \in S : \E i \in DOMAIN l : l[i].seq = s
  BY <1>1, <1>2, <1>5
<1> QED
  BY <1>7, <1>8, <1>9, <1>10 DEF l

\* Everything above the watermark waits, so what is sent is a batch in order.
LEMMA PendingOK ==
    ASSUME NumbersOK, NEW c \in Client
    PROVE  BatchOK(c, Pending(c))
<1> DEFINE W == Waiting(outbox[c])
           l == Listed(c, W)
<1>1. W \subseteq DOMAIN outbox[c]
  BY DEF Waiting
<1>2. /\ l \in Seq(Item) /\ \A i \in DOMAIN l : IsOf(c, l[i]) /\ l[i].seq \in W
      /\ \A i, j \in DOMAIN l : i < j => l[i].seq < l[j].seq
      /\ \A s \in W : \E i \in DOMAIN l : l[i].seq = s
  <2> HIDE DEF W
  <2> QED
    BY <1>1, ListedIs
<1>3. /\ mark[c] \in Nat /\ Len(issued[c]) \in Nat
      /\ \A s \in (mark[c] + 1)..Len(issued[c]) : s \in W
  BY DEF NumbersOK, OutboxOK
<1> HIDE DEF W, l
<1>4. \A i \in DOMAIN l : l[i].seq \in 1..Len(issued[c]) /\ i \in Nat
  BY <1>2 DEF IsOf
<1>5. ASSUME NEW i \in DOMAIN l, l[i].seq > mark[c] + 1
      PROVE  i > 1 /\ l[i - 1].seq = l[i].seq - 1
  <2>1. l[i].seq - 1 \in W
    BY <1>3, <1>4, <1>5
  <2>2. PICK j \in DOMAIN l : l[j].seq = l[i].seq - 1
    BY <1>2, <2>1
  <2>3. /\ j \in Nat /\ i \in Nat /\ l[j].seq \in Nat /\ l[i].seq \in Nat
        /\ DOMAIN l = 1..Len(l) /\ Len(l) \in Nat
    BY <1>2, <1>4
  <2>4. j < i
    <3>1. ~ (i < j)
      BY <1>2, <2>2, <2>3
    <3>2. i # j
      BY <2>2, <2>3
    <3> QED
      BY <2>3, <3>1, <3>2
  <2>5. j = i - 1
    <3> SUFFICES ASSUME j # i - 1 PROVE FALSE
      OBVIOUS
    <3>1. j + 1 \in DOMAIN l /\ j < j + 1 /\ j + 1 < i
      BY <2>3, <2>4
    <3>2. l[j].seq < l[j + 1].seq /\ l[j + 1].seq < l[i].seq /\ l[j + 1].seq \in 1..Len(issued[c])
      BY <1>2, <1>4, <3>1
    <3> QED
      BY <2>2, <2>3, <3>2
  <2> QED
    BY <2>2, <2>3, <2>4, <2>5
<1>6. BatchOK(c, l)
  BY <1>2, <1>5 DEF BatchOK
<1> QED
  BY <1>6 DEF l, W, Pending

\* So is its beginning.
LEMMA FirstOK ==
    ASSUME NEW c \in Client, NEW batch, BatchOK(c, batch), NEW n \in 0..Len(batch)
    PROVE  BatchOK(c, SubSeq(batch, 1, n))
<1> DEFINE b == SubSeq(batch, 1, n)
<1>1. batch \in Seq(Item) /\ Len(batch) \in Nat
  BY DEF BatchOK
<1>2. /\ b \in Seq(Item) /\ DOMAIN b = 1..n /\ \A i \in 1..n : b[i] = batch[i]
      /\ \A i \in 1..n : i \in DOMAIN batch
  BY <1>1
<1>3. \A i \in 1..n : i > 1 => i - 1 \in 1..n
  OBVIOUS
<1> HIDE DEF b
<1>4. \A i \in DOMAIN b :
          /\ IsOf(c, b[i])
          /\ b[i].seq > mark[c] + 1 => i > 1 /\ b[i - 1].seq = b[i].seq - 1
  BY <1>2, <1>3 DEF BatchOK
<1>5. \A i, j \in DOMAIN b : i < j => b[i].seq < b[j].seq
  BY <1>2 DEF BatchOK
<1>6. BatchOK(c, b)
  BY <1>2, <1>4, <1>5 DEF BatchOK
<1> QED
  BY <1>6 DEF b

----------------------------------------------------------------------------
(* What the user sees. *)

\* A box holds operations by their numbers.
Box(box) == \A s \in DOMAIN box : box[s].op \in OpId

FoldStep(row, box, e, n) ==
    IF n \in PendingOn(box, e) THEN Merge(row, Known(Content[box[n].op])) ELSE row

Folding(f, row, box, e, last) ==
    /\ f \in [0..last -> Slot] /\ f[0] = row /\ Folded(row, box, e, last) = f[last]
    /\ \A n \in 1..last : f[n] = FoldStep(f[n - 1], box, e, n)

LEMMA FoldStepType ==
    ASSUME NEW row \in Slot, NEW box, Box(box), NEW e, NEW n
    PROVE  /\ FoldStep(row, box, e, n) \in Slot
           /\ row \in Row \/ n \in PendingOn(box, e) => FoldStep(row, box, e, n) \in Row
<1>1. CASE n \in PendingOn(box, e)
  <2>1. box[n].op \in OpId
    BY <1>1 DEF Box, PendingOn, Waiting
  <2>2. Known(Content[box[n].op]) \in Mutation
    BY <2>1, ContentIs, KnownIs
  <2>3. Merge(row, Known(Content[box[n].op])) \in Row
    BY <2>2, MergeType
  <2> QED
    BY <1>1, <2>3 DEF FoldStep, Slot
<1>2. CASE n \notin PendingOn(box, e)
  BY <1>2 DEF FoldStep
<1> QED
  BY <1>1, <1>2

LEMMA FoldedIs ==
    ASSUME NEW row \in Slot, NEW box, Box(box), NEW e, NEW last \in Nat
    PROVE  \E f : Folding(f, row, box, e, last)
<1> DEFINE step == [n \in 1..last |-> [r \in Slot |-> FoldStep(r, box, e, n)]]
           Goes(r) == r = [n \in 0..last |->
                              IF n = 0 THEN row
                              ELSE IF n \in PendingOn(box, e)
                                   THEN Merge(r[n - 1], Known(Content[box[n].op]))
                              ELSE r[n - 1]]
<1>2. step \in [1..last -> [Slot -> Slot]]
  BY FoldStepType
<1>3. \A n \in 1..last : \A r \in Slot : step[n][r] = FoldStep(r, box, e, n)
  OBVIOUS
<1>4. Folded(row, box, e, last) = (CHOOSE r : Goes(r))[last]
  BY DEF Folded
<1> HIDE DEF step
<1>5. PICK f : Stepwise(f, last, Slot, row, step)
  BY <1>2, Recursion
<1>6. \A n \in 1..last : f[n] = FoldStep(f[n - 1], box, e, n)
  <2> TAKE n \in 1..last
  <2>1. n - 1 \in 0..last
    OBVIOUS
  <2> QED
    BY <1>3, <1>5, <2>1 DEF Stepwise
<1>7. Goes(f)
  <2>1. \A n \in 0..last : f[n] = IF n = 0 THEN row
                                  ELSE IF n \in PendingOn(box, e)
                                       THEN Merge(f[n - 1], Known(Content[box[n].op]))
                                  ELSE f[n - 1]
    <3> TAKE n \in 0..last
    <3>1. n = 0 \/ n \in 1..last
      OBVIOUS
    <3> QED
      BY <1>5, <1>6, <3>1 DEF FoldStep, Stepwise
  <2> QED
    BY <1>5, <2>1 DEF Stepwise
<1> DEFINE g == CHOOSE r : Goes(r)
<1>8. Goes(g)
  BY <1>7
<1> HIDE DEF g
<1>9. g[0] = row /\ \A n \in 1..last : g[n] = FoldStep(g[n - 1], box, e, n)
  <2>1. \A n \in 0..last : g[n] = IF n = 0 THEN row
                                  ELSE IF n \in PendingOn(box, e)
                                       THEN Merge(g[n - 1], Known(Content[box[n].op]))
                                  ELSE g[n - 1]
    BY <1>8
  <2> QED
    BY <2>1 DEF FoldStep
<1> HIDE DEF Goes
<1>10. Follows(g, last, Slot, row, step)
  BY <1>3, <1>9 DEF Follows
<1>11. g[last] = f[last]
  <2>1. \A n \in 0..last : g[n] = f[n]
    BY <1>5, <1>10, SameSteps
  <2> QED
    BY <2>1
<1>12. Folded(row, box, e, last) = f[last]
  BY <1>4, <1>11 DEF g
<1> QED
  BY <1>5, <1>6, <1>12 DEF Folding, Stepwise

\* One number after the other.
LEMMA FoldedNext ==
    ASSUME NEW row \in Slot, NEW box, Box(box), NEW e, NEW n \in Nat \ {0}
    PROVE  /\ Folded(row, box, e, 0) = row
           /\ Folded(row, box, e, n) = FoldStep(Folded(row, box, e, n - 1), box, e, n)
           /\ Folded(row, box, e, n - 1) \in Slot
<1>1. n - 1 \in Nat /\ 0 \in Nat /\ n \in Nat
  OBVIOUS
<1>2. PICK z : Folding(z, row, box, e, 0)
  BY <1>1, FoldedIs
<1>3. PICK f : Folding(f, row, box, e, n - 1)
  BY <1>1, FoldedIs
<1>4. PICK g : Folding(g, row, box, e, n)
  BY <1>1, FoldedIs
<1> DEFINE G == {i \in 0..(n - 1) : f[i] = g[i]}
<1>5. 0 \in G
  BY <1>1, <1>3, <1>4 DEF Folding
<1>6. ASSUME NEW i \in 1..(n - 1), i - 1 \in G PROVE i \in G
  <2>1. i \in 1..n /\ f[i - 1] = g[i - 1] /\ i \in 0..(n - 1)
    BY <1>1, <1>6
  <2>2. f[i] = FoldStep(f[i - 1], box, e, i) /\ g[i] = FoldStep(g[i - 1], box, e, i)
    BY <1>3, <1>4, <2>1 DEF Folding
  <2> QED
    BY <2>1, <2>2
<1> HIDE DEF G
<1>7. \A i \in 0..(n - 1) : i \in G
  BY <1>1, <1>5, <1>6, UpTo
<1>8. f[n - 1] = g[n - 1] /\ n - 1 \in 0..(n - 1) /\ n \in 1..n
  BY <1>1, <1>7 DEF G
<1>9. Folded(row, box, e, n) = FoldStep(Folded(row, box, e, n - 1), box, e, n)
  BY <1>3, <1>4, <1>8 DEF Folding
<1>10. Folded(row, box, e, n - 1) \in Slot
  BY <1>3, <1>8 DEF Folding
<1> QED
  BY <1>2, <1>9, <1>10 DEF Folding

\* With a row to begin with, or something pending, there is a row.
LEMMA FoldedType ==
    ASSUME NEW row \in Slot, NEW box, Box(box), NEW e, NEW last \in Nat
    PROVE  /\ Folded(row, box, e, last) \in Slot
           /\ row \in Row \/ (\E s \in PendingOn(box, e) : s \in 1..last)
                 => Folded(row, box, e, last) \in Row
<1>1. PICK f : Folding(f, row, box, e, last)
  BY FoldedIs
<1> DEFINE Some(n) == row \in Row \/ \E s \in PendingOn(box, e) : s \in 1..n
           Good(n) == f[n] \in Slot /\ (Some(n) => f[n] \in Row)
           G == {n \in 0..last : Good(n)}
<1>2. 0 \in G
  <2>1. f[0] = row /\ 0 \in 0..last
    BY <1>1 DEF Folding
  <2> QED
    BY <2>1
<1>3. ASSUME NEW n \in 1..last, n - 1 \in G PROVE n \in G
  <2>1. f[n] = FoldStep(f[n - 1], box, e, n) /\ Good(n - 1) /\ n \in 0..last
    BY <1>1, <1>3 DEF Folding
  <2>2. Some(n) => Some(n - 1) \/ n \in PendingOn(box, e)
    OBVIOUS
  <2> HIDE DEF Some
  <2>3. Good(n)
    BY <2>1, <2>2, FoldStepType
  <2> HIDE DEF Good
  <2> QED
    BY <2>1, <2>3
<1> HIDE DEF G
<1>4. last \in G
  <2>1. \A n \in 0..last : n \in G
    BY <1>2, <1>3, UpTo
  <2> QED
    BY <2>1
<1>5. f[last] \in Slot /\ (Some(last) => f[last] \in Row)
  BY <1>4 DEF G
<1> QED
  BY <1>1, <1>5 DEF Folding

\* Only what is pending for an entity counts.
LEMMA FoldedSame ==
    ASSUME NEW row \in Slot, NEW a, Box(a), NEW b, Box(b), NEW e, NEW last \in Nat,
           \A s \in 1..last : /\ s \in PendingOn(a, e) <=> s \in PendingOn(b, e)
                              /\ s \in PendingOn(a, e) => a[s].op = b[s].op
    PROVE  Folded(row, a, e, last) = Folded(row, b, e, last)
<1>1. PICK f : Folding(f, row, a, e, last)
  BY FoldedIs
<1>2. PICK g : Folding(g, row, b, e, last)
  BY FoldedIs
<1> DEFINE G == {n \in 0..last : f[n] = g[n]}
<1>3. 0 \in G
  BY <1>1, <1>2 DEF Folding
<1>4. ASSUME NEW n \in 1..last, n - 1 \in G PROVE n \in G
  <2>1. f[n - 1] = g[n - 1] /\ n \in 0..last
    BY <1>4
  <2>2. f[n] = FoldStep(f[n - 1], a, e, n) /\ g[n] = FoldStep(g[n - 1], b, e, n)
    BY <1>1, <1>2 DEF Folding
  <2>3. FoldStep(f[n - 1], a, e, n) = FoldStep(f[n - 1], b, e, n)
    BY DEF FoldStep
  <2> QED
    BY <2>1, <2>2, <2>3
<1> HIDE DEF G
<1>5. last \in G
  <2>1. \A n \in 0..last : n \in G
    BY <1>3, <1>4, UpTo
  <2> QED
    BY <2>1
<1> QED
  BY <1>1, <1>2, <1>5 DEF G, Folding

\* Nothing pending, nothing changed.
LEMMA FoldedNone ==
    ASSUME NEW row \in Slot, NEW box, Box(box), NEW e, NEW last \in Nat, PendingOn(box, e) = {}
    PROVE  Folded(row, box, e, last) = row
<1>1. PICK f : Folding(f, row, box, e, last)
  BY FoldedIs
<1> DEFINE G == {n \in 0..last : f[n] = row}
<1>2. 0 \in G
  BY <1>1 DEF Folding
<1>3. ASSUME NEW n \in 1..last, n - 1 \in G PROVE n \in G
  <2>1. f[n] = FoldStep(f[n - 1], box, e, n) /\ f[n - 1] = row /\ n \in 0..last
    BY <1>1, <1>3 DEF Folding
  <2> QED
    BY <2>1 DEF FoldStep
<1> HIDE DEF G
<1>4. last \in G
  <2>1. \A n \in 0..last : n \in G
    BY <1>2, <1>3, UpTo
  <2> QED
    BY <2>1
<1> QED
  BY <1>1, <1>4 DEF G, Folding

\* A table after one operation of the user more.
EditStep(table, o) ==
    [table EXCEPT ![Content[o].entity] = Merge(@, Content[o])]

LEMMA EditStepIs ==
    ASSUME NEW table \in Rows, NEW o \in OpId
    PROVE  /\ EditStep(table, o) \in Rows
           /\ \A e \in Entity : EditStep(table, o)[e] =
                  IF e = Content[o].entity THEN Merge(table[e], Content[o]) ELSE table[e]
<1>1. Content[o] \in Mutation /\ Content[o].entity \in Entity
  BY ContentIs
<1>2. table \in [Entity -> Slot]
  BY DEF Rows, Slot
<1>3. Merge(table[Content[o].entity], Content[o]) \in Row
  BY <1>1, <1>2, MergeType
<1>4. EditStep(table, o) = [table EXCEPT ![Content[o].entity] = Merge(table[Content[o].entity], Content[o])]
  BY DEF EditStep
<1>5. EditStep(table, o) \in [Entity -> Slot]
  BY <1>1, <1>2, <1>3, <1>4 DEF Slot
<1> QED
  BY <1>1, <1>2, <1>4, <1>5 DEF Rows, Slot

Editing(f, table, command, n) ==
    /\ f \in [0..n -> Rows] /\ f[0] = table /\ Edited(table, command, n) = f[n]
    /\ \A i \in 1..n : f[i] = EditStep(f[i - 1], command[i])

LEMMA EditedIs ==
    ASSUME NEW table \in Rows, NEW command \in Seq(OpId), NEW N \in 0..Len(command)
    PROVE  \E f : Editing(f, table, command, N)
<1> DEFINE step == [n \in 1..N |-> [t \in Rows |-> EditStep(t, command[n])]]
           Goes(r) == r = [i \in 0..N |->
                              IF i = 0 THEN table
                              ELSE [r[i - 1] EXCEPT ![Content[command[i]].entity] =
                                                        Merge(@, Content[command[i]])]]
<1>1. N \in Nat /\ \A n \in 1..N : command[n] \in OpId
  OBVIOUS
<1>2. step \in [1..N -> [Rows -> Rows]]
  BY <1>1, EditStepIs
<1>3. \A n \in 1..N : \A t \in Rows : step[n][t] = EditStep(t, command[n])
  OBVIOUS
<1>4. Edited(table, command, N) = (CHOOSE r : Goes(r))[N]
  BY DEF Edited
<1>5. \A r : Goes(r) => \A i \in 0..N : r[i] = IF i = 0 THEN table ELSE EditStep(r[i - 1], command[i])
  BY DEF EditStep
<1>6. \A r : r \in [0..N -> Rows]
             /\ (\A i \in 0..N : r[i] = IF i = 0 THEN table ELSE EditStep(r[i - 1], command[i]))
             => Goes(r)
  BY DEF EditStep
<1> HIDE DEF step, Goes
<1>7. PICK f : Stepwise(f, N, Rows, table, step)
  BY <1>1, <1>2, Recursion
<1>8. \A n \in 1..N : f[n] = EditStep(f[n - 1], command[n])
  <2> TAKE n \in 1..N
  <2>1. n - 1 \in 0..N
    BY <1>1
  <2> QED
    BY <1>3, <1>7, <2>1 DEF Stepwise
<1>9. Goes(f)
  <2>1. ASSUME NEW n \in 0..N PROVE f[n] = IF n = 0 THEN table ELSE EditStep(f[n - 1], command[n])
    <3>1. n = 0 \/ n \in 1..N
      BY <1>1
    <3> QED
      BY <1>7, <1>8, <3>1 DEF Stepwise
  <2> QED
    BY <1>6, <1>7, <2>1 DEF Stepwise
<1> DEFINE g == CHOOSE r : Goes(r)
<1>10. Goes(g)
  BY <1>9
<1> HIDE DEF g
<1>11. Follows(g, N, Rows, table, step)
  <2>1. \A n \in 0..N : g[n] = IF n = 0 THEN table ELSE EditStep(g[n - 1], command[n])
    BY <1>5, <1>10
  <2> QED
    BY <1>1, <1>3, <2>1 DEF Follows
<1>12. g[N] = f[N]
  <2>1. \A n \in 0..N : g[n] = f[n]
    BY <1>1, <1>7, <1>11, SameSteps
  <2> QED
    BY <1>1, <2>1
<1>13. Edited(table, command, N) = f[N]
  BY <1>4, <1>12 DEF g
<1> QED
  BY <1>7, <1>8, <1>13 DEF Editing, Stepwise

LEMMA EditedNext ==
    ASSUME NEW table \in Rows, NEW command \in Seq(OpId), NEW n \in 1..Len(command)
    PROVE  /\ Edited(table, command, n) = EditStep(Edited(table, command, n - 1), command[n])
           /\ Edited(table, command, n - 1) \in Rows
<1>1. /\ n - 1 \in 0..Len(command) /\ n \in 0..Len(command) /\ n - 1 \in Nat
      /\ n \in 1..n /\ n - 1 \in 0..(n - 1)
  OBVIOUS
<1>2. PICK f : Editing(f, table, command, n - 1)
  BY <1>1, EditedIs
<1>3. PICK g : Editing(g, table, command, n)
  BY <1>1, EditedIs
<1> DEFINE G == {i \in 0..(n - 1) : f[i] = g[i]}
<1>4. 0 \in G
  BY <1>1, <1>2, <1>3 DEF Editing
<1>5. ASSUME NEW i \in 1..(n - 1), i - 1 \in G PROVE i \in G
  <2>1. i \in 1..n /\ f[i - 1] = g[i - 1] /\ i \in 0..(n - 1)
    BY <1>1, <1>5
  <2>2. f[i] = EditStep(f[i - 1], command[i]) /\ g[i] = EditStep(g[i - 1], command[i])
    BY <1>2, <1>3, <2>1 DEF Editing
  <2> QED
    BY <2>1, <2>2
<1> HIDE DEF G
<1>6. \A i \in 0..(n - 1) : i \in G
  BY <1>1, <1>4, <1>5, UpTo
<1>7. f[n - 1] = g[n - 1]
  BY <1>1, <1>6 DEF G
<1>8. g[n] = EditStep(g[n - 1], command[n])
  BY <1>1, <1>3 DEF Editing
<1>9. Edited(table, command, n) = g[n] /\ Edited(table, command, n - 1) = f[n - 1]
  BY <1>2, <1>3 DEF Editing
<1>10. f[n - 1] \in Rows
  BY <1>1, <1>2 DEF Editing
<1> QED
  BY <1>7, <1>8, <1>9, <1>10

LEMMA EditedType ==
    ASSUME NEW table \in Rows, NEW command \in Seq(OpId), NEW n \in 0..Len(command)
    PROVE  Edited(table, command, n) \in Rows /\ Edited(table, command, 0) = table
<1>1. PICK f : Editing(f, table, command, n)
  BY EditedIs
<1>2. 0 \in 0..Len(command) /\ n \in 0..n
  OBVIOUS
<1>3. PICK z : Editing(z, table, command, 0)
  BY <1>2, EditedIs
<1> QED
  BY <1>1, <1>2, <1>3 DEF Editing

\* A row with what is pending on top, as the device keeps it.
LEMMA ProjectedType ==
    ASSUME NEW c \in Client, Len(issued[c]) \in Nat, NEW row \in Slot, NEW box, Box(box), NEW e,
           row \in Row \/ \E s \in PendingOn(box, e) : s \in 1..Len(issued[c])
    PROVE  Projected(c, box, row, e) \in Row /\ Plain(Projected(c, box, row, e))
<1> DEFINE r == Folded(row, box, e, Len(issued[c]))
           w == Materialized(r)
<1>1. r \in Row
  BY FoldedType
<1>2. Projected(c, box, row, e) = w
  BY DEF Projected
<1> HIDE DEF r
<1>3. w \in Row /\ w.created = 0 /\ \A k \in Column : k \notin Mirrored => w.val[k] = Default
  BY <1>1, MaterializedIs
<1> HIDE DEF w
<1>4. Materialized(w) = w
  BY <1>3, PlainIs
<1> QED
  BY <1>2, <1>3, <1>4 DEF Plain, Slot

\* Reprojecting an entity leaves the others alone, or displaces day plans.
LEMMA ReprojectIs ==
    ASSUME NEW c \in Client, Len(issued[c]) \in Nat, NEW sh \in Rows, NEW box, Box(box),
           NEW table \in Rows, NEW e \in Entity
    PROVE  /\ Reproject(c, sh, box, table, e) \in Rows
           /\ sh[e] # Absent => Reproject(c, sh, box, table, e)[e] = Projected(c, box, sh[e], e)
           /\ sh[e] # Absent => /\ Projected(c, box, sh[e], e) \in Row
                                /\ Plain(Projected(c, box, sh[e], e))
           /\ sh[e] = Absent => Reproject(c, sh, box, table, e) = table
           /\ \A f \in Entity : f # e =>
                  \/ Reproject(c, sh, box, table, e)[f] = table[f]
                  \/ f \in DayPlans /\ Reproject(c, sh, box, table, e)[f] = Absent
<1> DEFINE row == Projected(c, box, sh[e], e)
           D == Displaced(table, e, row)
           t == [f \in Entity |-> IF f = e THEN row ELSE IF f \in D THEN Absent ELSE table[f]]
<1>1. CASE sh[e] = Absent
  BY <1>1 DEF Reproject
<1>2. CASE sh[e] # Absent
  <2>1. sh[e] \in Row /\ sh[e] \in Slot
    BY <1>2 DEF Rows, Slot
  <2>2. row \in Row /\ Plain(row)
    BY <2>1, ProjectedType
  <2>3. Reproject(c, sh, box, table, e) = t
    BY <1>2 DEF Reproject
  <2> HIDE DEF row
  <2>4. D \subseteq DayPlans
    BY DEF Displaced
  <2> HIDE DEF D
  <2>5. t \in Rows /\ t[e] = row /\ \A f \in Entity : f # e => t[f] = table[f] \/ (f \in DayPlans /\ t[f] = Absent)
    BY <2>2, <2>4 DEF Rows
  <2> HIDE DEF t
  <2> QED
    BY <1>2, <2>2, <2>3, <2>5 DEF row
<1> QED
  BY <1>1, <1>2

\* The nth entity of a sequence, unless it was there before.
EachStep(c, sh, box, table, entities, n) ==
    IF \E i \in 1..(n - 1) : entities[i] = entities[n] THEN table
    ELSE Reproject(c, sh, box, table, entities[n])

Reprojecting(f, c, sh, box, table, entities) ==
    /\ f \in [0..Len(entities) -> Rows] /\ f[0] = table
    /\ ReprojectEach(c, sh, box, table, entities) = f[Len(entities)]
    /\ \A n \in 1..Len(entities) : f[n] = EachStep(c, sh, box, f[n - 1], entities, n)

LEMMA ReprojectingIs ==
    ASSUME NEW c \in Client, Len(issued[c]) \in Nat, NEW sh \in Rows, NEW box, Box(box),
           NEW table \in Rows, NEW entities \in Seq(Entity)
    PROVE  \E f : Reprojecting(f, c, sh, box, table, entities)
<1> DEFINE N == Len(entities)
           step == [n \in 1..N |-> [t \in Rows |-> EachStep(c, sh, box, t, entities, n)]]
           Goes(r) == r = [n \in 0..N |->
                              IF n = 0 THEN table
                              ELSE IF \E i \in 1..(n - 1) : entities[i] = entities[n] THEN r[n - 1]
                              ELSE Reproject(c, sh, box, r[n - 1], entities[n])]
<1>1. N \in Nat /\ \A n \in 1..N : entities[n] \in Entity
  OBVIOUS
<1>2. step \in [1..N -> [Rows -> Rows]]
  <2>1. ASSUME NEW n \in 1..N, NEW t \in Rows PROVE EachStep(c, sh, box, t, entities, n) \in Rows
    <3>1. Reproject(c, sh, box, t, entities[n]) \in Rows
      BY <1>1, ReprojectIs
    <3> QED
      BY <3>1 DEF EachStep
  <2> QED
    BY <2>1
<1>3. \A n \in 1..N : \A t \in Rows : step[n][t] = EachStep(c, sh, box, t, entities, n)
  OBVIOUS
<1>4. ReprojectEach(c, sh, box, table, entities) = (CHOOSE r : Goes(r))[N]
  BY DEF ReprojectEach
<1>5. \A r : Goes(r) => \A n \in 0..N : r[n] = IF n = 0 THEN table
                                               ELSE EachStep(c, sh, box, r[n - 1], entities, n)
  BY DEF EachStep
<1>6. \A r : r \in [0..N -> Rows]
             /\ (\A n \in 0..N : r[n] = IF n = 0 THEN table
                                        ELSE EachStep(c, sh, box, r[n - 1], entities, n))
             => Goes(r)
  BY DEF EachStep
<1> HIDE DEF N, step, Goes
<1>7. PICK f : Stepwise(f, N, Rows, table, step)
  BY <1>1, <1>2, Recursion
<1>8. \A n \in 1..N : f[n] = EachStep(c, sh, box, f[n - 1], entities, n)
  <2> TAKE n \in 1..N
  <2>1. n - 1 \in 0..N
    BY <1>1
  <2> QED
    BY <1>3, <1>7, <2>1 DEF Stepwise
<1>9. Goes(f)
  <2>1. ASSUME NEW n \in 0..N
        PROVE  f[n] = IF n = 0 THEN table ELSE EachStep(c, sh, box, f[n - 1], entities, n)
    <3>1. n = 0 \/ n \in 1..N
      BY <1>1
    <3> QED
      BY <1>7, <1>8, <3>1 DEF Stepwise
  <2> QED
    BY <1>6, <1>7, <2>1 DEF Stepwise
<1> DEFINE g == CHOOSE r : Goes(r)
<1>10. Goes(g)
  BY <1>9
<1> HIDE DEF g
<1>11. Follows(g, N, Rows, table, step)
  <2>1. \A n \in 0..N : g[n] = IF n = 0 THEN table ELSE EachStep(c, sh, box, g[n - 1], entities, n)
    BY <1>5, <1>10
  <2> QED
    BY <1>1, <1>3, <2>1 DEF Follows
<1>12. g[N] = f[N]
  <2>1. \A n \in 0..N : g[n] = f[n]
    BY <1>1, <1>7, <1>11, SameSteps
  <2> QED
    BY <1>1, <2>1
<1>13. ReprojectEach(c, sh, box, table, entities) = f[N]
  BY <1>4, <1>12 DEF g
<1> QED
  BY <1>7, <1>8, <1>13 DEF Reprojecting, Stepwise, N

\* What reprojection makes of a row.
Reprojected(c, sh, box, old, new, e, among) ==
    /\ new \in Slot
    /\ Plain(old) => Plain(new)
    /\ among /\ sh[e] # Absent => \/ new = Projected(c, box, sh[e], e)
                                  \/ e \in DayPlans /\ new = Absent
    /\ ~ among => new = old \/ (e \in DayPlans /\ new = Absent)

LEMMA ReprojectEachIs ==
    ASSUME NEW c \in Client, Len(issued[c]) \in Nat, NEW sh \in Rows, NEW box, Box(box),
           NEW table \in Rows, NEW entities \in Seq(Entity)
    PROVE  /\ ReprojectEach(c, sh, box, table, entities) \in Rows
           /\ \A e \in Entity :
                  Reprojected(c, sh, box, table[e], ReprojectEach(c, sh, box, table, entities)[e],
                              e, \E i \in DOMAIN entities : entities[i] = e)
<1> DEFINE N == Len(entities)
           Among(e, n) == \E i \in 1..n : entities[i] = e
<1>1. N \in Nat /\ (\A n \in 1..N : entities[n] \in Entity) /\ DOMAIN entities = 1..N
  OBVIOUS
<1>2. PICK f : Reprojecting(f, c, sh, box, table, entities)
  BY ReprojectingIs
<1>3. f \in [0..N -> Rows] /\ f[0] = table /\ ReprojectEach(c, sh, box, table, entities) = f[N]
  BY <1>2 DEF Reprojecting
<1> DEFINE Good(n) == \A e \in Entity : Reprojected(c, sh, box, table[e], f[n][e], e, Among(e, n))
           G == {n \in 0..N : Good(n)}
<1> HIDE DEF N
<1>4. 0 \in G
  <2>1. \A e \in Entity : ~ Among(e, 0) /\ f[0][e] = table[e] /\ table[e] \in Slot
    BY <1>3 DEF Rows, Slot
  <2> HIDE DEF Among
  <2>2. Good(0)
    BY <2>1 DEF Reprojected
  <2> HIDE DEF Good
  <2> QED
    BY <1>1, <2>2
<1>5. ASSUME NEW n \in 1..N, n - 1 \in G PROVE n \in G
  <2> DEFINE o == entities[n]
             t == f[n - 1]
             u == f[n]
  <2>1. /\ n - 1 \in 0..N /\ Good(n - 1) /\ n \in 0..N /\ o \in Entity /\ t \in Rows /\ u \in Rows
    BY <1>1, <1>3, <1>5
  <2>2. u = EachStep(c, sh, box, t, entities, n)
    BY <1>2 DEF Reprojecting, N
  <2>3. \A e \in Entity : Among(e, n) <=> (e = o \/ Among(e, n - 1))
    <3>1. \A i \in 1..n : i = n \/ i \in 1..(n - 1)
      BY <1>1
    <3>2. n \in 1..n /\ \A i \in 1..(n - 1) : i \in 1..n
      BY <1>1
    <3> QED
      BY <3>1, <3>2
  <2>4. u = IF Among(o, n - 1) THEN t ELSE Reproject(c, sh, box, t, o)
    BY <2>2 DEF EachStep
  <2> HIDE DEF Among, o, t, u
  <2>5. \A e \in Entity : Reprojected(c, sh, box, table[e], t[e], e, Among(e, n - 1))
    BY <2>1 DEF t
  <2> DEFINE v == Reproject(c, sh, box, t, o)
  <2>8. /\ sh[o] # Absent => v[o] = Projected(c, box, sh[o], o) /\ Plain(v[o])
        /\ sh[o] = Absent => v = t
        /\ \A e \in Entity : e # o => v[e] = t[e] \/ (e \in DayPlans /\ v[e] = Absent)
    <3>1. sh[o] # Absent => v[o] = Projected(c, box, sh[o], o)
      <4>1. ASSUME NEW e \in Entity, sh[e] # Absent
            PROVE  Reproject(c, sh, box, t, e)[e] = Projected(c, box, sh[e], e)
        BY <4>1 DEF Reproject
      <4> QED
        BY <2>1, <4>1
    <3>2. sh[o] # Absent => Plain(Projected(c, box, sh[o], o))
      BY <2>1, ReprojectIs
    <3>3. sh[o] = Absent => v = t
      BY <2>1, ReprojectIs
    <3>4. \A e \in Entity : e # o => v[e] = t[e] \/ (e \in DayPlans /\ v[e] = Absent)
      BY <2>1, ReprojectIs
    <3> HIDE DEF v
    <3> QED
      BY <3>1, <3>2, <3>3, <3>4
  <2>9. u = IF Among(o, n - 1) THEN t ELSE v
    BY <2>4
  <2> HIDE DEF v
  <2>6. ASSUME NEW e \in Entity PROVE Reprojected(c, sh, box, table[e], u[e], e, Among(e, n))
    <3>1. CASE Among(o, n - 1)
      <4>1. Among(e, n) <=> Among(e, n - 1)
        BY <2>3, <3>1
      <4>2. u[e] = t[e]
        BY <2>4, <3>1
      <4> QED
        BY <2>5, <4>1, <4>2 DEF Reprojected
    <3>2. CASE ~ Among(o, n - 1) /\ e # o
      <4>1. Among(e, n) <=> Among(e, n - 1)
        BY <2>3, <3>2
      <4>2. u[e] = t[e] \/ (e \in DayPlans /\ u[e] = Absent)
        BY <2>8, <2>9, <3>2
      <4>3. u[e] \in Slot
        BY <2>1 DEF Rows, Slot
      <4>4. Plain(Absent)
        BY DEF Plain, Slot
      <4> QED
        BY <2>5, <4>1, <4>2, <4>3, <4>4 DEF Reprojected
    <3>3. CASE ~ Among(o, n - 1) /\ e = o
      <4>1. Among(e, n) /\ ~ Among(e, n - 1) /\ u[e] \in Slot
        BY <2>1, <2>3, <3>3 DEF Rows, Slot
      <4>2. CASE sh[e] = Absent
        <5>1. u[e] = t[e]
          BY <2>8, <2>9, <3>3, <4>2
        <5> QED
          BY <2>5, <4>1, <4>2, <5>1 DEF Reprojected
      <4>3. CASE sh[e] # Absent
        <5>1. u[e] = Projected(c, box, sh[e], e) /\ Plain(u[e])
          BY <2>8, <2>9, <3>3, <4>3
        <5> QED
          BY <4>1, <5>1 DEF Reprojected
      <4> QED
        BY <4>2, <4>3
    <3> QED
      BY <3>1, <3>2, <3>3
  <2>7. Good(n)
    BY <2>6 DEF u
  <2> HIDE DEF Good
  <2> QED
    BY <2>1, <2>7
<1> HIDE DEF G
<1>6. N \in G
  <2>1. \A n \in 0..N : n \in G
    BY <1>1, <1>4, <1>5, UpTo
  <2> QED
    BY <1>1, <2>1
<1>7. Good(N)
  BY <1>6 DEF G
<1>8. f[N] \in Rows
  BY <1>1, <1>3
<1>9. \A e \in Entity : Among(e, N) <=> \E i \in DOMAIN entities : entities[i] = e
  BY <1>1
<1> HIDE DEF Among
<1> QED
  BY <1>3, <1>7, <1>8, <1>9 DEF Reprojected

----------------------------------------------------------------------------
(* What a decided batch leaves behind. *)

\* What the service has committed is at least what was there.
LEMMA CommittedIs ==
    ASSUME NumbersOK, NEW c \in Client, NEW d, DecidedOK(c, d), Committed(c, d)
    PROVE  /\ rows' = d.rows /\ log' = d.log /\ receipts' = d.receipts
           /\ mark' \in [Client -> Nat] /\ mark'[c] = d.expected - 1
           /\ mark'[c] \in mark[c]..Len(issued[c])
           /\ \A x \in Client : x # c => mark'[x] = mark[x]
           /\ \A x \in Client : mark[x] \in Nat /\ mark'[x] \in Nat /\ mark[x] <= mark'[x]
<1>1. mark \in [Client -> Nat] /\ Len(issued[c]) \in Nat
  BY DEF NumbersOK
<1>2. d.expected \in (mark[c] + 1)..(Len(issued[c]) + 1) /\ mark[c] \in Nat
  BY <1>1 DEF DecidedOK
<1>3. d.expected - 1 \in Nat /\ d.expected - 1 \in mark[c]..Len(issued[c])
  BY <1>1, <1>2
<1>4. mark' = [mark EXCEPT ![c] = d.expected - 1]
  BY DEF Committed
<1>5. rows' = d.rows /\ log' = d.log /\ receipts' = d.receipts
  BY DEF Committed
<1>6. mark' \in [Client -> Nat] /\ mark'[c] = d.expected - 1
  BY <1>1, <1>3, <1>4
<1>7. \A x \in Client : x # c => mark'[x] = mark[x]
  BY <1>1, <1>4
<1>8. \A x \in Client : mark[x] \in Nat /\ mark'[x] \in Nat /\ mark[x] <= mark'[x]
  <2> TAKE x \in Client
  <2>1. CASE x = c
    BY <1>2, <1>3, <1>6, <2>1
  <2>2. CASE x # c
    BY <1>1, <1>7, <2>2
  <2> QED
    BY <2>1, <2>2
<1> QED
  BY <1>3, <1>5, <1>6, <1>7, <1>8

LEMMA CommittedNumbers ==
    ASSUME NumbersOK, NEW c \in Client, NEW d, DecidedOK(c, d), Committed(c, d),
           UNCHANGED <<issued, outbox>>
    PROVE  NumbersOK'
<1>1. /\ mark' \in [Client -> Nat] /\ mark'[c] \in mark[c]..Len(issued[c])
      /\ \A x \in Client : x # c => mark'[x] = mark[x]
      /\ \A x \in Client : mark[x] \in Nat /\ mark'[x] \in Nat /\ mark[x] <= mark'[x]
  BY CommittedIs
<1>2. ASSUME NEW x \in Client PROVE OutboxOK(x)'
  <2>1. OutboxOK(x) /\ Len(issued[x]) \in Nat
    BY DEF NumbersOK
  <2>2. mark'[x] \in 0..Len(issued[x])
    BY <1>1, <2>1 DEF OutboxOK
  <2>3. \A s \in (mark'[x] + 1)..Len(issued[x]) : s \in (mark[x] + 1)..Len(issued[x])
    BY <1>1, <2>1
  <2> QED
    BY <2>1, <2>2, <2>3 DEF OutboxOK, Waiting
<1>3. IdsAreFresh'
  BY DEF NumbersOK, IdsAreFresh
<1> QED
  BY <1>1, <1>2, <1>3 DEF NumbersOK

\* What was applied stays applied.
LEMMA AppliedStays ==
    ASSUME log \in Seq(Change), NEW c \in Client, NEW d, DecidedOK(c, d), log' = d.log, NEW op
    PROVE  /\ Applied(op) => Applied(op)'
           /\ InLog(d, op) => Applied(op)'
<1>1. /\ d.log \in Seq(Change) /\ Len(log) <= Len(d.log) /\ Len(log) \in Nat
      /\ \A i \in DOMAIN log : d.log[i] = log[i]
  BY DecisionParts DEF DecidedOK, LogGoesOn
<1>2. \A i \in DOMAIN log : i \in DOMAIN d.log
  BY <1>1
<1> QED
  BY <1>1, <1>2 DEF Applied, InLog

LEMMA CommittedDecisions ==
    ASSUME NumbersOK, DecisionsOK, NEW c \in Client, NEW d, DecidedOK(c, d), Committed(c, d),
           UNCHANGED issued
    PROVE  DecisionsOK'
<1>1. /\ log' = d.log /\ receipts' = d.receipts /\ mark'[c] = d.expected - 1
      /\ \A x \in Client : mark[x] \in Nat /\ mark'[x] \in Nat /\ mark[x] <= mark'[x]
  BY CommittedIs
<1>2. /\ log \in Seq(Change) /\ d.log \in Seq(Change) /\ d.receipts \subseteq Receipt
      /\ d.expected \in Nat /\ Len(log) \in Nat /\ Len(d.log) \in Nat
  BY DecisionParts DEF DecisionsOK, DecidedOK
<1>3. \A x : x.dev \in Client /\ IsDecided(x) => IsDecided(x)'
  <2> SUFFICES ASSUME NEW x, x.dev \in Client, IsDecided(x) PROVE IsDecided(x)'
    OBVIOUS
  <2>1. x.seq \in 1..Len(issued[x.dev]) /\ x.op = issued[x.dev][x.seq] /\ x.seq <= mark[x.dev]
    BY DEF IsDecided, IsOf
  <2>2. Len(issued[x.dev]) \in Nat
    BY DEF NumbersOK
  <2>3. x.seq <= mark'[x.dev]
    BY <1>1, <2>1, <2>2
  <2> QED
    BY <2>1, <2>3 DEF IsDecided, IsOf
<1>4. \A x : TakenUp(c, d, x) => /\ x.dev = c /\ x.seq \in Nat /\ x.seq > mark[c]
                                 /\ IsDecided(x)'
  <2> SUFFICES ASSUME NEW x, TakenUp(c, d, x)
               PROVE  x.dev = c /\ x.seq \in Nat /\ x.seq > mark[c] /\ IsDecided(x)'
    OBVIOUS
  <2>1. IsOf(c, x) /\ x.dev = c /\ x.seq \in (mark[c] + 1)..(d.expected - 1)
    BY DEF TakenUp
  <2>2. x.seq \in Nat /\ x.seq > mark[c] /\ x.seq <= mark'[c]
    BY <1>1, <1>2, <2>1
  <2> QED
    BY <2>1, <2>2 DEF IsDecided, IsOf
<1>5. /\ \A i \in DOMAIN log : i \in DOMAIN d.log /\ d.log[i] = log[i] /\ log[i].dev \in Client
      /\ \A i \in DOMAIN d.log : i \in DOMAIN log \/ i \in (Len(log) + 1)..Len(d.log)
  <2>1. \A i \in DOMAIN log : d.log[i] = log[i]
    BY DEF DecidedOK, LogGoesOn
  <2>2. Len(log) <= Len(d.log)
    BY DEF DecidedOK, LogGoesOn
  <2>3. \A i \in DOMAIN log : log[i] \in Change
    BY <1>2
  <2>4. \A i \in DOMAIN log : log[i].dev \in Client
    BY <2>3 DEF Change
  <2>5. DOMAIN log = 1..Len(log) /\ DOMAIN d.log = 1..Len(d.log)
    BY <1>2
  <2> QED
    BY <1>2, <2>1, <2>2, <2>4, <2>5
<1>6. \A i \in (Len(log) + 1)..Len(d.log) : TakenUp(c, d, d.log[i])
  BY DEF DecidedOK, LogGoesOn
<1>7. ASSUME NEW i \in DOMAIN log' PROVE IsDecided(log[i])'
  <2>1. CASE i \in DOMAIN log
    <3>1. IsDecided(log[i]) /\ log[i].dev \in Client /\ log'[i] = log[i]
      BY <1>1, <1>5, <2>1 DEF DecisionsOK
    <3>2. PICK x : x = log[i]
      OBVIOUS
    <3>3. IsDecided(x)'
      BY <1>3, <3>1, <3>2
    <3> QED
      BY <3>1, <3>2, <3>3 DEF IsDecided, IsOf
  <2>2. CASE i \in (Len(log) + 1)..Len(d.log)
    <3>1. IsDecided(d.log[i])'
      BY <1>4, <1>6, <2>2
    <3> QED
      BY <1>1, <3>1 DEF IsDecided, IsOf
  <2> QED
    BY <1>1, <1>5, <2>1, <2>2
<1>8. ASSUME NEW i \in DOMAIN log', NEW j \in DOMAIN log', log'[i].dev = log'[j].dev,
             log'[i].seq = log'[j].seq
      PROVE  i = j
  <2>1. \A k \in DOMAIN log : d.log[k].dev = c => d.log[k].seq \in Nat /\ d.log[k].seq <= mark[c]
    <3> SUFFICES ASSUME NEW k \in DOMAIN log, d.log[k].dev = c
                 PROVE  d.log[k].seq \in Nat /\ d.log[k].seq <= mark[c]
      OBVIOUS
    <3>1. IsDecided(log[k]) /\ d.log[k] = log[k] /\ log[k] \in Change
      BY <1>2, <1>5 DEF DecisionsOK
    <3> QED
      BY <3>1 DEF IsDecided, Change
  <2>2. \A k \in (Len(log) + 1)..Len(d.log) :
            d.log[k].dev = c /\ d.log[k].seq \in Nat /\ d.log[k].seq > mark[c]
    BY <1>4, <1>6
  <2>3. mark[c] \in Nat
    BY <1>1
  <2>4. CASE i \in DOMAIN log /\ j \in DOMAIN log
    BY <1>1, <1>5, <1>8, <2>4 DEF DecisionsOK
  <2>5. CASE i \in DOMAIN log /\ j \in (Len(log) + 1)..Len(d.log)
    BY <1>1, <1>8, <2>1, <2>2, <2>3, <2>5
  <2>6. CASE j \in DOMAIN log /\ i \in (Len(log) + 1)..Len(d.log)
    BY <1>1, <1>8, <2>1, <2>2, <2>3, <2>6
  <2>7. CASE i \in (Len(log) + 1)..Len(d.log) /\ j \in (Len(log) + 1)..Len(d.log)
    <3>1. /\ i < j => d.log[i].seq < d.log[j].seq
          /\ j < i => d.log[j].seq < d.log[i].seq
      BY <2>7 DEF DecidedOK, LogGoesOn
    <3>2. d.log[i].seq \in Nat /\ d.log[i].seq = d.log[j].seq /\ i \in Nat /\ j \in Nat
      BY <1>1, <1>2, <1>8, <2>2, <2>7
    <3> QED
      BY <3>1, <3>2
  <2> QED
    BY <1>1, <1>5, <2>4, <2>5, <2>6, <2>7
<1>9. ASSUME NEW r \in receipts' PROVE IsDecided(r)' /\ (r.status = "applied" => Applied(r.op)')
  <2>1. CASE r \in receipts
    <3>1. IsDecided(r) /\ (r.status = "applied" => Applied(r.op)) /\ r.dev \in Client
      BY <2>1 DEF DecisionsOK, Receipt
    <3> QED
      BY <1>1, <1>2, <1>3, <3>1, AppliedStays
  <2>2. CASE r \notin receipts
    <3>1. TakenUp(c, d, r) /\ (r.status = "applied" => InLog(d, r.op))
      BY <1>1, <2>2 DEF DecidedOK, ReceiptsGoOn
    <3> QED
      BY <1>1, <1>2, <1>4, <3>1, AppliedStays
  <2> QED
    BY <2>1, <2>2
<1> QED
  BY <1>1, <1>2, <1>7, <1>8, <1>9 DEF DecisionsOK

LEMMA CommittedReceipts ==
    ASSUME NumbersOK, DecisionsOK, ReceiptsOK, NEW c \in Client, NEW d, DecidedOK(c, d),
           Committed(c, d)
    PROVE  ReceiptsOK'
<1>1. /\ receipts' = d.receipts /\ mark'[c] = d.expected - 1
      /\ \A x \in Client : x # c => mark'[x] = mark[x]
      /\ \A x \in Client : mark[x] \in Nat /\ mark'[x] \in Nat /\ mark[x] <= mark'[x]
  BY CommittedIs
<1>2. receipts \subseteq d.receipts
  BY DEF DecidedOK, ReceiptsGoOn
<1> SUFFICES ASSUME ~ Forgets, NEW x \in Client, NEW s \in 1..mark'[x]
             PROVE  \E r \in receipts' : r.dev = x /\ r.seq = s
  BY DEF ReceiptsOK
<1>3. CASE s \in 1..mark[x]
  BY <1>1, <1>2, <1>3 DEF ReceiptsOK
<1>4. CASE s \notin 1..mark[x]
  <2>1. x = c
    BY <1>1, <1>4
  <2>2. s \in (mark[c] + 1)..(d.expected - 1)
    BY <1>1, <1>4, <2>1
  <2>3. \E r \in d.receipts : r.dev = c /\ r.seq = s
    BY <2>2 DEF DecidedOK, ReceiptsGoOn
  <2> QED
    BY <1>1, <2>1, <2>3
<1> QED
  BY <1>3, <1>4

LEMMA CommittedLoss ==
    ASSUME DecisionsOK, LossOK, NEW c \in Client, NEW d, DecidedOK(c, d), log' = d.log,
           UNCHANGED <<issued, outbox, cleared>>
    PROVE  LossOK'
<1>1. log \in Seq(Change)
  BY DEF DecisionsOK
<1>2. ASSUME NEW op PROVE Applied(op) => Applied(op)'
  BY <1>1, AppliedStays
<1> HIDE DEF Applied
<1>3. NoSilentLoss => NoSilentLoss'
  BY <1>2 DEF NoSilentLoss
<1> QED
  BY <1>3 DEF LossOK

LEMMA CommittedData ==
    ASSUME DataOK, NEW c \in Client, NEW d, DecidedOK(c, d), rows' = d.rows, log' = d.log,
           UNCHANGED <<view, shadow, cursor>>
    PROVE  DataOK'
<1>1. RowsOK(d.rows, d.log) /\ Grows(rows, log, d.rows, d.log)
  BY DEF DecidedOK
<1>2. ASSUME NEW x \in Client, NEW e \in Entity
      PROVE  Leads(shadow[x][e], e, d.log, cursor[x], d.rows)
  <2>1. Leads(shadow[x][e], e, log, cursor[x], rows) /\ cursor[x] \in Nat /\ shadow[x][e] \in Slot
    BY DEF DataOK, ShadowOK, Rows, Slot
  <2> QED
    BY <1>1, <2>1 DEF Grows
<1>3. \A x \in Client : PlainTable(shadow[x]) /\ cursor[x] \in 0..Len(d.log)
  <2> TAKE x \in Client
  <2>1. ShadowOK(x) /\ Len(log) \in Nat /\ Len(d.log) \in Nat /\ Len(log) <= Len(d.log)
    BY <1>1 DEF DataOK, RowsOK, DecidedOK, LogGoesOn
  <2>2. cursor[x] \in 0..Len(log) /\ PlainTable(shadow[x])
    BY <2>1 DEF ShadowOK
  <2>3. cursor[x] \in 0..Len(d.log)
    BY <2>1, <2>2
  <2> QED
    BY <2>2, <2>3
<1>4. /\ shadow \in [Client -> Rows] /\ view \in [Client -> Rows] /\ cursor \in [Client -> Nat]
  BY DEF DataOK
<1> QED
  BY <1>1, <1>2, <1>3, <1>4 DEF DataOK, ShadowOK

\* With a higher watermark a batch leaves out even less.
LEMMA BatchStays ==
    ASSUME NEW c \in Client, mark[c] \in Nat, mark'[c] \in Nat, mark[c] <= mark'[c],
           UNCHANGED issued, NEW batch, BatchOK(c, batch)
    PROVE  BatchOK(c, batch)'
<1>1. batch \in Seq(Item) /\ \A i, j \in DOMAIN batch : i < j => batch[i].seq < batch[j].seq
  BY DEF BatchOK
<1>2. ASSUME NEW i \in DOMAIN batch
      PROVE  /\ IsOf(c, batch[i])'
             /\ batch[i].seq > mark'[c] + 1 => i > 1 /\ batch[i - 1].seq = batch[i].seq - 1
  <2>1. batch[i].seq \in Nat
    <3>1. batch[i] \in Item
      BY <1>1
    <3> QED
      BY <3>1 DEF Item
  <2>2. IsOf(c, batch[i])
    BY DEF BatchOK
  <2>3. batch[i].seq > mark'[c] + 1 => batch[i].seq > mark[c] + 1
    BY <2>1
  <2>4. IsOf(c, batch[i])'
    BY <2>2 DEF IsOf
  <2> QED
    BY <2>3, <2>4 DEF BatchOK
<1> QED
  BY <1>1, <1>2 DEF BatchOK

\* A log that goes on is the same where it was.
LEMMA SamePart ==
    ASSUME NEW lg \in Seq(Change), NEW lg2 \in Seq(Change), Len(lg) <= Len(lg2),
           \A i \in DOMAIN lg : lg2[i] = lg[i], NEW from \in Nat, NEW to \in from..Len(lg)
    PROVE  SubSeq(lg2, from + 1, to) = SubSeq(lg, from + 1, to)
<1> DEFINE a == SubSeq(lg2, from + 1, to)
           b == SubSeq(lg, from + 1, to)
<1>1. a \in Seq(Change) /\ b \in Seq(Change) /\ Len(a) = to - from /\ Len(b) = to - from
  OBVIOUS
<1>2. ASSUME NEW i \in 1..(to - from) PROVE a[i] = b[i]
  <2>1. i + from \in 1..Len(lg) /\ lg2[i + from] = lg[i + from]
    OBVIOUS
  <2>2. a[i] = lg2[i + from] /\ b[i] = lg[i + from]
    OBVIOUS
  <2> QED
    BY <2>1, <2>2
<1> HIDE DEF a, b
<1>3. a = b
  BY <1>1, <1>2
<1> QED
  BY <1>3 DEF a, b

\* A run of another device, or a later step of this one, finds its data good.
LEMMA CommittedRun ==
    ASSUME NumbersOK, DecisionsOK, NEW c \in Client, NEW d, DecidedOK(c, d), Committed(c, d),
           UNCHANGED <<issued, cursor>>, cursor \in [Client -> Nat],
           NEW x \in Client, RunOK(x), run'[x] = run[x]
    PROVE  RunOK(x)'
<1>1. /\ rows' = d.rows /\ log' = d.log
      /\ mark[x] \in Nat /\ mark'[x] \in Nat /\ mark[x] <= mark'[x]
  BY CommittedIs
<1>2. /\ log \in Seq(Change) /\ d.log \in Seq(Change) /\ Len(log) \in Nat /\ Len(d.log) \in Nat
      /\ Len(log) <= Len(d.log) /\ \A i \in DOMAIN log : d.log[i] = log[i]
      /\ Grows(rows, log, d.rows, d.log)
  BY DecisionParts DEF DecisionsOK, DecidedOK, LogGoesOn
<1>3. CASE run[x].phase \in {"idle", "expired"}
  BY <1>3 DEF RunOK
<1>4. CASE /\ run[x].phase = "asking"
           /\ run[x] \in [phase : {"asking"}, batch : Seq(Item), cursor : Nat]
           /\ run[x].cursor = cursor[x] /\ BatchOK(x, run[x].batch)
  <2>1. PICK batch : batch = run[x].batch
    OBVIOUS
  <2>2. BatchOK(x, batch)'
    BY <1>1, <1>4, <2>1, BatchStays
  <2>3. BatchOK(x, run[x].batch)'
    BY <2>1, <2>2 DEF BatchOK, IsOf
  <2> QED
    BY <1>4, <2>3 DEF RunOK
<1>5. CASE /\ run[x].phase = "answered"
           /\ run[x] \in [phase : {"answered"}, acks : Seq(Ack), changes : Seq(Change), next : Nat]
           /\ \A i \in DOMAIN run[x].acks : AckOK(x, run[x].acks[i])
           /\ run[x].next \in cursor[x]..Len(log)
           /\ run[x].changes = SubSeq(log, cursor[x] + 1, run[x].next)
  <2>1. PICK y : y = run[x]
    OBVIOUS
  <2>2. ASSUME NEW i \in DOMAIN y.acks PROVE AckOK(x, y.acks[i])'
    <3>1. PICK a : a = y.acks[i]
      OBVIOUS
    <3>2. AckOK(x, a)
      BY <1>5, <2>1, <2>2, <3>1
    <3>3. PICK s \in 1..mark[x] : a.op = issued[x][s]
      BY <3>2 DEF AckOK
    <3>4. s \in 1..mark'[x] /\ a.op = issued'[x][s]
      BY <1>1, <3>3
    <3>5. Applied(a.op) => Applied(a.op)'
      BY <1>1, <1>2, AppliedStays
    <3>6. ~ Forgets /\ a.status # "rejected" => Applied(a.op)'
      BY <3>2, <3>5 DEF AckOK
    <3>7. AckOK(x, a)'
      BY <3>4, <3>6 DEF AckOK
    <3> QED
      BY <3>1, <3>7 DEF AckOK
  <2>3. y.next \in cursor[x]..Len(d.log) /\ cursor[x] \in Nat
    BY <1>2, <1>5, <2>1
  <2>4. SubSeq(log, cursor[x] + 1, y.next) = SubSeq(d.log, cursor[x] + 1, y.next)
    <3> DEFINE from == cursor[x]
    <3>1. from \in Nat /\ y.next \in from..Len(log)
      BY <1>5, <2>1, <2>3
    <3> HIDE DEF from
    <3>2. SubSeq(d.log, from + 1, y.next) = SubSeq(log, from + 1, y.next)
      BY <1>2, <3>1, SamePart
    <3> QED
      BY <3>2 DEF from
  <2>5. \A i \in DOMAIN run'[x].acks : AckOK(x, run[x].acks[i])'
    BY <2>1, <2>2 DEF AckOK
  <2>6. run'[x].changes = SubSeq(log', cursor'[x] + 1, run'[x].next)
    BY <1>1, <1>5, <2>1, <2>4
  <2>7. run'[x].next \in cursor'[x]..Len(log')
    BY <1>1, <2>1, <2>3
  <2> QED
    BY <1>5, <2>5, <2>6, <2>7 DEF RunOK
<1>6. CASE /\ run[x].phase = "paging"
           /\ run[x] \in [phase : {"paging"}, cursor : Nat, pos : Nat, got : Rows]
           /\ run[x].cursor \in 0..Len(log) /\ run[x].pos \in 1..(Len(IdOrder) + 1)
           /\ PlainTable(run[x].got)
           /\ \A e \in Entity : Read(x, e) => Leads(run[x].got[e], e, log, run[x].cursor, rows)
  <2>1. ASSUME NEW e \in Entity, Read(x, e)' PROVE Leads(run[x].got[e], e, d.log, run[x].cursor, d.rows)
    <3>1. Read(x, e)
      BY <2>1 DEF Read
    <3>2. Leads(run[x].got[e], e, log, run[x].cursor, rows)
      BY <1>6, <3>1
    <3>3. run[x].got[e] \in Slot /\ run[x].cursor \in Nat
      BY <1>6 DEF Rows, Slot
    <3> QED
      BY <1>2, <3>2, <3>3 DEF Grows
  <2>2. run[x].cursor \in 0..Len(d.log)
    BY <1>2, <1>6
  <2> QED
    BY <1>1, <1>6, <2>1, <2>2 DEF RunOK
<1> QED
  BY <1>3, <1>4, <1>5, <1>6 DEF RunOK

----------------------------------------------------------------------------
(* What a step of a device leaves alone. *)

\* What the device x has issued stays as it is.
IssuedStays(x) ==
    /\ Len(issued[x]) <= Len(issued'[x])
    /\ \A i \in 1..Len(issued[x]) : issued'[x][i] = issued[x][i]

LEMMA SameIssued ==
    ASSUME NumbersOK, UNCHANGED issued
    PROVE  issued' \in [Client -> Seq(OpId)] /\ \A x \in Client : IssuedStays(x)
<1>1. \A x \in Client : Len(issued[x]) \in Nat
  BY DEF NumbersOK
<1> QED
  BY <1>1 DEF NumbersOK, IssuedStays

LEMMA BatchKept ==
    ASSUME NumbersOK, issued' \in [Client -> Seq(OpId)], NEW x \in Client, IssuedStays(x),
           mark'[x] = mark[x], NEW batch, BatchOK(x, batch)
    PROVE  BatchOK(x, batch)'
<1>1. /\ batch \in Seq(Item) /\ \A i, j \in DOMAIN batch : i < j => batch[i].seq < batch[j].seq
      /\ Len(issued[x]) \in Nat /\ Len(issued'[x]) \in Nat
  BY DEF BatchOK, NumbersOK
<1>2. ASSUME NEW i \in DOMAIN batch
      PROVE  /\ IsOf(x, batch[i])'
             /\ batch[i].seq > mark'[x] + 1 => i > 1 /\ batch[i - 1].seq = batch[i].seq - 1
  <2>1. IsOf(x, batch[i])
    BY DEF BatchOK
  <2>2. batch[i].seq \in 1..Len(issued'[x]) /\ batch[i].op = issued'[x][batch[i].seq]
    BY <1>1, <2>1 DEF IsOf, IssuedStays
  <2>3. IsOf(x, batch[i])'
    BY <2>2 DEF IsOf
  <2> QED
    BY <2>3 DEF BatchOK
<1> QED
  BY <1>1, <1>2 DEF BatchOK

LEMMA LateKept ==
    ASSUME NumbersOK, LateOK, issued' \in [Client -> Seq(OpId)],
           \A x \in Client : IssuedStays(x), UNCHANGED <<mark, late>>
    PROVE  LateOK'
<1> SUFFICES ASSUME NEW q \in late
             PROVE  /\ q \in [dev : Client, batch : Seq(Item), cursor : Nat]
                    /\ BatchOK(q.dev, q.batch)'
  BY DEF LateOK, BatchOK, IsOf
<1>1. q \in [dev : Client, batch : Seq(Item), cursor : Nat] /\ BatchOK(q.dev, q.batch)
  BY DEF LateOK
<1>2. PICK x \in Client, batch \in Seq(Item) : x = q.dev /\ batch = q.batch
  BY <1>1
<1>3. BatchOK(x, batch)'
  BY <1>1, <1>2, BatchKept
<1> QED
  BY <1>1, <1>2, <1>3

LEMMA RunKept ==
    ASSUME NumbersOK, issued' \in [Client -> Seq(OpId)], NEW x \in Client, IssuedStays(x),
           UNCHANGED <<mark, log, rows>>, cursor'[x] = cursor[x], RunOK(x), run'[x] = run[x]
    PROVE  RunOK(x)'
<1>1. /\ Len(issued[x]) \in Nat /\ Len(issued'[x]) \in Nat /\ mark[x] \in 0..Len(issued[x])
  BY DEF NumbersOK, OutboxOK
<1>2. CASE run[x].phase \in {"idle", "expired"}
  BY <1>2 DEF RunOK
<1>3. CASE /\ run[x].phase = "asking"
           /\ run[x] \in [phase : {"asking"}, batch : Seq(Item), cursor : Nat]
           /\ run[x].cursor = cursor[x] /\ BatchOK(x, run[x].batch)
  <2>1. PICK batch : batch = run[x].batch
    OBVIOUS
  <2>2. BatchOK(x, batch)'
    BY <1>3, <2>1, BatchKept
  <2>3. BatchOK(x, run[x].batch)'
    BY <2>1, <2>2 DEF BatchOK, IsOf
  <2> QED
    BY <1>3, <2>3 DEF RunOK
<1>4. CASE /\ run[x].phase = "answered"
           /\ run[x] \in [phase : {"answered"}, acks : Seq(Ack), changes : Seq(Change), next : Nat]
           /\ \A i \in DOMAIN run[x].acks : AckOK(x, run[x].acks[i])
           /\ run[x].next \in cursor[x]..Len(log)
           /\ run[x].changes = SubSeq(log, cursor[x] + 1, run[x].next)
  <2>1. PICK y : y = run[x]
    OBVIOUS
  <2>2. ASSUME NEW i \in DOMAIN y.acks PROVE AckOK(x, y.acks[i])'
    <3>1. AckOK(x, y.acks[i])
      BY <1>4, <2>1
    <3>2. PICK s \in 1..mark[x] : y.acks[i].op = issued[x][s]
      BY <3>1 DEF AckOK
    <3>3. s \in 1..mark'[x] /\ y.acks[i].op = issued'[x][s]
      BY <1>1, <3>2 DEF IssuedStays
    <3>4. ~ Forgets /\ y.acks[i].status # "rejected" => Applied(y.acks[i].op)'
      BY <3>1 DEF AckOK, Applied
    <3> QED
      BY <3>3, <3>4 DEF AckOK
  <2>3. \A i \in DOMAIN run'[x].acks : AckOK(x, run[x].acks[i])'
    BY <2>1, <2>2 DEF AckOK
  <2> QED
    BY <1>4, <2>3 DEF RunOK
<1>5. CASE /\ run[x].phase = "paging"
           /\ run[x] \in [phase : {"paging"}, cursor : Nat, pos : Nat, got : Rows]
           /\ run[x].cursor \in 0..Len(log) /\ run[x].pos \in 1..(Len(IdOrder) + 1)
           /\ PlainTable(run[x].got)
           /\ \A e \in Entity : Read(x, e) => Leads(run[x].got[e], e, log, run[x].cursor, rows)
  BY <1>5 DEF RunOK, Read
<1> QED
  BY <1>2, <1>3, <1>4, <1>5 DEF RunOK

\* The others go on as before when one device takes a step of its own.
LEMMA OthersKept ==
    ASSUME NumbersOK, RunsOK, issued' \in [Client -> Seq(OpId)],
           \A x \in Client : IssuedStays(x), UNCHANGED <<mark, log, rows>>,
           NEW c \in Client, \A x \in Client : x # c => run'[x] = run[x] /\ cursor'[x] = cursor[x],
           run' \in [Client -> Run], RunOK(c)'
    PROVE  RunsOK'
<1>1. ASSUME NEW x \in Client PROVE RunOK(x)'
  <2>1. CASE x = c
    BY <2>1
  <2>2. CASE x # c
    <3>1. RunOK(x)
      BY DEF RunsOK
    <3> QED
      BY <2>2, <3>1, RunKept
  <2> QED
    BY <2>1, <2>2
<1> QED
  BY <1>1 DEF RunsOK

\* An operation that a device has in its outbox is one.
LEMMA OutboxIsBox ==
    ASSUME NumbersOK, NEW c \in Client
    PROVE  Box(outbox[c]) /\ Len(issued[c]) \in Nat
<1>1. issued \in [Client -> Seq(OpId)] /\ OutboxOK(c)
  BY DEF NumbersOK
<1> QED
  BY <1>1 DEF OutboxOK, StoredMutation, Box

LEMMA LeadsEnd ==
    ASSUME NEW rws, NEW lg \in Seq(Change), NEW e, NEW row \in Slot, row = Shown(rws)[e]
    PROVE  Leads(row, e, lg, Len(lg), rws)
<1>1. Len(lg) \in 0..Len(lg) /\ SubSeq(lg, Len(lg) + 1, Len(lg)) = <<>>
  OBVIOUS
<1>2. <<>> \in Seq(Change)
  OBVIOUS
<1>3. Told(row, e, <<>>) = row
  BY <1>2, ToldType
<1> QED
  BY <1>1, <1>3 DEF Leads

----------------------------------------------------------------------------
(* The invariant holds initially, and every step keeps it. *)

LEMMA InitInv ==
    ASSUME Init
    PROVE  Inv
<1> USE DEF Init
<1>1. NoRows \in Rows /\ \A e \in Entity : NoRows[e] = Absent
  BY DEF NoRows, Rows
<1>2. \A e \in Entity : Plain(NoRows[e]) /\ Shown(NoRows)[e] = Absent
  BY <1>1 DEF Plain, Slot, Shown
<1>3. \A x \in Client : Len(issued[x]) = 0 /\ DOMAIN outbox[x] = {} /\ mark[x] = 0
  OBVIOUS
<1>4. NumbersOK
  <2>1. IdsAreFresh
    BY DEF IdsAreFresh
  <2>2. ASSUME NEW x \in Client PROVE OutboxOK(x)
    <3>1. mark[x] \in 0..Len(issued[x]) /\ \A s \in (mark[x] + 1)..Len(issued[x]) : FALSE
      BY <1>3
    <3> QED
      BY <1>3, <3>1 DEF OutboxOK
  <2>3. issued \in [Client -> Seq(OpId)] /\ DOMAIN outbox = Client /\ mark \in [Client -> Nat]
    OBVIOUS
  <2> QED
    BY <2>1, <2>2, <2>3 DEF NumbersOK
<1>5. DecisionsOK
  BY DEF DecisionsOK
<1>6. ReceiptsOK
  BY <1>3 DEF ReceiptsOK
<1>7. LossOK
  BY DEF LossOK, NoSilentLoss, ToSet
<1>8. DataOK
  <2>0. log \in Seq(Change) /\ Len(log) = 0 /\ Absent \in Slot
    BY DEF Slot
  <2>1. ASSUME NEW e \in Entity PROVE Leads(Absent, e, log, 0, rows)
    BY <1>2, <2>0, LeadsEnd
  <2>2. RowsOK(rows, log)
    <3>1. ASSUME NEW e \in Entity, NEW at \in 0..Len(log)
          PROVE  Leads(Listing(rows, e, at), e, log, at, rows)
      <4>1. at = 0 /\ Listing(rows, e, at) = Absent
        BY <1>1, <2>0 DEF Listing
      <4> QED
        BY <2>1, <4>1
    <3> QED
      BY <1>1, <2>0, <3>1 DEF RowsOK
  <2>3. ASSUME NEW x \in Client PROVE ShadowOK(x)
    <3>1. shadow[x] = NoRows /\ cursor[x] = 0 /\ cursor[x] \in 0..Len(log)
      BY <2>0
    <3> QED
      BY <1>1, <1>2, <2>1, <3>1 DEF ShadowOK, PlainTable
  <2>4. shadow \in [Client -> Rows] /\ view \in [Client -> Rows] /\ cursor \in [Client -> Nat]
    BY <1>1
  <2> QED
    BY <2>2, <2>3, <2>4 DEF DataOK
<1>9. RunsOK
  BY DEF RunsOK, RunOK, Run, Idle
<1>10. LateOK
  BY DEF LateOK
<1> QED
  BY <1>4, <1>5, <1>6, <1>7, <1>8, <1>9, <1>10 DEF Inv

\* Phases that hold no data.
LEMMA NoData ==
    /\ Idle \in Run /\ [phase |-> "expired"] \in Run
    /\ \A x \in Client : run[x] = Idle \/ run[x] = [phase |-> "expired"] => RunOK(x)
BY DEF Idle, Run, RunOK

\* A step of the engine that only changes what it is doing.
LEMMA RunMoves ==
    ASSUME Inv, NEW c \in Client, NEW r \in Run, run' = [run EXCEPT ![c] = r],
           UNCHANGED <<issued, outbox, mark, log, rows, receipts, cleared, shadow, view, cursor>>,
           RunOK(c)'
    PROVE  /\ NumbersOK' /\ DecisionsOK' /\ ReceiptsOK' /\ LossOK' /\ DataOK' /\ RunsOK'
           /\ late' = late => LateOK'
<1>1. NumbersOK' /\ DecisionsOK' /\ ReceiptsOK' /\ LossOK' /\ DataOK'
  <2>1. NumbersOK'
    BY DEF Inv, NumbersOK, IdsAreFresh, OutboxOK, Waiting
  <2>2. DecisionsOK'
    BY DEF Inv, DecisionsOK, IsDecided, IsOf, Applied
  <2>3. ReceiptsOK'
    BY DEF Inv, ReceiptsOK
  <2>4. LossOK'
    BY DEF Inv, LossOK, NoSilentLoss, Applied
  <2>5. DataOK'
    BY DEF Inv, DataOK, ShadowOK
  <2> QED
    BY <2>1, <2>2, <2>3, <2>4, <2>5
<1>2. NumbersOK /\ RunsOK /\ LateOK /\ run \in [Client -> Run]
  BY DEF Inv, RunsOK
<1>3. issued' \in [Client -> Seq(OpId)] /\ \A x \in Client : IssuedStays(x)
  BY <1>2, SameIssued
<1>4. run' \in [Client -> Run] /\ \A x \in Client : x # c => run'[x] = run[x]
  BY <1>2
<1>5. RunsOK'
  BY <1>2, <1>3, <1>4, OthersKept
<1>6. late' = late => LateOK'
  BY <1>2, <1>3, LateKept
<1> QED
  BY <1>1, <1>5, <1>6

LEMMA SendInv ==
    ASSUME Inv, NEW c \in Client, Send(c)
    PROVE  Inv'
<1> DEFINE n == IF Len(Pending(c)) < Limit THEN Len(Pending(c)) ELSE Limit
           batch == SubSeq(Pending(c), 1, n)
           r == [phase |-> "asking", cursor |-> cursor[c], batch |-> batch]
<1>1. /\ run' = [run EXCEPT ![c] = r] /\ late' = late
      /\ UNCHANGED <<issued, outbox, mark, log, rows, receipts, cleared, shadow, view, cursor>>
  BY DEF Send, server, store
<1>2. NumbersOK /\ RunsOK /\ cursor[c] \in Nat
  BY DEF Inv, DataOK
<1>3. BatchOK(c, Pending(c))
  BY <1>2, PendingOK
<1>4. n \in 0..Len(Pending(c))
  <2>1. Pending(c) \in Seq(Item)
    BY <1>3 DEF BatchOK
  <2> QED
    BY <2>1, ProtocolAssumption DEF ProtocolAssumption
<1> HIDE DEF n
<1>5. BatchOK(c, batch)
  BY <1>3, <1>4, FirstOK
<1> HIDE DEF batch
<1>6. /\ r \in [phase : {"asking"}, batch : Seq(Item), cursor : Nat] /\ r \in Run
      /\ r.phase = "asking" /\ r.cursor = cursor[c] /\ r.batch = batch
  BY <1>2, <1>5 DEF Run, BatchOK
<1> HIDE DEF r
<1>7. RunOK(c)'
  <2>1. run'[c] = r
    BY <1>1, <1>2 DEF RunsOK
  <2>2. PICK b : b = batch
    OBVIOUS
  <2>3. BatchOK(c, b)'
    BY <1>1, <1>5, <2>2 DEF BatchOK, IsOf
  <2>4. BatchOK(c, run[c].batch)'
    BY <1>6, <2>1, <2>2, <2>3 DEF BatchOK, IsOf
  <2>5. run'[c].cursor = cursor'[c]
    BY <1>1, <1>6, <2>1
  <2> QED
    BY <1>6, <2>1, <2>4, <2>5 DEF RunOK
<1> QED
  BY <1>1, <1>6, <1>7, RunMoves DEF Inv

LEMMA ExpiredInv ==
    ASSUME Inv, NEW c \in Client, Expired(c)
    PROVE  Inv'
<1>1. /\ run' = [run EXCEPT ![c] = [phase |-> "expired"]] /\ late' = late
      /\ UNCHANGED <<issued, outbox, mark, log, rows, receipts, cleared, shadow, view, cursor>>
  BY DEF Expired, server, store
<1>2. run'[c] = [phase |-> "expired"]
  BY <1>1 DEF Inv, RunsOK
<1>3. RunOK(c)'
  BY <1>2 DEF RunOK
<1> QED
  BY <1>1, <1>3, NoData, RunMoves DEF Inv

LEMMA DropInv ==
    ASSUME Inv, NEW c \in Client, Drop(c)
    PROVE  Inv'
<1>1. /\ run' = [run EXCEPT ![c] = Idle]
      /\ UNCHANGED <<issued, outbox, mark, log, rows, receipts, cleared, shadow, view, cursor>>
  BY DEF Drop, server, store
<1>2. run'[c] = Idle
  BY <1>1 DEF Inv, RunsOK
<1>3. RunOK(c)'
  BY <1>2 DEF RunOK, Idle
<1>4. /\ NumbersOK' /\ DecisionsOK' /\ ReceiptsOK' /\ LossOK' /\ DataOK' /\ RunsOK'
      /\ late' = late => LateOK'
  BY <1>1, <1>3, NoData, RunMoves
<1>5. CASE late' = late
  BY <1>4, <1>5 DEF Inv
<1>6. CASE run[c].phase = "asking" /\
           late' = late \cup {[dev |-> c, batch |-> run[c].batch, cursor |-> run[c].cursor]}
  <2> DEFINE q == [dev |-> c, batch |-> run[c].batch, cursor |-> run[c].cursor]
  <2>1. RunOK(c) /\ LateOK /\ NumbersOK
    BY DEF Inv, RunsOK
  <2>2. run[c].batch \in Seq(Item) /\ run[c].cursor \in Nat /\ BatchOK(c, run[c].batch)
    BY <1>6, <2>1 DEF RunOK
  <2>3. /\ q \in [dev : Client, batch : Seq(Item), cursor : Nat] /\ BatchOK(q.dev, q.batch)
    BY <2>2
  <2> HIDE DEF q
  <2>4. \A p \in late' : /\ p \in [dev : Client, batch : Seq(Item), cursor : Nat]
                         /\ BatchOK(p.dev, p.batch)
    BY <1>6, <2>1, <2>3 DEF LateOK, q
  <2>5. LateOK'
    BY <1>1, <2>4 DEF LateOK, BatchOK, IsOf
  <2> QED
    BY <1>4, <2>5 DEF Inv
<1> QED
  BY <1>5, <1>6 DEF Drop

LEMMA OpenBootstrapInv ==
    ASSUME Inv, NEW c \in Client, OpenBootstrap(c)
    PROVE  Inv'
<1> DEFINE r == [phase |-> "paging", cursor |-> Len(log), pos |-> 1, got |-> NoRows]
<1>1. /\ run' = [run EXCEPT ![c] = r] /\ late' = late
      /\ UNCHANGED <<issued, outbox, mark, log, rows, receipts, cleared, shadow, view, cursor>>
  BY DEF OpenBootstrap, server, store
<1>2. NoRows \in Rows /\ PlainTable(NoRows)
  BY DEF NoRows, Rows, PlainTable, Plain, Slot
<1>3. log \in Seq(Change) /\ Len(log) \in Nat /\ IdOrder \in Seq(Entity) /\ Len(IdOrder) \in Nat
  BY ProtocolAssumption DEF ProtocolAssumption, Inv, DecisionsOK
<1>4. r \in [phase : {"paging"}, cursor : Nat, pos : Nat, got : Rows] /\ r \in Run
  BY <1>2, <1>3 DEF Run
<1>5. RunOK(c)'
  <2>1. run'[c] = r
    BY <1>1 DEF Inv, RunsOK
  <2>2. ASSUME NEW e \in Entity PROVE ~ Read(c, e)'
    BY <2>1 DEF Read
  <2>3. run'[c].cursor \in 0..Len(log') /\ run'[c].pos \in 1..(Len(IdOrder) + 1)
    BY <1>1, <1>3, <2>1
  <2>4. PlainTable(run[c].got)'
    BY <1>2, <2>1 DEF PlainTable
  <2> QED
    BY <1>4, <2>1, <2>2, <2>3, <2>4 DEF RunOK
<1> QED
  BY <1>1, <1>4, <1>5, RunMoves DEF Inv

\* A page more.
LEMMA PageTurned ==
    ASSUME NEW y \in [phase : {"paging"}, cursor : Nat, pos : Nat, got : [Entity -> Slot]],
           NEW f \in Entity, NEW v \in Slot
    PROVE  [y EXCEPT !.pos = @ + 1, !.got[f] = v] =
               [phase |-> "paging", cursor |-> y.cursor, pos |-> y.pos + 1,
                got |-> [y.got EXCEPT ![f] = v]]
<1> DEFINE g == [y.got EXCEPT ![f] = v]
<1>1. [y EXCEPT !.pos = @ + 1, !.got[f] = v] = [y EXCEPT !.pos = @ + 1, !.got = g]
  OBVIOUS
<1> HIDE DEF g
<1>2. [y EXCEPT !.pos = @ + 1, !.got = g] =
          [phase |-> "paging", cursor |-> y.cursor, pos |-> y.pos + 1, got |-> g]
  <2> DEFINE h == y.pos + 1
             x == [y EXCEPT !.pos = h]
  <2>1. y = [phase |-> "paging", cursor |-> y.cursor, pos |-> y.pos, got |-> y.got]
    OBVIOUS
  <2>2. x = [phase |-> "paging", cursor |-> y.cursor, pos |-> h, got |-> y.got]
    OBVIOUS
  <2>3. [y EXCEPT !.pos = @ + 1, !.got = g] = [x EXCEPT !.got = g]
    OBVIOUS
  <2> HIDE DEF x, h
  <2>4. [x EXCEPT !.got = g] = [phase |-> "paging", cursor |-> y.cursor, pos |-> h, got |-> g]
    BY <2>2
  <2> QED
    BY <2>3, <2>4 DEF h
<1> QED
  BY <1>1, <1>2 DEF g

LEMMA NextPageInv ==
    ASSUME Inv, NEW c \in Client, NextPage(c)
    PROVE  Inv'
<1> DEFINE pos == run[c].pos
           at == run[c].cursor
           e0 == IdOrder[pos]
           got == [run[c].got EXCEPT ![e0] = Listing(rows, e0, at)]
           r == [phase |-> "paging", cursor |-> at, pos |-> pos + 1, got |-> got]
<1>1. /\ RunOK(c) /\ run[c].phase = "paging" /\ pos <= Len(IdOrder) /\ RowsOK(rows, log)
      /\ run \in [Client -> Run]
  BY DEF Inv, RunsOK, NextPage, DataOK
<1>2. /\ run[c] \in [phase : {"paging"}, cursor : Nat, pos : Nat, got : Rows]
      /\ at \in 0..Len(log) /\ pos \in 1..(Len(IdOrder) + 1) /\ PlainTable(run[c].got)
      /\ \A e \in Entity : Read(c, e) => Leads(run[c].got[e], e, log, at, rows)
  BY <1>1 DEF RunOK
<1>3. /\ IdOrder \in Seq(Entity) /\ Len(IdOrder) \in Nat /\ pos \in 1..Len(IdOrder) /\ e0 \in Entity
  BY <1>1, <1>2, ProtocolAssumption DEF ProtocolAssumption
<1>4. Listing(rows, e0, at) \in Slot /\ Plain(Listing(rows, e0, at))
      /\ Leads(Listing(rows, e0, at), e0, log, at, rows)
  <2>1. rows \in Rows
    BY <1>1 DEF RowsOK
  <2>2. Listing(rows, e0, at) = Absent \/ Listing(rows, e0, at) = Shown(rows)[e0]
    BY <1>3 DEF Listing, Shown
  <2>3. Shown(rows)[e0] \in Slot /\ Plain(Shown(rows)[e0])
    BY <1>3, <2>1, ShownType
  <2>4. Absent \in Slot /\ Plain(Absent)
    BY DEF Slot, Plain
  <2> QED
    BY <1>1, <1>2, <1>3, <2>2, <2>3, <2>4 DEF RowsOK
<1>5. /\ run' = [run EXCEPT ![c] = r] /\ late' = late
      /\ UNCHANGED <<issued, outbox, mark, log, rows, receipts, cleared, shadow, view, cursor>>
  <2>1. /\ run' = [run EXCEPT ![c].pos = @ + 1, ![c].got[e0] = Listing(rows, e0, at)]
        /\ late' = late
        /\ UNCHANGED <<issued, outbox, mark, log, rows, receipts, cleared, shadow, view, cursor>>
    BY DEF NextPage, Listing, server, store
  <2>2. [run[c] EXCEPT !.pos = @ + 1, !.got[e0] = Listing(rows, e0, at)] = r
    <3>1. run[c] \in [phase : {"paging"}, cursor : Nat, pos : Nat, got : [Entity -> Slot]]
      BY <1>2 DEF Rows, Slot
    <3> QED
      BY <1>3, <1>4, <3>1, PageTurned
  <2> HIDE DEF r
  <2>3. run' = [run EXCEPT ![c] = [run[c] EXCEPT !.pos = @ + 1, !.got[e0] = Listing(rows, e0, at)]]
    BY <1>1, <2>1
  <2> QED
    BY <2>1, <2>2, <2>3
<1>6. /\ got \in Rows /\ got[e0] = Listing(rows, e0, at)
      /\ \A e \in Entity : e # e0 => got[e] = run[c].got[e]
  BY <1>2, <1>3, <1>4 DEF Rows, Slot
<1> HIDE DEF got
<1>7. PlainTable(got)
  BY <1>2, <1>4, <1>6 DEF PlainTable
<1>8. /\ r \in [phase : {"paging"}, cursor : Nat, pos : Nat, got : Rows] /\ r \in Run
      /\ r.phase = "paging" /\ r.cursor = at /\ r.pos = pos + 1 /\ r.got = got
  BY <1>2, <1>6 DEF Run
<1> HIDE DEF r
<1>9. RunOK(c)'
  <2>1. run'[c] = r
    BY <1>1, <1>5
  <2>2. ASSUME NEW e \in Entity, Read(c, e)' PROVE Leads(got[e], e, log, at, rows)
    <3>1. PICK i \in 1..pos : IdOrder[i] = e
      BY <1>2, <1>8, <2>1, <2>2 DEF Read
    <3>2. CASE e = e0
      BY <1>4, <1>6, <3>2
    <3>3. CASE e # e0
      <4>1. i \in 1..(pos - 1)
        BY <1>3, <3>1, <3>3
      <4>2. Read(c, e)
        BY <3>1, <4>1 DEF Read
      <4> QED
        BY <1>2, <1>6, <3>3, <4>2
    <3> QED
      BY <3>2, <3>3
  <2>3. run'[c].cursor \in 0..Len(log') /\ run'[c].pos \in 1..(Len(IdOrder) + 1)
    BY <1>2, <1>3, <1>5, <1>8, <2>1
  <2>4. PlainTable(run[c].got)'
    BY <1>7, <1>8, <2>1 DEF PlainTable
  <2>5. \A e \in Entity : Read(c, e)' => Leads(run'[c].got[e], e, log', run'[c].cursor, rows')
    BY <1>5, <1>8, <2>1, <2>2
  <2> QED
    BY <1>8, <2>1, <2>3, <2>4, <2>5 DEF RunOK
<1> QED
  BY <1>5, <1>8, <1>9, RunMoves DEF Inv

\* What a device keeps when the user gives up what was rejected.
LEMMA ClearRejectedInv ==
    ASSUME Inv, NEW c \in Client, ClearRejected(c)
    PROVE  Inv'
<1> DEFINE W == Waiting(outbox[c])
           R == Rejected(outbox[c])
           kept == Restrict(outbox[c], W)
           rejected == Listed(c, R)
<1>1. /\ outbox' = [outbox EXCEPT ![c] = kept]
      /\ view' = [view EXCEPT ![c] =
              ReprojectEach(c, shadow[c], kept, @, EntitiesOf(rejected))]
      /\ cleared' = cleared \cup {o.op : o \in ToSet(rejected)}
      /\ UNCHANGED <<issued, mark, log, rows, receipts, shadow, cursor, run, late>>
  BY DEF ClearRejected, server, store
<1>2. /\ NumbersOK /\ DecisionsOK /\ ReceiptsOK /\ LossOK /\ DataOK /\ RunsOK /\ LateOK
      /\ OutboxOK(c) /\ Box(outbox[c]) /\ Len(issued[c]) \in Nat /\ issued \in [Client -> Seq(OpId)]
  BY OutboxIsBox DEF Inv, NumbersOK
<1>3. /\ W \subseteq DOMAIN outbox[c] /\ R \subseteq DOMAIN outbox[c]
      /\ \A s \in DOMAIN outbox[c] : s \in W \/ s \in R
  BY <1>2 DEF Waiting, Rejected, OutboxOK, StoredMutation
<1> HIDE DEF R
<1>4. /\ rejected \in Seq(Item) /\ \A i \in DOMAIN rejected : IsOf(c, rejected[i])
      /\ \A s \in R : \E i \in DOMAIN rejected : rejected[i].seq = s
  BY <1>2, <1>3, ListedIs
<1> HIDE DEF rejected
<1>5. DOMAIN kept = W /\ \A s \in W : kept[s] = outbox[c][s]
  BY DEF Restrict
<1>6. Waiting(kept) = W
  BY <1>5 DEF Waiting
<1>7. Box(kept)
  BY <1>2, <1>3, <1>5 DEF Box
<1> HIDE DEF kept, W
<1>8. outbox'[c] = kept /\ DOMAIN outbox' = Client /\ \A x \in Client : x # c => outbox'[x] = outbox[x]
  BY <1>1, <1>2 DEF NumbersOK
<1>9. NumbersOK'
  <2>1. ASSUME NEW x \in Client PROVE OutboxOK(x)'
    <3>1. CASE x # c
      <4>1. OutboxOK(x)
        BY <1>2 DEF NumbersOK
      <4> QED
        BY <1>1, <1>8, <3>1, <4>1 DEF OutboxOK, Waiting
    <3>2. CASE x = c
      <4>1. \A s \in (mark[c] + 1)..Len(issued[c]) : s \in Waiting(kept)
        BY <1>2, <1>6 DEF OutboxOK, W
      <4>2. \A s \in DOMAIN kept :
                /\ s \in 1..Len(issued[c]) /\ kept[s] \in StoredMutation
                /\ kept[s].op = issued[c][s]
        BY <1>2, <1>3, <1>5 DEF OutboxOK
      <4>3. Waiting(outbox[c])' = Waiting(kept)
        BY <1>8 DEF Waiting
      <4> QED
        BY <1>1, <1>2, <1>8, <3>2, <4>1, <4>2, <4>3 DEF OutboxOK
    <3> QED
      BY <3>1, <3>2
  <2>2. IdsAreFresh'
    BY <1>1, <1>2 DEF NumbersOK, IdsAreFresh
  <2> QED
    BY <1>1, <1>2, <1>8, <2>1, <2>2 DEF NumbersOK
<1>10. DecisionsOK' /\ ReceiptsOK'
  <2>1. DecisionsOK'
    BY <1>1, <1>2 DEF DecisionsOK, IsDecided, IsOf, Applied
  <2> QED
    BY <1>1, <1>2, <2>1 DEF ReceiptsOK
<1>11. LossOK'
  <2>1. {o.op : o \in ToSet(rejected)} \subseteq OpId
    <3>1. \A o \in Item : o.op \in OpId
      BY DEF Item
    <3>2. \A o \in ToSet(rejected) : o \in Item
      BY <1>4 DEF ToSet
    <3> QED
      BY <3>1, <3>2
  <2>2. ASSUME ~ Forgets, NEW x \in Client, NEW op \in ToSet(issued[x])
        PROVE  \/ Applied(op)' \/ op \in cleared'
               \/ \E s \in DOMAIN outbox'[x] : outbox'[x][s].op = op
    <3>1. \/ Applied(op) \/ op \in cleared
          \/ \E s \in DOMAIN outbox[x] : outbox[x][s].op = op
      BY <1>2, <2>2 DEF LossOK, NoSilentLoss
    <3>2. CASE Applied(op) \/ op \in cleared
      BY <1>1, <3>2 DEF Applied
    <3>3. CASE x # c /\ \E s \in DOMAIN outbox[x] : outbox[x][s].op = op
      BY <1>8, <3>3
    <3>4. CASE x = c /\ \E s \in DOMAIN outbox[x] : outbox[x][s].op = op
      <4>1. PICK s \in DOMAIN outbox[c] : outbox[c][s].op = op
        BY <3>4
      <4>2. CASE s \in W
        BY <1>5, <1>8, <3>4, <4>1, <4>2
      <4>3. CASE s \in R
        <5>1. PICK i \in DOMAIN rejected : rejected[i].seq = s
          BY <1>4, <4>3
        <5>2. rejected[i].op = op
          BY <1>2, <1>4, <4>1, <5>1 DEF IsOf, OutboxOK
        <5>3. rejected[i] \in ToSet(rejected)
          BY <5>1 DEF ToSet
        <5>4. op \in {o.op : o \in ToSet(rejected)}
          BY <5>2, <5>3
        <5> QED
          BY <1>1, <5>4
      <4> QED
        BY <1>3, <4>2, <4>3
    <3> QED
      BY <3>1, <3>2, <3>3, <3>4
  <2>3. cleared' \subseteq OpId
    BY <1>1, <1>2, <2>1 DEF LossOK
  <2>4. ~ Forgets => NoSilentLoss'
    BY <1>1, <2>2 DEF NoSilentLoss
  <2> QED
    BY <2>3, <2>4 DEF LossOK
<1>12. DataOK'
  <2>1. EntitiesOf(rejected) \in Seq(Entity)
    <3>1. \A i \in DOMAIN rejected : EntityOf(rejected[i]) \in Entity
      <4> TAKE i \in DOMAIN rejected
      <4>1. rejected[i] \in Item
        BY <1>4
      <4>2. rejected[i].op \in OpId
        BY <4>1 DEF Item
      <4> QED
        BY <4>2, ContentIs DEF EntityOf
    <3>2. DOMAIN rejected = 1..Len(rejected) /\ Len(rejected) \in Nat
      BY <1>4
    <3>3. EntitiesOf(rejected) \in [1..Len(rejected) -> Entity]
      BY <3>1, <3>2 DEF EntitiesOf
    <3> QED
      BY <3>2, <3>3
  <2>2. shadow[c] \in Rows /\ view[c] \in Rows
    BY <1>2 DEF DataOK
  <2>3. ReprojectEach(c, shadow[c], kept, view[c], EntitiesOf(rejected)) \in Rows
    BY <1>2, <1>7, <2>1, <2>2, ReprojectEachIs
  <2>4. view' \in [Client -> Rows]
    BY <1>1, <1>2, <2>3 DEF DataOK
  <2> QED
    BY <1>1, <1>2, <2>4 DEF DataOK, ShadowOK
<1>13. issued' \in [Client -> Seq(OpId)] /\ \A x \in Client : IssuedStays(x)
  BY <1>1, <1>2, SameIssued
<1>14. RunsOK'
  <2>1. RunOK(c) /\ run' \in [Client -> Run]
    BY <1>1, <1>2 DEF RunsOK
  <2>2. RunOK(c)'
    BY <1>1, <1>2, <1>13, <2>1, RunKept
  <2> QED
    BY <1>1, <1>2, <1>13, <2>1, <2>2, OthersKept
<1>15. LateOK'
  BY <1>1, <1>2, <1>13, LateKept
<1> QED
  BY <1>9, <1>10, <1>11, <1>12, <1>14, <1>15 DEF Inv

\* What the outbox of a device holds after a command.
LEMMA IssuedIs ==
    ASSUME Inv, NEW c \in Client, NEW command \in Seq(OpId), Issue(c, command)
    PROVE  /\ issued' \in [Client -> Seq(OpId)] /\ Len(issued[c]) \in Nat
           /\ Len(issued'[c]) = Len(issued[c]) + Len(command)
           /\ \A i \in 1..Len(issued[c]) : issued'[c][i] = issued[c][i]
           /\ \A i \in 1..Len(command) : issued'[c][Len(issued[c]) + i] = command[i]
           /\ DOMAIN outbox' = Client
           /\ \A x \in Client : x # c => issued'[x] = issued[x] /\ outbox'[x] = outbox[x]
           /\ DOMAIN outbox'[c] = DOMAIN outbox[c] \cup
                                  ((Len(issued[c]) + 1)..(Len(issued[c]) + Len(command)))
           /\ \A s \in DOMAIN outbox[c] : outbox'[c][s] = outbox[c][s]
           /\ \A i \in 1..Len(command) :
                  outbox'[c][Len(issued[c]) + i] = [op |-> command[i], status |-> "pending"]
<1> DEFINE L == Len(issued[c])
           box == NumberedFrom(L, command)
<1>1. /\ issued' = [issued EXCEPT ![c] = issued[c] \o command]
      /\ outbox' = [outbox EXCEPT ![c] = Added(outbox[c], box)]
  BY DEF Issue, Numbered
<1>2. /\ issued \in [Client -> Seq(OpId)] /\ DOMAIN outbox = Client /\ L \in Nat
      /\ \A s \in DOMAIN outbox[c] : s \in 1..L
  BY DEF Inv, NumbersOK, OutboxOK
<1>3. /\ issued'[c] = issued[c] \o command /\ issued' \in [Client -> Seq(OpId)]
      /\ \A x \in Client : x # c => issued'[x] = issued[x] /\ outbox'[x] = outbox[x]
      /\ DOMAIN outbox' = Client /\ outbox'[c] = Added(outbox[c], box)
  BY <1>1, <1>2
<1>4. /\ Len(issued'[c]) = L + Len(command)
      /\ \A i \in 1..L : issued'[c][i] = issued[c][i]
      /\ \A i \in 1..Len(command) : issued'[c][L + i] = command[i]
  BY <1>2, <1>3
<1> HIDE DEF L
<1>5. /\ DOMAIN box = (L + 1)..(L + Len(command))
      /\ \A s \in (L + 1)..(L + Len(command)) : box[s] = [op |-> command[s - L], status |-> "pending"]
  BY DEF NumberedFrom
<1> HIDE DEF box
<1>6. /\ DOMAIN outbox'[c] = DOMAIN box \cup DOMAIN outbox[c]
      /\ \A s \in DOMAIN outbox[c] : s \notin DOMAIN box => outbox'[c][s] = outbox[c][s]
      /\ \A s \in DOMAIN box : outbox'[c][s] = box[s]
  BY <1>3 DEF Added
<1>7. \A s \in DOMAIN outbox[c] : s \notin DOMAIN box
  BY <1>2, <1>5
<1>8. \A i \in 1..Len(command) : L + i \in (L + 1)..(L + Len(command)) /\ (L + i) - L = i
  BY <1>2
<1>9. \A i \in 1..Len(command) : outbox'[c][L + i] = [op |-> command[i], status |-> "pending"]
  BY <1>5, <1>6, <1>8
<1> QED
  BY <1>2, <1>3, <1>4, <1>5, <1>6, <1>7, <1>9 DEF L

LEMMA IssueInv ==
    ASSUME Inv, NEW c \in Client, NEW command \in Commands[c], Issue(c, command)
    PROVE  Inv'
<1> DEFINE L == Len(issued[c])
           M == Len(command)
<1>0. command \in Seq(OpId) /\ M \in Nat
  <2>1. Commands[c] \in SUBSET Seq(OpId)
    BY ProtocolAssumption DEF ProtocolAssumption
  <2> QED
    BY <2>1
<1>1. /\ NumbersOK /\ DecisionsOK /\ ReceiptsOK /\ LossOK /\ DataOK /\ RunsOK /\ LateOK
  BY DEF Inv
<1>2. /\ view' = [view EXCEPT ![c] = Edited(view[c], command, M)]
      /\ UNCHANGED <<mark, log, rows, receipts, shadow, cursor, cleared, run, late>>
      /\ FreshIds(command)
  BY DEF Issue, server
<1>3. /\ issued' \in [Client -> Seq(OpId)] /\ L \in Nat
      /\ Len(issued'[c]) = L + M
      /\ \A i \in 1..L : issued'[c][i] = issued[c][i]
      /\ \A i \in 1..M : issued'[c][L + i] = command[i]
      /\ DOMAIN outbox' = Client
      /\ \A x \in Client : x # c => issued'[x] = issued[x] /\ outbox'[x] = outbox[x]
      /\ DOMAIN outbox'[c] = DOMAIN outbox[c] \cup ((L + 1)..(L + M))
      /\ \A s \in DOMAIN outbox[c] : outbox'[c][s] = outbox[c][s]
      /\ \A i \in 1..M : outbox'[c][L + i] = [op |-> command[i], status |-> "pending"]
  BY <1>0, IssuedIs
<1> HIDE DEF L, M
<1>4. \A s \in (L + 1)..(L + M) :
          /\ s - L \in 1..M /\ s \in Nat /\ issued'[c][s] = command[s - L]
          /\ outbox'[c][s] = [op |-> command[s - L], status |-> "pending"]
          /\ outbox'[c][s].op = command[s - L] /\ outbox'[c][s].status = "pending"
  <2> SUFFICES ASSUME NEW s \in (L + 1)..(L + M)
               PROVE  /\ s - L \in 1..M /\ s \in Nat /\ issued'[c][s] = command[s - L]
                      /\ outbox'[c][s] = [op |-> command[s - L], status |-> "pending"]
    OBVIOUS
  <2>1. PICK i \in 1..M : s = L + i /\ s - L = i
    <3>1. s - L \in 1..M /\ s = L + (s - L)
      BY <1>0, <1>3
    <3> QED
      BY <3>1
  <2> QED
    BY <1>0, <1>3, <2>1
<1>5. ASSUME NEW x \in Client PROVE IssuedStays(x)
  <2>1. Len(issued[x]) \in Nat
    BY <1>1 DEF NumbersOK
  <2>2. CASE x = c
    BY <1>0, <1>3, <2>2 DEF IssuedStays, L
  <2>3. CASE x # c
    BY <1>3, <2>1, <2>3 DEF IssuedStays
  <2> QED
    BY <2>2, <2>3
<1>6. IdsAreFresh'
  <2>1. /\ \A i, j \in 1..M : command[i] = command[j] => i = j
        /\ \A i \in 1..M : \A x \in Client : \A j \in 1..Len(issued[x]) : issued[x][j] # command[i]
    <3>1. DOMAIN command = 1..M
      BY <1>0 DEF M
    <3>2. \A i, j \in 1..M : command[i] = command[j] => i = j
      BY <1>2, <3>1 DEF FreshIds, IsInjective
    <3>3. \A i \in 1..M : \A x \in Client : ~ Contains(issued[x], command[i])
      BY <1>2, <3>1 DEF FreshIds
    <3> QED
      BY <3>2, <3>3 DEF Contains
  <2>2. ASSUME NEW x \in Client, NEW i \in DOMAIN issued'[x]
        PROVE  \/ i \in DOMAIN issued[x] /\ issued'[x][i] = issued[x][i]
               \/ x = c /\ i \in (L + 1)..(L + M) /\ issued'[x][i] = command[i - L]
    <3>1. issued[x] \in Seq(OpId) /\ issued'[x] \in Seq(OpId) /\ issued[c] \in Seq(OpId)
      BY <1>1, <1>3 DEF NumbersOK
    <3>2. CASE x # c
      BY <1>3, <2>2, <3>2
    <3>3. CASE x = c
      <4>1. i \in 1..(L + M) /\ DOMAIN issued[c] = 1..L
        BY <1>3, <2>2, <3>1, <3>3 DEF L
      <4>2. CASE i \in 1..L
        BY <1>3, <3>3, <4>1, <4>2
      <4>3. CASE i \in (L + 1)..(L + M)
        BY <1>3, <1>4, <3>3, <4>3
      <4> QED
        BY <1>0, <1>3, <4>1, <4>2, <4>3
    <3> QED
      BY <3>2, <3>3
  <2>3. ASSUME NEW x \in Client, NEW y \in Client, NEW i \in DOMAIN issued'[x],
               NEW j \in DOMAIN issued'[y], issued'[x][i] = issued'[y][j]
        PROVE  x = y /\ i = j
    <3>1. issued[x] \in Seq(OpId) /\ issued[y] \in Seq(OpId)
      BY <1>1 DEF NumbersOK
    <3>2. DOMAIN issued[x] = 1..Len(issued[x]) /\ DOMAIN issued[y] = 1..Len(issued[y])
      BY <3>1
    <3>3. CASE i \in DOMAIN issued[x] /\ j \in DOMAIN issued[y] /\ issued[x][i] = issued[y][j]
      BY <1>1, <3>3 DEF NumbersOK, IdsAreFresh
    <3>4. CASE i \in DOMAIN issued[x] /\ issued'[x][i] = issued[x][i]
               /\ j \in (L + 1)..(L + M) /\ issued'[y][j] = command[j - L]
      <4>1. j - L \in 1..M /\ issued[x][i] = command[j - L] /\ i \in 1..Len(issued[x])
        BY <1>4, <2>3, <3>2, <3>4
      <4> QED
        BY <2>1, <4>1
    <3>5. CASE j \in DOMAIN issued[y] /\ issued'[y][j] = issued[y][j]
               /\ i \in (L + 1)..(L + M) /\ issued'[x][i] = command[i - L]
      <4>1. i - L \in 1..M /\ issued[y][j] = command[i - L] /\ j \in 1..Len(issued[y])
        BY <1>4, <2>3, <3>2, <3>5
      <4> QED
        BY <2>1, <4>1
    <3>6. CASE /\ x = c /\ i \in (L + 1)..(L + M) /\ issued'[x][i] = command[i - L]
               /\ y = c /\ j \in (L + 1)..(L + M) /\ issued'[y][j] = command[j - L]
      <4>1. i - L = j - L
        BY <1>4, <2>1, <2>3, <3>6
      <4> QED
        BY <1>3, <3>6, <4>1
    <3> QED
      BY <2>2, <2>3, <3>3, <3>4, <3>5, <3>6
  <2> QED
    BY <2>3 DEF IdsAreFresh
<1>7. NumbersOK'
  <2>1. ASSUME NEW x \in Client PROVE OutboxOK(x)'
    <3>1. OutboxOK(x)
      BY <1>1 DEF NumbersOK
    <3>2. CASE x # c
      BY <1>2, <1>3, <3>1, <3>2 DEF OutboxOK, Waiting
    <3>3. CASE x = c
      <4>1. ASSUME NEW s \in DOMAIN outbox'[c]
            PROVE  /\ s \in 1..(L + M) /\ outbox'[c][s] \in StoredMutation
                   /\ outbox'[c][s].op = issued'[c][s]
        <5>1. CASE s \in DOMAIN outbox[c]
          <6>1. s \in 1..L /\ outbox[c][s] \in StoredMutation /\ outbox[c][s].op = issued[c][s]
            BY <3>1, <3>3, <5>1 DEF OutboxOK, L
          <6>2. s \in 1..(L + M)
            BY <1>0, <1>3, <6>1
          <6> QED
            BY <1>3, <5>1, <6>1, <6>2
        <5>2. CASE s \in (L + 1)..(L + M)
          <6>1. s - L \in 1..M /\ command[s - L] \in OpId
            <7>1. s - L \in 1..M
              BY <1>4, <5>2
            <7>2. \A i \in 1..M : command[i] \in OpId
              BY <1>0 DEF M
            <7> QED
              BY <7>1, <7>2
          <6>2. outbox'[c][s] = [op |-> command[s - L], status |-> "pending"]
            BY <1>4, <5>2
          <6>3. outbox'[c][s] \in StoredMutation /\ outbox'[c][s].op = command[s - L]
            BY <6>1, <6>2 DEF StoredMutation
          <6>4. issued'[c][s] = command[s - L]
            BY <1>4, <5>2
          <6> QED
            BY <1>0, <1>3, <5>2, <6>3, <6>4
        <5> QED
          BY <1>3, <5>1, <5>2
      <4>2. mark'[c] \in 0..Len(issued'[c])
        BY <1>0, <1>2, <1>3, <3>1, <3>3 DEF OutboxOK, L
      <4>3. ASSUME NEW s \in (mark'[c] + 1)..Len(issued'[c]) PROVE s \in Waiting(outbox'[c])
        <5>1. s \in (mark[c] + 1)..L \/ s \in (L + 1)..(L + M)
          BY <1>0, <1>2, <1>3, <3>1, <3>3 DEF OutboxOK, L
        <5>2. CASE s \in (mark[c] + 1)..L
          <6>1. s \in DOMAIN outbox[c] /\ outbox[c][s].status = "pending"
            BY <3>1, <3>3, <5>2 DEF OutboxOK, Waiting, L
          <6> QED
            BY <1>3, <6>1 DEF Waiting
        <5>3. CASE s \in (L + 1)..(L + M)
          BY <1>3, <1>4, <5>3 DEF Waiting
        <5> QED
          BY <5>1, <5>2, <5>3
      <4>4. \A s \in (mark[c]' + 1)..Len(issued[c]') : s \in Waiting(outbox[c])'
        BY <4>3 DEF Waiting
      <4> QED
        BY <1>3, <3>3, <4>1, <4>2, <4>4 DEF OutboxOK
    <3> QED
      BY <3>2, <3>3
  <2> QED
    BY <1>1, <1>2, <1>3, <1>6, <2>1 DEF NumbersOK
<1>8. DecisionsOK' /\ ReceiptsOK'
  <2>1. ASSUME NEW x, x.dev \in Client, IsDecided(x) PROVE IsDecided(x)'
    <3>1. /\ x.seq \in 1..Len(issued[x.dev]) /\ x.op = issued[x.dev][x.seq] /\ x.seq <= mark[x.dev]
          /\ Len(issued[x.dev]) \in Nat /\ Len(issued'[x.dev]) \in Nat /\ IssuedStays(x.dev)
      BY <1>1, <1>3, <1>5, <2>1 DEF IsDecided, IsOf, NumbersOK
    <3>2. x.seq \in 1..Len(issued'[x.dev]) /\ x.op = issued'[x.dev][x.seq]
      BY <3>1 DEF IssuedStays
    <3> QED
      BY <1>2, <3>1, <3>2 DEF IsDecided, IsOf
  <2>2. ASSUME NEW i \in DOMAIN log PROVE IsDecided(log[i])'
    <3>1. log[i] \in Change /\ IsDecided(log[i])
      BY <1>1 DEF DecisionsOK
    <3>2. PICK x : x = log[i]
      OBVIOUS
    <3>3. IsDecided(x)'
      BY <2>1, <3>1, <3>2 DEF Change
    <3> QED
      BY <1>2, <3>2, <3>3 DEF IsDecided, IsOf
  <2>3. ASSUME NEW r \in receipts PROVE IsDecided(r)'
    BY <1>1, <2>1 DEF DecisionsOK, Receipt
  <2>4. DecisionsOK'
    BY <1>1, <1>2, <2>2, <2>3 DEF DecisionsOK, Applied
  <2> QED
    BY <1>1, <1>2, <2>4 DEF ReceiptsOK
<1>9. LossOK'
  <2>1. ASSUME ~ Forgets, NEW x \in Client, NEW op \in ToSet(issued'[x])
        PROVE  \/ Applied(op)' \/ op \in cleared'
               \/ \E s \in DOMAIN outbox'[x] : outbox'[x][s].op = op
    <3>1. PICK i \in DOMAIN issued'[x] : issued'[x][i] = op
      BY <2>1 DEF ToSet
    <3>2. NoSilentLoss
      BY <1>1, <2>1 DEF LossOK
    <3>3. CASE i \in DOMAIN issued[x] /\ issued[x][i] = op
      <4>1. op \in ToSet(issued[x])
        BY <3>3 DEF ToSet
      <4>2. \/ Applied(op) \/ op \in cleared
            \/ \E s \in DOMAIN outbox[x] : outbox[x][s].op = op
        BY <3>2, <4>1 DEF NoSilentLoss
      <4>3. Applied(op) \/ op \in cleared => Applied(op)' \/ op \in cleared'
        BY <1>2 DEF Applied
      <4>4. (\E s \in DOMAIN outbox[x] : outbox[x][s].op = op)
            => \E s \in DOMAIN outbox'[x] : outbox'[x][s].op = op
        <5>1. CASE x # c
          BY <1>3, <5>1
        <5>2. CASE x = c
          BY <1>3, <5>2
        <5> QED
          BY <5>1, <5>2
      <4> QED
        BY <4>2, <4>3, <4>4
    <3>4. CASE x = c /\ i \in (L + 1)..(L + M)
      <4>2. outbox'[c][i].op = command[i - L] /\ issued'[c][i] = command[i - L]
        BY <1>4, <3>4
      <4> QED
        BY <1>3, <3>1, <3>4, <4>2
    <3>5. \/ i \in DOMAIN issued[x] /\ issued[x][i] = op
          \/ x = c /\ i \in (L + 1)..(L + M)
      <4>1. issued[x] \in Seq(OpId) /\ issued'[x] \in Seq(OpId)
        BY <1>1, <1>3 DEF NumbersOK
      <4>2. CASE x # c
        BY <1>3, <3>1, <4>2
      <4>3. CASE x = c
        BY <1>0, <1>3, <3>1, <4>1, <4>3 DEF L
      <4> QED
        BY <4>2, <4>3
    <3> QED
      BY <3>3, <3>4, <3>5
  <2>2. ~ Forgets => NoSilentLoss'
    BY <2>1 DEF NoSilentLoss
  <2> QED
    BY <1>1, <1>2, <2>2 DEF LossOK
<1>10. DataOK'
  <2>1. M \in 0..Len(command) /\ view[c] \in Rows
    BY <1>0, <1>1 DEF DataOK, M
  <2>2. Edited(view[c], command, M) \in Rows
    BY <1>0, <2>1, EditedType
  <2>3. view' \in [Client -> Rows]
    BY <1>1, <1>2, <2>2 DEF DataOK
  <2> QED
    BY <1>1, <1>2, <2>3 DEF DataOK, ShadowOK
<1>11. RunsOK'
  <2>1. RunOK(c) /\ run' \in [Client -> Run]
    BY <1>1, <1>2 DEF RunsOK
  <2>2. RunOK(c)'
    BY <1>1, <1>2, <1>3, <1>5, <2>1, RunKept
  <2> QED
    BY <1>1, <1>2, <1>3, <1>5, <2>1, <2>2, OthersKept
<1>12. LateOK'
  BY <1>1, <1>2, <1>3, <1>5, LateKept
<1> QED
  BY <1>7, <1>8, <1>9, <1>10, <1>11, <1>12 DEF Inv

\* What an answer leaves in the outbox: everything that is not yet decided.
LEMMA OutboxAfterIs ==
    ASSUME NumbersOK, NEW c \in Client, NEW acks \in Seq(Ack), run[c].acks = acks,
           \A i \in DOMAIN acks : AckOK(c, acks[i])
    PROVE  /\ DOMAIN OutboxAfter(c) \subseteq DOMAIN outbox[c]
           /\ \A s \in DOMAIN OutboxAfter(c) :
                  /\ OutboxAfter(c)[s] \in StoredMutation /\ OutboxAfter(c)[s].op = issued[c][s]
                  /\ s \in 1..Len(issued[c])
                  /\ \/ OutboxAfter(c)[s] = outbox[c][s]
                     \/ AcksOf(c, outbox[c][s]) # {} /\ OutboxAfter(c)[s].status = "rejected"
           /\ \A s \in DOMAIN outbox[c] \ DOMAIN OutboxAfter(c) :
                  \E a \in AcksOf(c, outbox[c][s]) : a.status # "rejected" /\ AckOK(c, a)
           /\ \A s \in DOMAIN outbox[c] : AcksOf(c, outbox[c][s]) = {} =>
                  s \in DOMAIN OutboxAfter(c) /\ OutboxAfter(c)[s] = outbox[c][s]
           /\ \A s \in (mark[c] + 1)..Len(issued[c]) :
                  s \in DOMAIN outbox[c] => AcksOf(c, outbox[c][s]) = {}
<1> DEFINE settled == {s \in DOMAIN outbox[c] :
                          \E a \in AcksOf(c, outbox[c][s]) : a.status # "rejected"}
           box == OutboxAfter(c)
<1>1. /\ DOMAIN box = DOMAIN outbox[c] \ settled
      /\ \A s \in DOMAIN box :
            box[s] = IF AcksOf(c, outbox[c][s]) = {} THEN outbox[c][s]
                     ELSE [outbox[c][s] EXCEPT !.status = "rejected"]
  BY DEF OutboxAfter
<1> HIDE DEF box
<1>2. \A a \in ToSet(acks) : AckOK(c, a)
  BY DEF ToSet
<1>3. \A o : AcksOf(c, o) \subseteq ToSet(acks) /\ \A a \in AcksOf(c, o) : a.op = o.op
  BY DEF AcksOf
<1>4. \A s \in DOMAIN outbox[c] :
          /\ outbox[c][s] \in StoredMutation /\ outbox[c][s].op = issued[c][s]
          /\ s \in 1..Len(issued[c])
  BY DEF NumbersOK, OutboxOK
<1>5. \A x \in StoredMutation :
          /\ [x EXCEPT !.status = "rejected"] \in StoredMutation
          /\ [x EXCEPT !.status = "rejected"].op = x.op
          /\ [x EXCEPT !.status = "rejected"].status = "rejected"
  BY DEF StoredMutation
<1>6. ASSUME NEW s \in DOMAIN box
      PROVE  /\ box[s] \in StoredMutation /\ box[s].op = issued[c][s] /\ s \in 1..Len(issued[c])
             /\ \/ box[s] = outbox[c][s]
                \/ AcksOf(c, outbox[c][s]) # {} /\ box[s].status = "rejected"
  <2>1. CASE AcksOf(c, outbox[c][s]) = {}
    BY <1>1, <1>4, <2>1
  <2>2. CASE AcksOf(c, outbox[c][s]) # {}
    <3>1. PICK x \in StoredMutation : x = outbox[c][s]
      BY <1>1, <1>4
    <3>2. box[s] = [x EXCEPT !.status = "rejected"]
      BY <1>1, <2>2, <3>1
    <3>3. box[s] \in StoredMutation /\ box[s].op = x.op /\ box[s].status = "rejected"
      BY <1>5, <3>2
    <3>4. x.op = issued[c][s] /\ s \in 1..Len(issued[c])
      BY <1>1, <1>4, <3>1
    <3> QED
      BY <2>2, <3>3, <3>4
  <2> QED
    BY <2>1, <2>2
<1>7. ASSUME NEW s \in DOMAIN outbox[c] \ DOMAIN box
      PROVE  \E a \in AcksOf(c, outbox[c][s]) : a.status # "rejected" /\ AckOK(c, a)
  BY <1>1, <1>2, <1>3
<1>8. ASSUME NEW s \in DOMAIN outbox[c], AcksOf(c, outbox[c][s]) = {}
      PROVE  s \in DOMAIN box /\ box[s] = outbox[c][s]
  BY <1>1, <1>8
<1>9. ASSUME NEW s \in (mark[c] + 1)..Len(issued[c]), s \in DOMAIN outbox[c],
             AcksOf(c, outbox[c][s]) # {}
      PROVE  FALSE
  <2>1. PICK a \in AcksOf(c, outbox[c][s]) : AckOK(c, a) /\ a.op = outbox[c][s].op
    BY <1>2, <1>3, <1>9
  <2>2. PICK t \in 1..mark[c] : a.op = issued[c][t]
    BY <2>1 DEF AckOK
  <2>3. /\ mark[c] \in 0..Len(issued[c]) /\ issued[c] \in Seq(OpId) /\ DOMAIN issued[c] = 1..Len(issued[c])
        /\ Len(issued[c]) \in Nat
    BY DEF NumbersOK, OutboxOK
  <2>4. s \in DOMAIN issued[c] /\ t \in DOMAIN issued[c] /\ issued[c][s] = issued[c][t] /\ s # t
    <3>1. s # t /\ s \in 1..Len(issued[c]) /\ t \in 1..Len(issued[c])
      BY <2>3
    <3>2. outbox[c][s].op = issued[c][s]
      BY <1>4, <1>9
    <3> QED
      BY <2>1, <2>2, <2>3, <3>1, <3>2
  <2> QED
    BY <2>4 DEF NumbersOK, IdsAreFresh
<1>10. DOMAIN box \subseteq DOMAIN outbox[c]
  BY <1>1
<1> QED
  BY <1>6, <1>7, <1>8, <1>9, <1>10 DEF box

\* Two parts of a log make one.
LEMMA TwoParts ==
    ASSUME NEW lg \in Seq(Change), NEW from \in Nat, NEW to \in from..Len(lg)
    PROVE  /\ SubSeq(lg, from + 1, to) \in Seq(Change) /\ SubSeq(lg, to + 1, Len(lg)) \in Seq(Change)
           /\ SubSeq(lg, from + 1, to) \o SubSeq(lg, to + 1, Len(lg)) = SubSeq(lg, from + 1, Len(lg))
<1> DEFINE a == SubSeq(lg, from + 1, to)
           b == SubSeq(lg, to + 1, Len(lg))
           x == SubSeq(lg, from + 1, Len(lg))
<1>1. /\ a \in Seq(Change) /\ b \in Seq(Change) /\ x \in Seq(Change) /\ Len(lg) \in Nat /\ to \in Nat
      /\ Len(a) = to - from /\ Len(b) = Len(lg) - to /\ Len(x) = Len(lg) - from
      /\ \A i \in 1..(to - from) : a[i] = lg[i + from]
      /\ \A i \in 1..(Len(lg) - to) : b[i] = lg[i + to]
      /\ \A i \in 1..(Len(lg) - from) : x[i] = lg[i + from]
  OBVIOUS
<1> HIDE DEF a, b, x
<1>2. a \o b \in Seq(Change) /\ Len(a \o b) = Len(x)
  <2>0. a \in Seq(Change) /\ b \in Seq(Change)
    BY <1>1
  <2>1. Len(a \o b) = Len(a) + Len(b) /\ a \o b \in Seq(Change)
    BY <2>0
  <2>2. (to - from) + (Len(lg) - to) = Len(lg) - from
    BY <1>1
  <2> QED
    BY <1>1, <2>1, <2>2
<1>3. ASSUME NEW i \in 1..Len(x) PROVE (a \o b)[i] = x[i]
  <2>1. CASE i <= to - from
    BY <1>1, <2>1
  <2>2. CASE i > to - from
    <3>1. (a \o b)[i] = b[i - Len(a)]
      BY <1>1, <2>2
    <3>2. i - Len(a) \in 1..(Len(lg) - to) /\ (i - Len(a)) + to = i + from
      BY <1>1, <2>2
    <3>3. b[i - Len(a)] = lg[i + from]
      BY <1>1, <3>2
    <3> QED
      BY <1>1, <3>1, <3>3
  <2> QED
    BY <1>1, <2>1, <2>2
<1>4. a \o b = x
  <2> DEFINE y == a \o b
  <2>1. /\ y \in Seq(Change) /\ x \in Seq(Change) /\ Len(y) = Len(x)
        /\ \A i \in 1..Len(x) : y[i] = x[i]
    BY <1>1, <1>2, <1>3
  <2> HIDE DEF y
  <2>2. y = x
    BY <2>1
  <2> QED
    BY <2>2 DEF y
<1> QED
  BY <1>1, <1>4 DEF a, b, x

\* The entities of what a device is told.
LEMMA EntitiesAre ==
    ASSUME NEW A, NEW seq \in Seq(A), \A a \in A : a.op \in OpId
    PROVE  /\ EntitiesOf(seq) \in Seq(Entity) /\ Len(EntitiesOf(seq)) = Len(seq)
           /\ \A i \in 1..Len(seq) : EntitiesOf(seq)[i] = EntityOf(seq[i])
<1>1. DOMAIN seq = 1..Len(seq) /\ Len(seq) \in Nat /\ \A i \in 1..Len(seq) : seq[i] \in A
  OBVIOUS
<1>2. \A i \in 1..Len(seq) : EntityOf(seq[i]) \in Entity
  BY <1>1, ContentIs DEF EntityOf
<1>3. EntitiesOf(seq) \in [1..Len(seq) -> Entity]
  BY <1>1, <1>2 DEF EntitiesOf
<1> QED
  BY <1>1, <1>3 DEF EntitiesOf

\* An answer, applied.
LEMMA AppliedShadow ==
    ASSUME Inv, NEW c \in Client, NEW next \in cursor[c]..Len(log)
    PROVE  LET sh == ShadowAfter(shadow[c], SubSeq(log, cursor[c] + 1, next))
           IN  PlainTable(sh) /\ \A e \in Entity : Leads(sh[e], e, log, next, rows)
<1> DEFINE changes == SubSeq(log, cursor[c] + 1, next)
           rest == SubSeq(log, next + 1, Len(log))
           sh == ShadowAfter(shadow[c], changes)
<1>1. log \in Seq(Change) /\ Len(log) \in Nat /\ cursor[c] \in Nat /\ ShadowOK(c)
  BY DEF Inv, DecisionsOK, DataOK
<1>2. /\ changes \in Seq(Change) /\ rest \in Seq(Change)
      /\ changes \o rest = SubSeq(log, cursor[c] + 1, Len(log))
  BY <1>1, TwoParts
<1>3. shadow[c] \in Rows /\ \A e \in Entity : shadow[c][e] \in Slot /\ Plain(shadow[c][e])
  BY <1>1 DEF ShadowOK, PlainTable, Rows, Slot
<1> HIDE DEF changes, rest
<1>4. \A e \in Entity : sh[e] = Told(shadow[c][e], e, changes)
  BY DEF ShadowAfter
<1>5. ASSUME NEW e \in Entity
      PROVE  sh[e] \in Slot /\ Plain(sh[e]) /\ Leads(sh[e], e, log, next, rows)
  <2>1. sh[e] \in Slot
    BY <1>2, <1>3, <1>4, ToldType
  <2>2. Plain(sh[e])
    BY <1>2, <1>3, <1>4, ToldPlain
  <2>3. Told(shadow[c][e], e, changes \o rest) = Shown(rows)[e]
    BY <1>1, <1>2 DEF ShadowOK, Leads
  <2>4. Told(shadow[c][e], e, changes \o rest) = Told(sh[e], e, rest)
    <3>1. shadow[c][e] \in Slot /\ changes \in Seq(Change) /\ rest \in Seq(Change)
      BY <1>2, <1>3
    <3>2. Told(shadow[c][e], e, changes \o rest) = Told(Told(shadow[c][e], e, changes), e, rest)
      BY <3>1, ToldMore
    <3> QED
      BY <1>4, <3>2
  <2>5. next \in 0..Len(log)
    BY <1>1
  <2> QED
    BY <2>1, <2>2, <2>3, <2>4, <2>5 DEF Leads, rest
<1>6. sh \in Rows
  <2>1. sh = [e \in Entity |-> Told(shadow[c][e], e, changes)]
    BY DEF ShadowAfter
  <2> HIDE DEF sh
  <2> QED
    BY <1>5, <2>1 DEF Rows, Slot
<1> QED
  BY <1>5, <1>6 DEF PlainTable, changes

LEMMA ApplyInv ==
    ASSUME Inv, NEW c \in Client, Apply(c)
    PROVE  Inv'
<1> DEFINE acks == run[c].acks
           changes == run[c].changes
           next == run[c].next
           sh == ShadowAfter(shadow[c], changes)
           known == {a \in ToSet(acks) : \E s \in DOMAIN outbox[c] : outbox[c][s].op = a.op}
           acked == Filter(acks, known)
           box == OutboxAfter(c)
<1>1. /\ NumbersOK /\ DecisionsOK /\ ReceiptsOK /\ LossOK /\ DataOK /\ RunsOK /\ LateOK
      /\ RunOK(c)
  BY DEF Inv, RunsOK
<1>2. /\ shadow' = [shadow EXCEPT ![c] = sh] /\ outbox' = [outbox EXCEPT ![c] = box]
      /\ view' = [view EXCEPT ![c] = ReprojectEach(c, sh, box, @, EntitiesOf(acked) \o EntitiesOf(changes))]
      /\ cursor' = [cursor EXCEPT ![c] = next] /\ run' = [run EXCEPT ![c] = Idle]
      /\ UNCHANGED <<mark, log, rows, receipts, issued, cleared, late>>
      /\ run[c].phase = "answered"
  BY DEF Apply, server
<1>3. /\ acks \in Seq(Ack) /\ changes \in Seq(Change)
      /\ \A i \in DOMAIN acks : AckOK(c, acks[i])
      /\ next \in cursor[c]..Len(log) /\ changes = SubSeq(log, cursor[c] + 1, next)
  BY <1>1, <1>2 DEF RunOK
<1> HIDE DEF acks, changes, next, known
<1>4. /\ DOMAIN box \subseteq DOMAIN outbox[c]
      /\ \A s \in DOMAIN box :
            /\ box[s] \in StoredMutation /\ box[s].op = issued[c][s] /\ s \in 1..Len(issued[c])
            /\ \/ box[s] = outbox[c][s]
               \/ AcksOf(c, outbox[c][s]) # {} /\ box[s].status = "rejected"
      /\ \A s \in DOMAIN outbox[c] \ DOMAIN box :
            \E a \in AcksOf(c, outbox[c][s]) : a.status # "rejected" /\ AckOK(c, a)
      /\ \A s \in DOMAIN outbox[c] : AcksOf(c, outbox[c][s]) = {} =>
            s \in DOMAIN box /\ box[s] = outbox[c][s]
      /\ \A s \in (mark[c] + 1)..Len(issued[c]) :
            s \in DOMAIN outbox[c] => AcksOf(c, outbox[c][s]) = {}
  BY <1>1, <1>3, OutboxAfterIs DEF acks
<1> HIDE DEF box
<1>5. /\ outbox'[c] = box /\ DOMAIN outbox' = Client
      /\ \A x \in Client : x # c => outbox'[x] = outbox[x]
  BY <1>1, <1>2 DEF NumbersOK
<1>6. NumbersOK'
  <2>1. ASSUME NEW x \in Client PROVE OutboxOK(x)'
    <3>1. OutboxOK(x)
      BY <1>1 DEF NumbersOK
    <3>2. CASE x # c
      BY <1>2, <1>5, <3>1, <3>2 DEF OutboxOK, Waiting
    <3>3. CASE x = c
      <4>1. ASSUME NEW s \in (mark[c] + 1)..Len(issued[c])
            PROVE  s \in DOMAIN box /\ box[s].status = "pending"
        <5>1. s \in DOMAIN outbox[c] /\ outbox[c][s].status = "pending"
          BY <3>1, <3>3 DEF OutboxOK, Waiting
        <5> QED
          BY <1>4, <5>1
      <4>2. \A s \in (mark[c]' + 1)..Len(issued[c]') : s \in Waiting(outbox[c])'
        BY <1>2, <1>5, <4>1 DEF Waiting
      <4> QED
        BY <1>2, <1>4, <1>5, <3>1, <3>3, <4>2 DEF OutboxOK
    <3> QED
      BY <3>2, <3>3
  <2>2. IdsAreFresh'
    BY <1>1, <1>2 DEF NumbersOK, IdsAreFresh
  <2> QED
    BY <1>1, <1>2, <1>5, <2>1, <2>2 DEF NumbersOK
<1>7. DecisionsOK' /\ ReceiptsOK'
  <2>1. DecisionsOK'
    BY <1>1, <1>2 DEF DecisionsOK, IsDecided, IsOf, Applied
  <2> QED
    BY <1>1, <1>2, <2>1 DEF ReceiptsOK
<1>8. LossOK'
  <2>1. ASSUME ~ Forgets, NEW x \in Client, NEW op \in ToSet(issued[x])
        PROVE  \/ Applied(op)' \/ op \in cleared'
               \/ \E s \in DOMAIN outbox'[x] : outbox'[x][s].op = op
    <3>1. \/ Applied(op) \/ op \in cleared
          \/ \E s \in DOMAIN outbox[x] : outbox[x][s].op = op
      BY <1>1, <2>1 DEF LossOK, NoSilentLoss
    <3>2. CASE Applied(op) \/ op \in cleared
      BY <1>2, <3>2 DEF Applied
    <3>3. CASE x # c /\ \E s \in DOMAIN outbox[x] : outbox[x][s].op = op
      BY <1>5, <3>3
    <3>4. CASE x = c /\ \E s \in DOMAIN outbox[x] : outbox[x][s].op = op
      <4>1. PICK s \in DOMAIN outbox[c] : outbox[c][s].op = op
        BY <3>4
      <4>2. CASE s \in DOMAIN box
        <5>1. box[s].op = op
          BY <1>1, <1>4, <4>1, <4>2 DEF NumbersOK, OutboxOK
        <5> QED
          BY <1>5, <3>4, <4>2, <5>1
      <4>3. CASE s \notin DOMAIN box
        <5>1. PICK a \in AcksOf(c, outbox[c][s]) : a.status # "rejected" /\ AckOK(c, a)
          BY <1>4, <4>3
        <5>2. a.op = op
          BY <4>1, <5>1 DEF AcksOf
        <5>3. Applied(op)
          BY <2>1, <5>1, <5>2 DEF AckOK
        <5> QED
          BY <1>2, <5>3 DEF Applied
      <4> QED
        BY <4>2, <4>3
    <3> QED
      BY <3>1, <3>2, <3>3, <3>4
  <2>2. ~ Forgets => NoSilentLoss'
    BY <1>2, <2>1 DEF NoSilentLoss
  <2> QED
    BY <1>1, <1>2, <2>2 DEF LossOK
<1>9. PlainTable(sh) /\ \A e \in Entity : Leads(sh[e], e, log, next, rows)
  BY <1>3, AppliedShadow
<1>10. DataOK'
  <2>1. EntitiesOf(acked) \o EntitiesOf(changes) \in Seq(Entity)
    <3>1. acked \in Seq(Ack)
      BY <1>3, FilterHas
    <3>2. (\A a \in Ack : a.op \in OpId) /\ (\A a \in Change : a.op \in OpId)
      BY DEF Ack, Change
    <3> HIDE DEF acked
    <3>3. EntitiesOf(acked) \in Seq(Entity) /\ EntitiesOf(changes) \in Seq(Entity)
      BY <1>3, <3>1, <3>2, EntitiesAre
    <3> QED
      BY <3>3
  <2> DEFINE among == EntitiesOf(acked) \o EntitiesOf(changes)
  <2>2. view[c] \in Rows /\ sh \in Rows
    BY <1>1, <1>9 DEF DataOK, PlainTable
  <2>3. Box(box) /\ Len(issued[c]) \in Nat
    BY <1>1, <1>4 DEF Box, StoredMutation, NumbersOK
  <2> HIDE DEF sh, among
  <2>4. ReprojectEach(c, sh, box, view[c], among) \in Rows
    BY <2>1, <2>2, <2>3, ReprojectEachIs DEF among
  <2>5. view' \in [Client -> Rows] /\ shadow' \in [Client -> Rows]
    BY <1>1, <1>2, <2>2, <2>4 DEF DataOK, among
  <2>6. next \in Nat /\ cursor' \in [Client -> Nat]
    BY <1>1, <1>2, <1>3 DEF DataOK
  <2>7. ASSUME NEW x \in Client PROVE ShadowOK(x)'
    <3>1. CASE x # c
      <4>1. ShadowOK(x) /\ shadow'[x] = shadow[x] /\ cursor'[x] = cursor[x]
        BY <1>1, <1>2, <3>1 DEF DataOK
      <4> QED
        BY <1>2, <4>1 DEF ShadowOK
    <3>2. CASE x = c
      <4>1. shadow'[x] = sh /\ cursor'[x] = next
        BY <1>1, <1>2, <3>2 DEF DataOK
      <4>2. next \in 0..Len(log)
        BY <1>1, <1>3 DEF DataOK, RowsOK
      <4> QED
        BY <1>2, <1>9, <3>2, <4>1, <4>2 DEF ShadowOK
    <3> QED
      BY <3>1, <3>2
  <2> QED
    BY <1>1, <1>2, <2>5, <2>6, <2>7 DEF DataOK
<1>11. issued' \in [Client -> Seq(OpId)] /\ \A x \in Client : IssuedStays(x)
  BY <1>1, <1>2, SameIssued
<1>12. RunsOK'
  <2>1. run'[c] = Idle /\ run' \in [Client -> Run]
    BY <1>1, <1>2, NoData DEF RunsOK
  <2>2. RunOK(c)'
    BY <2>1 DEF RunOK, Idle
  <2>3. \A x \in Client : x # c => run'[x] = run[x] /\ cursor'[x] = cursor[x]
    BY <1>1, <1>2 DEF RunsOK, DataOK
  <2> QED
    BY <1>1, <1>2, <1>11, <2>1, <2>2, <2>3, OthersKept
<1>13. LateOK'
  BY <1>1, <1>2, <1>11, LateKept
<1> QED
  BY <1>6, <1>7, <1>8, <1>10, <1>12, <1>13 DEF Inv

\* What a bootstrap makes of the rows.
LEMMA ReplacedIs ==
    ASSUME NEW c \in Client, NumbersOK, view[c] \in Rows, NEW got, PlainTable(got)
    PROVE  /\ Replaced(c, got) \in Rows
           /\ \A e \in Entity :
                  Replaced(c, got)[e] =
                      IF PendingOn(outbox[c], e) = {} THEN got[e]
                      ELSE Projected(c, outbox[c], IF got[e] # Absent THEN got[e] ELSE view[c][e], e)
           /\ \A e \in Entity : Plain(Replaced(c, got)[e])
<1> DEFINE box == outbox[c]
           r(e) == IF PendingOn(box, e) = {} THEN got[e]
                   ELSE Projected(c, box, IF got[e] # Absent THEN got[e] ELSE view[c][e], e)
<1>1. Replaced(c, got) = [e \in Entity |-> r(e)]
  BY DEF Replaced
<1>2. Box(box) /\ Len(issued[c]) \in Nat /\ \A s \in DOMAIN box : s \in 1..Len(issued[c])
  BY OutboxIsBox DEF NumbersOK, OutboxOK
<1> HIDE DEF box
<1>3. ASSUME NEW e \in Entity PROVE r(e) \in Slot /\ Plain(r(e))
  <2>1. got[e] \in Slot /\ view[c][e] \in Slot /\ Plain(got[e])
    BY DEF PlainTable, Rows, Slot
  <2>2. CASE PendingOn(box, e) = {}
    BY <2>1, <2>2
  <2>3. CASE PendingOn(box, e) # {}
    <3> DEFINE old == IF got[e] # Absent THEN got[e] ELSE view[c][e]
    <3>1. old \in Slot
      BY <2>1
    <3>2. \E s \in PendingOn(box, e) : s \in 1..Len(issued[c])
      BY <1>2, <2>3 DEF PendingOn, Waiting
    <3>3. r(e) = Projected(c, box, old, e)
      BY <2>3
    <3> HIDE DEF old, r
    <3>4. Projected(c, box, old, e) \in Row /\ Plain(Projected(c, box, old, e))
      BY <1>2, <3>1, <3>2, ProjectedType
    <3> QED
      BY <3>3, <3>4 DEF Slot
  <2> QED
    BY <2>2, <2>3
<1>4. \A e \in Entity : Replaced(c, got)[e] = r(e)
  BY <1>1
<1>5. Replaced(c, got) \in Rows
  <2> HIDE DEF r
  <2> QED
    BY <1>1, <1>3 DEF Rows, Slot
<1>6. \A e \in Entity : Plain(Replaced(c, got)[e])
  BY <1>3, <1>4
<1> QED
  BY <1>4, <1>5, <1>6 DEF box

LEMMA ReplaceInv ==
    ASSUME Inv, NEW c \in Client, Replace(c)
    PROVE  Inv'
<1> DEFINE got == run[c].got
           at == run[c].cursor
<1>1. /\ NumbersOK /\ DecisionsOK /\ ReceiptsOK /\ LossOK /\ DataOK /\ RunsOK /\ LateOK
      /\ RunOK(c)
  BY DEF Inv, RunsOK
<1>2. /\ view' = [view EXCEPT ![c] = Replaced(c, got)] /\ shadow' = [shadow EXCEPT ![c] = got]
      /\ cursor' = [cursor EXCEPT ![c] = at] /\ run' = [run EXCEPT ![c] = Idle]
      /\ UNCHANGED <<mark, log, rows, receipts, outbox, issued, cleared, late>>
      /\ run[c].phase = "paging" /\ run[c].pos > Len(IdOrder)
  BY DEF Replace, server
<1>3. /\ at \in 0..Len(log) /\ run[c].pos \in 1..(Len(IdOrder) + 1) /\ PlainTable(got)
      /\ \A e \in Entity : Read(c, e) => Leads(got[e], e, log, at, rows)
  BY <1>1, <1>2 DEF RunOK
<1>4. ASSUME NEW e \in Entity PROVE Leads(got[e], e, log, at, rows)
  <2>1. IdOrder \in Seq(Entity) /\ Contains(IdOrder, e)
    BY ProtocolAssumption DEF ProtocolAssumption
  <2>2. PICK i \in 1..Len(IdOrder) : IdOrder[i] = e
    BY <2>1 DEF Contains
  <2>3. run[c].pos - 1 = Len(IdOrder)
    BY <1>2, <1>3, <2>1
  <2>4. Read(c, e)
    BY <2>2, <2>3 DEF Read
  <2> QED
    BY <1>3, <2>4
<1> HIDE DEF got, at
<1>5. NumbersOK' /\ DecisionsOK' /\ ReceiptsOK' /\ LossOK'
  <2>1. NumbersOK'
    BY <1>1, <1>2 DEF NumbersOK, IdsAreFresh, OutboxOK, Waiting
  <2>2. DecisionsOK'
    BY <1>1, <1>2 DEF DecisionsOK, IsDecided, IsOf, Applied
  <2>3. ReceiptsOK'
    BY <1>1, <1>2 DEF ReceiptsOK
  <2>4. LossOK'
    BY <1>1, <1>2 DEF LossOK, NoSilentLoss, Applied
  <2> QED
    BY <2>1, <2>2, <2>3, <2>4
<1>6. DataOK'
  <2>1. view[c] \in Rows /\ got \in Rows
    BY <1>1, <1>3 DEF DataOK, PlainTable
  <2>2. Replaced(c, got) \in Rows
    BY <1>1, <1>3, <2>1, ReplacedIs
  <2>3. view' \in [Client -> Rows] /\ shadow' \in [Client -> Rows]
    BY <1>1, <1>2, <2>1, <2>2 DEF DataOK
  <2>4. log \in Seq(Change) /\ at \in Nat
    BY <1>1, <1>3 DEF DecisionsOK
  <2>5. cursor' \in [Client -> Nat]
    BY <1>1, <1>2, <2>4 DEF DataOK
  <2>6. ASSUME NEW x \in Client PROVE ShadowOK(x)'
    <3>1. CASE x # c
      <4>1. ShadowOK(x) /\ shadow'[x] = shadow[x] /\ cursor'[x] = cursor[x]
        BY <1>1, <1>2, <3>1 DEF DataOK
      <4> QED
        BY <1>2, <4>1 DEF ShadowOK
    <3>2. CASE x = c
      <4>1. shadow'[x] = got /\ cursor'[x] = at
        BY <1>1, <1>2, <3>2 DEF DataOK
      <4> QED
        BY <1>2, <1>3, <1>4, <3>2, <4>1 DEF ShadowOK
    <3> QED
      BY <3>1, <3>2
  <2> QED
    BY <1>1, <1>2, <2>3, <2>5, <2>6 DEF DataOK
<1>7. issued' \in [Client -> Seq(OpId)] /\ \A x \in Client : IssuedStays(x)
  BY <1>1, <1>2, SameIssued
<1>8. RunsOK'
  <2>1. run'[c] = Idle /\ run' \in [Client -> Run]
    BY <1>1, <1>2, NoData DEF RunsOK
  <2>2. RunOK(c)'
    BY <2>1 DEF RunOK, Idle
  <2>3. \A x \in Client : x # c => run'[x] = run[x] /\ cursor'[x] = cursor[x]
    BY <1>1, <1>2 DEF RunsOK, DataOK
  <2> QED
    BY <1>1, <1>2, <1>7, <2>1, <2>2, <2>3, OthersKept
<1>9. LateOK'
  BY <1>1, <1>2, <1>7, LateKept
<1> QED
  BY <1>5, <1>6, <1>8, <1>9 DEF Inv

\* A request that the service decides: what holds then whoever asked.
LEMMA CommittedInv ==
    ASSUME Inv, NEW c \in Client, NEW d, DecidedOK(c, d), Committed(c, d), UNCHANGED store,
           late' \subseteq late, run' \in [Client -> Run],
           \A x \in Client : run'[x] = run[x] \/ RunOK(x)'
    PROVE  Inv'
<1>1. /\ NumbersOK /\ DecisionsOK /\ ReceiptsOK /\ LossOK /\ DataOK /\ RunsOK /\ LateOK
      /\ cursor \in [Client -> Nat]
  BY DEF Inv, DataOK
<1>2. UNCHANGED <<issued, outbox, cleared, view, shadow, cursor>>
  BY DEF store
<1>3. /\ rows' = d.rows /\ log' = d.log
      /\ \A x \in Client : mark[x] \in Nat /\ mark'[x] \in Nat /\ mark[x] <= mark'[x]
  BY <1>1, CommittedIs
<1>4. NumbersOK'
  BY <1>1, <1>2, CommittedNumbers
<1>5. DecisionsOK'
  BY <1>1, <1>2, CommittedDecisions
<1>6. ReceiptsOK'
  BY <1>1, CommittedReceipts
<1>7. LossOK'
  BY <1>1, <1>2, <1>3, CommittedLoss
<1>8. DataOK'
  BY <1>1, <1>2, <1>3, CommittedData
<1>9. RunsOK'
  <2>1. ASSUME NEW x \in Client PROVE RunOK(x)'
    <3>1. CASE run'[x] = run[x]
      <4>1. RunOK(x)
        BY <1>1 DEF RunsOK
      <4> QED
        BY <1>1, <1>2, <3>1, <4>1, CommittedRun
    <3> QED
      BY <3>1
  <2> QED
    BY <2>1 DEF RunsOK
<1>10. LateOK'
  <2> SUFFICES ASSUME NEW q \in late
               PROVE  /\ q \in [dev : Client, batch : Seq(Item), cursor : Nat]
                      /\ BatchOK(q.dev, q.batch)'
    BY DEF LateOK, BatchOK, IsOf
  <2>1. q \in [dev : Client, batch : Seq(Item), cursor : Nat] /\ BatchOK(q.dev, q.batch)
    BY <1>1 DEF LateOK
  <2>2. PICK x \in Client, batch \in Seq(Item) : x = q.dev /\ batch = q.batch
    BY <2>1
  <2>3. BatchOK(x, batch)'
    BY <1>2, <1>3, <2>1, <2>2, BatchStays
  <2> QED
    BY <2>1, <2>2, <2>3
<1> QED
  BY <1>4, <1>5, <1>6, <1>7, <1>8, <1>9, <1>10 DEF Inv

\* The service leaves everything as it is.
LEMMA ServerSame ==
    ASSUME Inv, UNCHANGED <<server, store>>, late' \subseteq late, run' \in [Client -> Run],
           \A x \in Client : run'[x] = run[x] \/ RunOK(x)'
    PROVE  Inv'
<1>1. /\ NumbersOK /\ DecisionsOK /\ ReceiptsOK /\ LossOK /\ DataOK /\ RunsOK /\ LateOK
  BY DEF Inv
<1>2. UNCHANGED <<rows, log, receipts, mark, issued, outbox, cleared, view, shadow, cursor>>
  BY DEF store, server
<1>3. NumbersOK'
  BY <1>1, <1>2 DEF NumbersOK, IdsAreFresh, OutboxOK, Waiting
<1>4. DecisionsOK'
  BY <1>1, <1>2 DEF DecisionsOK, IsDecided, IsOf, Applied
<1>5. ReceiptsOK'
  BY <1>1, <1>2 DEF ReceiptsOK
<1>6. LossOK'
  BY <1>1, <1>2 DEF LossOK, NoSilentLoss, Applied
<1>7. DataOK'
  BY <1>1, <1>2 DEF DataOK, ShadowOK
<1>8. issued' \in [Client -> Seq(OpId)] /\ \A x \in Client : IssuedStays(x)
  BY <1>1, <1>2, SameIssued
<1>9. RunsOK'
  <2>1. ASSUME NEW x \in Client PROVE RunOK(x)'
    <3>1. CASE run'[x] = run[x]
      <4>1. RunOK(x)
        BY <1>1 DEF RunsOK
      <4> QED
        BY <1>1, <1>2, <1>8, <3>1, <4>1, RunKept
    <3> QED
      BY <3>1
  <2> QED
    BY <2>1 DEF RunsOK
<1>10. LateOK'
  <2> SUFFICES ASSUME NEW q \in late
               PROVE  /\ q \in [dev : Client, batch : Seq(Item), cursor : Nat]
                      /\ BatchOK(q.dev, q.batch)'
    BY DEF LateOK, BatchOK, IsOf
  <2>1. q \in [dev : Client, batch : Seq(Item), cursor : Nat] /\ BatchOK(q.dev, q.batch)
    BY <1>1 DEF LateOK
  <2>2. BatchOK(q.dev, q.batch)'
    BY <1>2, <2>1 DEF BatchOK, IsOf
  <2> QED
    BY <2>1, <2>2
<1> QED
  BY <1>3, <1>4, <1>5, <1>6, <1>7, <1>9, <1>10 DEF Inv

\* What the answer holds: the acks, and the changes after the cursor.
LEMMA AnswerOK ==
    ASSUME Inv, NEW c \in Client, NEW d, DecidedOK(c, d), Committed(c, d),
           UNCHANGED <<issued, cursor>>, run[c].phase = "asking",
           run' = [run EXCEPT ![c] = Answer(c, d)]
    PROVE  run' \in [Client -> Run] /\ RunOK(c)'
<1> DEFINE at == cursor[c]
           next == IF at + Limit < Len(d.log) THEN at + Limit ELSE Len(d.log)
           r == [phase |-> "answered", acks |-> d.acks,
                 changes |-> SubSeq(d.log, at + 1, next), next |-> next]
<1>1. RunOK(c) /\ NumbersOK /\ DataOK /\ run \in [Client -> Run] /\ RowsOK(rows, log)
  BY DEF Inv, RunsOK, DataOK
<1>2. run[c].cursor = at
  BY <1>1 DEF RunOK
<1>3. run' = [run EXCEPT ![c] = r]
  BY <1>2 DEF Answer
<1>4. /\ d.log \in Seq(Change) /\ d.acks \in Seq(Ack) /\ Len(d.log) \in Nat
      /\ Len(log) <= Len(d.log) /\ Len(log) \in Nat
      /\ \A i \in DOMAIN d.acks : AckGoes(c, d, d.acks[i])
  BY <1>1, DecisionParts DEF DecidedOK, LogGoesOn, RowsOK
<1>5. at \in 0..Len(log) /\ Limit \in Nat \ {0}
  BY <1>1, ProtocolAssumption DEF DataOK, ShadowOK, ProtocolAssumption
<1>6. next \in at..Len(d.log) /\ next \in Nat
  BY <1>4, <1>5
<1> HIDE DEF next
<1>7. SubSeq(d.log, at + 1, next) \in Seq(Change)
  BY <1>4, <1>5, <1>6
<1>8. /\ r \in [phase : {"answered"}, acks : Seq(Ack), changes : Seq(Change), next : Nat]
      /\ r.phase = "answered" /\ r.acks = d.acks /\ r.next = next
      /\ r.changes = SubSeq(d.log, at + 1, next)
  BY <1>4, <1>6, <1>7
<1> HIDE DEF r
<1>9. r \in Run
  BY <1>8 DEF Run
<1>10. run' \in [Client -> Run] /\ run'[c] = r
  BY <1>1, <1>3, <1>9
<1>11. ASSUME NEW i \in DOMAIN d.acks PROVE AckOK(c, d.acks[i])'
  <2>1. AckGoes(c, d, d.acks[i]) /\ mark'[c] = d.expected - 1 /\ log' = d.log
    BY <1>1, <1>4, CommittedIs
  <2> QED
    BY <2>1 DEF AckGoes, AckOK, Applied, InLog
<1>12. log' = d.log
  BY DEF Committed
<1>13. \A i \in DOMAIN run'[c].acks : AckOK(c, run[c].acks[i])'
  <2>1. PICK acks : acks = d.acks
    OBVIOUS
  <2>2. run'[c].acks = acks
    BY <1>8, <1>10, <2>1
  <2>3. \A i \in DOMAIN acks : AckOK(c, acks[i])'
    BY <1>11, <2>1 DEF AckOK
  <2> QED
    BY <2>2, <2>3 DEF AckOK
<1>14. RunOK(c)'
  BY <1>6, <1>8, <1>10, <1>12, <1>13 DEF RunOK
<1> QED
  BY <1>10, <1>14

LEMMA ServeInv ==
    ASSUME Inv, NEW c \in Client, Serve(c)
    PROVE  Inv'
<1> DEFINE d == Decided(c, run[c].batch)
<1>1. /\ NumbersOK /\ DecisionsOK /\ ReceiptsOK /\ RowsOK(rows, log) /\ RunOK(c)
      /\ run \in [Client -> Run]
  BY DEF Inv, RunsOK, DataOK
<1>2. /\ run[c].phase = "asking" /\ UNCHANGED <<store, late>>
      /\ IF d.ok THEN Committed(c, d) /\ run' = [run EXCEPT ![c] = Answer(c, d)]
         ELSE UNCHANGED server /\ run' = [run EXCEPT ![c] = Idle]
  BY DEF Serve
<1>3. BatchOK(c, run[c].batch)
  BY <1>1, <1>2 DEF RunOK
<1>4. DecidedOK(c, d)
  BY <1>1, <1>3, BatchDecided
<1>5. d.ok
  BY <1>4 DEF DecidedOK
<1>6. Committed(c, d) /\ run' = [run EXCEPT ![c] = Answer(c, d)] /\ UNCHANGED <<issued, cursor>>
  BY <1>2, <1>5 DEF store
<1> HIDE DEF d
<1>7. run' \in [Client -> Run] /\ RunOK(c)'
  BY <1>2, <1>4, <1>6, AnswerOK
<1>8. \A x \in Client : run'[x] = run[x] \/ RunOK(x)'
  <2> TAKE x \in Client
  <2>1. CASE x = c
    BY <1>7, <2>1
  <2>2. CASE x # c
    BY <1>1, <1>6, <2>2
  <2> QED
    BY <2>1, <2>2
<1> QED
  BY <1>2, <1>4, <1>6, <1>7, <1>8, CommittedInv

LEMMA ServeLateInv ==
    ASSUME Inv, NEW q \in late, ServeLate(q)
    PROVE  Inv'
<1>1. /\ NumbersOK /\ DecisionsOK /\ ReceiptsOK /\ RowsOK(rows, log) /\ run \in [Client -> Run]
      /\ LateOK
  BY DEF Inv, RunsOK, DataOK
<1>2. q \in [dev : Client, batch : Seq(Item), cursor : Nat] /\ BatchOK(q.dev, q.batch)
  BY <1>1 DEF LateOK
<1>3. PICK c \in Client, batch \in Seq(Item) : c = q.dev /\ batch = q.batch
  BY <1>2
<1> DEFINE d == Decided(c, batch)
<1>4. /\ late' \subseteq late /\ UNCHANGED <<store, run>>
      /\ IF Readable(q.cursor) /\ d.ok THEN Committed(c, d) ELSE UNCHANGED server
  BY <1>3 DEF ServeLate
<1>5. DecidedOK(c, d)
  BY <1>1, <1>2, <1>3, BatchDecided
<1> HIDE DEF d
<1>6. CASE Committed(c, d)
  BY <1>1, <1>4, <1>5, <1>6, CommittedInv
<1>7. CASE UNCHANGED server
  BY <1>1, <1>4, <1>7, ServerSame
<1> QED
  BY <1>4, <1>6, <1>7

LEMMA PruneInv ==
    ASSUME Inv, Prune
    PROVE  Inv'
<1>1. UNCHANGED <<rows, log, receipts, mark, view, outbox, issued, shadow, cursor, cleared, run, late>>
  BY DEF Prune, store
<1>2. NumbersOK'
  BY <1>1 DEF Inv, NumbersOK, IdsAreFresh, OutboxOK, Waiting
<1>3. DecisionsOK' /\ ReceiptsOK' /\ LossOK'
  BY <1>1 DEF Inv, DecisionsOK, IsDecided, IsOf, Applied, ReceiptsOK, LossOK, NoSilentLoss
<1>4. DataOK'
  BY <1>1 DEF Inv, DataOK, ShadowOK
<1>5. issued' \in [Client -> Seq(OpId)] /\ \A x \in Client : IssuedStays(x)
  BY <1>1, SameIssued DEF Inv
<1>6. RunsOK'
  <2>1. \A x \in Client : RunOK(x)'
    BY <1>1, <1>5, RunKept DEF Inv, RunsOK
  <2> QED
    BY <1>1, <2>1 DEF Inv, RunsOK
<1>7. LateOK'
  BY <1>1, <1>5, LateKept DEF Inv
<1> QED
  BY <1>2, <1>3, <1>4, <1>6, <1>7 DEF Inv

\* What is removed with the receipts: only what they alone could tell.
LEMMA ForgetInv ==
    ASSUME Inv, Forget
    PROVE  Inv'
<1>1. /\ UNCHANGED <<rows, log, mark, view, outbox, issued, shadow, cursor, cleared, run, late>>
      /\ receipts' \subseteq receipts /\ Forgets
  BY DEF Forget, store
<1>2. NumbersOK'
  BY <1>1 DEF Inv, NumbersOK, IdsAreFresh, OutboxOK, Waiting
<1>3. DecisionsOK'
  BY <1>1 DEF Inv, DecisionsOK, IsDecided, IsOf, Applied
<1>4. ReceiptsOK' /\ LossOK'
  BY <1>1 DEF Inv, ReceiptsOK, LossOK
<1>5. DataOK'
  BY <1>1 DEF Inv, DataOK, ShadowOK
<1>6. issued' \in [Client -> Seq(OpId)] /\ \A x \in Client : IssuedStays(x)
  BY <1>1, SameIssued DEF Inv
<1>7. RunsOK'
  <2>1. \A x \in Client : RunOK(x)'
    BY <1>1, <1>6, RunKept DEF Inv, RunsOK
  <2> QED
    BY <1>1, <2>1 DEF Inv, RunsOK
<1>8. LateOK'
  BY <1>1, <1>6, LateKept DEF Inv
<1> QED
  BY <1>2, <1>3, <1>4, <1>5, <1>7, <1>8 DEF Inv

\* A step that changes nothing.
LEMMA StutterInv ==
    ASSUME Inv, UNCHANGED vars
    PROVE  Inv'
<1>1. UNCHANGED <<server, store>> /\ late' = late /\ run' = run
  BY DEF vars
<1>2. run' \in [Client -> Run]
  BY <1>1 DEF Inv, RunsOK
<1> QED
  BY <1>1, <1>2, ServerSame

LEMMA StepInv ==
    ASSUME Inv, [Next]_vars
    PROVE  Inv'
<1>1. CASE UNCHANGED vars
  BY <1>1, StutterInv
<1>2. ASSUME NEW c \in Client, EngineStep(c) PROVE Inv'
  BY <1>2, SendInv, ServeInv, ExpiredInv, ApplyInv, OpenBootstrapInv, NextPageInv, ReplaceInv
     DEF EngineStep
<1>3. ASSUME NEW c \in Client, UserStep(c) PROVE Inv'
  BY <1>3, ClearRejectedInv, IssueInv DEF UserStep
<1>4. ASSUME NEW c \in Client, Drop(c) PROVE Inv'
  BY <1>4, DropInv
<1>5. ASSUME NEW q \in late, ServeLate(q) PROVE Inv'
  BY <1>5, ServeLateInv
<1>6. CASE Prune
  BY <1>6, PruneInv
<1>7. CASE Forget
  BY <1>7, ForgetInv
<1> QED
  BY <1>1, <1>2, <1>3, <1>4, <1>5, <1>6, <1>7 DEF Next

(***************************************************************************)
(* What the repositories, the engines and the service keep to between      *)
(* them (appendMutation, syncApplyResult, the sync handler): numbers       *)
(* without a gap, no decision twice, rows that go with every cursor.       *)
(***************************************************************************)
THEOREM Invariant == Spec => []Inv
<1>1. Init => Inv
  BY InitInv
<1>2. Inv /\ [Next]_vars => Inv'
  BY StepInv
<1> QED
  BY <1>1, <1>2, PTL DEF Spec

----------------------------------------------------------------------------
(* What follows for the system. *)

\* A step of the service decides a batch, or its history stays as it is.
LEMMA ServiceMoves ==
    ASSUME Inv, [Next]_vars
    PROVE  \/ UNCHANGED <<log, mark>>
           \/ \E c \in Client : \E d : DecidedOK(c, d) /\ Committed(c, d)
<1>1. NumbersOK /\ DecisionsOK /\ ReceiptsOK /\ RowsOK(rows, log) /\ RunsOK /\ LateOK
  BY DEF Inv, DataOK
<1>2. ASSUME NEW c \in Client, Serve(c)
      PROVE  \/ UNCHANGED <<log, mark>>
             \/ \E d : DecidedOK(c, d) /\ Committed(c, d)
  <2> DEFINE d == Decided(c, run[c].batch)
  <2>1. run[c].phase = "asking" /\ (d.ok => Committed(c, d)) /\ (~ d.ok => UNCHANGED server)
    BY <1>2 DEF Serve
  <2>2. BatchOK(c, run[c].batch)
    BY <1>1, <2>1 DEF RunsOK, RunOK
  <2>3. DecidedOK(c, d)
    BY <1>1, <2>2, BatchDecided
  <2>4. d.ok
    BY <2>3 DEF DecidedOK
  <2> QED
    BY <2>1, <2>3, <2>4
<1>3. ASSUME NEW q \in late, ServeLate(q)
      PROVE  \/ UNCHANGED <<log, mark>>
             \/ \E c \in Client : \E d : DecidedOK(c, d) /\ Committed(c, d)
  <2>1. q \in [dev : Client, batch : Seq(Item), cursor : Nat] /\ BatchOK(q.dev, q.batch)
    BY <1>1 DEF LateOK
  <2>2. PICK c \in Client, batch \in Seq(Item) : c = q.dev /\ batch = q.batch
    BY <2>1
  <2> DEFINE d == Decided(c, batch)
  <2>3. Committed(c, d) \/ UNCHANGED server
    BY <1>3, <2>2 DEF ServeLate
  <2>4. DecidedOK(c, d)
    BY <1>1, <2>1, <2>2, BatchDecided
  <2> HIDE DEF d
  <2> QED
    BY <2>3, <2>4 DEF server
<1>4. ASSUME NEW c \in Client, \/ Send(c) \/ Expired(c) \/ Apply(c) \/ OpenBootstrap(c)
                               \/ NextPage(c) \/ Replace(c) \/ Drop(c) \/ UserStep(c)
      PROVE  UNCHANGED <<log, mark>>
  BY <1>4 DEF Send, Expired, Apply, OpenBootstrap, NextPage, Replace, Drop, UserStep,
              ClearRejected, Issue, server
<1>5. CASE UNCHANGED vars
  BY <1>5 DEF vars, server
<1>6. CASE Prune \/ Forget
  BY <1>6 DEF Prune, Forget
<1> QED
  BY <1>2, <1>3, <1>4, <1>5, <1>6 DEF Next, EngineStep

LEMMA LogGrows ==
    ASSUME Inv, [Next]_vars
    PROVE  Len(log) \in Nat /\ Len(log') \in Nat /\ Len(log) <= Len(log')
<1>1. NumbersOK /\ Len(log) \in Nat
  BY DEF Inv, DecisionsOK
<1>2. CASE UNCHANGED log
  BY <1>1, <1>2
<1>3. ASSUME NEW c \in Client, NEW d, DecidedOK(c, d), Committed(c, d)
      PROVE  Len(log') \in Nat /\ Len(log) <= Len(log')
  <2>1. log' = d.log /\ Len(log) <= Len(d.log) /\ d \in Decision
    BY <1>3 DEF Committed, DecidedOK, LogGoesOn
  <2>2. Len(d.log) \in Nat
    BY <2>1, DecisionParts
  <2> QED
    BY <2>1, <2>2
<1> QED
  BY <1>1, <1>2, <1>3, ServiceMoves

\* What is pruned has been there; the runs that stop are counted.
Bounds == floor \in 0..Len(log) /\ drops \in 0..MaxDrops

LEMMA BoundsStep ==
    ASSUME Inv, Bounds, [Next]_vars
    PROVE  Bounds'
<1>1. Len(log) \in Nat /\ Len(log') \in Nat /\ Len(log) <= Len(log') /\ MaxDrops \in Nat
  BY LogGrows, ProtocolAssumption DEF ProtocolAssumption
<1>2. floor' = floor \/ (floor' \in (floor + 1)..Len(log) /\ log' = log)
  <2>1. ASSUME NEW c \in Client, EngineStep(c) \/ UserStep(c) \/ Drop(c) PROVE floor' = floor
    BY <2>1 DEF EngineStep, UserStep, Send, Expired, Apply, OpenBootstrap, NextPage, Replace,
                Serve, Committed, Drop, ClearRejected, Issue, server
  <2>2. ASSUME NEW q \in late, ServeLate(q) PROVE floor' = floor
    BY <2>2 DEF ServeLate, Committed, server
  <2>3. CASE Prune
    BY <2>3 DEF Prune
  <2>4. CASE Forget \/ UNCHANGED vars
    BY <2>4 DEF Forget, vars, server
  <2> QED
    BY <2>1, <2>2, <2>3, <2>4 DEF Next
<1>3. drops' = drops \/ (drops < MaxDrops /\ drops' = drops + 1)
  <2>1. ASSUME NEW c \in Client, EngineStep(c) \/ UserStep(c) PROVE drops' = drops
    BY <2>1 DEF EngineStep, UserStep, Send, Expired, Apply, OpenBootstrap, NextPage, Replace,
                Serve, ClearRejected, Issue
  <2>2. ASSUME NEW c \in Client, Drop(c) PROVE drops < MaxDrops /\ drops' = drops + 1
    BY <2>2 DEF Drop
  <2>3. ASSUME NEW q \in late, ServeLate(q) PROVE drops' = drops
    BY <2>3 DEF ServeLate
  <2>4. CASE Prune \/ Forget \/ UNCHANGED vars
    BY <2>4 DEF Prune, Forget, vars
  <2> QED
    BY <2>1, <2>2, <2>3, <2>4 DEF Next
<1> QED
  BY <1>1, <1>2, <1>3 DEF Bounds

LEMMA TypesHold == Inv /\ Bounds => TypeOK
<1> SUFFICES ASSUME Inv, Bounds PROVE TypeOK
  OBVIOUS
<1>1. rows \in Rows /\ log \in Seq(Change) /\ receipts \subseteq Receipt
  BY DEF Inv, DataOK, RowsOK, DecisionsOK
<1>2. /\ mark \in [Client -> Nat] /\ issued \in [Client -> Seq(OpId)] /\ DOMAIN outbox = Client
      /\ \A c \in Client : \A s \in DOMAIN outbox[c] :
            s \in 1..Len(issued[c]) /\ outbox[c][s] \in StoredMutation
  BY DEF Inv, NumbersOK, OutboxOK
<1>3. view \in [Client -> Rows] /\ shadow \in [Client -> Rows]
  BY DEF Inv, DataOK
<1>4. cursor \in [Client -> 0..Len(log)]
  <2>1. cursor \in [Client -> Nat] /\ \A c \in Client : cursor[c] \in 0..Len(log)
    BY DEF Inv, DataOK, ShadowOK
  <2> QED
    BY <2>1
<1>5. run \in [Client -> Run] /\ cleared \subseteq OpId
  BY DEF Inv, RunsOK, LossOK
<1>6. late \subseteq [dev : Client, batch : Seq(Item), cursor : Nat]
  BY DEF Inv, LateOK
<1> QED
  BY <1>1, <1>2, <1>3, <1>4, <1>5, <1>6 DEF TypeOK, Bounds

(***************************************************************************)
(* The tables of the devices and of the service keep their shape, and no   *)
(* cursor and no retention job runs ahead of the change log.               *)
(***************************************************************************)
THEOREM TypeCorrect == Spec => []TypeOK
<1>1. Init => Bounds
  BY ProtocolAssumption DEF ProtocolAssumption, Init, Bounds
<1>2. Inv /\ Bounds /\ [Next]_vars => Bounds'
  BY BoundsStep
<1> QED
  BY <1>1, <1>2, Invariant, TypesHold, PTL DEF Spec

(***************************************************************************)
(* Whatever a device finds pending, the sync handler can decide: its       *)
(* numbers go on from the watermark, and no id collides with a receipt.    *)
(***************************************************************************)
THEOREM NeverJams == Spec => []OutboxNeverJams
<1>1. ASSUME Inv PROVE OutboxNeverJams
  <2> SUFFICES ASSUME NEW c \in Client PROVE Decided(c, Pending(c)).ok
    BY DEF OutboxNeverJams
  <2>1. NumbersOK /\ DecisionsOK /\ ReceiptsOK /\ RowsOK(rows, log)
    BY <1>1 DEF Inv, DataOK
  <2>2. DecidedOK(c, Decided(c, Pending(c)))
    BY <2>1, PendingOK, BatchDecided
  <2> QED
    BY <2>2 DEF DecidedOK
<1> QED
  BY <1>1, Invariant, PTL

(***************************************************************************)
(* As long as receipts are kept, an operation of the user is in the        *)
(* outbox, applied, or given up: a lost answer, a late request or a        *)
(* bootstrap never takes it away unseen.                                   *)
(***************************************************************************)
THEOREM NothingLost == ~ Forgets => (Spec => []NoSilentLoss)
<1>1. ~ Forgets /\ Inv => NoSilentLoss
  BY DEF Inv, LossOK
<1> SUFFICES ASSUME ~ Forgets PROVE Spec => []NoSilentLoss
  OBVIOUS
<1>2. Inv => NoSilentLoss
  BY <1>1
<1> QED
  BY <1>2, Invariant, PTL

(***************************************************************************)
(* No operation takes effect twice, whether its receipt is still there or  *)
(* only the watermark of its device remembers it.                          *)
(***************************************************************************)
THEOREM OneEffect == Spec => []EffectOnce
<1>1. ASSUME Inv PROVE EffectOnce
  <2> SUFFICES ASSUME NEW i \in DOMAIN log, NEW j \in DOMAIN log, log[i].op = log[j].op
               PROVE  i = j
    BY DEF EffectOnce
  <2>1. /\ NumbersOK /\ log[i] \in Change /\ log[j] \in Change
        /\ IsDecided(log[i]) /\ IsDecided(log[j])
    BY <1>1 DEF Inv, DecisionsOK
  <2>2. PICK x, y : x = log[i] /\ y = log[j]
    OBVIOUS
  <2>3. x.dev \in Client /\ y.dev \in Client /\ IsOf(x.dev, x) /\ IsOf(y.dev, y) /\ x.op = y.op
    BY <2>1, <2>2 DEF IsDecided, Change
  <2>4. x.dev = y.dev /\ x.seq = y.seq
    BY <2>1, <2>3, SameOp
  <2> QED
    BY <1>1, <2>2, <2>4 DEF Inv, DecisionsOK
<1> QED
  BY <1>1, Invariant, PTL

(***************************************************************************)
(* The shadow of a device, after syncApplyResult as after                  *)
(* syncReplaceSnapshot, goes with its cursor: the changes it has not seen  *)
(* yet make of it the rows of the service.                                 *)
(***************************************************************************)
THEOREM ShadowsConverge == Spec => []ShadowConverges
<1>1. ASSUME Inv PROVE ShadowConverges
  <2> SUFFICES ASSUME NEW c \in Client
               PROVE  ShadowAfter(shadow[c], SubSeq(log, cursor[c] + 1, Len(log))) = Shown(rows)
    BY DEF ShadowConverges
  <2> DEFINE rest == SubSeq(log, cursor[c] + 1, Len(log))
  <2>1. \A e \in Entity : Told(shadow[c][e], e, rest) = Shown(rows)[e]
    BY <1>1 DEF Inv, DataOK, ShadowOK, Leads
  <2> HIDE DEF rest
  <2>2. \A e \in Entity : ShadowAfter(shadow[c], rest)[e] = Shown(rows)[e]
    BY <2>1 DEF ShadowAfter
  <2>3. /\ ShadowAfter(shadow[c], rest) = [e \in Entity |-> ShadowAfter(shadow[c], rest)[e]]
        /\ Shown(rows) = [e \in Entity |-> Shown(rows)[e]]
    BY DEF ShadowAfter, Shown
  <2>4. ShadowAfter(shadow[c], rest) = Shown(rows)
    BY <2>2, <2>3
  <2> QED
    BY <2>4 DEF rest
<1> QED
  BY <1>1, Invariant, PTL

\* A decided batch is a step of the ledger, unless nothing in it was new.
LEMMA CommitDecides ==
    ASSUME Inv, NEW c \in Client, NEW d, DecidedOK(c, d), Committed(c, d)
    PROVE  Ledger!Decide(c) \/ UNCHANGED Ledger!ledgerVars
<1>1. NumbersOK /\ log \in Seq(Change) /\ mark \in [Client -> Nat]
  BY DEF Inv, DecisionsOK, NumbersOK
<1>2. /\ log' = d.log /\ d.log \in Seq(Change)
      /\ mark'[c] = d.expected - 1 /\ mark' = [mark EXCEPT ![c] = d.expected - 1]
      /\ mark[c] \in Nat /\ mark'[c] \in Nat /\ mark[c] <= mark'[c]
  <2>1. d \in Decision
    BY DEF DecidedOK
  <2> QED
    BY <1>1, <2>1, CommittedIs, DecisionParts DEF Committed
<1>3. /\ Len(log) <= Len(log') /\ \A i \in DOMAIN log : log'[i] = log[i]
      /\ \A i \in (Len(log) + 1)..Len(log') :
             log'[i].dev = c /\ log'[i].seq \in (mark[c] + 1)..mark'[c]
      /\ \A i, j \in (Len(log) + 1)..Len(log') : i < j => log'[i].seq < log'[j].seq
  BY <1>2 DEF DecidedOK, LogGoesOn, TakenUp
<1>4. Len(log) \in Nat /\ Len(log') \in Nat
  BY <1>1, <1>2
<1>5. CASE mark[c] < mark'[c]
  <2>1. \A i \in (Len(log) + 1)..Len(log') : mark[c] < log'[i].seq /\ log'[i].seq <= mark'[c]
    BY <1>2, <1>3
  <2>2. log' \in Seq(Ledger!Entry)
    BY <1>2 DEF Change, Ledger!Entry
  <2>3. Ledger!Continues(c, mark'[c])
    BY <1>3, <2>1, <2>2 DEF Ledger!Continues
  <2>4. mark' = [mark EXCEPT ![c] = mark'[c]]
    BY <1>2
  <2> QED
    BY <1>5, <2>3, <2>4 DEF Ledger!Decide
<1>6. CASE mark[c] = mark'[c]
  <2>1. mark' = mark
    BY <1>1, <1>2, <1>6
  <2>2. Len(log') = Len(log)
    <3>1. ASSUME Len(log') > Len(log) PROVE FALSE
      <4>1. Len(log') \in (Len(log) + 1)..Len(log')
        BY <1>4, <3>1
      <4>2. log'[Len(log')].seq \in (mark[c] + 1)..mark'[c]
        BY <1>3, <4>1
      <4> QED
        BY <1>2, <1>6, <4>2
    <3> QED
      BY <1>3, <1>4, <3>1
  <2>3. log' = log
    <3>1. PICK x \in Seq(Change), y \in Seq(Change) : x = log /\ y = log'
      BY <1>1, <1>2
    <3>2. Len(x) = Len(y) /\ \A i \in 1..Len(x) : x[i] = y[i]
      BY <1>3, <2>2, <3>1
    <3>3. x = y
      BY <3>2
    <3> QED
      BY <3>1, <3>3
  <2> QED
    BY <2>1, <2>3 DEF Ledger!ledgerVars
<1> QED
  BY <1>2, <1>5, <1>6

(***************************************************************************)
(* Devices, service and network together keep the promise of SyncLedger:   *)
(* one history that only grows, the operations of a device in the order it *)
(* issued them, and nothing decided again by a retry or a late request.    *)
(***************************************************************************)
THEOREM ProtocolIsLedger == Spec => ImplementsLedger
<1>1. Init => Ledger!Init
  BY DEF Init, Ledger!Init
<1>2. Inv /\ [Next]_vars => [Ledger!Next]_(Ledger!ledgerVars)
  <2> SUFFICES ASSUME Inv, [Next]_vars
               PROVE  Ledger!Next \/ UNCHANGED Ledger!ledgerVars
    OBVIOUS
  <2>1. CASE UNCHANGED <<log, mark>>
    BY <2>1 DEF Ledger!ledgerVars
  <2>2. ASSUME NEW c \in Client, NEW d, DecidedOK(c, d), Committed(c, d)
        PROVE  Ledger!Next \/ UNCHANGED Ledger!ledgerVars
    BY <2>2, CommitDecides DEF Ledger!Next
  <2> QED
    BY <2>1, <2>2, ServiceMoves
<1> QED
  BY <1>1, <1>2, Invariant, PTL DEF Spec, ImplementsLedger, Ledger!Spec

----------------------------------------------------------------------------
(* The view, when the operations carry only columns that a device keeps.   *)

LEMMA KnownSame ==
    ASSUME NEW m \in Mutation, DOMAIN m.val \subseteq Mirrored
    PROVE  Known(m) = m
<1>1. m.val \in Fields /\ m = [entity |-> m.entity, kind |-> m.kind, parent |-> m.parent, val |-> m.val]
  BY DEF Mutation
<1>2. PICK F \in SUBSET Column : m.val \in [F -> Value]
  BY <1>1 DEF Fields
<1> DEFINE v == [k \in DOMAIN m.val \cap Mirrored |-> m.val[k]]
<1>3. DOMAIN m.val = F /\ F \cap Mirrored = F
  BY <1>2
<1>4. v = m.val
  BY <1>2, <1>3
<1>5. Known(m) = [entity |-> m.entity, kind |-> m.kind, parent |-> m.parent, val |-> v]
  BY <1>1 DEF Known
<1> HIDE DEF v
<1> QED
  BY <1>1, <1>4, <1>5

LEMMA FoldedPlain ==
    ASSUME NEW row \in Slot, Plain(row), NEW box, Box(box), NEW e, NEW last \in Nat
    PROVE  Plain(Folded(row, box, e, last))
<1> DEFINE G == {n \in 0..last : Plain(Folded(row, box, e, n))}
<1>1. 0 \in G
  <2>1. 1 \in Nat \ {0}
    OBVIOUS
  <2>2. Folded(row, box, e, 0) = row
    BY <2>1, FoldedNext
  <2> QED
    BY <2>2
<1>2. ASSUME NEW n \in 1..last, n - 1 \in G PROVE n \in G
  <2> DEFINE r == Folded(row, box, e, n - 1)
  <2>1. n \in Nat \ {0}
    OBVIOUS
  <2>2. Folded(row, box, e, n) = FoldStep(r, box, e, n) /\ r \in Slot /\ Plain(r)
    BY <1>2, <2>1, FoldedNext
  <2> HIDE DEF r
  <2>3. CASE n \in PendingOn(box, e)
    <3> DEFINE m == Known(Content[box[n].op])
    <3>1. box[n].op \in OpId
      BY <2>3 DEF Box, PendingOn, Waiting
    <3>2. m \in Mutation /\ DOMAIN m.val \subseteq Mirrored
      BY <3>1, ContentIs, KnownIs
    <3>3. FoldStep(r, box, e, n) = Merge(r, m)
      BY <2>3 DEF FoldStep
    <3> HIDE DEF m
    <3>4. Merge(r, m) \in Row /\ Materialized(Merge(r, m)) = Merge(r, m)
      BY <2>2, <3>2, MergePlain
    <3>5. Plain(Folded(row, box, e, n))
      BY <2>2, <3>3, <3>4 DEF Plain, Slot
    <3> QED
      BY <3>5
  <2>4. CASE n \notin PendingOn(box, e)
    <3>1. Plain(Folded(row, box, e, n))
      BY <2>2, <2>4 DEF FoldStep
    <3> QED
      BY <3>1
  <2> QED
    BY <2>3, <2>4
<1>3. last \in G
  <2> HIDE DEF G
  <2>1. last \in 0..last
    OBVIOUS
  <2> QED
    BY <1>1, <1>2, <2>1, UpTo
<1> QED
  BY <1>3

\* What the user does to a row goes the same way into the view and on top of
\* the shadow.
LEMMA EditShows ==
    ASSUME NEW row \in Slot, Plain(row), NEW told \in Slot, Plain(told), NEW box, Box(box),
           NEW e \in Entity, NEW n \in Nat \ {0}, Shows(row, told, box, e, n - 1),
           n \in PendingOn(box, e), DOMAIN Content[box[n].op].val \subseteq Mirrored,
           row = Absent => Content[box[n].op].kind = "create"
    PROVE  /\ Plain(Merge(row, Content[box[n].op]))
           /\ Shows(Merge(row, Content[box[n].op]), told, box, e, n)
<1> DEFINE m == Content[box[n].op]
           F == Folded(told, box, e, n - 1)
           w == Merge(row, m)
<1>1. m \in Mutation /\ Known(m) = m
  <2>1. box[n].op \in OpId
    BY DEF Box, PendingOn, Waiting
  <2> QED
    BY <2>1, ContentIs, KnownSame
<1>2. DOMAIN m.val \subseteq Mirrored /\ (row = Absent => m.kind = "create")
  OBVIOUS
<1>3. /\ F \in Slot /\ Plain(F) /\ (told \in Row => F \in Row)
      /\ Folded(told, box, e, n) = FoldStep(F, box, e, n)
  <2>1. n - 1 \in Nat
    OBVIOUS
  <2> QED
    BY <2>1, FoldedNext, FoldedType, FoldedPlain
<1>4. FoldStep(F, box, e, n) = Merge(F, m)
  BY <1>1 DEF FoldStep
<1>5. told # Absent => row = Materialized(F) \/ row = Absent
  BY DEF Shows
<1> HIDE DEF m, F
<1>6. w \in Row /\ Materialized(w) = w
  BY <1>1, <1>2, MergePlain
<1>7. Plain(w)
  BY <1>6 DEF Plain, Slot
<1>8. told # Absent => w = Materialized(Merge(F, m))
  <2> SUFFICES ASSUME told # Absent PROVE w = Materialized(Merge(F, m))
    OBVIOUS
  <2>1. F \in Row /\ Materialized(F) = F
    BY <1>3, AbsentIsNoRow DEF Slot, Plain
  <2>2. Materialized(Merge(F, m)) = Merge(F, m)
    BY <1>1, <1>2, <1>3, MergePlain
  <2>3. CASE row = F
    BY <2>2, <2>3
  <2>4. CASE row = Absent
    <3>1. m.kind = "create"
      BY <1>2, <2>4
    <3>2. Merge(row, m) = Created(m, 0) /\ Merge(F, m) = Created(m, 0)
      BY <1>1, <1>3, <3>1, MergeCreate
    <3> QED
      BY <2>2, <3>2
  <2> QED
    BY <1>5, <2>1, <2>3, <2>4
<1>9. Shows(w, told, box, e, n)
  BY <1>3, <1>4, <1>8 DEF Shows
<1> QED
  BY <1>7, <1>9 DEF m

\* A command in the view and at the end of the outbox.
LEMMA EditedShows ==
    ASSUME AllMirrored, NEW table \in Rows, NEW sh, PlainTable(sh), NEW box, Box(box),
           NEW last \in Nat, Projects(table, sh, box, last), NEW command \in Seq(OpId),
           \A i \in 1..Len(command) :
               LocallyAllowed(Edited(table, command, i - 1), Content[command[i]]),
           NEW more, Box(more),
           \A s \in 1..last : /\ s \in DOMAIN more <=> s \in DOMAIN box
                              /\ s \in DOMAIN box => more[s] = box[s],
           \A i \in 1..Len(command) : /\ last + i \in DOMAIN more
                                      /\ more[last + i] = [op |-> command[i], status |-> "pending"]
    PROVE  Projects(Edited(table, command, Len(command)), sh, more, last + Len(command))
<1> DEFINE Good(n) == Projects(Edited(table, command, n), sh, more, last + n)
           G == {n \in 0..Len(command) : Good(n)}
<1>0. Len(command) \in Nat /\ sh \in Rows /\ \A e \in Entity : sh[e] \in Slot /\ Plain(sh[e])
  BY DEF PlainTable, Plain
<1>1. 0 \in G
  <2>1. Edited(table, command, 0) = table
    BY <1>0, EditedType
  <2>2. ASSUME NEW e \in Entity PROVE Shows(table[e], sh[e], more, e, last)
    <3>1. \A s \in 1..last : /\ s \in PendingOn(box, e) <=> s \in PendingOn(more, e)
                             /\ s \in PendingOn(box, e) => box[s].op = more[s].op
      BY DEF PendingOn, Waiting, EntityOf
    <3>2. Folded(sh[e], box, e, last) = Folded(sh[e], more, e, last)
      BY <1>0, <3>1, FoldedSame
    <3>3. Shows(table[e], sh[e], box, e, last)
      BY DEF Projects
    <3> QED
      BY <3>2, <3>3 DEF Shows
  <2>3. PlainTable(table) /\ last + 0 = last
    BY DEF Projects
  <2>4. Good(0)
    BY <2>1, <2>2, <2>3 DEF Projects
  <2> HIDE DEF Good
  <2> QED
    BY <1>0, <2>4
<1>2. ASSUME NEW n \in 1..Len(command), n - 1 \in G PROVE n \in G
  <2> DEFINE old == Edited(table, command, n - 1)
             new == Edited(table, command, n)
             at == last + n
  <2>1. n \in Nat /\ at \in Nat \ {0} /\ last + (n - 1) = at - 1
    OBVIOUS
  <2>2. Projects(old, sh, more, at - 1)
    BY <1>2, <2>1
  <2>3. PICK o \in OpId : o = command[n]
    OBVIOUS
  <2>4. new = EditStep(old, o) /\ old \in Rows
    BY <2>3, EditedNext
  <2>5. at \in DOMAIN more /\ more[at].op = o /\ more[at].status = "pending"
    <3>1. at \in DOMAIN more /\ more[at] = [op |-> command[n], status |-> "pending"]
      OBVIOUS
    <3>2. more[at].op = command[n] /\ more[at].status = "pending"
      BY <3>1
    <3> HIDE DEF at
    <3> QED
      BY <2>3, <3>1, <3>2
  <2>6. LocallyAllowed(old, Content[o])
    BY <2>3
  <2>7. DOMAIN Content[o].val \subseteq Mirrored
    BY DEF AllMirrored
  <2> HIDE DEF old, new, at
  <2>8. /\ new \in Rows
        /\ \A e \in Entity : new[e] = IF e = Content[o].entity THEN Merge(old[e], Content[o]) ELSE old[e]
    BY <2>4, EditStepIs
  <2>9. ASSUME NEW e \in Entity
        PROVE  Plain(new[e]) /\ Shows(new[e], sh[e], more, e, at)
    <3>1. /\ Plain(old[e]) /\ old[e] \in Slot /\ Shows(old[e], sh[e], more, e, at - 1)
          /\ sh[e] \in Slot /\ Plain(sh[e])
      BY <1>0, <2>2 DEF Projects, PlainTable, Plain
    <3>2. PICK row, told : row = old[e] /\ told = sh[e]
      OBVIOUS
    <3>3. CASE e = Content[o].entity
      <4>1. at \in PendingOn(more, e)
        BY <2>5, <3>3 DEF PendingOn, Waiting, EntityOf
      <4>2. row = Absent => Content[o].kind = "create"
        BY <2>6, <3>2, <3>3 DEF LocallyAllowed, Live
      <4>3. /\ Plain(Merge(row, Content[more[at].op]))
            /\ Shows(Merge(row, Content[more[at].op]), told, more, e, at)
        BY <2>1, <2>5, <2>7, <3>1, <3>2, <4>1, <4>2, EditShows
      <4> QED
        BY <2>5, <2>8, <3>2, <3>3, <4>3
    <3>4. CASE e # Content[o].entity
      <4>1. at \notin PendingOn(more, e)
        BY <2>5, <3>4 DEF PendingOn, EntityOf
      <4>2. Folded(told, more, e, at) = FoldStep(Folded(told, more, e, at - 1), more, e, at)
        BY <2>1, <3>1, <3>2, FoldedNext
      <4>3. Folded(told, more, e, at) = Folded(told, more, e, at - 1)
        BY <4>1, <4>2 DEF FoldStep
      <4>4. new[e] = row
        BY <2>8, <3>2, <3>4
      <4> QED
        BY <3>1, <3>2, <4>3, <4>4 DEF Shows
    <3> QED
      BY <3>3, <3>4
  <2>10. Good(n)
    BY <2>8, <2>9 DEF Projects, PlainTable, new, at
  <2> HIDE DEF Good
  <2> QED
    BY <2>10
<1>3. Len(command) \in G
  <2> HIDE DEF G
  <2>1. Len(command) \in 0..Len(command)
    BY <1>0
  <2> QED
    BY <1>0, <1>1, <1>2, <2>1, UpTo
<1> QED
  BY <1>3

LEMMA ViewsKept ==
    ASSUME ViewOK, NEW c \in Client,
           \A x \in Client : x # c => /\ view'[x] = view[x] /\ shadow'[x] = shadow[x]
                                      /\ outbox'[x] = outbox[x] /\ issued'[x] = issued[x],
           Projects(view'[c], shadow'[c], outbox'[c], Len(issued'[c]))
    PROVE  ViewOK'
<1>1. ASSUME NEW x \in Client
      PROVE  Projects(view'[x], shadow'[x], outbox'[x], Len(issued'[x]))
  <2>1. CASE x = c
    BY <2>1
  <2>2. CASE x # c
    <3>1. Projects(view[x], shadow[x], outbox[x], Len(issued[x]))
      BY DEF ViewOK
    <3> QED
      BY <2>2, <3>1
  <2> QED
    BY <2>1, <2>2
<1> QED
  BY <1>1 DEF ViewOK

\* A command in its transaction.
LEMMA IssueShows ==
    ASSUME AllMirrored, Inv, ViewOK, NEW c \in Client, NEW command \in Commands[c],
           Issue(c, command)
    PROVE  ViewOK'
<1> DEFINE last == Len(issued[c])
<1>1. command \in Seq(OpId) /\ Len(command) \in Nat
  BY ProtocolAssumption DEF ProtocolAssumption
<1>2. /\ NumbersOK /\ Box(outbox[c]) /\ last \in Nat /\ view \in [Client -> Rows]
      /\ PlainTable(shadow[c]) /\ OutboxOK(c)
  BY OutboxIsBox DEF Inv, DataOK, ShadowOK, NumbersOK
<1>3. /\ view' = [view EXCEPT ![c] = Edited(@, command, Len(command))]
      /\ shadow' = shadow
      /\ \A i \in DOMAIN command :
             LocallyAllowed(Edited(view[c], command, i - 1), Content[command[i]])
  BY DEF Issue
<1>4. /\ Len(issued'[c]) = last + Len(command)
      /\ \A x \in Client : x # c => issued'[x] = issued[x] /\ outbox'[x] = outbox[x]
      /\ DOMAIN outbox'[c] = DOMAIN outbox[c] \cup ((last + 1)..(last + Len(command)))
      /\ \A s \in DOMAIN outbox[c] : outbox'[c][s] = outbox[c][s]
      /\ \A i \in 1..Len(command) :
             outbox'[c][last + i] = [op |-> command[i], status |-> "pending"]
  BY <1>1, IssuedIs
<1>5. PICK table, sh, box, more : table = view[c] /\ sh = shadow[c] /\ box = outbox[c] /\ more = outbox'[c]
  OBVIOUS
<1> HIDE DEF last
<1>6. PICK from : from = last
  OBVIOUS
<1>7. Projects(table, sh, box, from)
  BY <1>5, <1>6 DEF ViewOK, last
<1>8. \A s \in 1..from : /\ s \in DOMAIN more <=> s \in DOMAIN box
                         /\ s \in DOMAIN box => more[s] = box[s]
  BY <1>1, <1>2, <1>4, <1>5, <1>6
<1>9. \A i \in 1..Len(command) : /\ from + i \in DOMAIN more
                                 /\ more[from + i] = [op |-> command[i], status |-> "pending"]
  BY <1>1, <1>2, <1>4, <1>5, <1>6
<1>10. Box(more)
  <2> SUFFICES ASSUME NEW s \in DOMAIN more PROVE more[s].op \in OpId
    BY DEF Box
  <2>1. CASE s \in DOMAIN box
    BY <1>2, <1>4, <1>5, <2>1 DEF Box
  <2>2. CASE s \in (last + 1)..(last + Len(command))
    <3>1. PICK i \in 1..Len(command) : s = from + i
      <4>1. s - last \in 1..Len(command) /\ s = from + (s - last)
        BY <1>1, <1>2, <1>6, <2>2
      <4> QED
        BY <4>1
    <3>2. command[i] \in OpId
      BY <1>1
    <3>3. more[s] = [op |-> command[i], status |-> "pending"]
      BY <1>9, <3>1
    <3> QED
      BY <3>2, <3>3
  <2> QED
    BY <1>4, <1>5, <2>1, <2>2
<1>11. \A i \in 1..Len(command) : LocallyAllowed(Edited(table, command, i - 1), Content[command[i]])
  BY <1>1, <1>3, <1>5
<1>12. table \in Rows /\ PlainTable(sh) /\ Box(box) /\ from \in Nat
  BY <1>2, <1>5, <1>6
<1>13. Projects(Edited(table, command, Len(command)), sh, more, from + Len(command))
  BY <1>1, <1>7, <1>8, <1>9, <1>10, <1>11, <1>12, EditedShows
<1>14. view'[c] = Edited(table, command, Len(command)) /\ \A x \in Client : x # c => view'[x] = view[x]
  BY <1>2, <1>3, <1>5
<1>15. Projects(view'[c], shadow'[c], outbox'[c], Len(issued'[c]))
  BY <1>3, <1>4, <1>5, <1>6, <1>13, <1>14
<1> QED
  BY <1>3, <1>4, <1>14, <1>15, ViewsKept

\* Reprojection, where it is done for every entity that something happened to.
LEMMA ReprojectedShows ==
    ASSUME NEW c \in Client, Len(issued[c]) \in Nat, NEW sh, PlainTable(sh), NEW box, Box(box),
           NEW table, PlainTable(table), NEW entities \in Seq(Entity),
           \A e \in Entity : \/ \E i \in DOMAIN entities : entities[i] = e
                             \/ Shows(table[e], sh[e], box, e, Len(issued[c]))
    PROVE  Projects(ReprojectEach(c, sh, box, table, entities), sh, box, Len(issued[c]))
<1> DEFINE new == ReprojectEach(c, sh, box, table, entities)
           Among(e) == \E i \in DOMAIN entities : entities[i] = e
<1>1. table \in Rows /\ sh \in Rows
  BY DEF PlainTable
<1>2. /\ new \in Rows
      /\ \A e \in Entity : Reprojected(c, sh, box, table[e], new[e], e, Among(e))
  BY <1>1, ReprojectEachIs
<1>3. \A e \in Entity : Among(e) \/ Shows(table[e], sh[e], box, e, Len(issued[c]))
  OBVIOUS
<1> HIDE DEF new, Among
<1>4. ASSUME NEW e \in Entity
      PROVE  Plain(new[e]) /\ Shows(new[e], sh[e], box, e, Len(issued[c]))
  <2>1. /\ Plain(new[e])
        /\ Among(e) /\ sh[e] # Absent => \/ new[e] = Projected(c, box, sh[e], e)
                                         \/ e \in DayPlans /\ new[e] = Absent
        /\ ~ Among(e) => new[e] = table[e] \/ (e \in DayPlans /\ new[e] = Absent)
    <3>1. Plain(table[e])
      BY DEF PlainTable
    <3> QED
      BY <1>2, <3>1 DEF Reprojected
  <2>2. CASE Among(e)
    BY <2>1, <2>2 DEF Shows, Projected
  <2>3. CASE ~ Among(e)
    BY <1>3, <2>1, <2>3 DEF Shows
  <2> QED
    BY <2>1, <2>2, <2>3
<1> QED
  BY <1>2, <1>4 DEF Projects, PlainTable, new

\* What is given up was not on top any more, or is taken out of the view.
LEMMA ClearRejectedShows ==
    ASSUME Inv, ViewOK, NEW c \in Client, ClearRejected(c)
    PROVE  ViewOK'
<1> DEFINE W == Waiting(outbox[c])
           R == Rejected(outbox[c])
           kept == Restrict(outbox[c], W)
           rejected == Listed(c, R)
           among == EntitiesOf(rejected)
<1>1. /\ outbox' = [outbox EXCEPT ![c] = kept]
      /\ view' = [view EXCEPT ![c] = ReprojectEach(c, shadow[c], kept, @, among)]
      /\ UNCHANGED <<issued, shadow>>
  BY DEF ClearRejected
<1>2. /\ NumbersOK /\ Box(outbox[c]) /\ Len(issued[c]) \in Nat /\ view \in [Client -> Rows]
      /\ PlainTable(shadow[c]) /\ DOMAIN outbox = Client
  BY OutboxIsBox DEF Inv, DataOK, ShadowOK, NumbersOK
<1>3. W \subseteq DOMAIN outbox[c] /\ R \subseteq DOMAIN outbox[c]
  BY DEF Waiting, Rejected
<1> HIDE DEF R
<1>4. rejected \in Seq(Item)
  BY <1>2, <1>3, ListedIs
<1> HIDE DEF rejected
<1>5. among \in Seq(Entity)
  <2>1. \A a \in Item : a.op \in OpId
    BY DEF Item
  <2> QED
    BY <1>4, <2>1, EntitiesAre
<1>6. DOMAIN kept = W /\ \A s \in W : kept[s] = outbox[c][s]
  BY DEF Restrict
<1>7. Box(kept) /\ \A e : PendingOn(kept, e) = PendingOn(outbox[c], e)
  <2>1. Box(kept)
    BY <1>2, <1>3, <1>6 DEF Box
  <2>2. Waiting(kept) = W
    BY <1>6 DEF Waiting
  <2>3. \A e : PendingOn(kept, e) = PendingOn(outbox[c], e)
    BY <1>6, <2>2 DEF PendingOn
  <2> QED
    BY <2>1, <2>3
<1> HIDE DEF kept, among
<1>8. /\ outbox'[c] = kept /\ view'[c] = ReprojectEach(c, shadow[c], kept, view[c], among)
      /\ \A x \in Client : x # c => outbox'[x] = outbox[x] /\ view'[x] = view[x]
  BY <1>1, <1>2
<1>9. Projects(view[c], shadow[c], outbox[c], Len(issued[c]))
  BY DEF ViewOK
<1>10. ASSUME NEW e \in Entity
       PROVE  Shows(view[c][e], shadow[c][e], kept, e, Len(issued[c]))
  <2>1. shadow[c][e] \in Slot
    BY <1>2 DEF PlainTable, Plain
  <2>2. \A s \in 1..Len(issued[c]) :
            /\ s \in PendingOn(outbox[c], e) <=> s \in PendingOn(kept, e)
            /\ s \in PendingOn(outbox[c], e) => outbox[c][s].op = kept[s].op
    BY <1>6, <1>7 DEF PendingOn, W
  <2>3. Folded(shadow[c][e], outbox[c], e, Len(issued[c])) =
        Folded(shadow[c][e], kept, e, Len(issued[c]))
    BY <1>2, <1>7, <2>1, <2>2, FoldedSame
  <2> QED
    BY <1>9, <2>3 DEF Projects, Shows
<1>11. Projects(ReprojectEach(c, shadow[c], kept, view[c], among), shadow[c], kept, Len(issued[c]))
  <2>1. PlainTable(view[c])
    BY <1>9 DEF Projects
  <2> QED
    BY <1>2, <1>5, <1>7, <1>10, <2>1, ReprojectedShows
<1>12. Projects(view'[c], shadow'[c], outbox'[c], Len(issued'[c]))
  BY <1>1, <1>8, <1>11
<1> QED
  BY <1>1, <1>8, <1>12, ViewsKept

\* Changes that do not concern a row leave it as it was told.
LEMMA ToldNothing ==
    ASSUME NEW row \in Slot, NEW e, NEW changes \in Seq(Change),
           \A i \in 1..Len(changes) : EntityOf(changes[i]) # e
    PROVE  Told(row, e, changes) = row
<1>1. PICK f : Telling(f, row, e, changes)
  BY ToldIs
<1> DEFINE N == Len(changes)
           G == {n \in 0..N : f[n] = row}
<1>2. N \in Nat
  OBVIOUS
<1>3. 0 \in G
  BY <1>1, <1>2 DEF Telling
<1>4. ASSUME NEW n \in 1..N, n - 1 \in G PROVE n \in G
  <2>1. f[n] = Hears(f[n - 1], e, changes[n]) /\ f[n - 1] = row
    BY <1>1, <1>4 DEF Telling
  <2>2. EntityOf(changes[n]) # e
    OBVIOUS
  <2> QED
    BY <2>1, <2>2 DEF Hears
<1>5. N \in G
  <2> HIDE DEF G, N
  <2>1. N \in 0..N
    BY <1>2
  <2> QED
    BY <1>2, <1>3, <1>4, <2>1, UpTo
<1> QED
  BY <1>1, <1>5 DEF Telling

\* Acks and changes: whatever they touch is projected again.
LEMMA ApplyShows ==
    ASSUME Inv, ViewOK, NEW c \in Client, Apply(c)
    PROVE  ViewOK'
<1> DEFINE acks == run[c].acks
           changes == run[c].changes
           sh == ShadowAfter(shadow[c], changes)
           known == {a \in ToSet(acks) : \E s \in DOMAIN outbox[c] : outbox[c][s].op = a.op}
           acked == Filter(acks, known)
           box == OutboxAfter(c)
           among == EntitiesOf(acked) \o EntitiesOf(changes)
<1>1. NumbersOK /\ DataOK /\ RunOK(c) /\ OutboxOK(c)
  BY DEF Inv, RunsOK, NumbersOK
<1>2. /\ shadow' = [shadow EXCEPT ![c] = sh] /\ outbox' = [outbox EXCEPT ![c] = box]
      /\ view' = [view EXCEPT ![c] = ReprojectEach(c, sh, box, @, among)]
      /\ issued' = issued /\ run[c].phase = "answered"
  BY DEF Apply
<1>3. /\ acks \in Seq(Ack) /\ changes \in Seq(Change)
      /\ \A i \in DOMAIN acks : AckOK(c, acks[i])
      /\ run[c].next \in cursor[c]..Len(log) /\ changes = SubSeq(log, cursor[c] + 1, run[c].next)
  BY <1>1, <1>2 DEF RunOK
<1>4. PlainTable(sh) /\ PlainTable(shadow[c])
  <2>1. PlainTable(ShadowAfter(shadow[c], SubSeq(log, cursor[c] + 1, run[c].next)))
    BY <1>3, AppliedShadow
  <2> QED
    BY <1>1, <1>3, <2>1 DEF DataOK, ShadowOK
<1>5. /\ DOMAIN box \subseteq DOMAIN outbox[c]
      /\ \A s \in DOMAIN box :
            /\ box[s] \in StoredMutation
            /\ \/ box[s] = outbox[c][s]
               \/ AcksOf(c, outbox[c][s]) # {} /\ box[s].status = "rejected"
      /\ \A s \in DOMAIN outbox[c] : AcksOf(c, outbox[c][s]) = {} =>
            s \in DOMAIN box /\ box[s] = outbox[c][s]
  <2> HIDE DEF box
  <2> QED
    BY <1>1, <1>3, OutboxAfterIs DEF box
<1>6. /\ acked \in Seq(Ack)
      /\ \A a \in known : \E i \in DOMAIN acked : acked[i] = a
  <2>1. \A a \in known : \E i \in DOMAIN acks : acks[i] = a
    BY <1>3 DEF ToSet
  <2> HIDE DEF known, acks
  <2>2. Filter(acks, known) \in Seq(Ack) /\ Keeps(Filter(acks, known), acks, known)
    BY <1>3, FilterHas
  <2> QED
    BY <2>1, <2>2 DEF Keeps
<1> HIDE DEF acked
<1>7. /\ EntitiesOf(acked) \in Seq(Entity) /\ EntitiesOf(changes) \in Seq(Entity)
      /\ Len(EntitiesOf(acked)) = Len(acked) /\ Len(EntitiesOf(changes)) = Len(changes)
      /\ \A i \in 1..Len(acked) : EntitiesOf(acked)[i] = EntityOf(acked[i])
      /\ \A i \in 1..Len(changes) : EntitiesOf(changes)[i] = EntityOf(changes[i])
  <2>1. (\A a \in Ack : a.op \in OpId) /\ (\A a \in Change : a.op \in OpId)
    BY DEF Ack, Change
  <2> HIDE DEF acks, changes
  <2> QED
    BY <1>3, <1>6, <2>1, EntitiesAre
<1>8. /\ among \in Seq(Entity)
      /\ \A i \in 1..Len(acked) : \E j \in DOMAIN among : among[j] = EntityOf(acked[i])
      /\ \A i \in 1..Len(changes) : \E j \in DOMAIN among : among[j] = EntityOf(changes[i])
  <2>1. PICK p \in Seq(Entity), q \in Seq(Entity) : p = EntitiesOf(acked) /\ q = EntitiesOf(changes)
    BY <1>7
  <2>2. /\ p \o q \in Seq(Entity) /\ Len(p \o q) = Len(p) + Len(q)
        /\ \A i \in 1..Len(p) : (p \o q)[i] = p[i]
        /\ \A i \in 1..Len(q) : (p \o q)[Len(p) + i] = q[i]
    <3> HIDE DEF sh, box, acks, changes
    <3>1. p \o q \in Seq(Entity) /\ Len(p \o q) = Len(p) + Len(q)
      OBVIOUS
    <3>2. \A i \in 1..Len(p) : (p \o q)[i] = p[i]
      OBVIOUS
    <3>3. \A i \in 1..Len(q) : (p \o q)[Len(p) + i] = q[i]
      OBVIOUS
    <3> QED
      BY <3>1, <3>2, <3>3
  <2>3. Len(p) \in Nat /\ Len(q) \in Nat
    OBVIOUS
  <2>4. ASSUME NEW i \in 1..Len(acked)
        PROVE  \E j \in DOMAIN among : among[j] = EntityOf(acked[i])
    <3>1. i \in DOMAIN (p \o q) /\ (p \o q)[i] = EntityOf(acked[i])
      BY <1>7, <2>1, <2>2, <2>3
    <3> QED
      BY <2>1, <3>1
  <2>5. ASSUME NEW i \in 1..Len(changes)
        PROVE  \E j \in DOMAIN among : among[j] = EntityOf(changes[i])
    <3>1. Len(p) + i \in DOMAIN (p \o q) /\ (p \o q)[Len(p) + i] = EntityOf(changes[i])
      BY <1>7, <2>1, <2>2, <2>3
    <3> QED
      BY <2>1, <3>1
  <2> QED
    BY <2>1, <2>2, <2>4, <2>5
<1>9. /\ Len(issued[c]) \in Nat /\ Box(box) /\ Box(outbox[c])
      /\ view \in [Client -> Rows] /\ shadow \in [Client -> Rows] /\ DOMAIN outbox = Client
  BY <1>1, <1>5, OutboxIsBox DEF Box, StoredMutation, NumbersOK, DataOK
<1> HIDE DEF among
<1>10. Projects(view[c], shadow[c], outbox[c], Len(issued[c]))
  BY DEF ViewOK
<1>11. ASSUME NEW e \in Entity, \A j \in DOMAIN among : among[j] # e
       PROVE  Shows(view[c][e], sh[e], box, e, Len(issued[c]))
  <2>1. sh[e] = shadow[c][e]
    <3>1. \A i \in 1..Len(changes) : EntityOf(changes[i]) # e
      BY <1>8, <1>11
    <3>2. shadow[c][e] \in Slot
      BY <1>4 DEF PlainTable, Plain
    <3>3. Told(shadow[c][e], e, changes) = shadow[c][e]
      BY <1>3, <3>1, <3>2, ToldNothing
    <3> QED
      BY <3>3 DEF ShadowAfter
  <2> HIDE DEF sh, box
  <2>2. ASSUME NEW s \in DOMAIN outbox[c], EntityOf(outbox[c][s]) = e
        PROVE  AcksOf(c, outbox[c][s]) = {}
    <3> SUFFICES ASSUME NEW a \in AcksOf(c, outbox[c][s]) PROVE FALSE
      OBVIOUS
    <3>1. a \in ToSet(acks) /\ a.op = outbox[c][s].op
      BY DEF AcksOf
    <3>2. a \in known
      BY <3>1
    <3>3. PICK i \in DOMAIN acked : acked[i] = a
      BY <1>6, <3>2
    <3>4. i \in 1..Len(acked) /\ EntityOf(acked[i]) = e
      BY <1>6, <2>2, <3>1, <3>3 DEF EntityOf
    <3> QED
      BY <1>8, <1>11, <3>4
  <2>3. \A s \in 1..Len(issued[c]) :
            /\ s \in PendingOn(outbox[c], e) <=> s \in PendingOn(box, e)
            /\ s \in PendingOn(outbox[c], e) => outbox[c][s].op = box[s].op
    <3> TAKE s \in 1..Len(issued[c])
    <3>1. ASSUME s \in PendingOn(outbox[c], e) PROVE s \in PendingOn(box, e) /\ box[s] = outbox[c][s]
      <4>1. s \in DOMAIN outbox[c] /\ EntityOf(outbox[c][s]) = e /\ outbox[c][s].status = "pending"
        BY <3>1 DEF PendingOn, Waiting
      <4>2. s \in DOMAIN box /\ box[s] = outbox[c][s]
        BY <1>5, <2>2, <4>1
      <4> QED
        BY <4>1, <4>2 DEF PendingOn, Waiting
    <3>2. ASSUME s \in PendingOn(box, e) PROVE s \in PendingOn(outbox[c], e)
      <4>1. s \in DOMAIN box /\ EntityOf(box[s]) = e /\ box[s].status = "pending"
        BY <3>2 DEF PendingOn, Waiting
      <4>2. s \in DOMAIN outbox[c] /\ box[s] = outbox[c][s]
        BY <1>5, <4>1
      <4> QED
        BY <4>1, <4>2 DEF PendingOn, Waiting
    <3> QED
      BY <3>1, <3>2
  <2>4. shadow[c][e] \in Slot
    BY <1>4 DEF PlainTable, Plain
  <2>5. Folded(shadow[c][e], outbox[c], e, Len(issued[c])) =
        Folded(shadow[c][e], box, e, Len(issued[c]))
    BY <1>9, <2>3, <2>4, FoldedSame
  <2>6. Shows(view[c][e], shadow[c][e], outbox[c], e, Len(issued[c]))
    BY <1>10 DEF Projects
  <2> QED
    BY <2>1, <2>5, <2>6 DEF Shows
<1> HIDE DEF sh, box
<1>12. Projects(ReprojectEach(c, sh, box, view[c], among), sh, box, Len(issued[c]))
  <2>1. PlainTable(view[c])
    BY <1>10 DEF Projects
  <2>2. \A e \in Entity : \/ \E i \in DOMAIN among : among[i] = e
                          \/ Shows(view[c][e], sh[e], box, e, Len(issued[c]))
    BY <1>11
  <2> QED
    BY <1>4, <1>8, <1>9, <2>1, <2>2, ReprojectedShows
<1>13. /\ view'[c] = ReprojectEach(c, sh, box, view[c], among) /\ shadow'[c] = sh /\ outbox'[c] = box
       /\ \A x \in Client : x # c => /\ view'[x] = view[x] /\ shadow'[x] = shadow[x]
                                     /\ outbox'[x] = outbox[x]
  BY <1>2, <1>9
<1>14. Projects(view'[c], shadow'[c], outbox'[c], Len(issued'[c]))
  BY <1>2, <1>12, <1>13
<1> QED
  BY <1>2, <1>13, <1>14, ViewsKept

\* A bootstrap: the rows that were listed, with what is pending on top.
LEMMA ReplaceShows ==
    ASSUME Inv, ViewOK, NEW c \in Client, Replace(c)
    PROVE  ViewOK'
<1> DEFINE got == run[c].got
           new == Replaced(c, got)
<1>1. /\ NumbersOK /\ RunOK(c) /\ Box(outbox[c]) /\ Len(issued[c]) \in Nat
      /\ view \in [Client -> Rows] /\ shadow \in [Client -> Rows]
  BY OutboxIsBox DEF Inv, RunsOK, DataOK
<1>2. /\ view' = [view EXCEPT ![c] = new] /\ shadow' = [shadow EXCEPT ![c] = got]
      /\ UNCHANGED <<outbox, issued>> /\ run[c].phase = "paging"
  BY DEF Replace
<1>3. PlainTable(got)
  BY <1>1, <1>2 DEF RunOK
<1> HIDE DEF got
<1>4. /\ new \in Rows /\ \A e \in Entity : Plain(new[e])
      /\ \A e \in Entity : new[e] =
             IF PendingOn(outbox[c], e) = {} THEN got[e]
             ELSE Projected(c, outbox[c], IF got[e] # Absent THEN got[e] ELSE view[c][e], e)
  BY <1>1, <1>3, ReplacedIs
<1> HIDE DEF new
<1>5. ASSUME NEW e \in Entity
      PROVE  Shows(new[e], got[e], outbox[c], e, Len(issued[c]))
  <2> SUFFICES ASSUME got[e] # Absent
               PROVE  new[e] = Materialized(Folded(got[e], outbox[c], e, Len(issued[c])))
    BY DEF Shows
  <2>1. got[e] \in Slot /\ Materialized(got[e]) = got[e]
    BY <1>3 DEF PlainTable, Plain
  <2>2. CASE PendingOn(outbox[c], e) = {}
    <3>1. Folded(got[e], outbox[c], e, Len(issued[c])) = got[e]
      BY <1>1, <2>1, <2>2, FoldedNone
    <3> QED
      BY <1>4, <2>1, <2>2, <3>1
  <2>3. CASE PendingOn(outbox[c], e) # {}
    BY <1>4, <2>3 DEF Projected
  <2> QED
    BY <2>2, <2>3
<1>6. Projects(new, got, outbox[c], Len(issued[c]))
  BY <1>4, <1>5 DEF Projects, PlainTable
<1>7. /\ view'[c] = new /\ shadow'[c] = got
      /\ \A x \in Client : x # c => view'[x] = view[x] /\ shadow'[x] = shadow[x]
  BY <1>1, <1>2
<1>8. Projects(view'[c], shadow'[c], outbox'[c], Len(issued'[c]))
  BY <1>2, <1>6, <1>7
<1> QED
  BY <1>2, <1>7, <1>8, ViewsKept

LEMMA ViewsInit ==
    ASSUME Init
    PROVE  ViewOK
<1>1. Plain(Absent) /\ NoRows \in Rows /\ \A e \in Entity : NoRows[e] = Absent
  BY DEF NoRows, Rows, Plain, Slot
<1>2. PlainTable(NoRows)
  BY <1>1 DEF PlainTable
<1>3. ASSUME NEW box, NEW last PROVE Projects(NoRows, NoRows, box, last)
  BY <1>1, <1>2 DEF Projects, Shows
<1>4. \A c \in Client : view[c] = NoRows /\ shadow[c] = NoRows
  BY DEF Init
<1> QED
  BY <1>3, <1>4 DEF ViewOK

LEMMA ViewsStep ==
    ASSUME AllMirrored, Inv, ViewOK, [Next]_vars
    PROVE  ViewOK'
<1>1. ASSUME UNCHANGED <<view, shadow, outbox, issued>> PROVE ViewOK'
  BY <1>1 DEF ViewOK
<1>2. ASSUME NEW c \in Client, \/ Send(c) \/ Serve(c) \/ Expired(c) \/ OpenBootstrap(c)
                               \/ NextPage(c) \/ Drop(c)
      PROVE  ViewOK'
  BY <1>1, <1>2 DEF Send, Serve, Expired, OpenBootstrap, NextPage, Drop, store
<1>3. ASSUME NEW c \in Client, UserStep(c) PROVE ViewOK'
  BY <1>3, ClearRejectedShows, IssueShows DEF UserStep
<1>4. ASSUME NEW c \in Client, Apply(c) \/ Replace(c) PROVE ViewOK'
  BY <1>4, ApplyShows, ReplaceShows
<1>5. ASSUME NEW q \in late, ServeLate(q) PROVE ViewOK'
  BY <1>1, <1>5 DEF ServeLate, store
<1>6. CASE Prune \/ Forget \/ UNCHANGED vars
  BY <1>1, <1>6 DEF Prune, Forget, vars, store
<1> QED
  BY <1>2, <1>3, <1>4, <1>5, <1>6 DEF Next, EngineStep

(***************************************************************************)
(* When every column that an operation carries is one that a device keeps  *)
(* (MUTABLE_FIELDS leaves out tags), the view is the shadow with what is   *)
(* pending on top, whatever the order of commands, acks, changes,          *)
(* rejections and bootstraps.                                              *)
(***************************************************************************)
THEOREM ViewsAreProjections == AllMirrored => (Spec => []ViewIsProjection)
<1> SUFFICES ASSUME AllMirrored PROVE Spec => []ViewIsProjection
  OBVIOUS
<1>1. Init => ViewOK
  BY ViewsInit
<1>2. Inv /\ ViewOK /\ [Next]_vars => ViewOK'
  BY ViewsStep
<1>3. ViewOK => ViewIsProjection
  BY DEF ViewOK, Projects, Shows, ViewIsProjection, Projected
<1> QED
  BY <1>1, <1>2, <1>3, Invariant, PTL DEF Spec

=============================================================================
