----------------------- MODULE SyncServerReplayProofs -----------------------
(***************************************************************************)
(* Proofs about what a client makes of the change log of SyncServer: the   *)
(* changes, folded one after the other without any check, give the rows    *)
(* that the server holds.                                                  *)
(***************************************************************************)
EXTENDS SyncServerProofs

----------------------------------------------------------------------------
(* Folding mutations. *)

\* One mutation, folded into the rows of a client.
Folded(r, m) == [r EXCEPT ![m.entity] = Merge(@, m)]

\* h holds the rows after each number.
Follows(h, changes, base, from, upto) ==
    /\ h[from] = base
    /\ \A s \in (from + 1)..upto : h[s] = Folded(h[s - 1], MutationAt(changes, s))

\* h goes from base step by step.
Stepwise(h, base, step, from, upto) ==
    \A s \in from..upto : h[s] = IF s = from THEN base ELSE step[s][h[s - 1]]

\* A sequence of folds exists from any number to any other.
LEMMA FoldsExist ==
    ASSUME NEW S, NEW base \in S, NEW from \in Nat, NEW upto \in Nat,
           NEW step \in [Nat -> [S -> S]]
    PROVE  \E h \in [from..upto -> S] : Stepwise(h, base, step, from, upto)
<1> DEFINE Fold(h, n) == \A s \in from..n :
              h[s] = IF s = from THEN base ELSE step[s][h[s - 1]]
           Good(n) == \E h \in [from..n -> S] : Fold(h, n)
           Bad == {n \in Nat : ~ Good(n)}
<1>1. ASSUME Bad # {} PROVE FALSE
  <2>1. PICK n \in Bad : \A k \in Bad : n <= k
    BY <1>1, LeastExists
  <2>2. n \in Nat /\ ~ Good(n)
    OBVIOUS
  <2>3. CASE n <= from
    <3> DEFINE h == [s \in from..n |-> base]
    <3>1. \A s \in from..n : s = from
      BY <2>2, <2>3
    <3>2. h \in [from..n -> S]
      OBVIOUS
    <3>3. \A s \in from..n : base = IF s = from THEN base ELSE step[s][h[s - 1]]
      BY <3>1
    <3>4. Fold(h, n)
      BY <3>3
    <3> QED
      BY <2>2, <3>2, <3>4
  <2>4. CASE n > from
    <3>0. n - 1 \in Nat /\ ~ (n <= n - 1)
      BY <2>2, <2>4
    <3>1. n - 1 \in Nat /\ Good(n - 1)
      <4> HIDE DEF Good
      <4> QED
        BY <2>1, <3>0
    <3>2. PICK h \in [from..(n - 1) -> S] : Fold(h, n - 1)
      BY <3>1
    <3> DEFINE g == [s \in from..n |-> IF s = n THEN step[n][h[n - 1]] ELSE h[s]]
    <3>3. h[n - 1] \in S /\ step[n] \in [S -> S]
      BY <2>2, <2>4, <3>1
    <3>4. g \in [from..n -> S]
      <4>1. \A s \in from..n : s # n => s \in from..(n - 1)
        BY <2>2
      <4> QED
        BY <3>3, <4>1
    <3>5. ASSUME NEW s \in from..n
          PROVE  g[s] = IF s = from THEN base ELSE step[s][g[s - 1]]
      <4>1. CASE s = n
        <5>1. g[n] = step[n][h[n - 1]]
          BY <4>1
        <5>2. n - 1 \in from..n /\ n - 1 # n
          BY <2>2, <2>4
        <5>3. g[n - 1] = h[n - 1]
          BY <5>2
        <5> QED
          BY <2>4, <4>1, <5>1, <5>3
      <4>2. CASE s # n
        <5>1. s \in from..(n - 1) /\ g[s] = h[s]
          BY <2>2, <4>2
        <5>2. h[s] = IF s = from THEN base ELSE step[s][h[s - 1]]
          BY <3>2, <5>1
        <5>3. s # from => s - 1 \in from..n /\ s - 1 # n /\ g[s - 1] = h[s - 1]
          BY <2>2, <5>1
        <5> QED
          BY <5>1, <5>2, <5>3
      <4> QED
        BY <4>1, <4>2
    <3>6. Fold(g, n)
      <4> HIDE DEF g
      <4> QED
        BY <3>4, <3>5
    <3> QED
      BY <2>2, <3>4, <3>6
  <2> QED
    BY <2>2, <2>3, <2>4
<1>2. upto \notin Bad
  BY <1>1
<1> QED
  BY <1>2 DEF Stepwise

\* Two folds of the same mutations from the same rows agree.
LEMMA FoldsAgree ==
    ASSUME NEW from \in Nat, NEW upto \in Nat, NEW m \in Nat, NEW n \in Nat,
           upto <= m, upto <= n, NEW a, NEW b, NEW base, NEW g, NEW h,
           Follows(g, a, base, from, m), Follows(h, b, base, from, n),
           \A s \in (from + 1)..upto : MutationAt(a, s) = MutationAt(b, s)
    PROVE  \A s \in from..upto : g[s] = h[s]
<1> DEFINE Bad == {s \in from..upto : g[s] # h[s]}
<1>1. ASSUME Bad # {} PROVE FALSE
  <2>1. Bad \subseteq Nat
    OBVIOUS
  <2>2. PICK s \in Bad : \A k \in Bad : s <= k
    BY <1>1, <2>1, LeastExists
  <2>3. g[from] = h[from]
    BY DEF Follows
  <2>4. s # from /\ s \in (from + 1)..upto /\ s - 1 \in from..upto
    BY <2>2, <2>3
  <2>5. g[s - 1] = h[s - 1]
    BY <2>2, <2>4
  <2>6. /\ g[s] = Folded(g[s - 1], MutationAt(a, s))
        /\ h[s] = Folded(h[s - 1], MutationAt(b, s))
        /\ MutationAt(a, s) = MutationAt(b, s)
    BY <2>4 DEF Follows
  <2> QED
    BY <2>2, <2>5, <2>6
<1> QED
  BY <1>1

LEMMA MergeType ==
    ASSUME NEW row \in Row \cup {Absent}, NEW m \in Mutation
    PROVE  Merge(row, m) \in Row
<1> DEFINE bare == [parent |-> NoParent, val |-> [c \in Column |-> Default],
                    deleted |-> FALSE, created |-> 0]
<1>1. Default \in Value
  BY DataAssumption DEF DataAssumption, Default
<1>2. bare \in Row
  BY <1>1 DEF Row
<1>3. Base(row) \in Row /\ Base(Absent) \in Row
  BY <1>2 DEF Base
<1>4. /\ Patched(Base(row), m) \in Row /\ Patched(Base(Absent), m) \in Row
      /\ Tombstoned(Base(row)) \in Row /\ Revived(Base(row), m) \in Row
  BY <1>3, PatchedType DEF Tombstoned, Revived, Row
<1>5. m.kind \in {"create", "patch", "delete", "restore"}
  BY DEF Mutation, Kind
<1>6. CASE m.kind = "create"
  BY <1>4, <1>6 DEF Merge
<1>7. CASE m.kind = "patch"
  BY <1>4, <1>7 DEF Merge
<1>8. CASE m.kind = "delete"
  BY <1>4, <1>8 DEF Merge
<1>9. CASE m.kind = "restore"
  BY <1>4, <1>9 DEF Merge
<1> QED
  BY <1>5, <1>6, <1>7, <1>8, <1>9

LEMMA FoldedType ==
    ASSUME NEW r \in Rows, NEW m \in Mutation
    PROVE  Folded(r, m) \in Rows
<1>1. m.entity \in Entity /\ r[m.entity] \in Row \cup {Absent}
  BY DEF Mutation, Rows
<1>2. Merge(r[m.entity], m) \in Row
  BY <1>1, MergeType
<1> QED
  BY <1>2 DEF Folded, Rows

\* What Replay computes.
LEMMA ReplayIs ==
    ASSUME NEW changes, NEW base \in Rows, NEW from \in Nat, NEW upto \in Nat,
           from <= upto,
           \A s \in (from + 1)..upto : MutationAt(changes, s) \in Mutation
    PROVE  \E h \in [from..upto -> Rows] :
              /\ Replay(changes, base, from, upto) = h[upto]
              /\ Follows(h, changes, base, from, upto)
<1> DEFINE step == [s \in Nat |-> [r \in Rows |->
                      IF MutationAt(changes, s) \in Mutation
                      THEN Folded(r, MutationAt(changes, s)) ELSE r]]
           Held(h) == h = [s \in from..upto |-> IF s = from THEN base
                              ELSE [h[s - 1] EXCEPT ![MutationAt(changes, s).entity] =
                                       Merge(@, MutationAt(changes, s))]]
<1>1. step \in [Nat -> [Rows -> Rows]]
  <2>1. \A s \in Nat, r \in Rows : MutationAt(changes, s) \in Mutation =>
            Folded(r, MutationAt(changes, s)) \in Rows
    BY FoldedType
  <2> QED
    BY <2>1
<1>2. PICK f \in [from..upto -> Rows] : Stepwise(f, base, step, from, upto)
  <2> HIDE DEF step
  <2> QED
    BY <1>1, FoldsExist
<1>3. ASSUME NEW s \in from..upto, s # from
      PROVE  step[s][f[s - 1]] = Folded(f[s - 1], MutationAt(changes, s))
  <2>1. s - 1 \in from..upto /\ s \in Nat /\ s \in (from + 1)..upto
    BY <1>3
  <2> QED
    BY <2>1
<1> HIDE DEF step
<1>4. Held(f)
  BY <1>2, <1>3 DEF Folded, Stepwise
<1>5. Replay(changes, base, from, upto) = (CHOOSE h : Held(h))[upto]
  BY DEF Replay
<1> HIDE DEF Held
<1>6. PICK h : Held(h) /\ Replay(changes, base, from, upto) = h[upto]
  BY <1>4, <1>5
<1>7. \A g : Held(g) => Follows(g, changes, base, from, upto)
  <2> SUFFICES ASSUME NEW g, Held(g) PROVE Follows(g, changes, base, from, upto)
    OBVIOUS
  <2>1. g[from] = base
    BY DEF Held
  <2>2. ASSUME NEW s \in (from + 1)..upto
        PROVE  g[s] = Folded(g[s - 1], MutationAt(changes, s))
    <3>1. s \in from..upto /\ s # from
      OBVIOUS
    <3> QED
      BY <3>1 DEF Held, Folded
  <2> QED
    BY <2>1, <2>2 DEF Follows
<1>8. Follows(h, changes, base, from, upto) /\ Follows(f, changes, base, from, upto)
  BY <1>4, <1>6, <1>7
<1>9. \A s \in from..upto : h[s] = f[s]
  BY <1>8, FoldsAgree
<1>10. Replay(changes, base, from, upto) = f[upto]
  BY <1>6, <1>9
<1> QED
  BY <1>8, <1>10

LEMMA ReplayType ==
    ASSUME NEW changes, NEW base \in Rows, NEW from \in Nat, NEW upto \in Nat,
           from <= upto,
           \A s \in (from + 1)..upto : MutationAt(changes, s) \in Mutation
    PROVE  Replay(changes, base, from, upto) \in Rows
<1>1. PICK h \in [from..upto -> Rows] :
         /\ Replay(changes, base, from, upto) = h[upto]
         /\ Follows(h, changes, base, from, upto)
  BY ReplayIs
<1> QED
  BY <1>1

\* Nothing is folded between a number and itself.
LEMMA ReplayNothing ==
    ASSUME NEW changes, NEW base \in Rows, NEW from \in Nat
    PROVE  Replay(changes, base, from, from) = base
<1>1. /\ from <= from
      /\ \A s \in (from + 1)..from : MutationAt(changes, s) \in Mutation
  OBVIOUS
<1>2. PICK h \in [from..from -> Rows] :
         /\ Replay(changes, base, from, from) = h[from]
         /\ Follows(h, changes, base, from, from)
  BY <1>1, ReplayIs
<1> QED
  BY <1>2 DEF Follows

\* One more number is one more fold, and what is not yet reached plays no part.
LEMMA ReplayOneMore ==
    ASSUME NEW a, NEW b, NEW base \in Rows, NEW from \in Nat, NEW upto \in Nat,
           from <= upto,
           \A s \in (from + 1)..(upto + 1) : MutationAt(b, s) \in Mutation,
           \A s \in (from + 1)..upto : MutationAt(a, s) = MutationAt(b, s)
    PROVE  Replay(b, base, from, upto + 1) =
              Folded(Replay(a, base, from, upto), MutationAt(b, upto + 1))
<1>1. PICK g \in [from..upto -> Rows] :
         /\ Replay(a, base, from, upto) = g[upto]
         /\ Follows(g, a, base, from, upto)
  <2>1. \A s \in (from + 1)..upto : MutationAt(a, s) \in Mutation
    <3>1. \A s \in (from + 1)..upto : s \in (from + 1)..(upto + 1)
      OBVIOUS
    <3> QED
      BY <3>1
  <2> QED
    BY <2>1, ReplayIs
<1>2. PICK h \in [from..(upto + 1) -> Rows] :
         /\ Replay(b, base, from, upto + 1) = h[upto + 1]
         /\ Follows(h, b, base, from, upto + 1)
  <2>1. upto + 1 \in Nat /\ from <= upto + 1
    OBVIOUS
  <2> QED
    BY <2>1, ReplayIs
<1>3. \A s \in from..upto : g[s] = h[s]
  <2>1. upto + 1 \in Nat /\ upto <= upto + 1 /\ upto <= upto
    OBVIOUS
  <2> QED
    BY <1>1, <1>2, <2>1, FoldsAgree
<1>4. h[upto + 1] = Folded(h[upto], MutationAt(b, upto + 1))
  BY <1>2 DEF Follows
<1> QED
  BY <1>1, <1>2, <1>3, <1>4

----------------------------------------------------------------------------
(* The rows of the server and those of a client. *)

\* Two rows that show the same.
Alike(x, y) == x.parent = y.parent /\ x.val = y.val /\ x.deleted = y.deleted

AllAlike(q, r) ==
    \A e \in Entity : \/ q[e] = Absent /\ r[e] = Absent
                      \/ q[e] # Absent /\ r[e] # Absent /\ Alike(q[e], r[e])

\* Tables show the same where both have no row, or rows that show the same.
LEMMA ShownAlike ==
    ASSUME NEW q \in Rows, NEW r \in Rows
    PROVE  Shown(q) = Shown(r) <=> AllAlike(q, r)
<1> DEFINE show(row) == IF row = Absent THEN Absent ELSE [row EXCEPT !.created = 0]
<1>1. ASSUME NEW x \in Row \cup {Absent}, NEW y \in Row \cup {Absent}
      PROVE  show(x) = show(y) <=>
                \/ x = Absent /\ y = Absent
                \/ x # Absent /\ y # Absent /\ Alike(x, y)
  <2>1. \A z \in Row : [z EXCEPT !.created = 0] \in Row
    BY DEF Row
  <2>2. CASE x = Absent \/ y = Absent
    BY <2>1, <2>2, DataAssumption DEF DataAssumption
  <2>3. CASE x # Absent /\ y # Absent
    <3>1. /\ x = [parent |-> x.parent, val |-> x.val, deleted |-> x.deleted,
                  created |-> x.created]
          /\ y = [parent |-> y.parent, val |-> y.val, deleted |-> y.deleted,
                  created |-> y.created]
      BY <2>3 DEF Row
    <3>2. /\ show(x) = [parent |-> x.parent, val |-> x.val, deleted |-> x.deleted,
                        created |-> 0]
          /\ show(y) = [parent |-> y.parent, val |-> y.val, deleted |-> y.deleted,
                        created |-> 0]
      BY <2>3, <3>1
    <3> QED
      BY <2>3, <3>2 DEF Alike
  <2> QED
    BY <2>2, <2>3
<1>2. \A e \in Entity : Shown(q)[e] = show(q[e]) /\ Shown(r)[e] = show(r[e])
  BY DEF Shown
<1>3. Shown(q) = Shown(r) <=> \A e \in Entity : Shown(q)[e] = Shown(r)[e]
  BY DEF Shown
<1>4. \A e \in Entity : q[e] \in Row \cup {Absent} /\ r[e] \in Row \cup {Absent}
  BY DEF Rows
<1> HIDE DEF show
<1>5. \A e \in Entity :
         Shown(q)[e] = Shown(r)[e] <=>
            \/ q[e] = Absent /\ r[e] = Absent
            \/ q[e] # Absent /\ r[e] # Absent /\ Alike(q[e], r[e])
  BY <1>1, <1>2, <1>4
<1>6. ASSUME Shown(q) = Shown(r) PROVE AllAlike(q, r)
  BY <1>5, <1>6 DEF AllAlike
<1>7. ASSUME AllAlike(q, r) PROVE Shown(q) = Shown(r)
  <2>1. \A e \in Entity : Shown(q)[e] = Shown(r)[e]
    BY <1>5, <1>7 DEF AllAlike
  <2> QED
    BY <1>3, <2>1
<1> QED
  BY <1>6, <1>7

LEMMA PatchedAlike ==
    ASSUME NEW x \in Row, NEW y \in Row, Alike(x, y), NEW m \in Mutation
    PROVE  /\ Patched(x, m) \in Row /\ Patched(y, m) \in Row
           /\ Alike(Patched(x, m), Patched(y, m))
           /\ Tombstoned(x) \in Row /\ Tombstoned(y) \in Row
           /\ Alike(Tombstoned(x), Tombstoned(y))
           /\ Revived(x, m) \in Row /\ Revived(y, m) \in Row
           /\ Alike(Revived(x, m), Revived(y, m))
<1>1. Patched(x, m) \in Row /\ Patched(y, m) \in Row
  BY PatchedType
<1>2. Alike(Patched(x, m), Patched(y, m))
  BY DEF Patched, Alike, Row
<1>3. /\ Tombstoned(x) \in Row /\ Tombstoned(y) \in Row
      /\ Alike(Tombstoned(x), Tombstoned(y))
  BY DEF Tombstoned, Alike, Row
<1>4. /\ Revived(x, m) \in Row /\ Revived(y, m) \in Row
      /\ Alike(Revived(x, m), Revived(y, m))
  BY <1>1, <1>2 DEF Revived, Alike, Row
<1> QED
  BY <1>1, <1>2, <1>3, <1>4

\* What the server makes of a mutation it accepts, a client makes of it too.
LEMMA FoldFollowsServer ==
    ASSUME NEW q \in Rows, NEW r \in Rows, Shown(q) = Shown(r),
           NEW m \in Mutation, Accepts(r, m), NEW at \in Nat
    PROVE  Shown(Folded(q, m)) = Shown(ApplyMutation(r, m, at))
<1> DEFINE e == m.entity
           bare(n) == [parent |-> NoParent, val |-> [c \in Column |-> Default],
                       deleted |-> FALSE, created |-> n]
<1>1. /\ e \in Entity /\ q[e] \in Row \cup {Absent} /\ r[e] \in Row \cup {Absent}
      /\ Absent \notin Row
  BY DataAssumption DEF DataAssumption, Mutation, Rows
<1>2. Folded(q, m) \in Rows /\ ApplyMutation(r, m, at) \in Rows
  BY FoldedType, ApplyMutationType
<1>3. \A f \in Entity \ {e} : /\ Folded(q, m)[f] = q[f]
                              /\ ApplyMutation(r, m, at)[f] = r[f]
  BY DEF Folded, ApplyMutation, Rows
<1>4. Folded(q, m)[e] = Merge(q[e], m)
  BY <1>1 DEF Folded, Rows
<1> HIDE DEF e
<1>5. /\ Folded(q, m)[e] \in Row /\ ApplyMutation(r, m, at)[e] \in Row
      /\ Alike(Folded(q, m)[e], ApplyMutation(r, m, at)[e])
  <2>1. CASE m.kind = "create"
    <3>1. Default \in Value
      BY DataAssumption DEF DataAssumption, Default
    <3>2. bare(0) \in Row /\ bare(at) \in Row /\ Alike(bare(0), bare(at))
      BY <3>1 DEF Row, Alike
    <3>3. Base(Absent) = bare(0)
      BY DEF Base
    <3>4. Folded(q, m)[e] = Patched(bare(0), m)
      BY <1>4, <2>1, <3>3 DEF Merge
    <3>5. ApplyMutation(r, m, at)[e] = Patched(bare(at), m)
      BY <1>1, <2>1 DEF ApplyMutation, Created, Rows, e
    <3> HIDE DEF bare
    <3> QED
      BY <3>2, <3>4, <3>5, PatchedAlike
  <2>2. CASE m.kind # "create"
    <3>1. r[e] # Absent
      BY <2>2 DEF Accepts, PatchAllowed, DeleteAllowed, RestoreAllowed, Live, e
    <3>2. q[e] # Absent /\ Alike(q[e], r[e])
      BY <1>1, <3>1, ShownAlike DEF AllAlike
    <3>3. q[e] \in Row /\ r[e] \in Row /\ Base(q[e]) = q[e]
      BY <1>1, <3>1, <3>2 DEF Base
    <3>4. CASE m.kind = "patch"
      <4>1. Folded(q, m)[e] = Patched(q[e], m)
        BY <1>4, <3>3, <3>4 DEF Merge
      <4>2. ApplyMutation(r, m, at)[e] = Patched(r[e], m)
        BY <1>1, <3>4 DEF ApplyMutation, Rows, e
      <4> QED
        BY <3>2, <3>3, <4>1, <4>2, PatchedAlike
    <3>5. CASE m.kind = "delete"
      <4>1. Folded(q, m)[e] = Tombstoned(q[e])
        BY <1>4, <3>3, <3>5 DEF Merge
      <4>2. ApplyMutation(r, m, at)[e] = Tombstoned(r[e])
        BY <1>1, <3>5 DEF ApplyMutation, Rows, e
      <4> QED
        BY <3>2, <3>3, <4>1, <4>2, PatchedAlike
    <3>6. CASE m.kind = "restore"
      <4>1. Folded(q, m)[e] = Revived(q[e], m)
        BY <1>4, <3>3, <3>6 DEF Merge
      <4>2. ApplyMutation(r, m, at)[e] = Revived(r[e], m)
        BY <1>1, <3>6 DEF ApplyMutation, Rows, e
      <4> QED
        BY <3>2, <3>3, <4>1, <4>2, PatchedAlike
    <3> QED
      BY <2>2, <3>4, <3>5, <3>6 DEF Accepts
  <2> QED
    BY <2>1, <2>2
<1>6. AllAlike(Folded(q, m), ApplyMutation(r, m, at))
  <2>1. \A f \in Entity \ {e} :
           \/ q[f] = Absent /\ r[f] = Absent
           \/ q[f] # Absent /\ r[f] # Absent /\ Alike(q[f], r[f])
    BY ShownAlike DEF AllAlike
  <2> QED
    BY <1>1, <1>3, <1>5, <2>1 DEF AllAlike
<1> QED
  BY <1>2, <1>6, ShownAlike

----------------------------------------------------------------------------
(* Folding changes that a row has in it already. *)

\* Two tables that are related stay so whatever is folded into both.
LEMMA ReplayKeeps ==
    ASSUME NEW R \in SUBSET (Rows \X Rows),
           \A p \in R, m \in Mutation : <<Folded(p[1], m), Folded(p[2], m)>> \in R,
           NEW changes, NEW from \in Nat, NEW upto \in Nat, from <= upto,
           \A s \in (from + 1)..upto : MutationAt(changes, s) \in Mutation,
           NEW q \in Rows, NEW r \in Rows, <<q, r>> \in R
    PROVE  <<Replay(changes, q, from, upto), Replay(changes, r, from, upto)>> \in R
<1>1. PICK g \in [from..upto -> Rows] :
         Replay(changes, q, from, upto) = g[upto] /\ Follows(g, changes, q, from, upto)
  BY ReplayIs
<1>2. PICK h \in [from..upto -> Rows] :
         Replay(changes, r, from, upto) = h[upto] /\ Follows(h, changes, r, from, upto)
  BY ReplayIs
<1> DEFINE Bad == {s \in from..upto : <<g[s], h[s]>> \notin R}
<1>3. ASSUME Bad # {} PROVE FALSE
  <2>1. Bad \subseteq Nat
    OBVIOUS
  <2>2. PICK s \in Bad : \A k \in Bad : s <= k
    BY <1>3, <2>1, LeastExists
  <2>3. g[from] = q /\ h[from] = r
    BY <1>1, <1>2 DEF Follows
  <2>4. s # from /\ s \in (from + 1)..upto /\ s - 1 \in from..upto /\ ~ (s <= s - 1)
    BY <2>2, <2>3
  <2>5. <<g[s - 1], h[s - 1]>> \in R
    BY <2>2, <2>4
  <2>6. /\ g[s] = Folded(g[s - 1], MutationAt(changes, s))
        /\ h[s] = Folded(h[s - 1], MutationAt(changes, s))
        /\ MutationAt(changes, s) \in Mutation
    BY <1>1, <1>2, <2>4 DEF Follows
  <2> DEFINE p == <<g[s - 1], h[s - 1]>>
  <2>7. <<Folded(p[1], MutationAt(changes, s)), Folded(p[2], MutationAt(changes, s))>> \in R
    <3>1. p \in R
      BY <2>5
    <3> HIDE DEF p
    <3> QED
      BY <2>6, <3>1
  <2> QED
    BY <2>2, <2>6, <2>7
<1> QED
  BY <1>1, <1>2, <1>3

\* The row that a mutation other than a create starts from.
LEMMA BaseType ==
    ASSUME NEW x \in Row \cup {Absent}
    PROVE  /\ Base(x) \in Row /\ Base(Absent) \in Row
           /\ x \in Row => Base(x) = x
<1>1. Default \in Value
  BY DataAssumption DEF DataAssumption, Default
<1> QED
  BY <1>1, DataAssumption DEF DataAssumption, Base, Row

\* What Merge makes of a row, by the kind of the mutation.
LEMMA MergeIs ==
    ASSUME NEW x \in Row \cup {Absent}, NEW m \in Mutation
    PROVE  /\ m.kind \in {"create", "patch", "delete", "restore"}
           /\ m.kind = "create" => Merge(x, m) = Patched(Base(Absent), m)
           /\ m.kind = "patch" => Merge(x, m) = Patched(Base(x), m)
           /\ m.kind = "delete" => Merge(x, m) = Tombstoned(Base(x))
           /\ m.kind = "restore" => Merge(x, m) = Revived(Base(x), m)
BY DEF Merge, Mutation, Kind

LEMMA FoldedIs ==
    ASSUME NEW q \in Rows, NEW m \in Mutation
    PROVE  /\ m.entity \in Entity
           /\ Folded(q, m)[m.entity] = Merge(q[m.entity], m)
           /\ \A f \in Entity \ {m.entity} : Folded(q, m)[f] = q[f]
BY DEF Folded, Rows, Mutation

\* Rows that show the same still do after the same change.
LEMMA FoldAlike ==
    ASSUME NEW q \in Rows, NEW r \in Rows, Shown(q) = Shown(r), NEW m \in Mutation
    PROVE  Shown(Folded(q, m)) = Shown(Folded(r, m))
<1>1. PICK e \in Entity, x \in Row \cup {Absent}, y \in Row \cup {Absent} :
         e = m.entity /\ x = q[e] /\ y = r[e]
  BY FoldedIs DEF Rows
<1>2. AllAlike(q, r) /\ Absent \notin Row
  BY ShownAlike, DataAssumption DEF DataAssumption
<1>3. Base(x) \in Row /\ Base(y) \in Row /\ Alike(Base(x), Base(y))
  <2>1. \/ x = Absent /\ y = Absent
        \/ x # Absent /\ y # Absent /\ Alike(x, y)
    BY <1>1, <1>2 DEF AllAlike
  <2> QED
    BY <2>1, BaseType DEF Alike
<1>4. Merge(x, m) \in Row /\ Merge(y, m) \in Row
  BY MergeType
<1>5. Alike(Merge(x, m), Merge(y, m))
  <2>1. CASE m.kind = "create"
    BY <2>1, MergeIs DEF Alike
  <2>2. CASE m.kind = "patch"
    BY <1>3, <2>2, MergeIs, PatchedAlike
  <2>3. CASE m.kind = "delete"
    BY <1>3, <2>3, MergeIs, PatchedAlike
  <2>4. CASE m.kind = "restore"
    BY <1>3, <2>4, MergeIs, PatchedAlike
  <2> QED
    BY <2>1, <2>2, <2>3, <2>4, MergeIs
<1>6. AllAlike(Folded(q, m), Folded(r, m))
  <2>1. ASSUME NEW f \in Entity
        PROVE  \/ Folded(q, m)[f] = Absent /\ Folded(r, m)[f] = Absent
               \/ /\ Folded(q, m)[f] # Absent /\ Folded(r, m)[f] # Absent
                  /\ Alike(Folded(q, m)[f], Folded(r, m)[f])
    <3>1. CASE f = e
      BY <1>1, <1>2, <1>4, <1>5, <3>1, FoldedIs
    <3>2. CASE f # e
      BY <1>1, <1>2, <3>2, FoldedIs DEF AllAlike
    <3> QED
      BY <3>1, <3>2
  <2> QED
    BY <2>1 DEF AllAlike
<1> QED
  BY <1>6, FoldedType, ShownAlike

LEMMA ReplayAlike ==
    ASSUME NEW changes, NEW from \in Nat, NEW upto \in Nat, from <= upto,
           \A s \in (from + 1)..upto : MutationAt(changes, s) \in Mutation,
           NEW q \in Rows, NEW r \in Rows, Shown(q) = Shown(r)
    PROVE  Shown(Replay(changes, q, from, upto)) = Shown(Replay(changes, r, from, upto))
<1> DEFINE R == {p \in Rows \X Rows : Shown(p[1]) = Shown(p[2])}
<1>1. R \in SUBSET (Rows \X Rows) /\ <<q, r>> \in R
  OBVIOUS
<1>2. ASSUME NEW p \in R, NEW m \in Mutation
      PROVE  <<Folded(p[1], m), Folded(p[2], m)>> \in R
  <2>1. p[1] \in Rows /\ p[2] \in Rows /\ Shown(p[1]) = Shown(p[2])
    OBVIOUS
  <2>2. Folded(p[1], m) \in Rows /\ Folded(p[2], m) \in Rows
    BY <2>1, FoldedType
  <2>3. Shown(Folded(p[1], m)) = Shown(Folded(p[2], m))
    BY <2>1, FoldAlike
  <2> QED
    BY <2>2, <2>3
<1>3. \A p \in R : Shown(p[1]) = Shown(p[2])
  OBVIOUS
<1> HIDE DEF R
<1> DEFINE p == <<Replay(changes, q, from, upto), Replay(changes, r, from, upto)>>
<1>4. p \in R
  BY <1>1, <1>2, ReplayKeeps
<1>5. Shown(p[1]) = Shown(p[2])
  <2> HIDE DEF p
  <2> QED
    BY <1>3, <1>4
<1> QED
  BY <1>5

\* Rows that differ at most in what m is going to write.
WithinRow(x, y, m) ==
    m.kind # "create" =>
        /\ m.kind = "delete" \/ m.parent = Keep => x.parent = y.parent
        /\ \A k \in Column : m.kind = "delete" \/ k \notin DOMAIN m.val => x.val[k] = y.val[k]
        /\ m.kind = "patch" => x.deleted = y.deleted

Within(q, r, m) ==
    /\ \A f \in Entity \ {m.entity} :
          \/ q[f] = Absent /\ r[f] = Absent
          \/ q[f] # Absent /\ r[f] # Absent /\ Alike(q[f], r[f])
    /\ WithinRow(Base(q[m.entity]), Base(r[m.entity]), m)

\* What m writes does not depend on what it overwrites.
LEMMA WrittenAlike ==
    ASSUME NEW x \in Row, NEW y \in Row, NEW m \in Mutation, WithinRow(x, y, m)
    PROVE  /\ m.kind = "patch" => Alike(Patched(x, m), Patched(y, m))
           /\ m.kind = "delete" => Alike(Tombstoned(x), Tombstoned(y))
           /\ m.kind = "restore" => Alike(Revived(x, m), Revived(y, m))
<1>1. CASE m.kind = "delete"
  <2>1. x.parent = y.parent /\ x.val \in [Column -> Value] /\ y.val \in [Column -> Value]
        /\ \A k \in Column : x.val[k] = y.val[k]
    BY <1>1 DEF WithinRow, Row
  <2>2. x.val = y.val
    BY <2>1
  <2> QED
    BY <1>1, <2>1, <2>2 DEF Tombstoned, Alike, Row
<1>2. CASE m.kind \in {"patch", "restore"}
  <2>1. /\ m.parent = Keep => x.parent = y.parent
        /\ \A k \in Column : k \notin DOMAIN m.val => x.val[k] = y.val[k]
        /\ m.kind = "patch" => x.deleted = y.deleted
    BY <1>2 DEF WithinRow
  <2>2. Overlay(x.val, m.val) = Overlay(y.val, m.val)
    BY <2>1 DEF Overlay
  <2>3. /\ Patched(x, m).parent = Patched(y, m).parent
        /\ Patched(x, m).val = Patched(y, m).val
        /\ Patched(x, m).deleted = x.deleted /\ Patched(y, m).deleted = y.deleted
    BY <2>1, <2>2 DEF Patched, Row
  <2>4. Patched(x, m) \in Row /\ Patched(y, m) \in Row
    BY PatchedType
  <2>5. m.kind = "restore" => Alike(Revived(x, m), Revived(y, m))
    BY <2>3, <2>4 DEF Revived, Alike, Row
  <2>6. m.kind = "patch" => Alike(Patched(x, m), Patched(y, m))
    BY <2>1, <2>3 DEF Alike
  <2> QED
    BY <1>2, <2>5, <2>6
<1> QED
  BY <1>1, <1>2

\* A row in which m is written differs from the row before in that only.
LEMMA WrittenWithin ==
    ASSUME NEW x \in Row, NEW m \in Mutation
    PROVE  /\ m.kind = "patch" => WithinRow(Patched(x, m), x, m)
           /\ m.kind = "delete" => WithinRow(Tombstoned(x), x, m)
           /\ m.kind = "restore" => WithinRow(Revived(x, m), x, m)
<1>1. /\ m.parent = Keep => Patched(x, m).parent = x.parent
      /\ \A k \in Column : k \notin DOMAIN m.val => Patched(x, m).val[k] = x.val[k]
      /\ Patched(x, m).deleted = x.deleted
  BY DEF Patched, Overlay, Row
<1>2. Patched(x, m) \in Row
  BY PatchedType
<1>3. /\ Revived(x, m).parent = Patched(x, m).parent
      /\ Revived(x, m).val = Patched(x, m).val
  BY <1>2 DEF Revived, Row
<1>4. Tombstoned(x).parent = x.parent /\ Tombstoned(x).val = x.val
  BY DEF Tombstoned, Row
<1> QED
  BY <1>1, <1>3, <1>4 DEF WithinRow

\* Another change keeps rows apart in nothing else.
LEMMA WithinKept ==
    ASSUME NEW x \in Row, NEW y \in Row, NEW m \in Mutation, WithinRow(x, y, m),
           NEW n \in Mutation
    PROVE  /\ WithinRow(Patched(x, n), Patched(y, n), m)
           /\ WithinRow(Tombstoned(x), Tombstoned(y), m)
           /\ WithinRow(Revived(x, n), Revived(y, n), m)
<1> SUFFICES ASSUME m.kind # "create"
             PROVE  /\ WithinRow(Patched(x, n), Patched(y, n), m)
                    /\ WithinRow(Tombstoned(x), Tombstoned(y), m)
                    /\ WithinRow(Revived(x, n), Revived(y, n), m)
  BY DEF WithinRow
<1>1. /\ x.parent = y.parent => Patched(x, n).parent = Patched(y, n).parent
      /\ \A k \in Column : x.val[k] = y.val[k] => Patched(x, n).val[k] = Patched(y, n).val[k]
      /\ Patched(x, n).deleted = x.deleted /\ Patched(y, n).deleted = y.deleted
  BY DEF Patched, Overlay, Row
<1>2. Patched(x, n) \in Row /\ Patched(y, n) \in Row
  BY PatchedType
<1>3. \A z \in {x, y} : /\ Revived(z, n).parent = Patched(z, n).parent
                        /\ Revived(z, n).val = Patched(z, n).val
                        /\ Revived(z, n).deleted = FALSE
  BY <1>2 DEF Revived, Row
<1>4. \A z \in {x, y} : /\ Tombstoned(z).parent = z.parent /\ Tombstoned(z).val = z.val
                        /\ Tombstoned(z).deleted = TRUE
  BY DEF Tombstoned, Row
<1>5. WithinRow(Patched(x, n), Patched(y, n), m)
  BY <1>1 DEF WithinRow
<1>6. WithinRow(Revived(x, n), Revived(y, n), m)
  BY <1>1, <1>3 DEF WithinRow
<1>7. WithinRow(Tombstoned(x), Tombstoned(y), m)
  BY <1>4 DEF WithinRow
<1> QED
  BY <1>5, <1>6, <1>7

LEMMA WithinFolded ==
    ASSUME NEW q \in Rows, NEW r \in Rows, NEW m \in Mutation, Within(q, r, m),
           NEW n \in Mutation
    PROVE  Within(Folded(q, n), Folded(r, n), m)
<1>1. PICK e \in Entity, x \in Row \cup {Absent}, y \in Row \cup {Absent} :
         e = n.entity /\ x = q[e] /\ y = r[e]
  BY FoldedIs DEF Rows
<1>2. Merge(x, n) \in Row /\ Merge(y, n) \in Row /\ Absent \notin Row
  BY MergeType, DataAssumption DEF DataAssumption
<1>3. /\ Folded(q, n)[e] = Merge(x, n) /\ Folded(r, n)[e] = Merge(y, n)
      /\ \A f \in Entity \ {e} : Folded(q, n)[f] = q[f] /\ Folded(r, n)[f] = r[f]
  BY <1>1, FoldedIs
<1>4. m.entity \in Entity
  BY DEF Mutation
<1>5. CASE e = m.entity
  <2>1. Base(x) \in Row /\ Base(y) \in Row /\ WithinRow(Base(x), Base(y), m)
    BY <1>1, <1>5, BaseType DEF Within
  <2>2. WithinRow(Merge(x, n), Merge(y, n), m)
    <3>1. CASE n.kind = "create"
      BY <3>1, MergeIs DEF WithinRow
    <3>2. CASE n.kind = "patch"
      BY <2>1, <3>2, MergeIs, WithinKept
    <3>3. CASE n.kind = "delete"
      BY <2>1, <3>3, MergeIs, WithinKept
    <3>4. CASE n.kind = "restore"
      BY <2>1, <3>4, MergeIs, WithinKept
    <3> QED
      BY <3>1, <3>2, <3>3, <3>4, MergeIs
  <2>3. Base(Merge(x, n)) = Merge(x, n) /\ Base(Merge(y, n)) = Merge(y, n)
    BY <1>2, BaseType
  <2> QED
    BY <1>3, <1>5, <2>2, <2>3 DEF Within
<1>6. CASE e # m.entity
  <2>1. \/ x = Absent /\ y = Absent
        \/ x # Absent /\ y # Absent /\ Alike(x, y)
    BY <1>1, <1>6 DEF Within
  <2>2. Base(x) \in Row /\ Base(y) \in Row /\ Alike(Base(x), Base(y))
    BY <2>1, BaseType DEF Alike
  <2>3. Alike(Merge(x, n), Merge(y, n))
    <3>1. CASE n.kind = "create"
      BY <3>1, MergeIs DEF Alike
    <3>2. CASE n.kind = "patch"
      BY <2>2, <3>2, MergeIs, PatchedAlike
    <3>3. CASE n.kind = "delete"
      BY <2>2, <3>3, MergeIs, PatchedAlike
    <3>4. CASE n.kind = "restore"
      BY <2>2, <3>4, MergeIs, PatchedAlike
    <3> QED
      BY <3>1, <3>2, <3>3, <3>4, MergeIs
  <2>4. /\ Folded(q, n)[m.entity] = q[m.entity] /\ Folded(r, n)[m.entity] = r[m.entity]
    BY <1>3, <1>4, <1>6
  <2>5. ASSUME NEW f \in Entity \ {m.entity}
        PROVE  \/ Folded(q, n)[f] = Absent /\ Folded(r, n)[f] = Absent
               \/ /\ Folded(q, n)[f] # Absent /\ Folded(r, n)[f] # Absent
                  /\ Alike(Folded(q, n)[f], Folded(r, n)[f])
    <3>1. CASE f = e
      BY <1>2, <1>3, <2>3, <3>1
    <3>2. CASE f # e
      BY <1>3, <3>2 DEF Within
    <3> QED
      BY <3>1, <3>2
  <2> QED
    BY <2>4, <2>5 DEF Within
<1> QED
  BY <1>5, <1>6

\* A change that is folded in once more changes nothing.
LEMMA ReplayAbsorbs ==
    ASSUME NEW changes, NEW from \in Nat, NEW upto \in Nat, from <= upto,
           \A s \in (from + 1)..upto : MutationAt(changes, s) \in Mutation,
           NEW g \in Rows, NEW m \in Mutation
    PROVE  Shown(Folded(Replay(changes, Folded(g, m), from, upto), m))
              = Shown(Folded(Replay(changes, g, from, upto), m))
<1> DEFINE R == {p \in Rows \X Rows : Within(p[1], p[2], m)}
<1>1. PICK e \in Entity, x \in Row \cup {Absent} : e = m.entity /\ x = g[e]
  BY FoldedIs DEF Rows
<1>2. Folded(g, m) \in Rows /\ Absent \notin Row
  BY FoldedType, DataAssumption DEF DataAssumption
<1>3. Within(Folded(g, m), g, m)
  <2>1. Merge(x, m) \in Row /\ Base(x) \in Row /\ Base(Merge(x, m)) = Merge(x, m)
    BY MergeType, BaseType
  <2>2. WithinRow(Merge(x, m), Base(x), m)
    <3>1. CASE m.kind = "create"
      BY <3>1 DEF WithinRow
    <3>2. CASE m.kind # "create"
      BY <2>1, <3>2, MergeIs, WrittenWithin
    <3> QED
      BY <3>1, <3>2
  <2>3. ASSUME NEW f \in Entity \ {e} PROVE Folded(g, m)[f] = g[f]
    BY <1>1, FoldedIs
  <2> QED
    BY <1>1, <2>1, <2>2, <2>3, FoldedIs DEF Within, Alike
<1>4. R \in SUBSET (Rows \X Rows) /\ <<Folded(g, m), g>> \in R
  BY <1>2, <1>3
<1>5. ASSUME NEW p \in R, NEW n \in Mutation
      PROVE  <<Folded(p[1], n), Folded(p[2], n)>> \in R
  <2>1. p[1] \in Rows /\ p[2] \in Rows /\ Within(p[1], p[2], m)
    OBVIOUS
  <2>2. Folded(p[1], n) \in Rows /\ Folded(p[2], n) \in Rows
    BY <2>1, FoldedType
  <2>3. Within(Folded(p[1], n), Folded(p[2], n), m)
    BY <2>1, WithinFolded
  <2> QED
    BY <2>2, <2>3
<1> DEFINE q == Replay(changes, Folded(g, m), from, upto)
           r == Replay(changes, g, from, upto)
<1>6. <<q, r>> \in R
  <2> HIDE DEF R
  <2> QED
    BY <1>2, <1>4, <1>5, ReplayKeeps
<1>7. q \in Rows /\ r \in Rows /\ Within(q, r, m)
  <2> DEFINE p == <<q, r>>
  <2>1. p \in R /\ p[1] = q /\ p[2] = r
    BY <1>6
  <2> HIDE DEF p
  <2> QED
    BY <2>1
<1> HIDE DEF q, r, R
<1>8. PICK y \in Row \cup {Absent}, z \in Row \cup {Absent} : y = q[e] /\ z = r[e]
  BY <1>7 DEF Rows
<1>9. /\ Base(y) \in Row /\ Base(z) \in Row /\ WithinRow(Base(y), Base(z), m)
      /\ Merge(y, m) \in Row /\ Merge(z, m) \in Row
  BY <1>1, <1>7, <1>8, BaseType, MergeType DEF Within
<1>10. Alike(Merge(y, m), Merge(z, m))
  <2>1. CASE m.kind = "create"
    BY <2>1, MergeIs DEF Alike
  <2>2. CASE m.kind # "create"
    BY <1>9, <2>2, MergeIs, WrittenAlike
  <2> QED
    BY <2>1, <2>2
<1>11. AllAlike(Folded(q, m), Folded(r, m))
  <2>1. ASSUME NEW f \in Entity
        PROVE  \/ Folded(q, m)[f] = Absent /\ Folded(r, m)[f] = Absent
               \/ /\ Folded(q, m)[f] # Absent /\ Folded(r, m)[f] # Absent
                  /\ Alike(Folded(q, m)[f], Folded(r, m)[f])
    <3>1. CASE f = e
      BY <1>1, <1>2, <1>7, <1>8, <1>9, <1>10, <3>1, FoldedIs
    <3>2. CASE f # e
      BY <1>1, <1>7, <3>2, FoldedIs DEF Within
    <3> QED
      BY <3>1, <3>2
  <2> QED
    BY <2>1 DEF AllAlike
<1> QED
  BY <1>7, <1>11, FoldedType, ShownAlike DEF q, r

\* One more change, folded on top of rows that a reader gathered before the
\* server made it, or after.
LEMMA FoldOnTop ==
    ASSUME NEW a, NEW b, NEW from \in Nat, NEW upto \in Nat, from <= upto,
           \A s \in (from + 1)..(upto + 1) : MutationAt(b, s) \in Mutation,
           \A s \in (from + 1)..upto : MutationAt(a, s) = MutationAt(b, s),
           NEW m \in Mutation, MutationAt(b, upto + 1) = m,
           NEW r \in Rows, Accepts(r, m), NEW at \in Nat,
           NEW g \in Rows, NEW h \in Rows,
           Shown(Replay(a, g, from, upto)) = Shown(r),
           h = g \/ Shown(h) = Shown(Folded(g, m))
    PROVE  Shown(Replay(b, h, from, upto + 1)) = Shown(ApplyMutation(r, m, at))
<1>1. \A s \in (from + 1)..upto : MutationAt(a, s) \in Mutation
  BY \A s \in (from + 1)..upto : s \in (from + 1)..(upto + 1)
<1>2. Replay(b, h, from, upto + 1) = Folded(Replay(a, h, from, upto), m)
  BY ReplayOneMore
<1>3. /\ Replay(a, g, from, upto) \in Rows /\ Replay(a, h, from, upto) \in Rows
      /\ Folded(g, m) \in Rows
  BY <1>1, ReplayType, FoldedType
<1>4. Replay(a, Folded(g, m), from, upto) \in Rows
  BY <1>1, <1>3, ReplayType
<1>5. Shown(Folded(Replay(a, g, from, upto), m)) = Shown(ApplyMutation(r, m, at))
  BY <1>3, FoldFollowsServer
<1>6. CASE h = g
  BY <1>2, <1>5, <1>6
<1>7. CASE Shown(h) = Shown(Folded(g, m))
  <2>1. Shown(Replay(a, h, from, upto)) = Shown(Replay(a, Folded(g, m), from, upto))
    BY <1>1, <1>3, <1>7, ReplayAlike
  <2>2. Shown(Folded(Replay(a, h, from, upto), m))
           = Shown(Folded(Replay(a, Folded(g, m), from, upto), m))
    BY <1>3, <1>4, <2>1, FoldAlike
  <2>3. Shown(Folded(Replay(a, Folded(g, m), from, upto), m))
           = Shown(Folded(Replay(a, g, from, upto), m))
    BY <1>1, ReplayAbsorbs
  <2> QED
    BY <1>2, <1>5, <2>2, <2>3
<1> QED
  BY <1>6, <1>7

----------------------------------------------------------------------------
(* The log and the rows. *)

\* What is committed, and what the transaction has written on top of it.
AllChanges == ledger \cup tx.changes

\* Whoever replays the changes holds the rows: those that are committed, and
\* those that the transaction is about to commit.
Mirrored ==
    /\ LogRebuildsRows
    /\ tx # None => Shown(Replay(AllChanges, NoRows, 0, tx.next - 1)) = Shown(tx.rows)

LEMMA NoRowsType == NoRows \in Rows
BY DEF NoRows, Rows

\* Under its number stands the mutation of a change.
LEMMA MutationOf ==
    ASSUME NEW changes \in SUBSET Change,
           \A a, b \in changes : a.serverSeq = b.serverSeq => a = b,
           NEW ch \in changes
    PROVE  /\ MutationAt(changes, ch.serverSeq) = Content[ch.op]
           /\ MutationAt(changes, ch.serverSeq) \in Mutation
<1>1. (CHOOSE x \in changes : x.serverSeq = ch.serverSeq) = ch
  OBVIOUS
<1>2. ch.op \in OpId
  BY DEF Change
<1> QED
  BY <1>1, <1>2, DataAssumption DEF MutationAt, DataAssumption

\* All that is committed or written is numbered from 1 on, without a gap.
LEMMA AllNumbered ==
    ASSUME IInv, tx # None
    PROVE  /\ AllChanges \in SUBSET Change
           /\ tx.next - 1 \in Nat /\ nextSeq - 1 \in Nat
           /\ \A a, b \in AllChanges : a.serverSeq = b.serverSeq => a = b
           /\ \A ch \in AllChanges : ch.serverSeq \in 1..(tx.next - 1)
           /\ \A n \in 1..(tx.next - 1) : \E ch \in AllChanges : ch.serverSeq = n
<1>1. tx \in Transaction /\ tx.next \in Nat /\ nextSeq \in Nat /\ nextSeq >= 1
      /\ nextSeq <= tx.next
  BY DEF IInv, TypeOK, Transaction, Positive, Bounded
<1>2. AllChanges \in SUBSET Change
  BY <1>1 DEF IInv, TypeOK, Transaction, AllChanges
<1>3. \A ch \in AllChanges : ch.serverSeq \in Nat /\ ch.serverSeq >= 1
  BY <1>2 DEF Change, Positive
<1>4. /\ \A ch \in ledger : ch.serverSeq < nextSeq
      /\ \A ch \in tx.changes : nextSeq <= ch.serverSeq /\ ch.serverSeq < tx.next
  BY DEF IInv, Committed, Written, Bounded
<1>5. \A a, b \in AllChanges : a.serverSeq = b.serverSeq => a = b
  <2>1. \A a \in ledger, b \in tx.changes : a.serverSeq # b.serverSeq
    BY <1>1, <1>3, <1>4 DEF AllChanges
  <2> QED
    BY <2>1 DEF IInv, Committed, Written, AllChanges
<1>6. ASSUME NEW n \in 1..(tx.next - 1) PROVE \E ch \in AllChanges : ch.serverSeq = n
  <2>1. CASE n < nextSeq
    BY <1>1, <2>1 DEF IInv, Committed, AllChanges
  <2>2. CASE n >= nextSeq
    BY <1>1, <2>2 DEF IInv, Written, AllChanges
  <2> QED
    BY <1>1, <2>1, <2>2
<1>7. \A ch \in AllChanges : ch.serverSeq \in 1..(tx.next - 1)
  BY <1>1, <1>3, <1>4 DEF AllChanges
<1> QED
  BY <1>1, <1>2, <1>5, <1>6, <1>7

\* An operation that is applied adds one change with the next number, and what
\* stands under the others stays.
LEMMA OneMoreChange ==
    ASSUME IInv, NEW c \in Conn, ApplyNext(c)
    PROVE  LET m == Content[Head(tx.todo).op]
           IN  /\ m \in Mutation /\ tx.rows \in Rows /\ Accepts(tx.rows, m)
               /\ tx # None /\ request[c] \in Request
               /\ tx'.rows = ApplyMutation(tx.rows, m, request[c].at)
               /\ tx.next - 1 \in Nat /\ tx'.next = tx.next + 1
               /\ UNCHANGED <<ledger, rows, nextSeq, reading, now, request>>
               /\ MutationAt(AllChanges', tx.next) = m
               /\ \A s \in 1..tx.next : MutationAt(AllChanges', s) \in Mutation
               /\ \A s \in 1..(tx.next - 1) :
                     MutationAt(AllChanges, s) = MutationAt(AllChanges', s)
<1> DEFINE item == Head(tx.todo)
           m == Content[item.op]
           change == [serverSeq |-> tx.next, op |-> item.op,
                      dev |-> request[c].dev, seq |-> item.seq,
                      at |-> request[c].at]
           n == tx.next - 1
           more == AllChanges \cup {change}
<1>1. /\ Working(c) /\ tx \in Transaction /\ tx # None /\ tx.conn = c
      /\ item \in Item /\ m \in Mutation /\ tx.rows \in Rows
  BY HeadType DEF ApplyNext, IInv, Working, Holds, Transaction
<1>2. request[c] \in Request
  BY <1>1 DEF IInv, Serving, TypeOK
<1>3. /\ Answered(item, "applied") \in Transaction
      /\ Answered(item, "applied").rows = tx.rows
      /\ Answered(item, "applied").changes = tx.changes
      /\ Answered(item, "applied").next = tx.next
  BY <1>1, AnsweredType DEF IInv, Answered, Transaction
<1>4. /\ tx'.changes = tx.changes \cup {change}
      /\ tx'.next = tx.next + 1
      /\ tx'.rows = ApplyMutation(tx.rows, m, request[c].at)
  BY <1>3 DEF ApplyNext, Applied, Transaction
<1>5. /\ UNCHANGED <<ledger, rows, nextSeq, reading, now, request>>
      /\ Accepts(tx.rows, m)
  BY DEF ApplyNext, dbVars
<1>6. /\ change \in Change /\ change.serverSeq = tx.next /\ change.op = item.op
      /\ tx.next \in Nat
  BY <1>1, <1>2 DEF Request, Transaction, Item, Change, Positive
<1>7. AllChanges' = more
  BY <1>4, <1>5 DEF AllChanges
<1> HIDE DEF change
<1>8. /\ more \in SUBSET Change
      /\ \A a, b \in more : a.serverSeq = b.serverSeq => a = b
      /\ n \in Nat /\ tx.next = n + 1
  <2>1. \A a \in AllChanges : a.serverSeq # change.serverSeq
    BY <1>1, <1>6, AllNumbered
  <2>2. /\ AllChanges \in SUBSET Change
        /\ \A a, b \in AllChanges : a.serverSeq = b.serverSeq => a = b
        /\ tx.next - 1 \in Nat
    BY <1>1, AllNumbered
  <2>3. more \in SUBSET Change
    BY <1>6, <2>2
  <2>4. ASSUME NEW a \in more, NEW b \in more, a.serverSeq = b.serverSeq
        PROVE  a = b
    <3>1. (a \in AllChanges \/ a = change) /\ (b \in AllChanges \/ b = change)
      OBVIOUS
    <3> QED
      BY <2>1, <2>2, <2>4, <3>1
  <2>5. n \in Nat /\ tx.next = n + 1
    BY <1>6, <2>2
  <2> QED
    BY <2>3, <2>4, <2>5
<1>9. /\ MutationAt(more, n + 1) = m
      /\ \A s \in 1..(n + 1) : MutationAt(more, s) \in Mutation
      /\ \A s \in 1..n : MutationAt(AllChanges, s) = MutationAt(more, s)
  <2>1. MutationAt(more, n + 1) = m /\ MutationAt(more, n + 1) \in Mutation
    <3>1. change \in more
      OBVIOUS
    <3>2. /\ MutationAt(more, change.serverSeq) = Content[change.op]
          /\ MutationAt(more, change.serverSeq) \in Mutation
      BY <1>8, <3>1, MutationOf
    <3> QED
      BY <1>6, <1>8, <3>2
  <2>2. ASSUME NEW s \in 1..n
        PROVE  /\ MutationAt(more, s) \in Mutation
               /\ MutationAt(AllChanges, s) = MutationAt(more, s)
    <3>1. PICK ch \in AllChanges : ch.serverSeq = s
      BY <1>1, AllNumbered
    <3>2. ch \in more
      BY <3>1
    <3>3. /\ MutationAt(more, ch.serverSeq) = Content[ch.op]
          /\ MutationAt(more, ch.serverSeq) \in Mutation
      BY <1>8, <3>2, MutationOf
    <3>4. MutationAt(AllChanges, ch.serverSeq) = Content[ch.op]
      BY <1>1, <3>1, MutationOf, AllNumbered
    <3> QED
      BY <3>1, <3>3, <3>4
  <2>3. ASSUME NEW s \in 1..(n + 1) PROVE MutationAt(more, s) \in Mutation
    <3>1. s = n + 1 \/ s \in 1..n
      BY <1>8
    <3> QED
      BY <2>1, <2>2, <3>1
  <2> QED
    BY <2>1, <2>2, <2>3
<1> HIDE DEF more
<1>10. /\ MutationAt(AllChanges', tx.next) = m
       /\ \A s \in 1..tx.next : MutationAt(AllChanges', s) \in Mutation
       /\ \A s \in 1..(tx.next - 1) :
             MutationAt(AllChanges, s) = MutationAt(AllChanges', s)
  BY <1>7, <1>8, <1>9
<1> HIDE DEF m, n, item
<1> QED
  BY <1>1, <1>2, <1>4, <1>5, <1>8, <1>10 DEF m, n, item

\* One more change, one more fold: the rows of the transaction move along.
LEMMA MirrorApplyStep ==
    ASSUME IInv, Mirrored, NEW c \in Conn, ApplyNext(c)
    PROVE  Mirrored'
<1> DEFINE m == Content[Head(tx.todo).op]
<1>1. PICK n \in Nat, r \in Rows, at \in Nat :
         n = tx.next - 1 /\ r = tx.rows /\ at = request[c].at
  BY OneMoreChange DEF Request
<1>2. PICK a, b : a = AllChanges /\ b = AllChanges'
  OBVIOUS
<1>3. n + 1 = tx.next
  BY <1>1, OneMoreChange DEF IInv, TypeOK, Transaction, Positive
<1>4. /\ m \in Mutation /\ Accepts(r, m) /\ tx # None
      /\ tx'.rows = ApplyMutation(r, m, at) /\ tx'.next - 1 = n + 1
      /\ MutationAt(b, n + 1) = m
      /\ \A s \in 1..(n + 1) : MutationAt(b, s) \in Mutation
      /\ \A s \in 1..n : MutationAt(a, s) = MutationAt(b, s)
  BY <1>1, <1>2, <1>3, OneMoreChange
<1> HIDE DEF m
<1>5. Shown(Replay(a, NoRows, 0, n)) = Shown(r)
  BY <1>1, <1>2, <1>4 DEF Mirrored
<1>6. Shown(Replay(b, NoRows, 0, n + 1)) = Shown(ApplyMutation(r, m, at))
  BY <1>4, <1>5, NoRowsType, FoldOnTop
<1>7. LogRebuildsRows'
  BY OneMoreChange DEF Mirrored, LogRebuildsRows
<1> QED
  BY <1>2, <1>4, <1>6, <1>7 DEF Mirrored, NoRows

LEMMA MirrorStep ==
    ASSUME IInv, Mirrored, [Next]_vars
    PROVE  Mirrored'
<1>1. ASSUME NEW c \in Conn, ApplyNext(c) PROVE Mirrored'
  BY <1>1, MirrorApplyStep
<1>2. ASSUME NEW c \in Conn,
             AnswerFromReceipt(c) \/ AnswerFromWatermark(c) \/ RejectNext(c)
      PROVE  Mirrored'
  <2>1. Working(c) /\ tx \in Transaction /\ tx # None
    BY <1>2, HeadType
    DEF AnswerFromReceipt, AnswerFromWatermark, RejectNext, IInv, Working, Holds
  <2>2. tx'.rows = tx.rows /\ tx'.changes = tx.changes /\ tx'.next = tx.next
    BY <1>2, <2>1
    DEF AnswerFromReceipt, AnswerFromWatermark, RejectNext, Rejected, Answered,
        Transaction
  <2>3. UNCHANGED <<rows, ledger, nextSeq>>
    BY <1>2 DEF AnswerFromReceipt, AnswerFromWatermark, RejectNext, dbVars
  <2> QED
    BY <2>1, <2>2, <2>3 DEF Mirrored, LogRebuildsRows, AllChanges
<1>3. ASSUME NEW c \in Conn, Acquire(c) PROVE Mirrored'
  <2>1. /\ tx'.rows = rows /\ tx'.changes = {} /\ tx'.next = nextSeq
        /\ UNCHANGED <<rows, ledger, nextSeq>>
    BY <1>3 DEF Acquire, dbVars
  <2>2. AllChanges' = ledger
    BY <2>1 DEF AllChanges
  <2> QED
    BY <2>1, <2>2 DEF Mirrored, LogRebuildsRows
<1>4. ASSUME NEW c \in Conn, Commit(c) PROVE Mirrored'
  <2>1. /\ tx # None /\ tx' = None /\ rows' = tx.rows /\ nextSeq' = tx.next
        /\ ledger' = AllChanges
    BY <1>4 DEF Commit, Holds, AllChanges
  <2> QED
    BY <2>1 DEF Mirrored, LogRebuildsRows
<1>5. CASE tx' = None /\ UNCHANGED <<rows, ledger, nextSeq>>
  BY <1>5 DEF Mirrored, LogRebuildsRows
<1>6. CASE UNCHANGED <<tx, rows, ledger, nextSeq>>
  BY <1>6 DEF Mirrored, LogRebuildsRows, AllChanges
<1> QED
  BY <1>1, <1>2, <1>3, <1>4, <1>5, <1>6
  DEF Next, SyncStep, Tick, Begin, Refuse, SequenceMismatch, Crash, Answer,
      RevokeDevice, DeleteAccount, OpenBootstrap, NextPage, CloseBootstrap,
      CleanupReceipts, SelectPrune, StartFloor, CommitPrune, dbVars, vars

(***************************************************************************)
(* The change log carries the whole truth: a client that starts with       *)
(* nothing and folds every committed change, checking nothing, shows the   *)
(* rows that the server holds, which it only changed under its checks.     *)
(***************************************************************************)
THEOREM LogIsTheTruth == Spec => []LogRebuildsRows
<1>1. Init => Mirrored
  <2> SUFFICES ASSUME Init PROVE Mirrored
    OBVIOUS
  <2>1. nextSeq = 1 /\ rows = NoRows /\ tx = None
    BY DEF Init, NoRows
  <2>2. Replay(ledger, NoRows, 0, 0) = NoRows
    BY NoRowsType, ReplayNothing
  <2> QED
    BY <2>1, <2>2 DEF Mirrored, LogRebuildsRows
<1>2. IInv /\ Mirrored /\ [Next]_vars => Mirrored'
  BY MirrorStep
<1>3. Mirrored => LogRebuildsRows
  BY DEF Mirrored
<1> QED
  BY <1>1, <1>2, <1>3, Invariant, PTL DEF Spec

----------------------------------------------------------------------------
(* Bootstraps. *)

\* What a reader has seen, and what it would have if it read the rest of a
\* table now.
SeenBy(reader) == {PageOrder[i] : i \in 1..(reader.pos - 1)}

Gathered(reader, table) ==
    [e \in Entity |->
        IF e \in SeenBy(reader) THEN reader.got[e]
        ELSE IF table[e] # Absent /\ table[e].created <= reader.at THEN table[e]
        ELSE Absent]

\* The rows after the transaction, of which some are read before it commits.
Mixed(early) == [e \in Entity |-> IF e \in early THEN rows[e] ELSE tx.rows[e]]

\* Whatever is read of the rest before or after the transaction commits, the
\* changes after the cursor lead to the rows of the server.
Leads(reader) ==
    /\ reader.cursor <= nextSeq - 1
    /\ Shown(Replay(ledger, Gathered(reader, rows), reader.cursor, nextSeq - 1))
          = Shown(rows)
    /\ tx # None =>
          \A early \in SUBSET Entity :
              Shown(Replay(AllChanges, Gathered(reader, Mixed(early)),
                           reader.cursor, tx.next - 1)) = Shown(tx.rows)

\* Nothing is stamped with a time that has not come.
StampedBy(table, time) == \A e \in Entity : table[e] # Absent => table[e].created <= time

Stamped ==
    /\ StampedBy(rows, now)
    /\ tx # None => StampedBy(tx.rows, now)
    /\ \A c \in Conn : request[c] # None => request[c].at <= now

\* A bootstrap that starts now.
Opened == [cursor |-> nextSeq - 1, at |-> now, pos |-> 1, got |-> NoRows]

Bootstrapping ==
    /\ Stamped
    /\ Leads(Opened)
    /\ \A b \in Reader : reading[b] # None => Leads(reading[b])

LEMMA GatheredType ==
    ASSUME NEW reader \in Bootstrap, NEW table \in Rows
    PROVE  Gathered(reader, table) \in Rows
BY DEF Gathered, Bootstrap, Rows

\* created_at is set by the create and kept by everything else.
LEMMA ApplyStamps ==
    ASSUME NEW r \in Rows, NEW m \in Mutation, Accepts(r, m), NEW at \in Nat
    PROVE  LET row == ApplyMutation(r, m, at)[m.entity]
           IN  /\ row \in Row
               /\ row.created = IF r[m.entity] = Absent THEN at ELSE r[m.entity].created
<1> DEFINE e == m.entity
           bare == [parent |-> NoParent, val |-> [k \in Column |-> Default],
                    deleted |-> FALSE, created |-> at]
<1>1. e \in Entity /\ r[e] \in Row \cup {Absent} /\ Absent \notin Row
  BY DataAssumption DEF DataAssumption, Mutation, Rows
<1>2. \A x \in Row : /\ Patched(x, m) \in Row /\ Patched(x, m).created = x.created
                     /\ Tombstoned(x) \in Row /\ Tombstoned(x).created = x.created
                     /\ Revived(x, m) \in Row /\ Revived(x, m).created = x.created
  <2> SUFFICES ASSUME NEW x \in Row
               PROVE  /\ Patched(x, m) \in Row /\ Patched(x, m).created = x.created
                      /\ Tombstoned(x) \in Row /\ Tombstoned(x).created = x.created
                      /\ Revived(x, m) \in Row /\ Revived(x, m).created = x.created
    OBVIOUS
  <2>1. Patched(x, m) \in Row
    BY PatchedType
  <2>2. Patched(x, m).created = x.created
    BY DEF Patched, Row
  <2>3. Tombstoned(x) \in Row /\ Tombstoned(x).created = x.created
    BY DEF Tombstoned, Row
  <2>4. Revived(x, m) \in Row /\ Revived(x, m).created = x.created
    BY <2>1, <2>2 DEF Revived, Row
  <2> QED
    BY <2>1, <2>2, <2>3, <2>4
<1>3. Default \in Value
  BY DataAssumption DEF DataAssumption, Default
<1>4. bare \in Row /\ bare.created = at
  BY <1>3 DEF Row
<1>5. CASE m.kind = "create"
  <2>1. r[e] = Absent
    BY <1>5 DEF Accepts, CreateAllowed
  <2>2. ApplyMutation(r, m, at)[e] = Patched(bare, m)
    BY <1>1, <1>5 DEF ApplyMutation, Created, Rows
  <2> HIDE DEF bare
  <2> QED
    BY <1>2, <1>4, <2>1, <2>2
<1>6. CASE m.kind # "create"
  <2>1. r[e] \in Row
    BY <1>1, <1>6 DEF Accepts, PatchAllowed, DeleteAllowed, RestoreAllowed, Live
  <2>2. ApplyMutation(r, m, at)[e] \in {Patched(r[e], m), Tombstoned(r[e]), Revived(r[e], m)}
    BY <1>1, <1>6 DEF ApplyMutation, Accepts, Rows
  <2> QED
    BY <1>1, <1>2, <2>1, <2>2
<1> QED
  BY <1>5, <1>6

\* A change of one row: the reader does not see it, or sees all of it.
LEMMA GatheredApply ==
    ASSUME NEW reader \in Bootstrap, NEW r \in Rows, NEW m \in Mutation,
           Accepts(r, m), NEW at \in Nat, NEW t \in Rows, NEW u \in Rows,
           \A f \in Entity \ {m.entity} : u[f] = t[f],
           \/ u[m.entity] = t[m.entity]
           \/ /\ t[m.entity] = r[m.entity]
              /\ u[m.entity] = ApplyMutation(r, m, at)[m.entity]
    PROVE  \/ Gathered(reader, u) = Gathered(reader, t)
           \/ Shown(Gathered(reader, u)) = Shown(Folded(Gathered(reader, t), m))
<1> DEFINE g == Gathered(reader, t)
           h == Gathered(reader, u)
           e == m.entity
           row == ApplyMutation(r, m, at)[e]
<1>1. g \in Rows /\ h \in Rows /\ e \in Entity /\ r[e] \in Row \cup {Absent}
  BY GatheredType DEF Mutation, Rows
<1>2. \A f \in Entity \ {e} : h[f] = g[f]
  BY DEF Gathered
<1>3. /\ row \in Row /\ row # Absent
      /\ row.created = IF r[e] = Absent THEN at ELSE r[e].created
  BY ApplyStamps, DataAssumption DEF DataAssumption
<1>4. /\ h[e] = IF e \in SeenBy(reader) THEN reader.got[e]
                ELSE IF u[e] # Absent /\ u[e].created <= reader.at THEN u[e] ELSE Absent
      /\ g[e] = IF e \in SeenBy(reader) THEN reader.got[e]
                ELSE IF t[e] # Absent /\ t[e].created <= reader.at THEN t[e] ELSE Absent
  BY <1>1 DEF Gathered
<1> HIDE DEF g, h, row
<1>5. CASE h[e] = g[e]
  <2>1. \A f \in Entity : h[f] = g[f]
    BY <1>2, <1>5
  <2> QED
    BY <1>1, <2>1 DEF g, h, Rows
<1>6. CASE h[e] # g[e]
  <2>1. e \notin SeenBy(reader) /\ t[e] = r[e] /\ u[e] = row
    BY <1>4, <1>6 DEF row
  <2>2. h[e] = row /\ g[e] = r[e]
    BY <1>1, <1>3, <1>4, <1>6, <2>1
  <2>3. Shown(Folded(r, m)) = Shown(ApplyMutation(r, m, at))
    BY FoldFollowsServer
  <2>4. Folded(r, m) \in Rows /\ ApplyMutation(r, m, at) \in Rows /\ Folded(g, m) \in Rows
    BY <1>1, FoldedType, ApplyMutationType
  <2>5. AllAlike(Folded(r, m), ApplyMutation(r, m, at))
    BY <2>3, <2>4, ShownAlike
  <2>6. Folded(r, m)[e] = Merge(r[e], m) /\ Folded(g, m)[e] = Merge(r[e], m)
    BY <1>1, <2>2, FoldedIs
  <2>7. Merge(r[e], m) # Absent /\ Alike(Merge(r[e], m), row)
    BY <1>1, <1>3, <2>5, <2>6 DEF AllAlike, row
  <2>8. AllAlike(h, Folded(g, m))
    <3>1. ASSUME NEW f \in Entity
          PROVE  \/ h[f] = Absent /\ Folded(g, m)[f] = Absent
                 \/ h[f] # Absent /\ Folded(g, m)[f] # Absent /\ Alike(h[f], Folded(g, m)[f])
      <4>1. CASE f = e
        BY <1>3, <2>2, <2>6, <2>7, <4>1 DEF Alike
      <4>2. CASE f # e
        BY <1>1, <1>2, <4>2, FoldedIs DEF Alike
      <4> QED
        BY <4>1, <4>2
    <3> QED
      BY <3>1 DEF AllAlike
  <2>9. Shown(h) = Shown(Folded(g, m))
    BY <1>1, <2>4, <2>8, ShownAlike
  <2> QED
    BY <2>9 DEF g, h
<1> QED
  BY <1>5, <1>6

LEMMA MixedType ==
    ASSUME rows \in Rows, tx.rows \in Rows, NEW early
    PROVE  Mixed(early) \in Rows
BY DEF Mixed, Rows

LEMMA LeadsApply ==
    ASSUME IInv, NEW c \in Conn, ApplyNext(c), NEW reader \in Bootstrap, Leads(reader)
    PROVE  Leads(reader)'
<1> DEFINE m == Content[Head(tx.todo).op]
<1>1. PICK n \in Nat, r \in Rows, at \in Nat, k \in Nat :
         n = tx.next - 1 /\ r = tx.rows /\ at = request[c].at /\ k = reader.cursor
  BY OneMoreChange DEF Request, Bootstrap
<1>2. PICK a, b : a = AllChanges /\ b = AllChanges'
  OBVIOUS
<1>3. n + 1 = tx.next /\ nextSeq \in Nat /\ nextSeq <= tx.next
  BY <1>1, OneMoreChange DEF IInv, TypeOK, Transaction, Positive, Bounded
<1>4. /\ m \in Mutation /\ Accepts(r, m) /\ tx # None
      /\ tx'.rows = ApplyMutation(r, m, at) /\ tx'.next - 1 = n + 1
      /\ MutationAt(b, n + 1) = m
      /\ \A s \in 1..(n + 1) : MutationAt(b, s) \in Mutation
      /\ \A s \in 1..n : MutationAt(a, s) = MutationAt(b, s)
      /\ UNCHANGED <<ledger, rows, nextSeq>>
  BY <1>1, <1>2, <1>3, OneMoreChange
<1> HIDE DEF m
<1>5. k <= n
  BY <1>1, <1>3 DEF Leads
<1>6. /\ \A s \in (k + 1)..(n + 1) : MutationAt(b, s) \in Mutation
      /\ \A s \in (k + 1)..n : MutationAt(a, s) = MutationAt(b, s)
  <2>1. /\ \A s \in (k + 1)..(n + 1) : s \in 1..(n + 1)
        /\ \A s \in (k + 1)..n : s \in 1..n
    OBVIOUS
  <2> QED
    BY <1>4, <2>1
<1>7. ASSUME NEW early \in SUBSET Entity
      PROVE  Shown(Replay(b, Gathered(reader, Mixed(early)'), k, n + 1))
                = Shown(ApplyMutation(r, m, at))
  <2>1. PICK t, u : t = Mixed(early) /\ u = Mixed(early)'
    OBVIOUS
  <2>2. ApplyMutation(r, m, at) \in Rows
    BY <1>4, ApplyMutationType
  <2>3. t \in Rows /\ u \in Rows
    BY <1>1, <1>4, <2>1, <2>2 DEF Mixed, Rows, IInv, TypeOK
  <2>4. \A f \in Entity \ {m.entity} : u[f] = t[f]
    <3>1. \A f \in Entity \ {m.entity} : ApplyMutation(r, m, at)[f] = r[f]
      BY DEF ApplyMutation, Rows
    <3> QED
      BY <1>1, <1>4, <2>1, <3>1 DEF Mixed
  <2>5. \/ u[m.entity] = t[m.entity]
        \/ /\ t[m.entity] = r[m.entity]
           /\ u[m.entity] = ApplyMutation(r, m, at)[m.entity]
    <3>1. m.entity \in Entity
      BY <1>4 DEF Mutation
    <3> QED
      BY <1>1, <1>4, <2>1, <3>1 DEF Mixed
  <2>6. \/ Gathered(reader, u) = Gathered(reader, t)
        \/ Shown(Gathered(reader, u)) = Shown(Folded(Gathered(reader, t), m))
    BY <1>4, <2>3, <2>4, <2>5, GatheredApply
  <2>7. Gathered(reader, t) \in Rows /\ Gathered(reader, u) \in Rows
    BY <2>3, GatheredType
  <2>8. Shown(Replay(a, Gathered(reader, t), k, n)) = Shown(r)
    BY <1>1, <1>2, <1>4, <2>1 DEF Leads
  <2>9. Shown(Replay(b, Gathered(reader, u), k, n + 1)) = Shown(ApplyMutation(r, m, at))
    <3> DEFINE g == Gathered(reader, t)
               h == Gathered(reader, u)
    <3>1. /\ g \in Rows /\ h \in Rows /\ Shown(Replay(a, g, k, n)) = Shown(r)
          /\ h = g \/ Shown(h) = Shown(Folded(g, m))
      BY <2>6, <2>7, <2>8
    <3> HIDE DEF g, h
    <3>2. Shown(Replay(b, h, k, n + 1)) = Shown(ApplyMutation(r, m, at))
      BY <1>4, <1>5, <1>6, <3>1, FoldOnTop
    <3> QED
      BY <3>2 DEF h
  <2> QED
    BY <2>1, <2>9
<1>8. /\ reader.cursor <= nextSeq' - 1
      /\ Shown(Replay(ledger', Gathered(reader, rows'), reader.cursor, nextSeq' - 1))
            = Shown(rows')
  BY <1>4 DEF Leads
<1>9. \A early \in SUBSET Entity :
         Shown(Replay(AllChanges', Gathered(reader, Mixed(early)'),
                      reader.cursor, tx'.next - 1)) = Shown(tx'.rows)
  BY <1>1, <1>2, <1>4, <1>7
<1> QED
  BY <1>8, <1>9 DEF Leads

\* A transaction begins with what is committed.
LEMMA LeadsAcquire ==
    ASSUME IInv, NEW c \in Conn, Acquire(c), NEW reader, Leads(reader)
    PROVE  Leads(reader)'
<1>1. /\ tx'.rows = rows /\ tx'.changes = {} /\ tx'.next = nextSeq
      /\ UNCHANGED <<rows, ledger, nextSeq>>
  BY DEF Acquire, dbVars
<1>2. AllChanges' = ledger
  BY <1>1 DEF AllChanges
<1>3. \A early \in SUBSET Entity : Mixed(early)' = rows
  BY <1>1 DEF Mixed, IInv, TypeOK, Rows
<1>4. /\ reader.cursor <= nextSeq - 1
      /\ Shown(Replay(ledger, Gathered(reader, rows), reader.cursor, nextSeq - 1))
            = Shown(rows)
  BY DEF Leads
<1>5. \A early \in SUBSET Entity :
         Shown(Replay(AllChanges', Gathered(reader, Mixed(early)'),
                      reader.cursor, tx'.next - 1)) = Shown(tx'.rows)
  BY <1>1, <1>2, <1>3, <1>4
<1> QED
  BY <1>1, <1>4, <1>5 DEF Leads

\* What the transaction has written is committed at once.
LEMMA LeadsCommit ==
    ASSUME IInv, NEW c \in Conn, Commit(c), NEW reader \in Bootstrap, Leads(reader)
    PROVE  Leads(reader)'
<1>1. /\ tx # None /\ tx' = None /\ rows' = tx.rows /\ nextSeq' = tx.next
      /\ ledger' = AllChanges
  BY DEF Commit, Holds, AllChanges
<1>2. Mixed({}) = tx.rows /\ nextSeq <= tx.next /\ nextSeq \in Nat /\ tx.next \in Nat
  BY <1>1 DEF Mixed, IInv, TypeOK, Transaction, Rows, Bounded, Positive
<1>3. Shown(Replay(AllChanges, Gathered(reader, Mixed({})), reader.cursor, tx.next - 1))
         = Shown(tx.rows)
  BY <1>1 DEF Leads
<1>4. reader.cursor <= tx.next - 1
  BY <1>2 DEF Leads, Bootstrap
<1> QED
  BY <1>1, <1>2, <1>3, <1>4 DEF Leads

\* A page is read before the transaction commits.
LEMMA LeadsPage ==
    ASSUME IInv, NEW b \in Reader, NextPage(b), Leads(reading[b])
    PROVE  Leads(reading[b])'
<1>1. PICK reader \in Bootstrap, e \in Entity, row \in Row \cup {Absent} :
         /\ reader = reading[b] /\ e = PageOrder[reader.pos] /\ row = Listed(b, e)
         /\ reader.pos \in DOMAIN PageOrder
  <2>1. reading[b] \in Bootstrap /\ reading[b].pos <= Len(PageOrder)
        /\ PageOrder \in Seq(Entity)
    BY ServerAssumption DEF NextPage, Read, IInv, TypeOK, ServerAssumption, Bootstrap, Positive
  <2>2. reading[b].pos \in DOMAIN PageOrder
    BY <2>1 DEF Bootstrap, Positive
  <2>3. PageOrder[reading[b].pos] \in Entity
    BY <2>1, <2>2
  <2>4. Listed(b, PageOrder[reading[b].pos]) \in Row \cup {Absent}
    BY <2>3 DEF Listed, IInv, TypeOK, Rows
  <2> QED
    BY <2>1, <2>2, <2>3, <2>4
<1>2. PICK next : next = reading'[b]
  OBVIOUS
<1>3. /\ next.cursor = reader.cursor /\ next.at = reader.at
      /\ next.pos = reader.pos + 1 /\ reader.pos \in Positive
      /\ \A f \in Entity : next.got[f] = IF f = e THEN row ELSE reader.got[f]
  <2>1. next = [reader EXCEPT !.pos = @ + 1, !.got[e] = row]
    BY <1>1, <1>2 DEF NextPage, PageRead, IInv, TypeOK
  <2> QED
    BY <2>1 DEF Bootstrap, Rows
<1>4. SeenBy(next) = SeenBy(reader) \cup {e}
  <2>1. 1..(next.pos - 1) = (1..(reader.pos - 1)) \cup {reader.pos}
    BY <1>3 DEF Positive
  <2> QED
    BY <1>1, <2>1 DEF SeenBy
<1>5. e \notin SeenBy(reader)
  <2>1. ASSUME NEW i \in 1..(reader.pos - 1) PROVE PageOrder[i] # e
    <3>1. i \in DOMAIN PageOrder /\ i # reader.pos
      BY <1>1, <1>3, ServerAssumption DEF ServerAssumption, Positive
    <3> QED
      BY <1>1, <3>1, ServerAssumption DEF ServerAssumption
  <2> QED
    BY <2>1 DEF SeenBy
<1>6. ASSUME NEW t, NEW u, u[e] = rows[e], \A f \in Entity \ {e} : u[f] = t[f]
      PROVE  Gathered(next, t) = Gathered(reader, u)
  <2>1. ASSUME NEW f \in Entity
        PROVE  (IF f \in SeenBy(next) THEN next.got[f]
                ELSE IF t[f] # Absent /\ t[f].created <= next.at THEN t[f] ELSE Absent)
               = (IF f \in SeenBy(reader) THEN reader.got[f]
                  ELSE IF u[f] # Absent /\ u[f].created <= reader.at THEN u[f] ELSE Absent)
    <3>1. CASE f = e
      BY <1>1, <1>3, <1>4, <1>5, <1>6, <3>1 DEF Listed
    <3>2. CASE f # e
      BY <1>3, <1>4, <1>6, <3>2
    <3> QED
      BY <3>1, <3>2
  <2> QED
    BY <2>1 DEF Gathered
<1>7. Gathered(next, rows) = Gathered(reader, rows)
  BY <1>6
<1>8. \A early \in SUBSET Entity :
         Gathered(next, Mixed(early)) = Gathered(reader, Mixed(early \cup {e}))
  <2> SUFFICES ASSUME NEW early \in SUBSET Entity
               PROVE  Gathered(next, Mixed(early)) = Gathered(reader, Mixed(early \cup {e}))
    OBVIOUS
  <2>1. /\ Mixed(early \cup {e})[e] = rows[e]
        /\ \A f \in Entity \ {e} : Mixed(early \cup {e})[f] = Mixed(early)[f]
    BY DEF Mixed
  <2> QED
    BY <1>6, <2>1
<1>9. UNCHANGED <<rows, ledger, nextSeq, tx>>
  BY DEF NextPage, dbVars
<1>10. \A early \in SUBSET Entity : early \cup {e} \in SUBSET Entity
  OBVIOUS
<1>11. Leads(next)
  BY <1>1, <1>3, <1>7, <1>8, <1>10 DEF Leads
<1>12. \A early \in SUBSET Entity : Mixed(early)' = Mixed(early)
  BY <1>9 DEF Mixed
<1>13. AllChanges' = AllChanges
  BY <1>9 DEF AllChanges
<1> QED
  BY <1>2, <1>9, <1>11, <1>12, <1>13 DEF Leads

\* Nothing bears the stamp of a transaction that begins later.
LEMMA StampedStep ==
    ASSUME IInv, Stamped, [Next]_vars
    PROVE  Stamped'
<1>1. now \in Nat /\ rows \in Rows /\ \A k \in Conn : request[k] \in Request \cup {None}
  BY DEF IInv, TypeOK
<1>2. ASSUME NEW c \in Conn, ApplyNext(c) PROVE Stamped'
  <2>1. PICK r \in Rows, m \in Mutation, at \in Nat :
           /\ r = tx.rows /\ m = Content[Head(tx.todo).op] /\ at = request[c].at
           /\ tx # None /\ Accepts(r, m) /\ tx'.rows = ApplyMutation(r, m, at)
    BY <1>2, OneMoreChange DEF Request
  <2>2. UNCHANGED <<rows, now, request>>
    BY <1>2, OneMoreChange
  <2>3. at <= now
    BY <1>2, <2>1 DEF Stamped, ApplyNext, Working, Holds, IInv, Serving
  <2>4. \A f \in Entity \ {m.entity} : ApplyMutation(r, m, at)[f] = r[f]
    BY DEF ApplyMutation, Rows
  <2>5. StampedBy(r, now)
    BY <2>1 DEF Stamped
  <2>6. StampedBy(ApplyMutation(r, m, at), now)
    <3>1. m.entity \in Entity => ApplyMutation(r, m, at)[m.entity].created <= now
      BY <2>1, <2>3, <2>5, ApplyStamps DEF StampedBy
    <3> QED
      BY <2>4, <2>5, <3>1 DEF StampedBy
  <2> QED
    BY <2>1, <2>2, <2>6 DEF Stamped
<1>3. ASSUME NEW c \in Conn,
             AnswerFromReceipt(c) \/ AnswerFromWatermark(c) \/ RejectNext(c)
      PROVE  Stamped'
  <2>1. Working(c) /\ tx \in Transaction /\ tx # None
    BY <1>3, HeadType
    DEF AnswerFromReceipt, AnswerFromWatermark, RejectNext, IInv, Working, Holds
  <2>2. tx'.rows = tx.rows
    BY <1>3, <2>1
    DEF AnswerFromReceipt, AnswerFromWatermark, RejectNext, Rejected, Answered,
        Transaction
  <2>3. UNCHANGED <<rows, now, request>>
    BY <1>3 DEF AnswerFromReceipt, AnswerFromWatermark, RejectNext, dbVars
  <2> QED
    BY <2>1, <2>2, <2>3 DEF Stamped
<1>4. ASSUME NEW c \in Conn, Acquire(c) PROVE Stamped'
  BY <1>4 DEF Acquire, Stamped, dbVars
<1>5. ASSUME NEW c \in Conn, Commit(c) PROVE Stamped'
  BY <1>5 DEF Commit, Holds, Stamped
<1>6. CASE Tick
  <2>1. now <= now + 1
    BY <1>1
  <2>2. StampedBy(rows, now + 1) /\ (tx # None => StampedBy(tx.rows, now + 1))
    <3>1. \A t \in Rows : StampedBy(t, now) => StampedBy(t, now + 1)
      <4>1. \A t \in Rows, e \in Entity : t[e] # Absent => t[e].created \in Nat
        BY DEF Rows, Row
      <4> QED
        BY <1>1, <4>1 DEF StampedBy
    <3>2. tx # None => tx.rows \in Rows
      BY DEF IInv, TypeOK, Transaction
    <3> QED
      BY <1>1, <3>1, <3>2 DEF Stamped
  <2>3. \A k \in Conn : request[k] # None => request[k].at <= now + 1
    BY <1>1 DEF Stamped, Request
  <2> QED
    BY <1>6, <2>2, <2>3 DEF Tick, Stamped, dbVars
<1>7. ASSUME NEW c \in Conn, NEW d \in Device, Begin(c, d) PROVE Stamped'
  <2>1. PICK batch \in Batches, cursor \in Cursor :
           request' = [request EXCEPT ![c] =
              [dev |-> d, cursor |-> cursor, batch |-> batch, at |-> now]]
    BY <1>7 DEF Begin
  <2>2. \A k \in Conn : request'[k] # None => request'[k].at <= now
    BY <1>1, <2>1 DEF Stamped, IInv, TypeOK
  <2> QED
    BY <1>7, <2>2 DEF Begin, Stamped, dbVars
<1>8. CASE /\ UNCHANGED <<rows, now>> /\ (tx' = tx \/ tx' = None)
           /\ \A k \in Conn : request'[k] = request[k] \/ request'[k] = None
  BY <1>8 DEF Stamped
<1>9. ASSUME NEW c \in Conn,
             Refuse(c) \/ SequenceMismatch(c) \/ Crash(c) \/ Answer(c)
      PROVE  Stamped'
  <2>1. \A k \in Conn : request'[k] = request[k] \/ request'[k] = None
    BY <1>9 DEF Refuse, SequenceMismatch, Crash, Answer, IInv, TypeOK
  <2>2. UNCHANGED <<rows, now>> /\ (tx' = tx \/ tx' = None)
    BY <1>9 DEF Refuse, SequenceMismatch, Crash, Answer, dbVars
  <2> QED
    BY <1>8, <2>1, <2>2
<1>10. CASE UNCHANGED <<rows, now, tx, request>>
  BY <1>8, <1>10
<1> QED
  BY <1>2, <1>3, <1>4, <1>5, <1>6, <1>7, <1>9, <1>10
  DEF Next, SyncStep, RevokeDevice, DeleteAccount, OpenBootstrap, NextPage,
      CloseBootstrap, CleanupReceipts, SelectPrune, StartFloor, CommitPrune, dbVars, vars

\* Whoever starts now is to read every row.
LEMMA GatheredAll ==
    ASSUME NEW reader, reader.pos = 1, NEW t \in Rows, StampedBy(t, reader.at)
    PROVE  Gathered(reader, t) = t
<1>1. SeenBy(reader) = {}
  BY DEF SeenBy
<1>2. Gathered(reader, t) = [e \in Entity |-> t[e]]
  BY <1>1 DEF Gathered, StampedBy
<1> QED
  BY <1>2 DEF Rows

\* Whatever happens, it does not mislead a reader that has gathered what it has.
LEMMA LeadsStep ==
    ASSUME IInv, [Next]_vars, NEW reader \in Bootstrap, Leads(reader)
    PROVE  Leads(reader)'
<1>1. ASSUME NEW c \in Conn, ApplyNext(c) PROVE Leads(reader)'
  BY <1>1, LeadsApply
<1>2. ASSUME NEW c \in Conn, Acquire(c) PROVE Leads(reader)'
  BY <1>2, LeadsAcquire
<1>3. ASSUME NEW c \in Conn, Commit(c) PROVE Leads(reader)'
  BY <1>3, LeadsCommit
<1>4. ASSUME NEW c \in Conn,
             AnswerFromReceipt(c) \/ AnswerFromWatermark(c) \/ RejectNext(c)
      PROVE  Leads(reader)'
  <2>1. Working(c) /\ tx \in Transaction /\ tx # None
    BY <1>4, HeadType
    DEF AnswerFromReceipt, AnswerFromWatermark, RejectNext, IInv, Working, Holds
  <2>2. tx'.rows = tx.rows /\ tx'.changes = tx.changes /\ tx'.next = tx.next
    BY <1>4, <2>1
    DEF AnswerFromReceipt, AnswerFromWatermark, RejectNext, Rejected, Answered,
        Transaction
  <2>3. UNCHANGED <<rows, ledger, nextSeq>>
    BY <1>4 DEF AnswerFromReceipt, AnswerFromWatermark, RejectNext, dbVars
  <2>4. AllChanges' = AllChanges /\ \A early \in SUBSET Entity : Mixed(early)' = Mixed(early)
    BY <2>2, <2>3 DEF AllChanges, Mixed
  <2> QED
    BY <2>1, <2>2, <2>3, <2>4 DEF Leads
<1>5. CASE tx' = None /\ UNCHANGED <<rows, ledger, nextSeq>>
  BY <1>5 DEF Leads
<1>6. CASE UNCHANGED <<tx, rows, ledger, nextSeq>>
  <2>1. AllChanges' = AllChanges /\ \A early \in SUBSET Entity : Mixed(early)' = Mixed(early)
    BY <1>6 DEF AllChanges, Mixed
  <2> QED
    BY <1>6, <2>1 DEF Leads
<1> QED
  BY <1>1, <1>2, <1>3, <1>4, <1>5, <1>6
  DEF Next, SyncStep, Tick, Begin, Refuse, SequenceMismatch, Crash, Answer,
      RevokeDevice, DeleteAccount, OpenBootstrap, NextPage, CloseBootstrap,
      CleanupReceipts, SelectPrune, StartFloor, CommitPrune, dbVars, vars

LEMMA OpenedType == IInv => Opened \in Bootstrap
<1> SUFFICES ASSUME IInv PROVE Opened \in Bootstrap
  OBVIOUS
<1>1. nextSeq - 1 \in Nat /\ now \in Nat
  BY DEF IInv, TypeOK, Positive
<1> QED
  BY <1>1, NoRowsType DEF Opened, Bootstrap, Positive

LEMMA LeadsOpened ==
    ASSUME IInv, IInv', Bootstrapping, Stamped', [Next]_vars
    PROVE  Leads(Opened)'
<1>1. CASE UNCHANGED <<nextSeq, now>>
  <2>1. PICK reader : reader = Opened
    OBVIOUS
  <2>2. Opened' = reader
    BY <1>1, <2>1 DEF Opened, NoRows
  <2>3. Leads(reader)'
    BY <2>1, OpenedType, LeadsStep DEF Bootstrapping
  <2> QED
    BY <2>2, <2>3 DEF Leads
<1>2. CASE Tick
  <2>1. PICK reader, later : reader = Opened /\ later = Opened'
    OBVIOUS
  <2>2. /\ reader.pos = 1 /\ reader.at = now /\ reader.cursor = nextSeq - 1
        /\ later.pos = 1 /\ later.at = now + 1 /\ later.cursor = nextSeq - 1
    BY <1>2, <2>1 DEF Opened, Tick, dbVars
  <2>3. now \in Nat /\ rows \in Rows /\ (tx # None => tx.rows \in Rows)
    BY DEF IInv, TypeOK, Transaction
  <2>4. \A t \in Rows : StampedBy(t, now) => Gathered(later, t) = Gathered(reader, t)
    <3> SUFFICES ASSUME NEW t \in Rows, StampedBy(t, now)
                 PROVE  Gathered(later, t) = Gathered(reader, t)
      OBVIOUS
    <3>1. StampedBy(t, now + 1)
      <4>1. \A e \in Entity : t[e] # Absent => t[e].created \in Nat
        BY DEF Rows, Row
      <4> QED
        BY <2>3, <4>1 DEF StampedBy
    <3>2. Gathered(later, t) = t /\ Gathered(reader, t) = t
      BY <2>2, <3>1, GatheredAll
    <3> QED
      BY <3>2
  <2>5. Gathered(later, rows) = Gathered(reader, rows)
    BY <2>3, <2>4 DEF Bootstrapping, Stamped
  <2>6. tx # None => \A early \in SUBSET Entity :
           Gathered(later, Mixed(early)) = Gathered(reader, Mixed(early))
    <3> SUFFICES ASSUME tx # None, NEW early \in SUBSET Entity
                 PROVE  Gathered(later, Mixed(early)) = Gathered(reader, Mixed(early))
      OBVIOUS
    <3>1. Mixed(early) \in Rows
      BY <2>3, MixedType
    <3>2. StampedBy(Mixed(early), now)
      BY DEF Bootstrapping, Stamped, StampedBy, Mixed
    <3> QED
      BY <2>4, <3>1, <3>2
  <2>7. Leads(later)
    BY <2>1, <2>2, <2>5, <2>6 DEF Bootstrapping, Leads
  <2>8. /\ UNCHANGED <<rows, ledger, nextSeq, tx>>
        /\ AllChanges' = AllChanges /\ \A early \in SUBSET Entity : Mixed(early)' = Mixed(early)
    BY <1>2 DEF Tick, dbVars, AllChanges, Mixed
  <2> QED
    BY <2>1, <2>7, <2>8 DEF Leads
<1>3. ASSUME NEW c \in Conn, Commit(c) PROVE Leads(Opened)'
  <2>1. PICK later \in Bootstrap, t \in Rows, n \in Nat :
           later = Opened' /\ t = rows' /\ n = nextSeq' - 1
    <3>1. nextSeq' - 1 \in Nat /\ now' \in Nat /\ rows' \in Rows
      <4>1. TypeOK'
        BY DEF IInv
      <4>2. nextSeq' \in Positive /\ now' \in Nat /\ rows' \in Rows
        BY <4>1 DEF TypeOK
      <4>3. PICK n \in Positive : n = nextSeq'
        BY <4>2
      <4>4. n - 1 \in Nat
        BY DEF Positive
      <4> QED
        BY <4>2, <4>3, <4>4
    <3>2. Opened' = [cursor |-> nextSeq' - 1, at |-> now', pos |-> 1, got |-> NoRows]
      BY DEF Opened, NoRows
    <3>3. [cursor |-> nextSeq' - 1, at |-> now', pos |-> 1, got |-> NoRows] \in Bootstrap
      BY <3>1, NoRowsType DEF Bootstrap, Positive
    <3> QED
      BY <3>1, <3>2, <3>3
  <2>2. later.pos = 1 /\ later.at = now' /\ later.cursor = n
    BY <2>1 DEF Opened
  <2>3. Gathered(later, t) = t
    BY <2>1, <2>2, GatheredAll DEF Stamped, StampedBy
  <2>4. Replay(ledger', t, n, n) = t
    BY ReplayNothing
  <2>5. tx' = None
    BY <1>3 DEF Commit
  <2> QED
    BY <2>1, <2>2, <2>3, <2>4, <2>5 DEF Leads
<1>4. \/ Tick \/ (\E c \in Conn : Commit(c)) \/ UNCHANGED <<nextSeq, now>>
  BY DEF Next, SyncStep, Acquire, AnswerFromReceipt, AnswerFromWatermark, ApplyNext,
         RejectNext, Begin, Refuse, SequenceMismatch, Crash, Answer,
         RevokeDevice, DeleteAccount, OpenBootstrap, NextPage, CloseBootstrap,
         CleanupReceipts, SelectPrune, StartFloor, CommitPrune, dbVars, vars
<1> QED
  BY <1>1, <1>2, <1>3, <1>4

LEMMA BootstrapStep ==
    ASSUME IInv, IInv', Bootstrapping, [Next]_vars
    PROVE  Bootstrapping'
<1>1. Stamped'
  BY StampedStep DEF Bootstrapping
<1>2. Leads(Opened)'
  BY <1>1, LeadsOpened
<1>3. ASSUME NEW b \in Reader, reading'[b] # None PROVE Leads(reading[b])'
  <2>1. reading \in [Reader -> Bootstrap \cup {None}]
    BY DEF IInv, TypeOK
  <2>2. CASE reading'[b] = reading[b]
    <3>1. PICK reader \in Bootstrap : reader = reading[b]
      BY <1>3, <2>1, <2>2
    <3>2. Leads(reader)'
      BY <1>3, <2>2, <3>1, LeadsStep DEF Bootstrapping
    <3> QED
      BY <2>2, <3>1, <3>2 DEF Leads
  <2>3. CASE NextPage(b)
    BY <2>3, LeadsPage DEF Bootstrapping, NextPage
  <2>4. CASE OpenBootstrap(b)
    <3>1. PICK reader : reader = reading'[b]
      OBVIOUS
    <3>2. reader = Opened /\ Opened' = reader
      BY <2>1, <2>4, <3>1 DEF OpenBootstrap, Opened, NoRows, dbVars
    <3> QED
      BY <1>2, <3>1, <3>2 DEF Leads
  <2>5. reading'[b] = reading[b] \/ NextPage(b) \/ OpenBootstrap(b) \/ reading'[b] = None
    <3>1. ASSUME NEW x \in Reader, OpenBootstrap(x) \/ NextPage(x) \/ CloseBootstrap(x)
          PROVE  \/ reading'[b] = reading[b]
                 \/ NextPage(b) \/ OpenBootstrap(b) \/ reading'[b] = None
      BY <2>1, <3>1 DEF OpenBootstrap, NextPage, CloseBootstrap
    <3>2. \/ \E x \in Reader : OpenBootstrap(x) \/ NextPage(x) \/ CloseBootstrap(x)
          \/ UNCHANGED reading
      BY DEF Next, SyncStep, Tick, Acquire, AnswerFromReceipt, AnswerFromWatermark,
             ApplyNext, RejectNext, Commit, Begin, Refuse, SequenceMismatch, Crash,
             Answer, RevokeDevice, DeleteAccount, CleanupReceipts, SelectPrune,
             StartFloor, CommitPrune, dbVars, vars
    <3> QED
      BY <3>1, <3>2
  <2> QED
    BY <1>3, <2>2, <2>3, <2>4, <2>5
<1> QED
  BY <1>1, <1>2, <1>3 DEF Bootstrapping

(***************************************************************************)
(* The pages of a bootstrap, read one after the other while any number of  *)
(* devices commit, and the changes after its cursor make the rows of the   *)
(* server: what a page shows already is folded in again and changes        *)
(* nothing, what a page does not show is in those changes.                 *)
(***************************************************************************)
THEOREM BootstrapsConverge == Spec => []BootstrapConverges
<1>1. Init => Bootstrapping
  <2> SUFFICES ASSUME Init PROVE Bootstrapping
    OBVIOUS
  <2>1. nextSeq = 1 /\ rows = NoRows /\ tx = None /\ now = 0
        /\ (\A c \in Conn : request[c] = None) /\ (\A b \in Reader : reading[b] = None)
    BY DEF Init, NoRows
  <2>2. Stamped
    BY <2>1 DEF Stamped, StampedBy, NoRows
  <2>3. Opened.pos = 1 /\ Opened.at = 0 /\ Opened.cursor = 0
    BY <2>1 DEF Opened
  <2>4. Gathered(Opened, NoRows) = NoRows
    BY <2>1, <2>2, <2>3, NoRowsType, GatheredAll DEF Stamped
  <2>5. Replay(ledger, NoRows, 0, 0) = NoRows
    BY NoRowsType, ReplayNothing
  <2>6. Leads(Opened)
    BY <2>1, <2>3, <2>4, <2>5 DEF Leads
  <2> QED
    BY <2>1, <2>2, <2>6 DEF Bootstrapping
<1>2. IInv /\ IInv' /\ Bootstrapping /\ [Next]_vars => Bootstrapping'
  BY BootstrapStep
<1>3. IInv /\ Bootstrapping => BootstrapConverges
  <2> SUFFICES ASSUME IInv, Bootstrapping, NEW b \in Reader, Read(b)
               PROVE  Shown(Replay(ledger, reading[b].got, reading[b].cursor, nextSeq - 1))
                         = Shown(rows)
    BY DEF BootstrapConverges
  <2>1. reading[b] \in Bootstrap /\ reading[b].pos > Len(PageOrder)
    BY DEF Read, IInv, TypeOK
  <2>2. \A e \in Entity : e \in SeenBy(reading[b])
    <3> SUFFICES ASSUME NEW e \in Entity PROVE e \in SeenBy(reading[b])
      OBVIOUS
    <3>1. PICK i \in 1..Len(PageOrder) : PageOrder[i] = e
      BY ServerAssumption DEF ServerAssumption
    <3>2. i \in 1..(reading[b].pos - 1)
      BY <2>1, <3>1, ServerAssumption DEF ServerAssumption, Bootstrap, Positive
    <3> QED
      BY <3>1, <3>2 DEF SeenBy
  <2>3. Gathered(reading[b], rows) = [e \in Entity |-> reading[b].got[e]]
    BY <2>2 DEF Gathered
  <2>4. Gathered(reading[b], rows) = reading[b].got
    BY <2>1, <2>3 DEF Bootstrap, Rows
  <2> QED
    BY <2>4 DEF Bootstrapping, Leads, Read
<1> QED
  BY <1>1, <1>2, <1>3, Invariant, PTL DEF Spec

============================================================================
