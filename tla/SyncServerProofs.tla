-------------------------- MODULE SyncServerProofs --------------------------
(***************************************************************************)
(* Proofs about SyncServer, for any number of devices, connections,        *)
(* readers and retention jobs, any batches and any operations: first the   *)
(* numbers, their order and the refinement; then, on top of the invariant, *)
(* what becomes of tombstones, whether the receipts tell the truth,        *)
(* whether the log keeps what the cursors need, and whether an answer      *)
(* leaves something out.                                                   *)
(***************************************************************************)
EXTENDS SyncServer, FiniteSetTheorems, WellFoundedInduction, TLAPS

----------------------------------------------------------------------------
(* Lemmas about numbers. *)

\* A set of natural numbers that is not empty has a least member.
LEMMA LeastExists ==
    ASSUME NEW S, S \subseteq Nat, S # {}
    PROVE  \E x \in S : \A y \in S : x <= y
<1>1. \E R : /\ IsWellFoundedOn(R, Nat)
             /\ \A x, y \in Nat : y < x => <<y, x>> \in R
  <2>1. \A x, y \in Nat : y < x => <<y, x>> \in OpToRel(<, Nat)
    BY DEF OpToRel
  <2> QED
    BY <2>1, NatLessThanWellFounded
<1>2. PICK R : /\ IsWellFoundedOn(R, Nat)
               /\ \A x, y \in Nat : y < x => <<y, x>> \in R
  BY <1>1
<1>3. PICK x \in S : \A y \in S : ~ (<<y, x>> \in R)
  BY <1>2, WFMin
<1>4. ASSUME NEW y \in S PROVE x <= y
  <2>1. x \in Nat /\ y \in Nat
    OBVIOUS
  <2>2. ~ (y < x)
    BY <1>2, <1>3, <2>1
  <2> QED
    BY <2>1, <2>2
<1> QED
  BY <1>4

\* A set of natural numbers below a bound has a greatest member.
LEMMA GreatestExists ==
    ASSUME NEW S, S \subseteq Nat, S # {}, NEW n \in Nat, \A x \in S : x <= n
    PROVE  \E x \in S : \A y \in S : y <= x
<1> DEFINE Below == {n - x : x \in S}
<1>1. Below \subseteq Nat /\ Below # {}
  <2>1. \A x \in S : n - x \in Nat
    OBVIOUS
  <2> QED
    BY <2>1
<1>2. PICK z \in Below : \A y \in Below : z <= y
  BY <1>1, LeastExists
<1>3. PICK x \in S : z = n - x
  OBVIOUS
<1>4. ASSUME NEW y \in S PROVE y <= x
  <2>1. n - y \in Below
    OBVIOUS
  <2>2. n - x <= n - y
    BY <1>2, <1>3, <2>1
  <2> QED
    BY <2>2
<1> QED
  BY <1>4

----------------------------------------------------------------------------
(* Lemmas about rows and mutations. *)

\* Laying the columns of a patch over those of a row gives columns.
LEMMA OverlayType ==
    ASSUME NEW val \in [Column -> Value], NEW fields \in Fields
    PROVE  Overlay(val, fields) \in [Column -> Value]
BY DEF Overlay, Fields

LEMMA PatchedType ==
    ASSUME NEW row \in Row, NEW m \in Mutation
    PROVE  Patched(row, m) \in Row
<1>1. m.parent \in Entity \cup {NoParent, Keep} /\ m.val \in Fields
  BY DEF Mutation
<1>2. Overlay(row.val, m.val) \in [Column -> Value]
  BY <1>1, OverlayType DEF Row
<1>3. (IF m.parent = Keep THEN row.parent ELSE m.parent) \in Entity \cup {NoParent}
  BY <1>1 DEF Row
<1> QED
  BY <1>2, <1>3 DEF Patched, Row

LEMMA CreatedType ==
    ASSUME NEW m \in Mutation, NEW at \in Nat
    PROVE  Created(m, at) \in Row
<1> DEFINE bare == [parent |-> NoParent, val |-> [c \in Column |-> Default],
                    deleted |-> FALSE, created |-> at]
<1>1. Default \in Value
  BY DataAssumption DEF DataAssumption, Default
<1>2. bare \in Row
  BY <1>1 DEF Row
<1> QED
  BY <1>2, PatchedType DEF Created

\* An accepted mutation turns rows into rows.
LEMMA ApplyMutationType ==
    ASSUME NEW r \in Rows, NEW m \in Mutation, NEW at \in Nat, Accepts(r, m)
    PROVE  ApplyMutation(r, m, at) \in Rows
<1>1. m.entity \in Entity
  BY DEF Mutation
<1>2. CASE m.kind = "create"
  <2>1. ApplyMutation(r, m, at) = [r EXCEPT ![m.entity] = Created(m, at)]
    BY <1>2 DEF ApplyMutation
  <2> QED
    BY <2>1, CreatedType DEF Rows
<1>3. CASE m.kind # "create"
  <2>1. r[m.entity] \in Row
    BY <1>1, <1>3 DEF Accepts, PatchAllowed, DeleteAllowed, RestoreAllowed, Live, Rows
  <2>2. /\ Patched(r[m.entity], m) \in Row
        /\ Tombstoned(r[m.entity]) \in Row
        /\ Revived(r[m.entity], m) \in Row
    BY <2>1, PatchedType DEF Tombstoned, Revived, Row
  <2>3. CASE m.kind = "patch"
    BY <2>2, <2>3 DEF ApplyMutation, Rows
  <2>4. CASE m.kind = "delete"
    BY <2>2, <2>4 DEF ApplyMutation, Rows
  <2>5. CASE m.kind = "restore"
    BY <2>2, <2>5 DEF ApplyMutation, Rows
  <2> QED
    BY <1>3, <2>3, <2>4, <2>5 DEF Accepts
<1> QED
  BY <1>2, <1>3

----------------------------------------------------------------------------
(* The inductive invariant and its types. *)

\* The transaction serves a request that has no answer yet, of a device that
\* is not revoked, and holds the watermark that is still current.
Serving ==
    tx # None =>
        /\ request[tx.conn] # None /\ reply[tx.conn] = None
        /\ active /\ request[tx.conn].dev \notin revoked
        /\ tx.floor = watermark[request[tx.conn].dev]
        /\ tx.floor < tx.expected

\* Numbers are allocated upwards from what is committed.
Bounded ==
    /\ \A ch \in log : ch.serverSeq < nextSeq
    /\ tx # None =>
          /\ nextSeq <= tx.next
          /\ \A ch \in tx.changes : ch.serverSeq < tx.next

\* What the transaction has written so far lies beyond all that is committed,
\* in its device's numbers as in the account's.
Written ==
    tx # None =>
        /\ \A ch \in tx.changes :
              /\ ch.dev = request[tx.conn].dev
              /\ tx.floor < ch.seq /\ ch.seq < tx.expected
              /\ nextSeq <= ch.serverSeq
        /\ \A r \in tx.receipts :
              /\ r.dev = request[tx.conn].dev
              /\ r.seq < tx.expected
        /\ \A a, b \in tx.changes :
              /\ a.seq = b.seq => a = b
              /\ a.serverSeq = b.serverSeq => a = b
              /\ a.seq < b.seq => a.serverSeq < b.serverSeq
        /\ \A n \in nextSeq..(tx.next - 1) :
              \E ch \in tx.changes : ch.serverSeq = n

\* What is committed.
Committed ==
    /\ log \subseteq ledger
    /\ AppliedOnce /\ WatermarkCovers /\ DeviceOrder
    /\ \A ch \in ledger : ch.serverSeq < nextSeq
    /\ \A a, b \in ledger : a.serverSeq = b.serverSeq => a = b
    /\ \A n \in 1..(nextSeq - 1) : \E ch \in ledger : ch.serverSeq = n

\* The inductive invariant.
IInv == TypeOK /\ Serving /\ Bounded /\ Written /\ Committed

LEMMA NextCursorType ==
    ASSUME NEW page \in SUBSET Change, NEW cursor \in Nat, NEW n \in Nat,
           \A ch \in page : ch.serverSeq <= n
    PROVE  NextCursor(page, cursor) \in Nat
<1>1. CASE page = {}
  BY <1>1 DEF NextCursor
<1>2. CASE page # {}
  <2> DEFINE seqs == {ch.serverSeq : ch \in page}
  <2>1. seqs \subseteq Nat /\ seqs # {} /\ \A x \in seqs : x <= n
    BY <1>2 DEF Change, Positive
  <2>2. \E x \in seqs : \A y \in seqs : y <= x
    BY <2>1, GreatestExists
  <2>3. \E x \in seqs : \A ch \in page : ch.serverSeq <= x
    BY <2>2
  <2>4. (CHOOSE x \in seqs : \A ch \in page : ch.serverSeq <= x) \in seqs
    BY <2>3
  <2> QED
    BY <1>2, <2>1, <2>4 DEF NextCursor
<1> QED
  BY <1>1, <1>2

LEMMA FirstKeptType ==
    ASSUME NEW kept \in SUBSET Change, nextSeq \in Positive
    PROVE  FirstKept(kept) \in Positive
<1>1. CASE kept = {}
  BY <1>1 DEF FirstKept
<1>2. CASE kept # {}
  <2> DEFINE seqs == {ch.serverSeq : ch \in kept}
  <2>1. seqs \subseteq Positive /\ seqs \subseteq Nat /\ seqs # {}
    BY <1>2 DEF Change, Positive
  <2>2. \E x \in seqs : \A y \in seqs : x <= y
    BY <2>1, LeastExists
  <2>3. \E x \in seqs : \A ch \in kept : x <= ch.serverSeq
    BY <2>2
  <2>4. (CHOOSE x \in seqs : \A ch \in kept : x <= ch.serverSeq) \in seqs
    BY <2>3
  <2> QED
    BY <1>2, <2>1, <2>4 DEF FirstKept
<1> QED
  BY <1>1, <1>2

\* The operation at hand is one of the batch, and its content a mutation.
LEMMA HeadType ==
    ASSUME TypeOK, NEW c \in Conn, Working(c)
    PROVE  /\ tx \in Transaction
           /\ Head(tx.todo) \in Item /\ Tail(tx.todo) \in Seq(Item)
           /\ Content[Head(tx.todo).op] \in Mutation
<1>1. tx \in Transaction /\ tx.todo \in Seq(Item) /\ tx.todo # <<>>
  BY DEF TypeOK, Working, Holds, Transaction
<1>2. Head(tx.todo) \in Item /\ Tail(tx.todo) \in Seq(Item)
  BY <1>1
<1>3. Head(tx.todo).op \in OpId
  BY <1>2 DEF Item
<1> QED
  BY <1>1, <1>2, <1>3, DataAssumption DEF DataAssumption

\* Answering an operation keeps the transaction well typed.
LEMMA AnsweredType ==
    ASSUME TypeOK, NEW c \in Conn, Working(c),
           NEW status \in {"applied", "rejected", "already_processed"}
    PROVE  /\ Answered(Head(tx.todo), status) \in Transaction
           /\ Answered(Head(tx.todo), status) =
                [tx EXCEPT !.todo = Tail(tx.todo),
                           !.acks = Append(tx.acks,
                               [op |-> Head(tx.todo).op, status |-> status])]
<1>1. tx \in Transaction /\ Head(tx.todo) \in Item /\ Tail(tx.todo) \in Seq(Item)
  BY HeadType
<1>2. [op |-> Head(tx.todo).op, status |-> status] \in Ack
  BY <1>1 DEF Item, Ack
<1>3. Append(tx.acks, [op |-> Head(tx.todo).op, status |-> status]) \in Seq(Ack)
  BY <1>1, <1>2 DEF Transaction
<1> QED
  BY <1>1, <1>3 DEF Answered, Transaction

LEMMA AppliedType ==
    ASSUME TypeOK, NEW c \in Conn, Working(c), request[c] # None,
           Accepts(tx.rows, Content[Head(tx.todo).op])
    PROVE  Applied(c, Head(tx.todo)) \in Transaction
<1> DEFINE item == Head(tx.todo)
           dev == request[c].dev
           at == request[c].at
           old == Answered(item, "applied")
           change == [serverSeq |-> tx.next, op |-> item.op, dev |-> dev,
                      seq |-> item.seq, at |-> at]
           receipt == [op |-> item.op, dev |-> dev, seq |-> item.seq,
                       serverSeq |-> tx.next, status |-> "applied", at |-> at]
<1>1. tx \in Transaction /\ item \in Item /\ Content[item.op] \in Mutation
  BY HeadType
<1>2. old \in Transaction
      /\ old.rows = tx.rows
  BY <1>1, AnsweredType DEF Transaction
<1>3. dev \in Device /\ at \in Nat
  BY DEF TypeOK, Request
<1>4. ApplyMutation(old.rows, Content[item.op], at) \in Rows
  BY <1>1, <1>2, <1>3, ApplyMutationType DEF Transaction
<1>5. change \in Change /\ receipt \in Receipt
  BY <1>1, <1>3 DEF Transaction, Item, Change, Receipt, Positive
<1>6. old.expected + 1 \in Positive /\ old.next + 1 \in Positive
  BY <1>2 DEF Transaction, Positive
<1>7. old.changes \cup {change} \in SUBSET Change
      /\ old.receipts \cup {receipt} \in SUBSET Receipt
  BY <1>2, <1>5 DEF Transaction
<1>8. Applied(c, item) =
        [old EXCEPT !.expected = old.expected + 1, !.next = old.next + 1,
                    !.rows = ApplyMutation(old.rows, Content[item.op], at),
                    !.changes = old.changes \cup {change},
                    !.receipts = old.receipts \cup {receipt}]
  BY DEF Applied
<1> HIDE DEF item, dev, at, old, change, receipt
<1>9. Applied(c, item) \in Transaction
  BY <1>2, <1>4, <1>6, <1>7, <1>8 DEF Transaction
<1> QED
  BY <1>9 DEF item

LEMMA RejectedType ==
    ASSUME TypeOK, NEW c \in Conn, Working(c), request[c] # None
    PROVE  Rejected(c, Head(tx.todo)) \in Transaction
<1> DEFINE item == Head(tx.todo)
           old == Answered(item, "rejected")
           receipt == [op |-> item.op, dev |-> request[c].dev, seq |-> item.seq,
                       serverSeq |-> 0, status |-> "rejected", at |-> request[c].at]
<1>1. item \in Item /\ old \in Transaction
  BY HeadType, AnsweredType
<1>2. receipt \in Receipt
  BY <1>1 DEF TypeOK, Request, Item, Receipt
<1>3. old.expected + 1 \in Positive /\ old.receipts \cup {receipt} \in SUBSET Receipt
  BY <1>1, <1>2 DEF Transaction, Positive
<1>4. Rejected(c, item) = [old EXCEPT !.expected = old.expected + 1,
                                      !.receipts = old.receipts \cup {receipt}]
  BY DEF Rejected
<1> HIDE DEF item, old, receipt
<1>5. Rejected(c, item) \in Transaction
  BY <1>1, <1>3, <1>4 DEF Transaction
<1> QED
  BY <1>5 DEF item

\* Every step keeps the types.
LEMMA TypeStep ==
    ASSUME TypeOK, Bounded, Serving, [Next]_vars
    PROVE  TypeOK'
<1>1. CASE Tick
  BY <1>1 DEF Tick, TypeOK, dbVars
<1>2. ASSUME NEW c \in Conn, NEW d \in Device, Begin(c, d) PROVE TypeOK'
  <2>1. PICK batch \in Batches, cursor \in Cursor :
           request' = [request EXCEPT ![c] =
              [dev |-> d, cursor |-> cursor, batch |-> batch, at |-> now]]
    BY <1>2 DEF Begin
  <2>2. [dev |-> d, cursor |-> cursor, batch |-> batch, at |-> now] \in Request
    BY ServerAssumption DEF ServerAssumption, TypeOK, Request
  <2> QED
    BY <1>2, <2>1, <2>2 DEF Begin, TypeOK, dbVars
<1>3. ASSUME NEW c \in Conn, Acquire(c) PROVE TypeOK'
  <2>1. request[c] \in Request
    BY <1>3 DEF Acquire, Waiting, TypeOK
  <2>2. LastSeq(request[c].dev) \in Nat
    BY <2>1 DEF TypeOK, LastSeq, Request
  <2>3. tx' \in Transaction
    BY <1>3, <2>1, <2>2 DEF Acquire, TypeOK, Request, Transaction, Positive
  <2> QED
    BY <1>3, <2>3 DEF Acquire, TypeOK, dbVars
<1>4. ASSUME NEW c \in Conn, Refuse(c) PROVE TypeOK'
  BY <1>4 DEF Refuse, TypeOK, dbVars
<1>5. ASSUME NEW c \in Conn, AnswerFromReceipt(c) PROVE TypeOK'
  <2>1. Working(c) /\ tx \in Transaction
    BY <1>5, HeadType DEF AnswerFromReceipt
  <2>2. PICK r \in ReceiptsOf(Head(tx.todo)) : tx' = Answered(Head(tx.todo), r.status)
    BY <1>5 DEF AnswerFromReceipt
  <2>3. r.status \in {"applied", "rejected", "already_processed"}
    BY <2>1 DEF ReceiptsOf, Transaction, Receipt
  <2>4. tx' \in Transaction
    BY <2>1, <2>2, <2>3, AnsweredType
  <2> QED
    BY <1>5, <2>4 DEF AnswerFromReceipt, TypeOK, dbVars
<1>6. ASSUME NEW c \in Conn, AnswerFromWatermark(c) PROVE TypeOK'
  <2>1. tx' \in Transaction
    BY <1>6, AnsweredType DEF AnswerFromWatermark
  <2> QED
    BY <1>6, <2>1 DEF AnswerFromWatermark, TypeOK, dbVars
<1>7. ASSUME NEW c \in Conn, ApplyNext(c) PROVE TypeOK'
  <2>1. Working(c) /\ request[c] # None
    BY <1>7 DEF ApplyNext, Working, Holds, Serving
  <2>2. tx' \in Transaction
    BY <1>7, <2>1, AppliedType DEF ApplyNext
  <2> QED
    BY <1>7, <2>2 DEF ApplyNext, TypeOK, dbVars
<1>8. ASSUME NEW c \in Conn, RejectNext(c) PROVE TypeOK'
  <2>1. Working(c) /\ request[c] # None
    BY <1>8 DEF RejectNext, Working, Holds, Serving
  <2>2. tx' \in Transaction
    BY <1>8, <2>1, RejectedType DEF RejectNext
  <2> QED
    BY <1>8, <2>2 DEF RejectNext, TypeOK, dbVars
<1>9. ASSUME NEW c \in Conn, SequenceMismatch(c) \/ Crash(c) PROVE TypeOK'
  BY <1>9 DEF SequenceMismatch, Crash, TypeOK, dbVars
<1>10. ASSUME NEW c \in Conn, Commit(c) PROVE TypeOK'
  <2> DEFINE visible == log \cup tx.changes
             cursor == request[c].cursor
             page == Page(visible, cursor)
             more == \E ch \in visible : ch.serverSeq > cursor /\ ch \notin page
             answer == [dev |-> request[c].dev, cursor |-> cursor,
                        acks |-> tx.acks, changes |-> page,
                        next |-> NextCursor(page, cursor), more |-> more]
  <2>1. tx \in Transaction /\ request[c] \in Request
    BY <1>10 DEF Commit, Holds, Serving, TypeOK
  <2>2. visible \in SUBSET Change /\ page \in SUBSET visible
    BY <2>1 DEF TypeOK, Transaction, Page
  <2>3. \A ch \in visible : ch.serverSeq <= tx.next
    <3>1. tx # None /\ nextSeq \in Nat /\ tx.next \in Nat
      BY <1>10, <2>1 DEF Commit, Holds, TypeOK, Transaction, Positive
    <3>2. \A ch \in visible : ch.serverSeq \in Nat
      BY <2>2 DEF Change, Positive
    <3> QED
      BY <3>1, <3>2 DEF Bounded
  <2>4. NextCursor(page, cursor) \in Nat
    BY <2>1, <2>2, <2>3, NextCursorType DEF Request, Transaction, Positive
  <2>5. more \in BOOLEAN
    OBVIOUS
  <2>6. reply' = [reply EXCEPT ![c] = answer]
    BY <1>10 DEF Commit
  <2> HIDE DEF page, more
  <2>7. answer \in Reply
    BY <2>1, <2>2, <2>4, <2>5 DEF Reply, Request, Transaction
  <2> HIDE DEF answer
  <2>8. reply' \in [Conn -> Reply \cup {None}]
    BY <2>6, <2>7 DEF TypeOK
  <2>9. WatermarkAfter(c) \in Nat
    BY <2>1 DEF WatermarkAfter, TypeOK, Transaction, Request, Positive
  <2>10. watermark' \in [Device -> Nat]
    BY <1>10, <2>9 DEF Commit, TypeOK
  <2>11. /\ rows' \in Rows /\ nextSeq' \in Positive
         /\ log' \subseteq Change /\ ledger' \subseteq Change
         /\ receipts' \subseteq Receipt
    BY <1>10, <2>1 DEF Commit, TypeOK, Transaction
  <2> QED
    BY <1>10, <2>8, <2>10, <2>11 DEF Commit, TypeOK
<1>11. ASSUME NEW c \in Conn, Answer(c) PROVE TypeOK'
  BY <1>11 DEF Answer, TypeOK, dbVars
<1>12. ASSUME NEW d \in Device, RevokeDevice(d) PROVE TypeOK'
  BY <1>12 DEF RevokeDevice, TypeOK, dbVars
<1>13. CASE DeleteAccount
  BY <1>13 DEF DeleteAccount, TypeOK, dbVars
<1>14. ASSUME NEW b \in Reader, OpenBootstrap(b) PROVE TypeOK'
  <2>1. [cursor |-> nextSeq - 1, at |-> now, pos |-> 1,
         got |-> [e \in Entity |-> Absent]] \in Bootstrap
    BY DEF TypeOK, Bootstrap, Rows, Positive
  <2> QED
    BY <1>14, <2>1 DEF OpenBootstrap, TypeOK, dbVars
<1>15. ASSUME NEW b \in Reader, NextPage(b) PROVE TypeOK'
  <2>1. reading[b] \in Bootstrap /\ reading[b].pos \in 1..Len(PageOrder)
    BY <1>15, ServerAssumption
    DEF NextPage, Read, TypeOK, Bootstrap, Positive, ServerAssumption
  <2>2. PageOrder[reading[b].pos] \in Entity
    BY <2>1, ServerAssumption DEF ServerAssumption
  <2> DEFINE e == PageOrder[reading[b].pos]
             got == [reading[b].got EXCEPT ![e] = Listed(b, e)]
  <2>3. Listed(b, e) \in Row \cup {Absent}
    BY <2>2 DEF Listed, TypeOK, Rows
  <2>4. got \in Rows /\ reading[b].pos + 1 \in Positive
    <3>1. reading[b].got \in Rows /\ reading[b].pos \in Positive
      BY <2>1 DEF Bootstrap
    <3> HIDE DEF e
    <3>2. got \in Rows
      BY <2>3, <3>1 DEF Rows
    <3> QED
      BY <3>1, <3>2 DEF Positive
  <2>5. PageRead(b) = [reading[b] EXCEPT !.pos = reading[b].pos + 1, !.got = got]
    <3>1. \A q \in Bootstrap : \A w :
             [q EXCEPT !.pos = @ + 1, !.got[e] = w]
             = [q EXCEPT !.pos = q.pos + 1, !.got = [q.got EXCEPT ![e] = w]]
      BY DEF Bootstrap
    <3> QED
      BY <2>1, <3>1 DEF PageRead
  <2> HIDE DEF got
  <2>6. PageRead(b) \in Bootstrap
    BY <2>1, <2>4, <2>5 DEF Bootstrap
  <2> QED
    BY <1>15, <2>6 DEF NextPage, TypeOK, dbVars
<1>16. ASSUME NEW b \in Reader, CloseBootstrap(b) PROVE TypeOK'
  BY <1>16 DEF CloseBootstrap, TypeOK, dbVars
<1>17. CASE CleanupReceipts
  BY <1>17 DEF CleanupReceipts, TypeOK
<1>18. ASSUME NEW j \in Job, SelectPrune(j) PROVE TypeOK'
  <2>1. PICK batch \in SUBSET log :
           pruning' = [pruning EXCEPT ![j] = [batch |-> batch, seen |-> None]]
    BY <1>18 DEF SelectPrune
  <2>2. [batch |-> batch, seen |-> None] \in Prune
    BY DEF TypeOK, Prune
  <2> QED
    BY <1>18, <2>1, <2>2 DEF SelectPrune, TypeOK, dbVars
<1>19. ASSUME NEW j \in Job, StartFloor(j) PROVE TypeOK'
  <2>1. pruning[j] \in Prune
    BY <1>19 DEF StartFloor, TypeOK
  <2>2. pruning' = [pruning EXCEPT ![j] =
                      [pruning[j] EXCEPT !.seen = log \ pruning[j].batch]]
    BY <1>19 DEF StartFloor
  <2>3. [pruning[j] EXCEPT !.seen = log \ pruning[j].batch] \in Prune
    BY <2>1 DEF TypeOK, Prune
  <2> QED
    BY <1>19, <2>2, <2>3 DEF StartFloor, TypeOK, dbVars
<1>20. ASSUME NEW j \in Job, CommitPrune(j) PROVE TypeOK'
  <2>1. pruning[j].seen \in SUBSET Change
    BY <1>20 DEF CommitPrune, TypeOK, Prune
  <2>2. FirstKept(pruning[j].seen) \in Positive
    BY <2>1, FirstKeptType DEF TypeOK
  <2> QED
    BY <1>20, <2>2 DEF CommitPrune, TypeOK
<1>21. CASE UNCHANGED vars
  BY <1>21 DEF vars, TypeOK
<1> QED
  BY <1>1, <1>2, <1>3, <1>4, <1>5, <1>6, <1>7, <1>8, <1>9, <1>10, <1>11, <1>12,
     <1>13, <1>14, <1>15, <1>16, <1>17, <1>18, <1>19, <1>20, <1>21
  DEF Next, SyncStep

----------------------------------------------------------------------------
(* Every step keeps the invariant. *)

\* A step that neither writes for the account nor disturbs the transaction.
Quiet ==
    /\ tx' = tx /\ nextSeq' = nextSeq
    /\ watermark' = watermark /\ ledger' = ledger
    /\ log' \subseteq log /\ receipts' \subseteq receipts
    /\ tx # None => /\ active' = active /\ revoked' = revoked
                    /\ request'[tx.conn] = request[tx.conn]
                    /\ reply'[tx.conn] = reply[tx.conn]

LEMMA QuietStep ==
    ASSUME IInv, Quiet
    PROVE  Serving' /\ Bounded' /\ Written' /\ Committed'
<1>1. Serving'
  BY DEF IInv, Quiet, Serving
<1>2. Bounded'
  BY DEF IInv, Quiet, Bounded
<1>3. Written'
  BY DEF IInv, Quiet, Written
<1>4. Committed'
  BY DEF IInv, Quiet, Committed, AppliedOnce, WatermarkCovers, DeviceOrder
<1> QED
  BY <1>1, <1>2, <1>3, <1>4

LEMMA QuietActions ==
    ASSUME IInv,
           \/ Tick
           \/ \E c \in Conn : \/ \E d \in Device : Begin(c, d)
                              \/ Refuse(c) \/ Answer(c)
           \/ \E d \in Device : RevokeDevice(d)
           \/ DeleteAccount
           \/ \E b \in Reader : OpenBootstrap(b) \/ NextPage(b) \/ CloseBootstrap(b)
           \/ CleanupReceipts
           \/ \E j \in Job : SelectPrune(j) \/ StartFloor(j) \/ CommitPrune(j)
           \/ UNCHANGED vars
    PROVE  Quiet
<1>1. ASSUME NEW c \in Conn, NEW d \in Device, Begin(c, d) PROVE Quiet
  <2>1. tx # None => tx.conn # c
    BY <1>1 DEF Begin, IInv, Serving
  <2>2. \A k : k # c => request'[k] = request[k]
    BY <1>1 DEF Begin, IInv, TypeOK
  <2> QED
    BY <1>1, <2>1, <2>2 DEF Begin, Quiet, dbVars
<1>2. ASSUME NEW c \in Conn, Answer(c) PROVE Quiet
  <2>1. tx # None => tx.conn # c
    BY <1>2 DEF Answer, IInv, Serving
  <2>2. \A k : k # c => request'[k] = request[k] /\ reply'[k] = reply[k]
    BY <1>2 DEF Answer, IInv, TypeOK
  <2> QED
    BY <1>2, <2>1, <2>2 DEF Answer, Quiet, dbVars
<1>3. ASSUME NEW c \in Conn, Refuse(c) PROVE Quiet
  BY <1>3 DEF Refuse, Waiting, Quiet, dbVars
<1>4. ASSUME NEW d \in Device, RevokeDevice(d) PROVE Quiet
  BY <1>4 DEF RevokeDevice, Quiet, dbVars
<1>5. ASSUME NEW b \in Reader, OpenBootstrap(b) \/ NextPage(b) \/ CloseBootstrap(b)
      PROVE Quiet
  BY <1>5 DEF OpenBootstrap, NextPage, CloseBootstrap, Quiet, dbVars
<1>6. CASE CleanupReceipts
  BY <1>6 DEF CleanupReceipts, Quiet
<1>7. ASSUME NEW j \in Job, SelectPrune(j) \/ StartFloor(j) \/ CommitPrune(j)
      PROVE Quiet
  BY <1>7 DEF SelectPrune, StartFloor, CommitPrune, Quiet, dbVars
<1>8. CASE Tick \/ DeleteAccount \/ UNCHANGED vars
  BY <1>8 DEF Tick, DeleteAccount, vars, Quiet, dbVars
<1> QED
  BY <1>1, <1>2, <1>3, <1>4, <1>5, <1>6, <1>7, <1>8

\* A transaction that ends without a commit leaves no trace.
LEMMA RollbackStep ==
    ASSUME IInv, NEW c \in Conn, SequenceMismatch(c) \/ Crash(c)
    PROVE  Serving' /\ Bounded' /\ Written' /\ Committed'
<1>1. tx' = None /\ UNCHANGED <<log, ledger, receipts, watermark, nextSeq>>
  BY DEF SequenceMismatch, Crash, dbVars
<1> QED
  BY <1>1 DEF IInv, Serving, Bounded, Written, Committed, AppliedOnce,
              WatermarkCovers, DeviceOrder

LEMMA AcquireStep ==
    ASSUME IInv, NEW c \in Conn, Acquire(c)
    PROVE  Serving' /\ Bounded' /\ Written' /\ Committed'
<1>1. /\ tx'.conn = c /\ tx'.floor = watermark[request[c].dev]
      /\ tx'.expected = tx'.floor + 1 /\ tx'.next = nextSeq
      /\ tx'.changes = {} /\ tx'.receipts = {}
  BY DEF Acquire, LastSeq
<1>2. UNCHANGED <<active, dbVars, revoked, request, reply>>
  BY DEF Acquire
<1>3. request[c] # None /\ reply[c] = None /\ active /\ request[c].dev \notin revoked
  BY DEF Acquire, Waiting, Admitted
<1>4. nextSeq \in Nat /\ watermark[request[c].dev] \in Nat
  BY <1>3 DEF IInv, TypeOK, Request, Positive
<1>5. Serving'
  BY <1>1, <1>2, <1>3, <1>4 DEF Serving, dbVars
<1>6. Bounded'
  BY <1>1, <1>2, <1>4 DEF IInv, Bounded, dbVars
<1>7. Written'
  BY <1>1, <1>2, <1>4 DEF Written, dbVars
<1>8. Committed'
  BY <1>2 DEF IInv, Committed, AppliedOnce, WatermarkCovers, DeviceOrder, dbVars
<1> QED
  BY <1>5, <1>6, <1>7, <1>8

\* What an operation that is only answered changes: nothing that counts.
LEMMA AnswerStep ==
    ASSUME IInv, NEW c \in Conn, AnswerFromReceipt(c) \/ AnswerFromWatermark(c)
    PROVE  Serving' /\ Bounded' /\ Written' /\ Committed'
<1>1. Working(c) /\ tx \in Transaction /\ tx # None
  BY HeadType DEF AnswerFromReceipt, AnswerFromWatermark, IInv, Working, Holds
<1>2. PICK status : tx' = Answered(Head(tx.todo), status)
  BY DEF AnswerFromReceipt, AnswerFromWatermark
<1>3. /\ tx'.conn = tx.conn /\ tx'.floor = tx.floor /\ tx'.expected = tx.expected
      /\ tx'.next = tx.next /\ tx'.changes = tx.changes
      /\ tx'.receipts = tx.receipts
  BY <1>1, <1>2 DEF Answered, Transaction
<1>4. UNCHANGED <<active, dbVars, revoked, request, reply>>
  BY DEF AnswerFromReceipt, AnswerFromWatermark
<1>5. Serving'
  BY <1>1, <1>3, <1>4 DEF IInv, Serving, dbVars
<1>6. Bounded'
  BY <1>1, <1>3, <1>4 DEF IInv, Bounded, dbVars
<1>7. Written'
  BY <1>1, <1>3, <1>4 DEF IInv, Written, dbVars
<1>8. Committed'
  BY <1>4 DEF IInv, Committed, AppliedOnce, WatermarkCovers, DeviceOrder, dbVars
<1> QED
  BY <1>5, <1>6, <1>7, <1>8

\* An operation that is decided gets the next number of its device; one that
\* is applied also gets the next number of the account.
LEMMA ApplyStep ==
    ASSUME IInv, NEW c \in Conn, ApplyNext(c)
    PROVE  Serving' /\ Bounded' /\ Written' /\ Committed'
<1> DEFINE item == Head(tx.todo)
           change == [serverSeq |-> tx.next, op |-> item.op,
                      dev |-> request[c].dev, seq |-> item.seq,
                      at |-> request[c].at]
           receipt == [op |-> item.op, dev |-> request[c].dev, seq |-> item.seq,
                       serverSeq |-> tx.next, status |-> "applied",
                       at |-> request[c].at]
<1>1. Working(c) /\ tx \in Transaction /\ tx # None /\ tx.conn = c
  BY HeadType DEF ApplyNext, IInv, Working, Holds
<1>2. Answered(item, "applied") \in Transaction
  BY <1>1, AnsweredType DEF IInv
<1>3. /\ tx'.conn = c /\ tx'.floor = tx.floor
      /\ tx'.expected = tx.expected + 1 /\ tx'.next = tx.next + 1
      /\ tx'.changes = tx.changes \cup {change}
      /\ tx'.receipts = tx.receipts \cup {receipt}
  BY <1>1, <1>2 DEF ApplyNext, Applied, Answered, Transaction
<1>4. UNCHANGED <<active, dbVars, revoked, request, reply>>
  BY DEF ApplyNext
<1>5. item.seq = tx.expected /\ item.seq > tx.floor
  BY DEF ApplyNext, IsNext
<1>6. /\ tx.expected \in Nat /\ tx.floor \in Nat /\ tx.next \in Nat /\ nextSeq \in Nat
      /\ \A ch \in tx.changes : ch.seq \in Nat /\ ch.serverSeq \in Nat
      /\ \A r \in tx.receipts : r.seq \in Nat
  BY <1>1 DEF IInv, TypeOK, Transaction, Positive, Change, Receipt
<1>7. /\ change.dev = request[c].dev /\ change.seq = tx.expected
      /\ change.serverSeq = tx.next
      /\ receipt.dev = request[c].dev /\ receipt.seq = tx.expected
  BY <1>5
<1> HIDE DEF change, receipt
<1>8. Serving'
  BY <1>1, <1>3, <1>4, <1>6 DEF IInv, Serving, dbVars
<1>9. Bounded'
  BY <1>1, <1>3, <1>4, <1>6, <1>7 DEF IInv, Bounded, dbVars
<1>10. Written'
  <2>1. \A ch \in tx'.changes : /\ ch.dev = request[c].dev
                                /\ tx.floor < ch.seq /\ ch.seq < tx.expected + 1
                                /\ nextSeq <= ch.serverSeq
    BY <1>1, <1>3, <1>6, <1>7 DEF IInv, Written, Bounded, Serving
  <2>2. \A r \in tx'.receipts : r.dev = request[c].dev /\ r.seq < tx.expected + 1
    BY <1>1, <1>3, <1>6, <1>7 DEF IInv, Written
  <2>3. \A a \in tx.changes : a.seq < change.seq /\ a.serverSeq < change.serverSeq
    BY <1>1, <1>7 DEF IInv, Written, Bounded
  <2>4. \A a, b \in tx'.changes : /\ a.seq = b.seq => a = b
                                  /\ a.serverSeq = b.serverSeq => a = b
                                  /\ a.seq < b.seq => a.serverSeq < b.serverSeq
    <3> SUFFICES ASSUME NEW a \in tx'.changes, NEW b \in tx'.changes
                 PROVE  /\ a.seq = b.seq => a = b
                        /\ a.serverSeq = b.serverSeq => a = b
                        /\ a.seq < b.seq => a.serverSeq < b.serverSeq
      OBVIOUS
    <3>1. CASE a \in tx.changes /\ b \in tx.changes
      BY <1>1, <3>1 DEF IInv, Written
    <3>2. CASE a = change /\ b = change
      BY <1>6, <1>7, <3>2
    <3>3. CASE a = change /\ b \in tx.changes
      BY <1>6, <1>7, <2>3, <3>3
    <3>4. CASE a \in tx.changes /\ b = change
      BY <1>6, <1>7, <2>3, <3>4
    <3> QED
      BY <1>3, <3>1, <3>2, <3>3, <3>4
  <2>5. \A n \in nextSeq..tx.next : \E ch \in tx'.changes : ch.serverSeq = n
    BY <1>1, <1>3, <1>6, <1>7 DEF IInv, Written
  <2> QED
    BY <1>3, <1>4, <1>6, <2>1, <2>2, <2>4, <2>5 DEF Written, dbVars
<1>11. Committed'
  BY <1>4 DEF IInv, Committed, AppliedOnce, WatermarkCovers, DeviceOrder, dbVars
<1> QED
  BY <1>8, <1>9, <1>10, <1>11

LEMMA RejectStep ==
    ASSUME IInv, NEW c \in Conn, RejectNext(c)
    PROVE  Serving' /\ Bounded' /\ Written' /\ Committed'
<1> DEFINE item == Head(tx.todo)
           receipt == [op |-> item.op, dev |-> request[c].dev, seq |-> item.seq,
                       serverSeq |-> 0, status |-> "rejected",
                       at |-> request[c].at]
<1>1. Working(c) /\ tx \in Transaction /\ tx # None /\ tx.conn = c
  BY HeadType DEF RejectNext, IInv, Working, Holds
<1>2. Answered(item, "rejected") \in Transaction
  BY <1>1, AnsweredType DEF IInv
<1>3. /\ tx'.conn = c /\ tx'.floor = tx.floor
      /\ tx'.expected = tx.expected + 1 /\ tx'.next = tx.next
      /\ tx'.changes = tx.changes
      /\ tx'.receipts = tx.receipts \cup {receipt}
  BY <1>1, <1>2 DEF RejectNext, Rejected, Answered, Transaction
<1>4. UNCHANGED <<active, dbVars, revoked, request, reply>>
  BY DEF RejectNext
<1>5. item.seq = tx.expected
  BY DEF RejectNext, IsNext
<1>6. /\ tx.expected \in Nat /\ tx.floor \in Nat
      /\ \A ch \in tx.changes : ch.seq \in Nat
      /\ \A r \in tx.receipts : r.seq \in Nat
  BY <1>1 DEF Transaction, Positive, Change, Receipt
<1>7. receipt.dev = request[c].dev /\ receipt.seq = tx.expected
  BY <1>5
<1> HIDE DEF receipt
<1>8. Serving'
  BY <1>1, <1>3, <1>4, <1>6 DEF IInv, Serving, dbVars
<1>9. Bounded'
  BY <1>1, <1>3, <1>4 DEF IInv, Bounded, dbVars
<1>10. Written'
  BY <1>1, <1>3, <1>4, <1>6, <1>7 DEF IInv, Written, dbVars
<1>11. Committed'
  BY <1>4 DEF IInv, Committed, AppliedOnce, WatermarkCovers, DeviceOrder, dbVars
<1> QED
  BY <1>8, <1>9, <1>10, <1>11

\* The commit: what was written joins what is committed, and the watermark
\* moves over it.
LEMMA CommitStep ==
    ASSUME IInv, NEW c \in Conn, Commit(c)
    PROVE  Serving' /\ Bounded' /\ Written' /\ Committed'
<1> DEFINE d == request[c].dev
<1>1. tx \in Transaction /\ tx # None /\ tx.conn = c /\ d \in Device
  BY DEF Commit, Holds, IInv, TypeOK, Serving, Request
<1>2. /\ tx' = None /\ nextSeq' = tx.next
      /\ log' = log \cup tx.changes /\ ledger' = ledger \cup tx.changes
      /\ receipts' = receipts \cup tx.receipts
      /\ watermark' = [watermark EXCEPT ![d] = WatermarkAfter(c)]
  BY DEF Commit
<1>3. /\ tx.expected \in Nat /\ tx.floor \in Nat /\ tx.next \in Nat /\ nextSeq \in Nat
      /\ \A ch \in ledger \cup tx.changes :
            ch.seq \in Nat /\ ch.serverSeq \in Nat /\ ch.serverSeq >= 1 /\ ch.dev \in Device
      /\ \A r \in receipts \cup tx.receipts : r.seq \in Nat /\ r.dev \in Device
      /\ watermark \in [Device -> Nat]
  BY <1>1 DEF IInv, TypeOK, Transaction, Positive, Change, Receipt
<1>4. tx.floor = watermark[d] /\ tx.floor < tx.expected
  BY <1>1 DEF IInv, Serving
<1>5. WatermarkAfter(c) = tx.expected - 1
  BY <1>3, <1>4 DEF WatermarkAfter
<1>6. /\ watermark'[d] = tx.expected - 1 /\ watermark[d] <= watermark'[d]
      /\ \A e \in Device : /\ watermark[e] <= watermark'[e]
                           /\ watermark[e] \in Nat /\ watermark'[e] \in Nat
  BY <1>1, <1>2, <1>3, <1>4, <1>5
<1> HIDE DEF d
<1>7. /\ \A ch \in tx.changes :
            /\ ch.dev = d /\ watermark[d] < ch.seq /\ ch.seq < tx.expected
            /\ nextSeq <= ch.serverSeq /\ ch.serverSeq < tx.next
      /\ nextSeq <= tx.next
      /\ \A r \in tx.receipts : r.dev = d /\ r.seq < tx.expected
      /\ \A a, b \in tx.changes : /\ a.seq = b.seq => a = b
                                  /\ a.serverSeq = b.serverSeq => a = b
                                  /\ a.seq < b.seq => a.serverSeq < b.serverSeq
      /\ \A n \in nextSeq..(tx.next - 1) : \E ch \in tx.changes : ch.serverSeq = n
  BY <1>1, <1>4 DEF IInv, Written, Bounded, d
<1>8. /\ \A ch \in ledger : ch.seq <= watermark[ch.dev] /\ ch.serverSeq < nextSeq
      /\ \A r \in receipts : r.seq <= watermark[r.dev]
      /\ \A a, b \in ledger :
            /\ a.dev = b.dev /\ a.seq = b.seq => a = b
            /\ a.serverSeq = b.serverSeq => a = b
            /\ a.dev = b.dev /\ a.seq < b.seq => a.serverSeq < b.serverSeq
      /\ \A n \in 1..(nextSeq - 1) : \E ch \in ledger : ch.serverSeq = n
  BY DEF IInv, Committed, AppliedOnce, WatermarkCovers, DeviceOrder
<1>9. \A ch \in ledger' : ch.seq <= watermark'[ch.dev] /\ ch.serverSeq < nextSeq'
  <2>1. ASSUME NEW ch \in ledger
        PROVE  ch.seq <= watermark'[ch.dev] /\ ch.serverSeq < nextSeq'
    BY <1>2, <1>3, <1>6, <1>7, <1>8
  <2>2. ASSUME NEW ch \in tx.changes
        PROVE  ch.seq <= watermark'[ch.dev] /\ ch.serverSeq < nextSeq'
    BY <1>2, <1>3, <1>6, <1>7
  <2> QED
    BY <1>2, <2>1, <2>2
<1>10. \A r \in receipts' : r.seq <= watermark'[r.dev]
  <2>1. ASSUME NEW r \in receipts PROVE r.seq <= watermark'[r.dev]
    BY <1>3, <1>6, <1>8
  <2>2. ASSUME NEW r \in tx.receipts PROVE r.seq <= watermark'[r.dev]
    BY <1>3, <1>6, <1>7
  <2> QED
    BY <1>2, <2>1, <2>2
<1>11. ASSUME NEW a \in ledger, NEW b \in tx.changes
       PROVE  a.serverSeq < b.serverSeq /\ (a.dev = b.dev => a.seq < b.seq)
  BY <1>3, <1>7, <1>8
<1>12. \A a, b \in ledger' :
          /\ a.dev = b.dev /\ a.seq = b.seq => a = b
          /\ a.serverSeq = b.serverSeq => a = b
          /\ a.dev = b.dev /\ a.seq < b.seq => a.serverSeq < b.serverSeq
  <2> SUFFICES ASSUME NEW a \in ledger', NEW b \in ledger'
               PROVE  /\ a.dev = b.dev /\ a.seq = b.seq => a = b
                      /\ a.serverSeq = b.serverSeq => a = b
                      /\ a.dev = b.dev /\ a.seq < b.seq => a.serverSeq < b.serverSeq
    OBVIOUS
  <2>1. CASE a \in ledger /\ b \in ledger
    BY <1>8, <2>1
  <2>2. CASE a \in tx.changes /\ b \in tx.changes
    BY <1>7, <2>2
  <2>3. CASE a \in ledger /\ b \in tx.changes
    BY <1>3, <1>11, <2>3
  <2>4. CASE a \in tx.changes /\ b \in ledger
    BY <1>3, <1>11, <2>4
  <2> QED
    BY <1>2, <2>1, <2>2, <2>3, <2>4
<1>13. \A n \in 1..(nextSeq' - 1) : \E ch \in ledger' : ch.serverSeq = n
  <2> SUFFICES ASSUME NEW n \in 1..(tx.next - 1)
               PROVE  \E ch \in ledger \cup tx.changes : ch.serverSeq = n
    BY <1>2
  <2>1. CASE n < nextSeq
    BY <1>3, <1>8, <2>1
  <2>2. CASE n >= nextSeq
    BY <1>3, <1>7, <2>2
  <2> QED
    BY <1>3, <2>1, <2>2
<1>14. Committed'
  <2>1. log' \subseteq ledger'
    BY <1>2 DEF IInv, Committed
  <2> QED
    BY <1>9, <1>10, <1>12, <1>13, <2>1
    DEF Committed, AppliedOnce, WatermarkCovers, DeviceOrder
<1>15. Bounded'
  <2>1. \A ch \in log' : ch.serverSeq < nextSeq'
    BY <1>9, <1>14 DEF Committed
  <2> QED
    BY <1>2, <2>1 DEF Bounded
<1> QED
  BY <1>2, <1>14, <1>15 DEF Serving, Written

THEOREM InvariantInit == Init => IInv
<1> SUFFICES ASSUME Init PROVE IInv
  OBVIOUS
<1>1. TypeOK
  BY DEF Init, TypeOK, Rows, Positive
<1>2. Serving /\ Bounded /\ Written
  BY DEF Init, Serving, Bounded, Written
<1>3. Committed
  BY DEF Init, Committed, AppliedOnce, WatermarkCovers, DeviceOrder
<1> QED
  BY <1>1, <1>2, <1>3 DEF IInv

THEOREM InvariantStep == IInv /\ [Next]_vars => IInv'
<1> SUFFICES ASSUME IInv, [Next]_vars PROVE IInv'
  OBVIOUS
<1>1. TypeOK'
  BY TypeStep DEF IInv
<1>2. CASE \/ Tick
           \/ \E c \in Conn : \/ \E d \in Device : Begin(c, d)
                              \/ Refuse(c) \/ Answer(c)
           \/ \E d \in Device : RevokeDevice(d)
           \/ DeleteAccount
           \/ \E b \in Reader : OpenBootstrap(b) \/ NextPage(b) \/ CloseBootstrap(b)
           \/ CleanupReceipts
           \/ \E j \in Job : SelectPrune(j) \/ StartFloor(j) \/ CommitPrune(j)
           \/ UNCHANGED vars
  BY <1>1, <1>2, QuietActions, QuietStep DEF IInv
<1>3. ASSUME NEW c \in Conn, Acquire(c) PROVE IInv'
  BY <1>1, <1>3, AcquireStep DEF IInv
<1>4. ASSUME NEW c \in Conn, AnswerFromReceipt(c) \/ AnswerFromWatermark(c) PROVE IInv'
  BY <1>1, <1>4, AnswerStep DEF IInv
<1>5. ASSUME NEW c \in Conn, ApplyNext(c) PROVE IInv'
  BY <1>1, <1>5, ApplyStep DEF IInv
<1>6. ASSUME NEW c \in Conn, RejectNext(c) PROVE IInv'
  BY <1>1, <1>6, RejectStep DEF IInv
<1>7. ASSUME NEW c \in Conn, SequenceMismatch(c) \/ Crash(c) PROVE IInv'
  BY <1>1, <1>7, RollbackStep DEF IInv
<1>8. ASSUME NEW c \in Conn, Commit(c) PROVE IInv'
  BY <1>1, <1>8, CommitStep DEF IInv
<1> QED
  BY <1>2, <1>3, <1>4, <1>5, <1>6, <1>7, <1>8 DEF Next, SyncStep

THEOREM Invariant == Spec => []IInv
<1>1. Init => IInv
  BY InvariantInit
<1>2. IInv /\ [Next]_vars => IInv'
  BY InvariantStep
<1> QED
  BY <1>1, <1>2, PTL DEF Spec

----------------------------------------------------------------------------
(* The theorems. *)

(***************************************************************************)
(* Every variable keeps its type: no cursor, sequence number, receipt or   *)
(* row of the service is ever malformed.                                   *)
(***************************************************************************)
THEOREM TypeCorrect == Spec => []TypeOK
<1>1. IInv => TypeOK
  BY DEF IInv
<1> QED
  BY <1>1, Invariant, PTL

(***************************************************************************)
(* However often a batch is retried, on however many connections, before   *)
(* or after its receipts are removed, no number of a device is applied     *)
(* twice.                                                                  *)
(***************************************************************************)
THEOREM NumbersAppliedOnce == Spec => []AppliedOnce
<1>1. IInv => AppliedOnce
  BY DEF IInv, Committed
<1> QED
  BY <1>1, Invariant, PTL

(***************************************************************************)
(* last_client_seq of a device lies above all that was decided for it,     *)
(* which is what allows op_receipts to be cleaned up.                      *)
(***************************************************************************)
THEOREM WatermarkIsAuthoritative == Spec => []WatermarkCovers
<1>1. IInv => WatermarkCovers
  BY DEF IInv, Committed
<1> QED
  BY <1>1, Invariant, PTL

(***************************************************************************)
(* The operations of a device take effect in the order it issued them.     *)
(***************************************************************************)
THEOREM DevicesInOrder == Spec => []DeviceOrder
<1>1. IInv => DeviceOrder
  BY DEF IInv, Committed
<1> QED
  BY <1>1, Invariant, PTL

(***************************************************************************)
(* server_seq is allocated without gap and without duplicate.              *)
(***************************************************************************)
THEOREM ServerSeqIsDense == Spec => []ServerSeqDense
<1>1. IInv => ServerSeqDense
  <2> SUFFICES ASSUME IInv PROVE ServerSeqDense
    OBVIOUS
  <2>1. \A ch \in ledger : ch.serverSeq \in 1..(nextSeq - 1)
    BY DEF IInv, Committed, TypeOK, Change, Positive
  <2>2. \A n \in 1..(nextSeq - 1) : n \in {ch.serverSeq : ch \in ledger}
    BY DEF IInv, Committed
  <2>3. {ch.serverSeq : ch \in ledger} = 1..(nextSeq - 1)
    BY <2>1, <2>2
  <2> QED
    BY <2>3 DEF ServerSeqDense, IInv, Committed
<1> QED
  BY <1>1, Invariant, PTL

(***************************************************************************)
(* The locks keep revocation and account deletion out of a transaction:    *)
(* nothing is committed for a device or an account that is gone.           *)
(***************************************************************************)
THEOREM RevocationHolds == Spec => RevocationIsFinal
<1> DEFINE Final == ledger' # ledger =>
                       /\ active
                       /\ \A ch \in ledger' \ ledger : ch.dev \notin revoked
<1>1. IInv /\ [Next]_vars => [Final]_vars
  <2> SUFFICES ASSUME IInv, [Next]_vars PROVE Final
    OBVIOUS
  <2>1. ASSUME NEW c \in Conn, Commit(c) PROVE Final
    <3>1. tx # None /\ tx.conn = c /\ ledger' = ledger \cup tx.changes
      BY <2>1 DEF Commit, Holds
    <3>2. /\ active /\ request[c].dev \notin revoked
          /\ \A ch \in tx.changes : ch.dev = request[c].dev
      BY <3>1 DEF IInv, Serving, Written
    <3> QED
      BY <3>1, <3>2
  <2>2. CASE ledger' = ledger
    BY <2>2
  <2> QED
    BY <2>1, <2>2
    DEF Next, SyncStep, Tick, Begin, Acquire, Refuse, AnswerFromReceipt,
        AnswerFromWatermark, ApplyNext, RejectNext, SequenceMismatch, Crash,
        Answer, RevokeDevice, DeleteAccount, OpenBootstrap, NextPage,
        CloseBootstrap, CleanupReceipts, SelectPrune, StartFloor, CommitPrune,
        dbVars, vars
<1> QED
  BY <1>1, Invariant, PTL DEF Spec, RevocationIsFinal

----------------------------------------------------------------------------
(* The service implements the ledger. *)

\* A change stands in the history at its server_seq.
LEMMA HistoryEntry ==
    ASSUME NEW changes, NEW n \in Nat,
           \A a, b \in changes : a.serverSeq = b.serverSeq => a = b,
           NEW ch \in changes, ch.serverSeq \in 1..(n - 1)
    PROVE  HistoryOf(changes, n)[ch.serverSeq] =
              [op |-> ch.op, dev |-> ch.dev, seq |-> ch.seq]
<1>1. (CHOOSE x \in changes : x.serverSeq = ch.serverSeq) = ch
  OBVIOUS
<1> QED
  BY <1>1 DEF HistoryOf

\* The commit appends the changes of one device and moves its number.
LEMMA CommitDecides ==
    ASSUME IInv, IInv', NEW c \in Conn, Commit(c)
    PROVE  Ledger!Next \/ UNCHANGED Ledger!ledgerVars
<1> DEFINE d == request[c].dev
<1>1. tx \in Transaction /\ tx # None /\ tx.conn = c /\ d \in Device
  BY DEF Commit, Holds, IInv, TypeOK, Serving, Request
<1>2. /\ nextSeq' = tx.next /\ ledger' = ledger \cup tx.changes
      /\ watermark' = [watermark EXCEPT ![d] = WatermarkAfter(c)]
  BY DEF Commit
<1>3. /\ tx.expected \in Nat /\ tx.floor \in Nat /\ tx.next \in Nat /\ nextSeq \in Nat
      /\ watermark \in [Device -> Nat] /\ nextSeq <= tx.next
      /\ \A ch \in ledger' : /\ ch.seq \in Nat /\ ch.serverSeq \in Nat
                             /\ ch.serverSeq >= 1
                             /\ ch.op \in OpId /\ ch.dev \in Device
  BY <1>1 DEF IInv, TypeOK, Transaction, Positive, Change, Bounded
<1>4. /\ tx.floor = watermark[d] /\ tx.floor < tx.expected
      /\ WatermarkAfter(c) = tx.expected - 1
  BY <1>1, <1>3 DEF IInv, Serving, WatermarkAfter
<1>5. /\ \A a, b \in ledger' : a.serverSeq = b.serverSeq => a = b
      /\ \A ch \in ledger : ch.serverSeq < nextSeq
      /\ \A ch \in ledger' : ch.serverSeq < tx.next
      /\ \A n \in 1..(nextSeq - 1) : \E ch \in ledger : ch.serverSeq = n
  BY <1>2 DEF IInv, Committed
<1>6. /\ \A ch \in tx.changes : /\ ch.dev = d /\ watermark[d] < ch.seq
                                /\ ch.seq <= tx.expected - 1
      /\ \A a, b \in tx.changes : a.seq < b.seq => a.serverSeq < b.serverSeq
      /\ \A a, b \in tx.changes : a.seq = b.seq => a = b
      /\ \A n \in nextSeq..(tx.next - 1) : \E ch \in tx.changes : ch.serverSeq = n
  BY <1>1, <1>2, <1>3, <1>4 DEF IInv, Written
<1> HIDE DEF d
<1>7. \A n \in 1..(nextSeq - 1) : History'[n] = History[n]
  <2> SUFFICES ASSUME NEW n \in 1..(nextSeq - 1)
               PROVE  History'[n] = History[n]
    OBVIOUS
  <2>1. PICK ch \in ledger : ch.serverSeq = n
    BY <1>5
  <2>2. HistoryOf(ledger, nextSeq)[n] = [op |-> ch.op, dev |-> ch.dev, seq |-> ch.seq]
    BY <1>2, <1>3, <1>5, <2>1, HistoryEntry
  <2>3. HistoryOf(ledger', nextSeq')[n] = [op |-> ch.op, dev |-> ch.dev, seq |-> ch.seq]
    BY <1>2, <1>3, <1>5, <2>1, HistoryEntry
  <2> QED
    BY <2>2, <2>3 DEF History
<1>8. \A n \in nextSeq..(tx.next - 1) :
         \E ch \in tx.changes : /\ ch.serverSeq = n
                                /\ History'[n].dev = ch.dev
                                /\ History'[n].seq = ch.seq
  <2> SUFFICES ASSUME NEW n \in nextSeq..(tx.next - 1)
               PROVE  \E ch \in tx.changes : /\ ch.serverSeq = n
                                             /\ History'[n].dev = ch.dev
                                             /\ History'[n].seq = ch.seq
    OBVIOUS
  <2>1. PICK ch \in tx.changes : ch.serverSeq = n
    BY <1>6
  <2>2. ch \in ledger' /\ n \in 1..(tx.next - 1)
    BY <1>2, <1>3, <2>1
  <2>3. HistoryOf(ledger', nextSeq')[n] = [op |-> ch.op, dev |-> ch.dev, seq |-> ch.seq]
    BY <1>2, <1>3, <1>5, <2>1, <2>2, HistoryEntry
  <2> QED
    BY <2>1, <2>3 DEF History
<1>9. /\ History = [n \in 1..(nextSeq - 1) |-> History[n]]
      /\ History' = [n \in 1..(tx.next - 1) |-> History'[n]]
  BY <1>2 DEF History, HistoryOf
<1>10. CASE tx.expected - 1 = tx.floor
  <2>1. tx.changes = {}
    BY <1>3, <1>4, <1>6, <1>10, <1>2
  <2>2. tx.next = nextSeq
    BY <1>3, <1>6, <2>1
  <2>3. watermark' = watermark
    BY <1>2, <1>3, <1>4, <1>10
  <2>4. History' = History
    BY <1>2, <2>1, <2>2 DEF History
  <2> QED
    BY <2>3, <2>4 DEF Ledger!ledgerVars
<1>11. CASE tx.expected - 1 > tx.floor
  <2>1. /\ watermark' = [watermark EXCEPT ![d] = watermark'[d]]
        /\ watermark'[d] = tx.expected - 1 /\ watermark[d] < watermark'[d]
    BY <1>1, <1>2, <1>3, <1>4, <1>11 DEF d
  <2>2. History' \in Seq(Ledger!Entry) /\ Len(History') = tx.next - 1
    <3>1. \A n \in 1..(tx.next - 1) : History'[n] \in Ledger!Entry
      <4> SUFFICES ASSUME NEW n \in 1..(tx.next - 1)
                   PROVE  History'[n] \in Ledger!Entry
        OBVIOUS
      <4>1. PICK ch \in ledger' : ch.serverSeq = n
        BY <1>2, <1>3, <1>5, <1>6
      <4>2. HistoryOf(ledger', nextSeq')[n] =
               [op |-> ch.op, dev |-> ch.dev, seq |-> ch.seq]
        BY <1>2, <1>3, <1>5, <4>1, HistoryEntry
      <4> QED
        BY <1>3, <4>1, <4>2 DEF History, Ledger!Entry
    <3>2. tx.next - 1 \in Nat
      BY <1>3, <1>2 DEF IInv, TypeOK, Positive
    <3> QED
      BY <1>9, <3>1, <3>2
  <2>3. Len(History) = nextSeq - 1 /\ DOMAIN History = 1..(nextSeq - 1)
    <3>1. nextSeq - 1 \in Nat
      BY <1>3 DEF IInv, TypeOK, Positive
    <3>2. DOMAIN History = 1..(nextSeq - 1)
      BY DEF History, HistoryOf
    <3>3. History \in Seq({History[n] : n \in 1..(nextSeq - 1)})
      BY <1>9, <3>1
    <3> QED
      BY <3>1, <3>2, <3>3
  <2>4. \A i \in (nextSeq - 1 + 1)..(tx.next - 1) :
           /\ History'[i].dev = d
           /\ watermark[d] < History'[i].seq
           /\ History'[i].seq <= tx.expected - 1
    <3> SUFFICES ASSUME NEW i \in nextSeq..(tx.next - 1)
                 PROVE  /\ History'[i].dev = d
                        /\ watermark[d] < History'[i].seq
                        /\ History'[i].seq <= tx.expected - 1
      BY <1>3
    <3>1. PICK ch \in tx.changes : /\ History'[i].dev = ch.dev
                                   /\ History'[i].seq = ch.seq
      BY <1>8
    <3> QED
      BY <1>6, <3>1
  <2>5. \A i, j \in (nextSeq - 1 + 1)..(tx.next - 1) :
           i < j => History'[i].seq < History'[j].seq
    <3> SUFFICES ASSUME NEW i \in nextSeq..(tx.next - 1),
                        NEW j \in nextSeq..(tx.next - 1), i < j
                 PROVE  History'[i].seq < History'[j].seq
      BY <1>3
    <3>1. PICK a \in tx.changes : a.serverSeq = i /\ History'[i].seq = a.seq
      BY <1>8
    <3>2. PICK b \in tx.changes : b.serverSeq = j /\ History'[j].seq = b.seq
      BY <1>8
    <3>3. a.seq \in Nat /\ b.seq \in Nat
      BY <1>2, <1>3
    <3>4. a # b /\ ~ (b.seq < a.seq)
      BY <1>3, <1>6, <3>1, <3>2
    <3> QED
      BY <1>6, <3>1, <3>2, <3>3, <3>4
  <2>6. Ledger!Continues(d, watermark'[d])
    <3>1. Len(History) <= Len(History')
      BY <1>3, <2>2, <2>3
    <3>2. \A i \in DOMAIN History : History'[i] = History[i]
      BY <1>7, <2>3
    <3>3. \A i \in (Len(History) + 1)..Len(History') :
             /\ History'[i].dev = d
             /\ watermark[d] < History'[i].seq
             /\ History'[i].seq <= watermark'[d]
      BY <2>1, <2>2, <2>3, <2>4
    <3>4. \A i, j \in (Len(History) + 1)..Len(History') :
             i < j => History'[i].seq < History'[j].seq
      BY <2>2, <2>3, <2>5
    <3> QED
      BY <2>2, <3>1, <3>2, <3>3, <3>4 DEF Ledger!Continues
  <2>7. Ledger!Decide(d)
    BY <2>1, <2>6 DEF Ledger!Decide
  <2> QED
    BY <1>1, <2>7 DEF Ledger!Next, d
<1> QED
  BY <1>3, <1>4, <1>10, <1>11

(***************************************************************************)
(* Every behaviour of the service is one of the append-only ledger of      *)
(* SyncLedger: a commit decides operations of one device, every other step *)
(* leaves the history and the decided numbers alone.                       *)
(***************************************************************************)
THEOREM ServiceIsLedger == Spec => ImplementsLedger
<1>1. Init => Ledger!Init
  <2> SUFFICES ASSUME Init PROVE Ledger!Init
    OBVIOUS
  <2>1. History = <<>>
    BY DEF Init, History, HistoryOf
  <2> QED
    BY <2>1 DEF Init, Ledger!Init
<1>2. IInv /\ IInv' /\ [Next]_vars => [Ledger!Next]_(Ledger!ledgerVars)
  <2> SUFFICES ASSUME IInv, IInv', [Next]_vars
               PROVE  Ledger!Next \/ UNCHANGED Ledger!ledgerVars
    OBVIOUS
  <2>1. CASE \E c \in Conn : Commit(c)
    BY <2>1, CommitDecides
  <2>2. CASE ledger' = ledger /\ nextSeq' = nextSeq /\ watermark' = watermark
    BY <2>2 DEF History, Ledger!ledgerVars
  <2> QED
    BY <2>1, <2>2
    DEF Next, SyncStep, Tick, Begin, Acquire, Refuse, AnswerFromReceipt,
        AnswerFromWatermark, ApplyNext, RejectNext, SequenceMismatch, Crash,
        Answer, RevokeDevice, DeleteAccount, OpenBootstrap, NextPage,
        CloseBootstrap, CleanupReceipts, SelectPrune, StartFloor, CommitPrune,
        dbVars, vars
<1> QED
  BY <1>1, <1>2, Invariant, PTL DEF Spec, ImplementsLedger, Ledger!Spec

----------------------------------------------------------------------------
(* Tombstones. *)

\* What the transaction has done to a tombstone it found, a restore among its
\* changes accounts for.
TombstonesKept ==
    tx # None =>
        \A e \in Entity :
            rows[e] # Absent /\ rows[e].deleted /\ tx.rows[e] # rows[e] =>
                \E ch \in tx.changes :
                    Content[ch.op].entity = e /\ Content[ch.op].kind = "restore"

\* A mutation that is accepted on a tombstone is a restore.
LEMMA AcceptedOnTombstone ==
    ASSUME NEW r \in Rows, NEW m \in Mutation, Accepts(r, m),
           r[m.entity] # Absent, r[m.entity].deleted
    PROVE  m.kind = "restore"
BY DEF Accepts, CreateAllowed, PatchAllowed, DeleteAllowed, Live

\* A mutation touches one row only.
LEMMA ApplyMutationElsewhere ==
    ASSUME NEW r \in Rows, NEW m \in Mutation, NEW at,
           NEW e \in Entity, e # m.entity
    PROVE  ApplyMutation(r, m, at)[e] = r[e]
BY DEF ApplyMutation, Rows

LEMMA TombstonesStep ==
    ASSUME IInv, TombstonesKept, [Next]_vars
    PROVE  TombstonesKept'
<1>1. ASSUME NEW c \in Conn, ApplyNext(c) PROVE TombstonesKept'
  <2> DEFINE item == Head(tx.todo)
             m == Content[item.op]
             change == [serverSeq |-> tx.next, op |-> item.op,
                        dev |-> request[c].dev, seq |-> item.seq,
                        at |-> request[c].at]
  <2>1. /\ Working(c) /\ tx \in Transaction /\ tx # None
        /\ item \in Item /\ m \in Mutation /\ tx.rows \in Rows
    BY <1>1, HeadType DEF ApplyNext, IInv, Working, Holds, Transaction
  <2>2. Answered(item, "applied") \in Transaction
        /\ Answered(item, "applied").rows = tx.rows
        /\ Answered(item, "applied").changes = tx.changes
    BY <2>1, AnsweredType DEF IInv, Answered, Transaction
  <2>3. /\ tx'.changes = tx.changes \cup {change}
        /\ tx'.rows = ApplyMutation(tx.rows, m, request[c].at)
    BY <1>1, <2>2 DEF ApplyNext, Applied, Transaction
  <2>4. rows' = rows /\ Accepts(tx.rows, m)
    BY <1>1 DEF ApplyNext, dbVars
  <2>5. change.op = item.op
    OBVIOUS
  <2> HIDE DEF change
  <2> SUFFICES ASSUME NEW e \in Entity, rows[e] # Absent, rows[e].deleted,
                      tx'.rows[e] # rows[e]
               PROVE  \E ch \in tx'.changes :
                         Content[ch.op].entity = e /\ Content[ch.op].kind = "restore"
    BY <2>4 DEF TombstonesKept
  <2>6. CASE tx.rows[e] # rows[e]
    BY <2>1, <2>3, <2>6 DEF TombstonesKept
  <2>7. CASE tx.rows[e] = rows[e]
    <3>1. e = m.entity
      BY <2>1, <2>3, <2>7, ApplyMutationElsewhere
    <3>2. m.kind = "restore"
      BY <2>1, <2>4, <2>7, <3>1, AcceptedOnTombstone
    <3> QED
      BY <2>3, <2>5, <3>1, <3>2
  <2> QED
    BY <2>6, <2>7
<1>2. ASSUME NEW c \in Conn,
             AnswerFromReceipt(c) \/ AnswerFromWatermark(c) \/ RejectNext(c)
      PROVE  TombstonesKept'
  <2>1. Working(c) /\ tx \in Transaction /\ tx # None
    BY <1>2, HeadType
    DEF AnswerFromReceipt, AnswerFromWatermark, RejectNext, IInv, Working, Holds
  <2>2. tx'.rows = tx.rows /\ tx'.changes = tx.changes
    BY <1>2, <2>1
    DEF AnswerFromReceipt, AnswerFromWatermark, RejectNext, Rejected, Answered,
        Transaction
  <2>3. rows' = rows
    BY <1>2 DEF AnswerFromReceipt, AnswerFromWatermark, RejectNext, dbVars
  <2> QED
    BY <2>1, <2>2, <2>3 DEF TombstonesKept
<1>3. ASSUME NEW c \in Conn, Acquire(c) PROVE TombstonesKept'
  <2>1. tx'.rows = rows /\ rows' = rows
    BY <1>3 DEF Acquire, dbVars
  <2> QED
    BY <2>1 DEF TombstonesKept
<1>4. CASE tx' = None
  BY <1>4 DEF TombstonesKept
<1>5. CASE tx' = tx /\ rows' = rows
  BY <1>5 DEF TombstonesKept
<1> QED
  BY <1>1, <1>2, <1>3, <1>4, <1>5
  DEF Next, SyncStep, Tick, Begin, Refuse, SequenceMismatch, Crash, Commit,
      Answer, RevokeDevice, DeleteAccount, OpenBootstrap, NextPage,
      CloseBootstrap, CleanupReceipts, SelectPrune, StartFloor, CommitPrune,
      dbVars, vars

(***************************************************************************)
(* A row that is a tombstone changes only together with an accepted        *)
(* restore of it: a late patch, create or delete has no effect, whichever  *)
(* operations the transaction applied before.                              *)
(***************************************************************************)
THEOREM TombstonesAreKept == Spec => TombstonesHold
<1> DEFINE Kept == \A e \in Entity :
              (rows[e] # Absent /\ rows[e].deleted /\ rows'[e] # rows[e]) =>
                  \E ch \in ledger' \ ledger :
                      Content[ch.op].entity = e /\ Content[ch.op].kind = "restore"
<1>1. Init => TombstonesKept
  BY DEF Init, TombstonesKept
<1>2. IInv /\ TombstonesKept /\ [Next]_vars => TombstonesKept'
  BY TombstonesStep
<1>3. IInv /\ TombstonesKept /\ [Next]_vars => [Kept]_vars
  <2> SUFFICES ASSUME IInv, TombstonesKept, [Next]_vars PROVE Kept
    OBVIOUS
  <2>1. ASSUME NEW c \in Conn, Commit(c) PROVE Kept
    <3>1. tx # None /\ rows' = tx.rows /\ ledger' = ledger \cup tx.changes
      BY <2>1 DEF Commit, Holds
    <3>2. \A ch \in tx.changes : ch \notin ledger
      <4>1. nextSeq \in Nat /\ \A ch \in ledger : ch.serverSeq \in Nat
        BY DEF IInv, TypeOK, Positive, Change
      <4>2. \A ch \in tx.changes : nextSeq <= ch.serverSeq
        BY <3>1 DEF IInv, Written
      <4>3. \A ch \in ledger : ch.serverSeq < nextSeq
        BY DEF IInv, Committed
      <4> QED
        BY <4>1, <4>2, <4>3
    <3> QED
      BY <3>1, <3>2 DEF TombstonesKept
  <2>2. CASE rows' = rows
    BY <2>2
  <2> QED
    BY <2>1, <2>2
    DEF Next, SyncStep, Tick, Begin, Acquire, Refuse, AnswerFromReceipt,
        AnswerFromWatermark, ApplyNext, RejectNext, SequenceMismatch, Crash,
        Answer, RevokeDevice, DeleteAccount, OpenBootstrap, NextPage,
        CloseBootstrap, CleanupReceipts, SelectPrune, StartFloor, CommitPrune,
        dbVars, vars
<1> QED
  BY <1>1, <1>2, <1>3, Invariant, PTL DEF Spec, TombstonesHold

----------------------------------------------------------------------------
(* Receipts. *)

\* What r says agrees with the changes.
Faithful(r, changes) ==
    IF r.status = "applied"
    THEN \E ch \in changes : /\ ch.dev = r.dev /\ ch.seq = r.seq
                             /\ ch.serverSeq = r.serverSeq /\ ch.op = r.op
    ELSE \A ch \in changes : ~ (ch.dev = r.dev /\ ch.seq = r.seq)

\* The operations of a batch are distinct, and those still to be answered
\* have no receipt of this transaction.
Distinct ==
    /\ \A c \in Conn : request[c] # None => ValidBatch(request[c].batch)
    /\ tx # None =>
          /\ \A i, j \in DOMAIN tx.todo : i < j => tx.todo[i].op # tx.todo[j].op
          /\ \A r \in tx.receipts, i \in DOMAIN tx.todo : r.op # tx.todo[i].op

\* The receipts written so far are new, true of what was written so far, and
\* lie above the watermark.
Recorded ==
    tx # None =>
        /\ receipts \subseteq tx.known
        /\ \A r \in tx.receipts : tx.floor < r.seq /\ Faithful(r, tx.changes)
        /\ \A q, r \in tx.receipts : q.op = r.op \/ q.seq = r.seq => q = r
        /\ \A q \in tx.known, r \in tx.receipts : q.op # r.op

ReceiptInv == Distinct /\ Recorded /\ ReceiptsAreTrue

\* The tail of a sequence holds its elements, in their order.
LEMMA TodoTail ==
    ASSUME NEW S, NEW s \in Seq(S), s # <<>>
    PROVE  \A i \in DOMAIN Tail(s) : i + 1 \in DOMAIN s /\ Tail(s)[i] = s[i + 1]
                                     /\ i \in Nat
OBVIOUS

\* The record of an operation that is answered from what is known.
LEMMA ReceiptAnswerStep ==
    ASSUME IInv, ReceiptInv, NEW c \in Conn,
           AnswerFromReceipt(c) \/ AnswerFromWatermark(c)
    PROVE  ReceiptInv'
<1>1. Working(c) /\ tx \in Transaction /\ tx # None /\ tx.todo \in Seq(Item) /\ tx.todo # <<>>
  BY HeadType
  DEF AnswerFromReceipt, AnswerFromWatermark, IInv, Working, Holds, Transaction
<1>2. /\ tx'.todo = Tail(tx.todo) /\ tx'.changes = tx.changes
      /\ tx'.receipts = tx.receipts /\ tx'.known = tx.known /\ tx'.floor = tx.floor
  BY <1>1 DEF AnswerFromReceipt, AnswerFromWatermark, Answered, Transaction
<1>3. UNCHANGED <<request, receipts, ledger>>
  BY DEF AnswerFromReceipt, AnswerFromWatermark, dbVars
<1>4. Distinct'
  <2>1. /\ \A i, j \in DOMAIN tx.todo : i < j => tx.todo[i].op # tx.todo[j].op
        /\ \A r \in tx.receipts, i \in DOMAIN tx.todo : r.op # tx.todo[i].op
    BY <1>1 DEF ReceiptInv, Distinct
  <2>2. /\ \A i, j \in DOMAIN tx'.todo : i < j => tx'.todo[i].op # tx'.todo[j].op
        /\ \A r \in tx'.receipts, i \in DOMAIN tx'.todo : r.op # tx'.todo[i].op
    BY <1>1, <1>2, <2>1, TodoTail
  <2> QED
    BY <1>3, <2>2 DEF ReceiptInv, Distinct
<1>5. Recorded'
  BY <1>1, <1>2, <1>3 DEF ReceiptInv, Recorded, Faithful
<1>6. ReceiptsAreTrue'
  BY <1>3 DEF ReceiptInv, ReceiptsAreTrue
<1> QED
  BY <1>4, <1>5, <1>6 DEF ReceiptInv

\* What an operation that is decided adds to the record.
LEMMA ReceiptDecideStep ==
    ASSUME IInv, ReceiptInv, NEW c \in Conn, Working(c),
           IsNext(c, Head(tx.todo)),
           NEW new \in Receipt, NEW added \in SUBSET Change,
           new.op = Head(tx.todo).op /\ new.seq = tx.expected,
           \A ch \in added : ch.seq = tx.expected,
           Faithful(new, added),
           tx'.todo = Tail(tx.todo) /\ tx'.floor = tx.floor /\ tx'.known = tx.known,
           tx'.changes = tx.changes \cup added,
           tx'.receipts = tx.receipts \cup {new},
           UNCHANGED <<request, receipts, ledger>>
    PROVE  ReceiptInv'
<1> DEFINE item == Head(tx.todo)
<1>1. /\ tx \in Transaction /\ tx # None /\ tx.conn = c
      /\ tx.todo \in Seq(Item) /\ tx.todo # <<>>
  BY HeadType DEF IInv, Working, Holds, Transaction
<1>2. /\ tx.expected \in Nat /\ tx.floor \in Nat /\ tx.floor < tx.expected
      /\ \A ch \in tx.changes : ch.seq \in Nat /\ ch.seq < tx.expected
      /\ \A r \in tx.receipts : r.seq \in Nat /\ r.seq < tx.expected
  BY <1>1 DEF IInv, Serving, Written, Transaction, Positive, Change, Receipt
<1>3. \A r \in tx.known : r.op # item.op
  BY DEF IsNext, ReceiptsOf
<1>4. /\ \A i, j \in DOMAIN tx.todo : i < j => tx.todo[i].op # tx.todo[j].op
      /\ \A r \in tx.receipts, i \in DOMAIN tx.todo : r.op # tx.todo[i].op
  BY <1>1 DEF ReceiptInv, Distinct
<1>5. /\ \A i, j \in DOMAIN tx'.todo : i < j => tx'.todo[i].op # tx'.todo[j].op
      /\ \A r \in tx'.receipts, i \in DOMAIN tx'.todo : r.op # tx'.todo[i].op
  <2>1. \A i, j \in DOMAIN tx'.todo : i < j => tx'.todo[i].op # tx'.todo[j].op
    BY <1>1, <1>4, TodoTail
  <2>2. \A r \in tx.receipts, i \in DOMAIN tx'.todo : r.op # tx'.todo[i].op
    BY <1>1, <1>4, TodoTail
  <2>3. \A i \in DOMAIN tx'.todo : new.op # tx'.todo[i].op
    <3>1. 1 \in DOMAIN tx.todo /\ new.op = tx.todo[1].op
      BY <1>1
    <3> QED
      BY <1>1, <1>4, <3>1, TodoTail
  <2> QED
    BY <2>1, <2>2, <2>3
<1>6. \A r \in tx.receipts : r.op # new.op /\ r.seq # new.seq
  <2>1. 1 \in DOMAIN tx.todo /\ item = tx.todo[1]
    BY <1>1
  <2> QED
    BY <1>2, <1>4, <2>1
<1>7. /\ receipts \subseteq tx.known
      /\ \A r \in tx.receipts : tx.floor < r.seq /\ Faithful(r, tx.changes)
      /\ \A q, r \in tx.receipts : q.op = r.op \/ q.seq = r.seq => q = r
      /\ \A q \in tx.known, r \in tx.receipts : q.op # r.op
  BY <1>1 DEF ReceiptInv, Recorded
<1> HIDE DEF item
<1>8. \A r \in tx'.receipts : tx.floor < r.seq /\ Faithful(r, tx'.changes)
  <2>1. ASSUME NEW r \in tx.receipts PROVE tx.floor < r.seq /\ Faithful(r, tx'.changes)
    BY <1>2, <1>7, <2>1 DEF Faithful
  <2>2. tx.floor < new.seq /\ Faithful(new, tx'.changes)
    BY <1>2 DEF Faithful
  <2> QED
    BY <2>1, <2>2
<1>9. \A q, r \in tx'.receipts : q.op = r.op \/ q.seq = r.seq => q = r
  BY <1>6, <1>7
<1>10. \A q \in tx'.known, r \in tx'.receipts : q.op # r.op
  BY <1>3, <1>7 DEF item
<1>11. Distinct'
  BY <1>5 DEF ReceiptInv, Distinct
<1>12. Recorded'
  BY <1>7, <1>8, <1>9, <1>10 DEF Recorded
<1>13. ReceiptsAreTrue'
  BY DEF ReceiptInv, ReceiptsAreTrue
<1> QED
  BY <1>11, <1>12, <1>13 DEF ReceiptInv

LEMMA ReceiptApplyStep ==
    ASSUME IInv, ReceiptInv, NEW c \in Conn, ApplyNext(c)
    PROVE  ReceiptInv'
<1> DEFINE item == Head(tx.todo)
           change == [serverSeq |-> tx.next, op |-> item.op,
                      dev |-> request[c].dev, seq |-> item.seq,
                      at |-> request[c].at]
           receipt == [op |-> item.op, dev |-> request[c].dev, seq |-> item.seq,
                       serverSeq |-> tx.next, status |-> "applied",
                       at |-> request[c].at]
<1>1. Working(c) /\ tx \in Transaction /\ tx # None /\ item \in Item
  BY HeadType DEF ApplyNext, IInv, Working, Holds
<1>2. Answered(item, "applied") \in Transaction
  BY <1>1, AnsweredType DEF IInv
<1>3. /\ tx'.todo = Tail(tx.todo) /\ tx'.floor = tx.floor /\ tx'.known = tx.known
      /\ tx'.changes = tx.changes \cup {change}
      /\ tx'.receipts = tx.receipts \cup {receipt}
  BY <1>1, <1>2 DEF ApplyNext, Applied, Answered, Transaction
<1>4. UNCHANGED <<request, receipts, ledger>> /\ IsNext(c, item)
  BY DEF ApplyNext, dbVars
<1>5. item.seq = tx.expected
  BY <1>4 DEF IsNext
<1>6. change \in Change /\ receipt \in Receipt
  <2>1. request[c] \in Request
    BY <1>1 DEF IInv, Working, Holds, Serving, TypeOK
  <2> QED
    BY <1>1, <2>1 DEF Request, Transaction, Item, Change, Receipt, Positive
<1>7. Faithful(receipt, {change})
  BY DEF Faithful
<1>8. /\ receipt.op = item.op /\ receipt.seq = tx.expected
      /\ \A ch \in {change} : ch.seq = tx.expected
  BY <1>5
<1> HIDE DEF change, receipt
<1>9. {change} \in SUBSET Change
  BY <1>6
<1> QED
  BY <1>1, <1>3, <1>4, <1>6, <1>7, <1>8, <1>9, ReceiptDecideStep

LEMMA ReceiptRejectStep ==
    ASSUME IInv, ReceiptInv, NEW c \in Conn, RejectNext(c)
    PROVE  ReceiptInv'
<1> DEFINE item == Head(tx.todo)
           receipt == [op |-> item.op, dev |-> request[c].dev, seq |-> item.seq,
                       serverSeq |-> 0, status |-> "rejected",
                       at |-> request[c].at]
<1>1. Working(c) /\ tx \in Transaction /\ tx # None /\ item \in Item
  BY HeadType DEF RejectNext, IInv, Working, Holds
<1>2. Answered(item, "rejected") \in Transaction
  BY <1>1, AnsweredType DEF IInv
<1>3. /\ tx'.todo = Tail(tx.todo) /\ tx'.floor = tx.floor /\ tx'.known = tx.known
      /\ tx'.changes = tx.changes \cup {}
      /\ tx'.receipts = tx.receipts \cup {receipt}
  BY <1>1, <1>2 DEF RejectNext, Rejected, Answered, Transaction
<1>4. UNCHANGED <<request, receipts, ledger>> /\ IsNext(c, item)
  BY DEF RejectNext, dbVars
<1>5. item.seq = tx.expected
  BY <1>4 DEF IsNext
<1>6. receipt \in Receipt
  <2>1. request[c] \in Request
    BY <1>1 DEF IInv, Working, Holds, Serving, TypeOK
  <2> QED
    BY <1>1, <2>1 DEF Request, Item, Receipt
<1>7. Faithful(receipt, {})
  BY DEF Faithful
<1>8. receipt.op = item.op /\ receipt.seq = tx.expected
  BY <1>5
<1> HIDE DEF receipt
<1>9. {} \in SUBSET Change /\ \A ch \in {} : ch.seq = tx.expected
  OBVIOUS
<1> QED
  BY <1>1, <1>3, <1>4, <1>6, <1>7, <1>8, <1>9, ReceiptDecideStep

\* The receipts of the transaction join those that are committed.
LEMMA ReceiptCommitStep ==
    ASSUME IInv, ReceiptInv, NEW c \in Conn, Commit(c)
    PROVE  ReceiptInv'
<1> DEFINE d == request[c].dev
<1>1. tx \in Transaction /\ tx # None /\ tx.conn = c /\ d \in Device
  BY DEF Commit, Holds, IInv, TypeOK, Serving, Request
<1>2. /\ tx' = None /\ ledger' = ledger \cup tx.changes
      /\ receipts' = receipts \cup tx.receipts /\ request' = request
  BY DEF Commit
<1>3. /\ \A ch \in ledger \cup tx.changes : ch.seq \in Nat /\ ch.dev \in Device
      /\ \A r \in receipts \cup tx.receipts : r.seq \in Nat /\ r.dev \in Device
      /\ watermark \in [Device -> Nat]
  BY <1>1 DEF IInv, TypeOK, Transaction, Change, Receipt
<1>4. /\ \A ch \in tx.changes : ch.dev = d /\ watermark[d] < ch.seq
      /\ \A r \in tx.receipts : r.dev = d /\ watermark[d] < r.seq
  BY <1>1 DEF IInv, Serving, Written, ReceiptInv, Recorded
<1>5. /\ \A ch \in ledger : ch.seq <= watermark[ch.dev]
      /\ \A r \in receipts : r.seq <= watermark[r.dev]
  BY DEF IInv, Committed, WatermarkCovers
<1> HIDE DEF d
<1>6. ASSUME NEW r \in receipts' PROVE Faithful(r, ledger')
  <2>1. CASE r \in receipts
    <3>1. Faithful(r, ledger)
      BY <2>1 DEF ReceiptInv, ReceiptsAreTrue, Faithful
    <3>2. \A ch \in tx.changes : ~ (ch.dev = r.dev /\ ch.seq = r.seq)
      BY <1>1, <1>3, <1>4, <1>5, <2>1
    <3> QED
      BY <1>2, <3>1, <3>2 DEF Faithful
  <2>2. CASE r \in tx.receipts
    <3>1. Faithful(r, tx.changes)
      BY <1>1, <2>2 DEF ReceiptInv, Recorded
    <3>2. \A ch \in ledger : ~ (ch.dev = r.dev /\ ch.seq = r.seq)
      BY <1>1, <1>3, <1>4, <1>5, <2>2
    <3> QED
      BY <1>2, <3>1, <3>2 DEF Faithful
  <2> QED
    BY <1>2, <2>1, <2>2
<1>7. ASSUME NEW q \in receipts, NEW r \in tx.receipts
      PROVE  q.op # r.op /\ ~ (q.dev = r.dev /\ q.seq = r.seq)
  BY <1>1, <1>3, <1>4, <1>5 DEF ReceiptInv, Recorded
<1>8. \A q, r \in receipts' :
         q.op = r.op \/ (q.dev = r.dev /\ q.seq = r.seq) => q = r
  <2>1. \A q, r \in receipts :
           q.op = r.op \/ (q.dev = r.dev /\ q.seq = r.seq) => q = r
    BY DEF ReceiptInv, ReceiptsAreTrue
  <2>2. \A q, r \in tx.receipts : q.op = r.op \/ q.seq = r.seq => q = r
    BY <1>1 DEF ReceiptInv, Recorded
  <2> QED
    BY <1>2, <1>7, <2>1, <2>2
<1>9. ReceiptsAreTrue'
  BY <1>6, <1>8 DEF ReceiptsAreTrue, Faithful
<1>10. Distinct' /\ Recorded'
  BY <1>2 DEF ReceiptInv, Distinct, Recorded
<1> QED
  BY <1>9, <1>10 DEF ReceiptInv

LEMMA ReceiptAcquireStep ==
    ASSUME IInv, ReceiptInv, NEW c \in Conn, Acquire(c)
    PROVE  ReceiptInv'
<1>1. /\ tx'.todo = request[c].batch /\ tx'.known = receipts
      /\ tx'.changes = {} /\ tx'.receipts = {}
      /\ UNCHANGED <<request, receipts, ledger>>
  BY DEF Acquire, dbVars
<1>2. ValidBatch(request[c].batch)
  BY DEF Acquire, Waiting, ReceiptInv, Distinct
<1> QED
  BY <1>1, <1>2 DEF ReceiptInv, Distinct, Recorded, ReceiptsAreTrue, ValidBatch

LEMMA ReceiptStep ==
    ASSUME IInv, ReceiptInv, [Next]_vars
    PROVE  ReceiptInv'
<1>1. ASSUME NEW c \in Conn, AnswerFromReceipt(c) \/ AnswerFromWatermark(c)
      PROVE  ReceiptInv'
  BY <1>1, ReceiptAnswerStep
<1>2. ASSUME NEW c \in Conn, ApplyNext(c) PROVE ReceiptInv'
  BY <1>2, ReceiptApplyStep
<1>3. ASSUME NEW c \in Conn, RejectNext(c) PROVE ReceiptInv'
  BY <1>3, ReceiptRejectStep
<1>4. ASSUME NEW c \in Conn, Commit(c) PROVE ReceiptInv'
  BY <1>4, ReceiptCommitStep
<1>5. ASSUME NEW c \in Conn, Acquire(c) PROVE ReceiptInv'
  BY <1>5, ReceiptAcquireStep
<1>6. ASSUME NEW c \in Conn, NEW d \in Device, Begin(c, d) PROVE ReceiptInv'
  <2>1. PICK batch \in Batches, cursor \in Cursor :
           /\ ValidBatch(batch)
           /\ request' = [request EXCEPT ![c] =
                 [dev |-> d, cursor |-> cursor, batch |-> batch, at |-> now]]
    BY <1>6 DEF Begin
  <2>2. \A k \in Conn : request'[k] # None => ValidBatch(request'[k].batch)
    BY <2>1 DEF ReceiptInv, Distinct, IInv, TypeOK
  <2>3. UNCHANGED <<tx, receipts, ledger>>
    BY <1>6 DEF Begin, dbVars
  <2> QED
    BY <2>2, <2>3 DEF ReceiptInv, Distinct, Recorded, ReceiptsAreTrue
<1>7. ASSUME NEW c \in Conn,
             Refuse(c) \/ SequenceMismatch(c) \/ Crash(c) \/ Answer(c)
      PROVE  ReceiptInv'
  <2>1. /\ request' = [request EXCEPT ![c] = None]
        /\ tx' = None \/ tx' = tx
        /\ UNCHANGED <<receipts, ledger>>
    BY <1>7 DEF Refuse, SequenceMismatch, Crash, Answer, dbVars
  <2>2. \A k \in Conn : request'[k] # None => ValidBatch(request'[k].batch)
    BY <2>1 DEF ReceiptInv, Distinct, IInv, TypeOK
  <2> QED
    BY <2>1, <2>2 DEF ReceiptInv, Distinct, Recorded, ReceiptsAreTrue
<1>8. CASE /\ UNCHANGED <<request, tx, ledger>>
           /\ receipts' \subseteq receipts
  BY <1>8 DEF ReceiptInv, Distinct, Recorded, ReceiptsAreTrue
<1> QED
  BY <1>1, <1>2, <1>3, <1>4, <1>5, <1>6, <1>7, <1>8
  DEF Next, SyncStep, Tick, RevokeDevice, DeleteAccount, OpenBootstrap, NextPage,
      CloseBootstrap, CleanupReceipts, SelectPrune, StartFloor, CommitPrune,
      dbVars, vars

(***************************************************************************)
(* A receipt repeats what was decided, and no operation or number of a     *)
(* device has two of them: what a retry is told is what happened, also     *)
(* while older receipts are being removed under a running transaction.     *)
(***************************************************************************)
THEOREM ReceiptsTellTheTruth == Spec => []ReceiptsAreTrue
<1>1. Init => ReceiptInv
  BY DEF Init, ReceiptInv, Distinct, Recorded, ReceiptsAreTrue
<1>2. IInv /\ ReceiptInv /\ [Next]_vars => ReceiptInv'
  BY ReceiptStep
<1>3. ReceiptInv => ReceiptsAreTrue
  BY DEF ReceiptInv
<1> QED
  BY <1>1, <1>2, <1>3, Invariant, PTL DEF Spec

----------------------------------------------------------------------------
(* Retention and answers. *)

\* Without a retention job, or with changes stamped in their order, the log
\* keeps every change that a cursor may ask for.
Orderly == Job = {} \/ StampsInOrder

\* The batch of the job is a prefix of the log; what the job saw lies after it.
PrunesPrefix ==
    \A j \in Job : pruning[j] # None =>
        /\ \A ch \in pruning[j].batch, x \in log :
              x.serverSeq < ch.serverSeq => x \in pruning[j].batch
        /\ pruning[j].seen # None => pruning[j].seen \subseteq log \ pruning[j].batch

\* The transaction was admitted with a cursor that can be served.
CursorHeld ==
    tx # None => /\ minSeq - 1 <= request[tx.conn].cursor
                 /\ request[tx.conn].cursor <= nextSeq - 1

\* What a job holds is in the log.
BatchInLog == \A j \in Job : pruning[j] # None => pruning[j].batch \subseteq log

RetainInv ==
    /\ CursorHeld /\ BatchInLog
    /\ Orderly => PrunesPrefix /\ ReadableIsRetained /\ AnswersHaveNoGap

\* At most one run of the retention job.
OneJob == \A j, k \in Job : j = k

\* Numbered without duplicates below a bound, the changes are finitely many.
LEMMA LedgerFinite ==
    ASSUME IInv
    PROVE  IsFiniteSet(ledger) /\ IsFiniteSet(log)
<1> DEFINE f == [ch \in ledger |-> ch.serverSeq]
<1>1. nextSeq - 1 \in Nat
      /\ \A ch \in ledger : ch.serverSeq \in 1..(nextSeq - 1)
  BY DEF IInv, TypeOK, Committed, Change, Positive
<1>2. f \in Injection(ledger, 1..(nextSeq - 1))
  BY <1>1 DEF IInv, Committed, Injection, IsInjective
<1>3. IsFiniteSet(1..(nextSeq - 1))
  BY <1>1, FS_Interval
<1>4. IsFiniteSet(ledger)
  BY <1>2, <1>3, FS_Injection
<1>5. log \in SUBSET ledger
  BY DEF IInv, Committed
<1> QED
  BY <1>4, <1>5, FS_Subset

LEMMA WrittenFinite ==
    ASSUME IInv, tx # None
    PROVE  IsFiniteSet(tx.changes)
<1> DEFINE f == [ch \in tx.changes |-> ch.serverSeq]
<1>1. tx \in Transaction /\ nextSeq \in Nat /\ tx.next - 1 \in Nat
      /\ \A ch \in tx.changes : ch.serverSeq \in nextSeq..(tx.next - 1)
  BY DEF IInv, TypeOK, Transaction, Written, Bounded, Change, Positive
<1>2. f \in Injection(tx.changes, nextSeq..(tx.next - 1))
  BY <1>1 DEF IInv, Written, Injection, IsInjective
<1>3. IsFiniteSet(nextSeq..(tx.next - 1))
  BY <1>1, FS_Interval
<1> QED
  BY <1>2, <1>3, FS_Injection

\* What comes first under a bound on the number of predecessors is closed
\* towards the front.
LEMMA FewerPredecessors ==
    ASSUME NEW A, NEW B, IsFiniteSet(B), A \subseteq B, NEW n \in Nat,
           Cardinality(B) < n
    PROVE  Cardinality(A) < n
<1>1. A \in SUBSET B
  OBVIOUS
<1>2. Cardinality(A) <= Cardinality(B) /\ IsFiniteSet(A)
  BY <1>1, FS_Subset
<1>3. Cardinality(A) \in Nat /\ Cardinality(B) \in Nat
  BY <1>2, FS_CardinalityType
<1> QED
  BY <1>2, <1>3

LEMMA PageIsPrefix ==
    ASSUME NEW changes \in SUBSET Change, IsFiniteSet(changes), NEW cursor \in Nat,
           NEW ch \in Page(changes, cursor), NEW x \in changes,
           x.serverSeq > cursor, x.serverSeq < ch.serverSeq
    PROVE  x \in Page(changes, cursor)
<1> DEFINE after == {y \in changes : y.serverSeq > cursor}
           preceding(z) == {y \in after : y.serverSeq < z.serverSeq}
<1>1. IsFiniteSet(preceding(ch))
  <2>1. preceding(ch) \in SUBSET changes
    OBVIOUS
  <2> QED
    BY <2>1, FS_Subset
<1>2. preceding(x) \subseteq preceding(ch)
  <2>1. \A y \in changes : y.serverSeq \in Nat
    BY DEF Change, Positive
  <2>2. ch \in changes
    BY DEF Page
  <2> QED
    BY <2>1, <2>2
<1>3. Cardinality(preceding(ch)) < PageLimit /\ PageLimit \in Nat
  BY ServerAssumption DEF Page, ServerAssumption, Positive
<1> HIDE DEF preceding
<1>4. Cardinality(preceding(x)) < PageLimit
  BY <1>1, <1>2, <1>3, FewerPredecessors
<1> QED
  BY <1>4 DEF Page, preceding

\* When every change after the cursor is there, a page leaves nothing out.
LEMMA PageHasNoGap ==
    ASSUME NEW changes \in SUBSET Change, IsFiniteSet(changes),
           NEW cursor \in Nat, NEW n \in Nat,
           \A ch \in changes : ch.serverSeq <= n,
           \A k \in (cursor + 1)..n : \E ch \in changes : ch.serverSeq = k
    PROVE  {ch.serverSeq : ch \in Page(changes, cursor)}
              = (cursor + 1)..NextCursor(Page(changes, cursor), cursor)
<1> DEFINE page == Page(changes, cursor)
           next == NextCursor(page, cursor)
           seqs == {ch.serverSeq : ch \in page}
<1>1. /\ page \subseteq changes
      /\ \A ch \in page : ch.serverSeq > cursor
      /\ \A ch \in changes : ch.serverSeq \in Nat
  BY DEF Page, Change, Positive
<1>2. CASE page = {}
  <2>1. next = cursor
    BY <1>2 DEF NextCursor
  <2>2. seqs = {} /\ (cursor + 1)..cursor = {}
    BY <1>2
  <2> QED
    BY <2>1, <2>2
<1>3. CASE page # {}
  <2>1. seqs \subseteq Nat /\ seqs # {} /\ \A k \in seqs : k <= n
    BY <1>1, <1>3
  <2> HIDE DEF page
  <2>2. PICK k \in seqs : \A y \in seqs : y <= k
    BY <2>1, GreatestExists
  <2>3. \A ch \in page : ch.serverSeq <= k
    BY <2>2
  <2>4. next \in seqs /\ \A ch \in page : ch.serverSeq <= next
    BY <1>3, <2>2, <2>3 DEF NextCursor
  <2>5. PICK last \in page : last.serverSeq = next
    BY <2>4
  <2>6. next \in Nat /\ next <= n /\ next > cursor
    BY <1>1, <2>1, <2>4, <2>5
  <2> HIDE DEF next
  <2>7. seqs \subseteq (cursor + 1)..next
    BY <1>1, <2>4, <2>6
  <2>8. ASSUME NEW j \in (cursor + 1)..next PROVE j \in seqs
    <3>1. PICK ch \in changes : ch.serverSeq = j
      BY <2>6
    <3>2. CASE j = next
      BY <2>4, <3>2
    <3>3. CASE j # next
      <4>1. j < last.serverSeq /\ j > cursor
        BY <2>5, <2>6, <3>3
      <4>2. ch \in Page(changes, cursor)
        BY <2>5, <3>1, <4>1, PageIsPrefix DEF page
      <4> QED
        BY <3>1, <4>2 DEF page
    <3> QED
      BY <3>2, <3>3
  <2>9. seqs = (cursor + 1)..next
    BY <2>7, <2>8
  <2> QED
    BY <2>9 DEF next, page
<1> QED
  BY <1>2, <1>3

\* The log is at hand from the floor on, up to what the transaction wrote.
LEMMA CommitAnswers ==
    ASSUME IInv, RetainInv, Orderly, NEW c \in Conn, Commit(c)
    PROVE  /\ {ch.serverSeq : ch \in reply'[c].changes}
                  = (reply'[c].cursor + 1)..reply'[c].next
           /\ \A k \in Conn \ {c} : reply'[k] = reply[k]
<1> DEFINE visible == log \cup tx.changes
           cursor == request[c].cursor
           page == Page(visible, cursor)
<1>1. /\ tx \in Transaction /\ tx # None /\ tx.conn = c
      /\ request[c] \in Request
  BY DEF Commit, Holds, IInv, TypeOK, Serving
<1>2. /\ cursor \in Nat /\ tx.next - 1 \in Nat /\ nextSeq \in Nat /\ minSeq \in Nat
      /\ nextSeq <= tx.next
      /\ minSeq - 1 <= cursor /\ cursor <= nextSeq - 1
  BY <1>1 DEF IInv, TypeOK, Transaction, Request, Positive, Bounded, RetainInv,
              CursorHeld
<1>3. visible \in SUBSET Change /\ IsFiniteSet(visible)
  <2>1. visible \in SUBSET Change
    BY <1>1 DEF IInv, TypeOK, Transaction
  <2> QED
    BY <1>1, <2>1, LedgerFinite, WrittenFinite, FS_Union
<1>4. \A ch \in visible : ch.serverSeq <= tx.next - 1
  <2>1. \A ch \in visible : ch.serverSeq \in Nat
    BY <1>3 DEF Change, Positive
  <2>2. tx.next \in Nat
    BY <1>1 DEF Transaction, Positive
  <2> QED
    BY <1>1, <1>2, <2>1, <2>2 DEF IInv, Bounded
<1>5. \A k \in (cursor + 1)..(tx.next - 1) : \E ch \in visible : ch.serverSeq = k
  <2> SUFFICES ASSUME NEW k \in (cursor + 1)..(tx.next - 1)
               PROVE  \E ch \in visible : ch.serverSeq = k
    OBVIOUS
  <2>1. CASE k < nextSeq
    BY <1>2, <2>1 DEF RetainInv, ReadableIsRetained
  <2>2. CASE k >= nextSeq
    BY <1>1, <1>2, <2>2 DEF IInv, Written
  <2> QED
    BY <1>2, <2>1, <2>2
<1> HIDE DEF visible, cursor
<1>6. {ch.serverSeq : ch \in page} = (cursor + 1)..NextCursor(page, cursor)
  BY <1>2, <1>3, <1>4, <1>5, PageHasNoGap
<1> HIDE DEF page
<1>7. /\ reply'[c].changes = page /\ reply'[c].cursor = cursor
      /\ reply'[c].next = NextCursor(page, cursor)
      /\ \A k \in Conn \ {c} : reply'[k] = reply[k]
  BY DEF Commit, IInv, TypeOK, visible, cursor, page
<1> QED
  BY <1>6, <1>7

LEMMA RetainCommitStep ==
    ASSUME IInv, RetainInv, NEW c \in Conn, Commit(c)
    PROVE  RetainInv'
<1>1. tx # None /\ tx \in Transaction
  BY DEF Commit, Holds, IInv, TypeOK
<1>2. /\ tx' = None /\ nextSeq' = tx.next /\ log' = log \cup tx.changes
      /\ ledger' = ledger \cup tx.changes /\ UNCHANGED <<minSeq, pruning>>
  BY DEF Commit
<1>3. CursorHeld'
  BY <1>2 DEF CursorHeld
<1>4. Orderly' => Orderly
  BY <1>2 DEF Orderly, StampsInOrder
<1>5. ASSUME Orderly PROVE PrunesPrefix'
  <2>1. ASSUME NEW ch \in log, NEW x \in tx.changes PROVE ~ (x.serverSeq < ch.serverSeq)
    BY <1>1 DEF IInv, TypeOK, Transaction, Change, Positive, Bounded, Written
  <2>2. ASSUME NEW j \in Job, pruning[j] # None, NEW ch \in pruning[j].batch,
               NEW x \in log', x.serverSeq < ch.serverSeq
        PROVE  x \in pruning[j].batch
    <3>1. ch \in log
      BY <2>2 DEF RetainInv, BatchInLog
    <3> QED
      BY <1>2, <1>5, <2>1, <2>2, <3>1 DEF RetainInv, PrunesPrefix
  <2>3. \A j \in Job : pruning[j] # None /\ pruning[j].seen # None =>
             pruning[j].seen \subseteq log' \ pruning[j].batch
    BY <1>2, <1>5 DEF RetainInv, PrunesPrefix
  <2> QED
    BY <1>2, <2>2, <2>3 DEF PrunesPrefix
<1>6. ASSUME Orderly PROVE ReadableIsRetained'
  <2> SUFFICES ASSUME NEW k \in minSeq..(tx.next - 1)
               PROVE  \E ch \in log \cup tx.changes : ch.serverSeq = k
    BY <1>2 DEF ReadableIsRetained
  <2>0. nextSeq \in Nat /\ tx.next \in Nat /\ minSeq \in Nat
    BY <1>1 DEF IInv, TypeOK, Transaction, Positive
  <2>1. CASE k < nextSeq
    BY <1>6, <2>0, <2>1 DEF RetainInv, ReadableIsRetained
  <2>2. CASE k >= nextSeq
    BY <1>1, <2>0, <2>2 DEF IInv, Written
  <2> QED
    BY <2>0, <2>1, <2>2
<1>7. ASSUME Orderly PROVE AnswersHaveNoGap'
  BY <1>7, CommitAnswers DEF RetainInv, AnswersHaveNoGap
<1>8. BatchInLog'
  BY <1>2 DEF RetainInv, BatchInLog
<1> QED
  BY <1>3, <1>4, <1>5, <1>6, <1>7, <1>8 DEF RetainInv

\* The oldest changes by created_at are a prefix of the log, as long as the
\* numbers and the stamps agree.
LEMMA RetainSelectStep ==
    ASSUME OneJob, IInv, RetainInv, NEW j \in Job, SelectPrune(j)
    PROVE  RetainInv'
<1>1. /\ pruning[j] = None /\ j \in Job
      /\ UNCHANGED <<dbVars, request, tx, reply>>
  BY DEF SelectPrune
<1> DEFINE locked == UNION {pruning[k].batch : k \in {k \in Job : pruning[k] # None}}
           old(cutoff) == {ch \in log \ locked : ch.at < cutoff}
           first(cutoff) == {ch \in old(cutoff) :
              Cardinality({x \in old(cutoff) : Before(x, ch)}) < PruneBatch}
<1>2. PICK cutoff \in 1..(now - Retention) :
         pruning' = [pruning EXCEPT ![j] = [batch |-> first(cutoff), seen |-> None]]
  BY DEF SelectPrune
<1>3. locked = {} /\ \A k \in Job : k = j
  BY <1>1 DEF OneJob
<1>4. pruning'[j] = [batch |-> first(cutoff), seen |-> None]
  BY <1>2 DEF IInv, TypeOK
<1>5. ASSUME Orderly, NEW ch \in first(cutoff), NEW x \in log, x.serverSeq < ch.serverSeq
      PROVE  x \in first(cutoff)
  <2>1. /\ ch \in log /\ ch.at < cutoff /\ cutoff \in Int
        /\ \A y \in log : y.at \in Nat /\ y.serverSeq \in Nat
    BY <1>3 DEF IInv, TypeOK, Change, Positive
  <2>2. x.at <= ch.at
    BY <1>1, <1>5, <2>1 DEF Orderly, StampsInOrder, IInv, Committed
  <2>3. x \in old(cutoff)
    BY <1>3, <2>1, <2>2
  <2> DEFINE preceding(z) == {y \in old(cutoff) : Before(y, z)}
  <2>4. preceding(x) \subseteq preceding(ch)
    <3>1. \A y \in old(cutoff) : Before(y, x) => Before(y, ch)
      BY <1>5, <2>1, <2>2 DEF Before
    <3> QED
      BY <3>1
  <2>5. IsFiniteSet(preceding(ch))
    <3>1. preceding(ch) \in SUBSET log
      OBVIOUS
    <3> QED
      BY <3>1, LedgerFinite, FS_Subset
  <2>6. Cardinality(preceding(ch)) < PruneBatch /\ PruneBatch \in Nat
    BY ServerAssumption DEF ServerAssumption, Positive
  <2> HIDE DEF preceding
  <2>7. Cardinality(preceding(x)) < PruneBatch
    BY <2>4, <2>5, <2>6, FewerPredecessors
  <2> QED
    BY <2>3, <2>7 DEF preceding
<1>6. first(cutoff) \subseteq log
  OBVIOUS
<1> HIDE DEF first
<1>7. BatchInLog'
  BY <1>1, <1>3, <1>4, <1>6 DEF BatchInLog, dbVars
<1>8. ASSUME Orderly PROVE PrunesPrefix'
  BY <1>1, <1>3, <1>4, <1>5, <1>8 DEF PrunesPrefix, dbVars
<1> QED
  BY <1>1, <1>7, <1>8
  DEF RetainInv, CursorHeld, Orderly, StampsInOrder, ReadableIsRetained,
      AnswersHaveNoGap, dbVars

\* The floor moves above the prefix that goes.
LEMMA RetainPruneStep ==
    ASSUME OneJob, IInv, RetainInv, NEW j \in Job, CommitPrune(j)
    PROVE  RetainInv'
<1> DEFINE batch == pruning[j].batch
           seen == pruning[j].seen
           floor == FirstKept(seen)
<1>1. /\ pruning[j] # None /\ seen # None /\ tx = None
      /\ log' = log \ batch
      /\ minSeq' = IF floor > minSeq THEN floor ELSE minSeq
      /\ pruning' = [pruning EXCEPT ![j] = None]
      /\ UNCHANGED <<nextSeq, request, tx, reply, ledger>>
  BY DEF CommitPrune
<1>2. \A k \in Job : pruning'[k] = None
  BY <1>1 DEF OneJob, IInv, TypeOK
<1>3. /\ seen \in SUBSET Change /\ nextSeq \in Nat /\ minSeq \in Nat
      /\ floor \in Nat
      /\ \A ch \in log : ch.serverSeq \in Nat
  <2>1. seen \in SUBSET Change
    BY <1>1 DEF IInv, TypeOK, Prune
  <2>2. floor \in Positive
    BY <2>1, FirstKeptType DEF IInv, TypeOK
  <2> QED
    BY <2>1, <2>2 DEF IInv, TypeOK, Positive, Change
<1>4. ASSUME Orderly, NEW s \in minSeq'..(nextSeq - 1)
      PROVE  \E ch \in log \ batch : ch.serverSeq = s
  <2>1. s \in minSeq..(nextSeq - 1) /\ s >= floor
    BY <1>1, <1>3
  <2>2. PICK ch \in log : ch.serverSeq = s
    BY <1>4, <2>1 DEF RetainInv, ReadableIsRetained
  <2>3. seen # {}
    BY <1>3, <2>1 DEF FirstKept
  <2>4. PICK x \in seen : x.serverSeq = floor
    <3> DEFINE seqs == {y.serverSeq : y \in seen}
    <3>1. seqs \subseteq Nat /\ seqs # {}
      BY <1>3, <2>3 DEF Change, Positive
    <3>2. \E k \in seqs : \A y \in seqs : k <= y
      BY <3>1, LeastExists
    <3>3. \E k \in seqs : \A y \in seen : k <= y.serverSeq
      BY <3>2
    <3>4. floor \in seqs
      BY <2>3, <3>3 DEF FirstKept
    <3> QED
      BY <3>4
  <2>5. x \in log \ batch
    BY <1>1, <1>4 DEF RetainInv, PrunesPrefix
  <2>6. CASE ch \in batch
    <3>1. ~ (x.serverSeq < ch.serverSeq)
      BY <1>1, <1>4, <2>5, <2>6 DEF RetainInv, PrunesPrefix
    <3>2. x.serverSeq = ch.serverSeq
      BY <1>3, <2>1, <2>2, <2>4, <2>5, <3>1
    <3>3. x = ch
      BY <2>2, <2>5, <3>2 DEF IInv, Committed
    <3> QED
      BY <2>5, <2>6, <3>3
  <2> QED
    BY <2>2, <2>6
<1>5. Orderly' => Orderly
  BY <1>1 DEF Orderly, StampsInOrder
<1>6. ASSUME Orderly PROVE ReadableIsRetained'
  BY <1>1, <1>4, <1>6 DEF ReadableIsRetained
<1>7. PrunesPrefix' /\ BatchInLog'
  BY <1>2 DEF PrunesPrefix, BatchInLog
<1>8. CursorHeld'
  BY <1>1 DEF CursorHeld
<1>9. AnswersHaveNoGap => AnswersHaveNoGap'
  BY <1>1 DEF AnswersHaveNoGap
<1> QED
  BY <1>5, <1>6, <1>7, <1>8, <1>9 DEF RetainInv

LEMMA RetainFloorStep ==
    ASSUME IInv, RetainInv, NEW j \in Job, StartFloor(j)
    PROVE  RetainInv'
<1>1. /\ pruning[j] # None /\ pruning[j] \in Prune
      /\ pruning' = [pruning EXCEPT ![j] =
                        [pruning[j] EXCEPT !.seen = log \ pruning[j].batch]]
      /\ UNCHANGED <<dbVars, request, tx, reply>>
  BY DEF StartFloor, IInv, TypeOK
<1>2. /\ pruning'[j].batch = pruning[j].batch
      /\ pruning'[j].seen = log \ pruning[j].batch
      /\ \A k \in Job \ {j} : pruning'[k] = pruning[k]
  BY <1>1 DEF IInv, TypeOK, Prune
<1>3. BatchInLog'
  BY <1>1, <1>2 DEF RetainInv, BatchInLog, dbVars
<1>4. ASSUME PrunesPrefix PROVE PrunesPrefix'
  BY <1>1, <1>2, <1>4 DEF PrunesPrefix, dbVars
<1> QED
  BY <1>1, <1>3, <1>4
  DEF RetainInv, CursorHeld, Orderly, StampsInOrder, ReadableIsRetained,
      AnswersHaveNoGap, dbVars

\* A step that leaves the log, the jobs and the cursor of the transaction alone.
LEMMA RetainQuietStep ==
    ASSUME IInv, RetainInv,
           UNCHANGED <<log, ledger, nextSeq, minSeq, pruning>>,
           tx' # None => \/ /\ tx # None /\ tx'.conn = tx.conn
                            /\ request'[tx.conn] = request[tx.conn]
                         \/ /\ minSeq - 1 <= request'[tx'.conn].cursor
                            /\ request'[tx'.conn].cursor <= nextSeq - 1,
           \A c \in Conn : reply'[c] = reply[c] \/ reply'[c] = None
    PROVE  RetainInv'
<1>1. CursorHeld'
  BY DEF RetainInv, CursorHeld
<1>2. BatchInLog' /\ (Orderly' => Orderly) /\ (PrunesPrefix => PrunesPrefix')
  BY DEF RetainInv, BatchInLog, Orderly, StampsInOrder, PrunesPrefix
<1>3. ReadableIsRetained => ReadableIsRetained'
  BY DEF ReadableIsRetained
<1>4. AnswersHaveNoGap => AnswersHaveNoGap'
  BY DEF AnswersHaveNoGap
<1> QED
  BY <1>1, <1>2, <1>3, <1>4 DEF RetainInv

LEMMA RetainStep ==
    ASSUME OneJob, IInv, RetainInv, [Next]_vars
    PROVE  RetainInv'
<1>1. ASSUME NEW c \in Conn, Commit(c) PROVE RetainInv'
  BY <1>1, RetainCommitStep
<1>2. ASSUME NEW j \in Job, SelectPrune(j) PROVE RetainInv'
  BY <1>2, RetainSelectStep
<1>3. ASSUME NEW j \in Job, StartFloor(j) PROVE RetainInv'
  BY <1>3, RetainFloorStep
<1>4. ASSUME NEW j \in Job, CommitPrune(j) PROVE RetainInv'
  BY <1>4, RetainPruneStep
<1>5. ASSUME NEW c \in Conn, Acquire(c) PROVE RetainInv'
  <2>1. /\ tx'.conn = c /\ UNCHANGED <<dbVars, request, reply, pruning>>
        /\ CursorReadable(request[c].cursor)
    BY <1>5 DEF Acquire, Admitted
  <2>2. /\ minSeq \in Nat /\ request[c].cursor \in Nat
    BY <1>5 DEF Acquire, Waiting, IInv, TypeOK, Request, Positive
  <2> QED
    BY <2>1, <2>2, RetainQuietStep DEF CursorReadable, dbVars
<1>6. ASSUME NEW c \in Conn,
             \/ AnswerFromReceipt(c) \/ AnswerFromWatermark(c)
             \/ ApplyNext(c) \/ RejectNext(c)
      PROVE  RetainInv'
  <2>1. Working(c) /\ tx \in Transaction /\ tx # None
    BY <1>6, HeadType
    DEF AnswerFromReceipt, AnswerFromWatermark, ApplyNext, RejectNext, IInv,
        Working, Holds
  <2>2. /\ \A status : Answered(Head(tx.todo), status).conn = tx.conn
        /\ Answered(Head(tx.todo), "applied") \in Transaction
        /\ Answered(Head(tx.todo), "rejected") \in Transaction
    BY <2>1, AnsweredType DEF Answered, Transaction, IInv
  <2>3. tx'.conn = tx.conn
    <3>1. CASE AnswerFromReceipt(c) \/ AnswerFromWatermark(c)
      BY <2>2, <3>1 DEF AnswerFromReceipt, AnswerFromWatermark
    <3>2. CASE ApplyNext(c)
      BY <2>2, <3>2 DEF ApplyNext, Applied, Transaction
    <3>3. CASE RejectNext(c)
      BY <2>2, <3>3 DEF RejectNext, Rejected, Transaction
    <3> QED
      BY <1>6, <3>1, <3>2, <3>3
  <2>4. UNCHANGED <<dbVars, request, reply, pruning>>
    BY <1>6 DEF AnswerFromReceipt, AnswerFromWatermark, ApplyNext, RejectNext
  <2> QED
    BY <2>1, <2>3, <2>4, RetainQuietStep DEF dbVars
<1>7. ASSUME NEW c \in Conn, SequenceMismatch(c) \/ Crash(c) PROVE RetainInv'
  <2>1. tx' = None /\ UNCHANGED <<dbVars, reply, pruning>>
    BY <1>7 DEF SequenceMismatch, Crash
  <2> QED
    BY <2>1, RetainQuietStep DEF dbVars
<1>8. CASE Quiet /\ UNCHANGED <<log, minSeq, pruning>>
           /\ \A c \in Conn : reply'[c] = reply[c] \/ reply'[c] = None
  BY <1>8, RetainQuietStep DEF Quiet
<1>9. ASSUME NEW c \in Conn,
             Answer(c) \/ Refuse(c) \/ \E d \in Device : Begin(c, d)
      PROVE  RetainInv'
  <2>1. Quiet
    BY <1>9, QuietActions
  <2>2. /\ UNCHANGED <<log, minSeq, pruning>>
        /\ \A k \in Conn : reply'[k] = reply[k] \/ reply'[k] = None
    BY <1>9 DEF Answer, Refuse, Begin, dbVars, IInv, TypeOK
  <2> QED
    BY <1>8, <2>1, <2>2
<1>10. CASE \/ Tick \/ \E d \in Device : RevokeDevice(d)
            \/ DeleteAccount
            \/ \E b \in Reader : OpenBootstrap(b) \/ NextPage(b) \/ CloseBootstrap(b)
            \/ CleanupReceipts \/ UNCHANGED vars
  <2>1. Quiet
    BY <1>10, QuietActions
  <2>2. UNCHANGED <<log, minSeq, pruning, reply>>
    BY <1>10
    DEF Tick, RevokeDevice, DeleteAccount, OpenBootstrap, NextPage, CloseBootstrap,
        CleanupReceipts, dbVars, vars
  <2> QED
    BY <1>8, <2>1, <2>2
<1> QED
  BY <1>1, <1>2, <1>3, <1>4, <1>5, <1>6, <1>7, <1>9, <1>10 DEF Next, SyncStep

LEMMA RetainInit == Init => RetainInv
BY DEF Init, RetainInv, CursorHeld, BatchInLog, PrunesPrefix, ReadableIsRetained,
       AnswersHaveNoGap

(***************************************************************************)
(* One run of the retention job at a time removes a prefix of the log and  *)
(* raises the floor above it, if transactions commit in the order they     *)
(* began. Without either condition the property fails: see the runs on     *)
(* gap_jobs and gap_order.                                                 *)
(***************************************************************************)
THEOREM RetentionKeepsTheRest ==
    ASSUME OneJob
    PROVE  Spec => []PruneIsPrefix
<1>1. IInv /\ RetainInv /\ [Next]_vars => RetainInv'
  BY RetainStep
<1>2. RetainInv => PruneIsPrefix
  BY DEF RetainInv, PruneIsPrefix, Orderly
<1> QED
  BY <1>1, <1>2, RetainInit, Invariant, PTL DEF Spec

(***************************************************************************)
(* No answer leaves out a change between the cursor that came in and the   *)
(* one that goes out, where the log is not pruned.                         *)
(***************************************************************************)
THEOREM AnswersAreComplete ==
    ASSUME Job = {}
    PROVE  Spec => []AnswersHaveNoGap
<1>1. OneJob /\ Orderly
  BY DEF OneJob, Orderly
<1>2. IInv /\ RetainInv /\ [Next]_vars => RetainInv'
  BY <1>1, RetainStep
<1>3. RetainInv => AnswersHaveNoGap
  BY <1>1 DEF RetainInv
<1> QED
  BY <1>2, <1>3, RetainInit, Invariant, PTL DEF Spec

(***************************************************************************)
(* The same where one job prunes the log, as long as the stamps of the     *)
(* changes follow their numbers.                                           *)
(***************************************************************************)
THEOREM AnswersCompleteWhilePruning ==
    ASSUME OneJob
    PROVE  Spec => [](StampsInOrder => AnswersHaveNoGap)
<1>1. IInv /\ RetainInv /\ [Next]_vars => RetainInv'
  BY RetainStep
<1>2. RetainInv => (StampsInOrder => AnswersHaveNoGap)
  BY DEF RetainInv, Orderly
<1> QED
  BY <1>1, <1>2, RetainInit, Invariant, PTL DEF Spec
============================================================================
