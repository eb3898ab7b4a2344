-------------------- MODULE NotificationActivationProofs --------------------
(***************************************************************************)
(* Proofs about NotificationActivation, for any capacity, any time limits  *)
(* and any number of clicks, page loads and faults: every click that was   *)
(* admitted is held in one place or has ended once, in the order of the    *)
(* clicks, and what is in flight is in flight for the page that listens.   *)
(*                                                                         *)
(* An activation moves between the queue and the two slots. Between two    *)
(* places it is in hand: the lemmas about DeliveryState say what is true   *)
(* of a state while some ids are in hand, and the steps put them together. *)
(***************************************************************************)
EXTENDS NotificationActivation, FiniteSetTheorems, SequenceTheorems, TLAPS

----------------------------------------------------------------------------
(* What is true of a DeliveryState. *)

\* Its fields, except for what the list of opened targets contains, which no
\* step needs to know.
Typed(st) ==
    st \in [session : Session \cup {NoSession},
            pending : Seq(Activation), reserved : Slot, inFlight : Slot,
            completed : {st.completed},
            rejections : Seq(Id \cup {Refused}),
            admitted : SUBSET Id,
            terminated : [Id -> Seq(Terminal)]]

HeldIdsIn(st) == {act.id : act \in HeldIn(st.reserved) \cup HeldIn(st.inFlight)}

\* The ids in a queue.
IdsOf(queue) == {queue[i].id : i \in DOMAIN queue}

LiveIds(st) == HeldIdsIn(st) \cup IdsOf(st.pending)

OneSlot(st) == st.reserved = <<>> \/ st.inFlight = <<>>

Increasing(queue) == \A i, j \in DOMAIN queue : i < j => queue[i].id < queue[j].id

Before(id, queue) == \A i \in DOMAIN queue : id < queue[i].id

After(id, queue) == \A i \in DOMAIN queue : queue[i].id < id

Ordered(st) ==
    /\ OneSlot(st)
    /\ Increasing(st.pending)
    /\ \A h \in HeldIdsIn(st) : Before(h, st.pending)

\* What was admitted is live, in hand, or ended once; nothing else was clicked.
Balanced(st, n, hand) ==
    /\ st.admitted \subseteq 1..n
    /\ LiveIds(st) \cup hand \subseteq st.admitted
    /\ LiveIds(st) \cap hand = {}
    /\ \A i \in Id :
        Len(st.terminated[i]) = IF i \in st.admitted \ (LiveIds(st) \cup hand) THEN 1 ELSE 0

Fits(st) == LiveCount(st) <= Capacity

\* No end is forgotten.
Remembers(st, next) ==
    \A i \in Id : st.terminated[i] # <<>> => next.terminated[i] # <<>>

Sound(st, n) == Typed(st) /\ Ordered(st) /\ Balanced(st, n, {}) /\ Fits(st)

----------------------------------------------------------------------------
(* The process, the page and the shell together. *)

\* A call that has reserved finds its own reservation.
CallsHold ==
    \A s \in Session :
        calls[s].step \in {"validate", "commit", "reject"} =>
            state.reserved # <<>> /\ state.reserved[1] = s

\* What happened to an activation that the page is opening.
PageHolds ==
    page.phase \in {"opening", "acking"} =>
        \/ state.inFlight # <<>> /\ state.inFlight[2].id = page.id
        \/ state.terminated[page.id] # <<>>

InFlightForListener == state.inFlight # <<>> => state.inFlight[1] = state.session

RestTyped ==
    /\ calls \in [Session -> Call]
    /\ page \in Page
    /\ acks \subseteq Acknowledgement
    /\ clicks \in 0..MaxClicks /\ clock \in 0..MaxClock

\* A page that is gone can be loaded again.
PageReturns == page.phase = "gone" => page.session < MaxSessions

Invariant ==
    /\ Sound(state, clicks)
    /\ RestTyped /\ PageReturns
    /\ CallsHold /\ InFlightForListener /\ PageHolds

----------------------------------------------------------------------------
(* Fields, slots and queues. *)

\* The types, field by field.
LEMMA FieldTypes ==
    ASSUME NEW st, Typed(st)
    PROVE  /\ st.session \in Session \cup {NoSession}
           /\ st.pending \in Seq(Activation)
           /\ st.reserved \in Slot /\ st.inFlight \in Slot
           /\ st.rejections \in Seq(Id \cup {Refused})
           /\ st.admitted \in SUBSET Id
           /\ st.terminated \in [Id -> Seq(Terminal)]
BY DEF Typed

\* A slot that is taken.
LEMMA SlotTypes ==
    ASSUME NEW slot \in Slot, slot # <<>>
    PROVE  slot[1] \in Session /\ slot[2] \in Activation /\ HeldIn(slot) = {slot[2]}
BY DEF Slot, HeldIn

LEMMA PlacedTypes ==
    ASSUME NEW s \in Session, NEW act \in Activation
    PROVE  /\ <<s, act>> \in Slot /\ <<s, act>> # <<>>
           /\ <<s, act>>[1] = s /\ <<s, act>>[2] = act
           /\ HeldIn(<<s, act>>) = {act}
BY DEF Slot, HeldIn

LEMMA EmptySlot == <<>> \in Slot /\ HeldIn(<<>>) = {}
BY DEF Slot, HeldIn

LEMMA ActivationFields ==
    ASSUME NEW act \in Activation
    PROVE  /\ act.id \in Id /\ act.id \in Nat /\ act.id > 0 /\ act.target \in Target
           /\ act.attempts \in 0..MaxAttempts /\ act.requeues \in 0..MaxRequeues
           /\ act.at \in 0..MaxClock
BY ActivationAssumption DEF ActivationAssumption, Activation, Id

\* How many places of the queue are taken.
Size(slot) == IF slot = <<>> THEN 0 ELSE 1

LEMMA LiveIs ==
    ASSUME NEW st, Typed(st)
    PROVE  /\ LiveCount(st) = Len(st.pending) + Size(st.reserved) + Size(st.inFlight)
           /\ LiveCount(st) \in Nat
<1>1. \A slot \in Slot : Cardinality(HeldIn(slot)) = Size(slot)
  BY SlotTypes, EmptySlot, FS_EmptySet, FS_Singleton DEF Size
<1>2. Len(st.pending) \in Nat
  BY FieldTypes, LenProperties
<1>3. Size(st.reserved) \in Nat /\ Size(st.inFlight) \in Nat
  BY DEF Size
<1>4. st.reserved \in Slot /\ st.inFlight \in Slot
  BY FieldTypes
<1> QED
  BY <1>1, <1>2, <1>3, <1>4 DEF LiveCount

\* The queue without its first, with one more at its end, or at its front.
LEMMA TailOfQueue ==
    ASSUME NEW q \in Seq(Activation), q # <<>>
    PROVE  /\ Head(q) \in Activation /\ Tail(q) \in Seq(Activation)
           /\ Len(q) \in Nat /\ Len(Tail(q)) = Len(q) - 1
           /\ DOMAIN q = 1..Len(q) /\ DOMAIN Tail(q) = 1..(Len(q) - 1)
           /\ 1 \in DOMAIN q /\ Head(q) = q[1]
           /\ \A i \in DOMAIN Tail(q) : i + 1 \in DOMAIN q /\ Tail(q)[i] = q[i + 1]
<1>1. /\ Head(q) \in Activation /\ Tail(q) \in Seq(Activation)
      /\ Len(Tail(q)) = Len(q) - 1
      /\ \A i \in 1..Len(Tail(q)) : Tail(q)[i] = q[i + 1]
  BY HeadTailProperties
<1> QED
  BY <1>1, LenProperties, EmptySeq

LEMMA FrontOfQueue ==
    ASSUME NEW q \in Seq(Activation), NEW act \in Activation
    PROVE  /\ <<act>> \o q \in Seq(Activation)
           /\ Len(q) \in Nat /\ Len(<<act>> \o q) = Len(q) + 1
           /\ DOMAIN q = 1..Len(q) /\ DOMAIN (<<act>> \o q) = 1..(Len(q) + 1)
           /\ (<<act>> \o q)[1] = act
           /\ \A i \in DOMAIN q : (<<act>> \o q)[i + 1] = q[i]
<1>1. /\ <<act>> \in Seq(Activation) /\ Len(<<act>>) = 1 /\ <<act>>[1] = act
  OBVIOUS
<1>2. /\ <<act>> \o q \in Seq(Activation)
      /\ Len(<<act>> \o q) = 1 + Len(q)
      /\ \A i \in 1..(1 + Len(q)) :
           (<<act>> \o q)[i] = IF i <= 1 THEN <<act>>[i] ELSE q[i - 1]
  BY <1>1, ConcatProperties
<1> QED
  BY <1>1, <1>2, LenProperties

LEMMA EndOfQueue ==
    ASSUME NEW q \in Seq(Activation), NEW act \in Activation
    PROVE  /\ Append(q, act) \in Seq(Activation)
           /\ Len(q) \in Nat /\ Len(Append(q, act)) = Len(q) + 1
           /\ DOMAIN q = 1..Len(q) /\ DOMAIN Append(q, act) = 1..(Len(q) + 1)
           /\ Append(q, act)[Len(q) + 1] = act
           /\ \A i \in DOMAIN q : Append(q, act)[i] = q[i]
BY AppendProperties, LenProperties

\* Order at either end of the queue.
LEMMA TailOrder ==
    ASSUME NEW q \in Seq(Activation), q # <<>>, Increasing(q)
    PROVE  /\ Increasing(Tail(q)) /\ Before(Head(q).id, Tail(q))
           /\ \A id \in Nat : Before(id, q) => Before(id, Tail(q)) /\ id < Head(q).id
BY TailOfQueue DEF Increasing, Before

LEMMA FrontOrder ==
    ASSUME NEW q \in Seq(Activation), NEW act \in Activation,
           Increasing(q), Before(act.id, q)
    PROVE  Increasing(<<act>> \o q)
<1> DEFINE r == <<act>> \o q
<1>1. \A i \in DOMAIN r : i # 1 => i - 1 \in DOMAIN q /\ r[i] = q[i - 1]
  BY FrontOfQueue
<1>2. SUFFICES ASSUME NEW i \in DOMAIN r, NEW j \in DOMAIN r, i < j
               PROVE  r[i].id < r[j].id
  BY DEF Increasing
<1>3. i \in Int /\ j \in Int /\ j # 1 /\ r[1] = act
  BY <1>2, FrontOfQueue
<1>4. j - 1 \in DOMAIN q /\ r[j] = q[j - 1]
  BY <1>1, <1>3
<1>5. CASE i = 1
  BY <1>3, <1>4, <1>5 DEF Before
<1>6. CASE i # 1
  BY <1>1, <1>2, <1>3, <1>4, <1>6 DEF Increasing
<1> QED
  BY <1>5, <1>6

LEMMA EndOrder ==
    ASSUME NEW q \in Seq(Activation), NEW act \in Activation,
           Increasing(q), After(act.id, q)
    PROVE  /\ Increasing(Append(q, act))
           /\ \A id \in Nat : Before(id, q) /\ id < act.id => Before(id, Append(q, act))
BY EndOfQueue DEF Increasing, Before, After

\* The ids of a queue that one joins or leaves.
LEMMA IdsOfQueues ==
    ASSUME NEW q \in Seq(Activation)
    PROVE  /\ IdsOf(q) \subseteq Id
           /\ \A act \in Activation : IdsOf(<<act>> \o q) = IdsOf(q) \cup {act.id}
           /\ \A act \in Activation : IdsOf(Append(q, act)) = IdsOf(q) \cup {act.id}
           /\ q # <<>> => IdsOf(q) = IdsOf(Tail(q)) \cup {Head(q).id}
<1>1. IdsOf(q) \subseteq Id
  BY ActivationFields, LenProperties, ElementOfSeq DEF IdsOf
<1>2. ASSUME NEW act \in Activation
      PROVE  IdsOf(<<act>> \o q) = IdsOf(q) \cup {act.id}
  <2> DEFINE r == <<act>> \o q
  <2>1. /\ DOMAIN q = 1..Len(q) /\ DOMAIN r = 1..(Len(q) + 1) /\ Len(q) \in Nat
        /\ r[1] = act /\ \A i \in DOMAIN q : r[i + 1] = q[i]
    BY FrontOfQueue
  <2>2. \A i \in DOMAIN r : i = 1 \/ (i - 1 \in DOMAIN q /\ r[i] = q[i - 1])
    BY <2>1
  <2>3. 1 \in DOMAIN r /\ \A i \in DOMAIN q : i + 1 \in DOMAIN r
    BY <2>1
  <2>4. IdsOf(r) \subseteq IdsOf(q) \cup {act.id}
    BY <2>1, <2>2 DEF IdsOf
  <2>5. IdsOf(q) \cup {act.id} \subseteq IdsOf(r)
    BY <2>1, <2>3 DEF IdsOf
  <2> QED
    BY <2>4, <2>5
<1>3. ASSUME NEW act \in Activation
      PROVE  IdsOf(Append(q, act)) = IdsOf(q) \cup {act.id}
  <2> DEFINE r == Append(q, act)
  <2>1. /\ DOMAIN q = 1..Len(q) /\ DOMAIN r = 1..(Len(q) + 1) /\ Len(q) \in Nat
        /\ r[Len(q) + 1] = act /\ \A i \in DOMAIN q : r[i] = q[i]
    BY EndOfQueue
  <2>2. \A i \in DOMAIN r : i = Len(q) + 1 \/ i \in DOMAIN q
    BY <2>1
  <2>3. Len(q) + 1 \in DOMAIN r /\ \A i \in DOMAIN q : i \in DOMAIN r
    BY <2>1
  <2>4. IdsOf(r) \subseteq IdsOf(q) \cup {act.id}
    BY <2>1, <2>2 DEF IdsOf
  <2>5. IdsOf(q) \cup {act.id} \subseteq IdsOf(r)
    BY <2>1, <2>3 DEF IdsOf
  <2> QED
    BY <2>4, <2>5
<1>4. ASSUME q # <<>>
      PROVE  IdsOf(q) = IdsOf(Tail(q)) \cup {Head(q).id}
  <2>1. /\ DOMAIN q = 1..Len(q) /\ DOMAIN Tail(q) = 1..(Len(q) - 1) /\ Len(q) \in Nat
        /\ 1 \in DOMAIN q /\ Head(q) = q[1]
        /\ \A i \in DOMAIN Tail(q) : i + 1 \in DOMAIN q /\ Tail(q)[i] = q[i + 1]
    BY <1>4, TailOfQueue
  <2>2. \A i \in DOMAIN q : i = 1 \/ (i - 1 \in DOMAIN Tail(q) /\ Tail(q)[i - 1] = q[i])
    BY <2>1
  <2>3. ASSUME NEW i \in DOMAIN q
        PROVE  q[i].id \in IdsOf(Tail(q)) \cup {Head(q).id}
    <3>1. CASE i = 1
      BY <2>1, <3>1
    <3>2. CASE i # 1
      BY <2>2, <3>2 DEF IdsOf
    <3> QED
      BY <3>1, <3>2
  <2>4. IdsOf(Tail(q)) \cup {Head(q).id} \subseteq IdsOf(q)
    BY <2>1 DEF IdsOf
  <2>5. IdsOf(q) \subseteq IdsOf(Tail(q)) \cup {Head(q).id}
    BY <2>3 DEF IdsOf
  <2> QED
    BY <2>4, <2>5
<1> QED
  BY <1>1, <1>2, <1>3, <1>4

\* What comes before a queue is not in it.
LEMMA BeforeIsOutside ==
    ASSUME NEW q \in Seq(Activation), NEW id \in Nat, Before(id, q)
    PROVE  id \notin IdsOf(q)
<1>1. \A i \in DOMAIN q : q[i].id \in Nat
  BY ActivationFields, LenProperties, ElementOfSeq
<1> QED
  BY <1>1 DEF Before, IdsOf

----------------------------------------------------------------------------
(* The transitions of DeliveryState. *)

\* What is held, slot by slot.
LEMMA HeldTypes ==
    ASSUME NEW st, Typed(st)
    PROVE  /\ HeldIdsIn(st) \subseteq Id /\ LiveIds(st) \subseteq Id
           /\ st.reserved = <<>> /\ st.inFlight = <<>> => HeldIdsIn(st) = {}
           /\ st.reserved # <<>> /\ st.inFlight = <<>> =>
                /\ st.reserved[2] \in Activation
                /\ HeldIdsIn(st) = {st.reserved[2].id}
           /\ st.reserved = <<>> /\ st.inFlight # <<>> =>
                /\ st.inFlight[2] \in Activation
                /\ HeldIdsIn(st) = {st.inFlight[2].id}
<1>1. st.reserved \in Slot /\ st.inFlight \in Slot /\ st.pending \in Seq(Activation)
  BY FieldTypes
<1>2. HeldIn(st.reserved) \subseteq Activation /\ HeldIn(st.inFlight) \subseteq Activation
  BY <1>1, SlotTypes, EmptySlot
<1>3. HeldIdsIn(st) \subseteq Id /\ LiveIds(st) \subseteq Id
  BY <1>1, <1>2, ActivationFields, IdsOfQueues DEF HeldIdsIn, LiveIds
<1> QED
  BY <1>1, <1>3, SlotTypes, EmptySlot DEF HeldIdsIn

\* A bounded list.
LEMMA NewestType ==
    ASSUME NEW S, NEW q \in Seq(S), NEW e \in S, NEW n
    PROVE  Newest(Append(q, e), n) \in Seq(S)
<1>1. Append(q, e) \in Seq(S) /\ Append(q, e) # <<>>
  BY AppendProperties
<1>2. Tail(Append(q, e)) \in Seq(S)
  BY <1>1, HeadTailProperties
<1> QED
  BY <1>1, <1>2 DEF Newest

\* Recording the end of an activation touches the record and the notices.
LEMMA EndFields ==
    ASSUME NEW st, Typed(st), NEW act \in Activation,
           NEW next \in {TerminateAcked(st, act), TerminateRejected(st, act)}
    PROVE  /\ Typed(next)
           /\ next.session = st.session /\ next.pending = st.pending
           /\ next.reserved = st.reserved /\ next.inFlight = st.inFlight
           /\ next.admitted = st.admitted
           /\ Len(next.terminated[act.id]) = Len(st.terminated[act.id]) + 1
           /\ \A i \in Id \ {act.id} : next.terminated[i] = st.terminated[i]
<1> DEFINE Told(outcome) == [st.terminated EXCEPT ![act.id] = Append(@, outcome)]
<1>1. /\ act.id \in Id
      /\ st.terminated \in [Id -> Seq(Terminal)]
      /\ st.rejections \in Seq(Id \cup {Refused})
  BY FieldTypes, ActivationFields
<1>2. ASSUME NEW outcome \in Terminal
      PROVE  /\ Told(outcome) \in [Id -> Seq(Terminal)]
             /\ Len(Told(outcome)[act.id]) = Len(st.terminated[act.id]) + 1
             /\ \A i \in Id \ {act.id} : Told(outcome)[i] = st.terminated[i]
  BY <1>1, AppendProperties
<1>3. CASE next = TerminateAcked(st, act)
  BY <1>1, <1>2, <1>3 DEF TerminateAcked, Typed, Terminal
<1>4. CASE next = TerminateRejected(st, act)
  <2>1. PushRejection(st, act.id) =
          [st EXCEPT !.rejections = Newest(Append(@, act.id), RejectionCapacity)]
    BY DEF PushRejection
  <2>2. Newest(Append(st.rejections, act.id), RejectionCapacity) \in Seq(Id \cup {Refused})
    BY <1>1, NewestType
  <2>3. next = [PushRejection(st, act.id) EXCEPT !.terminated[act.id] = Append(@, "rejected")]
    BY <1>4 DEF TerminateRejected
  <2>4. /\ Typed(PushRejection(st, act.id))
        /\ PushRejection(st, act.id).terminated = st.terminated
        /\ PushRejection(st, act.id).session = st.session
        /\ PushRejection(st, act.id).pending = st.pending
        /\ PushRejection(st, act.id).reserved = st.reserved
        /\ PushRejection(st, act.id).inFlight = st.inFlight
        /\ PushRejection(st, act.id).admitted = st.admitted
    BY <2>1, <2>2 DEF Typed
  <2>5. "rejected" \in Terminal
    BY DEF Terminal
  <2> QED
    BY <1>1, <1>2, <2>3, <2>4, <2>5 DEF Typed
<1> QED
  BY <1>3, <1>4

\* An end is recorded, and no other is lost.
LEMMA EndRemembers ==
    ASSUME NEW st, Typed(st), NEW act \in Activation,
           NEW next \in {TerminateAcked(st, act), TerminateRejected(st, act)}
    PROVE  Remembers(st, next) /\ next.terminated[act.id] # <<>>
<1>1. /\ Typed(next) /\ Len(next.terminated[act.id]) = Len(st.terminated[act.id]) + 1
      /\ \A i \in Id \ {act.id} : next.terminated[i] = st.terminated[i]
  BY EndFields
<1>2. act.id \in Id /\ st.terminated[act.id] \in Seq(Terminal)
  BY FieldTypes, ActivationFields
<1>3. Len(st.terminated[act.id]) \in Nat
  BY <1>2, LenProperties
<1>4. next.terminated[act.id] # <<>>
  BY <1>1, <1>3, EmptySeq
<1> QED
  BY <1>1, <1>4 DEF Remembers

\* A notice on its own.
LEMMA NoticeFields ==
    ASSUME NEW st, Typed(st), NEW id \in Id \cup {Refused}
    PROVE  LET next == PushRejection(st, id)
           IN  /\ Typed(next)
               /\ next.session = st.session /\ next.pending = st.pending
               /\ next.reserved = st.reserved /\ next.inFlight = st.inFlight
               /\ next.admitted = st.admitted /\ next.terminated = st.terminated
<1>1. st.rejections \in Seq(Id \cup {Refused})
  BY FieldTypes
<1>2. Newest(Append(st.rejections, id), RejectionCapacity) \in Seq(Id \cup {Refused})
  BY <1>1, NewestType
<1> QED
  BY <1>2 DEF PushRejection, Typed

\* An activation in hand ends.
LEMMA Finish ==
    ASSUME NEW st, Typed(st), NEW n \in Nat, NEW hand, Balanced(st, n, hand),
           NEW act \in Activation, act.id \in hand,
           NEW next \in {TerminateAcked(st, act), TerminateRejected(st, act)}
    PROVE  Balanced(next, n, hand \ {act.id}) /\ LiveIds(next) = LiveIds(st)
<1>1. /\ next.pending = st.pending /\ next.reserved = st.reserved
      /\ next.inFlight = st.inFlight /\ next.admitted = st.admitted
      /\ Len(next.terminated[act.id]) = Len(st.terminated[act.id]) + 1
      /\ \A i \in Id \ {act.id} : next.terminated[i] = st.terminated[i]
  BY EndFields
<1>2. LiveIds(next) = LiveIds(st)
  BY <1>1 DEF LiveIds, HeldIdsIn
<1>3. act.id \in Id
  BY ActivationFields
<1>4. ASSUME NEW i \in Id
      PROVE  Len(next.terminated[i]) =
                IF i \in next.admitted \ (LiveIds(next) \cup (hand \ {act.id})) THEN 1 ELSE 0
  <2>1. CASE i = act.id
    <3>1. i \in st.admitted \cap hand /\ i \notin LiveIds(st)
      BY <2>1 DEF Balanced
    <3>2. Len(st.terminated[i]) = 0
      BY <3>1 DEF Balanced
    <3>3. i \in next.admitted \ (LiveIds(next) \cup (hand \ {act.id}))
      BY <1>1, <1>2, <2>1, <3>1
    <3>4. Len(next.terminated[i]) = 1
      BY <1>1, <2>1, <3>2
    <3> QED
      BY <3>3, <3>4
  <2>2. CASE i # act.id
    BY <1>1, <1>2, <2>2 DEF Balanced
  <2> QED
    BY <2>1, <2>2
<1> QED
  BY <1>1, <1>2, <1>4 DEF Balanced

\* The shape of what stays the same when an activation changes its place.
LEMMA Moved ==
    ASSUME NEW st, NEW next, NEW n \in Nat, NEW hand, NEW hand2,
           Balanced(st, n, hand),
           next.admitted = st.admitted, next.terminated = st.terminated,
           LiveIds(next) \cup hand2 = LiveIds(st) \cup hand,
           LiveIds(next) \cap hand2 = {}
    PROVE  Balanced(next, n, hand2)
BY DEF Balanced

\* The first of the queue is taken in hand.
LEMMA TakeFirst ==
    ASSUME NEW st, Typed(st), Ordered(st), NEW n \in Nat, NEW hand, Balanced(st, n, hand),
           st.pending # <<>>,
           NEW next, Typed(next), next.pending = Tail(st.pending),
           next.reserved = st.reserved, next.inFlight = st.inFlight,
           next.admitted = st.admitted, next.terminated = st.terminated
    PROVE  /\ Head(st.pending) \in Activation
           /\ Ordered(next) /\ Before(Head(st.pending).id, next.pending)
           /\ Balanced(next, n, hand \cup {Head(st.pending).id})
           /\ Head(st.pending).id \notin hand
           /\ LiveCount(next) = LiveCount(st) - 1
<1> DEFINE act == Head(st.pending)
<1>1. st.pending \in Seq(Activation)
  BY FieldTypes
<1>2. /\ act \in Activation /\ act.id \in Nat /\ Len(Tail(st.pending)) = Len(st.pending) - 1
      /\ Len(st.pending) \in Nat /\ next.pending \in Seq(Activation)
  BY <1>1, TailOfQueue, ActivationFields
<1>3. HeldIdsIn(next) = HeldIdsIn(st) /\ HeldIdsIn(st) \subseteq Id
  BY HeldTypes DEF HeldIdsIn
<1>4. \A h \in HeldIdsIn(st) : h \in Nat
  BY <1>3, ActivationAssumption DEF Id, ActivationAssumption
<1>5. Ordered(next) /\ Before(act.id, next.pending)
  BY <1>1, <1>3, <1>4, TailOrder DEF Ordered, OneSlot
<1>6. IdsOf(st.pending) = IdsOf(next.pending) \cup {act.id}
  BY <1>1, IdsOfQueues
<1>7. act.id \notin IdsOf(next.pending)
  BY <1>2, <1>5, BeforeIsOutside
<1>8. act.id \notin HeldIdsIn(st)
  BY <1>1, <1>2, <1>4, TailOrder DEF Ordered
<1>9. act.id \notin hand
  BY <1>6 DEF Balanced, LiveIds
<1>10. Balanced(next, n, hand \cup {act.id})
  <2>1. LiveIds(st) \cap hand = {}
    BY DEF Balanced
  <2>2. /\ LiveIds(next) \cup (hand \cup {act.id}) = LiveIds(st) \cup hand
        /\ LiveIds(next) \cap (hand \cup {act.id}) = {}
    BY <1>3, <1>6, <1>7, <1>8, <2>1 DEF LiveIds
  <2> QED
    BY <2>2, Moved
<1>11. LiveCount(next) = LiveCount(st) - 1
  <2>1. Size(st.reserved) \in Nat /\ Size(st.inFlight) \in Nat
    BY DEF Size
  <2>2. /\ LiveCount(st) = Len(st.pending) + Size(st.reserved) + Size(st.inFlight)
        /\ LiveCount(next) = Len(next.pending) + Size(st.reserved) + Size(st.inFlight)
    BY LiveIs
  <2>3. Len(next.pending) = Len(st.pending) - 1
    BY <1>2
  <2> QED
    BY <1>2, <2>1, <2>2, <2>3
<1> QED
  BY <1>2, <1>5, <1>9, <1>10, <1>11

\* What is in a slot is taken in hand.
LEMMA TakeHeld ==
    ASSUME NEW st, Typed(st), Ordered(st), NEW n \in Nat, Balanced(st, n, {}),
           NEW next, Typed(next), next.pending = st.pending,
           next.admitted = st.admitted, next.terminated = st.terminated,
           next.reserved = <<>>, next.inFlight = <<>>,
           NEW slot \in {st.reserved, st.inFlight}, slot # <<>>
    PROVE  /\ slot[2] \in Activation
           /\ Ordered(next) /\ Before(slot[2].id, next.pending)
           /\ Balanced(next, n, {slot[2].id})
           /\ LiveCount(next) = LiveCount(st) - 1
<1>1. /\ slot[2] \in Activation /\ HeldIdsIn(st) = {slot[2].id}
      /\ HeldIdsIn(next) = {}
  BY HeldTypes DEF Ordered, OneSlot
<1>2. st.pending \in Seq(Activation) /\ slot[2].id \in Nat
  BY <1>1, FieldTypes, ActivationFields
<1>3. Ordered(next) /\ Before(slot[2].id, next.pending)
  BY <1>1 DEF Ordered, OneSlot
<1>4. slot[2].id \notin IdsOf(st.pending)
  BY <1>2, <1>3, BeforeIsOutside
<1>5. Balanced(next, n, {slot[2].id})
  <2>1. /\ LiveIds(next) \cup {slot[2].id} = LiveIds(st) \cup {}
        /\ LiveIds(next) \cap {slot[2].id} = {}
    BY <1>1, <1>4 DEF LiveIds
  <2> QED
    BY <2>1, Moved
<1>6. LiveCount(next) = LiveCount(st) - 1
  <2>1. Size(st.reserved) + Size(st.inFlight) = 1 /\ Size(next.reserved) + Size(next.inFlight) = 0
    BY DEF Size, Ordered, OneSlot
  <2>2. Len(st.pending) \in Nat /\ Size(st.reserved) \in Nat /\ Size(st.inFlight) \in Nat
    BY <1>2, LenProperties DEF Size
  <2>3. /\ LiveCount(st) = Len(st.pending) + Size(st.reserved) + Size(st.inFlight)
        /\ LiveCount(next) = Len(st.pending) + Size(next.reserved) + Size(next.inFlight)
    BY LiveIs
  <2>4. Size(next.reserved) = 0 /\ Size(next.inFlight) = 0
    BY DEF Size
  <2> QED
    BY <2>1, <2>2, <2>3, <2>4
<1> QED
  BY <1>1, <1>3, <1>5, <1>6

\* What is in hand goes back to the front of the queue; nothing else is held.
LEMMA GiveBack ==
    ASSUME NEW st, Typed(st), Ordered(st), NEW n \in Nat,
           NEW act \in Activation, Balanced(st, n, {act.id}), Before(act.id, st.pending),
           st.reserved = <<>>, st.inFlight = <<>>
    PROVE  LET next == PushFront(st, act)
           IN  /\ Typed(next) /\ Ordered(next) /\ Balanced(next, n, {})
               /\ LiveCount(next) = LiveCount(st) + 1
               /\ next.session = st.session /\ next.terminated = st.terminated
               /\ next.reserved = <<>> /\ next.inFlight = <<>>
<1> DEFINE next == PushFront(st, act)
<1>1. st.pending \in Seq(Activation) /\ <<act>> \o st.pending \in Seq(Activation)
  BY FieldTypes, FrontOfQueue
<1>2. /\ Typed(next) /\ next.pending = <<act>> \o st.pending
      /\ next.session = st.session /\ next.terminated = st.terminated
      /\ next.reserved = <<>> /\ next.inFlight = <<>> /\ next.admitted = st.admitted
  BY <1>1 DEF PushFront, Typed
<1>3. HeldIdsIn(st) = {} /\ HeldIdsIn(next) = {}
  BY <1>2, HeldTypes
<1>4. Ordered(next)
  BY <1>1, <1>2, <1>3, FrontOrder DEF Ordered, OneSlot
<1>5. Balanced(next, n, {})
  <2>1. IdsOf(next.pending) = IdsOf(st.pending) \cup {act.id}
    BY <1>1, <1>2, IdsOfQueues
  <2>2. /\ LiveIds(next) \cup {} = LiveIds(st) \cup {act.id}
        /\ LiveIds(next) \cap {} = {}
    BY <1>3, <2>1 DEF LiveIds
  <2> QED
    BY <1>2, <2>2, Moved
<1>6. LiveCount(next) = LiveCount(st) + 1
  <2>1. /\ LiveCount(st) = Len(st.pending) + Size(st.reserved) + Size(st.inFlight)
        /\ LiveCount(next) = Len(next.pending) + Size(st.reserved) + Size(st.inFlight)
    BY <1>2, LiveIs
  <2>2. Len(st.pending) \in Nat /\ Len(next.pending) = Len(st.pending) + 1
    BY <1>1, <1>2, FrontOfQueue
  <2>3. Size(st.reserved) = 0 /\ Size(st.inFlight) = 0
    BY DEF Size
  <2> QED
    BY <2>1, <2>2, <2>3
<1> QED
  BY <1>2, <1>4, <1>5, <1>6

\* What is in hand is put in a slot, when both are empty.
LEMMA Hold ==
    ASSUME NEW st, Typed(st), Ordered(st), NEW n \in Nat,
           NEW act \in Activation, Balanced(st, n, {act.id}), Before(act.id, st.pending),
           st.reserved = <<>>, st.inFlight = <<>>, NEW s \in Session,
           NEW next, Typed(next), next.pending = st.pending,
           next.admitted = st.admitted, next.terminated = st.terminated,
           \/ next.reserved = <<s, act>> /\ next.inFlight = <<>>
           \/ next.reserved = <<>> /\ next.inFlight = <<s, act>>
    PROVE  /\ Ordered(next) /\ Balanced(next, n, {})
           /\ LiveCount(next) = LiveCount(st) + 1
<1>1. <<s, act>> # <<>> /\ <<s, act>>[2] = act
  BY PlacedTypes
<1>2. HeldIdsIn(st) = {} /\ HeldIdsIn(next) = {act.id}
  BY <1>1, HeldTypes
<1>3. Ordered(next)
  BY <1>2 DEF Ordered, OneSlot
<1>4. act.id \notin IdsOf(st.pending) /\ st.pending \in Seq(Activation)
  BY BeforeIsOutside, FieldTypes, ActivationFields
<1>5. Balanced(next, n, {})
  <2>1. /\ LiveIds(next) \cup {} = LiveIds(st) \cup {act.id}
        /\ LiveIds(next) \cap {} = {}
    BY <1>2 DEF LiveIds
  <2> QED
    BY <2>1, Moved
<1>6. LiveCount(next) = LiveCount(st) + 1
  <2>1. /\ LiveCount(st) = Len(st.pending) + Size(st.reserved) + Size(st.inFlight)
        /\ LiveCount(next) = Len(st.pending) + Size(next.reserved) + Size(next.inFlight)
    BY LiveIs
  <2>2. Len(st.pending) \in Nat
    BY <1>4, LenProperties
  <2>3. Size(st.reserved) = 0 /\ Size(st.inFlight) = 0
    BY DEF Size
  <2>4. \/ Size(next.reserved) = 1 /\ Size(next.inFlight) = 0
        \/ Size(next.reserved) = 0 /\ Size(next.inFlight) = 1
    BY <1>1 DEF Size
  <2> QED
    BY <2>1, <2>2, <2>3, <2>4
<1> QED
  BY <1>3, <1>5, <1>6

\* A new activation goes to the end of the queue.
LEMMA Enqueue ==
    ASSUME NEW st, Typed(st), Ordered(st), NEW n \in Nat,
           NEW act \in Activation, Balanced(st, n, {act.id}),
           \A id \in LiveIds(st) : id < act.id
    PROVE  LET next == [st EXCEPT !.pending = Append(@, act)]
           IN  /\ Typed(next) /\ Ordered(next) /\ Balanced(next, n, {})
               /\ LiveCount(next) = LiveCount(st) + 1
<1> DEFINE next == [st EXCEPT !.pending = Append(@, act)]
<1>1. st.pending \in Seq(Activation) /\ Append(st.pending, act) \in Seq(Activation)
  BY FieldTypes, EndOfQueue
<1>2. /\ Typed(next) /\ next.pending = Append(st.pending, act)
      /\ next.terminated = st.terminated /\ next.admitted = st.admitted
      /\ next.reserved = st.reserved /\ next.inFlight = st.inFlight
  BY <1>1 DEF Typed
<1>3. HeldIdsIn(next) = HeldIdsIn(st) /\ HeldIdsIn(st) \subseteq Nat
  <2>1. HeldIdsIn(st) \subseteq Id /\ Id \subseteq Nat
    BY HeldTypes, ActivationAssumption DEF Id, ActivationAssumption
  <2>2. HeldIdsIn(next) = HeldIdsIn(st)
    BY <1>2 DEF HeldIdsIn
  <2> QED
    BY <2>1, <2>2
<1>4. After(act.id, st.pending)
  BY DEF After, LiveIds, IdsOf
<1>5. \A h \in HeldIdsIn(st) : h < act.id
  BY DEF LiveIds
<1>6. Ordered(next)
  BY <1>1, <1>2, <1>3, <1>4, <1>5, EndOrder DEF Ordered, OneSlot
<1>7. Balanced(next, n, {})
  <2>1. IdsOf(next.pending) = IdsOf(st.pending) \cup {act.id}
    BY <1>1, <1>2, IdsOfQueues
  <2>2. /\ LiveIds(next) \cup {} = LiveIds(st) \cup {act.id}
        /\ LiveIds(next) \cap {} = {}
    BY <1>3, <2>1 DEF LiveIds
  <2> QED
    BY <1>2, <2>2, Moved
<1>8. LiveCount(next) = LiveCount(st) + 1
  <2>1. /\ LiveCount(st) = Len(st.pending) + Size(st.reserved) + Size(st.inFlight)
        /\ LiveCount(next) = Len(next.pending) + Size(st.reserved) + Size(st.inFlight)
    BY <1>2, LiveIs
  <2>2. Len(st.pending) \in Nat /\ Len(next.pending) = Len(st.pending) + 1
    BY <1>1, <1>2, EndOfQueue
  <2>3. Size(st.reserved) \in Nat /\ Size(st.inFlight) \in Nat
    BY DEF Size
  <2> QED
    BY <2>1, <2>2, <2>3
<1> QED
  BY <1>2, <1>6, <1>7, <1>8

\* An activation that was taken in hand ends; the rest is as it should be.
LEMMA FinishSound ==
    ASSUME NEW st, Typed(st), Ordered(st), NEW n \in Nat, Fits(st),
           NEW act \in Activation, Balanced(st, n, {act.id}),
           NEW next \in {TerminateAcked(st, act), TerminateRejected(st, act)}
    PROVE  Sound(next, n)
<1>1. /\ Typed(next) /\ next.pending = st.pending
      /\ next.reserved = st.reserved /\ next.inFlight = st.inFlight
  BY EndFields
<1>2. Balanced(next, n, {act.id} \ {act.id})
  BY Finish
<1>3. {act.id} \ {act.id} = {}
  OBVIOUS
<1>4. Ordered(next)
  BY <1>1 DEF Ordered, OneSlot, HeldIdsIn
<1>5. Fits(next)
  BY <1>1 DEF Fits, LiveCount
<1> QED
  BY <1>1, <1>2, <1>3, <1>4, <1>5 DEF Sound

\* The oldest that waits makes room for one that is in hand.
LEMMA RoomIsMade ==
    ASSUME NEW st, Typed(st), Ordered(st), NEW n \in Nat, NEW hand, Balanced(st, n, hand),
           Fits(st)
    PROVE  LET next == MadeRoom(st)
           IN  /\ Typed(next) /\ Ordered(next) /\ Balanced(next, n, hand) /\ Fits(next)
               /\ next.session = st.session /\ next.inFlight = st.inFlight
               /\ next.reserved = st.reserved
               /\ LiveIds(next) \subseteq LiveIds(st)
               /\ Remembers(st, next)
<1> DEFINE act == Head(st.pending)
           rest == [st EXCEPT !.pending = Tail(@)]
           next == TerminateRejected(rest, act)
<1>1. CASE LiveCount(st) >= Capacity /\ st.pending # <<>>
  <2>1. st.pending \in Seq(Activation) /\ Tail(st.pending) \in Seq(Activation)
    BY <1>1, FieldTypes, TailOfQueue
  <2>2. /\ Typed(rest) /\ rest.pending = Tail(st.pending) /\ rest.session = st.session
        /\ rest.reserved = st.reserved /\ rest.inFlight = st.inFlight
        /\ rest.admitted = st.admitted /\ rest.terminated = st.terminated
    BY <2>1 DEF Typed
  <2>3. /\ act \in Activation /\ Ordered(rest) /\ Balanced(rest, n, hand \cup {act.id})
        /\ act.id \notin hand /\ LiveCount(rest) = LiveCount(st) - 1
    BY <1>1, <2>2, TakeFirst
  <2>4. /\ Typed(next) /\ next.session = rest.session /\ next.pending = rest.pending
        /\ next.reserved = rest.reserved /\ next.inFlight = rest.inFlight
        /\ Len(next.terminated[act.id]) = Len(rest.terminated[act.id]) + 1
        /\ \A i \in Id \ {act.id} : next.terminated[i] = rest.terminated[i]
    BY <2>2, <2>3, EndFields
  <2>5. Balanced(next, n, hand) /\ LiveIds(next) = LiveIds(rest)
    <3>1. (hand \cup {act.id}) \ {act.id} = hand
      BY <2>3
    <3>2. act.id \in hand \cup {act.id}
      OBVIOUS
    <3> HIDE DEF next, rest, act
    <3>3. next \in {TerminateAcked(rest, act), TerminateRejected(rest, act)}
      BY DEF next
    <3>4. Balanced(next, n, (hand \cup {act.id}) \ {act.id}) /\ LiveIds(next) = LiveIds(rest)
      BY <2>2, <2>3, <3>2, <3>3, Finish
    <3> QED
      BY <3>1, <3>4
  <2>6. Ordered(next)
    BY <2>3, <2>4 DEF Ordered, OneSlot, HeldIdsIn
  <2>7. LiveCount(next) = LiveCount(rest) /\ LiveCount(rest) <= Capacity
    <3>1. LiveCount(st) \in Nat /\ Capacity \in Nat
      BY LiveIs, ActivationAssumption DEF ActivationAssumption
    <3>2. LiveCount(next) = LiveCount(rest)
      BY <2>4 DEF LiveCount
    <3> QED
      BY <2>3, <3>1, <3>2 DEF Fits
  <2>8. LiveIds(next) \subseteq LiveIds(st)
    BY <2>1, <2>2, <2>5, <1>1, IdsOfQueues DEF LiveIds, HeldIdsIn
  <2>9. Remembers(st, next)
    BY <2>2, <2>3, EndRemembers DEF Remembers
  <2>10. MadeRoom(st) = next
    BY <1>1 DEF MadeRoom
  <2> QED
    BY <2>2, <2>4, <2>5, <2>6, <2>7, <2>8, <2>9, <2>10 DEF Fits
<1>2. CASE ~(LiveCount(st) >= Capacity /\ st.pending # <<>>)
  <2>1. MadeRoom(st) = st
    BY <1>2 DEF MadeRoom
  <2> QED
    BY <2>1 DEF Remembers
<1> QED
  BY <1>1, <1>2

\* handle_action admits a click.
LEMMA AdmitSound ==
    ASSUME NEW st, NEW n \in Nat, Sound(st, n), NEW act \in Activation, act.id = n + 1
    PROVE  LET next == Admit(st, act)
           IN  /\ Sound(next, n + 1) /\ Remembers(st, next)
               /\ next.session = st.session /\ next.inFlight = st.inFlight
               /\ next.reserved = st.reserved
<1> DEFINE counted == [st EXCEPT !.admitted = @ \cup {act.id}]
           room == MadeRoom(counted)
           queued == [room EXCEPT !.pending = Append(@, act)]
           refused == TerminateRejected(room, act)
<1>1. /\ act.id \in Id /\ st.admitted \subseteq Id
      /\ Typed(st) /\ Ordered(st) /\ Balanced(st, n, {}) /\ Fits(st)
  BY ActivationFields, FieldTypes DEF Sound
<1>2. /\ Typed(counted) /\ counted.pending = st.pending /\ counted.session = st.session
      /\ counted.reserved = st.reserved /\ counted.inFlight = st.inFlight
      /\ counted.admitted = st.admitted \cup {act.id} /\ counted.terminated = st.terminated
  BY <1>1 DEF Typed
<1>3. Ordered(counted) /\ Fits(counted) /\ LiveIds(counted) = LiveIds(st)
  BY <1>1, <1>2 DEF Ordered, OneSlot, HeldIdsIn, Fits, LiveCount, LiveIds
<1>4. Balanced(counted, n + 1, {act.id})
  <2>1. act.id \notin st.admitted
    BY <1>1 DEF Balanced
  <2>2. LiveIds(st) \subseteq st.admitted
    BY <1>1 DEF Balanced
  <2>3. st.admitted \cup {act.id} \subseteq 1..(n + 1)
    BY <1>1 DEF Balanced
  <2>4. st.admitted \ (LiveIds(st) \cup {}) = (st.admitted \cup {act.id}) \ (LiveIds(st) \cup {act.id})
    BY <2>1
  <2>5. \A i \in Id : Len(st.terminated[i]) =
            IF i \in st.admitted \ (LiveIds(st) \cup {}) THEN 1 ELSE 0
    BY <1>1 DEF Balanced
  <2> QED
    BY <1>2, <1>3, <2>1, <2>2, <2>3, <2>4, <2>5 DEF Balanced
<1>5. n + 1 \in Nat
  OBVIOUS
<1> HIDE DEF counted
<1>6. /\ Typed(room) /\ Ordered(room) /\ Balanced(room, n + 1, {act.id}) /\ Fits(room)
      /\ room.session = st.session /\ room.inFlight = st.inFlight
      /\ room.reserved = st.reserved
      /\ LiveIds(room) \subseteq LiveIds(st) /\ Remembers(st, room)
  BY <1>2, <1>3, <1>4, <1>5, RoomIsMade DEF Remembers
<1>7. \A id \in LiveIds(room) : id < act.id
  BY <1>1, <1>6 DEF Balanced
<1> HIDE DEF room
<1>8. CASE LiveCount(room) >= Capacity
  <2>1. Admit(st, act) = refused
    BY <1>8 DEF Admit, room, counted
  <2>2. Sound(refused, n + 1)
    BY <1>5, <1>6, FinishSound
  <2>3. /\ refused.session = room.session /\ refused.inFlight = room.inFlight
        /\ refused.reserved = room.reserved
    BY <1>6, EndFields
  <2>4. Remembers(st, refused)
    BY <1>6, EndRemembers DEF Remembers
  <2> QED
    BY <1>6, <2>1, <2>2, <2>3, <2>4
<1>9. CASE ~(LiveCount(room) >= Capacity)
  <2>1. Admit(st, act) = queued
    BY <1>9 DEF Admit, room, counted
  <2>2. /\ Typed(queued) /\ Ordered(queued) /\ Balanced(queued, n + 1, {})
        /\ LiveCount(queued) = LiveCount(room) + 1
    BY <1>5, <1>6, <1>7, Enqueue
  <2>3. LiveCount(room) \in Nat /\ Capacity \in Nat
    BY <1>6, LiveIs, ActivationAssumption DEF ActivationAssumption
  <2>4. Fits(queued)
    BY <1>9, <2>2, <2>3 DEF Fits
  <2>5. /\ queued.session = room.session /\ queued.inFlight = room.inFlight
        /\ queued.reserved = room.reserved /\ queued.terminated = room.terminated
    BY <1>6 DEF Typed
  <2> QED
    BY <1>6, <2>1, <2>2, <2>4, <2>5 DEF Sound, Remembers
<1> QED
  BY <1>8, <1>9

\* A notice that is shown, or pushed once more, changes nothing else.
LEMMA NoticeSound ==
    ASSUME NEW st, NEW n \in Nat, Sound(st, n), NEW next, Typed(next),
           next.pending = st.pending, next.reserved = st.reserved,
           next.inFlight = st.inFlight, next.admitted = st.admitted,
           next.terminated = st.terminated
    PROVE  Sound(next, n)
BY DEF Sound, Ordered, OneSlot, HeldIdsIn, LiveIds, Balanced, Fits, LiveCount

\* A click that is refused is counted, and not admitted.
LEMMA MoreClicks ==
    ASSUME NEW st, NEW n \in Nat, Sound(st, n)
    PROVE  Sound(st, n + 1)
BY DEF Sound, Balanced

----------------------------------------------------------------------------
(* The calls and the page. *)

\* The constants are numbers.
LEMMA Numbers ==
    /\ Capacity \in Nat \ {0} /\ MaxAttempts \in Nat /\ DrainAttempts \in Nat \ {0}
    /\ MaxDrain \in Nat /\ MaxRequeues \in Nat /\ MaxClicks \in Nat /\ MaxClock \in Nat
    /\ MaxSessions \in Nat \ {0}
BY ActivationAssumption DEF ActivationAssumption

\* The records of a call and of the page, field by field.
LEMMA CallTypes ==
    ASSUME NEW call \in Call
    PROVE  /\ call.step \in {"none", "reserve", "validate", "commit", "reject"}
           /\ call.step # "none" =>
                /\ call.left \in 1..DrainAttempts
                /\ call = [step |-> call.step, left |-> call.left]
BY DEF Call

LEMMA PageTypes ==
    ASSUME page \in Page
    PROVE  /\ page.session \in Session \cup {NoSession} /\ page.left \in 0..MaxDrain
           /\ page.phase \in {"idle", "draining", "taking"} =>
                /\ page.session \in Session
                /\ page = [session |-> page.session, phase |-> page.phase, left |-> page.left]
           /\ page.phase \in {"opening", "acking"} =>
                /\ page.session \in Session /\ page.id \in Id
                /\ page = [session |-> page.session, phase |-> page.phase,
                           left |-> page.left, id |-> page.id]
BY DEF Page

\* A call that ends with nothing, or that goes on with the next activation.
LEMMA Resumes ==
    ASSUME RestTyped, PageReturns, NEW s \in Session, calls[s].step # "none",
           Nothing(s) \/ Drained(s)
    PROVE  /\ calls' \in [Session -> Call] /\ page' \in Page
           /\ calls'[s].step \in {"none", "reserve"}
           /\ \A r \in Session \ {s} : calls'[r] = calls[r]
           /\ page' = page \/ page'.phase = "idle"
<1>1. /\ calls \in [Session -> Call] /\ page \in Page /\ calls[s] \in Call
  BY DEF RestTyped
<1>2. CASE Nothing(s)
  <2>1. [step |-> "none"] \in Call
    BY DEF Call
  <2>2. calls' = [calls EXCEPT ![s] = [step |-> "none"]]
    BY <1>2 DEF Nothing, Return
  <2>3. page' = page \/ (page.phase = "taking" /\ page' = [page EXCEPT !.phase = "idle"])
    BY <1>2 DEF Nothing, Return
  <2>4. page' \in Page /\ (page' = page \/ page'.phase = "idle")
    BY <1>1, <2>3, PageTypes DEF Page
  <2> QED
    BY <1>1, <2>1, <2>2, <2>4
<1>3. CASE Drained(s) /\ ~Nothing(s)
  <2>1. /\ calls[s].left > 1 /\ page' = page
        /\ calls' = [calls EXCEPT ![s] = [step |-> "reserve", left |-> calls[s].left - 1]]
    BY <1>1, <1>3 DEF Drained
  <2>2. calls[s].left - 1 \in 1..DrainAttempts
    BY <1>1, <2>1, CallTypes, Numbers
  <2>3. [step |-> "reserve", left |-> calls[s].left - 1] \in Call
    BY <2>2 DEF Call
  <2> QED
    BY <1>1, <2>1, <2>3
<1> QED
  BY <1>2, <1>3

\* A call that goes on with another step.
LEMMA Proceeds ==
    ASSUME RestTyped, NEW s \in Session, calls[s].step # "none",
           NEW step \in {"reserve", "validate", "commit", "reject"}, Proceed(s, step)
    PROVE  /\ calls' \in [Session -> Call] /\ page' = page
           /\ calls'[s].step = step
           /\ \A r \in Session \ {s} : calls'[r] = calls[r]
<1>1. calls \in [Session -> Call] /\ calls[s] \in Call
  BY DEF RestTyped
<1>2. /\ page' = page
      /\ calls' = [calls EXCEPT ![s] = [calls[s] EXCEPT !.step = step]]
  BY <1>1 DEF Proceed
<1>3. /\ [calls[s] EXCEPT !.step = step] \in Call
      /\ [calls[s] EXCEPT !.step = step].step = step
  BY <1>1, CallTypes DEF Call
<1> QED
  BY <1>1, <1>2, <1>3

\* The page keeps what it is opening, as long as no end is forgotten.
LEMMA PageKeeps ==
    ASSUME PageHolds, page \in Page, Remembers(state, state'),
           page'.phase \in {"opening", "acking"} =>
                page.phase \in {"opening", "acking"} /\ page'.id = page.id,
           \/ page'.phase \notin {"opening", "acking"}
           \/ state'.inFlight = state.inFlight
           \/ state.inFlight = <<>>
           \/ state'.terminated[state.inFlight[2].id] # <<>>
    PROVE  PageHolds'
<1>1. CASE page'.phase \notin {"opening", "acking"}
  BY <1>1 DEF PageHolds
<1>2. CASE page'.phase \in {"opening", "acking"}
  <2>1. page'.id = page.id /\ page.id \in Id
    BY <1>2, PageTypes
  <2>2. CASE state.terminated[page.id] # <<>>
    BY <1>2, <2>1, <2>2 DEF PageHolds, Remembers
  <2>3. CASE state.inFlight # <<>> /\ state.inFlight[2].id = page.id
    BY <1>2, <2>1, <2>3 DEF PageHolds
  <2> QED
    BY <1>2, <2>2, <2>3 DEF PageHolds
<1> QED
  BY <1>1, <1>2

\* A step that leaves the calls and the page alone, and the two slots.
LEMMA Aside ==
    ASSUME Invariant, Remembers(state, state'), calls' = calls, page' = page,
           state'.session = state.session, state'.reserved = state.reserved,
           state'.inFlight = state.inFlight
    PROVE  CallsHold' /\ InFlightForListener' /\ PageHolds' /\ PageReturns'
<1>1. PageHolds'
  BY PageKeeps DEF Invariant, RestTyped
<1> QED
  BY <1>1 DEF Invariant, CallsHold, InFlightForListener, PageReturns

----------------------------------------------------------------------------
(* Every step keeps the invariant. *)

LEMMA InvariantInit == Init => Invariant
<1> SUFFICES ASSUME Init PROVE Invariant
  OBVIOUS
<1>1. /\ Typed(state) /\ state.pending = <<>> /\ state.reserved = <<>> /\ state.inFlight = <<>>
      /\ state.admitted = {} /\ \A i \in Id : state.terminated[i] = <<>>
  <2>1. <<>> \in Seq(Activation) /\ <<>> \in Seq(Id \cup {Refused}) /\ <<>> \in Seq(Terminal)
    BY EmptySeq
  <2> QED
    BY <2>1, EmptySlot DEF Init, Typed
<1>2. HeldIdsIn(state) = {} /\ LiveIds(state) = {}
  BY <1>1, HeldTypes DEF LiveIds, IdsOf
<1>3. Ordered(state)
  BY <1>1, <1>2 DEF Ordered, OneSlot, Increasing
<1>4. Balanced(state, 0, {})
  BY <1>1, <1>2, EmptySeq DEF Balanced
<1>5. Fits(state)
  <2>1. LiveCount(state) = Len(state.pending) + Size(state.reserved) + Size(state.inFlight)
    BY <1>1, LiveIs
  <2>2. Len(state.pending) = 0 /\ Size(state.reserved) = 0 /\ Size(state.inFlight) = 0
    BY <1>1 DEF Size
  <2> QED
    BY <2>1, <2>2, Numbers DEF Fits
<1>6. RestTyped /\ PageReturns
  <2>1. [step |-> "none"] \in Call
    BY DEF Call
  <2>2. 0 \in 0..MaxDrain /\ 0 \in 0..MaxClicks /\ 0 \in 0..MaxClock /\ 0 < MaxSessions
    BY Numbers
  <2>3. page \in Page
    BY <2>2 DEF Init, Page
  <2> QED
    BY <2>1, <2>2, <2>3 DEF Init, RestTyped, PageReturns, NoSession
<1>7. CallsHold /\ InFlightForListener /\ PageHolds
  BY DEF Init, CallsHold, InFlightForListener, PageHolds
<1> QED
  BY <1>1, <1>3, <1>4, <1>5, <1>6, <1>7 DEF Invariant, Sound, Init

\* handle_action
LEMMA ClickKeeps ==
    ASSUME Invariant, NEW target \in Target, Click(target)
    PROVE  Invariant'
<1>1. /\ clicks \in Nat /\ clicks' = clicks + 1 /\ clicks' \in 0..MaxClicks
      /\ Sound(state, clicks) /\ Typed(state)
      /\ calls' = calls /\ page' = page /\ acks' = acks /\ clock' = clock
  BY Numbers DEF Click, Invariant, RestTyped, Sound
<1>2. RestTyped'
  BY <1>1 DEF Invariant, RestTyped
<1>3. CASE state' = Admit(state, [id |-> clicks + 1, target |-> target,
                                  attempts |-> 0, requeues |-> 0, at |-> clock])
  <2> DEFINE act == [id |-> clicks + 1, target |-> target,
                     attempts |-> 0, requeues |-> 0, at |-> clock]
  <2>1. act \in Activation /\ act.id = clicks + 1
    BY <1>1, Numbers DEF Activation, Id, Invariant, RestTyped
  <2> HIDE DEF act
  <2>2. /\ Sound(state', clicks + 1) /\ Remembers(state, state')
        /\ state'.session = state.session /\ state'.inFlight = state.inFlight
        /\ state'.reserved = state.reserved
    BY <1>1, <1>3, <2>1, AdmitSound DEF act
  <2> QED
    BY <1>1, <1>2, <2>2, Aside DEF Invariant
<1>4. CASE state' = PushRejection(state, Refused)
  <2>1. /\ Typed(state') /\ state'.session = state.session
        /\ state'.pending = state.pending /\ state'.reserved = state.reserved
        /\ state'.inFlight = state.inFlight /\ state'.admitted = state.admitted
        /\ state'.terminated = state.terminated
    BY <1>1, <1>4, NoticeFields
  <2>2. Sound(state', clicks + 1)
    BY <1>1, <2>1, NoticeSound, MoreClicks
  <2>3. Remembers(state, state')
    BY <2>1 DEF Remembers
  <2> QED
    BY <1>1, <1>2, <2>1, <2>2, <2>3, Aside DEF Invariant
<1> QED
  BY <1>3, <1>4 DEF Click

\* What the calls of the other sessions hold does not depend on this one.
LEMMA CallsStayHeld ==
    ASSUME Invariant, NEW s \in Session, calls[s].step # "none",
           \A r \in Session \ {s} : calls'[r] = calls[r],
           \/ state.reserved = <<>>
           \/ state.reserved # <<>> /\ state.reserved[1] = s
           \/ state'.reserved = state.reserved,
           calls'[s].step \in {"validate", "commit", "reject"} =>
                state'.reserved # <<>> /\ state'.reserved[1] = s
    PROVE  CallsHold'
<1> SUFFICES ASSUME NEW r \in Session,
                    calls'[r].step \in {"validate", "commit", "reject"}
             PROVE  state'.reserved # <<>> /\ state'.reserved[1] = r
  BY DEF CallsHold
<1>1. CASE r # s
  BY <1>1 DEF Invariant, CallsHold
<1> QED
  BY <1>1

\* reserve_for_session
LEMMA ReserveKeeps ==
    ASSUME Invariant, NEW s \in Session, Reserve(s)
    PROVE  Invariant'
<1> DEFINE act == Head(state.pending)
           rest == [state EXCEPT !.pending = Tail(@), !.completed = Fresh(@)]
<1>1. /\ calls[s].step = "reserve" /\ RestTyped /\ PageReturns
      /\ Sound(state, clicks) /\ Typed(state) /\ Ordered(state) /\ Balanced(state, clicks, {})
      /\ Fits(state) /\ clicks \in Nat /\ page \in Page /\ PageHolds /\ InFlightForListener
      /\ clicks' = clicks /\ acks' = acks /\ clock' = clock
  BY Numbers DEF Reserve, Invariant, Sound, RestTyped
<1>2. CASE Unavailable(s)
  <2>1. state' = state /\ Nothing(s)
    BY <1>2 DEF Reserve
  <2>2. /\ calls' \in [Session -> Call] /\ page' \in Page
        /\ calls'[s].step \in {"none", "reserve"}
        /\ \A r \in Session \ {s} : calls'[r] = calls[r]
        /\ page' = page \/ page'.phase = "idle"
    BY <1>1, <2>1, Resumes
  <2>3. CallsHold'
    BY <1>1, <2>1, <2>2, CallsStayHeld
  <2>4. PageHolds'
    BY <1>1, <2>1, <2>2, PageKeeps DEF Remembers
  <2> QED
    BY <1>1, <2>1, <2>2, <2>3, <2>4 DEF Invariant, RestTyped, PageReturns, InFlightForListener
<1>3. CASE ~Unavailable(s)
  <2>1. /\ state.session = s /\ state.inFlight = <<>> /\ state.reserved = <<>>
        /\ state.pending # <<>>
    BY <1>3 DEF Unavailable
  <2>2. state.pending \in Seq(Activation) /\ Tail(state.pending) \in Seq(Activation)
    BY <1>1, <2>1, FieldTypes, TailOfQueue
  <2>3. /\ Typed(rest) /\ rest.pending = Tail(state.pending) /\ rest.session = state.session
        /\ rest.reserved = state.reserved /\ rest.inFlight = state.inFlight
        /\ rest.admitted = state.admitted /\ rest.terminated = state.terminated
    BY <1>1, <2>2 DEF Typed
  <2>4. /\ act \in Activation /\ Ordered(rest) /\ Before(act.id, rest.pending)
        /\ Balanced(rest, clicks, {} \cup {act.id})
        /\ LiveCount(rest) = LiveCount(state) - 1
    BY <1>1, <2>1, <2>3, TakeFirst
  <2>5. {} \cup {act.id} = {act.id}
    OBVIOUS
  <2>6. /\ LiveCount(rest) \in Nat /\ LiveCount(state) \in Nat /\ Fits(rest)
        /\ LiveCount(rest) + 1 <= Capacity
    <3>1. LiveCount(rest) \in Nat /\ LiveCount(state) \in Nat
      BY <1>1, <2>3, LiveIs
    <3>2. LiveCount(state) <= Capacity /\ Capacity \in Nat
      BY <1>1, Numbers DEF Fits
    <3> QED
      BY <2>4, <3>1, <3>2 DEF Fits
  <2> HIDE DEF act, rest
  <2>7. CASE /\ state' \in {TerminateAcked(rest, act), TerminateRejected(rest, act)}
             /\ Drained(s)
    <3>1. Sound(state', clicks)
      BY <1>1, <2>3, <2>4, <2>5, <2>6, <2>7, FinishSound
    <3>2. /\ state'.session = state.session /\ state'.reserved = state.reserved
          /\ state'.inFlight = state.inFlight
      BY <2>3, <2>4, <2>7, EndFields
    <3>3. Remembers(state, state')
      BY <2>3, <2>4, <2>7, EndRemembers DEF Remembers
    <3>4. /\ calls' \in [Session -> Call] /\ page' \in Page
          /\ calls'[s].step \in {"none", "reserve"}
          /\ \A r \in Session \ {s} : calls'[r] = calls[r]
          /\ page' = page \/ page'.phase = "idle"
      BY <1>1, <2>7, Resumes
    <3>5. CallsHold'
      BY <1>1, <3>2, <3>4, CallsStayHeld
    <3>6. PageHolds'
      BY <1>1, <3>2, <3>3, <3>4, PageKeeps
    <3> QED
      BY <1>1, <3>1, <3>2, <3>4, <3>5, <3>6
      DEF Invariant, RestTyped, PageReturns, InFlightForListener
  <2>8. CASE state' = [rest EXCEPT !.reserved = <<s, act>>] /\ Proceed(s, "validate")
    <3>1. /\ Typed(state') /\ state'.reserved = <<s, act>> /\ state'.inFlight = <<>>
          /\ state'.pending = rest.pending /\ state'.admitted = rest.admitted
          /\ state'.terminated = rest.terminated /\ state'.session = rest.session
      BY <2>1, <2>3, <2>4, <2>8, PlacedTypes DEF Typed
    <3>2. /\ Ordered(state') /\ Balanced(state', clicks, {})
          /\ LiveCount(state') = LiveCount(rest) + 1
      BY <1>1, <2>1, <2>3, <2>4, <2>5, <3>1, Hold
    <3>3. Sound(state', clicks)
      BY <2>6, <3>1, <3>2 DEF Sound, Fits
    <3>4. /\ calls' \in [Session -> Call] /\ page' = page /\ calls'[s].step = "validate"
          /\ \A r \in Session \ {s} : calls'[r] = calls[r]
      BY <1>1, <2>8, Proceeds
    <3>5. CallsHold'
      BY <1>1, <2>1, <2>4, <3>1, <3>4, PlacedTypes, CallsStayHeld
    <3>6. PageHolds'
      BY <1>1, <2>1, <2>3, <3>1, <3>4, PageKeeps DEF Remembers
    <3> QED
      BY <1>1, <3>1, <3>3, <3>4, <3>5, <3>6
      DEF Invariant, RestTyped, PageReturns, InFlightForListener
  <2> QED
    BY <1>3, <2>7, <2>8 DEF Reserve, act, rest
<1> QED
  BY <1>2, <1>3

\* validate_target
LEMMA ValidateKeeps ==
    ASSUME Invariant, NEW s \in Session, Validate(s)
    PROVE  Invariant'
<1>1. /\ calls[s].step = "validate" /\ RestTyped /\ CallsHold
      /\ UNCHANGED <<state, acks, clicks, clock>>
  BY DEF Validate, Invariant
<1>2. PICK step \in {"commit", "reject"} : Proceed(s, step)
  BY DEF Validate
<1>3. /\ calls' \in [Session -> Call] /\ page' = page /\ calls'[s].step = step
      /\ \A r \in Session \ {s} : calls'[r] = calls[r]
  BY <1>1, <1>2, Proceeds
<1>4. state.reserved # <<>> /\ state.reserved[1] = s
  BY <1>1 DEF CallsHold
<1>5. CallsHold'
  BY <1>1, <1>3, <1>4, CallsStayHeld
<1> QED
  BY <1>1, <1>3, <1>5 DEF Invariant, RestTyped, PageReturns, InFlightForListener, PageHolds

\* The reservation is taken out of its slot.
LEMMA Unreserve ==
    ASSUME Invariant, NEW s \in Session, calls[s].step \in {"validate", "commit", "reject"}
    PROVE  LET act == state.reserved[2]
           IN  /\ Typed(Unreserved) /\ Ordered(Unreserved) /\ Fits(Unreserved)
               /\ act \in Activation /\ Before(act.id, Unreserved.pending)
               /\ Balanced(Unreserved, clicks, {act.id})
               /\ LiveCount(Unreserved) + 1 <= Capacity
               /\ Unreserved.reserved = <<>> /\ Unreserved.inFlight = <<>>
               /\ Unreserved.session = state.session
               /\ Unreserved.terminated = state.terminated
               /\ Unreserved.admitted = state.admitted
               /\ Unreserved.pending = state.pending
               /\ state.inFlight = <<>> /\ state.reserved # <<>> /\ state.reserved[1] = s
<1>1. /\ state.reserved # <<>> /\ state.reserved[1] = s
      /\ Typed(state) /\ Ordered(state) /\ Balanced(state, clicks, {}) /\ Fits(state)
      /\ clicks \in Nat
  BY Numbers DEF Invariant, CallsHold, Sound, RestTyped
<1>2. state.inFlight = <<>>
  BY <1>1 DEF Ordered, OneSlot
<1>3. /\ Typed(Unreserved) /\ Unreserved.reserved = <<>> /\ Unreserved.inFlight = <<>>
      /\ Unreserved.session = state.session /\ Unreserved.terminated = state.terminated
      /\ Unreserved.admitted = state.admitted /\ Unreserved.pending = state.pending
  BY <1>1, <1>2, EmptySlot DEF Unreserved, Typed
<1>4. /\ state.reserved[2] \in Activation /\ Ordered(Unreserved)
      /\ Before(state.reserved[2].id, Unreserved.pending)
      /\ Balanced(Unreserved, clicks, {state.reserved[2].id})
      /\ LiveCount(Unreserved) = LiveCount(state) - 1
  BY <1>1, <1>3, TakeHeld
<1>5. Fits(Unreserved) /\ LiveCount(Unreserved) + 1 <= Capacity
  <2>1. LiveCount(state) \in Nat /\ LiveCount(state) <= Capacity /\ Capacity \in Nat
    BY <1>1, LiveIs, Numbers DEF Fits
  <2> QED
    BY <1>4, <2>1 DEF Fits
<1> QED
  BY <1>1, <1>2, <1>3, <1>4, <1>5

\* It ends, or goes back to the queue, and its call goes on or is over.
LEMMA ReservationEnds ==
    ASSUME Invariant, NEW s \in Session, calls[s].step \in {"validate", "commit", "reject"},
           Sound(state', clicks), Remembers(state, state'),
           state'.session = state.session, state'.inFlight = <<>>,
           Nothing(s) \/ Drained(s),
           UNCHANGED <<acks, clicks, clock>>
    PROVE  Invariant'
<1>1. RestTyped /\ PageReturns /\ PageHolds /\ page \in Page
  BY DEF Invariant, RestTyped
<1>2. /\ calls' \in [Session -> Call] /\ page' \in Page
      /\ calls'[s].step \in {"none", "reserve"}
      /\ \A r \in Session \ {s} : calls'[r] = calls[r]
      /\ page' = page \/ page'.phase = "idle"
  BY <1>1, Resumes
<1>3. state.inFlight = <<>> /\ state.reserved # <<>> /\ state.reserved[1] = s
  BY Unreserve
<1>4. CallsHold'
  BY <1>2, <1>3, CallsStayHeld
<1>5. PageHolds'
  BY <1>1, <1>2, <1>3, PageKeeps
<1> QED
  BY <1>1, <1>2, <1>4, <1>5 DEF Invariant, RestTyped, PageReturns, InFlightForListener

\* reject_reservation and its callback
LEMMA RejectKeeps ==
    ASSUME Invariant, NEW s \in Session, Reject(s)
    PROVE  Invariant'
<1> DEFINE act == state.reserved[2]
           ended == TerminateRejected(Unreserved, act)
<1>1. /\ calls[s].step \in {"validate", "commit", "reject"} /\ Drained(s)
      /\ state' = PushRejection(ended, act.id)
      /\ UNCHANGED <<acks, clicks, clock>> /\ clicks \in Nat
  BY Numbers DEF Reject, Invariant, RestTyped
<1>2. /\ Typed(Unreserved) /\ Ordered(Unreserved) /\ Fits(Unreserved)
      /\ act \in Activation /\ Balanced(Unreserved, clicks, {act.id})
      /\ Unreserved.inFlight = <<>> /\ Unreserved.session = state.session
      /\ Unreserved.terminated = state.terminated
  BY <1>1, Unreserve
<1>3. /\ Sound(ended, clicks) /\ Typed(ended) /\ Remembers(Unreserved, ended)
      /\ ended.session = state.session /\ ended.inFlight = <<>>
  BY <1>1, <1>2, FinishSound, EndFields, EndRemembers
<1>4. act.id \in Id \cup {Refused}
  BY <1>2, ActivationFields
<1> HIDE DEF ended, act
<1>5. /\ Sound(state', clicks) /\ state'.session = state.session /\ state'.inFlight = <<>>
      /\ state'.terminated = ended.terminated
  BY <1>1, <1>3, <1>4, NoticeFields, NoticeSound
<1>6. Remembers(state, state')
  BY <1>2, <1>3, <1>5 DEF Remembers
<1> QED
  BY <1>1, <1>5, <1>6, ReservationEnds

\* The guard of a reservation that is dropped.
LEMMA PanicKeeps ==
    ASSUME Invariant, NEW s \in Session, Panic(s)
    PROVE  Invariant'
<1> DEFINE act == state.reserved[2]
<1>1. /\ calls[s].step \in {"validate", "commit", "reject"} /\ Nothing(s)
      /\ state' \in {TerminateRejected(Unreserved, act), PushFront(Unreserved, act)}
      /\ UNCHANGED <<acks, clicks, clock>> /\ clicks \in Nat
  BY Numbers DEF Panic, Restored, Invariant, RestTyped
<1>2. /\ Typed(Unreserved) /\ Ordered(Unreserved) /\ Fits(Unreserved)
      /\ act \in Activation /\ Balanced(Unreserved, clicks, {act.id})
      /\ Before(act.id, Unreserved.pending)
      /\ LiveCount(Unreserved) + 1 <= Capacity
      /\ Unreserved.inFlight = <<>> /\ Unreserved.session = state.session
      /\ Unreserved.reserved = <<>>
      /\ Unreserved.terminated = state.terminated
  BY <1>1, Unreserve
<1> HIDE DEF act
<1>3. CASE state' = TerminateRejected(Unreserved, act)
  <2>1. /\ Sound(state', clicks) /\ Remembers(Unreserved, state')
        /\ state'.session = state.session /\ state'.inFlight = <<>>
    BY <1>1, <1>2, <1>3, FinishSound, EndFields, EndRemembers
  <2> QED
    BY <1>1, <1>2, <2>1, ReservationEnds DEF Remembers
<1>4. CASE state' = PushFront(Unreserved, act)
  <2>1. /\ Typed(state') /\ Ordered(state') /\ Balanced(state', clicks, {})
        /\ LiveCount(state') = LiveCount(Unreserved) + 1
        /\ state'.session = state.session /\ state'.terminated = state.terminated
        /\ state'.inFlight = <<>>
    BY <1>1, <1>2, <1>4, GiveBack
  <2>2. Sound(state', clicks)
    BY <1>2, <2>1 DEF Sound, Fits
  <2> QED
    BY <1>1, <2>1, <2>2, ReservationEnds DEF Remembers
<1> QED
  BY <1>1, <1>3, <1>4

\* commit_reservation
LEMMA CommitKeeps ==
    ASSUME Invariant, NEW s \in Session, Commit(s)
    PROVE  Invariant'
<1> DEFINE act == state.reserved[2]
           more == [act EXCEPT !.attempts = @ + 1]
<1>1. /\ calls[s].step \in {"validate", "commit", "reject"}
      /\ UNCHANGED <<acks, clicks, clock>> /\ clicks \in Nat
  BY Numbers DEF Commit, Invariant, RestTyped
<1>2. /\ Typed(Unreserved) /\ Ordered(Unreserved) /\ Fits(Unreserved)
      /\ act \in Activation /\ Balanced(Unreserved, clicks, {act.id})
      /\ Before(act.id, Unreserved.pending)
      /\ LiveCount(Unreserved) + 1 <= Capacity
      /\ Unreserved.inFlight = <<>> /\ Unreserved.session = state.session
      /\ Unreserved.reserved = <<>>
      /\ Unreserved.terminated = state.terminated
      /\ Unreserved.admitted = state.admitted
      /\ state.inFlight = <<>> /\ state.reserved # <<>> /\ state.reserved[1] = s
  BY <1>1, Unreserve
<1>3. CASE state' = TerminateRejected(Unreserved, act) /\ Drained(s)
  <2>1. /\ Sound(state', clicks) /\ Remembers(Unreserved, state')
        /\ state'.session = state.session /\ state'.inFlight = <<>>
    BY <1>1, <1>2, <1>3, FinishSound, EndFields, EndRemembers
  <2> QED
    BY <1>1, <1>2, <1>3, <2>1, ReservationEnds DEF Remembers
<1>4. CASE state' = PushFront(Unreserved, act) /\ Nothing(s)
  <2>1. /\ Typed(state') /\ Ordered(state') /\ Balanced(state', clicks, {})
        /\ LiveCount(state') = LiveCount(Unreserved) + 1
        /\ state'.session = state.session /\ state'.terminated = state.terminated
        /\ state'.inFlight = <<>>
    BY <1>1, <1>2, <1>4, GiveBack
  <2>2. Sound(state', clicks)
    BY <1>2, <2>1 DEF Sound, Fits
  <2> QED
    BY <1>1, <1>4, <2>1, <2>2, ReservationEnds DEF Remembers
<1>5. CASE /\ act.attempts < MaxAttempts /\ StillListening(s)
           /\ state' = [Unreserved EXCEPT !.inFlight = <<s, more>>]
           /\ Return(s, [session |-> s, phase |-> "opening", left |-> page.left,
                         id |-> act.id])
  <2>1. more \in Activation /\ more.id = act.id
    <3>1. act.attempts + 1 \in 0..MaxAttempts
      <4>1. act.attempts \in 0..MaxAttempts /\ MaxAttempts \in Nat
        BY <1>2, ActivationFields, Numbers
      <4> QED
        BY <1>5, <4>1
    <3> QED
      BY <1>2, <3>1 DEF Activation
  <2>2. /\ Typed(state') /\ state'.reserved = <<>> /\ state'.inFlight = <<s, more>>
        /\ state'.pending = Unreserved.pending /\ state'.admitted = Unreserved.admitted
        /\ state'.terminated = Unreserved.terminated /\ state'.session = s
    <3> HIDE DEF more
    <3>1. <<s, more>> \in Slot
      BY <2>1, PlacedTypes
    <3> QED
      BY <1>2, <1>5, <3>1 DEF Typed, StillListening
  <2>3. /\ Ordered(state') /\ Balanced(state', clicks, {})
        /\ LiveCount(state') = LiveCount(Unreserved) + 1
    <3> HIDE DEF more, act
    <3> QED
      BY <1>1, <1>2, <2>1, <2>2, Hold
  <2>4. Sound(state', clicks)
    BY <1>2, <2>2, <2>3 DEF Sound, Fits
  <2>5. /\ calls' = [calls EXCEPT ![s] = [step |-> "none"]]
        /\ \/ page' = page
           \/ page' = [session |-> s, phase |-> "opening", left |-> page.left, id |-> act.id]
    BY <1>5 DEF Return
  <2>6. calls \in [Session -> Call] /\ page \in Page /\ [step |-> "none"] \in Call
    BY DEF Invariant, RestTyped, Call
  <2>7. /\ calls' \in [Session -> Call] /\ calls'[s].step = "none"
        /\ \A r \in Session \ {s} : calls'[r] = calls[r]
    BY <2>5, <2>6
  <2>8. CallsHold'
    BY <1>1, <1>2, <2>7, CallsStayHeld
  <2>9. page' \in Page
    BY <1>2, <2>5, <2>6, PageTypes, ActivationFields DEF Page
  <2>10. PageHolds'
    <3>1. CASE page' = page
      BY <1>2, <2>2, <2>6, <3>1, PageKeeps DEF Remembers, Invariant
    <3>2. CASE page' = [session |-> s, phase |-> "opening", left |-> page.left, id |-> act.id]
      BY <2>1, <2>2, <3>2, PlacedTypes DEF PageHolds
    <3> QED
      BY <2>5, <3>1, <3>2
  <2>11. InFlightForListener'
    BY <2>1, <2>2, PlacedTypes DEF InFlightForListener
  <2>12. PageReturns'
    BY <2>5 DEF PageReturns, Invariant
  <2> QED
    BY <1>1, <2>4, <2>7, <2>8, <2>9, <2>10, <2>11, <2>12 DEF Invariant, RestTyped
<1> QED
  BY <1>3, <1>4, <1>5 DEF Commit

\* listener_ready
LEMMA ListenerReadyKeeps ==
    ASSUME Invariant, ListenerReady
    PROVE  Invariant'
<1> DEFINE act == state.inFlight[2]
           rest == [state EXCEPT !.inFlight = <<>>]
           first == [act EXCEPT !.requeues = @ + 1]
           base == IF state.inFlight = <<>> THEN state ELSE Reloaded(rest, act)
<1>1. /\ page.phase = "gone" /\ page' = [session |-> page.session + 1, phase |-> "idle", left |-> 0]
      /\ state' = [base EXCEPT !.session = page.session + 1]
      /\ UNCHANGED <<calls, acks, clicks, clock>> /\ clicks \in Nat
      /\ Sound(state, clicks) /\ RestTyped /\ PageReturns /\ CallsHold
  BY Numbers DEF ListenerReady, Invariant, RestTyped
<1>2. page.session + 1 \in Session /\ page' \in Page
  <2>1. page.session \in Session \cup {NoSession} /\ page.session < MaxSessions
    BY <1>1, PageTypes DEF RestTyped, PageReturns
  <2>2. page.session + 1 \in Session /\ 0 \in 0..MaxDrain
    BY <2>1, Numbers DEF Session, NoSession
  <2> QED
    BY <1>1, <2>2 DEF Page
<1>3. Sound(base, clicks) /\ base.inFlight = <<>> /\ base.reserved = state.reserved
  <2>1. CASE state.inFlight = <<>>
    BY <1>1, <2>1
  <2>2. CASE state.inFlight # <<>>
    <3>1. /\ Typed(state) /\ Ordered(state) /\ Balanced(state, clicks, {}) /\ Fits(state)
          /\ state.reserved = <<>>
      BY <1>1, <2>2 DEF Sound, Ordered, OneSlot
    <3>2. /\ Typed(rest) /\ rest.pending = state.pending /\ rest.reserved = <<>>
          /\ rest.inFlight = <<>> /\ rest.admitted = state.admitted
          /\ rest.terminated = state.terminated
      BY <3>1, EmptySlot DEF Typed
    <3>3. /\ act \in Activation /\ Ordered(rest) /\ Before(act.id, rest.pending)
          /\ Balanced(rest, clicks, {act.id}) /\ LiveCount(rest) = LiveCount(state) - 1
      BY <1>1, <2>2, <3>1, <3>2, TakeHeld
    <3>4. /\ LiveCount(state) \in Nat /\ LiveCount(state) <= Capacity /\ Capacity \in Nat
      BY <3>1, LiveIs, Numbers DEF Fits
    <3>5. Fits(rest)
      BY <3>3, <3>4 DEF Fits
    <3>6. CASE act.requeues >= MaxRequeues \/ IsExpired(act)
      <4> HIDE DEF act, rest
      <4>1. base = TerminateRejected(rest, act)
        BY <2>2, <3>6 DEF Reloaded, rest, act
      <4> HIDE DEF base
      <4> QED
        BY <1>1, <3>1, <3>2, <3>3, <3>5, <4>1, FinishSound, EndFields
    <3>7. CASE ~(act.requeues >= MaxRequeues \/ IsExpired(act))
      <4>1. first \in Activation /\ first.id = act.id
        <5>1. act.requeues \in 0..MaxRequeues /\ MaxRequeues \in Nat
          BY <3>3, ActivationFields, Numbers
        <5>2. act.requeues + 1 \in 0..MaxRequeues
          BY <3>7, <5>1
        <5> QED
          BY <3>3, <5>2 DEF Activation
      <4>2. base = PushFront(rest, first)
        BY <2>2, <3>7 DEF Reloaded
      <4> HIDE DEF act, rest, first, base
      <4>3. /\ Typed(base) /\ Ordered(base) /\ Balanced(base, clicks, {})
            /\ LiveCount(base) = LiveCount(rest) + 1
            /\ base.reserved = <<>> /\ base.inFlight = <<>>
        BY <1>1, <3>2, <3>3, <4>1, <4>2, GiveBack
      <4> QED
        BY <3>1, <3>3, <3>4, <4>3 DEF Sound, Fits
    <3> QED
      BY <3>6, <3>7
  <2> QED
    BY <2>1, <2>2
<1> HIDE DEF base
<1>4. /\ Typed(state') /\ state'.session = page.session + 1
      /\ state'.pending = base.pending /\ state'.reserved = base.reserved
      /\ state'.inFlight = base.inFlight /\ state'.admitted = base.admitted
      /\ state'.terminated = base.terminated
  BY <1>1, <1>2, <1>3 DEF Typed, Sound
<1>5. Sound(state', clicks)
  BY <1>1, <1>3, <1>4, NoticeSound
<1>6. CallsHold' /\ InFlightForListener' /\ PageHolds' /\ PageReturns'
  BY <1>1, <1>3, <1>4 DEF CallsHold, InFlightForListener, PageHolds, PageReturns
<1> QED
  BY <1>1, <1>2, <1>5, <1>6 DEF Invariant, RestTyped

\* acknowledge
LEMMA HandleAckKeeps ==
    ASSUME Invariant, NEW ack \in acks, HandleAck(ack)
    PROVE  Invariant'
<1> DEFINE act == state.inFlight[2]
           done == Append(state.completed, [target |-> act.target, at |-> clock])
           rest == [state EXCEPT !.inFlight = <<>>,
                                 !.completed = IF ack.outcome = "opened"
                                               THEN Newest(done, CompletedCapacity)
                                               ELSE @]
<1>1. /\ state' = Acknowledge(state, ack) /\ Answered(ack)
      /\ UNCHANGED <<calls, clicks, clock>> /\ clicks \in Nat
      /\ Sound(state, clicks) /\ RestTyped /\ PageHolds /\ page \in Page
  BY Numbers DEF HandleAck, Invariant, RestTyped
<1>2. acks' \subseteq Acknowledgement
  BY <1>1 DEF Answered, RestTyped
<1>3. \/ page' = page
      \/ /\ page.phase = "acking"
         /\ page' = [session |-> page.session, phase |-> "draining", left |-> page.left]
  BY <1>1 DEF Answered
<1>4. /\ page' \in Page /\ (page' = page \/ page'.phase = "draining")
  BY <1>1, <1>3, PageTypes DEF Page
<1>5. CASE ~Matches(state, ack)
  <2>1. state' = state
    BY <1>1, <1>5 DEF Acknowledge
  <2>2. PageHolds'
    BY <1>1, <1>4, <2>1, PageKeeps DEF Remembers
  <2>3. CallsHold' /\ InFlightForListener' /\ PageReturns'
    BY <1>1, <1>4, <2>1 DEF Invariant, CallsHold, InFlightForListener, PageReturns
  <2> QED
    BY <1>1, <1>2, <1>4, <2>1, <2>2, <2>3 DEF Invariant, RestTyped
<1>6. CASE Matches(state, ack)
  <2>1. /\ state' = TerminateAcked(rest, act) /\ state.inFlight # <<>>
    BY <1>1, <1>6 DEF Acknowledge, Matches
  <2>2. /\ Typed(state) /\ Ordered(state) /\ Balanced(state, clicks, {}) /\ Fits(state)
        /\ state.reserved = <<>>
    BY <1>1, <2>1 DEF Sound, Ordered, OneSlot
  <2>3. /\ Typed(rest) /\ rest.pending = state.pending /\ rest.reserved = <<>>
        /\ rest.inFlight = <<>> /\ rest.admitted = state.admitted
        /\ rest.terminated = state.terminated /\ rest.session = state.session
    BY <2>2, EmptySlot DEF Typed
  <2>4. /\ act \in Activation /\ Ordered(rest)
        /\ Balanced(rest, clicks, {act.id}) /\ LiveCount(rest) = LiveCount(state) - 1
    BY <1>1, <2>1, <2>2, <2>3, TakeHeld
  <2>5. Fits(rest)
    <3>1. LiveCount(state) \in Nat /\ LiveCount(state) <= Capacity /\ Capacity \in Nat
      BY <2>2, LiveIs, Numbers DEF Fits
    <3> QED
      BY <2>4, <3>1 DEF Fits
  <2> HIDE DEF rest
  <2>6. /\ Sound(state', clicks) /\ state'.reserved = <<>> /\ state'.inFlight = <<>>
        /\ Remembers(rest, state') /\ state'.terminated[act.id] # <<>>
    <3> HIDE DEF act
    <3> QED
      BY <1>1, <2>1, <2>3, <2>4, <2>5, FinishSound, EndFields, EndRemembers
  <2>7. Remembers(state, state')
    BY <2>3, <2>6 DEF Remembers
  <2>8. PageHolds'
    BY <1>1, <1>4, <2>6, <2>7, PageKeeps
  <2>9. CallsHold' /\ InFlightForListener' /\ PageReturns'
    BY <1>1, <1>4, <2>2, <2>6 DEF Invariant, CallsHold, InFlightForListener, PageReturns
  <2> QED
    BY <1>1, <1>2, <1>4, <2>6, <2>8, <2>9 DEF Invariant, RestTyped
<1> QED
  BY <1>5, <1>6

\* The steps of the page.
LEMMA LoseAckKeeps ==
    ASSUME Invariant, NEW ack \in acks, LoseAck(ack)
    PROVE  Invariant'
<1>1. /\ Answered(ack) /\ UNCHANGED <<state, calls, clicks, clock>>
      /\ RestTyped /\ PageHolds /\ page \in Page
  BY DEF LoseAck, Invariant, RestTyped
<1>2. acks' \subseteq Acknowledgement
  BY <1>1 DEF Answered, RestTyped
<1>3. \/ page' = page
      \/ /\ page.phase = "acking"
         /\ page' = [session |-> page.session, phase |-> "draining", left |-> page.left]
  BY <1>1 DEF Answered
<1>4. /\ page' \in Page /\ (page' = page \/ page'.phase = "draining")
  BY <1>1, <1>3, PageTypes DEF Page
<1>5. PageHolds' /\ PageReturns'
  BY <1>1, <1>4, PageKeeps DEF Remembers, Invariant, PageReturns
<1> QED
  BY <1>1, <1>2, <1>4, <1>5 DEF Invariant, RestTyped, CallsHold, InFlightForListener

LEMMA UnloadKeeps ==
    ASSUME Invariant, Unload
    PROVE  Invariant'
<1>1. /\ page.session < MaxSessions /\ page \in Page
      /\ page' = [session |-> page.session, phase |-> "gone", left |-> 0]
      /\ UNCHANGED <<state, calls, acks, clicks, clock>>
  BY DEF Unload, Invariant, RestTyped
<1>2. page' \in Page
  BY <1>1, PageTypes, Numbers DEF Page
<1>3. PageHolds' /\ PageReturns'
  BY <1>1 DEF PageHolds, PageReturns
<1> QED
  BY <1>1, <1>2, <1>3 DEF Invariant, RestTyped, CallsHold, InFlightForListener

LEMMA DrainKeeps ==
    ASSUME Invariant, StartDrain
    PROVE  Invariant'
<1>1. /\ page \in Page /\ page.phase = "idle"
      /\ page' = [page EXCEPT !.phase = "draining", !.left = MaxDrain]
      /\ UNCHANGED <<state, calls, acks, clicks, clock>>
  BY DEF StartDrain, Invariant, RestTyped
<1>2. page' \in Page /\ page'.phase = "draining"
  <2>1. /\ page.session \in Session /\ MaxDrain \in 0..MaxDrain
        /\ page = [session |-> page.session, phase |-> page.phase, left |-> page.left]
    BY <1>1, PageTypes, Numbers
  <2>2. page' = [session |-> page.session, phase |-> "draining", left |-> MaxDrain]
    BY <1>1, <2>1
  <2> QED
    BY <2>1, <2>2 DEF Page
<1>3. PageHolds' /\ PageReturns'
  BY <1>2 DEF PageHolds, PageReturns
<1> QED
  BY <1>1, <1>2, <1>3 DEF Invariant, RestTyped, CallsHold, InFlightForListener

LEMMA TakeKeeps ==
    ASSUME Invariant, Take
    PROVE  Invariant'
<1>1. /\ page \in Page /\ page.phase = "draining" /\ calls \in [Session -> Call]
      /\ page.session \in Session /\ page.left \in 0..MaxDrain
      /\ page = [session |-> page.session, phase |-> page.phase, left |-> page.left]
      /\ UNCHANGED <<state, acks, clicks, clock>> /\ CallsHold
  BY PageTypes DEF Take, Invariant, RestTyped
<1>2. CASE page.left = 0
  <2>1. calls' = calls /\ page' = [page EXCEPT !.phase = "idle"]
    BY <1>2 DEF Take
  <2>2. page' \in Page /\ page'.phase = "idle"
    BY <1>1, <2>1 DEF Page
  <2> QED
    BY <1>1, <2>1, <2>2
    DEF Invariant, RestTyped, CallsHold, InFlightForListener, PageHolds, PageReturns
<1>3. CASE page.left # 0
  <2>1. /\ page' = [page EXCEPT !.phase = "taking", !.left = @ - 1]
        /\ calls' = [calls EXCEPT ![page.session] = [step |-> "reserve", left |-> DrainAttempts]]
    BY <1>3 DEF Take
  <2>2. page.left - 1 \in 0..MaxDrain
    BY <1>1, <1>3, Numbers
  <2>3. page' \in Page /\ page'.phase = "taking"
    BY <1>1, <2>1, <2>2 DEF Page
  <2>4. [step |-> "reserve", left |-> DrainAttempts] \in Call
    BY Numbers DEF Call
  <2>5. calls' \in [Session -> Call] /\ CallsHold'
    BY <1>1, <2>1, <2>4 DEF CallsHold
  <2> QED
    BY <1>1, <2>3, <2>5
    DEF Invariant, RestTyped, InFlightForListener, PageHolds, PageReturns
<1> QED
  BY <1>2, <1>3

LEMMA OpenKeeps ==
    ASSUME Invariant, NEW outcome \in {"opened", "rejected"}, Open(outcome)
    PROVE  Invariant'
<1>1. /\ page \in Page /\ page.phase = "opening" /\ acks \subseteq Acknowledgement
      /\ page.session \in Session /\ page.id \in Id /\ page.left \in 0..MaxDrain
      /\ page = [session |-> page.session, phase |-> page.phase,
                 left |-> page.left, id |-> page.id]
      /\ page' = [page EXCEPT !.phase = "acking"]
      /\ acks' = acks \cup {[session |-> page.session, id |-> page.id, outcome |-> outcome]}
      /\ UNCHANGED <<state, calls, clicks, clock>> /\ PageHolds
  BY PageTypes DEF Open, Invariant, RestTyped
<1>2. page' \in Page /\ page'.phase = "acking" /\ page'.id = page.id
  BY <1>1 DEF Page
<1>3. acks' \subseteq Acknowledgement
  BY <1>1 DEF Acknowledgement
<1>4. PageHolds'
  BY <1>1, <1>2, PageKeeps DEF Remembers
<1> QED
  BY <1>1, <1>2, <1>3, <1>4
  DEF Invariant, RestTyped, CallsHold, InFlightForListener, PageReturns

LEMMA ShowKeeps ==
    ASSUME Invariant, ShowRejections
    PROVE  Invariant'
<1>1. /\ state' = [state EXCEPT !.rejections = <<>>]
      /\ UNCHANGED <<calls, page, acks, clicks, clock>>
      /\ Sound(state, clicks) /\ Typed(state) /\ clicks \in Nat
  BY Numbers DEF ShowRejections, Invariant, Sound, RestTyped
<1>2. <<>> \in Seq(Id \cup {Refused})
  BY EmptySeq
<1>3. /\ Typed(state') /\ state'.session = state.session /\ state'.pending = state.pending
      /\ state'.reserved = state.reserved /\ state'.inFlight = state.inFlight
      /\ state'.admitted = state.admitted /\ state'.terminated = state.terminated
  BY <1>1, <1>2 DEF Typed
<1>4. Sound(state', clicks)
  BY <1>1, <1>3, NoticeSound
<1>5. CallsHold' /\ InFlightForListener' /\ PageHolds' /\ PageReturns'
  BY <1>1, <1>3, Aside DEF Remembers
<1> QED
  BY <1>1, <1>4, <1>5 DEF Invariant, RestTyped

\* Time, and the task or account that goes.
LEMMA WorldKeeps ==
    ASSUME Invariant, Tick \/ (\E target \in Target : Unroute(target)) \/ UNCHANGED vars
    PROVE  Invariant'
<1>1. UNCHANGED <<state, calls, page, acks, clicks>> /\ clock' \in 0..MaxClock
  BY Numbers DEF Tick, Unroute, vars, Invariant, RestTyped
<1> QED
  BY <1>1 DEF Invariant, RestTyped, CallsHold, InFlightForListener, PageHolds, PageReturns

\* All of them.
LEMMA InvariantNext == Invariant /\ [Next]_vars => Invariant'
<1> SUFFICES ASSUME Invariant, [Next]_vars
             PROVE  Invariant'
  OBVIOUS
<1>1. CASE \E target \in Target : Click(target)
  BY <1>1, ClickKeeps
<1>2. CASE Tick \/ (\E target \in Target : Unroute(target)) \/ UNCHANGED vars
  BY <1>2, WorldKeeps
<1>3. ASSUME NEW s \in Session, CallStep(s) \/ Panic(s)
      PROVE  Invariant'
  BY <1>3, ReserveKeeps, ValidateKeeps, CommitKeeps, RejectKeeps, PanicKeeps DEF CallStep
<1>4. CASE Unload \/ ListenerReady
  BY <1>4, UnloadKeeps, ListenerReadyKeeps
<1>5. CASE PageStep
  BY <1>5, DrainKeeps, TakeKeeps, ShowKeeps, OpenKeeps DEF PageStep
<1>6. CASE \E ack \in acks : HandleAck(ack) \/ LoseAck(ack)
  BY <1>6, HandleAckKeeps, LoseAckKeeps
<1> QED
  BY <1>1, <1>2, <1>3, <1>4, <1>5, <1>6 DEF Next

----------------------------------------------------------------------------
(* What follows from it. *)

LEMMA HeldIdsAre ==
    HeldIds = HeldIdsIn(state) /\ QueuedIds = IdsOf(state.pending)
BY DEF HeldIds, HeldIdsIn, QueuedIds, IdsOf

\* A queue in order has as many ids as places.
LEMMA IdsCount ==
    ASSUME NEW q \in Seq(Activation), Increasing(q)
    PROVE  IsFiniteSet(IdsOf(q)) /\ Cardinality(IdsOf(q)) = Len(q)
<1> DEFINE f == [i \in 1..Len(q) |-> q[i].id]
<1>1. DOMAIN q = 1..Len(q) /\ Len(q) \in Nat
  BY LenProperties
<1>2. \A i \in 1..Len(q) : q[i].id \in Nat
  BY <1>1, ActivationFields, ElementOfSeq
<1>3. f \in [1..Len(q) -> IdsOf(q)]
  BY <1>1 DEF IdsOf
<1>4. \A t \in IdsOf(q) : \E i \in 1..Len(q) : f[i] = t
  BY <1>1 DEF IdsOf
<1>5. ASSUME NEW i \in 1..Len(q), NEW j \in 1..Len(q), f[i] = f[j]
      PROVE  i = j
  <2>1. q[i].id = q[j].id /\ i \in Int /\ j \in Int
    BY <1>1, <1>5
  <2>2. i < j => q[i].id < q[j].id
    BY <1>1 DEF Increasing
  <2>3. j < i => q[j].id < q[i].id
    BY <1>1 DEF Increasing
  <2> QED
    BY <1>2, <2>1, <2>2, <2>3
<1>6. f \in Bijection(1..Len(q), IdsOf(q))
  <2> HIDE DEF f
  <2> QED
    BY <1>3, <1>4, <1>5 DEF Bijection, Injection, Surjection, IsInjective
<1>7. ExistsBijection(1..Len(q), IdsOf(q))
  BY <1>6 DEF ExistsBijection
<1> QED
  BY <1>1, <1>7, FS_CountingElements, FS_NatBijection

\* Ids are distinct, so that there are as many as places taken.
LEMMA InvariantAccounts == Invariant => Accounted
<1> SUFFICES ASSUME Invariant PROVE Accounted
  OBVIOUS
<1>1. /\ Typed(state) /\ Ordered(state) /\ Balanced(state, clicks, {}) /\ Fits(state)
      /\ state.pending \in Seq(Activation) /\ Increasing(state.pending)
  BY FieldTypes DEF Invariant, Sound, Ordered
<1>2. /\ IsFiniteSet(IdsOf(state.pending))
      /\ Cardinality(IdsOf(state.pending)) = Len(state.pending)
      /\ Len(state.pending) \in Nat
  BY <1>1, IdsCount, LenProperties
<1>3. LiveCount(state) = Len(state.pending) + Size(state.reserved) + Size(state.inFlight)
  BY <1>1, LiveIs
<1>4. Cardinality(LiveIds(state)) = LiveCount(state)
  <2>1. CASE state.reserved = <<>> /\ state.inFlight = <<>>
    <3>1. LiveIds(state) = IdsOf(state.pending)
      BY <1>1, <2>1, HeldTypes DEF LiveIds
    <3>2. Size(state.reserved) = 0 /\ Size(state.inFlight) = 0
      BY <2>1 DEF Size
    <3> QED
      BY <1>2, <1>3, <3>1, <3>2
  <2>2. CASE state.reserved # <<>> \/ state.inFlight # <<>>
    <3>1. PICK act \in Activation : HeldIdsIn(state) = {act.id}
      BY <1>1, <2>2, HeldTypes DEF Ordered, OneSlot
    <3>2. act.id \notin IdsOf(state.pending)
      BY <1>1, <3>1, BeforeIsOutside, ActivationFields DEF Ordered
    <3>3. LiveIds(state) = IdsOf(state.pending) \cup {act.id}
      BY <3>1 DEF LiveIds
    <3>4. Cardinality(LiveIds(state)) = Cardinality(IdsOf(state.pending)) + 1
      BY <1>2, <3>2, <3>3, FS_AddElement
    <3>5. Size(state.reserved) + Size(state.inFlight) = 1
      BY <1>1, <2>2 DEF Size, Ordered, OneSlot
    <3>6. Size(state.reserved) \in Nat /\ Size(state.inFlight) \in Nat
      BY DEF Size
    <3> QED
      BY <1>2, <1>3, <3>4, <3>5, <3>6
  <2> QED
    BY <2>1, <2>2
<1>5. LiveIds(state) = HeldIds \cup QueuedIds
  BY HeldIdsAre DEF LiveIds
<1> QED
  BY <1>1, <1>4, <1>5 DEF Accounted, Balanced, Fits

LEMMA InvariantOrders == Invariant => InClickOrder
<1> SUFFICES ASSUME Invariant PROVE InClickOrder
  OBVIOUS
<1>1. Typed(state) /\ Ordered(state)
  BY DEF Invariant, Sound
<1>2. Cardinality(HeldIds) <= 1
  <2>1. HeldIds = {} \/ \E id : HeldIds = {id}
    BY <1>1, HeldTypes, HeldIdsAre DEF Ordered, OneSlot
  <2>2. Cardinality({}) <= 1
    BY FS_EmptySet
  <2>3. \A id : Cardinality({id}) <= 1
    <3>1. \A id : Cardinality({id}) = 1
      BY FS_Singleton
    <3> QED
      BY <3>1
  <2> QED
    BY <2>1, <2>2, <2>3
<1> QED
  BY <1>1, <1>2, HeldIdsAre DEF InClickOrder, Ordered, Increasing, Before

LEMMA InvariantListens == Invariant => OnlyTheListenerHolds
BY SlotTypes, FieldTypes DEF Invariant, Sound, InFlightForListener, PageHolds, OnlyTheListenerHolds

\* What is true of the shell, its calls and the page at every moment: the
\* inductive invariant that the properties below follow from.
THEOREM InvariantHolds == Spec => []Invariant
BY InvariantInit, InvariantNext, PTL DEF Spec

\* Every click that was admitted is held in exactly one place, or has ended
\* exactly once, whatever reloads, panics, expiry and overflow do to it, and
\* the queue stays within its capacity (live_count, terminate and the slots of
\* DeliveryState).
THEOREM EveryClickIsAccounted == Spec => []Accounted
BY InvariantHolds, InvariantAccounts, PTL

\* What is handed back after a reload, a lost session or a panic goes to the
\* front: no click overtakes an earlier one (requeue_front, commit_reservation
\* and the reservation guard).
THEOREM ClicksStayInOrder == Spec => []InClickOrder
BY InvariantHolds, InvariantOrders, PTL

\* What is in flight is in flight for the page that listens, and what that
\* page is opening was not taken from it unless it has ended (register_listener
\* and acknowledge).
THEOREM ListenerHolds == Spec => []OnlyTheListenerHolds
BY InvariantHolds, InvariantListens, PTL

=============================================================================
