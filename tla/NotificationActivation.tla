---------------------- MODULE NotificationActivation -----------------------
(***************************************************************************)
(* The way of a click on a reminder from the operating system to the task  *)
(* it opens: notification_activation.rs in the native shell and the bridge *)
(* in the page (app/src/lib/notification-activation.ts).                   *)
(*                                                                         *)
(* The shell keeps what was clicked in one DeliveryState behind a lock. A  *)
(* page registers a listener session, and takes one activation at a time:  *)
(* reserve (under the lock), validate (registry and database, without the  *)
(* lock), commit (under the lock). It opens the task and acknowledges. The *)
(* page may be reloaded at any moment; calls that it left behind run on in *)
(* the shell.                                                              *)
(***************************************************************************)
EXTENDS Integers, Sequences, FiniteSets

CONSTANTS
    Target,             \* account, task and notification instance of a reminder
    Capacity,           \* ACTIVATION_CAPACITY
    Ttl,                \* ACTIVATION_TTL
    DuplicateTtl,       \* DUPLICATE_TARGET_TTL
    MaxRequeues,        \* MAX_REQUEUES_PER_ACTIVATION
    MaxAttempts,        \* MAX_DELIVERY_ATTEMPTS
    RejectionCapacity,  \* REJECTION_CAPACITY
    CompletedCapacity,  \* COMPLETED_TARGET_CAPACITY
    DrainAttempts,      \* MAX_ACTIVATION_DRAIN_ATTEMPTS
    MaxDrain,           \* MAX_DRAIN_PER_CYCLE of the page
    MaxClicks,          \* bound: clicks
    MaxSessions,        \* bound: page loads
    MaxClock,           \* bound: the monotonic clock
    MaxFaults           \* bound: panics and acknowledgements that fail

VARIABLES
    state,      \* DeliveryState, all that the lock protects
    calls,      \* native_take_notification_activation, per listener session
    page,       \* the bridge of the page that is open
    requested,  \* activationRequested, rejectionRequested: wake-ups of the page
    acks,       \* acknowledgements on their way to the shell
    routable,   \* the targets that validate_target accepts
    clicks,     \* how many clicks there were
    clock,
    faults,
    loose       \* this page was told "nothing" while something was held (history)

vars == <<state, calls, page, requested, acks, routable, clicks, clock, faults, loose>>

ASSUME ActivationAssumption ==
    /\ {Capacity, MaxAttempts, RejectionCapacity, CompletedCapacity,
        DrainAttempts, MaxDrain, Ttl, DuplicateTtl, MaxSessions} \subseteq Nat \ {0}
    /\ {MaxRequeues, MaxClicks, MaxClock, MaxFaults} \subseteq Nat

Id == 1..MaxClicks
Session == 1..MaxSessions
NoSession == 0
Refused == 0    \* a click that was rejected before it became an activation

Terminal == {"acked", "rejected"}

Activation ==
    [id : Id, target : Target, attempts : 0..MaxAttempts, requeues : 0..MaxRequeues,
     at : 0..MaxClock]

\* Nothing, or the activation in the slot and the session it is there for.
Slot == {<<>>} \cup (Session \X Activation)

Call ==
    [step : {"none"}] \cup
    [step : {"reserve", "validate", "commit", "reject"}, left : 1..DrainAttempts]

Page ==
    [session : Session \cup {NoSession}, phase : {"gone"}, left : 0..MaxDrain] \cup
    [session : Session, phase : {"idle", "draining", "taking"}, left : 0..MaxDrain] \cup
    [session : Session, phase : {"opening", "acking"}, left : 0..MaxDrain, id : Id]

Acknowledgement == [session : Session, id : Id, outcome : {"opened", "rejected"}]

TypeOK ==
    /\ state \in [session : Session \cup {NoSession},
                  pending : Seq(Activation), reserved : Slot, inFlight : Slot,
                  completed : Seq([target : Target, at : 0..MaxClock]),
                  rejections : Seq(Id \cup {Refused}),
                  admitted : SUBSET Id,
                  terminated : [Id -> Seq(Terminal)]]
    /\ calls \in [Session -> Call]
    /\ page \in Page
    /\ requested \subseteq {"activation", "rejection"}
    /\ acks \subseteq Acknowledgement
    /\ routable \subseteq Target
    /\ clicks \in 0..MaxClicks /\ clock \in 0..MaxClock /\ faults \in 0..MaxFaults
    /\ loose \in BOOLEAN

Init ==
    /\ state = [session |-> NoSession, pending |-> <<>>, reserved |-> <<>>,
                inFlight |-> <<>>, completed |-> <<>>, rejections |-> <<>>,
                admitted |-> {}, terminated |-> [i \in Id |-> <<>>]]
    /\ calls = [s \in Session |-> [step |-> "none"]]
    /\ page = [session |-> NoSession, phase |-> "gone", left |-> 0]
    /\ requested = {} /\ acks = {}
    /\ routable = Target
    /\ clicks = 0 /\ clock = 0 /\ faults = 0
    /\ loose = FALSE

----------------------------------------------------------------------------
(* The transitions of DeliveryState. *)

HeldIn(slot) == IF slot = <<>> THEN {} ELSE {slot[2]}

\* live_count: everything that waits, is being validated, or is in flight.
LiveCount(st) ==
    Len(st.pending) + Cardinality(HeldIn(st.reserved)) + Cardinality(HeldIn(st.inFlight))

IsExpired(act) == clock - act.at >= Ttl

Newest(queue, capacity) == IF Len(queue) > capacity THEN Tail(queue) ELSE queue

PushRejection(st, id) ==
    [st EXCEPT !.rejections = Newest(Append(@, id), RejectionCapacity)]

TerminateAcked(st, act) == [st EXCEPT !.terminated[act.id] = Append(@, "acked")]

TerminateRejected(st, act) ==
    [PushRejection(st, act.id) EXCEPT !.terminated[act.id] = Append(@, "rejected")]

\* Slip: the oldest is dropped without a record.
MadeRoomSilently(st) ==
    IF LiveCount(st) >= Capacity /\ st.pending # <<>>
    THEN [st EXCEPT !.pending = Tail(@)]
    ELSE st

\* The oldest that nobody holds makes room for the new one.
MadeRoom(st) ==
    IF LiveCount(st) >= Capacity /\ st.pending # <<>>
    THEN TerminateRejected([st EXCEPT !.pending = Tail(@)], Head(st.pending))
    ELSE st

Admit(st, act) ==
    LET room == MadeRoom([st EXCEPT !.admitted = @ \cup {act.id}])
    IN  IF LiveCount(room) >= Capacity THEN TerminateRejected(room, act)
        ELSE [room EXCEPT !.pending = Append(@, act)]

\* Slip: it goes to the end of the queue.
PushBack(st, act) == [st EXCEPT !.pending = Append(@, act)]

\* What was taken from the front returns there; capacity is not asked again.
PushFront(st, act) == [st EXCEPT !.pending = <<act>> \o @]

Fresh(completed) == SelectSeq(completed, LAMBDA c : clock - c.at < DuplicateTtl)

CompletedTarget(st, target) ==
    \E i \in DOMAIN Fresh(st.completed) : Fresh(st.completed)[i].target = target

\* A page that is not the one it was delivered to takes it over, once.
Reloaded(st, act) ==
    IF act.requeues >= MaxRequeues \/ IsExpired(act)
    THEN TerminateRejected(st, act)
    ELSE PushFront(st, [act EXCEPT !.requeues = @ + 1])

Restored(st, act) ==
    IF IsExpired(act) THEN TerminateRejected(st, act) ELSE PushFront(st, act)

\* Only the session it is in flight for may end an activation.
Matches(st, ack) == /\ st.inFlight # <<>>
                    /\ st.inFlight[1] = ack.session
                    /\ st.inFlight[2].id = ack.id

\* An acknowledgement that meets nothing in flight only leaves a diagnostic
\* record, and one that does not match is refused.
Acknowledge(st, ack) ==
    IF ~Matches(st, ack) THEN st
    ELSE LET act == st.inFlight[2]
             done == Append(st.completed, [target |-> act.target, at |-> clock])
         IN  TerminateAcked([st EXCEPT !.inFlight = <<>>,
                                       !.completed = IF ack.outcome = "opened"
                                                     THEN Newest(done, CompletedCapacity)
                                                     ELSE @],
                            act)

----------------------------------------------------------------------------
(* The notification plugin and the world. *)

\* Slip: a wake-up that meets a busy page is dropped.
WakeIdle(kind) ==
    requested' = IF page.phase # "idle" THEN requested ELSE requested \cup {kind}

\* EVENT_OPEN and EVENT_REJECTED only wake the page, which drains the queues.
Wake(kind) ==
    requested' = IF page.phase = "gone" THEN requested ELSE requested \cup {kind}

\* handle_action: the target is validated first; what is refused leaves only
\* a notice.
Click(target) ==
    /\ clicks < MaxClicks
    /\ clicks' = clicks + 1
    /\ \/ /\ target \in routable
          /\ state' = Admit(state, [id |-> clicks + 1, target |-> target,
                                    attempts |-> 0, requeues |-> 0, at |-> clock])
          /\ Wake("activation")
       \/ /\ target \notin routable
          /\ state' = PushRejection(state, Refused)
          /\ Wake("rejection")
    /\ UNCHANGED <<calls, page, acks, routable, clock, faults, loose>>

\* The task is deleted, or the account that owns it is switched away.
Unroute(target) ==
    /\ target \in routable
    /\ routable' = routable \ {target}
    /\ UNCHANGED <<state, calls, page, requested, acks, clicks, clock, faults, loose>>

Tick ==
    /\ clock < MaxClock
    /\ clock' = clock + 1
    /\ UNCHANGED <<state, calls, page, requested, acks, routable, clicks, faults, loose>>

----------------------------------------------------------------------------
(* take_for_listener, a call per session. *)

\* The call ends; its page, if it is still there, goes on in this phase.
Return(s, next) ==
    /\ calls' = [calls EXCEPT ![s] = [step |-> "none"]]
    /\ page' = IF page.session = s /\ page.phase = "taking" THEN next ELSE page

Nothing(s) == Return(s, [page EXCEPT !.phase = "idle"])

\* One activation was finished on the way; the call goes on with the next.
Drained(s) ==
    IF calls[s].left > 1
    THEN /\ calls' = [calls EXCEPT ![s] = [step |-> "reserve", left |-> @.left - 1]]
         /\ UNCHANGED page
    ELSE Nothing(s)

Proceed(s, step) ==
    /\ calls' = [calls EXCEPT ![s].step = step]
    /\ UNCHANGED page

Unavailable(s) ==
    \/ state.session # s
    \/ state.inFlight # <<>>
    \/ state.reserved # <<>>
    \/ state.pending = <<>>

\* completed_target_at: this reminder was opened a short while ago.
Duplicate(act) == CompletedTarget(state, act.target)

\* reserve_for_session
Reserve(s) ==
    /\ calls[s].step = "reserve"
    /\ loose' = (loose \/ (page.session = s /\ (state.inFlight # <<>> \/ state.reserved # <<>>)))
    /\ IF Unavailable(s) THEN UNCHANGED state /\ Nothing(s)
       ELSE LET act  == Head(state.pending)
                rest == [state EXCEPT !.pending = Tail(@), !.completed = Fresh(@)]
            IN  \/ /\ Duplicate(act)
                   /\ state' = TerminateAcked(rest, act)
                   /\ Drained(s)
                \/ /\ ~Duplicate(act) /\ IsExpired(act)
                   /\ state' = TerminateRejected(rest, act)
                   /\ Drained(s)
                \/ /\ ~Duplicate(act) /\ ~IsExpired(act)
                   /\ state' = [rest EXCEPT !.reserved = <<s, act>>]
                   /\ Proceed(s, "validate")
    /\ UNCHANGED <<requested, acks, routable, clicks, clock, faults>>

\* validate_target, without the lock: anything may happen before and after.
Validate(s) ==
    /\ calls[s].step = "validate"
    /\ Proceed(s, IF state.reserved[2].target \in routable THEN "commit" ELSE "reject")
    /\ UNCHANGED <<state, requested, acks, routable, clicks, clock, faults, loose>>

Unreserved == [state EXCEPT !.reserved = <<>>]

\* Slip: whoever reserved may commit.
StillListeningAnyway(s) == state.inFlight = <<>>

\* The session that commits is still the one that is registered.
StillListening(s) == state.session = s /\ state.inFlight = <<>>

\* commit_reservation. A reservation is identified by a ticket; a session has
\* one call at a time and only that call clears its slot, so the session will do.
Commit(s) ==
    /\ calls[s].step = "commit"
    /\ LET act == state.reserved[2]
       IN  \/ /\ IsExpired(act) \/ act.attempts >= MaxAttempts
              /\ state' = TerminateRejected(Unreserved, act)
              /\ Drained(s)
           \/ /\ ~IsExpired(act) /\ act.attempts < MaxAttempts /\ ~StillListening(s)
              /\ state' = PushFront(Unreserved, act)
              /\ Nothing(s)
           \/ /\ ~IsExpired(act) /\ act.attempts < MaxAttempts /\ StillListening(s)
              /\ state' = [Unreserved EXCEPT
                              !.inFlight = <<s, [act EXCEPT !.attempts = @ + 1]>>]
              /\ Return(s, [session |-> s, phase |-> "opening", left |-> page.left,
                            id |-> act.id])
    /\ UNCHANGED <<requested, acks, routable, clicks, clock, faults, loose>>

\* reject_reservation, and then the callback, which pushes the notice again
\* and wakes the page.
Reject(s) ==
    /\ calls[s].step = "reject"
    /\ LET act == state.reserved[2]
       IN  state' = PushRejection(TerminateRejected(Unreserved, act), act.id)
    /\ Wake("rejection")
    /\ Drained(s)
    /\ UNCHANGED <<acks, routable, clicks, clock, faults, loose>>

\* The validation panics: the guard hands the reservation back, the call fails.
Panic(s) ==
    /\ calls[s].step = "validate"
    /\ faults < MaxFaults
    /\ faults' = faults + 1
    /\ state' = Restored(Unreserved, state.reserved[2])
    /\ Nothing(s)
    /\ loose' = TRUE
    /\ UNCHANGED <<requested, acks, routable, clicks, clock>>

----------------------------------------------------------------------------
(* The page. *)

\* A reload, a crash of the web view, or the bridge is disposed.
Unload ==
    /\ page.phase # "gone"
    /\ page.session < MaxSessions
    /\ page' = [session |-> page.session, phase |-> "gone", left |-> 0]
    /\ requested' = {}
    /\ UNCHANGED <<state, calls, acks, routable, clicks, clock, faults, loose>>

\* listener_ready of a new session; the page then drains both queues.
ListenerReady ==
    /\ page.phase = "gone"
    /\ page' = [session |-> page.session + 1, phase |-> "idle", left |-> 0]
    /\ state' = [(IF state.inFlight = <<>> THEN state
                  ELSE Reloaded([state EXCEPT !.inFlight = <<>>], state.inFlight[2]))
                 EXCEPT !.session = page.session + 1]
    /\ requested' = {"activation", "rejection"}
    /\ loose' = FALSE
    /\ UNCHANGED <<calls, acks, routable, clicks, clock, faults>>

\* drainActivations
StartDrain ==
    /\ page.phase = "idle" /\ "activation" \in requested
    /\ page' = [page EXCEPT !.phase = "draining", !.left = MaxDrain]
    /\ requested' = requested \ {"activation"}
    /\ UNCHANGED <<state, calls, acks, routable, clicks, clock, faults, loose>>

Take ==
    /\ page.phase = "draining"
    /\ IF page.left = 0
       THEN page' = [page EXCEPT !.phase = "idle"] /\ UNCHANGED calls
       ELSE /\ page' = [page EXCEPT !.phase = "taking", !.left = @ - 1]
            /\ calls' = [calls EXCEPT ![page.session] =
                            [step |-> "reserve", left |-> DrainAttempts]]
    /\ UNCHANGED <<state, requested, acks, routable, clicks, clock, faults, loose>>

\* handleOpen: the task is shown, or cannot be (deleted, another account, no
\* answer in five seconds); the outcome goes to the shell.
Open(outcome) ==
    /\ page.phase = "opening"
    /\ page' = [page EXCEPT !.phase = "acking"]
    /\ acks' = acks \cup {[session |-> page.session, id |-> page.id, outcome |-> outcome]}
    /\ UNCHANGED <<state, calls, requested, routable, clicks, clock, faults, loose>>

\* The page waits for the answer and goes on with the next one.
Answered(ack) ==
    /\ acks' = acks \ {ack}
    /\ page' = IF page.session = ack.session /\ page.phase = "acking"
               THEN [session |-> page.session, phase |-> "draining", left |-> page.left]
               ELSE page

HandleAck(ack) ==
    /\ ack \in acks
    /\ state' = Acknowledge(state, ack)
    /\ Answered(ack)
    /\ UNCHANGED <<calls, requested, routable, clicks, clock, faults, loose>>

\* The call fails before it reaches the shell; the page ignores that.
LoseAck(ack) ==
    /\ ack \in acks
    /\ faults < MaxFaults
    /\ faults' = faults + 1
    /\ loose' = TRUE
    /\ Answered(ack)
    /\ UNCHANGED <<state, calls, requested, routable, clicks, clock>>

\* drainRejections: every notice is taken once.
ShowRejections ==
    /\ page.phase = "idle" /\ "activation" \notin requested /\ "rejection" \in requested
    /\ requested' = {}
    /\ state' = [state EXCEPT !.rejections = <<>>]
    /\ UNCHANGED <<calls, page, acks, routable, clicks, clock, faults, loose>>

----------------------------------------------------------------------------
CallStep(s) == Reserve(s) \/ Validate(s) \/ Commit(s) \/ Reject(s)

PageStep ==
    \/ StartDrain \/ Take \/ ShowRejections
    \/ \E outcome \in {"opened", "rejected"} : Open(outcome)

Next ==
    \/ \E target \in Target : Click(target) \/ Unroute(target)
    \/ Tick
    \/ \E s \in Session : CallStep(s) \/ Panic(s)
    \/ Unload \/ ListenerReady
    \/ PageStep
    \/ \E ack \in acks : HandleAck(ack) \/ LoseAck(ack)

Spec == Init /\ [][Next]_vars

\* Calls in the shell run to their end, the page goes on with what it is doing
\* and is loaded again when it went; nothing makes a user click or reload, and
\* nothing makes a call fail.
FairSpec ==
    /\ Spec
    /\ \A s \in Session : WF_vars(CallStep(s))
    /\ WF_vars(PageStep) /\ WF_vars(ListenerReady)
    /\ WF_vars(\E ack \in acks : HandleAck(ack))

----------------------------------------------------------------------------
(* What holds. *)

HeldIds == {act.id : act \in HeldIn(state.reserved) \cup HeldIn(state.inFlight)}

QueuedIds == {state.pending[i].id : i \in DOMAIN state.pending}

\* Every click that was admitted is held in exactly one place, or ended exactly
\* once, whatever reloads, panics, expiry and overflow do to it: the accounting
\* that the ownership slot of DeliveryState is there for.
Accounted ==
    /\ LiveCount(state) <= Capacity
    /\ Cardinality(HeldIds \cup QueuedIds) = LiveCount(state)
    /\ \A i \in Id :
        Len(state.terminated[i]) =
            IF i \in state.admitted \ (HeldIds \cup QueuedIds) THEN 1 ELSE 0

\* Handing an activation back after a reload, a lost session or a panic never
\* lets a later click overtake it: what is held comes before what waits, and
\* what waits is in the order of the clicks.
InClickOrder ==
    LET waiting == [i \in DOMAIN state.pending |-> state.pending[i].id]
    IN  /\ \A i, j \in DOMAIN waiting : i < j => waiting[i] < waiting[j]
        /\ \A h \in HeldIds, i \in DOMAIN waiting : h < waiting[i]
        /\ Cardinality(HeldIds) <= 1

\* What is in flight is in flight for the page that is registered: a call that
\* a reloaded page left behind cannot block the queue, nor can its late
\* acknowledgement end what another page is opening.
OnlyTheListenerHolds ==
    /\ state.inFlight # <<>> => state.inFlight[1] = state.session
    /\ page.phase \in {"opening", "acking"} =>
            \/ HeldIn(state.inFlight) # {} /\ state.inFlight[2].id = page.id
            \/ state.terminated[page.id] # <<>>

\* Every click ends, unless the page went to sleep while the slot was taken: by
\* an activation whose acknowledgement failed, or by a call that an earlier page
\* left behind; or its own call panicked. Nothing wakes it then until the next
\* click or reload.
Settles ==
    \A i \in Id : (i \in state.admitted) ~> (state.terminated[i] # <<>> \/ loose)

\* What was rejected has one notice for the page to show: "the message is
\* delivered exactly once" (app/src/lib/notification-activation.ts).
NoticeOnce ==
    \A i, j \in DOMAIN state.rejections :
        i # j /\ state.rejections[i] # Refused => state.rejections[i] # state.rejections[j]
============================================================================
