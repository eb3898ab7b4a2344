--------------------------- MODULE AccountSwitch ----------------------------
(***************************************************************************)
(* Changing the active account of the native app. The page (CloudPanel)    *)
(* drives commands of the shell (commands.rs), which close the gate in     *)
(* front of the database (db.rs, RuntimeGate), write a journal             *)
(* (native-accounts, switch.rs) and restart the process; the new process   *)
(* recovers from the journal and the registry, which are two files, before *)
(* it opens a database. The process may die between any two writes.        *)
(***************************************************************************)
EXTENDS Integers, FiniteSets

CONSTANTS
    Cloud,          \* the accounts besides the default one
    Default,        \* DEFAULT_ACCOUNT_ID
    Nobody,
    Worker,         \* threads that serve storage, token and reminder commands
    MaxSwitches,    \* bound: switches that are begun
    MaxFaults       \* bound: crashes, damaged files, failed calls, page reloads

ASSUME SwitchAssumption ==
    /\ Default \notin Cloud /\ Nobody \notin Cloud \cup {Default}
    /\ MaxSwitches \in Nat /\ MaxFaults \in Nat

Account == Cloud \cup {Default}

VARIABLES
    journal,    \* pending-account-switch.json
    registry,   \* accounts.json: the active account, the known and the unverified
    db,         \* the file of each database
    bound,      \* the databases that name their owner (bound_account)
    app,        \* the process and its start
    gate,       \* RuntimeGate
    lease,      \* StorageLease of each worker, from enter_storage to its drop
    cmd,        \* the switch command on the main thread
    page,       \* nativeSwitch in CloudPanel
    armed,      \* a reminder of the open account waits in the timer queue
    switches, faults,
    stranded    \* the page that drove the switch is gone or gave up (history)

vars == <<journal, registry, db, bound, app, gate, lease, cmd, page, armed,
          switches, faults, stranded>>

disk == <<journal, registry, db, bound>>

NoJournal == [phase |-> "none"]

Journal == {NoJournal} \cup
    [phase : {"Prepared", "RestartRequired", "VerifyingTarget", "Failed"},
     from : Account, to : Account, generation : 1..MaxSwitches]

GatePhase == {"Active", "Draining", "Preparing", "Prepared", "RequestInProgress",
              "RestartRequired", "Failed"}

TypeOK ==
    /\ journal \in Journal
    /\ registry \in [active : Account, known : SUBSET Account, pending : SUBSET Cloud]
    /\ registry.active \in registry.known
    /\ db \in [Account -> {"ok", "refused", "unopenable"}]
    /\ bound \subseteq Account
    /\ app \in [pc : {"down", "recover", "restore", "commit", "open", "finish", "up"},
                committed : BOOLEAN, opened : Account \cup {Nobody}, exiting : BOOLEAN]
    /\ app.pc = "up" => app.opened # Nobody
    /\ gate \in [phase : GatePhase, accepting : BOOLEAN]
    /\ lease \in [Worker -> {"out", "checked", "counted", "in"}]
    /\ cmd \in {"none", "drain", "prepare", "cancel", "write", "spawn"}
    /\ page \in [step : {"idle", "waiting", "confirm", "abort", "request", "recover",
                         "restarting", "stuck"},
                 target : Account, generation : 0..MaxSwitches]
    /\ armed \in BOOLEAN /\ stranded \in BOOLEAN
    /\ switches \in 0..MaxSwitches /\ faults \in 0..MaxFaults

OpenGate == [phase |-> "Active", accepting |-> TRUE]
Stopped == [pc |-> "down", committed |-> FALSE, opened |-> Nobody, exiting |-> FALSE]
IdlePage == [step |-> "idle", target |-> Default, generation |-> 0]

Init ==
    /\ journal = NoJournal
    /\ registry = [active |-> Default, known |-> {Default}, pending |-> {}]
    /\ db = [a \in Account |-> "ok"]
    /\ bound = {}
    /\ app = Stopped
    /\ gate = OpenGate /\ lease = [w \in Worker |-> "out"] /\ cmd = "none"
    /\ page = IdlePage
    /\ armed = FALSE /\ stranded = FALSE
    /\ switches = 0 /\ faults = 0

Fault == faults < MaxFaults /\ faults' = faults + 1
NoFault == UNCHANGED faults

\* verify_target_identity: the file is there and sound, it is not bound to
\* another identity, and a verified cloud account has its binding.
Verifies(account) ==
    /\ db[account] # "refused"
    /\ account \in {Default} \cup registry.pending \cup bound

----------------------------------------------------------------------------
(* The start of the process: open_store_at. *)

process == <<gate, lease, cmd, page, armed, switches, stranded>>

At(pc) == app.pc = pc
GoTo(pc) == app' = [app EXCEPT !.pc = pc]

\* What the process kept in memory is gone.
Die ==
    /\ app' = Stopped
    /\ gate' = OpenGate /\ lease' = [w \in Worker |-> "out"] /\ cmd' = "none"
    /\ page' = IdlePage
    /\ armed' = FALSE /\ stranded' = FALSE
    /\ UNCHANGED <<disk, switches>>

Start == /\ At("down") /\ GoTo("recover")
         /\ UNCHANGED <<disk, process, faults>>

\* A start that returns an error ends the process.
Quit == /\ app' = Stopped
        /\ UNCHANGED <<disk, process, faults>>

\* A journal that does not fit ends every start with an error: StartsOnCurrent.
JournalFits == registry.active \in {journal.from, journal.to}

SetPhase(phase) == journal' = [journal EXCEPT !.phase = phase]

\* Slip: a switch that was only prepared is carried out.
RecoverPrepared ==
    /\ At("recover") /\ journal.phase \in {"none", "Prepared"}
    /\ registry' = IF journal.phase = "none" THEN registry
                   ELSE [registry EXCEPT !.active = journal.to]
    /\ journal' = NoJournal
    /\ GoTo("open")
    /\ UNCHANGED <<db, bound, process, faults>>

\* recover_pending_switch, up to its first write.
RecoverNothing ==
    /\ At("recover") /\ journal.phase \in {"none", "Prepared"}
    /\ journal' = NoJournal
    /\ GoTo("open")
    /\ UNCHANGED <<registry, db, bound, process, faults>>

RecoverFailed ==
    /\ At("recover") /\ journal.phase = "Failed" /\ JournalFits
    /\ GoTo("restore")
    /\ UNCHANGED <<disk, process, faults>>

Requested == journal.phase \in {"RestartRequired", "VerifyingTarget"}

\* Slip: a target that does not verify ends the start.
RecoverRequestedOrQuit ==
    /\ At("recover") /\ Requested /\ JournalFits
    /\ IF Verifies(journal.to) THEN SetPhase("VerifyingTarget") /\ GoTo("commit")
       ELSE UNCHANGED journal /\ app' = Stopped
    /\ UNCHANGED <<registry, db, bound, process, faults>>

RecoverRequested ==
    /\ At("recover") /\ Requested /\ JournalFits
    /\ \/ Verifies(journal.to) /\ SetPhase("VerifyingTarget") /\ GoTo("commit")
       \/ ~Verifies(journal.to) /\ SetPhase("Failed") /\ GoTo("restore")
    /\ UNCHANGED <<registry, db, bound, process, faults>>

\* Slip: a failed journal is taken as proof that the registry was restored.
RestoreNothing ==
    /\ At("restore")
    /\ app' = [app EXCEPT !.pc = "open", !.committed = FALSE]
    /\ UNCHANGED <<disk, process, faults>>

\* The journal says FAILED before the registry points back at the source.
RestoreSource ==
    /\ At("restore")
    /\ registry' = [registry EXCEPT !.active = IF @ = journal.to THEN journal.from ELSE @]
    /\ app' = [app EXCEPT !.pc = "open", !.committed = FALSE]
    /\ UNCHANGED <<journal, db, bound, process, faults>>

CommitTarget ==
    /\ At("commit")
    /\ registry' = [registry EXCEPT !.active = journal.to]
    /\ app' = [app EXCEPT !.pc = "open", !.committed = TRUE]
    /\ UNCHANGED <<journal, db, bound, process, faults>>

\* ensure_active_account and TodoStore::open. The gate is new when it is up.
Open ==
    /\ At("open") /\ db[registry.active] = "ok"
    /\ app' = [app EXCEPT !.pc = IF app.committed THEN "finish" ELSE "up",
                          !.opened = registry.active]
    /\ UNCHANGED <<disk, process, faults>>

\* A file that ensure_active_account misses ends the start at once.
OpenFails ==
    /\ At("open") /\ db[registry.active] # "ok"
    /\ ~app.committed \/ db[registry.active] = "refused"
    /\ Quit

\* rollback_pending_switch; then the source is opened instead.
RollBack ==
    /\ At("open") /\ db[registry.active] # "ok" /\ app.committed
    /\ SetPhase("Failed") /\ GoTo("restore")
    /\ UNCHANGED <<registry, db, bound, process, faults>>

\* finish_pending_switch
Finish ==
    /\ At("finish")
    /\ journal.phase = "VerifyingTarget" /\ registry.active = journal.to
    /\ journal' = NoJournal
    /\ GoTo("up")
    /\ UNCHANGED <<registry, db, bound, process, faults>>

StartStep ==
    \/ Start \/ RecoverNothing \/ RecoverFailed \/ RecoverRequested
    \/ RestoreSource \/ CommitTarget \/ Open \/ OpenFails \/ RollBack \/ Finish

----------------------------------------------------------------------------
(* The gate: enter_storage checks, counts itself in, and checks again. *)

Up == At("up") /\ ~app.exiting
InFlight == {w \in Worker : lease[w] \in {"counted", "in"}}

Enter(w) ==
    /\ Up /\ lease[w] = "out" /\ gate.accepting
    /\ lease' = [lease EXCEPT ![w] = "checked"]
    /\ UNCHANGED <<disk, app, gate, cmd, page, armed, switches, faults, stranded>>

Count(w) ==
    /\ At("up") /\ lease[w] = "checked"
    /\ lease' = [lease EXCEPT ![w] = "counted"]
    /\ UNCHANGED <<disk, app, gate, cmd, page, armed, switches, faults, stranded>>

\* Slip: the gate is not looked at again.
AdmitAnyway(w) ==
    /\ At("up") /\ lease[w] = "counted"
    /\ lease' = [lease EXCEPT ![w] = "in"]
    /\ UNCHANGED <<disk, app, gate, cmd, page, armed, switches, faults, stranded>>

Recheck(w) ==
    /\ At("up") /\ lease[w] = "counted"
    /\ lease' = [lease EXCEPT ![w] = IF gate.accepting THEN "in" ELSE "out"]
    /\ UNCHANGED <<disk, app, gate, cmd, page, armed, switches, faults, stranded>>

Leave(w) ==
    /\ At("up") /\ lease[w] = "in"
    /\ lease' = [lease EXCEPT ![w] = "out"]
    /\ UNCHANGED <<disk, app, gate, cmd, page, armed, switches, faults, stranded>>

\* schedule_reminder, reschedule_reminders
Arm(w) ==
    /\ At("up") /\ lease[w] = "in"
    /\ ~armed /\ armed' = TRUE
    /\ UNCHANGED <<disk, app, gate, lease, cmd, page, switches, faults, stranded>>

\* sync_initialize_cloud: the account signs in on its own database.
SignIn(w) ==
    /\ At("up") /\ lease[w] = "in"
    /\ app.opened \in Cloud \ bound
    /\ bound' = bound \cup {app.opened}
    /\ UNCHANGED <<journal, registry, db, process, app, faults>>

\* sync_clear_account_binding: the account signs out and clears this device.
SignOut(w) ==
    /\ At("up") /\ lease[w] = "in"
    /\ app.opened \in bound
    /\ bound' = bound \ {app.opened}
    /\ UNCHANGED <<journal, registry, db, process, app, faults>>

----------------------------------------------------------------------------
(* Commands that touch the registry on the main thread, one at a time. *)

Command == Up /\ cmd = "none" /\ gate.accepting

\* create_pending_cloud_account
CreateAccount(account) ==
    /\ Command /\ journal.phase \in {"none", "Failed"}
    /\ account \notin registry.known
    /\ registry' = [registry EXCEPT !.known = @ \cup {account}, !.pending = @ \cup {account}]
    /\ UNCHANGED <<journal, db, bound, app, process, faults>>

\* mark_account_verified
MarkVerified ==
    /\ Command /\ registry.active \in registry.pending \cap bound
    /\ registry' = [registry EXCEPT !.pending = @ \ {registry.active}]
    /\ UNCHANGED <<journal, db, bound, app, process, faults>>

----------------------------------------------------------------------------
(* native_prepare_account_switch, native_request_account_switch and           *)
(* native_abort_account_switch. The page waits; it may be reloaded meanwhile. *)

Close(phase) == gate' = [phase |-> phase, accepting |-> FALSE]

\* The command is over; the page, if it still waits, goes on with step.
Reply(step) ==
    /\ cmd' = "none"
    /\ page' = IF page.step \in {"waiting", "abort"} THEN [page EXCEPT !.step = step] ELSE page

\* abort_account_switch_inner: only a journal that was not requested goes.
Abort(step) ==
    IF journal.phase \in {"none", "Prepared"}
    THEN journal' = NoJournal /\ gate' = OpenGate /\ Reply(step)
    ELSE UNCHANGED journal /\ gate' = [gate EXCEPT !.phase = "Failed"] /\ Reply("recover")

\* begin_switch, to the point where it waits.
BeginSwitch(target) ==
    /\ Command /\ gate.phase = "Active" /\ page.step = "idle"
    /\ target \in registry.known
    /\ switches < MaxSwitches /\ switches' = switches + 1
    /\ Close("Draining")
    /\ cmd' = "drain"
    /\ page' = [step |-> "waiting", target |-> target, generation |-> 0]
    /\ UNCHANGED <<disk, app, lease, armed, faults, stranded>>

Drained ==
    /\ At("up") /\ cmd = "drain" /\ InFlight = {}
    /\ Close("Preparing") /\ cmd' = "prepare"
    /\ UNCHANGED <<disk, app, lease, page, armed, switches, faults, stranded>>

\* Slip: the error is returned before the switch is aborted.
DrainTimeoutOnly ==
    /\ At("up") /\ cmd = "drain" /\ InFlight # {}
    /\ Reply("idle")
    /\ UNCHANGED <<disk, app, gate, lease, armed, switches, faults, stranded>>

DrainTimeout ==
    /\ At("up") /\ cmd = "drain" /\ InFlight # {}
    /\ Abort("idle")
    /\ UNCHANGED <<registry, db, bound, app, lease, armed, switches, faults, stranded>>

\* prepare_account_switch refuses this target.
Refused(target) ==
    \/ target = registry.active
    \/ ~Verifies(target)
    \/ journal.phase # "none" /\ journal.to # target

\* The target is the one of the call; the page may have gone.
Prepare(target) ==
    /\ At("up") /\ cmd = "prepare" /\ target = page.target
    /\ IF Refused(target) THEN Abort("idle")
       ELSE /\ journal' = [phase |-> "Prepared", from |-> registry.active, to |-> target,
                           generation |-> switches]
            /\ Close("Prepared")
            /\ cmd' = "none"
            /\ page' = IF page.step = "waiting"
                       THEN [page EXCEPT !.step = "confirm", !.generation = switches]
                       ELSE page
    /\ UNCHANGED <<registry, db, bound, app, lease, armed, switches, faults, stranded>>

\* The user confirms, the cloud controller is quiesced; or the user does not.
Confirm ==
    /\ At("up") /\ page.step = "confirm"
    /\ \E step \in {"request", "abort"} : page' = [page EXCEPT !.step = step]
    /\ UNCHANGED <<disk, app, gate, lease, cmd, armed, switches, faults, stranded>>

AbortCommand ==
    /\ Up /\ cmd = "none" /\ page.step = "abort"
    /\ IF gate.phase \in {"Active", "Prepared"} THEN Abort("idle")
       ELSE Reply("recover") /\ UNCHANGED <<journal, gate>>
    /\ UNCHANGED <<registry, db, bound, app, lease, armed, switches, faults, stranded>>

\* A request that fails leaves the gate closed for good.
FailClosed ==
    /\ gate' = [gate EXCEPT !.phase = "Failed"]
    /\ Reply("recover")

Matches ==
    /\ journal.phase \in {"Prepared", "RestartRequired"}
    /\ journal.to = page.target /\ journal.generation = page.generation

\* begin_request and validate_account_switch_request
Request ==
    /\ Up /\ cmd = "none" /\ page.step = "request"
    /\ IF gate.phase = "Prepared" /\ Matches
       THEN /\ Close("RequestInProgress")
            /\ cmd' = "cancel"
            /\ page' = [page EXCEPT !.step = "waiting"]
       ELSE /\ gate' = IF gate.phase = "Prepared" THEN [gate EXCEPT !.phase = "Failed"] ELSE gate
            /\ page' = [page EXCEPT !.step = "recover"]
            /\ UNCHANGED cmd
    /\ UNCHANGED <<disk, app, lease, armed, switches, faults, stranded>>

\* Slip: only what the page knows of is cancelled.
CancelSome ==
    /\ At("up") /\ cmd = "cancel"
    /\ cmd' = "write" /\ armed' \in BOOLEAN /\ UNCHANGED <<gate, page>> /\ NoFault
    /\ UNCHANGED <<disk, app, lease, switches, stranded>>

\* cancel_current_account_reminders, and a look whether some are left.
Cancel ==
    /\ At("up") /\ cmd = "cancel"
    /\ \/ armed' = FALSE /\ cmd' = "write" /\ UNCHANGED <<gate, page>> /\ NoFault
       \/ UNCHANGED armed /\ FailClosed /\ Fault
    /\ UNCHANGED <<disk, app, lease, switches, stranded>>

\* request_account_switch
WriteRequest ==
    /\ At("up") /\ cmd = "write"
    /\ \/ SetPhase("RestartRequired") /\ cmd' = "spawn" /\ UNCHANGED <<gate, page>> /\ NoFault
       \/ UNCHANGED journal /\ FailClosed /\ Fault
    /\ UNCHANGED <<registry, db, bound, app, lease, armed, switches, stranded>>

\* restart_after_switch. When it cannot, the switch is rolled back, and the
\* registry still has the source.
Spawn ==
    /\ At("up") /\ cmd = "spawn"
    /\ \/ /\ Close("RestartRequired")
          /\ app' = [app EXCEPT !.exiting = TRUE]
          /\ Reply("restarting")
          /\ UNCHANGED journal /\ NoFault
       \/ /\ SetPhase("Failed") /\ FailClosed
          /\ UNCHANGED app /\ Fault
    /\ UNCHANGED <<registry, db, bound, lease, armed, switches, stranded>>

\* native_restart_account_recovery
Recover ==
    /\ Up /\ cmd = "none" /\ page.step = "recover"
    /\ \/ /\ app' = [app EXCEPT !.exiting = TRUE]
          /\ page' = [page EXCEPT !.step = "restarting"]
          /\ UNCHANGED stranded /\ NoFault
       \/ /\ page' = [page EXCEPT !.step = "stuck"]
          /\ stranded' = TRUE
          /\ UNCHANGED app /\ Fault
    /\ UNCHANGED <<disk, gate, lease, cmd, armed, switches>>

Exit == /\ At("up") /\ app.exiting
        /\ Die /\ NoFault

----------------------------------------------------------------------------
(* What may go wrong at any moment. *)

\* The process is killed, or the user quits it.
Crash == ~At("down") /\ Die /\ Fault

\* The web view is loaded again; what nativeSwitch knew is gone.
Reload ==
    /\ Up /\ page.step # "idle"
    /\ page' = [page EXCEPT !.step = "idle"]
    /\ stranded' = TRUE
    /\ Fault
    /\ UNCHANGED <<disk, app, gate, lease, cmd, armed, switches>>

\* A file is damaged or replaced, or comes back.
Damage(account, file) ==
    /\ account \in registry.known /\ db[account] # file
    /\ db' = [db EXCEPT ![account] = file]
    /\ Fault
    /\ UNCHANGED <<journal, registry, bound, app, process>>

----------------------------------------------------------------------------
WorkerStep(w) ==
    Enter(w) \/ Count(w) \/ Recheck(w) \/ Leave(w) \/ Arm(w) \/ SignIn(w) \/ SignOut(w)

CommandStep ==
    \/ Drained \/ DrainTimeout \/ Prepare(page.target)
    \/ AbortCommand \/ Request \/ Cancel \/ WriteRequest \/ Spawn \/ Recover \/ Exit

Next ==
    \/ StartStep
    \/ \E w \in Worker : WorkerStep(w)
    \/ \E account \in Cloud : CreateAccount(account)
    \/ MarkVerified
    \/ \E target \in Account : BeginSwitch(target)
    \/ Confirm \/ CommandStep
    \/ Crash \/ Reload
    \/ \E account \in Account, file \in {"ok", "refused", "unopenable"} : Damage(account, file)

Spec == Init /\ [][Next]_vars

\* The start and the commands run to their end, the user answers the dialog;
\* nobody has to begin a switch, and a worker may hold its lease for ever.
FairSpec == Spec /\ WF_vars(StartStep) /\ WF_vars(CommandStep) /\ WF_vars(Confirm)

----------------------------------------------------------------------------
(* What holds. *)

\* The account that the user is on: it changes when the journal of a requested
\* switch is removed, whatever the registry says in between.
Current == IF Requested \/ journal.phase = "Failed" THEN journal.from ELSE registry.active

Wanted == IF Requested THEN journal.to ELSE Nobody

\* A switch of two files, through crashes and failures, is one step from the
\* source to the target that was asked for, or none.
Choice == INSTANCE AccountChoice WITH current <- Current, wanted <- Wanted

OneStep == Choice!Spec

\* Whoever may write, writes to the account that the user is on, and to none
\* that is about to be left: neither a thread that passed the gate while it was
\* being closed nor a process that was killed half-way writes to another.
WritersStay ==
    \A w \in Worker : lease[w] = "in" =>
        /\ app.opened = Current
        /\ journal.phase \in {"none", "Failed"}

\* When the switch is requested the reminders of the account are cancelled and
\* none is armed again before the process ends.
NoReminderLeftBehind == journal.phase = "RestartRequired" /\ At("up") => ~armed

\* The files never contradict each other so that a start gives up on a journal,
\* and a start ends with the account that the user is on.
StartsOnCurrent ==
    /\ journal.phase # "none" => JournalFits
    /\ At("up") => app.opened = Current /\ registry.active = Current

\* The app comes up again, unless the file of the account it is on is damaged.
ComesUp == At("down") ~> (At("up") \/ db[registry.active] # "ok")

\* A gate that was closed for a switch opens again, in this process or the next,
\* unless the page that drove the switch was reloaded or could not restart.
Reopens == (~gate.accepting) ~> (gate.accepting \/ stranded)
============================================================================
