-------------------------- MODULE AccountSwitchProofs -------------------------
(***************************************************************************)
(* Proofs about AccountSwitch, for any number of accounts, workers,        *)
(* switches and faults: switching in two files, through crashes, failed    *)
(* calls and damaged databases, is the atomic choice of AccountChoice, and *)
(* nobody writes to an account that is being left.                         *)
(***************************************************************************)
EXTENDS AccountSwitch, TLAPS

----------------------------------------------------------------------------
(* Types. *)

Registries == [active : Account, known : SUBSET Account, pending : SUBSET Cloud]

Processes == [pc : {"down", "recover", "restore", "commit", "open", "finish", "up"},
              committed : BOOLEAN, opened : Account \cup {Nobody}, exiting : BOOLEAN]

Gates == [phase : GatePhase, accepting : BOOLEAN]

Leases == [Worker -> {"out", "checked", "counted", "in"}]

Commands == {"none", "drain", "prepare", "cancel", "write", "spawn"}

Pages == [step : {"idle", "waiting", "confirm", "abort", "request", "recover",
                  "restarting", "stuck"},
          target : Account, generation : 0..MaxSwitches]

\* The variables of the files, and those of the process.
FilesTyped ==
    /\ journal \in Journal
    /\ registry \in Registries /\ registry.active \in registry.known
    /\ db \in [Account -> {"ok", "refused", "unopenable"}]
    /\ bound \subseteq Account

ProcessTyped ==
    /\ gate \in Gates /\ lease \in Leases /\ cmd \in Commands /\ page \in Pages
    /\ armed \in BOOLEAN /\ stranded \in BOOLEAN
    /\ switches \in 0..MaxSwitches

AppTyped == app \in Processes /\ (app.pc = "up" => app.opened # Nobody)

Typed == FilesTyped /\ ProcessTyped /\ AppTyped /\ faults \in 0..MaxFaults

LEMMA TypeParts == Typed => TypeOK
BY DEF Typed, TypeOK, FilesTyped, ProcessTyped, AppTyped, Registries, Processes, Gates, Leases,
       Commands, Pages

LEMMA JournalType ==
    ASSUME journal \in Journal
    PROVE  /\ journal.phase \in {"none", "Prepared", "RestartRequired", "VerifyingTarget",
                                 "Failed"}
           /\ journal.phase = "none" => journal = NoJournal
           /\ journal.phase # "none" =>
                 journal \in [phase : {"Prepared", "RestartRequired", "VerifyingTarget",
                                       "Failed"},
                              from : Account, to : Account, generation : 1..MaxSwitches]
BY DEF Journal, NoJournal

\* A phase that is written leaves the rest of the journal as it is.
LEMMA SetPhaseType ==
    ASSUME journal \in Journal, journal.phase # "none",
           NEW phase \in {"Prepared", "RestartRequired", "VerifyingTarget", "Failed"},
           SetPhase(phase)
    PROVE  /\ journal' \in Journal /\ journal'.phase = phase
           /\ journal'.from = journal.from /\ journal'.to = journal.to
BY JournalType DEF SetPhase, Journal

LEMMA NoJournalType == NoJournal \in Journal /\ NoJournal.phase = "none"
BY DEF Journal, NoJournal

LEMMA FaultType ==
    ASSUME faults \in 0..MaxFaults, Fault \/ NoFault
    PROVE  faults' \in 0..MaxFaults
BY SwitchAssumption DEF Fault, NoFault, SwitchAssumption

LEMMA FreshType ==
    /\ OpenGate \in Gates /\ OpenGate.phase = "Active" /\ OpenGate.accepting = TRUE
    /\ Stopped \in Processes /\ Stopped.pc = "down" /\ ~Stopped.committed
    /\ IdlePage \in Pages /\ IdlePage.target = Default
    /\ [w \in Worker |-> "out"] \in Leases
BY SwitchAssumption
DEF OpenGate, Gates, GatePhase, Stopped, Processes, IdlePage, Pages, Account, Leases,
    SwitchAssumption

----------------------------------------------------------------------------
(* The inductive invariant. *)

\* Whatever moment the process dies at, the two files name two known accounts,
\* of which one is active; before a start has looked at them it is the source.
Files ==
    /\ Default \in registry.known /\ page.target \in registry.known
    /\ journal.phase # "none" =>
          /\ journal.from # journal.to
          /\ journal.from \in registry.known /\ journal.to \in registry.known
          /\ registry.active \in {journal.from, journal.to}
          /\ switches >= 1
    /\ journal.phase \in {"Prepared", "RestartRequired"} => registry.active = journal.from

\* What a start knows of the files at each of its steps.
Starting ==
    /\ At("down") \/ At("recover") => ~app.committed
    /\ At("restore") => journal.phase = "Failed"
    /\ At("commit") => journal.phase = "VerifyingTarget"
    /\ At("open") /\ ~app.committed => journal.phase \in {"none", "Failed"}
    /\ (At("open") /\ app.committed) \/ At("finish") =>
          journal.phase = "VerifyingTarget" /\ registry.active = journal.to
    /\ At("finish") \/ At("up") => app.opened = registry.active
    /\ At("up") => journal.phase # "VerifyingTarget"
    /\ At("open") \/ At("up") => (journal.phase = "Failed" => registry.active = journal.from)
    /\ ~At("up") => /\ cmd = "none" /\ gate = OpenGate
                    /\ \A w \in Worker : lease[w] = "out"

\* Each step of a command finds the journal that the step before it left.
InStep ==
    /\ gate.phase = "Prepared" => journal.phase = "Prepared"
    /\ cmd \in {"drain", "prepare"} => journal.phase \in {"none", "Failed"}
    /\ cmd \in {"cancel", "write"} => journal.phase = "Prepared"
    /\ cmd = "spawn" => journal.phase = "RestartRequired"
    /\ cmd # "none" => gate.phase # "Prepared" /\ switches >= 1

\* The account may be left: nobody gets in, nobody is in, and nothing is armed
\* once the reminders are cancelled.
Leaving == At("up") /\ journal.phase \in {"Prepared", "RestartRequired"}

Closed ==
    /\ cmd # "none" \/ Leaving => ~gate.accepting
    /\ cmd = "prepare" \/ Leaving => \A w \in Worker : lease[w] # "in"
    /\ cmd = "write" \/ (At("up") /\ journal.phase = "RestartRequired") => ~armed

IInv == Typed /\ Files /\ Starting /\ InStep /\ Closed

----------------------------------------------------------------------------
(* The invariant holds at first and every step keeps it. *)

LEMMA InitHolds == Init => IInv
<1> SUFFICES ASSUME Init PROVE IInv
  OBVIOUS
<1>1. FilesTyped
  <2>1. registry \in Registries /\ registry.active \in registry.known
    BY DEF Init, Registries, Account
  <2> QED
    BY <2>1, NoJournalType DEF Init, FilesTyped
<1>2. ProcessTyped
  <2>1. cmd \in Commands /\ armed \in BOOLEAN /\ stranded \in BOOLEAN
    BY DEF Init, Commands
  <2>2. switches \in 0..MaxSwitches
    BY SwitchAssumption DEF Init, SwitchAssumption
  <2> QED
    BY <2>1, <2>2, FreshType DEF Init, ProcessTyped
<1>3. AppTyped /\ faults \in 0..MaxFaults
  BY FreshType, SwitchAssumption DEF Init, AppTyped, SwitchAssumption
<1>4. Files
  BY NoJournalType, FreshType DEF Init, Files
<1>5. Starting /\ InStep /\ Closed
  BY NoJournalType, FreshType DEF Init, Starting, InStep, Closed, Leaving, At
<1> QED
  BY <1>1, <1>2, <1>3, <1>4, <1>5 DEF IInv, Typed

\* The steps of a start: they leave the memory of the process alone.
LEMMA StartKeeps ==
    ASSUME IInv, StartStep
    PROVE  IInv'
<1>1. FilesTyped /\ ProcessTyped /\ AppTyped /\ faults \in 0..MaxFaults
  BY DEF IInv, Typed
<1>2. journal \in Journal /\ registry \in Registries /\ app \in Processes
  BY <1>1 DEF FilesTyped, AppTyped
<1>3. Files /\ Starting /\ InStep /\ Closed
  BY DEF IInv
<1>4. UNCHANGED <<process, faults>> => ProcessTyped' /\ faults' \in 0..MaxFaults
  BY <1>1 DEF ProcessTyped, process
<1>5. CASE Start
  <2>1. journal' \in Journal /\ registry' \in Registries /\ registry'.active \in registry'.known
    BY <1>1, <1>2, <1>3, <1>5, JournalType, SetPhaseType, NoJournalType
    DEF Start, FilesTyped, Files, disk, Registries, At, Starting, Requested
  <2>2. FilesTyped'
    BY <1>1, <1>5, <2>1 DEF Start, FilesTyped, disk
  <2>3. AppTyped'
    BY <1>1, <1>2, <1>3, <1>5, FreshType, SwitchAssumption
    DEF Start, AppTyped, Processes, At, GoTo, Registries, SwitchAssumption, Account, Starting
  <2>4. UNCHANGED <<process, faults>>
    BY <1>5 DEF Start
  <2>5. Files'
    BY <1>2, <1>3, <1>5, JournalType, SetPhaseType, NoJournalType
    DEF Start, Files, Starting, disk, process, Registries, At, Requested
  <2>6. Starting'
    BY <1>2, <1>3, <1>5, JournalType, SetPhaseType, NoJournalType, FreshType
    DEF Start, Starting, Files, disk, process, Registries, Processes, At, GoTo, Requested
  <2>7. InStep' /\ Closed'
    BY <1>2, <1>3, <1>5, <2>4, JournalType, SetPhaseType, NoJournalType, FreshType
    DEF Start, InStep, Closed, Leaving, Starting, disk, process, Processes, At, GoTo
  <2> QED
    BY <1>4, <2>2, <2>3, <2>4, <2>5, <2>6, <2>7 DEF IInv, Typed
<1>6. CASE RecoverNothing
  <2>1. journal' \in Journal /\ registry' \in Registries /\ registry'.active \in registry'.known
    BY <1>1, <1>2, <1>3, <1>6, JournalType, SetPhaseType, NoJournalType
    DEF RecoverNothing, FilesTyped, Files, disk, Registries, At, Starting, Requested
  <2>2. FilesTyped'
    BY <1>1, <1>6, <2>1 DEF RecoverNothing, FilesTyped, disk
  <2>3. AppTyped'
    BY <1>1, <1>2, <1>3, <1>6, FreshType, SwitchAssumption
    DEF RecoverNothing, AppTyped, Processes, At, GoTo, Registries, SwitchAssumption, Account, Starting
  <2>4. UNCHANGED <<process, faults>>
    BY <1>6 DEF RecoverNothing
  <2>5. Files'
    BY <1>2, <1>3, <1>6, JournalType, SetPhaseType, NoJournalType
    DEF RecoverNothing, Files, Starting, disk, process, Registries, At, Requested
  <2>6. Starting'
    BY <1>2, <1>3, <1>6, JournalType, SetPhaseType, NoJournalType, FreshType
    DEF RecoverNothing, Starting, Files, disk, process, Registries, Processes, At, GoTo, Requested
  <2>7. InStep' /\ Closed'
    BY <1>2, <1>3, <1>6, <2>4, JournalType, SetPhaseType, NoJournalType, FreshType
    DEF RecoverNothing, InStep, Closed, Leaving, Starting, disk, process, Processes, At, GoTo
  <2> QED
    BY <1>4, <2>2, <2>3, <2>4, <2>5, <2>6, <2>7 DEF IInv, Typed
<1>7. CASE RecoverFailed
  <2>1. journal' \in Journal /\ registry' \in Registries /\ registry'.active \in registry'.known
    BY <1>1, <1>2, <1>3, <1>7, JournalType, SetPhaseType, NoJournalType
    DEF RecoverFailed, FilesTyped, Files, disk, Registries, At, Starting, Requested
  <2>2. FilesTyped'
    BY <1>1, <1>7, <2>1 DEF RecoverFailed, FilesTyped, disk
  <2>3. AppTyped'
    BY <1>1, <1>2, <1>3, <1>7, FreshType, SwitchAssumption
    DEF RecoverFailed, AppTyped, Processes, At, GoTo, Registries, SwitchAssumption, Account, Starting
  <2>4. UNCHANGED <<process, faults>>
    BY <1>7 DEF RecoverFailed
  <2>5. Files'
    BY <1>2, <1>3, <1>7, JournalType, SetPhaseType, NoJournalType
    DEF RecoverFailed, Files, Starting, disk, process, Registries, At, Requested
  <2>6. Starting'
    BY <1>2, <1>3, <1>7, JournalType, SetPhaseType, NoJournalType, FreshType
    DEF RecoverFailed, Starting, Files, disk, process, Registries, Processes, At, GoTo, Requested
  <2>7. InStep' /\ Closed'
    BY <1>2, <1>3, <1>7, <2>4, JournalType, SetPhaseType, NoJournalType, FreshType
    DEF RecoverFailed, InStep, Closed, Leaving, Starting, disk, process, Processes, At, GoTo
  <2> QED
    BY <1>4, <2>2, <2>3, <2>4, <2>5, <2>6, <2>7 DEF IInv, Typed
<1>8. CASE RecoverRequested
  <2>1. journal' \in Journal /\ registry' \in Registries /\ registry'.active \in registry'.known
    BY <1>1, <1>2, <1>3, <1>8, JournalType, SetPhaseType, NoJournalType
    DEF RecoverRequested, FilesTyped, Files, disk, Registries, At, Starting, Requested
  <2>2. FilesTyped'
    BY <1>1, <1>8, <2>1 DEF RecoverRequested, FilesTyped, disk
  <2>3. AppTyped'
    BY <1>1, <1>2, <1>3, <1>8, FreshType, SwitchAssumption
    DEF RecoverRequested, AppTyped, Processes, At, GoTo, Registries, SwitchAssumption, Account, Starting
  <2>4. UNCHANGED <<process, faults>>
    BY <1>8 DEF RecoverRequested
  <2>5. Files'
    BY <1>2, <1>3, <1>8, JournalType, SetPhaseType, NoJournalType
    DEF RecoverRequested, Files, Starting, disk, process, Registries, At, Requested
  <2>6. Starting'
    BY <1>2, <1>3, <1>8, JournalType, SetPhaseType, NoJournalType, FreshType
    DEF RecoverRequested, Starting, Files, disk, process, Registries, Processes, At, GoTo, Requested
  <2>7. InStep' /\ Closed'
    BY <1>2, <1>3, <1>8, <2>4, JournalType, SetPhaseType, NoJournalType, FreshType
    DEF RecoverRequested, InStep, Closed, Leaving, Starting, disk, process, Processes, At, GoTo
  <2> QED
    BY <1>4, <2>2, <2>3, <2>4, <2>5, <2>6, <2>7 DEF IInv, Typed
<1>9. CASE RestoreSource
  <2>1. journal' \in Journal /\ registry' \in Registries /\ registry'.active \in registry'.known
    BY <1>1, <1>2, <1>3, <1>9, JournalType, SetPhaseType, NoJournalType
    DEF RestoreSource, FilesTyped, Files, disk, Registries, At, Starting, Requested
  <2>2. FilesTyped'
    BY <1>1, <1>9, <2>1 DEF RestoreSource, FilesTyped, disk
  <2>3. AppTyped'
    BY <1>1, <1>2, <1>3, <1>9, FreshType, SwitchAssumption
    DEF RestoreSource, AppTyped, Processes, At, GoTo, Registries, SwitchAssumption, Account, Starting
  <2>4. UNCHANGED <<process, faults>>
    BY <1>9 DEF RestoreSource
  <2>5. Files'
    BY <1>2, <1>3, <1>9, JournalType, SetPhaseType, NoJournalType
    DEF RestoreSource, Files, Starting, disk, process, Registries, At, Requested
  <2>6. Starting'
    BY <1>2, <1>3, <1>9, JournalType, SetPhaseType, NoJournalType, FreshType
    DEF RestoreSource, Starting, Files, disk, process, Registries, Processes, At, GoTo, Requested
  <2>7. InStep' /\ Closed'
    BY <1>2, <1>3, <1>9, <2>4, JournalType, SetPhaseType, NoJournalType, FreshType
    DEF RestoreSource, InStep, Closed, Leaving, Starting, disk, process, Processes, At, GoTo
  <2> QED
    BY <1>4, <2>2, <2>3, <2>4, <2>5, <2>6, <2>7 DEF IInv, Typed
<1>10. CASE CommitTarget
  <2>1. journal' \in Journal /\ registry' \in Registries /\ registry'.active \in registry'.known
    BY <1>1, <1>2, <1>3, <1>10, JournalType, SetPhaseType, NoJournalType
    DEF CommitTarget, FilesTyped, Files, disk, Registries, At, Starting, Requested
  <2>2. FilesTyped'
    BY <1>1, <1>10, <2>1 DEF CommitTarget, FilesTyped, disk
  <2>3. AppTyped'
    BY <1>1, <1>2, <1>3, <1>10, FreshType, SwitchAssumption
    DEF CommitTarget, AppTyped, Processes, At, GoTo, Registries, SwitchAssumption, Account, Starting
  <2>4. UNCHANGED <<process, faults>>
    BY <1>10 DEF CommitTarget
  <2>5. Files'
    BY <1>2, <1>3, <1>10, JournalType, SetPhaseType, NoJournalType
    DEF CommitTarget, Files, Starting, disk, process, Registries, At, Requested
  <2>6. Starting'
    BY <1>2, <1>3, <1>10, JournalType, SetPhaseType, NoJournalType, FreshType
    DEF CommitTarget, Starting, Files, disk, process, Registries, Processes, At, GoTo, Requested
  <2>7. InStep' /\ Closed'
    BY <1>2, <1>3, <1>10, <2>4, JournalType, SetPhaseType, NoJournalType, FreshType
    DEF CommitTarget, InStep, Closed, Leaving, Starting, disk, process, Processes, At, GoTo
  <2> QED
    BY <1>4, <2>2, <2>3, <2>4, <2>5, <2>6, <2>7 DEF IInv, Typed
<1>11. CASE Open
  <2>1. journal' \in Journal /\ registry' \in Registries /\ registry'.active \in registry'.known
    BY <1>1, <1>2, <1>3, <1>11, JournalType, SetPhaseType, NoJournalType
    DEF Open, FilesTyped, Files, disk, Registries, At, Starting, Requested
  <2>2. FilesTyped'
    BY <1>1, <1>11, <2>1 DEF Open, FilesTyped, disk
  <2>3. AppTyped'
    BY <1>1, <1>2, <1>3, <1>11, FreshType, SwitchAssumption
    DEF Open, AppTyped, Processes, At, GoTo, Registries, SwitchAssumption, Account, Starting
  <2>4. UNCHANGED <<process, faults>>
    BY <1>11 DEF Open
  <2>5. Files'
    BY <1>2, <1>3, <1>11, JournalType, SetPhaseType, NoJournalType
    DEF Open, Files, Starting, disk, process, Registries, At, Requested
  <2>6. Starting'
    BY <1>2, <1>3, <1>11, JournalType, SetPhaseType, NoJournalType, FreshType
    DEF Open, Starting, Files, disk, process, Registries, Processes, At, GoTo, Requested
  <2>7. InStep' /\ Closed'
    BY <1>2, <1>3, <1>11, <2>4, JournalType, SetPhaseType, NoJournalType, FreshType
    DEF Open, InStep, Closed, Leaving, Starting, disk, process, Processes, At, GoTo
  <2> QED
    BY <1>4, <2>2, <2>3, <2>4, <2>5, <2>6, <2>7 DEF IInv, Typed
<1>12. CASE OpenFails
  <2>1. journal' \in Journal /\ registry' \in Registries /\ registry'.active \in registry'.known
    BY <1>1, <1>2, <1>3, <1>12, JournalType, SetPhaseType, NoJournalType
    DEF OpenFails, Quit, FilesTyped, Files, disk, Registries, At, Starting, Requested
  <2>2. FilesTyped'
    BY <1>1, <1>12, <2>1 DEF OpenFails, Quit, FilesTyped, disk
  <2>3. AppTyped'
    BY <1>1, <1>2, <1>3, <1>12, FreshType, SwitchAssumption
    DEF OpenFails, Quit, AppTyped, Processes, At, GoTo, Registries, SwitchAssumption, Account, Starting
  <2>4. UNCHANGED <<process, faults>>
    BY <1>12 DEF OpenFails, Quit
  <2>5. Files'
    BY <1>2, <1>3, <1>12, JournalType, SetPhaseType, NoJournalType
    DEF OpenFails, Quit, Files, Starting, disk, process, Registries, At, Requested
  <2>6. Starting'
    BY <1>2, <1>3, <1>12, JournalType, SetPhaseType, NoJournalType, FreshType
    DEF OpenFails, Quit, Starting, Files, disk, process, Registries, Processes, At, GoTo, Requested
  <2>7. InStep' /\ Closed'
    BY <1>2, <1>3, <1>12, <2>4, JournalType, SetPhaseType, NoJournalType, FreshType
    DEF OpenFails, Quit, InStep, Closed, Leaving, Starting, disk, process, Processes, At, GoTo
  <2> QED
    BY <1>4, <2>2, <2>3, <2>4, <2>5, <2>6, <2>7 DEF IInv, Typed
<1>13. CASE RollBack
  <2>1. journal' \in Journal /\ registry' \in Registries /\ registry'.active \in registry'.known
    BY <1>1, <1>2, <1>3, <1>13, JournalType, SetPhaseType, NoJournalType
    DEF RollBack, FilesTyped, Files, disk, Registries, At, Starting, Requested
  <2>2. FilesTyped'
    BY <1>1, <1>13, <2>1 DEF RollBack, FilesTyped, disk
  <2>3. AppTyped'
    BY <1>1, <1>2, <1>3, <1>13, FreshType, SwitchAssumption
    DEF RollBack, AppTyped, Processes, At, GoTo, Registries, SwitchAssumption, Account, Starting
  <2>4. UNCHANGED <<process, faults>>
    BY <1>13 DEF RollBack
  <2>5. Files'
    BY <1>2, <1>3, <1>13, JournalType, SetPhaseType, NoJournalType
    DEF RollBack, Files, Starting, disk, process, Registries, At, Requested
  <2>6. Starting'
    BY <1>2, <1>3, <1>13, JournalType, SetPhaseType, NoJournalType, FreshType
    DEF RollBack, Starting, Files, disk, process, Registries, Processes, At, GoTo, Requested
  <2>7. InStep' /\ Closed'
    BY <1>2, <1>3, <1>13, <2>4, JournalType, SetPhaseType, NoJournalType, FreshType
    DEF RollBack, InStep, Closed, Leaving, Starting, disk, process, Processes, At, GoTo
  <2> QED
    BY <1>4, <2>2, <2>3, <2>4, <2>5, <2>6, <2>7 DEF IInv, Typed
<1>14. CASE Finish
  <2>1. journal' \in Journal /\ registry' \in Registries /\ registry'.active \in registry'.known
    BY <1>1, <1>2, <1>3, <1>14, JournalType, SetPhaseType, NoJournalType
    DEF Finish, FilesTyped, Files, disk, Registries, At, Starting, Requested
  <2>2. FilesTyped'
    BY <1>1, <1>14, <2>1 DEF Finish, FilesTyped, disk
  <2>3. AppTyped'
    BY <1>1, <1>2, <1>3, <1>14, FreshType, SwitchAssumption
    DEF Finish, AppTyped, Processes, At, GoTo, Registries, SwitchAssumption, Account, Starting
  <2>4. UNCHANGED <<process, faults>>
    BY <1>14 DEF Finish
  <2>5. Files'
    BY <1>2, <1>3, <1>14, JournalType, SetPhaseType, NoJournalType
    DEF Finish, Files, Starting, disk, process, Registries, At, Requested
  <2>6. Starting'
    BY <1>2, <1>3, <1>14, JournalType, SetPhaseType, NoJournalType, FreshType
    DEF Finish, Starting, Files, disk, process, Registries, Processes, At, GoTo, Requested
  <2>7. InStep' /\ Closed'
    BY <1>2, <1>3, <1>14, <2>4, JournalType, SetPhaseType, NoJournalType, FreshType
    DEF Finish, InStep, Closed, Leaving, Starting, disk, process, Processes, At, GoTo
  <2> QED
    BY <1>4, <2>2, <2>3, <2>4, <2>5, <2>6, <2>7 DEF IInv, Typed
<1> QED
  BY <1>5, <1>6, <1>7, <1>8, <1>9, <1>10, <1>11, <1>12, <1>13, <1>14 DEF StartStep

\* The steps of a worker.
LEMMA WorkerKeeps ==
    ASSUME IInv, NEW w \in Worker, WorkerStep(w)
    PROVE  IInv'
<1>1. FilesTyped /\ ProcessTyped /\ AppTyped /\ faults \in 0..MaxFaults
  BY DEF IInv, Typed
<1>2. journal \in Journal /\ registry \in Registries /\ app \in Processes
  BY <1>1 DEF FilesTyped, AppTyped
<1>3. Files /\ Starting /\ InStep /\ Closed
  BY DEF IInv
<1>4. lease \in Leases
  BY <1>1 DEF ProcessTyped
<1>5. UNCHANGED <<journal, registry, db, app, gate, cmd, page, switches, faults, stranded>>
  BY DEF WorkerStep, Enter, Count, Recheck, Leave, Arm, SignIn, SignOut, disk, process
<1>6. At("up")
  BY DEF WorkerStep, Enter, Count, Recheck, Leave, Arm, SignIn, SignOut, Up
<1>7. bound' \subseteq Account
  BY <1>1 DEF WorkerStep, Enter, Count, Recheck, Leave, Arm, SignIn, SignOut, disk, process,
       FilesTyped, Account
<1>8. /\ lease' \in Leases
      /\ \A v \in Worker : lease'[v] = "in" => lease[v] = "in" \/ gate.accepting
  BY <1>4 DEF WorkerStep, Enter, Count, Recheck, Leave, Arm, SignIn, SignOut, process, Leases
<1>9. armed' \in BOOLEAN
  BY <1>1 DEF WorkerStep, Enter, Count, Recheck, Leave, Arm, SignIn, SignOut, process,
       ProcessTyped
<1>10. armed' = armed \/ lease[w] = "in"
  BY DEF WorkerStep, Enter, Count, Recheck, Leave, Arm, SignIn, SignOut, process
<1>11. FilesTyped' /\ ProcessTyped' /\ AppTyped'
  BY <1>1, <1>5, <1>7, <1>8, <1>9 DEF FilesTyped, ProcessTyped, AppTyped
<1>12. Files' /\ InStep'
  BY <1>3, <1>5 DEF Files, InStep
<1>13. Starting'
  BY <1>3, <1>5, <1>6 DEF Starting, At
<1>14. Closed'
  <2>1. (cmd # "none" \/ Leaving) => ~gate.accepting
    BY <1>3 DEF Closed
  <2>2. (cmd = "prepare" \/ Leaving) => \A v \in Worker : lease[v] # "in"
    BY <1>3 DEF Closed
  <2>3. cmd = "write" => Leaving
    BY <1>3, <1>6 DEF InStep, Leaving
  <2>4. Leaving' <=> Leaving
    BY <1>5 DEF Leaving, At
  <2>5. (cmd = "write" \/ (At("up") /\ journal.phase = "RestartRequired")) => ~armed'
    BY <1>3, <1>10, <2>2, <2>3 DEF Closed, Leaving
  <2>6. At("up")' <=> At("up")
    BY <1>5 DEF At
  <2> QED
    BY <1>5, <1>8, <2>1, <2>2, <2>4, <2>5, <2>6 DEF Closed
<1> QED
  BY <1>1, <1>5, <1>11, <1>12, <1>13, <1>14 DEF IInv, Typed

\* A reply ends the command and may move the page, but not its target.
LEMMA ReplyType ==
    ASSUME page \in Pages, NEW step \in {"idle", "recover", "restarting"}, Reply(step)
    PROVE  cmd' = "none" /\ page' \in Pages /\ page'.target = page.target
BY DEF Reply, Pages

\* A closed gate lets nobody in, whichever phase it is in.
LEMMA CloseType ==
    ASSUME NEW phase \in GatePhase, Close(phase)
    PROVE  gate' \in Gates /\ gate'.phase = phase /\ ~gate'.accepting
BY DEF Close, Gates

LEMMA FailClosedType ==
    ASSUME page \in Pages, gate \in Gates, FailClosed
    PROVE  /\ gate' \in Gates /\ gate'.phase = "Failed" /\ gate'.accepting = gate.accepting
           /\ cmd' = "none" /\ page' \in Pages /\ page'.target = page.target
<1>1. Reply("recover") /\ gate' = [gate EXCEPT !.phase = "Failed"]
  BY DEF FailClosed
<1>2. gate' \in Gates /\ gate'.phase = "Failed" /\ gate'.accepting = gate.accepting
  BY <1>1 DEF Gates, GatePhase
<1> QED
  BY <1>1, <1>2, ReplyType

\* A switch is aborted before it was requested, or not at all.
LEMMA AbortType ==
    ASSUME page \in Pages, gate \in Gates, journal \in Journal, Abort("idle")
    PROVE  /\ cmd' = "none" /\ page' \in Pages /\ page'.target = page.target
           /\ journal' \in Journal /\ gate' \in Gates
           /\ \/ /\ journal.phase \in {"none", "Prepared"}
                 /\ journal'.phase = "none" /\ gate'.phase = "Active"
              \/ /\ journal.phase \notin {"none", "Prepared"}
                 /\ journal' = journal
                 /\ gate'.phase = "Failed" /\ gate'.accepting = gate.accepting
<1>1. CASE journal.phase \in {"none", "Prepared"}
  <2>1. journal' = NoJournal /\ gate' = OpenGate /\ Reply("idle")
    BY <1>1 DEF Abort
  <2> QED
    BY <1>1, <2>1, NoJournalType, FreshType, ReplyType
<1>2. CASE journal.phase \notin {"none", "Prepared"}
  <2>1. UNCHANGED journal /\ gate' = [gate EXCEPT !.phase = "Failed"] /\ Reply("recover")
    BY <1>2 DEF Abort
  <2>2. gate' \in Gates /\ gate'.phase = "Failed" /\ gate'.accepting = gate.accepting
    BY <2>1 DEF Gates, GatePhase
  <2> QED
    BY <1>2, <2>1, <2>2, ReplyType
<1> QED
  BY <1>1, <1>2

\* A process that is up stays up on the account that it opened.
LEMMA StillUp ==
    ASSUME app'.pc = "up", app'.opened = registry'.active,
           journal'.phase # "VerifyingTarget",
           journal'.phase = "Failed" => registry'.active = journal'.from
    PROVE  Starting'
BY DEF Starting, At

\* What a death leaves: the files, and a start that has to look at them.
LEMMA DeathKeeps ==
    ASSUME IInv, Die, faults' \in 0..MaxFaults
    PROVE  IInv'
<1>1. FilesTyped /\ ProcessTyped /\ AppTyped /\ faults \in 0..MaxFaults
  BY DEF IInv, Typed
<1>2. /\ journal \in Journal /\ registry \in Registries /\ app \in Processes
      /\ gate \in Gates /\ lease \in Leases /\ page \in Pages
  BY <1>1 DEF FilesTyped, AppTyped, ProcessTyped
<1>3. Files /\ Starting /\ InStep /\ Closed
  BY DEF IInv
<1>4. /\ UNCHANGED <<journal, registry, db, bound, switches>>
      /\ app' = Stopped /\ gate' = OpenGate /\ lease' = [w \in Worker |-> "out"]
      /\ cmd' = "none" /\ page' = IdlePage /\ armed' = FALSE /\ stranded' = FALSE
  BY DEF Die, disk
<1>5. FilesTyped' /\ AppTyped'
  BY <1>1, <1>4, FreshType DEF FilesTyped, AppTyped
<1>6. ProcessTyped'
  <2>1. cmd' \in Commands /\ armed' \in BOOLEAN /\ stranded' \in BOOLEAN
    BY <1>4 DEF Commands
  <2>2. gate' \in Gates /\ lease' \in Leases /\ page' \in Pages
    BY <1>4, FreshType
  <2> QED
    BY <1>1, <1>4, <2>1, <2>2 DEF ProcessTyped
<1>7. Files'
  BY <1>3, <1>4, FreshType DEF Files
<1>8. Starting'
  BY <1>4, FreshType DEF Starting, At
<1>9. InStep' /\ Closed'
  BY <1>4, FreshType DEF InStep, Closed, Leaving, At
<1> QED
  BY <1>5, <1>6, <1>7, <1>8, <1>9 DEF IInv, Typed

\* The command that prepares a switch, and the one that aborts it.
LEMMA DrainKeeps ==
    ASSUME IInv, Drained \/ DrainTimeout \/ AbortCommand
    PROVE  IInv'
<1>1. FilesTyped /\ ProcessTyped /\ AppTyped /\ faults \in 0..MaxFaults
  BY DEF IInv, Typed
<1>2. /\ journal \in Journal /\ registry \in Registries /\ app \in Processes
      /\ gate \in Gates /\ lease \in Leases /\ page \in Pages
  BY <1>1 DEF FilesTyped, AppTyped, ProcessTyped
<1>3. Files /\ Starting /\ InStep /\ Closed
  BY DEF IInv
<1>4. NoJournal \in Journal
  BY NoJournalType
<1>5. CASE Drained
  <2>1. At("up") /\ journal.phase # "VerifyingTarget" /\ app.opened = registry.active
    BY <1>3, <1>5 DEF Starting, At, Drained, disk
  <2>2. journal' \in Journal /\ faults' \in 0..MaxFaults
    BY <1>1, <1>2, <1>3, <1>5, JournalType, SetPhaseType, AbortType, FaultType
    DEF InStep, Drained, disk
  <2>3. UNCHANGED <<registry, db, bound, lease>>
    BY <1>5 DEF disk, process, Drained, disk
  <2>4. gate' \in Gates /\ page' \in Pages /\ page'.target = page.target
    BY <1>2, <1>5, ReplyType, AbortType DEF Gates, Pages, GatePhase, Close, Drained, disk
  <2>5. /\ cmd' \in Commands /\ armed' \in BOOLEAN /\ stranded' \in BOOLEAN
        /\ switches' \in 0..MaxSwitches
    BY <1>1, <1>2, <1>5, ReplyType, AbortType DEF ProcessTyped, Commands, FailClosed, Drained, disk
  <2>6. app' \in Processes /\ app'.pc = "up" /\ app'.opened = app.opened
    BY <1>2, <1>5, <2>1 DEF Processes, At, Drained, disk
  <2>7. Files'
    BY <1>2, <1>3, <1>5, <2>3, <2>4, JournalType, SetPhaseType, AbortType
    DEF Files, InStep, Drained, disk
  <2>8. Starting'
    BY <1>2, <1>3, <1>5, <2>1, <2>3, <2>6, JournalType, SetPhaseType, AbortType, StillUp
    DEF Starting, Files, InStep, At, Drained, disk
  <2>9. InStep'
    BY <1>2, <1>3, <1>5, JournalType, SetPhaseType, AbortType, ReplyType
    DEF InStep, Close, FailClosed, Drained, disk
  <2>10. Closed'
    BY <1>2, <1>3, <1>5, <2>1, <2>3, <2>6, JournalType, SetPhaseType, AbortType, ReplyType
    DEF Closed, Leaving, InStep, At, Close, InFlight, Drained, disk
  <2>11. Typed'
    BY <1>1, <2>1, <2>2, <2>3, <2>4, <2>5, <2>6
    DEF Typed, FilesTyped, ProcessTyped, AppTyped, At
  <2> QED
    BY <2>7, <2>8, <2>9, <2>10, <2>11 DEF IInv
<1>6. CASE DrainTimeout
  <2>1. At("up") /\ journal.phase # "VerifyingTarget" /\ app.opened = registry.active
    BY <1>3, <1>6 DEF Starting, At, DrainTimeout
  <2>2. journal' \in Journal /\ faults' \in 0..MaxFaults
    BY <1>1, <1>2, <1>3, <1>6, JournalType, SetPhaseType, AbortType, FaultType
    DEF InStep, DrainTimeout
  <2>3. UNCHANGED <<registry, db, bound, lease>>
    BY <1>6 DEF disk, process, DrainTimeout
  <2>4. gate' \in Gates /\ page' \in Pages /\ page'.target = page.target
    BY <1>2, <1>6, ReplyType, AbortType DEF Gates, Pages, GatePhase, Close, FailClosed, DrainTimeout
  <2>5. /\ cmd' \in Commands /\ armed' \in BOOLEAN /\ stranded' \in BOOLEAN
        /\ switches' \in 0..MaxSwitches
    BY <1>1, <1>2, <1>6, ReplyType, AbortType DEF ProcessTyped, Commands, FailClosed, DrainTimeout
  <2>6. app' \in Processes /\ app'.pc = "up" /\ app'.opened = app.opened
    BY <1>2, <1>6, <2>1 DEF Processes, At, DrainTimeout
  <2>7. Files'
    BY <1>2, <1>3, <1>6, <2>3, <2>4, JournalType, SetPhaseType, AbortType
    DEF Files, InStep, DrainTimeout
  <2>8. Starting'
    BY <1>2, <1>3, <1>6, <2>1, <2>3, <2>6, JournalType, SetPhaseType, AbortType, StillUp
    DEF Starting, Files, InStep, At, DrainTimeout
  <2>9. InStep'
    BY <1>2, <1>3, <1>6, JournalType, SetPhaseType, AbortType, ReplyType
    DEF InStep, Close, FailClosed, DrainTimeout
  <2>10. Closed'
    BY <1>2, <1>3, <1>6, <2>1, <2>3, <2>6, JournalType, SetPhaseType, AbortType, ReplyType
    DEF Closed, Leaving, InStep, At, Close, FailClosed, DrainTimeout
  <2>11. Typed'
    BY <1>1, <2>1, <2>2, <2>3, <2>4, <2>5, <2>6
    DEF Typed, FilesTyped, ProcessTyped, AppTyped, At
  <2> QED
    BY <2>7, <2>8, <2>9, <2>10, <2>11 DEF IInv
<1>7. CASE AbortCommand
  <2>1. At("up") /\ journal.phase # "VerifyingTarget" /\ app.opened = registry.active
    BY <1>3, <1>7 DEF Starting, At, AbortCommand, Up
  <2>2. journal' \in Journal /\ faults' \in 0..MaxFaults
    BY <1>1, <1>2, <1>3, <1>7, JournalType, SetPhaseType, AbortType, FaultType
    DEF InStep, AbortCommand, Up
  <2>3. UNCHANGED <<registry, db, bound, lease>>
    BY <1>7 DEF disk, process, AbortCommand, Up
  <2>4. gate' \in Gates /\ page' \in Pages /\ page'.target = page.target
    BY <1>2, <1>7, ReplyType, AbortType DEF Gates, Pages, GatePhase, Close, FailClosed, AbortCommand, Up
  <2>5. /\ cmd' \in Commands /\ armed' \in BOOLEAN /\ stranded' \in BOOLEAN
        /\ switches' \in 0..MaxSwitches
    BY <1>1, <1>2, <1>7, ReplyType, AbortType DEF ProcessTyped, Commands, FailClosed, AbortCommand, Up
  <2>6. app' \in Processes /\ app'.pc = "up" /\ app'.opened = app.opened
    BY <1>2, <1>7, <2>1 DEF Processes, At, AbortCommand, Up
  <2>7. Files'
    BY <1>2, <1>3, <1>7, <2>3, <2>4, JournalType, SetPhaseType, AbortType
    DEF Files, InStep, AbortCommand, Up
  <2>8. Starting'
    BY <1>2, <1>3, <1>7, <2>1, <2>3, <2>6, JournalType, SetPhaseType, AbortType, StillUp
    DEF Starting, Files, InStep, At, AbortCommand, Up
  <2>9. InStep'
    BY <1>2, <1>3, <1>7, JournalType, SetPhaseType, AbortType, ReplyType
    DEF InStep, Close, FailClosed, AbortCommand, Up
  <2>10. Closed'
    BY <1>2, <1>3, <1>7, <2>1, <2>3, <2>6, JournalType, SetPhaseType, AbortType, ReplyType
    DEF Closed, Leaving, InStep, At, Close, FailClosed, AbortCommand, Up
  <2>11. Typed'
    BY <1>1, <2>1, <2>2, <2>3, <2>4, <2>5, <2>6
    DEF Typed, FilesTyped, ProcessTyped, AppTyped, At
  <2> QED
    BY <2>7, <2>8, <2>9, <2>10, <2>11 DEF IInv
<1> QED
  BY <1>5, <1>6, <1>7

\* The command that requests a switch, up to the restart.
LEMMA RequestKeeps ==
    ASSUME IInv, Request \/ Cancel \/ WriteRequest \/ Spawn \/ Recover
    PROVE  IInv'
<1>1. FilesTyped /\ ProcessTyped /\ AppTyped /\ faults \in 0..MaxFaults
  BY DEF IInv, Typed
<1>2. /\ journal \in Journal /\ registry \in Registries /\ app \in Processes
      /\ gate \in Gates /\ lease \in Leases /\ page \in Pages
  BY <1>1 DEF FilesTyped, AppTyped, ProcessTyped
<1>3. Files /\ Starting /\ InStep /\ Closed
  BY DEF IInv
<1>4. NoJournal \in Journal
  BY NoJournalType
<1>5. CASE Request
  <2>1. /\ Up /\ cmd = "none" /\ At("up")
        /\ UNCHANGED <<journal, registry, db, bound, app, lease, armed, switches, faults,
                       stranded>>
    BY <1>5 DEF Request, Up, disk
  <2>2. CASE gate.phase = "Prepared" /\ Matches
    <3>1. Close("RequestInProgress") /\ cmd' = "cancel" /\ page' = [page EXCEPT !.step = "waiting"]
      BY <1>5, <2>2 DEF Request
    <3>2. gate' \in Gates /\ gate'.phase = "RequestInProgress" /\ ~gate'.accepting
      BY <3>1, CloseType DEF GatePhase
    <3>3. page' \in Pages /\ page'.target = page.target
      BY <1>2, <3>1 DEF Pages
    <3>4. journal.phase = "Prepared"
      BY <1>3, <2>2 DEF InStep
    <3>5. switches >= 1 /\ Leaving /\ Leaving'
      BY <1>3, <2>1, <3>4 DEF Leaving, At, Files
    <3>6. Typed'
      BY <1>1, <2>1, <3>1, <3>2, <3>3 DEF Typed, FilesTyped, ProcessTyped, AppTyped, Commands
    <3>7. Files' /\ Starting'
      BY <1>3, <2>1, <3>3 DEF Files, Starting, At
    <3>8. InStep'
      BY <2>1, <3>1, <3>2, <3>4, <3>5 DEF InStep
    <3>9. Closed'
      BY <1>3, <2>1, <3>1, <3>2, <3>4, <3>5 DEF Closed, At
    <3> QED
      BY <3>6, <3>7, <3>8, <3>9 DEF IInv
  <2>3. CASE ~(gate.phase = "Prepared" /\ Matches)
    <3>1. /\ gate' = [gate EXCEPT !.phase = "Failed"] \/ gate' = gate
          /\ gate'.phase # "Prepared" \/ gate' = gate
          /\ page' = [page EXCEPT !.step = "recover"] /\ cmd' = cmd
      BY <1>2, <1>5, <2>3 DEF Request, Gates
    <3>2. gate' \in Gates /\ gate'.accepting = gate.accepting
      BY <1>2, <3>1 DEF Gates, GatePhase
    <3>3. page' \in Pages /\ page'.target = page.target
      BY <1>2, <3>1 DEF Pages
    <3>4. Typed'
      BY <1>1, <2>1, <3>1, <3>2, <3>3 DEF Typed, FilesTyped, ProcessTyped, AppTyped
    <3>5. Files' /\ Starting'
      BY <1>3, <2>1, <3>3 DEF Files, Starting, At
    <3>6. InStep'
      BY <1>3, <2>1, <3>1 DEF InStep
    <3>7. Closed'
      BY <1>3, <2>1, <3>1, <3>2 DEF Closed, Leaving, At
    <3> QED
      BY <3>4, <3>5, <3>6, <3>7 DEF IInv
  <2> QED
    BY <2>2, <2>3
<1>6. CASE Cancel
  <2>1. At("up") /\ journal.phase # "VerifyingTarget" /\ app.opened = registry.active
    BY <1>3, <1>6 DEF Starting, At, Cancel, disk, Fault, NoFault
  <2>2. journal' \in Journal /\ faults' \in 0..MaxFaults
    BY <1>1, <1>2, <1>3, <1>6, JournalType, SetPhaseType, AbortType, FaultType
    DEF InStep, Cancel, disk, Fault, NoFault
  <2>3. UNCHANGED <<registry, db, bound, lease>>
    BY <1>6 DEF disk, process, Cancel, disk, Fault, NoFault
  <2>4. gate' \in Gates /\ page' \in Pages /\ page'.target = page.target
    BY <1>2, <1>6, FailClosedType DEF Cancel, disk, Fault, NoFault
  <2>5. /\ cmd' \in Commands /\ armed' \in BOOLEAN /\ stranded' \in BOOLEAN
        /\ switches' \in 0..MaxSwitches
    BY <1>1, <1>2, <1>6, ReplyType, AbortType DEF ProcessTyped, Commands, FailClosed, Cancel, disk, Fault, NoFault
  <2>6. app' \in Processes /\ app'.pc = "up" /\ app'.opened = app.opened
    BY <1>2, <1>6, <2>1 DEF Processes, At, Cancel, disk, Fault, NoFault
  <2>7. Files'
    BY <1>2, <1>3, <1>6, <2>3, <2>4, JournalType, SetPhaseType, AbortType
    DEF Files, InStep, Cancel, disk, Fault, NoFault
  <2>8. Starting'
    BY <1>2, <1>3, <1>6, <2>1, <2>3, <2>6, JournalType, SetPhaseType, AbortType, StillUp
    DEF Starting, Files, InStep, At, Cancel, disk, Fault, NoFault
  <2>9. InStep'
    BY <1>2, <1>3, <1>6, JournalType, SetPhaseType, FailClosedType
    DEF InStep, Cancel, disk, Fault, NoFault
  <2>10. Closed'
    BY <1>2, <1>3, <1>6, <2>1, <2>3, <2>6, JournalType, SetPhaseType, FailClosedType
    DEF Closed, Leaving, InStep, At, Cancel, disk, Fault, NoFault
  <2>11. Typed'
    BY <1>1, <2>1, <2>2, <2>3, <2>4, <2>5, <2>6
    DEF Typed, FilesTyped, ProcessTyped, AppTyped, At
  <2> QED
    BY <2>7, <2>8, <2>9, <2>10, <2>11 DEF IInv
<1>7. CASE WriteRequest
  <2>1. At("up") /\ journal.phase # "VerifyingTarget" /\ app.opened = registry.active
    BY <1>3, <1>7 DEF Starting, At, WriteRequest
  <2>2. journal' \in Journal /\ faults' \in 0..MaxFaults
    BY <1>1, <1>2, <1>3, <1>7, JournalType, SetPhaseType, AbortType, FaultType
    DEF InStep, WriteRequest
  <2>3. UNCHANGED <<registry, db, bound, lease>>
    BY <1>7 DEF disk, process, WriteRequest
  <2>4. gate' \in Gates /\ page' \in Pages /\ page'.target = page.target
    BY <1>2, <1>7, ReplyType, AbortType DEF Gates, Pages, GatePhase, Close, FailClosed, WriteRequest
  <2>5. /\ cmd' \in Commands /\ armed' \in BOOLEAN /\ stranded' \in BOOLEAN
        /\ switches' \in 0..MaxSwitches
    BY <1>1, <1>2, <1>7, ReplyType, AbortType DEF ProcessTyped, Commands, FailClosed, WriteRequest
  <2>6. app' \in Processes /\ app'.pc = "up" /\ app'.opened = app.opened
    BY <1>2, <1>7, <2>1 DEF Processes, At, WriteRequest
  <2>7. Files'
    BY <1>2, <1>3, <1>7, <2>3, <2>4, JournalType, SetPhaseType, AbortType
    DEF Files, InStep, WriteRequest
  <2>8. Starting'
    BY <1>2, <1>3, <1>7, <2>1, <2>3, <2>6, JournalType, SetPhaseType, AbortType, StillUp
    DEF Starting, Files, InStep, At, WriteRequest
  <2>9. InStep'
    BY <1>2, <1>3, <1>7, JournalType, SetPhaseType, FailClosedType
    DEF InStep, WriteRequest
  <2>10. Closed'
    BY <1>2, <1>3, <1>7, <2>1, <2>3, <2>6, JournalType, SetPhaseType, FailClosedType
    DEF Closed, Leaving, InStep, At, WriteRequest
  <2>11. Typed'
    BY <1>1, <2>1, <2>2, <2>3, <2>4, <2>5, <2>6
    DEF Typed, FilesTyped, ProcessTyped, AppTyped, At
  <2> QED
    BY <2>7, <2>8, <2>9, <2>10, <2>11 DEF IInv
<1>8. CASE Spawn
  <2>1. /\ At("up") /\ cmd = "spawn" /\ journal.phase = "RestartRequired"
        /\ UNCHANGED <<registry, db, bound, lease, armed, switches, stranded>>
    BY <1>3, <1>8 DEF Spawn, InStep
  <2>2. CASE /\ Close("RestartRequired") /\ app' = [app EXCEPT !.exiting = TRUE]
             /\ Reply("restarting") /\ UNCHANGED journal /\ NoFault
    <3>1. gate' \in Gates /\ gate'.phase = "RestartRequired" /\ ~gate'.accepting
      BY <2>2, CloseType DEF GatePhase
    <3>2. cmd' = "none" /\ page' \in Pages /\ page'.target = page.target
      BY <1>2, <2>2, ReplyType
    <3>3. app' \in Processes /\ app'.pc = "up" /\ app'.opened = app.opened
      BY <1>2, <2>1, <2>2 DEF Processes, At
    <3>4. Typed'
      BY <1>1, <2>1, <2>2, <3>1, <3>2, <3>3, FaultType
      DEF Typed, FilesTyped, ProcessTyped, AppTyped, Commands, At
    <3>5. Files'
      BY <1>3, <2>1, <2>2, <3>2 DEF Files
    <3>6. Starting'
      BY <1>3, <2>1, <2>2, <3>3, StillUp DEF Starting, At
    <3>7. InStep' /\ Closed'
      BY <1>3, <2>1, <2>2, <3>1, <3>2 DEF InStep, Closed, Leaving, At
    <3> QED
      BY <3>4, <3>5, <3>6, <3>7 DEF IInv
  <2>3. CASE SetPhase("Failed") /\ FailClosed /\ UNCHANGED app /\ Fault
    <3>1. /\ journal' \in Journal /\ journal'.phase = "Failed"
          /\ journal'.from = journal.from /\ journal'.to = journal.to
      BY <1>2, <2>1, <2>3, SetPhaseType
    <3>2. /\ gate' \in Gates /\ gate'.phase = "Failed" /\ gate'.accepting = gate.accepting
          /\ cmd' = "none" /\ page' \in Pages /\ page'.target = page.target
      BY <1>2, <2>3, FailClosedType
    <3>3. Typed'
      BY <1>1, <2>1, <2>3, <3>1, <3>2, FaultType
      DEF Typed, FilesTyped, ProcessTyped, AppTyped, Commands
    <3>4. Files'
      BY <1>3, <2>1, <3>1, <3>2 DEF Files
    <3>5. Starting'
      BY <1>3, <2>1, <2>3, <3>1, StillUp DEF Starting, Files, At
    <3>6. InStep' /\ Closed'
      BY <1>3, <2>1, <3>1, <3>2 DEF InStep, Closed, Leaving
    <3> QED
      BY <3>3, <3>4, <3>5, <3>6 DEF IInv
  <2> QED
    BY <1>8, <2>2, <2>3 DEF Spawn
<1>9. CASE Recover
  <2>1. At("up") /\ journal.phase # "VerifyingTarget" /\ app.opened = registry.active
    BY <1>3, <1>9 DEF Starting, At, Recover, Up, disk
  <2>2. journal' \in Journal /\ faults' \in 0..MaxFaults
    BY <1>1, <1>2, <1>3, <1>9, JournalType, SetPhaseType, AbortType, FaultType
    DEF InStep, Recover, Up, disk
  <2>3. UNCHANGED <<registry, db, bound, lease>>
    BY <1>9 DEF disk, process, Recover, Up, disk
  <2>4. gate' \in Gates /\ page' \in Pages /\ page'.target = page.target
    BY <1>2, <1>9, ReplyType, AbortType DEF Gates, Pages, GatePhase, Close, FailClosed, Recover, Up, disk
  <2>5. /\ cmd' \in Commands /\ armed' \in BOOLEAN /\ stranded' \in BOOLEAN
        /\ switches' \in 0..MaxSwitches
    BY <1>1, <1>2, <1>9, ReplyType, AbortType DEF ProcessTyped, Commands, FailClosed, Recover, Up, disk
  <2>6. app' \in Processes /\ app'.pc = "up" /\ app'.opened = app.opened
    BY <1>2, <1>9, <2>1 DEF Processes, At, Recover, Up, disk
  <2>7. Files'
    BY <1>2, <1>3, <1>9, <2>3, <2>4, JournalType, SetPhaseType, AbortType
    DEF Files, InStep, Recover, Up, disk
  <2>8. Starting'
    BY <1>2, <1>3, <1>9, <2>1, <2>3, <2>6, JournalType, SetPhaseType, AbortType, StillUp
    DEF Starting, Files, InStep, At, Recover, Up, disk
  <2>9. InStep'
    BY <1>2, <1>3, <1>9, JournalType, SetPhaseType, FailClosedType
    DEF InStep, Recover, Up, disk
  <2>10. Closed'
    BY <1>2, <1>3, <1>9, <2>1, <2>3, <2>6, JournalType, SetPhaseType, FailClosedType
    DEF Closed, Leaving, InStep, At, Recover, Up, disk
  <2>11. Typed'
    BY <1>1, <2>1, <2>2, <2>3, <2>4, <2>5, <2>6
    DEF Typed, FilesTyped, ProcessTyped, AppTyped, At
  <2> QED
    BY <2>7, <2>8, <2>9, <2>10, <2>11 DEF IInv
<1> QED
  BY <1>5, <1>6, <1>7, <1>8, <1>9

\* What the page does on its own.
LEMMA PageKeeps ==
    ASSUME IInv, Confirm \/ Reload
    PROVE  IInv'
<1>1. FilesTyped /\ ProcessTyped /\ AppTyped /\ faults \in 0..MaxFaults
  BY DEF IInv, Typed
<1>2. /\ journal \in Journal /\ registry \in Registries /\ app \in Processes
      /\ gate \in Gates /\ lease \in Leases /\ page \in Pages
  BY <1>1 DEF FilesTyped, AppTyped, ProcessTyped
<1>3. Files /\ Starting /\ InStep /\ Closed
  BY DEF IInv
<1>4. NoJournal \in Journal
  BY NoJournalType
<1>5. CASE Confirm
  <2>1. At("up") /\ journal.phase # "VerifyingTarget" /\ app.opened = registry.active
    BY <1>3, <1>5 DEF Starting, At, Confirm, disk
  <2>2. journal' \in Journal /\ faults' \in 0..MaxFaults
    BY <1>1, <1>2, <1>3, <1>5, JournalType, SetPhaseType, AbortType, FaultType
    DEF InStep, Confirm, disk
  <2>3. UNCHANGED <<registry, db, bound, lease>>
    BY <1>5 DEF disk, process, Confirm, disk
  <2>4. gate' \in Gates /\ page' \in Pages /\ page'.target = page.target
    BY <1>2, <1>5, ReplyType, AbortType DEF Gates, Pages, GatePhase, Close, FailClosed, Confirm, disk
  <2>5. /\ cmd' \in Commands /\ armed' \in BOOLEAN /\ stranded' \in BOOLEAN
        /\ switches' \in 0..MaxSwitches
    BY <1>1, <1>2, <1>5, ReplyType, AbortType DEF ProcessTyped, Commands, FailClosed, Confirm, disk
  <2>6. app' \in Processes /\ app'.pc = "up" /\ app'.opened = app.opened
    BY <1>2, <1>5, <2>1 DEF Processes, At, Confirm, disk
  <2>7. Files'
    BY <1>2, <1>3, <1>5, <2>3, <2>4, JournalType, SetPhaseType, AbortType
    DEF Files, InStep, Confirm, disk
  <2>8. Starting'
    BY <1>2, <1>3, <1>5, <2>1, <2>3, <2>6, JournalType, SetPhaseType, AbortType, StillUp
    DEF Starting, Files, InStep, At, Confirm, disk
  <2>9. InStep'
    BY <1>2, <1>3, <1>5, JournalType, SetPhaseType, AbortType, ReplyType
    DEF InStep, Close, FailClosed, Confirm, disk
  <2>10. Closed'
    BY <1>2, <1>3, <1>5, <2>1, <2>3, <2>6, JournalType, SetPhaseType, AbortType, ReplyType
    DEF Closed, Leaving, InStep, At, Close, FailClosed, Confirm, disk
  <2>11. Typed'
    BY <1>1, <2>1, <2>2, <2>3, <2>4, <2>5, <2>6
    DEF Typed, FilesTyped, ProcessTyped, AppTyped, At
  <2> QED
    BY <2>7, <2>8, <2>9, <2>10, <2>11 DEF IInv
<1>6. CASE Reload
  <2>1. At("up") /\ journal.phase # "VerifyingTarget" /\ app.opened = registry.active
    BY <1>3, <1>6 DEF Starting, At, Reload, Up, disk
  <2>2. journal' \in Journal /\ faults' \in 0..MaxFaults
    BY <1>1, <1>2, <1>3, <1>6, JournalType, SetPhaseType, AbortType, FaultType
    DEF InStep, Reload, Up, disk
  <2>3. UNCHANGED <<registry, db, bound, lease>>
    BY <1>6 DEF disk, process, Reload, Up, disk
  <2>4. gate' \in Gates /\ page' \in Pages /\ page'.target = page.target
    BY <1>2, <1>6, ReplyType, AbortType DEF Gates, Pages, GatePhase, Close, FailClosed, Reload, Up, disk
  <2>5. /\ cmd' \in Commands /\ armed' \in BOOLEAN /\ stranded' \in BOOLEAN
        /\ switches' \in 0..MaxSwitches
    BY <1>1, <1>2, <1>6, ReplyType, AbortType DEF ProcessTyped, Commands, FailClosed, Reload, Up, disk
  <2>6. app' \in Processes /\ app'.pc = "up" /\ app'.opened = app.opened
    BY <1>2, <1>6, <2>1 DEF Processes, At, Reload, Up, disk
  <2>7. Files'
    BY <1>2, <1>3, <1>6, <2>3, <2>4, JournalType, SetPhaseType, AbortType
    DEF Files, InStep, Reload, Up, disk
  <2>8. Starting'
    BY <1>2, <1>3, <1>6, <2>1, <2>3, <2>6, JournalType, SetPhaseType, AbortType, StillUp
    DEF Starting, Files, InStep, At, Reload, Up, disk
  <2>9. InStep'
    BY <1>2, <1>3, <1>6, JournalType, SetPhaseType, AbortType, ReplyType
    DEF InStep, Close, FailClosed, Reload, Up, disk
  <2>10. Closed'
    BY <1>2, <1>3, <1>6, <2>1, <2>3, <2>6, JournalType, SetPhaseType, AbortType, ReplyType
    DEF Closed, Leaving, InStep, At, Close, FailClosed, Reload, Up, disk
  <2>11. Typed'
    BY <1>1, <2>1, <2>2, <2>3, <2>4, <2>5, <2>6
    DEF Typed, FilesTyped, ProcessTyped, AppTyped, At
  <2> QED
    BY <2>7, <2>8, <2>9, <2>10, <2>11 DEF IInv
<1> QED
  BY <1>5, <1>6

\* A switch begins while nothing else is going on.
LEMMA BeginKeeps ==
    ASSUME IInv, NEW target \in Account, BeginSwitch(target)
    PROVE  IInv'
<1>1. FilesTyped /\ ProcessTyped /\ AppTyped /\ faults \in 0..MaxFaults
  BY DEF IInv, Typed
<1>2. /\ journal \in Journal /\ registry \in Registries /\ app \in Processes
      /\ gate \in Gates /\ lease \in Leases /\ page \in Pages
  BY <1>1 DEF FilesTyped, AppTyped, ProcessTyped
<1>3. Files /\ Starting /\ InStep /\ Closed
  BY DEF IInv
<1>4. /\ Up /\ cmd = "none" /\ gate.accepting /\ target \in registry.known /\ At("up")
      /\ switches < MaxSwitches /\ switches' = switches + 1
      /\ Close("Draining") /\ cmd' = "drain"
      /\ page' = [step |-> "waiting", target |-> target, generation |-> 0]
      /\ UNCHANGED <<journal, registry, db, bound, app, lease, armed, faults, stranded>>
  BY DEF BeginSwitch, Command, Up, disk
<1>5. gate' \in Gates /\ gate'.phase = "Draining" /\ ~gate'.accepting
  BY <1>4, CloseType DEF GatePhase
<1>6. page' \in Pages /\ page'.target = target
  BY <1>4, SwitchAssumption DEF Pages, SwitchAssumption
<1>7. switches' \in 0..MaxSwitches /\ switches' >= 1
  BY <1>1, <1>4, SwitchAssumption DEF ProcessTyped, SwitchAssumption
<1>8. Typed'
  BY <1>1, <1>4, <1>5, <1>6, <1>7 DEF Typed, FilesTyped, ProcessTyped, AppTyped, Commands
<1>9. ~Leaving /\ journal.phase \in {"none", "Failed"}
  BY <1>2, <1>3, <1>4, JournalType DEF Closed, Leaving, Starting
<1>10. Files' /\ Starting'
  BY <1>3, <1>4, <1>6, <1>7 DEF Files, Starting, At
<1>11. InStep'
  BY <1>4, <1>5, <1>7, <1>9 DEF InStep
<1>12. Closed'
  BY <1>4, <1>5, <1>9 DEF Closed, Leaving, At
<1> QED
  BY <1>8, <1>10, <1>11, <1>12 DEF IInv

\* The journal is written when nobody is in any more.
LEMMA PrepareKeeps ==
    ASSUME IInv, Prepare(page.target)
    PROVE  IInv'
<1>1. FilesTyped /\ ProcessTyped /\ AppTyped /\ faults \in 0..MaxFaults
  BY DEF IInv, Typed
<1>2. /\ journal \in Journal /\ registry \in Registries /\ app \in Processes
      /\ gate \in Gates /\ lease \in Leases /\ page \in Pages
  BY <1>1 DEF FilesTyped, AppTyped, ProcessTyped
<1>3. Files /\ Starting /\ InStep /\ Closed
  BY DEF IInv
<1>4. /\ At("up") /\ cmd = "prepare"
      /\ UNCHANGED <<registry, db, bound, app, lease, armed, switches, faults, stranded>>
  BY DEF Prepare
<1>5. /\ journal.phase \in {"none", "Failed"} /\ switches >= 1 /\ ~gate.accepting
      /\ \A w \in Worker : lease[w] # "in"
  BY <1>3, <1>4 DEF InStep, Closed
<1>6. CASE Refused(page.target)
  <2>1. Abort("idle")
    BY <1>6 DEF Prepare
  <2>2. /\ cmd' = "none" /\ page' \in Pages /\ page'.target = page.target
        /\ journal' \in Journal /\ gate' \in Gates
        /\ gate'.phase # "Prepared"
        /\ journal'.phase = "none" \/ (journal' = journal /\ journal.phase = "Failed")
    BY <1>2, <1>5, <2>1, AbortType
  <2>3. Typed'
    BY <1>1, <1>4, <2>2 DEF Typed, FilesTyped, ProcessTyped, AppTyped, Commands
  <2>4. Files' /\ Starting'
    BY <1>3, <1>4, <2>2 DEF Files, Starting, At
  <2>5. InStep' /\ Closed'
    BY <1>4, <2>2 DEF InStep, Closed, Leaving
  <2> QED
    BY <2>3, <2>4, <2>5 DEF IInv
<1>7. CASE ~Refused(page.target)
  <2>1. /\ journal' = [phase |-> "Prepared", from |-> registry.active, to |-> page.target,
                       generation |-> switches]
        /\ Close("Prepared") /\ cmd' = "none"
        /\ page' = IF page.step = "waiting"
                   THEN [page EXCEPT !.step = "confirm", !.generation = switches]
                   ELSE page
    BY <1>7 DEF Prepare
  <2>2. /\ journal' \in Journal /\ journal'.phase = "Prepared"
        /\ journal'.from = registry.active /\ journal'.to = page.target
    <3>1. registry.active \in Account /\ page.target \in Account
      BY <1>2 DEF Registries, Pages
    <3>2. switches \in 1..MaxSwitches
      BY <1>1, <1>5, SwitchAssumption DEF ProcessTyped, SwitchAssumption
    <3> QED
      BY <2>1, <3>1, <3>2 DEF Journal
  <2>3. gate' \in Gates /\ gate'.phase = "Prepared" /\ ~gate'.accepting
    BY <2>1, CloseType DEF GatePhase
  <2>4. page' \in Pages /\ page'.target = page.target
    BY <1>1, <1>2, <2>1 DEF Pages, ProcessTyped
  <2>5. Typed'
    BY <1>1, <1>4, <2>1, <2>2, <2>3, <2>4
    DEF Typed, FilesTyped, ProcessTyped, AppTyped, Commands
  <2>6. Files'
    <3>1. page.target # registry.active
      BY <1>7 DEF Refused
    <3>2. registry.active \in registry.known
      BY <1>1 DEF FilesTyped
    <3> QED
      BY <1>3, <1>4, <1>5, <2>2, <2>4, <3>1, <3>2 DEF Files
  <2>7. Starting'
    BY <1>3, <1>4, <2>2 DEF Starting, At
  <2>8. InStep' /\ Closed'
    BY <1>4, <1>5, <2>1, <2>2, <2>3 DEF InStep, Closed
  <2> QED
    BY <2>5, <2>6, <2>7, <2>8 DEF IInv
<1> QED
  BY <1>6, <1>7

\* What changes the registry or a database beside a switch.
LEMMA BesideKeeps ==
    ASSUME IInv,
           \/ \E account \in Cloud : CreateAccount(account)
           \/ MarkVerified
           \/ \E account \in Account, file \in {"ok", "refused", "unopenable"} :
                 Damage(account, file)
    PROVE  IInv'
<1>1. FilesTyped /\ ProcessTyped /\ AppTyped /\ faults \in 0..MaxFaults
  BY DEF IInv, Typed
<1>2. /\ journal \in Journal /\ registry \in Registries /\ app \in Processes
      /\ gate \in Gates /\ lease \in Leases /\ page \in Pages
  BY <1>1 DEF FilesTyped, AppTyped, ProcessTyped
<1>3. Files /\ Starting /\ InStep /\ Closed
  BY DEF IInv
<1>4. UNCHANGED <<journal, bound, app, gate, lease, cmd, page, armed, switches, stranded>>
  BY DEF CreateAccount, MarkVerified, Damage, process
<1>5. /\ registry' \in Registries /\ registry'.active = registry.active
      /\ registry.known \subseteq registry'.known
  <2>1. ASSUME NEW account \in Cloud, CreateAccount(account)
        PROVE  /\ registry' \in Registries /\ registry'.active = registry.active
               /\ registry.known \subseteq registry'.known
    BY <1>2, <2>1 DEF CreateAccount, Registries, Account
  <2>2. CASE MarkVerified
    BY <1>2, <2>2 DEF MarkVerified, Registries
  <2>3. ASSUME NEW account \in Account, NEW file \in {"ok", "refused", "unopenable"},
               Damage(account, file)
        PROVE  registry' = registry
    BY <2>3 DEF Damage
  <2> QED
    BY <1>2, <2>1, <2>2, <2>3
<1>6. db' \in [Account -> {"ok", "refused", "unopenable"}]
  BY <1>1 DEF CreateAccount, MarkVerified, Damage, FilesTyped
<1>7. faults' \in 0..MaxFaults
  <2>1. Fault \/ NoFault
    BY DEF CreateAccount, MarkVerified, Damage, NoFault
  <2> QED
    BY <1>1, <2>1, FaultType
<1>8. Typed'
  BY <1>1, <1>4, <1>5, <1>6, <1>7 DEF Typed, FilesTyped, ProcessTyped, AppTyped
<1>9. Files' /\ Starting'
  BY <1>3, <1>4, <1>5 DEF Files, Starting, At
<1>10. InStep' /\ Closed'
  BY <1>3, <1>4 DEF InStep, Closed, Leaving, At
<1> QED
  BY <1>8, <1>9, <1>10 DEF IInv

LEMMA StepKeeps == IInv /\ [Next]_vars => IInv'
<1> SUFFICES ASSUME IInv, [Next]_vars PROVE IInv'
  OBVIOUS
<1>1. CASE StartStep
  BY <1>1, StartKeeps
<1>2. ASSUME NEW w \in Worker, WorkerStep(w) PROVE IInv'
  BY <1>2, WorkerKeeps
<1>3. ASSUME NEW target \in Account, BeginSwitch(target) PROVE IInv'
  BY <1>3, BeginKeeps
<1>4. CASE CommandStep
  <2>1. CASE Exit
    BY <2>1, DeathKeeps, FaultType DEF Exit, IInv, Typed
  <2> QED
    BY <1>4, <2>1, DrainKeeps, PrepareKeeps, RequestKeeps DEF CommandStep
<1>5. CASE Crash
  BY <1>5, DeathKeeps, FaultType DEF Crash, IInv, Typed
<1>6. CASE UNCHANGED vars
  BY <1>6
  DEF vars, IInv, Typed, FilesTyped, ProcessTyped, AppTyped, Files, Starting, InStep, Closed,
      Leaving, At
<1> QED
  BY <1>1, <1>2, <1>3, <1>4, <1>5, <1>6, BesideKeeps, PageKeeps DEF Next

(***************************************************************************)
(* The inductive invariant: what the two files, the gate and the command   *)
(* that runs say of each other, whatever moment the process dies at.       *)
(***************************************************************************)
THEOREM Invariant == Spec => []IInv
<1>1. Init => IInv
  BY InitHolds
<1>2. IInv /\ [Next]_vars => IInv'
  BY StepKeeps
<1> QED
  BY <1>1, <1>2, PTL DEF Spec

(***************************************************************************)
(* Every reachable state of the files and of the process is well typed.    *)
(***************************************************************************)
THEOREM TypeCorrect == Spec => []TypeOK
<1>1. IInv => TypeOK
  BY TypeParts DEF IInv
<1> QED
  BY <1>1, Invariant, PTL

----------------------------------------------------------------------------
(* What follows. *)

(***************************************************************************)
(* A worker that passed the gate writes to the account that the user is    *)
(* on, and while it does no switch is prepared, let alone requested.       *)
(***************************************************************************)
THEOREM WritersStayOnTheAccount == Spec => []WritersStay
<1>1. IInv => WritersStay
  <2> SUFFICES ASSUME IInv, NEW w \in Worker, lease[w] = "in"
               PROVE  app.opened = Current /\ journal.phase \in {"none", "Failed"}
    BY DEF WritersStay
  <2>1. At("up") /\ ~Leaving /\ app.opened = registry.active
    BY DEF IInv, Starting, Closed
  <2>2. journal.phase \in {"none", "Failed"}
    BY <2>1, JournalType DEF IInv, Typed, FilesTyped, Starting, Leaving
  <2> QED
    BY <2>1, <2>2 DEF IInv, Starting, Current, Requested
<1> QED
  BY <1>1, Invariant, PTL

(***************************************************************************)
(* No reminder of the account that is left survives the request: nothing   *)
(* is armed between the cancelling and the end of the process.             *)
(***************************************************************************)
THEOREM RemindersAreCancelled == Spec => []NoReminderLeftBehind
<1>1. IInv => NoReminderLeftBehind
  BY DEF IInv, Closed, NoReminderLeftBehind
<1> QED
  BY <1>1, Invariant, PTL

(***************************************************************************)
(* The journal always fits the registry, and a process that is up has the  *)
(* account open that the user is on.                                       *)
(***************************************************************************)
THEOREM StartsAgree == Spec => []StartsOnCurrent
<1>1. IInv => StartsOnCurrent
  BY DEF IInv, Files, Starting, StartsOnCurrent, JournalFits, Current, Requested, At
<1> QED
  BY <1>1, Invariant, PTL

----------------------------------------------------------------------------
(* The refinement. *)

ChoiceKept == Current' = Current /\ Wanted' = Wanted

\* The choice is read from the journal and, without one, from the registry.
LEMMA SameFiles ==
    ASSUME journal' = journal, registry'.active = registry.active
    PROVE  ChoiceKept
BY DEF ChoiceKept, Current, Wanted, Requested

\* Before it is requested, a switch does not show.
LEMMA NotYetRequested ==
    ASSUME journal.phase \in {"none", "Prepared"} \/
              (journal.phase = "Failed" /\ journal.from = registry.active),
           journal'.phase \in {"none", "Prepared"},
           registry'.active = registry.active
    PROVE  ChoiceKept
BY DEF ChoiceKept, Current, Wanted, Requested

\* A requested switch that is written off is given up.
LEMMA WrittenOff ==
    ASSUME IInv, Requested, SetPhase("Failed")
    PROVE  Choice!GiveUp
<1>1. journal'.phase = "Failed" /\ journal'.from = journal.from
  BY SetPhaseType DEF IInv, Typed, FilesTyped, Requested
<1>2. Wanted # Nobody
  BY JournalType, SwitchAssumption
  DEF IInv, Typed, FilesTyped, Requested, Wanted, SwitchAssumption, Account
<1>3. Current' = Current /\ Wanted' = Nobody
  BY <1>1 DEF Current, Wanted, Requested
<1> QED
  BY <1>2, <1>3 DEF Choice!GiveUp

LEMMA StartIsChoice ==
    ASSUME IInv, StartStep
    PROVE  ChoiceKept \/ Choice!Commit \/ Choice!GiveUp
<1>1. /\ journal \in Journal /\ Files /\ Starting
  BY DEF IInv, Typed, FilesTyped
<1>2. CASE Start \/ RecoverFailed \/ Open \/ OpenFails
  BY <1>2, SameFiles DEF Start, RecoverFailed, Open, OpenFails, Quit, disk
<1>3. CASE RecoverNothing
  BY <1>3, NoJournalType, NotYetRequested DEF RecoverNothing
<1>4. CASE RecoverRequested
  <2>1. CASE SetPhase("VerifyingTarget")
    <3>1. /\ journal'.phase = "VerifyingTarget" /\ registry' = registry
          /\ journal'.from = journal.from /\ journal'.to = journal.to
      BY <1>1, <1>4, <2>1, SetPhaseType DEF RecoverRequested, Requested
    <3> QED
      BY <1>4, <3>1 DEF RecoverRequested, ChoiceKept, Current, Wanted, Requested
  <2>2. CASE SetPhase("Failed")
    BY <1>4, <2>2, WrittenOff DEF RecoverRequested
  <2> QED
    BY <1>4, <2>1, <2>2 DEF RecoverRequested
<1>5. CASE RestoreSource
  BY <1>1, <1>5 DEF RestoreSource, Starting, ChoiceKept, Current, Wanted, Requested
<1>6. CASE CommitTarget
  BY <1>1, <1>6 DEF CommitTarget, Starting, ChoiceKept, Current, Wanted, Requested
<1>7. CASE RollBack
  <2>1. Requested
    BY <1>1, <1>7 DEF RollBack, Starting, Requested
  <2> QED
    BY <1>7, <2>1, WrittenOff DEF RollBack
<1>8. CASE Finish
  <2>1. /\ Wanted = journal.to /\ Wanted # Nobody
    BY <1>1, <1>8, JournalType, SwitchAssumption
    DEF Finish, Wanted, Requested, SwitchAssumption, Account
  <2>2. Current' = journal.to /\ Wanted' = Nobody
    BY <1>8, NoJournalType DEF Finish, Current, Wanted, Requested
  <2> QED
    BY <2>1, <2>2 DEF Choice!Commit
<1> QED
  BY <1>2, <1>3, <1>4, <1>5, <1>6, <1>7, <1>8 DEF StartStep

LEMMA CommandIsChoice ==
    ASSUME IInv, CommandStep
    PROVE  ChoiceKept \/ Choice!GiveUp \/ \E account \in Account : Choice!Ask(account)
<1>1. /\ journal \in Journal /\ gate \in Gates /\ page \in Pages
      /\ Files /\ Starting /\ InStep
  BY DEF IInv, Typed, FilesTyped, ProcessTyped
<1>2. CASE Drained \/ Request \/ Cancel \/ Recover \/ Exit
  BY <1>2, SameFiles DEF Drained, Request, Cancel, Recover, Exit, Die, disk
<1>3. ASSUME Abort("idle"), registry' = registry, At("up") PROVE ChoiceKept
  BY <1>1, <1>3, AbortType, SameFiles, NotYetRequested
<1>4. CASE DrainTimeout
  BY <1>3, <1>4 DEF DrainTimeout
<1>5. CASE AbortCommand
  BY <1>3, <1>5, SameFiles DEF AbortCommand, Up
<1>6. CASE Prepare(page.target)
  <2>1. CASE Refused(page.target)
    BY <1>3, <1>6, <2>1 DEF Prepare
  <2>2. CASE ~Refused(page.target)
    <3>1. journal'.phase = "Prepared" /\ registry' = registry
      BY <1>6, <2>2 DEF Prepare
    <3>2. \/ journal.phase = "none"
          \/ journal.phase = "Failed" /\ journal.from = registry.active
      BY <1>1, <1>6 DEF Prepare, InStep, Starting
    <3> QED
      BY <3>1, <3>2, NotYetRequested
  <2> QED
    BY <2>1, <2>2
<1>7. CASE WriteRequest
  <2>1. CASE UNCHANGED journal
    BY <1>7, <2>1, SameFiles DEF WriteRequest
  <2>2. CASE SetPhase("RestartRequired")
    <3>1. journal.phase = "Prepared" /\ registry' = registry /\ registry.active = journal.from
      BY <1>1, <1>7 DEF WriteRequest, InStep, Files
    <3>2. /\ journal'.phase = "RestartRequired"
          /\ journal'.from = journal.from /\ journal'.to = journal.to
      BY <1>1, <2>2, <3>1, SetPhaseType
    <3>3. journal.to \in Account /\ journal.to # journal.from
      BY <1>1, <3>1, JournalType DEF Files
    <3>4. Choice!Ask(journal.to)
      BY <3>1, <3>2, <3>3 DEF Choice!Ask, Current, Wanted, Requested
    <3> QED
      BY <3>3, <3>4
  <2> QED
    BY <1>7, <2>1, <2>2 DEF WriteRequest
<1>8. CASE Spawn
  <2>1. Requested
    BY <1>1, <1>8 DEF Spawn, InStep, Requested
  <2> QED
    BY <1>8, <2>1, SameFiles, WrittenOff DEF Spawn
<1> QED
  BY <1>2, <1>4, <1>5, <1>6, <1>7, <1>8 DEF CommandStep

LEMMA StepIsChoice == IInv /\ [Next]_vars => [Choice!Next]_<<Current, Wanted>>
<1> SUFFICES ASSUME IInv, [Next]_vars
             PROVE  Choice!Next \/ ChoiceKept
  BY DEF ChoiceKept
<1>1. ASSUME NEW w \in Worker, WorkerStep(w) PROVE ChoiceKept
  BY <1>1, SameFiles
  DEF WorkerStep, Enter, Count, Recheck, Leave, Arm, SignIn, SignOut, disk
<1>2. CASE \/ \E account \in Cloud : CreateAccount(account)
           \/ MarkVerified
           \/ \E account \in Account, file \in {"ok", "refused", "unopenable"} :
                 Damage(account, file)
  <2>1. journal' = journal /\ registry'.active = registry.active
    BY <1>2 DEF CreateAccount, MarkVerified, Damage, IInv, Typed, FilesTyped, Registries
  <2> QED
    BY <2>1, SameFiles
<1>3. ASSUME NEW target \in Account, BeginSwitch(target) PROVE ChoiceKept
  BY <1>3, SameFiles DEF BeginSwitch, disk
<1>4. CASE Confirm \/ Crash \/ Reload \/ UNCHANGED vars
  BY <1>4, SameFiles DEF Confirm, Crash, Die, Reload, disk, vars
<1> QED
  BY <1>1, <1>2, <1>3, <1>4, StartIsChoice, CommandIsChoice DEF Next, Choice!Next

(***************************************************************************)
(* The switch of two files implements the choice of AccountChoice: seen    *)
(* from outside the app moves in one step to the account that was asked    *)
(* for, or it stays, whichever write it dies before.                       *)
(***************************************************************************)
THEOREM SwitchIsChoice == Spec => OneStep
<1>1. Init => Choice!Init
  BY DEF Init, Choice!Init, Current, Wanted, Requested, NoJournal, Account
<1>2. IInv /\ [Next]_vars => [Choice!Next]_<<Current, Wanted>>
  BY StepIsChoice
<1> QED
  BY <1>1, <1>2, Invariant, PTL DEF Spec, OneStep, Choice!Spec
=============================================================================
