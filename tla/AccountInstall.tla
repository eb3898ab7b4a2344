-------------------------- MODULE AccountInstall ---------------------------
(***************************************************************************)
(* What a start of the native app does before it opens a database          *)
(* (native-accounts: migration.rs, registry.rs, paths.rs). An empty data   *)
(* root is set up behind a marker; a database of the one-account versions  *)
(* is backed up, copied and registered behind a state file; the registry   *)
(* names the active account. Each file is replaced by write_json_atomic,   *)
(* on Windows in up to five steps, and the process may die between any two *)
(* of them: the next start goes on from what it finds.                     *)
(***************************************************************************)
EXTENDS Integers, FiniteSets

CONSTANTS
    Default, Other,     \* the default account, and a cloud account
    Email,              \* the addresses that a cloud account may be bound to
    None,               \* no file, no value
    Torn,               \* a file whose content was not written to its end
    Windows,            \* whether ReplaceFileW may be refused
    MaxEdits,           \* bound: edits of the old version in the legacy database
    MaxFaults           \* bound: crashes, refused replacements, failed calls

Account == {Default, Other}

\* The content of a database: fresh, a version of the legacy one, or used.
Empty == 0
Legacy == 1 .. (MaxEdits + 1)
Worked == MaxEdits + 2
Content == {Empty, Worked} \cup Legacy

\* The three files.
File == {"marker", "migration", "registry"}

MarkerPhase == {"Prepared", "DatabaseCreated", "RegistryCommitted"}
State == [phase : {"NotStarted", "BackupCreated", "CopyVerified", "RegistryCommitted",
                   "Complete", "RequiresReview", "Failed"},
          target : Account \cup {None}, backup : Legacy \cup {None}]

\* email is that of Other, None while it is not known.
Registry == [active : Account, known : SUBSET Account, email : Email \cup {None}]

\* What classify_legacy_database reads: bound_account, and whether the device id,
\* the outbox and sync_enabled agree with it.
Owner == [bound : Email \cup {None}, clear : BOOLEAN]
Anonymous == [bound |-> None, clear |-> TRUE]

ValueOf(f) == CASE f = "marker" -> MarkerPhase
                [] f = "migration" -> State
                [] f = "registry" -> {r \in Registry : {r.active, Default} \subseteq r.known}

\* A replace-journal names the new file and the old one.
Journal(f) == [new : ValueOf(f) \cup {None}, old : ValueOf(f) \cup {None}]

ASSUME InstallAssumption ==
    /\ Default # Other /\ None # Torn /\ None \notin Email
    /\ Windows \in BOOLEAN /\ MaxEdits \in Nat /\ MaxFaults \in Nat
    \* an absent or torn file is none of the values that a file can have
    /\ \A absent \in {None, Torn} :
        /\ absent \notin Account /\ absent \notin Content
        /\ \A f \in File : absent \notin ValueOf(f) /\ absent \notin Journal(f)

VARIABLES
    file,       \* installation marker, migration state and registry
    swap,       \* the replace-journal of each, with the files that it names
    stray,      \* left-over temporary and .old- files of accounts.json
    writing,    \* write_json_atomic, in progress
    source,     \* the legacy database
    owner,      \* to whom it belongs
    backup,     \* the newest file in migration-backups
    db,         \* the database of each account
    pc,         \* ensure_active_account
    mem,        \* the MigrationState in memory
    faults

disk == <<swap, stray, source, owner, backup, db>>
vars == <<file, swap, stray, writing, source, owner, backup, db, pc, mem, faults>>

Idle == [step |-> "idle"]

TypeOK ==
    /\ DOMAIN file = File /\ DOMAIN swap = File
    /\ \A f \in File :
        /\ file[f] \in ValueOf(f) \cup {None}
        /\ swap[f] \in {None, Torn} \cup Journal(f)
    /\ stray \subseteq ValueOf("registry") \cup {Torn}
    /\ writing = Idle \/ \E f \in File : writing \in
           [step : {"temp", "ready", "journal", "swap", "moved", "placed", "cleaned"},
            file : {f}, value : ValueOf(f)]
    /\ source \in Legacy \cup {None}
    /\ owner \in Owner
    /\ backup \in Legacy \cup {None}
    /\ db \in [Account -> Content \cup {None}]
    /\ pc \in {"down", "migration", "marker", "registry", "decide", "fresh", "database",
               "created", "saved", "committed", "unmark", "snapshot", "backup", "backed",
               "preserve", "preserved", "reviewed", "target", "verify", "register",
               "activate", "complete", "fail", "open", "up", "exit"}
    /\ mem \in State
    /\ faults \in 0..MaxFaults

NewState == [phase |-> "NotStarted", target |-> None, backup |-> None]
NewRegistry == [active |-> Default, known |-> {Default}, email |-> None]

\* An empty data root, or one of a version that had one database.
Init ==
    /\ file = [f \in File |-> None] /\ swap = [f \in File |-> None]
    /\ stray = {} /\ writing = Idle
    /\ source \in {None, 1}
    /\ owner \in IF source = None THEN {Anonymous} ELSE Owner
    /\ backup = None
    /\ db = [a \in Account |-> None]
    /\ pc = "down" /\ mem = NewState
    /\ faults = 0

Fault == faults < MaxFaults /\ faults' = faults + 1
NoFault == UNCHANGED faults

At(where) == pc = where /\ writing = Idle
GoTo(where) == pc' = where

----------------------------------------------------------------------------
(* write_json_atomic and replace_file *)

\* The value is saved, and the start goes on at next.
Save(f, value, next) ==
    /\ writing' = [step |-> "temp", file |-> f, value |-> value]
    /\ GoTo(next)
    /\ UNCHANGED file

NextStep(step) == writing' = [writing EXCEPT !.step = step]

Written == writing' = Idle

InSwap(step) == writing.step = step

\* The files that an older journal named are left over.
Named(f) == IF f = "registry" /\ swap[f] \notin {None, Torn}
            THEN {swap[f].new, swap[f].old} \ {None} ELSE {}

WriteTemp ==
    /\ InSwap("temp") /\ NextStep("ready")
    /\ UNCHANGED <<file, swap, stray>> /\ NoFault

Replace ==
    /\ InSwap("ready")
    /\ file' = [file EXCEPT ![writing.file] = writing.value]
    /\ IF file[writing.file] = None /\ swap[writing.file] # None
       THEN NextStep("cleaned") ELSE Written
    /\ UNCHANGED <<swap, stray>> /\ NoFault

\* ReplaceFileW is refused; write_replace_journal
BeginSwap ==
    /\ Windows /\ InSwap("ready") /\ file[writing.file] # None
    /\ stray' = stray \cup Named(writing.file)
    /\ swap' = [swap EXCEPT ![writing.file] = Torn]
    /\ NextStep("journal")
    /\ UNCHANGED file /\ Fault

WriteJournal ==
    /\ InSwap("journal")
    /\ swap' = [swap EXCEPT ![writing.file] = [new |-> writing.value, old |-> None]]
    /\ NextStep("swap")
    /\ UNCHANGED <<file, stray>> /\ NoFault

MoveAway ==
    /\ InSwap("swap")
    /\ file' = [file EXCEPT ![writing.file] = None]
    /\ swap' = [swap EXCEPT ![writing.file].old = file[writing.file]]
    /\ NextStep("moved")
    /\ UNCHANGED stray /\ NoFault

MoveIn ==
    /\ InSwap("moved")
    /\ file' = [file EXCEPT ![writing.file] = writing.value]
    /\ swap' = [swap EXCEPT ![writing.file].new = None]
    /\ NextStep("placed")
    /\ UNCHANGED stray /\ NoFault

DropOld ==
    /\ InSwap("placed")
    /\ swap' = [swap EXCEPT ![writing.file].old = None]
    /\ NextStep("cleaned")
    /\ UNCHANGED <<file, stray>> /\ NoFault

DropJournal ==
    /\ InSwap("cleaned")
    /\ swap' = [swap EXCEPT ![writing.file] = None]
    /\ stray' = stray \cup Named(writing.file)
    /\ Written
    /\ UNCHANGED file /\ NoFault

WriteStep ==
    /\ \/ WriteTemp \/ Replace \/ BeginSwap \/ WriteJournal
       \/ MoveAway \/ MoveIn \/ DropOld \/ DropJournal
    /\ UNCHANGED <<source, owner, backup, db, pc, mem>>

\* What run_migration reports as FAILED; elsewhere the start ends.
Migrating ==
    \/ pc \in {"backup", "backed", "preserved", "reviewed", "register", "activate", "complete"}
    \/ pc = "open" /\ mem.phase = "Complete"

\* A temporary file that is not written to its end may be left over.
CutShort ==
    IF writing = Idle \/ writing.file # "registry" THEN {{}}
    ELSE CASE InSwap("temp") -> {{}, {Torn}, {writing.value}}
           [] writing.step \in {"ready", "journal"} -> {{writing.value}}
           [] OTHER -> {{}}

\* The file or its journal cannot be written, or a move is undone. Once it is
\* written, the temporary file is removed.
WriteFails ==
    /\ \/ /\ InSwap("temp")
          /\ \E left \in CutShort : stray' = stray \cup left
          /\ UNCHANGED <<file, swap>>
       \/ /\ writing.step \in {"ready", "journal"}
          /\ UNCHANGED <<file, swap, stray>>
       \/ /\ InSwap("swap")
          /\ swap' = [swap EXCEPT ![writing.file].new = None]
          /\ UNCHANGED <<file, stray>>
       \/ /\ InSwap("moved")
          /\ file' = [file EXCEPT ![writing.file] = swap[writing.file].old]
          /\ swap' = [swap EXCEPT ![writing.file] = None]
          /\ UNCHANGED stray
    /\ Written /\ Fault
    /\ GoTo(IF Migrating THEN "fail" ELSE IF pc = "up" THEN "up" ELSE "exit")
    /\ UNCHANGED <<source, owner, backup, db, mem>>

----------------------------------------------------------------------------
(* Loading the three files: MigrationState::load, InstallationState::load    *)
(* and load_with_recovery.                                                  *)

Quit == GoTo("exit") /\ UNCHANGED <<file, writing, disk, mem>> /\ NoFault

Start == /\ At("down") /\ GoTo("migration")
         /\ UNCHANGED <<file, writing, disk, mem>> /\ NoFault

After == [migration |-> "marker", marker |-> "registry", registry |-> "decide"]

Loading(f) == f = pc /\ At(f)

LoadFile(f) ==
    /\ Loading(f)
    /\ file[f] # None \/ (swap[f] = None /\ (f = "registry" => stray = {}))
    /\ GoTo(After[f])
    /\ UNCHANGED <<file, writing, disk, mem>> /\ NoFault

\* recover_state_journal, recover_from_journal: the new file, else the old one.
Candidate(f) == IF swap[f].new # None THEN swap[f].new ELSE swap[f].old

NoCandidate(f) == swap[f] # None /\ (swap[f] # Torn => Candidate(f) = None)

FromJournal(f) ==
    /\ Loading(f) /\ file[f] = None
    /\ swap[f] # None /\ ~NoCandidate(f)
    /\ Save(f, Candidate(f), f)
    /\ UNCHANGED <<disk, mem>> /\ NoFault

\* Without a journal only candidates that agree are taken.
FromStray ==
    /\ Loading("registry") /\ file.registry = None /\ swap.registry = None
    /\ Cardinality(stray \ {Torn}) = 1
    /\ \E registry \in stray \ {Torn} : Save("registry", registry, "registry")
    /\ UNCHANGED <<disk, mem>> /\ NoFault

NotRecovered(f) ==
    /\ Loading(f) /\ file[f] = None
    /\ \/ NoCandidate(f)
       \/ f = "registry" /\ swap[f] = None /\ stray # {} /\ Cardinality(stray \ {Torn}) # 1
    /\ Quit

----------------------------------------------------------------------------
(* ensure_active_account *)

Marked == file.marker # None

\* Slip: a copy is compared with its backup on every start.
UnfinishedForEver == file.migration # None /\ file.migration.phase # "RequiresReview"

Unfinished == file.migration # None /\ file.migration.phase \notin {"Complete", "RequiresReview"}
Phase == IF file.migration = None THEN "none" ELSE file.migration.phase
Active == file.registry.active

\* resume_fresh_installation refuses these data roots.
MarkerConflicts ==
    \/ file.migration # None \/ source # None
    \/ file.registry # None /\ (file.registry # None => Active # Default)
    \/ db[Other] # None

\* Slip: the registry alone says what is opened.
CanOpenRegistered == file.registry # None /\ ~Marked /\ db[Active] # None

\* The registry and a database are there: the account is opened.
CanOpen ==
    /\ file.registry # None /\ ~Marked /\ db[Active] # None
    /\ Phase = "none" \/ (Phase = "Complete" /\ db[file.migration.target] # None)

CanMigrate ==
    /\ ~Marked /\ source # None
    /\ \/ file.migration = None /\ file.registry = None
       \/ /\ Unfinished /\ file.migration.target # None
          /\ file.registry # None => Active \in {Default, file.migration.target}

CanInstall ==
    /\ file.registry = None /\ file.migration = None /\ source = None
    /\ \A a \in Account : db[a] = None

DecideOpen ==
    /\ At("decide") /\ CanOpen
    /\ mem' = NewState
    /\ Save("registry", file.registry, "open")
    /\ UNCHANGED disk /\ NoFault

DecideFresh ==
    /\ At("decide") /\ ~Marked /\ CanInstall
    /\ Save("marker", "Prepared", "fresh")
    /\ UNCHANGED <<disk, mem>> /\ NoFault

DecideResume ==
    /\ At("decide") /\ Marked /\ ~MarkerConflicts
    /\ GoTo("fresh")
    /\ UNCHANGED <<file, writing, disk, mem>> /\ NoFault

DecideMigrate ==
    /\ At("decide") /\ CanMigrate
    /\ mem' = IF file.migration = None THEN NewState ELSE file.migration
    /\ GoTo("snapshot")
    /\ UNCHANGED <<file, writing, disk>> /\ NoFault

DecideNot ==
    /\ At("decide")
    /\ IF Marked THEN MarkerConflicts ELSE ~CanOpen /\ ~CanInstall /\ ~CanMigrate
    /\ Quit

----------------------------------------------------------------------------
(* resume_fresh_installation *)

\* ensure_fresh_database: what cannot be read is set aside.
Database ==
    /\ At("fresh")
    /\ \/ db[Default] # None /\ UNCHANGED db /\ NoFault
       \/ db[Default] = None /\ db' = [db EXCEPT ![Default] = Empty] /\ NoFault
       \/ db[Default] # None /\ db' = [db EXCEPT ![Default] = Empty] /\ Fault
    /\ GoTo("database")
    /\ UNCHANGED <<file, swap, stray, writing, source, owner, backup, mem>>

MarkCreated ==
    /\ At("database")
    /\ IF file.marker = "Prepared" THEN Save("marker", "DatabaseCreated", "created")
       ELSE GoTo("created") /\ UNCHANGED <<file, writing>>
    /\ UNCHANGED <<disk, mem>> /\ NoFault

FreshRegistry == IF file.registry = None THEN NewRegistry ELSE file.registry

\* Slip: the marker is removed before the registry is written.
SaveUnmarked ==
    /\ At("created")
    /\ file' = [file EXCEPT !.marker = None]
    /\ writing' = [step |-> "temp", file |-> "registry", value |-> FreshRegistry]
    /\ GoTo("open")
    /\ UNCHANGED <<disk, mem>> /\ NoFault

SaveFresh ==
    /\ At("created")
    /\ Save("registry", FreshRegistry,
            IF file.marker = "DatabaseCreated" THEN "saved" ELSE "unmark")
    /\ UNCHANGED <<disk, mem>> /\ NoFault

MarkCommitted ==
    /\ At("saved") /\ Save("marker", "RegistryCommitted", "committed")
    /\ UNCHANGED <<disk, mem>> /\ NoFault

SaveAgain ==
    /\ At("committed") /\ Save("registry", FreshRegistry, "unmark")
    /\ UNCHANGED <<disk, mem>> /\ NoFault

Unmark ==
    /\ At("unmark")
    /\ file' = [file EXCEPT !.marker = None]
    /\ mem' = NewState
    /\ GoTo("open")
    /\ UNCHANGED <<writing, disk>> /\ NoFault

FreshStep ==
    Database \/ MarkCreated \/ SaveFresh \/ MarkCommitted \/ SaveAgain \/ Unmark

----------------------------------------------------------------------------
(* run_migration *)

OtherEmail == IF file.registry = None THEN None ELSE file.registry.email

RegisteredOwner ==
    IF OtherEmail # None THEN [bound |-> OtherEmail, clear |-> TRUE]
    ELSE [owner EXCEPT !.clear = @ \/ owner.bound # None]

\* resume_migration: for whom a start goes on. Only a migration that has not begun
\* or has failed reads it from the legacy database as it is now.
Ownership(v) ==
    CASE v.phase \in {"NotStarted", "Failed"} -> owner
      [] v.phase \notin {"NotStarted", "Failed"} /\ v.target = Default -> Anonymous
      [] OTHER -> RegisteredOwner

Target(v) ==
    IF Ownership(v).bound = None THEN Default
    ELSE IF v.target = None THEN Other ELSE v.target

\* The account that was chosen is not one of the address that the data are bound to.
Refused(v) ==
    /\ Ownership(v).clear /\ Ownership(v).bound # None
    /\ Target(v) = Default \/ OtherEmail \notin {None, Ownership(v).bound}

ChooseTarget ==
    /\ At("snapshot") /\ Ownership(mem).clear /\ ~Refused(mem)
    /\ mem' = [mem EXCEPT !.target = Target(mem)]
    /\ IF mem.phase = "NotStarted"
       THEN Save("migration", mem', "backup")
       ELSE GoTo("backup") /\ UNCHANGED <<file, writing>>
    /\ UNCHANGED disk /\ NoFault

RefuseTarget ==
    /\ At("snapshot") /\ Refused(mem)
    /\ GoTo("fail")
    /\ UNCHANGED <<file, writing, disk, mem>> /\ NoFault

\* preserve_ambiguous: a backup, and nothing else.
Preserve ==
    /\ At("snapshot") /\ ~Ownership(mem).clear
    /\ GoTo("preserve")
    /\ UNCHANGED <<file, writing, disk, mem>> /\ NoFault

\* Slip: a backup that was recorded once is not compared with the source.
BackupIsGoodOnce == mem.backup # None

BackupIsGood == mem.backup # None /\ mem.backup = source

\* ensure_backup, for a target or to preserve the database
Backing == pc \in {"backup", "preserve"} /\ writing = Idle
BackedUp == IF pc = "backup" THEN "backed" ELSE "preserved"

KeepBackup ==
    /\ Backing /\ BackupIsGood
    /\ GoTo(BackedUp)
    /\ UNCHANGED <<file, writing, disk, mem>> /\ NoFault

TakeBackup ==
    /\ Backing /\ ~BackupIsGood
    /\ backup' = source
    /\ mem' = [mem EXCEPT !.backup = source, !.phase = "BackupCreated"]
    /\ Save("migration", mem', BackedUp)
    /\ UNCHANGED <<swap, stray, source, owner, db>> /\ NoFault

Review ==
    /\ At("preserved")
    /\ mem' = [mem EXCEPT !.phase = "RequiresReview"]
    /\ Save("migration", mem', "reviewed")
    /\ UNCHANGED disk /\ NoFault

\* needs_review
Reviewed == At("reviewed") /\ Quit

\* quarantine_invalid_target
Quarantine ==
    /\ At("backed")
    /\ db' = [db EXCEPT ![mem.target] = IF @ = mem.backup THEN @ ELSE None]
    /\ GoTo("target")
    /\ UNCHANGED <<file, swap, stray, writing, source, owner, backup, mem>> /\ NoFault

\* copy_database_from_backup
Copy ==
    /\ At("target")
    /\ db' = [db EXCEPT ![mem.target] = mem.backup]
    /\ GoTo("verify")
    /\ UNCHANGED <<file, swap, stray, writing, source, owner, backup, mem>> /\ NoFault

Verify ==
    /\ At("verify")
    /\ mem' = [mem EXCEPT !.phase = "CopyVerified"]
    /\ Save("migration", mem', "register")
    /\ UNCHANGED disk /\ NoFault

Registered ==
    [active |-> mem.target,
     known |-> {Default, mem.target} \cup
               (IF file.registry = None THEN {} ELSE file.registry.known),
     email |-> IF mem.target = Other THEN Ownership(mem).bound
               ELSE OtherEmail]

Register ==
    /\ At("register") /\ Save("registry", Registered, "activate")
    /\ UNCHANGED <<disk, mem>> /\ NoFault

Activate ==
    /\ At("activate")
    /\ mem' = [mem EXCEPT !.phase = "RegistryCommitted"]
    /\ Save("migration", mem', "complete")
    /\ UNCHANGED disk /\ NoFault

Complete ==
    /\ At("complete") /\ Active = mem.target
    /\ mem' = [mem EXCEPT !.phase = "Complete"]
    /\ Save("migration", mem', "open")
    /\ UNCHANGED disk /\ NoFault

\* A step of run_migration_inner returns an error.
StepFails ==
    /\ pc \in {"snapshot", "backup", "preserve", "backed", "target", "verify",
               "register", "complete"}
    /\ writing = Idle
    /\ GoTo("fail") /\ Fault
    /\ UNCHANGED <<file, writing, disk, mem>>

Fail ==
    /\ At("fail")
    /\ mem' = [mem EXCEPT !.phase = "Failed"]
    /\ Save("migration", mem', "exit")
    /\ UNCHANGED disk /\ NoFault

MigrationStep ==
    \/ ChooseTarget \/ RefuseTarget \/ Preserve \/ KeepBackup \/ TakeBackup
    \/ Review \/ Reviewed \/ Quarantine \/ Copy \/ Verify
    \/ Register \/ Activate \/ Complete \/ Fail

----------------------------------------------------------------------------
(* The app is up, and goes down again. *)

Open == /\ At("open") /\ GoTo("up")
        /\ UNCHANGED <<file, writing, disk, mem>> /\ NoFault

Work ==
    /\ At("up") /\ db[Active] # Worked
    /\ db' = [db EXCEPT ![Active] = Worked]
    /\ UNCHANGED <<file, swap, stray, writing, source, owner, backup, pc, mem>> /\ NoFault

\* create_pending_cloud_account: the database, then the registry.
CreateOther ==
    /\ At("up") /\ Other \notin file.registry.known
    /\ db' = [db EXCEPT ![Other] = Empty]
    /\ \E email \in Email :
        Save("registry", [file.registry EXCEPT !.known = Account, !.email = email], "up")
    /\ UNCHANGED <<swap, stray, source, owner, backup, mem>> /\ NoFault

\* A switch (AccountSwitch) moves the registry and restarts the process.
Switch(account) ==
    /\ At("up") /\ account \in file.registry.known \ {Active} /\ db[account] # None
    /\ Save("registry", [file.registry EXCEPT !.active = account], "exit")
    /\ UNCHANGED <<disk, mem>> /\ NoFault

\* The user closes the app.
Close == At("up") /\ Quit

Down == /\ GoTo("down") /\ mem' = NewState
        /\ UNCHANGED <<file, swap, source, owner, backup, db>>

Exit == /\ At("exit") /\ Down
        /\ UNCHANGED <<writing, stray>> /\ NoFault

Crash ==
    /\ pc # "down" /\ Down
    /\ \E left \in CutShort : stray' = stray \cup left
    /\ writing' = Idle
    /\ Fault

\* The old version is installed again and used before it is replaced for good: the
\* data change, and so may the account that they are bound to.
OldVersion ==
    /\ At("down") /\ source \in 1..MaxEdits
    /\ source' = source + 1
    /\ owner' \in Owner
    /\ UNCHANGED <<file, swap, stray, writing, backup, db, pc, mem>> /\ NoFault

----------------------------------------------------------------------------
StartStep ==
    \/ Start \/ WriteStep
    \/ \E f \in File : LoadFile(f) \/ FromJournal(f) \/ NotRecovered(f)
    \/ FromStray
    \/ DecideOpen \/ DecideFresh \/ DecideResume \/ DecideMigrate \/ DecideNot
    \/ FreshStep \/ MigrationStep \/ Open \/ Exit

Next ==
    \/ StartStep
    \/ WriteFails \/ StepFails \/ Crash
    \/ Work \/ CreateOther \/ (\E account \in Account : Switch(account)) \/ Close
    \/ OldVersion

Spec == Init /\ [][Next]_vars

\* A start runs to its end and the app is started again when it is down.
FairSpec == Spec /\ WF_vars(StartStep)

----------------------------------------------------------------------------
(* What holds. *)

\* Nothing that the user did is replaced by a copy or an empty database, though
\* ensure_fresh_database and quarantine_invalid_target set aside what they find;
\* unless an installation marker was brought back by a stale journal.
WorkIsKept == [][\A a \in Account : db[a] = Worked /\ ~Marked => db'[a] = Worked]_db

\* Where there was a legacy database the app never comes up without its data,
\* nor on a copy that a later start would still compare and replace.
NoEmptyDefault ==
    pc = "up" /\ source # None =>
        /\ Phase = "Complete"
        /\ db[file.migration.target] \notin {None, Empty}

\* A migration ends with what the old version had written by then, also when it
\* was used again after an attempt that failed, and the account that it was
\* copied to is the one that is opened.
CompleteIsCurrent ==
    [][pc = "open" /\ file'.migration # file.migration /\ file'.migration # None
         /\ file'.migration.phase = "Complete"
       => /\ db[file'.migration.target] = source
          /\ backup = source
          /\ file.registry.active = file'.migration.target]_<<file, pc>>

\* What the start refuses to touch. The first is a temporary file of the first
\* registry that was cut short; the second a migration that stopped before it had a
\* target, as one does whose ownership is unclear; the third one that has a target
\* for an owner the legacy database had then, and has no longer: with the old version
\* the user has signed in, or out, or in with another address since;
\* the fourth a journal that outlived the marker, whether or not it still names a
\* file that brings the marker back.
TornFirstRegistry == file.registry = None /\ Torn \in stray
NoTarget == Unfinished /\ (Unfinished => file.migration.target = None)
OwnerMoved ==
    /\ Unfinished
    /\ Unfinished => \/ Refused(file.migration)
                     \/ file.registry # None /\
                        (file.registry # None => Active \notin {Default, file.migration.target})
StaleMarker == IF Marked THEN MarkerConflicts ELSE NoCandidate("marker")

\* Every start that is interrupted or fails is taken up by a later one, up to an
\* open database, unless the ownership is unclear.
ComesUp ==
    pc = "down" ~> \/ pc = "up" \/ Phase = "RequiresReview"
                   \/ TornFirstRegistry \/ NoTarget \/ OwnerMoved \/ StaleMarker

\* "A crash at any point of PREPARED, DATABASE_CREATED, REGISTRY_COMMITTED: the
\* next start recovers by the marker" (docs/design/native-account-isolation.md 3).
MarkerRecovers == Marked ~> pc = "up"

\* "Every state but COMPLETE checks again source, backup and target, the account they
\* belong to, and that registry and state agree; then it goes on or refuses"
\* (docs/design/native-account-isolation.md 3): what is migrated belongs to the
\* account it is migrated to.
MigratedToItsOwner ==
    [][pc = "open" /\ file'.migration # file.migration /\ file'.migration # None
         /\ file'.migration.phase = "Complete"
       => IF owner.bound = None THEN Active = Default
          ELSE Active = Other /\ OtherEmail = owner.bound]_<<file, pc>>

\* "Interrupted in BACKUP_CREATED, COPY_VERIFIED, REGISTRY_COMMITTED or FAILED:
\* check or rebuild the target from the backup, and go on"
\* (docs/design/native-account-isolation.md 5).
InterruptedContinues == Unfinished ~> (pc = "up" \/ Phase = "RequiresReview")
============================================================================
