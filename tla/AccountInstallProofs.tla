------------------------- MODULE AccountInstallProofs ------------------------
(***************************************************************************)
(* Proofs about AccountInstall, for any number of crashes, refused         *)
(* replacements and failed calls, and any number of edits of the old       *)
(* version: what the user did is not replaced, a migrated installation     *)
(* does not come up without its data, and a migration ends with what the   *)
(* old version had written by then.                                        *)
(***************************************************************************)
EXTENDS AccountInstall, TLAPS

----------------------------------------------------------------------------
(* The values that a later start may find in a file. *)

Writing(f) == writing # Idle /\ writing.file = f

Journalled(f) == swap[f] \notin {None, Torn}

\* What is on disk: the file, or what its journal names, or a left-over
\* temporary file of a registry that was never written to its end.
OnDisk(f) ==
    (IF file[f] # None THEN {file[f]}
     ELSE IF Journalled(f) THEN {swap[f].new, swap[f].old}
     ELSE IF f = "registry" /\ swap[f] = None THEN stray \ {Torn}
     ELSE {}) \ {None}

Values(f) == OnDisk(f) \cup (IF Writing(f) THEN {writing.value} ELSE {})

\* It is there, and stays there.
Found(f) == file[f] # None \/ Journalled(f)

\* What a write in progress is about to replace.
Early == {"temp", "ready", "journal", "swap", "moved"}
Prior(f) == IF writing.step = "moved" THEN swap[f].old ELSE file[f]

Loaded(f) == file[f] # None \/ swap[f] = None \/ (Writing(f) /\ writing.step = "moved")

\* The steps of write_json_atomic. The journal of the marker may outlive it.
Swapping(f) ==
    /\ f # "marker" /\ file[f] = None => swap[f] # Torn /\ (Journalled(f) => swap[f].new # None)
    /\ Writing(f) =>
        /\ writing.step = "journal" => file[f] # None /\ swap[f] = Torn
        /\ writing.step = "swap" =>
            file[f] # None /\ swap[f] = [new |-> writing.value, old |-> None]
        /\ writing.step = "moved" =>
            /\ file[f] = None /\ Journalled(f)
            /\ swap[f].new = writing.value /\ swap[f].old # None
        /\ writing.step = "placed" => file[f] = writing.value /\ Journalled(f)
        /\ writing.step = "cleaned" => file[f] = writing.value

\* Which file a start is writing.
Places ==
    /\ Writing("migration") =>
        pc \in {"migration", "backup", "backed", "preserved", "reviewed", "register",
                "complete", "open", "exit"}
    /\ Writing("registry") =>
        pc \in {"registry", "open", "saved", "unmark", "activate", "up", "exit"}
    /\ Writing("marker") => pc \in {"marker", "fresh", "created", "committed"}

----------------------------------------------------------------------------
(* An empty data root, or one with a legacy database. *)

FreshPcs == {"fresh", "database", "created", "saved", "committed", "unmark"}
MigrationPcs == {"snapshot", "backup", "backed", "preserve", "preserved", "reviewed",
                 "target", "verify", "register", "activate", "complete", "fail"}

Worlds ==
    /\ source = None => Values("migration") = {} /\ swap.migration = None /\ pc \notin MigrationPcs
    /\ source # None =>
        /\ file.marker = None /\ swap.marker = None /\ ~Writing("marker")
        /\ pc \notin FreshPcs

MarkedWhenFresh == pc = "fresh" => Marked \/ Writing("marker")

\* A start that went past the migration state has it in its file.
MigrationLoaded ==
    pc \notin {"down", "migration", "exit"} => Loaded("migration")

RegistryThere ==
    /\ pc \in {"unmark", "activate", "complete", "open"} =>
        file.registry # None \/ Writing("registry")
    /\ pc = "up" =>
        file.registry # None \/ (Writing("registry") /\ writing.step = "moved")

MigrationThere == pc = "register" => Found("migration") \/ Writing("migration")

Placed ==
    /\ Places /\ Worlds /\ MarkedWhenFresh
    /\ MigrationLoaded /\ RegistryThere /\ MigrationThere

----------------------------------------------------------------------------
(* The migration. *)

Done(v) == v.phase = "Complete"

\* Before it is complete nobody works; a start that runs it is not complete.
Ahead ==
    /\ pc \in MigrationPcs => \A v \in Values("migration") : ~Done(v)
    /\ Writing("migration") /\ pc # "migration" =>
        /\ Done(writing.value) => pc = "open"
        /\ writing.step \in Early /\ Prior("migration") # None => ~Done(Prior("migration"))
    /\ Writing("migration") /\ pc = "migration" /\ writing.step \in Early =>
        file.migration = None /\ writing.step # "moved"
    /\ source # None /\ pc \in {"open", "up"} =>
        \/ Writing("migration") /\ Done(writing.value)
        \/ file.migration # None /\ Done(file.migration)
    /\ source # None => \A a \in Account :
        db[a] = Worked => file.migration # None /\ Done(file.migration)

\* What a complete migration leaves.
Left ==
    /\ \A v \in Values("migration") : Done(v) =>
        /\ v.target \in Account /\ db[v.target] \notin {None, Empty}
        /\ \A r \in Values("registry") : v.target \in r.known
    /\ source # None /\ Values("registry") # {} => Found("migration")

\* A database that is used is registered; the first start has one of its own.
Used ==
    /\ db[Other] = Worked => \A r \in Values("registry") : Other \in r.known
    /\ pc \in FreshPcs => db[Other] = None

Backups ==
    /\ backup # None => source # None /\ backup <= source
    /\ \A v \in Values("migration") \cup {mem} :
        v.backup # None => backup # None /\ v.backup <= backup

\* What a run of the migration knows.
Running ==
    /\ pc \in {"backup", "backed"} => mem.target # None
    /\ pc \in {"backed", "target", "verify", "register", "activate", "complete"} =>
        mem.backup = source /\ backup = source
    /\ pc \in {"target", "verify", "register", "activate", "complete"} => mem.target # None
    /\ pc \in {"verify", "register", "activate", "complete"} => db[mem.target] = source
    /\ pc = "open" /\ Writing("migration") =>
        /\ mem = writing.value /\ Done(mem) /\ mem.target # None
        /\ db[mem.target] = source /\ backup = source
        /\ file.registry # None /\ file.registry.active = mem.target
    /\ pc = "open" /\ ~Writing("migration") /\ Done(mem) => writing = Idle

FilesTyped ==
    /\ DOMAIN file = File /\ DOMAIN swap = File
    /\ \A f \in File : file[f] \in ValueOf(f) \cup {None}
    /\ \A f \in File : swap[f] \in {None, Torn} \cup Journal(f)
    /\ stray \subseteq ValueOf("registry") \cup {Torn}

WriteSteps == {"temp", "ready", "journal", "swap", "moved", "placed", "cleaned"}

WritingTyped ==
    writing = Idle \/ \E f \in File :
        writing \in [step : WriteSteps, file : {f}, value : ValueOf(f)]

Pcs == {"down", "exit", "migration", "marker", "registry", "decide", "open", "up"}
         \cup FreshPcs \cup MigrationPcs

RestTyped ==
    /\ source \in Legacy \cup {None} /\ owner \in Owner
    /\ backup \in Legacy \cup {None}
    /\ db \in [Account -> Content \cup {None}]
    /\ pc \in Pcs /\ mem \in State
    /\ faults \in 0..MaxFaults

\* The files and how one of them is written; the start and what it knows.
Storage == FilesTyped /\ WritingTyped /\ \A f \in File : Swapping(f)

Course ==
    /\ RestTyped
    /\ Placed /\ Ahead /\ Left /\ Used /\ Backups /\ Running

Invariant == Storage /\ Course

----------------------------------------------------------------------------
(* Files and the write in progress. *)

LEMMA Absent ==
    /\ None # Torn
    /\ \A f \in File : /\ None \notin ValueOf(f) /\ Torn \notin ValueOf(f)
                       /\ None \notin Journal(f) /\ Torn \notin Journal(f)
BY InstallAssumption DEF InstallAssumption

LEMMA Contents ==
    /\ ValueOf("marker") = MarkerPhase /\ ValueOf("migration") = State
    /\ ValueOf("registry") = {r \in Registry : {r.active, Default} \subseteq r.known}
    /\ "marker" \in File /\ "migration" \in File /\ "registry" \in File
BY DEF ValueOf, File

LEMMA WritingIs ==
    ASSUME WritingTyped, writing # Idle
    PROVE  /\ writing.file \in File /\ writing.value \in ValueOf(writing.file)
           /\ writing.step \in WriteSteps
           /\ writing = [step |-> writing.step, file |-> writing.file, value |-> writing.value]
BY DEF WritingTyped

LEMMA StepWrites ==
    ASSUME writing.step \in WriteSteps
    PROVE  writing # Idle
BY DEF WriteSteps, Idle

LEMMA NextStepIs ==
    ASSUME WritingTyped, writing # Idle, NEW step \in WriteSteps, NextStep(step)
    PROVE  /\ WritingTyped' /\ writing' # Idle /\ writing'.step = step
           /\ writing'.file = writing.file /\ writing'.value = writing.value
<1>1. writing' = [step |-> step, file |-> writing.file, value |-> writing.value]
  BY WritingIs DEF NextStep
<1> QED
  BY <1>1, WritingIs DEF WritingTyped, Idle, WriteSteps

\* What a step of a write may do to the files.
Outcome(f) ==
    /\ Swapping(f)'
    /\ Values(f)' \subseteq Values(f)
    /\ Found(f) => Found(f)'
    /\ Loaded(f) => Loaded(f)'
    /\ Writing(f)' => Writing(f) /\ writing'.value = writing.value
    /\ ~Writing(f) => file'[f] = file[f] /\ swap'[f] = swap[f]
    /\ Writing(f) => Writing(f)' \/ file'[f] = writing.value
    /\ Writing(f) => file'[f] \in {file[f], None, writing.value}
    /\ Writing(f)' /\ writing'.step \in Early =>
        /\ writing.step \in Early /\ Prior(f)' = Prior(f)
        /\ file[f] = None /\ writing.step # "moved" =>
            file'[f] = None /\ writing'.step # "moved"
    /\ Writing(f) /\ writing.step \notin Early => file'[f] = file[f]

\* The files that are not being written.
LEMMA Others ==
    ASSUME Storage, writing # Idle,
           NEW f \in File \ {writing.file},
           file'[f] = file[f], swap'[f] = swap[f],
           writing' = Idle \/ writing'.file = writing.file,
           stray' = stray \/ writing.file = "registry"
    PROVE  Outcome(f)
<1>1. ~Writing(f) /\ ~Writing(f)' /\ Swapping(f)
  BY DEF Writing, Storage
<1>2. Journalled(f)' <=> Journalled(f)
  BY DEF Journalled
<1>3. Swapping(f)'
  BY <1>1, <1>2 DEF Swapping
<1>4. OnDisk(f)' = OnDisk(f)
  BY <1>2 DEF OnDisk
<1>5. Values(f)' = Values(f)
  BY <1>1, <1>4 DEF Values
<1> QED
  BY <1>1, <1>2, <1>3, <1>5 DEF Outcome, Found, Loaded

LEMMA WriteTempDoes ==
    ASSUME Storage, WriteTemp
    PROVE  FilesTyped' /\ WritingTyped' /\ \A f \in File : Outcome(f)
<1>1. /\ writing.step = "temp" /\ writing # Idle /\ WritingTyped /\ FilesTyped
      /\ UNCHANGED <<file, swap, stray>>
  BY StepWrites DEF WriteTemp, InSwap, Storage, WriteSteps
<1>2. /\ WritingTyped' /\ writing' # Idle /\ writing'.step = "ready"
      /\ writing'.file = writing.file /\ writing'.value = writing.value
  BY <1>1, NextStepIs DEF WriteTemp, WriteSteps
<1>3. FilesTyped'
  BY <1>1 DEF FilesTyped
<1>4. ASSUME NEW f \in File, f = writing.file
      PROVE  Outcome(f)
  <2>1. Writing(f) /\ Writing(f)' /\ (Journalled(f)' <=> Journalled(f))
    BY <1>1, <1>2, <1>4 DEF Writing, Journalled
  <2>2. Swapping(f)'
    BY <1>1, <1>2, <2>1 DEF Swapping, Storage
  <2>3. Values(f)' = Values(f)
    BY <1>1, <1>2, <2>1 DEF Values, OnDisk
  <2> QED
    BY <1>1, <1>2, <2>1, <2>2, <2>3 DEF Outcome, Found, Loaded, Prior, Early
<1>5. ASSUME NEW f \in File, f # writing.file
      PROVE  Outcome(f)
  BY <1>1, <1>2, <1>5, Others
<1> QED
  BY <1>2, <1>3, <1>4, <1>5

LEMMA ReplaceDoes ==
    ASSUME Storage, Replace
    PROVE  FilesTyped' /\ WritingTyped' /\ \A f \in File : Outcome(f)
<1>0. /\ writing.step = "ready" /\ writing # Idle /\ WritingTyped /\ FilesTyped
  BY StepWrites DEF Replace, InSwap, Storage, WriteSteps
<1> PICK g \in File : g = writing.file
  BY <1>0, WritingIs
<1>1. /\ writing.step = "ready" /\ writing # Idle /\ WritingTyped /\ FilesTyped
      /\ UNCHANGED <<swap, stray>> /\ file' = [file EXCEPT ![g] = writing.value]
      /\ g = writing.file /\ writing.value \in ValueOf(g) /\ writing.value # None
  BY <1>0, WritingIs, Absent DEF Replace
<1>2. \/ writing' = Idle /\ WritingTyped'
      \/ /\ WritingTyped' /\ writing' # Idle /\ writing'.step = "cleaned"
         /\ writing'.file = g /\ writing'.value = writing.value
  BY <1>1, NextStepIs DEF Replace, Written, WriteSteps, WritingTyped
<1>3. /\ DOMAIN file' = File /\ file'[g] = writing.value
      /\ \A f \in File \ {g} : file'[f] = file[f]
  BY <1>1 DEF FilesTyped
<1>4. FilesTyped'
  BY <1>1, <1>3 DEF FilesTyped
<1>5. Outcome(g)
  <2>1. Writing(g) /\ (Writing(g)' <=> writing' # Idle) /\ file'[g] # None
    BY <1>1, <1>2, <1>3 DEF Writing
  <2>2. Journalled(g)' <=> Journalled(g)
    BY <1>1 DEF Journalled
  <2>3. Swapping(g)'
    BY <1>1, <1>2, <1>3, <2>1, <2>2 DEF Swapping, Storage
  <2>4. Values(g)' \subseteq Values(g)
    BY <1>1, <1>2, <1>3, <2>1, <2>2 DEF Values, OnDisk
  <2> QED
    BY <1>1, <1>2, <1>3, <2>1, <2>2, <2>3, <2>4 DEF Outcome, Found, Loaded, Prior, Early
<1>6. ASSUME NEW f \in File, f # g
      PROVE  Outcome(f)
  BY <1>1, <1>2, <1>3, <1>6, Others
<1> QED
  BY <1>2, <1>4, <1>5, <1>6

\* A refused replacement: the journal is written over.
LEMMA BeginSwapDoes ==
    ASSUME Storage, BeginSwap
    PROVE  FilesTyped' /\ WritingTyped' /\ \A f \in File : Outcome(f)
<1>0. /\ writing.step = "ready" /\ writing # Idle /\ WritingTyped /\ FilesTyped
  BY StepWrites DEF BeginSwap, InSwap, Storage, WriteSteps
<1> PICK g \in File : g = writing.file
  BY <1>0, WritingIs
<1>a. Swapping(g) /\ Writing(g) /\ writing.value \in ValueOf(g) /\ writing.value # None
  BY <1>0, WritingIs, Absent DEF Storage, Writing
<1>2. /\ WritingTyped' /\ writing' # Idle /\ writing'.step = "journal"
      /\ writing'.file = g /\ writing'.value = writing.value
  BY <1>0, NextStepIs DEF BeginSwap, WriteSteps
<1>1. /\ file' = file /\ file[g] # None /\ swap' = [swap EXCEPT ![g] = Torn]
      /\ stray' = stray \cup Named(g)
  BY DEF BeginSwap
<1>3. /\ DOMAIN swap' = File /\ swap'[g] = Torn
      /\ \A f \in File \ {g} : swap'[f] = swap[f]
  BY <1>0, <1>1 DEF FilesTyped
<1>4. /\ g # "registry" => stray' = stray
      /\ stray' \subseteq ValueOf("registry") \cup {Torn}
  BY <1>0, <1>1 DEF Named, FilesTyped, Journal
<1>5. FilesTyped'
  BY <1>0, <1>1, <1>3, <1>4 DEF FilesTyped
<1>6. Outcome(g)
  <2>1. Writing(g)' /\ ~Journalled(g)'
    BY <1>2, <1>3 DEF Writing, Journalled
  <2>2. Swapping(g)'
    BY <1>1, <1>2, <1>3, <2>1 DEF Swapping
  <2>3. Values(g)' = Values(g)
    BY <1>1, <1>2, <1>a, <2>1 DEF Values, OnDisk
  <2> QED
    BY <1>0, <1>1, <1>2, <1>3, <1>a, <2>1, <2>2, <2>3 DEF Outcome, Found, Loaded, Prior, Early
<1>7. ASSUME NEW f \in File, f # g
      PROVE  Outcome(f)
  BY <1>0, <1>1, <1>2, <1>3, <1>4, <1>7, Others
<1> QED
  BY <1>2, <1>5, <1>6, <1>7

LEMMA WriteJournalDoes ==
    ASSUME Storage, WriteJournal
    PROVE  FilesTyped' /\ WritingTyped' /\ \A f \in File : Outcome(f)
<1>0. /\ writing.step = "journal" /\ writing # Idle /\ WritingTyped /\ FilesTyped
  BY StepWrites DEF WriteJournal, InSwap, Storage, WriteSteps
<1> PICK g \in File : g = writing.file
  BY <1>0, WritingIs
<1>a. Swapping(g) /\ Writing(g) /\ writing.value \in ValueOf(g) /\ writing.value # None
  BY <1>0, WritingIs, Absent DEF Storage, Writing
<1>2. /\ WritingTyped' /\ writing' # Idle /\ writing'.step = "swap"
      /\ writing'.file = g /\ writing'.value = writing.value
  BY <1>0, NextStepIs DEF WriteJournal, WriteSteps
<1>1. /\ file' = file /\ stray' = stray /\ file[g] # None
      /\ swap' = [swap EXCEPT ![g] = [new |-> writing.value, old |-> None]]
  BY <1>0, <1>a DEF WriteJournal, Swapping
<1>3. /\ DOMAIN swap' = File /\ swap'[g] = [new |-> writing.value, old |-> None]
      /\ \A f \in File \ {g} : swap'[f] = swap[f]
  BY <1>0, <1>1 DEF FilesTyped
<1>4. swap'[g] \in Journal(g) /\ swap'[g] \notin {None, Torn}
  BY <1>3, <1>a, Absent DEF Journal
<1>5. FilesTyped'
  BY <1>0, <1>1, <1>3, <1>4 DEF FilesTyped
<1>6. Outcome(g)
  <2>1. Writing(g)' /\ Journalled(g)'
    BY <1>2, <1>4 DEF Writing, Journalled
  <2>2. Swapping(g)'
    BY <1>1, <1>2, <1>3, <2>1 DEF Swapping
  <2>3. Values(g)' = Values(g)
    BY <1>1, <1>2, <1>a, <2>1 DEF Values, OnDisk
  <2> QED
    BY <1>0, <1>1, <1>2, <1>3, <1>a, <2>1, <2>2, <2>3 DEF Outcome, Found, Loaded, Prior, Early
<1>7. ASSUME NEW f \in File, f # g
      PROVE  Outcome(f)
  BY <1>0, <1>1, <1>2, <1>3, <1>7, Others
<1> QED
  BY <1>2, <1>5, <1>6, <1>7

LEMMA MoveAwayDoes ==
    ASSUME Storage, MoveAway
    PROVE  FilesTyped' /\ WritingTyped' /\ \A f \in File : Outcome(f)
<1>0. /\ writing.step = "swap" /\ writing # Idle /\ WritingTyped /\ FilesTyped
  BY StepWrites DEF MoveAway, InSwap, Storage, WriteSteps
<1> PICK g \in File : g = writing.file
  BY <1>0, WritingIs
<1>a. Swapping(g) /\ Writing(g) /\ writing.value \in ValueOf(g) /\ writing.value # None
  BY <1>0, WritingIs, Absent DEF Storage, Writing
<1>2. /\ WritingTyped' /\ writing' # Idle /\ writing'.step = "moved"
      /\ writing'.file = g /\ writing'.value = writing.value
  BY <1>0, NextStepIs DEF MoveAway, WriteSteps
<1>1. /\ stray' = stray /\ file[g] # None /\ file[g] \in ValueOf(g)
      /\ swap[g] = [new |-> writing.value, old |-> None]
      /\ file' = [file EXCEPT ![g] = None]
      /\ swap' = [swap EXCEPT ![g] = [swap[g] EXCEPT !.old = file[g]]]
  BY <1>0, <1>a DEF MoveAway, Swapping, FilesTyped
<1>3. /\ DOMAIN swap' = File /\ swap'[g] = [new |-> writing.value, old |-> file[g]]
      /\ DOMAIN file' = File /\ file'[g] = None
      /\ \A f \in File \ {g} : swap'[f] = swap[f] /\ file'[f] = file[f]
  BY <1>0, <1>1 DEF FilesTyped
<1>4. swap'[g] \in Journal(g) /\ swap'[g] \notin {None, Torn}
  BY <1>1, <1>3, <1>a, Absent DEF Journal
<1>5. FilesTyped'
  BY <1>0, <1>1, <1>3, <1>4 DEF FilesTyped
<1>6. Outcome(g)
  <2>1. Writing(g)' /\ Journalled(g)'
    BY <1>2, <1>4 DEF Writing, Journalled
  <2>2. Swapping(g)'
    BY <1>1, <1>2, <1>3, <1>4, <1>a, <2>1 DEF Swapping
  <2>3. Values(g)' \subseteq Values(g)
    BY <1>1, <1>2, <1>3, <1>a, <2>1 DEF Values, OnDisk
  <2>4. Prior(g)' = Prior(g)
    BY <1>0, <1>1, <1>2, <1>3 DEF Prior
  <2> QED
    BY <1>0, <1>1, <1>2, <1>3, <1>a, <2>1, <2>2, <2>3, <2>4 DEF Outcome, Found, Loaded, Early
<1>7. ASSUME NEW f \in File, f # g
      PROVE  Outcome(f)
  BY <1>0, <1>1, <1>2, <1>3, <1>7, Others
<1> QED
  BY <1>2, <1>5, <1>6, <1>7

LEMMA MoveInDoes ==
    ASSUME Storage, MoveIn
    PROVE  FilesTyped' /\ WritingTyped' /\ \A f \in File : Outcome(f)
<1>0. /\ writing.step = "moved" /\ writing # Idle /\ WritingTyped /\ FilesTyped
  BY StepWrites DEF MoveIn, InSwap, Storage, WriteSteps
<1> PICK g \in File : g = writing.file
  BY <1>0, WritingIs
<1>a. Swapping(g) /\ Writing(g) /\ writing.value \in ValueOf(g) /\ writing.value # None
  BY <1>0, WritingIs, Absent DEF Storage, Writing
<1>2. /\ WritingTyped' /\ writing' # Idle /\ writing'.step = "placed"
      /\ writing'.file = g /\ writing'.value = writing.value
  BY <1>0, NextStepIs DEF MoveIn, WriteSteps
<1>1. /\ stray' = stray /\ swap[g] \in Journal(g)
      /\ file' = [file EXCEPT ![g] = writing.value]
      /\ swap' = [swap EXCEPT ![g] = [swap[g] EXCEPT !.new = None]]
  BY <1>0, <1>a DEF MoveIn, Swapping, FilesTyped, Journalled
<1>3. /\ DOMAIN swap' = File /\ swap'[g] = [new |-> None, old |-> swap[g].old]
      /\ DOMAIN file' = File /\ file'[g] = writing.value
      /\ \A f \in File \ {g} : swap'[f] = swap[f] /\ file'[f] = file[f]
  BY <1>0, <1>1 DEF FilesTyped, Journal
<1>4. swap'[g] \in Journal(g) /\ swap'[g] \notin {None, Torn}
  BY <1>1, <1>3, <1>a, Absent DEF Journal
<1>5. FilesTyped'
  BY <1>0, <1>1, <1>3, <1>4, <1>a DEF FilesTyped
<1>6. Outcome(g)
  <2>1. Writing(g)' /\ Journalled(g)'
    BY <1>2, <1>4 DEF Writing, Journalled
  <2>2. Swapping(g)'
    BY <1>1, <1>2, <1>3, <1>4, <1>a, <2>1 DEF Swapping
  <2>3. Values(g)' \subseteq Values(g)
    BY <1>1, <1>2, <1>3, <1>a, <2>1 DEF Values, OnDisk
  <2> QED
    BY <1>0, <1>1, <1>2, <1>3, <1>a, <2>1, <2>2, <2>3 DEF Outcome, Found, Loaded, Early
<1>7. ASSUME NEW f \in File, f # g
      PROVE  Outcome(f)
  BY <1>0, <1>1, <1>2, <1>3, <1>7, Others
<1> QED
  BY <1>2, <1>5, <1>6, <1>7

LEMMA DropOldDoes ==
    ASSUME Storage, DropOld
    PROVE  FilesTyped' /\ WritingTyped' /\ \A f \in File : Outcome(f)
<1>0. /\ writing.step = "placed" /\ writing # Idle /\ WritingTyped /\ FilesTyped
  BY StepWrites DEF DropOld, InSwap, Storage, WriteSteps
<1> PICK g \in File : g = writing.file
  BY <1>0, WritingIs
<1>a. Swapping(g) /\ Writing(g) /\ writing.value \in ValueOf(g) /\ writing.value # None
  BY <1>0, WritingIs, Absent DEF Storage, Writing
<1>2. /\ WritingTyped' /\ writing' # Idle /\ writing'.step = "cleaned"
      /\ writing'.file = g /\ writing'.value = writing.value
  BY <1>0, NextStepIs DEF DropOld, WriteSteps
<1>1. /\ stray' = stray /\ file' = file /\ swap[g] \in Journal(g) /\ file[g] = writing.value
      /\ swap' = [swap EXCEPT ![g] = [swap[g] EXCEPT !.old = None]]
  BY <1>0, <1>a DEF DropOld, Swapping, FilesTyped, Journalled
<1>3. /\ DOMAIN swap' = File /\ swap'[g] = [new |-> swap[g].new, old |-> None]
      /\ \A f \in File \ {g} : swap'[f] = swap[f]
  BY <1>0, <1>1 DEF FilesTyped, Journal
<1>4. swap'[g] \in Journal(g) /\ swap'[g] \notin {None, Torn}
  BY <1>1, <1>3, Absent DEF Journal
<1>5. FilesTyped'
  BY <1>0, <1>1, <1>3, <1>4 DEF FilesTyped
<1>6. Outcome(g)
  <2>1. Writing(g)' /\ Journalled(g)'
    BY <1>2, <1>4 DEF Writing, Journalled
  <2>2. Swapping(g)'
    BY <1>1, <1>2, <1>3, <1>4, <1>a, <2>1 DEF Swapping
  <2>3. Values(g)' \subseteq Values(g)
    BY <1>1, <1>2, <1>3, <1>a, <2>1 DEF Values, OnDisk
  <2> QED
    BY <1>0, <1>1, <1>2, <1>3, <1>a, <2>1, <2>2, <2>3 DEF Outcome, Found, Loaded, Early
<1>7. ASSUME NEW f \in File, f # g
      PROVE  Outcome(f)
  BY <1>0, <1>1, <1>2, <1>3, <1>7, Others
<1> QED
  BY <1>2, <1>5, <1>6, <1>7

LEMMA DropJournalDoes ==
    ASSUME Storage, DropJournal
    PROVE  FilesTyped' /\ WritingTyped' /\ \A f \in File : Outcome(f)
<1>0. /\ writing.step = "cleaned" /\ writing # Idle /\ WritingTyped /\ FilesTyped
  BY StepWrites DEF DropJournal, InSwap, Storage, WriteSteps
<1> PICK g \in File : g = writing.file
  BY <1>0, WritingIs
<1>a. Swapping(g) /\ Writing(g) /\ writing.value \in ValueOf(g) /\ writing.value # None
  BY <1>0, WritingIs, Absent DEF Storage, Writing
<1>1. /\ file' = file /\ swap' = [swap EXCEPT ![g] = None] /\ writing' = Idle
      /\ stray' = stray \cup Named(g) /\ file[g] = writing.value
  BY <1>0, <1>a DEF DropJournal, Written, Swapping
<1>3. /\ DOMAIN swap' = File /\ swap'[g] = None
      /\ \A f \in File \ {g} : swap'[f] = swap[f]
  BY <1>0, <1>1 DEF FilesTyped
<1>4. /\ g # "registry" => stray' = stray
      /\ stray' \subseteq ValueOf("registry") \cup {Torn}
  BY <1>0, <1>1 DEF Named, FilesTyped, Journal
<1>5. FilesTyped' /\ WritingTyped'
  BY <1>0, <1>1, <1>3, <1>4 DEF FilesTyped, WritingTyped
<1>6. Outcome(g)
  <2>1. ~Writing(g)' /\ ~Journalled(g)'
    BY <1>1, <1>3 DEF Writing, Journalled
  <2>2. Swapping(g)'
    BY <1>1, <1>3, <1>a, <2>1 DEF Swapping
  <2>3. Values(g)' \subseteq Values(g)
    BY <1>1, <1>a, <2>1 DEF Values, OnDisk
  <2> QED
    BY <1>0, <1>1, <1>3, <1>a, <2>1, <2>2, <2>3 DEF Outcome, Found, Loaded, Early
<1>7. ASSUME NEW f \in File, f # g
      PROVE  Outcome(f)
  BY <1>0, <1>1, <1>3, <1>4, <1>7, Others
<1> QED
  BY <1>5, <1>6, <1>7

LEMMA WriteStepDoes ==
    ASSUME Storage, WriteStep
    PROVE  Storage' /\ \A f \in File : Outcome(f)
<1>1. FilesTyped' /\ WritingTyped' /\ \A f \in File : Outcome(f)
  BY WriteTempDoes, ReplaceDoes, BeginSwapDoes, WriteJournalDoes, MoveAwayDoes, MoveInDoes,
     DropOldDoes, DropJournalDoes DEF WriteStep
<1> QED
  BY <1>1 DEF Storage, Outcome

----------------------------------------------------------------------------
(* What the files hold, and what saving one and leaving all of them means. *)

LEMMA FilesAre ==
    ASSUME Storage, NEW f \in File
    PROVE  /\ Values(f) \subseteq ValueOf(f)
           /\ file[f] # None => file[f] \in Values(f) /\ file[f] \in ValueOf(f) /\ Found(f)
           /\ ~Writing(f) /\ file[f] # None => Values(f) = {file[f]}
           /\ ~Writing(f) /\ file[f] = None /\ swap[f] = None /\ f # "registry" => Values(f) = {}
           /\ Writing(f) => writing # Idle /\ writing.value \in Values(f)
                            /\ writing.value \in ValueOf(f)
<1>1. Writing(f) => writing # Idle /\ writing.value \in ValueOf(f)
  BY WritingIs DEF Writing, Storage
<1>2. /\ file[f] \in ValueOf(f) \cup {None} /\ stray \subseteq ValueOf("registry") \cup {Torn}
      /\ Journalled(f) => swap[f].new \in ValueOf(f) \cup {None}
                          /\ swap[f].old \in ValueOf(f) \cup {None}
  BY DEF Storage, FilesTyped, Journalled, Journal
<1>3. OnDisk(f) \subseteq ValueOf(f)
  BY <1>2 DEF OnDisk
<1>4. /\ file[f] # None => OnDisk(f) = {file[f]}
      /\ file[f] = None /\ swap[f] = None /\ f # "registry" => OnDisk(f) = {}
  BY DEF OnDisk, Journalled
<1> QED
  BY <1>1, <1>2, <1>3, <1>4 DEF Values, Found

\* A file that a step leaves alone.
Same(f) ==
    /\ file'[f] = file[f] /\ swap'[f] = swap[f]
    /\ Values(f)' = Values(f)
    /\ Found(f)' <=> Found(f)
    /\ Loaded(f)' <=> Loaded(f)
    /\ Writing(f)' <=> Writing(f)

LEMMA FilesSame ==
    ASSUME Storage, UNCHANGED <<file, swap, stray, writing>>
    PROVE  Storage' /\ \A f \in File : Same(f)
<1>1. FilesTyped' /\ WritingTyped'
  BY DEF Storage, FilesTyped, WritingTyped
<1>2. ASSUME NEW f \in File
      PROVE  Swapping(f)' /\ Same(f)
  <2>1. (Journalled(f)' <=> Journalled(f)) /\ (Writing(f)' <=> Writing(f))
    BY DEF Journalled, Writing
  <2>2. Swapping(f)'
    BY <2>1 DEF Storage, Swapping
  <2>3. Values(f)' = Values(f)
    BY <2>1 DEF Values, OnDisk
  <2> QED
    BY <2>1, <2>2, <2>3 DEF Same, Found, Loaded
<1> QED
  BY <1>1, <1>2 DEF Storage

\* A write that begins.
Saved(f, v) ==
    /\ file'[f] = file[f] /\ swap'[f] = swap[f]
    /\ Values(f)' = Values(f) \cup {v}
    /\ Found(f)' <=> Found(f)
    /\ Loaded(f)' <=> Loaded(f)
    /\ Writing(f)' /\ ~Writing(f)
    /\ writing' # Idle /\ writing'.step = "temp" /\ writing'.value = v

LEMMA SaveDoes ==
    ASSUME Storage, writing = Idle, NEW f \in File, NEW v \in ValueOf(f),
           writing' = [step |-> "temp", file |-> f, value |-> v],
           UNCHANGED <<file, swap, stray>>
    PROVE  Storage' /\ Saved(f, v) /\ \A g \in File \ {f} : Same(g) /\ ~Writing(g)'
<1>1. FilesTyped' /\ WritingTyped' /\ writing' # Idle
  BY DEF Storage, FilesTyped, WritingTyped, WriteSteps, Idle
<1>2. /\ writing'.step = "temp" /\ writing'.file = f /\ writing'.value = v
      /\ \A g \in File : ~Writing(g) /\ (Writing(g)' <=> g = f)
  BY <1>1 DEF Writing
<1>3. \A g \in File : Journalled(g)' <=> Journalled(g)
  BY DEF Journalled
<1>4. \A g \in File : Swapping(g)'
  BY <1>2, <1>3 DEF Storage, Swapping
<1>5. \A g \in File : OnDisk(g)' = OnDisk(g)
  BY <1>3 DEF OnDisk
<1>6. \A g \in File : Values(g)' = Values(g) \cup (IF g = f THEN {v} ELSE {})
  BY <1>2, <1>5 DEF Values
<1>7. \A g \in File : (Found(g)' <=> Found(g)) /\ (Loaded(g)' <=> Loaded(g))
  BY <1>2, <1>3 DEF Found, Loaded
<1>8. Saved(f, v)
  BY <1>1, <1>2, <1>6, <1>7 DEF Saved
<1>9. ASSUME NEW g \in File \ {f}
      PROVE  Same(g) /\ ~Writing(g)'
  <2>1. Values(g)' = Values(g)
    BY <1>6
  <2> QED
    BY <1>2, <1>7, <2>1 DEF Same
<1> QED
  BY <1>1, <1>4, <1>8, <1>9 DEF Storage

\* The process ends, in the middle of a write or not.
LEMMA EndDoes ==
    ASSUME Storage, UNCHANGED <<file, swap>>, writing' = Idle,
           \/ stray' = stray /\ writing = Idle
           \/ \E left \in CutShort : stray' = stray \cup left
    PROVE  /\ Storage'
           /\ \A f \in File : /\ Values(f)' \subseteq Values(f) /\ ~Writing(f)'
                              /\ Found(f)' <=> Found(f)
<1>1. /\ writing = Idle \/ writing.file # "registry" => stray' = stray
      /\ writing # Idle /\ writing.file = "registry" =>
            /\ writing.value \in ValueOf("registry")
            /\ stray' \subseteq stray \cup {writing.value, Torn}
  BY WritingIs DEF CutShort, InSwap, Storage
<1>2. stray' \subseteq ValueOf("registry") \cup {Torn}
  BY <1>1 DEF Storage, FilesTyped
<1>3. FilesTyped' /\ WritingTyped'
  BY <1>2 DEF Storage, FilesTyped, WritingTyped
<1>4. ASSUME NEW f \in File
      PROVE  /\ Swapping(f)' /\ Values(f)' \subseteq Values(f) /\ ~Writing(f)'
             /\ Found(f)' <=> Found(f)
  <2>1. ~Writing(f)' /\ (Journalled(f)' <=> Journalled(f))
    BY DEF Writing, Journalled
  <2>2. Swapping(f)'
    BY <2>1 DEF Storage, Swapping
  <2>3. OnDisk(f)' \subseteq OnDisk(f) \cup (IF Writing(f) THEN {writing.value} ELSE {})
    BY <1>1, <2>1 DEF OnDisk, Writing
  <2> QED
    BY <2>1, <2>2, <2>3 DEF Values, Found
<1> QED
  BY <1>3, <1>4 DEF Storage

\* A write that fails leaves what was there before.
LEMMA WriteFailsDoes ==
    ASSUME Storage, WriteFails
    PROVE  /\ Storage' /\ writing' = Idle /\ writing # Idle /\ writing.step \in Early
           /\ \A f \in File :
                /\ Values(f)' \subseteq Values(f) /\ ~Writing(f)'
                /\ Found(f) => Found(f)'
                /\ Loaded(f) => Loaded(f)'
                /\ ~Writing(f) => file'[f] = file[f] /\ swap'[f] = swap[f]
                /\ Writing(f) => file'[f] = Prior(f)
                /\ Writing(f) /\ writing.step = "moved" => file'[f] # None
<1>0. /\ writing.step \in Early /\ writing # Idle
      /\ WritingTyped /\ FilesTyped /\ writing' = Idle
  BY StepWrites DEF WriteFails, InSwap, Written, Storage, WriteSteps, Early
<1> PICK g \in File : g = writing.file
  BY <1>0, WritingIs
<1>a. Swapping(g) /\ Writing(g) /\ (\A f \in File : Writing(f) <=> f = g)
  BY <1>0 DEF Storage, Writing
<1>b. \A f \in File : ~Writing(f)'
  BY <1>0 DEF Writing
<1>c. writing.value \in ValueOf(g) /\ writing.value # None
  BY <1>0, WritingIs, Absent
<1>1. CASE writing.step \in {"temp", "ready", "journal"}
  <2>1. file' = file /\ swap' = swap
    BY <1>1 DEF WriteFails, InSwap
  <2>2. \/ stray' = stray
        \/ g = "registry" /\ stray' \subseteq stray \cup {writing.value, Torn}
    BY <1>1 DEF WriteFails, InSwap, CutShort
  <2>3. \A f \in File : Journalled(f)' <=> Journalled(f)
    BY <2>1 DEF Journalled
  <2>4. FilesTyped' /\ WritingTyped'
    BY <1>0, <1>c, <2>1, <2>2 DEF FilesTyped, WritingTyped
  <2>5. \A f \in File : Swapping(f)'
    BY <1>b, <2>1, <2>3 DEF Swapping, Storage
  <2>6. ASSUME NEW f \in File
        PROVE  Values(f)' \subseteq Values(f)
    <3>1. OnDisk(f)' \subseteq OnDisk(f) \cup (IF f = g THEN {writing.value} ELSE {})
      BY <2>1, <2>2, <2>3 DEF OnDisk
    <3> QED
      BY <1>a, <1>b, <3>1 DEF Values
  <2> QED
    BY <1>0, <1>1, <1>a, <1>b, <2>1, <2>3, <2>4, <2>5, <2>6
       DEF Storage, Found, Loaded, Prior
<1>3. CASE writing.step = "swap"
  <2>1. /\ file[g] # None /\ swap[g] = [new |-> writing.value, old |-> None]
        /\ file' = file /\ stray' = stray
        /\ swap' = [swap EXCEPT ![g] = [swap[g] EXCEPT !.new = None]]
    BY <1>3, <1>a DEF WriteFails, InSwap, Swapping
  <2>2. /\ DOMAIN swap' = File /\ swap'[g] = [new |-> None, old |-> None]
        /\ \A f \in File \ {g} : swap'[f] = swap[f]
    BY <1>0, <2>1 DEF FilesTyped
  <2>3. swap'[g] \in Journal(g) /\ swap'[g] \notin {None, Torn}
    BY <2>2, Absent DEF Journal
  <2>4. FilesTyped' /\ WritingTyped'
    BY <1>0, <2>1, <2>2, <2>3 DEF FilesTyped, WritingTyped
  <2>5. \A f \in File \ {g} : (Journalled(f)' <=> Journalled(f)) /\ OnDisk(f)' = OnDisk(f)
    BY <2>1, <2>2 DEF Journalled, OnDisk
  <2>6. Swapping(g)' /\ Values(g)' \subseteq Values(g)
    BY <1>a, <1>b, <2>1, <2>2 DEF Swapping, Values, OnDisk
  <2>7. \A f \in File \ {g} : Swapping(f)' /\ Values(f)' \subseteq Values(f)
    BY <1>b, <2>1, <2>2, <2>5 DEF Swapping, Values, Storage
  <2>8. \A f \in File : Values(f)' \subseteq Values(f) /\ (Found(f) => Found(f)')
                        /\ (Loaded(f) => Loaded(f)')
    BY <1>3, <1>b, <2>1, <2>2, <2>5, <2>6, <2>7 DEF Found, Loaded
  <2> QED
    BY <1>0, <1>3, <1>a, <1>b, <2>1, <2>2, <2>4, <2>6, <2>7, <2>8 DEF Storage, Prior
<1>2. CASE writing.step = "moved"
  <2>1. /\ file[g] = None /\ Journalled(g) /\ swap[g] \in Journal(g) /\ swap[g].old # None
        /\ stray' = stray
        /\ file' = [file EXCEPT ![g] = swap[g].old]
        /\ swap' = [swap EXCEPT ![g] = None]
    BY <1>0, <1>2, <1>a DEF WriteFails, InSwap, Swapping, FilesTyped, Journalled
  <2>2. /\ DOMAIN file' = File /\ DOMAIN swap' = File
        /\ file'[g] = swap[g].old /\ swap'[g] = None /\ file'[g] \in ValueOf(g)
        /\ \A f \in File \ {g} : file'[f] = file[f] /\ swap'[f] = swap[f]
    BY <1>0, <2>1 DEF FilesTyped, Journal
  <2>3. FilesTyped' /\ WritingTyped'
    BY <1>0, <2>1, <2>2 DEF FilesTyped, WritingTyped
  <2>4. \A f \in File \ {g} : (Journalled(f)' <=> Journalled(f)) /\ OnDisk(f)' = OnDisk(f)
    BY <1>0, <2>1, <2>2 DEF Journalled, OnDisk
  <2>5. Swapping(g)' /\ Values(g)' \subseteq Values(g)
    BY <1>b, <2>1, <2>2 DEF Swapping, Values, OnDisk
  <2>6. \A f \in File \ {g} : Swapping(f)' /\ Values(f)' \subseteq Values(f)
    BY <1>b, <2>2, <2>4 DEF Swapping, Values, Storage
  <2> QED
    BY <1>0, <1>2, <1>a, <1>b, <2>1, <2>2, <2>3, <2>4, <2>5, <2>6
       DEF Storage, Found, Loaded, Prior, Early
<1> QED
  BY <1>0, <1>1, <1>2, <1>3 DEF Early

----------------------------------------------------------------------------
(* The steps of a write and the end of a process preserve the invariant. *)

\* Nobody writes the migration state after a migration that is complete.
LEMMA DoneIsLeft ==
    ASSUME Storage, Ahead, Writing("migration"), writing.step \in Early,
           file.migration # None
    PROVE  ~Done(file.migration)
<1>1. CASE writing.step = "moved"
  BY <1>1, Contents DEF Storage, Swapping
<1>2. CASE writing.step # "moved"
  BY <1>2 DEF Ahead, Prior
<1> QED
  BY <1>1, <1>2

LEMMA WriteStepKeeps ==
    ASSUME Invariant, WriteStep
    PROVE  Invariant'
<1>1. Storage' /\ \A f \in File : Outcome(f)
  BY WriteStepDoes DEF Invariant
<1>2. Storage /\ Course /\ UNCHANGED <<source, owner, backup, db, pc, mem>>
  BY DEF Invariant, WriteStep
<1>3. writing # Idle
  BY StepWrites DEF WriteStep, WriteTemp, Replace, BeginSwap, WriteJournal, MoveAway, MoveIn,
     DropOld, DropJournal, InSwap, WriteSteps
<1>4. \A f, g \in File : Writing(f) /\ Writing(g) => f = g
  BY DEF Writing
<1>5. writing' = Idle \/ \E f \in File : Writing(f)' /\ Writing(f)
  BY <1>1, Contents, WritingIs DEF Storage, WritingTyped, Writing, Outcome
<1>m. Outcome("marker") /\ Outcome("migration") /\ Outcome("registry")
  BY <1>1, Contents
<1>n. Swapping("migration") /\ Swapping("migration")' /\ Swapping("registry")'
      /\ Swapping("registry")
  BY <1>1, <1>2, Contents DEF Storage
<1>v. \A f \in File : Writing(f) => writing.value # None
  BY <1>2, WritingIs, Absent DEF Storage, Writing
<1>6. RestTyped'
  <2>1. faults' \in 0..MaxFaults
    BY <1>2, InstallAssumption DEF Course, RestTyped, WriteStep, WriteTemp, Replace, BeginSwap,
       WriteJournal, MoveAway, MoveIn, DropOld, DropJournal, Fault, NoFault, InstallAssumption
  <2> QED
    BY <1>2, <2>1 DEF Course, RestTyped
<1>7. Placed'
  <2>1. Places'
    BY <1>2, <1>m DEF Outcome, Course, Placed, Places
  <2>2. Worlds'
    <3>1. source = None => ~Writing("migration")
      BY <1>2 DEF Course, Placed, Worlds, Values
    <3> QED
      BY <1>2, <1>m, <3>1 DEF Outcome, Course, Placed, Worlds
  <2>3. MarkedWhenFresh'
    BY <1>2, <1>m, <1>v, Contents DEF Outcome, Course, Placed, MarkedWhenFresh, Marked
  <2>4. MigrationLoaded' /\ MigrationThere'
    BY <1>2, <1>m, <1>v, Contents DEF Outcome, Course, Placed, MigrationLoaded, MigrationThere, Found
  <2>5. RegistryThere'
    <3>1. file.registry # None \/ Writing("registry")
            => file'.registry # None \/ Writing("registry")'
      BY <1>m, <1>v, Contents DEF Outcome
    <3>2. file.registry # None \/ (Writing("registry") /\ writing.step = "moved")
            => file'.registry # None \/ (Writing("registry")' /\ writing'.step = "moved")
      <4>1. Writing("registry")' /\ writing'.step \notin Early => file'.registry # None
        <5>1. ASSUME Writing("registry")', writing'.step \notin Early
              PROVE  writing'.step \in {"placed", "cleaned"} /\ writing'.value = writing.value
                     /\ writing.value # None
          BY <1>1, <1>m, <1>v, <5>1, Contents
             DEF Outcome, Early, WriteSteps, Storage, WritingTyped, Writing
        <5> QED
          BY <1>n, <5>1 DEF Swapping
      <4> QED
        BY <1>m, <1>n, <1>v, <4>1, Contents DEF Outcome, Swapping, Prior
    <3> QED
      BY <1>2, <3>1, <3>2 DEF Course, Placed, RegistryThere
  <2> QED
    BY <2>1, <2>2, <2>3, <2>4, <2>5 DEF Placed
<1>8. file.migration # None /\ Done(file.migration) => pc \in MigrationPcs \/ file'.migration = file.migration
  <2>1. Writing("migration") /\ writing.step \in Early /\ file.migration # None
          => ~Done(file.migration)
    BY <1>2, DoneIsLeft DEF Course
  <2> QED
    BY <1>m, <2>1 DEF Outcome
<1>d. \A v \in Values("migration")' : v \in Values("migration")
  BY <1>m DEF Outcome
<1>r. \A v \in Values("registry")' : v \in Values("registry")
  BY <1>m DEF Outcome
<1>9. Ahead'
  <2>1. pc' \in MigrationPcs => \A v \in Values("migration")' : ~Done(v)
    BY <1>2, <1>d DEF Course, Ahead
  <2>2. Writing("migration")' /\ pc' # "migration" =>
          /\ Done(writing'.value) => pc' = "open"
          /\ writing'.step \in Early /\ Prior("migration")' # None => ~Done(Prior("migration")')
    BY <1>2, <1>m DEF Outcome, Course, Ahead
  <2>3. Writing("migration")' /\ pc' = "migration" /\ writing'.step \in Early =>
          file'.migration = None /\ writing'.step # "moved"
    BY <1>2, <1>m DEF Outcome, Course, Ahead
  <2>4. source' # None /\ pc' \in {"open", "up"} =>
          \/ Writing("migration")' /\ Done(writing'.value)
          \/ file'.migration # None /\ Done(file'.migration)
    <3>1. source' # None /\ pc' \in {"open", "up"} =>
            \/ Writing("migration") /\ Done(writing.value)
            \/ file.migration # None /\ Done(file.migration)
      BY <1>2 DEF Course, Ahead
    <3> QED
      BY <1>2, <1>m, <1>v, <1>8, <3>1, Contents DEF Outcome, MigrationPcs
  <2>5. source' # None => \A a \in Account :
          db'[a] = Worked => file'.migration # None /\ Done(file'.migration)
    <3>1. pc \in MigrationPcs /\ file.migration # None => ~Done(file.migration)
      BY <1>2, FilesAre, Contents DEF Course, Ahead
    <3> QED
      BY <1>2, <1>8, <3>1 DEF Course, Ahead
  <2> QED
    BY <2>1, <2>2, <2>3, <2>4, <2>5 DEF Ahead
<1>10. Left' /\ Used' /\ Backups'
  <2>1. Left'
    BY <1>2, <1>m, <1>d, <1>r DEF Outcome, Course, Left
  <2>2. Used'
    BY <1>2, <1>r DEF Course, Used
  <2>3. Backups'
    BY <1>2, <1>d DEF Course, Backups
  <2> QED
    BY <2>1, <2>2, <2>3
<1>11. Running'
  <2>1. pc' = "open" /\ Writing("migration")' =>
          /\ mem' = writing'.value /\ Done(mem') /\ mem'.target # None
          /\ db'[mem'.target] = source' /\ backup' = source'
          /\ file'.registry # None /\ file'.registry.active = mem'.target
    BY <1>2, <1>m, <1>4, Contents DEF Outcome, Course, Running
  <2>2. pc' = "open" /\ ~Writing("migration")' /\ Done(mem') => writing' = Idle
    BY <1>2, <1>3, <1>4, <1>5, Contents DEF Course, Running
  <2> QED
    BY <1>2, <2>1, <2>2 DEF Course, Running
<1> QED
  BY <1>1, <1>2, <1>6, <1>7, <1>9, <1>10, <1>11 DEF Invariant, Course

LEMMA WriteFailsKeeps ==
    ASSUME Invariant, WriteFails
    PROVE  Invariant'
<1>1. Storage /\ Course /\ UNCHANGED <<source, owner, backup, db, mem>> /\ Fault
  BY DEF Invariant, WriteFails
<1>2. /\ Storage' /\ writing' = Idle /\ writing # Idle /\ writing.step \in Early
      /\ \A f \in File :
           /\ Values(f)' \subseteq Values(f) /\ ~Writing(f)'
           /\ Found(f) => Found(f)'
           /\ Loaded(f) => Loaded(f)'
           /\ ~Writing(f) => file'[f] = file[f] /\ swap'[f] = swap[f]
           /\ Writing(f) => file'[f] = Prior(f)
           /\ Writing(f) /\ writing.step = "moved" => file'[f] # None
  BY <1>1, WriteFailsDoes
<1>3. pc' = IF Migrating THEN "fail" ELSE IF pc = "up" THEN "up" ELSE "exit"
  BY DEF WriteFails, GoTo
<1>4. \A f, g \in File : Writing(f) /\ Writing(g) => f = g
  BY DEF Writing
<1>d. \A v \in Values("migration")' : v \in Values("migration")
  BY <1>2, Contents
<1>r. \A v \in Values("registry")' : v \in Values("registry")
  BY <1>2, Contents
<1>5. file.migration # None /\ Done(file.migration) =>
        pc \in MigrationPcs \/ file'.migration = file.migration
  BY <1>1, <1>2, DoneIsLeft, Contents DEF Course
<1>6. pc' \in Pcs /\ faults' \in 0..MaxFaults
  BY <1>1, <1>3, InstallAssumption DEF Pcs, MigrationPcs, Course, RestTyped, Fault, InstallAssumption
<1>7. RestTyped'
  BY <1>1, <1>6 DEF Course, RestTyped
<1>8. pc' = "fail" => source # None
  BY <1>1, <1>2, <1>3, Contents DEF Migrating, Course, Placed, Worlds, MigrationPcs, Running, Values, Done
<1>9. Placed'
  <2>1. Places' /\ MarkedWhenFresh' /\ MigrationThere'
    BY <1>2, <1>3, Contents DEF Places, MarkedWhenFresh, MigrationThere
  <2>2. Worlds'
    <3>1. source = None => ~Writing("migration")
      BY <1>1 DEF Course, Placed, Worlds, Values
    <3> QED
      BY <1>1, <1>2, <1>3, <1>8, <1>d, <3>1, Contents DEF Course, Placed, Worlds, FreshPcs, MigrationPcs
  <2>3. MigrationLoaded'
    BY <1>1, <1>2, <1>3, Contents DEF Course, Placed, MigrationLoaded, Migrating
  <2>4. RegistryThere'
    <3>1. pc' = "up" => file'.registry # None
      BY <1>1, <1>2, <1>3, Contents DEF Course, Placed, RegistryThere, Prior
    <3> QED
      BY <1>3, <3>1 DEF RegistryThere
  <2> QED
    BY <2>1, <2>2, <2>3, <2>4 DEF Placed
<1>10. Ahead'
  <2>1. pc' = "fail" => \A v \in Values("migration")' : ~Done(v)
    <3>1. CASE pc \in MigrationPcs
      BY <1>1, <1>d, <3>1 DEF Course, Ahead
    <3>2. CASE pc = "open" /\ Done(mem)
      <4>1. Writing("migration")
        BY <1>1, <1>2, <3>2 DEF Course, Running
      <4>2. file'.migration # None => ~Done(file'.migration)
        BY <1>1, <1>2, <3>2, <4>1, Contents DEF Course, Ahead
      <4>3. file'.migration # None => Values("migration")' = {file'.migration}
        BY <1>2, Contents DEF Values, OnDisk
      <4>4. file'.migration = None => Values("migration")' = {}
        <5>1. ASSUME file'.migration = None
              PROVE  file.migration = None /\ writing.step # "moved" /\ swap.migration = None
          BY <1>1, <1>2, <3>2, <4>1, <5>1, Contents DEF Prior, Course, Placed, MigrationLoaded, Loaded
        <5>2. ASSUME file'.migration = None
              PROVE  swap'.migration = None
          BY <1>1, <4>1, <5>1, <5>2, Contents DEF WriteFails, InSwap, Storage, Swapping
        <5> QED
          BY <1>2, <5>2, Contents DEF Values, OnDisk, Journalled
      <4> QED
        BY <4>2, <4>3, <4>4
    <3> QED
      BY <1>3, <3>1, <3>2 DEF Migrating, MigrationPcs, Done
  <2>2. source' # None => \A a \in Account :
          db'[a] = Worked => file'.migration # None /\ Done(file'.migration)
    <3>1. pc \in MigrationPcs /\ file.migration # None => ~Done(file.migration)
      BY <1>1, FilesAre, Contents DEF Course, Ahead
    <3> QED
      BY <1>1, <1>5, <3>1 DEF Course, Ahead
  <2>3. source' # None /\ pc' = "up" => file'.migration # None /\ Done(file'.migration)
    BY <1>1, <1>2, <1>3, Contents DEF Course, Placed, Places, Ahead
  <2> QED
    BY <1>2, <1>3, <2>1, <2>2, <2>3, Contents DEF Ahead, MigrationPcs
<1>11. Left' /\ Used' /\ Backups'
  <2>1. Left'
    BY <1>1, <1>2, <1>d, <1>r, Contents DEF Course, Left
  <2>2. Used'
    BY <1>1, <1>3, <1>r DEF Course, Used, FreshPcs
  <2>3. Backups'
    BY <1>1, <1>d DEF Course, Backups
  <2> QED
    BY <2>1, <2>2, <2>3
<1>12. Running'
  BY <1>3 DEF Running
<1> QED
  BY <1>2, <1>7, <1>9, <1>10, <1>11, <1>12 DEF Invariant, Course

\* A new process knows what is on disk, and nothing else.
LEMMA EndKeeps ==
    ASSUME Invariant, Exit \/ Crash
    PROVE  Invariant'
<1>1. Storage /\ Course /\ UNCHANGED <<file, swap, source, owner, backup, db>>
      /\ pc' = "down" /\ mem' = NewState /\ writing' = Idle
      /\ \/ stray' = stray /\ writing = Idle
         \/ \E left \in CutShort : stray' = stray \cup left
  BY DEF Invariant, Exit, Crash, Down, GoTo, At
<1>2. /\ Storage'
      /\ \A f \in File : /\ Values(f)' \subseteq Values(f) /\ ~Writing(f)'
                         /\ Found(f)' <=> Found(f)
  BY <1>1, EndDoes
<1>d. \A v \in Values("migration")' : v \in Values("migration")
  BY <1>2, Contents
<1>r. \A v \in Values("registry")' : v \in Values("registry")
  BY <1>2, Contents
<1>3. faults' \in 0..MaxFaults
  BY <1>1, InstallAssumption DEF Course, RestTyped, Exit, Crash, NoFault, Fault, InstallAssumption
<1>4. RestTyped'
  BY <1>1, <1>3, InstallAssumption DEF Course, RestTyped, Pcs, State, NewState
<1>5. Placed'
  BY <1>1, <1>2, <1>d, Contents
     DEF Course, Placed, Places, Worlds, MarkedWhenFresh, MigrationLoaded, RegistryThere,
         MigrationThere, FreshPcs, MigrationPcs
<1>6. Ahead'
  BY <1>1, <1>2, Contents DEF Course, Ahead, MigrationPcs
<1>7. Left' /\ Used'
  BY <1>1, <1>2, <1>d, <1>r, Contents DEF Course, Left, Used, FreshPcs
<1>8. Backups' /\ Running'
  BY <1>1, <1>d DEF Course, Backups, Running, NewState
<1> QED
  BY <1>2, <1>4, <1>5, <1>6, <1>7, <1>8 DEF Invariant, Course

----------------------------------------------------------------------------
(* A start loads the three files. *)

\* A step that moves the start on and changes nothing else.
LEMMA MoveOnKeeps ==
    ASSUME Invariant, UNCHANGED <<file, swap, stray, writing, source, owner, backup, db>>,
           \/ mem' \in {mem, NewState} \cup Values("migration")
           \/ mem' \in State /\ mem'.backup = mem.backup,
           pc' \in Pcs,
           faults' \in 0..MaxFaults,
           Placed',
           pc' \in MigrationPcs => pc \in MigrationPcs \/ \A v \in Values("migration") : ~Done(v),
           ~Writing("migration"),
           source # None /\ pc' \in {"open", "up"} => pc \in {"open", "up"},
           pc' \in FreshPcs => db[Other] = None,
           Running'
    PROVE  Invariant'
<1>1. Storage /\ Course
  BY DEF Invariant
<1>2. Storage' /\ \A f \in File : Same(f)
  BY <1>1, FilesSame
<1>m. Same("migration") /\ Same("registry")
  BY <1>2, Contents
<1>3. RestTyped'
  BY <1>1, FilesAre, Contents DEF Course, RestTyped, State, NewState
<1>4. Prior("migration")' = Prior("migration")
  BY DEF Prior
<1>5. Ahead'
  BY <1>1, <1>m, <1>4 DEF Course, Ahead, Same
<1>6. Left' /\ Used'
  BY <1>1, <1>m DEF Course, Left, Used, Same
<1>7. Backups'
  BY <1>1, <1>m DEF Course, Backups, Same, NewState
<1> QED
  BY <1>2, <1>3, <1>5, <1>6, <1>7 DEF Invariant, Course

\* The places of a start that is not writing.
LEMMA MoveOnPlaces ==
    ASSUME Invariant, writing = Idle, UNCHANGED <<file, swap, stray, writing, source>>
    PROVE  /\ \A f \in File : ~Writing(f) /\ ~Writing(f)'
           /\ Places'
           /\ (source = None => pc' \notin MigrationPcs)
              /\ (source # None => pc' \notin FreshPcs) => Worlds'
<1>1. \A f \in File : ~Writing(f) /\ ~Writing(f)'
  BY DEF Writing
<1>2. Storage /\ Course
  BY DEF Invariant
<1>3. Same("migration") /\ Same("marker")
  BY <1>2, FilesSame, Contents
<1> QED
  BY <1>1, <1>2, <1>3, Contents DEF Places, Worlds, Same, Course, Placed

LEMMA QuitKeeps ==
    ASSUME Invariant, writing = Idle, Quit
    PROVE  Invariant'
<1>1. /\ UNCHANGED <<file, swap, stray, writing, source, owner, backup, db, mem, faults>>
      /\ pc' = "exit"
  BY DEF Quit, GoTo, disk, NoFault
<1>2. Placed'
  BY <1>1, MoveOnPlaces, Contents
     DEF Placed, MarkedWhenFresh, MigrationLoaded, RegistryThere, MigrationThere,
         MigrationPcs, FreshPcs
<1>3. Running'
  BY <1>1 DEF Running
<1>4. ~Writing("migration")
  BY <1>1 DEF Writing
<1> QED
  BY <1>1, <1>2, <1>3, <1>4, MoveOnKeeps
     DEF MigrationPcs, FreshPcs, Pcs, Invariant, Course, RestTyped

LEMMA StartKeeps ==
    ASSUME Invariant, Start
    PROVE  Invariant'
<1>1. /\ UNCHANGED <<file, swap, stray, writing, source, owner, backup, db, mem, faults>>
      /\ pc' = "migration" /\ writing = Idle
  BY DEF Start, At, GoTo, disk, NoFault
<1>2. Placed'
  BY <1>1, MoveOnPlaces, Contents
     DEF Placed, MarkedWhenFresh, MigrationLoaded, RegistryThere, MigrationThere,
         MigrationPcs, FreshPcs
<1>3. Running'
  BY <1>1 DEF Running
<1>4. ~Writing("migration")
  BY <1>1 DEF Writing
<1> QED
  BY <1>1, <1>2, <1>3, <1>4, MoveOnKeeps
     DEF MigrationPcs, FreshPcs, Pcs, Invariant, Course, RestTyped

LEMMA LoadFileKeeps ==
    ASSUME Invariant, NEW f \in File, LoadFile(f)
    PROVE  Invariant'
<1>1. /\ UNCHANGED <<file, swap, stray, writing, source, owner, backup, db, mem, faults>>
      /\ writing = Idle /\ pc = f
      /\ \/ f = "migration" /\ pc' = "marker"
         \/ f = "marker" /\ pc' = "registry"
         \/ f = "registry" /\ pc' = "decide"
  BY DEF LoadFile, Loading, After, At, GoTo, disk, NoFault, File
<1>2. ~Writing("migration")
  BY <1>1 DEF Writing
<1>3. Loaded("migration")'
  <2>1. CASE f = "migration"
    BY <1>1, <2>1 DEF LoadFile, Loaded
  <2>2. CASE f # "migration"
    BY <1>1, <2>2, FilesSame, Contents
       DEF Same, Invariant, Course, Placed, MigrationLoaded, File
  <2> QED
    BY <2>1, <2>2
<1>4. Placed'
  BY <1>1, <1>3, MoveOnPlaces, Contents
     DEF Placed, MarkedWhenFresh, MigrationLoaded, RegistryThere, MigrationThere,
         MigrationPcs, FreshPcs
<1>5. Running'
  BY <1>1 DEF Running
<1> QED
  BY <1>1, <1>2, <1>4, <1>5, MoveOnKeeps
     DEF MigrationPcs, FreshPcs, Pcs, Invariant, Course, RestTyped

\* What is recovered was there.
LEMMA RecoveryKeeps ==
    ASSUME Invariant, writing = Idle, NEW f \in File, NEW v \in Values(f),
           pc = f, Save(f, v, f), file[f] = None,
           UNCHANGED <<swap, stray, source, owner, backup, db, mem, faults>>
    PROVE  Invariant'
<1>1. Storage /\ Course /\ v \in ValueOf(f) /\ pc' = pc /\ UNCHANGED file
  BY FilesAre DEF Invariant, Save, GoTo
<1>2. Storage' /\ Saved(f, v) /\ \A g \in File \ {f} : Same(g) /\ ~Writing(g)'
  BY <1>1, SaveDoes DEF Save
<1>3. \A g \in File : Values(g)' = Values(g) /\ (Found(g)' <=> Found(g)) /\ (Loaded(g)' <=> Loaded(g))
  BY <1>2 DEF Saved, Same
<1>4. Values("migration")' = Values("migration") /\ Values("registry")' = Values("registry")
  BY <1>3, Contents
<1>5. \A g \in File : Writing(g)' => g = f
  BY <1>2
<1>6. RestTyped'
  BY <1>1 DEF Course, RestTyped
<1>7. Placed'
  <2>1. Places'
    BY <1>1, <1>5, Contents DEF Places
  <2>2. Worlds'
    <3>1. f = "marker" /\ source # None => Values("marker") = {}
      BY <1>1, FilesAre, Contents DEF Course, Placed, Worlds
    <3> QED
      BY <1>1, <1>4, <1>5, <3>1, Contents DEF Worlds, Course, Placed, MigrationPcs, FreshPcs, File
  <2>3. MigrationLoaded'
    BY <1>1, <1>3, Contents DEF MigrationLoaded, Course, Placed, File
  <2> QED
    BY <1>1, <2>1, <2>2, <2>3
       DEF Placed, MarkedWhenFresh, RegistryThere, MigrationThere, File
<1>8. Ahead'
  <2>1. Writing("migration")' => pc' = "migration" /\ writing'.step = "temp" /\ file'.migration = None
    BY <1>1, <1>2, <1>5, Contents DEF Saved
  <2> QED
    BY <1>1, <2>1 DEF Course, Ahead, MigrationPcs, File
<1>9. Left' /\ Used'
  BY <1>1, <1>3, <1>4, Contents DEF Course, Left, Used
<1>10. Backups' /\ Running'
  BY <1>1, <1>4 DEF Course, Backups, Running, File
<1> QED
  BY <1>2, <1>6, <1>7, <1>8, <1>9, <1>10 DEF Invariant, Course

LEMMA LoadingKeeps ==
    ASSUME Invariant,
           Start \/ (\E f \in File : LoadFile(f) \/ FromJournal(f) \/ NotRecovered(f)) \/ FromStray
    PROVE  Invariant'
<1>1. ASSUME NEW f \in File, FromJournal(f)
      PROVE  Invariant'
  <2>1. /\ writing = Idle /\ pc = f /\ file[f] = None /\ Save(f, Candidate(f), f)
        /\ UNCHANGED <<swap, stray, source, owner, backup, db, mem, faults>>
    BY <1>1 DEF FromJournal, Loading, At, disk, NoFault
  <2>2. Candidate(f) \in Values(f)
    BY <1>1, <2>1 DEF FromJournal, NoCandidate, Candidate, Values, OnDisk, Journalled
  <2> QED
    BY <2>1, <2>2, RecoveryKeeps
<1>2. ASSUME FromStray
      PROVE  Invariant'
  <2>1. PICK registry \in stray \ {Torn} : Save("registry", registry, "registry")
    BY <1>2 DEF FromStray
  <2>2. /\ writing = Idle /\ pc = "registry" /\ file.registry = None /\ swap.registry = None
        /\ UNCHANGED <<swap, stray, source, owner, backup, db, mem, faults>>
    BY <1>2 DEF FromStray, Loading, At, disk, NoFault
  <2>3. registry \in Values("registry")
    BY <2>2, Absent, Contents DEF Values, OnDisk, Journalled, Invariant, Storage, FilesTyped
  <2> QED
    BY <2>1, <2>2, <2>3, RecoveryKeeps, Contents
<1>3. ASSUME NEW f \in File, NotRecovered(f)
      PROVE  Invariant'
  BY <1>3, QuitKeeps DEF NotRecovered, Loading, At
<1> QED
  BY <1>1, <1>2, <1>3, StartKeeps, LoadFileKeeps

----------------------------------------------------------------------------
(* What a start decides. *)

\* At rest a file that was loaded is known.
LEMMA AtRest ==
    ASSUME Invariant, writing = Idle
    PROVE  /\ \A f \in File : ~Writing(f)
           /\ \A f \in File : file[f] # None => Values(f) = {file[f]} /\ file[f] \in ValueOf(f)
           /\ file.migration = None /\ swap.migration = None => Values("migration") = {}
           /\ Loaded("migration") /\ file.migration = None => Values("migration") = {} /\ ~Found("migration")
<1>1. \A f \in File : ~Writing(f)
  BY DEF Writing
<1>2. Storage
  BY DEF Invariant
<1>3. \A f \in File : file[f] # None => Values(f) = {file[f]} /\ file[f] \in ValueOf(f)
  BY <1>1, <1>2, FilesAre
<1>4. file.migration = None /\ swap.migration = None => Values("migration") = {}
  BY <1>1, <1>2, FilesAre, Contents
<1> QED
  BY <1>1, <1>3, <1>4, Contents DEF Loaded, Found, Journalled

LEMMA DecideOpenKeeps ==
    ASSUME Invariant, DecideOpen
    PROVE  Invariant'
<1>1. /\ writing = Idle /\ pc = "decide" /\ file.registry # None /\ mem' = NewState
      /\ Phase = "none" \/ Phase = "Complete"
      /\ Save("registry", file.registry, "open") /\ pc' = "open"
      /\ UNCHANGED <<swap, stray, source, owner, backup, db, faults>>
  BY DEF DecideOpen, CanOpen, At, Save, GoTo, disk, NoFault
<1>2. Storage /\ Course /\ UNCHANGED file
  BY <1>1 DEF Invariant, Save
<1>a. /\ Values("registry") = {file.registry} /\ file.registry \in ValueOf("registry")
      /\ Loaded("migration") /\ ~Writing("migration")
  BY <1>1, <1>2, AtRest, Contents DEF Course, Placed, MigrationLoaded
<1>3. Storage' /\ Saved("registry", file.registry)
      /\ \A g \in File \ {"registry"} : Same(g) /\ ~Writing(g)'
  BY <1>1, <1>2, <1>a, SaveDoes, Contents DEF Save
<1>m. Same("migration") /\ ~Writing("migration")' /\ ~Writing("marker")' /\ Same("marker")
  BY <1>3, Contents DEF File
<1>r. Values("registry")' = Values("registry")
  BY <1>3, <1>a DEF Saved
<1>4. source # None => file.migration # None /\ Done(file.migration)
  <2>1. source # None => Found("migration")
    BY <1>2, <1>a DEF Course, Left
  <2>2. source # None => file.migration # None
    BY <1>1, <1>a, <2>1, AtRest
  <2> QED
    <3>1. ASSUME source # None
          PROVE  file.migration.phase # "none"
      <4>1. file.migration \in State
        BY <1>1, <2>2, <3>1, AtRest, Contents
      <4> QED
        BY <4>1 DEF State
    <3> QED
      BY <1>1, <2>2, <3>1 DEF Phase, Done
<1>5. RestTyped'
  BY <1>1, <1>2, InstallAssumption DEF Course, RestTyped, Pcs, State, NewState
<1>6. Placed'
  BY <1>1, <1>2, <1>m, <1>a, <1>3
     DEF Course, Placed, Places, Worlds, MarkedWhenFresh, MigrationLoaded, RegistryThere,
         MigrationThere, FreshPcs, MigrationPcs, Saved, Same
<1>7. Ahead'
  BY <1>1, <1>2, <1>m, <1>4 DEF Course, Ahead, Same, MigrationPcs
<1>8. Left' /\ Used'
  BY <1>1, <1>2, <1>m, <1>r DEF Course, Left, Used, Same, FreshPcs
<1>9. Backups' /\ Running'
  BY <1>1, <1>2, <1>m DEF Course, Backups, Running, Same, NewState, Done
<1> QED
  BY <1>3, <1>5, <1>6, <1>7, <1>8, <1>9 DEF Invariant, Course

\* The marker and the database of a first start are no concern of a migration.
LEMMA MarkerKeeps ==
    ASSUME Invariant, writing = Idle, source = None, db[Other] = None,
           NEW v \in MarkerPhase,
           \/ v = "Prepared" /\ pc = "decide" /\ pc' = "fresh"
           \/ v = "DatabaseCreated" /\ pc = "database" /\ pc' = "created"
           \/ v = "RegistryCommitted" /\ pc = "saved" /\ pc' = "committed",
           Save("marker", v, pc'),
           UNCHANGED <<swap, stray, source, owner, backup, db, mem, faults>>
    PROVE  Invariant'
<1>1. Storage /\ Course /\ UNCHANGED file
  BY DEF Invariant, Save
<1>2. Storage' /\ Saved("marker", v) /\ \A g \in File \ {"marker"} : Same(g) /\ ~Writing(g)'
  BY <1>1, SaveDoes, Contents DEF Save
<1>m. /\ Same("migration") /\ Same("registry") /\ ~Writing("migration")' /\ ~Writing("registry")'
      /\ Writing("marker")'
  BY <1>2, Contents DEF File, Saved
<1>3. RestTyped'
  BY <1>1 DEF Course, RestTyped, Pcs, FreshPcs
<1>4. Placed'
  BY <1>1, <1>m
     DEF Course, Placed, Places, Worlds, MarkedWhenFresh, MigrationLoaded, RegistryThere,
         MigrationThere, FreshPcs, MigrationPcs, Same
<1>5. Ahead'
  BY <1>1, <1>m DEF Course, Ahead, Same, MigrationPcs
<1>6. Left' /\ Used'
  BY <1>1, <1>m DEF Course, Left, Used, Same
<1>7. Backups' /\ Running'
  BY <1>1, <1>m DEF Course, Backups, Running, Same
<1> QED
  BY <1>2, <1>3, <1>4, <1>5, <1>6, <1>7 DEF Invariant, Course

LEMMA DecideKeeps ==
    ASSUME Invariant,
           DecideOpen \/ DecideFresh \/ DecideResume \/ DecideMigrate \/ DecideNot
    PROVE  Invariant'
<1>1. Storage /\ Course
  BY DEF Invariant
<1>2. CASE DecideFresh
  <2>1. /\ writing = Idle /\ pc = "decide" /\ source = None /\ db[Other] = None
        /\ Save("marker", "Prepared", "fresh") /\ pc' = "fresh"
        /\ UNCHANGED <<swap, stray, source, owner, backup, db, mem, faults>>
    BY <1>2 DEF DecideFresh, CanInstall, At, Save, GoTo, disk, NoFault, Account
  <2> QED
    BY <2>1, MarkerKeeps DEF MarkerPhase
<1>3. CASE DecideResume
  <2>1. /\ UNCHANGED <<file, swap, stray, writing, source, owner, backup, db, mem, faults>>
        /\ pc' = "fresh" /\ writing = Idle /\ pc = "decide"
        /\ source = None /\ db[Other] = None /\ Marked'
    BY <1>3 DEF DecideResume, MarkerConflicts, At, GoTo, disk, NoFault, Marked
  <2>2. ~Writing("migration")
    BY <2>1 DEF Writing
  <2>3. Loaded("migration")'
    BY <1>1, <2>1, FilesSame, Contents DEF Course, Placed, MigrationLoaded, Same
  <2>4. Placed'
    BY <2>1, <2>3, MoveOnPlaces, Contents
       DEF Placed, MarkedWhenFresh, MigrationLoaded, RegistryThere, MigrationThere,
           MigrationPcs, FreshPcs
  <2>5. Running'
    BY <2>1 DEF Running
  <2> QED
    BY <1>1, <2>1, <2>2, <2>4, <2>5, MoveOnKeeps
       DEF MigrationPcs, FreshPcs, Pcs, Course, RestTyped
<1>4. CASE DecideMigrate
  <2>1. /\ UNCHANGED <<file, swap, stray, writing, source, owner, backup, db, faults>>
        /\ pc' = "snapshot" /\ writing = Idle /\ pc = "decide" /\ source # None
        /\ file.migration = None \/ Unfinished
        /\ mem' = IF file.migration = None THEN NewState ELSE file.migration
    BY <1>4 DEF DecideMigrate, CanMigrate, At, GoTo, disk, NoFault
  <2>2. ~Writing("migration")
    BY <2>1 DEF Writing
  <2>3. Loaded("migration") /\ Loaded("migration")'
    BY <1>1, <2>1, FilesSame, Contents DEF Course, Placed, MigrationLoaded, Same
  <2>4. Placed'
    BY <2>1, <2>3, MoveOnPlaces, Contents
       DEF Placed, MarkedWhenFresh, MigrationLoaded, RegistryThere, MigrationThere,
           MigrationPcs, FreshPcs
  <2>5. Running'
    BY <2>1 DEF Running
  <2>6. mem' \in {NewState} \cup Values("migration")
    BY <1>1, <2>1, FilesAre, Contents
  <2>7. \A v \in Values("migration") : ~Done(v)
    BY <2>1, <2>3, AtRest, Contents DEF Unfinished, Done
  <2> QED
    BY <1>1, <2>1, <2>2, <2>4, <2>5, <2>6, <2>7, MoveOnKeeps
       DEF MigrationPcs, FreshPcs, Pcs, Course, RestTyped
<1>5. CASE DecideNot
  BY <1>5, QuitKeeps DEF DecideNot, At
<1> QED
  BY <1>2, <1>3, <1>4, <1>5, DecideOpenKeeps

----------------------------------------------------------------------------
(* The first start on an empty data root. *)

\* There is no legacy database, and nothing of a migration.
LEMMA FreshIs ==
    ASSUME Invariant, pc \in FreshPcs, writing = Idle
    PROVE  /\ source = None /\ Values("migration") = {} /\ swap.migration = None
           /\ file.migration = None /\ db[Other] = None
           /\ pc = "fresh" => Marked
<1>1. Storage /\ Course
  BY DEF Invariant
<1>2. source = None /\ Values("migration") = {} /\ swap.migration = None /\ db[Other] = None
  BY <1>1 DEF Course, Placed, Worlds, Used, FreshPcs
<1>3. file.migration = None
  BY <1>1, <1>2, FilesAre, Contents
<1> QED
  BY <1>1, <1>2, <1>3 DEF Course, Placed, MarkedWhenFresh, Writing

LEMMA DatabaseKeeps ==
    ASSUME Invariant, Database
    PROVE  Invariant'
<1>1. /\ writing = Idle /\ pc = "fresh" /\ pc' = "database"
      /\ UNCHANGED <<file, swap, stray, writing, source, owner, backup, mem>>
      /\ db' = db \/ db' = [db EXCEPT ![Default] = Empty]
      /\ faults' = faults \/ Fault
  BY DEF Database, At, GoTo, NoFault
<1>2. Storage /\ Course /\ source = None /\ Values("migration") = {}
  BY <1>1, FreshIs DEF Invariant, FreshPcs
<1>3. Storage' /\ Same("migration") /\ Same("registry") /\ Same("marker")
  BY <1>1, <1>2, FilesSame, Contents
<1>4. RestTyped'
  <2>1. faults' \in 0..MaxFaults
    BY <1>1, <1>2, InstallAssumption DEF Course, RestTyped, Fault, InstallAssumption
  <2>2. db' \in [Account -> Content \cup {None}]
    BY <1>1, <1>2 DEF Course, RestTyped, Content
  <2> QED
    BY <1>1, <1>2, <2>1, <2>2 DEF Course, RestTyped, Pcs, FreshPcs
<1>5. Placed'
  BY <1>1, <1>2, <1>3
     DEF Course, Placed, Places, Worlds, MarkedWhenFresh, MigrationLoaded, RegistryThere,
         MigrationThere, FreshPcs, MigrationPcs, Same, Writing
<1>6. Ahead'
  BY <1>1, <1>2, <1>3 DEF Ahead, MigrationPcs, Same, Writing
<1>7. Left'
  BY <1>1, <1>2, <1>3 DEF Left, Same
<1>8. Used'
  BY <1>1, <1>2, <1>3, InstallAssumption
     DEF Course, RestTyped, Used, Same, FreshPcs, InstallAssumption, Account
<1>9. Backups' /\ Running'
  BY <1>1, <1>2, <1>3 DEF Course, Backups, Running, Same
<1> QED
  BY <1>3, <1>4, <1>5, <1>6, <1>7, <1>8, <1>9 DEF Invariant, Course

\* The first registry.
LEMMA FirstRegistryKeeps ==
    ASSUME Invariant, writing = Idle,
           \/ pc = "created" /\ pc' \in {"saved", "unmark"}
           \/ pc = "committed" /\ pc' = "unmark",
           Save("registry", FreshRegistry, pc'),
           UNCHANGED <<swap, stray, source, owner, backup, db, mem, faults>>
    PROVE  Invariant'
<1>1. /\ Storage /\ Course /\ UNCHANGED file
      /\ source = None /\ Values("migration") = {} /\ db[Other] = None
  BY FreshIs DEF Invariant, Save, FreshPcs
<1>2. FreshRegistry \in ValueOf("registry")
  BY AtRest, Contents DEF FreshRegistry, NewRegistry, Registry, Account
<1>3. Storage' /\ Saved("registry", FreshRegistry)
      /\ \A g \in File \ {"registry"} : Same(g) /\ ~Writing(g)'
  BY <1>1, <1>2, SaveDoes, Contents DEF Save
<1>m. Same("migration") /\ Same("marker") /\ ~Writing("migration")' /\ ~Writing("marker")'
  BY <1>3, Contents DEF File
<1>4. RestTyped'
  BY <1>1 DEF Course, RestTyped, Pcs, FreshPcs
<1>5. Placed'
  BY <1>1, <1>m, <1>3
     DEF Course, Placed, Places, Worlds, MarkedWhenFresh, MigrationLoaded, RegistryThere,
         MigrationThere, FreshPcs, MigrationPcs, Same, Saved
<1>6. Ahead'
  BY <1>1, <1>m DEF Ahead, MigrationPcs, Same
<1>7. Left'
  BY <1>1, <1>m DEF Left, Same
<1>8. Used'
  BY <1>1, InstallAssumption
     DEF Course, RestTyped, Used, FreshPcs, InstallAssumption, Content, Legacy, Worked
<1>9. Backups' /\ Running'
  BY <1>1, <1>m DEF Course, Backups, Running, Same
<1> QED
  BY <1>3, <1>4, <1>5, <1>6, <1>7, <1>8, <1>9 DEF Invariant, Course

LEMMA UnmarkKeeps ==
    ASSUME Invariant, Unmark
    PROVE  Invariant'
<1>1. /\ writing = Idle /\ pc = "unmark" /\ pc' = "open" /\ mem' = NewState
      /\ file' = [file EXCEPT !.marker = None]
      /\ UNCHANGED <<swap, stray, writing, source, owner, backup, db, faults>>
  BY DEF Unmark, At, GoTo, disk, NoFault
<1>2. Storage /\ Course /\ source = None /\ Values("migration") = {}
  BY <1>1, FreshIs DEF Invariant, FreshPcs
<1>3. /\ DOMAIN file' = File /\ file'["marker"] = None
      /\ \A f \in File \ {"marker"} : file'[f] = file[f]
      /\ \A f \in File : ~Writing(f) /\ ~Writing(f)' /\ (Journalled(f)' <=> Journalled(f))
  BY <1>1, <1>2 DEF Storage, FilesTyped, Writing, Journalled
<1>4. Storage'
  <2>1. FilesTyped' /\ WritingTyped'
    BY <1>1, <1>2, <1>3 DEF Storage, FilesTyped, WritingTyped
  <2>2. \A f \in File : Swapping(f)'
    BY <1>1, <1>2, <1>3 DEF Storage, Swapping
  <2> QED
    BY <2>1, <2>2 DEF Storage
<1>5. ASSUME NEW f \in File \ {"marker"}
      PROVE  Same(f)
  <2>1. Values(f)' = Values(f)
    BY <1>1, <1>3 DEF Values, OnDisk
  <2> QED
    BY <1>1, <1>3, <2>1 DEF Same, Found, Loaded
<1>m. Same("migration") /\ Same("registry")
  BY <1>5, Contents DEF File
<1>6. RestTyped'
  BY <1>1, <1>2, InstallAssumption DEF Course, RestTyped, Pcs, State, NewState
<1>7. Placed'
  BY <1>1, <1>2, <1>3, <1>m, Contents
     DEF Course, Placed, Places, Worlds, MarkedWhenFresh, MigrationLoaded, RegistryThere,
         MigrationThere, FreshPcs, MigrationPcs, Same
<1>8. Ahead'
  BY <1>1, <1>2, <1>3, Contents DEF Ahead, MigrationPcs
<1>9. Left' /\ Used'
  BY <1>1, <1>2, <1>m DEF Course, Left, Used, Same, FreshPcs
<1>10. Backups' /\ Running'
  BY <1>1, <1>2, <1>3, <1>m, Contents DEF Course, Backups, Running, Same, NewState, Done
<1> QED
  BY <1>4, <1>6, <1>7, <1>8, <1>9, <1>10 DEF Invariant, Course

LEMMA FreshStepKeeps ==
    ASSUME Invariant, FreshStep
    PROVE  Invariant'
<1>1. CASE MarkCreated
  <2>1. /\ writing = Idle /\ pc = "database" /\ pc' = "created"
        /\ UNCHANGED <<swap, stray, source, owner, backup, db, mem, faults>>
        /\ Save("marker", "DatabaseCreated", "created") \/ UNCHANGED <<file, writing>>
    BY <1>1 DEF MarkCreated, At, Save, GoTo, disk, NoFault
  <2>2. source = None /\ db[Other] = None
    BY <2>1, FreshIs DEF FreshPcs
  <2>3. CASE UNCHANGED <<file, writing>>
    <3>1. ~Writing("migration")
      BY <2>1 DEF Writing
    <3>2. Loaded("migration")'
      BY <2>1, <2>3, FilesSame, Contents DEF Invariant, Course, Placed, MigrationLoaded, Same
    <3>3. Placed'
      BY <2>1, <2>2, <2>3, <3>2, MoveOnPlaces, Contents
         DEF Placed, MarkedWhenFresh, MigrationLoaded, RegistryThere, MigrationThere,
             MigrationPcs, FreshPcs
    <3>4. Running'
      BY <2>1 DEF Running
    <3> QED
      BY <2>1, <2>2, <2>3, <3>1, <3>3, <3>4, MoveOnKeeps
         DEF MigrationPcs, FreshPcs, Pcs, Invariant, Course, RestTyped
  <2>4. CASE Save("marker", "DatabaseCreated", "created")
    BY <2>1, <2>2, <2>4, MarkerKeeps DEF MarkerPhase
  <2> QED
    BY <2>1, <2>3, <2>4
<1>2. CASE SaveFresh
  BY <1>2, FirstRegistryKeeps DEF SaveFresh, At, Save, GoTo, disk, NoFault
<1>3. CASE MarkCommitted
  <2>1. /\ writing = Idle /\ pc = "saved" /\ pc' = "committed"
        /\ UNCHANGED <<swap, stray, source, owner, backup, db, mem, faults>>
        /\ Save("marker", "RegistryCommitted", "committed")
    BY <1>3 DEF MarkCommitted, At, Save, GoTo, disk, NoFault
  <2>2. source = None /\ db[Other] = None
    BY <2>1, FreshIs DEF FreshPcs
  <2> QED
    BY <2>1, <2>2, MarkerKeeps DEF MarkerPhase
<1>4. CASE SaveAgain
  BY <1>4, FirstRegistryKeeps DEF SaveAgain, At, Save, GoTo, disk, NoFault
<1> QED
  BY <1>1, <1>2, <1>3, <1>4, DatabaseKeeps, UnmarkKeeps DEF FreshStep

----------------------------------------------------------------------------
(* The migration. *)

LEMMA MigrationIs ==
    ASSUME Invariant, pc \in MigrationPcs, writing = Idle
    PROVE  /\ source \in Legacy /\ source # None /\ mem \in State /\ db \in [Account -> Content \cup {None}]
           /\ \A v \in Values("migration") : ~Done(v)
           /\ \A a \in Account : db[a] # Worked
           /\ backup # None => backup \in Legacy /\ backup <= source
           /\ mem.backup # None => backup # None /\ mem.backup \in Legacy /\ mem.backup <= backup
           /\ Loaded("migration")
<1>1. Storage /\ Course
  BY DEF Invariant
<1>2. source \in Legacy /\ source # None
  BY <1>1 DEF Course, RestTyped, Placed, Worlds
<1>3. \A v \in Values("migration") : ~Done(v)
  BY <1>1 DEF Course, Ahead
<1>4. file.migration # None => ~Done(file.migration)
  BY <1>1, <1>3, FilesAre, Contents
<1>5. \A a \in Account : db[a] # Worked
  BY <1>1, <1>2, <1>4 DEF Course, Ahead
<1>6. mem \in State /\ backup \in Legacy \cup {None} /\ db \in [Account -> Content \cup {None}]
  BY <1>1 DEF Course, RestTyped
<1>7. mem.backup \in Legacy \cup {None}
  BY <1>6 DEF State
<1>8. Loaded("migration")
  BY <1>1 DEF Course, Placed, MigrationLoaded, MigrationPcs
<1> QED
  BY <1>1, <1>2, <1>3, <1>5, <1>6, <1>7, <1>8 DEF Course, Backups

LEMMA Ordered ==
    ASSUME NEW a \in Legacy, NEW b \in Legacy, NEW c \in Legacy
    PROVE  /\ a <= a /\ (a <= b /\ b <= c => a <= c) /\ (a <= b /\ b <= a => a = b)
           /\ a \in Nat /\ a \in Content /\ a # Empty /\ a # Worked
BY InstallAssumption DEF Legacy, Content, Empty, Worked, InstallAssumption

\* The migration state is saved.
LEMMA RecordKeeps ==
    ASSUME Invariant, writing = Idle, pc \in MigrationPcs, mem' \in State,
           Save("migration", mem', pc'),
           pc' \in {"backup", "backed", "preserved", "reviewed", "register", "complete",
                   "open", "exit"},
           UNCHANGED <<swap, stray, source, owner, db, faults>>,
           backup' \in {backup, source},
           mem'.backup # None => backup' # None /\ mem'.backup <= backup',
           pc' = "open" <=> Done(mem'),
           pc' = "open" => /\ mem'.target \in Account /\ db[mem'.target] = source
                           /\ \A r \in Values("registry") : mem'.target \in r.known,
           pc' \in {"complete", "open"} => file.registry # None,
           Running'
    PROVE  Invariant'
<1>1. Storage /\ Course /\ UNCHANGED file
  BY DEF Invariant, Save
<1>2. /\ source \in Legacy /\ source # None /\ backup \in Legacy \cup {None}
      /\ \A v \in Values("migration") : ~Done(v)
      /\ \A a \in Account : db[a] # Worked
      /\ Loaded("migration")
  BY <1>1, MigrationIs DEF Course, RestTyped
<1>3. Storage' /\ Saved("migration", mem')
      /\ \A g \in File \ {"migration"} : Same(g) /\ ~Writing(g)'
  BY <1>1, SaveDoes, Contents DEF Save
<1>m. /\ Same("marker") /\ Same("registry") /\ ~Writing("marker")' /\ ~Writing("registry")'
      /\ Loaded("migration")' /\ Writing("migration")' /\ writing'.step = "temp"
      /\ writing'.value = mem' /\ file'.migration = file.migration
      /\ Found("migration")' <=> Found("migration")
      /\ \A v : v \in Values("migration")' <=> v \in Values("migration") \/ v = mem'
  BY <1>2, <1>3, Contents DEF File, Saved
<1>4. RestTyped'
  BY <1>1, <1>2 DEF Course, RestTyped, Pcs, MigrationPcs
<1>5. Placed'
  BY <1>1, <1>2, <1>m
     DEF Course, Placed, Places, Worlds, MarkedWhenFresh, MigrationLoaded, RegistryThere,
         MigrationThere, FreshPcs, MigrationPcs, Same
<1>6. Ahead'
  <2>1. Prior("migration")' = file.migration
    BY <1>m DEF Prior
  <2>2. file.migration # None => ~Done(file.migration)
    BY <1>1, <1>2, FilesAre, Contents
  <2> QED
    BY <1>1, <1>2, <1>m, <2>1, <2>2 DEF Ahead, MigrationPcs
<1>7. Left'
  <2>1. ASSUME Done(mem')
        PROVE  /\ mem'.target \in Account /\ db'[mem'.target] \notin {None, Empty}
               /\ \A r \in Values("registry")' : mem'.target \in r.known
    BY <1>1, <1>2, <1>m, <2>1, Ordered DEF Same
  <2> QED
    BY <1>1, <1>2, <1>m, <2>1 DEF Course, Left, Same
<1>8. Used'
  BY <1>1, <1>2, <1>m DEF Used, FreshPcs, Same, Account
<1>9. Backups'
  <2>1. backup' # None => source' # None /\ backup' <= source'
    BY <1>1, <1>2, Ordered DEF Course, Backups
  <2>2. ASSUME NEW v \in Values("migration"), v.backup # None
        PROVE  backup' # None /\ v.backup <= backup'
    <3>1. v \in State /\ backup # None /\ v.backup <= backup /\ backup <= source
      BY <1>1, <2>2, FilesAre, Contents DEF Course, Backups
    <3>2. v.backup \in Legacy
      BY <2>2, <3>1 DEF State
    <3> QED
      BY <1>2, <3>1, <3>2, Ordered
  <2> QED
    BY <1>m, <2>1, <2>2 DEF Backups
<1> QED
  BY <1>3, <1>4, <1>5, <1>6, <1>7, <1>8, <1>9 DEF Invariant, Course

\* The database of the target is set aside or copied.
LEMMA TargetKeeps ==
    ASSUME Invariant, writing = Idle,
           \/ pc = "backed" /\ pc' = "target"
           \/ pc = "target" /\ pc' = "verify",
           mem.target \in Account,
           NEW c \in {db[mem.target], None, mem.backup},
           db' = [db EXCEPT ![mem.target] = c],
           UNCHANGED <<file, swap, stray, writing, source, owner, backup, mem, faults>>,
           Running'
    PROVE  Invariant'
<1>1. Storage /\ Course
  BY DEF Invariant
<1>2. /\ source # None /\ db \in [Account -> Content \cup {None}]
      /\ \A v \in Values("migration") : ~Done(v)
      /\ \A a \in Account : db[a] # Worked
      /\ mem.backup # None => mem.backup \in Legacy
      /\ Loaded("migration")
  BY MigrationIs DEF MigrationPcs
<1>3. Storage' /\ Same("migration") /\ Same("registry") /\ Same("marker")
  BY <1>1, FilesSame, Contents
<1>4. \A f \in File : ~Writing(f) /\ ~Writing(f)'
  BY DEF Writing
<1>5. c \in Content \cup {None} /\ c # Worked
  BY <1>2, Ordered, InstallAssumption DEF InstallAssumption, Content
<1>6. db' \in [Account -> Content \cup {None}] /\ \A a \in Account : db'[a] # Worked
  BY <1>2, <1>5
<1>7. RestTyped'
  BY <1>1, <1>6 DEF Course, RestTyped, Pcs, MigrationPcs
<1>8. Placed'
  BY <1>1, <1>2, <1>3, <1>4, Contents
     DEF Course, Placed, Places, Worlds, MarkedWhenFresh, MigrationLoaded, RegistryThere,
         MigrationThere, FreshPcs, MigrationPcs, Same
<1>9. Ahead'
  BY <1>2, <1>3, <1>4, <1>6, Contents DEF Ahead, Same
<1>10. Left' /\ Used'
  BY <1>1, <1>2, <1>3, <1>6 DEF Course, Left, Used, Same, FreshPcs, Account
<1>11. Backups'
  BY <1>1, <1>3 DEF Course, Backups, Same
<1> QED
  BY <1>3, <1>7, <1>8, <1>9, <1>10, <1>11 DEF Invariant, Course

\* A step of the migration that writes nothing.
LEMMA StepOnKeeps ==
    ASSUME Invariant, writing = Idle, pc \in MigrationPcs, pc' \in MigrationPcs,
           pc' \notin {"register", "activate", "complete"},
           UNCHANGED <<file, swap, stray, writing, source, owner, backup, db>>,
           mem' \in State, mem'.backup = mem.backup, faults' \in 0..MaxFaults,
           Running'
    PROVE  Invariant'
<1>1. ~Writing("migration") /\ source # None /\ Loaded("migration")'
  BY MigrationIs, FilesSame, Contents DEF Writing, Same, Invariant
<1>2. Placed'
  BY <1>1, MoveOnPlaces, Contents
     DEF Placed, MarkedWhenFresh, MigrationLoaded, RegistryThere, MigrationThere,
         MigrationPcs, FreshPcs
<1> QED
  BY <1>1, <1>2, MoveOnKeeps DEF MigrationPcs, FreshPcs, Pcs

\* What the migration is for is typed.
LEMMA OwnershipIs ==
    ASSUME Invariant, writing = Idle, mem \in State
    PROVE  /\ Ownership(mem) \in Owner /\ OtherEmail \in Email \cup {None}
           /\ Target(mem) \in Account
<1>1. owner \in Owner
  BY DEF Invariant, Course, RestTyped
<1>2. OtherEmail \in Email \cup {None}
  BY AtRest, Contents DEF OtherEmail, Registry
<1>3. Anonymous \in Owner /\ RegisteredOwner \in Owner
  BY <1>1, <1>2 DEF Anonymous, RegisteredOwner, Owner
<1>4. Ownership(mem) \in Owner
  BY <1>1, <1>3 DEF Ownership
<1>5. Target(mem) \in Account
  BY DEF Target, State, Account
<1> QED
  BY <1>2, <1>4, <1>5

LEMMA ChooseTargetKeeps ==
    ASSUME Invariant, ChooseTarget
    PROVE  Invariant'
<1>1. /\ writing = Idle /\ pc = "snapshot" /\ pc' = "backup"
      /\ mem' = [mem EXCEPT !.target = Target(mem)]
      /\ UNCHANGED <<swap, stray, source, owner, backup, db, faults>>
      /\ \/ mem.phase = "NotStarted" /\ Save("migration", mem', pc')
         \/ UNCHANGED <<file, writing>>
  BY DEF ChooseTarget, At, Save, GoTo, disk, NoFault
<1>2. /\ source # None /\ mem \in State
      /\ mem.backup # None => backup # None /\ mem.backup <= backup
  BY <1>1, MigrationIs DEF MigrationPcs
<1>3. faults \in 0..MaxFaults
  BY DEF Invariant, Course, RestTyped
<1>4. /\ mem' \in State /\ mem'.backup = mem.backup /\ mem'.phase = mem.phase
      /\ mem'.target # None
  BY <1>1, <1>2, OwnershipIs, InstallAssumption DEF State, InstallAssumption
<1>5. Running'
  BY <1>1, <1>4 DEF Running
<1>6. CASE mem.phase = "NotStarted" /\ Save("migration", mem', pc')
  <2>1. ~Done(mem')
    BY <1>4, <1>6 DEF Done
  <2> QED
    BY <1>1, <1>2, <1>4, <1>5, <1>6, <2>1, RecordKeeps DEF MigrationPcs
<1>7. CASE UNCHANGED <<file, writing>>
  BY <1>1, <1>3, <1>4, <1>5, <1>7, StepOnKeeps DEF MigrationPcs
<1> QED
  BY <1>1, <1>6, <1>7

\* The account that was chosen is refused, or the database is only preserved.
LEMMA RefuseTargetKeeps ==
    ASSUME Invariant, RefuseTarget \/ Preserve
    PROVE  Invariant'
<1>1. /\ writing = Idle /\ pc = "snapshot" /\ pc' \in {"fail", "preserve"}
      /\ UNCHANGED <<file, swap, stray, writing, source, owner, backup, db, mem, faults>>
  BY DEF RefuseTarget, Preserve, At, GoTo, disk, NoFault
<1>2. mem' \in State /\ mem'.backup = mem.backup /\ faults' \in 0..MaxFaults
  BY <1>1 DEF Invariant, Course, RestTyped
<1>3. Running'
  BY <1>1 DEF Running
<1> QED
  BY <1>1, <1>2, <1>3, StepOnKeeps DEF MigrationPcs

LEMMA BackupKeeps ==
    ASSUME Invariant, KeepBackup \/ TakeBackup
    PROVE  Invariant'
<1>1. /\ writing = Idle /\ faults' = faults
      /\ \/ pc = "backup" /\ pc' = "backed"
         \/ pc = "preserve" /\ pc' = "preserved"
      /\ UNCHANGED <<swap, stray, source, owner, db>>
  BY DEF KeepBackup, TakeBackup, Backing, BackedUp, GoTo, Save, disk, NoFault
<1>2. /\ source \in Legacy /\ source # None /\ mem \in State
      /\ backup # None => backup \in Legacy /\ backup <= source
      /\ mem.backup # None => backup # None /\ mem.backup \in Legacy /\ mem.backup <= backup
  BY <1>1, MigrationIs DEF MigrationPcs
<1>3. pc = "backup" => mem.target # None
  BY <1>1 DEF Invariant, Course, Running
<1>4. faults \in 0..MaxFaults
  BY DEF Invariant, Course, RestTyped
<1>5. CASE KeepBackup
  <2>1. UNCHANGED <<file, writing, backup, mem>> /\ mem.backup = source /\ mem.backup # None
    BY <1>5 DEF KeepBackup, BackupIsGood, disk
  <2>2. backup = source
    BY <1>2, <2>1, Ordered
  <2>3. Running'
    BY <1>1, <1>3, <2>1, <2>2 DEF Running
  <2> QED
    BY <1>1, <1>2, <1>4, <2>1, <2>3, StepOnKeeps DEF MigrationPcs
<1>6. CASE TakeBackup
  <2>1. /\ backup' = source /\ mem' = [mem EXCEPT !.backup = source, !.phase = "BackupCreated"]
        /\ Save("migration", mem', pc')
    BY <1>1, <1>6 DEF TakeBackup, Save, GoTo
  <2>2. /\ mem' \in State /\ mem'.backup = source /\ mem'.target = mem.target /\ ~Done(mem')
    BY <1>2, <2>1 DEF State, Done
  <2>3. mem'.backup <= backup'
    BY <1>2, <2>1, <2>2, Ordered
  <2>4. Running'
    BY <1>1, <1>3, <2>1, <2>2 DEF Running
  <2> QED
    BY <1>1, <1>2, <2>1, <2>2, <2>3, <2>4, RecordKeeps DEF MigrationPcs
<1> QED
  BY <1>5, <1>6

LEMMA ReviewKeeps ==
    ASSUME Invariant, Review \/ Fail
    PROVE  Invariant'
<1>1. /\ writing = Idle
      /\ \/ pc = "preserved" /\ pc' = "reviewed"
         \/ pc = "fail" /\ pc' = "exit"
      /\ UNCHANGED <<swap, stray, source, owner, backup, db, faults>>
      /\ \E phase \in {"RequiresReview", "Failed"} : mem' = [mem EXCEPT !.phase = phase]
      /\ Save("migration", mem', pc')
  BY DEF Review, Fail, At, GoTo, Save, disk, NoFault
<1>2. /\ source # None /\ mem \in State
      /\ mem.backup # None => backup # None /\ mem.backup <= backup
  BY <1>1, MigrationIs DEF MigrationPcs
<1>3. mem' \in State /\ mem'.backup = mem.backup /\ ~Done(mem')
  BY <1>1, <1>2 DEF State, Done
<1>4. Running'
  BY <1>1 DEF Running
<1> QED
  BY <1>1, <1>2, <1>3, <1>4, RecordKeeps DEF MigrationPcs

LEMMA CopyKeeps ==
    ASSUME Invariant, Quarantine \/ Copy
    PROVE  Invariant'
<1>1. /\ writing = Idle /\ source # None /\ mem \in State /\ db \in [Account -> Content \cup {None}]
      /\ UNCHANGED <<file, swap, stray, writing, source, owner, backup, mem, faults>>
  BY MigrationIs DEF Quarantine, Copy, At, NoFault, MigrationPcs
<1>2. CASE Quarantine
  <2>1. /\ pc = "backed" /\ pc' = "target" /\ mem.target # None
        /\ mem.backup = source /\ backup = source
        /\ db' = [db EXCEPT ![mem.target] =
                    IF db[mem.target] = mem.backup THEN db[mem.target] ELSE None]
    BY <1>2 DEF Quarantine, At, GoTo, Invariant, Course, Running
  <2>2. mem.target \in Account
    BY <1>1, <2>1 DEF State
  <2>3. Running'
    BY <1>1, <2>1 DEF Running
  <2> QED
    BY <1>1, <2>1, <2>2, <2>3, TargetKeeps
<1>3. CASE Copy
  <2>1. /\ pc = "target" /\ pc' = "verify" /\ mem.target # None
        /\ mem.backup = source /\ backup = source
        /\ db' = [db EXCEPT ![mem.target] = mem.backup]
    BY <1>3 DEF Copy, At, GoTo, Invariant, Course, Running
  <2>2. mem.target \in Account
    BY <1>1, <2>1 DEF State
  <2>3. db'[mem.target] = source
    BY <1>1, <2>1, <2>2
  <2>4. Running'
    BY <1>1, <2>1, <2>3 DEF Running
  <2> QED
    BY <1>1, <2>1, <2>2, <2>4, TargetKeeps
<1> QED
  BY <1>2, <1>3

LEMMA VerifyKeeps ==
    ASSUME Invariant, Verify \/ Activate \/ Complete
    PROVE  Invariant'
<1>1. /\ writing = Idle
      /\ \/ pc = "verify" /\ pc' = "register"
         \/ pc = "activate" /\ pc' = "complete"
         \/ pc = "complete" /\ pc' = "open" /\ file.registry.active = mem.target
      /\ UNCHANGED <<swap, stray, source, owner, backup, db, faults>>
      /\ Save("migration", mem', pc')
  BY DEF Verify, Activate, Complete, Active, At, GoTo, Save, disk, NoFault
<1>2. \E phase \in {"CopyVerified", "RegistryCommitted", "Complete"} :
        mem' = [mem EXCEPT !.phase = phase] /\ (pc' = "open" <=> phase = "Complete")
  BY DEF Verify, Activate, Complete, At, GoTo, Save
<1>3. /\ source # None /\ mem \in State
      /\ mem.backup # None => backup # None /\ mem.backup <= backup
  BY <1>1, MigrationIs DEF MigrationPcs
<1>4. /\ mem.backup = source /\ backup = source /\ mem.target # None /\ db[mem.target] = source
      /\ pc # "verify" => file.registry # None
  BY <1>1 DEF Invariant, Course, Placed, RegistryThere, Running, Writing
<1>5. /\ mem' \in State /\ mem'.backup = mem.backup /\ mem'.target = mem.target
      /\ pc' = "open" <=> Done(mem')
  BY <1>2, <1>3 DEF State, Done
<1>6. mem'.target \in Account
  BY <1>3, <1>4, <1>5 DEF State
<1>7. writing'.value = mem' /\ UNCHANGED file /\ Writing("migration")'
  BY <1>1 DEF Save, Writing, Idle
<1>8. Running'
  <2>1. pc' = "open" => file'.registry # None /\ file'.registry.active = mem'.target
    BY <1>1, <1>4, <1>5, <1>7
  <2>2. /\ mem'.backup = source' /\ backup' = source' /\ mem'.target # None
        /\ db'[mem'.target] = source'
    BY <1>1, <1>4, <1>5
  <2> QED
    BY <1>1, <1>5, <1>7, <2>1, <2>2 DEF Running
<1>9. pc' = "open" => \A r \in Values("registry") : mem'.target \in r.known
  BY <1>1, <1>4, <1>5, AtRest, Contents
<1> QED
  BY <1>1, <1>3, <1>4, <1>5, <1>6, <1>8, <1>9, RecordKeeps DEF MigrationPcs

LEMMA RegisterKeeps ==
    ASSUME Invariant, Register
    PROVE  Invariant'
<1>1. /\ writing = Idle /\ pc = "register" /\ pc' = "activate"
      /\ Save("registry", Registered, "activate")
      /\ UNCHANGED <<swap, stray, source, owner, backup, db, mem, faults>>
  BY DEF Register, At, Save, GoTo, disk, NoFault
<1>2. Storage /\ Course /\ UNCHANGED file
  BY <1>1 DEF Invariant, Save
<1>3. /\ source # None /\ mem \in State /\ Loaded("migration")
      /\ \A v \in Values("migration") : ~Done(v)
      /\ \A a \in Account : db[a] # Worked
  BY <1>1, MigrationIs DEF MigrationPcs
<1>4. /\ mem.backup = source /\ backup = source /\ mem.target # None /\ db[mem.target] = source
      /\ Found("migration")
  BY <1>1, <1>2 DEF Course, Placed, MigrationThere, Running, Writing
<1>5. Registered \in ValueOf("registry")
  <2>1. mem.target \in Account
    BY <1>3, <1>4 DEF State
  <2>2. file.registry # None => file.registry.known \subseteq Account
    BY <1>1, AtRest, Contents DEF Registry
  <2>3. Ownership(mem).bound \in Email \cup {None} /\ OtherEmail \in Email \cup {None}
    BY <1>1, <1>3, OwnershipIs DEF Owner
  <2>4. Registered.email \in Email \cup {None}
    BY <2>3 DEF Registered
  <2>5. /\ Registered.known \subseteq Account
        /\ {Registered.active, Default} \subseteq Registered.known
    BY <2>1, <2>2 DEF Registered, Account
  <2> QED
    BY <2>1, <2>4, <2>5, Contents DEF Registered, Registry
<1>6. Storage' /\ Saved("registry", Registered)
      /\ \A g \in File \ {"registry"} : Same(g) /\ ~Writing(g)'
  BY <1>1, <1>2, <1>5, SaveDoes, Contents DEF Save
<1>m. /\ Same("migration") /\ Same("marker") /\ ~Writing("migration")' /\ ~Writing("marker")'
      /\ Writing("registry")'
  BY <1>6, Contents DEF File, Saved
<1>7. RestTyped'
  BY <1>1, <1>2 DEF Course, RestTyped, Pcs, MigrationPcs
<1>8. Placed'
  BY <1>1, <1>2, <1>3, <1>m
     DEF Course, Placed, Places, Worlds, MarkedWhenFresh, MigrationLoaded, RegistryThere,
         MigrationThere, FreshPcs, MigrationPcs, Same
<1>9. Ahead'
  BY <1>1, <1>3, <1>m DEF Ahead, Same
<1>10. Left' /\ Used'
  BY <1>1, <1>3, <1>4, <1>m DEF Left, Used, Same, FreshPcs, Account
<1>11. Backups' /\ Running'
  BY <1>1, <1>2, <1>4, <1>m DEF Course, Backups, Running, Same
<1> QED
  BY <1>6, <1>7, <1>8, <1>9, <1>10, <1>11 DEF Invariant, Course

LEMMA MigrationStepKeeps ==
    ASSUME Invariant, MigrationStep \/ StepFails
    PROVE  Invariant'
<1>1. CASE StepFails
  <2>1. /\ writing = Idle /\ pc \in MigrationPcs /\ pc' = "fail" /\ Fault
        /\ UNCHANGED <<file, swap, stray, writing, source, owner, backup, db, mem>>
    BY <1>1 DEF StepFails, GoTo, disk, MigrationPcs
  <2>2. faults' \in 0..MaxFaults
    BY <2>1, InstallAssumption DEF Fault, InstallAssumption, Invariant, Course, RestTyped
  <2>3. Running'
    BY <2>1 DEF Running
  <2>4. mem' \in State /\ mem'.backup = mem.backup
    BY <2>1 DEF Invariant, Course, RestTyped
  <2> QED
    BY <2>1, <2>2, <2>3, <2>4, StepOnKeeps DEF MigrationPcs
<1>2. CASE Reviewed
  BY <1>2, QuitKeeps DEF Reviewed, At
<1> QED
  BY <1>1, <1>2, ChooseTargetKeeps, RefuseTargetKeeps, BackupKeeps, ReviewKeeps, CopyKeeps,
     VerifyKeeps, RegisterKeeps DEF MigrationStep

----------------------------------------------------------------------------
(* The app is up. *)

LEMMA OpenKeeps ==
    ASSUME Invariant, Open
    PROVE  Invariant'
<1>1. /\ UNCHANGED <<file, swap, stray, writing, source, owner, backup, db, mem, faults>>
      /\ writing = Idle /\ pc = "open" /\ pc' = "up"
  BY DEF Open, At, GoTo, disk, NoFault
<1>2. ~Writing("migration") /\ Storage /\ Course
  BY <1>1 DEF Writing, Invariant
<1>3. Loaded("migration")' /\ file.registry # None
  BY <1>1, <1>2, FilesSame, Contents
     DEF Course, Placed, MigrationLoaded, RegistryThere, Same, Writing
<1>4. Placed'
  BY <1>1, <1>3, MoveOnPlaces, Contents
     DEF Placed, MarkedWhenFresh, MigrationLoaded, RegistryThere, MigrationThere,
         MigrationPcs, FreshPcs
<1>5. Running'
  BY <1>1 DEF Running
<1> QED
  BY <1>1, <1>2, <1>4, <1>5, MoveOnKeeps DEF MigrationPcs, FreshPcs, Pcs, Course, RestTyped

\* The registry, and what is complete, while the user works.
LEMMA UpIs ==
    ASSUME Invariant, At("up")
    PROVE  /\ Storage /\ Course /\ pc = "up" /\ writing = Idle
           /\ file.registry # None /\ file.registry \in ValueOf("registry")
           /\ Values("registry") = {file.registry} /\ Active \in Account
           /\ source # None => file.migration # None /\ Done(file.migration)
<1>1. Storage /\ Course /\ pc = "up" /\ writing = Idle
  BY DEF Invariant, At
<1>2. file.registry # None
  BY <1>1 DEF Course, Placed, RegistryThere, Writing
<1>3. source # None => file.migration # None /\ Done(file.migration)
  BY <1>1 DEF Course, Ahead, Writing
<1>4. file.registry \in ValueOf("registry") /\ Values("registry") = {file.registry}
  BY <1>1, <1>2, AtRest, Contents
<1>5. Active \in Account
  BY <1>4, Contents DEF Active, Registry
<1> QED
  BY <1>1, <1>2, <1>3, <1>4, <1>5

LEMMA WorkKeeps ==
    ASSUME Invariant, Work
    PROVE  Invariant'
<1>1. /\ UNCHANGED <<file, swap, stray, writing, source, owner, backup, pc, mem, faults>>
      /\ At("up") /\ db' = [db EXCEPT ![Active] = Worked]
  BY DEF Work, NoFault
<1>2. /\ Storage /\ Course /\ pc = "up" /\ writing = Idle /\ Active \in Account
      /\ Values("registry") = {file.registry} /\ file.registry \in ValueOf("registry")
      /\ source # None => file.migration # None /\ Done(file.migration)
  BY <1>1, UpIs
<1>3. Storage' /\ Same("migration") /\ Same("registry") /\ Same("marker")
  BY <1>1, <1>2, FilesSame, Contents
<1>4. db \in [Account -> Content \cup {None}] /\ Worked \in Content
  BY <1>2 DEF Course, RestTyped, Content
<1>5. Worked \notin {None, Empty}
  BY <1>4, InstallAssumption DEF InstallAssumption, Worked, Empty
<1>6. RestTyped'
  BY <1>1, <1>2, <1>4 DEF Course, RestTyped
<1>7. Placed'
  BY <1>1, <1>2, <1>3
     DEF Course, Placed, Places, Worlds, MarkedWhenFresh, MigrationLoaded, RegistryThere,
         MigrationThere, Same
<1>8. Ahead'
  BY <1>1, <1>2, <1>3 DEF Course, Ahead, Same, MigrationPcs, Writing
<1>9. Left'
  <2>1. \A a \in Account : db[a] \notin {None, Empty} => db'[a] \notin {None, Empty}
    BY <1>1, <1>2, <1>4, <1>5
  <2> QED
    BY <1>1, <1>2, <1>3, <2>1 DEF Course, Left, Same
<1>10. Used'
  <2>1. Active \in file.registry.known
    BY <1>2, Contents DEF Active
  <2> QED
    BY <1>1, <1>2, <1>3, <1>4, <2>1 DEF Course, Used, Same, FreshPcs, Account
<1>11. Backups' /\ Running'
  BY <1>1, <1>2, <1>3 DEF Course, Backups, Running, Same
<1> QED
  BY <1>3, <1>6, <1>7, <1>8, <1>9, <1>10, <1>11 DEF Invariant, Course

\* A new account or a switch: the registry only grows.
LEMMA RegistryKeeps ==
    ASSUME Invariant, At("up"), NEW r \in ValueOf("registry"),
           file.registry.known \subseteq r.known,
           Save("registry", r, pc'), pc' \in {"up", "exit"},
           \/ db' = db
           \/ Other \notin file.registry.known /\ db' = [db EXCEPT ![Other] = Empty],
           UNCHANGED <<swap, stray, source, owner, backup, mem, faults>>
    PROVE  Invariant'
<1>1. /\ Storage /\ Course /\ pc = "up" /\ writing = Idle /\ UNCHANGED file
      /\ file.registry # None
      /\ Values("registry") = {file.registry} /\ file.registry \in ValueOf("registry")
      /\ source # None => file.migration # None /\ Done(file.migration)
  BY UpIs DEF Save
<1>2. Storage' /\ Saved("registry", r)
      /\ \A g \in File \ {"registry"} : Same(g) /\ ~Writing(g)'
  BY <1>1, SaveDoes, Contents DEF Save
<1>m. /\ Same("migration") /\ Same("marker") /\ ~Writing("migration")' /\ ~Writing("marker")'
      /\ \A v : v \in Values("registry")' <=> v = file.registry \/ v = r
  BY <1>1, <1>2, Contents DEF File, Saved
<1>3. db \in [Account -> Content \cup {None}] /\ Empty \in Content /\ Empty # Worked
      /\ Other \in Account
  BY <1>1, InstallAssumption
     DEF Course, RestTyped, Content, Empty, Worked, InstallAssumption, Account
<1>4. RestTyped'
  BY <1>1, <1>3 DEF Course, RestTyped, Pcs
<1>5. Placed'
  BY <1>1, <1>m
     DEF Course, Placed, Places, Worlds, MarkedWhenFresh, MigrationLoaded, RegistryThere,
         MigrationThere, Same, FreshPcs, MigrationPcs
<1>6. Ahead'
  BY <1>1, <1>3, <1>m DEF Course, Ahead, Same, MigrationPcs
<1>7. Left'
  <2>1. ASSUME NEW v \in Values("migration"), Done(v)
        PROVE  /\ v.target \in Account /\ db'[v.target] \notin {None, Empty}
               /\ v.target \in file.registry.known /\ v.target \in r.known
    <3>1. /\ v.target \in Account /\ db[v.target] \notin {None, Empty}
          /\ v.target \in file.registry.known
      BY <1>1, <2>1 DEF Course, Left
    <3> QED
      BY <1>3, <3>1
  <2>2. source # None => Found("migration")
    BY <1>1 DEF Course, Left
  <2> QED
    BY <1>m, <2>1, <2>2 DEF Left, Same
<1>8. Used'
  BY <1>1, <1>3, <1>m DEF Course, Used, FreshPcs
<1>9. Backups' /\ Running'
  BY <1>1, <1>m DEF Course, Backups, Running, Same
<1> QED
  BY <1>2, <1>4, <1>5, <1>6, <1>7, <1>8, <1>9 DEF Invariant, Course

LEMMA UserKeeps ==
    ASSUME Invariant, CreateOther \/ (\E account \in Account : Switch(account)) \/ Close
    PROVE  Invariant'
<1>1. CASE CreateOther
  <2> PICK email \in Email :
        Save("registry", [file.registry EXCEPT !.known = Account, !.email = email], "up")
    BY <1>1 DEF CreateOther
  <2> DEFINE r == [file.registry EXCEPT !.known = Account, !.email = email]
  <2>1. /\ At("up") /\ Other \notin file.registry.known /\ db' = [db EXCEPT ![Other] = Empty]
        /\ Save("registry", r, pc') /\ pc' = "up"
        /\ UNCHANGED <<swap, stray, source, owner, backup, mem, faults>>
    BY <1>1 DEF CreateOther, Save, GoTo, NoFault
  <2>2. r \in ValueOf("registry") /\ file.registry.known \subseteq r.known
    BY <2>1, UpIs, Contents DEF Registry, Account
  <2> QED
    BY <2>1, <2>2, RegistryKeeps
<1>2. ASSUME NEW account \in Account, Switch(account)
      PROVE  Invariant'
  <2>1. /\ At("up") /\ account \in file.registry.known /\ db' = db
        /\ Save("registry", [file.registry EXCEPT !.active = account], pc') /\ pc' = "exit"
        /\ UNCHANGED <<swap, stray, source, owner, backup, mem, faults>>
    BY <1>2 DEF Switch, Save, GoTo, disk, NoFault
  <2>2. /\ [file.registry EXCEPT !.active = account] \in ValueOf("registry")
        /\ file.registry.known \subseteq [file.registry EXCEPT !.active = account].known
    BY <2>1, UpIs, Contents DEF Registry
  <2> QED
    BY <2>1, <2>2, RegistryKeeps
<1>3. CASE Close
  BY <1>3, QuitKeeps DEF Close, At
<1> QED
  BY <1>1, <1>2, <1>3

\* The old version is used between two starts.
LEMMA OldVersionKeeps ==
    ASSUME Invariant, OldVersion
    PROVE  Invariant'
<1>1. /\ UNCHANGED <<file, swap, stray, writing, backup, db, pc, mem, faults>>
      /\ owner' \in Owner
      /\ pc = "down" /\ writing = Idle /\ source \in 1..MaxEdits /\ source' = source + 1
  BY DEF OldVersion, At, NoFault
<1>2. Storage /\ Course
  BY DEF Invariant
<1>3. Storage' /\ Same("migration") /\ Same("registry") /\ Same("marker")
  BY <1>1, <1>2, FilesSame, Contents
<1>4. source \in Legacy /\ source' \in Legacy /\ source < source'
  BY <1>1, InstallAssumption DEF Legacy, InstallAssumption
<1>5. source # None /\ source' # None
  BY <1>4, InstallAssumption DEF InstallAssumption, Content
<1>6. RestTyped'
  BY <1>1, <1>2, <1>4 DEF Course, RestTyped
<1>7. Placed'
  BY <1>1, <1>2, <1>3, <1>5
     DEF Course, Placed, Places, Worlds, MarkedWhenFresh, MigrationLoaded, RegistryThere,
         MigrationThere, Same, FreshPcs, MigrationPcs
<1>8. Ahead'
  BY <1>1, <1>2, <1>3, <1>5 DEF Course, Ahead, Same, MigrationPcs, Writing
<1>9. Left' /\ Used'
  BY <1>1, <1>2, <1>3, <1>5 DEF Course, Left, Used, Same
<1>10. Backups'
  <2>1. backup' # None => source' # None /\ backup' <= source'
    <3>1. backup # None => backup \in Legacy /\ backup <= source
      BY <1>2 DEF Course, Backups, RestTyped
    <3> QED
      BY <1>1, <1>4, <1>5, <3>1 DEF Legacy
  <2> QED
    BY <1>1, <1>2, <1>3, <2>1 DEF Course, Backups, Same
<1>11. Running'
  BY <1>1 DEF Running
<1> QED
  BY <1>3, <1>6, <1>7, <1>8, <1>9, <1>10, <1>11 DEF Invariant, Course

----------------------------------------------------------------------------
(* The theorems. *)

LEMMA InvariantInit ==
    ASSUME Init
    PROVE  Invariant
<1>a. Anonymous \in Owner
  BY DEF Anonymous, Owner
<1>1. /\ \A f \in File : file[f] = None /\ swap[f] = None /\ ~Writing(f) /\ ~Journalled(f)
      /\ DOMAIN file = File /\ DOMAIN swap = File /\ stray = {} /\ writing = Idle
      /\ source \in {None, 1} /\ owner \in Owner /\ backup = None
      /\ db = [a \in Account |-> None] /\ pc = "down" /\ mem = NewState /\ faults = 0
  BY <1>a DEF Init, Writing, Journalled
<1>2. \A f \in File : Values(f) = {}
  BY <1>1 DEF Values, OnDisk
<1>m. /\ Values("marker") = {} /\ Values("migration") = {} /\ Values("registry") = {}
      /\ file.marker = None /\ swap.marker = None /\ swap.migration = None
      /\ ~Writing("marker") /\ ~Writing("migration") /\ ~Writing("registry")
  BY <1>1, <1>2, Contents
<1>3. Storage
  <2>1. FilesTyped
    BY <1>1 DEF FilesTyped
  <2>2. WritingTyped
    BY <1>1 DEF WritingTyped
  <2>3. \A f \in File : Swapping(f)
    BY <1>1, Absent DEF Swapping
  <2> QED
    BY <2>1, <2>2, <2>3 DEF Storage
<1>4. RestTyped
  <2>1. None \notin Content /\ 1 \in Legacy /\ 0 \in 0..MaxFaults
    BY InstallAssumption DEF InstallAssumption, Legacy
  <2>2. mem \in State
    BY <1>1 DEF State, NewState
  <2> QED
    BY <1>1, <2>1, <2>2 DEF RestTyped, Pcs
<1>5. Placed
  BY <1>1, <1>m
     DEF Placed, Places, Worlds, MarkedWhenFresh, MigrationLoaded, RegistryThere,
         MigrationThere, FreshPcs, MigrationPcs
<1>6. Ahead
  <2>1. None # Worked
    BY InstallAssumption DEF InstallAssumption, Content
  <2> QED
    BY <1>1, <1>m, <2>1 DEF Ahead, MigrationPcs
<1>7. Left /\ Used
  <2>1. None # Worked /\ Other \in Account
    BY InstallAssumption DEF InstallAssumption, Content, Account
  <2> QED
    BY <1>1, <1>m, <2>1 DEF Left, Used, FreshPcs
<1>8. Backups /\ Running
  BY <1>1, <1>m DEF Backups, Running, NewState
<1> QED
  BY <1>3, <1>4, <1>5, <1>6, <1>7, <1>8 DEF Invariant, Course

LEMMA InvariantNext ==
    ASSUME Invariant, [Next]_vars
    PROVE  Invariant'
<1>1. CASE Next
  <2>1. CASE StartStep
    BY <2>1, WriteStepKeeps, EndKeeps, LoadingKeeps, DecideKeeps, FreshStepKeeps,
       MigrationStepKeeps, OpenKeeps DEF StartStep
  <2>2. CASE ~StartStep
    BY <1>1, <2>2, WriteFailsKeeps, MigrationStepKeeps, EndKeeps, WorkKeeps, UserKeeps,
       OldVersionKeeps DEF Next
  <2> QED
    BY <2>1, <2>2
<1>2. CASE UNCHANGED vars
  <2>1. /\ UNCHANGED <<file, swap, stray, writing, source, owner, backup, db, pc, mem, faults>>
        /\ Storage /\ Course
    BY <1>2 DEF vars, Invariant
  <2>2. Storage' /\ Same("migration") /\ Same("registry") /\ Same("marker")
    BY <2>1, FilesSame, Contents
  <2>3. RestTyped' /\ Placed'
    <3>1. RestTyped'
      BY <2>1 DEF Course, RestTyped
    <3>2. (Writing("marker")' <=> Writing("marker")) /\ (Marked' <=> Marked)
      BY <2>1, <2>2 DEF Same, Marked
    <3>3. Places' /\ Worlds' /\ MarkedWhenFresh'
      BY <2>1, <2>2, <3>2 DEF Course, Placed, Places, Worlds, MarkedWhenFresh, Same
    <3>4. MigrationLoaded' /\ RegistryThere' /\ MigrationThere'
      BY <2>1, <2>2 DEF Course, Placed, MigrationLoaded, RegistryThere, MigrationThere, Same
    <3> QED
      BY <3>1, <3>3, <3>4 DEF Placed
  <2>4. Ahead'
    BY <2>1, <2>2 DEF Course, Ahead, Same, Prior
  <2>5. Left' /\ Used' /\ Backups' /\ Running'
    BY <2>1, <2>2 DEF Course, Left, Used, Backups, Running, Same
  <2> QED
    BY <2>2, <2>3, <2>4, <2>5 DEF Invariant, Course
<1> QED
  BY <1>1, <1>2

\* What files, journals and left-over files hold, together with where the start
\* is and what it has read (migration.rs, registry.rs, paths.rs).
THEOREM InvariantHolds == Spec => []Invariant
<1>1. Init => Invariant
  BY InvariantInit
<1>2. Invariant /\ [Next]_vars => Invariant'
  BY InvariantNext
<1> QED
  BY <1>1, <1>2, PTL DEF Spec

\* Every reachable state is well typed.
THEOREM TypeCorrect == Spec => []TypeOK
<1>1. Invariant => TypeOK
  <2>1. FilesTyped /\ WritingTyped /\ RestTyped =>
          TypeOK
    BY DEF FilesTyped, WritingTyped, WriteSteps, RestTyped, Pcs, FreshPcs, MigrationPcs, TypeOK
  <2> QED
    BY <2>1 DEF Invariant, Storage, Course
<1> QED
  BY <1>1, InvariantHolds, PTL

\* Where there was a legacy database the app never comes up without its data
\* (ensure_active_account, run_migration).
THEOREM DataIsThere == Spec => []NoEmptyDefault
<1>1. ASSUME Invariant
      PROVE  NoEmptyDefault
  <2> SUFFICES ASSUME pc = "up", source # None
               PROVE  Phase = "Complete" /\ db[file.migration.target] \notin {None, Empty}
    BY DEF NoEmptyDefault
  <2>1. Storage /\ Course
    BY <1>1 DEF Invariant
  <2>2. file.migration # None /\ Done(file.migration)
    BY <2>1 DEF Course, Placed, Places, Ahead
  <2>3. file.migration \in Values("migration")
    BY <2>1, <2>2, FilesAre, Contents
  <2> QED
    BY <2>1, <2>2, <2>3 DEF Course, Left, Phase, Done
<1> QED
  BY <1>1, InvariantHolds, PTL

\* Neither ensure_fresh_database nor quarantine_invalid_target replaces what the
\* user did, whatever crashes and failures came before.
THEOREM WorkStays == Spec => WorkIsKept
<1>1. ASSUME Invariant, [Next]_vars
      PROVE  [\A a \in Account : db[a] = Worked /\ ~Marked => db'[a] = Worked]_db
  <2> SUFFICES ASSUME NEW a \in Account, db[a] = Worked, ~Marked, db' # db, Next
               PROVE  db'[a] = Worked
    BY <1>1 DEF vars
  <2>1. Storage /\ Course /\ db \in [Account -> Content \cup {None}]
    BY <1>1 DEF Invariant, Course, RestTyped
  <2>2. CASE Database
    BY <1>1, <2>2, FreshIs DEF Database, At, FreshPcs
  <2>3. CASE Quarantine \/ Copy
    BY <1>1, <2>3, MigrationIs DEF Quarantine, Copy, At, MigrationPcs
  <2>4. CASE Work
    BY <1>1, <2>1, <2>4, UpIs DEF Work
  <2>5. CASE CreateOther
    <3>1. Other \notin file.registry.known /\ file.registry \in Values("registry")
      BY <1>1, <2>5, UpIs DEF CreateOther
    <3>2. db[Other] # Worked
      BY <2>1, <3>1 DEF Course, Used
    <3> QED
      BY <2>1, <2>5, <3>2 DEF CreateOther, Account
  <2> QED
    BY <2>2, <2>3, <2>4, <2>5
       DEF Next, StartStep, Start, WriteStep, LoadFile, FromJournal, NotRecovered, FromStray,
           DecideOpen, DecideFresh, DecideResume, DecideMigrate, DecideNot, FreshStep,
           MigrationStep, Open, Exit, WriteFails, StepFails, Crash, Switch, Close, OldVersion,
           MarkCreated, SaveFresh, MarkCommitted, SaveAgain, Unmark, ChooseTarget,
           RefuseTarget, Preserve, KeepBackup, TakeBackup, Review, Reviewed, Verify, Register, Activate, Complete, Fail, Quit, Down, disk
<1> QED
  BY <1>1, InvariantHolds, PTL DEF Spec, WorkIsKept

\* Only write_json_atomic changes the migration state.
LEMMA StateChanges ==
    ASSUME Invariant, Next, file'.migration # file.migration
    PROVE  (WriteStep \/ WriteFails) /\ Writing("migration")
<1>1. Storage /\ Course /\ DOMAIN file = File
  BY DEF Invariant, Storage, FilesTyped
<1>2. WriteStep \/ WriteFails
  <2>1. CASE Unmark
    BY <1>1, <2>1 DEF Unmark, File
  <2> QED
    BY <2>1
       DEF Next, StartStep, Start, LoadFile, FromJournal, NotRecovered, FromStray, DecideOpen,
           DecideFresh, DecideResume, DecideMigrate, DecideNot, FreshStep, MigrationStep, Open,
           Exit, StepFails, Crash, Work, CreateOther, Switch, Close, OldVersion, Database,
           MarkCreated, SaveFresh, MarkCommitted, SaveAgain, ChooseTarget, RefuseTarget, Preserve,
           KeepBackup, TakeBackup, Review, Reviewed, Quarantine, Copy, Verify, Register, Activate, Complete, Fail, Quit, Down, Save
<1>3. ~Writing("migration") => file'.migration = file.migration
  BY <1>1, <1>2, WriteStepDoes, WriteFailsDoes, Contents DEF Outcome
<1> QED
  BY <1>2, <1>3

\* A migration ends with what the old version had written by then, and the
\* account that it was copied to is the one that is opened (run_migration).
THEOREM MigrationIsCurrent == Spec => CompleteIsCurrent
<1> DEFINE Ends ==
      pc = "open" /\ file'.migration # file.migration /\ file'.migration # None
        /\ file'.migration.phase = "Complete"
      => /\ db[file'.migration.target] = source
         /\ backup = source
         /\ file.registry.active = file'.migration.target
<1>1. ASSUME Invariant, [Next]_vars
      PROVE  [Ends]_<<file, pc>>
  <2> SUFFICES ASSUME pc = "open", file'.migration # file.migration, file'.migration # None,
                      file'.migration.phase = "Complete", Next
               PROVE  /\ db[file'.migration.target] = source
                      /\ backup = source
                      /\ file.registry.active = file'.migration.target
    BY <1>1 DEF vars
  <2>1. (WriteStep \/ WriteFails) /\ Writing("migration") /\ Storage /\ Course
    BY <1>1, StateChanges DEF Invariant
  <2>2. /\ mem = writing.value /\ db[mem.target] = source /\ backup = source
        /\ file.registry.active = mem.target
    BY <2>1 DEF Course, Running
  <2>3. CASE WriteStep
    BY <2>1, <2>2, <2>3, WriteStepDoes, Contents DEF Outcome
  <2>4. CASE WriteFails
    <3>1. writing.step \in Early /\ file'.migration = Prior("migration")
      BY <2>1, <2>4, WriteFailsDoes, Contents
    <3> QED
      BY <2>1, <3>1 DEF Course, Ahead, Done
  <2> QED
    BY <2>1, <2>3, <2>4
<1> QED
  BY <1>1, InvariantHolds, PTL DEF Spec, CompleteIsCurrent, Ends

=============================================================================
