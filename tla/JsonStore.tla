----------------------------- MODULE JsonStore -----------------------------
(***************************************************************************)
(* The database of services (serialize.cpp and db_json.cpp) through        *)
(* crashes, restarts, full disks and modules that come and go.             *)
(*                                                                         *)
(* A type is known, if it is a module's, while the module is loaded.  Some *)
(* modules delete their objects when they go; what the others leave in     *)
(* memory is an orphan until the type is known again, which then adopts    *)
(* it: it is saved like any other object, but no list of the module has it *)
(* any more.  A save copies the objects of known types into                *)
(* DBJSON::databases, where the entries of unknown types stay, backs the   *)
(* file up and writes the copy over it.  The file is read at the start     *)
(* only; a module that is loaded later gets its objects from the copy.     *)
(*                                                                         *)
(* What there is of a type is a sequence of numbers, a number for what one *)
(* change made of a module's objects; two numbers are the objects twice.   *)
(* A file that was not written to the end cannot be read.  All types share *)
(* one file: none of those in the repository names an owner.               *)
(***************************************************************************)
EXTENDS Naturals, FiniteSets, Sequences

CONSTANTS Types,       \* serializable types
          Core,        \* those that are always known
          Freed,       \* those of modules that delete their objects
          Keep,        \* daily_backups and monthly_backups
          Preserve,    \* preserve_unknown_data
          Ignore,      \* ignore_backup_failure
          Full,        \* whether the disk may be full
          MonthLength, \* days of a month
          LastDay,     \* bound: days
          MaxChanges,  \* bound: changes of the data
          MaxCopies    \* bound: how often the objects of a type are in memory

ASSUME TypesAssumption == Core \subseteq Types /\ Freed \subseteq Types
ASSUME KeepAssumption == Keep \in Nat \ {0} /\ MonthLength \in Nat \ {0}
ASSUME SwitchAssumption == {Preserve, Ignore, Full} \subseteq BOOLEAN
ASSUME BoundsAssumption == {LastDay, MaxChanges, MaxCopies} \subseteq Nat

VARIABLES run,      \* what the process is doing
          known,    \* the types that are known
          mem,      \* the objects that services and their modules work with
          orphans,  \* the objects in memory that modules have left behind
          store,    \* the state of DBJSON
          main,     \* the database file
          backups,  \* the files of the backup directory
          today,    \* the day
          hist      \* history: changes so far, the last complete save, faults

storeVars == <<run, known, mem, orphans, store, main, backups, today, hist>>

Data == [Types -> Seq(1 .. MaxChanges)]
Empty == [t \in Types |-> << >>]
Kinds == {"daily", "monthly"}
Stamp(kind, day) == IF kind = "daily" THEN day ELSE day \div MonthLength
Stamps == 0 .. LastDay

File(state, data) == [state |-> state, data |-> data]
Good(data) == File("good", data)
Damaged == File("damaged", Empty)
Missing == File("missing", Empty)
Closed == [opened |-> FALSE, loaded |-> FALSE, data |-> Empty]

StoreInit ==
    /\ run = [pc |-> "down", quitting |-> FALSE]
    /\ known = {} /\ mem = Empty /\ orphans = Empty /\ store = Closed
    /\ main = Missing
    /\ backups = [kind \in Kinds |-> [s \in Stamps |-> Missing]]
    /\ today = 0
    /\ hist = [changes |-> 0, saved |-> Empty, blank |-> FALSE, failed |-> FALSE]

Up == run.pc = "idle"
InMemory(t) == orphans[t] \o mem[t]
Only(S, data) == [t \in Types |-> IF t \in S THEN data[t] ELSE << >>]

(***************************************************************************)
(* Start and end.                                                          *)
(***************************************************************************)
\* OnLoadDatabase.  Services start without data if the file cannot be read.
Load(S) ==
    IF main.state = "good"
    THEN /\ store' = [opened |-> TRUE, loaded |-> TRUE, data |-> main.data]
         /\ mem' = Only(S, main.data)
         /\ UNCHANGED hist
    ELSE /\ store' = Closed
         /\ mem' = Empty
         /\ hist' = [hist EXCEPT !.blank = @ \/ main.state = "damaged"]

Start(S) ==
    /\ run.pc = "down" /\ Core \subseteq S
    /\ run' = [pc |-> "idle", quitting |-> FALSE]
    /\ known' = S
    /\ Load(S)
    /\ UNCHANGED <<orphans, main, backups, today>>

Down ==
    /\ run' = [pc |-> "down", quitting |-> FALSE]
    /\ known' = {} /\ mem' = Empty /\ orphans' = Empty /\ store' = Closed
    /\ UNCHANGED <<today, hist>>

\* The main loop ends without another save.
Exit ==
    /\ Up /\ run.quitting
    /\ Down /\ UNCHANGED <<main, backups>>

\* The process dies at any point.  A copy that was being made is damaged.
Crash ==
    /\ run.pc # "down"
    /\ Down
    /\ UNCHANGED main
    /\ IF run.pc \in Kinds
       THEN backups' \in {backups, [backups EXCEPT ![run.pc][Stamp(run.pc, today)] = Damaged]}
       ELSE UNCHANGED backups

(***************************************************************************)
(* Changes, and modules.                                                   *)
(***************************************************************************)
Change(t) ==
    /\ Up /\ ~run.quitting /\ t \in known /\ hist.changes < MaxChanges
    /\ mem' = [mem EXCEPT ![t] = <<hist.changes + 1>>]
    /\ hist' = [hist EXCEPT !.changes = @ + 1]
    /\ UNCHANGED <<run, known, orphans, store, main, backups, today>>

\* The module takes its type along, and its objects if it deletes them.
UnloadModule_Leaks(t) ==
    /\ Up /\ ~run.quitting /\ t \in known \ Core
    /\ known' = known \ {t}
    /\ mem' = [mem EXCEPT ![t] = << >>]
    /\ orphans' = [orphans EXCEPT ![t] = InMemory(t)]
    /\ UNCHANGED <<run, store, main, backups, today, hist>>
UnloadModule(t) ==
    /\ Up /\ ~run.quitting /\ t \in known \ Core
    /\ known' = known \ {t}
    /\ mem' = [mem EXCEPT ![t] = << >>]
    /\ orphans' = [orphans EXCEPT ![t] = IF t \in Freed THEN @ ELSE InMemory(t)]
    /\ UNCHANGED <<run, store, main, backups, today, hist>>

\* The type adopts what was left behind, and CreateTypes with
\* OnSerializeTypeCreate makes what is stored once more.
LoadModule(t) ==
    /\ Up /\ ~run.quitting /\ t \notin known
    /\ known' = known \cup {t}
    /\ mem' = [mem EXCEPT ![t] = IF store.loaded THEN store.data[t] ELSE << >>]
    /\ UNCHANGED <<run, orphans, store, main, backups, today, hist>>
    /\ Len(InMemory(t)') <= MaxCopies

(***************************************************************************)
(* OnSaveDatabase.                                                         *)
(***************************************************************************)
\* Steps 1 and 2: the entries of known types are replaced, orphans are skipped.
Collect(data) == [t \in Types |-> IF t \in known THEN InMemory(t)
                                    ELSE IF Preserve THEN data[t] ELSE << >>]

\* Asked for by a timer, a signal or a command, which may also end services;
\* before the main loop ends there may be another one.
Save(quit) ==
    /\ Up
    /\ store' = [store EXCEPT !.opened = TRUE, !.data = Collect(@)]
    /\ run' = [pc |-> IF main.state = "missing" THEN "open" ELSE "daily",
               quitting |-> run.quitting \/ quit]
    /\ hist' = [hist EXCEPT !.blank = @ \/ main.state = "damaged"]
    /\ UNCHANGED <<known, mem, orphans, main, backups, today>>

\* CreateBackup: a copy named for the day or month, then the oldest go.
There(copies) == {s \in Stamps : copies[s].state # "missing"}
Rotate_Early(copies) ==
    [s \in Stamps |-> IF Cardinality({r \in There(copies) : r >= s}) >= Keep
                      THEN Missing ELSE copies[s]]
Rotate(copies) ==
    [s \in Stamps |-> IF Cardinality({r \in There(copies) : r >= s}) > Keep
                      THEN Missing ELSE copies[s]]

CreateBackup_Once(kind, copy) ==
    [backups EXCEPT ![kind] =
       Rotate([@ EXCEPT ![Stamp(kind, today)] = IF @.state = "missing" THEN copy ELSE @])]
CreateBackup(kind, copy) ==
    [backups EXCEPT ![kind] = Rotate([@ EXCEPT ![Stamp(kind, today)] = copy])]

AfterBackup(kind) == IF kind = "daily" THEN "monthly" ELSE "open"
Backup(kind) ==
    /\ run.pc = kind
    /\ backups' = CreateBackup(kind, main)
    /\ run' = [run EXCEPT !.pc = AfterBackup(kind)]
    /\ UNCHANGED <<known, mem, orphans, store, main, today, hist>>

\* Services are to quit then, but the save goes on.
BackupFails(kind) ==
    /\ Full /\ run.pc = kind
    /\ backups' \in {CreateBackup(kind, c) :
                       c \in {Damaged, backups[kind][Stamp(kind, today)]}}
    /\ run' = [pc |-> AfterBackup(kind), quitting |-> run.quitting \/ ~Ignore]
    /\ hist' = [hist EXCEPT !.failed = TRUE]
    /\ UNCHANGED <<known, mem, orphans, store, main, today>>

\* yyjson_mut_write_file empties the file and writes it.
OpenFile ==
    /\ run.pc = "open"
    /\ main' = Damaged
    /\ run' = [run EXCEPT !.pc = "write"]
    /\ UNCHANGED <<known, mem, orphans, store, backups, today, hist>>

Write ==
    /\ run.pc = "write"
    /\ main' = Good(store.data)
    /\ run' = [run EXCEPT !.pc = "idle"]
    /\ hist' = [hist EXCEPT !.saved = store.data]
    /\ UNCHANGED <<known, mem, orphans, store, backups, today>>

WriteFails ==
    /\ Full /\ run.pc = "write"
    /\ run' = [pc |-> "idle", quitting |-> TRUE]
    /\ UNCHANGED <<known, mem, orphans, store, main, backups, today, hist>>

NextDay ==
    /\ run.pc \in {"idle", "down"} /\ today < LastDay
    /\ today' = today + 1
    /\ UNCHANGED <<run, known, mem, orphans, store, main, backups, hist>>

StoreNext ==
    \/ \E S \in SUBSET Types : Start(S)
    \/ Exit \/ Crash \/ OpenFile \/ Write \/ WriteFails \/ NextDay
    \/ \E t \in Types : Change(t) \/ UnloadModule(t) \/ LoadModule(t)
    \/ \E quit \in BOOLEAN : Save(quit)
    \/ \E kind \in Kinds : Backup(kind) \/ BackupFails(kind)

StoreSpec == StoreInit /\ [][StoreNext]_storeVars

-----------------------------------------------------------------------------
FileType == [state : {"good", "damaged", "missing"}, data : Data]

\* Types of the state; no module works with objects of a type that is not known,
\* and nothing is left behind by those that delete their objects.
StoreTypeOK ==
    /\ run \in [pc : {"down", "idle", "open", "write"} \cup Kinds, quitting : BOOLEAN]
    /\ known \subseteq Types /\ mem \in Data /\ orphans \in Data
    /\ store \in [opened : BOOLEAN, loaded : BOOLEAN, data : Data]
    /\ main \in FileType
    /\ backups \in [Kinds -> [Stamps -> FileType]]
    /\ today \in 0 .. LastDay
    /\ hist \in [changes : 0 .. MaxChanges, saved : Data, blank : BOOLEAN, failed : BOOLEAN]
    /\ \A t \in Types \ known : mem[t] = << >>
    /\ \A t \in Freed \cup Core : orphans[t] = << >>

Files == {main} \cup {backups[kind][s] : kind \in Kinds, s \in Stamps}

\* The last save that was completed is in the database file or in a backup,
\* wherever a crash hits, until a backup has failed or services went on with
\* a damaged file; and the state has its type.
Recoverable ==
    /\ StoreTypeOK
    /\ hist.saved # Empty /\ ~hist.blank /\ ~hist.failed => Good(hist.saved) \in Files

\* RecoverableFull: the same on a full disk ("Failure to do so may result in
\* total data loss if you ever run out of disk space or have a power failure
\* during a database write", data/anope.example.conf:1327, of having backups).
RecoverableFull == hist.saved # Empty /\ ~hist.blank => Good(hist.saved) \in Files

\* A backup that was taken on an earlier day, or month, stays as it is until
\* there are enough newer ones: a bad day does not spoil the days before; and a
\* save leaves alone what the file has of types that are not known.
EarlierKept ==
    /\ [][\A kind \in Kinds : \A s \in There(backups[kind]) :
         s < Stamp(kind, today) /\ backups'[kind][s] # backups[kind][s] =>
            Cardinality({r \in There(backups'[kind]) : r > s}) >= Keep]_storeVars
    /\ [][Preserve /\ ~hist.blank =>
         \A t \in Types \ known : hist'.saved[t] = hist.saved[t]]_storeVars

\* A module that is loaded again works with what was last saved of its types, if
\* services have read the file; and if it deletes its objects when it goes, that
\* is all there is in memory, so that the next save writes it once.
ReloadRestores ==
    [][store.loaded =>
         \A t \in known' \ known :
            /\ mem'[t] = hist.saved[t]
            /\ t \in Freed => InMemory(t)' = hist.saved[t]]_storeVars

\* ReloadOnce: the same of the other modules.  Orphans are adopted ("They will be
\* rehooked later if reloaded", serialize.cpp:179) and made again from the file.
ReloadOnce ==
    [][store.loaded => \A t \in known' \ known : InMemory(t)' = hist.saved[t]]_storeVars

\* ReloadKeeps: what a module works with is what was saved, whether or not there
\* was a file to read at the start ("When a module is unloaded its data will be
\* kept in the database so that it continues to function when reloaded",
\* data/anope.example.conf:1352).
ReloadKeeps ==
    [][Up /\ ~hist.blank =>
         \A t \in known' \ known : mem'[t] = hist.saved[t]]_storeVars
=============================================================================
