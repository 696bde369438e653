-------------------------- MODULE DatabaseSealing --------------------------
(***************************************************************************)
(* How SyncService opens the local database, and replaces the plain one of *)
(* an older version by an encrypted one (_migratePlaintextDatabaseIfNeeded).*)
(*                                                                         *)
(* The database is a file and, while plain, a write-ahead log beside it.   *)
(* The plain file is copied into an encrypted temporary file; then it is   *)
(* renamed to a backup, the temporary file takes its place and the backup  *)
(* is deleted.  The process may be killed between any two of these steps,  *)
(* and any of them may throw, after which initialize() is called again.    *)
(* What a file holds is the number of transactions committed to it.        *)
(***************************************************************************)
EXTENDS Naturals

CONSTANTS
    MaxCommits,   \* bound: transactions committed
    MaxFaults     \* bound: steps that throw, and kills

ASSUME SealingAssumption == MaxCommits \in Nat /\ MaxFaults \in Nat

VARIABLES
    main,        \* the database file
    wal,         \* transactions in the write-ahead log of a plain database
    backup,      \* <path>.plaintext-backup
    temp,        \* <path>.sqlcipher-migrating
    stored,      \* the secure store holds the key
    pc,          \* the next step of initialize()
    faults,      \* faults so far
    committed    \* history: transactions ever committed

files == <<main, wal, backup, temp>>
vars  == <<files, stored, pc, faults, committed>>

File == [form : {"none", "plain", "partial", "sealed"}, data : 0 .. MaxCommits]
Gone == [form |-> "none", data |-> 0]

Sealed(n) == [form |-> "sealed", data |-> n]

Exists(file) == file.form # "none"

Steps == {"recover", "inspect", "checkpoint", "export", "set_aside", "install",
          "drop_backup", "open"}

TypeOK ==
    /\ main \in File /\ backup \in File /\ temp \in File
    /\ wal \in 0 .. MaxCommits
    /\ stored \in BOOLEAN
    /\ pc \in Steps \cup {"closed", "ready"}
    /\ faults \in 0 .. MaxFaults
    /\ committed \in 0 .. MaxCommits

\* Before the first start: nothing, or the plain database of an older version.
Init ==
    /\ main \in {Gone} \cup [form : {"plain"}, data : 0 .. MaxCommits]
    /\ wal \in 0 .. MaxCommits
    /\ ~ Exists(main) => wal = 0
    /\ committed = main.data + wal
    /\ committed <= MaxCommits
    /\ backup = Gone /\ temp = Gone
    /\ stored = FALSE
    /\ pc = "closed"
    /\ faults = 0

-----------------------------------------------------------------------------

Step(from, to) == pc = from /\ pc' = to /\ UNCHANGED <<faults, committed>>

\* Mutant of LoadOrCreateKey: the key is used before it is stored.
KeepKeyInMemory ==
    /\ Step("closed", "recover")
    /\ UNCHANGED <<files, stored>>

LoadOrCreateKey ==
    /\ Step("closed", "recover")
    /\ stored' = TRUE
    /\ UNCHANGED files

\* Mutant of Recover: a backup without a database is left where it is.
SkipRecovery ==
    /\ Step("recover", "inspect")
    /\ UNCHANGED <<files, stored>>

\* An earlier process died between the two renames.
Recover ==
    /\ Step("recover", "inspect")
    /\ IF ~ Exists(main) /\ Exists(backup)
       THEN main' = backup /\ backup' = Gone
       ELSE UNCHANGED <<main, backup>>
    /\ UNCHANGED <<wal, temp, stored>>

NothingToMigrate ==
    /\ ~ Exists(main)
    /\ Step("inspect", "open")
    /\ UNCHANGED <<files, stored>>

\* Mutant of AlreadySealed: the backup of a finished migration is kept.
KeepBackup ==
    /\ main.form = "sealed"
    /\ Step("inspect", "open")
    /\ UNCHANGED <<files, stored>>

\* The backup is deleted once the encrypted file has been read with the key.
AlreadySealed ==
    /\ main.form = "sealed"
    /\ Step("inspect", "open")
    /\ backup' = Gone
    /\ UNCHANGED <<main, wal, temp, stored>>

\* Mutant of BeginMigration: what an interrupted export left is in the way.
BeginOnce ==
    /\ main.form = "plain" /\ ~ Exists(backup) /\ ~ Exists(temp)
    /\ Step("inspect", "checkpoint")
    /\ UNCHANGED <<files, stored>>

\* With a backup beside the plain file it would throw "Interrupted plaintext
\* database migration needs manual recovery": NeverManual.
BeginMigration ==
    /\ main.form = "plain" /\ ~ Exists(backup)
    /\ Step("inspect", "checkpoint")
    /\ temp' = Gone
    /\ UNCHANGED <<main, wal, backup, stored>>

\* Mutant of Checkpoint: the log is written back but stays.
KeepLog ==
    /\ Step("checkpoint", "export")
    /\ main' = [main EXCEPT !.data = @ + wal]
    /\ UNCHANGED <<wal, backup, temp, stored>>

\* Mutant of Checkpoint: the log is removed and not written back.
DropLog ==
    /\ Step("checkpoint", "export")
    /\ wal' = 0
    /\ UNCHANGED <<main, backup, temp, stored>>

\* The log is written back into the file and removed.
Checkpoint ==
    /\ Step("checkpoint", "export")
    /\ main' = [main EXCEPT !.data = @ + wal]
    /\ wal' = 0
    /\ UNCHANGED <<backup, temp, stored>>

\* sqlcipher_export reads the file and what is left of its log.
Export ==
    /\ Step("export", "set_aside")
    /\ temp' = Sealed(main.data + wal)
    /\ UNCHANGED <<main, wal, backup, stored>>

\* Mutant of SetAside: the plain file is copied.
CopyAside ==
    /\ temp.form = "sealed"
    /\ Step("set_aside", "install")
    /\ backup' = main
    /\ UNCHANGED <<main, wal, temp, stored>>

\* Once the encrypted copy has been read with the key.
SetAside ==
    /\ temp.form = "sealed"
    /\ Step("set_aside", "install")
    /\ backup' = main
    /\ main' = Gone
    /\ UNCHANGED <<wal, temp, stored>>

Install ==
    /\ Step("install", "drop_backup")
    /\ main' = temp
    /\ temp' = Gone
    /\ UNCHANGED <<wal, backup, stored>>

DropBackup ==
    /\ Step("drop_backup", "open")
    /\ backup' = Gone
    /\ wal' = 0
    /\ UNCHANGED <<main, temp, stored>>

\* PowerSync creates the encrypted file when there is none.
Open ==
    /\ Step("open", "ready")
    /\ main' = IF Exists(main) THEN main ELSE Sealed(0)
    /\ UNCHANGED <<wal, backup, temp, stored>>

Commit ==
    /\ pc = "ready"
    /\ committed < MaxCommits
    /\ committed' = committed + 1
    /\ main' = [main EXCEPT !.data = @ + 1]
    /\ UNCHANGED <<wal, backup, temp, stored, pc, faults>>

-----------------------------------------------------------------------------
(* Faults.                                                                 *)

Fault == faults < MaxFaults /\ faults' = faults + 1 /\ pc' = "closed" /\ UNCHANGED committed

\* The process is killed, or a step throws before it changed anything, except
\* that an export may leave a part of the copy.  Once open, the app is closed.
Stop ==
    /\ pc \in Steps \cup {"ready"}
    /\ Fault
    /\ \/ UNCHANGED temp
       \/ pc = "export" /\ temp' = [form |-> "partial", data |-> 0]
    /\ UNCHANGED <<main, wal, backup, stored>>

\* The encrypted file could not take its place, and the plain one is put back;
\* Stop is the case in which that throws in its turn.
InstallThrows ==
    /\ pc = "install"
    /\ Fault
    /\ main' = backup /\ backup' = Gone
    /\ UNCHANGED <<wal, temp, stored>>

Proceed ==
    \/ LoadOrCreateKey \/ Recover
    \/ NothingToMigrate \/ AlreadySealed \/ BeginMigration
    \/ Checkpoint \/ Export \/ SetAside \/ Install \/ DropBackup \/ Open

Next == Proceed \/ Commit \/ Stop \/ InstallThrows

Spec == Init /\ [][Next]_vars

\* The user starts the app again, and initialize() runs on.
FairSpec == Spec /\ WF_vars(Proceed)

-----------------------------------------------------------------------------
(* Properties.                                                             *)

\* What initialize() would open, were it started now: the backup if the
\* database is missing, and the log of a plain database with it.
Found == LET file == IF Exists(main) THEN main ELSE backup
         IN  file.data + (IF file.form = "sealed" THEN 0 ELSE wal)

\* Whatever step a process dies at, or throws at, the next one finds every
\* transaction ever committed.
NothingLost == Found = committed

\* Once the database is open, no plain copy of it is left on the disk, whatever
\* earlier attempts left behind.
NoPlaintextLeft ==
    pc = "ready" => main.form = "sealed" /\ wal = 0 /\ ~ Exists(backup) /\ ~ Exists(temp)

\* No fault leads to the state that needs manual recovery: a plain database
\* next to a backup.
NeverManual == pc = "inspect" => ~ (main.form = "plain" /\ Exists(backup))

\* A file is encrypted only with a key the next process will find.
KeyOutlivesProcess == main.form = "sealed" \/ temp.form = "sealed" => stored

\* Some file can be read without the key.
Readable == main.form = "plain" \/ backup.form = "plain" \/ wal # 0

\* The files and initialize() together implement DurableStore.
Store == INSTANCE DurableStore WITH kept <- Found, open <- (pc = "ready"), plain <- Readable

StoreIsDurable == Store!Spec

\* How many steps of initialize() are left, and how many if every fault that
\* may still happen happens as late as it can.
StepsLeft ==
    CASE pc = "closed"      -> 9
      [] pc = "recover"     -> 8
      [] pc = "inspect"     -> 7
      [] pc = "checkpoint"  -> 6
      [] pc = "export"      -> 5
      [] pc = "set_aside"   -> 4
      [] pc = "install"     -> 3
      [] pc = "drop_backup" -> 2
      [] pc = "open"        -> 1
      [] OTHER              -> 0

MostStepsLeft == 10 * (MaxFaults - faults) + StepsLeft

\* Every step but a commit is progress, so that their number is bounded ...
EveryStepCounts == [][Commit \/ MostStepsLeft' < MostStepsLeft]_vars

\* ... and until the database is open the next step finds what it needs.
NeverStuck ==
    /\ pc = "inspect" => \/ ~ Exists(main)
                         \/ main.form = "sealed"
                         \/ main.form = "plain" /\ ~ Exists(backup)
    /\ pc = "set_aside" => temp.form = "sealed"

\* Initialization ends in an open database.
EventuallyOpen == <>[](pc = "ready")

\* What makes them inductive: what the files are while no process runs ...
Resting ==
    \/ main = Gone /\ wal = 0 /\ backup = Gone /\ temp = Gone
    \/ main.form = "plain" /\ backup = Gone
    \/ main = Gone /\ wal = 0 /\ backup.form = "plain"
    \/ main.form = "sealed" /\ wal = 0 /\ backup.form \in {"none", "plain"} /\ temp = Gone

\* ... and what each step finds when its turn comes.
Ready ==
    /\ pc = "inspect" /\ ~ Exists(main) => ~ Exists(backup)
    /\ pc \in {"checkpoint", "export", "set_aside"} => main.form = "plain"
    /\ pc \in {"export", "set_aside"} => wal = 0
    /\ pc = "set_aside" => temp = Sealed(main.data)
    /\ pc = "install" => main = Gone /\ backup.form = "plain" /\ temp = Sealed(backup.data)
    /\ pc = "drop_backup" => main.form = "sealed"
    /\ pc \in {"open", "ready"} => backup = Gone /\ main.form # "plain"
    /\ pc = "ready" => main.form = "sealed"
    /\ pc # "closed" => stored

Inductive == TypeOK /\ NothingLost /\ Resting /\ Ready /\ KeyOutlivesProcess

=============================================================================
