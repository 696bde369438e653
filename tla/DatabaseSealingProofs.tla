----------------------- MODULE DatabaseSealingProofs -----------------------
(***************************************************************************)
(* Proofs about DatabaseSealing for any number of transactions and faults: *)
(* whatever steps initialize() dies or throws at, no transaction is lost,  *)
(* no plain copy outlives an open database, and manual recovery is never   *)
(* needed.                                                                 *)
(***************************************************************************)
EXTENDS DatabaseSealing, TLAPS

USE SealingAssumption

LEMMA InitialInductive == Init => Inductive
<1> SUFFICES ASSUME Init PROVE Inductive
  OBVIOUS
<1>1. main = Gone \/ \E n \in 0 .. MaxCommits : main = [form |-> "plain", data |-> n]
  BY DEF Init
<1>2. main \in File /\ (main = Gone \/ main.form = "plain") /\ main.form # "sealed"
  BY <1>1 DEF Gone, File
<1>3. Gone \in File /\ Gone.form = "none"
  BY DEF Gone, File
<1>4. committed \in 0 .. MaxCommits
  BY <1>2 DEF Init, File
<1>5. TypeOK
  <2>1. wal \in 0 .. MaxCommits /\ faults \in 0 .. MaxFaults
    BY DEF Init
  <2>2. backup \in File /\ temp \in File /\ stored \in BOOLEAN /\ pc = "closed"
    BY <1>3 DEF Init
  <2> QED BY <1>2, <1>4, <2>1, <2>2 DEF TypeOK
<1>6. NothingLost
  BY <1>2, <1>3 DEF Init, NothingLost, Found, Exists, Gone
<1>7. Resting
  BY <1>2, <1>3 DEF Init, Resting, Exists
<1>8. Ready /\ KeyOutlivesProcess
  BY <1>2, <1>3 DEF Init, Ready, KeyOutlivesProcess
<1> QED BY <1>5, <1>6, <1>7, <1>8 DEF Inductive

LEMMA InductiveStep == Inductive /\ [Next]_vars => Inductive'
<1> SUFFICES ASSUME Inductive, [Next]_vars PROVE Inductive'
  OBVIOUS
<1> USE DEF Inductive, TypeOK, NothingLost, Found, Resting, Ready, KeyOutlivesProcess,
            File, Gone, Exists, Sealed, Steps, Step, files
<1>1. CASE UNCHANGED vars
  BY <1>1 DEF vars
<1>2. CASE LoadOrCreateKey
  BY <1>2 DEF LoadOrCreateKey
<1>3. CASE Recover
  BY <1>3 DEF Recover
<1>4. CASE NothingToMigrate
  BY <1>4 DEF NothingToMigrate
<1>5. CASE AlreadySealed
  BY <1>5 DEF AlreadySealed
<1>6. CASE BeginMigration
  BY <1>6 DEF BeginMigration
<1>7. CASE Checkpoint
  BY <1>7 DEF Checkpoint
<1>8. CASE Export
  BY <1>8 DEF Export
<1>9. CASE SetAside
  BY <1>9 DEF SetAside
<1>10. CASE Install
  BY <1>10 DEF Install
<1>11. CASE DropBackup
  BY <1>11 DEF DropBackup
<1>12. CASE Open
  BY <1>12 DEF Open
<1>13. CASE Commit
  BY <1>13 DEF Commit
<1>14. CASE Stop
  BY <1>14 DEF Stop, Fault
<1>15. CASE InstallThrows
  BY <1>15 DEF InstallThrows, Fault
<1> QED
  BY <1>1, <1>2, <1>3, <1>4, <1>5, <1>6, <1>7, <1>8, <1>9, <1>10, <1>11, <1>12, <1>13,
     <1>14, <1>15
  DEF Next, Proceed

-----------------------------------------------------------------------------
(* Theorems.                                                               *)

\* The invariant the others follow from.
THEOREM InductiveHolds == Spec => []Inductive
<1> QED BY InitialInductive, InductiveStep, PTL DEF Spec

\* Every variable keeps its type.
THEOREM TypeCorrect == Spec => []TypeOK
<1>1. Inductive => TypeOK
  BY DEF Inductive
<1> QED BY <1>1, InductiveHolds, PTL

\* Wherever a process stops, the next one finds every committed transaction.
THEOREM DataSurvives == Spec => []NothingLost
<1>1. Inductive => NothingLost
  BY DEF Inductive
<1> QED BY <1>1, InductiveHolds, PTL

\* An open database has left no plain copy behind.
THEOREM PlaintextRemoved == Spec => []NoPlaintextLeft
<1>1. Inductive => NoPlaintextLeft
  <2> SUFFICES ASSUME Inductive, pc = "ready"
               PROVE  main.form = "sealed" /\ wal = 0 /\ ~ Exists(backup) /\ ~ Exists(temp)
    BY DEF NoPlaintextLeft
  <2>1. main.form = "sealed" /\ backup = Gone
    BY DEF Inductive, Ready
  <2>2. wal = 0 /\ temp = Gone
    BY <2>1 DEF Inductive, Resting, Gone
  <2> QED BY <2>1, <2>2 DEF Exists, Gone
<1> QED BY <1>1, InductiveHolds, PTL

\* The refusal of an interrupted migration is out of reach.
THEOREM RecoveryIsAutomatic == Spec => []NeverManual
<1>1. Inductive => NeverManual
  BY DEF Inductive, Resting, NeverManual, Exists, Gone
<1> QED BY <1>1, InductiveHolds, PTL

\* No file is encrypted with a key that only this process knows.
THEOREM KeyIsKept == Spec => []KeyOutlivesProcess
<1>1. Inductive => KeyOutlivesProcess
  BY DEF Inductive
<1> QED BY <1>1, InductiveHolds, PTL

\* Until the database is open, the next step of initialize() finds what it
\* needs: of the ways a file can be found, each has its branch.
THEOREM InitializeGoesOn == Spec => []NeverStuck
<1>1. Inductive => NeverStuck
  <2> SUFFICES ASSUME Inductive PROVE NeverStuck
    OBVIOUS
  <2>1. pc = "set_aside" => temp.form = "sealed"
    BY DEF Inductive, Ready, Sealed
  <2>2. CASE main.form = "plain"
    BY <2>1, <2>2 DEF Inductive, NeverStuck, Resting, Exists, Gone
  <2>3. CASE main.form # "plain"
    BY <2>1, <2>3 DEF Inductive, NeverStuck, Resting, Exists, Gone
  <2> QED BY <2>2, <2>3
<1> QED BY <1>1, InductiveHolds, PTL

\* With NeverStuck, what EventuallyOpen needs apart from fairness: the steps
\* that are not commits are bounded, faults and all.
THEOREM StepsAreBounded ==
  Spec => [](MostStepsLeft \in 0 .. 10 * MaxFaults + 9) /\ EveryStepCounts
<1>1. Inductive => MostStepsLeft \in 0 .. 10 * MaxFaults + 9
  <2> SUFFICES ASSUME Inductive PROVE MostStepsLeft \in 0 .. 10 * MaxFaults + 9
    OBVIOUS
  <2>1. StepsLeft \in 0 .. 9
    BY DEF StepsLeft
  <2>2. faults \in 0 .. MaxFaults
    BY DEF Inductive, TypeOK
  <2> QED BY <2>1, <2>2 DEF MostStepsLeft
<1>2. Inductive /\ [Next]_vars => [Commit \/ MostStepsLeft' < MostStepsLeft]_vars
  <2> SUFFICES ASSUME Inductive, Next PROVE Commit \/ MostStepsLeft' < MostStepsLeft
    OBVIOUS
  <2>1. faults \in Nat
    BY DEF Inductive, TypeOK
  <2>2. CASE Proceed
    <3>1. /\ faults' = faults
          /\ <<pc, pc'>> \in {<<"closed", "recover">>, <<"recover", "inspect">>,
                <<"inspect", "open">>, <<"inspect", "checkpoint">>, <<"checkpoint", "export">>,
                <<"export", "set_aside">>, <<"set_aside", "install">>,
                <<"install", "drop_backup">>, <<"drop_backup", "open">>, <<"open", "ready">>}
      BY <2>2 DEF Proceed, LoadOrCreateKey, Recover, NothingToMigrate, AlreadySealed,
                  BeginMigration, Checkpoint, Export, SetAside, Install, DropBackup, Open, Step
    <3>2. StepsLeft \in 0 .. 9 /\ StepsLeft' \in 0 .. 9
      BY DEF StepsLeft
    <3>3. CASE pc \in {"closed", "recover", "checkpoint", "export", "set_aside"}
      BY <2>1, <3>1, <3>2, <3>3 DEF MostStepsLeft, StepsLeft
    <3>4. CASE pc \in {"inspect", "install", "drop_backup", "open"}
      BY <2>1, <3>1, <3>2, <3>4 DEF MostStepsLeft, StepsLeft
    <3> QED BY <3>1, <3>3, <3>4
  <2>3. CASE Stop \/ InstallThrows
    <3>1. faults' = faults + 1 /\ StepsLeft' = 9
      BY <2>3 DEF Stop, InstallThrows, Fault, StepsLeft
    <3>2. StepsLeft \in 0 .. 9
      BY DEF StepsLeft
    <3> QED BY <2>1, <3>1, <3>2 DEF MostStepsLeft
  <2> QED BY <2>2, <2>3 DEF Next
<1> QED BY <1>1, <1>2, InductiveHolds, PTL DEF Spec, EveryStepCounts

-----------------------------------------------------------------------------
(* Refinement: every step of DatabaseSealing is a step of DurableStore or  *)
(* leaves its variables alone.                                             *)

LEMMA InitialStored == Init => Store!Init
<1> SUFFICES ASSUME Init PROVE Store!Init
  OBVIOUS
<1>1. Inductive
  BY InitialInductive
<1>2. Found \in Nat
  BY <1>1 DEF Inductive, NothingLost, TypeOK
<1>3. pc # "ready"
  BY DEF Init
<1> QED BY <1>2, <1>3 DEF Store!Init, Readable

LEMMA StepStored ==
  ASSUME Inductive, [Next]_vars
  PROVE  Store!Next \/ UNCHANGED <<Found, pc = "ready", Readable>>
<1>1. Inductive'
  BY InductiveStep
<1>2. Found = committed /\ Found' = committed' /\ committed \in Nat
  BY <1>1 DEF Inductive, NothingLost, TypeOK
<1> USE DEF Inductive, TypeOK, Resting, Ready, File, Gone, Exists, Sealed, Step, files, Readable
<1>3. CASE Commit
  <2>1. pc = "ready" /\ pc' = "ready" /\ Found' = Found + 1
    BY <1>2, <1>3 DEF Commit
  <2>2. UNCHANGED Readable
    BY <1>3 DEF Commit
  <2> QED BY <2>1, <2>2 DEF Store!Next, Store!Add
<1>4. CASE Open
  <2>1. pc # "ready" /\ pc' = "ready" /\ Found' = Found
    BY <1>2, <1>4 DEF Open
  <2>2. ~ Readable /\ ~ Readable'
    BY <1>4 DEF Open
  <2> QED BY <2>1, <2>2 DEF Store!Next, Store!Open
<1>5. CASE AlreadySealed \/ DropBackup
  <2>1. pc # "ready" /\ pc' # "ready" /\ Found' = Found
    BY <1>2, <1>5 DEF AlreadySealed, DropBackup
  <2>2. ~ Readable'
    BY <1>5 DEF AlreadySealed, DropBackup
  <2> QED BY <2>1, <2>2 DEF Store!Next, Store!Encrypt
<1>6. CASE Stop
  <2>1. pc' # "ready" /\ Found' = Found
    BY <1>2, <1>6 DEF Stop, Fault
  <2>2. UNCHANGED Readable
    BY <1>6 DEF Stop
  <2> QED BY <2>1, <2>2 DEF Store!Next, Store!Close
<1>7. CASE \/ LoadOrCreateKey \/ Recover \/ NothingToMigrate \/ BeginMigration
           \/ Checkpoint \/ Export \/ SetAside \/ Install \/ InstallThrows
  <2>1. pc # "ready" /\ pc' # "ready" /\ Found' = Found
    BY <1>2, <1>7 DEF LoadOrCreateKey, Recover, NothingToMigrate, BeginMigration, Checkpoint,
                      Export, SetAside, Install, InstallThrows, Fault
  <2>2. UNCHANGED Readable
    BY <1>7 DEF LoadOrCreateKey, Recover, NothingToMigrate, BeginMigration, Checkpoint,
                Export, SetAside, Install, InstallThrows
  <2> QED BY <2>1, <2>2
<1>8. CASE UNCHANGED vars
  BY <1>8 DEF vars, Found
<1> QED BY <1>3, <1>4, <1>5, <1>6, <1>7, <1>8 DEF Next, Proceed

\* Opening, sealing, faults and all, the local database is a DurableStore.
THEOREM Refinement == Spec => StoreIsDurable
<1>1. Inductive /\ [Next]_vars => [Store!Next]_(Store!vars)
  BY StepStored DEF Store!vars
<1> QED BY <1>1, InitialStored, InductiveHolds, PTL DEF Spec, StoreIsDurable, Store!Spec

=============================================================================
