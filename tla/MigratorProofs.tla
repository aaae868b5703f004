---------------------------- MODULE MigratorProofs -----------------------------
(***************************************************************************)
(* Theorems about Migrator, for any processes and any number of files.     *)
(***************************************************************************)
EXTENDS Migrator, TLAPS

LEMMA MigrateInit == Init => IInv
<1> SUFFICES ASSUME Init PROVE IInv
  OBVIOUS
<1>1. TypeOK
  <2>1. 1 \in 1 .. Count + 1
    BY CountAssumption
  <2>2. /\ pc \in [Procs -> {"start", "read", "loop", "ready", "failed", "down"}
                            \cup InTransaction]
        /\ applied \in [Procs -> SUBSET Versions]
        /\ at \in [Procs -> 1 .. Count + 1]
    BY <2>1 DEF Init
  <2> QED BY <2>2 DEF Init, TypeOK
<1>2. LockHeld /\ OneWriter
  BY DEF Init, LockHeld, OneWriter, InTransaction
<1>3. RecordedIsChanged /\ InOrder /\ ReadyIsComplete /\ FailureHasCause
  BY DEF Init, RecordedIsChanged, InOrder, ReadyIsComplete, FailureHasCause
<1>4. \A p \in Procs : Known(p)
  BY DEF Init, Known, InTransaction
<1> QED BY <1>1, <1>2, <1>3, <1>4 DEF IInv

LEMMA MigrateType == IInv /\ [Next]_vars => TypeOK'
<1> SUFFICES ASSUME TypeOK, \A p \in Procs : Known(p), [Next]_vars PROVE TypeOK'
  BY DEF IInv
<1> USE CountAssumption DEF TypeOK, Goto, Release, database, Versions, InTransaction
<1>1. ASSUME NEW p \in Procs, CreateTable(p) PROVE TypeOK'
  BY <1>1 DEF CreateTable
<1>2. ASSUME NEW p \in Procs, AppliedVersions(p) PROVE TypeOK'
  BY <1>2 DEF AppliedVersions
<1>3. ASSUME NEW p \in Procs, Skip(p) PROVE TypeOK'
  <2>1. at[p] + 1 \in 1 .. Count + 1
    BY <1>3 DEF Skip
  <2> QED BY <1>3, <2>1 DEF Skip
<1>4. ASSUME NEW p \in Procs, Finish(p) PROVE TypeOK'
  BY <1>4 DEF Finish
<1>5. ASSUME NEW p \in Procs, Begin(p) PROVE TypeOK'
  BY <1>5 DEF Begin
<1>6. ASSUME NEW p \in Procs, AlreadyApplied(p) PROVE TypeOK'
  <2>1. at[p] + 1 \in 1 .. Count + 1
    BY <1>6 DEF AlreadyApplied
  <2> QED BY <1>6, <2>1 DEF AlreadyApplied
<1>7. ASSUME NEW p \in Procs, NotApplied(p) PROVE TypeOK'
  BY <1>7 DEF NotApplied
<1>8. ASSUME NEW p \in Procs, ChangeSchema(p) PROVE TypeOK'
  BY <1>8 DEF ChangeSchema
<1>9. ASSUME NEW p \in Procs, RecordVersion(p) PROVE TypeOK'
  BY <1>9 DEF RecordVersion
<1>10. ASSUME NEW p \in Procs, Commit(p) PROVE TypeOK'
  <2>1. at[p] \in Versions /\ at[p] + 1 \in 1 .. Count + 1
    BY <1>10 DEF Commit, Known
  <2>2. changes' \in [Versions -> Nat]
    BY <1>10, <2>1 DEF Commit
  <2> QED BY <1>10, <2>1, <2>2 DEF Commit
<1>11. ASSUME NEW p \in Procs, Error(p) \/ Crash(p) \/ Restart(p) PROVE TypeOK'
  <2>1. CASE Error(p)
    BY <2>1 DEF Error
  <2>2. CASE Crash(p)
    BY <2>2 DEF Crash
  <2>3. CASE Restart(p)
    BY <2>3 DEF Restart
  <2> QED BY <1>11, <2>1, <2>2, <2>3
<1>12. CASE UNCHANGED vars
  BY <1>12 DEF vars
<1> QED BY <1>1, <1>2, <1>3, <1>4, <1>5, <1>6, <1>7, <1>8, <1>9, <1>10, <1>11,
           <1>12 DEF Next, Apply, AllReady

\* A step that commits nothing: only what it changes of one process matters.
Quiet(p) ==
  /\ UNCHANGED <<recorded, changes>> /\ errors <= errors'
  /\ \A q \in Procs \ {p} :
       pc'[q] = pc[q] /\ applied'[q] = applied[q] /\ at'[q] = at[q]
  /\ lock' \ {p} = lock \ {p}
  /\ p \in lock' => lock \ {p} = {}

LEMMA QuietStep ==
  ASSUME IInv, TypeOK', NEW p \in Procs, Quiet(p), Known(p)',
         p \in lock' <=> pc'[p] \in InTransaction,
         pc'[p] = "ready" => recorded = Versions,
         pc'[p] = "failed" => errors' > 0
  PROVE  IInv'
<1>1. LockHeld'
  BY DEF IInv, TypeOK, LockHeld, Quiet
<1>2. OneWriter'
  BY DEF IInv, OneWriter, Quiet
<1>3. RecordedIsChanged' /\ InOrder'
  BY DEF IInv, RecordedIsChanged, InOrder, Quiet
<1>4. ReadyIsComplete'
  BY DEF IInv, ReadyIsComplete, Quiet
<1>5. FailureHasCause'
  BY DEF IInv, TypeOK, FailureHasCause, Quiet
<1>6. \A q \in Procs : Known(q)'
  BY DEF IInv, Known, Quiet
<1> QED BY <1>1, <1>2, <1>3, <1>4, <1>5, <1>6 DEF IInv

LEMMA ApplyStep ==
  ASSUME IInv, TypeOK', NEW p \in Procs,
         \/ CreateTable(p) \/ AppliedVersions(p) \/ Skip(p) \/ Finish(p)
         \/ Begin(p) \/ AlreadyApplied(p) \/ NotApplied(p)
         \/ ChangeSchema(p) \/ RecordVersion(p)
  PROVE  IInv'
<1>1. TypeOK /\ LockHeld /\ OneWriter /\ Known(p)
  BY DEF IInv
<1>2. changes[at[p]] = 0 \/ pc[p] # "change"
  BY <1>1 DEF IInv, RecordedIsChanged, Known, InTransaction
<1>3. ASSUME ~ Begin(p) PROVE lock' \ {p} = lock \ {p} /\ lock' \subseteq lock
  BY <1>3 DEF CreateTable, AppliedVersions, Skip, Finish, AlreadyApplied,
     NotApplied, ChangeSchema, RecordVersion, Release
<1>4. Quiet(p)
  <2>1. UNCHANGED <<recorded, changes>> /\ errors <= errors'
    BY <1>1 DEF TypeOK, CreateTable, AppliedVersions, Skip, Finish, Begin,
       AlreadyApplied, NotApplied, ChangeSchema, RecordVersion, database
  <2>2. \A q \in Procs \ {p} :
          pc'[q] = pc[q] /\ applied'[q] = applied[q] /\ at'[q] = at[q]
    BY <1>1 DEF TypeOK, CreateTable, AppliedVersions, Skip, Finish, Begin,
       AlreadyApplied, NotApplied, ChangeSchema, RecordVersion, Goto
  <2>3. lock' \ {p} = lock \ {p} /\ (p \in lock' => lock \ {p} = {})
    BY <1>1, <1>3 DEF Begin, OneWriter
  <2> QED BY <2>1, <2>2, <2>3 DEF Quiet
<1>5. /\ p \in lock' <=> pc'[p] \in InTransaction
      /\ pc'[p] = "ready" => recorded = Versions
      /\ pc'[p] # "failed"
      /\ Known(p)'
  <2> USE <1>1 DEF TypeOK, LockHeld, InTransaction, Goto, Versions
  <2>1. CASE CreateTable(p) \/ AppliedVersions(p)
    <3>1. CASE CreateTable(p)
      BY <3>1 DEF CreateTable, Known
    <3>2. CASE AppliedVersions(p)
      <4>1. \A v \in Versions : ~ (v < 1)
        OBVIOUS
      <4> QED BY <3>2, <4>1 DEF AppliedVersions, Known, database
    <3> QED BY <2>1, <3>1, <3>2
  <2>2. CASE Skip(p)
    <3>1. \A v \in Versions : v < at[p] + 1 => v \in recorded
      BY <2>2 DEF Skip, Known
    <3> QED BY <2>2, <3>1 DEF Skip, Known, database
  <2>3. CASE Finish(p)
    <3>1. \A v \in Versions : v \in recorded
      BY <2>3, CountAssumption DEF Finish, Known
    <3> QED BY <2>3, <3>1 DEF Finish, Known, database
  <2>4. CASE Begin(p)
    BY <2>4 DEF Begin, Known, database
  <2>5. CASE AlreadyApplied(p)
    <3>1. \A v \in Versions : v < at[p] + 1 => v \in recorded
      BY <2>5 DEF AlreadyApplied, Known
    <3> QED BY <2>5, <3>1 DEF AlreadyApplied, Known, database, Release
  <2>6. CASE NotApplied(p) \/ RecordVersion(p)
    BY <2>6 DEF NotApplied, RecordVersion, Known, database
  <2>7. CASE ChangeSchema(p)
    BY <1>2, <2>7 DEF ChangeSchema, Known, database
  <2> QED BY <2>1, <2>2, <2>3, <2>4, <2>5, <2>6, <2>7
<1> QED BY <1>4, <1>5, QuietStep

LEMMA CommitStep ==
  ASSUME IInv, TypeOK', NEW p \in Procs, Commit(p) PROVE IInv'
<1>1. /\ TypeOK /\ LockHeld /\ OneWriter /\ Known(p) /\ p \in lock
      /\ at[p] \in Versions \ recorded
      /\ \A v \in Versions : v < at[p] => v \in recorded
  BY DEF IInv, Commit, LockHeld, Known, InTransaction
<1>2. /\ pc' = [pc EXCEPT ![p] = "loop"] /\ lock' = {} /\ lock = {p}
      /\ recorded' = recorded \cup {at[p]} /\ applied' = applied
      /\ errors' = errors /\ at' = [at EXCEPT ![p] = @ + 1]
  BY <1>1 DEF Commit, Goto, Release, OneWriter
<1>3. LockHeld' /\ OneWriter'
  BY <1>1, <1>2 DEF TypeOK, LockHeld, OneWriter, InTransaction
<1>4. RecordedIsChanged'
  BY <1>1, <1>2 DEF IInv, TypeOK, RecordedIsChanged, Commit
<1>5. ASSUME NEW v \in recorded', NEW u \in 1 .. v PROVE u \in recorded'
  <2>1. CASE v \in recorded
    BY <1>2, <2>1 DEF IInv, InOrder
  <2>2. CASE v = at[p]
    <3>1. u = at[p] \/ (u \in Versions /\ u < at[p])
      BY <1>1, <2>2, CountAssumption DEF Versions
    <3> QED BY <1>1, <1>2, <3>1
  <2> QED BY <1>2, <2>1, <2>2
<1>6. ReadyIsComplete' /\ FailureHasCause'
  BY <1>1, <1>2 DEF IInv, TypeOK, ReadyIsComplete, FailureHasCause
<1>7. ASSUME NEW q \in Procs PROVE Known(q)'
  <2>1. CASE q = p
    BY <1>1, <1>2, <2>1 DEF TypeOK, Known, InTransaction, Versions
  <2>2. CASE q # p
    <3>1. pc'[q] = pc[q] /\ at'[q] = at[q] /\ pc[q] \notin InTransaction
      BY <1>1, <1>2, <2>2 DEF TypeOK, LockHeld
    <3> QED BY <1>2, <3>1 DEF IInv, Known, InTransaction
  <2> QED BY <2>1, <2>2
<1> QED BY <1>3, <1>4, <1>5, <1>6, <1>7 DEF IInv, InOrder

LEMMA MigrateStep == IInv /\ [Next]_vars => IInv'
<1> SUFFICES ASSUME IInv, [Next]_vars PROVE IInv'
  OBVIOUS
<1>1. TypeOK'
  BY MigrateType
<1>2. ASSUME NEW p \in Procs, Apply(p) PROVE IInv'
  BY <1>1, <1>2, ApplyStep, CommitStep DEF Apply
<1>3. ASSUME NEW p \in Procs, Error(p) \/ Crash(p) \/ Restart(p) PROVE IInv'
  <2>1. TypeOK /\ LockHeld /\ OneWriter /\ Known(p)
    BY DEF IInv
  <2>2. /\ pc' = [pc EXCEPT ![p] = pc'[p]]
        /\ pc'[p] \in {"failed", "down", "start"}
        /\ pc'[p] = "failed" => errors' > 0
        /\ p \notin lock' /\ lock' \ {p} = lock \ {p}
    BY <1>3, <2>1 DEF TypeOK, LockHeld, InTransaction, Error, Crash, Restart,
       Goto, Release
  <2>3. UNCHANGED <<recorded, changes, applied, at>> /\ errors <= errors'
    BY <1>3, <2>1 DEF TypeOK, Error, Crash, Restart, database
  <2>4. Quiet(p)
    BY <2>1, <2>2, <2>3 DEF Quiet, TypeOK
  <2>5. Known(p)'
    BY <2>1, <2>2, <2>3 DEF Known, InTransaction
  <2> QED BY <1>1, <2>2, <2>4, <2>5, QuietStep DEF InTransaction
<1>4. CASE UNCHANGED vars
  BY <1>4 DEF vars, database, IInv, TypeOK, LockHeld, OneWriter,
     RecordedIsChanged, InOrder, ReadyIsComplete, FailureHasCause, Known
<1> QED BY <1>2, <1>3, <1>4 DEF Next, AllReady

\* What each process knows at each point of Apply stays true whatever the
\* others do, fail or die.
THEOREM MigrationInvariant == Spec => []IInv
BY MigrateInit, MigrateStep, PTL DEF Spec

\* The database and every process's place in Apply keep their types.
THEOREM MigrationTypes == Spec => []TypeOK
<1>1. IInv => TypeOK
  BY DEF IInv
<1> QED BY <1>1, MigrationInvariant, PTL

\* A process is inside a transaction only while it has SQLite's write lock, and
\* one that fails or dies leaves it free.
THEOREM LocksAreHeld == Spec => []LockHeld
<1>1. IInv => LockHeld
  BY DEF IInv
<1> QED BY <1>1, MigrationInvariant, PTL

\* A migration's SQL is in force exactly when its version is recorded, and was
\* committed once.
THEOREM RecordedMeansChanged == Spec => []RecordedIsChanged
<1>1. IInv => RecordedIsChanged
  BY DEF IInv
<1> QED BY <1>1, MigrationInvariant, PTL

\* A process that has finished Apply finds all the migrations in force.
THEOREM ReadyMeansComplete == Spec => []ReadyIsComplete
<1>1. IInv => ReadyIsComplete
  BY DEF IInv
<1> QED BY <1>1, MigrationInvariant, PTL

\* Processes that migrate at once do not make each other fail.
THEOREM FailuresHaveCauses == Spec => []FailureHasCause
<1>1. IInv => FailureHasCause
  BY DEF IInv
<1> QED BY <1>1, MigrationInvariant, PTL

\* No migration is in force before one with a smaller number.
THEOREM MigrationsInOrder == Spec => []InOrder
<1>1. IInv => InOrder
  BY DEF IInv
<1> QED BY <1>1, MigrationInvariant, PTL
===============================================================================
