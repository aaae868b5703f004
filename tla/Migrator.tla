-------------------------------- MODULE Migrator --------------------------------
(***************************************************************************)
(* internal/migrate: the API and the workers bring the schema of the one   *)
(* database up to date, each as it starts (main calls Apply under          *)
(* context.Background and exits when it fails).  SQLite's write lock is    *)
(* held from BEGIN IMMEDIATE to COMMIT or ROLLBACK; what a transaction has *)
(* done so far is visible to nobody and told by its process's pc.          *)
(***************************************************************************)
EXTENDS Naturals, FiniteSets

CONSTANTS
  Procs,        \* processes that migrate as they start
  Count,        \* migration files, numbered as their names sort
  MaxErrors,    \* bound: database calls that fail, a busy timeout included
  MaxCrashes    \* bound: processes that die while they migrate

ASSUME CountAssumption == Count \in Nat \ {0}

Versions == 1 .. Count

\* 001 creates what does not exist; ALTER TABLE ADD COLUMN fails if repeated.
Repeatable == {1}

VARIABLES
  table,      \* schema_migrations exists
  recorded,   \* versions in schema_migrations
  changes,    \* per version, how often its SQL has been committed
  lock,       \* the processes in a write transaction: at most one
  pc,         \* where each process is in Apply
  applied,    \* per process, the versions it read before its loop
  at,         \* per process, the version its loop is at
  errors, crashes    \* bound counters

database == <<table, recorded, changes>>
vars     == <<database, lock, pc, applied, at, errors, crashes>>

InTransaction == {"check", "change", "record", "commit"}

Init ==
  /\ table = FALSE /\ recorded = {} /\ changes = [v \in Versions |-> 0]
  /\ lock = {}
  /\ pc = [p \in Procs |-> "start"]
  /\ applied = [p \in Procs |-> {}] /\ at = [p \in Procs |-> 1]
  /\ errors = 0 /\ crashes = 0

Goto(p, l)   == pc' = [pc EXCEPT ![p] = l]
Release(p)   == lock' = lock \ {p}

-------------------------------------------------------------------------------
\* CREATE TABLE IF NOT EXISTS writes only if the table is missing.
CreateTable(p) ==
  /\ pc[p] = "start" /\ (table \/ lock = {})
  /\ table' = TRUE /\ Goto(p, "read")
  /\ UNCHANGED <<recorded, changes, lock, applied, at, errors, crashes>>

AppliedVersions(p) ==
  /\ pc[p] = "read"
  /\ applied' = [applied EXCEPT ![p] = recorded]
  /\ at' = [at EXCEPT ![p] = 1] /\ Goto(p, "loop")
  /\ UNCHANGED <<database, lock, errors, crashes>>

Skip(p) ==
  /\ pc[p] = "loop" /\ at[p] \in applied[p]
  /\ at' = [at EXCEPT ![p] = @ + 1]
  /\ UNCHANGED <<database, lock, pc, applied, errors, crashes>>

\* Variant of Finish: the last file is not looked at.
FinishVariant(p) ==
  /\ pc[p] = "loop" /\ at[p] >= Count /\ Goto(p, "ready")
  /\ UNCHANGED <<database, lock, applied, at, errors, crashes>>
Finish(p) ==
  /\ pc[p] = "loop" /\ at[p] > Count /\ Goto(p, "ready")
  /\ UNCHANGED <<database, lock, applied, at, errors, crashes>>

(***************************************************************************)
(* applyOne: one transaction, which looks again before it changes anything.*)
(***************************************************************************)
Begin(p) ==
  /\ pc[p] = "loop" /\ at[p] \in Versions \ applied[p]
  /\ lock = {} /\ lock' = {p} /\ Goto(p, "check")
  /\ UNCHANGED <<database, applied, at, errors, crashes>>

\* Variant of AlreadyApplied: the transaction is left open.
AlreadyAppliedVariant(p) ==
  /\ pc[p] = "check" /\ at[p] \in recorded
  /\ at' = [at EXCEPT ![p] = @ + 1] /\ Goto(p, "loop")
  /\ UNCHANGED <<database, lock, applied, errors, crashes>>
AlreadyApplied(p) ==
  /\ pc[p] = "check" /\ at[p] \in recorded
  /\ at' = [at EXCEPT ![p] = @ + 1] /\ Goto(p, "loop") /\ Release(p)
  /\ UNCHANGED <<database, applied, errors, crashes>>

\* Variant of NotApplied: the version is not looked for again.
NotAppliedVariant(p) ==
  /\ pc[p] = "check" /\ Goto(p, "change")
  /\ UNCHANGED <<database, lock, applied, at, errors, crashes>>
NotApplied(p) ==
  /\ pc[p] = "check" /\ at[p] \notin recorded /\ Goto(p, "change")
  /\ UNCHANGED <<database, lock, applied, at, errors, crashes>>

\* Variant of ChangeSchema: the SQL runs outside the transaction.
ChangeSchemaVariant(p) ==
  /\ pc[p] = "change"
  /\ changes' = [changes EXCEPT ![at[p]] = @ + 1] /\ Goto(p, "record")
  /\ UNCHANGED <<table, recorded, lock, applied, at, errors, crashes>>
ChangeSchema(p) ==
  /\ pc[p] = "change"
  /\ \/ (changes[at[p]] = 0 \/ at[p] \in Repeatable)
        /\ Goto(p, "record") /\ UNCHANGED lock
     \/ changes[at[p]] > 0 /\ at[p] \notin Repeatable
        /\ Goto(p, "failed") /\ Release(p)
  /\ UNCHANGED <<database, applied, at, errors, crashes>>

\* version is the primary key of schema_migrations.
RecordVersion(p) ==
  /\ pc[p] = "record"
  /\ \/ at[p] \notin recorded /\ Goto(p, "commit") /\ UNCHANGED lock
     \/ at[p] \in recorded /\ Goto(p, "failed") /\ Release(p)
  /\ UNCHANGED <<database, applied, at, errors, crashes>>

Commit(p) ==
  /\ pc[p] = "commit"
  /\ recorded' = recorded \cup {at[p]}
  /\ changes' = [changes EXCEPT ![at[p]] = @ + 1]
  /\ at' = [at EXCEPT ![p] = @ + 1] /\ Goto(p, "loop") /\ Release(p)
  /\ UNCHANGED <<table, applied, errors, crashes>>

-------------------------------------------------------------------------------
Running(p) == pc[p] \notin {"ready", "failed", "down"}

\* Variant of Error: a failed file is logged and the next one taken.
ErrorVariant(p) ==
  /\ Running(p) /\ errors < MaxErrors /\ errors' = errors + 1
  /\ Release(p)
  /\ Goto(p, IF pc[p] \in InTransaction THEN "loop" ELSE "failed")
  /\ at' = [at EXCEPT ![p] = @ + 1]
  /\ UNCHANGED <<database, applied, crashes>>

\* A call fails: Apply returns the error after its deferred ROLLBACK.
Error(p) ==
  /\ Running(p) /\ (pc[p] = "loop" => at[p] \in Versions)
  /\ errors < MaxErrors /\ errors' = errors + 1
  /\ Goto(p, "failed") /\ Release(p)
  /\ UNCHANGED <<database, applied, at, crashes>>

Crash(p) ==
  /\ Running(p) /\ crashes < MaxCrashes /\ crashes' = crashes + 1
  /\ Goto(p, "down") /\ Release(p)
  /\ UNCHANGED <<database, applied, at, errors>>

Restart(p) ==
  /\ pc[p] \in {"failed", "down"} /\ Goto(p, "start")
  /\ UNCHANGED <<database, lock, applied, at, errors, crashes>>

AllReady == (\A p \in Procs : pc[p] = "ready") /\ UNCHANGED vars

Apply(p) ==
  \/ CreateTable(p) \/ AppliedVersions(p) \/ Skip(p) \/ Finish(p)
  \/ Begin(p) \/ AlreadyApplied(p) \/ NotApplied(p) \/ ChangeSchema(p)
  \/ RecordVersion(p) \/ Commit(p)

Next ==
  \/ \E p \in Procs : Apply(p) \/ Error(p) \/ Crash(p) \/ Restart(p)
  \/ AllReady

Spec == Init /\ [][Next]_vars

(***************************************************************************)
(* A process takes the steps it can, and is started again after a failure. *)
(* SQLite does not promise the lock to a waiting process while others take *)
(* it in turn, but these take it finitely often: weak fairness is enough.  *)
(***************************************************************************)
Fairness == \A p \in Procs : WF_vars(Apply(p)) /\ WF_vars(Restart(p))
FairSpec == Spec /\ Fairness

-------------------------------------------------------------------------------
(***************************************************************************)
(* Properties.                                                             *)
(***************************************************************************)
TypeOK ==
  /\ table \in BOOLEAN /\ recorded \subseteq Versions
  /\ changes \in [Versions -> Nat]
  /\ lock \subseteq Procs
  /\ pc \in [Procs -> {"start", "read", "loop", "ready", "failed", "down"}
                         \cup InTransaction]
  /\ applied \in [Procs -> SUBSET Versions]
  /\ at \in [Procs -> 1 .. Count + 1]
  /\ errors \in Nat /\ crashes \in Nat

\* The processes in a transaction hold the write lock, and a process that skips,
\* fails or dies in one never leaves it taken.
LockHeld == lock = {p \in Procs : pc[p] \in InTransaction}

\* A migration's SQL is in force exactly when its version is recorded, and was
\* committed once, whoever raced, failed or died: an unrecorded change would
\* make every later start fail.
RecordedIsChanged == \A v \in Versions :
  changes[v] = IF v \in recorded THEN 1 ELSE 0

\* Migrations take effect in the order of their files: none is in force before
\* one it may build on (docs/04, 3.1).
InOrder == \A v \in recorded : \A u \in 1 .. v : u \in recorded

\* A process that goes on to use the database finds every column: what it
\* skipped because another process recorded it is committed.
ReadyIsComplete == (\E p \in Procs : pc[p] = "ready") => recorded = Versions

\* Processes that start together do not make each other fail: a start fails
\* only if a call failed (docs/04, 3.1: the migration can be repeated).
FailureHasCause == (\E p \in Procs : pc[p] = "failed") => errors > 0

\* Whoever wins, fails or dies, every process gets to work in the end, none
\* locked out by a transaction another left open.
AllBecomeReady == <>[](\A p \in Procs : pc[p] = "ready")

(***************************************************************************)
(* The inductive invariant: what a process knows at each point of Apply.   *)
(***************************************************************************)
OneWriter == \A p, q \in lock : p = q
Known(p) ==
  /\ applied[p] \subseteq recorded
  /\ pc[p] \in {"loop"} \cup InTransaction =>
       \A v \in Versions : v < at[p] => v \in recorded
  /\ pc[p] \in InTransaction => at[p] \in Versions
  /\ pc[p] \in {"change", "record", "commit"} => at[p] \notin recorded

IInv == /\ TypeOK /\ LockHeld /\ OneWriter /\ RecordedIsChanged /\ InOrder
        /\ ReadyIsComplete /\ FailureHasCause
        /\ \A p \in Procs : Known(p)
===============================================================================
