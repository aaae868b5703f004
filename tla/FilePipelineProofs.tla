-------------------------- MODULE FilePipelineProofs --------------------------
(***************************************************************************)
(* Theorems about FilePipeline, for any sets of tasks, processes and       *)
(* requests and any limits.                                                *)
(***************************************************************************)
EXTENDS FilePipeline, FiniteSetTheorems, TLAPS

-------------------------------------------------------------------------------
(***************************************************************************)
(* What the statements of TaskStore return.                                *)
(***************************************************************************)
LEMMA AfterFailureType ==
  ASSUME NEW a \in Nat, NEW n \in Nat
  PROVE  AfterFailure(a, n) \in {"PENDING", "FAILED", "DEAD"}
BY DEF AfterFailure

LEMMA WriteType ==
  ASSUME NEW r \in Row
  PROVE  Write(r) \in Row
BY DEF Write, Row

LEMMA DeadlineType ==
  ASSUME NEW r \in Row
  PROVE  [r EXCEPT !.lease = "expired"] \in Row /\ [r EXCEPT !.next = "due"] \in Row
BY DEF Row

\* The provers take the assignment of many fields better with opaque values.
LEMMA WaitingUpdateType ==
  ASSUME NEW r \in Row, NEW st \in Status, NEW a \in Nat,
         NEW n \in {"future", "due"}
  PROVE  [r EXCEPT !.status = st, !.waiting = TRUE, !.attempts = a,
                   !.lease = "none", !.next = n] \in Row
BY DEF Row

LEMMA CallbackUpdateType ==
  ASSUME NEW r \in Row, NEW st \in Status, NEW sg \in Stage, NEW a \in Nat,
         NEW v \in Verdict, NEW f \in BOOLEAN, NEW n \in {"future", "due"}
  PROVE  [r EXCEPT !.status = st, !.stage = sg, !.attempts = a,
                   !.waiting = FALSE, !.verdict = v, !.error = f,
                   !.next = n] \in Row
BY DEF Row

LEMMA RetryUpdateType ==
  ASSUME NEW r \in Row, NEW st \in Status, NEW a \in Nat, NEW m \in Nat,
         NEW f \in BOOLEAN, NEW n \in {"future", "due"}
  PROVE  [r EXCEPT !.status = st, !.attempts = a, !.retries = m, !.error = f,
                   !.next = n] \in Row
BY DEF Row

LEMMA WorkerWriteType ==
  ASSUME NEW r \in Row, NEW c \in Row, NEW v \in {"none", "clean", "infected"}
  PROVE  /\ Claim(r) \in Row
         /\ CompleteStage(r, c, v) \in Row
         /\ FinishSuccess(r) \in Row
         /\ FailStage(r, c) \in Row
         /\ MarkWaitingCallback(r) \in Row
         /\ ReclaimLease(r) \in Row
         /\ ReclaimCallback(r) \in Row
<1>1. Claim(r) \in Row
  <2>1. [r EXCEPT !.status = "PROCESSING", !.lease = "live"] \in Row
    BY DEF Row, Status
  <2> QED BY <2>1, WriteType DEF Claim
<1>2. CompleteStage(r, c, v) \in Row
  <2>1. NextStage(c.stage) \in Stage
    BY DEF NextStage, Stage
  <2>2. (IF v = "none" THEN c.verdict ELSE v) \in Verdict
    BY DEF Verdict, Row
  <2>3. [r EXCEPT !.status = "PENDING", !.stage = NextStage(c.stage),
                  !.attempts = 0, !.error = FALSE, !.lease = "none",
                  !.next = "due",
                  !.verdict = IF v = "none" THEN c.verdict ELSE v] \in Row
    BY <2>1, <2>2 DEF Row, Status
  <2> QED BY <2>3, WriteType DEF CompleteStage
<1>3. FinishSuccess(r) \in Row
  <2>1. [r EXCEPT !.status = "SUCCEEDED", !.attempts = 0, !.lease = "none"] \in Row
    BY DEF Row, Status
  <2> QED BY <2>1, WriteType DEF FinishSuccess
<1>4. FailStage(r, c) \in Row
  <2>1. FailStatus(c) \in {"PENDING", "FAILED", "DEAD"}
    BY AfterFailureType DEF FailStatus, Row
  <2>2. c.attempts + 1 \in Nat
    BY DEF Row
  <2>3. [r EXCEPT !.status = FailStatus(c), !.attempts = c.attempts + 1,
                  !.error = TRUE, !.lease = "none",
                  !.next = IF FailStatus(c) = "PENDING" THEN "future" ELSE "due"]
          \in Row
    BY <2>1, <2>2 DEF Row, Status
  <2> QED BY <2>3, WriteType DEF FailStage
<1>5. MarkWaitingCallback(r) \in Row
  <2> DEFINE a == r.attempts + 1
             st == "PENDING"
             n == "future"
  <2>1. a \in Nat /\ st \in Status /\ n \in {"future", "due"}
    BY DEF Row, Status
  <2>2. [r EXCEPT !.status = st, !.waiting = TRUE, !.attempts = a,
                  !.lease = "none", !.next = n] \in Row
    <3> HIDE DEF a, st, n
    <3> QED BY <2>1, WaitingUpdateType
  <2> QED BY <2>2, WriteType DEF MarkWaitingCallback
<1>6. ReclaimLease(r) \in Row
  <2>1. [r EXCEPT !.status = "PENDING", !.lease = "none", !.next = "due",
                  !.error = FALSE] \in Row
    BY DEF Row, Status
  <2> QED BY <2>1, WriteType DEF ReclaimLease
<1>7. ReclaimCallback(r) \in Row
  <2>1. TimeoutStatus(r) \in {"PENDING", "FAILED", "DEAD"}
    BY AfterFailureType DEF TimeoutStatus, Row
  <2>2. (TimeoutStatus(r) # "PENDING") \in BOOLEAN
    OBVIOUS
  <2>3. [r EXCEPT !.status = TimeoutStatus(r), !.waiting = FALSE,
                  !.lease = "none", !.next = "due",
                  !.error = TimeoutStatus(r) # "PENDING"] \in Row
    BY <2>1, <2>2 DEF Row, Status
  <2> QED BY <2>3, WriteType DEF ReclaimCallback
<1> QED BY <1>1, <1>2, <1>3, <1>4, <1>5, <1>6, <1>7

LEMMA HandlerWriteType ==
  ASSUME NEW r \in Row, NEW c \in Row, NEW v \in {"clean", "infected", "error"}
  PROVE  /\ CallbackStatus(c, v) \in {"PENDING", "FAILED", "DEAD"}
         /\ ApplyCallback(r, c, v) \in Row
         /\ ManualRetry(r) \in Row
<1>1. CallbackAttempts(c) \in Nat
  BY DEF CallbackAttempts, Row
<1>2. CallbackStatus(c, v) \in {"PENDING", "FAILED", "DEAD"}
  BY <1>1, AfterFailureType DEF CallbackStatus, Row
<1>3. ApplyCallback(r, c, v) \in Row
  <2> DEFINE failed == v = "error"
             st == CallbackStatus(c, v)
             sg == IF failed THEN "SCAN" ELSE "DONE"
             a  == IF failed THEN CallbackAttempts(c) ELSE 0
             n  == IF failed /\ st = "PENDING" THEN "future" ELSE "due"
  <2>1. /\ st \in Status /\ sg \in Stage /\ a \in Nat /\ v \in Verdict
        /\ failed \in BOOLEAN /\ n \in {"future", "due"}
    BY <1>1, <1>2 DEF Status, Stage, Verdict
  <2>2. [r EXCEPT !.status = st, !.stage = sg, !.attempts = a,
                  !.waiting = FALSE, !.verdict = v, !.error = failed,
                  !.next = n] \in Row
    <3> HIDE DEF failed, st, sg, a, n
    <3> QED BY <2>1, CallbackUpdateType
  <2> QED BY <2>2, WriteType DEF ApplyCallback
<1>4. ManualRetry(r) \in Row
  <2> DEFINE m == r.retries + 1
             st == "PENDING"
             a == 0
             f == FALSE
             n == "due"
  <2>1. /\ m \in Nat /\ st \in Status /\ a \in Nat /\ f \in BOOLEAN
        /\ n \in {"future", "due"}
    BY DEF Row, Status
  <2>2. [r EXCEPT !.status = st, !.attempts = a, !.retries = m,
                  !.error = f, !.next = n] \in Row
    <3> HIDE DEF m, st, a, f, n
    <3> QED BY <2>1, RetryUpdateType
  <2> QED BY <2>2, WriteType DEF ManualRetry
<1> QED BY <1>2, <1>3, <1>4

LEMMA EventType ==
  ASSUME NEW log \in [EventKind -> Nat], NEW k \in EventKind
  PROVE  AppendEvent(log, k) \in [EventKind -> Nat]
BY DEF AppendEvent

-------------------------------------------------------------------------------
(***************************************************************************)
(* Type correctness.                                                       *)
(***************************************************************************)
TableOK == /\ table \subseteq Tasks
           /\ row \in [Tasks -> Row]
           /\ events \in [Tasks -> [EventKind -> Nat]]

LEMMA CommitType ==
  ASSUME TableOK, NEW t \in Tasks, NEW r \in Row, NEW k \in EventKind,
         Commit(t, r, k)
  PROVE  TableOK'
<1>1. AppendEvent(events[t], k) \in [EventKind -> Nat]
  BY EventType DEF TableOK
<1> QED BY <1>1 DEF Commit, TableOK

LEMMA PersistType ==
  ASSUME NEW e \in Finished, NEW r \in Row
  PROVE  PersistRow(e, r) \in Row /\ PersistEvent(e) \in EventKind
<1>1. e.row \in Row /\ e.out \in Outcome
  BY DEF Finished
<1>2. CASE e.out = "error"
  BY <1>1, <1>2, WorkerWriteType DEF PersistRow, PersistEvent, EventKind,
     FailureEvent
<1>3. CASE e.out = "accepted"
  BY <1>1, <1>3, WorkerWriteType DEF PersistRow, PersistEvent, EventKind
<1>4. CASE e.out \in {"ok", "clean", "infected"}
  <2> DEFINE v == IF e.out = "ok" THEN "none" ELSE e.out
  <2>1. v \in {"none", "clean", "infected"}
    BY <1>4
  <2>2. CompleteStage(r, e.row, v) \in Row /\ FinishSuccess(r) \in Row
    BY <1>1, <2>1, WorkerWriteType
  <2>3. e.row.stage \in Stage
    BY <1>1 DEF Row
  <2> QED BY <1>4, <2>2, <2>3 DEF PersistRow, PersistEvent, EventKind
<1> QED BY <1>1, <1>2, <1>3, <1>4 DEF Outcome

LEMMA RequeueType ==
  ASSUME TableOK, RequeueExpired
  PROVE  TableOK'
<1>1. \A t \in Tasks : ReclaimLease(row[t]) \in Row
  BY WorkerWriteType DEF TableOK
<1>2. \A t \in Tasks : AppendEvent(events[t], "RETRYING") \in [EventKind -> Nat]
  BY EventType DEF TableOK, EventKind
<1> QED BY <1>1, <1>2 DEF RequeueExpired, TableOK

LEMMA TypeInit == Init => TypeOK
<1>1. NewTask \in Row
  BY DEF NewTask, Row, Status, Stage, Verdict
<1>2. NoEvents \in [EventKind -> Nat]
  BY DEF NoEvents
<1> QED BY <1>1, <1>2 DEF Init, TypeOK

LEMMA TypeStep == TypeOK /\ [Next]_vars => TypeOK'
<1> SUFFICES ASSUME TypeOK, [Next]_vars PROVE TypeOK'
  OBVIOUS
<1> USE DEF TypeOK, Copy, Finished, Request, RetryCall
<1>t. TableOK
  BY DEF TableOK
<1>1. ASSUME NEW p \in Procs, WorkerStep(p) PROVE TypeOK'
  <2>1. CASE SelectPending(p)
    <3> PICK S \in SUBSET Due : candidates' =
          [candidates EXCEPT ![p] = {[id |-> t, row |-> row[t]] : t \in S}]
      BY <2>1 DEF SelectPending
    <3>1. {[id |-> t, row |-> row[t]] : t \in S} \subseteq Copy
      BY DEF Due
    <3> QED BY <2>1, <3>1 DEF SelectPending, database, api, bounds
  <2>2. CASE ClaimPending(p)
    <3> PICK c \in candidates[p] : ClaimPending(p)!(c)
      BY <2>2 DEF ClaimPending
    <3>1. c \in Copy /\ c.id \in Tasks /\ c.row \in Row
      OBVIOUS
    <3>2. Claim(c.row) \in Row /\ Claim(row[c.id]) \in Row
      BY <3>1, WorkerWriteType
    <3> QED BY <3>1, <3>2 DEF api, bounds
  <2>3. CASE ClaimError(p)
    BY <2>3 DEF ClaimError, database, api
  <2>4. CASE Dispatch(p)
    BY <2>4 DEF Dispatch, database, api, bounds
  <2>5. CASE Execute(p)
    BY <2>5 DEF Execute, database, api, bounds
  <2>6. CASE Process(p)
    <3> PICK e \in executed[p] : Process(p)!(e)
      BY <2>6 DEF Process
    <3>1. e \in Finished /\ e.id \in Tasks /\ row[e.id] \in Row
      OBVIOUS
    <3>2. TableOK'
      <4>1. CASE Commit(e.id, PersistRow(e, row[e.id]), PersistEvent(e))
        BY <1>t, <3>1, <4>1, PersistType, CommitType
      <4>2. CASE UNCHANGED database
        BY <1>t, <4>2 DEF database, TableOK
      <4> QED BY <4>1, <4>2
    <3> QED BY <3>2 DEF TableOK, api, bounds
  <2>7. CASE ProcessError(p)
    BY <2>7 DEF ProcessError, database, api
  <2>8. CASE ReclaimExpired(p)
    <3>1. TableOK'
      BY <1>t, <2>8, RequeueType DEF ReclaimExpired
    <3> QED BY <2>8, <3>1 DEF ReclaimExpired, TableOK, memory, api, bounds
  <2>9. CASE ReclaimCallbackTimeouts(p)
    <3>1. \A t \in Tasks : ReclaimCallback(row[t]) \in Row
      BY WorkerWriteType
    <3>2. \A t \in Tasks : AppendEvent(events[t],
            FailureEvent(TimeoutStatus(row[t]))) \in [EventKind -> Nat]
      BY EventType DEF EventKind, FailureEvent
    <3> QED BY <2>9, <3>1, <3>2 DEF ReclaimCallbackTimeouts, memory, api, bounds
  <2>10. CASE Crash(p)
    BY <2>10 DEF Crash, database, api
  <2>11. CASE Restart(p)
    <3>1. TableOK'
      BY <1>t, <2>11, RequeueType DEF Restart
    <3> QED BY <2>11, <3>1 DEF Restart, TableOK, memory, api, bounds
  <2> QED BY <1>1, <2>1, <2>2, <2>3, <2>4, <2>5, <2>6, <2>7, <2>8, <2>9, <2>10,
             <2>11 DEF WorkerStep
<1>2. ASSUME NEW t \in Tasks, CreateTask(t) PROVE TypeOK'
  BY <1>2 DEF CreateTask, memory, api, bounds
<1>3. ASSUME NEW t \in Tasks, LeaseExpires(t) PROVE TypeOK'
  <2>1. [row[t] EXCEPT !.lease = "expired"] \in Row
    BY DeadlineType
  <2> QED BY <1>3, <2>1 DEF LeaseExpires, memory, api
<1>4. ASSUME NEW t \in Tasks, NextRunComes(t) PROVE TypeOK'
  <2>1. [row[t] EXCEPT !.next = "due"] \in Row
    BY DeadlineType
  <2> QED BY <1>4, <2>1 DEF NextRunComes, memory, api, bounds
<1>5. ASSUME NEW q \in Callbacks, ReadForCallback(q) PROVE TypeOK'
  BY <1>5 DEF ReadForCallback, database, memory, bounds
<1>6. ASSUME NEW q \in Retries, ReadForRetry(q) PROVE TypeOK'
  BY <1>6 DEF ReadForRetry, database, memory, bounds
<1>7. CASE ScanCallback
  <2> PICK k \in callbacks : ScanCallback!(k)
    BY <1>7 DEF ScanCallback
  <2>1. /\ k.id \in Tasks /\ k.row \in Row /\ row[k.id] \in Row
        /\ k.verdict \in {"clean", "infected", "error"}
    OBVIOUS
  <2>2. /\ ApplyCallback(row[k.id], k.row, k.verdict) \in Row
        /\ CallbackEvent(k.row, k.verdict) \in EventKind
    BY <2>1, HandlerWriteType
    DEF CallbackEvent, EventKind, FailureEvent, Stage
  <2>3. TableOK'
    BY <1>t, <2>1, <2>2, CommitType DEF database, TableOK
  <2> QED BY <2>3 DEF TableOK, memory, bounds
<1>8. CASE RetryTask
  <2> PICK k \in retrying : RetryTask!(k)
    BY <1>8 DEF RetryTask
  <2>1. k.id \in Tasks /\ row[k.id] \in Row
    OBVIOUS
  <2>2. ManualRetry(row[k.id]) \in Row /\ "RETRYING" \in EventKind
    BY <2>1, HandlerWriteType DEF EventKind
  <2>3. TableOK'
    BY <1>t, <2>1, <2>2, CommitType DEF database, TableOK
  <2> QED BY <2>3 DEF TableOK, memory, bounds
<1>9. CASE UNCHANGED vars
  BY <1>9 DEF vars, database, memory, api, bounds
<1> QED BY <1>1, <1>2, <1>3, <1>4, <1>5, <1>6, <1>7, <1>8, <1>9 DEF Next

\* Every variable keeps its type: in particular no statement writes a status,
\* stage or verdict outside the domain package's lists.
THEOREM TypeCorrect == Spec => []TypeOK
BY TypeInit, TypeStep, PTL DEF Spec

-------------------------------------------------------------------------------
(***************************************************************************)
(* Each statement keeps RowOK under its WHERE clause and what its caller   *)
(* knows of the copy.                                                      *)
(***************************************************************************)
LEMMA ClaimRow ==
  ASSUME NEW r \in Row, NEW t \in Tasks, RowOK(t, r), Claimable(r)
  PROVE  RowOK(t, Claim(r))
BY DEF RowOK, Claimable, Claim, Write, Row

LEMMA CompleteRow ==
  ASSUME NEW r \in Row, NEW t \in Tasks, RowOK(t, r), NEW c \in Row,
         AsClaimed(r, c), r.status = "PROCESSING", r.stage # "DONE",
         NEW v \in {"none", "clean", "infected"}, v = "none" <=> r.stage # "SCAN"
  PROVE  RowOK(t, CompleteStage(r, c, v))
<1>1. c.stage = r.stage /\ c.verdict = r.verdict
  BY DEF AsClaimed, Row
<1>2. ~r.waiting
  BY DEF RowOK
<1>3. /\ NextStage(r.stage) # "VALIDATE"
      /\ NextStage(r.stage) = "DONE" <=> r.stage = "SCAN"
  BY DEF NextStage, Row, Stage
<1>4. NextStage(r.stage) = "EXTRACT" => r.stage = "VALIDATE"
  BY DEF NextStage, Row, Stage
<1> QED BY <1>1, <1>2, <1>3, <1>4, LimitsAssumption DEF RowOK, CompleteStage, Write, Row

LEMMA FinishRow ==
  ASSUME NEW r \in Row, NEW t \in Tasks, RowOK(t, r),
         r.status = "PROCESSING", r.stage = "DONE"
  PROVE  RowOK(t, FinishSuccess(r))
BY LimitsAssumption DEF RowOK, FinishSuccess, Write, Row

LEMMA AfterFailureCases ==
  ASSUME NEW a \in Nat, NEW n \in Nat
  PROVE  /\ AfterFailure(a, n) = "PENDING" <=> a < MaxAttempts
         /\ AfterFailure(a, n) = "DEAD" => n >= MaxManualRetries
BY LimitsAssumption DEF AfterFailure

LEMMA FailRow ==
  ASSUME NEW r \in Row, NEW t \in Tasks, RowOK(t, r), NEW c \in Row,
         AsClaimed(r, c), r.status = "PROCESSING", r.stage # "DONE"
  PROVE  RowOK(t, FailStage(r, c))
<1>1. c.attempts = r.attempts /\ c.retries = r.retries
  BY DEF AsClaimed, Row
<1>2. ~r.waiting
  BY DEF RowOK
<1> DEFINE st == FailStatus(c)
<1>3. /\ st \in {"PENDING", "FAILED", "DEAD"} 
      /\ st = "PENDING" <=> r.attempts + 1 < MaxAttempts
      /\ st = "DEAD" => r.retries >= MaxManualRetries
  BY <1>1, AfterFailureType, AfterFailureCases DEF FailStatus, Row
<1>4. r.attempts + 1 <= MaxAttempts
  BY <1>2, LimitsAssumption DEF RowOK, Row
<1> HIDE DEF st
<1> DEFINE n == IF st = "PENDING" THEN "future" ELSE "due"
           a == r.attempts + 1
<1>5. FailStage(r, c) =
        Write([r EXCEPT !.status = st, !.attempts = a, !.error = TRUE,
                        !.lease = "none", !.next = n])
  BY <1>1 DEF FailStage, st
<1>6. /\ a \in Nat /\ a <= MaxAttempts /\ (st = "PENDING" <=> a < MaxAttempts)
      /\ st # "PENDING" => n = "due"
  BY <1>3, <1>4 DEF Row
<1> HIDE DEF n, a
<1> QED BY <1>2, <1>3, <1>5, <1>6, LimitsAssumption DEF RowOK, Write, Row

LEMMA WaitingRow ==
  ASSUME NEW r \in Row, NEW t \in Tasks, RowOK(t, r), t \in submitted,
         r.status = "PROCESSING", r.stage = "SCAN"
  PROVE  RowOK(t, MarkWaitingCallback(r))
BY LimitsAssumption DEF RowOK, MarkWaitingCallback, Write, Row

LEMMA RetryRow ==
  ASSUME NEW r \in Row, NEW t \in Tasks, RowOK(t, r), RetryGuard(r)
  PROVE  RowOK(t, ManualRetry(r))
BY LimitsAssumption DEF RowOK, ManualRetry, RetryGuard, Write, Row

LEMMA ReclaimLeaseRow ==
  ASSUME NEW r \in Row, NEW t \in Tasks, RowOK(t, r), LeaseLapsed(r)
  PROVE  RowOK(t, ReclaimLease(r))
BY LimitsAssumption DEF RowOK, ReclaimLease, LeaseLapsed, Write, Row

LEMMA ReclaimCallbackRow ==
  ASSUME NEW r \in Row, NEW t \in Tasks, RowOK(t, r), CallbackLapsed(r)
  PROVE  RowOK(t, ReclaimCallback(r))
<1> DEFINE st == TimeoutStatus(r)
           f == st # "PENDING"
<1>3. /\ st \in {"PENDING", "FAILED", "DEAD"} 
      /\ st = "PENDING" <=> r.attempts < MaxAttempts
      /\ st = "DEAD" => r.retries >= MaxManualRetries
  BY AfterFailureType, AfterFailureCases DEF TimeoutStatus, Row
<1>4. f \in BOOLEAN /\ (st \in {"FAILED", "DEAD"} => f)
  OBVIOUS
<1>5. ReclaimCallback(r) =
        Write([r EXCEPT !.status = st, !.waiting = FALSE, !.lease = "none",
                        !.next = "due", !.error = f])
  BY DEF ReclaimCallback
<1> HIDE DEF st, f
<1> QED BY <1>3, <1>4, <1>5, LimitsAssumption DEF RowOK, CallbackLapsed, Write, Row

LEMMA CallbackRow ==
  ASSUME NEW r \in Row, NEW t \in Tasks, RowOK(t, r), CallbackGuard(r), NEW c \in Row,
         c.attempts <= MaxAttempts, c.retries <= r.retries,
         NEW v \in {"clean", "infected", "error"}
  PROVE  RowOK(t, ApplyCallback(r, c, v))
<1> DEFINE failed == v = "error"
           st == CallbackStatus(c, v)
           sg == IF failed THEN "SCAN" ELSE "DONE"
           a  == IF failed THEN CallbackAttempts(c) ELSE 0
           n  == IF failed /\ st = "PENDING" THEN "future" ELSE "due"
<1>1. CallbackAttempts(c) \in Nat /\ CallbackAttempts(c) <= MaxAttempts
  BY LimitsAssumption DEF CallbackAttempts, Row
<1>2. /\ st \in {"PENDING", "FAILED", "DEAD"}
      /\ failed => (st = "PENDING" <=> a < MaxAttempts)
      /\ ~failed => st = "PENDING"
      /\ st = "DEAD" => r.retries >= MaxManualRetries
  BY <1>1, AfterFailureType, AfterFailureCases, LimitsAssumption DEF CallbackStatus, Row
<1>3. a \in Nat /\ a <= MaxAttempts /\ (~failed => a < MaxAttempts)
  BY <1>1, LimitsAssumption
<1>4. /\ failed \in BOOLEAN /\ sg = (IF failed THEN "SCAN" ELSE "DONE")
      /\ ~failed => v \in {"clean", "infected"}
      /\ st # "PENDING" => n = "due"
  OBVIOUS
<1>5. ApplyCallback(r, c, v) =
        Write([r EXCEPT !.status = st, !.stage = sg, !.attempts = a,
                        !.waiting = FALSE, !.verdict = v, !.error = failed,
                        !.next = n])
  BY DEF ApplyCallback
<1>6. r.lease = "none"
  BY DEF RowOK, CallbackGuard
<1> HIDE DEF failed, st, sg, a, n
<1> QED BY <1>2, <1>3, <1>4, <1>5, <1>6, LimitsAssumption DEF RowOK, Write, Row

LEMMA DeadlineRow ==
  ASSUME NEW r \in Row, NEW t \in Tasks, RowOK(t, r)
  PROVE  /\ r.lease = "live" => RowOK(t, [r EXCEPT !.lease = "expired"])
         /\ RowOK(t, [r EXCEPT !.next = "due"])
BY DEF RowOK, Row

-------------------------------------------------------------------------------
(***************************************************************************)
(* How a row may change in one step: its version grows, or nothing changes *)
(* but a deadline that passes.  So a copy with an equal version is still   *)
(* what its holder read.                                                   *)
(***************************************************************************)
Evolves(r, s) ==
  /\ r.retries <= s.retries
  /\ \/ s.version = r.version + 1
     \/ /\ s = [r EXCEPT !.lease = s.lease, !.next = s.next]
        /\ r.lease = "none" => s.lease = "none"
        /\ s.lease \in {r.lease, "expired"}
        /\ r.next = "due" => s.next = "due"

LEMMA StutterEvolves == ASSUME NEW r \in Row PROVE Evolves(r, r)
<1>1. r = [r EXCEPT !.lease = r.lease, !.next = r.next]
  BY DEF Row
<1>2. r.retries <= r.retries
  BY DEF Row
<1> QED BY <1>1, <1>2 DEF Evolves

LEMMA WorkerWriteEvolves ==
  ASSUME NEW r \in Row, NEW c \in Row, NEW v
  PROVE  /\ Evolves(r, Claim(r))
         /\ Evolves(r, CompleteStage(r, c, v))
         /\ Evolves(r, FinishSuccess(r))
         /\ Evolves(r, FailStage(r, c))
         /\ Evolves(r, MarkWaitingCallback(r))
         /\ Evolves(r, ReclaimLease(r))
         /\ Evolves(r, ReclaimCallback(r))
<1>1. Evolves(r, Claim(r))
  BY DEF Evolves, Row, Claim, Write
<1>2. Evolves(r, CompleteStage(r, c, v))
  BY DEF Evolves, Row, CompleteStage, Write
<1>3. Evolves(r, FinishSuccess(r))
  BY DEF Evolves, Row, FinishSuccess, Write
<1>4. Evolves(r, FailStage(r, c))
  BY DEF Evolves, Row, FailStage, Write
<1>5. Evolves(r, MarkWaitingCallback(r))
  BY DEF Evolves, Row, MarkWaitingCallback, Write
<1>6. Evolves(r, ReclaimLease(r))
  BY DEF Evolves, Row, ReclaimLease, Write
<1>7. Evolves(r, ReclaimCallback(r))
  BY DEF Evolves, Row, ReclaimCallback, Write
<1> QED BY <1>1, <1>2, <1>3, <1>4, <1>5, <1>6, <1>7

LEMMA HandlerWriteEvolves ==
  ASSUME NEW r \in Row, NEW c \in Row, NEW v
  PROVE  Evolves(r, ApplyCallback(r, c, v)) /\ Evolves(r, ManualRetry(r))
BY DEF Evolves, Row, ApplyCallback, ManualRetry, Write

LEMMA DeadlineEvolves ==
  ASSUME NEW r \in Row
  PROVE  /\ r.lease = "live" => Evolves(r, [r EXCEPT !.lease = "expired"])
         /\ r.next = "future" => Evolves(r, [r EXCEPT !.next = "due"])
<1>1. ASSUME NEW s \in Row, s = [r EXCEPT !.lease = "expired"], r.lease = "live"
      PROVE  Evolves(r, s)
  <2>1. s.retries = r.retries /\ s.lease = "expired" /\ s.next = r.next
    BY <1>1 DEF Row
  <2>2. s = [r EXCEPT !.lease = s.lease, !.next = s.next]
    BY <1>1, <2>1 DEF Row
  <2> QED BY <1>1, <2>1, <2>2 DEF Evolves, Row
<1>2. ASSUME NEW s \in Row, s = [r EXCEPT !.next = "due"]
      PROVE  Evolves(r, s)
  <2>1. s.retries = r.retries /\ s.lease = r.lease /\ s.next = "due"
    BY <1>2 DEF Row
  <2>2. s = [r EXCEPT !.lease = s.lease, !.next = s.next]
    BY <1>2, <2>1 DEF Row
  <2> QED BY <1>2, <2>1, <2>2 DEF Evolves, Row
<1> QED BY <1>1, <1>2, DeadlineType

LEMMA EvolvesVersion ==
  ASSUME NEW r \in Row, NEW s \in Row, Evolves(r, s)
  PROVE  r.version <= s.version
<1>1. CASE s.version = r.version + 1
  BY <1>1 DEF Row
<1>2. CASE s = [r EXCEPT !.lease = s.lease, !.next = s.next]
  <2>1. s.version = r.version
    BY <1>2 DEF Row
  <2> QED BY <2>1 DEF Row
<1> QED BY <1>1, <1>2 DEF Evolves

LEMMA EvolvesFixed ==
  ASSUME NEW r \in Row, NEW s \in Row, Evolves(r, s), r.next = "due",
         s.version = r.version
  PROVE  AsClaimed(s, r) /\ (r.lease = "none" => s = r)
<1>1. s = [r EXCEPT !.lease = s.lease, !.next = s.next]
  BY DEF Evolves, Row
<1>2. s.next = r.next /\ (r.lease = "none" => s.lease = "none")
  BY DEF Evolves, Row
<1>3. s = [r EXCEPT !.lease = s.lease]
  BY <1>1, <1>2 DEF Row
<1>4. ASSUME r.lease = "none" PROVE s = r
  BY <1>2, <1>3, <1>4 DEF Row
<1> QED BY <1>3, <1>4 DEF AsClaimed

LEMMA AsClaimedTrans ==
  ASSUME NEW q \in Row, NEW r \in Row, NEW s \in Row,
         AsClaimed(r, q), AsClaimed(s, r)
  PROVE  AsClaimed(s, q)
BY DEF AsClaimed, Row

-------------------------------------------------------------------------------
(***************************************************************************)
(* A step that lets every row evolve keeps what is true of every copy that *)
(* was already there.                                                      *)
(***************************************************************************)
AllEvolve == \A t \in Tasks : Evolves(row[t], row'[t])

LEMMA OldCandidate ==
  ASSUME TypeOK, TypeOK', RowsOK, AllEvolve, NEW c \in Copy, CandidateOK(c)
  PROVE  CandidateOK(c)'
<1> DEFINE r == row[c.id]
           s == row'[c.id]
<1>1. r \in Row /\ s \in Row /\ c.row \in Row /\ Evolves(r, s)
  BY DEF TypeOK, Copy, AllEvolve
<1>2. r.version <= s.version
  BY <1>1, EvolvesVersion
<1>3. c.row.version <= s.version
  BY <1>1, <1>2 DEF CandidateOK, Row
<1>4. ASSUME s.version = c.row.version PROVE s = c.row
  <2>1. r.version = c.row.version /\ s.version = r.version
    BY <1>1, <1>2, <1>4 DEF CandidateOK, Row
  <2>2. r = c.row /\ r.next = "due" /\ r.status = "PENDING"
    BY <2>1 DEF CandidateOK, Current, Claimable
  <2>3. r.lease = "none"
    BY <2>2 DEF RowsOK, RowOK, Copy
  <2> QED BY <1>1, <2>1, <2>2, <2>3, EvolvesFixed
<1> QED BY <1>3, <1>4 DEF CandidateOK, Current

LEMMA OldClaim ==
  ASSUME TypeOK, TypeOK', AllEvolve, NEW c \in Copy, ClaimOK(c)
  PROVE  ClaimOK(c)'
<1> DEFINE r == row[c.id]
           s == row'[c.id]
<1>1. r \in Row /\ s \in Row /\ c.row \in Row /\ Evolves(r, s)
  BY DEF TypeOK, Copy, AllEvolve
<1>2. r.version <= s.version
  BY <1>1, EvolvesVersion
<1>3. c.row.version <= s.version
  BY <1>1, <1>2 DEF ClaimOK, Row
<1>4. ASSUME s.version = c.row.version PROVE AsClaimed(s, c.row)
  <2>1. r.version = c.row.version /\ s.version = r.version
    BY <1>1, <1>2, <1>4 DEF ClaimOK, Row
  <2>2. AsClaimed(r, c.row)
    BY <2>1 DEF ClaimOK, Current
  <2>3. r.next = "due"
    BY <1>1, <2>2 DEF AsClaimed, ClaimOK, Row
  <2> QED BY <1>1, <2>1, <2>2, <2>3, EvolvesFixed, AsClaimedTrans
<1> QED BY <1>3, <1>4 DEF ClaimOK, Current

LEMMA OldCallback ==
  ASSUME TypeOK, TypeOK', AllEvolve, NEW k \in Request, CallbackOK(k)
  PROVE  CallbackOK(k)'
<1>1. /\ row[k.id] \in Row /\ row'[k.id] \in Row /\ k.row \in Row
      /\ row[k.id].retries <= row'[k.id].retries
  BY DEF TypeOK, Request, AllEvolve, Evolves
<1> QED BY <1>1 DEF CallbackOK, Row

LEMMA HoldingType ==
  ASSUME TypeOK, NEW p \in Procs PROVE Holding(p) \subseteq Copy
BY DEF TypeOK, Holding, Copy, Finished

LEMMA Frame ==
  ASSUME IInv, TypeOK', RowsOK', AllEvolve, submitted \subseteq submitted'
  PROVE  /\ (\A p \in Procs : candidates'[p] \subseteq candidates[p]) => CandidatesOK'
         /\ (\A p \in Procs : Holding(p)' \subseteq Holding(p)) => ClaimsOK'
         /\ (\A p \in Procs : executed'[p] \subseteq executed[p]) => OutcomesOK'
         /\ callbacks' \subseteq callbacks => CallbacksOK'
<1>1. ASSUME \A p \in Procs : candidates'[p] \subseteq candidates[p]
      PROVE  CandidatesOK'
  BY <1>1, OldCandidate DEF IInv, CandidatesOK, TypeOK
<1>2. ASSUME \A p \in Procs : Holding(p)' \subseteq Holding(p)
      PROVE  ClaimsOK'
  BY <1>2, OldClaim, HoldingType DEF IInv, ClaimsOK
<1>3. ASSUME \A p \in Procs : executed'[p] \subseteq executed[p]
      PROVE  OutcomesOK'
  BY <1>3 DEF IInv, OutcomesOK, OutcomeOK
<1>4. ASSUME callbacks' \subseteq callbacks PROVE CallbacksOK'
  BY <1>4, OldCallback DEF IInv, CallbacksOK, TypeOK
<1> QED BY <1>1, <1>2, <1>3, <1>4

\* A step that writes one row.
LEMMA OneRow ==
  ASSUME TypeOK, RowsOK, NEW t \in Tasks, NEW s \in Row,
         RowOK(t, s), Evolves(row[t], s),
         row' = [row EXCEPT ![t] = s], submitted' = submitted
  PROVE  RowsOK' /\ AllEvolve
<1>1. \A u \in Tasks : row'[u] = IF u = t THEN s ELSE row[u]
  BY DEF TypeOK
<1>2. \A u \in Tasks : Evolves(row[u], row[u])
  BY StutterEvolves DEF TypeOK
<1>3. AllEvolve
  BY <1>1, <1>2 DEF AllEvolve
<1>4. ASSUME NEW u \in Tasks PROVE RowOK(u, row[u])'
  <2>1. RowOK(u, row'[u])
    BY <1>1 DEF RowsOK
  <2> QED BY <2>1 DEF RowOK
<1> QED BY <1>3, <1>4 DEF RowsOK

\* A step that writes none.
LEMMA NoRow ==
  ASSUME TypeOK, RowsOK, row' = row, submitted \subseteq submitted'
  PROVE  RowsOK' /\ AllEvolve
<1>1. AllEvolve
  BY StutterEvolves DEF TypeOK, AllEvolve
<1>2. ASSUME NEW t \in Tasks PROVE RowOK(t, row[t])'
  BY DEF RowsOK, RowOK
<1> QED BY <1>1, <1>2 DEF RowsOK

-------------------------------------------------------------------------------
(***************************************************************************)
(* The invariant holds initially and every step keeps it: one lemma for    *)
(* each action that gives a holder something new or writes a row.          *)
(***************************************************************************)
LEMMA SafetyInit == Init => IInv
<1> SUFFICES ASSUME Init PROVE IInv
  OBVIOUS
<1>1. TypeOK
  BY TypeInit
<1>2. \A t \in Tasks : RowOK(t, NewTask)
  BY LimitsAssumption DEF RowOK, NewTask
<1>3. RowsOK
  BY <1>2 DEF Init, RowsOK
<1>4. \A p \in Procs : Holding(p) = {}
  BY DEF Init, Holding
<1> QED BY <1>1, <1>3, <1>4 DEF Init, IInv, CandidatesOK, ClaimsOK, OutcomesOK,
           CallbacksOK

Frames == /\ \A p \in Procs : candidates'[p] \subseteq candidates[p]
          /\ \A p \in Procs : Holding(p)' \subseteq Holding(p)
          /\ \A p \in Procs : executed'[p] \subseteq executed[p]
          /\ callbacks' \subseteq callbacks

\* A step that takes copies away from their holders and lets rows evolve.
LEMMA FrameAll ==
  ASSUME IInv, TypeOK', RowsOK', AllEvolve, Frames, submitted' = submitted
  PROVE  IInv' /\ AllEvolve
BY Frame DEF Frames, IInv

LEMMA SameMemory ==
  ASSUME UNCHANGED memory, callbacks' \subseteq callbacks PROVE Frames
BY DEF Frames, memory, Holding

LEMMA SelectStep ==
  ASSUME IInv, TypeOK', NEW p \in Procs, SelectPending(p) PROVE IInv' /\ AllEvolve
<1> PICK S \in SUBSET Due : candidates' =
      [candidates EXCEPT ![p] = {[id |-> t, row |-> row[t]] : t \in S}]
  BY DEF SelectPending
<1>1. RowsOK' /\ AllEvolve
  BY NoRow DEF SelectPending, database, IInv
<1>2. CandidatesOK'
  <2> SUFFICES ASSUME NEW q \in Procs, NEW c \in candidates'[q]
               PROVE  CandidateOK(c)'
    BY DEF CandidatesOK
  <2>1. CASE c \in candidates[q]
    BY <1>1, <2>1, OldCandidate DEF IInv, CandidatesOK, TypeOK
  <2>2. CASE c \notin candidates[q]
    <3>1. PICK t \in S : c = [id |-> t, row |-> row[t]]
      BY <2>2 DEF IInv, TypeOK
    <3>2. Claimable(row[t]) /\ row[t] \in Row /\ row' = row
      BY <3>1 DEF Due, IInv, TypeOK, SelectPending, database
    <3> QED BY <3>1, <3>2 DEF CandidateOK, Current, Row
  <2> QED BY <2>1, <2>2
<1>3. /\ \A q \in Procs : Holding(q)' = Holding(q)
      /\ executed' = executed /\ callbacks' = callbacks /\ submitted' = submitted
  BY DEF SelectPending, Holding, api
<1> QED BY <1>1, <1>2, <1>3, Frame DEF IInv

LEMMA ClaimStep ==
  ASSUME IInv, TypeOK', NEW p \in Procs, ClaimPending(p) PROVE IInv' /\ AllEvolve
<1> PICK c \in candidates[p] : ClaimPending(p)!(c)
  BY DEF ClaimPending
<1> DEFINE new == [id |-> c.id, row |-> Claim(c.row)]
<1>1. c \in Copy /\ CandidateOK(c)
  BY DEF IInv, TypeOK, CandidatesOK
<1>2. /\ \A q \in Procs : candidates'[q] \subseteq candidates[q]
      /\ executed' = executed /\ callbacks' = callbacks /\ submitted' = submitted
  BY DEF api, IInv, TypeOK
<1>3. CASE ClaimGuard(row[c.id], c.row) /\ claimed' = [claimed EXCEPT ![p] = @ \cup {new}]
           /\ row' = [row EXCEPT ![c.id] = Claim(@)]
  <2>1. row[c.id] = c.row /\ c.id \in Tasks /\ c.row \in Row
    BY <1>1, <1>3 DEF CandidateOK, ClaimGuard, Current, Copy
  <2>2. /\ RowOK(c.id, Claim(c.row)) /\ Claim(c.row) \in Row
        /\ Evolves(c.row, Claim(c.row))
    BY <1>1, <2>1, ClaimRow, WorkerWriteType, WorkerWriteEvolves
    DEF IInv, RowsOK, CandidateOK
  <2>3. RowsOK' /\ AllEvolve
    BY <1>2, <1>3, <2>1, <2>2, OneRow DEF IInv
  <2>4. row'[c.id] = Claim(c.row)
    BY <1>3, <2>1 DEF IInv, TypeOK
  <2>5. ClaimOK(new)'
    <3>1. Claim(c.row).status = "PROCESSING" /\ Claim(c.row).next = "due"
      BY <1>1, <2>1 DEF Claim, Write, Row, CandidateOK, Claimable
    <3>2. AsClaimed(Claim(c.row), Claim(c.row))
      BY <2>2 DEF AsClaimed, Row
    <3>3. Claim(c.row).version <= Claim(c.row).version
      BY <2>2 DEF Row
    <3> QED BY <2>4, <3>1, <3>2, <3>3 DEF ClaimOK
  <2>6. \A q \in Procs : Holding(q)' \subseteq Holding(q) \cup {new}
    BY <1>3 DEF Holding, IInv, TypeOK
  <2>7. ClaimsOK'
    BY <2>3, <2>5, <2>6, OldClaim, HoldingType DEF ClaimsOK, IInv
  <2> QED BY <1>2, <2>3, <2>7, Frame DEF IInv
<1>4. CASE row' = row /\ claimed' = claimed
  <2>1. RowsOK' /\ AllEvolve
    BY <1>2, <1>4, NoRow DEF IInv
  <2>2. \A q \in Procs : Holding(q)' = Holding(q)
    BY <1>4 DEF Holding
  <2> QED BY <1>2, <2>1, <2>2, Frame DEF IInv
<1> QED BY <1>3, <1>4

LEMMA DispatchStep ==
  ASSUME IInv, TypeOK', NEW p \in Procs, Dispatch(p) PROVE IInv' /\ AllEvolve
<1>1. Frames
  BY DEF Dispatch, Frames, Holding, IInv, TypeOK, api
<1>2. RowsOK' /\ AllEvolve /\ submitted' = submitted
  BY NoRow DEF Dispatch, database, IInv
<1> QED BY <1>1, <1>2, FrameAll

LEMMA ExecuteStep ==
  ASSUME IInv, TypeOK', NEW p \in Procs, Execute(p) PROVE IInv' /\ AllEvolve
<1> PICK c \in jobs[p], out \in Outcome : Execute(p)!(c, out)
  BY DEF Execute
<1> DEFINE new == [id |-> c.id, row |-> c.row, out |-> out]
<1>1. submitted \subseteq submitted' /\ (out = "accepted" => c.id \in submitted')
  OBVIOUS
<1>2. RowsOK' /\ AllEvolve
  BY <1>1, NoRow DEF database, IInv
<1>3. c = [id |-> c.id, row |-> c.row] /\ c \in Holding(p)
  BY DEF IInv, TypeOK, Copy, Holding
<1>4. \A q \in Procs : executed'[q] \subseteq executed[q] \cup {new}
  BY DEF IInv, TypeOK
<1>5. \A q \in Procs : Holding(q)' \subseteq Holding(q)
  <2> SUFFICES ASSUME NEW q \in Procs, NEW d \in Holding(q)' PROVE d \in Holding(q)
    OBVIOUS
  <2>1. claimed'[q] = claimed[q] /\ jobs'[q] \subseteq jobs[q]
    BY DEF IInv, TypeOK
  <2>2. CASE d \in claimed'[q] \cup jobs'[q]
    BY <2>1, <2>2 DEF Holding
  <2>3. CASE d \in {[id |-> e.id, row |-> e.row] : e \in executed'[q]}
    <3>1. PICK e \in executed'[q] : d = [id |-> e.id, row |-> e.row]
      BY <2>3
    <3>2. CASE e \in executed[q]
      BY <3>1, <3>2 DEF Holding
    <3>3. CASE e \notin executed[q]
      BY <1>3, <1>4, <3>1, <3>3 DEF IInv, TypeOK
    <3> QED BY <3>2, <3>3
  <2> QED BY <2>2, <2>3 DEF Holding
<1>6. OutcomesOK'
  BY <1>1, <1>4 DEF OutcomesOK, OutcomeOK, IInv
<1>7. /\ candidates' = candidates /\ callbacks' = callbacks
  BY DEF api
<1> QED BY <1>1, <1>2, <1>5, <1>6, <1>7, Frame DEF IInv

\* What Process writes keeps the row correct when the fence lets it through.
LEMMA PersistSafe ==
  ASSUME NEW t \in Tasks, NEW r \in Row, RowOK(t, r), NEW e \in Finished,
         Fenced(r, e.row), AsClaimed(r, e.row), e.id = t, OutcomeOK(e)
  PROVE  RowOK(t, PersistRow(e, r)) /\ Evolves(r, PersistRow(e, r))
<1>1. /\ e.row \in Row /\ e.out \in Outcome /\ r.status = "PROCESSING"
      /\ e.row.stage = r.stage /\ r.stage \in Stage
  BY DEF Finished, Fenced, AsClaimed, Row
<1>2. e.out \in Outcomes(r.stage) /\ (e.out = "accepted" => t \in submitted)
  BY <1>1 DEF OutcomeOK
<1>3. CASE e.out = "error"
  <2>1. r.stage # "DONE"
    BY <1>2, <1>3 DEF Outcomes
  <2> QED BY <1>1, <1>3, <2>1, FailRow, WorkerWriteEvolves DEF PersistRow
<1>4. CASE e.out = "accepted"
  <2>1. r.stage = "SCAN"
    BY <1>2, <1>4 DEF Outcomes
  <2> QED BY <1>1, <1>2, <1>4, <2>1, WaitingRow, WorkerWriteEvolves DEF PersistRow
<1>5. CASE e.out \in {"ok", "clean", "infected"} /\ r.stage = "DONE"
  BY <1>1, <1>5, FinishRow, WorkerWriteEvolves DEF PersistRow
<1>6. CASE e.out \in {"ok", "clean", "infected"} /\ r.stage # "DONE"
  <2> DEFINE v == IF e.out = "ok" THEN "none" ELSE e.out
  <2>1. v \in {"none", "clean", "infected"}
    BY <1>6
  <2>2. v = "none" <=> r.stage # "SCAN"
    BY <1>2, <1>6 DEF Outcomes
  <2>3. PersistRow(e, r) = CompleteStage(r, e.row, v)
    BY <1>1, <1>6 DEF PersistRow
  <2> HIDE DEF v
  <2> QED BY <1>1, <1>6, <2>1, <2>2, <2>3, CompleteRow, WorkerWriteEvolves
<1> QED BY <1>1, <1>3, <1>4, <1>5, <1>6 DEF Outcome

LEMMA ProcessStep ==
  ASSUME IInv, TypeOK', NEW p \in Procs, Process(p) PROVE IInv' /\ AllEvolve
<1> PICK e \in executed[p] : Process(p)!(e)
  BY DEF Process
<1> DEFINE c == [id |-> e.id, row |-> e.row]
<1>1. e \in Finished /\ e.id \in Tasks /\ row[e.id] \in Row /\ OutcomeOK(e)
  BY DEF IInv, TypeOK, OutcomesOK, Finished
<1>2. Frames /\ submitted' = submitted
  BY DEF Frames, Holding, IInv, TypeOK, api
<1>3. CASE Fenced(row[e.id], e.row)
           /\ row' = [row EXCEPT ![e.id] = PersistRow(e, row[e.id])]
  <2>1. ClaimOK(c)
    BY DEF IInv, ClaimsOK, Holding
  <2>2. AsClaimed(row[e.id], e.row)
    BY <1>3, <2>1 DEF ClaimOK, Fenced, Current
  <2>3. /\ RowOK(e.id, PersistRow(e, row[e.id]))
        /\ Evolves(row[e.id], PersistRow(e, row[e.id]))
    BY <1>1, <1>3, <2>2, PersistSafe DEF IInv, RowsOK
  <2>4. PersistRow(e, row[e.id]) \in Row
    BY <1>1, PersistType
  <2>5. RowsOK' /\ AllEvolve
    BY <1>1, <1>2, <1>3, <2>3, <2>4, OneRow DEF IInv
  <2> QED BY <1>2, <2>5, FrameAll
<1>4. CASE row' = row
  BY <1>2, <1>4, NoRow, FrameAll DEF IInv
<1> QED BY <1>3, <1>4 DEF Commit, database

LEMMA RequeueSafe ==
  ASSUME IInv, RequeueExpired, submitted' = submitted PROVE RowsOK' /\ AllEvolve
<1> SUFFICES ASSUME NEW t \in Tasks
             PROVE  RowOK(t, row[t])' /\ Evolves(row[t], row'[t])
  BY DEF RowsOK, AllEvolve
<1>1. row[t] \in Row /\ RowOK(t, row[t])
  BY DEF IInv, TypeOK, RowsOK
<1>2. CASE t \in Expired
  <2>1. row'[t] = ReclaimLease(row[t]) /\ LeaseLapsed(row[t])
    BY <1>2 DEF RequeueExpired, Expired
  <2>2. RowOK(t, row'[t]) /\ Evolves(row[t], row'[t])
    BY <1>1, <2>1, ReclaimLeaseRow, WorkerWriteEvolves
  <2> QED BY <2>2 DEF RowOK
<1>3. CASE t \notin Expired
  <2>1. row'[t] = row[t]
    BY <1>3 DEF RequeueExpired
  <2> QED BY <1>1, <2>1, StutterEvolves DEF RowOK
<1> QED BY <1>2, <1>3

LEMMA TimeoutStep ==
  ASSUME IInv, TypeOK', NEW p \in Procs, ReclaimCallbackTimeouts(p) PROVE IInv' /\ AllEvolve
<1>1. RowsOK' /\ AllEvolve
  <2> SUFFICES ASSUME NEW t \in Tasks
               PROVE  RowOK(t, row[t])' /\ Evolves(row[t], row'[t])
    BY DEF RowsOK, AllEvolve
  <2>1. row[t] \in Row /\ RowOK(t, row[t]) /\ submitted' = submitted
    BY DEF IInv, TypeOK, RowsOK, ReclaimCallbackTimeouts
  <2>2. CASE t \in TimedOut
    <3>1. row'[t] = ReclaimCallback(row[t]) /\ CallbackLapsed(row[t])
      BY <2>2 DEF ReclaimCallbackTimeouts, TimedOut
    <3>2. RowOK(t, row'[t]) /\ Evolves(row[t], row'[t])
      BY <2>1, <3>1, ReclaimCallbackRow, WorkerWriteEvolves
    <3> QED BY <2>1, <3>2 DEF RowOK
  <2>3. CASE t \notin TimedOut
    <3>1. row'[t] = row[t]
      BY <2>3 DEF ReclaimCallbackTimeouts
    <3> QED BY <2>1, <3>1, StutterEvolves DEF RowOK
  <2> QED BY <2>2, <2>3
<1>2. Frames /\ submitted' = submitted
  BY SameMemory DEF ReclaimCallbackTimeouts, api
<1> QED BY <1>1, <1>2, FrameAll

LEMMA DeadlineStep ==
  ASSUME IInv, TypeOK', NEW t \in Tasks, LeaseExpires(t) \/ NextRunComes(t)
  PROVE  IInv' /\ AllEvolve
<1>1. row[t] \in Row /\ RowOK(t, row[t])
  BY DEF IInv, TypeOK, RowsOK
<1>2. RowsOK' /\ AllEvolve
  <2>1. CASE LeaseExpires(t)
    BY <1>1, <2>1, DeadlineType, DeadlineRow, DeadlineEvolves, OneRow
    DEF LeaseExpires, IInv
  <2>2. CASE NextRunComes(t)
    BY <1>1, <2>2, DeadlineType, DeadlineRow, DeadlineEvolves, OneRow
    DEF NextRunComes, IInv
  <2> QED BY <2>1, <2>2
<1>3. Frames /\ submitted' = submitted
  BY SameMemory DEF LeaseExpires, NextRunComes, api
<1> QED BY <1>2, <1>3, FrameAll

LEMMA ReadForCallbackStep ==
  ASSUME IInv, TypeOK', NEW q \in Callbacks, ReadForCallback(q) PROVE IInv' /\ AllEvolve
<1> PICK t \in table \cap submitted, v \in {"clean", "infected", "error"} :
      ReadForCallback(q)!(t, v)
  BY DEF ReadForCallback
<1> DEFINE new == [req |-> q, id |-> t, row |-> row[t], verdict |-> v]
<1>1. RowsOK' /\ AllEvolve
  BY NoRow DEF IInv, database
<1>2. /\ candidates' = candidates /\ executed' = executed
      /\ submitted' = submitted /\ row' = row
      /\ \A p \in Procs : Holding(p)' = Holding(p)
  BY DEF memory, database, Holding
<1>3. row[t] \in Row /\ RowOK(t, row[t])
  BY DEF IInv, TypeOK, RowsOK
<1>4. ASSUME NEW k, k = new PROVE CallbackOK(k)'
  BY <1>2, <1>3, <1>4 DEF CallbackOK, RowOK, Row
<1>5. callbacks' = callbacks \cup {new}
  OBVIOUS
<1> HIDE DEF new
<1>6. ASSUME NEW k \in callbacks PROVE CallbackOK(k)'
  <2>1. k \in Request /\ CallbackOK(k) /\ TypeOK
    BY DEF IInv, TypeOK, CallbacksOK
  <2> QED BY <1>1, <2>1, OldCallback
<1>7. CallbacksOK'
  BY <1>4, <1>5, <1>6 DEF CallbacksOK
<1> QED BY <1>1, <1>2, <1>7, Frame DEF IInv

LEMMA ScanCallbackStep ==
  ASSUME IInv, TypeOK', ScanCallback PROVE IInv' /\ AllEvolve
<1> PICK k \in callbacks : ScanCallback!(k)
  BY DEF ScanCallback
<1> DEFINE s == ApplyCallback(row[k.id], k.row, k.verdict)
<1>1. /\ k.id \in Tasks /\ k.row \in Row /\ row[k.id] \in Row
      /\ k.verdict \in {"clean", "infected", "error"}
      /\ RowOK(k.id, row[k.id]) /\ CallbackOK(k)
  BY DEF IInv, TypeOK, RowsOK, CallbacksOK, Request
<1>2. Frames /\ submitted' = submitted
  BY SameMemory
<1>3. CASE CallbackGuard(row[k.id]) /\ row' = [row EXCEPT ![k.id] = s]
  <2>1. s \in Row /\ RowOK(k.id, s) /\ Evolves(row[k.id], s)
    BY <1>1, <1>3, CallbackRow, HandlerWriteType, HandlerWriteEvolves
    DEF CallbackOK
  <2> HIDE DEF s
  <2>2. RowsOK' /\ AllEvolve
    BY <1>1, <1>2, <1>3, <2>1, OneRow DEF IInv
  <2> QED BY <1>2, <2>2, FrameAll
<1>4. CASE row' = row
  BY <1>2, <1>4, NoRow, FrameAll DEF IInv
<1> QED BY <1>3, <1>4 DEF Commit, database

LEMMA RetryStep ==
  ASSUME IInv, TypeOK', RetryTask PROVE IInv' /\ AllEvolve
<1> PICK k \in retrying : RetryTask!(k)
  BY DEF RetryTask
<1>1. k.id \in Tasks /\ row[k.id] \in Row /\ RowOK(k.id, row[k.id])
  BY DEF IInv, TypeOK, RowsOK, RetryCall
<1>2. Frames /\ submitted' = submitted
  BY SameMemory
<1>3. CASE RetryGuard(row[k.id])
           /\ row' = [row EXCEPT ![k.id] = ManualRetry(row[k.id])]
  <2>1. /\ ManualRetry(row[k.id]) \in Row
        /\ RowOK(k.id, ManualRetry(row[k.id]))
        /\ Evolves(row[k.id], ManualRetry(row[k.id]))
    BY <1>1, <1>3, RetryRow, HandlerWriteType, HandlerWriteEvolves
  <2>2. RowsOK' /\ AllEvolve
    BY <1>1, <1>2, <1>3, <2>1, OneRow DEF IInv
  <2> QED BY <1>2, <2>2, FrameAll
<1>4. CASE row' = row
  BY <1>2, <1>4, NoRow, FrameAll DEF IInv
<1> QED BY <1>3, <1>4 DEF Commit, database

LEMMA SafetyStep == IInv /\ [Next]_vars => IInv' /\ AllEvolve
<1> SUFFICES ASSUME IInv, [Next]_vars PROVE IInv' /\ AllEvolve
  OBVIOUS
<1>1. TypeOK'
  BY TypeStep DEF IInv
<1>2. ASSUME NEW p \in Procs, WorkerStep(p) PROVE IInv' /\ AllEvolve
  <2>1. CASE SelectPending(p) BY <1>1, <2>1, SelectStep
  <2>2. CASE ClaimPending(p)  BY <1>1, <2>2, ClaimStep
  <2>3. CASE Dispatch(p)      BY <1>1, <2>3, DispatchStep
  <2>4. CASE Execute(p)       BY <1>1, <2>4, ExecuteStep
  <2>5. CASE Process(p)       BY <1>1, <2>5, ProcessStep
  <2>6. CASE ClaimError(p) \/ ProcessError(p) \/ Crash(p)
    <3>1. Frames
      BY <2>6 DEF ClaimError, ProcessError, Crash, Frames, Holding, IInv,
         TypeOK, api
    <3>2. row' = row /\ submitted' = submitted
      BY <2>6 DEF ClaimError, ProcessError, Crash, database
    <3> QED BY <1>1, <3>1, <3>2, NoRow, FrameAll DEF IInv
  <2>7. CASE ReclaimExpired(p) \/ Restart(p)
    <3>1. RequeueExpired /\ Frames /\ submitted' = submitted
      BY <2>7, SameMemory DEF ReclaimExpired, Restart, api
    <3> QED BY <1>1, <3>1, RequeueSafe, FrameAll
  <2>8. CASE ReclaimCallbackTimeouts(p) BY <1>1, <2>8, TimeoutStep
  <2> QED BY <1>2, <2>1, <2>2, <2>3, <2>4, <2>5, <2>6, <2>7, <2>8 DEF WorkerStep
<1>3. ASSUME NEW t \in Tasks, CreateTask(t) PROVE IInv' /\ AllEvolve
  <2>1. row' = row /\ submitted' = submitted /\ Frames
    BY <1>3, SameMemory DEF CreateTask, api
  <2> QED BY <1>1, <2>1, NoRow, FrameAll DEF IInv
<1>4. ASSUME NEW t \in Tasks, LeaseExpires(t) \/ NextRunComes(t) PROVE IInv' /\ AllEvolve
  BY <1>1, <1>4, DeadlineStep
<1>5. ASSUME NEW q \in Callbacks, ReadForCallback(q) PROVE IInv' /\ AllEvolve
  BY <1>1, <1>5, ReadForCallbackStep
<1>6. ASSUME NEW q \in Retries, ReadForRetry(q) PROVE IInv' /\ AllEvolve
  <2>1. row' = row /\ submitted' = submitted /\ Frames
    BY <1>6, SameMemory DEF ReadForRetry, database
  <2> QED BY <1>1, <2>1, NoRow, FrameAll DEF IInv
<1>7. CASE ScanCallback BY <1>1, <1>7, ScanCallbackStep
<1>8. CASE RetryTask    BY <1>1, <1>8, RetryStep
<1>9. CASE UNCHANGED vars
  <2>1. row' = row /\ submitted' = submitted /\ Frames
    BY <1>9, SameMemory DEF vars, database, api
  <2> QED BY <1>1, <2>1, NoRow, FrameAll DEF IInv
<1> QED BY <1>2, <1>3, <1>4, <1>5, <1>6, <1>7, <1>8, <1>9 DEF Next

\* The inductive invariant of FilePipeline: every row has a legal shape, and
\* every copy of a row in a process or a handler says of the row, as the other
\* callers leave it, no less than the statement that will use it needs.
THEOREM Safety == Spec => []IInv
BY SafetyInit, SafetyStep, PTL DEF Spec

-------------------------------------------------------------------------------
(***************************************************************************)
(* What follows of the properties of FilePipeline.                         *)
(***************************************************************************)

\* Whatever order callback, timeout and claim come in, waiting_callback stands
\* only on a PENDING row at SCAN whose request was sent.
THEOREM WaitingIsBetweenStages == Spec => []WaitingShape
<1>1. IInv => WaitingShape
  BY DEF IInv, RowsOK, RowOK, WaitingShape
<1> QED BY <1>1, Safety, PTL

\* A row is PROCESSING exactly while leased_until is set: no claim, outcome,
\* callback or reclaim leaves one without the other.
THEOREM LeaseMeansProcessing == Spec => []LeaseShape
<1>1. IInv => LeaseShape
  BY DEF IInv, RowsOK, RowOK, LeaseShape
<1> QED BY <1>1, Safety, PTL

\* A claim whose version still matches describes the row exactly, lease apart,
\* so what CompleteStage and FailStage write from it is never stale.
THEOREM FenceIsSound == Spec => []FenceSound
<1>1. IInv => FenceSound
  BY DEF IInv, ClaimsOK, ClaimOK, AsClaimed, FenceSound
<1> QED BY <1>1, Safety, PTL

\* No task gets past SCAN without a clean or infected verdict, by whichever of
\* the worker and the callback handler it passes; ends and errors agree.
THEOREM VerdictIsRequired == Spec => []VerdictGate
<1>1. IInv => VerdictGate
  BY DEF IInv, RowsOK, RowOK, VerdictGate
<1> QED BY <1>1, Safety, PTL

\* Attempts never exceed max_attempts, and a row whose attempts are used up is
\* never runnable again before a manual retry.
THEOREM AttemptsAreBounded == Spec => []AttemptBudget
<1>1. IInv => AttemptBudget
  BY DEF IInv, RowsOK, RowOK, AttemptBudget
<1> QED BY <1>1, Safety, PTL

\* A task is never dead-lettered while it has a manual retry left, even by a
\* callback handler that decides on a copy read before the last retry.
THEOREM DeadOnlyExhausted == Spec => []DeadIsExhausted
<1>1. IInv => DeadIsExhausted
  BY DEF IInv, RowsOK, RowOK, DeadIsExhausted
<1> QED BY <1>1, Safety, PTL

\* Every statement that changes a row takes the next version: the premise of
\* the optimistic lock.
THEOREM WritesAreVersioned == Spec => EveryWriteVersioned
<1>1. ASSUME IInv, [Next]_vars, NEW t \in Tasks
      PROVE  \/ row'[t].version = row[t].version + 1
             \/ row'[t] = [row[t] EXCEPT !.lease = row'[t].lease, !.next = row'[t].next]
                /\ (row[t].lease = row'[t].lease \/ row'[t].lease = "expired")
  BY <1>1, SafetyStep DEF AllEvolve, Evolves
<1>2. IInv /\ [Next]_vars =>
        [\A t \in Tasks :
           \/ row'[t].version = row[t].version + 1
           \/ row'[t] = [row[t] EXCEPT !.lease = row'[t].lease, !.next = row'[t].next]
              /\ (row[t].lease = row'[t].lease \/ row'[t].lease = "expired")]_vars
  BY <1>1
<1> QED BY <1>2, Safety, PTL DEF Spec, EveryWriteVersioned

LEMMA CommitElsewhere ==
  ASSUME TypeOK, NEW t, NEW u \in Tasks, t # u, NEW r, NEW k, Commit(t, r, k)
  PROVE  row'[u] = row[u] /\ events'[u] = events[u]
BY DEF TypeOK, Commit

LEMMA FinalStep ==
  ASSUME IInv, [Next]_vars, NEW t \in Tasks, Final(row[t].status)
  PROVE  row'[t] = row[t] /\ events'[t] = events[t]
<1>1. /\ row[t] \in Row /\ TypeOK
      /\ row[t].status \in {"SUCCEEDED", "DEAD"} /\ ~row[t].waiting
      /\ row[t].lease = "none" /\ row[t].next = "due"
  BY DEF IInv, RowsOK, RowOK, TypeOK, Final
<1>2. ASSUME NEW p \in Procs, ClaimPending(p) PROVE row'[t] = row[t] /\ events' = events
  BY <1>1, <1>2 DEF ClaimPending, ClaimGuard, TypeOK
<1>3. ASSUME NEW p \in Procs, Process(p)
      PROVE  row'[t] = row[t] /\ events'[t] = events[t]
  <2> PICK e \in executed[p] : Process(p)!(e)
    BY <1>3 DEF Process
  <2>1. CASE Fenced(row[e.id], e.row)
             /\ Commit(e.id, PersistRow(e, row[e.id]), PersistEvent(e))
    BY <1>1, <2>1, CommitElsewhere DEF Fenced
  <2>2. CASE UNCHANGED database
    BY <2>2 DEF database
  <2> QED BY <2>1, <2>2
<1>4. ASSUME RequeueExpired PROVE row'[t] = row[t] /\ events'[t] = events[t]
  BY <1>1, <1>4 DEF RequeueExpired, Expired, LeaseLapsed
<1>5. ASSUME NEW p \in Procs, ReclaimCallbackTimeouts(p)
      PROVE  row'[t] = row[t] /\ events'[t] = events[t]
  BY <1>1, <1>5 DEF ReclaimCallbackTimeouts, TimedOut, CallbackLapsed
<1>6. ASSUME NEW p \in Procs, WorkerStep(p)
      PROVE  row'[t] = row[t] /\ events'[t] = events[t]
  BY <1>2, <1>3, <1>4, <1>5, <1>6 DEF WorkerStep, SelectPending, ClaimError,
     Dispatch, Execute, ProcessError, ReclaimExpired, Crash, Restart, database
<1>7. ASSUME NEW u \in Tasks, LeaseExpires(u) \/ NextRunComes(u)
      PROVE  row'[t] = row[t] /\ events'[t] = events[t]
  BY <1>1, <1>7 DEF LeaseExpires, NextRunComes, TypeOK
<1>8. ASSUME ScanCallback PROVE row'[t] = row[t] /\ events'[t] = events[t]
  <2> PICK k \in callbacks : ScanCallback!(k)
    BY <1>8 DEF ScanCallback
  <2>1. CASE CallbackGuard(row[k.id])
             /\ Commit(k.id, ApplyCallback(row[k.id], k.row, k.verdict),
                       CallbackEvent(k.row, k.verdict))
    BY <1>1, <2>1, CommitElsewhere DEF CallbackGuard
  <2>2. CASE UNCHANGED database
    BY <2>2 DEF database
  <2> QED BY <2>1, <2>2
<1>9. ASSUME RetryTask PROVE row'[t] = row[t] /\ events'[t] = events[t]
  <2> PICK k \in retrying : RetryTask!(k)
    BY <1>9 DEF RetryTask
  <2>1. CASE RetryGuard(row[k.id])
             /\ Commit(k.id, ManualRetry(row[k.id]), "RETRYING")
    BY <1>1, <2>1, CommitElsewhere DEF RetryGuard
  <2>2. CASE UNCHANGED database
    BY <2>2 DEF database
  <2> QED BY <2>1, <2>2
<1>10. ASSUME \/ \E u \in Tasks : CreateTask(u)
              \/ \E q \in Callbacks : ReadForCallback(q)
              \/ \E q \in Retries : ReadForRetry(q)
              \/ UNCHANGED vars
       PROVE  row'[t] = row[t] /\ events'[t] = events[t]
  BY <1>10 DEF CreateTask, ReadForCallback, ReadForRetry, vars, database
<1> QED BY <1>6, <1>7, <1>8, <1>9, <1>10 DEF Next

\* BR-6: no worker, handler or reclaim, however stale what it holds, rewrites a
\* SUCCEEDED or DEAD task or adds to its log.
THEOREM FinalStaysFinal == Spec => FinalIsFinal
<1>1. IInv /\ [Next]_vars =>
        [\A t \in Tasks : Final(row[t].status) =>
           row'[t] = row[t] /\ events'[t] = events[t]]_vars
  BY FinalStep
<1> QED BY <1>1, Safety, PTL DEF Spec, FinalIsFinal

-------------------------------------------------------------------------------
(***************************************************************************)
(* One owner.  A copy stays current only if nobody wrote its row, so only  *)
(* a claim can add an owner, and it takes a version no older copy has.     *)
(***************************************************************************)
Alone(p, c) ==
  /\ ~(c \in claimed[p] /\ c \in jobs[p])
  /\ \A e \in executed[p] : e.id = c.id /\ e.row = c.row =>
       /\ c \notin claimed[p] \cup jobs[p]
       /\ \A f \in executed[p] : f.id = e.id /\ f.row = e.row => f = e
OneHolder == \A p, q \in Procs : \A c \in Holding(p), d \in Holding(q) :
               c.id = d.id /\ Current(c) /\ Current(d) => p = q
OneStep   == \A p \in Procs : \A c \in Holding(p) : Current(c) => Alone(p, c)

LEMMA SingleOwnerIs == SingleOwner <=> OneHolder /\ OneStep
BY DEF SingleOwner, OneHolder, OneStep, Alone

\* Who was not current before a step is not after it.
LEMMA CurrentWas ==
  ASSUME IInv, TypeOK', AllEvolve, NEW p \in Procs, NEW c \in Holding(p), Current(c)'
  PROVE  Current(c)
<1>1. c \in Copy /\ ClaimOK(c)
  BY HoldingType DEF IInv, ClaimsOK
<1>2. /\ row[c.id] \in Row /\ row'[c.id] \in Row /\ c.row \in Row
      /\ Evolves(row[c.id], row'[c.id])
  BY <1>1 DEF IInv, TypeOK, Copy, AllEvolve
<1>3. row[c.id].version <= row'[c.id].version /\ c.row.version <= row[c.id].version
  BY <1>1, <1>2, EvolvesVersion DEF ClaimOK
<1> QED BY <1>2, <1>3 DEF Current, Row

\* A step that gives no process a copy it did not hold keeps OneHolder.
LEMMA HolderFrame ==
  ASSUME IInv, TypeOK', AllEvolve, OneHolder,
         \A p \in Procs : Holding(p)' \subseteq Holding(p)
  PROVE  OneHolder'
<1> SUFFICES ASSUME NEW p \in Procs, NEW q \in Procs, NEW c \in Holding(p)',
                    NEW d \in Holding(q)', c.id = d.id, Current(c)', Current(d)'
             PROVE  p = q
  BY DEF OneHolder, Current
<1>1. c \in Holding(p) /\ d \in Holding(q)
  OBVIOUS
<1>2. Current(c) /\ Current(d)
  BY <1>1, CurrentWas
<1> QED BY <1>1, <1>2 DEF OneHolder

\* A step that moves no copy from one place of a process to another keeps both.
LEMMA OwnerFrame ==
  ASSUME IInv, TypeOK', AllEvolve, OneHolder, OneStep,
         \A p \in Procs : /\ claimed'[p] \subseteq claimed[p]
                          /\ jobs'[p] \subseteq jobs[p]
                          /\ executed'[p] \subseteq executed[p]
  PROVE  OneHolder' /\ OneStep'
<1>1. \A p \in Procs : Holding(p)' \subseteq Holding(p)
  BY DEF Holding
<1>2. ASSUME NEW p \in Procs, NEW c \in Holding(p)', Current(c)' PROVE Alone(p, c)'
  <2>1. c \in Holding(p) /\ Current(c)
    BY <1>1, <1>2, CurrentWas
  <2>2. Alone(p, c)
    BY <2>1 DEF OneStep
  <2> QED BY <2>2 DEF Alone
<1>3. OneStep'
  BY <1>2 DEF OneStep, Current
<1> QED BY <1>1, <1>3, HolderFrame

LEMMA OwnerInit == Init => OneHolder /\ OneStep
<1> SUFFICES ASSUME Init PROVE OneHolder /\ OneStep
  OBVIOUS
<1>1. \A p \in Procs : Holding(p) = {}
  BY DEF Init, Holding
<1> QED BY <1>1 DEF OneHolder, OneStep

\* The claim's version is above that of every copy of the row held before it.
LEMMA OwnerClaim ==
  ASSUME IInv, TypeOK', AllEvolve, OneHolder, OneStep,
         NEW p \in Procs, ClaimPending(p)
  PROVE  OneHolder' /\ OneStep'
<1> PICK c \in candidates[p] : ClaimPending(p)!(c)
  BY DEF ClaimPending
<1> DEFINE new == [id |-> c.id, row |-> Claim(c.row)]
<1>1. CASE ClaimGuard(row[c.id], c.row) /\ claimed' = [claimed EXCEPT ![p] = @ \cup {new}]
           /\ row' = [row EXCEPT ![c.id] = Claim(@)]
  <2>1. c \in Copy /\ c.id \in Tasks /\ c.row \in Row /\ row[c.id] \in Row
    BY DEF IInv, TypeOK, Copy
  <2>2. row[c.id].version = c.row.version
    BY <1>1 DEF ClaimGuard
  <2>3. /\ row'[c.id].version = c.row.version + 1
        /\ new.row.version = c.row.version + 1
    BY <1>1, <2>1, <2>2 DEF Claim, Write, Row, IInv, TypeOK
  <2>4. ASSUME NEW q \in Procs, NEW d \in Holding(q)
        PROVE  d.id = c.id => d.row.version # c.row.version + 1
    <3>1. d \in Copy /\ d.row.version <= row[d.id].version
      BY HoldingType DEF IInv, ClaimsOK, ClaimOK
    <3> QED BY <2>1, <2>2, <3>1 DEF Copy, Row
  <2>5. ASSUME NEW q \in Procs, NEW d \in Holding(q), Current(d)'
        PROVE  d.id # c.id /\ Current(d) /\ Alone(q, d)
    <3>1. d.id # c.id
      BY <2>3, <2>4, <2>5 DEF Current
    <3>2. Current(d)
      BY <2>5, CurrentWas
    <3> QED BY <3>1, <3>2 DEF OneStep
  <2>6. /\ \A q \in Procs : claimed'[q] = IF q = p THEN claimed[p] \cup {new} ELSE claimed[q]
        /\ jobs' = jobs /\ executed' = executed
    BY <1>1 DEF IInv, TypeOK
  <2>7. ASSUME NEW q \in Procs, NEW d \in Holding(q)', d \notin Holding(q)
        PROVE  q = p /\ d = new
    BY <2>6, <2>7 DEF Holding
  <2>8. new \notin Holding(p)
    BY <2>3, <2>4
  <2> HIDE DEF new
  <2>9. OneHolder'
    <3> SUFFICES ASSUME NEW q \in Procs, NEW s \in Procs, NEW d \in Holding(q)',
                        NEW e \in Holding(s)', d.id = e.id, Current(d)', Current(e)'
                 PROVE  q = s
      BY DEF OneHolder, Current
    <3>0. new.id = c.id
      BY DEF new
    <3>1. CASE d \in Holding(q) /\ e \in Holding(s)
      BY <2>5, <3>1 DEF OneHolder
    <3>2. CASE d \notin Holding(q)
      BY <2>5, <2>7, <3>0, <3>2
    <3>3. CASE e \notin Holding(s)
      BY <2>5, <2>7, <3>0, <3>3
    <3> QED BY <3>1, <3>2, <3>3
  <2>10. OneStep'
    <3> SUFFICES ASSUME NEW q \in Procs, NEW d \in Holding(q)', Current(d)'
                 PROVE  Alone(q, d)'
      BY DEF OneStep, Current
    <3>1. CASE d \in Holding(q)
      <4>1. Alone(q, d) /\ d # new
        BY <2>5, <3>1 DEF new
      <4> QED BY <2>6, <4>1 DEF Alone
    <3>2. CASE d \notin Holding(q)
      <4>1. q = p /\ d = new
        BY <2>7, <3>2
      <4>2. new \notin jobs[p]
        BY <2>8 DEF Holding
      <4>3. ASSUME NEW e \in executed[p], e.id = new.id, e.row = new.row PROVE FALSE
        <5>1. [id |-> e.id, row |-> e.row] = new
          BY <4>3 DEF new
        <5> QED BY <2>8, <5>1 DEF Holding
      <4> QED BY <2>6, <4>1, <4>2, <4>3 DEF Alone
    <3> QED BY <3>1, <3>2
  <2> QED BY <2>9, <2>10
<1>2. CASE claimed' = claimed
  BY <1>2, OwnerFrame
<1> QED BY <1>1, <1>2

LEMMA OwnerDispatch ==
  ASSUME IInv, TypeOK', AllEvolve, OneHolder, OneStep, NEW p \in Procs, Dispatch(p)
  PROVE  OneHolder' /\ OneStep'
<1> PICK c \in claimed[p] : Dispatch(p)!(c)
  BY DEF Dispatch
<1>1. /\ \A q \in Procs : claimed'[q] = IF q = p THEN claimed[p] \ {c} ELSE claimed[q]
      /\ \A q \in Procs : jobs'[q] = IF q = p THEN jobs[p] \cup {c} ELSE jobs[q]
      /\ executed' = executed
  BY DEF IInv, TypeOK
<1>2. \A q \in Procs : Holding(q)' \subseteq Holding(q)
  BY <1>1 DEF Holding
<1>3. ASSUME NEW q \in Procs, NEW d \in Holding(q)', Current(d)' PROVE Alone(q, d)'
  <2>1. Alone(q, d)
    BY <1>2, <1>3, CurrentWas DEF OneStep
  <2>2. CASE q = p /\ d = c
    BY <1>1, <2>1, <2>2 DEF Alone
  <2>3. CASE ~(q = p /\ d = c)
    BY <1>1, <2>1, <2>3 DEF Alone
  <2> QED BY <2>2, <2>3
<1>4. OneStep'
  BY <1>3 DEF OneStep, Current
<1> QED BY <1>2, <1>4, HolderFrame

LEMMA OwnerExecute ==
  ASSUME IInv, TypeOK', AllEvolve, OneHolder, OneStep, NEW p \in Procs, Execute(p)
  PROVE  OneHolder' /\ OneStep'
<1> PICK c \in jobs[p], out \in Outcome : Execute(p)!(c, out)
  BY DEF Execute
<1> DEFINE new == [id |-> c.id, row |-> c.row, out |-> out]
<1>1. /\ \A q \in Procs : jobs'[q] = IF q = p THEN jobs[p] \ {c} ELSE jobs[q]
      /\ \A q \in Procs : executed'[q] = IF q = p THEN executed[p] \cup {new}
                                                  ELSE executed[q]
      /\ claimed' = claimed
  BY DEF IInv, TypeOK
<1>2. c = [id |-> c.id, row |-> c.row] /\ new.id = c.id /\ new.row = c.row
  BY DEF IInv, TypeOK, Copy
<1> HIDE DEF new
<1>3. ASSUME NEW q \in Procs, NEW d \in Holding(q)' PROVE d \in Holding(q)
  <2>1. CASE d \in claimed'[q] \cup jobs'[q]
    BY <1>1, <2>1 DEF Holding
  <2>2. CASE d \in {[id |-> e.id, row |-> e.row] : e \in executed'[q]}
    <3>1. PICK e \in executed'[q] : d = [id |-> e.id, row |-> e.row]
      BY <2>2
    <3>2. CASE e \in executed[q]
      BY <3>1, <3>2 DEF Holding
    <3>3. CASE e \notin executed[q]
      BY <1>1, <1>2, <3>1, <3>3 DEF Holding
    <3> QED BY <3>2, <3>3
  <2> QED BY <2>1, <2>2 DEF Holding
<1>4. ASSUME NEW q \in Procs, NEW d \in Holding(q)', Current(d)' PROVE Alone(q, d)'
  <2>1. Alone(q, d) /\ d \in Copy
    BY <1>3, <1>4, CurrentWas, HoldingType DEF OneStep, IInv
  <2>2. CASE q = p /\ d = c
    BY <1>1, <1>2, <2>1, <2>2 DEF Alone
  <2>3. CASE ~(q = p /\ d = c)
    <3>1. q = p => ~(new.id = d.id /\ new.row = d.row)
      BY <1>2, <2>1, <2>3 DEF Copy
    <3> QED BY <1>1, <2>1, <3>1 DEF Alone
  <2> QED BY <2>2, <2>3
<1>5. OneStep'
  BY <1>4 DEF OneStep, Current
<1> QED BY <1>3, <1>5, HolderFrame

LEMMA OwnerStep ==
  ASSUME IInv, [Next]_vars, OneHolder, OneStep PROVE OneHolder' /\ OneStep'
<1>1. TypeOK' /\ AllEvolve
  BY SafetyStep DEF IInv
<1>2. CASE \E p \in Procs : ClaimPending(p)
  BY <1>1, <1>2, OwnerClaim
<1>3. CASE \E p \in Procs : Dispatch(p)
  BY <1>1, <1>3, OwnerDispatch
<1>4. CASE \E p \in Procs : Execute(p)
  BY <1>1, <1>4, OwnerExecute
<1>5. ASSUME NEW p \in Procs, WorkerStep(p),
             ~ClaimPending(p), ~Dispatch(p), ~Execute(p)
      PROVE  \A q \in Procs : /\ claimed'[q] \subseteq claimed[q]
                              /\ jobs'[q] \subseteq jobs[q]
                              /\ executed'[q] \subseteq executed[q]
  BY <1>5 DEF WorkerStep, SelectPending, ClaimError, Process, ProcessError,
     ReclaimExpired, ReclaimCallbackTimeouts, Crash, Restart, memory, IInv, TypeOK
<1>6. CASE UNCHANGED memory
  <2>1. claimed' = claimed /\ jobs' = jobs /\ executed' = executed
    BY <1>6 DEF memory
  <2> QED BY <1>1, <2>1, OwnerFrame
<1>7. ASSUME ~UNCHANGED memory PROVE \E p \in Procs : WorkerStep(p)
  BY <1>7 DEF Next, vars, CreateTask, LeaseExpires, NextRunComes,
     ReadForCallback, ReadForRetry, ScanCallback, RetryTask
<1> QED BY <1>1, <1>2, <1>3, <1>4, <1>5, <1>6, <1>7, OwnerFrame

\* However many processes poll one table, reclaim each other's leases and stall:
\* at most one goroutine, at one step of its work, holds a claim that its
\* version still fences; every other holder of the row is shut out.
THEOREM OneOwner == Spec => []SingleOwner
<1>1. Init => OneHolder /\ OneStep
  BY OwnerInit
<1>2. IInv /\ OneHolder /\ OneStep /\ [Next]_vars => OneHolder' /\ OneStep'
  BY OwnerStep
<1>3. OneHolder /\ OneStep => SingleOwner
  BY SingleOwnerIs
<1> QED BY <1>1, <1>2, <1>3, Safety, PTL DEF Spec

-------------------------------------------------------------------------------
(***************************************************************************)
(* The limit on manual retries.  Whoever decides on the row itself, or on  *)
(* a copy that the fence compares with it, keeps the limit; a callback     *)
(* decides on a copy that nothing compares, and may cost one retry more.   *)
(***************************************************************************)
Limited(n, r) == /\ r.status = "FAILED" => r.retries < MaxManualRetries + n
                 /\ r.retries <= MaxManualRetries + n

\* How a write may treat the manual retries when its decision is not stale.
Lawful(r, s) ==
  \/ /\ s.retries = r.retries
     /\ s.status = "FAILED" => r.status = "FAILED" \/ r.retries < MaxManualRetries
  \/ r.status = "FAILED" /\ s.retries = r.retries + 1 /\ s.status # "FAILED"

LEMMA LawfulKeeps ==
  ASSUME NEW m \in Nat, NEW n \in Nat, m <= n, NEW r \in Row, NEW s \in Row,
         Limited(m, r), Lawful(r, s)
  PROVE  Limited(n, s)
BY LimitsAssumption DEF Limited, Lawful, Row

\* One more for a write that keeps the count, whatever it decides.
LEMMA StaleCosts ==
  ASSUME NEW n \in Nat, NEW r \in Row, NEW s \in Row, Limited(n, r),
         s.retries = r.retries
  PROVE  Limited(n + 1, s)
BY LimitsAssumption DEF Limited, Row

LEMMA LimitedAtZero ==
  ASSUME NEW r
  PROVE  Limited(0, r) <=>
           /\ r.status = "FAILED" => r.retries < MaxManualRetries
           /\ r.retries <= MaxManualRetries
<1>1. MaxManualRetries + 0 = MaxManualRetries
  BY LimitsAssumption
<1> QED BY <1>1, Zenon DEF Limited

LEMMA FailedHasRetries ==
  ASSUME NEW a \in Nat, NEW n \in Nat, AfterFailure(a, n) = "FAILED"
  PROVE  n < MaxManualRetries
BY DEF AfterFailure

LEMMA WorkerWriteLawful ==
  ASSUME NEW r \in Row, NEW c \in Row, NEW v
  PROVE  /\ Lawful(r, r) /\ Lawful(r, Claim(r))
         /\ Lawful(r, CompleteStage(r, c, v)) /\ Lawful(r, FinishSuccess(r))
         /\ c.retries = r.retries => Lawful(r, FailStage(r, c))
         /\ Lawful(r, MarkWaitingCallback(r))
         /\ Lawful(r, ReclaimLease(r)) /\ Lawful(r, ReclaimCallback(r))
<1>1. Lawful(r, r) /\ Lawful(r, Claim(r))
  BY DEF Lawful, Row, Claim, Write
<1>2. Lawful(r, CompleteStage(r, c, v)) /\ Lawful(r, FinishSuccess(r))
  BY DEF Lawful, Row, CompleteStage, FinishSuccess, Write
<1>3. ASSUME c.retries = r.retries PROVE Lawful(r, FailStage(r, c))
  <2>1. FailStage(r, c).status = FailStatus(c) /\ FailStage(r, c).retries = r.retries
    BY DEF FailStage, Write, Row
  <2>2. FailStatus(c) = "FAILED" => r.retries < MaxManualRetries
    BY <1>3, FailedHasRetries DEF FailStatus, Row
  <2> QED BY <2>1, <2>2 DEF Lawful
<1>4. Lawful(r, MarkWaitingCallback(r)) /\ Lawful(r, ReclaimLease(r))
  BY DEF Lawful, Row, MarkWaitingCallback, ReclaimLease, Write
<1>5. Lawful(r, ReclaimCallback(r))
  <2>1. /\ ReclaimCallback(r).status = TimeoutStatus(r)
        /\ ReclaimCallback(r).retries = r.retries
    BY DEF ReclaimCallback, Write, Row
  <2>2. TimeoutStatus(r) = "FAILED" => r.retries < MaxManualRetries
    BY FailedHasRetries DEF TimeoutStatus, Row
  <2> QED BY <2>1, <2>2 DEF Lawful
<1> QED BY <1>1, <1>2, <1>3, <1>4, <1>5

LEMMA HandlerWriteLawful ==
  ASSUME NEW r \in Row, NEW c \in Row, NEW v
  PROVE  /\ RetryGuard(r) => Lawful(r, ManualRetry(r))
         /\ ApplyCallback(r, c, v).retries = r.retries
BY DEF Lawful, Row, RetryGuard, ManualRetry, ApplyCallback, Write

LEMMA DeadlineLawful ==
  ASSUME NEW r \in Row
  PROVE  /\ Lawful(r, [r EXCEPT !.lease = "expired"])
         /\ Lawful(r, [r EXCEPT !.next = "due"])
BY DEF Lawful, Row

AllLawful == \A t \in Tasks : Lawful(row[t], row'[t])

LEMMA SameRowsLawful == ASSUME TypeOK, row' = row PROVE AllLawful
BY WorkerWriteLawful DEF TypeOK, AllLawful

LEMMA OneRowLawful ==
  ASSUME TypeOK, NEW t \in Tasks, NEW s, row' = [row EXCEPT ![t] = s],
         Lawful(row[t], s)
  PROVE  AllLawful
<1>1. \A u \in Tasks : row'[u] = IF u = t THEN s ELSE row[u]
  BY DEF TypeOK
<1>2. \A u \in Tasks : Lawful(row[u], row[u])
  BY WorkerWriteLawful DEF TypeOK
<1> QED BY <1>1, <1>2 DEF AllLawful

\* The fence: a worker that fails a stage counts the retries of the row.
LEMMA ProcessLawful ==
  ASSUME IInv, NEW p \in Procs, Process(p) PROVE AllLawful
<1> PICK e \in executed[p] : Process(p)!(e)
  BY DEF Process
<1>1. CASE Fenced(row[e.id], e.row)
           /\ Commit(e.id, PersistRow(e, row[e.id]), PersistEvent(e))
  <2> DEFINE c == [id |-> e.id, row |-> e.row]
             v == IF e.out = "ok" THEN "none" ELSE e.out
  <2>1. e \in Finished /\ e.id \in Tasks /\ e.row \in Row /\ row[e.id] \in Row
    BY DEF IInv, TypeOK, Finished
  <2>2. c \in Holding(p)
    BY DEF Holding
  <2>3. AsClaimed(row[e.id], e.row)
    BY <1>1, <2>2 DEF IInv, ClaimsOK, ClaimOK, Current, Fenced
  <2>4. e.row.retries = row[e.id].retries
    BY <2>1, <2>3 DEF AsClaimed, Row
  <2>5. PersistRow(e, row[e.id]) \in {FailStage(row[e.id], e.row),
          MarkWaitingCallback(row[e.id]), FinishSuccess(row[e.id]),
          CompleteStage(row[e.id], e.row, v)}
    BY DEF PersistRow
  <2>6. Lawful(row[e.id], PersistRow(e, row[e.id]))
    BY <2>1, <2>4, <2>5, WorkerWriteLawful
  <2> QED BY <1>1, <2>1, <2>6, OneRowLawful DEF Commit, IInv
<1>2. CASE UNCHANGED database
  BY <1>2, SameRowsLawful DEF database, IInv
<1> QED BY <1>1, <1>2

LEMMA StepLawful ==
  ASSUME IInv, [Next]_vars, ~ScanCallback PROVE AllLawful
<1> USE DEF IInv
<1>0. TypeOK /\ \A t \in Tasks : row[t] \in Row
  BY DEF TypeOK
<1>1. ASSUME NEW p \in Procs, ClaimPending(p) PROVE AllLawful
  <2> PICK c \in candidates[p] : ClaimPending(p)!(c)
    BY <1>1 DEF ClaimPending
  <2>1. c.id \in Tasks
    BY DEF TypeOK, Copy
  <2> QED BY <1>0, <2>1, WorkerWriteLawful, OneRowLawful, SameRowsLawful
<1>2. ASSUME RequeueExpired PROVE AllLawful
  BY <1>0, <1>2, WorkerWriteLawful DEF RequeueExpired, AllLawful
<1>3. ASSUME NEW p \in Procs, ReclaimCallbackTimeouts(p) PROVE AllLawful
  BY <1>0, <1>3, WorkerWriteLawful DEF ReclaimCallbackTimeouts, AllLawful
<1>4. ASSUME NEW p \in Procs, WorkerStep(p) PROVE AllLawful
  <2>1. CASE ClaimPending(p)
    BY <1>1, <2>1
  <2>2. CASE Process(p)
    BY <2>2, ProcessLawful
  <2>3. CASE ReclaimExpired(p) \/ Restart(p)
    BY <1>2, <2>3 DEF ReclaimExpired, Restart
  <2>4. CASE ReclaimCallbackTimeouts(p)
    BY <1>3, <2>4
  <2>5. CASE \/ SelectPending(p) \/ ClaimError(p) \/ Dispatch(p) \/ Execute(p)
             \/ ProcessError(p) \/ Crash(p)
    <3>1. row' = row
      BY <2>5 DEF SelectPending, ClaimError, Dispatch, Execute, ProcessError,
         Crash, database
    <3> QED BY <1>0, <3>1, SameRowsLawful
  <2> QED BY <1>4, <2>1, <2>2, <2>3, <2>4, <2>5 DEF WorkerStep
<1>5. ASSUME NEW t \in Tasks, LeaseExpires(t) \/ NextRunComes(t) PROVE AllLawful
  <2>1. row' \in {[row EXCEPT ![t] = [row[t] EXCEPT !.lease = "expired"]],
                  [row EXCEPT ![t] = [row[t] EXCEPT !.next = "due"]]}
    BY <1>5 DEF LeaseExpires, NextRunComes
  <2> QED BY <1>0, <2>1, DeadlineLawful, OneRowLawful
<1>6. CASE RetryTask
  <2> PICK k \in retrying : RetryTask!(k)
    BY <1>6 DEF RetryTask
  <2>1. k.id \in Tasks
    BY DEF TypeOK, RetryCall
  <2>2. CASE RetryGuard(row[k.id]) /\ Commit(k.id, ManualRetry(row[k.id]), "RETRYING")
    BY <1>0, <2>1, <2>2, HandlerWriteLawful, OneRowLawful DEF Commit
  <2>3. CASE UNCHANGED database
    BY <1>0, <2>3, SameRowsLawful DEF database
  <2> QED BY <2>2, <2>3
<1>7. CASE \/ \E t \in Tasks : CreateTask(t)
           \/ \E q \in Callbacks : ReadForCallback(q)
           \/ \E q \in Retries : ReadForRetry(q)
           \/ UNCHANGED vars
  <2>1. row' = row
    BY <1>7 DEF CreateTask, ReadForCallback, ReadForRetry, vars, database
  <2> QED BY <1>0, <2>1, SameRowsLawful
<1> QED BY <1>4, <1>5, <1>6, <1>7 DEF Next

\* The requests: each is of one handler, and few have come.
Requested == /\ IsFiniteSet(used)
             /\ \A k \in callbacks : k.req \in used
             /\ \A k, l \in callbacks : k.req = l.req => k = l

LEMMA RequestedStep ==
  ASSUME TypeOK, Requested, [Next]_vars
  PROVE  /\ Requested' /\ Answered \subseteq Answered'
         /\ ScanCallback => Answered' # Answered
<1>1. CASE UNCHANGED <<used, callbacks>>
  <2>1. Requested' /\ Answered' = Answered
    BY <1>1 DEF Requested, Answered
  <2>2. ~ScanCallback
    BY <1>1 DEF ScanCallback
  <2> QED BY <2>1, <2>2
<1>2. ASSUME NEW q \in Callbacks, ReadForCallback(q)
      PROVE  Requested' /\ Answered \subseteq Answered' /\ ~ScanCallback
  <2>1. PICK t \in table, v \in {"clean", "infected", "error"} :
          /\ q \notin used /\ used' = used \cup {q}
          /\ callbacks' = callbacks \cup
               {[req |-> q, id |-> t, row |-> row[t], verdict |-> v]}
    BY <1>2 DEF ReadForCallback
  <2> DEFINE new == [req |-> q, id |-> t, row |-> row[t], verdict |-> v]
  <2>2. new.req = q
    OBVIOUS
  <2> HIDE DEF new
  <2>3. callbacks' = callbacks \cup {new}
    BY <2>1 DEF new
  <2>4. Requested'
    BY <2>1, <2>2, <2>3, FS_AddElement DEF Requested
  <2>5. Answered \subseteq Answered'
    BY <2>1, <2>2, <2>3 DEF Answered
  <2>6. ~ScanCallback
    BY <2>1 DEF ScanCallback
  <2> QED BY <2>4, <2>5, <2>6
<1>3. ASSUME NEW q \in Retries, ReadForRetry(q)
      PROVE  Requested' /\ Answered \subseteq Answered' /\ ~ScanCallback
  <2>1. q \notin used /\ used' = used \cup {q} /\ callbacks' = callbacks
    BY <1>3 DEF ReadForRetry
  <2>2. Requested'
    BY <2>1, FS_AddElement DEF Requested
  <2>3. Answered \subseteq Answered' /\ ~ScanCallback
    BY <2>1 DEF Answered, ScanCallback
  <2> QED BY <2>2, <2>3
<1>4. CASE ScanCallback
  <2>1. PICK k \in callbacks : callbacks' = callbacks \ {k} /\ used' = used
    BY <1>4 DEF ScanCallback
  <2>2. Requested' /\ Answered \subseteq Answered'
    BY <2>1 DEF Requested, Answered
  <2>3. k.req \in Callbacks /\ k.req \in used
    BY DEF TypeOK, Request, Requested
  <2>4. k.req \in Answered' /\ k.req \notin Answered
    BY <2>1, <2>3 DEF Requested, Answered
  <2> QED BY <2>2, <2>4
<1>5. ASSUME NEW p \in Procs, WorkerStep(p) PROVE UNCHANGED <<used, callbacks>>
  BY <1>5 DEF WorkerStep, SelectPending, ClaimPending, ClaimError, Dispatch,
     Execute, Process, ProcessError, ReclaimExpired, ReclaimCallbackTimeouts,
     Crash, Restart, api
<1>6. ASSUME NEW t \in Tasks, CreateTask(t) \/ LeaseExpires(t) \/ NextRunComes(t)
      PROVE  UNCHANGED <<used, callbacks>>
  BY <1>6 DEF CreateTask, LeaseExpires, NextRunComes, api
<1>7. CASE RetryTask \/ UNCHANGED vars
  BY <1>1, <1>7 DEF RetryTask, vars, api
<1> QED BY <1>1, <1>2, <1>3, <1>4, <1>5, <1>6, <1>7 DEF Next

LEMMA AnsweredCount ==
  ASSUME Requested, Requested', Answered \subseteq Answered'
  PROVE  /\ Cardinality(Answered) \in Nat /\ Cardinality(Answered') \in Nat
         /\ Cardinality(Answered) <= Cardinality(Answered')
         /\ Answered' # Answered =>
              Cardinality(Answered) + 1 <= Cardinality(Answered')
<1>1. IsFiniteSet(Answered)
  <2>1. Answered \in SUBSET used
    BY DEF Answered
  <2> QED BY <2>1, FS_Subset DEF Requested
<1>2. IsFiniteSet(Answered')
  <2>1. Answered' \in SUBSET used'
    BY DEF Answered
  <2>2. IsFiniteSet(used')
    BY DEF Requested
  <2> QED BY <2>1, <2>2, FS_Subset
<1>3. /\ Cardinality(Answered) \in Nat /\ Cardinality(Answered') \in Nat
  BY <1>1, <1>2, FS_CardinalityType
<1>4. /\ Cardinality(Answered) <= Cardinality(Answered')
      /\ Cardinality(Answered') = Cardinality(Answered) => Answered' = Answered
  BY <1>2, FS_Subset
<1> QED BY <1>3, <1>4

RetryInv == Requested /\ RetryLimit

LEMMA RetryLimitIs ==
  RetryLimit <=> \A t \in Tasks : Limited(Cardinality(Answered), row[t])
BY DEF RetryLimit, Limited

LEMMA RetryLimitWithout ==
  ASSUME Answered = {}
  PROVE  RetryLimit <=> \A t \in Tasks : Limited(0, row[t])
<1> DEFINE n == Cardinality(Answered)
<1>1. 0 = n
  BY FS_EmptySet, Zenon
<1>2. RetryLimit <=> \A t \in Tasks : Limited(n, row[t])
  BY RetryLimitIs
<1> HIDE DEF n
<1> QED BY <1>1, <1>2, Zenon

LEMMA RetryLimitStep ==
  ASSUME IInv, RetryInv, [Next]_vars PROVE RetryInv'
<1>1. TypeOK' /\ TypeOK
  BY SafetyStep DEF IInv
<1>2. /\ Requested' /\ Answered \subseteq Answered'
      /\ ScanCallback => Answered' # Answered
  BY <1>1, RequestedStep DEF RetryInv
<1> DEFINE m == Cardinality(Answered)
           n == Cardinality(Answered')
<1>3. m \in Nat /\ n \in Nat /\ m <= n /\ (ScanCallback => m + 1 <= n)
  BY <1>2, AnsweredCount DEF RetryInv
<1>4. \A t \in Tasks : row[t] \in Row /\ row'[t] \in Row /\ Limited(m, row[t])
  BY <1>1, RetryLimitIs DEF TypeOK, RetryInv
<1> HIDE DEF m, n
<1>5. ASSUME NEW t \in Tasks PROVE Limited(n, row'[t])
  <2>1. CASE ~ScanCallback
    <3>1. Lawful(row[t], row'[t])
      BY <2>1, StepLawful DEF AllLawful
    <3> QED BY <1>3, <1>4, <3>1, LawfulKeeps
  <2>2. CASE ScanCallback
    <3>1. row'[t].retries = row[t].retries
      <4> PICK k \in callbacks : ScanCallback!(k)
        BY <2>2 DEF ScanCallback
      <4>1. k.id \in Tasks /\ k.row \in Row
        BY <1>1 DEF TypeOK, Request
      <4>2. CASE Commit(k.id, ApplyCallback(row[k.id], k.row, k.verdict),
                        CallbackEvent(k.row, k.verdict))
        BY <1>1, <1>4, <4>1, <4>2, HandlerWriteLawful DEF Commit, TypeOK
      <4>3. CASE UNCHANGED database
        BY <4>3 DEF database
      <4> QED BY <4>2, <4>3
    <3>2. Limited(m + 1, row'[t])
      BY <1>3, <1>4, <3>1, StaleCosts
    <3> QED BY <1>3, <1>4, <2>2, <3>2, LimitsAssumption DEF Limited, Row
  <2> QED BY <2>1, <2>2
<1>6. RetryLimit'
  BY <1>5 DEF RetryLimit, Limited, n
<1> QED BY <1>2, <1>6 DEF RetryInv

LEMMA RetryLimitInit == Init => RetryInv
<1> SUFFICES ASSUME Init PROVE RetryInv
  OBVIOUS
<1>1. Requested /\ Answered = {}
  BY FS_EmptySet DEF Init, Requested, Answered
<1>2. \A t \in Tasks : row[t].status = "PENDING" /\ row[t].retries = 0
  BY DEF Init, NewTask
<1>3. \A t \in Tasks : Limited(0, row[t])
  <2>1. 0 <= MaxManualRetries
    BY LimitsAssumption
  <2> QED BY <1>2, <2>1, LimitedAtZero, Zenon
<1> QED BY <1>1, <1>3, RetryLimitWithout DEF RetryInv

\* However callbacks, timeouts, claims and retries interleave, each callback
\* that was answered costs the limit on manual retries at most one.
THEOREM RetriesAreLimited == Spec => []RetryLimit
<1>1. Init => RetryInv
  BY RetryLimitInit
<1>2. IInv /\ RetryInv /\ [Next]_vars => RetryInv'
  BY RetryLimitStep
<1>3. RetryInv => RetryLimit
  BY DEF RetryInv
<1> QED BY <1>1, <1>2, <1>3, Safety, PTL DEF Spec

\* With a scanner that answers at once, no task fails with its manual retries
\* used up without being dead, and none gets one retry too many (docs/05, 4.2).
THEOREM ExhaustedDies == Callbacks = {} => (Spec => []ExhaustedIsDead)
<1> SUFFICES ASSUME Callbacks = {} PROVE Spec => []ExhaustedIsDead
  OBVIOUS
<1>1. Answered = {}
  BY DEF Answered
<1>2. TypeOK /\ RetryLimit => ExhaustedIsDead
  <2> SUFFICES ASSUME TypeOK, RetryLimit PROVE ExhaustedIsDead
    OBVIOUS
  <2>1. \A t \in Tasks : Limited(0, row[t])
    BY <1>1, RetryLimitWithout, Zenon
  <2> QED BY <2>1, LimitedAtZero, Zenon DEF ExhaustedIsDead
<1> QED BY <1>2, RetriesAreLimited, TypeCorrect, PTL
===============================================================================
