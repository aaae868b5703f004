----------------------------- MODULE FilePipeline -----------------------------
(***************************************************************************)
(* The pipeline as a whole: the tasks table shared by the worker processes *)
(* (poller, job channel, goroutines, reclaim loop) and by the API's        *)
(* handlers (upload, manual retry, scan callback).  A step is one SQLite   *)
(* statement or transaction, or one step in a process's memory; between    *)
(* two steps of a caller every other caller may run.                       *)
(*                                                                         *)
(* An action whose error return changes nothing (a 404, a 409, a SELECT    *)
(* that finds no row) is a stuttering step and has no disjunct.            *)
(***************************************************************************)
EXTENDS TaskStore, FiniteSets

CONSTANTS
  Procs,         \* worker processes sharing the database file
  BatchSize,     \* rows one poll claims; the job channel holds twice as many
  WorkerCount,   \* goroutines of a process
  Callbacks,     \* scan callback requests the API receives, one use each
  Retries,       \* manual retry requests the API receives, one use each
  MaxSlow,       \* bound: leases that run out under a goroutine still working
  MaxCrashes,    \* bound: crashes of worker processes
  MaxFaults      \* bound: database calls of a worker that return an error

ASSUME PoolAssumption == BatchSize \in Nat \ {0} /\ WorkerCount \in Nat \ {0}

VARIABLES
  table,        \* ids inserted in tasks
  row,          \* tasks: the row of each id; NewTask's value before the insert
  events,       \* task_events: per task, the number of events of each kind
  up,           \* worker processes running
  candidates,   \* ClaimPending: rows selected, not yet tried
  claimed,      \* rows this poll has claimed, not yet sent to the channel
  jobs,         \* rows in the channel
  executed,     \* rows whose stage has run, with the outcome to persist
  submitted,    \* tasks the scan service has taken a request for
  used,         \* API requests received so far
  callbacks,    \* ScanCallback handlers between GetTask and ApplyCallback
  retrying,     \* ManualRetry calls between GetTask and the transaction
  slow, crashes, faults    \* bound counters

database == <<table, row, events>>
memory   == <<candidates, claimed, jobs, executed>>
api      == <<used, callbacks, retrying>>
bounds   == <<slow, crashes, faults>>
vars     == <<database, up, memory, submitted, api, bounds>>

(***************************************************************************)
(* A copy is a row as its holder last read it.                             *)
(***************************************************************************)
Outcome == {"ok", "error", "accepted", "clean", "infected"}
Copy     == [id: Tasks, row: Row]
Finished == [id: Tasks, row: Row, out: Outcome]
Request  == [req: Callbacks, id: Tasks, row: Row,
             verdict: {"clean", "infected", "error"}]
RetryCall == [req: Retries, id: Tasks, row: Row]

Init ==
  /\ table = {}
  /\ row = [t \in Tasks |-> NewTask]
  /\ events = [t \in Tasks |-> NoEvents]
  /\ up = Procs
  /\ candidates = [p \in Procs |-> {}]
  /\ claimed = [p \in Procs |-> {}]
  /\ jobs = [p \in Procs |-> {}]
  /\ executed = [p \in Procs |-> {}]
  /\ submitted = {}
  /\ used = {} /\ callbacks = {} /\ retrying = {}
  /\ slow = 0 /\ crashes = 0 /\ faults = 0

\* Variant of Commit: appendEventTx left out for a retry.
CommitVariant(t, r, kind) ==
  /\ row' = [row EXCEPT ![t] = r]
  /\ events' = IF kind = "RETRYING" THEN events
               ELSE [events EXCEPT ![t] = AppendEvent(@, kind)]
  /\ UNCHANGED table

\* A transaction that replaces one row and appends one event.
Commit(t, r, kind) ==
  /\ row' = [row EXCEPT ![t] = r]
  /\ events' = [events EXCEPT ![t] = AppendEvent(@, kind)]
  /\ UNCHANGED table

CreateTask(t) ==
  /\ t \notin table
  /\ table' = table \cup {t}
  /\ UNCHANGED <<row, events, up, memory, submitted, api, bounds>>

-------------------------------------------------------------------------------
(***************************************************************************)
(* The poller: ClaimPending's SELECT, one UPDATE per candidate, then the   *)
(* sends of claimAndDispatch.  created_at is text that does not sort by    *)
(* time within a second, so LIMIT keeps any BatchSize of the rows.         *)
(***************************************************************************)
Due == {t \in table : Claimable(row[t])}

SelectPending(p) ==
  /\ p \in up /\ candidates[p] = {} /\ claimed[p] = {}
  /\ \E S \in SUBSET Due :
       /\ S # {}
       /\ \/ Cardinality(S) = BatchSize
          \/ S = Due /\ Cardinality(S) < BatchSize
       /\ candidates' =
            [candidates EXCEPT ![p] = {[id |-> t, row |-> row[t]] : t \in S}]
  /\ UNCHANGED <<database, up, claimed, jobs, executed, submitted, api, bounds>>

ClaimPending(p) == \E c \in candidates[p] :
  /\ candidates' = [candidates EXCEPT ![p] = @ \ {c}]
  /\ \/ /\ ClaimGuard(row[c.id], c.row)
        /\ row' = [row EXCEPT ![c.id] = Claim(@)]
        /\ claimed' = [claimed EXCEPT ![p] =
                         @ \cup {[id |-> c.id, row |-> Claim(c.row)]}]
     \/ /\ ~ClaimGuard(row[c.id], c.row)
        /\ UNCHANGED <<row, claimed>>
  /\ UNCHANGED <<table, events, up, jobs, executed, submitted, api, bounds>>

\* An UPDATE fails midway: the rows already claimed are returned to nobody.
ClaimError(p) ==
  /\ candidates[p] # {}
  /\ faults < MaxFaults /\ faults' = faults + 1
  /\ candidates' = [candidates EXCEPT ![p] = {}]
  /\ claimed' = [claimed EXCEPT ![p] = {}]
  /\ UNCHANGED <<database, up, jobs, executed, submitted, api, slow, crashes>>

Dispatch(p) == \E c \in claimed[p] :
  /\ candidates[p] = {}
  /\ Cardinality(jobs[p]) < 2 * BatchSize
  /\ claimed' = [claimed EXCEPT ![p] = @ \ {c}]
  /\ jobs' = [jobs EXCEPT ![p] = @ \cup {c}]
  /\ UNCHANGED <<database, up, candidates, executed, submitted, api, bounds>>

-------------------------------------------------------------------------------
(***************************************************************************)
(* A goroutine: Pipeline.Execute runs the stage without touching the       *)
(* table, then Process persists its outcome.                               *)
(***************************************************************************)
Outcomes(s) == CASE s = "SCAN" -> Outcome \ {"ok"}
                 [] s = "DONE" -> {"ok"}
                 [] OTHER      -> {"ok", "error"}

\* A request whose answer is lost is an error here although the service has it.
Execute(p) == \E c \in jobs[p], out \in Outcome :
  /\ Cardinality(executed[p]) < WorkerCount
  /\ out \in Outcomes(c.row.stage)
  /\ jobs' = [jobs EXCEPT ![p] = @ \ {c}]
  /\ executed' = [executed EXCEPT ![p] =
                    @ \cup {[id |-> c.id, row |-> c.row, out |-> out]}]
  /\ \/ out # "accepted" /\ UNCHANGED submitted
     \/ c.row.stage = "SCAN" /\ out \in {"accepted", "error"}
                             /\ submitted' = submitted \cup {c.id}
  /\ UNCHANGED <<database, up, candidates, claimed, api, bounds>>

\* What Process writes for outcome e.out, once the fence has let it through.
PersistRow(e, r) ==
  CASE e.out = "error"      -> FailStage(r, e.row)
    [] e.out = "accepted"   -> MarkWaitingCallback(r)
    [] e.row.stage = "DONE" -> FinishSuccess(r)
    [] OTHER -> CompleteStage(r, e.row, IF e.out = "ok" THEN "none" ELSE e.out)
PersistEvent(e) ==
  CASE e.out = "error"    -> FailureEvent(FailStatus(e.row))
    [] e.out = "accepted" -> "RETRYING"
    [] OTHER              -> e.row.stage

Process(p) == \E e \in executed[p] :
  /\ executed' = [executed EXCEPT ![p] = @ \ {e}]
  /\ \/ /\ Fenced(row[e.id], e.row)
        /\ Commit(e.id, PersistRow(e, row[e.id]), PersistEvent(e))
     \/ /\ ~Fenced(row[e.id], e.row)
        /\ UNCHANGED database
  /\ UNCHANGED <<up, candidates, claimed, jobs, submitted, api, bounds>>

\* The transaction fails: Process logs the error and forgets the task.
ProcessError(p) == \E e \in executed[p] :
  /\ faults < MaxFaults /\ faults' = faults + 1
  /\ executed' = [executed EXCEPT ![p] = @ \ {e}]
  /\ UNCHANGED <<database, up, candidates, claimed, jobs, submitted, api,
                 slow, crashes>>

-------------------------------------------------------------------------------
(***************************************************************************)
(* The reclaim loop, and a process's end and restart.  Run reclaims        *)
(* expired leases before it starts anything else.                          *)
(***************************************************************************)
Expired  == {t \in table : LeaseLapsed(row[t])}
TimedOut == {t \in table : CallbackLapsed(row[t])}

RequeueExpired ==
  /\ row' = [t \in Tasks |-> IF t \in Expired THEN ReclaimLease(row[t])
                                              ELSE row[t]]
  /\ events' = [t \in Tasks |->
                  IF t \in Expired THEN AppendEvent(events[t], "RETRYING")
                                   ELSE events[t]]
  /\ UNCHANGED table

ReclaimExpired(p) ==
  /\ p \in up /\ Expired # {}
  /\ RequeueExpired
  /\ UNCHANGED <<up, memory, submitted, api, bounds>>

ReclaimCallbackTimeouts(p) ==
  /\ p \in up /\ TimedOut # {}
  /\ row' = [t \in Tasks |-> IF t \in TimedOut THEN ReclaimCallback(row[t])
                                               ELSE row[t]]
  /\ events' = [t \in Tasks |->
                  IF t \in TimedOut
                  THEN AppendEvent(events[t], FailureEvent(TimeoutStatus(row[t])))
                  ELSE events[t]]
  /\ UNCHANGED <<table, up, memory, submitted, api, bounds>>

Crash(p) ==
  /\ p \in up
  /\ crashes < MaxCrashes /\ crashes' = crashes + 1
  /\ up' = up \ {p}
  /\ candidates' = [candidates EXCEPT ![p] = {}]
  /\ claimed' = [claimed EXCEPT ![p] = {}]
  /\ jobs' = [jobs EXCEPT ![p] = {}]
  /\ executed' = [executed EXCEPT ![p] = {}]
  /\ UNCHANGED <<database, submitted, api, slow, faults>>

Restart(p) ==
  /\ p \in Procs \ up
  /\ up' = up \cup {p}
  /\ RequeueExpired
  /\ UNCHANGED <<memory, submitted, api, bounds>>

-------------------------------------------------------------------------------
(***************************************************************************)
(* The API's handlers.  ScanCallback reads the task and checks that it is  *)
(* waiting, then ApplyCallback writes; ManualRetry reads the task and      *)
(* checks that it is retryable, then writes.  A handler whose write misses *)
(* answers 409; one that is cancelled, or dies with the API, writes        *)
(* nothing.  Callbacks are lost, late, repeated or reordered: each request *)
(* is for any task submitted to the service, at any time, or never comes.  *)
(***************************************************************************)
ReadForCallback(q) == \E t \in table \cap submitted,
                         v \in {"clean", "infected", "error"} :
  /\ q \notin used /\ used' = used \cup {q}
  /\ row[t].waiting
  /\ callbacks' = callbacks \cup
       {[req |-> q, id |-> t, row |-> row[t], verdict |-> v]}
  /\ UNCHANGED <<database, up, memory, submitted, retrying, bounds>>

ScanCallback == \E k \in callbacks :
  /\ callbacks' = callbacks \ {k}
  /\ \/ /\ CallbackGuard(row[k.id])
        /\ Commit(k.id, ApplyCallback(row[k.id], k.row, k.verdict),
                  CallbackEvent(k.row, k.verdict))
     \/ UNCHANGED database
  /\ UNCHANGED <<up, memory, submitted, used, retrying, bounds>>

ReadForRetry(q) == \E t \in table :
  /\ q \notin used /\ used' = used \cup {q}
  /\ Retryable(row[t])
  /\ retrying' = retrying \cup {[req |-> q, id |-> t, row |-> row[t]]}
  /\ UNCHANGED <<database, up, memory, submitted, callbacks, bounds>>

RetryTask == \E k \in retrying :
  /\ retrying' = retrying \ {k}
  /\ \/ /\ RetryGuard(row[k.id])
        /\ Commit(k.id, ManualRetry(row[k.id]), "RETRYING")
     \/ UNCHANGED database
  /\ UNCHANGED <<up, memory, submitted, used, callbacks, bounds>>

-------------------------------------------------------------------------------
(***************************************************************************)
(* Time.  A lease may run out while the claim's holder is still at work;   *)
(* MaxSlow bounds how often.  A lease nobody holds always runs out.        *)
(***************************************************************************)
Holding(p) == claimed[p] \cup jobs[p]
                \cup {[id |-> e.id, row |-> e.row] : e \in executed[p]}
Current(c) == row[c.id].version = c.row.version
Held(t) == \E p \in Procs : \E c \in Holding(p) : c.id = t /\ Current(c)

LeaseExpires(t) ==
  /\ row[t].lease = "live"
  /\ row' = [row EXCEPT ![t].lease = "expired"]
  /\ \/ ~Held(t) /\ UNCHANGED slow
     \/ Held(t) /\ slow < MaxSlow /\ slow' = slow + 1
  /\ UNCHANGED <<table, events, up, memory, submitted, api, crashes, faults>>

NextRunComes(t) ==
  /\ row[t].next = "future"
  /\ row' = [row EXCEPT ![t].next = "due"]
  /\ UNCHANGED <<table, events, up, memory, submitted, api, bounds>>

-------------------------------------------------------------------------------
WorkerStep(p) ==
  \/ SelectPending(p) \/ ClaimPending(p) \/ ClaimError(p) \/ Dispatch(p)
  \/ Execute(p) \/ Process(p) \/ ProcessError(p)
  \/ ReclaimExpired(p) \/ ReclaimCallbackTimeouts(p)
  \/ Crash(p) \/ Restart(p)

Next ==
  \/ \E p \in Procs : WorkerStep(p)
  \/ \E t \in Tasks : CreateTask(t) \/ LeaseExpires(t) \/ NextRunComes(t)
  \/ \E q \in Callbacks : ReadForCallback(q)
  \/ \E q \in Retries : ReadForRetry(q)
  \/ ScanCallback \/ RetryTask

Spec == Init /\ [][Next]_vars

(***************************************************************************)
(* A worker process keeps polling, sending, executing and reclaiming, a    *)
(* stage returns (the scanner's client has a timeout), time passes, and a  *)
(* crashed process is started again.  Nothing is assumed of the API's      *)
(* clients or of the scan service.                                         *)
(***************************************************************************)
Fairness ==
  /\ \A p \in Procs :
       /\ WF_vars(SelectPending(p)) /\ WF_vars(ClaimPending(p))
       /\ WF_vars(Dispatch(p)) /\ WF_vars(Execute(p)) /\ WF_vars(Process(p))
       /\ WF_vars(ReclaimExpired(p)) /\ WF_vars(ReclaimCallbackTimeouts(p))
       /\ WF_vars(Restart(p))
  /\ \A t \in Tasks : WF_vars(LeaseExpires(t)) /\ WF_vars(NextRunComes(t))

FairSpec == Spec /\ Fairness

-------------------------------------------------------------------------------
(***************************************************************************)
(* Properties.                                                             *)
(***************************************************************************)
TypeOK ==
  /\ table \subseteq Tasks
  /\ row \in [Tasks -> Row]
  /\ events \in [Tasks -> [EventKind -> Nat]]
  /\ up \subseteq Procs
  /\ candidates \in [Procs -> SUBSET Copy]
  /\ claimed \in [Procs -> SUBSET Copy]
  /\ jobs \in [Procs -> SUBSET Copy]
  /\ executed \in [Procs -> SUBSET Finished]
  /\ submitted \subseteq Tasks
  /\ used \subseteq Callbacks \cup Retries
  /\ callbacks \subseteq Request
  /\ retrying \subseteq RetryCall
  /\ slow \in Nat /\ crashes \in Nat /\ faults \in Nat

\* A task waits for a callback only between stages of a scan that was sent:
\* no interleaving of callback, timeout and claim leaves the flag on a row
\* that is running, finished or at another stage (waiting_callback, which
\* reclaim's lease branch and FinishSuccess never clear).
WaitingShape == \A t \in Tasks : row[t].waiting =>
  /\ row[t].status = "PENDING" /\ row[t].stage = "SCAN"
  /\ row[t].attempts >= 1 /\ t \in submitted

\* A row is PROCESSING exactly while it carries a lease, so ReclaimExpired
\* can always recover it and never recovers anything else.
LeaseShape == \A t \in Tasks :
  row[t].status = "PROCESSING" <=> row[t].lease # "none"

\* A worker's copy whose version still matches is the row itself, in the
\* state the claim left it: the values CompleteStage and FailStage compute
\* from the copy are never stale when the fence lets them through.
FenceSound == \A p \in Procs : \A c \in Holding(p) : Current(c) =>
  row[c.id] = [c.row EXCEPT !.lease = row[c.id].lease]

\* At any time one goroutine of one process, at one step, holds the claim
\* on a row: the optimistic lock never admits two owners.
SingleOwner ==
  /\ \A p, q \in Procs : \A c \in Holding(p), d \in Holding(q) :
       c.id = d.id /\ Current(c) /\ Current(d) => p = q
  /\ \A p \in Procs : \A c \in Holding(p) : Current(c) =>
       /\ ~(c \in claimed[p] /\ c \in jobs[p])
       /\ \A e \in executed[p] : e.id = c.id /\ e.row = c.row =>
            /\ c \notin claimed[p] \cup jobs[p]
            /\ \A f \in executed[p] : f.id = e.id /\ f.row = e.row => f = e

\* A task reaches DONE only with a verdict that lets it pass, in whatever
\* order the synchronous answer, callbacks and retries arrive; before SCAN
\* it has none.  A task that ended says why exactly when it failed.
VerdictGate == \A t \in Tasks :
  /\ row[t].stage = "DONE" => row[t].verdict \in {"clean", "infected"}
  /\ row[t].stage \in {"VALIDATE", "EXTRACT"} => row[t].verdict = "none"
  /\ row[t].status = "SUCCEEDED" => row[t].stage = "DONE" /\ ~row[t].error
  /\ row[t].status \in {"FAILED", "DEAD"} => row[t].error

\* Exactly once: whatever is redelivered, reclaimed or run twice, a stage
\* has one SUCCEEDED event when the row is past it and none otherwise.
StageLedger == \A t \in Tasks, s \in Stage :
  events[t][s] = IF s \in Passed(row[t]) THEN 1 ELSE 0

\* The FAILED events of the log account for every manual retry: one each,
\* and one more while the task is FAILED or DEAD.
FailureLedger == \A t \in Tasks :
  events[t]["FAILED"] =
    row[t].retries + (IF row[t].status \in {"FAILED", "DEAD"} THEN 1 ELSE 0)

\* The counter of attempts never passes its limit, and no row is left to run
\* with all its attempts counted, whatever fails, times out, answers late or is
\* reclaimed; the last attempt may be waiting for its answer.  This bounds the
\* counter, not the scans: a callback decided on a stale copy may set it back.
AttemptBudget == \A t \in Tasks :
  /\ row[t].attempts <= MaxAttempts
  /\ row[t].status \in {"PENDING", "PROCESSING"} /\ ~row[t].waiting =>
       row[t].attempts < MaxAttempts

\* A task is dead-lettered only after its manual retries are used up.
DeadIsExhausted == \A t \in Tasks :
  row[t].status = "DEAD" => row[t].retries >= MaxManualRetries

\* The converse, and the limit on manual retries: a task that fails again
\* after the last manual retry is DEAD (docs/05, 4.2).
ExhaustedIsDead == \A t \in Tasks :
  /\ row[t].status = "FAILED" => row[t].retries < MaxManualRetries
  /\ row[t].retries <= MaxManualRetries

\* What is left of that limit when callbacks decide on stale copies: each that
\* was answered may cost one manual retry more than allowed, and nothing else.
Answered == {q \in used \cap Callbacks : \A k \in callbacks : k.req # q}
RetryLimit == \A t \in Tasks :
  LET limit == MaxManualRetries + Cardinality(Answered) IN
  /\ row[t].status = "FAILED" => row[t].retries < limit
  /\ row[t].retries <= limit

\* BR-6: nothing rewrites a SUCCEEDED or DEAD task or adds to its log.
FinalIsFinal == [][\A t \in Tasks : Final(row[t].status) =>
  row'[t] = row[t] /\ events'[t] = events[t]]_vars

\* Every write takes the next version, so no write escapes a worker's fence;
\* what changes without one is only the passing of a deadline.
EveryWriteVersioned == [][\A t \in Tasks :
  \/ row'[t].version = row[t].version + 1
  \/ row'[t] = [row[t] EXCEPT !.lease = row'[t].lease, !.next = row'[t].next]
     /\ (row[t].lease = row'[t].lease \/ row'[t].lease = "expired")]_vars

\* BR-7 as the code keeps it: a change of status other than a claim is
\* logged by the step that makes it.
ChangesLogged == [][\A t \in Tasks :
  row'[t].status \notin {row[t].status, "PROCESSING"} =>
    events'[t] # events[t]]_vars

\* An uploaded task ends, and so stops waiting for a callback, whatever
\* crashes, is lost, or runs slow: a failed or unanswered attempt is backed off
\* and made again, and the last one ends it.
Settled(t) == row[t].status \in {"SUCCEEDED", "FAILED", "DEAD"}
EveryTaskSettles == \A t \in Tasks : t \in table ~> Settled(t)

-------------------------------------------------------------------------------
(***************************************************************************)
(* The pipeline implements TaskLifecycle: a row is the task, once inserted. *)
(***************************************************************************)
Lifecycle == INSTANCE TaskLifecycle WITH
  task <- [t \in Tasks |->
            [status  |-> IF t \in table THEN row[t].status ELSE "ABSENT",
             stage   |-> row[t].stage,
             waiting |-> row[t].waiting,
             retries |-> row[t].retries,
             log     |-> [k \in Stage \cup {"FAILED"} |-> events[t][k]]]]

\* Every step of the table, whoever takes it and however stale its copy, is
\* a legal move of each task, with its event, or leaves it alone.
LifecycleSpec == Lifecycle!Spec

-------------------------------------------------------------------------------
(***************************************************************************)
(* The inductive invariant of the safety properties above: what a row is,  *)
(* and what each holder of a copy may rely on.                             *)
(***************************************************************************)
RowOK(t, r) ==
  /\ r.waiting => /\ r.status = "PENDING" /\ r.stage = "SCAN"
                  /\ r.attempts >= 1 /\ t \in submitted
  /\ r.status = "PROCESSING" <=> r.lease # "none"
  /\ r.stage = "DONE" => /\ r.verdict \in {"clean", "infected"} /\ ~r.error
                         /\ r.status \in {"PENDING", "PROCESSING", "SUCCEEDED"}
  /\ r.stage \in {"VALIDATE", "EXTRACT"} => r.verdict = "none"
  /\ r.status = "SUCCEEDED" => r.stage = "DONE"
  /\ r.status \in {"FAILED", "DEAD"} => r.error
  /\ r.attempts <= MaxAttempts
  /\ r.status \in {"PENDING", "PROCESSING"} /\ ~r.waiting =>
       r.attempts < MaxAttempts
  /\ r.status = "DEAD" => r.retries >= MaxManualRetries
  /\ r.status # "PENDING" => r.next = "due"

\* What a claim's holder may rely on: an equal version means the claimed row.
AsClaimed(r, c) == r = [c EXCEPT !.lease = r.lease]

CandidateOK(c) ==
  /\ Claimable(c.row) /\ c.row.version <= row[c.id].version
  /\ Current(c) => row[c.id] = c.row
ClaimOK(c) ==
  /\ c.row.status = "PROCESSING" /\ c.row.next = "due"
  /\ c.row.version <= row[c.id].version
  /\ Current(c) => AsClaimed(row[c.id], c.row)
OutcomeOK(e) == /\ e.out \in Outcomes(e.row.stage)
                /\ e.out = "accepted" => e.id \in submitted
CallbackOK(k) ==
  k.row.attempts <= MaxAttempts /\ k.row.retries <= row[k.id].retries

RowsOK       == \A t \in Tasks : RowOK(t, row[t])
CandidatesOK == \A p \in Procs : \A c \in candidates[p] : CandidateOK(c)
ClaimsOK     == \A p \in Procs : \A c \in Holding(p) : ClaimOK(c)
OutcomesOK   == \A p \in Procs : \A e \in executed[p] : OutcomeOK(e)
CallbacksOK  == \A k \in callbacks : CallbackOK(k)

IInv == TypeOK /\ RowsOK /\ CandidatesOK /\ ClaimsOK /\ OutcomesOK /\ CallbacksOK
===============================================================================
