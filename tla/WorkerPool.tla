------------------------------ MODULE WorkerPool ------------------------------
(***************************************************************************)
(* internal/worker/worker.go: the goroutines of one worker process, from   *)
(* Run's startup reclaim to its return: the poller, the bounded jobs       *)
(* channel, the goroutines that range over it, the reclaim loop, and the   *)
(* cancellation of Run's context.                                          *)
(*                                                                         *)
(* FilePipeline models what each step does to the table.  Here a row is    *)
(* its status alone and a copy is its id with the one thing its version    *)
(* can tell, whether the claim is still fresh; a lease may run out at any  *)
(* time.  The calls into the repository may fail.                          *)
(***************************************************************************)
EXTENDS Naturals, Sequences, FiniteSets

CONSTANTS Tasks, WorkerCount, BatchSize

ASSUME ConfigAssumption == WorkerCount \in Nat \ {0} /\ BatchSize \in Nat \ {0}
ASSUME TasksAssumption  == IsFiniteSet(Tasks)

Workers  == 1 .. WorkerCount
Capacity == BatchSize * 2

VARIABLES
  store,      \* status of each task: PENDING, PROCESSING or ENDED
  cancelled,  \* ctx.Done is closed
  run,        \* Run: starting, running, failed (startup error), returned
  poller,     \* claim, send, wait (for the ticker), close, done
  batch,      \* claimed tasks the poller has still to send
  jobs,       \* the channel
  closed,     \* close(jobs) has run
  worker,     \* per goroutine: idle, busy or exited
  holding,    \* per goroutine: the task in hand, as a sequence of at most one
  reclaimer   \* running or done

vars == <<store, cancelled, run, poller, batch, jobs, closed, worker, holding,
          reclaimer>>

Job == [id: Tasks, fresh: BOOLEAN]

Init ==
  /\ store \in [Tasks -> {"PENDING", "PROCESSING"}]   \* as an earlier process left it
  /\ cancelled = FALSE /\ run = "starting"
  /\ poller = "claim" /\ batch = <<>>
  /\ jobs = <<>> /\ closed = FALSE
  /\ worker = [w \in Workers |-> "idle"] /\ holding = [w \in Workers |-> <<>>]
  /\ reclaimer = "running"

\* The signal handler of cmd/worker cancels the context.
Cancel ==
  /\ ~cancelled /\ cancelled' = TRUE
  /\ UNCHANGED <<store, run, poller, batch, jobs, closed, worker, holding,
                 reclaimer>>

-------------------------------------------------------------------------------
Processing == {t \in Tasks : store[t] = "PROCESSING"}
Pending    == {t \in Tasks : store[t] = "PENDING"}

\* Variant of Requeue: the copies of a reclaimed row keep its version.
RequeueVariant(S) ==
  /\ store' = [t \in Tasks |-> IF t \in S THEN "PENDING" ELSE store[t]]
  /\ UNCHANGED <<batch, jobs, holding>>

\* ReclaimExpired: the tasks whose lease has run out, and the copies of them.
Requeue(S) ==
  LET Age(q) == [i \in DOMAIN q |->
                   [q[i] EXCEPT !.fresh = @ /\ q[i].id \notin S]]
  IN /\ store' = [t \in Tasks |-> IF t \in S THEN "PENDING" ELSE store[t]]
     /\ batch' = Age(batch) /\ jobs' = Age(jobs)
     /\ holding' = [w \in Workers |-> Age(holding[w])]

Start ==
  /\ run = "starting" /\ run' = "running"
  /\ \E S \in SUBSET Processing : Requeue(S)
  /\ UNCHANGED <<cancelled, poller, closed, worker, reclaimer>>

StartError ==
  /\ run = "starting" /\ run' = "failed"
  /\ UNCHANGED <<store, cancelled, poller, batch, jobs, closed, worker, holding,
                 reclaimer>>

-------------------------------------------------------------------------------
(***************************************************************************)
(* poll and claimAndDispatch.  A call that fails, or that the cancellation *)
(* interrupts, may have claimed some of the rows already.                  *)
(***************************************************************************)
Lease(S) == store' = [t \in Tasks |-> IF t \in S THEN "PROCESSING" ELSE store[t]]

Claim ==
  /\ run = "running" /\ poller = "claim" /\ ~cancelled
  /\ \E S \in SUBSET Pending :
       /\ Cardinality(S) <= BatchSize
       /\ Lease(S)
       /\ \E order \in [1 .. Cardinality(S) -> S] :
            /\ {order[i] : i \in DOMAIN order} = S
            /\ batch' = [i \in DOMAIN order |-> [id |-> order[i], fresh |-> TRUE]]
       /\ poller' = IF S = {} THEN "wait" ELSE "send"
  /\ UNCHANGED <<cancelled, run, jobs, closed, worker, holding, reclaimer>>

ClaimError ==
  /\ run = "running" /\ poller = "claim" /\ poller' = "wait"
  /\ \E S \in SUBSET Pending : Cardinality(S) < BatchSize /\ Lease(S)
  /\ UNCHANGED <<cancelled, run, batch, jobs, closed, worker, holding, reclaimer>>

Send ==
  /\ poller = "send" /\ Len(jobs) < Capacity
  /\ jobs' = Append(jobs, Head(batch))
  /\ batch' = Tail(batch)
  /\ poller' = IF Len(batch) = 1 THEN "wait" ELSE "send"
  /\ UNCHANGED <<store, cancelled, run, closed, worker, holding, reclaimer>>

\* select takes the ctx.Done case: what is left of the batch is dropped.
SendCancelled ==
  /\ poller = "send" /\ cancelled
  /\ batch' = <<>> /\ poller' = "wait"
  /\ UNCHANGED <<store, cancelled, run, jobs, closed, worker, holding, reclaimer>>

\* With a tick pending and ctx.Done closed, select takes either case.
Tick ==
  /\ poller = "wait" /\ poller' = "claim"
  /\ UNCHANGED <<store, cancelled, run, batch, jobs, closed, worker, holding,
                 reclaimer>>

PollReturns ==
  /\ poller = "wait" /\ cancelled /\ poller' = "close"
  /\ UNCHANGED <<store, cancelled, run, batch, jobs, closed, worker, holding,
                 reclaimer>>

\* Variant of CloseJobs: the channel stays open.
CloseJobsVariant ==
  /\ poller = "close" /\ poller' = "done"
  /\ UNCHANGED <<store, cancelled, run, batch, jobs, closed, worker, holding,
                 reclaimer>>

CloseJobs ==
  /\ poller = "close" /\ poller' = "done" /\ closed' = TRUE
  /\ UNCHANGED <<store, cancelled, run, batch, jobs, worker, holding, reclaimer>>

-------------------------------------------------------------------------------
(***************************************************************************)
(* The processing goroutines.  Process runs under context.Background, so   *)
(* the cancellation never interrupts it.                                   *)
(***************************************************************************)
Receive(w) ==
  /\ run = "running" /\ worker[w] = "idle" /\ jobs # <<>>
  /\ worker' = [worker EXCEPT ![w] = "busy"]
  /\ holding' = [holding EXCEPT ![w] = <<Head(jobs)>>]
  /\ jobs' = Tail(jobs)
  /\ UNCHANGED <<store, cancelled, run, poller, batch, closed, reclaimer>>

\* The outcome is written if the claim is fresh and the write succeeds.
Process(w) ==
  /\ worker[w] = "busy"
  /\ LET job == Head(holding[w])
     IN \/ job.fresh /\ \E s \in {"PENDING", "ENDED"} :
                          store' = [store EXCEPT ![job.id] = s]
        \/ UNCHANGED store
  /\ worker' = [worker EXCEPT ![w] = "idle"]
  /\ holding' = [holding EXCEPT ![w] = <<>>]
  /\ UNCHANGED <<cancelled, run, poller, batch, jobs, closed, reclaimer>>

\* Variant of Exit: the goroutine leaves at the cancellation, as in a select
\* on ctx.Done.
ExitVariant(w) ==
  /\ worker[w] = "idle" /\ cancelled
  /\ worker' = [worker EXCEPT ![w] = "exited"]
  /\ UNCHANGED <<store, cancelled, run, poller, batch, jobs, closed, holding,
                 reclaimer>>

\* Variant of Exit: the goroutine leaves when it finds the channel empty.
ExitVariantEmpty(w) ==
  /\ worker[w] = "idle" /\ jobs = <<>>
  /\ worker' = [worker EXCEPT ![w] = "exited"]
  /\ UNCHANGED <<store, cancelled, run, poller, batch, jobs, closed, holding,
                 reclaimer>>

Exit(w) ==
  /\ worker[w] = "idle" /\ closed /\ jobs = <<>>
  /\ worker' = [worker EXCEPT ![w] = "exited"]
  /\ UNCHANGED <<store, cancelled, run, poller, batch, jobs, closed, holding,
                 reclaimer>>

-------------------------------------------------------------------------------
\* The lease ticker, and the loop's end.  A call after the cancellation fails.
ReclaimExpired ==
  /\ run = "running" /\ reclaimer = "running" /\ ~cancelled
  /\ \E S \in SUBSET Processing : S # {} /\ Requeue(S)
  /\ UNCHANGED <<cancelled, run, poller, closed, worker, reclaimer>>

ReclaimReturns ==
  /\ run = "running" /\ reclaimer = "running" /\ cancelled
  /\ reclaimer' = "done"
  /\ UNCHANGED <<store, cancelled, run, poller, batch, jobs, closed, worker,
                 holding>>

\* Variant of Return: Run does not wait for the goroutines.
ReturnVariant ==
  /\ run = "running" /\ cancelled /\ poller = "done" /\ reclaimer = "done"
  /\ run' = "returned"
  /\ UNCHANGED <<store, cancelled, poller, batch, jobs, closed, worker, holding,
                 reclaimer>>

\* Run's last three receives and Wait; none of what they wait for goes back.
Return ==
  /\ run = "running" /\ cancelled
  /\ poller = "done"
  /\ \A w \in Workers : worker[w] = "exited"
  /\ reclaimer = "done"
  /\ run' = "returned"
  /\ UNCHANGED <<store, cancelled, poller, batch, jobs, closed, worker, holding,
                 reclaimer>>

Terminated == run \in {"failed", "returned"} /\ UNCHANGED vars

Next ==
  \/ Cancel \/ Start \/ StartError
  \/ Claim \/ ClaimError \/ Send \/ SendCancelled \/ Tick \/ PollReturns
  \/ CloseJobs
  \/ \E w \in Workers : Receive(w) \/ Process(w) \/ Exit(w)
  \/ ReclaimExpired \/ ReclaimReturns \/ Return \/ Terminated

Spec == Init /\ [][Next]_vars

(***************************************************************************)
(* Goroutines run, a stage and a call into the repository return.  When a  *)
(* tick and the cancellation are both ready select chooses at random, so a *)
(* poller that keeps coming to it takes ctx.Done in the end (SF).  Nothing *)
(* obliges the process to be cancelled.                                    *)
(***************************************************************************)
Fairness ==
  /\ WF_vars(Start \/ StartError) /\ WF_vars(Claim \/ ClaimError)
  /\ WF_vars(Send \/ SendCancelled) /\ WF_vars(Tick) /\ SF_vars(PollReturns)
  /\ WF_vars(CloseJobs) /\ WF_vars(ReclaimReturns) /\ WF_vars(Return)
  /\ \A w \in Workers :
       WF_vars(Receive(w)) /\ WF_vars(Process(w)) /\ WF_vars(Exit(w))

FairSpec == Spec /\ Fairness

-------------------------------------------------------------------------------
(***************************************************************************)
(* Properties.                                                             *)
(***************************************************************************)
TypeOK ==
  /\ store \in [Tasks -> {"PENDING", "PROCESSING", "ENDED"}]
  /\ cancelled \in BOOLEAN /\ closed \in BOOLEAN
  /\ run \in {"starting", "running", "failed", "returned"}
  /\ poller \in {"claim", "send", "wait", "close", "done"}
  /\ batch \in Seq(Job) /\ Len(batch) <= BatchSize
  /\ poller = "send" <=> batch # <<>>
  /\ jobs \in Seq(Job) /\ Len(jobs) <= Capacity
  /\ worker \in [Workers -> {"idle", "busy", "exited"}]
  /\ holding \in [Workers -> Seq(Job)]
  /\ \A w \in Workers : Len(holding[w]) = IF worker[w] = "busy" THEN 1 ELSE 0
  /\ reclaimer \in {"running", "done"}

\* Places a fresh copy of t can be: the poller's batch, the channel, a goroutine.
FreshIn(q, t) == {i \in DOMAIN q : q[i] = [id |-> t, fresh |-> TRUE]}
Copies(t) == Cardinality(FreshIn(batch, t)) + Cardinality(FreshIn(jobs, t))
  + Cardinality({w \in Workers : FreshIn(holding[w], t) # {}})

\* However often a lease runs out while its task is queued, and the task is
\* claimed and queued again beside its stale copy, at most one copy can still
\* write, and then the row is PROCESSING.
OneFreshCopy == \A t \in Tasks :
  Copies(t) <= 1 /\ (Copies(t) = 1 => store[t] = "PROCESSING")

\* The channel is closed after its last send, which would panic otherwise, and
\* no goroutine leaves its loop before it has seen the channel empty.
ChannelProtocol ==
  /\ closed => poller = "done" /\ batch = <<>>
  /\ \A w \in Workers : worker[w] = "exited" => closed /\ jobs = <<>>

\* Run returns nil when everything sent to the channel has been processed: the
\* caller then closes the database under nobody (cmd/worker defers Close).
DrainedOnReturn == run = "returned" =>
  jobs = <<>> /\ \A w \in Workers : holding[w] = <<>>

\* Once cancelled the process ends, a full channel or a slow stage
\* notwithstanding.
ShutdownEnds == cancelled ~> run \in {"failed", "returned"}

\* A poller blocked on a full channel is released, cancelled or not: sends wait
\* for goroutines alone, and these wait for nothing that waits for the poller.
PollerUnblocks == poller = "send" ~> poller # "send"
===============================================================================
