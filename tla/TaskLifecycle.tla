---------------------------- MODULE TaskLifecycle -----------------------------
(***************************************************************************)
(* What a user of the pipeline is promised about a task, without rows,     *)
(* leases, versions, workers or handlers: the moves it can make from       *)
(* upload to its end, and the events they leave.  A stage is passed once,  *)
(* in order, by being run (or, for the scan, by an answer); a task ends    *)
(* SUCCEEDED from DONE alone, is dead only after its manual retries, and   *)
(* leaves an end only by one.                                              *)
(***************************************************************************)
EXTENDS TaskDomain

VARIABLE task

\* The log keeps, of each task, the stages passed and the failures.
LogKind == Stage \cup {"FAILED"}
Absent == [status |-> "ABSENT", stage |-> "VALIDATE", waiting |-> FALSE,
           retries |-> 0, log |-> [k \in LogKind |-> 0]]

When(guard, b) == IF guard THEN {b} ELSE {}

\* The state a task is left in, waiting for an answer or not.
To(a, status) == [a EXCEPT !.status = status, !.waiting = FALSE]
Entered(log, k) == [log EXCEPT ![k] = @ + 1]
Logged(a, k)  == [a EXCEPT !.log = Entered(@, k)]
Running(a)    == a.status = "PROCESSING" \/ a.waiting

Upload(a)   == When(a = Absent, To(a, "PENDING"))
Start(a)    == When(a.status = "PENDING" /\ ~a.waiting, To(a, "PROCESSING"))
Await(a)    == When(a.status = "PROCESSING" /\ a.stage = "SCAN",
                    [a EXCEPT !.status = "PENDING", !.waiting = TRUE])
Pass(a)     == When(Running(a) /\ a.stage # "DONE",
                    [Logged(To(a, "PENDING"), a.stage) EXCEPT
                       !.stage = NextStage(a.stage)])
TryAgain(a) == When(Running(a), To(a, "PENDING"))
Fail(a)     == When(Running(a) /\ a.stage # "DONE",
                    Logged(To(a, "FAILED"), "FAILED"))
Die(a)      == When(/\ Running(a) /\ a.stage # "DONE"
                    /\ a.retries >= MaxManualRetries,
                    Logged(To(a, "DEAD"), "FAILED"))
Succeed(a)  == When(a.status = "PROCESSING" /\ a.stage = "DONE",
                    Logged(To(a, "SUCCEEDED"), "DONE"))
Retry(a)    == When(a.status = "FAILED",
                    [To(a, "PENDING") EXCEPT !.retries = @ + 1])

Moves(a) == Upload(a) \cup Start(a) \cup Await(a) \cup Pass(a) \cup TryAgain(a)
              \cup Fail(a) \cup Die(a) \cup Succeed(a) \cup Retry(a)

Init == task = [t \in Tasks |-> Absent]

\* One transaction of reclaim moves several tasks at once.
Next == \A t \in Tasks : task'[t] \in {task[t]} \cup Moves(task[t])

Spec == Init /\ [][Next]_task
===============================================================================
