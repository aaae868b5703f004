------------------------------ MODULE TaskStore -------------------------------
(***************************************************************************)
(* internal/repository/task_repo.go: for each statement that writes a row, *)
(* its WHERE clause and the row it leaves, as operators on the row in the  *)
(* table (r) and on the copy the caller read earlier (c).  What a caller   *)
(* may do with a copy that went stale depends on which of the two each     *)
(* clause reads, so the operators keep the source's choice.                *)
(*                                                                         *)
(* An operator named as a variant is the operator after it with a likely   *)
(* mistake in it.  No specification uses one: a variant put in place of    *)
(* its original has to break a property.                                   *)
(***************************************************************************)
EXTENDS TaskDomain

(***************************************************************************)
(* task_events.  A task's log is kept as the number of events of each      *)
(* kind: a SUCCEEDED event counts under its stage, another under its       *)
(* status.                                                                 *)
(***************************************************************************)
EventKind == Stage \cup {"RETRYING", "FAILED"}
NoEvents == [k \in EventKind |-> 0]
AppendEvent(log, k) == [log EXCEPT ![k] = @ + 1]

WriteVariant(r) == r                              \* version=version+1 forgotten
Write(r) == [r EXCEPT !.version = @ + 1]

\* Status after an attempt failed: shared by FailStage, ApplyCallback, reclaim.
AfterFailureVariantLast(attempts, retries) ==     \* one attempt too many
  IF attempts <= MaxAttempts THEN "PENDING"
  ELSE IF retries < MaxManualRetries THEN "FAILED" ELSE "DEAD"
AfterFailureVariantEarly(attempts, retries) ==    \* dead one retry early
  IF attempts < MaxAttempts THEN "PENDING"
  ELSE IF retries + 1 < MaxManualRetries THEN "FAILED" ELSE "DEAD"
AfterFailure(attempts, retries) ==
  IF attempts < MaxAttempts THEN "PENDING"
  ELSE IF retries < MaxManualRetries THEN "FAILED" ELSE "DEAD"
FailureEvent(status) == IF status = "PENDING" THEN "RETRYING" ELSE "FAILED"

(***************************************************************************)
(* ClaimPending: the SELECT's condition, then the UPDATE of one candidate. *)
(***************************************************************************)
Claimable(r) == r.status = "PENDING" /\ ~r.waiting /\ r.next = "due"
ClaimGuard(r, c) == /\ r.status = "PENDING"
                    /\ r.version = c.version
                    /\ r.next = "due"
Claim(r) == Write([r EXCEPT !.status = "PROCESSING", !.lease = "live"])

(***************************************************************************)
(* The worker's writes, fenced by the version of its claim.                *)
(***************************************************************************)
FencedVariant(r, c) == r.status = "PROCESSING"     \* version not compared
Fenced(r, c) == r.status = "PROCESSING" /\ r.version = c.version

CompleteStage(r, c, verdict) ==
  Write([r EXCEPT !.status = "PENDING", !.stage = NextStage(c.stage),
                  !.attempts = 0, !.error = FALSE, !.lease = "none",
                  !.next = "due",
                  !.verdict = IF verdict = "none" THEN c.verdict ELSE verdict])

FinishSuccess(r) ==
  Write([r EXCEPT !.status = "SUCCEEDED", !.attempts = 0, !.lease = "none"])

FailStatus(c) == AfterFailure(c.attempts + 1, c.retries)
FailStage(r, c) ==
  Write([r EXCEPT !.status = FailStatus(c), !.attempts = c.attempts + 1,
                  !.error = TRUE, !.lease = "none",
                  !.next = IF FailStatus(c) = "PENDING" THEN "future" ELSE "due"])

MarkWaitingCallback(r) ==
  Write([r EXCEPT !.status = "PENDING", !.waiting = TRUE,
                  !.attempts = @ + 1, !.lease = "none", !.next = "future"])

(***************************************************************************)
(* The API's writes.  ApplyCallback decides on the handler's copy but its  *)
(* WHERE clause does not compare versions.                                 *)
(***************************************************************************)
CallbackGuardVariant(r) == r.stage = "SCAN"         \* waiting not checked again
CallbackGuard(r) == r.waiting /\ r.stage = "SCAN"

CallbackAttempts(c) == IF c.attempts < 1 THEN 1 ELSE c.attempts
CallbackStatus(c, verdict) ==
  IF verdict = "error" THEN AfterFailure(CallbackAttempts(c), c.retries)
                       ELSE "PENDING"
CallbackEvent(c, verdict) ==
  IF verdict = "error" THEN FailureEvent(CallbackStatus(c, verdict)) ELSE "SCAN"
ApplyCallbackVariantDone(r, c, verdict) ==        \* every answer taken as a pass
  Write([r EXCEPT !.stage = "DONE", !.attempts = 0, !.waiting = FALSE,
                  !.verdict = verdict, !.next = "due"])
ApplyCallback(r, c, verdict) ==
  LET failed == verdict = "error"
  IN Write([r EXCEPT
       !.status   = CallbackStatus(c, verdict),
       !.stage    = IF failed THEN "SCAN" ELSE "DONE",
       !.attempts = IF failed THEN CallbackAttempts(c) ELSE 0,
       !.waiting  = FALSE,
       !.verdict  = verdict,
       !.error    = failed,
       !.next     = IF failed /\ CallbackStatus(c, verdict) = "PENDING"
                    THEN "future" ELSE "due"])

RetryGuardVariant(r) == TRUE                        \* status not checked again
RetryGuard(r) == r.status = "FAILED"
ManualRetryVariantCount(r) ==                     \* retry_count kept
  Write([r EXCEPT !.status = "PENDING", !.attempts = 0, !.error = FALSE,
                  !.next = "due"])
ManualRetryVariantVersion(r) ==                   \* version=version+1 forgotten
  [r EXCEPT !.status = "PENDING", !.attempts = 0, !.retries = @ + 1,
            !.error = FALSE, !.next = "due"]
ManualRetry(r) ==
  Write([r EXCEPT !.status = "PENDING", !.attempts = 0, !.retries = @ + 1,
                  !.error = FALSE, !.next = "due"])

(***************************************************************************)
(* reclaim: one transaction reads the matching rows and updates them.      *)
(***************************************************************************)
LeaseLapsedVariant(r) == r.status = "PENDING" /\ r.lease = "expired"
LeaseLapsed(r) == r.status = "PROCESSING" /\ r.lease = "expired"
ReclaimLeaseVariant(r) ==                         \* version=version+1 forgotten
  [r EXCEPT !.status = "PENDING", !.lease = "none", !.next = "due",
            !.error = FALSE]
ReclaimLease(r) ==
  Write([r EXCEPT !.status = "PENDING", !.lease = "none", !.next = "due",
                  !.error = FALSE])

CallbackLapsed(r) == r.waiting /\ r.next = "due"
TimeoutStatus(r) == AfterFailure(r.attempts, r.retries)
ReclaimCallback(r) ==
  Write([r EXCEPT !.status = TimeoutStatus(r), !.waiting = FALSE,
                  !.lease = "none", !.next = "due",
                  !.error = TimeoutStatus(r) # "PENDING"])

===============================================================================
