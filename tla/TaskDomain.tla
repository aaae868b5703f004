------------------------------ MODULE TaskDomain ------------------------------
(***************************************************************************)
(* internal/domain: the task row, its statuses and stages, and the pure    *)
(* rules stated there.  A row keeps the columns the pipeline decides on.   *)
(*                                                                         *)
(* There is no clock.  leased_until and next_run_at are kept as what a     *)
(* comparison with "now" can tell: a lease is absent, live or expired, and *)
(* next_run_at lies in the future or is due.  Deadlines pass in any order, *)
(* which covers every choice of lease, backoff and callback timeout, and   *)
(* the clock skew between the API's process and the worker's.              *)
(***************************************************************************)
EXTENDS Naturals

CONSTANTS
  Tasks,             \* task ids
  MaxAttempts,       \* FILEPIPE_MAX_ATTEMPTS, copied to each task on creation
  MaxManualRetries   \* domain.MaxManualRetries (3 in the code)

ASSUME LimitsAssumption ==
  /\ MaxAttempts \in Nat \ {0}
  /\ MaxManualRetries \in Nat

Status == {"PENDING", "PROCESSING", "SUCCEEDED", "FAILED", "DEAD"}
Stage == {"VALIDATE", "EXTRACT", "SCAN", "DONE"}
Verdict == {"none", "clean", "infected", "error"}

Row == [status  : Status,
        stage   : Stage,
        attempts: Nat,
        retries : Nat,                           \* retry_count
        error   : BOOLEAN,                       \* error_code <> ''
        waiting : BOOLEAN,                       \* waiting_callback
        verdict : Verdict,                       \* scan_verdict
        lease   : {"none", "live", "expired"},   \* leased_until
        next    : {"future", "due"},             \* next_run_at
        version : Nat]

NewTask == [status |-> "PENDING", stage |-> "VALIDATE", attempts |-> 0,
            retries |-> 0, error |-> FALSE, waiting |-> FALSE,
            verdict |-> "none", lease |-> "none", next |-> "due",
            version |-> 0]

NextStage(s) == CASE s = "VALIDATE" -> "EXTRACT"
                  [] s = "EXTRACT"  -> "SCAN"
                  [] OTHER          -> "DONE"

Final(s) == s \in {"SUCCEEDED", "DEAD"}

\* The stages a row has behind it.
Passed(r) == CASE r.stage = "VALIDATE" -> {}
               [] r.stage = "EXTRACT"  -> {"VALIDATE"}
               [] r.stage = "SCAN"     -> {"VALIDATE", "EXTRACT"}
               [] r.status = "SUCCEEDED" -> Stage
               [] OTHER -> {"VALIDATE", "EXTRACT", "SCAN"}

Retryable(r) == r.status = "FAILED" /\ r.retries < MaxManualRetries

===============================================================================
