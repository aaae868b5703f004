------------------------------- MODULE TimedTask -------------------------------
(***************************************************************************)
(* One task on a clock, with a file: what FilePipeline abstracts from.     *)
(* Its deadlines are compared as text (Deadlines), and its stages decide   *)
(* by the file (FileContent).  Several workers, crashes, and a stored file *)
(* that is lost or overwritten.  The scanner answers at once; callbacks    *)
(* and manual retries are FilePipeline's.                                  *)
(***************************************************************************)
EXTENDS Deadlines, FileContent

CONSTANTS
  Uploads,      \* files that may be uploaded: pairs of an extension and bytes
  MaxAttempts, Lease, WorkerCount,   \* config.Config; Lease in ticks
  MaxTime       \* bound: the last tick of the clock

\* config.Validate, of the settings the task depends on.
Configured == /\ WorkerCount \in 1 .. 128
              /\ MaxAttempts \in 1 .. 20
              /\ Lease \in Nat \ {0}
ASSUME ConfigAssumption == Configured
ASSUME UploadsAssumption == \A u \in Uploads : u[1] \in Ext /\ u[2] \in Seq(Byte)

VARIABLES
  now,      \* the clock of the workers
  file,     \* the columns of the task that say what was uploaded
  disk,     \* the stored file, or Missing
  row,      \* the columns that change
  copies,   \* the copies of claimed rows with the workers
  failedAt, claimedAt   \* history: the times of the last failure and claim

vars == <<now, file, disk, row, copies, failedAt, claimedAt>>

NoLease == -1

\* A fresh row and its file; the clock may stand anywhere in the second.
Init ==
  /\ now \in 0 .. Second - 1
  /\ \E u \in Uploads : /\ Len(u[2]) <= MaxFileSize
                        /\ file = Save(u[1], u[2]) /\ disk = u[2]
  /\ row = [status |-> "PENDING", stage |-> "VALIDATE", attempts |-> 0,
            code |-> "", summary |-> <<>>, lease |-> NoLease, next |-> now,
            version |-> 0]
  /\ copies = {} /\ failedAt = 0 /\ claimedAt = 0

-------------------------------------------------------------------------------
ClaimVariantLease ==                          \* the lease is not taken from now
  /\ row.status = "PENDING" /\ NotAfter(row.next, now)
  /\ Cardinality(copies) < WorkerCount
  /\ row' = [row EXCEPT !.status = "PROCESSING", !.lease = row.next,
                        !.version = @ + 1]
  /\ copies' = copies \cup {row'} /\ claimedAt' = now
  /\ UNCHANGED <<now, file, disk, failedAt>>
\* ClaimPending of a poll that finds the task due.
Claim ==
  /\ row.status = "PENDING" /\ NotAfter(row.next, now)
  /\ Cardinality(copies) < WorkerCount
  /\ row' = [row EXCEPT !.status = "PROCESSING", !.lease = now + Lease,
                        !.version = @ + 1]
  /\ copies' = copies \cup {row'} /\ claimedAt' = now
  /\ UNCHANGED <<now, file, disk, failedAt>>

\* UPDATE ... WHERE status = PROCESSING AND version = ?, or no effect.
Write(copy, new) ==
  row' = IF row.status = "PROCESSING" /\ row.version = copy.version
         THEN [new EXCEPT !.lease = NoLease, !.version = row.version + 1]
         ELSE row

\* CompleteStage and FinishSuccess.
NextStage == [VALIDATE |-> "EXTRACT", EXTRACT |-> "SCAN", SCAN |-> "DONE"]
Complete(copy, summary) ==
  /\ Write(copy,
       IF copy.stage = "DONE" THEN [copy EXCEPT !.status = "SUCCEEDED", !.attempts = 0]
       ELSE [copy EXCEPT !.status = "PENDING", !.stage = NextStage[@],
                         !.attempts = 0, !.code = "", !.summary = summary,
                         !.next = now])
  /\ UNCHANGED failedAt

\* FailStage, at the time handleFailure reads from the clock.
FailStage(copy, code) ==
  LET attempt == copy.attempts + 1 IN
  /\ \E d \in Delay(attempt) :
       Write(copy,
         [copy EXCEPT !.status = IF attempt >= MaxAttempts THEN "FAILED" ELSE "PENDING",
                      !.attempts = attempt, !.code = code,
                      !.next = IF attempt >= MaxAttempts THEN now ELSE now + d])
  /\ failedAt' = IF row' = row THEN failedAt ELSE now

\* Pipeline.Execute, and what Process makes of it.
Process(copy) ==
  /\ copies' = copies \ {copy}
  /\ CASE copy.stage = "VALIDATE" ->
            LET code == Validate(file, disk) IN
            IF code = "" THEN Complete(copy, copy.summary) ELSE FailStage(copy, code)
       [] copy.stage = "EXTRACT" ->
            IF Extractable(file, disk) THEN Complete(copy, Extract(file, disk))
            ELSE FailStage(copy, "ERR_EXTRACT_FAILED")
       [] copy.stage = "SCAN" -> \/ Complete(copy, copy.summary)
                                 \/ FailStage(copy, "ERR_SCAN_FAILED")
       [] OTHER -> Complete(copy, copy.summary)
  /\ UNCHANGED <<now, file, disk, claimedAt>>

ReclaimExpired ==
  /\ row.status = "PROCESSING" /\ row.lease # NoLease /\ Before(row.lease, now)
  /\ row' = [row EXCEPT !.status = "PENDING", !.lease = NoLease, !.next = now,
                        !.code = "", !.version = @ + 1]
  /\ UNCHANGED <<now, file, disk, copies, failedAt, claimedAt>>

Crash ==
  /\ copies # {} /\ copies' = {}
  /\ UNCHANGED <<now, file, disk, row, failedAt, claimedAt>>

Tick ==
  /\ now < MaxTime /\ now' = now + 1
  /\ UNCHANGED <<file, disk, row, copies, failedAt, claimedAt>>

\* Somebody removes the stored file, or writes over it.
Damage ==
  /\ disk = file.sha
  /\ disk' \in {Missing, <<"a">>} \ {disk}
  /\ UNCHANGED <<now, file, row, copies, failedAt, claimedAt>>

Next == \/ Claim \/ ReclaimExpired \/ Crash \/ Tick \/ Damage
        \/ \E copy \in copies : Process(copy)

Spec == Init /\ [][Next]_vars

-------------------------------------------------------------------------------
(***************************************************************************)
(* Properties.                                                             *)
(***************************************************************************)
\* The columns of a row, but for its file's error code and summary.
Timed(r) ==
  /\ DOMAIN r = {"status", "stage", "attempts", "code", "summary", "lease",
                 "next", "version"}
  /\ r.status \in {"PENDING", "PROCESSING", "SUCCEEDED", "FAILED"}
  /\ r.stage \in {"VALIDATE", "EXTRACT", "SCAN", "DONE"}
  /\ r.attempts \in 0 .. MaxAttempts /\ r.version \in Nat
  /\ r.lease \in Int /\ r.next \in Int
TypeOK ==
  /\ now \in Nat /\ failedAt \in Nat /\ claimedAt \in Nat
  /\ Timed(row) /\ \A copy \in copies : Timed(copy)

\* docs/05, 4.1: min(base * 2^(n-1), maxBackoff), here in ticks.
Documented(n) == CHOOSE w \in {Doubled(n) * Second, RetryMax * Second} :
                   w <= Doubled(n) * Second /\ w <= RetryMax * Second

\* A stage that failed is not started again before the backoff of the docs,
\* less the jitter, and less the second within which the texts of two times
\* may be in the wrong order; a crash and a reclaim between change nothing.
Starts == row.status = "PENDING" /\ row'.status = "PROCESSING"
BackoffRespected == [][Starts /\ row.attempts > 0 =>
  100 * ((now + Second) - failedAt) > (100 - Jitter) * Documented(row.attempts) - 100]_vars

\* Nor does it wait longer than that and the jitter, capped as it says.
BackoffBounded == row.status = "PENDING" /\ row.code # "" =>
  100 * (row.next - failedAt) <= (100 + Jitter) * Documented(row.attempts)

\* A claim is not taken back before its lease ends, less that second.
TakenBack == /\ row.status = "PROCESSING" /\ row'.status = "PENDING"
             /\ row'.stage = row.stage /\ row'.attempts = row.attempts
LeaseRespected == [][TakenBack => now + Second > claimedAt + Lease]_vars

\* docs/01, 5.1: which files pass, but for two demands that the code does not
\* make; and with them.
IsText(s) == UTF8(s) /\ ~Has(s, "nul")
Acceptable(ext, s) ==
  /\ ext # ".exe" /\ s # <<>> /\ Len(s) <= MaxFileSize
  /\ IsText(s) /\ s[1] # "%PDF"
  /\ ext = ".json" => Trimmed(s) = <<>> \/ Trimmed(s)[1] = "open"
  /\ ext = ".csv" => \E i \in DOMAIN s : s[i] \notin White /\ \A j \in 1 .. i : s[j] # "nl"
AsDocumented(ext, s) ==
  /\ Acceptable(ext, s)
  /\ ext = ".json" => Trimmed(s) # <<>>       \* it begins with a brace
  /\ ext # ".json" => ~Has(s, "ctl")          \* text is printable

\* A file that fits the prefix is let past VALIDATE if it is acceptable to the
\* code, and only then; whatever happens to the stored file meanwhile, it is the
\* file that was uploaded which is judged.
FilesJudged == Len(file.sha) <= PrefixSize =>
  /\ row.stage # "VALIDATE" => Acceptable(file.ext, file.sha)
  /\ row.stage = "VALIDATE" /\ row.code # "" /\ disk = file.sha =>
       ~Acceptable(file.ext, file.sha)

\* A summary is never over its limit, and never ends within a character.
SummaryWhole == row.stage \in {"SCAN", "DONE"} =>
  /\ Len(row.summary) <= MaxSummarySize
  /\ disk = file.sha /\ UTF8(disk) => UTF8(row.summary)

\* docs/01, 5.1: what passes VALIDATE is as documented.  Refuted, twice: a .json
\* of white space passes, and a text with a control character.
OnlyDocumentedPass == Len(file.sha) <= PrefixSize =>
  (row.stage # "VALIDATE" => AsDocumented(file.ext, file.sha))

\* docs/01, 5.1: text is UTF-8 without NUL.  Refuted: Validate looks at the
\* first PrefixSize bytes, and they may end within a character.
TextIsAccepted == file.ext = ".txt" /\ IsText(file.sha) /\ disk = file.sha =>
                    row.code # "ERR_MAGIC_MISMATCH"

\* What is left of it: that is the only reason for which a text is refused.
RefusedWhenCut == file.ext = ".txt" /\ IsText(file.sha) /\ disk = file.sha =>
  (row.code = "ERR_MAGIC_MISMATCH" =>
     Len(file.sha) > PrefixSize /\ file.sha[PrefixSize] = "lead")
===============================================================================
