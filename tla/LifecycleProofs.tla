---------------------------- MODULE LifecycleProofs ----------------------------
(***************************************************************************)
(* FilePipeline implements TaskLifecycle, and what follows of the logs of  *)
(* events: for any tasks, processes, requests and limits.  The argument:   *)
(* every step writes a row and its log as one of eight writes does, under  *)
(* a condition the invariant of FilePipelineProofs gives (WriteStep); each *)
(* such write is a move of the task, or leaves it alone (WriteIsMove); and *)
(* a move keeps the accounts of the log (MoveKeepsAccounts).               *)
(***************************************************************************)
EXTENDS FilePipelineProofs

-------------------------------------------------------------------------------
(***************************************************************************)
(* The task a row and its log stand for.                                   *)
(***************************************************************************)
LogOf(log) == [k \in Stage \cup {"FAILED"} |-> log[k]]
View(inserted, r, log) ==
  [status  |-> IF inserted THEN r.status ELSE "ABSENT",
   stage   |-> r.stage,
   waiting |-> r.waiting,
   retries |-> r.retries,
   log     |-> LogOf(log)]
ViewOf(t) == View(t \in table, row[t], events[t])

Log  == [EventKind -> Nat]
Task == [status: Status \cup {"ABSENT"}, stage: Stage, waiting: BOOLEAN,
         retries: Nat, log: [Stage \cup {"FAILED"} -> Nat]]

LEMMA ViewType ==
  ASSUME NEW r \in Row, NEW log \in Log, NEW b \in BOOLEAN
  PROVE  View(b, r, log) \in Task
<1>1. LogOf(log) \in [Stage \cup {"FAILED"} -> Nat]
  BY DEF LogOf, Log, EventKind
<1> QED BY <1>1 DEF View, Task, Row

LEMMA LogAppend ==
  ASSUME NEW log \in Log, NEW k \in EventKind
  PROVE  /\ k \in Lifecycle!LogKind =>
              LogOf(AppendEvent(log, k)) = Lifecycle!Entered(LogOf(log), k)
         /\ k = "RETRYING" => LogOf(AppendEvent(log, k)) = LogOf(log)
         /\ AppendEvent(log, k) # log
<1>1. \A j \in EventKind :
        AppendEvent(log, k)[j] = IF j = k THEN log[j] + 1 ELSE log[j]
  BY DEF AppendEvent, Log
<1>2. \A j \in Stage \cup {"FAILED"} : j \in EventKind /\ j # "RETRYING"
  BY DEF EventKind, Stage
<1>3. ASSUME k \in Lifecycle!LogKind
      PROVE  LogOf(AppendEvent(log, k)) = Lifecycle!Entered(LogOf(log), k)
  <2>1. Lifecycle!LogKind = Stage \cup {"FAILED"}
    BY DEF Lifecycle!LogKind, Lifecycle!Stage, Stage
  <2>2. \A j \in Stage \cup {"FAILED"} :
          Lifecycle!Entered(LogOf(log), k)[j] = IF j = k THEN log[j] + 1 ELSE log[j]
    BY <1>3, <2>1 DEF Lifecycle!Entered, LogOf
  <2> QED BY <1>1, <1>2, <2>2 DEF LogOf, Lifecycle!Entered
<1>4. k = "RETRYING" => LogOf(AppendEvent(log, k)) = LogOf(log)
  BY <1>1, <1>2 DEF LogOf
<1>5. AppendEvent(log, k)[k] # log[k]
  BY <1>1 DEF Log
<1> QED BY <1>3, <1>4, <1>5

-------------------------------------------------------------------------------
(***************************************************************************)
(* The writes, with what holds of the row they find.                       *)
(***************************************************************************)
Kept(r, s)    == s = [r EXCEPT !.lease = s.lease, !.next = s.next]
Claims(r, s)  == r.status = "PENDING" /\ ~r.waiting /\ s = Claim(r)
Persists(t, r, s, k) == \E e \in Finished :
  /\ e.id = t /\ Fenced(r, e.row) /\ AsClaimed(r, e.row) /\ OutcomeOK(e)
  /\ s = PersistRow(e, r) /\ k = PersistEvent(e)
Requeues(r, s, k) == LeaseLapsed(r) /\ s = ReclaimLease(r) /\ k = "RETRYING"
TimesOut(r, s, k) == /\ CallbackLapsed(r) /\ s = ReclaimCallback(r)
                     /\ k = FailureEvent(TimeoutStatus(r))
Answers(r, s, k) == \E c \in Row, v \in {"clean", "infected", "error"} :
  /\ CallbackGuard(r) /\ c.retries <= r.retries
  /\ s = ApplyCallback(r, c, v) /\ k = CallbackEvent(c, v)
TriesAgain(r, s, k) == RetryGuard(r) /\ s = ManualRetry(r) /\ k = "RETRYING"

Logs(t, r, s, k) == \/ Persists(t, r, s, k) \/ Requeues(r, s, k)
                    \/ TimesOut(r, s, k) \/ Answers(r, s, k)
                    \/ TriesAgain(r, s, k)

\* What a step does to one task.
Writes(t) ==
  \/ Kept(row[t], row'[t]) /\ events'[t] = events[t]
  \/ t \in table /\ Claims(row[t], row'[t]) /\ events'[t] = events[t]
  \/ \E k \in EventKind :
       /\ Logs(t, row[t], row'[t], k)
       /\ events'[t] = AppendEvent(events[t], k)

-------------------------------------------------------------------------------
(***************************************************************************)
(* Each write of an inserted row is a move of its task.                    *)
(***************************************************************************)
LEMMA SameStages ==
  /\ Lifecycle!Stage = Stage
  /\ \A s \in Stage : Lifecycle!NextStage(s) = NextStage(s)
BY DEF Lifecycle!Stage, Stage, Lifecycle!NextStage, NextStage

LEMMA KeptView ==
  ASSUME NEW r \in Row, NEW s \in Row, NEW log \in Log, Kept(r, s)
  PROVE  View(TRUE, s, log) = View(TRUE, r, log)
<1>1. /\ s.status = r.status /\ s.stage = r.stage /\ s.waiting = r.waiting
      /\ s.retries = r.retries
  BY DEF Kept, Row
<1> QED BY <1>1 DEF View

LEMMA SameTask ==
  ASSUME NEW a \in Task, NEW b \in Task,
         a.status = b.status, a.stage = b.stage, a.waiting = b.waiting,
         a.retries = b.retries, a.log = b.log
  PROVE  a = b
BY DEF Task

\* The states of TaskLifecycle, field by field.
LEMMA ToIs ==
  ASSUME NEW a \in Task, NEW st \in Status
  PROVE  LET b == Lifecycle!To(a, st) IN
           /\ b \in Task /\ b.status = st /\ b.stage = a.stage /\ b.waiting = FALSE
           /\ b.retries = a.retries /\ b.log = a.log
BY DEF Task, Status, Lifecycle!To

LEMMA LoggedIs ==
  ASSUME NEW a \in Task, NEW k \in Stage \cup {"FAILED"}
  PROVE  LET b == Lifecycle!Logged(a, k) IN
           /\ b \in Task /\ b.status = a.status /\ b.stage = a.stage
           /\ b.waiting = a.waiting /\ b.retries = a.retries
           /\ b.log = Lifecycle!Entered(a.log, k)
<1> DEFINE l == Lifecycle!Entered(a.log, k)
<1>1. l \in [Stage \cup {"FAILED"} -> Nat]
  BY DEF Lifecycle!Entered, Task
<1>2. Lifecycle!Logged(a, k) = [a EXCEPT !.log = l]
  BY DEF Lifecycle!Logged
<1> HIDE DEF l
<1>3. LET b == [a EXCEPT !.log = l] IN
        /\ b \in Task /\ b.status = a.status /\ b.stage = a.stage
        /\ b.waiting = a.waiting /\ b.retries = a.retries /\ b.log = l
  BY <1>1 DEF Task
<1> QED BY <1>2, <1>3 DEF l

\* When a task is one of these states.
LEMMA IsTo ==
  ASSUME NEW a \in Task, NEW b \in Task, NEW st \in Status,
         b.status = st, b.stage = a.stage, b.waiting = FALSE,
         b.retries = a.retries, b.log = a.log
  PROVE  b = Lifecycle!To(a, st)
<1> DEFINE c == Lifecycle!To(a, st)
<1>1. /\ c \in Task /\ c.status = st /\ c.stage = a.stage /\ c.waiting = FALSE
      /\ c.retries = a.retries /\ c.log = a.log
  BY ToIs
<1> HIDE DEF c
<1>2. b = c
  BY <1>1, SameTask
<1> QED BY <1>2 DEF c

LEMMA IsLogged ==
  ASSUME NEW a \in Task, NEW b \in Task, NEW st \in Status,
         NEW k \in Stage \cup {"FAILED"},
         b.status = st, b.stage = a.stage, b.waiting = FALSE,
         b.retries = a.retries, b.log = Lifecycle!Entered(a.log, k)
  PROVE  b = Lifecycle!Logged(Lifecycle!To(a, st), k)
<1> DEFINE c == Lifecycle!To(a, st)
           d == Lifecycle!Logged(c, k)
<1>1. /\ c \in Task /\ c.status = st /\ c.stage = a.stage /\ c.waiting = FALSE
      /\ c.retries = a.retries /\ c.log = a.log
  BY ToIs
<1> HIDE DEF c
<1>2. /\ d \in Task /\ d.status = st /\ d.stage = a.stage /\ d.waiting = FALSE
      /\ d.retries = a.retries /\ d.log = Lifecycle!Entered(a.log, k)
  BY <1>1, LoggedIs
<1> HIDE DEF d
<1>3. b = d
  BY <1>2, SameTask
<1> QED BY <1>3 DEF c, d

LEMMA IsPassed ==
  ASSUME NEW a \in Task, NEW b \in Task,
         b.status = "PENDING", b.stage = NextStage(a.stage), b.waiting = FALSE,
         b.retries = a.retries, b.log = Lifecycle!Entered(a.log, a.stage)
  PROVE  b = [Lifecycle!Logged(Lifecycle!To(a, "PENDING"), a.stage) EXCEPT
                !.stage = Lifecycle!NextStage(a.stage)]
<1> DEFINE c == Lifecycle!To(a, "PENDING")
           d == Lifecycle!Logged(c, a.stage)
           n == Lifecycle!NextStage(a.stage)
           f == [d EXCEPT !.stage = n]
<1>0. a.stage \in Stage /\ "PENDING" \in Status
  BY DEF Task, Status
<1>1. /\ c \in Task /\ c.status = "PENDING" /\ c.waiting = FALSE
      /\ c.retries = a.retries /\ c.log = a.log
  BY <1>0, ToIs
<1>2. n = b.stage
  BY <1>0, SameStages
<1> HIDE DEF c, n
<1>3. /\ d \in Task /\ d.status = "PENDING" /\ d.waiting = FALSE
      /\ d.retries = a.retries /\ d.log = Lifecycle!Entered(a.log, a.stage)
  BY <1>0, <1>1, LoggedIs
<1> HIDE DEF d
<1>4. /\ f.status = "PENDING" /\ f.waiting = FALSE /\ f.stage = n
      /\ f.retries = a.retries /\ f.log = Lifecycle!Entered(a.log, a.stage)
  BY <1>3 DEF Task
<1>5. f \in Task
  BY <1>2, <1>3 DEF Task
<1> HIDE DEF f
<1>6. b = f
  BY <1>2, <1>4, <1>5, SameTask
<1> QED BY <1>6 DEF c, d, n, f

LEMMA ClaimMove ==
  ASSUME NEW r \in Row, NEW s \in Row, NEW log \in Log, Claims(r, s)
  PROVE  View(TRUE, s, log) \in Lifecycle!Moves(View(TRUE, r, log))
<1> DEFINE a == View(TRUE, r, log)
           b == View(TRUE, s, log)
<1>1. a \in Task /\ b \in Task /\ "PROCESSING" \in Status
  BY ViewType DEF Status
<1>2. a.status = "PENDING" /\ ~a.waiting
  BY DEF View, Claims, Row
<1>3. /\ b.status = "PROCESSING" /\ b.stage = a.stage /\ b.waiting = FALSE
      /\ b.retries = a.retries /\ b.log = a.log
  BY DEF View, Claims, Claim, Write, Row
<1> HIDE DEF a, b
<1>4. b = Lifecycle!To(a, "PROCESSING")
  BY <1>1, <1>3, IsTo
<1>5. b \in Lifecycle!Moves(a)
  BY <1>2, <1>4 DEF Lifecycle!Moves, Lifecycle!Start, Lifecycle!When
<1> QED BY <1>5 DEF a, b

LEMMA RetryMove ==
  ASSUME NEW r \in Row, NEW s \in Row, NEW log \in Log,
         TriesAgain(r, s, "RETRYING"), ~r.waiting
  PROVE  View(TRUE, s, AppendEvent(log, "RETRYING"))
           \in Lifecycle!Moves(View(TRUE, r, log))
<1> DEFINE new == AppendEvent(log, "RETRYING")
           a == View(TRUE, r, log)
           b == View(TRUE, s, new)
<1>1. new \in Log /\ LogOf(new) = LogOf(log)
  BY LogAppend, EventType DEF EventKind, Log
<1> HIDE DEF new
<1>2. a \in Task /\ b \in Task
  BY <1>1, ViewType
<1>3. /\ a.status = "FAILED" /\ b.status = "PENDING" /\ b.stage = a.stage
      /\ b.waiting = FALSE /\ b.retries = a.retries + 1 /\ b.log = a.log
  BY <1>1 DEF View, TriesAgain, RetryGuard, ManualRetry, Write, Row
<1> HIDE DEF a, b
<1> DEFINE c == Lifecycle!To(a, "PENDING")
           d == [c EXCEPT !.retries = @ + 1]
<1>4. /\ c \in Task /\ c.status = "PENDING" /\ c.stage = a.stage
      /\ c.waiting = FALSE /\ c.retries = a.retries /\ c.log = a.log
  BY <1>2, ToIs DEF Status
<1> HIDE DEF c
<1>5. /\ d \in Task /\ d.status = "PENDING" /\ d.stage = a.stage
      /\ d.waiting = FALSE /\ d.retries = a.retries + 1 /\ d.log = a.log
  BY <1>4 DEF Task
<1>6. b = d
  BY <1>2, <1>3, <1>5, SameTask
<1>7. b \in Lifecycle!Retry(a)
  BY <1>3, <1>6 DEF Lifecycle!Retry, Lifecycle!When, c
<1> QED BY <1>7, Zenon DEF Lifecycle!Moves, a, b, new

LEMMA AwaitMove ==
  ASSUME NEW r \in Row, NEW s \in Row, NEW log \in Log,
         r.status = "PROCESSING", r.stage = "SCAN", s = MarkWaitingCallback(r)
  PROVE  View(TRUE, s, AppendEvent(log, "RETRYING"))
           \in Lifecycle!Moves(View(TRUE, r, log))
<1> DEFINE new == AppendEvent(log, "RETRYING")
           a == View(TRUE, r, log)
           b == View(TRUE, s, new)
           c == [a EXCEPT !.status = "PENDING", !.waiting = TRUE]
<1>1. new \in Log /\ LogOf(new) = LogOf(log)
  BY LogAppend, EventType DEF EventKind, Log
<1> HIDE DEF new
<1>2. a \in Task /\ b \in Task
  BY <1>1, ViewType
<1>3. /\ a.status = "PROCESSING" /\ a.stage = "SCAN"
      /\ b.status = "PENDING" /\ b.stage = a.stage /\ b.waiting = TRUE
      /\ b.retries = a.retries /\ b.log = a.log
  BY <1>1 DEF View, MarkWaitingCallback, Write, Row
<1> HIDE DEF a, b
<1>4. /\ c \in Task /\ c.status = "PENDING" /\ c.stage = a.stage
      /\ c.waiting = TRUE /\ c.retries = a.retries /\ c.log = a.log
  BY <1>2 DEF Task, Status
<1> HIDE DEF c
<1>5. b = c
  BY <1>2, <1>3, <1>4, SameTask
<1>6. b \in Lifecycle!Moves(a)
  BY <1>3, <1>5 DEF Lifecycle!Await, Lifecycle!When, Lifecycle!Moves, c
<1> QED BY <1>6 DEF a, b, new

\* A stage that ends without success: run again, failed or dead.
LEMMA FailureMove ==
  ASSUME NEW r \in Row, NEW s \in Row, NEW log \in Log,
         r.status = "PROCESSING" \/ r.waiting,
         r.stage # "DONE" \/ s.status = "PENDING",
         s.status \in {"PENDING", "FAILED", "DEAD"},
         s.status = "DEAD" => r.retries >= MaxManualRetries,
         s.stage = r.stage, ~s.waiting, s.retries = r.retries
  PROVE  View(TRUE, s, AppendEvent(log, FailureEvent(s.status)))
           \in Lifecycle!Moves(View(TRUE, r, log))
<1> DEFINE k == FailureEvent(s.status)
           new == AppendEvent(log, k)
           a == View(TRUE, r, log)
           b == View(TRUE, s, new)
<1>1. k \in EventKind /\ k = IF s.status = "PENDING" THEN "RETRYING" ELSE "FAILED"
  BY DEF FailureEvent, EventKind
<1> HIDE DEF k
<1>2. /\ new \in Log
      /\ LogOf(new) = IF s.status = "PENDING" THEN LogOf(log)
                      ELSE Lifecycle!Entered(LogOf(log), "FAILED")
  BY <1>1, LogAppend, EventType DEF Log, Lifecycle!LogKind
<1> HIDE DEF new
<1>3. a \in Task /\ b \in Task
  BY <1>2, ViewType
<1>4. a.status = "PROCESSING" \/ a.waiting
  BY DEF View
<1>5. /\ a.stage # "DONE" \/ s.status = "PENDING"
      /\ s.status = "DEAD" => a.retries >= MaxManualRetries
  BY DEF View
<1>6. /\ b.status = s.status /\ b.stage = a.stage /\ b.waiting = FALSE
      /\ b.retries = a.retries
      /\ b.log = IF s.status = "PENDING" THEN a.log
                 ELSE Lifecycle!Entered(a.log, "FAILED")
  BY <1>2 DEF View, Row
<1>7. s.status \in Status /\ "FAILED" \in Stage \cup {"FAILED"}
  BY DEF Row
<1> HIDE DEF a, b
<1>8. CASE s.status = "PENDING"
  <2>1. b = Lifecycle!To(a, "PENDING")
    BY <1>3, <1>6, <1>7, <1>8, IsTo
  <2> QED BY <1>4, <2>1, Zenon DEF Lifecycle!TryAgain, Lifecycle!When,
             Lifecycle!Moves, Lifecycle!Running, a, b, new, k
<1>9. CASE s.status # "PENDING"
  <2>1. b = Lifecycle!Logged(Lifecycle!To(a, s.status), "FAILED")
    BY <1>3, <1>6, <1>7, <1>9, IsLogged
  <2>2. b \in Lifecycle!Fail(a) \cup Lifecycle!Die(a)
    BY <1>4, <1>5, <1>9, <2>1 DEF Lifecycle!Fail, Lifecycle!Die,
       Lifecycle!When, Lifecycle!Running
  <2> QED BY <2>2, Zenon DEF Lifecycle!Moves, a, b, new, k
<1> QED BY <1>8, <1>9

\* A stage that ends with success, by being run or by an answer.
LEMMA PassMove ==
  ASSUME NEW r \in Row, NEW s \in Row, NEW log \in Log,
         r.status = "PROCESSING" \/ r.waiting, r.stage # "DONE",
         s.status = "PENDING", s.stage = NextStage(r.stage),
         ~s.waiting, s.retries = r.retries
  PROVE  View(TRUE, s, AppendEvent(log, r.stage))
           \in Lifecycle!Moves(View(TRUE, r, log))
<1> DEFINE new == AppendEvent(log, r.stage)
           a == View(TRUE, r, log)
           b == View(TRUE, s, new)
<1>1. r.stage \in Stage /\ r.stage \in EventKind
  BY DEF Row, EventKind
<1>2. new \in Log /\ LogOf(new) = Lifecycle!Entered(LogOf(log), r.stage)
  BY <1>1, LogAppend, EventType, SameStages DEF Log, Lifecycle!LogKind
<1> HIDE DEF new
<1>3. a \in Task /\ b \in Task
  BY <1>2, ViewType
<1>4. (a.status = "PROCESSING" \/ a.waiting) /\ a.stage # "DONE"
  BY DEF View
<1>5. /\ b.status = "PENDING" /\ b.stage = NextStage(a.stage)
      /\ b.waiting = FALSE /\ b.retries = a.retries
      /\ b.log = Lifecycle!Entered(a.log, a.stage)
  BY <1>2 DEF View, Row
<1> HIDE DEF a, b
<1>6. b = [Lifecycle!Logged(Lifecycle!To(a, "PENDING"), a.stage) EXCEPT
             !.stage = Lifecycle!NextStage(a.stage)]
  BY <1>3, <1>5, IsPassed
<1>7. b \in Lifecycle!Pass(a)
  BY <1>4, <1>6 DEF Lifecycle!Pass, Lifecycle!When, Lifecycle!Running
<1> QED BY <1>7, Zenon DEF Lifecycle!Moves, a, b, new

LEMMA SucceedMove ==
  ASSUME NEW r \in Row, NEW s \in Row, NEW log \in Log,
         r.status = "PROCESSING", r.stage = "DONE", ~r.waiting,
         s = FinishSuccess(r)
  PROVE  View(TRUE, s, AppendEvent(log, "DONE"))
           \in Lifecycle!Moves(View(TRUE, r, log))
<1> DEFINE new == AppendEvent(log, "DONE")
           a == View(TRUE, r, log)
           b == View(TRUE, s, new)
<1>1. "DONE" \in Stage /\ "DONE" \in EventKind /\ "SUCCEEDED" \in Status
  BY DEF Stage, EventKind, Status
<1>2. new \in Log /\ LogOf(new) = Lifecycle!Entered(LogOf(log), "DONE")
  BY <1>1, LogAppend, EventType, SameStages DEF Log, Lifecycle!LogKind
<1> HIDE DEF new
<1>3. a \in Task /\ b \in Task
  BY <1>2, ViewType
<1>4. /\ a.status = "PROCESSING" /\ a.stage = "DONE"
      /\ b.status = "SUCCEEDED" /\ b.stage = a.stage /\ b.waiting = FALSE
      /\ b.retries = a.retries /\ b.log = Lifecycle!Entered(a.log, "DONE")
  BY <1>2 DEF View, FinishSuccess, Write, Row
<1> HIDE DEF a, b
<1>5. b = Lifecycle!Logged(Lifecycle!To(a, "SUCCEEDED"), "DONE")
  BY <1>1, <1>3, <1>4, IsLogged
<1>6. b \in Lifecycle!Succeed(a)
  BY <1>4, <1>5 DEF Lifecycle!Succeed, Lifecycle!When
<1> QED BY <1>6, Zenon DEF Lifecycle!Moves, a, b, new

LEMMA PersistMove ==
  ASSUME NEW t \in Tasks, NEW r \in Row, NEW s \in Row, NEW log \in Log,
         NEW k \in EventKind, RowOK(t, r), Persists(t, r, s, k)
  PROVE  View(TRUE, s, AppendEvent(log, k)) \in Lifecycle!Moves(View(TRUE, r, log))
<1>1. PICK e \in Finished :
        /\ e.id = t /\ Fenced(r, e.row) /\ AsClaimed(r, e.row) /\ OutcomeOK(e)
        /\ s = PersistRow(e, r) /\ k = PersistEvent(e)
  BY DEF Persists
<1>2. /\ e.row \in Row /\ e.out \in Outcome /\ r.status = "PROCESSING"
      /\ e.row.stage = r.stage /\ r.stage \in Stage /\ e.row.retries = r.retries
  BY <1>1 DEF Finished, Fenced, AsClaimed, Row
<1>3. ~r.waiting
  BY <1>2 DEF RowOK
<1>4. CASE e.out = "error"
  <2>1. r.stage # "DONE"
    BY <1>1, <1>2, <1>4 DEF OutcomeOK, Outcomes
  <2>2. s = FailStage(r, e.row) /\ k = FailureEvent(FailStatus(e.row))
    BY <1>1, <1>2, <1>4, <2>1 DEF PersistRow, PersistEvent
  <2>3. e.row.attempts + 1 \in Nat /\ e.row.retries \in Nat
    BY <1>2 DEF Row
  <2>4. /\ FailStatus(e.row) \in {"PENDING", "FAILED", "DEAD"}
        /\ FailStatus(e.row) = "DEAD" => r.retries >= MaxManualRetries
    BY <1>2, <2>3, AfterFailureType, AfterFailureCases DEF FailStatus
  <2>5. /\ s.status = FailStatus(e.row) /\ s.stage = r.stage
        /\ s.waiting = r.waiting /\ s.retries = r.retries
    BY <2>2 DEF FailStage, Write, Row
  <2> QED BY <1>2, <1>3, <2>1, <2>2, <2>4, <2>5, FailureMove
<1>5. CASE e.out = "accepted"
  <2>1. r.stage = "SCAN"
    BY <1>1, <1>2, <1>5 DEF OutcomeOK, Outcomes
  <2>2. s = MarkWaitingCallback(r) /\ k = "RETRYING"
    BY <1>1, <1>2, <1>5, <2>1 DEF PersistRow, PersistEvent
  <2> QED BY <1>2, <2>1, <2>2, AwaitMove
<1>6. CASE e.out \notin {"error", "accepted"} /\ r.stage = "DONE"
  <2>1. s = FinishSuccess(r) /\ k = "DONE"
    BY <1>1, <1>2, <1>6 DEF PersistRow, PersistEvent
  <2> QED BY <1>2, <1>3, <1>6, <2>1, SucceedMove
<1>7. CASE e.out \notin {"error", "accepted"} /\ r.stage # "DONE"
  <2> DEFINE v == IF e.out = "ok" THEN "none" ELSE e.out
  <2>1. s = CompleteStage(r, e.row, v) /\ k = r.stage
    BY <1>1, <1>2, <1>7 DEF PersistRow, PersistEvent
  <2> HIDE DEF v
  <2>2. /\ s.status = "PENDING" /\ s.stage = NextStage(r.stage)
        /\ s.waiting = r.waiting /\ s.retries = r.retries
    BY <1>2, <2>1 DEF CompleteStage, Write, Row
  <2>3. View(TRUE, s, AppendEvent(log, r.stage)) \in Lifecycle!Moves(View(TRUE, r, log))
    BY <1>2, <1>3, <1>7, <2>2, PassMove
  <2> QED BY <2>1, <2>3
<1> QED BY <1>4, <1>5, <1>6, <1>7

LEMMA RequeueMove ==
  ASSUME NEW t \in Tasks, NEW r \in Row, NEW s \in Row, NEW log \in Log,
         NEW k \in EventKind, RowOK(t, r), Requeues(r, s, k)
  PROVE  View(TRUE, s, AppendEvent(log, k)) \in Lifecycle!Moves(View(TRUE, r, log))
<1>1. r.status = "PROCESSING" /\ ~r.waiting /\ k = "RETRYING"
  BY DEF Requeues, LeaseLapsed, RowOK
<1>2. /\ s.status = "PENDING" /\ s.stage = r.stage /\ s.waiting = r.waiting
      /\ s.retries = r.retries
  BY DEF Requeues, ReclaimLease, Write, Row
<1>3. k = FailureEvent(s.status)
  BY <1>1, <1>2 DEF FailureEvent
<1>4. View(TRUE, s, AppendEvent(log, FailureEvent(s.status)))
        \in Lifecycle!Moves(View(TRUE, r, log))
  BY <1>1, <1>2, FailureMove
<1> QED BY <1>3, <1>4

LEMMA TimeoutMove ==
  ASSUME NEW t \in Tasks, NEW r \in Row, NEW s \in Row, NEW log \in Log,
         NEW k \in EventKind, RowOK(t, r), TimesOut(r, s, k)
  PROVE  View(TRUE, s, AppendEvent(log, k)) \in Lifecycle!Moves(View(TRUE, r, log))
<1> DEFINE st == TimeoutStatus(r)
           f == st # "PENDING"
<1>1. r.waiting /\ r.stage = "SCAN"
  BY DEF TimesOut, CallbackLapsed, RowOK
<1>2. /\ st \in {"PENDING", "FAILED", "DEAD"}
      /\ st = "DEAD" => r.retries >= MaxManualRetries
  BY AfterFailureType, AfterFailureCases DEF TimeoutStatus, Row
<1>3. /\ s = Write([r EXCEPT !.status = st, !.waiting = FALSE, !.lease = "none",
                             !.next = "due", !.error = f])
      /\ k = FailureEvent(st)
  BY DEF TimesOut, ReclaimCallback
<1> HIDE DEF st, f
<1>4. /\ s.status = st /\ s.stage = r.stage /\ ~s.waiting
      /\ s.retries = r.retries
  BY <1>3 DEF Write, Row
<1> QED BY <1>1, <1>2, <1>3, <1>4, FailureMove

LEMMA AnswerMove ==
  ASSUME NEW t \in Tasks, NEW r \in Row, NEW s \in Row, NEW log \in Log,
         NEW k \in EventKind, RowOK(t, r), Answers(r, s, k)
  PROVE  View(TRUE, s, AppendEvent(log, k)) \in Lifecycle!Moves(View(TRUE, r, log))
<1>1. PICK c \in Row, v \in {"clean", "infected", "error"} :
        /\ CallbackGuard(r) /\ c.retries <= r.retries
        /\ s = ApplyCallback(r, c, v) /\ k = CallbackEvent(c, v)
  BY DEF Answers
<1> DEFINE failed == v = "error"
           st == CallbackStatus(c, v)
           sg == IF failed THEN "SCAN" ELSE "DONE"
           a  == IF failed THEN CallbackAttempts(c) ELSE 0
           n  == IF failed /\ st = "PENDING" THEN "future" ELSE "due"
<1>2. r.waiting /\ r.stage = "SCAN"
  BY <1>1 DEF CallbackGuard
<1>3. CallbackAttempts(c) \in Nat
  BY DEF CallbackAttempts, Row
<1>4. /\ st \in {"PENDING", "FAILED", "DEAD"}
      /\ ~failed => st = "PENDING"
      /\ st = "DEAD" => r.retries >= MaxManualRetries
  BY <1>1, <1>3, AfterFailureType, AfterFailureCases, LimitsAssumption
  DEF CallbackStatus, Row
<1>5. s = Write([r EXCEPT !.status = st, !.stage = sg, !.attempts = a,
                          !.waiting = FALSE, !.verdict = v, !.error = failed,
                          !.next = n])
  BY <1>1 DEF ApplyCallback
<1>6. k = IF failed THEN FailureEvent(st) ELSE "SCAN"
  BY <1>1 DEF CallbackEvent
<1>7. sg = IF failed THEN "SCAN" ELSE "DONE"
  OBVIOUS
<1> HIDE DEF failed, st, sg, a, n
<1>8. /\ s.status = st /\ s.stage = sg /\ ~s.waiting /\ s.retries = r.retries
  BY <1>5 DEF Write, Row
<1>9. CASE failed
  BY <1>2, <1>4, <1>6, <1>7, <1>8, <1>9, FailureMove
<1>10. CASE ~failed
  <2>1. s.stage = NextStage(r.stage) /\ s.status = "PENDING" /\ k = r.stage
    BY <1>2, <1>4, <1>6, <1>7, <1>8, <1>10 DEF NextStage
  <2>2. View(TRUE, s, AppendEvent(log, r.stage)) \in Lifecycle!Moves(View(TRUE, r, log))
    BY <1>2, <1>8, <2>1, PassMove
  <2> QED BY <2>1, <2>2
<1> QED BY <1>9, <1>10

LEMMA LoggedMove ==
  ASSUME NEW t \in Tasks, NEW r \in Row, NEW s \in Row, NEW log \in Log,
         NEW k \in EventKind, RowOK(t, r), Logs(t, r, s, k)
  PROVE  View(TRUE, s, AppendEvent(log, k)) \in Lifecycle!Moves(View(TRUE, r, log))
<1>1. CASE TriesAgain(r, s, k)
  <2>1. ~r.waiting /\ k = "RETRYING"
    BY <1>1 DEF TriesAgain, RetryGuard, RowOK
  <2> QED BY <1>1, <2>1, RetryMove
<1> QED BY <1>1, PersistMove, RequeueMove, TimeoutMove, AnswerMove DEF Logs

-------------------------------------------------------------------------------
(***************************************************************************)
(* Every step of FilePipeline is one of these writes, for each task.       *)
(***************************************************************************)
\* What a row and its log hold before CreateTask, and who may hold its id.
Uninserted == \A t \in Tasks \ table : row[t] = NewTask /\ events[t] = NoEvents
Selected   == \A p \in Procs : \A c \in candidates[p] : c.id \in table
Inserted   == Uninserted /\ Selected

LEMMA CommitWrites ==
  ASSUME TypeOK, NEW t \in Tasks, NEW u \in Tasks, NEW s, NEW k \in EventKind,
         Commit(u, s, k), Logs(u, row[u], s, k)
  PROVE  Writes(t)
<1>1. CASE t = u
  <2>1. row'[t] = s /\ events'[t] = AppendEvent(events[t], k)
    BY <1>1 DEF Commit, TypeOK
  <2> QED BY <1>1, <2>1 DEF Writes
<1>2. CASE t # u
  <2>1. row'[t] = row[t] /\ events'[t] = events[t] /\ row[t] \in Row
    BY <1>2, CommitElsewhere DEF TypeOK
  <2>2. Kept(row[t], row'[t])
    BY <2>1 DEF Kept, Row
  <2> QED BY <2>1, <2>2 DEF Writes
<1> QED BY <1>1, <1>2

LEMMA IdleWrites ==
  ASSUME TypeOK, NEW t \in Tasks, row'[t] = row[t], events'[t] = events[t]
  PROVE  Writes(t)
<1>1. Kept(row[t], row'[t])
  BY DEF Kept, TypeOK, Row
<1> QED BY <1>1 DEF Writes

LEMMA WriteStep ==
  ASSUME IInv, Inserted, [Next]_vars, NEW t \in Tasks
  PROVE  Writes(t)
<1>1. TypeOK /\ row[t] \in Row /\ RowOK(t, row[t])
  BY DEF IInv, RowsOK, TypeOK
<1>2. ASSUME NEW p \in Procs, ClaimPending(p) PROVE Writes(t)
  <2> PICK c \in candidates[p] : ClaimPending(p)!(c)
    BY <1>2 DEF ClaimPending
  <2>1. events'[t] = events[t]
    OBVIOUS
  <2>2. c.id \in table /\ CandidateOK(c) /\ c \in Copy
    BY DEF Inserted, Selected, IInv, CandidatesOK, TypeOK
  <2>3. CASE c.id = t /\ ClaimGuard(row[c.id], c.row) /\ row' = [row EXCEPT ![c.id] = Claim(@)]
    <3>1. row'[t] = Claim(row[t]) /\ row[t] = c.row
      BY <1>1, <2>2, <2>3 DEF TypeOK, CandidateOK, ClaimGuard, Current
    <3>2. Claims(row[t], row'[t])
      BY <2>2, <3>1 DEF Claims, CandidateOK, Claimable
    <3> QED BY <2>1, <2>2, <2>3, <3>2 DEF Writes
  <2>4. CASE row'[t] = row[t]
    BY <1>1, <2>1, <2>4, IdleWrites
  <2> QED BY <1>1, <2>2, <2>3, <2>4 DEF TypeOK, Copy
<1>3. ASSUME NEW p \in Procs, Process(p) PROVE Writes(t)
  <2> PICK e \in executed[p] : Process(p)!(e)
    BY <1>3 DEF Process
  <2> DEFINE c == [id |-> e.id, row |-> e.row]
             s == PersistRow(e, row[e.id])
             k == PersistEvent(e)
  <2>1. CASE UNCHANGED database
    BY <1>1, <2>1, IdleWrites DEF database
  <2>2. CASE Fenced(row[e.id], e.row) /\ Commit(e.id, s, k)
    <3>1. e \in Finished /\ e.id \in Tasks /\ OutcomeOK(e) /\ ClaimOK(c)
      BY DEF IInv, TypeOK, OutcomesOK, ClaimsOK, Holding, Finished
    <3>2. AsClaimed(row[e.id], e.row)
      BY <2>2, <3>1 DEF ClaimOK, Fenced, Current
    <3>3. Logs(e.id, row[e.id], s, k)
      BY <2>2, <3>1, <3>2 DEF Logs, Persists
    <3>4. k \in EventKind
      BY <1>1, <3>1, PersistType DEF TypeOK
    <3> QED BY <1>1, <2>2, <3>1, <3>3, <3>4, CommitWrites
  <2> QED BY <2>1, <2>2
<1>4. ASSUME RequeueExpired PROVE Writes(t)
  <2>1. CASE t \in Expired
    <3>1. Requeues(row[t], row'[t], "RETRYING")
      BY <1>4, <2>1 DEF RequeueExpired, Expired, Requeues
    <3>2. events'[t] = AppendEvent(events[t], "RETRYING") /\ "RETRYING" \in EventKind
      BY <1>4, <2>1 DEF RequeueExpired, EventKind
    <3> QED BY <3>1, <3>2 DEF Writes, Logs
  <2>2. CASE t \notin Expired
    BY <1>1, <1>4, <2>2, IdleWrites DEF RequeueExpired
  <2> QED BY <2>1, <2>2
<1>5. ASSUME NEW p \in Procs, ReclaimCallbackTimeouts(p) PROVE Writes(t)
  <2> DEFINE k == FailureEvent(TimeoutStatus(row[t]))
  <2>1. CASE t \in TimedOut
    <3>1. TimesOut(row[t], row'[t], k)
      BY <1>5, <2>1 DEF ReclaimCallbackTimeouts, TimedOut, TimesOut
    <3>2. events'[t] = AppendEvent(events[t], k) /\ k \in EventKind
      BY <1>5, <2>1 DEF ReclaimCallbackTimeouts, EventKind, FailureEvent
    <3> QED BY <3>1, <3>2 DEF Writes, Logs
  <2>2. CASE t \notin TimedOut
    BY <1>1, <1>5, <2>2, IdleWrites DEF ReclaimCallbackTimeouts
  <2> QED BY <2>1, <2>2
<1>6. ASSUME NEW p \in Procs, WorkerStep(p) PROVE Writes(t)
  <2>1. CASE \/ SelectPending(p) \/ ClaimError(p) \/ Dispatch(p) \/ Execute(p)
             \/ ProcessError(p) \/ Crash(p)
    BY <1>1, <2>1, IdleWrites
    DEF SelectPending, ClaimError, Dispatch, Execute, ProcessError, Crash, database
  <2>2. CASE ReclaimExpired(p) \/ Restart(p)
    BY <1>4, <2>2 DEF ReclaimExpired, Restart
  <2> QED BY <1>2, <1>3, <1>5, <1>6, <2>1, <2>2 DEF WorkerStep
<1>7. ASSUME NEW u \in Tasks, LeaseExpires(u) \/ NextRunComes(u) PROVE Writes(t)
  <2>1. events'[t] = events[t]
    BY <1>7 DEF LeaseExpires, NextRunComes
  <2>2. CASE t = u
    <3>1. \/ row'[t] = [row[t] EXCEPT !.lease = "expired"]
          \/ row'[t] = [row[t] EXCEPT !.next = "due"]
      BY <1>1, <1>7, <2>2 DEF LeaseExpires, NextRunComes, TypeOK
    <3>2. Kept(row[t], row'[t])
      BY <1>1, <3>1 DEF Kept, Row
    <3> QED BY <2>1, <3>2 DEF Writes
  <2>3. CASE t # u
    BY <1>1, <1>7, <2>1, <2>3, IdleWrites DEF LeaseExpires, NextRunComes, TypeOK
  <2> QED BY <2>2, <2>3
<1>8. ASSUME ScanCallback PROVE Writes(t)
  <2> PICK k \in callbacks : ScanCallback!(k)
    BY <1>8 DEF ScanCallback
  <2> DEFINE s == ApplyCallback(row[k.id], k.row, k.verdict)
             ev == CallbackEvent(k.row, k.verdict)
  <2>1. CASE UNCHANGED database
    BY <1>1, <2>1, IdleWrites DEF database
  <2>2. CASE CallbackGuard(row[k.id]) /\ Commit(k.id, s, ev)
    <3>1. /\ k.id \in Tasks /\ k.row \in Row
          /\ k.verdict \in {"clean", "infected", "error"} /\ CallbackOK(k)
      BY DEF IInv, TypeOK, CallbacksOK, Request
    <3>2. Answers(row[k.id], s, ev)
      BY <2>2, <3>1 DEF Answers, CallbackOK
    <3>3. ev \in EventKind
      BY DEF CallbackEvent, FailureEvent, EventKind, Stage
    <3> QED BY <1>1, <2>2, <3>1, <3>2, <3>3, CommitWrites DEF Logs
  <2> QED BY <2>1, <2>2
<1>9. ASSUME RetryTask PROVE Writes(t)
  <2> PICK k \in retrying : RetryTask!(k)
    BY <1>9 DEF RetryTask
  <2>1. CASE UNCHANGED database
    BY <1>1, <2>1, IdleWrites DEF database
  <2>2. CASE RetryGuard(row[k.id]) /\ Commit(k.id, ManualRetry(row[k.id]), "RETRYING")
    <3>1. k.id \in Tasks /\ "RETRYING" \in EventKind
      BY DEF IInv, TypeOK, RetryCall, EventKind
    <3>2. TriesAgain(row[k.id], ManualRetry(row[k.id]), "RETRYING")
      BY <2>2 DEF TriesAgain
    <3> QED BY <1>1, <2>2, <3>1, <3>2, CommitWrites DEF Logs
  <2> QED BY <2>1, <2>2
<1>10. ASSUME \/ \E u \in Tasks : CreateTask(u)
              \/ \E q \in Callbacks : ReadForCallback(q)
              \/ \E q \in Retries : ReadForRetry(q)
              \/ UNCHANGED vars
       PROVE  Writes(t)
  BY <1>1, <1>10, IdleWrites
  DEF CreateTask, ReadForCallback, ReadForRetry, vars, database
<1> QED BY <1>6, <1>7, <1>8, <1>9, <1>10 DEF Next

LEMMA TableGrows ==
  ASSUME [Next]_vars
  PROVE  /\ table \subseteq table'
         /\ \A t \in table' \ table : row'[t] = row[t] /\ events'[t] = events[t]
<1>1. ASSUME NEW p \in Procs, WorkerStep(p) PROVE table' = table
  BY <1>1 DEF WorkerStep, SelectPending, ClaimPending, ClaimError, Dispatch, Execute,
     Process, ProcessError, ReclaimExpired, ReclaimCallbackTimeouts, Crash, Restart,
     RequeueExpired, Commit, database
<1>2. ASSUME NEW u \in Tasks, CreateTask(u)
      PROVE  row' = row /\ events' = events /\ table' = table \cup {u}
  BY <1>2 DEF CreateTask
<1>3. ASSUME NEW u \in Tasks, LeaseExpires(u) \/ NextRunComes(u) PROVE table' = table
  BY <1>3 DEF LeaseExpires, NextRunComes
<1>4. ASSUME \/ \E q \in Callbacks : ReadForCallback(q)
             \/ \E q \in Retries : ReadForRetry(q)
             \/ ScanCallback \/ RetryTask \/ UNCHANGED vars
      PROVE  table' = table
  BY <1>4 DEF ReadForCallback, ReadForRetry, ScanCallback, RetryTask, Commit, vars,
     database
<1> QED BY <1>1, <1>2, <1>3, <1>4 DEF Next

LEMMA UninsertedStays ==
  ASSUME IInv, Inserted, [Next]_vars, NEW t \in Tasks \ table
  PROVE  row'[t] = NewTask /\ events'[t] = NoEvents
<1>1. /\ row[t] = NewTask /\ events[t] = NoEvents
      /\ row[t] \in Row /\ row'[t] \in Row /\ Evolves(row[t], row'[t])
  BY TypeStep, SafetyStep DEF Inserted, Uninserted, IInv, TypeOK, AllEvolve
<1>2. ASSUME NEW k \in EventKind, Logs(t, row[t], row'[t], k) PROVE FALSE
  <2>1. NewTask.status = "PENDING" /\ ~NewTask.waiting
    BY DEF NewTask
  <2> QED BY <1>1, <1>2, <2>1 DEF Logs, Persists, Fenced, Requeues, LeaseLapsed,
             TimesOut, CallbackLapsed, Answers, CallbackGuard, TriesAgain, RetryGuard
<1>3. Kept(row[t], row'[t]) /\ events'[t] = events[t]
  BY <1>2, WriteStep DEF Writes
<1>4. row'[t].version = row[t].version
  BY <1>1, <1>3 DEF Kept, Row
<1>5. row[t].lease = "none" /\ row[t].next = "due"
  BY <1>1 DEF NewTask
<1>6. row'[t] = row[t]
  BY <1>1, <1>4, <1>5, EvolvesFixed
<1> QED BY <1>1, <1>3, <1>6

LEMMA SelectedStays ==
  ASSUME IInv, Inserted, [Next]_vars PROVE Selected'
<1>1. table \subseteq table'
  BY TableGrows
<1>2. ASSUME NEW p \in Procs, SelectPending(p) PROVE Selected'
  <2> PICK S \in SUBSET Due : candidates' =
        [candidates EXCEPT ![p] = {[id |-> t, row |-> row[t]] : t \in S}]
    BY <1>2 DEF SelectPending
  <2> SUFFICES ASSUME NEW q \in Procs, NEW c \in candidates'[q] PROVE c.id \in table'
    BY DEF Selected
  <2>1. c \in candidates[q] \/ \E t \in S : c = [id |-> t, row |-> row[t]]
    BY DEF IInv, TypeOK
  <2>2. \A t \in S : t \in table
    BY DEF Due
  <2> QED BY <1>1, <2>1, <2>2 DEF Inserted, Selected
<1>3. ASSUME \A p \in Procs : candidates'[p] \subseteq candidates[p] PROVE Selected'
  BY <1>1, <1>3 DEF Inserted, Selected
<1>4. ASSUME NEW p \in Procs, ~SelectPending(p), WorkerStep(p) PROVE Selected'
  BY <1>3, <1>4 DEF WorkerStep, ClaimPending, ClaimError, Dispatch, Execute, Process,
     ProcessError, ReclaimExpired, ReclaimCallbackTimeouts, Crash, Restart, memory,
     IInv, TypeOK
<1>5. ASSUME \/ \E t \in Tasks : CreateTask(t) \/ LeaseExpires(t) \/ NextRunComes(t)
             \/ \E q \in Callbacks : ReadForCallback(q)
             \/ \E q \in Retries : ReadForRetry(q)
             \/ ScanCallback \/ RetryTask \/ UNCHANGED vars
      PROVE  candidates' = candidates
  BY <1>5 DEF CreateTask, LeaseExpires, NextRunComes, ReadForCallback, ReadForRetry,
     ScanCallback, RetryTask, vars, memory
<1> QED BY <1>2, <1>3, <1>4, <1>5 DEF Next

LEMMA InsertedStep == IInv /\ Inserted /\ [Next]_vars => Inserted'
<1> SUFFICES ASSUME IInv, Inserted, [Next]_vars PROVE Inserted'
  OBVIOUS
<1>1. Uninserted'
  BY TableGrows, UninsertedStays DEF Uninserted
<1> QED BY <1>1, SelectedStays DEF Inserted

LEMMA InsertedInit == Init => Inserted
BY DEF Init, Inserted, Uninserted, Selected

-------------------------------------------------------------------------------
(***************************************************************************)
(* The refinement.                                                         *)
(***************************************************************************)
LEMMA ViewsAre ==
  [t \in Tasks |-> ViewOf(t)] =
    [t \in Tasks |->
      [status  |-> IF t \in table THEN row[t].status ELSE "ABSENT",
       stage   |-> row[t].stage,
       waiting |-> row[t].waiting,
       retries |-> row[t].retries,
       log     |-> [k \in Stage \cup {"FAILED"} |-> events[t][k]]]]
BY DEF ViewOf, View, LogOf

LEMMA NewView == View(FALSE, NewTask, NoEvents) = Lifecycle!Absent
BY DEF View, LogOf, NewTask, NoEvents, EventKind, Stage, Lifecycle!Absent,
   Lifecycle!LogKind, Lifecycle!Stage

\* CreateTask is Upload.
LEMMA UploadMove ==
  View(TRUE, NewTask, NoEvents) \in Lifecycle!Moves(Lifecycle!Absent)
<1> DEFINE a == View(FALSE, NewTask, NoEvents)
           b == View(TRUE, NewTask, NoEvents)
<1>1. NewTask \in Row /\ NoEvents \in Log /\ "PENDING" \in Status
  BY DEF NewTask, Row, Status, Stage, Verdict, NoEvents, Log
<1>2. a \in Task /\ b \in Task
  BY <1>1, ViewType
<1>3. /\ b.status = "PENDING" /\ b.stage = a.stage /\ b.waiting = FALSE
      /\ b.retries = a.retries /\ b.log = a.log
  BY DEF View, NewTask
<1> HIDE DEF a, b
<1>4. b = Lifecycle!To(a, "PENDING")
  BY <1>1, <1>2, <1>3, IsTo
<1>5. a = Lifecycle!Absent
  BY NewView DEF a
<1>6. b \in Lifecycle!Upload(Lifecycle!Absent)
  BY <1>4, <1>5 DEF Lifecycle!Upload, Lifecycle!When
<1> QED BY <1>6, Zenon DEF Lifecycle!Moves, b

LEMMA MoveStep ==
  ASSUME IInv, Inserted, [Next]_vars, NEW t \in Tasks
  PROVE  ViewOf(t)' \in {ViewOf(t)} \cup Lifecycle!Moves(ViewOf(t))
<1>1. /\ row[t] \in Row /\ row'[t] \in Row /\ RowOK(t, row[t])
      /\ events[t] \in Log /\ events'[t] \in Log
  BY TypeStep DEF IInv, RowsOK, TypeOK, Log
<1>2. ViewOf(t)' = View(t \in table', row'[t], events'[t])
  BY DEF ViewOf, View
<1>3. CASE t \in table
  <2>0. t \in table'
    BY <1>3, TableGrows
  <2> DEFINE a == View(TRUE, row[t], events[t])
             b == View(TRUE, row'[t], events'[t])
  <2>1. ViewOf(t) = a /\ ViewOf(t)' = b
    BY <1>2, <1>3, <2>0 DEF ViewOf, View
  <2>2. CASE Kept(row[t], row'[t]) /\ events'[t] = events[t]
    <3>1. View(TRUE, row'[t], events[t]) = a
      BY <1>1, <2>2, KeptView
    <3>2. b = a
      BY <2>2, <3>1
    <3> QED BY <2>1, <3>2, Zenon
  <2>3. CASE Claims(row[t], row'[t]) /\ events'[t] = events[t]
    <3>1. b \in Lifecycle!Moves(a)
      BY <1>1, <2>3, ClaimMove
    <3> QED BY <2>1, <3>1, Zenon
  <2>4. ASSUME NEW k \in EventKind, Logs(t, row[t], row'[t], k),
               events'[t] = AppendEvent(events[t], k)
        PROVE  ViewOf(t)' \in {ViewOf(t)} \cup Lifecycle!Moves(ViewOf(t))
    <3>1. View(TRUE, row'[t], AppendEvent(events[t], k)) \in Lifecycle!Moves(a)
      BY <1>1, <2>4, LoggedMove
    <3>2. b \in Lifecycle!Moves(a)
      BY <2>4, <3>1
    <3> QED BY <2>1, <3>2, Zenon
  <2> QED BY <2>2, <2>3, <2>4, WriteStep DEF Writes
<1>4. CASE t \notin table
  <2>1. /\ row[t] = NewTask /\ events[t] = NoEvents
        /\ row'[t] = NewTask /\ events'[t] = NoEvents
    BY <1>4, UninsertedStays DEF Inserted, Uninserted
  <2>2. ViewOf(t) = Lifecycle!Absent
    BY <1>4, <2>1, NewView DEF ViewOf, View
  <2>3. CASE t \in table'
    <3>1. ViewOf(t)' = View(TRUE, NewTask, NoEvents)
      BY <1>2, <2>1, <2>3 DEF View
    <3> QED BY <2>2, <3>1, UploadMove, Zenon
  <2>4. CASE t \notin table'
    <3>1. ViewOf(t)' = View(FALSE, NewTask, NoEvents)
      BY <1>2, <2>1, <2>4 DEF View
    <3> QED BY <2>2, <3>1, NewView, Zenon
  <2> QED BY <2>3, <2>4
<1> QED BY <1>3, <1>4

LEMMA RefinesInit == Init => Lifecycle!Init
<1> SUFFICES ASSUME Init PROVE [t \in Tasks |-> ViewOf(t)] = [t \in Tasks |-> Lifecycle!Absent]
  BY ViewsAre DEF Lifecycle!Init
<1>1. ASSUME NEW t \in Tasks PROVE ViewOf(t) = Lifecycle!Absent
  <2>1. row[t] = NewTask /\ events[t] = NoEvents /\ t \notin table
    BY DEF Init
  <2> QED BY <2>1, NewView DEF ViewOf, View
<1> QED BY <1>1

LEMMA RefinesNext == IInv /\ Inserted /\ [Next]_vars => Lifecycle!Next
<1> SUFFICES ASSUME IInv, Inserted, [Next]_vars PROVE Lifecycle!Next
  OBVIOUS
<1>1. ASSUME NEW t \in Tasks
      PROVE  ViewOf(t)' \in {ViewOf(t)} \cup Lifecycle!Moves(ViewOf(t))
  BY MoveStep
<1>2. \A t \in Tasks : ViewOf(t)' \in {ViewOf(t)} \cup Lifecycle!Moves(ViewOf(t))
  BY <1>1
<1> QED BY <1>2, Zenon DEF Lifecycle!Next, ViewOf, View, LogOf

\* The pipeline, with whatever many processes, stale handlers, crashes and
\* reclaims, shows each task as TaskLifecycle promises.
THEOREM PipelineIsLifecycle == Spec => LifecycleSpec
<1>1. Init => IInv /\ Inserted
  BY SafetyInit, InsertedInit
<1>2. IInv /\ Inserted /\ [Next]_vars => (IInv /\ Inserted)'
  BY SafetyStep, InsertedStep
<1> QED BY <1>1, <1>2, RefinesInit, RefinesNext, PTL
        DEF Spec, LifecycleSpec, Lifecycle!Spec

-------------------------------------------------------------------------------
(***************************************************************************)
(* The accounts of the log, which every move of a task keeps.              *)
(***************************************************************************)
Ended(a)    == a.status \in {"FAILED", "DEAD"}
Accounts(a) ==
  /\ \A s \in Stage : a.log[s] = IF s \in Passed(a) THEN 1 ELSE 0
  /\ a.log["FAILED"] = a.retries + (IF Ended(a) THEN 1 ELSE 0)
  /\ a.status = "SUCCEEDED" => a.stage = "DONE"
  /\ a.waiting => a.status = "PENDING"

\* Passed, as a relation of stages.
Order(s, t) == \/ s = "VALIDATE" /\ t # "VALIDATE"
               \/ s = "EXTRACT" /\ t \in {"SCAN", "DONE"}
               \/ s = "SCAN" /\ t = "DONE"
LEMMA PassedIs ==
  ASSUME NEW a, a.stage \in Stage, a.status = "SUCCEEDED" => a.stage = "DONE",
         NEW s \in Stage
  PROVE  s \in Passed(a) <=> Order(s, a.stage) \/ (s = "DONE" /\ a.status = "SUCCEEDED")
BY DEF Passed, Order, Stage

LEMMA LogIs ==
  ASSUME NEW a \in Task, NEW k \in Stage \cup {"FAILED"}, NEW j \in Stage \cup {"FAILED"}
  PROVE  Lifecycle!Entered(a.log, k)[j] = IF j = k THEN a.log[j] + 1 ELSE a.log[j]
BY DEF Lifecycle!Entered, Task

\* A move that passes no stage and ends nothing.
LEMMA QuietKeeps ==
  ASSUME NEW a \in Task, NEW b \in Task, Accounts(a),
         b.stage = a.stage, b.retries = a.retries, b.log = a.log,
         a.status \notin {"SUCCEEDED", "FAILED", "DEAD"},
         b.status \notin {"SUCCEEDED", "FAILED", "DEAD"},
         b.waiting => b.status = "PENDING"
  PROVE  Accounts(b)
<1>1. a.stage \in Stage /\ b.stage \in Stage
  BY DEF Task
<1>2. \A s \in Stage : b.log[s] = IF s \in Passed(b) THEN 1 ELSE 0
  BY <1>1, PassedIs DEF Accounts
<1>3. b.log["FAILED"] = b.retries + (IF Ended(b) THEN 1 ELSE 0)
  BY DEF Accounts, Ended
<1> QED BY <1>2, <1>3 DEF Accounts

\* A move that enters one event.
LEMMA EntryKeeps ==
  ASSUME NEW a \in Task, NEW b \in Task, NEW k \in Stage \cup {"FAILED"}, Accounts(a),
         b.log = Lifecycle!Entered(a.log, k), b.retries = a.retries, ~b.waiting,
         ~Ended(a), a.status # "SUCCEEDED",
         \/ k = a.stage /\ k # "DONE" /\ b.stage = NextStage(a.stage) /\ b.status = "PENDING"
         \/ k = a.stage /\ k = "DONE" /\ b.stage = a.stage /\ b.status = "SUCCEEDED"
         \/ k = "FAILED" /\ b.stage = a.stage /\ b.status \in {"FAILED", "DEAD"}
  PROVE  Accounts(b)
<1>1. a.stage \in Stage /\ b.stage \in Stage /\ "FAILED" \notin Stage
  BY DEF Task, Stage
<1>2. ASSUME NEW s \in Stage PROVE b.log[s] = IF s \in Passed(b) THEN 1 ELSE 0
  <2>1. b.log[s] = IF s = k THEN a.log[s] + 1 ELSE a.log[s]
    BY LogIs
  <2>2. a.log[s] = IF s \in Passed(a) THEN 1 ELSE 0
    BY DEF Accounts
  <2>3. s \in Passed(a) <=> Order(s, a.stage)
    BY <1>1, PassedIs DEF Accounts
  <2>4. s \in Passed(b) <=> Order(s, b.stage) \/ (s = "DONE" /\ b.status = "SUCCEEDED")
    BY <1>1, PassedIs
  <2>5. s \in Passed(b) <=> s \in Passed(a) \/ s = k
    BY <1>1, <2>3, <2>4 DEF Order, NextStage, Stage
  <2>6. s = k => s \notin Passed(a)
    BY <1>1, <2>3 DEF Order, Stage
  <2> QED BY <2>1, <2>2, <2>5, <2>6
<1>3. b.log["FAILED"] = b.retries + (IF Ended(b) THEN 1 ELSE 0)
  <2>1. b.log["FAILED"] = IF "FAILED" = k THEN a.log["FAILED"] + 1 ELSE a.log["FAILED"]
    BY LogIs
  <2>2. a.log["FAILED"] = a.retries /\ a.retries \in Nat
    BY DEF Accounts, Task
  <2>3. Ended(b) <=> k = "FAILED"
    BY <1>1 DEF Ended
  <2> QED BY <2>1, <2>2, <2>3
<1>4. b.status = "SUCCEEDED" => b.stage = "DONE"
  OBVIOUS
<1> QED BY <1>2, <1>3, <1>4 DEF Accounts

LEMMA MoveKeepsAccounts ==
  ASSUME NEW a \in Task, NEW b \in Task, Accounts(a), b \in Lifecycle!Moves(a)
  PROVE  Accounts(b)
<1>1. /\ {"PENDING", "PROCESSING", "FAILED", "DEAD", "SUCCEEDED"} \subseteq Status
      /\ a.stage \in Stage
      /\ a.waiting => a.status = "PENDING"
  BY DEF Status, Task, Accounts
<1>2. ASSUME NEW st \in {"PENDING", "PROCESSING"}, b = Lifecycle!To(a, st),
             a.status \notin {"SUCCEEDED", "FAILED", "DEAD"}
      PROVE  Accounts(b)
  <2>1. /\ b.status = st /\ b.stage = a.stage /\ b.waiting = FALSE
        /\ b.retries = a.retries /\ b.log = a.log
    <3>1. st \in Status
      BY <1>1
    <3> QED BY <1>2, <3>1, ToIs
  <2> QED BY <1>2, <2>1, QuietKeeps
<1>3. ASSUME NEW st \in Status, NEW k \in Stage \cup {"FAILED"},
             b = Lifecycle!Logged(Lifecycle!To(a, st), k)
      PROVE  /\ b.status = st /\ b.stage = a.stage /\ ~b.waiting
             /\ b.retries = a.retries /\ b.log = Lifecycle!Entered(a.log, k)
  <2> DEFINE c == Lifecycle!To(a, st)
  <2>1. /\ c \in Task /\ c.status = st /\ c.stage = a.stage /\ c.waiting = FALSE
        /\ c.retries = a.retries /\ c.log = a.log
    BY ToIs
  <2> HIDE DEF c
  <2>2. b = Lifecycle!Logged(c, k)
    BY <1>3 DEF c
  <2> QED BY <2>1, <2>2, LoggedIs
<1>4. CASE b \in Lifecycle!Upload(a)
  <2>1. b = Lifecycle!To(a, "PENDING") /\ a = Lifecycle!Absent
    BY <1>4 DEF Lifecycle!Upload, Lifecycle!When
  <2>2. a.status \notin {"SUCCEEDED", "FAILED", "DEAD"}
    BY <2>1 DEF Lifecycle!Absent
  <2> QED BY <1>2, <2>1, <2>2
<1>5. CASE b \in Lifecycle!Start(a)
  BY <1>2, <1>5 DEF Lifecycle!Start, Lifecycle!When
<1>6. CASE b \in Lifecycle!TryAgain(a)
  BY <1>1, <1>2, <1>6 DEF Lifecycle!TryAgain, Lifecycle!When, Lifecycle!Running
<1>7. CASE b \in Lifecycle!Await(a)
  <2>1. /\ b = [a EXCEPT !.status = "PENDING", !.waiting = TRUE]
        /\ a.status = "PROCESSING"
    BY <1>7 DEF Lifecycle!Await, Lifecycle!When
  <2>2. /\ b.status = "PENDING" /\ b.stage = a.stage /\ b.retries = a.retries
        /\ b.log = a.log
    BY <2>1 DEF Task
  <2> QED BY <2>1, <2>2, QuietKeeps
<1>8. CASE b \in Lifecycle!Pass(a)
  <2> DEFINE c == Lifecycle!Logged(Lifecycle!To(a, "PENDING"), a.stage)
             d == Lifecycle!To(a, "PENDING")
  <2>1. /\ b = [c EXCEPT !.stage = Lifecycle!NextStage(a.stage)]
        /\ a.stage # "DONE" /\ (a.status = "PROCESSING" \/ a.waiting)
    BY <1>8 DEF Lifecycle!Pass, Lifecycle!When, Lifecycle!Running
  <2>2. d \in Task /\ d.status = "PENDING" /\ d.waiting = FALSE
        /\ d.retries = a.retries /\ d.log = a.log
    BY <1>1, ToIs
  <2> HIDE DEF d
  <2>3. /\ c \in Task /\ c.status = "PENDING" /\ c.waiting = FALSE
        /\ c.retries = a.retries /\ c.log = Lifecycle!Entered(a.log, a.stage)
    BY <1>1, <2>2, LoggedIs DEF d
  <2> HIDE DEF c
  <2>4. /\ b.status = "PENDING" /\ b.stage = Lifecycle!NextStage(a.stage)
        /\ b.waiting = FALSE /\ b.retries = a.retries
        /\ b.log = Lifecycle!Entered(a.log, a.stage)
    BY <2>1, <2>3 DEF Task
  <2>5. b.stage = NextStage(a.stage)
    BY <1>1, <2>4, SameStages
  <2> QED BY <1>1, <2>1, <2>4, <2>5, EntryKeeps DEF Ended
<1>9. CASE b \in Lifecycle!Fail(a) \cup Lifecycle!Die(a)
  <2>1. PICK st \in {"FAILED", "DEAD"} :
          /\ b = Lifecycle!Logged(Lifecycle!To(a, st), "FAILED")
          /\ a.status = "PROCESSING" \/ a.waiting
    BY <1>9 DEF Lifecycle!Fail, Lifecycle!Die, Lifecycle!When, Lifecycle!Running
  <2>2. /\ b.status = st /\ b.stage = a.stage /\ ~b.waiting
        /\ b.retries = a.retries /\ b.log = Lifecycle!Entered(a.log, "FAILED")
    BY <1>1, <1>3, <2>1
  <2> QED BY <1>1, <2>1, <2>2, EntryKeeps DEF Ended
<1>10. CASE b \in Lifecycle!Succeed(a)
  <2>1. /\ b = Lifecycle!Logged(Lifecycle!To(a, "SUCCEEDED"), "DONE")
        /\ a.status = "PROCESSING" /\ a.stage = "DONE"
    BY <1>10 DEF Lifecycle!Succeed, Lifecycle!When
  <2>2. /\ b.status = "SUCCEEDED" /\ b.stage = a.stage /\ ~b.waiting
        /\ b.retries = a.retries /\ b.log = Lifecycle!Entered(a.log, "DONE")
    BY <1>1, <1>3, <2>1
  <2> QED BY <1>1, <2>1, <2>2, EntryKeeps DEF Ended
<1>11. CASE b \in Lifecycle!Retry(a)
  <2> DEFINE c == Lifecycle!To(a, "PENDING")
  <2>1. b = [c EXCEPT !.retries = @ + 1] /\ a.status = "FAILED"
    BY <1>11 DEF Lifecycle!Retry, Lifecycle!When
  <2>2. /\ c \in Task /\ c.status = "PENDING" /\ c.stage = a.stage
        /\ c.waiting = FALSE /\ c.retries = a.retries /\ c.log = a.log
    BY <1>1, ToIs
  <2> HIDE DEF c
  <2>3. /\ b.status = "PENDING" /\ b.stage = a.stage /\ b.waiting = FALSE
        /\ b.retries = a.retries + 1 /\ b.log = a.log
    BY <2>1, <2>2 DEF Task
  <2>4. ASSUME NEW s \in Stage PROVE b.log[s] = IF s \in Passed(b) THEN 1 ELSE 0
    <3>1. s \in Passed(b) <=> s \in Passed(a)
      BY <1>1, <2>1, <2>3, PassedIs
    <3> QED BY <2>3, <3>1 DEF Accounts
  <2>5. b.log["FAILED"] = b.retries /\ b.retries \in Nat
    BY <2>1, <2>3 DEF Accounts, Ended, Task
  <2> QED BY <2>3, <2>4, <2>5 DEF Accounts, Ended
<1> QED BY <1>4, <1>5, <1>6, <1>7, <1>8, <1>9, <1>10, <1>11, Zenon DEF Lifecycle!Moves

Accounted == \A t \in Tasks : Accounts(ViewOf(t))

LEMMA AccountedInit == Init => Accounted
<1> SUFFICES ASSUME Init, NEW t \in Tasks PROVE Accounts(ViewOf(t))
  BY DEF Accounted
<1>1. ViewOf(t) = View(FALSE, NewTask, NoEvents)
  BY DEF Init, ViewOf, View
<1> DEFINE a == View(FALSE, NewTask, NoEvents)
<1>2. /\ a.status = "ABSENT" /\ a.stage = "VALIDATE" /\ a.waiting = FALSE
      /\ a.retries = 0 /\ a.log["FAILED"] = 0 /\ \A s \in Stage : a.log[s] = 0
  BY DEF View, NewTask, LogOf, NoEvents, EventKind
<1> HIDE DEF a
<1>3. \A s \in Stage : s \notin Passed(a)
  BY <1>2, PassedIs DEF Order, Stage
<1>4. \A s \in Stage : a.log[s] = IF s \in Passed(a) THEN 1 ELSE 0
  BY <1>2, <1>3
<1>5. ~Ended(a) /\ 0 = 0 + 0
  BY <1>2 DEF Ended
<1>6. Accounts(a)
  BY <1>2, <1>4, <1>5 DEF Accounts
<1> QED BY <1>1, <1>6 DEF a

LEMMA ViewOfType ==
  ASSUME NEW t \in Tasks
  PROVE  (TypeOK => ViewOf(t) \in Task) /\ (TypeOK' => ViewOf(t)' \in Task)
<1>1. ASSUME TypeOK PROVE ViewOf(t) \in Task
  <2>1. row[t] \in Row /\ events[t] \in Log
    BY <1>1 DEF TypeOK, Log
  <2>2. /\ View(TRUE, row[t], events[t]) \in Task
        /\ View(FALSE, row[t], events[t]) \in Task
    BY <2>1, ViewType
  <2>3. \/ ViewOf(t) = View(TRUE, row[t], events[t])
        \/ ViewOf(t) = View(FALSE, row[t], events[t])
    BY DEF ViewOf, View
  <2> QED BY <2>2, <2>3
<1>2. ASSUME TypeOK' PROVE ViewOf(t)' \in Task
  <2>1. row'[t] \in Row /\ events'[t] \in Log
    BY <1>2 DEF TypeOK, Log
  <2>2. /\ View(TRUE, row'[t], events'[t]) \in Task
        /\ View(FALSE, row'[t], events'[t]) \in Task
    BY <2>1, ViewType
  <2>3. \/ ViewOf(t)' = View(TRUE, row'[t], events'[t])
        \/ ViewOf(t)' = View(FALSE, row'[t], events'[t])
    BY DEF ViewOf, View
  <2> QED BY <2>2, <2>3
<1> QED BY <1>1, <1>2

LEMMA AccountedStep ==
  IInv /\ Inserted /\ Accounted /\ [Next]_vars => Accounted'
<1> SUFFICES ASSUME IInv, Inserted, Accounted, [Next]_vars, NEW t \in Tasks
             PROVE  Accounts(ViewOf(t)')
  BY DEF Accounted, Accounts, Ended, Passed
<1>1. ViewOf(t)' \in {ViewOf(t)} \cup Lifecycle!Moves(ViewOf(t))
  BY MoveStep
<1>2. ViewOf(t) \in Task /\ Accounts(ViewOf(t))
  BY ViewOfType DEF Accounted, IInv
<1>3. ViewOf(t)' \in Task
  BY TypeStep, ViewOfType DEF IInv
<1> QED BY <1>1, <1>2, <1>3, MoveKeepsAccounts

-------------------------------------------------------------------------------
(***************************************************************************)
(* What the logs say.                                                      *)
(***************************************************************************)
LEMMA LogsAccounted == Spec => [](IInv /\ Inserted /\ Accounted)
<1>1. Init => IInv /\ Inserted /\ Accounted
  BY SafetyInit, InsertedInit, AccountedInit
<1>2. IInv /\ Inserted /\ Accounted /\ [Next]_vars => (IInv /\ Inserted /\ Accounted)'
  BY SafetyStep, InsertedStep, AccountedStep
<1> QED BY <1>1, <1>2, PTL DEF Spec

\* Whatever is redelivered, reclaimed or executed twice, a stage has exactly one
\* success in the log when the row is past it, and none before.
THEOREM StagesAreCountedOnce == Spec => []StageLedger
<1>1. IInv /\ Inserted /\ Accounted => StageLedger
  <2> SUFFICES ASSUME IInv, Inserted, Accounted, NEW t \in Tasks, NEW s \in Stage
               PROVE  events[t][s] = IF s \in Passed(row[t]) THEN 1 ELSE 0
    BY DEF StageLedger
  <2> DEFINE a == ViewOf(t)
             r == row[t]
  <2>1. /\ r \in Row /\ a.stage = r.stage /\ a.log[s] = events[t][s]
        /\ a.status = "SUCCEEDED" <=> r.status = "SUCCEEDED"
    BY DEF IInv, TypeOK, Inserted, Uninserted, NewTask, ViewOf, View, LogOf
  <2>2. a.log[s] = (IF s \in Passed(a) THEN 1 ELSE 0)
        /\ (a.status = "SUCCEEDED" => a.stage = "DONE")
    BY DEF Accounted, Accounts
  <2>3. a.stage \in Stage
    BY <2>1 DEF Row
  <2> HIDE DEF a, r
  <2>4. s \in Passed(a) <=> s \in Passed(r)
    BY <2>1, <2>2, <2>3, PassedIs
  <2> QED BY <2>1, <2>2, <2>4 DEF r
<1> QED BY <1>1, LogsAccounted, PTL

\* The FAILED events are one for each manual retry, and one more at a bad end.
THEOREM FailuresAreCounted == Spec => []FailureLedger
<1>1. IInv /\ Inserted /\ Accounted => FailureLedger
  <2> SUFFICES ASSUME IInv, Inserted, Accounted, NEW t \in Tasks
               PROVE  events[t]["FAILED"] = row[t].retries
                        + (IF row[t].status \in {"FAILED", "DEAD"} THEN 1 ELSE 0)
    BY DEF FailureLedger
  <2> DEFINE a == ViewOf(t)
  <2>1. /\ a.retries = row[t].retries /\ a.log["FAILED"] = events[t]["FAILED"]
        /\ Ended(a) <=> row[t].status \in {"FAILED", "DEAD"}
    BY DEF IInv, TypeOK, Inserted, Uninserted, NewTask, ViewOf, View, LogOf, Ended
  <2>2. a.log["FAILED"] = a.retries + (IF Ended(a) THEN 1 ELSE 0)
    BY DEF Accounted, Accounts
  <2> QED BY <2>1, <2>2
<1> QED BY <1>1, LogsAccounted, PTL

\* A change of status that is not a claim enters an event with it.
THEOREM ChangesAreLogged == Spec => ChangesLogged
<1>1. IInv /\ Inserted /\ [Next]_vars =>
        [\A t \in Tasks : row'[t].status \notin {row[t].status, "PROCESSING"} =>
           events'[t] # events[t]]_vars
  <2> SUFFICES ASSUME IInv, Inserted, Next, NEW t \in Tasks,
                      row'[t].status \notin {row[t].status, "PROCESSING"}
               PROVE  events'[t] # events[t]
    OBVIOUS
  <2>1. row[t] \in Row /\ events[t] \in Log
    BY DEF IInv, TypeOK, Log
  <2>2. ~Kept(row[t], row'[t])
    BY <2>1 DEF Kept, Row
  <2>3. ~Claims(row[t], row'[t])
    BY <2>1 DEF Claims, Claim, Write, Row
  <2>4. PICK k \in EventKind : events'[t] = AppendEvent(events[t], k)
    BY <2>2, <2>3, WriteStep DEF Writes
  <2> QED BY <2>1, <2>4, LogAppend
<1> QED BY <1>1, LogsAccounted, PTL DEF Spec, ChangesLogged
===============================================================================
