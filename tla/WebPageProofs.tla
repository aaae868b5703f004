----------------------------- MODULE WebPageProofs -----------------------------
(***************************************************************************)
(* Theorems about WebPage, for any tasks, pages, filters and connections.  *)
(* The liveness properties stay with TLC.                                  *)
(***************************************************************************)
EXTENDS WebPage, FiniteSetTheorems, TLAPS

\* A log that is behind another, or level with it.
Le(log, other) == \A k \in LogKind : log[k] <= other[k]

\* The rows of the table are accounted for by the log at all times.
TasksCovered == \A t \in Tasks : AccountsFor(task[t].log, Columns(task[t]))

\* What a call of the detail pane has read is accounted for: the row by the
\* log as it now stands, and by what was read of the log later.
CallCovered(call) ==
  /\ call.at \in {"row", "read"} => AccountsFor(task[call.id].log, call.row)
  /\ call.at = "read" => /\ AccountsFor(call.log, call.row)
                         /\ Le(call.log, task[call.id].log)

CallsCovered == ~Listing => \A c \in Connections : calls[c] # None =>
                                                   CallCovered(calls[c])

\* No total exceeds the number of tasks, which never decreases.
TotalsBounded ==
  /\ total <= Count("ALL")
  /\ Listing => \A c \in Connections : calls[c] # None =>
                                       calls[c].total <= Count("ALL")

IInv == /\ TypeOK /\ TasksCovered /\ CallsCovered /\ TotalsBounded
        /\ DetailIsCovered /\ PageExists

-------------------------------------------------------------------------------
\* Lemmas about the table: a move keeps it typed and accounted for, and leaves
\* every log and every count where it was or further on.

LEMMA AbsentType == Absent \in TaskType /\ Absent.status = "ABSENT"
BY DEF Absent, TaskType, Status, Stage, LogType, LogKind

LEMMA ColumnsType == \A a \in TaskType : Columns(a) \in RowType
BY DEF Columns, TaskType, RowType

LEMMA ToType ==
  ASSUME NEW a \in TaskType, NEW st \in Status
  PROVE  /\ To(a, st) \in TaskType /\ To(a, st).log = a.log
         /\ To(a, st).retries = a.retries /\ To(a, st).stage = a.stage
         /\ To(a, st).status = st
BY DEF To, TaskType, Status

LEMMA LoggedType ==
  ASSUME NEW a \in TaskType, NEW k \in LogKind
  PROVE  /\ Logged(a, k) \in TaskType
         /\ Logged(a, k).log = [a.log EXCEPT ![k] = a.log[k] + 1]
         /\ Logged(a, k).status = a.status /\ Logged(a, k).stage = a.stage
         /\ Logged(a, k).retries = a.retries
         /\ Logged(a, k).waiting = a.waiting
         /\ Le(a.log, Logged(a, k).log)
         /\ Logged(a, k).log[k] >= 1
BY DEF Logged, Entered, TaskType, LogType, Le

LEMMA MoveKeeps ==
  ASSUME NEW a \in TaskType, AccountsFor(a.log, Columns(a)), NEW b \in Moves(a)
  PROVE  /\ b \in TaskType /\ b.status # "ABSENT"
         /\ AccountsFor(b.log, Columns(b)) /\ Le(a.log, b.log)
<1> USE DEF When, Columns, AccountsFor, Failures, Le
<1>0. /\ a.log \in [LogKind -> Nat] /\ a.retries \in Nat /\ a.stage \in Stage
      /\ a.status \in Status \cup {"ABSENT"}
      /\ \A k \in LogKind : a.log[k] \in Nat
      /\ Stage \subseteq LogKind /\ "FAILED" \in LogKind
  BY DEF TaskType, LogType, LogKind
<1>1. CASE b \in Upload(a)
  <2>1. a = Absent /\ b = To(a, "PENDING")
    BY <1>1 DEF Upload
  <2>2. a.retries = 0 /\ a.stage = "VALIDATE"
    BY <2>1 DEF Absent
  <2>3. /\ b \in TaskType /\ b.log = a.log /\ b.retries = 0
        /\ b.stage = "VALIDATE" /\ b.status = "PENDING"
    BY <2>1, <2>2, ToType DEF Status
  <2> QED BY <2>3, <1>0 DEF Passed, Status
<1>2. CASE b \in Start(a) \/ b \in Await(a) \/ b \in TryAgain(a)
  <2>1. b.log = a.log /\ b.retries = a.retries /\ b.stage = a.stage
        /\ b.status \in {"PENDING", "PROCESSING"} /\ b \in TaskType
    BY <1>2 DEF Start, Await, TryAgain, To, TaskType, Status
  <2>2. Passed(Columns(b)) \subseteq Passed(Columns(a))
    BY <2>1, <1>0 DEF Passed, Stage
  <2> QED BY <2>1, <2>2, <1>0
<1>3. CASE b \in Pass(a)
  <2> DEFINE c == To(a, "PENDING")
  <2>1. c \in TaskType /\ c.log = a.log /\ c.retries = a.retries
        /\ c.stage = a.stage /\ c.status = "PENDING"
    BY ToType DEF Status
  <2>2. a.stage # "DONE" /\ b = [Logged(c, a.stage) EXCEPT !.stage = NextStage(a.stage)]
    BY <1>3 DEF Pass
  <2> HIDE DEF c
  <2>3. /\ b.log = [a.log EXCEPT ![a.stage] = a.log[a.stage] + 1]
        /\ b.stage = NextStage(a.stage) /\ b.status = "PENDING"
        /\ b.retries = a.retries /\ b \in TaskType
    BY <2>1, <2>2, <1>0, LoggedType DEF TaskType, NextStage, Stage
  <2>4. Le(a.log, b.log) /\ b.log[a.stage] >= 1 /\ b.log["FAILED"] >= a.log["FAILED"]
    BY <2>3, <1>0
  <2>5. Passed(Columns(b)) \subseteq Passed(Columns(a)) \cup {a.stage}
    BY <2>2, <2>3, <1>0 DEF Passed, NextStage, Stage
  <2>6. \A s \in Passed(Columns(b)) : b.log[s] >= 1
    BY <2>4, <2>5, <1>0, <2>3 DEF Passed, TaskType, LogType
  <2> QED BY <2>3, <2>4, <2>6, <1>0
<1>4. CASE b \in Fail(a) \/ b \in Die(a) \/ b \in Succeed(a)
  <2>1. PICK st \in {"FAILED", "DEAD", "SUCCEEDED"}, k \in LogKind :
          /\ b = Logged(To(a, st), k)
          /\ st = "SUCCEEDED" => k = "DONE" /\ a.stage = "DONE"
                                 /\ a.status = "PROCESSING"
          /\ st # "SUCCEEDED" => k = "FAILED" /\ a.stage # "DONE"
    BY <1>4, <1>0 DEF Fail, Die, Succeed, Stage
  <2> DEFINE c == To(a, st)
  <2>2. c \in TaskType /\ c.log = a.log /\ c.retries = a.retries
        /\ c.stage = a.stage /\ c.status = st
    BY ToType DEF Status
  <2> HIDE DEF c
  <2>a. b = Logged(c, k)
    BY <2>1 DEF c
  <2>3. /\ b.log = [a.log EXCEPT ![k] = a.log[k] + 1]
        /\ b.stage = a.stage /\ b.status = st
        /\ b.retries = a.retries /\ b \in TaskType
    BY <2>a, <2>2, LoggedType
  <2>4. Le(a.log, b.log) /\ b.log[k] >= 1 /\ b.log["FAILED"] >= a.log["FAILED"]
    BY <2>3, <1>0
  <2>5. Passed(Columns(b)) \subseteq Passed(Columns(a)) \cup {k}
    BY <2>1, <2>3, <1>0 DEF Passed, Stage
  <2>6. \A s \in Passed(Columns(b)) : b.log[s] >= 1
    BY <2>4, <2>5, <1>0, <2>3 DEF Passed, TaskType, LogType
  <2>7. b.log["FAILED"] >= Failures(Columns(b))
    <3>1. CASE st = "SUCCEEDED"
      BY <3>1, <2>3, <2>4, <1>0
    <3>2. CASE st # "SUCCEEDED"
      BY <3>2, <2>1, <2>3, <1>0
    <3> QED BY <3>1, <3>2
  <2> QED BY <2>3, <2>4, <2>6, <2>7, <1>0
<1>5. CASE b \in Retry(a)
  <2> DEFINE c == To(a, "PENDING")
  <2>1. c \in TaskType /\ c.log = a.log /\ c.retries = a.retries
        /\ c.stage = a.stage /\ c.status = "PENDING"
    BY ToType DEF Status
  <2>2. a.status = "FAILED" /\ b = [c EXCEPT !.retries = c.retries + 1]
    BY <1>5 DEF Retry
  <2> HIDE DEF c
  <2>3. /\ b.log = a.log /\ b.retries = a.retries + 1 /\ b.stage = a.stage
        /\ b.status = "PENDING" /\ b \in TaskType
    BY <2>1, <2>2, <1>0 DEF TaskType
  <2>4. Passed(Columns(b)) \subseteq Passed(Columns(a))
    BY <2>3, <1>0 DEF Passed, Stage
  <2> QED BY <2>2, <2>3, <2>4, <1>0
<1> QED BY <1>1, <1>2, <1>3, <1>4, <1>5 DEF Moves

\* A log that is further on accounts for what it did.
LEMMA CoveredLater ==
  ASSUME NEW log \in LogType, NEW other \in LogType, Le(log, other),
         NEW r \in RowType, AccountsFor(log, r)
  PROVE  AccountsFor(other, r)
<1>1. Failures(r) \in Nat
  BY DEF Failures, RowType
<1>2. Passed(r) \subseteq LogKind
  BY DEF Passed, LogKind, Stage, RowType
<1> QED BY <1>1, <1>2 DEF AccountsFor, Le, LogType, LogKind

LEMMA CountBounds ==
  ASSUME task \in [Tasks -> TaskType]
  PROVE  /\ \A f \in Filters : Count(f) \in Nat /\ Count(f) <= Count("ALL")
         /\ Count("ALL") \in Nat
<1> SUFFICES ASSUME NEW f \in Filters
             PROVE  Count(f) \in Nat /\ Count(f) <= Count("ALL")
                    /\ Count("ALL") \in Nat
  BY PageAssumption
<1> DEFINE S(g) == {t \in Tasks : Matches(t, g)}
<1>1. S(f) \subseteq S("ALL")
  BY PageAssumption, AbsentType DEF Matches, Status
<1>2. IsFiniteSet(S("ALL"))
  BY PageAssumption, FS_Subset
<1>3. IsFiniteSet(S(f)) /\ Cardinality(S(f)) <= Cardinality(S("ALL"))
  BY <1>1, <1>2, FS_Subset
<1> QED BY <1>2, <1>3, FS_CardinalityType DEF Count

-------------------------------------------------------------------------------
\* Lemmas about the calls: what a step that leaves the table alone has to show.

Fine(call) == /\ call \in (IF Listing THEN ListType ELSE DetailType)
              /\ IF Listing THEN call.total <= Count("ALL") ELSE CallCovered(call)

CallsFine == \A c \in Connections : calls[c] # None => Fine(calls[c])

LEMMA NoneIsNone == None \notin ListType /\ None \notin DetailType
<1>1. "none" \notin Steps
  BY DEF Steps
<1> QED BY <1>1 DEF None, ListType, DetailType

LEMMA IsFine == TypeOK /\ CallsCovered /\ TotalsBounded => CallsFine
BY DEF TypeOK, CallsCovered, TotalsBounded, CallsFine, Fine

\* With the table as it was, a call that is fine stays so.
LEMMA CallsStayFine ==
  ASSUME CallsFine, UNCHANGED <<task, used>>,
         NEW S, calls' \in [Connections -> S], \A c \in Connections :
           calls'[c] \in {calls[c], None} \/ Fine(calls'[c])
  PROVE  /\ CallsCovered'
         /\ Listing' => \A c \in Connections : calls'[c] # None =>
                                        calls'[c].total <= Count("ALL")
         /\ calls' \in [Connections ->
              (IF Listing THEN ListType ELSE DetailType) \cup {None}]
<1>1. \A c \in Connections : calls'[c] # None => Fine(calls'[c])
  BY DEF CallsFine
<1>2. Listing' = Listing
  BY DEF Listing
<1> QED BY <1>1, <1>2 DEF CallsCovered, Fine, CallCovered, AccountsFor, Le

\* The calls the page sends, and those that are answered or lost.
LEMMA SendKeeps ==
  ASSUME TypeOK, NEW call, Send(call)
  PROVE  /\ calls' \in [Connections -> {calls[c] : c \in Connections} \cup {call}]
         /\ \A c \in Connections : calls'[c] \in {calls[c], None} \/ calls'[c] = call
BY DEF Send, Unused, TypeOK

LEMMA NewCallsFine ==
  ASSUME TypeOK
  PROVE  /\ \A f \in Filters, n \in Nat \ {0} : Listing => Fine(ListCall(f, n))
         /\ \A t \in Tasks : ~Listing => Fine(DetailCall(t))
<1>1. Count("ALL") \in Nat
  BY CountBounds DEF TypeOK
<1>2. Columns(Absent) \in RowType /\ Absent.log \in LogType
  BY AbsentType, ColumnsType DEF TaskType
<1>3. \A f \in Filters, n \in Nat \ {0} : Listing => Fine(ListCall(f, n))
  BY <1>1 DEF Fine, ListCall, ListType, Steps
<1>4. \A t \in Tasks : ~Listing => Fine(DetailCall(t))
  BY <1>2 DEF Fine, DetailCall, DetailType, Steps, CallCovered
<1> QED BY <1>3, <1>4

-------------------------------------------------------------------------------
\* The steps, one lemma for each action or group of actions.

\* The page, when it sends a list call: "next" included, for the total it
\* decides on never exceeds the count of all tasks.
LEMMA ListCallKeeps ==
  ASSUME IInv, Listing, NEW f \in Filters, NEW n \in Nat \ {0},
         filter' = f, number' = n, LoadTasks(f, n),
         f = "ALL" /\ n > 1 => (n - 1) * PageSize < Count("ALL"),
         clicks' \in Nat,
         UNCHANGED <<task, used, total, selected, items, detail, moves, fails>>
  PROVE  IInv'
<1> USE DEF IInv
<1>1. CallsFine /\ Fine(ListCall(f, n))
  BY IsFine, NewCallsFine
<1>2. /\ calls' \in [Connections -> {calls[c] : c \in Connections} \cup {ListCall(f, n)}]
      /\ \A c \in Connections : calls'[c] \in {calls[c], None} \/ Fine(calls'[c])
  BY <1>1, SendKeeps DEF LoadTasks
<1>3. /\ CallsCovered'
      /\ Listing' => \A c \in Connections : calls'[c] # None =>
                                        calls'[c].total <= Count("ALL")
      /\ calls' \in [Connections ->
              (IF Listing THEN ListType ELSE DetailType) \cup {None}]
  BY <1>1, <1>2, CallsStayFine
<1>4. Count("ALL")' = Count("ALL")
  BY DEF Count, Matches
<1>5. TypeOK'
  BY <1>3 DEF TypeOK, Listing
<1>6. TotalsBounded'
  BY <1>3, <1>4 DEF TotalsBounded
<1>7. TasksCovered' /\ DetailIsCovered'
  BY DEF TasksCovered, DetailIsCovered, AccountsFor
<1>8. PageExists'
  BY <1>4 DEF PageExists
<1> QED BY <1>3, <1>5, <1>6, <1>7, <1>8

LEMMA GoToKeeps ==
  ASSUME IInv, NEW n \in Nat \ {0}, GoTo(n),
         filter = "ALL" /\ n > 1 => (n - 1) * PageSize < Count("ALL")
  PROVE  IInv'
<1>1. Listing /\ clicks' \in Nat /\ filter \in Filters /\ filter' = filter
  BY DEF GoTo, Click, Listing, IInv, TypeOK
<1> QED BY <1>1, ListCallKeeps DEF GoTo

LEMMA SetFilterKeeps ==
  ASSUME IInv, NEW f \in Filters, SetFilter(f)
  PROVE  IInv'
<1>1. Listing /\ clicks' \in Nat
  BY DEF SetFilter, Click, Listing, IInv, TypeOK
<1> QED BY <1>1, ListCallKeeps DEF SetFilter

LEMMA PrevKeeps == IInv /\ Prev => IInv'
<1> SUFFICES ASSUME IInv, Prev PROVE IInv'
  OBVIOUS
<1>1. /\ number \in Nat /\ number > 1 /\ PageSize \in Nat
      /\ Count("ALL") \in Nat
      /\ filter = "ALL" => (number - 1) * PageSize < Count("ALL")
  BY CountBounds, PageAssumption DEF Prev, IInv, TypeOK, PageExists
<1>2. \A n, p \in Nat : n > 1 => (n - 1) * p = (n - 1 - 1) * p + p
                              /\ (n - 1 - 1) * p \in Nat
  OBVIOUS
<1>3. filter = "ALL" => (number - 1 - 1) * PageSize < Count("ALL")
  BY <1>1, <1>2
<1> QED BY <1>1, <1>3, GoToKeeps DEF Prev

LEMMA NextPageKeeps == IInv /\ NextPage => IInv'
<1> SUFFICES ASSUME IInv, NextPage PROVE IInv'
  OBVIOUS
<1>1. /\ number \in Nat \ {0} /\ PageSize \in Nat /\ total \in Nat
      /\ Count("ALL") \in Nat
      /\ number * PageSize < total /\ total <= Count("ALL")
  BY CountBounds, PageAssumption DEF NextPage, IInv, TypeOK, TotalsBounded
<1>2. (number + 1) - 1 = number /\ number * PageSize \in Nat
  BY <1>1
<1>3. ((number + 1) - 1) * PageSize < Count("ALL")
  BY <1>1, <1>2
<1> QED BY <1>1, <1>3, GoToKeeps DEF NextPage

\* The page, when it asks for a task.
LEMMA DetailCallKeeps ==
  ASSUME IInv, ~Listing, NEW t \in Tasks, LoadDetail(t), clicks' \in Nat,
         UNCHANGED <<task, used, filter, number, total, items, moves, fails>>
  PROVE  IInv'
<1> USE DEF IInv
<1>1. CallsFine /\ Fine(DetailCall(t))
  BY IsFine, NewCallsFine
<1>2. /\ calls' \in [Connections -> {calls[c] : c \in Connections} \cup {DetailCall(t)}]
      /\ \A c \in Connections : calls'[c] \in {calls[c], None} \/ Fine(calls'[c])
  BY <1>1, SendKeeps DEF LoadDetail
<1>3. /\ CallsCovered'
      /\ Listing' => \A c \in Connections : calls'[c] # None =>
                                        calls'[c].total <= Count("ALL")
      /\ calls' \in [Connections ->
              (IF Listing THEN ListType ELSE DetailType) \cup {None}]
  BY <1>1, <1>2, CallsStayFine
<1>4. Count("ALL")' = Count("ALL")
  BY DEF Count, Matches
<1>5. TypeOK'
  BY <1>3 DEF TypeOK, Listing, LoadDetail
<1>6. TotalsBounded'
  BY <1>3, <1>4 DEF TotalsBounded
<1>7. TasksCovered' /\ DetailIsCovered'
  BY DEF TasksCovered, DetailIsCovered, AccountsFor, LoadDetail
<1>8. PageExists'
  BY <1>4 DEF PageExists
<1> QED BY <1>3, <1>5, <1>6, <1>7, <1>8

LEMMA ViewKeeps == ASSUME IInv, NEW t \in Tasks, View(t) PROVE IInv'
<1>1. ~Listing /\ clicks' \in Nat
  BY DEF View, Click, Listing, IInv, TypeOK
<1> QED BY <1>1, DetailCallKeeps DEF View

LEMMA TickKeeps == IInv /\ Tick => IInv'
<1> SUFFICES ASSUME IInv, Tick PROVE IInv'
  OBVIOUS
<1>1. CASE Listing
  <2>1. /\ filter \in Filters /\ number \in Nat \ {0} /\ clicks \in Nat
        /\ filter = "ALL" /\ number > 1 => (number - 1) * PageSize < Count("ALL")
    BY DEF IInv, TypeOK, PageExists
  <2> QED BY <1>1, <2>1, ListCallKeeps DEF Tick, bounds
<1>2. CASE ~Listing
  <2>1. selected \in Tasks /\ clicks \in Nat
    BY <1>2 DEF Tick, IInv, TypeOK
  <2> QED BY <1>2, <2>1, DetailCallKeeps DEF Tick, bounds
<1> QED BY <1>1, <1>2

LEMMA CloseKeeps == IInv /\ Close => IInv'
<1> SUFFICES ASSUME IInv, Close PROVE IInv'
  OBVIOUS
<1> USE DEF IInv, Close
<1>1. Count("ALL")' = Count("ALL") /\ Listing' = Listing
  BY DEF Count, Matches, Listing
<1>2. TypeOK'
  BY <1>1 DEF TypeOK, Click
<1>3. TotalsBounded' /\ PageExists'
  BY <1>1 DEF TotalsBounded, PageExists
<1>4. TasksCovered' /\ CallsCovered'
  BY <1>1 DEF TasksCovered, CallsCovered, CallCovered, AccountsFor, Le
<1>5. DetailIsCovered'
  BY DEF DetailIsCovered
<1> QED BY <1>2, <1>3, <1>4, <1>5

\* A statement of a handler, when what it makes of the call is fine.
LEMMA ReadKeeps ==
  ASSUME IInv, NEW c \in Connections, NEW from, NEW call, Read(c, from, call),
         Fine(call)
  PROVE  IInv'
<1> USE DEF IInv, Read
<1>1. /\ calls' \in [Connections -> {calls[b] : b \in Connections} \cup {call}]
      /\ \A b \in Connections : calls'[b] \in {calls[b], None} \/ Fine(calls'[b])
  BY DEF TypeOK
<1>2. /\ CallsCovered'
      /\ Listing' => \A b \in Connections : calls'[b] # None =>
                                        calls'[b].total <= Count("ALL")
      /\ calls' \in [Connections ->
              (IF Listing THEN ListType ELSE DetailType) \cup {None}]
  BY <1>1, IsFine, CallsStayFine
<1>3. Count("ALL")' = Count("ALL") /\ Listing' = Listing
  BY DEF Count, Matches, Listing
<1>4. TypeOK'
  BY <1>2, <1>3 DEF TypeOK, page, bounds
<1>5. TotalsBounded' /\ PageExists'
  BY <1>2, <1>3 DEF TotalsBounded, PageExists, page
<1>6. TasksCovered' /\ DetailIsCovered'
  BY DEF TasksCovered, DetailIsCovered, AccountsFor, page
<1> QED BY <1>2, <1>4, <1>5, <1>6

LEMMA ServeDetailKeeps ==
  ASSUME IInv, NEW c \in Connections, ServeDetail(c) PROVE IInv'
<1> DEFINE t == calls[c].id
<1>1. ~Listing
  BY DEF ServeDetail
<1>2. calls[c] # None => /\ calls[c] \in DetailType /\ Fine(calls[c])
                         /\ t \in Tasks /\ task[t] \in TaskType
  BY <1>1, IsFine DEF IInv, TypeOK, DetailType, CallsFine
<1>3. CASE GetTask(c)
  <2> DEFINE call == [calls[c] EXCEPT !.at = "row", !.row = Columns(task[t])]
  <2>1. calls[c] # None /\ Read(c, "sent", call)
    BY <1>3 DEF GetTask, Read, None
  <2>2. Columns(task[t]) \in RowType /\ AccountsFor(task[t].log, Columns(task[t]))
    BY <1>2, <2>1, ColumnsType DEF IInv, TasksCovered
  <2>3. /\ call \in DetailType /\ call.at = "row" /\ call.id = t
        /\ call.row = Columns(task[t])
    BY <1>2, <2>1, <2>2 DEF DetailType, Steps
  <2> HIDE DEF call
  <2>4. Fine(call)
    BY <1>1, <2>2, <2>3 DEF Fine, CallCovered
  <2> QED BY <2>1, <2>4, ReadKeeps
<1>4. CASE Events(c)
  <2> DEFINE call == [calls[c] EXCEPT !.at = "read", !.log = task[t].log]
  <2>1. calls[c] # None /\ calls[c].at = "row" /\ Read(c, "row", call)
    BY <1>4 DEF Events, Read, None
  <2>2. task[t].log \in LogType
    BY <1>2, <2>1 DEF TaskType
  <2>3. /\ call \in DetailType /\ call.at = "read" /\ call.id = t
        /\ call.row = calls[c].row /\ call.log = task[t].log
    BY <1>2, <2>1, <2>2 DEF DetailType, Steps
  <2>4. AccountsFor(task[t].log, calls[c].row)
    BY <1>1, <1>2, <2>1 DEF Fine, CallCovered
  <2>5. Le(task[t].log, task[t].log)
    BY <2>2 DEF Le, LogType
  <2> HIDE DEF call
  <2>6. Fine(call)
    BY <1>1, <2>3, <2>4, <2>5 DEF Fine, CallCovered
  <2> QED BY <2>1, <2>6, ReadKeeps
<1> QED BY <1>3, <1>4 DEF ServeDetail

LEMMA PageOfType ==
  ASSUME TypeOK, NEW f, NEW n
  PROVE  PageOf(f, n) \in SUBSET [id: Tasks, row: RowType]
BY ColumnsType DEF PageOf, TypeOK

LEMMA ServeListKeeps ==
  ASSUME IInv, NEW c \in Connections, ServeList(c) PROVE IInv'
<1>1. Listing
  BY DEF ServeList
<1>2. calls[c] # None => /\ calls[c] \in ListType /\ calls[c].filter \in Filters
                         /\ calls[c].total <= Count("ALL")
  BY <1>1 DEF IInv, TypeOK, ListType, TotalsBounded
<1>3. CASE CountTasks(c)
  <2> DEFINE n == Count(calls[c].filter)
             call == [calls[c] EXCEPT !.at = "count", !.total = n]
  <2>1. calls[c] # None /\ Read(c, "sent", call)
    BY <1>3 DEF CountTasks, Read, None
  <2>2. n \in Nat /\ n <= Count("ALL")
    BY <1>2, <2>1, CountBounds DEF IInv, TypeOK
  <2> HIDE DEF n
  <2>3. call \in ListType /\ call.total = n
    BY <1>2, <2>1, <2>2 DEF ListType, Steps
  <2> HIDE DEF call
  <2>4. Fine(call)
    BY <1>1, <2>2, <2>3 DEF Fine
  <2> QED BY <2>1, <2>4, ReadKeeps
<1>4. CASE SelectPage(c)
  <2> DEFINE p == PageOf(calls[c].filter, calls[c].number)
             call == [calls[c] EXCEPT !.at = "read", !.items = p]
  <2>1. calls[c] # None /\ Read(c, "count", call)
    BY <1>4 DEF SelectPage, Read, None
  <2>2. p \in SUBSET [id: Tasks, row: RowType]
    BY PageOfType DEF IInv
  <2> HIDE DEF p
  <2>3. call \in ListType /\ call.total = calls[c].total
    BY <1>2, <2>1, <2>2 DEF ListType, Steps
  <2> HIDE DEF call
  <2>4. Fine(call)
    BY <1>1, <1>2, <2>1, <2>3 DEF Fine
  <2> QED BY <2>1, <2>4, ReadKeeps
<1> QED BY <1>3, <1>4 DEF ServeList

\* The answers: what is displayed is a call that was fine.
LEMMA AnswerKeeps ==
  ASSUME IInv, NEW c \in Connections, Answer(c) \/ CallFails(c) PROVE IInv'
<1> USE DEF IInv
<1>0. calls[c] # None
  BY DEF Answer, RenderDetail, RenderTasks, CallFails, None
<1>a. Free(c) /\ UNCHANGED <<task, used, filter, number>>
  BY DEF Answer, RenderDetail, RenderTasks, CallFails
<1>1. /\ calls' \in [Connections -> {calls[b] : b \in Connections} \cup {None}]
      /\ \A b \in Connections : calls'[b] \in {calls[b], None} \/ Fine(calls'[b])
  BY <1>a DEF TypeOK, Free
<1>2. /\ CallsCovered'
      /\ Listing' => \A b \in Connections : calls'[b] # None =>
                                        calls'[b].total <= Count("ALL")
      /\ calls' \in [Connections ->
              (IF Listing THEN ListType ELSE DetailType) \cup {None}]
  BY <1>a, <1>1, IsFine, CallsStayFine
<1>3. Count("ALL")' = Count("ALL") /\ Listing' = Listing
  BY <1>a DEF Count, Matches, Listing
<1>4. /\ items' \in ListType \cup {None} /\ detail' \in DetailType \cup {None}
      /\ total' \in Nat /\ total' <= Count("ALL")
  <2>1. CASE RenderDetail(c)
    BY <1>0, <2>1 DEF RenderDetail, TypeOK, TotalsBounded
  <2>2. CASE RenderTasks(c)
    BY <1>0, <2>2 DEF RenderTasks, TypeOK, TotalsBounded, ListType
  <2>3. CASE CallFails(c)
    BY <2>3 DEF CallFails, TypeOK, TotalsBounded
  <2> QED BY <2>1, <2>2, <2>3 DEF Answer
<1>5. /\ selected' = selected /\ moves' = moves /\ clicks' = clicks
      /\ fails' \in Nat
  BY DEF Answer, RenderDetail, RenderTasks, CallFails, bounds, TypeOK
<1>6. TypeOK'
  BY <1>a, <1>2, <1>3, <1>4, <1>5 DEF TypeOK
<1>7. TotalsBounded' /\ PageExists' /\ TasksCovered'
  BY <1>a, <1>2, <1>3, <1>4 DEF TotalsBounded, PageExists, TasksCovered, AccountsFor
<1>8. DetailIsCovered'
  <2>1. CASE RenderDetail(c)
    <3>1. Fine(calls[c]) /\ calls[c].at = "read" /\ ~Listing /\ detail' = calls[c]
      BY <1>0, <2>1, IsFine DEF CallsFine, RenderDetail
    <3>2. AccountsFor(calls[c].log, calls[c].row) /\ Le(calls[c].log, task[calls[c].id].log)
      BY <3>1 DEF Fine, CallCovered
    <3> QED BY <1>a, <3>1, <3>2 DEF DetailIsCovered, AccountsFor, Le
  <2>2. CASE RenderTasks(c)
    BY <1>a, <2>2 DEF RenderTasks, DetailIsCovered, AccountsFor
  <2>3. CASE CallFails(c)
    BY <1>a, <2>3 DEF CallFails, DetailIsCovered, AccountsFor
  <2> QED BY <2>1, <2>2, <2>3 DEF Answer
<1> QED BY <1>2, <1>6, <1>7, <1>8

\* A move of a task: logs and counts only grow.
LEMMA MoveTaskKeeps == IInv /\ MoveTask => IInv'
<1> SUFFICES ASSUME IInv, MoveTask PROVE IInv'
  OBVIOUS
<1> USE DEF IInv
<1>0. PICK t \in Tasks : \E a \in Moves(task[t]) : task' = [task EXCEPT ![t] = a]
  BY DEF MoveTask
<1>1. PICK b \in Moves(task[t]) : task' = [task EXCEPT ![t] = b]
  BY <1>0
<1>2. /\ b \in TaskType /\ b.status # "ABSENT"
      /\ AccountsFor(b.log, Columns(b)) /\ Le(task[t].log, b.log)
  BY MoveKeeps DEF TypeOK, TasksCovered
<1>3. UNCHANGED <<used, page, calls>> /\ Listing' = Listing
      /\ moves' \in Nat /\ clicks' = clicks /\ fails' = fails
  BY DEF MoveTask, Listing, TypeOK
<1>4. task' \in [Tasks -> TaskType]
  BY <1>1, <1>2 DEF TypeOK
<1>5. TypeOK'
  BY <1>3, <1>4 DEF TypeOK, page
<1>6. \A u \in Tasks : /\ task[u].log \in LogType /\ task'[u].log \in LogType
                       /\ Le(task[u].log, task'[u].log)
                       /\ AccountsFor(task'[u].log, Columns(task'[u]))
                       /\ task[u] # Absent => task'[u] # Absent
  <2> SUFFICES ASSUME NEW u \in Tasks
               PROVE  /\ task[u].log \in LogType /\ task'[u].log \in LogType
                      /\ Le(task[u].log, task'[u].log)
                      /\ AccountsFor(task'[u].log, Columns(task'[u]))
                      /\ task[u] # Absent => task'[u] # Absent
    OBVIOUS
  <2>1. task[u].log \in LogType /\ task'[u].log \in LogType
    BY <1>4 DEF TypeOK, TaskType
  <2>2. CASE u = t
    BY <1>1, <1>2, <2>1, <2>2, AbsentType DEF TypeOK
  <2>3. CASE u # t
    <3>1. task'[u] = task[u]
      BY <1>1, <2>3 DEF TypeOK
    <3>2. Le(task[u].log, task[u].log)
      BY <2>1 DEF Le, LogType
    <3> QED BY <2>1, <3>1, <3>2 DEF TasksCovered
  <2> QED BY <2>2, <2>3
<1>7. TasksCovered'
  BY <1>6 DEF TasksCovered, AccountsFor
<1>8. Count("ALL") <= Count("ALL")' /\ Count("ALL") \in Nat /\ Count("ALL")' \in Nat
  <2> DEFINE before == {u \in Tasks : task[u].status = "ALL" \/ task[u] # Absent}
             after == {u \in Tasks : task'[u].status = "ALL" \/ task'[u] # Absent}
  <2>1. before \subseteq after
    BY <1>6 DEF TypeOK, TaskType, Status
  <2>2. IsFiniteSet(after)
    BY PageAssumption, FS_Subset
  <2>3. IsFiniteSet(before) /\ Cardinality(before) <= Cardinality(after)
    BY <2>1, <2>2, FS_Subset
  <2>4. Count("ALL") = Cardinality(before) /\ Count("ALL")' = Cardinality(after)
    BY DEF Count, Matches
  <2> QED BY <2>2, <2>3, <2>4, FS_CardinalityType
<1>9. TotalsBounded'
  <2>1. total \in Nat /\ total <= Count("ALL")'
    BY <1>8 DEF TypeOK, TotalsBounded
  <2>2. ASSUME Listing, NEW c \in Connections, calls[c] # None
        PROVE  calls[c].total <= Count("ALL")'
    BY <1>8, <2>2 DEF TypeOK, TotalsBounded, ListType
  <2> QED BY <1>3, <2>1, <2>2 DEF TotalsBounded, page
<1>10. PageExists'
  <2>1. number \in Nat /\ PageSize \in Nat /\ (number - 1) * PageSize \in Int
    BY PageAssumption DEF TypeOK
  <2> QED BY <1>3, <1>8, <2>1 DEF PageExists, page
<1>11. CallsCovered'
  <2> SUFFICES ASSUME ~Listing, NEW c \in Connections, calls[c] # None
               PROVE  CallCovered(calls[c])'
    BY <1>3 DEF CallsCovered
  <2> DEFINE u == calls[c].id
  <2>1. calls[c] \in DetailType /\ CallCovered(calls[c])
    BY DEF TypeOK, CallsCovered
  <2>2. u \in Tasks /\ calls[c].row \in RowType /\ calls[c].log \in LogType
    BY <2>1 DEF DetailType
  <2>3. calls[c].at \in {"row", "read"} => AccountsFor(task'[u].log, calls[c].row)
    BY <1>6, <2>1, <2>2, CoveredLater DEF CallCovered
  <2>4. calls[c].at = "read" => /\ AccountsFor(calls[c].log, calls[c].row)
                                /\ Le(calls[c].log, task'[u].log)
    <3>1. \A k \in LogKind : /\ calls[c].log[k] \in Nat /\ task[u].log[k] \in Nat
                              /\ task'[u].log[k] \in Nat
      BY <1>6, <2>2 DEF LogType
    <3> QED BY <1>6, <2>1, <2>2, <3>1 DEF CallCovered, Le
  <2> QED BY <1>3, <2>3, <2>4 DEF CallCovered, AccountsFor, Le
<1>12. DetailIsCovered'
  <2> SUFFICES ASSUME detail # None
               PROVE  /\ AccountsFor(detail.log, detail.row)
                      /\ \A k \in LogKind : detail.log[k] <= task'[detail.id].log[k]
    BY <1>3 DEF DetailIsCovered, page, AccountsFor
  <2>1. detail \in DetailType
    BY DEF TypeOK
  <2>2. detail.id \in Tasks /\ detail.log \in LogType
    BY <2>1 DEF DetailType
  <2>3. \A k \in LogKind : /\ detail.log[k] \in Nat /\ task[detail.id].log[k] \in Nat
                            /\ task'[detail.id].log[k] \in Nat
    BY <1>6, <2>2 DEF LogType
  <2> QED BY <1>6, <2>2, <2>3 DEF DetailIsCovered, Le
<1> QED BY <1>5, <1>7, <1>9, <1>10, <1>11, <1>12

-------------------------------------------------------------------------------
(***************************************************************************)
(* The page and its total.  Rows are created at different times, so the    *)
(* number of rows before one is an injection of the M rows that match into *)
(* 0 .. M-1, hence onto it: each number below M is the rank of some row.   *)
(***************************************************************************)
Newer(t, M) == {u \in M : CreatedAt[u] > CreatedAt[t]}

LEMMA RankIsStrict ==
  ASSUME NEW M \in SUBSET Tasks, NEW t \in M, NEW s \in M,
         CreatedAt[t] > CreatedAt[s]
  PROVE  Cardinality(Newer(t, M)) < Cardinality(Newer(s, M))
<1>1. /\ CreatedAt \in [Tasks -> Nat] /\ IsFiniteSet(M)
  BY PageAssumption, FS_Subset
<1>2. Newer(t, M) \subseteq Newer(s, M) /\ t \in Newer(s, M) /\ t \notin Newer(t, M)
  BY <1>1 DEF Newer
<1>3. IsFiniteSet(Newer(s, M))
  BY <1>1, FS_Subset DEF Newer
<1>4. /\ IsFiniteSet(Newer(t, M))
      /\ Cardinality(Newer(t, M)) <= Cardinality(Newer(s, M))
      /\ Cardinality(Newer(t, M)) # Cardinality(Newer(s, M))
  BY <1>2, <1>3, FS_Subset
<1> QED BY <1>3, <1>4, FS_CardinalityType

LEMMA RangeLength ==
  ASSUME NEW a \in Nat, NEW k \in Nat
  PROVE  IsFiniteSet(a .. a + k - 1) /\ Cardinality(a .. a + k - 1) = k
<1> DEFINE b == a + k - 1
<1>1. b \in Int /\ a \in Int /\ (IF a > b THEN 0 ELSE b - a + 1) = k
  OBVIOUS
<1> HIDE DEF b
<1>2. IsFiniteSet(a .. b) /\ Cardinality(a .. b) = IF a > b THEN 0 ELSE b - a + 1
  BY <1>1, FS_Interval, Zenon
<1>3. IsFiniteSet(a .. b) /\ Cardinality(a .. b) = k
  BY <1>1, <1>2, Zenon
<1> QED BY <1>3 DEF b

LEMMA RankIsOnto ==
  ASSUME NEW M \in SUBSET Tasks, NEW i \in Nat, i < Cardinality(M)
  PROVE  \E t \in M : Cardinality(Newer(t, M)) = i
<1> DEFINE c == Cardinality(M)
           T == 0 .. c - 1
           rank == [t \in M |-> Cardinality(Newer(t, M))]
<1>1. IsFiniteSet(M) /\ c \in Nat
  BY PageAssumption, FS_Subset, FS_CardinalityType
<1>2. ASSUME NEW t \in M PROVE rank[t] \in T
  <2>1. /\ IsFiniteSet(M \ {t}) /\ Cardinality(M \ {t}) = c - 1
    BY <1>1, FS_RemoveElement
  <2>2. Newer(t, M) \subseteq M \ {t}
    BY PageAssumption DEF Newer
  <2>3. IsFiniteSet(Newer(t, M)) /\ Cardinality(Newer(t, M)) <= c - 1
    BY <2>1, <2>2, FS_Subset
  <2> QED BY <1>1, <2>3, FS_CardinalityType
<1>3. ASSUME NEW t \in M, NEW s \in M, rank[t] = rank[s] PROVE t = s
  <2>1. ~(CreatedAt[t] > CreatedAt[s]) /\ ~(CreatedAt[s] > CreatedAt[t])
    <3>1. rank[t] \in Nat /\ rank[s] \in Nat
      BY <1>1, <1>2
    <3> QED BY <1>3, <3>1, RankIsStrict
  <2> QED BY <2>1, PageAssumption DEF IsInjective
<1> HIDE DEF rank
<1>4. rank \in Injection(M, T)
  <2>1. rank \in [M -> T]
    BY <1>2 DEF rank
  <2> QED BY <1>3, <2>1 DEF Injection, IsInjective
<1>5. IsFiniteSet(T) /\ Cardinality(T) = c
  <2>1. 0 \in Nat /\ 0 + c - 1 = c - 1
    BY <1>1
  <2>2. IsFiniteSet(0 .. 0 + c - 1) /\ Cardinality(0 .. 0 + c - 1) = c
    BY <1>1, <2>1, RangeLength, Zenon
  <2> QED BY <2>1, <2>2, Zenon
<1>6. rank \in Surjection(M, T)
  BY <1>4, <1>5, FS_Injection
<1>7. i \in T
  BY <1>1
<1>8. PICK t \in M : rank[t] = i
  BY <1>6, <1>7 DEF Surjection
<1> QED BY <1>8 DEF rank

\* A page of at most PageSize rows is as full as a total allows that does not
\* exceed the count of the rows that match.
LEMMA PageIsFull ==
  ASSUME NEW f, NEW n \in Nat \ {0}, NEW m \in Nat, m <= Count(f)
  PROVE  Cardinality(PageOf(f, n)) >= CapTo(m - (n - 1) * PageSize, PageSize)
<1> DEFINE M == {u \in Tasks : Matches(u, f)}
           lo == (n - 1) * PageSize
           k == CapTo(m - lo, PageSize)
<1>0. /\ PageSize \in Nat \ {0} /\ lo \in Nat /\ n * PageSize = lo + PageSize
      /\ IsFiniteSet(M) /\ Cardinality(M) \in Nat /\ m <= Cardinality(M)
  <2>1. \A a, b \in Nat : a * b \in Nat
    OBVIOUS
  <2>2. \A a \in Nat \ {0}, b \in Nat : a * b = (a - 1) * b + b
    OBVIOUS
  <2>3. PageSize \in Nat \ {0} /\ n - 1 \in Nat
    BY PageAssumption
  <2> QED BY <2>1, <2>2, <2>3, PageAssumption, FS_Subset, FS_CardinalityType DEF Count
<1>1. \A t \in Tasks : Before(t, f) = Cardinality(Newer(t, M))
  <2>1. \A t \in Tasks : Newer(t, M) = {u \in Tasks : Matches(u, f) /\ CreatedAt[u] > CreatedAt[t]}
    BY DEF Newer
  <2> QED BY <2>1 DEF Before
<1>2. IsFiniteSet(PageOf(f, n)) /\ Cardinality(PageOf(f, n)) \in Nat
  <2> DEFINE W == {u \in Tasks : Matches(u, f)
                     /\ Before(u, f) \in (n - 1) * PageSize .. n * PageSize - 1}
             R == [t \in W |-> [id |-> t, row |-> Columns(task[t])]]
  <2>1. IsFiniteSet(W)
    BY PageAssumption, FS_Subset
  <2>2. R \in Surjection(W, PageOf(f, n))
    BY DEF PageOf, Surjection
  <2>3. IsFiniteSet(PageOf(f, n))
    BY <2>1, <2>2, FS_Surjection
  <2> QED BY <2>3, FS_CardinalityType
<1>3. CASE k <= 0
  BY <1>0, <1>2, <1>3 DEF CapTo
<1>4. CASE k > 0
  <2>1. k \in Nat /\ k <= PageSize /\ lo + k <= Cardinality(M)
    BY <1>0, <1>4 DEF CapTo
  <2> DEFINE I == lo .. lo + k - 1
  <2>2. \A i \in I : \E t \in M : Before(t, f) = i
    <3> SUFFICES ASSUME NEW i \in I PROVE \E t \in M : Before(t, f) = i
      OBVIOUS
    <3>1. i \in Nat /\ i < Cardinality(M)
      BY <1>0, <2>1
    <3> QED BY <1>1, <3>1, RankIsOnto
  <2> DEFINE g == [i \in I |-> CHOOSE r \in PageOf(f, n) : Before(r.id, f) = i]
  <2>3. ASSUME NEW i \in I
        PROVE  g[i] \in PageOf(f, n) /\ Before(g[i].id, f) = i
    <3>1. PICK t \in M : Before(t, f) = i
      BY <2>2
    <3>2. i \in (n - 1) * PageSize .. n * PageSize - 1
      BY <1>0, <2>1
    <3> DEFINE r == [id |-> t, row |-> Columns(task[t])]
    <3>3. r \in PageOf(f, n) /\ r.id = t
      BY <3>1, <3>2 DEF PageOf
    <3> HIDE DEF r
    <3> QED BY <3>1, <3>3
  <2> HIDE DEF g
  <2>4. g \in Injection(I, PageOf(f, n))
    <3>1. g \in [I -> PageOf(f, n)]
      BY <2>3 DEF g
    <3>2. \A i, j \in I : g[i] = g[j] => i = j
      BY <2>3
    <3> QED BY <3>1, <3>2 DEF Injection, IsInjective
  <2>5. Cardinality(I) = k
    BY <1>0, <2>1, RangeLength, Zenon
  <2>6. Cardinality(I) <= Cardinality(PageOf(f, n))
    BY <1>2, <2>4, FS_Injection
  <2> QED BY <1>2, <2>1, <2>5, <2>6
<1>5. k \in Int
  BY <1>0 DEF CapTo
<1> QED BY <1>3, <1>4, <1>5

\* A list call that has been served, and what is on display, keep that promise.
Full(call) == call.filter = "ALL" =>
  Cardinality(call.items) >= CapTo(call.total - (call.number - 1) * PageSize, PageSize)

CallsFull == Listing => \A c \in Connections :
  calls[c] # None /\ calls[c].at = "read" => Full(calls[c])

PagesInv == CallsFull /\ PageCoversTotal

LEMMA ShownIsFull == PageCoversTotal <=> (items # None => Full(items))
BY DEF PageCoversTotal, Full

\* Calls that are sent, or that a handler is still at work on, promise nothing.
LEMMA FullWhenFew ==
  ASSUME CallsFull, used' = used, items' \in {items, None}, PageCoversTotal,
         \A c \in Connections :
           \/ calls'[c] \in {calls[c], None}
           \/ Listing => calls'[c].at # "read" \/ Full(calls'[c])
  PROVE  PagesInv'
BY ShownIsFull DEF PagesInv, CallsFull, Full, Listing, PageCoversTotal

LEMMA SentIsFew ==
  ASSUME IInv, PagesInv, NEW call, Send(call), Listing => call.at = "sent",
         used' = used, items' = items
  PROVE  PagesInv'
<1>1. \A c \in Connections : calls'[c] \in {calls[c], None} \/ calls'[c] = call
  BY SendKeeps DEF IInv
<1> QED BY <1>1, FullWhenFew DEF PagesInv

LEMMA ServedIsFull ==
  ASSUME IInv, PagesInv, NEW c \in Connections, Serve(c)
  PROVE  PagesInv'
<1>0. calls \in [Connections -> (IF Listing THEN ListType ELSE DetailType) \cup {None}]
  BY DEF IInv, TypeOK
<1>1. CASE ServeDetail(c)
  <2>1. ~Listing /\ used' = used /\ items' = items
    BY <1>1 DEF ServeDetail, GetTask, Events, Read, page
  <2> QED BY <2>1 DEF PagesInv, CallsFull, Listing, PageCoversTotal
<1>2. CASE ServeList(c) /\ CountTasks(c)
  <2> DEFINE n == Count(calls[c].filter)
             call == [calls[c] EXCEPT !.at = "count", !.total = n]
  <2>1. /\ Listing /\ calls[c] # None /\ calls' = [calls EXCEPT ![c] = call]
        /\ used' = used /\ items' = items
    BY <1>2 DEF ServeList, CountTasks, Read, page, None
  <2> HIDE DEF n
  <2>2. call.at = "count"
    BY <1>0, <2>1 DEF ListType
  <2> HIDE DEF call
  <2>3. \A b \in Connections : calls'[b] = calls[b] \/ calls'[b].at # "read"
    BY <1>0, <2>1, <2>2
  <2> QED BY <2>1, <2>3, FullWhenFew DEF PagesInv
<1>3. CASE ServeList(c) /\ SelectPage(c)
  <2> DEFINE p == PageOf(calls[c].filter, calls[c].number)
             call == [calls[c] EXCEPT !.at = "read", !.items = p]
  <2>1. /\ Listing /\ calls[c] # None /\ calls' = [calls EXCEPT ![c] = call]
        /\ used' = used /\ items' = items
    BY <1>3 DEF ServeList, SelectPage, Read, page, None
  <2>2. /\ calls[c] \in ListType /\ calls[c].total \in Nat
        /\ calls[c].number \in Nat \ {0} /\ calls[c].total <= Count("ALL")
    BY <1>0, <2>1 DEF ListType, IInv, TotalsBounded
  <2>3. calls[c].filter = "ALL" =>
          Cardinality(p) >= CapTo(calls[c].total - (calls[c].number - 1) * PageSize, PageSize)
    BY <2>2, PageIsFull
  <2> HIDE DEF p
  <2>4. /\ call.filter = calls[c].filter /\ call.items = p
        /\ call.total = calls[c].total /\ call.number = calls[c].number
    BY <2>2 DEF ListType
  <2> HIDE DEF call
  <2>5. Full(call)
    BY <2>3, <2>4, Zenon DEF Full
  <2>6. \A b \in Connections : calls'[b] = calls[b] \/ Full(calls'[b])
    BY <1>0, <2>1, <2>5
  <2> QED BY <2>1, <2>6, FullWhenFew DEF PagesInv
<1> QED BY <1>1, <1>2, <1>3 DEF Serve, ServeList

LEMMA AnsweredIsFull ==
  ASSUME IInv, PagesInv, NEW c \in Connections, Answer(c) \/ CallFails(c)
  PROVE  PagesInv'
<1>1. /\ calls' = [calls EXCEPT ![c] = None] /\ used' = used
      /\ DOMAIN calls = Connections
  BY DEF Answer, RenderDetail, RenderTasks, CallFails, Free, IInv, TypeOK
<1>2. \A b \in Connections : calls'[b] \in {calls[b], None}
  BY <1>1
<1>3. CASE items' \in {items, None}
  BY <1>1, <1>2, <1>3, FullWhenFew DEF PagesInv
<1>4. CASE RenderTasks(c)
  <2>1. Listing /\ items' = calls[c] /\ calls[c].at = "read"
    BY <1>4 DEF RenderTasks
  <2>2. items' # None => Full(items')
    BY <2>1 DEF PagesInv, CallsFull
  <2>3. PageCoversTotal'
    BY <2>2 DEF PageCoversTotal, Full
  <2>4. CallsFull'
    BY <1>1, <1>2 DEF CallsFull, PagesInv, Full, Listing
  <2> QED BY <2>3, <2>4 DEF PagesInv
<1> QED BY <1>3, <1>4 DEF Answer, RenderDetail, CallFails

LEMMA PagesStep == IInv /\ PagesInv /\ [PageNext]_vars => PagesInv'
<1> SUFFICES ASSUME IInv, PagesInv, [PageNext]_vars PROVE PagesInv'
  OBVIOUS
<1>1. ASSUME NEW f \in Filters, SetFilter(f) PROVE PagesInv'
  BY <1>1, SentIsFew DEF SetFilter, LoadTasks, ListCall
<1>2. ASSUME NEW n, GoTo(n) PROVE PagesInv'
  BY <1>2, SentIsFew DEF GoTo, LoadTasks, ListCall
<1>3. ASSUME NEW t \in Tasks, View(t) PROVE PagesInv'
  BY <1>3, SentIsFew DEF View, LoadDetail, DetailCall
<1>4. CASE Tick
  BY <1>4, SentIsFew DEF Tick, LoadTasks, ListCall, LoadDetail, DetailCall
<1>5. ASSUME NEW c \in Connections, Serve(c) \/ Answer(c) \/ CallFails(c)
      PROVE  PagesInv'
  BY <1>5, ServedIsFull, AnsweredIsFull
<1>6. CASE Close \/ MoveTask \/ UNCHANGED vars
  <2>1. calls' = calls /\ used' = used /\ items' = items
    BY <1>6 DEF Close, MoveTask, vars, page
  <2> QED BY <2>1, FullWhenFew DEF PagesInv
<1> QED BY <1>1, <1>2, <1>3, <1>4, <1>5, <1>6 DEF PageNext, Prev, NextPage

-------------------------------------------------------------------------------
LEMMA InitIsInductive == PageInit => IInv
<1> SUFFICES ASSUME PageInit PROVE IInv
  OBVIOUS
<1> USE DEF PageInit, Init
<1>1. TypeOK
  BY AbsentType, PageAssumption DEF TypeOK
<1>2. Absent.log \in LogType /\ AccountsFor(Absent.log, Columns(Absent))
  BY DEF Absent, Columns, AccountsFor, Passed, Failures, LogType, LogKind
<1>3. TasksCovered
  BY <1>2 DEF TasksCovered
<1>4. TotalsBounded
  BY <1>1, CountBounds DEF TotalsBounded, TypeOK
<1> QED BY <1>1, <1>3, <1>4 DEF IInv, CallsCovered, DetailIsCovered, PageExists

LEMMA StepKeeps == IInv /\ [PageNext]_vars => IInv'
<1> SUFFICES ASSUME IInv, [PageNext]_vars PROVE IInv'
  OBVIOUS
<1>1. ASSUME NEW f \in Filters, SetFilter(f) PROVE IInv'
  BY <1>1, SetFilterKeeps
<1>2. CASE Prev \/ NextPage
  BY <1>2, PrevKeeps, NextPageKeeps
<1>3. ASSUME NEW t \in Tasks, View(t) PROVE IInv'
  BY <1>3, ViewKeeps
<1>4. CASE Close \/ Tick
  BY <1>4, CloseKeeps, TickKeeps
<1>5. ASSUME NEW c \in Connections, Serve(c) \/ Answer(c) \/ CallFails(c) PROVE IInv'
  BY <1>5, ServeDetailKeeps, ServeListKeeps, AnswerKeeps DEF Serve
<1>6. CASE MoveTask
  BY <1>6, MoveTaskKeeps
<1>7. CASE UNCHANGED vars
  <2>1. Count("ALL")' = Count("ALL") /\ Listing' = Listing
    BY <1>7 DEF vars, Count, Matches, Listing
  <2> QED BY <1>7, <2>1 DEF vars, page, bounds, IInv, TypeOK, TasksCovered,
             CallsCovered, CallCovered, TotalsBounded, DetailIsCovered,
             PageExists, AccountsFor, Le
<1> QED BY <1>1, <1>2, <1>3, <1>4, <1>5, <1>6, <1>7 DEF PageNext

\* The invariant of the page, inductive: what calls under way have read is
\* covered by the log as it now stands, and no total exceeds the count.
THEOREM PageInvariant == PageSpec => []IInv
<1>1. PageInit => IInv
  BY InitIsInductive
<1>2. IInv /\ [PageNext]_vars => IInv'
  BY StepKeeps
<1> QED BY <1>1, <1>2, PTL DEF PageSpec

\* The page, its calls and its table have their types: web/app.js never asks
\* for page 0, nor for the detail of a task it does not know.
THEOREM PageTypes == PageSpec => []TypeOK
<1>1. IInv => TypeOK
  BY DEF IInv
<1> QED BY <1>1, PageInvariant, PTL

\* What the detail pane shows of a task is accounted for by the events beside
\* it, for any number of tasks and calls: GetTask reads the row first.
THEOREM DetailCovered == PageSpec => []DetailIsCovered
<1>1. IInv => DetailIsCovered
  BY DEF IInv
<1> QED BY <1>1, PageInvariant, PTL

\* The unfiltered list is never sent past its end, for any page size.
THEOREM PagesExist == PageSpec => []PageExists
<1>1. IInv => PageExists
  BY DEF IInv
<1> QED BY <1>1, PageInvariant, PTL

\* An unfiltered page is never shorter than the total beside it says, for any
\* page size: the total is counted first, and no task is ever deleted.
THEOREM PagesCoverTotals == PageSpec => []PageCoversTotal
<1>1. PageInit => PagesInv
  BY DEF PageInit, PagesInv, CallsFull, PageCoversTotal
<1>2. IInv /\ PagesInv /\ [PageNext]_vars => PagesInv'
  BY PagesStep
<1>3. PagesInv => PageCoversTotal
  BY DEF PagesInv
<1> QED BY <1>1, <1>2, <1>3, PageInvariant, PTL DEF PageSpec
===============================================================================
