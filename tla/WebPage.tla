-------------------------------- MODULE WebPage --------------------------------
(***************************************************************************)
(* A browser on the API: web/app.js, the handlers GetTask and ListTasks,   *)
(* and the reads behind them, over a table whose tasks move as             *)
(* TaskLifecycle lets them (FilePipeline implements it).                   *)
(*                                                                         *)
(* Each handler makes two statements with no transaction around them, the  *)
(* page sends a new call without waiting for the one before, and answers   *)
(* arrive in any order.  The two panes of the page share nothing but the   *)
(* table: a behaviour has one of them in use.                              *)
(***************************************************************************)
EXTENDS TaskLifecycle, Functions, FiniteSets

CONSTANTS
  Panes,       \* panes in use: "list", "detail"
  CreatedAt,   \* of each id, as text: a number, as only its order counts
  PageSize,    \* state.pageSize
  Filters,     \* what the filter buttons ask for: statuses, or "ALL"
  Connections, \* calls the browser has under way at once
  MaxMoves,    \* bound: moves of tasks
  MaxClicks,   \* bound: clicks of the user
  MaxFails     \* bound: calls that get no answer, or an error

\* Nothing displayed, a connection that is free; nobody selected.
None == [at |-> "none"]
NoTask == "none"

ASSUME PageAssumption ==
  /\ Panes \subseteq {"list", "detail"}
  /\ CreatedAt \in [Tasks -> Nat] /\ IsInjective(CreatedAt)
  /\ IsFiniteSet(Tasks) /\ NoTask \notin Tasks
  /\ PageSize \in Nat \ {0}
  /\ Filters \subseteq Status \cup {"ALL"} /\ "ALL" \in Filters
  /\ Connections \subseteq Nat

VARIABLES
  used,        \* the pane in use
  filter, number, total, selected,   \* app.js: state
  items,       \* the rows on display, with the call they answer
  detail,      \* the task and the log on display
  calls,       \* calls under way, with what their handlers have read
  moves, clicks, fails               \* bound counters

page   == <<filter, number, total, selected, items, detail>>
bounds == <<moves, clicks, fails>>
vars   == <<task, used, page, calls, bounds>>

\* The columns of a task on display.
Columns(a) == [status |-> a.status, stage |-> a.stage, waiting |-> a.waiting,
               retries |-> a.retries]

\* A call, and what its handler has read so far ("at" says how far it got).
DetailCall(t) == [at |-> "sent", id |-> t, row |-> Columns(Absent),
                  log |-> Absent.log]
ListCall(f, n) == [at |-> "sent", filter |-> f, number |-> n, total |-> 0,
                   items |-> {}]
Listing == used = "list"

PageInit ==
  /\ Init
  /\ used \in Panes
  /\ filter = "ALL" /\ number = 1 /\ total = 0 /\ selected = NoTask
  /\ items = None /\ detail = None
  /\ calls = [c \in Connections |-> None]
  /\ moves = 0 /\ clicks = 0 /\ fails = 0

-------------------------------------------------------------------------------
(***************************************************************************)
(* The page.  loadTasks and loadDetail send a call and return; the answer  *)
(* is displayed whenever it comes.                                         *)
(***************************************************************************)
Unused == {c \in Connections : calls[c] = None}
Send(call) == \E c \in Unused :
  /\ \A b \in Unused : c <= b
  /\ calls' = [calls EXCEPT ![c] = call]

LoadTasks(f, n) == Send(ListCall(f, n))
LoadDetail(t) ==
  /\ selected' = t /\ detail' = None
  /\ Send(DetailCall(t))

Click(pane) == used = pane /\ clicks < MaxClicks /\ clicks' = clicks + 1

\* A filter button; or, with the filter as it is, a finished upload.
SetFilter(f) ==
  /\ Click("list")
  /\ filter' = f /\ number' = 1 /\ LoadTasks(f, 1)
  /\ UNCHANGED <<task, used, total, selected, items, detail, moves, fails>>

GoTo(n) ==
  /\ Click("list")
  /\ number' = n /\ LoadTasks(filter, n)
  /\ UNCHANGED <<task, used, filter, total, selected, items, detail, moves,
                 fails>>
Prev == number > 1 /\ GoTo(number - 1)
NextPageVariant == number * PageSize <= total /\ GoTo(number + 1)
NextPage == number * PageSize < total /\ GoTo(number + 1)

\* A row's button; the end of an upload, or of a retry begun some time ago.
View(t) ==
  /\ Click("detail") /\ task[t] # Absent
  /\ LoadDetail(t)
  /\ UNCHANGED <<task, used, filter, number, total, items, moves, fails>>

Close ==
  /\ Click("detail")
  /\ selected' = NoTask /\ detail' = None
  /\ UNCHANGED <<task, used, filter, number, total, items, calls, moves, fails>>

\* setInterval, and the refresh button.
TickVariant ==                                \* only the list is refreshed
  /\ Listing /\ LoadTasks(filter, number)
  /\ UNCHANGED <<task, used, page, bounds>>
TickVariantFirst ==                           \* always the first page
  /\ IF Listing THEN LoadTasks(filter, 1) /\ UNCHANGED <<selected, detail>>
                ELSE selected # NoTask /\ LoadDetail(selected)
  /\ UNCHANGED <<task, used, filter, number, total, items, bounds>>
Tick ==
  /\ IF Listing THEN LoadTasks(filter, number) /\ UNCHANGED <<selected, detail>>
                ELSE selected # NoTask /\ LoadDetail(selected)
  /\ UNCHANGED <<task, used, filter, number, total, items, bounds>>

-------------------------------------------------------------------------------
(***************************************************************************)
(* The handlers.                                                           *)
(***************************************************************************)
\* One statement of the handler of call c, which takes it from "at" on.
Read(c, from, call) ==
  /\ calls[c].at = from
  /\ calls' = [calls EXCEPT ![c] = call]
  /\ UNCHANGED <<task, used, page, bounds>>

GetTask(c) ==
  Read(c, "sent", [calls[c] EXCEPT !.at = "row",
                                   !.row = Columns(task[calls[c].id])])
Events(c) ==
  Read(c, "row", [calls[c] EXCEPT !.at = "read", !.log = task[calls[c].id].log])
ServeDetailVariant(c) ==                      \* the events read first
  /\ ~Listing
  /\ \/ Read(c, "sent", [calls[c] EXCEPT !.at = "row",
                                         !.log = task[calls[c].id].log])
     \/ Read(c, "row", [calls[c] EXCEPT !.at = "read",
                                        !.row = Columns(task[calls[c].id])])
ServeDetail(c) == ~Listing /\ (GetTask(c) \/ Events(c))

Matches(t, f) == task[t].status = f \/ (f = "ALL" /\ task[t] # Absent)
Count(f) == Cardinality({t \in Tasks : Matches(t, f)})
CountTasks(c) ==
  Read(c, "sent", [calls[c] EXCEPT !.at = "count",
                                   !.total = Count(calls[c].filter)])

\* ORDER BY created_at DESC LIMIT ? OFFSET ?: the page is the rows that have
\* as many rows before them as it says; their order within it is left out.
Before(t, f) == Cardinality({u \in Tasks : Matches(u, f) /\ CreatedAt[u] > CreatedAt[t]})
PageOf(f, n) ==
  {[id |-> t, row |-> Columns(task[t])] : t \in
     {u \in Tasks : Matches(u, f)
                    /\ Before(u, f) \in (n - 1) * PageSize .. n * PageSize - 1}}
SelectPage(c) ==
  Read(c, "count", [calls[c] EXCEPT !.at = "read",
                          !.items = PageOf(calls[c].filter, calls[c].number)])
ServeListVariant(c) ==                        \* the page read first
  /\ Listing
  /\ \/ Read(c, "sent", [calls[c] EXCEPT !.at = "count",
                             !.items = PageOf(calls[c].filter, calls[c].number)])
     \/ Read(c, "count", [calls[c] EXCEPT !.at = "read",
                                          !.total = Count(calls[c].filter)])
ServeList(c) == Listing /\ (CountTasks(c) \/ SelectPage(c))

-------------------------------------------------------------------------------
(***************************************************************************)
(* The answers.                                                            *)
(***************************************************************************)
Free(c) == calls' = [calls EXCEPT ![c] = None]

\* renderDetail does not ask whether the task is still selected.
RenderDetail(c) ==
  /\ ~Listing /\ calls[c].at = "read"
  /\ detail' = calls[c] /\ Free(c)
  /\ UNCHANGED <<task, used, filter, number, total, selected, items, bounds>>

RenderTasks(c) ==
  /\ Listing /\ calls[c].at = "read"
  /\ total' = calls[c].total /\ items' = calls[c] /\ Free(c)
  /\ UNCHANGED <<task, used, filter, number, selected, detail, bounds>>

\* A message in the place of what was to be displayed.
CallFails(c) ==
  /\ calls[c] # None
  /\ fails < MaxFails /\ fails' = fails + 1
  /\ IF Listing THEN items' = None /\ UNCHANGED detail
                ELSE detail' = None /\ UNCHANGED items
  /\ Free(c)
  /\ UNCHANGED <<task, used, filter, number, total, selected, moves, clicks>>

MoveTask ==
  /\ moves < MaxMoves /\ moves' = moves + 1
  /\ \E t \in Tasks : \E a \in Moves(task[t]) : task' = [task EXCEPT ![t] = a]
  /\ UNCHANGED <<used, page, calls, clicks, fails>>

-------------------------------------------------------------------------------
Serve(c) == ServeDetail(c) \/ ServeList(c)
Answer(c) == RenderDetail(c) \/ RenderTasks(c)

PageNext ==
  \/ \E f \in Filters : SetFilter(f)
  \/ Prev \/ NextPage
  \/ \E t \in Tasks : View(t)
  \/ Close \/ Tick
  \/ \E c \in Connections : Serve(c) \/ Answer(c) \/ CallFails(c)
  \/ MoveTask

PageSpec == PageInit /\ [][PageNext]_vars

(***************************************************************************)
(* The page is visible, so its interval keeps firing, and a call gets its  *)
(* answer.  Nothing is assumed of the user, nor of the tasks.              *)
(***************************************************************************)
FairSpec ==
  /\ PageSpec /\ WF_vars(Tick)
  /\ \A c \in Connections : WF_vars(Serve(c) \/ Answer(c))

-------------------------------------------------------------------------------
(***************************************************************************)
(* Properties.                                                             *)
(***************************************************************************)
LogType == [LogKind -> Nat]
RowType == [status: Status \cup {"ABSENT"}, stage: Stage, waiting: BOOLEAN,
            retries: Nat]
TaskType == [status: Status \cup {"ABSENT"}, stage: Stage, waiting: BOOLEAN,
             retries: Nat, log: LogType]
Steps == {"sent", "row", "count", "read"}
DetailType == [at: Steps, id: Tasks, row: RowType, log: LogType]
ListType == [at: Steps, filter: Filters, number: Nat \ {0}, total: Nat,
             items: SUBSET [id: Tasks, row: RowType]]
TypeOK ==
  /\ task \in [Tasks -> TaskType]
  /\ used \in Panes /\ filter \in Filters /\ number \in Nat \ {0} /\ total \in Nat
  /\ selected \in Tasks \cup {NoTask}
  /\ items \in ListType \cup {None} /\ detail \in DetailType \cup {None}
  /\ calls \in [Connections -> (IF Listing THEN ListType ELSE DetailType)
                              \cup {None}]
  /\ moves \in Nat /\ clicks \in Nat /\ fails \in Nat

\* A log that accounts for a row: a SUCCEEDED event for each stage passed, a
\* FAILED one for each retry and for the failure a row stands at.
Failures(r) == r.retries + IF r.status \in {"FAILED", "DEAD"} THEN 1 ELSE 0
AccountsFor(log, r) ==
  /\ \A s \in Passed(r) : log[s] >= 1
  /\ log["FAILED"] >= Failures(r)

\* The detail view is read in two statements, and the log on display is never
\* behind the row beside it, whatever was written between; nor does it show
\* what has not happened.
DetailIsCovered == detail # None =>
  /\ AccountsFor(detail.log, detail.row)
  /\ \A k \in LogKind : detail.log[k] <= task[detail.id].log[k]

\* The total is counted before the page is read, and an unfiltered page is
\* never shorter than the total says.
CapTo(n, limit) == IF n > limit THEN limit ELSE n
PageCoversTotal == items # None /\ items.filter = "ALL" =>
  Cardinality(items.items) >=
    CapTo(items.total - (items.number - 1) * PageSize, PageSize)

\* A user who looks at all tasks is never sent to a page that does not exist,
\* though "next" is decided on the total of whichever answer came last, be it
\* of another filter.
PageExists == filter = "ALL" /\ number > 1 =>
  (number - 1) * PageSize < Count("ALL")

\* Once the user lets the page be and the tasks come to rest, the detail pane
\* keeps coming back to the selected task as it is, and shows nothing else:
\* answers of earlier calls that arrive late are overwritten.
UpToDate(t) == /\ detail.id = t /\ detail.row = Columns(task[t])
               /\ detail.log = task[t].log
DetailConverges == \A t \in Tasks : <>[](selected = t) =>
  /\ []<>(detail # None)
  /\ <>[](detail # None => UpToDate(t))

\* So does the list, for the filter and the page the user has chosen.
ListConverges == <>[]Listing => <>[](items # None =>
  /\ items.filter = filter /\ items.number = number
  /\ items.total = Count(filter) /\ total = items.total
  /\ items.items = PageOf(filter, number))
===============================================================================
