--------------------------------- MODULE Upload ---------------------------------
(***************************************************************************)
(* api.Upload and storage.Local: an upload writes its file, then its row.  *)
(* No transaction spans the two, so the handler removes the file of a row  *)
(* it could not insert; nothing ever looks for files without a row.        *)
(*                                                                         *)
(* A file is the number of chunks written to it, and stands for its size   *)
(* and its hash as well.  Stored names are random and created with O_EXCL: *)
(* each request has a file of its own.                                     *)
(***************************************************************************)
EXTENDS Naturals, FiniteSets

CONSTANTS
  Requests,     \* uploads, with the handlers that serve them
  Limit,        \* MaxFileSize in chunks
  MaxFaults,    \* bound: calls of the file system or the database that fail
  MaxLate,      \* bound: INSERTs that take effect and return an error
  MaxCrashes    \* bound: deaths of the API process

ASSUME LimitAssumption == Limit \in Nat

\* A stored file, and what a row tells of it.
Absent    == [chunks |-> 0, there |-> FALSE]
Stored(n) == [chunks |-> n, there |-> TRUE]

VARIABLES
  body,     \* chunks of each uploaded file
  blank,    \* requests whose file name is blank
  gone,     \* requests whose client has left: r.Context is cancelled
  pc,       \* where the handler is, or how it answered
  read,     \* chunks Save has read and hashed
  file,     \* the stored files
  row,      \* the task's row, if any, with the size it tells
  answered, \* requests told 201
  stuck,    \* files whose removal failed
  late,     \* rows whose INSERT returned an error
  faults, crashes    \* bound counters

disk == <<file, stuck>>
vars == <<body, blank, gone, pc, read, disk, row, answered, late, faults, crashes>>

Working == {"start", "copy", "discard", "saved", "insert", "undo", "reply"}
Ended   == {"done", "dead"}

Init ==
  /\ body \in [Requests -> 0 .. Limit + 1] /\ blank \in SUBSET Requests
  /\ gone = {} /\ pc = [r \in Requests |-> "start"]
  /\ read = [r \in Requests |-> 0] /\ file = [r \in Requests |-> Absent]
  /\ row = [r \in Requests |-> Absent] /\ answered = {} /\ stuck = {} /\ late = {}
  /\ faults = 0 /\ crashes = 0

Goto(r, l) == pc' = [pc EXCEPT ![r] = l]
Fault      == faults < MaxFaults /\ faults' = faults + 1

-------------------------------------------------------------------------------
(***************************************************************************)
(* storage.Save.  A return before ok is set runs the deferred removal.     *)
(***************************************************************************)

\* The Content-Length, when the client sends it, or a form that cannot be parsed.
Refuse(r) ==
  /\ pc[r] = "start" /\ Goto(r, "done")
  /\ UNCHANGED <<body, blank, gone, read, disk, row, answered, late, faults, crashes>>

CreateFile(r) ==
  /\ pc[r] = "start"
  /\ \/ /\ file' = [file EXCEPT ![r] = Stored(0)] /\ Goto(r, "copy")
        /\ UNCHANGED faults
     \/ Fault /\ Goto(r, "done") /\ UNCHANGED file
  /\ UNCHANGED <<body, blank, gone, read, stuck, row, answered, late, crashes>>

\* Variant of Copy: a file that passes the limit is cut there.
CopyVariant(r) ==
  /\ pc[r] = "copy" /\ r \notin gone /\ read[r] < body[r]
  /\ IF read[r] + 1 > Limit
     THEN Goto(r, "saved") /\ UNCHANGED <<read, file>>
     ELSE /\ read' = [read EXCEPT ![r] = @ + 1]
          /\ file' = [file EXCEPT ![r] = Stored(@.chunks + 1)] /\ UNCHANGED pc
  /\ UNCHANGED <<body, blank, gone, stuck, row, answered, late, faults, crashes>>
Copy(r) ==
  /\ pc[r] = "copy" /\ r \notin gone /\ read[r] < body[r] /\ read[r] + 1 <= Limit
  /\ read' = [read EXCEPT ![r] = @ + 1]
  /\ file' = [file EXCEPT ![r] = Stored(@.chunks + 1)]
  /\ UNCHANGED <<body, blank, gone, pc, stuck, row, answered, late, faults, crashes>>

\* The client left, the size passed the limit, or a read, write or sync failed.
SaveFails(r) ==
  /\ pc[r] = "copy" /\ Goto(r, "discard")
  /\ \/ (r \in gone \/ (read[r] < body[r] /\ read[r] + 1 > Limit))
        /\ UNCHANGED faults
     \/ Fault
  /\ UNCHANGED <<body, blank, gone, read, disk, row, answered, late, crashes>>

\* The end of the body; Save looks at the context before each read, not after.
Saved(r) ==
  /\ pc[r] = "copy" /\ r \notin gone /\ read[r] = body[r] /\ Goto(r, "saved")
  /\ UNCHANGED <<body, blank, gone, read, disk, row, answered, late, faults, crashes>>

\* os.Remove fails or not; its error is dropped.
RemoveFile(r) ==
  \/ file' = [file EXCEPT ![r] = Absent] /\ UNCHANGED <<stuck, faults>>
  \/ stuck' = stuck \cup {r} /\ Fault /\ UNCHANGED file

Discard(r) ==
  /\ pc[r] = "discard" /\ RemoveFile(r) /\ Goto(r, "done")
  /\ UNCHANGED <<body, blank, gone, read, row, answered, late, crashes>>

-------------------------------------------------------------------------------
(***************************************************************************)
(* The handler after Save.                                                 *)
(***************************************************************************)
NewTask(r) ==
  /\ pc[r] = "saved" /\ Goto(r, IF r \in blank THEN "undo" ELSE "insert")
  /\ UNCHANGED <<body, blank, gone, read, disk, row, answered, late, faults, crashes>>

\* The row tells the size and the hash Save returned.
Insert(r) == row' = [row EXCEPT ![r] = Stored(read[r])]

CreateTask(r) ==
  /\ pc[r] = "insert" /\ r \notin gone /\ Insert(r) /\ Goto(r, "reply")
  /\ UNCHANGED <<body, blank, gone, read, disk, answered, late, faults, crashes>>

CreateTaskFails(r) ==
  /\ pc[r] = "insert" /\ Goto(r, "undo")
  /\ (r \in gone /\ UNCHANGED faults) \/ Fault
  /\ UNCHANGED <<body, blank, gone, read, disk, row, answered, late, crashes>>

\* The client leaves while the statement runs: ExecContext may return the
\* context's error although the row is there.
CreateTaskLate(r) ==
  /\ pc[r] = "insert" /\ r \notin gone /\ Cardinality(late) < MaxLate
  /\ gone' = gone \cup {r} /\ Insert(r) /\ late' = late \cup {r} /\ Goto(r, "undo")
  /\ UNCHANGED <<body, blank, read, disk, answered, faults, crashes>>

\* Variant of Undo: the removal is given the context of the request.
UndoVariant(r) ==
  /\ pc[r] = "undo" /\ Goto(r, "done")
  /\ \/ r \in gone /\ UNCHANGED <<disk, faults>>
     \/ r \notin gone /\ RemoveFile(r)
  /\ UNCHANGED <<body, blank, gone, read, row, answered, late, crashes>>
\* storage.Remove under context.Background: it runs though the client left.
Undo(r) ==
  /\ pc[r] = "undo" /\ RemoveFile(r) /\ Goto(r, "done")
  /\ UNCHANGED <<body, blank, gone, read, row, answered, late, crashes>>

\* Variant of Reply: an answer nobody waits for is treated as a failure.
ReplyVariant(r) ==
  /\ pc[r] = "reply" /\ answered' = answered \cup {r} /\ Goto(r, "done")
  /\ file' = IF r \in gone THEN [file EXCEPT ![r] = Absent] ELSE file
  /\ UNCHANGED <<body, blank, gone, read, stuck, row, late, faults, crashes>>
Reply(r) ==
  /\ pc[r] = "reply" /\ answered' = answered \cup {r} /\ Goto(r, "done")
  /\ UNCHANGED <<body, blank, gone, read, disk, row, late, faults, crashes>>

-------------------------------------------------------------------------------
Leave(r) ==
  /\ pc[r] \in Working /\ r \notin gone /\ gone' = gone \cup {r}
  /\ UNCHANGED <<body, blank, pc, read, disk, row, answered, late, faults, crashes>>

\* The API dies, or leaves Shutdown after its 10 s, and every handler with it;
\* requests not yet begun meet the next process.
Crash ==
  /\ crashes < MaxCrashes /\ crashes' = crashes + 1
  /\ pc' = [r \in Requests |-> IF pc[r] \in Ended \cup {"start"} THEN pc[r] ELSE "dead"]
  /\ UNCHANGED <<body, blank, gone, read, disk, row, answered, late, faults>>

AllEnded == (\A r \in Requests : pc[r] \in Ended) /\ UNCHANGED vars

Serve(r) ==
  \/ Refuse(r) \/ CreateFile(r) \/ Copy(r) \/ SaveFails(r) \/ Saved(r) \/ Discard(r)
  \/ NewTask(r) \/ CreateTask(r) \/ CreateTaskFails(r) \/ CreateTaskLate(r)
  \/ Undo(r) \/ Reply(r)

Next == (\E r \in Requests : Serve(r) \/ Leave(r)) \/ Crash \/ AllEnded
Spec == Init /\ [][Next]_vars

-------------------------------------------------------------------------------
(***************************************************************************)
(* Properties.                                                             *)
(***************************************************************************)
TypeOK ==
  /\ body \in [Requests -> 0 .. Limit + 1] /\ blank \subseteq Requests
  /\ gone \subseteq Requests /\ pc \in [Requests -> Working \cup Ended]
  /\ read \in [Requests -> 0 .. Limit]
  /\ file \in [Requests -> [chunks : 0 .. Limit, there : BOOLEAN]]
  /\ row \in [Requests -> [chunks : 0 .. Limit, there : BOOLEAN]]
  /\ answered \subseteq Requests /\ stuck \subseteq Requests /\ late \subseteq Requests
  /\ faults \in Nat /\ crashes \in Nat

\* A task describes the whole of its upload, never a part of it, and its file is
\* there for the workers (they compare its hash with the row's) whoever left,
\* failed or died; but an INSERT that took effect and returned an error leaves a
\* task that cannot pass VALIDATE.
TaskHasFile == \A r \in Requests : row[r].there =>
  row[r] = Stored(body[r]) /\ (file[r] = Stored(body[r]) \/ r \in late)

\* What a client was told is kept: after 201 the task and its file stay.
AnsweredIsStored == \A r \in answered :
  row[r] = Stored(body[r]) /\ file[r] = Stored(body[r])

\* A file without a task belongs to an upload under way, unless the process died
\* in it or the file could not be removed: a refused or abandoned upload leaves
\* nothing (docs/04, 5 leaves cleaning up to the operator).
OrphanHasCause == \A r \in Requests : file[r].there /\ ~ row[r].there =>
  pc[r] \in Working \cup {"dead"} \/ r \in stuck
(***************************************************************************)
(* The inductive invariant: what stands on disk and in the table at each   *)
(* point of the handler.                                                   *)
(***************************************************************************)
Progress(r) ==
  /\ pc[r] \in {"start", "copy", "saved", "insert", "discard"} => ~ row[r].there
  /\ pc[r] = "start" => ~ file[r].there /\ read[r] = 0
  /\ pc[r] \in {"copy", "saved", "insert"} => file[r] = Stored(read[r])
  /\ pc[r] \in {"saved", "insert"} => read[r] = body[r]
  /\ pc[r] = "undo" /\ row[r].there => r \in late
  /\ pc[r] = "reply" => row[r] = Stored(body[r]) /\ file[r] = Stored(body[r])
  /\ r \in answered => pc[r] = "done"

IInv == /\ TypeOK /\ TaskHasFile /\ AnsweredIsStored /\ OrphanHasCause
        /\ \A r \in Requests : Progress(r)
===============================================================================
