------------------------------ MODULE UploadProofs ------------------------------
(***************************************************************************)
(* Theorems about Upload, for any requests and any file size limit.        *)
(***************************************************************************)
EXTENDS Upload, TLAPS

\* All that the invariant says of one request.
Sound(r) ==
  /\ row[r].there => row[r] = Stored(body[r])
                     /\ (file[r] = Stored(body[r]) \/ r \in late)
  /\ r \in answered => row[r] = Stored(body[r]) /\ file[r] = Stored(body[r])
  /\ file[r].there /\ ~ row[r].there =>
       pc[r] \in Working \cup {"dead"} \/ r \in stuck
  /\ Progress(r)

LEMMA InvariantByRequest == IInv <=> TypeOK /\ \A r \in Requests : Sound(r)
<1>1. TypeOK => answered \subseteq Requests
  BY DEF TypeOK
<1> QED BY <1>1 DEF IInv, TaskHasFile, AnsweredIsStored, OrphanHasCause, Sound

LEMMA UploadInit == Init => IInv
<1> SUFFICES ASSUME Init PROVE IInv
  OBVIOUS
<1>1. Absent \in [chunks : 0 .. Limit, there : BOOLEAN] /\ ~ Absent.there
  BY LimitAssumption DEF Absent
<1>2. TypeOK
  <2>1. 0 \in 0 .. Limit
    BY LimitAssumption
  <2>2. /\ pc \in [Requests -> Working \cup Ended]
        /\ read \in [Requests -> 0 .. Limit]
        /\ file \in [Requests -> [chunks : 0 .. Limit, there : BOOLEAN]]
        /\ row \in [Requests -> [chunks : 0 .. Limit, there : BOOLEAN]]
    BY <1>1, <2>1 DEF Init, Working
  <2> QED BY <2>2 DEF Init, TypeOK
<1>3. ASSUME NEW r \in Requests PROVE Sound(r)
  BY <1>1 DEF Init, Sound, Progress
<1> QED BY <1>2, <1>3, InvariantByRequest

\* A step of one request leaves the others as they are.
Others(r) ==
  /\ body' = body
  /\ \A q \in Requests \ {r} :
       /\ pc'[q] = pc[q] /\ read'[q] = read[q] /\ file'[q] = file[q]
       /\ row'[q] = row[q]
       /\ (q \in answered') = (q \in answered) /\ (q \in late') = (q \in late)
       /\ (q \in stuck') = (q \in stuck)

LEMMA OneRequest ==
  ASSUME IInv, TypeOK', NEW r \in Requests, Others(r), Sound(r)'
  PROVE  IInv'
<1>1. ASSUME NEW q \in Requests, q # r PROVE Sound(q)'
  <2>1. Sound(q)
    BY InvariantByRequest
  <2> QED BY <1>1, <2>1 DEF Others, Sound, Progress
<1>2. \A q \in Requests : Sound(q)'
  BY <1>1
<1> QED BY <1>2 DEF IInv, TypeOK, TaskHasFile, AnsweredIsStored, OrphanHasCause, Sound

LEMMA UploadType == IInv /\ [Next]_vars => TypeOK'
<1> SUFFICES ASSUME TypeOK, \A r \in Requests : Progress(r), [Next]_vars
             PROVE  TypeOK'
  BY DEF IInv
<1> USE LimitAssumption DEF TypeOK, Goto, Fault, disk, Working, Ended
<1>1. ASSUME NEW r \in Requests, Refuse(r) \/ Saved(r) \/ NewTask(r) PROVE TypeOK'
  BY <1>1 DEF Refuse, Saved, NewTask
<1>2. ASSUME NEW r \in Requests, CreateFile(r) PROVE TypeOK'
  <2>1. Stored(0) \in [chunks : 0 .. Limit, there : BOOLEAN]
    BY DEF Stored
  <2>2. /\ file' \in [Requests -> [chunks : 0 .. Limit, there : BOOLEAN]]
        /\ pc' \in [Requests -> Working \cup Ended] /\ faults' \in Nat
    <3>1. CASE file' = [file EXCEPT ![r] = Stored(0)] /\ Goto(r, "copy") /\ UNCHANGED faults
      BY <2>1, <3>1
    <3>2. CASE Fault /\ Goto(r, "done") /\ UNCHANGED file
      BY <3>2
    <3> QED BY <1>2, <3>1, <3>2 DEF CreateFile
  <2> QED BY <1>2, <2>2 DEF CreateFile
<1>3. ASSUME NEW r \in Requests, Copy(r) PROVE TypeOK'
  <2>1. read[r] + 1 \in 0 .. Limit /\ file[r].chunks + 1 \in 0 .. Limit
    BY <1>3 DEF Copy, Progress, Stored
  <2>2. /\ read' \in [Requests -> 0 .. Limit]
        /\ file' \in [Requests -> [chunks : 0 .. Limit, there : BOOLEAN]]
    BY <1>3, <2>1 DEF Copy, Stored
  <2> QED BY <1>3, <2>2 DEF Copy
<1>4. ASSUME NEW r \in Requests, SaveFails(r) \/ CreateTaskFails(r) PROVE TypeOK'
  <2>1. faults' \in Nat
    BY <1>4 DEF SaveFails, CreateTaskFails
  <2>2. pc' \in [Requests -> Working \cup Ended]
    BY <1>4 DEF SaveFails, CreateTaskFails
  <2> QED BY <1>4, <2>1, <2>2 DEF SaveFails, CreateTaskFails
<1>5. ASSUME NEW r \in Requests, Discard(r) \/ Undo(r) PROVE TypeOK'
  <2>1. Absent \in [chunks : 0 .. Limit, there : BOOLEAN]
    BY DEF Absent
  <2>2. /\ file' \in [Requests -> [chunks : 0 .. Limit, there : BOOLEAN]]
        /\ faults' \in Nat /\ stuck' \subseteq Requests
    BY <1>5, <2>1 DEF Discard, Undo, RemoveFile
  <2>3. pc' \in [Requests -> Working \cup Ended]
    BY <1>5 DEF Discard, Undo
  <2> QED BY <1>5, <2>2, <2>3 DEF Discard, Undo
<1>6. ASSUME NEW r \in Requests, CreateTask(r) \/ CreateTaskLate(r) PROVE TypeOK'
  <2>1. Stored(read[r]) \in [chunks : 0 .. Limit, there : BOOLEAN]
    BY DEF Stored
  <2>2. row' \in [Requests -> [chunks : 0 .. Limit, there : BOOLEAN]]
    BY <1>6, <2>1 DEF CreateTask, CreateTaskLate, Insert
  <2>3. CASE CreateTask(r)
    BY <2>2, <2>3 DEF CreateTask
  <2>4. CASE CreateTaskLate(r)
    BY <2>2, <2>4 DEF CreateTaskLate
  <2> QED BY <1>6, <2>3, <2>4
<1>7. ASSUME NEW r \in Requests, Reply(r) \/ Leave(r) PROVE TypeOK'
  BY <1>7 DEF Reply, Leave
<1>8. CASE Crash \/ UNCHANGED vars
  BY <1>8 DEF Crash, vars
<1> QED BY <1>1, <1>2, <1>3, <1>4, <1>5, <1>6, <1>7, <1>8 DEF Next, Serve, AllEnded

LEMMA ServeStep ==
  ASSUME IInv, TypeOK', NEW r \in Requests, Serve(r) \/ Leave(r) PROVE IInv'
<1>1. TypeOK /\ Sound(r)
  BY InvariantByRequest DEF IInv
<1> USE <1>1 DEF TypeOK, Goto, disk
<1>2. Others(r) /\ Sound(r)'
  <2> USE DEF Others, Sound, Progress, Stored, Working
  <2>1. CASE Refuse(r) \/ Saved(r) \/ NewTask(r)
    BY <2>1 DEF Refuse, Saved, NewTask
  <2>2. CASE CreateFile(r)
    <3>1. CASE file' = [file EXCEPT ![r] = Stored(0)] /\ Goto(r, "copy")
      BY <2>2, <3>1 DEF CreateFile
    <3>2. CASE Goto(r, "done") /\ UNCHANGED file
      BY <2>2, <3>2 DEF CreateFile
    <3> QED BY <2>2, <3>1, <3>2 DEF CreateFile
  <2>3. CASE Copy(r)
    <3>1. file'[r] = Stored(read'[r])
      <4>1. file[r].chunks = read[r] /\ read[r] \in Nat
        BY <2>3 DEF Copy
      <4>2. file'[r] = Stored(file[r].chunks + 1) /\ read'[r] = read[r] + 1
        BY <2>3 DEF Copy
      <4> QED BY <4>1, <4>2
    <3> QED BY <2>3, <3>1 DEF Copy
  <2>4. CASE SaveFails(r) \/ CreateTaskFails(r)
    BY <2>4 DEF SaveFails, CreateTaskFails, Fault
  <2>5. CASE Discard(r)
    BY <2>5 DEF Discard, RemoveFile, Absent, Fault
  <2>6. CASE Undo(r)
    BY <2>6 DEF Undo, RemoveFile, Absent, Fault
  <2>7. CASE CreateTask(r)
    BY <2>7 DEF CreateTask, Insert
  <2>8. CASE CreateTaskLate(r)
    BY <2>8 DEF CreateTaskLate, Insert
  <2>9. CASE Reply(r) \/ Leave(r)
    BY <2>9 DEF Reply, Leave
  <2> QED BY <2>1, <2>2, <2>3, <2>4, <2>5, <2>6, <2>7, <2>8, <2>9 DEF Serve
<1> QED BY <1>2, OneRequest

LEMMA UploadStep == IInv /\ [Next]_vars => IInv'
<1> SUFFICES ASSUME IInv, [Next]_vars PROVE IInv'
  OBVIOUS
<1>1. TypeOK'
  BY UploadType
<1>2. ASSUME NEW r \in Requests, Serve(r) \/ Leave(r) PROVE IInv'
  BY <1>1, <1>2, ServeStep
<1>3. CASE Crash
  <2>1. ASSUME NEW r \in Requests
        PROVE  \/ pc'[r] = pc[r]
               \/ pc[r] \notin Ended \cup {"start"} /\ pc'[r] = "dead"
    BY <1>3 DEF Crash
  <2>2. TypeOK /\ \A r \in Requests : Sound(r)
    BY InvariantByRequest
  <2>3. ASSUME NEW r \in Requests PROVE Sound(r)'
    <3>1. CASE pc'[r] = pc[r]
      BY <1>3, <2>2, <3>1 DEF Crash, disk, Sound, Progress
    <3>2. CASE pc[r] \notin Ended \cup {"start"} /\ pc'[r] = "dead"
      BY <1>3, <2>2, <3>2 DEF Crash, disk, Sound, Progress, Ended
    <3> QED BY <2>1, <3>1, <3>2
  <2> QED BY <1>1, <2>3 DEF IInv, TypeOK, TaskHasFile, AnsweredIsStored,
             OrphanHasCause, Sound
<1>4. CASE UNCHANGED vars
  BY <1>1, <1>4 DEF vars, disk, IInv, TaskHasFile, AnsweredIsStored,
     OrphanHasCause, Progress
<1> QED BY <1>2, <1>3, <1>4 DEF Next, AllEnded

\* What an upload has on disk and in the table at each point of its handler.
THEOREM UploadInvariant == Spec => []IInv
BY UploadInit, UploadStep, PTL DEF Spec

\* Disk, table and every upload's place in its handler keep their types.
THEOREM UploadTypes == Spec => []TypeOK
<1>1. IInv => TypeOK
  BY DEF IInv
<1> QED BY <1>1, UploadInvariant, PTL

\* A task describes the whole of its upload and its file is there, unless its
\* INSERT took effect and returned an error.
THEOREM TasksHaveFiles == Spec => []TaskHasFile
<1>1. IInv => TaskHasFile
  BY DEF IInv
<1> QED BY <1>1, UploadInvariant, PTL

\* An upload answered with 201 keeps its task and its file.
THEOREM AnswersAreKept == Spec => []AnsweredIsStored
<1>1. IInv => AnsweredIsStored
  BY DEF IInv
<1> QED BY <1>1, UploadInvariant, PTL

\* A file without a task belongs to an upload under way, to one that died, or to
\* a removal that failed.
THEOREM OrphansHaveCauses == Spec => []OrphanHasCause
<1>1. IInv => OrphanHasCause
  BY DEF IInv
<1> QED BY <1>1, UploadInvariant, PTL
===============================================================================
