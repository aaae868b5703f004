--------------------------- MODULE WorkerPoolProofs ---------------------------
(***************************************************************************)
(* Theorems about one worker process: whatever the number of tasks, of     *)
(* goroutines and the size of a batch, the channel protocol holds and a    *)
(* task has at most one copy that can write.                               *)
(***************************************************************************)
EXTENDS WorkerPool, FiniteSetTheorems, SequenceTheorems, TLAPS

(***************************************************************************)
(* Sequences of jobs.                                                      *)
(***************************************************************************)
Fresh(t) == [id |-> t, fresh |-> TRUE]

LEMMA FreshInIs ==
  ASSUME NEW q, NEW t PROVE FreshIn(q, t) = {i \in DOMAIN q : q[i] = Fresh(t)}
BY DEF FreshIn, Fresh

LEMMA EmptyHasNone == ASSUME NEW t PROVE FreshIn(<<>>, t) = {}
BY DEF FreshIn

LEMMA LengthZero == ASSUME NEW q \in Seq(Job) PROVE Len(q) = 0 <=> q = <<>>
BY EmptySeq

LEMMA AppendFresh ==
  ASSUME NEW q \in Seq(Job), NEW j \in Job, NEW t
  PROVE  FreshIn(Append(q, j), t) =
           FreshIn(q, t) \cup (IF j = Fresh(t) THEN {Len(q) + 1} ELSE {})
<1>1. /\ DOMAIN q = 1 .. Len(q) /\ Len(q) \in Nat
      /\ DOMAIN Append(q, j) = 1 .. Len(q) + 1
      /\ \A i \in 1 .. Len(q) : Append(q, j)[i] = q[i]
      /\ Append(q, j)[Len(q) + 1] = j
  BY LenProperties
<1>2. 1 .. Len(q) + 1 = (1 .. Len(q)) \cup {Len(q) + 1}
  BY <1>1
<1> QED BY <1>1, <1>2, FreshInIs

LEMMA TailFresh ==
  ASSUME NEW q \in Seq(Job), q # <<>>, NEW t
  PROVE  /\ Head(q) = Fresh(t) <=> 1 \in FreshIn(q, t)
         /\ \A i \in FreshIn(Tail(q), t) : /\ i \in Nat \ {0}
                                           /\ i + 1 \in FreshIn(q, t)
<1>1. /\ Len(q) \in Nat \ {0} /\ DOMAIN q = 1 .. Len(q) /\ Head(q) = q[1]
      /\ DOMAIN Tail(q) = 1 .. (Len(q) - 1)
      /\ \A i \in 1 .. (Len(q) - 1) : Tail(q)[i] = q[i + 1]
  BY EmptySeq, LenProperties, HeadTailProperties
<1>2. Head(q) = Fresh(t) <=> 1 \in FreshIn(q, t)
  BY <1>1, FreshInIs
<1>3. ASSUME NEW i \in FreshIn(Tail(q), t)
      PROVE  i \in Nat \ {0} /\ i + 1 \in FreshIn(q, t)
  <2>1. i \in DOMAIN Tail(q) /\ Tail(q)[i] = Fresh(t)
    BY <1>3, FreshInIs
  <2>2. i \in 1 .. (Len(q) - 1)
    BY <1>1, <2>1
  <2>3. i + 1 \in 1 .. Len(q) /\ q[i + 1] = Fresh(t)
    BY <1>1, <2>1, <2>2
  <2> QED BY <1>1, <2>2, <2>3, FreshInIs
<1> QED BY <1>2, <1>3

Aged(q, S) == [i \in DOMAIN q |-> [q[i] EXCEPT !.fresh = @ /\ q[i].id \notin S]]

LEMMA AgedJob ==
  ASSUME NEW j \in Job, NEW S, NEW t
  PROVE  /\ [j EXCEPT !.fresh = @ /\ j.id \notin S] \in Job
         /\ [j EXCEPT !.fresh = @ /\ j.id \notin S] = Fresh(t) <=>
              j = Fresh(t) /\ t \notin S
<1> DEFINE k == [j EXCEPT !.fresh = @ /\ j.id \notin S]
<1>1. j.id \in Tasks /\ j.fresh \in BOOLEAN /\ j = [id |-> j.id, fresh |-> j.fresh]
  BY DEF Job
<1>2. k = [id |-> j.id, fresh |-> (j.fresh /\ j.id \notin S)]
  BY <1>1
<1>3. (j.fresh /\ j.id \notin S) \in BOOLEAN
  OBVIOUS
<1>4. k \in Job
  BY <1>1, <1>2, <1>3 DEF Job
<1>5. k = Fresh(t) <=> j.id = t /\ (j.fresh /\ j.id \notin S)
  BY <1>1, <1>2 DEF Fresh
<1>6. j = Fresh(t) <=> j.id = t /\ j.fresh
  BY <1>1 DEF Fresh
<1> QED BY <1>4, <1>5, <1>6

LEMMA AgedSeq ==
  ASSUME NEW q \in Seq(Job), NEW S
  PROVE  /\ Aged(q, S) \in Seq(Job) /\ Len(Aged(q, S)) = Len(q)
         /\ Aged(q, S) = <<>> <=> q = <<>>
         /\ \A t : FreshIn(Aged(q, S), t) = IF t \in S THEN {} ELSE FreshIn(q, t)
<1>1. DOMAIN q = 1 .. Len(q) /\ Len(q) \in Nat /\ \A i \in 1 .. Len(q) : q[i] \in Job
  BY LenProperties
<1>2. Aged(q, S) \in [1 .. Len(q) -> Job]
  BY <1>1, AgedJob DEF Aged
<1>3. Aged(q, S) \in Seq(Job) /\ Len(Aged(q, S)) = Len(q)
  BY <1>1, <1>2
<1>4. ASSUME NEW t, NEW i \in 1 .. Len(q)
      PROVE  Aged(q, S)[i] = Fresh(t) <=> q[i] = Fresh(t) /\ t \notin S
  <2>1. q[i] \in Job /\ i \in DOMAIN q
    BY <1>1
  <2>2. Aged(q, S)[i] = [q[i] EXCEPT !.fresh = @ /\ q[i].id \notin S]
    BY <2>1 DEF Aged
  <2> HIDE DEF Aged
  <2>3. [q[i] EXCEPT !.fresh = @ /\ q[i].id \notin S] = Fresh(t) <=>
          q[i] = Fresh(t) /\ t \notin S
    BY <2>1, AgedJob
  <2> QED BY <2>2, <2>3
<1>5. DOMAIN Aged(q, S) = 1 .. Len(q)
  BY <1>2
<1>6. ASSUME NEW t
      PROVE  FreshIn(Aged(q, S), t) = IF t \in S THEN {} ELSE FreshIn(q, t)
  BY <1>1, <1>4, <1>5, FreshInIs
<1> QED BY <1>3, <1>6, LengthZero

LEMMA RequeueIs ==
  ASSUME NEW S, Requeue(S)
  PROVE  /\ store' = [t \in Tasks |-> IF t \in S THEN "PENDING" ELSE store[t]]
         /\ batch' = Aged(batch, S) /\ jobs' = Aged(jobs, S)
         /\ holding' = [w \in Workers |-> Aged(holding[w], S)]
BY DEF Requeue, Aged

-------------------------------------------------------------------------------
(***************************************************************************)
(* The inductive invariant.  OneCopy says where the one copy of a task     *)
(* that can write may be, place by place, as Copies counts them.           *)
(***************************************************************************)
AtMostOne(S) == \A x, y \in S : x = y
Holds(w, t)  == FreshIn(holding[w], t) # {}
Somewhere(t) == \/ FreshIn(batch, t) # {} \/ FreshIn(jobs, t) # {}
                \/ \E w \in Workers : Holds(w, t)
OneCopy(t) ==
  /\ AtMostOne(FreshIn(batch, t)) /\ AtMostOne(FreshIn(jobs, t))
  /\ \A v, w \in Workers : Holds(v, t) /\ Holds(w, t) => v = w
  /\ FreshIn(batch, t) = {} \/ FreshIn(jobs, t) = {}
  /\ \A w \in Workers : Holds(w, t) => FreshIn(batch, t) = {} /\ FreshIn(jobs, t) = {}
  /\ Somewhere(t) => store[t] = "PROCESSING"

\* Run has returned only after everything it started has.
Returned == run = "returned" => closed /\ \A w \in Workers : worker[w] = "exited"

IInv == TypeOK /\ ChannelProtocol /\ Returned /\ \A t \in Tasks : OneCopy(t)

LEMMA CountOne ==
  ASSUME NEW S, AtMostOne(S)
  PROVE  /\ Cardinality(S) \in {0, 1}
         /\ Cardinality(S) = 0 <=> S = {}
<1>1. CASE S = {}
  BY <1>1, FS_EmptySet
<1>2. CASE S # {}
  <2>1. PICK x : S = {x}
    BY <1>2 DEF AtMostOne
  <2> QED BY <2>1, FS_Singleton
<1> QED BY <1>1, <1>2

LEMMA OneCopyCounts == ASSUME NEW t \in Tasks, OneCopy(t)
  PROVE  Copies(t) <= 1 /\ (Copies(t) = 1 => store[t] = "PROCESSING")
<1> DEFINE b == FreshIn(batch, t)
           j == FreshIn(jobs, t)
           h == {w \in Workers : FreshIn(holding[w], t) # {}}
<1>1. AtMostOne(b) /\ AtMostOne(j) /\ AtMostOne(h)
  BY DEF OneCopy, AtMostOne, Holds
<1>2. /\ b = {} \/ j = {}
      /\ h # {} => b = {} /\ j = {}
      /\ b # {} \/ j # {} \/ h # {} => store[t] = "PROCESSING"
  BY DEF OneCopy, Holds, Somewhere
<1>3. Copies(t) = Cardinality(b) + Cardinality(j) + Cardinality(h)
  BY DEF Copies
<1> HIDE DEF b, j, h
<1>4. /\ Cardinality(b) \in {0, 1} /\ (Cardinality(b) = 0 <=> b = {})
      /\ Cardinality(j) \in {0, 1} /\ (Cardinality(j) = 0 <=> j = {})
      /\ Cardinality(h) \in {0, 1} /\ (Cardinality(h) = 0 <=> h = {})
  BY <1>1, CountOne
<1> QED BY <1>2, <1>3, <1>4

LEMMA PoolInit == Init => IInv
<1> SUFFICES ASSUME Init PROVE IInv
  OBVIOUS
<1>1. TypeOK
  <2>1. <<>> \in Seq(Job) /\ Len(<<>>) = 0
    BY EmptySeq
  <2>2. 0 <= BatchSize /\ 0 <= Capacity
    BY ConfigAssumption DEF Capacity
  <2>3. store \in [Tasks -> {"PENDING", "PROCESSING", "ENDED"}]
    BY DEF Init
  <2>4. /\ holding \in [Workers -> Seq(Job)]
        /\ worker \in [Workers -> {"idle", "busy", "exited"}]
        /\ \A w \in Workers : holding[w] = <<>> /\ worker[w] = "idle"
    BY <2>1 DEF Init
  <2>5. \A w \in Workers : Len(holding[w]) = IF worker[w] = "busy" THEN 1 ELSE 0
    BY <2>1, <2>4
  <2> QED BY <2>1, <2>2, <2>3, <2>4, <2>5 DEF Init, TypeOK
<1>2. ASSUME NEW t \in Tasks PROVE OneCopy(t)
  BY EmptyHasNone DEF Init, OneCopy, AtMostOne, Holds, Somewhere
<1> QED BY <1>1, <1>2 DEF Init, IInv, ChannelProtocol, Returned

\* A poll's batch: the tasks it claimed, in some order, one fresh copy of each.
BatchOf(order) == [i \in DOMAIN order |-> [id |-> order[i], fresh |-> TRUE]]
IsBatch(b, S) ==
  /\ b \in Seq(Job) /\ Len(b) = Cardinality(S)
  /\ b = <<>> <=> S = {}
  /\ \A t : AtMostOne(FreshIn(b, t)) /\ (FreshIn(b, t) # {} => t \in S)

LEMMA ClaimedBatch ==
  ASSUME NEW S \in SUBSET Tasks, NEW order \in [1 .. Cardinality(S) -> S],
         {order[i] : i \in DOMAIN order} = S
  PROVE  IsBatch(BatchOf(order), S)
<1> DEFINE n == Cardinality(S)
           b == BatchOf(order)
<1>1. IsFiniteSet(S) /\ n \in Nat /\ (n = 0 <=> S = {})
  BY TasksAssumption, FS_Subset, FS_CardinalityType, FS_EmptySet
<1> HIDE DEF n
<1>2. IsFiniteSet(1 .. n) /\ Cardinality(1 .. n) = n
  <2>1. 1 \in Int /\ n \in Int
    BY <1>1
  <2>2. IsFiniteSet(1 .. n) /\ Cardinality(1 .. n) = IF 1 > n THEN 0 ELSE n - 1 + 1
    BY <2>1, FS_Interval, Zenon
  <2> QED BY <1>1, <2>2
<1> USE DEF n
<1>3. order \in Surjection(1 .. n, S)
  BY DEF Surjection
<1>4. order \in Injection(1 .. n, S)
  BY <1>2, <1>3, FS_SurjSameCardinalityImpliesInj
<1>5. \A i, k \in 1 .. n : order[i] = order[k] => i = k
  BY <1>4 DEF Injection, IsInjective
<1>6. b \in [1 .. n -> Job] /\ DOMAIN b = 1 .. n
  BY DEF Job, BatchOf
<1>7. b \in Seq(Job) /\ Len(b) = n
  BY <1>1, <1>6
<1>8. \A t : FreshIn(b, t) = {i \in 1 .. n : order[i] = t}
  BY <1>6, FreshInIs DEF Fresh, BatchOf
<1>9. \A t : AtMostOne(FreshIn(b, t)) /\ (FreshIn(b, t) # {} => t \in S)
  BY <1>5, <1>8 DEF AtMostOne
<1> QED BY <1>1, <1>7, <1>9, LengthZero DEF IsBatch

LEMMA ClaimIs ==
  ASSUME Claim
  PROVE  \E S \in SUBSET Pending :
           /\ Cardinality(S) <= BatchSize /\ Lease(S) /\ IsBatch(batch', S)
           /\ poller' = IF S = {} THEN "wait" ELSE "send"
<1> PICK S \in SUBSET Pending : Claim!2!(S)
  BY DEF Claim
<1> PICK order \in [1 .. Cardinality(S) -> S] :
           {order[i] : i \in DOMAIN order} = S /\ batch' = BatchOf(order)
  BY DEF BatchOf
<1>1. IsBatch(BatchOf(order), S)
  BY ClaimedBatch DEF Pending
<1> QED BY <1>1

-------------------------------------------------------------------------------
(***************************************************************************)
(* Type correctness: one lemma for each action that moves jobs.            *)
(***************************************************************************)
LEMMA RequeueType ==
  ASSUME TypeOK, NEW S, Requeue(S), worker' = worker, poller' = poller,
         cancelled' \in BOOLEAN, closed' \in BOOLEAN,
         run' \in {"starting", "running", "failed", "returned"},
         reclaimer' \in {"running", "done"}
  PROVE  TypeOK'
<1>1. store' \in [Tasks -> {"PENDING", "PROCESSING", "ENDED"}]
  BY RequeueIs DEF TypeOK
<1>2. /\ batch' \in Seq(Job) /\ Len(batch') <= BatchSize
      /\ poller' = "send" <=> batch' # <<>>
  BY RequeueIs, AgedSeq DEF TypeOK
<1>3. jobs' \in Seq(Job) /\ Len(jobs') <= Capacity
  BY RequeueIs, AgedSeq DEF TypeOK
<1>4. \A w \in Workers : /\ Aged(holding[w], S) \in Seq(Job)
                         /\ Len(Aged(holding[w], S)) = Len(holding[w])
  BY AgedSeq DEF TypeOK
<1>5. holding' = [w \in Workers |-> Aged(holding[w], S)]
  BY RequeueIs
<1>6. /\ holding' \in [Workers -> Seq(Job)]
      /\ \A w \in Workers : Len(holding'[w]) = Len(holding[w])
  BY <1>4, <1>5
<1> QED BY <1>1, <1>2, <1>3, <1>6 DEF TypeOK

LEMMA ClaimType == ASSUME TypeOK, Claim PROVE TypeOK'
<1> PICK S \in SUBSET Pending :
      /\ Cardinality(S) <= BatchSize /\ Lease(S) /\ IsBatch(batch', S)
      /\ poller' = IF S = {} THEN "wait" ELSE "send"
  BY ClaimIs
<1>2. batch' \in Seq(Job) /\ Len(batch') = Cardinality(S) /\ (batch' = <<>> <=> S = {})
  BY DEF IsBatch
<1>3. store' \in [Tasks -> {"PENDING", "PROCESSING", "ENDED"}]
  BY DEF Lease, TypeOK
<1>4. UNCHANGED <<cancelled, run, jobs, closed, worker, holding, reclaimer>>
  BY DEF Claim
<1> QED BY <1>2, <1>3, <1>4 DEF TypeOK

LEMMA SendType == ASSUME TypeOK, Send PROVE TypeOK'
<1>1. batch \in Seq(Job) /\ batch # <<>> /\ jobs \in Seq(Job)
  BY DEF TypeOK, Send
<1>2. /\ Head(batch) \in Job /\ Tail(batch) \in Seq(Job)
      /\ Len(Tail(batch)) = Len(batch) - 1 /\ Len(batch) \in Nat
  BY <1>1, HeadTailProperties, LenProperties
<1>3. batch' = <<>> <=> Len(batch) = 1
  BY <1>2, LengthZero DEF Send
<1>4. jobs' \in Seq(Job) /\ Len(jobs') = Len(jobs) + 1 /\ Len(jobs) \in Nat
  BY <1>1, <1>2 DEF Send
<1>5. Len(batch') <= BatchSize /\ Len(jobs') <= Capacity
  BY <1>2, <1>4, ConfigAssumption DEF TypeOK, Send, Capacity
<1> QED BY <1>2, <1>3, <1>4, <1>5 DEF TypeOK, Send

LEMMA ReceiveType == ASSUME TypeOK, NEW w \in Workers, Receive(w) PROVE TypeOK'
<1>1. /\ Head(jobs) \in Job /\ Tail(jobs) \in Seq(Job)
      /\ Len(Tail(jobs)) = Len(jobs) - 1 /\ Len(jobs) \in Nat
  BY HeadTailProperties, LenProperties DEF TypeOK, Receive
<1>2. <<Head(jobs)>> \in Seq(Job) /\ Len(<<Head(jobs)>>) = 1
  BY <1>1
<1>3. Len(jobs') <= Capacity
  BY <1>1, ConfigAssumption DEF TypeOK, Receive, Capacity
<1> QED BY <1>1, <1>2, <1>3 DEF TypeOK, Receive

LEMMA ProcessType == ASSUME TypeOK, NEW w \in Workers, Process(w) PROVE TypeOK'
<1>1. store' \in [Tasks -> {"PENDING", "PROCESSING", "ENDED"}]
  BY DEF TypeOK, Process
<1>2. <<>> \in Seq(Job) /\ Len(<<>>) = 0
  BY EmptySeq
<1>3. /\ holding' \in [Workers -> Seq(Job)]
      /\ worker' \in [Workers -> {"idle", "busy", "exited"}]
      /\ \A v \in Workers : holding'[v] = IF v = w THEN <<>> ELSE holding[v]
      /\ \A v \in Workers : worker'[v] = IF v = w THEN "idle" ELSE worker[v]
  BY <1>2 DEF TypeOK, Process
<1>4. \A v \in Workers : Len(holding'[v]) = IF worker'[v] = "busy" THEN 1 ELSE 0
  BY <1>2, <1>3 DEF TypeOK
<1>5. UNCHANGED <<cancelled, run, poller, batch, jobs, closed, reclaimer>>
  BY DEF Process
<1> QED BY <1>1, <1>3, <1>4, <1>5 DEF TypeOK

LEMMA PoolType == ASSUME TypeOK, [Next]_vars PROVE TypeOK'
<1>1. CASE Start \/ ReclaimExpired
  <2>1. /\ \E S : Requeue(S)
        /\ worker' = worker /\ poller' = poller /\ cancelled' = cancelled
        /\ closed' = closed /\ reclaimer' = reclaimer
        /\ run' \in {"running", run}
    BY <1>1 DEF Start, ReclaimExpired
  <2> QED BY <2>1, RequeueType DEF TypeOK
<1>2. CASE Claim
  BY <1>2, ClaimType
<1>3. CASE ClaimError
  <2>1. store' \in [Tasks -> {"PENDING", "PROCESSING", "ENDED"}]
    BY <1>3 DEF ClaimError, Lease, TypeOK
  <2> QED BY <1>3, <2>1 DEF ClaimError, TypeOK
<1>4. CASE Send
  BY <1>4, SendType
<1>5. CASE SendCancelled
  BY <1>5, EmptySeq, ConfigAssumption DEF SendCancelled, TypeOK
<1>6. CASE Cancel \/ StartError \/ Tick \/ PollReturns \/ CloseJobs
           \/ ReclaimReturns \/ Return
  BY <1>6 DEF Cancel, StartError, Tick, PollReturns, CloseJobs, ReclaimReturns,
     Return, TypeOK
<1>7. ASSUME NEW w \in Workers, Receive(w) \/ Process(w) PROVE TypeOK'
  BY <1>7, ReceiveType, ProcessType
<1>8. ASSUME NEW w \in Workers, Exit(w) PROVE TypeOK'
  BY <1>8 DEF Exit, TypeOK
<1>9. CASE Terminated \/ UNCHANGED vars
  BY <1>9 DEF Terminated, vars, TypeOK
<1> QED BY <1>1, <1>2, <1>3, <1>4, <1>5, <1>6, <1>7, <1>8, <1>9 DEF Next

-------------------------------------------------------------------------------
(***************************************************************************)
(* The channel protocol and the one fresh copy.                            *)
(***************************************************************************)
LEMMA ProtocolStep ==
  ASSUME IInv, TypeOK', [Next]_vars PROVE ChannelProtocol' /\ Returned'
<1>1. /\ closed => poller = "done" /\ batch = <<>>
      /\ \A w \in Workers : worker[w] = "exited" => closed /\ jobs = <<>>
      /\ Returned
  BY DEF IInv, ChannelProtocol
<1>2. CASE Start \/ ReclaimExpired
  <2>1. PICK S : Requeue(S)
    BY <1>2 DEF Start, ReclaimExpired
  <2>2. (batch' = <<>> <=> batch = <<>>) /\ (jobs' = <<>> <=> jobs = <<>>)
    BY <2>1, RequeueIs, AgedSeq DEF IInv, TypeOK
  <2> QED BY <1>1, <1>2, <2>2 DEF Start, ReclaimExpired, ChannelProtocol, Returned
<1>3. CASE \/ Cancel \/ StartError \/ Claim \/ ClaimError \/ Send \/ SendCancelled
           \/ Tick \/ PollReturns \/ ReclaimReturns
  BY <1>1, <1>3 DEF Cancel, StartError, Claim, ClaimError, Send, SendCancelled,
     Tick, PollReturns, ReclaimReturns, ChannelProtocol, Returned
<1>4. CASE CloseJobs
  BY <1>1, <1>4 DEF CloseJobs, ChannelProtocol, Returned, IInv, TypeOK
<1>5. CASE Return
  <2>1. \E w : w \in Workers
    BY ConfigAssumption DEF Workers
  <2> QED BY <1>1, <1>5, <2>1 DEF Return, ChannelProtocol, Returned
<1>6. ASSUME NEW w \in Workers, Receive(w) \/ Process(w) \/ Exit(w)
      PROVE  ChannelProtocol' /\ Returned'
  BY <1>1, <1>6 DEF Receive, Process, Exit, ChannelProtocol, Returned, IInv, TypeOK
<1>7. CASE Terminated \/ UNCHANGED vars
  BY <1>1, <1>7 DEF Terminated, vars, ChannelProtocol, Returned
<1> QED BY <1>2, <1>3, <1>4, <1>5, <1>6, <1>7 DEF Next

\* A step that adds no fresh copy of t, and takes its PROCESSING only with the
\* last one.
LEMMA CopyFrame ==
  ASSUME NEW t \in Tasks, OneCopy(t),
         FreshIn(batch', t) \in {{}, FreshIn(batch, t)},
         FreshIn(jobs', t) \in {{}, FreshIn(jobs, t)},
         \A w \in Workers : FreshIn(holding'[w], t) \in {{}, FreshIn(holding[w], t)},
         Somewhere(t)' => store'[t] = store[t]
  PROVE  OneCopy(t)'
<1>1. Somewhere(t)' => Somewhere(t)
  BY DEF Somewhere, Holds
<1>2. \A w \in Workers : Holds(w, t)' => Holds(w, t)
  BY DEF Holds
<1>3. AtMostOne(FreshIn(batch', t)) /\ AtMostOne(FreshIn(jobs', t))
  BY DEF OneCopy, AtMostOne
<1> QED BY <1>1, <1>2, <1>3 DEF OneCopy

\* What taking the head of a queue leaves of its one fresh copy.
LEMMA HeadTaken ==
  ASSUME NEW q \in Seq(Job), q # <<>>, NEW t, AtMostOne(FreshIn(q, t))
  PROVE  /\ AtMostOne(FreshIn(Tail(q), t))
         /\ FreshIn(Tail(q), t) # {} => FreshIn(q, t) # {}
         /\ Head(q) = Fresh(t) => FreshIn(q, t) # {} /\ FreshIn(Tail(q), t) = {}
<1>1. \A i \in FreshIn(Tail(q), t) : i \in Nat \ {0} /\ i + 1 \in FreshIn(q, t)
  BY TailFresh
<1>2. Head(q) = Fresh(t) <=> 1 \in FreshIn(q, t)
  BY TailFresh
<1>3. ASSUME NEW i \in FreshIn(Tail(q), t), NEW k \in FreshIn(Tail(q), t) PROVE i = k
  <2>1. i \in Nat /\ k \in Nat /\ i + 1 = k + 1
    BY <1>1 DEF AtMostOne
  <2> QED BY <2>1
<1>4. ASSUME Head(q) = Fresh(t), NEW i \in FreshIn(Tail(q), t) PROVE FALSE
  <2>1. i \in Nat \ {0} /\ i + 1 = 1
    BY <1>1, <1>2, <1>4 DEF AtMostOne
  <2> QED BY <2>1
<1> QED BY <1>1, <1>2, <1>3, <1>4 DEF AtMostOne

LEMMA RequeueCopies ==
  ASSUME TypeOK, NEW S, Requeue(S), NEW t \in Tasks, OneCopy(t) PROVE OneCopy(t)'
<1>1. FreshIn(batch', t) = IF t \in S THEN {} ELSE FreshIn(batch, t)
  BY RequeueIs, AgedSeq DEF TypeOK
<1>2. FreshIn(jobs', t) = IF t \in S THEN {} ELSE FreshIn(jobs, t)
  BY RequeueIs, AgedSeq DEF TypeOK
<1>3. ASSUME NEW w \in Workers
      PROVE  FreshIn(holding'[w], t) = IF t \in S THEN {} ELSE FreshIn(holding[w], t)
  <2>1. holding'[w] = Aged(holding[w], S)
    BY RequeueIs
  <2> QED BY <2>1, AgedSeq DEF TypeOK
<1>4. Somewhere(t)' => t \notin S
  BY <1>1, <1>2, <1>3 DEF Somewhere, Holds
<1>5. t \notin S => store'[t] = store[t]
  BY RequeueIs
<1> QED BY <1>1, <1>2, <1>3, <1>4, <1>5, CopyFrame

LEMMA ClaimCopies ==
  ASSUME TypeOK, Claim, NEW t \in Tasks, OneCopy(t) PROVE OneCopy(t)'
<1> PICK S \in SUBSET Pending :
      /\ Cardinality(S) <= BatchSize /\ Lease(S) /\ IsBatch(batch', S)
      /\ poller' = IF S = {} THEN "wait" ELSE "send"
  BY ClaimIs
<1>1. /\ jobs' = jobs /\ holding' = holding
      /\ store'[t] = IF t \in S THEN "PROCESSING" ELSE store[t]
  BY DEF Claim, Lease
<1>2. AtMostOne(FreshIn(batch', t)) /\ (FreshIn(batch', t) # {} => t \in S)
  BY DEF IsBatch
<1>3. CASE t \in S
  <2>1. ~Somewhere(t)
    BY <1>3 DEF Pending, OneCopy
  <2>2. /\ FreshIn(jobs', t) = {} /\ \A w \in Workers : ~Holds(w, t)'
        /\ store'[t] = "PROCESSING"
    BY <1>1, <1>3, <2>1 DEF Somewhere, Holds
  <2>3. AtMostOne(FreshIn(jobs', t))
    BY <2>2 DEF AtMostOne
  <2> QED BY <1>2, <2>2, <2>3 DEF OneCopy
<1>4. CASE t \notin S
  BY <1>1, <1>2, <1>4, CopyFrame
<1> QED BY <1>3, <1>4

LEMMA ClaimErrorCopies ==
  ASSUME TypeOK, ClaimError, NEW t \in Tasks, OneCopy(t) PROVE OneCopy(t)'
<1>1. batch' = batch /\ jobs' = jobs /\ holding' = holding
  BY DEF ClaimError
<1>2. store'[t] = store[t] \/ store[t] = "PENDING"
  BY DEF ClaimError, Lease, Pending
<1>3. Somewhere(t)' => store[t] = "PROCESSING"
  BY <1>1 DEF Somewhere, Holds, OneCopy
<1> QED BY <1>1, <1>2, <1>3, CopyFrame

LEMMA SendCopies ==
  ASSUME TypeOK, Send, NEW t \in Tasks, OneCopy(t) PROVE OneCopy(t)'
<1> DEFINE j == Head(batch)
<1>1. /\ batch \in Seq(Job) /\ batch # <<>> /\ jobs \in Seq(Job) /\ j \in Job
      /\ batch' = Tail(batch) /\ jobs' = Append(jobs, j)
      /\ holding' = holding /\ store' = store
  BY HeadTailProperties DEF TypeOK, Send
<1>2. /\ AtMostOne(FreshIn(batch', t))
      /\ FreshIn(batch', t) # {} => FreshIn(batch, t) # {}
      /\ j = Fresh(t) => FreshIn(batch, t) # {} /\ FreshIn(batch', t) = {}
  BY <1>1, HeadTaken DEF OneCopy
<1>3. FreshIn(jobs', t) =
        FreshIn(jobs, t) \cup (IF j = Fresh(t) THEN {Len(jobs) + 1} ELSE {})
  BY <1>1, AppendFresh
<1>4. AtMostOne(FreshIn(jobs', t))
  BY <1>2, <1>3 DEF OneCopy, AtMostOne
<1>5. \A w \in Workers : Holds(w, t)' <=> Holds(w, t)
  BY <1>1 DEF Holds
<1>6. Somewhere(t)' => Somewhere(t)
  BY <1>2, <1>3, <1>5 DEF Somewhere
<1> HIDE DEF j
<1> QED BY <1>1, <1>2, <1>3, <1>4, <1>5, <1>6 DEF OneCopy

LEMMA OneJob == ASSUME NEW j, NEW t PROVE FreshIn(<<j>>, t) # {} <=> j = Fresh(t)
<1>1. DOMAIN <<j>> = {1} /\ <<j>>[1] = j
  OBVIOUS
<1> QED BY <1>1, FreshInIs

LEMMA ReceiveCopies ==
  ASSUME TypeOK, NEW w \in Workers, Receive(w), NEW t \in Tasks, OneCopy(t)
  PROVE  OneCopy(t)'
<1> DEFINE j == Head(jobs)
<1>1. /\ jobs \in Seq(Job) /\ jobs # <<>> /\ jobs' = Tail(jobs)
      /\ batch' = batch /\ store' = store
      /\ \A v \in Workers : holding'[v] = IF v = w THEN <<j>> ELSE holding[v]
  BY DEF TypeOK, Receive
<1>2. /\ AtMostOne(FreshIn(jobs', t))
      /\ FreshIn(jobs', t) # {} => FreshIn(jobs, t) # {}
      /\ j = Fresh(t) => FreshIn(jobs, t) # {} /\ FreshIn(jobs', t) = {}
  BY <1>1, HeadTaken DEF OneCopy
<1>3. \A v \in Workers : Holds(v, t)' <=> IF v = w THEN j = Fresh(t) ELSE Holds(v, t)
  BY <1>1, OneJob DEF Holds
<1>4. Somewhere(t)' => Somewhere(t)
  BY <1>1, <1>2, <1>3 DEF Somewhere
<1> HIDE DEF j
<1> QED BY <1>1, <1>2, <1>3, <1>4 DEF OneCopy

LEMMA ProcessCopies ==
  ASSUME TypeOK, NEW w \in Workers, Process(w), NEW t \in Tasks, OneCopy(t)
  PROVE  OneCopy(t)'
<1> DEFINE j == Head(holding[w])
<1>1. /\ batch' = batch /\ jobs' = jobs
      /\ \A v \in Workers : holding'[v] = IF v = w THEN <<>> ELSE holding[v]
  BY DEF TypeOK, Process
<1>2. holding[w] \in Seq(Job) /\ holding[w] # <<>>
  <2>1. Len(holding[w]) = 1
    BY DEF TypeOK, Process
  <2>2. holding[w] \in Seq(Job)
    BY DEF TypeOK
  <2>3. Len(holding[w]) # 0
    BY <2>1
  <2>4. Len(holding[w]) = 0 <=> holding[w] = <<>>
    BY <2>2, LengthZero
  <2> QED BY <2>2, <2>3, <2>4, Zenon
<1>3. j \in Job /\ (j = Fresh(t) => Holds(w, t))
  BY <1>2, HeadTailProperties, TailFresh DEF Holds
<1>4. \A v \in Workers : FreshIn(holding'[v], t) \in {{}, FreshIn(holding[v], t)}
  BY <1>1, EmptyHasNone
<1>5. CASE j = Fresh(t)
  <2>1. ~Somewhere(t)'
    BY <1>1, <1>3, <1>5, EmptyHasNone DEF Somewhere, Holds, OneCopy
  <2> QED BY <1>1, <1>4, <2>1, CopyFrame
<1>6. CASE j # Fresh(t)
  <2>1. ~(j.fresh /\ j.id = t)
    <3>1. j = [id |-> j.id, fresh |-> j.fresh] /\ j.fresh \in BOOLEAN
      BY <1>3 DEF Job
    <3> QED BY <1>6, <3>1 DEF Fresh
  <2>2. store'[t] = store[t]
    BY <2>1 DEF Process, TypeOK
  <2> QED BY <1>1, <1>4, <2>2, CopyFrame
<1> QED BY <1>5, <1>6

LEMMA PoolStep == IInv /\ [Next]_vars => IInv'
<1> SUFFICES ASSUME IInv, [Next]_vars PROVE IInv'
  OBVIOUS
<1>1. TypeOK /\ TypeOK'
  BY PoolType DEF IInv
<1>2. ChannelProtocol' /\ Returned'
  BY <1>1, ProtocolStep
<1>3. ASSUME NEW t \in Tasks PROVE OneCopy(t)'
  <2>1. OneCopy(t)
    BY DEF IInv
  <2>2. CASE Start \/ ReclaimExpired
    BY <1>1, <2>1, <2>2, RequeueCopies DEF Start, ReclaimExpired
  <2>3. CASE Claim      BY <1>1, <2>1, <2>3, ClaimCopies
  <2>4. CASE ClaimError BY <1>1, <2>1, <2>4, ClaimErrorCopies
  <2>5. CASE Send       BY <1>1, <2>1, <2>5, SendCopies
  <2>6. CASE SendCancelled
    BY <2>1, <2>6, EmptyHasNone, CopyFrame DEF SendCancelled
  <2>7. ASSUME NEW w \in Workers, Receive(w) \/ Process(w) PROVE OneCopy(t)'
    BY <1>1, <2>1, <2>7, ReceiveCopies, ProcessCopies
  <2>8. CASE UNCHANGED <<store, batch, jobs, holding>>
    BY <2>1, <2>8, CopyFrame
  <2> QED BY <2>2, <2>3, <2>4, <2>5, <2>6, <2>7, <2>8 DEF Next, vars, Cancel,
     StartError, Tick, PollReturns, CloseJobs, Exit, ReclaimReturns, Return,
     Terminated
<1> QED BY <1>1, <1>2, <1>3 DEF IInv

\* Where a task's copies are, which of them can write, and who has left.
THEOREM PoolInvariant == Spec => []IInv
BY PoolInit, PoolStep, PTL DEF Spec

\* The batch and the channel keep their bounds, a busy goroutine has one task.
THEOREM PoolTypes == Spec => []TypeOK
<1>1. IInv => TypeOK
  BY DEF IInv
<1> QED BY <1>1, PoolInvariant, PTL

\* A task claimed again beside its stale copies has one copy that can write.
THEOREM CopiesAreFresh == Spec => []OneFreshCopy
<1>1. IInv => OneFreshCopy
  BY OneCopyCounts DEF IInv, OneFreshCopy
<1> QED BY <1>1, PoolInvariant, PTL

\* Nothing is sent on the closed channel, and no goroutine leaves before its end.
THEOREM ProtocolIsKept == Spec => []ChannelProtocol
<1>1. IInv => ChannelProtocol
  BY DEF IInv
<1> QED BY <1>1, PoolInvariant, PTL

\* When Run returns nothing sent to the channel is left, whatever was queued.
THEOREM RunDrains == Spec => []DrainedOnReturn
<1>1. IInv => DrainedOnReturn
  <2> SUFFICES ASSUME IInv, run = "returned"
               PROVE  jobs = <<>> /\ \A w \in Workers : holding[w] = <<>>
    BY DEF DrainedOnReturn
  <2>1. \A w \in Workers : worker[w] = "exited"
    BY DEF IInv, Returned
  <2>2. \E w : w \in Workers
    BY ConfigAssumption DEF Workers
  <2>3. \A w \in Workers : holding[w] \in Seq(Job) /\ Len(holding[w]) = 0
    BY <2>1 DEF IInv, TypeOK
  <2> QED BY <2>1, <2>2, <2>3, LengthZero DEF IInv, ChannelProtocol
<1> QED BY <1>1, PoolInvariant, PTL
===============================================================================
