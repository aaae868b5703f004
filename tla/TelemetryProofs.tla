---------------------------- MODULE TelemetryProofs ----------------------------
(***************************************************************************)
(* Theorems about Telemetry, for any requests, calls, codes, durations and *)
(* latency bounds.                                                         *)
(***************************************************************************)
EXTENDS Telemetry, FiniteSetTheorems, WellFoundedInduction, TLAPS

\* What a snapshot keeps for ever: it is of the past, and of a state in which
\* its reader was at work.
Past(s) ==
  /\ s.inflight >= 1
  /\ s.inflight + s.requests <= Cardinality(Begun)
  /\ NotBehind(Snapshot, s)

IInv ==
  /\ TypeOK
  /\ IsFiniteSet(Begun)
  /\ \A r \in Requests : status[r] = sent[r]
  /\ InflightBalance
  /\ Ledger
  /\ \A r \in Requests : shown[r] # Nothing => Past(shown[r])
  /\ SnapshotsOrdered

-------------------------------------------------------------------------------
\* Lemmas about the constants and the numbers of one route.

\* Every duration has a bucket.
LEMMA BucketType == \A d \in Int : Bucket(d) \in Buckets
<1> SUFFICES ASSUME NEW d \in Int PROVE Bucket(d) \in Buckets
  OBVIOUS
<1>1. IsFiniteSet(LatencyBounds)
  <2>1. LatencyBounds \subseteq Bounds
    BY DEF LatencyBounds
  <2> QED BY <2>1, TelemetryAssumption, FS_Subset
<1> DEFINE under == {b \in LatencyBounds : b < d}
<1>2. /\ IsFiniteSet(under)
      /\ Cardinality(under) <= Cardinality(LatencyBounds)
  BY <1>1, FS_Subset
<1>3. Cardinality(under) \in Nat /\ Cardinality(LatencyBounds) \in Nat
  BY <1>1, <1>2, FS_CardinalityType
<1>4. Cardinality(under) + 1 \in 1 .. (Cardinality(LatencyBounds) + 1)
  BY <1>2, <1>3
<1> QED BY <1>4 DEF Bucket, Buckets

LEMMA CodesAreStatuses == Codes \subseteq 100 .. 599 /\ 200 \in Codes /\ 500 \in Codes
BY TelemetryAssumption DEF Codes

LEMMA DurationType == \A d \in Durations : ClampDuration(d) \in Nat
BY TelemetryAssumption DEF ClampDuration

LEMMA CountType ==
  ASSUME NEW old \in Metrics, NEW s \in Codes, NEW d \in Nat, NEW n \in Nat
  PROVE  Count(old, s, d, n) \in Metrics
<1>1. Bucket(d) \in Buckets
  BY BucketType
<1>2. /\ old.requests + 1 \in Nat
      /\ old.errors + (IF IsError(s) THEN 1 ELSE 0) \in Nat
      /\ old.bytes + n \in Nat /\ old.total + d \in Nat
      /\ (IF d > old.max THEN d ELSE old.max) \in Nat
  BY DEF Metrics
<1>3. [old.durationCount EXCEPT ![Bucket(d)] = @ + 1] \in [Buckets -> Nat]
  BY <1>1 DEF Metrics
<1>4. [old.statusCount EXCEPT ![s] = @ + 1] \in [Codes -> Nat]
  BY DEF Metrics
<1> QED BY <1>2, <1>3, <1>4 DEF Count, Metrics

LEMMA NoMetricsType == NoMetrics \in Metrics
BY DEF NoMetrics, Metrics

LEMMA CountIsNotBehind ==
  ASSUME NEW old \in Metrics, NEW s \in Codes, NEW d \in Nat, NEW n \in Nat
  PROVE  RouteNotBehind(Count(old, s, d, n), old)
<1> DEFINE new == Count(old, s, d, n)
<1>1. Bucket(d) \in Buckets
  BY BucketType
<1>2. /\ new.requests >= old.requests /\ new.errors >= old.errors
      /\ new.bytes >= old.bytes /\ new.total >= old.total /\ new.max >= old.max
  BY DEF Count, Metrics
<1>3. \A b \in Buckets : new.durationCount[b] >= old.durationCount[b]
  BY <1>1 DEF Count, Metrics
<1>4. \A c \in Codes : new.statusCount[c] >= old.statusCount[c]
  BY DEF Count, Metrics
<1> QED BY <1>2, <1>3, <1>4 DEF RouteNotBehind

LEMMA RouteReflexive == \A m \in Metrics : RouteNotBehind(m, m)
BY DEF RouteNotBehind, Metrics

LEMMA RouteTransitive ==
  ASSUME NEW l \in Metrics, NEW m \in Metrics, NEW n \in Metrics,
         RouteNotBehind(l, m), RouteNotBehind(m, n)
  PROVE  RouteNotBehind(l, n)
BY DEF RouteNotBehind, Metrics

LEMMA Transitive ==
  ASSUME NEW s, NEW t, NEW u, IsSnapshot(s), IsSnapshot(t), IsSnapshot(u),
         NotBehind(s, t), NotBehind(t, u)
  PROVE  NotBehind(s, u)
<1>1. \A k \in DOMAIN u.routes : RouteNotBehind(s.routes[k], u.routes[k])
  <2> SUFFICES ASSUME NEW k \in DOMAIN u.routes
               PROVE  RouteNotBehind(s.routes[k], u.routes[k])
    OBVIOUS
  <2>1. k \in DOMAIN s.routes /\ k \in DOMAIN t.routes
    BY DEF NotBehind
  <2>2. s.routes[k] \in Metrics /\ t.routes[k] \in Metrics /\ u.routes[k] \in Metrics
    BY <2>1 DEF IsSnapshot
  <2>3. RouteNotBehind(s.routes[k], t.routes[k]) /\ RouteNotBehind(t.routes[k], u.routes[k])
    BY <2>1 DEF NotBehind
  <2> QED BY <2>2, <2>3, RouteTransitive
<1> QED BY <1>1 DEF NotBehind, IsSnapshot

LEMMA Reflexive == ASSUME NEW s, IsSnapshot(s) PROVE NotBehind(s, s)
BY RouteReflexive DEF NotBehind, IsSnapshot

-------------------------------------------------------------------------------
\* Lemmas about the requests that are at work and counted.

LEMMA Groups ==
  ASSUME IInv
  PROVE  /\ Active \subseteq Begun /\ Counted \subseteq Begun
         /\ Active \cap Counted = {}
         /\ IsFiniteSet(Active) /\ IsFiniteSet(Counted)
<1>1. /\ Active \subseteq Begun /\ Counted \subseteq Begun
      /\ Active \cap Counted = {}
  BY DEF Active, Counted, Begun
<1> QED BY <1>1, FS_Subset DEF IInv

LEMMA StatusIsAnswer ==
  ASSUME TypeOK, NEW r \in Requests, status[r] = sent[r]
  PROVE  ObservedStatus(r) = AnswerOf(r) /\ ObservedStatus(r) \in Codes
<1>1. status[r] \in Codes \cup {0}
  BY DEF TypeOK
<1>2. CASE status[r] = 0
  <2>1. ObservedStatus(r) = 200 /\ AnswerOf(r) = 200
    BY <1>2 DEF ObservedStatus, ClampStatus, AnswerOf
  <2> QED BY <2>1, CodesAreStatuses
<1>3. CASE status[r] # 0
  <2>1. status[r] \in Codes /\ status[r] \in 100 .. 599
    BY <1>1, <1>3, CodesAreStatuses
  <2> QED BY <1>3, <2>1 DEF ObservedStatus, ClampStatus, AnswerOf
<1> QED BY <1>2, <1>3

LEMMA SnapshotType == TypeOK => IsSnapshot(Snapshot)
BY DEF TypeOK

LEMMA MetricsType == ASSUME TypeOK, NEW k \in Keys PROVE MetricsOf(k) \in Metrics
BY NoMetricsType DEF TypeOK, IsSnapshot, Snapshot, MetricsOf

LEMMA KeyType == ASSUME TypeOK, NEW r \in Requests PROVE Key[call[r]] \in Keys
BY DEF TypeOK, Keys

-------------------------------------------------------------------------------
LEMMA TelemetryInit == Init => IInv
<1> SUFFICES ASSUME Init PROVE IInv
  OBVIOUS
<1>1. TypeOK
  <2>1. call \in [Requests -> Calls]
    BY TelemetryAssumption DEF Init
  <2>2. IsSnapshot(Snapshot)
    BY DEF Init, Snapshot, IsSnapshot
  <2>3. DOMAIN shown = Requests /\ \A r \in Requests : shown[r] = Nothing
    BY DEF Init
  <2>4. /\ pc \in [Requests -> PCs] /\ status \in [Requests -> Codes \cup {0}]
        /\ sent \in [Requests -> Codes \cup {0}] /\ written \in [Requests -> Nat]
        /\ took \in [Requests -> Nat]
    BY DEF Init, PCs
  <2> QED BY <2>1, <2>2, <2>3, <2>4 DEF TypeOK
<1>2. Begun = {} /\ Active = {} /\ Counted = {}
  BY DEF Init, Begun, Active, Counted
<1>3. IsFiniteSet(Begun) /\ InflightBalance
  BY <1>2, FS_EmptySet DEF Init, InflightBalance
<1>4. Ledger
  <2>1. requests = Cardinality(Counted) /\ errors = Cardinality(Failing(Counted))
    BY <1>2, FS_EmptySet DEF Init, Failing
  <2>2. ASSUME NEW k \in Keys PROVE RouteLedger(MetricsOf(k), Of(k))
    <3>1. MetricsOf(k) = NoMetrics /\ Of(k) = {}
      BY <1>2 DEF Init, MetricsOf, Of
    <3> QED BY <3>1, FS_EmptySet DEF RouteLedger, NoMetrics, Failing
  <2> QED BY <2>1, <2>2 DEF Ledger
<1>5. \A r \in Requests : shown[r] = Nothing /\ status[r] = sent[r]
  BY DEF Init
<1> QED BY <1>1, <1>3, <1>4, <1>5 DEF IInv, SnapshotsOrdered

-------------------------------------------------------------------------------
(***************************************************************************)
(* Types.                                                                  *)
(***************************************************************************)
LEMMA HeaderType ==
  ASSUME TypeOK, NEW r \in Requests, NEW code \in Codes, Header(r, code)
  PROVE  /\ status' \in [Requests -> Codes \cup {0}]
         /\ sent' \in [Requests -> Codes \cup {0}]
BY DEF TypeOK, Header

LEMMA ObserveType ==
  ASSUME IInv, NEW r \in Requests, NEW duration \in Durations,
         ObserveHTTP(r, duration)
  PROVE  /\ TypeOK'
         /\ NotBehind(Snapshot, Snapshot)'
         /\ NotBehind(Snapshot', Snapshot)
<1> DEFINE s == ObservedStatus(r)
           d == ClampDuration(duration)
           key == Key[call[r]]
           new == Count(MetricsOf(key), s, d, written[r])
<1>1. TypeOK /\ s \in Codes /\ d \in Nat /\ key \in Keys /\ written[r] \in Nat
  BY StatusIsAnswer, DurationType, KeyType DEF IInv, TypeOK
<1>2. MetricsOf(key) \in Metrics /\ new \in Metrics
  BY <1>1, MetricsType, CountType
<1>3. /\ requests' = requests + 1 /\ bytes' = bytes + written[r]
      /\ errors' = errors + IF IsError(s) THEN 1 ELSE 0
      /\ routes' = [k \in DOMAIN routes \cup {key} |-> IF k = key THEN new ELSE routes[k]]
      /\ took' = [took EXCEPT ![r] = d]
      /\ pc' = [pc EXCEPT ![r] = "counted"]
      /\ UNCHANGED <<inflight, call, status, sent, written, shown>>
  BY DEF ObserveHTTP, Goto
<1> HIDE DEF s, d, key, new
<1>4. /\ DOMAIN routes' \subseteq Keys
      /\ \A k \in DOMAIN routes' : routes'[k] \in Metrics
  BY <1>1, <1>2, <1>3 DEF TypeOK, IsSnapshot, Snapshot
<1>5. /\ requests' \in Nat /\ requests' >= requests /\ bytes' \in Nat
      /\ bytes' >= bytes /\ errors' \in Nat /\ errors' >= errors /\ inflight' \in Nat
  BY <1>1, <1>3 DEF TypeOK, IsSnapshot, Snapshot
<1>6. IsSnapshot(Snapshot)'
  BY <1>4, <1>5 DEF IsSnapshot, Snapshot
<1>7. TypeOK'
  <2>1. pc' \in [Requests -> PCs]
    BY <1>1, <1>3 DEF TypeOK, PCs
  <2>2. took' \in [Requests -> Nat]
    BY <1>1, <1>3 DEF TypeOK
  <2>3. UNCHANGED <<call, status, sent, written, shown>>
    BY <1>3
  <2> QED BY <1>1, <1>6, <2>1, <2>2, <2>3 DEF TypeOK, IsSnapshot
<1>8. NotBehind(Snapshot', Snapshot)
  <2>1. DOMAIN routes \subseteq DOMAIN routes'
    BY <1>3
  <2>2. ASSUME NEW k \in DOMAIN routes PROVE RouteNotBehind(routes'[k], routes[k])
    <3>1. routes[k] \in Metrics
      BY <1>1 DEF TypeOK, IsSnapshot, Snapshot
    <3>2. CASE k = key
      <4>1. routes'[k] = new /\ MetricsOf(key) = routes[k]
        BY <1>3, <3>2 DEF MetricsOf
      <4> QED BY <1>1, <1>2, <3>1, <4>1, CountIsNotBehind DEF new
    <3>3. CASE k # key
      BY <1>3, <3>1, <3>3, RouteReflexive
    <3> QED BY <3>2, <3>3
  <2> QED BY <1>5, <2>1, <2>2 DEF NotBehind, Snapshot
<1> QED BY <1>6, <1>7, <1>8, Reflexive

LEMMA TelemetryType == IInv /\ [Next]_vars => TypeOK'
<1> SUFFICES ASSUME IInv, [Next]_vars PROVE TypeOK'
  OBVIOUS
<1>0. TypeOK
  BY DEF IInv
<1> USE DEF Goto, registry
<1>1. ASSUME NEW r \in Requests, Begin(r) \/ Finish(r) PROVE TypeOK'
  <2>1. inflight' \in Nat
    BY <1>0, <1>1 DEF Begin, Finish, TypeOK, IsSnapshot, Snapshot
  <2>2. IsSnapshot(Snapshot)'
    BY <1>0, <1>1, <2>1 DEF Begin, Finish, TypeOK, IsSnapshot, Snapshot
  <2>3. pc' \in [Requests -> PCs]
    BY <1>0, <1>1 DEF Begin, Finish, TypeOK, PCs
  <2>4. UNCHANGED <<call, status, sent, written, shown, took>>
    BY <1>1 DEF Begin, Finish
  <2> QED BY <1>0, <2>2, <2>3, <2>4 DEF TypeOK, IsSnapshot
<1>2. ASSUME NEW r \in Requests, NEW code \in Statuses, WriteHeader(r, code)
      PROVE  TypeOK'
  <2>1. code \in Codes
    BY DEF Codes
  <2>2. UNCHANGED <<registry, pc, call, written, shown, took>>
    BY <1>2 DEF WriteHeader
  <2> QED BY <1>0, <1>2, <2>1, <2>2, HeaderType DEF WriteHeader, TypeOK, IsSnapshot, Snapshot
<1>3. ASSUME NEW r \in Requests, NEW n \in 0 .. MaxBytes, Write(r, n) PROVE TypeOK'
  <2>1. written' \in [Requests -> Nat]
    BY <1>0, <1>3, TelemetryAssumption DEF Write, TypeOK
  <2>2. UNCHANGED <<registry, pc, call, shown, took>>
    BY <1>3 DEF Write
  <2> QED BY <1>0, <1>3, <2>1, <2>2, HeaderType, CodesAreStatuses
          DEF Write, TypeOK, IsSnapshot, Snapshot
<1>4. ASSUME NEW r \in Requests, TakeSnapshot(r) PROVE TypeOK'
  <2>1. UNCHANGED <<registry, pc, call, status, sent, written, took>>
    BY <1>4 DEF TakeSnapshot
  <2>2. ASSUME NEW q \in Requests, shown'[q] # Nothing PROVE IsSnapshot(shown'[q])
    <3>1. CASE shown[q] = Nothing
      <4>1. shown'[q] = Snapshot \/ shown'[q] = shown[q]
        BY <1>4 DEF TakeSnapshot
      <4> QED BY <1>0, <2>2, <3>1, <4>1 DEF TypeOK
    <3>2. CASE shown[q] # Nothing
      <4>1. q # r
        BY <1>4, <3>2 DEF TakeSnapshot
      <4>2. shown'[q] = shown[q]
        BY <1>4, <4>1 DEF TakeSnapshot
      <4> QED BY <1>0, <3>2, <4>2 DEF TypeOK
    <3> QED BY <3>1, <3>2
  <2>3. DOMAIN shown' = Requests
    BY <1>0, <1>4 DEF TakeSnapshot, TypeOK
  <2> QED BY <1>0, <2>1, <2>2, <2>3 DEF TypeOK, IsSnapshot, Snapshot
<1>5. ASSUME NEW r \in Requests, End(r) PROVE TypeOK'
  <2>1. pc' \in [Requests -> PCs] /\ UNCHANGED <<registry, call, shown, took>>
    BY <1>0, <1>5 DEF End, Return, Recover, TypeOK, PCs
  <2>2. written' \in [Requests -> Nat]
    BY <1>0, <1>5, TelemetryAssumption DEF End, Return, Recover, TypeOK
  <2>3. /\ status' \in [Requests -> Codes \cup {0}]
        /\ sent' \in [Requests -> Codes \cup {0}]
    BY <1>0, <1>5, HeaderType, CodesAreStatuses DEF End, Return, Recover, TypeOK
  <2> QED BY <1>0, <2>1, <2>2, <2>3 DEF TypeOK, IsSnapshot, Snapshot
<1>6. ASSUME NEW r \in Requests, Observe(r) PROVE TypeOK'
  BY <1>6, ObserveType DEF Observe
<1>7. CASE AllCounted \/ UNCHANGED vars
  BY <1>0, <1>7 DEF AllCounted, vars, TypeOK, IsSnapshot, Snapshot
<1> QED BY <1>1, <1>2, <1>3, <1>4, <1>5, <1>6, <1>7 DEF Next, Handle

-------------------------------------------------------------------------------
(***************************************************************************)
(* The ledger.  A step that counts no request leaves it alone.             *)
(***************************************************************************)
LEMMA QuietLedger ==
  ASSUME Ledger, UNCHANGED <<requests, errors, routes, call, took>>,
         Counted' = Counted, \A q \in Counted : sent'[q] = sent[q]
  PROVE  Ledger'
<1>1. \A q \in Counted : AnswerOf(q)' = AnswerOf(q)
  BY DEF AnswerOf
<1>2. Failing(Counted)' = Failing(Counted)
  BY <1>1 DEF Failing
<1>3. ASSUME NEW k \in Keys PROVE RouteLedger(MetricsOf(k), Of(k))'
  <2>1. MetricsOf(k)' = MetricsOf(k) /\ Of(k)' = Of(k) /\ Of(k) \subseteq Counted
    BY DEF MetricsOf, Of
  <2>2. Failing(Of(k))' = Failing(Of(k))
    BY <1>1, <2>1 DEF Failing
  <2>3. \A s \in Codes : {q \in Of(k)' : AnswerOf(q)' = s} = {q \in Of(k) : AnswerOf(q) = s}
    BY <1>1, <2>1
  <2>4. \A b \in Buckets : {q \in Of(k)' : Bucket(took'[q]) = b}
                             = {q \in Of(k) : Bucket(took[q]) = b}
    BY <2>1
  <2>5. RouteLedger(MetricsOf(k), Of(k))
    BY DEF Ledger
  <2> QED BY <2>1, <2>2, <2>3, <2>4, <2>5 DEF RouteLedger
<1> QED BY <1>2, <1>3 DEF Ledger

LEMMA OneMore ==
  ASSUME NEW S, NEW x, IsFiniteSet(S), x \notin S
  PROVE  /\ Cardinality(S \cup {x}) = Cardinality(S) + 1
         /\ Cardinality(S) \in Nat
BY FS_AddElement, FS_CardinalityType

LEMMA ObserveLedger ==
  ASSUME IInv, NEW r \in Requests, NEW duration \in Durations,
         ObserveHTTP(r, duration)
  PROVE  Ledger'
<1> DEFINE s == ObservedStatus(r)
           d == ClampDuration(duration)
           key == Key[call[r]]
           new == Count(MetricsOf(key), s, d, written[r])
<1>1. /\ TypeOK /\ Ledger /\ s = AnswerOf(r) /\ s \in Codes /\ d \in Nat
      /\ key \in Keys /\ MetricsOf(key) \in Metrics
  BY StatusIsAnswer, DurationType, KeyType, MetricsType DEF IInv
<1>2. /\ requests' = requests + 1
      /\ errors' = errors + IF IsError(s) THEN 1 ELSE 0
      /\ routes' = [k \in DOMAIN routes \cup {key} |-> IF k = key THEN new ELSE routes[k]]
      /\ took' = [took EXCEPT ![r] = d]
      /\ pc[r] = "finished" /\ pc' = [pc EXCEPT ![r] = "counted"]
      /\ UNCHANGED <<call, sent>>
  BY DEF ObserveHTTP, Goto
<1> HIDE DEF s, d, key, new
<1>3. r \notin Counted /\ Counted' = Counted \cup {r} /\ IsFiniteSet(Counted)
  <2>1. \A q \in Requests : pc'[q] = IF q = r THEN "counted" ELSE pc[q]
    BY <1>1, <1>2 DEF TypeOK
  <2> QED BY <1>2, <2>1, Groups DEF Counted
<1>4. \A q \in Requests : AnswerOf(q)' = AnswerOf(q)
  BY <1>2 DEF AnswerOf
<1>5. took'[r] = d /\ \A q \in Counted : took'[q] = took[q]
  BY <1>1, <1>2, <1>3 DEF TypeOK
<1>6. requests' = Cardinality(Counted')
  BY <1>1, <1>2, <1>3, OneMore DEF Ledger
<1>7. errors' = Cardinality(Failing(Counted)')
  <2>1. IsFiniteSet(Failing(Counted)) /\ r \notin Failing(Counted)
    BY <1>3, FS_Subset DEF Failing
  <2>2. Failing(Counted)' = IF IsError(s) THEN Failing(Counted) \cup {r} ELSE Failing(Counted)
    <3>1. \A q \in Counted : IsError(AnswerOf(q))' <=> IsError(AnswerOf(q))
      BY <1>4 DEF Counted, IsError
    <3>2. IsError(AnswerOf(r))' <=> IsError(s)
      BY <1>1, <1>4 DEF IsError
    <3> QED BY <1>3, <3>1, <3>2 DEF Failing
  <2>3. errors = Cardinality(Failing(Counted)) /\ Cardinality(Failing(Counted)) \in Nat
    BY <1>1, <2>1, FS_CardinalityType DEF Ledger
  <2> QED BY <1>2, <2>1, <2>2, <2>3, OneMore
<1>8. ASSUME NEW k \in Keys, k # key PROVE RouteLedger(MetricsOf(k), Of(k))'
  <2>1. MetricsOf(k)' = MetricsOf(k)
    BY <1>2, <1>8 DEF MetricsOf
  <2>2. Of(k)' = Of(k) /\ Of(k) \subseteq Counted
    BY <1>2, <1>3, <1>8 DEF Of, key
  <2>3. \A q \in Of(k) : AnswerOf(q)' = AnswerOf(q) /\ took'[q] = took[q]
    BY <1>4, <1>5, <2>2 DEF Counted
  <2>4. Failing(Of(k))' = Failing(Of(k))
    BY <2>2, <2>3 DEF Failing
  <2>5. \A c \in Codes : {q \in Of(k)' : AnswerOf(q)' = c} = {q \in Of(k) : AnswerOf(q) = c}
    BY <2>2, <2>3
  <2>6. \A b \in Buckets : {q \in Of(k)' : Bucket(took'[q]) = b}
                             = {q \in Of(k) : Bucket(took[q]) = b}
    BY <2>2, <2>3
  <2>7. RouteLedger(MetricsOf(k), Of(k))
    BY <1>1 DEF Ledger
  <2> QED BY <2>1, <2>2, <2>4, <2>5, <2>6, <2>7 DEF RouteLedger
<1>9. ASSUME NEW k \in Keys, k = key PROVE RouteLedger(MetricsOf(k), Of(k))'
  <2> DEFINE old == MetricsOf(k)
  <2>1. MetricsOf(k)' = new
    <3>1. (k \in DOMAIN routes)' /\ routes'[k] = new
      BY <1>2, <1>9
    <3> QED BY <3>1 DEF MetricsOf
  <2>2. /\ r \notin Of(k) /\ Of(k) \subseteq Counted /\ IsFiniteSet(Of(k))
        /\ Of(k)' = Of(k) \cup {r}
    <3>1. r \notin Of(k) /\ Of(k) \subseteq Counted
      BY <1>3 DEF Of
    <3>2. Key[call[r]] = k
      BY <1>9 DEF key
    <3>3. Of(k)' = Of(k) \cup {r}
      BY <1>2, <1>3, <3>2 DEF Of
    <3> QED BY <1>3, <3>1, <3>3, FS_Subset
  <2>3. /\ \A q \in Of(k) : AnswerOf(q)' = AnswerOf(q) /\ took'[q] = took[q]
        /\ AnswerOf(r)' = s
    BY <1>1, <1>4, <1>5, <2>2 DEF Counted
  <2>4. RouteLedger(old, Of(k))
    BY <1>1 DEF Ledger
  <2> HIDE DEF old
  <2>5. new.requests = Cardinality(Of(k)')
    BY <2>2, <2>4, <1>9, OneMore DEF new, old, Count, RouteLedger
  <2>6. new.errors = Cardinality(Failing(Of(k))')
    <3>1. IsFiniteSet(Failing(Of(k))) /\ r \notin Failing(Of(k))
      BY <2>2, FS_Subset DEF Failing
    <3>2. Failing(Of(k))' = IF IsError(s) THEN Failing(Of(k)) \cup {r} ELSE Failing(Of(k))
      <4>1. \A q \in Of(k) : IsError(AnswerOf(q))' <=> IsError(AnswerOf(q))
        BY <2>3 DEF IsError
      <4>2. IsError(AnswerOf(r))' <=> IsError(s)
        BY <2>3 DEF IsError
      <4> QED BY <2>2, <4>1, <4>2 DEF Failing
    <3>3. old.errors = Cardinality(Failing(Of(k))) /\ Cardinality(Failing(Of(k))) \in Nat
      BY <2>4, <3>1, FS_CardinalityType DEF RouteLedger
    <3> QED BY <3>1, <3>2, <3>3, <1>9, OneMore DEF new, old, Count
  <2>7. ASSUME NEW c \in Codes
        PROVE  new.statusCount[c] = Cardinality({q \in Of(k)' : AnswerOf(q)' = c})
    <3> DEFINE before == {q \in Of(k) : AnswerOf(q) = c}
    <3>1. IsFiniteSet(before) /\ r \notin before
      BY <2>2, FS_Subset
    <3>2. {q \in Of(k)' : AnswerOf(q)' = c} = IF c = s THEN before \cup {r} ELSE before
      BY <2>2, <2>3
    <3>3. old.statusCount[c] = Cardinality(before) /\ Cardinality(before) \in Nat
      BY <2>4, <3>1, FS_CardinalityType DEF RouteLedger
    <3>4. new.statusCount[c] = IF c = s THEN old.statusCount[c] + 1 ELSE old.statusCount[c]
      BY <1>1, <1>9 DEF new, old, Count, Metrics
    <3> QED BY <3>1, <3>2, <3>3, <3>4, OneMore
  <2>8. ASSUME NEW b \in Buckets
        PROVE  new.durationCount[b] = Cardinality({q \in Of(k)' : Bucket(took'[q]) = b})
    <3> DEFINE before == {q \in Of(k) : Bucket(took[q]) = b}
    <3>1. IsFiniteSet(before) /\ r \notin before
      BY <2>2, FS_Subset
    <3>2. {q \in Of(k)' : Bucket(took'[q]) = b}
             = IF b = Bucket(d) THEN before \cup {r} ELSE before
      BY <1>5, <2>2, <2>3
    <3>3. old.durationCount[b] = Cardinality(before) /\ Cardinality(before) \in Nat
      BY <2>4, <3>1, FS_CardinalityType DEF RouteLedger
    <3>4. new.durationCount[b] = IF b = Bucket(d) THEN old.durationCount[b] + 1
                                                  ELSE old.durationCount[b]
      BY <1>1, <1>9, BucketType DEF new, old, Count, Metrics
    <3> QED BY <3>1, <3>2, <3>3, <3>4, OneMore
  <2> QED BY <2>1, <2>5, <2>6, <2>7, <2>8 DEF RouteLedger
<1>10. ASSUME NEW k \in Keys PROVE RouteLedger(MetricsOf(k), Of(k))'
  <2>1. CASE k # key
    BY <1>8, <2>1
  <2>2. CASE k = key
    BY <1>9, <2>2
  <2> QED BY <2>1, <2>2
<1> QED BY <1>6, <1>7, <1>10 DEF Ledger

-------------------------------------------------------------------------------
(***************************************************************************)
(* The gauge and the snapshots.                                            *)
(***************************************************************************)
\* A step that touches no counter and starts nobody.
LEMMA QuietSnapshots ==
  ASSUME IInv, UNCHANGED <<registry, shown>>, Begun' = Begun
  PROVE  /\ \A q \in Requests : (shown[q] # Nothing => Past(shown[q]))'
         /\ SnapshotsOrdered'
<1>1. Snapshot' = Snapshot
  BY DEF registry, Snapshot
<1>2. ASSUME NEW q \in Requests, shown'[q] # Nothing PROVE Past(shown[q])'
  BY <1>1, <1>2 DEF IInv, Past
<1> QED BY <1>2 DEF IInv, SnapshotsOrdered

LEMMA SnapshotOfNow ==
  ASSUME IInv, NEW r \in Active
  PROVE  Past(Snapshot)
<1>1. Snapshot.inflight = Cardinality(Active) /\ Snapshot.requests = Cardinality(Counted)
  BY DEF IInv, InflightBalance, Ledger, Snapshot
<1>2. /\ Cardinality(Active) \in Nat /\ Cardinality(Active) # 0
      /\ Cardinality(Counted) \in Nat
  BY Groups, FS_EmptySet, FS_CardinalityType
<1>3. Cardinality(Active) + Cardinality(Counted) <= Cardinality(Begun)
  <2>1. Active \cup Counted \subseteq Begun /\ IsFiniteSet(Begun)
    BY Groups DEF IInv
  <2>2. Cardinality(Active \cup Counted) = Cardinality(Active) + Cardinality(Counted)
    <3>1. Cardinality(Active \cap Counted) = 0
      BY Groups, FS_EmptySet
    <3>2. Cardinality(Active \cup Counted)
            = Cardinality(Active) + Cardinality(Counted) - Cardinality(Active \cap Counted)
      BY Groups, FS_Union
    <3> QED BY <1>2, <3>1, <3>2
  <2>3. Cardinality(Active \cup Counted) <= Cardinality(Begun)
    BY <2>1, FS_Subset
  <2> QED BY <2>2, <2>3
<1>4. NotBehind(Snapshot, Snapshot)
  BY SnapshotType, Reflexive DEF IInv
<1> QED BY <1>1, <1>2, <1>3, <1>4 DEF Past

LEMMA BeginStep ==
  ASSUME IInv, TypeOK', NEW r \in Requests, Begin(r) PROVE IInv'
<1>1. \A q \in Requests : pc'[q] = IF q = r THEN "handling" ELSE pc[q]
  BY DEF IInv, TypeOK, Begin, Goto
<1>2. /\ pc[r] = "new" /\ inflight' = inflight + 1
      /\ UNCHANGED <<requests, errors, bytes, routes, call, status, sent,
                     written, shown, took>>
  BY DEF Begin, Goto
<1>3. /\ Active' = Active \cup {r} /\ r \notin Active
      /\ Begun' = Begun \cup {r} /\ r \notin Begun
      /\ Counted' = Counted
  BY <1>1, <1>2 DEF Active, Begun, Counted
<1>4. IsFiniteSet(Begun') /\ InflightBalance'
  BY <1>2, <1>3, Groups, OneMore, FS_AddElement DEF IInv, InflightBalance
<1>5. Cardinality(Begun') = Cardinality(Begun) + 1 /\ Cardinality(Begun) \in Nat
  BY <1>3, OneMore DEF IInv
<1>6. Ledger'
  BY <1>2, <1>3, QuietLedger DEF IInv
<1>7. ASSUME NEW q \in Requests, shown'[q] # Nothing PROVE Past(shown[q])'
  <2>1. Past(shown[q]) /\ shown'[q] = shown[q] /\ IsSnapshot(shown[q])
    BY <1>2, <1>7 DEF IInv, TypeOK
  <2>2. NotBehind(Snapshot, shown[q])'
    BY <1>2, <2>1 DEF Past, NotBehind, Snapshot
  <2> QED BY <1>5, <2>1, <2>2 DEF Past, IsSnapshot
<1>8. SnapshotsOrdered'
  BY <1>2 DEF IInv, SnapshotsOrdered
<1>9. \A q \in Requests : status'[q] = sent'[q]
  BY <1>2 DEF IInv
<1> QED BY <1>4, <1>6, <1>7, <1>8, <1>9 DEF IInv

\* What a handler does before it returns, and its return or its panic.
LEMMA HandlerStep ==
  ASSUME IInv, TypeOK', NEW r \in Requests,
         \/ \E code \in Statuses : WriteHeader(r, code)
         \/ \E n \in 0 .. MaxBytes : Write(r, n)
         \/ End(r)
  PROVE  IInv'
<1>1. /\ pc[r] = "handling" /\ UNCHANGED <<registry, call, shown, took>>
      /\ pc' = pc \/ pc' = [pc EXCEPT ![r] = "returned"]
  BY DEF WriteHeader, Write, End, Return, Recover, Goto
<1>2. /\ \A q \in Requests \ {r} : status'[q] = status[q] /\ sent'[q] = sent[q]
      /\ status'[r] = sent'[r]
  <2>1. UNCHANGED <<status, sent>> \/ \E code \in Codes : Header(r, code)
    BY CodesAreStatuses DEF WriteHeader, Write, End, Return, Recover, Codes
  <2>2. CASE UNCHANGED <<status, sent>>
    BY <2>2 DEF IInv
  <2>3. ASSUME NEW code \in Codes, Header(r, code)
        PROVE  /\ \A q \in Requests \ {r} : status'[q] = status[q] /\ sent'[q] = sent[q]
               /\ status'[r] = sent'[r]
    BY <2>3 DEF IInv, TypeOK, Header
  <2> QED BY <2>1, <2>2, <2>3
<1>3. Active' = Active /\ Begun' = Begun /\ Counted' = Counted
  <2>1. \A q \in Requests : pc'[q] = pc[q] \/ (q = r /\ pc'[q] = "returned")
    BY <1>1 DEF IInv, TypeOK
  <2> QED BY <1>1, <2>1 DEF Active, Begun, Counted
<1>4. \A q \in Counted : sent'[q] = sent[q]
  BY <1>1, <1>2 DEF Counted
<1>5. Ledger' /\ InflightBalance' /\ IsFiniteSet(Begun')
  BY <1>1, <1>3, <1>4, QuietLedger DEF IInv, registry, InflightBalance
<1>6. \A q \in Requests : status'[q] = sent'[q]
  BY <1>2 DEF IInv
<1> QED BY <1>1, <1>3, <1>5, <1>6, QuietSnapshots DEF IInv

LEMMA TakeSnapshotStep ==
  ASSUME IInv, TypeOK', NEW r \in Requests, TakeSnapshot(r) PROVE IInv'
<1>1. /\ pc[r] = "handling" /\ shown[r] = Nothing
      /\ UNCHANGED <<registry, pc, call, status, sent, written, took>>
  BY DEF TakeSnapshot
<1>2. \A q \in Requests : shown'[q] = IF q = r THEN Snapshot ELSE shown[q]
  <2>1. shown' = [shown EXCEPT ![r] = Snapshot] /\ DOMAIN shown = Requests
    BY DEF TakeSnapshot, IInv, TypeOK
  <2> QED BY <2>1
<1>3. Active' = Active /\ Begun' = Begun /\ Counted' = Counted /\ Snapshot' = Snapshot
  BY <1>1 DEF Active, Begun, Counted, Snapshot, registry
<1>4. Past(Snapshot)
  BY <1>1, SnapshotOfNow DEF Active
<1>5. ASSUME NEW q \in Requests, shown'[q] # Nothing PROVE Past(shown'[q])
  BY <1>2, <1>4, <1>5 DEF IInv
<1>6. SnapshotsOrdered'
  <2> SUFFICES ASSUME NEW p \in Requests, NEW q \in Requests,
                      shown'[p] # Nothing, shown'[q] # Nothing
               PROVE  NotBehind(shown'[p], shown'[q]) \/ NotBehind(shown'[q], shown'[p])
    BY DEF SnapshotsOrdered
  <2>1. CASE p = r
    BY <1>2, <1>5, <2>1 DEF Past
  <2>2. CASE q = r
    BY <1>2, <1>5, <2>2 DEF Past
  <2>3. CASE p # r /\ q # r
    BY <1>2, <2>3 DEF IInv, SnapshotsOrdered
  <2> QED BY <2>1, <2>2, <2>3
<1>7. Ledger' /\ InflightBalance' /\ IsFiniteSet(Begun')
  BY <1>1, <1>3, QuietLedger DEF IInv, registry, InflightBalance
<1>8. \A q \in Requests : (shown[q] # Nothing => Past(shown[q]))'
  BY <1>3, <1>5 DEF Past
<1> QED BY <1>1, <1>6, <1>7, <1>8 DEF IInv

\* finish() always finds what Begin added.
LEMMA FinishStep ==
  ASSUME IInv, TypeOK', NEW r \in Requests, Finish(r) PROVE IInv'
<1>1. /\ pc[r] = "returned" /\ pc' = [pc EXCEPT ![r] = "finished"]
      /\ UNCHANGED <<requests, errors, bytes, routes, call, status, sent,
                     written, shown, took>>
  BY DEF Finish, Goto
<1>2. /\ r \in Active /\ Active' = Active \ {r}
      /\ Begun' = Begun /\ Counted' = Counted
  <2>1. \A q \in Requests : pc'[q] = IF q = r THEN "finished" ELSE pc[q]
    BY <1>1 DEF IInv, TypeOK
  <2> QED BY <1>1, <2>1 DEF Active, Begun, Counted
<1>3. /\ Cardinality(Active \ {r}) = Cardinality(Active) - 1
      /\ Cardinality(Active) \in Nat /\ Cardinality(Active) # 0
  BY <1>2, Groups, FS_RemoveElement, FS_CardinalityType, FS_EmptySet
<1>4. inflight' = inflight - 1 /\ InflightBalance'
  BY <1>2, <1>3 DEF IInv, InflightBalance, Finish
<1>5. Ledger' /\ IsFiniteSet(Begun')
  BY <1>1, <1>2, QuietLedger DEF IInv
<1>6. ASSUME NEW q \in Requests, shown'[q] # Nothing PROVE Past(shown[q])'
  <2>1. Past(shown[q]) /\ shown'[q] = shown[q]
    BY <1>1, <1>6 DEF IInv
  <2> QED BY <1>1, <1>2, <2>1 DEF Past, NotBehind, Snapshot
<1>7. SnapshotsOrdered' /\ \A q \in Requests : status'[q] = sent'[q]
  BY <1>1 DEF IInv, SnapshotsOrdered
<1> QED BY <1>4, <1>5, <1>6, <1>7 DEF IInv

LEMMA ObserveStep ==
  ASSUME IInv, NEW r \in Requests, Observe(r) PROVE IInv'
<1> PICK duration \in Durations : ObserveHTTP(r, duration)
  BY DEF Observe
<1>1. TypeOK' /\ NotBehind(Snapshot', Snapshot) /\ Ledger'
  BY ObserveType, ObserveLedger
<1>2. /\ pc[r] = "finished" /\ pc' = [pc EXCEPT ![r] = "counted"]
      /\ UNCHANGED <<inflight, call, status, sent, written, shown>>
  BY DEF ObserveHTTP, Goto
<1>3. Active' = Active /\ Begun' = Begun
  <2>1. \A q \in Requests : pc'[q] = IF q = r THEN "counted" ELSE pc[q]
    BY <1>2 DEF IInv, TypeOK
  <2> QED BY <1>2, <2>1 DEF Active, Begun
<1>4. InflightBalance' /\ IsFiniteSet(Begun')
  BY <1>2, <1>3 DEF IInv, InflightBalance
<1>5. ASSUME NEW q \in Requests, shown'[q] # Nothing PROVE Past(shown[q])'
  <2>1. Past(shown[q]) /\ shown'[q] = shown[q] /\ IsSnapshot(shown[q])
    BY <1>2, <1>5 DEF IInv, TypeOK
  <2>2. IsSnapshot(Snapshot) /\ IsSnapshot(Snapshot')
    BY <1>1, SnapshotType DEF IInv, TypeOK, IsSnapshot
  <2>3. NotBehind(Snapshot', shown[q])
    BY <1>1, <2>1, <2>2, Transitive DEF Past
  <2> QED BY <1>3, <2>1, <2>3 DEF Past
<1>6. SnapshotsOrdered' /\ \A q \in Requests : status'[q] = sent'[q]
  BY <1>2 DEF IInv, SnapshotsOrdered
<1> QED BY <1>1, <1>4, <1>5, <1>6 DEF IInv

LEMMA TelemetryStep == IInv /\ [Next]_vars => IInv'
<1> SUFFICES ASSUME IInv, [Next]_vars PROVE IInv'
  OBVIOUS
<1>0. TypeOK'
  BY TelemetryType
<1>1. ASSUME NEW r \in Requests, Begin(r) PROVE IInv'
  BY <1>0, <1>1, BeginStep
<1>2. ASSUME NEW r \in Requests, Handle(r) \/ End(r) PROVE IInv'
  BY <1>0, <1>2, HandlerStep, TakeSnapshotStep DEF Handle
<1>3. ASSUME NEW r \in Requests, Finish(r) PROVE IInv'
  BY <1>0, <1>3, FinishStep
<1>4. ASSUME NEW r \in Requests, Observe(r) PROVE IInv'
  BY <1>4, ObserveStep
<1>5. CASE AllCounted \/ UNCHANGED vars
  <2>1. UNCHANGED vars
    BY <1>5 DEF AllCounted
  <2>2. Active' = Active /\ Begun' = Begun /\ Counted' = Counted
    BY <2>1 DEF vars, Active, Begun, Counted
  <2>3. Ledger'
    BY <2>1, <2>2, QuietLedger DEF IInv, vars, registry
  <2>4. InflightBalance' /\ IsFiniteSet(Begun') /\ \A q \in Requests : status'[q] = sent'[q]
    BY <2>1, <2>2 DEF IInv, vars, registry, InflightBalance
  <2>5. UNCHANGED <<registry, shown>>
    BY <2>1 DEF vars
  <2> QED BY <1>0, <2>2, <2>3, <2>4, <2>5, QuietSnapshots DEF IInv
<1> QED BY <1>1, <1>2, <1>3, <1>4, <1>5 DEF Next

-------------------------------------------------------------------------------
(***************************************************************************)
(* Theorems.                                                               *)
(***************************************************************************)
\* Every state of the middleware and the registry satisfies the inductive
\* invariant: Begin and finish() come in pairs around each handler, the
\* recorder holds the code that was sent, and snapshots are of the past.
THEOREM TelemetryInvariant == Spec => []IInv
<1>1. Init => IInv
  BY TelemetryInit
<1>2. IInv /\ [Next]_vars => IInv'
  BY TelemetryStep
<1> QED BY <1>1, <1>2, PTL DEF Spec

\* The registry and the recorders keep their types; the gauge is a natural
\* number although finish() subtracts.
THEOREM TelemetryTypes == Spec => []TypeOK
<1>1. IInv => TypeOK
  BY DEF IInv
<1> QED BY <1>1, TelemetryInvariant, PTL

\* Begin and finish(): the gauge is the number of handlers at work.
THEOREM GaugeBalances == Spec => []InflightBalance
<1>1. IInv => InflightBalance
  BY DEF IInv
<1> QED BY <1>1, TelemetryInvariant, PTL

\* ObserveHTTP and the recorder: the counters say what clients were answered,
\* per route, code and bucket, after any interleaving and any panics.
THEOREM LedgerBalances == Spec => []Ledger
<1>1. IInv => Ledger
  BY DEF IInv
<1> QED BY <1>1, TelemetryInvariant, PTL

\* Registry.Snapshot: it sees its reader at work, and no request twice.
THEOREM SnapshotsAreBounded == Spec => []SnapshotBounds
<1>1. IInv => SnapshotBounds
  BY DEF IInv, Past, SnapshotBounds
<1> QED BY <1>1, TelemetryInvariant, PTL

\* Registry.Snapshot: of any two, one is not behind the other in any counter.
THEOREM SnapshotsAreOrdered == Spec => []SnapshotsOrdered
<1>1. IInv => SnapshotsOrdered
  BY DEF IInv
<1> QED BY <1>1, TelemetryInvariant, PTL

-------------------------------------------------------------------------------
(***************************************************************************)
(* The series of a histogram.  A set of buckets stands for the requests in *)
(* them; taking a bucket off takes off as many as the registry counted     *)
(* there, so the sum over the buckets up to a bound is all that are below. *)
(***************************************************************************)
\* A sum over a finite set, from a function that has the values it should on
\* the subsets: on a smallest one where the two differ an element is taken off.
Adds(G, counts, S) ==
  /\ G \in [SUBSET S -> Int] /\ G[{}] = 0
  /\ \A s \in SUBSET S : \A x \in s : G[s] = counts[x] + G[s \ {x}]

LEMMA SumOnSet ==
  ASSUME NEW S, IsFiniteSet(S), NEW counts, NEW G, Adds(G, counts, S)
  PROVE  SumFunctionOnSet(counts, S) = G[S]
<1> DEFINE any(s) == CHOOSE x \in s : TRUE
           Rest(f) == [s \in SUBSET S |-> IF s = {} THEN 0
                                          ELSE counts[any(s)] + f[s \ {any(s)}]]
           F == CHOOSE f : f = Rest(f)
<1>1. SumFunctionOnSet(counts, S) = F[S]
  BY DEF SumFunctionOnSet, FoldFunctionOnSet, MapThenFoldSet
<1>a. \A s \in SUBSET S : s # {} => any(s) \in s
  OBVIOUS
<1> HIDE DEF any
<1>2. G = Rest(G)
  <2>1. \A s \in SUBSET S : s # {} => G[s] = counts[any(s)] + G[s \ {any(s)}]
    BY <1>a DEF Adds
  <2> QED BY <2>1 DEF Adds
<1>3. F = Rest(F)
  BY <1>2
<1> HIDE DEF F
<1>4. \A s \in SUBSET S : F[s] = IF s = {} THEN 0
                                 ELSE counts[any(s)] + F[s \ {any(s)}]
  BY <1>3
<1> DEFINE D == {s \in SUBSET S : F[s] # G[s]}
<1>5. CASE D = {}
  BY <1>1, <1>5
<1>6. CASE D # {}
  <2>1. IsWellFoundedOn(StrictSubsetOrdering(S), SUBSET S)
    BY FS_StrictSubsetOrderingWellFounded, FS_FiniteSubsetsOfFinite
  <2>2. PICK s \in D : \A t \in D : ~(<<t, s>> \in StrictSubsetOrdering(S))
    <3> HIDE DEF D
    <3>1. D \subseteq SUBSET S
      BY DEF D
    <3> QED BY <1>6, <2>1, <3>1, WFMin
  <2>3. s # {} /\ any(s) \in s /\ s \ {any(s)} \in SUBSET S
    BY <1>a, <1>4 DEF Adds
  <2>4. <<s \ {any(s)}, s>> \in StrictSubsetOrdering(S)
    BY <2>3 DEF StrictSubsetOrdering
  <2>5. F[s \ {any(s)}] = G[s \ {any(s)}]
    BY <2>2, <2>3, <2>4
  <2>6. F[s] = G[s]
    BY <1>4, <2>3, <2>5 DEF Adds
  <2> QED BY <2>6
<1> QED BY <1>5, <1>6

Within(R, S) == {r \in R : Bucket(took[r]) \in S}

LEMMA SeriesCounts ==
  ASSUME NEW m, NEW R, IsFiniteSet(R), RouteLedger(m, R), NEW S \in SUBSET Buckets
  PROVE  SumFunctionOnSet(m.durationCount, S) = Cardinality(Within(R, S))
<1> DEFINE In(s) == {r \in R : Bucket(took[r]) \in s}
           G == [s \in SUBSET S |-> Cardinality(In(s))]
           counts == m.durationCount
<1>1. \A s \in SUBSET S : IsFiniteSet(In(s)) /\ Cardinality(In(s)) \in Nat
  BY FS_Subset, FS_CardinalityType
<1>2. G \in [SUBSET S -> Int]
  BY <1>1
<1>3. G[{}] = 0
  BY FS_EmptySet
<1>4. ASSUME NEW s \in SUBSET S, NEW x \in s
      PROVE  G[s] = counts[x] + G[s \ {x}]
  <2> DEFINE A == {r \in R : Bucket(took[r]) = x}
             B == In(s \ {x})
  <2>1. IsFiniteSet(A) /\ IsFiniteSet(B)
    BY FS_Subset
  <2>2. In(s) = A \cup B /\ A \cap B = {}
    OBVIOUS
  <2>3. Cardinality(A) \in Nat /\ Cardinality(B) \in Nat
    BY <2>1, FS_CardinalityType
  <2>4. counts[x] = Cardinality(A)
    BY DEF RouteLedger
  <2>5. G[s] = Cardinality(In(s)) /\ G[s \ {x}] = Cardinality(B)
    OBVIOUS
  <2> HIDE DEF A, B, G, In
  <2>6. Cardinality(A \cup B) = Cardinality(A) + Cardinality(B)
    BY <2>1, <2>2, <2>3, FS_Union, FS_EmptySet
  <2> QED BY <2>2, <2>4, <2>5, <2>6
<1>5. IsFiniteSet(S)
  <2>1. Cardinality(LatencyBounds) + 1 \in Int
    <3>1. IsFiniteSet(LatencyBounds)
      BY TelemetryAssumption, FS_Subset DEF LatencyBounds
    <3> QED BY <3>1, FS_CardinalityType
  <2>2. IsFiniteSet(Buckets)
    BY <2>1, FS_Interval DEF Buckets
  <2> QED BY <2>2, FS_Subset
<1>6. G[S] = Cardinality(In(S))
  OBVIOUS
<1> HIDE DEF G, In, counts
<1>a. Adds(G, counts, S)
  BY <1>2, <1>3, <1>4 DEF Adds
<1>7. SumFunctionOnSet(counts, S) = G[S]
  BY <1>a, <1>5, SumOnSet
<1>8. SumFunctionOnSet(counts, S) = Cardinality(In(S))
  BY <1>6, <1>7
<1> QED BY <1>8 DEF In, counts, Within

\* A duration is in a bucket up to that of a bound just when the bound is kept.
LEMMA BucketOrders ==
  ASSUME NEW d \in Int, NEW le \in LatencyBounds
  PROVE  Bucket(d) <= Bucket(le) <=> d <= le
<1> DEFINE Under(e) == {b \in LatencyBounds : b < e}
<1>1. IsFiniteSet(LatencyBounds)
  BY TelemetryAssumption, FS_Subset DEF LatencyBounds
<1>a. \A b \in LatencyBounds : b \in Int
  BY TelemetryAssumption DEF LatencyBounds
<1>2. \A e \in Int : /\ IsFiniteSet(Under(e)) /\ Cardinality(Under(e)) \in Nat
                     /\ Bucket(e) = Cardinality(Under(e)) + 1
  BY <1>1, FS_Subset, FS_CardinalityType DEF Bucket
<1>3. CASE d <= le
  <2>1. Under(d) \subseteq Under(le)
    BY <1>a, <1>3
  <2> HIDE DEF Under
  <2>2. Cardinality(Under(d)) <= Cardinality(Under(le))
    BY <1>a, <1>2, <2>1, FS_Subset
  <2> QED BY <1>a, <1>2, <1>3, <2>2
<1>4. CASE d > le
  <2>1. Under(le) \subseteq Under(d) /\ le \in Under(d) /\ le \notin Under(le)
    BY <1>a, <1>4
  <2> HIDE DEF Under
  <2>2. /\ Cardinality(Under(le)) <= Cardinality(Under(d))
        /\ Cardinality(Under(le)) # Cardinality(Under(d))
    BY <1>a, <1>2, <2>1, FS_Subset
  <2> QED BY <1>a, <1>2, <1>4, <2>2
<1> QED BY <1>a, <1>3, <1>4

LEMMA SeriesAreTrue ==
  ASSUME IInv, NEW k \in DOMAIN routes
  PROVE  LET series == Cumulative(routes[k].durationCount) IN
         /\ \A le \in LatencyBounds :
              series[Bucket(le)] = Cardinality({r \in Of(k) : took[r] <= le})
         /\ series[Cardinality(LatencyBounds) + 1] = routes[k].requests
<1> DEFINE counts == routes[k].durationCount
           last == Cardinality(LatencyBounds) + 1
           R == Of(k)
<1>1. k \in Keys /\ MetricsOf(k) = routes[k]
  BY DEF IInv, TypeOK, IsSnapshot, Snapshot, MetricsOf
<1>2. RouteLedger(routes[k], R) /\ counts = routes[k].durationCount
  BY <1>1 DEF IInv, Ledger
<1>3. IsFiniteSet(R) /\ R \subseteq Requests
  BY Groups, FS_Subset DEF Of, Counted
<1>4. \A r \in R : took[r] \in Int /\ Bucket(took[r]) \in Buckets
  BY <1>3, BucketType DEF IInv, TypeOK
<1>5. /\ last \in Nat \ {0} /\ Buckets = 1 .. last
      /\ \A le \in LatencyBounds : le \in Int
  <2>1. IsFiniteSet(LatencyBounds) /\ \A le \in LatencyBounds : le \in Int
    BY TelemetryAssumption, FS_Subset DEF LatencyBounds
  <2>2. Cardinality(LatencyBounds) \in Nat
    BY <2>1, FS_CardinalityType
  <2> QED BY <2>1, <2>2 DEF Buckets
<1> HIDE DEF last, R, counts
<1>6. ASSUME NEW b \in Buckets
      PROVE  Cumulative(counts)[b] = Cardinality({r \in R : Bucket(took[r]) <= b})
  <2>1. 1 .. b \subseteq Buckets
    BY <1>5
  <2>2. SumFunctionOnSet(counts, 1 .. b) = Cardinality(Within(R, 1 .. b))
    BY <1>2, <1>3, <2>1, SeriesCounts
  <2>3. Within(R, 1 .. b) = {r \in R : Bucket(took[r]) <= b}
    BY <1>4, <1>5 DEF Within
  <2> QED BY <2>2, <2>3 DEF Cumulative
<1>7. ASSUME NEW le \in LatencyBounds
      PROVE  Cumulative(counts)[Bucket(le)] = Cardinality({r \in R : took[r] <= le})
  <2>1. Bucket(le) \in Buckets
    BY <1>5, BucketType
  <2>2. \A r \in R : Bucket(took[r]) <= Bucket(le) <=> took[r] <= le
    BY <1>4, BucketOrders
  <2>3. {r \in R : Bucket(took[r]) <= Bucket(le)} = {r \in R : took[r] <= le}
    BY <2>2
  <2> QED BY <1>6, <2>1, <2>3
<1>8. Cumulative(counts)[last] = routes[k].requests
  <2>1. last \in Buckets
    BY <1>5
  <2>2. {r \in R : Bucket(took[r]) <= last} = R
    BY <1>4, <1>5
  <2> QED BY <1>2, <1>6, <2>1, <2>2 DEF RouteLedger
<1> QED BY <1>7, <1>8 DEF last, R, counts

\* What Prometheus reads is true: the series of a bound counts the requests
\* that took no longer, and the last one all requests (WritePrometheus).
THEOREM HistogramsAreTrue == Spec => []HistogramIsTrue
<1>1. IInv => HistogramIsTrue
  BY SeriesAreTrue DEF HistogramIsTrue
<1> QED BY <1>1, TelemetryInvariant, PTL
===============================================================================
