------------------------------ MODULE Telemetry -------------------------------
(***************************************************************************)
(* internal/telemetry and the handler chain of api/router.go, outside in:  *)
(* Instrument, Recover, Logging, the mux.  Every request of the API passes *)
(* through it, the two that read the counters (GET /metrics and            *)
(* GET /api/v1/system/metrics) included.                                   *)
(*                                                                         *)
(* A request is counted in two critical sections of the registry's mutex,  *)
(* the in-flight mark removed in one and the request counted in the other, *)
(* and a snapshot may be taken between them.  Times of day and the text of *)
(* the two outputs are left out.                                           *)
(***************************************************************************)
EXTENDS Sequences, FiniteSetsExt

CONSTANTS
  Requests,      \* requests the server receives, one use each
  Calls,         \* what a request asks for: its method and its path
  Scrapes,       \* the calls that PrometheusHandler or JSONHandler answers
  Mixes,         \* what the requests ask for together: functions to Calls
  Statuses,      \* codes a handler passes to WriteHeader, none provisional
  Durations,     \* how long a request can take
  Bounds,        \* latency bounds given to NewRegistryWithBounds, as a set
  MaxBytes       \* bound: bytes written to one response

ASSUME TelemetryAssumption ==
  /\ Scrapes \subseteq Calls
  /\ Mixes \subseteq [Requests -> Calls]
  /\ Statuses \subseteq 200..599
  /\ Durations \subseteq Int
  /\ Bounds \subseteq Int /\ IsFiniteSet(Bounds)
  /\ MaxBytes \in Nat

-------------------------------------------------------------------------------
(***************************************************************************)
(* The name a request is counted under.  A path is the list of its parts   *)
(* between slashes (a trailing slash leaves an empty one) without a query. *)
(* A part has what looksLikeIdentifier asks for: its length, its           *)
(* hexadecimal digits, its characters that are neither these nor dashes,   *)
(* and whether it is a decimal number of 64 bits.                          *)
(***************************************************************************)
Empty == [text |-> "", length |-> 0, hexes |-> 0, others |-> 0,
          decimal |-> FALSE]
Id    == [text |-> "{id}", length |-> 4, hexes |-> 1, others |-> 3,
          decimal |-> FALSE]

IsHexOrDash(part) == part.others = 0 /\ part.hexes >= 20
LooksLikeIdentifier(part) ==
  \/ part.length >= 24 /\ IsHexOrDash(part)
  \/ part.length >= 8 /\ part.decimal

NormalizeRoute(path) ==
  LET parts == [i \in DOMAIN path |->
                  IF LooksLikeIdentifier(path[i]) THEN Id ELSE path[i]]
      n == Len(parts)
  IN IF n > 1 /\ parts[n] = Empty THEN SubSeq(parts, 1, n - 1) ELSE parts

\* RouteName normalizes the path, ObserveHTTP what RouteName returned.
Key == [c \in Calls |->
         [method |-> c.method, route |-> NormalizeRoute(NormalizeRoute(c.path))]]
Keys == {Key[c] : c \in Calls}

-------------------------------------------------------------------------------
(***************************************************************************)
(* The registry's numbers for one route, and what one observation adds.    *)
(***************************************************************************)
\* normalizeBounds sorts, and drops duplicates and what is not positive.
LatencyBounds == {b \in Bounds : b > 0}
Buckets == 1..(Cardinality(LatencyBounds) + 1)
Codes == Statuses \cup {200, 500}

Metrics == [requests: Nat, errors: Nat, bytes: Nat, total: Nat, max: Nat,
            durationCount: [Buckets -> Nat], statusCount: [Codes -> Nat]]
NoMetrics == [requests |-> 0, errors |-> 0, bytes |-> 0, total |-> 0,
              max |-> 0, durationCount |-> [b \in Buckets |-> 0],
              statusCount |-> [s \in Codes |-> 0]]

\* sort.Search: past the bounds that are exceeded, in the last bucket past all.
BucketVariant(d) ==                         \* a bound is no longer included
  Cardinality({b \in LatencyBounds : b <= d}) + 1
Bucket(d) == Cardinality({b \in LatencyBounds : b < d}) + 1

ClampStatus(s) == IF s \in 100..599 THEN s ELSE 500
ClampDuration(d) == IF d < 0 THEN 0 ELSE d
IsError(s) == s >= 500

CountVariant(old, s, d, n) ==               \* duration_max overwritten
  [requests |-> old.requests + 1,
   errors |-> old.errors + IF IsError(s) THEN 1 ELSE 0,
   bytes |-> old.bytes + n, total |-> old.total + d, max |-> d,
   durationCount |-> [old.durationCount EXCEPT ![Bucket(d)] = @ + 1],
   statusCount |-> [old.statusCount EXCEPT ![s] = @ + 1]]
Count(old, s, d, n) ==
  [requests |-> old.requests + 1,
   errors |-> old.errors + IF IsError(s) THEN 1 ELSE 0,
   bytes |-> old.bytes + n,
   total |-> old.total + d,
   max |-> IF d > old.max THEN d ELSE old.max,
   durationCount |-> [old.durationCount EXCEPT ![Bucket(d)] = @ + 1],
   statusCount |-> [old.statusCount EXCEPT ![s] = @ + 1]]

-------------------------------------------------------------------------------
VARIABLES
  inflight, requests, errors, bytes,   \* Registry: the totals
  routes,     \* Registry: the metrics of each key seen so far
  pc,         \* where a request is in the chain
  call,       \* what it asks for
  status,     \* responseRecorder.status, 0 before the header is written
  sent,       \* net/http: the code in the response's header, 0 before it
  written,    \* responseRecorder.bytes
  shown,      \* the snapshot a request has taken, if it takes one
  took        \* history: how long a counted request took, as counted

registry == <<inflight, requests, errors, bytes, routes>>
vars == <<registry, pc, call, status, sent, written, shown, took>>

Nothing == [requests |-> 0, inflight |-> 0]      \* no snapshot taken

\* Where a request is: not yet received; in the mux's handler; back in
\* Instrument; after finish(); counted by ObserveHTTP.
PCs == {"new", "handling", "returned", "finished", "counted"}
Active  == {r \in Requests : pc[r] \in {"handling", "returned"}}
Counted == {r \in Requests : pc[r] = "counted"}

Init ==
  /\ inflight = 0 /\ requests = 0 /\ errors = 0 /\ bytes = 0
  /\ routes = [k \in {} |-> NoMetrics]
  /\ pc = [r \in Requests |-> "new"]
  /\ call \in Mixes
  /\ status = [r \in Requests |-> 0]
  /\ sent = [r \in Requests |-> 0]
  /\ written = [r \in Requests |-> 0]
  /\ shown = [r \in Requests |-> Nothing]
  /\ took = [r \in Requests |-> 0]

-------------------------------------------------------------------------------
Goto(r, from, to) == pc[r] = from /\ pc' = [pc EXCEPT ![r] = to]

\* The response's header, through the recorder to net/http: the first counts.
\* Logging's statusWriter in between passes every call on.
Header(r, code) ==
  /\ status' = [status EXCEPT ![r] = IF @ = 0 THEN code ELSE @]
  /\ sent' = [sent EXCEPT ![r] = IF status[r] = 0 THEN code ELSE @]

Begin(r) ==
  /\ Goto(r, "new", "handling")
  /\ inflight' = inflight + 1
  /\ UNCHANGED <<requests, errors, bytes, routes, call, status, sent, written,
                 shown, took>>

WriteHeader(r, code) ==
  /\ pc[r] = "handling" /\ call[r] \notin Scrapes
  /\ Header(r, code)
  /\ UNCHANGED <<registry, pc, call, written, shown, took>>

\* A write may take less than it was given, nothing when the client has gone.
\* PrometheusHandler and JSONHandler write what they took a snapshot of.
Write(r, n) ==
  /\ pc[r] = "handling"
  /\ call[r] \in Scrapes => shown[r] # Nothing
  /\ Header(r, 200)
  /\ written[r] + n <= MaxBytes
  /\ written' = [written EXCEPT ![r] = @ + n]
  /\ UNCHANGED <<registry, pc, call, shown, took>>

\* Registry.Snapshot, under the read lock.
Snapshot == [inflight |-> inflight, requests |-> requests, errors |-> errors,
             bytes |-> bytes, routes |-> routes]
TakeSnapshot(r) ==
  /\ pc[r] = "handling" /\ call[r] \in Scrapes /\ shown[r] = Nothing
  /\ shown' = [shown EXCEPT ![r] = Snapshot]
  /\ UNCHANGED <<registry, pc, call, status, sent, written, took>>

Return(r) ==
  /\ Goto(r, "handling", "returned")
  /\ call[r] \in Scrapes => shown[r] # Nothing
  /\ UNCHANGED <<registry, call, status, sent, written, shown, took>>

\* A panic of the handler. Recover answers 500, which is too late when a header
\* has been written; its text is written after whatever was there.
RecoverVariant(r) ==                         \* Recover outside Instrument
  /\ Goto(r, "handling", "returned")
  /\ call[r] \notin Scrapes
  /\ sent' = [sent EXCEPT ![r] = IF @ = 0 THEN 500 ELSE @]
  /\ UNCHANGED <<registry, call, status, written, shown, took>>
Recover(r) ==
  /\ Goto(r, "handling", "returned")
  /\ call[r] \notin Scrapes
  /\ Header(r, 500)
  /\ \E n \in 0..MaxBytes :
       /\ written[r] + n <= MaxBytes
       /\ written' = [written EXCEPT ![r] = @ + n]
  /\ UNCHANGED <<registry, call, shown, took>>

\* The deferred function of Instrument: finish(), then ObserveHTTP.
FinishVariantPanic(r) ==                     \* not deferred: lost by a panic
  /\ Goto(r, "returned", "finished")
  /\ inflight' = IF status[r] # 500 THEN inflight - 1 ELSE inflight
  /\ UNCHANGED <<requests, errors, bytes, routes, call, status, sent, written,
                 shown, took>>
FinishVariantEarly(r) ==                     \* no ObserveHTTP after a panic
  /\ pc[r] = "returned"
  /\ pc' = [pc EXCEPT ![r] = IF status[r] = 500 THEN "new" ELSE "finished"]
  /\ inflight' = inflight - 1
  /\ UNCHANGED <<requests, errors, bytes, routes, call, status, sent, written,
                 shown, took>>
Finish(r) ==
  /\ Goto(r, "returned", "finished")
  /\ inflight' = IF inflight > 0 THEN inflight - 1 ELSE inflight
  /\ UNCHANGED <<requests, errors, bytes, routes, call, status, sent, written,
                 shown, took>>

ObservedStatus(r) == ClampStatus(IF status[r] = 0 THEN 200 ELSE status[r])
MetricsOf(k) == IF k \in DOMAIN routes THEN routes[k] ELSE NoMetrics
ObserveHTTP(r, duration) ==
  LET s == ObservedStatus(r)
      d == ClampDuration(duration)
      key == Key[call[r]]
  IN /\ Goto(r, "finished", "counted")
     /\ requests' = requests + 1
     /\ bytes' = bytes + written[r]
     /\ errors' = errors + IF IsError(s) THEN 1 ELSE 0
     /\ routes' = [k \in DOMAIN routes \cup {key} |->
                     IF k = key THEN Count(MetricsOf(k), s, d, written[r])
                                ELSE routes[k]]
     /\ took' = [took EXCEPT ![r] = d]
     /\ UNCHANGED <<inflight, call, status, sent, written, shown>>

AllCounted == Counted = Requests /\ UNCHANGED vars

-------------------------------------------------------------------------------
Handle(r) ==
  \/ \E code \in Statuses : WriteHeader(r, code)
  \/ \E n \in 0..MaxBytes : Write(r, n)
  \/ TakeSnapshot(r)
End(r) == Return(r) \/ Recover(r)
Observe(r) == \E d \in Durations : ObserveHTTP(r, d)

Next ==
  \/ \E r \in Requests : \/ Begin(r) \/ Handle(r) \/ End(r)
                         \/ Finish(r) \/ Observe(r)
  \/ AllCounted

Spec == Init /\ [][Next]_vars

(***************************************************************************)
(* A handler ends: the server's read and write timeouts cut off a client   *)
(* that stalls, and SQLite's busy timeout a statement that waits.  What is *)
(* deferred is run.  No request has to come.  The steps of Progress follow *)
(* one another, so fairness to each is fairness to their disjunction.      *)
(***************************************************************************)
Progress(r) == TakeSnapshot(r) \/ End(r) \/ Finish(r) \/ Observe(r)
Fairness == \A r \in Requests : WF_vars(Progress(r))
FairSpec == Spec /\ Fairness

-------------------------------------------------------------------------------
(***************************************************************************)
(* Properties.                                                             *)
(***************************************************************************)
IsSnapshot(s) ==
  /\ s.inflight \in Nat /\ s.requests \in Nat /\ s.errors \in Nat
  /\ s.bytes \in Nat
  /\ DOMAIN s.routes \subseteq Keys
  /\ \A k \in DOMAIN s.routes : s.routes[k] \in Metrics
TypeOK ==
  /\ IsSnapshot(Snapshot)
  /\ pc \in [Requests -> PCs]
  /\ call \in [Requests -> Calls]
  /\ status \in [Requests -> Codes \cup {0}]
  /\ sent \in [Requests -> Codes \cup {0}]
  /\ written \in [Requests -> Nat]
  /\ DOMAIN shown = Requests
  /\ \A r \in Requests : shown[r] # Nothing => IsSnapshot(shown[r])
  /\ took \in [Requests -> Nat]

\* The gauge is the number of requests whose handler is at work: it is raised
\* and lowered once for each, whatever panics, and the guard that keeps it
\* from going below 0 (registry.go, Begin) never hides a mismatch.
InflightBalance == inflight = Cardinality(Active)

\* What is counted is what clients were answered: totals, the metrics of each
\* route, codes and buckets are the numbers of requests they stand for, with
\* the 500 of a recovered panic and the 200 that net/http sends by itself when
\* the chain returns without a header.
AnswerOf(r) == IF sent[r] = 0 THEN 200 ELSE sent[r]
Of(k) == {r \in Counted : Key[call[r]] = k}
Failing(R) == {r \in R : IsError(AnswerOf(r))}
RouteLedger(m, R) ==
  /\ m.requests = Cardinality(R)
  /\ m.errors = Cardinality(Failing(R))
  /\ \A s \in Codes :
       m.statusCount[s] = Cardinality({r \in R : AnswerOf(r) = s})
  /\ \A b \in Buckets :
       m.durationCount[b] = Cardinality({r \in R : Bucket(took[r]) = b})
Ledger ==
  /\ requests = Cardinality(Counted)
  /\ errors = Cardinality(Failing(Counted))
  /\ \A k \in Keys : RouteLedger(MetricsOf(k), Of(k))

\* WritePrometheus: the series of a histogram, and what each of them means. A
\* request is in the series of every bound it does not exceed, and the series
\* without a bound (+Inf) is the number of requests, _count.
Cumulative(counts) ==
  [b \in Buckets |-> SumFunctionOnSet(counts, 1..b)]
HistogramIsTrue == \A k \in DOMAIN routes :
  LET series == Cumulative(routes[k].durationCount) IN
  /\ \A le \in LatencyBounds :
       series[Bucket(le)] = Cardinality({r \in Of(k) : took[r] <= le})
  /\ series[Cardinality(LatencyBounds) + 1] = routes[k].requests

\* A snapshot shows its own reader at work, and nothing as both in flight and
\* completed, although the two are changed one after the other.
Begun == {r \in Requests : pc[r] # "new"}
SnapshotBounds == \A r \in Requests : shown[r] # Nothing =>
  /\ shown[r].inflight >= 1
  /\ shown[r].inflight + shown[r].requests <= Cardinality(Begun)

\* Any two snapshots are ordered: one of them is not behind the other in any
\* counter, so a rate between two scrapes is never negative.
RouteNotBehind(m, n) ==
  /\ m.requests >= n.requests /\ m.errors >= n.errors /\ m.bytes >= n.bytes
  /\ m.total >= n.total /\ m.max >= n.max
  /\ \A s \in Codes : m.statusCount[s] >= n.statusCount[s]
  /\ \A b \in Buckets : m.durationCount[b] >= n.durationCount[b]
NotBehind(s, t) ==
  /\ s.requests >= t.requests /\ s.errors >= t.errors /\ s.bytes >= t.bytes
  /\ DOMAIN t.routes \subseteq DOMAIN s.routes
  /\ \A k \in DOMAIN t.routes : RouteNotBehind(s.routes[k], t.routes[k])
SnapshotsOrdered == \A q, r \in Requests :
  shown[q] # Nothing /\ shown[r] # Nothing =>
    NotBehind(shown[q], shown[r]) \/ NotBehind(shown[r], shown[q])

\* A request that has begun is counted, whether its handler returns or panics.
BegunIsCounted == \A r \in Requests : pc[r] = "handling" ~> r \in Counted
===============================================================================
