------------------------------ MODULE MCTelemetry ------------------------------
(***************************************************************************)
(* Telemetry on a small instance: three requests for the metrics, or one   *)
(* beside two of a path with an identifier, spelled in two ways.           *)
(***************************************************************************)
EXTENDS Telemetry

Part(text, length, hexes, others, decimal) ==
  [text |-> text, length |-> length, hexes |-> hexes, others |-> others,
   decimal |-> decimal]
Tasks  == Part("tasks", 5, 1, 4, FALSE)
Number == Part("123456789", 9, 9, 0, TRUE)
Uuid   == Part("2d650703-1c00-4f6f-b3f3-572376a431f4", 36, 32, 0, FALSE)

Metric == [method |-> "GET", path |-> <<Part("metrics", 7, 2, 5, FALSE)>>]
ByNumber == [method |-> "GET", path |-> <<Tasks, Number>>]
ByUuid   == [method |-> "GET", path |-> <<Tasks, Uuid, Empty>>]

MCCalls == {Metric, ByNumber, ByUuid}
MCScrapes == {Metric}
\* Below 0, which ObserveHTTP takes for 0 and that lies on a bound; and above
\* all bounds.
MCDurations == {-1, 3}
MCMixes == {<<Metric, Metric, Metric>>, <<Metric, ByNumber, ByUuid>>}
===============================================================================
