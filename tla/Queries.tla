------------------------------ MODULE Queries -------------------------------
(***************************************************************************)
(* prometheus.py: what the queries of a sync about one container return,   *)
(* from what Prometheus has on it.  Prometheus itself (rate, irate,        *)
(* quantile_over_time, its two status pages) is modelled as far as the     *)
(* queries use it.                                                         *)
(*                                                                         *)
(* An answer is a set of at most one value; none is None, whether there is *)
(* no data or the query failed.  In a monitoring m                         *)
(*   interval  is how often cAdvisor is scraped, in seconds;               *)
(*   targets   are the intervals its targets page shows, global the one in *)
(*             its configuration (none: the page has no such thing, or     *)
(*             cannot be read);                                            *)
(*   failing   are the queries that fail, restartFailures the number of    *)
(*             attempts at the restart query that do;                      *)
(*   pods      have their container's use in equal parts of every window,  *)
(*             its peaks, which the steps of the percentiles may miss, and *)
(*             its restarts, by window, if kube-state-metrics counts them; *)
(*   points    is how many points of a window have data.                   *)
(***************************************************************************)
EXTENDS Overrides, FiniteSets

LOCAL INSTANCE FiniteSetsExt
LOCAL INSTANCE Functions

Queries == {"cpuRequest", "memRequest", "cpuLimit", "memLimit", "cpuPoints", "memPoints"}

\* round(n / d) of Python: to the nearest integer, ties to the even one.
HalfEven(n, d) ==
  LET q == n \div d
      r == n % d
  IN IF 2 * r < d \/ (2 * r = d /\ q % 2 = 0) THEN q ELSE q + 1

\* A range Prometheus accepts, with data in it.
Evaluable(window) == window.unit \in {"plain", "week"} /\ window.hours > 0

\* The filter is a prefix: it also meets the pods of a workload whose name goes
\* on after the target's name and a hyphen.
Matched(m) == {pod \in m.pods : pod.of \in {"target", "namesake"}}

\* The largest of the series in the reply to a query.
Answered(m, query, window, series) ==
  IF query \in m.failing \/ ~Evaluable(window) \/ series = {} THEN {} ELSE {Max(series)}

-----------------------------------------------------------------------------
(* CPU limits look at the steps of a subquery.                             *)

InBand(seconds) == seconds \in 5..120

\* detect_scrape_interval
ScrapeInterval(m) ==
  IF m.targets # {} /\ InBand(Min(m.targets)) THEN Min(m.targets)
  ELSE IF \E s \in m.global : InBand(s) THEN The(m.global)
  ELSE 15

\* _irate_window_for_step
IrateWindow(step) == Max({300, 2 * step})

\* rate and irate have no value where there are not two samples.
HasRate(m, seconds) == 2 * m.interval <= seconds

\* query_cpu_max_m: of all pods and all times.
CpuMax(m, window) ==
  Answered(m, "cpuLimit", window,
    IF HasRate(m, IrateWindow(ScrapeInterval(m))) THEN {pod.peak.cpu : pod \in Matched(m)} ELSE {})

\* query_memory_max_bytes
MemoryMax(m, window) ==
  Answered(m, "memLimit", window, {pod.peak.memory : pod \in Matched(m)})

-----------------------------------------------------------------------------
(* Requests are a percentile of the busiest pod's use.                     *)

\* max by (namespace, container), which leaves one series.
Busiest(m, resource) ==
  LET pods == Matched(m)
      parts == UNION {DOMAIN pod[resource] : pod \in pods}
  IN [i \in parts |-> Max({pod[resource][i] : pod \in pods})]

\* The k-th smallest value of a series, from 0.
Ranked(series, k) ==
  CHOOSE v \in Range(series) :
    /\ Quantify(DOMAIN series, LAMBDA i : series[i] < v) <= k
    /\ Quantify(DOMAIN series, LAMBDA i : series[i] <= v) > k

\* quantile_over_time interpolates; a percentile outside 0..1, which only an
\* annotation can set, gives an infinity, which round refuses.
Quantile(series, percentile) ==
  LET last == Cardinality(DOMAIN series) - 1
      k    == (percentile * last) \div 100
      w    == (percentile * last) % 100
      next == IF k < last THEN k + 1 ELSE k
  IN IF series = <<>> \/ percentile \notin 0..100 THEN {}
     ELSE {HalfEven(Ranked(series, k) * (100 - w) + Ranked(series, next) * w, 100)}

\* query_cpu_request_m: a rate over one minute, whatever the scrape interval.
CpuRequest(m, percentile, window) ==
  Answered(m, "cpuRequest", window,
    IF HasRate(m, 60) THEN Quantile(Busiest(m, "cpu"), percentile) ELSE {})

\* query_mem_request_bytes
MemRequest(m, percentile, window) ==
  Answered(m, "memRequest", window, Quantile(Busiest(m, "memory"), percentile))

-----------------------------------------------------------------------------
(* The queries of the sample-quality gates.                                *)

\* query_restart_count, with one retry.
RestartCount(m, key, window) ==
  IF m.restartFailures >= 2 \/ ~Evaluable(window) THEN {}
  ELSE LET counts == UNION {pod.restarts[key] : pod \in Matched(m)}
       IN IF counts = {} THEN {} ELSE {Max(counts)}

\* query_cpu_sample_count and query_mem_sample_count: the points the percentiles
\* are taken of.
CpuPoints(m, window) ==
  Answered(m, "cpuPoints", window,
    IF HasRate(m, 60) /\ Matched(m) # {} THEN m.points.cpu ELSE {})
MemPoints(m, window) ==
  Answered(m, "memPoints", window, IF Matched(m) # {} THEN m.points.memory ELSE {})
=============================================================================
