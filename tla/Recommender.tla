---------------------------- MODULE Recommender ----------------------------
(***************************************************************************)
(* The recommendation of one container across syncs                        *)
(* (writeback_webhook.py _build_containers_payload, writeback.py's resource *)
(* arithmetic, health.py's gates): usage from Prometheus, bounds, rounding, *)
(* out-of-memory bumps with their sticky floor and history, growOnly and   *)
(* shrinkOnly, the change cap, the cooldown, and what the live             *)
(* ResourceOverride keeps of all that for the next sync.                   *)
(*                                                                         *)
(* A sync computes from the LIVE CR and writes a document: in direct mode  *)
(* that is the live CR, in gitops mode ArgoCD applies it some time later,  *)
(* possibly after further syncs.  The container's pod runs with a memory   *)
(* limit, is killed when it needs more, and is killed again at the same    *)
(* limit until it is recreated.                                            *)
(*                                                                         *)
(* The settings are what is left of chart, namespace and workload          *)
(* (Settings, Overrides); a sync runs only if they are valid and the        *)
(* workload is opted in.                                                    *)
(*                                                                         *)
(* CPU is in millicores, memory in bytes with MiB bytes to the mebibyte,   *)
(* since values are rounded to whole mebibytes when they are written.      *)
(* Resources are functions on the fields that are present.  Only the order *)
(* of finishedAt timestamps matters, so OutOfMemory numbers them densely.  *)
(***************************************************************************)
EXTENDS Queries

CONSTANTS
  Setups,     \* by name: what the operators have written
  Monitorings, \* what Prometheus may have on the container
  Template,   \* the resources in the workload's pod template
  Needs,      \* memory the container may need, in bytes
  MiB,
  BumpsBeforeInvestigation,  \* _OOM_BUMPS_BEFORE_INVESTIGATION
  HistoryCap                 \* _OOM_HISTORY_CAP

Fields == {"requests", "limits"} \X {"cpu", "memory"}
CpuReq == <<"requests", "cpu">>
MemReq == <<"requests", "memory">>
CpuLim == <<"limits", "cpu">>
MemLim == <<"limits", "memory">>

IsResources(res) == res \in [DOMAIN res -> Nat] /\ DOMAIN res \subseteq Fields
Nothing == [f \in {} |-> 0]

\* A setup is what the operators have written: source (the chart: where it is
\* read, its keys, its git section), ns and wl (the annotations), chartSkips
\* (whether the chart skips the container), alone (whether the workload has no
\* other container with a recommendation) and upgraded (whether an older release
\* has been at work).

ASSUME InputAssumption ==
  /\ IsResources(Template)
  /\ \A m \in Monitorings : m.failing \subseteq Queries
  /\ Needs \subseteq Nat
  /\ \A name \in DOMAIN Setups :
       LET s == Setups[name] IN
       /\ DOMAIN s = {"source", "ns", "wl", "chartSkips", "alone", "upgraded"}
       /\ s.source.git \in Git
       /\ \A layer \in {s.source.keys, s.ns, s.wl} :
            \A key \in DOMAIN layer : layer[key] \in Literal
ASSUME ScaleAssumption ==
  /\ MiB \in Nat \ {0} /\ MiB % 2 = 0
  /\ BumpsBeforeInvestigation \in Nat \ {0}
  /\ HistoryCap \in Nat
  /\ BumpsBeforeInvestigation < HistoryCap

VARIABLES
  setup,    \* which of the setups
  cfg,      \* the workload's effective settings
  need,     \* how much memory the container needs
  live,     \* the ResourceOverride in the apiserver
  doc,      \* the document last written (gitops: in the repository)
  podLimit, \* the memory limit its pod runs with, 0 for none
  event,    \* when its container was last OOMKilled, 0 for never
  reset     \* whether the oomFloorReset annotation is set

vars == <<setup, cfg, need, live, doc, podLimit, event, reset>>

Larger(a, b)  == IF a >= b THEN a ELSE b
Smaller(a, b) == IF a <= b THEN a ELSE b

\* The value of a field, 0 when it is absent; and res with field f set.
Get(res, f)    == IF f \in DOMAIN res THEN res[f] ELSE 0
Put(res, f, v) == [g \in DOMAIN res \cup {f} |-> IF g = f THEN v ELSE res[g]]
Only(res, S)   == [f \in DOMAIN res \cap S |-> res[f]]

\* A CR as far as this container is concerned: its resources (none: the
\* container is not listed), the OOM annotations - those of its own, and its entry
\* in the lists that releases before 1.11 wrote - and the time until the cooldown
\* that last-changed started is over.
NoOom    == [floor |-> 0, lastEvent |-> 0, history |-> 0, investigation |-> FALSE]
NoLegacy == [floor |-> 0, lastEvent |-> 0]
NoCr     == [exists |-> FALSE, res |-> Nothing, oom |-> NoOom, legacy |-> NoLegacy, cooling |-> 0]

\* The CR an older release left after a kill.
OldCr ==
  [NoCr EXCEPT !.exists = TRUE, !.res = Put(Template, MemLim, 2 * Template[MemLim]),
               !.legacy = [floor |-> 2 * Template[MemLim], lastEvent |-> 1]]

\* No container starts with less than a mebibyte of memory; an older release wrote
\* requests and limits together, memory in whole mebibytes.
ASSUME TemplateAssumption ==
  /\ Get(Template, MemLim) > 0 => Template[MemLim] >= MiB
  /\ (\E name \in DOMAIN Setups : Setups[name].upgraded) =>
       /\ DOMAIN Template = Fields
       /\ Template[CpuReq] <= Template[CpuLim] /\ Template[MemReq] <= Template[MemLim]
       /\ Template[MemReq] % MiB = 0 /\ Template[MemLim] % MiB = 0

-----------------------------------------------------------------------------
(* The effective settings: cmd_sync resolves them for every workload.      *)

\* A workload is processed at all if the chart is valid, its namespace opted in
\* and the workload is not skipped.
Processed(s, chart) ==
  /\ Validate(chart, s.source.git)
  /\ IsNamespaceEnabled(s.ns)
  /\ ~IsWorkloadSkipped(s.wl)

\* The keys of the bounds and margins, by field.
MinKey == [requests |-> [cpu |-> "minCpuRequestM", memory |-> "minMemoryRequestMi"],
           limits   |-> [cpu |-> "minCpuLimitM",   memory |-> "minMemoryLimitMi"]]
MaxKey == [requests |-> [cpu |-> "maxCpuRequestM", memory |-> "maxMemoryRequestMi"],
           limits   |-> [cpu |-> "maxCpuLimitM",   memory |-> "maxMemoryLimitMi"]]
MarginKey == [requests |-> [cpu |-> "cpuRequestMargin", memory |-> "memRequestMargin"],
              limits   |-> [cpu |-> "cpuLimitMargin",   memory |-> "memLimitMargin"]]

\* Where the chart turns out-of-memory detection off, the annotations about it are
\* not looked at: kills are not detected, floors stay sticky and nothing is reset.
Effective(s, chart) ==
  LET own == ResolveForWorkload(chart, s.ns, s.wl)
      detects == chart["oomDetectionEnabled"]
  IN [processed |-> Processed(s, chart), mode |-> Mode(s.source.git), alone |-> s.alone,
      skipped |-> IsContainerSkipped(s.chartSkips, s.ns, s.wl),
      min |-> [f \in Fields |-> own[MinKey[f[1]][f[2]]]],
      max |-> [f \in Fields |-> own[MaxKey[f[1]][f[2]]]],
      margin |-> [f \in Fields |-> EffectiveMargin(own, MarginKey[f[1]][f[2]])],
      round |-> own["roundValues"],
      cpuMult |-> own["cpuLimitMultiplier"], memMult |-> own["memoryLimitMultiplier"],
      growOnly |-> own["growOnly"], shrinkOnly |-> own["shrinkOnly"],
      maxChange |-> own["maxChangePercent"] \div 100,
      cooldown |-> Larger(0, (own["cooldownHours"] + 99) \div 100),
      emitCpuLimits |-> own["emitCpuLimits"],
      healthGate |-> IsHealthGateEnabled(chart["healthGateEnabled"], s.ns, s.wl),
      maxRestarts |-> own["maxRestartsInWindow"], minCoverage |-> own["minSampleCoverage"],
      windows |-> [w \in WindowKeys |-> own[w]],
      percentile |-> [cpu |-> own["cpuPercentile"], memory |-> own["memPercentile"]],
      oomDetection |-> detects /\ IsOomDetectionEnabled(TRUE, s.ns, s.wl),
      floorEnabled |-> detects => IsOomFloorEnabled(chart["oomFloorEnabled"], s.ns, s.wl),
      resets |-> detects,
      bumpFactor |-> own["oomBumpFactor"], coldStartCpu |-> own["coldStartCpuFloorM"]]

\* The queries answer in integers, for they round, or not at all.
ASSUME AnswerAssumption ==
  \A name \in DOMAIN Setups : \A chart \in Load(Setups[name].source), m \in Monitorings :
    LET own == Effective(Setups[name], chart) IN
    /\ CpuRequest(m, own.percentile.cpu, own.windows["cpuRequestWindow"]) \subseteq Int
    /\ MemRequest(m, own.percentile.memory, own.windows["memRequestWindow"]) \subseteq Int
    /\ CpuMax(m, own.windows["cpuLimitWindow"]) \subseteq Int
    /\ MemoryMax(m, own.windows["memLimitWindow"]) \subseteq Int

\* What a layer says of a key can be read where it is written.
Legible(scope, notes, key) ==
  \/ key \in DOMAIN ParseAnnotations(scope, notes)
  \/ key \in DOMAIN notes /\ key = "skipContainers"
Without(notes, key) == [k \in DOMAIN notes \ {key} |-> notes[k]]

-----------------------------------------------------------------------------
(* Quantities and bounds.                                                  *)

\* _fmt_memory writes whole mebibytes, which _parse_memory_bytes reads back.
FmtMemory(bytes)     == HalfEven(bytes, MiB)
ParseMemoryBytes(mi) == mi * MiB
Quantity(f, v) == IF f[2] = "memory" THEN ParseMemoryBytes(FmtMemory(v)) ELSE v

\* A configured bound, in the unit of the field.
Bound(table, f) == IF f[2] = "memory" THEN table[f] * MiB ELSE table[f]

Below(f, v) == IF cfg.max[f] > 0 THEN Smaller(v, Bound(cfg.max, f)) ELSE v

\* _round_up_nice, on millicores or whole mebibytes.
NiceStep(v) == CHOOSE s \in {1, 10, 100, 1000, 10000} :
  /\ v < 10 * s \/ s = 10000
  /\ v >= s \/ s = 1
RoundUpNice(v) == LET s == NiceStep(v) IN ((v + s - 1) \div s) * s
Rounded(f, v) ==
  IF ~cfg.round THEN v
  ELSE IF f[2] = "memory" THEN RoundUpNice(HalfEven(v, MiB)) * MiB
  ELSE RoundUpNice(v)

\* The combinations of bounds the workload is skipped for.
BoundsConflict ==
  \E f \in Fields : cfg.min[f] # 0 /\ cfg.max[f] # 0 /\ cfg.min[f] > cfg.max[f]

Times(f, v) == HalfEven(v * (IF f[2] = "cpu" THEN cfg.cpuMult ELSE cfg.memMult), 100)

\* _build_container_resources for one of cpu and memory: request and limit, or
\* neither when the request query had no answer.  The limit is computed from
\* the request before it is formatted.
Computed(usage, f) ==
  LET r   == <<"requests", f[2]>>
      l   == <<"limits", f[2]>>
      req == Below(r, Rounded(r, Larger(usage[r], Bound(cfg.min, r))))
      raw == IF l \in DOMAIN usage THEN usage[l] ELSE Times(l, req)
      lim == Below(l, Rounded(l, Larger(raw, Bound(cfg.min, l))))
  IN Quantity(f, IF f = r THEN req ELSE Larger(lim, req))
BuildContainerResources(usage) ==
  [f \in {g \in Fields : <<"requests", g[2]>> \in DOMAIN usage} |-> Computed(usage, f)]

\* _query_prom_values: the answers there are, each with its margin.
Answer(m, f) ==
  CASE f = CpuReq -> CpuRequest(m, cfg.percentile.cpu, cfg.windows["cpuRequestWindow"])
    [] f = MemReq -> MemRequest(m, cfg.percentile.memory, cfg.windows["memRequestWindow"])
    [] f = CpuLim -> CpuMax(m, cfg.windows["cpuLimitWindow"])
    [] f = MemLim -> MemoryMax(m, cfg.windows["memLimitWindow"])
QueryPromValues(m) ==
  [f \in {g \in Fields : Answer(m, g) # {}} |->
     HalfEven(The(Answer(m, f)) * (100 + cfg.margin[f]), 100)]

\* The resources synthesised for a container that was just killed and has no
\* Prometheus history.
ColdStart(trap) ==
  LET cpu == Larger(Bound(cfg.min, CpuReq), cfg.coldStartCpu)
      mem == Larger(Bound(cfg.min, MemReq), 1)
  IN [f \in Fields |->
        CASE f = CpuReq -> cpu
          [] f = CpuLim -> Larger(Times(f, cpu), Larger(Bound(cfg.min, CpuLim), cpu))
          [] f = MemReq -> Quantity(f, mem)
          [] f = MemLim -> Quantity(f, Larger(trap, mem))]

-----------------------------------------------------------------------------
(* The sample-quality gates (health.py).                                   *)

\* widest_window and expected_sample_count: durations in weeks and years, which
\* the chart's validation lets through, are not understood here.
Hours(w) == IF cfg.windows[w].unit = "plain" THEN cfg.windows[w].hours ELSE 0
WidestWindow ==
  IF Hours("memRequestWindow") > Hours("cpuRequestWindow") THEN "memRequestWindow"
  ELSE "cpuRequestWindow"
Expected(w) == IF w = "cpuRequestWindow" THEN Hours(w) * 60 ELSE Hours(w) * 12

\* evaluate_restart_gate: no counter fails closed.
RestartGateHolds(restarts) ==
  cfg.maxRestarts > 0 /\ (restarts = {} \/ \E n \in restarts : n > cfg.maxRestarts)
\* evaluate_coverage_gate: no series fails open.
CoverageGateHolds(samples, expected) ==
  /\ cfg.minCoverage > 0
  /\ expected > 0
  /\ \E n \in samples : 100 * n < cfg.minCoverage * expected
\* assess_container
AssessContainer(m) ==
  LET window(w) == cfg.windows[w] IN
  \/ RestartGateHolds(RestartCount(m, WidestWindow, window(WidestWindow)))
  \/ CoverageGateHolds(CpuPoints(m, window("cpuRequestWindow")), Expected("cpuRequestWindow"))
  \/ CoverageGateHolds(MemPoints(m, window("memRequestWindow")), Expected("memRequestWindow"))
Held(m) == cfg.healthGate /\ AssessContainer(m)

-----------------------------------------------------------------------------
(* The passes over the resources.                                          *)

Raise(res, f, v) == IF v > Get(res, f) THEN Put(res, f, Quantity(f, v)) ELSE res

\* _apply_oom_floor
ApplyOomFloor(res, floor) ==
  Raise(Raise(res, MemLim, floor), MemReq,
        (floor * 100) \div (IF cfg.memMult = 0 THEN 100 ELSE cfg.memMult))

\* _apply_grow_shrink, against the live CR.
ApplyGrowShrink(res, old) ==
  [f \in DOMAIN res |->
     IF /\ f \in DOMAIN old
        /\ \/ cfg.growOnly /\ res[f] < old[f]
           \/ cfg.shrinkOnly /\ res[f] > old[f]
     THEN old[f] ELSE res[f]]

\* limits >= requests, for cpu and memory, where both are present.
LimitsLifted(res) ==
  [f \in DOMAIN res |->
     IF f[1] = "limits" /\ <<"requests", f[2]>> \in DOMAIN res
     THEN Larger(res[f], res[<<"requests", f[2]>>]) ELSE res[f]]

\* One field of _apply_max_change, in whole units.
Unit(f) == IF f[2] = "memory" THEN MiB ELSE 1
\* Mutant of Capped: the upper edge is rounded up.
CappedUp(f, new, base, exempt) ==
  LET upper  == ((base \div Unit(f)) * (100 + cfg.maxChange) + 99) \div 100
      lower  == -((-((base \div Unit(f)) * (100 - cfg.maxChange))) \div 100)
      capped == IF new > upper * Unit(f) /\ ~(exempt /\ f[2] = "memory") THEN upper * Unit(f)
                ELSE IF new < lower * Unit(f) THEN lower * Unit(f) ELSE new
  IN IF capped = new THEN new ELSE Below(f, capped)
Capped(f, new, base, exempt) ==
  LET upper  == ((base \div Unit(f)) * (100 + cfg.maxChange)) \div 100
      lower  == -((-((base \div Unit(f)) * (100 - cfg.maxChange))) \div 100)
      capped == IF new > upper * Unit(f) /\ ~(exempt /\ f[2] = "memory") THEN upper * Unit(f)
                ELSE IF new < lower * Unit(f) THEN lower * Unit(f) ELSE new
  IN IF capped = new THEN new ELSE Below(f, capped)

\* Mutant of ApplyMaxChange: an out-of-memory bump is capped like any change.
ApplyMaxChangeToBumps(res, base, exempt) ==
  IF cfg.maxChange <= 0 \/ base = Nothing THEN res
  ELSE LimitsLifted([f \in DOMAIN res |->
         IF Get(base, f) > 0 THEN Capped(f, res[f], base[f], FALSE) ELSE res[f]])

\* _apply_max_change
ApplyMaxChange(res, base, exempt) ==
  IF cfg.maxChange <= 0 \/ base = Nothing THEN res
  ELSE LimitsLifted([f \in DOMAIN res |->
         IF Get(base, f) > 0 THEN Capped(f, res[f], base[f], exempt) ELSE res[f]])

\* Mutant of EnforceFloors: the limit is not lifted after a minimum was.
EnforceFloorsOnly(res) == [f \in DOMAIN res |-> Larger(res[f], Bound(cfg.min, f))]

\* _enforce_floors: the minima, and limits >= requests if one of them acted.
EnforceFloors(res) ==
  LET floored == [f \in DOMAIN res |-> Larger(res[f], Bound(cfg.min, f))]
  IN IF floored = res THEN res ELSE LimitsLifted(floored)

\* _drop_cpu_limit
DropCpuLimit(res) == IF cfg.emitCpuLimits THEN res ELSE Only(res, Fields \ {CpuLim})
-----------------------------------------------------------------------------
(* One sync: _build_containers_payload and the document it is written to.  *)

Listed     == live.res # Nothing
InCooldown == cfg.cooldown > 0 /\ live.cooling > 0 /\ Listed

\* The parse_oom_ functions: an annotation of the container's own comes before its
\* entry in a list; the history of a list is not taken over.
ParseOom(cr) ==
  [cr.oom EXCEPT !.floor = IF @ > 0 THEN @ ELSE cr.legacy.floor,
                 !.lastEvent = IF @ > 0 THEN @ ELSE cr.legacy.lastEvent]

\* Mutant of Prior: what is known of earlier kills is read from the document.
PriorOfDocument == IF reset /\ cfg.resets THEN NoOom ELSE ParseOom(doc)

\* The OOM state of the live CR, dropped while oomFloorReset is set.
Prior == IF reset /\ cfg.resets THEN NoOom ELSE ParseOom(live)

\* _spec_memory_limits: what the container was killed at is the limit in its pod.
TrapLimit == podLimit

\* detect_oom_events: a kill of a container without a limit is none of ours.
DetectOomEvents == IF TrapLimit > 0 THEN event ELSE 0

FreshOom == cfg.oomDetection /\ DetectOomEvents > Prior.lastEvent

\* Mutant of Start: held and cooling containers are recomputed.
StartAlways(m) ==
  LET computed == BuildContainerResources(QueryPromValues(m))
  IN IF computed = Nothing /\ FreshOom THEN ColdStart(TrapLimit) ELSE computed

\* _filter_skipped_containers
Kept == ~cfg.skipped

\* The values the passes start from; Nothing omits the container.
Start(m) ==
  LET computed == BuildContainerResources(QueryPromValues(m))
  IN IF ~Kept THEN Nothing
     ELSE IF InCooldown \/ Held(m) THEN live.res
     ELSE IF computed = Nothing /\ FreshOom THEN ColdStart(TrapLimit)
     ELSE computed

Bumping == FreshOom /\ Prior.history < BumpsBeforeInvestigation
Target  == Below(MemLim, (TrapLimit * cfg.bumpFactor) \div 100)

StickyFloor == cfg.floorEnabled /\ Prior.floor > 0

Baseline == IF Listed THEN live.res ELSE Template

\* Steps (3) to (5b) on the resources after the bump.
Passes(bumped) ==
  LET sticky == IF StickyFloor THEN ApplyOomFloor(bumped, Prior.floor) ELSE bumped
      policy == ApplyGrowShrink(sticky, live.res)
  IN DropCpuLimit(EnforceFloors(ApplyMaxChange(policy, Baseline, Bumping \/ StickyFloor)))

\* _build_oom_boost_history: one line more, the oldest dropped.
BuildOomBoostHistory(lines) == Smaller(lines + 1, HistoryCap)

\* Mutant of Recorded: the floor is what was attempted, not what was applied.
RecordedAttempted(effective) ==
  [floor     |-> IF cfg.floorEnabled
                 THEN Quantity(MemLim, Larger(Prior.floor, Target)) ELSE Prior.floor,
   lastEvent |-> event,
   history   |-> IF effective THEN BuildOomBoostHistory(Prior.history) ELSE Prior.history,
   investigation |-> Prior.investigation \/ ~Bumping]

\* Step (6) and the capped branch of step (2), for a fresh kill: the OOM
\* annotations.  A bump that later passes took back leaves only its timestamp.
Recorded(effective) ==
  [floor     |-> IF effective /\ cfg.floorEnabled
                 THEN Quantity(MemLim, Larger(Prior.floor, Target)) ELSE Prior.floor,
   lastEvent |-> event,
   history   |-> IF effective THEN BuildOomBoostHistory(Prior.history) ELSE Prior.history,
   investigation |-> Prior.investigation \/ ~Bumping]

\* Mutant of Recommendation: the annotations of an omitted container are lost.
RecommendationForgets(m) ==
  LET start     == Start(m)
      bumped    == IF Bumping THEN ApplyOomFloor(start, Target) ELSE start
      final     == Passes(bumped)
      effective == /\ Bumping
                   /\ Get(final, MemLim) >= Get(bumped, MemLim)
                   /\ Get(final, MemLim) > Get(start, MemLim)
  IN IF start = Nothing THEN [res |-> Nothing, oom |-> NoOom]
     ELSE [res |-> final, oom |-> IF FreshOom THEN Recorded(effective) ELSE Prior]

\* The container's share of the payload and the OOM annotations.
Recommendation(m) ==
  LET start     == Start(m)
      bumped    == IF Bumping THEN ApplyOomFloor(start, Target) ELSE start
      final     == Passes(bumped)
      effective == /\ Bumping
                   /\ Get(final, MemLim) >= Get(bumped, MemLim)
                   /\ Get(final, MemLim) > Get(start, MemLim)
  IN IF start = Nothing THEN [res |-> Nothing, oom |-> Prior]
     ELSE [res |-> final, oom |-> IF FreshOom THEN Recorded(effective) ELSE Prior]

\* Whether the workload has an entry in the sync at all.
Rendered(rec) == ~BoundsConflict /\ (rec.res # Nothing \/ ~cfg.alone)

\* _stamp_change_audit: last-changed stays when the containers are those of the
\* previous document.
StampChangeAudit(res) ==
  IF doc.exists /\ doc.res = res THEN doc.cooling ELSE cfg.cooldown

\* _is_oom_annotation: what the sync replaces.  Any other annotation of the
\* committed document is carried over, oom-investigation-required among them.
IsOomAnnotation == {"floor", "lastEvent", "history"}

\* The CR the sync writes.
Document(rec) ==
  LET carried == cfg.mode = "gitops" /\ "investigation" \notin IsOomAnnotation
                   /\ doc.oom.investigation
  IN [exists  |-> TRUE,
      res     |-> rec.res,
      oom     |-> [rec.oom EXCEPT !.investigation = @ \/ carried],
      legacy  |-> NoLegacy,
      cooling |-> StampChangeAudit(rec.res)]

\* A workload without an entry is dropped from the repository; the direct mode
\* leaves its CR alone, and in it the lists, which are not its own to remove.
Sync(m) ==
  LET rec == Recommendation(m) IN
  /\ cfg.processed
  /\ doc' = IF Rendered(rec) THEN Document(rec)
            ELSE IF cfg.mode = "gitops" THEN NoCr ELSE doc
  /\ live' = IF cfg.mode = "gitops" THEN live ELSE [doc' EXCEPT !.legacy = live.legacy]
  /\ UNCHANGED <<setup, cfg, need, podLimit, event, reset>>

-----------------------------------------------------------------------------
(* ArgoCD, the pod, the operator and time.                                 *)

\* The merge request is merged and ArgoCD applies, or prunes, the document.
Reconcile ==
  /\ cfg.mode = "gitops"
  /\ live # doc
  /\ live' = doc
  /\ UNCHANGED <<setup, cfg, need, doc, podLimit, event, reset>>

\* The timestamps in use, renumbered from 1.
Timestamps ==
  (UNION {{cr.oom.lastEvent, cr.legacy.lastEvent} : cr \in {live, doc}}) \ {0}
Rank(t)    == Cardinality({u \in Timestamps : u <= t})
Renumber(cr) == [cr EXCEPT !.oom.lastEvent = Rank(@), !.legacy.lastEvent = Rank(@)]

\* The kernel kills the container; it starts again in the same pod.
OutOfMemory ==
  /\ podLimit > 0
  /\ podLimit < need
  /\ live' = Renumber(live)
  /\ doc' = Renumber(doc)
  /\ event' = Cardinality(Timestamps) + 1
  /\ UNCHANGED <<setup, cfg, need, podLimit, reset>>

\* The pod is replaced: the webhook gives it the CR's limits (the template's if
\* there is none), and its status starts empty.
Recreate ==
  /\ podLimit' = Get(Baseline, MemLim)
  /\ event' = 0
  /\ UNCHANGED <<setup, cfg, need, live, doc, reset>>

\* An operator sets or removes the oomFloorReset annotation.
ToggleReset ==
  /\ reset' = ~reset
  /\ UNCHANGED <<setup, cfg, need, live, doc, podLimit, event>>

Hour ==
  /\ live.cooling + doc.cooling > 0
  /\ live' = [live EXCEPT !.cooling = Larger(@ - 1, 0)]
  /\ doc' = [doc EXCEPT !.cooling = Larger(@ - 1, 0)]
  /\ UNCHANGED <<setup, cfg, need, podLimit, event, reset>>

Init ==
  /\ setup \in DOMAIN Setups
  /\ \E chart \in Load(Setups[setup].source) : cfg = Effective(Setups[setup], chart)
  /\ need \in Needs
  /\ live = IF Setups[setup].upgraded THEN OldCr ELSE NoCr
  /\ doc = live
  /\ podLimit = Get(Baseline, MemLim)
  /\ event = 0
  /\ reset = IsOomFloorResetRequested(Setups[setup].ns, Setups[setup].wl)

Next ==
  \/ \E m \in Monitorings : Sync(m)
  \/ Reconcile
  \/ OutOfMemory
  \/ Recreate
  \/ ToggleReset
  \/ Hour

Spec == Init /\ [][Next]_vars

-----------------------------------------------------------------------------
(* What the settings promise.                                              *)

\* Settings are resolved per key: an annotation that cannot be read, or does not
\* belong where it is, changes nothing, and one that can be read leaves nothing of
\* a less specific layer - whatever parser, default or merge the key goes through.
\* (parse_annotations, _resolve_bool_chain and resolve_skip_containers: "a typo at
\* one layer falls through to the next".  The settings do not change, so it is
\* enough to look at them before anything is written.)
SettingsResolve ==
  ~doc.exists => \A chart \in Load(Setups[setup].source) :
    LET s == Setups[setup] IN
    /\ \A key \in DOMAIN s.wl : ~Legible("workload", s.wl, key) =>
         Effective([s EXCEPT !.wl = Without(@, key)], chart) = cfg
    /\ \A key \in DOMAIN s.ns :
         ~Legible("namespace", s.ns, key) \/ Legible("workload", s.wl, key) =>
           Effective([s EXCEPT !.ns = Without(@, key)], chart) = cfg

-----------------------------------------------------------------------------
(* What the recommendation promises.                                       *)

\* The apiserver rejects a pod whose limit is below its request: whatever bump,
\* floor, policy, change cap, minimum and rounding did, in any order and over
\* any number of syncs, no CR holds such a pair.
LimitsCoverRequests ==
  \A f \in DOMAIN live.res : f[1] = "limits" =>
    live.res[f] >= Get(live.res, <<"requests", f[2]>>)

\* "Recommendation never drops below that - re-OOMing at a smaller limit defeats
\* the bump" (_apply_oom_floor): a recorded floor is in force in the CR that
\* records it, through holds, cooldowns, shrinkOnly and the change cap.
FloorInForce ==
  cfg.floorEnabled /\ Listed => Get(live.res, MemLim) >= live.oom.floor
\* "Sticky minimum" (docs/reference.md): a floor outlives every sync but the one
\* of an operator who asks for its removal - also a sync that has no Prometheus
\* answer or holds the container, and the first one after an upgrade from a release
\* that kept lists. (_build_containers_payload's carry-forward)
FloorSurvives ==
  [][ParseOom(doc').floor # ParseOom(doc).floor /\ ~reset =>
       ParseOom(doc').floor >= ParseOom(live).floor]_vars

\* One kill is one line of history, however many syncs see it before its pod is
\* gone and however late ArgoCD applies what they wrote: what a sync writes has
\* at most one line more than the live CR, and then a later oom-last-event.
\* (Under oomFloorReset every sync bumps for the same kill again.)
KillsCountOnce ==
  [][doc'.oom.history # doc.oom.history /\ doc'.oom.history > live.oom.history /\ ~reset =>
       /\ doc'.oom.history = live.oom.history + 1
       /\ doc'.oom.lastEvent > ParseOom(live).lastEvent]_vars

\* "A fresh OOM still bumps memory on top" is all a cooldown lets through
\* (docs/reference.md): what a sync writes differs from the live CR at most in
\* memory, upward, for a new kill or for the floor of an earlier one (a floor is
\* recorded rounded, so the request that belongs to it may still move a mebibyte).
CooldownKeeps ==
  [][doc'.res # doc.res /\ InCooldown =>
       \A f \in Fields : Get(doc'.res, f) # Get(live.res, f) =>
         f[2] = "memory" /\ (FreshOom \/ StickyFloor) /\ Get(doc'.res, f) > Get(live.res, f)]_vars

\* "Each request/limit moves at most N% of its current value per sync", after
\* bump, floor, minimum and the lifting of limits that follow the cap.  Nothing is no
\* base for a percentage.  Minima are hard, and lift the limit with the request; memory may
\* grow further for a kill or a floor; and "the max bounds win over the cap's lower
\* edge": a value above its ceiling comes down to it at once. (docs/reference.md)
ChangesCapped ==
  [][cfg.maxChange > 0 /\ Listed /\ doc'.res # doc.res =>
       \A f \in DOMAIN live.res \cap DOMAIN doc'.res :
         \/ \E g \in DOMAIN live.res : g[2] = f[2] /\ live.res[g] <= 0
         \/ 100 * (doc'.res[f] - live.res[f]) \in
               -(cfg.maxChange * live.res[f])..(cfg.maxChange * live.res[f])
         \/ \E kind \in {"requests", "limits"} : doc'.res[f] = Bound(cfg.min, <<kind, f[2]>>)
         \/ f[2] = "memory" /\ (Bumping \/ StickyFloor) /\ doc'.res[f] > live.res[f]
         \/ /\ cfg.max[f] > 0
            /\ Bound(cfg.max, f) <= doc'.res[f] /\ doc'.res[f] < live.res[f]]_vars

\* "The slow-path OOM-aware path breaks the loop": whatever a held window, a
\* cooldown, the change cap or missing Prometheus data leave of the
\* recommendation, the CR a sync writes for a new kill has a limit above the one
\* that killed - unless policy forbids growth, the ceiling is reached, or the
\* container is marked for investigation. (docs/reference.md, OOM-aware bumps)
KillsRaiseLimit ==
  [][doc'.oom # doc.oom /\ FreshOom /\ doc'.oom.lastEvent = event /\ ~cfg.shrinkOnly =>
       \/ Get(doc'.res, MemLim) > TrapLimit
       \/ doc'.oom.investigation
       \/ cfg.max[MemLim] > 0 /\ TrapLimit >= Bound(cfg.max, MemLim)]_vars
=============================================================================
