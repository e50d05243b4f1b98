------------------------- MODULE Recommender_proofs -------------------------
(***************************************************************************)
(* Proofs about Recommender, for every setup and whatever Prometheus says. *)
(* The invariants, each resting on the ones before it:                     *)
(*   SettingsInForce  the settings are those of the setup;                 *)
(*   KillsCounted     both documents have the shape of a CR, and timestamps*)
(*                    and history lengths are naturals;                    *)
(*   PairsCovered     every limit in a document covers its request, memory *)
(*                    is in whole mebibytes, and no limit or floor is      *)
(*                    positive and below one mebibyte;                     *)
(*   FloorsHeld       a floor recorded in a document is in force there and *)
(*                    not above the ceiling;                               *)
(*   FloorsWhole      every floor on record is in whole mebibytes;         *)
(*   DocumentsSettled a document in its cooldown has every minimum in force,*)
(*                    and no CPU limit where none is wanted;                *)
(*   KillsPast        no document records a kill later than the last one.  *)
(* A sync is a composition of passes, and so is the argument: one lemma    *)
(* per pass says what it keeps and what it raises.                         *)
(***************************************************************************)
EXTENDS Recommender, FiniteSetTheorems, TLAPS

-----------------------------------------------------------------------------
(* Settings.                                                               *)

LEMMA LoadIsUnique ==
  ASSUME NEW source, NEW c \in Load(source), NEW d \in Load(source)
  PROVE  c = d
BY DEF Load

\* Each key has one type.
LEMMA KeyClasses ==
  /\ (FlagKeys \cup Markers) \cap (CountKeys \cup MarginKeys \cup WindowKeys \cup RatioKeys) = {}
  /\ CountKeys \cap (MarginKeys \cup WindowKeys \cup RatioKeys) = {}
  /\ MarginKeys \cap (WindowKeys \cup RatioKeys) = {}
  /\ WindowKeys \cap RatioKeys = {}
<1>1. /\ FlagKeys = {"dryRun", "createMr", "growOnly", "shrinkOnly", "roundValues", "emitCpuLimits",
                     "healthGateEnabled", "oomDetectionEnabled", "oomFloorEnabled"}
      /\ RatioKeys = {"cpuPercentile", "memPercentile", "marginFraction", "cpuLimitMultiplier",
                      "memoryLimitMultiplier", "oomBumpFactor", "minSampleCoverage",
                      "maxChangePercent", "cooldownHours"}
      /\ CountKeys = {"minCpuRequestM", "minMemoryRequestMi", "minCpuLimitM", "minMemoryLimitMi",
                      "maxCpuRequestM", "maxMemoryRequestMi", "maxCpuLimitM", "maxMemoryLimitMi",
                      "coldStartCpuFloorM", "maxRestartsInWindow"}
      /\ WindowKeys = {"cpuRequestWindow", "memRequestWindow", "cpuLimitWindow", "memLimitWindow"}
  BY DEF FlagKeys, RatioKeys, CountKeys, WindowKeys, FlagDefault, RatioDefault, CountDefault,
         WindowDefault
<1>. QED
  BY <1>1 DEF Markers, MarginKeys

\* Removing an annotation removes its projection and nothing else.
LEMMA ParsedWithout ==
  ASSUME NEW scope, NEW notes, NEW key
  PROVE  ParseAnnotations(scope, Without(notes, key)) = Without(ParseAnnotations(scope, notes), key)
<1>1. PICK legal : legal = (OverrideKeys \cup Markers) \
                           ((IF scope = "workload" THEN {"enabled"} ELSE {"skip"}) \cup {"skipContainers"})
  OBVIOUS
<1>2. \A ann : ParseAnnotations(scope, ann) =
        [k \in {j \in DOMAIN ann \cap legal : ParseNote(j, ann[j]) # {}} |-> The(ParseNote(k, ann[k]))]
  <2>. TAKE ann
  <2>1. {j \in (DOMAIN ann \cap (OverrideKeys \cup Markers)) \
              ((IF scope = "workload" THEN {"enabled"} ELSE {"skip"}) \cup {"skipContainers"}) :
           ParseNote(j, ann[j]) # {}} = {j \in DOMAIN ann \cap legal : ParseNote(j, ann[j]) # {}}
    BY <1>1
  <2>. QED
    BY <2>1 DEF ParseAnnotations
<1>3. PICK fewer : fewer = Without(notes, key)
  OBVIOUS
<1>4. DOMAIN fewer = DOMAIN notes \ {key} /\ \A k \in DOMAIN fewer : fewer[k] = notes[k]
  BY <1>3 DEF Without
<1>5. PICK had : had = {j \in DOMAIN notes \cap legal : ParseNote(j, notes[j]) # {}}
  OBVIOUS
<1>6. {j \in DOMAIN fewer \cap legal : ParseNote(j, fewer[j]) # {}} = had \ {key}
  BY <1>4, <1>5
<1>7. ParseAnnotations(scope, notes) = [k \in had |-> The(ParseNote(k, notes[k]))]
  BY <1>2, <1>5
<1>8. ParseAnnotations(scope, fewer) = [k \in had \ {key} |-> The(ParseNote(k, fewer[k]))]
  BY <1>2, <1>6
<1>9. \A k \in had \ {key} : fewer[k] = notes[k]
  BY <1>4, <1>5
<1>10. \A k \in had \ {key} : ParseAnnotations(scope, fewer)[k] = ParseAnnotations(scope, notes)[k]
  BY <1>7, <1>8, <1>9
<1>. QED
  BY <1>3, <1>7, <1>8, <1>10 DEF Without

LEMMA ParsedSame ==
  ASSUME NEW scope, NEW notes, NEW key, key \notin DOMAIN ParseAnnotations(scope, notes)
  PROVE  ParseAnnotations(scope, Without(notes, key)) = ParseAnnotations(scope, notes)
<1>1. PICK all : all = ParseAnnotations(scope, notes)
  OBVIOUS
<1>2. all = [k \in DOMAIN all |-> all[k]]
  BY <1>1 DEF ParseAnnotations
<1>3. DOMAIN all \ {key} = DOMAIN all
  BY <1>1
<1>4. Without(all, key) = all
  BY <1>2, <1>3 DEF Without
<1>. QED
  BY <1>1, <1>4, ParsedWithout

\* The same for the markers.
LEMMA MarkedWithout ==
  ASSUME NEW notes, NEW key, NEW m, m # key \/ Marked(notes, m) = {}
  PROVE  Marked(Without(notes, key), m) = Marked(notes, m)
<1>1. PICK fewer : fewer = Without(notes, key)
  OBVIOUS
<1>2. DOMAIN fewer = DOMAIN notes \ {key} /\ \A k \in DOMAIN fewer : fewer[k] = notes[k]
  BY <1>1 DEF Without
<1>. QED
  BY <1>1, <1>2 DEF Marked

\* A marker that stands where it belongs and says nothing cannot be read.
LEMMA Illegible ==
  ASSUME NEW scope, NEW notes, NEW key \in DOMAIN notes, ~Legible(scope, notes, key),
         key \in Markers, key # (IF scope = "workload" THEN "enabled" ELSE "skip")
  PROVE  Marked(notes, key) = {} /\ key # "skipContainers"
<1>1. key # "skipContainers" /\ key \notin DOMAIN ParseAnnotations(scope, notes)
  BY DEF Legible
<1>2. ParseNote(key, notes[key]) = {}
  BY <1>1 DEF ParseAnnotations
<1>3. \A v : ParseNote(key, v) = ParseBool(v)
  BY KeyClasses DEF ParseNote
<1>4. ParseBool(notes[key]) = {}
  BY <1>2, <1>3
<1>. QED
  BY <1>1, <1>4 DEF Marked

\* The markers a sync looks up through the layers.
Chained == {"oomDetectionEnabled", "oomFloorEnabled", "healthGateEnabled"}

\* The effective settings, from what the lookups give.
Assembled(chart, own, processed, mode, alone, skipped, gate, detected, floored) ==
  [processed |-> processed, mode |-> mode, alone |-> alone, skipped |-> skipped,
   min |-> [f \in Fields |-> own[MinKey[f[1]][f[2]]]],
   max |-> [f \in Fields |-> own[MaxKey[f[1]][f[2]]]],
   margin |-> [f \in Fields |-> EffectiveMargin(own, MarginKey[f[1]][f[2]])],
   round |-> own["roundValues"],
   cpuMult |-> own["cpuLimitMultiplier"], memMult |-> own["memoryLimitMultiplier"],
   growOnly |-> own["growOnly"], shrinkOnly |-> own["shrinkOnly"],
   maxChange |-> own["maxChangePercent"] \div 100,
   cooldown |-> Larger(0, (own["cooldownHours"] + 99) \div 100),
   emitCpuLimits |-> own["emitCpuLimits"],
   healthGate |-> gate,
   maxRestarts |-> own["maxRestartsInWindow"], minCoverage |-> own["minSampleCoverage"],
   windows |-> [w \in WindowKeys |-> own[w]],
   percentile |-> [cpu |-> own["cpuPercentile"], memory |-> own["memPercentile"]],
   oomDetection |-> chart["oomDetectionEnabled"] /\ detected,
   floorEnabled |-> chart["oomDetectionEnabled"] => floored,
   resets |-> chart["oomDetectionEnabled"],
   bumpFactor |-> own["oomBumpFactor"], coldStartCpu |-> own["coldStartCpuFloorM"]]

LEMMA EffectiveAssembled ==
  ASSUME NEW s, NEW chart
  PROVE  Effective(s, chart) =
           Assembled(chart, ResolveForWorkload(chart, s.ns, s.wl), Processed(s, chart),
                     Mode(s.source.git), s.alone, IsContainerSkipped(s.chartSkips, s.ns, s.wl),
                     IsHealthGateEnabled(chart["healthGateEnabled"], s.ns, s.wl),
                     IsOomDetectionEnabled(TRUE, s.ns, s.wl),
                     IsOomFloorEnabled(chart["oomFloorEnabled"], s.ns, s.wl))
BY Zenon DEF Effective, Assembled

\* Two setups that differ in annotations, and are told apart by none of the
\* lookups, have the same effective settings.
LEMMA EffectiveSame ==
  ASSUME NEW s, NEW t, NEW chart,
         t.source = s.source, t.alone = s.alone, t.chartSkips = s.chartSkips,
         \/ /\ ParseAnnotations("namespace", t.ns) = ParseAnnotations("namespace", s.ns)
            /\ ParseAnnotations("workload", t.wl) = ParseAnnotations("workload", s.wl)
         \/ ResolveForWorkload(chart, t.ns, t.wl) = ResolveForWorkload(chart, s.ns, s.wl),
         Marked(t.ns, "enabled") = Marked(s.ns, "enabled"),
         Marked(t.wl, "skip") = Marked(s.wl, "skip"),
         \A m \in Chained : \A default : ResolveBoolChain(m, default, t.ns, t.wl) =
                                     ResolveBoolChain(m, default, s.ns, s.wl),
         \A default : IsContainerSkipped(default, t.ns, t.wl) = IsContainerSkipped(default, s.ns, s.wl)
  PROVE  Effective(t, chart) = Effective(s, chart)
<1>1. ResolveForWorkload(chart, t.ns, t.wl) = ResolveForWorkload(chart, s.ns, s.wl)
  BY DEF ResolveForWorkload
<1>2. Processed(t, chart) = Processed(s, chart)
  BY DEF Processed, IsNamespaceEnabled, IsWorkloadSkipped
<1>3. /\ \A d : IsOomDetectionEnabled(d, t.ns, t.wl) = IsOomDetectionEnabled(d, s.ns, s.wl)
      /\ \A d : IsOomFloorEnabled(d, t.ns, t.wl) = IsOomFloorEnabled(d, s.ns, s.wl)
      /\ \A d : IsHealthGateEnabled(d, t.ns, t.wl) = IsHealthGateEnabled(d, s.ns, s.wl)
  BY DEF IsOomDetectionEnabled, IsOomFloorEnabled, IsHealthGateEnabled, Chained
<1>4. IsContainerSkipped(t.chartSkips, t.ns, t.wl) = IsContainerSkipped(s.chartSkips, s.ns, s.wl)
  OBVIOUS
<1>. QED
  BY <1>1, <1>2, <1>3, <1>4, EffectiveAssembled, Zenon

SetupFields == {"source", "ns", "wl", "chartSkips", "alone", "upgraded"}

\* A layer without the container list is as good as any other without it.
LEMMA SkippedWithout ==
  ASSUME NEW notes, NEW key, key # "skipContainers"
  PROVE  /\ "skipContainers" \in DOMAIN Without(notes, key) <=> "skipContainers" \in DOMAIN notes
         /\ "skipContainers" \in DOMAIN notes =>
              Without(notes, key)["skipContainers"] = notes["skipContainers"]
BY DEF Without

\* An annotation of the workload that cannot be read changes nothing.
LEMMA WorkloadTypo ==
  ASSUME NEW s, DOMAIN s = SetupFields, NEW chart, NEW key \in DOMAIN s.wl,
         ~Legible("workload", s.wl, key)
  PROVE  Effective([s EXCEPT !.wl = Without(@, key)], chart) = Effective(s, chart)
<1>1. PICK t : t = [s EXCEPT !.wl = Without(@, key)]
  OBVIOUS
<1>2. /\ t.source = s.source /\ t.alone = s.alone /\ t.chartSkips = s.chartSkips /\ t.ns = s.ns
      /\ t.wl = Without(s.wl, key)
  BY <1>1 DEF SetupFields
<1>3. ParseAnnotations("workload", t.wl) = ParseAnnotations("workload", s.wl)
  <2>1. key \notin DOMAIN ParseAnnotations("workload", s.wl)
    BY DEF Legible
  <2>2. ParseAnnotations("workload", Without(s.wl, key)) = ParseAnnotations("workload", s.wl)
    BY <2>1, ParsedSame
  <2>. QED
    BY <1>2, <2>2
<1>4. \A m \in Chained \cup {"skip"} : Marked(t.wl, m) = Marked(s.wl, m)
  <2>. TAKE m \in Chained \cup {"skip"}
  <2>1. m \in Markers /\ m # "enabled"
    BY DEF Chained, Markers
  <2>2. m # key \/ Marked(s.wl, m) = {}
    BY <2>1, Illegible
  <2>. QED
    BY <1>2, <2>2, MarkedWithout
<1>5. key # "skipContainers"
  BY DEF Legible
<1>6. \A m \in Chained : \A d : ResolveBoolChain(m, d, t.ns, t.wl) = ResolveBoolChain(m, d, s.ns, s.wl)
  BY <1>2, <1>4 DEF ResolveBoolChain
<1>7. \A d : IsContainerSkipped(d, t.ns, t.wl) = IsContainerSkipped(d, s.ns, s.wl)
  BY <1>2, <1>5, SkippedWithout DEF IsContainerSkipped
<1>8. Marked(t.wl, "skip") = Marked(s.wl, "skip")
  BY <1>4
<1>9. Effective(t, chart) = Effective(s, chart)
  BY <1>2, <1>3, <1>6, <1>7, <1>8, EffectiveSame, Zenon
<1>. QED
  BY <1>1, <1>9

\* Neither does one of the namespace that cannot be read, or that the workload
\* has too.
LEMMA NamespaceOverridden ==
  ASSUME NEW s, DOMAIN s = SetupFields, NEW chart, NEW key \in DOMAIN s.ns,
         ~Legible("namespace", s.ns, key) \/ Legible("workload", s.wl, key)
  PROVE  Effective([s EXCEPT !.ns = Without(@, key)], chart) = Effective(s, chart)
<1>1. PICK t : t = [s EXCEPT !.ns = Without(@, key)]
  OBVIOUS
<1>2. /\ t.source = s.source /\ t.alone = s.alone /\ t.chartSkips = s.chartSkips /\ t.wl = s.wl
      /\ t.ns = Without(s.ns, key)
  BY <1>1 DEF SetupFields
<1>3. CASE ~Legible("namespace", s.ns, key)
  <2>1. ParseAnnotations("namespace", t.ns) = ParseAnnotations("namespace", s.ns)
    <3>1. key \notin DOMAIN ParseAnnotations("namespace", s.ns)
      BY <1>3 DEF Legible
    <3>2. ParseAnnotations("namespace", Without(s.ns, key)) = ParseAnnotations("namespace", s.ns)
      BY <3>1, ParsedSame
    <3>. QED
      BY <1>2, <3>2
  <2>2. \A m \in Chained \cup {"enabled"} : Marked(t.ns, m) = Marked(s.ns, m)
    <3>. TAKE m \in Chained \cup {"enabled"}
    <3>1. m \in Markers /\ m # "skip"
      BY DEF Chained, Markers
    <3>2. m # key \/ Marked(s.ns, m) = {}
      BY <1>3, <3>1, Illegible
    <3>. QED
      BY <1>2, <3>2, MarkedWithout
  <2>3. key # "skipContainers"
    BY <1>3 DEF Legible
  <2>4. \A m \in Chained : \A d : ResolveBoolChain(m, d, t.ns, t.wl) = ResolveBoolChain(m, d, s.ns, s.wl)
    BY <1>2, <2>2 DEF ResolveBoolChain
  <2>5. \A d : IsContainerSkipped(d, t.ns, t.wl) = IsContainerSkipped(d, s.ns, s.wl)
    BY <1>2, <2>3, SkippedWithout DEF IsContainerSkipped
  <2>6. Marked(t.ns, "enabled") = Marked(s.ns, "enabled")
    BY <2>2
  <2>7. Effective(t, chart) = Effective(s, chart)
    BY <1>2, <2>1, <2>4, <2>5, <2>6, EffectiveSame, Zenon
  <2>. QED
    BY <1>1, <2>7
<1>4. CASE Legible("workload", s.wl, key)
  <2>1. PICK over : over = ParseAnnotations("workload", s.wl)
    OBVIOUS
  <2>2. key \in DOMAIN over \/ (key \in DOMAIN s.wl /\ key = "skipContainers")
    BY <1>4, <2>1 DEF Legible
  <2>3. "skipContainers" \notin DOMAIN ParseAnnotations("namespace", s.ns) /\ "enabled" \notin DOMAIN over
    BY <2>1 DEF ParseAnnotations
  <2>4. key # "enabled"
    BY <2>2, <2>3
  <2>5. ResolveForWorkload(chart, t.ns, t.wl) = ResolveForWorkload(chart, s.ns, s.wl)
    <3>1. PICK all, less : /\ all = ParseAnnotations("namespace", s.ns)
                           /\ less = ParseAnnotations("namespace", t.ns)
      OBVIOUS
    <3>2. CASE key \in DOMAIN over
      <4>1. DOMAIN less = DOMAIN all \ {key} /\ \A k \in DOMAIN all \ {key} : less[k] = all[k]
        <5>1. ParseAnnotations("namespace", Without(s.ns, key)) = Without(all, key)
          BY <3>1, ParsedWithout
        <5>2. less = Without(all, key)
          BY <1>2, <3>1, <5>1
        <5>. QED
          BY <5>2 DEF Without
      <4>2. DOMAIN less \cup DOMAIN over = DOMAIN all \cup DOMAIN over
        BY <3>2, <4>1
      <4>3. Merge(less, over) = Merge(all, over)
        BY <3>2, <4>1, <4>2 DEF Merge
      <4>. QED
        BY <1>2, <2>1, <3>1, <4>3 DEF ResolveForWorkload
    <3>3. CASE key = "skipContainers"
      <4>1. key \notin DOMAIN ParseAnnotations("namespace", s.ns)
        BY <2>3, <3>3
      <4>2. ParseAnnotations("namespace", t.ns) = ParseAnnotations("namespace", s.ns)
        BY <1>2, <4>1, ParsedSame
      <4>. QED
        BY <1>2, <4>2 DEF ResolveForWorkload
    <3>. QED
      BY <2>2, <3>2, <3>3
  <2>6. \A m \in Chained : \A d : ResolveBoolChain(m, d, t.ns, t.wl) = ResolveBoolChain(m, d, s.ns, s.wl)
    <3>. TAKE m \in Chained
    <3>. TAKE d
    <3>1. m \in Markers /\ m # "skipContainers"
      BY DEF Chained, Markers
    <3>2. CASE m = key
      <4>1. ParseNote(m, s.wl[m]) # {} /\ m \in DOMAIN s.wl
        BY <2>1, <2>2, <3>1, <3>2 DEF ParseAnnotations
      <4>2. ParseNote(m, s.wl[m]) = ParseBool(s.wl[m])
        BY <3>1, KeyClasses DEF ParseNote
      <4>. QED
        BY <1>2, <4>1, <4>2 DEF ResolveBoolChain, Marked
    <3>3. CASE m # key
      BY <1>2, <3>3, MarkedWithout DEF ResolveBoolChain
    <3>. QED
      BY <3>2, <3>3
  <2>7. Marked(t.ns, "enabled") = Marked(s.ns, "enabled")
    BY <1>2, <2>4, MarkedWithout
  <2>8. \A d : IsContainerSkipped(d, t.ns, t.wl) = IsContainerSkipped(d, s.ns, s.wl)
    <3>1. CASE key = "skipContainers"
      <4>1. "skipContainers" \in DOMAIN s.wl
        BY <2>2, <3>1, <2>1 DEF ParseAnnotations
      <4>. QED
        BY <1>2, <4>1 DEF IsContainerSkipped
    <3>2. CASE key # "skipContainers"
      BY <1>2, <3>2, SkippedWithout DEF IsContainerSkipped
    <3>. QED
      BY <3>1, <3>2
  <2>9. Effective(t, chart) = Effective(s, chart)
    BY <1>2, <2>5, <2>6, <2>7, <2>8, EffectiveSame, Zenon
  <2>. QED
    BY <1>1, <2>9
<1>. QED
  BY <1>3, <1>4

\* The settings in force are those of the setup.
SettingsInForce ==
  /\ setup \in DOMAIN Setups
  /\ \E chart \in Load(Setups[setup].source) : cfg = Effective(Setups[setup], chart)

LEMMA SettingsFixed == Spec => []SettingsInForce
<1>1. Init => SettingsInForce
  BY DEF Init, SettingsInForce
<1>2. SettingsInForce /\ [Next]_vars => SettingsInForce'
  <2>1. Next => UNCHANGED <<setup, cfg>>
    BY DEF Next, Sync, Reconcile, OutOfMemory, Recreate, ToggleReset, Hour
  <2>. QED
    BY <2>1 DEF vars, SettingsInForce
<1>. QED
  BY <1>1, <1>2, PTL DEF Spec

LEMMA InForceResolves == SettingsInForce => SettingsResolve
<1>. SUFFICES ASSUME SettingsInForce, NEW chart \in Load(Setups[setup].source)
              PROVE
                /\ \A key \in DOMAIN Setups[setup].wl : ~Legible("workload", Setups[setup].wl, key) =>
                     Effective([Setups[setup] EXCEPT !.wl = Without(@, key)], chart) = cfg
                /\ \A key \in DOMAIN Setups[setup].ns :
                     ~Legible("namespace", Setups[setup].ns, key) \/ Legible("workload", Setups[setup].wl, key) =>
                       Effective([Setups[setup] EXCEPT !.ns = Without(@, key)], chart) = cfg
  BY DEF SettingsResolve
<1>1. PICK s : s = Setups[setup]
  OBVIOUS
<1>2. DOMAIN s = SetupFields
  BY <1>1, InputAssumption DEF SettingsInForce, SetupFields
<1>3. cfg = Effective(s, chart)
  BY <1>1, LoadIsUnique DEF SettingsInForce
<1>4. \A key \in DOMAIN s.wl : ~Legible("workload", s.wl, key) =>
        Effective([s EXCEPT !.wl = Without(@, key)], chart) = cfg
  BY <1>2, <1>3, WorkloadTypo
<1>5. \A key \in DOMAIN s.ns : ~Legible("namespace", s.ns, key) \/ Legible("workload", s.wl, key) =>
        Effective([s EXCEPT !.ns = Without(@, key)], chart) = cfg
  BY <1>2, <1>3, NamespaceOverridden
<1>. QED
  BY <1>1, <1>4, <1>5

\* Whatever is annotated in which layer, by whichever parser, default and merge a
\* key goes through: what cannot be read changes nothing, and what can be read on
\* the workload leaves nothing of the namespace. (overrides.py)
THEOREM SettingsStayResolved == Spec => []SettingsResolve
BY SettingsFixed, InForceResolves, PTL

-----------------------------------------------------------------------------
(* Kills and their history.                                                *)

CrFields  == {"exists", "res", "oom", "legacy", "cooling"}
OomFields == {"floor", "lastEvent", "history", "investigation"}

\* What the annotations count.
Counts(oom) ==
  /\ oom = [field \in OomFields |-> oom[field]]
  /\ DOMAIN oom = OomFields /\ oom.history \in Nat /\ oom.lastEvent \in Nat
Countable(cr) ==
  /\ DOMAIN cr = CrFields
  /\ Counts(cr.oom)
  /\ DOMAIN cr.legacy = {"floor", "lastEvent"} /\ cr.legacy.lastEvent \in Nat

KillsCounted == Countable(live) /\ Countable(doc) /\ event \in Nat

LEMMA ParseOomCounts ==
  ASSUME NEW c, Countable(c)
  PROVE  Counts(ParseOom(c)) /\ ParseOom(c).history = c.oom.history
BY DEF Countable, Counts, ParseOom, OomFields

LEMMA PriorCounts == KillsCounted => Counts(Prior)
<1>1. Counts(NoOom)
  BY DEF Counts, NoOom, OomFields
<1>. QED
  BY <1>1, ParseOomCounts DEF KillsCounted, Prior

LEMMA RecordedCounts ==
  ASSUME KillsCounted, NEW effective \in BOOLEAN
  PROVE  /\ Counts(Recorded(effective)) /\ Recorded(effective).lastEvent = event
         /\ Recorded(effective).history > Prior.history => Recorded(effective).history = Prior.history + 1
<1>1. Prior.history \in Nat /\ event \in Nat /\ HistoryCap \in Nat
  BY PriorCounts, ScaleAssumption DEF KillsCounted, Counts
<1>. QED
  BY <1>1 DEF Recorded, Counts, OomFields, BuildOomBoostHistory, Smaller

\* The steps of _build_containers_payload, by name.
LEMMA RecommendationParts ==
  ASSUME NEW m
  PROVE  \E start, bumped, final : \E effective \in BOOLEAN :
           /\ start = Start(m)
           /\ bumped = IF Bumping THEN ApplyOomFloor(start, Target) ELSE start
           /\ final = Passes(bumped)
           /\ effective <=> /\ Bumping
                            /\ Get(final, MemLim) >= Get(bumped, MemLim)
                            /\ Get(final, MemLim) > Get(start, MemLim)
           /\ Recommendation(m) =
                IF start = Nothing THEN [res |-> Nothing, oom |-> Prior]
                ELSE [res |-> final, oom |-> IF FreshOom THEN Recorded(effective) ELSE Prior]
<1>1. PICK start : start = Start(m)
  OBVIOUS
<1>2. PICK bumped : bumped = IF Bumping THEN ApplyOomFloor(start, Target) ELSE start
  OBVIOUS
<1>3. PICK final : final = Passes(bumped)
  OBVIOUS
<1>4. PICK effective \in BOOLEAN : effective <=> /\ Bumping
                                                 /\ Get(final, MemLim) >= Get(bumped, MemLim)
                                                 /\ Get(final, MemLim) > Get(start, MemLim)
  OBVIOUS
<1>5. Recommendation(m) =
        IF start = Nothing THEN [res |-> Nothing, oom |-> Prior]
        ELSE [res |-> final, oom |-> IF FreshOom THEN Recorded(effective) ELSE Prior]
  <2>1. Recommendation(m) =
          IF start = Nothing THEN [res |-> Nothing, oom |-> Prior]
          ELSE [res |-> final,
                oom |-> IF FreshOom THEN Recorded(/\ Bumping
                                                  /\ Get(final, MemLim) >= Get(bumped, MemLim)
                                                  /\ Get(final, MemLim) > Get(start, MemLim)) ELSE Prior]
    BY <1>1, <1>2, <1>3, Zenon DEF Recommendation
  <2>2. effective = (/\ Bumping
                     /\ Get(final, MemLim) >= Get(bumped, MemLim)
                     /\ Get(final, MemLim) > Get(start, MemLim))
    BY <1>4
  <2>. QED
    BY <2>1, <2>2, Zenon
<1>. QED
  BY <1>1, <1>2, <1>3, <1>4, <1>5

LEMMA RecommendationOom ==
  ASSUME NEW m
  PROVE  \/ Recommendation(m).oom = Prior
         \/ FreshOom /\ \E effective \in BOOLEAN : Recommendation(m).oom = Recorded(effective)
<1>1. PICK start, bumped, final : \E effective \in BOOLEAN :
        Recommendation(m) =
          IF start = Nothing THEN [res |-> Nothing, oom |-> Prior]
          ELSE [res |-> final, oom |-> IF FreshOom THEN Recorded(effective) ELSE Prior]
  BY RecommendationParts
<1>. QED
  BY <1>1

\* A sync's document has the history of the live CR, or one line more for a new kill.
LEMMA DocumentCounts ==
  ASSUME KillsCounted, NEW m
  PROVE  LET written == Document(Recommendation(m)) IN
         /\ Countable(written)
         /\ ~reset /\ written.oom.history > live.oom.history =>
              /\ written.oom.history = live.oom.history + 1
              /\ written.oom.lastEvent > ParseOom(live).lastEvent
<1>1. PICK rec : rec = Recommendation(m)
  OBVIOUS
<1>2. PICK written : written = Document(rec)
  OBVIOUS
<1>3. \/ rec.oom = Prior
      \/ FreshOom /\ \E effective \in BOOLEAN : rec.oom = Recorded(effective)
  BY <1>1, RecommendationOom
<1>4. Counts(rec.oom)
  BY <1>3, PriorCounts, RecordedCounts
<1>5. /\ DOMAIN written = CrFields /\ written.legacy = NoLegacy
      /\ \E mark : written.oom = [rec.oom EXCEPT !.investigation = mark]
  BY <1>2 DEF Document, CrFields
<1>6. /\ DOMAIN written.oom = OomFields
      /\ written.oom.history = rec.oom.history /\ written.oom.lastEvent = rec.oom.lastEvent
  BY <1>4, <1>5 DEF Counts, OomFields
<1>7. Countable(written)
  BY <1>4, <1>5, <1>6 DEF Countable, Counts, NoLegacy
<1>8. ASSUME ~reset, written.oom.history > live.oom.history
      PROVE  /\ written.oom.history = live.oom.history + 1
             /\ written.oom.lastEvent > ParseOom(live).lastEvent
  <2>1. Prior = ParseOom(live) /\ Prior.history = live.oom.history /\ Counts(Prior)
    BY <1>8, ParseOomCounts, PriorCounts DEF Prior, KillsCounted
  <2>2. rec.oom # Prior
    BY <1>6, <1>8, <2>1 DEF Counts
  <2>3. FreshOom /\ \E effective \in BOOLEAN : rec.oom = Recorded(effective)
    BY <1>3, <2>2
  <2>4. rec.oom.lastEvent = event /\ rec.oom.history = live.oom.history + 1
    BY <1>6, <1>8, <2>1, <2>3, RecordedCounts
  <2>5. event > Prior.lastEvent
    BY <2>1, <2>3 DEF FreshOom, DetectOomEvents, Counts, KillsCounted
  <2>. QED
    BY <1>6, <2>1, <2>4, <2>5
<1>. QED
  BY <1>1, <1>2, <1>7, <1>8

\* Renumbering keeps the numbers numbers.
LEMMA TimestampsAre ==
  Timestamps = ({live.oom.lastEvent, live.legacy.lastEvent} \cup
                {doc.oom.lastEvent, doc.legacy.lastEvent}) \ {0}
<1>1. PICK a, b : /\ a = {live.oom.lastEvent, live.legacy.lastEvent}
                  /\ b = {doc.oom.lastEvent, doc.legacy.lastEvent}
  OBVIOUS
<1>2. {{cr.oom.lastEvent, cr.legacy.lastEvent} : cr \in {live, doc}} = {a, b}
  BY <1>1
<1>3. UNION {a, b} = a \cup b
  OBVIOUS
<1>4. Timestamps = (UNION {{cr.oom.lastEvent, cr.legacy.lastEvent} : cr \in {live, doc}}) \ {0}
  BY DEF Timestamps
<1>5. Timestamps = (a \cup b) \ {0}
  BY <1>2, <1>3, <1>4, Zenon
<1>. QED
  BY <1>1, <1>5, Zenon

LEMMA TimestampsFinite == IsFiniteSet(Timestamps) /\ Cardinality(Timestamps) \in Nat
<1>1. PICK all : all = {live.oom.lastEvent, live.legacy.lastEvent} \cup
                       {doc.oom.lastEvent, doc.legacy.lastEvent}
  OBVIOUS
<1>2. Timestamps \subseteq all
  BY <1>1, TimestampsAre
<1>3. \A a, b : IsFiniteSet({a, b})
  <2>. TAKE a, b
  <2>1. IsFiniteSet({a}) /\ IsFiniteSet({b})
    BY FS_Singleton
  <2>2. {a, b} = {a} \cup {b}
    OBVIOUS
  <2>. QED
    BY <2>1, <2>2, FS_Union
<1>4. IsFiniteSet(all)
  BY <1>1, <1>3, FS_Union
<1>. QED
  BY <1>2, <1>4, FS_Subset, FS_CardinalityType

LEMMA RenumberParts ==
  ASSUME NEW c, Countable(c)
  PROVE  /\ DOMAIN Renumber(c) = CrFields /\ Renumber(c).res = c.res
         /\ Renumber(c).oom = [c.oom EXCEPT !.lastEvent = Rank(@)]
         /\ Renumber(c).legacy = [c.legacy EXCEPT !.lastEvent = Rank(@)]
<1>1. PICK o : o = [c.oom EXCEPT !.lastEvent = Rank(@)]
  OBVIOUS
<1>2. PICK l : l = [c.legacy EXCEPT !.lastEvent = Rank(@)]
  OBVIOUS
<1>3. Renumber(c) = [[c EXCEPT !.oom = o] EXCEPT !.legacy = l]
  <2>1. Renumber(c) = [[c EXCEPT !.oom = o] EXCEPT !.legacy.lastEvent = Rank(@)]
    BY <1>1 DEF Renumber
  <2>2. [c EXCEPT !.oom = o].legacy = c.legacy
    BY DEF Countable, CrFields
  <2>. QED
    BY <1>2, <2>1, <2>2
<1>. QED
  BY <1>1, <1>2, <1>3 DEF Countable, CrFields

LEMMA RenumberCounts ==
  ASSUME NEW c, Countable(c)
  PROVE  Countable(Renumber(c)) /\ Renumber(c).oom.history = c.oom.history
<1>1. \A t : Rank(t) \in Nat
  <2>. TAKE t
  <2>1. {u \in Timestamps : u <= t} \subseteq Timestamps
    OBVIOUS
  <2>. QED
    BY <2>1, TimestampsFinite, FS_Subset, FS_CardinalityType DEF Rank
<1>2. PICK o : o = [c.oom EXCEPT !.lastEvent = Rank(@)]
  OBVIOUS
<1>3. PICK l : l = [c.legacy EXCEPT !.lastEvent = Rank(@)]
  OBVIOUS
<1>4. Counts(o) /\ o.history = c.oom.history
  BY <1>1, <1>2 DEF Countable, Counts, OomFields
<1>5. DOMAIN l = {"floor", "lastEvent"} /\ l.lastEvent \in Nat
  BY <1>1, <1>3 DEF Countable
<1>6. DOMAIN Renumber(c) = CrFields /\ Renumber(c).oom = o /\ Renumber(c).legacy = l
  BY <1>2, <1>3, RenumberParts
<1>. QED
  BY <1>4, <1>5, <1>6 DEF Countable

LEMMA RenumberAmounts ==
  ASSUME NEW c, Countable(c)
  PROVE  /\ Renumber(c).res = c.res /\ Renumber(c).oom.floor = c.oom.floor
         /\ Renumber(c).legacy.floor = c.legacy.floor
<1>1. PICK o : o = [c.oom EXCEPT !.lastEvent = Rank(@)]
  OBVIOUS
<1>2. PICK l : l = [c.legacy EXCEPT !.lastEvent = Rank(@)]
  OBVIOUS
<1>3. Renumber(c).res = c.res /\ Renumber(c).oom = o /\ Renumber(c).legacy = l
  BY <1>1, <1>2, RenumberParts
<1>. QED
  BY <1>1, <1>2, <1>3 DEF Countable, Counts, OomFields

LEMMA NoCrCounts == Countable(NoCr) /\ NoCr.oom.history = 0
BY DEF NoCr, NoOom, NoLegacy, Countable, Counts, CrFields, OomFields

LEMMA InitCounts == Init => KillsCounted
<1>1. Countable(OldCr)
  <2>1. PICK legacy : legacy = [floor |-> 2 * Template[MemLim], lastEvent |-> 1]
    OBVIOUS
  <2>2. PICK res : res = Put(Template, MemLim, 2 * Template[MemLim])
    OBVIOUS
  <2>3. OldCr = [NoCr EXCEPT !.exists = TRUE, !.res = res, !.legacy = legacy]
    BY <2>1, <2>2 DEF OldCr
  <2>4. DOMAIN OldCr = CrFields /\ OldCr.oom = NoOom /\ OldCr.legacy = legacy
    BY <2>3 DEF NoCr, CrFields
  <2>. QED
    BY <2>1, <2>4 DEF Countable, Counts, NoOom, OomFields
<1>. QED
  BY <1>1, NoCrCounts DEF Init, KillsCounted

\* What every step does to the counts.
KillCounted ==
  doc'.oom.history # doc.oom.history /\ doc'.oom.history > live.oom.history /\ ~reset =>
    /\ doc'.oom.history = live.oom.history + 1
    /\ doc'.oom.lastEvent > ParseOom(live).lastEvent

LEMMA SyncCounts ==
  ASSUME KillsCounted, NEW m, Sync(m)
  PROVE  KillsCounted' /\ KillCounted
<1>1. PICK rec : rec = Recommendation(m)
  OBVIOUS
<1>2. PICK written : written = Document(rec)
  OBVIOUS
<1>3. /\ Countable(written)
      /\ ~reset /\ written.oom.history > live.oom.history =>
           /\ written.oom.history = live.oom.history + 1
           /\ written.oom.lastEvent > ParseOom(live).lastEvent
  BY <1>1, <1>2, DocumentCounts
<1>4. /\ doc' = written \/ doc' = NoCr \/ doc' = doc
      /\ live' = live \/ live' = [doc' EXCEPT !.legacy = live.legacy]
      /\ event' = event
  BY <1>1, <1>2 DEF Sync
<1>5. Countable(doc')
  BY <1>3, <1>4, NoCrCounts DEF KillsCounted
<1>6. Countable(live')
  BY <1>4, <1>5 DEF KillsCounted, Countable, CrFields
<1>7. KillCounted
  <2>1. CASE doc' = NoCr
    BY <2>1, NoCrCounts DEF KillCounted, KillsCounted, Countable, Counts
  <2>2. CASE doc' # NoCr
    BY <1>3, <1>4, <2>2 DEF KillCounted
  <2>. QED
    BY <2>1, <2>2
<1>. QED
  BY <1>4, <1>5, <1>6, <1>7 DEF KillsCounted

LEMMA NextCounts ==
  ASSUME KillsCounted, [Next]_vars
  PROVE  KillsCounted' /\ KillCounted
<1>1. ASSUME NEW m, Sync(m)
      PROVE  KillsCounted' /\ KillCounted
  BY <1>1, SyncCounts
<1>2. CASE Reconcile
  BY <1>2 DEF Reconcile, KillsCounted, KillCounted
<1>3. CASE OutOfMemory
  <2>1. live' = Renumber(live) /\ doc' = Renumber(doc) /\ event' = Cardinality(Timestamps) + 1
    BY <1>3 DEF OutOfMemory
  <2>2. event' \in Nat
    BY <2>1, TimestampsFinite
  <2>. QED
    BY <2>1, <2>2, RenumberCounts DEF KillsCounted, KillCounted
<1>4. CASE Recreate
  BY <1>4 DEF Recreate, KillsCounted, KillCounted
<1>5. CASE ToggleReset
  BY <1>5 DEF ToggleReset, KillsCounted, KillCounted
<1>6. CASE Hour
  <2>1. /\ \E h : live' = [live EXCEPT !.cooling = h]
        /\ \E h : doc' = [doc EXCEPT !.cooling = h]
        /\ event' = event
    BY <1>6 DEF Hour
  <2>2. Countable(live') /\ Countable(doc') /\ doc'.oom = doc.oom
    BY <2>1 DEF KillsCounted, Countable, CrFields
  <2>. QED
    BY <2>1, <2>2 DEF KillsCounted, KillCounted
<1>7. CASE UNCHANGED vars
  BY <1>7 DEF vars, KillsCounted, KillCounted
<1>. QED
  BY <1>1, <1>2, <1>3, <1>4, <1>5, <1>6, <1>7 DEF Next

LEMMA CountsStay == Spec => []KillsCounted
<1>1. KillsCounted /\ [Next]_vars => KillsCounted'
  BY NextCounts
<1>. QED
  BY InitCounts, <1>1, PTL DEF Spec

\* However many syncs see a kill before its pod is gone, and however late ArgoCD
\* applies what they write, a document has at most one line of history more than
\* the live CR, and then a later oom-last-event. (_build_containers_payload)
THEOREM KillsStayCounted == Spec => KillsCountOnce
<1>1. KillsCounted /\ [Next]_vars =>
        [doc'.oom.history # doc.oom.history /\ doc'.oom.history > live.oom.history /\ ~reset =>
           /\ doc'.oom.history = live.oom.history + 1
           /\ doc'.oom.lastEvent > ParseOom(live).lastEvent]_vars
  BY NextCounts DEF KillCounted
<1>. QED
  BY CountsStay, <1>1, PTL DEF Spec, KillsCountOnce

-----------------------------------------------------------------------------
(* The settings are numbers.                                               *)

Legal(notes) == \A key \in DOMAIN notes : notes[key] \in Literal

LEMMA WholeTyped ==
  ASSUME NEW v \in Literal
  PROVE  Whole(v) \subseteq Int /\ v.number \subseteq Int
BY DEF Whole, Literal

LEMMA KeyTyped ==
  ASSUME NEW source, Legal(source.keys), NEW key, NEW x \in Key(source, key)
  PROVE  /\ key \in CountKeys \cup RatioKeys => x \in Int
         /\ key \in MarginKeys => x \subseteq Int
<1>1. PICK v : v = IF key \in DOMAIN source.keys THEN source.keys[key] ELSE Absent
  OBVIOUS
<1>2. v \in Literal /\ Whole(v) \subseteq Int /\ v.number \subseteq Int
  <2>1. Absent \in Literal
    BY DEF Absent, Literal
  <2>. QED
    BY <1>1, <2>1, WholeTyped DEF Legal
<1>3. x \in CASE key \in FlagKeys   -> {Flag(key, v)}
              [] key \in CountKeys  -> IntBound(key, v)
              [] key \in MarginKeys -> OptFloat(source.kind, v)
              [] key \in WindowKeys -> {Window(key, v)}
              [] key = "oomBumpFactor" -> {IF n < 100 THEN 100 ELSE n : n \in Ratio(key, v)}
              [] OTHER -> Ratio(key, v)
  BY <1>1 DEF Key
<1>4. CASE key \in CountKeys
  <2>1. x \in IntBound(key, v)
    BY <1>3, <1>4, KeyClasses DEF RatioKeys, RatioDefault
  <2>2. CountDefault[key] \in Int
    BY <1>4 DEF CountKeys, CountDefault
  <2>3. x \in Int
    BY <1>2, <2>1, <2>2 DEF IntBound
  <2>. QED
    BY <1>4, <2>3, KeyClasses
<1>5. CASE key \in MarginKeys
  <2>1. x \in OptFloat(source.kind, v)
    BY <1>3, <1>5, KeyClasses DEF RatioKeys, RatioDefault
  <2>2. x \subseteq Int
    BY <1>2, <2>1 DEF OptFloat
  <2>. QED
    BY <1>5, <2>2, KeyClasses
<1>6. CASE key \in RatioKeys
  <2>1. Ratio(key, v) \subseteq Int
    <3>1. RatioDefault[key] \in Int
      BY <1>6 DEF RatioKeys, RatioDefault
    <3>2. \A n \in Ratio(key, v) : n = RatioDefault[key] \/ n = 0 \/ n \in v.number
      BY DEF Ratio
    <3>. QED
      BY <1>2, <3>1, <3>2
  <2>2. \/ x \in Ratio(key, v)
        \/ x \in {IF n < 100 THEN 100 ELSE n : n \in Ratio(key, v)}
    BY <1>3, <1>6, KeyClasses
  <2>3. x \in Int
    BY <2>1, <2>2
  <2>. QED
    BY <1>6, <2>3, KeyClasses
<1>. QED
  BY <1>4, <1>5, <1>6

\* Numbers where numbers belong, and sets of at most one for the margins.
Typed(layer) ==
  /\ \A key \in DOMAIN layer \cap (CountKeys \cup RatioKeys) : layer[key] \in Int
  /\ \A key \in DOMAIN layer \cap MarginKeys : layer[key] \subseteq Int

LEMMA LoadTyped ==
  ASSUME NEW source, Legal(source.keys), NEW chart \in Load(source)
  PROVE  Typed(chart) /\ DOMAIN chart = Keys
<1>1. DOMAIN chart = Keys /\ \A key \in Keys : chart[key] \in Key(source, key)
  BY DEF Load, The
<1>. QED
  BY <1>1, KeyTyped DEF Typed

LEMMA ParsedTyped ==
  ASSUME NEW scope, NEW notes, Legal(notes)
  PROVE  Typed(ParseAnnotations(scope, notes))
<1>. SUFFICES ASSUME NEW key \in DOMAIN ParseAnnotations(scope, notes)
              PROVE  /\ key \in CountKeys \cup RatioKeys => ParseAnnotations(scope, notes)[key] \in Int
                     /\ key \in MarginKeys => ParseAnnotations(scope, notes)[key] \subseteq Int
  BY DEF Typed
<1>1. PICK v : v = notes[key]
  OBVIOUS
<1>2. PICK x : x = ParseAnnotations(scope, notes)[key]
  OBVIOUS
<1>3. v \in Literal /\ x \in ParseNote(key, v)
  BY <1>1, <1>2 DEF ParseAnnotations, The, Legal
<1>4. Whole(v) \subseteq Int /\ v.number \subseteq Int
  BY <1>3, WholeTyped
<1>5. key \in CountKeys => ParseNote(key, v) = Whole(v)
  BY KeyClasses DEF ParseNote
<1>6. key \in RatioKeys => ParseNote(key, v) = v.number
  BY KeyClasses DEF ParseNote
<1>7. key \in MarginKeys => ParseNote(key, v) = {{n} : n \in v.number}
  BY KeyClasses DEF ParseNote
<1>. QED
  BY <1>2, <1>3, <1>4, <1>5, <1>6, <1>7

\* The settings a workload gets.
LEMMA ResolvedTyped ==
  ASSUME NEW chart, Typed(chart), DOMAIN chart = Keys, NEW ns, NEW wl, Legal(ns), Legal(wl)
  PROVE  Typed(ResolveForWorkload(chart, ns, wl)) /\ DOMAIN ResolveForWorkload(chart, ns, wl) = Keys
<1>1. PICK over : over = Merge(ParseAnnotations("namespace", ns), ParseAnnotations("workload", wl))
  OBVIOUS
<1>2. Typed(over)
  <2>1. Typed(ParseAnnotations("namespace", ns)) /\ Typed(ParseAnnotations("workload", wl))
    BY ParsedTyped
  <2>2. PICK a, b : a = ParseAnnotations("namespace", ns) /\ b = ParseAnnotations("workload", wl)
    OBVIOUS
  <2>. QED
    BY <1>1, <2>1, <2>2 DEF Merge, Typed
<1>3. ResolveForWorkload(chart, ns, wl) =
        [key \in Keys |-> IF key \in DOMAIN over \cap OverrideKeys THEN over[key] ELSE chart[key]]
  BY <1>1 DEF ResolveForWorkload, Apply
<1>. QED
  BY <1>2, <1>3 DEF Typed

Numbers == [Fields -> Int]
NumberedSettings(c) ==
  /\ c.min \in Numbers /\ c.max \in Numbers /\ c.margin \in Numbers
  /\ c.cpuMult \in Int /\ c.memMult \in Int /\ c.maxChange \in Int
  /\ c.bumpFactor \in Int /\ c.coldStartCpu \in Int

LEMMA FieldKeys ==
  ASSUME NEW f \in Fields
  PROVE  /\ MinKey[f[1]][f[2]] \in CountKeys /\ MaxKey[f[1]][f[2]] \in CountKeys
         /\ MarginKey[f[1]][f[2]] \in MarginKeys
<1>1. f[1] \in {"requests", "limits"} /\ f[2] \in {"cpu", "memory"}
  BY DEF Fields
<1>. QED
  BY <1>1 DEF MinKey, MaxKey, MarginKey, CountKeys, CountDefault, MarginKeys

LEMMA EffectiveNumbered ==
  ASSUME NEW s, NEW chart \in Load(s.source), Legal(s.source.keys), Legal(s.ns), Legal(s.wl)
  PROVE  NumberedSettings(Effective(s, chart))
<1>1. PICK own : own = ResolveForWorkload(chart, s.ns, s.wl)
  OBVIOUS
<1>2. Typed(own) /\ DOMAIN own = Keys
  BY <1>1, LoadTyped, ResolvedTyped
<1>3. \A key \in CountKeys \cup RatioKeys : own[key] \in Int
  BY <1>2 DEF Typed, Keys
<1>4. \A key \in MarginKeys : EffectiveMargin(own, key) \in Int
  <2>1. own["marginFraction"] \in Int
    BY <1>3 DEF RatioKeys, RatioDefault
  <2>. QED
    BY <1>2, <2>1 DEF Typed, Keys, EffectiveMargin, The
<1>5. PICK c : c = Effective(s, chart)
  OBVIOUS
<1>6. /\ c.min = [f \in Fields |-> own[MinKey[f[1]][f[2]]]]
      /\ c.max = [f \in Fields |-> own[MaxKey[f[1]][f[2]]]]
      /\ c.margin = [f \in Fields |-> EffectiveMargin(own, MarginKey[f[1]][f[2]])]
      /\ c.cpuMult = own["cpuLimitMultiplier"] /\ c.memMult = own["memoryLimitMultiplier"]
      /\ c.maxChange = own["maxChangePercent"] \div 100
      /\ c.bumpFactor = own["oomBumpFactor"] /\ c.coldStartCpu = own["coldStartCpuFloorM"]
  BY <1>1, <1>5, EffectiveAssembled DEF Assembled
<1>7. c.min \in Numbers /\ c.max \in Numbers /\ c.margin \in Numbers
  BY <1>3, <1>4, <1>6, FieldKeys DEF Numbers
<1>8. {"cpuLimitMultiplier", "memoryLimitMultiplier", "maxChangePercent", "oomBumpFactor",
       "coldStartCpuFloorM"} \subseteq CountKeys \cup RatioKeys
  BY DEF CountKeys, CountDefault, RatioKeys, RatioDefault
<1>. QED
  BY <1>3, <1>5, <1>6, <1>7, <1>8 DEF NumberedSettings

LEMMA SettingsNumbered == SettingsInForce => NumberedSettings(cfg)
<1>. SUFFICES ASSUME SettingsInForce
              PROVE  NumberedSettings(cfg)
  OBVIOUS
<1>1. PICK s : s = Setups[setup]
  OBVIOUS
<1>2. PICK chart \in Load(s.source) : cfg = Effective(s, chart)
  BY <1>1 DEF SettingsInForce
<1>3. Legal(s.source.keys) /\ Legal(s.ns) /\ Legal(s.wl)
  BY <1>1, InputAssumption DEF SettingsInForce, Legal
<1>. QED
  BY <1>2, <1>3, EffectiveNumbered

-----------------------------------------------------------------------------
(* Rounding.                                                               *)

\* The quotient and the remainder by a positive number.
LEMMA Division ==
  ASSUME NEW n \in Int, NEW d \in Nat \ {0}
  PROVE  n \div d \in Int /\ n % d \in 0 .. d - 1 /\ n = d * (n \div d) + (n % d)
OBVIOUS

LEMMA HalfEvenTyped ==
  ASSUME NEW n \in Int, NEW d \in Nat \ {0}
  PROVE  HalfEven(n, d) \in Int
BY Division DEF HalfEven

LEMMA HalfEvenMonotone ==
  ASSUME NEW a \in Int, NEW b \in Int, NEW d \in Nat \ {0}, a <= b
  PROVE  HalfEven(a, d) <= HalfEven(b, d)
<1>1. PICK p \in Int, r \in 0 .. d - 1 : p = a \div d /\ r = a % d /\ a = d * p + r
  BY Division
<1>2. PICK q \in Int, s \in 0 .. d - 1 : q = b \div d /\ s = b % d /\ b = d * q + s
  BY Division
<1>3. HalfEven(a, d) \in {p, p + 1} /\ HalfEven(b, d) \in {q, q + 1}
  BY <1>1, <1>2 DEF HalfEven
<1>4. p <= q
  <2>. SUFFICES ASSUME p >= q + 1
                PROVE  FALSE
    OBVIOUS
  <2>1. PICK e \in Nat : p = q + 1 + e
    <3>1. p - q - 1 \in Nat
      OBVIOUS
    <3>. QED
      BY <3>1
  <2>2. d * p = d * q + d + d * e
    BY <2>1
  <2>3. PICK x \in Int : x = d * q
    OBVIOUS
  <2>4. PICK y \in Nat : y = d * e
    OBVIOUS
  <2>. QED
    BY <1>1, <1>2, <2>2, <2>3, <2>4
<1>5. CASE p = q
  <2>1. r <= s
    <3>1. PICK x \in Int : x = d * p
      OBVIOUS
    <3>. QED
      BY <1>1, <1>2, <1>5, <3>1
  <2>. QED
    BY <1>1, <1>2, <1>5, <2>1 DEF HalfEven
<1>6. CASE p < q
  BY <1>3, <1>6
<1>. QED
  BY <1>4, <1>5, <1>6

LEMMA HalfEvenExact ==
  ASSUME NEW k \in Int, NEW d \in Nat \ {0}
  PROVE  HalfEven(k * d, d) = k
<1>1. PICK n \in Int : n = k * d
  OBVIOUS
<1>2. n \div d = k /\ n % d = 0
  <2>1. PICK p \in Int, r \in 0 .. d - 1 : p = n \div d /\ r = n % d /\ n = d * p + r
    BY Division
  <2>2. d * (k - p) = r
    BY <1>1, <2>1
  <2>3. k - p < 1 /\ k - p > -1
    <3>1. ASSUME k - p >= 1
          PROVE  FALSE
      <4>1. PICK e \in Nat : k - p = 1 + e
        <5>1. k - p - 1 \in Nat
          BY <3>1
        <5>. QED
          BY <5>1
      <4>2. d * (k - p) = d + d * e
        BY <4>1
      <4>3. PICK y \in Nat : y = d * e
        OBVIOUS
      <4>. QED
        BY <2>1, <2>2, <4>2, <4>3
    <3>2. ASSUME k - p <= -1
          PROVE  FALSE
      <4>1. PICK e \in Nat : k - p = -1 - e
        <5>1. p - k - 1 \in Nat
          BY <3>2
        <5>. QED
          BY <5>1
      <4>2. d * (k - p) = -d - d * e
        BY <4>1
      <4>3. PICK y \in Nat : y = d * e
        OBVIOUS
      <4>. QED
        BY <2>1, <2>2, <4>2, <4>3
    <3>. QED
      BY <3>1, <3>2
  <2>4. p = k
    BY <2>3
  <2>. QED
    BY <2>1, <2>2, <2>4
<1>. QED
  BY <1>1, <1>2 DEF HalfEven

-----------------------------------------------------------------------------
(* Limits cover requests.                                                  *)

\* Memory as it is written.
InMebibytes(v) == \E k \in Int : v = k * MiB

\* A limit comes with its request, and covers it.
Paired(res, req, lim) ==
  /\ req \in DOMAIN res <=> lim \in DOMAIN res
  /\ lim \in DOMAIN res => res[lim] >= res[req]

\* What every pass can start from: where CPU limits are dropped in the end, CPU
\* need not be paired on the way.
Ready(res) ==
  /\ DOMAIN res \subseteq Fields
  /\ \A f \in DOMAIN res : res[f] \in Int
  /\ \A f \in DOMAIN res : f[2] = "memory" => InMebibytes(res[f])
  /\ Paired(res, MemReq, MemLim)
  /\ cfg.emitCpuLimits => Paired(res, CpuReq, CpuLim)

\* What a sync writes.
Covered(res) ==
  /\ Ready(res)
  /\ CpuLim \in DOMAIN res => CpuReq \in DOMAIN res /\ res[CpuLim] >= res[CpuReq]

\* A limit or a floor in force is a mebibyte at least.
Positive(v) == v \in Int /\ (v > 0 => v >= MiB)

\* The settings the chart's validation lets through.  An annotation may go below
\* them: a memoryLimitMultiplier under 1 asks for limits under the requests.
InRange == cfg.memMult \in 100..(100 * MiB) /\ cfg.bumpFactor >= 100

PairsCovered ==
  InRange =>
    /\ Covered(live.res) /\ Positive(live.oom.floor) /\ Positive(live.legacy.floor)
    /\ Covered(doc.res) /\ Positive(doc.oom.floor) /\ Positive(doc.legacy.floor)
    /\ Positive(podLimit)

LEMMA FieldParts ==
  /\ Fields = {CpuReq, MemReq, CpuLim, MemLim}
  /\ CpuReq # CpuLim /\ CpuReq # MemReq /\ CpuReq # MemLim /\ CpuLim # MemReq /\ CpuLim # MemLim
  /\ MemReq # MemLim
  /\ CpuReq[1] = "requests" /\ CpuReq[2] = "cpu" /\ MemReq[1] = "requests" /\ MemReq[2] = "memory"
  /\ CpuLim[1] = "limits" /\ CpuLim[2] = "cpu" /\ MemLim[1] = "limits" /\ MemLim[2] = "memory"
BY DEF Fields, CpuReq, CpuLim, MemReq, MemLim

LEMMA MebibytesAreInt ==
  ASSUME NEW v, InMebibytes(v)
  PROVE  v \in Int
BY ScaleAssumption DEF InMebibytes

LEMMA QuantityTyped ==
  ASSUME NEW f, NEW v \in Int
  PROVE  Quantity(f, v) \in Int /\ (f[2] = "memory" => InMebibytes(Quantity(f, v)))
<1>1. HalfEven(v, MiB) \in Int
  BY HalfEvenTyped, ScaleAssumption
<1>2. MiB \in Int
  BY ScaleAssumption
<1>. QED
  BY <1>1, <1>2 DEF Quantity, FmtMemory, ParseMemoryBytes, InMebibytes

LEMMA ScaleMonotone ==
  ASSUME NEW a \in Int, NEW b \in Int, a <= b
  PROVE  a * MiB <= b * MiB
<1>1. PICK e \in Nat : b = a + e
  <2>1. b - a \in Nat
    OBVIOUS
  <2>. QED
    BY <2>1
<1>2. b * MiB = a * MiB + e * MiB
  BY <1>1, ScaleAssumption
<1>3. e * MiB \in Nat /\ a * MiB \in Int
  BY ScaleAssumption
<1>. QED
  BY <1>2, <1>3

LEMMA QuantityMonotone ==
  ASSUME NEW f, NEW a \in Int, NEW b \in Int, a <= b
  PROVE  Quantity(f, a) <= Quantity(f, b)
<1>1. /\ HalfEven(a, MiB) \in Int /\ HalfEven(b, MiB) \in Int
      /\ HalfEven(a, MiB) <= HalfEven(b, MiB)
  BY HalfEvenTyped, HalfEvenMonotone, ScaleAssumption
<1>2. HalfEven(a, MiB) * MiB <= HalfEven(b, MiB) * MiB
  BY <1>1, ScaleMonotone
<1>. QED
  BY <1>2 DEF Quantity, FmtMemory, ParseMemoryBytes

\* What is written is read back as it is.
LEMMA QuantityExact ==
  ASSUME NEW f, NEW v, InMebibytes(v)
  PROVE  Quantity(f, v) = v
<1>1. PICK k \in Int : v = k * MiB
  BY DEF InMebibytes
<1>2. HalfEven(v, MiB) = k
  BY <1>1, HalfEvenExact, ScaleAssumption
<1>. QED
  BY <1>1, <1>2 DEF Quantity, FmtMemory, ParseMemoryBytes

LEMMA BoundTyped ==
  ASSUME NEW f \in Fields, NEW table \in Numbers
  PROVE  /\ table[f] \in Int /\ Bound(table, f) \in Int
         /\ f[2] = "memory" => InMebibytes(Bound(table, f))
BY ScaleAssumption DEF Bound, Numbers, InMebibytes

LEMMA BelowTyped ==
  ASSUME NumberedSettings(cfg), NEW f \in Fields, NEW v \in Int
  PROVE  /\ Below(f, v) \in Int /\ Below(f, v) <= v
         /\ f[2] = "memory" /\ InMebibytes(v) => InMebibytes(Below(f, v))
         /\ f[2] = "memory" /\ v >= MiB => Below(f, v) >= MiB
<1>1. /\ cfg.max[f] \in Int /\ Bound(cfg.max, f) \in Int
      /\ f[2] = "memory" => InMebibytes(Bound(cfg.max, f))
  BY BoundTyped DEF NumberedSettings
<1>2. f[2] = "memory" /\ cfg.max[f] > 0 => Bound(cfg.max, f) >= MiB
  <2>1. PICK k \in Int : k = cfg.max[f]
    BY <1>1
  <2>2. k >= 1 => k * MiB >= 1 * MiB
    BY <2>1, ScaleMonotone
  <2>. QED
    BY <2>1, <2>2, ScaleAssumption DEF Bound
<1>. QED
  BY <1>1, <1>2 DEF Below, Smaller

LEMMA RoundUpTyped ==
  ASSUME NEW v \in Int
  PROVE  RoundUpNice(v) \in Int
<1>1. \E s \in {1, 10, 100, 1000, 10000} : (v < 10 * s \/ s = 10000) /\ (v >= s \/ s = 1)
  <2>1. CASE v < 10
    BY <2>1
  <2>2. CASE v >= 10 /\ v < 100
    BY <2>2
  <2>3. CASE v >= 100 /\ v < 1000
    BY <2>3
  <2>4. CASE v >= 1000 /\ v < 10000
    BY <2>4
  <2>5. CASE v >= 10000
    BY <2>5
  <2>. QED
    BY <2>1, <2>2, <2>3, <2>4, <2>5
<1>2. NiceStep(v) \in {1, 10, 100, 1000, 10000}
  BY <1>1 DEF NiceStep
<1>3. PICK s \in Nat \ {0} : s = NiceStep(v)
  BY <1>2
<1>4. (v + s - 1) \div s \in Int
  BY Division
<1>. QED
  BY <1>3, <1>4 DEF RoundUpNice

LEMMA RoundedTyped ==
  ASSUME NEW f \in Fields, NEW v \in Int
  PROVE  Rounded(f, v) \in Int
<1>1. HalfEven(v, MiB) \in Int
  BY HalfEvenTyped, ScaleAssumption
<1>2. RoundUpNice(HalfEven(v, MiB)) \in Int /\ RoundUpNice(v) \in Int
  BY <1>1, RoundUpTyped
<1>. QED
  BY <1>2, ScaleAssumption DEF Rounded

LEMMA TimesTyped ==
  ASSUME NumberedSettings(cfg), NEW f, NEW v \in Int
  PROVE  Times(f, v) \in Int
<1>1. v * (IF f[2] = "cpu" THEN cfg.cpuMult ELSE cfg.memMult) \in Int
  BY DEF NumberedSettings
<1>. QED
  BY <1>1, HalfEvenTyped DEF Times

\* The request and the limit before they are formatted.
LEMMA ComputedParts ==
  ASSUME NumberedSettings(cfg), NEW usage, \A f \in DOMAIN usage : usage[f] \in Int,
         NEW k \in {"cpu", "memory"}, <<"requests", k>> \in DOMAIN usage
  PROVE  \E req \in Int, lim \in Int :
           /\ req <= lim
           /\ Computed(usage, <<"requests", k>>) = Quantity(<<"requests", k>>, req)
           /\ Computed(usage, <<"limits", k>>) = Quantity(<<"limits", k>>, lim)
<1>1. PICK r, l : r = <<"requests", k>> /\ l = <<"limits", k>>
  OBVIOUS
<1>2. r \in Fields /\ l \in Fields /\ r # l /\ r[2] = k /\ l[2] = k
  BY <1>1 DEF Fields
<1>3. Bound(cfg.min, r) \in Int /\ Bound(cfg.min, l) \in Int
  BY <1>2, BoundTyped DEF NumberedSettings
<1>4. PICK a \in Int : a = Larger(usage[r], Bound(cfg.min, r))
  BY <1>1, <1>3 DEF Larger
<1>5. Rounded(r, a) \in Int
  BY <1>2, RoundedTyped
<1>6. PICK req \in Int : req = Below(r, Rounded(r, a))
  BY <1>2, <1>5, BelowTyped
<1>7. PICK raw \in Int : raw = IF l \in DOMAIN usage THEN usage[l] ELSE Times(l, req)
  BY TimesTyped
<1>8. PICK b \in Int : b = Larger(raw, Bound(cfg.min, l))
  BY <1>3 DEF Larger
<1>9. Rounded(l, b) \in Int
  BY <1>2, RoundedTyped
<1>10. PICK lim \in Int : lim = Below(l, Rounded(l, b))
  BY <1>2, <1>9, BelowTyped
<1>11. PICK top \in Int : top = Larger(lim, req) /\ req <= top
  BY DEF Larger
<1>12. Computed(usage, r) = Quantity(r, req)
  BY <1>1, <1>2, <1>4, <1>6 DEF Computed
<1>13. Computed(usage, l) = Quantity(l, top)
  BY <1>1, <1>2, <1>4, <1>6, <1>7, <1>8, <1>10, <1>11 DEF Computed
<1>. QED
  BY <1>1, <1>11, <1>12, <1>13

LEMMA BuildReady ==
  ASSUME NumberedSettings(cfg), NEW usage, \A f \in DOMAIN usage : usage[f] \in Int
  PROVE  Ready(BuildContainerResources(usage))
<1>1. PICK res : res = BuildContainerResources(usage)
  OBVIOUS
<1>2. /\ DOMAIN res = {g \in Fields : <<"requests", g[2]>> \in DOMAIN usage}
      /\ \A f \in DOMAIN res : res[f] = Computed(usage, f)
  BY <1>1 DEF BuildContainerResources
<1>3. ASSUME NEW k \in {"cpu", "memory"}, <<"requests", k>> \in DOMAIN usage
      PROVE  /\ res[<<"requests", k>>] \in Int /\ res[<<"limits", k>>] \in Int
             /\ res[<<"requests", k>>] <= res[<<"limits", k>>]
             /\ k = "memory" => InMebibytes(res[<<"requests", k>>]) /\ InMebibytes(res[<<"limits", k>>])
  <2>1. PICK req \in Int, lim \in Int :
          /\ req <= lim
          /\ Computed(usage, <<"requests", k>>) = Quantity(<<"requests", k>>, req)
          /\ Computed(usage, <<"limits", k>>) = Quantity(<<"limits", k>>, lim)
    BY <1>3, ComputedParts
  <2>2. Quantity(<<"requests", k>>, lim) = Quantity(<<"limits", k>>, lim)
    BY DEF Quantity
  <2>3. Quantity(<<"requests", k>>, req) <= Quantity(<<"requests", k>>, lim)
    BY <2>1, QuantityMonotone
  <2>4. <<"requests", k>> \in DOMAIN res /\ <<"limits", k>> \in DOMAIN res
    BY <1>2, <1>3 DEF Fields
  <2>5. <<"requests", k>>[2] = k /\ <<"limits", k>>[2] = k
    OBVIOUS
  <2>6. /\ Quantity(<<"requests", k>>, req) \in Int /\ Quantity(<<"limits", k>>, lim) \in Int
        /\ k = "memory" => /\ InMebibytes(Quantity(<<"requests", k>>, req))
                           /\ InMebibytes(Quantity(<<"limits", k>>, lim))
    BY <2>5, QuantityTyped
  <2>. QED
    BY <1>2, <2>1, <2>2, <2>3, <2>4, <2>6
<1>4. DOMAIN res \subseteq Fields
  BY <1>2
<1>5. ASSUME NEW f \in DOMAIN res
      PROVE  res[f] \in Int /\ (f[2] = "memory" => InMebibytes(res[f]))
  <2>1. PICK k \in {"cpu", "memory"} : f[2] = k /\ (f = <<"requests", k>> \/ f = <<"limits", k>>)
    BY <1>4, <1>5 DEF Fields
  <2>. QED
    BY <1>2, <1>3, <2>1
<1>6. ASSUME NEW k \in {"cpu", "memory"}
      PROVE  Paired(res, <<"requests", k>>, <<"limits", k>>)
  <2>1. <<"requests", k>> \in DOMAIN res <=> <<"requests", k>> \in DOMAIN usage
    BY <1>2 DEF Fields
  <2>2. <<"limits", k>> \in DOMAIN res <=> <<"requests", k>> \in DOMAIN usage
    BY <1>2 DEF Fields
  <2>. QED
    BY <1>3, <2>1, <2>2 DEF Paired
<1>. QED
  BY <1>1, <1>4, <1>5, <1>6 DEF Ready, CpuReq, CpuLim, MemReq, MemLim

\* The answers of Prometheus, margins included.
LEMMA AnswersTyped ==
  ASSUME SettingsInForce, NEW m \in Monitorings
  PROVE  \A f \in DOMAIN QueryPromValues(m) : QueryPromValues(m)[f] \in Int
<1>. SUFFICES ASSUME NEW f \in Fields, Answer(m, f) # {}
              PROVE  HalfEven(The(Answer(m, f)) * (100 + cfg.margin[f]), 100) \in Int
  BY DEF QueryPromValues
<1>1. Answer(m, f) \subseteq Int
  <2>1. PICK chart \in Load(Setups[setup].source) : cfg = Effective(Setups[setup], chart)
    BY DEF SettingsInForce
  <2>2. /\ CpuRequest(m, cfg.percentile.cpu, cfg.windows["cpuRequestWindow"]) \subseteq Int
        /\ MemRequest(m, cfg.percentile.memory, cfg.windows["memRequestWindow"]) \subseteq Int
        /\ CpuMax(m, cfg.windows["cpuLimitWindow"]) \subseteq Int
        /\ MemoryMax(m, cfg.windows["memLimitWindow"]) \subseteq Int
    BY <2>1, AnswerAssumption DEF SettingsInForce
  <2>. QED
    BY <2>2, FieldParts DEF Answer
<1>2. The(Answer(m, f)) \in Int
  BY <1>1 DEF The
<1>3. cfg.margin[f] \in Int
  BY SettingsNumbered DEF NumberedSettings, Numbers
<1>. QED
  BY <1>2, <1>3, HalfEvenTyped

LEMMA ColdStartReady ==
  ASSUME NumberedSettings(cfg), NEW trap \in Int
  PROVE  Ready(ColdStart(trap))
<1>1. \A f \in Fields : Bound(cfg.min, f) \in Int
  BY BoundTyped DEF NumberedSettings
<1>2. PICK cpu \in Int : cpu = Larger(Bound(cfg.min, CpuReq), cfg.coldStartCpu)
  BY <1>1, FieldParts DEF Larger, NumberedSettings
<1>3. PICK mem \in Int : mem = Larger(Bound(cfg.min, MemReq), 1)
  BY <1>1, FieldParts DEF Larger
<1>4. PICK cpuLim \in Int : /\ cpuLim = Larger(Times(CpuLim, cpu), Larger(Bound(cfg.min, CpuLim), cpu))
                            /\ cpuLim >= cpu
  BY <1>1, TimesTyped, FieldParts DEF Larger
<1>5. PICK memLim \in Int : memLim = Larger(trap, mem) /\ mem <= memLim
  BY DEF Larger
<1>6. PICK res : res = ColdStart(trap)
  OBVIOUS
<1>7. /\ DOMAIN res = Fields
      /\ res[CpuReq] = cpu /\ res[CpuLim] = cpuLim
      /\ res[MemReq] = Quantity(MemReq, mem) /\ res[MemLim] = Quantity(MemLim, memLim)
  BY <1>2, <1>3, <1>4, <1>5, <1>6, FieldParts DEF ColdStart
<1>8. /\ Quantity(MemReq, mem) \in Int /\ InMebibytes(Quantity(MemReq, mem))
      /\ Quantity(MemLim, memLim) \in Int /\ InMebibytes(Quantity(MemLim, memLim))
      /\ Quantity(MemReq, mem) <= Quantity(MemReq, memLim)
      /\ Quantity(MemReq, memLim) = Quantity(MemLim, memLim)
  BY <1>5, QuantityTyped, QuantityMonotone, FieldParts DEF Quantity
<1>. QED
  BY <1>4, <1>6, <1>7, <1>8, FieldParts DEF Ready, Paired

\* The request that belongs to a floor on the limit.
LEMMA FloorRequest ==
  ASSUME NumberedSettings(cfg), InRange, NEW floor \in Int, floor >= MiB
  PROVE  \E req \in Int :
           /\ req = (floor * 100) \div (IF cfg.memMult = 0 THEN 100 ELSE cfg.memMult)
           /\ req > 0 /\ req <= floor
<1>1. PICK mult \in Nat \ {0} : mult = cfg.memMult /\ mult >= 100 /\ mult <= 100 * MiB
  BY ScaleAssumption DEF InRange, NumberedSettings
<1>2. PICK req \in Int, rest \in 0 .. mult - 1 :
        req = (floor * 100) \div mult /\ floor * 100 = mult * req + rest
  <2>1. PICK n \in Int : n = floor * 100
    OBVIOUS
  <2>2. n \div mult \in Int /\ n % mult \in 0 .. mult - 1 /\ n = mult * (n \div mult) + (n % mult)
    BY Division
  <2>. QED
    BY <2>1, <2>2
<1>3. req > 0
  <2>. SUFFICES ASSUME req <= 0
                PROVE  FALSE
    OBVIOUS
  <2>1. PICK e \in Nat : req = -e
    <3>1. -req \in Nat
      OBVIOUS
    <3>. QED
      BY <3>1
  <2>2. PICK p \in Nat : p = mult * e
    OBVIOUS
  <2>3. mult * req = -p
    BY <2>1, <2>2
  <2>. QED
    BY <1>1, <1>2, <2>3, ScaleAssumption
<1>4. req <= floor
  <2>1. PICK e \in Nat : mult = 100 + e
    <3>1. mult - 100 \in Nat
      BY <1>1
    <3>. QED
      BY <3>1
  <2>2. PICK p \in Nat : p = e * req
    BY <1>3
  <2>3. mult * req = 100 * req + p
    BY <2>1, <2>2
  <2>. QED
    BY <1>2, <2>3
<1>. QED
  BY <1>1, <1>2, <1>3, <1>4

LEMMA OomFloorReady ==
  ASSUME NumberedSettings(cfg), InRange, NEW res, Ready(res), NEW floor \in Int, floor >= MiB
  PROVE  Ready(ApplyOomFloor(res, floor))
<1>1. PICK req \in Int : /\ req = (floor * 100) \div (IF cfg.memMult = 0 THEN 100 ELSE cfg.memMult)
                         /\ req > 0 /\ req <= floor
  BY FloorRequest
<1>2. PICK limited : limited = Raise(res, MemLim, floor)
  OBVIOUS
<1>3. PICK done : done = Raise(limited, MemReq, req)
  OBVIOUS
<1>4. done = ApplyOomFloor(res, floor)
  BY <1>1, <1>2, <1>3, Zenon DEF ApplyOomFloor
<1>5. PICK a \in Int, b \in Int : /\ a = Quantity(MemLim, floor) /\ b = Quantity(MemReq, req) /\ b <= a
                                  /\ InMebibytes(a) /\ InMebibytes(b)
  <2>1. Quantity(MemReq, req) <= Quantity(MemReq, floor) /\ Quantity(MemReq, floor) = Quantity(MemLim, floor)
    BY <1>1, QuantityMonotone, FieldParts DEF Quantity
  <2>. QED
    BY <2>1, QuantityTyped, FieldParts
<1>6. \A v \in Int : v >= floor /\ InMebibytes(v) => v >= b
  <2>. TAKE v \in Int
  <2>. HAVE v >= floor /\ InMebibytes(v)
  <2>1. Quantity(MemReq, req) <= Quantity(MemReq, v)
    BY <1>1, QuantityMonotone
  <2>2. Quantity(MemReq, v) = v
    BY QuantityExact
  <2>. QED
    BY <1>5, <2>1, <2>2
<1>7. \A v \in Int : v <= floor /\ InMebibytes(v) => v <= a
  <2>. TAKE v \in Int
  <2>. HAVE v <= floor /\ InMebibytes(v)
  <2>. QED
    BY <1>5, QuantityMonotone, QuantityExact
<1>8. /\ DOMAIN limited = DOMAIN res \cup {MemLim}
      /\ limited[MemLim] \in Int /\ InMebibytes(limited[MemLim]) /\ limited[MemLim] >= b
      /\ MemLim \in DOMAIN res => limited[MemLim] >= res[MemLim]
      /\ \A f \in DOMAIN res : f # MemLim => limited[f] = res[f]
  <2>1. CASE floor > Get(res, MemLim)
    <3>1. limited = Put(res, MemLim, a)
      BY <1>2, <1>5, <2>1 DEF Raise
    <3>2. MemLim \in DOMAIN res => a >= res[MemLim]
      BY <1>7, <2>1, FieldParts DEF Get, Ready
    <3>. QED
      BY <1>5, <3>1, <3>2 DEF Put
  <2>2. CASE ~(floor > Get(res, MemLim))
    <3>1. MemLim \in DOMAIN res /\ res[MemLim] \in Int /\ InMebibytes(res[MemLim])
      BY <2>2, ScaleAssumption, FieldParts DEF Get, Ready
    <3>2. limited = res /\ res[MemLim] >= floor
      BY <1>2, <2>2, <3>1 DEF Raise, Get
    <3>. QED
      BY <1>6, <3>1, <3>2
  <2>. QED
    BY <2>1, <2>2
<1>9. /\ DOMAIN done = DOMAIN res \cup {MemLim, MemReq}
      /\ done[MemLim] = limited[MemLim]
      /\ done[MemReq] \in Int /\ InMebibytes(done[MemReq]) /\ done[MemReq] <= done[MemLim]
      /\ \A f \in DOMAIN res : f # MemLim /\ f # MemReq => done[f] = res[f]
  <2>1. CASE req > Get(limited, MemReq)
    <3>1. done = Put(limited, MemReq, b)
      BY <1>3, <1>5, <2>1 DEF Raise
    <3>. QED
      BY <1>5, <1>8, <3>1, FieldParts DEF Put
  <2>2. CASE ~(req > Get(limited, MemReq))
    <3>1. done = limited
      BY <1>3, <2>2 DEF Raise
    <3>2. MemReq \in DOMAIN limited
      BY <1>1, <2>2 DEF Get
    <3>3. MemReq \in DOMAIN res /\ limited[MemReq] = res[MemReq]
      BY <1>8, <3>2, FieldParts
    <3>4. MemLim \in DOMAIN res /\ res[MemReq] \in Int /\ res[MemLim] \in Int
            /\ InMebibytes(res[MemReq]) /\ res[MemLim] >= res[MemReq]
      BY <3>3, FieldParts DEF Ready, Paired
    <3>. QED
      BY <1>8, <3>1, <3>3, <3>4
  <2>. QED
    BY <2>1, <2>2
<1>. QED
  BY <1>4, <1>8, <1>9, FieldParts DEF Ready, Paired

LEMMA GrowShrinkPaired ==
  ASSUME NEW res, NEW old, NEW req, NEW lim,
         Paired(res, req, lim), Paired(old, req, lim),
         \A f \in DOMAIN res : res[f] \in Int, \A f \in DOMAIN old : old[f] \in Int
  PROVE  Paired(ApplyGrowShrink(res, old), req, lim)
<1>1. PICK done : done = ApplyGrowShrink(res, old)
  OBVIOUS
<1>2. PICK grow \in BOOLEAN, shrink \in BOOLEAN : (grow <=> cfg.growOnly) /\ (shrink <=> cfg.shrinkOnly)
  OBVIOUS
<1>3. /\ DOMAIN done = DOMAIN res
      /\ \A f \in DOMAIN res :
           done[f] = IF /\ f \in DOMAIN old
                        /\ (grow /\ res[f] < old[f]) \/ (shrink /\ res[f] > old[f])
                     THEN old[f] ELSE res[f]
  BY <1>1, <1>2 DEF ApplyGrowShrink
<1>4. CASE lim \in DOMAIN res
  BY <1>1, <1>3, <1>4 DEF Paired
<1>5. CASE lim \notin DOMAIN res
  BY <1>1, <1>3, <1>5 DEF Paired
<1>. QED
  BY <1>4, <1>5

LEMMA GrowShrinkReady ==
  ASSUME NEW res, NEW old, Ready(res), Ready(old)
  PROVE  Ready(ApplyGrowShrink(res, old))
<1>1. PICK done : done = ApplyGrowShrink(res, old)
  OBVIOUS
<1>2. /\ DOMAIN done = DOMAIN res
      /\ \A f \in DOMAIN res : done[f] = res[f] \/ (f \in DOMAIN old /\ done[f] = old[f])
  BY <1>1 DEF ApplyGrowShrink
<1>3. Paired(done, MemReq, MemLim) /\ (cfg.emitCpuLimits => Paired(done, CpuReq, CpuLim))
  BY <1>1, GrowShrinkPaired DEF Ready
<1>. QED
  BY <1>1, <1>2, <1>3 DEF Ready

\* Pairs that are both there or both not, whatever their values.
Coupled(res) ==
  /\ DOMAIN res \subseteq Fields
  /\ \A f \in DOMAIN res : res[f] \in Int
  /\ \A f \in DOMAIN res : f[2] = "memory" => InMebibytes(res[f])
  /\ MemReq \in DOMAIN res <=> MemLim \in DOMAIN res
  /\ cfg.emitCpuLimits => (CpuReq \in DOMAIN res <=> CpuLim \in DOMAIN res)

LEMMA LiftedReady ==
  ASSUME NEW res, Coupled(res)
  PROVE  Ready(LimitsLifted(res))
<1>1. PICK done : done = LimitsLifted(res)
  OBVIOUS
<1>2. /\ DOMAIN done = DOMAIN res
      /\ \A f \in DOMAIN res :
           done[f] = IF f[1] = "limits" /\ <<"requests", f[2]>> \in DOMAIN res
                     THEN Larger(res[f], res[<<"requests", f[2]>>]) ELSE res[f]
  BY <1>1 DEF LimitsLifted
<1>3. /\ MemReq \in DOMAIN res => done[MemReq] = res[MemReq]
      /\ CpuReq \in DOMAIN res => done[CpuReq] = res[CpuReq]
  BY <1>2, FieldParts
<1>4. /\ MemLim \in DOMAIN res => done[MemLim] = Larger(res[MemLim], res[MemReq])
      /\ CpuLim \in DOMAIN res =>
           done[CpuLim] = IF CpuReq \in DOMAIN res THEN Larger(res[CpuLim], res[CpuReq]) ELSE res[CpuLim]
  BY <1>2, FieldParts DEF Coupled, CpuReq, MemReq
<1>5. \A f \in DOMAIN res : done[f] \in Int /\ (f[2] = "memory" => InMebibytes(done[f]))
  BY <1>3, <1>4, FieldParts DEF Coupled, Larger
<1>. QED
  BY <1>1, <1>2, <1>3, <1>4, <1>5, FieldParts DEF Ready, Paired, Coupled, Larger

\* A value of field f that can be written.
Writable(f, v) == v \in Int /\ (f[2] = "memory" => InMebibytes(v))

LEMMA CappedWritable ==
  ASSUME NumberedSettings(cfg), NEW f \in Fields, NEW new, Writable(f, new),
         NEW base \in Int, NEW exempt
  PROVE  Writable(f, Capped(f, new, base, exempt))
<1>1. \A k \in Int : Writable(f, k * Unit(f))
  BY ScaleAssumption DEF Writable, Unit, InMebibytes
<1>2. base \div Unit(f) \in Int
  BY ScaleAssumption, Division DEF Unit
<1>3. PICK up \in Int : up = (base \div Unit(f)) * (100 + cfg.maxChange)
  BY <1>2 DEF NumberedSettings
<1>4. PICK down \in Int : down = -((base \div Unit(f)) * (100 - cfg.maxChange))
  BY <1>2 DEF NumberedSettings
<1>5. PICK upper \in Int : upper = up \div 100
  OBVIOUS
<1>6. PICK lower \in Int : lower = -(down \div 100)
  OBVIOUS
<1>7. PICK capped :
        capped = IF new > upper * Unit(f) /\ ~(exempt /\ f[2] = "memory") THEN upper * Unit(f)
                 ELSE IF new < lower * Unit(f) THEN lower * Unit(f) ELSE new
  OBVIOUS
<1>8. Writable(f, capped)
  BY <1>1, <1>7
<1>9. Writable(f, Below(f, capped))
  BY <1>8, BelowTyped DEF Writable
<1>10. Capped(f, new, base, exempt) = IF capped = new THEN new ELSE Below(f, capped)
  BY <1>3, <1>4, <1>5, <1>6, <1>7 DEF Capped
<1>. QED
  BY <1>8, <1>9, <1>10

LEMMA MaxChangeReady ==
  ASSUME NumberedSettings(cfg), NEW res, Ready(res), NEW base, \A f \in DOMAIN base : base[f] \in Int,
         NEW exempt
  PROVE  Ready(ApplyMaxChange(res, base, exempt))
<1>1. PICK capped : capped = [f \in DOMAIN res |->
                                IF Get(base, f) > 0 THEN Capped(f, res[f], base[f], exempt) ELSE res[f]]
  OBVIOUS
<1>2. \A f \in DOMAIN res : Writable(f, capped[f])
  <2>. TAKE f \in DOMAIN res
  <2>1. Writable(f, res[f]) /\ f \in Fields
    BY DEF Ready, Writable
  <2>2. CASE Get(base, f) > 0
    <3>1. base[f] \in Int
      BY <2>2 DEF Get
    <3>. QED
      BY <1>1, <2>1, <2>2, <3>1, CappedWritable
  <2>. QED
    BY <1>1, <2>1, <2>2
<1>3. Coupled(capped)
  BY <1>1, <1>2 DEF Coupled, Ready, Paired, Writable
<1>4. ApplyMaxChange(res, base, exempt) \in {res, LimitsLifted(capped)}
  BY <1>1, Zenon DEF ApplyMaxChange
<1>. QED
  BY <1>3, <1>4, LiftedReady

LEMMA FloorsReady ==
  ASSUME NumberedSettings(cfg), NEW res, Ready(res)
  PROVE  Ready(EnforceFloors(res))
<1>1. PICK floored : floored = [f \in DOMAIN res |-> Larger(res[f], Bound(cfg.min, f))]
  OBVIOUS
<1>2. \A f \in DOMAIN res : Writable(f, floored[f])
  BY <1>1, BoundTyped DEF Ready, Writable, Larger, NumberedSettings
<1>3. Coupled(floored)
  BY <1>1, <1>2 DEF Coupled, Ready, Paired, Writable
<1>4. EnforceFloors(res) \in {res, LimitsLifted(floored)}
  BY <1>1, Zenon DEF EnforceFloors
<1>. QED
  BY <1>3, <1>4, LiftedReady

LEMMA DropCovered ==
  ASSUME NEW res, Ready(res)
  PROVE  Covered(DropCpuLimit(res))
<1>1. CASE cfg.emitCpuLimits
  BY <1>1 DEF DropCpuLimit, Covered, Ready, Paired
<1>2. CASE ~cfg.emitCpuLimits
  <2>1. PICK kept : kept = Only(res, Fields \ {CpuLim})
    OBVIOUS
  <2>2. DOMAIN kept = DOMAIN res \ {CpuLim} /\ \A f \in DOMAIN kept : kept[f] = res[f]
    BY <2>1 DEF Only, Ready
  <2>3. Covered(kept)
    BY <1>2, <2>2, FieldParts DEF Covered, Ready, Paired
  <2>. QED
    BY <1>2, <2>1, <2>3 DEF DropCpuLimit
<1>. QED
  BY <1>1, <1>2

LEMMA NothingCovered == Covered(Nothing)
<1>1. DOMAIN Nothing = {}
  BY DEF Nothing
<1>. QED
  BY <1>1 DEF Covered, Ready, Paired

LEMMA PriorPositive ==
  ASSUME KillsCounted, PairsCovered, InRange
  PROVE  Positive(Prior.floor)
<1>1. Positive(NoOom.floor)
  BY DEF Positive, NoOom
<1>2. Positive(ParseOom(live).floor)
  <2>1. ParseOom(live).floor = IF live.oom.floor > 0 THEN live.oom.floor ELSE live.legacy.floor
    BY DEF ParseOom, KillsCounted, Countable, Counts, OomFields
  <2>. QED
    BY <2>1 DEF PairsCovered
<1>. QED
  BY <1>1, <1>2 DEF Prior

\* A bump aims at a limit not under the one that killed, unless the ceiling is.
LEMMA TargetPositive ==
  ASSUME SettingsInForce, KillsCounted, PairsCovered, InRange, FreshOom
  PROVE  Target \in Int /\ Target >= MiB
<1>1. NumberedSettings(cfg)
  BY SettingsNumbered
<1>2. podLimit \in Int /\ podLimit >= MiB
  <2>1. Prior.lastEvent \in Nat
    BY PriorCounts DEF Counts
  <2>2. podLimit > 0
    BY <2>1 DEF FreshOom, DetectOomEvents, TrapLimit
  <2>. QED
    BY <2>2 DEF PairsCovered, Positive
<1>3. PICK p \in Int : p = podLimit * cfg.bumpFactor /\ p >= 100 * podLimit
  <2>1. PICK e \in Nat : cfg.bumpFactor = 100 + e
    <3>1. cfg.bumpFactor - 100 \in Nat
      BY <1>1 DEF NumberedSettings, InRange
    <3>. QED
      BY <1>1, <3>1 DEF NumberedSettings
  <2>2. podLimit \in Nat
    BY <1>2, ScaleAssumption
  <2>3. PICK q \in Nat : q = podLimit * e
    BY <2>2
  <2>4. podLimit * (100 + e) = 100 * podLimit + q
    BY <2>2, <2>3
  <2>. QED
    BY <2>1, <2>2, <2>3, <2>4
<1>4. p \div 100 \in Int /\ p \div 100 >= podLimit
  BY <1>2, <1>3
<1>5. MemLim \in Fields /\ MemLim[2] = "memory"
  BY FieldParts
<1>6. Below(MemLim, p \div 100) \in Int /\ Below(MemLim, p \div 100) >= MiB
  BY <1>1, <1>2, <1>4, <1>5, BelowTyped, ScaleAssumption
<1>. QED
  BY <1>3, <1>6 DEF Target, TrapLimit

LEMMA PassesMoved ==
  ASSUME SettingsInForce, KillsCounted, PairsCovered, InRange, NEW bumped, Ready(bumped)
  PROVE  \E moved : Passes(bumped) = DropCpuLimit(EnforceFloors(moved)) /\ Ready(moved)
<1>1. NumberedSettings(cfg)
  BY SettingsNumbered
<1>2. PICK sticky : sticky = IF StickyFloor THEN ApplyOomFloor(bumped, Prior.floor) ELSE bumped
  OBVIOUS
<1>3. Ready(sticky)
  <2>1. CASE StickyFloor
    <3>1. PICK floor \in Int : floor = Prior.floor /\ floor >= MiB
      BY <2>1, PriorPositive DEF StickyFloor, Positive
    <3>. QED
      BY <1>1, <1>2, <2>1, <3>1, OomFloorReady
  <2>. QED
    BY <1>2, <2>1
<1>4. PICK policy : policy = ApplyGrowShrink(sticky, live.res)
  OBVIOUS
<1>5. Ready(policy)
  BY <1>3, <1>4, GrowShrinkReady DEF PairsCovered, Covered
<1>6. PICK base, exempt : base = Baseline /\ exempt = (Bumping \/ StickyFloor)
  OBVIOUS
<1>7. \A f \in DOMAIN base : base[f] \in Int
  BY <1>6, InputAssumption DEF Baseline, PairsCovered, Covered, Ready, IsResources
<1>8. Ready(ApplyMaxChange(policy, base, exempt))
  BY <1>1, <1>5, <1>7, MaxChangeReady
<1>9. Passes(bumped) = DropCpuLimit(EnforceFloors(ApplyMaxChange(policy, base, exempt)))
  BY <1>2, <1>4, <1>6, Zenon DEF Passes
<1>. QED
  BY <1>8, <1>9

LEMMA PassesCovered ==
  ASSUME SettingsInForce, KillsCounted, PairsCovered, InRange, NEW bumped, Ready(bumped)
  PROVE  Covered(Passes(bumped))
BY PassesMoved, FloorsReady, DropCovered, SettingsNumbered

LEMMA StartReady ==
  ASSUME SettingsInForce, PairsCovered, InRange, NEW m \in Monitorings
  PROVE  Ready(Start(m))
<1>1. PICK computed : computed = BuildContainerResources(QueryPromValues(m))
  OBVIOUS
<1>2. Ready(computed)
  BY <1>1, SettingsNumbered, AnswersTyped, BuildReady
<1>3. Ready(ColdStart(TrapLimit))
  BY SettingsNumbered, ColdStartReady DEF PairsCovered, Positive, TrapLimit
<1>4. Ready(live.res) /\ Ready(Nothing)
  BY NothingCovered DEF PairsCovered, Covered
<1>5. Start(m) \in {Nothing, live.res, ColdStart(TrapLimit), computed}
  BY <1>1, Zenon DEF Start
<1>. QED
  BY <1>2, <1>3, <1>4, <1>5

LEMMA BumpedReady ==
  ASSUME SettingsInForce, KillsCounted, PairsCovered, InRange, NEW m \in Monitorings,
         NEW bumped, bumped = IF Bumping THEN ApplyOomFloor(Start(m), Target) ELSE Start(m)
  PROVE  Ready(bumped)
<1>1. PICK start : start = Start(m) /\ Ready(start)
  BY StartReady
<1>2. CASE Bumping
  <2>1. PICK floor \in Int : floor = Target /\ floor >= MiB
    BY <1>2, TargetPositive DEF Bumping
  <2>. QED
    BY <1>1, <1>2, <2>1, OomFloorReady, SettingsNumbered
<1>. QED
  BY <1>1, <1>2

\* What a sync recommends and records.
LEMMA RecommendationCovered ==
  ASSUME SettingsInForce, KillsCounted, PairsCovered, InRange, NEW m \in Monitorings
  PROVE  Covered(Recommendation(m).res) /\ Positive(Recommendation(m).oom.floor)
<1>1. PICK start, bumped :
        /\ start = Start(m)
        /\ bumped = IF Bumping THEN ApplyOomFloor(start, Target) ELSE start
        /\ Recommendation(m).res \in {Nothing, Passes(bumped)}
  BY RecommendationParts
<1>2. Covered(Passes(bumped))
  BY <1>1, BumpedReady, PassesCovered
<1>3. ASSUME FreshOom, NEW effective \in BOOLEAN
      PROVE  Positive(Recorded(effective).floor)
  <2>1. PICK old, new \in Int : old = Prior.floor /\ new = Target /\ new >= MiB /\ Positive(old)
    BY <1>3, PriorPositive, TargetPositive DEF Positive
  <2>2. PICK top \in Int : top = Larger(old, new) /\ MiB <= top
    BY <2>1, ScaleAssumption DEF Larger, Positive
  <2>3. Quantity(MemLim, top) \in Int /\ Quantity(MemLim, MiB) <= Quantity(MemLim, top)
    BY <2>2, QuantityTyped, QuantityMonotone, ScaleAssumption
  <2>4. InMebibytes(MiB)
    <3>1. MiB = 1 * MiB
      BY ScaleAssumption
    <3>. QED
      BY <3>1 DEF InMebibytes
  <2>5. Positive(Quantity(MemLim, top))
    BY <2>3, <2>4, QuantityExact DEF Positive
  <2>6. Recorded(effective).floor \in {old, Quantity(MemLim, top)}
    BY <2>1, <2>2 DEF Recorded
  <2>. QED
    BY <2>1, <2>5, <2>6
<1>. QED
  BY <1>1, <1>2, <1>3, NothingCovered, PriorPositive, RecommendationOom

\* The part of PairsCovered about one CR.
CrCovered(cr) == Covered(cr.res) /\ Positive(cr.oom.floor) /\ Positive(cr.legacy.floor)

LEMMA NoCrCovered == CrCovered(NoCr)
BY NothingCovered DEF CrCovered, NoCr, NoOom, NoLegacy, Positive

LEMMA BaselineLimitPositive ==
  ASSUME Covered(live.res)
  PROVE  Positive(Get(Baseline, MemLim))
<1>1. CASE Listed
  <2>1. CASE MemLim \in DOMAIN live.res
    <3>1. live.res[MemLim] \in Int /\ InMebibytes(live.res[MemLim])
      BY <2>1, FieldParts DEF Covered, Ready
    <3>2. PICK k \in Int : live.res[MemLim] = k * MiB
      BY <3>1 DEF InMebibytes
    <3>3. k <= 0 => k * MiB <= 0 * MiB
      BY ScaleMonotone
    <3>4. k >= 1 => 1 * MiB <= k * MiB
      BY ScaleMonotone
    <3>5. Positive(live.res[MemLim])
      BY <3>1, <3>2, <3>3, <3>4, ScaleAssumption DEF Positive
    <3>. QED
      BY <1>1, <2>1, <3>5 DEF Baseline, Get
  <2>2. CASE MemLim \notin DOMAIN live.res
    BY <1>1, <2>2 DEF Baseline, Get, Positive
  <2>. QED
    BY <2>1, <2>2
<1>2. CASE ~Listed
  BY <1>2, TemplateAssumption, InputAssumption DEF Baseline, Get, Positive, IsResources
<1>. QED
  BY <1>1, <1>2

LEMMA OldCrCovered ==
  ASSUME NEW name \in DOMAIN Setups, Setups[name].upgraded
  PROVE  CrCovered(OldCr) /\ OldCr.oom = NoOom /\ InMebibytes(OldCr.legacy.floor)
<1>1. /\ DOMAIN Template = Fields
      /\ Template[CpuReq] <= Template[CpuLim] /\ Template[MemReq] <= Template[MemLim]
      /\ Template[MemReq] % MiB = 0 /\ Template[MemLim] % MiB = 0
      /\ \A f \in Fields : Template[f] \in Nat
  BY TemplateAssumption, InputAssumption DEF IsResources
<1>2. ASSUME NEW v \in Nat, v % MiB = 0
      PROVE  InMebibytes(v)
  <2>1. PICK q \in Int : q = v \div MiB /\ v = MiB * q
    BY <1>2, Division, ScaleAssumption
  <2>2. v = q * MiB
    BY <2>1, ScaleAssumption
  <2>. QED
    BY <2>2 DEF InMebibytes
<1>3. PICK req \in Nat, lim \in Nat :
        /\ req = Template[MemReq] /\ lim = Template[MemLim] /\ req <= lim
        /\ InMebibytes(req) /\ InMebibytes(lim)
  BY <1>1, <1>2, FieldParts
<1>4. InMebibytes(2 * lim)
  <2>1. PICK k \in Int : lim = k * MiB
    BY <1>3 DEF InMebibytes
  <2>2. 2 * lim = (2 * k) * MiB
    BY <2>1, ScaleAssumption
  <2>. QED
    BY <2>2 DEF InMebibytes
<1>5. PICK res : res = Put(Template, MemLim, 2 * lim)
  OBVIOUS
<1>6. Covered(res)
  <2>1. DOMAIN res = Fields /\ res[MemLim] = 2 * lim /\ \A f \in Fields : f # MemLim => res[f] = Template[f]
    BY <1>1, <1>5, FieldParts DEF Put
  <2>. QED
    BY <1>1, <1>3, <1>4, <2>1, FieldParts DEF Covered, Ready, Paired
<1>7. Positive(2 * lim)
  BY <1>1, <1>3, TemplateAssumption, ScaleAssumption, FieldParts DEF Positive, Get
<1>8. OldCr.res = res /\ OldCr.oom = NoOom /\ OldCr.legacy = [floor |-> 2 * lim, lastEvent |-> 1]
  <2>1. PICK legacy : legacy = [floor |-> 2 * lim, lastEvent |-> 1]
    OBVIOUS
  <2>2. OldCr = [NoCr EXCEPT !.exists = TRUE, !.res = res, !.legacy = legacy]
    BY <1>3, <1>5, <2>1, Zenon DEF OldCr
  <2>. QED
    BY <2>1, <2>2 DEF NoCr
<1>. QED
  BY <1>4, <1>6, <1>7, <1>8 DEF CrCovered, NoOom, Positive

LEMMA InitCovered == Init => PairsCovered
<1>. SUFFICES ASSUME Init
              PROVE  PairsCovered
  OBVIOUS
<1>1. CrCovered(live)
  BY NoCrCovered, OldCrCovered DEF Init
<1>2. doc = live /\ podLimit = Get(Baseline, MemLim)
  BY DEF Init
<1>3. Positive(podLimit)
  BY <1>1, <1>2, BaselineLimitPositive DEF CrCovered
<1>. QED
  BY <1>1, <1>2, <1>3 DEF PairsCovered, CrCovered

LEMMA SyncCovers ==
  ASSUME SettingsInForce, KillsCounted, PairsCovered, InRange, NEW m \in Monitorings, Sync(m)
  PROVE  CrCovered(live') /\ CrCovered(doc')
<1>1. PICK rec : rec = Recommendation(m)
  OBVIOUS
<1>2. PICK written : written = Document(rec)
  OBVIOUS
<1>3. Covered(rec.res) /\ Positive(rec.oom.floor) /\ Counts(rec.oom)
  <2>1. Counts(rec.oom)
    BY <1>1, RecommendationOom, PriorCounts, RecordedCounts
  <2>. QED
    BY <1>1, <2>1, RecommendationCovered
<1>4. /\ written.res = rec.res /\ written.legacy = NoLegacy /\ DOMAIN written = CrFields
      /\ \E mark : written.oom = [rec.oom EXCEPT !.investigation = mark]
  BY <1>2 DEF Document, CrFields
<1>5. written.oom.floor = rec.oom.floor
  BY <1>3, <1>4 DEF Counts, OomFields
<1>6. CrCovered(written)
  BY <1>3, <1>4, <1>5 DEF CrCovered, NoLegacy, Positive
<1>7. /\ doc' = written \/ doc' = NoCr \/ doc' = doc
      /\ live' = live \/ live' = [doc' EXCEPT !.legacy = live.legacy]
  BY <1>1, <1>2 DEF Sync
<1>8. CrCovered(doc')
  BY <1>6, <1>7, NoCrCovered DEF PairsCovered, CrCovered
<1>9. DOMAIN doc' = CrFields
  BY <1>4, <1>7, NoCrCounts DEF KillsCounted, Countable
<1>10. CrCovered(live')
  <2>1. CASE live' = live
    BY <2>1 DEF PairsCovered, CrCovered
  <2>2. CASE live' = [doc' EXCEPT !.legacy = live.legacy]
    <3>1. live'.res = doc'.res /\ live'.oom = doc'.oom /\ live'.legacy = live.legacy
      BY <1>9, <2>2 DEF CrFields
    <3>. QED
      BY <1>8, <3>1 DEF PairsCovered, CrCovered
  <2>. QED
    BY <1>7, <2>1, <2>2
<1>. QED
  BY <1>8, <1>10

LEMMA NextCovered ==
  ASSUME SettingsInForce, KillsCounted, PairsCovered, [Next]_vars
  PROVE  PairsCovered'
<1>1. cfg' = cfg
  BY DEF Next, vars, Sync, Reconcile, OutOfMemory, Recreate, ToggleReset, Hour
<1>2. CASE ~InRange
  BY <1>1, <1>2 DEF PairsCovered, InRange
<1>3. CASE InRange
  <2>. SUFFICES CrCovered(live') /\ CrCovered(doc') /\ Positive(podLimit')
    BY <1>1 DEF PairsCovered, CrCovered, Covered, Ready
  <2>1. CrCovered(live) /\ CrCovered(doc) /\ Positive(podLimit)
    BY <1>3 DEF PairsCovered, CrCovered
  <2>2. ASSUME NEW m \in Monitorings, Sync(m)
        PROVE  CrCovered(live') /\ CrCovered(doc') /\ Positive(podLimit')
    BY <1>3, <2>1, <2>2, SyncCovers DEF Sync
  <2>3. CASE Reconcile
    BY <2>1, <2>3 DEF Reconcile
  <2>4. CASE OutOfMemory
    <3>1. live' = Renumber(live) /\ doc' = Renumber(doc) /\ podLimit' = podLimit
      BY <2>4 DEF OutOfMemory
    <3>. QED
      BY <2>1, <3>1, RenumberAmounts DEF KillsCounted, CrCovered
  <2>5. CASE Recreate
    BY <2>1, <2>5, BaselineLimitPositive DEF Recreate, CrCovered
  <2>6. CASE ToggleReset
    BY <2>1, <2>6 DEF ToggleReset
  <2>7. CASE Hour
    <3>1. /\ \E h : live' = [live EXCEPT !.cooling = h]
          /\ \E h : doc' = [doc EXCEPT !.cooling = h]
          /\ podLimit' = podLimit
      BY <2>7 DEF Hour
    <3>2. /\ live'.res = live.res /\ live'.oom = live.oom /\ live'.legacy = live.legacy
          /\ doc'.res = doc.res /\ doc'.oom = doc.oom /\ doc'.legacy = doc.legacy
      BY <3>1 DEF KillsCounted, Countable, CrFields
    <3>. QED
      BY <2>1, <3>1, <3>2 DEF CrCovered
  <2>8. CASE UNCHANGED vars
    BY <2>1, <2>8 DEF vars
  <2>. QED
    BY <2>2, <2>3, <2>4, <2>5, <2>6, <2>7, <2>8 DEF Next
<1>. QED
  BY <1>2, <1>3

LEMMA PairsStay == Spec => []PairsCovered
<1>1. SettingsInForce /\ KillsCounted /\ PairsCovered /\ [Next]_vars => PairsCovered'
  BY NextCovered
<1>. QED
  BY InitCovered, SettingsFixed, CountsStay, <1>1, PTL DEF Spec

\* With the multipliers the chart's validation lets through, no CR ever holds a
\* limit below its request: not a bump, a floor, the policy, the change cap, a minimum or the
\* rounding, in any order and over any number of syncs, opens a gap.
\* (_build_containers_payload and its passes)
THEOREM LimitsStayAbove == Spec => [](InRange => LimitsCoverRequests)
<1>1. PairsCovered => (InRange => LimitsCoverRequests)
  <2>. SUFFICES ASSUME PairsCovered, InRange, NEW f \in DOMAIN live.res, f[1] = "limits"
                PROVE  live.res[f] >= Get(live.res, <<"requests", f[2]>>)
    BY DEF LimitsCoverRequests
  <2>1. Covered(live.res)
    BY DEF PairsCovered
  <2>2. CASE f = MemLim
    BY <2>1, <2>2, FieldParts DEF Covered, Ready, Paired, Get, MemReq
  <2>3. CASE f = CpuLim
    BY <2>1, <2>3, FieldParts DEF Covered, Get, CpuReq
  <2>. QED
    BY <2>1, <2>2, <2>3, FieldParts DEF Covered, Ready
<1>. QED
  BY <1>1, PairsStay, PTL

-----------------------------------------------------------------------------
(* Floors are in force.                                                    *)

\* A recorded floor is a limit that can be written, not above the ceiling, and
\* in force where it is recorded.
FloorHeld(cr) ==
  /\ cr.legacy.floor = 0
  /\ InMebibytes(cr.oom.floor)
  /\ cfg.max[MemLim] > 0 => cr.oom.floor <= Bound(cfg.max, MemLim)
  /\ cfg.floorEnabled /\ cr.res # Nothing => Get(cr.res, MemLim) >= cr.oom.floor

\* Nothing was left by an older release (its lists stay in the live CR in direct
\* mode: after a reset their floor is there again, above what was written since),
\* and no minimum is below zero.
FromScratch == InRange /\ cfg.min[MemLim] >= 0 /\ ~Setups[setup].upgraded
FloorsHeld == FromScratch => FloorHeld(live) /\ FloorHeld(doc)

LEMMA QuantityHolds ==
  ASSUME NEW f, NEW a \in Int, NEW v \in Int
  PROVE  /\ f[2] = "memory" /\ a <= v /\ InMebibytes(a) => a <= Quantity(f, v)
         /\ f[2] = "memory" /\ v <= a /\ InMebibytes(a) => Quantity(f, v) <= a
BY QuantityMonotone, QuantityExact

\* A floor brings the limit to it, and never down.
LEMMA LimitRaised ==
  ASSUME NEW res, Ready(res), NEW floor \in Int, floor > 0
  PROVE  LET done == ApplyOomFloor(res, floor) IN
         /\ MemLim \in DOMAIN done /\ done[MemLim] \in Int /\ done[MemLim] >= Quantity(MemLim, floor)
         /\ MemLim \in DOMAIN res => done[MemLim] >= res[MemLim]
<1>1. PICK a \in Int : a = Quantity(MemLim, floor)
  BY QuantityTyped
<1>2. PICK limited : limited = Raise(res, MemLim, floor)
  OBVIOUS
<1>3. PICK done : done = ApplyOomFloor(res, floor)
  OBVIOUS
<1>4. \E req : done = Raise(limited, MemReq, req)
  BY <1>2, <1>3, Zenon DEF ApplyOomFloor
<1>5. MemLim \in DOMAIN limited => MemLim \in DOMAIN done /\ done[MemLim] = limited[MemLim]
  BY <1>4, FieldParts DEF Raise, Put
<1>6. CASE floor > Get(res, MemLim)
  <2>1. limited = Put(res, MemLim, a)
    BY <1>1, <1>2, <1>6 DEF Raise
  <2>2. MemLim \in DOMAIN limited /\ limited[MemLim] = a
    BY <2>1 DEF Put
  <2>3. MemLim \in DOMAIN res => res[MemLim] <= a
    BY <1>1, <1>6, QuantityHolds, FieldParts DEF Get, Ready
  <2>. QED
    BY <1>1, <1>3, <1>5, <2>2, <2>3
<1>7. CASE ~(floor > Get(res, MemLim))
  <2>1. MemLim \in DOMAIN res /\ res[MemLim] \in Int /\ InMebibytes(res[MemLim])
    BY <1>7, FieldParts DEF Get, Ready
  <2>2. limited = res /\ res[MemLim] >= floor
    BY <1>2, <1>7, <2>1 DEF Raise, Get
  <2>3. a <= res[MemLim]
    BY <1>1, <2>1, <2>2, QuantityHolds, FieldParts
  <2>. QED
    BY <1>1, <1>3, <1>5, <2>1, <2>2, <2>3
<1>. QED
  BY <1>6, <1>7

\* Lifting lifts.
LEMMA LiftedHolds ==
  ASSUME NEW res, NEW b \in Int, MemLim \in DOMAIN res, res[MemLim] >= b,
         \A f \in DOMAIN res : res[f] \in Int
  PROVE  MemLim \in DOMAIN LimitsLifted(res) /\ LimitsLifted(res)[MemLim] >= b
<1>1. MemReq = <<"requests", MemLim[2]>> /\ MemLim[1] = "limits"
  BY FieldParts DEF MemReq
<1>2. PICK done : done = LimitsLifted(res)
  OBVIOUS
<1>3. /\ DOMAIN done = DOMAIN res
      /\ done[MemLim] = IF MemReq \in DOMAIN res THEN Larger(res[MemLim], res[MemReq]) ELSE res[MemLim]
  BY <1>1, <1>2 DEF LimitsLifted
<1>. QED
  BY <1>2, <1>3 DEF Larger

\* The change cap leaves an exempt limit up to the ceiling.
LEMMA CappedHolds ==
  ASSUME NumberedSettings(cfg), NEW new \in Int, NEW base \in Int, NEW exempt, exempt,
         NEW b \in Int, new >= b, cfg.max[MemLim] > 0 => b <= Bound(cfg.max, MemLim)
  PROVE  Capped(MemLim, new, base, exempt) >= b
<1>1. MemLim \in Fields /\ MemLim[2] = "memory"
  BY FieldParts
<1>2. PICK lower : lower = -((-((base \div Unit(MemLim)) * (100 - cfg.maxChange))) \div 100)
  OBVIOUS
<1>3. lower * Unit(MemLim) \in Int
  <2>1. Unit(MemLim) \in Nat \ {0}
    BY ScaleAssumption DEF Unit
  <2>2. base \div Unit(MemLim) \in Int
    BY <2>1, Division
  <2>3. PICK down \in Int : down = -((base \div Unit(MemLim)) * (100 - cfg.maxChange))
    BY <2>2 DEF NumberedSettings
  <2>. QED
    BY <1>2, <2>1, <2>3
<1>4. PICK capped \in Int : capped = IF new < lower * Unit(MemLim) THEN lower * Unit(MemLim) ELSE new
  BY <1>3
<1>5. capped >= b
  BY <1>3, <1>4
<1>6. Below(MemLim, capped) >= b
  <2>1. Bound(cfg.max, MemLim) \in Int
    BY <1>1, BoundTyped DEF NumberedSettings
  <2>. QED
    BY <1>5, <2>1 DEF Below, Smaller
<1>7. Capped(MemLim, new, base, exempt) = IF capped = new THEN new ELSE Below(MemLim, capped)
  BY <1>1, <1>2, <1>4 DEF Capped
<1>. QED
  BY <1>6, <1>7

\* What the passes after a bump or a floor leave of the limit: not less than was
\* there, nor less than the live CR has when it may only shrink, up to the ceiling.
LEMMA PassesHold ==
  ASSUME SettingsInForce, KillsCounted, PairsCovered, InRange,
         NEW bumped, Ready(bumped), NEW b \in Int,
         cfg.max[MemLim] > 0 => b <= Bound(cfg.max, MemLim),
         Bumping \/ StickyFloor,
         \/ MemLim \in DOMAIN bumped /\ bumped[MemLim] >= b
         \/ StickyFloor /\ InMebibytes(b) /\ Prior.floor >= b,
         cfg.shrinkOnly /\ MemLim \in DOMAIN live.res => live.res[MemLim] >= b
  PROVE  LET done == Passes(bumped) IN MemLim \in DOMAIN done /\ done[MemLim] >= b
<1>1. NumberedSettings(cfg) /\ MemLim \in Fields /\ MemLim[2] = "memory" /\ MemLim[1] = "limits"
  BY SettingsNumbered, FieldParts
<1>2. PICK sticky : sticky = IF StickyFloor THEN ApplyOomFloor(bumped, Prior.floor) ELSE bumped
  OBVIOUS
<1>3. Ready(sticky) /\ MemLim \in DOMAIN sticky /\ sticky[MemLim] \in Int /\ sticky[MemLim] >= b
  <2>1. CASE StickyFloor
    <3>1. PICK floor \in Int : floor = Prior.floor /\ floor >= MiB /\ floor > 0
      BY <2>1, PriorPositive DEF StickyFloor, Positive
    <3>2. Ready(sticky)
      BY <1>1, <1>2, <2>1, <3>1, OomFloorReady
    <3>3. /\ MemLim \in DOMAIN sticky /\ sticky[MemLim] \in Int
          /\ sticky[MemLim] >= Quantity(MemLim, floor)
          /\ MemLim \in DOMAIN bumped => sticky[MemLim] >= bumped[MemLim]
      BY <1>2, <2>1, <3>1, LimitRaised
    <3>4. InMebibytes(b) /\ floor >= b => Quantity(MemLim, floor) >= b
      BY <1>1, QuantityHolds
    <3>5. Quantity(MemLim, floor) \in Int /\ \A f \in DOMAIN bumped : bumped[f] \in Int
      BY QuantityTyped DEF Ready
    <3>. QED
      BY <3>1, <3>2, <3>3, <3>4, <3>5
  <2>2. CASE ~StickyFloor
    BY <1>2, <2>2 DEF Ready
  <2>. QED
    BY <2>1, <2>2
<1>4. PICK policy : policy = ApplyGrowShrink(sticky, live.res)
  OBVIOUS
<1>5. Ready(live.res)
  BY DEF PairsCovered, Covered
<1>6. Ready(policy) /\ MemLim \in DOMAIN policy /\ policy[MemLim] \in Int /\ policy[MemLim] >= b
  <2>1. Ready(policy)
    BY <1>3, <1>4, <1>5, GrowShrinkReady
  <2>2. /\ DOMAIN policy = DOMAIN sticky
        /\ policy[MemLim] =
             IF /\ MemLim \in DOMAIN live.res
                /\ \/ cfg.growOnly /\ sticky[MemLim] < live.res[MemLim]
                   \/ cfg.shrinkOnly /\ sticky[MemLim] > live.res[MemLim]
             THEN live.res[MemLim] ELSE sticky[MemLim]
    BY <1>3, <1>4 DEF ApplyGrowShrink
  <2>3. MemLim \in DOMAIN live.res => live.res[MemLim] \in Int
    BY <1>5 DEF Ready
  <2>. QED
    BY <1>3, <2>1, <2>2, <2>3
<1>7. PICK base, exempt : base = Baseline /\ exempt = (Bumping \/ StickyFloor)
  OBVIOUS
<1>8. \A f \in DOMAIN base : base[f] \in Int
  BY <1>7, InputAssumption DEF Baseline, PairsCovered, Covered, Ready, IsResources
<1>9. PICK moved : moved = ApplyMaxChange(policy, base, exempt)
  OBVIOUS
<1>10. Ready(moved)
  BY <1>1, <1>6, <1>8, <1>9, MaxChangeReady
<1>11. MemLim \in DOMAIN moved /\ moved[MemLim] >= b
  <2>1. PICK capped : capped = [f \in DOMAIN policy |->
                        IF Get(base, f) > 0 THEN Capped(f, policy[f], base[f], exempt) ELSE policy[f]]
    OBVIOUS
  <2>2. moved \in {policy, LimitsLifted(capped)}
    BY <1>9, <2>1, Zenon DEF ApplyMaxChange
  <2>3. capped[MemLim] >= b
    <3>1. CASE Get(base, MemLim) > 0
      <4>1. base[MemLim] \in Int
        BY <1>8, <3>1 DEF Get
      <4>2. Capped(MemLim, policy[MemLim], base[MemLim], exempt) >= b
        BY <1>1, <1>6, <1>7, <4>1, CappedHolds
      <4>. QED
        BY <1>6, <2>1, <3>1, <4>2
    <3>. QED
      BY <1>6, <2>1, <3>1
  <2>4. \A f \in DOMAIN policy : capped[f] \in Int
    <3>. TAKE f \in DOMAIN policy
    <3>1. f \in Fields /\ Writable(f, policy[f]) /\ policy[f] \in Int
      BY <1>6 DEF Ready, Writable
    <3>2. CASE Get(base, f) > 0
      <4>1. base[f] \in Int
        BY <1>8, <3>2 DEF Get
      <4>2. Writable(f, Capped(f, policy[f], base[f], exempt))
        BY <1>1, <3>1, <4>1, CappedWritable
      <4>. QED
        BY <2>1, <3>2, <4>2 DEF Writable
    <3>. QED
      BY <2>1, <3>1, <3>2
  <2>5. MemLim \in DOMAIN LimitsLifted(capped) /\ LimitsLifted(capped)[MemLim] >= b
    BY <1>6, <2>1, <2>3, <2>4, LiftedHolds
  <2>. QED
    BY <1>6, <2>2, <2>5
<1>12. PICK done : done = EnforceFloors(moved)
  OBVIOUS
<1>13. MemLim \in DOMAIN done /\ done[MemLim] >= b
  <2>1. PICK floored : floored = [f \in DOMAIN moved |-> Larger(moved[f], Bound(cfg.min, f))]
    OBVIOUS
  <2>2. done \in {moved, LimitsLifted(floored)}
    BY <1>12, <2>1, Zenon DEF EnforceFloors
  <2>3. /\ MemLim \in DOMAIN floored /\ floored[MemLim] >= b
        /\ \A f \in DOMAIN floored : floored[f] \in Int
    <3>1. \A f \in DOMAIN moved : moved[f] \in Int /\ Bound(cfg.min, f) \in Int
      BY <1>1, <1>10, BoundTyped DEF Ready, NumberedSettings
    <3>. QED
      BY <1>11, <2>1, <3>1 DEF Larger
  <2>4. MemLim \in DOMAIN LimitsLifted(floored) /\ LimitsLifted(floored)[MemLim] >= b
    BY <2>3, LiftedHolds
  <2>. QED
    BY <1>11, <2>2, <2>4
<1>14. MemLim \in DOMAIN DropCpuLimit(done) /\ DropCpuLimit(done)[MemLim] = done[MemLim]
  BY <1>13, FieldParts DEF DropCpuLimit, Only
<1>15. Passes(bumped) = DropCpuLimit(done)
  BY <1>2, <1>4, <1>7, <1>9, <1>12, Zenon DEF Passes
<1>. QED
  BY <1>13, <1>14, <1>15

\* Whatever the passes did, the minima hold.
LEMMA PassesAboveMinima ==
  ASSUME SettingsInForce, KillsCounted, PairsCovered, InRange, NEW bumped, Ready(bumped),
         NEW final, final = Passes(bumped), NEW f \in DOMAIN final
  PROVE  final[f] >= Bound(cfg.min, f)
<1>1. PICK moved : final = DropCpuLimit(EnforceFloors(moved)) /\ Ready(moved)
  BY PassesMoved
<1>2. \A g \in DOMAIN moved : moved[g] \in Int /\ Bound(cfg.min, g) \in Int
  BY <1>1, SettingsNumbered, BoundTyped DEF Ready, NumberedSettings
<1>3. PICK floored : floored = [g \in DOMAIN moved |-> Larger(moved[g], Bound(cfg.min, g))]
  OBVIOUS
<1>4. PICK done : done = EnforceFloors(moved)
  OBVIOUS
<1>5. done = (IF floored = moved THEN moved ELSE LimitsLifted(floored))
  BY <1>3, <1>4, Zenon DEF EnforceFloors
<1>6. DOMAIN done = DOMAIN moved
  BY <1>3, <1>5 DEF LimitsLifted
<1>7. f \in DOMAIN moved /\ final[f] = done[f]
  BY <1>1, <1>4, <1>6 DEF DropCpuLimit, Only
<1>8. /\ DOMAIN floored = DOMAIN moved
      /\ \A g \in DOMAIN moved : floored[g] \in Int /\ floored[g] >= Bound(cfg.min, g)
  BY <1>2, <1>3 DEF Larger
<1>9. CASE floored = moved
  BY <1>5, <1>7, <1>8, <1>9
<1>10. CASE floored # moved
  <2>1. done[f] = IF f[1] = "limits" /\ <<"requests", f[2]>> \in DOMAIN moved
                  THEN Larger(floored[f], floored[<<"requests", f[2]>>]) ELSE floored[f]
    BY <1>5, <1>7, <1>8, <1>10 DEF LimitsLifted
  <2>. QED
    BY <1>2, <1>7, <1>8, <2>1 DEF Larger
<1>. QED
  BY <1>9, <1>10

\* No floor is a floor that holds.
LEMMA ZeroHeld ==
  ASSUME SettingsInForce
  PROVE  (cfg.max[MemLim] > 0 => Bound(cfg.max, MemLim) >= 0) /\ InMebibytes(0)
<1>1. cfg.max[MemLim] > 0 => Bound(cfg.max, MemLim) >= 0
  <2>1. PICK k \in Int : k = cfg.max[MemLim]
    BY SettingsNumbered, FieldParts DEF NumberedSettings, Numbers
  <2>2. k > 0 => k * MiB \in Nat
    BY ScaleAssumption
  <2>. QED
    BY <2>1, <2>2, FieldParts DEF Bound
<1>2. InMebibytes(0)
  <2>1. 0 = 0 * MiB
    BY ScaleAssumption
  <2>. QED
    BY <2>1 DEF InMebibytes
<1>. QED
  BY <1>1, <1>2

\* What is known of earlier kills has a floor the live CR holds.
LEMMA PriorHeld ==
  ASSUME SettingsInForce, KillsCounted, PairsCovered, FloorsHeld, FromScratch
  PROVE  \E p \in Int : /\ p = Prior.floor /\ InMebibytes(p)
                        /\ cfg.max[MemLim] > 0 => p <= Bound(cfg.max, MemLim)
                        /\ p > 0 => p = live.oom.floor
<1>1. (cfg.max[MemLim] > 0 => Bound(cfg.max, MemLim) >= 0) /\ InMebibytes(0)
  BY ZeroHeld
<1>2. Prior.floor = 0 \/ Prior.floor = ParseOom(live).floor
  BY DEF Prior, NoOom
<1>3. ParseOom(live).floor = IF live.oom.floor > 0 THEN live.oom.floor ELSE live.legacy.floor
  BY DEF ParseOom, KillsCounted, Countable, Counts, OomFields
<1>4. FloorHeld(live) /\ live.oom.floor \in Int
  BY MebibytesAreInt DEF FloorsHeld, FloorHeld
<1>5. CASE Prior.floor = 0
  BY <1>1, <1>5
<1>6. CASE Prior.floor # 0
  <2>1. Prior.floor = live.oom.floor
    BY <1>2, <1>3, <1>4, <1>6 DEF FloorHeld
  <2>. QED
    BY <1>4, <2>1 DEF FloorHeld
<1>. QED
  BY <1>5, <1>6

\* The limit a sync recommends is not under a floor that was in force before.
LEMMA FloorCarried ==
  ASSUME SettingsInForce, KillsCounted, PairsCovered, FloorsHeld, FromScratch, cfg.floorEnabled,
         NEW bumped, Ready(bumped)
  PROVE  Get(Passes(bumped), MemLim) >= Prior.floor
<1>1. InRange /\ cfg.min[MemLim] >= 0
  BY DEF FromScratch
<1>2. PICK p \in Int : /\ p = Prior.floor /\ InMebibytes(p)
                       /\ cfg.max[MemLim] > 0 => p <= Bound(cfg.max, MemLim)
                       /\ p > 0 => p = live.oom.floor
  BY PriorHeld
<1>3. CASE p > 0
  <2>1. StickyFloor
    BY <1>2, <1>3 DEF StickyFloor
  <2>2. MemLim \in DOMAIN live.res => live.res[MemLim] >= p
    <3>1. DOMAIN Nothing = {}
      BY DEF Nothing
    <3>. QED
      BY <1>2, <1>3, <3>1 DEF FloorsHeld, FloorHeld, Get
  <2>3. MemLim \in DOMAIN Passes(bumped) /\ Passes(bumped)[MemLim] >= p
    BY <1>1, <1>2, <2>1, <2>2, PassesHold
  <2>. QED
    BY <1>2, <2>3 DEF Get
<1>4. CASE ~(p > 0)
  <2>1. Bound(cfg.min, MemLim) \in Nat
    <3>1. PICK k \in Nat : k = cfg.min[MemLim]
      BY <1>1, SettingsNumbered, FieldParts DEF NumberedSettings, Numbers
    <3>2. k * MiB \in Nat
      BY ScaleAssumption
    <3>. QED
      BY <3>1, <3>2, FieldParts DEF Bound
  <2>2. MemLim \in DOMAIN Passes(bumped) =>
          Passes(bumped)[MemLim] >= Bound(cfg.min, MemLim) /\ Passes(bumped)[MemLim] \in Int
    BY <1>1, PassesAboveMinima, PassesCovered DEF Covered, Ready
  <2>. QED
    BY <1>2, <1>4, <2>1, <2>2 DEF Get
<1>. QED
  BY <1>3, <1>4

\* A recorded floor is held by the recommendation that records it.
RecommendationHeld(rec) ==
  /\ InMebibytes(rec.oom.floor)
  /\ cfg.max[MemLim] > 0 => rec.oom.floor <= Bound(cfg.max, MemLim)
  /\ cfg.floorEnabled /\ rec.res # Nothing => Get(rec.res, MemLim) >= rec.oom.floor

LEMMA RecommendationFloor ==
  ASSUME SettingsInForce, KillsCounted, PairsCovered, FloorsHeld, FromScratch, NEW m \in Monitorings
  PROVE  RecommendationHeld(Recommendation(m))
<1>1. InRange
  BY DEF FromScratch
<1>2. PICK p \in Int : /\ p = Prior.floor /\ InMebibytes(p)
                       /\ cfg.max[MemLim] > 0 => p <= Bound(cfg.max, MemLim)
  BY PriorHeld
<1>3. PICK start, bumped, final : \E effective \in BOOLEAN :
           /\ start = Start(m)
           /\ bumped = IF Bumping THEN ApplyOomFloor(start, Target) ELSE start
           /\ final = Passes(bumped)
           /\ effective <=> /\ Bumping
                            /\ Get(final, MemLim) >= Get(bumped, MemLim)
                            /\ Get(final, MemLim) > Get(start, MemLim)
           /\ Recommendation(m) =
                IF start = Nothing THEN [res |-> Nothing, oom |-> Prior]
                ELSE [res |-> final, oom |-> IF FreshOom THEN Recorded(effective) ELSE Prior]
  BY RecommendationParts
<1>4. PICK effective \in BOOLEAN :
        /\ effective <=> /\ Bumping
                         /\ Get(final, MemLim) >= Get(bumped, MemLim)
                         /\ Get(final, MemLim) > Get(start, MemLim)
        /\ Recommendation(m) =
             IF start = Nothing THEN [res |-> Nothing, oom |-> Prior]
             ELSE [res |-> final, oom |-> IF FreshOom THEN Recorded(effective) ELSE Prior]
  BY <1>3
<1>5. Ready(bumped)
  BY <1>1, <1>3, BumpedReady
<1>6. cfg.floorEnabled => Get(final, MemLim) >= p
  BY <1>2, <1>3, <1>5, FloorCarried
<1>7. CASE Recommendation(m).oom.floor = p
  BY <1>2, <1>4, <1>6, <1>7 DEF RecommendationHeld
<1>8. CASE FreshOom /\ effective /\ cfg.floorEnabled /\ start # Nothing
  <2>1. PICK target \in Int : target = Target /\ target >= MiB
    BY <1>1, <1>8, TargetPositive
  <2>2. cfg.max[MemLim] > 0 => target <= Bound(cfg.max, MemLim)
    <3>1. PICK aim \in Int : aim = (TrapLimit * cfg.bumpFactor) \div 100
      <4>1. TrapLimit \in Int /\ cfg.bumpFactor \in Int
        BY <1>1, SettingsNumbered DEF TrapLimit, PairsCovered, Positive, NumberedSettings
      <4>. QED
        BY <4>1
    <3>2. Bound(cfg.max, MemLim) \in Int
      BY BoundTyped, SettingsNumbered, FieldParts DEF NumberedSettings
    <3>. QED
      BY <2>1, <3>1, <3>2 DEF Target, Below, Smaller
  <2>3. PICK top \in Int : /\ top = Larger(p, target) /\ (top = p \/ top = target)
                           /\ cfg.max[MemLim] > 0 => top <= Bound(cfg.max, MemLim)
    BY <1>2, <2>2 DEF Larger
  <2>4. PICK floor \in Int : floor = Quantity(MemLim, top) /\ InMebibytes(floor)
    BY QuantityTyped, FieldParts
  <2>5. cfg.max[MemLim] > 0 => floor <= Bound(cfg.max, MemLim)
    BY <2>3, <2>4, QuantityHolds, BoundTyped, SettingsNumbered, FieldParts DEF NumberedSettings
  <2>6. Get(final, MemLim) >= floor
    <3>1. bumped = ApplyOomFloor(start, target) /\ Ready(start)
      BY <1>1, <1>3, <1>4, <1>8, <2>1, StartReady
    <3>2. Get(bumped, MemLim) >= Quantity(MemLim, target) /\ Get(bumped, MemLim) \in Int
      BY <2>1, <3>1, LimitRaised, ScaleAssumption DEF Get
    <3>3. Get(final, MemLim) >= Get(bumped, MemLim) /\ Get(final, MemLim) \in Int
      <4>1. Covered(final)
        BY <1>1, <1>3, <1>5, PassesCovered
      <4>. QED
        BY <1>4, <1>8, <4>1 DEF Get, Covered, Ready
    <3>4. Quantity(MemLim, p) = p /\ Quantity(MemLim, target) \in Int
      BY <1>2, QuantityExact, QuantityTyped
    <3>. QED
      BY <1>6, <1>8, <2>3, <2>4, <3>2, <3>3, <3>4
  <2>7. Recommendation(m).res = final /\ Recommendation(m).oom.floor = floor
    BY <1>2, <1>4, <1>8, <2>1, <2>3, <2>4 DEF Recorded
  <2>. QED
    BY <2>4, <2>5, <2>6, <2>7 DEF RecommendationHeld
<1>9. CASE ~(FreshOom /\ effective /\ cfg.floorEnabled /\ start # Nothing)
  <2>1. Recommendation(m).oom.floor = p
    BY <1>2, <1>4, <1>9 DEF Recorded
  <2>. QED
    BY <1>7, <2>1
<1>. QED
  BY <1>8, <1>9

LEMMA NoCrHeld == SettingsInForce => FloorHeld(NoCr)
BY ZeroHeld DEF FloorHeld, NoCr, NoOom, NoLegacy

LEMMA SyncHolds ==
  ASSUME SettingsInForce, KillsCounted, PairsCovered, FloorsHeld, FromScratch,
         NEW m \in Monitorings, Sync(m)
  PROVE  FloorHeld(live') /\ FloorHeld(doc')
<1>1. PICK rec : rec = Recommendation(m)
  OBVIOUS
<1>2. PICK written : written = Document(rec)
  OBVIOUS
<1>3. RecommendationHeld(rec) /\ Counts(rec.oom)
  <2>1. Counts(rec.oom)
    BY <1>1, RecommendationOom, PriorCounts, RecordedCounts
  <2>. QED
    BY <1>1, <2>1, RecommendationFloor
<1>4. /\ written.res = rec.res /\ written.legacy = NoLegacy /\ DOMAIN written = CrFields
      /\ \E mark : written.oom = [rec.oom EXCEPT !.investigation = mark]
  BY <1>2 DEF Document, CrFields
<1>5. written.oom.floor = rec.oom.floor
  BY <1>3, <1>4 DEF Counts, OomFields
<1>6. FloorHeld(written)
  BY <1>3, <1>4, <1>5 DEF FloorHeld, RecommendationHeld, NoLegacy
<1>7. /\ doc' = written \/ doc' = NoCr \/ doc' = doc
      /\ live' = live \/ live' = [doc' EXCEPT !.legacy = live.legacy]
  BY <1>1, <1>2 DEF Sync
<1>8. FloorHeld(doc')
  BY <1>6, <1>7, NoCrHeld DEF FloorsHeld
<1>9. DOMAIN doc' = CrFields
  BY <1>4, <1>7, NoCrCounts DEF KillsCounted, Countable
<1>10. FloorHeld(live')
  <2>1. CASE live' = live
    BY <2>1 DEF FloorsHeld
  <2>2. CASE live' = [doc' EXCEPT !.legacy = live.legacy]
    <3>1. live'.res = doc'.res /\ live'.oom = doc'.oom /\ live'.legacy = live.legacy
      BY <1>9, <2>2 DEF CrFields
    <3>. QED
      BY <1>8, <3>1 DEF FloorsHeld, FloorHeld
  <2>. QED
    BY <1>7, <2>1, <2>2
<1>. QED
  BY <1>8, <1>10

LEMMA NextHolds ==
  ASSUME SettingsInForce, KillsCounted, PairsCovered, FloorsHeld, [Next]_vars
  PROVE  FloorsHeld'
<1>1. cfg' = cfg /\ setup' = setup
  BY DEF Next, vars, Sync, Reconcile, OutOfMemory, Recreate, ToggleReset, Hour
<1>2. CASE ~FromScratch
  BY <1>1, <1>2 DEF FloorsHeld, FromScratch, InRange
<1>3. CASE FromScratch
  <2>. SUFFICES FloorHeld(live') /\ FloorHeld(doc')
    BY <1>1 DEF FloorsHeld, FloorHeld
  <2>1. FloorHeld(live) /\ FloorHeld(doc)
    BY <1>3 DEF FloorsHeld
  <2>2. ASSUME NEW m \in Monitorings, Sync(m)
        PROVE  FloorHeld(live') /\ FloorHeld(doc')
    BY <1>3, <2>2, SyncHolds
  <2>3. CASE Reconcile
    BY <2>1, <2>3 DEF Reconcile
  <2>4. CASE OutOfMemory
    <3>1. live' = Renumber(live) /\ doc' = Renumber(doc)
      BY <2>4 DEF OutOfMemory
    <3>. QED
      BY <2>1, <3>1, RenumberAmounts DEF KillsCounted, FloorHeld
  <2>5. CASE Recreate
    BY <2>1, <2>5 DEF Recreate
  <2>6. CASE ToggleReset
    BY <2>1, <2>6 DEF ToggleReset
  <2>7. CASE Hour
    <3>1. /\ \E h : live' = [live EXCEPT !.cooling = h]
          /\ \E h : doc' = [doc EXCEPT !.cooling = h]
      BY <2>7 DEF Hour
    <3>2. /\ live'.res = live.res /\ live'.oom = live.oom /\ live'.legacy = live.legacy
          /\ doc'.res = doc.res /\ doc'.oom = doc.oom /\ doc'.legacy = doc.legacy
      BY <3>1 DEF KillsCounted, Countable, CrFields
    <3>. QED
      BY <2>1, <3>2 DEF FloorHeld
  <2>8. CASE UNCHANGED vars
    BY <2>1, <2>8 DEF vars
  <2>. QED
    BY <2>2, <2>3, <2>4, <2>5, <2>6, <2>7, <2>8 DEF Next
<1>. QED
  BY <1>2, <1>3

LEMMA FloorsStay == Spec => []FloorsHeld
<1>1. Init => FloorsHeld
  <2>. SUFFICES ASSUME Init, FromScratch
                PROVE  FloorHeld(live) /\ FloorHeld(doc)
    BY DEF FloorsHeld
  <2>1. SettingsInForce
    BY DEF Init, SettingsInForce
  <2>2. live = NoCr /\ doc = NoCr
    BY DEF Init, FromScratch
  <2>. QED
    BY <2>1, <2>2, NoCrHeld
<1>2. SettingsInForce /\ KillsCounted /\ PairsCovered /\ FloorsHeld /\ [Next]_vars => FloorsHeld'
  BY NextHolds
<1>. QED
  BY SettingsFixed, CountsStay, PairsStay, <1>1, <1>2, PTL DEF Spec

\* Where no older release has been, the live CR holds the floor recorded in it:
\* through holds, cooldowns, shrinkOnly, the change cap and ceilings, over any number of
\* kills and syncs. (_apply_oom_floor: "Recommendation never drops below that")
THEOREM FloorStaysInForce == Spec => [](FromScratch => FloorInForce)
<1>1. FloorsHeld => (FromScratch => FloorInForce)
  BY DEF FloorsHeld, FloorHeld, FloorInForce, Listed
<1>. QED
  BY <1>1, FloorsStay, PTL

-----------------------------------------------------------------------------
(* Floors survive.                                                         *)

\* Every floor on record can be written as it is.  (Rounding a floor that
\* cannot would lower it when it is recorded again.)
FloorsAreWhole(cr) == InMebibytes(cr.oom.floor) /\ InMebibytes(cr.legacy.floor)
FloorsWhole == InRange => FloorsAreWhole(live) /\ FloorsAreWhole(doc)

LEMMA NoCrWhole == SettingsInForce => FloorsAreWhole(NoCr)
BY ZeroHeld DEF FloorsAreWhole, NoCr, NoOom, NoLegacy

LEMMA PriorWhole ==
  ASSUME SettingsInForce, KillsCounted, FloorsWhole, InRange
  PROVE  Prior.floor \in Int /\ InMebibytes(Prior.floor)
<1>1. InMebibytes(0)
  BY ZeroHeld
<1>2. ParseOom(live).floor = IF live.oom.floor > 0 THEN live.oom.floor ELSE live.legacy.floor
  BY DEF ParseOom, KillsCounted, Countable, Counts, OomFields
<1>3. InMebibytes(Prior.floor)
  BY <1>1, <1>2 DEF Prior, NoOom, FloorsWhole, FloorsAreWhole
<1>. QED
  BY <1>3, MebibytesAreInt

\* What a sync records is whole, and not below what it knows of earlier kills.
LEMMA RecommendationKeeps ==
  ASSUME SettingsInForce, KillsCounted, PairsCovered, FloorsWhole, InRange, NEW m
  PROVE  /\ Counts(Recommendation(m).oom) /\ InMebibytes(Recommendation(m).oom.floor)
         /\ Recommendation(m).oom.floor >= Prior.floor
<1>1. PICK p \in Int : p = Prior.floor /\ InMebibytes(p)
  BY PriorWhole
<1>2. CASE Recommendation(m).oom = Prior
  BY <1>1, <1>2, PriorCounts
<1>3. ASSUME FreshOom, NEW effective \in BOOLEAN, Recommendation(m).oom = Recorded(effective)
      PROVE  /\ Counts(Recommendation(m).oom) /\ InMebibytes(Recommendation(m).oom.floor)
             /\ Recommendation(m).oom.floor >= Prior.floor
  <2>1. PICK target \in Int : target = Target
    BY <1>3, TargetPositive
  <2>2. PICK top \in Int : top = Larger(p, target) /\ p <= top
    BY DEF Larger
  <2>3. PICK floor \in Int : floor = Quantity(MemLim, top) /\ InMebibytes(floor) /\ p <= floor
    BY <1>1, <2>2, QuantityTyped, QuantityHolds, FieldParts
  <2>4. Recorded(effective).floor \in {p, floor}
    BY <1>1, <2>1, <2>2, <2>3 DEF Recorded
  <2>. QED
    BY <1>1, <1>3, <2>3, <2>4, RecordedCounts
<1>. QED
  BY <1>2, <1>3, RecommendationOom

\* So is the document it becomes.
LEMMA DocumentKeeps ==
  ASSUME SettingsInForce, KillsCounted, PairsCovered, FloorsWhole, InRange, NEW m,
         NEW written, written = Document(Recommendation(m))
  PROVE  /\ DOMAIN written = CrFields /\ FloorsAreWhole(written)
         /\ ~reset => ParseOom(written).floor >= ParseOom(live).floor
<1>1. PICK rec : rec = Recommendation(m)
  OBVIOUS
<1>2. /\ written.legacy = NoLegacy /\ DOMAIN written = CrFields
      /\ \E mark : written.oom = [rec.oom EXCEPT !.investigation = mark]
  BY <1>1 DEF Document, CrFields
<1>3. Counts(rec.oom) /\ InMebibytes(rec.oom.floor) /\ rec.oom.floor >= Prior.floor
  BY <1>1, RecommendationKeeps
<1>4. written.oom.floor = rec.oom.floor /\ "lastEvent" \in DOMAIN written.oom /\ DOMAIN written.oom = OomFields
  BY <1>2, <1>3 DEF Counts, OomFields
<1>5. FloorsAreWhole(written)
  BY <1>2, <1>3, <1>4, ZeroHeld DEF FloorsAreWhole, NoLegacy
<1>6. ASSUME ~reset
      PROVE  ParseOom(written).floor >= ParseOom(live).floor
  <2>1. PICK p, floor \in Int : p = ParseOom(live).floor /\ floor = rec.oom.floor /\ floor >= p
    BY <1>3, <1>6, PriorWhole, MebibytesAreInt DEF Prior
  <2>2. ParseOom(written).floor = IF floor > 0 THEN floor ELSE 0
    BY <1>2, <1>4, <2>1 DEF ParseOom, NoLegacy, OomFields
  <2>. QED
    BY <2>1, <2>2
<1>. QED
  BY <1>2, <1>5, <1>6

LEMMA NextWhole ==
  ASSUME SettingsInForce, KillsCounted, PairsCovered, FloorsWhole, [Next]_vars
  PROVE  FloorsWhole'
<1>1. cfg' = cfg
  BY DEF Next, vars, Sync, Reconcile, OutOfMemory, Recreate, ToggleReset, Hour
<1>2. CASE ~InRange
  BY <1>1, <1>2 DEF FloorsWhole, InRange
<1>3. CASE InRange
  <2>. SUFFICES FloorsAreWhole(live') /\ FloorsAreWhole(doc')
    BY DEF FloorsWhole, FloorsAreWhole
  <2>1. FloorsAreWhole(live) /\ FloorsAreWhole(doc)
    BY <1>3 DEF FloorsWhole
  <2>2. ASSUME NEW m \in Monitorings, Sync(m)
        PROVE  FloorsAreWhole(live') /\ FloorsAreWhole(doc')
    <3>1. PICK written : written = Document(Recommendation(m))
      OBVIOUS
    <3>2. /\ doc' = written \/ doc' = NoCr \/ doc' = doc
          /\ live' = live \/ live' = [doc' EXCEPT !.legacy = live.legacy]
      BY <2>2, <3>1 DEF Sync
    <3>3. DOMAIN doc' = CrFields /\ FloorsAreWhole(doc')
      BY <1>3, <2>1, <3>1, <3>2, DocumentKeeps, NoCrWhole, NoCrCounts DEF KillsCounted, Countable
    <3>4. ASSUME live' = [doc' EXCEPT !.legacy = live.legacy]
          PROVE  live'.oom = doc'.oom /\ live'.legacy = live.legacy
      BY <3>3, <3>4 DEF CrFields
    <3>. QED
      BY <2>1, <3>2, <3>3, <3>4 DEF FloorsAreWhole
  <2>3. CASE Reconcile
    BY <2>1, <2>3 DEF Reconcile
  <2>4. CASE OutOfMemory
    <3>1. live' = Renumber(live) /\ doc' = Renumber(doc)
      BY <2>4 DEF OutOfMemory
    <3>. QED
      BY <2>1, <3>1, RenumberAmounts DEF KillsCounted, FloorsAreWhole
  <2>5. CASE Recreate
    BY <2>1, <2>5 DEF Recreate
  <2>6. CASE ToggleReset
    BY <2>1, <2>6 DEF ToggleReset
  <2>7. CASE Hour
    <3>1. /\ \E h : live' = [live EXCEPT !.cooling = h]
          /\ \E h : doc' = [doc EXCEPT !.cooling = h]
      BY <2>7 DEF Hour
    <3>2. /\ live'.oom = live.oom /\ live'.legacy = live.legacy
          /\ doc'.oom = doc.oom /\ doc'.legacy = doc.legacy
      BY <3>1 DEF KillsCounted, Countable, CrFields
    <3>. QED
      BY <2>1, <3>2 DEF FloorsAreWhole
  <2>8. CASE UNCHANGED vars
    BY <2>1, <2>8 DEF vars
  <2>. QED
    BY <2>2, <2>3, <2>4, <2>5, <2>6, <2>7, <2>8 DEF Next
<1>. QED
  BY <1>2, <1>3

LEMMA FloorsStayWhole == Spec => []FloorsWhole
<1>1. Init => FloorsWhole
  <2>. SUFFICES ASSUME Init
                PROVE  FloorsAreWhole(live) /\ FloorsAreWhole(doc)
    BY DEF FloorsWhole
  <2>1. SettingsInForce /\ InMebibytes(0)
    BY ZeroHeld DEF Init, SettingsInForce
  <2>2. (live = NoCr \/ (Setups[setup].upgraded /\ live = OldCr)) /\ doc = live /\ setup \in DOMAIN Setups
    BY DEF Init
  <2>. QED
    BY <2>1, <2>2, NoCrWhole, OldCrCovered DEF FloorsAreWhole, NoOom
<1>2. SettingsInForce /\ KillsCounted /\ PairsCovered /\ FloorsWhole /\ [Next]_vars => FloorsWhole'
  BY NextWhole
<1>. QED
  BY SettingsFixed, CountsStay, PairsStay, <1>1, <1>2, PTL DEF Spec

\* In GitOps mode every sync has an entry for the workload: another container of
\* it has a recommendation, and its bounds do not contradict each other.
NeverDropped == InRange /\ (cfg.mode = "gitops" => ~cfg.alone /\ ~BoundsConflict)

FloorKept ==
  ParseOom(doc').floor # ParseOom(doc).floor /\ ~reset =>
    ParseOom(doc').floor >= ParseOom(live).floor

LEMMA NextKeeps ==
  ASSUME SettingsInForce, KillsCounted, PairsCovered, FloorsWhole, NeverDropped, [Next]_vars
  PROVE  FloorKept
<1>. SUFFICES ASSUME ParseOom(doc').floor # ParseOom(doc).floor, ~reset
              PROVE  ParseOom(doc').floor >= ParseOom(live).floor
  BY DEF FloorKept
<1>1. ASSUME NEW m \in Monitorings, Sync(m)
      PROVE  ParseOom(doc').floor >= ParseOom(live).floor
  <2>1. PICK rec : rec = Recommendation(m)
    OBVIOUS
  <2>2. PICK written : written = Document(rec)
    OBVIOUS
  <2>3. doc' = IF Rendered(rec) THEN written ELSE IF cfg.mode = "gitops" THEN NoCr ELSE doc
    BY <1>1, <2>1, <2>2 DEF Sync
  <2>4. cfg.mode = "gitops" => Rendered(rec)
    BY DEF NeverDropped, Rendered
  <2>5. doc' = written
    BY <2>3, <2>4
  <2>. QED
    BY <2>1, <2>2, <2>5, DocumentKeeps DEF NeverDropped
<1>2. CASE OutOfMemory
  <2>1. doc' = Renumber(doc)
    BY <1>2 DEF OutOfMemory
  <2>2. ASSUME NEW c, DOMAIN c.oom = OomFields
        PROVE  ParseOom(c).floor = IF c.oom.floor > 0 THEN c.oom.floor ELSE c.legacy.floor
    BY <2>2 DEF ParseOom, OomFields
  <2>3. /\ Countable(doc) /\ Countable(Renumber(doc))
        /\ Renumber(doc).oom.floor = doc.oom.floor /\ Renumber(doc).legacy.floor = doc.legacy.floor
    BY RenumberAmounts, RenumberCounts DEF KillsCounted
  <2>. QED
    BY <2>1, <2>2, <2>3 DEF Countable, Counts
<1>3. CASE Hour
  <2>1. \E h : doc' = [doc EXCEPT !.cooling = h]
    BY <1>3 DEF Hour
  <2>2. doc'.oom = doc.oom /\ doc'.legacy = doc.legacy
    BY <2>1 DEF KillsCounted, Countable, CrFields
  <2>. QED
    BY <2>2 DEF ParseOom
<1>4. CASE Reconcile \/ Recreate \/ ToggleReset \/ UNCHANGED vars
  BY <1>4 DEF Reconcile, Recreate, ToggleReset, vars
<1>. QED
  BY <1>1, <1>2, <1>3, <1>4 DEF Next

\* A floor outlives every sync - held, skipped, without an answer, or the first one
\* after an upgrade from a release that kept lists - unless its removal is asked for
\* or, in GitOps mode, the workload is dropped from the repository (which the
\* documentation does not say, and which a run shows to lose floors).
\* (_build_containers_payload's carry-forward; docs/reference.md, "Sticky minimum")
THEOREM FloorsOutlive == Spec /\ []NeverDropped => FloorSurvives
<1>1. SettingsInForce /\ KillsCounted /\ PairsCovered /\ FloorsWhole /\ NeverDropped /\ [Next]_vars =>
        [ParseOom(doc').floor # ParseOom(doc).floor /\ ~reset =>
           ParseOom(doc').floor >= ParseOom(live).floor]_vars
  BY NextKeeps DEF FloorKept
<1>. QED
  BY SettingsFixed, CountsStay, PairsStay, FloorsStayWhole, <1>1, PTL DEF Spec, FloorSurvives

-----------------------------------------------------------------------------
(* Changes are capped.                                                     *)

\* A new value v of field f is within the cap of the value b before, or beyond it
\* for a kill or a floor, or on its way down to the ceiling.
Near(b, v) == /\ v \in Int /\ 100 * (v - b) <= cfg.maxChange * b
              /\ -(cfg.maxChange * b) <= 100 * (v - b)
Moves(f, b, v, exempt) ==
  \/ Near(b, v)
  \/ f[2] = "memory" /\ exempt /\ v \in Int /\ v > b
  \/ cfg.max[f] > 0 /\ v \in Int /\ Bound(cfg.max, f) <= v /\ v < b

\* Whole units.
LEMMA UnitScale ==
  ASSUME NEW f, NEW a \in Int, NEW b \in Int
  PROVE  /\ Unit(f) \in Nat \ {0} /\ a * Unit(f) \in Int
         /\ a <= b => a * Unit(f) <= b * Unit(f)
<1>1. MiB \in Nat \ {0}
  BY ScaleAssumption
<1>2. a <= b => a * MiB <= b * MiB
  BY ScaleMonotone
<1>. QED
  BY <1>1, <1>2 DEF Unit

\* The edges of the cap, in the unit of the field.
LEMMA EdgesNear ==
  ASSUME NumberedSettings(cfg), cfg.maxChange > 0, NEW f \in Fields,
         NEW base \in Int, Writable(f, base), base > 0,
         NEW upper, upper = ((base \div Unit(f)) * (100 + cfg.maxChange)) \div 100,
         NEW lower, lower = -((-((base \div Unit(f)) * (100 - cfg.maxChange))) \div 100)
  PROVE  /\ upper * Unit(f) \in Int /\ lower * Unit(f) \in Int
         /\ lower * Unit(f) <= base /\ base <= upper * Unit(f)
         /\ 100 * (upper * Unit(f) - base) <= cfg.maxChange * base
         /\ -(cfg.maxChange * base) <= 100 * (lower * Unit(f) - base)
<1>1. PICK u \in Nat \ {0} : u = Unit(f)
  BY UnitScale
<1>2. PICK n \in Nat : n = cfg.maxChange
  BY DEF NumberedSettings
<1>3. PICK k \in Int : base = k * u
  <2>1. CASE f[2] = "memory"
    BY <1>1, <2>1 DEF Writable, InMebibytes, Unit
  <2>2. CASE f[2] # "memory"
    <3>1. u = 1 /\ base = base * 1
      BY <1>1, <2>2 DEF Unit
    <3>. QED
      BY <3>1
  <2>. QED
    BY <2>1, <2>2
<1>4. k > 0
  <2>. SUFFICES ASSUME k <= 0
                PROVE  FALSE
    OBVIOUS
  <2>1. k * u <= 0 * u
    BY <1>1, UnitScale
  <2>. QED
    BY <1>1, <1>3, <2>1
<1>5. base \div u = k
  BY <1>1, <1>3
<1>6. PICK p \in Nat : p = k * n
  BY <1>2, <1>4
<1>7. k * (100 + n) = 100 * k + p /\ k * (100 - n) = 100 * k - p
  <2>1. k * (100 + n) = k * 100 + k * n /\ k * (100 - n) = k * 100 - k * n
    OBVIOUS
  <2>. QED
    BY <1>6, <2>1
<1>8. upper = (100 * k + p) \div 100 /\ lower = -((-(100 * k - p)) \div 100)
  BY <1>1, <1>2, <1>5, <1>7
<1>9. /\ upper \in Int /\ lower \in Int /\ lower <= k /\ k <= upper
      /\ 100 * upper <= 100 * k + p /\ 100 * k - p <= 100 * lower
  BY <1>6, <1>8
<1>10. /\ upper * u \in Int /\ lower * u \in Int /\ lower * u <= k * u /\ k * u <= upper * u
       /\ (100 * upper) * u <= (100 * k + p) * u /\ (100 * k - p) * u <= (100 * lower) * u
  BY <1>1, <1>9, UnitScale
<1>11. PICK a \in Int, b \in Int, q \in Int : a = upper * u /\ b = lower * u /\ q = p * u
  BY <1>10
<1>12. /\ (100 * upper) * u = 100 * a /\ (100 * lower) * u = 100 * b
       /\ (100 * k + p) * u = 100 * base + q /\ (100 * k - p) * u = 100 * base - q
  BY <1>3, <1>9, <1>11
<1>13. n * base = q
  BY <1>2, <1>3, <1>6, <1>11
<1>. QED
  BY <1>1, <1>2, <1>3, <1>10, <1>11, <1>12, <1>13

LEMMA CappedMoves ==
  ASSUME NumberedSettings(cfg), cfg.maxChange > 0, NEW f \in Fields,
         NEW new \in Int, NEW base \in Int, Writable(f, base), base > 0, NEW exempt \in BOOLEAN
  PROVE  Moves(f, base, Capped(f, new, base, exempt), exempt)
<1>1. PICK upper, lower :
        /\ upper = ((base \div Unit(f)) * (100 + cfg.maxChange)) \div 100
        /\ lower = -((-((base \div Unit(f)) * (100 - cfg.maxChange))) \div 100)
  OBVIOUS
<1>2. PICK a \in Int, b \in Int, q \in Int :
        /\ a = upper * Unit(f) /\ b = lower * Unit(f) /\ q = cfg.maxChange * base
        /\ b <= base /\ base <= a /\ 100 * (a - base) <= q /\ -q <= 100 * (b - base)
  <2>1. cfg.maxChange * base \in Int
    BY DEF NumberedSettings
  <2>. QED
    BY <1>1, <2>1, EdgesNear
<1>3. PICK spared \in BOOLEAN : spared <=> exempt /\ f[2] = "memory"
  OBVIOUS
<1>4. PICK capped \in Int :
        capped = IF new > a /\ ~spared THEN a ELSE IF new < b THEN b ELSE new
  BY <1>2
<1>5. Capped(f, new, base, exempt) = IF capped = new THEN new ELSE Below(f, capped)
  BY <1>1, <1>2, <1>3, <1>4, Zenon DEF Capped
<1>6. PICK top \in Int : top = Bound(cfg.max, f)
  BY BoundTyped DEF NumberedSettings
<1>7. CASE capped = new
  <2>1. new <= a => Near(base, new)
    BY <1>2, <1>4, <1>7 DEF Near
  <2>2. new > a => spared /\ new > base
    BY <1>2, <1>3, <1>4, <1>7
  <2>. QED
    BY <1>2, <1>3, <1>5, <1>7, <2>1, <2>2 DEF Moves
<1>8. CASE capped # new
  <2>1. capped \in {a, b}
    BY <1>4, <1>8
  <2>2. Capped(f, new, base, exempt) = IF cfg.max[f] > 0 THEN Smaller(capped, top) ELSE capped
    BY <1>5, <1>6, <1>8 DEF Below
  <2>3. Near(base, capped)
    BY <1>2, <2>1 DEF Near
  <2>4. cfg.max[f] > 0 /\ top < capped => Near(base, top) \/ top < base
    BY <1>2, <2>1, <2>3 DEF Near
  <2>. QED
    BY <1>6, <2>2, <2>3, <2>4 DEF Moves, Smaller
<1>. QED
  BY <1>7, <1>8

\* A limit that is lifted to its request has not moved further than the cap allows
\* the limit, since it was not under the request before.
LEMMA LiftedMoves ==
  ASSUME NumberedSettings(cfg), cfg.maxChange > 0, NEW r \in Fields, NEW l \in Fields, r[2] = l[2],
         NEW a \in Int, NEW b \in Int, 0 < a, a <= b, NEW exempt \in BOOLEAN,
         NEW v \in Int, Moves(r, a, v, exempt), NEW w \in Int, Moves(l, b, w, exempt)
  PROVE  Moves(l, b, Larger(w, v), exempt)
<1>1. CASE v <= w
  <2>1. Larger(w, v) = w
    BY <1>1 DEF Larger
  <2>. QED
    BY <2>1
<1>2. CASE v > w
  <2>1. PICK n \in Nat, e \in Nat : n = cfg.maxChange /\ b = a + e
    <3>1. b - a \in Nat
      OBVIOUS
    <3>2. cfg.maxChange \in Nat
      BY DEF NumberedSettings
    <3>. QED
      BY <3>1, <3>2
  <2>2. PICK p \in Nat, q \in Nat : p = n * a /\ q = n * b /\ p <= q
    <3>1. n * b = n * a + n * e /\ n * e \in Nat /\ n * a \in Nat /\ n * b \in Nat
      BY <2>1
    <3>. QED
      BY <3>1
  <2>3. PICK spared \in BOOLEAN : spared <=> exempt /\ r[2] = "memory"
    OBVIOUS
  <2>4. Larger(w, v) = v
    BY <1>2 DEF Larger
  <2>5. Bound(cfg.max, r) \in Int /\ Bound(cfg.max, l) \in Int
    BY BoundTyped DEF NumberedSettings
  <2>6. 100 * (v - a) <= p \/ (spared /\ v > a) \/ v < a
    BY <2>1, <2>2, <2>3 DEF Moves, Near
  <2>7. 100 * (v - b) <= q \/ (spared /\ v > b)
    BY <2>1, <2>2, <2>6
  <2>8. -q <= 100 * (w - b) \/ (cfg.max[l] > 0 /\ Bound(cfg.max, l) <= w)
    BY <2>1, <2>2 DEF Moves, Near
  <2>9. CASE spared /\ v > b
    BY <2>3, <2>4, <2>9 DEF Moves
  <2>10. CASE ~(spared /\ v > b)
    <3>1. 100 * (v - b) <= q
      BY <2>7, <2>10
    <3>2. CASE -q <= 100 * (v - b)
      <4>1. Near(b, v)
        BY <2>1, <2>2, <3>1, <3>2 DEF Near
      <4>. QED
        BY <2>4, <4>1 DEF Moves
    <3>3. CASE ~(-q <= 100 * (v - b))
      <4>1. v < b /\ cfg.max[l] > 0 /\ Bound(cfg.max, l) <= v
        BY <1>2, <2>2, <2>5, <2>8, <3>3
      <4>. QED
        BY <2>4, <4>1 DEF Moves
    <3>. QED
      BY <3>2, <3>3
  <2>. QED
    BY <2>9, <2>10
<1>. QED
  BY <1>1, <1>2

\* A limit in a document has its request beside it and covers it.
LEMMA CoveredPair ==
  ASSUME NEW res, Covered(res), NEW f \in DOMAIN res, f[1] = "limits"
  PROVE  LET r == <<"requests", f[2]>> IN r \in DOMAIN res /\ r \in Fields /\ res[f] >= res[r]
<1>1. f \in {CpuLim, MemLim}
  BY FieldParts DEF Covered, Ready
<1>2. CASE f = CpuLim
  BY <1>2, FieldParts DEF Covered, CpuReq
<1>3. CASE f = MemLim
  BY <1>3, FieldParts DEF Covered, Ready, Paired, MemReq
<1>. QED
  BY <1>1, <1>2, <1>3

\* No value of the field's pair is too small to be a base for the cap.
Based(base, f) == \A g \in DOMAIN base : g[2] = f[2] => base[g] > 0

LEMMA MaxChangeMoves ==
  ASSUME NumberedSettings(cfg), cfg.maxChange > 0, NEW res, Ready(res),
         NEW base, Covered(base), base # Nothing, NEW exempt \in BOOLEAN,
         NEW f \in DOMAIN res, f \in DOMAIN base, Based(base, f),
         NEW moved, moved = ApplyMaxChange(res, base, exempt)
  PROVE  DOMAIN moved = DOMAIN res /\ Moves(f, base[f], moved[f], exempt)
<1>1. PICK capped : capped = [g \in DOMAIN res |->
                       IF Get(base, g) > 0 THEN Capped(g, res[g], base[g], exempt) ELSE res[g]]
  OBVIOUS
<1>2. moved = LimitsLifted(capped)
  <2>1. ~(cfg.maxChange <= 0 \/ base = Nothing)
    BY DEF NumberedSettings
  <2>. QED
    BY <1>1, <2>1, Zenon DEF ApplyMaxChange
<1>3. \A g \in DOMAIN res : g \in DOMAIN base /\ g[2] = f[2] =>
        /\ g \in Fields /\ base[g] \in Int /\ base[g] > 0
        /\ capped[g] \in Int /\ Moves(g, base[g], capped[g], exempt)
  <2>. TAKE g \in DOMAIN res
  <2>. HAVE g \in DOMAIN base /\ g[2] = f[2]
  <2>1. g \in Fields /\ res[g] \in Int /\ base[g] \in Int /\ Writable(g, res[g]) /\ Writable(g, base[g]) /\ base[g] > 0
    BY DEF Covered, Ready, Writable, Based
  <2>2. capped[g] = Capped(g, res[g], base[g], exempt)
    BY <1>1, <2>1 DEF Get
  <2>3. Moves(g, base[g], capped[g], exempt)
    BY <2>1, <2>2, CappedMoves
  <2>4. capped[g] \in Int
    BY <2>1, <2>2, CappedWritable DEF Writable
  <2>. QED
    BY <2>1, <2>3, <2>4
<1>4. /\ DOMAIN moved = DOMAIN res
      /\ moved[f] = IF f[1] = "limits" /\ <<"requests", f[2]>> \in DOMAIN res
                    THEN Larger(capped[f], capped[<<"requests", f[2]>>]) ELSE capped[f]
  BY <1>1, <1>2 DEF LimitsLifted
<1>5. CASE f[1] = "limits" /\ <<"requests", f[2]>> \in DOMAIN res
  <2>1. PICK r : r = <<"requests", f[2]>>
    OBVIOUS
  <2>2. r \in DOMAIN base /\ r \in DOMAIN res /\ r[2] = f[2] /\ base[f] >= base[r]
    BY <1>5, <2>1, CoveredPair
  <2>3. Moves(f, base[f], Larger(capped[f], capped[r]), exempt)
    BY <1>3, <2>2, LiftedMoves
  <2>. QED
    BY <1>4, <1>5, <2>1, <2>3
<1>. QED
  BY <1>3, <1>4, <1>5

\* A minimum that acts is what the value becomes, or what its limit is lifted to.
LEMMA FloorsMove ==
  ASSUME NumberedSettings(cfg), NEW moved, Ready(moved),
         NEW final, final = DropCpuLimit(EnforceFloors(moved)), NEW f \in DOMAIN final
  PROVE  /\ f \in DOMAIN moved
         /\ \/ final[f] = moved[f]
            \/ \E kind \in {"requests", "limits"} : final[f] = Bound(cfg.min, <<kind, f[2]>>)
<1>1. PICK floored : floored = [g \in DOMAIN moved |-> Larger(moved[g], Bound(cfg.min, g))]
  OBVIOUS
<1>2. PICK done : done = EnforceFloors(moved)
  OBVIOUS
<1>3. done = IF floored = moved THEN moved ELSE LimitsLifted(floored)
  BY <1>1, <1>2, Zenon DEF EnforceFloors
<1>4. DOMAIN done = DOMAIN moved
  BY <1>1, <1>3 DEF LimitsLifted
<1>5. f \in DOMAIN moved /\ final[f] = done[f] /\ f \in Fields /\ (f = CpuLim => cfg.emitCpuLimits)
  BY <1>2, <1>4 DEF DropCpuLimit, Only, Ready
<1>6. CASE floored = moved
  BY <1>3, <1>5, <1>6
<1>7. CASE floored # moved
  <2>1. PICK r : r = <<"requests", f[2]>>
    OBVIOUS
  <2>2. done[f] = IF f[1] = "limits" /\ r \in DOMAIN moved THEN Larger(floored[f], floored[r])
                  ELSE floored[f]
    BY <1>1, <1>3, <1>5, <1>7, <2>1 DEF LimitsLifted
  <2>3. f = <<f[1], f[2]>> /\ f[1] \in {"requests", "limits"}
    BY <1>5 DEF Fields
  <2>4. f[1] = "limits" => r \in Fields /\ (r \in DOMAIN moved => moved[r] <= moved[f])
    <3>1. f[1] = "limits" => f \in {CpuLim, MemLim}
      BY <1>5, FieldParts
    <3>2. f = CpuLim => r = CpuReq
      BY <2>1, FieldParts DEF CpuReq
    <3>3. f = MemLim => r = MemReq
      BY <2>1, FieldParts DEF MemReq
    <3>. QED
      BY <1>5, <3>1, <3>2, <3>3, FieldParts DEF Ready, Paired
  <2>5. \A g \in Fields : Bound(cfg.min, g) \in Int
    BY BoundTyped DEF NumberedSettings
  <2>6. \A g \in DOMAIN moved : moved[g] \in Int
    BY DEF Ready
  <2>7. done[f] \in {moved[f], Bound(cfg.min, f)} \/ (r \in DOMAIN moved /\ done[f] = Bound(cfg.min, r))
    BY <1>1, <1>5, <2>2, <2>4, <2>5, <2>6 DEF Larger
  <2>. QED
    BY <1>5, <2>1, <2>3, <2>7
<1>. QED
  BY <1>6, <1>7

\* What a sync makes of a field of the live CR.
FieldCapped(f, v) ==
  \/ \E g \in DOMAIN live.res : g[2] = f[2] /\ live.res[g] <= 0
  \/ 100 * (v - live.res[f]) \in -(cfg.maxChange * live.res[f])..(cfg.maxChange * live.res[f])
  \/ \E kind \in {"requests", "limits"} : v = Bound(cfg.min, <<kind, f[2]>>)
  \/ f[2] = "memory" /\ (Bumping \/ StickyFloor) /\ v > live.res[f]
  \/ /\ cfg.max[f] > 0
     /\ Bound(cfg.max, f) <= v /\ v < live.res[f]

LEMMA PassesCapped ==
  ASSUME SettingsInForce, KillsCounted, PairsCovered, InRange, cfg.maxChange > 0, Listed,
         NEW bumped, Ready(bumped), NEW final, final = Passes(bumped),
         NEW f \in DOMAIN live.res, f \in DOMAIN final
  PROVE  FieldCapped(f, final[f])
<1>1. NumberedSettings(cfg) /\ Covered(live.res) /\ live.res # Nothing
  BY SettingsNumbered DEF PairsCovered, Listed
<1>2. PICK sticky : sticky = IF StickyFloor THEN ApplyOomFloor(bumped, Prior.floor) ELSE bumped
  OBVIOUS
<1>3. PICK policy : policy = ApplyGrowShrink(sticky, live.res)
  OBVIOUS
<1>4. PICK exempt \in BOOLEAN : exempt <=> Bumping \/ StickyFloor
  OBVIOUS
<1>5. PICK moved : moved = ApplyMaxChange(policy, live.res, exempt)
  OBVIOUS
<1>6. final = DropCpuLimit(EnforceFloors(moved))
  <2>1. Baseline = live.res
    BY DEF Baseline, Listed
  <2>2. exempt = (Bumping \/ StickyFloor)
    BY <1>4
  <2>. QED
    BY <1>2, <1>3, <1>5, <2>1, <2>2, Zenon DEF Passes
<1>7. Ready(policy)
  <2>1. CASE StickyFloor
    <3>1. PICK floor \in Int : floor = Prior.floor /\ floor >= MiB
      BY <2>1, PriorPositive DEF StickyFloor, Positive
    <3>2. Ready(sticky)
      BY <1>1, <1>2, <2>1, <3>1, OomFloorReady
    <3>. QED
      BY <1>1, <1>3, <3>2, GrowShrinkReady DEF Covered
  <2>2. CASE ~StickyFloor
    BY <1>1, <1>2, <1>3, <2>2, GrowShrinkReady DEF Covered
  <2>. QED
    BY <2>1, <2>2
<1>8. Ready(moved)
  BY <1>1, <1>5, <1>7, MaxChangeReady DEF Covered, Ready
<1>9. /\ f \in DOMAIN moved
      /\ \/ final[f] = moved[f]
         \/ \E kind \in {"requests", "limits"} : final[f] = Bound(cfg.min, <<kind, f[2]>>)
  BY <1>1, <1>6, <1>8, FloorsMove
<1>10. DOMAIN moved = DOMAIN policy
  <2>1. PICK capped : capped = [g \in DOMAIN policy |->
           IF Get(live.res, g) > 0 THEN Capped(g, policy[g], live.res[g], exempt) ELSE policy[g]]
    OBVIOUS
  <2>2. moved \in {policy, LimitsLifted(capped)}
    BY <1>5, <2>1, Zenon DEF ApplyMaxChange
  <2>. QED
    BY <2>1, <2>2 DEF LimitsLifted
<1>11. CASE Based(live.res, f)
  <2>1. Moves(f, live.res[f], moved[f], exempt)
    BY <1>1, <1>5, <1>7, <1>9, <1>10, <1>11, MaxChangeMoves
  <2>2. PICK b \in Int, p \in Int : b = live.res[f] /\ p = cfg.maxChange * b
    <3>1. live.res[f] \in Int /\ cfg.maxChange \in Int
      BY <1>1 DEF Covered, Ready, NumberedSettings
    <3>. QED
      BY <3>1
  <2>3. FieldCapped(f, moved[f])
    <3>1. CASE Near(b, moved[f])
      <4>1. PICK v \in Int : v = moved[f]
        BY <3>1 DEF Near
      <4>2. 100 * (v - b) \in -p .. p
        BY <2>2, <3>1, <4>1 DEF Near
      <4>. QED
        BY <2>2, <4>1, <4>2 DEF FieldCapped
    <3>. QED
      BY <1>4, <2>1, <2>2, <3>1 DEF Moves, FieldCapped
  <2>. QED
    BY <1>9, <2>3 DEF FieldCapped
<1>12. CASE ~Based(live.res, f)
  BY <1>1, <1>12 DEF Based, FieldCapped, Covered, Ready
<1>. QED
  BY <1>11, <1>12

ChangeCapped ==
  cfg.maxChange > 0 /\ Listed /\ doc'.res # doc.res =>
    \A f \in DOMAIN live.res \cap DOMAIN doc'.res : FieldCapped(f, doc'.res[f])

\* What a step leaves of the resources of the document.
LEMMA ResKept ==
  ASSUME KillsCounted, [Next]_vars, \A m \in Monitorings : ~Sync(m)
  PROVE  doc'.res = doc.res
<1>1. CASE OutOfMemory
  BY <1>1, RenumberAmounts DEF OutOfMemory, KillsCounted
<1>2. CASE Hour
  <2>1. \E h : doc' = [doc EXCEPT !.cooling = h]
    BY <1>2 DEF Hour
  <2>. QED
    BY <2>1 DEF KillsCounted, Countable, CrFields
<1>3. CASE Reconcile \/ Recreate \/ ToggleReset \/ UNCHANGED vars
  BY <1>3 DEF Reconcile, Recreate, ToggleReset, vars
<1>. QED
  BY <1>1, <1>2, <1>3 DEF Next

LEMMA NextCaps ==
  ASSUME SettingsInForce, KillsCounted, PairsCovered, InRange, [Next]_vars
  PROVE  ChangeCapped
<1>. SUFFICES ASSUME cfg.maxChange > 0, Listed, doc'.res # doc.res,
                     NEW f \in DOMAIN live.res \cap DOMAIN doc'.res
              PROVE  FieldCapped(f, doc'.res[f])
  BY DEF ChangeCapped
<1>1. PICK m \in Monitorings : Sync(m)
  BY ResKept
<1>2. PICK rec : rec = Recommendation(m)
  OBVIOUS
<1>3. PICK written : written = Document(rec)
  OBVIOUS
<1>4. written.res = rec.res /\ DOMAIN NoCr.res = {}
  BY <1>3 DEF Document, NoCr, Nothing
<1>5. doc' = written \/ doc' = NoCr \/ doc' = doc
  BY <1>1, <1>2, <1>3 DEF Sync
<1>6. doc'.res = rec.res
  BY <1>4, <1>5
<1>7. PICK start, bumped :
        /\ start = Start(m)
        /\ bumped = IF Bumping THEN ApplyOomFloor(start, Target) ELSE start
        /\ rec.res \in {Nothing, Passes(bumped)}
  BY <1>2, RecommendationParts
<1>8. Ready(bumped)
  BY <1>7, BumpedReady
<1>9. rec.res = Passes(bumped)
  BY <1>6, <1>7 DEF Nothing
<1>10. PICK final : final = Passes(bumped)
  OBVIOUS
<1>11. FieldCapped(f, final[f])
  BY <1>6, <1>8, <1>9, <1>10, PassesCapped
<1>. QED
  BY <1>6, <1>9, <1>10, <1>11

\* Whatever bump, floor, policy, minimum and lifted limit do around the change
\* cap, no sync takes a request or a limit further from the live CR than the cap,
\* but to a minimum, up for a kill or a floor, or down to a ceiling.
\* (_apply_max_change; docs/reference.md, maxChangePercent)
THEOREM ChangesStayCapped == Spec /\ []InRange => ChangesCapped
<1>1. SettingsInForce /\ KillsCounted /\ PairsCovered /\ InRange /\ [Next]_vars =>
        [cfg.maxChange > 0 /\ Listed /\ doc'.res # doc.res =>
           \A f \in DOMAIN live.res \cap DOMAIN doc'.res :
             \/ \E g \in DOMAIN live.res : g[2] = f[2] /\ live.res[g] <= 0
             \/ 100 * (doc'.res[f] - live.res[f]) \in
                   -(cfg.maxChange * live.res[f])..(cfg.maxChange * live.res[f])
             \/ \E kind \in {"requests", "limits"} : doc'.res[f] = Bound(cfg.min, <<kind, f[2]>>)
             \/ f[2] = "memory" /\ (Bumping \/ StickyFloor) /\ doc'.res[f] > live.res[f]
             \/ /\ cfg.max[f] > 0
                /\ Bound(cfg.max, f) <= doc'.res[f] /\ doc'.res[f] < live.res[f]]_vars
  BY NextCaps DEF ChangeCapped, FieldCapped
<1>. QED
  BY SettingsFixed, CountsStay, PairsStay, <1>1, PTL DEF Spec, ChangesCapped

-----------------------------------------------------------------------------
(* A cooldown keeps the values.                                            *)

\* What a sync writes has every minimum, no CPU limit where none is wanted, and
\* nothing at all for a container that is skipped: a document whose last change is
\* not long ago was written like that.
InForceNow(res) ==
  /\ \A f \in DOMAIN res : res[f] >= Bound(cfg.min, f)
  /\ ~cfg.emitCpuLimits => CpuLim \notin DOMAIN res
  /\ cfg.skipped => res = Nothing
  /\ ~BoundsConflict
Settled(cr) == cr.cooling # 0 => InForceNow(cr.res)
DocumentsSettled == InRange => Settled(live) /\ Settled(doc)

LEMMA PassesSettled ==
  ASSUME SettingsInForce, KillsCounted, PairsCovered, InRange, NEW m \in Monitorings,
         Rendered(Recommendation(m))
  PROVE  InForceNow(Recommendation(m).res)
<1>1. PICK start, bumped :
        /\ start = Start(m)
        /\ bumped = IF Bumping THEN ApplyOomFloor(start, Target) ELSE start
        /\ Recommendation(m).res = IF start = Nothing THEN Nothing ELSE Passes(bumped)
  <2>1. PICK start, bumped, final : \E effective \in BOOLEAN :
           /\ start = Start(m)
           /\ bumped = IF Bumping THEN ApplyOomFloor(start, Target) ELSE start
           /\ final = Passes(bumped)
           /\ Recommendation(m) =
                IF start = Nothing THEN [res |-> Nothing, oom |-> Prior]
                ELSE [res |-> final, oom |-> IF FreshOom THEN Recorded(effective) ELSE Prior]
    BY RecommendationParts
  <2>. QED
    BY <2>1
<1>2. PICK final : final = Passes(bumped)
  OBVIOUS
<1>3. Ready(bumped)
  BY <1>1, BumpedReady
<1>4. \A f \in DOMAIN final : final[f] >= Bound(cfg.min, f)
  <2>. TAKE f \in DOMAIN final
  <2>. QED
    BY <1>2, <1>3, PassesAboveMinima
<1>5. ~cfg.emitCpuLimits => CpuLim \notin DOMAIN final
  <2>1. PICK moved : final = DropCpuLimit(EnforceFloors(moved))
    BY <1>2, <1>3, PassesMoved
  <2>. QED
    BY <2>1 DEF DropCpuLimit, Only
<1>6. cfg.skipped => start = Nothing
  BY <1>1, Zenon DEF Start, Kept
<1>7. ~BoundsConflict
  BY DEF Rendered
<1>8. DOMAIN Nothing = {}
  BY DEF Nothing
<1>. QED
  BY <1>1, <1>2, <1>4, <1>5, <1>6, <1>7, <1>8 DEF InForceNow

LEMMA NextSettled ==
  ASSUME SettingsInForce, KillsCounted, PairsCovered, DocumentsSettled, [Next]_vars
  PROVE  DocumentsSettled'
<1>1. cfg' = cfg
  BY DEF Next, vars, Sync, Reconcile, OutOfMemory, Recreate, ToggleReset, Hour
<1>2. CASE ~InRange
  BY <1>1, <1>2 DEF DocumentsSettled, InRange
<1>3. CASE InRange
  <2>. SUFFICES Settled(live') /\ Settled(doc')
    BY <1>1 DEF DocumentsSettled, Settled, InForceNow, BoundsConflict
  <2>1. Settled(live) /\ Settled(doc) /\ DOMAIN live = CrFields /\ DOMAIN doc = CrFields
    BY <1>3 DEF DocumentsSettled, KillsCounted, Countable
  <2>2. ASSUME NEW m \in Monitorings, Sync(m)
        PROVE  Settled(live') /\ Settled(doc')
    <3>1. PICK rec : rec = Recommendation(m)
      OBVIOUS
    <3>2. PICK written : written = Document(rec)
      OBVIOUS
    <3>3. /\ \/ Rendered(rec) /\ doc' = written
             \/ doc' = NoCr \/ doc' = doc
          /\ live' = live \/ live' = [doc' EXCEPT !.legacy = live.legacy]
      BY <2>2, <3>1, <3>2 DEF Sync
    <3>4. written.res = rec.res /\ DOMAIN written = CrFields
      BY <3>2 DEF Document, CrFields
    <3>5. Rendered(rec) => InForceNow(rec.res)
      BY <1>3, <3>1, PassesSettled
    <3>6. Rendered(rec) => Settled(written)
      BY <3>4, <3>5 DEF Settled
    <3>7. Settled(NoCr) /\ DOMAIN NoCr = CrFields
      BY NoCrCounts DEF Settled, NoCr, Countable
    <3>8. Settled(doc') /\ DOMAIN doc' = CrFields
      BY <2>1, <3>3, <3>4, <3>6, <3>7
    <3>9. ASSUME live' = [doc' EXCEPT !.legacy = live.legacy]
          PROVE  live'.res = doc'.res /\ live'.cooling = doc'.cooling
      BY <3>8, <3>9 DEF CrFields
    <3>. QED
      BY <2>1, <3>3, <3>8, <3>9 DEF Settled
  <2>3. CASE Reconcile
    BY <2>1, <2>3 DEF Reconcile
  <2>4. CASE OutOfMemory
    <3>1. live' = Renumber(live) /\ doc' = Renumber(doc)
      BY <2>4 DEF OutOfMemory
    <3>2. ASSUME NEW c, Countable(c)
          PROVE  Renumber(c).res = c.res /\ Renumber(c).cooling = c.cooling
      <4>1. PICK o : o = [c.oom EXCEPT !.lastEvent = Rank(@)]
        OBVIOUS
      <4>2. Renumber(c) = [[c EXCEPT !.oom = o] EXCEPT !.legacy.lastEvent = Rank(@)]
        BY <4>1 DEF Renumber
      <4>. QED
        BY <3>2, <4>2 DEF Countable, CrFields
    <3>. QED
      BY <2>1, <3>1, <3>2 DEF Settled, KillsCounted
  <2>5. CASE Hour
    <3>1. PICK h, k : h = Larger(live.cooling - 1, 0) /\ k = Larger(doc.cooling - 1, 0)
      OBVIOUS
    <3>2. live' = [live EXCEPT !.cooling = h] /\ doc' = [doc EXCEPT !.cooling = k]
      BY <2>5, <3>1 DEF Hour
    <3>3. (live.cooling = 0 => h = 0) /\ (doc.cooling = 0 => k = 0)
      BY <3>1 DEF Larger
    <3>4. /\ live'.res = live.res /\ (live.cooling = 0 => live'.cooling = 0)
          /\ doc'.res = doc.res /\ (doc.cooling = 0 => doc'.cooling = 0)
      BY <2>1, <3>2, <3>3 DEF CrFields
    <3>. QED
      BY <2>1, <3>4 DEF Settled
  <2>6. CASE Recreate \/ ToggleReset \/ UNCHANGED vars
    BY <2>1, <2>6 DEF Recreate, ToggleReset, vars
  <2>. QED
    BY <2>2, <2>3, <2>4, <2>5, <2>6 DEF Next
<1>. QED
  BY <1>2, <1>3

LEMMA SettledStays == Spec => []DocumentsSettled
<1>1. Init => DocumentsSettled
  BY DEF Init, DocumentsSettled, Settled, NoCr, OldCr
<1>2. SettingsInForce /\ KillsCounted /\ PairsCovered /\ DocumentsSettled /\ [Next]_vars => DocumentsSettled'
  BY NextSettled
<1>. QED
  BY SettingsFixed, CountsStay, PairsStay, <1>1, <1>2, PTL DEF Spec

\* Values that can be written, with what the live CR has still there, CPU as it
\* is and memory not below, and moved only for a kill or a floor.
Above(res, raised) ==
  /\ \A f \in DOMAIN res : f \in Fields /\ Writable(f, res[f])
  /\ DOMAIN live.res \subseteq DOMAIN res
  /\ \A f \in DOMAIN live.res :
       \/ res[f] = live.res[f]
       \/ raised /\ f[2] = "memory" /\ res[f] > live.res[f]
  /\ \A f \in DOMAIN res \ DOMAIN live.res : raised /\ f[2] = "memory" /\ res[f] >= 0

LEMMA LiveAbove ==
  ASSUME Covered(live.res), NEW raised \in BOOLEAN
  PROVE  Above(live.res, raised)
BY DEF Above, Covered, Ready, Writable

\* It is enough that memory has not come down.
LEMMA AboveGrown ==
  ASSUME Covered(live.res), NEW res, Above(res, TRUE),
         NEW grown, DOMAIN res \subseteq DOMAIN grown,
         \A f \in DOMAIN grown :
           /\ f \in Fields /\ Writable(f, grown[f])
           /\ \/ f \in DOMAIN res /\ grown[f] = res[f]
              \/ f \in DOMAIN res /\ f[2] = "memory" /\ grown[f] >= res[f]
              \/ f[2] = "memory" /\ f \notin DOMAIN res /\ grown[f] >= 0
  PROVE  Above(grown, TRUE)
<1>1. ASSUME NEW f \in DOMAIN live.res
      PROVE  grown[f] = live.res[f] \/ (f[2] = "memory" /\ grown[f] > live.res[f])
  <2>1. /\ f \in DOMAIN res /\ f \in DOMAIN grown /\ live.res[f] \in Int
        /\ res[f] \in Int /\ grown[f] \in Int
    BY DEF Above, Covered, Ready, Writable
  <2>. QED
    BY <2>1 DEF Above
<1>2. ASSUME NEW f \in DOMAIN grown \ DOMAIN live.res
      PROVE  f[2] = "memory" /\ grown[f] >= 0
  <2>1. grown[f] \in Int /\ (f \in DOMAIN res => res[f] \in Int)
    BY DEF Above, Writable
  <2>. QED
    BY <2>1 DEF Above
<1>. QED
  BY <1>1, <1>2 DEF Above

LEMMA RaiseAbove ==
  ASSUME SettingsInForce, Covered(live.res), NEW res, Above(res, TRUE),
         NEW f \in Fields, f[2] = "memory", NEW v \in Int
  PROVE  Above(Raise(res, f, v), TRUE)
<1>1. PICK grown : grown = Raise(res, f, v)
  OBVIOUS
<1>2. PICK q \in Int : q = Quantity(f, v) /\ InMebibytes(q)
  BY QuantityTyped
<1>3. CASE v > Get(res, f)
  <2>1. grown = Put(res, f, q)
    BY <1>1, <1>2, <1>3 DEF Raise
  <2>2. DOMAIN grown = DOMAIN res \cup {f} /\ \A g \in DOMAIN grown : grown[g] = IF g = f THEN q ELSE res[g]
    BY <2>1 DEF Put
  <2>3. f \in DOMAIN res => q >= res[f]
    <3>1. f \in DOMAIN res => res[f] \in Int /\ InMebibytes(res[f]) /\ res[f] <= v
      BY <1>3 DEF Get, Above, Writable
    <3>. QED
      BY <1>2, <3>1, QuantityHolds
  <2>4. f \notin DOMAIN res => q >= 0
    <3>1. f \notin DOMAIN res => 0 <= v
      BY <1>3 DEF Get
    <3>. QED
      BY <1>2, <3>1, QuantityHolds, ZeroHeld
  <2>5. \A g \in DOMAIN grown :
           /\ g \in Fields /\ Writable(g, grown[g])
           /\ \/ g \in DOMAIN res /\ grown[g] = res[g]
              \/ g \in DOMAIN res /\ g[2] = "memory" /\ grown[g] >= res[g]
              \/ g[2] = "memory" /\ g \notin DOMAIN res /\ grown[g] >= 0
    BY <1>2, <2>2, <2>3, <2>4 DEF Above, Writable
  <2>. QED
    BY <1>1, <2>2, <2>5, AboveGrown
<1>4. CASE ~(v > Get(res, f))
  BY <1>1, <1>4 DEF Raise
<1>. QED
  BY <1>3, <1>4

LEMMA OomFloorAbove ==
  ASSUME SettingsInForce, InRange, Covered(live.res), NEW res, Above(res, TRUE),
         NEW floor \in Int, floor >= MiB
  PROVE  Above(ApplyOomFloor(res, floor), TRUE)
<1>1. PICK req \in Int : req = (floor * 100) \div (IF cfg.memMult = 0 THEN 100 ELSE cfg.memMult)
  BY FloorRequest, SettingsNumbered
<1>2. PICK limited : limited = Raise(res, MemLim, floor) /\ Above(limited, TRUE)
  BY RaiseAbove, FieldParts
<1>3. Above(Raise(limited, MemReq, req), TRUE)
  BY <1>2, RaiseAbove, FieldParts
<1>4. ApplyOomFloor(res, floor) = Raise(limited, MemReq, req)
  BY <1>1, <1>2, Zenon DEF ApplyOomFloor
<1>. QED
  BY <1>3, <1>4

LEMMA GrowShrinkAbove ==
  ASSUME Covered(live.res), NEW raised \in BOOLEAN, NEW res, Above(res, raised)
  PROVE  Above(ApplyGrowShrink(res, live.res), raised)
<1>1. PICK done : done = ApplyGrowShrink(res, live.res)
  OBVIOUS
<1>2. /\ DOMAIN done = DOMAIN res
      /\ \A f \in DOMAIN res : done[f] = res[f] \/ (f \in DOMAIN live.res /\ done[f] = live.res[f])
  BY <1>1 DEF ApplyGrowShrink
<1>3. \A f \in DOMAIN live.res : Writable(f, live.res[f])
  BY DEF Covered, Ready, Writable
<1>. QED
  BY <1>1, <1>2, <1>3 DEF Above

\* Lifting limits keeps all that, for the live CR's limits need no lifting.
LEMMA LiftedAbove ==
  ASSUME Covered(live.res), NEW raised \in BOOLEAN, NEW res, Above(res, raised)
  PROVE  Above(LimitsLifted(res), raised)
<1>1. PICK done : done = LimitsLifted(res)
  OBVIOUS
<1>2. /\ DOMAIN done = DOMAIN res
      /\ \A f \in DOMAIN res :
           done[f] = IF f[1] = "limits" /\ <<"requests", f[2]>> \in DOMAIN res
                     THEN Larger(res[f], res[<<"requests", f[2]>>]) ELSE res[f]
  BY <1>1 DEF LimitsLifted
<1>3. \A f \in DOMAIN res : res[f] \in Int /\ f \in Fields /\ Writable(f, res[f])
  BY DEF Above, Writable
<1>4. /\ MemReq \in DOMAIN res => done[MemReq] = res[MemReq]
      /\ CpuReq \in DOMAIN res => done[CpuReq] = res[CpuReq]
  BY <1>2, FieldParts
<1>5. CpuLim \in DOMAIN res => done[CpuLim] = res[CpuLim]
  <2>. SUFFICES ASSUME CpuLim \in DOMAIN res
                PROVE  done[CpuLim] = res[CpuLim]
    OBVIOUS
  <2>1. CpuLim \in DOMAIN live.res /\ res[CpuLim] = live.res[CpuLim]
    BY FieldParts DEF Above
  <2>2. CpuReq \in DOMAIN live.res /\ live.res[CpuLim] >= live.res[CpuReq]
    BY <2>1 DEF Covered
  <2>3. CpuReq \in DOMAIN res /\ res[CpuReq] = live.res[CpuReq]
    BY <2>2, FieldParts DEF Above
  <2>4. done[CpuLim] = Larger(res[CpuLim], res[CpuReq])
    BY <1>2, <2>3, FieldParts DEF CpuReq
  <2>. QED
    BY <1>3, <2>1, <2>2, <2>3, <2>4 DEF Larger
<1>6. MemLim \in DOMAIN res =>
        /\ done[MemLim] = res[MemLim] \/ (raised /\ done[MemLim] > res[MemLim])
        /\ Writable(MemLim, done[MemLim])
  <2>. SUFFICES ASSUME MemLim \in DOMAIN res
                PROVE  /\ done[MemLim] = res[MemLim] \/ (raised /\ done[MemLim] > res[MemLim])
                       /\ Writable(MemLim, done[MemLim])
    OBVIOUS
  <2>1. done[MemLim] = IF MemReq \in DOMAIN res THEN Larger(res[MemLim], res[MemReq]) ELSE res[MemLim]
    BY <1>2, FieldParts DEF MemReq
  <2>2. CASE raised
    BY <1>3, <2>1, <2>2, FieldParts DEF Larger, Writable
  <2>3. CASE ~raised
    <3>1. MemLim \in DOMAIN live.res /\ res[MemLim] = live.res[MemLim]
      BY <2>3 DEF Above
    <3>2. MemReq \in DOMAIN live.res /\ live.res[MemLim] >= live.res[MemReq]
      BY <3>1 DEF Covered, Ready, Paired
    <3>3. MemReq \in DOMAIN res /\ res[MemReq] = live.res[MemReq]
      BY <2>3, <3>2 DEF Above
    <3>. QED
      BY <1>3, <2>1, <3>1, <3>2, <3>3 DEF Larger
  <2>. QED
    BY <2>2, <2>3
<1>7. \A f \in DOMAIN done :
        /\ done[f] = res[f] \/ (raised /\ f[2] = "memory" /\ done[f] > res[f])
        /\ Writable(f, done[f])
  BY <1>2, <1>3, <1>4, <1>5, <1>6, FieldParts
<1>8. \A f \in DOMAIN live.res :
        \/ done[f] = live.res[f]
        \/ raised /\ f[2] = "memory" /\ done[f] > live.res[f]
  <2>. TAKE f \in DOMAIN live.res
  <2>1. f \in DOMAIN res /\ live.res[f] \in Int /\ res[f] \in Int /\ done[f] \in Int
    BY <1>2, <1>3, <1>7 DEF Above, Covered, Ready, Writable
  <2>. QED
    BY <1>2, <1>7, <2>1 DEF Above
<1>9. \A f \in DOMAIN done \ DOMAIN live.res : raised /\ f[2] = "memory" /\ done[f] >= 0
  <2>. TAKE f \in DOMAIN done \ DOMAIN live.res
  <2>1. raised /\ f[2] = "memory" /\ res[f] >= 0 /\ res[f] \in Int /\ done[f] \in Int
    BY <1>2, <1>3, <1>7 DEF Above, Writable
  <2>. QED
    BY <1>2, <1>7, <2>1
<1>. QED
  BY <1>1, <1>2, <1>3, <1>7, <1>8, <1>9 DEF Above

\* The change cap has nothing to cap.
LEMMA MaxChangeAbove ==
  ASSUME SettingsInForce, Covered(live.res), NEW raised \in BOOLEAN, NEW res, Above(res, raised)
  PROVE  Above(ApplyMaxChange(res, live.res, raised), raised)
<1>1. PICK capped : capped = [f \in DOMAIN res |->
                       IF Get(live.res, f) > 0 THEN Capped(f, res[f], live.res[f], raised) ELSE res[f]]
  OBVIOUS
<1>2. ApplyMaxChange(res, live.res, raised) =
        IF cfg.maxChange <= 0 \/ live.res = Nothing THEN res ELSE LimitsLifted(capped)
  BY <1>1, Zenon DEF ApplyMaxChange
<1>3. CASE cfg.maxChange <= 0 \/ live.res = Nothing
  BY <1>2, <1>3
<1>4. CASE ~(cfg.maxChange <= 0 \/ live.res = Nothing)
  <2>1. NumberedSettings(cfg) /\ cfg.maxChange > 0
    BY <1>4, SettingsNumbered DEF NumberedSettings
  <2>2. \A f \in DOMAIN res : capped[f] = res[f]
    <3>. TAKE f \in DOMAIN res
    <3>1. CASE Get(live.res, f) > 0
      <4>1. f \in DOMAIN live.res /\ live.res[f] > 0
        BY <3>1 DEF Get
      <4>2. PICK base \in Int, new \in Int :
              /\ base = live.res[f] /\ new = res[f] /\ base > 0
              /\ Writable(f, base) /\ f \in Fields
              /\ new = base \/ (new > base /\ raised /\ f[2] = "memory")
        BY <4>1 DEF Above, Covered, Ready, Writable
      <4>3. PICK upper, lower :
              /\ upper = ((base \div Unit(f)) * (100 + cfg.maxChange)) \div 100
              /\ lower = -((-((base \div Unit(f)) * (100 - cfg.maxChange))) \div 100)
        OBVIOUS
      <4>4. PICK a \in Int, b \in Int :
              a = upper * Unit(f) /\ b = lower * Unit(f) /\ b <= base /\ base <= a
        BY <2>1, <4>2, <4>3, EdgesNear
      <4>5. PICK spared \in BOOLEAN : spared <=> raised /\ f[2] = "memory"
        OBVIOUS
      <4>6. PICK kept \in Int : kept = IF new > a /\ ~spared THEN a ELSE IF new < b THEN b ELSE new
        BY <4>4
      <4>7. Capped(f, new, base, raised) = IF kept = new THEN new ELSE Below(f, kept)
        BY <4>3, <4>4, <4>5, <4>6, Zenon DEF Capped
      <4>8. kept = new
        BY <4>2, <4>4, <4>5, <4>6
      <4>. QED
        BY <1>1, <3>1, <4>2, <4>7, <4>8
    <3>2. CASE ~(Get(live.res, f) > 0)
      BY <1>1, <3>2
    <3>. QED
      BY <3>1, <3>2
  <2>3. Above(capped, raised)
    BY <1>1, <2>2 DEF Above
  <2>. QED
    BY <1>2, <1>4, <2>3, LiftedAbove
<1>. QED
  BY <1>3, <1>4

\* The minima hold already, but perhaps for memory that was added.
LEMMA FloorsAbove ==
  ASSUME SettingsInForce, Covered(live.res), InForceNow(live.res),
         NEW raised \in BOOLEAN, NEW res, Above(res, raised)
  PROVE  Above(EnforceFloors(res), raised)
<1>1. PICK floored : floored = [f \in DOMAIN res |-> Larger(res[f], Bound(cfg.min, f))]
  OBVIOUS
<1>2. EnforceFloors(res) \in {res, LimitsLifted(floored)}
  BY <1>1, Zenon DEF EnforceFloors
<1>3. \A f \in DOMAIN res :
        /\ f \in Fields /\ res[f] \in Int /\ Bound(cfg.min, f) \in Int
        /\ Writable(f, res[f]) /\ Writable(f, Bound(cfg.min, f))
  BY SettingsNumbered, BoundTyped DEF NumberedSettings, Above, Writable
<1>4. \A f \in DOMAIN live.res : f \in DOMAIN res /\ floored[f] = res[f]
  <2>. TAKE f \in DOMAIN live.res
  <2>1. f \in DOMAIN res /\ live.res[f] \in Int /\ live.res[f] >= Bound(cfg.min, f)
    BY DEF Above, InForceNow, Covered, Ready
  <2>2. res[f] >= live.res[f]
    BY <1>3, <2>1 DEF Above
  <2>. QED
    BY <1>1, <1>3, <2>1, <2>2 DEF Larger
<1>5. \A f \in DOMAIN res \ DOMAIN live.res : floored[f] >= 0
  <2>. TAKE f \in DOMAIN res \ DOMAIN live.res
  <2>1. res[f] >= 0
    BY DEF Above
  <2>. QED
    BY <1>1, <1>3, <2>1 DEF Larger
<1>6. \A f \in DOMAIN res : Writable(f, floored[f])
  BY <1>1, <1>3 DEF Larger
<1>7. Above(floored, raised)
  BY <1>1, <1>3, <1>4, <1>5, <1>6 DEF Above
<1>. QED
  BY <1>2, <1>7, LiftedAbove

LEMMA DropAbove ==
  ASSUME InForceNow(live.res), NEW raised \in BOOLEAN, NEW res, Above(res, raised)
  PROVE  Above(DropCpuLimit(res), raised)
<1>1. CASE cfg.emitCpuLimits
  BY <1>1 DEF DropCpuLimit
<1>2. CASE ~cfg.emitCpuLimits
  <2>1. PICK kept : kept = Only(res, Fields \ {CpuLim})
    OBVIOUS
  <2>2. CpuLim \notin DOMAIN res
    BY <1>2, FieldParts DEF InForceNow, Above
  <2>3. DOMAIN kept = DOMAIN res /\ \A f \in DOMAIN kept : kept[f] = res[f]
    BY <2>1, <2>2 DEF Only, Above
  <2>4. Above(kept, raised)
    BY <2>3 DEF Above
  <2>. QED
    BY <1>2, <2>1, <2>4 DEF DropCpuLimit
<1>. QED
  BY <1>1, <1>2

\* All the passes, on what a bump left of the live CR.
LEMMA PassesAbove ==
  ASSUME SettingsInForce, KillsCounted, PairsCovered, InRange, Listed, InForceNow(live.res),
         NEW raised \in BOOLEAN, raised <=> Bumping \/ StickyFloor,
         NEW bumped, bumped = IF Bumping THEN ApplyOomFloor(live.res, Target) ELSE live.res
  PROVE  Above(Passes(bumped), raised)
<1>1. Covered(live.res)
  BY DEF PairsCovered
<1>2. Above(bumped, raised)
  <2>1. CASE Bumping
    <3>1. PICK floor \in Int : floor = Target /\ floor >= MiB
      BY <2>1, TargetPositive DEF Bumping
    <3>2. Above(ApplyOomFloor(live.res, floor), TRUE)
      BY <1>1, <3>1, LiveAbove, OomFloorAbove
    <3>. QED
      BY <2>1, <3>1, <3>2
  <2>. QED
    BY <1>1, <2>1, LiveAbove
<1>3. PICK sticky : sticky = IF StickyFloor THEN ApplyOomFloor(bumped, Prior.floor) ELSE bumped
  OBVIOUS
<1>4. Above(sticky, raised)
  <2>1. CASE StickyFloor
    <3>1. PICK floor \in Int : floor = Prior.floor /\ floor >= MiB
      BY <2>1, PriorPositive DEF StickyFloor, Positive
    <3>2. raised = TRUE
      BY <2>1
    <3>3. Above(ApplyOomFloor(bumped, floor), TRUE)
      BY <1>1, <1>2, <3>1, <3>2, OomFloorAbove
    <3>. QED
      BY <1>3, <2>1, <3>1, <3>2, <3>3
  <2>. QED
    BY <1>2, <1>3, <2>1
<1>5. PICK policy : policy = ApplyGrowShrink(sticky, live.res)
  OBVIOUS
<1>6. PICK moved : moved = ApplyMaxChange(policy, live.res, raised)
  OBVIOUS
<1>7. Above(EnforceFloors(moved), raised)
  BY <1>1, <1>4, <1>5, <1>6, GrowShrinkAbove, MaxChangeAbove, FloorsAbove
<1>8. Passes(bumped) = DropCpuLimit(EnforceFloors(moved))
  <2>1. Baseline = live.res
    BY DEF Baseline, Listed
  <2>2. raised = (Bumping \/ StickyFloor)
    OBVIOUS
  <2>. QED
    BY <1>3, <1>5, <1>6, <2>1, <2>2, Zenon DEF Passes
<1>. QED
  BY <1>7, <1>8, DropAbove

CooldownKept ==
  doc'.res # doc.res /\ InCooldown =>
    \A f \in Fields : Get(doc'.res, f) # Get(live.res, f) =>
      f[2] = "memory" /\ (FreshOom \/ StickyFloor) /\ Get(doc'.res, f) > Get(live.res, f)

LEMMA NextCools ==
  ASSUME SettingsInForce, KillsCounted, PairsCovered, DocumentsSettled, InRange, [Next]_vars
  PROVE  CooldownKept
<1>. SUFFICES ASSUME doc'.res # doc.res, InCooldown, NEW f \in Fields,
                     Get(doc'.res, f) # Get(live.res, f)
              PROVE  f[2] = "memory" /\ (FreshOom \/ StickyFloor) /\ Get(doc'.res, f) > Get(live.res, f)
  BY DEF CooldownKept
<1>1. PICK m \in Monitorings : Sync(m)
  BY ResKept
<1>2. PICK rec : rec = Recommendation(m)
  OBVIOUS
<1>3. PICK written : written = Document(rec)
  OBVIOUS
<1>4. written.res = rec.res /\ NoCr.res = Nothing /\ DOMAIN Nothing = {}
  BY <1>3 DEF Document, NoCr, Nothing
<1>5. Listed /\ InForceNow(live.res) /\ ~BoundsConflict /\ ~cfg.skipped
  <2>1. live.cooling # 0 /\ Listed
    BY DEF InCooldown
  <2>. QED
    BY <2>1 DEF DocumentsSettled, Settled, InForceNow, Listed
<1>6. PICK raised \in BOOLEAN : raised <=> Bumping \/ StickyFloor
  OBVIOUS
<1>7. PICK bumped : bumped = IF Bumping THEN ApplyOomFloor(live.res, Target) ELSE live.res
  OBVIOUS
<1>8. PICK final : final = Passes(bumped) /\ Above(final, raised)
  BY <1>5, <1>6, <1>7, PassesAbove
<1>9. rec.res = final
  <2>1. Start(m) = live.res
    BY <1>5, Zenon DEF Start, Kept
  <2>2. live.res # Nothing
    BY <1>5 DEF Listed
  <2>. QED
    BY <1>2, <1>7, <1>8, <2>1, <2>2, RecommendationParts
<1>10. \/ doc'.res = final
       \/ final = Nothing /\ doc'.res = Nothing
  BY <1>1, <1>2, <1>3, <1>4, <1>5, <1>9 DEF Sync, Rendered
<1>11. doc'.res = final
  BY <1>10
<1>12. PICK v \in Int, w \in Int : v = Get(final, f) /\ w = Get(live.res, f)
  BY <1>8 DEF Get, Above, Writable, PairsCovered, Covered, Ready
<1>13. f[2] = "memory" /\ raised /\ v > w
  <2>1. CASE f \in DOMAIN live.res
    BY <1>8, <1>11, <1>12, <2>1 DEF Above, Get
  <2>2. CASE f \notin DOMAIN live.res
    BY <1>8, <1>11, <1>12, <2>2 DEF Above, Get
  <2>. QED
    BY <2>1, <2>2
<1>. QED
  BY <1>6, <1>11, <1>12, <1>13 DEF Bumping

\* In a cooldown no sync changes what the live CR has, whatever the policies, the
\* change cap, the minima and the dropping of CPU limits are, but memory, upward,
\* for a new kill or the floor of an earlier one.
\* (_build_containers_payload; docs/reference.md, cooldownHours)
THEOREM CooldownStays == Spec /\ []InRange => CooldownKeeps
<1>1. SettingsInForce /\ KillsCounted /\ PairsCovered /\ DocumentsSettled /\ InRange /\ [Next]_vars =>
        [doc'.res # doc.res /\ InCooldown =>
           \A f \in Fields : Get(doc'.res, f) # Get(live.res, f) =>
             f[2] = "memory" /\ (FreshOom \/ StickyFloor) /\ Get(doc'.res, f) > Get(live.res, f)]_vars
  BY NextCools DEF CooldownKept
<1>. QED
  BY SettingsFixed, CountsStay, PairsStay, SettledStays, <1>1, PTL DEF Spec, CooldownKeeps

-----------------------------------------------------------------------------
(* Kills raise the limit.                                                  *)

\* No kill is recorded before it happens.
Past(cr, e) == cr.oom.lastEvent <= e /\ cr.legacy.lastEvent <= e
KillsPast   == event > 0 => Past(live, event) /\ Past(doc, event)

LEMMA RankBounded ==
  ASSUME KillsCounted, NEW t \in Nat
  PROVE  Rank(t) \in Nat /\ Rank(t) <= t /\ Rank(t) <= Cardinality(Timestamps)
<1>1. PICK upto : upto = {u \in Timestamps : u <= t}
  OBVIOUS
<1>2. Timestamps \subseteq Nat \ {0}
  BY TimestampsAre DEF KillsCounted, Countable, Counts
<1>3. IsFiniteSet(1 .. t) /\ Cardinality(1 .. t) = t
  BY FS_Interval
<1>4. upto \subseteq 1 .. t /\ upto \subseteq Timestamps
  <2>. SUFFICES ASSUME NEW u \in Timestamps, u <= t
                PROVE  u \in 1 .. t
    BY <1>1
  <2>1. u \in Nat /\ u # 0
    BY <1>2
  <2>. QED
    BY <2>1
<1>5. /\ Cardinality(upto) \in Nat /\ Cardinality(upto) <= Cardinality(1 .. t)
      /\ Cardinality(upto) <= Cardinality(Timestamps)
  BY <1>3, <1>4, TimestampsFinite, FS_Subset, FS_CardinalityType
<1>. QED
  BY <1>1, <1>3, <1>5 DEF Rank

LEMMA RenumberRanks ==
  ASSUME NEW c, Countable(c)
  PROVE  /\ Renumber(c).oom.lastEvent = Rank(c.oom.lastEvent)
         /\ Renumber(c).legacy.lastEvent = Rank(c.legacy.lastEvent)
         /\ Rank(c.oom.lastEvent) = c.oom.lastEvent => Renumber(c).oom = c.oom
<1>1. PICK o : o = [c.oom EXCEPT !.lastEvent = Rank(@)]
  OBVIOUS
<1>2. PICK l : l = [c.legacy EXCEPT !.lastEvent = Rank(@)]
  OBVIOUS
<1>3. Renumber(c).oom = o /\ Renumber(c).legacy = l
  BY <1>1, <1>2, RenumberParts
<1>4. Rank(c.oom.lastEvent) = c.oom.lastEvent => o = c.oom
  BY <1>1 DEF Countable, Counts, OomFields
<1>. QED
  BY <1>1, <1>2, <1>3, <1>4 DEF Countable, Counts, OomFields

LEMMA PriorPast ==
  ASSUME KillsCounted, KillsPast, event > 0
  PROVE  Prior.lastEvent <= event
<1>1. ParseOom(live).lastEvent =
        IF live.oom.lastEvent > 0 THEN live.oom.lastEvent ELSE live.legacy.lastEvent
  BY DEF ParseOom, KillsCounted, Countable, Counts, OomFields
<1>2. ParseOom(live).lastEvent <= event /\ 0 <= event
  BY <1>1 DEF KillsPast, Past, KillsCounted
<1>. QED
  BY <1>2 DEF Prior, NoOom

LEMMA NextPast ==
  ASSUME KillsCounted, KillsPast, [Next]_vars
  PROVE  KillsPast'
<1>1. ASSUME NEW m, Sync(m)
      PROVE  KillsPast'
  <2>. SUFFICES ASSUME event > 0
                PROVE  Past(live', event) /\ Past(doc', event)
    BY <1>1 DEF Sync, KillsPast, Past
  <2>1. PICK rec : rec = Recommendation(m)
    OBVIOUS
  <2>2. PICK written : written = Document(rec)
    OBVIOUS
  <2>3. Counts(rec.oom) /\ rec.oom.lastEvent <= event
    BY <2>1, RecommendationOom, PriorCounts, RecordedCounts, PriorPast DEF KillsCounted
  <2>4. /\ written.legacy = NoLegacy /\ DOMAIN written = CrFields
        /\ \E mark : written.oom = [rec.oom EXCEPT !.investigation = mark]
    BY <2>2 DEF Document, CrFields
  <2>5. Past(written, event)
    BY <2>3, <2>4 DEF Past, Counts, OomFields, NoLegacy, KillsCounted
  <2>6. /\ doc' = written \/ doc' = NoCr \/ doc' = doc
        /\ live' = live \/ live' = [doc' EXCEPT !.legacy = live.legacy]
    BY <1>1, <2>1, <2>2 DEF Sync
  <2>7. Past(NoCr, event)
    BY DEF Past, NoCr, NoOom, NoLegacy, KillsCounted
  <2>8. Past(doc', event) /\ DOMAIN doc' = CrFields
    BY <2>4, <2>5, <2>6, <2>7, NoCrCounts DEF KillsPast, KillsCounted, Countable
  <2>. QED
    BY <2>6, <2>8 DEF KillsPast, Past, CrFields
<1>2. CASE Reconcile
  BY <1>2 DEF Reconcile, KillsPast
<1>3. CASE OutOfMemory
  <2>1. live' = Renumber(live) /\ doc' = Renumber(doc) /\ event' = Cardinality(Timestamps) + 1
    BY <1>3 DEF OutOfMemory
  <2>2. \A t \in Nat : Rank(t) <= event'
    <3>. TAKE t \in Nat
    <3>. QED
      BY <2>1, RankBounded, TimestampsFinite
  <2>. QED
    BY <2>1, <2>2, RenumberRanks DEF KillsPast, Past, KillsCounted, Countable, Counts
<1>4. CASE Recreate
  BY <1>4 DEF Recreate, KillsPast
<1>5. CASE ToggleReset
  BY <1>5 DEF ToggleReset, KillsPast
<1>6. CASE Hour
  <2>1. /\ \E h : live' = [live EXCEPT !.cooling = h]
        /\ \E h : doc' = [doc EXCEPT !.cooling = h]
        /\ event' = event
    BY <1>6 DEF Hour
  <2>2. /\ live'.oom = live.oom /\ live'.legacy = live.legacy
        /\ doc'.oom = doc.oom /\ doc'.legacy = doc.legacy
    BY <2>1 DEF KillsCounted, Countable, CrFields
  <2>. QED
    BY <2>1, <2>2 DEF KillsPast, Past
<1>7. CASE UNCHANGED vars
  BY <1>7 DEF vars, KillsPast
<1>. QED
  BY <1>1, <1>2, <1>3, <1>4, <1>5, <1>6, <1>7 DEF Next

LEMMA PastStays == Spec => []KillsPast
<1>1. Init => KillsPast
  BY DEF Init, KillsPast
<1>2. KillsCounted /\ KillsPast /\ [Next]_vars => KillsPast'
  BY NextPast
<1>. QED
  BY CountsStay, <1>1, <1>2, PTL DEF Spec

\* Half as much again, in whole mebibytes, is more.
LEMMA HalfAgain ==
  ASSUME NEW trap \in Int, trap >= MiB, NEW aim \in Int, 2 * aim >= 3 * trap - 1
  PROVE  Quantity(MemLim, aim) > trap
<1>1. PICK d \in Nat \ {0}, half \in Nat : d = MiB /\ d = 2 * half
  <2>1. MiB = 2 * (MiB \div 2) /\ MiB \div 2 \in Nat
    BY ScaleAssumption
  <2>. QED
    BY <2>1, ScaleAssumption
<1>2. PICK q \in Int, r \in 0 .. d - 1 : q = aim \div d /\ r = aim % d /\ aim = d * q + r
  BY Division
<1>3. PICK low \in Int : low = d * q
  OBVIOUS
<1>4. PICK h \in Int : h = HalfEven(aim, d)
  BY HalfEvenTyped
<1>5. Quantity(MemLim, aim) = h * d
  BY <1>1, <1>4, FieldParts DEF Quantity, FmtMemory, ParseMemoryBytes
<1>6. CASE h = q + 1
  <2>1. h * d = low + d
    BY <1>3, <1>6
  <2>. QED
    BY <1>1, <1>2, <1>3, <1>5, <2>1, ScaleAssumption
<1>7. CASE h # q + 1
  <2>1. h = q /\ (2 * r < d \/ (2 * r = d /\ q % 2 = 0))
    BY <1>2, <1>4, <1>7 DEF HalfEven
  <2>2. h * d = low
    BY <1>3, <2>1
  <2>3. CASE 2 * r < d
    BY <1>1, <1>2, <1>3, <1>5, <2>2, <2>3
  <2>4. CASE 2 * r = d /\ q % 2 = 0
    <3>1. q >= 2
      <4>. SUFFICES ASSUME q <= 0
                    PROVE  FALSE
        BY <2>4
      <4>1. q * MiB <= 0 * MiB
        BY ScaleMonotone
      <4>. QED
        BY <1>1, <1>2, <1>3, <2>4, <4>1, ScaleAssumption
    <3>2. PICK e \in Nat : q = 2 + e
      <4>1. q - 2 \in Nat
        BY <3>1
      <4>. QED
        BY <4>1
    <3>3. low = 2 * d + d * e /\ d * e \in Nat
      BY <1>3, <3>2
    <3>. QED
      BY <1>1, <1>2, <1>3, <1>5, <2>2, <2>4, <3>3
  <2>. QED
    BY <2>1, <2>3, <2>4
<1>. QED
  BY <1>6, <1>7

\* The settings under which a bump is more than rounding takes back.
BumpsClear == InRange /\ cfg.bumpFactor >= 150

LEMMA TargetClears ==
  ASSUME SettingsInForce, KillsCounted, PairsCovered, BumpsClear, FreshOom
  PROVE  \/ Quantity(MemLim, Target) > TrapLimit
         \/ cfg.max[MemLim] > 0 /\ TrapLimit >= Bound(cfg.max, MemLim)
<1>1. NumberedSettings(cfg) /\ MemLim \in Fields /\ MemLim[2] = "memory"
  BY SettingsNumbered, FieldParts
<1>2. PICK trap \in Nat : trap = TrapLimit /\ trap >= MiB
  <2>1. Prior.lastEvent \in Nat
    BY PriorCounts DEF Counts
  <2>2. TrapLimit > 0
    BY <2>1 DEF FreshOom, DetectOomEvents
  <2>. QED
    BY <2>2 DEF TrapLimit, PairsCovered, Positive, BumpsClear
<1>3. PICK n \in Int : n = trap * cfg.bumpFactor /\ n >= 150 * trap
  <2>1. PICK e \in Nat : cfg.bumpFactor = 150 + e
    <3>1. cfg.bumpFactor \in Int /\ cfg.bumpFactor >= 150
      BY <1>1 DEF NumberedSettings, BumpsClear
    <3>2. cfg.bumpFactor - 150 \in Nat
      BY <3>1
    <3>. QED
      BY <3>1, <3>2
  <2>2. PICK p \in Nat : p = trap * e
    OBVIOUS
  <2>3. trap * (150 + e) = 150 * trap + p
    BY <2>2
  <2>. QED
    BY <2>1, <2>2, <2>3
<1>4. PICK aim \in Int : aim = n \div 100 /\ 2 * aim >= 3 * trap - 1
  BY <1>3
<1>5. Target = Below(MemLim, aim)
  BY <1>2, <1>3, <1>4 DEF Target
<1>6. CASE Target = aim
  BY <1>2, <1>4, <1>6, HalfAgain
<1>7. CASE Target # aim
  <2>1. cfg.max[MemLim] > 0 /\ Target = Bound(cfg.max, MemLim)
    BY <1>5, <1>7 DEF Below, Smaller
  <2>2. Bound(cfg.max, MemLim) \in Int /\ InMebibytes(Bound(cfg.max, MemLim))
    BY <1>1, BoundTyped DEF NumberedSettings
  <2>3. Quantity(MemLim, Target) = Bound(cfg.max, MemLim)
    BY <2>1, <2>2, QuantityExact
  <2>. QED
    BY <1>2, <2>1, <2>2, <2>3
<1>. QED
  BY <1>6, <1>7

\* What a sync recommends when it records a new kill.
LEMMA RecommendationRaises ==
  ASSUME SettingsInForce, KillsCounted, PairsCovered, BumpsClear, FreshOom, ~cfg.shrinkOnly,
         NEW m \in Monitorings, Recommendation(m).oom.lastEvent = event
  PROVE  \/ Get(Recommendation(m).res, MemLim) > TrapLimit
         \/ Recommendation(m).oom.investigation
         \/ cfg.max[MemLim] > 0 /\ TrapLimit >= Bound(cfg.max, MemLim)
<1>1. InRange
  BY DEF BumpsClear
<1>2. PICK start, bumped, final : \E effective \in BOOLEAN :
           /\ start = Start(m)
           /\ bumped = IF Bumping THEN ApplyOomFloor(start, Target) ELSE start
           /\ final = Passes(bumped)
           /\ effective <=> /\ Bumping
                            /\ Get(final, MemLim) >= Get(bumped, MemLim)
                            /\ Get(final, MemLim) > Get(start, MemLim)
           /\ Recommendation(m) =
                IF start = Nothing THEN [res |-> Nothing, oom |-> Prior]
                ELSE [res |-> final, oom |-> IF FreshOom THEN Recorded(effective) ELSE Prior]
  BY RecommendationParts
<1>3. PICK effective \in BOOLEAN :
        Recommendation(m) = IF start = Nothing THEN [res |-> Nothing, oom |-> Prior]
                            ELSE [res |-> final, oom |-> IF FreshOom THEN Recorded(effective) ELSE Prior]
  BY <1>2
<1>4. event > Prior.lastEvent
  BY PriorCounts DEF FreshOom, DetectOomEvents, Counts, KillsCounted
<1>5. Recommendation(m).res = final /\ Recommendation(m).oom = Recorded(effective)
  <2>1. start # Nothing
    <3>. SUFFICES ASSUME start = Nothing
                  PROVE  FALSE
      OBVIOUS
    <3>1. Recommendation(m).oom = Prior
      BY <1>3
    <3>. QED
      BY <1>4, <3>1, PriorCounts DEF Counts
  <2>. QED
    BY <1>3, <2>1
<1>6. CASE ~Bumping
  <2>1. Recorded(effective).investigation
    BY <1>6, Zenon DEF Recorded
  <2>. QED
    BY <1>5, <2>1
<1>7. CASE Bumping
  <2>. SUFFICES ASSUME ~(cfg.max[MemLim] > 0 /\ TrapLimit >= Bound(cfg.max, MemLim))
                PROVE  Get(final, MemLim) > TrapLimit
    BY <1>5
  <2>1. PICK b \in Int : b = TrapLimit + 1
    BY <1>1 DEF TrapLimit, PairsCovered, Positive
  <2>2. TrapLimit \in Int /\ Bound(cfg.max, MemLim) \in Int
    BY <1>1, BoundTyped, SettingsNumbered, FieldParts
       DEF TrapLimit, PairsCovered, Positive, NumberedSettings
  <2>3. cfg.max[MemLim] > 0 => b <= Bound(cfg.max, MemLim)
    BY <2>1, <2>2
  <2>4. PICK target \in Int : target = Target /\ target > 0 /\ Quantity(MemLim, target) >= b
    <3>1. Target \in Int /\ Target >= MiB
      BY <1>1, TargetPositive
    <3>2. Quantity(MemLim, Target) > TrapLimit
      BY TargetClears
    <3>3. Quantity(MemLim, Target) \in Int
      BY <3>1, QuantityTyped
    <3>. QED
      BY <2>1, <2>2, <3>1, <3>2, <3>3, ScaleAssumption
  <2>5. Ready(bumped) /\ Ready(start) /\ bumped = ApplyOomFloor(start, target)
    BY <1>1, <1>2, <1>7, <2>4, BumpedReady, StartReady
  <2>6. MemLim \in DOMAIN bumped /\ bumped[MemLim] >= b
    <3>1. MemLim \in DOMAIN bumped /\ bumped[MemLim] \in Int /\ bumped[MemLim] >= Quantity(MemLim, target)
      BY <2>4, <2>5, LimitRaised
    <3>2. Quantity(MemLim, target) \in Int
      BY QuantityTyped
    <3>. QED
      BY <2>4, <3>1, <3>2
  <2>7. MemLim \in DOMAIN final /\ final[MemLim] >= b
    <3>1. LET done == Passes(bumped) IN MemLim \in DOMAIN done /\ done[MemLim] >= b
      BY <1>1, <1>7, <2>3, <2>5, <2>6, PassesHold
    <3>. QED
      BY <1>2, <3>1
  <2>8. final[MemLim] \in Int
    BY <1>1, <1>2, <2>5, <2>7, PassesCovered DEF Covered, Ready
  <2>. QED
    BY <2>1, <2>2, <2>7, <2>8 DEF Get
<1>. QED
  BY <1>6, <1>7

KillRaises ==
  doc'.oom # doc.oom /\ FreshOom /\ doc'.oom.lastEvent = event /\ ~cfg.shrinkOnly =>
    \/ Get(doc'.res, MemLim) > TrapLimit
    \/ doc'.oom.investigation
    \/ cfg.max[MemLim] > 0 /\ TrapLimit >= Bound(cfg.max, MemLim)

LEMMA NextRaises ==
  ASSUME SettingsInForce, KillsCounted, PairsCovered, KillsPast, BumpsClear, [Next]_vars
  PROVE  KillRaises
<1>. SUFFICES ASSUME doc'.oom # doc.oom, FreshOom, doc'.oom.lastEvent = event, ~cfg.shrinkOnly
              PROVE  \/ Get(doc'.res, MemLim) > TrapLimit
                     \/ doc'.oom.investigation
                     \/ cfg.max[MemLim] > 0 /\ TrapLimit >= Bound(cfg.max, MemLim)
  BY DEF KillRaises
<1>1. event \in Nat /\ event > 0
  BY PriorCounts DEF FreshOom, DetectOomEvents, Counts, KillsCounted
<1>2. ASSUME NEW m \in Monitorings, Sync(m)
      PROVE  \/ Get(doc'.res, MemLim) > TrapLimit
             \/ doc'.oom.investigation
             \/ cfg.max[MemLim] > 0 /\ TrapLimit >= Bound(cfg.max, MemLim)
  <2>1. PICK rec : rec = Recommendation(m)
    OBVIOUS
  <2>2. PICK written : written = Document(rec)
    OBVIOUS
  <2>3. doc' = written \/ doc' = NoCr \/ doc' = doc
    BY <1>2, <2>1, <2>2 DEF Sync
  <2>4. doc' = written
    BY <1>1, <2>3 DEF NoCr, NoOom
  <2>5. Counts(rec.oom)
    BY <2>1, RecommendationOom, PriorCounts, RecordedCounts
  <2>6. /\ written.res = rec.res
        /\ \E mark : written.oom = [rec.oom EXCEPT !.investigation = @ \/ mark]
    BY <2>2 DEF Document
  <2>7. /\ written.oom.lastEvent = rec.oom.lastEvent
        /\ rec.oom.investigation => written.oom.investigation
    BY <2>5, <2>6 DEF Counts, OomFields
  <2>. QED
    BY <2>1, <2>4, <2>6, <2>7, RecommendationRaises
<1>3. CASE OutOfMemory
  <2>1. PICK t \in Nat : t = doc.oom.lastEvent /\ t <= event
    BY <1>1 DEF KillsCounted, Countable, Counts, KillsPast, Past
  <2>2. doc' = Renumber(doc) /\ Rank(t) <= t /\ Rank(t) \in Nat
    BY <1>3, RankBounded DEF OutOfMemory
  <2>3. doc'.oom.lastEvent = Rank(t) /\ (Rank(t) = t => doc'.oom = doc.oom)
    BY <2>1, <2>2, RenumberRanks DEF KillsCounted
  <2>. QED
    BY <1>1, <2>1, <2>2, <2>3
<1>4. CASE Hour
  <2>1. \E h : doc' = [doc EXCEPT !.cooling = h]
    BY <1>4 DEF Hour
  <2>2. doc'.oom = doc.oom
    BY <2>1 DEF KillsCounted, Countable, CrFields
  <2>. QED
    BY <2>2
<1>5. CASE Reconcile \/ Recreate \/ ToggleReset \/ UNCHANGED vars
  BY <1>5 DEF Reconcile, Recreate, ToggleReset, vars
<1>. QED
  BY <1>2, <1>3, <1>4, <1>5 DEF Next

\* A sync that records a new kill writes a limit above the one that killed, whatever a
\* held window, a cooldown, the change cap or missing data leave of the
\* recommendation, unless the ceiling is reached or the container is marked for
\* investigation - if a bump is half as much again (the default) or more.
\* (_build_containers_payload; docs/reference.md, OOM-aware bumps)
THEOREM KillsAreHeeded == Spec /\ []BumpsClear => KillsRaiseLimit
<1>1. SettingsInForce /\ KillsCounted /\ PairsCovered /\ KillsPast /\ BumpsClear /\ [Next]_vars =>
        [doc'.oom # doc.oom /\ FreshOom /\ doc'.oom.lastEvent = event /\ ~cfg.shrinkOnly =>
           \/ Get(doc'.res, MemLim) > TrapLimit
           \/ doc'.oom.investigation
           \/ cfg.max[MemLim] > 0 /\ TrapLimit >= Bound(cfg.max, MemLim)]_vars
  BY NextRaises DEF KillRaises
<1>. QED
  BY SettingsFixed, CountsStay, PairsStay, PastStays, <1>1, PTL DEF Spec, KillsRaiseLimit
=============================================================================
