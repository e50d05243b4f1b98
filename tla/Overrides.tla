----------------------------- MODULE Overrides ------------------------------
(***************************************************************************)
(* overrides.py: annotations of a namespace and of a workload override the *)
(* chart's settings, the workload's before the namespace's.  Notes are     *)
(* functions from the keys that are annotated to text literals.            *)
(*                                                                         *)
(* Some keys are projected onto the settings (parse, merge, apply); the    *)
(* markers are looked up in the raw annotations one by one.                *)
(***************************************************************************)
EXTENDS Settings

Markers ==
  {"enabled", "skip", "autoRollout", "oomDetectionEnabled", "oomFloorEnabled",
   "oomFloorReset", "healthGateEnabled", "skipContainers"}
\* _KEY_SPEC
OverrideKeys == Keys \ Markers

\* _parse_bool, which raises on what is neither true nor false.
ParseBool(v) ==
  CASE v.word = "true" -> {TRUE}
    [] v.word \in {"false", "empty"} -> {FALSE}
    [] OTHER -> {}

\* The value of an annotation, none if it cannot be read.
ParseNote(key, v) ==
  CASE key \in FlagKeys \cup Markers -> ParseBool(v)
    [] key \in CountKeys  -> Whole(v)
    [] key \in MarginKeys -> {{n} : n \in v.number}
    [] key \in WindowKeys -> {v}
    [] OTHER -> v.number

\* parse_annotations: what cannot be read is dropped with a warning, as are
\* `enabled' on a workload and `skip' on a namespace.
ParseAnnotations(scope, notes) ==
  LET misplaced == IF scope = "workload" THEN {"enabled"} ELSE {"skip"}
      kept == {key \in (DOMAIN notes \cap (OverrideKeys \cup Markers)) \ (misplaced \cup {"skipContainers"}) :
                 ParseNote(key, notes[key]) # {}}
  IN [key \in kept |-> The(ParseNote(key, notes[key]))]

\* merge, for two layers
Merge(ns, wl) ==
  [key \in DOMAIN ns \cup DOMAIN wl |-> IF key \in DOMAIN wl THEN wl[key] ELSE ns[key]]

\* apply: nothing is validated here.
Apply(base, over) ==
  [key \in DOMAIN base |-> IF key \in DOMAIN over \cap OverrideKeys THEN over[key] ELSE base[key]]

ResolveForWorkload(base, ns, wl) ==
  Apply(base, Merge(ParseAnnotations("namespace", ns), ParseAnnotations("workload", wl)))

-----------------------------------------------------------------------------
(* The markers.                                                            *)

Marked(notes, key) == IF key \in DOMAIN notes THEN ParseBool(notes[key]) ELSE {}

IsNamespaceEnabled(ns) == Marked(ns, "enabled") = {TRUE}
IsWorkloadSkipped(wl)  == Marked(wl, "skip") = {TRUE}

\* Mutant of ResolveBoolChain: a malformed annotation counts as false.
ResolveBoolChainStrict(key, default, ns, wl) ==
  IF key \in DOMAIN wl THEN Marked(wl, key) = {TRUE}
  ELSE IF key \in DOMAIN ns THEN Marked(ns, key) = {TRUE}
  ELSE default

\* _resolve_bool_chain: the first layer that can be read decides.
ResolveBoolChain(key, default, ns, wl) ==
  IF Marked(wl, key) # {} THEN The(Marked(wl, key))
  ELSE IF Marked(ns, key) # {} THEN The(Marked(ns, key))
  ELSE default

IsOomDetectionEnabled(default, ns, wl) == ResolveBoolChain("oomDetectionEnabled", default, ns, wl)
IsOomFloorEnabled(default, ns, wl)     == ResolveBoolChain("oomFloorEnabled", default, ns, wl)
IsHealthGateEnabled(default, ns, wl)   == ResolveBoolChain("healthGateEnabled", default, ns, wl)

\* is_oom_floor_reset_requested: either layer is enough.
IsOomFloorResetRequested(ns, wl) ==
  TRUE \in Marked(wl, "oomFloorReset") \cup Marked(ns, "oomFloorReset")

\* resolve_skip_containers, for one container: what the most specific layer
\* says counts, also when it says nothing.
IsContainerSkipped(chart, ns, wl) ==
  IF "skipContainers" \in DOMAIN wl THEN wl["skipContainers"].word # "empty"
  ELSE IF "skipContainers" \in DOMAIN ns THEN ns["skipContainers"].word # "empty"
  ELSE chart
=============================================================================
