----------------------------- MODULE DirectSync -----------------------------
(***************************************************************************)
(* One sync Job in direct mode (main.py cmd_sync, discovery.py,            *)
(* workload.py, and _apply_direct with _prune_orphan_crs of                *)
(* writeback_webhook.py): read the opted-in namespaces, their workloads and *)
(* their live ResourceOverrides, query Prometheus, server-side apply one   *)
(* CR per workload, delete the tool's CRs that have no workload left.      *)
(*                                                                         *)
(* Every read and every write is a step of its own.  Between two of them   *)
(* workloads come and go, a namespace opts in or out, usage changes, and   *)
(* another field manager (ArgoCD, a person) applies, releases or prunes a  *)
(* CR.  Reads may fail for some namespaces, writes may fail, and the Job   *)
(* may die; the CronJob (concurrencyPolicy Forbid) starts it again.        *)
(*                                                                         *)
(* A CR's content is one value, its OOM floor a flag: Recommender has the  *)
(* arithmetic.  Bounds: MaxChanges steps of the surroundings and MaxFaults *)
(* failures, counted down in `changes' and `faults'.                       *)
(***************************************************************************)
EXTENDS Naturals

CONSTANTS
  Workloads,    \* [ns, kind, name] of the workloads there may be
  Kinds,        \* the kinds discovery lists
  Bare,         \* the prefix of a CR named like its workload
  Values,       \* what a workload's CR may say
  Partial,      \* what it says when some of its queries failed
  Bumped,       \* what it says under an OOM floor
  Killed,       \* a workload with an OOMKilled container
  NoData,       \* Prometheus has no series for the workload
  NoEntry,
  Starts,       \* the workloads there are at first
  StartCrs,     \* the CRs gitops mode left before the switch to direct mode
  Restless,     \* workloads that change
  OtherCrs,     \* CRs another manager may apply
  OtherValues,  \* and what it writes there
  AdoptForeign, \* values config.direct.adoptForeignCRs has, sync by sync
  DryRun,       \* config.dryRun
  MaxChanges, MaxFaults

ASSUME WorkloadAssumption ==
  /\ \A w \in Workloads : w = [ns |-> w.ns, kind |-> w.kind, name |-> w.name] /\ w.kind \in Kinds
  /\ Bare \notin Kinds
ASSUME UsageAssumption == {Partial, Bumped} \subseteq Values /\ {Killed, NoData} \cap Values = {}
ASSUME OtherAssumption == OtherValues \subseteq Values
ASSUME SettingAssumption == AdoptForeign \subseteq BOOLEAN /\ DryRun \in BOOLEAN
ASSUME BoundAssumption == MaxChanges \in Nat /\ MaxFaults \in Nat

\* What Prometheus and the pods say of a workload.
Loads == (Values \ {Partial, Bumped}) \cup {Killed, NoData}
Namespaces == {w.ns : w \in Workloads}
Keys == {[ns |-> w.ns, prefix |-> p, name |-> w.name] : w \in Workloads, p \in {Bare} \cup Kinds}

\* The CR names of a workload: `a' and, on a collision, `deployment-a'.
Names(w) == {k \in Keys : k.ns = w.ns /\ k.name = w.name /\ k.prefix \in {Bare, w.kind}}

\* A CR: who owns fields of its spec, whether it has the managed-by label,
\* ArgoCD's tracking annotation, and a container field only others set.
Cr == [value : Values, floor : BOOLEAN, managers : SUBSET {"tool", "other"},
       managed : BOOLEAN, tracked : BOOLEAN, extra : BOOLEAN]

ASSUME StartCrsAssumption == \A crs \in StartCrs : crs \in [DOMAIN crs -> Cr]

VARIABLES
  wl,       \* what is there of each workload
  optedIn,  \* namespaces with the annotation
  usage,    \* what Prometheus and the pods would say
  cr,       \* the ResourceOverrides in the apiserver
  job,      \* the local state of cmd_sync
  changes, faults,
  seen      \* (for checking only) what happened around the running sync

vars == <<wl, optedIn, usage, cr, job, changes, faults, seen>>
cluster == <<wl, optedIn, usage>>

\* Paused Deployments and suspended CronJobs are as good as absent.
WorkloadStates == {"absent", "live", "dryRun", "skip"}
ASSUME StartsAssumption == Starts \subseteq [Workloads -> WorkloadStates]

NoJob ==
  [phase |-> "idle", adopt |-> FALSE, kinds |-> {}, targets |-> {}, found |-> {}, incomplete |-> {},
   unreadable |-> {}, queryFailed |-> {}, read |-> [k \in {} |-> k],
   entries |-> {}, todo |-> {}, entry |-> NoEntry]

\* Workloads that were not there at some time of the sync, CRs that another
\* manager took in it.
NothingSeen == [gone |-> {}, arrived |-> {}]

-----------------------------------------------------------------------------
(* What another actor may do.                                              *)

\* The workloads of opted-in namespaces.
There(states, targets) ==
  {w \in Workloads : states[w] \in {"live", "dryRun"} /\ w.ns \in targets}

Change ==
  /\ changes > 0
  /\ changes' = changes - 1
  /\ UNCHANGED <<job, faults>>

See(gone, arrived) ==
  seen' = IF job.phase = "idle" THEN seen
          ELSE [gone |-> seen.gone \cup gone, arrived |-> seen.arrived \cup arrived]

SetWorkload(w, state) ==
  /\ Change
  /\ wl[w] # state
  /\ wl' = [wl EXCEPT ![w] = state]
  /\ See(Workloads \ There(wl', optedIn), {})
  /\ UNCHANGED <<optedIn, usage, cr>>

ToggleNamespace(n) ==
  /\ Change
  /\ optedIn' = IF n \in optedIn THEN optedIn \ {n} ELSE optedIn \cup {n}
  /\ See(Workloads \ There(wl, optedIn'), {})
  /\ UNCHANGED <<wl, usage, cr>>

SetUsage(w, u) ==
  /\ Change
  /\ usage[w] # u
  /\ usage' = [usage EXCEPT ![w] = u]
  /\ UNCHANGED <<wl, optedIn, cr, seen>>

\* An Application that still renders the CR, or a person, applies it.  Only a
\* CR rendered by this tool before carries its label.
OtherApplies(k, v, own) ==
  /\ Change
  /\ k \in DOMAIN cr => v # cr[k].value
  /\ cr' = [j \in DOMAIN cr \cup {k} |->
       IF j # k THEN cr[j]
       ELSE IF k \in DOMAIN cr
       THEN [cr[k] EXCEPT !.value = v, !.managers = @ \cup {"other"}, !.tracked = TRUE, !.extra = TRUE]
       ELSE [value |-> v, floor |-> FALSE, managers |-> {"other"}, managed |-> own,
             tracked |-> TRUE, extra |-> FALSE]]
  /\ See({}, {k})
  /\ UNCHANGED cluster

\* It gives the CR up: it is removed from the Application without pruning.
OtherReleases(k) ==
  /\ Change
  /\ k \in DOMAIN cr
  /\ "other" \in cr[k].managers
  /\ cr' = [cr EXCEPT ![k].managers = @ \ {"other"}, ![k].extra = FALSE]
  /\ UNCHANGED <<cluster, seen>>

\* ArgoCD prunes what carries its tracking id.
OtherPrunes(k) ==
  /\ Change
  /\ k \in DOMAIN cr
  /\ cr[k].tracked
  /\ cr' = [j \in DOMAIN cr \ {k} |-> cr[j]]
  /\ UNCHANGED <<cluster, seen>>

-----------------------------------------------------------------------------
(* Discovery and the reads.                                                *)

Quiet == UNCHANGED <<cluster, cr, changes, seen>>
Exit  == job' = NoJob /\ seen' = NothingSeen /\ UNCHANGED <<cluster, cr, changes>>
NoFault == faults' = faults
\* Failures in the namespaces of F; F = {} costs nothing.
FailsIn(F) == IF F = {} THEN NoFault ELSE faults > 0 /\ faults' = faults - 1

\* list_enabled_namespaces.  A failure ends the Job, with exit code 0 or not.
ListEnabledNamespaces(adopt) ==
  /\ job.phase = "idle"
  /\ optedIn # {}
  /\ job' = [NoJob EXCEPT !.phase = "discover", !.adopt = adopt,
                          !.kinds = Kinds, !.targets = optedIn]
  /\ seen' = [NothingSeen EXCEPT !.gone = Workloads \ There(wl, optedIn)]
  /\ UNCHANGED <<cluster, cr, changes, faults>>

\* list_workloads, the next kind: its list call fails in the namespaces of F.
ListWorkloads(F) ==
  LET kind == CHOOSE kind \in job.kinds : TRUE
      listed == {w \in Workloads : w.kind = kind /\ w.ns \in job.targets \ F
                                 /\ wl[w] \in {"live", "dryRun", "skip"}}
      found == job.found \cup {[w |-> v, state |-> wl[v]] : v \in listed}
      last  == job.kinds = {kind}
  IN
  /\ job.phase = "discover"
  /\ F \subseteq job.targets
  /\ FailsIn(F)
  /\ IF last /\ \A f \in found : f.state = "skip"
     THEN Exit
     ELSE /\ job' = [job EXCEPT !.kinds = @ \ {kind}, !.found = found, !.incomplete = @ \cup F,
                                !.phase = IF last THEN "read" ELSE "discover"]
          /\ Quiet

\* fetch_oom_state
FetchOomState(F) ==
  /\ job.phase = "read"
  /\ F \subseteq job.targets
  /\ FailsIn(F)
  /\ job' = [job EXCEPT !.phase = "build", !.unreadable = F,
               !.read = [k \in {j \in DOMAIN cr : j.ns \in job.targets \ F} |-> cr[k]]]
  /\ Quiet

-----------------------------------------------------------------------------
(* Building the entries.                                                   *)

Pairs == {f \in job.found : f.state # "skip"}
Collides(f) == \E g \in Pairs : g # f /\ g.w.ns = f.w.ns /\ g.w.name = f.w.name
CrName(f) == [ns |-> f.w.ns, prefix |-> IF Collides(f) THEN f.w.kind ELSE Bare, name |-> f.w.name]

\* The CR of a discovered workload had a floor when it was read.
Floored(k) == k \in DOMAIN job.read /\ job.read[k].floor

\* _build_containers_payload: what a CR may say, nothing for an empty payload.
\* Where queries failed (`missing') it lacks some value; there, and without
\* data, a gate may hold the value of the CR; a floor that was read raises it.
Payloads(f, missing) ==
  LET k       == CrName(f)
      u       == usage[f.w]
      held    == IF k \in DOMAIN job.read /\ (missing \/ u = NoData) THEN {job.read[k].value} ELSE {}
      fresh   == (IF u = NoData THEN {} ELSE {u}) \cup (IF missing THEN {Partial} ELSE {})
      raised  == IF Floored(k) /\ held \cup fresh # {} THEN {Bumped} ELSE held \cup fresh
  IN IF u = Killed THEN {Bumped} ELSE raised
MayBeEmpty(f, missing) == usage[f.w] # Killed /\ (usage[f.w] = NoData \/ missing)

\* _foreign_spec_managers, on a CR as it was read.
Foreign(c) == "other" \in c.managers
\* Mutant of LiveForeign: every CR is the tool's.
LiveForeignNever(k) == FALSE
LiveForeign(k) == k \in DOMAIN job.read /\ Foreign(job.read[k]) /\ ~job.adopt

\* Mutant of Unchanged: tracking metadata is not looked at.
UnchangedContent(e) ==
  /\ e.key \in DOMAIN job.read
  /\ LET live == job.read[e.key]
     IN live.value = e.value /\ live.floor = e.floor /\ live.managed /\ ~live.extra

\* _direct_unchanged
Unchanged(e) ==
  /\ e.key \in DOMAIN job.read
  /\ LET live == job.read[e.key]
     IN live.value = e.value /\ live.floor = e.floor /\ live.managed /\ ~live.tracked /\ ~live.extra

\* Mutant of Skipped: an unreadable namespace is taken for one without CRs.
SkippedIfForeign(e) == LiveForeign(e.key) \/ Unchanged(e) \/ e.dry

Skipped(e) ==
  \/ e.key.ns \in job.unreadable
  \/ LiveForeign(e.key)
  \/ Unchanged(e)
  \/ e.dry

\* _build_entries; the queries fail in the namespaces of F.
BuildEntries(F, omitted, value) ==
  /\ job.phase = "build"
  /\ F \subseteq {f.w.ns : f \in Pairs}
  /\ FailsIn(F)
  /\ omitted \subseteq Pairs
  /\ \A f \in omitted : MayBeEmpty(f, f.w.ns \in F)
  /\ \A f \in Pairs \ omitted : value[f.w] \in Payloads(f, f.w.ns \in F)
  /\ LET entries == {[key |-> CrName(f), value |-> value[f.w],
                      floor |-> Floored(CrName(f)) \/ usage[f.w] = Killed,
                      dry |-> DryRun \/ f.state = "dryRun"] : f \in Pairs \ omitted}
     IN job' = [job EXCEPT !.phase = "apply", !.queryFailed = F,
                           !.entries = entries, !.todo = {e \in entries : ~Skipped(e)}]
  /\ Quiet

-----------------------------------------------------------------------------
(* _apply_direct: the entries that are not skipped, one after the other.    *)

First(S) == CHOOSE x \in S : TRUE

\* The containers are written: ArgoCD's tracking metadata is removed next, if the
\* CR had it when it was read (_argocd_tracking_metadata).
Applied(j) ==
  IF j.entry.key \in DOMAIN j.read /\ j.read[j.entry.key].tracked
  THEN [j EXCEPT !.phase = "strip"] ELSE [j EXCEPT !.phase = "apply", !.entry = NoEntry]

\* _ssa_apply, forced, on the CR as it is now: what other managers own and the
\* body leaves out stays; another manager may still co-own equal values.
SsaApply(owners) ==
  LET e == First(job.todo) IN
  /\ job.phase = "apply"
  /\ job.todo # {}
  /\ IF e.key \in DOMAIN cr
     THEN owners \in {cr[e.key].managers \cup {"tool"}, {"tool"}}
          /\ (cr[e.key].extra => "other" \in owners)
     ELSE owners = {"tool"}
  /\ LET new == [value |-> e.value, floor |-> e.floor, managers |-> owners, managed |-> TRUE,
                 tracked |-> e.key \in DOMAIN cr /\ cr[e.key].tracked,
                 extra   |-> e.key \in DOMAIN cr /\ cr[e.key].extra]
     IN /\ cr' = [k \in DOMAIN cr \cup {e.key} |-> IF k = e.key THEN new ELSE cr[k]]
        /\ job' = IF new.extra
                  THEN [job EXCEPT !.phase = "replace", !.todo = @ \ {e}, !.entry = e]
                  ELSE Applied([job EXCEPT !.todo = @ \ {e}, !.entry = e])
  /\ UNCHANGED <<cluster, changes, seen, faults>>

\* The result has fields the body does not: the container list is replaced.
ReplaceContainers(owners) ==
  /\ job.phase = "replace"
  /\ job.entry.key \in DOMAIN cr
  /\ owners \in {cr[job.entry.key].managers, {"tool"}}
  /\ cr' = [cr EXCEPT ![job.entry.key].value = job.entry.value, ![job.entry.key].extra = FALSE,
                      ![job.entry.key].managers = owners]
  /\ job' = Applied(job)
  /\ UNCHANGED <<cluster, changes, seen, faults>>

\* Mutant of StripTracking: the tracking metadata stays.
StripNothing ==
  /\ job.phase = "strip"
  /\ job' = [job EXCEPT !.phase = "apply", !.entry = NoEntry]
  /\ Quiet /\ NoFault

StripTracking ==
  /\ job.phase = "strip"
  /\ job.entry.key \in DOMAIN cr
  /\ cr' = [cr EXCEPT ![job.entry.key].tracked = FALSE]
  /\ job' = [job EXCEPT !.phase = "apply", !.entry = NoEntry]
  /\ UNCHANGED <<cluster, changes, seen, faults>>

\* The apiserver refuses a call: the entry is given up, the next one tried.  A
\* patch of a CR that is gone is always refused.
CallFails ==
  /\ \/ /\ job.phase = "apply"
        /\ job.todo # {}
        /\ FailsIn({job.entry})
        /\ job' = [job EXCEPT !.todo = @ \ {First(@)}]
     \/ /\ job.phase \in {"replace", "strip"}
        /\ IF job.entry.key \in DOMAIN cr THEN FailsIn({job.entry}) ELSE NoFault
        /\ job' = [job EXCEPT !.phase = "apply", !.entry = NoEntry]
  /\ Quiet

-----------------------------------------------------------------------------
(* _prune_orphan_crs.                                                      *)

\* Mutant of Keep: only what this sync rendered is kept.
KeepRendered == {e.key : e \in job.entries}

\* PruneScope, with Prometheus failures added by write_back_webhook_all.
Keep == {e.key : e \in job.entries} \cup UNION {Names(f.w) : f \in Pairs}
Blocked == job.incomplete \cup job.queryFailed \cup job.unreadable

\* What the loop over a listed CR lets through to the delete call.
Deletable(k, c) ==
  /\ k \notin Keep
  /\ k.ns \notin Blocked
  /\ Foreign(c) => job.adopt
  /\ ~DryRun

\* The list call, when every entry was handled; it may fail.
ListOrphans ==
  /\ job.phase = "apply"
  /\ job.todo = {}
  /\ \/ /\ job.entries # {}
        /\ job' = [job EXCEPT !.phase = "prune",
                     !.todo = {k \in DOMAIN cr : cr[k].managed /\ Deletable(k, cr[k])}]
        /\ Quiet /\ NoFault
     \/ job.entries = {} /\ Exit /\ NoFault
     \/ job.entries # {} /\ Exit /\ FailsIn({"list"})

\* delete, without a precondition; 404 and any other failure are only logged.
DeleteOrphan ==
  LET k == First(job.todo) IN
  /\ job.phase = "prune"
  /\ job.todo # {}
  /\ job' = [job EXCEPT !.todo = @ \ {k}]
  /\ \/ cr' = [j \in DOMAIN cr \ {k} |-> cr[j]] /\ NoFault
     \/ cr' = cr /\ FailsIn({k})
  /\ UNCHANGED <<cluster, changes, seen>>

EndSync ==
  /\ job.phase = "prune"
  /\ job.todo = {}
  /\ Exit /\ NoFault

\* The Job dies, or an exception other than ApiException ends it.
Crash ==
  /\ job.phase # "idle"
  /\ Exit /\ FailsIn({"job"})

-----------------------------------------------------------------------------
Init ==
  /\ wl \in Starts
  /\ optedIn = Namespaces
  /\ usage \in [Workloads -> Values \ {Partial, Bumped}]
  /\ cr \in StartCrs
  /\ job = NoJob
  /\ changes = MaxChanges
  /\ faults = MaxFaults
  /\ seen = NothingSeen

Surroundings ==
  \/ \E w \in Restless, state \in WorkloadStates : SetWorkload(w, state)
  \/ \E n \in {w.ns : w \in Restless} : ToggleNamespace(n)
  \/ \E w \in Restless, u \in Loads : SetUsage(w, u)
  \/ \E k \in OtherCrs, v \in OtherValues, own \in BOOLEAN : OtherApplies(k, v, own)
  \/ \E k \in OtherCrs : OtherReleases(k)
  \/ \E k \in OtherCrs : OtherPrunes(k)

SyncStep ==
  \/ \E adopt \in AdoptForeign : ListEnabledNamespaces(adopt)
  \/ \E F \in SUBSET Namespaces : ListWorkloads(F)
  \/ \E F \in SUBSET Namespaces : FetchOomState(F)
  \/ job.phase = "build" /\ \E F \in SUBSET Namespaces, omitted \in SUBSET Pairs,
        value \in [{f.w : f \in Pairs} -> Values] : BuildEntries(F, omitted, value)
  \/ \E owners \in SUBSET {"tool", "other"} : SsaApply(owners)
  \/ \E owners \in SUBSET {"tool", "other"} : ReplaceContainers(owners)
  \/ StripTracking
  \/ CallFails
  \/ ListOrphans
  \/ DeleteOrphan
  \/ EndSync

Next == Surroundings \/ SyncStep \/ Crash

Spec == Init /\ [][Next]_vars
\* A running Job goes on, and the CronJob keeps starting it.
FairSpec == Spec /\ WF_vars(SyncStep)
TypeOK ==
  /\ wl \in [Workloads -> WorkloadStates]
  /\ optedIn \subseteq Namespaces
  /\ usage \in [Workloads -> Loads]
  /\ cr \in [DOMAIN cr -> Cr] /\ DOMAIN cr \subseteq Keys
  /\ job.phase \in {"idle", "discover", "read", "build", "apply", "replace", "strip", "prune"}
  /\ job.entry # NoEntry <=> job.phase \in {"replace", "strip"}
  /\ job.phase = "idle" => job = NoJob
  /\ \A e \in job.entries : e.key.ns \in job.targets
  /\ seen \in [gone : SUBSET Workloads, arrived : SUBSET Keys]
  /\ changes \in 0..MaxChanges /\ faults \in 0..MaxFaults

-----------------------------------------------------------------------------
(* What a sync promises.                                                   *)

BySync == changes' = changes

\* "A caller must not read a missing workload as a deleted one": whichever reads
\* and queries fail and whatever changes meanwhile, a sync deletes a CR only if
\* each workload that could be behind its name was not there, or opted out, at
\* some time of that sync.
\* (list_workloads_in_namespace, PruneScope, _prune_orphan_crs)
DeletesOnlyTheGone ==
  [][BySync => \A k \in DOMAIN cr \ DOMAIN cr' :
       {w \in Workloads : k \in Names(w)} \subseteq seen.gone]_vars

\* Out-of-memory floors live in the CR alone.  No sync writes a CR without the
\* floor it has, not even one that could not read it. (fetch_oom_state)
FloorsSurvive ==
  [][BySync => \A k \in DOMAIN cr \cap DOMAIN cr' : cr[k].floor => cr'[k].floor]_vars

\* "A forced apply would silently take it over": a CR whose spec another manager
\* owned when the sync began is neither written nor deleted. (One that arrives
\* between the read and the apply is taken over all the same.)
ForeignStaysForeign ==
  [][BySync /\ ~job.adopt =>
       \A k \in DOMAIN cr : Foreign(cr[k]) /\ k \notin seen.arrived =>
         k \in DOMAIN cr' /\ cr'[k] = cr[k]]_vars

Current == {[w |-> w, state |-> "live"] : w \in
              {v \in Workloads : wl[v] \in {"live", "dryRun"} /\ v.ns \in optedIn}}
HasEntry(w) == wl[w] = "live" /\ w.ns \in optedIn /\ usage[w] # NoData
NameNow(w)  ==
  [ns |-> w.ns, name |-> w.name,
   prefix |-> IF \E c \in Current : c.w # w /\ c.w.ns = w.ns /\ c.w.name = w.name
              THEN w.kind ELSE Bare]

\* The CR says what its workload needs, and nothing of another manager's is left
\* in it; or it is another manager's.
UpToDate(w) ==
  LET k == NameNow(w) IN
  /\ k \in DOMAIN cr
  /\ \/ Foreign(cr[k])
     \/ /\ cr[k].value = IF cr[k].floor \/ usage[w] = Killed THEN Bumped ELSE usage[w]
        /\ cr[k].managed /\ ~cr[k].extra /\ ~cr[k].tracked
Orphan(k) ==
  /\ cr[k].managed
  /\ ~Foreign(cr[k])
  /\ \A w \in There(wl, optedIn) : k \notin Names(w)

\* When failures stop and the cluster rests, the CRs become what the workloads
\* need, those of gone workloads are deleted, whatever a failed call, a dead Job
\* or another manager left half done; unless no workload has an entry.
SyncsConverge ==
  ~DryRun => <>[]((\E w \in Workloads : HasEntry(w)) =>
                    /\ \A w \in Workloads : HasEntry(w) => UpToDate(w)
                    /\ \A k \in DOMAIN cr : ~Orphan(k))

\* Then every later sync finds everything unchanged: no writes, no audit Events,
\* no events for the webhook. (_direct_unchanged)
SyncsGoQuiet ==
  <>[](job.phase \notin {"replace", "strip"} /\ (job.phase = "apply" => job.todo = {}))
=============================================================================
