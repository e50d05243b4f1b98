-------------------------- MODULE DirectSync_proofs --------------------------
(***************************************************************************)
(* Proofs about DirectSync, for every set of workloads, whatever another   *)
(* manager writes and however many calls fail: what a sync may not delete, *)
(* lower or take over.                                                     *)
(*                                                                         *)
(* The invariant, on the local state j of the running sync:                *)
(*   Discovered  a workload whose kind was listed and whose namespace was  *)
(*               not lost is among the pairs, or was gone at some time;    *)
(*   WellRead    until the entries are built, what was read has every floor*)
(*               and every foreign owner that the CRs have, those that     *)
(*               arrived since aside;                                      *)
(*   WellBuilt   the entries yet to be applied have different names, keep  *)
(*               the floors and leave out what is another manager's;       *)
(*   WellPruned  the CRs yet to be deleted are of workloads that were gone *)
(*               and of no other manager.                                  *)
(***************************************************************************)
EXTENDS DirectSync, TLAPS

CrFields  == {"value", "floor", "managers", "managed", "tracked", "extra"}
JobFields == {"phase", "adopt", "kinds", "targets", "found", "incomplete", "unreadable",
              "queryFailed", "read", "entries", "todo", "entry"}

Behind(k) == {w \in Workloads : k \in Names(w)}

Discovered(j, gone) ==
  /\ \A w \in Workloads : w.ns \notin j.targets => w \in gone
  /\ \A w \in Workloads : w.kind \notin j.kinds /\ w.ns \notin j.incomplete =>
       w \in gone \/ \E f \in j.found : f.w = w /\ f.state # "skip"
  /\ \A f \in j.found : f.w \in Workloads /\ f.w.ns \in j.targets /\ f.w.kind \notin j.kinds
  /\ \A f, g \in j.found : f.w = g.w => f = g
  /\ j.phase = "discover" => (j.kinds = {} => Workloads = {})
  /\ j.phase # "discover" => j.kinds = {}

WellRead(j, crs, arrived) ==
  \A k \in DOMAIN crs : k.ns \in j.targets \ j.unreadable =>
    /\ crs[k].floor => k \in DOMAIN j.read /\ j.read[k].floor
    /\ Foreign(crs[k]) => k \in arrived \/ (k \in DOMAIN j.read /\ Foreign(j.read[k]))

\* Writing entry e on the CRs as they are harms nothing.
Harmless(e, j, crs, arrived) ==
  e.key \in DOMAIN crs =>
    /\ crs[e.key].floor => e.floor
    /\ Foreign(crs[e.key]) /\ ~j.adopt => e.key \in arrived

WellBuilt(j, crs, arrived) ==
  /\ \A e \in j.todo : Harmless(e, j, crs, arrived)
  /\ \A d, e \in j.todo : d.key = e.key => d = e
  /\ j.phase # "apply" => Harmless(j.entry, j, crs, arrived)

WellPruned(j, crs, gone, arrived) ==
  \A k \in j.todo :
    /\ Behind(k) \subseteq gone
    /\ k \in DOMAIN crs /\ Foreign(crs[k]) /\ ~j.adopt => k \in arrived

Sound(j, crs, s) ==
  j.phase # "idle" =>
    /\ Discovered(j, s.gone)
    /\ j.phase = "build" => WellRead(j, crs, s.arrived)
    /\ j.phase \in {"apply", "replace", "strip"} => WellBuilt(j, crs, s.arrived)
    /\ j.phase = "prune" => WellPruned(j, crs, s.gone, s.arrived)

\* What is gone now has been seen to be gone.
GoneIsSeen == job.phase # "idle" => Workloads \ There(wl, optedIn) \subseteq seen.gone

Shapes ==
  /\ wl \in [Workloads -> WorkloadStates]
  /\ changes \in Nat
  /\ DOMAIN job = JobFields
  /\ \A k \in DOMAIN cr : DOMAIN cr[k] = CrFields

IInv == Shapes /\ GoneIsSeen /\ Sound(job, cr, seen)

\* Nobody lowers a floor or becomes an owner without being seen.
Tame(before, after, arrived) ==
  \A k \in DOMAIN after :
    /\ DOMAIN after[k] = CrFields
    /\ after[k].floor => k \in DOMAIN before /\ before[k].floor
    /\ Foreign(after[k]) => k \in arrived \/ (k \in DOMAIN before /\ Foreign(before[k]))

LEMMA TameKeeps ==
  ASSUME NEW j, NEW before, NEW after, NEW s, NEW t, Sound(j, before, s),
         j.phase # "idle" => Tame(before, after, t.arrived),
         s.gone \subseteq t.gone, s.arrived \subseteq t.arrived
  PROVE  Sound(j, after, t)
<1>. SUFFICES ASSUME j.phase # "idle"
              PROVE  Sound(j, after, t)
  BY DEF Sound
<1>1. Discovered(j, t.gone)
  BY DEF Sound, Discovered
<1>2. CASE j.phase = "build"
  <2>1. WellRead(j, before, s.arrived)
    BY <1>2 DEF Sound
  <2>2. WellRead(j, after, t.arrived)
    BY <2>1 DEF WellRead, Tame
  <2>. QED
    BY <1>1, <1>2, <2>2 DEF Sound
<1>3. CASE j.phase \in {"apply", "replace", "strip"}
  <2>1. WellBuilt(j, before, s.arrived)
    BY <1>3 DEF Sound
  <2>2. \A e : Harmless(e, j, before, s.arrived) => Harmless(e, j, after, t.arrived)
    BY DEF Harmless, Tame
  <2>3. WellBuilt(j, after, t.arrived)
    BY <2>1, <2>2 DEF WellBuilt
  <2>. QED
    BY <1>1, <1>3, <2>3 DEF Sound
<1>4. CASE j.phase = "prune"
  <2>1. WellPruned(j, before, s.gone, s.arrived)
    BY <1>4 DEF Sound
  <2>2. WellPruned(j, after, t.gone, t.arrived)
    BY <2>1 DEF WellPruned, Tame
  <2>. QED
    BY <1>1, <1>4, <2>2 DEF Sound
<1>. QED
  BY <1>1, <1>2, <1>3, <1>4 DEF Sound

LEMMA InitInv == Init => IInv
<1>. SUFFICES ASSUME Init
              PROVE  IInv
  OBVIOUS
<1>1. job.phase = "idle" /\ DOMAIN job = JobFields
  BY DEF Init, NoJob, JobFields
<1>2. wl \in [Workloads -> WorkloadStates] /\ changes \in Nat
  BY StartsAssumption, BoundAssumption DEF Init
<1>3. \A k \in DOMAIN cr : DOMAIN cr[k] = CrFields
  BY StartCrsAssumption DEF Init, Cr, CrFields
<1>. QED
  BY <1>1, <1>2, <1>3 DEF IInv, Shapes, GoneIsSeen, Sound

-----------------------------------------------------------------------------
(* What other actors do.                                                   *)

LEMMA SeeGrows ==
  ASSUME NEW gone, NEW arrived, See(gone, arrived), job.phase # "idle"
  PROVE  seen'.gone = seen.gone \cup gone /\ seen'.arrived = seen.arrived \cup arrived
BY DEF See

\* A change of workloads or of the opt-in: who is gone is seen.
LEMMA ScopeChanges ==
  ASSUME IInv, wl' \in [Workloads -> WorkloadStates], UNCHANGED <<cr, job>>,
         See(Workloads \ There(wl', optedIn'), {}), changes' \in Nat
  PROVE  IInv'
<1>1. Shapes'
  BY DEF IInv, Shapes
<1>2. CASE job.phase = "idle"
  BY <1>1, <1>2 DEF IInv, GoneIsSeen, Sound
<1>3. CASE job.phase # "idle"
  <2>1. /\ seen'.gone = seen.gone \cup (Workloads \ There(wl', optedIn'))
        /\ seen.arrived \subseteq seen'.arrived
    <3>1. PICK gone : gone = Workloads \ There(wl', optedIn')
      OBVIOUS
    <3>2. See(gone, {})
      BY <3>1
    <3>. QED
      BY <1>3, <3>1, <3>2, SeeGrows
  <2>2. Tame(cr, cr, seen'.arrived)
    BY DEF IInv, Shapes, Tame
  <2>3. Sound(job, cr, seen')
    BY <2>1, <2>2, TameKeeps DEF IInv
  <2>4. GoneIsSeen'
    BY <2>1 DEF GoneIsSeen
  <2>. QED
    BY <1>1, <2>3, <2>4 DEF IInv
<1>. QED
  BY <1>2, <1>3

\* A change of the CRs by others.
LEMMA OthersChange ==
  ASSUME IInv, NEW arrived, See({}, arrived), UNCHANGED <<wl, optedIn, job>>,
         \A a : arrived \subseteq a => Tame(cr, cr', a), changes' \in Nat
  PROVE  IInv'
<1>1. Shapes'
  BY DEF IInv, Shapes, Tame
<1>2. CASE job.phase = "idle"
  BY <1>1, <1>2 DEF IInv, GoneIsSeen, Sound
<1>3. CASE job.phase # "idle"
  <2>1. seen'.gone = seen.gone /\ seen'.arrived = seen.arrived \cup arrived
    BY <1>3, SeeGrows
  <2>2. Tame(cr, cr', seen'.arrived)
    BY <2>1
  <2>3. Sound(job, cr', seen')
    BY <2>1, <2>2, TameKeeps DEF IInv
  <2>4. GoneIsSeen'
    BY <2>1 DEF IInv, GoneIsSeen
  <2>. QED
    BY <1>1, <2>3, <2>4 DEF IInv
<1>. QED
  BY <1>2, <1>3

LEMMA SurroundingsStep ==
  ASSUME IInv, Surroundings
  PROVE  IInv' /\ ~BySync
<1>1. changes \in Nat /\ Shapes
  BY DEF IInv, Shapes
<1>c. Change => changes' \in Nat /\ ~BySync /\ UNCHANGED job
  BY <1>1 DEF Change, BySync
<1>2. ASSUME NEW w \in Restless, NEW state \in WorkloadStates, SetWorkload(w, state)
      PROVE  IInv' /\ ~BySync
  <2>1. wl' \in [Workloads -> WorkloadStates]
    BY <1>1, <1>2 DEF SetWorkload, Shapes
  <2>2. optedIn' = optedIn /\ cr' = cr /\ See(Workloads \ There(wl', optedIn'), {})
    BY <1>2 DEF SetWorkload
  <2>. QED
    BY <1>2, <1>c, <2>1, <2>2, ScopeChanges DEF SetWorkload
<1>3. ASSUME NEW n, ToggleNamespace(n)
      PROVE  IInv' /\ ~BySync
  <2>1. wl' \in [Workloads -> WorkloadStates]
    BY <1>1, <1>3 DEF ToggleNamespace, Shapes
  <2>2. wl' = wl /\ cr' = cr /\ See(Workloads \ There(wl', optedIn'), {})
    BY <1>3 DEF ToggleNamespace
  <2>. QED
    BY <1>3, <1>c, <2>1, <2>2, ScopeChanges DEF ToggleNamespace
<1>4. ASSUME NEW w, NEW u, SetUsage(w, u)
      PROVE  IInv' /\ ~BySync
  <2>1. UNCHANGED <<wl, optedIn, cr, seen, job>> /\ changes' \in Nat /\ ~BySync
    BY <1>4, <1>c DEF SetUsage
  <2>. QED
    BY <2>1 DEF IInv, Shapes, GoneIsSeen
<1>5. ASSUME NEW k, NEW v, NEW own \in BOOLEAN, OtherApplies(k, v, own)
      PROVE  IInv' /\ ~BySync
  <2>1. cr' = [j \in DOMAIN cr \cup {k} |->
           IF j # k THEN cr[j]
           ELSE IF k \in DOMAIN cr
           THEN [cr[k] EXCEPT !.value = v, !.managers = @ \cup {"other"}, !.tracked = TRUE, !.extra = TRUE]
           ELSE [value |-> v, floor |-> FALSE, managers |-> {"other"}, managed |-> own,
                 tracked |-> TRUE, extra |-> FALSE]]
    BY <1>5 DEF OtherApplies
  <2>2. DOMAIN cr' = DOMAIN cr \cup {k} /\ \A j \in DOMAIN cr : j # k => cr'[j] = cr[j]
    BY <2>1
  <2>3. CASE k \in DOMAIN cr
    <3>1. cr'[k] = [cr[k] EXCEPT !.value = v, !.managers = @ \cup {"other"}, !.tracked = TRUE, !.extra = TRUE]
      BY <2>1, <2>3
    <3>2. DOMAIN cr'[k] = CrFields /\ cr'[k].floor = cr[k].floor
      BY <1>1, <2>3, <3>1 DEF Shapes, CrFields
    <3>3. \A a : {k} \subseteq a => Tame(cr, cr', a)
      BY <1>1, <2>2, <2>3, <3>2 DEF Tame, Shapes
    <3>. QED
      BY <1>5, <1>c, <3>3, OthersChange DEF OtherApplies, cluster
  <2>4. CASE k \notin DOMAIN cr
    <3>1. cr'[k] = [value |-> v, floor |-> FALSE, managers |-> {"other"}, managed |-> own,
                    tracked |-> TRUE, extra |-> FALSE]
      BY <2>1, <2>4
    <3>2. DOMAIN cr'[k] = CrFields /\ ~cr'[k].floor
      BY <3>1 DEF CrFields
    <3>3. \A a : {k} \subseteq a => Tame(cr, cr', a)
      BY <1>1, <2>2, <3>2 DEF Tame, Shapes
    <3>. QED
      BY <1>5, <1>c, <3>3, OthersChange DEF OtherApplies, cluster
  <2>. QED
    BY <2>3, <2>4
<1>6. ASSUME NEW k, OtherReleases(k) \/ OtherPrunes(k)
      PROVE  IInv' /\ ~BySync
  <2>1. CASE OtherReleases(k)
    <3>1. k \in DOMAIN cr /\ cr' = [cr EXCEPT ![k].managers = @ \ {"other"}, ![k].extra = FALSE]
      BY <2>1 DEF OtherReleases
    <3>2. PICK less : less = [cr[k] EXCEPT !.managers = @ \ {"other"}]
      OBVIOUS
    <3>3. /\ DOMAIN less = CrFields /\ less.floor = cr[k].floor
          /\ less.managers = cr[k].managers \ {"other"}
      BY <1>1, <3>1, <3>2 DEF Shapes, CrFields
    <3>4. cr' = [[cr EXCEPT ![k] = less] EXCEPT ![k].extra = FALSE]
      BY <3>1, <3>2
    <3>5. cr' = [cr EXCEPT ![k] = [less EXCEPT !.extra = FALSE]]
      BY <3>1, <3>4
    <3>6. /\ DOMAIN cr' = DOMAIN cr /\ \A j \in DOMAIN cr : j # k => cr'[j] = cr[j]
          /\ DOMAIN cr'[k] = CrFields /\ cr'[k].floor = cr[k].floor
          /\ cr'[k].managers = cr[k].managers \ {"other"}
      BY <3>1, <3>3, <3>5 DEF CrFields
    <3>7. \A a : Tame(cr, cr', a)
      BY <1>1, <3>1, <3>6 DEF Tame, Shapes, Foreign
    <3>8. UNCHANGED <<wl, optedIn, job, seen>> /\ changes' \in Nat /\ ~BySync
      BY <2>1, <1>c DEF OtherReleases, cluster
    <3>9. Sound(job, cr', seen)
      BY <3>7, TameKeeps DEF IInv
    <3>. QED
      BY <3>7, <3>8, <3>9 DEF IInv, Shapes, GoneIsSeen, Tame
  <2>2. CASE OtherPrunes(k)
    <3>1. cr' = [j \in DOMAIN cr \ {k} |-> cr[j]]
      BY <2>2 DEF OtherPrunes
    <3>2. \A a : Tame(cr, cr', a)
      BY <1>1, <3>1 DEF Tame, Shapes
    <3>3. UNCHANGED <<wl, optedIn, job, seen>> /\ changes' \in Nat /\ ~BySync
      BY <2>2, <1>c DEF OtherPrunes, cluster
    <3>4. Sound(job, cr', seen)
      BY <3>2, TameKeeps DEF IInv
    <3>. QED
      BY <3>2, <3>3, <3>4 DEF IInv, Shapes, GoneIsSeen, Tame
  <2>. QED
    BY <1>6, <2>1, <2>2
<1>. QED
  BY <1>2, <1>3, <1>4, <1>5, <1>6 DEF Surroundings

-----------------------------------------------------------------------------
(* The sync's reads.                                                       *)

\* What a step of the sync may do to the CRs: the three properties, as an action.
Keeps ==
  /\ \A k \in DOMAIN cr \ DOMAIN cr' : Behind(k) \subseteq seen.gone
  /\ \A k \in DOMAIN cr \cap DOMAIN cr' : cr[k].floor => cr'[k].floor
  /\ ~job.adopt => \A k \in DOMAIN cr : Foreign(cr[k]) /\ k \notin seen.arrived =>
                     k \in DOMAIN cr' /\ cr'[k] = cr[k]

LEMMA ExitStep ==
  ASSUME IInv, Exit
  PROVE  IInv' /\ Keeps
<1>1. job'.phase = "idle" /\ DOMAIN job' = JobFields /\ UNCHANGED <<wl, optedIn, cr, changes>>
  BY DEF Exit, NoJob, JobFields, cluster
<1>. QED
  BY <1>1 DEF IInv, Shapes, GoneIsSeen, Sound, Keeps

LEMMA QuietStep ==
  ASSUME IInv, Quiet, job.phase # "idle", DOMAIN job' = JobFields, Sound(job', cr, seen)
  PROVE  IInv' /\ Keeps
<1>1. UNCHANGED <<wl, optedIn, cr, changes, seen>>
  BY DEF Quiet, cluster
<1>. QED
  BY <1>1 DEF IInv, Shapes, GoneIsSeen, Keeps

LEMMA ListEnabledStep ==
  ASSUME IInv, NEW adopt, ListEnabledNamespaces(adopt)
  PROVE  IInv' /\ Keeps
<1>1. /\ job' = [NoJob EXCEPT !.phase = "discover", !.adopt = adopt,
                              !.kinds = Kinds, !.targets = optedIn]
      /\ seen' = [NothingSeen EXCEPT !.gone = Workloads \ There(wl, optedIn)]
      /\ UNCHANGED <<wl, optedIn, cr, changes>>
  BY DEF ListEnabledNamespaces, cluster
<1>2. /\ DOMAIN job' = JobFields /\ job'.phase = "discover" /\ job'.kinds = Kinds
      /\ job'.targets = optedIn /\ job'.found = {} /\ job'.incomplete = {}
  BY <1>1 DEF NoJob, JobFields
<1>3. seen'.gone = Workloads \ There(wl, optedIn)
  BY <1>1 DEF NothingSeen
<1>4. Discovered(job', seen'.gone)
  BY <1>2, <1>3, WorkloadAssumption DEF Discovered, There
<1>. QED
  BY <1>1, <1>2, <1>3, <1>4 DEF IInv, Shapes, GoneIsSeen, Sound, Keeps

LEMMA ListWorkloadsStep ==
  ASSUME IInv, NEW F, ListWorkloads(F)
  PROVE  IInv' /\ Keeps
<1>1. PICK kind : kind = CHOOSE k \in job.kinds : TRUE
  OBVIOUS
<1>2. PICK listed : listed = {w \in Workloads : w.kind = kind /\ w.ns \in job.targets \ F
                                               /\ wl[w] \in {"live", "dryRun", "skip"}}
  OBVIOUS
<1>3. PICK found : found = job.found \cup {[w |-> v, state |-> wl[v]] : v \in listed}
  OBVIOUS
<1>4. /\ job.phase = "discover"
      /\ \/ Exit
         \/ /\ job' = [job EXCEPT !.kinds = @ \ {kind}, !.found = found, !.incomplete = @ \cup F,
                                  !.phase = IF job.kinds = {kind} THEN "read" ELSE "discover"]
            /\ Quiet
  BY <1>1, <1>2, <1>3 DEF ListWorkloads
<1>5. CASE Exit
  BY <1>5, ExitStep
<1>6. CASE /\ job' = [job EXCEPT !.kinds = @ \ {kind}, !.found = found, !.incomplete = @ \cup F,
                                 !.phase = IF job.kinds = {kind} THEN "read" ELSE "discover"]
           /\ Quiet
  <2>1. /\ DOMAIN job' = JobFields
        /\ job'.kinds = job.kinds \ {kind} /\ job'.found = found /\ job'.targets = job.targets
        /\ job'.incomplete = job.incomplete \cup F
        /\ job'.phase = IF job.kinds = {kind} THEN "read" ELSE "discover"
    BY <1>6 DEF IInv, Shapes, JobFields
  <2>2. Discovered(job, seen.gone) /\ (job.kinds = {} => Workloads = {})
    BY <1>4 DEF IInv, Sound, Discovered
  <2>3. job.kinds # {} => kind \in job.kinds
    BY <1>1
  <2>4. \A f \in found : \/ f \in job.found
                         \/ f.w \in listed /\ f = [w |-> f.w, state |-> wl[f.w]]
    BY <1>3
  <2>5. \A w \in listed : w \in Workloads /\ w.kind = kind /\ w.ns \in job.targets
    BY <1>2
  <2>6. \A f \in found : f.w \in Workloads /\ f.w.ns \in job.targets /\ f.w.kind \notin job'.kinds
    BY <2>1, <2>2, <2>4, <2>5 DEF Discovered
  <2>7. \A f, g \in found : f.w = g.w => f = g
    <3>1. ASSUME NEW f \in job.found, NEW w \in listed
          PROVE  f.w # w
      <4>1. kind \in job.kinds
        BY <2>2, <2>3, <2>5
      <4>2. f.w.kind \notin job.kinds
        BY <2>2 DEF Discovered
      <4>. QED
        BY <2>5, <4>1, <4>2
    <3>. QED
      BY <2>2, <2>4, <3>1 DEF Discovered
  <2>8. ASSUME NEW w \in Workloads, w.kind \notin job'.kinds, w.ns \notin job'.incomplete
        PROVE  w \in seen.gone \/ \E f \in found : f.w = w /\ f.state # "skip"
    <3>1. CASE w.kind \notin job.kinds
      BY <1>3, <2>1, <2>2, <2>8, <3>1 DEF Discovered
    <3>2. CASE w.kind = kind /\ w.ns \in job.targets
      <4>1. wl[w] \in WorkloadStates /\ w.ns \notin F
        BY <2>1, <2>8 DEF IInv, Shapes
      <4>2. CASE wl[w] \in {"live", "dryRun"}
        <5>1. w \in listed
          BY <1>2, <3>2, <4>1, <4>2
        <5>2. [w |-> w, state |-> wl[w]] \in found
          BY <1>3, <5>1
        <5>. QED
          BY <4>2, <5>2
      <4>3. CASE wl[w] \notin {"live", "dryRun"}
        BY <1>4, <4>3 DEF IInv, GoneIsSeen, There
      <4>. QED
        BY <4>2, <4>3
    <3>3. CASE w.ns \notin job.targets
      BY <2>2, <3>3 DEF Discovered
    <3>. QED
      BY <2>1, <2>8, <3>1, <3>2, <3>3
  <2>9. /\ job'.phase = "discover" => (job'.kinds = {} => Workloads = {})
        /\ job'.phase # "discover" => job'.kinds = {}
    BY <2>1, <2>2, <2>3
  <2>10. Discovered(job', seen.gone)
    BY <2>1, <2>2, <2>6, <2>7, <2>8, <2>9 DEF Discovered
  <2>11. Sound(job', cr, seen)
    BY <2>1, <2>10 DEF Sound
  <2>. QED
    BY <1>4, <1>6, <2>1, <2>11, QuietStep
<1>. QED
  BY <1>4, <1>5, <1>6

LEMMA FetchOomStateStep ==
  ASSUME IInv, NEW F, FetchOomState(F)
  PROVE  IInv' /\ Keeps
<1>1. /\ job.phase = "read" /\ Quiet
      /\ job' = [job EXCEPT !.phase = "build", !.unreadable = F,
                   !.read = [k \in {j \in DOMAIN cr : j.ns \in job.targets \ F} |-> cr[k]]]
  BY DEF FetchOomState
<1>2. /\ DOMAIN job' = JobFields /\ job'.phase = "build" /\ job'.unreadable = F
      /\ job'.read = [k \in {j \in DOMAIN cr : j.ns \in job.targets \ F} |-> cr[k]]
      /\ job'.targets = job.targets /\ job'.kinds = job.kinds /\ job'.found = job.found
      /\ job'.incomplete = job.incomplete
  BY <1>1 DEF IInv, Shapes, JobFields
<1>3. Discovered(job', seen.gone)
  BY <1>1, <1>2 DEF IInv, Sound, Discovered
<1>4. WellRead(job', cr, seen.arrived)
  BY <1>2 DEF WellRead
<1>. QED
  BY <1>1, <1>2, <1>3, <1>4, QuietStep DEF Sound

-----------------------------------------------------------------------------
(* The entries.                                                            *)

\* No two of the discovered workloads have the same CR name.
LEMMA NamesDiffer ==
  ASSUME NEW gone, Discovered(job, gone), NEW f \in Pairs, NEW g \in Pairs,
         CrName(f) = CrName(g)
  PROVE  f = g
<1>. SUFFICES ASSUME f # g
              PROVE  FALSE
  OBVIOUS
<1>1. f.w.ns = g.w.ns /\ f.w.name = g.w.name
  BY DEF CrName
<1>2. Collides(f) /\ Collides(g)
  BY <1>1 DEF Collides
<1>3. f.w.kind = g.w.kind
  BY <1>2 DEF CrName
<1>4. f.w \in Workloads /\ g.w \in Workloads
  BY DEF Pairs, Discovered
<1>5. f.w = g.w
  <2>1. /\ f.w = [ns |-> f.w.ns, kind |-> f.w.kind, name |-> f.w.name]
        /\ g.w = [ns |-> g.w.ns, kind |-> g.w.kind, name |-> g.w.name]
    BY <1>4, WorkloadAssumption
  <2>. QED
    BY <1>1, <1>3, <2>1
<1>. QED
  BY <1>5 DEF Pairs, Discovered

LEMMA BuildEntriesStep ==
  ASSUME IInv, NEW F, NEW omitted, NEW value, BuildEntries(F, omitted, value)
  PROVE  IInv' /\ Keeps
<1>1. PICK entries :
        entries = {[key |-> CrName(f), value |-> value[f.w],
                    floor |-> Floored(CrName(f)) \/ usage[f.w] = Killed,
                    dry |-> DryRun \/ f.state = "dryRun"] : f \in Pairs \ omitted}
  OBVIOUS
<1>2. PICK todo : todo = {e \in entries : ~Skipped(e)}
  OBVIOUS
<1>3. /\ job.phase = "build" /\ Quiet
      /\ job' = [job EXCEPT !.phase = "apply", !.queryFailed = F,
                            !.entries = entries, !.todo = todo]
  BY <1>1, <1>2 DEF BuildEntries
<1>4. /\ DOMAIN job' = JobFields /\ job'.phase = "apply" /\ job'.todo = todo
      /\ job'.targets = job.targets /\ job'.kinds = job.kinds /\ job'.found = job.found
      /\ job'.incomplete = job.incomplete /\ job'.adopt = job.adopt
  BY <1>3 DEF IInv, Shapes, JobFields
<1>5. Discovered(job, seen.gone) /\ WellRead(job, cr, seen.arrived)
  BY <1>3 DEF IInv, Sound
<1>6. Discovered(job', seen.gone)
  BY <1>3, <1>4, <1>5 DEF Discovered
<1>7. \A e \in todo : \E f \in Pairs :
        e.key = CrName(f) /\ e = [key |-> CrName(f), value |-> value[f.w],
                                  floor |-> Floored(CrName(f)) \/ usage[f.w] = Killed,
                                  dry |-> DryRun \/ f.state = "dryRun"]
  BY <1>1, <1>2
<1>8. \A d, e \in todo : d.key = e.key => d = e
  <2>. SUFFICES ASSUME NEW d \in todo, NEW e \in todo, d.key = e.key
                PROVE  d = e
    OBVIOUS
  <2>1. PICK f \in Pairs :
          d.key = CrName(f) /\ d = [key |-> CrName(f), value |-> value[f.w],
                                    floor |-> Floored(CrName(f)) \/ usage[f.w] = Killed,
                                    dry |-> DryRun \/ f.state = "dryRun"]
    BY <1>7
  <2>2. PICK g \in Pairs :
          e.key = CrName(g) /\ e = [key |-> CrName(g), value |-> value[g.w],
                                    floor |-> Floored(CrName(g)) \/ usage[g.w] = Killed,
                                    dry |-> DryRun \/ g.state = "dryRun"]
    BY <1>7
  <2>3. f = g
    BY <1>5, <2>1, <2>2, NamesDiffer
  <2>. QED
    BY <2>1, <2>2, <2>3
<1>9. ASSUME NEW e \in todo
      PROVE  Harmless(e, job', cr, seen.arrived)
  <2>1. PICK f \in Pairs :
          e.key = CrName(f) /\ e = [key |-> CrName(f), value |-> value[f.w],
                                    floor |-> Floored(CrName(f)) \/ usage[f.w] = Killed,
                                    dry |-> DryRun \/ f.state = "dryRun"]
    BY <1>7
  <2>2. e.floor = (Floored(e.key) \/ usage[f.w] = Killed)
    BY <2>1
  <2>3. e.key.ns \in job.targets
    BY <1>5, <2>1 DEF CrName, Pairs, Discovered
  <2>4. e.key.ns \notin job.unreadable /\ ~LiveForeign(e.key)
    BY <1>2 DEF Skipped
  <2>5. e.key \in DOMAIN cr =>
          /\ cr[e.key].floor => Floored(e.key)
          /\ Foreign(cr[e.key]) /\ ~job.adopt => e.key \in seen.arrived
    BY <1>5, <2>3, <2>4 DEF WellRead, Floored, LiveForeign
  <2>. QED
    BY <1>4, <2>2, <2>5 DEF Harmless
<1>10. WellBuilt(job', cr, seen.arrived)
  BY <1>4, <1>8, <1>9 DEF WellBuilt
<1>. QED
  BY <1>3, <1>4, <1>6, <1>10, QuietStep DEF Sound

LEMMA AppliedFacts ==
  ASSUME NEW j, DOMAIN j = JobFields
  PROVE  /\ DOMAIN Applied(j) = JobFields
         /\ Applied(j).phase \in {"strip", "apply"}
         /\ Applied(j).phase = "strip" => Applied(j).entry = j.entry
         /\ \A x \in JobFields \ {"phase", "entry"} : Applied(j)[x] = j[x]
BY DEF Applied, JobFields

\* A write of entry e.  Either no other entry of the CR is left, or the floor is
\* as it was.
LEMMA WriteStep ==
  ASSUME IInv, NEW e, Harmless(e, job, cr, seen.arrived),
         job.phase \in {"apply", "replace", "strip"},
         UNCHANGED <<wl, optedIn, seen, changes>>,
         DOMAIN job' = JobFields, job'.phase \in {"apply", "replace", "strip"},
         \A x \in JobFields \ {"phase", "entry", "todo"} : job'[x] = job[x],
         job'.todo \subseteq job.todo,
         job'.phase # "apply" => job'.entry = e,
         DOMAIN cr' = DOMAIN cr \cup {e.key},
         \A k \in DOMAIN cr : k # e.key => cr'[k] = cr[k],
         DOMAIN cr'[e.key] = CrFields,
         Foreign(cr'[e.key]) => e.key \in DOMAIN cr /\ Foreign(cr[e.key]),
         \/ cr'[e.key].floor = e.floor /\ \A d \in job'.todo : d.key # e.key
         \/ e.key \in DOMAIN cr /\ cr'[e.key].floor = cr[e.key].floor
  PROVE  IInv' /\ Keeps
<1>1. Discovered(job, seen.gone) /\ WellBuilt(job, cr, seen.arrived)
  BY DEF IInv, Sound
<1>2. /\ job'.targets = job.targets /\ job'.kinds = job.kinds /\ job'.found = job.found
      /\ job'.incomplete = job.incomplete /\ job'.adopt = job.adopt
  BY DEF JobFields
<1>3. Discovered(job', seen.gone)
  BY <1>1, <1>2 DEF Discovered
<1>4. \A d : d = e \/ d \in job'.todo => Harmless(d, job', cr', seen.arrived)
  BY <1>1, <1>2 DEF WellBuilt, Harmless
<1>5. WellBuilt(job', cr', seen.arrived)
  BY <1>1, <1>4 DEF WellBuilt
<1>6. Shapes' /\ GoneIsSeen'
  BY DEF IInv, Shapes, GoneIsSeen
<1>7. Keeps
  BY DEF Keeps, Harmless
<1>. QED
  BY <1>3, <1>5, <1>6, <1>7 DEF IInv, Sound

LEMMA SsaApplyStep ==
  ASSUME IInv, NEW owners, SsaApply(owners)
  PROVE  IInv' /\ Keeps
<1>1. PICK e : e = First(job.todo)
  OBVIOUS
<1>2. PICK new : new = [value |-> e.value, floor |-> e.floor, managers |-> owners, managed |-> TRUE,
                        tracked |-> e.key \in DOMAIN cr /\ cr[e.key].tracked,
                        extra   |-> e.key \in DOMAIN cr /\ cr[e.key].extra]
  OBVIOUS
<1>3. PICK next : next = [job EXCEPT !.todo = @ \ {e}, !.entry = e]
  OBVIOUS
<1>4. /\ job.phase = "apply" /\ job.todo # {}
      /\ IF e.key \in DOMAIN cr THEN owners \in {cr[e.key].managers \cup {"tool"}, {"tool"}}
                                ELSE owners = {"tool"}
      /\ cr' = [k \in DOMAIN cr \cup {e.key} |-> IF k = e.key THEN new ELSE cr[k]]
      /\ job' = IF new.extra THEN [job EXCEPT !.phase = "replace", !.todo = @ \ {e}, !.entry = e]
                             ELSE Applied(next)
      /\ UNCHANGED <<wl, optedIn, seen, changes>>
  BY <1>1, <1>2, <1>3 DEF SsaApply, cluster
<1>5. e \in job.todo
  BY <1>1, <1>4 DEF First
<1>6. WellBuilt(job, cr, seen.arrived)
  BY <1>4 DEF IInv, Sound
<1>7. DOMAIN next = JobFields /\ next.todo = job.todo \ {e} /\ next.entry = e
      /\ \A x \in JobFields \ {"phase", "entry", "todo"} : next[x] = job[x]
  BY <1>3 DEF IInv, Shapes, JobFields
<1>8. /\ DOMAIN job' = JobFields /\ job'.phase \in {"apply", "replace", "strip"}
      /\ \A x \in JobFields \ {"phase", "entry", "todo"} : job'[x] = job[x]
      /\ job'.todo = job.todo \ {e}
      /\ job'.phase # "apply" => job'.entry = e
  <2>1. CASE job' = [job EXCEPT !.phase = "replace", !.todo = @ \ {e}, !.entry = e]
    BY <2>1 DEF IInv, Shapes, JobFields
  <2>2. CASE job' = Applied(next)
    <3>1. \A x \in JobFields \ {"phase", "entry"} : job'[x] = next[x]
      BY <1>7, <2>2, AppliedFacts
    <3>2. job'.todo = next.todo
      BY <3>1 DEF JobFields
    <3>. QED
      BY <1>7, <2>2, <3>1, <3>2, AppliedFacts
  <2>. QED
    BY <1>4, <2>1, <2>2
<1>9. /\ DOMAIN cr' = DOMAIN cr \cup {e.key} /\ cr'[e.key] = new
      /\ \A k \in DOMAIN cr : k # e.key => cr'[k] = cr[k]
  BY <1>4
<1>10. DOMAIN new = CrFields /\ new.floor = e.floor /\ new.managers = owners
  BY <1>2 DEF CrFields
<1>11. Foreign(cr'[e.key]) => e.key \in DOMAIN cr /\ Foreign(cr[e.key])
  BY <1>4, <1>9, <1>10 DEF Foreign
<1>12. Harmless(e, job, cr, seen.arrived) /\ \A d \in job'.todo : d.key # e.key
  BY <1>5, <1>6, <1>8 DEF WellBuilt
<1>. QED
  BY <1>4, <1>8, <1>9, <1>10, <1>11, <1>12, WriteStep

LEMMA ReplaceContainersStep ==
  ASSUME IInv, NEW owners, ReplaceContainers(owners)
  PROVE  IInv' /\ Keeps
<1>1. PICK k : k = job.entry.key
  OBVIOUS
<1>2. /\ job.phase = "replace" /\ k \in DOMAIN cr
      /\ owners \in {cr[k].managers, {"tool"}}
      /\ cr' = [cr EXCEPT ![k].value = job.entry.value, ![k].extra = FALSE, ![k].managers = owners]
      /\ job' = Applied(job)
      /\ UNCHANGED <<wl, optedIn, seen, changes>>
  BY <1>1 DEF ReplaceContainers, cluster
<1>3. PICK c1 : c1 = [cr[k] EXCEPT !.value = job.entry.value]
  OBVIOUS
<1>4. PICK c2 : c2 = [c1 EXCEPT !.extra = FALSE]
  OBVIOUS
<1>5. PICK c3 : c3 = [c2 EXCEPT !.managers = owners]
  OBVIOUS
<1>6. DOMAIN c3 = CrFields /\ c3.floor = cr[k].floor /\ c3.managers = owners
  BY <1>2, <1>3, <1>4, <1>5 DEF IInv, Shapes, CrFields
<1>7. cr' = [cr EXCEPT ![k] = c3]
  <2>1. cr' = [[[cr EXCEPT ![k] = c1] EXCEPT ![k].extra = FALSE] EXCEPT ![k].managers = owners]
    BY <1>2, <1>3
  <2>2. [[cr EXCEPT ![k] = c1] EXCEPT ![k].extra = FALSE] = [cr EXCEPT ![k] = c2]
    BY <1>2, <1>4
  <2>3. [[cr EXCEPT ![k] = c2] EXCEPT ![k].managers = owners] = [cr EXCEPT ![k] = c3]
    BY <1>2, <1>5
  <2>. QED
    BY <2>1, <2>2, <2>3
<1>8. /\ DOMAIN cr' = DOMAIN cr \cup {k} /\ cr'[k] = c3
      /\ \A j \in DOMAIN cr : j # k => cr'[j] = cr[j]
  BY <1>2, <1>7
<1>9. Harmless(job.entry, job, cr, seen.arrived)
  BY <1>2 DEF IInv, Sound, WellBuilt
<1>10. /\ DOMAIN job' = JobFields /\ job'.phase \in {"apply", "strip"}
       /\ job'.phase = "strip" => job'.entry = job.entry
       /\ \A x \in JobFields \ {"phase", "entry"} : job'[x] = job[x]
  BY <1>2, AppliedFacts DEF IInv, Shapes
<1>11. job'.todo = job.todo
  BY <1>10 DEF JobFields
<1>12. Foreign(cr'[k]) => Foreign(cr[k])
  BY <1>2, <1>6, <1>8 DEF Foreign
<1>. QED
  BY <1>1, <1>2, <1>6, <1>8, <1>9, <1>10, <1>11, <1>12, WriteStep

LEMMA StripTrackingStep ==
  ASSUME IInv, StripTracking
  PROVE  IInv' /\ Keeps
<1>0. PICK e : e = job.entry
  OBVIOUS
<1>1. PICK k : k = e.key
  OBVIOUS
<1>2. /\ job.phase = "strip" /\ k \in DOMAIN cr
      /\ cr' = [cr EXCEPT ![k].tracked = FALSE]
      /\ job' = [job EXCEPT !.phase = "apply", !.entry = NoEntry]
      /\ UNCHANGED <<wl, optedIn, seen, changes>>
  BY <1>0, <1>1 DEF StripTracking, cluster
<1>3. /\ DOMAIN cr' = DOMAIN cr \cup {k} /\ \A j \in DOMAIN cr : j # k => cr'[j] = cr[j]
      /\ cr'[k] = [cr[k] EXCEPT !.tracked = FALSE]
  BY <1>2
<1>4. DOMAIN cr'[k] = CrFields /\ cr'[k].floor = cr[k].floor /\ cr'[k].managers = cr[k].managers
  BY <1>2, <1>3 DEF IInv, Shapes, CrFields
<1>5. Harmless(e, job, cr, seen.arrived)
  BY <1>0, <1>2 DEF IInv, Sound, WellBuilt
<1>6. /\ DOMAIN job' = JobFields /\ job'.phase = "apply" /\ job'.todo = job.todo
      /\ \A x \in JobFields \ {"phase", "entry", "todo"} : job'[x] = job[x]
  BY <1>2 DEF IInv, Shapes, JobFields
<1>7. Foreign(cr'[k]) => Foreign(cr[k])
  BY <1>4 DEF Foreign
<1>8. job'.phase \in {"apply", "replace", "strip"} /\ job.phase \in {"apply", "replace", "strip"}
  BY <1>2, <1>6
<1>9. /\ DOMAIN cr' = DOMAIN cr \cup {e.key} /\ \A j \in DOMAIN cr : j # e.key => cr'[j] = cr[j]
      /\ DOMAIN cr'[e.key] = CrFields
      /\ Foreign(cr'[e.key]) => e.key \in DOMAIN cr /\ Foreign(cr[e.key])
      /\ e.key \in DOMAIN cr /\ cr'[e.key].floor = cr[e.key].floor
  BY <1>1, <1>2, <1>3, <1>4, <1>7
<1>. QED
  BY <1>2, <1>5, <1>6, <1>8, <1>9, WriteStep

LEMMA CallFailsStep ==
  ASSUME IInv, CallFails
  PROVE  IInv' /\ Keeps
<1>1. /\ job.phase \in {"apply", "replace", "strip"} /\ Quiet
      /\ \/ job.phase = "apply" /\ job' = [job EXCEPT !.todo = @ \ {First(@)}]
         \/ job' = [job EXCEPT !.phase = "apply", !.entry = NoEntry]
  BY DEF CallFails
<1>2. /\ DOMAIN job' = JobFields /\ job'.phase = "apply" /\ job'.todo \subseteq job.todo
      /\ job'.targets = job.targets /\ job'.kinds = job.kinds /\ job'.found = job.found
      /\ job'.incomplete = job.incomplete /\ job'.adopt = job.adopt
  BY <1>1 DEF IInv, Shapes, JobFields
<1>3. Discovered(job, seen.gone) /\ WellBuilt(job, cr, seen.arrived)
  BY <1>1 DEF IInv, Sound
<1>4. Discovered(job', seen.gone)
  BY <1>1, <1>2, <1>3 DEF Discovered
<1>5. WellBuilt(job', cr, seen.arrived)
  BY <1>2, <1>3 DEF WellBuilt, Harmless
<1>. QED
  BY <1>1, <1>2, <1>4, <1>5, QuietStep DEF Sound

-----------------------------------------------------------------------------
(* Pruning.                                                                *)

\* A CR that is not to be kept, in a namespace that was read in full, has only
\* workloads behind it that were gone.
LEMMA UnkeptIsGone ==
  ASSUME NEW gone, Discovered(job, gone), job.kinds = {}, NEW k,
         k \notin Keep, k.ns \notin Blocked
  PROVE  Behind(k) \subseteq gone
<1>. SUFFICES ASSUME NEW w \in Workloads, k \in Names(w)
              PROVE  w \in gone
  BY DEF Behind
<1>1. w.ns \notin job.incomplete
  BY DEF Names, Blocked
<1>2. w \in gone \/ \E f \in job.found : f.w = w /\ f.state # "skip"
  BY <1>1 DEF Discovered
<1>3. ASSUME NEW f \in job.found, f.w = w, f.state # "skip"
      PROVE  FALSE
  <2>1. f \in Pairs
    BY <1>3 DEF Pairs
  <2>2. k \in UNION {Names(g.w) : g \in Pairs}
    BY <1>3, <2>1
  <2>. QED
    BY <2>2 DEF Keep
<1>. QED
  BY <1>2, <1>3

LEMMA ListOrphansStep ==
  ASSUME IInv, ListOrphans
  PROVE  IInv' /\ Keeps
<1>1. PICK todo : todo = {k \in DOMAIN cr : cr[k].managed /\ Deletable(k, cr[k])}
  OBVIOUS
<1>2. /\ job.phase = "apply"
      /\ \/ job' = [job EXCEPT !.phase = "prune", !.todo = todo] /\ Quiet
         \/ Exit
  BY <1>1 DEF ListOrphans
<1>3. CASE job' = [job EXCEPT !.phase = "prune", !.todo = todo] /\ Quiet
  <2>1. /\ DOMAIN job' = JobFields /\ job'.phase = "prune" /\ job'.todo = todo
        /\ job'.targets = job.targets /\ job'.kinds = job.kinds /\ job'.found = job.found
        /\ job'.incomplete = job.incomplete /\ job'.adopt = job.adopt
    BY <1>3 DEF IInv, Shapes, JobFields
  <2>2. Discovered(job, seen.gone) /\ job.kinds = {}
    BY <1>2 DEF IInv, Sound, Discovered
  <2>3. Discovered(job', seen.gone)
    BY <1>2, <2>1, <2>2 DEF Discovered
  <2>4. \A k \in todo : Behind(k) \subseteq seen.gone /\ (Foreign(cr[k]) => job.adopt)
    BY <1>1, <2>2, UnkeptIsGone DEF Deletable
  <2>5. WellPruned(job', cr, seen.gone, seen.arrived)
    BY <2>1, <2>4 DEF WellPruned
  <2>. QED
    BY <1>2, <1>3, <2>1, <2>3, <2>5, QuietStep DEF Sound
<1>. QED
  BY <1>2, <1>3, ExitStep

LEMMA DeleteOrphanStep ==
  ASSUME IInv, DeleteOrphan
  PROVE  IInv' /\ Keeps
<1>1. PICK k : k = First(job.todo)
  OBVIOUS
<1>2. /\ job.phase = "prune" /\ k \in job.todo
      /\ job' = [job EXCEPT !.todo = @ \ {k}]
      /\ cr' = [j \in DOMAIN cr \ {k} |-> cr[j]] \/ cr' = cr
      /\ UNCHANGED <<wl, optedIn, seen, changes>>
  BY <1>1 DEF DeleteOrphan, cluster, First
<1>3. /\ DOMAIN job' = JobFields /\ job'.phase = "prune" /\ job'.todo \subseteq job.todo
      /\ job'.targets = job.targets /\ job'.kinds = job.kinds /\ job'.found = job.found
      /\ job'.incomplete = job.incomplete /\ job'.adopt = job.adopt
  BY <1>2 DEF IInv, Shapes, JobFields
<1>4. /\ DOMAIN cr' \subseteq DOMAIN cr /\ DOMAIN cr \ DOMAIN cr' \subseteq {k}
      /\ \A j \in DOMAIN cr' : cr'[j] = cr[j]
  BY <1>2
<1>5. Discovered(job, seen.gone) /\ WellPruned(job, cr, seen.gone, seen.arrived)
  BY <1>2 DEF IInv, Sound
<1>6. Discovered(job', seen.gone)
  BY <1>2, <1>3, <1>5 DEF Discovered
<1>7. WellPruned(job', cr', seen.gone, seen.arrived)
  BY <1>3, <1>4, <1>5 DEF WellPruned
<1>8. Shapes' /\ GoneIsSeen'
  BY <1>2, <1>3, <1>4 DEF IInv, Shapes, GoneIsSeen
<1>9. Keeps
  BY <1>2, <1>4, <1>5 DEF Keeps, WellPruned
<1>. QED
  BY <1>2, <1>3, <1>6, <1>7, <1>8, <1>9 DEF IInv, Sound

-----------------------------------------------------------------------------
LEMMA NextStep ==
  ASSUME IInv, [Next]_vars
  PROVE  IInv' /\ (BySync => Keeps)
<1>1. CASE Surroundings
  BY <1>1, SurroundingsStep
<1>2. CASE SyncStep
  BY <1>2, ListEnabledStep, ListWorkloadsStep, FetchOomStateStep, BuildEntriesStep, SsaApplyStep,
     ReplaceContainersStep, StripTrackingStep, CallFailsStep, ListOrphansStep, DeleteOrphanStep,
     ExitStep DEF SyncStep, EndSync
<1>3. CASE Crash
  BY <1>3, ExitStep DEF Crash
<1>4. CASE UNCHANGED vars
  BY <1>4 DEF vars, IInv, Shapes, GoneIsSeen, Keeps
<1>. QED
  BY <1>1, <1>2, <1>3, <1>4 DEF Next

LEMMA Invariance == Spec => []IInv
<1>1. IInv /\ [Next]_vars => IInv'
  BY NextStep
<1>. QED
  BY InitInv, <1>1, PTL DEF Spec

\* Whichever reads and queries fail and whatever comes and goes meanwhile, a sync
\* deletes a CR only if each workload its name could stand for was not there, or
\* opted out, at some time of that sync. (_prune_orphan_crs, PruneScope)
THEOREM OnlyTheGoneAreDeleted == Spec => DeletesOnlyTheGone
<1>1. IInv /\ [Next]_vars =>
        [BySync => \A k \in DOMAIN cr \ DOMAIN cr' :
           {w \in Workloads : k \in Names(w)} \subseteq seen.gone]_vars
  BY NextStep DEF Keeps, Behind
<1>. QED
  BY Invariance, <1>1, PTL DEF Spec, DeletesOnlyTheGone

\* No sync, however its reads fail, writes a CR without the out-of-memory floor
\* the CR has. (fetch_oom_state, _build_entries, _apply_direct)
THEOREM FloorsAreKept == Spec => FloorsSurvive
<1>1. IInv /\ [Next]_vars =>
        [BySync => \A k \in DOMAIN cr \cap DOMAIN cr' : cr[k].floor => cr'[k].floor]_vars
  BY NextStep DEF Keeps
<1>. QED
  BY Invariance, <1>1, PTL DEF Spec, FloorsSurvive

\* A CR whose spec another manager owned when the sync began is neither written
\* nor deleted, unless it is adopted. (_live_foreign, _prune_orphan_crs)
THEOREM ForeignCrsStay == Spec => ForeignStaysForeign
<1>1. IInv /\ [Next]_vars =>
        [BySync /\ ~job.adopt =>
           \A k \in DOMAIN cr : Foreign(cr[k]) /\ k \notin seen.arrived =>
             k \in DOMAIN cr' /\ cr'[k] = cr[k]]_vars
  BY NextStep DEF Keeps
<1>. QED
  BY Invariance, <1>1, PTL DEF Spec, ForeignStaysForeign
=============================================================================
