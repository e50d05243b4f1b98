----------------------------- MODULE Admission -----------------------------
(***************************************************************************)
(* The webhook's two handlers over the two informers and the status        *)
(* updater (src/src/webhook_server.py, webhook_validate.py):               *)
(*                                                                         *)
(*  - a ResourceOverride written in one opted-in namespace is reviewed     *)
(*    against the cached CRs, and stored some time after the review;       *)
(*  - a pod created there is patched from the cached CRs that match it,    *)
(*    and the CRs that contributed are stamped.                            *)
(*                                                                         *)
(* The cached CRs come from SnapshotReader, which CrCache implements; the  *)
(* index is a dict, ordered by when its entries came, so lookup's order is *)
(* left open.  Of NamespaceCache there is what it says of the namespace.   *)
(*                                                                         *)
(* Bounds: MaxWrites CR writes, MaxReviews reviews under way, MaxTrouble   *)
(* crashes, shutdowns and changes of the opt-in together, and those of     *)
(* StatusUpdater.                                                          *)
(***************************************************************************)
EXTENDS Naturals, Sequences, FiniteSets

CONSTANTS
  CRs, Containers, None, Absent,
  Objects,   \* contents of a CR: [labels, expressions, containers]
  Pods,      \* pods that are created
  SkipKey,   \* the annotation that exempts a pod
  Extended,  \* names of extended resources
  MaxWrites, MaxReviews, MaxTrouble, MaxAdmissions, MaxFailures

ASSUME ContentAssumption == Absent \notin Objects

\* A pod's containers are a list, each with its name.
ASSUME PodAssumption == \A pod \in Pods :
  /\ "containers" \in DOMAIN pod
  /\ pod.containers \in Seq({pod.containers[i] : i \in DOMAIN pod.containers})
  /\ \A i \in DOMAIN pod.containers : "name" \in DOMAIN pod.containers[i]

VARIABLES
  log, at, index, live,  \* the CRs and ResourceOverrideCache (SnapshotReader)
  ready,                 \* its readiness
  optedIn,               \* the namespace carries the opt-in annotation
  nsSeen, nsReady,       \* NamespaceCache: its view of that, its readiness
  reviews,               \* CRs allowed by the handler and not stored yet
  raced,                 \* history: a CR was stored that no current review covers
  trouble,               \* crashes, shutdowns and changes of the opt-in
  status, dirty, snapshot, stage, now, failures, newest, excused \* StatusUpdater

crVars     == <<log, at, index, live, ready>>
nsVars     == <<optedIn, nsSeen, nsReady>>
reviewVars == <<reviews, raced>>
flushVars  == <<status, dirty, snapshot, stage, now, failures, newest, excused>>
vars       == <<crVars, nsVars, reviewVars, trouble, flushVars>>

INSTANCE PodPatch

\* _parse: matchExpressions are dropped, and a CR without matchLabels or
\* containers is no CR.
Overrides == {o \in Objects : o.labels # Empty /\ o.containers # Empty}

Cache == INSTANCE SnapshotReader

StoreAt(n) ==
  {cr \in CRs : \E i \in 1..n : /\ log[i].cr = cr /\ log[i].obj # Absent
                                /\ \A j \in i + 1..n : log[j].cr # cr}
stored == StoreAt(Len(log))

Status == INSTANCE StatusUpdater

Cached == {cr \in CRs : index[cr] # Absent}

TypeOK ==
  /\ log \in Seq([cr : CRs, obj : Objects \cup {Absent}])
  /\ at \in 0..Len(log)
  /\ index \in [CRs -> Overrides \cup {Absent}]
  /\ {live, ready, optedIn, nsSeen, nsReady, raced} \subseteq BOOLEAN
  /\ ready => live
  /\ reviews \in SUBSET [cr : CRs, obj : Objects]
  /\ trouble \in 0..MaxTrouble
  /\ Status!StatusTypeOK

Init ==
  /\ Cache!Init
  /\ ready = FALSE
  /\ optedIn = TRUE
  /\ nsSeen = FALSE
  /\ nsReady = FALSE
  /\ reviews = {}
  /\ raced = FALSE
  /\ trouble = 0
  /\ Status!Init

-----------------------------------------------------------------------------
(* Validation.                                                             *)

\* Mutant of SelectorsCanOverlap: selectors overlap only if they are equal.
SelectorsCanOverlapIfEqual(a, b) == a # Empty /\ a = b

\* _selectors_can_overlap: no label both name has two values.
SelectorsCanOverlap(a, b) ==
  /\ a # Empty /\ b # Empty
  /\ \A k \in DOMAIN a \cap DOMAIN b : a[k] = b[k]

\* _find_conflicts.
Conflicts(cr, obj) ==
  {sibling \in Cached \ {cr} :
     /\ SelectorsCanOverlap(obj.labels, index[sibling].labels)
     /\ DOMAIN obj.containers \cap DOMAIN index[sibling].containers # {}}

\* validate.
Allowed(cr, obj) ==
  \/ ~ready
  \/ /\ ~obj.expressions
     /\ obj.labels # Empty
     /\ obj \in Overrides => Conflicts(cr, obj) = {}

\* A CREATE or UPDATE is sent to the webhook.
Review(cr, obj) ==
  /\ stage = "running"
  /\ Cardinality(reviews) < MaxReviews
  /\ Len(log) + Cardinality(reviews) < MaxWrites
  /\ Allowed(cr, obj)
  /\ reviews' = reviews \cup {[cr |-> cr, obj |-> obj]}
  /\ raced' = (raced \/ ~ready \/ at < Len(log) \/ reviews # {})
  /\ UNCHANGED <<crVars, nsVars, trouble, flushVars>>

Persist(review) ==
  /\ review \in reviews
  /\ reviews' = reviews \ {review}
  /\ Cache!Write(review.cr, review.obj)
  /\ UNCHANGED <<ready, nsVars, raced, trouble, flushVars>>

\* failurePolicy: Ignore.
Unreviewed(cr, obj) ==
  /\ Len(log) + Cardinality(reviews) < MaxWrites
  /\ Cache!Write(cr, obj)
  /\ raced' = TRUE
  /\ UNCHANGED <<ready, nsVars, reviews, trouble, flushVars>>

Delete(cr) ==
  /\ cr \in stored
  /\ Len(log) + Cardinality(reviews) < MaxWrites
  /\ Cache!Write(cr, Absent)
  /\ Status!Deleted(cr)
  /\ UNCHANGED <<ready, nsVars, reviewVars, trouble>>

-----------------------------------------------------------------------------
(* The informers.                                                          *)

\* A list makes the cache ready, an event leaves readiness alone.
CacheAdvances ==
  /\ Cache!Advance
  /\ \/ ready' = TRUE
     \/ live /\ ready' = ready
  /\ UNCHANGED <<nsVars, reviewVars, trouble, flushVars>>

\* Three re-lists in a row failed.
CacheDegrades ==
  /\ ready
  /\ ready' = FALSE
  /\ UNCHANGED <<log, at, index, live, nsVars, reviewVars, trouble, flushVars>>

Toggle ==
  /\ trouble < MaxTrouble
  /\ trouble' = trouble + 1
  /\ optedIn' = ~optedIn
  /\ UNCHANGED <<crVars, nsSeen, nsReady, reviewVars, flushVars>>

\* NamespaceCache lists, or its watch delivers the annotation.
NamespaceSeen ==
  /\ nsSeen' = optedIn
  /\ nsReady' = TRUE
  /\ UNCHANGED <<crVars, optedIn, reviewVars, trouble, flushVars>>

NamespaceDegrades ==
  /\ nsReady
  /\ nsReady' = FALSE
  /\ UNCHANGED <<crVars, optedIn, nsSeen, reviewVars, trouble, flushVars>>

-----------------------------------------------------------------------------
(* Mutation.                                                               *)

\* ResourceOverride.matches, on what _parse left of the selector.
Matches(obj, pod) ==
  /\ obj.labels # Empty
  /\ \A k \in DOMAIN obj.labels : k \in DOMAIN pod.labels /\ pod.labels[k] = obj.labels[k]

\* lookup, in any order.
Lookups(pod) ==
  LET S == {cr \in Cached : Matches(index[cr], pod)} IN
  {[i \in DOMAIN s |-> [id |-> s[i], cr |-> index[s[i]]]] :
     s \in {f \in [1..Cardinality(S) -> S] : \A x, y \in DOMAIN f : f[x] = f[y] => x = y}}

Skipped(pod) == "annotations" \in DOMAIN pod /\ SkipKey \in DOMAIN pod.annotations

\* A container has every quantity a CR gives it, and no limits if the CR says so.
Cleared(target) == target.spelled /\ target.limits = Empty
Gets(container, target) ==
  /\ \A k \in {"requests", "limits"} : \A r \in DOMAIN target[k] :
       r \in DOMAIN Quantities(container, k) /\ Quantities(container, k)[r] = target[k][r]
  /\ Cleared(target) => Quantities(container, "limits") = Empty

\* What the pod that comes out tells: the CRs its annotation names, each with
\* the containers that run what it says, if no later CR lists them too.
Carries(pod, cr) ==
  {n \in DOMAIN cr.containers :
     \E i \in DOMAIN pod.containers :
       pod.containers[i].name = n /\ Gets(pod.containers[i], cr.containers[n])}
Evidence(pod, matches) ==
  [id \in pod.annotations[AppliedBy] |->
     {n \in Carries(pod, index[id]) : Winner(matches, n).id = id}]

\* Both informers have listed: what readyz and the handlers ask.
CachesReady == ready /\ nsReady
\* is_enabled: what the cache saw last, ready or not.
IsEnabled == nsSeen
Serving == stage = "running" /\ CachesReady /\ IsEnabled

\* mutate, for a pod at least one container of which is patched.  The other
\* paths, and a dry run, answer without changing anything.
Mutate(pod, matches) ==
  LET ops == BuildPatches(pod, matches) IN
  /\ Serving
  /\ ~Skipped(pod)
  /\ ops # <<>>
  /\ Status!Record(PatchedContainers(pod, matches), Evidence(Patched(pod, ops), matches))
  /\ UNCHANGED <<crVars, nsVars, reviewVars, trouble>>

-----------------------------------------------------------------------------
(* The process.                                                            *)

Boot == Cache!Forget /\ ready' = FALSE /\ nsSeen' = FALSE /\ nsReady' = FALSE

Crash ==
  /\ trouble < MaxTrouble
  /\ trouble' = trouble + 1
  /\ Boot
  /\ Status!Replaced(CRs)
  /\ UNCHANGED <<optedIn, reviewVars>>

Stop ==
  /\ trouble < MaxTrouble
  /\ trouble' = trouble + 1
  /\ Status!Stop
  /\ UNCHANGED <<crVars, nsVars, reviewVars>>

Exit ==
  /\ Boot
  /\ Status!Exit
  /\ UNCHANGED <<optedIn, reviewVars, trouble>>

CutOff ==
  /\ Boot
  /\ Status!JoinTimesOut
  /\ UNCHANGED <<optedIn, reviewVars, trouble>>

Flush == Status!FlushThread /\ UNCHANGED <<crVars, nsVars, reviewVars, trouble>>

Next ==
  \/ \E cr \in CRs, obj \in Objects : Review(cr, obj) \/ Unreviewed(cr, obj)
  \/ \E review \in reviews : Persist(review)
  \/ \E cr \in CRs : Delete(cr)
  \/ CacheAdvances
  \/ CacheDegrades
  \/ Toggle
  \/ NamespaceSeen
  \/ NamespaceDegrades
  \/ \E pod \in Pods : \E matches \in Lookups(pod) : Mutate(pod, matches)
  \/ Flush
  \/ Crash
  \/ Stop
  \/ Exit
  \/ CutOff

Spec == Init /\ [][Next]_vars

\* The flush thread runs, and a process that was told to stop ends.
FairSpec == Spec /\ WF_vars(Flush) /\ WF_vars(Exit)

-----------------------------------------------------------------------------
(* What the webhook promises.                                              *)

\* "Reject new CRs whose selector overlaps ... AND shares a container name"
\* (docs/reference.md, the validating webhook): as long as every CR was stored
\* after a review that saw all the others, no container of any pod is claimed
\* by two cached CRs, whatever the cache has seen since.
OneClaim ==
  ~raced => \A pod \in Pods : \A matches \in Lookups(pod) : \A n \in ContainerNames(pod) :
              Cardinality(Listing(matches, n)) <= 1

\* A container comes out with quantities that were there before or that the CR gives,
\* and what the CR has no say in - the other sub-tree - is left alone.
NothingInvented(container, out, target) ==
  \A k \in {"requests", "limits"} :
    /\ \A r \in DOMAIN Quantities(out, k) \ DOMAIN target[k] :
         r \in DOMAIN Quantities(container, k)
           /\ Quantities(out, k)[r] = Quantities(container, k)[r]
    /\ target[k] = Empty /\ ~(k = "limits" /\ Cleared(target)) =>
         Quantities(out, k) = Quantities(container, k)

\* Whatever the pod has - no resources, no limits, no annotations - the
\* apiserver accepts the patch, and what comes out has the same containers: in every
\* one that is claimed the winner's values beside quantities that were there before,
\* the others as they were, and the annotation; the CRs it names are credited with
\* the containers that really carry their values, and of two that agree on a
\* container the one whose values it got.
\* (webhook_patch.py build_patches, patched_containers_per_cr)
PatchesFit ==
  Serving => \A pod \in Pods : \A matches \in Lookups(pod) :
    LET ops == BuildPatches(pod, matches)
        out == Patched(pod, ops)
    IN ops # <<>> =>
      /\ Accepts(pod, ops)
      /\ DOMAIN out.containers = DOMAIN pod.containers
      /\ \A i \in DOMAIN pod.containers :
           LET n == pod.containers[i].name
               t == Winner(matches, n).cr.containers[n] IN
           /\ out.containers[i].name = n
           /\ IF n \in Claimed(pod, matches)
              THEN /\ Gets(out.containers[i], t)
                   /\ NothingInvented(pod.containers[i], out.containers[i], t)
              ELSE \A k \in {"requests", "limits"} :
                     Quantities(out.containers[i], k) = Quantities(pod.containers[i], k)
      /\ out.annotations[AppliedBy] = Sources(pod, matches)
      /\ "annotations" \in DOMAIN pod =>
           \A k \in DOMAIN pod.annotations \ {AppliedBy} : out.annotations[k] = pod.annotations[k]
      /\ Evidence(out, matches) = PatchedContainers(pod, matches)

\* "Replace `requests` and `limits` sub-trees individually so we don't clobber other
\* resource fields (e.g. extended resources, nvidia.com/gpu) that the operator may have
\* set intentionally": a container keeps the extended resources the CR does not list.
\* (webhook_patch.py _patch_container docstring)
ExtendedKept ==
  Serving => \A pod \in Pods : \A matches \in Lookups(pod) :
    \A i \in DOMAIN pod.containers : \A k \in {"requests", "limits"} :
      LET n   == pod.containers[i].name
          t   == Winner(matches, n).cr.containers[n]
          out == Patched(pod, BuildPatches(pod, matches)).containers[i]
      IN n \in Claimed(pod, matches) /\ ~Cleared(t) =>
           \A r \in (DOMAIN Quantities(pod.containers[i], k) \cap Extended) \ DOMAIN t[k] :
             r \in DOMAIN Quantities(out, k)

\* The newest stamp of a CR tells of the containers that really carry its
\* values, and is on its way or stored: no flush loses it, neither by a failed
\* PATCH nor to an older stamp nor at a shutdown.  Only a crash, a failure in the
\* last flush, or stop() giving up on that flush may.
\* (webhook_status.py flush_once, _flush_loop, stop)
StampsAreTrue ==
  \A cr \in CRs : newest[cr] # None => newest[cr] \in {dirty[cr], snapshot[cr], status[cr]}

\* In the end the status of every CR is its newest stamp.
StampsSettle == <>[](\A cr \in CRs : newest[cr] \in {None, status[cr]})
=============================================================================
