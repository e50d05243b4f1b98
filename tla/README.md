# kube-resource-updater: specifications and proofs

TLA+ modules for the concurrent core of kube-resource-updater, the TLC
instances that check them, and TLAPS proofs of their main invariants. Line
numbers refer to the files under `src/` of the repository.

## The system

A *sync* run (`main.py`, a CronJob) measures workloads in Prometheus, computes
CPU and memory requests and limits, and writes them as `ResourceOverride` CRs,
through Git merge requests or directly to the apiserver. The *webhook* process
(`webhook_server.py`, one or more replicas) reads the CRs and applies them to
the pods it admits. The two meet only in the CRs.

| Component | State | Operations | Talks to |
|---|---|---|---|
| CR cache (`webhook_cache.py`) | index, ready flag, resourceVersion | bootstrap list, watch, re-list, lookup | apiserver; callbacks into the rollout trigger on its own thread |
| Namespace cache (same file) | annotations, ready flag | list, watch, lookup | apiserver |
| Rollout trigger (`webhook_rollout.py`) | last-known resources, pending restarts, rollouts in flight | handle_event, seed, tick, restart with retry, drain | cache (callbacks), apiserver (PATCH, status reads) |
| Mutating admission (`webhook_server.py`, `webhook_patch.py`) | metrics | review a pod, build a JSON patch | both caches, status updater |
| Validating admission (`webhook_validate.py`) | none | accept or refuse a CR | CR cache |
| Certificate reconciler (`webhook_cert.py`) | current certificate, Secret, caBundle of two webhook configurations | ensure, watch, rotate, exit | apiserver, other replicas |
| Status updater (`webhook_status.py`) | pending status patches | record, flush, requeue | apiserver |
| Resource computation (`writeback.py`, `writeback_webhook.py`, `health.py`) | none | margins, floors, ceilings, change clamps, OOM floor | Prometheus values, the previous CR |
| Direct write-back (`writeback_webhook.py`) | CRs in the cluster | server-side apply, foreign-manager check, prune | apiserver |
| Git write-back (`writeback_webhook.py`, `git_provider.py`) | clone, branch, merge request | render, commit, push with rebase, open or update | Git host |
| Configuration (`config.py`), annotation hierarchy (`overrides.py`) | per-run settings | parse, validate, resolve per workload | ConfigMap, environment, annotations |
| Sync loop (`main.py`, `discovery.py`, `workload.py`) | per-run values | enumerate, call the others in order | apiserver |

What is hard in it: the watch thread, the tick thread and admissions share
memory; the watch breaks, resumes and repeats; calls fail after they took
effect; the process is replaced at any point and keeps everything in memory;
replicas do the same work at the same time; sync runs fail for some namespaces
and prune for others. `PROJECT.json` lists these hazards line by line with the
properties that cover them.

What makes each component correct:

* cache - the index is a consistent snapshot, it converges, the callback
  consumer hears of every change, readiness follows the apiserver;
* trigger - limits hold under failures, no restart for a deleted CR or a
  replay, every scheduled restart is settled, no change is lost;
* admission - a pod gets exactly the current overrides that select it, and
  nothing when the cache cannot be trusted; two CRs never contend for one
  container;
* certificate - what is served is always signed by the published CA, replicas
  agree, rotation completes;
* status - the last admission is recorded in the end, and time does not go back;
* computation - limit >= request, bounds respected whatever the order of the
  clamps, an OOM floor never lowered by a later run;
* write-back - a failed namespace loses nothing, foreign-owned CRs are left
  alone, re-running changes nothing, two runs do not undo each other.

## Modules

### How they fit

```
 the webhook process                          a sync Job
 CrCache -----+                               Settings --> Overrides --> Queries
   | implements                                              |
 SnapshotReader --> Admission <-- PodPatch    Recommender <--+  one container's values
                      ^                       DirectSync   one Job, direct mode
                      +-- StatusUpdater       GitSync      one Job, GitOps mode
                                                ^-- Forge, Settings
 CrCache + RolloutTrigger --> AutoRollout     CertReconciler  stands alone
```

An arrow is an INSTANCE (`AutoRollout`, `Admission`, Forge) or an EXTENDS
(`Overrides`, `Queries`, `Recommender`, each of the one before it). The sync modules meet the
webhook modules only in the CRs, as the programs do: what `DirectSync` writes is
what `CrCache`'s `Apply` and `Delete` leave open.

### CrCache

`ResourceOverrideCache`. The watch thread is the variable `pc`: `boot` (the
bootstrap loop), `watch` (inside `_watch_loop`), `fire` (a callback for one
event is due), `announce` (the synthetic callbacks and the seed callback after a
list), `relist` (the watch raised). `index`, `ready` and `rv` are the fields
`_index`, `_ready`, `_resource_version`; `fails` is `consecutive_fail`; `pos` is
how far the stream that is open has come; `callbacks` are calls to
`event_callback` still to be made, and `told` what they told the consumer.

| Action | Code |
|---|---|
| `InitialList` | a successful `_initial_list`, from bootstrap or after a broken watch |
| `RelistFails` | a failed re-list: count, clear `_ready` at K, back off, watch again |
| `DeliverParsed`, `DeliverMalformed` | `_apply_event` for CRs that parse, and for those that do not (the effective-delete path) |
| `FireCallback`, `Seed` | `_fire_callback`, `seed_callback` |
| `WatchEnds`, `WatchRaises` | the stream's 300 s timeout, its failure |
| `Restart` | the process is replaced |
| `Apply`, `Delete`, `Outage`, `Recover` | the apiserver, external |

The apiserver is a log of writes whose length is the resourceVersion. CR
content is a model value, except that some content does not parse; two versions
with equal content stand for a metadata-only update.

A list, a delivery and a callback are one step each. The list is one request
whose answer the thread applies; what is written between the request and the
end of the handler is above the listed resourceVersion and comes through the
watch, in the model as in the code.

### SnapshotReader

What the webhook's handlers may assume of the cache, stated without lists and
watches: `Advance` moves the index from one view of the store to a later one,
`Forget` is a new process. `ImplementsReader` in CrCache is the refinement
(`Reader == INSTANCE SnapshotReader WITH ...`): the abstract position `at` is the
latest point of the log whose view the index is (`View`), no earlier than the
stream's position, so an event that is delivered twice is a stutter and a list
is one `Advance`. Admission is built over SnapshotReader, not over CrCache.

### RolloutTrigger

`RolloutTrigger` for any stream of events. The watch thread runs the `Handle...`
actions and then one `Schedule` per matching workload; the tick thread goes
`sleep` -> `refresh` (`_refresh_in_flight`, one workload per step) -> `fire` (one
PATCH per step) and back, or `drain` -> `stopped` on shutdown. `pending`,
`known`, `inFlight` (`_in_flight`) and `readErrors` are the fields of the class;
`firing` holds the entries `_fire_due` has popped and not yet PATCHed, which is
the window the interleavings are about. Each `Handle...` action is a branch of
`handle_event`; each PATCH outcome (`PatchSucceeds`, `PatchGone`, `PatchFails`)
and each status read (`RolloutTimedOut`, `RolloutComplete`, `RolloutGone`,
`RolloutRunning`, `RolloutUnreadable`) is an action.

Timestamps are countdowns that `Clock` lowers: `wait` until an entry is due,
`expires` until a rollout is given up, `cooldown` until the next restart is
allowed. Two entries that are both overdue lose their order; `Pop` may take
either first, and the fairness of `Pop` restores what sorting by `fire_at`
guarantees.

The cluster's side of a rollout has three stages: pods of the new revision are
missing (`rolling`), all are up beside old ones (`surged`; only workloads of the
constant `Surging` get there, as a Deployment does by default), only they are left. `_rollout_complete` counts
updated and available pods and so calls the second stage complete. `excused` are
rollouts the documentation stops counting (timed out, unreadable), and `missed` the
pairs of a workload and a CR that was deleted while the workload's entry was
popped: two history variables. A PATCH that fails may have been applied all the
same if `LostReplies`. A change whose workload list fails is recorded in `known` and schedules nothing
(`HandleListFails`), so the next event that repeats it is taken for a replay.

### AutoRollout

CrCache and RolloutTrigger together, as `webhook_server.run` wires them. The
watch thread alternates between cache and trigger code (a callback takes the
cache's `FireCallback` and the trigger's `Handle...` in one step, and the cache
goes on only when the `Schedule` steps are done); the tick thread, the
apiserver, the controllers and the clock interleave with it. `admitted` records,
per workload, the resources of each CR its pods were last admitted with.
`FaultSets` says which faults may occur together in one behaviour; `faulty`,
chosen once, keeps them. The graceful shutdown is left to RolloutTrigger.

### CertReconciler

`CertReconciler` for any number of replicas, every apiserver call a step. `proc`
holds, per replica, the next call (`pc`), the method it belongs to (`mode`: `boot`
is `run_once_blocking`, `exit` is `_regenerate_and_exit`, `watch` the MWC stream,
`loop` the rest of `_run`), the webhook configuration it is at and the
certificate in its hands. `served` is what aiohttp loaded; `fresh` are the
replicas whose read copy of a configuration is current, so a replace by another
one ends in `Conflict`. Certificates are serial numbers in the order of their
generation; `due` is the last one within 30 days of its expiry.

| Action | Code |
|---|---|
| `EnsureSecret` | the read in `_ensure_secret` |
| `ReplaceSecret`, `CreateSecret`, `Adopt` | the three calls of `_regenerate_secret` |
| `ReadConfiguration`, `ReplaceConfiguration`, `Conflict` | `_ensure_mwc_ca_bundle`, then `_ensure_vwc_ca_bundle` |
| `CheckExpiry` | `_check_expiry` |
| `SecretDeleted`, `SecretWatchEnds` | `_watch_secret_briefly` |
| `ReadCa`, `MwcEvent`, `MwcWatchEnds` | `_watch_mwc_briefly` |
| `Raise` in `Conflict`, `Adopt`, `CallFails` | the handler in `_run`, or the death of the process at boot |
| `Crash`, `Drift`, `DeleteSecret`, `DamageSecret`, `ComesDue` | external |

A rotation whose last calls fail does not exit, in the model as in the code: the
exception reaches the handler of `_run`, the next `_check_expiry` finds a valid
Secret, and the process keeps the certificate it loaded. A `ca.crt` that is
damaged alone is not repaired before a restart, which `BundlesConverge` excludes.
A configuration that does not exist is skipped; an unset VWC name is the same.
A failed call has no effect here (a lost reply is not modelled).

### Admission, StatusUpdater, PodPatch

The two request handlers of the webhook (`Mutate`, `Review`), over the cached
CRs (SnapshotReader), the namespace cache (`nsSeen`, `nsReady`) and the status
updater. A review and the write it allows are two steps (`Review`, `Persist`);
between them other reviews run and the cache moves. `Unreviewed` is
`failurePolicy: Ignore`. `lookup` returns the matching CRs in the order of a dict
that the watch refills, so `Lookups` is the set of all orders.

PodPatch is the algorithm: `BuildPatches` is the JSON patch of `build_patches`,
`PatchedContainers` what `patched_containers_per_cr` credits, and the second half
is RFC 6902 as the apiserver applies it (`Lands`, `Edit`), so that `PatchesFit`
speaks of the pod that comes out, not of the operations. `Extended` names the
resources a pod's author may have set that are neither CPU nor memory; only
`ExtendedKept` mentions it.

StatusUpdater holds the map of stamps (`dirty`) and what the running flush has
taken (`snapshot`). A flush is `Swap` and one PATCH per step: `PatchLands`,
`PatchGone` (404), `PatchFails`, whose PATCH may have been applied. `stage` follows
the shutdown: `Stop`, a last flush, `Exit`; or `JoinTimesOut`, when that flush takes
longer than `stop()` waits for the daemon thread, which then dies with the process
(`CutOff` in Admission: the next one boots). `newest` and `excused` are history:
the stamp the status should end with, computed from the pod that really came out
(`Evidence`: the containers that carry a CR's values and got them from it, the last
one in the lookup when two CRs list one container), and the CRs whose PATCH failed in the last flush. `raced` is history
too: some CR was stored that no review covers which saw all the others.

### Settings, Overrides

Pure functions from what is written to what a sync works with. A `Literal` is
what can stand for a value in YAML, in the environment or in an annotation, as
far as the parsers tell literals apart. `Load` is `Config.load`: one operator per
parser (`Flag`, `IntBound`, `Ratio`, `OptFloat`), empty when one of them raises.
`Validate` is `Config.validate`, one conjunct per category of the code. Overrides
is the annotation side: `ParseAnnotations`, `Merge` and `Apply` for the keys that
are projected onto the settings, `ResolveBoolChain` for the markers, which the code
looks up in the raw annotations one at a time, and the three lookups with rules
of their own (`IsNamespaceEnabled`, `IsOomFloorResetRequested`,
`IsContainerSkipped`). Ratios are in hundredths.

### Queries

`prometheus.py` with Prometheus behind it. A *monitoring* is what Prometheus has of
a container: the pods, how often cAdvisor is scraped, the samples of each metric,
what fails. `Evaluable`, `Matched` and `Answered` say when a query has an answer at
all; `ScrapeInterval` detects the step; `CpuMax` and `MemoryMax` are the largest value of
any pod at any time; `CpuRequest` and `MemRequest` are a percentile (`Quantile`) of
the busiest pod's series (`Busiest`); `RestartCount`, `CpuPoints` and `MemPoints` are
what the gates of `health.py` ask. Times are in seconds,
CPU in millicores, memory in the bytes of Recommender.

### Recommender

`Effective` is what `cmd_sync` makes of a setup (chart, namespace, workload) for one
workload, with the gates and OOM switches it resolves beside the settings; it is
computed once, at Init. Then it is one container through any number of syncs. `Sync` is `_build_containers_payload`
and the document it is written to, in the code's order: `Start` (Prometheus values,
or the live CR under a cooldown or a gate, or a cold start), the bump, then
`Passes`: sticky floor, growOnly and shrinkOnly, `ApplyMaxChange`, `EnforceFloors`,
`DropCpuLimit`; and `Recorded`, the OOM annotations. Each pass is one operator over
a function from the present fields to numbers, with the code's rounding
(`HalfEven`, `RoundUpNice`, whole mebibytes). `live` is the CR a sync reads, `doc`
the one it writes; in direct mode they are the same, in GitOps mode `Reconcile`
is ArgoCD. The pod is killed (`OutOfMemory`) when it needs more than `podLimit`, and
gets the CR's limit only when it is recreated. The rest is input: `Monitorings` is
what Prometheus may have seen, which `QueryPromValues` (what is asked, and the
fallbacks when one query has no answer) and `AssessContainer` (the gates) turn into
values through Queries; `Setups` is what the operators have written. A CR of an
older release carries the workload-wide annotations (`legacy`): `ParseOom` reads
them under the per-container ones, as `_parse_oom_annotations` does, and the setups
`upgraded` and `upgradedGit` start from one. `Kept` is `skipContainers`.

### DirectSync

One Job in direct mode with the cluster around it. `job` is the local state of
`cmd_sync` and its callees; every API call is a step: `ListEnabledNamespaces`,
`ListWorkloads` once per kind, `FetchOomState`, `BuildEntries`, then per entry
`SsaApply`, `ReplaceContainers` and `StripTracking`, `ListOrphans` and one
`DeleteOrphan` per CR. Between any two of them workloads, opt-ins and usage change
and another field manager applies, releases or prunes a CR (`Surroundings`). Reads
fail for some namespaces, writes fail, the Job dies (`Crash`). A CR's content is a
value with a flag for its OOM floor; `Payloads` says which values Recommender's
arithmetic could give. `seen` is history: what was gone, and which CRs another
manager took, at some time of the running sync.

### GitSync

One Job in GitOps mode with the repository around it: `Clone`, `DirectPass`
(pass 1), `Rebase` and `Retry` (`_push_with_rebase`), `RequestPass` (pass 2), and
`OpenRequest`, whose steps are Forge's. `main` is the target branch, `branch` the work branch with the
commit it forks from. A tree maps workloads to documents; `WriteFiles` is
`_write_namespace_files` with `_prune_orphan_files`, file by file, where a file is the
set of workloads of a namespace. A document that someone has `Broken` makes its file
no YAML: `_read_old_docs` finds no documents in it (`OldDoc`), and pruning does not
claim it (`_is_tool_owned`). Other writers commit, reviewers merge (a
three-way merge) or close, recommendations and buckets change, and the Job dies
between any two steps. `job.unlisted` is history: the workloads a failed list hid.

### Forge

`GitProvider` as GitSync uses it. `provider` is what `build_provider` makes of the
settings and the repository's host, `request` the newest request of the work
branch in the forge, and `call` how far `open_or_update_pr` has come: `lookup`,
then `update` or `create`, `recover` after a 409 or 422, and on GitHub `review`
(`_request_reviewers`). A host is the sequence of its labels, so that `DetectProvider`
can look at how it ends. A request can be opened if the work branch has something
to merge (`Mergeable` in GitSync). GitLab and GitHub differ in how reviewers are named and
asked, in who deletes a merged branch, and in the credentials. `CreateUnheard` is
a POST whose reply is lost and which the session repeats.

### Proof modules

`CrCache_proofs`, `RolloutTrigger_proofs`, `AutoRollout_proofs`, `Admission_proofs`,
`CertReconciler_proofs`, `Recommender_proofs`, `DirectSync_proofs` and
`GitSync_proofs` extend the modules they are about; `AutoRollout_proofs` takes the
cache's invariant and refinement from `CrCache_proofs`.

### Mutants

An operator whose comment starts with "Mutant of" is a plausible bug in the
definition it names. It is not part of the specification; `PROJECT.json` says
which property detects it.

## Runs

| Run | Shows |
|---|---|
| `MCCrCache.cfg` | `TypeOK`, `IndexIsSnapshot`, `ConsumerInStep`, `Converges` and the refinement `ImplementsReader` under `FairSpec`: 3 writes to 2 CRs, 2 outages or restarts |
| `MCRolloutTrigger.cfg` | `TypeOK`, `LimitNotOverspent`, `UpdatesBounded`, `OnlyPoppedOutlive`, `RestartsAreSpaced`, `EveryEntrySettles` under `FairSpec`: 2 workloads, one of which surges, 2 CRs that select both, 3 events, `max_concurrent` 1, a minimum interval, a shutdown |
| `MCAutoRollout.cfg` | `KnownIsIndex`, `ReplaysRestartNothing`, `PodsConverge`: cache and trigger together, with the faults of one of its `FaultSets` |
| `MCCertReconciler.cfg` | `TypeOK`, `OnlyStoredIsUsed`, `RotationsBounded`, `BundlesConverge`: 2 replicas, one loss or fault |
| `MCRecommender.cfg` | `SettingsResolve`, `LimitsCoverRequests`, `FloorInForce`, `FloorSurvives`, `KillsCountOnce`, `CooldownKeeps`, `ChangesCapped`, `KillsRaiseLimit`: 25 setups, two of them upgraded from a release with the legacy annotations, each with every order of syncs, kills and restarts |
| `MCDirectSync.cfg` | `DeletesOnlyTheGone`, `FloorsSurvive`, `ForeignStaysForeign`, `SyncsConverge`, `SyncsGoQuiet` under `FairSpec` |
| `MCGitSync.cfg` | `BucketsSeparate`, `OthersKept`, `DirectIsDelivered`, `ReviewIsAsked`, `SyncsConverge` under `FairSpec`, on GitLab with a token and on GitHub with an App |
| `MCAdmission.cfg` | `PatchesFit`, `OneClaim`, `StampsAreTrue`, `StampsSettle` under `FairSpec` |
| `MCCrCache_ready.cfg` | violation: `ReadyReturns` |
| `MCCertReconciler_coldstart.cfg` | violation: `ReplicasAgree`, without any fault |
| `MCGitSync_missing.cfg` | violation: `MissingIsNotGone` |
| `MCAdmission_extended.cfg` | violation: `ExtendedKept` |

These four violations are disagreements between the code and its own
documentation; `PROJECT.json` quotes the lines.

* `ReadyReturns`: readiness is cleared at the third failed re-list, but the loop
  goes on to watch, and a watch that opens never re-lists.
* `ReplicasAgree`: REPLACE is sent without a resourceVersion: both replicas read
  404, one CREATEs, the other's REPLACE then overwrites it; the first serves its
  own certificate until it is restarted. The chart's default is one replica.
* `MissingIsNotGone`: a kind that could not be listed is reported as failed, and
  `failed_namespaces` reaches only the direct writer; in GitOps mode the documents
  of its workloads are removed.
* `ExtendedKept`: the docstring of `_patch_container` (`webhook_patch.py:127-129`)
  promises that extended resources (a GPU) are not clobbered; they live in the
  `requests` and `limits` maps that it replaces as a whole, so what the CR does not
  list is gone. `PatchesFit` therefore promises the CR's quantities and nothing
  that was not there before, no more.

Five more configurations reach a counterexample in seconds, each to something the
documentation says. They are kept beside the runs to be run by hand
(`tlc -config MCRolloutTrigger_surge.cfg MCRolloutTrigger.tla`); none of them is part of
`PROJECT.json`, whose passing runs check what holds in spite of them.

| Configuration | Violates | Documentation | What holds instead |
|---|---|---|---|
| `MCRolloutTrigger_surge.cfg` | `RolloutsBounded` | `webhook_rollout.py:31-34`, `docs/reference.md:222`: at most `max_concurrent` rollouts, each counted until its controller reports it complete | `UpdatesBounded` |
| `MCRolloutTrigger_lostreply.cfg` | `RolloutsBounded` | the same | `LimitNotOverspent` |
| `MCRolloutTrigger_deleted.cfg` | `DeletedAreCancelled` | `webhook_rollout.py:184-187`: an entry whose last CR was deleted has its restart cancelled | `OnlyPoppedOutlive` |
| `MCRecommender_gitops.cfg` | `FloorSurvives` | `docs/reference.md:1072`: sticky minimum | `FloorSurvives` where the workload keeps its entry (`NeverDropped`) |
| `MCGitSync_malformed.cfg` | `DryRunCarriedForward` | `writeback_webhook.py:2486-2488`: documents under dryRun are carried forward verbatim | `BucketsSeparate` for files that are YAML |

* Surge: `_rollout_complete` (`webhook_rollout.py:440-443`) does not compare
  `status.replicas` with `updated_replicas`, and available pods may be of the old
  revision. A Deployment with one replica gives its slot back as soon as its new
  pod is available, and the next workload restarts while the old pod still runs.
* Lost reply: the PATCH was applied, the trigger takes it for failed, and the rollout
  takes no slot.
* Deletion: an entry is popped, its CR is deleted, which finds nothing to cancel, its
  PATCH fails, and it is queued again for the deleted CR alone.
* Dropped entry: in GitOps mode a sync without a recommendation for a workload
  (`writeback_webhook.py:516`) drops its document, and the floor with it. The direct
  mode leaves the CR alone.
* Malformed file: one document that does not parse makes its file count as empty
  (`writeback_webhook.py:2741`), and the next write of the file leaves out the
  documents of workloads under dryRun, or waiting for review, that stood beside it.

### What else the models show

Shorter counterexamples met on the way, that no run repeats:

* After the K-th failed re-list the next list takes itself for a first one and
  announces nothing: workloads whose CR changed in the outage keep their old
  resources until the CR changes again. `PodsConverge` is checked with outages
  that end before that.
* A stamp is sent by name: it lands on a CR that was deleted and created again.
  A CR that lists a container without values is credited with it. Two replicas
  can make `lastAppliedAt` go back.
* An apply cannot be made conditional on the owner that was read: a manager that
  takes a CR in between is overridden (`seen.arrived` excuses this in
  `ForeignStaysForeign`).
* A CR named after its workload stays behind, unmanaged by a later sync, when a
  second workload of that name makes the tool use the longer names: `Keep` lists
  both names of every workload.
* In GitOps mode pass 2 renders the direct bucket from the documents of before
  the sync: what another writer committed to one of them comes back in the merge
  request. A push that fails in pass 2 is logged as "nothing was pushed"
  (`main.py:503`) though pass 1 is on the branch. When the last namespace opts
  out, the early return leaves its documents. A stale request stays open.
* A GitHub App on a host other than github.com with `gitProvider: auto` passes
  `validate` (`config.py:538` counts it as a credential), but `build_provider`
  resolves to GitLab with no token: as soon as one entry wants a request,
  `_commit_repo` returns without delivering any, direct ones included. Without
  `Deliverable`, `DirectIsDelivered` holds; the run's remotes leave this one out.
* On GitLab a reviewer whose id could not be looked up when the request was
  created is never added: an adopted request gets a new description only.
* Configured ceilings are not enforced again after `_enforce_floors`, and a CR
  with requests only over a template with a lower limit is refused by the
  apiserver; the operator sees both in the pod.
* `kube-resource-updater.oomBumpFactor` as an annotation bypasses the clamp to 1.0
  that `config.py:215` applies to the chart's value; below 1 a kill lowers the
  target, which never raises a limit.
* So does `memoryLimitMultiplier`, which only the chart's value has a range for:
  below 1, `_apply_oom_floor` raises the request above the limit, and
  `_enforce_floors` lifts the limit only if it changed something itself. The
  setups keep it at 1 or more.
* With the chart's `oomDetectionEnabled: false` the whole block at `main.py:389` is
  skipped: `oomDetectionEnabled`, `oomFloorEnabled` and `oomFloorReset` annotations
  have no effect, so a floor cannot be reset then (the setup `deaf`).
* `validate` accepts windows in weeks and years (`config.py:504`),
  `_parse_duration_seconds` does not know them: the coverage gate is off, and the
  restart gate takes the other window for the wider one (the setup `weekly`).
* "Keep them in lockstep" (`overrides.py:110`): `_bool` takes a typo for false and
  does not strip, `_parse_bool` strips and falls through to the next layer.
* `detect_scrape_interval` accepts intervals up to 120 s, but the CPU queries ask for
  `rate[1m]`: with cAdvisor scraped less often than every 30 s the CPU request never
  has an answer.
* `pod=~"target-.*"` also matches the pods of a workload whose name starts with
  `target-`: their usage counts for both. A limit query that fails alone falls back
  to the request times the multiplier, without a word.
* A percentile from an annotation is not range-checked: `"95"`, meant as a per cent,
  makes `quantile_over_time` answer infinity, and no value is written (the
  annotation of setup `frozen`).
* In direct mode the legacy `oom-floor` annotation is not the tool's to remove from
  the live CR: after an `oomFloorReset` is lifted it is read again. In GitOps mode
  `_is_oom_annotation` does not know the investigation prefix, so a reset keeps that
  annotation.
* Two CRs that agree on a container's values both seem to have set it: the tool
  credits the last one of the lookup only, so `Evidence` asks who won, too.
* A floor is recorded rounded to the mebibyte, its first request is computed from
  the target before rounding: a later sync may raise that request, in a cooldown
  too (a limit of 5Mi bumped by 1.5 under a multiplier of 3: floor 8Mi, request
  first 2Mi, then 3Mi). `CooldownKeeps` therefore allows growth for a floor on record
  as for a new kill; a mebibyte of 2 bytes is too coarse to show it.
* `maxChangePercent` has three exceptions besides kills and floors, all in
  `ChangesCapped`: a baseline of zero caps nothing (nor the limit lifted to its
  request); a minimum of the request lifts the limit as well; a value above its
  ceiling comes down to it at once. Values get above a ceiling because the
  resources synthesised for a cold start (`writeback_webhook.py:1233`), sticky
  floors and the lifting of limits have none, and the final pass that
  `writeback_webhook.py:1376-1378` says clamps a value above its ceiling calls
  `_enforce_floors`, which raises values and never lowers one.
* Out-of-memory kills are looked up by namespace and name: a Deployment and a
  StatefulSet of one name share them.

### Bounds

Three writes are enough for a CR to be created, broken and repaired or
deleted, and for two CRs to interleave; two faults for an outage during the
recovery from a restart; the invariants are proved without these bounds. Of the
trigger, two workloads are the least with which a limit of one is exceeded, and two
CRs the least that are merged into one entry; three events are two changes and a
deletion in any order with pops and retries. A PATCH is given up after two attempts
there, not three: one to put the entry back and one to drop it.
Durations
of 1 and 2 ticks make every order of debounce, backoff, timeout and interval
possible, since only their expiry is observable. Two replicas and one trouble
make a rotation by both, with 409s in any order.

Recommender bounds nothing but its inputs: histories stop at `HistoryCap`, the
timestamps in use are renumbered, so any number of syncs and kills is covered. A
mebibyte of 2 bytes puts bumped and halved values between those that can be
written; the setups are the settings one at a time and the pairs whose passes
disagree, each written in the chart, on the namespace or on the workload, some
mistyped or misplaced, and one that fails each category of `validate`.

DirectSync: two namespaces and two kinds make a failed list of one kind hide a
workload of the other's name; one change and one failure in a sync, at any two
places, and any number of syncs after them. GitSync: documents break only by another writer's commit, which is
one of the changes; three workloads in two
files, so that a file is shared and another can lose its last document; two
changes (another writer and a reviewer, a bucket and a recommendation) and one
failure; of the remotes, one for each way to authenticate. Admission: two CRs with selectors and containers that overlap in one
respect, in both or in neither; two writes and two reviews under way are the
least with which reviews race; one trouble (crash, shutdown, with or without the end of its last flush, or opt-out) and one
failed PATCH at any point; two admissions so that a newer stamp meets an older.

CRs, contents and replicas are symmetric where no liveness is checked and the
instance is large. `CHECK_DEADLOCK FALSE` is set where the system really may
stop: the trigger after its drain, AutoRollout, whose writes, faults and
callbacks are bounded, and GitSync, whose Jobs end and whose CronJob has nothing
to do when no workload has an entry.

### Fairness

The daemon threads keep running (weak fairness of their steps; every
exception handler in `_run`, `_tick_loop` and `_flush_loop` continues the loop). An
outage ends. A stream that is opened again and again delivers its next event in
the end (strong fairness per event): it lives 300 s and re-sends at once what is
outstanding. The MWC stream of the certificate reconciler delivers its event and
ends after 300 s (strong fairness of both: it is opened and left again and
again). `SyncStep` is weakly fair: a running Job goes on and the CronJob starts
the next one (`concurrencyPolicy: Forbid`, so one at a time). A process that got
SIGTERM exits (`WF(Exit)`). Nothing forces a watch of CRs to break, a PATCH to
succeed, a status read to work, a rollout to finish, or a reviewer to act:
`SyncsConverge` of GitSync names its assumption that open requests are merged,
`DirectIsDelivered` and `ReviewIsAsked` have none. `Clock` is fair: time passes.

## Proofs

TLAPS proves these for every set of CRs, workloads, pods and contents and every
value of the limits and bounds. An invariant a run checks is seldom inductive;
what each proof adds is listed with it.

* `CrCache_proofs`: `TypeCorrect`, `IndexStaysSnapshot`, `ConsumerStaysInStep`, and
  the refinement `CacheImplementsReader`.
  `IndexIsSnapshot` alone is not inductive: a stream that resumes from a lagging
  resourceVersion repeats events, and nothing in the index says it is safe to
  apply them. The strengthening `Snapshot` places the index at the view of a
  point `n` no earlier than the stream's position and adds that everything
  between the recorded resourceVersion and `n` is malformed. So a repeated event
  never carries content, and the CR it names is already out of the index
  (`RevisionMalformed`). `AddedAfterAbsent` covers the one malformed event the
  code ignores, ADDED; `StoreIsLast` ties the log to the store a list returns.
  `LatestIsMax`, by well-founded induction on the distance from the end, is the
  lemma under all of it. The refinement follows the latest such `n`: it never goes
  back while the process lives (`ReaderStep`).
* `RolloutTrigger_proofs`: `TypeCorrect`, `LimitHolds`, `OnlyPoppedEntriesOutlive`,
  `UpdatesStayBounded` (no lost replies), `RolloutsStayBounded` (nor surges),
  `RestartsStaySpaced`. The strengthening `IInv` adds that the list a tick works
  through is empty between ticks (`LoopEmpty`), that the CR being scheduled is known
  (`WorkIsLive`), that only workloads of `Surging` have old pods beside all new ones
  (`OnlySurging`), and that each rollout that lacks new pods and is not excused
  occupies a slot (`Counted`).
* `AutoRollout_proofs`: `KnownStaysIndex`, `ReplaysStayHarmless`, on top of the
  cache's invariant. `InStep` says that the callbacks and the seed still to be made
  bring the trigger's last-known state in step with the index; `StaysReady` that
  without a long outage every re-list announces. `Charged` is the account behind
  the second: the changes taken for one so far, and the one the callbacks to come
  will be taken for, are moves of the log up to the moment the index shows, so a
  replay finds nothing left to charge.
* `Admission_proofs`: `ClaimsStaySingle`, `PatchesStayFit`, `StampsStayTrue`. `ClaimInv` says of *every*
  moment of the log that no two CRs claim a container together, not only of the
  one the cache shows, and of the review under way that it was held against the
  store as it is, deletions aside. `StampInv` orders the places a stamp can be in
  (`NewestInOrder`): one in the map is the newest, one in the flush is older than
  the one in the map only, so a PATCH that lands late is followed by the newer one.
  `PatchesFit` needs no invariant but what a lookup returns (`LookupsAre`); it is
  about the functions of PodPatch, which recurse over the containers, a path and a
  list of operations. `Induction` is stated for a set of numbers and proved from the
  well-founded order of the naturals; with it each recursive function has the values
  its definition says (`NodesAre`, `EditsAre`, `PatchesAre`, `EditedAre`). Then comes what
  one operation does at each of the four lengths of path that occur (`EditOf1` to
  `EditOf4`), what the operations for one container do in every state it may be in
  (`ContainerPatched`), and, by induction over the containers, that after the first n
  of them these have their quantities and the rest of the pod is as it was
  (`ContainersPatched`). `StampsStayTrue` uses the result: what is credited is what the
  pod carries.
* `CertReconciler_proofs`: `TypeCorrect`, `OnlyStoredStaysUsed`, `RotationsStayBounded`.
  For the second the strengthening adds that every field of the Secret has been
  stored (`SecretIsStored`, so what a boot or a 409 adopts is), that a replica about
  to write the Secret holds a generated certificate (`WritersHoldMinted`), and that
  a replica in mode `loop` has no call of its own under way (`LoopIsIdle`). For the
  third, `MayMint` is who could generate a certificate if nothing else went wrong,
  and `Budget` that those generated and these together stay within the bound: the
  set shrinks by the replica that generates and grows only by what is charged.
* `DirectSync_proofs`: `OnlyTheGoneAreDeleted`, `FloorsAreKept`, `ForeignCrsStay`. The
  invariant follows the local state of the running Job from read to read
  (`Discovered`, `WellRead`, `WellBuilt`, `WellPruned`): what is in its hands is true of
  the cluster but for what `seen` says has changed since.
* `GitSync_proofs`: `BucketsStaySeparate`, `OthersStayKept`. `Sound` says what the trees
  in the Job's hands are; its last part is the one that matters: a commit waiting
  for its second push agrees with the tip it is rebased on, for every workload it
  may not touch and every document another writer has changed.
* `Recommender_proofs`: `SettingsStayResolved`, `KillsStayCounted`, `LimitsStayAbove`,
  `FloorStaysInForce`, `FloorsOutlive`, `KillsAreHeeded`, `ChangesStayCapped`,
  `CooldownStays`. The first is about the
  operators of Settings and Overrides (`ParsedWithout`, `EffectiveSame`: removing a
  key that says nothing changes no lookup). The others rest on one invariant
  each, a document at a time. The passes are composed, so each has lemmas for
  what it keeps (`OomFloorReady`, `GrowShrinkReady`, `MaxChangeReady`, `FloorsReady`,
  `DropCovered`) and how far it may lower a limit (`PassesMoved`, `PassesHold`).
  `LimitsCoverRequests` is not inductive: limits are computed from requests
  before either is rounded, a floor's request is the floor divided by the
  multiplier, and CPU limits may be dropped and computed again; `PairsCovered`
  adds the pairing of requests and limits in both documents, whole mebibytes, and
  that no floor and no pod's limit lies strictly between zero and a mebibyte.
  The rounding is half to even over any scale: `HalfEvenMonotone`, `HalfEvenExact`.
  For `ChangesCapped`, `EdgesNear` bounds the products that the edges of the cap are
  rounded from, and `LiftedMoves` is the step that is easy to get wrong: a limit
  lifted to a capped request stays within the cap of its own, because in the live
  CR it was not below the request before. For `CooldownKeeps`, `DocumentsSettled` says
  that a document in its cooldown was written by a sync, so that it has every minimum
  and no unwanted CPU limit; then each pass keeps `Above`: CPU as it is, memory not
  lower, and neither moved unless there is a kill or a floor.

### Assumptions and hypotheses

The named assumptions in the modules type the constants, and TLC evaluates them
in every run. Those worth knowing: numbers of replicas and workloads are finite;
`Absent` and `NoSecret` are no content; the queries answer in integers, for they
round (`AnswerAssumption`); a mebibyte is an even number of bytes
(`ScaleAssumption`; a bump by half of one mebibyte must not vanish in the
integers of the model); a
template's memory limit is a mebibyte at least, and a CR of an older release has
requests and limits in whole mebibytes (`TemplateAssumption`).

Some theorems have hypotheses on the behaviour. Each is there because the
property fails without it, or because a part of it is out of the prover's reach:

* `KnownStaysIndex`: no outage of `ReadyClearAfterK` failed re-lists, after which
  the next list announces nothing (see above).
* `UpdatesStayBounded`: no PATCH whose reply is lost. `RolloutsStayBounded`: in addition
  no workload that surges. Without either the property fails, as
  `MCRolloutTrigger_lostreply.cfg` and `MCRolloutTrigger_surge.cfg` show.
* `InRange`, in six theorems of Recommender (in three of them as a part of what follows): a memory multiplier of at least 1 and a
  bump factor of at least 1. The chart's validation enforces both
  (`config.py:459`), the annotations that override them are not checked; below 1
  a floor asks for a request above its limit.
* `FromScratch` of `FloorStaysInForce`: besides `InRange`, no negative minimum and
  no CR of an older release. In direct mode the lists of that release belong to
  another field manager and stay in the live CR; when an `oomFloorReset` is lifted
  their floor is read again, and with `shrinkOnly` it is recorded over a limit
  that has meanwhile gone below it. The runs check the property for the upgraded
  setups they have, without `shrinkOnly`.
* `NeverDropped` of `FloorsOutlive`: besides `InRange`, in GitOps mode the workload has
  an entry in every sync, because another container of it has a recommendation
  and its bounds do not contradict each other. Without it the property fails,
  which `MCRecommender_gitops.cfg` shows.
* `BumpsClear` of `KillsAreHeeded`: besides `InRange`, a bump factor of at least 1.5,
  the default. A smaller one can be rounded back to the mebibyte of a small limit.

The settings are fixed in a behaviour, as in a run of the program. An operator who
turns `emitCpuLimits` off and on again under `growOnly` may get a new CPU limit below
a request kept from the live CR (`_apply_grow_shrink` lifts no limit), which no
theorem excludes; one who raises a minimum sees it applied in a cooldown.

### Only model-checked

* The liveness properties (`Converges`, `EveryEntrySettles`, `PodsConverge`,
  `BundlesConverge`, `SyncsConverge`, `SyncsGoQuiet`, `DirectIsDelivered`,
  `ReviewIsAsked`, `StampsSettle`): the prover has neither fairness nor ENABLED.

Everything else the passing runs check is a theorem. What was proved stays in the
runs: they show that the hypotheses have behaviours, and their mutants that a
plausible slip in the code breaks the property.

## Not modelled, and why

* The length of backoff sleeps and their jitter: only what can happen meanwhile
  matters.
* Compaction of the apiserver's log: a watch at a compacted resourceVersion
  raises, which `WatchRaises` allows at any time.
* Selector matching and the opt-in hierarchy inside the trigger: a CR's content
  includes the set of workloads it selects, and `OptedIn` is fixed.
* Of the Prometheus client, its caches and retries (a query that fails twice has no
  answer), `check_connectivity`, and `prefetch_prometheus_parallel`, which nothing
  calls. PromQL is modelled by what the queries built here return: pods, steps,
  windows and percentiles, not its syntax.
* Of the configuration, `--mr` on the command line, merge request metadata, log
  settings, and the warning about provider and host.
* The signing and the HTTP exchange of GitHub App authentication (a failure ends
  the sync, as `Crash` does), logging, metrics, Kubernetes client set-up:
  formatting and process set-up, without behaviour over time. Titles,
  descriptions, labels and assignees of requests.
* `tools/qa_params.py` (13,224 of the 25,033 lines that count as implementation)
  is a test program: it calls the functions above with mocks. It is read for what
  the code is meant to do, and there is nothing of the system in it to model.

## Plan

1. *Done*: all modules above.
2. *Done*: proofs of every invariant and every action property the runs check, and
   of the refinement of the cache.
3. Left to TLC: the liveness properties. What could be added: the namespace cache's
   own loop, request and process limits of the webhook server, and the audit Events
   of the direct mode.
