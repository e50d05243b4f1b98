--------------------------- MODULE RolloutTrigger ---------------------------
(***************************************************************************)
(* RolloutTrigger (src/src/webhook_rollout.py): turns ResourceOverride     *)
(* events into debounced, rate-limited rolling restarts of the workloads   *)
(* they patch.  Two threads share `pending' under a lock:                  *)
(*   - the CR cache's watch thread calls handle_event and seed;            *)
(*   - the tick thread pops what is due and PATCHes restartedAt, with the  *)
(*     lock released, so events land between the pop and the PATCH.        *)
(*                                                                         *)
(* The module takes any stream of events: what the cache really sends is   *)
(* composed in AutoRollout.  Workloads, their labels and their opt-in are  *)
(* fixed; a CR's content is the resource signature and the workloads its   *)
(* selector matches.  The rollout controller is external.                  *)
(*                                                                         *)
(* Time is kept as countdowns (`wait', `cooldown', `expires') that Clock   *)
(* lowers to 0, so nothing is unbounded; what is lost is the order of two  *)
(* entries that are both overdue, and Pop may take either first.           *)
(* Bounds: MaxEvents callbacks from the cache.                             *)
(***************************************************************************)
EXTENDS Naturals, FiniteSets

CONSTANTS
  CRs, Workloads,
  Overrides,        \* what a CR says: [res, sel]
  Resources,        \* values of _resources_signature
  Absent,           \* old_ro is None
  Unknown,          \* no entry in _known
  NoEntry,          \* no entry in _pending
  OptedIn,          \* workloads is_auto_rollout_enabled accepts
  Surging,          \* workloads that bring up new pods before old ones are gone:
                    \* Deployments, unless they say otherwise
  Debounce,         \* debounce_seconds
  MaxConcurrent,    \* max_concurrent, 0 = unlimited
  MinInterval,      \* min_interval_seconds, 0 = no spacing
  RolloutTimeout,   \* rollout_timeout_seconds
  PatchMaxAttempts, \* _PATCH_MAX_ATTEMPTS
  Backoff,          \* failed attempts -> _PATCH_BACKOFF_BASE_S * 2^(n-1)
  ReadErrorsBeforeRelease,  \* _READ_ERRORS_BEFORE_RELEASE
  LostReplies,      \* can a PATCH be applied and its reply be lost?
  MaxEvents

ASSUME WorkloadsAssumption == 
  /\ IsFiniteSet(Workloads)
  /\ OptedIn \subseteq Workloads
  /\ Surging \subseteq Workloads
ASSUME OverridesAssumption ==
  /\ Overrides \subseteq [res : Resources, sel : SUBSET Workloads]
  /\ Absent \notin Overrides
  /\ Unknown \notin Resources
ASSUME TimingAssumption ==
  /\ Debounce \in Nat \ {0}
  /\ MaxConcurrent \in Nat
  /\ MinInterval \in Nat
  /\ RolloutTimeout \in Nat \ {0}
ASSUME RetryAssumption ==
  /\ PatchMaxAttempts \in Nat \ {0}
  /\ Backoff \in [1..(PatchMaxAttempts - 1) -> Nat \ {0}]
  /\ ReadErrorsBeforeRelease \in Nat \ {0}
  /\ LostReplies \in BOOLEAN
  /\ MaxEvents \in Nat

\* _PendingRestart; fire_at is the time left until it is due.
Entry == [wait : Nat, crs : SUBSET CRs, attempt : 0..(PatchMaxAttempts - 1)]
ASSUME NoEntryAssumption == NoEntry \notin Entry

VARIABLES
  known,      \* self._known
  pending,    \* self._pending
  scheduling, \* (workload, CR) pairs handle_event has yet to _schedule
  tick,       \* where the tick thread is
  checking,   \* in-flight rollouts this tick has yet to look at
  firing,     \* entries popped by this tick and not yet PATCHed
  inFlight,   \* keys of self._in_flight
  expires,    \* time until an in-flight rollout is given up
  readErrors, \* self._read_errors
  cooldown,   \* time until MinInterval since _last_fire_at has passed
  stopping,   \* self._stop
  rolling,    \* cluster: workloads whose stamped rollout is in progress
  surged,     \* cluster: those of them that have all their new pods, and old ones
  excused,    \* history: rolling workloads the limit has stopped counting
  missed,     \* history: (workload, CR) pairs whose entry was out of `pending'
              \* when the CR was last deleted
  events      \* how many handle_event calls there have been

eventVars   == <<known, scheduling, events, missed>>
tickVars    == <<tick, checking, firing, stopping>>
limitVars   == <<inFlight, expires, readErrors, cooldown>>
clusterVars == <<rolling, surged, excused>>
vars        == <<eventVars, pending, tickVars, limitVars, clusterVars>>

TypeOK ==
  /\ known \in [CRs -> Resources \cup {Unknown}]
  /\ pending \in [Workloads -> Entry \cup {NoEntry}]
  /\ scheduling \in SUBSET (Workloads \X CRs)
  /\ tick \in {"sleep", "refresh", "fire", "drain", "stopped"}
  /\ checking \in SUBSET Workloads
  /\ firing \in [Workloads -> Entry \cup {NoEntry}]
  /\ inFlight \in SUBSET Workloads
  /\ expires \in [Workloads -> 0..RolloutTimeout]
  /\ readErrors \in [Workloads -> 0..(ReadErrorsBeforeRelease - 1)]
  /\ cooldown \in 0..MinInterval
  /\ stopping \in BOOLEAN
  /\ rolling \in SUBSET Workloads
  /\ surged \in SUBSET Workloads
  /\ excused \in SUBSET Workloads
  /\ missed \in SUBSET (Workloads \X CRs)
  /\ events \in 0..MaxEvents

Init ==
  /\ known = [cr \in CRs |-> Unknown]
  /\ pending = [w \in Workloads |-> NoEntry]
  /\ scheduling = {}
  /\ tick = "sleep"
  /\ checking = {}
  /\ firing = [w \in Workloads |-> NoEntry]
  /\ inFlight = {}
  /\ expires = [w \in Workloads |-> 0]
  /\ readErrors = [w \in Workloads |-> 0]
  /\ cooldown = 0
  /\ stopping = FALSE
  /\ rolling = {}
  /\ surged = {}
  /\ excused = {}
  /\ missed = {}
  /\ events = 0

Queued(table) == {w \in Workloads : table[w] # NoEntry}
Later(a, b)   == IF a >= b THEN a ELSE b
Lesser(a, b)  == IF a <= b THEN a ELSE b

-----------------------------------------------------------------------------
(* The watch thread: seed and handle_event.                                *)

\* The thread is free for the next callback.
Idle     == scheduling = {}
Receives == Idle /\ events < MaxEvents /\ events' = events + 1

\* The signatures of a listing become the last-known state; CRs it lacks
\* (Unknown) keep their entry.
Seed(listed) ==
  /\ Idle
  /\ known' = [cr \in CRs |-> IF listed[cr] # Unknown THEN listed[cr] ELSE known[cr]]
  /\ UNCHANGED <<scheduling, events, missed, pending, tickVars, limitVars, clusterVars>>

\* The version a change is measured against.
Baseline(cr, old) == IF old # Absent THEN old.res ELSE known[cr]

\* A replay or an edit that leaves the resources alone.
HandleUnchanged(cr, ro, old) ==
  /\ Receives
  /\ Baseline(cr, old) = ro.res
  /\ known' = [known EXCEPT ![cr] = ro.res]
  /\ UNCHANGED <<scheduling, missed, pending, tickVars, limitVars, clusterVars>>

\* A change: list the workloads, and schedule those that match and opted in.
HandleChange(cr, ro, old) ==
  /\ Receives
  /\ Baseline(cr, old) # ro.res
  /\ known' = [known EXCEPT ![cr] = ro.res]
  /\ scheduling' = (ro.sel \cap OptedIn) \X {cr}
  /\ UNCHANGED <<missed, pending, tickVars, limitVars, clusterVars>>

\* A change whose workload list fails: skipped with a warning, but recorded as
\* known, so that a later replay of it is no change any more.
HandleListFails(cr, ro, old) ==
  /\ Receives
  /\ Baseline(cr, old) # ro.res
  /\ known' = [known EXCEPT ![cr] = ro.res]
  /\ UNCHANGED <<scheduling, missed, pending, tickVars, limitVars, clusterVars>>

\* _cancel_pending_for_cr on one entry.
Without(entry, cr) ==
  IF entry = NoEntry \/ entry.crs \subseteq {cr} THEN NoEntry
  ELSE [entry EXCEPT !.crs = @ \ {cr}]

\* The CRs an entry names.
Names(entry) == IF entry = NoEntry THEN {} ELSE entry.crs

\* What a deletion cannot reach: entries the tick thread has popped.
Misses(cr) ==
  missed' = {p \in missed : p[2] # cr} \cup ({w \in Workloads : cr \in Names(firing[w])} \X {cr})

\* Mutant of HandleDeleted: the signature of a deleted CR is remembered.
HandleDeletedRemembers(cr) ==
  /\ Receives
  /\ Misses(cr)
  /\ pending' = [w \in Workloads |-> Without(pending[w], cr)]
  /\ UNCHANGED <<known, scheduling, tickVars, limitVars, clusterVars>>

\* Mutant of HandleDeleted: queued restarts stay queued.
HandleDeletedCancelsNothing(cr) ==
  /\ Receives
  /\ Misses(cr)
  /\ known' = [known EXCEPT ![cr] = Unknown]
  /\ UNCHANGED <<pending, scheduling, tickVars, limitVars, clusterVars>>

HandleDeleted(cr) ==
  /\ Receives
  /\ Misses(cr)
  /\ known' = [known EXCEPT ![cr] = Unknown]
  /\ pending' = [w \in Workloads |-> Without(pending[w], cr)]
  /\ UNCHANGED <<scheduling, tickVars, limitVars, clusterVars>>

\* One _schedule of the loop in handle_event: open the debounce window, or
\* extend the one that is open.
Schedule(w, cr) ==
  /\ <<w, cr>> \in scheduling
  /\ scheduling' = scheduling \ {<<w, cr>>}
  /\ pending' = [pending EXCEPT ![w] =
       [wait    |-> Debounce,
        crs     |-> IF @ = NoEntry THEN {cr} ELSE @.crs \cup {cr},
        attempt |-> IF @ = NoEntry THEN 0 ELSE @.attempt]]
  /\ UNCHANGED <<known, events, missed, tickVars, limitVars, clusterVars>>

-----------------------------------------------------------------------------
(* The tick thread: _tick_loop, _fire_due, _refresh_in_flight,             *)
(* _restart_workload.                                                      *)

\* Mutant of TickStart: the interval is not looked at.
TickStartHasty ==
  /\ tick = "sleep"
  /\ ~stopping
  /\ tick' = "refresh"
  /\ checking' = IF MaxConcurrent = 0 THEN {} ELSE inFlight
  /\ UNCHANGED <<firing, stopping, eventVars, pending, limitVars, clusterVars>>

\* A tick outside the minimum interval; inside it the budget is 0 and the tick
\* does nothing.  With no concurrency limit the statuses are not read.
TickStart ==
  /\ tick = "sleep"
  /\ ~stopping
  /\ cooldown = 0
  /\ tick' = "refresh"
  /\ checking' = IF MaxConcurrent = 0 THEN {} ELSE inFlight
  /\ UNCHANGED <<firing, stopping, eventVars, pending, limitVars, clusterVars>>

\* _release
Release(w) ==
  /\ inFlight' = inFlight \ {w}
  /\ expires' = [expires EXCEPT ![w] = 0]
  /\ readErrors' = [readErrors EXCEPT ![w] = 0]
  /\ UNCHANGED cooldown

\* The cluster's side: a stamp starts a rollout, which ends when only new pods are
\* left or the workload is gone.
RolloutStarts(w) ==
  /\ rolling' = rolling \cup {w}
  /\ surged' = surged \ {w}
  /\ excused' = excused \ {w}
RolloutEnds(w) ==
  /\ rolling' = rolling \ {w}
  /\ surged' = surged \ {w}
  /\ excused' = excused \ {w}

Check(w) ==
  /\ tick = "refresh"
  /\ w \in checking
  /\ checking' = checking \ {w}
  /\ UNCHANGED <<tick, firing, stopping, eventVars, pending>>

RolloutTimedOut(w) ==
  /\ Check(w)
  /\ expires[w] = 0
  /\ Release(w)
  /\ excused' = excused \cup ({w} \cap rolling)
  /\ UNCHANGED <<rolling, surged>>

\* Mutant of RolloutComplete: updated_replicas is not asked for, so pods of the old
\* revision make the rollout look complete.
RolloutCompleteTooEarly(w) ==
  /\ Check(w)
  /\ expires[w] > 0
  /\ Release(w)
  /\ UNCHANGED clusterVars

\* Enough updated and enough available pods, of whatever revision: a workload that
\* surges has both while old pods still run.
RolloutComplete(w) ==
  /\ Check(w)
  /\ expires[w] > 0
  /\ w \in rolling => w \in surged
  /\ Release(w)
  /\ UNCHANGED clusterVars

\* 404: the workload has been deleted, its rollout with it.
RolloutGone(w) ==
  /\ Check(w)
  /\ expires[w] > 0
  /\ Release(w)
  /\ RolloutEnds(w)

\* Pods are missing: they are yet to be replaced, or have failed since.
RolloutRunning(w) ==
  /\ Check(w)
  /\ expires[w] > 0
  /\ readErrors' = [readErrors EXCEPT ![w] = 0]
  /\ UNCHANGED <<inFlight, expires, cooldown, clusterVars>>

\* Mutant of RolloutUnreadable: one failed read too many before the release.
RolloutUnreadableOnceMore(w) ==
  /\ Check(w)
  /\ expires[w] > 0
  /\ IF readErrors[w] + 1 <= ReadErrorsBeforeRelease
     THEN /\ readErrors' = [readErrors EXCEPT ![w] = @ + 1]
          /\ UNCHANGED <<inFlight, expires, cooldown, clusterVars>>
     ELSE /\ Release(w)
          /\ excused' = excused \cup ({w} \cap rolling)
          /\ UNCHANGED <<rolling, surged>>

RolloutUnreadable(w) ==
  /\ Check(w)
  /\ expires[w] > 0
  /\ IF readErrors[w] + 1 < ReadErrorsBeforeRelease
     THEN /\ readErrors' = [readErrors EXCEPT ![w] = @ + 1]
          /\ UNCHANGED <<inFlight, expires, cooldown, clusterVars>>
     ELSE /\ Release(w)
          /\ excused' = excused \cup ({w} \cap rolling)
          /\ UNCHANGED <<rolling, surged>>

Refresh(w) ==
  \/ RolloutTimedOut(w)
  \/ RolloutComplete(w)
  \/ RolloutGone(w)
  \/ RolloutRunning(w)
  \/ RolloutUnreadable(w)

Due == {w \in Queued(pending) : pending[w].wait = 0}

\* Mutant of Budget: it forgets the rollouts in progress.
BudgetPerTick ==
  Lesser(IF MaxConcurrent = 0 THEN Cardinality(Workloads) ELSE MaxConcurrent,
         IF MinInterval = 0 THEN Cardinality(Workloads) ELSE 1)

\* _restart_budget, once the interval has passed.
Budget ==
  Lesser(IF MaxConcurrent = 0 THEN Cardinality(Workloads)
         ELSE IF Cardinality(inFlight) <= MaxConcurrent
              THEN MaxConcurrent - Cardinality(inFlight) ELSE 0,
         IF MinInterval = 0 THEN Cardinality(Workloads) ELSE 1)

\* Under the lock: take as many due entries as the budget allows.
Take(ready) ==
  /\ firing' = [w \in Workloads |-> IF w \in ready THEN pending[w] ELSE NoEntry]
  /\ pending' = [w \in Workloads |-> IF w \in ready THEN NoEntry ELSE pending[w]]

Pop ==
  /\ tick = "refresh"
  /\ checking = {}
  /\ \E ready \in SUBSET Due :
       /\ Cardinality(ready) = Lesser(Budget, Cardinality(Due))
       /\ Take(ready)
       /\ tick' = IF ready = {} THEN "sleep" ELSE "fire"
  /\ UNCHANGED <<checking, stopping, eventVars, limitVars, clusterVars>>

\* Shutdown: once the stop flag is seen every pending entry is fired,
\* whatever its timer and the limits.
Drain ==
  /\ tick = "sleep"
  /\ stopping
  /\ Take(Queued(pending))
  /\ tick' = IF Queued(pending) = {} THEN "stopped" ELSE "drain"
  /\ UNCHANGED <<checking, stopping, eventVars, limitVars, clusterVars>>

\* The entry of w leaves the loop over `ready'.
Attempt(w) ==
  /\ tick \in {"fire", "drain"}
  /\ firing[w] # NoEntry
  /\ firing' = [firing EXCEPT ![w] = NoEntry]
  /\ tick' = IF Queued(firing) # {w} THEN tick
             ELSE IF tick = "fire" THEN "sleep" ELSE "stopped"
  /\ UNCHANGED <<checking, stopping, eventVars>>

\* _restart_workload: the PATCH succeeds and the rollout starts.
PatchSucceeds(w) ==
  /\ Attempt(w)
  /\ cooldown' = MinInterval
  /\ inFlight' = inFlight \cup {w}
  /\ expires' = [expires EXCEPT ![w] = RolloutTimeout]
  /\ RolloutStarts(w)
  /\ UNCHANGED <<readErrors, pending>>

\* 404: the workload is gone and so is its entry.
PatchGone(w) ==
  /\ Attempt(w)
  /\ RolloutEnds(w)
  /\ UNCHANGED <<pending, limitVars>>

GivesUp(entry) == entry.attempt + 1 >= PatchMaxAttempts

\* Mutant of Requeued: the attempt is not counted.
RequeuedUncounted(entry, existing) ==
  LET wait == Backoff[entry.attempt + 1] IN
  IF existing = NoEntry
  THEN [wait |-> wait, crs |-> entry.crs, attempt |-> entry.attempt]
  ELSE [wait    |-> Later(existing.wait, wait),
        crs     |-> existing.crs \cup entry.crs,
        attempt |-> Later(existing.attempt, entry.attempt)]

\* What a failed PATCH leaves in `pending': the entry with a backoff, merged
\* with whatever landed for the same workload meanwhile.
Requeued(entry, existing) ==
  LET wait == Backoff[entry.attempt + 1] IN
  IF existing = NoEntry
  THEN [wait |-> wait, crs |-> entry.crs, attempt |-> entry.attempt + 1]
  ELSE [wait    |-> Later(existing.wait, wait),
        crs     |-> existing.crs \cup entry.crs,
        attempt |-> Later(existing.attempt, entry.attempt + 1)]

\* Any other failure.  The apiserver may have applied the PATCH all the same
\* (the reply timed out): the trigger cannot tell.
PatchFails(w) ==
  /\ Attempt(w)
  /\ pending' = IF GivesUp(firing[w]) THEN pending
                ELSE [pending EXCEPT ![w] = Requeued(firing[w], @)]
  /\ \/ UNCHANGED clusterVars
     \/ LostReplies /\ RolloutStarts(w)
  /\ UNCHANGED limitVars

-----------------------------------------------------------------------------
(* The cluster, the clock and shutdown.                                    *)

\* The last new pod is up, beside old ones.
NewPodsUp(w) ==
  /\ w \in (rolling \cap Surging) \ surged
  /\ surged' = surged \cup {w}
  /\ UNCHANGED <<rolling, excused, eventVars, pending, tickVars, limitVars>>

\* The workload's controller finishes the rollout.
RolloutFinishes(w) ==
  /\ w \in rolling
  /\ RolloutEnds(w)
  /\ UNCHANGED <<eventVars, pending, tickVars, limitVars>>

Down(n) == IF n > 0 THEN n - 1 ELSE 0

Running == \/ cooldown > 0
           \/ \E w \in Queued(pending) : pending[w].wait > 0
           \/ \E w \in Workloads : expires[w] > 0

Clock ==
  /\ Running
  /\ tick # "stopped"
  /\ pending' = [w \in Workloads |->
       IF pending[w] = NoEntry THEN NoEntry ELSE [pending[w] EXCEPT !.wait = Down(@)]]
  /\ expires' = [w \in Workloads |-> Down(expires[w])]
  /\ cooldown' = Down(cooldown)
  /\ UNCHANGED <<inFlight, readErrors, eventVars, tickVars, clusterVars>>

\* stop().  The CR cache has been stopped before it, but that waits at most 10 s
\* for the watch thread: callbacks may still be running or follow.
Stop ==
  /\ ~stopping
  /\ stopping' = TRUE
  /\ UNCHANGED <<tick, checking, firing, eventVars, pending, limitVars, clusterVars>>

-----------------------------------------------------------------------------
Contents == Overrides \cup {Absent}

Scheduling == \E w \in Workloads, cr \in CRs : Schedule(w, cr)

Fire(w) == PatchSucceeds(w) \/ PatchGone(w) \/ PatchFails(w)

TickThread ==
  \/ TickStart
  \/ Pop
  \/ Drain
  \/ \E w \in Workloads : Refresh(w) \/ Fire(w)

\* The callbacks come in any order and carry whatever they may.
Next ==
  \/ \E listed \in [CRs -> Resources \cup {Unknown}] : Seed(listed)
  \/ \E cr \in CRs : HandleDeleted(cr)
  \/ \E cr \in CRs, ro \in Overrides, old \in Contents :
       HandleUnchanged(cr, ro, old) \/ HandleChange(cr, ro, old) \/ HandleListFails(cr, ro, old)
  \/ Scheduling
  \/ TickThread
  \/ \E w \in Workloads : NewPodsUp(w) \/ RolloutFinishes(w)
  \/ Clock
  \/ Stop

\* Both threads keep running and time passes.  Rollouts need not finish and
\* calls need not succeed.  Pop is sorted by fire_at in the code, so an entry
\* that stays due is not passed over for ever: strong fairness per workload.
Fairness ==
  /\ WF_vars(Scheduling)
  /\ WF_vars(TickThread)
  /\ WF_vars(Clock)
  /\ \A w \in Workloads : SF_vars(Pop /\ w \in Due /\ firing'[w] # NoEntry)

Spec     == Init /\ [][Next]_vars
FairSpec == Spec /\ Fairness

-----------------------------------------------------------------------------
(* What the trigger promises.                                              *)

Limited == MaxConcurrent > 0 /\ tick \notin {"drain", "stopped"}

\* The limit is never overspent: the rollouts the trigger counts and the
\* restarts a tick is about to make fit max_concurrent together, although the
\* budget is computed before the entries are popped and PATCHed one by one.
\* (_restart_budget, _fire_due)
LimitNotOverspent ==
  Limited => Cardinality(inFlight \cup Queued(firing)) <= MaxConcurrent

\* The rollouts that still lack new pods stay within the limit, less those the
\* documentation excuses (rollout_timeout_seconds, or three status reads in a row
\* that fail): the slots the trigger counts are those of the cluster, if no PATCH
\* is applied whose reply is lost. (_refresh_in_flight, _rollout_complete)
UpdatesBounded ==
  Limited => Cardinality(rolling \ (surged \cup excused)) <= MaxConcurrent

\* "At most max_concurrent workload rollouts in progress at once (a rollout
\* counts until its controller reports it complete, or rollout_timeout_seconds,
\* or three status reads in a row fail)": what really rolls in the cluster, less
\* what is excused there, stays within the limit outside the shutdown drain.
\* (webhook_rollout.py module docstring, docs/reference.md)
RolloutsBounded ==
  Limited => Cardinality(rolling \ excused) <= MaxConcurrent

\* A queued or popped entry that names a deleted CR was in the hands of the tick
\* thread when the CR was deleted: a DELETED event reaches every window that is
\* open, whatever was merged into it, and what it cannot reach comes back only
\* from a PATCH that failed. (handle_event, _cancel_pending_for_cr,
\* _restart_workload)
OnlyPoppedOutlive ==
  \A w \in Workloads, cr \in CRs : known[cr] = Unknown =>
    /\ cr \in Names(firing[w]) => <<w, cr>> \in missed
    /\ cr \in Names(pending[w]) => <<w, cr>> \in missed /\ pending[w].attempt > 0

\* "A workload entry whose last contributing CR was deleted has its restart
\* cancelled": before the shutdown no entry is queued for deleted CRs alone.
\* (handle_event docstring)
DeletedAreCancelled ==
  tick \notin {"drain", "stopped"} =>
    \A w \in Queued(pending) : \E cr \in pending[w].crs : known[cr] # Unknown

\* Outside the drain two restarts are at least min_interval_seconds apart, also
\* when several entries are due in the same tick. (_restart_budget, _fire_due)
RestartsAreSpaced ==
  [][\A w \in Workloads : PatchSucceeds(w) /\ tick = "fire" => cooldown = 0]_vars

\* Every scheduled restart is settled - made, cancelled or given up after its
\* attempts - even if no rollout ever finishes and no status can be read: a slot
\* is always released in the end.  Only an entry whose PATCH fails in the
\* shutdown drain stays behind. (_refresh_in_flight, _restart_workload)
EveryEntrySettles ==
  \A w \in Workloads :
    pending[w] # NoEntry ~>
      (pending[w] = NoEntry /\ firing[w] = NoEntry) \/ tick = "stopped"
=============================================================================
