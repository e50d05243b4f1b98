---------------------------- MODULE AutoRollout ----------------------------
(***************************************************************************)
(* One webhook process as far as auto-rollout goes: the CR cache           *)
(* (CrCache) and the rollout trigger (RolloutTrigger) wired together as    *)
(* webhook_server.run does - event_callback = handle_event, seed_callback  *)
(* = seed, both called on the cache's watch thread - next to the tick      *)
(* thread, the apiserver, and the pods the webhook admits while a          *)
(* workload rolls.                                                         *)
(*                                                                         *)
(* FaultSets names what may go wrong together; each behaviour has one set   *)
(* of them, its `faulty':                                                  *)
(*   "outage"     the apiserver is unreachable for a while                 *)
(*   "longOutage" ... for ReadyClearAfterK failed re-lists or more         *)
(*   "list"       the workload list of a callback fails                    *)
(*   "patch"      a restart PATCH fails (and is retried)                   *)
(*   "crash"      the process is replaced and its memory lost              *)
(***************************************************************************)
EXTENDS Naturals, Sequences, FiniteSets

CONSTANTS
  CRs, Overrides, Malformed, Absent, ReadyClearAfterK, MaxWrites, MaxFaults,
  Workloads, Resources, Unknown, NoEntry, OptedIn, Surging, Debounce, MaxConcurrent,
  MinInterval, RolloutTimeout, PatchMaxAttempts, Backoff,
  ReadErrorsBeforeRelease, LostReplies, MaxEvents,
  FaultSets

ASSUME FaultsAssumption ==
  FaultSets \subseteq SUBSET {"outage", "longOutage", "list", "patch", "crash"}

VARIABLES
  store, log, up, faults,
  index, ready, rv, pos, pc, fails, callbacks, told,
  known, pending, scheduling, tick, checking, firing, inFlight, expires,
  readErrors, cooldown, stopping, rolling, surged, excused, events, missed,
  faulty,     \* what may go wrong
  admitted,   \* cluster: per workload, the overrides its pods were admitted with
  candidates  \* history: how often a CR's event was taken for a change

Cache   == INSTANCE CrCache
Trigger == INSTANCE RolloutTrigger

\* What the two parts assume of their constants.
ASSUME PartsAssumption ==
  /\ Cache!ContentAssumption
  /\ Cache!BoundAssumption
  /\ Trigger!WorkloadsAssumption
  /\ Trigger!OverridesAssumption
  /\ Trigger!TimingAssumption
  /\ Trigger!RetryAssumption
  /\ Trigger!NoEntryAssumption

cacheVars   == <<store, log, up, faults, index, ready, rv, pos, pc, fails, callbacks, told>>
triggerVars == <<known, pending, scheduling, tick, checking, firing, inFlight, expires,
                 readErrors, cooldown, stopping, rolling, surged, excused, events, missed>>
outside     == <<admitted, candidates, faulty>>
vars        == <<cacheVars, triggerVars, outside>>

Init ==
  /\ Cache!Init
  /\ Trigger!Init
  /\ faulty \in FaultSets
  /\ admitted = [w \in Workloads |-> [cr \in CRs |-> Absent]]
  /\ candidates = [cr \in CRs |-> 0]

\* The overrides lookup returns for w's pods; none while the cache is not
\* ready, since the mutate handler then lets the pod through unchanged.
Matching(idx, w) ==
  [cr \in CRs |-> IF idx[cr] # Absent /\ w \in idx[cr].sel THEN idx[cr].res ELSE Absent]

-----------------------------------------------------------------------------
(* The watch thread runs cache and trigger code one after the other.       *)

\* At bootstrap the listed CRs "are what pods were already admitted with".
Bootstrap ==
  /\ pc = "boot"
  /\ Cache!InitialList
  /\ admitted' = [w \in Workloads |-> Matching(index', w)]
  /\ UNCHANGED <<triggerVars, candidates, faulty>>

Relist ==
  /\ pc = "relist"
  /\ Cache!InitialList
  /\ UNCHANGED <<triggerVars, outside>>

RelistFails ==
  /\ fails + 1 < ReadyClearAfterK \/ "longOutage" \in faulty
  /\ Cache!RelistFails
  /\ UNCHANGED <<triggerVars, outside>>

\* The thread is back in the cache's code only when handle_event has returned.
Watch ==
  /\ scheduling = {}
  /\ Cache!Deliver \/ Cache!WatchEnds \/ Cache!WatchRaises
  /\ UNCHANGED <<triggerVars, outside>>

CallbackDeleted(c) ==
  /\ c.type = "DELETED"
  /\ Cache!FireCallback(c)
  /\ Trigger!HandleDeleted(c.cr)
  /\ UNCHANGED outside

CallbackUnchanged(c) ==
  /\ c.type # "DELETED"
  /\ Cache!FireCallback(c)
  /\ Trigger!HandleUnchanged(c.cr, c.ro, c.old)
  /\ UNCHANGED outside

CallbackChange(c) ==
  /\ c.type # "DELETED"
  /\ Cache!FireCallback(c)
  /\ \/ Trigger!HandleChange(c.cr, c.ro, c.old)
     \/ /\ "list" \in faulty
        /\ Trigger!HandleListFails(c.cr, c.ro, c.old)
  /\ candidates' = [candidates EXCEPT ![c.cr] = @ + 1]
  /\ UNCHANGED <<admitted, faulty>>

Callbacks ==
  \E c \in callbacks : CallbackDeleted(c) \/ CallbackUnchanged(c) \/ CallbackChange(c)

\* _resources_signature of what the cache holds.
Signature(content) == IF content = Absent THEN Unknown ELSE content.res

Seed ==
  /\ Cache!Seed
  /\ Trigger!Seed([cr \in CRs |-> Signature(index[cr])])
  /\ UNCHANGED outside

Scheduling ==
  /\ Trigger!Scheduling
  /\ UNCHANGED <<cacheVars, outside>>

WatchThread ==
  \/ Bootstrap
  \/ Relist
  \/ RelistFails
  \/ Watch
  \/ Callbacks
  \/ Seed
  \/ Scheduling

-----------------------------------------------------------------------------
(* The tick thread.                                                        *)

\* A restart: the new pods come to this webhook and get what the index holds.
Restart(w) ==
  /\ Trigger!PatchSucceeds(w)
  /\ admitted' = [admitted EXCEPT ![w] =
       IF ready THEN Matching(index, w) ELSE [cr \in CRs |-> Absent]]
  /\ UNCHANGED <<cacheVars, candidates, faulty>>

RestartFails(w) ==
  /\ "patch" \in faulty
  /\ Trigger!PatchFails(w)
  /\ UNCHANGED <<cacheVars, outside>>

TickThread ==
  \/ /\ \/ Trigger!TickStart
        \/ Trigger!Pop
        \/ \E w \in Workloads :
             \/ Trigger!RolloutTimedOut(w)
             \/ Trigger!RolloutComplete(w)
             \/ Trigger!RolloutRunning(w)
     /\ UNCHANGED <<cacheVars, outside>>
  \/ \E w \in Workloads : Restart(w) \/ RestartFails(w)

-----------------------------------------------------------------------------
(* Everything else.                                                        *)

Writers ==
  /\ \/ \E cr \in CRs, obj \in Cache!Objects : Cache!Apply(cr, obj)
     \/ \E cr \in CRs : Cache!Delete(cr)
  /\ UNCHANGED <<triggerVars, outside>>

Network ==
  /\ \/ /\ faulty \cap {"outage", "longOutage"} # {}
        /\ Cache!Outage
     \/ Cache!Recover
  /\ UNCHANGED <<triggerVars, outside>>

Cluster ==
  /\ \/ \E w \in Workloads : Trigger!NewPodsUp(w) \/ Trigger!RolloutFinishes(w)
     \/ Trigger!Clock
  /\ UNCHANGED <<cacheVars, outside>>

\* The pod's process is replaced.  Rollouts under way go on in the cluster; the
\* new process knows nothing of them.
Crash ==
  /\ "crash" \in faulty
  /\ Cache!Restart
  /\ known' = [cr \in CRs |-> Unknown]
  /\ pending' = [w \in Workloads |-> NoEntry]
  /\ firing' = [w \in Workloads |-> NoEntry]
  /\ expires' = [w \in Workloads |-> 0]
  /\ readErrors' = [w \in Workloads |-> 0]
  /\ scheduling' = {} /\ checking' = {} /\ inFlight' = {}
  /\ tick' = "sleep" /\ cooldown' = 0 /\ stopping' = FALSE
  /\ UNCHANGED <<rolling, surged, excused, events, missed, outside>>

Next == WatchThread \/ TickThread \/ Writers \/ Network \/ Cluster \/ Crash

\* The watch thread goes through the cache's and the trigger's code.
Fairness ==
  /\ WF_vars(Bootstrap \/ Relist \/ RelistFails \/ Callbacks \/ Seed \/ Scheduling)
  /\ \A n \in 1..MaxWrites : SF_vars(pos = n - 1 /\ Cache!Deliver /\ Watch)
  /\ WF_vars(TickThread)
  /\ \A w \in Workloads :
       SF_vars(w \in Trigger!Due /\ TickThread /\ Trigger!Pop /\ firing'[w] # NoEntry)
  /\ WF_vars(Network /\ Cache!Recover)
  /\ WF_vars(Cluster /\ Trigger!Clock)

Spec     == Init /\ [][Next]_vars
FairSpec == Spec /\ Fairness

-----------------------------------------------------------------------------
\* Between callbacks the trigger's last-known state is the cache's index, CR by
\* CR: neither an outage shorter than K failed re-lists, a re-list, a CR that
\* stops parsing, nor a failed workload list makes the two drift apart.
\* (webhook_cache.py _initial_list, _apply_event; webhook_rollout.py seed,
\* handle_event)
KnownIsIndex ==
  pc = "watch" /\ scheduling = {} => \A cr \in CRs : known[cr] = Signature(index[cr])

\* The writes to cr that changed its resources, or brought it (back) to life.
Moves(cr) ==
  {i \in 1..Len(log) :
     /\ log[i].cr = cr
     /\ log[i].type # "DELETED"
     /\ log[i].obj \in Overrides
     /\ Signature(Cache!Revision(cr, i - 1)) # log[i].obj.res}

\* "Watch replays and webhook reconnects never restart anything by themselves":
\* however often a CR is re-listed, re-delivered or rewritten unchanged, and
\* across crashes, it is never taken for changed more often than its resources
\* were really changed in the apiserver. (docs/reference.md, handle_event)
ReplaysRestartNothing ==
  \A cr \in CRs : candidates[cr] <= Cardinality(Moves(cr))

\* Once writes and faults are over, the pods of every opted-in workload come to
\* run with the resources of every CR that selects them: no change is lost
\* between apiserver, watch, debounce, queue and restart by an outage.  (A failed
\* list or PATCH, or a crash, may lose one: the code says so.)
\* (webhook_rollout.py module docstring)
PodsConverge ==
  <>[](\A cr \in CRs, w \in OptedIn :
         faulty = {"outage"} /\ store[cr] \in Overrides /\ w \in store[cr].sel => admitted[w][cr] = store[cr].res)
=============================================================================
