------------------------------ MODULE CrCache ------------------------------
(***************************************************************************)
(* ResourceOverrideCache (src/src/webhook_cache.py): the informer that     *)
(* keeps the webhook's in-memory index of ResourceOverride CRs equal to    *)
(* the apiserver's, through a list, a watch that resumes from the last     *)
(* resourceVersion, and a re-list whenever the watch breaks.  One daemon   *)
(* thread runs all of it; admissions only read `index' (lookup) and        *)
(* `ready'.                                                                *)
(*                                                                         *)
(* The apiserver is external.  A resourceVersion is the length of the      *)
(* write log, so a watch opened at rv delivers log[rv+1], log[rv+2], ...   *)
(* A call succeeds while the apiserver is up and raises while it is down;  *)
(* a stream may also break (410 Gone, connection reset) or end (300 s) at  *)
(* any time.                                                               *)
(*                                                                         *)
(* Bounds: MaxWrites CR writes, MaxFaults outages and process restarts     *)
(* together.  `fails' saturates at ReadyClearAfterK, the only value the    *)
(* code compares it with (the length of the backoff sleep is abstracted).  *)
(***************************************************************************)
EXTENDS Naturals, Sequences, FiniteSets

CONSTANTS
  CRs,              \* (namespace, name) of every CR that may exist
  Overrides,        \* contents _parse accepts
  Malformed,        \* content _parse rejects: no matchLabels, no containers
  Absent,           \* no such CR
  ReadyClearAfterK, \* _READY_CLEAR_AFTER_K
  MaxWrites,
  MaxFaults

ASSUME ContentAssumption ==
  /\ Malformed \notin Overrides
  /\ Absent \notin Overrides
  /\ Malformed # Absent
ASSUME BoundAssumption ==
  /\ ReadyClearAfterK \in Nat \ {0}
  /\ MaxWrites \in Nat
  /\ MaxFaults \in Nat

VARIABLES
  store,     \* apiserver: the CRs as they are now
  log,       \* apiserver: every write, in resourceVersion order
  up,        \* apiserver: reachable from this pod
  faults,    \* how many outages and restarts have happened
  index,     \* self._index, what admissions look up
  ready,     \* self._ready
  rv,        \* self._resource_version
  pos,       \* how far the open stream has delivered
  pc,        \* where the watch thread is
  fails,     \* consecutive_fail
  callbacks, \* events still to be handed to event_callback
  told       \* what the callback consumer has been told of each CR

apiVars   == <<store, log, up, faults>>
cacheVars == <<index, ready, rv, pos, pc, fails, callbacks, told>>
vars      == <<apiVars, cacheVars>>

Objects   == Overrides \cup {Malformed}
Contents  == Overrides \cup {Absent}
EventType == {"ADDED", "MODIFIED", "DELETED"}
Event     == [type : EventType, cr : CRs, obj : Objects]
Callback  == [type : EventType, cr : CRs, ro : Overrides, old : Contents]

\* Mutant of Parse: an invalid CR is cached as it is.
ParseTrusts(obj) == obj

\* _parse: a CR the tool cannot use counts as no CR at all.
Parse(obj) == IF obj \in Overrides THEN obj ELSE Absent

TypeOK ==
  /\ store \in [CRs -> Objects \cup {Absent}]
  /\ log \in Seq(Event)
  /\ up \in BOOLEAN
  /\ faults \in 0..MaxFaults
  /\ index \in [CRs -> Contents]
  /\ ready \in BOOLEAN
  /\ rv \in 0..Len(log)
  /\ pos \in 0..Len(log)
  /\ pc \in {"boot", "watch", "fire", "announce", "relist"}
  /\ fails \in 0..ReadyClearAfterK
  /\ callbacks \in SUBSET Callback
  /\ told \in [CRs -> Contents]

NothingCached == [cr \in CRs |-> Absent]

Init ==
  /\ store = [cr \in CRs |-> Absent]
  /\ log = <<>>
  /\ up = TRUE
  /\ faults = 0
  /\ index = NothingCached
  /\ ready = FALSE
  /\ rv = 0
  /\ pos = 0
  /\ pc = "boot"
  /\ fails = 0
  /\ callbacks = {}
  /\ told = NothingCached

-----------------------------------------------------------------------------
(* The apiserver and the network.                                          *)

\* GitOps, the direct write-back or a user creates or replaces a CR; writing
\* the content it already has stands for a status or metadata update.
Apply(cr, obj) ==
  /\ Len(log) < MaxWrites
  /\ store' = [store EXCEPT ![cr] = obj]
  /\ log' = Append(log, [type |-> IF store[cr] = Absent THEN "ADDED" ELSE "MODIFIED",
                         cr |-> cr, obj |-> obj])
  /\ UNCHANGED <<up, faults, cacheVars>>

\* The DELETED event carries the object's last state.
Delete(cr) ==
  /\ Len(log) < MaxWrites
  /\ store[cr] # Absent
  /\ store' = [store EXCEPT ![cr] = Absent]
  /\ log' = Append(log, [type |-> "DELETED", cr |-> cr, obj |-> store[cr]])
  /\ UNCHANGED <<up, faults, cacheVars>>

Outage ==
  /\ up
  /\ faults < MaxFaults
  /\ up' = FALSE
  /\ faults' = faults + 1
  /\ UNCHANGED <<store, log, cacheVars>>

Recover ==
  /\ ~up
  /\ up' = TRUE
  /\ UNCHANGED <<store, log, faults, cacheVars>>

-----------------------------------------------------------------------------
(* The watch thread: _run, _initial_list, _watch_loop, _apply_event.       *)

\* Mutant of Synthetic: a CR that was edited during the outage is not reported.
SyntheticNoModified(old, new) ==
  { [type |-> "ADDED", cr |-> cr, ro |-> new[cr], old |-> Absent] :
       cr \in {c \in CRs : new[c] # Absent /\ old[c] = Absent} }
  \cup
  { [type |-> "DELETED", cr |-> cr, ro |-> old[cr], old |-> old[cr]] :
       cr \in {c \in CRs : new[c] = Absent /\ old[c] # Absent} }

\* The difference _initial_list turns into synthetic events.
Synthetic(old, new) ==
  { [type |-> IF old[cr] = Absent THEN "ADDED" ELSE "MODIFIED",
     cr |-> cr, ro |-> new[cr], old |-> old[cr]] :
       cr \in {c \in CRs : new[c] # Absent /\ new[c] # old[c]} }
  \cup
  { [type |-> "DELETED", cr |-> cr, ro |-> old[cr], old |-> old[cr]] :
       cr \in {c \in CRs : new[c] = Absent /\ old[c] # Absent} }

\* Mutant of InitialList: the bootstrap list is reported like a re-list.
InitialListReports ==
  LET listed == [cr \in CRs |-> Parse(store[cr])] IN
  /\ pc \in {"boot", "relist"}
  /\ up
  /\ rv' = Len(log)
  /\ pos' = Len(log)
  /\ index' = listed
  /\ ready' = TRUE
  /\ callbacks' = Synthetic(index, listed)
  /\ fails' = 0
  /\ pc' = "announce"
  /\ UNCHANGED <<apiVars, told>>

\* A successful _initial_list, from the bootstrap loop or after the watch
\* broke.  It tells a re-list from a bootstrap by _ready alone.
InitialList ==
  LET listed == [cr \in CRs |-> Parse(store[cr])] IN
  /\ pc \in {"boot", "relist"}
  /\ up
  /\ rv' = Len(log)
  /\ pos' = Len(log)
  /\ index' = listed
  /\ ready' = TRUE
  /\ callbacks' = IF ready THEN Synthetic(index, listed) ELSE {}
  /\ fails' = 0
  /\ pc' = "announce"
  /\ UNCHANGED <<apiVars, told>>

\* A failed re-list: degrade after K of them in a row, back off, and go back
\* to the watch with the resourceVersion it had.  (A failed bootstrap only
\* sleeps.)
RelistFails ==
  /\ pc = "relist"
  /\ ~up
  /\ fails' = IF fails < ReadyClearAfterK THEN fails + 1 ELSE fails
  /\ ready' = (ready /\ fails' < ReadyClearAfterK)
  /\ pc' = "watch"
  /\ pos' = rv
  /\ UNCHANGED <<apiVars, index, rv, callbacks, told>>

\* Mutant of DeliverParsed: only a list records a resourceVersion.
DeliverParsedKeepsRv ==
  /\ pc = "watch"
  /\ up
  /\ pos < Len(log)
  /\ LET e == log[pos + 1] IN
       /\ e.obj \in Overrides
       /\ index' = [index EXCEPT ![e.cr] = IF e.type = "DELETED" THEN Absent ELSE e.obj]
       /\ callbacks' = {[type |-> e.type, cr |-> e.cr, ro |-> e.obj, old |-> index[e.cr]]}
  /\ pos' = pos + 1
  /\ pc' = "fire"
  /\ UNCHANGED <<apiVars, ready, rv, fails, told>>

\* _apply_event on an object that parses: remember its resourceVersion,
\* update the index, and fire the callback outside the lock.
DeliverParsed ==
  /\ pc = "watch"
  /\ up
  /\ pos < Len(log)
  /\ LET e == log[pos + 1] IN
       /\ e.obj \in Overrides
       /\ index' = [index EXCEPT ![e.cr] = IF e.type = "DELETED" THEN Absent ELSE e.obj]
       /\ callbacks' = {[type |-> e.type, cr |-> e.cr, ro |-> e.obj, old |-> index[e.cr]]}
  /\ pos' = pos + 1
  /\ rv' = pos + 1
  /\ pc' = "fire"
  /\ UNCHANGED <<apiVars, ready, fails, told>>

\* Mutant of DeliverMalformed: an unusable version is skipped, and the last
\* usable one stays cached.
DeliverMalformedSkips ==
  /\ pc = "watch"
  /\ up
  /\ pos < Len(log)
  /\ log[pos + 1].obj = Malformed
  /\ pos' = pos + 1
  /\ UNCHANGED <<apiVars, index, ready, rv, pc, fails, callbacks, told>>

\* _apply_event on an object that does not parse: a cached version is dropped
\* as if deleted; the recorded resourceVersion does not move.
DeliverMalformed ==
  /\ pc = "watch"
  /\ up
  /\ pos < Len(log)
  /\ LET e == log[pos + 1]
         effectiveDelete == e.type # "ADDED" /\ index[e.cr] # Absent IN
       /\ e.obj = Malformed
       /\ \/ /\ effectiveDelete
             /\ index' = [index EXCEPT ![e.cr] = Absent]
             /\ callbacks' = {[type |-> "DELETED", cr |-> e.cr,
                               ro |-> index[e.cr], old |-> index[e.cr]]}
             /\ pc' = "fire"
          \/ /\ ~effectiveDelete
             /\ UNCHANGED <<index, callbacks, pc>>
  /\ pos' = pos + 1
  /\ UNCHANGED <<apiVars, ready, rv, fails, told>>

\* _fire_callback: the consumer handles one event on this thread.  The
\* synthetic DELETED events come after the other synthetic ones.
FireCallback(c) ==
  /\ pc \in {"fire", "announce"}
  /\ c \in callbacks
  /\ c.type = "DELETED" => \A d \in callbacks : d.type = "DELETED"
  /\ callbacks' = callbacks \ {c}
  /\ told' = [told EXCEPT ![c.cr] = IF c.type = "DELETED" THEN Absent ELSE c.ro]
  /\ pc' = IF pc = "fire" THEN "watch" ELSE pc
  /\ UNCHANGED <<apiVars, index, ready, rv, pos, fails>>

\* Mutant of Seed: the listing is not recorded.
SeedNothing ==
  /\ pc = "announce"
  /\ callbacks = {}
  /\ pc' = "watch"
  /\ UNCHANGED <<apiVars, index, ready, rv, pos, fails, callbacks, told>>

\* seed_callback: after the synthetic events the whole listing is recorded.
Seed ==
  /\ pc = "announce"
  /\ callbacks = {}
  /\ told' = [cr \in CRs |-> IF index[cr] # Absent THEN index[cr] ELSE told[cr]]
  /\ pc' = "watch"
  /\ UNCHANGED <<apiVars, index, ready, rv, pos, fails, callbacks>>

\* Mutant of WatchEnds: the next stream starts from now, not from the recorded
\* resourceVersion.
WatchEndsFromNow ==
  /\ pc = "watch"
  /\ up
  /\ pos' = Len(log)
  /\ rv' = Len(log)
  /\ fails' = 0
  /\ UNCHANGED <<apiVars, index, ready, pc, callbacks, told>>

\* The stream reaches its 300 s timeout: _watch_loop returns normally and is
\* called again with the recorded resourceVersion.
WatchEnds ==
  /\ pc = "watch"
  /\ up
  /\ pos' = rv
  /\ fails' = 0
  /\ UNCHANGED <<apiVars, index, ready, rv, pc, callbacks, told>>

\* The stream cannot be opened, breaks, or reports 410 Gone.
WatchRaises ==
  /\ pc = "watch"
  /\ pc' = "relist"
  /\ UNCHANGED <<apiVars, index, ready, rv, pos, fails, callbacks, told>>

\* The pod's process is replaced: everything in memory starts over.
Restart ==
  /\ faults < MaxFaults
  /\ faults' = faults + 1
  /\ index' = NothingCached
  /\ ready' = FALSE
  /\ rv' = 0
  /\ pos' = 0
  /\ pc' = "boot"
  /\ fails' = 0
  /\ callbacks' = {}
  /\ told' = NothingCached
  /\ UNCHANGED <<store, log, up>>

Deliver == DeliverParsed \/ DeliverMalformed
Fire    == \E c \in callbacks : FireCallback(c)

WatchThread ==
  InitialList \/ RelistFails \/ Deliver \/ Fire \/ Seed \/ WatchEnds \/ WatchRaises

Environment ==
  \/ \E cr \in CRs, obj \in Objects : Apply(cr, obj)
  \/ \E cr \in CRs : Delete(cr)
  \/ Outage
  \/ Recover
  \/ Restart

Next == WatchThread \/ Environment

\* The thread keeps running, an outage ends, and a stream that keeps being
\* opened does not end just before the same event for ever (it lives 300 s).
\* Nothing forces a stream to break.
Fairness ==
  /\ WF_vars(InitialList)
  /\ WF_vars(RelistFails)
  /\ \A n \in 1..MaxWrites : SF_vars(pos = n - 1 /\ Deliver)
  /\ WF_vars(Fire)
  /\ WF_vars(Seed)
  /\ WF_vars(Recover)

Spec     == Init /\ [][Next]_vars
FairSpec == Spec /\ Fairness

-----------------------------------------------------------------------------
(* What the cache promises.                                                *)

\* The writes to cr among the first n, and the parsed CR they leave behind.
WritesTo(cr, n) == {i \in 1..n : log[i].cr = cr}
Latest(S) == CHOOSE i \in S : \A j \in S : j <= i
Revision(cr, n) ==
  IF WritesTo(cr, n) = {} THEN Absent
  ELSE LET e == log[Latest(WritesTo(cr, n))]
       IN IF e.type = "DELETED" THEN Absent ELSE Parse(e.obj)
View(n) == [cr \in CRs |-> Revision(cr, n)]

\* Once a list has succeeded, the index admissions read is a consistent
\* snapshot: exactly the parsed store at one resourceVersion, no older than the
\* one the next watch resumes from - across re-lists, re-deliveries, CRs that
\* stop parsing and streams resumed from a resourceVersion that lags.
\* (webhook_cache.py _initial_list and _apply_event)
IndexIsSnapshot ==
  pc # "boot" => \E n \in rv..Len(log) : index = View(n)

\* Whenever the thread is back in the watch, the callback consumer (the rollout
\* trigger) has been told the current content of every cached CR.
\* (webhook_cache.py _fire_callback and seed_callback)
ConsumerInStep ==
  pc = "watch" => \A cr \in CRs : index[cr] # Absent => told[cr] = index[cr]

\* When writes and faults are over, the index becomes the store's parse and
\* stays so. (webhook_cache.py _run: every failure path leads back to a list or
\* a watch)
Converges == <>[](index = [cr \in CRs |-> Parse(store[cr])])

\* The least resourceVersion the index may be the snapshot of.
SeenUpTo ==
  LET S == {n \in rv..Len(log) : index = View(n)} IN
  IF S = {} THEN Len(log) ELSE CHOOSE n \in S : \A m \in S : n <= m

Reader == INSTANCE SnapshotReader WITH
  log  <- [i \in 1..Len(log) |->
            [cr |-> log[i].cr, obj |-> IF log[i].type = "DELETED" THEN Absent ELSE log[i].obj]],
  at   <- SeenUpTo,
  live <- pc # "boot"

\* To the handlers the cache is a reader of consistent snapshots that never goes
\* back in time while the process lives: not on a re-list, not when a stream
\* resumes from a resourceVersion that lags and delivers events again.
\* (webhook_cache.py _initial_list, _apply_event)
ImplementsReader == Reader!Spec

\* "On the first successful reconnect, `_initial_list` re-sets `_ready`"
\* (webhook_cache.py _run): a pod that lost readiness gets it back after the
\* apiserver does.
ReadyReturns == []<>ready
=============================================================================
