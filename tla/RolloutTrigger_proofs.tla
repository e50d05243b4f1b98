------------------------ MODULE RolloutTrigger_proofs ------------------------
(***************************************************************************)
(* Proofs about RolloutTrigger, for every set of CRs and workloads and     *)
(* every value of the limits.  IInv strengthens the three invariants the   *)
(* TLC runs check until it is inductive:                                   *)
(*   LoopEmpty    the list a tick works through is empty between ticks, so *)
(*                a new Pop starts from nothing;                           *)
(*   WorkIsLive   the CR handle_event is scheduling for is known;          *)
(*   OnlySurging  only a workload that surges has old pods beside all new  *)
(*                ones;                                                    *)
(*   Counted      with no lost reply, every rollout that lacks new pods    *)
(*                and is not excused occupies a slot.                      *)
(***************************************************************************)
EXTENDS RolloutTrigger, FiniteSetTheorems, TLAPS

LoopEmpty == tick \notin {"fire", "drain"} => Queued(firing) = {}

WorkIsLive == \A p \in scheduling : known[p[2]] # Unknown

OnlySurging == surged \subseteq Surging

Counted == ~LostReplies => rolling \ (surged \cup excused) \subseteq inFlight

IInv ==
  /\ TypeOK
  /\ LoopEmpty
  /\ WorkIsLive
  /\ OnlySurging
  /\ Counted
  /\ LimitNotOverspent
  /\ OnlyPoppedOutlive

-----------------------------------------------------------------------------
(* Operators the actions are built from.                                   *)

\* Cancelling a CR yields an entry or none.
LEMMA WithoutType ==
  ASSUME NEW entry \in Entry \cup {NoEntry}, NEW cr
  PROVE  /\ Without(entry, cr) \in Entry \cup {NoEntry}
         /\ Names(Without(entry, cr)) = Names(entry) \ {cr}
         /\ Without(entry, cr) # NoEntry => Without(entry, cr).attempt = entry.attempt
BY NoEntryAssumption DEF Without, Entry, Names

\* A failed PATCH that is not given up leaves an entry that has failed before.
LEMMA RequeuedType ==
  ASSUME NEW entry \in Entry, ~GivesUp(entry), NEW existing \in Entry \cup {NoEntry}
  PROVE  /\ Requeued(entry, existing) \in Entry
         /\ Requeued(entry, existing).attempt > 0
         /\ Names(Requeued(entry, existing)) = Names(entry) \cup Names(existing)
<1>1. entry.attempt + 1 \in 1..(PatchMaxAttempts - 1)
  BY RetryAssumption DEF GivesUp, Entry
<1>2. Backoff[entry.attempt + 1] \in Nat
  BY <1>1, RetryAssumption
<1>3. CASE existing = NoEntry
  BY <1>1, <1>2, <1>3, NoEntryAssumption, RetryAssumption DEF Requeued, Entry, Names
<1>4. CASE existing \in Entry
  BY <1>1, <1>2, <1>4, NoEntryAssumption, RetryAssumption DEF Requeued, Entry, Later, Names
<1>. QED
  BY <1>3, <1>4

\* Down stays within the range of the countdown it lowers.
LEMMA DownType ==
  ASSUME NEW n \in Nat
  PROVE  Down(n) \in 0..n
BY DEF Down

\* Every set of workloads is finite.
LEMMA WorkloadSets ==
  ASSUME NEW S \in SUBSET Workloads
  PROVE  IsFiniteSet(S) /\ Cardinality(S) \in Nat
BY WorkloadsAssumption, FS_Subset, FS_CardinalityType

-----------------------------------------------------------------------------
(* Type correctness.                                                       *)

LEMMA InitType == Init => TypeOK
<1>. SUFFICES ASSUME Init
              PROVE  TypeOK
  OBVIOUS
<1>1. /\ expires \in [Workloads -> 0..RolloutTimeout]
      /\ readErrors \in [Workloads -> 0..(ReadErrorsBeforeRelease - 1)]
      /\ cooldown \in 0..MinInterval
      /\ events \in 0..MaxEvents
  BY TimingAssumption, RetryAssumption DEF Init
<1>. QED
  BY <1>1 DEF Init, TypeOK

LEMMA WatchThreadType ==
  ASSUME TypeOK,
         \/ \E listed \in [CRs -> Resources \cup {Unknown}] : Seed(listed)
         \/ \E cr \in CRs : HandleDeleted(cr)
         \/ \E cr \in CRs, ro \in Overrides, old \in Contents :
              HandleUnchanged(cr, ro, old) \/ HandleChange(cr, ro, old) \/ HandleListFails(cr, ro, old)
         \/ Scheduling
  PROVE  TypeOK'
<1>. USE DEF TypeOK, eventVars, tickVars, limitVars, clusterVars, Idle, Receives
<1>1. ASSUME NEW listed \in [CRs -> Resources \cup {Unknown}], Seed(listed)
      PROVE  TypeOK'
  <2>1. known' \in [CRs -> Resources \cup {Unknown}]
    BY <1>1, OverridesAssumption DEF Seed, Contents
  <2>. QED
    BY <1>1, <2>1 DEF Seed
<1>2. ASSUME NEW cr \in CRs, HandleDeleted(cr)
      PROVE  TypeOK'
  <2>1. pending' \in [Workloads -> Entry \cup {NoEntry}]
    BY <1>2, WithoutType DEF HandleDeleted
  <2>2. missed' \in SUBSET (Workloads \X CRs)
    BY <1>2 DEF HandleDeleted, Misses
  <2>. QED
    BY <1>2, <2>1, <2>2, RetryAssumption DEF HandleDeleted
<1>3. ASSUME NEW cr \in CRs, NEW ro \in Overrides, NEW old \in Contents,
             HandleUnchanged(cr, ro, old) \/ HandleChange(cr, ro, old) \/ HandleListFails(cr, ro, old)
      PROVE  TypeOK'
  <2>1. ro.res \in Resources /\ ro.sel \subseteq Workloads
    BY OverridesAssumption
  <2>2. CASE HandleUnchanged(cr, ro, old)
    BY <2>1, <2>2, RetryAssumption DEF HandleUnchanged
  <2>3. CASE HandleChange(cr, ro, old)
    BY <2>1, <2>3, RetryAssumption DEF HandleChange
  <2>4. CASE HandleListFails(cr, ro, old)
    BY <2>1, <2>4, RetryAssumption DEF HandleListFails
  <2>. QED
    BY <1>3, <2>2, <2>3, <2>4
<1>4. ASSUME NEW w \in Workloads, NEW cr \in CRs, Schedule(w, cr)
      PROVE  TypeOK'
  <2>1. pending[w] \in Entry \cup {NoEntry}
    OBVIOUS
  <2>2. pending' \in [Workloads -> Entry \cup {NoEntry}]
    <3>1. CASE pending[w] = NoEntry
      BY <1>4, <3>1, TimingAssumption, RetryAssumption DEF Schedule, Entry
    <3>2. CASE pending[w] \in Entry
      BY <1>4, <3>2, NoEntryAssumption, TimingAssumption DEF Schedule, Entry
    <3>. QED
      BY <2>1, <3>1, <3>2
  <2>. QED
    BY <1>4, <2>2 DEF Schedule
<1>. QED
  BY <1>1, <1>2, <1>3, <1>4 DEF Scheduling

LEMMA RefreshType ==
  ASSUME TypeOK, NEW w \in Workloads, Refresh(w)
  PROVE  TypeOK'
<1>. USE DEF TypeOK, eventVars, tickVars, limitVars, clusterVars, Check, Release
<1>1. CASE RolloutTimedOut(w)
  BY <1>1, TimingAssumption, RetryAssumption DEF RolloutTimedOut
<1>2. CASE RolloutComplete(w)
  BY <1>2, TimingAssumption, RetryAssumption DEF RolloutComplete
<1>3. CASE RolloutGone(w)
  BY <1>3, TimingAssumption, RetryAssumption DEF RolloutGone, RolloutEnds
<1>4. CASE RolloutRunning(w)
  BY <1>4, TimingAssumption, RetryAssumption DEF RolloutRunning
<1>5. CASE RolloutUnreadable(w)
  <2>1. CASE readErrors[w] + 1 < ReadErrorsBeforeRelease
    <3>1. readErrors[w] + 1 \in 0..(ReadErrorsBeforeRelease - 1)
      BY <2>1, RetryAssumption
    <3>. QED
      BY <1>5, <2>1, <3>1 DEF RolloutUnreadable
  <2>2. CASE ~(readErrors[w] + 1 < ReadErrorsBeforeRelease)
    <3>1. /\ 0 \in 0..(ReadErrorsBeforeRelease - 1)
          /\ 0 \in 0..RolloutTimeout
      BY TimingAssumption, RetryAssumption
    <3>. QED
      BY <1>5, <2>2, <3>1 DEF RolloutUnreadable
  <2>. QED
    BY <2>1, <2>2
<1>. QED
  BY <1>1, <1>2, <1>3, <1>4, <1>5 DEF Refresh

LEMMA FireType ==
  ASSUME TypeOK, NEW w \in Workloads, Fire(w)
  PROVE  TypeOK'
<1>. USE DEF TypeOK, eventVars, tickVars, limitVars, clusterVars, Attempt
<1>1. CASE PatchSucceeds(w)
  BY <1>1, TimingAssumption DEF PatchSucceeds, RolloutStarts
<1>2. CASE PatchGone(w)
  BY <1>2 DEF PatchGone, RolloutEnds
<1>3. CASE PatchFails(w)
  <2>1. firing[w] \in Entry
    BY <1>3 DEF PatchFails
  <2>2. pending' \in [Workloads -> Entry \cup {NoEntry}]
    BY <1>3, <2>1, RequeuedType DEF PatchFails
  <2>. QED
    BY <1>3, <2>2 DEF PatchFails, RolloutStarts
<1>. QED
  BY <1>1, <1>2, <1>3 DEF Fire

LEMMA TakeType ==
  ASSUME TypeOK, NEW ready, Take(ready)
  PROVE  /\ pending' \in [Workloads -> Entry \cup {NoEntry}]
         /\ firing' \in [Workloads -> Entry \cup {NoEntry}]
BY DEF TypeOK, Take

LEMMA ClockType ==
  ASSUME TypeOK, Clock
  PROVE  TypeOK'
<1>. USE DEF TypeOK, eventVars, tickVars, limitVars, clusterVars
<1>1. pending' \in [Workloads -> Entry \cup {NoEntry}]
  BY DownType, NoEntryAssumption DEF Clock, Entry
<1>2. expires' \in [Workloads -> 0..RolloutTimeout]
  BY TimingAssumption DEF Clock, Down
<1>3. cooldown' \in 0..MinInterval
  BY TimingAssumption DEF Clock, Down
<1>. QED
  BY <1>1, <1>2, <1>3 DEF Clock

LEMMA NextType == TypeOK /\ [Next]_vars => TypeOK'
<1>. SUFFICES ASSUME TypeOK, [Next]_vars
              PROVE  TypeOK'
  OBVIOUS
<1>. USE DEF eventVars, tickVars, limitVars, clusterVars
<1>1. CASE TickStart
  BY <1>1 DEF TickStart, TypeOK
<1>2. CASE Pop
  BY <1>2, TakeType DEF Pop, TypeOK
<1>3. CASE Drain
  BY <1>3, TakeType DEF Drain, TypeOK
<1>4. ASSUME NEW w \in Workloads, NewPodsUp(w) \/ RolloutFinishes(w)
      PROVE  TypeOK'
  BY <1>4 DEF NewPodsUp, RolloutFinishes, RolloutEnds, TypeOK
<1>5. CASE Stop
  BY <1>5 DEF Stop, TypeOK
<1>6. CASE UNCHANGED vars
  BY <1>6 DEF vars, TypeOK
<1>. QED
  BY <1>1, <1>2, <1>3, <1>4, <1>5, <1>6, WatchThreadType, RefreshType, FireType, ClockType
  DEF Next, TickThread

\* Every reachable state has the declared types: in particular an entry never
\* carries more failed attempts than _restart_workload allows, and a read-error
\* count never reaches the value at which the slot is released.
THEOREM TypeCorrect == Spec => []TypeOK
BY InitType, NextType, PTL DEF Spec

-----------------------------------------------------------------------------
(* The inductive invariant, one lemma per conjunct.                        *)

LEMMA LoopEmptyStep ==
  ASSUME TypeOK, LoopEmpty, [Next]_vars
  PROVE  LoopEmpty'
<1>. USE DEF LoopEmpty, Queued, eventVars, tickVars, limitVars, clusterVars
<1>1. CASE UNCHANGED <<tick, firing>>
  BY <1>1
<1>2. CASE TickStart
  BY <1>2 DEF TickStart
<1>3. CASE Pop
  BY <1>3 DEF Pop, Take
<1>4. CASE Drain
  BY <1>4 DEF Drain, Take
<1>5. ASSUME NEW w \in Workloads, Fire(w)
      PROVE  LoopEmpty'
  <2>1. Attempt(w)
    BY <1>5 DEF Fire, PatchSucceeds, PatchGone, PatchFails
  <2>. QED
    BY <2>1 DEF Attempt, TypeOK
<1>6. CASE \E w \in Workloads : Refresh(w)
  BY <1>1, <1>6 DEF Refresh, RolloutTimedOut, RolloutComplete, RolloutGone, RolloutRunning,
                    RolloutUnreadable, Check
<1>7. CASE Scheduling
  BY <1>1, <1>7 DEF Scheduling, Schedule
<1>. QED
  BY <1>1, <1>2, <1>3, <1>4, <1>5, <1>6, <1>7
  DEF Next, TickThread, Seed, HandleDeleted, HandleUnchanged, HandleChange, HandleListFails,
      NewPodsUp, RolloutFinishes, Clock, Stop, vars

LEMMA WorkIsLiveStep ==
  ASSUME TypeOK, WorkIsLive, [Next]_vars
  PROVE  WorkIsLive'
<1>. USE DEF WorkIsLive, TypeOK, eventVars
<1>1. CASE UNCHANGED <<known, scheduling>>
  BY <1>1
<1>2. ASSUME NEW cr \in CRs, NEW ro \in Overrides, NEW old \in Contents,
             HandleChange(cr, ro, old)
      PROVE  WorkIsLive'
  <2>1. ro.res # Unknown
    BY OverridesAssumption
  <2>2. \A p \in scheduling' : p[2] = cr
    BY <1>2 DEF HandleChange
  <2>. QED
    BY <1>2, <2>1, <2>2 DEF HandleChange
<1>3. CASE Scheduling
  BY <1>3 DEF Scheduling, Schedule
<1>4. ASSUME scheduling = {}, UNCHANGED scheduling
      PROVE  WorkIsLive'
  BY <1>4
<1>. QED
  BY <1>1, <1>2, <1>3, <1>4
  DEF Next, TickThread, Refresh, Fire, Seed, HandleDeleted, HandleUnchanged, HandleListFails,
      Receives, Idle, TickStart, RolloutTimedOut, RolloutComplete, RolloutGone, RolloutRunning,
      RolloutUnreadable, Check, Pop, Drain, PatchSucceeds, PatchGone, PatchFails, Attempt,
      NewPodsUp, RolloutFinishes, Clock, Stop, vars

LEMMA OnlySurgingStep ==
  ASSUME TypeOK, OnlySurging, [Next]_vars
  PROVE  OnlySurging'
<1>. USE DEF OnlySurging, TypeOK, eventVars, tickVars, limitVars, clusterVars
<1>1. CASE UNCHANGED surged
  BY <1>1
<1>2. ASSUME NEW w \in Workloads, Refresh(w) \/ Fire(w) \/ NewPodsUp(w) \/ RolloutFinishes(w)
      PROVE  OnlySurging'
  BY <1>2 DEF Refresh, RolloutTimedOut, RolloutComplete, RolloutGone, RolloutRunning,
              RolloutUnreadable, Fire, PatchSucceeds, PatchGone, PatchFails, NewPodsUp,
              RolloutFinishes, RolloutStarts, RolloutEnds
<1>. QED
  BY <1>1, <1>2
  DEF Next, TickThread, Seed, HandleDeleted, HandleUnchanged, HandleChange, HandleListFails,
      Scheduling, Schedule, TickStart, Pop, Drain, Clock, Stop, vars

LEMMA CountedStep ==
  ASSUME TypeOK, Counted, [Next]_vars
  PROVE  Counted'
<1>. USE DEF Counted, TypeOK, limitVars, clusterVars
<1>1. CASE UNCHANGED <<rolling, surged, excused, inFlight>>
  BY <1>1
<1>2. ASSUME NEW w \in Workloads, Refresh(w)
      PROVE  Counted'
  BY <1>2 DEF Refresh, RolloutTimedOut, RolloutComplete, RolloutGone, RolloutRunning,
              RolloutUnreadable, Release, RolloutEnds
<1>3. ASSUME NEW w \in Workloads, Fire(w)
      PROVE  Counted'
  BY <1>3 DEF Fire, PatchSucceeds, PatchGone, PatchFails, RolloutStarts, RolloutEnds
<1>4. ASSUME NEW w \in Workloads, NewPodsUp(w) \/ RolloutFinishes(w)
      PROVE  Counted'
  BY <1>4 DEF NewPodsUp, RolloutFinishes, RolloutEnds
<1>. QED
  BY <1>1, <1>2, <1>3, <1>4
  DEF Next, TickThread, Seed, HandleDeleted, HandleUnchanged, HandleChange, HandleListFails,
      Scheduling, Schedule, TickStart, Pop, Drain, Clock, Stop, vars

\* Occupied is what LimitNotOverspent bounds.
Occupied == inFlight \cup Queued(firing)

\* Every step but Pop and Drain leaves the occupied slots as they are or frees
\* some, and does not leave the drain.
LEMMA OnlyPopSpends ==
  ASSUME TypeOK, [Next]_vars, ~Pop, ~Drain
  PROVE  /\ Occupied' \subseteq Occupied
         /\ Limited' => Limited
<1>. USE DEF Occupied, Limited, Queued, TypeOK, eventVars, tickVars, limitVars, clusterVars
<1>1. CASE UNCHANGED <<tick, firing, inFlight>>
  BY <1>1
<1>2. CASE TickStart
  BY <1>2 DEF TickStart
<1>3. ASSUME NEW w \in Workloads, Refresh(w)
      PROVE  Occupied' \subseteq Occupied /\ (Limited' => Limited)
  BY <1>3 DEF Refresh, RolloutTimedOut, RolloutComplete, RolloutGone, RolloutRunning,
              RolloutUnreadable, Check, Release
<1>4. ASSUME NEW w \in Workloads, Fire(w)
      PROVE  Occupied' \subseteq Occupied /\ (Limited' => Limited)
  <2>1. Attempt(w)
    BY <1>4 DEF Fire, PatchSucceeds, PatchGone, PatchFails
  <2>2. inFlight' \subseteq inFlight \cup {w}
    BY <1>4 DEF Fire, PatchSucceeds, PatchGone, PatchFails
  <2>. QED
    BY <2>1, <2>2 DEF Attempt
<1>5. CASE Scheduling
  BY <1>1, <1>5 DEF Scheduling, Schedule
<1>. QED
  BY <1>1, <1>2, <1>3, <1>4, <1>5
  DEF Next, TickThread, Seed, HandleDeleted, HandleUnchanged, HandleChange, HandleListFails,
      NewPodsUp, RolloutFinishes, Clock, Stop, vars

LEMMA LimitStep ==
  ASSUME TypeOK, LoopEmpty, LimitNotOverspent, [Next]_vars
  PROVE  LimitNotOverspent'
<1>1. CASE ~Pop /\ ~Drain
  <2>1. Occupied \in SUBSET Workloads /\ Occupied' \in SUBSET Workloads
    BY NextType DEF Occupied, Queued, TypeOK
  <2>2. Occupied' \subseteq Occupied /\ (Limited' => Limited)
    BY <1>1, OnlyPopSpends
  <2>3. Cardinality(Occupied') <= Cardinality(Occupied)
    BY <2>1, <2>2, WorkloadSets, FS_Subset
  <2>4. Cardinality(Occupied) \in Nat /\ Cardinality(Occupied') \in Nat
    BY <2>1, WorkloadSets
  <2>. QED
    BY <2>2, <2>3, <2>4, TimingAssumption DEF LimitNotOverspent, Occupied, Limited
<1>2. CASE Drain
  BY <1>2 DEF Drain, LimitNotOverspent, Limited
<1>3. CASE Pop
  <2>1. PICK ready \in SUBSET Due :
          Cardinality(ready) = Lesser(Budget, Cardinality(Due)) /\ Take(ready)
    BY <1>3 DEF Pop
  <2>2. ready \in SUBSET Workloads /\ inFlight \in SUBSET Workloads /\ Due \in SUBSET Workloads
    BY DEF Due, Queued, TypeOK
  <2>3. /\ IsFiniteSet(ready) /\ Cardinality(ready) \in Nat
        /\ IsFiniteSet(inFlight) /\ Cardinality(inFlight) \in Nat
        /\ Cardinality(Due) \in Nat /\ Cardinality(Workloads) \in Nat
    BY <2>2, WorkloadSets
  <2>4. Queued(firing)' \subseteq ready /\ inFlight' = inFlight
    BY <1>3, <2>1 DEF Pop, Take, Queued, limitVars
  <2>5. ASSUME MaxConcurrent > 0, Cardinality(inFlight) <= MaxConcurrent
        PROVE  Cardinality(inFlight) + Cardinality(ready) <= MaxConcurrent
    BY <2>1, <2>3, <2>5, TimingAssumption DEF Budget, Lesser
  <2>6. ASSUME MaxConcurrent > 0
        PROVE  Cardinality(inFlight) <= MaxConcurrent
    <3>1. tick = "refresh"
      BY <1>3 DEF Pop
    <3>2. Queued(firing) = {}
      BY <3>1 DEF LoopEmpty
    <3>3. Limited
      BY <2>6, <3>1 DEF Limited
    <3>4. inFlight \cup Queued(firing) = inFlight
      BY <3>2
    <3>. QED
      BY <3>3, <3>4 DEF LimitNotOverspent
  <2>7. /\ IsFiniteSet(inFlight \cup ready)
        /\ Cardinality(inFlight \cup ready) <= Cardinality(inFlight) + Cardinality(ready)
    <3>1. /\ IsFiniteSet(inFlight \cup ready)
          /\ Cardinality(inFlight \cup ready)
               = Cardinality(inFlight) + Cardinality(ready) - Cardinality(inFlight \cap ready)
      BY <2>3, FS_Union
    <3>2. Cardinality(inFlight \cap ready) \in Nat
      BY <2>2, WorkloadSets
    <3>. QED
      BY <3>1, <3>2, <2>3
  <2>8. (inFlight \cup Queued(firing))' \in SUBSET (inFlight \cup ready)
    BY <2>4
  <2>9. /\ Cardinality((inFlight \cup Queued(firing))') <= Cardinality(inFlight \cup ready)
        /\ Cardinality((inFlight \cup Queued(firing))') \in Nat
        /\ Cardinality(inFlight \cup ready) \in Nat
    BY <2>7, <2>8, FS_Subset, FS_CardinalityType
  <2>10. SUFFICES ASSUME MaxConcurrent > 0
                  PROVE  Cardinality((inFlight \cup Queued(firing))') <= MaxConcurrent
    BY DEF LimitNotOverspent, Limited
  <2>. QED
    BY <2>3, <2>5, <2>6, <2>7, <2>9, <2>10, TimingAssumption
<1>. QED
  BY <1>1, <1>2, <1>3

LEMMA OutliveStep ==
  ASSUME TypeOK, WorkIsLive, OnlyPoppedOutlive, [Next]_vars
  PROVE  OnlyPoppedOutlive'
<1>. USE DEF OnlyPoppedOutlive, TypeOK, eventVars, tickVars, limitVars, clusterVars
<1>1. CASE UNCHANGED <<known, pending, firing, missed>>
  BY <1>1
<1>2. ASSUME UNCHANGED <<pending, firing, missed>>,
             \A cr \in CRs : known[cr] # Unknown => known'[cr] # Unknown
      PROVE  OnlyPoppedOutlive'
  BY <1>2
<1>3. ASSUME NEW cr \in CRs, NEW ro \in Overrides, NEW old \in Contents,
             HandleUnchanged(cr, ro, old) \/ HandleChange(cr, ro, old) \/ HandleListFails(cr, ro, old)
      PROVE  OnlyPoppedOutlive'
  <2>1. ro.res # Unknown
    BY OverridesAssumption
  <2>2. UNCHANGED <<pending, firing, missed>> /\ known' = [known EXCEPT ![cr] = ro.res]
    BY <1>3 DEF HandleUnchanged, HandleChange, HandleListFails
  <2>. QED
    BY <1>2, <2>1, <2>2
<1>4. ASSUME NEW listed \in [CRs -> Resources \cup {Unknown}], Seed(listed)
      PROVE  OnlyPoppedOutlive'
  BY <1>2, <1>4 DEF Seed
<1>5. ASSUME NEW cr \in CRs, HandleDeleted(cr)
      PROVE  OnlyPoppedOutlive'
  <2>. SUFFICES ASSUME NEW w \in Workloads, NEW d \in CRs, known'[d] = Unknown
                PROVE  /\ d \in Names(firing'[w]) => <<w, d>> \in missed'
                       /\ d \in Names(pending'[w]) => <<w, d>> \in missed' /\ pending'[w].attempt > 0
    OBVIOUS
  <2>1. /\ pending'[w] = Without(pending[w], cr)
        /\ firing' = firing
        /\ known' = [known EXCEPT ![cr] = Unknown]
        /\ Misses(cr)
    BY <1>5 DEF HandleDeleted
  <2>2. /\ Names(pending'[w]) = Names(pending[w]) \ {cr}
        /\ pending'[w] # NoEntry => pending'[w].attempt = pending[w].attempt
    BY <2>1, WithoutType
  <2>3. CASE d = cr
    BY <2>1, <2>2, <2>3 DEF Misses
  <2>4. CASE d # cr
    <3>1. known[d] = Unknown
      BY <2>1, <2>4
    <3>2. <<w, d>> \in missed => <<w, d>> \in missed'
      BY <2>1, <2>4 DEF Misses
    <3>3. d \in Names(pending'[w]) => pending'[w] # NoEntry
      BY DEF Names
    <3>. QED
      BY <2>1, <2>2, <3>1, <3>2, <3>3
  <2>. QED
    BY <2>3, <2>4
<1>6. ASSUME NEW w \in Workloads, NEW cr \in CRs, Schedule(w, cr)
      PROVE  OnlyPoppedOutlive'
  <2>1. known[cr] # Unknown
    BY <1>6 DEF WorkIsLive, Schedule
  <2>2. UNCHANGED <<known, firing, missed>>
    BY <1>6 DEF Schedule
  <2>3. \A v \in Workloads \ {w} : pending'[v] = pending[v]
    BY <1>6 DEF Schedule
  <2>4. /\ Names(pending'[w]) = Names(pending[w]) \cup {cr}
        /\ pending[w] # NoEntry => pending'[w].attempt = pending[w].attempt
    <3>1. CASE pending[w] = NoEntry
      <4>1. pending'[w] = [wait |-> Debounce, crs |-> {cr}, attempt |-> 0]
        BY <1>6, <3>1 DEF Schedule
      <4>2. pending'[w] # NoEntry
        BY <4>1, NoEntryAssumption, TimingAssumption, RetryAssumption DEF Entry
      <4>. QED
        BY <3>1, <4>1, <4>2 DEF Names
    <3>2. CASE pending[w] # NoEntry
      <4>1. pending'[w] = [wait |-> Debounce, crs |-> pending[w].crs \cup {cr},
                           attempt |-> pending[w].attempt]
        BY <1>6, <3>2 DEF Schedule
      <4>2. pending'[w] # NoEntry
        BY <3>2, <4>1, NoEntryAssumption, TimingAssumption DEF Entry
      <4>. QED
        BY <3>2, <4>1, <4>2 DEF Names
    <3>. QED
      BY <3>1, <3>2
  <2>5. \A d \in CRs : d \in Names(pending[w]) => pending[w] # NoEntry
    BY DEF Names
  <2>. QED
    BY <2>1, <2>2, <2>3, <2>4, <2>5
<1>7. ASSUME NEW ready, Take(ready), UNCHANGED <<known, missed>>
      PROVE  OnlyPoppedOutlive'
  BY <1>7 DEF Take, Names
<1>8. ASSUME NEW w \in Workloads, Attempt(w), UNCHANGED <<known, missed, pending>>
      PROVE  OnlyPoppedOutlive'
  BY <1>8 DEF Attempt, Names
<1>9. ASSUME NEW w \in Workloads, PatchFails(w)
      PROVE  OnlyPoppedOutlive'
  <2>1. Attempt(w) /\ firing[w] \in Entry /\ UNCHANGED <<known, missed>>
    BY <1>9 DEF PatchFails, Attempt
  <2>2. CASE GivesUp(firing[w])
    BY <1>8, <1>9, <2>1, <2>2 DEF PatchFails
  <2>3. CASE ~GivesUp(firing[w])
    <3>1. pending' = [pending EXCEPT ![w] = Requeued(firing[w], pending[w])]
      BY <1>9, <2>3 DEF PatchFails
    <3>2. /\ pending'[w].attempt > 0
          /\ Names(pending'[w]) = Names(firing[w]) \cup Names(pending[w])
      BY <2>1, <2>3, <3>1, RequeuedType
    <3>3. firing' = [firing EXCEPT ![w] = NoEntry]
      BY <2>1 DEF Attempt
    <3>4. \A v \in Workloads : Names(firing'[v]) \subseteq Names(firing[v])
      BY <3>3 DEF Names
    <3>. QED
      BY <2>1, <3>1, <3>2, <3>4
  <2>. QED
    BY <2>2, <2>3
<1>10. CASE Clock
  <2>1. \A w \in Workloads :
          /\ Names(pending'[w]) = Names(pending[w])
          /\ pending'[w] # NoEntry => pending'[w].attempt = pending[w].attempt
    BY <1>10, NoEntryAssumption, DownType DEF Clock, Entry, Names
  <2>2. \A w \in Workloads, cr \in CRs : cr \in Names(pending'[w]) => pending'[w] # NoEntry
    BY DEF Names
  <2>. QED
    BY <1>10, <2>1, <2>2 DEF Clock
<1>11. ASSUME NEW w \in Workloads, PatchSucceeds(w) \/ PatchGone(w)
       PROVE  OnlyPoppedOutlive'
  BY <1>8, <1>11 DEF PatchSucceeds, PatchGone, Attempt
<1>12. CASE Pop \/ Drain
  BY <1>7, <1>12 DEF Pop, Drain
<1>. QED
  BY <1>1, <1>3, <1>4, <1>5, <1>6, <1>9, <1>10, <1>11, <1>12
  DEF Next, TickThread, Scheduling, Refresh, Fire, TickStart, RolloutTimedOut, RolloutComplete,
      RolloutGone, RolloutRunning, RolloutUnreadable, Check, NewPodsUp, RolloutFinishes, Stop, vars

LEMMA InitInv == Init => IInv
<1>. SUFFICES ASSUME Init
              PROVE  IInv
  OBVIOUS
<1>1. Queued(pending) = {} /\ Queued(firing) = {}
  BY DEF Init, Queued
<1>2. Cardinality(inFlight \cup Queued(firing)) = 0
  BY <1>1, FS_EmptySet DEF Init
<1>. QED
  BY <1>1, <1>2, InitType, TimingAssumption
  DEF Init, IInv, LoopEmpty, WorkIsLive, OnlySurging, Counted, LimitNotOverspent, Limited,
      OnlyPoppedOutlive, Names

LEMMA NextInv == IInv /\ [Next]_vars => IInv'
BY NextType, LoopEmptyStep, WorkIsLiveStep, OnlySurgingStep, CountedStep, LimitStep, OutliveStep
DEF IInv

\* The inductive invariant holds in every reachable state.
THEOREM Invariance == Spec => []IInv
BY InitInv, NextInv, PTL DEF Spec

-----------------------------------------------------------------------------
(* The results.                                                            *)

\* What the trigger counts against max_concurrent, together with the restarts a
\* tick has already claimed, never exceeds it outside the shutdown drain - for
\* any number of workloads and any limit.
THEOREM LimitHolds == Spec => []LimitNotOverspent
BY Invariance, PTL DEF IInv

\* An entry, queued or popped, names a deleted CR only if the tick thread held the
\* entry when the CR was deleted; queued again, it is there because its PATCH failed.
THEOREM OnlyPoppedEntriesOutlive == Spec => []OnlyPoppedOutlive
BY Invariance, PTL DEF IInv

LEMMA SlotsCoverUpdates ==
  ASSUME IInv, ~LostReplies
  PROVE  UpdatesBounded
<1>. SUFFICES ASSUME Limited
              PROVE  Cardinality(rolling \ (surged \cup excused)) <= MaxConcurrent
  BY DEF UpdatesBounded
<1>. DEFINE lacking == rolling \ (surged \cup excused)
<1>1. lacking \in SUBSET Occupied /\ Occupied \in SUBSET Workloads
  BY DEF IInv, Counted, Occupied, Queued, TypeOK
<1>2. /\ Cardinality(lacking) \in Nat
      /\ Cardinality(Occupied) \in Nat
      /\ Cardinality(lacking) <= Cardinality(Occupied)
  BY <1>1, WorkloadSets, FS_Subset, FS_CardinalityType
<1>3. Cardinality(Occupied) <= MaxConcurrent
  BY DEF IInv, LimitNotOverspent, Occupied
<1>. QED
  BY <1>2, <1>3, TimingAssumption

\* If no PATCH is applied whose reply is lost, the rollouts that lack new pods stay
\* within max_concurrent, except for what the documentation excuses - whichever
\* workloads surge.
THEOREM UpdatesStayBounded ==
  ASSUME ~LostReplies
  PROVE  Spec => []UpdatesBounded
<1>1. IInv => UpdatesBounded
  BY SlotsCoverUpdates
<1>. QED
  BY <1>1, Invariance, PTL

\* What max_concurrent promises - a bound on everything that rolls - holds where
\* no workload surges and no reply is lost; MCRolloutTrigger_surge.cfg
\* and MCRolloutTrigger_lostreply.cfg show that neither hypothesis can go.
THEOREM RolloutsStayBounded ==
  ASSUME ~LostReplies, Surging = {}
  PROVE  Spec => []RolloutsBounded
<1>1. IInv => RolloutsBounded
  <2>. SUFFICES ASSUME IInv
                PROVE  RolloutsBounded
    OBVIOUS
  <2>1. surged = {}
    BY DEF IInv, OnlySurging
  <2>2. rolling \ (surged \cup excused) = rolling \ excused
    BY <2>1
  <2>. QED
    BY <2>2, SlotsCoverUpdates DEF UpdatesBounded, RolloutsBounded
<1>. QED
  BY <1>1, Invariance, PTL

-----------------------------------------------------------------------------
(* Spacing.  Between the start of a tick and its last PATCH the interval   *)
(* has passed, because a tick with a minimum interval pops one entry.      *)

Alone == MinInterval > 0 /\ tick = "fire" => \E w \in Workloads : Queued(firing) \subseteq {w}

Spaced == tick \in {"refresh", "fire"} => cooldown = 0

LEMMA AloneStep ==
  ASSUME TypeOK, LoopEmpty, Alone, [Next]_vars
  PROVE  Alone'
<1>. USE DEF Queued, TypeOK, eventVars, tickVars, limitVars, clusterVars
<1>1. CASE UNCHANGED <<tick, firing>>
  BY <1>1 DEF Alone
<1>2. CASE Pop
  <2>. SUFFICES ASSUME MinInterval > 0, tick' = "fire"
                PROVE  \E w \in Workloads : Queued(firing)' \subseteq {w}
    BY DEF Alone
  <2>1. PICK ready \in SUBSET Due :
          /\ Cardinality(ready) = Lesser(Budget, Cardinality(Due))
          /\ Take(ready)
          /\ tick' = IF ready = {} THEN "sleep" ELSE "fire"
    BY <1>2 DEF Pop
  <2>2. ready \in SUBSET Workloads /\ Due \in SUBSET Workloads /\ inFlight \in SUBSET Workloads
    BY DEF Due
  <2>3. /\ IsFiniteSet(ready) /\ Cardinality(ready) \in Nat
        /\ Cardinality(Due) \in Nat /\ Cardinality(inFlight) \in Nat
        /\ Cardinality(Workloads) \in Nat
    BY <2>2, WorkloadSets
  <2>4. Cardinality(ready) <= 1
    BY <2>1, <2>3, TimingAssumption DEF Budget, Lesser
  <2>5. ready # {}
    BY <2>1
  <2>6. Cardinality(ready) = 1
    BY <2>3, <2>4, <2>5, FS_EmptySet
  <2>7. PICK w : ready = {w}
    BY <2>3, <2>6, FS_Singleton
  <2>8. w \in Workloads /\ Queued(firing)' \subseteq {w}
    BY <2>1, <2>2, <2>7 DEF Take
  <2>. QED
    BY <2>8
<1>3. ASSUME NEW w \in Workloads, Fire(w)
      PROVE  Alone'
  <2>1. Attempt(w)
    BY <1>3 DEF Fire, PatchSucceeds, PatchGone, PatchFails
  <2>. QED
    BY <2>1 DEF Attempt, Alone
<1>4. ASSUME NEW w \in Workloads, Refresh(w)
      PROVE  Alone'
  BY <1>1, <1>4 DEF Refresh, RolloutTimedOut, RolloutComplete, RolloutGone, RolloutRunning,
                    RolloutUnreadable, Check
<1>5. CASE Scheduling
  BY <1>1, <1>5 DEF Scheduling, Schedule
<1>6. CASE TickStart
  BY <1>6 DEF TickStart, Alone
<1>7. CASE Drain
  BY <1>7 DEF Drain, Alone
<1>. QED
  BY <1>1, <1>2, <1>3, <1>4, <1>5, <1>6, <1>7
  DEF Next, TickThread, Seed, HandleDeleted, HandleUnchanged, HandleChange, HandleListFails,
      NewPodsUp, RolloutFinishes, Clock, Stop, vars

LEMMA SpacedStep ==
  ASSUME TypeOK, Alone, Spaced, [Next]_vars
  PROVE  Spaced'
<1>. USE DEF Spaced, TypeOK, eventVars, tickVars, limitVars, clusterVars
<1>1. CASE UNCHANGED <<tick, cooldown>>
  BY <1>1
<1>2. CASE TickStart
  BY <1>2 DEF TickStart
<1>3. ASSUME NEW w \in Workloads, Refresh(w)
      PROVE  Spaced'
  BY <1>3 DEF Refresh, RolloutTimedOut, RolloutComplete, RolloutGone, RolloutRunning,
              RolloutUnreadable, Check, Release
<1>4. ASSUME NEW w \in Workloads, PatchSucceeds(w)
      PROVE  Spaced'
  <2>1. CASE MinInterval = 0
    BY <1>4, <2>1 DEF PatchSucceeds
  <2>2. CASE MinInterval > 0
    <3>1. tick = "fire" => Queued(firing) = {w}
      BY <1>4, <2>2 DEF PatchSucceeds, Attempt, Alone, Queued
    <3>. QED
      BY <1>4, <3>1 DEF PatchSucceeds, Attempt
  <2>. QED
    BY <2>1, <2>2, TimingAssumption
<1>5. ASSUME NEW w \in Workloads, PatchGone(w) \/ PatchFails(w)
      PROVE  Spaced'
  BY <1>5 DEF PatchGone, PatchFails, Attempt
<1>6. CASE Clock
  BY <1>6, DownType, TimingAssumption DEF Clock, Down
<1>7. CASE Pop
  BY <1>7 DEF Pop
<1>8. CASE Drain
  BY <1>8 DEF Drain
<1>9. CASE Scheduling
  BY <1>1, <1>9 DEF Scheduling, Schedule
<1>. QED
  BY <1>1, <1>2, <1>3, <1>4, <1>5, <1>6, <1>7, <1>8, <1>9
  DEF Next, TickThread, Fire, Seed, HandleDeleted, HandleUnchanged, HandleChange, HandleListFails,
      NewPodsUp, RolloutFinishes, Stop, vars

\* Outside the drain, two restarts are at least min_interval_seconds apart.
THEOREM RestartsStaySpaced == Spec => RestartsAreSpaced
<1>1. Init => Alone /\ Spaced
  BY DEF Init, Alone, Spaced
<1>2. IInv /\ Alone /\ Spaced /\ [Next]_vars => Alone' /\ Spaced'
  BY AloneStep, SpacedStep DEF IInv
<1>3. Spaced /\ [Next]_vars =>
        [\A w \in Workloads : PatchSucceeds(w) /\ tick = "fire" => cooldown = 0]_vars
  BY DEF Spaced
<1>. QED
  BY <1>1, <1>2, <1>3, Invariance, PTL DEF Spec, RestartsAreSpaced
=============================================================================
