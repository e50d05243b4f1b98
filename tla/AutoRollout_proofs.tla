------------------------- MODULE AutoRollout_proofs -------------------------
(***************************************************************************)
(* Proofs about AutoRollout, for every set of CRs, contents and workloads  *)
(* and every combination of faults.  The cache's own invariant and the     *)
(* reader it implements come from CrCache_proofs; IInv adds what ties the  *)
(* trigger to the cache:                                                   *)
(*   BootKnowsNothing  before the first list the trigger knows no CR;      *)
(*   StaysReady        without a long outage the cache never loses its     *)
(*                     readiness, so every re-list reports what changed;   *)
(*   InStep            what is still to be handed to the trigger brings    *)
(*                     its last-known state in step with the index;        *)
(*   Charged           the changes taken for one so far, and the one in    *)
(*                     the callbacks to come, are moves of the log up to   *)
(*                     the moment the index shows.                         *)
(***************************************************************************)
EXTENDS AutoRollout, FiniteSetTheorems, SequenceTheorems, TLAPS

CacheProofs == INSTANCE CrCache_proofs

\* The moves of a CR among the first n writes of a log.
MovesIn(l, cr, n) ==
  {i \in 1..n :
     /\ l[i].cr = cr
     /\ l[i].type # "DELETED"
     /\ l[i].obj \in Overrides
     /\ Signature(CacheProofs!RevisionIn(l, cr, i - 1)) # l[i].obj.res}

\* How far in the log the process has come.  A process that starts has the whole
\* log behind it: its first list reports nothing.
At == IF pc = "boot" THEN Len(log) ELSE CacheProofs!SeenUpTo

\* A callback the trigger may take for a change.
Chargeable(c) == c.type # "DELETED" /\ Signature(c.old) # c.ro.res
Owed(cr) == IF \E c \in callbacks : c.cr = cr /\ Chargeable(c) THEN 1 ELSE 0

KnownAfter(c) == [known EXCEPT ![c.cr] = IF c.type = "DELETED" THEN Unknown ELSE c.ro.res]

TypeOK ==
  /\ known \in [CRs -> Resources \cup {Unknown}]
  /\ candidates \in [CRs -> Nat]

BootKnowsNothing ==
  pc = "boot" => ~ready /\ callbacks = {} /\ \A cr \in CRs : known[cr] = Unknown

StaysReady == "longOutage" \notin faulty /\ pc # "boot" => ready

InStep ==
  "longOutage" \notin faulty =>
    /\ pc \in {"watch", "relist"} => \A cr \in CRs : known[cr] = Signature(index[cr])
    /\ pc = "fire" =>
         \E c \in callbacks :
           callbacks = {c} /\ \A cr \in CRs : KnownAfter(c)[cr] = Signature(index[cr])
    /\ pc = "announce" =>
         /\ \A c \in callbacks : c.type # "DELETED" => index[c.cr] # Absent
         /\ \A cr \in CRs : index[cr] = Absent =>
              \/ known[cr] = Unknown
              \/ \E c \in callbacks : c.cr = cr /\ c.type = "DELETED"

OneCallbackEach == \A c, d \in callbacks : c.cr = d.cr => c = d

Charged == \A cr \in CRs : candidates[cr] + Owed(cr) <= Cardinality(MovesIn(log, cr, At))

IInv ==
  /\ CacheProofs!IInv
  /\ TypeOK
  /\ BootKnowsNothing
  /\ StaysReady
  /\ InStep
  /\ OneCallbackEach
  /\ Charged

-----------------------------------------------------------------------------
(* Moves of a CR in a log.                                                 *)

\* What the two parts assume holds of the instance their proofs are about.
LEMMA CacheAssumptions == CacheProofs!ContentAssumption /\ CacheProofs!BoundAssumption
BY PartsAssumption DEF Cache!ContentAssumption, Cache!BoundAssumption,
   CacheProofs!ContentAssumption, CacheProofs!BoundAssumption

\* A revision is an override, whose signature is known, or nothing.
LEMMA RevisionSignature ==
  ASSUME NEW l, NEW cr, NEW n
  PROVE  LET r == CacheProofs!RevisionIn(l, cr, n) IN
         r = Absent \/ (r \in Overrides /\ Signature(r) = r.res /\ r.res # Unknown)
<1>1. \A o \in Overrides : o # Absent /\ o.res # Unknown
  BY PartsAssumption DEF Trigger!OverridesAssumption
<1>. QED
  BY <1>1 DEF CacheProofs!RevisionIn, CacheProofs!Left, CacheProofs!Parse, Signature

LEMMA MovesFinite ==
  ASSUME NEW l, NEW cr, NEW n \in Nat
  PROVE  IsFiniteSet(MovesIn(l, cr, n)) /\ Cardinality(MovesIn(l, cr, n)) \in Nat
<1>1. MovesIn(l, cr, n) \subseteq 1..n /\ IsFiniteSet(1..n)
  BY FS_Interval DEF MovesIn
<1>. QED
  BY <1>1, FS_Subset, FS_CardinalityType

\* Further down the log there are no fewer moves, and one more where there is a
\* move in between.
LEMMA MovesGrow ==
  ASSUME NEW l, NEW cr, NEW m \in Nat, NEW n \in Nat, m <= n
  PROVE  /\ Cardinality(MovesIn(l, cr, m)) <= Cardinality(MovesIn(l, cr, n))
         /\ \A k \in (m + 1)..n : k \in MovesIn(l, cr, n) =>
              Cardinality(MovesIn(l, cr, m)) + 1 <= Cardinality(MovesIn(l, cr, n))
<1>1. MovesIn(l, cr, m) \subseteq MovesIn(l, cr, n)
  BY DEF MovesIn
<1>2. IsFiniteSet(MovesIn(l, cr, m)) /\ IsFiniteSet(MovesIn(l, cr, n))
  BY MovesFinite
<1>3. ASSUME NEW k \in (m + 1)..n, k \in MovesIn(l, cr, n)
      PROVE  Cardinality(MovesIn(l, cr, m)) + 1 <= Cardinality(MovesIn(l, cr, n))
  <2>1. k \notin MovesIn(l, cr, m)
    BY <1>3 DEF MovesIn
  <2>2. MovesIn(l, cr, m) \cup {k} \subseteq MovesIn(l, cr, n)
    BY <1>1, <1>3
  <2>3. Cardinality(MovesIn(l, cr, m) \cup {k}) = Cardinality(MovesIn(l, cr, m)) + 1
    BY <1>2, <2>1, FS_AddElement
  <2>. QED
    BY <1>2, <2>2, <2>3, FS_Subset
<1>. QED
  BY <1>1, <1>2, <1>3, FS_Subset

\* An appended write is no move of the log before it.
LEMMA MovesAppend ==
  ASSUME NEW l \in Seq(CacheProofs!Event), NEW e \in CacheProofs!Event, NEW cr,
         NEW n \in 0..Len(l)
  PROVE  MovesIn(Append(l, e), cr, n) = MovesIn(l, cr, n)
<1>1. \A i \in 1..n : Append(l, e)[i] = l[i]
  OBVIOUS
<1>2. \A i \in 1..n :
        CacheProofs!RevisionIn(Append(l, e), cr, i - 1) = CacheProofs!RevisionIn(l, cr, i - 1)
  <2>. TAKE i \in 1..n
  <2>1. i - 1 \in 0..Len(l)
    OBVIOUS
  <2>. QED
    BY <2>1, CacheAssumptions, CacheProofs!RevisionAppend
<1>. QED
  BY <1>1, <1>2 DEF MovesIn

\* Where a CR has come to have other resources, one of the writes in between moved
\* it: the last one after which they were what they are now.
LEMMA SomeMove ==
  ASSUME NEW l \in Seq(CacheProofs!Event), NEW cr, NEW m \in Nat, NEW n \in 0..Len(l), m <= n,
         CacheProofs!RevisionIn(l, cr, n) # Absent,
         Signature(CacheProofs!RevisionIn(l, cr, m)) # Signature(CacheProofs!RevisionIn(l, cr, n))
  PROVE  \E k \in (m + 1)..n : k \in MovesIn(l, cr, n)
<1>. DEFINE sig(j) == Signature(CacheProofs!RevisionIn(l, cr, j))
            S      == {k \in (m + 1)..n : sig(k - 1) # sig(n)}
<1>1. m + 1 \in S
  <2>1. m # n
    OBVIOUS
  <2>2. m + 1 - 1 = m
    OBVIOUS
  <2>. QED
    BY <2>1, <2>2
<1>2. PICK k \in S : \A j \in S : j <= k
  <2>1. S \in SUBSET (1..n) /\ S # {} /\ n \in Nat
    <3>1. n \in Nat /\ (m + 1)..n \subseteq 1..n
      OBVIOUS
    <3>. QED
      BY <1>1, <3>1, Zenon
  <2>. HIDE DEF S
  <2>. QED
    BY <2>1, CacheAssumptions, CacheProofs!LatestIsMax
<1>3. k \in (m + 1)..n /\ k \in Nat /\ k - 1 \in Nat /\ k <= Len(l) /\ k - 1 + 1 = k
  OBVIOUS
<1>4. sig(k) = sig(n)
  <2>1. CASE k = n
    BY <2>1
  <2>2. CASE k # n
    <3>1. k + 1 \in (m + 1)..n /\ ~(k + 1 <= k) /\ k + 1 - 1 = k
      BY <1>3, <2>2
    <3>2. k + 1 \notin S
      BY <1>2, <3>1, Zenon
    <3>. QED
      BY <3>1, <3>2
  <2>. QED
    BY <2>1, <2>2
<1>5. CacheProofs!RevisionIn(l, cr, k) =
        IF l[k].cr = cr THEN CacheProofs!Left(l[k]) ELSE CacheProofs!RevisionIn(l, cr, k - 1)
  <2>1. CacheProofs!RevisionIn(l, cr, k - 1 + 1) =
          IF l[k - 1 + 1].cr = cr THEN CacheProofs!Left(l[k - 1 + 1])
          ELSE CacheProofs!RevisionIn(l, cr, k - 1)
    BY <1>3, CacheAssumptions, CacheProofs!RevisionStep
  <2>. QED
    BY <1>3, <2>1
<1>6. sig(k) # Unknown
  BY <1>4, RevisionSignature
<1>7. sig(k - 1) # sig(k)
  BY <1>2, <1>4
<1>8. l[k].cr = cr /\ sig(k) = Signature(CacheProofs!Left(l[k]))
  BY <1>5, <1>7
<1>9. l[k].type # "DELETED" /\ l[k].obj \in Overrides /\ sig(k) = l[k].obj.res
  BY <1>6, <1>8 DEF CacheProofs!Left, CacheProofs!Parse, Signature
<1>. QED
  BY <1>3, <1>7, <1>8, <1>9 DEF MovesIn

-----------------------------------------------------------------------------
(* The cache inside the process.                                           *)

\* The proofs' actions of the cache are those the process is composed of.
LEMMA CacheActions ==
  /\ Cache!Init => CacheProofs!Init
  /\ Cache!InitialList => CacheProofs!InitialList
  /\ Cache!RelistFails => CacheProofs!RelistFails
  /\ Cache!DeliverParsed => CacheProofs!DeliverParsed
  /\ Cache!DeliverMalformed => CacheProofs!DeliverMalformed
  /\ \A c : Cache!FireCallback(c) => CacheProofs!FireCallback(c)
  /\ Cache!Seed => CacheProofs!Seed
  /\ Cache!WatchEnds => CacheProofs!WatchEnds
  /\ Cache!WatchRaises => CacheProofs!WatchRaises
  /\ \A cr \in CRs, obj \in Cache!Objects :
       obj \in CacheProofs!Objects /\ (Cache!Apply(cr, obj) => CacheProofs!Apply(cr, obj))
  /\ \A cr \in CRs : Cache!Delete(cr) => CacheProofs!Delete(cr)
  /\ Cache!Outage => CacheProofs!Outage
  /\ Cache!Recover => CacheProofs!Recover
  /\ Cache!Restart => CacheProofs!Restart
<1>. USE DEF Cache!apiVars, CacheProofs!apiVars, Cache!cacheVars, CacheProofs!cacheVars,
             Cache!NothingCached, CacheProofs!NothingCached
<1>1. Cache!Init => CacheProofs!Init
  BY DEF Cache!Init, CacheProofs!Init
<1>2. Cache!InitialList => CacheProofs!InitialList
  BY DEF Cache!InitialList, CacheProofs!InitialList, Cache!Synthetic, CacheProofs!Synthetic,
         Cache!Parse, CacheProofs!Parse
<1>3. Cache!RelistFails => CacheProofs!RelistFails
  BY DEF Cache!RelistFails, CacheProofs!RelistFails
<1>4. /\ Cache!DeliverParsed => CacheProofs!DeliverParsed
      /\ Cache!DeliverMalformed => CacheProofs!DeliverMalformed
  BY DEF Cache!DeliverParsed, CacheProofs!DeliverParsed,
         Cache!DeliverMalformed, CacheProofs!DeliverMalformed
<1>5. \A c : Cache!FireCallback(c) => CacheProofs!FireCallback(c)
  BY DEF Cache!FireCallback, CacheProofs!FireCallback
<1>6. Cache!Seed => CacheProofs!Seed
  BY DEF Cache!Seed, CacheProofs!Seed
<1>7. /\ Cache!WatchEnds => CacheProofs!WatchEnds
      /\ Cache!WatchRaises => CacheProofs!WatchRaises
  BY DEF Cache!WatchEnds, CacheProofs!WatchEnds, Cache!WatchRaises, CacheProofs!WatchRaises
<1>8. \A cr \in CRs, obj \in Cache!Objects :
        obj \in CacheProofs!Objects /\ (Cache!Apply(cr, obj) => CacheProofs!Apply(cr, obj))
  BY DEF Cache!Apply, CacheProofs!Apply, Cache!Objects, CacheProofs!Objects
<1>9. \A cr \in CRs : Cache!Delete(cr) => CacheProofs!Delete(cr)
  BY DEF Cache!Delete, CacheProofs!Delete
<1>10. /\ Cache!Outage => CacheProofs!Outage
       /\ Cache!Recover => CacheProofs!Recover
       /\ Cache!Restart => CacheProofs!Restart
  BY DEF Cache!Outage, CacheProofs!Outage, Cache!Recover, CacheProofs!Recover,
         Cache!Restart, CacheProofs!Restart
<1>. QED
  BY <1>1, <1>2, <1>3, <1>4, <1>5, <1>6, <1>7, <1>8, <1>9, <1>10, Zenon


\* The tick thread, the cluster and the scheduling of a callback's restarts leave
\* the cache and what the trigger knows of it alone.
LEMMA RestStep ==
  ASSUME Scheduling \/ TickThread \/ Cluster \/ UNCHANGED vars
  PROVE  UNCHANGED <<cacheVars, known, candidates, faulty>>
<1>. USE DEF outside, Trigger!eventVars, Trigger!tickVars, Trigger!limitVars, Trigger!clusterVars
<1>1. CASE Scheduling
  BY <1>1 DEF Scheduling, Trigger!Scheduling, Trigger!Schedule
<1>2. CASE TickThread
  <2>1. ASSUME NEW w \in Workloads, Restart(w) \/ RestartFails(w)
        PROVE  UNCHANGED <<cacheVars, known, candidates, faulty>>
    BY <2>1 DEF Restart, RestartFails, Trigger!PatchSucceeds, Trigger!PatchFails, Trigger!Attempt
  <2>2. ASSUME Trigger!TickStart \/ Trigger!Pop, UNCHANGED <<cacheVars, outside>>
        PROVE  UNCHANGED <<cacheVars, known, candidates, faulty>>
    BY <2>2 DEF Trigger!TickStart, Trigger!Pop
  <2>3. ASSUME NEW w \in Workloads, UNCHANGED <<cacheVars, outside>>,
               \/ Trigger!RolloutTimedOut(w)
               \/ Trigger!RolloutComplete(w)
               \/ Trigger!RolloutRunning(w)
        PROVE  UNCHANGED <<cacheVars, known, candidates, faulty>>
    BY <2>3 DEF Trigger!RolloutTimedOut, Trigger!RolloutComplete, Trigger!RolloutRunning,
                Trigger!Check
  <2>. QED
    BY <1>2, <2>1, <2>2, <2>3 DEF TickThread
<1>3. CASE Cluster
  BY <1>3 DEF Cluster, Trigger!NewPodsUp, Trigger!RolloutFinishes, Trigger!Clock
<1>4. CASE UNCHANGED vars
  BY <1>4 DEF vars, triggerVars
<1>. QED
  BY <1>1, <1>2, <1>3, <1>4

\* Every step of the process is a step of the cache or leaves it alone.
LEMMA CacheStep == [Next]_vars => [CacheProofs!Next]_(CacheProofs!vars)
<1>. SUFFICES ASSUME [Next]_vars
              PROVE  CacheProofs!Next \/ UNCHANGED CacheProofs!vars
  BY Zenon
<1>. USE DEF CacheProofs!Next, CacheProofs!WatchThread, CacheProofs!Environment
<1>1. CASE Scheduling \/ TickThread \/ Cluster \/ UNCHANGED vars
  BY <1>1, RestStep DEF cacheVars, CacheProofs!vars, CacheProofs!apiVars, CacheProofs!cacheVars
<1>2. CASE Bootstrap \/ Relist \/ RelistFails \/ Seed
  BY <1>2, CacheActions DEF Bootstrap, Relist, RelistFails, Seed
<1>3. CASE Watch
  BY <1>3, CacheActions DEF Watch, Cache!Deliver, CacheProofs!Deliver
<1>4. CASE Callbacks
  BY <1>4, CacheActions DEF Callbacks, CallbackDeleted, CallbackUnchanged, CallbackChange,
                            CacheProofs!Fire
<1>5. CASE Writers \/ Network \/ Crash
  BY <1>5, CacheActions DEF Writers, Network, Crash
<1>. QED
  BY <1>1, <1>2, <1>3, <1>4, <1>5 DEF Next, WatchThread

\* The process is somewhere in the log, in the next state as in this one.
LEMMA AtInLog ==
  /\ CacheProofs!IInv => At \in 0..Len(log) /\ Len(log) \in Nat
  /\ CacheProofs!IInv' => At' \in 0..Len(log') /\ Len(log') \in Nat
<1>1. CacheProofs!IInv => At \in 0..Len(log) /\ Len(log) \in Nat
  BY CacheAssumptions, CacheProofs!ReaderAt DEF At, CacheProofs!IInv, CacheProofs!TypeOK
<1>2. CacheProofs!IInv' => At' \in 0..Len(log') /\ Len(log') \in Nat
  BY CacheAssumptions, CacheProofs!ReaderAt DEF At, CacheProofs!IInv, CacheProofs!TypeOK
<1>. QED
  BY <1>1, <1>2

LEMMA AtStays ==
  ASSUME CacheProofs!IInv, CacheProofs!IInv', UNCHANGED <<log, index, rv>>,
         (pc' = "boot") = (pc = "boot")
  PROVE  At' = At
<1>1. CacheProofs!SeenUpTo' = CacheProofs!SeenUpTo
  BY CacheAssumptions, CacheProofs!SeenUpToIsFirst DEF CacheProofs!IInv
<1>. QED
  BY <1>1 DEF At

\* Charges are covered as long as the process does not go back in the log and
\* takes no more for changes than it owed.
LEMMA ChargedStep ==
  ASSUME IInv, CacheProofs!IInv', TypeOK', UNCHANGED log, At <= At',
         \A cr \in CRs : candidates'[cr] + Owed(cr)' <= candidates[cr] + Owed(cr)
  PROVE  Charged'
<1>. SUFFICES ASSUME NEW cr \in CRs
              PROVE  candidates'[cr] + Owed(cr)' <= Cardinality(MovesIn(log, cr, At'))
  BY DEF Charged
<1>1. At \in Nat /\ At' \in Nat
  BY AtInLog DEF IInv
<1>2. Cardinality(MovesIn(log, cr, At)) <= Cardinality(MovesIn(log, cr, At'))
  BY <1>1, MovesGrow
<1>3. /\ candidates[cr] + Owed(cr) \in Nat
      /\ candidates'[cr] + Owed(cr)' \in Nat
  BY DEF IInv, TypeOK, Owed
<1>4. /\ Cardinality(MovesIn(log, cr, At)) \in Nat
      /\ Cardinality(MovesIn(log, cr, At')) \in Nat
  BY <1>1, MovesFinite
<1>5. candidates[cr] + Owed(cr) <= Cardinality(MovesIn(log, cr, At))
  BY DEF IInv, Charged
<1>. QED
  BY <1>2, <1>3, <1>4, <1>5

-----------------------------------------------------------------------------
(* The trigger follows the cache.                                          *)

\* A re-list reports each CR at most once, with what it was and what it is, and
\* reports every CR that is gone.
LEMMA SyntheticReports ==
  ASSUME NEW old, NEW new
  PROVE  /\ \A c \in CacheProofs!Synthetic(old, new) :
              /\ c.cr \in CRs /\ c.old = old[c.cr]
              /\ c.type = "DELETED" => new[c.cr] = Absent
              /\ c.type # "DELETED" => new[c.cr] # Absent /\ c.ro = new[c.cr]
         /\ \A c, d \in CacheProofs!Synthetic(old, new) : c.cr = d.cr => c = d
         /\ \A cr \in CRs : new[cr] = Absent /\ old[cr] # Absent =>
              \E c \in CacheProofs!Synthetic(old, new) : c.cr = cr /\ c.type = "DELETED"
<1>. DEFINE here(cr) == [type |-> IF old[cr] = Absent THEN "ADDED" ELSE "MODIFIED",
                         cr |-> cr, ro |-> new[cr], old |-> old[cr]]
            gone(cr) == [type |-> "DELETED", cr |-> cr, ro |-> old[cr], old |-> old[cr]]
<1>1. ASSUME NEW c \in CacheProofs!Synthetic(old, new)
      PROVE  /\ c.cr \in CRs
             /\ \/ c = here(c.cr) /\ new[c.cr] # Absent
                \/ c = gone(c.cr) /\ new[c.cr] = Absent
  <2>1. CASE \E cr \in CRs : new[cr] # Absent /\ c = here(cr)
    BY <2>1
  <2>2. CASE \E cr \in CRs : new[cr] = Absent /\ c = gone(cr)
    BY <2>2
  <2>. QED
    BY <2>1, <2>2 DEF CacheProofs!Synthetic
<1>2. ASSUME NEW cr \in CRs, new[cr] = Absent, old[cr] # Absent
      PROVE  gone(cr) \in CacheProofs!Synthetic(old, new)
  BY <1>2 DEF CacheProofs!Synthetic
<1>3. \A cr : /\ here(cr).cr = cr /\ here(cr).old = old[cr] /\ here(cr).ro = new[cr]
              /\ here(cr).type # "DELETED"
              /\ gone(cr).cr = cr /\ gone(cr).old = old[cr] /\ gone(cr).type = "DELETED"
  OBVIOUS
<1>. HIDE DEF here, gone
<1>. QED
  BY <1>1, <1>2, <1>3

\* What the cache's list does, from the bootstrap or after the watch broke.
LEMMA ListStep ==
  ASSUME IInv, CacheProofs!IInv', Bootstrap \/ Relist
  PROVE  IInv'
<1>. USE DEF IInv
<1>1. /\ CacheProofs!InitialList
      /\ UNCHANGED <<known, candidates, faulty>>
      /\ pc \in {"boot", "relist"}
  BY CacheActions DEF Bootstrap, Relist, triggerVars, outside, Cache!InitialList
<1>2. /\ UNCHANGED log /\ rv' = Len(log) /\ ready' = TRUE /\ pc' = "announce"
      /\ callbacks' = IF ready THEN CacheProofs!Synthetic(index, index') ELSE {}
  BY <1>1 DEF CacheProofs!InitialList, CacheProofs!apiVars
<1>3. callbacks = {} /\ (pc = "boot" => callbacks' = {})
  BY <1>1, <1>2 DEF BootKnowsNothing, CacheProofs!IInv, CacheProofs!Announced
<1>4. TypeOK' /\ BootKnowsNothing' /\ StaysReady'
  BY <1>1, <1>2 DEF TypeOK, BootKnowsNothing, StaysReady
<1>5. OneCallbackEach'
  BY <1>2, SyntheticReports DEF OneCallbackEach
<1>6. InStep'
  <2>. SUFFICES ASSUME "longOutage" \notin faulty
                PROVE  /\ \A c \in callbacks' : c.type # "DELETED" => index'[c.cr] # Absent
                       /\ \A cr \in CRs : index'[cr] = Absent =>
                            \/ known[cr] = Unknown
                            \/ \E c \in callbacks' : c.cr = cr /\ c.type = "DELETED"
    BY <1>1, <1>2 DEF InStep
  <2>1. CASE pc = "boot"
    BY <1>3, <2>1 DEF BootKnowsNothing
  <2>2. CASE pc = "relist"
    <3>1. callbacks' = CacheProofs!Synthetic(index, index')
      BY <1>2, <2>2 DEF StaysReady
    <3>2. \A cr \in CRs : index[cr] = Absent => known[cr] = Unknown
      BY <2>2 DEF InStep, Signature
    <3>. QED
      BY <3>1, <3>2, SyntheticReports
  <2>. QED
    BY <1>1, <2>1, <2>2
<1>7. At \in Nat /\ At <= Len(log) /\ Len(log) \in Nat /\ At' = Len(log)
  <2>1. At' \in rv'..Len(log')
    BY <1>2, CacheAssumptions, CacheProofs!ReaderAt DEF At
  <2>. QED
    BY <1>2, <2>1, AtInLog
<1>8. Charged'
  <2>. SUFFICES ASSUME NEW cr \in CRs
                PROVE  candidates[cr] + Owed(cr)' <= Cardinality(MovesIn(log, cr, Len(log)))
    BY <1>1, <1>2, <1>7 DEF Charged
  <2>1. /\ Cardinality(MovesIn(log, cr, At)) \in Nat
        /\ Cardinality(MovesIn(log, cr, Len(log))) \in Nat
        /\ Cardinality(MovesIn(log, cr, At)) <= Cardinality(MovesIn(log, cr, Len(log)))
    BY <1>7, MovesFinite, MovesGrow
  <2>2. candidates[cr] \in Nat /\ candidates[cr] <= Cardinality(MovesIn(log, cr, At))
    BY <1>3 DEF Charged, Owed, TypeOK
  <2>3. CASE Owed(cr)' = 0
    BY <2>1, <2>2, <2>3
  <2>4. CASE Owed(cr)' # 0
    <3>1. PICK c \in callbacks' : c.cr = cr /\ c.type # "DELETED" /\ Signature(c.old) # c.ro.res
      BY <2>4 DEF Owed, Chargeable
    <3>2. callbacks' = CacheProofs!Synthetic(index, index') /\ pc # "boot"
      BY <1>2, <1>3, <3>1
    <3>3. c.old = index[cr] /\ c.ro = index'[cr] /\ index'[cr] # Absent
      BY <3>1, <3>2, SyntheticReports
    <3>4. index[cr] = CacheProofs!RevisionIn(log, cr, At)
      BY <3>2, CacheAssumptions, CacheProofs!ReaderAt DEF At, CacheProofs!Moments
    <3>5. index'[cr] = CacheProofs!RevisionIn(log, cr, Len(log))
      BY <1>2, <1>7, CacheAssumptions, CacheProofs!ReaderAt DEF At, CacheProofs!Moments
    <3>6. Signature(index'[cr]) = index'[cr].res
      BY <3>3 DEF Signature
    <3>7. log \in Seq(CacheProofs!Event) /\ Len(log) \in 0..Len(log)
      BY <1>7 DEF CacheProofs!IInv, CacheProofs!TypeOK
    <3>8. \E k \in (At + 1)..Len(log) : k \in MovesIn(log, cr, Len(log))
      BY <1>7, <3>1, <3>3, <3>4, <3>5, <3>6, <3>7, SomeMove
    <3>9. Cardinality(MovesIn(log, cr, At)) + 1 <= Cardinality(MovesIn(log, cr, Len(log)))
      BY <1>7, <3>8, MovesGrow
    <3>10. Owed(cr)' = 1
      BY <2>4 DEF Owed
    <3>. QED
      BY <2>1, <2>2, <3>9, <3>10
  <2>. QED
    BY <2>3, <2>4
<1>. QED
  BY <1>4, <1>5, <1>6, <1>8

\* A delivered event is reported with what the index held before and holds after;
\* it may pass for a change only where the log moves.
LEMMA WatchDeliverStep ==
  ASSUME IInv, CacheProofs!IInv', CacheProofs!Deliver,
         UNCHANGED <<known, candidates, faulty>>
  PROVE  IInv'
<1>. USE DEF IInv
<1>1. /\ pc = "watch" /\ callbacks = {} /\ pc' \in {"watch", "fire"}
      /\ UNCHANGED <<log, ready>>
      /\ pos \in Nat /\ pos + 1 \in 1..Len(log) /\ Len(log) \in Nat
      /\ log[pos + 1] \in CacheProofs!Event
      /\ index \in [CRs -> CacheProofs!Contents]
  <2>1. /\ pc = "watch" /\ pc' \in {"watch", "fire"} /\ UNCHANGED <<log, ready>>
        /\ pos < Len(log)
    BY DEF CacheProofs!Deliver, CacheProofs!DeliverParsed, CacheProofs!DeliverMalformed,
           CacheProofs!apiVars
  <2>2. callbacks = {}
    BY <2>1 DEF CacheProofs!IInv, CacheProofs!Announced
  <2>3. /\ log \in Seq(CacheProofs!Event) /\ index \in [CRs -> CacheProofs!Contents]
        /\ pos \in Nat /\ Len(log) \in Nat
    BY DEF CacheProofs!IInv, CacheProofs!TypeOK
  <2>4. log[pos + 1] \in CacheProofs!Event
    BY <2>1, <2>3, ElementOfSeq
  <2>. QED
    BY <2>1, <2>2, <2>3, <2>4
<1>e. PICK e \in CacheProofs!Event : e = log[pos + 1]
  BY <1>1
<1>2. TypeOK' /\ BootKnowsNothing' /\ StaysReady'
  BY <1>1 DEF TypeOK, BootKnowsNothing, StaysReady
<1>3. At <= At' /\ At \in Nat /\ At' \in Nat
  <2>1. At = CacheProofs!SeenUpTo /\ At' = CacheProofs!SeenUpTo'
    BY <1>1 DEF At
  <2>. QED
    BY <2>1, AtInLog, CacheAssumptions, CacheProofs!ReaderDelivers
<1>4. CASE CacheProofs!DeliverParsed
  <2>0. PICK c : c = [type |-> e.type, cr |-> e.cr, ro |-> e.obj, old |-> index[e.cr]]
    OBVIOUS
  <2>1. /\ callbacks' = {c} /\ pc' = "fire"
        /\ e.obj \in Overrides /\ e.cr \in CRs
        /\ index' = [index EXCEPT ![e.cr] = IF e.type = "DELETED" THEN Absent ELSE e.obj]
    BY <1>1, <1>4, <1>e, <2>0 DEF CacheProofs!DeliverParsed, CacheProofs!Event
  <2>2. OneCallbackEach'
    BY <2>1 DEF OneCallbackEach
  <2>3. InStep'
    <3>1. ASSUME "longOutage" \notin faulty, NEW cr \in CRs
          PROVE  KnownAfter(c)[cr] = Signature(index'[cr])
      <4>1. known[cr] = Signature(index[cr])
        BY <1>1, <3>1 DEF InStep
      <4>2. e.obj # Absent /\ c.type = e.type /\ c.cr = e.cr /\ c.ro = e.obj
        BY <2>0, <2>1, CacheAssumptions DEF CacheProofs!ContentAssumption
      <4>. QED
        BY <1>1, <2>1, <4>1, <4>2 DEF KnownAfter, Signature, TypeOK
    <3>2. KnownAfter(c)' = KnownAfter(c)
      BY DEF KnownAfter
    <3>. QED
      BY <2>1, <3>1, <3>2 DEF InStep
  <2>4. Charged'
    <3>. SUFFICES ASSUME NEW cr \in CRs
                  PROVE  candidates[cr] + Owed(cr)' <= Cardinality(MovesIn(log, cr, At'))
      BY <1>1 DEF Charged
    <3>1. /\ Cardinality(MovesIn(log, cr, At)) \in Nat
          /\ Cardinality(MovesIn(log, cr, At')) \in Nat
          /\ Cardinality(MovesIn(log, cr, At)) <= Cardinality(MovesIn(log, cr, At'))
      BY <1>3, MovesFinite, MovesGrow
    <3>2. candidates[cr] \in Nat /\ candidates[cr] <= Cardinality(MovesIn(log, cr, At))
      BY <1>1 DEF Charged, Owed, TypeOK
    <3>3. CASE Owed(cr)' = 0
      BY <3>1, <3>2, <3>3
    <3>4. CASE Owed(cr)' # 0
      <4>1. e.cr = cr /\ e.type # "DELETED" /\ Signature(index[cr]) # e.obj.res
        BY <2>0, <2>1, <3>4 DEF Owed, Chargeable
      <4>2. /\ index[cr] = CacheProofs!RevisionIn(log, cr, pos)
            /\ At <= pos /\ rv' = pos + 1
        BY <1>1, <1>4, CacheAssumptions, CacheProofs!ParsedIsNext DEF At
      <4>3. At' >= pos + 1
        BY <1>1, <2>1, <4>2, CacheAssumptions, CacheProofs!ReaderAt DEF At
      <4>4. pos + 1 - 1 = pos /\ pos + 1 \in (At + 1)..At'
        BY <1>1, <1>3, <4>2, <4>3
      <4>5. pos + 1 \in MovesIn(log, cr, At')
        <5>1. PICK k \in Nat, n \in Nat : k = pos + 1 /\ n = At'
          BY <1>1, <1>3
        <5>2. k \in 1..n /\ k - 1 = pos
          BY <1>1, <1>3, <4>2, <4>3, <5>1
        <5>3. /\ log[k].cr = cr /\ log[k].type # "DELETED" /\ log[k].obj \in Overrides
              /\ Signature(CacheProofs!RevisionIn(log, cr, k - 1)) # log[k].obj.res
          BY <1>e, <2>1, <4>1, <4>2, <5>1, <5>2
        <5>4. k \in MovesIn(log, cr, n)
          BY <5>2, <5>3, Zenon DEF MovesIn
        <5>. QED
          BY <5>1, <5>4
      <4>6. Cardinality(MovesIn(log, cr, At)) + 1 <= Cardinality(MovesIn(log, cr, At'))
        BY <1>3, <4>2, <4>3, <4>4, <4>5, MovesGrow
      <4>7. Owed(cr)' = 1
        BY <3>4 DEF Owed
      <4>. QED
        BY <3>1, <3>2, <4>6, <4>7
    <3>. QED
      BY <3>3, <3>4
  <2>. QED
    BY <1>2, <2>2, <2>3, <2>4
<1>5. CASE CacheProofs!DeliverMalformed
  <2>1. \/ UNCHANGED <<index, callbacks, pc>>
        \/ /\ e.cr \in CRs
           /\ index' = [index EXCEPT ![e.cr] = Absent]
           /\ callbacks' = {[type |-> "DELETED", cr |-> e.cr,
                             ro |-> index[e.cr], old |-> index[e.cr]]}
           /\ pc' = "fire"
    BY <1>1, <1>5, <1>e DEF CacheProofs!DeliverMalformed, CacheProofs!Event
  <2>2. OneCallbackEach' /\ \A cr : Owed(cr)' = 0
    BY <1>1, <2>1 DEF OneCallbackEach, Owed, Chargeable
  <2>3. InStep'
    <3>. SUFFICES ASSUME "longOutage" \notin faulty
                  PROVE  InStep'
      BY DEF InStep
    <3>1. \A cr \in CRs : known[cr] = Signature(index[cr])
      BY <1>1 DEF InStep
    <3>2. CASE UNCHANGED <<index, callbacks, pc>>
      BY <1>1, <3>1, <3>2 DEF InStep, Signature
    <3>3. CASE ~UNCHANGED <<index, callbacks, pc>>
      <4>1. PICK c : c = [type |-> "DELETED", cr |-> e.cr, ro |-> index[e.cr], old |-> index[e.cr]]
        OBVIOUS
      <4>2. callbacks' = {c} /\ pc' = "fire" /\ index' = [index EXCEPT ![e.cr] = Absent]
        BY <2>1, <3>3, <4>1
      <4>3. \A cr \in CRs : KnownAfter(c)[cr] = Signature(index'[cr])
        BY <1>1, <3>1, <4>1, <4>2 DEF KnownAfter, Signature, TypeOK
      <4>4. KnownAfter(c)' = KnownAfter(c)
        BY DEF KnownAfter
      <4>. QED
        BY <4>2, <4>3, <4>4 DEF InStep
    <3>. QED
      BY <3>2, <3>3
  <2>4. \A cr \in CRs : candidates'[cr] + Owed(cr)' <= candidates[cr] + Owed(cr)
    <3>. TAKE cr \in CRs
    <3>1. Owed(cr) \in {0, 1} /\ Owed(cr)' = 0 /\ candidates[cr] \in Nat
      BY <2>2 DEF TypeOK, Owed
    <3>. QED
      BY <3>1
  <2>5. Charged'
    BY <1>1, <1>2, <1>3, <2>4, ChargedStep
  <2>. QED
    BY <1>2, <2>2, <2>3, <2>5
<1>. QED
  BY <1>4, <1>5 DEF CacheProofs!Deliver

\* The trigger is handed one callback; what it takes for a change was owed.
LEMMA CallbackStep ==
  ASSUME IInv, CacheProofs!IInv', Callbacks
  PROVE  IInv'
<1>. USE DEF IInv
<1>1. PICK c \in callbacks : CallbackDeleted(c) \/ CallbackUnchanged(c) \/ CallbackChange(c)
  BY DEF Callbacks
<1>2. /\ CacheProofs!FireCallback(c)
      /\ c \in CacheProofs!Callback /\ c.cr \in CRs /\ c.ro \in Overrides
      /\ c.ro.res \in Resources
  <2>1. CacheProofs!FireCallback(c)
    BY <1>1, CacheActions DEF CallbackDeleted, CallbackUnchanged, CallbackChange
  <2>2. c \in CacheProofs!Callback
    BY DEF CacheProofs!IInv, CacheProofs!TypeOK
  <2>. QED
    BY <2>1, <2>2, PartsAssumption DEF CacheProofs!Callback, Trigger!OverridesAssumption
<1>3. /\ UNCHANGED <<log, index, ready, rv, faulty>>
      /\ pc \in {"fire", "announce"} /\ callbacks' = callbacks \ {c}
      /\ pc' = IF pc = "fire" THEN "watch" ELSE pc
  <2>1. UNCHANGED faulty
    BY <1>1 DEF CallbackDeleted, CallbackUnchanged, CallbackChange, outside
  <2>. QED
    BY <1>2, <2>1 DEF CacheProofs!FireCallback, CacheProofs!apiVars
<1>4. known' = KnownAfter(c)
  BY <1>1 DEF KnownAfter, CallbackDeleted, CallbackUnchanged, CallbackChange,
              Trigger!HandleDeleted, Trigger!HandleUnchanged, Trigger!HandleChange,
              Trigger!HandleListFails
<1>5. /\ candidates' \in [CRs -> Nat]
      /\ \A cr \in CRs : candidates'[cr] + Owed(cr)' <= candidates[cr] + Owed(cr)
  <2>1. ASSUME NEW cr \in CRs
        PROVE  Owed(cr)' <= Owed(cr)
    BY <1>3 DEF Owed
  <2>2. CASE CallbackDeleted(c) \/ CallbackUnchanged(c)
    <3>1. UNCHANGED candidates
      BY <2>2 DEF CallbackDeleted, CallbackUnchanged, outside
    <3>. QED
      BY <2>1, <3>1 DEF TypeOK, Owed
  <2>3. CASE CallbackChange(c)
    <3>1. candidates' = [candidates EXCEPT ![c.cr] = @ + 1]
      BY <2>3 DEF CallbackChange
    <3>2. Chargeable(c)
      BY <1>2, <2>3, PartsAssumption
      DEF CallbackChange, Chargeable, Trigger!HandleChange, Trigger!HandleListFails,
          Trigger!Baseline, Signature, Trigger!OverridesAssumption
    <3>3. Owed(c.cr) = 1 /\ Owed(c.cr)' = 0
      BY <1>3, <3>2 DEF Owed, OneCallbackEach
    <3>4. candidates' \in [CRs -> Nat]
      BY <1>2, <3>1 DEF TypeOK
    <3>5. ASSUME NEW cr \in CRs, cr # c.cr
          PROVE  candidates'[cr] + Owed(cr)' <= candidates[cr] + Owed(cr)
      BY <2>1, <3>1, <3>5 DEF TypeOK, Owed
    <3>6. candidates'[c.cr] + Owed(c.cr)' <= candidates[c.cr] + Owed(c.cr)
      BY <1>2, <3>1, <3>3 DEF TypeOK
    <3>. QED
      BY <3>4, <3>5, <3>6
  <2>. QED
    BY <1>1, <2>2, <2>3
<1>6. TypeOK'
  BY <1>2, <1>4, <1>5 DEF TypeOK, KnownAfter
<1>7. BootKnowsNothing' /\ StaysReady' /\ OneCallbackEach'
  BY <1>3 DEF BootKnowsNothing, StaysReady, OneCallbackEach
<1>8. InStep'
  <2>. SUFFICES ASSUME "longOutage" \notin faulty
                PROVE  InStep'
    BY <1>3 DEF InStep
  <2>1. CASE pc = "fire"
    <3>1. \A cr \in CRs : KnownAfter(c)[cr] = Signature(index[cr])
      BY <2>1 DEF InStep
    <3>. QED
      BY <1>3, <1>4, <2>1, <3>1 DEF InStep
  <2>2. CASE pc = "announce"
    <3>1. \A d \in callbacks' : d.type # "DELETED" => index[d.cr] # Absent
      BY <1>3, <2>2 DEF InStep
    <3>2. ASSUME NEW cr \in CRs, index[cr] = Absent
          PROVE  \/ known'[cr] = Unknown
                 \/ \E d \in callbacks' : d.cr = cr /\ d.type = "DELETED"
      <4>1. CASE cr = c.cr
        <5>1. c.type = "DELETED"
          BY <2>2, <3>2, <4>1 DEF InStep
        <5>. QED
          BY <1>2, <1>4, <4>1, <5>1 DEF KnownAfter, TypeOK
      <4>2. CASE cr # c.cr
        <5>1. known'[cr] = known[cr]
          BY <1>4, <4>2 DEF KnownAfter, TypeOK
        <5>. QED
          BY <1>3, <2>2, <3>2, <4>2, <5>1 DEF InStep
      <4>. QED
        BY <4>1, <4>2
    <3>. QED
      BY <1>3, <2>2, <3>1, <3>2 DEF InStep
  <2>. QED
    BY <1>3, <2>1, <2>2
<1>9. Charged'
  <2>1. At' = At /\ At \in Nat
    BY <1>3, AtStays, AtInLog
  <2>. QED
    BY <1>3, <1>5, <1>6, <2>1, ChargedStep
<1>. QED
  BY <1>6, <1>7, <1>8, <1>9

\* The seed records what the index holds of the CRs that were listed; the others
\* the callbacks have taken away.
LEMMA SeedStep ==
  ASSUME IInv, CacheProofs!IInv', Seed
  PROVE  IInv'
<1>. USE DEF IInv
<1>1. /\ pc = "announce" /\ callbacks = {} /\ pc' = "watch" /\ callbacks' = {}
      /\ UNCHANGED <<log, index, ready, rv, candidates, faulty>>
  BY CacheActions DEF Seed, CacheProofs!Seed, CacheProofs!apiVars, outside
<1>2. known' = [cr \in CRs |->
        IF Signature(index[cr]) # Unknown THEN Signature(index[cr]) ELSE known[cr]]
  BY DEF Seed, Trigger!Seed
<1>3. \A cr \in CRs : /\ Signature(index[cr]) \in Resources \cup {Unknown}
                       /\ (Signature(index[cr]) = Unknown) = (index[cr] = Absent)
  <2>1. index \in [CRs -> Overrides \cup {Absent}]
    BY DEF CacheProofs!IInv, CacheProofs!TypeOK, CacheProofs!Contents
  <2>. QED
    BY <2>1, PartsAssumption DEF Trigger!OverridesAssumption, Signature
<1>4. TypeOK'
  BY <1>1, <1>2, <1>3 DEF TypeOK
<1>5. BootKnowsNothing' /\ StaysReady' /\ OneCallbackEach'
  BY <1>1 DEF BootKnowsNothing, StaysReady, OneCallbackEach
<1>6. InStep'
  <2>. SUFFICES ASSUME "longOutage" \notin faulty, NEW cr \in CRs
                PROVE  known'[cr] = Signature(index[cr])
    BY <1>1 DEF InStep
  <2>1. index[cr] = Absent => known[cr] = Unknown
    BY <1>1 DEF InStep
  <2>. QED
    BY <1>2, <1>3, <2>1
<1>7. At' = At /\ At \in Nat
  BY <1>1, AtStays, AtInLog
<1>8. \A cr \in CRs : candidates'[cr] + Owed(cr)' <= candidates[cr] + Owed(cr)
  BY <1>1 DEF Owed, TypeOK
<1>. QED
  BY <1>1, <1>4, <1>5, <1>6, <1>7, <1>8, ChargedStep

\* A watch that ends or breaks, a re-list that fails and an outage move neither
\* the index nor what the trigger knows of it.
LEMMA BackStep ==
  ASSUME IInv, CacheProofs!IInv',
         UNCHANGED <<log, index, rv, callbacks, known, candidates, faulty>>,
         \/ UNCHANGED <<ready, pc>>
         \/ /\ pc \in {"watch", "relist"} /\ pc' \in {"watch", "relist"}
            /\ "longOutage" \notin faulty => ready' = ready
  PROVE  IInv'
<1>. USE DEF IInv
<1>1. TypeOK' /\ OneCallbackEach'
  BY DEF TypeOK, OneCallbackEach
<1>2. BootKnowsNothing' /\ StaysReady'
  BY DEF BootKnowsNothing, StaysReady
<1>3. InStep'
  BY DEF InStep, KnownAfter
<1>4. At' = At /\ At \in Nat
  BY AtStays, AtInLog
<1>5. \A cr \in CRs : candidates'[cr] + Owed(cr)' <= candidates[cr] + Owed(cr)
  BY DEF Owed, TypeOK
<1>. QED
  BY <1>1, <1>2, <1>3, <1>4, <1>5, ChargedStep

\* A write moves the log on under the process.
LEMMA WriterStep ==
  ASSUME IInv, CacheProofs!IInv', Writers
  PROVE  IInv'
<1>. USE DEF IInv
<1>1. PICK e \in CacheProofs!Event : log' = Append(log, e) /\ UNCHANGED CacheProofs!cacheVars
  <2>1. ASSUME NEW cr \in CRs, NEW obj \in Cache!Objects, Cache!Apply(cr, obj)
        PROVE  \E e \in CacheProofs!Event : log' = Append(log, e) /\ UNCHANGED CacheProofs!cacheVars
    <3>1. [type |-> IF store[cr] = Absent THEN "ADDED" ELSE "MODIFIED", cr |-> cr, obj |-> obj]
            \in CacheProofs!Event
      BY CacheActions DEF CacheProofs!Event, CacheProofs!EventType
    <3>2. CacheProofs!Apply(cr, obj)
      BY <2>1, CacheActions
    <3>. QED
      BY <3>1, <3>2, Zenon DEF CacheProofs!Apply
  <2>2. ASSUME NEW cr \in CRs, Cache!Delete(cr)
        PROVE  \E e \in CacheProofs!Event : log' = Append(log, e) /\ UNCHANGED CacheProofs!cacheVars
    <3>1. CacheProofs!Delete(cr)
      BY <2>2, CacheActions
    <3>2. [type |-> "DELETED", cr |-> cr, obj |-> store[cr]] \in CacheProofs!Event
      BY <3>1 DEF CacheProofs!Delete, CacheProofs!Event, CacheProofs!EventType,
                  CacheProofs!IInv, CacheProofs!TypeOK
    <3>. QED
      BY <3>1, <3>2, Zenon DEF CacheProofs!Delete
  <2>. QED
    BY <2>1, <2>2 DEF Writers
<1>2. /\ UNCHANGED <<index, ready, rv, pc, callbacks, known, candidates, faulty>>
      /\ log \in Seq(CacheProofs!Event) /\ Len(log) \in Nat /\ Len(log') = Len(log) + 1
  <2>1. UNCHANGED <<known, candidates, faulty>>
    BY DEF Writers, triggerVars, outside
  <2>2. log \in Seq(CacheProofs!Event)
    BY DEF CacheProofs!IInv, CacheProofs!TypeOK
  <2>. QED
    BY <1>1, <2>1, <2>2, AppendProperties DEF CacheProofs!cacheVars
<1>3. TypeOK' /\ BootKnowsNothing' /\ StaysReady' /\ OneCallbackEach'
  BY <1>2 DEF TypeOK, BootKnowsNothing, StaysReady, OneCallbackEach
<1>4. InStep'
  BY <1>2 DEF InStep, KnownAfter
<1>5. At \in 0..Len(log) /\ At' \in Nat /\ At <= At'
  <2>1. CASE pc = "boot"
    BY <1>2, <2>1, AtInLog DEF At
  <2>2. CASE pc # "boot"
    BY <1>1, <1>2, <2>2, AtInLog, CacheAssumptions, CacheProofs!ReaderWrites DEF At
  <2>. QED
    BY <2>1, <2>2
<1>6. ASSUME NEW cr \in CRs
      PROVE  candidates'[cr] + Owed(cr)' <= Cardinality(MovesIn(log', cr, At'))
  <2>1. candidates[cr] + Owed(cr) <= Cardinality(MovesIn(log, cr, At))
    BY DEF Charged
  <2>2. MovesIn(log', cr, At) = MovesIn(log, cr, At)
    BY <1>1, <1>2, <1>5, MovesAppend
  <2>3. /\ Cardinality(MovesIn(log', cr, At)) <= Cardinality(MovesIn(log', cr, At'))
        /\ Cardinality(MovesIn(log', cr, At)) \in Nat
        /\ Cardinality(MovesIn(log', cr, At')) \in Nat
    BY <1>5, MovesGrow, MovesFinite
  <2>4. candidates[cr] + Owed(cr) \in Nat /\ candidates'[cr] + Owed(cr)' = candidates[cr] + Owed(cr)
    BY <1>2 DEF Owed, TypeOK
  <2>. QED
    BY <2>1, <2>2, <2>3, <2>4
<1>. QED
  BY <1>3, <1>4, <1>6 DEF Charged

\* A new process owes nothing and has the whole log behind it.
LEMMA CrashStep ==
  ASSUME IInv, CacheProofs!IInv', Crash
  PROVE  IInv'
<1>. USE DEF IInv
<1>1. /\ UNCHANGED <<log, candidates, faulty>> /\ known' = [cr \in CRs |-> Unknown]
      /\ pc' = "boot" /\ ready' = FALSE /\ callbacks' = {}
  BY CacheActions DEF Crash, CacheProofs!Restart, outside
<1>2. /\ TypeOK' /\ BootKnowsNothing' /\ StaysReady' /\ OneCallbackEach' /\ InStep'
  BY <1>1 DEF TypeOK, BootKnowsNothing, StaysReady, OneCallbackEach, InStep
<1>3. At <= At'
  BY <1>1, AtInLog DEF At
<1>4. \A cr \in CRs : candidates'[cr] + Owed(cr)' <= candidates[cr] + Owed(cr)
  BY <1>1 DEF Owed, TypeOK
<1>. QED
  BY <1>1, <1>2, <1>3, <1>4, ChargedStep

-----------------------------------------------------------------------------
(* The invariant.                                                          *)

LEMMA InitInv == Init => IInv
<1>. SUFFICES ASSUME Init
              PROVE  IInv
  OBVIOUS
<1>1. CacheProofs!IInv
  BY CacheActions, CacheAssumptions, CacheProofs!InitInv DEF Init
<1>2. /\ pc = "boot" /\ ready = FALSE /\ callbacks = {} /\ known = [cr \in CRs |-> Unknown]
      /\ candidates = [cr \in CRs |-> 0] /\ log = <<>>
  BY DEF Init, Cache!Init, Trigger!Init
<1>3. TypeOK /\ BootKnowsNothing /\ StaysReady /\ OneCallbackEach /\ InStep
  BY <1>2 DEF TypeOK, BootKnowsNothing, StaysReady, OneCallbackEach, InStep
<1>4. At = 0
  BY <1>2 DEF At
<1>5. Charged
  <2>. SUFFICES ASSUME NEW cr \in CRs
                PROVE  candidates[cr] + Owed(cr) <= Cardinality(MovesIn(log, cr, 0))
    BY <1>4 DEF Charged
  <2>1. Cardinality(MovesIn(log, cr, 0)) \in Nat
    BY MovesFinite
  <2>. QED
    BY <1>2, <2>1 DEF Owed
<1>. QED
  BY <1>1, <1>3, <1>5 DEF IInv

LEMMA NextInv == IInv /\ [Next]_vars => IInv'
<1>. SUFFICES ASSUME IInv, [Next]_vars
              PROVE  IInv'
  OBVIOUS
<1>cache. CacheProofs!IInv'
  BY CacheStep, CacheAssumptions, CacheProofs!NextInv DEF IInv
<1>1. CASE Bootstrap \/ Relist
  BY <1>1, <1>cache, ListStep
<1>2. CASE Watch
  <2>1. UNCHANGED <<known, candidates, faulty>>
    BY <1>2 DEF Watch, triggerVars, outside
  <2>2. CASE CacheProofs!Deliver
    BY <1>cache, <2>1, <2>2, WatchDeliverStep
  <2>3. CASE CacheProofs!WatchEnds \/ CacheProofs!WatchRaises
    BY <1>cache, <2>1, <2>3, BackStep
    DEF CacheProofs!WatchEnds, CacheProofs!WatchRaises, CacheProofs!apiVars
  <2>. QED
    BY <1>2, <2>2, <2>3, CacheActions DEF Watch, Cache!Deliver, CacheProofs!Deliver
<1>3. CASE RelistFails
  <2>1. /\ UNCHANGED <<log, index, rv, callbacks, known, candidates, faulty>>
        /\ pc = "relist" /\ pc' = "watch"
        /\ ready' = (ready /\ fails' < ReadyClearAfterK)
        /\ fails' = IF fails < ReadyClearAfterK THEN fails + 1 ELSE fails
        /\ fails + 1 < ReadyClearAfterK \/ "longOutage" \in faulty
    BY <1>3, CacheActions DEF RelistFails, CacheProofs!RelistFails, CacheProofs!apiVars,
                              triggerVars, outside
  <2>2. fails \in Nat /\ ReadyClearAfterK \in Nat /\ ready \in BOOLEAN
    BY CacheAssumptions DEF IInv, CacheProofs!IInv, CacheProofs!TypeOK,
                            CacheProofs!BoundAssumption
  <2>3. "longOutage" \notin faulty => ready' = ready
    BY <2>1, <2>2
  <2>. QED
    BY <1>cache, <2>1, <2>3, BackStep
<1>4. CASE Callbacks
  BY <1>4, <1>cache, CallbackStep
<1>5. CASE Seed
  BY <1>5, <1>cache, SeedStep
<1>6. CASE Writers
  BY <1>6, <1>cache, WriterStep
<1>7. CASE Network
  <2>1. UNCHANGED <<log, index, ready, rv, pc, callbacks, known, candidates, faulty>>
    BY <1>7, CacheActions DEF Network, CacheProofs!Outage, CacheProofs!Recover,
                              CacheProofs!cacheVars, triggerVars, outside
  <2>. QED
    BY <1>cache, <2>1, BackStep
<1>8. CASE Crash
  BY <1>8, <1>cache, CrashStep
<1>9. CASE Scheduling \/ TickThread \/ Cluster \/ UNCHANGED vars
  BY <1>9, <1>cache, RestStep, BackStep DEF cacheVars
<1>. QED
  BY <1>1, <1>2, <1>3, <1>4, <1>5, <1>6, <1>7, <1>8, <1>9 DEF Next, WatchThread

THEOREM Invariance == Spec => []IInv
<1>. QED
  BY InitInv, NextInv, PTL DEF Spec

\* In a behaviour without an outage as long as ReadyClearAfterK failed re-lists,
\* whatever else goes wrong, the trigger's last-known state is the cache's index
\* whenever the watch runs between callbacks.
THEOREM KnownStaysIndex == Spec => []("longOutage" \notin faulty => KnownIsIndex)
<1>1. IInv => ("longOutage" \notin faulty => KnownIsIndex)
  BY DEF IInv, InStep, KnownIsIndex
<1>. QED
  BY <1>1, Invariance, PTL

\* No CR is taken for changed more often than the apiserver's log moved its
\* resources, whatever is listed, delivered or replayed, across outages of any
\* length and crashes.
THEOREM ReplaysStayHarmless == Spec => []ReplaysRestartNothing
<1>1. IInv => ReplaysRestartNothing
  <2>. SUFFICES ASSUME IInv, NEW cr \in CRs
                PROVE  candidates[cr] <= Cardinality(Moves(cr))
    BY DEF ReplaysRestartNothing
  <2>1. At \in Nat /\ Len(log) \in Nat /\ At <= Len(log)
    BY AtInLog DEF IInv
  <2>2. Moves(cr) = MovesIn(log, cr, Len(log))
    <3>1. \A i \in 1..Len(log) : Cache!Revision(cr, i - 1) = CacheProofs!RevisionIn(log, cr, i - 1)
      BY DEF Cache!Revision, CacheProofs!RevisionIn, Cache!WritesTo, CacheProofs!Writes,
             CacheProofs!Left, Cache!Parse, CacheProofs!Parse, Cache!Latest, CacheProofs!Latest
    <3>. QED
      BY <3>1 DEF Moves, MovesIn
  <2>3. /\ candidates[cr] + Owed(cr) <= Cardinality(MovesIn(log, cr, At))
        /\ candidates[cr] \in Nat /\ Owed(cr) \in Nat
    BY DEF IInv, Charged, TypeOK, Owed
  <2>4. /\ Cardinality(MovesIn(log, cr, At)) <= Cardinality(MovesIn(log, cr, Len(log)))
        /\ Cardinality(MovesIn(log, cr, At)) \in Nat
        /\ Cardinality(MovesIn(log, cr, Len(log))) \in Nat
    BY <2>1, MovesGrow, MovesFinite
  <2>. QED
    BY <2>2, <2>3, <2>4
<1>. QED
  BY <1>1, Invariance, PTL
=============================================================================
