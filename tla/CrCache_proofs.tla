--------------------------- MODULE CrCache_proofs ---------------------------
(***************************************************************************)
(* Proofs about CrCache, for every set of CRs and contents and every       *)
(* bound.  IInv strengthens the invariants TLC checks:                     *)
(*   StoreIsLast       the store is what the whole write log leaves;       *)
(*   AddedAfterAbsent  an ADDED write follows the absence of its CR;       *)
(*   Snapshot          the index is the view at some point n the stream    *)
(*                     has not passed, and whatever is delivered again     *)
(*                     between rv and n is malformed: a stream resumed     *)
(*                     from a lagging rv repeats only events the index     *)
(*                     already reflects;                                   *)
(*   Announced         what is still to be fired brings the consumer in    *)
(*                     step with the index.                                *)
(***************************************************************************)
EXTENDS CrCache, SequenceTheorems, WellFoundedInduction, TLAPS

\* Revision over an explicit log, so that its lemmas serve log and log'.
Writes(l, cr, n) == {i \in 1..n : l[i].cr = cr}
Left(e) == IF e.type = "DELETED" THEN Absent ELSE Parse(e.obj)
RevisionIn(l, cr, n) ==
  IF Writes(l, cr, n) = {} THEN Absent ELSE Left(l[Latest(Writes(l, cr, n))])

StoreIsLast == \A cr \in CRs : RevisionIn(log, cr, Len(log)) = Parse(store[cr])

AddedAfterAbsent ==
  \A i \in 1..Len(log) : log[i].type = "ADDED" => RevisionIn(log, log[i].cr, i - 1) = Absent

Snapshot ==
  \E n \in pos..Len(log) :
    /\ rv <= pos
    /\ \A cr \in CRs : index[cr] = RevisionIn(log, cr, n)
    /\ \A i \in (rv + 1)..n : log[i].obj = Malformed

InStep(t) == \A cr \in CRs : index[cr] # Absent => t[cr] = index[cr]

\* What the consumer knows once it has been handed c.
Told(c) == [told EXCEPT ![c.cr] = IF c.type = "DELETED" THEN Absent ELSE c.ro]

Announced ==
  /\ pc \in {"boot", "watch", "relist"} => callbacks = {}
  /\ pc \in {"watch", "relist"} => InStep(told)
  /\ pc = "fire" => \E c \in Callback : callbacks = {c} /\ InStep(Told(c))

IInv == TypeOK /\ StoreIsLast /\ AddedAfterAbsent /\ Snapshot /\ Announced

-----------------------------------------------------------------------------
(* The revision of a CR in a log of writes.                                *)

\* A non-empty set of resourceVersions has a latest one.
LEMMA LatestIsMax ==
  ASSUME NEW n \in Nat, NEW S \in SUBSET (1..n), S # {}
  PROVE  Latest(S) \in S /\ \A j \in S : j <= Latest(S)
<1>. DEFINE gaps == {n - i : i \in S}
<1>1. gaps \subseteq Nat /\ gaps # {}
  <2>1. \A i \in S : n - i \in Nat
    OBVIOUS
  <2>2. PICK i \in S : TRUE
    OBVIOUS
  <2>3. n - i \in gaps
    OBVIOUS
  <2>. QED
    BY <2>1, <2>3
<1>2. \E x \in gaps : \A y \in gaps : ~(<<y, x>> \in OpToRel(<, Nat))
  <2>. HIDE DEF gaps
  <2>. QED
    BY <1>1, NatLessThanWellFounded, WFMin, Zenon
<1>3. PICK x \in gaps : \A y \in gaps : ~(y < x)
  <2>. HIDE DEF gaps
  <2>. QED
    BY <1>1, <1>2 DEF OpToRel
<1>4. PICK i \in S : x = n - i
  OBVIOUS
<1>5. \A j \in S : j <= i
  <2>. TAKE j \in S
  <2>1. n - j \in gaps
    OBVIOUS
  <2>2. ~(n - j < n - i)
    BY <1>3, <1>4, <2>1
  <2>3. i \in Nat /\ j \in Nat
    OBVIOUS
  <2>. QED
    BY <2>2, <2>3
<1>6. Latest(S) = CHOOSE k \in S : \A j \in S : j <= k
  BY DEF Latest
<1>. HIDE DEF gaps
<1>. QED
  BY <1>5, <1>6, Zenon

\* The last write to a CR that has been written.
LEMMA LastWrite ==
  ASSUME NEW l, NEW cr, NEW n \in Nat, Writes(l, cr, n) # {}
  PROVE  /\ Latest(Writes(l, cr, n)) \in Writes(l, cr, n)
         /\ Latest(Writes(l, cr, n)) \in 1..n
         /\ \A j \in Writes(l, cr, n) : j <= Latest(Writes(l, cr, n))
<1>1. Writes(l, cr, n) \in SUBSET (1..n)
  BY DEF Writes
<1>2. /\ Latest(Writes(l, cr, n)) \in Writes(l, cr, n)
      /\ \A j \in Writes(l, cr, n) : j <= Latest(Writes(l, cr, n))
  BY <1>1, LatestIsMax, Zenon
<1>. QED
  BY <1>1, <1>2

\* The operators of CrCache are those of this module, now and in the next state.
LEMMA RevisionOfLog ==
  ASSUME NEW cr \in CRs, NEW n \in Nat
  PROVE  /\ Revision(cr, n) = RevisionIn(log, cr, n)
         /\ Revision(cr, n)' = RevisionIn(log', cr, n)
BY DEF Revision, RevisionIn, WritesTo, Writes, Left

\* An appended write leaves the revisions before it alone.
LEMMA RevisionAppend ==
  ASSUME NEW l \in Seq(Event), NEW e \in Event, NEW cr, NEW n \in 0..Len(l)
  PROVE  RevisionIn(Append(l, e), cr, n) = RevisionIn(l, cr, n)
<1>1. \A i \in 1..n : Append(l, e)[i] = l[i]
  OBVIOUS
<1>2. Writes(Append(l, e), cr, n) = Writes(l, cr, n)
  BY <1>1 DEF Writes
<1>3. Writes(l, cr, n) # {} => Latest(Writes(l, cr, n)) \in 1..n
  BY LastWrite
<1>. QED
  BY <1>1, <1>2, <1>3 DEF RevisionIn

\* A write decides the revision of its own CR and of no other.
LEMMA RevisionStep ==
  ASSUME NEW l \in Seq(Event), NEW cr, NEW n \in Nat, n + 1 <= Len(l)
  PROVE  RevisionIn(l, cr, n + 1) =
           IF l[n + 1].cr = cr THEN Left(l[n + 1]) ELSE RevisionIn(l, cr, n)
<1>1. CASE l[n + 1].cr = cr
  <2>1. n + 1 \in Writes(l, cr, n + 1)
    BY <1>1 DEF Writes
  <2>2. /\ Latest(Writes(l, cr, n + 1)) \in 1..(n + 1)
        /\ n + 1 <= Latest(Writes(l, cr, n + 1))
    BY <2>1, LastWrite, n + 1 \in Nat
  <2>3. Latest(Writes(l, cr, n + 1)) = n + 1
    BY <2>2
  <2>. QED
    BY <1>1, <2>1, <2>3 DEF RevisionIn
<1>2. CASE l[n + 1].cr # cr
  <2>1. Writes(l, cr, n + 1) = Writes(l, cr, n)
    BY <1>2 DEF Writes
  <2>. QED
    BY <1>2, <2>1 DEF RevisionIn
<1>. QED
  BY <1>1, <1>2

\* A CR whose recent writes are all malformed has no revision.
LEMMA RevisionMalformed ==
  ASSUME NEW l \in Seq(Event), NEW cr, NEW n \in 0..Len(l), NEW r \in 0..n,
         \A i \in (r + 1)..n : l[i].obj = Malformed,
         NEW k \in (r + 1)..n, l[k].cr = cr
  PROVE  RevisionIn(l, cr, n) = Absent
<1>1. k \in Writes(l, cr, n)
  BY DEF Writes
<1>2. /\ Latest(Writes(l, cr, n)) \in 1..n
      /\ k <= Latest(Writes(l, cr, n))
  BY <1>1, LastWrite, n \in Nat
<1>3. l[Latest(Writes(l, cr, n))].obj = Malformed
  BY <1>2
<1>. QED
  BY <1>1, <1>3, ContentAssumption DEF RevisionIn, Left, Parse

-----------------------------------------------------------------------------
(* Type correctness.                                                       *)

LEMMA InitType == Init => TypeOK
<1>. SUFFICES ASSUME Init
              PROVE  TypeOK
  OBVIOUS
<1>1. NothingCached \in [CRs -> Contents]
  BY DEF NothingCached, Contents
<1>2. store \in [CRs -> Objects \cup {Absent}]
  BY DEF Init
<1>3. log \in Seq(Event) /\ Len(log) = 0
  BY DEF Init
<1>4. faults \in 0..MaxFaults /\ fails \in 0..ReadyClearAfterK
  BY BoundAssumption DEF Init
<1>5. rv \in 0..Len(log) /\ pos \in 0..Len(log)
  BY <1>3 DEF Init
<1>6. index \in [CRs -> Contents] /\ told \in [CRs -> Contents] /\ callbacks \in SUBSET Callback
  BY <1>1 DEF Init
<1>7. up \in BOOLEAN /\ ready \in BOOLEAN /\ pc \in {"boot", "watch", "fire", "announce", "relist"}
  BY DEF Init
<1>. QED
  BY <1>2, <1>3, <1>4, <1>5, <1>6, <1>7 DEF TypeOK

\* One conjunct per action; the log grows only by Apply and Delete.
LEMMA NextType == TypeOK /\ [Next]_vars => TypeOK'
<1>. SUFFICES ASSUME TypeOK, [Next]_vars
              PROVE  TypeOK'
  OBVIOUS
<1>. USE DEF TypeOK
<1>log. Len(log) \in Nat /\ rv \in Nat /\ pos \in Nat
  OBVIOUS
<1>1. ASSUME NEW cr \in CRs, NEW obj \in Objects, Apply(cr, obj)
      PROVE  TypeOK'
  <2>1. [type |-> IF store[cr] = Absent THEN "ADDED" ELSE "MODIFIED",
         cr |-> cr, obj |-> obj] \in Event
    BY DEF Event, EventType
  <2>2. log' \in Seq(Event) /\ Len(log') = Len(log) + 1
    BY <1>1, <2>1, AppendProperties DEF Apply
  <2>3. rv' \in 0..Len(log') /\ pos' \in 0..Len(log')
    BY <1>1, <1>log, <2>2 DEF Apply, cacheVars
  <2>. QED
    BY <1>1, <2>2, <2>3 DEF Apply, cacheVars
<1>2. ASSUME NEW cr \in CRs, Delete(cr)
      PROVE  TypeOK'
  <2>1. [type |-> "DELETED", cr |-> cr, obj |-> store[cr]] \in Event
    BY <1>2 DEF Delete, Event, EventType
  <2>2. log' \in Seq(Event) /\ Len(log') = Len(log) + 1
    BY <1>2, <2>1, AppendProperties DEF Delete
  <2>3. rv' \in 0..Len(log') /\ pos' \in 0..Len(log')
    BY <1>2, <1>log, <2>2 DEF Delete, cacheVars
  <2>. QED
    BY <1>2, <2>2, <2>3 DEF Delete, cacheVars
<1>3. CASE Outage
  <2>1. faults' \in 0..MaxFaults
    BY <1>3, BoundAssumption DEF Outage
  <2>. QED
    BY <1>3, <2>1 DEF Outage, cacheVars
<1>4. CASE Recover
  BY <1>4 DEF Recover, cacheVars
<1>5. CASE InitialList
  <2>. DEFINE listed == [cr \in CRs |-> Parse(store[cr])]
  <2>1. listed \in [CRs -> Contents]
    BY ContentAssumption DEF Parse, Contents
  <2>2. \A cr \in CRs : /\ (listed[cr] # Absent => listed[cr] \in Overrides)
                         /\ (index[cr] # Absent => index[cr] \in Overrides)
    BY <2>1 DEF Contents
  <2>. HIDE DEF listed
  <2>3. Synthetic(index, listed) \subseteq Callback
    BY <2>1, <2>2 DEF Synthetic, Callback, EventType, Contents
  <2>. QED
    BY <1>5, <1>log, <2>1, <2>3, BoundAssumption DEF InitialList, listed, apiVars
<1>6. CASE RelistFails
  BY <1>6, <1>log, BoundAssumption DEF RelistFails, apiVars
<1>7. CASE DeliverParsed
  <2>1. log[pos + 1] \in Event /\ pos + 1 \in 0..Len(log)
    BY <1>7, <1>log, ElementOfSeq DEF DeliverParsed
  <2>2. index' \in [CRs -> Contents] /\ callbacks' \subseteq Callback
    BY <1>7, <2>1 DEF DeliverParsed, Event, Contents, Callback
  <2>. QED
    BY <1>7, <2>1, <2>2 DEF DeliverParsed, apiVars
<1>8. CASE DeliverMalformed
  <2>1. log[pos + 1] \in Event /\ pos + 1 \in 0..Len(log)
    BY <1>8, <1>log, ElementOfSeq DEF DeliverMalformed
  <2>2. index' \in [CRs -> Contents] /\ callbacks' \subseteq Callback
    BY <1>8, <2>1 DEF DeliverMalformed, Event, EventType, Contents, Callback
  <2>3. pc' \in {"fire", "watch"}
    BY <1>8 DEF DeliverMalformed
  <2>. QED
    BY <1>8, <2>1, <2>2, <2>3 DEF DeliverMalformed, apiVars
<1>9. ASSUME NEW c \in callbacks, FireCallback(c)
      PROVE  TypeOK'
  <2>1. told' \in [CRs -> Contents] /\ callbacks' \subseteq Callback
    BY <1>9 DEF FireCallback, Callback, Contents
  <2>. QED
    BY <1>9, <2>1 DEF FireCallback, apiVars
<1>10. CASE Seed
  BY <1>10 DEF Seed, apiVars
<1>11. CASE WatchEnds
  BY <1>11, BoundAssumption DEF WatchEnds, apiVars
<1>12. CASE WatchRaises
  BY <1>12 DEF WatchRaises, apiVars
<1>13. CASE Restart
  <2>1. faults' \in 0..MaxFaults /\ 0 \in 0..ReadyClearAfterK /\ 0 \in 0..Len(log)
    BY <1>13, <1>log, BoundAssumption DEF Restart
  <2>2. NothingCached \in [CRs -> Contents]
    BY DEF NothingCached, Contents
  <2>. QED
    BY <1>13, <2>1, <2>2 DEF Restart
<1>14. CASE UNCHANGED vars
  BY <1>14 DEF vars, apiVars, cacheVars
<1>. QED
  BY <1>1, <1>2, <1>3, <1>4, <1>5, <1>6, <1>7, <1>8, <1>9, <1>10, <1>11, <1>12, <1>13, <1>14
  DEF Next, WatchThread, Environment, Deliver, Fire

\* Every state of the cache is well typed: in particular no event is recorded
\* with an override _parse rejects, and rv and the stream stay inside the log.
THEOREM TypeCorrect == Spec => []TypeOK
<1>1. Init => TypeOK
  BY InitType
<1>2. TypeOK /\ [Next]_vars => TypeOK'
  BY NextType
<1>. QED
  BY <1>1, <1>2, PTL DEF Spec

-----------------------------------------------------------------------------
(* The inductive invariant.                                                *)

LEMMA InitInv == Init => IInv
<1>. SUFFICES ASSUME Init
              PROVE  IInv
  OBVIOUS
<1>1. TypeOK
  BY InitType
<1>2. Len(log) = 0 /\ \A cr : Writes(log, cr, 0) = {}
  BY DEF Init, Writes
<1>3. StoreIsLast
  BY <1>2, ContentAssumption DEF Init, StoreIsLast, RevisionIn, Parse
<1>4. AddedAfterAbsent
  BY <1>2 DEF AddedAfterAbsent
<1>5. Snapshot
  <2>1. \A cr \in CRs : index[cr] = RevisionIn(log, cr, 0)
    BY <1>2 DEF Init, NothingCached, RevisionIn
  <2>. QED
    BY <1>2, <2>1 DEF Init, Snapshot
<1>6. Announced
  BY DEF Init, Announced
<1>. QED
  BY <1>1, <1>3, <1>4, <1>5, <1>6 DEF IInv

\* A write the apiserver accepts keeps log, store and the cache's place in the
\* log consistent; the cache itself does not move.
LEMMA WriteStep ==
  ASSUME IInv, NEW e \in Event, NEW content \in Objects \cup {Absent},
         log' = Append(log, e),
         store' = [store EXCEPT ![e.cr] = content],
         Left(e) = Parse(content),
         e.type = "ADDED" => store[e.cr] = Absent,
         UNCHANGED cacheVars
  PROVE  StoreIsLast' /\ AddedAfterAbsent' /\ Snapshot' /\ Announced'
<1>. USE DEF IInv
<1>0. log \in Seq(Event) /\ store \in [CRs -> Objects \cup {Absent}]
  BY DEF TypeOK
<1>1. /\ log' \in Seq(Event)
      /\ Len(log') = Len(log) + 1
      /\ Len(log) \in Nat
      /\ log'[Len(log) + 1] = e
      /\ \A i \in 1..Len(log) : log'[i] = log[i]
  BY <1>0, AppendProperties
<1>2. \A n \in 0..Len(log) : \A cr : RevisionIn(log', cr, n) = RevisionIn(log, cr, n)
  BY <1>0, RevisionAppend
<1>3. StoreIsLast'
  <2>. SUFFICES ASSUME NEW cr \in CRs
                PROVE  RevisionIn(log', cr, Len(log) + 1) = Parse(store'[cr])
    BY <1>1 DEF StoreIsLast
  <2>1. RevisionIn(log', cr, Len(log) + 1) =
          IF e.cr = cr THEN Left(e) ELSE RevisionIn(log', cr, Len(log))
    <3>1. log' \in Seq(Event) /\ Len(log) \in Nat /\ Len(log) + 1 <= Len(log')
      BY <1>1
    <3>2. RevisionIn(log', cr, Len(log) + 1) =
            IF log'[Len(log) + 1].cr = cr THEN Left(log'[Len(log) + 1])
                                          ELSE RevisionIn(log', cr, Len(log))
      BY ONLY <3>1, RevisionStep
    <3>. QED
      BY <1>1, <3>2
  <2>2. RevisionIn(log', cr, Len(log)) = Parse(store[cr])
    BY <1>1, <1>2 DEF StoreIsLast
  <2>. QED
    BY <1>0, <2>1, <2>2
<1>4. AddedAfterAbsent'
  <2>. SUFFICES ASSUME NEW i \in 1..(Len(log) + 1), log'[i].type = "ADDED"
                PROVE  RevisionIn(log', log'[i].cr, i - 1) = Absent
    BY <1>1 DEF AddedAfterAbsent
  <2>1. i - 1 \in 0..Len(log)
    BY <1>1
  <2>2. RevisionIn(log', log'[i].cr, i - 1) = RevisionIn(log, log'[i].cr, i - 1)
    BY <1>2, <2>1
  <2>3. CASE i \in 1..Len(log)
    BY <1>1, <2>2, <2>3 DEF AddedAfterAbsent
  <2>4. CASE i = Len(log) + 1
    <3>1. e.cr \in CRs /\ store[e.cr] = Absent
      BY <1>1, <2>4 DEF Event
    <3>2. RevisionIn(log, e.cr, Len(log)) = Absent
      BY <3>1, ContentAssumption DEF StoreIsLast, Parse
    <3>. QED
      BY <1>1, <2>2, <2>4, <3>2
  <2>. QED
    BY <1>1, <2>3, <2>4
<1>5. Snapshot'
  <2>1. PICK n \in pos..Len(log) :
          /\ rv <= pos
          /\ \A cr \in CRs : index[cr] = RevisionIn(log, cr, n)
          /\ \A i \in (rv + 1)..n : log[i].obj = Malformed
    BY DEF Snapshot
  <2>2. pos \in Nat /\ rv \in Nat /\ n \in 0..Len(log) /\ n \in pos..Len(log')
    BY <1>1 DEF TypeOK
  <2>3. \A cr \in CRs : index[cr] = RevisionIn(log', cr, n)
    BY <1>2, <2>1, <2>2
  <2>4. \A i \in (rv + 1)..n : log'[i].obj = Malformed
    BY <1>1, <2>1, <2>2
  <2>. QED
    BY <2>1, <2>2, <2>3, <2>4 DEF Snapshot, cacheVars
<1>6. Announced'
  BY DEF Announced, InStep, Told, cacheVars
<1>. QED
  BY <1>3, <1>4, <1>5, <1>6

\* Where only the cache moves, the apiserver's part of the invariant stands.
LEMMA ApiUnchanged ==
  ASSUME StoreIsLast, AddedAfterAbsent, UNCHANGED <<store, log>>
  PROVE  StoreIsLast' /\ AddedAfterAbsent'
BY DEF StoreIsLast, AddedAfterAbsent

\* A delivery moves the index from the view at n to the view one write later,
\* or repeats a malformed event the index already reflects.
LEMMA DeliverStep ==
  ASSUME IInv, Deliver
  PROVE  Snapshot' /\ Announced'
<1>. USE DEF IInv
<1>1. /\ pc = "watch"
      /\ pos < Len(log)
      /\ pos' = pos + 1
      /\ UNCHANGED <<log, told>>
  BY DEF Deliver, DeliverParsed, DeliverMalformed, apiVars
<1>2. /\ log \in Seq(Event)
      /\ Len(log) \in Nat /\ pos \in Nat /\ rv \in Nat
      /\ pos + 1 \in 1..Len(log)
      /\ index \in [CRs -> Contents]
      /\ told \in [CRs -> Contents]
  BY <1>1 DEF TypeOK
<1>3. log[pos + 1] \in Event
  BY <1>2, ElementOfSeq
<1>. DEFINE e == log[pos + 1]
<1>4. PICK n \in pos..Len(log) :
        /\ rv <= pos
        /\ \A cr \in CRs : index[cr] = RevisionIn(log, cr, n)
        /\ \A i \in (rv + 1)..n : log[i].obj = Malformed
  BY <1>1 DEF Snapshot
<1>5. callbacks = {} /\ InStep(told)
  BY <1>1 DEF Announced
<1>6. ASSUME n = pos
      PROVE  /\ n + 1 \in (pos + 1)..Len(log)
             /\ \A cr \in CRs : RevisionIn(log, cr, n + 1) =
                  IF cr = e.cr THEN Left(e) ELSE index[cr]
  <2>1. \A cr : RevisionIn(log, cr, n + 1) =
          IF log[n + 1].cr = cr THEN Left(log[n + 1]) ELSE RevisionIn(log, cr, n)
    <3>1. log \in Seq(Event) /\ n \in Nat /\ n + 1 <= Len(log)
      BY <1>2, <1>6
    <3>. QED
      BY ONLY <3>1, RevisionStep
  <2>. QED
    BY <1>2, <1>4, <1>6, <2>1
<1>7. CASE DeliverParsed
  <2>1. e.obj \in Overrides /\ e.obj # Malformed /\ Parse(e.obj) = e.obj /\ e.obj # Absent
    BY <1>7, ContentAssumption DEF DeliverParsed, Parse
  <2>2. n = pos
    BY <1>2, <1>4, <2>1
  <2>3. index' = [index EXCEPT ![e.cr] = Left(e)]
    BY <1>7, <2>1 DEF DeliverParsed, Left
  <2>4. \A cr \in CRs : index'[cr] = RevisionIn(log, cr, n + 1)
    BY <1>2, <1>6, <2>2, <2>3
  <2>5. rv' = pos + 1
    BY <1>7 DEF DeliverParsed
  <2>6. Snapshot'
    BY <1>1, <1>2, <1>6, <2>2, <2>4, <2>5 DEF Snapshot
  <2>7. PICK c \in Callback :
          c = [type |-> e.type, cr |-> e.cr, ro |-> e.obj, old |-> index[e.cr]]
    BY <1>2, <1>3, <2>1 DEF Callback, Event, Contents
  <2>8. InStep(Told(c))'
    BY <1>1, <1>2, <1>3, <1>5, <2>1, <2>3, <2>7 DEF InStep, Told, Left, Event
  <2>9. callbacks' = {c} /\ pc' = "fire"
    BY <1>7, <2>7 DEF DeliverParsed
  <2>10. Announced'
    BY <2>7, <2>8, <2>9 DEF Announced
  <2>. QED
    BY <2>6, <2>10
<1>8. CASE DeliverMalformed
  <2>1. e.obj = Malformed /\ Left(e) = Absent /\ rv' = rv
    BY <1>8, ContentAssumption DEF DeliverMalformed, Left, Parse
  <2>2. (n = pos /\ e.type = "ADDED") => index[e.cr] = Absent
    BY <1>2, <1>3, <1>4 DEF AddedAfterAbsent, Event
  <2>3. n # pos => index[e.cr] = Absent
    <3>. SUFFICES ASSUME n # pos
                  PROVE  RevisionIn(log, e.cr, n) = Absent
      BY <1>3, <1>4 DEF Event
    <3>1. /\ log \in Seq(Event) /\ n \in 0..Len(log) /\ rv \in 0..n
          /\ \A i \in (rv + 1)..n : log[i].obj = Malformed
          /\ pos + 1 \in (rv + 1)..n
      BY <1>2, <1>4
    <3>. QED
      BY ONLY <3>1, RevisionMalformed
  <2>4. CASE e.type # "ADDED" /\ index[e.cr] # Absent
    <3>1. n = pos
      BY <2>3, <2>4
    <3>2. index' = [index EXCEPT ![e.cr] = Left(e)]
      BY <1>8, <2>1, <2>4 DEF DeliverMalformed
    <3>3. \A cr \in CRs : index'[cr] = RevisionIn(log, cr, n + 1)
      BY <1>2, <1>6, <3>1, <3>2
    <3>4. \A i \in (rv' + 1)..(n + 1) : log[i].obj = Malformed
      BY <1>2, <1>4, <2>1, <3>1
    <3>5. Snapshot'
      BY <1>1, <1>2, <1>4, <1>6, <2>1, <3>1, <3>3, <3>4 DEF Snapshot
    <3>6. PICK c \in Callback : c = [type |-> "DELETED", cr |-> e.cr,
                                     ro |-> index[e.cr], old |-> index[e.cr]]
      BY <1>2, <1>3, <2>4 DEF Callback, Event, EventType, Contents
    <3>7. InStep(Told(c))'
      BY <1>1, <1>2, <1>3, <1>5, <2>1, <3>2, <3>6 DEF InStep, Told, Event
    <3>8. callbacks' = {c} /\ pc' = "fire"
      BY <1>8, <2>4, <3>6 DEF DeliverMalformed
    <3>9. Announced'
      BY <3>6, <3>7, <3>8 DEF Announced
    <3>. QED
      BY <3>5, <3>9
  <2>5. CASE ~(e.type # "ADDED" /\ index[e.cr] # Absent)
    <3>1. index[e.cr] = Absent
      BY <2>2, <2>3, <2>5
    <3>2. UNCHANGED <<index, callbacks, pc>>
      BY <1>8, <2>5 DEF DeliverMalformed
    <3>3. Announced'
      BY <1>1, <1>5, <3>2 DEF Announced, InStep
    <3>4. CASE n = pos
      <4>1. \A cr \in CRs : index[cr] = RevisionIn(log, cr, n + 1)
        BY <1>6, <2>1, <3>1, <3>4
      <4>2. \A i \in (rv + 1)..(n + 1) : log[i].obj = Malformed
        BY <1>2, <1>4, <2>1, <3>4
      <4>. QED
        BY <1>1, <1>2, <1>4, <1>6, <2>1, <3>2, <3>3, <3>4, <4>1, <4>2 DEF Snapshot
    <3>5. CASE n # pos
      <4>1. n \in (pos + 1)..Len(log)
        BY <1>2, <1>4, <3>5
      <4>. QED
        BY <1>1, <1>2, <1>4, <2>1, <3>2, <3>3, <4>1 DEF Snapshot
    <3>. QED
      BY <3>4, <3>5
  <2>. QED
    BY <2>4, <2>5
<1>. QED
  BY <1>7, <1>8 DEF Deliver

\* A list puts the index at the view of the whole log.
LEMMA ListStep ==
  ASSUME IInv, InitialList
  PROVE  Snapshot' /\ Announced'
<1>. USE DEF IInv
<1>1. /\ pc' = "announce"
      /\ rv' = Len(log) /\ pos' = Len(log)
      /\ UNCHANGED log
      /\ \A cr \in CRs : index'[cr] = Parse(store[cr])
  BY DEF InitialList, apiVars
<1>2. Len(log) \in Nat
  BY DEF TypeOK
<1>3. \A cr \in CRs : index'[cr] = RevisionIn(log, cr, Len(log))
  BY <1>1 DEF StoreIsLast
<1>4. Snapshot'
  BY <1>1, <1>2, <1>3 DEF Snapshot
<1>5. Announced'
  BY <1>1 DEF Announced
<1>. QED
  BY <1>4, <1>5

\* A step that neither moves the index nor brings the log position forward
\* leaves it a snapshot.
LEMMA SnapshotKept ==
  ASSUME IInv, UNCHANGED <<log, index, rv>>, pos' \in {pos, rv}
  PROVE  Snapshot'
<1>1. /\ Len(log) \in Nat /\ pos \in 0..Len(log) /\ rv \in 0..Len(log)
  BY DEF IInv, TypeOK
<1>2. PICK n \in pos..Len(log) :
        /\ rv <= pos
        /\ \A cr \in CRs : index[cr] = RevisionIn(log, cr, n)
        /\ \A i \in (rv + 1)..n : log[i].obj = Malformed
  BY DEF IInv, Snapshot
<1>3. n \in pos'..Len(log) /\ rv <= pos'
  BY <1>1, <1>2
<1>. QED
  BY <1>2, <1>3 DEF Snapshot

\* Handing the consumer a callback leaves what is still to be handed over right.
LEMMA FireStep ==
  ASSUME IInv, NEW c \in callbacks, FireCallback(c)
  PROVE  Announced'
<1>1. CASE pc = "fire"
  <2>1. callbacks = {c} /\ InStep(Told(c))
    BY <1>1 DEF IInv, Announced
  <2>2. callbacks' = {} /\ told' = Told(c) /\ pc' = "watch" /\ UNCHANGED index
    BY <1>1, <2>1 DEF FireCallback, Told
  <2>. QED
    BY <2>1, <2>2 DEF Announced, InStep
<1>2. CASE pc = "announce"
  BY <1>2 DEF FireCallback, Announced
<1>. QED
  BY <1>1, <1>2 DEF FireCallback

LEMMA NextInv == IInv /\ [Next]_vars => IInv'
<1>. SUFFICES ASSUME IInv, [Next]_vars
              PROVE  IInv'
  OBVIOUS
<1>. USE DEF IInv
<1>type. TypeOK'
  BY NextType
<1>1. ASSUME NEW cr \in CRs, NEW obj \in Objects, Apply(cr, obj)
      PROVE  IInv'
  <2>0. [type |-> IF store[cr] = Absent THEN "ADDED" ELSE "MODIFIED",
         cr |-> cr, obj |-> obj] \in Event
    BY DEF Event, EventType
  <2>1. PICK e \in Event : e = [type |-> IF store[cr] = Absent THEN "ADDED" ELSE "MODIFIED",
                                cr |-> cr, obj |-> obj]
    BY <2>0, Zenon
  <2>2. /\ log' = Append(log, e) /\ store' = [store EXCEPT ![e.cr] = obj]
        /\ Left(e) = Parse(obj)
        /\ e.type = "ADDED" => store[e.cr] = Absent
        /\ UNCHANGED cacheVars
    BY <1>1, <2>1 DEF Apply, Left
  <2>. QED
    BY <1>type, <2>2, WriteStep
<1>2. ASSUME NEW cr \in CRs, Delete(cr)
      PROVE  IInv'
  <2>1. PICK e \in Event : e = [type |-> "DELETED", cr |-> cr, obj |-> store[cr]]
    BY <1>2 DEF Delete, Event, EventType, TypeOK
  <2>2. /\ log' = Append(log, e) /\ store' = [store EXCEPT ![e.cr] = Absent]
        /\ Left(e) = Parse(Absent)
        /\ e.type # "ADDED"
        /\ UNCHANGED cacheVars
    BY <1>2, <2>1, ContentAssumption DEF Delete, Left, Parse
  <2>. QED
    BY <1>type, <2>2, WriteStep
<1>3. CASE Outage \/ Recover \/ UNCHANGED vars
  <2>1. UNCHANGED <<store, log, cacheVars>>
    BY <1>3 DEF Outage, Recover, vars, apiVars
  <2>2. Snapshot' /\ Announced'
    BY <2>1 DEF Snapshot, Announced, InStep, Told, cacheVars
  <2>. QED
    BY <1>type, <2>1, <2>2, ApiUnchanged
<1>4. CASE InitialList
  <2>1. UNCHANGED <<store, log>>
    BY <1>4 DEF InitialList, apiVars
  <2>. QED
    BY <1>4, <1>type, <2>1, ListStep, ApiUnchanged
<1>5. CASE Deliver
  <2>1. UNCHANGED <<store, log>>
    BY <1>5 DEF Deliver, DeliverParsed, DeliverMalformed, apiVars
  <2>. QED
    BY <1>5, <1>type, <2>1, DeliverStep, ApiUnchanged
<1>6. CASE RelistFails \/ WatchEnds \/ WatchRaises
  <2>1. /\ UNCHANGED <<store, log, index, rv, callbacks, told>>
        /\ pos' \in {pos, rv}
        /\ pc \in {"watch", "relist"} /\ pc' \in {"watch", "relist"}
    BY <1>6 DEF RelistFails, WatchEnds, WatchRaises, apiVars
  <2>2. Announced'
    BY <2>1 DEF Announced, InStep
  <2>. QED
    BY <1>type, <2>1, <2>2, SnapshotKept, ApiUnchanged
<1>7. ASSUME NEW c \in callbacks, FireCallback(c)
      PROVE  IInv'
  <2>1. UNCHANGED <<store, log, index, rv, pos>>
    BY <1>7 DEF FireCallback, apiVars
  <2>. QED
    BY <1>7, <1>type, <2>1, FireStep, SnapshotKept, ApiUnchanged
<1>8. CASE Seed
  <2>1. /\ UNCHANGED <<store, log, index, rv, pos>>
        /\ pc' = "watch" /\ callbacks' = {}
        /\ \A cr \in CRs : index[cr] # Absent => told'[cr] = index[cr]
    BY <1>8 DEF Seed, apiVars
  <2>2. Announced'
    BY <2>1 DEF Announced, InStep
  <2>. QED
    BY <1>type, <2>1, <2>2, SnapshotKept, ApiUnchanged
<1>9. CASE Restart
  <2>1. UNCHANGED <<store, log>> /\ pc' = "boot" /\ callbacks' = {}
    BY <1>9 DEF Restart
  <2>2. Announced'
    BY <2>1 DEF Announced
  <2>3. rv' = 0 /\ pos' = 0 /\ \A cr \in CRs : index'[cr] = Absent
    BY <1>9 DEF Restart, NothingCached
  <2>4. \A cr \in CRs : RevisionIn(log', cr, 0) = Absent
    BY DEF RevisionIn, Writes
  <2>5. Len(log') \in Nat
    BY <2>1 DEF TypeOK
  <2>6. Snapshot'
    BY <2>3, <2>4, <2>5 DEF Snapshot
  <2>. QED
    BY <1>type, <2>1, <2>2, <2>6, ApiUnchanged
<1>. QED
  BY <1>1, <1>2, <1>3, <1>4, <1>5, <1>6, <1>7, <1>8, <1>9
  DEF Next, WatchThread, Environment, Fire

\* The strengthening holds in every reachable state.
THEOREM Invariance == Spec => []IInv
<1>1. Init => IInv
  BY InitInv
<1>2. IInv /\ [Next]_vars => IInv'
  BY NextInv
<1>. QED
  BY <1>1, <1>2, PTL DEF Spec

\* Once a list has succeeded, the index admissions read is the parsed store as it
\* was at one resourceVersion not older than the recorded one, whatever mix of
\* outages, re-lists, re-deliveries and malformed CRs led there.
THEOREM IndexStaysSnapshot == Spec => []IndexIsSnapshot
<1>1. IInv => IndexIsSnapshot
  <2>. SUFFICES ASSUME IInv, pc # "boot"
                PROVE  \E n \in rv..Len(log) : index = View(n)
    BY DEF IndexIsSnapshot
  <2>1. /\ Len(log) \in Nat /\ pos \in 0..Len(log) /\ rv \in 0..Len(log)
        /\ index \in [CRs -> Contents]
    BY DEF IInv, TypeOK
  <2>2. PICK n \in pos..Len(log) :
          rv <= pos /\ \A cr \in CRs : index[cr] = RevisionIn(log, cr, n)
    BY DEF IInv, Snapshot
  <2>3. n \in rv..Len(log) /\ n \in Nat
    BY <2>1, <2>2
  <2>4. \A cr \in CRs : index[cr] = Revision(cr, n)
    BY <2>2, <2>3, RevisionOfLog
  <2>5. index = View(n)
    BY <2>1, <2>4 DEF View
  <2>. QED
    BY <2>3, <2>5
<1>. QED
  BY <1>1, Invariance, PTL

\* Whenever the watch runs, the consumer has been told what the index holds.
THEOREM ConsumerStaysInStep == Spec => []ConsumerInStep
<1>1. IInv => ConsumerInStep
  BY DEF IInv, Announced, InStep, ConsumerInStep
<1>. QED
  BY <1>1, Invariance, PTL

-----------------------------------------------------------------------------
(* The cache implements SnapshotReader.  The reader's place in the log is    *)
(* the first moment, from rv on, the index is the view of (SeenUpTo); it     *)
(* exists by Snapshot, and each step of the cache moves it forward or not    *)
(* at all.                                                                   *)

\* The resourceVersions a content of the index may be the view of.
Moments(l, ix, r) == {n \in r..Len(l) : \A cr \in CRs : ix[cr] = RevisionIn(l, cr, n)}
FirstOf(S, default) == IF S = {} THEN default ELSE CHOOSE n \in S : \A m \in S : n <= m
FirstMoment(l, ix, r) == FirstOf(Moments(l, ix, r), Len(l))

\* The log as the reader sees it.
Seen(e)    == [cr |-> e.cr, obj |-> IF e.type = "DELETED" THEN Absent ELSE e.obj]
SeenLog(l) == [i \in 1..Len(l) |-> Seen(l[i])]
SeenRevision(l, cr, n) ==
  LET writes == {i \in 1..n : SeenLog(l)[i].cr = cr} IN
  IF writes = {} THEN Absent ELSE Reader!Parsed(SeenLog(l)[Latest(writes)].obj)

\* When there is a moment there is a first one.
LEMMA FirstMomentIsLeast ==
  ASSUME NEW l \in Seq(Event), NEW ix, NEW r \in Nat, NEW n \in Moments(l, ix, r)
  PROVE  /\ FirstMoment(l, ix, r) \in Moments(l, ix, r)
         /\ FirstMoment(l, ix, r) \in r..Len(l)
         /\ FirstMoment(l, ix, r) \in Nat
         /\ \A m \in Moments(l, ix, r) : FirstMoment(l, ix, r) <= m
<1>1. Moments(l, ix, r) \subseteq r..Len(l) /\ Moments(l, ix, r) \subseteq Nat
  BY DEF Moments
<1>2. \E x \in Moments(l, ix, r) : \A y \in Moments(l, ix, r) : ~(<<y, x>> \in OpToRel(<, Nat))
  BY <1>1, NatLessThanWellFounded, WFMin, Zenon
<1>3. \E x \in Moments(l, ix, r) : \A y \in Moments(l, ix, r) : x <= y
  <2>. DEFINE S == Moments(l, ix, r)
  <2>. HIDE DEF S
  <2>1. S \subseteq Nat /\ \E x \in S : \A y \in S : ~(<<y, x>> \in OpToRel(<, Nat))
    BY <1>1, <1>2 DEF S
  <2>2. PICK x \in S : \A y \in S : ~(y < x)
    BY <2>1 DEF OpToRel
  <2>3. ASSUME NEW y \in S
        PROVE  x <= y
    <3>1. x \in Nat /\ y \in Nat
      BY <2>1
    <3>. QED
      BY <2>2, <3>1
  <2>. QED
    BY <2>3 DEF S
<1>4. Moments(l, ix, r) # {}
  OBVIOUS
<1>5. /\ FirstMoment(l, ix, r) \in Moments(l, ix, r)
      /\ \A m \in Moments(l, ix, r) : FirstMoment(l, ix, r) <= m
  BY <1>3, <1>4, Zenon DEF FirstMoment, FirstOf
<1>. QED
  BY <1>1, <1>5

\* The mapping's operators, now and in the next state.
LEMMA SeenUpToIsFirst ==
  /\ TypeOK  => SeenUpTo = FirstMoment(log, index, rv)
  /\ TypeOK' => SeenUpTo' = FirstMoment(log', index', rv')
<1>1. ASSUME TypeOK
      PROVE  SeenUpTo = FirstMoment(log, index, rv)
  <2>1. \A n \in rv..Len(log) :
          index = View(n) <=> \A cr \in CRs : index[cr] = RevisionIn(log, cr, n)
    BY <1>1, RevisionOfLog DEF View, TypeOK
  <2>2. {n \in rv..Len(log) : index = View(n)} = Moments(log, index, rv)
    BY <2>1 DEF Moments
  <2>3. SeenUpTo = FirstOf({n \in rv..Len(log) : index = View(n)}, Len(log))
    BY Zenon DEF SeenUpTo, FirstOf
  <2>. QED
    BY <2>2, <2>3, Zenon DEF FirstMoment
<1>2. ASSUME TypeOK'
      PROVE  SeenUpTo' = FirstMoment(log', index', rv')
  <2>1. \A n \in rv'..Len(log') :
          index' = View(n)' <=> \A cr \in CRs : index'[cr] = RevisionIn(log', cr, n)
    BY <1>2, RevisionOfLog DEF View, TypeOK
  <2>2. {n \in rv'..Len(log') : index' = View(n)'} = Moments(log', index', rv')
    BY <2>1 DEF Moments
  <2>3. SeenUpTo' = FirstOf({n \in rv'..Len(log') : index' = View(n)'}, Len(log'))
    BY Zenon DEF SeenUpTo, FirstOf
  <2>. QED
    BY <2>2, <2>3, Zenon DEF FirstMoment
<1>. QED
  BY <1>1, <1>2

\* The reader's view of the mapped log is the revision of every CR.
LEMMA ReaderSees ==
  /\ TypeOK => \A n \in 0..Len(log) :
       Reader!View(n) = [cr \in CRs |-> RevisionIn(log, cr, n)]
  /\ TypeOK' => \A n \in 0..Len(log') :
       Reader!View(n)' = [cr \in CRs |-> RevisionIn(log', cr, n)]
<1>1. ASSUME NEW l \in Seq(Event), NEW n \in 0..Len(l), NEW cr
      PROVE  SeenRevision(l, cr, n) = RevisionIn(l, cr, n)
  <2>1. \A i \in 1..n : SeenLog(l)[i] = Seen(l[i])
    BY DEF SeenLog
  <2>2. \A i \in 1..n : SeenLog(l)[i].cr = l[i].cr
    <3>1. \A e : Seen(e).cr = e.cr
      BY DEF Seen
    <3>. QED
      BY <2>1, <3>1, Zenon
  <2>3. {i \in 1..n : SeenLog(l)[i].cr = cr} = Writes(l, cr, n)
    BY <2>2 DEF Writes
  <2>4. Writes(l, cr, n) # {} => Latest(Writes(l, cr, n)) \in 1..n
    BY LastWrite
  <2>5. \A e : Left(e) = Reader!Parsed(Seen(e).obj)
    BY ContentAssumption DEF Left, Parse, Seen, Reader!Parsed
  <2>. QED
    BY <2>1, <2>3, <2>4, <2>5, Zenon DEF SeenRevision, RevisionIn
<1>2. ASSUME TypeOK, NEW n \in 0..Len(log)
      PROVE  Reader!View(n) = [cr \in CRs |-> RevisionIn(log, cr, n)]
  <2>1. Reader!View(n) = [cr \in CRs |-> SeenRevision(log, cr, n)]
    BY DEF Reader!View, SeenRevision, Latest, SeenLog, Seen
  <2>. QED
    BY <1>1, <1>2, <2>1, Zenon DEF TypeOK
<1>3. ASSUME TypeOK', NEW n \in 0..Len(log')
      PROVE  Reader!View(n)' = [cr \in CRs |-> RevisionIn(log', cr, n)]
  <2>1. Reader!View(n)' = [cr \in CRs |-> SeenRevision(log', cr, n)]
    BY DEF Reader!View, SeenRevision, Latest, SeenLog, Seen
  <2>. QED
    BY <1>1, <1>3, <2>1, Zenon DEF TypeOK
<1>. QED
  BY <1>2, <1>3

\* The reader is always at a moment the index is the view of: the first one.
LEMMA ReaderAt ==
  /\ IInv => /\ SeenUpTo \in Moments(log, index, rv)
             /\ SeenUpTo \in Nat /\ SeenUpTo \in rv..Len(log)
             /\ \A n \in Moments(log, index, rv) : SeenUpTo <= n
  /\ IInv' => /\ SeenUpTo' \in Moments(log', index', rv')
              /\ SeenUpTo' \in Nat /\ SeenUpTo' \in rv'..Len(log')
              /\ \A n \in Moments(log', index', rv') : SeenUpTo' <= n
<1>1. ASSUME NEW l \in Seq(Event), NEW ix, NEW r \in 0..Len(l), NEW p \in r..Len(l),
             NEW n \in p..Len(l), \A cr \in CRs : ix[cr] = RevisionIn(l, cr, n)
      PROVE  n \in Moments(l, ix, r)
  BY <1>1 DEF Moments
<1>2. ASSUME IInv
      PROVE  /\ SeenUpTo \in Moments(log, index, rv)
             /\ SeenUpTo \in Nat /\ SeenUpTo \in rv..Len(log)
             /\ \A n \in Moments(log, index, rv) : SeenUpTo <= n
  <2>1. log \in Seq(Event) /\ rv \in Nat /\ rv \in 0..Len(log) /\ pos \in 0..Len(log)
    BY <1>2 DEF IInv, TypeOK
  <2>2. PICK n \in pos..Len(log) : rv <= pos /\ \A cr \in CRs : index[cr] = RevisionIn(log, cr, n)
    BY <1>2 DEF IInv, Snapshot
  <2>3. n \in Moments(log, index, rv)
    BY <1>1, <2>1, <2>2
  <2>. QED
    BY <1>2, <2>1, <2>3, FirstMomentIsLeast, SeenUpToIsFirst DEF IInv
<1>3. ASSUME IInv'
      PROVE  /\ SeenUpTo' \in Moments(log', index', rv')
             /\ SeenUpTo' \in Nat /\ SeenUpTo' \in rv'..Len(log')
             /\ \A n \in Moments(log', index', rv') : SeenUpTo' <= n
  <2>1. log' \in Seq(Event) /\ rv' \in Nat /\ rv' \in 0..Len(log') /\ pos' \in 0..Len(log')
    BY <1>3 DEF IInv, TypeOK
  <2>2. PICK n \in pos'..Len(log') :
          rv' <= pos' /\ \A cr \in CRs : index'[cr] = RevisionIn(log', cr, n)
    BY <1>3 DEF IInv, Snapshot
  <2>3. n \in Moments(log', index', rv')
    BY <1>1, <2>1, <2>2
  <2>. QED
    BY <1>3, <2>1, <2>3, FirstMomentIsLeast, SeenUpToIsFirst DEF IInv
<1>. QED
  BY <1>2, <1>3

\* Where nothing of the mapping moves, the reader stutters.
LEMMA ReaderStutters ==
  ASSUME TypeOK, TypeOK', UNCHANGED <<log, index, rv>>, (pc' # "boot") = (pc # "boot")
  PROVE  UNCHANGED Reader!vars
<1>1. SeenUpTo' = SeenUpTo
  BY SeenUpToIsFirst
<1>. QED
  BY <1>1 DEF Reader!vars

\* A write of the apiserver is a write under the reader, which stays where it is.
LEMMA ReaderWrites ==
  ASSUME IInv, IInv', NEW e \in Event, log' = Append(log, e), UNCHANGED cacheVars
  PROVE  Reader!Write(e.cr, Seen(e).obj) /\ SeenUpTo' = SeenUpTo
<1>1. log \in Seq(Event) /\ log' \in Seq(Event) /\ rv \in 0..Len(log)
  BY DEF IInv, TypeOK
<1>2. /\ Len(log') = Len(log) + 1 /\ log'[Len(log) + 1] = e
      /\ \A i \in 1..Len(log) : log'[i] = log[i]
  BY <1>1, AppendProperties
<1>3. \A n \in rv..Len(log) : \A cr \in CRs : RevisionIn(log', cr, n) = RevisionIn(log, cr, n)
  BY <1>1, RevisionAppend
<1>4. SeenUpTo' = SeenUpTo
  <2>1. SeenUpTo \in Moments(log', index', rv')
    BY <1>1, <1>2, <1>3, ReaderAt DEF Moments, cacheVars
  <2>2. SeenUpTo' <= SeenUpTo
    BY <2>1, ReaderAt
  <2>3. SeenUpTo' \in Moments(log, index, rv)
    BY <1>1, <1>2, <1>3, <2>2, ReaderAt DEF Moments, cacheVars
  <2>4. SeenUpTo <= SeenUpTo'
    BY <2>3, ReaderAt
  <2>. QED
    BY <2>2, <2>4, ReaderAt
<1>5. SeenLog(log') = Append(SeenLog(log), [cr |-> e.cr, obj |-> Seen(e).obj])
  <2>1. Seen(e) = [cr |-> e.cr, obj |-> Seen(e).obj]
    BY DEF Seen
  <2>2. ASSUME NEW l \in Seq(Event)
        PROVE  SeenLog(l) \in Seq({Seen(x) : x \in Event}) /\ Len(SeenLog(l)) = Len(l)
    <3>1. Len(l) \in Nat /\ \A i \in 1..Len(l) : l[i] \in Event
      BY ElementOfSeq
    <3>2. \A i \in 1..Len(l) : Seen(l[i]) \in {Seen(x) : x \in Event}
      BY <3>1, Zenon
    <3>. QED
      BY <3>1, <3>2, IsASeq, LenProperties DEF SeenLog
  <2>3. /\ SeenLog(log) \in Seq({Seen(x) : x \in Event}) /\ Len(SeenLog(log)) = Len(log)
        /\ SeenLog(log') \in Seq({Seen(x) : x \in Event}) /\ Len(SeenLog(log')) = Len(log')
    BY <1>1, <2>2
  <2>4. Append(SeenLog(log), Seen(e)) \in Seq({Seen(x) : x \in Event})
        /\ Len(Append(SeenLog(log), Seen(e))) = Len(log) + 1
        /\ Append(SeenLog(log), Seen(e))[Len(log) + 1] = Seen(e)
        /\ \A i \in 1..Len(log) : Append(SeenLog(log), Seen(e))[i] = SeenLog(log)[i]
    <3>. DEFINE S == {Seen(x) : x \in Event}
               s == SeenLog(log)
               x == Seen(e)
    <3>1. s \in Seq(S) /\ x \in S /\ Len(s) = Len(log)
      BY <2>3
    <3>. HIDE DEF S, s, x
    <3>2. Append(s, x) \in Seq(S) /\ Len(Append(s, x)) = Len(log) + 1
          /\ Append(s, x)[Len(log) + 1] = x
          /\ \A i \in 1..Len(log) : Append(s, x)[i] = s[i]
      BY <3>1, AppendProperties
    <3>. QED
      BY <3>2 DEF S, s, x
  <2>5. \A i \in 1..(Len(log) + 1) : SeenLog(log')[i] = Append(SeenLog(log), Seen(e))[i]
    <3>1. /\ \A i \in 1..Len(log) : SeenLog(log)[i] = Seen(log[i])
          /\ \A i \in 1..(Len(log) + 1) : SeenLog(log')[i] = Seen(log'[i])
      BY <1>2 DEF SeenLog
    <3>2. Len(log) \in Nat
      BY <1>1
    <3>. QED
      BY <1>2, <2>4, <3>1, <3>2
  <2>. QED
    BY <1>2, <2>1, <2>3, <2>4, <2>5, SeqEqual
<1>. QED
  BY <1>4, <1>5 DEF Reader!Write, SeenLog, Seen, cacheVars

\* A step that leaves the log alone and does not take the reader back is an
\* advance.
LEMMA ReaderAdvances ==
  ASSUME IInv, IInv', UNCHANGED log, pc' # "boot", SeenUpTo <= SeenUpTo'
  PROVE  Reader!Advance
<1>1. /\ SeenUpTo \in Nat /\ SeenUpTo' \in Nat /\ SeenUpTo' \in rv'..Len(log')
      /\ Len(log') \in Nat /\ rv' \in Nat /\ index' \in [CRs -> Contents]
  BY ReaderAt DEF IInv, TypeOK
<1>2. SeenUpTo' \in SeenUpTo..Len(SeenLog(log))
  <2>1. Len(SeenLog(log)) = Len(log)
    BY LenProperties DEF SeenLog, IInv, TypeOK
  <2>. QED
    BY <1>1, <2>1
<1>3. index' = [cr \in CRs |-> RevisionIn(log', cr, SeenUpTo')]
  BY <1>1, ReaderAt DEF Moments
<1>4. SeenUpTo' \in 0..Len(log')
  BY <1>1
<1>. QED
  BY <1>2, <1>3, <1>4, ReaderSees DEF Reader!Advance, SeenLog, Seen, IInv

\* Whatever parses is delivered once: the index is the view just before it.
LEMMA ParsedIsNext ==
  ASSUME IInv, DeliverParsed
  PROVE  /\ \A cr \in CRs : index[cr] = RevisionIn(log, cr, pos)
         /\ SeenUpTo <= pos
         /\ rv' = pos + 1
<1>1. /\ Len(log) \in Nat /\ pos \in Nat /\ rv \in Nat
      /\ pos + 1 \in 1..Len(log)
      /\ log[pos + 1].obj # Malformed
      /\ rv' = pos + 1
  BY ContentAssumption DEF IInv, TypeOK, DeliverParsed
<1>2. PICK n \in pos..Len(log) :
        /\ rv <= pos
        /\ \A cr \in CRs : index[cr] = RevisionIn(log, cr, n)
        /\ \A i \in (rv + 1)..n : log[i].obj = Malformed
  BY DEF IInv, Snapshot
<1>3. n = pos
  BY <1>1, <1>2
<1>4. pos \in Moments(log, index, rv)
  BY <1>1, <1>2, <1>3 DEF Moments
<1>. QED
  BY <1>1, <1>2, <1>3, <1>4, ReaderAt

\* A delivered write is ahead of the reader; a delivery that repeats one the
\* index reflects already leaves it where it is.
LEMMA ReaderDelivers ==
  ASSUME IInv, IInv', Deliver
  PROVE  SeenUpTo <= SeenUpTo'
<1>1. /\ log \in Seq(Event) /\ Len(log) \in Nat /\ pos \in Nat /\ rv \in Nat
      /\ index \in [CRs -> Contents]
      /\ UNCHANGED log
      /\ pos + 1 \in 1..Len(log)
  BY DEF IInv, TypeOK, Deliver, DeliverParsed, DeliverMalformed, apiVars
<1>2. log[pos + 1] \in Event
  BY <1>1, ElementOfSeq
<1>. DEFINE e == log[pos + 1]
<1>3. PICK n \in pos..Len(log) :
        /\ rv <= pos
        /\ \A cr \in CRs : index[cr] = RevisionIn(log, cr, n)
        /\ \A i \in (rv + 1)..n : log[i].obj = Malformed
  BY DEF IInv, Snapshot
<1>4. n \in Nat /\ SeenUpTo <= n
  <2>1. n \in Moments(log, index, rv)
    BY <1>1, <1>3 DEF Moments
  <2>. QED
    BY <1>1, <1>3, <2>1, ReaderAt
<1>5. /\ SeenUpTo \in Nat /\ SeenUpTo' \in Nat
      /\ SeenUpTo' \in rv'..Len(log)
      /\ SeenUpTo' \in Moments(log, index', rv')
  BY <1>1, ReaderAt
<1>6. CASE DeliverParsed
  BY <1>1, <1>5, <1>6, ParsedIsNext
<1>7. CASE DeliverMalformed /\ UNCHANGED index
  <2>1. SeenUpTo' \in Moments(log, index, rv)
    BY <1>5, <1>7 DEF DeliverMalformed
  <2>. QED
    BY <2>1, ReaderAt
<1>8. CASE DeliverMalformed /\ index' # index
  <2>1. /\ index[e.cr] # Absent /\ index'[e.cr] = Absent
        /\ e.cr \in CRs /\ e.obj = Malformed /\ rv' = rv
    BY <1>1, <1>2, <1>8 DEF DeliverMalformed, Event
  <2>2. SUFFICES ASSUME NEW m \in rv..n, m = SeenUpTo'
                 PROVE  FALSE
    BY <1>1, <1>3, <1>4, <1>5, <2>1
  <2>3. m \in Nat /\ m <= n /\ rv <= m
    BY <1>1, <1>4
  <2>4. ASSUME NEW k \in Nat, m + 1 <= k, k <= n, log[k].cr = e.cr
        PROVE  FALSE
    <3>1. n \in 0..Len(log) /\ rv \in 0..n /\ k \in (rv + 1)..n
      BY <1>1, <1>3, <1>4, <2>3, <2>4
    <3>2. RevisionIn(log, e.cr, n) = Absent
      BY ONLY <1>1, <1>3, <2>4, <3>1, RevisionMalformed
    <3>. QED
      BY <1>3, <2>1, <3>2
  <2>5. Writes(log, e.cr, m) = Writes(log, e.cr, n)
    <3>1. ASSUME NEW k \in 1..n, log[k].cr = e.cr
          PROVE  k \in 1..m
      BY <1>4, <2>3, <2>4, <3>1
    <3>. QED
      BY <1>4, <2>3, <3>1 DEF Writes
  <2>6. index'[e.cr] = index[e.cr]
    BY <1>3, <1>5, <2>1, <2>2, <2>5 DEF Moments, RevisionIn
  <2>. QED
    BY <2>1, <2>6
<1>. QED
  BY <1>6, <1>7, <1>8 DEF Deliver

\* Every step of the cache is a step of the reader or leaves it alone.
LEMMA ReaderStep == IInv /\ [Next]_vars => [Reader!Next]_(Reader!vars)
<1>. SUFFICES ASSUME IInv, [Next]_vars
              PROVE  Reader!Next \/ UNCHANGED Reader!vars
  BY Zenon
<1>inv. IInv' /\ TypeOK /\ TypeOK'
  BY NextInv DEF IInv
<1>1. ASSUME NEW cr \in CRs, NEW obj \in Objects, Apply(cr, obj)
      PROVE  Reader!Next
  <2>0. [type |-> IF store[cr] = Absent THEN "ADDED" ELSE "MODIFIED",
         cr |-> cr, obj |-> obj] \in Event
    BY DEF Event, EventType
  <2>1. PICK e \in Event : e = [type |-> IF store[cr] = Absent THEN "ADDED" ELSE "MODIFIED",
                                cr |-> cr, obj |-> obj]
    BY <2>0, Zenon
  <2>2. log' = Append(log, e) /\ UNCHANGED cacheVars /\ e.cr \in CRs
        /\ Seen(e).obj \in Objects \cup {Absent}
    BY <1>1, <2>1 DEF Apply, Seen
  <2>3. Reader!Write(e.cr, Seen(e).obj)
    BY <1>inv, <2>2, ReaderWrites
  <2>. QED
    BY <2>2, <2>3 DEF Reader!Next
<1>2. ASSUME NEW cr \in CRs, Delete(cr)
      PROVE  Reader!Next
  <2>1. PICK e \in Event : e = [type |-> "DELETED", cr |-> cr, obj |-> store[cr]]
    BY <1>2, <1>inv DEF Delete, Event, EventType, TypeOK
  <2>2. log' = Append(log, e) /\ UNCHANGED cacheVars /\ e.cr \in CRs
        /\ Seen(e).obj \in Objects \cup {Absent}
    BY <1>2, <2>1 DEF Delete, Seen
  <2>3. Reader!Write(e.cr, Seen(e).obj)
    BY <1>inv, <2>2, ReaderWrites
  <2>. QED
    BY <2>2, <2>3 DEF Reader!Next
<1>3. CASE InitialList
  <2>1. UNCHANGED log /\ rv' = Len(log) /\ pc' # "boot"
    BY <1>3 DEF InitialList, apiVars
  <2>2. SeenUpTo <= SeenUpTo'
    BY <1>inv, <2>1, ReaderAt DEF TypeOK
  <2>. QED
    BY <1>inv, <2>1, <2>2, ReaderAdvances DEF Reader!Next
<1>4. CASE Deliver
  <2>1. UNCHANGED log /\ pc' # "boot"
    BY <1>4 DEF Deliver, DeliverParsed, DeliverMalformed, apiVars
  <2>2. SeenUpTo <= SeenUpTo'
    BY <1>4, <1>inv, ReaderDelivers
  <2>. QED
    BY <1>inv, <2>1, <2>2, ReaderAdvances DEF Reader!Next
<1>5. CASE Restart
  <2>1. /\ UNCHANGED log /\ pc' = "boot" /\ rv' = 0
        /\ \A cr \in CRs : index'[cr] = RevisionIn(log', cr, 0)
    BY <1>5 DEF Restart, NothingCached, RevisionIn, Writes
  <2>2. Len(log') \in Nat /\ index' \in [CRs -> Contents]
    BY <1>inv DEF TypeOK
  <2>3. 0 \in Moments(log', index', rv')
    BY <2>1, <2>2 DEF Moments
  <2>4. SeenUpTo' = 0
    BY <1>inv, <2>3, ReaderAt
  <2>5. index' = Reader!View(0)'
    BY <1>inv, <2>1, <2>2, ReaderSees
  <2>. QED
    BY <2>1, <2>4, <2>5 DEF Reader!Next, Reader!Forget, Reader!View
<1>6. CASE \/ RelistFails \/ WatchEnds \/ WatchRaises \/ Fire \/ Seed
           \/ Outage \/ Recover \/ UNCHANGED vars
  <2>1. UNCHANGED <<log, index, rv>> /\ (pc' # "boot") = (pc # "boot")
    BY <1>6 DEF RelistFails, WatchEnds, WatchRaises, Fire, FireCallback, Seed, Outage, Recover,
                vars, apiVars, cacheVars
  <2>. QED
    BY <1>inv, <2>1, ReaderStutters
<1>. QED
  BY <1>1, <1>2, <1>3, <1>4, <1>5, <1>6 DEF Next, WatchThread, Environment

\* The cache implements the reader of snapshots that admissions rely on: what the
\* handlers look up is the parsed store at one moment, which moves forward only
\* while the process lives - whatever is listed, delivered twice, dropped as
\* malformed or resumed from a resourceVersion that lags.
THEOREM CacheImplementsReader == Spec => ImplementsReader
<1>1. Init => Reader!Init
  <2>. SUFFICES ASSUME Init
                PROVE  Reader!Init
    OBVIOUS
  <2>1. IInv /\ TypeOK
    BY InitInv DEF IInv
  <2>2. /\ log = <<>> /\ Len(log) = 0 /\ rv = 0 /\ pc = "boot"
        /\ index = [cr \in CRs |-> RevisionIn(log, cr, 0)]
    BY DEF Init, NothingCached, RevisionIn, Writes
  <2>3. SeenUpTo = 0
    BY <2>1, <2>2, ReaderAt
  <2>4. index = Reader!View(0)
    BY <2>1, <2>2, ReaderSees
  <2>5. SeenLog(log) = <<>>
    BY <2>2 DEF SeenLog
  <2>. QED
    BY <2>2, <2>3, <2>4, <2>5 DEF Reader!Init, Reader!View, SeenLog, Seen
<1>. QED
  BY <1>1, ReaderStep, Invariance, PTL DEF Spec, ImplementsReader, Reader!Spec
=============================================================================
