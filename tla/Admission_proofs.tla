-------------------------- MODULE Admission_proofs --------------------------
(***************************************************************************)
(* Proofs about Admission, for every set of CRs, contents and pods and     *)
(* every bound.                                                            *)
(*                                                                         *)
(* ClaimInv, for the validating handler:                                   *)
(*   LogType    what the handlers look up is the parsed store at `at';     *)
(*   Reviewed   while every CR was stored after a review that saw all the  *)
(*              others, no two CRs of any moment of the log claim a        *)
(*              container together, and the one review under way has been  *)
(*              held against the store as it is, deletions aside.          *)
(*                                                                         *)
(* PatchesFit, for the mutating handler, is a matter of the functions of   *)
(* PodPatch, and of ClaimInv for what a lookup returns:                    *)
(*   NodesAre, EditsAre, PatchesAre, EditedAre    the recursive functions  *)
(*              have the values their definitions say, by induction over   *)
(*              their lengths;                                             *)
(*   ContainerPatched    what is patched in one container lands and leaves *)
(*              it with its quantities, whatever resources it had;         *)
(*   ContainersPatched   after the first n containers these have their     *)
(*              quantities and all else is the pod's (Holds), by induction *)
(*              over n.                                                    *)
(*                                                                         *)
(* StampInv, for the status updater:                                       *)
(*   StampsAreTrue    the invariant itself;                                *)
(*   NoneForTheGone   a CR that is not stored has no stamp to be credited; *)
(*   NewestInOrder    a stamp in the map is the newest there is, one in    *)
(*                    the flush is older than the one in the map only:     *)
(*                    no PATCH overwrites a newer stamp for good;          *)
(*   LastIsExcused    what the last flush leaves in the map has failed.    *)
(***************************************************************************)
EXTENDS Admission, FiniteSetTheorems, SequenceTheorems, WellFoundedInduction, TLAPS

Entry == [cr : CRs, obj : Objects \cup {Absent}]

\* The reader's view over an explicit log, so that its lemmas serve log and log'.
Writes(l, cr, n) == {i \in 1..n : l[i].cr = cr}
LastOf(S)        == CHOOSE i \in S : \A j \in S : j <= i
ViewIn(l, n) ==
  [cr \in CRs |-> IF Writes(l, cr, n) = {} THEN Absent
                  ELSE Cache!Parsed(l[LastOf(Writes(l, cr, n))].obj)]

Compatible(o, p) ==
  o # Absent /\ p # Absent =>
    ~(SelectorsCanOverlap(o.labels, p.labels) /\ DOMAIN o.containers \cap DOMAIN p.containers # {})
Separate(ix) == \A c, d \in CRs : c # d => Compatible(ix[c], ix[d])

LogType ==
  /\ log \in Seq(Entry)
  /\ at \in 0..Len(log)
  /\ index = ViewIn(log, at)
  /\ reviews \subseteq [cr : CRs, obj : Objects]

Reviewed ==
  ~raced =>
    /\ \A n \in 0..Len(log) : Separate(ViewIn(log, n))
    /\ \A r, s \in reviews : r = s
    /\ \A r \in reviews : \A c \in CRs \ {r.cr} :
         Compatible(Cache!Parsed(r.obj), ViewIn(log, Len(log))[c])

ClaimInv == LogType /\ Reviewed

-----------------------------------------------------------------------------
(* Numbers.                                                                *)

\* A set of numbers has a least one.
LEMMA LeastExists ==
  ASSUME NEW T, T \subseteq Nat, T # {}
  PROVE  \E x \in T : \A y \in T : x <= y
<1>1. \E x \in T : \A y \in T : ~(<<y, x>> \in OpToRel(<, Nat))
  BY NatLessThanWellFounded, WFMin, Zenon
<1>2. PICK x \in T : \A y \in T : ~(y < x)
  BY <1>1 DEF OpToRel
<1>. QED
  BY <1>2

\* Induction, for a set of numbers.
LEMMA Induction ==
  ASSUME NEW S, 0 \in S, \A n \in Nat : n \in S => n + 1 \in S
  PROVE  \A n \in Nat : n \in S
<1>. SUFFICES ASSUME Nat \ S # {}
              PROVE  FALSE
  OBVIOUS
<1>1. PICK m \in Nat \ S : \A n \in Nat \ S : m <= n
  BY LeastExists
<1>2. m - 1 \in Nat
  BY <1>1
<1>3. m - 1 \in S
  BY <1>1, <1>2
<1>4. (m - 1) + 1 \in S
  BY <1>2, <1>3
<1>. QED
  BY <1>1, <1>4

-----------------------------------------------------------------------------
(* Views of a log of writes.                                               *)

\* A non-empty set of writes has a last one.
LEMMA LastExists ==
  ASSUME NEW n \in Nat, NEW S \in SUBSET (1..n), S # {}
  PROVE  LastOf(S) \in S /\ \A j \in S : j <= LastOf(S)
<1>. DEFINE gaps == {n - i : i \in S}
<1>1. gaps \subseteq Nat /\ gaps # {}
  <2>1. \A i \in S : n - i \in Nat
    OBVIOUS
  <2>2. PICK i \in S : TRUE
    OBVIOUS
  <2>3. n - i \in gaps
    OBVIOUS
  <2>. QED
    BY <2>1, <2>3
<1>2. PICK x \in gaps : \A y \in gaps : x <= y
  <2>. HIDE DEF gaps
  <2>. QED
    BY <1>1, LeastExists
<1>3. PICK i \in S : x = n - i
  OBVIOUS
<1>4. \A j \in S : j <= i
  <2>. TAKE j \in S
  <2>1. n - j \in gaps
    OBVIOUS
  <2>2. n - i <= n - j
    BY <1>2, <1>3, <2>1
  <2>3. i \in Nat /\ j \in Nat
    OBVIOUS
  <2>. QED
    BY <2>2, <2>3
<1>5. LastOf(S) = CHOOSE k \in S : \A j \in S : j <= k
  BY DEF LastOf
<1>. HIDE DEF gaps
<1>. QED
  BY <1>4, <1>5, Zenon

\* The reader's view of the log is ViewIn, in both states.
LEMMA ViewOfLog ==
  ASSUME NEW n
  PROVE  Cache!View(n) = ViewIn(log, n) /\ Cache!View(n)' = ViewIn(log', n)
BY DEF Cache!View, ViewIn, Writes, LastOf

\* A write leaves the views before it alone and changes one CR of the last.
LEMMA ViewAppend ==
  ASSUME NEW l \in Seq(Entry), NEW e \in Entry
  PROVE  /\ Append(l, e) \in Seq(Entry)
         /\ Len(Append(l, e)) = Len(l) + 1
         /\ \A n \in 0..Len(l) : ViewIn(Append(l, e), n) = ViewIn(l, n)
         /\ ViewIn(Append(l, e), Len(l) + 1) = [ViewIn(l, Len(l)) EXCEPT ![e.cr] = Cache!Parsed(e.obj)]
<1>1. /\ Append(l, e) \in Seq(Entry) /\ Len(Append(l, e)) = Len(l) + 1 /\ Len(l) \in Nat
      /\ \A i \in 1..Len(l) : Append(l, e)[i] = l[i]
      /\ Append(l, e)[Len(l) + 1] = e
  BY AppendProperties
<1>2. ASSUME NEW n \in 0..Len(l), NEW cr
      PROVE  /\ Writes(Append(l, e), cr, n) = Writes(l, cr, n)
             /\ Writes(l, cr, n) # {} =>
                  Append(l, e)[LastOf(Writes(l, cr, n))] = l[LastOf(Writes(l, cr, n))]
  <2>1. Writes(Append(l, e), cr, n) = Writes(l, cr, n)
    BY <1>1 DEF Writes
  <2>2. Writes(l, cr, n) \in SUBSET (1..n) /\ n \in Nat
    BY <1>1 DEF Writes
  <2>3. Writes(l, cr, n) # {} => LastOf(Writes(l, cr, n)) \in 1..n
    BY <2>2, LastExists
  <2>. QED
    BY <1>1, <2>1, <2>3
<1>3. \A n \in 0..Len(l) : ViewIn(Append(l, e), n) = ViewIn(l, n)
  BY <1>2, Zenon DEF ViewIn
<1>4. ASSUME NEW cr \in CRs
      PROVE  ViewIn(Append(l, e), Len(l) + 1)[cr] =
               IF cr = e.cr THEN Cache!Parsed(e.obj) ELSE ViewIn(l, Len(l))[cr]
  <2>1. CASE cr = e.cr
    <3>1. /\ Len(l) + 1 \in Writes(Append(l, e), cr, Len(l) + 1)
          /\ Writes(Append(l, e), cr, Len(l) + 1) \in SUBSET (1..(Len(l) + 1))
      BY <1>1, <2>1 DEF Writes
    <3>2. /\ LastOf(Writes(Append(l, e), cr, Len(l) + 1)) \in 1..(Len(l) + 1)
          /\ Len(l) + 1 <= LastOf(Writes(Append(l, e), cr, Len(l) + 1))
      BY <1>1, <3>1, LastExists, Len(l) + 1 \in Nat
    <3>3. LastOf(Writes(Append(l, e), cr, Len(l) + 1)) = Len(l) + 1
      BY <1>1, <3>2
    <3>. QED
      BY <1>1, <2>1, <3>1, <3>3 DEF ViewIn
  <2>2. CASE cr # e.cr
    <3>1. Writes(Append(l, e), cr, Len(l) + 1) = Writes(Append(l, e), cr, Len(l))
      BY <1>1, <2>2 DEF Writes
    <3>2. ViewIn(Append(l, e), Len(l) + 1)[cr] = ViewIn(Append(l, e), Len(l))[cr]
      BY <3>1 DEF ViewIn
    <3>. QED
      BY <1>1, <1>3, <2>2, <3>2
  <2>. QED
    BY <2>1, <2>2
<1>5. ViewIn(Append(l, e), Len(l) + 1) = [ViewIn(l, Len(l)) EXCEPT ![e.cr] = Cache!Parsed(e.obj)]
  BY <1>4 DEF ViewIn
<1>. QED
  BY <1>1, <1>3, <1>5

-----------------------------------------------------------------------------
(* Validation.                                                             *)

\* Two CRs clash or neither does.
LEMMA CompatibleBothWays ==
  ASSUME NEW o, NEW p, Compatible(o, p)
  PROVE  Compatible(p, o)
BY DEF Compatible, SelectorsCanOverlap

\* What does not parse is compatible with everything; what parses is an override.
LEMMA ParsedOverrides ==
  /\ \A o, p : o = Absent \/ p = Absent => Compatible(o, p)
  /\ \A o : Cache!Parsed(o) = Absent \/ (Cache!Parsed(o) = o /\ o \in Overrides)
  /\ Cache!Parsed(Absent) = Absent
BY DEF Compatible, Cache!Parsed

\* Replacing one CR by a content that is compatible with all the others keeps the
\* CRs apart.
LEMMA SeparateStep ==
  ASSUME NEW ix \in [CRs -> Overrides \cup {Absent}], Separate(ix), NEW cr \in CRs, NEW o,
         \A c \in CRs \ {cr} : Compatible(o, ix[c])
  PROVE  Separate([ix EXCEPT ![cr] = o])
<1>. SUFFICES ASSUME NEW c \in CRs, NEW d \in CRs, c # d
              PROVE  Compatible([ix EXCEPT ![cr] = o][c], [ix EXCEPT ![cr] = o][d])
  BY DEF Separate
<1>1. CASE c = cr
  BY <1>1
<1>2. CASE d = cr
  BY <1>2, CompatibleBothWays
<1>3. CASE c # cr /\ d # cr
  BY <1>3 DEF Separate
<1>. QED
  BY <1>1, <1>2, <1>3

LEMMA ViewType ==
  ASSUME NEW l, NEW n
  PROVE  ViewIn(l, n) \in [CRs -> Overrides \cup {Absent}]
BY ParsedOverrides DEF ViewIn

LEMMA ClaimInit == Init => ClaimInv
<1>. SUFFICES ASSUME Init
              PROVE  ClaimInv
  OBVIOUS
<1>1. /\ log = <<>> /\ at = 0 /\ index = Cache!View(0) /\ reviews = {} /\ raced = FALSE
  BY DEF Init, Cache!Init
<1>2. Len(log) = 0 /\ log \in Seq(Entry)
  BY <1>1
<1>3. LogType
  BY <1>1, <1>2, ViewOfLog DEF LogType
<1>4. \A c \in CRs : ViewIn(log, 0)[c] = Absent
  BY DEF ViewIn, Writes
<1>5. Reviewed
  BY <1>1, <1>2, <1>4, ParsedOverrides DEF Reviewed, Separate
<1>. QED
  BY <1>3, <1>5 DEF ClaimInv

\* A review that is not raced sees every stored CR.
LEMMA ReviewStep ==
  ASSUME ClaimInv, NEW cr \in CRs, NEW obj \in Objects, Review(cr, obj)
  PROVE  ClaimInv'
<1>. USE DEF ClaimInv
<1>1. /\ UNCHANGED <<log, at, index>>
      /\ reviews' = reviews \cup {[cr |-> cr, obj |-> obj]}
      /\ ~raced' => ~raced /\ ready /\ ~(at < Len(log)) /\ reviews = {}
      /\ Allowed(cr, obj)
  BY DEF Review, crVars
<1>2. LogType'
  BY <1>1 DEF LogType
<1>3. Reviewed'
  <2>. SUFFICES ASSUME ~raced'
                PROVE  /\ \A n \in 0..Len(log) : Separate(ViewIn(log, n))
                       /\ \A r, s \in reviews' : r = s
                       /\ \A r \in reviews' : \A c \in CRs \ {r.cr} :
                            Compatible(Cache!Parsed(r.obj), ViewIn(log, Len(log))[c])
    BY <1>1 DEF Reviewed
  <2>1. reviews' = {[cr |-> cr, obj |-> obj]} /\ at = Len(log) /\ index = ViewIn(log, Len(log))
    BY <1>1 DEF LogType
  <2>2. ASSUME NEW c \in CRs \ {cr}
        PROVE  Compatible(Cache!Parsed(obj), index[c])
    <3>1. CASE Cache!Parsed(obj) = Absent \/ index[c] = Absent
      BY <3>1, ParsedOverrides
    <3>2. CASE Cache!Parsed(obj) = obj /\ obj \in Overrides /\ index[c] # Absent
      <4>1. Conflicts(cr, obj) = {}
        BY <1>1, <3>2 DEF Allowed
      <4>. QED
        BY <2>2, <3>2, <4>1 DEF Conflicts, Cached, Compatible
    <3>. QED
      BY <3>1, <3>2, ParsedOverrides
  <2>. QED
    BY <1>1, <2>1, <2>2 DEF Reviewed
<1>. QED
  BY <1>2, <1>3

\* A CR that is written keeps the log a log, and the CRs apart if what it says is
\* compatible with all the others.
LEMMA LogStep ==
  ASSUME LogType, NEW e \in Entry, log' = Append(log, e), UNCHANGED <<at, index>>,
         reviews' \subseteq reviews
  PROVE  /\ LogType'
         /\ Len(log') = Len(log) + 1 /\ Len(log) \in Nat
         /\ \A n \in 0..Len(log) : ViewIn(log', n) = ViewIn(log, n)
         /\ ViewIn(log', Len(log')) = [ViewIn(log, Len(log)) EXCEPT ![e.cr] = Cache!Parsed(e.obj)]
<1>1. log \in Seq(Entry) /\ Len(log) \in Nat /\ at \in 0..Len(log)
  BY DEF LogType
<1>2. /\ log' \in Seq(Entry) /\ Len(log') = Len(log) + 1
      /\ \A n \in 0..Len(log) : ViewIn(log', n) = ViewIn(log, n)
      /\ ViewIn(log', Len(log')) = [ViewIn(log, Len(log)) EXCEPT ![e.cr] = Cache!Parsed(e.obj)]
  BY <1>1, ViewAppend
<1>3. at \in 0..Len(log') /\ index = ViewIn(log', at) /\ reviews' \subseteq [cr : CRs, obj : Objects]
  BY <1>1, <1>2 DEF LogType
<1>. QED
  BY <1>1, <1>2, <1>3 DEF LogType

LEMMA StoreStep ==
  ASSUME ClaimInv, NEW e \in Entry, log' = Append(log, e), UNCHANGED <<at, index>>,
         reviews' \subseteq reviews,
         ~raced' =>
           /\ ~raced
           /\ \A c \in CRs \ {e.cr} : Compatible(Cache!Parsed(e.obj), ViewIn(log, Len(log))[c])
           /\ reviews' # {} => e.obj = Absent
  PROVE  ClaimInv'
<1>. USE DEF ClaimInv
<1>1. /\ LogType'
      /\ Len(log') = Len(log) + 1 /\ Len(log) \in Nat
      /\ \A n \in 0..Len(log) : ViewIn(log', n) = ViewIn(log, n)
      /\ ViewIn(log', Len(log')) = [ViewIn(log, Len(log)) EXCEPT ![e.cr] = Cache!Parsed(e.obj)]
  BY LogStep
<1>2. e.cr \in CRs
  BY DEF Entry
<1>3. Reviewed'
  <2>. SUFFICES ASSUME ~raced'
                PROVE  /\ \A n \in 0..Len(log') : Separate(ViewIn(log', n))
                       /\ \A r, s \in reviews' : r = s
                       /\ \A r \in reviews' : \A c \in CRs \ {r.cr} :
                            Compatible(Cache!Parsed(r.obj), ViewIn(log', Len(log'))[c])
    BY DEF Reviewed
  <2>1. \A n \in 0..Len(log) : Separate(ViewIn(log', n))
    BY <1>1 DEF Reviewed
  <2>2. Separate(ViewIn(log', Len(log')))
    <3>1. PICK ix : ix = ViewIn(log, Len(log))
      OBVIOUS
    <3>2. ix \in [CRs -> Overrides \cup {Absent}] /\ Separate(ix)
      BY <1>1, <3>1, ViewType DEF Reviewed
    <3>3. Separate([ix EXCEPT ![e.cr] = Cache!Parsed(e.obj)])
      BY <1>2, <3>1, <3>2, SeparateStep
    <3>. QED
      BY <1>1, <3>1, <3>3
  <2>3. \A n \in 0..Len(log') : n \in 0..Len(log) \/ n = Len(log')
    BY <1>1
  <2>4. ASSUME NEW r \in reviews', NEW c \in CRs \ {r.cr}
        PROVE  Compatible(Cache!Parsed(r.obj), ViewIn(log', Len(log'))[c])
    <3>1. Cache!Parsed(e.obj) = Absent
      BY <2>4, ParsedOverrides
    <3>2. CASE c = e.cr
      <4>1. ViewIn(log', Len(log'))[c] = Absent
        BY <1>1, <1>2, <3>1, <3>2, ViewType
      <4>. QED
        BY <4>1, ParsedOverrides
    <3>3. CASE c # e.cr
      <4>1. ViewIn(log', Len(log'))[c] = ViewIn(log, Len(log))[c]
        BY <1>1, <3>3, ViewType
      <4>. QED
        BY <4>1 DEF Reviewed
    <3>. QED
      BY <3>2, <3>3
  <2>5. \A r, s \in reviews' : r = s
    BY DEF Reviewed
  <2>. QED
    BY <2>1, <2>2, <2>3, <2>4, <2>5
<1>. QED
  BY <1>1, <1>3

\* The informers move the index along the log; a process that starts has nothing.
LEMMA IndexStep ==
  ASSUME ClaimInv, UNCHANGED <<log, reviewVars>>,
         NEW n \in 0..Len(log), at' = n, index' = ViewIn(log, n)
  PROVE  ClaimInv'
<1>1. index' = ViewIn(log', at')
  OBVIOUS
<1>2. LogType'
  BY <1>1 DEF ClaimInv, LogType, reviewVars
<1>. QED
  BY <1>2 DEF ClaimInv, Reviewed, reviewVars

LEMMA ClaimNext == ClaimInv /\ [Next]_vars => ClaimInv'
<1>. SUFFICES ASSUME ClaimInv, [Next]_vars
              PROVE  ClaimInv'
  OBVIOUS
<1>. USE DEF crVars, nsVars, reviewVars, flushVars
<1>1. ASSUME NEW cr \in CRs, NEW obj \in Objects, Review(cr, obj)
      PROVE  ClaimInv'
  BY <1>1, ReviewStep
<1>2. ASSUME NEW cr \in CRs, NEW obj \in Objects, Unreviewed(cr, obj)
      PROVE  ClaimInv'
  <2>1. PICK e \in Entry : e = [cr |-> cr, obj |-> obj]
    BY DEF Entry
  <2>. QED
    BY <1>2, <2>1, StoreStep DEF Unreviewed, Cache!Write
<1>3. ASSUME NEW review \in reviews, Persist(review)
      PROVE  ClaimInv'
  <2>1. review \in [cr : CRs, obj : Objects]
    BY DEF ClaimInv, LogType
  <2>2. PICK e \in Entry : e = [cr |-> review.cr, obj |-> review.obj]
    BY <2>1 DEF Entry
  <2>3. log' = Append(log, e) /\ UNCHANGED <<at, index, raced>> /\ reviews' = reviews \ {review}
    BY <1>3, <2>2 DEF Persist, Cache!Write
  <2>4. ~raced => reviews' = {}
    BY <2>3 DEF ClaimInv, Reviewed
  <2>5. ~raced => \A c \in CRs \ {e.cr} : Compatible(Cache!Parsed(e.obj), ViewIn(log, Len(log))[c])
    BY <2>2 DEF ClaimInv, Reviewed
  <2>. QED
    BY <2>3, <2>4, <2>5, StoreStep
<1>4. ASSUME NEW cr \in CRs, Delete(cr)
      PROVE  ClaimInv'
  <2>1. PICK e \in Entry : e = [cr |-> cr, obj |-> Absent]
    BY DEF Entry
  <2>2. log' = Append(log, e) /\ UNCHANGED <<at, index, reviews, raced>>
    BY <1>4, <2>1 DEF Delete, Cache!Write
  <2>3. e.obj = Absent /\ Cache!Parsed(e.obj) = Absent
    BY <2>1, ParsedOverrides
  <2>. QED
    BY <2>2, <2>3, StoreStep, ParsedOverrides
<1>5. CASE CacheAdvances
  <2>1. /\ at' \in at..Len(log) /\ index' = Cache!View(at') /\ UNCHANGED <<log, reviews, raced>>
    BY <1>5 DEF CacheAdvances, Cache!Advance
  <2>2. PICK n \in 0..Len(log) : at' = n
    BY <2>1 DEF ClaimInv, LogType
  <2>3. index' = ViewIn(log, n)
    BY <2>1, <2>2, ViewOfLog
  <2>. QED
    BY <2>1, <2>2, <2>3, IndexStep
<1>6. CASE Crash \/ Exit \/ CutOff
  <2>1. at' = 0 /\ index' = ViewIn(log, 0) /\ UNCHANGED <<log, reviews, raced>>
    BY <1>6, ViewOfLog DEF Crash, Exit, CutOff, Boot, Cache!Forget
  <2>2. 0 \in 0..Len(log)
    BY DEF ClaimInv, LogType
  <2>. QED
    BY <2>1, <2>2, IndexStep
<1>7. CASE \/ CacheDegrades \/ Toggle \/ NamespaceSeen \/ NamespaceDegrades \/ Flush \/ Stop
           \/ (\E pod \in Pods : \E matches \in Lookups(pod) : Mutate(pod, matches))
           \/ UNCHANGED vars
  <2>1. UNCHANGED <<log, at, index, reviews, raced>>
    BY <1>7 DEF CacheDegrades, Toggle, NamespaceSeen, NamespaceDegrades, Flush, Stop, Mutate, vars
  <2>. QED
    BY <2>1 DEF ClaimInv, LogType, Reviewed
<1>. QED
  BY <1>1, <1>2, <1>3, <1>4, <1>5, <1>6, <1>7 DEF Next

\* As long as every CR was stored after a review that saw all the others, no
\* container of any pod is claimed by two cached CRs - whichever moment of the log
\* the cache shows, and whatever was deleted, missed or re-listed since.
THEOREM ClaimsStaySingle == Spec => []OneClaim
<1>1. ClaimInv => OneClaim
  <2>. SUFFICES ASSUME ClaimInv, ~raced,
                       NEW pod \in Pods, NEW matches \in Lookups(pod), NEW n \in ContainerNames(pod)
                PROVE  Cardinality(Listing(matches, n)) <= 1
    BY DEF OneClaim
  <2>. DEFINE S == {cr \in Cached : Matches(index[cr], pod)}
  <2>1. PICK s \in [1..Cardinality(S) -> S] :
          /\ \A x, y \in DOMAIN s : s[x] = s[y] => x = y
          /\ matches = [i \in DOMAIN s |-> [id |-> s[i], cr |-> index[s[i]]]]
    BY DEF Lookups
  <2>2. Separate(index)
    BY DEF ClaimInv, LogType, Reviewed
  <2>3. ASSUME NEW i \in Listing(matches, n), NEW j \in Listing(matches, n), i # j
        PROVE  FALSE
    <3>1. /\ i \in DOMAIN s /\ j \in DOMAIN s
          /\ n \in DOMAIN index[s[i]].containers /\ n \in DOMAIN index[s[j]].containers
      BY <2>1 DEF Listing
    <3>2. /\ s[i] # s[j] /\ s[i] \in CRs /\ s[j] \in CRs
          /\ index[s[i]] # Absent /\ index[s[j]] # Absent
          /\ Matches(index[s[i]], pod) /\ Matches(index[s[j]], pod)
      BY <2>1, <2>3, <3>1 DEF Cached
    <3>3. SelectorsCanOverlap(index[s[i]].labels, index[s[j]].labels)
      BY <3>2 DEF Matches, SelectorsCanOverlap
    <3>4. Compatible(index[s[i]], index[s[j]])
      BY <2>2, <3>2 DEF Separate
    <3>. QED
      BY <3>1, <3>2, <3>3, <3>4 DEF Compatible
  <2>4. Listing(matches, n) = {} \/ \E i : Listing(matches, n) = {i}
    BY <2>3
  <2>5. CASE Listing(matches, n) = {}
    BY <2>5, FS_EmptySet
  <2>6. CASE \E i : Listing(matches, n) = {i}
    <3>1. PICK i : Listing(matches, n) = {i}
      BY <2>6
    <3>2. Cardinality({i}) = 1
      BY FS_Singleton
    <3>. QED
      BY <3>1, <3>2
  <2>. QED
    BY <2>4, <2>5, <2>6
<1>. QED
  BY <1>1, ClaimInit, ClaimNext, PTL DEF Spec

-----------------------------------------------------------------------------
(* The recursive definitions of PodPatch.                                  *)

\* The recursive definitions of PodPatch have a solution, which they are then.
LEMMA NodesAre ==
  ASSUME NEW doc, NEW path, Len(path) \in Nat \ {0}
  PROVE  /\ Nodes(doc, path)[0] = doc
         /\ \A k \in 1..Len(path) - 1 : Nodes(doc, path)[k] = Nodes(doc, path)[k - 1][path[k]]
<1>. DEFINE Is(f, n) == f = [k \in 0..n |-> IF k = 0 THEN doc ELSE f[k - 1][path[k]]]
            S == {n \in Nat : \E f : Is(f, n)}
<1>1. 0 \in S
  <2>1. Is([k \in 0..0 |-> doc], 0)
    OBVIOUS
  <2>. QED
    BY <2>1
<1>2. ASSUME NEW n \in Nat, n \in S
      PROVE  n + 1 \in S
  <2>1. PICK f : Is(f, n)
    BY <1>2
  <2>2. PICK g : g = [k \in 0..n + 1 |-> IF k = n + 1 THEN f[n][path[n + 1]] ELSE f[k]]
    OBVIOUS
  <2>3. \A k \in 0..n + 1 : g[k] = IF k = 0 THEN doc ELSE g[k - 1][path[k]]
    <3>. TAKE k \in 0..n + 1
    <3>1. CASE k = 0
      BY <2>1, <2>2, <3>1
    <3>2. CASE k # 0
      <4>1. k - 1 \in 0..n /\ k - 1 \in 0..n + 1 /\ k - 1 # n + 1 /\ (k # n + 1 => k \in 0..n)
        BY <3>2
      <4>2. g[k - 1] = f[k - 1]
        BY <2>2, <4>1
      <4>3. CASE k = n + 1
        <5>1. k - 1 = n
          BY <4>3
        <5>. QED
          BY <2>2, <3>2, <4>2, <4>3, <5>1, Zenon
      <4>4. CASE k # n + 1
        BY <2>1, <2>2, <3>2, <4>1, <4>2, <4>4, Zenon
      <4>. QED
        BY <4>3, <4>4
    <3>. QED
      BY <3>1, <3>2
  <2>4. Is(g, n + 1)
    BY <2>2, <2>3, Zenon
  <2>. QED
    BY <2>4
<1>3. \A n \in Nat : n \in S
  <2>. HIDE DEF S
  <2>. QED
    BY <1>1, <1>2, Induction
<1>4. PICK f : Is(f, Len(path) - 1)
  BY <1>3
<1>5. Nodes(doc, path) = CHOOSE h : Is(h, Len(path) - 1)
  BY DEF Nodes
<1>6. Is(Nodes(doc, path), Len(path) - 1)
  <2>. HIDE DEF Is
  <2>. QED
    BY <1>4, <1>5
<1>. QED
  BY <1>6

LEMMA EditsAre ==
  ASSUME NEW doc, NEW ops, Len(ops) \in Nat
  PROVE  /\ Edits(doc, ops)[0] = doc
         /\ \A k \in 1..Len(ops) : Edits(doc, ops)[k] = After(Edits(doc, ops)[k - 1], ops[k])
<1>. DEFINE Is(f, n) == f = [k \in 0..n |-> IF k = 0 THEN doc ELSE After(f[k - 1], ops[k])]
            S == {n \in Nat : \E f : Is(f, n)}
<1>1. 0 \in S
  <2>1. Is([k \in 0..0 |-> doc], 0)
    OBVIOUS
  <2>. QED
    BY <2>1
<1>2. ASSUME NEW n \in Nat, n \in S
      PROVE  n + 1 \in S
  <2>1. PICK f : Is(f, n)
    BY <1>2
  <2>2. PICK g : g = [k \in 0..n + 1 |-> IF k = n + 1 THEN After(f[n], ops[n + 1]) ELSE f[k]]
    OBVIOUS
  <2>3. Is(g, n + 1)
    BY <2>1, <2>2
  <2>. QED
    BY <2>3
<1>3. \A n \in Nat : n \in S
  <2>. HIDE DEF S
  <2>. QED
    BY <1>1, <1>2, Induction
<1>4. PICK f : Is(f, Len(ops))
  BY <1>3
<1>5. Edits(doc, ops) = CHOOSE h : Is(h, Len(ops))
  BY DEF Edits
<1>6. Is(Edits(doc, ops), Len(ops))
  <2>. HIDE DEF Is
  <2>. QED
    BY <1>4, <1>5
<1>. QED
  BY <1>6

LEMMA PatchesAre ==
  ASSUME NEW pod, NEW matches, Len(pod.containers) \in Nat
  PROVE  /\ PatchesOfContainers(pod, matches)[0] = <<>>
         /\ \A n \in 1..Len(pod.containers) :
              PatchesOfContainers(pod, matches)[n] =
                PatchesOfContainers(pod, matches)[n - 1] \o PatchOfContainer(pod, matches, n)
<1>. DEFINE Is(f, n) == f = [k \in 0..n |-> IF k = 0 THEN <<>>
                                        ELSE f[k - 1] \o PatchOfContainer(pod, matches, k)]
            S == {n \in Nat : \E f : Is(f, n)}
<1>1. 0 \in S
  <2>1. Is([k \in 0..0 |-> <<>>], 0)
    OBVIOUS
  <2>. QED
    BY <2>1
<1>2. ASSUME NEW n \in Nat, n \in S
      PROVE  n + 1 \in S
  <2>1. PICK f : Is(f, n)
    BY <1>2
  <2>2. PICK g : g = [k \in 0..n + 1 |-> IF k = n + 1 THEN f[n] \o PatchOfContainer(pod, matches, n + 1)
                                        ELSE f[k]]
    OBVIOUS
  <2>3. \A k \in 0..n + 1 : g[k] = IF k = 0 THEN <<>> ELSE g[k - 1] \o PatchOfContainer(pod, matches, k)
    <3>. TAKE k \in 0..n + 1
    <3>1. CASE k = 0
      BY <2>1, <2>2, <3>1
    <3>2. CASE k # 0
      <4>1. k - 1 \in 0..n /\ k - 1 \in 0..n + 1 /\ k - 1 # n + 1 /\ (k # n + 1 => k \in 0..n)
        BY <3>2
      <4>2. g[k - 1] = f[k - 1]
        BY <2>2, <4>1
      <4>3. CASE k = n + 1
        <5>1. k - 1 = n
          BY <4>3
        <5>. QED
          BY <2>2, <3>2, <4>2, <4>3, <5>1, Zenon
      <4>4. CASE k # n + 1
        BY <2>1, <2>2, <3>2, <4>1, <4>2, <4>4, Zenon
      <4>. QED
        BY <4>3, <4>4
    <3>. QED
      BY <3>1, <3>2
  <2>4. Is(g, n + 1)
    BY <2>2, <2>3, Zenon
  <2>5. n + 1 \in Nat
    OBVIOUS
  <2>. HIDE DEF Is
  <2>. QED
    BY <2>4, <2>5
<1>3. \A n \in Nat : n \in S
  <2>. HIDE DEF S
  <2>. QED
    BY <1>1, <1>2, Induction
<1>4. PICK f : Is(f, Len(pod.containers))
  BY <1>3
<1>5. PatchesOfContainers(pod, matches) = CHOOSE h : Is(h, Len(pod.containers))
  BY DEF PatchesOfContainers
<1>6. Is(PatchesOfContainers(pod, matches), Len(pod.containers))
  <2>. HIDE DEF Is
  <2>. QED
    BY <1>4, <1>5
<1>7. ASSUME NEW n \in 1..Len(pod.containers)
      PROVE  n \in 0..Len(pod.containers) /\ n # 0
  OBVIOUS
<1>8. 0 \in 0..Len(pod.containers)
  OBVIOUS
<1>. QED
  BY <1>6, <1>7, <1>8, Zenon

LEMMA EditedAre ==
  ASSUME NEW doc, NEW op, Len(op.path) \in Nat \ {0}
  PROVE  /\ Edited(doc, op)[0] =
              Amended(Nodes(doc, op.path)[Len(op.path) - 1], op.path[Len(op.path)], op)
         /\ \A k \in 1..Len(op.path) - 1 :
              Edited(doc, op)[k] =
                Updated(Nodes(doc, op.path)[Len(op.path) - 1 - k], op.path[Len(op.path) - k],
                        Edited(doc, op)[k - 1])
<1>. DEFINE d == Len(op.path)
            old == Nodes(doc, op.path)
            Is(f, m) == f = [k \in 0..m |-> IF k = 0 THEN Amended(old[d - 1], op.path[d], op)
                                            ELSE Updated(old[d - 1 - k], op.path[d - k], f[k - 1])]
            S == {m \in Nat : \E f : Is(f, m)}
<1>1. 0 \in S
  <2>1. Is([k \in 0..0 |-> Amended(old[d - 1], op.path[d], op)], 0)
    <3>. HIDE DEF old, d
    <3>. QED
      OBVIOUS
  <2>. HIDE DEF Is
  <2>. QED
    BY <2>1
<1>2. ASSUME NEW m \in Nat, m \in S
      PROVE  m + 1 \in S
  <2>. HIDE DEF old, d
  <2>1. PICK f : Is(f, m)
    BY <1>2
  <2>2. PICK g : g = [k \in 0..m + 1 |-> IF k = m + 1
                                        THEN Updated(old[d - 1 - k], op.path[d - k], f[m]) ELSE f[k]]
    OBVIOUS
  <2>3. \A k \in 0..m + 1 : g[k] = IF k = 0 THEN Amended(old[d - 1], op.path[d], op)
                                 ELSE Updated(old[d - 1 - k], op.path[d - k], g[k - 1])
    <3>. TAKE k \in 0..m + 1
    <3>1. CASE k = 0
      BY <2>1, <2>2, <3>1
    <3>2. CASE k # 0
      <4>1. k - 1 \in 0..m /\ k - 1 \in 0..m + 1 /\ k - 1 # m + 1 /\ (k # m + 1 => k \in 0..m)
        BY <3>2
      <4>2. g[k - 1] = f[k - 1]
        BY <2>2, <4>1
      <4>3. CASE k = m + 1
        <5>1. k - 1 = m
          BY <4>3
        <5>. QED
          BY <2>2, <3>2, <4>2, <4>3, <5>1, Zenon
      <4>4. CASE k # m + 1
        BY <2>1, <2>2, <3>2, <4>1, <4>2, <4>4, Zenon
      <4>. QED
        BY <4>3, <4>4
    <3>. QED
      BY <3>1, <3>2
  <2>4. Is(g, m + 1)
    BY <2>2, <2>3, Zenon
  <2>5. m + 1 \in Nat
    OBVIOUS
  <2>. HIDE DEF Is
  <2>. QED
    BY <2>4, <2>5
<1>3. \A m \in Nat : m \in S
  <2>. HIDE DEF S
  <2>. QED
    BY <1>1, <1>2, Induction
<1>4. PICK f : Is(f, d - 1)
  <2>. HIDE DEF Is
  <2>1. d - 1 \in Nat
    OBVIOUS
  <2>. HIDE DEF d
  <2>. QED
    BY <1>3, <2>1
<1>5. Edited(doc, op) = CHOOSE h : Is(h, d - 1)
  BY Zenon DEF Edited
<1>6. Is(Edited(doc, op), d - 1)
  <2>. HIDE DEF Is
  <2>. QED
    BY <1>4, <1>5, Zenon
<1>7. d \in Nat \ {0}
  OBVIOUS
<1>. HIDE DEF d, old
<1>8. 0 \in 0..d - 1 /\ \A k \in 1..d - 1 : k \in 0..d - 1 /\ k # 0
  BY <1>7
<1>9. /\ Edited(doc, op)[0] = Amended(old[d - 1], op.path[d], op)
      /\ \A k \in 1..d - 1 :
           Edited(doc, op)[k] = Updated(old[d - 1 - k], op.path[d - k], Edited(doc, op)[k - 1])
  BY <1>6, <1>8, Zenon
<1>. QED
  BY <1>9, Zenon DEF old, d

IsSeq(s) == \E S : s \in Seq(S)

LEMMA Appended ==
  ASSUME NEW s, IsSeq(s), NEW a
  PROVE  /\ IsSeq(Append(s, a))
         /\ Len(s) \in Nat /\ DOMAIN s = 1..Len(s)
         /\ Len(Append(s, a)) = Len(s) + 1
         /\ DOMAIN Append(s, a) = 1..Len(s) + 1
         /\ \A k \in 1..Len(s) : Append(s, a)[k] = s[k]
         /\ Append(s, a)[Len(s) + 1] = a
<1>1. PICK S : s \in Seq(S)
  BY DEF IsSeq
<1>2. s \in Seq(S \cup {a}) /\ a \in S \cup {a}
  BY <1>1
<1>3. Append(s, a) \in Seq(S \cup {a})
  BY <1>2
<1>. QED
  BY <1>2, <1>3, AppendProperties DEF IsSeq

PutContainer(doc, i, c) == Updated(doc, "containers", Updated(doc.containers, i, c))

\* Their steps, by name.
NodesFollow(doc, path) ==
  \A k \in 1..Len(path) - 1 : Nodes(doc, path)[k] = Nodes(doc, path)[k - 1][path[k]]
LEMMA NodesAfter ==
  ASSUME NEW doc, NEW path, Len(path) \in Nat \ {0}
  PROVE  NodesFollow(doc, path)
BY NodesAre DEF NodesFollow

EditedFollow(doc, op) ==
  /\ Edited(doc, op)[0] = Amended(Nodes(doc, op.path)[Len(op.path) - 1], op.path[Len(op.path)], op)
  /\ \A k \in 1..Len(op.path) - 1 :
       Edited(doc, op)[k] = Updated(Nodes(doc, op.path)[Len(op.path) - 1 - k],
                                    op.path[Len(op.path) - k], Edited(doc, op)[k - 1])
LEMMA EditedAfter ==
  ASSUME NEW doc, NEW op, Len(op.path) \in Nat \ {0}
  PROVE  EditedFollow(doc, op)
BY EditedAre DEF EditedFollow

\* What an operation does whose path has so many keys.
LEMMA EditOf1 ==
  ASSUME NEW doc, NEW op, Len(op.path) = 1
  PROVE  /\ Lands(doc, op) <=>
              /\ (op.op # "add" => op.path[1] \in DOMAIN doc)
         /\ Edit(doc, op) =
              Amended(doc, op.path[1], op)
<1>0. NodesFollow(doc, op.path) /\ EditedFollow(doc, op)
  BY NodesAfter, EditedAfter
<1>1. Nodes(doc, op.path)[0] = doc
  BY NodesAre
<1>2. Edited(doc, op)[0] = Amended(doc, op.path[1], op)
  <2>1. Edited(doc, op)[0] = Amended(Nodes(doc, op.path)[Len(op.path) - 1], op.path[Len(op.path)], op)
    BY <1>0 DEF EditedFollow
  <2>2. Len(op.path) - 1 = 0
    OBVIOUS
  <2>. QED
    BY <2>1, <2>2, <1>1, Zenon
<1>3. Edit(doc, op) = Edited(doc, op)[0]
  BY DEF Edit
<1>4. Lands(doc, op) <=>
        /\ \A k \in 1..1 - 1 : op.path[k] \in DOMAIN Nodes(doc, op.path)[k - 1]
        /\ op.op # "add" => op.path[1] \in DOMAIN Nodes(doc, op.path)[1 - 1]
  BY DEF Lands
<1>5. Lands(doc, op) <=>
        /\ (op.op # "add" => op.path[1] \in DOMAIN doc)
  BY <1>1, <1>4
<1>. QED
  BY <1>2, <1>3, <1>5, Zenon

LEMMA EditOf2 ==
  ASSUME NEW doc, NEW op, Len(op.path) = 2
  PROVE  /\ Lands(doc, op) <=>
              /\ op.path[1] \in DOMAIN doc
              /\ (op.op # "add" => op.path[2] \in DOMAIN doc[op.path[1]])
         /\ Edit(doc, op) =
              Updated(doc, op.path[1],
                Amended(doc[op.path[1]], op.path[2], op))
<1>0. NodesFollow(doc, op.path) /\ EditedFollow(doc, op)
  BY NodesAfter, EditedAfter
<1>1. Nodes(doc, op.path)[0] = doc
  BY NodesAre
<1>2. Nodes(doc, op.path)[1] = doc[op.path[1]]
  <2>1. 1 \in 1..Len(op.path) - 1 /\ 1 - 1 = 0
    OBVIOUS
  <2>2. Nodes(doc, op.path)[1] = Nodes(doc, op.path)[1 - 1][op.path[1]]
    BY <2>1, <1>0 DEF NodesFollow
  <2>. QED
    BY <2>1, <2>2, <1>1
<1>3. Edited(doc, op)[0] = Amended(doc[op.path[1]], op.path[2], op)
  <2>1. Edited(doc, op)[0] = Amended(Nodes(doc, op.path)[Len(op.path) - 1], op.path[Len(op.path)], op)
    BY <1>0 DEF EditedFollow
  <2>2. Len(op.path) - 1 = 1
    OBVIOUS
  <2>. QED
    BY <2>1, <2>2, <1>2, Zenon
<1>4. Edited(doc, op)[1] = Updated(doc, op.path[1], Edited(doc, op)[0])
  <2>1. 1 \in 1..Len(op.path) - 1
    OBVIOUS
  <2>2. Edited(doc, op)[1] = Updated(Nodes(doc, op.path)[Len(op.path) - 1 - 1], op.path[Len(op.path) - 1],
                                   Edited(doc, op)[1 - 1])
    BY <2>1, <1>0 DEF EditedFollow
  <2>3. Len(op.path) - 1 - 1 = 0 /\ Len(op.path) - 1 = 1 /\ 1 - 1 = 0
    OBVIOUS
  <2>. QED
    BY <2>2, <2>3, <1>1, Zenon
<1>5. Edit(doc, op) = Edited(doc, op)[1]
  BY DEF Edit
<1>6. Lands(doc, op) <=>
        /\ \A k \in 1..2 - 1 : op.path[k] \in DOMAIN Nodes(doc, op.path)[k - 1]
        /\ op.op # "add" => op.path[2] \in DOMAIN Nodes(doc, op.path)[2 - 1]
  BY DEF Lands
<1>7. Lands(doc, op) <=>
        /\ op.path[1] \in DOMAIN doc
        /\ (op.op # "add" => op.path[2] \in DOMAIN doc[op.path[1]])
  BY <1>1, <1>2, <1>6
<1>. QED
  BY <1>3, <1>4, <1>5, <1>7, Zenon

LEMMA EditOf3 ==
  ASSUME NEW doc, NEW op, Len(op.path) = 3
  PROVE  /\ Lands(doc, op) <=>
              /\ op.path[1] \in DOMAIN doc
              /\ op.path[2] \in DOMAIN doc[op.path[1]]
              /\ (op.op # "add" => op.path[3] \in DOMAIN doc[op.path[1]][op.path[2]])
         /\ Edit(doc, op) =
              Updated(doc, op.path[1],
                Updated(doc[op.path[1]], op.path[2],
                Amended(doc[op.path[1]][op.path[2]], op.path[3], op)))
<1>0. NodesFollow(doc, op.path) /\ EditedFollow(doc, op)
  BY NodesAfter, EditedAfter
<1>1. Nodes(doc, op.path)[0] = doc
  BY NodesAre
<1>2. Nodes(doc, op.path)[1] = doc[op.path[1]]
  <2>1. 1 \in 1..Len(op.path) - 1 /\ 1 - 1 = 0
    OBVIOUS
  <2>2. Nodes(doc, op.path)[1] = Nodes(doc, op.path)[1 - 1][op.path[1]]
    BY <2>1, <1>0 DEF NodesFollow
  <2>. QED
    BY <2>1, <2>2, <1>1
<1>3. Nodes(doc, op.path)[2] = doc[op.path[1]][op.path[2]]
  <2>1. 2 \in 1..Len(op.path) - 1 /\ 2 - 1 = 1
    OBVIOUS
  <2>2. Nodes(doc, op.path)[2] = Nodes(doc, op.path)[2 - 1][op.path[2]]
    BY <2>1, <1>0 DEF NodesFollow
  <2>. QED
    BY <2>1, <2>2, <1>2
<1>4. Edited(doc, op)[0] = Amended(doc[op.path[1]][op.path[2]], op.path[3], op)
  <2>1. Edited(doc, op)[0] = Amended(Nodes(doc, op.path)[Len(op.path) - 1], op.path[Len(op.path)], op)
    BY <1>0 DEF EditedFollow
  <2>2. Len(op.path) - 1 = 2
    OBVIOUS
  <2>. QED
    BY <2>1, <2>2, <1>3, Zenon
<1>5. Edited(doc, op)[1] = Updated(doc[op.path[1]], op.path[2], Edited(doc, op)[0])
  <2>1. 1 \in 1..Len(op.path) - 1
    OBVIOUS
  <2>2. Edited(doc, op)[1] = Updated(Nodes(doc, op.path)[Len(op.path) - 1 - 1], op.path[Len(op.path) - 1],
                                   Edited(doc, op)[1 - 1])
    BY <2>1, <1>0 DEF EditedFollow
  <2>3. Len(op.path) - 1 - 1 = 1 /\ Len(op.path) - 1 = 2 /\ 1 - 1 = 0
    OBVIOUS
  <2>. QED
    BY <2>2, <2>3, <1>2, Zenon
<1>6. Edited(doc, op)[2] = Updated(doc, op.path[1], Edited(doc, op)[1])
  <2>1. 2 \in 1..Len(op.path) - 1
    OBVIOUS
  <2>2. Edited(doc, op)[2] = Updated(Nodes(doc, op.path)[Len(op.path) - 1 - 2], op.path[Len(op.path) - 2],
                                   Edited(doc, op)[2 - 1])
    BY <2>1, <1>0 DEF EditedFollow
  <2>3. Len(op.path) - 1 - 2 = 0 /\ Len(op.path) - 2 = 1 /\ 2 - 1 = 1
    OBVIOUS
  <2>. QED
    BY <2>2, <2>3, <1>1, Zenon
<1>7. Edit(doc, op) = Edited(doc, op)[2]
  BY DEF Edit
<1>8. Lands(doc, op) <=>
        /\ \A k \in 1..3 - 1 : op.path[k] \in DOMAIN Nodes(doc, op.path)[k - 1]
        /\ op.op # "add" => op.path[3] \in DOMAIN Nodes(doc, op.path)[3 - 1]
  BY DEF Lands
<1>9. Lands(doc, op) <=>
        /\ op.path[1] \in DOMAIN doc
        /\ op.path[2] \in DOMAIN doc[op.path[1]]
        /\ (op.op # "add" => op.path[3] \in DOMAIN doc[op.path[1]][op.path[2]])
  BY <1>1, <1>2, <1>3, <1>8
<1>. QED
  BY <1>4, <1>5, <1>6, <1>7, <1>9, Zenon

LEMMA EditOf4 ==
  ASSUME NEW doc, NEW op, Len(op.path) = 4
  PROVE  /\ Lands(doc, op) <=>
              /\ op.path[1] \in DOMAIN doc
              /\ op.path[2] \in DOMAIN doc[op.path[1]]
              /\ op.path[3] \in DOMAIN doc[op.path[1]][op.path[2]]
              /\ (op.op # "add" => op.path[4] \in DOMAIN doc[op.path[1]][op.path[2]][op.path[3]])
         /\ Edit(doc, op) =
              Updated(doc, op.path[1],
                Updated(doc[op.path[1]], op.path[2],
                Updated(doc[op.path[1]][op.path[2]], op.path[3],
                Amended(doc[op.path[1]][op.path[2]][op.path[3]], op.path[4], op))))
<1>0. NodesFollow(doc, op.path) /\ EditedFollow(doc, op)
  BY NodesAfter, EditedAfter
<1>1. Nodes(doc, op.path)[0] = doc
  BY NodesAre
<1>2. Nodes(doc, op.path)[1] = doc[op.path[1]]
  <2>1. 1 \in 1..Len(op.path) - 1 /\ 1 - 1 = 0
    OBVIOUS
  <2>2. Nodes(doc, op.path)[1] = Nodes(doc, op.path)[1 - 1][op.path[1]]
    BY <2>1, <1>0 DEF NodesFollow
  <2>. QED
    BY <2>1, <2>2, <1>1
<1>3. Nodes(doc, op.path)[2] = doc[op.path[1]][op.path[2]]
  <2>1. 2 \in 1..Len(op.path) - 1 /\ 2 - 1 = 1
    OBVIOUS
  <2>2. Nodes(doc, op.path)[2] = Nodes(doc, op.path)[2 - 1][op.path[2]]
    BY <2>1, <1>0 DEF NodesFollow
  <2>. QED
    BY <2>1, <2>2, <1>2
<1>4. Nodes(doc, op.path)[3] = doc[op.path[1]][op.path[2]][op.path[3]]
  <2>1. 3 \in 1..Len(op.path) - 1 /\ 3 - 1 = 2
    OBVIOUS
  <2>2. Nodes(doc, op.path)[3] = Nodes(doc, op.path)[3 - 1][op.path[3]]
    BY <2>1, <1>0 DEF NodesFollow
  <2>. QED
    BY <2>1, <2>2, <1>3
<1>5. Edited(doc, op)[0] = Amended(doc[op.path[1]][op.path[2]][op.path[3]], op.path[4], op)
  <2>1. Edited(doc, op)[0] = Amended(Nodes(doc, op.path)[Len(op.path) - 1], op.path[Len(op.path)], op)
    BY <1>0 DEF EditedFollow
  <2>2. Len(op.path) - 1 = 3
    OBVIOUS
  <2>. QED
    BY <2>1, <2>2, <1>4, Zenon
<1>6. Edited(doc, op)[1] = Updated(doc[op.path[1]][op.path[2]], op.path[3], Edited(doc, op)[0])
  <2>1. 1 \in 1..Len(op.path) - 1
    OBVIOUS
  <2>2. Edited(doc, op)[1] = Updated(Nodes(doc, op.path)[Len(op.path) - 1 - 1], op.path[Len(op.path) - 1],
                                   Edited(doc, op)[1 - 1])
    BY <2>1, <1>0 DEF EditedFollow
  <2>3. Len(op.path) - 1 - 1 = 2 /\ Len(op.path) - 1 = 3 /\ 1 - 1 = 0
    OBVIOUS
  <2>. QED
    BY <2>2, <2>3, <1>3, Zenon
<1>7. Edited(doc, op)[2] = Updated(doc[op.path[1]], op.path[2], Edited(doc, op)[1])
  <2>1. 2 \in 1..Len(op.path) - 1
    OBVIOUS
  <2>2. Edited(doc, op)[2] = Updated(Nodes(doc, op.path)[Len(op.path) - 1 - 2], op.path[Len(op.path) - 2],
                                   Edited(doc, op)[2 - 1])
    BY <2>1, <1>0 DEF EditedFollow
  <2>3. Len(op.path) - 1 - 2 = 1 /\ Len(op.path) - 2 = 2 /\ 2 - 1 = 1
    OBVIOUS
  <2>. QED
    BY <2>2, <2>3, <1>2, Zenon
<1>8. Edited(doc, op)[3] = Updated(doc, op.path[1], Edited(doc, op)[2])
  <2>1. 3 \in 1..Len(op.path) - 1
    OBVIOUS
  <2>2. Edited(doc, op)[3] = Updated(Nodes(doc, op.path)[Len(op.path) - 1 - 3], op.path[Len(op.path) - 3],
                                   Edited(doc, op)[3 - 1])
    BY <2>1, <1>0 DEF EditedFollow
  <2>3. Len(op.path) - 1 - 3 = 0 /\ Len(op.path) - 3 = 1 /\ 3 - 1 = 2
    OBVIOUS
  <2>. QED
    BY <2>2, <2>3, <1>1, Zenon
<1>9. Edit(doc, op) = Edited(doc, op)[3]
  BY DEF Edit
<1>10. Lands(doc, op) <=>
        /\ \A k \in 1..4 - 1 : op.path[k] \in DOMAIN Nodes(doc, op.path)[k - 1]
        /\ op.op # "add" => op.path[4] \in DOMAIN Nodes(doc, op.path)[4 - 1]
  BY DEF Lands
<1>11. Lands(doc, op) <=>
        /\ op.path[1] \in DOMAIN doc
        /\ op.path[2] \in DOMAIN doc[op.path[1]]
        /\ op.path[3] \in DOMAIN doc[op.path[1]][op.path[2]]
        /\ (op.op # "add" => op.path[4] \in DOMAIN doc[op.path[1]][op.path[2]][op.path[3]])
  BY <1>1, <1>2, <1>3, <1>4, <1>10
<1>. QED
  BY <1>5, <1>6, <1>7, <1>8, <1>9, <1>11, Zenon

\* Where the operations of a container lead.
LEMMA EditOfResources ==
  ASSUME NEW doc, NEW i, NEW op, op.path = <<"containers", i, "resources">>, op.op = "add",
         "containers" \in DOMAIN doc, i \in DOMAIN doc.containers
  PROVE  /\ Lands(doc, op)
         /\ Edit(doc, op) = PutContainer(doc, i, Amended(doc.containers[i], "resources", op))
<1>1. Len(op.path) = 3 /\ op.path[1] = "containers" /\ op.path[2] = i /\ op.path[3] = "resources"
  OBVIOUS
<1>. QED
  BY <1>1, EditOf3 DEF PutContainer

LEMMA EditOfQuantities ==
  ASSUME NEW doc, NEW i, NEW key, NEW op, op.path = Append(<<"containers", i, "resources">>, key),
         "containers" \in DOMAIN doc, i \in DOMAIN doc.containers,
         "resources" \in DOMAIN doc.containers[i],
         op.op # "add" => key \in DOMAIN doc.containers[i].resources
  PROVE  /\ Lands(doc, op)
         /\ Edit(doc, op) =
              PutContainer(doc, i, Updated(doc.containers[i], "resources",
                                           Amended(doc.containers[i].resources, key, op)))
<1>1. /\ Len(op.path) = 4 /\ op.path[1] = "containers" /\ op.path[2] = i
      /\ op.path[3] = "resources" /\ op.path[4] = key
  <2>1. PICK start : start = <<"containers", i, "resources">>
    OBVIOUS
  <2>2. IsSeq(start)
    <3>1. start \in Seq({"containers", i, "resources"})
      BY <2>1
    <3>. QED
      BY <3>1 DEF IsSeq
  <2>6. PICK all : all = Append(start, key)
    OBVIOUS
  <2>3. /\ Len(start) \in Nat /\ DOMAIN start = 1..Len(start)
        /\ Len(all) = Len(start) + 1
        /\ \A k \in 1..Len(start) : all[k] = start[k]
        /\ all[Len(start) + 1] = key
    BY <2>2, <2>6, Appended
  <2>5. Len(start) = 3 /\ start[1] = "containers" /\ start[2] = i /\ start[3] = "resources"
    BY <2>1
  <2>4. 1 \in 1..Len(start) /\ 2 \in 1..Len(start) /\ 3 \in 1..Len(start) /\ Len(start) + 1 = 4
    BY <2>5
  <2>. QED
    BY <2>1, <2>3, <2>4, <2>5, <2>6
<1>. QED
  BY <1>1, EditOf4 DEF PutContainer

\* And the annotation.
LEMMA EditOfAnnotations ==
  ASSUME NEW doc, NEW sources, NEW op, op = Annotate(doc, sources)
  PROVE  /\ Lands(doc, op)
         /\ "annotations" \in DOMAIN Edit(doc, op)
         /\ \A key \in DOMAIN doc \ {"annotations"} : Edit(doc, op)[key] = doc[key]
         /\ Edit(doc, op).annotations[AppliedBy] = sources
         /\ "annotations" \in DOMAIN doc =>
              \A key \in DOMAIN doc.annotations \ {AppliedBy} :
                Edit(doc, op).annotations[key] = doc.annotations[key]
<1>1. CASE "annotations" \notin DOMAIN doc \/ DOMAIN doc.annotations = {}
  <2>1. /\ op.op = "add" /\ op.value = [k \in {AppliedBy} |-> sources]
        /\ Len(op.path) = 1 /\ op.path[1] = "annotations"
    BY <1>1 DEF Annotate, Op
  <2>2. Lands(doc, op)
    BY <2>1, EditOf1
  <2>3. Edit(doc, op) = Amended(doc, "annotations", op)
    BY <2>1, EditOf1
  <2>4. Edit(doc, op) = [x \in DOMAIN doc \cup {"annotations"} |->
                          IF x = "annotations" THEN op.value ELSE doc[x]]
    BY <2>1, <2>3 DEF Amended
  <2>. QED
    BY <1>1, <2>1, <2>2, <2>4
<1>2. CASE "annotations" \in DOMAIN doc /\ DOMAIN doc.annotations # {}
  <2>1. /\ op.op = "add" /\ op.value = sources
        /\ Len(op.path) = 2 /\ op.path[1] = "annotations" /\ op.path[2] = AppliedBy
    BY <1>2 DEF Annotate, Op
  <2>2. Lands(doc, op)
    BY <1>2, <2>1, EditOf2
  <2>3. PICK notes : notes = [x \in DOMAIN doc.annotations \cup {AppliedBy} |->
                               IF x = AppliedBy THEN sources ELSE doc.annotations[x]]
    OBVIOUS
  <2>4. Edit(doc, op) = Updated(doc, "annotations", Amended(doc.annotations, AppliedBy, op))
    BY <2>1, EditOf2
  <2>5. Amended(doc.annotations, AppliedBy, op) = notes
    BY <2>1, <2>3 DEF Amended
  <2>. QED
    BY <1>2, <2>2, <2>3, <2>4, <2>5 DEF Updated
<1>. QED
  BY <1>1, <1>2

-----------------------------------------------------------------------------
(* A patch, an operation at a time.                                        *)

EditsFollow(doc, ops) ==
  \A k \in 1..Len(ops) : Edits(doc, ops)[k] = After(Edits(doc, ops)[k - 1], ops[k])
LEMMA EditsAfter ==
  ASSUME NEW doc, NEW ops, Len(ops) \in Nat
  PROVE  EditsFollow(doc, ops) /\ Edits(doc, ops)[0] = doc
BY EditsAre DEF EditsFollow

LEMMA Joined ==
  ASSUME NEW s, IsSeq(s), NEW a, NEW b
  PROVE  /\ s \o <<>> = s
         /\ s \o <<a>> = Append(s, a)
         /\ s \o <<a, b>> = Append(Append(s, a), b)
<1>1. PICK S : s \in Seq(S)
  BY DEF IsSeq
<1>. DEFINE T == S \cup {a, b}
<1>2. s \in Seq(T) /\ a \in T /\ b \in T
  BY <1>1
<1>. HIDE DEF T
<1>3. s \o <<>> = s
  BY <1>2, ConcatEmptySeq
<1>4. s \o <<a>> = Append(s, a)
  BY <1>2, AppendIsConcat
<1>5. s \o <<a, b>> = Append(Append(s, a), b)
  <2>1. Append(<<a>>, b) = <<a, b>>
    <3>1. PICK v : v = <<a>>
      OBVIOUS
    <3>2. v \in Seq(T) /\ Len(v) = 1 /\ v[1] = a
      BY <1>2, <3>1
    <3>3. PICK x : x = Append(v, b)
      OBVIOUS
    <3>4. x \in Seq(T) /\ Len(x) = 2 /\ x[1] = a /\ x[2] = b
      <4>1. /\ x \in Seq(T) /\ Len(x) = Len(v) + 1 /\ x[Len(v) + 1] = b
            /\ \A k \in 1..Len(v) : x[k] = v[k]
        <5>1. Append(v, b) \in Seq(T)
          BY <1>2, <3>2, AppendProperties
        <5>2. IsSeq(v)
          BY <3>2 DEF IsSeq
        <5>. QED
          BY <3>3, <5>1, <5>2, Appended
      <4>2. 1 \in 1..Len(v) /\ Len(v) + 1 = 2
        BY <3>2
      <4>. QED
        BY <3>2, <4>1, <4>2
    <3>5. x = <<a, b>>
      BY <3>4
    <3>. QED
      BY <3>1, <3>3, <3>5
  <2>2. s \o Append(<<a>>, b) = Append(s \o <<a>>, b)
    BY <1>2
  <2>. QED
    BY <1>4, <2>1, <2>2
<1>. QED
  BY <1>3, <1>4, <1>5

LEMMA PatchedAppend ==
  ASSUME NEW doc, NEW s, IsSeq(s), NEW op
  PROVE  /\ Patched(doc, Append(s, op)) = After(Patched(doc, s), op)
         /\ Accepts(doc, Append(s, op)) <=> Accepts(doc, s) /\ Lands(Patched(doc, s), op)
<1>1. PICK t : t = Append(s, op)
  OBVIOUS
<1>2. /\ Len(s) \in Nat /\ DOMAIN s = 1..Len(s)
      /\ Len(t) = Len(s) + 1 /\ DOMAIN t = 1..Len(s) + 1
      /\ \A k \in 1..Len(s) : t[k] = s[k]
      /\ t[Len(s) + 1] = op
  BY <1>1, Appended
<1>3. /\ EditsFollow(doc, s) /\ Edits(doc, s)[0] = doc
      /\ EditsFollow(doc, t) /\ Edits(doc, t)[0] = doc
  BY <1>2, EditsAfter
<1>. DEFINE S == {k \in Nat : k <= Len(s) => Edits(doc, t)[k] = Edits(doc, s)[k]}
<1>4. 0 \in S
  BY <1>3
<1>5. ASSUME NEW k \in Nat, k \in S
      PROVE  k + 1 \in S
  <2>. SUFFICES ASSUME k + 1 <= Len(s)
                PROVE  Edits(doc, t)[k + 1] = Edits(doc, s)[k + 1]
    OBVIOUS
  <2>1. k + 1 \in 1..Len(s) /\ k + 1 \in 1..Len(t) /\ (k + 1) - 1 = k
    BY <1>2
  <2>2. Edits(doc, t)[k] = Edits(doc, s)[k]
    BY <1>2, <1>5
  <2>. QED
    BY <1>2, <1>3, <2>1, <2>2 DEF EditsFollow
<1>6. \A k \in Nat : k \in S
  <2>. HIDE DEF S
  <2>. QED
    BY <1>4, <1>5, Induction
<1>7. \A k \in 0..Len(s) : Edits(doc, t)[k] = Edits(doc, s)[k]
  BY <1>2, <1>6
<1>8. Patched(doc, t) = After(Patched(doc, s), op)
  <2>1. Len(s) + 1 \in 1..Len(t) /\ (Len(s) + 1) - 1 = Len(s) /\ Len(s) \in 0..Len(s)
    BY <1>2
  <2>. QED
    BY <1>2, <1>3, <1>7, <2>1 DEF EditsFollow, Patched
<1>9. Accepts(doc, t) <=> Accepts(doc, s) /\ Lands(Patched(doc, s), op)
  <2>1. /\ DOMAIN t = DOMAIN s \cup {Len(s) + 1} /\ (Len(s) + 1) - 1 = Len(s)
        /\ Len(s) \in 0..Len(s) /\ \A k \in DOMAIN s : k - 1 \in 0..Len(s)
    BY <1>2
  <2>2. \A k \in DOMAIN s : Lands(Edits(doc, t)[k - 1], t[k]) <=> Lands(Edits(doc, s)[k - 1], s[k])
    BY <1>2, <1>7, <2>1
  <2>3. Lands(Edits(doc, t)[(Len(s) + 1) - 1], t[Len(s) + 1]) <=> Lands(Patched(doc, s), op)
    BY <1>2, <1>7, <2>1 DEF Patched
  <2>. QED
    BY <2>1, <2>2, <2>3 DEF Accepts
<1>. QED
  BY <1>1, <1>8, <1>9

-----------------------------------------------------------------------------
(* What a container's operations do.                                       *)

\* Nothing but the i-th container is another, and that is `container'.
Elsewhere(doc, new, i, container) ==
  /\ DOMAIN new = DOMAIN doc
  /\ \A key \in DOMAIN doc \ {"containers"} : new[key] = doc[key]
  /\ DOMAIN new.containers = DOMAIN doc.containers
  /\ \A j \in DOMAIN doc.containers \ {i} : new.containers[j] = doc.containers[j]
  /\ new.containers[i] = container

LEMMA PutThere ==
  ASSUME NEW doc, NEW i, NEW c, "containers" \in DOMAIN doc, i \in DOMAIN doc.containers
  PROVE  Elsewhere(doc, PutContainer(doc, i, c), i, c)
<1>1. PICK list : list = Updated(doc.containers, i, c)
  OBVIOUS
<1>2. /\ DOMAIN list = DOMAIN doc.containers /\ list[i] = c
      /\ \A j \in DOMAIN doc.containers \ {i} : list[j] = doc.containers[j]
  BY <1>1 DEF Updated
<1>3. PICK new : new = Updated(doc, "containers", list)
  OBVIOUS
<1>4. /\ DOMAIN new = DOMAIN doc /\ new.containers = list
      /\ \A key \in DOMAIN doc \ {"containers"} : new[key] = doc[key]
  BY <1>3 DEF Updated
<1>. QED
  BY <1>1, <1>2, <1>3, <1>4 DEF PutContainer, Elsewhere

LEMMA PutTwice ==
  ASSUME NEW doc, NEW new, NEW newer, NEW i, NEW c, NEW d,
         Elsewhere(doc, new, i, c), Elsewhere(new, newer, i, d)
  PROVE  Elsewhere(doc, newer, i, d)
BY DEF Elsewhere

\* The quantities a container is to have.
Wanted(container, target, k) ==
  IF target[k] # Empty \/ (k = "limits" /\ target.spelled) THEN target[k]
  ELSE Quantities(container, k)

\* The container has them, and its name.
Serves(new, container, target) ==
  /\ new.name = container.name
  /\ \A k \in {"requests", "limits"} : Quantities(new, k) = Wanted(container, target, k)

LEMMA ResourcesServe ==
  ASSUME NEW c, NEW target, NEW op, "name" \in DOMAIN c, "resources" \notin DOMAIN c,
         op = Op("add", op.path, [k \in {g \in {"requests", "limits"} : target[g] # Empty} |-> target[k]])
  PROVE  Serves(Amended(c, "resources", op), c, target)
<1>1. PICK value : value = [k \in {g \in {"requests", "limits"} : target[g] # Empty} |-> target[k]]
  OBVIOUS
<1>2. op.op = "add" /\ op.value = value
  BY <1>1 DEF Op
<1>3. PICK new : new = Amended(c, "resources", op)
  OBVIOUS
<1>4. new = [x \in DOMAIN c \cup {"resources"} |-> IF x = "resources" THEN value ELSE c[x]]
  BY <1>2, <1>3 DEF Amended
<1>5. "resources" \in DOMAIN new /\ new.resources = value /\ new.name = c.name
  BY <1>4
<1>6. \A k \in {"requests", "limits"} :
        Quantities(new, k) = IF target[k] # Empty THEN target[k] ELSE Empty
  BY <1>1, <1>5 DEF Quantities
<1>7. \A k : Quantities(c, k) = Empty
  BY DEF Quantities
<1>. QED
  BY <1>3, <1>5, <1>6, <1>7 DEF Serves, Wanted

\* A subtree that is put or removed has its value, and the other one is left.
LEMMA SubtreeAmended ==
  ASSUME NEW c, NEW key, NEW op, "name" \in DOMAIN c, "resources" \in DOMAIN c,
         op.op = "remove" => op.value = Empty,
         NEW d, d = Updated(c, "resources", Amended(c.resources, key, op))
  PROVE  /\ "name" \in DOMAIN d /\ "resources" \in DOMAIN d /\ d.name = c.name
         /\ Quantities(d, key) = op.value
         /\ \A k : k # key => /\ Quantities(d, k) = Quantities(c, k)
                              /\ k \in DOMAIN d.resources <=> k \in DOMAIN c.resources
<1>1. PICK r : r = Amended(c.resources, key, op)
  OBVIOUS
<1>2. /\ op.op = "remove" => key \notin DOMAIN r
      /\ op.op # "remove" => key \in DOMAIN r /\ r[key] = op.value
      /\ \A k : k # key => (k \in DOMAIN r <=> k \in DOMAIN c.resources)
      /\ \A k \in DOMAIN r : k # key => r[k] = c.resources[k]
  BY <1>1 DEF Amended
<1>3. DOMAIN d = DOMAIN c /\ d.resources = r /\ d.name = c.name
  BY <1>1 DEF Updated
<1>4. Quantities(d, key) = op.value
  BY <1>2, <1>3 DEF Quantities
<1>5. \A k : k # key => Quantities(d, k) = Quantities(c, k)
  BY <1>2, <1>3 DEF Quantities
<1>. QED
  BY <1>2, <1>3, <1>4, <1>5

LEMMA OneMore ==
  ASSUME NEW pod, NEW s, IsSeq(s), Accepts(pod, s), NEW op, Lands(Patched(pod, s), op)
  PROVE  /\ IsSeq(Append(s, op)) /\ Accepts(pod, Append(s, op))
         /\ Patched(pod, Append(s, op)) = Edit(Patched(pod, s), op)
BY Appended, PatchedAppend DEF After

LEMMA SubtreePatched ==
  ASSUME NEW pod, NEW s, IsSeq(s), Accepts(pod, s), NEW i, NEW c, NEW key, NEW op,
         "containers" \in DOMAIN Patched(pod, s), i \in DOMAIN Patched(pod, s).containers,
         c = Patched(pod, s).containers[i], "resources" \in DOMAIN c,
         op.path = Append(<<"containers", i, "resources">>, key),
         op.op # "add" => key \in DOMAIN c.resources
  PROVE  /\ IsSeq(Append(s, op)) /\ Accepts(pod, Append(s, op))
         /\ Elsewhere(Patched(pod, s), Patched(pod, Append(s, op)), i,
                      Updated(c, "resources", Amended(c.resources, key, op)))
<1>1. PICK doc : doc = Patched(pod, s)
  OBVIOUS
<1>2. PICK d : d = Updated(c, "resources", Amended(c.resources, key, op))
  OBVIOUS
<1>3. Lands(doc, op) /\ Edit(doc, op) = PutContainer(doc, i, d)
  BY <1>1, <1>2, EditOfQuantities
<1>4. Elsewhere(doc, PutContainer(doc, i, d), i, d)
  BY <1>1, PutThere
<1>. QED
  BY <1>1, <1>2, <1>3, <1>4, OneMore

LEMMA ContainerPatched ==
  ASSUME NEW pod, NEW s, IsSeq(s), Accepts(pod, s), NEW i, NEW c, NEW target,
         "containers" \in DOMAIN Patched(pod, s), i \in DOMAIN Patched(pod, s).containers,
         c = Patched(pod, s).containers[i], "name" \in DOMAIN c
  PROVE  /\ IsSeq(s \o PatchContainer(c, i, target))
         /\ Accepts(pod, s \o PatchContainer(c, i, target))
         /\ \E new : /\ Serves(new, c, target)
                     /\ Elsewhere(Patched(pod, s), Patched(pod, s \o PatchContainer(c, i, target)), i, new)
<1>. DEFINE given == {k \in {"requests", "limits"} : target[k] # Empty}
            clear == target.spelled /\ target.limits = Empty
            path  == <<"containers", i, "resources">>
            piece == PatchContainer(c, i, target)
<1>1. Elsewhere(Patched(pod, s), Patched(pod, s), i, c)
  BY DEF Elsewhere
<1>2. CASE given = {} /\ ~clear
  <2>1. piece = <<>>
    BY <1>2 DEF PatchContainer
  <2>2. Serves(c, c, target)
    BY <1>2 DEF Serves, Wanted
  <2>. QED
    BY <1>1, <2>1, <2>2, Joined
<1>3. CASE ~(given = {} /\ ~clear) /\ "resources" \notin DOMAIN c
  <2>1. PICK op : op = Op("add", path, [k \in given |-> target[k]])
    OBVIOUS
  <2>2. piece = <<op>>
    BY <1>3, <2>1 DEF PatchContainer
  <2>3. op.path = path /\ op.op = "add"
    BY <2>1 DEF Op
  <2>4. PICK d : d = Amended(c, "resources", op)
    OBVIOUS
  <2>5. Lands(Patched(pod, s), op) /\ Edit(Patched(pod, s), op) = PutContainer(Patched(pod, s), i, d)
    BY <2>3, <2>4, EditOfResources
  <2>6. Serves(d, c, target)
    BY <1>3, <2>1, <2>3, <2>4, ResourcesServe
  <2>7. Elsewhere(Patched(pod, s), PutContainer(Patched(pod, s), i, d), i, d)
    BY PutThere
  <2>8. /\ IsSeq(Append(s, op)) /\ Accepts(pod, Append(s, op))
        /\ Patched(pod, Append(s, op)) = Edit(Patched(pod, s), op)
    BY <2>5, OneMore
  <2>9. s \o piece = Append(s, op)
    BY <2>2, Joined
  <2>10. Elsewhere(Patched(pod, s), Patched(pod, s \o piece), i, d)
    BY <2>5, <2>7, <2>8, <2>9
  <2>. HIDE DEF piece
  <2>11. IsSeq(s \o piece) /\ Accepts(pod, s \o piece)
    BY <2>8, <2>9
  <2>. QED
    BY <2>6, <2>10, <2>11 DEF piece
<1>4. CASE ~(given = {} /\ ~clear) /\ "resources" \in DOMAIN c
  <2>. DEFINE add(k) == Op(IF k \in DOMAIN c.resources THEN "replace" ELSE "add",
                           Append(path, k), target[k])
              put(k) == IF k \notin given THEN <<>> ELSE <<add(k)>>
              take   == Op("remove", Append(path, "limits"), Empty)
              rest   == IF clear /\ "limits" \in DOMAIN c.resources THEN <<take>> ELSE <<>>
  <2>1. piece = put("requests") \o put("limits") \o rest
    BY <1>4, Zenon DEF PatchContainer
  <2>2. ASSUME NEW k
        PROVE  /\ add(k).path = Append(<<"containers", i, "resources">>, k)
               /\ add(k).op \in {"add", "replace"} /\ add(k).value = target[k]
               /\ add(k).op # "add" => k \in DOMAIN c.resources
    BY DEF Op
  <2>3. /\ take.path = Append(<<"containers", i, "resources">>, "limits")
        /\ take.op = "remove" /\ take.value = Empty
    BY DEF Op
  <2>. HIDE DEF add, take
  <2>4. \E d : /\ IsSeq(s \o put("requests")) /\ Accepts(pod, s \o put("requests"))
               /\ Elsewhere(Patched(pod, s), Patched(pod, s \o put("requests")), i, d)
               /\ "name" \in DOMAIN d /\ "resources" \in DOMAIN d /\ d.name = c.name
               /\ Quantities(d, "requests") = Wanted(c, target, "requests")
               /\ Quantities(d, "limits") = Quantities(c, "limits")
               /\ "limits" \in DOMAIN d.resources <=> "limits" \in DOMAIN c.resources
    <3>1. CASE target.requests = Empty
      <4>1. s \o put("requests") = s
        BY <3>1, Joined
      <4>2. Quantities(c, "requests") = Wanted(c, target, "requests")
        BY <3>1 DEF Wanted
      <4>. QED
        BY <1>1, <1>4, <4>1, <4>2
    <3>2. CASE target.requests # Empty
      <4>1. s \o put("requests") = Append(s, add("requests"))
        BY <3>2, Joined
      <4>2. PICK d : d = Updated(c, "resources", Amended(c.resources, "requests", add("requests")))
        OBVIOUS
      <4>3. /\ IsSeq(Append(s, add("requests"))) /\ Accepts(pod, Append(s, add("requests")))
            /\ Elsewhere(Patched(pod, s), Patched(pod, Append(s, add("requests"))), i, d)
        BY <1>4, <2>2, <4>2, SubtreePatched
      <4>4. /\ "name" \in DOMAIN d /\ "resources" \in DOMAIN d /\ d.name = c.name
            /\ Quantities(d, "requests") = target.requests
            /\ Quantities(d, "limits") = Quantities(c, "limits")
            /\ "limits" \in DOMAIN d.resources <=> "limits" \in DOMAIN c.resources
        BY <1>4, <2>2, <4>2, SubtreeAmended
      <4>. QED
        BY <3>2, <4>1, <4>3, <4>4 DEF Wanted
    <3>. QED
      BY <3>1, <3>2
  <2>5. PICK s1, d1 :
          /\ s1 = s \o put("requests") /\ IsSeq(s1) /\ Accepts(pod, s1)
          /\ Elsewhere(Patched(pod, s), Patched(pod, s1), i, d1)
          /\ "name" \in DOMAIN d1 /\ "resources" \in DOMAIN d1 /\ d1.name = c.name
          /\ Quantities(d1, "requests") = Wanted(c, target, "requests")
          /\ Quantities(d1, "limits") = Quantities(c, "limits")
          /\ "limits" \in DOMAIN d1.resources <=> "limits" \in DOMAIN c.resources
    BY <2>4
  <2>6. /\ "containers" \in DOMAIN Patched(pod, s1)
        /\ i \in DOMAIN Patched(pod, s1).containers /\ d1 = Patched(pod, s1).containers[i]
    BY <2>5 DEF Elsewhere
  <2>7. \E d : /\ IsSeq(s1 \o (put("limits") \o rest)) /\ Accepts(pod, s1 \o (put("limits") \o rest))
               /\ Elsewhere(Patched(pod, s1), Patched(pod, s1 \o (put("limits") \o rest)), i, d)
               /\ d.name = c.name
               /\ Quantities(d, "requests") = Wanted(c, target, "requests")
               /\ Quantities(d, "limits") = Wanted(c, target, "limits")
    <3>1. CASE target.limits = Empty /\ ~(clear /\ "limits" \in DOMAIN c.resources)
      <4>1. s1 \o (put("limits") \o rest) = s1
        <5>1. put("limits") = <<>> /\ rest = <<>>
          BY <3>1
        <5>2. <<>> \o <<>> = <<>>
          BY ConcatEmptySeq
        <5>3. s1 \o <<>> = s1
          BY <2>5, Joined
        <5>. QED
          BY <5>1, <5>2, <5>3, Zenon
      <4>2. Quantities(c, "limits") = Wanted(c, target, "limits")
        BY <3>1 DEF Wanted, Quantities
      <4>3. Elsewhere(Patched(pod, s1), Patched(pod, s1), i, d1)
        BY <2>6 DEF Elsewhere
      <4>. QED
        BY <2>5, <4>1, <4>2, <4>3
    <3>2. ASSUME NEW op, s1 \o (put("limits") \o rest) = Append(s1, op),
                 op.path = Append(<<"containers", i, "resources">>, "limits"),
                 op.op # "add" => "limits" \in DOMAIN d1.resources,
                 op.op = "remove" => op.value = Empty,
                 op.value = Wanted(c, target, "limits")
          PROVE  \E d : /\ IsSeq(s1 \o (put("limits") \o rest)) /\ Accepts(pod, s1 \o (put("limits") \o rest))
                        /\ Elsewhere(Patched(pod, s1), Patched(pod, s1 \o (put("limits") \o rest)), i, d)
                        /\ d.name = c.name
                        /\ Quantities(d, "requests") = Wanted(c, target, "requests")
                        /\ Quantities(d, "limits") = Wanted(c, target, "limits")
      <4>2. PICK d : d = Updated(d1, "resources", Amended(d1.resources, "limits", op))
        OBVIOUS
      <4>3. /\ IsSeq(Append(s1, op)) /\ Accepts(pod, Append(s1, op))
            /\ Elsewhere(Patched(pod, s1), Patched(pod, Append(s1, op)), i, d)
        BY <2>5, <2>6, <3>2, <4>2, SubtreePatched
      <4>4. /\ d.name = d1.name
            /\ Quantities(d, "limits") = op.value
            /\ Quantities(d, "requests") = Quantities(d1, "requests")
        BY <2>5, <3>2, <4>2, SubtreeAmended
      <4>. QED
        BY <2>5, <3>2, <4>3, <4>4
    <3>3. CASE target.limits # Empty
      <4>1. s1 \o (put("limits") \o rest) = Append(s1, add("limits"))
        BY <2>5, <3>3, Joined
      <4>2. Wanted(c, target, "limits") = target.limits
        BY <3>3 DEF Wanted
      <4>3. add("limits").op # "remove"
        BY <2>2
      <4>. QED
        BY <2>2, <2>5, <3>2, <4>1, <4>2, <4>3
    <3>4. CASE clear /\ "limits" \in DOMAIN c.resources
      <4>1. s1 \o (put("limits") \o rest) = Append(s1, take)
        <5>1. put("limits") = <<>> /\ rest = <<take>>
          BY <3>4
        <5>2. <<>> \o <<take>> = <<take>>
          BY ConcatEmptySeq
        <5>3. s1 \o <<take>> = Append(s1, take)
          BY <2>5, Joined
        <5>. QED
          BY <5>1, <5>2, <5>3, Zenon
      <4>2. Wanted(c, target, "limits") = Empty
        BY <3>4 DEF Wanted
      <4>. QED
        BY <2>3, <2>5, <3>2, <3>4, <4>1, <4>2
    <3>. QED
      BY <3>1, <3>3, <3>4
  <2>8. s1 \o (put("limits") \o rest) = s \o piece
    <3>1. PICK S : s \in Seq(S)
      BY DEF IsSeq
    <3>. DEFINE T == S \cup {add("requests"), add("limits"), take}
    <3>2. s \in Seq(T)
      BY <3>1
    <3>. add("requests") \in T /\ add("limits") \in T /\ take \in T
      OBVIOUS
    <3>. HIDE DEF T
    <3>9. <<>> \in Seq(T) /\ \A x \in T : <<x>> \in Seq(T)
      OBVIOUS
    <3>3. put("requests") \in Seq(T)
      BY <3>9, Zenon
    <3>4. put("limits") \in Seq(T)
      BY <3>9, Zenon
    <3>5. rest \in Seq(T)
      BY <3>9, Zenon
    <3>. HIDE DEF put, rest
    <3>6. put("limits") \o rest \in Seq(T)
      BY <3>4, <3>5, ConcatProperties
    <3>7. s1 \o (put("limits") \o rest) = s \o (put("requests") \o (put("limits") \o rest))
      BY <2>5, <3>2, <3>3, <3>6, ConcatAssociative
    <3>8. put("requests") \o (put("limits") \o rest) = (put("requests") \o put("limits")) \o rest
      BY <3>3, <3>4, <3>5, ConcatAssociative
    <3>. QED
      BY <2>1, <3>7, <3>8
  <2>. HIDE DEF put, rest, piece
  <2>9. PICK d : /\ IsSeq(s \o piece) /\ Accepts(pod, s \o piece)
                 /\ Elsewhere(Patched(pod, s1), Patched(pod, s \o piece), i, d)
                 /\ d.name = c.name
                 /\ Quantities(d, "requests") = Wanted(c, target, "requests")
                 /\ Quantities(d, "limits") = Wanted(c, target, "limits")
    BY <2>7, <2>8
  <2>10. Elsewhere(Patched(pod, s), Patched(pod, s \o piece), i, d)
    BY <2>5, <2>9, PutTwice
  <2>11. Serves(d, c, target)
    BY <2>9 DEF Serves
  <2>. QED
    BY <2>9, <2>10, <2>11 DEF piece
<1>. QED
  BY <1>2, <1>3, <1>4

-----------------------------------------------------------------------------
(* What all of them do.                                                    *)

IsPod(pod) ==
  /\ "containers" \in DOMAIN pod
  /\ pod.containers \in Seq({pod.containers[i] : i \in DOMAIN pod.containers})
  /\ \A i \in DOMAIN pod.containers : "name" \in DOMAIN pod.containers[i]

PatchesFollow(pod, matches) ==
  /\ PatchesOfContainers(pod, matches)[0] = <<>>
  /\ \A n \in 1..Len(pod.containers) :
       PatchesOfContainers(pod, matches)[n] =
         PatchesOfContainers(pod, matches)[n - 1] \o PatchOfContainer(pod, matches, n)
LEMMA PatchesAfter ==
  ASSUME NEW pod, NEW matches, Len(pod.containers) \in Nat
  PROVE  PatchesFollow(pod, matches)
BY PatchesAre DEF PatchesFollow

\* The quantities the i-th container of the pod is to have.
WantedOf(pod, matches, i, k) ==
  LET n == pod.containers[i].name IN
  IF n \in Claimed(pod, matches)
  THEN Wanted(pod.containers[i], Winner(matches, n).cr.containers[n], k)
  ELSE Quantities(pod.containers[i], k)

\* A document that is the pod with its first n containers patched.
Holds(doc, pod, matches, n) ==
  /\ DOMAIN doc = DOMAIN pod
  /\ \A key \in DOMAIN pod \ {"containers"} : doc[key] = pod[key]
  /\ DOMAIN doc.containers = DOMAIN pod.containers
  /\ \A i \in DOMAIN pod.containers :
       /\ i > n => doc.containers[i] = pod.containers[i]
       /\ doc.containers[i].name = pod.containers[i].name
       /\ i <= n => \A k \in {"requests", "limits"} :
                      Quantities(doc.containers[i], k) = WantedOf(pod, matches, i, k)

LEMMA ContainersPatched ==
  ASSUME NEW pod, NEW matches, IsPod(pod),
         NEW ops, ops = PatchesOfContainers(pod, matches)[Len(pod.containers)]
  PROVE  /\ IsSeq(ops) /\ Accepts(pod, ops)
         /\ Holds(Patched(pod, ops), pod, matches, Len(pod.containers))
<1>. DEFINE N == Len(pod.containers)
            first(n) == PatchesOfContainers(pod, matches)[n]
            Fits(n) == /\ IsSeq(first(n)) /\ Accepts(pod, first(n))
                       /\ Holds(Patched(pod, first(n)), pod, matches, n)
            S == {n \in Nat : n <= N => Fits(n)}
<1>1. /\ N \in Nat /\ DOMAIN pod.containers = 1..N
      /\ "containers" \in DOMAIN pod
      /\ \A i \in 1..N : "name" \in DOMAIN pod.containers[i]
  BY DEF IsPod
<1>2. PatchesFollow(pod, matches)
  BY <1>1, PatchesAfter
<1>3. 0 \in S
  <2>1. first(0) = <<>>
    BY <1>2 DEF PatchesFollow
  <2>2. Len(<<>>) = 0 /\ DOMAIN <<>> = {} /\ IsSeq(<<>>)
    <3>1. <<>> \in Seq({})
      OBVIOUS
    <3>. QED
      BY <3>1 DEF IsSeq
  <2>3. Patched(pod, <<>>) = pod
    BY <2>2, EditsAfter DEF Patched
  <2>4. Accepts(pod, <<>>)
    BY <2>2 DEF Accepts
  <2>5. Holds(pod, pod, matches, 0)
    BY <1>1 DEF Holds
  <2>. QED
    BY <2>1, <2>2, <2>3, <2>4, <2>5
<1>4. ASSUME NEW n \in Nat, n \in S
      PROVE  n + 1 \in S
  <2>. SUFFICES ASSUME n + 1 <= N
                PROVE  Fits(n + 1)
    OBVIOUS
  <2>1. Fits(n)
    BY <1>1, <1>4
  <2>2. n + 1 \in 1..N /\ (n + 1) - 1 = n
    BY <1>1
  <2>3. PICK s : s = first(n)
    OBVIOUS
  <2>4. PICK doc : doc = Patched(pod, s)
    OBVIOUS
  <2>5. PICK i : i = n + 1
    OBVIOUS
  <2>6. PICK c : c = pod.containers[i]
    OBVIOUS
  <2>7. first(i) = s \o PatchOfContainer(pod, matches, i)
    BY <1>2, <2>2, <2>3, <2>5 DEF PatchesFollow
  <2>8. IsSeq(s) /\ Accepts(pod, s) /\ Holds(doc, pod, matches, n)
    BY <2>1, <2>3, <2>4
  <2>. HIDE DEF first, N
  <2>9. /\ "containers" \in DOMAIN doc /\ i \in DOMAIN doc.containers
        /\ doc.containers[i] = c /\ "name" \in DOMAIN c
    BY <1>1, <2>2, <2>5, <2>6, <2>8 DEF Holds
  <2>10. PICK new : /\ IsSeq(first(i)) /\ Accepts(pod, first(i))
                    /\ new.name = c.name
                    /\ \A k \in {"requests", "limits"} : Quantities(new, k) = WantedOf(pod, matches, i, k)
                    /\ Elsewhere(doc, Patched(pod, first(i)), i, new)
    <3>1. CASE c.name \in Claimed(pod, matches)
      <4>1. PICK target : target = Winner(matches, c.name).cr.containers[c.name]
        OBVIOUS
      <4>2. PatchOfContainer(pod, matches, i) = PatchContainer(c, i, target)
        BY <2>6, <3>1, <4>1 DEF PatchOfContainer
      <4>3. PICK new : /\ IsSeq(s \o PatchContainer(c, i, target))
                       /\ Accepts(pod, s \o PatchContainer(c, i, target))
                       /\ Serves(new, c, target)
                       /\ Elsewhere(Patched(pod, s), Patched(pod, s \o PatchContainer(c, i, target)), i, new)
        BY <2>4, <2>8, <2>9, ContainerPatched
      <4>4. \A k : WantedOf(pod, matches, i, k) = Wanted(c, target, k)
        BY <2>6, <3>1, <4>1 DEF WantedOf
      <4>. QED
        BY <2>4, <2>7, <4>2, <4>3, <4>4 DEF Serves
    <3>2. CASE c.name \notin Claimed(pod, matches)
      <4>1. PatchOfContainer(pod, matches, i) = <<>>
        BY <2>6, <3>2 DEF PatchOfContainer
      <4>2. first(i) = s
        BY <2>7, <2>8, <4>1, Joined
      <4>3. \A k : WantedOf(pod, matches, i, k) = Quantities(c, k)
        BY <2>6, <3>2 DEF WantedOf
      <4>4. Elsewhere(doc, doc, i, c)
        BY <2>9 DEF Elsewhere
      <4>. QED
        BY <2>4, <2>8, <4>2, <4>3, <4>4
    <3>. QED
      BY <3>1, <3>2
  <2>11. PICK out : out = Patched(pod, first(i))
    OBVIOUS
  <2>12. /\ DOMAIN out = DOMAIN doc
         /\ \A key \in DOMAIN doc \ {"containers"} : out[key] = doc[key]
         /\ DOMAIN out.containers = DOMAIN doc.containers
         /\ \A j \in DOMAIN doc.containers \ {i} : out.containers[j] = doc.containers[j]
         /\ out.containers[i] = new
    BY <2>10, <2>11 DEF Elsewhere
  <2>13. /\ DOMAIN out = DOMAIN pod
         /\ \A key \in DOMAIN pod \ {"containers"} : out[key] = pod[key]
         /\ DOMAIN out.containers = DOMAIN pod.containers
    BY <2>8, <2>12 DEF Holds
  <2>14. ASSUME NEW j \in DOMAIN pod.containers
         PROVE  /\ j > i => out.containers[j] = pod.containers[j]
                /\ out.containers[j].name = pod.containers[j].name
                /\ j <= i => \A k \in {"requests", "limits"} :
                               Quantities(out.containers[j], k) = WantedOf(pod, matches, j, k)
    <3>1. CASE j = i
      BY <2>2, <2>5, <2>6, <2>10, <2>12, <3>1
    <3>2. CASE j # i
      <4>1. out.containers[j] = doc.containers[j]
        BY <2>8, <2>12, <3>2 DEF Holds
      <4>2. (j > i => j > n) /\ (j <= i => j <= n)
        BY <1>1, <2>5, <3>2
      <4>. QED
        BY <2>8, <4>1, <4>2 DEF Holds
    <3>. QED
      BY <3>1, <3>2
  <2>15. Holds(out, pod, matches, i)
    BY <2>13, <2>14 DEF Holds
  <2>. QED
    BY <2>5, <2>10, <2>11, <2>15
<1>5. \A n \in Nat : n \in S
  <2>. HIDE DEF S
  <2>. QED
    BY <1>3, <1>4, Induction
<1>6. Fits(N)
  <2>1. N \in S
    BY <1>1, <1>5
  <2>2. N <= N
    BY <1>1
  <2>. HIDE DEF Fits
  <2>. QED
    BY <2>1, <2>2
<1>. QED
  BY <1>6

-----------------------------------------------------------------------------
(* What the webhook answers.                                               *)

\* The cache holds the CRs of a finite log.
LEMMA CachedFinite == ClaimInv => IsFiniteSet(Cached)
<1>. SUFFICES ASSUME ClaimInv
              PROVE  IsFiniteSet(Cached)
  OBVIOUS
<1>1. log \in Seq(Entry) /\ at \in 0..Len(log) /\ index = ViewIn(log, at)
  BY DEF ClaimInv, LogType
<1>2. at \in Nat /\ Len(log) \in Nat
  BY <1>1
<1>. DEFINE named(n) == {log[i].cr : i \in 1..n}
            S == {n \in Nat : IsFiniteSet(named(n))}
<1>3. 0 \in S
  <2>1. named(0) = {}
    OBVIOUS
  <2>. QED
    BY <2>1, FS_EmptySet
<1>4. ASSUME NEW n \in Nat, n \in S
      PROVE  n + 1 \in S
  <2>1. named(n + 1) = named(n) \cup {log[n + 1].cr}
    <3>1. 1..n + 1 = (1..n) \cup {n + 1}
      OBVIOUS
    <3>. QED
      BY <3>1
  <2>. HIDE DEF named
  <2>. QED
    BY <1>4, <2>1, FS_AddElement
<1>5. \A n \in Nat : n \in S
  <2>. HIDE DEF S
  <2>. QED
    BY <1>3, <1>4, Induction
<1>6. Cached \subseteq named(at)
  <2>. SUFFICES ASSUME NEW cr \in Cached
                PROVE  cr \in named(at)
    OBVIOUS
  <2>1. Writes(log, cr, at) # {}
    BY <1>1 DEF Cached, ViewIn
  <2>. QED
    BY <2>1 DEF Writes
<1>. QED
  BY <1>2, <1>5, <1>6, FS_Subset

LEMMA LookupsAre ==
  ASSUME ClaimInv, NEW pod, NEW matches \in Lookups(pod)
  PROVE  /\ \E n \in Nat : DOMAIN matches = 1..n
         /\ \A i \in DOMAIN matches : matches[i].cr = index[matches[i].id]
<1>. DEFINE S == {cr \in Cached : Matches(index[cr], pod)}
<1>1. PICK s \in [1..Cardinality(S) -> S] :
        matches = [i \in DOMAIN s |-> [id |-> s[i], cr |-> index[s[i]]]]
  BY DEF Lookups
<1>2. Cardinality(S) \in Nat
  BY CachedFinite, FS_Subset, FS_CardinalityType
<1>. QED
  BY <1>1, <1>2

\* The winner is one of the CRs that list the container.
LEMMA WinnerLists ==
  ASSUME NEW matches, NEW n \in Nat, DOMAIN matches = 1..n, NEW name, Listing(matches, name) # {}
  PROVE  \E w \in Listing(matches, name) : Winner(matches, name) = matches[w]
<1>1. PICK S : S = Listing(matches, name)
  OBVIOUS
<1>2. S \in SUBSET (1..n) /\ S # {}
  BY <1>1 DEF Listing
<1>3. Winner(matches, name) = matches[LastOf(S)]
  BY <1>1 DEF Winner, LastOf
<1>. QED
  BY <1>1, <1>2, <1>3, LastExists

\* PatchesFit for one pod and what the cache has for it.
Fits(pod, matches, out) ==
  /\ [i \in DOMAIN out.containers |-> out.containers[i].name] =
       [i \in DOMAIN pod.containers |-> pod.containers[i].name]
  /\ \A i \in DOMAIN pod.containers : \A k \in {"requests", "limits"} :
       Quantities(out.containers[i], k) = WantedOf(pod, matches, i, k)
  /\ out.annotations[AppliedBy] = Sources(pod, matches)
  /\ "annotations" \in DOMAIN pod =>
       \A k \in DOMAIN pod.annotations \ {AppliedBy} : out.annotations[k] = pod.annotations[k]

\* A container with the quantities it is to have has what the CR gives it, and
\* nothing else that was not there.
LEMMA WantedSuffices ==
  ASSUME NEW c, NEW out, NEW target,
         \A k \in {"requests", "limits"} : Quantities(out, k) = Wanted(c, target, k)
  PROVE  Gets(out, target) /\ NothingInvented(c, out, target)
<1>1. ASSUME NEW k \in {"requests", "limits"}
      PROVE  Quantities(out, k) = target[k]
               \/ (target[k] = Empty /\ Quantities(out, k) = Quantities(c, k)
                     /\ ~(k = "limits" /\ Cleared(target)))
  BY DEF Wanted, Cleared
<1>2. DOMAIN Empty = {}
  BY DEF Empty
<1>3. Cleared(target) => Quantities(out, "limits") = Empty
  BY <1>1 DEF Cleared
<1>4. Gets(out, target)
  BY <1>1, <1>2, <1>3 DEF Gets
<1>5. ASSUME NEW k \in {"requests", "limits"}, target[k] = Empty, ~(k = "limits" /\ Cleared(target))
      PROVE  Quantities(out, k) = Quantities(c, k)
  BY <1>5 DEF Wanted, Cleared
<1>6. NothingInvented(c, out, target)
  BY <1>1, <1>5 DEF NothingInvented
<1>. QED
  BY <1>4, <1>6

LEMMA PodFits ==
  ASSUME NEW pod, IsPod(pod), NEW matches, BuildPatches(pod, matches) # <<>>
  PROVE  /\ Accepts(pod, BuildPatches(pod, matches))
         /\ Fits(pod, matches, Patched(pod, BuildPatches(pod, matches)))
<1>1. PICK s : s = PatchesOfContainers(pod, matches)[Len(pod.containers)]
  OBVIOUS
<1>2. PICK op : op = Annotate(pod, Sources(pod, matches))
  OBVIOUS
<1>3. BuildPatches(pod, matches) = Append(s, op)
  BY <1>1, <1>2 DEF BuildPatches
<1>4. PICK doc : doc = Patched(pod, s)
  OBVIOUS
<1>5. IsSeq(s) /\ Accepts(pod, s) /\ Holds(doc, pod, matches, Len(pod.containers))
  BY <1>1, <1>4, ContainersPatched
<1>6. DOMAIN doc = DOMAIN pod /\ \A key \in DOMAIN pod \ {"containers"} : doc[key] = pod[key]
  BY <1>5 DEF Holds
<1>7. op = Annotate(doc, Sources(pod, matches))
  BY <1>2, <1>6 DEF Annotate
<1>8. PICK out : out = Edit(doc, op)
  OBVIOUS
<1>9. /\ Lands(doc, op)
      /\ \A key \in DOMAIN doc \ {"annotations"} : out[key] = doc[key]
      /\ out.annotations[AppliedBy] = Sources(pod, matches)
      /\ "annotations" \in DOMAIN doc =>
           \A key \in DOMAIN doc.annotations \ {AppliedBy} : out.annotations[key] = doc.annotations[key]
  BY <1>7, <1>8, EditOfAnnotations
<1>10. Accepts(pod, Append(s, op)) /\ Patched(pod, Append(s, op)) = out
  BY <1>4, <1>5, <1>8, <1>9, OneMore
<1>11. out.containers = doc.containers
  BY <1>6, <1>9 DEF IsPod
<1>12. \A i \in DOMAIN pod.containers : i <= Len(pod.containers)
  BY DEF IsPod
<1>13. Fits(pod, matches, out)
  <2>1. [i \in DOMAIN out.containers |-> out.containers[i].name] =
          [i \in DOMAIN pod.containers |-> pod.containers[i].name]
    BY <1>5, <1>11 DEF Holds
  <2>2. \A i \in DOMAIN pod.containers : \A k \in {"requests", "limits"} :
          Quantities(out.containers[i], k) = WantedOf(pod, matches, i, k)
    BY <1>5, <1>11, <1>12 DEF Holds
  <2>3. "annotations" \in DOMAIN pod =>
          \A k \in DOMAIN pod.annotations \ {AppliedBy} : out.annotations[k] = pod.annotations[k]
    BY <1>6, <1>9
  <2>. QED
    BY <1>9, <2>1, <2>2, <2>3 DEF Fits
<1>. QED
  BY <1>3, <1>10, <1>13

LEMMA SameNames ==
  ASSUME NEW pod, NEW matches, NEW out, Fits(pod, matches, out)
  PROVE  /\ DOMAIN out.containers = DOMAIN pod.containers
         /\ \A i \in DOMAIN pod.containers : out.containers[i].name = pod.containers[i].name
<1>1. PICK f : f = [i \in DOMAIN out.containers |-> out.containers[i].name]
  OBVIOUS
<1>2. f = [i \in DOMAIN pod.containers |-> pod.containers[i].name]
  BY <1>1 DEF Fits
<1>. QED
  BY <1>1, <1>2

\* Every CR is credited with the containers that got its values.
LEMMA CreditsAreEvidence ==
  ASSUME ClaimInv, NEW pod, IsPod(pod), NEW matches \in Lookups(pod),
         NEW out, Fits(pod, matches, out)
  PROVE  Evidence(out, matches) = PatchedContainers(pod, matches)
<1>1. PICK m \in Nat : DOMAIN matches = 1..m
  BY LookupsAre
<1>2. \A i \in DOMAIN matches : matches[i].cr = index[matches[i].id]
  BY LookupsAre
<1>3. /\ DOMAIN out.containers = DOMAIN pod.containers
      /\ \A i \in DOMAIN pod.containers : out.containers[i].name = pod.containers[i].name
  BY SameNames
<1>4. ASSUME NEW n \in Claimed(pod, matches)
      PROVE  \E w \in Listing(matches, n) :
               /\ Winner(matches, n) = matches[w]
               /\ matches[w].cr = index[matches[w].id]
               /\ n \in DOMAIN matches[w].cr.containers
  BY <1>1, <1>2, WinnerLists DEF Claimed, Listing
<1>5. ASSUME NEW id \in Sources(pod, matches)
      PROVE  {n \in Carries(out, index[id]) : Winner(matches, n).id = id}
               = {n \in Claimed(pod, matches) : Winner(matches, n).id = id}
  <2>1. ASSUME NEW n \in Carries(out, index[id])
        PROVE  n \in Claimed(pod, matches)
    <3>1. PICK i \in DOMAIN out.containers : out.containers[i].name = n
      BY DEF Carries
    <3>2. n \in ContainerNames(pod)
      BY <1>3, <3>1 DEF ContainerNames
    <3>3. PICK c \in Claimed(pod, matches) : id = Winner(matches, c).id
      BY DEF Sources
    <3>4. PICK w \in Listing(matches, c) : matches[w].id = id /\ matches[w].cr = index[id]
      BY <1>4, <3>3
    <3>5. w \in Listing(matches, n)
      BY <3>4 DEF Listing, Carries
    <3>. QED
      BY <3>2, <3>5 DEF Claimed
  <2>2. ASSUME NEW n \in Claimed(pod, matches), Winner(matches, n).id = id
        PROVE  n \in Carries(out, index[id])
    <3>1. Winner(matches, n).cr = index[id] /\ n \in DOMAIN index[id].containers
      BY <1>4, <2>2
    <3>2. PICK i \in DOMAIN pod.containers : pod.containers[i].name = n
      BY DEF Claimed, ContainerNames
    <3>3. PICK target : target = index[id].containers[n]
      OBVIOUS
    <3>4. Gets(out.containers[i], target)
      <4>1. \A k \in {"requests", "limits"} :
              Quantities(out.containers[i], k) = Wanted(pod.containers[i], target, k)
        BY <3>1, <3>2, <3>3 DEF Fits, WantedOf
      <4>. QED
        BY <4>1, WantedSuffices
    <3>5. i \in DOMAIN out.containers /\ out.containers[i].name = n
      BY <1>3, <3>2
    <3>. QED
      BY <3>1, <3>3, <3>4, <3>5 DEF Carries
  <2>. QED
    BY <2>1, <2>2
<1>6. out.annotations[AppliedBy] = Sources(pod, matches)
  BY DEF Fits
<1>. QED
  BY <1>5, <1>6 DEF Evidence, PatchedContainers

\* For every pod and whatever the cache has of CRs that match it, in any order: the
\* apiserver accepts the patch, every claimed container ends with the winner's values
\* and nothing that was not there, the others as they were, and the CRs the annotation
\* names are credited with the containers that carry their values.
THEOREM PatchesStayFit == Spec => []PatchesFit
<1>1. ClaimInv => PatchesFit
  <2>. SUFFICES ASSUME ClaimInv, NEW pod \in Pods, NEW matches \in Lookups(pod),
                       BuildPatches(pod, matches) # <<>>
                PROVE  LET ops == BuildPatches(pod, matches)
                           out == Patched(pod, ops)
                       IN
      /\ Accepts(pod, ops)
      /\ DOMAIN out.containers = DOMAIN pod.containers
      /\ \A i \in DOMAIN pod.containers :
           LET n == pod.containers[i].name
               t == Winner(matches, n).cr.containers[n] IN
           /\ out.containers[i].name = n
           /\ IF n \in Claimed(pod, matches)
              THEN /\ Gets(out.containers[i], t)
                   /\ NothingInvented(pod.containers[i], out.containers[i], t)
              ELSE \A k \in {"requests", "limits"} :
                     Quantities(out.containers[i], k) = Quantities(pod.containers[i], k)
      /\ out.annotations[AppliedBy] = Sources(pod, matches)
      /\ "annotations" \in DOMAIN pod =>
           \A k \in DOMAIN pod.annotations \ {AppliedBy} : out.annotations[k] = pod.annotations[k]
      /\ Evidence(out, matches) = PatchedContainers(pod, matches)
    BY Zenon DEF PatchesFit
  <2>1. IsPod(pod)
    BY PodAssumption DEF IsPod
  <2>2. PICK out : out = Patched(pod, BuildPatches(pod, matches))
    OBVIOUS
  <2>3. Accepts(pod, BuildPatches(pod, matches)) /\ Fits(pod, matches, out)
    BY <2>1, <2>2, PodFits
  <2>4. Evidence(out, matches) = PatchedContainers(pod, matches)
    BY <2>1, <2>3, CreditsAreEvidence
  <2>5. ASSUME NEW i \in DOMAIN pod.containers,
               NEW n, n = pod.containers[i].name,
               NEW t, t = Winner(matches, n).cr.containers[n]
        PROVE  IF n \in Claimed(pod, matches)
               THEN /\ Gets(out.containers[i], t)
                    /\ NothingInvented(pod.containers[i], out.containers[i], t)
               ELSE \A k \in {"requests", "limits"} :
                      Quantities(out.containers[i], k) = Quantities(pod.containers[i], k)
    <3>1. \A k \in {"requests", "limits"} :
            Quantities(out.containers[i], k) = WantedOf(pod, matches, i, k)
      BY <2>3 DEF Fits
    <3>2. CASE n \in Claimed(pod, matches)
      <4>1. \A k \in {"requests", "limits"} :
              Quantities(out.containers[i], k) = Wanted(pod.containers[i], t, k)
        BY <2>5, <3>1, <3>2 DEF WantedOf
      <4>. QED
        BY <3>2, <4>1, WantedSuffices
    <3>3. CASE n \notin Claimed(pod, matches)
      BY <2>5, <3>1, <3>3 DEF WantedOf
    <3>. QED
      BY <3>2, <3>3
  <2>6. /\ DOMAIN out.containers = DOMAIN pod.containers
        /\ \A i \in DOMAIN pod.containers : out.containers[i].name = pod.containers[i].name
    BY <2>3, SameNames
  <2>7. /\ out.annotations[AppliedBy] = Sources(pod, matches)
        /\ "annotations" \in DOMAIN pod =>
             \A k \in DOMAIN pod.annotations \ {AppliedBy} : out.annotations[k] = pod.annotations[k]
    BY <2>3 DEF Fits
  <2>. QED
    BY <2>2, <2>3, <2>4, <2>5, <2>6, <2>7, Zenon
<1>. QED
  BY <1>1, ClaimInit, ClaimNext, PTL DEF Spec

-----------------------------------------------------------------------------
(* Stamps.                                                                 *)

StampsOfCRs == \A f \in {status, dirty, snapshot, newest} : DOMAIN f = CRs

NoneForTheGone == \A cr \in CRs \ stored : newest[cr] = None /\ status[cr] = None

NewestInOrder ==
  \A cr \in CRs : newest[cr] # None =>
    /\ dirty[cr] # None => newest[cr] = dirty[cr]
    /\ snapshot[cr] # None => newest[cr] \in {dirty[cr], snapshot[cr]}

LastIsExcused == stage = "final" => \A cr \in CRs : dirty[cr] # None => cr \in excused

StampInv ==
  /\ log \in Seq(Entry)
  /\ StampsOfCRs
  /\ StampsAreTrue
  /\ NoneForTheGone
  /\ NewestInOrder
  /\ LastIsExcused

\* What StampInv says of one CR, of its stamps in each place.
Honest(news, map, flush, stamp, exists, last, lost) ==
  /\ news # None => news \in {map, flush, stamp}
  /\ ~exists => news = None /\ stamp = None
  /\ news # None /\ map # None => news = map
  /\ news # None /\ flush # None => news \in {map, flush}
  /\ last /\ map # None => lost

LEMMA HonestStamps ==
  (StampsAreTrue /\ NoneForTheGone /\ NewestInOrder /\ LastIsExcused) <=>
    \A cr \in CRs : Honest(newest[cr], dirty[cr], snapshot[cr], status[cr],
                           cr \in stored, stage = "final", cr \in excused)
BY DEF StampsAreTrue, NoneForTheGone, NewestInOrder, LastIsExcused, Honest

\* A write stores the CR, and only a deletion takes it away again.
LEMMA StoreGrows ==
  ASSUME log \in Seq(Entry), NEW e \in Entry, log' = Append(log, e), NEW cr \in stored,
         cr # e.cr \/ e.obj # Absent
  PROVE  cr \in stored'
<1>1. /\ Len(log') = Len(log) + 1 /\ Len(log) \in Nat
      /\ \A i \in 1..Len(log) : log'[i] = log[i]
      /\ log'[Len(log) + 1] = e
  BY AppendProperties
<1>2. PICK i \in 1..Len(log) : /\ log[i].cr = cr /\ log[i].obj # Absent
                               /\ \A j \in i + 1..Len(log) : log[j].cr # cr
  BY DEF stored, StoreAt
<1>3. CASE cr # e.cr
  <2>1. \A j \in i + 1..Len(log') : log'[j].cr # cr
    BY <1>1, <1>2, <1>3
  <2>. QED
    BY <1>1, <1>2, <2>1 DEF stored, StoreAt
<1>4. CASE cr = e.cr
  <2>1. Len(log') \in 1..Len(log') /\ log'[Len(log')] = e
    BY <1>1
  <2>2. (Len(log') + 1)..Len(log') = {}
    BY <1>1
  <2>. QED
    BY <1>4, <2>1, <2>2 DEF stored, StoreAt
<1>. QED
  BY <1>3, <1>4

LEMMA StampInit == Init => StampInv
<1>. SUFFICES ASSUME Init
              PROVE  StampInv
  OBVIOUS
<1>1. log \in Seq(Entry)
  BY DEF Init, Cache!Init
<1>2. /\ status = Status!NoStamps /\ dirty = Status!NoStamps /\ snapshot = Status!NoStamps
      /\ newest = Status!NoStamps /\ stage = "running"
  BY DEF Init, Status!Init
<1>3. StampsOfCRs
  BY <1>2 DEF StampsOfCRs, Status!NoStamps
<1>4. \A cr \in CRs : Honest(newest[cr], dirty[cr], snapshot[cr], status[cr],
                             cr \in stored, stage = "final", cr \in excused)
  BY <1>2 DEF Honest, Status!NoStamps
<1>. QED
  BY <1>1, <1>3, <1>4, HonestStamps DEF StampInv

\* A write that deletes nothing leaves the stamps alone.
LEMMA WriteKeepsStamps ==
  ASSUME StampInv, NEW cr \in CRs, NEW obj \in Objects, Cache!Write(cr, obj), UNCHANGED flushVars
  PROVE  StampInv'
<1>1. PICK e \in Entry : e = [cr |-> cr, obj |-> obj]
  BY DEF Entry
<1>2. log' = Append(log, e) /\ e.obj # Absent
  BY <1>1, ContentAssumption DEF Cache!Write
<1>3. log' \in Seq(Entry)
  BY <1>2, AppendProperties DEF StampInv
<1>4. \A c \in stored : c \in stored'
  BY <1>2, StoreGrows DEF StampInv
<1>. QED
  BY <1>3, <1>4 DEF StampInv, StampsOfCRs, StampsAreTrue, NoneForTheGone, NewestInOrder,
                    LastIsExcused, flushVars

\* A CR's stamps go with it.
LEMMA DeleteKeepsStamps ==
  ASSUME StampInv, NEW cr \in CRs, Delete(cr)
  PROVE  StampInv'
<1>1. PICK e \in Entry : e = [cr |-> cr, obj |-> Absent]
  BY DEF Entry
<1>2. log' = Append(log, e) /\ e.cr = cr
  BY <1>1 DEF Delete, Cache!Write
<1>3. log' \in Seq(Entry)
  BY <1>2, AppendProperties DEF StampInv
<1>4. \A c \in stored : c # cr => c \in stored'
  BY <1>2, StoreGrows DEF StampInv
<1>5. /\ status' = [status EXCEPT ![cr] = None] /\ newest' = [newest EXCEPT ![cr] = None]
      /\ UNCHANGED <<dirty, snapshot, stage, excused>>
  BY DEF Delete, Status!Deleted
<1>6. StampsOfCRs'
  BY <1>5 DEF StampInv, StampsOfCRs
<1>7. ASSUME NEW c \in CRs
      PROVE  Honest(newest'[c], dirty'[c], snapshot'[c], status'[c],
                    c \in stored', stage' = "final", c \in excused')
  <2>1. DOMAIN status = CRs /\ DOMAIN newest = CRs
    BY DEF StampInv, StampsOfCRs
  <2>2. Honest(newest[c], dirty[c], snapshot[c], status[c],
               c \in stored, stage = "final", c \in excused)
    BY HonestStamps DEF StampInv
  <2>. QED
    BY <1>4, <1>5, <2>1, <2>2 DEF Honest
<1>. QED
  BY <1>3, <1>6, <1>7 DEF StampInv, Honest, StampsAreTrue, NoneForTheGone, NewestInOrder, LastIsExcused

\* An admission credits the CRs with what its patch is evidence of: the stamps that
\* go into the map are the newest ones.
LEMMA MutateKeepsStamps ==
  ASSUME StampInv, PatchesFit,
         NEW pod \in Pods, NEW matches \in Lookups(pod), Mutate(pod, matches)
  PROVE  StampInv'
<1>1. PICK credits : credits = PatchedContainers(pod, matches)
  OBVIOUS
<1>2. Evidence(Patched(pod, BuildPatches(pod, matches)), matches) = credits
  BY <1>1 DEF Mutate, PatchesFit
<1>3. Status!Record(credits, credits) /\ stage = "running"
  BY <1>1, <1>2 DEF Mutate, Serving
<1>4. /\ UNCHANGED <<log, status, snapshot, stage, excused>>
      /\ dirty' = [cr \in CRs |-> IF cr \in DOMAIN credits
                                  THEN [at |-> now', containers |-> credits[cr]] ELSE dirty[cr]]
      /\ newest' = [cr \in CRs |-> IF cr \in DOMAIN credits \cap stored
                                   THEN [at |-> now', containers |-> credits[cr]] ELSE newest[cr]]
  BY <1>3 DEF Mutate, crVars, Status!Record
<1>5. StampsOfCRs' /\ stored' = stored
  BY <1>4 DEF StampInv, StampsOfCRs, stored, StoreAt
<1>6. ASSUME NEW c \in CRs
      PROVE  Honest(newest'[c], dirty'[c], snapshot'[c], status'[c],
                    c \in stored', stage' = "final", c \in excused')
  <2>1. Honest(newest[c], dirty[c], snapshot[c], status[c],
               c \in stored, stage = "final", c \in excused)
    BY HonestStamps DEF StampInv
  <2>. QED
    BY <1>3, <1>4, <1>5, <2>1 DEF Honest
<1>. QED
  BY <1>4, <1>5, <1>6
     DEF StampInv, Honest, StampsAreTrue, NoneForTheGone, NewestInOrder, LastIsExcused

\* The flush thread takes the map when it has nothing left to PATCH, and a stamp
\* whose PATCH fails goes back under the newer one.
LEMMA FlushKeepsStamps ==
  ASSUME StampInv, Flush
  PROVE  StampInv'
<1>1. /\ UNCHANGED <<log, newest>> /\ stored' = stored
      /\ Status!FlushThread
  BY DEF Flush, crVars, Status!FlushThread, Status!Swap, Status!PatchLands, Status!PatchGone,
         Status!PatchFails, stored, StoreAt
<1>2. DOMAIN status = CRs /\ DOMAIN dirty = CRs /\ DOMAIN snapshot = CRs /\ DOMAIN newest = CRs
  BY DEF StampInv, StampsOfCRs
<1>3. \A c \in CRs : Honest(newest[c], dirty[c], snapshot[c], status[c],
                            c \in stored, stage = "final", c \in excused)
  BY HonestStamps DEF StampInv
<1>4. CASE Status!Swap
  <2>1. /\ snapshot = Status!NoStamps /\ snapshot' = dirty /\ dirty' = Status!NoStamps
        /\ UNCHANGED <<status, excused>>
    BY <1>4 DEF Status!Swap
  <2>2. DOMAIN dirty' = CRs /\ DOMAIN snapshot' = CRs
    BY <1>2, <2>1 DEF Status!NoStamps
  <2>3. \A c \in CRs : Honest(newest'[c], dirty'[c], snapshot'[c], status'[c],
                              c \in stored', stage' = "final", c \in excused')
    BY <1>1, <1>3, <2>1 DEF Honest, Status!NoStamps
  <2>. QED
    BY <1>1, <1>2, <2>1, <2>2, <2>3
       DEF StampInv, StampsOfCRs, Honest, StampsAreTrue, NoneForTheGone, NewestInOrder, LastIsExcused
<1>5. ASSUME NEW cr \in CRs,
             Status!PatchLands(cr) \/ Status!PatchGone(cr) \/ Status!PatchFails(cr)
      PROVE  StampInv'
  <2>1. /\ snapshot[cr] # None
        /\ snapshot' = [snapshot EXCEPT ![cr] = None]
        /\ stage' = stage
        /\ \/ status' = status
           \/ cr \in stored /\ status' = [status EXCEPT ![cr] = snapshot[cr]]
        /\ \/ /\ UNCHANGED <<dirty, excused>>
              /\ cr \in stored => status' = [status EXCEPT ![cr] = snapshot[cr]]
           \/ /\ dirty' = [dirty EXCEPT ![cr] = IF @ = None THEN snapshot[cr] ELSE @]
              /\ excused' = IF stage = "final" THEN excused \cup {cr} ELSE excused
    BY <1>5 DEF Status!PatchLands, Status!PatchGone, Status!PatchFails
  <2>2. DOMAIN status' = CRs /\ DOMAIN dirty' = CRs /\ DOMAIN snapshot' = CRs
    BY <1>2, <2>1
  <2>3. ASSUME NEW c \in CRs
        PROVE  Honest(newest'[c], dirty'[c], snapshot'[c], status'[c],
                      c \in stored', stage' = "final", c \in excused')
    <3>1. CASE c = cr
      BY <1>1, <1>2, <1>3, <2>1, <3>1 DEF Honest
    <3>2. CASE c # cr
      <4>1. /\ newest'[c] = newest[c] /\ dirty'[c] = dirty[c] /\ snapshot'[c] = snapshot[c]
            /\ status'[c] = status[c] /\ (c \in excused' <=> c \in excused)
        BY <1>1, <1>2, <2>1, <3>2
      <4>. QED
        BY <1>1, <1>3, <2>1, <4>1
    <3>. QED
      BY <3>1, <3>2
  <2>. QED
    BY <1>1, <1>2, <2>2, <2>3
       DEF StampInv, StampsOfCRs, Honest, StampsAreTrue, NoneForTheGone, NewestInOrder, LastIsExcused
<1>. QED
  BY <1>1, <1>4, <1>5 DEF Status!FlushThread

\* A new process has nothing to PATCH: a shutdown loses what failed in its last
\* flush, or that flush had no time for, a crash whatever was not PATCHed yet.
LEMMA ReplacedKeepsStamps ==
  ASSUME StampInv, UNCHANGED log, NEW forgiven, Status!Replaced(forgiven),
         \A c \in CRs \ forgiven : dirty[c] = None /\ snapshot[c] = None
  PROVE  StampInv'
<1>1. /\ dirty' = Status!NoStamps /\ snapshot' = Status!NoStamps /\ stage' = "running"
      /\ newest' = [cr \in CRs |-> IF cr \in forgiven THEN status[cr] ELSE newest[cr]]
      /\ status' = status
  BY DEF Status!Replaced
<1>2. StampsOfCRs' /\ stored' = stored
  BY <1>1 DEF StampInv, StampsOfCRs, Status!NoStamps, stored, StoreAt
<1>3. ASSUME NEW c \in CRs
      PROVE  Honest(newest'[c], dirty'[c], snapshot'[c], status'[c],
                    c \in stored', stage' = "final", c \in excused')
  <2>1. Honest(newest[c], dirty[c], snapshot[c], status[c],
               c \in stored, stage = "final", c \in excused)
    BY HonestStamps DEF StampInv
  <2>2. dirty'[c] = None /\ snapshot'[c] = None
    BY <1>1 DEF Status!NoStamps
  <2>. QED
    BY <1>1, <1>2, <2>1, <2>2 DEF Honest
<1>. QED
  BY <1>1, <1>2, <1>3
     DEF StampInv, Honest, StampsAreTrue, NoneForTheGone, NewestInOrder, LastIsExcused

LEMMA StampNext == ClaimInv /\ StampInv /\ PatchesFit /\ [Next]_vars => StampInv'
<1>. SUFFICES ASSUME ClaimInv, StampInv, PatchesFit, [Next]_vars
              PROVE  StampInv'
  OBVIOUS
<1>1. ASSUME NEW cr \in CRs, NEW obj \in Objects, Review(cr, obj)
      PROVE  UNCHANGED <<log, flushVars>>
  BY <1>1 DEF Review, crVars
<1>2. ASSUME NEW cr \in CRs, NEW obj \in Objects, Unreviewed(cr, obj)
      PROVE  StampInv'
  BY <1>2, WriteKeepsStamps DEF Unreviewed
<1>3. ASSUME NEW review \in reviews, Persist(review)
      PROVE  StampInv'
  <2>1. review.cr \in CRs /\ review.obj \in Objects
    BY DEF ClaimInv, LogType
  <2>. QED
    BY <1>3, <2>1, WriteKeepsStamps DEF Persist
<1>4. ASSUME NEW cr \in CRs, Delete(cr)
      PROVE  StampInv'
  BY <1>4, DeleteKeepsStamps
<1>5. ASSUME NEW pod \in Pods, NEW matches \in Lookups(pod), Mutate(pod, matches)
      PROVE  StampInv'
  BY <1>5, MutateKeepsStamps
<1>6. CASE Flush
  BY <1>6, FlushKeepsStamps
<1>7. CASE Crash
  BY <1>7, ReplacedKeepsStamps DEF Crash, Boot, Cache!Forget
<1>8. CASE Exit
  <2>1. /\ stage = "final" /\ snapshot = Status!NoStamps
        /\ Status!Replaced(excused) /\ UNCHANGED log
    BY <1>8 DEF Exit, Boot, Cache!Forget, Status!Exit, Status!Flushed
  <2>2. \A c \in CRs \ excused : dirty[c] = None /\ snapshot[c] = None
    BY <2>1 DEF StampInv, LastIsExcused, Status!NoStamps
  <2>. QED
    BY <2>1, <2>2, ReplacedKeepsStamps
<1>9. CASE Stop
  <2>1. UNCHANGED <<log, status, dirty, snapshot, newest, excused>> /\ stage' = "stopping"
    BY <1>9 DEF Stop, crVars, Status!Stop
  <2>. QED
    BY <2>1 DEF StampInv, StampsOfCRs, StampsAreTrue, NoneForTheGone, NewestInOrder,
                LastIsExcused, stored, StoreAt
<1>10. ASSUME \/ CacheAdvances \/ CacheDegrades \/ Toggle \/ NamespaceSeen \/ NamespaceDegrades
              \/ UNCHANGED vars
       PROVE  UNCHANGED <<log, flushVars>>
  BY <1>10 DEF CacheAdvances, Cache!Advance, CacheDegrades, Toggle, NamespaceSeen,
               NamespaceDegrades, vars, crVars
<1>11. ASSUME UNCHANGED <<log, flushVars>>
       PROVE  StampInv'
  BY <1>11 DEF StampInv, StampsOfCRs, StampsAreTrue, NoneForTheGone, NewestInOrder,
               LastIsExcused, flushVars, stored, StoreAt
<1>12. CASE CutOff
  <2>1. PICK lost : lost = excused \cup {c \in CRs : dirty[c] # None \/ snapshot[c] # None}
    OBVIOUS
  <2>2. Status!Replaced(lost) /\ UNCHANGED log
    BY <1>12, <2>1 DEF CutOff, Boot, Cache!Forget, Status!JoinTimesOut
  <2>3. \A c \in CRs \ lost : dirty[c] = None /\ snapshot[c] = None
    BY <2>1
  <2>. QED
    BY <2>2, <2>3, ReplacedKeepsStamps
<1>. QED
  BY <1>1, <1>2, <1>3, <1>4, <1>5, <1>6, <1>7, <1>8, <1>9, <1>10, <1>11, <1>12 DEF Next

\* No flush loses the newest stamp of a CR or overwrites it with an older one: not by a
\* PATCH that fails, not by an admission while it runs, not at a shutdown, where only
\* what fails in the last flush, or is still to be sent when stop() gives up on it, is
\* lost; and a CR that was deleted takes its stamps along.
THEOREM StampsStayTrue == Spec => []StampsAreTrue
<1>1. StampInv => StampsAreTrue
  BY DEF StampInv
<1>. QED
  BY <1>1, ClaimInit, ClaimNext, PatchesStayFit, StampInit, StampNext, PTL DEF Spec
=============================================================================
