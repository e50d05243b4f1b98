--------------------------- MODULE StatusUpdater ---------------------------
(***************************************************************************)
(* StatusUpdater (src/src/webhook_status.py): admissions record stamps in  *)
(* a map, a daemon thread takes the map every flush interval and PATCHes   *)
(* them one by one into the status of their CRs.                           *)
(*                                                                         *)
(* Time is the number of stamping admissions.  The order of the PATCHes of *)
(* one flush is left open.  `stored', the CRs that exist, belongs to the   *)
(* module that uses this one.                                              *)
(***************************************************************************)
EXTENDS Naturals

CONSTANTS
  CRs,
  Containers,    \* container names
  None,          \* no stamp
  MaxAdmissions, \* bound: stamping admissions
  MaxFailures    \* bound: PATCHes that raise

VARIABLES
  stored,   \* apiserver: the CRs that exist
  status,   \* apiserver: their last stamp
  dirty,    \* self._dirty
  snapshot, \* what the running flush has not PATCHed yet
  stage,    \* "running", "stopping" (SIGTERM received) or "final" (last flush)
  now,
  failures,
  newest,   \* history: the last stamp each stored CR should be credited with
  excused   \* history: the CRs whose PATCH failed in the last flush

flushVars == <<status, dirty, snapshot, stage, now, failures, newest, excused>>

Stamp    == [at : 1..MaxAdmissions, containers : SUBSET Containers]
NoStamps == [cr \in CRs |-> None]

StatusTypeOK ==
  /\ status \in [CRs -> Stamp \cup {None}]
  /\ dirty \in [CRs -> Stamp \cup {None}]
  /\ snapshot \in [CRs -> Stamp \cup {None}]
  /\ stage \in {"running", "stopping", "final"}
  /\ now \in 0..MaxAdmissions
  /\ failures \in 0..MaxFailures
  /\ newest \in [CRs -> Stamp \cup {None}]
  /\ excused \in SUBSET CRs

Init ==
  /\ status = NoStamps
  /\ dirty = NoStamps
  /\ snapshot = NoStamps
  /\ stage = "running"
  /\ now = 0
  /\ failures = 0
  /\ newest = NoStamps
  /\ excused = {}

\* record, for every CR of one admission; due is what they should be credited
\* with.
Record(credits, due) ==
  /\ now < MaxAdmissions
  /\ now' = now + 1
  /\ dirty' = [cr \in CRs |->
       IF cr \in DOMAIN credits
       THEN [at |-> now', containers |-> credits[cr]] ELSE dirty[cr]]
  /\ newest' = [cr \in CRs |->
       IF cr \in DOMAIN due \cap stored
       THEN [at |-> now', containers |-> due[cr]] ELSE newest[cr]]
  /\ UNCHANGED <<status, snapshot, stage, failures, excused>>

\* flush_once takes the map: on the interval, and once more after SIGTERM.
Swap ==
  /\ snapshot = NoStamps
  /\ \/ stage = "running" /\ dirty # NoStamps /\ stage' = stage
     \/ stage = "stopping" /\ stage' = "final"
  /\ snapshot' = dirty
  /\ dirty' = NoStamps
  /\ UNCHANGED <<status, now, failures, newest, excused>>

PatchLands(cr) ==
  /\ snapshot[cr] # None
  /\ cr \in stored
  /\ status' = [status EXCEPT ![cr] = snapshot[cr]]
  /\ snapshot' = [snapshot EXCEPT ![cr] = None]
  /\ UNCHANGED <<dirty, stage, now, failures, newest, excused>>

\* 404: the CR is gone, and so is its stamp.
PatchGone(cr) ==
  /\ snapshot[cr] # None
  /\ cr \notin stored
  /\ snapshot' = [snapshot EXCEPT ![cr] = None]
  /\ UNCHANGED <<status, dirty, stage, now, failures, newest, excused>>

\* Mutant of PatchFails: the exception ends the thread.
PatchFailsForGood(cr) ==
  /\ snapshot[cr] # None
  /\ failures < MaxFailures
  /\ failures' = failures + 1
  /\ dirty' = [c \in CRs |-> IF dirty[c] = None THEN snapshot[c] ELSE dirty[c]]
  /\ snapshot' = NoStamps
  /\ stage' = "dead"
  /\ UNCHANGED <<status, now, newest, excused>>

\* Any other exception: the stamp goes back, unless a newer one is there.  The
\* PATCH may have been applied all the same.
PatchFails(cr) ==
  /\ snapshot[cr] # None
  /\ failures < MaxFailures
  /\ failures' = failures + 1
  /\ status' \in {status} \cup {[status EXCEPT ![c] = snapshot[c]] : c \in stored \cap {cr}}
  /\ dirty' = [dirty EXCEPT ![cr] = IF @ = None THEN snapshot[cr] ELSE @]
  /\ snapshot' = [snapshot EXCEPT ![cr] = None]
  /\ excused' = IF stage = "final" THEN excused \cup {cr} ELSE excused
  /\ UNCHANGED <<stage, now, newest>>

\* SIGTERM: run has ended the admissions before it calls stop.
Stop ==
  /\ stage = "running"
  /\ stage' = "stopping"
  /\ UNCHANGED <<status, dirty, snapshot, now, failures, newest, excused>>

\* A new process: what is in memory is gone, and only the stamps of `forgiven'
\* may go with it.
Replaced(forgiven) ==
  /\ dirty' = NoStamps
  /\ snapshot' = NoStamps
  /\ stage' = "running"
  /\ newest' = [cr \in CRs |-> IF cr \in forgiven THEN status[cr] ELSE newest[cr]]
  /\ excused' = {}
  /\ UNCHANGED <<status, now, failures>>

Flushed == stage = "final" /\ snapshot = NoStamps

\* The flush after SIGTERM is over.
Exit == Flushed /\ Replaced(excused)

\* stop() waits flush_interval and 5 s for it, not longer: the daemon thread dies
\* with the process, and with it what it has not PATCHed by then.
JoinTimesOut ==
  /\ stage \in {"stopping", "final"}
  /\ ~Flushed
  /\ Replaced(excused \cup {cr \in CRs : dirty[cr] # None \/ snapshot[cr] # None})

\* A CR's status goes with it.
Deleted(cr) ==
  /\ status' = [status EXCEPT ![cr] = None]
  /\ newest' = [newest EXCEPT ![cr] = None]
  /\ UNCHANGED <<dirty, snapshot, stage, now, failures, excused>>

FlushThread == Swap \/ \E cr \in CRs : PatchLands(cr) \/ PatchGone(cr) \/ PatchFails(cr)
=============================================================================
