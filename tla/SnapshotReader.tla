--------------------------- MODULE SnapshotReader ---------------------------
(***************************************************************************)
(* What ResourceOverrideCache promises the webhook handlers, without lists *)
(* and watches: after the first list they look up a snapshot of the store, *)
(* parsed, which may lag behind it but only moves forward; a process that  *)
(* starts again has nothing.  CrCache implements this (ImplementsReader),  *)
(* and Admission reads its CRs from it.                                    *)
(***************************************************************************)
EXTENDS Naturals, Sequences

CONSTANTS
  CRs,
  Objects,   \* what a CR may contain,
  Overrides, \* the part of it _parse accepts
  Absent     \* neither

VARIABLES
  log,   \* every write of a CR: [cr, obj], obj Absent for a deletion
  at,    \* how many of them the reader has seen
  index, \* what it looks up
  live   \* it has listed

vars == <<log, at, index, live>>

Parsed(obj) == IF obj \in Overrides THEN obj ELSE Absent

\* The parsed store after the first n writes.
View(n) ==
  [cr \in CRs |->
    LET writes == {i \in 1..n : log[i].cr = cr} IN
    IF writes = {} THEN Absent
    ELSE Parsed(log[CHOOSE i \in writes : \A j \in writes : j <= i].obj)]

Init ==
  /\ log = <<>>
  /\ at = 0
  /\ index = View(0)
  /\ live = FALSE

Write(cr, obj) ==
  /\ log' = Append(log, [cr |-> cr, obj |-> obj])
  /\ UNCHANGED <<at, index, live>>

\* A list, or an event of the watch.
Advance ==
  /\ live' = TRUE
  /\ at' \in at..Len(log)
  /\ index' = View(at')
  /\ UNCHANGED log

Forget ==
  /\ live' = FALSE
  /\ at' = 0
  /\ index' = View(0)
  /\ UNCHANGED log

Next ==
  \/ \E cr \in CRs, obj \in Objects \cup {Absent} : Write(cr, obj)
  \/ Advance
  \/ Forget

Spec == Init /\ [][Next]_vars
=============================================================================
