--------------------------- MODULE MCAutoRollout ---------------------------
(* TLC instances of AutoRollout.  Every CR selects every workload. *)
EXTENDS AutoRollout

CONSTANTS cr1, w1, r1, r2

OneCR       == {cr1}
OneWorkload == {w1}
MCResources == {r1, r2}
MCOverrides == [res : MCResources, sel : {Workloads}]
MCBackoff   == <<1, 2>>
=============================================================================
