-------------------------- MODULE MCRolloutTrigger --------------------------
(* TLC instances of RolloutTrigger: two CRs that select both workloads, the   *)
(* first of which surges.                                                     *)
EXTENDS RolloutTrigger

CONSTANTS cr1, cr2, w1, w2, r1

MCCRs       == {cr1, cr2}
MCWorkloads == {w1, w2}
OneWorkload == {w1}
MCResources == {r1}
MCOverrides == [res : MCResources, sel : {MCWorkloads}]
MCBackoff   == <<1>>
=============================================================================
