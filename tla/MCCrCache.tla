----------------------------- MODULE MCCrCache -----------------------------
(* TLC instances of CrCache: two CRs, two parseable contents. *)
EXTENDS CrCache

CONSTANTS c1, c2, r1, r2

MCCRs == {c1, c2}
MCOverrides == {r1, r2}
=============================================================================
