-------------------------- MODULE MCCertReconciler --------------------------
(* Instances of CertReconciler: two replicas of one deployment.            *)
EXTENDS CertReconciler

CONSTANTS r1, r2

MCReplicas == {r1, r2}
MCDeployments == {{"mwc", "vwc"}}
=============================================================================
