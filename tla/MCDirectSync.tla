---------------------------- MODULE MCDirectSync ----------------------------
(* Instances of DirectSync: two workloads of one name in the first namespace, *)
(* one in the second.                                                         *)
EXTENDS DirectSync

CONSTANTS n1, n2, deployment, cronJob, web, partial, bumped, low

MCWorkloads ==
  {[ns |-> n1, kind |-> deployment, name |-> web],
   [ns |-> n1, kind |-> cronJob, name |-> web],
   [ns |-> n2, kind |-> deployment, name |-> web]}
MCStarts ==
  {[w \in MCWorkloads |-> "live"],
   [w \in MCWorkloads |-> IF w.kind = cronJob THEN "absent" ELSE "live"]}
MCRestless == {w \in MCWorkloads : w.ns = n1}
MCKinds == {deployment, cronJob}
MCOtherCrs == {[ns |-> n1, prefix |-> Bare, name |-> web]}
MCOtherValues == {partial}
MCStartCrs ==
  {[k \in {} |-> k],
   [k \in MCOtherCrs |-> [value |-> partial, floor |-> TRUE, managers |-> {"other"},
                          managed |-> TRUE, tracked |-> TRUE, extra |-> TRUE]]}
MCValues == {partial, bumped, low}
=============================================================================
