---------------------------- MODULE MCAdmission ----------------------------
(* Instances of Admission: two CRs; contents that overlap in their selector   *)
(* or in their containers or both or neither, two of them with the same value  *)
(* for a container; pods with and without                                     *)
(* resources, limits, annotations and an extended resource.                   *)
EXTENDS Admission, TLC

CONSTANTS a, b, main, side, gpu, x, y, calm

MCCRs == {a, b}
MCContainers == {main, side}
MCExtended == {gpu}

Cpu(n) == "cpu" :> n
Quota(requests, limits, spelled) ==
  [requests |-> requests, limits |-> limits, spelled |-> spelled]
Labels(app, track) ==
  (IF app = None THEN Empty ELSE "app" :> app) @@ (IF track = None THEN Empty ELSE "track" :> track)
Content(labels, containers) ==
  [labels |-> labels, expressions |-> FALSE, containers |-> containers]

MCObjects ==
  { Content(Labels(x, None), main :> Quota(Cpu(1), Cpu(2), TRUE)),
    Content(Labels(None, calm),
            (main :> Quota(Cpu(1), Empty, FALSE)) @@ (side :> Quota(Cpu(4), Empty, TRUE))),
    Content(Labels(y, None), main :> Quota(Cpu(5), Cpu(6), TRUE)),
    [labels |-> Labels(x, None), expressions |-> TRUE, containers |-> side :> Quota(Cpu(7), Empty, FALSE)] }

Pod(labels, containers) == [labels |-> labels, containers |-> containers]
WithNotes(pod, keys) == ("annotations" :> [k \in keys |-> "set"]) @@ pod
Plain(name) == [name |-> name]
With(name, resources) == [name |-> name, resources |-> resources]

MCPods ==
  { Pod(Labels(x, calm), <<Plain(main), With(side, "limits" :> Cpu(8))>>),
    WithNotes(Pod(Labels(x, None),
                  <<With(main, [requests |-> (gpu :> 1) @@ Cpu(9), limits |-> gpu :> 1])>>),
              {"note", AppliedBy}),
    WithNotes(Pod(Labels(y, calm), <<Plain(side), With(main, Empty)>>), {}),
    WithNotes(Pod(Labels(x, calm), <<Plain(main)>>), {SkipKey}) }
=============================================================================
