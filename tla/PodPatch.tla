------------------------------ MODULE PodPatch ------------------------------
(***************************************************************************)
(* src/src/webhook_patch.py: the JSON patch an admission answers with, and *)
(* the CRs it credits for it.                                              *)
(*                                                                         *)
(* A JSON object is a function from its keys, so a key that is missing is  *)
(* outside the DOMAIN:                                                     *)
(*   pod      [labels, containers] and possibly annotations                *)
(*   container [name] and possibly resources, itself a function from a     *)
(*            subset of {"requests", "limits"} to maps of quantities       *)
(*   CR       [labels, containers], containers a function from names to    *)
(*            [requests, limits, spelled]: spelled tells `limits: {}' from *)
(*            no limits (the CRD makes the names unique)                   *)
(*   matches  a sequence of [id, cr]: lookup's result, in index order      *)
(***************************************************************************)
EXTENDS Naturals, Sequences, FiniteSets

Empty     == [k \in {} |-> k]
AppliedBy == "kube-resource-updater.applied-from"

Op(op, path, value) == [op |-> op, path |-> path, value |-> value]

ContainerNames(pod) == {pod.containers[i].name : i \in DOMAIN pod.containers}

\* The matches that list a container, and the one whose values it gets: the
\* last one.
Listing(matches, name) == {i \in DOMAIN matches : name \in DOMAIN matches[i].cr.containers}
Winner(matches, name) ==
  matches[CHOOSE i \in Listing(matches, name) : \A j \in Listing(matches, name) : j <= i]

Claimed(pod, matches) == {n \in ContainerNames(pod) : Listing(matches, n) # {}}

\* Mutant of PatchContainer: a subtree is replaced whether or not it is there.
PatchContainerReplaces(container, i, target) ==
  LET path     == <<"containers", i, "resources">>
      clear    == target.spelled /\ target.limits = Empty
      given    == {k \in {"requests", "limits"} : target[k] # Empty}
      put(k)   == IF k \notin given THEN <<>>
                  ELSE <<Op("replace", Append(path, k), target[k])>>
  IN
  IF given = {} /\ ~clear THEN <<>>
  ELSE IF "resources" \notin DOMAIN container
  THEN <<Op("add", path, [k \in given |-> target[k]])>>
  ELSE put("requests") \o put("limits") \o
       IF clear /\ "limits" \in DOMAIN container.resources
       THEN <<Op("remove", Append(path, "limits"), Empty)>> ELSE <<>>

\* _patch_container: the whole node when there is none, else each subtree on
\* its own; an empty `limits' that is spelled out removes the pod's.
PatchContainer(container, i, target) ==
  LET path     == <<"containers", i, "resources">>
      clear    == target.spelled /\ target.limits = Empty
      given    == {k \in {"requests", "limits"} : target[k] # Empty}
      put(k)   == IF k \notin given THEN <<>>
                  ELSE <<Op(IF k \in DOMAIN container.resources THEN "replace" ELSE "add",
                            Append(path, k), target[k])>>
  IN
  IF given = {} /\ ~clear THEN <<>>
  ELSE IF "resources" \notin DOMAIN container
  THEN <<Op("add", path, [k \in given |-> target[k]])>>
  ELSE put("requests") \o put("limits") \o
       IF clear /\ "limits" \in DOMAIN container.resources
       THEN <<Op("remove", Append(path, "limits"), Empty)>> ELSE <<>>

\* The CRs named in the annotation.
Sources(pod, matches) == {Winner(matches, n).id : n \in Claimed(pod, matches)}

Annotate(pod, sources) ==
  IF "annotations" \notin DOMAIN pod \/ DOMAIN pod.annotations = {}
  THEN Op("add", <<"annotations">>, [k \in {AppliedBy} |-> sources])
  ELSE Op("add", <<"annotations", AppliedBy>>, sources)

\* build_patches: what is patched in the i-th container, in the first n, and in all
\* of them with the annotation.
PatchOfContainer(pod, matches, i) ==
  LET c == pod.containers[i] IN
  IF c.name \in Claimed(pod, matches)
  THEN PatchContainer(c, i, Winner(matches, c.name).cr.containers[c.name])
  ELSE <<>>
PatchesOfContainers(pod, matches) ==
  LET patched[n \in 0..Len(pod.containers)] ==
        IF n = 0 THEN <<>> ELSE patched[n - 1] \o PatchOfContainer(pod, matches, n)
  IN patched
BuildPatches(pod, matches) ==
  LET ops == PatchesOfContainers(pod, matches)[Len(pod.containers)]
  IN IF ops = <<>> THEN <<>> ELSE Append(ops, Annotate(pod, Sources(pod, matches)))

\* Mutant of PatchedContainers: every CR that matches is credited with every
\* container it lists.
PatchedContainersAll(pod, matches) ==
  [id \in {matches[i].id : i \in DOMAIN matches} |->
     UNION {DOMAIN matches[i].cr.containers : i \in {j \in DOMAIN matches : matches[j].id = id}}]

\* patched_containers_per_cr: what each CR is credited with.
PatchedContainers(pod, matches) ==
  [id \in Sources(pod, matches) |->
     {n \in Claimed(pod, matches) : Winner(matches, n).id = id}]

-----------------------------------------------------------------------------
(* RFC 6902, as the apiserver applies it.                                  *)

\* The objects a path leads through, from the document to the parent of the
\* last key.
Nodes(doc, path) ==
  LET node[k \in 0..Len(path) - 1] == IF k = 0 THEN doc ELSE node[k - 1][path[k]]
  IN node

\* The parent of the path exists, and what is replaced or removed does too.
Lands(doc, op) ==
  LET n == Len(op.path) IN
  /\ \A k \in 1..n - 1 : op.path[k] \in DOMAIN Nodes(doc, op.path)[k - 1]
  /\ op.op # "add" => op.path[n] \in DOMAIN Nodes(doc, op.path)[n - 1]

\* An object with another value at a key, and with a key added, replaced or removed;
\* the objects on the path after that, from the parent of the last key up to the
\* document.
Updated(object, key, value) == [object EXCEPT ![key] = value]
Amended(object, key, op) ==
  IF op.op = "remove" THEN [x \in DOMAIN object \ {key} |-> object[x]]
  ELSE [x \in DOMAIN object \cup {key} |-> IF x = key THEN op.value ELSE object[x]]
Edited(doc, op) ==
  LET n == Len(op.path)
      old == Nodes(doc, op.path)
      new[k \in 0..n - 1] ==
        IF k = 0 THEN Amended(old[n - 1], op.path[n], op)
        ELSE Updated(old[n - 1 - k], op.path[n - k], new[k - 1])
  IN new
Edit(doc, op) == Edited(doc, op)[Len(op.path) - 1]

\* The documents after each of the operations, as far as they land.
After(doc, op) == IF Lands(doc, op) THEN Edit(doc, op) ELSE doc
Edits(doc, ops) ==
  LET after[k \in 0..Len(ops)] == IF k = 0 THEN doc ELSE After(after[k - 1], ops[k])
  IN after

Accepts(doc, ops) == \A k \in DOMAIN ops : Lands(Edits(doc, ops)[k - 1], ops[k])
Patched(doc, ops) == Edits(doc, ops)[Len(ops)]

\* The quantities of a container's requests or limits.
Quantities(container, k) ==
  IF "resources" \in DOMAIN container /\ k \in DOMAIN container.resources
  THEN container.resources[k] ELSE Empty
=============================================================================
