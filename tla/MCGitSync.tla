----------------------------- MODULE MCGitSync ------------------------------
(* Instances of GitSync: two workloads share the first namespace's file, the  *)
(* third is alone in the second.                                              *)
EXTENDS GitSync

CONSTANTS a1, a2, b1, first, second, early, n1, n2, deployment, cronJob

MCNs == [w \in {a1, a2, b1} |-> IF w = b1 THEN n2 ELSE n1]
MCKind == [w \in {a1, a2, b1} |-> IF w = a1 THEN cronJob ELSE deployment]

MCBuckets ==
  {<<"direct", "mr", "none">>, <<"mr", "dry", "direct">>, <<"direct", "direct", "none">>}
MCStarts ==
  {[w \in {a1, a2, b1} |->
     [value |-> first, bucket |-> CASE w = a1 -> t[1] [] w = a2 -> t[2] [] OTHER -> t[3]]] : t \in MCBuckets}
\* An earlier sync wrote two documents and has not seen the third workload.
MCStartDocs ==
  {[w \in {a1, a2, b1} |-> IF w = a1 THEN NoDoc ELSE [value |-> first, stamp |-> early]]}

\* A repository on gitlab.example.com with a project token, one under
\* github.com with a GitHub App, and one that validate refuses.
MCGit ==
  [mode |-> "gitops", present |-> {"repoUrl", "path", "prometheusUrl"},
   tokens |-> {"GIT_TOKEN"}, app |-> {}, provider |-> "auto",
   branch |-> Main, workBranch |-> SyncWork,
   username |-> "empty", author |-> "ok", email |-> "ok"]
MCRemotes ==
  {[git |-> MCGit, host |-> <<"gitlab", "example", "com">>],
   [git |-> [MCGit EXCEPT !.tokens = {}, !.app = AppKeys], host |-> <<"www", "github", "com">>],
   [git |-> [MCGit EXCEPT !.app = AppKeys], host |-> <<"github", "com">>]}
=============================================================================
