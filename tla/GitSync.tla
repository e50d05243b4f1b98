------------------------------- MODULE GitSync -------------------------------
(***************************************************************************)
(* One sync Job in gitops mode (_commit_repo of writeback_webhook.py,      *)
(* _create_gitlab_mr of writeback.py, open_or_update_pr of                 *)
(* git_provider.py).  It clones the repository, renders one file of        *)
(* ResourceOverrides per namespace and delivers it in two passes: entries  *)
(* of the direct bucket are pushed to the target branch, entries of the    *)
(* merge-request bucket are force-pushed to the tool's work branch, under  *)
(* one open request.                                                       *)
(*                                                                         *)
(* Between the steps other writers commit to the target branch, reviewers  *)
(* merge or close the request, recommendations and buckets change, and the *)
(* Job may die; the CronJob (concurrencyPolicy Forbid) starts it again.    *)
(*                                                                         *)
(* The provider's API is Forge, whose steps are steps of the Job.          *)
(*                                                                         *)
(* A branch is a function from workloads to documents; a workload's        *)
(* document is in the file of its namespace.  All files are the tool's.    *)
(* A document that someone has broken makes its whole file no YAML.        *)
(* Bounds: MaxChanges steps of the surroundings, MaxFaults failures.       *)
(***************************************************************************)
EXTENDS Settings, Sequences

CONSTANTS
  Workloads,
  Ns,             \* [workload -> namespace]
  Kind,           \* [workload -> kind]
  Values,         \* what a recommendation may say
  Stamps,         \* values of the last-changed annotation
  NoDoc, NoBranch,
  Broken,         \* a document that is no YAML
  Remotes,        \* git sections of the chart, with the repository's host
  Reviewers,      \* whether config.mr.reviewers names anyone
  Starts,         \* the recommendations there are at first
  StartDocs,      \* what the target branch holds at first
  Restless,       \* workloads that change
  MaxChanges, MaxFaults

ASSUME WorkloadAssumption == Ns \in [Workloads -> {Ns[w] : w \in Workloads}]
ASSUME SettingAssumption ==
  /\ Reviewers \in BOOLEAN
  /\ \A r \in Remotes : r.git \in Git /\ r.host \in Seq(STRING)
ASSUME BoundAssumption == MaxChanges \in Nat /\ MaxFaults \in Nat

Namespaces == {Ns[w] : w \in Workloads}

Doc == [value : Values, stamp : Stamps]
Tree == [Workloads -> Doc \cup {NoDoc, Broken}]

ASSUME DocAssumption == {NoDoc, Broken} \cap Doc = {}

\* "none": the workload is gone, has opted out, or is held back and has no CR.
Buckets == {"direct", "mr", "dry", "none"}
Entries == [Workloads -> [value : Values, bucket : Buckets]]

ASSUME StartAssumption == Starts \subseteq Entries

VARIABLES
  recommended, \* what _build_entries would say of each workload
  main,        \* the target branch
  branch,      \* the work branch: its tree and the commit it forks from
  provider, request, call, \* the forge and its client (Forge)
  job,
  changes, faults

R == INSTANCE Forge

vars == <<recommended, main, branch, provider, request, call, job, changes, faults>>

NoJob == [phase |-> "idle"]
Phases == {"pass1", "rebase", "retry", "pass2", "request"}

In(entries, buckets) == {w \in Workloads : entries[w].bucket \in buckets}

\* Entries that are written at all: `if not write_entries: return None'.
Written(entries) == In(entries, {"direct", "mr"})

-----------------------------------------------------------------------------
(* Rendering.                                                              *)

\* Differences between two trees.
Delta(from, to) == {w \in Workloads : from[w] # to[w]}

\* _render_cr_doc: the document of before the sync keeps its stamp when the
\* resources are the same.
Render(value, old, stamp) ==
  IF old # NoDoc /\ old.value = value THEN old ELSE [value |-> value, stamp |-> stamp]

\* (A mutant: only the other bucket is carried forward.)
PreserveOtherBucket(entries, buckets) == In(entries, {"direct", "mr"} \ buckets)

\* The entries a pass carries forward verbatim: the other bucket's and those
\* under dryRun.
Preserved(entries, buckets) == In(entries, Buckets \ (buckets \cup {"none"}))

\* _read_old_docs: a file that is no YAML counts as one without documents.
Garbled(tree) == {Ns[w] : w \in {v \in Workloads : tree[v] = Broken}}
OldDoc(j, w) == IF Ns[w] \in Garbled(j.snapshot) THEN NoDoc ELSE j.snapshot[w]

\* _render_namespace_file: a rewritten file has the documents of the pass and
\* those carried forward, and no other.
NamespaceDoc(j, written, kept, w, stamp) ==
  CASE w \in written -> Render(j.entries[w].value, OldDoc(j, w), stamp)
    [] w \in kept \ written -> OldDoc(j, w)
    [] OTHER -> NoDoc

\* _prune_orphan_files: the file of a namespace without entries goes, unless
\* the namespace could not be read; a file that is no YAML is not claimed.
Orphan(namespace, expected, j, tree) ==
  namespace \notin expected \cup j.unreadable \cup Garbled(tree)

\* _write_namespace_files, then _prune_orphan_files if `prune': what a pass
\* over `buckets' leaves in the working tree it found as `tree'.
WriteFiles(j, tree, buckets, prune, stamp) ==
  LET written == In(j.entries, buckets)
      kept == Preserved(j.entries, buckets)
      files(ws) == {Ns[w] : w \in ws}
      present == files({w \in Workloads : tree[w] # NoDoc})
      rewritten == files(written) \cup (files(kept) \cap present)
  IN [w \in Workloads |->
       IF Ns[w] \in rewritten THEN NamespaceDoc(j, written, kept, w, stamp)
       ELSE IF prune /\ Orphan(Ns[w], files(written \cup kept), j, tree) THEN NoDoc
       ELSE tree[w]]

-----------------------------------------------------------------------------
(* The surroundings.                                                       *)

Change ==
  /\ changes > 0
  /\ changes' = changes - 1
  /\ UNCHANGED <<job, faults>>

\* Usage changes, or an annotation moves the workload to another bucket.
Recommend(w, value, bucket) ==
  /\ Change
  /\ recommended[w] # [value |-> value, bucket |-> bucket]
  /\ recommended' = [recommended EXCEPT ![w] = [value |-> value, bucket |-> bucket]]
  /\ UNCHANGED <<main, branch, provider, request, call>>

\* A person, or another cluster's Job, commits to the target branch; a slip of the
\* hand breaks the document.
OtherCommits(w, doc) ==
  /\ Change
  /\ main[w] # doc
  /\ main' = [main EXCEPT ![w] = doc]
  /\ UNCHANGED <<recommended, branch, provider, request, call>>

\* Both sides changed a document, and not to the same.
Conflict(base, ours, theirs) ==
  \E w \in Delta(base, ours) \cap Delta(base, theirs) : ours[w] # theirs[w]

ThreeWay(base, ours, theirs) ==
  [w \in Workloads |-> IF w \in Delta(base, ours) THEN ours[w] ELSE theirs[w]]

\* A reviewer merges the request.  GitLab then deletes the branch
\* (remove_source_branch), GitHub if the repository is set up for it: a branch that
\* stays has nothing more to merge, unless its commits were squashed.
Merge ==
  /\ request.state = "open"
  /\ ~Conflict(branch.base, branch.tree, main)
  /\ main' = ThreeWay(branch.base, branch.tree, main)
  /\ branch' \in {NoBranch} \cup
       {b \in {branch, [branch EXCEPT !.base = branch.tree]} : provider.kind = "github"}
  /\ R!Closed
  /\ UNCHANGED <<recommended, job, changes, faults>>

Close ==
  /\ Change
  /\ request.state = "open"
  /\ R!Closed
  /\ UNCHANGED <<recommended, main, branch>>

-----------------------------------------------------------------------------
(* The Job.                                                                *)

Exit == job' = NoJob

\* An error that ends the Job: GitPushError, a failed git command, an error of
\* the provider's API, activeDeadlineSeconds.
Crash ==
  /\ job # NoJob
  /\ faults > 0
  /\ faults' = faults - 1
  /\ Exit
  /\ call' = R!NoCall
  /\ UNCHANGED <<recommended, main, branch, provider, request, changes>>

\* One failed call, or none: entries of namespaces whose live CRs could not be
\* read are left out, workloads of a kind that could not be listed have none
\* (in this mode nothing comes of failed_namespaces).
ReadFailures ==
  {[unreadable |-> n, unlisted |-> {}] : n \in SUBSET Namespaces} \cup
  {[unreadable |-> {}, unlisted |-> {w \in Workloads : Ns[w] = Ns[v] /\ Kind[w] = Kind[v]}] :
     v \in Workloads}

\* The entries of a sync.
EntriesWithout(unreadable, unlisted) ==
  [w \in Workloads |->
     IF Ns[w] \in unreadable \/ w \in unlisted
     THEN [recommended[w] EXCEPT !.bucket = "none"] ELSE recommended[w]]

\* _commit_repo: merge-request entries without a token end the run before any
\* git command, direct entries with them.
Deliverable(entries) == In(entries, {"mr"}) # {} => provider.token

\* A clone and one snapshot of its documents, for both passes.
Cloned(entries) ==
  [phase |-> IF In(entries, {"direct"}) # {} THEN "pass1" ELSE "pass2",
   entries |-> entries, snapshot |-> main, base |-> main, tree |-> main, pushed |-> FALSE,
   unreadable |-> {}, unlisted |-> {}]

\* cmd_sync and write_back_webhook_all up to the clone: no entry to write means
\* no clone.
Clone(unreadable, unlisted) ==
  LET entries == EntriesWithout(unreadable, unlisted)
  IN
  /\ job = NoJob
  /\ faults' = IF unreadable \cup unlisted = {} THEN faults ELSE faults - 1
  /\ faults' \in Nat
  /\ Written(entries) # {}
  /\ Deliverable(entries)
  /\ job' = [Cloned(entries) EXCEPT !.unreadable = unreadable, !.unlisted = unlisted]
  /\ UNCHANGED <<recommended, main, branch, provider, request, call, changes>>

\* After the direct push, or without one: the merge-request pass if it has
\* entries.
ToPass2(j) ==
  job' = IF In(j.entries, {"mr"}) = {} THEN NoJob ELSE [j EXCEPT !.phase = "pass2"]

\* (A mutant: orphan files are left to a second pass in every sync.)
DirectPassNeverPrunes(stamp) ==
  LET tree == WriteFiles(job, job.base, {"direct"}, FALSE, stamp)
  IN
  /\ job.phase = "pass1"
  /\ IF tree = job.base
       THEN main' = main /\ ToPass2(job)
       ELSE IF main = job.base
       THEN main' = tree /\ ToPass2([job EXCEPT !.tree = tree, !.pushed = TRUE])
       ELSE main' = main /\ job' = [job EXCEPT !.tree = tree, !.phase = "rebase"]
  /\ UNCHANGED <<recommended, branch, provider, request, call, changes, faults>>

\* Pass 1: files that only lost their last entry are left to pass 2 if there
\* will be one.
DirectPass(stamp) ==
  LET tree == WriteFiles(job, job.base, {"direct"}, In(job.entries, {"mr"}) = {}, stamp)
  IN
  /\ job.phase = "pass1"
  /\ IF tree = job.base
       THEN main' = main /\ ToPass2(job)
       ELSE IF main = job.base
       THEN main' = tree /\ ToPass2([job EXCEPT !.tree = tree, !.pushed = TRUE])
       ELSE main' = main /\ job' = [job EXCEPT !.tree = tree, !.phase = "rebase"]
  /\ UNCHANGED <<recommended, branch, provider, request, call, changes, faults>>

\* (A mutant: the commit replaces what came in between.)
RebaseOursWins ==
  /\ job.phase = "rebase"
  /\ job' = [job EXCEPT !.phase = "retry", !.base = main, !.tree = ThreeWay(main, job.tree, main)]
  /\ UNCHANGED <<recommended, main, branch, provider, request, call, changes, faults>>

\* The push was rejected: fetch, rebase.  Changes of other documents of one
\* file may or may not be textual conflicts.
Rebase ==
  LET ours == Delta(job.base, job.tree)
      theirs == Delta(job.base, main)
      near == \E v \in ours, w \in theirs : Ns[v] = Ns[w]
  IN
  /\ job.phase = "rebase"
  /\ \/ /\ ~Conflict(job.base, job.tree, main)
        /\ job' = [job EXCEPT !.phase = "retry", !.base = main,
                              !.tree = ThreeWay(job.base, job.tree, main)]
     \/ near /\ Exit
  /\ UNCHANGED <<recommended, main, branch, provider, request, call, changes, faults>>

\* Pushed again, once.
Retry ==
  /\ job.phase = "retry"
  /\ IF main = job.base
       THEN main' = job.tree /\ ToPass2([job EXCEPT !.pushed = TRUE])
       ELSE main' = main /\ Exit
  /\ UNCHANGED <<recommended, branch, provider, request, call, changes, faults>>

\* (A mutant: the second pass writes its own bucket only and carries the
\* direct one forward from before the sync.)
RequestPassAlone(stamp) ==
  LET base == IF job.pushed THEN main ELSE job.base
      tree == WriteFiles(job, base, {"mr"}, TRUE, stamp)
  IN
  /\ job.phase = "pass2"
  /\ IF tree = base
       THEN branch' = branch /\ Exit /\ call' = call
       ELSE /\ branch' = [tree |-> tree, base |-> base]
            /\ job' = [job EXCEPT !.phase = "request"]
            /\ \E reviewers \in R!Resolved : R!Begin(reviewers)
  /\ UNCHANGED <<recommended, main, provider, request, changes, faults>>

\* Pass 2: the work branch is forked from the tip that pass 1 pushed (fetched
\* only then), every entry is rendered again from the documents of before the
\* sync, and the branch is force-pushed.
RequestPass(stamp) ==
  LET base == IF job.pushed THEN main ELSE job.base
      tree == WriteFiles(job, base, {"direct", "mr"}, TRUE, stamp)
  IN
  /\ job.phase = "pass2"
  /\ IF tree = base
       THEN branch' = branch /\ Exit /\ call' = call
       ELSE /\ branch' = [tree |-> tree, base |-> base]
            /\ job' = [job EXCEPT !.phase = "request"]
            /\ \E reviewers \in R!Resolved : R!Begin(reviewers)
  /\ UNCHANGED <<recommended, main, provider, request, changes, faults>>

\* The work branch has something to merge.
Mergeable == branch # NoBranch /\ branch.tree # branch.base

\* open_or_update_pr, and the Job is over.
OpenRequest ==
  /\ job.phase = "request"
  /\ \/ /\ \/ R!Lookup
           \/ R!Update
           \/ R!Create(Mergeable)
           \/ R!CreateConflicts
           \/ ~Mergeable /\ R!CreateRefused
           \/ R!Recover
           \/ R!RequestReviewers
        /\ UNCHANGED faults
     \/ /\ R!CreateUnheard(Mergeable) \/ R!ReviewersNotAsked
        /\ faults > 0
        /\ faults' = faults - 1
  /\ job' = IF call'.at = "none" THEN NoJob ELSE job
  /\ UNCHANGED <<recommended, main, branch, changes>>

-----------------------------------------------------------------------------
\* What validate lets through, as far as it looks at the repository.
Usable ==
  {r \in Remotes : RequiredPresent(r.git) /\ AppAuthWhole(r.git) /\ RefsSafe(r.git) /\ IdentityWhole(r.git)}

Init ==
  /\ recommended \in Starts
  /\ main \in StartDocs
  /\ branch = NoBranch
  /\ provider \in {R!BuildProvider(r.git, r.host) : r \in Usable}
  /\ request = R!NoRequest
  /\ call = R!NoCall
  /\ job = NoJob
  /\ changes = MaxChanges
  /\ faults = MaxFaults

Surroundings ==
  \/ \E w \in Restless, value \in Values, bucket \in Buckets : Recommend(w, value, bucket)
  \/ \E w \in Restless, doc \in Doc \cup {NoDoc, Broken} : OtherCommits(w, doc)
  \/ Merge
  \/ Close

SyncStep ==
  \/ \E f \in ReadFailures : Clone(f.unreadable, f.unlisted)
  \/ \E stamp \in Stamps : DirectPass(stamp)
  \/ Rebase
  \/ Retry
  \/ \E stamp \in Stamps : RequestPass(stamp)
  \/ OpenRequest

Next == Surroundings \/ SyncStep \/ Crash

Spec == Init /\ [][Next]_vars

\* The CronJob starts the next Job, and a started Job runs.
FairSpec == Spec /\ WF_vars(SyncStep)

-----------------------------------------------------------------------------
(* Properties.                                                             *)

TypeOK ==
  /\ recommended \in Entries
  /\ main \in Tree
  /\ branch = NoBranch \/ (DOMAIN branch = {"tree", "base"} /\ branch.tree \in Tree /\ branch.base \in Tree)
  /\ provider \in R!Provider
  /\ request \in R!Request
  /\ request.state = "open" => branch # NoBranch
  /\ call \in R!Call
  /\ job # NoJob =>
       /\ job.phase \in Phases
       /\ job.entries \in Entries
       /\ job.unreadable \subseteq Namespaces /\ job.unlisted \subseteq Workloads
       /\ {job.snapshot, job.base, job.tree} \subseteq Tree
       /\ job.pushed \in BOOLEAN
  /\ changes \in 0 .. MaxChanges
  /\ faults \in 0 .. MaxFaults

\* The running Job pushes to the target branch.
Pushes == main' # main /\ job' # job

\* A push to the target branch, rebased or not, leaves alone the documents of
\* workloads that ask for review, of workloads under dryRun and of namespaces
\* that could not be read (_commit_repo's preserve_entries and
\* untouched_namespaces): none reaches the cluster without its review and
\* none is pruned, as long as their files were YAML when the Job cloned them.
BucketsSeparate ==
  [][Pushes => \A w \in Workloads :
       \/ job.entries[w].bucket \in {"mr", "dry"} /\ Ns[w] \notin Garbled(job.snapshot)
       \/ Ns[w] \in job.unreadable
       => main'[w] = main[w]]_vars

\* "Their committed docs are carried forward verbatim ... rebuilding a namespace file
\* without them would delete their CRs" (_commit_repo docstring): a push keeps the
\* document of every workload under dryRun.
DryRunCarriedForward ==
  [][Pushes => \A w \in In(job.entries, {"dry"}) : main[w] \in Doc => main'[w] = main[w]]_vars

\* "A caller must not read a missing workload as a deleted one"
\* (list_workloads_in_namespace): no push removes the document of a workload
\* because the list call of its kind failed.
MissingIsNotGone ==
  [][Pushes => \A w \in job.unlisted : main[w] \in Doc => main'[w] # NoDoc]_vars

\* _push_with_rebase never undoes what another writer committed since the
\* clone: it lands on top, or the Job fails and the next one renders anew.
OthersKept ==
  [][Pushes => \A w \in Delta(job.snapshot, main) : main'[w] = main[w]]_vars

\* The target branch says of a workload what is recommended, in a file that is YAML;
\* it says so of every written workload, and holds no document of one without an entry.
Says(w) ==
  main[w] \in Doc /\ main[w].value = recommended[w].value /\ Ns[w] \notin Garbled(main)
Delivered(buckets) ==
  \A w \in In(recommended, buckets) :
    IF recommended[w].bucket = "none" THEN main[w] \notin Doc ELSE Says(w)

\* Entries of the direct bucket reach the target branch whether or not any
\* request is ever merged, and stay there: a stale request, a lost push, a
\* conflict, a dead Job or a file that someone broke never strands them.
DirectIsDelivered == <>[]Delivered({"direct"})

UnderReview(w) ==
  /\ request.state = "open"
  /\ branch.tree[w] \in Doc
  /\ branch.tree[w].value = recommended[w].value
  /\ provider.kind = "github" /\ Reviewers => request.reviewers

\* "Idempotently open (or adopt an existing)": what needs a review is in the end
\* delivered, or on the branch of an open request for good - through lost replies,
\* a Job that died after its push, requests that are closed or merged between any
\* two calls, and reviewers that could not be asked at first.  (On GitLab names
\* whose lookup failed when the request was created are never asked.)
ReviewIsAsked ==
  <>[](\A w \in In(recommended, {"mr"}) :
         Says(w) \/ UnderReview(w))

\* With requests that are merged in the end, everything is delivered, and
\* documents of workloads that are gone are removed, as long as there is
\* anything to write (write_back_webhook_all stops early without).
SyncsConverge ==
  WF_vars(Merge) => <>[](Written(recommended) # {} => Delivered({"direct", "mr", "none"}))
=============================================================================
