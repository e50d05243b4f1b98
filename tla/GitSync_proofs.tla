--------------------------- MODULE GitSync_proofs ---------------------------
(***************************************************************************)
(* Proofs about GitSync, for every set of workloads and namespaces, every  *)
(* start and any number of changes and failures: what a push to the target *)
(* branch may not touch.                                                   *)
(*                                                                         *)
(* The invariant, on what the Job has in its hands (Sound):                *)
(*   - a namespace that could not be read has no entries;                  *)
(*   - the documents of before the sync are those of the commit it works   *)
(*     on, until it rebases;                                               *)
(*   - a commit that waits for its second push is, for every protected     *)
(*     workload and every document another writer has changed since the    *)
(*     clone, the same as the tip it is rebased on.                        *)
(***************************************************************************)
EXTENDS GitSync, TLAPS

\* Workloads whose documents the push to the target branch may not touch.
Protected(j) ==
  {w \in Workloads :
     \/ j.entries[w].bucket \in {"mr", "dry"} /\ Ns[w] \notin Garbled(j.snapshot)
     \/ Ns[w] \in j.unreadable}

JobFields == {"phase", "entries", "snapshot", "base", "tree", "pushed", "unreadable", "unlisted"}

Sound(j) ==
  /\ DOMAIN j = JobFields
  /\ \A w \in Workloads : Ns[w] \in j.unreadable => j.entries[w].bucket = "none"
  /\ j.phase \in {"pass1", "rebase"} => j.snapshot = j.base
  /\ j.phase \in {"rebase", "retry"} => \A w \in Protected(j) : j.tree[w] = j.base[w]
  /\ j.phase = "retry" => \A w \in Delta(j.snapshot, j.base) : j.tree[w] = j.base[w]

IInv == recommended \in Entries /\ (job = NoJob \/ Sound(job))

\* The first pass renders the direct bucket and leaves every protected document
\* alone: the file of its namespace is rewritten with it, or not at all, and is
\* no orphan.
LEMMA FirstPassKeeps ==
  ASSUME NEW j, NEW prune \in BOOLEAN, NEW stamp, NEW w \in Protected(j),
         \A v \in Workloads : Ns[v] \in j.unreadable => j.entries[v].bucket = "none",
         j.snapshot = j.base
  PROVE  WriteFiles(j, j.base, {"direct"}, prune, stamp)[w] = j.base[w]
<1>. DEFINE written == In(j.entries, {"direct"})
            kept == Preserved(j.entries, {"direct"})
            files(ws) == {Ns[v] : v \in ws}
            present == files({v \in Workloads : j.base[v] # NoDoc})
            rewritten == files(written) \cup (files(kept) \cap present)
<1>1. w \in Workloads /\ w \notin written
  BY DEF Protected, In
<1>2. WriteFiles(j, j.base, {"direct"}, prune, stamp)[w] =
        IF Ns[w] \in rewritten THEN NamespaceDoc(j, written, kept, w, stamp)
        ELSE IF prune /\ Orphan(Ns[w], files(written \cup kept), j, j.base) THEN NoDoc
        ELSE j.base[w]
  BY <1>1 DEF WriteFiles
<1>3. CASE j.entries[w].bucket \in {"mr", "dry"} /\ Ns[w] \notin Garbled(j.snapshot)
  <2>1. w \in kept
    BY <1>1, <1>3 DEF Preserved, In, Buckets
  <2>2. NamespaceDoc(j, written, kept, w, stamp) = j.base[w]
    BY <1>1, <1>3, <2>1 DEF NamespaceDoc, OldDoc
  <2>3. ~Orphan(Ns[w], files(written \cup kept), j, j.base)
    BY <2>1 DEF Orphan
  <2>. QED
    BY <1>2, <2>2, <2>3
<1>4. CASE Ns[w] \in j.unreadable
  <2>1. \A v \in written \cup kept : Ns[v] # Ns[w]
    BY <1>4 DEF Preserved, In, Buckets
  <2>2. Ns[w] \notin rewritten
    BY <2>1
  <2>3. ~Orphan(Ns[w], files(written \cup kept), j, j.base)
    BY <1>4 DEF Orphan
  <2>. QED
    BY <1>2, <2>2, <2>3
<1>. QED
  BY <1>3, <1>4 DEF Protected

LEMMA InitInv == Init => IInv
BY StartAssumption DEF Init, IInv

LEMMA CloneStep ==
  ASSUME IInv, NEW unreadable, NEW unlisted, Clone(unreadable, unlisted)
  PROVE  Sound(job')
<1>1. PICK entries : entries = EntriesWithout(unreadable, unlisted)
  OBVIOUS
<1>2. job' = [Cloned(entries) EXCEPT !.unreadable = unreadable, !.unlisted = unlisted]
  BY <1>1 DEF Clone
<1>3. /\ DOMAIN job' = JobFields
      /\ job'.phase \in {"pass1", "pass2"}
      /\ job'.entries = entries /\ job'.unreadable = unreadable
      /\ job'.snapshot = main /\ job'.base = main
  BY <1>2 DEF Cloned, JobFields
<1>4. ASSUME NEW w \in Workloads, Ns[w] \in unreadable
      PROVE  entries[w].bucket = "none"
  BY <1>1, <1>4 DEF EntriesWithout, IInv, Entries
<1>. QED
  BY <1>3, <1>4 DEF Sound

LEMMA DirectPassStep ==
  ASSUME Sound(job), NEW stamp, DirectPass(stamp)
  PROVE  /\ job' = NoJob \/ Sound(job')
         /\ main' # main => main = job.base /\ \A w \in Protected(job) : main'[w] = main[w]
<1>1. PICK tree : tree = WriteFiles(job, job.base, {"direct"}, In(job.entries, {"mr"}) = {}, stamp)
  OBVIOUS
<1>2. /\ job.phase = "pass1"
      /\ \/ main' = main /\ ToPass2(job)
         \/ main = job.base /\ main' = tree /\ ToPass2([job EXCEPT !.tree = tree, !.pushed = TRUE])
         \/ main' = main /\ job' = [job EXCEPT !.tree = tree, !.phase = "rebase"]
  BY <1>1 DEF DirectPass
<1>3. \A w \in Protected(job) : tree[w] = job.base[w]
  <2>1. PICK prune \in BOOLEAN : prune <=> In(job.entries, {"mr"}) = {}
    OBVIOUS
  <2>2. tree = WriteFiles(job, job.base, {"direct"}, prune, stamp)
    BY <1>1, <2>1
  <2>3. /\ job.snapshot = job.base
        /\ \A v \in Workloads : Ns[v] \in job.unreadable => job.entries[v].bucket = "none"
    BY <1>2 DEF Sound
  <2>. QED
    BY <2>2, <2>3, FirstPassKeeps
<1>4. CASE main' = main /\ ToPass2(job)
  BY <1>4 DEF Sound, ToPass2, JobFields, Protected
<1>5. CASE main = job.base /\ main' = tree /\ ToPass2([job EXCEPT !.tree = tree, !.pushed = TRUE])
  <2>1. job' = NoJob \/ Sound(job')
    BY <1>5 DEF Sound, ToPass2, JobFields, Protected
  <2>. QED
    BY <1>3, <1>5, <2>1
<1>6. CASE main' = main /\ job' = [job EXCEPT !.tree = tree, !.phase = "rebase"]
  <2>1. /\ DOMAIN job' = JobFields /\ job'.phase = "rebase" /\ job'.tree = tree
        /\ job'.base = job.base /\ job'.snapshot = job.snapshot
        /\ job'.entries = job.entries /\ job'.unreadable = job.unreadable
    BY <1>6 DEF Sound, JobFields
  <2>. QED
    BY <1>2, <1>3, <1>6, <2>1 DEF Sound, Protected
<1>. QED
  BY <1>2, <1>4, <1>5, <1>6

\* What another writer has changed wins, and what is protected is not in the commit.
LEMMA RebaseStep ==
  ASSUME Sound(job), Rebase
  PROVE  job' = NoJob \/ Sound(job')
<1>1. CASE Exit
  BY <1>1 DEF Exit
<1>2. CASE /\ ~Conflict(job.base, job.tree, main)
           /\ job' = [job EXCEPT !.phase = "retry", !.base = main,
                                 !.tree = ThreeWay(job.base, job.tree, main)]
  <2>1. /\ DOMAIN job' = JobFields /\ job'.phase = "retry" /\ job'.base = main
        /\ job'.tree = ThreeWay(job.base, job.tree, main) /\ job'.snapshot = job.snapshot
        /\ job'.entries = job.entries /\ job'.unreadable = job.unreadable
    BY <1>2 DEF Sound, JobFields
  <2>2. job.phase = "rebase" /\ job.snapshot = job.base
    BY DEF Rebase, Sound
  <2>3. ASSUME NEW w \in Protected(job)
        PROVE  job'.tree[w] = main[w]
    BY <2>1, <2>2, <2>3 DEF Sound, Protected, ThreeWay, Delta
  <2>4. ASSUME NEW w \in Delta(job.base, main)
        PROVE  job'.tree[w] = main[w]
    BY <1>2, <2>1, <2>4 DEF Conflict, ThreeWay, Delta
  <2>. QED
    BY <2>1, <2>2, <2>3, <2>4 DEF Sound, Protected
<1>. QED
  BY <1>1, <1>2 DEF Rebase

LEMMA RetryStep ==
  ASSUME Sound(job), Retry
  PROVE  /\ job' = NoJob \/ Sound(job')
         /\ main' # main => main = job.base /\ main' = job.tree /\ job.phase = "retry"
<1>1. CASE main = job.base /\ main' = job.tree /\ ToPass2([job EXCEPT !.pushed = TRUE])
  <2>1. job' = NoJob \/ Sound(job')
    BY <1>1 DEF Sound, ToPass2, JobFields, Protected
  <2>. QED
    BY <1>1, <2>1 DEF Retry
<1>2. CASE main' = main /\ Exit
  BY <1>2 DEF Exit
<1>. QED
  BY <1>1, <1>2 DEF Retry

LEMMA RequestPassStep ==
  ASSUME Sound(job), NEW stamp, RequestPass(stamp)
  PROVE  job' = NoJob \/ Sound(job')
<1>1. job' = NoJob \/ job' = [job EXCEPT !.phase = "request"]
  BY DEF RequestPass, Exit
<1>. QED
  BY <1>1 DEF Sound, JobFields, Protected

\* The steps that have no hand in the target branch, or none in the Job.
LEMMA Bystanders ==
  ASSUME IInv,
         \/ \E w \in Restless, value \in Values, bucket \in Buckets : Recommend(w, value, bucket)
         \/ \E w \in Restless, doc \in Doc \cup {NoDoc, Broken} : OtherCommits(w, doc)
         \/ Merge \/ Close \/ OpenRequest \/ Crash \/ UNCHANGED vars
  PROVE  recommended' \in Entries /\ (job' = job \/ job' = NoJob) /\ ~Pushes
<1>1. ASSUME NEW w \in Restless, NEW value \in Values, NEW bucket \in Buckets,
             Recommend(w, value, bucket)
      PROVE  recommended' \in Entries /\ UNCHANGED job
  <2>1. recommended' = [recommended EXCEPT ![w] = [value |-> value, bucket |-> bucket]]
    BY <1>1 DEF Recommend
  <2>2. [value |-> value, bucket |-> bucket] \in [value : Values, bucket : Buckets]
    OBVIOUS
  <2>3. recommended' \in Entries
    BY <2>1, <2>2 DEF IInv, Entries
  <2>. QED
    BY <1>1, <2>3 DEF Recommend, Change
<1>2. ASSUME NEW w \in Restless, NEW doc \in Doc \cup {NoDoc, Broken}, OtherCommits(w, doc)
      PROVE  UNCHANGED <<recommended, job>>
  BY <1>2 DEF OtherCommits, Change
<1>3. CASE Merge \/ Close
  BY <1>3 DEF Merge, Close, Change, Pushes, IInv
<1>4. CASE OpenRequest \/ Crash \/ UNCHANGED vars
  BY <1>4 DEF OpenRequest, Crash, Exit, vars, Pushes, IInv
<1>. QED
  BY <1>1, <1>2, <1>3, <1>4 DEF Pushes, IInv

\* Every step: the invariant, and what a push leaves alone.
LEMMA NextStep ==
  ASSUME IInv, [Next]_vars
  PROVE  /\ IInv'
         /\ Pushes => /\ \A w \in Protected(job) : main'[w] = main[w]
                      /\ \A w \in Delta(job.snapshot, main) : main'[w] = main[w]
<1>1. ASSUME NEW f \in ReadFailures, Clone(f.unreadable, f.unlisted)
      PROVE  IInv' /\ ~Pushes
  <2>1. Sound(job')
    BY <1>1, CloneStep
  <2>. QED
    BY <1>1, <2>1 DEF Clone, IInv, Pushes
<1>2. ASSUME NEW stamp \in Stamps, DirectPass(stamp)
      PROVE  /\ IInv'
             /\ Pushes => /\ \A w \in Protected(job) : main'[w] = main[w]
                          /\ \A w \in Delta(job.snapshot, main) : main'[w] = main[w]
  <2>1. job.phase = "pass1" /\ UNCHANGED recommended
    BY <1>2 DEF DirectPass
  <2>2. Sound(job)
    BY <2>1 DEF IInv, NoJob
  <2>3. /\ job' = NoJob \/ Sound(job')
        /\ main' # main => main = job.base /\ \A w \in Protected(job) : main'[w] = main[w]
    BY <1>2, <2>2, DirectPassStep
  <2>4. main = job.base => Delta(job.snapshot, main) = {}
    BY <2>1, <2>2 DEF Sound, Delta
  <2>. QED
    BY <2>1, <2>3, <2>4 DEF IInv, Pushes
<1>3. CASE Rebase
  <2>1. job.phase = "rebase" /\ UNCHANGED <<recommended, main>>
    BY <1>3 DEF Rebase
  <2>2. Sound(job)
    BY <2>1 DEF IInv, NoJob
  <2>. QED
    BY <1>3, <2>1, <2>2, RebaseStep DEF IInv, Pushes
<1>4. CASE Retry
  <2>1. job.phase = "retry" /\ UNCHANGED recommended
    BY <1>4 DEF Retry
  <2>2. Sound(job)
    BY <2>1 DEF IInv, NoJob
  <2>3. /\ job' = NoJob \/ Sound(job')
        /\ main' # main => main = job.base /\ main' = job.tree
    BY <1>4, <2>2, RetryStep
  <2>4. main' # main => /\ \A w \in Protected(job) : main'[w] = main[w]
                        /\ \A w \in Delta(job.snapshot, main) : main'[w] = main[w]
    BY <2>1, <2>2, <2>3 DEF Sound
  <2>. QED
    BY <2>1, <2>3, <2>4 DEF IInv, Pushes
<1>5. ASSUME NEW stamp \in Stamps, RequestPass(stamp)
      PROVE  IInv' /\ ~Pushes
  <2>1. job.phase = "pass2" /\ UNCHANGED <<recommended, main>>
    BY <1>5 DEF RequestPass
  <2>2. Sound(job)
    BY <2>1 DEF IInv, NoJob
  <2>. QED
    BY <1>5, <2>1, <2>2, RequestPassStep DEF IInv, Pushes
<1>6. ASSUME \/ \E w \in Restless, value \in Values, bucket \in Buckets : Recommend(w, value, bucket)
             \/ \E w \in Restless, doc \in Doc \cup {NoDoc, Broken} : OtherCommits(w, doc)
             \/ Merge \/ Close \/ OpenRequest \/ Crash \/ UNCHANGED vars
      PROVE  IInv' /\ ~Pushes
  <2>1. recommended' \in Entries /\ (job' = job \/ job' = NoJob) /\ ~Pushes
    BY <1>6, Bystanders
  <2>. QED
    BY <2>1 DEF IInv
<1>. QED
  BY <1>1, <1>2, <1>3, <1>4, <1>5, <1>6 DEF Next, Surroundings, SyncStep

THEOREM Invariance == Spec => []IInv
BY InitInv, NextStep, PTL DEF Spec

\* A push to the target branch, the first, the one after a rebase, with or without
\* pruning, leaves alone the documents that wait for review, those under dryRun - of
\* files that were YAML at the clone - and those of namespaces that could not be read
\* (_read_old_docs, _render_namespace_file, _prune_orphan_files, _push_with_rebase).
THEOREM BucketsStaySeparate == Spec => BucketsSeparate
<1>1. IInv /\ [Next]_vars =>
        [Pushes => \A w \in Workloads :
           \/ job.entries[w].bucket \in {"mr", "dry"} /\ Ns[w] \notin Garbled(job.snapshot)
           \/ Ns[w] \in job.unreadable
           => main'[w] = main[w]]_vars
  BY NextStep DEF Protected
<1>. QED
  BY <1>1, Invariance, PTL DEF Spec, BucketsSeparate

\* A push never undoes what another writer committed since the clone
\* (_push_with_rebase).
THEOREM OthersStayKept == Spec => OthersKept
<1>1. IInv /\ [Next]_vars =>
        [Pushes => \A w \in Delta(job.snapshot, main) : main'[w] = main[w]]_vars
  BY NextStep
<1>. QED
  BY <1>1, Invariance, PTL DEF Spec, OthersKept
=============================================================================
