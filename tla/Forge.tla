------------------------------- MODULE Forge --------------------------------
(***************************************************************************)
(* The merge or pull request of a sync: build_provider and                 *)
(* open_or_update_pr of git_provider.py, _create_gitlab_mr of writeback.py. *)
(* The Job looks for an open request of its work branch, updates the one    *)
(* it finds or creates one, and if it then learns that there is one after   *)
(* all (409, 422) looks again.  The sessions send a POST again when its     *)
(* reply is lost.  Meanwhile reviewers merge and close.                     *)
(*                                                                         *)
(* A request is the newest one of the work branch.  Titles, descriptions,  *)
(* labels and assignees are left out.                                       *)
(***************************************************************************)
EXTENDS Settings, Sequences

CONSTANT Reviewers  \* whether config.mr.reviewers names anyone

VARIABLES
  provider,  \* the provider of this run
  request,   \* the request in the forge
  call       \* where open_or_update_pr is

Kinds    == {"gitlab", "github"}
Provider == [kind : Kinds, token : BOOLEAN]
Request  == [state : {"none", "open", "closed"}, reviewers : BOOLEAN]
Call     == [at : {"none", "lookup", "update", "create", "recover", "review"}, reviewers : BOOLEAN]

NoRequest == [state |-> "none", reviewers |-> FALSE]
NoCall    == [at |-> "none", reviewers |-> FALSE]

-----------------------------------------------------------------------------
(* Which provider.                                                         *)

\* _detect_provider, on the labels of a host name: everything that is not github.com
\* or under it is taken for GitLab.
GitHubCom == <<"github", "com">>
DetectProvider(host) ==
  IF Len(host) >= 2 /\ SubSeq(host, Len(host) - 1, Len(host)) = GitHubCom
  THEN "github" ELSE "gitlab"

\* build_provider: a GitHub App's installation token is used like any other.
BuildProvider(git, host) ==
  LET kind == IF git.provider \in Kinds THEN git.provider ELSE DetectProvider(host)
  IN [kind |-> kind, token |-> git.tokens # {} \/ (kind = "github" /\ git.app = AppKeys)]

\* resolve_users: GitLab wants numeric ids, and a name whose lookup fails is
\* dropped; GitHub takes the names.
Resolved == IF provider.kind = "gitlab" THEN {Reviewers, FALSE} ELSE {Reviewers}

-----------------------------------------------------------------------------
(* open_or_update_pr.                                                      *)

Begin(reviewers) == call' = [at |-> "lookup", reviewers |-> reviewers]

\* Mutant of Found: requests are looked up whatever their state.
FoundAny == request.state # "none"
Found == request.state = "open"

\* After the request is there: GitHub takes reviewers in a call of its own.
Finished == IF provider.kind = "github" /\ call.reviewers THEN "review" ELSE "none"
Goto(at) == call' = IF at = "none" THEN NoCall ELSE [call EXCEPT !.at = at]

Lookup ==
  /\ call.at = "lookup"
  /\ Goto(IF Found THEN "update" ELSE "create")
  /\ UNCHANGED <<provider, request>>

\* Also a request that has been closed meanwhile can be updated.
Update ==
  /\ call.at = "update"
  /\ Goto(Finished)
  /\ UNCHANGED <<provider, request>>

Opened == [state |-> "open", reviewers |-> provider.kind = "gitlab" /\ call.reviewers]

\* POST: the forge refuses a second open request, and one with nothing to merge.
Create(mergeable) ==
  /\ call.at = "create"
  /\ request.state # "open"
  /\ mergeable
  /\ request' = Opened
  /\ Goto(Finished)
  /\ UNCHANGED provider

\* The reply is lost, and the session sends the POST once more.
CreateUnheard(mergeable) ==
  /\ call.at = "create"
  /\ request.state # "open"
  /\ mergeable
  /\ request' = Opened
  /\ UNCHANGED <<provider, call>>

CreateConflicts ==
  /\ call.at = "create"
  /\ request.state = "open"
  /\ Goto("recover")
  /\ UNCHANGED <<provider, request>>

\* raise_for_status
CreateRefused ==
  /\ call.at = "create"
  /\ request.state # "open"
  /\ Goto("none")
  /\ UNCHANGED <<provider, request>>

\* 409 or 422: the request that is in the way is looked up; "(MR already
\* exists)" if it is gone again.
Recover ==
  /\ call.at = "recover"
  /\ Goto(IF Found THEN "update" ELSE "none")
  /\ UNCHANGED <<provider, request>>

\* _request_reviewers: a failure is logged and forgotten.
RequestReviewers ==
  /\ call.at = "review"
  /\ request' = [request EXCEPT !.reviewers = TRUE]
  /\ Goto("none")
  /\ UNCHANGED provider
ReviewersNotAsked ==
  /\ call.at = "review"
  /\ Goto("none")
  /\ UNCHANGED <<provider, request>>

\* The reviewer's side.
Closed == request' = [request EXCEPT !.state = "closed"] /\ UNCHANGED <<provider, call>>
=============================================================================
