--------------------------- MODULE CertReconciler ---------------------------
(***************************************************************************)
(* CertReconciler (src/src/webhook_cert.py): every replica of the webhook  *)
(* keeps a self-signed certificate in one Secret, publishes its CA in the  *)
(* caBundle of the mutating and the validating webhook configuration, and  *)
(* serves it.  A replica reads the Secret when it boots                    *)
(* (run_once_blocking), then its thread cycles through _check_expiry,      *)
(* _watch_secret_briefly and _watch_mwc_briefly.  It loads a new           *)
(* certificate only by exiting.                                            *)
(*                                                                         *)
(* Every call to the apiserver is a step, because replicas interleave      *)
(* between them.  A certificate is its serial number in the order of       *)
(* generation, and 0 stands for bytes that are missing or do not parse.    *)
(* Bounds: MaxTrouble counts losses (the Secret stops being usable) and    *)
(* faults (failed calls, replaced processes, reset caBundles) together.    *)
(***************************************************************************)
EXTENDS Naturals, FiniteSets

CONSTANTS
  Replicas,
  NoSecret,
  Deployments,  \* which webhook configurations may exist
  MaxTrouble

Hooks  == {"mwc", "vwc"}
Fields == {"cert", "key", "ca"}   \* tls.crt, tls.key, ca.crt

ASSUME ReplicasAssumption == IsFiniteSet(Replicas)
ASSUME SecretAssumption == NoSecret \notin [Fields -> Nat]
ASSUME DeploymentsAssumption == Deployments \subseteq SUBSET Hooks
ASSUME BoundsAssumption == MaxTrouble \in Nat

VARIABLES
  proc,     \* per replica: where it is (pc), for whom (mode), which hook, and
            \* the certificate or CA in its hands (held)
  served,   \* the certificate aiohttp has loaded, 0 when not serving
  noticed,  \* replicas whose Secret watch has a DELETED event to deliver
  queued,   \* replicas whose MWC watch has an event to deliver
  fresh,    \* replicas whose copy of the configuration they replace is current
  secret,   \* apiserver: the Secret
  bundle,   \* apiserver: the caBundle of each webhook configuration
  present,  \* apiserver: the webhook configurations that exist
  due,      \* the certificates up to this one are within 30 days of expiry
  minted,   \* how many certificates have been generated
  stored,   \* history: the certificates that have been in the Secret
  losses, faults

clusterVars == <<secret, bundle, stored>>
boundVars   == <<due, losses, faults>>
vars == <<proc, served, noticed, queued, fresh, clusterVars, present, minted, boundVars>>

\* "boot": run_once_blocking; "watch": inside the MWC stream; "exit":
\* _regenerate_and_exit; "loop": the rest of _run.
Modes == {"boot", "loop", "watch", "exit"}
PCs == {"boot", "check", "watchSecret", "readCa", "watchMwc",
        "replace", "create", "reread", "ensure", "put"}

TypeOK ==
  /\ minted \in Nat
  /\ proc \in [Replicas -> [pc : PCs, mode : Modes, hook : Hooks, held : 0..minted]]
  /\ served \in [Replicas -> 0..minted]
  /\ noticed \in SUBSET Replicas
  /\ queued \in SUBSET Replicas
  /\ fresh \in SUBSET Replicas
  /\ secret \in [Fields -> 0..minted] \cup {NoSecret}
  /\ bundle \in [Hooks -> 0..minted]
  /\ present \in SUBSET Hooks
  /\ due \in 0..minted
  /\ stored \in SUBSET (1..minted)
  /\ losses \in Nat
  /\ faults \in Nat

Booting == [pc |-> "boot", mode |-> "boot", hook |-> "mwc", held |-> 0]
Looping == [pc |-> "check", mode |-> "loop", hook |-> "mwc", held |-> 0]

\* Cold start: no Secret yet, and the chart's empty caBundle.
Init ==
  /\ proc = [r \in Replicas |-> Booting]
  /\ served = [r \in Replicas |-> 0]
  /\ noticed = {}
  /\ queued = {}
  /\ fresh = {}
  /\ secret = NoSecret
  /\ bundle = [h \in Hooks |-> 0]
  /\ present \in Deployments
  /\ due = 0
  /\ minted = 0
  /\ stored = {}
  /\ losses = 0
  /\ faults = 0

At(r, pc) == proc[r].pc = pc

\* Does _ensure_secret use what it read?  An expired certificate still parses.
Complete(s) == s # NoSecret /\ \A f \in Fields : s[f] # 0

\* Mutant of MustRenew: what has just been generated counts as expiring.
MustRenewAlways(s) == s # NoSecret => s["cert"] <= due + 1

\* Does _check_expiry ask for a new certificate?
MustRenew(s) == s # NoSecret => s["cert"] <= due

-----------------------------------------------------------------------------
(* Getting a certificate: _ensure_secret and _regenerate_secret.           *)

\* Mutant of Mint: a serial taken at boot is not counted, and is given out again.
MintRepeats(r, mode) ==
  /\ minted' = IF mode = "boot" THEN minted ELSE minted + 1
  /\ proc' = [proc EXCEPT ![r] =
                [pc |-> "replace", mode |-> mode, hook |-> "mwc", held |-> minted + 1]]

\* _generate_cert, on the way to REPLACE.
Mint(r, mode) ==
  /\ minted' = minted + 1
  /\ proc' = [proc EXCEPT ![r] =
                [pc |-> "replace", mode |-> mode, hook |-> "mwc", held |-> minted + 1]]

\* A certificate is in hand: publish its CA.
Publish(r, c) ==
  proc' = [proc EXCEPT ![r] =
             [pc |-> "ensure", mode |-> @.mode, hook |-> "mwc", held |-> c]]

\* An exception: run_once_blocking kills the process, _run logs it and goes on.
\* An interrupted _regenerate_and_exit goes on too, and does not exit.
Raise(r) ==
  /\ proc' = [proc EXCEPT ![r] =
                IF @.mode = "boot" THEN Booting ELSE Looping]
  /\ fresh' = fresh \ {r}
  /\ queued' = queued \ {r}
  /\ noticed' = noticed \ {r}

EnsureSecret(r) ==
  /\ At(r, "boot")
  /\ \/ Complete(secret) /\ Publish(r, secret["cert"]) /\ UNCHANGED minted
     \/ ~Complete(secret) /\ Mint(r, "boot")
  /\ UNCHANGED <<served, noticed, queued, fresh, clusterVars, present, boundVars>>

Store(r) ==
  /\ secret' = [f \in Fields |-> proc[r].held]
  /\ stored' = stored \cup {proc[r].held}
  /\ Publish(r, proc[r].held)

\* REPLACE carries no resourceVersion: the last writer wins.
ReplaceSecret(r) ==
  /\ At(r, "replace")
  /\ \/ secret # NoSecret /\ Store(r)
     \/ /\ secret = NoSecret
        /\ proc' = [proc EXCEPT ![r].pc = "create"]
        /\ UNCHANGED <<secret, stored>>
  /\ UNCHANGED <<served, noticed, queued, fresh, bundle, present, minted, boundVars>>

CreateSecret(r) ==
  /\ At(r, "create")
  /\ \/ secret = NoSecret /\ Store(r)
     \/ /\ secret # NoSecret
        /\ proc' = [proc EXCEPT ![r].pc = "reread"]
        /\ UNCHANGED <<secret, stored>>
  /\ UNCHANGED <<served, noticed, queued, fresh, bundle, present, minted, boundVars>>

\* Mutant of Adopt: the loser keeps its own certificate.
AdoptNothing(r) ==
  /\ At(r, "reread")
  /\ Publish(r, proc[r].held)
  /\ UNCHANGED <<noticed, queued, fresh, served, clusterVars, present, minted, boundVars>>

\* CREATE met a Secret: drop the certificate just generated and use that one.
Adopt(r) ==
  /\ At(r, "reread")
  /\ \/ /\ Complete(secret)
        /\ Publish(r, secret["cert"])
        /\ UNCHANGED <<noticed, queued, fresh>>
     \/ ~Complete(secret) /\ Raise(r)
  /\ UNCHANGED <<served, clusterVars, present, minted, boundVars>>

-----------------------------------------------------------------------------
(* Publishing the CA: _ensure_mwc_ca_bundle, then _ensure_vwc_ca_bundle.   *)

\* Both configurations are done: bind TLS, go back to the stream, or exit.
Done(r) ==
  CASE proc[r].mode = "boot"  -> Looping
    [] proc[r].mode = "watch" -> [proc[r] EXCEPT !.pc = "watchMwc", !.hook = "mwc"]
    [] proc[r].mode = "exit"  -> Booting

NextHook(r) ==
  IF proc[r].hook = "mwc"
  THEN /\ proc' = [proc EXCEPT ![r] = [@ EXCEPT !.pc = "ensure", !.hook = "vwc"]]
       /\ UNCHANGED served
  ELSE /\ proc' = [proc EXCEPT ![r] = Done(r)]
       /\ served' = [served EXCEPT ![r] = CASE proc[r].mode = "boot"  -> proc[r].held
                                            [] proc[r].mode = "watch" -> @
                                            [] proc[r].mode = "exit"  -> 0]

ReadConfiguration(r) ==
  /\ At(r, "ensure")
  /\ LET h == proc[r].hook IN
       \/ /\ h \in present => bundle[h] = proc[r].held
          /\ NextHook(r)
          /\ UNCHANGED fresh
       \/ /\ h \in present /\ bundle[h] # proc[r].held
          /\ proc' = [proc EXCEPT ![r].pc = "put"]
          /\ fresh' = fresh \cup {r}
          /\ UNCHANGED served
  /\ UNCHANGED <<noticed, queued, clusterVars, present, minted, boundVars>>

Writers(h)  == {s \in Replicas : At(s, "put") /\ proc[s].hook = h}
Watchers    == {s \in Replicas : proc[s].mode = "watch"}

\* Writing configuration h outdates the copies others have read, and is an
\* event for whoever watches the MWC.
Write(h, c) ==
  /\ bundle' = [bundle EXCEPT ![h] = c]
  /\ fresh' = fresh \ Writers(h)
  /\ queued' = IF h = "mwc" THEN queued \cup Watchers ELSE queued

ReplaceConfiguration(r) ==
  /\ At(r, "put")
  /\ r \in fresh
  /\ Write(proc[r].hook, proc[r].held)
  /\ NextHook(r)
  /\ UNCHANGED <<noticed, secret, stored, present, minted, boundVars>>

\* The configuration has changed since it was read: 409, nobody retries.
Conflict(r) ==
  /\ At(r, "put")
  /\ r \notin fresh
  /\ Raise(r)
  /\ UNCHANGED <<served, clusterVars, present, minted, boundVars>>

-----------------------------------------------------------------------------
(* The background thread: _run.                                            *)

CheckExpiry(r) ==
  /\ At(r, "check")
  /\ \/ MustRenew(secret) /\ Mint(r, "exit")
     \/ /\ ~MustRenew(secret)
        /\ proc' = [proc EXCEPT ![r].pc = "watchSecret"]
        /\ UNCHANGED minted
  /\ UNCHANGED <<served, noticed, queued, fresh, clusterVars, present, boundVars>>

\* _watch_secret_briefly: only DELETED matters.
SecretDeleted(r) ==
  /\ At(r, "watchSecret")
  /\ r \in noticed
  /\ noticed' = noticed \ {r}
  /\ Mint(r, "exit")
  /\ UNCHANGED <<served, queued, fresh, clusterVars, present, boundVars>>

SecretWatchEnds(r) ==
  /\ At(r, "watchSecret")
  /\ proc' = [proc EXCEPT ![r].pc = "readCa"]
  /\ noticed' = noticed \ {r}
  /\ UNCHANGED <<served, queued, fresh, clusterVars, present, minted, boundVars>>

\* Mutant of ReadCa: the stream reacts to MODIFIED only.
ReadCaIgnoresAdded(r) ==
  /\ At(r, "readCa")
  /\ \/ /\ secret # NoSecret => secret["ca"] = 0
        /\ proc' = [proc EXCEPT ![r].pc = "check"]
     \/ /\ secret # NoSecret /\ secret["ca"] # 0
        /\ proc' = [proc EXCEPT ![r] =
                      [pc |-> "watchMwc", mode |-> "watch", hook |-> "mwc", held |-> secret["ca"]]]
  /\ UNCHANGED <<queued, served, noticed, fresh, clusterVars, present, minted, boundVars>>

\* _watch_mwc_briefly: the CA is read once, and the stream opens with an ADDED
\* event for a configuration that exists.
ReadCa(r) ==
  /\ At(r, "readCa")
  /\ \/ /\ secret # NoSecret => secret["ca"] = 0
        /\ proc' = [proc EXCEPT ![r].pc = "check"]
        /\ UNCHANGED queued
     \/ /\ secret # NoSecret /\ secret["ca"] # 0
        /\ proc' = [proc EXCEPT ![r] =
                      [pc |-> "watchMwc", mode |-> "watch", hook |-> "mwc", held |-> secret["ca"]]]
        /\ queued' = IF "mwc" \in present THEN queued \cup {r} ELSE queued
  /\ UNCHANGED <<served, noticed, fresh, clusterVars, present, minted, boundVars>>

MwcEvent(r) ==
  /\ At(r, "watchMwc")
  /\ r \in queued
  /\ queued' = queued \ {r}
  /\ proc' = [proc EXCEPT ![r] = [@ EXCEPT !.pc = "ensure", !.hook = "mwc"]]
  /\ UNCHANGED <<served, noticed, fresh, clusterVars, present, minted, boundVars>>

MwcWatchEnds(r) ==
  /\ At(r, "watchMwc")
  /\ proc' = [proc EXCEPT ![r] = Looping]
  /\ queued' = queued \ {r}
  /\ UNCHANGED <<served, noticed, fresh, clusterVars, present, minted, boundVars>>

-----------------------------------------------------------------------------
(* What happens to the replicas and around them.                           *)

\* Any call, or an open stream, may fail.
CallFails(r) ==
  /\ losses + faults < MaxTrouble
  /\ faults' = faults + 1
  /\ Raise(r)
  /\ UNCHANGED <<served, clusterVars, present, minted, due, losses>>

\* The pod is replaced.
Crash(r) ==
  /\ losses + faults < MaxTrouble
  /\ faults' = faults + 1
  /\ proc' = [proc EXCEPT ![r] = Booting]
  /\ served' = [served EXCEPT ![r] = 0]
  /\ noticed' = noticed \ {r}
  /\ queued' = queued \ {r}
  /\ fresh' = fresh \ {r}
  /\ UNCHANGED <<clusterVars, present, minted, due, losses>>

\* GitOps puts the chart's empty caBundle back.
Drift(h) ==
  /\ losses + faults < MaxTrouble
  /\ h \in present
  /\ faults' = faults + 1
  /\ Write(h, 0)
  /\ UNCHANGED <<proc, served, noticed, secret, stored, present, minted, due, losses>>

DeleteSecret ==
  /\ losses + faults < MaxTrouble
  /\ secret # NoSecret
  /\ losses' = losses + 1
  /\ secret' = NoSecret
  /\ noticed' = noticed \cup {r \in Replicas : At(r, "watchSecret")}
  /\ UNCHANGED <<proc, served, queued, fresh, bundle, stored, present, minted, due, faults>>

DamageSecret(f) ==
  /\ losses + faults < MaxTrouble
  /\ secret # NoSecret
  /\ losses' = losses + 1
  /\ secret' = [secret EXCEPT ![f] = 0]
  /\ UNCHANGED <<proc, served, noticed, queued, fresh, bundle, stored, present, minted, due, faults>>

\* Eleven months pass, and all that has been generated is within 30 days of
\* expiry: no call that was to store a certificate is still on its way.
ComesDue ==
  /\ losses + faults < MaxTrouble
  /\ \A r \in Replicas : proc[r].pc \notin {"replace", "create"}
  /\ due < minted
  /\ losses' = losses + 1
  /\ due' = minted
  /\ UNCHANGED <<proc, served, noticed, queued, fresh, clusterVars, present, minted, faults>>

Step(r) ==
  \/ EnsureSecret(r) \/ ReplaceSecret(r) \/ CreateSecret(r) \/ Adopt(r)
  \/ ReadConfiguration(r) \/ ReplaceConfiguration(r) \/ Conflict(r)
  \/ CheckExpiry(r) \/ SecretWatchEnds(r) \/ ReadCa(r)

Environment ==
  \/ \E r \in Replicas : CallFails(r) \/ Crash(r)
  \/ \E h \in Hooks : Drift(h)
  \/ \E f \in Fields : DamageSecret(f)
  \/ DeleteSecret
  \/ ComesDue

Next ==
  \/ \E r \in Replicas : Step(r) \/ SecretDeleted(r) \/ MwcEvent(r) \/ MwcWatchEnds(r)
  \/ Environment

Spec == Init /\ [][Next]_vars

\* A replica that is not replaced keeps running; the MWC stream delivers what
\* it has, and lives 300 seconds (timeout_seconds).
FairSpec ==
  /\ Spec
  /\ \A r \in Replicas : WF_vars(Step(r)) /\ SF_vars(MwcEvent(r)) /\ SF_vars(MwcWatchEnds(r))

-----------------------------------------------------------------------------
\* Nobody serves, publishes or is about to publish a certificate that never was
\* in the Secret: a replica that loses the race for the Secret must drop what it
\* has generated (_regenerate_secret, the 409 branch), and half a Secret must
\* never be taken for a certificate.
OnlyStoredIsUsed ==
  /\ \A r \in Replicas : /\ served[r] \in stored \cup {0}
                         /\ proc[r].pc \in {"ensure", "put", "watchMwc"} => proc[r].held \in stored
  /\ \A h \in Hooks : bundle[h] \in stored \cup {0}

\* Replicas do not rotate each other's certificates in turn: one that is lost
\* costs at most a new one per replica, and a failed call or a crash one more.
RotationsBounded == minted <= Cardinality(Replicas) * (1 + losses) + faults

\* Once nothing is lost any more, the Secret holds a certificate that is not
\* about to expire, and every webhook configuration carries its CA: however the
\* replicas' renewals, repairs and 409s interleave, with CAs read before a
\* rotation and written after it (_watch_mwc_briefly reads ca.crt once).
BundlesConverge ==
  <>[](/\ secret # NoSecret
       /\ secret["cert"] > due
       /\ \A h \in present : secret["ca"] \in {0, bundle[h]})

\* In the end the replicas serve the same certificate: "the loser sees a 409
\* Conflict, re-reads the Secret, and uses whatever cert the winner produced".
ReplicasAgree == <>[](\A r, s \in Replicas : served[r] = served[s])
=============================================================================
