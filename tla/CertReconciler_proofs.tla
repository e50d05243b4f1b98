----------------------- MODULE CertReconciler_proofs -----------------------
(***************************************************************************)
(* Proofs about CertReconciler, for any number of replicas, any set of     *)
(* deployed webhook configurations and any amount of trouble.  IInv is the *)
(* type invariant and what ties the certificates in use to the Secret;     *)
(* RotationInv, below, is the account of who may still generate one.       *)
(***************************************************************************)
EXTENDS CertReconciler, FiniteSetTheorems, TLAPS

\* What lies in the Secret has been stored there, whole or in part.
SecretIsStored == secret # NoSecret => \A f \in Fields : secret[f] \in stored \cup {0}

\* Who is about to write the Secret holds a certificate that was generated.
WritersHoldMinted ==
  \A r \in Replicas : proc[r].pc \in {"replace", "create"} => proc[r].held \in 1..minted

\* A replica with a call of its own to finish is not at rest in the loop.
LoopIsIdle ==
  \A r \in Replicas : proc[r].mode = "loop" => proc[r].pc \in {"check", "watchSecret", "readCa"}

IInv == TypeOK /\ OnlyStoredIsUsed /\ SecretIsStored /\ WritersHoldMinted /\ LoopIsIdle

ProcOf(n) == [pc : PCs, mode : Modes, hook : Hooks, held : 0..n]

USE DEF Hooks, Fields, Modes, PCs

\* _generate_cert hands a certificate nobody has seen to a replica that is
\* going to REPLACE the Secret; every other replica is left alone.
LEMMA MintStep ==
  ASSUME IInv, NEW r \in Replicas, NEW mode \in {"boot", "exit"}, Mint(r, mode),
         UNCHANGED <<served, clusterVars, present, boundVars>>,
         noticed' \in SUBSET Replicas, queued' \in SUBSET Replicas, fresh' \in SUBSET Replicas
  PROVE  IInv'
<1>1. minted \in Nat /\ minted' = minted + 1 /\ 0..minted \subseteq 0..minted'
      BY DEF IInv, TypeOK, Mint
<1>2. proc \in [Replicas -> ProcOf(minted')]
      BY <1>1 DEF IInv, TypeOK, ProcOf
<1>3. proc' \in [Replicas -> ProcOf(minted')]
      BY <1>1, <1>2 DEF Mint, ProcOf
<1>4. TypeOK'
      BY <1>1, <1>3 DEF IInv, TypeOK, ProcOf, clusterVars, boundVars
<1>5. \A s \in Replicas : s # r => proc'[s] = proc[s]
      BY DEF Mint, IInv, TypeOK
<1>6. proc'[r].pc = "replace" /\ proc'[r].held = minted' /\ proc'[r].mode = mode
      BY <1>1 DEF Mint, IInv, TypeOK
<1>7. OnlyStoredIsUsed'
      BY <1>5, <1>6 DEF IInv, OnlyStoredIsUsed, clusterVars
<1>8. SecretIsStored'
      BY DEF IInv, SecretIsStored, clusterVars
<1>9. WritersHoldMinted'
      BY <1>1, <1>5, <1>6 DEF IInv, WritersHoldMinted
<1>10. LoopIsIdle'
      BY <1>5, <1>6 DEF IInv, LoopIsIdle
<1>q. QED BY <1>4, <1>7, <1>8, <1>9, <1>10 DEF IInv

\* Every published CA has been in the Secret: the invariant, as a type.
LEMMA BundleIsStored ==
  ASSUME IInv PROVE bundle \in [Hooks -> stored \cup {0}]
BY DEF IInv, TypeOK, OnlyStoredIsUsed

\* A replica moves on without a certificate in hand, or with one that has been
\* stored: nothing else that the invariant looks at changes.
LEMMA MoveStep ==
  ASSUME IInv, NEW r \in Replicas, NEW p \in ProcOf(minted),
         proc' = [proc EXCEPT ![r] = p],
         p.pc \in {"replace", "create"} => p.held \in 1..minted,
         p.pc \in {"ensure", "put", "watchMwc"} => p.held \in stored,
         p.mode = "loop" => p.pc \in {"check", "watchSecret", "readCa"},
         served' = served \/ \E c \in stored \cup {0} : served' = [served EXCEPT ![r] = c],
         noticed' \in SUBSET Replicas, queued' \in SUBSET Replicas, fresh' \in SUBSET Replicas,
         losses' \in Nat, faults' \in Nat,
         bundle' \in [Hooks -> stored \cup {0}],
         UNCHANGED <<secret, stored, present, minted, due>>
  PROVE  IInv'
<1>1. proc' \in [Replicas -> ProcOf(minted)]
      BY DEF IInv, TypeOK, ProcOf
<1>2. stored \cup {0} \subseteq 0..minted
      BY DEF IInv, TypeOK
<1>3. served' \in [Replicas -> 0..minted]
      BY <1>2 DEF IInv, TypeOK
<1>4. TypeOK'
      BY <1>1, <1>2, <1>3 DEF IInv, TypeOK, ProcOf
<1>5. /\ \A s \in Replicas : s # r => proc'[s] = proc[s]
      /\ proc'[r] = p
      BY DEF IInv, TypeOK
<1>6. \A s \in Replicas : served'[s] \in stored \cup {0}
      BY DEF IInv, TypeOK, OnlyStoredIsUsed
<1>7. OnlyStoredIsUsed'
      BY <1>5, <1>6 DEF IInv, OnlyStoredIsUsed
<1>8. SecretIsStored'
      BY DEF IInv, SecretIsStored
<1>9. WritersHoldMinted'
      BY <1>5 DEF IInv, WritersHoldMinted
<1>10. LoopIsIdle'
      BY <1>5 DEF IInv, LoopIsIdle
<1>q. QED BY <1>4, <1>7, <1>8, <1>9, <1>10 DEF IInv

\* The Secret is written: what is in hand counts as stored from now on.
LEMMA StoreStep ==
  ASSUME IInv, NEW r \in Replicas, proc[r].pc \in {"replace", "create"}, Store(r),
         UNCHANGED <<served, noticed, queued, fresh, bundle, present, minted, boundVars>>
  PROVE  IInv'
<1>1. proc[r].held \in 1..minted
      BY DEF IInv, WritersHoldMinted
<1>2. /\ stored' = stored \cup {proc[r].held}
      /\ stored' \in SUBSET (1..minted)
      BY <1>1 DEF Store, IInv, TypeOK
<1>3. secret' \in [Fields -> 1..minted]
      BY <1>1 DEF Store
<1>4. proc' \in [Replicas -> ProcOf(minted)]
  <2>1. proc' = [proc EXCEPT ![r] = [pc |-> "ensure", mode |-> proc[r].mode,
                                     hook |-> "mwc", held |-> proc[r].held]]
        BY DEF IInv, TypeOK, Store, Publish
  <2>q. QED BY <1>1, <2>1 DEF IInv, TypeOK, ProcOf
<1>5. TypeOK'
      BY <1>2, <1>3, <1>4 DEF IInv, TypeOK, ProcOf, boundVars
<1>6. /\ \A s \in Replicas : s # r => proc'[s] = proc[s]
      /\ proc'[r].pc = "ensure"
      /\ proc'[r].held = proc[r].held
      /\ proc'[r].mode = proc[r].mode
  <2>1. proc' = [proc EXCEPT ![r] = [pc |-> "ensure", mode |-> proc[r].mode,
                                     hook |-> "mwc", held |-> proc[r].held]]
        BY DEF IInv, TypeOK, Store, Publish
  <2>q. QED BY <2>1 DEF IInv, TypeOK
<1>7. OnlyStoredIsUsed'
      BY <1>2, <1>6 DEF IInv, OnlyStoredIsUsed
<1>8. SecretIsStored'
      BY <1>2 DEF SecretIsStored, Store
<1>9. WritersHoldMinted'
      BY <1>6 DEF IInv, WritersHoldMinted
<1>10. LoopIsIdle'
      BY <1>6 DEF IInv, LoopIsIdle
<1>q. QED BY <1>5, <1>7, <1>8, <1>9, <1>10 DEF IInv

\* An exception leaves a replica booting or at the top of its loop.
LEMMA RaiseStep ==
  ASSUME IInv, NEW r \in Replicas, Raise(r), losses' \in Nat, faults' \in Nat,
         UNCHANGED <<served, clusterVars, present, minted, due>>
  PROVE  IInv'
<1> DEFINE p == IF proc[r].mode = "boot" THEN Booting ELSE Looping
<1>1. /\ p \in ProcOf(minted)
      /\ p.pc \in {"boot", "check"}
      /\ p.mode = "loop" => p.pc = "check"
      BY DEF IInv, TypeOK, ProcOf, Booting, Looping
<1>2. proc' = [proc EXCEPT ![r] = p]
      BY DEF Raise, IInv, TypeOK
<1>3. noticed' \in SUBSET Replicas /\ queued' \in SUBSET Replicas /\ fresh' \in SUBSET Replicas
      BY DEF Raise, IInv, TypeOK
<1> HIDE DEF p
<1>q. QED BY <1>1, <1>2, <1>3, BundleIsStored, MoveStep DEF clusterVars

\* A cold start satisfies the invariant.
THEOREM InitInv == Init => IInv
<1> SUFFICES ASSUME Init PROVE IInv
    OBVIOUS
<1>1. TypeOK
      BY DeploymentsAssumption DEF Init, TypeOK, Booting
<1>2. OnlyStoredIsUsed /\ SecretIsStored /\ WritersHoldMinted /\ LoopIsIdle
      BY DEF Init, OnlyStoredIsUsed, SecretIsStored, WritersHoldMinted, LoopIsIdle, Booting
<1>q. QED BY <1>1, <1>2 DEF IInv

\* Every step of a replica, of the apiserver and of time keeps the invariant.
THEOREM NextInv == IInv /\ [Next]_vars => IInv'
<1> SUFFICES ASSUME IInv, [Next]_vars PROVE IInv'
    OBVIOUS
<1> USE DEF clusterVars, boundVars
<1>t. TypeOK /\ \A r \in Replicas : proc[r] \in ProcOf(minted)
      BY DEF IInv, TypeOK, ProcOf
<1>s. ASSUME secret # NoSecret
      PROVE  \A f \in Fields : secret[f] \in 0..minted /\ secret[f] \in stored \cup {0}
      BY <1>s DEF IInv, TypeOK, SecretIsStored
<1>l. \A r \in Replicas : proc[r].pc \in {"boot", "replace", "create", "reread", "ensure", "put", "watchMwc"}
                             => proc[r].mode # "loop"
      BY DEF IInv, LoopIsIdle
<1>m. ASSUME NEW r \in Replicas, NEW c \in stored, Publish(r, c), proc[r].mode # "loop",
             noticed' \in SUBSET Replicas, queued' \in SUBSET Replicas, fresh' \in SUBSET Replicas,
             UNCHANGED <<served, clusterVars, present, minted, boundVars>>
      PROVE  IInv'
  <2> DEFINE p == [pc |-> "ensure", mode |-> proc[r].mode, hook |-> "mwc", held |-> c]
  <2>1. proc' = [proc EXCEPT ![r] = p]
        BY <1>m, <1>t DEF Publish, TypeOK
  <2>2. p \in ProcOf(minted) /\ p.pc = "ensure" /\ p.held \in stored /\ p.mode # "loop"
        BY <1>m, <1>t DEF ProcOf, TypeOK
  <2> HIDE DEF p
  <2>q. QED BY <1>m, <1>t, <2>1, <2>2, BundleIsStored, MoveStep DEF TypeOK
<1>1. ASSUME NEW r \in Replicas, EnsureSecret(r) PROVE IInv'
  <2>1. CASE Complete(secret) /\ Publish(r, secret["cert"]) /\ UNCHANGED minted
    <3>1. secret["cert"] \in stored
          BY <2>1, <1>s DEF Complete
    <3>q. QED BY <1>1, <1>t, <1>l, <2>1, <3>1, <1>m DEF EnsureSecret, At, TypeOK
  <2>2. CASE Mint(r, "boot")
        BY <1>1, <1>t, <2>2, MintStep DEF EnsureSecret, TypeOK
  <2>q. QED BY <1>1, <2>1, <2>2 DEF EnsureSecret
<1>2. ASSUME NEW r \in Replicas, ReplaceSecret(r) PROVE IInv'
  <2>1. CASE Store(r)
        BY <1>2, <2>1, StoreStep DEF ReplaceSecret, At
  <2>2. CASE proc' = [proc EXCEPT ![r].pc = "create"] /\ UNCHANGED <<secret, stored>>
    <3> DEFINE p == [proc[r] EXCEPT !.pc = "create"]
    <3>1. p \in ProcOf(minted) /\ p.pc = "create" /\ p.held \in 1..minted /\ p.mode # "loop"
          BY <1>2, <1>t, <1>l DEF ProcOf, ReplaceSecret, At, IInv, WritersHoldMinted
    <3>2. proc' = [proc EXCEPT ![r] = p]
          BY <2>2
    <3> HIDE DEF p
    <3>q. QED BY <1>2, <1>t, <2>2, <3>1, <3>2, BundleIsStored, MoveStep DEF ReplaceSecret, TypeOK
  <2>q. QED BY <1>2, <2>1, <2>2 DEF ReplaceSecret
<1>3. ASSUME NEW r \in Replicas, CreateSecret(r) PROVE IInv'
  <2>1. CASE Store(r)
        BY <1>3, <2>1, StoreStep DEF CreateSecret, At
  <2>2. CASE proc' = [proc EXCEPT ![r].pc = "reread"] /\ UNCHANGED <<secret, stored>>
    <3> DEFINE p == [proc[r] EXCEPT !.pc = "reread"]
    <3>1. p \in ProcOf(minted) /\ p.pc = "reread" /\ p.mode # "loop"
          BY <1>3, <1>t, <1>l DEF ProcOf, CreateSecret, At
    <3>2. proc' = [proc EXCEPT ![r] = p]
          BY <2>2
    <3> HIDE DEF p
    <3>q. QED BY <1>3, <1>t, <2>2, <3>1, <3>2, BundleIsStored, MoveStep DEF CreateSecret, TypeOK
  <2>q. QED BY <1>3, <2>1, <2>2 DEF CreateSecret
<1>4. ASSUME NEW r \in Replicas, Adopt(r) PROVE IInv'
  <2>1. CASE Complete(secret) /\ Publish(r, secret["cert"]) /\ UNCHANGED <<noticed, queued, fresh>>
    <3>1. secret["cert"] \in stored
          BY <2>1, <1>s DEF Complete
    <3>q. QED BY <1>4, <1>t, <1>l, <2>1, <3>1, <1>m DEF Adopt, At, TypeOK
  <2>2. CASE Raise(r)
        BY <1>4, <1>t, <2>2, RaiseStep DEF Adopt, TypeOK
  <2>q. QED BY <1>4, <2>1, <2>2 DEF Adopt
<1>h. ASSUME NEW r \in Replicas, NextHook(r), proc[r].pc \in {"ensure", "put"},
             noticed' \in SUBSET Replicas, queued' \in SUBSET Replicas, fresh' \in SUBSET Replicas,
             bundle' \in [Hooks -> stored \cup {0}],
             UNCHANGED <<secret, stored, present, minted, boundVars>>
      PROVE  IInv'
  <2>h. proc[r].held \in stored
        BY <1>h DEF IInv, OnlyStoredIsUsed
  <2>1. CASE proc[r].hook = "mwc"
    <3> DEFINE p == [proc[r] EXCEPT !.pc = "ensure", !.hook = "vwc"]
    <3>1. p \in ProcOf(minted) /\ p.pc = "ensure" /\ p.held \in stored /\ p.mode # "loop"
          BY <1>h, <1>t, <1>l, <2>h DEF ProcOf
    <3>2. proc' = [proc EXCEPT ![r] = p] /\ served' = served
          BY <1>h, <2>1 DEF NextHook
    <3> HIDE DEF p
    <3>q. QED BY <1>h, <1>t, <3>1, <3>2, MoveStep DEF TypeOK
  <2>2. CASE proc[r].hook # "mwc"
    <3> DEFINE p == Done(r)
    <3>1. CASE proc[r].mode = "boot"
      <4>1. p = Looping
            BY <3>1 DEF Done
      <4>2. proc' = [proc EXCEPT ![r] = p] /\ served' = [served EXCEPT ![r] = proc[r].held]
            BY <1>h, <2>2, <3>1 DEF NextHook
      <4>3. p \in ProcOf(minted) /\ p.pc = "check"
            BY <1>t, <4>1 DEF Looping, ProcOf, TypeOK
      <4> HIDE DEF p
      <4>q. QED BY <1>h, <1>t, <2>h, <4>2, <4>3, MoveStep DEF TypeOK
    <3>2. CASE proc[r].mode = "watch"
      <4>1. p = [proc[r] EXCEPT !.pc = "watchMwc", !.hook = "mwc"]
            BY <3>2 DEF Done
      <4>2. proc' = [proc EXCEPT ![r] = p] /\ served' = [served EXCEPT ![r] = served[r]]
            BY <1>h, <2>2, <3>2 DEF NextHook
      <4>3. p \in ProcOf(minted) /\ p.pc = "watchMwc" /\ p.held \in stored /\ p.mode # "loop"
            BY <1>h, <1>t, <1>l, <2>h, <4>1 DEF ProcOf
      <4>4. served[r] \in stored \cup {0}
            BY DEF IInv, OnlyStoredIsUsed
      <4> HIDE DEF p
      <4>q. QED BY <1>h, <1>t, <4>2, <4>3, <4>4, MoveStep DEF TypeOK
    <3>3. CASE proc[r].mode = "exit"
      <4>1. p = Booting
            BY <3>3 DEF Done
      <4>2. proc' = [proc EXCEPT ![r] = p] /\ served' = [served EXCEPT ![r] = 0]
            BY <1>h, <2>2, <3>3 DEF NextHook
      <4>3. p \in ProcOf(minted) /\ p.pc = "boot" /\ p.mode # "loop"
            BY <1>t, <4>1 DEF Booting, ProcOf, TypeOK
      <4> HIDE DEF p
      <4>q. QED BY <1>h, <1>t, <4>2, <4>3, MoveStep DEF TypeOK
    <3>q. QED BY <1>h, <1>t, <1>l, <3>1, <3>2, <3>3 DEF ProcOf
  <2>q. QED BY <2>1, <2>2
<1>5. ASSUME NEW r \in Replicas, ReadConfiguration(r) PROVE IInv'
  <2>1. CASE NextHook(r) /\ UNCHANGED fresh
        BY <1>5, <1>h, <1>t, <2>1, BundleIsStored DEF ReadConfiguration, At, TypeOK
  <2>2. CASE proc' = [proc EXCEPT ![r].pc = "put"] /\ fresh' = fresh \cup {r} /\ UNCHANGED served
    <3> DEFINE p == [proc[r] EXCEPT !.pc = "put"]
    <3>1. p \in ProcOf(minted) /\ p.pc = "put" /\ p.held \in stored /\ p.mode # "loop"
          BY <1>5, <1>t, <1>l DEF ProcOf, ReadConfiguration, At, IInv, OnlyStoredIsUsed
    <3>2. proc' = [proc EXCEPT ![r] = p]
          BY <2>2
    <3> HIDE DEF p
    <3>q. QED BY <1>5, <1>t, <2>2, <3>1, <3>2, BundleIsStored, MoveStep DEF ReadConfiguration, TypeOK
  <2>q. QED BY <1>5, <2>1, <2>2 DEF ReadConfiguration
<1>6. ASSUME NEW r \in Replicas, ReplaceConfiguration(r) PROVE IInv'
  <2>1. proc[r].held \in stored /\ proc[r].hook \in Hooks
        BY <1>6, <1>t DEF ReplaceConfiguration, At, IInv, OnlyStoredIsUsed, ProcOf
  <2>2. bundle' \in [Hooks -> stored \cup {0}]
        BY <1>6, <2>1, BundleIsStored DEF ReplaceConfiguration, Write
  <2>3. queued' \in SUBSET Replicas /\ fresh' \in SUBSET Replicas
        BY <1>6, <1>t DEF ReplaceConfiguration, Write, Watchers, TypeOK
  <2>q. QED BY <1>6, <1>h, <1>t, <2>2, <2>3 DEF ReplaceConfiguration, At, TypeOK
<1>7. ASSUME NEW r \in Replicas, Conflict(r) PROVE IInv'
      BY <1>7, <1>t, RaiseStep DEF Conflict, TypeOK
<1>8. ASSUME NEW r \in Replicas, CheckExpiry(r) PROVE IInv'
  <2>1. CASE Mint(r, "exit")
        BY <1>8, <1>t, <2>1, MintStep DEF CheckExpiry, TypeOK
  <2>2. CASE proc' = [proc EXCEPT ![r].pc = "watchSecret"] /\ UNCHANGED minted
    <3> DEFINE p == [proc[r] EXCEPT !.pc = "watchSecret"]
    <3>1. p \in ProcOf(minted) /\ p.pc = "watchSecret"
          BY <1>t DEF ProcOf
    <3>2. proc' = [proc EXCEPT ![r] = p]
          BY <2>2
    <3> HIDE DEF p
    <3>q. QED BY <1>8, <1>t, <2>2, <3>1, <3>2, BundleIsStored, MoveStep DEF CheckExpiry, TypeOK
  <2>q. QED BY <1>8, <2>1, <2>2 DEF CheckExpiry
<1>9. ASSUME NEW r \in Replicas, SecretDeleted(r) PROVE IInv'
      BY <1>9, <1>t, MintStep DEF SecretDeleted, TypeOK
<1>10. ASSUME NEW r \in Replicas, SecretWatchEnds(r) PROVE IInv'
  <2> DEFINE p == [proc[r] EXCEPT !.pc = "readCa"]
  <2>1. p \in ProcOf(minted) /\ p.pc = "readCa"
        BY <1>t DEF ProcOf
  <2>2. proc' = [proc EXCEPT ![r] = p]
        BY <1>10 DEF SecretWatchEnds
  <2> HIDE DEF p
  <2>q. QED BY <1>10, <1>t, <2>1, <2>2, BundleIsStored, MoveStep DEF SecretWatchEnds, TypeOK
<1>11. ASSUME NEW r \in Replicas, ReadCa(r) PROVE IInv'
  <2>1. CASE proc' = [proc EXCEPT ![r].pc = "check"] /\ UNCHANGED queued
    <3> DEFINE p == [proc[r] EXCEPT !.pc = "check"]
    <3>1. p \in ProcOf(minted) /\ p.pc = "check"
          BY <1>t DEF ProcOf
    <3>2. proc' = [proc EXCEPT ![r] = p]
          BY <2>1
    <3> HIDE DEF p
    <3>q. QED BY <1>11, <1>t, <2>1, <3>1, <3>2, BundleIsStored, MoveStep DEF ReadCa, TypeOK
  <2>2. CASE secret # NoSecret /\ secret["ca"] # 0
             /\ proc' = [proc EXCEPT ![r] =
                  [pc |-> "watchMwc", mode |-> "watch", hook |-> "mwc", held |-> secret["ca"]]]
             /\ queued' = IF "mwc" \in present THEN queued \cup {r} ELSE queued
    <3> DEFINE p == [pc |-> "watchMwc", mode |-> "watch", hook |-> "mwc", held |-> secret["ca"]]
    <3>1. p \in ProcOf(minted) /\ p.pc = "watchMwc" /\ p.held \in stored /\ p.mode = "watch"
          BY <1>s, <2>2 DEF ProcOf
    <3>2. proc' = [proc EXCEPT ![r] = p] /\ queued' \in SUBSET Replicas
          BY <1>t, <2>2 DEF TypeOK
    <3> HIDE DEF p
    <3>q. QED BY <1>11, <1>t, <3>1, <3>2, BundleIsStored, MoveStep DEF ReadCa, TypeOK
  <2>q. QED BY <1>11, <2>1, <2>2 DEF ReadCa
<1>12. ASSUME NEW r \in Replicas, MwcEvent(r) PROVE IInv'
  <2> DEFINE p == [proc[r] EXCEPT !.pc = "ensure", !.hook = "mwc"]
  <2>1. p \in ProcOf(minted) /\ p.pc = "ensure" /\ p.held \in stored /\ p.mode # "loop"
        BY <1>12, <1>t, <1>l DEF ProcOf, MwcEvent, At, IInv, OnlyStoredIsUsed
  <2>2. proc' = [proc EXCEPT ![r] = p]
        BY <1>12 DEF MwcEvent
  <2> HIDE DEF p
  <2>q. QED BY <1>12, <1>t, <2>1, <2>2, BundleIsStored, MoveStep DEF MwcEvent, TypeOK
<1>13. ASSUME NEW r \in Replicas, MwcWatchEnds(r) PROVE IInv'
  <2>1. Looping \in ProcOf(minted) /\ Looping.pc = "check"
        BY <1>t DEF Looping, ProcOf, TypeOK
  <2>q. QED BY <1>13, <1>t, <2>1, BundleIsStored, MoveStep DEF MwcWatchEnds, TypeOK
<1>14. ASSUME NEW r \in Replicas, CallFails(r) PROVE IInv'
      BY <1>14, <1>t, RaiseStep DEF CallFails, TypeOK
<1>15. ASSUME NEW r \in Replicas, Crash(r) PROVE IInv'
  <2>1. Booting \in ProcOf(minted) /\ Booting.pc = "boot" /\ Booting.mode = "boot"
        BY <1>t DEF Booting, ProcOf, TypeOK
  <2>2. proc' = [proc EXCEPT ![r] = Booting] /\ served' = [served EXCEPT ![r] = 0]
        BY <1>15 DEF Crash
  <2>3. noticed' \in SUBSET Replicas /\ queued' \in SUBSET Replicas /\ fresh' \in SUBSET Replicas
        BY <1>15, <1>t DEF Crash, TypeOK
  <2>4. /\ losses' \in Nat /\ faults' \in Nat
        /\ UNCHANGED <<secret, stored, bundle, present, minted, due>>
        BY <1>15, <1>t DEF Crash, TypeOK
  <2>5. bundle' \in [Hooks -> stored \cup {0}]
        BY <2>4, BundleIsStored
  <2>q. QED BY <2>1, <2>2, <2>3, <2>4, <2>5, MoveStep
<1>16. ASSUME NEW h \in Hooks, Drift(h) PROVE IInv'
  <2>1. bundle' = [bundle EXCEPT ![h] = 0] /\ bundle' \in [Hooks -> stored \cup {0}]
        BY <1>16, BundleIsStored DEF Drift, Write
  <2>2. TypeOK'
    <3>1. stored \cup {0} \subseteq 0..minted
          BY <1>t DEF TypeOK
    <3>2. bundle' \in [Hooks -> 0..minted]
          BY <2>1, <3>1
    <3>3. queued' \in SUBSET Replicas /\ fresh' \in SUBSET Replicas
          BY <1>16, <1>t DEF Drift, Write, Watchers, TypeOK
    <3>q. QED BY <1>16, <1>t, <3>2, <3>3 DEF Drift, TypeOK
  <2>3. OnlyStoredIsUsed' /\ SecretIsStored' /\ WritersHoldMinted' /\ LoopIsIdle'
        BY <1>16, <2>1 DEF Drift, IInv, OnlyStoredIsUsed, SecretIsStored, WritersHoldMinted, LoopIsIdle
  <2>q. QED BY <2>2, <2>3 DEF IInv
<1>17. CASE DeleteSecret
  <2>1. TypeOK'
        BY <1>17, <1>t DEF DeleteSecret, TypeOK
  <2>2. OnlyStoredIsUsed' /\ SecretIsStored' /\ WritersHoldMinted' /\ LoopIsIdle'
        BY <1>17 DEF DeleteSecret, IInv, OnlyStoredIsUsed, SecretIsStored, WritersHoldMinted, LoopIsIdle
  <2>q. QED BY <2>1, <2>2 DEF IInv
<1>18. ASSUME NEW f \in Fields, DamageSecret(f) PROVE IInv'
  <2>1. secret \in [Fields -> 0..minted] /\ secret' = [secret EXCEPT ![f] = 0]
        BY <1>18, <1>t DEF DamageSecret, TypeOK
  <2>2. TypeOK'
        BY <1>18, <1>t, <2>1 DEF DamageSecret, TypeOK
  <2>3. SecretIsStored'
        BY <1>18, <1>s, <2>1 DEF DamageSecret, SecretIsStored
  <2>4. OnlyStoredIsUsed' /\ WritersHoldMinted' /\ LoopIsIdle'
        BY <1>18 DEF DamageSecret, IInv, OnlyStoredIsUsed, WritersHoldMinted, LoopIsIdle
  <2>q. QED BY <2>2, <2>3, <2>4 DEF IInv
<1>19. CASE ComesDue
  <2>1. TypeOK'
        BY <1>19, <1>t DEF ComesDue, TypeOK
  <2>2. OnlyStoredIsUsed' /\ SecretIsStored' /\ WritersHoldMinted' /\ LoopIsIdle'
        BY <1>19 DEF ComesDue, IInv, OnlyStoredIsUsed, SecretIsStored, WritersHoldMinted, LoopIsIdle
  <2>q. QED BY <2>1, <2>2 DEF IInv
<1>20. CASE UNCHANGED vars
  <2>1. TypeOK'
        BY <1>20, <1>t DEF vars, TypeOK
  <2>2. OnlyStoredIsUsed' /\ SecretIsStored' /\ WritersHoldMinted' /\ LoopIsIdle'
        BY <1>20 DEF vars, IInv, OnlyStoredIsUsed, SecretIsStored, WritersHoldMinted, LoopIsIdle
  <2>q. QED BY <2>1, <2>2 DEF IInv
<1>q. QED BY <1>1, <1>2, <1>3, <1>4, <1>5, <1>6, <1>7, <1>8, <1>9, <1>10, <1>11, <1>12, <1>13,
             <1>14, <1>15, <1>16, <1>17, <1>18, <1>19, <1>20 DEF Next, Step, Environment

\* The invariant holds in every reachable state.
THEOREM Invariance == Spec => []IInv
<1>q. QED BY InitInv, NextInv, PTL DEF Spec

\* Every variable keeps its type, whatever the number of replicas.
THEOREM TypeCorrect == Spec => []TypeOK
<1>1. IInv => TypeOK
      BY DEF IInv
<1>q. QED BY <1>1, Invariance, PTL

\* No replica serves or publishes a certificate that never was in the Secret,
\* for any interleaving of any number of replicas (_regenerate_secret).
THEOREM OnlyStoredStaysUsed == Spec => []OnlyStoredIsUsed
<1>1. IInv => OnlyStoredIsUsed
      BY DEF IInv
<1>q. QED BY <1>1, Invariance, PTL

-----------------------------------------------------------------------------
(* How often certificates are rotated.  A replica that generates one is on *)
(* its way to the Secret, and cannot generate another before it has written*)
(* the Secret, which ends the need for one, or found it written.  MayMint  *)
(* is who could generate one if nothing else went wrong: it shrinks by the *)
(* replica that does, and grows only by what RotationsBounded charges.     *)

SecretIsGood == Complete(secret) /\ secret["cert"] > due

\* On its way to a Secret that will take its certificate.
Storing(r) == At(r, "replace") \/ (At(r, "create") /\ secret = NoSecret)

MayMint == IF SecretIsGood THEN noticed ELSE {r \in Replicas : ~Storing(r)}

NoticedWatch == \A r \in noticed : At(r, "watchSecret")

WritersHoldFresh ==
  \A r \in Replicas : proc[r].pc \in {"replace", "create"} => proc[r].held > due

Budget == minted + Cardinality(MayMint) <= Cardinality(Replicas) * (1 + losses) + faults

RotationInv == NoticedWatch /\ WritersHoldFresh /\ Budget

LEMMA MayMintType ==
  ASSUME TypeOK
  PROVE  MayMint \in SUBSET Replicas
BY DEF TypeOK, MayMint

\* The bookkeeping: who may still generate a certificate, and what it is charged to.
LEMMA Charge ==
  ASSUME NEW S \in SUBSET Replicas, NEW T \in SUBSET Replicas,
         NEW m \in Nat, NEW l \in Nat, NEW f \in Nat,
         m + Cardinality(S) <= Cardinality(Replicas) * (1 + l) + f
  PROVE  /\ T \subseteq S => m + Cardinality(T) <= Cardinality(Replicas) * (1 + l) + f
         /\ \A r \in S : T \subseteq S \ {r} =>
              (m + 1) + Cardinality(T) <= Cardinality(Replicas) * (1 + l) + f
         /\ \A r \in Replicas : T \subseteq S \cup {r} =>
              m + Cardinality(T) <= Cardinality(Replicas) * (1 + l) + (f + 1)
         /\ m + Cardinality(T) <= Cardinality(Replicas) * (1 + (l + 1)) + f
<1>1. IsFiniteSet(Replicas) /\ IsFiniteSet(S) /\ IsFiniteSet(T)
      BY ReplicasAssumption, FS_Subset
<1>2. /\ Cardinality(S) \in Nat /\ Cardinality(T) \in Nat /\ Cardinality(Replicas) \in Nat
      /\ Cardinality(T) <= Cardinality(Replicas)
      BY <1>1, FS_CardinalityType, FS_Subset
<1>3. PICK n \in Nat : n = Cardinality(Replicas) * (1 + l)
      BY <1>2
<1>4. Cardinality(Replicas) * (1 + (l + 1)) = n + Cardinality(Replicas)
      BY <1>2, <1>3
<1>5. T \subseteq S => Cardinality(T) <= Cardinality(S)
      BY <1>1, FS_Subset
<1>6. ASSUME NEW r \in S, T \subseteq S \ {r}
      PROVE  Cardinality(T) <= Cardinality(S) - 1
  <2>1. IsFiniteSet(S \ {r}) /\ Cardinality(S \ {r}) = Cardinality(S) - 1
        BY <1>1, FS_RemoveElement
  <2>2. Cardinality(T) <= Cardinality(S \ {r})
        BY <1>6, <2>1, FS_Subset
  <2>q. QED BY <2>1, <2>2
<1>7. ASSUME NEW r \in Replicas, T \subseteq S \cup {r}
      PROVE  Cardinality(T) <= Cardinality(S) + 1
  <2>1. IsFiniteSet(S \cup {r}) /\ Cardinality(S \cup {r}) \in {Cardinality(S), Cardinality(S) + 1}
        BY <1>1, FS_AddElement
  <2>2. Cardinality(T) <= Cardinality(S \cup {r})
        BY <1>7, <2>1, FS_Subset
  <2>q. QED BY <1>2, <2>1, <2>2
<1>8. \A r \in S : T \subseteq S \ {r} => (m + 1) + Cardinality(T) <= n + f
      BY <1>2, <1>3, <1>6
<1>9. \A r \in Replicas : T \subseteq S \cup {r} => m + Cardinality(T) <= n + (f + 1)
      BY <1>2, <1>3, <1>7
<1>q. QED BY <1>2, <1>3, <1>4, <1>5, <1>8, <1>9

\* The budget, in the shape the steps use it.
LEMMA Spend ==
  ASSUME IInv, Budget, IInv'
  PROVE  /\ minted' = minted /\ losses' = losses /\ faults' = faults /\ MayMint' \subseteq MayMint
              => Budget'
         /\ \A r \in MayMint : minted' = minted + 1 /\ losses' = losses /\ faults' = faults
                               /\ MayMint' \subseteq MayMint \ {r} => Budget'
         /\ \A r \in Replicas : minted' = minted /\ losses' = losses /\ faults' = faults + 1
                                /\ MayMint' \subseteq MayMint \cup {r} => Budget'
         /\ minted' = minted /\ losses' = losses + 1 /\ faults' = faults => Budget'
<1>1. PICK S \in SUBSET Replicas : S = MayMint
      BY MayMintType DEF IInv
<1>2. MayMint' \in SUBSET Replicas
      BY DEF IInv, TypeOK, MayMint
<1>3. PICK T \in SUBSET Replicas : T = MayMint'
      BY <1>2
<1>4. minted \in Nat /\ losses \in Nat /\ faults \in Nat
      BY DEF IInv, TypeOK
<1>5. minted + Cardinality(S) <= Cardinality(Replicas) * (1 + losses) + faults
      BY <1>1 DEF Budget
<1>6. Budget' <=> minted' + Cardinality(T) <= Cardinality(Replicas) * (1 + losses') + faults'
      BY <1>3 DEF Budget
<1>q. QED BY <1>1, <1>3, <1>4, <1>5, <1>6, Charge

LEMMA RotationInit == Init => RotationInv
<1> SUFFICES ASSUME Init PROVE RotationInv
    OBVIOUS
<1>1. NoticedWatch /\ WritersHoldFresh
      BY DEF Init, NoticedWatch, WritersHoldFresh, Booting
<1>2. TypeOK
      BY InitInv DEF IInv
<1>3. IsFiniteSet(Replicas) /\ MayMint \in SUBSET Replicas
      BY <1>2, MayMintType, ReplicasAssumption
<1>4. /\ Cardinality(MayMint) \in Nat /\ Cardinality(Replicas) \in Nat
      /\ Cardinality(MayMint) <= Cardinality(Replicas)
      BY <1>3, FS_Subset, FS_CardinalityType
<1>5. Budget
      BY <1>4 DEF Init, Budget
<1>q. QED BY <1>1, <1>5 DEF RotationInv

\* Whoever generates a certificate could, and is on its way to the Secret.
LEMMA MintSpends ==
  ASSUME IInv, RotationInv, IInv', NEW r \in MayMint, NEW mode, Mint(r, mode),
         noticed' \subseteq noticed \ {r}, UNCHANGED <<secret, due, losses, faults>>
  PROVE  RotationInv'
<1>1. /\ minted \in Nat /\ due \in 0..minted /\ r \in Replicas /\ noticed \in SUBSET Replicas
      BY MayMintType DEF IInv, TypeOK
<1>2. /\ \A s \in Replicas : s # r => proc'[s] = proc[s]
      /\ proc'[r].pc = "replace" /\ proc'[r].held = minted + 1 /\ minted' = minted + 1
      BY <1>1 DEF Mint, IInv, TypeOK
<1>3. NoticedWatch'
      BY <1>1, <1>2 DEF RotationInv, NoticedWatch, At
<1>4. WritersHoldFresh'
      BY <1>1, <1>2 DEF RotationInv, WritersHoldFresh
<1>5. MayMint' \subseteq MayMint \ {r}
      BY <1>1, <1>2 DEF MayMint, SecretIsGood, Complete, Storing, At
<1>q. QED BY <1>2, <1>3, <1>4, <1>5, Spend DEF RotationInv

\* The Secret is written: nobody needs a certificate, whoever watched it aside.
LEMMA StoreEndsNeed ==
  ASSUME IInv, RotationInv, IInv', NEW r \in Replicas, At(r, "replace") \/ At(r, "create"),
         Store(r), UNCHANGED <<noticed, minted, due, losses, faults>>
  PROVE  RotationInv'
<1>1. /\ proc[r].held \in 1..minted /\ proc[r].held > due
      /\ minted \in Nat /\ due \in 0..minted /\ noticed \in SUBSET Replicas
      BY DEF IInv, TypeOK, WritersHoldMinted, RotationInv, WritersHoldFresh, At
<1>2. /\ \A s \in Replicas : s # r => proc'[s] = proc[s]
      /\ proc'[r].pc = "ensure"
      BY DEF Store, Publish, IInv, TypeOK
<1>3. secret' = [f \in Fields |-> proc[r].held]
      BY DEF Store
<1>4. secret' # NoSecret
      BY <1>1, <1>3, SecretAssumption
<1>5. SecretIsGood'
      BY <1>1, <1>3, <1>4 DEF SecretIsGood, Complete
<1>6. r \notin noticed
      BY DEF RotationInv, NoticedWatch, At
<1>7. NoticedWatch' /\ WritersHoldFresh'
      BY <1>1, <1>2, <1>6 DEF RotationInv, NoticedWatch, WritersHoldFresh, At
<1>8. MayMint' \subseteq MayMint
      BY <1>1, <1>5 DEF MayMint, RotationInv, NoticedWatch, Storing, At
<1>q. QED BY <1>7, <1>8, Spend DEF RotationInv

\* A replica that moves without leaving its way to the Secret costs nothing.
LEMMA MoveIsFree ==
  ASSUME IInv, RotationInv, IInv', NEW r \in Replicas, NEW pc,
         proc' = [proc EXCEPT ![r] = proc'[r]], proc'[r].pc = pc,
         pc \in {"replace", "create"} => At(r, "replace") /\ proc'[r].held = proc[r].held,
         ~SecretIsGood /\ Storing(r) => pc = "create" /\ secret = NoSecret,
         noticed' \subseteq noticed, r \in noticed' => pc = "watchSecret",
         UNCHANGED <<secret, minted, due, losses, faults>>
  PROVE  RotationInv'
<1>1. /\ \A s \in Replicas : s # r => proc'[s] = proc[s]
      /\ noticed \in SUBSET Replicas
      BY DEF IInv, TypeOK
<1>2. NoticedWatch' /\ WritersHoldFresh'
      BY <1>1 DEF RotationInv, NoticedWatch, WritersHoldFresh, At
<1>3. MayMint' \subseteq MayMint
      BY <1>1 DEF MayMint, SecretIsGood, Complete, Storing, At
<1>q. QED BY <1>2, <1>3, Spend DEF RotationInv

\* A failed call or a crash may put one replica back to where it needs a certificate.
LEMMA FaultIsCharged ==
  ASSUME IInv, RotationInv, IInv', NEW r \in Replicas,
         proc' = [proc EXCEPT ![r] = proc'[r]], proc'[r].pc \in {"boot", "check"},
         noticed' = noticed \ {r}, faults' = faults + 1,
         UNCHANGED <<secret, minted, due, losses>>
  PROVE  RotationInv'
<1>1. /\ \A s \in Replicas : s # r => proc'[s] = proc[s]
      /\ noticed \in SUBSET Replicas
      BY DEF IInv, TypeOK
<1>2. NoticedWatch' /\ WritersHoldFresh'
      BY <1>1 DEF RotationInv, NoticedWatch, WritersHoldFresh, At
<1>3. MayMint' \subseteq MayMint \cup {r}
      BY <1>1 DEF MayMint, SecretIsGood, Complete, Storing, At
<1>q. QED BY <1>2, <1>3, Spend DEF RotationInv

\* A loss is charged with a certificate for everybody.
LEMMA LossIsCharged ==
  ASSUME IInv, RotationInv, IInv', losses' = losses + 1,
         noticed' \subseteq noticed \cup {r \in Replicas : At(r, "watchSecret")},
         \/ due' = due
         \/ \A r \in Replicas : proc[r].pc \notin {"replace", "create"},
         UNCHANGED <<proc, minted, faults>>
  PROVE  RotationInv'
<1>1. NoticedWatch' /\ WritersHoldFresh'
      BY DEF RotationInv, NoticedWatch, WritersHoldFresh, At
<1>q. QED BY <1>1, Spend DEF RotationInv

LEMMA RotationNext == IInv /\ IInv' /\ RotationInv /\ [Next]_vars => RotationInv'
<1> SUFFICES ASSUME IInv, IInv', RotationInv, [Next]_vars PROVE RotationInv'
    OBVIOUS
<1> USE DEF clusterVars, boundVars
<1>t. /\ proc \in [Replicas -> ProcOf(minted)] /\ noticed \in SUBSET Replicas /\ due \in Nat
      /\ minted \in Nat
      BY DEF IInv, TypeOK, ProcOf
<1>n. \A r \in noticed : At(r, "watchSecret")
      BY DEF RotationInv, NoticedWatch
<1>g. secret # NoSecret => \A f \in Fields : secret[f] \in Nat
      BY DEF IInv, TypeOK
\* Who still has to read the Secret may generate a certificate if it is not good.
<1>m. ASSUME NEW r \in Replicas, ~SecretIsGood, At(r, "boot") \/ At(r, "check")
      PROVE  r \in MayMint
      BY <1>m DEF MayMint, Storing, At
<1>1. ASSUME NEW r \in Replicas, EnsureSecret(r) PROVE RotationInv'
  <2>1. CASE Complete(secret) /\ Publish(r, secret["cert"]) /\ UNCHANGED minted
    <3>1. proc' = [proc EXCEPT ![r] = proc'[r]] /\ proc'[r].pc = "ensure"
          BY <1>t, <2>1 DEF Publish
    <3>q. QED BY <1>1, <1>n, <2>1, <3>1, MoveIsFree DEF EnsureSecret, At, Storing
  <2>2. CASE ~Complete(secret) /\ Mint(r, "boot")
    <3>1. r \in MayMint /\ r \notin noticed
          BY <1>1, <1>m, <1>n, <2>2 DEF EnsureSecret, SecretIsGood, At
    <3>q. QED BY <1>1, <2>2, <3>1, MintSpends DEF EnsureSecret
  <2>q. QED BY <1>1, <2>1, <2>2 DEF EnsureSecret
<1>2. ASSUME NEW r \in Replicas, ReplaceSecret(r) PROVE RotationInv'
  <2>1. CASE Store(r)
        BY <1>2, <2>1, StoreEndsNeed DEF ReplaceSecret
  <2>2. CASE secret = NoSecret /\ proc' = [proc EXCEPT ![r].pc = "create"] /\ UNCHANGED <<secret, stored>>
    <3>1. /\ proc' = [proc EXCEPT ![r] = proc'[r]] /\ proc'[r].pc = "create"
          /\ proc'[r].held = proc[r].held
          BY <1>t, <2>2 DEF ProcOf
    <3>q. QED BY <1>2, <1>n, <2>2, <3>1, MoveIsFree DEF ReplaceSecret, At
  <2>q. QED BY <1>2, <2>1, <2>2 DEF ReplaceSecret
<1>3. ASSUME NEW r \in Replicas, CreateSecret(r) PROVE RotationInv'
  <2>1. CASE Store(r)
        BY <1>3, <2>1, StoreEndsNeed DEF CreateSecret
  <2>2. CASE secret # NoSecret /\ proc' = [proc EXCEPT ![r].pc = "reread"] /\ UNCHANGED <<secret, stored>>
    <3>1. proc' = [proc EXCEPT ![r] = proc'[r]] /\ proc'[r].pc = "reread"
          BY <1>t, <2>2 DEF ProcOf
    <3>q. QED BY <1>3, <1>n, <2>2, <3>1, MoveIsFree DEF CreateSecret, At, Storing
  <2>q. QED BY <1>3, <2>1, <2>2 DEF CreateSecret
\* The rest of a replica's steps start away from the Secret and stay away from it.
<1>f. ASSUME NEW r \in Replicas, ~At(r, "replace"), ~At(r, "create"),
             proc' = [proc EXCEPT ![r] = proc'[r]], proc'[r].pc \notin {"replace", "create"},
             noticed' \subseteq noticed, r \in noticed' => proc'[r].pc = "watchSecret",
             UNCHANGED <<secret, minted, due, losses, faults>>
      PROVE  RotationInv'
      BY <1>f, MoveIsFree DEF Storing
<1>r. ASSUME NEW r \in Replicas, Raise(r)
      PROVE  proc' = [proc EXCEPT ![r] = proc'[r]] /\ proc'[r].pc \in {"boot", "check"}
             /\ noticed' = noticed \ {r}
      BY <1>r, <1>t DEF Raise, Booting, Looping
<1>h. ASSUME NEW r \in Replicas, NextHook(r), proc[r].mode # "loop"
      PROVE  proc' = [proc EXCEPT ![r] = proc'[r]]
             /\ proc'[r].pc \in {"ensure", "check", "watchMwc", "boot"}
  <2>1. proc[r] \in ProcOf(minted) /\ proc[r].mode \in {"boot", "watch", "exit"}
        BY <1>t, <1>h DEF ProcOf
  <2>2. CASE proc[r].hook = "mwc"
        BY <1>t, <1>h, <2>1, <2>2 DEF NextHook, ProcOf
  <2>3. CASE proc[r].hook # "mwc"
    <3>1. Done(r).pc \in {"check", "watchMwc", "boot"}
          BY <2>1 DEF Done, Looping, Booting, ProcOf
    <3>q. QED BY <1>t, <1>h, <2>3, <3>1 DEF NextHook
  <2>q. QED BY <2>2, <2>3
<1>l. \A r \in Replicas : proc[r].pc \in {"ensure", "put"} => proc[r].mode # "loop"
      BY DEF IInv, LoopIsIdle
<1>4. ASSUME NEW r \in Replicas, Adopt(r) PROVE RotationInv'
  <2>1. CASE Publish(r, secret["cert"]) /\ UNCHANGED <<noticed, queued, fresh>>
    <3>1. proc' = [proc EXCEPT ![r] = proc'[r]] /\ proc'[r].pc = "ensure"
          BY <1>t, <2>1 DEF Publish
    <3>q. QED BY <1>4, <1>f, <1>n, <2>1, <3>1 DEF Adopt, At
  <2>2. CASE Raise(r)
        BY <1>4, <1>f, <1>r, <2>2 DEF Adopt, At
  <2>q. QED BY <1>4, <2>1, <2>2 DEF Adopt
<1>5. ASSUME NEW r \in Replicas, ReadConfiguration(r) PROVE RotationInv'
  <2>1. CASE NextHook(r)
        BY <1>5, <1>f, <1>h, <1>l, <1>n, <2>1 DEF ReadConfiguration, At
  <2>2. CASE proc' = [proc EXCEPT ![r].pc = "put"]
    <3>1. proc' = [proc EXCEPT ![r] = proc'[r]] /\ proc'[r].pc = "put"
          BY <1>t, <2>2 DEF ProcOf
    <3>q. QED BY <1>5, <1>f, <1>n, <3>1 DEF ReadConfiguration, At
  <2>q. QED BY <1>5, <2>1, <2>2 DEF ReadConfiguration
<1>6. ASSUME NEW r \in Replicas, ReplaceConfiguration(r) PROVE RotationInv'
      BY <1>6, <1>f, <1>h, <1>l, <1>n DEF ReplaceConfiguration, At
<1>7. ASSUME NEW r \in Replicas, Conflict(r) PROVE RotationInv'
      BY <1>7, <1>f, <1>r DEF Conflict, At
<1>8. ASSUME NEW r \in Replicas, CheckExpiry(r) PROVE RotationInv'
  <2>1. CASE MustRenew(secret) /\ Mint(r, "exit")
    <3>1. ~SecretIsGood
          BY <1>t, <1>g, <2>1 DEF SecretIsGood, MustRenew, Complete
    <3>2. r \in MayMint /\ r \notin noticed
          BY <1>8, <1>m, <1>n, <3>1 DEF CheckExpiry, At
    <3>q. QED BY <1>8, <2>1, <3>2, MintSpends DEF CheckExpiry
  <2>2. CASE proc' = [proc EXCEPT ![r].pc = "watchSecret"] /\ UNCHANGED minted
    <3>1. proc' = [proc EXCEPT ![r] = proc'[r]] /\ proc'[r].pc = "watchSecret"
          BY <1>t, <2>2 DEF ProcOf
    <3>q. QED BY <1>8, <1>f, <2>2, <3>1 DEF CheckExpiry, At
  <2>q. QED BY <1>8, <2>1, <2>2 DEF CheckExpiry
<1>9. ASSUME NEW r \in Replicas, SecretDeleted(r) PROVE RotationInv'
  <2>1. r \in MayMint
        BY <1>9 DEF SecretDeleted, MayMint, Storing, At
  <2>q. QED BY <1>9, <2>1, MintSpends DEF SecretDeleted
<1>10. ASSUME NEW r \in Replicas,
              SecretWatchEnds(r) \/ ReadCa(r) \/ MwcEvent(r) \/ MwcWatchEnds(r)
       PROVE  RotationInv'
  <2>1. /\ proc' = [proc EXCEPT ![r] = proc'[r]]
        /\ proc'[r].pc \in {"readCa", "check", "watchMwc", "ensure"}
    <3>1. proc[r] \in ProcOf(minted)
          BY <1>t
    <3>2. CASE SecretWatchEnds(r)
          BY <1>t, <3>1, <3>2 DEF SecretWatchEnds, ProcOf
    <3>3. CASE ReadCa(r)
          BY <1>t, <3>1, <3>3 DEF ReadCa, ProcOf
    <3>4. CASE MwcEvent(r)
          BY <1>t, <3>1, <3>4 DEF MwcEvent, ProcOf
    <3>5. CASE MwcWatchEnds(r)
          BY <1>t, <3>5 DEF MwcWatchEnds, Looping
    <3>q. QED BY <1>10, <3>2, <3>3, <3>4, <3>5
  <2>2. /\ proc[r].pc \in {"watchSecret", "readCa", "watchMwc"}
        /\ noticed' \subseteq noticed /\ r \notin noticed'
        /\ UNCHANGED <<secret, minted, due, losses, faults>>
        BY <1>10, <1>n DEF SecretWatchEnds, ReadCa, MwcEvent, MwcWatchEnds, At
  <2>q. QED BY <1>f, <2>1, <2>2 DEF At
<1>11. ASSUME NEW r \in Replicas, CallFails(r) PROVE RotationInv'
       BY <1>11, <1>r, FaultIsCharged DEF CallFails
<1>12. ASSUME NEW r \in Replicas, Crash(r) PROVE RotationInv'
  <2>1. proc' = [proc EXCEPT ![r] = proc'[r]] /\ proc'[r].pc = "boot"
        BY <1>12, <1>t DEF Crash, Booting
  <2>q. QED BY <1>12, <2>1, FaultIsCharged DEF Crash
<1>13. ASSUME NEW h \in Hooks, Drift(h) PROVE RotationInv'
  <2>1. faults' = faults + 1 /\ UNCHANGED <<proc, noticed, secret, minted, due, losses>>
        BY <1>13 DEF Drift
  <2>2. NoticedWatch' /\ WritersHoldFresh' /\ MayMint' = MayMint
        BY <2>1 DEF RotationInv, NoticedWatch, WritersHoldFresh, MayMint, SecretIsGood, Complete,
                    Storing, At
  <2>3. /\ minted' + Cardinality(MayMint) <= Cardinality(Replicas) * (1 + losses) + faults
        /\ Budget' <=> minted + Cardinality(MayMint) <= Cardinality(Replicas) * (1 + losses) + (faults + 1)
        BY <2>1, <2>2 DEF RotationInv, Budget
  <2>4. /\ Cardinality(MayMint) \in Nat /\ Cardinality(Replicas) \in Nat
        /\ losses \in Nat /\ faults \in Nat
        BY MayMintType, ReplicasAssumption, FS_Subset, FS_CardinalityType DEF IInv, TypeOK
  <2>5. PICK n \in Nat : n = Cardinality(Replicas) * (1 + losses)
        BY <2>4
  <2>6. Budget'
        BY <1>t, <2>1, <2>3, <2>4, <2>5
  <2>q. QED BY <2>2, <2>6 DEF RotationInv
<1>14. CASE DeleteSecret
       BY <1>14, LossIsCharged DEF DeleteSecret
<1>15. ASSUME NEW f \in Fields, DamageSecret(f) PROVE RotationInv'
       BY <1>15, LossIsCharged DEF DamageSecret
<1>16. CASE ComesDue
       BY <1>16, LossIsCharged DEF ComesDue
<1>17. CASE UNCHANGED vars
       BY <1>17 DEF vars, RotationInv, NoticedWatch, WritersHoldFresh, Budget, MayMint, SecretIsGood,
                    Complete, Storing, At
<1>q. QED BY <1>1, <1>2, <1>3, <1>4, <1>5, <1>6, <1>7, <1>8, <1>9, <1>10, <1>11, <1>12, <1>13,
             <1>14, <1>15, <1>16, <1>17 DEF Next, Step, Environment

\* However many replicas race for the Secret, a loss of it costs at most one new
\* certificate per replica, and a failed call or a crash one more: they do not rotate
\* each other's certificates in turn (_check_expiry, _ensure_secret, _watch_secret_briefly).
THEOREM RotationsStayBounded == Spec => []RotationsBounded
<1>1. IInv /\ RotationInv => RotationsBounded
  <2> SUFFICES ASSUME IInv, RotationInv PROVE RotationsBounded
      OBVIOUS
  <2>1. Cardinality(MayMint) \in Nat /\ Cardinality(Replicas) \in Nat
        BY MayMintType, ReplicasAssumption, FS_Subset, FS_CardinalityType DEF IInv
  <2>2. minted \in Nat /\ losses \in Nat /\ faults \in Nat
        BY DEF IInv, TypeOK
  <2>3. PICK n \in Nat : n = Cardinality(Replicas) * (1 + losses)
        BY <2>1, <2>2
  <2>q. QED BY <2>1, <2>2, <2>3 DEF RotationInv, Budget, RotationsBounded
<1>q. QED BY <1>1, InitInv, NextInv, RotationInit, RotationNext, PTL DEF Spec
=============================================================================
