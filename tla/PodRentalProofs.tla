-------------------------- MODULE PodRentalProofs --------------------------
(***************************************************************************)
(* Proofs about PodRental, for any choice of scripts, any provider calls   *)
(* that may fail and any number of signals.                                *)
(***************************************************************************)
EXTENDS PodRental, TLAPS

-----------------------------------------------------------------------------
(* The inductive invariant *)

Cleanup == {"delete_ref", "verify_ref", "delete_cand", "verify_cand"}
Interruptible == {"poll", "deploy_ref", "deploy_cand", "check", "wait", "measure"}

\* cleanup knows where to go on, and the script for one pod never touches "ref".
PlacesOK ==
    /\ step \in Cleanup => resume # "none"
    /\ script = "one_pod" => /\ step \notin {"deploy_ref", "delete_ref", "verify_ref"}
                             /\ resume # "deploy_ref"
                             /\ ~POD_ID["ref"]

\* cleanup forgets the ids one by one: it verifies a pod whose id it has and
\* whose DELETE went wrong if it still runs.
IdsOK ==
    /\ step \in {"delete_cand", "verify_cand", "ended"} => ~POD_ID["ref"]
    /\ step = "ended" => ~POD_ID["cand"]
    /\ step = "verify_ref" => POD_ID["ref"] /\ (pod["ref"] = "running" => <<"delete", "ref">> \in failed)
    /\ step = "verify_cand" => POD_ID["cand"] /\ (pod["cand"] = "running" => <<"delete", "cand">> \in failed)

\* Why a running pod has no id: it was never learned, or cleanup let go of it.
Explained(p) ==
    \/ <<"delete", p>> \in failed /\ said[p] = "maybe"
    \/ <<"create", p>> \in failed
    \/ {<<"delete", p>>, <<"list", p>>} \subseteq failed

LeaksOK == \A p \in Pod : pod[p] = "running" /\ ~POD_ID[p] => Explained(p)

IInv == TypeOK /\ PlacesOK /\ IdsOK /\ LeaksOK

-----------------------------------------------------------------------------
LEMMA InitOK == Init => IInv
  <1> SUFFICES ASSUME Init
               PROVE  IInv
    OBVIOUS
  <1> USE DEF Init
  <1>1. TypeOK
    BY ScriptsAssumption, MaxInterruptsAssumption DEF TypeOK
  <1>2. PlacesOK /\ IdsOK /\ LeaksOK
    BY DEF PlacesOK, Cleanup, IdsOK, LeaksOK, Pod
  <1>3. QED
    BY <1>1, <1>2 DEF IInv

\* A passage from one place to the next that is no call.
LEMMA GoToStep ==
    ASSUME IInv, NEW next, GoTo(next), step \in Interruptible,
           next \in {"deploy_cand", "wait", "measure", "exit"}
    PROVE  IInv'
  <1> USE DEF GoTo, Interruptible
  <1>1. TypeOK'
    BY DEF IInv, TypeOK
  <1>2. PlacesOK' /\ IdsOK'
    BY DEF IInv, PlacesOK, Cleanup, IdsOK
  <1>3. LeaksOK'
    BY DEF IInv, LeaksOK, Explained
  <1>4. QED
    BY <1>1, <1>2, <1>3 DEF IInv

LEMMA DeployStep ==
    ASSUME IInv, NEW p \in Pod, NEW here, NEW next, Deploy(p, here, next),
           \/ p = "ref" /\ here = "deploy_ref" /\ next = "deploy_cand"
           \/ p = "cand" /\ here = "deploy_cand" /\ next = "check"
    PROVE  IInv'
  <1> USE DEF Deploy, Succeeds, Fails
  <1>1. TypeOK'
    <2>1. failed' \subseteq Faults \X Pod
      BY DEF IInv, TypeOK
    <2>2. /\ pod' \in [Pod -> {"none", "running", "gone"}] /\ POD_ID' \in [Pod -> BOOLEAN]
          /\ \A q \in Pod : POD_ID'[q] => pod'[q] # "none"
      BY DEF IInv, TypeOK
    <2>3. QED
      BY <2>1, <2>2 DEF IInv, TypeOK
  <1>2. PlacesOK'
    BY DEF IInv, TypeOK, PlacesOK, Cleanup, Pod
  <1>3. IdsOK'
    BY DEF IdsOK
  <1>4. LeaksOK'
    <2>1. ASSUME NEW q \in Pod, pod'[q] = "running", ~POD_ID'[q]
          PROVE  Explained(q)'
      <3>1. CASE pod[q] = "running" /\ ~POD_ID[q]
        BY <3>1 DEF IInv, LeaksOK, Explained
      <3>2. CASE ~(pod[q] = "running" /\ ~POD_ID[q])
        BY <2>1, <3>2 DEF IInv, TypeOK, Explained
      <3>3. QED
        BY <3>1, <3>2
    <2>2. QED
      BY <2>1 DEF LeaksOK
  <1>5. QED
    BY <1>1, <1>2, <1>3, <1>4 DEF IInv

\* cleanup begins, at a signal or at the end of the script.
LEMMA CleanupStep ==
    ASSUME IInv, Interrupt \/ Exit
    PROVE  IInv'
  <1> USE DEF Interrupt, Exit, BeginCleanup, FirstDelete
  <1>1. TypeOK'
    BY MaxInterruptsAssumption DEF IInv, TypeOK
  <1>2. PlacesOK' /\ IdsOK'
    BY ScriptsAssumption DEF IInv, TypeOK, PlacesOK, Cleanup, IdsOK
  <1>3. LeaksOK'
    BY DEF IInv, LeaksOK, Explained
  <1>4. QED
    BY <1>1, <1>2, <1>3 DEF IInv

LEMMA DeleteStep ==
    ASSUME IInv, NEW p \in Pod, NEW here, NEW next, Delete(p, here, next),
           \/ p = "ref" /\ here = "delete_ref" /\ next = "verify_ref"
           \/ p = "cand" /\ here = "delete_cand" /\ next = "verify_cand"
    PROVE  IInv'
  <1> USE DEF Delete, Succeeds, Fails, AfterPod
  <1>1. TypeOK'
    BY DEF IInv, TypeOK, PlacesOK, Cleanup
  <1>2. PlacesOK'
    BY DEF IInv, TypeOK, PlacesOK, Cleanup
  <1>3. IdsOK'
    <2>1. CASE ~POD_ID[p] /\ step' = AfterPod(p) /\ UNCHANGED <<pod, failed>>
      BY <2>1 DEF IInv, TypeOK, IdsOK
    <2>2. CASE POD_ID[p] /\ step' = next
      BY <2>2 DEF IInv, TypeOK, IdsOK, Pod
    <2>3. QED
      BY <2>1, <2>2
  <1>4. LeaksOK'
    BY DEF IInv, TypeOK, LeaksOK, Explained
  <1>5. QED
    BY <1>1, <1>2, <1>3, <1>4 DEF IInv

LEMMA VerifyStep ==
    ASSUME IInv, NEW p \in Pod, NEW here, Verify(p, here),
           (p = "ref" /\ here = "verify_ref") \/ (p = "cand" /\ here = "verify_cand")
    PROVE  IInv'
  <1> USE DEF Verify, Succeeds, Fails, AfterPod, Found, Running
  <1>1. TypeOK'
    BY DEF IInv, TypeOK, PlacesOK, Cleanup
  <1>2. PlacesOK' /\ IdsOK'
    BY DEF IInv, TypeOK, PlacesOK, Cleanup, IdsOK, Pod
  <1>3. LeaksOK'
    <2>1. ASSUME NEW q \in Pod, pod'[q] = "running", ~POD_ID'[q]
          PROVE  Explained(q)'
      <3>1. CASE q # p
        BY <2>1, <3>1 DEF IInv, TypeOK, LeaksOK, Explained
      <3>2. CASE q = p
        BY <2>1, <3>2 DEF IInv, TypeOK, IdsOK, Explained
      <3>3. QED
        BY <3>1, <3>2
    <2>2. QED
      BY <2>1 DEF LeaksOK
  <1>4. QED
    BY <1>1, <1>2, <1>3 DEF IInv

\* Every step keeps the invariant.
LEMMA NextOK == IInv /\ [Next]_vars => IInv'
  <1> SUFFICES ASSUME IInv, [Next]_vars
               PROVE  IInv'
    OBVIOUS
  <1>1. CASE Poll \/ CheckIds \/ Wait \/ Measure
    <2>1. PICK next \in {"deploy_cand", "wait", "measure", "exit"} :
             GoTo(next) /\ step \in Interruptible
      BY <1>1 DEF Poll, CheckIds, Wait, Measure, Interruptible
    <2>2. QED
      BY <2>1, GoToStep
  <1>2. CASE \/ Deploy("ref", "deploy_ref", "deploy_cand")
             \/ Deploy("cand", "deploy_cand", "check")
    BY <1>2, DeployStep DEF Pod
  <1>3. CASE Interrupt \/ Exit
    BY <1>3, CleanupStep
  <1>4. CASE \/ Delete("ref", "delete_ref", "verify_ref")
             \/ Delete("cand", "delete_cand", "verify_cand")
    BY <1>4, DeleteStep DEF Pod
  <1>5. CASE Verify("ref", "verify_ref") \/ Verify("cand", "verify_cand")
    BY <1>5, VerifyStep DEF Pod
  <1>6. CASE UNCHANGED vars
    BY <1>6 DEF vars, IInv, TypeOK, PlacesOK, IdsOK, LeaksOK, Explained
  <1>7. QED
    BY <1>1, <1>2, <1>3, <1>4, <1>5, <1>6 DEF Next, Work

\* IInv is inductive: it holds in every state of every execution.
THEOREM Invariance == Spec => []IInv
  BY InitOK, NextOK, PTL DEF Spec

\* Every variable keeps its type, and an id is only held of a pod that was
\* created.
THEOREM TypeCorrect == Spec => []TypeOK
  <1>1. IInv => TypeOK
    BY DEF IInv
  <1>2. QED
    BY <1>1, Invariance, PTL

\* A pod that still runs when the script has ended was announced, or the answer
\* to its deployment was lost, or both its DELETE and the listing failed (cleanup
\* and kill_pod of the scripts).
THEOREM NoSilentLeak == Spec => []LeakIsAnnounced
  <1>1. IInv => LeakIsAnnounced
    <2>1. SUFFICES ASSUME IInv, step = "ended", NEW p \in Pod, pod[p] = "running"
                   PROVE  Explained(p)
      BY DEF LeakIsAnnounced, Running, Explained
    <2>2. ~POD_ID[p]
      BY <2>1 DEF IInv, IdsOK, Pod
    <2>3. QED
      BY <2>1, <2>2 DEF IInv, LeaksOK
  <1>2. QED
    BY <1>1, Invariance, PTL
=============================================================================
