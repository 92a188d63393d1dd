------------------------------ MODULE PodRental ------------------------------
(***************************************************************************)
(* The scripts that rent GPUs by the hour, measure on them and give them   *)
(* back: tools/grab_mi300x.sh (one pod, once there is stock) and           *)
(* tools/run_cross_hardware.sh and tools/run_precision_floor.sh (two pods, *)
(* the same steps).                                                        *)
(*                                                                         *)
(* A step is a call to the provider or the passage from one part of the    *)
(* script to the next; a signal may come between any two.  The trap on INT *)
(* and TERM runs cleanup and does not exit, so the script goes on where it *)
(* was.  A signal that kills a call in flight is that call failing, and    *)
(* then the signal; signals during cleanup are left out, as are SIGKILL    *)
(* and the loss of the machine, against which no trap helps.               *)
(***************************************************************************)
EXTENDS Naturals

CONSTANTS
    Scripts,        \* which of the scripts run
    Faults,         \* the provider calls whose answer may be lost or an error
    MaxInterrupts   \* bound of the model: how many signals arrive

ASSUME ScriptsAssumption == Scripts \subseteq {"one_pod", "two_pods"}
ASSUME FaultsAssumption == Faults \subseteq {"create", "delete", "list"}
ASSUME MaxInterruptsAssumption == MaxInterrupts \in Nat

VARIABLES
    script,     \* which script it is
    step,       \* where it is
    resume,     \* where it goes on after cleanup
    pod,        \* the provider's side: what became of each pod
    POD_ID,     \* REF_POD and CAND_POD, or POD_ID: whether the id is known
    said,       \* the last thing cleanup printed about each pod
    failed,     \* history: the calls that failed, with the pod they were about
    interrupts  \* signals so far

vars == <<script, step, resume, pod, POD_ID, said, failed, interrupts>>

-----------------------------------------------------------------------------
Pod == {"ref", "cand"}

Wanted == IF script = "one_pod" THEN {"cand"} ELSE Pod

FirstDelete == IF script = "one_pod" THEN "delete_cand" ELSE "delete_ref"

Running == {p \in Pod : pod[p] = "running"}

Init ==
    /\ script \in Scripts
    /\ step = IF script = "one_pod" THEN "poll" ELSE "deploy_ref"
    /\ resume = "none"
    /\ pod = [p \in Pod |-> "none"]
    /\ POD_ID = [p \in Pod |-> FALSE]
    /\ said = [p \in Pod |-> "nothing"]
    /\ failed = {}
    /\ interrupts = 0

GoTo(next) ==
    /\ step' = next
    /\ UNCHANGED <<script, resume, pod, POD_ID, said, failed, interrupts>>

\* A call about pod p: it succeeds, or fails if calls of this kind may.
Succeeds == UNCHANGED failed
Fails(call, p) == call \in Faults /\ failed' = failed \cup {<<call, p>>}

(* Renting *)

\* There is stock, or the deadline has passed; otherwise poll again.
Poll == step = "poll" /\ (GoTo("deploy_cand") \/ GoTo("exit"))

\* POST .../pods: a pod and its id, no pod and no id, or a pod whose id is
\* lost with the answer.
Deploy(p, here, next) ==
    /\ step = here
    /\ \/ /\ pod' = [pod EXCEPT ![p] = "running"]
          /\ POD_ID' = [POD_ID EXCEPT ![p] = TRUE]
          /\ Succeeds
       \/ UNCHANGED <<pod, POD_ID>> /\ Succeeds
       \/ /\ pod' = [pod EXCEPT ![p] = "running"]
          /\ UNCHANGED POD_ID
          /\ Fails("create", p)
    /\ step' = next
    /\ UNCHANGED <<script, resume, said, interrupts>>

\* [ -z ... ] && exit 1
CheckIds ==
    /\ step = "check"
    /\ IF \A p \in Wanted : POD_ID[p] THEN GoTo("wait") ELSE GoTo("exit")

\* The servers answer /health; at most 90 attempts.
Wait ==
    /\ step = "wait"
    /\ \/ Wanted \subseteq Running /\ GoTo("measure")
       \/ GoTo("exit")

\* Check the servers, capture the corpora, compare; any of it may exit.
Measure == step = "measure" /\ GoTo("exit")

(* Giving back: cleanup, from a signal or on exit *)

BeginCleanup(after) ==
    /\ step' = FirstDelete
    /\ resume' = after
    /\ UNCHANGED <<script, pod, POD_ID, said, failed>>

Interrupt ==
    /\ step \in {"poll", "deploy_ref", "deploy_cand", "check", "wait", "measure"}
    /\ interrupts < MaxInterrupts
    /\ interrupts' = interrupts + 1
    /\ BeginCleanup(step)

Exit ==
    /\ step = "exit"
    /\ BeginCleanup("ended")
    /\ UNCHANGED interrupts

\* Mutant: cleanup ends after the first pod.
AfterPod_OnlyFirst(p) == resume

AfterPod(p) == IF p = "ref" THEN "delete_cand" ELSE resume

\* kill_pod: without an id there is nothing to do, else DELETE .../pods/$id.
Delete(p, here, next) ==
    /\ step = here
    /\ \/ ~POD_ID[p] /\ step' = AfterPod(p) /\ UNCHANGED <<pod, failed>>
       \/ POD_ID[p] /\ step' = next /\ pod' = [pod EXCEPT ![p] = "gone"] /\ Succeeds
       \/ POD_ID[p] /\ step' = next /\ UNCHANGED pod /\ Fails("delete", p)
    /\ UNCHANGED <<script, resume, POD_ID, said, interrupts>>

\* Mutant: nobody looks whether the pod is still listed.
Found_NotChecked(p) == "gone"

Found(p) == IF p \in Running THEN "maybe" ELSE "gone"

\* GET .../pods | grep -c $id: still listed, or "confirmed gone", which is also
\* what an empty answer counts as.  The id is forgotten in any case.
Verify(p, here) ==
    /\ step = here
    /\ \/ said' = [said EXCEPT ![p] = Found(p)] /\ Succeeds
       \/ said' = [said EXCEPT ![p] = "gone"] /\ Fails("list", p)
    /\ POD_ID' = [POD_ID EXCEPT ![p] = FALSE]
    /\ step' = AfterPod(p)
    /\ UNCHANGED <<script, resume, pod, interrupts>>

Work ==
    \/ Poll
    \/ Deploy("ref", "deploy_ref", "deploy_cand")
    \/ Deploy("cand", "deploy_cand", "check")
    \/ CheckIds
    \/ Wait
    \/ Measure
    \/ Exit
    \/ Delete("ref", "delete_ref", "verify_ref")
    \/ Verify("ref", "verify_ref")
    \/ Delete("cand", "delete_cand", "verify_cand")
    \/ Verify("cand", "verify_cand")

Next == Work \/ Interrupt

Spec == Init /\ [][Next]_vars

\* Every call has a time limit (curl -m) and every loop a bound, so the script
\* always gets to its next step.
FairSpec == Spec /\ WF_vars(Work)
-----------------------------------------------------------------------------
TypeOK ==
    /\ script \in Scripts
    /\ step \in {"poll", "deploy_ref", "deploy_cand", "check", "wait", "measure", "exit",
                 "delete_ref", "verify_ref", "delete_cand", "verify_cand", "ended"}
    /\ resume \in {"none", "poll", "deploy_ref", "deploy_cand", "check", "wait", "measure", "ended"}
    /\ pod \in [Pod -> {"none", "running", "gone"}]
    /\ POD_ID \in [Pod -> BOOLEAN]
    /\ \A p \in Pod : POD_ID[p] => pod[p] # "none"
    /\ said \in [Pod -> {"nothing", "gone", "maybe"}]
    /\ failed \subseteq Faults \X Pod
    /\ interrupts \in 0..MaxInterrupts

(* No silent leak: a pod that is still billing when the script has ended was *)
(* announced as such, after a DELETE that failed.  Two cases are exempt: the *)
(* script never learned of the pod, because the answer to its deployment was *)
(* lost; or both DELETE and the listing that should confirm it failed.       *)
(* Signals, time-outs, refused deployments and mismatches leak nothing.      *)
LeakIsAnnounced ==
    step = "ended" => \A p \in Running :
        \/ <<"delete", p>> \in failed /\ said[p] = "maybe"
        \/ <<"create", p>> \in failed
        \/ {<<"delete", p>>, <<"list", p>>} \subseteq failed

(* A rented pod is given back in the end, whatever happens in between, if    *)
(* the provider answers the calls about it.                                  *)
PodsReturned ==
    \A p \in Pod : p \in Running ~> (p \notin Running \/ \E call \in Faults : <<call, p>> \in failed)
=============================================================================
