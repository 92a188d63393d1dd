---------------------------- MODULE JobLifecycle ----------------------------
(***************************************************************************)
(* What the job API promises the owner of a job, without tasks, table or   *)
(* process: a job is accepted once, by one owner, moves forward through    *)
(* pending, running and one of done and error, keeps the outcome it has,   *)
(* and once it is gone it stays gone.                                      *)
(***************************************************************************)
CONSTANTS JobId, Principal, Nobody

VARIABLES
    status,  \* job id -> what a poll by the owner would show
    owner    \* job id -> who the job was accepted from

vars == <<status, owner>>

Init ==
    /\ status = [j \in JobId |-> "absent"]
    /\ owner = [j \in JobId |-> Nobody]

Accept(j, p) ==
    /\ status[j] = "absent"
    /\ status' = [status EXCEPT ![j] = "pending"]
    /\ owner' = [owner EXCEPT ![j] = p]

Begin(j) ==
    /\ status[j] = "pending"
    /\ status' = [status EXCEPT ![j] = "running"]
    /\ UNCHANGED owner

\* A job may fail before it begins; only a running one can be done.
Settle(j) ==
    /\ \/ /\ status[j] = "running"
          /\ status' = [status EXCEPT ![j] = "done"]
       \/ /\ status[j] \in {"pending", "running"}
          /\ status' = [status EXCEPT ![j] = "error"]
    /\ UNCHANGED owner

\* The owner deletes one job, or a table in memory loses all of them.
Forget(S) ==
    /\ \A j \in S : status[j] \notin {"absent", "gone"}
    /\ status' = [j \in JobId |-> IF j \in S THEN "gone" ELSE status[j]]
    /\ UNCHANGED owner

Next ==
    \/ \E j \in JobId, p \in Principal : Accept(j, p)
    \/ \E j \in JobId : Begin(j) \/ Settle(j)
    \/ \E S \in SUBSET JobId : Forget(S)

Spec == Init /\ [][Next]_vars
=============================================================================
