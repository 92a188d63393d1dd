------------------------------ MODULE PortJobs ------------------------------
(***************************************************************************)
(* The asynchronous port-job service: the HTTP handlers of api/router.py,  *)
(* the SQLite job table of jobs/persistence.py, the asyncio background     *)
(* tasks that run the comparisons, and the lifespan of main.py that starts *)
(* and stops the process.                                                  *)
(*                                                                         *)
(* One uvicorn worker runs every handler and every task on one event loop, *)
(* so the code between two awaits is one atomic step.  A handler is one    *)
(* action: none awaits once its body has been read.  A background task is  *)
(* several: scheduled, run up to the await of runner.run, resumed after it *)
(* or cancelled.                                                           *)
(*                                                                         *)
(* Simplifications.                                                        *)
(*  - Requests that change nothing (401, 403, 404, 429, a failed INSERT)   *)
(*    are stuttering steps.                                                *)
(*  - A store write that raises leaves the row as it was.                  *)
(*  - Time stamps, the model and the target of a row are left out.         *)
(***************************************************************************)
EXTENDS Integers, FiniteSets

CONSTANTS
    JobId,          \* the uuid4 identifiers the service may hand out
    Principal,      \* authenticated owners: key ids and "admin"
    Nobody,         \* not a principal: the owner of what does not exist
    MaxConcurrent,  \* config.max_concurrent_jobs, 0 = unlimited
    Durable,        \* config.job_db_path is set: the table is a file
    Faults          \* the faults that may happen

ASSUME JobIdAssumption == IsFiniteSet(JobId)
ASSUME NobodyAssumption == Nobody \notin Principal
ASSUME CapAssumption == MaxConcurrent \in Nat
ASSUME SwitchAssumption == Durable \in BOOLEAN
ASSUME FaultsAssumption == Faults \subseteq {"shutdown", "crash", "store"}

VARIABLES
    rows,       \* the jobs table: job id -> row or NoRow
    tasks,      \* state of the coroutine _run_job of each job
    phase,      \* the process: "up", "stopping" (lifespan after yield), "down"
    submitter,  \* history: who got 202 for the job (an issued uuid is used up)
    access,     \* history: who was ever shown the job, or removed it
    deleted,    \* history: jobs removed by DELETE
    abandoned   \* history: jobs left active by a task that is no more

vars == <<rows, tasks, phase, submitter, access, deleted, abandoned>>

-----------------------------------------------------------------------------
(* The job table *)

ActiveStatus == {"pending", "running"}
TerminalStatus == {"done", "error"}

\* The result column holds NULL, a report of the runner ("verdict"), or the
\* empty report with mode "error" ("placeholder").
Row == [owner: Principal,
        status: ActiveStatus \cup TerminalStatus,
        result: {"null", "verdict", "placeholder"},
        error: {"null", "message"}]

NoRow == [owner |-> Nobody, status |-> "absent", result |-> "null", error |-> "null"]

IsActive(rs, j) == rs[j].status \in ActiveStatus

create(rs, j, p) ==
    [rs EXCEPT ![j] = [owner |-> p, status |-> "pending", result |-> "null", error |-> "null"]]

\* Mutant: SELECT ... WHERE job_id = ?, without the owner.
get_Unscoped(j, p) == rows[j]

\* SELECT ... WHERE job_id = ? AND owner = ?
get(j, p) == IF rows[j].owner = p THEN rows[j] ELSE NoRow

list_by_owner(p) == {j \in JobId : rows[j].owner = p}

\* DELETE ... WHERE job_id = ? AND owner = ?
delete(rs, j, p) == IF rs[j].owner = p THEN [rs EXCEPT ![j] = NoRow] ELSE rs

\* Mutant: a job that waits for the event loop is not counted.
count_active_OnlyRunning == Cardinality({j \in JobId : rows[j].status = "running"})

count_active == Cardinality({j \in JobId : IsActive(rows, j)})

\* Mutant: an upsert, which writes the row whether or not it is there.
Updated_Upsert(rs, j, row) == [rs EXCEPT ![j] = row]

\* UPDATE ... WHERE job_id = ?: without a row there is nothing to update.
Updated(rs, j, row) == IF rs[j] = NoRow THEN rs ELSE [rs EXCEPT ![j] = row]

update_status(rs, j, status) == Updated(rs, j, [rs[j] EXCEPT !.status = status])

\* Mutant: forgets the error column.
update_result_WithoutError(rs, j, status, result, error) ==
    Updated(rs, j, [rs[j] EXCEPT !.status = status, !.result = result])

update_result(rs, j, status, result, error) ==
    Updated(rs, j, [owner |-> rs[j].owner, status |-> status, result |-> result, error |-> error])

-----------------------------------------------------------------------------
(* The background tasks *)

TaskState == {"none", "scheduled", "comparing", "cancelled"}

\* app.state.background_tasks: the handler adds the task it creates, the done
\* callback discards it.
background_tasks == {j \in JobId : tasks[j] # "none"}

StoreFault == "store" \in Faults

\* What can leave a row active for good: a write that fails, or a file that
\* outlives the process.
MayAbandon == StoreFault \/ (Durable /\ Faults # {})

\* Mutant: the except branch logs the exception and writes nothing.
AfterException_Swallowed(rs, j) == {rs}

\* The table after the except branch of _run_job, whose own write may raise.
AfterException(rs, j) ==
    {update_result(rs, j, "error", "placeholder", "message")}
        \cup (IF StoreFault THEN {rs} ELSE {})

LeftActive(rs, ended) == {j \in ended : IsActive(rs, j)}

TaskEnds(j, rs) ==
    /\ rows' = rs
    /\ tasks' = [tasks EXCEPT ![j] = "none"]
    /\ abandoned' = abandoned \cup LeftActive(rs, {j})

-----------------------------------------------------------------------------
Init ==
    /\ rows = [j \in JobId |-> NoRow]
    /\ tasks = [j \in JobId |-> "none"]
    /\ phase = "up"
    /\ submitter = [j \in JobId |-> Nobody]
    /\ access = [j \in JobId |-> {}]
    /\ deleted = {}
    /\ abandoned = {}

(* Handlers *)

\* Mutant: off by one.
HasCapacity_OffByOne == MaxConcurrent > 0 => count_active <= MaxConcurrent

HasCapacity == MaxConcurrent > 0 => count_active < MaxConcurrent

\* POST /v1/port/preview: check the cap, insert the row, create the task.
submit_port_job(p, j) ==
    /\ phase = "up"
    /\ HasCapacity
    /\ submitter[j] = Nobody
    /\ rows' = create(rows, j, p)
    /\ tasks' = [tasks EXCEPT ![j] = "scheduled"]
    /\ submitter' = [submitter EXCEPT ![j] = p]
    /\ UNCHANGED <<phase, access, deleted, abandoned>>

\* GET /v1/port/preview/{job_id}: the row, if its owner asks.
get_port_job(p, j) ==
    /\ phase = "up"
    /\ get(j, p) # NoRow
    /\ access' = [access EXCEPT ![j] = @ \cup {p}]
    /\ UNCHANGED <<rows, tasks, phase, submitter, deleted, abandoned>>

\* GET /v1/port/preview: every row of the owner.
list_port_jobs(p) ==
    /\ phase = "up"
    /\ access' = [j \in JobId |-> IF j \in list_by_owner(p) THEN access[j] \cup {p} ELSE access[j]]
    /\ UNCHANGED <<rows, tasks, phase, submitter, deleted, abandoned>>

\* DELETE /v1/port/preview/{job_id}: removes the row, never touches the task.
delete_port_job(p, j) ==
    /\ phase = "up"
    /\ rows[j].owner = p
    /\ rows' = delete(rows, j, p)
    /\ deleted' = deleted \cup {j}
    /\ access' = [access EXCEPT ![j] = @ \cup {p}]
    /\ UNCHANGED <<tasks, phase, submitter, abandoned>>

(* The coroutine _run_job *)

\* From the first step to the await of runner.run.
StartTask(j) ==
    /\ tasks[j] = "scheduled"
    /\ \/ /\ rows' = update_status(rows, j, "running")
          /\ tasks' = [tasks EXCEPT ![j] = "comparing"]
          /\ UNCHANGED abandoned
       \/ \* _make_runner raises
          \E rs \in AfterException(update_status(rows, j, "running"), j) : TaskEnds(j, rs)
       \/ \* update_status raises
          /\ StoreFault
          /\ \E rs \in AfterException(rows, j) : TaskEnds(j, rs)
    /\ UNCHANGED <<phase, submitter, access, deleted>>

\* From the return of runner.run to the end; the except branch also runs when
\* the write of the report raises.
FinishTask(j) ==
    /\ tasks[j] = "comparing"
    /\ \/ TaskEnds(j, update_result(rows, j, "done", "verdict", "null"))
       \/ \E rs \in AfterException(rows, j) : TaskEnds(j, rs)
    /\ UNCHANGED <<phase, submitter, access, deleted>>

\* CancelledError is no Exception: it passes the except branch, and the row
\* keeps the status it has.
CancelTask(j) ==
    /\ tasks[j] = "cancelled"
    /\ TaskEnds(j, rows)
    /\ UNCHANGED <<phase, submitter, access, deleted>>

(* The process *)

\* lifespan after the yield: cancel every task, then wait for them.
Shutdown ==
    /\ "shutdown" \in Faults
    /\ phase = "up"
    /\ phase' = "stopping"
    /\ tasks' = [j \in JobId |-> IF tasks[j] = "none" THEN "none" ELSE "cancelled"]
    /\ UNCHANGED <<rows, submitter, access, deleted, abandoned>>

\* The process ends: after the wait (all tasks done, or five seconds), or by a
\* crash.  A table in memory goes with it, and so do the tasks.
ProcessExit ==
    /\ \/ phase = "stopping"
       \/ phase = "up" /\ "crash" \in Faults
    /\ phase' = "down"
    /\ rows' = IF Durable THEN rows ELSE [j \in JobId |-> NoRow]
    /\ tasks' = [j \in JobId |-> "none"]
    /\ abandoned' = abandoned \cup LeftActive(rows', background_tasks)
    /\ UNCHANGED <<submitter, access, deleted>>

\* Mutant: a start-up repair that marks every row it finds as failed.
Restart_FailsAllRows ==
    /\ phase = "down"
    /\ phase' = "up"
    /\ rows' = [j \in JobId |-> update_result(rows, j, "error", "placeholder", "message")[j]]
    /\ UNCHANGED <<tasks, submitter, access, deleted, abandoned>>

\* lifespan before the yield: opens the table as it is, with no task.
Restart ==
    /\ phase = "down"
    /\ phase' = "up"
    /\ UNCHANGED <<rows, tasks, submitter, access, deleted, abandoned>>

Next ==
    \/ \E p \in Principal, j \in JobId :
          \/ submit_port_job(p, j)
          \/ get_port_job(p, j)
          \/ delete_port_job(p, j)
    \/ \E p \in Principal : list_port_jobs(p)
    \/ \E j \in JobId : StartTask(j) \/ FinishTask(j) \/ CancelTask(j)
    \/ Shutdown
    \/ ProcessExit
    \/ Restart

Spec == Init /\ [][Next]_vars

\* The event loop runs every task that is ready, a comparison ends (every
\* request to a backend has a timeout), and a stopped service is restarted.
Fairness ==
    /\ \A j \in JobId : WF_vars(StartTask(j)) /\ WF_vars(FinishTask(j)) /\ WF_vars(CancelTask(j))
    /\ WF_vars(ProcessExit /\ phase = "stopping")
    /\ WF_vars(Restart)

FairSpec == Spec /\ Fairness
-----------------------------------------------------------------------------
TypeOK ==
    /\ rows \in [JobId -> Row \cup {NoRow}]
    /\ tasks \in [JobId -> TaskState]
    /\ phase \in {"up", "stopping", "down"}
    /\ submitter \in [JobId -> Principal \cup {Nobody}]
    /\ access \in [JobId -> SUBSET Principal]
    /\ deleted \subseteq JobId
    /\ abandoned \subseteq JobId

(* Tenant isolation: nobody but the principal that submitted a job is ever   *)
(* shown it, lists it or removes it, whatever else happened in between       *)
(* (persistence.py get, list_by_owner and delete are scoped by owner).       *)
TenantIsolation == \A j \in JobId : access[j] \subseteq {submitter[j]} \ {Nobody}

(* A row that says done carries the report of the runner and no error, a row *)
(* that says error carries the placeholder and an error, and an active row   *)
(* carries neither: a poll never shows a verdict of a job that failed.       *)
ResultMatchesStatus ==
    \A j \in JobId :
        /\ rows[j].status = "done" => rows[j].result = "verdict" /\ rows[j].error = "null"
        /\ rows[j].status = "error" => rows[j].result = "placeholder" /\ rows[j].error = "message"
        /\ IsActive(rows, j) => rows[j].result = "null" /\ rows[j].error = "null"

(* The rows that count against the cap never exceed it, over any mix of      *)
(* submissions, completions, deletions and restarts (router.py 196-203).     *)
ActiveWithinCap == MaxConcurrent > 0 => count_active <= MaxConcurrent

(* The comparisons really in flight never exceed the cap either, those of    *)
(* deleted jobs apart: the table is a sound account of the running tasks     *)
(* except where a DELETE took the row from under its task.                   *)
UndeletedTasksWithinCap ==
    MaxConcurrent > 0 => Cardinality(background_tasks \ deleted) <= MaxConcurrent

(* While the service is up, a row that says pending or running has a task    *)
(* that will settle it: no path through _run_job forgets its row.  The only  *)
(* exceptions are a write that failed and a file that outlived its process.  *)
ActiveRowsAreServed ==
    phase = "up" =>
        \A j \in JobId : IsActive(rows, j) =>
            \/ tasks[j] \in {"scheduled", "comparing"}
            \/ MayAbandon /\ j \in abandoned

(* A settled job is settled for good: after done or error a row is removed   *)
(* or stays as it is, across task steps, shutdowns and restarts.             *)
TerminalIsFinal ==
    [][\A j \in JobId : rows[j].status \in TerminalStatus => rows'[j] \in {rows[j], NoRow}]_vars

(* A removed job does not come back: the writes of a task that outlives its  *)
(* row are updates, not upserts, and identifiers are not issued twice.       *)
NoResurrection ==
    [][\A j \in JobId : submitter[j] # Nobody /\ rows[j] = NoRow => rows'[j] = NoRow]_vars

(* Every job that was accepted is settled or removed in the end: the client  *)
(* told to poll "to retrieve the result when status is done" gets an answer. *)
JobsSettle == \A j \in JobId : IsActive(rows, j) ~> ~IsActive(rows, j)

-----------------------------------------------------------------------------
(* The job table implements the life cycle the API promises: an issued       *)
(* identifier without a row is a job that is gone.                           *)
Lifecycle == INSTANCE JobLifecycle WITH
    status <- [j \in JobId |->
                  IF submitter[j] # Nobody /\ rows[j] = NoRow THEN "gone" ELSE rows[j].status],
    owner <- submitter

(* Every step of the service, with its tasks that outlive rows and its       *)
(* restarts, is a step of that life cycle or shows the clients nothing.      *)
ImplementsLifecycle == Lifecycle!Spec
=============================================================================
