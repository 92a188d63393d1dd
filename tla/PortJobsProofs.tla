--------------------------- MODULE PortJobsProofs ---------------------------
(***************************************************************************)
(* Proofs about PortJobs, for any finite set of identifiers, any set of    *)
(* principals, any cap and any combination of faults.                      *)
(***************************************************************************)
EXTENDS PortJobs, FiniteSetTheorems, TLAPS

-----------------------------------------------------------------------------
(* The inductive invariant *)

\* An identifier that was not issued has left no trace.
FreshHasNothing ==
    \A j \in JobId : submitter[j] = Nobody =>
        rows[j] = NoRow /\ tasks[j] = "none" /\ access[j] = {} /\ j \notin deleted

OwnerIsSubmitter == \A j \in JobId : rows[j] # NoRow => rows[j].owner = submitter[j]

DeletedHasNoRow == \A j \in deleted : rows[j] = NoRow

\* Which rows a task may find: its own, at the stage it left it, or none.
TaskMatchesRow ==
    \A j \in JobId :
        /\ tasks[j] = "scheduled" => rows[j].status = "pending" \/ j \in deleted
        /\ tasks[j] = "comparing" => rows[j].status = "running" \/ j \in deleted
        /\ tasks[j] = "cancelled" => IsActive(rows, j) \/ j \in deleted

\* Which tasks a phase of the process may have.
TaskMatchesPhase ==
    \A j \in JobId :
        /\ phase = "up" => tasks[j] # "cancelled"
        /\ phase = "stopping" => tasks[j] \in {"none", "cancelled"}
        /\ phase = "down" => tasks[j] = "none"

\* While the process stops, a cancelled task leaves its row active even in a
\* table in memory, which goes with the process.
Excused == MayAbandon \/ phase = "stopping"

\* An active row has its task, or a fault ended that task.
ActiveHasTask ==
    \A j \in JobId : IsActive(rows, j) =>
        tasks[j] # "none" \/ (Excused /\ j \in abandoned)

\* Outside "up" some fault has happened.
PhaseNeedsFault == phase # "up" => Faults # {}

IInv ==
    /\ TypeOK
    /\ FreshHasNothing
    /\ OwnerIsSubmitter
    /\ DeletedHasNoRow
    /\ TaskMatchesRow
    /\ TaskMatchesPhase
    /\ ActiveHasTask
    /\ PhaseNeedsFault
    /\ TenantIsolation
    /\ ResultMatchesStatus
    /\ ActiveWithinCap

-----------------------------------------------------------------------------
(* The table and its updates *)

Table == [JobId -> Row \cup {NoRow}]

(* The absent row is no row of the table and has no status of a job. *)
LEMMA NoRowFacts ==
    /\ NoRow \notin Row
    /\ NoRow.status \notin ActiveStatus \cup TerminalStatus
    /\ NoRow.owner = Nobody
  BY NobodyAssumption DEF NoRow, Row, ActiveStatus, TerminalStatus

(* update_status writes the status of the row if there is one, keeps the     *)
(* rest of it, and touches no other row.                                     *)
LEMMA UpdateStatusFacts ==
    ASSUME NEW rs \in Table, NEW j \in JobId,
           NEW s \in ActiveStatus \cup TerminalStatus
    PROVE  LET new == update_status(rs, j, s) IN
           /\ new \in Table
           /\ \A k \in JobId \ {j} : new[k] = rs[k]
           /\ rs[j] = NoRow => new[j] = NoRow
           /\ rs[j] # NoRow => new[j] = [owner |-> rs[j].owner, status |-> s,
                                         result |-> rs[j].result, error |-> rs[j].error]
  <1>1. CASE rs[j] = NoRow
    BY <1>1 DEF update_status, Updated, Table
  <1>2. CASE rs[j] # NoRow
    <2>1. rs[j] \in Row
      BY <1>2 DEF Table
    <2>2. [rs[j] EXCEPT !.status = s]
            = [owner |-> rs[j].owner, status |-> s,
               result |-> rs[j].result, error |-> rs[j].error]
      BY <2>1 DEF Row
    <2>3. update_status(rs, j, s)
            = [rs EXCEPT ![j] = [owner |-> rs[j].owner, status |-> s,
                                 result |-> rs[j].result, error |-> rs[j].error]]
      BY <1>2, <2>2 DEF update_status, Updated
    <2>4. [owner |-> rs[j].owner, status |-> s,
           result |-> rs[j].result, error |-> rs[j].error] \in Row
      BY <2>1 DEF Row
    <2>5. QED
      BY <1>2, <2>3, <2>4 DEF Table
  <1>3. QED
    BY <1>1, <1>2

-----------------------------------------------------------------------------
(* What a step of the task of job j does *)

OthersKept(j) ==
    \A k \in JobId \ {j} : rows'[k] = rows[k] /\ tasks'[k] = tasks[k]

\* The row of j keeps its owner and is consistent, or there is none before and
\* after.
RowKept(j) ==
    /\ rows[j] = NoRow => rows'[j] = NoRow
    /\ rows[j] # NoRow =>
          /\ rows'[j] \in Row
          /\ rows'[j].owner = rows[j].owner
          /\ rows'[j].status = "done" => rows'[j].result = "verdict" /\ rows'[j].error = "null"
          /\ rows'[j].status = "error" => rows'[j].result = "placeholder" /\ rows'[j].error = "message"
          /\ IsActive(rows', j) => rows'[j].result = "null" /\ rows'[j].error = "null"

\* The task goes on with a running row, or ends and, if it leaves the row
\* active, does so because of a fault.
TaskMovedOn(j) ==
    \/ /\ tasks[j] = "scheduled" /\ tasks'[j] = "comparing"
       /\ rows[j] # NoRow => rows'[j].status = "running"
       /\ abandoned' = abandoned
    \/ /\ tasks'[j] = "none"
       /\ IsActive(rows', j) => Excused /\ j \in abandoned'

TaskStep(j) ==
    /\ tasks[j] # "none"
    /\ rows' \in Table
    /\ tasks' \in [JobId -> TaskState]
    /\ abandoned \subseteq abandoned' /\ abandoned' \subseteq JobId
    /\ OthersKept(j)
    /\ RowKept(j)
    /\ TaskMovedOn(j)
    /\ UNCHANGED <<phase, submitter, access, deleted>>

(* Ending a task with a table that differs in its row only is a task step.   *)
LEMMA TaskEndsFacts ==
    ASSUME TypeOK, NEW j \in JobId, NEW rs \in Table, TaskEnds(j, rs),
           tasks[j] # "none",
           \A k \in JobId \ {j} : rs[k] = rows[k],
           IsActive(rs, j) => Excused,
           rows' = rs => RowKept(j),
           UNCHANGED <<phase, submitter, access, deleted>>
    PROVE  TaskStep(j)
  <1>1. rows' = rs /\ tasks' = [tasks EXCEPT ![j] = "none"]
    BY DEF TaskEnds
  <1>2. abandoned' = abandoned \cup LeftActive(rs, {j})
    BY DEF TaskEnds
  <1>3. abandoned \subseteq abandoned' /\ abandoned' \subseteq JobId
    BY <1>2 DEF LeftActive, TypeOK
  <1>4. tasks' \in [JobId -> TaskState] /\ tasks'[j] = "none" /\ OthersKept(j)
    BY <1>1 DEF TypeOK, TaskState, OthersKept
  <1>5. IsActive(rows', j) => Excused /\ j \in abandoned'
    BY <1>1, <1>2 DEF LeftActive
  <1>6. QED
    BY <1>1, <1>3, <1>4, <1>5 DEF TaskStep, TaskMovedOn

(* The except branch ends the task by a task step, from the table as it is   *)
(* or with the row already marked running.                                   *)
LEMMA ExceptionStep ==
    ASSUME IInv, NEW j \in JobId, tasks[j] \in {"scheduled", "comparing"},
           NEW base \in {rows, update_status(rows, j, "running")},
           NEW rs \in AfterException(base, j), TaskEnds(j, rs),
           UNCHANGED <<phase, submitter, access, deleted>>
    PROVE  TaskStep(j)
  <1>1. /\ base \in Table
        /\ \A k \in JobId \ {j} : base[k] = rows[k]
        /\ rows[j] = NoRow => base[j] = NoRow
        /\ rows[j] # NoRow => /\ base[j] \in Row
                              /\ base[j].owner = rows[j].owner
                              /\ base[j].status \in ActiveStatus
                              /\ base[j].result = "null" /\ base[j].error = "null"
    <2>1. rows \in Table
      BY DEF IInv, TypeOK, Table
    <2>2. rows[j] # NoRow => /\ rows[j].status \in ActiveStatus
                             /\ rows[j].result = "null" /\ rows[j].error = "null"
      BY DEF IInv, TaskMatchesRow, DeletedHasNoRow, ResultMatchesStatus, IsActive, ActiveStatus
    <2>3. CASE base = rows
      BY <2>1, <2>2, <2>3 DEF Table
    <2>4. CASE base = update_status(rows, j, "running")
      <3>1. "running" \in ActiveStatus \cup TerminalStatus /\ "running" \in ActiveStatus
        BY DEF ActiveStatus
      <3>2. /\ base \in Table
            /\ \A k \in JobId \ {j} : base[k] = rows[k]
            /\ rows[j] = NoRow => base[j] = NoRow
            /\ rows[j] # NoRow => base[j] = [owner |-> rows[j].owner, status |-> "running",
                                         result |-> rows[j].result, error |-> rows[j].error]
        BY <2>1, <2>4, <3>1, UpdateStatusFacts
      <3>3. rows[j] # NoRow => base[j] # NoRow
        BY <3>1, <3>2, NoRowFacts
      <3>4. QED
        BY <2>2, <3>1, <3>2, <3>3 DEF Table
    <2>5. QED
      BY <2>3, <2>4
  <1>2. CASE rs = update_result(base, j, "error", "placeholder", "message")
    <2>1. /\ rs \in Table
          /\ \A k \in JobId \ {j} : rs[k] = base[k]
          /\ base[j] = NoRow => rs[j] = NoRow
          /\ base[j] # NoRow => rs[j] = [owner |-> base[j].owner, status |-> "error",
                                         result |-> "placeholder", error |-> "message"]
      <3>1. "error" \in ActiveStatus \cup TerminalStatus
        BY DEF TerminalStatus
      <3>2. CASE base[j] = NoRow
        BY <1>1, <1>2, <3>2 DEF update_result, Updated
      <3>3. CASE base[j] # NoRow
        <4>1. base[j] \in Row
          BY <1>1, <3>3 DEF Table
        <4>2. [owner |-> base[j].owner, status |-> "error",
               result |-> "placeholder", error |-> "message"] \in Row
          BY <3>1, <4>1 DEF Row
        <4>3. rs = [base EXCEPT ![j] = [owner |-> base[j].owner, status |-> "error",
                                        result |-> "placeholder", error |-> "message"]]
          BY <1>2, <3>3 DEF update_result, Updated
        <4>4. QED
          BY <1>1, <3>3, <4>2, <4>3 DEF Table
      <3>4. QED
        BY <3>2, <3>3
    <2>2. ~IsActive(rs, j)
      BY <2>1, NoRowFacts DEF IsActive, ActiveStatus
    <2>3. rows[j] = NoRow => rs[j] = NoRow
      BY <1>1, <2>1
    <2>4. rows[j] # NoRow => rs[j] = [owner |-> rows[j].owner, status |-> "error",
                                      result |-> "placeholder", error |-> "message"]
      BY <1>1, <2>1, NoRowFacts
    <2>5. rows[j] # NoRow => rs[j] \in Row
      <3>1. rows[j] # NoRow => rs[j].status = "error"
        BY <2>4
      <3>2. NoRow.status # "error"
        BY NoRowFacts DEF TerminalStatus
      <3>3. QED
        BY <2>1, <3>1, <3>2 DEF Table
    <2>6. rows' = rs => RowKept(j)
      BY <2>2, <2>3, <2>4, <2>5 DEF RowKept
    <2>7. QED
      BY <1>1, <2>1, <2>2, <2>6, TaskEndsFacts DEF IInv
  <1>3. CASE StoreFault /\ rs = base
    <2>1. Excused
      BY <1>3 DEF Excused, MayAbandon
    <2>2. rows' = rs => RowKept(j)
      BY <1>1, <1>3 DEF RowKept, ActiveStatus
    <2>3. QED
      BY <1>1, <1>3, <2>1, <2>2, TaskEndsFacts DEF IInv
  <1>4. QED
    BY <1>2, <1>3 DEF AfterException

(* Each of the three steps of a task is a task step.                         *)
LEMMA StartTaskFacts == ASSUME IInv, NEW j \in JobId, StartTask(j) PROVE TaskStep(j)
  <1>1. tasks[j] \in {"scheduled", "comparing"}
    BY DEF StartTask
  <1>2. CASE /\ rows' = update_status(rows, j, "running")
             /\ tasks' = [tasks EXCEPT ![j] = "comparing"]
             /\ UNCHANGED abandoned
    <2>1. rows \in Table /\ "running" \in ActiveStatus \cup TerminalStatus
      BY DEF IInv, TypeOK, Table, ActiveStatus
    <2>2. /\ rows' \in Table
          /\ \A k \in JobId \ {j} : rows'[k] = rows[k]
          /\ rows[j] = NoRow => rows'[j] = NoRow
          /\ rows[j] # NoRow => rows'[j] = [owner |-> rows[j].owner, status |-> "running",
                                     result |-> rows[j].result, error |-> rows[j].error]
      BY <1>2, <2>1, UpdateStatusFacts
    <2>3. rows[j] # NoRow => rows'[j] # NoRow
      BY <2>1, <2>2, NoRowFacts
    <2>4. rows[j] # NoRow => rows[j].result = "null" /\ rows[j].error = "null"
      BY <1>1 DEF IInv, TaskMatchesRow, DeletedHasNoRow, ResultMatchesStatus, IsActive, ActiveStatus
    <2>5. RowKept(j)
      BY <2>2, <2>3, <2>4 DEF RowKept, Table
    <2>6. OthersKept(j)
      BY <1>2, <2>2 DEF OthersKept, IInv, TypeOK
    <2>7. /\ tasks' \in [JobId -> TaskState] /\ tasks'[j] = "comparing"
          /\ abandoned \subseteq abandoned' /\ abandoned' \subseteq JobId
      BY <1>2 DEF IInv, TypeOK, TaskState
    <2>8. TaskMovedOn(j)
      <3>1. tasks[j] = "scheduled"
        BY DEF StartTask
      <3>2. QED
        BY <1>2, <2>2, <2>7, <3>1 DEF TaskMovedOn
    <2>9. QED
      BY <1>1, <2>2, <2>5, <2>6, <2>7, <2>8 DEF TaskStep, StartTask
  <1>3. ASSUME NEW rs \in AfterException(update_status(rows, j, "running"), j), TaskEnds(j, rs)
        PROVE  TaskStep(j)
    BY <1>1, <1>3, ExceptionStep DEF StartTask
  <1>4. ASSUME NEW rs \in AfterException(rows, j), TaskEnds(j, rs)
        PROVE  TaskStep(j)
    BY <1>1, <1>4, ExceptionStep DEF StartTask
  <1>5. QED
    BY <1>2, <1>3, <1>4 DEF StartTask

LEMMA FinishTaskFacts == ASSUME IInv, NEW j \in JobId, FinishTask(j) PROVE TaskStep(j)
  <1>1. tasks[j] \in {"scheduled", "comparing"} /\ tasks[j] # "none"
    BY DEF FinishTask
  <1>2. ASSUME TaskEnds(j, update_result(rows, j, "done", "verdict", "null"))
        PROVE  TaskStep(j)
    <2> DEFINE rs == update_result(rows, j, "done", "verdict", "null")
    <2>1. rows \in Table /\ "done" \in ActiveStatus \cup TerminalStatus
      BY DEF IInv, TypeOK, Table, TerminalStatus
    <2>2. CASE rows[j] = NoRow
      <3>1. rs = rows
        BY <2>2 DEF update_result, Updated
      <3>2. ~IsActive(rs, j)
        BY <2>2, <3>1, NoRowFacts DEF IsActive
      <3>3. rows' = rs => RowKept(j)
        BY <2>2, <3>1 DEF RowKept
      <3> HIDE DEF rs
      <3>4. QED
        BY <1>1, <1>2, <2>1, <3>1, <3>2, <3>3, TaskEndsFacts DEF rs, IInv, FinishTask
    <2>3. CASE rows[j] # NoRow
      <3>1. rows[j] \in Row
        BY <2>1, <2>3 DEF Table
      <3> DEFINE row == [owner |-> rows[j].owner, status |-> "done",
                         result |-> "verdict", error |-> "null"]
      <3>2. row \in Row
        BY <2>1, <3>1 DEF Row
      <3>3. rs = [rows EXCEPT ![j] = row]
        BY <2>3 DEF update_result, Updated
      <3>4. /\ rs \in Table
            /\ \A k \in JobId \ {j} : rs[k] = rows[k]
            /\ rs[j] = row
        BY <2>1, <3>2, <3>3 DEF Table
      <3>5. ~IsActive(rs, j)
        BY <3>4 DEF IsActive, ActiveStatus
      <3>6. rows' = rs => RowKept(j)
        BY <2>3, <3>2, <3>4, <3>5 DEF RowKept
      <3> HIDE DEF rs, row
      <3>7. QED
        BY <1>1, <1>2, <3>4, <3>5, <3>6, TaskEndsFacts DEF rs, IInv, FinishTask
    <2>4. QED
      BY <2>2, <2>3
  <1>3. ASSUME NEW rs \in AfterException(rows, j), TaskEnds(j, rs)
        PROVE  TaskStep(j)
    BY <1>1, <1>3, ExceptionStep DEF FinishTask
  <1>4. QED
    BY <1>2, <1>3 DEF FinishTask

LEMMA CancelTaskFacts == ASSUME IInv, NEW j \in JobId, CancelTask(j) PROVE TaskStep(j)
  <1>1. TaskEnds(j, rows) /\ tasks[j] # "none" /\ rows \in Table
    BY DEF CancelTask, IInv, TypeOK, Table
  <1>2. Excused
    BY DEF CancelTask, IInv, TypeOK, TaskMatchesPhase, Excused
  <1>3. rows' = rows => RowKept(j)
    BY <1>1 DEF RowKept, IInv, ResultMatchesStatus, Table
  <1>4. QED
    BY <1>1, <1>2, <1>3, TaskEndsFacts DEF IInv, CancelTask

LEMMA TaskStepFacts ==
    ASSUME IInv, NEW j \in JobId, StartTask(j) \/ FinishTask(j) \/ CancelTask(j)
    PROVE  TaskStep(j)
  BY StartTaskFacts, FinishTaskFacts, CancelTaskFacts

-----------------------------------------------------------------------------
(* The invariant is inductive *)

Active == {j \in JobId : IsActive(rows, j)}

(* A step that makes no row active keeps the number of active rows in bounds. *)
LEMMA NoMoreActive ==
    ASSUME ActiveWithinCap, \A j \in JobId : IsActive(rows', j) => IsActive(rows, j)
    PROVE  ActiveWithinCap'
  <1>1. IsFiniteSet(Active) /\ Active' \subseteq Active
    BY JobIdAssumption, FS_Subset DEF Active
  <1>2. IsFiniteSet(Active') /\ Cardinality(Active') <= Cardinality(Active)
    BY <1>1, FS_Subset
  <1>3. Cardinality(Active) \in Nat /\ Cardinality(Active') \in Nat
    BY <1>1, <1>2, FS_CardinalityType
  <1>4. QED
    BY <1>2, <1>3, CapAssumption DEF ActiveWithinCap, count_active, Active

LEMMA InitIInv == Init => IInv
  <1> SUFFICES ASSUME Init PROVE IInv
    OBVIOUS
  <1>1. TypeOK
    BY DEF Init, TypeOK, TaskState
  <1>2. \A j \in JobId : rows[j] = NoRow /\ ~IsActive(rows, j)
    BY NoRowFacts DEF Init, IsActive
  <1>3. ActiveWithinCap
    <2>1. {j \in JobId : IsActive(rows, j)} = {}
      BY <1>2
    <2>2. QED
      BY <2>1, FS_EmptySet, CapAssumption DEF ActiveWithinCap, count_active
  <1>4. ResultMatchesStatus
    BY <1>2, NoRowFacts DEF ResultMatchesStatus, TerminalStatus
  <1>5. FreshHasNothing /\ OwnerIsSubmitter /\ DeletedHasNoRow /\ TenantIsolation
    BY <1>2 DEF Init, FreshHasNothing, OwnerIsSubmitter, DeletedHasNoRow, TenantIsolation
  <1>6. TaskMatchesRow /\ TaskMatchesPhase /\ ActiveHasTask /\ PhaseNeedsFault
    BY <1>2 DEF Init, TaskMatchesRow, TaskMatchesPhase, ActiveHasTask, PhaseNeedsFault
  <1>7. QED
    BY <1>1, <1>3, <1>4, <1>5, <1>6 DEF IInv

(* A step of a task keeps the invariant.                                     *)
LEMMA TaskStepIInv == ASSUME IInv, NEW j \in JobId, TaskStep(j) PROVE IInv'
  <1>1. /\ \A k \in JobId : rows[k] \in Row \cup {NoRow}
        /\ \A k \in JobId : rows[k] = NoRow => rows'[k] = NoRow
        /\ \A k \in JobId : rows[k] # NoRow => rows'[k] # NoRow /\ rows'[k].owner = rows[k].owner
    BY NoRowFacts DEF TaskStep, OthersKept, RowKept, IInv, TypeOK, Table
  <1>2. rows[j] = NoRow \/ IsActive(rows, j)
    BY DEF TaskStep, IInv, TypeOK, TaskState, TaskMatchesRow, DeletedHasNoRow, IsActive, ActiveStatus
  <1>3. \A k \in JobId : IsActive(rows', k) => IsActive(rows, k)
    BY <1>1, <1>2, NoRowFacts DEF TaskStep, OthersKept, IsActive
  <1>4. TypeOK'
    BY DEF TaskStep, IInv, TypeOK, Table
  <1>5. FreshHasNothing'
    BY DEF TaskStep, OthersKept, IInv, FreshHasNothing
  <1>6. OwnerIsSubmitter'
    BY <1>1 DEF TaskStep, IInv, OwnerIsSubmitter
  <1>7. DeletedHasNoRow'
    BY <1>1 DEF TaskStep, IInv, TypeOK, DeletedHasNoRow
  <1>8. TaskMatchesRow'
    <2>1. ASSUME NEW k \in JobId \ {j}
          PROVE  rows'[k] = rows[k] /\ tasks'[k] = tasks[k]
      BY DEF TaskStep, OthersKept
    <2>2. CASE tasks'[j] = "none"
      BY <2>1, <2>2 DEF TaskStep, IInv, TaskMatchesRow, IsActive
    <2>3. CASE tasks[j] = "scheduled" /\ tasks'[j] = "comparing"
      <3>1. rows[j] # NoRow \/ j \in deleted
        BY <2>3, NoRowFacts DEF IInv, TaskMatchesRow, ActiveStatus
      <3>2. rows'[j].status = "running" \/ j \in deleted
        BY <2>3, <3>1 DEF TaskStep, TaskMovedOn
      <3>3. QED
        BY <2>1, <2>3, <3>2 DEF TaskStep, IInv, TaskMatchesRow, IsActive
    <2>4. QED
      BY <2>2, <2>3 DEF TaskStep, TaskMovedOn
  <1>9. TaskMatchesPhase'
    BY DEF TaskStep, OthersKept, TaskMovedOn, IInv, TaskMatchesPhase
  <1>10. ActiveHasTask'
    BY <1>3 DEF TaskStep, OthersKept, TaskMovedOn, IInv, ActiveHasTask, IsActive, Excused
  <1>11. PhaseNeedsFault' /\ TenantIsolation'
    BY DEF TaskStep, IInv, PhaseNeedsFault, TenantIsolation
  <1>12. ResultMatchesStatus'
    BY <1>1, NoRowFacts DEF TaskStep, OthersKept, RowKept, IInv, ResultMatchesStatus, IsActive, TerminalStatus
  <1>13. ActiveWithinCap'
    BY <1>3, NoMoreActive DEF IInv
  <1>14. QED
    BY <1>4, <1>5, <1>6, <1>7, <1>8, <1>9, <1>10, <1>11, <1>12, <1>13 DEF IInv

(* Submitting a job keeps the invariant: a fresh identifier, and room for it. *)
LEMMA SubmitIInv ==
    ASSUME IInv, NEW p \in Principal, NEW j \in JobId, submit_port_job(p, j) PROVE IInv'
  <1> DEFINE row == [owner |-> p, status |-> "pending", result |-> "null", error |-> "null"]
  <1>1. /\ rows' = [rows EXCEPT ![j] = row]
        /\ tasks' = [tasks EXCEPT ![j] = "scheduled"]
        /\ submitter' = [submitter EXCEPT ![j] = p]
        /\ phase = "up" /\ submitter[j] = Nobody
        /\ UNCHANGED <<phase, access, deleted, abandoned>>
    BY DEF submit_port_job, create
  <1>2. /\ rows[j] = NoRow /\ access[j] = {} /\ j \notin deleted /\ p # Nobody
    BY <1>1, NobodyAssumption DEF IInv, FreshHasNothing
  <1>3. row \in Row /\ row.owner = p /\ row # NoRow
    BY NoRowFacts DEF Row, ActiveStatus
  <1>4. TypeOK'
    BY <1>1, <1>3 DEF IInv, TypeOK, TaskState
  <1>5. /\ rows'[j] = row /\ tasks'[j] = "scheduled" /\ submitter'[j] = p
        /\ \A k \in JobId \ {j} : /\ rows'[k] = rows[k] /\ tasks'[k] = tasks[k]
                                  /\ submitter'[k] = submitter[k]
    BY <1>1 DEF IInv, TypeOK
  <1>6. row.status = "pending" /\ row.result = "null" /\ row.error = "null"
    OBVIOUS
  <1> HIDE DEF row
  <1>7. FreshHasNothing' /\ OwnerIsSubmitter' /\ DeletedHasNoRow'
    BY <1>1, <1>2, <1>3, <1>5 DEF IInv, FreshHasNothing, OwnerIsSubmitter, DeletedHasNoRow, TypeOK
  <1>8. TaskMatchesRow' /\ ResultMatchesStatus'
    BY <1>1, <1>5, <1>6 DEF IInv, TaskMatchesRow, ResultMatchesStatus, IsActive
  <1>9. TaskMatchesPhase' /\ ActiveHasTask' /\ PhaseNeedsFault'
    BY <1>1, <1>5 DEF IInv, TaskMatchesPhase, ActiveHasTask, PhaseNeedsFault, IsActive, Excused
  <1>10. TenantIsolation'
    BY <1>1, <1>2, <1>5 DEF IInv, TenantIsolation
  <1>11. ActiveWithinCap'
    <2>1. IsFiniteSet(Active) /\ j \notin Active
      BY <1>2, JobIdAssumption, FS_Subset, NoRowFacts DEF Active, IsActive
    <2>2. Active' = Active \cup {j}
      BY <1>5, <1>6 DEF Active, IsActive, ActiveStatus
    <2>3. Cardinality(Active') = Cardinality(Active) + 1
      BY <2>1, <2>2, FS_AddElement
    <2>4. Cardinality(Active) \in Nat
      BY <2>1, FS_CardinalityType
    <2>5. MaxConcurrent > 0 => Cardinality(Active) < MaxConcurrent
      BY DEF submit_port_job, create, HasCapacity, count_active, Active
    <2>6. QED
      BY <2>3, <2>4, <2>5, CapAssumption DEF ActiveWithinCap, count_active, Active
  <1>12. QED
    BY <1>4, <1>7, <1>8, <1>9, <1>10, <1>11 DEF IInv

(* Reading rows changes nothing but who has seen them, and only their owner  *)
(* does.                                                                     *)
LEMMA ReadIInv ==
    ASSUME IInv, NEW p \in Principal,
           list_port_jobs(p) \/ \E j \in JobId : get_port_job(p, j)
    PROVE  IInv'
  <1>1. UNCHANGED <<rows, tasks, phase, submitter, deleted, abandoned>>
    BY DEF list_port_jobs, list_by_owner, get_port_job, get
  <1>2. /\ access' \in [JobId -> SUBSET Principal]
        /\ \A j \in JobId : access'[j] = access[j]
               \/ (access'[j] = access[j] \cup {p} /\ rows[j].owner = p)
    <2>1. CASE list_port_jobs(p)
      BY <2>1 DEF list_port_jobs, list_by_owner, IInv, TypeOK
    <2>2. ASSUME NEW j \in JobId, get_port_job(p, j)
          PROVE  /\ access' \in [JobId -> SUBSET Principal]
                 /\ \A k \in JobId : access'[k] = access[k]
                        \/ (access'[k] = access[k] \cup {p} /\ rows[k].owner = p)
      BY <2>2 DEF get_port_job, get, IInv, TypeOK
    <2>3. QED
      BY <2>1, <2>2
  <1>3. \A j \in JobId : rows[j].owner = p => submitter[j] = p /\ p # Nobody
    BY NobodyAssumption, NoRowFacts DEF IInv, OwnerIsSubmitter
  <1>4. TypeOK'
    BY <1>1, <1>2 DEF IInv, TypeOK
  <1>5. FreshHasNothing' /\ TenantIsolation'
    BY <1>1, <1>2, <1>3 DEF IInv, FreshHasNothing, TenantIsolation
  <1>6. ActiveWithinCap'
    BY <1>1, NoMoreActive DEF IInv
  <1>7. /\ OwnerIsSubmitter' /\ DeletedHasNoRow' /\ TaskMatchesRow' /\ TaskMatchesPhase'
        /\ ActiveHasTask' /\ PhaseNeedsFault' /\ ResultMatchesStatus'
    BY <1>1 DEF IInv, OwnerIsSubmitter, DeletedHasNoRow, TaskMatchesRow, TaskMatchesPhase,
                ActiveHasTask, PhaseNeedsFault, ResultMatchesStatus, IsActive, Excused
  <1>8. QED
    BY <1>4, <1>5, <1>6, <1>7 DEF IInv

(* Deleting a row leaves its task running, without a row from then on.       *)
LEMMA DeleteIInv ==
    ASSUME IInv, NEW p \in Principal, NEW j \in JobId, delete_port_job(p, j) PROVE IInv'
  <1>1. /\ rows' = [rows EXCEPT ![j] = NoRow]
        /\ access' = [access EXCEPT ![j] = @ \cup {p}]
        /\ deleted' = deleted \cup {j}
        /\ UNCHANGED <<tasks, phase, submitter, abandoned>>
        /\ rows[j].owner = p
    BY DEF delete_port_job, delete
  <1>2. submitter[j] = p /\ p # Nobody
    BY <1>1, NobodyAssumption, NoRowFacts DEF IInv, OwnerIsSubmitter
  <1>3. /\ rows'[j] = NoRow /\ access'[j] = access[j] \cup {p}
        /\ \A k \in JobId \ {j} : rows'[k] = rows[k] /\ access'[k] = access[k]
    BY <1>1 DEF IInv, TypeOK
  <1>4. \A k \in JobId : IsActive(rows', k) => IsActive(rows, k)
    BY <1>3, NoRowFacts DEF IsActive
  <1>5. TypeOK'
    BY <1>1 DEF IInv, TypeOK
  <1>6. FreshHasNothing' /\ TenantIsolation'
    BY <1>1, <1>2, <1>3 DEF IInv, FreshHasNothing, TenantIsolation
  <1>7. OwnerIsSubmitter' /\ DeletedHasNoRow'
    BY <1>1, <1>3 DEF IInv, TypeOK, OwnerIsSubmitter, DeletedHasNoRow
  <1>8. TaskMatchesRow' /\ TaskMatchesPhase' /\ PhaseNeedsFault'
    BY <1>1, <1>3 DEF IInv, TaskMatchesRow, TaskMatchesPhase, PhaseNeedsFault, IsActive
  <1>9. ActiveHasTask'
    BY <1>1, <1>4 DEF IInv, ActiveHasTask, Excused
  <1>10. ResultMatchesStatus'
    BY <1>3, NoRowFacts DEF IInv, ResultMatchesStatus, IsActive, TerminalStatus
  <1>11. ActiveWithinCap'
    BY <1>4, NoMoreActive DEF IInv
  <1>12. QED
    BY <1>5, <1>6, <1>7, <1>8, <1>9, <1>10, <1>11 DEF IInv

(* The process stopping, ending and starting keeps the invariant: what it    *)
(* leaves active, it leaves to nobody.                                       *)
LEMMA ProcessIInv == ASSUME IInv, Shutdown \/ ProcessExit \/ Restart PROVE IInv'
  <1>1. CASE Shutdown
    <2>1. /\ phase = "up" /\ phase' = "stopping" /\ Faults # {}
          /\ tasks' = [j \in JobId |-> IF tasks[j] = "none" THEN "none" ELSE "cancelled"]
          /\ UNCHANGED <<rows, submitter, access, deleted, abandoned>>
      BY <1>1 DEF Shutdown
    <2>2. TypeOK' /\ FreshHasNothing' /\ OwnerIsSubmitter' /\ DeletedHasNoRow'
      BY <2>1 DEF IInv, TypeOK, TaskState, FreshHasNothing, OwnerIsSubmitter, DeletedHasNoRow
    <2>3. \A j \in JobId : tasks[j] # "none" => IsActive(rows, j) \/ j \in deleted
      BY DEF IInv, TypeOK, TaskState, TaskMatchesRow, IsActive, ActiveStatus
    <2>4. TaskMatchesRow' /\ TaskMatchesPhase' /\ PhaseNeedsFault' /\ ActiveHasTask'
      BY <2>1, <2>3 DEF IInv, TaskMatchesRow, TaskMatchesPhase, PhaseNeedsFault, ActiveHasTask,
                        IsActive, Excused
    <2>5. TenantIsolation' /\ ResultMatchesStatus'
      BY <2>1 DEF IInv, TenantIsolation, ResultMatchesStatus, IsActive
    <2>6. ActiveWithinCap'
      BY <2>1, NoMoreActive DEF IInv
    <2>7. QED
      BY <2>2, <2>4, <2>5, <2>6 DEF IInv
  <1>2. CASE ProcessExit
    <2>1. /\ phase' = "down" /\ Faults # {}
          /\ (Durable /\ rows' = rows) \/ rows' = [j \in JobId |-> NoRow]
          /\ tasks' = [j \in JobId |-> "none"]
          /\ abandoned' = abandoned \cup LeftActive(rows', background_tasks)
          /\ UNCHANGED <<submitter, access, deleted>>
      BY <1>2 DEF ProcessExit, IInv, PhaseNeedsFault
    <2>2. \A j \in JobId : rows'[j] = rows[j] \/ rows'[j] = NoRow
      BY <2>1
    <2>3. \A j \in JobId : IsActive(rows', j) => IsActive(rows, j)
      BY <2>2, NoRowFacts DEF IsActive
    <2>4. TypeOK'
      BY <2>1 DEF IInv, TypeOK, TaskState, LeftActive, background_tasks
    <2>5. FreshHasNothing' /\ OwnerIsSubmitter' /\ DeletedHasNoRow'
      BY <2>1, <2>2 DEF IInv, TypeOK, FreshHasNothing, OwnerIsSubmitter, DeletedHasNoRow
    <2>6. TaskMatchesRow' /\ TaskMatchesPhase' /\ PhaseNeedsFault'
      BY <2>1 DEF TaskMatchesRow, TaskMatchesPhase, PhaseNeedsFault
    <2>7. ActiveHasTask'
      BY <2>1, <2>3, NoRowFacts DEF IInv, ActiveHasTask, LeftActive, background_tasks, IsActive,
                                    Excused, MayAbandon
    <2>8. TenantIsolation'
      BY <2>1 DEF IInv, TenantIsolation
    <2>9. ResultMatchesStatus'
      BY <2>2, NoRowFacts DEF IInv, ResultMatchesStatus, IsActive, TerminalStatus
    <2>10. ActiveWithinCap'
      BY <2>3, NoMoreActive DEF IInv
    <2>11. QED
      BY <2>4, <2>5, <2>6, <2>7, <2>8, <2>9, <2>10 DEF IInv
  <1>3. CASE Restart
    <2>1. /\ phase = "down" /\ phase' = "up"
          /\ UNCHANGED <<rows, tasks, submitter, access, deleted, abandoned>>
      BY <1>3 DEF Restart
    <2>2. ActiveWithinCap'
      BY <2>1, NoMoreActive DEF IInv
    <2>3. QED
      BY <2>1, <2>2 DEF IInv, TypeOK, FreshHasNothing, OwnerIsSubmitter, DeletedHasNoRow,
                        TaskMatchesRow, TaskMatchesPhase, ActiveHasTask, PhaseNeedsFault,
                        TenantIsolation, ResultMatchesStatus, IsActive, Excused
  <1>4. QED
    BY <1>1, <1>2, <1>3

(* A step that changes no variable keeps the invariant.                      *)
LEMMA StutterIInv == ASSUME IInv, UNCHANGED vars PROVE IInv'
  <1>1. UNCHANGED <<rows, tasks, phase, submitter, access, deleted, abandoned>>
    BY DEF vars
  <1>2. ActiveWithinCap'
    BY <1>1, NoMoreActive DEF IInv
  <1>3. QED
    BY <1>1, <1>2 DEF IInv, TypeOK, FreshHasNothing, OwnerIsSubmitter, DeletedHasNoRow,
                      TaskMatchesRow, TaskMatchesPhase, ActiveHasTask, PhaseNeedsFault,
                      TenantIsolation, ResultMatchesStatus, IsActive, Excused

(* The inductive invariant holds in every state of the service.              *)
THEOREM Invariance == Spec => []IInv
  <1>1. IInv /\ [Next]_vars => IInv'
    <2> SUFFICES ASSUME IInv, [Next]_vars PROVE IInv'
      OBVIOUS
    <2>1. ASSUME NEW p \in Principal, NEW j \in JobId,
                 submit_port_job(p, j) \/ get_port_job(p, j) \/ delete_port_job(p, j)
          PROVE  IInv'
      BY <2>1, SubmitIInv, ReadIInv, DeleteIInv
    <2>2. ASSUME NEW p \in Principal, list_port_jobs(p) PROVE IInv'
      BY <2>2, ReadIInv
    <2>3. ASSUME NEW j \in JobId, StartTask(j) \/ FinishTask(j) \/ CancelTask(j) PROVE IInv'
      BY <2>3, TaskStepFacts, TaskStepIInv
    <2>4. ASSUME Shutdown \/ ProcessExit \/ Restart PROVE IInv'
      BY <2>4, ProcessIInv
    <2>5. QED
      BY <2>1, <2>2, <2>3, <2>4, StutterIInv DEF Next
  <1>2. QED
    BY InitIInv, <1>1, PTL DEF Spec

-----------------------------------------------------------------------------
(* What follows from the invariant *)

(* The variables keep their types, whatever the faults.                      *)
THEOREM TypeCorrect == Spec => []TypeOK
  BY Invariance, PTL DEF IInv

(* Only the submitter of a job is ever shown it or removes it.               *)
THEOREM TenantIsolationHolds == Spec => []TenantIsolation
  BY Invariance, PTL DEF IInv

(* The columns of a row always agree with its status.                        *)
THEOREM ResultMatchesStatusHolds == Spec => []ResultMatchesStatus
  BY Invariance, PTL DEF IInv

(* The rows counted against the cap never exceed it.                         *)
THEOREM ActiveWithinCapHolds == Spec => []ActiveWithinCap
  BY Invariance, PTL DEF IInv

(* The tasks whose rows were not deleted from under them never exceed the    *)
(* cap: each of them has an active row.                                      *)
THEOREM UndeletedTasksWithinCapHolds == Spec => []UndeletedTasksWithinCap
  <1>1. IInv => UndeletedTasksWithinCap
    <2> SUFFICES ASSUME IInv, MaxConcurrent > 0
                 PROVE  Cardinality(background_tasks \ deleted) <= MaxConcurrent
      BY DEF UndeletedTasksWithinCap
    <2>1. background_tasks \ deleted \subseteq Active
      BY DEF background_tasks, Active, IInv, TypeOK, TaskState, TaskMatchesRow, IsActive, ActiveStatus
    <2>2. IsFiniteSet(Active)
      BY JobIdAssumption, FS_Subset DEF Active
    <2>3. /\ IsFiniteSet(background_tasks \ deleted)
          /\ Cardinality(background_tasks \ deleted) <= Cardinality(Active)
      BY <2>1, <2>2, FS_Subset
    <2>4. Cardinality(background_tasks \ deleted) \in Nat /\ Cardinality(Active) \in Nat
      BY <2>2, <2>3, FS_CardinalityType
    <2>5. Cardinality(Active) <= MaxConcurrent
      BY DEF IInv, ActiveWithinCap, count_active, Active
    <2>6. QED
      BY <2>3, <2>4, <2>5, CapAssumption
  <1>2. QED
    BY <1>1, Invariance, PTL

(* While the service is up every active row has a task that will settle it,  *)
(* but for those a fault abandoned.                                          *)
THEOREM ActiveRowsAreServedHolds == Spec => []ActiveRowsAreServed
  <1>1. IInv => ActiveRowsAreServed
    BY DEF IInv, TypeOK, TaskState, ActiveHasTask, TaskMatchesPhase, Excused, ActiveRowsAreServed
  <1>2. QED
    BY <1>1, Invariance, PTL

(* What one step may do to a row: nothing, create it for a fresh identifier, *)
(* take an active one forward, or remove it.                                 *)
LEMMA RowMoves ==
    ASSUME IInv, [Next]_vars, NEW j \in JobId
    PROVE  \/ rows'[j] = rows[j]
           \/ rows[j] = NoRow /\ submitter[j] = Nobody
           \/ IsActive(rows, j)
           \/ rows'[j] = NoRow
  <1>1. ASSUME NEW k \in JobId, TaskStep(k)
        PROVE  rows'[j] = rows[j] \/ rows'[j] = NoRow \/ IsActive(rows, j)
    <2>1. CASE j # k
      BY <1>1, <2>1 DEF TaskStep, OthersKept
    <2>2. CASE j = k
      <3>1. rows[j] = NoRow \/ IsActive(rows, j)
        BY <1>1, <2>2 DEF TaskStep, IInv, TypeOK, TaskState, TaskMatchesRow, DeletedHasNoRow, IsActive, ActiveStatus
      <3>2. QED
        BY <1>1, <2>2, <3>1 DEF TaskStep, RowKept
    <2>3. QED
      BY <2>1, <2>2
  <1>2. ASSUME NEW p \in Principal, NEW k \in JobId, submit_port_job(p, k)
        PROVE  rows'[j] = rows[j] \/ (rows[j] = NoRow /\ submitter[j] = Nobody)
    BY <1>2 DEF submit_port_job, create, IInv, TypeOK, FreshHasNothing
  <1>3. ASSUME NEW p \in Principal, NEW k \in JobId, delete_port_job(p, k)
        PROVE  rows'[j] = rows[j] \/ rows'[j] = NoRow
    BY <1>3 DEF delete_port_job, delete, IInv, TypeOK
  <1>4. ASSUME ProcessExit
        PROVE  rows'[j] = rows[j] \/ rows'[j] = NoRow
    BY <1>4 DEF ProcessExit
  <1>5. ASSUME \/ UNCHANGED vars
               \/ \E p \in Principal, k \in JobId : get_port_job(p, k)
               \/ \E p \in Principal : list_port_jobs(p)
               \/ Shutdown \/ Restart
        PROVE  rows' = rows
    BY <1>5 DEF vars, get_port_job, get, list_port_jobs, list_by_owner, Shutdown, Restart
  <1>6. QED
    BY <1>1, <1>2, <1>3, <1>4, <1>5, TaskStepFacts DEF Next

(* A settled row is removed or stays as it is.                               *)
THEOREM TerminalIsFinalHolds == Spec => TerminalIsFinal
  <1>1. IInv /\ [Next]_vars =>
           [\A j \in JobId : rows[j].status \in TerminalStatus => rows'[j] \in {rows[j], NoRow}]_vars
    <2> SUFFICES ASSUME IInv, [Next]_vars, NEW j \in JobId, rows[j].status \in TerminalStatus
                 PROVE  rows'[j] \in {rows[j], NoRow}
      OBVIOUS
    <2>1. ~IsActive(rows, j) /\ rows[j] # NoRow
      BY NoRowFacts DEF IsActive, ActiveStatus, TerminalStatus
    <2>2. QED
      BY <2>1, RowMoves
  <1>2. QED
    BY <1>1, Invariance, PTL DEF Spec, TerminalIsFinal

(* A removed row does not come back, even when its task outlives it.         *)
THEOREM NoResurrectionHolds == Spec => NoResurrection
  <1>1. IInv /\ [Next]_vars =>
           [\A j \in JobId : submitter[j] # Nobody /\ rows[j] = NoRow => rows'[j] = NoRow]_vars
    <2> SUFFICES ASSUME IInv, [Next]_vars, NEW j \in JobId, submitter[j] # Nobody, rows[j] = NoRow
                 PROVE  rows'[j] = NoRow
      OBVIOUS
    <2>1. ~IsActive(rows, j)
      BY NoRowFacts DEF IsActive
    <2>2. QED
      BY <2>1, RowMoves
  <1>2. QED
    BY <1>1, Invariance, PTL DEF Spec, NoResurrection

-----------------------------------------------------------------------------
(* The table implements the life cycle of JobLifecycle *)

\* What the refinement mapping of PortJobs shows of a job.
shown == [j \in JobId |->
             IF submitter[j] # Nobody /\ rows[j] = NoRow THEN "gone" ELSE rows[j].status]

(* A task takes a row from pending to running, from running to done, or from *)
(* either to error.                                                          *)
LEMMA TaskStatusMoves ==
    ASSUME IInv, NEW j \in JobId, StartTask(j) \/ FinishTask(j) \/ CancelTask(j),
           rows[j] # NoRow
    PROVE  \/ rows'[j].status = rows[j].status
           \/ rows[j].status = "pending" /\ rows'[j].status = "running"
           \/ rows[j].status = "running" /\ rows'[j].status = "done"
           \/ rows[j].status \in {"pending", "running"} /\ rows'[j].status = "error"
  <1>1. rows \in Table /\ rows[j] \in Row /\ j \notin deleted
    BY DEF IInv, TypeOK, Table, DeletedHasNoRow
  <1>2. ASSUME NEW base \in Table, base[j] # NoRow, NEW s, NEW r, NEW e
        PROVE  update_result(base, j, s, r, e)[j].status = s
    BY <1>2 DEF update_result, Updated, Table
  <1>3. ASSUME NEW base \in Table, base[j] # NoRow,
               NEW rs \in AfterException(base, j), TaskEnds(j, rs)
        PROVE  rows'[j].status \in {base[j].status, "error"}
    BY <1>2, <1>3 DEF AfterException, TaskEnds
  <1>4. CASE StartTask(j)
    <2> DEFINE begun == update_status(rows, j, "running")
    <2>1. rows[j].status = "pending"
      BY <1>1, <1>4 DEF StartTask, IInv, TaskMatchesRow
    <2>2. "running" \in ActiveStatus \cup TerminalStatus
      BY DEF ActiveStatus
    <2>3. begun \in Table /\ begun[j].status = "running"
      <3>1. begun \in Table
        BY <1>1, <2>2, UpdateStatusFacts
      <3>2. begun[j].status = "running"
        BY <1>1 DEF update_status, Updated, Table, Row
      <3>3. QED
        BY <3>1, <3>2
    <2>4. begun[j] # NoRow
      BY <2>2, <2>3, NoRowFacts
    <2> HIDE DEF begun
    <2>5. CASE rows' = begun
      BY <2>1, <2>3, <2>5
    <2>6. ASSUME NEW rs \in AfterException(begun, j), TaskEnds(j, rs)
          PROVE  rows'[j].status \in {"running", "error"}
      BY <1>3, <2>3, <2>4, <2>6
    <2>7. ASSUME NEW rs \in AfterException(rows, j), TaskEnds(j, rs)
          PROVE  rows'[j].status \in {"pending", "error"}
      BY <1>1, <1>3, <2>1, <2>7
    <2>8. QED
      BY <1>4, <2>1, <2>5, <2>6, <2>7 DEF StartTask, begun
  <1>5. CASE FinishTask(j)
    <2>1. rows[j].status = "running"
      BY <1>1, <1>5 DEF FinishTask, IInv, TaskMatchesRow
    <2>2. TaskEnds(j, update_result(rows, j, "done", "verdict", "null"))
             => rows'[j].status = "done"
      BY <1>1, <1>2 DEF TaskEnds
    <2>3. ASSUME NEW rs \in AfterException(rows, j), TaskEnds(j, rs)
          PROVE  rows'[j].status \in {"running", "error"}
      BY <1>1, <1>3, <2>1, <2>3
    <2>4. QED
      BY <1>5, <2>1, <2>2, <2>3 DEF FinishTask
  <1>6. CASE CancelTask(j)
    BY <1>6 DEF CancelTask, TaskEnds
  <1>7. QED
    BY <1>4, <1>5, <1>6

(* The mapping is expanded once: what is shown of one job, before and after. *)
LEMMA ShownFacts ==
    /\ shown \in [JobId -> {shown[j] : j \in JobId}]
    /\ shown' \in [JobId -> {shown'[j] : j \in JobId}]
    /\ \A j \in JobId :
          /\ submitter[j] # Nobody /\ rows[j] = NoRow => shown[j] = "gone"
          /\ ~(submitter[j] # Nobody /\ rows[j] = NoRow) => shown[j] = rows[j].status
          /\ submitter'[j] # Nobody /\ rows'[j] = NoRow => shown'[j] = "gone"
          /\ ~(submitter'[j] # Nobody /\ rows'[j] = NoRow) => shown'[j] = rows'[j].status
  BY DEF shown

(* Two states show the same where they agree on rows and submitters.         *)
LEMMA ShownSame ==
    ASSUME rows' = rows, submitter' = submitter
    PROVE  shown' = shown
  BY DEF shown

LEMMA AcceptSimulation ==
    ASSUME IInv, NEW p \in Principal, NEW j \in JobId, submit_port_job(p, j)
    PROVE  Lifecycle!Accept(j, p)
  <1>1. /\ rows' = [rows EXCEPT ![j] = [owner |-> p, status |-> "pending",
                                        result |-> "null", error |-> "null"]]
        /\ submitter' = [submitter EXCEPT ![j] = p]
        /\ submitter[j] = Nobody
        /\ rows[j] = NoRow
    BY DEF submit_port_job, create, IInv, FreshHasNothing
  <1>2. rows'[j].status = "pending" /\ rows'[j] # NoRow
    BY <1>1, NoRowFacts DEF IInv, TypeOK, ActiveStatus
  <1>3. \A k \in JobId \ {j} : rows'[k] = rows[k] /\ submitter'[k] = submitter[k]
    BY <1>1 DEF IInv, TypeOK
  <1>4. shown[j] = "absent" /\ shown'[j] = "pending"
    BY <1>1, <1>2, ShownFacts DEF NoRow
  <1>5. \A k \in JobId \ {j} : shown'[k] = shown[k]
    BY <1>3, ShownFacts
  <1>6. shown' = [shown EXCEPT ![j] = "pending"]
    BY <1>4, <1>5, ShownFacts
  <1>7. QED
    BY <1>1, <1>4, <1>6 DEF Lifecycle!Accept, shown

LEMMA TaskSimulation ==
    ASSUME IInv, NEW j \in JobId, StartTask(j) \/ FinishTask(j) \/ CancelTask(j)
    PROVE  Lifecycle!Begin(j) \/ Lifecycle!Settle(j) \/ (shown' = shown /\ submitter' = submitter)
  <1>1. TaskStep(j) /\ submitter' = submitter
    BY TaskStepFacts DEF TaskStep
  <1>2. \A k \in JobId \ {j} : shown'[k] = shown[k]
    BY <1>1, ShownFacts DEF TaskStep, OthersKept
  <1>3. shown' = [shown EXCEPT ![j] = shown'[j]]
    BY <1>2, ShownFacts
  <1>4. CASE rows[j] = NoRow
    <2>1. shown'[j] = shown[j]
      BY <1>1, <1>4, ShownFacts DEF TaskStep, RowKept
    <2>2. QED
      BY <1>1, <1>2, <2>1, ShownFacts
  <1>5. CASE rows[j] # NoRow
    <2>1. rows'[j] # NoRow
      BY <1>1, <1>5, NoRowFacts DEF TaskStep, RowKept
    <2>2. shown[j] = rows[j].status /\ shown'[j] = rows'[j].status
      BY <1>5, <2>1, ShownFacts
    <2>3. CASE shown'[j] = shown[j]
      BY <1>1, <1>2, <2>3, ShownFacts
    <2>4. CASE shown[j] = "pending" /\ shown'[j] = "running"
      BY <1>1, <1>3, <2>4 DEF Lifecycle!Begin, shown
    <2>5. CASE shown[j] = "running" /\ shown'[j] = "done"
      BY <1>1, <1>3, <2>5 DEF Lifecycle!Settle, shown
    <2>6. CASE shown[j] \in {"pending", "running"} /\ shown'[j] = "error"
      BY <1>1, <1>3, <2>6 DEF Lifecycle!Settle, shown
    <2>7. QED
      BY <1>5, <2>2, <2>3, <2>4, <2>5, <2>6, TaskStatusMoves
  <1>6. QED
    BY <1>4, <1>5

(* A step that only removes rows forgets the jobs it removes.                *)
LEMMA ForgetSimulation ==
    ASSUME IInv, NEW S \in SUBSET JobId,
           \A j \in S : rows[j] # NoRow /\ rows'[j] = NoRow,
           \A j \in JobId \ S : rows'[j] = rows[j],
           submitter' = submitter
    PROVE  Lifecycle!Forget(S)
  <1>1. \A j \in S : submitter[j] # Nobody
    BY DEF IInv, FreshHasNothing
  <1>2. \A j \in S : shown[j] \notin {"absent", "gone"}
    <2> SUFFICES ASSUME NEW j \in S PROVE shown[j] \notin {"absent", "gone"}
      OBVIOUS
    <2>1. shown[j] = rows[j].status /\ rows[j] \in Row
      BY ShownFacts DEF IInv, TypeOK
    <2>2. QED
      BY <2>1 DEF Row, ActiveStatus, TerminalStatus
  <1>3. \A j \in S : shown'[j] = "gone"
    BY <1>1, ShownFacts
  <1>4. \A j \in JobId \ S : shown'[j] = shown[j]
    BY ShownFacts
  <1>5. shown' = [j \in JobId |-> IF j \in S THEN "gone" ELSE shown[j]]
    BY <1>3, <1>4, ShownFacts
  <1>6. QED
    BY <1>2, <1>5 DEF Lifecycle!Forget, shown

(* Every step of the service shows a step of the life cycle, or nothing.     *)
LEMMA StepSimulation ==
    ASSUME IInv, [Next]_vars
    PROVE  [Lifecycle!Next]_(Lifecycle!vars)
  <1>1. ASSUME shown' = shown, submitter' = submitter
        PROVE  UNCHANGED Lifecycle!vars
    BY <1>1 DEF Lifecycle!vars, shown
  <1>2. ASSUME NEW p \in Principal, NEW j \in JobId, submit_port_job(p, j)
        PROVE  Lifecycle!Next
    BY <1>2, AcceptSimulation DEF Lifecycle!Next
  <1>3. ASSUME NEW j \in JobId, StartTask(j) \/ FinishTask(j) \/ CancelTask(j)
        PROVE  Lifecycle!Next \/ UNCHANGED Lifecycle!vars
    BY <1>1, <1>3, TaskSimulation DEF Lifecycle!Next
  <1>4. ASSUME NEW p \in Principal, NEW j \in JobId, delete_port_job(p, j)
        PROVE  Lifecycle!Next
    <2>1. /\ rows' = [rows EXCEPT ![j] = NoRow] /\ submitter' = submitter /\ rows[j].owner = p
      BY <1>4 DEF delete_port_job, delete
    <2>2. rows[j] # NoRow
      BY <2>1, NoRowFacts, NobodyAssumption
    <2>3. Lifecycle!Forget({j})
      BY <2>1, <2>2, ForgetSimulation DEF IInv, TypeOK
    <2>4. QED
      BY <2>3 DEF Lifecycle!Next
  <1>5. ASSUME ProcessExit
        PROVE  Lifecycle!Next \/ UNCHANGED Lifecycle!vars
    <2>1. submitter' = submitter
      BY <1>5 DEF ProcessExit
    <2>2. CASE Durable
      BY <1>1, <1>5, <2>1, <2>2, ShownSame DEF ProcessExit
    <2>3. CASE ~Durable
      <3>1. rows' = [j \in JobId |-> NoRow]
        BY <1>5, <2>3 DEF ProcessExit
      <3>2. PICK S \in SUBSET JobId : S = {j \in JobId : rows[j] # NoRow}
        OBVIOUS
      <3>3. /\ \A j \in S : rows[j] # NoRow /\ rows'[j] = NoRow
            /\ \A j \in JobId \ S : rows'[j] = rows[j]
        BY <3>1, <3>2
      <3>4. Lifecycle!Forget(S)
        BY <2>1, <3>3, ForgetSimulation
      <3>5. QED
        BY <3>4 DEF Lifecycle!Next
    <2>4. QED
      BY <2>2, <2>3
  <1>6. ASSUME \/ UNCHANGED vars
               \/ \E p \in Principal, k \in JobId : get_port_job(p, k)
               \/ \E p \in Principal : list_port_jobs(p)
               \/ Shutdown \/ Restart
        PROVE  UNCHANGED Lifecycle!vars
    <2>1. rows' = rows /\ submitter' = submitter
      BY <1>6 DEF vars, get_port_job, get, list_port_jobs, list_by_owner, Shutdown, Restart
    <2>2. QED
      BY <1>1, <2>1, ShownSame
  <1>7. QED
    BY <1>2, <1>3, <1>4, <1>5, <1>6 DEF Next

(* The service, with its tasks, faults and restarts, implements the life     *)
(* cycle the API promises.                                                   *)
THEOREM ImplementsLifecycleHolds == Spec => ImplementsLifecycle
  <1>1. Init => Lifecycle!Init
    BY DEF Init, Lifecycle!Init, NoRow
  <1>2. IInv /\ [Next]_vars => [Lifecycle!Next]_(Lifecycle!vars)
    BY StepSimulation
  <1>3. QED
    BY <1>1, <1>2, Invariance, PTL DEF Spec, ImplementsLifecycle, Lifecycle!Spec

=============================================================================
