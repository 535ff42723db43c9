------------------------------ MODULE ZeusStore ------------------------------
(***************************************************************************)
(* What the processes of the Zeus scheduler share: the MySQL tables taskdb *)
(* and projectdb, reduced to the columns the schedulers act on, and the    *)
(* Redis list "scheduler.task.queue".                                      *)
(*                                                                         *)
(* A statement on the database may fail; the handler catches the           *)
(* SQLException, so its caller cannot tell.  faults counts the failures a  *)
(* behaviour has had, of at most MaxFaults.                                *)
(***************************************************************************)
EXTENDS Naturals, Sequences

CONSTANTS
  Tasks,        \* ids of taskdb rows, "md5(project @ lunchtime)#worker"
  Instances,    \* the part of an id before '#': one firing of one project
  Projects,     \* ids of projectdb rows
  InstanceOf,   \* task -> the firing it is a worker of
  ProjectOf,    \* task -> its project_id
  MaxFaults     \* bound on failed statements, failed pushes and crashes

ASSUME StoreAssumption ==
  /\ InstanceOf \in [Tasks -> Instances]
  /\ ProjectOf \in [Tasks -> Projects]
  /\ MaxFaults \in Nat

VARIABLES
  taskdb,       \* task -> status column of its row
  projectdb,    \* project -> status column of its row, "ABSENT" if no row
  queue,        \* the Redis list, head first
  faults        \* failures so far

storeVars == <<taskdb, projectdb, queue, faults>>

TaskStatus == {"INIT", "ACTIVE", "RUNNING", "SUCCESS", "FAIL", "STOP",
               "DELETE", "CHECKING", "PASSED", "FORCERUNNING", "IGNORED"}

\* The states in which a task is done with.
Settled == {"SUCCESS", "FAIL", "STOP", "DELETE", "PASSED", "IGNORED"}

ProjectStatus == {"RUNNING", "DEBUG", "STOP", "DELETE", "ABSENT"}

Enabled == {"RUNNING", "DEBUG"}

Fault == faults < MaxFaults /\ faults' = faults + 1

\* REPLACE INTO taskdb; a failure leaves the row alone and is swallowed.
SaveOneTask(t, s) ==
  \/ taskdb' = [taskdb EXCEPT ![t] = s] /\ UNCHANGED faults
  \/ Fault /\ UNCHANGED taskdb

Push(m) == queue' = Append(queue, m)

\* The status SELECT ... FROM projectdb yields; a failed query has no rows.
ReadProject(p, s) ==
  \/ s = projectdb[p] /\ UNCHANGED faults
  \/ s = "ABSENT" /\ Fault

\* A user of the web front end writes the row of a project.
EditProject(p, s) ==
  /\ projectdb[p] # s
  /\ projectdb' = [projectdb EXCEPT ![p] = s]
  /\ UNCHANGED <<taskdb, queue, faults>>
=============================================================================
