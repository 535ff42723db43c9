---------------------------- MODULE ProjectTrigger ----------------------------
(***************************************************************************)
(* ProjectTrigger.execute, every 10 seconds, with the ProjectScanner       *)
(* singleton: they compare the rows of projectdb with the projects known   *)
(* so far and keep one Quartz job per enabled project.  Quartz keeps its   *)
(* jobs in memory (RAMJobStore).                                           *)
(*                                                                         *)
(* The users who edit projectdb are the environment; every edit stores the *)
(* second at which it is made in updatetime.                               *)
(***************************************************************************)
EXTENDS Naturals

CONSTANTS
  Projects,
  NoRow,          \* "no row", "no entry"
  Statuses,       \* statuses users write
  Crons,          \* crontabs users write
  Delays,         \* what users write to delay
  SameSecond,     \* whether a row is edited twice within a second
  MaxClock,       \* bound on the clock
  MaxFaults       \* bound on failed queries and crashes

\* Kinds of crontab: "none" gives no trigger (null, or never fires again),
\* "once" is the empty string, "cron" fires again and again, "bad" does not
\* parse.
CronKind == {"none", "once", "cron", "bad"}

Schedulable == {"once", "cron"}

ASSUME ProjectAssumption ==
  /\ Statuses \subseteq {"RUNNING", "DEBUG", "STOP", "DELETE"}
  /\ Crons \subseteq CronKind
  /\ Delays \subseteq {"null", "set"}
  /\ SameSecond \in BOOLEAN
  /\ MaxClock \in Nat /\ MaxFaults \in Nat

VARIABLES
  table,          \* project -> its row of projectdb
  clock,          \* seconds
  map,            \* ProjectScanner._projectMap
  jobs,           \* project -> crontab its Quartz trigger was built from
  pc,             \* where ProjectTrigger.execute is
  todo,           \* entries of the map still to be visited
  faults,
  round           \* how far a round without failure has come since the last
                  \* edit; "aborted" from a crontab that does not parse to the
                  \* next restart (history)

vars == <<table, clock, map, jobs, pc, todo, faults, round>>

Row == [status : Statuses, crontab : Crons, delay : Delays,
        updatetime : 0..MaxClock]

Entry == [status : Statuses \cup {"DELETE"}, crontab : Crons,
          updatetime : 0..MaxClock,
          sys : {"ADDED", "MODIFIED", "DELETE", "DONE"}]

ASSUME NoRowAssumption == NoRow \notin Row \cup Entry

TypeOK ==
  /\ table \in [Projects -> Row \cup {NoRow}]
  /\ clock \in 0..MaxClock
  /\ map \in [Projects -> Entry \cup {NoRow}]
  /\ jobs \in [Projects -> {"none"} \cup Schedulable]
  /\ pc \in {"idle", "loop"}
  /\ todo \subseteq Projects
  /\ faults \in 0..MaxFaults
  /\ round \in {"stale", "scanned", "synced", "aborted"}

Init ==
  /\ table = [p \in Projects |-> NoRow]
  /\ clock = 0
  /\ map = [p \in Projects |-> NoRow]
  /\ jobs = [p \in Projects |-> "none"]
  /\ pc = "idle" /\ todo = {}
  /\ faults = 0
  /\ round = "stale"

Fault == faults < MaxFaults /\ faults' = faults + 1

Stale == IF round = "aborted" THEN "aborted" ELSE "stale"

Rows == {p \in Projects : table[p] # NoRow}
Known == {p \in Projects : map[p] # NoRow}

-----------------------------------------------------------------------------
(* ProjectScanner.loadProjects *)

\* Mutant: no row counts as new.
NewerNever(p) == p \notin Projects

Newer(p) == map[p].updatetime < table[p].updatetime

\* Mutant: the row itself goes into the map.
CopiedRaw(p, sys) == IF sys = "ADDED" THEN table[p] ELSE map[p]

Copied(p, sys) ==
  [status |-> table[p].status, crontab |-> table[p].crontab,
   updatetime |-> table[p].updatetime, sys |-> sys]

\* Mutant: the entry of a project without a row is dropped at once.
ScannedForgets(p, seen) ==
  IF p \in seen THEN Copied(p, "ADDED") ELSE NoRow

\* The entry of p after a scan that saw the rows of the projects in seen.
Scanned(p, seen) ==
  CASE p \notin seen /\ p \notin Known -> NoRow
    [] p \notin seen /\ p \in Known    -> [map[p] EXCEPT !.sys = "DELETE"]
    [] p \in seen /\ p \notin Known    -> Copied(p, "ADDED")
    [] p \in seen /\ p \in Known /\ Newer(p)  -> Copied(p, "MODIFIED")
    [] p \in seen /\ p \in Known /\ ~Newer(p) -> [map[p] EXCEPT !.sys = "DONE"]

\* The schema's "delay int(11)" reaches setKeyValue as an Integer, which it
\* casts to Long: reading such a row throws.
Readable(p) == table[p].delay = "null"

\* A failed query has no rows; a failed connection leaves all as it is.
Scan ==
  /\ pc = "idle"
  /\ \/ /\ \A p \in Rows : Readable(p)
        /\ map' = [p \in Projects |-> Scanned(p, Rows)]
        /\ round' = IF round = "stale" THEN "scanned" ELSE round
        /\ UNCHANGED faults
     \/ /\ map' = [p \in Projects |-> Scanned(p, {})]
        /\ round' = Stale
        /\ Fault
  /\ todo' = {p \in Projects : map'[p] # NoRow}
  /\ pc' = "loop"
  /\ UNCHANGED <<table, clock, jobs>>

\* The exception is caught after the entries were marked DELETE; the marks
\* are never acted upon, loadProjects returns false.
ScanThrows ==
  /\ pc = "idle"
  /\ \E p \in Rows : ~Readable(p)
  /\ map' = [p \in Projects |-> IF p \in Known
                                THEN [map[p] EXCEPT !.sys = "DELETE"] ELSE NoRow]
  /\ UNCHANGED <<table, clock, jobs, pc, todo, faults, round>>

-----------------------------------------------------------------------------
(* ProjectTrigger.execute: the loop over the entries *)

\* The job Quartz gets for an enabled project: none for a null crontab, and
\* none when scheduleJob refuses a trigger that will never fire.
JobOf(status, crontab) ==
  IF status \in {"RUNNING", "DEBUG"} /\ crontab \in Schedulable
  THEN crontab ELSE "none"

\* cronSchedule throws on a crontab that does not parse.
Throws(p) ==
  /\ map[p].sys \in {"ADDED", "MODIFIED"}
  /\ map[p].status \in {"RUNNING", "DEBUG"}
  /\ map[p].crontab = "bad"

Mark(p, e) ==
  /\ map' = [map EXCEPT ![p] = e]
  /\ todo' = todo \ {p}
  /\ UNCHANGED <<table, clock, pc, faults, round>>

Visit(p) == pc = "loop" /\ p \in todo

Schedule(p) ==
  /\ Visit(p) /\ map[p].sys \in {"ADDED", "MODIFIED"} /\ ~Throws(p)
  /\ jobs' = [jobs EXCEPT ![p] = JobOf(map[p].status, map[p].crontab)]
  /\ Mark(p, [map[p] EXCEPT !.sys = "DONE"])

\* Mutant: the job of a project whose row is gone is left scheduled.
UnscheduledNot(p) == jobs

Unscheduled(p) == [jobs EXCEPT ![p] = "none"]

Unschedule(p) ==
  /\ Visit(p) /\ map[p].sys = "DELETE"
  /\ jobs' = Unscheduled(p)
  /\ Mark(p, [map[p] EXCEPT !.status = "DELETE", !.sys = "DONE"])

Skip(p) ==
  /\ Visit(p) /\ map[p].sys = "DONE"
  /\ todo' = todo \ {p}
  /\ UNCHANGED <<table, clock, map, jobs, pc, faults, round>>

\* The exception leaves execute; a modified project has lost its old job.
Abort(p) ==
  /\ Visit(p) /\ Throws(p)
  /\ jobs' = IF map[p].sys = "MODIFIED" THEN Unscheduled(p) ELSE jobs
  /\ todo' = {} /\ pc' = "idle" /\ round' = "aborted"
  /\ UNCHANGED <<table, clock, map, faults>>

RoundDone ==
  /\ pc = "loop" /\ todo = {}
  /\ pc' = "idle"
  /\ round' = IF round = "scanned" THEN "synced" ELSE round
  /\ UNCHANGED <<table, clock, map, jobs, todo, faults>>

-----------------------------------------------------------------------------
(* The environment *)

\* A trigger without crontab has fired: Quartz drops it and its job.
FireOnce(p) ==
  /\ jobs[p] = "once"
  /\ jobs' = [jobs EXCEPT ![p] = "none"]
  /\ UNCHANGED <<table, clock, map, pc, todo, faults, round>>

\* Users insert, change or delete a row.
Edit(p, row) ==
  /\ table[p] # NoRow /\ ~SameSecond => table[p].updatetime < clock
  /\ table' = [table EXCEPT ![p] = row]
  /\ round' = Stale
  /\ UNCHANGED <<clock, map, jobs, pc, todo, faults>>

Write(p) ==
  \E s \in Statuses, c \in Crons, d \in Delays :
    Edit(p, [status |-> s, crontab |-> c, delay |-> d, updatetime |-> clock])

Remove(p) == table[p] # NoRow /\ Edit(p, NoRow)

Tick ==
  /\ clock < MaxClock /\ clock' = clock + 1
  /\ UNCHANGED <<table, map, jobs, pc, todo, faults, round>>

Crash ==
  /\ Fault
  /\ map' = [p \in Projects |-> NoRow]
  /\ jobs' = [p \in Projects |-> "none"]
  /\ pc' = "idle" /\ todo' = {}
  /\ round' = "stale"
  /\ UNCHANGED <<table, clock>>

-----------------------------------------------------------------------------
Execute == \/ Scan \/ ScanThrows \/ RoundDone
           \/ \E p \in Projects : \/ Schedule(p) \/ Unschedule(p)
                                  \/ Skip(p) \/ Abort(p)

Next == \/ Execute \/ Tick \/ Crash
        \/ \E p \in Projects : FireOnce(p) \/ Write(p) \/ Remove(p)

Spec == Init /\ [][Next]_vars

\* Quartz keeps firing ProjectTrigger.
FairSpec == Spec /\ WF_vars(Execute)

-----------------------------------------------------------------------------
(* Properties *)

Wanted(p) == IF p \in Rows THEN JobOf(table[p].status, table[p].crontab)
                           ELSE "none"

\* The job of p is the one its row asks for, or has fired once as asked.
Follows(p) == jobs[p] = Wanted(p) \/ (Wanted(p) = "once" /\ jobs[p] = "none")

Quiet == round = "synced" /\ pc = "idle"

\* Once a round without failure has ended after the last edit, and unless a
\* round was aborted since the process started, every project has exactly the
\* job its row asks for (README.md: "Zeus is a scheduler
\* which schedules jobs according on time").
ScheduleFollowsTable == Quiet => \A p \in Projects : Follows(p)

\* Even after failed queries, unreadable rows and crashes, no project keeps a
\* job that its row does not ask for: a stopped or deleted project does not go
\* on firing.
NoUnwantedJob == Quiet => \A p \in Projects : jobs[p] \in {"none", Wanted(p)}

\* Every job Quartz has is known to the scanner: without an entry nothing
\* could ever unschedule it, whatever rows vanish, cannot be read or do not
\* parse, and wherever a round was cut short.
NoOrphanJob == \A p \in Projects : jobs[p] # "none" => p \in Known

\* When the users stop editing, the jobs come to follow the table for good.
EventuallyFollows == <>[](\A p \in Projects : Follows(p))
=============================================================================
