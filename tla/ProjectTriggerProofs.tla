------------------------ MODULE ProjectTriggerProofs ------------------------
(***************************************************************************)
(* Proofs about ProjectTrigger for any set of projects, any length of time *)
(* and any number of failures.                                             *)
(***************************************************************************)
EXTENDS ProjectTrigger, TLAPS

\* The loop visits entries of the map, and nothing is left when it is over.
LoopInv == todo \subseteq Known /\ (pc = "idle" => todo = {})

\* An entry is never newer than its row.  When the row is gone it is older
\* than any row that could be inserted now.
ClockInv ==
  \A p \in Projects :
    /\ p \in Rows => table[p].updatetime <= clock
    /\ p \in Known =>
         IF p \in Rows THEN map[p].updatetime <= table[p].updatetime
                       ELSE map[p].updatetime < clock

\* The entry was copied from the row as it is now, except that a scan without
\* rows may have led to a DELETE since.
Current(p) ==
  p \in Known /\ p \in Rows /\ map[p].updatetime = table[p].updatetime

SameInv ==
  \A p \in Projects : Current(p) =>
    /\ map[p].crontab = table[p].crontab
    /\ map[p].status \in {table[p].status, "DELETE"}

\* The loop has still to act on the entry.
Due(p) == p \in todo /\ map[p].sys # "DONE"

EntryJob(p) == JobOf(map[p].status, map[p].crontab)

\* A job is the one the entry asks for, or the entry is about to be acted on.
JobInv ==
  round # "aborted" =>
    \A p \in Known : jobs[p] \in {"none", EntryJob(p)} \/ Due(p)

\* A scan without failure since the last edit has seen every row, and found
\* the projects whose row is gone.
RoundInv ==
  round \in {"scanned", "synced"} =>
    \A p \in Projects :
      IF p \in Rows THEN Current(p)
      ELSE \/ p \notin Known
           \/ p \notin todo /\ jobs[p] = "none"
           \/ p \in todo /\ map[p].sys = "DELETE"

SyncInv == TypeOK /\ LoopInv /\ ClockInv /\ SameInv /\ JobInv /\ RoundInv

\* Without failures no entry of an unchanged row is ever dropped, and the job
\* an entry asks for is there until it has fired.
KeptInv ==
  \A p \in Projects : Current(p) =>
    map[p].status = table[p].status /\ ~(p \in todo /\ map[p].sys = "DELETE")

MatchInv ==
  round # "aborted" =>
    \A p \in Known :
      \/ jobs[p] = EntryJob(p)
      \/ EntryJob(p) = "once" /\ jobs[p] = "none"
      \/ Due(p)

-----------------------------------------------------------------------------
(* What the steps do, in terms of single entries *)

\* The assumptions on the constants, gathered for citation.
LEMMA Consts ==
  /\ NoRow \notin Row /\ NoRow \notin Entry
  /\ Statuses \subseteq {"RUNNING", "DEBUG", "STOP", "DELETE"}
  /\ Crons \subseteq CronKind /\ Delays \subseteq {"null", "set"}
  /\ MaxClock \in Nat /\ MaxFaults \in Nat
BY ProjectAssumption, NoRowAssumption

\* Entries and rows are records of their types.
LEMMA Members ==
  ASSUME TypeOK, NEW p \in Projects
  PROVE  /\ p \in Known => /\ map[p] \in Entry
                           /\ map[p].updatetime \in 0..MaxClock
                           /\ map[p].crontab \in Crons
                           /\ map[p].status \in Statuses \cup {"DELETE"}
                           /\ map[p].sys \in {"ADDED", "MODIFIED", "DELETE", "DONE"}
         /\ p \notin Known => map[p] = NoRow
         /\ p \in Rows => /\ table[p] \in Row
                          /\ table[p].updatetime \in 0..MaxClock
                          /\ table[p].crontab \in Crons
                          /\ table[p].status \in Statuses
         /\ p \notin Rows => table[p] = NoRow
BY Consts DEF TypeOK, Known, Rows, Entry, Row

\* A copy of a row is an entry with the fields of the row.
LEMMA CopiedEntry ==
  ASSUME TypeOK, NEW p \in Rows,
         NEW sys \in {"ADDED", "MODIFIED", "DELETE", "DONE"}
  PROVE  /\ Copied(p, sys) \in Entry
         /\ Copied(p, sys).sys = sys
         /\ Copied(p, sys).status = table[p].status
         /\ Copied(p, sys).crontab = table[p].crontab
         /\ Copied(p, sys).updatetime = table[p].updatetime
<1>1. p \in Projects
  BY DEF Rows
<1> QED
  BY <1>1, Members DEF Copied, Entry

\* Two entries that ask for the same job.
Alike(e, f) ==
  e.status = f.status /\ e.crontab = f.crontab /\ e.updatetime = f.updatetime

\* The four outcomes of a scan for the entry of a project.
Forgotten(p, e) == p \notin Known /\ e = NoRow
Missing(p, e) ==
  p \in Known /\ e \in Entry /\ Alike(e, map[p]) /\ e.sys = "DELETE"
Copy(p, e) ==
  /\ p \in Rows /\ (p \notin Known \/ Newer(p))
  /\ e \in Entry /\ Alike(e, table[p]) /\ e.sys \in {"ADDED", "MODIFIED"}
Settles(p, e) ==
  /\ p \in Rows /\ p \in Known /\ ~Newer(p)
  /\ e \in Entry /\ Alike(e, map[p]) /\ e.sys = "DONE"

\* Every entry after a scan is one of the four.
LEMMA ScannedEntry ==
  ASSUME TypeOK, NEW p \in Projects, NEW seen, seen \subseteq Rows
  PROVE  /\ p \notin seen => \/ Forgotten(p, Scanned(p, seen))
                             \/ Missing(p, Scanned(p, seen))
         /\ p \in seen => \/ Copy(p, Scanned(p, seen))
                          \/ Settles(p, Scanned(p, seen))
<1>1. CASE p \notin seen /\ p \notin Known
  <2>1. Scanned(p, seen) = NoRow
    BY <1>1 DEF Scanned
  <2> QED
    BY <1>1, <2>1 DEF Forgotten
<1>2. CASE p \notin seen /\ p \in Known
  <2>1. Scanned(p, seen) = [map[p] EXCEPT !.sys = "DELETE"]
    BY <1>2 DEF Scanned
  <2>2. map[p] \in Entry
    BY <1>2, Members
  <2> QED
    BY <1>2, <2>1, <2>2 DEF Missing, Alike, Entry
<1>3. CASE p \in seen /\ p \notin Known
  <2>1. Scanned(p, seen) = Copied(p, "ADDED")
    BY <1>3 DEF Scanned
  <2> QED
    BY <1>3, <2>1, CopiedEntry DEF Copy, Alike
<1>4. CASE p \in seen /\ p \in Known /\ Newer(p)
  <2>1. Scanned(p, seen) = Copied(p, "MODIFIED")
    BY <1>4 DEF Scanned
  <2> QED
    BY <1>4, <2>1, CopiedEntry DEF Copy, Alike
<1>5. CASE p \in seen /\ p \in Known /\ ~Newer(p)
  <2>1. Scanned(p, seen) = [map[p] EXCEPT !.sys = "DONE"]
    BY <1>5 DEF Scanned
  <2>2. map[p] \in Entry
    BY <1>5, Members
  <2> QED
    BY <1>5, <2>1, <2>2 DEF Settles, Alike, Entry
<1> QED
  BY <1>1, <1>2, <1>3, <1>4, <1>5

\* A scan that saw the rows of seen.
LEMMA ScanSees ==
  ASSUME TypeOK, Scan
  PROVE  \E seen \in {Rows, {}} :
           /\ seen = Rows \/ (faults < MaxFaults /\ round' = Stale)
           /\ \A p \in Projects :
                /\ p \notin seen => Forgotten(p, map'[p]) \/ Missing(p, map'[p])
                /\ p \in seen => Copy(p, map'[p]) \/ Settles(p, map'[p])
           /\ todo' = {p \in Projects : map'[p] # NoRow}
           /\ Known' = todo'
<1>1. PICK seen \in {Rows, {}} :
        /\ map' = [p \in Projects |-> Scanned(p, seen)]
        /\ seen = Rows \/ (faults < MaxFaults /\ round' = Stale)
  BY DEF Scan, Fault
<1>2. \A p \in Projects : map'[p] = Scanned(p, seen)
  BY <1>1
<1>3. Known' = todo'
  BY DEF Scan, Known
<1> QED
  BY <1>1, <1>2, <1>3, ScannedEntry DEF Scan

\* The marks of a scan that could not read a row.
LEMMA ThrowsMarks ==
  ASSUME TypeOK, ScanThrows
  PROVE  /\ Known' = Known
         /\ \A p \in Projects : Forgotten(p, map'[p]) \/ Missing(p, map'[p])
<1>1. ASSUME NEW p \in Projects
      PROVE  Forgotten(p, map'[p]) \/ Missing(p, map'[p])
  <2>1. map'[p] = IF p \in Known THEN [map[p] EXCEPT !.sys = "DELETE"] ELSE NoRow
    BY DEF ScanThrows
  <2> QED
    BY <2>1, Members DEF Forgotten, Missing, Alike, Entry
<1>2. Known' = Known
  BY <1>1, Consts DEF Known, Forgotten, Missing
<1> QED
  BY <1>1, <1>2

\* What Schedule and Unschedule do to the entry visited, and to no other.
LEMMA VisitMarks ==
  ASSUME TypeOK, NEW p \in Projects, p \in Known,
         Schedule(p) \/ Unschedule(p)
  PROVE  /\ map'[p] \in Entry /\ map'[p].sys = "DONE"
         /\ map'[p].crontab = map[p].crontab
         /\ map'[p].updatetime = map[p].updatetime
         /\ map'[p].status = IF Schedule(p) THEN map[p].status ELSE "DELETE"
         /\ \A q \in Projects : q # p => map'[q] = map[q]
         /\ Known' = Known
         /\ todo' = todo \ {p}
         /\ UNCHANGED <<table, clock, pc, faults, round>>
<1>1. map[p] \in Entry
  BY Members
<1>2. CASE Schedule(p)
  <2>1. map' = [map EXCEPT ![p] = [map[p] EXCEPT !.sys = "DONE"]]
    BY <1>2 DEF Schedule, Mark
  <2>2. map'[p] = [map[p] EXCEPT !.sys = "DONE"]
    BY <2>1 DEF TypeOK
  <2>3. map'[p] \in Entry
    BY <1>1, <2>2 DEF Entry
  <2>4. \A q \in Projects : q # p => map'[q] = map[q]
    BY <2>1 DEF TypeOK
  <2>5. Known' = Known
    BY <2>3, <2>4, Consts DEF Known
  <2> QED
    BY <1>1, <1>2, <2>2, <2>3, <2>4, <2>5 DEF Schedule, Mark, Entry
<1>3. CASE Unschedule(p)
  <2> DEFINE e == [map[p] EXCEPT !.status = "DELETE", !.sys = "DONE"]
  <2>1. map' = [map EXCEPT ![p] = e] /\ map[p].sys = "DELETE"
    BY <1>3 DEF Unschedule, Mark
  <2>2. map'[p] = e
    BY <2>1 DEF TypeOK
  <2>3. /\ e \in Entry /\ e.sys = "DONE" /\ e.status = "DELETE"
        /\ e.crontab = map[p].crontab /\ e.updatetime = map[p].updatetime
    BY <1>1 DEF Entry
  <2>4. \A q \in Projects : q # p => map'[q] = map[q]
    BY <2>1 DEF TypeOK
  <2>5. Known' = Known
    BY <2>2, <2>3, <2>4, Consts DEF Known
  <2>6. ~Schedule(p)
    BY <2>1 DEF Schedule
  <2> QED
    BY <1>3, <2>2, <2>3, <2>4, <2>5, <2>6 DEF Unschedule, Mark
<1> QED
  BY <1>2, <1>3

-----------------------------------------------------------------------------
(* Typing *)

\* The jobs of any entry are jobs Quartz can have.
LEMMA JobTyped ==
  ASSUME NEW s, NEW c
  PROVE  JobOf(s, c) \in {"none"} \cup Schedulable
BY DEF JobOf

\* The first state is well typed.
LEMMA TypeInit == Init => TypeOK
BY Consts DEF Init, TypeOK

\* Every step keeps the types and what the loop has to visit.
LEMMA TypeStep == TypeOK /\ LoopInv /\ [Next]_vars => TypeOK' /\ LoopInv'
<1> SUFFICES ASSUME TypeOK, LoopInv, [Next]_vars PROVE TypeOK' /\ LoopInv'
  OBVIOUS
<1> USE Consts
<1>1. CASE Scan
  <2>1. PICK seen \in {Rows, {}} :
          /\ \A p \in Projects :
               /\ p \notin seen => Forgotten(p, map'[p]) \/ Missing(p, map'[p])
               /\ p \in seen => Copy(p, map'[p]) \/ Settles(p, map'[p])
          /\ Known' = todo' /\ todo' \subseteq Projects
    BY <1>1, ScanSees
  <2>2. \A p \in Projects : map'[p] \in Entry \cup {NoRow}
    BY <2>1 DEF Forgotten, Missing, Copy, Settles
  <2>3. map' \in [Projects -> Entry \cup {NoRow}]
    BY <1>1, <2>2 DEF Scan
  <2> QED
    BY <1>1, <2>1, <2>3 DEF Scan, Fault, Stale, TypeOK, LoopInv
<1>2. CASE ScanThrows
  <2>1. \A p \in Projects : map'[p] \in Entry \cup {NoRow}
    BY <1>2, ThrowsMarks DEF Forgotten, Missing
  <2>2. map' \in [Projects -> Entry \cup {NoRow}]
    BY <1>2, <2>1 DEF ScanThrows
  <2> QED
    BY <1>2, <2>2, ThrowsMarks DEF ScanThrows, TypeOK, LoopInv
<1>3. ASSUME NEW p \in Projects, Schedule(p) \/ Unschedule(p)
      PROVE  TypeOK' /\ LoopInv'
  <2>1. p \in Known /\ pc = "loop"
    BY <1>3 DEF Schedule, Unschedule, Visit, LoopInv
  <2>2. /\ map'[p] \in Entry /\ \A q \in Projects : q # p => map'[q] = map[q]
        /\ Known' = Known /\ todo' = todo \ {p}
        /\ UNCHANGED <<table, clock, pc, faults, round>>
    BY <1>3, <2>1, VisitMarks
  <2>3. \E e : map' = [map EXCEPT ![p] = e]
    BY <1>3 DEF Schedule, Unschedule, Mark
  <2>4. map' \in [Projects -> Entry \cup {NoRow}]
    BY <2>2, <2>3 DEF TypeOK
  <2>5. jobs' \in [Projects -> {"none"} \cup Schedulable]
    BY <1>3, JobTyped DEF Schedule, Unschedule, Unscheduled, TypeOK
  <2> QED
    BY <2>1, <2>2, <2>4, <2>5 DEF TypeOK, LoopInv
<1>4. ASSUME NEW p \in Projects, Skip(p) PROVE TypeOK' /\ LoopInv'
  BY <1>4 DEF Skip, Visit, TypeOK, LoopInv, Known
<1>5. ASSUME NEW p \in Projects, Abort(p) PROVE TypeOK' /\ LoopInv'
  BY <1>5 DEF Abort, Unscheduled, TypeOK, LoopInv, Known
<1>6. CASE RoundDone
  BY <1>6 DEF RoundDone, TypeOK, LoopInv, Known
<1>7. ASSUME NEW p \in Projects, FireOnce(p) PROVE TypeOK' /\ LoopInv'
  BY <1>7 DEF FireOnce, TypeOK, LoopInv, Known
<1>8. ASSUME NEW p \in Projects, NEW row \in Row \cup {NoRow}, Edit(p, row)
      PROVE  TypeOK' /\ LoopInv'
  BY <1>8 DEF Edit, Stale, TypeOK, LoopInv, Known
<1>9. ASSUME NEW p \in Projects, Write(p) PROVE TypeOK' /\ LoopInv'
  <2>1. PICK s \in Statuses, c \in Crons, d \in Delays :
          Edit(p, [status |-> s, crontab |-> c, delay |-> d,
                   updatetime |-> clock])
    BY <1>9 DEF Write
  <2>2. [status |-> s, crontab |-> c, delay |-> d, updatetime |-> clock] \in Row
    BY DEF Row, TypeOK
  <2> QED
    BY <1>8, <2>1, <2>2
<1>10. ASSUME NEW p \in Projects, Remove(p) PROVE TypeOK' /\ LoopInv'
  BY <1>8, <1>10 DEF Remove
<1>11. CASE Tick
  BY <1>11 DEF Tick, TypeOK, LoopInv, Known
<1>12. CASE Crash
  BY <1>12 DEF Crash, Fault, TypeOK, LoopInv
<1>13. CASE UNCHANGED vars
  BY <1>13 DEF vars, TypeOK, LoopInv, Known
<1> QED
  BY <1>1, <1>2, <1>3, <1>4, <1>5, <1>6, <1>7, <1>9, <1>10, <1>11, <1>12,
    <1>13 DEF Next, Execute

\* ProjectTrigger never leaves its types.
THEOREM TypeCorrect == Spec => []TypeOK
<1>1. Init => LoopInv
  BY DEF Init, LoopInv
<1> QED
  BY <1>1, TypeInit, TypeStep, PTL DEF Spec

-----------------------------------------------------------------------------
(* No job without an entry *)

\* Every step keeps an entry for every job.
LEMMA OrphanStep ==
  TypeOK /\ LoopInv /\ NoOrphanJob /\ [Next]_vars => NoOrphanJob'
<1> SUFFICES ASSUME TypeOK, LoopInv, NoOrphanJob, [Next]_vars
             PROVE  NoOrphanJob'
  OBVIOUS
<1>1. CASE Scan
  <2>1. \A p \in Projects : p \in Known => p \in Known'
    BY <1>1, ScanSees, Consts DEF Known, Forgotten, Missing, Copy, Settles
  <2> QED
    BY <1>1, <2>1 DEF Scan, NoOrphanJob
<1>2. CASE ScanThrows
  BY <1>2, ThrowsMarks DEF ScanThrows, NoOrphanJob
<1>3. ASSUME NEW p \in Projects, Schedule(p) \/ Unschedule(p)
      PROVE  NoOrphanJob'
  <2>1. p \in Known
    BY <1>3 DEF Schedule, Unschedule, Visit, LoopInv
  <2>2. Known' = Known
    BY <1>3, <2>1, VisitMarks
  <2>3. \A q \in Projects : q # p => jobs'[q] = jobs[q]
    BY <1>3 DEF Schedule, Unschedule, Unscheduled, TypeOK
  <2> QED
    BY <2>1, <2>2, <2>3 DEF NoOrphanJob
<1>4. ASSUME NEW p \in Projects, Abort(p) \/ FireOnce(p) PROVE NoOrphanJob'
  <2>1. UNCHANGED map /\ \A q \in Projects : jobs'[q] \in {jobs[q], "none"}
    BY <1>4 DEF Abort, FireOnce, Unscheduled, TypeOK
  <2> QED
    BY <2>1 DEF NoOrphanJob, Known
<1>5. CASE Crash
  BY <1>5 DEF Crash, NoOrphanJob
<1>6. ASSUME UNCHANGED <<map, jobs>> PROVE NoOrphanJob'
  BY <1>6 DEF NoOrphanJob, Known
<1>7. ASSUME \/ \E p \in Projects : Skip(p) \/ Write(p) \/ Remove(p)
             \/ RoundDone \/ Tick \/ UNCHANGED vars
      PROVE  NoOrphanJob'
  BY <1>6, <1>7 DEF Skip, Write, Remove, Edit, RoundDone, Tick, vars
<1> QED
  BY <1>1, <1>2, <1>3, <1>4, <1>5, <1>7 DEF Next, Execute

\* Whatever fails, and however often a row is edited, every job is known to
\* the scanner.
THEOREM NoOrphan == Spec => []NoOrphanJob
<1>1. Init => LoopInv /\ NoOrphanJob
  BY DEF Init, LoopInv, NoOrphanJob
<1> QED
  BY <1>1, TypeInit, TypeStep, OrphanStep, PTL DEF Spec

-----------------------------------------------------------------------------
(* Entries and rows *)

\* The part of the invariant about entries, without the jobs.
EntryInv == ClockInv /\ SameInv

\* Entries of the same content keep their relation to unchanged rows.
LEMMA EntriesKept ==
  ASSUME TypeOK, EntryInv, UNCHANGED <<table, clock>>,
         \A p \in Projects : p \in Known' =>
           \/ /\ p \in Known
              /\ map'[p].crontab = map[p].crontab
              /\ map'[p].updatetime = map[p].updatetime
              /\ map'[p].status \in {map[p].status, "DELETE"}
           \/ p \in Rows /\ Alike(map'[p], table[p])
  PROVE  EntryInv'
<1>1. Rows' = Rows
  BY DEF Rows
<1>2. ASSUME NEW p \in Projects, p \in Known',
             p \in Rows, Alike(map'[p], table[p])
      PROVE  /\ map'[p].updatetime = table'[p].updatetime
             /\ map'[p].updatetime <= table'[p].updatetime
             /\ map'[p].crontab = table'[p].crontab
             /\ map'[p].status = table'[p].status
  BY <1>2, Members DEF Alike
<1>3. ClockInv'
  BY <1>1, <1>2 DEF EntryInv, ClockInv
<1>4. SameInv'
  BY <1>1, <1>2 DEF EntryInv, SameInv, Current
<1> QED
  BY <1>3, <1>4 DEF EntryInv

\* The rows a scan compares keep their entries, the others are copied.
LEMMA EntryStep ==
  ASSUME SameSecond = FALSE, TypeOK, LoopInv, EntryInv, [Next]_vars
  PROVE  EntryInv'
<1>1. CASE Scan
  <2>1. \A p \in Projects : \/ Forgotten(p, map'[p]) \/ Missing(p, map'[p])
                            \/ Copy(p, map'[p]) \/ Settles(p, map'[p])
    BY <1>1, ScanSees
  <2> QED
    BY <1>1, <2>1, EntriesKept DEF Scan, Known, Forgotten, Missing, Copy,
      Settles, Alike
<1>2. CASE ScanThrows
  BY <1>2, ThrowsMarks, EntriesKept DEF ScanThrows, Known, Forgotten, Missing,
    Alike
<1>3. ASSUME NEW p \in Projects, Schedule(p) \/ Unschedule(p)
      PROVE  EntryInv'
  <2>1. p \in Known
    BY <1>3 DEF Schedule, Unschedule, Visit, LoopInv
  <2> QED
    BY <1>3, <2>1, VisitMarks, EntriesKept
<1>4. ASSUME NEW p \in Projects, NEW row \in Row \cup {NoRow},
             row # NoRow => row.updatetime = clock,
             Edit(p, row)
      PROVE  EntryInv'
  <2>1. /\ UNCHANGED <<map, clock>> /\ table' = [table EXCEPT ![p] = row]
        /\ p \in Rows => table[p].updatetime < clock
    BY <1>4 DEF Edit, Rows
  <2>2. /\ table'[p] = row
        /\ \A q \in Projects : q # p =>
             table'[q] = table[q] /\ (q \in Rows' <=> q \in Rows)
        /\ Known' = Known
    BY <2>1 DEF TypeOK, Rows, Known
  <2>3. /\ p \in Known => map[p].updatetime < clock
        /\ clock \in Nat /\ clock <= clock
        /\ p \in Known => map[p].updatetime \in Nat
        /\ p \in Rows => table[p].updatetime \in Nat
    <3>1. clock \in Nat /\ clock <= clock
      BY Consts DEF TypeOK
    <3>2. p \in Known => map[p].updatetime \in Nat
      BY Members, Consts
    <3>3. p \in Rows => table[p].updatetime \in Nat
      BY Members, Consts
    <3> QED
      BY <2>1, <3>1, <3>2, <3>3 DEF EntryInv, ClockInv
  <2>4. CASE row = NoRow
    <3>1. p \notin Rows'
      BY <2>2, <2>4 DEF Rows
    <3> QED
      BY <2>1, <2>2, <2>3, <3>1 DEF EntryInv, ClockInv, SameInv, Current
  <2>5. CASE row # NoRow
    <3>1. p \in Rows' /\ table'[p].updatetime = clock
      BY <1>4, <2>2, <2>5 DEF Rows
    <3>2. ~Current(p)'
      BY <2>1, <2>2, <2>3, <3>1 DEF Current
    <3> QED
      BY <2>1, <2>2, <2>3, <3>1, <3>2 DEF EntryInv, ClockInv, SameInv, Current
  <2> QED
    BY <2>4, <2>5
<1>5. ASSUME NEW p \in Projects, Write(p) PROVE EntryInv'
  <2>1. PICK s \in Statuses, c \in Crons, d \in Delays :
          Edit(p, [status |-> s, crontab |-> c, delay |-> d,
                   updatetime |-> clock])
    BY <1>5 DEF Write
  <2>2. [status |-> s, crontab |-> c, delay |-> d, updatetime |-> clock] \in Row
    BY DEF Row, TypeOK
  <2> QED
    BY <1>4, <2>1, <2>2, Consts
<1>6. ASSUME NEW p \in Projects, Remove(p) PROVE EntryInv'
  <2>1. Edit(p, NoRow)
    BY <1>6 DEF Remove
  <2> QED
    BY <1>4, <2>1
<1>7. CASE Tick
  <2>1. /\ clock' = clock + 1 /\ UNCHANGED <<table, map>>
        /\ clock \in Nat
    BY <1>7, Consts DEF Tick, TypeOK
  <2>2. \A p \in Projects :
          /\ p \in Known => map[p].updatetime \in Nat
          /\ p \in Rows => table[p].updatetime \in Nat
    BY Members, Consts
  <2> QED
    BY <2>1, <2>2 DEF EntryInv, ClockInv, SameInv, Current, Rows, Known
<1>8. CASE Crash
  <2>1. Known' = {} /\ UNCHANGED <<table, clock>>
    BY <1>8 DEF Crash, Known
  <2> QED
    BY <2>1, EntriesKept
<1>9. ASSUME UNCHANGED <<map, table, clock>> PROVE EntryInv'
  BY <1>9, EntriesKept DEF Known
<1>10. ASSUME \/ \E p \in Projects : Skip(p) \/ Abort(p) \/ FireOnce(p)
              \/ RoundDone \/ UNCHANGED vars
       PROVE  EntryInv'
  BY <1>9, <1>10 DEF Skip, Abort, FireOnce, RoundDone, vars
<1> QED
  BY <1>1, <1>2, <1>3, <1>5, <1>6, <1>7, <1>8, <1>10 DEF Next, Execute

-----------------------------------------------------------------------------
(* Jobs and entries *)

LoopHyp == TypeOK /\ TypeOK' /\ LoopInv /\ EntryInv /\ JobInv /\ RoundInv

\* A step that leaves jobs and entries alone, but for marks on entries outside
\* the loop.
LEMMA JobsKept ==
  ASSUME JobInv, jobs' = jobs, todo' = todo,
         round' # "aborted" => round # "aborted",
         \A p \in Known' : /\ p \in Known
                           /\ map'[p].status = map[p].status
                           /\ map'[p].crontab = map[p].crontab
                           /\ map'[p].sys = map[p].sys \/ p \notin todo
  PROVE  JobInv'
BY DEF JobInv, Due, EntryJob

\* A scan copies entries that will be visited, and marks the others.
LEMMA JobScan ==
  ASSUME LoopHyp, NoOrphanJob, Scan
  PROVE  JobInv'
<1> SUFFICES ASSUME round' # "aborted", NEW p \in Known'
             PROVE  (jobs[p] \in {"none", EntryJob(p)'} \/ Due(p)')
  BY DEF JobInv, Scan
<1>1. p \in Projects /\ todo = {} /\ round # "aborted"
  BY DEF LoopHyp, LoopInv, Scan, Stale, Known
<1>2. p \in todo' /\ \/ Missing(p, map'[p]) \/ Copy(p, map'[p])
                     \/ Settles(p, map'[p])
  BY <1>1, ScanSees, Consts DEF LoopHyp, Known, Forgotten
<1>3. CASE Missing(p, map'[p]) \/ Copy(p, map'[p])
  BY <1>2, <1>3 DEF Missing, Copy, Due
<1>4. CASE Settles(p, map'[p])
  <2>1. p \in Known /\ EntryJob(p)' = EntryJob(p)
    BY <1>4 DEF Settles, Alike, EntryJob
  <2> QED
    BY <1>1, <2>1 DEF LoopHyp, JobInv, Due
<1> QED
  BY <1>2, <1>3, <1>4

\* The visit of an entry gives the project the job the entry asks for.
LEMMA JobVisit ==
  ASSUME LoopHyp, NEW p \in Projects, Schedule(p) \/ Unschedule(p)
  PROVE  /\ p \in Known /\ jobs'[p] = EntryJob(p)'
         /\ \A q \in Projects : q # p => jobs'[q] = jobs[q]
<1>1. p \in Known
  BY DEF Schedule, Unschedule, Visit, LoopHyp, LoopInv
<1>2. CASE Schedule(p)
  <2>1. map'[p].status = map[p].status /\ map'[p].crontab = map[p].crontab
    BY <1>1, <1>2, VisitMarks DEF LoopHyp
  <2> QED
    BY <1>1, <1>2, <2>1 DEF Schedule, EntryJob, LoopHyp, TypeOK
<1>3. CASE Unschedule(p)
  <2>1. ~Schedule(p)
    BY <1>3 DEF Schedule, Unschedule
  <2>2. map'[p].status = "DELETE"
    BY <1>1, <1>3, <2>1, VisitMarks DEF LoopHyp
  <2> QED
    BY <1>1, <1>3, <2>2 DEF Unschedule, Unscheduled, EntryJob, JobOf, LoopHyp,
      TypeOK
<1> QED
  BY <1>2, <1>3

\* Every step keeps jobs and entries together until a round is aborted.
LEMMA JobStep ==
  ASSUME LoopHyp, NoOrphanJob, [Next]_vars
  PROVE  JobInv'
<1>1. CASE Scan
  BY <1>1, JobScan
<1>2. CASE ScanThrows
  <2>1. todo = {} /\ UNCHANGED <<jobs, todo, round>>
    BY <1>2 DEF ScanThrows, LoopHyp, LoopInv
  <2>2. \A p \in Known' : p \in Known /\ Alike(map'[p], map[p])
    BY <1>2, ThrowsMarks DEF LoopHyp, Known, Forgotten, Missing
  <2> QED
    BY <2>1, <2>2, JobsKept DEF LoopHyp, Alike
<1>3. ASSUME NEW p \in Projects, Schedule(p) \/ Unschedule(p)
      PROVE  JobInv'
  <2>1. /\ p \in Known /\ jobs'[p] = EntryJob(p)'
        /\ \A q \in Projects : q # p => jobs'[q] = jobs[q]
    BY <1>3, JobVisit
  <2>2. /\ Known' = Known /\ round' = round /\ todo' = todo \ {p}
        /\ \A q \in Projects : q # p => map'[q] = map[q]
    BY <1>3, <2>1, VisitMarks DEF LoopHyp
  <2> QED
    BY <2>1, <2>2 DEF LoopHyp, JobInv, Due, EntryJob, Known
<1>4. ASSUME NEW p \in Projects, Skip(p) PROVE JobInv'
  <2>1. /\ map[p].sys = "DONE" /\ todo' = todo \ {p}
        /\ UNCHANGED <<map, jobs, round>>
    BY <1>4 DEF Skip
  <2> QED
    BY <2>1 DEF LoopHyp, JobInv, Due, EntryJob, Known
<1>5. ASSUME NEW p \in Projects, FireOnce(p) PROVE JobInv'
  <2>1. /\ \A q \in Projects : jobs'[q] \in {jobs[q], "none"}
        /\ UNCHANGED <<map, todo, round>>
    BY <1>5 DEF FireOnce, LoopHyp, TypeOK
  <2> QED
    BY <2>1 DEF LoopHyp, JobInv, Due, EntryJob, Known
<1>6. ASSUME NEW p \in Projects, Abort(p) PROVE JobInv'
  BY <1>6 DEF Abort, JobInv
<1>7. CASE Crash
  BY <1>7 DEF Crash, JobInv, Known
<1>8. ASSUME UNCHANGED <<map, jobs, todo>>,
             round' # "aborted" => round # "aborted"
      PROVE  JobInv'
  BY <1>8, JobsKept DEF Known, LoopHyp
<1>9. ASSUME \/ \E p \in Projects : Write(p) \/ Remove(p)
             \/ RoundDone \/ Tick \/ UNCHANGED vars
      PROVE  JobInv'
  BY <1>8, <1>9 DEF Write, Remove, Edit, Stale, RoundDone, Tick, vars
<1> QED
  BY <1>1, <1>2, <1>3, <1>4, <1>5, <1>6, <1>7, <1>9 DEF Next, Execute

\* After a scan without failure each row has its copy in the map, and stays
\* with it until the next edit.
LEMMA RoundStep ==
  ASSUME LoopHyp, [Next]_vars
  PROVE  RoundInv'
<1>1. CASE Scan
  <2> SUFFICES ASSUME round' \in {"scanned", "synced"}, NEW p \in Projects
               PROVE  IF p \in Rows' THEN Current(p)'
                      ELSE \/ p \notin Known'
                           \/ p \notin todo' /\ jobs'[p] = "none"
                           \/ p \in todo' /\ map'[p].sys = "DELETE"
    BY DEF RoundInv
  <2>1. /\ p \notin Rows => Forgotten(p, map'[p]) \/ Missing(p, map'[p])
        /\ p \in Rows => Copy(p, map'[p]) \/ Settles(p, map'[p])
        /\ p \in todo' <=> p \in Known'
    BY <1>1, ScanSees DEF LoopHyp, Stale
  <2>2. table' = table /\ Rows' = Rows
    BY <1>1 DEF Scan, Rows
  <2>3. CASE p \notin Rows
    BY <2>1, <2>2, <2>3 DEF Forgotten, Missing, Known
  <2>4. CASE p \in Rows /\ Copy(p, map'[p])
    BY <2>2, <2>4, Consts DEF Copy, Alike, Current, Known
  <2>5. CASE p \in Rows /\ Settles(p, map'[p])
    <3>1. map[p].updatetime = table[p].updatetime
      BY <2>5, Members, Consts DEF Settles, Newer, LoopHyp, EntryInv, ClockInv
    <3> QED
      BY <2>2, <2>5, <3>1, Consts DEF Settles, Alike, Current, Known
  <2> QED
    BY <2>1, <2>3, <2>4, <2>5
<1>2. CASE ScanThrows
  <2>1. todo = {} /\ UNCHANGED <<table, jobs, todo, round>> /\ Rows' = Rows
    BY <1>2 DEF ScanThrows, LoopHyp, LoopInv, Rows
  <2>2. /\ Known' = Known
        /\ \A p \in Known : map'[p].updatetime = map[p].updatetime
    BY <1>2, ThrowsMarks DEF LoopHyp, Known, Forgotten, Missing, Alike
  <2> QED
    BY <2>1, <2>2 DEF LoopHyp, RoundInv, Current
<1>3. ASSUME NEW p \in Projects, Schedule(p) \/ Unschedule(p)
      PROVE  RoundInv'
  <2>1. /\ p \in Known
        /\ \A q \in Projects : q # p => jobs'[q] = jobs[q]
    BY <1>3, JobVisit
  <2>2. /\ Known' = Known /\ Rows' = Rows /\ todo' = todo \ {p}
        /\ \A q \in Projects : q # p => map'[q] = map[q]
        /\ map'[p].updatetime = map[p].updatetime
        /\ UNCHANGED <<table, round>>
    BY <1>3, <2>1, VisitMarks DEF LoopHyp, Rows
  <2>3. p \in todo /\ map[p].sys = "DELETE" => jobs'[p] = "none"
    BY <1>3 DEF Schedule, Unschedule, Unscheduled, LoopHyp, TypeOK
  <2>4. p \in todo
    BY <1>3 DEF Schedule, Unschedule, Visit
  <2>5. \A q \in Projects : Current(q)' <=> Current(q)
    BY <2>2 DEF Current
  <2> QED
    BY <2>1, <2>2, <2>3, <2>4, <2>5 DEF LoopHyp, RoundInv
<1>4. ASSUME NEW p \in Projects, Skip(p) PROVE RoundInv'
  <2>1. /\ map[p].sys = "DONE" /\ p \in todo /\ todo' = todo \ {p}
        /\ UNCHANGED <<table, map, jobs, round>>
    BY <1>4 DEF Skip, Visit
  <2> QED
    BY <2>1 DEF LoopHyp, RoundInv, Current, Rows, Known
<1>5. ASSUME NEW p \in Projects, FireOnce(p) PROVE RoundInv'
  <2>1. /\ \A q \in Projects : jobs'[q] \in {jobs[q], "none"}
        /\ UNCHANGED <<table, map, todo, round>>
    BY <1>5 DEF FireOnce, LoopHyp, TypeOK
  <2> QED
    BY <2>1 DEF LoopHyp, RoundInv, Current, Rows, Known
<1>6. ASSUME round' \notin {"scanned", "synced"} PROVE RoundInv'
  BY <1>6 DEF RoundInv
<1>7. ASSUME \/ \E p \in Projects : Write(p) \/ Remove(p) \/ Abort(p)
             \/ Crash
      PROVE  RoundInv'
  BY <1>6, <1>7 DEF Write, Remove, Edit, Stale, Abort, Crash
<1>8. ASSUME UNCHANGED <<table, map, jobs, todo>>,
             round' \in {"scanned", "synced"} => round \in {"scanned", "synced"}
      PROVE  RoundInv'
  BY <1>8 DEF LoopHyp, RoundInv, Current, Rows, Known
<1>9. CASE RoundDone \/ Tick \/ UNCHANGED vars
  BY <1>8, <1>9 DEF RoundDone, Tick, vars
<1> QED
  BY <1>1, <1>2, <1>3, <1>4, <1>5, <1>7, <1>9 DEF Next, Execute

\* The first state has neither rows nor entries.
LEMMA SyncInit == Init => LoopInv /\ EntryInv /\ JobInv /\ RoundInv /\ NoOrphanJob
BY DEF Init, LoopInv, EntryInv, ClockInv, SameInv, Current, JobInv, RoundInv,
  NoOrphanJob, Known, Rows

\* The invariant that holds however queries fail and processes die.
LEMMA SyncAlways ==
  ASSUME SameSecond = FALSE
  PROVE  Spec => [](SyncInv /\ NoOrphanJob)
<1>1. TypeOK /\ LoopInv /\ EntryInv /\ [Next]_vars => EntryInv'
  BY EntryStep
<1>2. /\ TypeOK /\ TypeOK' /\ LoopInv /\ EntryInv /\ JobInv /\ RoundInv
      /\ NoOrphanJob /\ [Next]_vars
      => JobInv' /\ RoundInv'
  BY JobStep, RoundStep DEF LoopHyp
<1>3. Spec => [](/\ TypeOK /\ LoopInv /\ EntryInv /\ JobInv /\ RoundInv
                 /\ NoOrphanJob)
  BY <1>1, <1>2, TypeInit, SyncInit, TypeStep, OrphanStep, PTL DEF Spec
<1>4. /\ TypeOK /\ LoopInv /\ EntryInv /\ JobInv /\ RoundInv /\ NoOrphanJob
      => SyncInv /\ NoOrphanJob
  BY DEF SyncInv, EntryInv
<1> QED
  BY <1>3, <1>4, PTL

\* As long as no row is edited twice within a second, and whatever fails: once
\* a round without failure has ended, no project has a job that its row does
\* not ask for.
THEOREM NothingUnwanted ==
  ASSUME SameSecond = FALSE
  PROVE  Spec => []NoUnwantedJob
<1>1. SyncInv /\ NoOrphanJob => NoUnwantedJob
  <2> SUFFICES ASSUME SyncInv, NoOrphanJob, Quiet, NEW p \in Projects
               PROVE  jobs[p] \in {"none", Wanted(p)}
    BY DEF NoUnwantedJob
  <2>1. todo = {} /\ round = "synced"
    BY DEF Quiet, SyncInv, LoopInv
  <2>2. p \in Known => jobs[p] \in {"none", EntryJob(p)}
    BY <2>1 DEF SyncInv, JobInv, Due
  <2>3. CASE p \in Rows
    <3>1. Current(p)
      BY <2>1, <2>3 DEF SyncInv, RoundInv
    <3>2. EntryJob(p) \in {"none", Wanted(p)}
      BY <2>3, <3>1 DEF SyncInv, SameInv, EntryJob, Wanted, JobOf
    <3> QED
      BY <2>2, <3>1, <3>2 DEF Current
  <2>4. CASE p \notin Rows
    <3>1. jobs[p] = "none"
      BY <2>1, <2>4 DEF SyncInv, RoundInv, NoOrphanJob
    <3> QED
      BY <3>1
  <2> QED
    BY <2>3, <2>4
<1>2. Spec => [](SyncInv /\ NoOrphanJob)
  BY SyncAlways
<1> QED
  BY <1>1, <1>2, PTL

-----------------------------------------------------------------------------
(* Without failures *)

\* An edit leaves the entry older than the row.
LEMMA EditedOlder ==
  ASSUME SameSecond = FALSE, TypeOK, EntryInv, NEW p \in Projects,
         Write(p) \/ Remove(p)
  PROVE  /\ ~Current(p)'
         /\ \A q \in Projects : q # p => table'[q] = table[q]
         /\ UNCHANGED <<map, jobs, pc, todo, faults>>
         /\ round' = "aborted" <=> round = "aborted"
<1>1. PICK row : /\ Edit(p, row)
                 /\ row = NoRow \/ row.updatetime = clock
  <2>1. CASE Remove(p)
    BY <2>1 DEF Remove
  <2>2. CASE Write(p)
    <3>1. PICK s \in Statuses, c \in Crons, d \in Delays :
            Edit(p, [status |-> s, crontab |-> c, delay |-> d,
                     updatetime |-> clock])
      BY <2>2 DEF Write
    <3> QED
      BY <3>1
  <2> QED
    BY <2>1, <2>2
<1>2. /\ UNCHANGED <<map, clock, jobs, pc, todo, faults>>
      /\ table' = [table EXCEPT ![p] = row]
      /\ p \in Rows => table[p].updatetime < clock
      /\ round' = Stale
  BY <1>1 DEF Edit, Rows
<1>3. table'[p] = row /\ \A q \in Projects : q # p => table'[q] = table[q]
  BY <1>2 DEF TypeOK
<1>4. p \in Known => map[p].updatetime < clock
  <2>1. clock \in Nat
    BY Consts DEF TypeOK
  <2>2. p \in Known => map[p].updatetime \in Nat
    BY Members, Consts
  <2>3. p \in Rows => table[p].updatetime \in Nat
    BY Members, Consts
  <2> QED
    BY <1>2, <2>1, <2>2, <2>3 DEF EntryInv, ClockInv
<1>5. p \in Known' => p \in Known /\ map'[p] = map[p]
  BY <1>2 DEF Known
<1>6. p \in Rows' => row # NoRow
  BY <1>3 DEF Rows
<1>7. p \in Known => map[p].updatetime # clock
  <2>1. clock \in Nat /\ (p \in Known => map[p].updatetime \in Nat)
    BY Members, Consts DEF TypeOK
  <2> QED
    BY <1>4, <2>1
<1>8. ~Current(p)'
  BY <1>1, <1>3, <1>5, <1>6, <1>7 DEF Current
<1> QED
  BY <1>2, <1>3, <1>8 DEF Stale

\* Without failures a scan sees every row.
LEMMA ScanSeesAll ==
  ASSUME MaxFaults = 0, TypeOK, Scan
  PROVE  /\ \A p \in Projects :
              /\ p \notin Rows => Forgotten(p, map'[p]) \/ Missing(p, map'[p])
              /\ p \in Rows => Copy(p, map'[p]) \/ Settles(p, map'[p])
         /\ Known' = todo' /\ Rows' = Rows
<1>1. ~(faults < MaxFaults)
  BY DEF TypeOK
<1> QED
  BY <1>1, ScanSees DEF Scan, Rows

\* No step drops the entry of a row that is there.
LEMMA KeptStep ==
  ASSUME MaxFaults = 0, SameSecond = FALSE, TypeOK, LoopInv, EntryInv, KeptInv,
         [Next]_vars
  PROVE  KeptInv'
<1>1. CASE Scan
  <2> SUFFICES ASSUME NEW p \in Projects, Current(p)'
               PROVE  /\ map'[p].status = table'[p].status
                      /\ map'[p].sys # "DELETE"
    BY DEF KeptInv
  <2>1. table' = table /\ p \in Rows /\ p \in Known'
    BY <1>1, ScanSeesAll DEF Scan, Current
  <2>2. CASE Copy(p, map'[p])
    BY <2>1, <2>2 DEF Copy, Alike
  <2>3. CASE Settles(p, map'[p])
    <3>1. Current(p)
      BY <2>1, <2>3 DEF Current, Settles, Alike
    <3> QED
      BY <2>1, <2>3, <3>1 DEF KeptInv, Settles, Alike
  <2> QED
    BY <1>1, <2>1, <2>2, <2>3, ScanSeesAll
<1>2. CASE ScanThrows
  <2>1. todo' = {} /\ UNCHANGED table
    BY <1>2 DEF ScanThrows, LoopInv
  <2>2. \A p \in Known' : p \in Known /\ Alike(map'[p], map[p])
    BY <1>2, ThrowsMarks DEF Known, Forgotten, Missing
  <2> QED
    BY <2>1, <2>2 DEF KeptInv, Current, Rows, Alike
<1>3. ASSUME NEW p \in Projects, Schedule(p) \/ Unschedule(p)
      PROVE  KeptInv'
  <2>1. p \in Known /\ p \in todo
    BY <1>3 DEF Schedule, Unschedule, Visit, LoopInv
  <2>2. /\ Known' = Known /\ Rows' = Rows /\ todo' = todo \ {p}
        /\ \A q \in Projects : q # p => map'[q] = map[q]
        /\ map'[p].updatetime = map[p].updatetime
        /\ Schedule(p) => map'[p].status = map[p].status
        /\ UNCHANGED table
    BY <1>3, <2>1, VisitMarks DEF Rows
  <2>3. \A q \in Projects : Current(q)' <=> Current(q)
    BY <2>2 DEF Current
  <2>4. Unschedule(p) => ~Current(p)
    BY <2>1 DEF Unschedule, KeptInv
  <2> QED
    BY <1>3, <2>2, <2>3, <2>4 DEF KeptInv
<1>4. ASSUME NEW p \in Projects, Write(p) \/ Remove(p) PROVE KeptInv'
  <2>1. /\ ~Current(p)'
        /\ \A q \in Projects : q # p => table'[q] = table[q]
        /\ UNCHANGED <<map, todo>>
    BY <1>4, EditedOlder
  <2>2. ASSUME NEW q \in Projects, q # p, Current(q)' PROVE Current(q)
    BY <2>1, <2>2 DEF Current, Rows, Known
  <2> QED
    BY <2>1, <2>2 DEF KeptInv
<1>5. ASSUME UNCHANGED <<table, map>>, todo' \subseteq todo PROVE KeptInv'
  BY <1>5 DEF KeptInv, Current, Rows, Known
<1>6. ASSUME \/ \E p \in Projects : Skip(p) \/ FireOnce(p) \/ Abort(p)
             \/ RoundDone \/ Tick \/ UNCHANGED vars
      PROVE  KeptInv'
  BY <1>5, <1>6 DEF Skip, FireOnce, Abort, RoundDone, Tick, vars
<1>7. ~Crash
  BY DEF Crash, Fault, TypeOK
<1> QED
  BY <1>1, <1>2, <1>3, <1>4, <1>6, <1>7 DEF Next, Execute

\* No step but an aborted round takes away a job that has not fired.
LEMMA MatchStep ==
  ASSUME MaxFaults = 0, LoopHyp, NoOrphanJob, MatchInv, [Next]_vars
  PROVE  MatchInv'
<1>1. CASE Scan
  <2> SUFFICES ASSUME round' # "aborted", NEW p \in Known'
               PROVE  \/ jobs[p] = EntryJob(p)'
                      \/ EntryJob(p)' = "once" /\ jobs[p] = "none"
                      \/ Due(p)'
    BY <1>1 DEF MatchInv, Scan
  <2>1. p \in Projects /\ todo = {} /\ round # "aborted"
    BY <1>1 DEF LoopHyp, LoopInv, Scan, Stale, Known
  <2>2. p \in todo' /\ \/ Missing(p, map'[p]) \/ Copy(p, map'[p])
                       \/ Settles(p, map'[p])
    BY <1>1, <2>1, ScanSees, Consts DEF LoopHyp, Known, Forgotten
  <2>3. CASE Missing(p, map'[p]) \/ Copy(p, map'[p])
    BY <2>2, <2>3 DEF Missing, Copy, Due
  <2>4. CASE Settles(p, map'[p])
    <3>1. p \in Known /\ EntryJob(p)' = EntryJob(p)
      BY <2>4 DEF Settles, Alike, EntryJob
    <3> QED
      BY <2>1, <3>1 DEF MatchInv, Due
  <2> QED
    BY <2>2, <2>3, <2>4
<1>2. CASE ScanThrows
  <2>1. todo = {} /\ UNCHANGED <<jobs, todo, round>>
    BY <1>2 DEF ScanThrows, LoopHyp, LoopInv
  <2>2. \A p \in Known' : p \in Known /\ Alike(map'[p], map[p])
    BY <1>2, ThrowsMarks DEF LoopHyp, Known, Forgotten, Missing
  <2> QED
    BY <2>1, <2>2 DEF MatchInv, Due, EntryJob, Alike
<1>3. ASSUME NEW p \in Projects, Schedule(p) \/ Unschedule(p)
      PROVE  MatchInv'
  <2>1. /\ p \in Known /\ jobs'[p] = EntryJob(p)'
        /\ \A q \in Projects : q # p => jobs'[q] = jobs[q]
    BY <1>3, JobVisit
  <2>2. /\ Known' = Known /\ round' = round /\ todo' = todo \ {p}
        /\ \A q \in Projects : q # p => map'[q] = map[q]
    BY <1>3, <2>1, VisitMarks DEF LoopHyp
  <2> QED
    BY <2>1, <2>2 DEF MatchInv, Due, EntryJob, Known
<1>4. ASSUME NEW p \in Projects, Skip(p) PROVE MatchInv'
  <2>1. /\ map[p].sys = "DONE" /\ todo' = todo \ {p}
        /\ UNCHANGED <<map, jobs, round>>
    BY <1>4 DEF Skip
  <2> QED
    BY <2>1 DEF MatchInv, Due, EntryJob, Known
<1>5. ASSUME NEW p \in Projects, FireOnce(p) PROVE MatchInv'
  <2>1. /\ jobs[p] = "once" /\ jobs'[p] = "none"
        /\ \A q \in Projects : q # p => jobs'[q] = jobs[q]
        /\ UNCHANGED <<map, todo, round>>
    BY <1>5 DEF FireOnce, LoopHyp, TypeOK
  <2> QED
    BY <2>1 DEF MatchInv, Due, EntryJob, Known
<1>6. ASSUME NEW p \in Projects, Abort(p) PROVE MatchInv'
  BY <1>6 DEF Abort, MatchInv
<1>7. ~Crash
  BY DEF Crash, Fault, LoopHyp, TypeOK
<1>8. ASSUME UNCHANGED <<map, jobs, todo>>,
             round' # "aborted" => round # "aborted"
      PROVE  MatchInv'
  BY <1>8 DEF MatchInv, Due, EntryJob, Known
<1>9. ASSUME \/ \E p \in Projects : Write(p) \/ Remove(p)
             \/ RoundDone \/ Tick \/ UNCHANGED vars
      PROVE  MatchInv'
  BY <1>8, <1>9 DEF Write, Remove, Edit, Stale, RoundDone, Tick, vars
<1> QED
  BY <1>1, <1>2, <1>3, <1>4, <1>5, <1>6, <1>7, <1>9 DEF Next, Execute

\* Without failed queries and restarts, and with one edit per row and second:
\* after a round every project has exactly the job its row asks for, crontabs
\* that do not parse and rows that cannot be read included.
THEOREM FollowsTable ==
  ASSUME MaxFaults = 0, SameSecond = FALSE
  PROVE  Spec => []ScheduleFollowsTable
<1>1. SyncInv /\ NoOrphanJob /\ KeptInv /\ MatchInv => ScheduleFollowsTable
  <2> SUFFICES ASSUME SyncInv, NoOrphanJob, KeptInv, MatchInv, Quiet,
                      NEW p \in Projects
               PROVE  Follows(p)
    BY DEF ScheduleFollowsTable
  <2>1. todo = {} /\ round = "synced"
    BY DEF Quiet, SyncInv, LoopInv
  <2>2. CASE p \in Rows
    <3>1. Current(p)
      BY <2>1, <2>2 DEF SyncInv, RoundInv
    <3>2. EntryJob(p) = Wanted(p)
      BY <2>2, <3>1 DEF SyncInv, SameInv, KeptInv, EntryJob, Wanted
    <3> QED
      BY <2>1, <3>1, <3>2 DEF MatchInv, Current, Due, Follows
  <2>3. CASE p \notin Rows
    <3>1. jobs[p] = "none"
      BY <2>1, <2>3 DEF SyncInv, RoundInv, NoOrphanJob
    <3> QED
      BY <2>3, <3>1 DEF Follows, Wanted
  <2> QED
    BY <2>2, <2>3
<1>2. Spec => [](SyncInv /\ NoOrphanJob)
  BY SyncAlways
<1>3. Init => KeptInv /\ MatchInv
  BY DEF Init, KeptInv, MatchInv, Current, Known
<1>4. SyncInv /\ KeptInv /\ [Next]_vars => KeptInv'
  BY KeptStep DEF SyncInv, EntryInv
<1>5. SyncInv /\ SyncInv' /\ NoOrphanJob /\ MatchInv /\ [Next]_vars => MatchInv'
  BY MatchStep DEF SyncInv, EntryInv, LoopHyp
<1> QED
  BY <1>1, <1>2, <1>3, <1>4, <1>5, PTL DEF Spec
=============================================================================
