---------------------------- MODULE TaskLifecycle ----------------------------
(***************************************************************************)
(* What Zeus promises of a row of taskdb while nothing fails: the statuses *)
(* it goes through, when it may be released, how often it may be retried,  *)
(* and that it is settled in the end.  Nothing is said of caches, queues,  *)
(* clocks or nodes.                                                        *)
(***************************************************************************)
EXTENDS Naturals

CONSTANTS Tasks, Requires, Retry

VARIABLES
  status,    \* task -> status column, "NONE" before the row exists
  runs       \* task -> times its body was started

rowVars == <<status, runs>>

Ok == {"SUCCESS", "PASSED"}
Waiting == {"INIT", "CHECKING"}
GivenUp == {"IGNORED", "STOP", "DELETE"}
Final == Ok \cup GivenUp \cup {"FAIL"}

Init == status = [t \in Tasks |-> "NONE"] /\ runs = [t \in Tasks |-> 0]

Set(t, from, to) ==
  /\ status[t] \in from
  /\ status' = [status EXCEPT ![t] = to]

\* A firing of the project.
Create(t) == Set(t, {"NONE"}, "INIT") /\ UNCHANGED runs

Wait(t) == Set(t, {"INIT"}, "CHECKING") /\ UNCHANGED runs

\* The task is released: all it requires has succeeded, or was passed.
Release(t) ==
  /\ \A u \in Requires[t] : status[u] \in Ok
  /\ Set(t, Waiting, "ACTIVE") /\ UNCHANGED runs

\* The task is given up before it starts.
GiveUp(t) ==
  /\ \E s \in GivenUp : Set(t, {"CHECKING", "ACTIVE"}, s)
  /\ UNCHANGED runs

Accept(t) == Set(t, {"ACTIVE"}, "RUNNING") /\ UNCHANGED runs

Start(t) ==
  /\ status[t] = "RUNNING" /\ runs[t] <= Retry
  /\ runs' = [runs EXCEPT ![t] = @ + 1] /\ UNCHANGED status

\* After a run that failed, as long as the retries last.
TryAgain(t) ==
  /\ runs[t] \in 1..Retry
  /\ Set(t, {"RUNNING"}, "ACTIVE") /\ UNCHANGED runs

\* The last run is over.  FAIL is reported when all retries were used.
Finish(t) ==
  /\ runs[t] > 0
  /\ \/ Set(t, {"RUNNING"}, "SUCCESS")
     \/ runs[t] = Retry + 1 /\ Set(t, {"RUNNING"}, "FAIL")
  /\ UNCHANGED runs

\* A user lets the dependents of a failed task go on.
Pass(t) == Set(t, {"FAIL"}, "PASSED") /\ UNCHANGED runs

Next == \E t \in Tasks :
  \/ Create(t) \/ Wait(t) \/ Release(t) \/ GiveUp(t) \/ Accept(t)
  \/ Start(t) \/ TryAgain(t) \/ Finish(t) \/ Pass(t)

Spec == Init /\ [][Next]_rowVars
=============================================================================
