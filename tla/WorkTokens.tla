------------------------------ MODULE WorkTokens ------------------------------
(***************************************************************************)
(* What the queue and the nodes that read it promise of a released task.   *)
(* A task is a token: it is issued once, after that it is in the queue, or *)
(* with one node, or gone, and it can neither be forged nor copied.  It    *)
(* carries the number of retries it has used; its body is started no more  *)
(* often than these allow.  A node may die, and then drops its tokens.     *)
(***************************************************************************)
EXTENDS Naturals

CONSTANTS Tasks, Nodes, Retry

VARIABLES
  place,     \* task -> "new", "queue", "gone" or the node that holds it
  used,      \* task -> retries it has used
  starts     \* task -> times its body was started

tokenVars == <<place, used, starts>>

Init ==
  /\ place = [t \in Tasks |-> "new"]
  /\ used = [t \in Tasks |-> 0]
  /\ starts = [t \in Tasks |-> 0]

Held(t) == place[t] \in Nodes

MoveTo(t, p) == place' = [place EXCEPT ![t] = p]

Issue(t) ==
  /\ place[t] = "new"
  /\ MoveTo(t, "queue") /\ UNCHANGED <<used, starts>>

Take(n, t) ==
  /\ place[t] = "queue"
  /\ MoveTo(t, n) /\ UNCHANGED <<used, starts>>

\* The node starts the body: once, and once more for each retry used.
Start(t) ==
  /\ Held(t) /\ starts[t] <= used[t]
  /\ starts' = [starts EXCEPT ![t] = @ + 1]
  /\ UNCHANGED <<used, place>>

PutBack(t) ==
  /\ Held(t)
  /\ MoveTo(t, "queue") /\ UNCHANGED <<used, starts>>

\* A retry is used up by putting the token back, or in the attempt to.
RetryLater(t) ==
  /\ Held(t) /\ used[t] < Retry
  /\ used' = [used EXCEPT ![t] = @ + 1]
  /\ MoveTo(t, "queue") \/ UNCHANGED place
  /\ UNCHANGED starts

\* The task is settled, refused, or its message is lost by a failure.
Drop(t) ==
  /\ Held(t)
  /\ MoveTo(t, "gone")
  /\ used' = [used EXCEPT ![t] = 0]
  /\ UNCHANGED starts

Die(n) ==
  /\ \E t \in Tasks : place[t] = n
  /\ place' = [t \in Tasks |-> IF place[t] = n THEN "gone" ELSE place[t]]
  /\ used' = [t \in Tasks |-> IF place[t] = n THEN 0 ELSE used[t]]
  /\ UNCHANGED starts

Next ==
  \/ \E t \in Tasks : \/ Issue(t) \/ Start(t) \/ PutBack(t)
                      \/ RetryLater(t) \/ Drop(t)
  \/ \E n \in Nodes, t \in Tasks : Take(n, t)
  \/ \E n \in Nodes : Die(n)

Spec == Init /\ [][Next]_tokenVars
=============================================================================
