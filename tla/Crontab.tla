------------------------------- MODULE Crontab -------------------------------
(***************************************************************************)
(* Crontab.getTimeBefore: the last occurrences of a crontab before a time, *)
(* found with Quartz's getTimeAfter alone, in windows that reach further   *)
(* and further back.  A crontab is the set of its occurrences.             *)
(***************************************************************************)
EXTENDS Integers, Sequences, FiniteSets

CONSTANTS Windows   \* delta: a minute, an hour, a day, ...

ASSUME WindowsAssumption ==
  /\ Windows \in Seq(Nat \ {0}) /\ Windows # <<>>
  /\ \A i, j \in DOMAIN Windows : i < j => Windows[i] < Windows[j]

\* Where window k ends.
End(base, k) == base - (IF k = 1 THEN 0 ELSE Windows[k - 1])

\* getTimeAfter is strictly after, and the loop ends strictly before.
Window(times, base, k) ==
  {t \in times : base - Windows[k] < t /\ t < End(base, k)}

\* Mutant: what the nearer windows held is forgotten.
WithinForgets(times, base, k) == Window(times, base, k)

Within(times, base, k) == UNION {Window(times, base, i) : i \in 1..k}

Newest(times, count) == {t \in times : Cardinality({u \in times : t < u}) < count}

\* Window k is the first to bring the number of occurrences to count.
Suffices(times, base, count, k) ==
  /\ Cardinality(Within(times, base, k)) >= count
  /\ k > 1 => Cardinality(Within(times, base, k - 1)) < count

\* {} also stands for null: not even the widest window holds count of them.
TimeBefore(times, base, count) ==
  UNION {Newest(Within(times, base, k), count) :
           k \in {k \in DOMAIN Windows : Suffices(times, base, count, k)}}
=============================================================================
