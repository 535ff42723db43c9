------------------------ MODULE ProjectExecutorProofs ------------------------
(***************************************************************************)
(* Proofs about Crontab, Dependence and ProjectExecutor for any projects,  *)
(* crontabs, rules and windows, any resolution of the clock, and any bound *)
(* on time and failures.                                                   *)
(***************************************************************************)
EXTENDS ProjectExecutor, FiniteSetTheorems, WellFoundedInduction, TLAPS

\* The instants at which a firing can be fired and named.
Instants(f) == f.time..(f.time + MaxLag)

\* The second in which the shared format puts a time.
Second(time) == Truncate(time, "second")

\* Firings of one project come in different seconds, however late they are,
\* and a firing that another project's may overtake is named in its second.
\* The nearest window reaches beyond the lag.
Spaced ==
  /\ MaxLag + 1 < Windows[1]
  /\ \A f, g \in Firings :
       IF f.project = g.project
       THEN f # g => \A a \in Instants(f), b \in Instants(g) : Second(a) # Second(b)
       ELSE g.time \in Instants(f) => \A a \in Instants(f) : Second(a) = Second(f.time)

Named(f) == pc[f] \in {"save", "done"}

\* A thread reads from the calendar its own second, be it set by another.
NameInv ==
  /\ \A f \in Firings : Unnamed(f) => now <= f.time + MaxLag
  /\ \A f \in Firings : pc[f] # "waiting" =>
       /\ f.time <= now /\ lunch[f] \in Instants(f) /\ lunch[f] <= now
       /\ f.project \in Crontabs => lunch[f] = f.time
  /\ \A f \in Firings : pc[f] = "read" => Second(calendar) = Second(lunch[f])
  /\ \A f \in Firings : Named(f) => name[f] = Second(lunch[f])

\* A row is written by one firing, which has gone on to the next worker.
WrittenBy(id, f) ==
  /\ Named(f) /\ id = <<f.project, name[f], id[3]>> /\ id[3] < worker[f]
  /\ rows[id].lunchtime = lunch[f]

WriterInv == \A id \in DOMAIN rows : \E f \in Firings : WrittenBy(id, f)

\* Without failures the workers gone through have rows.
CompleteInv ==
  faults = 0 => \A f \in Firings :
    /\ ~Named(f) => worker[f] = 0
    /\ \A j \in 0..(worker[f] - 1) : <<f.project, name[f], j>> \in DOMAIN rows
    /\ f.project \in Crontabs /\ pc[f] = "done" => ~MoreWorkers(f)

\* No occurrence lies where a window ends that does not suffice.
NoneOnBorder(times, base, count) ==
  \A i \in DOMAIN Windows :
    i < Len(Windows) /\ Cardinality(Within(times, base, i)) < count =>
      base - Windows[i] \notin times

\* Every offset fits, no rule is of the day, and no base time that a firing's
\* rules can have misses no occurrence on the border of two windows.
Clear ==
  \A f \in Firings : \A r \in Rules[f.project] : r.project \in Crontabs =>
    /\ r.unit # "day"
    /\ r.offset * Unit["second"] \in (-IntLimit)..(IntLimit - 1)
    /\ \A n \in Instants(f) :
         NoneOnBorder(Cron[r.project], RuleBase(r, Second(n)), r.count)

-----------------------------------------------------------------------------
(* Crontab *)

\* The windows reach further and further back.
LEMMA WindowsTyped ==
  /\ DOMAIN Windows = 1..Len(Windows) /\ Len(Windows) \in Nat \ {0}
  /\ \A i \in 1..Len(Windows) : Windows[i] \in Nat \ {0}
  /\ \A i, j \in 1..Len(Windows) : i <= j => Windows[i] <= Windows[j]
<1>1. /\ DOMAIN Windows = 1..Len(Windows) /\ Len(Windows) \in Nat \ {0}
      /\ \A i \in 1..Len(Windows) : Windows[i] \in Nat \ {0}
  BY WindowsAssumption
<1>2. \A i, j \in 1..Len(Windows) : i < j => Windows[i] < Windows[j]
  BY <1>1, WindowsAssumption
<1> QED
  BY <1>1, <1>2

\* A set of natural numbers that is not empty has a least element.
LEMMA LeastExists ==
  ASSUME NEW S, S \subseteq Nat, S # {}
  PROVE  \E k \in S : \A x \in S : k <= x
<1>1. PICK k \in S : \A x \in S : ~(<<x, k>> \in OpToRel(<, Nat))
  BY NatLessThanWellFounded, WFMin
<1>2. \A x \in S : x \in Nat /\ k \in Nat /\ ~(x < k)
  BY <1>1 DEF OpToRel
<1> QED
  BY <1>2

\* What the windows up to the k-th hold are the occurrences since it begins,
\* but for those on a border.
LEMMA WithinIsSegment ==
  ASSUME NEW times, times \subseteq Int, NEW base \in Int,
         NEW k \in 1..Len(Windows)
  PROVE  LET Segment == {t \in times : base - Windows[k] < t /\ t < base}
         IN  /\ Within(times, base, k) \subseteq Segment
             /\ (\A i \in 1..(k - 1) : base - Windows[i] \notin times) =>
                  Within(times, base, k) = Segment
<1> DEFINE Segment == {t \in times : base - Windows[k] < t /\ t < base}
<1>1. ASSUME NEW i \in 1..k, NEW t \in Window(times, base, i)
      PROVE  t \in Segment
  <2>1. i \in 1..Len(Windows) /\ Windows[i] \in Nat /\ Windows[k] \in Nat
        /\ Windows[i] <= Windows[k]
    BY WindowsTyped
  <2>2. t \in times /\ t \in Int /\ base - Windows[i] < t /\ t < End(base, i)
    BY <1>1 DEF Window
  <2>3. End(base, i) \in Int /\ End(base, i) <= base
    BY WindowsTyped, <2>1 DEF End
  <2> QED
    BY <2>1, <2>2, <2>3
<1>2. ASSUME NEW t \in Segment, \A i \in 1..(k - 1) : base - Windows[i] \notin times
      PROVE  \E i \in 1..k : t \in Window(times, base, i)
  <2> DEFINE S == {i \in 1..k : base - Windows[i] < t}
  <2>1. S \subseteq Nat /\ S # {}
    <3>1. k \in 1..k /\ base - Windows[k] < t
      BY <1>2, WindowsTyped
    <3> QED
      BY <3>1
  <2>2. PICK i \in S : \A j \in S : i <= j
    BY <2>1, LeastExists
  <2>3. t \in Int /\ t \in times /\ t < base /\ i \in 1..k /\ base - Windows[i] < t
    BY <2>2
  <2>4. t < End(base, i)
    <3>1. CASE i = 1
      BY <2>3, <3>1 DEF End
    <3>2. CASE i # 1
      <4>1. i - 1 \in 1..k /\ i - 1 \in 1..(k - 1) /\ Windows[i - 1] \in Nat
        BY <2>3, <3>2, WindowsTyped
      <4>2. ~(base - Windows[i - 1] < t)
        BY <2>2, <2>3, <4>1
      <4>3. base - Windows[i - 1] # t
        BY <1>2, <2>3, <4>1
      <4> QED
        BY <2>3, <3>2, <4>1, <4>2, <4>3 DEF End
    <3> QED
      BY <3>1, <3>2
  <2> QED
    BY <2>3, <2>4 DEF Window
<1> QED
  BY <1>1, <1>2 DEF Within

\* There are finitely many occurrences between two times.
LEMMA SegmentFinite ==
  ASSUME NEW times, times \subseteq Int, NEW a \in Int, NEW b \in Int
  PROVE  IsFiniteSet({t \in times : a < t /\ t < b})
<1>1. \A t \in times : a < t /\ t < b => t \in a..b
  OBVIOUS
<1>2. {t \in times : a < t /\ t < b} \in SUBSET (a..b)
  BY <1>1
<1>3. IsFiniteSet(a..b)
  BY FS_Interval
<1> QED
  BY <1>2, <1>3, FS_Subset

\* What the windows hold is finite and lies before the base.
LEMMA WithinBound ==
  ASSUME NEW times, times \subseteq Int, NEW base \in Int,
         NEW k \in 1..Len(Windows)
  PROVE  /\ IsFiniteSet(Within(times, base, k))
         /\ \A t \in Within(times, base, k) : t \in times /\ t \in Int /\ t < base
<1> DEFINE Segment == {t \in times : base - Windows[k] < t /\ t < base}
<1>1. Within(times, base, k) \in SUBSET Segment
  BY WithinIsSegment
<1>2. base - Windows[k] \in Int
  BY WindowsTyped
<1>3. IsFiniteSet(Segment)
  BY <1>2, SegmentFinite
<1> QED
  BY <1>1, <1>3, FS_Subset

\* The newest of a set are the newest of any segment that holds enough.
LEMMA NewestOfSegment ==
  ASSUME NEW past, past \subseteq Int, IsFiniteSet(past), NEW a \in Int,
         NEW count \in Nat, Cardinality({t \in past : a < t}) >= count
  PROVE  Newest({t \in past : a < t}, count) = Newest(past, count)
<1> DEFINE Segment == {t \in past : a < t}
<1>1. \A S \in SUBSET past : IsFiniteSet(S) /\ Cardinality(S) \in Nat
  BY FS_Subset, FS_CardinalityType
<1>2. \A t \in Segment : {u \in Segment : t < u} = {u \in past : t < u}
  <2>1. \A t, u \in past : a < t /\ t < u => a < u
    OBVIOUS
  <2> QED
    BY <2>1
<1>3. ASSUME NEW t \in past \ Segment
      PROVE  ~(Cardinality({u \in past : t < u}) < count)
  <2> DEFINE After == {u \in past : t < u}
  <2>1. Segment \in SUBSET After /\ After \in SUBSET past /\ Segment \in SUBSET past
    <3>1. t \in Int /\ ~(a < t)
      BY <1>3
    <3>2. \A u \in past : a < u => t < u
      BY <3>1
    <3> QED
      BY <3>2
  <2>2. Cardinality(Segment) <= Cardinality(After)
    BY <1>1, <2>1, FS_Subset
  <2> QED
    BY <1>1, <2>1, <2>2
<1> QED
  BY <1>2, <1>3 DEF Newest

\* getTimeBefore returns the last count occurrences before base, none if the
\* widest window does not hold so many, unless one it needs is on a border.
THEOREM TimeBeforeIsLatest ==
  ASSUME NEW times, times \subseteq Int, NEW base \in Int, NEW count \in Nat,
         NoneOnBorder(times, base, count)
  PROVE  TimeBefore(times, base, count) = LatestBefore(times, base, count)
<1> DEFINE n == Len(Windows)
           W(k) == Within(times, base, k)
           Since(k) == {t \in times : base - Windows[k] < t /\ t < base}
           past == Since(n)
<1>1. \A k \in 1..n :
        /\ W(k) \subseteq Since(k)
        /\ (\A i \in 1..(k - 1) : base - Windows[i] \notin times) => W(k) = Since(k)
  BY WithinIsSegment
<1>2. \A k \in 1..n : Windows[k] \in Nat /\ Windows[k] <= Windows[n]
  BY WindowsTyped
<1>3. n \in 1..n /\ n \in Nat /\ DOMAIN Windows = 1..n
  BY WindowsTyped
<1>4. past \subseteq Int /\ IsFiniteSet(past)
  <2>1. base - Windows[n] \in Int
    BY <1>2, <1>3
  <2> QED
    BY <2>1, SegmentFinite
<1>5. LatestBefore(times, base, count)
        = IF Cardinality(past) < count THEN {} ELSE Newest(past, count)
  BY DEF LatestBefore
<1>6. \A k \in 1..n : Since(k) = {t \in past : base - Windows[k] < t}
  <2>1. SUFFICES ASSUME NEW k \in 1..n
                 PROVE  Since(k) = {t \in past : base - Windows[k] < t}
    OBVIOUS
  <2>2. \A t \in times : base - Windows[k] < t => base - Windows[n] < t
    BY <1>2, <1>3
  <2> QED
    BY <2>2
<1>7. \A S \in SUBSET past : /\ IsFiniteSet(S) /\ Cardinality(S) \in Nat
                             /\ Cardinality(S) <= Cardinality(past)
  BY <1>4, FS_Subset, FS_CardinalityType
<1>8. \A k \in 1..n : /\ W(k) \in SUBSET past /\ Cardinality(W(k)) \in Nat
                      /\ Cardinality(W(k)) <= Cardinality(past)
  <2>1. \A k \in 1..n : Since(k) \subseteq past
    BY <1>6
  <2> QED
    BY <1>1, <1>7, <2>1
<1>9. \A k \in 1..n : \A i \in 1..k : Cardinality(W(i)) <= Cardinality(W(k))
  <2>1. \A k \in 1..n : \A i \in 1..k : i \in 1..n /\ W(i) \in SUBSET W(k)
    BY <1>3 DEF Within
  <2> QED
    BY <1>7, <1>8, <2>1, FS_Subset
\* The window at which the search ends has missed nothing.
<1>10. \A k \in 1..n :
         (\A i \in 1..(k - 1) : Cardinality(W(i)) < count) => W(k) = Since(k)
  BY <1>1, <1>3 DEF NoneOnBorder
<1>11. \A k \in 1..n : Suffices(times, base, count, k) =>
                         Newest(W(k), count) = Newest(past, count)
  <2>1. SUFFICES ASSUME NEW k \in 1..n, Suffices(times, base, count, k)
                 PROVE  Newest(W(k), count) = Newest(past, count)
    OBVIOUS
  <2>2. Cardinality(W(k)) >= count /\ (k > 1 => Cardinality(W(k - 1)) < count)
    BY <2>1 DEF Suffices
  <2>3. \A i \in 1..(k - 1) : Cardinality(W(i)) < count
    <3>1. SUFFICES ASSUME NEW i \in 1..(k - 1) PROVE Cardinality(W(i)) < count
      OBVIOUS
    <3>2. k > 1 /\ k - 1 \in 1..n /\ i \in 1..n
      BY <1>3
    <3>3. /\ Cardinality(W(i)) <= Cardinality(W(k - 1))
          /\ Cardinality(W(i)) \in Nat /\ Cardinality(W(k - 1)) \in Nat
      BY <1>8, <1>9, <3>2
    <3> HIDE DEF W
    <3> QED
      BY <2>2, <3>2, <3>3
  <2>4. W(k) = {t \in past : base - Windows[k] < t}
    BY <1>6, <1>10, <2>3
  <2>5. base - Windows[k] \in Int
    BY <1>2
  <2> DEFINE w == W(k)
             a == base - Windows[k]
  <2>6. w = {t \in past : a < t} /\ a \in Int /\ Cardinality(w) >= count
    BY <2>2, <2>4, <2>5
  <2> HIDE DEF w, a, past
  <2>7. Newest(w, count) = Newest(past, count)
    BY <1>4, <2>6, NewestOfSegment
  <2> QED
    BY <2>7 DEF w
<1>12. CASE \E k \in 1..n : Cardinality(W(k)) >= count
  <2> DEFINE S == {k \in 1..n : Cardinality(W(k)) >= count}
  <2>1. S \subseteq Nat /\ S # {}
    BY <1>3, <1>12
  <2>2. PICK k \in S : \A j \in S : k <= j
    BY <2>1, LeastExists
  <2>3. Suffices(times, base, count, k)
    <3>1. k > 1 => k - 1 \in 1..n /\ k - 1 \notin S
      BY <1>3, <2>2
    <3>2. k > 1 => Cardinality(W(k - 1)) < count
      <4>1. k > 1 => ~(Cardinality(W(k - 1)) >= count) /\ Cardinality(W(k - 1)) \in Nat
        BY <1>8, <3>1
      <4> HIDE DEF W
      <4> QED
        BY <4>1
    <3> QED
      BY <2>2, <3>2 DEF Suffices
  <2>4. k \in 1..n /\ ~(Cardinality(past) < count)
    BY <1>3, <1>7, <1>8, <2>2
  <2>5. LatestBefore(times, base, count) = Newest(past, count)
    BY <1>5, <2>4
  <2> HIDE DEF past
  <2> QED
    BY <1>3, <1>11, <2>3, <2>4, <2>5 DEF TimeBefore
<1>13. CASE \A k \in 1..n : ~(Cardinality(W(k)) >= count)
  <2>1. \A k \in 1..n : ~Suffices(times, base, count, k)
    BY <1>13 DEF Suffices
  <2>2. TimeBefore(times, base, count) = {}
    BY <1>3, <2>1 DEF TimeBefore
  <2>3. W(n) = past
    <3>1. \A i \in 1..(n - 1) : i \in 1..n
      BY <1>3
    <3>2. \A k \in 1..n : Cardinality(W(k)) < count
      <4>1. \A k \in 1..n : ~(Cardinality(W(k)) >= count) /\ Cardinality(W(k)) \in Nat
        BY <1>8, <1>13
      <4> HIDE DEF W, n
      <4> QED
        BY <4>1
    <3> QED
      BY <1>3, <1>10, <3>1, <3>2
  <2>4. Cardinality(past) < count
    BY <1>3, <1>8, <1>13, <2>3
  <2> QED
    BY <1>5, <2>2, <2>4
<1> QED
  BY <1>12, <1>13

-----------------------------------------------------------------------------
(* Dependence *)

\* The assumptions on the constants, gathered for citation.
LEMMA Consts ==
  /\ Start \in Int /\ Horizon \in Int /\ Start <= Horizon
  /\ MaxLag \in Nat /\ MaxFaults \in Nat
  /\ \A p \in Projects : Cron[p] \subseteq Int
  /\ Crontabs \subseteq Projects
  /\ NumWorkers \in [Projects -> Nat]
  /\ \A r \in Resizes : r[1] \in Projects /\ r[2] \in Nat
  /\ \A u \in {"second", "minute", "hour", "day"} : Unit[u] \in Nat \ {0}
  /\ DOMAIN Unit = {"second", "minute", "hour", "day"}
  /\ IntLimit \in Nat \ {0}
BY ExecutorAssumption, UnitAssumption

\* A time cut to a unit is whole and not later.
LEMMA TruncateTyped ==
  ASSUME NEW time \in Int, NEW u \in DOMAIN Unit
  PROVE  /\ Truncate(time, u) \in Int
         /\ Truncate(time, u) <= time /\ time < Truncate(time, u) + Unit[u]
         /\ Truncate(time, u) % Unit[u] = 0
<1>1. Unit[u] \in Nat \ {0}
  BY Consts
<1>2. time % Unit[u] \in 0..(Unit[u] - 1)
  BY <1>1
<1>3. (time - (time % Unit[u])) % Unit[u] = 0
  <2>1. ASSUME NEW n \in Nat \ {0}
        PROVE  (time - (time % n)) % n = 0
    <3>1. time - (time % n) = n * (time \div n) /\ time \div n \in Int
      OBVIOUS
    <3>2. \A q \in Int : (n * q) % n = 0
      OBVIOUS
    <3> QED
      BY <3>1, <3>2
  <2> QED
    BY <1>1, <2>1
<1> QED
  BY <1>1, <1>2, <1>3 DEF Truncate

\* getTimeBefore returns occurrences before base, whatever the windows miss.
LEMMA TimeBeforeBound ==
  ASSUME NEW times, times \subseteq Int, NEW base \in Int, NEW count \in Nat,
         NEW t \in TimeBefore(times, base, count)
  PROVE  t \in times /\ t \in Int /\ t < base
<1>1. PICK k \in DOMAIN Windows : t \in Newest(Within(times, base, k), count)
  BY DEF TimeBefore
<1>2. t \in Within(times, base, k) /\ k \in 1..Len(Windows)
  BY <1>1, WindowsTyped DEF Newest
<1> QED
  BY <1>2, WithinIsSegment

\* The base time of a rule is a time not after the lunchtime.
LEMMA RuleBaseTyped ==
  ASSUME NEW p \in Projects, NEW r \in Rules[p], NEW lunchtime \in Int
  PROVE  RuleBase(r, lunchtime) \in Int /\ RuleBase(r, lunchtime) <= lunchtime
<1>1. r.unit \in DOMAIN Unit /\ r.delta \in Int /\ r.offset \in Int
  BY ExecutorAssumption
<1>2. BaseTime(r.unit, lunchtime, r.delta) \in Int
  <2>1. \A u \in DOMAIN Unit : Truncate(lunchtime, u) \in Int
    BY TruncateTyped
  <2>2. \A u \in DOMAIN Unit : r.delta * Unit[u] \in Int
    <3>1. \A u \in DOMAIN Unit : Unit[u] \in Int
      BY Consts
    <3> QED
      BY <1>1, <3>1
  <2>3. "day" \in DOMAIN Unit
    BY Consts
  <2> QED
    BY <1>1, <2>1, <2>2, <2>3 DEF BaseTime
<1>3. \A x \in Int : Wrap(x) \in Int
  BY Consts DEF Wrap
<1>4. r.offset * Unit["second"] \in Int
  BY <1>1, Consts
<1>5. Wrap(r.offset * Unit["second"]) \in Int
  BY <1>3, <1>4
<1>6. \A x \in Int : Capped(x, lunchtime) \in Int /\ Capped(x, lunchtime) <= lunchtime
  BY DEF Capped
<1> QED
  BY <1>2, <1>5, <1>6 DEF RuleBase

\* An offset that fits an int is not changed.
LEMMA WrapFits ==
  ASSUME NEW x \in (-IntLimit)..(IntLimit - 1)
  PROVE  Wrap(x) = x
<1>1. \A n \in Nat \ {0} : \A y \in 0..(n - 1) : y % n = y
  OBVIOUS
<1>2. x + IntLimit \in 0..((2 * IntLimit) - 1) /\ 2 * IntLimit \in Nat \ {0}
  BY Consts
<1>3. (x + IntLimit) % (2 * IntLimit) = x + IntLimit
  BY <1>1, <1>2
<1> QED
  BY <1>3, Consts DEF Wrap

\* The lunchtime of a firing is a time.
LEMMA LunchTimeTyped ==
  ASSUME NEW p \in Projects, NEW n \in Int
  PROVE  LunchTime(p, n) \in Int
<1>1. \A t \in TimeBefore(Cron[p], n + 1, 1) : t \in Int
  BY TimeBeforeBound, Consts
<1> QED
  BY <1>1 DEF LunchTime

-----------------------------------------------------------------------------
(* Typing *)

\* The parts of a firing.
LEMMA FiringTyped ==
  \A f \in Firings : /\ f.project \in Projects /\ f.time \in Start..Horizon
                     /\ f.time \in Int /\ f.time \in Cron[f.project]
BY Consts DEF Firings

\* Seconds are whole.
LEMMA SecondTyped ==
  ASSUME NEW n \in Int
  PROVE  /\ Second(n) \in WholeSeconds /\ Second(n) \in Int /\ Second(n) <= n
         /\ Truncate(n, "second") = Second(n)
BY TruncateTyped, Consts DEF Second, WholeSeconds

\* At first nothing is written.
LEMMA TypingInit == Init => TypeOK
<1> SUFFICES ASSUME Init PROVE TypeOK
  OBVIOUS
<1>1. 0 \in WholeSeconds
  BY Consts DEF WholeSeconds
<1> QED
  BY <1>1, Consts DEF Init, TypeOK

\* An id is made of a project, a second and a number.
LEMMA InsertTyping ==
  ASSUME TypeOK, NEW f \in Firings, NEW l \in Int,
         Insert(TaskId(f), [lunchtime |-> l, status |-> "INIT"])
  PROVE  \A id \in DOMAIN rows' :
           /\ id \in Projects \X WholeSeconds \X Nat
           /\ rows'[id] \in [lunchtime : Int, status : {"INIT", "ACTIVE"}]
<1> DEFINE row == [lunchtime |-> l, status |-> "INIT"]
<1>1. TaskId(f) \in Projects \X WholeSeconds \X Nat
  BY FiringTyped DEF TypeOK, TaskId
<1>2. row \in [lunchtime : Int, status : {"INIT", "ACTIVE"}]
  OBVIOUS
<1>3. rows' = [x \in DOMAIN rows \cup {TaskId(f)} |-> IF x = TaskId(f) THEN row ELSE rows[x]]
  BY DEF Insert
<1> HIDE DEF row
<1>4. \A id \in DOMAIN rows' : /\ id \in DOMAIN rows \cup {TaskId(f)}
                               /\ rows'[id] = IF id = TaskId(f) THEN row ELSE rows[id]
  BY <1>3
<1> QED
  BY <1>1, <1>2, <1>4 DEF TypeOK

\* Every step keeps the types.
LEMMA Typing == TypeOK /\ [Next]_vars => TypeOK'
<1> SUFFICES ASSUME TypeOK, [Next]_vars PROVE TypeOK'
  OBVIOUS
<1>1. ASSUME NEW f \in Firings, Fire(f) PROVE TypeOK'
  <2>1. LunchTime(f.project, now) \in Int
    BY FiringTyped, LunchTimeTyped, Consts DEF TypeOK
  <2> QED
    BY <1>1, <2>1 DEF Fire, Step, TypeOK
<1>2. ASSUME NEW f \in Firings, SetCalendar(f) PROVE TypeOK'
  BY <1>2 DEF SetCalendar, Step, TypeOK
<1>3. ASSUME NEW f \in Firings, ReadCalendar(f) PROVE TypeOK'
  <2>1. Truncate(calendar, "second") \in WholeSeconds
    BY SecondTyped DEF TypeOK
  <2> QED
    BY <1>3, <2>1 DEF ReadCalendar, Step, TypeOK
<1>4. ASSUME NEW f \in Firings, ScriptThrows(f) \/ Finish(f) PROVE TypeOK'
  BY <1>4, Consts DEF ScriptThrows, Finish, Fault, Step, TypeOK
<1>5. ASSUME NEW f \in Firings, SaveWorker(f) PROVE TypeOK'
  <2>1. CASE Insert(TaskId(f), [lunchtime |-> lunch[f], status |-> "INIT"])
             /\ UNCHANGED faults
    <3>1. lunch[f] \in Int
      BY DEF TypeOK
    <3>2. \A id \in DOMAIN rows' :
            /\ id \in Projects \X WholeSeconds \X Nat
            /\ rows'[id] \in [lunchtime : Int, status : {"INIT", "ACTIVE"}]
      BY <2>1, <3>1, InsertTyping
    <3> QED
      BY <1>5, <2>1, <3>2 DEF SaveWorker, TypeOK
  <2>2. CASE Fault /\ UNCHANGED rows
    BY <1>5, <2>2, Consts DEF SaveWorker, Fault, TypeOK
  <2> QED
    BY <1>5, <2>1, <2>2 DEF SaveWorker
<1>6. CASE Tick
  BY <1>6, Consts DEF Tick, threadVars, TypeOK
<1>7. ASSUME NEW id \in DOMAIN rows, Release(id) PROVE TypeOK'
  BY <1>7 DEF Release, threadVars, TypeOK
<1>8. ASSUME NEW r \in Resizes, Resize(r[1], r[2]) PROVE TypeOK'
  BY <1>8, Consts DEF Resize, threadVars, TypeOK
<1>9. CASE UNCHANGED vars
  BY <1>9 DEF vars, threadVars, TypeOK
<1> QED
  BY <1>1, <1>2, <1>3, <1>4, <1>5, <1>6, <1>7, <1>8, <1>9 DEF Next, Execute

\* The rows and the threads are well-formed; ids are made of whole seconds.
THEOREM TypeCorrect == Spec => []TypeOK
BY TypingInit, Typing, PTL DEF Spec

-----------------------------------------------------------------------------
(* The names of the rows *)

\* The firing of an occurrence has that occurrence for its lunchtime, although
\* it computes it from the time at which it is fired.
LEMMA LunchTimeIsOccurrence ==
  ASSUME Spaced, NEW f \in Firings, f.project \in Crontabs,
         NEW n \in Instants(f), n <= Horizon
  PROVE  LunchTime(f.project, n) = f.time
<1> DEFINE times == Cron[f.project]
<1>1. /\ times \subseteq Int /\ f.time \in times /\ f.time \in Int /\ n \in Int
      /\ f.time <= n /\ n <= f.time + MaxLag /\ f.time \in Start..Horizon
  BY Consts, FiringTyped DEF Instants
<1>2. ASSUME NEW t \in times, f.time < t, t <= n
      PROVE  FALSE
  <2> DEFINE g == [project |-> f.project, time |-> t]
  <2>1. t \in Start..Horizon /\ t \in Int
    BY <1>1, <1>2, Consts
  <2>2. g \in Firings /\ g.project = f.project /\ g.time = t
    BY <2>1, FiringTyped DEF Firings
  <2> HIDE DEF g
  <2>3. t \in Instants(f) /\ t \in Instants(g) /\ f # g
    BY <1>1, <1>2, <2>1, <2>2, Consts DEF Instants
  <2> QED
    BY <2>2, <2>3 DEF Spaced
<1>3. DOMAIN Windows = 1..Len(Windows) /\ 1 \in 1..Len(Windows)
      /\ Windows[1] \in Nat /\ MaxLag + 1 < Windows[1] /\ MaxLag \in Nat
  BY WindowsTyped, Consts DEF Spaced
<1> DEFINE W(k) == Within(times, n + 1, k)
<1>4. f.time \in W(1)
  <2>1. f.time \in Window(times, n + 1, 1)
    BY <1>1, <1>3 DEF Window, End
  <2> QED
    BY <2>1 DEF Within
<1>5. \A k \in 1..Len(Windows) : /\ W(k) \subseteq Int /\ IsFiniteSet(W(k))
                                 /\ \A t \in W(k) : t \in times /\ t <= f.time
  <2>1. SUFFICES ASSUME NEW k \in 1..Len(Windows)
                 PROVE  /\ W(k) \subseteq Int /\ IsFiniteSet(W(k))
                        /\ \A t \in W(k) : t \in times /\ t <= f.time
    OBVIOUS
  <2>2. n + 1 \in Int
    BY <1>1
  <2>3. IsFiniteSet(W(k)) /\ \A t \in W(k) : t \in times /\ t \in Int /\ t < n + 1
    BY <1>1, <2>2, WithinBound
  <2>4. \A t \in W(k) : t <= n
    BY <1>1, <2>3
  <2>5. \A t \in W(k) : t <= f.time
    BY <1>1, <1>2, <2>3, <2>4
  <2> QED
    BY <2>3, <2>5
<1>6. \A k \in 1..Len(Windows) : f.time \in W(k)
  BY <1>3, <1>4 DEF Within
\* The first window holds the occurrence, so the search ends there.
<1>7. Newest(W(1), 1) = {f.time}
  <2>1. {u \in W(1) : f.time < u} = {}
    BY <1>1, <1>3, <1>5
  <2>2. Cardinality({}) = 0
    BY FS_EmptySet
  <2>3. f.time \in Newest(W(1), 1)
    BY <1>4, <2>1, <2>2 DEF Newest
  <2>4. ASSUME NEW t \in W(1), t # f.time PROVE t \notin Newest(W(1), 1)
    <3>1. t \in Int /\ t < f.time
      BY <1>1, <1>3, <1>5, <2>4
    <3>2. f.time \in {u \in W(1) : t < u}
      BY <1>4, <3>1
    <3>3. IsFiniteSet({u \in W(1) : t < u})
      BY <1>3, <1>5, FS_Subset
    <3>4. Cardinality({u \in W(1) : t < u}) # 0 /\ Cardinality({u \in W(1) : t < u}) \in Nat
      BY <3>2, <3>3, FS_EmptySet, FS_CardinalityType
    <3> QED
      BY <3>4 DEF Newest
  <2> QED
    BY <2>3, <2>4 DEF Newest
<1>8. Suffices(times, n + 1, 1, 1)
  <2>1. Cardinality(W(1)) # 0 /\ Cardinality(W(1)) \in Nat
    BY <1>3, <1>4, <1>5, FS_EmptySet, FS_CardinalityType
  <2> QED
    BY <2>1 DEF Suffices
<1>9. \A k \in 1..Len(Windows) : Suffices(times, n + 1, 1, k) => k = 1
  <2>1. SUFFICES ASSUME NEW k \in 1..Len(Windows), k > 1 
                 PROVE  ~Suffices(times, n + 1, 1, k)
    OBVIOUS
  <2>2. k - 1 \in 1..Len(Windows)
    BY <2>1
  <2>3. Cardinality(W(k - 1)) # 0 /\ Cardinality(W(k - 1)) \in Nat
    BY <1>5, <1>6, <2>2, FS_EmptySet, FS_CardinalityType
  <2>4. ~(Cardinality(W(k - 1)) < 1)
    <3> HIDE DEF W
    <3> QED
      BY <2>3
  <2> QED
    BY <2>1, <2>4 DEF Suffices
<1>10. TimeBefore(times, n + 1, 1) = {f.time}
  BY <1>3, <1>7, <1>8, <1>9 DEF TimeBefore
<1> QED
  BY <1>10 DEF LunchTime

\* A thread that sets the calendar sets the second of every thread that has
\* still to read it.
LEMMA SameSecond ==
  ASSUME Spaced, TypeOK, NameInv, NEW f \in Firings, NEW g \in Firings, f # g,
         Unnamed(f), Unnamed(g), pc[f] # "waiting", pc[g] # "waiting"
  PROVE  Second(lunch[f]) = Second(lunch[g])
<1>1. \A x \in {f, g} : /\ x.time \in Int /\ lunch[x] \in Int
                        /\ x.time <= lunch[x] /\ lunch[x] <= now
                        /\ x.time <= now /\ now <= x.time + MaxLag
  BY FiringTyped DEF NameInv, TypeOK, Instants
<1>2. /\ f.time \in Instants(f) /\ g.time \in Instants(g)
      /\ lunch[f] \in Instants(f) /\ lunch[g] \in Instants(g)
  BY <1>1, Consts DEF Instants, NameInv
<1>3. now \in Int
  BY Consts DEF TypeOK
<1>4. CASE f.time <= g.time
  <2>1. g.time \in Instants(f) /\ lunch[g] \in Instants(f)
    BY <1>1, <1>3, <1>4, Consts DEF Instants
  <2> QED
    BY <1>2, <2>1 DEF Spaced
<1>5. CASE g.time <= f.time
  <2>1. f.time \in Instants(g) /\ lunch[f] \in Instants(g)
    BY <1>1, <1>3, <1>5, Consts DEF Instants
  <2> QED
    BY <1>2, <2>1 DEF Spaced
<1> QED
  BY <1>1, <1>4, <1>5

\* Steps that touch no thread keep the names.
LEMMA NameSame ==
  ASSUME NameInv, UNCHANGED <<now, calendar, pc, lunch, name>>
  PROVE  NameInv'
BY DEF NameInv, Unnamed, Named

\* At first no firing has fired.
LEMMA NameInit == Init => NameInv
<1> SUFFICES ASSUME Init PROVE NameInv
  OBVIOUS
<1>1. \A f \in Firings : pc[f] = "waiting" /\ f.time <= now => now <= f.time + MaxLag
  BY FiringTyped, Consts DEF Init
<1>2. \A f \in Firings : pc[f] = "waiting"
  BY DEF Init
<1> QED
  BY <1>1, <1>2 DEF NameInv, Unnamed, Named

\* A firing is named by its own second, whoever shares the date format.
LEMMA NameStep ==
  ASSUME Spaced, TypeOK, NameInv, [Next]_vars
  PROVE  NameInv'
<1> USE DEF Named
<1>1. ASSUME NEW f \in Firings, Fire(f) PROVE NameInv'
  <2>1. /\ f.time <= now /\ pc[f] = "waiting" /\ pc' = [pc EXCEPT ![f] = "set"]
        /\ lunch' = [lunch EXCEPT ![f] = LunchTime(f.project, now)]
        /\ UNCHANGED <<now, calendar, name>>
    BY <1>1 DEF Fire, Step
  <2>2. /\ \A g \in Firings : g # f => pc'[g] = pc[g] /\ lunch'[g] = lunch[g]
        /\ pc'[f] = "set" /\ lunch'[f] = LunchTime(f.project, now)
    BY <2>1 DEF TypeOK
  <2>3. now \in Instants(f) /\ now <= Horizon /\ now \in Int
    <3>1. now <= f.time + MaxLag
      BY <2>1 DEF NameInv, Unnamed
    <3> QED
      BY <2>1, <3>1, FiringTyped, Consts DEF Instants, TypeOK
  <2>4. /\ f.project \in Crontabs => LunchTime(f.project, now) = f.time
        /\ f.project \notin Crontabs => LunchTime(f.project, now) = now
    BY <2>3, LunchTimeIsOccurrence DEF LunchTime
  <2>5. /\ lunch'[f] \in Instants(f) /\ lunch'[f] <= now
        /\ f.project \in Crontabs => lunch'[f] = f.time
    <3>1. f.time \in Instants(f)
      BY FiringTyped, Consts DEF Instants
    <3> QED
      BY <2>1, <2>2, <2>3, <2>4, <3>1
  <2>6. \A g \in Firings : Unnamed(g)' => Unnamed(g)
    BY <2>1, <2>2 DEF Unnamed
  <2> QED
    BY <2>1, <2>2, <2>5, <2>6 DEF NameInv
<1>2. ASSUME NEW f \in Firings, SetCalendar(f) PROVE NameInv'
  <2>1. /\ pc[f] = "set" /\ pc' = [pc EXCEPT ![f] = "read"] /\ calendar' = lunch[f]
        /\ UNCHANGED <<now, lunch, name>>
    BY <1>2 DEF SetCalendar, Step
  <2>2. /\ \A g \in Firings : g # f => pc'[g] = pc[g]
        /\ pc'[f] = "read"
    BY <2>1 DEF TypeOK
  <2>3. \A g \in Firings : pc'[g] = "read" => Second(calendar') = Second(lunch[g])
    <3>1. \A g \in Firings : g # f /\ pc[g] = "read" =>
                               Unnamed(f) /\ Unnamed(g) /\ pc[g] # "waiting"
      BY <2>1 DEF NameInv, Unnamed
    <3>2. \A g \in Firings : g # f /\ pc[g] = "read" => Second(lunch[f]) = Second(lunch[g])
      BY <2>1, <3>1, SameSecond
    <3> QED
      BY <2>1, <2>2, <3>2
  <2>4. \A g \in Firings : Unnamed(g)' => Unnamed(g)
    BY <2>1, <2>2 DEF Unnamed
  <2> QED
    BY <2>1, <2>2, <2>3, <2>4 DEF NameInv, Second
<1>3. ASSUME NEW f \in Firings, ReadCalendar(f) PROVE NameInv'
  <2>1. /\ pc[f] = "read" /\ pc' = [pc EXCEPT ![f] = "save"]
        /\ name' = [name EXCEPT ![f] = Second(calendar)]
        /\ UNCHANGED <<now, calendar, lunch>>
    BY <1>3 DEF ReadCalendar, Step, Second
  <2>2. /\ \A g \in Firings : g # f => pc'[g] = pc[g] /\ name'[g] = name[g]
        /\ pc'[f] = "save" /\ name'[f] = Second(calendar)
    BY <2>1 DEF TypeOK
  <2>3. \A g \in Firings : Unnamed(g)' => Unnamed(g)
    BY <2>1, <2>2 DEF Unnamed
  <2> QED
    BY <2>1, <2>2, <2>3 DEF NameInv, Second
<1>4. ASSUME NEW f \in Firings, ScriptThrows(f) \/ Finish(f) PROVE NameInv'
  <2>1. /\ pc[f] = "save" /\ pc' = [pc EXCEPT ![f] = "done"]
        /\ UNCHANGED <<now, calendar, lunch, name>>
    BY <1>4 DEF ScriptThrows, Finish, Step
  <2>2. /\ \A g \in Firings : g # f => pc'[g] = pc[g]
        /\ pc'[f] = "done"
    BY <2>1 DEF TypeOK
  <2>3. \A g \in Firings : Unnamed(g)' => Unnamed(g)
    BY <2>1, <2>2 DEF Unnamed
  <2> QED
    BY <2>1, <2>2, <2>3 DEF NameInv, Second
<1>5. CASE Tick
  <2>1. /\ now' = now + 1 /\ UNCHANGED <<calendar, pc, lunch, name>> /\ now \in Int
        /\ \A f \in Firings : Unnamed(f) => now < f.time + MaxLag
    BY <1>5, Consts DEF Tick, threadVars, TypeOK
  <2>2. \A f \in Firings : Unnamed(f)' => now' <= f.time + MaxLag
    <3>1. SUFFICES ASSUME NEW f \in Firings, Unnamed(f)'
                   PROVE  now' <= f.time + MaxLag
      OBVIOUS
    <3>2. f.time \in Int /\ f.time <= now + 1 /\ (f.time <= now => Unnamed(f))
      BY <2>1, <3>1, FiringTyped DEF Unnamed
    <3> QED
      BY <2>1, <3>2, Consts
  <2>3. \A f \in Firings : pc[f] # "waiting" => f.time <= now' /\ lunch[f] <= now'
    <3>1. \A f \in Firings : f.time \in Int /\ lunch[f] \in Int
      BY FiringTyped DEF TypeOK
    <3> QED
      BY <2>1, <3>1 DEF NameInv
  <2> QED
    BY <2>1, <2>2, <2>3 DEF NameInv, Second
<1>6. CASE UNCHANGED <<now, calendar, pc, lunch, name>>
  BY <1>6, NameSame
<1> QED
  BY <1>1, <1>2, <1>3, <1>4, <1>5, <1>6 DEF Next, Execute, SaveWorker, Release,
    Resize, threadVars, vars

\* A firing that is named stays so, with its locals, but for the worker.
LEMMA NamedStays ==
  ASSUME TypeOK, [Next]_vars, NEW f \in Firings, Named(f)
  PROVE  /\ Named(f)' /\ UNCHANGED <<name[f], lunch[f]>>
         /\ worker'[f] \in {worker[f], worker[f] + 1}
<1> USE DEF TypeOK, Named
<1>1. ASSUME NEW g \in Firings, Execute(g)
      PROVE  /\ Named(f)' /\ UNCHANGED <<name[f], lunch[f]>>
             /\ worker'[f] \in {worker[f], worker[f] + 1}
  BY <1>1 DEF Execute, Fire, SetCalendar, ReadCalendar, ScriptThrows, SaveWorker,
    Finish, Step
<1>2. CASE UNCHANGED threadVars
  BY <1>2 DEF threadVars
<1> QED
  BY <1>1, <1>2 DEF Next, Tick, Release, Resize, vars

\* What a save does to the rows.
LEMMA SaveRows ==
  ASSUME TypeOK, NEW f \in Firings, SaveWorker(f), faults' = faults
  PROVE  /\ DOMAIN rows' = DOMAIN rows \cup {TaskId(f)}
         /\ rows'[TaskId(f)] = [lunchtime |-> lunch[f], status |-> "INIT"]
         /\ \A id \in DOMAIN rows : id # TaskId(f) => rows'[id] = rows[id]
<1>1. Insert(TaskId(f), [lunchtime |-> lunch[f], status |-> "INIT"])
  BY DEF SaveWorker, Fault, TypeOK
<1> QED
  BY <1>1 DEF Insert

\* Every row has been written by a firing.
LEMMA WriterStep ==
  ASSUME TypeOK, TypeOK', WriterInv, [Next]_vars
  PROVE  WriterInv'
<1>1. \A id \in DOMAIN rows' : \A f \in Firings :
        id \in DOMAIN rows /\ WrittenBy(id, f) /\ rows'[id].lunchtime = rows[id].lunchtime
          => WrittenBy(id, f)'
  <2>1. \A f \in Firings : worker[f] \in Nat
    BY DEF TypeOK
  <2>2. SUFFICES ASSUME NEW id \in DOMAIN rows, NEW f \in Firings, WrittenBy(id, f),
                        rows'[id].lunchtime = rows[id].lunchtime
                 PROVE  WrittenBy(id, f)'
    OBVIOUS
  <2>3. /\ Named(f)' /\ UNCHANGED <<name[f], lunch[f]>>
        /\ worker'[f] \in {worker[f], worker[f] + 1}
    BY <2>2, NamedStays DEF WrittenBy
  <2>4. id[3] \in Nat
    BY DEF TypeOK
  <2> QED
    BY <2>1, <2>2, <2>3, <2>4 DEF WrittenBy
<1>2. CASE UNCHANGED rows
  BY <1>1, <1>2 DEF WriterInv
<1>3. ASSUME NEW f \in Firings, SaveWorker(f), rows' # rows PROVE WriterInv'
  <2>1. /\ DOMAIN rows' = DOMAIN rows \cup {TaskId(f)}
        /\ rows'[TaskId(f)] = [lunchtime |-> lunch[f], status |-> "INIT"]
        /\ \A id \in DOMAIN rows : id # TaskId(f) => rows'[id] = rows[id]
    BY <1>3, SaveRows DEF SaveWorker
  <2>2. \A id : id = TaskId(f) => WrittenBy(id, f)'
    BY <1>3, <2>1 DEF SaveWorker, WrittenBy, Named, TaskId, TypeOK
  <2> QED
    BY <1>1, <2>1, <2>2 DEF WriterInv
<1>4. ASSUME NEW id \in DOMAIN rows, Release(id) PROVE WriterInv'
  <2>1. /\ DOMAIN rows' = DOMAIN rows
        /\ \A x \in DOMAIN rows : rows'[x].lunchtime = rows[x].lunchtime
    <3>1. rows' = [rows EXCEPT ![id].status = "ACTIVE"]
      BY <1>4 DEF Release
    <3> QED
      BY <3>1 DEF TypeOK
  <2> QED
    BY <1>1, <2>1 DEF WriterInv
<1> QED
  BY <1>2, <1>3, <1>4 DEF Next, Execute, Fire, SetCalendar, ReadCalendar,
    ScriptThrows, Finish, Tick, Resize, vars

\* The names and the writers of the rows, for firings that are spaced.
LEMMA NameAlways ==
  ASSUME Spaced
  PROVE  Spec => [](TypeOK /\ NameInv /\ WriterInv)
<1>1. Init => WriterInv
  BY DEF Init, WriterInv
<1>2. TypeOK /\ NameInv /\ WriterInv /\ [Next]_vars => (TypeOK /\ NameInv /\ WriterInv)'
  BY Typing, NameStep, WriterStep
<1> QED
  BY <1>1, <1>2, TypingInit, NameInit, PTL DEF Spec

\* The row of a firing says when it was due: its id is made of the second of
\* its lunchtime, which is the occurrence that fired.
THEOREM NamesCorrect ==
  ASSUME Spaced
  PROVE  Spec => []NamedByOccurrence
<1>1. TypeOK /\ NameInv /\ WriterInv => NamedByOccurrence
  <2> SUFFICES ASSUME TypeOK, NameInv, WriterInv, NEW id \in DOMAIN rows
               PROVE  /\ id[2] = Truncate(rows[id].lunchtime, "second")
                      /\ id[1] \in Crontabs => \E f \in Firings :
                           /\ f.project = id[1] /\ f.time = rows[id].lunchtime
                           /\ pc[f] \in {"save", "done"}
    BY DEF NamedByOccurrence
  <2>1. PICK f \in Firings : WrittenBy(id, f)
    BY DEF WriterInv
  <2>2. name[f] = Truncate(lunch[f], "second") /\ (f.project \in Crontabs => lunch[f] = f.time)
    BY <2>1 DEF WrittenBy, NameInv, Named, Second
  <2> QED
    BY <2>1, <2>2 DEF WrittenBy, Named
<1> QED
  BY <1>1, NameAlways, PTL

\* A released row is not written again: no other firing has its id, and its
\* own firing has gone on to the next worker.
THEOREM NeverReset ==
  ASSUME Spaced
  PROVE  Spec => NoRowReset
<1> DEFINE Kept == \A id \in DOMAIN rows : rows[id].status = "ACTIVE" =>
                                             rows'[id].status = "ACTIVE"
<1>1. TypeOK /\ NameInv /\ WriterInv /\ [Next]_vars => [Kept]_vars
  <2> SUFFICES ASSUME TypeOK, NameInv, WriterInv, Next, NEW id \in DOMAIN rows,
                      rows[id].status = "ACTIVE"
               PROVE  rows'[id].status = "ACTIVE"
    BY Zenon
  <2>1. CASE UNCHANGED rows
    BY <2>1
  <2>2. ASSUME NEW f \in Firings, SaveWorker(f), rows' # rows PROVE rows'[id] = rows[id]
    <3>1. id # TaskId(f)
      <4>1. SUFFICES ASSUME id = TaskId(f) PROVE FALSE
        OBVIOUS
      <4>2. PICK g \in Firings : WrittenBy(id, g)
        BY DEF WriterInv
      <4>3. /\ g.project = f.project /\ name[g] = name[f] /\ worker[f] < worker[g]
            /\ Named(f) /\ Named(g)
        BY <2>2, <4>1, <4>2 DEF WrittenBy, TaskId, SaveWorker, Named
      <4>4. g # f
        BY <4>3 DEF TypeOK
      <4>5. /\ lunch[f] \in Instants(f) /\ lunch[g] \in Instants(g)
            /\ Second(lunch[f]) = Second(lunch[g])
        BY <4>3 DEF NameInv, Named
      <4> QED
        BY <4>3, <4>4, <4>5 DEF Spaced
    <3> QED
      BY <2>2, <3>1, SaveRows DEF SaveWorker
  <2>3. ASSUME NEW x \in DOMAIN rows, Release(x) PROVE rows'[id].status = "ACTIVE"
    <3>1. rows' = [rows EXCEPT ![x].status = "ACTIVE"]
      BY <2>3 DEF Release
    <3> QED
      BY <3>1 DEF TypeOK
  <2> QED
    BY <2>1, <2>2, <2>3 DEF Next, Execute, Fire, SetCalendar, ReadCalendar,
      ScriptThrows, Finish, Tick, Resize
<1> QED
  BY <1>1, NameAlways, PTL DEF Spec, NoRowReset

-----------------------------------------------------------------------------
(* The dependences *)

\* Users leave num_workers of the projects with a crontab alone.
Steady == \A r \in Resizes : r[1] \notin Crontabs

\* At first every firing has all its workers before it.
LEMMA CompleteInit == Init => CompleteInv
<1> SUFFICES ASSUME Init PROVE CompleteInv
  OBVIOUS
<1>1. \A f \in Firings : worker[f] = 0 /\ pc[f] = "waiting"
  BY DEF Init
<1> QED
  BY <1>1 DEF CompleteInv, Named

\* A worker is gone through when its row has been written.
LEMMA CompleteStep ==
  ASSUME Steady, TypeOK, TypeOK', CompleteInv, [Next]_vars
  PROVE  CompleteInv'
<1> SUFFICES ASSUME faults' = 0 PROVE CompleteInv'
  BY DEF CompleteInv
<1>1. faults = 0 /\ ~Fault
  <2>1. faults \in Nat /\ faults' \in Nat
    BY Consts DEF TypeOK
  <2>2. ~Fault
    BY <2>1 DEF Fault
  <2>3. faults' = faults
    BY <2>2 DEF Next, Execute, Fire, SetCalendar, ReadCalendar, ScriptThrows,
      SaveWorker, Finish, Tick, Release, Resize, vars
  <2> QED
    BY <2>2, <2>3
<1>2. \A f \in Firings : worker[f] \in Nat
  BY DEF TypeOK
<1>3. ASSUME NEW f \in Firings, Fire(f) \/ SetCalendar(f) \/ ReadCalendar(f)
      PROVE  CompleteInv'
  <2>1. /\ UNCHANGED <<worker, rows, numWorkers>> /\ ~Named(f) /\ pc'[f] # "done"
        /\ \A g \in Firings : g # f => pc'[g] = pc[g] /\ name'[g] = name[g]
    BY <1>3 DEF Fire, SetCalendar, ReadCalendar, Step, Named, TypeOK
  <2>2. worker[f] = 0
    BY <1>1, <2>1 DEF CompleteInv
  <2> QED
    BY <1>1, <2>1, <2>2 DEF CompleteInv, Named, MoreWorkers
<1>4. ASSUME NEW f \in Firings, Finish(f)
      PROVE  CompleteInv'
  <2>1. /\ UNCHANGED <<worker, rows, numWorkers, name>> /\ ~MoreWorkers(f)
        /\ Named(f) /\ Named(f)'
        /\ \A g \in Firings : g # f => pc'[g] = pc[g]
    BY <1>4 DEF Finish, Step, Named, TypeOK
  <2> QED
    BY <1>1, <2>1 DEF CompleteInv, Named, MoreWorkers
<1>5. ASSUME NEW f \in Firings, SaveWorker(f)
      PROVE  CompleteInv'
  <2>1. /\ UNCHANGED <<pc, numWorkers, name, faults>> /\ pc[f] = "save"
        /\ worker' = [worker EXCEPT ![f] = @ + 1]
    BY <1>1, <1>5 DEF SaveWorker
  <2>2. worker'[f] = worker[f] + 1 /\ \A g \in Firings : g # f => worker'[g] = worker[g]
    BY <2>1 DEF TypeOK
  <2>3. DOMAIN rows' = DOMAIN rows \cup {TaskId(f)}
    BY <1>5, <2>1, SaveRows
  <2>4. \A j \in 0..(worker'[f] - 1) : j \in 0..(worker[f] - 1) \/ j = worker[f]
    BY <1>2, <2>2
  <2>5. \A j \in 0..(worker'[f] - 1) : <<f.project, name[f], j>> \in DOMAIN rows'
    BY <1>1, <2>3, <2>4 DEF CompleteInv, TaskId
  <2> QED
    BY <1>1, <2>1, <2>2, <2>3, <2>5 DEF CompleteInv, Named, MoreWorkers
<1>6. ASSUME NEW id \in DOMAIN rows, Release(id)
      PROVE  CompleteInv'
  <2>1. DOMAIN rows' = DOMAIN rows
    BY <1>6 DEF Release
  <2> QED
    BY <1>1, <1>6, <2>1 DEF Release, threadVars, CompleteInv, Named, MoreWorkers
<1>7. ASSUME NEW r \in Resizes, Resize(r[1], r[2])
      PROVE  CompleteInv'
  <2>1. \A f \in Firings : f.project \in Crontabs =>
                             numWorkers'[f.project] = numWorkers[f.project]
    BY <1>7, FiringTyped DEF Resize, Steady, TypeOK
  <2> QED
    BY <1>1, <1>7, <2>1 DEF Resize, threadVars, CompleteInv, Named, MoreWorkers
<1>8. CASE Tick \/ UNCHANGED vars
  BY <1>1, <1>8 DEF Tick, vars, threadVars, CompleteInv, Named, MoreWorkers
<1> QED
  BY <1>1, <1>3, <1>4, <1>5, <1>6, <1>7, <1>8 DEF Next, Execute, ScriptThrows

\* The ids that parseDependence computes for a task are ids that the firings
\* of the required project have written, once they are over.
THEOREM DependencesExist ==
  ASSUME Spaced, Steady
  PROVE  Spec => []RequiredRowsExist
<1>1. TypeOK /\ NameInv /\ WriterInv /\ CompleteInv => RequiredRowsExist
  <2> SUFFICES ASSUME TypeOK, NameInv, WriterInv, CompleteInv,
                      NEW id \in DOMAIN rows, faults = 0,
                      \A f \in Firings : f.time < rows[id].lunchtime => pc[f] = "done",
                      NEW u \in Dependences(id)
               PROVE  u \in DOMAIN rows
    BY DEF RequiredRowsExist
  <2> DEFINE l == rows[id].lunchtime
             times == [p \in Crontabs |-> Cron[p]]
  <2>1. id[1] \in Projects /\ l \in Int /\ Second(l) \in Int /\ Second(l) <= l
    BY SecondTyped DEF TypeOK
  <2>2. u \in Required(Rules[id[1]], times, numWorkers, Second(l)) /\ u[2] >= Start
    BY DEF Dependences, Second
  <2>3. PICK r \in Rules[id[1]] : /\ r.project \in Crontabs
                                  /\ \E t \in RuleTimes(r, Cron[r.project], Second(l)) :
                                       u \in Ids(r.project, t, numWorkers[r.project])
    <3>1. \A ts : u \in Required(Rules[id[1]], ts, numWorkers, Second(l)) =>
            \E r \in Rules[id[1]] : /\ r.project \in DOMAIN ts
                                    /\ \E t \in RuleTimes(r, ts[r.project], Second(l)) :
                                         u \in Ids(r.project, t, numWorkers[r.project])
      BY DEF Required
    <3>2. PICK r \in Rules[id[1]] : /\ r.project \in DOMAIN times
                                    /\ \E t \in RuleTimes(r, times[r.project], Second(l)) :
                                         u \in Ids(r.project, t, numWorkers[r.project])
      BY <2>2, <3>1
    <3>3. r.project \in Crontabs /\ times[r.project] = Cron[r.project]
      BY <3>2
    <3> HIDE DEF times
    <3> QED
      BY <3>2, <3>3
  <2>4. PICK t \in RuleTimes(r, Cron[r.project], Second(l)) :
               u \in Ids(r.project, t, numWorkers[r.project])
    BY <2>3
  <2>5. r.project \in Projects /\ Cron[r.project] \subseteq Int
    BY <2>3, Consts
  <2>6. t \in Cron[r.project] /\ t \in Int /\ t < l
    <3>1. RuleBase(r, Second(l)) \in Int /\ RuleBase(r, Second(l)) <= Second(l)
      BY <2>1, RuleBaseTyped
    <3>2. r.count \in Nat
      BY <2>1, ExecutorAssumption
    <3>3. t \in Cron[r.project] /\ t \in Int /\ t < RuleBase(r, Second(l))
      BY <2>4, <2>5, <3>1, <3>2, TimeBeforeBound DEF RuleTimes
    <3> QED
      BY <2>1, <3>1, <3>3
  <2>7. PICK j \in 0..(numWorkers[r.project] - 1) : u = <<r.project, Second(t), j>>
    BY <2>4 DEF Ids, Second
  <2>8. PICK g \in Firings : WrittenBy(id, g)
    BY DEF WriterInv
  <2>9. l <= Horizon
    BY <2>8, Consts DEF WrittenBy, NameInv, Named, TypeOK
  <2> DEFINE f == [project |-> r.project, time |-> t]
  <2>10. f \in Firings /\ f.project = r.project /\ f.time = t
    <3>1. Second(t) <= t /\ Second(t) \in Int /\ Second(t) >= Start
      BY <2>2, <2>6, <2>7, SecondTyped
    <3>2. t \in Start..Horizon
      BY <2>1, <2>6, <2>9, <3>1, Consts
    <3> QED
      BY <2>5, <2>6, <3>2 DEF Firings
  <2> HIDE DEF f, times, l
  <2>11. pc[f] = "done"
    BY <2>6, <2>10 DEF l
  <2>12. name[f] = Second(t)
    BY <2>3, <2>10, <2>11 DEF NameInv, Named
  <2>13. j \in 0..(worker[f] - 1)
    <3>1. ~MoreWorkers(f)
      BY <2>3, <2>10, <2>11 DEF CompleteInv
    <3>2. worker[f] \in Nat /\ numWorkers[r.project] \in Nat
      BY <2>5, <2>10 DEF TypeOK
    <3> QED
      BY <2>10, <3>1, <3>2 DEF MoreWorkers
  <2> QED
    BY <2>7, <2>10, <2>12, <2>13 DEF CompleteInv
<1>2. TypeOK /\ CompleteInv /\ [Next]_vars => CompleteInv'
  BY Typing, CompleteStep
<1>3. Spec => []CompleteInv
  BY <1>2, CompleteInit, TypingInit, Typing, PTL DEF Spec
<1> QED
  BY <1>1, <1>3, NameAlways, PTL

\* The times that parseDependence computes for a rule are the last occurrences
\* before the base the rule speaks of.
THEOREM LatestRequired ==
  ASSUME Spaced, Clear
  PROVE  Spec => []RequiresLatest
<1>1. TypeOK /\ NameInv /\ WriterInv => RequiresLatest
  <2> SUFFICES ASSUME TypeOK, NameInv, WriterInv, NEW id \in DOMAIN rows,
                      NEW r \in Rules[id[1]], r.project \in Crontabs
               PROVE  LET time == Truncate(rows[id].lunchtime, "second")
                          base == IF Moved(r, time) > time THEN time ELSE Moved(r, time)
                      IN  RuleTimes(r, Cron[r.project], time)
                            = LatestBefore(Cron[r.project], base, r.count)
    BY DEF RequiresLatest
  <2> DEFINE time == Second(rows[id].lunchtime)
             base == IF Moved(r, time) > time THEN time ELSE Moved(r, time)
  <2>1. PICK f \in Firings : WrittenBy(id, f)
    BY DEF WriterInv
  <2>2. /\ f.project = id[1] /\ id[1] \in Projects
        /\ rows[id].lunchtime = lunch[f] /\ lunch[f] \in Instants(f)
    BY <2>1, FiringTyped DEF WrittenBy, NameInv, Named
  <2>3. time \in Int /\ Truncate(rows[id].lunchtime, "second") = time
    BY SecondTyped DEF TypeOK
  <2>4. /\ r.unit # "day" /\ r.offset * Unit["second"] \in (-IntLimit)..(IntLimit - 1)
        /\ NoneOnBorder(Cron[r.project], RuleBase(r, time), r.count)
    BY <2>2 DEF Clear
  <2> HIDE DEF time
  <2>5. RuleBase(r, time) = base
    BY <2>4, WrapFits DEF RuleBase, BaseTime, Capped, Moved
  <2>6. base \in Int
    BY <2>2, <2>3, <2>5, RuleBaseTyped
  <2>7. r.count \in Nat /\ Cron[r.project] \subseteq Int
    BY <2>2, Consts, ExecutorAssumption
  <2> HIDE DEF base
  <2>8. RuleTimes(r, Cron[r.project], time) = LatestBefore(Cron[r.project], base, r.count)
    BY <2>4, <2>5, <2>6, <2>7, TimeBeforeIsLatest DEF RuleTimes
  <2> QED
    BY <2>3, <2>8 DEF base
<1> QED
  BY <1>1, NameAlways, PTL
=============================================================================
