--------------------------- MODULE ClassInitProofs ---------------------------
(***************************************************************************)
(* Proofs about ClassInit for any classes, hierarchies without circles,    *)
(* methods of any length and stacks of any size.                           *)
(***************************************************************************)
EXTENDS ClassInit, FiniteSetTheorems, SequenceTheorems, TLAPS

\* A map from classes to the next ones up leads out of every set of classes.
Upward(next) ==
  /\ next \in [Classes -> Classes \cup {NoClass}]
  /\ \A s \in (SUBSET Classes) \ {{}} : \E c \in s : next[c] \notin s

\* f is base where the map ends and elsewhere step of its next value.
Recursive(f, next, V, base, step) ==
  /\ f \in [Classes -> V]
  /\ \A x \in Classes :
       f[x] = IF next[x] = NoClass THEN base[x] ELSE step[x][f[next[x]]]

\* The superclass of c that counts as an ancestor.
Super(c) == IF c \in hierarchy.interfaces THEN NoClass ELSE hierarchy.super[c]

\* The <clinit> of c is frame i.
At(i, c) == stack[i].method = Clinit(c)

Running(c) == \E i \in 1..Len(stack) : At(i, c)

\* A <clinit> is on the stack once at most, from the time its class is started
\* until it returns, unless the process is over.
StackInv ==
  /\ panicked => stack = <<>>
  /\ \A c \in Classes : \A i, j \in 1..Len(stack) : At(i, c) /\ At(j, c) => i = j
  /\ \A c \in Classes : \A i \in 1..Len(stack) :
       At(i, c) => c \in initStarted \ finished
  /\ \A c \in initStarted : HasClinit(c) /\ ~panicked => c \in finished \/ Running(c)

\* Superclasses are started with a class.  Above a <clinit> that has not begun
\* there are those of ancestors only, up to the first of them that has begun.
OrderInv ==
  /\ \A c \in initStarted : Super(c) # NoClass => Super(c) \in initStarted
  /\ \A i, j \in 1..Len(stack) : \A c \in Classes \ begun : i < j /\ At(i, c) =>
       \E k \in (i + 1)..j : \E a \in Ancestors(c) :
         At(k, a) /\ (a \in begun \/ k = j)

-----------------------------------------------------------------------------
(* Recursion along the superclasses *)

\* What holds of a class whenever it holds of the next one up holds of all.
LEMMA UpwardInduction ==
  ASSUME NEW next, Upward(next), NEW S,
         \A c \in Classes : (next[c] # NoClass => next[c] \in S) => c \in S
  PROVE  \A c \in Classes : c \in S
<1> SUFFICES ASSUME Classes \ S # {} PROVE FALSE
  OBVIOUS
<1>1. PICK c \in Classes \ S : next[c] \notin Classes \ S
  BY DEF Upward
<1>2. next[c] \in Classes \cup {NoClass}
  BY DEF Upward
<1> QED
  BY <1>1, <1>2

\* A recursion along the superclasses defines a function.
LEMMA UpwardRecursion ==
  ASSUME NEW next, Upward(next), NEW V, NEW base \in [Classes -> V],
         NEW step \in [Classes -> [V -> V]]
  PROVE  \E f : Recursive(f, next, V, base, step)
<1> DEFINE Value(f, x) == IF next[x] = NoClass THEN base[x]
                          ELSE step[x][f[next[x]]]
           Closed(d) == d \subseteq Classes
                        /\ \A x \in d : next[x] # NoClass => next[x] \in d
           Solves(d, f) ==
             Closed(d) /\ \A x \in d : f[x] \in V /\ f[x] = Value(f, x)
           Good == {x \in Classes : \E d, f : x \in d /\ Solves(d, f)}
<1>1. ASSUME NEW d, NEW e, NEW f, NEW g, Solves(d, f), Solves(e, g)
      PROVE  \A x \in d \cap e : f[x] = g[x]
  <2> DEFINE S == {x \in Classes : x \in d \cap e => f[x] = g[x]}
  <2>1. ASSUME NEW c \in Classes, next[c] # NoClass => next[c] \in S
        PROVE  c \in S
    BY <1>1, <2>1
  <2>2. \A c \in Classes : c \in S
    <3> HIDE DEF S
    <3> QED
      BY <2>1, UpwardInduction
  <2> QED
    BY <1>1, <2>2
<1>2. ASSUME NEW c \in Classes, next[c] # NoClass => next[c] \in Good
      PROVE  c \in Good
  <2> SUFFICES ASSUME c \notin Good PROVE FALSE
    OBVIOUS
  <2>1. PICK d, f : Solves(d, f) /\ (next[c] # NoClass => next[c] \in d)
    <3>1. CASE next[c] = NoClass
      <4>1. Solves({}, base)
        OBVIOUS
      <4> HIDE DEF Solves
      <4> QED
        BY <3>1, <4>1
    <3>2. CASE next[c] # NoClass
      <4> HIDE DEF Solves
      <4> QED
        BY <1>2, <3>2
    <3> QED
      BY <3>1, <3>2
  <2>2. c \notin d
    <3> HIDE DEF Solves
    <3> QED
      BY <2>1
  <2> DEFINE e == d \cup {c}
             g == [x \in e |-> IF x = c THEN Value(f, c) ELSE f[x]]
  <2>3. Closed(e)
    BY <2>1
  <2>4. ASSUME NEW x \in e PROVE g[x] \in V /\ g[x] = Value(g, x)
    <3>1. \A y \in d : g[y] = f[y]
      BY <2>1, <2>2
    <3>2. g[c] = Value(f, c) /\ Value(f, c) \in V
      BY <2>1
    <3> HIDE DEF g
    <3>3. next[x] # NoClass => next[x] \in d
      BY <2>1
    <3> QED
      BY <2>1, <3>1, <3>2, <3>3
  <2>5. Solves(e, g) /\ c \in e
    <3> HIDE DEF g, e
    <3>1. Solves(e, g)
      BY <2>3, <2>4
    <3>2. c \in e
      BY DEF e
    <3> QED
      BY <3>1, <3>2
  <2> HIDE DEF Solves, g, e
  <2> QED
    BY <2>5
<1>3. \A c \in Classes : c \in Good
  <2> HIDE DEF Good
  <2> QED
    BY <1>2, UpwardInduction
<1> DEFINE F == [x \in Classes |->
                   CHOOSE v : \E d, f : x \in d /\ Solves(d, f) /\ v = f[x]]
<1>4. ASSUME NEW x \in Classes PROVE F[x] \in V /\ F[x] = Value(F, x)
  <2>1. PICK d, f : x \in d /\ Solves(d, f)
    BY <1>3
  <2>2. ASSUME NEW y \in d PROVE F[y] = f[y]
    <3> DEFINE Is(v) == \E e, g : y \in e /\ Solves(e, g) /\ v = g[y]
    <3>1. y \in Classes
      BY <2>1
    <3>2. Is(f[y])
      BY <2>1
    <3>3. \A v : Is(v) => v = f[y]
      <4> HIDE DEF Solves
      <4> QED
        BY <1>1, <2>1
    <3>4. F[y] = CHOOSE v : Is(v)
      BY <3>1
    <3> HIDE DEF Is, F
    <3> QED
      BY <3>2, <3>3, <3>4
  <2>3. next[x] # NoClass => next[x] \in d
    BY <2>1
  <2>4. f[x] \in V /\ f[x] = Value(f, x)
    BY <2>1
  <2> HIDE DEF F
  <2> QED
    BY <2>1, <2>2, <2>3, <2>4
<1>5. F = [x \in Classes |-> F[x]]
  OBVIOUS
<1> HIDE DEF F
<1>6. Recursive(F, next, V, base, step)
  BY <1>4, <1>5 DEF Recursive
<1> QED
  BY <1>6

\* The superclasses lead out of every set of classes, as do those of them that
\* InitClass goes on with.
LEMMA SupersUpward ==
  ASSUME hierarchy \in Hierarchies
  PROVE  /\ Upward([x \in Classes |-> Super(x)])
         /\ Upward([x \in Classes |-> SuperToInit(x)])
         /\ NoClass \notin Classes
         /\ \A x \in Classes :
              /\ Super(x) \in Classes \cup {NoClass}
              /\ SuperToInit(x) \in {Super(x), NoClass}
              /\ SuperToInit(x) # NoClass => SuperToInit(x) \notin initStarted
              /\ SuperToInit(x) = NoClass /\ Super(x) # NoClass =>
                   Super(x) \in initStarted
<1>1. /\ NoClass \notin Classes
      /\ \A x \in Classes : hierarchy.super[x] \in Classes \cup {NoClass}
      /\ \A s \in (SUBSET Classes) \ {{}} : \E c \in s : hierarchy.super[c] \notin s
  BY ClassAssumption
<1>2. \A x \in Classes :
        /\ Super(x) \in {hierarchy.super[x], NoClass}
        /\ SuperToInit(x) \in {hierarchy.super[x], NoClass}
  BY DEF Super, SuperToInit
<1>3. \A s \in (SUBSET Classes) \ {{}} : \E c \in s :
        Super(c) \notin s /\ SuperToInit(c) \notin s
  BY <1>1, <1>2
<1>4. /\ Upward([x \in Classes |-> Super(x)])
      /\ Upward([x \in Classes |-> SuperToInit(x)])
  BY <1>1, <1>2, <1>3 DEF Upward
<1>5. ASSUME NEW x \in Classes
      PROVE  /\ Super(x) \in Classes \cup {NoClass}
             /\ SuperToInit(x) \in {Super(x), NoClass}
             /\ SuperToInit(x) # NoClass => SuperToInit(x) \notin initStarted
             /\ SuperToInit(x) = NoClass /\ Super(x) # NoClass =>
                  Super(x) \in initStarted
  BY <1>1 DEF Super, SuperToInit
<1> QED
  BY <1>1, <1>4, <1>5

\* The ancestors are the superclass and its ancestors.
LEMMA AncestorsUnfold ==
  ASSUME hierarchy \in Hierarchies, NEW c \in Classes
  PROVE  Ancestors(c) = IF Super(c) = NoClass THEN {}
                        ELSE {Super(c)} \cup Ancestors(Super(c))
<1> DEFINE next == [x \in Classes |-> Super(x)]
           base == [x \in Classes |-> {}]
           step == [x \in Classes |-> [v \in SUBSET Classes |->
                      IF Super(x) = NoClass THEN v ELSE {Super(x)} \cup v]]
           Solves(f) == f = [x \in Classes |->
             IF x \in hierarchy.interfaces \/ hierarchy.super[x] = NoClass
             THEN {} ELSE {hierarchy.super[x]} \cup f[hierarchy.super[x]]]
<1>1. /\ Upward(next) /\ base \in [Classes -> SUBSET Classes]
      /\ step \in [Classes -> [SUBSET Classes -> SUBSET Classes]]
  BY SupersUpward
<1>2. PICK f : Recursive(f, next, SUBSET Classes, base, step)
  <2> HIDE DEF next, base, step
  <2> QED
    BY <1>1, UpwardRecursion
<1>3. Solves(f)
  <2>1. ASSUME NEW x \in Classes
        PROVE  f[x] = IF x \in hierarchy.interfaces \/ hierarchy.super[x] = NoClass
                      THEN {} ELSE {hierarchy.super[x]} \cup f[hierarchy.super[x]]
    <3>1. f[x] = IF Super(x) = NoClass THEN {} ELSE step[x][f[Super(x)]]
      BY <1>2 DEF Recursive
    <3>2. Super(x) # NoClass => f[Super(x)] \in SUBSET Classes
      BY SupersUpward, <1>2 DEF Recursive
    <3>3. Super(x) # NoClass => step[x][f[Super(x)]] = {Super(x)} \cup f[Super(x)]
      BY <3>2
    <3> HIDE DEF step
    <3> QED
      BY <3>1, <3>3 DEF Super
  <2>2. f = [x \in Classes |-> f[x]]
    BY <1>2 DEF Recursive
  <2> HIDE DEF next, base, step
  <2> QED
    BY <2>1, <2>2
<1> DEFINE above == CHOOSE g : Solves(g)
<1>4. Solves(above)
  <2> HIDE DEF Solves
  <2> QED
    BY <1>3
<1>5. \A x : Ancestors(x) = above[x]
  BY DEF Ancestors
<1> HIDE DEF above
<1>6. Super(c) \in Classes \cup {NoClass}
  BY SupersUpward
<1> QED
  BY <1>4, <1>5, <1>6 DEF Super

\* Ancestors are classes, and theirs are ancestors too.
LEMMA AncestorsClosed ==
  ASSUME hierarchy \in Hierarchies
  PROVE  \A c \in Classes :
           Ancestors(c) \subseteq Classes
           /\ \A s \in Ancestors(c) : Ancestors(s) \subseteq Ancestors(c)
<1> DEFINE next == [x \in Classes |-> Super(x)]
           S == {x \in Classes :
                   Ancestors(x) \subseteq Classes
                   /\ \A s \in Ancestors(x) : Ancestors(s) \subseteq Ancestors(x)}
<1>1. ASSUME NEW c \in Classes, next[c] # NoClass => next[c] \in S
      PROVE  c \in S
  BY <1>1, AncestorsUnfold, SupersUpward
<1>2. Upward(next)
  BY SupersUpward
<1>3. \A c \in Classes : c \in S
  <2> HIDE DEF S, next
  <2> QED
    BY <1>1, <1>2, UpwardInduction
<1> QED
  BY <1>3

\* No class is its own ancestor.
LEMMA NotOwnAncestor ==
  ASSUME hierarchy \in Hierarchies
  PROVE  \A c \in Classes : c \notin Ancestors(c)
<1> DEFINE next == [x \in Classes |-> Super(x)]
           S == {x \in Classes : x \notin Ancestors(x)}
<1>1. ASSUME NEW c \in Classes, next[c] # NoClass => next[c] \in S
      PROVE  c \in S
  <2> SUFFICES ASSUME c \in Ancestors(c) PROVE FALSE
    OBVIOUS
  <2> DEFINE s == Super(c)
  <2>1. s # NoClass /\ s \in Classes /\ s \notin Ancestors(s)
    BY <1>1, AncestorsUnfold, SupersUpward
  <2>2. c = s \/ c \in Ancestors(s)
    BY <2>1, AncestorsUnfold
  <2>3. s \in Ancestors(c)
    BY <2>1, AncestorsUnfold
  <2> QED
    BY <2>1, <2>2, <2>3, AncestorsClosed
<1>2. Upward(next)
  BY SupersUpward
<1>3. \A c \in Classes : c \in S
  <2> HIDE DEF S, next
  <2> QED
    BY <1>1, <1>2, UpwardInduction
<1> QED
  BY <1>3

-----------------------------------------------------------------------------
(* InitClass *)

\* The classes one call of InitClass marks.
Marked(c) == ToSet(InitChain(c))

\* The elements of two sequences put together.
LEMMA ConcatElements ==
  ASSUME NEW S, NEW u \in Seq(S), NEW v \in Seq(S)
  PROVE  ToSet(u \o v) = ToSet(u) \cup ToSet(v)
<1>1. ASSUME NEW x \in ToSet(u \o v) PROVE x \in ToSet(u) \cup ToSet(v)
  <2>1. PICK i \in 1..Len(u \o v) : x = (u \o v)[i]
    BY DEF ToSet
  <2>2. CASE i <= Len(u)
    BY <2>1, <2>2 DEF ToSet
  <2>3. CASE i > Len(u)
    <3>1. x = v[i - Len(u)] /\ i - Len(u) \in 1..Len(v)
      BY <2>1, <2>3
    <3> QED
      BY <3>1 DEF ToSet
  <2> QED
    BY <2>2, <2>3
<1>2. ASSUME NEW x \in ToSet(u) PROVE x \in ToSet(u \o v)
  <2>1. PICK i \in 1..Len(u) : x = u[i]
    BY DEF ToSet
  <2>2. i \in 1..Len(u \o v) /\ (u \o v)[i] = x
    BY <2>1
  <2> QED
    BY <2>2 DEF ToSet
<1>3. ASSUME NEW x \in ToSet(v) PROVE x \in ToSet(u \o v)
  <2>1. PICK i \in 1..Len(v) : x = v[i]
    BY DEF ToSet
  <2>2. i + Len(u) \in 1..Len(u \o v) /\ (u \o v)[i + Len(u)] = x
    BY <2>1
  <2> QED
    BY <2>2 DEF ToSet
<1> QED
  BY <1>1, <1>2, <1>3

\* InitClass does its step for the class and goes on with the superclass.
LEMMA AlongUnfold ==
  ASSUME hierarchy \in Hierarchies, NEW step, step \in [Classes -> Seq(Classes)]
  PROVE  \A c \in Classes :
           /\ Along(step, c) \in Seq(Classes)
           /\ Along(step, c) = IF SuperToInit(c) = NoClass THEN step[c]
                               ELSE step[c] \o Along(step, SuperToInit(c))
<1> DEFINE next == [x \in Classes |-> SuperToInit(x)]
           more == [x \in Classes |-> [v \in Seq(Classes) |-> step[x] \o v]]
           Solves(f) == f = [x \in Classes |->
             IF SuperToInit(x) = NoClass THEN step[x]
                                         ELSE step[x] \o f[SuperToInit(x)]]
<1>1. Upward(next) /\ more \in [Classes -> [Seq(Classes) -> Seq(Classes)]]
  BY SupersUpward
<1>2. PICK f : Recursive(f, next, Seq(Classes), step, more)
  <2> HIDE DEF next, more
  <2> QED
    BY <1>1, UpwardRecursion
<1>3. Solves(f)
  <2>1. ASSUME NEW x \in Classes
        PROVE  f[x] = IF SuperToInit(x) = NoClass THEN step[x]
                                                  ELSE step[x] \o f[SuperToInit(x)]
    <3>1. f[x] = IF SuperToInit(x) = NoClass THEN step[x]
                                             ELSE more[x][f[SuperToInit(x)]]
      BY <1>2 DEF Recursive
    <3>2. SuperToInit(x) # NoClass => f[SuperToInit(x)] \in Seq(Classes)
      BY SupersUpward, <1>2 DEF Recursive
    <3>3. SuperToInit(x) # NoClass =>
            more[x][f[SuperToInit(x)]] = step[x] \o f[SuperToInit(x)]
      BY <3>2
    <3> HIDE DEF more
    <3> QED
      BY <3>1, <3>3
  <2>2. f = [x \in Classes |-> f[x]]
    BY <1>2 DEF Recursive
  <2> HIDE DEF next, more
  <2> QED
    BY <2>1, <2>2
<1> DEFINE up == CHOOSE g : Solves(g)
<1>4. Solves(up)
  <2> HIDE DEF Solves
  <2> QED
    BY <1>3
<1>5. \A x : Along(step, x) = up[x]
  BY DEF Along
<1> DEFINE S == {x \in Classes : up[x] \in Seq(Classes)}
<1>6. \A x \in Classes :
        /\ SuperToInit(x) \in Classes \cup {NoClass}
        /\ up[x] = IF SuperToInit(x) = NoClass THEN step[x]
                                               ELSE step[x] \o up[SuperToInit(x)]
  <2> HIDE DEF up
  <2> QED
    BY <1>4, SupersUpward
<1> HIDE DEF up
<1>7. ASSUME NEW c \in Classes, next[c] # NoClass => next[c] \in S
      PROVE  c \in S
  <2>1. CASE SuperToInit(c) = NoClass
    BY <1>6, <2>1
  <2>2. CASE SuperToInit(c) # NoClass
    <3>1. up[SuperToInit(c)] \in Seq(Classes)
      BY <1>7, <2>2
    <3>2. step[c] \o up[SuperToInit(c)] \in Seq(Classes)
      BY <3>1
    <3> QED
      BY <1>6, <2>2, <3>2
  <2> QED
    BY <2>1, <2>2
<1>8. \A c \in Classes : c \in S
  <2> HIDE DEF S, next
  <2> QED
    BY <1>1, <1>7, UpwardInduction
<1> QED
  BY <1>5, <1>6, <1>8

\* InitClass marks the class, and those above it as long as none is marked.
LEMMA MarkedUnfold ==
  ASSUME hierarchy \in Hierarchies, NEW c \in Classes
  PROVE  Marked(c) = IF SuperToInit(c) = NoClass THEN {c}
                     ELSE {c} \cup Marked(SuperToInit(c))
<1> DEFINE one == [x \in Classes |-> <<x>>]
<1>1. one \in [Classes -> Seq(Classes)] /\ one[c] = <<c>>
  OBVIOUS
<1>2. \A x : InitChain(x) = Along(one, x)
  BY DEF InitChain
<1> HIDE DEF one
<1>3. SuperToInit(c) \in Classes \cup {NoClass}
  BY SupersUpward
<1>4. InitChain(c) = IF SuperToInit(c) = NoClass THEN <<c>>
                     ELSE <<c>> \o InitChain(SuperToInit(c))
  BY <1>1, <1>2, AlongUnfold
<1>5. SuperToInit(c) # NoClass => InitChain(SuperToInit(c)) \in Seq(Classes)
  BY <1>1, <1>2, <1>3, AlongUnfold
<1>6. ToSet(<<c>>) = {c}
  BY DEF ToSet
<1>7. CASE SuperToInit(c) = NoClass
  BY <1>4, <1>6, <1>7 DEF Marked
<1>8. CASE SuperToInit(c) # NoClass
  <2>1. ToSet(<<c>> \o InitChain(SuperToInit(c)))
          = {c} \cup ToSet(InitChain(SuperToInit(c)))
    <3> DEFINE u == <<c>>
               v == InitChain(SuperToInit(c))
    <3>1. u \in Seq(Classes) /\ v \in Seq(Classes) /\ ToSet(u) = {c}
      BY <1>5, <1>6, <1>8
    <3> HIDE DEF u, v
    <3>2. ToSet(u \o v) = ToSet(u) \cup ToSet(v)
      BY <3>1, ConcatElements
    <3> QED
      BY <3>1, <3>2 DEF u, v
  <2> QED
    BY <1>4, <1>8, <2>1 DEF Marked
<1> QED
  BY <1>7, <1>8

\* What InitClass marks was not marked, and nothing is left out above it.
LEMMA MarkedFresh ==
  ASSUME hierarchy \in Hierarchies, NEW c \in Classes, c \notin initStarted
  PROVE  /\ c \in Marked(c) /\ Marked(c) \subseteq Classes
         /\ Marked(c) \cap initStarted = {}
         /\ \A x \in Marked(c) : Super(x) # NoClass =>
              Super(x) \in initStarted \cup Marked(c)
<1> DEFINE next == [x \in Classes |-> SuperToInit(x)]
           Fresh(x) == /\ x \in Marked(x) /\ Marked(x) \subseteq Classes
                       /\ Marked(x) \cap initStarted = {}
                       /\ \A y \in Marked(x) : Super(y) # NoClass =>
                            Super(y) \in initStarted \cup Marked(x)
           S == {x \in Classes : x \notin initStarted => Fresh(x)}
<1>1. ASSUME NEW x \in Classes, next[x] # NoClass => next[x] \in S
      PROVE  x \in S
  <2> SUFFICES ASSUME x \notin initStarted PROVE Fresh(x)
    OBVIOUS
  <2>1. CASE SuperToInit(x) = NoClass
    BY <2>1, MarkedUnfold, SupersUpward
  <2>2. CASE SuperToInit(x) # NoClass
    <3> DEFINE s == SuperToInit(x)
    <3>1. s \notin initStarted /\ s = Super(x) /\ s \in Classes
      BY <2>2, SupersUpward
    <3>2. Fresh(s)
      BY <1>1, <2>2, <3>1
    <3>3. Marked(x) = {x} \cup Marked(s)
      BY <2>2, MarkedUnfold
    <3> HIDE DEF s
    <3> QED
      BY <3>1, <3>2, <3>3
  <2> QED
    BY <2>1, <2>2
<1>2. Upward(next)
  BY SupersUpward
<1>3. \A x \in Classes : x \in S
  <2> HIDE DEF S, next
  <2> QED
    BY <1>1, <1>2, UpwardInduction
<1> QED
  BY <1>3

\* InitClass schedules the <clinit> of the class, if it has one, and then those
\* of the classes above.
LEMMA ScheduledUnfold ==
  ASSUME hierarchy \in Hierarchies, NEW c \in Classes
  PROVE  /\ Scheduled(c) \in Seq(Classes)
         /\ ClinitOf[c] \in Seq(Classes)
         /\ Scheduled(c) = IF SuperToInit(c) = NoClass THEN ClinitOf[c]
                           ELSE ClinitOf[c] \o Scheduled(SuperToInit(c))
<1>1. ClinitOf \in [Classes -> Seq(Classes)]
  BY DEF ClinitOf
<1> QED
  BY <1>1, AlongUnfold DEF Scheduled

\* The scheduled classes are the marked ones that have a <clinit>, each before
\* its ancestors.
LEMMA ScheduledInOrder ==
  ASSUME hierarchy \in Hierarchies
  PROVE  \A c \in Classes :
           /\ ToSet(Scheduled(c)) = {x \in Marked(c) : HasClinit(x)}
           /\ Marked(c) \subseteq {c} \cup Ancestors(c)
           /\ \A i, j \in 1..Len(Scheduled(c)) : i < j =>
                Scheduled(c)[j] \in Ancestors(Scheduled(c)[i])
<1> DEFINE next == [x \in Classes |-> SuperToInit(x)]
           Sorted(q) == \A i, j \in 1..Len(q) : i < j => q[j] \in Ancestors(q[i])
           Good(x) == /\ ToSet(Scheduled(x)) = {y \in Marked(x) : HasClinit(y)}
                      /\ Marked(x) \subseteq {x} \cup Ancestors(x)
                      /\ Sorted(Scheduled(x))
           S == {x \in Classes : Good(x)}
<1>1. ASSUME NEW x \in Classes, next[x] # NoClass => next[x] \in S
      PROVE  x \in S
  <2>1. /\ ToSet(ClinitOf[x]) = {y \in {x} : HasClinit(y)}
        /\ Len(ClinitOf[x]) \in {0, 1}
        /\ Len(ClinitOf[x]) = 1 => ClinitOf[x][1] = x
    BY DEF ClinitOf, ToSet
  <2>2. CASE SuperToInit(x) = NoClass
    <3>1. Scheduled(x) = ClinitOf[x] /\ Marked(x) = {x}
      BY <2>2, MarkedUnfold, ScheduledUnfold
    <3> QED
      BY <2>1, <3>1
  <2>3. CASE SuperToInit(x) # NoClass
    <3> DEFINE s == SuperToInit(x)
    <3>1. s \in Classes /\ s = Super(x) /\ s # NoClass /\ Good(s)
      BY <1>1, <2>3, SupersUpward
    <3>2. Marked(x) = {x} \cup Marked(s)
      BY <2>3, MarkedUnfold
    <3>3. /\ Scheduled(x) = ClinitOf[x] \o Scheduled(s)
          /\ ClinitOf[x] \in Seq(Classes) /\ Scheduled(s) \in Seq(Classes)
      BY <2>3, <3>1, ScheduledUnfold
    <3>4. Ancestors(x) = {s} \cup Ancestors(s)
      BY <3>1, AncestorsUnfold
    <3> HIDE DEF s
    <3>5. ToSet(Scheduled(x)) = ToSet(ClinitOf[x]) \cup ToSet(Scheduled(s))
      BY <3>3, ConcatElements
    <3>6. ToSet(Scheduled(x)) = {y \in Marked(x) : HasClinit(y)}
      BY <2>1, <3>1, <3>2, <3>5
    <3>7. Marked(x) \subseteq {x} \cup Ancestors(x)
      BY <3>1, <3>2, <3>4
    <3>8. ASSUME NEW i \in 1..Len(Scheduled(x)), NEW j \in 1..Len(Scheduled(x)), i < j
          PROVE  Scheduled(x)[j] \in Ancestors(Scheduled(x)[i])
      <4> DEFINE n == Len(ClinitOf[x])
                 q == Scheduled(s)
      <4>1. /\ j > n /\ Scheduled(x)[j] = q[j - n] /\ j - n \in 1..Len(q)
        BY <2>1, <3>3, <3>8
      <4>2. CASE i > n
        <5>1. Scheduled(x)[i] = q[i - n] /\ i - n \in 1..Len(q)
          BY <2>1, <3>3, <4>2
        <5>2. i - n < j - n
          BY <2>1, <3>8
        <5> HIDE DEF n, q
        <5>3. Sorted(q)
          BY <3>1 DEF q
        <5> QED
          BY <4>1, <5>1, <5>2, <5>3
      <4>3. CASE ~(i > n)
        <5>1. Scheduled(x)[i] = x
          BY <2>1, <3>3, <4>3
        <5>2. q[j - n] \in ToSet(q)
          BY <3>3, <4>1 DEF ToSet
        <5>3. q[j - n] \in Marked(s)
          BY <3>1, <5>2
        <5> QED
          BY <3>1, <3>4, <4>1, <5>1, <5>3
      <4> QED
        BY <4>2, <4>3
    <3> HIDE DEF next
    <3> QED
      BY <3>6, <3>7, <3>8
  <2> QED
    BY <2>2, <2>3
<1>2. Upward(next)
  BY SupersUpward
<1>3. \A x \in Classes : x \in S
  <2> HIDE DEF S, next
  <2> QED
    BY <1>1, <1>2, UpwardInduction
<1> QED
  BY <1>3

-----------------------------------------------------------------------------
(* What a step does to the stack *)

\* A step of the loop begins the <clinit> on top, if it is one.
Begins ==
  /\ stack # <<>> /\ UNCHANGED program
  /\ begun' = begun \cup {c \in Classes : At(Len(stack), c)}

\* Classes marked together with the <clinit> frames pushed for them.
Schedules(marked, new) ==
  /\ marked \subseteq Classes /\ marked \cap initStarted = {}
  /\ \A c \in marked : Super(c) # NoClass => Super(c) \in initStarted \cup marked
  /\ \A c \in Classes : (\E k \in 1..Len(new) : new[k] = Clinit(c))
                       <=> c \in marked /\ HasClinit(c)
  /\ \A c \in Classes : \A j, k \in 1..Len(new) : j < k /\ new[j] = Clinit(c) =>
       \E d \in Ancestors(c) : new[k] = Clinit(d)

Grows(marked, new) ==
  /\ Len(stack') = Len(stack) + Len(new) /\ Len(new) \in Nat
  /\ \A i \in 1..Len(stack') : stack'[i].method =
       IF i <= Len(stack) THEN stack[i].method ELSE new[i - Len(stack)]
  /\ Schedules(marked, new)
  /\ initStarted' = initStarted \cup marked
  /\ UNCHANGED <<finished, panicked>>

Shrinks ==
  /\ Len(stack') = Len(stack) - 1
  /\ \A i \in 1..Len(stack') : stack'[i] = stack[i]
  /\ finished' = finished \cup {c \in Classes : At(Len(stack), c)}
  /\ UNCHANGED <<initStarted, panicked>>

Panics ==
  /\ stack' = <<>> /\ panicked' = TRUE
  /\ \E marked : /\ initStarted' = initStarted \cup marked
                 /\ marked \subseteq Classes
                 /\ \A c \in marked : Super(c) # NoClass =>
                      Super(c) \in initStarted \cup marked
  /\ UNCHANGED finished

\* A <clinit> is neither main nor a static method, and belongs to one class.
LEMMA Names ==
  /\ \A c, d : Clinit(c) = Clinit(d) => c = d
  /\ \A c, d : Clinit(c) # Static(d)
  /\ \A c : Clinit(c) # Main
BY DEF Clinit, Static, Main

\* The instruction at the program counter is one.
LEMMA CurrentTyped ==
  ASSUME TypeOK, stack # <<>>
  PROVE  /\ Len(stack) \in Nat \ {0} /\ Top = stack[Len(stack)]
         /\ Top \in [method : DOMAIN code, pc : 1..(MaxCode + 1)]
         /\ Code \in Seq(Instruction) /\ Len(Code) <= MaxCode
         /\ ~AtReturn => /\ Current \in Instruction /\ Current.class \in Classes
                         /\ Top.pc <= MaxCode
                         /\ Current.op = "invoke" => Current.class \in Statics
<1> DEFINE F == [method : DOMAIN code, pc : 1..(MaxCode + 1)]
<1>1. Len(stack) \in Nat \ {0} /\ Top = stack[Len(stack)] /\ Top \in F
  <2>1. stack \in Seq(F)
    BY DEF TypeOK
  <2> HIDE DEF F
  <2>2. Len(stack) \in Nat \ {0}
    BY <2>1
  <2> QED
    BY <2>1, <2>2 DEF Top, Last
<1>2. PICK with \in SUBSET Classes : code \in [Methods(with) -> Bodies]
  BY DEF TypeOK
<1>3. Code \in Bodies
  BY <1>1, <1>2 DEF Code
<1>4. PICK m \in 0..MaxCode : Code \in [1..m -> Instruction]
  BY <1>3 DEF Bodies, SeqOf
<1>5. Code \in Seq(Instruction) /\ Len(Code) = m /\ MaxCode \in Nat
  BY <1>4, ClassAssumption
<1>6. ASSUME ~AtReturn
      PROVE  /\ Current \in Instruction /\ Current.class \in Classes
             /\ Top.pc <= MaxCode
             /\ Current.op = "invoke" => Current.class \in Statics
  <2>1. Top.pc \in 1..m
    BY <1>1, <1>5, <1>6 DEF AtReturn
  <2>2. PICK i \in Instruction : Current = i
    BY <1>4, <2>1 DEF Current
  <2>3. i.class \in Classes /\ (i.op = "invoke" => i.class \in Statics)
    BY ClassAssumption DEF Instruction
  <2> QED
    BY <1>5, <2>1, <2>2, <2>3
<1> QED
  BY <1>1, <1>5, <1>6

\* The fetch moves the program counter of the frame on top.
LEMMA FetchedFrames ==
  ASSUME TypeOK, stack # <<>>
  PROVE  /\ Len(Fetched) = Len(stack)
         /\ \A i \in 1..Len(stack) : Fetched[i].method = stack[i].method
         /\ Fetched \in Seq([method : DOMAIN code, pc : Nat])
         /\ ~AtReturn => Fetched \in Seq([method : DOMAIN code, pc : 1..(MaxCode + 1)])
<1> DEFINE F == [method : DOMAIN code, pc : 1..(MaxCode + 1)]
           n == Len(stack)
<1>1. /\ n \in Nat \ {0} /\ stack[n] = Top /\ MaxCode \in Nat
      /\ stack = [i \in 1..n |-> stack[i]]
      /\ \A i \in 1..n : stack[i] \in F
  <2>1. stack \in Seq(F)
    BY DEF TypeOK
  <2> HIDE DEF F
  <2> QED
    BY <2>1, CurrentTyped, ClassAssumption
<1>2. Fetched = [i \in 1..n |-> IF i = n THEN [stack[n] EXCEPT !.pc = @ + 1]
                                         ELSE stack[i]]
  BY <1>1 DEF Fetched
<1>3. \A i \in 1..n :
        /\ [stack[n] EXCEPT !.pc = @ + 1].method = stack[n].method
        /\ [stack[n] EXCEPT !.pc = @ + 1] \in [method : DOMAIN code, pc : Nat]
        /\ ~AtReturn => [stack[n] EXCEPT !.pc = @ + 1] \in F
        /\ stack[i] \in [method : DOMAIN code, pc : Nat]
  BY <1>1, CurrentTyped
<1> DEFINE top == [stack[n] EXCEPT !.pc = @ + 1]
           N == [method : DOMAIN code, pc : Nat]
<1>4. Fetched = [i \in 1..n |-> IF i = n THEN top ELSE stack[i]]
  BY <1>2
<1>5. \A i \in 1..n : /\ top.method = stack[n].method /\ top \in N
                      /\ stack[i] \in N /\ stack[i] \in F
                      /\ ~AtReturn => top \in F
  BY <1>1, <1>3
<1> HIDE DEF F, top, N
<1>6. /\ Len(Fetched) = n
      /\ \A i \in 1..n : Fetched[i].method = stack[i].method
  BY <1>1, <1>4, <1>5
<1>7. Fetched \in Seq(N) /\ (~AtReturn => Fetched \in Seq(F))
  BY <1>1, <1>4, <1>5
<1> QED
  BY <1>6, <1>7 DEF F, N

\* Each step of the loop begins the <clinit> on top.
LEMMA StepBegins == TypeOK /\ Next => Begins
<1> SUFFICES ASSUME TypeOK, Turn PROVE Begins
  BY DEF Next, InitFirst, Use, InvokeStatic, Return
<1>1. Top = stack[Len(stack)]
  BY CurrentTyped DEF Turn
<1> QED
  BY <1>1 DEF Turn, Begins, At

\* An instruction that initialises its class first pushes the <clinit> methods
\* that have not been scheduled, or has the stack overflow.
LEMMA InitFirstStep ==
  ASSUME TypeOK, InitFirst
  PROVE  Panics \/ \E marked, new : Grows(marked, new)
<1> DEFINE c == Current.class
           marked == Marked(c)
           q == Scheduled(c)
           new == [k \in 1..Len(q) |-> Clinit(q[k])]
           frames == [k \in DOMAIN q |-> Frame(Clinit(q[k]))]
<1>1. stack # <<>> /\ c \in Classes /\ c \notin initStarted /\ Len(stack) \in Nat
  BY CurrentTyped DEF InitFirst, Turn, NeedsInit
<1>2. hierarchy \in Hierarchies
  BY DEF TypeOK
<1>3. /\ marked \subseteq Classes /\ marked \cap initStarted = {}
      /\ \A x \in marked : Super(x) # NoClass => Super(x) \in initStarted \cup marked
  BY <1>1, <1>2, MarkedFresh
<1>4. q \in Seq(Classes)
  BY <1>1, <1>2, ScheduledUnfold
<1>5. /\ ToSet(q) = {x \in marked : HasClinit(x)}
      /\ \A i, j \in 1..Len(q) : i < j => q[j] \in Ancestors(q[i])
  BY <1>1, <1>2, ScheduledInOrder
<1>6. /\ initStarted' = initStarted \cup marked /\ UNCHANGED finished
      /\ PushOn(stack, frames)
  BY DEF InitFirst, InitClass, StartInit, Reverted, Marked
<1> HIDE DEF c, marked, q
<1>7. Schedules(marked, new)
  <2>1. \A k \in 1..Len(new) : k \in 1..Len(q) /\ new[k] = Clinit(q[k])
    BY <1>4
  <2>2. ASSUME NEW x \in Classes
        PROVE  (\E k \in 1..Len(new) : new[k] = Clinit(x)) <=> x \in marked /\ HasClinit(x)
    <3>1. x \in ToSet(q) <=> \E k \in 1..Len(q) : q[k] = x
      BY <1>4 DEF ToSet
    <3>2. \A k \in 1..Len(q) : new[k] = Clinit(x) <=> q[k] = x
      BY Names
    <3>3. Len(new) = Len(q)
      BY <1>4
    <3> HIDE DEF new
    <3> QED
      BY <1>5, <3>1, <3>2, <3>3
  <2>3. ASSUME NEW x \in Classes, NEW j \in 1..Len(new), NEW k \in 1..Len(new),
               j < k, new[j] = Clinit(x)
        PROVE  \E d \in Ancestors(x) : new[k] = Clinit(d)
    <3>1. q[j] = x
      BY <2>1, <2>3, Names
    <3>2. q[k] \in Ancestors(x)
      BY <1>5, <2>1, <2>3, <3>1
    <3> QED
      BY <2>1, <3>2
  <2> HIDE DEF new
  <2> QED
    BY <1>3, <2>2, <2>3 DEF Schedules
<1>8. CASE Len(stack) + Len(frames) <= MaxFrames
  <2>1. stack' = stack \o frames /\ UNCHANGED panicked
    BY <1>6, <1>8 DEF PushOn
  <2>2. Len(frames) = Len(q) /\ Len(new) = Len(q) /\ Len(q) \in Nat
    BY <1>4
  <2> DEFINE F == [method : DOMAIN code, pc : 1..(MaxCode + 1)]
  <2>3. stack \in Seq(F)
    BY DEF TypeOK
  <2>4. \A k \in 1..Len(q) : frames[k].method = new[k]
    BY <1>4 DEF Frame
  <2> DEFINE G == F \cup {frames[k] : k \in 1..Len(q)}
  <2>5. frames \in Seq(G)
    BY <1>4
  <2> HIDE DEF frames, new, F
  <2>6. stack \in Seq(G)
    BY <2>3
  <2> HIDE DEF G
  <2>7. /\ Len(stack') = Len(stack) + Len(frames)
        /\ \A i \in 1..(Len(stack) + Len(frames)) : stack'[i] =
             IF i <= Len(stack) THEN stack[i] ELSE frames[i - Len(stack)]
    BY <2>1, <2>5, <2>6, ConcatProperties
  <2>8. /\ Len(stack') = Len(stack) + Len(new)
        /\ \A i \in 1..Len(stack') : stack'[i].method =
             IF i <= Len(stack) THEN stack[i].method ELSE new[i - Len(stack)]
    <3>1. Len(stack') = Len(stack) + Len(new)
      BY <2>2, <2>7
    <3>2. ASSUME NEW i \in 1..Len(stack'), i <= Len(stack)
          PROVE  stack'[i].method = stack[i].method
      BY <2>2, <2>7, <3>1, <3>2
    <3>3. ASSUME NEW i \in 1..Len(stack'), ~(i <= Len(stack))
          PROVE  stack'[i].method = new[i - Len(stack)]
      <4>1. i - Len(stack) \in 1..Len(q)
        BY <1>1, <2>2, <3>1, <3>3
      <4>2. stack'[i] = frames[i - Len(stack)]
        BY <2>2, <2>7, <3>1, <3>3
      <4> QED
        BY <2>4, <4>1, <4>2
    <3> QED
      BY <3>1, <3>2, <3>3
  <2> QED
    BY <1>6, <1>7, <2>1, <2>2, <2>8 DEF Grows
<1>9. CASE ~(Len(stack) + Len(frames) <= MaxFrames)
  BY <1>3, <1>6, <1>9 DEF PushOn, Panics
<1> QED
  BY <1>8, <1>9

\* Nothing is scheduled where no <clinit> is pushed.
LEMMA NothingScheduled ==
  ASSUME NEW new, \A k \in 1..Len(new) : \A c : new[k] # Clinit(c)
  PROVE  Schedules({}, new)
BY DEF Schedules

\* getstatic, putstatic and new go on to the next instruction.
LEMMA UseStep ==
  ASSUME TypeOK, Use
  PROVE  \E marked, new : Grows(marked, new)
<1>1. /\ stack' = Fetched /\ stack # <<>> /\ Len(stack) \in Nat
      /\ UNCHANGED <<initStarted, finished, panicked>>
  BY CurrentTyped DEF Use, Turn
<1>2. /\ Len(stack') = Len(stack)
      /\ \A i \in 1..Len(stack') : stack'[i].method = stack[i].method
  BY <1>1, FetchedFrames
<1>3. Grows({}, <<>>)
  <2>1. Len(<<>>) = 0
    OBVIOUS
  <2> QED
    BY <1>1, <1>2, <2>1, NothingScheduled DEF Grows
<1> QED
  BY <1>3

\* invokestatic pushes a method that is not a <clinit>.
LEMMA InvokeStep ==
  ASSUME TypeOK, InvokeStatic
  PROVE  Panics \/ \E marked, new : Grows(marked, new)
<1> DEFINE m == Static(Current.class)
<1>1. /\ PushOn(Fetched, <<Frame(m)>>) /\ stack # <<>> /\ Len(stack) \in Nat
      /\ UNCHANGED <<initStarted, finished>>
  BY CurrentTyped DEF InvokeStatic, Turn
<1>2. CASE stack' = <<>> /\ panicked' = TRUE
  <2>1. initStarted' = initStarted \cup {}
    BY <1>1
  <2> QED
    BY <1>1, <1>2, <2>1 DEF Panics
<1>3. CASE stack' = Fetched \o <<Frame(m)>> /\ UNCHANGED panicked
  <2> DEFINE N == [method : DOMAIN code, pc : Nat]
             f == Fetched
             e == Frame(m)
  <2>1. /\ f \in Seq(N) /\ Len(f) = Len(stack) /\ stack' = f \o <<e>> /\ e.method = m
        /\ \A i \in 1..Len(stack) : f[i].method = stack[i].method
    BY <1>1, <1>3, FetchedFrames DEF Frame
  <2> HIDE DEF N, f, e
  <2>2. /\ Len(stack') = Len(stack) + 1
        /\ \A i \in 1..Len(stack') : stack'[i].method =
             IF i <= Len(stack) THEN stack[i].method ELSE m
    BY <2>1
  <2>3. \A c : m # Clinit(c)
    BY Names
  <2> HIDE DEF m
  <2>4. Len(<<m>>) = 1 /\ <<m>>[1] = m
    OBVIOUS
  <2>5. Schedules({}, <<m>>)
    BY <2>3, <2>4, NothingScheduled
  <2>6. \A i \in 1..Len(stack') : ~(i <= Len(stack)) => i - Len(stack) = 1
    BY <1>1, <2>2
  <2>7. Grows({}, <<m>>)
    BY <1>1, <1>3, <2>2, <2>4, <2>5, <2>6 DEF Grows
  <2> QED
    BY <2>7
<1> QED
  BY <1>1, <1>2, <1>3 DEF PushOn

\* A return takes the frame off, and a <clinit> is finished.
LEMMA ReturnStep ==
  ASSUME TypeOK, Return
  PROVE  Shrinks
<1>1. /\ stack' = SubSeq(stack, 1, Len(stack) - 1) /\ stack # <<>>
      /\ Top = stack[Len(stack)] /\ Len(stack) \in Nat \ {0}
  BY CurrentTyped DEF Return, Turn, Front
<1>2. Len(stack') = Len(stack) - 1 /\ \A i \in 1..Len(stack') : stack'[i] = stack[i]
  <2> DEFINE F == [method : DOMAIN code, pc : 1..(MaxCode + 1)]
  <2>1. stack \in Seq(F)
    BY DEF TypeOK
  <2> HIDE DEF F
  <2>2. \A i \in 1..(Len(stack) - 1) : stack[i] \in F
    BY <1>1, <2>1
  <2>3. Len(stack) - 1 \in Int /\ Len(stack) - 1 \in Nat
    BY <1>1
  <2> DEFINE n == Len(stack) - 1
  <2>4. /\ Len(SubSeq(stack, 1, n)) = IF 1 <= n THEN n - 1 + 1 ELSE 0
        /\ \A i \in 1..(n - 1 + 1) : SubSeq(stack, 1, n)[i] = stack[1 + i - 1]
    BY <2>2, <2>3, SubSeqProperties
  <2>5. n \in Nat /\ stack' = SubSeq(stack, 1, n)
    BY <1>1, <2>3
  <2> HIDE DEF n
  <2>6. Len(stack') = n /\ \A i \in 1..n : stack'[i] = stack[i]
    BY <2>4, <2>5
  <2> QED
    BY <2>6 DEF n
<1> QED
  BY <1>1, <1>2 DEF Shrinks, Return, At

\* What a turn of the loop does to the stack and to the marks.
Moves == Panics \/ Shrinks \/ \E marked, new : Grows(marked, new)

\* Each step of the loop is such a turn.
LEMMA StepMoves == TypeOK /\ Next => Moves
BY InitFirstStep, UseStep, InvokeStep, ReturnStep DEF Next, Moves

\* The program stays the same, and so do the superclasses.
LEMMA ProgramStays ==
  ASSUME UNCHANGED program
  PROVE  /\ hierarchy' = hierarchy /\ code' = code
         /\ \A c : Ancestors(c)' = Ancestors(c) /\ Super(c)' = Super(c)
         /\ \A c : HasClinit(c)' <=> HasClinit(c)
<1>1. hierarchy' = hierarchy /\ code' = code
  BY DEF program
<1>2. \A c : Super(c)' = Super(c)
  BY <1>1 DEF Super
<1>3. \A c : Ancestors(c)' = Ancestors(c)
  BY <1>1, Zenon DEF Ancestors
<1>4. \A c : HasClinit(c)' <=> HasClinit(c)
  BY <1>1 DEF HasClinit
<1> QED
  BY <1>1, <1>2, <1>3, <1>4

-----------------------------------------------------------------------------
(* Types *)

\* A stack built of frames of the program's methods is a stack of such frames.
LEMMA FramesStay ==
  ASSUME TypeOK, Next
  PROVE  /\ stack' \in Seq([method : DOMAIN code, pc : 1..(MaxCode + 1)])
         /\ Len(stack') <= MaxFrames /\ panicked' \in BOOLEAN
<1> DEFINE F == [method : DOMAIN code, pc : 1..(MaxCode + 1)]
<1>1. /\ stack # <<>> /\ stack \in Seq(F) /\ Len(stack) \in Nat \ {0}
      /\ Len(stack) <= MaxFrames /\ panicked \in BOOLEAN
      /\ MaxFrames \in Nat /\ 1 \in 1..(MaxCode + 1)
      /\ hierarchy \in Hierarchies
  BY CurrentTyped, ClassAssumption
     DEF TypeOK, Next, InitFirst, Use, InvokeStatic, Return, Turn
<1>2. \A m \in DOMAIN code : Frame(m) \in F
  BY <1>1 DEF Frame
<1>3. ASSUME NEW u \in Seq(F), NEW v \in Seq(F), PushOn(u, v)
      PROVE  stack' \in Seq(F) /\ Len(stack') <= MaxFrames /\ panicked' \in BOOLEAN
  <2> HIDE DEF F
  <2>1. u \o v \in Seq(F) /\ Len(u \o v) = Len(u) + Len(v)
    BY ConcatProperties
  <2>2. <<>> \in Seq(F) /\ Len(<<>>) = 0
    OBVIOUS
  <2>3. CASE Len(u) + Len(v) <= MaxFrames
    <3>1. stack' = u \o v /\ UNCHANGED panicked
      BY <1>3, <2>3 DEF PushOn
    <3> QED
      BY <1>1, <2>1, <2>3, <3>1
  <2>4. CASE ~(Len(u) + Len(v) <= MaxFrames)
    <3>1. stack' = <<>> /\ panicked' = TRUE
      BY <1>3, <2>4 DEF PushOn
    <3> QED
      BY <1>1, <2>2, <3>1
  <2> QED
    BY <2>3, <2>4
<1>4. CASE InitFirst
  <2> DEFINE c == Current.class
             q == Scheduled(c)
             frames == [k \in DOMAIN q |-> Frame(Clinit(q[k]))]
  <2>1. c \in Classes
    BY <1>4, CurrentTyped DEF InitFirst, Turn, NeedsInit
  <2>2. q \in Seq(Classes) /\ ToSet(q) = {x \in Marked(c) : HasClinit(x)}
    BY <1>1, <2>1, ScheduledUnfold, ScheduledInOrder
  <2>3. PushOn(stack, frames)
    BY <1>4 DEF InitFirst, InitClass, Reverted
  <2> HIDE DEF q, c
  <2>4. \A k \in DOMAIN q : Frame(Clinit(q[k])) \in F
    <3>1. \A k \in DOMAIN q : q[k] \in ToSet(q)
      BY <2>2 DEF ToSet
    <3> QED
      BY <1>2, <2>2, <3>1 DEF HasClinit
  <2>5. DOMAIN q = 1..Len(q) /\ Len(q) \in Nat
    BY <2>2
  <2> HIDE DEF F
  <2>6. frames \in Seq(F)
    BY <2>4, <2>5
  <2> HIDE DEF frames
  <2> QED
    BY <1>1, <1>3, <2>3, <2>6 DEF F
<1>5. CASE Use
  <2>1. stack' = Fetched /\ Len(Fetched) = Len(stack) /\ Fetched \in Seq(F)
    BY <1>1, <1>5, FetchedFrames DEF Use
  <2>2. UNCHANGED panicked
    BY <1>5 DEF Use
  <2> HIDE DEF F
  <2> QED
    BY <1>1, <2>1, <2>2 DEF F
<1>6. CASE InvokeStatic
  <2> DEFINE m == Static(Current.class)
  <2>1. ~AtReturn /\ PushOn(Fetched, <<Frame(m)>>) /\ Fetched \in Seq(F)
    BY <1>1, <1>6, FetchedFrames DEF InvokeStatic
  <2>2. Current.class \in Statics
    BY <1>1, <1>6, CurrentTyped DEF InvokeStatic, NeedsInit
  <2>3. m \in DOMAIN code
    BY <2>2 DEF TypeOK, Methods
  <2>4. Frame(m) \in F
    BY <1>2, <2>3
  <2> HIDE DEF F, m
  <2>5. <<Frame(m)>> \in Seq(F)
    BY <2>4
  <2> QED
    BY <1>3, <2>1, <2>5 DEF F
<1>7. CASE Return
  <2> DEFINE n == Len(stack) - 1
  <2>1. stack' = SubSeq(stack, 1, n) /\ UNCHANGED panicked
    BY <1>7 DEF Return, Front
  <2> HIDE DEF F
  <2>2. n \in Nat /\ n <= MaxFrames /\ \A i \in 1..n : stack[i] \in F
    BY <1>1
  <2> HIDE DEF n
  <2>3. /\ SubSeq(stack, 1, n) \in Seq(F)
        /\ Len(SubSeq(stack, 1, n)) = IF 1 <= n THEN n - 1 + 1 ELSE 0
    BY <2>2, SubSeqProperties
  <2> QED
    BY <1>1, <2>1, <2>2, <2>3 DEF F
<1> QED
  BY <1>4, <1>5, <1>6, <1>7 DEF Next

-----------------------------------------------------------------------------
(* The invariant *)

CInv == TypeOK /\ StackInv /\ OrderInv /\ SuperclassFirst

\* It holds at first: nothing is started.
LEMMA InitCInv == Init => CInv
<1> SUFFICES ASSUME Init PROVE CInv
  OBVIOUS
<1>1. /\ stack = <<[method |-> Main, pc |-> 1]>> /\ initStarted = {} /\ begun = {}
      /\ finished = {} /\ panicked = FALSE /\ hierarchy \in Hierarchies
  BY DEF Init, Frame
<1>2. Len(stack) = 1 /\ stack[1].method = Main /\ stack[1].pc = 1
  BY <1>1
<1>3. TypeOK
  <2>1. PICK with \in SUBSET Classes : code \in [Methods(with) -> Bodies]
    BY DEF Init
  <2>2. Main \in DOMAIN code
    BY <2>1 DEF Methods
  <2>3. [method |-> Main, pc |-> 1] \in [method : DOMAIN code, pc : 1..(MaxCode + 1)]
    BY <2>2, ClassAssumption
  <2>4. 1 <= MaxFrames
    BY ClassAssumption
  <2> DEFINE F == [method : DOMAIN code, pc : 1..(MaxCode + 1)]
             f == [method |-> Main, pc |-> 1]
  <2>5. f \in F /\ stack = <<f>>
    BY <1>1, <2>3
  <2>6. stack \in Seq(F)
    <3> HIDE DEF f, F
    <3> QED
      BY <2>5
  <2> QED
    BY <1>1, <1>2, <2>1, <2>4, <2>6 DEF TypeOK
<1>4. \A i \in 1..Len(stack) : \A c : ~At(i, c)
  BY <1>2, Names DEF At
<1>5. StackInv
  BY <1>1, <1>4 DEF StackInv
<1>6. OrderInv
  BY <1>1, <1>4 DEF OrderInv
<1>7. SuperclassFirst
  BY <1>1 DEF SuperclassFirst
<1> QED
  BY <1>3, <1>5, <1>6, <1>7 DEF CInv

\* Those started are started with all above them.
LEMMA AncestorsStarted ==
  ASSUME TypeOK, OrderInv
  PROVE  \A c \in initStarted : Ancestors(c) \subseteq initStarted
<1> DEFINE next == [x \in Classes |-> Super(x)]
           S == {x \in Classes : x \in initStarted => Ancestors(x) \subseteq initStarted}
<1>1. hierarchy \in Hierarchies /\ initStarted \subseteq Classes
  BY DEF TypeOK
<1>2. ASSUME NEW x \in Classes, next[x] # NoClass => next[x] \in S
      PROVE  x \in S
  BY <1>1, <1>2, AncestorsUnfold DEF OrderInv
<1>3. Upward(next)
  BY <1>1, SupersUpward
<1>4. \A x \in Classes : x \in S
  <2> HIDE DEF S, next
  <2> QED
    BY <1>2, <1>3, UpwardInduction
<1> QED
  BY <1>1, <1>4

\* What a step needs of the state before it: the stack has a frame and the
\* process is not over.
LEMMA BeforeStep ==
  ASSUME CInv, Next
  PROVE  /\ Begins /\ Moves /\ ~panicked
         /\ Len(stack) \in Nat \ {0} /\ hierarchy \in Hierarchies
         /\ initStarted \subseteq Classes /\ begun \subseteq initStarted
         /\ finished \subseteq begun
<1>1. TypeOK /\ Begins /\ Moves
  BY StepBegins, StepMoves DEF CInv
<1> QED
  BY <1>1, CurrentTyped DEF CInv, StackInv, TypeOK, Begins

\* A <clinit> that begins is the one of a class that is started.
LEMMA BegunStarted ==
  ASSUME CInv, Next
  PROVE  begun' \subseteq initStarted /\ initStarted \subseteq initStarted'
<1>1. begun' \subseteq initStarted
  BY BeforeStep DEF Begins, CInv, StackInv
<1>2. initStarted \subseteq initStarted'
  BY BeforeStep DEF Moves, Panics, Shrinks, Grows
<1> QED
  BY <1>1, <1>2

\* The types are kept.
LEMMA StepTypes == CInv /\ Next => TypeOK'
<1> SUFFICES ASSUME CInv, Next PROVE TypeOK'
  OBVIOUS
<1>1. hierarchy' = hierarchy /\ code' = code
  BY BeforeStep, ProgramStays DEF Begins
<1>2. initStarted' \subseteq Classes
  BY BeforeStep DEF Moves, Panics, Shrinks, Grows, Schedules
<1>3. finished' \subseteq begun'
  BY BeforeStep DEF Moves, Panics, Shrinks, Grows, Begins
<1>4. begun' \subseteq initStarted'
  BY BegunStarted
<1>5. TypeOK
  BY DEF CInv
<1>6. /\ stack' \in Seq([method : DOMAIN code', pc : 1..(MaxCode + 1)])
      /\ Len(stack') <= MaxFrames /\ panicked' \in BOOLEAN
  BY <1>1, <1>5, FramesStay
<1>7. (\E with \in SUBSET Classes : code \in [Methods(with) -> Bodies])'
  BY <1>1, <1>5 DEF TypeOK
<1> QED
  BY <1>1, <1>2, <1>3, <1>4, <1>5, <1>6, <1>7 DEF TypeOK

\* A <clinit> that has not begun after a step stays where it was.
LEMMA WaitingStays ==
  ASSUME CInv, Next, ~panicked', NEW c \in Classes \ begun',
         NEW i \in 1..Len(stack), At(i, c)
  PROVE  i \in 1..Len(stack') /\ At(i, c)' /\ i # Len(stack)
<1>1. i # Len(stack)
  BY BeforeStep DEF Begins
<1>2. CASE Panics
  BY <1>2 DEF Panics
<1>3. CASE Shrinks
  <2>1. /\ Len(stack') = Len(stack) - 1 /\ Len(stack) \in Nat \ {0}
        /\ \A k \in 1..Len(stack') : stack'[k] = stack[k]
    BY <1>3, BeforeStep DEF Shrinks
  <2>2. i \in 1..Len(stack')
    BY <1>1, <2>1
  <2> QED
    BY <1>1, <2>1, <2>2 DEF At
<1>4. CASE \E marked, new : Grows(marked, new)
  <2>1. PICK marked, new : Grows(marked, new)
    BY <1>4
  <2>2. Len(stack') = Len(stack) + Len(new) /\ Len(new) \in Nat /\ Len(stack) \in Nat
    BY <2>1, BeforeStep DEF Grows
  <2>3. i \in 1..Len(stack') /\ i <= Len(stack)
    BY <2>2
  <2>4. stack'[i].method = stack[i].method
    BY <2>1, <2>3 DEF Grows
  <2> QED
    BY <1>1, <2>3, <2>4 DEF At
<1> QED
  BY <1>2, <1>3, <1>4, BeforeStep DEF Moves

\* Each <clinit> is still where it was, at most once.
LEMMA StepStack == CInv /\ Next => StackInv'
<1> SUFFICES ASSUME CInv, Next PROVE StackInv'
  OBVIOUS
<1>1. StackInv /\ UNCHANGED program
  BY BeforeStep DEF CInv, Begins
<1>2. CASE Panics
  <2>1. stack' = <<>> /\ panicked' = TRUE /\ 1..Len(stack') = {}
    BY <1>2 DEF Panics
  <2> QED
    BY <2>1 DEF StackInv
<1>3. CASE Shrinks
  <2>1. /\ Len(stack') = Len(stack) - 1 /\ Len(stack) \in Nat \ {0}
        /\ \A i \in 1..Len(stack') : i \in 1..Len(stack) /\ i # Len(stack)
             /\ \A c : At(i, c)' <=> At(i, c)
    BY <1>3, BeforeStep DEF Shrinks, At
  <2>2. /\ initStarted' = initStarted /\ panicked' = panicked /\ ~panicked
        /\ finished' = finished \cup {c \in Classes : At(Len(stack), c)}
    BY <1>3, BeforeStep DEF Shrinks
  <2>3. \A c \in Classes : \A i, j \in 1..Len(stack') : At(i, c)' /\ At(j, c)' => i = j
    BY <1>1, <2>1 DEF StackInv
  <2>4. \A c \in Classes : \A i \in 1..Len(stack') :
          At(i, c)' => c \in initStarted' \ finished'
    BY <1>1, <2>1, <2>2 DEF StackInv
  <2>5. ASSUME NEW c \in initStarted', HasClinit(c)', c \notin finished'
        PROVE  Running(c)'
    <3>1. c \in Classes /\ HasClinit(c) /\ c \notin finished
      BY <1>1, <2>2, <2>5, BeforeStep, ProgramStays
    <3>2. PICK i \in 1..Len(stack) : At(i, c)
      BY <1>1, <2>2, <2>5, <3>1 DEF StackInv, Running
    <3>3. i # Len(stack)
      BY <2>2, <2>5, <3>1, <3>2
    <3>4. i \in 1..Len(stack')
      BY <2>1, <3>3
    <3> QED
      BY <2>1, <3>2, <3>4 DEF Running
  <2> QED
    BY <2>2, <2>3, <2>4, <2>5 DEF StackInv
<1>4. CASE \E marked, new : Grows(marked, new)
  <2>1. PICK marked, new : Grows(marked, new)
    BY <1>4
  <2>2. /\ Len(stack') = Len(stack) + Len(new)
        /\ Len(stack) \in Nat /\ Len(new) \in Nat
        /\ initStarted' = initStarted \cup marked
        /\ marked \subseteq Classes /\ marked \cap initStarted = {}
        /\ finished' = finished /\ panicked' = panicked /\ ~panicked
        /\ finished \subseteq initStarted /\ initStarted \subseteq Classes
    BY <2>1, BeforeStep DEF Grows, Schedules
  <2>3. ASSUME NEW i \in 1..Len(stack')
        PROVE  /\ i <= Len(stack) => /\ i \in 1..Len(stack)
                                     /\ \A c : At(i, c)' <=> At(i, c)
               /\ i > Len(stack) => /\ i - Len(stack) \in 1..Len(new)
                                    /\ \A c : At(i, c)' <=> new[i - Len(stack)] = Clinit(c)
    BY <2>1, <2>2 DEF Grows, At
  <2>4. ASSUME NEW c \in Classes, NEW i \in 1..Len(stack'), At(i, c)'
        PROVE  /\ i <= Len(stack) => c \in initStarted \ finished
               /\ i > Len(stack) => c \in marked
    <3>1. i <= Len(stack) => c \in initStarted \ finished
      BY <1>1, <2>3, <2>4 DEF StackInv
    <3>2. i > Len(stack) => c \in marked
      BY <2>1, <2>3, <2>4 DEF Grows, Schedules
    <3> QED
      BY <3>1, <3>2
  <2>5. ASSUME NEW c \in Classes, NEW j \in 1..Len(new), NEW k \in 1..Len(new),
               j < k, new[j] = Clinit(c), new[k] = Clinit(c)
        PROVE  FALSE
    <3>1. PICK d \in Ancestors(c) : new[k] = Clinit(d)
      BY <2>1, <2>5 DEF Grows, Schedules
    <3>2. d = c
      BY <2>5, <3>1, Names
    <3> QED
      BY <3>1, <3>2, BeforeStep, NotOwnAncestor
  <2>6. ASSUME NEW c \in Classes, NEW i \in 1..Len(stack'), NEW j \in 1..Len(stack'),
               i < j, At(i, c)', At(j, c)'
        PROVE  FALSE
    <3>1. CASE j <= Len(stack)
      <4>1. i <= Len(stack)
        BY <2>2, <2>6, <3>1
      <4>2. i = j
        BY <1>1, <2>3, <2>6, <3>1, <4>1 DEF StackInv
      <4> QED
        BY <2>2, <2>6, <4>2
    <3>2. CASE i <= Len(stack) /\ j > Len(stack)
      BY <2>2, <2>4, <2>6, <3>2
    <3>3. CASE i > Len(stack) /\ j > Len(stack)
      <4> DEFINE a == i - Len(stack)
                 b == j - Len(stack)
      <4>1. a \in 1..Len(new) /\ b \in 1..Len(new) /\ new[a] = Clinit(c) /\ new[b] = Clinit(c)
        BY <2>3, <2>6, <3>3
      <4>2. a < b
        BY <2>2, <2>6
      <4> QED
        BY <2>5, <4>1, <4>2
    <3> QED
      BY <2>2, <3>1, <3>2, <3>3
  <2>7. \A c \in Classes : \A i, j \in 1..Len(stack') : At(i, c)' /\ At(j, c)' => i = j
    <3>1. SUFFICES ASSUME NEW c \in Classes, NEW i \in 1..Len(stack'),
                          NEW j \in 1..Len(stack'), At(i, c)', At(j, c)'
                   PROVE  ~(i < j) /\ ~(j < i)
      BY <2>2
    <3> QED
      BY <2>6, <3>1
  <2>8. \A c \in Classes : \A i \in 1..Len(stack') :
          At(i, c)' => c \in initStarted' \ finished'
    BY <2>2, <2>4
  <2>9. ASSUME NEW c \in initStarted', HasClinit(c)', c \notin finished'
        PROVE  Running(c)'
    <3>1. c \in Classes /\ HasClinit(c)
      BY <1>1, <2>2, <2>9, ProgramStays
    <3>2. CASE c \in initStarted
      <4>1. PICK i \in 1..Len(stack) : At(i, c)
        BY <1>1, <2>2, <2>9, <3>1, <3>2 DEF StackInv, Running
      <4>2. i \in 1..Len(stack') /\ i <= Len(stack)
        BY <2>2
      <4> QED
        BY <2>3, <4>1, <4>2 DEF Running
    <3>3. CASE c \in marked
      <4>1. PICK k \in 1..Len(new) : new[k] = Clinit(c)
        BY <2>1, <3>1, <3>3 DEF Grows, Schedules
      <4> DEFINE i == k + Len(stack)
      <4>2. i \in 1..Len(stack') /\ i > Len(stack) /\ i - Len(stack) = k
        BY <2>2
      <4> HIDE DEF i
      <4> QED
        BY <2>3, <4>1, <4>2 DEF Running
    <3> QED
      BY <2>2, <3>2, <3>3
  <2> QED
    BY <2>2, <2>7, <2>8, <2>9 DEF StackInv
<1> QED
  BY <1>2, <1>3, <1>4, BeforeStep DEF Moves

\* Above a <clinit> that waits there are still those of ancestors only, up to
\* one that has begun.
LEMMA StepOrder == CInv /\ Next => OrderInv'
<1> SUFFICES ASSUME CInv, Next PROVE OrderInv'
  OBVIOUS
<1>1. OrderInv /\ UNCHANGED program /\ begun \subseteq begun'
  BY BeforeStep DEF CInv, Begins
<1>2. \A c \in initStarted' : Super(c)' # NoClass => Super(c)' \in initStarted'
  <2>1. \A c \in initStarted' : Super(c) # NoClass => Super(c) \in initStarted'
    BY <1>1, BeforeStep DEF Moves, Panics, Shrinks, Grows, Schedules, OrderInv
  <2> QED
    BY <1>1, <2>1, ProgramStays
<1>3. ASSUME NEW i \in 1..Len(stack'), NEW j \in 1..Len(stack'),
             NEW c \in Classes \ begun', i < j, At(i, c)'
      PROVE  \E k \in (i + 1)..j : \E a \in Ancestors(c) :
               At(k, a)' /\ (a \in begun' \/ k = j)
  <2>1. CASE Panics
    BY <2>1 DEF Panics
  <2>2. CASE Shrinks
    <3>1. /\ Len(stack') = Len(stack) - 1 /\ Len(stack) \in Nat \ {0}
          /\ \A k \in 1..Len(stack') : k \in 1..Len(stack) /\ \A a : At(k, a)' <=> At(k, a)
      BY <2>2, BeforeStep DEF Shrinks, At
    <3>2. PICK k \in (i + 1)..j : \E a \in Ancestors(c) : At(k, a) /\ (a \in begun \/ k = j)
      BY <1>1, <1>3, <3>1 DEF OrderInv
    <3>3. k \in 1..Len(stack')
      BY <3>1
    <3> QED
      BY <1>1, <3>1, <3>2, <3>3
  <2>3. CASE \E marked, new : Grows(marked, new)
    <3>1. PICK marked, new : Grows(marked, new)
      BY <2>3
    <3>2. /\ Len(stack') = Len(stack) + Len(new)
          /\ Len(stack) \in Nat \ {0} /\ Len(new) \in Nat
      BY <3>1, BeforeStep DEF Grows
    <3>3. \A k \in 1..Len(stack') :
            /\ k <= Len(stack) => \A a : At(k, a)' <=> At(k, a)
            /\ k > Len(stack) => /\ k - Len(stack) \in 1..Len(new)
                                 /\ \A a : At(k, a)' <=> new[k - Len(stack)] = Clinit(a)
      BY <3>1, <3>2 DEF Grows, At
    <3>4. CASE i <= Len(stack)
      <4>1. i \in 1..Len(stack) /\ At(i, c) /\ i # Len(stack)
        BY <1>3, <3>2, <3>3, <3>4, BeforeStep DEF Begins
      <4>2. PICK m \in 1..Len(stack) : /\ i < m /\ m <= j
                                       /\ (m = j \/ m = Len(stack))
        <5>1. CASE j <= Len(stack)
          BY <1>3, <3>2, <5>1
        <5>2. CASE j > Len(stack)
          BY <1>3, <3>2, <4>1, <5>2
        <5> QED
          BY <3>2, <5>1, <5>2
      <4>3. PICK k \in (i + 1)..m : \E a \in Ancestors(c) : At(k, a) /\ (a \in begun \/ k = m)
        BY <1>1, <1>3, <4>1, <4>2 DEF OrderInv
      <4>4. PICK a \in Ancestors(c) : At(k, a) /\ (a \in begun \/ k = m)
        BY <4>3
      <4>5. k \in (i + 1)..j /\ k \in 1..Len(stack') /\ k <= Len(stack)
        BY <3>2, <4>2
      <4>6. a \in begun' \/ k = j
        <5>1. CASE k = Len(stack)
          <6>1. a \in Classes
            BY <1>3, BeforeStep, AncestorsClosed
          <6> QED
            BY <4>4, <5>1, <6>1, BeforeStep DEF Begins
        <5>2. CASE k # Len(stack)
          BY <1>1, <4>2, <4>4, <5>2
        <5> QED
          BY <5>1, <5>2
      <4> QED
        BY <3>3, <4>4, <4>5, <4>6
    <3>5. CASE i > Len(stack)
      <4> DEFINE p == i - Len(stack)
                 q == j - Len(stack)
      <4>1. p \in 1..Len(new) /\ new[p] = Clinit(c)
        BY <1>3, <3>3, <3>5
      <4>2. j > Len(stack) /\ q \in 1..Len(new) /\ p < q
        BY <1>3, <3>2, <3>3, <3>5
      <4>3. PICK d \in Ancestors(c) : new[q] = Clinit(d)
        BY <1>3, <3>1, <4>1, <4>2 DEF Grows, Schedules
      <4>4. At(j, d)'
        BY <3>3, <4>2, <4>3
      <4>5. j \in (i + 1)..j
        BY <1>3, <3>2
      <4> QED
        BY <4>4, <4>5
    <3> QED
      BY <3>2, <3>4, <3>5
  <2> QED
    BY <2>1, <2>2, <2>3, BeforeStep DEF Moves
<1>4. \A i, j \in 1..Len(stack') : \A c \in Classes \ begun' : i < j /\ At(i, c)' =>
        \E k \in (i + 1)..j : \E a \in Ancestors(c)' :
          At(k, a)' /\ (a \in begun' \/ k = j)
  BY <1>1, <1>3, ProgramStays
<1> QED
  BY <1>2, <1>4 DEF OrderInv

\* A <clinit> that begins does so after those of the superclasses, but for one
\* that waits below a superclass of its own.
LEMMA StepSuperclassFirst == CInv /\ Next => SuperclassFirst'
<1> SUFFICES ASSUME CInv, Next PROVE SuperclassFirst'
  OBVIOUS
<1> SUFFICES ASSUME NEW c \in begun', NEW s \in Ancestors(c),
                    HasClinit(s), s \notin begun', ~panicked'
             PROVE  (OnStack(Clinit(s)) # {})' /\ Ancestors(s) \cap begun' # {}
  <2>1. UNCHANGED program
    BY BeforeStep DEF Begins
  <2> QED
    BY <2>1, ProgramStays DEF SuperclassFirst
<1>1. /\ TypeOK /\ StackInv /\ OrderInv /\ SuperclassFirst
      /\ begun' = begun \cup {x \in Classes : At(Len(stack), x)}
      /\ c \in Classes /\ s \in Classes /\ c \in initStarted
      /\ ~panicked /\ Len(stack) \in Nat \ {0} /\ finished \subseteq begun
  BY BeforeStep, BegunStarted, AncestorsClosed DEF CInv, Begins
<1>2. s \in initStarted
  BY <1>1, AncestorsStarted
<1>3. PICK i \in 1..Len(stack) : At(i, s)
  BY <1>1, <1>2 DEF StackInv, Running
<1>4. i \in 1..Len(stack') /\ At(i, s)' /\ i # Len(stack)
  BY <1>1, <1>3, WaitingStays
<1>5. (OnStack(Clinit(s)) # {})'
  <2>1. Len(stack') \in Nat /\ DOMAIN stack' = 1..Len(stack')
    BY <1>1, StepTypes DEF CInv, TypeOK
  <2> QED
    BY <1>4, <2>1 DEF OnStack, At
<1>6. PICK k \in (i + 1)..Len(stack) : \E a \in Ancestors(s) :
        At(k, a) /\ (a \in begun \/ k = Len(stack))
  BY <1>1, <1>3, <1>4 DEF OrderInv
<1>7. PICK a \in Ancestors(s) : At(k, a) /\ (a \in begun \/ k = Len(stack))
  BY <1>6
<1>8. a \in Classes
  BY <1>1, BeforeStep, AncestorsClosed
<1>9. a \in begun'
  BY <1>1, <1>7, <1>8
<1> QED
  BY <1>5, <1>9

\* The invariant is inductive.
LEMMA StepCInv == CInv /\ [Next]_vars => CInv'
<1> SUFFICES ASSUME CInv, [Next]_vars PROVE CInv'
  OBVIOUS
<1>1. CASE Next
  BY <1>1, StepTypes, StepStack, StepOrder, StepSuperclassFirst DEF CInv
<1>2. CASE UNCHANGED vars
  <2>1. UNCHANGED <<program, stack, initStarted, begun, finished, panicked>>
    BY <1>2 DEF vars
  <2> QED
    BY <2>1, ProgramStays
       DEF CInv, TypeOK, StackInv, OrderInv, SuperclassFirst, Running, At, OnStack,
           program
<1> QED
  BY <1>1, <1>2

\* So it holds in every state.
LEMMA CInvInvariant == Spec => []CInv
BY InitCInv, StepCInv, PTL DEF Spec

-----------------------------------------------------------------------------
(* The properties *)

\* The stack holds frames of the program's methods and never more than fit, a
\* <clinit> begins only after its class is marked and returns only after it began.
THEOREM TypeCorrect == Spec => []TypeOK
BY CInvInvariant, PTL DEF CInv

\* A <clinit> is run once, however often and from wherever its class is used.
THEOREM OnceOnly == Spec => []ClinitOnce
<1>1. ASSUME CInv PROVE ClinitOnce
  <2> SUFFICES ASSUME NEW c \in Classes
               PROVE  /\ Cardinality(OnStack(Clinit(c))) <= 1
                      /\ c \in finished => OnStack(Clinit(c)) = {}
    BY DEF ClinitOnce
  <2>1. Len(stack) \in Nat /\ DOMAIN stack = 1..Len(stack)
    BY <1>1 DEF CInv, TypeOK
  <2>2. \A i, j \in OnStack(Clinit(c)) : i = j
    BY <1>1, <2>1 DEF CInv, StackInv, OnStack, At
  <2>3. c \in finished => OnStack(Clinit(c)) = {}
    BY <1>1, <2>1 DEF CInv, StackInv, OnStack, At
  <2>4. Cardinality(OnStack(Clinit(c))) <= 1
    <3>1. CASE OnStack(Clinit(c)) = {}
      BY <3>1, FS_EmptySet
    <3>2. CASE OnStack(Clinit(c)) # {}
      <4>1. PICK i : OnStack(Clinit(c)) = {i}
        BY <2>2, <3>2
      <4>2. Cardinality({i}) = 1
        BY FS_Singleton
      <4> QED
        BY <4>1, <4>2
    <3> QED
      BY <3>1, <3>2
  <2> QED
    BY <2>3, <2>4
<1> QED
  BY <1>1, CInvInvariant, PTL

\* A <clinit> begins after those of all superclasses, but for one that waits
\* below a superclass of its own.
THEOREM SuperFirst == Spec => []SuperclassFirst
BY CInvInvariant, PTL DEF CInv

\* An instruction takes effect only when the class it names is initialised or
\* being initialised.
THEOREM UsesReady == Spec => UsesInitialised
<1> DEFINE c == Current.class
           Ready == \/ stack' = <<>> \/ stack'[Len(stack)] = stack[Len(stack)]
                    \/ ~HasClinit(c) /\ c \in initStarted
                    \/ c \in finished \/ OnStack(Clinit(c)) # {}
<1>1. ASSUME CInv, [Next]_vars, stack # <<>>, ~AtReturn PROVE Ready
  <2>1. CASE UNCHANGED vars
    BY <2>1 DEF vars
  <2>2. CASE InitFirst
    <3> DEFINE q == Scheduled(c)
               frames == [k \in DOMAIN q |-> Frame(Clinit(q[k]))]
               F == [method : DOMAIN code, pc : 1..(MaxCode + 1)]
    <3>1. stack' = <<>> \/ stack' = stack \o frames
      BY <2>2 DEF InitFirst, InitClass, Reverted, PushOn
    <3>2. stack \in Seq(F) /\ Len(stack) \in Nat \ {0} /\ q \in Seq(Classes)
      BY <1>1, CurrentTyped, ScheduledUnfold DEF CInv, TypeOK
    <3> DEFINE G == F \cup {frames[k] : k \in DOMAIN q}
    <3>3. frames \in Seq(G)
      BY <3>2
    <3> HIDE DEF frames, F
    <3>4. stack \in Seq(G)
      BY <3>2
    <3> HIDE DEF G
    <3>5. (stack \o frames)[Len(stack)] = stack[Len(stack)]
      BY <3>2, <3>3, <3>4, ConcatProperties
    <3> QED
      BY <3>1, <3>5
  <2>3. CASE Use \/ InvokeStatic
    <3>1. c \in Classes /\ c \in initStarted
      BY <1>1, <2>3, CurrentTyped DEF CInv, Use, InvokeStatic, NeedsInit
    <3>2. ~panicked /\ Len(stack) \in Nat /\ DOMAIN stack = 1..Len(stack)
      BY <1>1 DEF CInv, StackInv, TypeOK
    <3>3. HasClinit(c) => c \in finished \/ Running(c)
      BY <1>1, <3>1, <3>2 DEF CInv, StackInv
    <3>4. Running(c) => OnStack(Clinit(c)) # {}
      BY <3>2 DEF Running, At, OnStack
    <3> QED
      BY <3>1, <3>3, <3>4
  <2>4. CASE Return
    BY <1>1, <2>4 DEF Return
  <2> QED
    BY <1>1, <2>1, <2>2, <2>3, <2>4 DEF Next
<1>2. CInv /\ [Next]_vars => (stack # <<>> /\ ~AtReturn => Ready)
  BY <1>1
<1> HIDE DEF Ready
<1>3. Spec => [][stack # <<>> /\ ~AtReturn => Ready]_vars
  BY <1>2, CInvInvariant, PTL DEF Spec
<1> QED
  BY <1>3 DEF UsesInitialised, Ready
=============================================================================
