------------------------------- MODULE ClassInit -------------------------------
(***************************************************************************)
(* The interpreter loop of the JVM in Go, as far as it initialises         *)
(* classes.  getstatic, putstatic, new and invokestatic on a class whose   *)
(* initialisation has not started set the program counter back to          *)
(* themselves, push the frames of the <clinit> methods that have to run,   *)
(* and are executed once more when these have returned.                    *)
(*                                                                         *)
(* The program is arbitrary: which classes have a <clinit>, what it and    *)
(* the static methods do, and the class hierarchy are chosen at first.     *)
(***************************************************************************)
EXTENDS Integers, Sequences, FiniteSets, SequencesExt

CONSTANTS
  Classes,
  Statics,      \* those with a static method
  NoClass,      \* superclass of java/lang/Object
  Hierarchies,  \* candidates for superclasses and interfaces
  MaxCode,      \* bound on the instructions of a method
  MaxFrames     \* stack size of a thread (1024)

\* A class is loaded after its superclass, so superclasses form no circle.
ASSUME ClassAssumption ==
  /\ Statics \subseteq Classes /\ NoClass \notin Classes
  /\ Hierarchies \subseteq [super : [Classes -> Classes \cup {NoClass}],
                            interfaces : SUBSET Classes]
  /\ \A h \in Hierarchies : \A s \in (SUBSET Classes) \ {{}} :
       \E c \in s : h.super[c] \notin s
  /\ MaxCode \in Nat /\ MaxFrames \in Nat \ {0}

\* "use" is getstatic, putstatic or new; "invoke" is invokestatic.
Instruction == [op : {"use"}, class : Classes]
                 \cup [op : {"invoke"}, class : Statics]
Clinit(c) == <<"clinit", c>>
Static(c) == <<"static", c>>
Main == <<"main">>
Methods(with) ==
  {Main} \cup {Clinit(c) : c \in with} \cup {Static(c) : c \in Statics}

\* The instructions before the return.
Bodies == SeqOf(Instruction, MaxCode)

VARIABLES
  hierarchy, code,    \* the program
  stack,        \* frames, [method, pc] with pc its nextPC, top last
  initStarted,  \* classes
  begun, finished,    \* classes whose <clinit> has begun, returned (history)
  panicked

program == <<hierarchy, code>>
vars == <<program, stack, initStarted, begun, finished, panicked>>

Frame(m) == [method |-> m, pc |-> 1]

TypeOK ==
  /\ hierarchy \in Hierarchies
  /\ \E with \in SUBSET Classes : code \in [Methods(with) -> Bodies]
  /\ stack \in Seq([method : DOMAIN code, pc : 1..(MaxCode + 1)])
  /\ Len(stack) <= MaxFrames
  /\ initStarted \subseteq Classes /\ begun \subseteq initStarted
  /\ finished \subseteq begun
  /\ panicked \in BOOLEAN

\* interpret() pushes main; nothing initialises its class.
Init ==
  /\ hierarchy \in Hierarchies
  /\ \E with \in SUBSET Classes : code \in [Methods(with) -> Bodies]
  /\ stack = <<Frame(Main)>>
  /\ initStarted = {} /\ begun = {} /\ finished = {} /\ panicked = FALSE

-----------------------------------------------------------------------------
(* InitClass *)

\* GetClinitMethod
HasClinit(c) == Clinit(c) \in DOMAIN code

\* initSuperClass: the superclass InitClass goes on with.
SuperToInit(c) ==
  IF c \in hierarchy.interfaces \/ hierarchy.super[c] \in initStarted THEN NoClass ELSE hierarchy.super[c]

\* InitClass calls itself: what it does for c, its superclass, and so on.
Along(step, c) ==
  LET up[x \in Classes] ==
        IF SuperToInit(x) = NoClass THEN step[x]
                                    ELSE step[x] \o up[SuperToInit(x)]
  IN  up[c]

InitChain(c) == Along([x \in Classes |-> <<x>>], c)

\* scheduleClinit
ClinitOf == [x \in Classes |-> IF HasClinit(x) THEN <<x>> ELSE <<>>]

\* Mutants: the <clinit> of the superclass is pushed first; the flag stays.
ScheduledSuperFirst(c) == Reverse(Along(ClinitOf, c))
StartInitNot(c) == UNCHANGED initStarted

\* Of each class in turn, so that of the top one runs first.
Scheduled(c) == Along(ClinitOf, c)

StartInit(c) == initStarted' = initStarted \cup ToSet(InitChain(c))

\* Mutant: the size is compared before the frame counts.
PushOnLate(frames, new) ==
  IF Len(frames) <= MaxFrames
  THEN stack' = frames \o new /\ UNCHANGED panicked
  ELSE stack' = <<>> /\ panicked' = TRUE

\* push: the panic unwinds the stack in catchErr and ends the process.
PushOn(frames, new) ==
  IF Len(frames) + Len(new) <= MaxFrames
  THEN stack' = frames \o new /\ UNCHANGED panicked
  ELSE stack' = <<>> /\ panicked' = TRUE

InitClass(frames, c) ==
  /\ StartInit(c)
  /\ PushOn(frames, [i \in DOMAIN Scheduled(c) |-> Frame(Clinit(Scheduled(c)[i]))])

-----------------------------------------------------------------------------
(* One turn of the loop *)

Top == Last(stack)
Code == code[Top.method]
AtReturn == Top.pc > Len(Code)
Current == Code[Top.pc]

\* The stack after the fetch: nextPC is behind the instruction.
Fetched == [stack EXCEPT ![Len(stack)].pc = @ + 1]

\* Mutant: the instruction is not executed again.
RevertedNot == Fetched

\* RevertNextPC
Reverted == stack

NeedsInit == ~AtReturn /\ Current.class \notin initStarted

Turn ==
  /\ stack # <<>>
  /\ begun' = begun \cup {c \in Classes : Top.method = Clinit(c)}
  /\ UNCHANGED program

InitFirst ==
  /\ Turn /\ NeedsInit
  /\ InitClass(Reverted, Current.class)
  /\ UNCHANGED finished

Use ==
  /\ Turn /\ ~AtReturn /\ ~NeedsInit /\ Current.op = "use"
  /\ stack' = Fetched
  /\ UNCHANGED <<initStarted, finished, panicked>>

InvokeStatic ==
  /\ Turn /\ ~AtReturn /\ ~NeedsInit /\ Current.op = "invoke"
  /\ PushOn(Fetched, <<Frame(Static(Current.class))>>)
  /\ UNCHANGED <<initStarted, finished>>

Return ==
  /\ Turn /\ AtReturn
  /\ stack' = Front(stack)
  /\ finished' = finished \cup {c \in Classes : Top.method = Clinit(c)}
  /\ UNCHANGED <<initStarted, panicked>>

Next == InitFirst \/ Use \/ InvokeStatic \/ Return

Spec == Init /\ [][Next]_vars

\* The loop runs.
FairSpec == Spec /\ WF_vars(Next)

-----------------------------------------------------------------------------
(* Properties *)

OnStack(m) == {i \in DOMAIN stack : stack[i].method = m}

\* A <clinit> is run once, however often and from wherever the class is used
\* while it runs.
ClinitOnce ==
  \A c \in Classes :
    /\ Cardinality(OnStack(Clinit(c))) <= 1
    /\ c \in finished => OnStack(Clinit(c)) = {}

\* The classes above c; the superclass of an interface is of no interest.
Ancestors(c) ==
  LET above[x \in Classes] ==
        IF x \in hierarchy.interfaces \/ hierarchy.super[x] = NoClass
        THEN {} ELSE {hierarchy.super[x]} \cup above[hierarchy.super[x]]
  IN  above[c]

\* A <clinit> begins after those of all superclasses have begun.  The only
\* exception is a superclass s that was about to begin when a superclass of
\* its own made use of the class: s is then still on the stack.
SuperclassFirst ==
  \A c \in begun : \A s \in Ancestors(c) :
    HasClinit(s) /\ s \notin begun /\ ~panicked =>
      OnStack(Clinit(s)) # {} /\ Ancestors(s) \cap begun # {}

\* An instruction takes effect only when the class it names is initialised or
\* being initialised further down the stack.
UsesInitialised ==
  [][stack # <<>> /\ ~AtReturn =>
       LET c == Current.class
       IN  \/ stack' = <<>> \/ stack'[Len(stack)] = stack[Len(stack)]
           \/ ~HasClinit(c) /\ c \in initStarted
           \/ c \in finished \/ OnStack(Clinit(c)) # {}]_vars

\* The loop ends: initialisation never goes round in circles.
Terminates == <>(stack = <<>>)
=============================================================================
