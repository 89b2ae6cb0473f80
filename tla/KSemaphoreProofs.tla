-------------------------- MODULE KSemaphoreProofs --------------------------
(***************************************************************************)
(* The kernel semaphore implements the abstract one, for every set of      *)
(* processes, every initial value and every number of extra up calls.      *)
(*                                                                         *)
(* The argument is one sum. Every decrement of count that did not get a    *)
(* unit is either still its process's own (Pre) or stands in sleepers, so  *)
(* Free = count + sleepers + |Pre| is the number of units nobody has, and  *)
(* only a step that takes or gives a unit changes it.                      *)
(***************************************************************************)
EXTENDS KSemaphore, FiniteSetTheorems, TLAPS

Counted == {"queue", "first", "trylock"}

\* A process on its way in has no unit yet, so getting one adds a holder.
WaitersHaveNone ==
    \A p \in Procs : pc[p] \in Counted \cup {"sleep", "again"} => p \notin holders

Inv == TypeOK /\ WaitersHaveNone /\ UnitsConserved

\* Sets of processes are finite.
LEMMA ProcsFinite ==
    ASSUME NEW S \in SUBSET Procs
    PROVE  IsFiniteSet(S) /\ Cardinality(S) \in Nat
BY KSemAssumption, FS_Subset, FS_CardinalityType

\* A process that goes from a place that does not count to one that does.
LEMMA PreGains ==
    ASSUME TypeOK, NEW p \in Procs, NEW l \in Counted, pc[p] \notin Counted, Goto(p, l)
    PROVE  Cardinality(Pre)' = Cardinality(Pre) + 1
<1>1. Pre' = Pre \cup {p} /\ p \notin Pre
    BY DEF TypeOK, Pre, Goto, Counted
<1>2. Pre \in SUBSET Procs
    BY DEF Pre
<1>3. QED
    BY <1>1, <1>2, ProcsFinite, FS_AddElement

\* ... from one that counts to one that does not.
LEMMA PreLoses ==
    ASSUME TypeOK, NEW p \in Procs, NEW l, l \notin Counted, pc[p] \in Counted, Goto(p, l)
    PROVE  Cardinality(Pre)' = Cardinality(Pre) - 1 /\ Cardinality(Pre) >= 1
<1>1. Pre' = Pre \ {p} /\ p \in Pre
    BY DEF TypeOK, Pre, Goto, Counted
<1>2. Pre \in SUBSET Procs /\ Pre' \in SUBSET Procs
    BY DEF Pre
<1>3. Cardinality(Pre') = Cardinality(Pre) - 1
    BY <1>1, <1>2, ProcsFinite, FS_RemoveElement
<1>4. Cardinality(Pre') \in Nat /\ Cardinality(Pre) \in Nat
    BY <1>2, ProcsFinite
<1>5. QED
    BY <1>3, <1>4

\* ... and between two places of the same kind.
LEMMA PreKeeps ==
    ASSUME TypeOK, NEW p \in Procs, NEW l, l \in Counted <=> pc[p] \in Counted, Goto(p, l)
    PROVE  Cardinality(Pre)' = Cardinality(Pre)
<1>1. Pre' = Pre
    BY DEF TypeOK, Pre, Goto, Counted
<1>2. QED
    BY <1>1

\* A step that moves nobody.
LEMMA PreSame ==
    ASSUME UNCHANGED pc
    PROVE  Cardinality(Pre)' = Cardinality(Pre)
BY DEF Pre

LEMMA PreNat == Cardinality(Pre) \in Nat
BY ProcsFinite DEF Pre

\* What a step does to the free units and the holders: it takes one, gives one back,
\* adds one, or neither changes.
Takes(p) == Free' = Free - 1 /\ Free >= 1 /\ p \notin holders /\ holders' = holders \cup {p} /\ posts' = posts
Gives(p) == Free' = Free + 1 /\ p \in holders /\ holders' = holders \ {p} /\ posts' = posts
Posts == Free' = Free + 1 /\ holders' = holders /\ posts' = posts + 1
Keeps == Free' = Free /\ holders' = holders /\ posts' = posts
Effect(p) == Takes(p) \/ Gives(p) \/ Posts \/ Keeps

LEMMA FreeInt == ASSUME TypeOK PROVE Free \in Int
BY PreNat DEF TypeOK, Free

\* The fast path of the three calls.
LEMMA DecrementEffect ==
    ASSUME Inv, NEW p \in Procs, NEW slow \in {"queue", "trylock"}, Decrement(p, slow)
    PROVE  Takes(p) \/ Keeps
<1>1. CASE count - 1 >= 0
    <2>1. Cardinality(Pre)' = Cardinality(Pre)
        BY <1>1, PreSame DEF Decrement
    <2>2. QED
        BY <1>1, <2>1, PreNat DEF Decrement, Takes, Free, Inv, TypeOK
<1>2. CASE ~(count - 1 >= 0)
    <2>1. Cardinality(Pre)' = Cardinality(Pre) + 1
        BY <1>2, PreGains DEF Decrement, Counted, Inv
    <2>2. QED
        BY <1>2, <2>1, PreNat DEF Decrement, Keeps, Free, Inv, TypeOK
<1>3. QED
    BY <1>1, <1>2

\* A turn of the loop of __down, the first one and the later ones.
LEMMA TurnEffect ==
    ASSUME Inv, NEW p \in Procs, DownFirst(p) \/ DownAgain(p)
    PROVE  Takes(p) \/ Keeps
<1>0. p \notin holders
    BY DEF Inv, WaitersHaveNone, Counted, DownFirst, DownAgain
<1>1. CASE DownFirst(p)
    <2>0. PICK l \in {"leave", "sleep"} : Goto(p, l)
        BY <1>1 DEF DownFirst, DownTurn
    <2>1. Cardinality(Pre)' = Cardinality(Pre) - 1 /\ Cardinality(Pre) >= 1
        BY <1>1, <2>0, PreLoses DEF DownFirst, Counted, Inv
    <2>2. QED
        BY <1>0, <1>1, <2>1, PreNat DEF DownFirst, DownTurn, Takes, Keeps, Free, Inv, TypeOK
<1>2. CASE DownAgain(p)
    <2>0. PICK l \in {"leave", "sleep"} : Goto(p, l)
        BY <1>2 DEF DownAgain, DownTurn
    <2>1. Cardinality(Pre)' = Cardinality(Pre)
        BY <1>2, <2>0, PreKeeps DEF DownAgain, Counted, Inv
    <2>2. QED
        BY <1>0, <1>2, <2>1, PreNat DEF DownAgain, DownTurn, Takes, Keeps, Free, Inv, TypeOK
<1>3. QED
    BY <1>1, <1>2

\* up: a unit given back or a new one.
LEMMA UpEffect ==
    ASSUME Inv, NEW p \in Procs, Up(p)
    PROVE  Gives(p) \/ Posts
<1>1. Cardinality(Pre)' = Cardinality(Pre)
    <2>1. CASE UNCHANGED pc
        BY <2>1, PreSame
    <2>2. CASE Goto(p, "up_wake")
        BY <2>2, PreKeeps DEF Up, Counted, Inv
    <2>3. QED
        BY <2>1, <2>2 DEF Up
<1>2. QED
    BY <1>1, PreNat DEF Up, Gives, Posts, Free, Inv, TypeOK

\* The failed trylock gives back its decrement and the one in sleepers at once.
LEMMA TrylockEffect ==
    ASSUME Inv, NEW p \in Procs, TrylockFail(p)
    PROVE  Keeps
<1>0. PICK l \in {"try_wake", "idle"} : Goto(p, l)
    BY DEF TrylockFail
<1>1. Cardinality(Pre)' = Cardinality(Pre) - 1
    BY <1>0, PreLoses DEF TrylockFail, Counted, Inv
<1>2. QED
    BY <1>1, PreNat DEF TrylockFail, Keeps, Free, Inv, TypeOK

\* All other steps only sleep, wake or move on.
LEMMA MoveEffect ==
    ASSUME Inv, NEW p \in Procs,
           \/ DownQueue(p) \/ Schedule(p) \/ DownLeave(p) \/ DownWake(p)
           \/ TrylockWake(p) \/ UpWake(p) \/ Signal(p)
    PROVE  Keeps
<1>1. UNCHANGED <<count, sleepers, holders, posts>>
    BY DEF DownQueue, Schedule, DownLeave, DownWake, TrylockWake, UpWake, Signal, semVars
<1>2. Cardinality(Pre)' = Cardinality(Pre)
    <2>1. CASE Signal(p)
        BY <2>1, PreSame DEF Signal
    <2>2. CASE DownQueue(p)
        BY <2>2, PreKeeps DEF DownQueue, Counted, Inv
    <2>3. CASE Schedule(p)
        BY <2>3, PreKeeps DEF Schedule, Counted, Inv
    <2>4. CASE DownLeave(p)
        BY <2>4, PreKeeps DEF DownLeave, Counted, Inv
    <2>5. CASE DownWake(p)
        BY <2>5, PreKeeps DEF DownWake, Counted, Inv
    <2>6. CASE TrylockWake(p)
        BY <2>6, PreKeeps DEF TrylockWake, Counted, Inv
    <2>7. CASE UpWake(p)
        BY <2>7, PreKeeps DEF UpWake, Counted, Inv
    <2>8. QED
        BY <2>1, <2>2, <2>3, <2>4, <2>5, <2>6, <2>7
<1>3. QED
    BY <1>1, <1>2 DEF Keeps, Free

\* Every step of a process has one of the four effects.
LEMMA StepEffect ==
    ASSUME Inv, NEW p \in Procs, Calls(p) \/ Steps(p) \/ Signal(p)
    PROVE  Effect(p)
<1>1. CASE Down(p) \/ DownInterruptible(p) \/ DownTrylock(p)
    BY <1>1, DecrementEffect DEF Down, DownInterruptible, DownTrylock, Effect
<1>2. CASE DownFirst(p) \/ DownAgain(p)
    BY <1>2, TurnEffect DEF Effect
<1>3. CASE Up(p)
    BY <1>3, UpEffect DEF Effect
<1>4. CASE TrylockFail(p)
    BY <1>4, TrylockEffect DEF Effect
<1>5. CASE \/ DownQueue(p) \/ Schedule(p) \/ DownLeave(p) \/ DownWake(p)
           \/ TrylockWake(p) \/ UpWake(p) \/ Signal(p)
    BY <1>5, MoveEffect DEF Effect
<1>6. QED
    BY <1>1, <1>2, <1>3, <1>4, <1>5 DEF Calls, Steps

\* Types are kept by every step.
LEMMA TypeStep ==
    ASSUME TypeOK, NEW p \in Procs, Calls(p) \/ Steps(p) \/ Signal(p)
    PROVE  TypeOK'
<1> USE DEF TypeOK, PCs, Goto
<1>1. CASE Down(p) \/ DownInterruptible(p) \/ DownTrylock(p)
    BY <1>1 DEF Down, DownInterruptible, DownTrylock, Decrement
<1>2. CASE DownFirst(p) \/ DownAgain(p)
    BY <1>2 DEF DownFirst, DownAgain, DownTurn
<1>3. CASE Up(p)
    BY <1>3, KSemAssumption DEF Up
<1>4. CASE TrylockFail(p)
    BY <1>4 DEF TrylockFail
<1>5. CASE \/ DownQueue(p) \/ Schedule(p) \/ DownLeave(p) \/ DownWake(p)
           \/ TrylockWake(p) \/ UpWake(p) \/ Signal(p)
    BY <1>5 DEF DownQueue, Schedule, DownLeave, DownWake, TrylockWake, UpWake, Signal, semVars
<1>6. QED
    BY <1>1, <1>2, <1>3, <1>4, <1>5 DEF Calls, Steps

\* A process gets a unit only as it stops waiting, and waits only without one.
LEMMA WaitersStep ==
    ASSUME Inv, NEW p \in Procs, Calls(p) \/ Steps(p) \/ Signal(p)
    PROVE  WaitersHaveNone'
<1> USE DEF Inv, TypeOK, WaitersHaveNone, Counted, Goto
<1>1. CASE Down(p) \/ DownInterruptible(p) \/ DownTrylock(p)
    BY <1>1 DEF Down, DownInterruptible, DownTrylock, Decrement
<1>2. CASE DownFirst(p) \/ DownAgain(p)
    BY <1>2 DEF DownFirst, DownAgain, DownTurn
<1>3. CASE Up(p)
    BY <1>3 DEF Up
<1>4. CASE TrylockFail(p)
    BY <1>4 DEF TrylockFail
<1>5. CASE \/ DownQueue(p) \/ Schedule(p) \/ DownLeave(p) \/ DownWake(p)
           \/ TrylockWake(p) \/ UpWake(p) \/ Signal(p)
    BY <1>5 DEF DownQueue, Schedule, DownLeave, DownWake, TrylockWake, UpWake, Signal, semVars
<1>6. QED
    BY <1>1, <1>2, <1>3, <1>4, <1>5 DEF Calls, Steps

LEMMA PostSum ==
    ASSUME Free \in Int, posts \in Int, Val \in Int, Cardinality(holders) \in Int,
           Free + Cardinality(holders) = Val + posts, Free >= 0
    PROVE  (Free + 1) + Cardinality(holders) = Val + (posts + 1) /\ Free + 1 >= 0
OBVIOUS

\* The sum is kept by each of the four effects.
LEMMA UnitsStep ==
    ASSUME Inv, TypeOK', NEW p \in Procs, Effect(p)
    PROVE  UnitsConserved'
<1>1. /\ IsFiniteSet(holders) /\ Cardinality(holders) \in Nat
      /\ Free \in Int /\ posts \in Int /\ Val \in Int
    BY ProcsFinite, FreeInt, KSemAssumption DEF Inv, TypeOK
<1>2. CASE Takes(p)
    <2>1. Cardinality(holders') = Cardinality(holders) + 1
        BY <1>1, <1>2, FS_AddElement DEF Takes
    <2>2. QED
        BY <1>1, <1>2, <2>1 DEF Takes, Inv, UnitsConserved
<1>3. CASE Gives(p)
    <2>1. Cardinality(holders') = Cardinality(holders) - 1
        BY <1>1, <1>3, FS_RemoveElement DEF Gives
    <2>2. QED
        BY <1>1, <1>3, <2>1 DEF Gives, Inv, UnitsConserved
<1>4. CASE Posts
    <2>1. Cardinality(holders') = Cardinality(holders)
        BY <1>4 DEF Posts
    <2>2. Free + Cardinality(holders) = Val + posts /\ Free >= 0
        BY DEF Inv, UnitsConserved
    <2>3. Free' = Free + 1 /\ posts' = posts + 1
        BY <1>4 DEF Posts
    <2>4. (Free + 1) + Cardinality(holders) = Val + (posts + 1) /\ Free + 1 >= 0
        BY <1>1, <2>2, PostSum
    <2>5. QED
        BY <2>1, <2>3, <2>4 DEF UnitsConserved
<1>5. CASE Keeps
    BY <1>1, <1>5 DEF Keeps, Inv, UnitsConserved
<1>6. QED
    BY <1>2, <1>3, <1>4, <1>5 DEF Effect

\* Nobody is on its way when the semaphore is new: all units are free.
LEMMA InitFree == ASSUME Init PROVE Free = Val
<1>1. Pre = {}
    BY DEF Init, Pre
<1>2. QED
    BY <1>1, FS_EmptySet, KSemAssumption DEF Init, Free

LEMMA InvInit == ASSUME Init PROVE Inv
<1>1. TypeOK
    BY KSemAssumption DEF Init, TypeOK, PCs
<1>2. WaitersHaveNone
    BY DEF Init, WaitersHaveNone
<1>3. UnitsConserved
    BY InitFree, FS_EmptySet, KSemAssumption DEF Init, UnitsConserved
<1>4. QED
    BY <1>1, <1>2, <1>3 DEF Inv

LEMMA InvNext == ASSUME Inv, [Next]_vars PROVE Inv'
<1>1. CASE UNCHANGED vars
    BY <1>1 DEF vars, semVars, taskVars, Inv, TypeOK, WaitersHaveNone, UnitsConserved, Free, Pre
<1>2. CASE Next
    <2>1. PICK p \in Procs : Calls(p) \/ Steps(p) \/ Signal(p)
        BY <1>2 DEF Next
    <2>2. TypeOK'
        BY <2>1, TypeStep DEF Inv
    <2>3. UnitsConserved'
        BY <2>1, <2>2, StepEffect, UnitsStep
    <2>4. QED
        BY <2>1, <2>2, <2>3, WaitersStep DEF Inv
<1>3. QED
    BY <1>1, <1>2

\* The invariant of count, sleepers and the processes in down, down_interruptible and
\* down_trylock, for all instances.
THEOREM Invariance == Spec => []Inv
BY InvInit, InvNext, PTL DEF Spec

\* No unit is made or lost on any path of semaphore.c, and there are never more
\* holders than units.
THEOREM UnitsAreConserved == Spec => []UnitsConserved
<1>1. Inv => UnitsConserved
    BY DEF Inv
<1>2. QED
    BY <1>1, Invariance, PTL

\* The semaphore of semaphore.c implements the abstract counting semaphore.
THEOREM ImplementsSemaphore == Spec => SemaphoreSpec
<1>1. Init => Abs!Init
    BY InitFree DEF Init, Abs!Init
<1>2. Inv /\ [Next]_vars => [Abs!Next]_(Abs!vars)
    <2>1. SUFFICES ASSUME Inv, [Next]_vars
                   PROVE  [Abs!Next]_(Abs!vars)
        OBVIOUS
    <2>2. CASE UNCHANGED vars
        BY <2>2 DEF vars, semVars, Abs!vars, Free, Pre
    <2>3. CASE Next
        <3>1. PICK p \in Procs : Calls(p) \/ Steps(p) \/ Signal(p)
            BY <2>3 DEF Next
        <3>2. Effect(p)
            BY <2>1, <3>1, StepEffect
        <3>3. Free \in Int
            BY <2>1, FreeInt DEF Inv
        <3>4. CASE Takes(p)
            BY <3>3, <3>4 DEF Takes, Abs!Next, Abs!Acquire
        <3>5. CASE Gives(p)
            BY <3>5 DEF Gives, Abs!Next, Abs!Release
        <3>6. CASE Posts
            BY <3>6 DEF Posts, Abs!Next, Abs!Post
        <3>7. CASE Keeps
            BY <3>7 DEF Keeps, Abs!vars
        <3>8. QED
            BY <3>2, <3>4, <3>5, <3>6, <3>7 DEF Effect
    <2>4. QED
        BY <2>1, <2>2, <2>3
<1>3. QED
    BY <1>1, <1>2, Invariance, PTL DEF Spec, SemaphoreSpec, Abs!Spec
=============================================================================
