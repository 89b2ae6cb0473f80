----------------------------- MODULE Semaphore -----------------------------
(***************************************************************************)
(* What a counting semaphore promises: a unit is taken only when there is  *)
(* one, by one process.                                                    *)
(***************************************************************************)
EXTENDS Integers, FiniteSets

CONSTANTS
    Procs,  \* processes
    Val     \* units at the start

VARIABLES
    val,     \* units nobody has
    holders  \* processes that have a unit

vars == <<val, holders>>

Init == val = Val /\ holders = {}

Acquire(p) ==
    /\ val > 0
    /\ val' = val - 1
    /\ holders' = holders \cup {p}

Release(p) ==
    /\ p \in holders
    /\ val' = val + 1
    /\ holders' = holders \ {p}

\* A unit given by a process that took none, as with a locked mutex used to signal
\* that something is done.
Post ==
    /\ val' = val + 1
    /\ UNCHANGED holders

Next == (\E p \in Procs : Acquire(p) \/ Release(p)) \/ Post
Spec == Init /\ [][Next]_vars
=============================================================================
