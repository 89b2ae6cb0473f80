----------------------------- MODULE KSemaphore -----------------------------
(***************************************************************************)
(* The kernel semaphores of i386: down, down_interruptible, down_trylock   *)
(* and up of include/asm-i386/semaphore.h with the slow paths of           *)
(* arch/i386/kernel/semaphore.c. A locked instruction on count is a step,  *)
(* and so is a section under semaphore_lock, which has one such            *)
(* instruction.                                                            *)
(***************************************************************************)
EXTENDS Integers, FiniteSets, WaitQueue

CONSTANTS
    Procs,     \* processes
    NULL,      \* no process
    Val,       \* the val of sema_init
    MaxPosts   \* bound on the calls of up by processes that hold nothing

ASSUME KSemAssumption ==
    /\ IsFiniteSet(Procs) /\ NULL \notin Procs
    /\ Val \in Nat /\ MaxPosts \in Nat

VARIABLES
    count,     \* sem->count
    sleepers,  \* sem->sleepers
    wait,      \* sem->wait
    lock,      \* holder of semaphore_lock between two steps
    state,     \* state of every task
    sig,       \* tasks with a signal pending
    pc,        \* where each process is
    intr,      \* processes whose call is down_interruptible
    holders,   \* history: processes that have a unit
    posts      \* history: units given by processes that had none

semVars == <<count, sleepers, wait, lock>>
taskVars == <<state, sig>>
vars == <<semVars, taskVars, pc, intr, holders, posts>>

\* Processes whose decrement of count no sleepers stands for yet.
Pre == {p \in Procs : pc[p] \in {"queue", "first", "trylock"}}

Goto(p, l) == pc' = [pc EXCEPT ![p] = l]

Init ==
    /\ count = Val /\ sleepers = 0 /\ wait = <<>>
    /\ lock = NULL
    /\ state = [p \in Procs |-> TASK_RUNNING]
    /\ sig = {}
    /\ pc = [p \in Procs |-> "idle"]
    /\ intr = {} /\ holders = {} /\ posts = 0

-----------------------------------------------------------------------------
(* down, down_interruptible: "decl; js" and the call of __down.            *)

\* A process that has a unit does not ask for another one.
Decrement_Zero(p, slow) ==     \* mutant: the sign is tested before the decrement
    /\ pc[p] = "idle" /\ p \notin holders
    /\ count' = count - 1
    /\ IF count >= 0
       THEN holders' = holders \cup {p} /\ UNCHANGED pc
       ELSE Goto(p, slow) /\ UNCHANGED holders
    /\ UNCHANGED <<sleepers, wait, lock, taskVars, posts>>
Decrement(p, slow) ==
    /\ pc[p] = "idle" /\ p \notin holders
    /\ count' = count - 1
    /\ IF count - 1 >= 0
       THEN holders' = holders \cup {p} /\ UNCHANGED pc
       ELSE Goto(p, slow) /\ UNCHANGED holders
    /\ UNCHANGED <<sleepers, wait, lock, taskVars, posts>>

Down(p) ==
    /\ Decrement(p, "queue")
    /\ UNCHANGED intr

DownInterruptible(p) ==
    /\ Decrement(p, "queue")
    /\ intr' = IF pc'[p] = "queue" THEN intr \cup {p} ELSE intr

SleepState(p) == IF p \in intr THEN TASK_INTERRUPTIBLE ELSE TASK_UNINTERRUPTIBLE

\* The state is set, then the entry added; only a signal can come in between, and
\* has the same effect afterwards.
DownQueue(p) ==
    /\ pc[p] = "queue"
    /\ state' = [state EXCEPT ![p] = SleepState(p)]
    /\ wait' = add_wait_queue_exclusive(wait, p)
    /\ Goto(p, "first")
    /\ UNCHANGED <<count, sleepers, lock, sig, intr, holders, posts>>

\* One turn of the loop, with s the value of sem->sleepers that it reads.
DownTurn(p, s) ==
    /\ lock = NULL
    /\ \/ /\ p \in intr /\ p \in sig
          /\ sleepers' = 0
          /\ count' = count + s
          /\ Goto(p, "leave")
          /\ UNCHANGED holders
       \/ /\ ~(p \in intr /\ p \in sig)
          /\ count' = count + s - 1
          /\ IF count + s - 1 >= 0
             THEN /\ sleepers' = 0
                  /\ Goto(p, "leave")
                  /\ holders' = holders \cup {p}
             ELSE /\ sleepers' = 1
                  /\ Goto(p, "sleep")
                  /\ UNCHANGED holders
    /\ UNCHANGED <<wait, lock, taskVars, intr, posts>>

DownFirst(p) == pc[p] = "first" /\ DownTurn(p, sleepers + 1)
DownAgain(p) == pc[p] = "again" /\ DownTurn(p, sleepers)

\* schedule() returns once the task is runnable, at once if it sleeps interruptibly
\* with a signal pending; the task then goes back to its sleeping state.
Schedule(p) ==
    /\ pc[p] = "sleep"
    /\ state[p] = TASK_RUNNING \/ (state[p] = TASK_INTERRUPTIBLE /\ p \in sig)
    /\ state' = [state EXCEPT ![p] = SleepState(p)]
    /\ Goto(p, "again")
    /\ UNCHANGED <<semVars, sig, intr, holders, posts>>

DownLeave(p) ==
    /\ pc[p] = "leave"
    /\ wait' = remove_wait_queue(wait, p)
    /\ state' = [state EXCEPT ![p] = TASK_RUNNING]
    /\ Goto(p, "down_wake")
    /\ UNCHANGED <<count, sleepers, lock, sig, intr, holders, posts>>

Wake == state' = wake_up(wait, state)

\* The last wake_up of __down: others may have been passed while we were counted.
\* Back in user mode the signal is handled.
DownWake(p) ==
    /\ pc[p] = "down_wake"
    /\ Wake
    /\ Goto(p, "idle")
    /\ intr' = intr \ {p}
    /\ sig' = sig \ {p}
    /\ UNCHANGED <<semVars, holders, posts>>

-----------------------------------------------------------------------------
(* down_trylock and up.                                                    *)

DownTrylock(p) ==
    /\ Decrement(p, "trylock")
    /\ UNCHANGED intr

\* __down_trylock: gives back its own decrement and that of the sleepers.
TrylockFail(p) ==
    /\ pc[p] = "trylock" /\ lock = NULL
    /\ sleepers' = 0
    /\ count' = count + sleepers + 1
    /\ IF count + sleepers + 1 >= 0
       THEN Goto(p, "try_wake") /\ lock' = p
       ELSE Goto(p, "idle") /\ UNCHANGED lock
    /\ UNCHANGED <<wait, taskVars, intr, holders, posts>>

TrylockWake(p) ==
    /\ pc[p] = "try_wake"
    /\ Wake
    /\ lock' = NULL
    /\ Goto(p, "idle")
    /\ UNCHANGED <<count, sleepers, wait, sig, intr, holders, posts>>

UpWakes_Neg(n) == n < 0            \* mutant: no wake-up when count becomes 0
UpWakes(n) == n <= 0

Up(p) ==
    /\ pc[p] = "idle"
    /\ \/ p \in holders /\ holders' = holders \ {p} /\ UNCHANGED posts
       \/ p \notin holders /\ posts < MaxPosts /\ posts' = posts + 1 /\ UNCHANGED holders
    /\ count' = count + 1
    /\ IF UpWakes(count + 1) THEN Goto(p, "up_wake") ELSE UNCHANGED pc
    /\ UNCHANGED <<sleepers, wait, lock, taskVars, intr>>

UpWake(p) ==
    /\ pc[p] = "up_wake"
    /\ Wake
    /\ Goto(p, "idle")
    /\ UNCHANGED <<semVars, sig, intr, holders, posts>>

\* A signal for a process in down_interruptible.
Signal(p) ==
    /\ p \in intr /\ p \notin sig
    /\ sig' = sig \cup {p}
    /\ state' = IF state[p] = TASK_INTERRUPTIBLE
                THEN [state EXCEPT ![p] = TASK_RUNNING] ELSE state
    /\ UNCHANGED <<semVars, pc, intr, holders, posts>>

-----------------------------------------------------------------------------
Calls(p) == Down(p) \/ DownInterruptible(p) \/ DownTrylock(p) \/ Up(p)
Steps(p) ==
    \/ DownQueue(p) \/ DownFirst(p) \/ Schedule(p) \/ DownAgain(p)
    \/ DownLeave(p) \/ DownWake(p)
    \/ TrylockFail(p) \/ TrylockWake(p) \/ UpWake(p)

Next == \E p \in Procs : Calls(p) \/ Steps(p) \/ Signal(p)
Spec == Init /\ [][Next]_vars

\* A process inside a call goes on whenever it can. Nothing else is assumed: not
\* that anybody calls up, nor that a sleeper is woken.
FairSpec == Spec /\ \A p \in Procs : WF_vars(Steps(p))

-----------------------------------------------------------------------------
PCs == {"idle", "queue", "first", "sleep", "again", "leave", "down_wake",
        "trylock", "try_wake", "up_wake"}

TypeOK ==
    /\ count \in Int /\ sleepers \in {0, 1}
    /\ pc \in [Procs -> PCs]
    /\ holders \subseteq Procs /\ intr \subseteq Procs
    /\ posts \in 0 .. MaxPosts

\* The units nobody has: what count says, without the decrements of processes that
\* wait or are about to.
Free == count + sleepers + Cardinality(Pre)

\* count, sleepers and the processes on their way always add up: no unit is made
\* or lost by a failed trylock, an interrupted or a repeated attempt, and there are
\* never more holders than units.
UnitsConserved ==
    /\ Free + Cardinality(holders) = Val + posts
    /\ Free >= 0

\* The semaphore behaves as the abstract one: a call of down, down_interruptible or
\* down_trylock succeeds only by taking a free unit.
Abs == INSTANCE Semaphore WITH val <- Free
SemaphoreSpec == Abs!Spec

Sleeping(p) == pc[p] = "sleep" /\ state[p] # TASK_RUNNING

\* When a unit is free while a process sleeps in down, someone soon takes the unit
\* or the process no longer sleeps: the wake-ups of up, of a failed trylock, of an
\* interrupted and of a successful down together reach a sleeper.
FreeUnitFound ==
    \A p \in Procs : (Free > 0 /\ Sleeping(p)) ~> (Free = 0 \/ ~Sleeping(p))
=============================================================================
