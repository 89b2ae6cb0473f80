------------------------------- MODULE RwSem -------------------------------
(***************************************************************************)
(* The read-write semaphores of i386 (include/asm-i386/semaphore.h,        *)
(* arch/i386/kernel/semaphore.c). A locked instruction on count or on a    *)
(* granted flag is a step.                                                 *)
(***************************************************************************)
EXTENDS Integers, FiniteSets, WaitQueue

CONSTANTS
    Readers, Writers,  \* the processes, by the call they make
    BIAS               \* RW_LOCK_BIAS

Procs == Readers \cup Writers

ASSUME RwAssumption ==
    /\ IsFiniteSet(Procs) /\ Readers \cap Writers = {}
    /\ BIAS \in Nat /\ BIAS > Cardinality(Readers)

VARIABLES
    count,    \* sem->count
    granted,  \* read_bias_granted and write_bias_granted
    queue,    \* wait and write_bias_wait
    state,    \* state of every task
    pc,       \* where each process is
    biased,   \* processes in down_read_failed_biased or down_write_failed_biased
    after     \* where a process goes on after __rwsem_wake

vars == <<count, granted, queue, state, pc, biased, after>>

Amount(p) == IF p \in Readers THEN 1 ELSE BIAS
Kind(p) == IF p \in Readers THEN "read" ELSE "write"
Goto(p, l) == pc' = [pc EXCEPT ![p] = l]

Init ==
    /\ count = BIAS
    /\ granted = [k \in {"read", "write"} |-> FALSE]
    /\ queue = [q \in {"wait", "write_bias_wait"} |-> <<>>]
    /\ state = [p \in Procs |-> TASK_RUNNING]
    /\ pc = [p \in Procs |-> "idle"]
    /\ biased = {}
    /\ after = [p \in Procs |-> "idle"]

-----------------------------------------------------------------------------
(* down_read, down_write, __down_read_failed, __down_write_failed: one     *)
(* subtraction, then its flags decide.                                     *)

Got_NotZero(p, n) == IF p \in Readers THEN n # 0 ELSE n = 0    \* mutant: jnz for jns
Got(p, n) == IF p \in Readers THEN n >= 0 ELSE n = 0

\* The carry flag of a subtraction is a borrow: the unsigned n is less than d.
Borrow(n, d) == 0 <= n /\ n < d

Subtract(p) ==
    /\ count' = count - Amount(p)
    /\ \/ /\ Got(p, count - Amount(p))
          /\ Goto(p, "held")
          /\ UNCHANGED biased
       \/ /\ ~Got(p, count - Amount(p)) /\ Borrow(count, Amount(p))
          /\ Goto(p, "enter")
          /\ biased' = biased \cup {p}
       \/ /\ ~Got(p, count - Amount(p)) /\ ~Borrow(count, Amount(p))
          /\ Goto(p, "failed")
          /\ UNCHANGED biased
    /\ UNCHANGED <<granted, queue, state, after>>

DownCall(p) == pc[p] = "idle" /\ Subtract(p)
DownRetry(p) == pc[p] = "retry" /\ Subtract(p)

\* __up_read wakes when count becomes 0; __up_write when its addition carries, from
\* negative to 0 or above.
UpWakes(p) == IF p \in Readers THEN count + 1 = 0 ELSE count < 0 /\ count + BIAS >= 0

Add(p, next) ==
    /\ count' = count + Amount(p)
    /\ IF UpWakes(p)
       THEN /\ Goto(p, IF count + Amount(p) = 0 THEN "grant_write" ELSE "grant_read")
            /\ after' = [after EXCEPT ![p] = next]
       ELSE Goto(p, next) /\ UNCHANGED after
    /\ UNCHANGED <<granted, queue, state, biased>>

Up(p) == pc[p] = "held" /\ Add(p, "idle")
DownFailed(p) == pc[p] = "failed" /\ Add(p, "enter")

\* rwsem_wake_readers, rwsem_wake_writer: the flag, then the wake-up.
GrantAt(k) == IF k = "read" THEN "grant_read" ELSE "grant_write"
WakeAt(k) == IF k = "read" THEN "wake_read" ELSE "wake_write"

Grant(p, k) ==
    /\ pc[p] = GrantAt(k)
    /\ granted' = [granted EXCEPT ![k] = TRUE]
    /\ Goto(p, WakeAt(k))
    /\ UNCHANGED <<count, queue, state, biased, after>>

WakeGranted(p, k) ==
    /\ pc[p] = WakeAt(k)
    /\ state' = wake_up(queue[IF k = "read" THEN "wait" ELSE "write_bias_wait"], state)
    /\ Goto(p, after[p])
    /\ UNCHANGED <<count, granted, queue, biased, after>>

-----------------------------------------------------------------------------
(* The four functions that sleep have one shape. An owner of the bias      *)
(* waits for its granted flag, the others for a count that is not          *)
(* negative.                                                               *)

Queue(p) == IF p \in biased /\ p \in Writers THEN "write_bias_wait" ELSE "wait"

Enter(p) ==
    /\ pc[p] = "enter"
    /\ queue' = [queue EXCEPT ![Queue(p)] =
                    IF p \in Readers THEN add_wait_queue(@, p)
                                     ELSE add_wait_queue_exclusive(@, p)]
    /\ Goto(p, "test")
    /\ UNCHANGED <<count, granted, state, biased, after>>

\* The flag is taken with xchg.
Test_NoClear(p) ==             \* mutant: the flag is read and not cleared
    /\ pc[p] = "test"
    /\ IF p \in biased THEN granted[Kind(p)] ELSE count >= 0
    /\ Goto(p, "leave")
    /\ UNCHANGED <<count, granted, queue, state, biased, after>>
Test(p) ==
    /\ pc[p] = "test"
    /\ IF p \in biased
       THEN granted[Kind(p)] /\ granted' = [granted EXCEPT ![Kind(p)] = FALSE]
       ELSE count >= 0 /\ UNCHANGED granted
    /\ Goto(p, "leave")
    /\ UNCHANGED <<count, queue, state, biased, after>>

Ready(p) == IF p \in biased THEN granted[Kind(p)] ELSE count >= 0

TestFails(p) ==
    /\ pc[p] = "test" /\ ~Ready(p)
    /\ Goto(p, "set_state")
    /\ UNCHANGED <<count, granted, queue, state, biased, after>>

SetState(p) ==
    /\ pc[p] = "set_state"
    /\ state' = [state EXCEPT ![p] = TASK_UNINTERRUPTIBLE]
    /\ Goto(p, "retest")
    /\ UNCHANGED <<count, granted, queue, biased, after>>

Retest_Sleep(p) ==             \* mutant: no test between set_task_state and schedule
    /\ pc[p] = "retest"
    /\ Goto(p, "schedule")
    /\ UNCHANGED <<count, granted, queue, state, biased, after>>
Retest(p) ==
    /\ pc[p] = "retest"
    /\ Goto(p, IF ~Ready(p) THEN "schedule" ELSE IF p \in biased THEN "test" ELSE "leave")
    /\ UNCHANGED <<count, granted, queue, state, biased, after>>

Schedule(p) ==
    /\ pc[p] = "schedule" /\ state[p] = TASK_RUNNING
    /\ Goto(p, "test")
    /\ UNCHANGED <<count, granted, queue, state, biased, after>>

\* remove_wait_queue, TASK_RUNNING. Who waited without the bias subtracts again.
Leave(p) ==
    /\ pc[p] = "leave"
    /\ queue' = [queue EXCEPT ![Queue(p)] = remove_wait_queue(@, p)]
    /\ state' = [state EXCEPT ![p] = TASK_RUNNING]
    /\ Goto(p, IF p \notin biased THEN "retry" ELSE IF p \in Readers THEN "held" ELSE "pass_on")
    /\ biased' = biased \ {p}
    /\ UNCHANGED <<count, granted, after>>

\* A writer that was given the lock lets the others try, if nobody owns the bias.
PassOn(p) ==
    /\ pc[p] = "pass_on"
    /\ Goto(p, IF count >= 0 THEN "pass_wake" ELSE "held")
    /\ UNCHANGED <<count, granted, queue, state, biased, after>>

PassWake(p) ==
    /\ pc[p] = "pass_wake"
    /\ state' = wake_up(queue["wait"], state)
    /\ Goto(p, "held")
    /\ UNCHANGED <<count, granted, queue, biased, after>>

-----------------------------------------------------------------------------
Steps(p) ==
    \/ DownFailed(p) \/ DownRetry(p)
    \/ \E k \in {"read", "write"} : Grant(p, k) \/ WakeGranted(p, k)
    \/ Enter(p) \/ Test(p) \/ TestFails(p) \/ SetState(p) \/ Retest(p) \/ Schedule(p)
    \/ Leave(p) \/ PassOn(p) \/ PassWake(p)

Next == \E p \in Procs : DownCall(p) \/ Up(p) \/ Steps(p)
Spec == Init /\ [][Next]_vars

-----------------------------------------------------------------------------
\* A writer has the lock alone, whichever way it and others came by it: at once, by
\* the bias or after sleeping.
Has(p) == pc[p] \in {"held", "pass_on", "pass_wake"}
Exclusion == \A w \in Writers, q \in Procs : Has(w) /\ Has(q) => w = q

\* No BUG() is reached: a bias is not granted twice, and while the lock is held no
\* grant is pending that the assertions of down_read, up_read, down_write and
\* up_write exclude.
NoBUG ==
    \A p \in Procs :
        /\ pc[p] = "grant_read" => ~granted["read"]
        /\ pc[p] = "grant_write" => ~granted["write"]
        /\ pc[p] = "held" /\ p \in Readers => ~granted["write"]
        /\ pc[p] = "held" /\ p \in Writers => ~granted["read"] /\ ~granted["write"]

Sleeping(p) == pc[p] = "schedule" /\ state[p] # TASK_RUNNING
Quiet == \A p \in Procs : pc[p] = "idle" \/ Sleeping(p)

\* When all calls are done or asleep, neither a reader nor an owner of the bias is
\* asleep, although everybody who tried in between has changed count: "the lock has
\* been granted to whomever owned the bias", and readers are all woken.
BiasNotStranded == Quiet => \A p \in Procs : pc[p] # "idle" => p \in Writers \ biased
=============================================================================
