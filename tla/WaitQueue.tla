----------------------------- MODULE WaitQueue -----------------------------
(***************************************************************************)
(* Wait queues (kernel/sched.c, kernel/fork.c) as operators. A queue is a  *)
(* sequence of entries with the task that waits and whether its entry is   *)
(* exclusive; state gives every task's TASK_ state.                        *)
(***************************************************************************)
EXTENDS Naturals, Sequences, FiniteSetsExt

TASK_RUNNING == "RUNNING"
TASK_INTERRUPTIBLE == "INTERRUPTIBLE"
TASK_UNINTERRUPTIBLE == "UNINTERRUPTIBLE"
TaskStates == {TASK_RUNNING, TASK_INTERRUPTIBLE, TASK_UNINTERRUPTIBLE}

add_wait_queue(q, t) == <<[task |-> t, exclusive |-> FALSE]>> \o q
add_wait_queue_exclusive(q, t) == Append(q, [task |-> t, exclusive |-> TRUE])
remove_wait_queue(q, t) ==
    LET at == CHOOSE i \in DOMAIN q : q[i].task = t
    IN  [j \in 1 .. Len(q) - 1 |-> IF j < at THEN q[j] ELSE q[j + 1]]

\* The tasks __wake_up_common makes runnable: those that sleep in a state of mode,
\* from the head of the queue to the first exclusive one.
Wakes(q, state, mode) ==
    LET hit == {i \in DOMAIN q : state[q[i].task] \in mode}
        stop == {i \in hit : q[i].exclusive}
    IN  {q[i].task : i \in IF stop = {} THEN hit ELSE {j \in hit : j <= Min(stop)}}

\* state after __wake_up(q, mode, WQ_FLAG_EXCLUSIVE) in process context.
WakeUp(q, state, mode) ==
    [t \in DOMAIN state |-> IF t \in Wakes(q, state, mode) THEN TASK_RUNNING ELSE state[t]]

Asleep == {TASK_INTERRUPTIBLE, TASK_UNINTERRUPTIBLE}
wake_up(q, state) == WakeUp(q, state, Asleep)
wake_up_interruptible(q, state) == WakeUp(q, state, {TASK_INTERRUPTIBLE})
=============================================================================
