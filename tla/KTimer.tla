------------------------------- MODULE KTimer -------------------------------
(***************************************************************************)
(* Kernel timers (kernel/timer.c): the five vectors of lists, their        *)
(* cascade, run_timer_list as the bottom half TIMER_BH runs it, and the    *)
(* calls of handlers and other processors. jiffies are unsigned numbers of *)
(* TVR_BITS + 4 * TVN_BITS bits (32 in the code) and wrap. A section under *)
(* timerlist_lock is a step; the one of run_timer_list is a step for every *)
(* turn of its loops.                                                      *)
(***************************************************************************)
EXTENDS Integers, SequencesExt

CONSTANTS
    Timers,    \* struct timer_list objects
    Procs,     \* processors that call del_timer_sync
    TVR_BITS, TVN_BITS,
    Delays,    \* expires of add_timer and mod_timer, relative to jiffies
    MaxLag,    \* bound on the ticks TIMER_BH may be behind
    CallTicks, \* bound on when timers are set: values of jiffies
    NULL       \* no timer

M == 2 ^ (TVR_BITS + 4 * TVN_BITS)
Size(n) == IF n = 1 THEN 2 ^ TVR_BITS ELSE 2 ^ TVN_BITS    \* lists of the vector n

\* What the constants have to be; the modules that instantiate this one assume it.
TimerAssumption ==
    /\ TVR_BITS \in Nat \ {0} /\ TVN_BITS \in Nat \ {0}
    /\ Delays \subseteq Int /\ MaxLag \in Nat /\ 2 * MaxLag < M
    /\ CallTicks \subseteq Nat
    /\ NULL \notin Timers
    /\ \A n \in 1 .. 5 : Size(n) \in Nat \ {0}    \* as powers are

VARIABLES
    jiffies, timer_jiffies,
    tv,       \* the lists of tv1 to tv5
    index,    \* their index fields
    expires,  \* timer->expires
    marked,   \* TIMER_BH is marked
    pc,       \* where run_timer_list is; it has timerlist_lock in "while" and "repeat"
    running,  \* running_timer
    fn,       \* the timer whose function is being called
    spc, st,  \* del_timer_sync of every processor and its timer
    due,      \* history: the tick on which a queued timer has to run
    deleted   \* history: timers del_timer_sync is done with and nobody has added since

timeVars == <<jiffies, timer_jiffies, marked>>
runVars == <<pc, running, fn>>
syncVars == <<spc, st>>
vars == <<timeVars, tv, index, expires, runVars, syncVars, due, deleted>>

\* (long) n >= 0 for an unsigned long n.
NonNegative(n) == n % M < M \div 2

-----------------------------------------------------------------------------
(* The vectors, tv1 to tv5.                                                *)

Shift(n) == IF n = 1 THEN 0 ELSE TVR_BITS + (n - 2) * TVN_BITS

\* The vector for a timer idx ticks ahead: the first one that reaches so far.
Level(idx) ==
    Min({n \in 1 .. 4 : idx < 2 ^ Shift(n + 1)} \cup {5})

\* The list for a timer that expires at e, as a pair of vector and slot; for one in
\* the past the list that runs next.
Slot(e) ==
    LET idx == (e - timer_jiffies) % M
        n == Level(idx)
    IN  IF n = 5 /\ ~NonNegative(idx) THEN <<1, index[1]>>
        ELSE <<n, (e \div 2 ^ Shift(n)) % Size(n)>>

internal_add_timer(v, t, e) ==
    LET s == Slot(e) IN [v EXCEPT ![s[1]][s[2]] = Append(@, t)]

\* A list without t.
list_del(s, t) ==
    LET f[m \in 0 .. Len(s)] ==
            IF m = 0 THEN <<>> ELSE IF s[m] = t THEN f[m - 1] ELSE Append(f[m - 1], s[m])
    IN  f[Len(s)]
detach_timer(v, t) ==
    [n \in 1 .. 5 |-> [i \in 0 .. Size(n) - 1 |-> list_del(v[n][i], t)]]

timer_pending(t) ==
    \E n \in 1 .. 5 : \E i \in 0 .. Size(n) - 1 : t \in ToSet(tv[n][i])

\* cascade_timers(tv + n): every timer of the list at index is put where it belongs
\* now, then the list is cleared.
Requeue(v, s) ==
    LET f[m \in 0 .. Len(s)] ==
            IF m = 0 THEN v ELSE internal_add_timer(f[m - 1], s[m], expires[s[m]])
    IN  f[Len(s)]
cascade_timers(v, n) ==
    [Requeue(v, v[n][index[n]]) EXCEPT ![n][index[n]] = <<>>]

\* The vectors run_timer_list cascades when tv1 starts over: the next one as long as
\* the one before was at its first list.
Cascaded_ButLast ==            \* mutant: the loop ends before tv5
    {n \in 2 .. 4 : \A m \in 2 .. n - 1 : index[m] = 0}
Cascaded == {n \in 2 .. 5 : \A m \in 2 .. n - 1 : index[m] = 0}

\* The lists after the turns of that loop, which is at tvecs[n].
Cascade ==
    LET f[n \in 0 .. 4] ==
            IF n = 0 THEN tv
            ELSE IF n + 1 \in Cascaded THEN cascade_timers(f[n - 1], n + 1) ELSE f[n - 1]
    IN  f[4]

Init ==
    /\ jiffies = 0 /\ timer_jiffies = 0 /\ marked = FALSE
    /\ tv = [n \in 1 .. 5 |-> [i \in 0 .. Size(n) - 1 |-> <<>>]]
    /\ index = [n \in 1 .. 5 |-> 0]
    /\ expires = [t \in Timers |-> 0]
    /\ pc = "idle" /\ running = NULL /\ fn = NULL
    /\ spc = [p \in Procs |-> "idle"] /\ st = [p \in Procs |-> NULL]
    /\ due = [t \in Timers |-> 0]
    /\ deleted = {}

-----------------------------------------------------------------------------
(* Calls, from handlers and elsewhere, when timerlist_lock is free.        *)

Unlocked == pc \in {"idle", "handler"}

DueAt(e) == IF NonNegative(e - timer_jiffies) THEN e ELSE timer_jiffies

Queue(v, t, e) ==
    /\ expires' = [expires EXCEPT ![t] = e]
    /\ tv' = internal_add_timer(v, t, e)
    /\ due' = [due EXCEPT ![t] = DueAt(e)]
    /\ deleted' = deleted \ {t}
    /\ UNCHANGED <<timeVars, index, runVars, syncVars>>

\* Added twice, a timer stays as it is.
AddTimer(t, d) ==
    /\ Unlocked /\ ~timer_pending(t) /\ jiffies \in CallTicks
    /\ Queue(tv, t, (jiffies + d) % M)

\* A timer that is not pending, mod_timer adds as add_timer does.
ModTimer(t, d) ==
    /\ Unlocked /\ timer_pending(t) /\ jiffies \in CallTicks
    /\ Queue(detach_timer(tv, t), t, (jiffies + d) % M)

DelTimer(t) ==
    /\ Unlocked /\ timer_pending(t)
    /\ tv' = detach_timer(tv, t)
    /\ UNCHANGED <<timeVars, index, expires, runVars, syncVars, due, deleted>>

Detach(p, t) ==
    /\ Unlocked
    /\ tv' = detach_timer(tv, t)
    /\ LET still == running = t IN
       /\ spc' = [spc EXCEPT ![p] = IF still THEN "spin" ELSE "idle"]
       /\ st' = [st EXCEPT ![p] = IF still THEN t ELSE NULL]
       /\ deleted' = IF still THEN deleted ELSE deleted \cup {t}
    /\ UNCHANGED <<timeVars, index, expires, runVars, due>>

DelTimerSync(p, t) == spc[p] = "idle" /\ Detach(p, t)
SyncAgain(p) == spc[p] = "lock" /\ Detach(p, st[p])

\* timer_synchronize: reads running_timer without the lock.
Synchronize(p) ==
    /\ spc[p] = "spin" /\ running # st[p]
    /\ spc' = [spc EXCEPT ![p] = "lock"]
    /\ UNCHANGED <<timeVars, tv, index, expires, runVars, st, due, deleted>>

-----------------------------------------------------------------------------
(* do_timer and timer_bh.                                                  *)

Tick ==
    /\ (jiffies + 1 - timer_jiffies) % M <= MaxLag
    /\ jiffies' = (jiffies + 1) % M
    /\ marked' = TRUE
    /\ UNCHANGED <<timer_jiffies, tv, index, expires, runVars, syncVars, due, deleted>>

RunBegin ==
    /\ pc = "idle" /\ marked
    /\ marked' = FALSE
    /\ pc' = "while"
    /\ UNCHANGED <<jiffies, timer_jiffies, tv, index, expires, running, fn, syncVars, due, deleted>>

RunEnd ==
    /\ pc = "while" /\ ~NonNegative(jiffies - timer_jiffies)
    /\ pc' = "idle"
    /\ UNCHANGED <<timeVars, tv, index, expires, running, fn, syncVars, due, deleted>>

RunCascade ==
    /\ pc = "while" /\ NonNegative(jiffies - timer_jiffies)
    /\ IF index[1] = 0
       THEN /\ tv' = Cascade
            /\ index' = [n \in 1 .. 5 |-> IF n \in Cascaded THEN (index[n] + 1) % Size(n)
                                                            ELSE index[n]]
       ELSE UNCHANGED <<tv, index>>
    /\ pc' = "repeat"
    /\ UNCHANGED <<timeVars, expires, running, fn, syncVars, due, deleted>>

RunTimer_Late(t) ==            \* mutant: timer_enter after the lock is dropped
    /\ pc = "repeat" /\ tv[1][index[1]] # <<>> /\ t = Head(tv[1][index[1]])
    /\ tv' = detach_timer(tv, t)
    /\ fn' = t
    /\ pc' = "handler"
    /\ UNCHANGED <<timeVars, index, expires, running, syncVars, due, deleted>>
RunTimer(t) ==
    /\ pc = "repeat" /\ tv[1][index[1]] # <<>> /\ t = Head(tv[1][index[1]])
    /\ tv' = detach_timer(tv, t)
    /\ running' = t /\ fn' = t
    /\ pc' = "handler"
    /\ UNCHANGED <<timeVars, index, expires, syncVars, due, deleted>>

RunReturn ==
    /\ pc = "handler"
    /\ running' = NULL /\ fn' = NULL
    /\ pc' = "repeat"
    /\ UNCHANGED <<timeVars, tv, index, expires, syncVars, due, deleted>>

RunNext ==
    /\ pc = "repeat" /\ tv[1][index[1]] = <<>>
    /\ timer_jiffies' = (timer_jiffies + 1) % M
    /\ index' = [index EXCEPT ![1] = (@ + 1) % Size(1)]
    /\ pc' = "while"
    /\ UNCHANGED <<jiffies, marked, tv, expires, running, fn, syncVars, due, deleted>>

Run == RunBegin \/ RunEnd \/ RunCascade \/ (\E t \in Timers : RunTimer(t)) \/ RunReturn \/ RunNext

Next ==
    \/ \E t \in Timers : \/ \E d \in Delays : AddTimer(t, d) \/ ModTimer(t, d)
                         \/ DelTimer(t)
                         \/ \E p \in Procs : DelTimerSync(p, t)
    \/ \E p \in Procs : Synchronize(p) \/ SyncAgain(p)
    \/ Tick \/ Run

Spec == Init /\ [][Next]_vars

-----------------------------------------------------------------------------
\* A timer runs on the tick it was set for, or on the next one if that is past: no
\* list is cascaded late or early, at the wrap of jiffies neither, and no timer is
\* left behind in a list that has been passed.
OnItsTick ==
    /\ [](\A t \in Timers : timer_pending(t) => NonNegative(due[t] - timer_jiffies))
    /\ [][\A t \in Timers : RunTimer(t) => due[t] = timer_jiffies]_vars

\* "Upon exit the timer is not queued and handler is not running on any CPU":
\* whatever del_timer_sync races with, run_timer_list and a handler that adds its own
\* timer again included.
DelSyncQuiesces ==
    \A t \in deleted : ~timer_pending(t) /\ fn # t
=============================================================================
