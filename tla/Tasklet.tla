------------------------------ MODULE Tasklet ------------------------------
(***************************************************************************)
(* Softirqs, tasklets and bottom halves on several processors              *)
(* (kernel/softirq.c, include/linux/interrupt.h). Sections with interrupts *)
(* off and operations on one bit are steps. An interrupt may schedule a    *)
(* tasklet on a processor between any two of its steps.                    *)
(***************************************************************************)
EXTENDS Naturals, Sequences, FiniteSets

CONSTANTS
    Cpus,      \* processors
    Users,     \* processes that disable and kill tasklets
    Tasklets,  \* tasklets of tasklet_vec
    Bhs,       \* tasklets of bh_task_vec, all in tasklet_hi_vec
    NULL,      \* no tasklet, no processor
    Sources,   \* <<c, t>>: t may be scheduled by an interrupt or process on c
    Targets    \* tasklets that processes disable and kill

All == Tasklets \cup Bhs

ASSUME TaskletAssumption ==
    /\ IsFiniteSet(Cpus) /\ IsFiniteSet(Users) /\ IsFiniteSet(All)
    /\ Sources \subseteq Cpus \X All /\ Targets \subseteq All
    /\ Tasklets \cap Bhs = {} /\ NULL \notin All \cup Cpus

HI_SOFTIRQ == 0
TASKLET_SOFTIRQ == 3
Softirqs == {HI_SOFTIRQ, TASKLET_SOFTIRQ}
Nr(t) == IF t \in Bhs THEN HI_SOFTIRQ ELSE TASKLET_SOFTIRQ

VARIABLES
    active,   \* softirq_active of every processor
    vec,      \* tasklet_hi_vec and tasklet_vec of every processor
    sched,    \* tasklets with TASKLET_STATE_SCHED
    run,      \* tasklets with TASKLET_STATE_RUN
    count,    \* t->count
    bhlock,   \* holder of global_bh_lock
    irq,      \* tasklet being put on the list of a processor, interrupts off
    pc, todo, mask, list,  \* do_softirq and tasklet_action of every processor
    upc, ut   \* call and tasklet of every process

softVars == <<active, vec>>
taskletVars == <<sched, run, count>>
cpuVars == <<pc, todo, mask, list>>
userVars == <<upc, ut>>
vars == <<softVars, taskletVars, bhlock, irq, cpuVars, userVars>>

Init ==
    /\ active = [c \in Cpus |-> {}]
    /\ vec = [c \in Cpus |-> [n \in Softirqs |-> <<>>]]
    /\ sched = {} /\ run = {} /\ count = [t \in All |-> 0]
    /\ bhlock = NULL
    /\ irq = [c \in Cpus |-> NULL]
    /\ pc = [c \in Cpus |-> "idle"]
    /\ todo = [c \in Cpus |-> {}] /\ mask = [c \in Cpus |-> {}]
    /\ list = [c \in Cpus |-> <<>>]
    /\ upc = [u \in Users |-> "idle"] /\ ut = [u \in Users |-> NULL]

-----------------------------------------------------------------------------
(* tasklet_schedule, tasklet_hi_schedule (mark_bh): the bit, then the list *)
(* of the processor with interrupts off.                                   *)

SetSched_Always(c, t) ==       \* mutant: the bit is set without a test
    /\ sched' = sched \cup {t}
    /\ irq' = [irq EXCEPT ![c] = t]
SetSched(c, t) ==
    IF t \in sched
    THEN UNCHANGED <<sched, irq>>
    ELSE /\ sched' = sched \cup {t}
         /\ irq' = [irq EXCEPT ![c] = t]

Schedule(c, t) ==
    /\ irq[c] = NULL /\ t \notin sched
    /\ SetSched(c, t)
    /\ UNCHANGED <<softVars, run, count, bhlock, cpuVars, userVars>>

PutFirst(c, t) ==
    /\ vec' = [vec EXCEPT ![c][Nr(t)] = <<t>> \o @]
    /\ active' = [active EXCEPT ![c] = @ \cup {Nr(t)}]

Push(c) ==
    /\ irq[c] # NULL
    /\ PutFirst(c, irq[c])
    /\ irq' = [irq EXCEPT ![c] = NULL]
    /\ UNCHANGED <<taskletVars, bhlock, cpuVars, userVars>>

-----------------------------------------------------------------------------
(* do_softirq. What a processor has taken care of once waits for the next  *)
(* call.                                                                   *)

At(c, l) == irq[c] = NULL /\ pc[c] = l
Goto(c, l) == pc' = [pc EXCEPT ![c] = l]

DoSoftirq(c) ==
    /\ At(c, "idle") /\ active[c] # {}
    /\ todo' = [todo EXCEPT ![c] = active[c]]
    /\ mask' = [mask EXCEPT ![c] = Softirqs \ active[c]]
    /\ active' = [active EXCEPT ![c] = {}]
    /\ Goto(c, "action")
    /\ UNCHANGED <<vec, taskletVars, bhlock, irq, list, userVars>>

First(S) == CHOOSE n \in S : \A m \in S : n <= m

\* tasklet_action, tasklet_hi_action: the list is taken with interrupts off.
TakeList(c) ==
    /\ At(c, "action") /\ todo[c] # {}
    /\ LET n == First(todo[c]) IN
       /\ list' = [list EXCEPT ![c] = vec[c][n]]
       /\ vec' = [vec EXCEPT ![c][n] = <<>>]
       /\ todo' = [todo EXCEPT ![c] = @ \ {n}]
    /\ Goto(c, "next")
    /\ UNCHANGED <<active, taskletVars, bhlock, irq, mask, userVars>>

Restart(c) ==
    /\ At(c, "action") /\ todo[c] = {}
    /\ LET again == active[c] \cap mask[c] IN
       /\ todo' = [todo EXCEPT ![c] = again]
       /\ mask' = [mask EXCEPT ![c] = @ \ again]
       /\ active' = [active EXCEPT ![c] = @ \ again]
       /\ Goto(c, IF again = {} THEN "idle" ELSE "action")
    /\ UNCHANGED <<vec, taskletVars, bhlock, irq, list, userVars>>

\* tasklet_trylock of the next tasklet on the list.
Cur(c) == Head(list[c])

Trylock_NoTest(c) ==           \* mutant: the bit is set without a test
    /\ At(c, "next")
    /\ IF list[c] = <<>> THEN Goto(c, "action") /\ UNCHANGED run
       ELSE /\ run' = run \cup {Cur(c)}
            /\ Goto(c, "locked")
    /\ UNCHANGED <<softVars, sched, count, bhlock, irq, todo, mask, list, userVars>>
Trylock(c) ==
    /\ At(c, "next")
    /\ IF list[c] = <<>> THEN Goto(c, "action") /\ UNCHANGED run
       ELSE /\ run' = run \cup {Cur(c)}
            /\ Goto(c, IF Cur(c) \in run THEN "requeue" ELSE "locked")
    /\ UNCHANGED <<softVars, sched, count, bhlock, irq, todo, mask, list, userVars>>

TestCount(c) ==
    /\ At(c, "locked")
    /\ IF count[Cur(c)] = 0
       THEN Goto(c, "start") /\ UNCHANGED run
       ELSE Goto(c, "requeue") /\ run' = run \ {Cur(c)}
    /\ UNCHANGED <<softVars, sched, count, bhlock, irq, todo, mask, list, userVars>>

Start(c) ==
    /\ At(c, "start")
    /\ sched' = sched \ {Cur(c)}
    /\ Goto(c, IF Cur(c) \in Bhs THEN "bh_action" ELSE "func")
    /\ UNCHANGED <<softVars, run, count, bhlock, irq, todo, mask, list, userVars>>

\* t->func has returned: tasklet_unlock.
Finish(c) ==
    /\ At(c, "func")
    /\ run' = run \ {Cur(c)}
    /\ list' = [list EXCEPT ![c] = Tail(@)]
    /\ Goto(c, "next")
    /\ UNCHANGED <<softVars, sched, count, bhlock, irq, todo, mask, userVars>>

Requeue_Drop(c) ==             \* mutant: the softirq is not raised again
    /\ At(c, "requeue")
    /\ vec' = [vec EXCEPT ![c][Nr(Cur(c))] = <<Cur(c)>> \o @]
    /\ list' = [list EXCEPT ![c] = Tail(@)]
    /\ Goto(c, "next")
    /\ UNCHANGED <<active, taskletVars, bhlock, irq, todo, mask, userVars>>
Requeue(c) ==
    /\ At(c, "requeue")
    /\ PutFirst(c, Cur(c))
    /\ list' = [list EXCEPT ![c] = Tail(@)]
    /\ Goto(c, "next")
    /\ UNCHANGED <<taskletVars, bhlock, irq, todo, mask, userVars>>

\* bh_action: global_bh_lock and hardirq_trylock, which another processor may make
\* fail; without them the bottom half is marked again.
BhAction(c) ==
    /\ At(c, "bh_action")
    /\ \/ bhlock = NULL /\ bhlock' = c /\ Goto(c, "bh")
       \/ UNCHANGED bhlock /\ Goto(c, "bh_mark")
    /\ UNCHANGED <<softVars, taskletVars, irq, todo, mask, list, userVars>>

BhMark(c) ==
    /\ At(c, "bh_mark")
    /\ SetSched(c, Cur(c))
    /\ Goto(c, "func")
    /\ UNCHANGED <<softVars, run, count, bhlock, todo, mask, list, userVars>>

BhDone(c) ==
    /\ At(c, "bh")
    /\ bhlock' = NULL
    /\ Goto(c, "func")
    /\ UNCHANGED <<softVars, taskletVars, irq, todo, mask, list, userVars>>

-----------------------------------------------------------------------------
(* tasklet_kill, remove_bh, tasklet_disable, tasklet_enable.               *)

UGoto(u, l) == upc' = [upc EXCEPT ![u] = l]

Kill(u, t) ==
    /\ upc[u] = "idle"
    /\ UGoto(u, "kill") /\ ut' = [ut EXCEPT ![u] = t]
    /\ UNCHANGED <<softVars, taskletVars, bhlock, irq, cpuVars>>

\* test_and_set_bit, or another turn of the loop that yields.
KillSet(u) ==
    /\ upc[u] = "kill" /\ ut[u] \notin sched
    /\ sched' = sched \cup {ut[u]}
    /\ UGoto(u, "kill_wait")
    /\ UNCHANGED <<softVars, run, count, bhlock, irq, cpuVars, ut>>

KillWait_Skip(u) ==            \* mutant: no tasklet_unlock_wait
    /\ upc[u] = "kill_wait"
    /\ UGoto(u, "kill_clear")
    /\ UNCHANGED <<softVars, taskletVars, bhlock, irq, cpuVars, ut>>
KillWait(u) ==
    /\ upc[u] = "kill_wait" /\ ut[u] \notin run
    /\ UGoto(u, "kill_clear")
    /\ UNCHANGED <<softVars, taskletVars, bhlock, irq, cpuVars, ut>>

\* remove_bh is tasklet_kill of the bottom half.
KillClear(u) ==
    /\ upc[u] = "kill_clear"
    /\ sched' = sched \ {ut[u]}
    /\ UGoto(u, "idle") /\ ut' = [ut EXCEPT ![u] = NULL]
    /\ UNCHANGED <<softVars, run, count, bhlock, irq, cpuVars>>

DisableNosync(u, t) ==
    /\ upc[u] = "idle"
    /\ count' = [count EXCEPT ![t] = @ + 1]
    /\ UGoto(u, "nosync") /\ ut' = [ut EXCEPT ![u] = t]
    /\ UNCHANGED <<softVars, sched, run, bhlock, irq, cpuVars>>

\* tasklet_disable is tasklet_disable_nosync and this wait.
DisableWait(u) ==
    /\ upc[u] = "nosync" /\ ut[u] \notin run
    /\ UGoto(u, "disabled")
    /\ UNCHANGED <<softVars, taskletVars, bhlock, irq, cpuVars, ut>>

Enable(u) ==
    /\ upc[u] \in {"nosync", "disabled"}
    /\ count' = [count EXCEPT ![ut[u]] = @ - 1]
    /\ UGoto(u, "idle") /\ ut' = [ut EXCEPT ![u] = NULL]
    /\ UNCHANGED <<softVars, sched, run, bhlock, irq, cpuVars>>

-----------------------------------------------------------------------------
CpuSteps(c) ==
    \/ Push(c) \/ DoSoftirq(c) \/ TakeList(c) \/ Restart(c)
    \/ Trylock(c) \/ TestCount(c) \/ Start(c) \/ Finish(c) \/ Requeue(c)
    \/ BhAction(c) \/ BhMark(c) \/ BhDone(c)

UserCalls(u) == \E t \in Targets : Kill(u, t) \/ DisableNosync(u, t)
UserSteps(u) == KillSet(u) \/ KillWait(u) \/ KillClear(u) \/ DisableWait(u)

Next ==
    \/ \E c \in Cpus : CpuSteps(c)
    \/ \E s \in Sources : Schedule(s[1], s[2])
    \/ \E u \in Users : UserCalls(u) \/ UserSteps(u) \/ Enable(u)

Spec == Init /\ [][Next]_vars

\* Processors go on, and call do_softirq again while something is active: it is
\* called at the end of every interrupt and by schedule().
FairSpec ==
    /\ Spec
    /\ \A c \in Cpus : WF_vars(CpuSteps(c))
    /\ \A u \in Users : WF_vars(UserSteps(u))

-----------------------------------------------------------------------------
\* Where a tasklet is linked or about to be: an entry of a list, of the part of a
\* list a processor still has to look at, or in the hands of an interrupt.
Entries(s, t) == {i \in DOMAIN s : s[i] = t}
Places(t) ==
    (UNION {UNION {{<<c, "vec", n, i>> : i \in Entries(vec[c][n], t)} : n \in Softirqs} : c \in Cpus})
    \cup (UNION {{<<c, "list", i>> : i \in Entries(list[c], t)} : c \in Cpus})
    \cup {<<c, "irq", 0>> : c \in {d \in Cpus : irq[d] = t}}

Running(t) ==
    {c \in Cpus : /\ pc[c] \in {"func", "bh_action", "bh", "bh_mark"}
                  /\ Cur(c) = t}

\* A tasklet is linked once while it is scheduled, though several processors and
\* tasklet_kill set and test the bit, and not at all otherwise: it "will be executed
\* only once", and no list is corrupted by a second link.
LinkedOnce ==
    \A t \in All :
        LET killed == \E u \in Users : ut[u] = t /\ upc[u] \in {"kill_wait", "kill_clear"} IN
        Cardinality(Places(t)) = Cardinality(Running(t)) + (IF t \in sched /\ ~killed THEN 1 ELSE 0)

\* "Tasklet is strictly serialized wrt itself", and bottom halves are with each other.
Serialized ==
    /\ \A t \in All : Cardinality(Running(t)) <= 1
    /\ Cardinality({c \in Cpus : pc[c] = "bh"}) <= 1

\* When tasklet_disable or tasklet_kill is done, the tasklet does not run anywhere:
\* neither one that had looked at count before nor one queued elsewhere starts late.
Quiesced ==
    \A u \in Users : upc[u] \in {"disabled", "kill_clear"} => Running(ut[u]) = {}

\* "If tasklet_schedule() is called, then tasklet is guaranteed to be executed on
\* some cpu at least once after this", unless it is disabled.
ScheduledRuns == \A t \in All : (t \in sched) ~> (t \notin sched \/ count[t] > 0)
=============================================================================
