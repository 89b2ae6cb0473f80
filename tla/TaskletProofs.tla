---------------------------- MODULE TaskletProofs ----------------------------
(***************************************************************************)
(* Tasklets are linked once, run by one processor and quiet when disabled  *)
(* or killed, for every number of processors, processes and tasklets.      *)
(*                                                                         *)
(* The argument is about two bits. A tasklet with SCHED is in exactly one  *)
(* place, which is a list of a processor, the list a processor is working  *)
(* on, the hands of an interrupt, or the hands of tasklet_kill; a step     *)
(* moves it from one to another, sets the bit or clears it. A tasklet with *)
(* RUN is at the head of the list of exactly one processor that is busy    *)
(* with it. count is the number of processes that have it disabled.        *)
(*                                                                         *)
(* Timers run in a bottom half; the last part proves what del_timer_sync   *)
(* promises of them.                                                       *)
(***************************************************************************)
EXTENDS Tasklet, SequenceTheorems, FiniteSetTheorems, WellFoundedInduction, TLAPS

PCs == {"idle", "action", "next", "locked", "start", "requeue",
        "func", "bh_action", "bh", "bh_mark"}
UPCs == {"idle", "kill", "kill_wait", "kill_clear", "nosync", "disabled"}

Calling == {"func", "bh_action", "bh", "bh_mark"}     \* t->func has been called
Busy == {"locked", "start"} \cup Calling              \* tasklet_trylock succeeded

Types ==
    /\ active \in [Cpus -> SUBSET Softirqs]
    /\ vec \in [Cpus -> [Softirqs -> Seq(All)]]
    /\ list \in [Cpus -> Seq(All)]
    /\ todo \in [Cpus -> SUBSET Softirqs]
    /\ irq \in [Cpus -> All \cup {NULL}]
    /\ pc \in [Cpus -> PCs]
    /\ sched \subseteq All /\ run \subseteq All /\ count \in [All -> Int]
    /\ upc \in [Users -> UPCs] /\ ut \in [Users -> All \cup {NULL}]
    /\ \A u \in Users : upc[u] # "idle" => ut[u] \in All

\* A processor that is looking at a tasklet has one, and only then a list.
HasList ==
    \A c \in Cpus : /\ pc[c] \in Busy \cup {"requeue"} => list[c] # <<>>
                    /\ pc[c] \in {"idle", "action"} => list[c] = <<>>

\* The RUN bit belongs to one processor.
RunOwned ==
    /\ \A c \in Cpus : pc[c] \in Busy => Cur(c) \in run
    /\ \A c, d \in Cpus : pc[c] \in Busy /\ pc[d] \in Busy /\ Cur(c) = Cur(d) => c = d

\* global_bh_lock belongs to the processor that runs a bottom half.
BhOwned == \A c \in Cpus : pc[c] = "bh" => bhlock = c

Distinct(s) == \A i, j \in DOMAIN s : s[i] = s[j] => i = j
NoRepeats ==
    \A c \in Cpus : Distinct(list[c]) /\ \A n \in Softirqs : Distinct(vec[c][n])

\* The places a tasklet can be in with SCHED, and what is in each of them.
Slots == ({"vec"} \X Cpus \X Softirqs) \cup ({"list", "irq"} \X Cpus \X {0})
         \cup ({"kill"} \X Users \X {0})

Rest(c) == IF pc[c] \in Calling THEN Range(Tail(list[c])) ELSE Range(list[c])
InHand(c) == IF irq[c] = NULL THEN {} ELSE {irq[c]}
Killed(u) == IF upc[u] \in {"kill_wait", "kill_clear"} THEN {ut[u]} ELSE {}

Held ==
    [x \in Slots |-> IF x[1] = "vec" THEN Range(vec[x[2]][x[3]])
                     ELSE IF x[1] = "list" THEN Rest(x[2])
                     ELSE IF x[1] = "irq" THEN InHand(x[2])
                     ELSE Killed(x[2])]

\* f holds every element of S in one slot, and nothing else.
OneSlot(f, S) ==
    /\ \A x \in Slots : f[x] \subseteq S
    /\ \A t \in S : \E x \in Slots : t \in f[x]
    /\ \A x, y \in Slots : \A t \in f[x] \cap f[y] : x = y

\* T is moved from slot a to slot b.
Moved(f, g, a, b, T) ==
    /\ a \in Slots /\ b \in Slots /\ a # b /\ T \subseteq f[a]
    /\ g[a] = f[a] \ T /\ g[b] = f[b] \cup T
    /\ \A x \in Slots \ {a, b} : g[x] = f[x]

SchedOwned == OneSlot(Held, sched)

Disablers(t) == {u \in Users : ut[u] = t /\ upc[u] \in {"nosync", "disabled"}}
CountExact == \A t \in All : count[t] = Cardinality(Disablers(t))

\* What tasklet_disable and tasklet_kill have waited for.
Quiet ==
    \A u \in Users, c \in Cpus :
        /\ upc[u] = "disabled" /\ pc[c] \in Calling \cup {"start"} => Cur(c) # ut[u]
        /\ upc[u] = "kill_clear" /\ pc[c] \in Busy => Cur(c) # ut[u]

Inv ==
    /\ Types /\ HasList /\ RunOwned /\ BhOwned /\ NoRepeats
    /\ SchedOwned /\ CountExact /\ Quiet

-----------------------------------------------------------------------------
(* Lists.                                                                  *)

\* The elements of a list that an element is put in front of.
LEMMA ConsElems ==
    ASSUME NEW S, NEW s \in Seq(S), NEW x \in S
    PROVE  /\ <<x>> \o s \in Seq(S)
           /\ Range(<<x>> \o s) = {x} \cup Range(s)
           /\ x \notin Range(s) /\ Distinct(s) => Distinct(<<x>> \o s)
<1> DEFINE r == <<x>> \o s
<1>1. <<x>> \in Seq(S) /\ Len(<<x>>) = 1 /\ <<x>>[1] = x
    OBVIOUS
<1>2. /\ r \in Seq(S) /\ Len(r) = Len(s) + 1
      /\ \A i \in 1 .. Len(s) + 1 : r[i] = IF i <= 1 THEN x ELSE s[i - 1]
    BY <1>1, ConcatProperties
<1>3. /\ Len(s) \in Nat /\ DOMAIN s = 1 .. Len(s)
      /\ DOMAIN r = 1 .. Len(s) + 1
    BY <1>2, LenProperties
<1>4. r[1] = x /\ \A i \in 1 .. Len(s) : i + 1 \in DOMAIN r /\ r[i + 1] = s[i]
    BY <1>2, <1>3
<1>5. \A j \in DOMAIN r : j = 1 \/ (j - 1 \in DOMAIN s /\ r[j] = s[j - 1])
    BY <1>2, <1>3
<1>6. Range(r) = {x} \cup Range(s)
    <2>1. ASSUME NEW y \in Range(r) PROVE y \in {x} \cup Range(s)
        BY <1>4, <1>5 DEF Range
    <2>2. x \in Range(r)
        BY <1>3, <1>4 DEF Range
    <2>3. ASSUME NEW y \in Range(s) PROVE y \in Range(r)
        <3>1. PICK i \in 1 .. Len(s) : y = s[i]
            BY <1>3 DEF Range
        <3>2. QED
            BY <1>4, <3>1 DEF Range
    <2>4. QED
        BY <2>1, <2>2, <2>3
<1>7. ASSUME x \notin Range(s), Distinct(s) PROVE Distinct(r)
    <2>1. \A i \in DOMAIN s : s[i] # x
        BY <1>7 DEF Range
    <2>2. QED
        BY <1>3, <1>4, <1>5, <1>7, <2>1 DEF Distinct
<1>8. QED
    BY <1>2, <1>6, <1>7

\* The elements of a list without its head.
LEMMA TailElems ==
    ASSUME NEW S, NEW s \in Seq(S), s # <<>>
    PROVE  /\ Head(s) \in S /\ Tail(s) \in Seq(S) /\ s[1] = Head(s) /\ 1 \in DOMAIN s
           /\ Range(s) = {Head(s)} \cup Range(Tail(s))
           /\ Distinct(s) => Distinct(Tail(s)) /\ Head(s) \notin Range(Tail(s))
<1> DEFINE r == Tail(s)
<1>1. /\ Head(s) \in S /\ r \in Seq(S) /\ Len(r) = Len(s) - 1
      /\ \A i \in 1 .. Len(r) : r[i] = s[i + 1]
    BY HeadTailProperties
<1>2. /\ Len(s) \in Nat \ {0} /\ DOMAIN s = 1 .. Len(s)
      /\ DOMAIN r = 1 .. Len(s) - 1
    BY <1>1, LenProperties, EmptySeq
<1>3. s[1] = Head(s) /\ 1 \in DOMAIN s
    BY <1>2
<1>4. \A i \in DOMAIN r : i + 1 \in DOMAIN s /\ i + 1 # 1 /\ r[i] = s[i + 1]
    BY <1>1, <1>2
<1>5. \A j \in DOMAIN s : j = 1 \/ (j - 1 \in DOMAIN r /\ s[j] = r[j - 1])
    BY <1>1, <1>2
<1>6. Range(s) = {Head(s)} \cup Range(r)
    <2>1. ASSUME NEW y \in Range(s) PROVE y \in {Head(s)} \cup Range(r)
        BY <1>3, <1>5 DEF Range
    <2>2. Head(s) \in Range(s)
        BY <1>3 DEF Range
    <2>3. ASSUME NEW y \in Range(r) PROVE y \in Range(s)
        BY <1>4 DEF Range
    <2>4. QED
        BY <2>1, <2>2, <2>3
<1>7. ASSUME Distinct(s) PROVE Distinct(r) /\ Head(s) \notin Range(r)
    BY <1>2, <1>3, <1>4, <1>7 DEF Distinct, Range
<1>8. QED
    BY <1>1, <1>3, <1>6, <1>7

LEMMA EmptyElems == Range(<<>>) = {} /\ Distinct(<<>>)
BY DEF Range, Distinct

\* Elements of a list of tasklets are tasklets.
LEMMA ElemsType ==
    ASSUME NEW S, NEW s \in Seq(S)
    PROVE  Range(s) \subseteq S
BY LenProperties DEF Range

\* do_softirq finds the lowest softirq of a set that is not empty.
LEMMA FirstIn ==
    ASSUME NEW S \in SUBSET Softirqs, S # {}
    PROVE  First(S) \in S
<1>1. \E n \in S : \A m \in S : n <= m
    <2>1. CASE 0 \in S
        <3>1. \A m \in S : 0 <= m
            BY DEF Softirqs, HI_SOFTIRQ, TASKLET_SOFTIRQ
        <3>2. QED
            BY <2>1, <3>1
    <2>2. CASE 0 \notin S
        <3>1. S = {3}
            BY <2>2 DEF Softirqs, HI_SOFTIRQ, TASKLET_SOFTIRQ
        <3>2. QED
            BY <3>1
    <2>3. QED
        BY <2>1, <2>2
<1>2. QED
    BY <1>1 DEF First

-----------------------------------------------------------------------------
(* What the steps do to the slots: SCHED is set and the tasklet put into   *)
(* one, cleared and taken out, or tasklets are moved from one to another.  *)

LEMMA SlotAdd ==
    ASSUME NEW f, NEW g, NEW S, NEW a \in Slots, NEW t, t \notin S, OneSlot(f, S),
           g[a] = f[a] \cup {t}, \A x \in Slots \ {a} : g[x] = f[x]
    PROVE  OneSlot(g, S \cup {t})
<1>1. \A x \in Slots : g[x] \subseteq S \cup {t}
    BY DEF OneSlot
<1>2. ASSUME NEW v \in S \cup {t} PROVE \E x \in Slots : v \in g[x]
    <2>1. CASE v = t
        BY <2>1
    <2>2. CASE v \in S
        BY <2>2 DEF OneSlot
    <2>3. QED
        BY <2>1, <2>2
<1>3. ASSUME NEW x \in Slots, NEW y \in Slots, NEW v \in g[x] \cap g[y] PROVE x = y
    <2>1. CASE v = t
        BY <2>1 DEF OneSlot
    <2>2. CASE v # t
        BY <2>2 DEF OneSlot
    <2>3. QED
        BY <2>1, <2>2
<1>4. QED
    BY <1>1, <1>2, <1>3 DEF OneSlot

LEMMA SlotRemove ==
    ASSUME NEW f, NEW g, NEW S, NEW a \in Slots, NEW t, t \in f[a], OneSlot(f, S),
           g[a] = f[a] \ {t}, \A x \in Slots \ {a} : g[x] = f[x]
    PROVE  OneSlot(g, S \ {t})
BY DEF OneSlot

LEMMA SlotMove ==
    ASSUME NEW f, NEW g, NEW S, NEW a, NEW b, NEW T, OneSlot(f, S), Moved(f, g, a, b, T)
    PROVE  OneSlot(g, S)
<1> USE DEF Moved
<1>1. \A x \in Slots : g[x] \subseteq S
    BY DEF OneSlot
<1>2. ASSUME NEW v \in S PROVE \E x \in Slots : v \in g[x]
    <2>1. CASE v \in T
        BY <2>1
    <2>2. CASE v \notin T
        BY <2>2 DEF OneSlot
    <2>3. QED
        BY <2>1, <2>2
<1>3. ASSUME NEW x \in Slots, NEW y \in Slots, NEW v \in g[x] \cap g[y] PROVE x = y
    <2>1. CASE v \in T
        <3>1. \A z \in Slots : v \in g[z] => z = b
            BY <2>1 DEF OneSlot
        <3>2. QED
            BY <1>3, <3>1
    <2>2. CASE v \notin T
        <3>1. v \in f[x] /\ v \in f[y]
            BY <2>2, <1>3
        <3>2. QED
            BY <3>1 DEF OneSlot
    <2>3. QED
        BY <2>1, <2>2
<1>4. QED
    BY <1>1, <1>2, <1>3 DEF OneSlot

LEMMA SlotKeep ==
    ASSUME NEW f, NEW g, NEW S, OneSlot(f, S), \A x \in Slots : g[x] = f[x]
    PROVE  OneSlot(g, S)
BY DEF OneSlot

-----------------------------------------------------------------------------
(* The steps, grouped by who takes them.                                   *)

LEMMA Actors ==
    ASSUME Next
    PROVE  \/ \E c \in Cpus : CpuSteps(c) \/ \E t \in All : Schedule(c, t)
           \/ \E u \in Users : \/ UserSteps(u) \/ Enable(u)
                               \/ \E t \in All : Kill(u, t) \/ DisableNosync(u, t)
<1>1. CASE \E s \in Sources : Schedule(s[1], s[2])
    <2>1. PICK s \in Sources : Schedule(s[1], s[2])
        BY <1>1
    <2>2. s[1] \in Cpus /\ s[2] \in All
        BY TaskletAssumption
    <2>3. QED
        BY <2>1, <2>2
<1>2. CASE \E u \in Users : UserCalls(u)
    BY <1>2, TaskletAssumption DEF UserCalls
<1>3. QED
    BY <1>1, <1>2 DEF Next

\* The tasklet a busy processor looks at.
LEMMA CurType ==
    ASSUME Types, HasList, NEW c \in Cpus, pc[c] \in Busy \cup {"requeue"}
    PROVE  /\ Cur(c) \in All /\ list[c] \in Seq(All) /\ list[c] # <<>>
           /\ Tail(list[c]) \in Seq(All)
BY TailElems DEF Types, HasList, Cur

LEMMA NrType == ASSUME NEW t PROVE Nr(t) \in Softirqs
BY DEF Nr, Softirqs

LEMMA NotNull == ASSUME NEW t \in All PROVE t # NULL
BY TaskletAssumption

\* PutFirst keeps types.
LEMMA PutFirstType ==
    ASSUME Types, NEW c \in Cpus, NEW t \in All, PutFirst(c, t)
    PROVE  /\ vec' \in [Cpus -> [Softirqs -> Seq(All)]]
           /\ active' \in [Cpus -> SUBSET Softirqs]
<1>1. <<t>> \o vec[c][Nr(t)] \in Seq(All)
    BY NrType, ConsElems DEF Types
<1>2. QED
    BY <1>1, NrType DEF PutFirst, Types

LEMMA TypesCpu ==
    ASSUME Types, HasList, NEW c \in Cpus, CpuSteps(c)
    PROVE  Types'
<1>1. CASE Push(c)
    <2>1. irq[c] \in All
        BY <1>1 DEF Push, Types
    <2>2. QED
        BY <1>1, <2>1, PutFirstType DEF Push, Types, taskletVars, cpuVars, userVars
<1>2. CASE DoSoftirq(c)
    BY <1>2 DEF DoSoftirq, At, Goto, Types, PCs, taskletVars, userVars
<1>3. CASE TakeList(c)
    <2>1. First(todo[c]) \in Softirqs
        BY <1>3, FirstIn DEF TakeList, Types
    <2>2. vec' \in [Cpus -> [Softirqs -> Seq(All)]] /\ list' \in [Cpus -> Seq(All)]
        BY <1>3, <2>1, EmptySeq DEF TakeList, Types
    <2>3. QED
        BY <1>3, <2>2 DEF TakeList, At, Goto, Types, PCs, taskletVars, userVars
<1>4. CASE Restart(c)
    BY <1>4 DEF Restart, At, Goto, Types, PCs, taskletVars, userVars
<1>5. CASE Trylock(c)
    <2>1. list[c] # <<>> => Cur(c) \in All
        BY TailElems DEF Types, Cur
    <2>2. QED
        BY <1>5, <2>1 DEF Trylock, At, Goto, Types, PCs, softVars, userVars
<1>6. CASE TestCount(c)
    BY <1>6 DEF TestCount, At, Goto, Types, PCs, softVars, userVars
<1>7. CASE Start(c)
    BY <1>7 DEF Start, At, Goto, Types, PCs, softVars, userVars
<1>8. CASE Finish(c)
    <2>1. Tail(list[c]) \in Seq(All)
        BY <1>8, CurType DEF Finish, At, Busy, Calling
    <2>2. QED
        BY <1>8, <2>1 DEF Finish, At, Goto, Types, PCs, softVars, userVars
<1>9. CASE Requeue(c)
    <2>1. Tail(list[c]) \in Seq(All) /\ Cur(c) \in All
        BY <1>9, CurType DEF Requeue, At
    <2>2. QED
        BY <1>9, <2>1, PutFirstType DEF Requeue, At, Goto, Types, PCs, taskletVars, userVars
<1>10. CASE BhAction(c)
    BY <1>10 DEF BhAction, At, Goto, Types, PCs, softVars, taskletVars, userVars
<1>11. CASE BhMark(c)
    <2>1. Cur(c) \in All
        BY <1>11, CurType DEF BhMark, At, Busy, Calling
    <2>2. QED
        BY <1>11, <2>1 DEF BhMark, SetSched, At, Goto, Types, PCs, softVars, userVars
<1>12. CASE BhDone(c)
    BY <1>12 DEF BhDone, At, Goto, Types, PCs, softVars, taskletVars, userVars
<1>13. QED
    BY <1>1, <1>2, <1>3, <1>4, <1>5, <1>6, <1>7, <1>8, <1>9, <1>10, <1>11, <1>12
    DEF CpuSteps

LEMMA TypesUser ==
    ASSUME Types, NEW u \in Users,
           UserSteps(u) \/ Enable(u) \/ \E t \in All : Kill(u, t) \/ DisableNosync(u, t)
    PROVE  Types'
<1> USE DEF Types, UPCs, UGoto, softVars, taskletVars, cpuVars
<1>1. CASE UserSteps(u)
    BY <1>1 DEF UserSteps, KillSet, KillWait, KillClear, DisableWait
<1>2. CASE Enable(u)
    BY <1>2 DEF Enable
<1>3. CASE \E t \in All : Kill(u, t)
    BY <1>3 DEF Kill
<1>4. CASE \E t \in All : DisableNosync(u, t)
    BY <1>4 DEF DisableNosync
<1>5. QED
    BY <1>1, <1>2, <1>3, <1>4

LEMMA TypesSchedule ==
    ASSUME Types, NEW c \in Cpus, NEW t \in All, Schedule(c, t)
    PROVE  Types'
BY DEF Types, Schedule, SetSched, softVars, cpuVars, userVars

-----------------------------------------------------------------------------
(* Who is busy with what.                                                  *)

LEMMA OwnersCpu ==
    ASSUME Types, HasList, RunOwned, BhOwned, NEW c \in Cpus, CpuSteps(c)
    PROVE  (HasList /\ RunOwned /\ BhOwned)'
<1> USE DEF HasList, RunOwned, BhOwned, Types, PCs, Busy, Calling, Cur, At, Goto
<1>1. CASE Push(c)
    BY <1>1 DEF Push, taskletVars, cpuVars
<1>2. CASE DoSoftirq(c)
    BY <1>2 DEF DoSoftirq, taskletVars
<1>3. CASE TakeList(c)
    BY <1>3 DEF TakeList, taskletVars
<1>4. CASE Restart(c)
    BY <1>4 DEF Restart, taskletVars
<1>5. CASE Trylock(c)
    BY <1>5, SMTT(30) DEF Trylock
<1>6. CASE TestCount(c)
    BY <1>6, SMTT(30) DEF TestCount
<1>7. CASE Start(c)
    BY <1>7 DEF Start
<1>8. CASE Finish(c)
    BY <1>8 DEF Finish
<1>9. CASE Requeue(c)
    BY <1>9 DEF Requeue, taskletVars
<1>10. CASE BhAction(c)
    <2>1. CASE pc' = [pc EXCEPT ![c] = "bh"] /\ bhlock = NULL /\ bhlock' = c
        <3>1. \A d \in Cpus : pc[d] # "bh"
            BY <2>1, TaskletAssumption
        <3>2. QED
            BY <1>10, <2>1, <3>1 DEF BhAction, taskletVars
    <2>2. CASE pc' = [pc EXCEPT ![c] = "bh_mark"] /\ UNCHANGED bhlock
        BY <1>10, <2>2 DEF BhAction, taskletVars
    <2>3. QED
        BY <1>10, <2>1, <2>2 DEF BhAction
<1>11. CASE BhMark(c)
    BY <1>11 DEF BhMark
<1>12. CASE BhDone(c)
    BY <1>12 DEF BhDone, taskletVars
<1>13. QED
    BY <1>1, <1>2, <1>3, <1>4, <1>5, <1>6, <1>7, <1>8, <1>9, <1>10, <1>11, <1>12
    DEF CpuSteps

\* The other steps leave the processors' places and the RUN bits alone.
LEMMA OwnersOther ==
    ASSUME HasList, RunOwned, BhOwned, UNCHANGED <<pc, list, run, bhlock>>
    PROVE  (HasList /\ RunOwned /\ BhOwned)'
BY DEF HasList, RunOwned, BhOwned, Cur

LEMMA UserUnchanged ==
    ASSUME NEW u \in Users,
           UserSteps(u) \/ Enable(u) \/ \E t \in All : Kill(u, t) \/ DisableNosync(u, t)
    PROVE  UNCHANGED <<active, vec, run, bhlock, irq, pc, todo, mask, list>>
BY DEF UserSteps, KillSet, KillWait, KillClear, DisableWait, Enable, Kill, DisableNosync,
       softVars, taskletVars, cpuVars

LEMMA ScheduleUnchanged ==
    ASSUME NEW c, NEW t, Schedule(c, t)
    PROVE  UNCHANGED <<active, vec, run, count, bhlock, pc, todo, mask, list, upc, ut>>
BY DEF Schedule, softVars, cpuVars, userVars

-----------------------------------------------------------------------------
(* The slots.                                                              *)

LEMMA SlotVec ==
    ASSUME NEW c \in Cpus, NEW n \in Softirqs
    PROVE  /\ <<"vec", c, n>> \in Slots
           /\ Held[<<"vec", c, n>>] = Range(vec[c][n])
           /\ Held'[<<"vec", c, n>>] = Range(vec'[c][n])
BY DEF Slots, Held

LEMMA SlotCpu ==
    ASSUME NEW c \in Cpus
    PROVE  /\ <<"list", c, 0>> \in Slots /\ <<"irq", c, 0>> \in Slots
           /\ Held[<<"list", c, 0>>] = Rest(c) /\ Held'[<<"list", c, 0>>] = Rest(c)'
           /\ Held[<<"irq", c, 0>>] = InHand(c) /\ Held'[<<"irq", c, 0>>] = InHand(c)'
BY DEF Slots, Held, Rest, InHand

LEMMA SlotKill ==
    ASSUME NEW u \in Users
    PROVE  /\ <<"kill", u, 0>> \in Slots
           /\ Held[<<"kill", u, 0>>] = Killed(u) /\ Held'[<<"kill", u, 0>>] = Killed(u)'
BY DEF Slots, Held, Killed

LEMMA SlotKinds ==
    ASSUME NEW x \in Slots
    PROVE  \/ \E c \in Cpus, n \in Softirqs : x = <<"vec", c, n>>
           \/ \E c \in Cpus : x = <<"list", c, 0>> \/ x = <<"irq", c, 0>>
           \/ \E u \in Users : x = <<"kill", u, 0>>
BY DEF Slots

\* Outside D the slots keep what they hold if the variables behind them are unchanged.
LEMMA HeldOutside ==
    ASSUME NEW D,
           \A c \in Cpus : <<"list", c, 0>> \in D \/ Rest(c)' = Rest(c),
           \A c \in Cpus : <<"irq", c, 0>> \in D \/ InHand(c)' = InHand(c),
           \A c \in Cpus, n \in Softirqs : <<"vec", c, n>> \in D \/ vec'[c][n] = vec[c][n],
           \A u \in Users : <<"kill", u, 0>> \in D \/ Killed(u)' = Killed(u)
    PROVE  \A x \in Slots \ D : Held'[x] = Held[x]
<1>1. SUFFICES ASSUME NEW x \in Slots, x \notin D PROVE Held'[x] = Held[x]
    OBVIOUS
<1>2. CASE \E c \in Cpus, n \in Softirqs : x = <<"vec", c, n>>
    <2>1. PICK c \in Cpus, n \in Softirqs : x = <<"vec", c, n>>
        BY <1>2
    <2>2. vec'[c][n] = vec[c][n]
        BY <1>1, <2>1
    <2>3. QED
        BY <2>1, <2>2, SlotVec
<1>3. CASE \E c \in Cpus : x = <<"list", c, 0>>
    <2>1. PICK c \in Cpus : x = <<"list", c, 0>>
        BY <1>3
    <2>2. QED
        BY <1>1, <2>1, SlotCpu
<1>4. CASE \E c \in Cpus : x = <<"irq", c, 0>>
    <2>1. PICK c \in Cpus : x = <<"irq", c, 0>>
        BY <1>4
    <2>2. QED
        BY <1>1, <2>1, SlotCpu
<1>5. CASE \E u \in Users : x = <<"kill", u, 0>>
    <2>1. PICK u \in Users : x = <<"kill", u, 0>>
        BY <1>5
    <2>2. QED
        BY <1>1, <2>1, SlotKill
<1>6. QED
    BY <1>2, <1>3, <1>4, <1>5, SlotKinds

\* A step that changes what is in no slot.
LEMMA SchedKeep ==
    ASSUME SchedOwned, UNCHANGED <<vec, sched>>,
           \A c \in Cpus : Rest(c)' = Rest(c) /\ InHand(c)' = InHand(c),
           \A u \in Users : Killed(u)' = Killed(u)
    PROVE  SchedOwned'
<1>1. \A x \in Slots \ {} : Held'[x] = Held[x]
    BY HeldOutside
<1>2. QED
    BY <1>1, SlotKeep DEF SchedOwned

\* tasklet_schedule.
LEMMA SchedSchedule ==
    ASSUME Types, SchedOwned, NEW c \in Cpus, NEW t \in All, Schedule(c, t)
    PROVE  SchedOwned'
<1> DEFINE a == <<"irq", c, 0>>
<1>1. UNCHANGED <<vec, list, pc, upc, ut>>
    BY ScheduleUnchanged
<1>2. sched' = sched \cup {t} /\ t \notin sched
    BY DEF Schedule, SetSched
<1>3. \A d \in Cpus : InHand(d)' = IF d = c THEN InHand(d) \cup {t} ELSE InHand(d)
    BY NotNull DEF Schedule, SetSched, InHand, Types
<1>4. \A d \in Cpus : Rest(d)' = Rest(d)
    BY <1>1 DEF Rest
<1>5. \A u \in Users : Killed(u)' = Killed(u)
    BY <1>1 DEF Killed
<1>6. \A x \in Slots \ {a} : Held'[x] = Held[x]
    BY <1>1, <1>3, <1>4, <1>5, HeldOutside
<1>7. a \in Slots /\ Held'[a] = Held[a] \cup {t}
    BY <1>3, SlotCpu
<1>8. QED
    BY <1>2, <1>6, <1>7, SlotAdd DEF SchedOwned

\* mark_bh by a bottom half that could not run.
LEMMA SchedBhMark ==
    ASSUME Types, HasList, SchedOwned, NEW c \in Cpus, BhMark(c)
    PROVE  SchedOwned'
<1> DEFINE a == <<"irq", c, 0>>
           t == Cur(c)
<1>1. /\ t \in All /\ UNCHANGED <<vec, list, upc, ut>> /\ irq[c] = NULL
      /\ pc[c] = "bh_mark" /\ pc' = [pc EXCEPT ![c] = "func"]
    BY CurType DEF BhMark, At, Goto, Busy, Calling, softVars, userVars
<1>2. \A d \in Cpus : Rest(d)' = Rest(d)
    BY <1>1 DEF Rest, Types, Calling
<1>3. \A u \in Users : Killed(u)' = Killed(u)
    BY <1>1 DEF Killed
<1>4. CASE t \in sched
    <2>1. UNCHANGED <<sched, irq>>
        BY <1>4 DEF BhMark, SetSched
    <2>2. \A d \in Cpus : InHand(d)' = InHand(d)
        BY <2>1 DEF InHand
    <2>3. QED
        BY <1>1, <1>2, <1>3, <2>1, <2>2, SchedKeep
<1>5. CASE t \notin sched
    <2>1. sched' = sched \cup {t} /\ irq' = [irq EXCEPT ![c] = t]
        BY <1>5 DEF BhMark, SetSched
    <2>2. \A d \in Cpus : InHand(d)' = IF d = c THEN InHand(d) \cup {t} ELSE InHand(d)
        BY <1>1, <2>1, NotNull DEF InHand, Types
    <2>3. \A x \in Slots \ {a} : Held'[x] = Held[x]
        BY <1>1, <1>2, <1>3, <2>2, HeldOutside
    <2>4. a \in Slots /\ Held'[a] = Held[a] \cup {t}
        BY <2>2, SlotCpu
    <2>5. QED
        BY <1>5, <2>1, <2>3, <2>4, SlotAdd DEF SchedOwned
<1>6. QED
    BY <1>4, <1>5

\* PutFirst puts t in front of one list and leaves the others alone.
LEMMA PutFirstElems ==
    ASSUME Types, NEW c \in Cpus, NEW t \in All, PutFirst(c, t)
    PROVE  /\ Range(vec'[c][Nr(t)]) = Range(vec[c][Nr(t)]) \cup {t}
           /\ t \notin Range(vec[c][Nr(t)]) /\ Distinct(vec[c][Nr(t)]) => Distinct(vec'[c][Nr(t)])
           /\ \A d \in Cpus, n \in Softirqs :
                <<"vec", d, n>> = <<"vec", c, Nr(t)>> \/ vec'[d][n] = vec[d][n]
<1>1. vec[c][Nr(t)] \in Seq(All) /\ Nr(t) \in Softirqs
    BY NrType DEF Types
<1>2. vec'[c][Nr(t)] = <<t>> \o vec[c][Nr(t)]
    BY <1>1 DEF PutFirst, Types
<1>3. \A d \in Cpus, n \in Softirqs : (d = c /\ n = Nr(t)) \/ vec'[d][n] = vec[d][n]
    BY <1>1 DEF PutFirst, Types
<1>4. QED
    BY <1>1, <1>2, <1>3, ConsElems

\* An interrupt links the tasklet in its hands.
LEMMA SchedPush ==
    ASSUME Types, NoRepeats, SchedOwned, NEW c \in Cpus, Push(c)
    PROVE  SchedOwned' /\ NoRepeats'
<1> DEFINE t == irq[c]
           a == <<"irq", c, 0>>
           b == <<"vec", c, Nr(t)>>
<1>1. /\ t \in All /\ t # NULL /\ PutFirst(c, t) /\ irq' = [irq EXCEPT ![c] = NULL]
      /\ UNCHANGED <<sched, list, pc, upc, ut>>
    BY DEF Push, Types, taskletVars, cpuVars, userVars
<1>2. /\ a \in Slots /\ b \in Slots /\ a # b
      /\ Held[a] = {t} /\ Held[b] = Range(vec[c][Nr(t)])
    BY <1>1, SlotCpu, SlotVec, NrType DEF InHand
<1>3. t \notin Held[b]
    BY <1>2 DEF SchedOwned, OneSlot
<1>4. \A d \in Cpus : InHand(d)' = IF d = c THEN {} ELSE InHand(d)
    BY <1>1 DEF InHand, Types
<1>5. \A d \in Cpus : Rest(d)' = Rest(d)
    BY <1>1 DEF Rest
<1>6. \A u \in Users : Killed(u)' = Killed(u)
    BY <1>1 DEF Killed
<1>7. \A x \in Slots \ {a, b} : Held'[x] = Held[x]
    <2>1. \A d \in Cpus, n \in Softirqs : <<"vec", d, n>> \in {a, b} \/ vec'[d][n] = vec[d][n]
        BY <1>1, PutFirstElems
    <2>2. \A d \in Cpus : <<"irq", d, 0>> \in {a, b} \/ InHand(d)' = InHand(d)
        BY <1>4
    <2>3. QED
        BY <2>1, <2>2, <1>5, <1>6, HeldOutside
<1>8. Held'[a] = Held[a] \ {t} /\ Held'[b] = Held[b] \cup {t}
    <2>1. Held'[a] = {}
        BY <1>4, SlotCpu
    <2>2. Range(vec'[c][Nr(t)]) = Range(vec[c][Nr(t)]) \cup {t} /\ Nr(t) \in Softirqs
        BY <1>1, PutFirstElems, NrType
    <2>3. Held'[b] = Range(vec'[c][Nr(t)])
        BY <2>2, SlotVec
    <2>4. QED
        BY <1>2, <2>1, <2>2, <2>3
<1>9. SchedOwned'
    <2>1. Moved(Held, Held', a, b, {t})
        BY <1>2, <1>7, <1>8 DEF Moved
    <2>2. QED
        BY <1>1, <2>1, SlotMove DEF SchedOwned
<1>10. NoRepeats'
    <2>1. Distinct(vec'[c][Nr(t)])
        BY <1>1, <1>2, <1>3, PutFirstElems, NrType DEF NoRepeats
    <2>2. ASSUME NEW d \in Cpus, NEW n \in Softirqs PROVE Distinct(vec'[d][n])
        <3>1. (d = c /\ n = Nr(t)) \/ vec'[d][n] = vec[d][n]
            BY <1>1, PutFirstElems
        <3>2. QED
            BY <2>1, <3>1 DEF NoRepeats
    <2>3. QED
        BY <1>1, <2>2 DEF NoRepeats
<1>11. QED
    BY <1>9, <1>10

\* tasklet_action takes the whole list of its processor.
LEMMA SchedTakeList ==
    ASSUME Types, HasList, NoRepeats, SchedOwned, NEW c \in Cpus, TakeList(c)
    PROVE  SchedOwned' /\ NoRepeats'
<1> DEFINE n == First(todo[c])
           a == <<"vec", c, n>>
           b == <<"list", c, 0>>
<1>1. /\ n \in Softirqs /\ vec' = [vec EXCEPT ![c][n] = <<>>]
      /\ list' = [list EXCEPT ![c] = vec[c][n]] /\ list[c] = <<>>
      /\ pc[c] = "action" /\ pc' = [pc EXCEPT ![c] = "next"]
      /\ UNCHANGED <<sched, irq, upc, ut>>
    BY FirstIn DEF TakeList, At, Goto, HasList, Types, taskletVars, userVars
<1>2. /\ vec'[c][n] = <<>> /\ list'[c] = vec[c][n]
      /\ \A d \in Cpus, m \in Softirqs : (d = c /\ m = n) \/ vec'[d][m] = vec[d][m]
      /\ \A d \in Cpus \ {c} : list'[d] = list[d] /\ pc'[d] = pc[d]
    BY <1>1 DEF Types
<1>3. Rest(c) = {} /\ Rest(c)' = Range(vec[c][n])
    BY <1>1, <1>2, EmptyElems DEF Rest, Calling, Types
<1>4. \A d \in Cpus \ {c} : Rest(d)' = Rest(d)
    BY <1>2 DEF Rest
<1>5. \A d \in Cpus : InHand(d)' = InHand(d)
    BY <1>1 DEF InHand
<1>6. \A u \in Users : Killed(u)' = Killed(u)
    BY <1>1 DEF Killed
<1>7. \A x \in Slots \ {a, b} : Held'[x] = Held[x]
    <2>1. \A d \in Cpus, m \in Softirqs : <<"vec", d, m>> \in {a, b} \/ vec'[d][m] = vec[d][m]
        BY <1>2
    <2>2. \A d \in Cpus : <<"list", d, 0>> \in {a, b} \/ Rest(d)' = Rest(d)
        BY <1>4
    <2>3. QED
        BY <2>1, <2>2, <1>5, <1>6, HeldOutside
<1>8. /\ a \in Slots /\ b \in Slots /\ a # b
      /\ Held'[a] = Held[a] \ Held[a] /\ Held'[b] = Held[b] \cup Held[a]
    <2>1. a \in Slots /\ Held[a] = Range(vec[c][n]) /\ Held'[a] = {}
        BY <1>1, <1>2, SlotVec, EmptyElems
    <2>2. b \in Slots /\ Held[b] = {} /\ Held'[b] = Range(vec[c][n])
        BY <1>3, SlotCpu
    <2>3. QED
        BY <2>1, <2>2
<1>9. SchedOwned'
    <2>1. Moved(Held, Held', a, b, Held[a])
        BY <1>7, <1>8 DEF Moved
    <2>2. QED
        BY <1>1, <2>1, SlotMove DEF SchedOwned
<1>10. NoRepeats'
    BY <1>1, <1>2, EmptyElems DEF NoRepeats
<1>11. QED
    BY <1>9, <1>10
\* A tasklet that is called leaves the list and loses the SCHED bit.
LEMMA SchedStart ==
    ASSUME Types, HasList, NoRepeats, SchedOwned, NEW c \in Cpus, Start(c)
    PROVE  SchedOwned' /\ NoRepeats'
<1> DEFINE t == Cur(c)
           a == <<"list", c, 0>>
<1>1. /\ pc[c] = "start" /\ UNCHANGED <<vec, irq, list, upc, ut>> /\ sched' = sched \ {t}
      /\ pc'[c] \in Calling /\ \A d \in Cpus \ {c} : pc'[d] = pc[d]
    BY DEF Start, At, Goto, Types, Calling, softVars, userVars
<1>2. Range(list[c]) = {t} \cup Range(Tail(list[c])) /\ t \notin Range(Tail(list[c]))
    <2>1. list[c] \in Seq(All) /\ list[c] # <<>> /\ Distinct(list[c])
        BY <1>1, CurType DEF Busy, NoRepeats
    <2>2. QED
        BY <2>1, TailElems DEF Cur
<1>3. t \in Rest(c) /\ Rest(c)' = Rest(c) \ {t}
    BY <1>1, <1>2 DEF Rest, Calling
<1>4. \A d \in Cpus : <<"list", d, 0>> \in {a} \/ Rest(d)' = Rest(d)
    BY <1>1 DEF Rest
<1>5. \A d \in Cpus : InHand(d)' = InHand(d)
    BY <1>1 DEF InHand
<1>6. \A u \in Users : Killed(u)' = Killed(u)
    BY <1>1 DEF Killed
<1>7. \A x \in Slots \ {a} : Held'[x] = Held[x]
    BY <1>1, <1>4, <1>5, <1>6, HeldOutside
<1>8. a \in Slots /\ t \in Held[a] /\ Held'[a] = Held[a] \ {t}
    BY <1>3, SlotCpu
<1>9. QED
    BY <1>1, <1>7, <1>8, SlotRemove DEF SchedOwned, NoRepeats

\* A tasklet that has been called is on no list any more.
LEMMA SchedFinish ==
    ASSUME Types, HasList, NoRepeats, SchedOwned, NEW c \in Cpus, Finish(c)
    PROVE  SchedOwned' /\ NoRepeats'
<1>1. /\ pc[c] = "func" /\ UNCHANGED <<vec, irq, sched, upc, ut>>
      /\ pc'[c] = "next" /\ list'[c] = Tail(list[c])
      /\ \A d \in Cpus \ {c} : pc'[d] = pc[d] /\ list'[d] = list[d]
    BY DEF Finish, At, Goto, Types, softVars, userVars
<1>2. \A d \in Cpus : Rest(d)' = Rest(d)
    BY <1>1 DEF Rest, Calling
<1>3. \A d \in Cpus : InHand(d)' = InHand(d)
    BY <1>1 DEF InHand
<1>4. \A u \in Users : Killed(u)' = Killed(u)
    BY <1>1 DEF Killed
<1>5. Distinct(Tail(list[c]))
    <2>1. list[c] \in Seq(All) /\ list[c] # <<>> /\ Distinct(list[c])
        BY <1>1, CurType DEF Busy, Calling, NoRepeats
    <2>2. QED
        BY <2>1, TailElems
<1>6. NoRepeats'
    BY <1>1, <1>5 DEF NoRepeats
<1>7. QED
    BY <1>1, <1>2, <1>3, <1>4, <1>6, SchedKeep

\* A tasklet that runs elsewhere or is disabled goes back to the list of the processor.
LEMMA SchedRequeue ==
    ASSUME Types, HasList, NoRepeats, SchedOwned, NEW c \in Cpus, Requeue(c)
    PROVE  SchedOwned' /\ NoRepeats'
<1> DEFINE t == Cur(c)
           a == <<"list", c, 0>>
           b == <<"vec", c, Nr(t)>>
<1>1. /\ pc[c] = "requeue" /\ PutFirst(c, t) /\ UNCHANGED <<irq, sched, upc, ut>>
      /\ pc'[c] = "next" /\ list'[c] = Tail(list[c])
      /\ \A d \in Cpus \ {c} : pc'[d] = pc[d] /\ list'[d] = list[d]
    BY DEF Requeue, At, Goto, Types, taskletVars, userVars
<1>2. /\ t \in All /\ Nr(t) \in Softirqs
      /\ Range(list[c]) = {t} \cup Range(Tail(list[c])) /\ t \notin Range(Tail(list[c]))
      /\ Distinct(Tail(list[c]))
    <2>1. /\ t \in All /\ list[c] \in Seq(All) /\ list[c] # <<>> /\ Distinct(list[c])
        BY <1>1, CurType DEF NoRepeats
    <2>2. QED
        BY <2>1, TailElems, NrType DEF Cur
<1>3. t \in Rest(c) /\ Rest(c)' = Rest(c) \ {t}
    BY <1>1, <1>2 DEF Rest, Calling
<1>4. /\ a \in Slots /\ b \in Slots /\ a # b
      /\ Held[a] = Rest(c) /\ Held'[a] = Rest(c)'
      /\ Held[b] = Range(vec[c][Nr(t)]) /\ Held'[b] = Range(vec'[c][Nr(t)])
    BY <1>2, SlotCpu, SlotVec
<1>5. t \notin Range(vec[c][Nr(t)])
    BY <1>3, <1>4 DEF SchedOwned, OneSlot
<1>6. \A d \in Cpus : <<"list", d, 0>> \in {a, b} \/ Rest(d)' = Rest(d)
    BY <1>1 DEF Rest
<1>7. \A d \in Cpus : InHand(d)' = InHand(d)
    BY <1>1 DEF InHand
<1>8. \A u \in Users : Killed(u)' = Killed(u)
    BY <1>1 DEF Killed
<1>9. \A d \in Cpus, n \in Softirqs : <<"vec", d, n>> \in {a, b} \/ vec'[d][n] = vec[d][n]
    BY <1>1, <1>2, PutFirstElems
<1>10. \A x \in Slots \ {a, b} : Held'[x] = Held[x]
    BY <1>6, <1>7, <1>8, <1>9, HeldOutside
<1>11. Range(vec'[c][Nr(t)]) = Range(vec[c][Nr(t)]) \cup {t}
    BY <1>1, <1>2, PutFirstElems
<1>12. Moved(Held, Held', a, b, {t})
    BY <1>3, <1>4, <1>10, <1>11 DEF Moved
<1>13. SchedOwned'
    BY <1>1, <1>12, SlotMove DEF SchedOwned
<1>14. NoRepeats'
    <2>1. Distinct(vec'[c][Nr(t)])
        BY <1>1, <1>2, <1>5, PutFirstElems DEF NoRepeats
    <2>2. ASSUME NEW d \in Cpus, NEW n \in Softirqs PROVE Distinct(vec'[d][n])
        <3>1. (d = c /\ n = Nr(t)) \/ vec'[d][n] = vec[d][n]
            BY <1>1, <1>2, PutFirstElems
        <3>2. QED
            BY <2>1, <3>1 DEF NoRepeats
    <2>3. QED
        BY <1>1, <1>2, <2>2 DEF NoRepeats
<1>15. QED
    BY <1>13, <1>14

\* The other steps of a processor only go from one point to another.
LEMMA SchedGoto ==
    ASSUME Types, NoRepeats, SchedOwned, NEW c \in Cpus,
           DoSoftirq(c) \/ Restart(c) \/ Trylock(c) \/ TestCount(c) \/ BhAction(c) \/ BhDone(c)
    PROVE  SchedOwned' /\ NoRepeats'
<1>1. /\ UNCHANGED <<vec, irq, sched, list, upc, ut>>
      /\ \A d \in Cpus : pc'[d] \in Calling <=> pc[d] \in Calling
    BY DEF DoSoftirq, Restart, Trylock, TestCount, BhAction, BhDone, At, Goto, Types,
           Calling, softVars, taskletVars, userVars
<1>2. \A d \in Cpus : Rest(d)' = Rest(d) /\ InHand(d)' = InHand(d)
    BY <1>1 DEF Rest, InHand
<1>3. \A u \in Users : Killed(u)' = Killed(u)
    BY <1>1 DEF Killed
<1>4. QED
    BY <1>1, <1>2, <1>3, SchedKeep DEF NoRepeats

LEMMA SchedCpu ==
    ASSUME Types, HasList, NoRepeats, SchedOwned, NEW c \in Cpus, CpuSteps(c)
    PROVE  SchedOwned' /\ NoRepeats'
<1>1. CASE BhMark(c)
    <2>1. UNCHANGED <<vec, list>>
        BY <1>1 DEF BhMark, softVars
    <2>2. QED
        BY <1>1, <2>1, SchedBhMark DEF NoRepeats
<1>2. QED
    BY <1>1, SchedPush, SchedTakeList, SchedStart, SchedFinish, SchedRequeue, SchedGoto
    DEF CpuSteps

\* tasklet_kill takes the SCHED bit, keeps it while it waits, and gives it back.
LEMMA SchedUser ==
    ASSUME Types, NoRepeats, SchedOwned, NEW u \in Users,
           UserSteps(u) \/ Enable(u) \/ \E t \in All : Kill(u, t) \/ DisableNosync(u, t)
    PROVE  SchedOwned' /\ NoRepeats'
<1> DEFINE a == <<"kill", u, 0>>
<1>1. UNCHANGED <<vec, irq, pc, list>>
    BY UserUnchanged
<1>2. \A d \in Cpus : Rest(d)' = Rest(d) /\ InHand(d)' = InHand(d)
    BY <1>1 DEF Rest, InHand
<1>3. NoRepeats'
    BY <1>1 DEF NoRepeats
<1>4. ASSUME \A v \in Users \ {u} : Killed(v)' = Killed(v)
      PROVE  \A x \in Slots \ {a} : Held'[x] = Held[x]
    <2>1. \A v \in Users : <<"kill", v, 0>> \in {a} \/ Killed(v)' = Killed(v)
        BY <1>4
    <2>2. QED
        BY <1>1, <1>2, <2>1, HeldOutside
<1>5. CASE KillSet(u)
    <2>1. /\ sched' = sched \cup {ut[u]} /\ ut[u] \notin sched
          /\ Killed(u) = {} /\ Killed(u)' = {ut[u]}
          /\ \A v \in Users \ {u} : Killed(v)' = Killed(v)
        BY <1>5 DEF KillSet, UGoto, Killed, Types
    <2>2. a \in Slots /\ Held'[a] = Held[a] \cup {ut[u]}
        BY <2>1, SlotKill
    <2>3. QED
        BY <1>3, <1>4, <2>1, <2>2, SlotAdd DEF SchedOwned
<1>6. CASE KillClear(u)
    <2>1. /\ sched' = sched \ {ut[u]}
          /\ Killed(u) = {ut[u]} /\ Killed(u)' = {}
          /\ \A v \in Users \ {u} : Killed(v)' = Killed(v)
        BY <1>6 DEF KillClear, UGoto, Killed, Types
    <2>2. a \in Slots /\ ut[u] \in Held[a] /\ Held'[a] = Held[a] \ {ut[u]}
        BY <2>1, SlotKill
    <2>3. QED
        BY <1>3, <1>4, <2>1, <2>2, SlotRemove DEF SchedOwned
<1>7. CASE \/ KillWait(u) \/ DisableWait(u) \/ Enable(u)
           \/ \E t \in All : Kill(u, t) \/ DisableNosync(u, t)
    <2>1. sched' = sched /\ \A v \in Users : Killed(v)' = Killed(v)
        BY <1>7 DEF KillWait, DisableWait, Enable, Kill, DisableNosync, UGoto, Killed,
                    Types, taskletVars
    <2>2. QED
        BY <1>1, <1>2, <1>3, <2>1, SchedKeep
<1>8. QED
    BY <1>5, <1>6, <1>7 DEF UserSteps
-----------------------------------------------------------------------------
(* The processes that disable.                                             *)

LEMMA DisablersFinite == ASSUME NEW t PROVE IsFiniteSet(Disablers(t))
BY TaskletAssumption, FS_Subset DEF Disablers

LEMMA CountUser ==
    ASSUME Types, CountExact, NEW u \in Users,
           UserSteps(u) \/ Enable(u) \/ \E t \in All : Kill(u, t) \/ DisableNosync(u, t)
    PROVE  CountExact'
<1>1. CASE \E t \in All : DisableNosync(u, t)
    <2>1. PICK t \in All : DisableNosync(u, t)
        BY <1>1
    <2>2. u \notin Disablers(t) /\ Disablers(t)' = Disablers(t) \cup {u}
        BY <2>1 DEF DisableNosync, UGoto, Disablers, Types
    <2>3. Cardinality(Disablers(t)') = Cardinality(Disablers(t)) + 1
        BY <2>2, DisablersFinite, FS_AddElement
    <2>4. ASSUME NEW s \in All, s # t PROVE Disablers(s)' = Disablers(s)
        BY <2>1, <2>4 DEF DisableNosync, UGoto, Disablers, Types
    <2>5. \A s \in All : count'[s] = IF s = t THEN count[s] + 1 ELSE count[s]
        BY <2>1 DEF DisableNosync, Types
    <2>6. QED
        BY <2>3, <2>4, <2>5 DEF CountExact
<1>2. CASE Enable(u)
    <2>1. PICK t \in All : t = ut[u]
        BY <1>2 DEF Enable, Types
    <2>2. u \in Disablers(t) /\ Disablers(t)' = Disablers(t) \ {u}
        BY <1>2, <2>1, NotNull DEF Enable, UGoto, Disablers, Types
    <2>3. Cardinality(Disablers(t)') = Cardinality(Disablers(t)) - 1
        BY <2>2, DisablersFinite, FS_RemoveElement
    <2>4. ASSUME NEW s \in All, s # t PROVE Disablers(s)' = Disablers(s)
        BY <1>2, <2>1, <2>4, NotNull DEF Enable, UGoto, Disablers, Types
    <2>5. \A s \in All : count'[s] = IF s = t THEN count[s] - 1 ELSE count[s]
        BY <1>2, <2>1 DEF Enable, Types
    <2>6. QED
        BY <2>3, <2>4, <2>5 DEF CountExact
<1>3. CASE UserSteps(u) \/ \E t \in All : Kill(u, t)
    <2>1. count' = count
        BY <1>3 DEF UserSteps, KillSet, KillWait, KillClear, DisableWait, Kill, taskletVars
    <2>2. ASSUME NEW s \in All PROVE Disablers(s)' = Disablers(s)
        BY <1>3 DEF UserSteps, KillSet, KillWait, KillClear, DisableWait, Kill, UGoto,
                    Disablers, Types
    <2>3. QED
        BY <2>1, <2>2 DEF CountExact
<1>4. QED
    BY <1>1, <1>2, <1>3

LEMMA CountOther ==
    ASSUME CountExact, UNCHANGED <<count, upc, ut>>
    PROVE  CountExact'
<1>1. ASSUME NEW t \in All PROVE Disablers(t)' = Disablers(t)
    BY DEF Disablers
<1>2. QED
    BY <1>1 DEF CountExact

LEMMA CpuUnchanged ==
    ASSUME NEW c, CpuSteps(c)
    PROVE  UNCHANGED <<count, upc, ut>>
BY DEF CpuSteps, Push, DoSoftirq, TakeList, Restart, Trylock, TestCount, Start, Finish,
       Requeue, BhAction, BhMark, BhDone, taskletVars, userVars

-----------------------------------------------------------------------------
(* Nothing starts late.                                                    *)

\* A tasklet somebody has disabled is not at zero.
LEMMA DisabledCounted ==
    ASSUME Types, CountExact, NEW u \in Users, upc[u] \in {"nosync", "disabled"}
    PROVE  count[ut[u]] # 0
<1>1. ut[u] \in All /\ u \in Disablers(ut[u])
    BY DEF Types, Disablers
<1>2. Cardinality(Disablers(ut[u])) # 0
    BY <1>1, DisablersFinite, FS_EmptySet
<1>3. QED
    BY <1>1, <1>2 DEF CountExact

\* A tasklet that tasklet_kill holds is on the list of no processor.
LEMMA KilledNotListed ==
    ASSUME Types, SchedOwned, NEW u \in Users, upc[u] = "kill_clear",
           NEW c \in Cpus, pc[c] = "next", list[c] # <<>>
    PROVE  Cur(c) # ut[u]
<1>1. Cur(c) \in Held[<<"list", c, 0>>]
    <2>1. list[c] \in Seq(All)
        BY DEF Types
    <2>2. Cur(c) \in Range(list[c])
        BY <2>1, TailElems DEF Cur
    <2>3. QED
        BY <2>2, SlotCpu DEF Rest, Calling
<1>2. ut[u] \in Held[<<"kill", u, 0>>]
    BY SlotKill DEF Killed
<1>3. <<"list", c, 0>> \in Slots /\ <<"kill", u, 0>> \in Slots
    BY SlotCpu, SlotKill
<1>4. QED
    BY <1>1, <1>2, <1>3 DEF SchedOwned, OneSlot

LEMMA QuietCpu ==
    ASSUME Types, HasList, SchedOwned, CountExact, Quiet, NEW c \in Cpus, CpuSteps(c)
    PROVE  Quiet'
<1>1. UNCHANGED <<upc, ut>>
    BY CpuUnchanged
<1>2. CASE Trylock(c)
    <2>1. SUFFICES ASSUME NEW u \in Users, NEW d \in Cpus
                   PROVE  /\ upc[u] = "disabled" /\ pc'[d] \in Calling \cup {"start"} => Cur(d)' # ut[u]
                          /\ upc[u] = "kill_clear" /\ pc'[d] \in Busy => Cur(d)' # ut[u]
        BY <1>1 DEF Quiet
    <2>2. Cur(d)' = Cur(d)
        BY <1>2 DEF Trylock, Cur
    <2>3. CASE d # c
        BY <1>2, <2>2, <2>3 DEF Trylock, Goto, Quiet, Types
    <2>4. CASE d = c /\ pc'[d] \in Busy
        <3>1. pc[c] = "next" /\ list[c] # <<>> /\ pc'[d] = "locked"
            BY <1>2, <2>4 DEF Trylock, At, Goto, Busy, Calling, Types
        <3>2. QED
            BY <2>2, <2>4, <3>1, KilledNotListed DEF Calling
    <2>5. CASE d = c /\ pc'[d] \notin Busy
        BY <2>5 DEF Busy
    <2>6. QED
        BY <2>3, <2>4, <2>5
<1>3. CASE TestCount(c)
    <2>1. /\ pc[c] = "locked" /\ list' = list /\ \A d \in Cpus \ {c} : pc'[d] = pc[d]
          /\ pc'[c] \in {"start", "requeue"} /\ (pc'[c] = "start" => count[Cur(c)] = 0)
        BY <1>3 DEF TestCount, At, Goto, Types
    <2>2. \A u \in Users : upc[u] = "disabled" /\ pc'[c] = "start" => Cur(c) # ut[u]
        BY <2>1, DisabledCounted
    <2>3. QED
        BY <1>1, <2>1, <2>2 DEF Quiet, Cur, Calling, Busy
<1>4. CASE Push(c) \/ DoSoftirq(c) \/ TakeList(c) \/ Restart(c) \/ Finish(c) \/ Requeue(c)
    <2>1. \A d \in Cpus : pc'[d] \in Busy => pc'[d] = pc[d] /\ list'[d] = list[d]
        BY <1>4 DEF Push, DoSoftirq, TakeList, Restart, Finish, Requeue, At, Goto, Types,
                    Busy, Calling, cpuVars
    <2>2. QED
        BY <1>1, <2>1 DEF Quiet, Cur, Busy
<1>5. CASE Start(c) \/ BhAction(c) \/ BhMark(c) \/ BhDone(c)
    <2>1. /\ list' = list /\ pc[c] \in Calling \cup {"start"} /\ pc'[c] \in Calling
          /\ \A d \in Cpus \ {c} : pc'[d] = pc[d]
        BY <1>5 DEF Start, BhAction, BhMark, BhDone, At, Goto, Types, Calling
    <2>2. QED
        BY <1>1, <2>1 DEF Quiet, Cur, Busy
<1>6. QED
    BY <1>2, <1>3, <1>4, <1>5 DEF CpuSteps

LEMMA QuietUser ==
    ASSUME Types, RunOwned, Quiet, NEW u \in Users,
           UserSteps(u) \/ Enable(u) \/ \E t \in All : Kill(u, t) \/ DisableNosync(u, t)
    PROVE  Quiet'
<1>1. UNCHANGED <<run, pc, list>>
    BY UserUnchanged
<1>2. CASE KillWait(u) \/ DisableWait(u)
    <2>1. ut' = ut /\ ut[u] \notin run /\ \A v \in Users \ {u} : upc'[v] = upc[v]
        BY <1>2 DEF KillWait, DisableWait, UGoto, Types
    <2>2. \A c \in Cpus : pc[c] \in Busy => Cur(c) # ut[u]
        BY <2>1 DEF RunOwned
    <2>3. QED
        BY <1>1, <2>1, <2>2 DEF Quiet, Cur, Busy
<1>3. CASE \/ KillSet(u) \/ KillClear(u) \/ Enable(u)
           \/ \E t \in All : Kill(u, t) \/ DisableNosync(u, t)
    <2>1. /\ upc'[u] \notin {"disabled", "kill_clear"}
          /\ \A v \in Users \ {u} : upc'[v] = upc[v] /\ ut'[v] = ut[v]
        BY <1>3 DEF KillSet, KillClear, Enable, Kill, DisableNosync, UGoto, Types
    <2>2. QED
        BY <1>1, <2>1 DEF Quiet, Cur
<1>4. QED
    BY <1>2, <1>3 DEF UserSteps

-----------------------------------------------------------------------------
(* The invariant.                                                          *)

LEMMA InvInit == Init => Inv
<1> SUFFICES ASSUME Init PROVE Inv
    OBVIOUS
<1>1. Types
    BY EmptySeq DEF Init, Types, PCs, UPCs
<1>2. HasList /\ RunOwned /\ BhOwned /\ Quiet
    BY DEF Init, HasList, RunOwned, BhOwned, Quiet, Busy, Calling
<1>3. NoRepeats
    BY EmptyElems DEF Init, NoRepeats
<1>4. SchedOwned
    <2>1. \A c \in Cpus, n \in Softirqs : Held[<<"vec", c, n>>] = {}
        BY SlotVec, EmptyElems DEF Init
    <2>2. \A c \in Cpus : Held[<<"list", c, 0>>] = {} /\ Held[<<"irq", c, 0>>] = {}
        BY SlotCpu, EmptyElems DEF Init, Rest, InHand, Calling
    <2>3. \A u \in Users : Held[<<"kill", u, 0>>] = {}
        BY SlotKill DEF Init, Killed
    <2>4. \A x \in Slots : Held[x] = {}
        BY <2>1, <2>2, <2>3, SlotKinds
    <2>5. sched = {}
        BY DEF Init
    <2>6. QED
        BY <2>4, <2>5 DEF SchedOwned, OneSlot
<1>5. CountExact
    <2>1. ASSUME NEW t \in All PROVE Disablers(t) = {}
        BY DEF Init, Disablers
    <2>2. QED
        BY <2>1, FS_EmptySet DEF Init, CountExact
<1>6. QED
    BY <1>1, <1>2, <1>3, <1>4, <1>5 DEF Inv

LEMMA InvNext == Inv /\ [Next]_vars => Inv'
<1> SUFFICES ASSUME Inv, [Next]_vars PROVE Inv'
    OBVIOUS
<1> USE DEF Inv
<1>1. ASSUME NEW c \in Cpus, CpuSteps(c) PROVE Inv'
    BY <1>1, TypesCpu, OwnersCpu, SchedCpu, CpuUnchanged, CountOther, QuietCpu
<1>2. ASSUME NEW c \in Cpus, NEW t \in All, Schedule(c, t) PROVE Inv'
    <2>1. UNCHANGED <<vec, run, count, bhlock, pc, list, upc, ut>>
        BY <1>2, ScheduleUnchanged
    <2>2. Types' /\ SchedOwned'
        BY <1>2, TypesSchedule, SchedSchedule
    <2>3. NoRepeats' /\ Quiet'
        BY <2>1 DEF NoRepeats, Quiet, Cur
    <2>4. QED
        BY <2>1, <2>2, <2>3, OwnersOther, CountOther
<1>3. ASSUME NEW u \in Users,
             UserSteps(u) \/ Enable(u) \/ \E t \in All : Kill(u, t) \/ DisableNosync(u, t)
      PROVE  Inv'
    BY <1>3, TypesUser, UserUnchanged, OwnersOther, SchedUser, CountUser, QuietUser
<1>4. CASE UNCHANGED vars
    <2>1. UNCHANGED <<active, vec, sched, run, count, bhlock, irq, pc, todo, mask, list, upc, ut>>
        BY <1>4 DEF vars, softVars, taskletVars, cpuVars, userVars
    <2>2. Types' /\ NoRepeats' /\ Quiet'
        BY <2>1 DEF Types, NoRepeats, Quiet, Cur
    <2>3. /\ \A c \in Cpus : Rest(c)' = Rest(c) /\ InHand(c)' = InHand(c)
          /\ \A u \in Users : Killed(u)' = Killed(u)
        BY <2>1 DEF Rest, InHand, Killed
    <2>4. QED
        BY <2>1, <2>2, <2>3, OwnersOther, SchedKeep, CountOther
<1>5. QED
    BY <1>1, <1>2, <1>3, <1>4, Actors

THEOREM Invariance == Spec => []Inv
BY InvInit, InvNext, PTL DEF Spec
-----------------------------------------------------------------------------
(* What the invariant says of the tasklets.                                *)

LEMMA AtMostOne ==
    ASSUME NEW S, \A x, y \in S : x = y
    PROVE  S = {} \/ \E x \in S : S = {x}
OBVIOUS

LEMMA AtMostOneCard ==
    ASSUME NEW S, \A x, y \in S : x = y
    PROVE  IsFiniteSet(S) /\ Cardinality(S) <= 1
<1>1. CASE S = {}
    BY <1>1, FS_EmptySet
<1>2. CASE \E x \in S : S = {x}
    <2>1. PICK x : S = {x}
        BY <1>2
    <2>2. IsFiniteSet({x}) /\ Cardinality({x}) = 1
        BY FS_Singleton
    <2>3. QED
        BY <2>1, <2>2
<1>3. QED
    BY <1>1, <1>2, AtMostOne

LEMMA OneRuns ==
    ASSUME Inv, NEW t
    PROVE  \A c, d \in Running(t) : c = d
BY DEF Inv, RunOwned, Running, Busy, Calling

\* Tasklets are serialized with themselves, and bottom halves with each other: the
\* test_and_set of TASKLET_STATE_RUN and global_bh_lock in kernel/softirq.c, whatever
\* the number of processors.
THEOREM TaskletsSerialized == Spec => []Serialized
<1>1. Inv => Serialized
    <2> SUFFICES ASSUME Inv PROVE Serialized
        OBVIOUS
    <2>1. ASSUME NEW t \in All PROVE Cardinality(Running(t)) <= 1
        BY OneRuns, AtMostOneCard
    <2>2. \A c, d \in {e \in Cpus : pc[e] = "bh"} : c = d
        BY DEF Inv, BhOwned
    <2>3. Cardinality({e \in Cpus : pc[e] = "bh"}) <= 1
        BY <2>2, AtMostOneCard
    <2>4. QED
        BY <2>1, <2>3 DEF Serialized
<1>2. QED
    BY <1>1, Invariance, PTL

\* After tasklet_disable, and when the wait of tasklet_kill is over, no processor is
\* in the function of the tasklet.
THEOREM DisabledQuiesced == Spec => []Quiesced
<1>1. Inv => Quiesced
    BY DEF Inv, Quiet, Quiesced, Running, Busy, Calling
<1>2. QED
    BY <1>1, Invariance, PTL

-----------------------------------------------------------------------------
(* The links of a tasklet, apart from the one of the list its processor is *)
(* walking while it runs.                                                  *)

RunLinks(t) == {<<c, "list", 1>> : c \in Running(t)}
Links(t) == Places(t) \ RunLinks(t)
SlotOf(p) == IF p[2] = "vec" THEN <<"vec", p[1], p[3]>> ELSE <<p[2], p[1], 0>>

LEMMA PlaceKinds ==
    ASSUME NEW t, NEW p
    PROVE  p \in Places(t) <=>
           \/ \E c \in Cpus, n \in Softirqs : \E i \in Entries(vec[c][n], t) : p = <<c, "vec", n, i>>
           \/ \E c \in Cpus : \E i \in Entries(list[c], t) : p = <<c, "list", i>>
           \/ \E c \in Cpus : irq[c] = t /\ p = <<c, "irq", 0>>
<1> DEFINE U(c) == UNION {{<<c, "vec", n, i>> : i \in Entries(vec[c][n], t)} : n \in Softirqs}
           V == UNION {U(c) : c \in Cpus}
           L == UNION {{<<c, "list", i>> : i \in Entries(list[c], t)} : c \in Cpus}
           I == {<<c, "irq", 0>> : c \in {d \in Cpus : irq[d] = t}}
<1>1. p \in V <=> \E c \in Cpus, n \in Softirqs : p \in {<<c, "vec", n, i>> : i \in Entries(vec[c][n], t)}
    <2>1. ASSUME NEW c PROVE p \in U(c) <=> \E n \in Softirqs : p \in {<<c, "vec", n, i>> : i \in Entries(vec[c][n], t)}
        BY Zenon
    <2> HIDE DEF U
    <2>2. p \in V <=> \E c \in Cpus : p \in U(c)
        BY Zenon
    <2> HIDE DEF V
    <2>3. QED
        BY <2>1, <2>2
<1>2. p \in L <=> \E c \in Cpus : p \in {<<c, "list", i>> : i \in Entries(list[c], t)}
    BY Zenon
<1>3. p \in I <=> \E c \in Cpus : irq[c] = t /\ p = <<c, "irq", 0>>
    BY Zenon
<1>4. Places(t) = V \cup L \cup I
    BY DEF Places
<1> HIDE DEF V, L, I
<1>5. QED
    BY <1>1, <1>2, <1>3, <1>4

\* A position of a list that is not the one being run is in the rest of it.
LEMMA RestIndex ==
    ASSUME Inv, NEW c \in Cpus, NEW t \in All
    PROVE  /\ \A i \in Entries(list[c], t) : <<c, "list", i>> \notin RunLinks(t) => t \in Rest(c)
           /\ t \in Rest(c) => \E i \in Entries(list[c], t) : <<c, "list", i>> \notin RunLinks(t)
           /\ c \in Running(t) => 1 \in Entries(list[c], t)
<1>1. list[c] \in Seq(All) /\ Distinct(list[c])
    BY DEF Inv, Types, NoRepeats
<1>2. \A i : <<c, "list", i>> \in RunLinks(t) <=> i = 1 /\ c \in Running(t)
    BY DEF RunLinks
<1>3. CASE pc[c] \notin Calling
    <2>1. Rest(c) = Range(list[c]) /\ c \notin Running(t)
        BY <1>3 DEF Rest, Running, Calling
    <2>2. QED
        BY <1>1, <1>2, <2>1 DEF Entries, Range
<1>4. CASE pc[c] \in Calling
    <2> DEFINE r == Tail(list[c])
    <2>1. list[c] # <<>> /\ Rest(c) = Range(r) /\ (c \in Running(t) <=> Cur(c) = t)
        BY <1>4 DEF Inv, HasList, Busy, Rest, Running, Calling
    <2>2. /\ list[c][1] = Cur(c) /\ 1 \in DOMAIN list[c]
          /\ Cur(c) \notin Range(r) /\ Range(list[c]) = {Cur(c)} \cup Range(r)
        BY <1>1, <2>1, TailElems DEF Cur
    <2>3. ASSUME NEW i \in Entries(list[c], t), <<c, "list", i>> \notin RunLinks(t)
          PROVE  t \in Rest(c)
        <3>1. list[c][i] = t /\ i \in DOMAIN list[c] /\ t \in Range(list[c])
            BY DEF Entries, Range
        <3>2. t # Cur(c)
            BY <1>1, <1>2, <2>1, <2>2, <2>3, <3>1 DEF Distinct
        <3>3. QED
            BY <2>1, <2>2, <3>1, <3>2
    <2>4. ASSUME t \in Rest(c)
          PROVE  \E i \in Entries(list[c], t) : <<c, "list", i>> \notin RunLinks(t)
        <3>1. t \in Range(list[c]) /\ t # Cur(c)
            BY <2>1, <2>2, <2>4
        <3>2. PICK i \in DOMAIN list[c] : list[c][i] = t
            BY <3>1 DEF Range
        <3>3. QED
            BY <1>2, <2>1, <3>1, <3>2 DEF Entries
    <2>5. c \in Running(t) => 1 \in Entries(list[c], t)
        BY <2>1, <2>2 DEF Entries
    <2>6. QED
        BY <2>3, <2>4, <2>5
<1>5. QED
    BY <1>3, <1>4

\* A link is in the slot that holds the tasklet.
LEMMA LinkSlot ==
    ASSUME Inv, NEW t \in All, NEW p \in Links(t)
    PROVE  SlotOf(p) \in Slots /\ t \in Held[SlotOf(p)] /\ SlotOf(p)[1] # "kill"
<1>1. p \in Places(t) /\ p \notin RunLinks(t)
    BY DEF Links
<1>2. CASE \E c \in Cpus, n \in Softirqs : \E i \in Entries(vec[c][n], t) : p = <<c, "vec", n, i>>
    <2>1. PICK c \in Cpus, n \in Softirqs : \E i \in Entries(vec[c][n], t) : p = <<c, "vec", n, i>>
        BY <1>2
    <2>2. SlotOf(p) = <<"vec", c, n>> /\ t \in Range(vec[c][n])
        BY <2>1 DEF SlotOf, Entries, Range
    <2>3. QED
        BY <2>2, SlotVec
<1>3. CASE \E c \in Cpus : \E i \in Entries(list[c], t) : p = <<c, "list", i>>
    <2>1. PICK c \in Cpus : \E i \in Entries(list[c], t) : p = <<c, "list", i>>
        BY <1>3
    <2>2. SlotOf(p) = <<"list", c, 0>> /\ t \in Rest(c)
        BY <1>1, <2>1, RestIndex DEF SlotOf
    <2>3. <<"list", c, 0>> \in Slots /\ Held[<<"list", c, 0>>] = Rest(c)
        BY SlotCpu
    <2>4. QED
        BY <2>2, <2>3
<1>4. CASE \E c \in Cpus : irq[c] = t /\ p = <<c, "irq", 0>>
    <2>1. PICK c \in Cpus : irq[c] = t /\ p = <<c, "irq", 0>>
        BY <1>4
    <2>2. SlotOf(p) = <<"irq", c, 0>> /\ t \in InHand(c)
        BY <2>1, NotNull DEF SlotOf, InHand
    <2>3. <<"irq", c, 0>> \in Slots /\ Held[<<"irq", c, 0>>] = InHand(c)
        BY SlotCpu
    <2>4. QED
        BY <2>2, <2>3
<1>5. QED
    BY <1>1, <1>2, <1>3, <1>4, PlaceKinds

\* A slot other than one of tasklet_kill that holds the tasklet has a link.
LEMMA SlotLink ==
    ASSUME Inv, NEW t \in All, NEW x \in Slots, t \in Held[x], x[1] # "kill"
    PROVE  Links(t) # {}
<1>1. CASE \E c \in Cpus, n \in Softirqs : x = <<"vec", c, n>>
    <2>1. PICK c \in Cpus, n \in Softirqs : x = <<"vec", c, n>>
        BY <1>1
    <2>2. t \in Range(vec[c][n])
        BY <2>1, SlotVec
    <2>3. PICK i : i \in Entries(vec[c][n], t)
        BY <2>2 DEF Range, Entries
    <2>4. <<c, "vec", n, i>> \in Places(t)
        BY <2>3, PlaceKinds
    <2>5. <<c, "vec", n, i>> \notin RunLinks(t)
        BY DEF RunLinks
    <2>6. QED
        BY <2>4, <2>5 DEF Links
<1>2. CASE \E c \in Cpus : x = <<"list", c, 0>>
    <2>1. PICK c \in Cpus : x = <<"list", c, 0>>
        BY <1>2
    <2>2. t \in Rest(c)
        BY <2>1, SlotCpu
    <2>3. PICK i \in Entries(list[c], t) : <<c, "list", i>> \notin RunLinks(t)
        BY <2>2, RestIndex
    <2>4. <<c, "list", i>> \in Places(t)
        BY <2>3, PlaceKinds
    <2>5. QED
        BY <2>3, <2>4 DEF Links
<1>3. CASE \E c \in Cpus : x = <<"irq", c, 0>>
    <2>1. PICK c \in Cpus : x = <<"irq", c, 0>>
        BY <1>3
    <2>2. irq[c] = t
        BY <2>1, SlotCpu DEF InHand
    <2>3. <<c, "irq", 0>> \in Places(t) /\ <<c, "irq", 0>> \notin RunLinks(t)
        BY <2>2, PlaceKinds DEF RunLinks
    <2>4. QED
        BY <2>3 DEF Links
<1>4. QED
    BY <1>1, <1>2, <1>3, SlotKinds

\* A slot has one link.
LEMMA LinkUnique ==
    ASSUME Inv, NEW t \in All, NEW p \in Links(t), NEW q \in Links(t), SlotOf(p) = SlotOf(q)
    PROVE  p = q
<1>1. p \in Places(t) /\ q \in Places(t)
    BY DEF Links
<1>2. CASE SlotOf(p)[1] = "vec"
    <2>1. PICK c \in Cpus, n \in Softirqs : \E i \in Entries(vec[c][n], t) : p = <<c, "vec", n, i>>
        BY <1>1, <1>2, PlaceKinds DEF SlotOf
    <2>2. PICK d \in Cpus, m \in Softirqs : \E i \in Entries(vec[d][m], t) : q = <<d, "vec", m, i>>
        BY <1>1, <1>2, PlaceKinds DEF SlotOf
    <2>3. c = d /\ n = m
        BY <2>1, <2>2 DEF SlotOf
    <2>4. Distinct(vec[c][n])
        BY DEF Inv, NoRepeats
    <2>5. \A i, j \in Entries(vec[c][n], t) : i = j
        BY <2>4 DEF Distinct, Entries
    <2>6. QED
        BY <2>1, <2>2, <2>3, <2>5
<1>3. CASE SlotOf(p)[1] = "list"
    <2>1. PICK c \in Cpus : \E i \in Entries(list[c], t) : p = <<c, "list", i>>
        BY <1>1, <1>3, PlaceKinds DEF SlotOf
    <2>2. PICK d \in Cpus : \E i \in Entries(list[d], t) : q = <<d, "list", i>>
        BY <1>1, <1>3, PlaceKinds DEF SlotOf
    <2>3. c = d
        BY <2>1, <2>2 DEF SlotOf
    <2>4. \A i, j \in Entries(list[c], t) : i = j
        BY DEF Inv, NoRepeats, Distinct, Entries
    <2>5. QED
        BY <2>1, <2>2, <2>3, <2>4
<1>4. CASE SlotOf(p)[1] = "irq"
    <2>1. PICK c \in Cpus : p = <<c, "irq", 0>>
        BY <1>1, <1>4, PlaceKinds DEF SlotOf
    <2>2. PICK d \in Cpus : q = <<d, "irq", 0>>
        BY <1>1, <1>4, PlaceKinds DEF SlotOf
    <2>3. QED
        BY <2>1, <2>2 DEF SlotOf
<1>5. QED
    BY <1>1, <1>2, <1>3, <1>4, PlaceKinds DEF SlotOf
\* The tasklet has one link if SCHED is set and not by tasklet_kill, and none otherwise.
LEMMA LinkCount ==
    ASSUME Inv, NEW t \in All
    PROVE  LET killed == \E u \in Users : ut[u] = t /\ upc[u] \in {"kill_wait", "kill_clear"} IN
           /\ IsFiniteSet(Links(t))
           /\ Cardinality(Links(t)) = IF t \in sched /\ ~killed THEN 1 ELSE 0
<1> DEFINE killed == \E u \in Users : ut[u] = t /\ upc[u] \in {"kill_wait", "kill_clear"}
<1>1. OneSlot(Held, sched)
    BY DEF Inv, SchedOwned
<1>2. \A p, q \in Links(t) : p = q
    <2>1. SUFFICES ASSUME NEW p \in Links(t), NEW q \in Links(t) PROVE p = q
        OBVIOUS
    <2>2. SlotOf(p) = SlotOf(q)
        BY <1>1, LinkSlot DEF OneSlot
    <2>3. QED
        BY <2>2, LinkUnique
<1>3. CASE t \in sched /\ ~killed
    <2>1. PICK x \in Slots : t \in Held[x]
        BY <1>1, <1>3 DEF OneSlot
    <2>2. ASSUME x[1] = "kill" PROVE FALSE
        <3>1. PICK u \in Users : x = <<"kill", u, 0>>
            BY <2>2, SlotKinds
        <3>2. t \in Killed(u)
            BY <2>1, <3>1, SlotKill
        <3>3. QED
            BY <1>3, <3>2 DEF Killed
    <2>3. Links(t) # {}
        BY <2>1, <2>2, SlotLink
    <2>4. PICK p \in Links(t) : Links(t) = {p}
        BY <1>2, <2>3, AtMostOne
    <2>5. IsFiniteSet({p}) /\ Cardinality({p}) = 1
        BY FS_Singleton
    <2>6. QED
        BY <1>3, <2>4, <2>5
<1>4. CASE ~(t \in sched /\ ~killed)
    <2>1. ASSUME NEW p \in Links(t) PROVE FALSE
        <3>1. SlotOf(p) \in Slots /\ t \in Held[SlotOf(p)] /\ SlotOf(p)[1] # "kill"
            BY LinkSlot
        <3>2. t \in sched
            BY <1>1, <3>1 DEF OneSlot
        <3>3. PICK u \in Users : ut[u] = t /\ upc[u] \in {"kill_wait", "kill_clear"}
            BY <1>4, <3>2
        <3>4. <<"kill", u, 0>> \in Slots /\ t \in Held[<<"kill", u, 0>>]
            BY <3>3, SlotKill DEF Killed
        <3>5. SlotOf(p) = <<"kill", u, 0>>
            BY <1>1, <3>1, <3>4 DEF OneSlot
        <3>6. QED
            BY <3>1, <3>5
    <2>2. Links(t) = {}
        BY <2>1
    <2>3. QED
        BY <1>4, <2>2, FS_EmptySet
<1>5. QED
    BY <1>3, <1>4

\* Every tasklet is linked once while it is scheduled and not at all otherwise, apart
\* from its entry in the list of the processor that runs it: tasklet_schedule,
\* tasklet_action and tasklet_kill in kernel/softirq.c and include/linux/interrupt.h.
THEOREM TaskletsLinkedOnce == Spec => []LinkedOnce
<1>1. Inv => LinkedOnce
    <2> SUFFICES ASSUME Inv PROVE LinkedOnce
        OBVIOUS
    <2>1. ASSUME NEW t \in All
          PROVE  Cardinality(Places(t)) = Cardinality(Running(t)) + Cardinality(Links(t))
        <3>1. IsFiniteSet(Links(t)) /\ Cardinality(Links(t)) \in Nat
            BY LinkCount, FS_CardinalityType
        <3>2. CASE Running(t) = {}
            <4>1. Places(t) = Links(t) /\ Cardinality(Running(t)) = 0
                BY <3>2, FS_EmptySet DEF Links, RunLinks
            <4>2. QED
                BY <3>1, <4>1
        <3>3. CASE Running(t) # {}
            <4>1. PICK c \in Running(t) : Running(t) = {c}
                BY <3>3, OneRuns, AtMostOne
            <4> DEFINE p == <<c, "list", 1>>
            <4>2. c \in Cpus /\ 1 \in Entries(list[c], t)
                BY RestIndex DEF Running
            <4>3. p \in Places(t)
                BY <4>2, PlaceKinds
            <4>4. RunLinks(t) = {p}
                BY <4>1 DEF RunLinks
            <4>5. Places(t) = Links(t) \cup {p} /\ p \notin Links(t)
                BY <4>3, <4>4 DEF Links
            <4>6. Cardinality(Links(t) \cup {p}) = Cardinality(Links(t)) + 1
                BY <3>1, <4>5, FS_AddElement
            <4>7. Cardinality({c}) = 1
                BY FS_Singleton
            <4>8. QED
                BY <3>1, <4>1, <4>5, <4>6, <4>7
        <3>4. QED
            BY <3>2, <3>3
    <2>2. QED
        BY <2>1, LinkCount DEF LinkedOnce
<1>2. QED
    BY <1>1, Invariance, PTL

(***************************************************************************)
(* Kernel timers. run_timer_list is the bottom half TIMER_BH, of which     *)
(* Serialized says that one processor runs it at a time; KTimer is what it *)
(* does, beside the processors that call del_timer_sync. Every list, and   *)
(* what is done to it, stays within the timers del_timer_sync is not done  *)
(* with; the loops that empty a list or cascade it are taken turn by turn. *)
(***************************************************************************)
CONSTANTS
    Timers, TVR_BITS, TVN_BITS, Delays, MaxLag, CallTicks,    \* of KTimer
    Syncers                                        \* its Procs
VARIABLES
    jiffies, timer_jiffies, tv, index, expires, marked, running, fn,
    spc, st, due, deleted,                         \* of KTimer
    tpc                                            \* its pc

T == INSTANCE KTimer WITH Procs <- Syncers, pc <- tpc

\* A set of numbers that is not empty has a least element.
LEMMA LeastNumber ==
    ASSUME NEW S \in SUBSET Nat, S # {}
    PROVE  \E x \in S : \A y \in S : x <= y
<1>1. PICK x \in S : \A y \in S : ~ (<<y, x>> \in OpToRel(<, Nat))
    BY NatLessThanWellFounded, WFMin, S \subseteq Nat, Zenon
<1>2. \A y \in S : ~ (y < x)
    BY <1>1 DEF OpToRel
<1>3. QED
    BY <1>2

\* A loop of n turns, given by what each turn makes of a value, has a course.
Loop(A, a, n, turn) == a \in A /\ n \in Nat /\ turn \in [1 .. n -> [A -> A]]
CourseOf(A, a, n, turn, f) ==
    /\ f \in [0 .. n -> A] /\ f[0] = a
    /\ \A i \in 1 .. n : f[i] = turn[i][f[i - 1]]

\* A loop over 1 .. n is a function that satisfies its recursion equation.
LEMMA Iterate ==
    ASSUME NEW A, NEW a, NEW n, NEW turn, Loop(A, a, n, turn)
    PROVE  \E f : CourseOf(A, a, n, turn, f)
<1> USE DEF CourseOf, Loop
<1> DEFINE Run(m, f) == f \in [0 .. m -> A] /\ f[0] = a
                           /\ \A i \in 1 .. m : f[i] = turn[i][f[i - 1]]
           Bad == {m \in 0 .. n : ~ \E f : Run(m, f)}
<1>1. SUFFICES ASSUME Bad # {} PROVE FALSE
    <2>1. n \in 0 .. n
        OBVIOUS
    <2>2. \E f : Run(n, f)
        BY <1>1, <2>1
    <2>3. QED
        BY <2>2
<1>2. PICK m \in Bad : \A y \in Bad : m <= y
    <2>1. Bad \in SUBSET Nat
        OBVIOUS
    <2>2. QED
        BY <1>1, <2>1, LeastNumber
<1>3. m \in 0 .. n /\ ~ \E f : Run(m, f)
    BY <1>2
<1>4. m # 0
    <2>1. PICK g : g = [i \in 0 .. 0 |-> a]
        OBVIOUS
    <2>2. Run(0, g)
        BY <2>1
    <2>3. QED
        BY <1>3, <2>2
<1>5. PICK f : Run(m - 1, f)
    <2>1. m - 1 \in 0 .. n /\ ~ (m <= m - 1)
        BY <1>3, <1>4
    <2>2. m - 1 \notin Bad
        BY <1>2, <2>1
    <2>3. QED
        BY <2>1, <2>2
<1>6. PICK g : g = [i \in 0 .. m |-> IF i = m THEN turn[m][f[m - 1]] ELSE f[i]]
    OBVIOUS
<1>7. Run(m, g)
    <2>1. m \in 1 .. n /\ m - 1 \in 0 .. m - 1 /\ 0 \in 0 .. m - 1
        BY <1>3, <1>4
    <2>2. f[m - 1] \in A /\ turn[m] \in [A -> A] /\ turn[m][f[m - 1]] \in A
        BY <2>1, <1>5
    <2>3. g \in [0 .. m -> A]
        BY <2>1, <2>2, <1>3, <1>5, <1>6
    <2>4. g[0] = a
        BY <2>1, <1>5, <1>6, <1>4
    <2>5. ASSUME NEW i \in 1 .. m PROVE g[i] = turn[i][g[i - 1]]
        <3>1. i - 1 \in 0 .. m - 1 /\ i - 1 \in 0 .. m /\ i - 1 # m /\ i \in 0 .. m
            BY <2>1, SMT
        <3>2. g[i - 1] = f[i - 1]
            BY <3>1, <1>6
        <3>3. CASE i = m
            BY <3>1, <3>2, <3>3, <1>6
        <3>4. CASE i # m
            <4>1. i \in 1 .. m - 1
                BY <3>4, <2>1, SMT
            <4>2. g[i] = f[i] /\ f[i] = turn[i][f[i - 1]]
                BY <4>1, <3>1, <3>4, <1>5, <1>6
            <4>3. QED
                BY <4>2, <3>2
        <3>5. QED
            BY <3>3, <3>4
    <2>6. QED
        BY <2>3, <2>4, <2>5
<1>8. QED
    BY <1>3, <1>7

\* Induction over the turns of a loop.
LEMMA TurnByTurn ==
    ASSUME NEW n \in Nat, NEW S, 0 \in S, \A i \in 1 .. n : i - 1 \in S => i \in S
    PROVE  \A i \in 0 .. n : i \in S
<1> DEFINE Bad == {i \in 0 .. n : i \notin S}
<1>1. SUFFICES ASSUME Bad # {} PROVE FALSE
    OBVIOUS
<1>2. Bad \in SUBSET Nat
    OBVIOUS
<1>3. PICK m \in Bad : \A y \in Bad : m <= y
    BY <1>1, <1>2, LeastNumber
<1>4. m \in 0 .. n /\ m \notin S
    BY <1>3
<1>5. m \in 1 .. n /\ m - 1 \in 0 .. n /\ ~(m <= m - 1)
    BY <1>4
<1>6. m - 1 \notin Bad
    BY <1>3, <1>5
<1>7. m - 1 \in S
    BY <1>5, <1>6
<1>8. QED
    BY <1>4, <1>5, <1>7

\* The vectors of lists with timers of P.
Indexes(n) == 0 .. T!Size(n) - 1
Vectors(P) ==
    {v \in [1 .. 5 -> UNION {[Indexes(n) -> Seq(P)] : n \in 1 .. 5}] :
        \A n \in 1 .. 5 : v[n] \in [Indexes(n) -> Seq(P)]}

\* What makes a vector of lists.
LEMMA VectorParts ==
    ASSUME NEW P, NEW v
    PROVE  v \in Vectors(P) <=> /\ v = [n \in 1 .. 5 |-> v[n]]
                                /\ \A n \in 1 .. 5 : v[n] \in [Indexes(n) -> Seq(P)]
<1>1. ASSUME v = [n \in 1 .. 5 |-> v[n]], \A n \in 1 .. 5 : v[n] \in [Indexes(n) -> Seq(P)]
      PROVE  v \in Vectors(P)
    <2>1. PICK L : L = UNION {[Indexes(n) -> Seq(P)] : n \in 1 .. 5}
        OBVIOUS
    <2>2. \A n \in 1 .. 5 : v[n] \in L
        BY <1>1, <2>1
    <2>3. v \in [1 .. 5 -> L]
        BY <1>1, <2>2
    <2>4. QED
        BY <1>1, <2>1, <2>3 DEF Vectors
<1>2. ASSUME v \in Vectors(P)
      PROVE  v = [n \in 1 .. 5 |-> v[n]] /\ \A n \in 1 .. 5 : v[n] \in [Indexes(n) -> Seq(P)]
    <2>1. PICK L : L = UNION {[Indexes(n) -> Seq(P)] : n \in 1 .. 5}
        OBVIOUS
    <2>2. v \in [1 .. 5 -> L] /\ \A n \in 1 .. 5 : v[n] \in [Indexes(n) -> Seq(P)]
        BY <1>2, <2>1 DEF Vectors
    <2>3. QED
        BY <2>2
<1>3. QED
    BY <1>1, <1>2

\* One list is replaced.
LEMMA ListReplaced ==
    ASSUME NEW P, NEW v \in Vectors(P), NEW a, NEW b, NEW s,
           a \in 1 .. 5 /\ b \in Indexes(a) => s \in Seq(P)
    PROVE  [v EXCEPT ![a][b] = s] \in Vectors(P)
<1>1. PICK r : r = [v EXCEPT ![a][b] = s]
    OBVIOUS
<1>2. v = [n \in 1 .. 5 |-> v[n]] /\ \A n \in 1 .. 5 : v[n] \in [Indexes(n) -> Seq(P)]
    BY VectorParts
<1>3. r = [n \in 1 .. 5 |-> IF n = a THEN [v[a] EXCEPT ![b] = s] ELSE v[n]]
    BY <1>1, <1>2
<1>4. ASSUME NEW n \in 1 .. 5 PROVE r[n] \in [Indexes(n) -> Seq(P)]
    <2>1. v[n] \in [Indexes(n) -> Seq(P)]
        BY <1>2
    <2>2. CASE n = a
        <3>1. r[n] = [v[n] EXCEPT ![b] = s]
            BY <1>3, <2>2
        <3>2. QED
            BY <2>1, <2>2, <3>1
    <2>3. CASE n # a
        BY <1>3, <2>1, <2>3
    <2>4. QED
        BY <2>2, <2>3
<1>5. r = [n \in 1 .. 5 |-> r[n]]
    BY <1>3
<1>6. QED
    BY <1>1, <1>4, <1>5, VectorParts

\* internal_add_timer appends the timer to some list.
LEMMA AddStays ==
    ASSUME NEW P, NEW v \in Vectors(P), NEW t \in P, NEW e
    PROVE  T!internal_add_timer(v, t, e) \in Vectors(P)
<1>1. PICK a, b : a = T!Slot(e)[1] /\ b = T!Slot(e)[2]
    OBVIOUS
<1>2. T!internal_add_timer(v, t, e) = [v EXCEPT ![a][b] = Append(v[a][b], t)]
    BY <1>1 DEF T!internal_add_timer
<1>3. ASSUME a \in 1 .. 5, b \in Indexes(a) PROVE Append(v[a][b], t) \in Seq(P)
    <2>1. v[a] \in [Indexes(a) -> Seq(P)]
        BY <1>3, VectorParts
    <2>2. v[a][b] \in Seq(P)
        BY <1>3, <2>1
    <2>3. QED
        BY <2>2, AppendProperties
<1>4. PICK s : s = Append(v[a][b], t)
    OBVIOUS
<1>5. a \in 1 .. 5 /\ b \in Indexes(a) => s \in Seq(P)
    BY <1>3, <1>4
<1>6. [v EXCEPT ![a][b] = s] \in Vectors(P)
    BY <1>5, ListReplaced, Zenon
<1>7. QED
    BY <1>2, <1>4, <1>6

\* One turn of the loop.
DelTurn(s, t, h, m) ==
    IF m = 0 THEN <<>> ELSE IF s[m] = t THEN h[m - 1] ELSE Append(h[m - 1], s[m])

\* list_del leaves the list without the timer.
LEMMA DelStays ==
    ASSUME NEW P, NEW s \in Seq(P), NEW t
    PROVE  T!list_del(s, t) \in Seq(P \ {t})
<1>1. PICK n, A : n = Len(s) /\ A = Seq(P \ {t})
    OBVIOUS
<1>2. n \in Nat /\ <<>> \in A /\ \A i \in 1 .. n : s[i] \in P
    BY <1>1
<1>3. ASSUME NEW i \in 1 .. n, NEW x \in A
      PROVE  (IF s[i] = t THEN x ELSE Append(x, s[i])) \in A
    <2>1. CASE s[i] = t
        BY <1>3, <2>1
    <2>2. CASE s[i] # t
        <3>1. s[i] \in P \ {t} /\ x \in Seq(P \ {t})
            BY <1>1, <1>2, <1>3, <2>2
        <3>2. Append(x, s[i]) \in Seq(P \ {t})
            BY <3>1, AppendProperties
        <3>3. QED
            BY <1>1, <2>2, <3>2
    <2>3. QED
        BY <2>1, <2>2
<1>4. PICK f : /\ f \in [0 .. n -> A] /\ f[0] = <<>>
               /\ \A i \in 1 .. n : f[i] = IF s[i] = t THEN f[i - 1] ELSE Append(f[i - 1], s[i])
    <2>1. PICK turn : turn = [i \in 1 .. n |-> [x \in A |-> IF s[i] = t THEN x ELSE Append(x, s[i])]]
        OBVIOUS
    <2>2. Loop(A, <<>>, n, turn)
        BY <1>2, <1>3, <2>1 DEF Loop
    <2>3. PICK f : CourseOf(A, <<>>, n, turn, f)
        BY ONLY <2>2, Iterate, Zenon
    <2>4. f \in [0 .. n -> A] /\ f[0] = <<>> /\ \A i \in 1 .. n : f[i] = turn[i][f[i - 1]]
        BY <2>3 DEF CourseOf
    <2>5. ASSUME NEW i \in 1 .. n
          PROVE  f[i] = IF s[i] = t THEN f[i - 1] ELSE Append(f[i - 1], s[i])
        <3>1. i - 1 \in 0 .. n
            BY <1>2
        <3>2. f[i - 1] \in A
            BY <2>4, <3>1
        <3>3. QED
            BY <2>1, <2>4, <3>2
    <2>6. QED
        BY <2>4, <2>5
<1>5. f = [i \in 0 .. n |-> DelTurn(s, t, f, i)]
    <2>1. ASSUME NEW i \in 0 .. n PROVE f[i] = DelTurn(s, t, f, i)
        <3>1. CASE i = 0
            BY <1>4, <3>1 DEF DelTurn
        <3>2. CASE i # 0
            <4>1. i \in 1 .. n
                BY <1>2, <3>2
            <4>2. QED
                BY <1>4, <3>2, <4>1 DEF DelTurn
        <3>3. QED
            BY <3>1, <3>2
    <2>2. QED
        BY <1>4, <2>1
<1>6. PICK g : g = [i \in 0 .. n |-> DelTurn(s, t, g, i)] /\ T!list_del(s, t) = g[n]
    <2> DEFINE G == CHOOSE h : h = [i \in 0 .. Len(s) |->
                        IF i = 0 THEN <<>>
                        ELSE IF s[i] = t THEN h[i - 1] ELSE Append(h[i - 1], s[i])]
    <2>1. T!list_del(s, t) = G[Len(s)]
        BY Zenon DEF T!list_del
    <2>2. \E h : h = [i \in 0 .. Len(s) |->
                        IF i = 0 THEN <<>>
                        ELSE IF s[i] = t THEN h[i - 1] ELSE Append(h[i - 1], s[i])]
        BY <1>1, <1>5, Zenon DEF DelTurn
    <2>3. G = [i \in 0 .. Len(s) |->
                        IF i = 0 THEN <<>>
                        ELSE IF s[i] = t THEN G[i - 1] ELSE Append(G[i - 1], s[i])]
        BY <2>2, Zenon
    <2> HIDE DEF G
    <2>4. QED
        BY <2>1, <2>3, <1>1, Zenon DEF DelTurn
<1>7. \A i \in 0 .. n : g[i] = DelTurn(s, t, g, i)
    BY <1>6, Zenon
<1>8. PICK S : S = {i \in 0 .. n : g[i] \in A}
    OBVIOUS
<1>9. 0 \in S
    BY <1>2, <1>7, <1>8 DEF DelTurn
<1>10. ASSUME NEW i \in 1 .. n, i - 1 \in S PROVE i \in S
    <2>1. i \in 0 .. n /\ i # 0 /\ g[i - 1] \in A
        BY <1>2, <1>8, <1>10
    <2>2. g[i] = IF s[i] = t THEN g[i - 1] ELSE Append(g[i - 1], s[i])
        BY <1>7, <2>1 DEF DelTurn
    <2>3. g[i] \in A
        BY <1>3, <2>1, <2>2
    <2>4. QED
        BY <1>8, <2>1, <2>3
<1>11. n \in S
    <2>1. n \in 0 .. n
        BY <1>2
    <2>2. QED
        BY <1>2, <1>9, <1>10, <2>1, TurnByTurn
<1>12. QED
    BY <1>1, <1>6, <1>8, <1>11

\* detach_timer leaves no list with the timer.
LEMMA DetachStays ==
    ASSUME NEW P, NEW v \in Vectors(P), NEW t
    PROVE  T!detach_timer(v, t) \in Vectors(P \ {t})
<1>1. PICK r : r = T!detach_timer(v, t)
    OBVIOUS
<1>2. r = [n \in 1 .. 5 |-> [i \in Indexes(n) |-> T!list_del(v[n][i], t)]]
    BY <1>1, Zenon DEF T!detach_timer, Indexes
<1>3. ASSUME NEW n \in 1 .. 5 PROVE r[n] \in [Indexes(n) -> Seq(P \ {t})]
    <2>1. v[n] \in [Indexes(n) -> Seq(P)]
        BY VectorParts
    <2>2. ASSUME NEW i \in Indexes(n) PROVE T!list_del(v[n][i], t) \in Seq(P \ {t})
        <3>1. v[n][i] \in Seq(P)
            BY <2>1
        <3>2. QED
            BY <3>1, DelStays, Zenon
    <2>3. r[n] = [i \in Indexes(n) |-> T!list_del(v[n][i], t)]
        BY <1>2
    <2>4. QED
        BY <2>2, <2>3
<1>4. r = [n \in 1 .. 5 |-> r[n]]
    BY <1>2
<1>5. QED
    BY <1>1, <1>3, <1>4, VectorParts

\* Lists with timers of P are lists with timers of a larger set.
LEMMA VectorsGrow == ASSUME NEW P, NEW Q, P \subseteq Q, NEW v \in Vectors(P) PROVE v \in Vectors(Q)
<1>1. v = [n \in 1 .. 5 |-> v[n]] /\ \A n \in 1 .. 5 : v[n] \in [Indexes(n) -> Seq(P)]
    BY VectorParts
<1>2. Seq(P) \subseteq Seq(Q)
    OBVIOUS
<1>3. \A n \in 1 .. 5 : v[n] \in [Indexes(n) -> Seq(Q)]
    BY <1>1, <1>2
<1>4. QED
    BY <1>1, <1>3, VectorParts

\* One turn of the loop.
AddTurn(v, s, h, m) ==
    IF m = 0 THEN v ELSE T!internal_add_timer(h[m - 1], s[m], expires[s[m]])

\* The timers of a list are added again, one by one.
LEMMA RequeueStays ==
    ASSUME NEW P, NEW v \in Vectors(P), NEW s \in Seq(P)
    PROVE  T!Requeue(v, s) \in Vectors(P)
<1>1. PICK n, A : n = Len(s) /\ A = Vectors(P)
    OBVIOUS
<1>2. n \in Nat /\ v \in A /\ \A i \in 1 .. n : s[i] \in P
    BY <1>1
<1>3. ASSUME NEW i \in 1 .. n, NEW x \in A
      PROVE  T!internal_add_timer(x, s[i], expires[s[i]]) \in A
    <2>1. PICK u, e : u = s[i] /\ e = expires[u]
        OBVIOUS
    <2>2. u \in P /\ x \in Vectors(P)
        BY <1>1, <1>2, <1>3, <2>1
    <2>3. T!internal_add_timer(x, u, e) \in Vectors(P)
        BY ONLY <2>2, AddStays, Zenon
    <2>4. QED
        BY <1>1, <2>1, <2>3
<1>4. PICK f : /\ f \in [0 .. n -> A] /\ f[0] = v
               /\ \A i \in 1 .. n : f[i] = T!internal_add_timer(f[i - 1], s[i], expires[s[i]])
    <2>1. PICK turn : turn = [i \in 1 .. n |-> [x \in A |->
             T!internal_add_timer(x, s[i], expires[s[i]])]]
        OBVIOUS
    <2>2. Loop(A, v, n, turn)
        BY <1>2, <1>3, <2>1 DEF Loop
    <2>3. PICK f : CourseOf(A, v, n, turn, f)
        BY ONLY <2>2, Iterate, Zenon
    <2>4. f \in [0 .. n -> A] /\ f[0] = v /\ \A i \in 1 .. n : f[i] = turn[i][f[i - 1]]
        BY <2>3 DEF CourseOf
    <2>5. ASSUME NEW i \in 1 .. n
          PROVE  f[i] = T!internal_add_timer(f[i - 1], s[i], expires[s[i]])
        <3>1. i - 1 \in 0 .. n
            BY <1>2
        <3>2. f[i - 1] \in A
            BY <2>4, <3>1
        <3>3. QED
            BY <2>1, <2>4, <3>2
    <2>6. QED
        BY <2>4, <2>5
<1>5. f = [i \in 0 .. n |-> AddTurn(v, s, f, i)]
    <2>1. ASSUME NEW i \in 0 .. n PROVE f[i] = AddTurn(v, s, f, i)
        <3>1. CASE i = 0
            BY <1>4, <3>1 DEF AddTurn
        <3>2. CASE i # 0
            <4>1. i \in 1 .. n
                BY <1>2, <3>2
            <4>2. QED
                BY <1>4, <3>2, <4>1 DEF AddTurn
        <3>3. QED
            BY <3>1, <3>2
    <2>2. QED
        BY <1>4, <2>1
<1>6. PICK g : g = [i \in 0 .. n |-> AddTurn(v, s, g, i)] /\ T!Requeue(v, s) = g[n]
    <2> DEFINE G == CHOOSE h : h = [i \in 0 .. Len(s) |->
                        IF i = 0 THEN v
                        ELSE T!internal_add_timer(h[i - 1], s[i], expires[s[i]])]
    <2>1. T!Requeue(v, s) = G[Len(s)]
        BY Zenon DEF T!Requeue
    <2>2. \E h : h = [i \in 0 .. Len(s) |->
                        IF i = 0 THEN v
                        ELSE T!internal_add_timer(h[i - 1], s[i], expires[s[i]])]
        BY <1>1, <1>5, Zenon DEF AddTurn
    <2>3. G = [i \in 0 .. Len(s) |->
                        IF i = 0 THEN v
                        ELSE T!internal_add_timer(G[i - 1], s[i], expires[s[i]])]
        BY <2>2, Zenon
    <2> HIDE DEF G
    <2>4. QED
        BY <2>1, <2>3, <1>1, Zenon DEF AddTurn
<1>7. \A i \in 0 .. n : g[i] = AddTurn(v, s, g, i)
    BY <1>6, Zenon
<1>8. PICK S : S = {i \in 0 .. n : g[i] \in A}
    OBVIOUS
<1>9. 0 \in S
    BY <1>2, <1>7, <1>8 DEF AddTurn
<1>10. ASSUME NEW i \in 1 .. n, i - 1 \in S PROVE i \in S
    <2>1. i \in 0 .. n /\ i # 0 /\ g[i - 1] \in A
        BY <1>2, <1>8, <1>10
    <2>2. g[i] = T!internal_add_timer(g[i - 1], s[i], expires[s[i]])
        BY <1>7, <2>1 DEF AddTurn
    <2>3. g[i] \in A
        BY <1>3, <2>1, <2>2
    <2>4. QED
        BY <1>8, <2>1, <2>3
<1>11. n \in S
    <2>1. n \in 0 .. n
        BY <1>2
    <2>2. QED
        BY <1>2, <1>9, <1>10, <2>1, TurnByTurn
<1>12. QED
    BY <1>1, <1>6, <1>8, <1>11

\* The index of every vector is one of its lists.
Indexed == index \in [1 .. 5 -> Nat] /\ \A n \in 1 .. 5 : index[n] \in Indexes(n)

\* cascade_timers adds what the list at index had and clears it.
LEMMA CascadeStays ==
    ASSUME NEW P, NEW v \in Vectors(P), NEW n \in 1 .. 5, Indexed
    PROVE  T!cascade_timers(v, n) \in Vectors(P)
<1>1. PICK i, s, r : i = index[n] /\ s = v[n][i] /\ r = T!Requeue(v, s)
    OBVIOUS
<1>2. s \in Seq(P)
    <2>1. v[n] \in [Indexes(n) -> Seq(P)]
        BY VectorParts
    <2>2. i \in Indexes(n)
        BY <1>1 DEF Indexed
    <2>3. QED
        BY <1>1, <2>1, <2>2
<1>3. r \in Vectors(P)
    BY <1>1, <1>2, RequeueStays, Zenon
<1>4. PICK e : e = <<>>
    OBVIOUS
<1>5. [r EXCEPT ![n][i] = e] \in Vectors(P)
    <2>1. e \in Seq(P)
        BY <1>4
    <2>2. QED
        BY <1>3, <2>1, ListReplaced, Zenon
<1>6. T!cascade_timers(v, n) = [r EXCEPT ![n][i] = <<>>]
    BY <1>1 DEF T!cascade_timers
<1>7. QED
    BY <1>4, <1>5, <1>6

\* One turn of the loop.
VectorTurn(h, n) ==
    IF n = 0 THEN tv
    ELSE IF n + 1 \in T!Cascaded THEN T!cascade_timers(h[n - 1], n + 1) ELSE h[n - 1]

\* The loop over the vectors puts no other timer into a list.
LEMMA AllStay ==
    ASSUME NEW P, tv \in Vectors(P), Indexed
    PROVE  T!Cascade \in Vectors(P)
<1>1. PICK A, C : A = Vectors(P) /\ C = T!Cascaded
    OBVIOUS
<1>2. \A i \in 1 .. 4 : i + 1 \in 1 .. 5 /\ i - 1 \in 0 .. 4 /\ i \in 0 .. 4 /\ i # 0
    OBVIOUS
<1>3. ASSUME NEW i \in 1 .. 4, NEW x \in A
      PROVE  (IF i + 1 \in C THEN T!cascade_timers(x, i + 1) ELSE x) \in A
    <2>1. PICK n : n = i + 1
        OBVIOUS
    <2>2. n \in 1 .. 5 /\ x \in Vectors(P)
        BY <1>1, <1>2, <2>1
    <2>3. T!cascade_timers(x, n) \in Vectors(P)
        BY <2>2, CascadeStays, Zenon
    <2>4. QED
        BY <1>1, <2>1, <2>3
<1>4. PICK f : /\ f \in [0 .. 4 -> A] /\ f[0] = tv
               /\ \A i \in 1 .. 4 :
                     f[i] = IF i + 1 \in C THEN T!cascade_timers(f[i - 1], i + 1) ELSE f[i - 1]
    <2>1. PICK turn : turn = [i \in 1 .. 4 |-> [x \in A |->
             IF i + 1 \in C THEN T!cascade_timers(x, i + 1) ELSE x]]
        OBVIOUS
    <2>2. Loop(A, tv, 4, turn)
        BY <1>1, <1>3, <2>1 DEF Loop
    <2>3. PICK f : CourseOf(A, tv, 4, turn, f)
        BY ONLY <2>2, Iterate, Zenon
    <2>4. f \in [0 .. 4 -> A] /\ f[0] = tv /\ \A i \in 1 .. 4 : f[i] = turn[i][f[i - 1]]
        BY <2>3 DEF CourseOf
    <2>5. ASSUME NEW i \in 1 .. 4
          PROVE  f[i] = IF i + 1 \in C THEN T!cascade_timers(f[i - 1], i + 1) ELSE f[i - 1]
        <3>1. f[i - 1] \in A
            BY <1>2, <2>4
        <3>2. QED
            BY <2>1, <2>4, <3>1
    <2>6. QED
        BY <2>4, <2>5
<1>5. f = [i \in 0 .. 4 |-> VectorTurn(f, i)]
    <2>1. ASSUME NEW i \in 0 .. 4 PROVE f[i] = VectorTurn(f, i)
        <3>1. CASE i = 0
            BY <1>4, <3>1 DEF VectorTurn
        <3>2. CASE i # 0
            <4>1. i \in 1 .. 4
                BY <3>2
            <4>2. QED
                BY <1>1, <1>4, <3>2, <4>1, Zenon DEF VectorTurn
        <3>3. QED
            BY <3>1, <3>2
    <2>2. QED
        BY <1>4, <2>1
<1>6. PICK g : g = [i \in 0 .. 4 |-> VectorTurn(g, i)] /\ T!Cascade = g[4]
    <2> DEFINE G == CHOOSE h : h = [n \in 0 .. 4 |->
                        IF n = 0 THEN tv
                        ELSE IF n + 1 \in T!Cascaded THEN T!cascade_timers(h[n - 1], n + 1)
                        ELSE h[n - 1]]
    <2>1. T!Cascade = G[4]
        BY Zenon DEF T!Cascade
    <2>2. \E h : h = [n \in 0 .. 4 |->
                        IF n = 0 THEN tv
                        ELSE IF n + 1 \in T!Cascaded THEN T!cascade_timers(h[n - 1], n + 1)
                        ELSE h[n - 1]]
        BY <1>5, Zenon DEF VectorTurn
    <2>3. G = [n \in 0 .. 4 |->
                        IF n = 0 THEN tv
                        ELSE IF n + 1 \in T!Cascaded THEN T!cascade_timers(G[n - 1], n + 1)
                        ELSE G[n - 1]]
        BY <2>2, Zenon
    <2> HIDE DEF G
    <2>4. QED
        BY <2>1, <2>3, Zenon DEF VectorTurn
<1>7. \A i \in 0 .. 4 : g[i] = VectorTurn(g, i)
    BY <1>6, Zenon
<1>8. PICK S : S = {i \in 0 .. 4 : g[i] \in A}
    OBVIOUS
<1>9. 0 \in S
    BY <1>1, <1>7, <1>8 DEF VectorTurn
<1>10. ASSUME NEW i \in 1 .. 4, i - 1 \in S PROVE i \in S
    <2>1. g[i - 1] \in A
        BY <1>8, <1>10
    <2>2. g[i] = IF i + 1 \in C THEN T!cascade_timers(g[i - 1], i + 1) ELSE g[i - 1]
        BY <1>1, <1>2, <1>7, Zenon DEF VectorTurn
    <2>3. g[i] \in A
        BY <1>3, <2>1, <2>2
    <2>4. QED
        BY <1>2, <1>8, <2>3
<1>11. \A i \in 0 .. 4 : i \in S
    BY <1>9, <1>10, TurnByTurn
<1>12. QED
    BY <1>1, <1>6, <1>8, <1>11

\* Only timers del_timer_sync is not done with are in the lists, and none of the others
\* runs: running_timer is the timer whose function is called.
Listed == tv \in Vectors(Timers \ deleted)
TimerInv ==
    /\ Listed /\ Indexed
    /\ deleted \subseteq Timers /\ fn \notin deleted /\ running = fn
    /\ spc \in [Syncers -> {"idle", "spin", "lock"}] /\ st \in [Syncers -> Timers \cup {NULL}]
    /\ \A p \in Syncers : spc[p] # "idle" => st[p] \in Timers

\* The vectors are as many and as long after a step.
LEMMA Relisted == ASSUME tv' \in Vectors(Timers \ deleted') PROVE Listed'
    BY DEF Listed, Vectors, Indexes, T!Size

\* A timer in a list is one the lists may have.
LEMMA PendingIn ==
    ASSUME NEW P, tv \in Vectors(P), NEW t, T!timer_pending(t)
    PROVE  t \in P
<1>0. PICK n \in 1 .. 5 : \E i \in Indexes(n) : t \in T!ToSet(tv[n][i])
    BY Zenon DEF T!timer_pending, Indexes
<1>1. PICK i \in Indexes(n) : t \in T!ToSet(tv[n][i])
    BY <1>0
<1>2. tv[n][i] \in Seq(P)
    <2>1. tv[n] \in [Indexes(n) -> Seq(P)]
        BY VectorParts
    <2>2. QED
        BY <2>1
<1>3. QED
    BY <1>1, <1>2 DEF T!ToSet

\* An index after its increment.
LEMMA NextIndex ==
    ASSUME T!TimerAssumption, NEW n \in 1 .. 5, NEW i \in Indexes(n)
    PROVE  (i + 1) % T!Size(n) \in Indexes(n) /\ i \in Nat
<1>1. PICK k : k = T!Size(n)
    OBVIOUS
<1>2. k \in Nat \ {0} /\ i \in 0 .. k - 1
    BY <1>1 DEF T!TimerAssumption, Indexes
<1>3. (i + 1) % k \in 0 .. k - 1 /\ i \in Nat
    BY ONLY <1>2, SMT
<1>4. QED
    BY <1>1, <1>3 DEF Indexes

\* At boot all lists are empty.
LEMMA TimerInit == ASSUME T!TimerAssumption PROVE T!Init => TimerInv
<1>1. SUFFICES ASSUME T!Init PROVE TimerInv
    OBVIOUS
<1>2. \A n \in 1 .. 5 : 0 \in Indexes(n)
    BY DEF T!TimerAssumption, Indexes
<1>3. tv = [n \in 1 .. 5 |-> [i \in Indexes(n) |-> <<>>]]
    BY <1>1, Zenon DEF T!Init, Indexes
<1>4. tv \in Vectors(Timers \ deleted)
    <2>1. \A n \in 1 .. 5 : tv[n] \in [Indexes(n) -> Seq(Timers \ deleted)]
        BY <1>3
    <2>2. tv = [n \in 1 .. 5 |-> tv[n]]
        BY <1>3
    <2>3. QED
        BY <2>1, <2>2, VectorParts
<1>5. Indexed
    BY <1>1, <1>2 DEF T!Init, Indexed
<1>6. deleted = {} /\ running = fn /\ spc = [p \in Syncers |-> "idle"] /\ st = [p \in Syncers |-> NULL]
    BY <1>1 DEF T!Init
<1>7. QED
    BY <1>4, <1>5, <1>6 DEF TimerInv, Listed

\* A timer is added to a list by add_timer or mod_timer.
LEMMA QueueInv ==
    ASSUME TimerInv, NEW t \in Timers, NEW v \in Vectors(Timers \ deleted), NEW e, T!Queue(v, t, e)
    PROVE  TimerInv'
<1>1. Timers \ deleted' = (Timers \ deleted) \cup {t} /\ deleted' = deleted \ {t}
    BY DEF T!Queue
<1>2. PICK Q : Q = Timers \ deleted'
    OBVIOUS
<1>3. v \in Vectors(Q) /\ t \in Q
    BY <1>1, <1>2, VectorsGrow
<1>4. tv' \in Vectors(Q)
    BY <1>3, AddStays DEF T!Queue
<1>5. UNCHANGED <<index, running, fn, spc, st>>
    BY DEF T!Queue, T!runVars, T!syncVars
<1>6. Indexed'
    BY <1>5 DEF TimerInv, Indexed, Indexes, T!Size
<1>7. QED
    <2>1. Listed'
        BY <1>2, <1>4, Relisted
    <2>2. QED
        BY <1>1, <1>5, <1>6, <2>1 DEF TimerInv

\* del_timer, and del_timer_sync under the lock.
LEMMA DetachInv ==
    ASSUME TimerInv, NEW p \in Syncers, NEW t \in Timers, T!Detach(p, t)
    PROVE  TimerInv'
<1>1. PICK Q : Q = (Timers \ deleted) \ {t}
    OBVIOUS
<1>2. tv' \in Vectors(Q)
    BY <1>1, DetachStays DEF T!Detach, TimerInv, Listed
<1>3. Q \subseteq Timers \ deleted' /\ deleted' \subseteq Timers /\ fn \notin deleted'
    BY <1>1 DEF T!Detach, TimerInv
<1>4. tv' \in Vectors(Timers \ deleted')
    BY <1>2, <1>3, VectorsGrow
<1>5. UNCHANGED <<index, running, fn>>
    BY DEF T!Detach, T!runVars
<1>6. Indexed'
    BY <1>5 DEF TimerInv, Indexed, Indexes, T!Size
<1>7. /\ spc' \in [Syncers -> {"idle", "spin", "lock"}] /\ st' \in [Syncers -> Timers \cup {NULL}]
      /\ \A q \in Syncers : spc'[q] # "idle" => st'[q] \in Timers
    BY DEF T!Detach, TimerInv
<1>8. QED
    <2>1. Listed'
        BY <1>4, Relisted
    <2>2. QED
        BY <1>3, <1>5, <1>6, <1>7, <2>1 DEF TimerInv

\* A step that only moves timers between lists, or takes them out.
LEMMA ListsInv ==
    ASSUME TimerInv, tv' \in Vectors(Timers \ deleted), Indexed',
           UNCHANGED <<running, fn, spc, st, deleted>>
    PROVE  TimerInv'
<1>1. Listed'
    BY Relisted
<1>2. QED
    BY <1>1 DEF TimerInv

\* Each action keeps the invariant.
LEMMA TimerNext == ASSUME T!TimerAssumption, TimerInv, [T!Next]_(T!vars) PROVE TimerInv'
<1> DEFINE P == Timers \ deleted
<1>0. tv \in Vectors(P) /\ Indexed /\ spc \in [Syncers -> {"idle", "spin", "lock"}]
    BY DEF TimerInv, Listed
<1>1. ASSUME NEW t PROVE T!detach_timer(tv, t) \in Vectors(P)
    <2>1. T!detach_timer(tv, t) \in Vectors(P \ {t})
        BY <1>0, DetachStays
    <2>2. QED
        BY <2>1, VectorsGrow
<1>2. ASSUME UNCHANGED index PROVE Indexed'
    BY <1>0, <1>2 DEF Indexed, Indexes, T!Size
<1>3. ASSUME UNCHANGED <<tv, index, running, fn, spc, st, deleted>> PROVE TimerInv'
    BY <1>0, <1>2, <1>3, ListsInv
<1>4. ASSUME NEW t \in Timers, NEW d \in Delays, T!AddTimer(t, d) \/ T!ModTimer(t, d) PROVE TimerInv'
    <2>1. PICK e : T!Queue(tv, t, e) \/ T!Queue(T!detach_timer(tv, t), t, e)
        BY <1>4 DEF T!AddTimer, T!ModTimer
    <2>2. QED
        BY <1>0, <1>1, <2>1, QueueInv
<1>5. ASSUME NEW t \in Timers, T!DelTimer(t) PROVE TimerInv'
    BY <1>1, <1>2, <1>5, ListsInv DEF T!DelTimer, T!runVars, T!syncVars
<1>6. ASSUME NEW p \in Syncers, NEW t \in Timers, T!DelTimerSync(p, t) PROVE TimerInv'
    BY <1>6, DetachInv DEF T!DelTimerSync
<1>7. ASSUME NEW p \in Syncers, T!SyncAgain(p) PROVE TimerInv'
    <2>1. st[p] \in Timers
        BY <1>7 DEF T!SyncAgain, TimerInv
    <2>2. QED
        BY <1>7, <2>1, DetachInv DEF T!SyncAgain
<1>8. ASSUME NEW p \in Syncers, T!Synchronize(p) PROVE TimerInv'
    <2>1. UNCHANGED <<tv, index, running, fn, st, deleted>>
        BY <1>8 DEF T!Synchronize, T!runVars
    <2>2. spc[p] # "idle" /\ spc' = [spc EXCEPT ![p] = "lock"]
        BY <1>8 DEF T!Synchronize
    <2>3. QED
        BY <1>0, <1>2, <2>1, <2>2, Relisted DEF TimerInv
<1>9. ASSUME T!Tick \/ T!RunBegin \/ T!RunEnd PROVE TimerInv'
    BY <1>3, <1>9 DEF T!Tick, T!RunBegin, T!RunEnd, T!runVars, T!syncVars
<1>10. ASSUME T!RunCascade PROVE TimerInv'
    <2>1. UNCHANGED <<running, fn, spc, st, deleted>>
        BY <1>10 DEF T!RunCascade, T!syncVars
    <2>2. CASE UNCHANGED <<tv, index>>
        BY <1>3, <2>1, <2>2
    <2>3. CASE tv' = T!Cascade /\ index' = [n \in 1 .. 5 |->
               IF n \in T!Cascaded THEN (index[n] + 1) % T!Size(n) ELSE index[n]]
        <3>1. tv' \in Vectors(P)
            BY <1>0, <2>3, AllStay
        <3>2. ASSUME NEW n \in 1 .. 5 PROVE index'[n] \in Indexes(n) /\ index'[n] \in Nat
            <4>1. PICK i : i = index[n]
                OBVIOUS
            <4>2. i \in Indexes(n)
                BY <1>0, <4>1 DEF Indexed
            <4>3. (i + 1) % T!Size(n) \in Indexes(n) /\ i \in Nat
                BY <4>2, NextIndex
            <4>4. index'[n] = (i + 1) % T!Size(n) \/ index'[n] = i
                BY <2>3, <4>1
            <4>5. \A x \in Indexes(n) : x \in Nat
                BY NextIndex
            <4>6. QED
                BY <4>2, <4>3, <4>4, <4>5
        <3>3. Indexed'
            BY <2>3, <3>2 DEF Indexed, Indexes, T!Size
        <3>4. QED
            BY <2>1, <3>1, <3>3, ListsInv
    <2>4. QED
        BY <1>10, <2>2, <2>3 DEF T!RunCascade
<1>11. ASSUME NEW t \in Timers, T!RunTimer(t) PROVE TimerInv'
    <2>1. UNCHANGED <<index, spc, st, deleted>> /\ tv' = T!detach_timer(tv, t) /\ running' = t /\ fn' = t
        BY <1>11 DEF T!RunTimer, T!syncVars
    <2>2. t \in P
        <3>1. PICK s : s = tv[1][index[1]]
            OBVIOUS
        <3>2. index[1] \in Indexes(1)
            BY <1>0 DEF Indexed
        <3>3. tv[1] \in [Indexes(1) -> Seq(P)]
            BY <1>0, VectorParts
        <3>4. s \in Seq(P)
            BY <3>1, <3>2, <3>3
        <3>5. s # <<>> /\ t = Head(s)
            BY <1>11, <3>1 DEF T!RunTimer
        <3>6. QED
            BY <3>4, <3>5
    <2>3. QED
        BY <1>1, <1>2, <2>1, <2>2, Relisted DEF TimerInv
<1>12. ASSUME T!RunReturn PROVE TimerInv'
    <2>1. UNCHANGED <<tv, index, spc, st, deleted>> /\ running' = NULL /\ fn' = NULL
        BY <1>12 DEF T!RunReturn, T!syncVars
    <2>2. NULL \notin deleted
        BY DEF TimerInv, T!TimerAssumption
    <2>3. QED
        BY <1>0, <1>2, <2>1, <2>2, Relisted DEF TimerInv
<1>13. ASSUME T!RunNext PROVE TimerInv'
    <2>1. /\ UNCHANGED <<tv, running, fn, spc, st, deleted>>
          /\ index' = [index EXCEPT ![1] = (@ + 1) % T!Size(1)]
        BY <1>13 DEF T!RunNext, T!syncVars
    <2>2. index[1] \in Indexes(1)
        BY <1>0 DEF Indexed
    <2>3. PICK j : j = (index[1] + 1) % T!Size(1)
        OBVIOUS
    <2>4. j \in Indexes(1)
        BY <2>2, <2>3, NextIndex
    <2>5. j \in Nat
        BY <2>4, NextIndex
    <2>6. index' = [index EXCEPT ![1] = j]
        BY <2>1, <2>3
    <2>7. Indexed'
        BY <1>0, <2>4, <2>5, <2>6 DEF Indexed, Indexes, T!Size
    <2>8. QED
        BY <1>0, <2>1, <2>7, ListsInv
<1>14. CASE UNCHANGED T!vars
    BY <1>3, <1>14 DEF T!vars, T!runVars, T!syncVars
<1>15. QED
    BY <1>4, <1>5, <1>6, <1>7, <1>8, <1>9, <1>10, <1>11, <1>12, <1>13, <1>14 DEF T!Next, T!Run

\* After del_timer_sync (kernel/timer.c) the timer is neither queued nor running on any
\* processor, until it is added again, whatever run_timer_list and handlers do meanwhile.
THEOREM DeletedQuiesced == ASSUME T!TimerAssumption PROVE T!Spec => []T!DelSyncQuiesces
<1>1. T!Init => TimerInv
    BY TimerInit
<1>2. TimerInv /\ [T!Next]_(T!vars) => TimerInv'
    BY TimerNext
<1>3. TimerInv => T!DelSyncQuiesces
    <2>1. SUFFICES ASSUME TimerInv, NEW t \in deleted PROVE ~T!timer_pending(t) /\ fn # t
        BY DEF T!DelSyncQuiesces
    <2>2. tv \in Vectors(Timers \ deleted) /\ fn \notin deleted
        BY <2>1 DEF TimerInv, Listed
    <2>3. QED
        BY <2>1, <2>2, PendingIn
<1>4. QED
    BY <1>1, <1>2, <1>3, PTL DEF T!Spec
=============================================================================
