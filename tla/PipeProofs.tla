----------------------------- MODULE PipeProofs -----------------------------
(***************************************************************************)
(* Pipes and fifos: the counts of ends and of waiting processes are exact, *)
(* and nobody sleeps past what it waits for, for every set of processes,   *)
(* every size of the buffer and every length read or written.              *)
(*                                                                         *)
(* The wait queue holds exactly the processes that have not returned, each *)
(* once, so a wake-up reaches every sleeper. What is left to show is that  *)
(* a step that wakes nobody takes nobody's reason to sleep away: for open, *)
(* because an end is opened without a wake-up only if it was open already, *)
(* and then nobody waits for it any more.                                  *)
(***************************************************************************)
EXTENDS Pipe, FiniteSetTheorems, SequenceTheorems, TLAPS

Places == {"idle", "open", "read", "write", "write_more", "lookup", "dead"}
Entries == [task : Procs, exclusive : {FALSE}]

Types ==
    /\ pipe \in Pipes \cup {NULL}
    /\ wait \in Seq(Entries)
    /\ file \in [Procs -> Files \cup {NULL}]
    /\ pc \in [Procs -> Places]
    /\ state \in [Procs -> {TASK_RUNNING, TASK_INTERRUPTIBLE}]
    /\ sig \in SUBSET Procs
    /\ count \in [Procs -> Nat]
    /\ cur \in [Procs -> Int]
    /\ moved \in BOOLEAN

\* p has an entry on q; every task has at most one.
OnQueue(q, p) == \E i \in DOMAIN q : q[i].task = p
NoRepeats(q) == \A i, j \in DOMAIN q : q[i].task = q[j].task => i = j

\* The queue holds who has not returned, and only those sleep.
Queued ==
    /\ NoRepeats(wait)
    /\ \A p \in Procs : OnQueue(wait, p) <=> pc[p] \in Sleeps
    /\ \A p \in Procs : state[p] = TASK_INTERRUPTIBLE => pc[p] \in Sleeps

\* A process in a call has the end the call needs, and whoever has a file has the pipe.
BackedAt(p) ==
    /\ file[p] # NULL => pipe # NULL
    /\ pc[p] \in Sleeps => file[p] # NULL
    /\ pc[p] \in {"lookup", "dead"} => file[p] = NULL
    /\ pc[p] = "lookup" /\ pipe # NULL => ~pipe.fifo
    /\ pc[p] = "open" => file[p].ends \in {{"r"}, {"w"}}
    /\ pc[p] = "read" => "r" \in file[p].ends
    /\ pc[p] \in {"write", "write_more"} => "w" \in file[p].ends
Backed == \A p \in Procs : BackedAt(p)

Waiting(places) == {p \in Procs : pc[p] \in places}

\* The counts of pi are those of the processes.
CountedBy(pi) ==
    /\ pi.readers = Cardinality(Holders("r"))
    /\ pi.writers = Cardinality(Holders("w"))
    /\ pi.waiting_readers = Cardinality(Waiting({"read"}))
    /\ pi.waiting_writers = Cardinality(Waiting({"write", "write_more"}))

Counted ==
    pipe # NULL => CountedBy(pipe) /\ (pipe.readers # 0 \/ pipe.writers # 0)

\* How many have the end open that p waits for in open.
Others(p) == IF file[p].ends = {"r"} THEN pipe.writers ELSE pipe.readers

\* As long as the counter has not moved, nobody has the other end open.
OpenAt(p) ==
    pc[p] = "open" =>
        /\ pipe.fifo
        /\ cur[p] <= Partner(p)
        /\ cur[p] = Partner(p) => Others(p) = 0
Opens == \A p \in Procs : OpenAt(p)

\* Why p sleeps. A failed copy is no excuse for open.
ReasonAt(p) ==
    state[p] = TASK_INTERRUPTIBLE => HasReason(p) \/ (moved /\ pc[p] # "open")
Reasons == \A p \in Procs : ReasonAt(p)

Inv == Types /\ Queued /\ Backed /\ Counted /\ Opens /\ Reasons
-----------------------------------------------------------------------------
(* Sets of processes.                                                      *)

LEMMA ProcsFinite ==
    ASSUME NEW S \in SUBSET Procs
    PROVE  IsFiniteSet(S) /\ Cardinality(S) \in Nat
BY PipeAssumption, FS_Subset, FS_CardinalityType

One(b) == IF b THEN 1 ELSE 0

\* A set that only p can enter or leave.
LEMMA CountChange ==
    ASSUME NEW S \in SUBSET Procs, NEW T \in SUBSET Procs, NEW p \in Procs,
           \A q \in Procs \ {p} : q \in T <=> q \in S
    PROVE  Cardinality(T) = Cardinality(S) - One(p \in S) + One(p \in T)
<1>0. IsFiniteSet(S) /\ Cardinality(S) \in Nat
    BY ProcsFinite
<1>1. CASE p \in S /\ p \notin T
    <2>1. T = S \ {p}
        BY <1>1
    <2>2. QED
        BY <1>0, <1>1, <2>1, FS_RemoveElement DEF One
<1>2. CASE p \notin S /\ p \in T
    <2>1. T = S \cup {p}
        BY <1>2
    <2>2. Cardinality(T) = Cardinality(S) + 1
        BY <1>0, <1>2, <2>1, FS_AddElement
    <2>3. QED
        BY <1>0, <1>2, <2>2 DEF One
<1>3. CASE p \in S <=> p \in T
    <2>1. T = S
        BY <1>3
    <2>2. QED
        BY <1>0, <1>3, <2>1 DEF One
<1>4. QED
    BY <1>1, <1>2, <1>3

LEMMA EmptySet ==
    ASSUME NEW S \in SUBSET Procs, Cardinality(S) = 0
    PROVE  S = {}
BY ProcsFinite, FS_EmptySet

-----------------------------------------------------------------------------
(* The wait queue.                                                         *)

LEMMA RemoveEffect ==
    ASSUME NEW q \in Seq(Entries), NoRepeats(q), NEW p \in Procs, OnQueue(q, p)
    PROVE  LET r == remove_wait_queue(q, p)
           IN  /\ r \in Seq(Entries) /\ NoRepeats(r) /\ ~OnQueue(r, p)
               /\ \A u \in Procs : u # p => (OnQueue(r, u) <=> OnQueue(q, u))
<1> DEFINE at == CHOOSE i \in DOMAIN q : q[i].task = p
           r == [j \in 1 .. Len(q) - 1 |-> IF j < at THEN q[j] ELSE q[j + 1]]
<1>1. at \in 1 .. Len(q) /\ q[at].task = p
    BY DEF OnQueue
<1>2. remove_wait_queue(q, p) = r
    BY DEF remove_wait_queue
<1> HIDE DEF at
<1>3. Len(q) - 1 \in Nat /\ Len(q) \in Nat
    BY <1>1
<1>4. \A j \in 1 .. Len(q) : q[j] \in Entries
    OBVIOUS
<1>5. r \in Seq(Entries)
    BY <1>1, <1>3, <1>4, IsASeq
<1>6. DOMAIN r = 1 .. Len(q) - 1 /\ DOMAIN q = 1 .. Len(q)
    BY <1>3
<1>7. NoRepeats(r)
    BY <1>1, <1>3, <1>6 DEF NoRepeats
<1>8. ~OnQueue(r, p)
    BY <1>1, <1>3, <1>6 DEF NoRepeats, OnQueue
<1>9. ASSUME NEW u \in Procs, u # p PROVE OnQueue(r, u) <=> OnQueue(q, u)
    <2>1. ASSUME OnQueue(r, u) PROVE OnQueue(q, u)
        BY <1>1, <1>3, <1>6, <2>1 DEF OnQueue
    <2>2. ASSUME OnQueue(q, u) PROVE OnQueue(r, u)
        <3>1. PICK i \in 1 .. Len(q) : q[i].task = u
            BY <1>6, <2>2 DEF OnQueue
        <3>2. CASE i < at
            <4>1. i \in DOMAIN r /\ r[i] = q[i]
                BY <1>1, <1>6, <3>2
            <4>2. QED
                BY <3>1, <4>1 DEF OnQueue
        <3>3. CASE i > at
            <4>1. i - 1 \in DOMAIN r /\ r[i - 1] = q[i]
                BY <1>1, <1>6, <3>3
            <4>2. QED
                BY <3>1, <4>1 DEF OnQueue
        <3>4. QED
            BY <1>1, <1>9, <3>1, <3>2, <3>3
    <2>3. QED
        BY <2>1, <2>2
<1>10. QED
    BY <1>2, <1>5, <1>7, <1>8, <1>9

LEMMA UnqueuedEffect ==
    ASSUME Types, Queued, NEW p \in Procs
    PROVE  /\ Unqueued(p) \in Seq(Entries) /\ NoRepeats(Unqueued(p))
           /\ ~OnQueue(Unqueued(p), p)
           /\ \A u \in Procs : u # p => (OnQueue(Unqueued(p), u) <=> OnQueue(wait, u))
<1>1. CASE pc[p] \notin Sleeps
    BY <1>1 DEF Types, Queued, Unqueued
<1>2. CASE pc[p] \in Sleeps
    <2>1. OnQueue(wait, p) /\ NoRepeats(wait) /\ wait \in Seq(Entries)
        BY <1>2 DEF Queued, Types
    <2>2. QED
        BY <1>2, <2>1, RemoveEffect DEF Unqueued
<1>3. QED
    BY <1>1, <1>2

LEMMA AddEffect ==
    ASSUME NEW q \in Seq(Entries), NoRepeats(q), NEW p \in Procs, ~OnQueue(q, p)
    PROVE  LET r == add_wait_queue(q, p)
           IN  /\ r \in Seq(Entries) /\ NoRepeats(r) /\ OnQueue(r, p)
               /\ \A u \in Procs : u # p => (OnQueue(r, u) <=> OnQueue(q, u))
<1> DEFINE e == [task |-> p, exclusive |-> FALSE]
           r == <<e>> \o q
<1>0. add_wait_queue(q, p) = r
    BY DEF add_wait_queue
<1>1. e \in Entries /\ e.task = p
    BY DEF Entries
<1> HIDE DEF e
<1>2. <<e>> \in Seq(Entries) /\ Len(<<e>>) = 1 /\ <<e>>[1] = e
    BY <1>1
<1>3. /\ r \in Seq(Entries) /\ Len(r) = Len(q) + 1
      /\ r[1] = e
      /\ \A i \in 1 .. Len(q) : r[i + 1] = q[i]
    BY <1>2
<1>4. DOMAIN r = 1 .. Len(q) + 1 /\ DOMAIN q = 1 .. Len(q) /\ Len(q) \in Nat
    BY <1>3
<1> HIDE DEF r
<1>5. OnQueue(r, p)
    BY <1>1, <1>3, <1>4 DEF OnQueue
<1>6. \A i \in 2 .. Len(q) + 1 : i - 1 \in 1 .. Len(q) /\ r[i] = q[i - 1]
    BY <1>3, <1>4
<1>7. NoRepeats(r)
    <2> SUFFICES ASSUME NEW i \in DOMAIN r, NEW j \in DOMAIN r, r[i].task = r[j].task
                 PROVE  i = j
        BY DEF NoRepeats
    <2>0. \A k \in 1 .. Len(q) : q[k].task # p
        BY <1>4 DEF OnQueue
    <2>1. CASE i # 1 /\ j # 1
        <3>1. i \in 2 .. Len(q) + 1 /\ j \in 2 .. Len(q) + 1
            BY <1>4, <2>1
        <3>2. q[i - 1].task = q[j - 1].task /\ i - 1 \in DOMAIN q /\ j - 1 \in DOMAIN q
            BY <1>4, <1>6, <3>1
        <3>3. i - 1 = j - 1
            BY <3>2 DEF NoRepeats
        <3>4. QED
            BY <3>1, <3>3
    <2>2. CASE i = 1 /\ j # 1
        <3>1. j \in 2 .. Len(q) + 1
            BY <1>4, <2>2
        <3>2. q[j - 1].task = p /\ j - 1 \in 1 .. Len(q)
            BY <1>1, <1>3, <1>6, <2>2, <3>1
        <3>3. QED
            BY <2>0, <3>2
    <2>3. CASE i # 1 /\ j = 1
        <3>1. i \in 2 .. Len(q) + 1
            BY <1>4, <2>3
        <3>2. q[i - 1].task = p /\ i - 1 \in 1 .. Len(q)
            BY <1>1, <1>3, <1>6, <2>3, <3>1
        <3>3. QED
            BY <2>0, <3>2
    <2>4. QED
        BY <2>1, <2>2, <2>3
<1>8. ASSUME NEW u \in Procs, u # p PROVE OnQueue(r, u) <=> OnQueue(q, u)
    <2>1. ASSUME OnQueue(r, u) PROVE OnQueue(q, u)
        BY <1>1, <1>3, <1>4, <1>6, <1>8, <2>1 DEF OnQueue
    <2>2. ASSUME OnQueue(q, u) PROVE OnQueue(r, u)
        <3>1. PICK i \in 1 .. Len(q) : q[i].task = u
            BY <1>4, <2>2 DEF OnQueue
        <3>2. i + 1 \in DOMAIN r /\ r[i + 1].task = u
            BY <1>3, <1>4, <3>1
        <3>3. QED
            BY <3>2 DEF OnQueue
    <2>3. QED
        BY <2>1, <2>2
<1>9. QED
    BY <1>0, <1>3, <1>5, <1>7, <1>8

\* A wake-up reaches everyone who sleeps.
LEMMA WokenEffect ==
    ASSUME Types, Queued, NEW wake \in BOOLEAN
    PROVE  /\ Woken(wake) \in [Procs -> {TASK_RUNNING, TASK_INTERRUPTIBLE}]
           /\ \A q \in Procs : Woken(wake)[q] = TASK_INTERRUPTIBLE
                                   => ~wake /\ state[q] = TASK_INTERRUPTIBLE
<1>1. CASE ~wake
    BY <1>1 DEF Types, Woken
<1>2. CASE wake
    <2> DEFINE W == Wakes(wait, state, {TASK_INTERRUPTIBLE})
    <2>1. \A i \in DOMAIN wait : wait[i].exclusive = FALSE
        <3>1. \A i \in DOMAIN wait : wait[i] \in Entries
            BY ElementOfSeq DEF Types
        <3>2. QED
            BY <3>1 DEF Entries
    <2>2. W = {wait[i].task : i \in {i \in DOMAIN wait :
                                      state[wait[i].task] \in {TASK_INTERRUPTIBLE}}}
        BY <2>1 DEF Wakes
    <2>3. ASSUME NEW q \in Procs, state[q] = TASK_INTERRUPTIBLE PROVE q \in W
        <3>1. PICK i \in DOMAIN wait : wait[i].task = q
            BY <2>3 DEF Queued, OnQueue
        <3>2. QED
            BY <2>2, <2>3, <3>1
    <2>4. Woken(wake) = [q \in Procs |-> IF q \in W THEN TASK_RUNNING ELSE state[q]]
        BY <1>2 DEF Woken, wake_up_interruptible, WakeUp, Types
    <2> HIDE DEF W
    <2>5. TASK_RUNNING # TASK_INTERRUPTIBLE
        BY DEF TASK_RUNNING, TASK_INTERRUPTIBLE
    <2>6. QED
        BY <2>3, <2>4, <2>5 DEF Types
<1>3. QED
    BY <1>1, <1>2
-----------------------------------------------------------------------------
(* How an action ends, for the queue and for the processes other than p.   *)

Ended(p, wake) ==
    /\ wait' \in Seq(Entries)
    /\ pc' \in [Procs -> Places]
    /\ state' \in [Procs -> {TASK_RUNNING, TASK_INTERRUPTIBLE}]
    /\ sig' \in SUBSET Procs
    /\ count' \in [Procs -> Nat]
    /\ cur' \in [Procs -> Int]
    /\ moved' \in BOOLEAN
    /\ Queued'
    /\ \A q \in Procs \ {p} : pc'[q] = pc[q] /\ count'[q] = count[q] /\ cur'[q] = cur[q]
    /\ \A q \in Procs \ {p} : state'[q] = TASK_INTERRUPTIBLE
                                  => ~wake /\ state[q] = TASK_INTERRUPTIBLE
    /\ moved /\ ~wake => moved'

LEMMA WaitEnds ==
    ASSUME Types, Queued, NEW p \in Procs, NEW where \in Sleeps, NEW left \in Nat,
           NEW seen \in Int, NEW wake \in BOOLEAN, pipe_wait(p, where, left, seen, wake)
    PROVE  /\ Ended(p, wake)
           /\ pc'[p] = where /\ count'[p] = left /\ cur'[p] = seen
           /\ moved' = (moved /\ ~wake)
<1>1. /\ Unqueued(p) \in Seq(Entries) /\ NoRepeats(Unqueued(p))
      /\ ~OnQueue(Unqueued(p), p)
      /\ \A u \in Procs : u # p => (OnQueue(Unqueued(p), u) <=> OnQueue(wait, u))
    BY UnqueuedEffect
<1>2. wait' = add_wait_queue(Unqueued(p), p)
    BY DEF pipe_wait
<1>3. /\ wait' \in Seq(Entries) /\ NoRepeats(wait') /\ OnQueue(wait', p)
      /\ \A u \in Procs : u # p => (OnQueue(wait', u) <=> OnQueue(wait, u))
    BY <1>1, <1>2, AddEffect
<1>4. /\ Woken(wake) \in [Procs -> {TASK_RUNNING, TASK_INTERRUPTIBLE}]
      /\ \A q \in Procs : Woken(wake)[q] = TASK_INTERRUPTIBLE
                              => ~wake /\ state[q] = TASK_INTERRUPTIBLE
    BY WokenEffect
<1>5. /\ state' \in [Procs -> {TASK_RUNNING, TASK_INTERRUPTIBLE}]
      /\ \A q \in Procs \ {p} : state'[q] = Woken(wake)[q]
    BY <1>4 DEF pipe_wait
<1>6. /\ pc' \in [Procs -> Places] /\ count' \in [Procs -> Nat] /\ cur' \in [Procs -> Int]
      /\ sig' = sig /\ sig \in SUBSET Procs
      /\ pc'[p] = where /\ count'[p] = left /\ cur'[p] = seen
      /\ \A q \in Procs \ {p} : pc'[q] = pc[q] /\ count'[q] = count[q] /\ cur'[q] = cur[q]
    BY DEF pipe_wait, Types, Sleeps, Places
<1>7. moved' = (moved /\ ~wake) /\ moved' \in BOOLEAN
    BY DEF pipe_wait, Types
<1>8. Queued'
    <2>1. \A u \in Procs : OnQueue(wait', u) <=> pc'[u] \in Sleeps
        BY <1>3, <1>6 DEF Queued
    <2>2. \A u \in Procs : state'[u] = TASK_INTERRUPTIBLE => pc'[u] \in Sleeps
        BY <1>4, <1>5, <1>6 DEF Queued
    <2>3. QED
        BY <1>3, <2>1, <2>2 DEF Queued, OnQueue, NoRepeats
<1>9. QED
    BY <1>3, <1>4, <1>5, <1>6, <1>7, <1>8 DEF Ended

LEMMA ReturnEnds ==
    ASSUME Types, Queued, NEW p \in Procs, NEW wake \in BOOLEAN, NEW half \in BOOLEAN,
           Return(p, wake, half), state[p] = TASK_RUNNING
    PROVE  /\ Ended(p, wake)
           /\ pc'[p] = "idle" /\ state'[p] = TASK_RUNNING
           /\ half => moved'
<1>1. /\ Unqueued(p) \in Seq(Entries) /\ NoRepeats(Unqueued(p))
      /\ ~OnQueue(Unqueued(p), p)
      /\ \A u \in Procs : u # p => (OnQueue(Unqueued(p), u) <=> OnQueue(wait, u))
    BY UnqueuedEffect
<1>2. wait' = Unqueued(p)
    BY DEF Return
<1>4. /\ Woken(wake) \in [Procs -> {TASK_RUNNING, TASK_INTERRUPTIBLE}]
      /\ \A q \in Procs : Woken(wake)[q] = TASK_INTERRUPTIBLE
                              => ~wake /\ state[q] = TASK_INTERRUPTIBLE
    BY WokenEffect
<1>0. TASK_RUNNING # TASK_INTERRUPTIBLE
    BY DEF TASK_RUNNING, TASK_INTERRUPTIBLE
<1>5. /\ state' \in [Procs -> {TASK_RUNNING, TASK_INTERRUPTIBLE}]
      /\ \A q \in Procs : state'[q] = Woken(wake)[q]
      /\ state'[p] = TASK_RUNNING
    BY <1>0, <1>4 DEF Return
<1>6. /\ pc' \in [Procs -> Places] /\ count' \in [Procs -> Nat] /\ cur' \in [Procs -> Int]
      /\ sig' \in SUBSET Procs
      /\ pc'[p] = "idle"
      /\ \A q \in Procs \ {p} : pc'[q] = pc[q] /\ count'[q] = count[q] /\ cur'[q] = cur[q]
    BY DEF Return, Types, Places
<1>7. moved' = (half \/ (moved /\ ~wake)) /\ moved' \in BOOLEAN
    BY DEF Return, Types
<1>8. Queued'
    <2>1. \A u \in Procs : OnQueue(wait', u) <=> pc'[u] \in Sleeps
        BY <1>1, <1>2, <1>6 DEF Queued, Sleeps
    <2>2. \A u \in Procs : state'[u] = TASK_INTERRUPTIBLE => pc'[u] \in Sleeps
        BY <1>0, <1>4, <1>5, <1>6 DEF Queued
    <2>3. QED
        BY <1>1, <1>2, <2>1, <2>2 DEF Queued, OnQueue, NoRepeats
<1>9. QED
    BY <1>1, <1>2, <1>4, <1>5, <1>6, <1>7, <1>8 DEF Ended
-----------------------------------------------------------------------------
(* What a step of p has to show of the pipe for the others and for p.      *)

\* What p adds to the count of an end, and to those of the waiting processes.
EndOf(f, end) == IF f # NULL /\ end \in f.ends THEN 1 ELSE 0
At(where, places) == IF where \in places THEN 1 ELSE 0

\* new differs from old as p's file and place do.
Balanced(p, old, new) ==
    /\ new.readers = old.readers - EndOf(file[p], "r") + EndOf(file'[p], "r")
    /\ new.writers = old.writers - EndOf(file[p], "w") + EndOf(file'[p], "w")
    /\ new.waiting_readers = old.waiting_readers - At(pc[p], {"read"}) + At(pc'[p], {"read"})
    /\ new.waiting_writers = old.waiting_writers - At(pc[p], {"write", "write_more"})
                                 + At(pc'[p], {"write", "write_more"})

LEMMA CountsStep ==
    ASSUME NEW old, CountedBy(old), NEW p \in Procs, NEW new, Balanced(p, old, new),
           \A q \in Procs \ {p} : file'[q] = file[q] /\ pc'[q] = pc[q]
    PROVE  CountedBy(new)'
<1>1. ASSUME NEW end
      PROVE  Cardinality(Holders(end)') = Cardinality(Holders(end))
                                          - EndOf(file[p], end) + EndOf(file'[p], end)
    <2>1. Holders(end) \in SUBSET Procs /\ Holders(end)' \in SUBSET Procs
        BY DEF Holders
    <2>2. \A q \in Procs \ {p} : q \in Holders(end)' <=> q \in Holders(end)
        BY DEF Holders
    <2>3. /\ One(p \in Holders(end)) = EndOf(file[p], end)
          /\ One(p \in Holders(end)') = EndOf(file'[p], end)
        BY DEF Holders, One, EndOf
    <2>4. QED
        BY <2>1, <2>2, <2>3, CountChange
<1>2. ASSUME NEW places
      PROVE  Cardinality(Waiting(places)') = Cardinality(Waiting(places))
                                             - At(pc[p], places) + At(pc'[p], places)
    <2>1. Waiting(places) \in SUBSET Procs /\ Waiting(places)' \in SUBSET Procs
        BY DEF Waiting
    <2>2. \A q \in Procs \ {p} : q \in Waiting(places)' <=> q \in Waiting(places)
        BY DEF Waiting
    <2>3. /\ One(p \in Waiting(places)) = At(pc[p], places)
          /\ One(p \in Waiting(places)') = At(pc'[p], places)
        BY DEF Waiting, One, At
    <2>4. QED
        BY <2>1, <2>2, <2>3, CountChange
<1>3. QED
    BY <1>1, <1>2 DEF CountedBy, Balanced

\* What happens to one counter of openings and the number of those it stands for: unless
\* the end is newly opened, and everyone woken, those who wait for it see no change.
EndKept(counter, number, counterNew, numberNew, wake) ==
    \/ counterNew = counter /\ (numberNew = number \/ number > 0)
    \/ counterNew = counter + 1 /\ (wake \/ number > 0)

Kept(wake) ==
    /\ pipe'.fifo = pipe.fifo
    /\ ~wake => \/ moved'
                \/ /\ pipe'.len = pipe.len
                   /\ pipe.writers > 0 => pipe'.writers > 0
                   /\ pipe.readers > 0 => pipe'.readers > 0
    /\ pipe.fifo => /\ EndKept(pipe.r_counter, pipe.readers, pipe'.r_counter, pipe'.readers, wake)
                    /\ EndKept(pipe.w_counter, pipe.writers, pipe'.w_counter, pipe'.writers, wake)

LEMMA OthersStep ==
    ASSUME Inv, NEW p \in Procs, NEW wake \in BOOLEAN, Ended(p, wake), Kept(wake),
           pipe \in Pipes, pipe' \in Pipes,
           NEW q \in Procs \ {p}, file'[q] = file[q]
    PROVE  BackedAt(q)' /\ OpenAt(q)' /\ ReasonAt(q)'
<1>1. pc'[q] = pc[q] /\ count'[q] = count[q] /\ cur'[q] = cur[q] /\ cur[q] \in Int
    BY DEF Ended, Inv, Types
<1>2. BackedAt(q) /\ OpenAt(q) /\ ReasonAt(q)
    BY DEF Inv, Backed, Opens, Reasons
<1>3. pipe # NULL /\ pipe' # NULL
    BY PipeAssumption
<1>4. BackedAt(q)'
    BY <1>1, <1>2, <1>3 DEF BackedAt, Sleeps, Kept
<1>5. /\ pipe.r_counter \in Int /\ pipe.w_counter \in Int /\ pipe.readers \in Int
      /\ pipe.writers \in Int /\ pipe'.r_counter \in Int /\ pipe'.w_counter \in Int
      /\ pipe'.readers \in Int /\ pipe'.writers \in Int
    BY DEF Pipes
<1>6. OpenAt(q)'
    BY <1>1, <1>2, <1>5 DEF OpenAt, Kept, EndKept, Partner, Others
<1>7. ReasonAt(q)'
    <2> SUFFICES ASSUME state'[q] = TASK_INTERRUPTIBLE
                 PROVE  HasReason(q)' \/ (moved' /\ pc'[q] # "open")
        BY DEF ReasonAt
    <2>1. ~wake /\ state[q] = TASK_INTERRUPTIBLE /\ (moved => moved')
        BY DEF Ended
    <2>2. HasReason(q) \/ (moved /\ pc[q] # "open")
        BY <1>2, <2>1 DEF ReasonAt
    <2>3. CASE pc[q] = "open"
        <3>1. Partner(q) = cur[q] /\ Others(q) = 0 /\ pipe.fifo
            BY <1>2, <2>2, <2>3 DEF HasReason, OpenAt
        <3>2. Partner(q)' = Partner(q)
            BY <1>5, <2>1, <3>1 DEF Kept, EndKept, Partner, Others
        <3>3. QED
            BY <1>1, <2>3, <3>1, <3>2 DEF HasReason
    <2>4. CASE pc[q] # "open"
        BY <1>1, <2>1, <2>2, <2>4 DEF HasReason, Kept, PIPE_FREE
    <2>5. QED
        BY <2>3, <2>4
<1>8. QED
    BY <1>4, <1>6, <1>7

\* A step of p with the pipe there before and after.
LEMMA Finish ==
    ASSUME Inv, NEW p \in Procs, NEW wake \in BOOLEAN, Ended(p, wake), Kept(wake),
           pipe \in Pipes, pipe' \in Pipes, Balanced(p, pipe, pipe'),
           pipe'.readers # 0 \/ pipe'.writers # 0,
           file' \in [Procs -> Files \cup {NULL}],
           \A q \in Procs \ {p} : file'[q] = file[q],
           BackedAt(p)' /\ OpenAt(p)' /\ ReasonAt(p)'
    PROVE  Inv'
<1>1. \A q \in Procs : BackedAt(q)' /\ OpenAt(q)' /\ ReasonAt(q)'
    BY OthersStep
<1>2. Types' /\ Queued'
    BY DEF Types, Ended
<1>3. Counted'
    <2>1. CountedBy(pipe)
        BY PipeAssumption DEF Inv, Counted
    <2>2. PICK new : new = pipe'
        OBVIOUS
    <2>3. CountedBy(new)'
        BY <2>1, <2>2, CountsStep DEF Ended
    <2>4. QED
        BY <2>2, <2>3 DEF Counted, CountedBy
<1>4. QED
    BY <1>1, <1>2, <1>3 DEF Inv, Backed, Opens, Reasons
-----------------------------------------------------------------------------
(* Reading and writing.                                                    *)

LEMMA MinPair ==
    ASSUME NEW a \in Int, NEW b \in Int
    PROVE  /\ Min({a, b}) \in {a, b} /\ Min({a, b}) \in Int
           /\ Min({a, b}) <= a /\ Min({a, b}) <= b
<1>1. \E x \in {a, b} : \A y \in {a, b} : x <= y
    OBVIOUS
<1>2. Min({a, b}) \in {a, b} /\ \A y \in {a, b} : Min({a, b}) <= y
    BY <1>1 DEF Min
<1>3. QED
    BY <1>2

LEMMA ModSize ==
    ASSUME NEW a \in Int
    PROVE  a % PIPE_SIZE \in 0 .. PIPE_SIZE - 1
BY PipeAssumption

\* A process that runs is not asleep, and one with a file finds the pipe.
LEMMA HasPipe ==
    ASSUME Inv, NEW p \in Procs, file[p] # NULL
    PROVE  pipe \in Pipes /\ pipe # NULL /\ file[p] \in Files
BY DEF Inv, Types, Backed, BackedAt

LEMMA IdleRuns ==
    ASSUME Inv, NEW p \in Procs, pc[p] \notin Sleeps
    PROVE  state[p] = TASK_RUNNING
BY DEF Inv, Types, Queued

\* pi is the pipe, perhaps after a copy, with p no longer counted as waiting.
Off(p, pi) ==
    /\ pi \in Pipes
    /\ pi.readers = pipe.readers /\ pi.writers = pipe.writers /\ pi.fifo = pipe.fifo
    /\ pi.r_counter = pipe.r_counter /\ pi.w_counter = pipe.w_counter
    /\ pi.waiting_readers = pipe.waiting_readers - At(pc[p], {"read"})
    /\ pi.waiting_writers = pipe.waiting_writers - At(pc[p], {"write", "write_more"})

LEMMA ReturnStep ==
    ASSUME Inv, NEW p \in Procs, file[p] # NULL, state[p] = TASK_RUNNING, UNCHANGED file,
           NEW wake \in BOOLEAN, NEW half \in BOOLEAN, Return(p, wake, half),
           Off(p, pipe'), wake \/ half \/ pipe'.len = pipe.len
    PROVE  Inv'
<1>0. pipe \in Pipes /\ pipe # NULL /\ file[p] \in Files
    BY HasPipe
<1>1. Ended(p, wake) /\ pc'[p] = "idle" /\ state'[p] = TASK_RUNNING /\ (half => moved')
    BY ReturnEnds DEF Inv
<1>2. Kept(wake)
    BY <1>1 DEF Kept, EndKept, Off
<1>3. Balanced(p, pipe, pipe')
    <2>1. At(pc'[p], {"read"}) = 0 /\ At(pc'[p], {"write", "write_more"}) = 0
        BY <1>1 DEF At
    <2>2. \A end : EndOf(file[p], end) \in Int
        BY DEF EndOf
    <2>3. \A places : At(pc[p], places) \in Int
        BY DEF At
    <2>4. QED
        BY <1>0, <2>1, <2>2, <2>3 DEF Balanced, Off, Pipes
<1>4. BackedAt(p)' /\ OpenAt(p)' /\ ReasonAt(p)'
    BY <1>0, <1>1, PipeAssumption
       DEF BackedAt, OpenAt, ReasonAt, Off, TASK_RUNNING, TASK_INTERRUPTIBLE
<1>5. pipe'.readers # 0 \/ pipe'.writers # 0
    BY <1>0 DEF Inv, Counted, Off
<1>6. QED
    BY <1>0, <1>1, <1>2, <1>3, <1>4, <1>5, Finish DEF Off, Inv, Types

LEMMA WaitStep ==
    ASSUME Inv, NEW p \in Procs, file[p] # NULL, UNCHANGED file,
           NEW wake \in BOOLEAN, NEW n \in Nat, NEW where \in {"read", "write", "write_more"},
           pipe_wait(p, where, n, 0, wake), NEW pi, Off(p, pi),
           pipe' = IF where = "read" THEN [pi EXCEPT !.waiting_readers = @ + 1]
                                     ELSE [pi EXCEPT !.waiting_writers = @ + 1],
           IF where = "read" THEN "r" \in file[p].ends ELSE "w" \in file[p].ends,
           wake \/ pi.len = pipe.len, 
           where = "read" => pi.len = 0 /\ pi.writers > 0,
           where = "write" => PIPE_FREE(pi) < Need(n) /\ pi.readers > 0,
           where = "write_more" => PIPE_FREE(pi) = 0 /\ pi.readers > 0
    PROVE  Inv'
<1>0. pipe \in Pipes /\ pipe # NULL /\ file[p] \in Files
    BY HasPipe
<1>1. Ended(p, wake) /\ pc'[p] = where /\ count'[p] = n
    BY WaitEnds DEF Inv, Places, Sleeps
<1>2. /\ pipe' \in Pipes /\ pipe'.len = pi.len
      /\ pipe'.readers = pi.readers /\ pipe'.writers = pi.writers /\ pipe'.fifo = pi.fifo
      /\ pipe'.r_counter = pi.r_counter /\ pipe'.w_counter = pi.w_counter
      /\ pipe'.waiting_readers = pi.waiting_readers + (IF where = "read" THEN 1 ELSE 0)
      /\ pipe'.waiting_writers = pi.waiting_writers + (IF where = "read" THEN 0 ELSE 1)
    BY DEF Off, Pipes
<1>3. Kept(wake)
    BY <1>1, <1>2 DEF Kept, EndKept, Off
<1>4. Balanced(p, pipe, pipe')
    <2>1. /\ At(pc'[p], {"read"}) = IF where = "read" THEN 1 ELSE 0
          /\ At(pc'[p], {"write", "write_more"}) = IF where = "read" THEN 0 ELSE 1
        BY <1>1 DEF At
    <2>2. \A end : EndOf(file[p], end) \in Int
        BY DEF EndOf
    <2>3. \A places : At(pc[p], places) \in Int
        BY DEF At
    <2>4. QED
        BY <1>0, <1>2, <2>1, <2>2, <2>3 DEF Balanced, Off, Pipes
<1>5. BackedAt(p)' /\ OpenAt(p)'
    BY <1>0, <1>1, <1>2, PipeAssumption DEF BackedAt, OpenAt
<1>6. ReasonAt(p)'
    BY <1>1, <1>2 DEF ReasonAt, HasReason, PIPE_FREE
<1>7. pipe'.readers # 0 \/ pipe'.writers # 0
    BY <1>0, <1>2 DEF Inv, Counted, Off
<1>8. QED
    BY <1>0, <1>1, <1>2, <1>3, <1>4, <1>5, <1>6, <1>7, Finish DEF Inv, Types
\* Who is in a call of read, or may be, with the process not counted as waiting.
Reading(p) == file[p] # NULL /\ "r" \in file[p].ends /\ state[p] = TASK_RUNNING
Writing(p) == file[p] # NULL /\ "w" \in file[p].ends /\ state[p] = TASK_RUNNING

LEMMA ReadWaitStep ==
    ASSUME Inv, NEW p \in Procs, Reading(p), UNCHANGED file, NEW pi, Off(p, pi),
           NEW n \in Nat, NEW wake \in BOOLEAN, ReadWait(p, pi, n, wake),
           pi.len = 0, wake \/ pi.len = pipe.len
    PROVE  Inv'
<1>1. CASE pi.writers = 0 \/ file[p].nonblock
    <2>1. pipe' = pi /\ Return(p, wake, FALSE)
        BY <1>1 DEF ReadWait
    <2>2. QED
        BY <2>1, ReturnStep DEF Reading
<1>2. CASE ~(pi.writers = 0 \/ file[p].nonblock)
    <2>1. /\ pipe' = [pi EXCEPT !.waiting_readers = @ + 1]
          /\ pipe_wait(p, "read", n, 0, wake)
        BY <1>2 DEF ReadWait
    <2>2. pi.writers > 0
        <3>1. pipe # NULL /\ pipe.writers = Cardinality(Holders("w"))
            BY HasPipe DEF Reading, Inv, Counted, CountedBy
        <3>2. Holders("w") \in SUBSET Procs
            BY DEF Holders
        <3>3. QED
            BY <1>2, <3>1, <3>2, ProcsFinite DEF Off
    <2>3. QED
        BY <2>1, <2>2, WaitStep DEF Reading
<1>3. QED
    BY <1>1, <1>2

SameCounts(pi, new) ==
    /\ new.readers = pi.readers /\ new.writers = pi.writers /\ new.fifo = pi.fifo
    /\ new.r_counter = pi.r_counter /\ new.w_counter = pi.w_counter
    /\ new.waiting_readers = pi.waiting_readers
    /\ new.waiting_writers = pi.waiting_writers

LEMMA TakenPipe ==
    ASSUME NEW pi \in Pipes, NEW k \in Int, k <= pi.len, k >= 0
    PROVE  /\ Taken(pi, k) \in Pipes /\ Taken(pi, k).len = pi.len - k
           /\ [Taken(pi, k) EXCEPT !.start = 0] \in Pipes
           /\ [Taken(pi, k) EXCEPT !.start = 0].len = pi.len - k
           /\ SameCounts(pi, Taken(pi, k))
           /\ SameCounts(pi, [Taken(pi, k) EXCEPT !.start = 0])
<1>1. (pi.start + k) % PIPE_SIZE \in 0 .. PIPE_SIZE - 1
    BY ModSize DEF Pipes
<1>2. PIPE_SIZE \in Nat /\ PIPE_SIZE > 0
    BY PipeAssumption
<1>3. PICK s \in 0 .. PIPE_SIZE - 1 : s = (pi.start + k) % PIPE_SIZE
    BY <1>1
<1>4. Taken(pi, k) = [pi EXCEPT !.len = @ - k, !.start = s]
    BY <1>3 DEF Taken
<1>5. pi.len \in 0 .. PIPE_SIZE
    BY DEF Pipes
<1>6. PICK l \in 0 .. PIPE_SIZE : l = pi.len - k
    BY <1>2, <1>5
<1>7. Taken(pi, k) = [pi EXCEPT !.len = l, !.start = s]
    BY <1>4, <1>6
<1>8. /\ [pi EXCEPT !.len = l, !.start = s] \in Pipes
      /\ [pi EXCEPT !.len = l, !.start = s].len = l
      /\ SameCounts(pi, [pi EXCEPT !.len = l, !.start = s])
    BY DEF Pipes, SameCounts
<1>9. PICK r \in Pipes : r = Taken(pi, k) /\ r.len = l /\ SameCounts(pi, r)
    BY <1>7, <1>8
<1>10. [r EXCEPT !.start = 0] \in Pipes /\ [r EXCEPT !.start = 0].len = l
    BY <1>2, <1>9 DEF Pipes
<1>11. SameCounts(pi, [r EXCEPT !.start = 0])
    BY <1>9 DEF Pipes, SameCounts
<1>12. QED
    BY <1>6, <1>9, <1>10, <1>11

LEMMA TakenOff ==
    ASSUME NEW p \in Procs, NEW pi, Off(p, pi), NEW k \in Int, k <= pi.len, k >= 0
    PROVE  Off(p, Taken(pi, k)) /\ Off(p, [Taken(pi, k) EXCEPT !.start = 0])
<1>1. pi \in Pipes
    BY DEF Off
<1>2. QED
    BY <1>1, TakenPipe DEF Off, SameCounts

LEMMA ReadCopyStep ==
    ASSUME Inv, NEW p \in Procs, Reading(p), UNCHANGED file, NEW pi, Off(p, pi),
           NEW n \in Nat, ReadCopy(p, pi, n)
    PROVE  Inv'
<1> DEFINE k == Min({n, pi.len})
           rest == Taken(pi, k)
           after == IF rest.len = 0 THEN [rest EXCEPT !.start = 0] ELSE rest
<1>1. pi \in Pipes /\ pi.len \in Int /\ pi.len >= 0
    BY DEF Off, Pipes
<1>2. k \in {n, pi.len} /\ k \in Int /\ k <= n /\ k <= pi.len /\ k >= 0
    <2>1. n \in Int /\ pi.len \in Int
        BY <1>1
    <2>2. k \in {n, pi.len} /\ k \in Int /\ k <= n /\ k <= pi.len
        BY ONLY <2>1, MinPair, Zenon
    <2> HIDE DEF k
    <2>3. QED
        BY <1>1, <2>2
<1>3. /\ IF n > k /\ pi.waiting_writers > 0 /\ ~file[p].nonblock
         THEN ReadWait(p, after, n - k, TRUE)
         ELSE pipe' = after /\ Return(p, TRUE, FALSE)
    BY DEF ReadCopy
<1> HIDE DEF k
<1>4. Off(p, after) /\ after.len = pi.len - k
    <2>1. Off(p, rest) /\ Off(p, [rest EXCEPT !.start = 0])
        BY <1>2, TakenOff
    <2>2. rest.len = pi.len - k /\ [rest EXCEPT !.start = 0].len = pi.len - k
        BY <1>1, <1>2, TakenPipe
    <2>3. QED
        BY <2>1, <2>2
<1> HIDE DEF after
<1>5. CASE n > k /\ pi.waiting_writers > 0 /\ ~file[p].nonblock
    <2>1. ReadWait(p, after, n - k, TRUE)
        BY <1>3, <1>5
    <2>2. after.len = 0 /\ n - k \in Nat
        BY <1>1, <1>2, <1>4, <1>5
    <2>3. QED
        BY <1>4, <2>1, <2>2, ReadWaitStep
<1>6. CASE ~(n > k /\ pi.waiting_writers > 0 /\ ~file[p].nonblock)
    <2>1. pipe' = after /\ Return(p, TRUE, FALSE)
        BY <1>3, <1>6
    <2>2. QED
        BY <1>4, <2>1, ReturnStep DEF Reading
<1>7. QED
    BY <1>5, <1>6

LEMMA ReadFaultStep ==
    ASSUME Inv, NEW p \in Procs, Reading(p), UNCHANGED file, NEW pi, Off(p, pi),
           pi.len = pipe.len, NEW n \in Nat, ReadFault(p, pi, n)
    PROVE  Inv'
<1>1. pi \in Pipes /\ pi.len \in Int /\ pi.start \in Int /\ pi.start <= PIPE_SIZE - 1
    BY PipeAssumption DEF Off, Pipes
<1>2. PICK k \in {0, PIPE_SIZE - pi.start} :
          k < Min({n, pi.len}) /\ pipe' = Taken(pi, k) /\ Return(p, FALSE, k > 0)
    BY DEF ReadFault
<1>3. k \in Int /\ k >= 0 /\ k <= pi.len
    BY <1>1, <1>2, MinPair, PipeAssumption
<1>4. Off(p, pipe') /\ pipe'.len = pi.len - k
    BY <1>1, <1>2, <1>3, TakenOff, TakenPipe
<1>5. CASE k > 0
    <2>1. Return(p, FALSE, TRUE)
        BY <1>2, <1>5
    <2>2. QED
        BY <1>4, <2>1, ReturnStep DEF Reading
<1>6. CASE k = 0
    <2>1. (k > 0) = FALSE
        BY <1>6
    <2>2. Return(p, FALSE, FALSE)
        BY <1>2, <2>1
    <2>3. pipe'.len = pipe.len
        BY <1>1, <1>4, <1>6
    <2>4. QED
        BY <1>4, <2>2, <2>3, ReturnStep DEF Reading
<1>7. QED
    BY <1>3, <1>5, <1>6

LEMMA ReadStep ==
    ASSUME Inv, NEW p \in Procs, NEW n \in Counts, pipe_read(p, n)
    PROVE  Inv'
<1>1. Reading(p) /\ pc[p] = "idle" /\ UNCHANGED file /\ n \in Nat
    BY IdleRuns, PipeAssumption DEF pipe_read, CanRead, Reading, Sleeps
<1>2. pipe \in Pipes
    BY <1>1, HasPipe DEF Reading
<1>3. Off(p, pipe)
    BY <1>1, <1>2 DEF Off, At, Pipes
<1>4. PICK pi : pi = pipe
    OBVIOUS
<1>5. CASE pipe.len = 0 /\ ReadWait(p, pipe, n, FALSE)
    BY <1>1, <1>3, <1>4, <1>5, ReadWaitStep
<1>6. CASE ReadCopy(p, pipe, n)
    BY <1>1, <1>3, <1>4, <1>6, ReadCopyStep
<1>7. CASE ReadFault(p, pipe, n)
    BY <1>1, <1>3, <1>4, <1>7, ReadFaultStep
<1>8. QED
    BY <1>5, <1>6, <1>7 DEF pipe_read

LEMMA ReadResumeStep ==
    ASSUME Inv, NEW p \in Procs, ReadResume(p)
    PROVE  Inv'
<1> DEFINE old == [pipe EXCEPT !.waiting_readers = @ - 1]
<1>1. Reading(p) /\ pc[p] = "read" /\ UNCHANGED file /\ count[p] \in Nat
    BY DEF ReadResume, Resumed, Reading, Inv, Types, Backed, BackedAt, Sleeps
<1>2. pipe \in Pipes
    BY <1>1, HasPipe DEF Reading
<1>3. Off(p, old) /\ old.len = pipe.len
    BY <1>1, <1>2 DEF Off, At, Pipes
<1>4. PICK pi : pi = old
    OBVIOUS
<1>0. \/ p \in sig /\ pipe' = pi /\ Return(p, FALSE, FALSE)
      \/ ReadCopy(p, pi, count[p])
      \/ ReadFault(p, pi, count[p])
      \/ pi.len = 0 /\ ReadWait(p, pi, count[p], FALSE)
    BY <1>4 DEF ReadResume
<1> HIDE DEF old
<1>5. Off(p, pi) /\ pi.len = pipe.len
    BY <1>3, <1>4
<1>6. CASE pipe' = pi /\ Return(p, FALSE, FALSE)
    BY <1>1, <1>5, <1>6, ReturnStep DEF Reading
<1>7. CASE ReadCopy(p, pi, count[p])
    BY <1>1, <1>5, <1>7, ReadCopyStep
<1>8. CASE ReadFault(p, pi, count[p])
    BY <1>1, <1>5, <1>8, ReadFaultStep
<1>9. CASE pi.len = 0 /\ ReadWait(p, pi, count[p], FALSE)
    BY <1>1, <1>5, <1>9, ReadWaitStep
<1>10. QED
    BY <1>0, <1>6, <1>7, <1>8, <1>9
LEMMA PutPipe ==
    ASSUME NEW p \in Procs, NEW pi, Off(p, pi), NEW k \in Int, k <= PIPE_FREE(pi), k >= 0
    PROVE  /\ Off(p, [pi EXCEPT !.len = @ + k]) /\ pi.len \in Int
           /\ [pi EXCEPT !.len = @ + k].len = pi.len + k
<1>1. pi \in Pipes /\ pi.len \in 0 .. PIPE_SIZE /\ PIPE_SIZE \in Nat
    BY PipeAssumption DEF Off, Pipes
<1>2. PICK l \in 0 .. PIPE_SIZE : l = pi.len + k
    BY <1>1 DEF PIPE_FREE
<1>3. [pi EXCEPT !.len = @ + k] = [pi EXCEPT !.len = l]
    BY <1>1, <1>2
<1>4. Off(p, [pi EXCEPT !.len = l]) /\ [pi EXCEPT !.len = l].len = l
    BY <1>1 DEF Off, Pipes
<1>5. QED
    BY <1>1, <1>2, <1>3, <1>4

LEMMA WriteCopyStep ==
    ASSUME Inv, NEW p \in Procs, Writing(p), UNCHANGED file, NEW pi, Off(p, pi),
           pi.readers > 0, NEW n \in Nat, WriteCopy(p, pi, n)
    PROVE  Inv'
<1> DEFINE k == Min({n, PIPE_FREE(pi)})
           after == [pi EXCEPT !.len = @ + k]
<1>1. PIPE_FREE(pi) \in Int /\ PIPE_FREE(pi) >= 0 /\ pi.len \in Int /\ n \in Int
    BY PipeAssumption DEF Off, Pipes, PIPE_FREE
<1>2. k \in {n, PIPE_FREE(pi)} /\ k \in Int /\ k <= n /\ k <= PIPE_FREE(pi)
    BY ONLY <1>1, MinPair, Zenon
<1>3. /\ IF n > k /\ ~file[p].nonblock
         THEN WriteWait(p, after, "write_more", n - k, TRUE)
         ELSE pipe' = after /\ Return(p, TRUE, FALSE)
    BY DEF WriteCopy
<1> HIDE DEF k
<1>4. k >= 0
    BY <1>1, <1>2
<1>5. Off(p, after) /\ after.len = pi.len + k
    BY <1>2, <1>4, PutPipe
<1> HIDE DEF after
<1>6. CASE n > k /\ ~file[p].nonblock
    <2>1. WriteWait(p, after, "write_more", n - k, TRUE)
        BY <1>3, <1>6
    <2>2. PIPE_FREE(after) = 0 /\ n - k \in Nat
        BY <1>1, <1>2, <1>5, <1>6, PipeAssumption DEF PIPE_FREE
    <2>3. after.readers > 0
        BY <1>5 DEF Off
    <2>4. QED
        BY <1>5, <2>1, <2>2, <2>3, WaitStep DEF Writing, WriteWait
<1>7. CASE ~(n > k /\ ~file[p].nonblock)
    <2>1. pipe' = after /\ Return(p, TRUE, FALSE)
        BY <1>3, <1>7
    <2>2. QED
        BY <1>5, <2>1, ReturnStep DEF Writing
<1>8. QED
    BY <1>6, <1>7

LEMMA WriteFaultStep ==
    ASSUME Inv, NEW p \in Procs, Writing(p), UNCHANGED file, NEW pi, Off(p, pi),
           pi.len = pipe.len, NEW n \in Nat, WriteFault(p, pi, n)
    PROVE  Inv'
<1>1. PIPE_FREE(pi) \in Int /\ n \in Int /\ pi \in Pipes /\ pi.start + pi.len \in Int
    BY PipeAssumption DEF Off, Pipes, PIPE_FREE
<1>2. PIPE_END(pi) \in 0 .. PIPE_SIZE - 1
    BY <1>1, ModSize DEF PIPE_END
<1>3. PICK k \in {0, PIPE_SIZE - PIPE_END(pi)} :
          /\ k < Min({n, PIPE_FREE(pi)})
          /\ pipe' = [pi EXCEPT !.len = @ + k]
          /\ Return(p, FALSE, k > 0)
    BY DEF WriteFault
<1>4. Min({n, PIPE_FREE(pi)}) \in Int /\ Min({n, PIPE_FREE(pi)}) <= PIPE_FREE(pi)
    BY ONLY <1>1, MinPair, Zenon
<1>5. k \in Int /\ k >= 0 /\ k <= PIPE_FREE(pi)
    BY <1>1, <1>2, <1>3, <1>4, PipeAssumption
<1>6. Off(p, pipe') /\ pipe'.len = pi.len + k /\ pi.len \in Int
    BY <1>3, <1>5, PutPipe
<1>7. CASE k > 0
    <2>1. Return(p, FALSE, TRUE)
        BY <1>3, <1>7
    <2>2. QED
        BY <1>6, <2>1, ReturnStep DEF Writing
<1>8. CASE k = 0
    <2>1. (k > 0) = FALSE
        BY <1>8
    <2>2. Return(p, FALSE, FALSE)
        BY <1>3, <2>1
    <2>3. pipe'.len = pipe.len
        BY <1>6, <1>8
    <2>4. QED
        BY <1>6, <2>2, <2>3, ReturnStep DEF Writing
<1>9. QED
    BY <1>5, <1>7, <1>8

LEMMA WriteStep ==
    ASSUME Inv, NEW p \in Procs, NEW n \in Counts, pipe_write(p, n)
    PROVE  Inv'
<1>1. Writing(p) /\ pc[p] = "idle" /\ UNCHANGED file /\ n \in Nat
    BY IdleRuns, PipeAssumption DEF pipe_write, CanWrite, Writing, Sleeps
<1>2. pipe \in Pipes
    BY <1>1, HasPipe DEF Writing
<1>3. Off(p, pipe)
    BY <1>1, <1>2 DEF Off, At, Pipes
<1>4. PICK pi : pi = pipe
    OBVIOUS
<1>5. pi.readers > 0
    BY <1>4 DEF pipe_write
<1>6. CASE PIPE_FREE(pipe) < Need(n) /\ WriteWait(p, pipe, "write", n, FALSE)
    BY <1>1, <1>3, <1>4, <1>5, <1>6, WaitStep DEF WriteWait, Writing
<1>7. CASE WriteCopy(p, pipe, n)
    BY <1>1, <1>3, <1>4, <1>5, <1>7, WriteCopyStep
<1>8. CASE WriteFault(p, pipe, n)
    BY <1>1, <1>3, <1>4, <1>8, WriteFaultStep
<1>9. QED
    BY <1>6, <1>7, <1>8 DEF pipe_write

LEMMA WriteResumeStep ==
    ASSUME Inv, NEW p \in Procs, NEW where \in {"write", "write_more"}, NEW room,
           room = IF where = "write" THEN Need(count[p]) ELSE 1, WriteResume(p, where, room)
    PROVE  Inv'
<1> DEFINE old == [pipe EXCEPT !.waiting_writers = @ - 1]
<1>1. Writing(p) /\ pc[p] = where /\ UNCHANGED file /\ count[p] \in Nat
    BY DEF WriteResume, Resumed, Writing, Inv, Types, Backed, BackedAt, Sleeps
<1>2. pipe \in Pipes
    BY <1>1, HasPipe DEF Writing
<1>3. Off(p, old) /\ old.len = pipe.len
    BY <1>1, <1>2 DEF Off, At, Pipes
<1>4. PICK pi : pi = old
    OBVIOUS
<1>0. \/ pipe' = pi /\ Return(p, FALSE, FALSE)
      \/ pi.readers > 0 /\ WriteCopy(p, pi, count[p])
      \/ WriteFault(p, pi, count[p])
      \/ pi.readers > 0 /\ PIPE_FREE(pi) < room
         /\ WriteWait(p, pi, where, count[p], where = "write_more")
    BY <1>4 DEF WriteResume
<1> HIDE DEF old
<1>5. Off(p, pi) /\ pi.len = pipe.len
    BY <1>3, <1>4
<1>6. CASE pipe' = pi /\ Return(p, FALSE, FALSE)
    BY <1>1, <1>5, <1>6, ReturnStep DEF Writing
<1>7. CASE pi.readers > 0 /\ WriteCopy(p, pi, count[p])
    BY <1>1, <1>5, <1>7, WriteCopyStep
<1>8. CASE WriteFault(p, pi, count[p])
    BY <1>1, <1>5, <1>8, WriteFaultStep
<1>9. CASE pi.readers > 0 /\ PIPE_FREE(pi) < room
           /\ WriteWait(p, pi, where, count[p], where = "write_more")
    <2>1. PICK wake \in BOOLEAN : wake = (where = "write_more")
        OBVIOUS
    <2>2. /\ pipe_wait(p, where, count[p], 0, wake)
          /\ pipe' = [pi EXCEPT !.waiting_writers = @ + 1]
        BY <1>9, <2>1 DEF WriteWait
    <2>3. where = "write_more" => PIPE_FREE(pi) = 0
        BY <1>5, <1>9, PipeAssumption DEF Off, Pipes, PIPE_FREE
    <2>4. QED
        BY <1>1, <1>5, <1>9, <2>2, <2>3, WaitStep DEF Writing
<1>10. QED
    BY <1>0, <1>6, <1>7, <1>8, <1>9
-----------------------------------------------------------------------------
(* Opening and closing.                                                    *)

LEMMA EndsOfModes ==
    ASSUME NEW m \in Modes
    PROVE  Ends(m) \in {{"r"}, {"w"}, {"r", "w"}}
BY DEF Modes, Ends

\* Counting by more openings leaves the rest alone.
LEMMA CountPipe ==
    ASSUME NEW pi \in Pipes, NEW ends, NEW by \in Int
    PROVE  LET new == Count(pi, ends, by)
           IN  /\ new \in Pipes
               /\ new.readers = IF "r" \in ends THEN pi.readers + by ELSE pi.readers
               /\ new.writers = IF "w" \in ends THEN pi.writers + by ELSE pi.writers
               /\ new.len = pi.len /\ new.fifo = pi.fifo
               /\ new.waiting_readers = pi.waiting_readers
               /\ new.waiting_writers = pi.waiting_writers
               /\ new.r_counter = pi.r_counter /\ new.w_counter = pi.w_counter
<1>0. pi.readers \in Int /\ pi.writers \in Int
    BY DEF Pipes
<1>1. PICK r \in Int : r = IF "r" \in ends THEN pi.readers + by ELSE pi.readers
    BY <1>0
<1>2. PICK w \in Int : w = IF "w" \in ends THEN pi.writers + by ELSE pi.writers
    BY <1>0
<1>3. Count(pi, ends, by) = [pi EXCEPT !.readers = r, !.writers = w]
    BY <1>1, <1>2 DEF Count
<1>4. QED
    BY <1>1, <1>2, <1>3 DEF Pipes

LEMMA OpenedPipe ==
    ASSUME NEW pi \in Pipes, NEW ends
    PROVE  LET new == Opened(pi, ends)
           IN  /\ new \in Pipes
               /\ new.readers = IF "r" \in ends THEN pi.readers + 1 ELSE pi.readers
               /\ new.writers = IF "w" \in ends THEN pi.writers + 1 ELSE pi.writers
               /\ new.r_counter = IF "r" \in ends THEN pi.r_counter + 1 ELSE pi.r_counter
               /\ new.w_counter = IF "w" \in ends THEN pi.w_counter + 1 ELSE pi.w_counter
               /\ new.len = pi.len /\ new.fifo = pi.fifo
               /\ new.waiting_readers = pi.waiting_readers
               /\ new.waiting_writers = pi.waiting_writers
<1>1. PICK c \in Pipes :
          /\ c = Count(pi, ends, 1)
          /\ c.readers = IF "r" \in ends THEN pi.readers + 1 ELSE pi.readers
          /\ c.writers = IF "w" \in ends THEN pi.writers + 1 ELSE pi.writers
          /\ c.len = pi.len /\ c.fifo = pi.fifo
          /\ c.waiting_readers = pi.waiting_readers
          /\ c.waiting_writers = pi.waiting_writers
          /\ c.r_counter = pi.r_counter /\ c.w_counter = pi.w_counter
    BY CountPipe
<1>2. pi.r_counter \in Int /\ pi.w_counter \in Int
    BY DEF Pipes
<1>3. PICK r \in Int : r = IF "r" \in ends THEN pi.r_counter + 1 ELSE pi.r_counter
    BY <1>2
<1>4. PICK w \in Int : w = IF "w" \in ends THEN pi.w_counter + 1 ELSE pi.w_counter
    BY <1>2
<1>5. Opened(pi, ends) = [c EXCEPT !.r_counter = r, !.w_counter = w]
    BY <1>1, <1>3, <1>4 DEF Opened
<1>6. QED
    BY <1>1, <1>3, <1>4, <1>5 DEF Pipes

\* A pipe that is made has nobody at its ends.
LEMMA NewPipe ==
    ASSUME Inv, pipe = NULL, NEW fifo \in BOOLEAN
    PROVE  /\ pipe_new(fifo) \in Pipes /\ CountedBy(pipe_new(fifo))
           /\ pipe_new(fifo).fifo = fifo
           /\ \A q \in Procs :
                  file[q] = NULL /\ pc[q] \notin Sleeps /\ state[q] # TASK_INTERRUPTIBLE
<1>1. pipe_new(fifo) \in Pipes /\ pipe_new(fifo).fifo = fifo
    BY PipeAssumption DEF pipe_new, Pipes
<1>2. \A q \in Procs : file[q] = NULL /\ pc[q] \notin Sleeps /\ state[q] # TASK_INTERRUPTIBLE
    BY DEF Inv, Backed, BackedAt, Queued
<1>3. /\ Holders("r") = {} /\ Holders("w") = {}
      /\ Waiting({"read"}) = {} /\ Waiting({"write", "write_more"}) = {}
    BY <1>2 DEF Holders, Waiting, Sleeps
<1>4. QED
    BY <1>1, <1>2, <1>3, FS_EmptySet DEF CountedBy, pipe_new

\* A step of p that makes the pipe.
LEMMA FinishNew ==
    ASSUME Inv, pipe = NULL, NextInode, NEW p \in Procs, NEW wake \in BOOLEAN, Ended(p, wake),
           NEW fifo \in BOOLEAN, pipe' \in Pipes, Balanced(p, pipe_new(fifo), pipe'),
           pipe'.readers # 0 \/ pipe'.writers # 0,
           file' \in [Procs -> Files \cup {NULL}],
           \A q \in Procs \ {p} : file'[q] = file[q],
           BackedAt(p)' /\ OpenAt(p)' /\ ReasonAt(p)'
    PROVE  Inv'
<1>1. /\ CountedBy(pipe_new(fifo))
      /\ \A q \in Procs : file[q] = NULL /\ pc[q] \notin Sleeps /\ state[q] # TASK_INTERRUPTIBLE
    BY NewPipe
<1>2. ASSUME NEW q \in Procs \ {p}
      PROVE  /\ pc'[q] \notin Sleeps /\ pc'[q] # "lookup"
             /\ file'[q] = NULL /\ state'[q] # TASK_INTERRUPTIBLE
    BY <1>1 DEF Ended, NextInode
<1>3. \A q \in Procs \ {p} : BackedAt(q)' /\ OpenAt(q)' /\ ReasonAt(q)'
    BY <1>2 DEF BackedAt, OpenAt, ReasonAt, Sleeps
<1>4. Types' /\ Queued'
    BY DEF Types, Ended
<1>5. Counted'
    <2>1. PICK new, old : new = pipe' /\ old = pipe_new(fifo)
        OBVIOUS
    <2>2. CountedBy(new)'
        BY <1>1, <2>1, CountsStep DEF Ended
    <2>3. QED
        BY <2>1, <2>2 DEF Counted, CountedBy
<1>6. QED
    BY <1>3, <1>4, <1>5 DEF Inv, Backed, Opens, Reasons

\* A step of p that leaves nobody at the pipe.
LEMMA FinishFreed ==
    ASSUME Inv, pipe \in Pipes, NEW p \in Procs, NEW wake \in BOOLEAN, Ended(p, wake),
           NEW new, Balanced(p, pipe, new), new.readers = 0, new.writers = 0, pipe' = NULL,
           file' \in [Procs -> Files \cup {NULL}],
           \A q \in Procs \ {p} : file'[q] = file[q],
           file'[p] = NULL, pc'[p] = "idle"
    PROVE  Inv'
<1>1. CountedBy(new)'
    <2>1. PICK old : old = pipe
        OBVIOUS
    <2>2. CountedBy(old)
        BY <2>1, PipeAssumption DEF Inv, Counted
    <2>3. QED
        BY <2>1, <2>2, CountsStep DEF Ended
<1>2. Holders("r")' = {} /\ Holders("w")' = {}
    <2>1. Holders("r")' \in SUBSET Procs /\ Holders("w")' \in SUBSET Procs
        BY DEF Holders
    <2>2. Cardinality(Holders("r")') = 0 /\ Cardinality(Holders("w")') = 0
        BY <1>1 DEF CountedBy
    <2>3. QED
        BY <2>1, <2>2, EmptySet
<1>3. \A q \in Procs : file'[q] = NULL
    BY <1>2 DEF Holders, Files
<1>4. \A q \in Procs : pc'[q] \notin Sleeps
    <2>1. \A q \in Procs \ {p} : pc'[q] = pc[q] /\ file[q] = NULL
        BY <1>3 DEF Ended
    <2>2. QED
        BY <2>1 DEF Inv, Backed, BackedAt, Sleeps
<1>5. \A q \in Procs : state'[q] # TASK_INTERRUPTIBLE
    BY <1>4 DEF Ended, Queued
<1>6. QED
    BY <1>3, <1>4, <1>5
       DEF Inv, Types, Ended, Counted, Backed, BackedAt, Opens, OpenAt, Reasons, ReasonAt, Sleeps
\* The counts are never negative.
LEMMA CountsNat ==
    ASSUME Inv, pipe \in Pipes
    PROVE  /\ pipe.readers \in Nat /\ pipe.writers \in Nat /\ CountedBy(pipe)
           /\ pipe.readers # 0 \/ pipe.writers # 0
<1>1. CountedBy(pipe) /\ (pipe.readers # 0 \/ pipe.writers # 0)
    BY PipeAssumption DEF Inv, Counted
<1>2. Holders("r") \in SUBSET Procs /\ Holders("w") \in SUBSET Procs
    BY DEF Holders
<1>3. QED
    BY <1>1, <1>2, ProcsFinite DEF CountedBy

\* p gets a file with the ends and is counted for them, from the pipe before to pi.
LEMMA OpenBalanced ==
    ASSUME NEW p \in Procs, NEW before, NEW pi, NEW ends \in {{"r"}, {"w"}, {"r", "w"}},
           pc[p] \in {"idle", "lookup"}, file[p] = NULL, pc'[p] \in {"idle", "open"},
           before \in Pipes, pi \in Pipes,
           file'[p] # NULL, file'[p].ends = ends,
           pi.readers = IF "r" \in ends THEN before.readers + 1 ELSE before.readers,
           pi.writers = IF "w" \in ends THEN before.writers + 1 ELSE before.writers,
           pi.waiting_readers = before.waiting_readers,
           pi.waiting_writers = before.waiting_writers
    PROVE  Balanced(p, before, pi)
<1>1. /\ At(pc[p], {"read"}) = 0 /\ At(pc[p], {"write", "write_more"}) = 0
      /\ At(pc'[p], {"read"}) = 0 /\ At(pc'[p], {"write", "write_more"}) = 0
    BY DEF At
<1>2. /\ EndOf(file[p], "r") = 0 /\ EndOf(file[p], "w") = 0
      /\ EndOf(file'[p], "r") = IF "r" \in ends THEN 1 ELSE 0
      /\ EndOf(file'[p], "w") = IF "w" \in ends THEN 1 ELSE 0
    BY DEF EndOf
<1>3. QED
    BY <1>1, <1>2 DEF Balanced, Pipes

\* The open through /proc finds the pipe.
LEMMA PipeOpenStep ==
    ASSUME Inv, NEW p \in Procs, NEW ends \in {{"r"}, {"w"}, {"r", "w"}},
           NEW nonblock \in BOOLEAN, pipe_open(p, ends, nonblock), pipe # NULL
    PROVE  Inv'
<1>1. /\ pc[p] = "lookup" /\ file[p] = NULL /\ pipe \in Pipes /\ ~pipe.fifo
      /\ state[p] = TASK_RUNNING
    BY IdleRuns DEF pipe_open, Inv, Types, Backed, BackedAt, Sleeps
<1>2. pipe.readers \in Nat /\ pipe.writers \in Nat
    BY <1>1, CountsNat
<1>3. Ended(p, FALSE)
    BY <1>1 DEF pipe_open, Ended, Inv, Types, Queued, Places, Sleeps
<1>4. PICK f \in Files : f.ends = ends /\ file' = [file EXCEPT ![p] = f]
    BY DEF pipe_open, Files
<1>5. /\ pipe' \in Pipes
      /\ pipe'.readers = IF "r" \in ends THEN pipe.readers + 1 ELSE pipe.readers
      /\ pipe'.writers = IF "w" \in ends THEN pipe.writers + 1 ELSE pipe.writers
      /\ pipe'.len = pipe.len /\ pipe'.fifo = pipe.fifo
      /\ pipe'.waiting_readers = pipe.waiting_readers
      /\ pipe'.waiting_writers = pipe.waiting_writers
    BY <1>1, CountPipe DEF pipe_open
<1>6. /\ file' \in [Procs -> Files \cup {NULL}] /\ file'[p] = f /\ f # NULL
      /\ \A q \in Procs \ {p} : file'[q] = file[q]
    BY <1>4, PipeAssumption DEF Inv, Types
<1>7. pc'[p] = "idle" /\ state'[p] = TASK_RUNNING
    BY <1>1 DEF pipe_open, Inv, Types
<1>8. Balanced(p, pipe, pipe')
    <2>1. PICK before, pi : before = pipe /\ pi = pipe'
        OBVIOUS
    <2>2. QED
        BY <1>1, <1>4, <1>5, <1>6, <1>7, <2>1, OpenBalanced
<1>9. Kept(FALSE)
    <2>1. pipe.writers > 0 => pipe'.writers > 0
        BY <1>2, <1>5
    <2>2. pipe.readers > 0 => pipe'.readers > 0
        BY <1>2, <1>5
    <2>3. QED
        BY <1>1, <1>5, <2>1, <2>2, Zenon DEF Kept
<1>10. BackedAt(p)' /\ OpenAt(p)' /\ ReasonAt(p)'
    BY <1>5, <1>7, PipeAssumption
       DEF BackedAt, OpenAt, ReasonAt, TASK_RUNNING, TASK_INTERRUPTIBLE, Sleeps
<1>11. pipe'.readers # 0 \/ pipe'.writers # 0
    BY <1>2, <1>5
<1>12. QED
    BY <1>1, <1>3, <1>5, <1>6, <1>8, <1>9, <1>10, <1>11, Finish

\* A step of p on the way through /proc that leaves the pipe alone.
LEMMA MoveStep ==
    ASSUME Inv, NEW p \in Procs, pc[p] \notin Sleeps, NEW where \in {"lookup", "dead"},
           file[p] = NULL, where = "lookup" => ~pipe.fifo,
           pc' = [pc EXCEPT ![p] = where],
           UNCHANGED <<pipe, wait, file, state, sig, count, cur, moved>>
    PROVE  Inv'
<1>1. /\ pc' \in [Procs -> Places] /\ pc'[p] = where /\ where \notin Sleeps
      /\ \A q \in Procs \ {p} : pc'[q] = pc[q]
    BY DEF Inv, Types, Places, Sleeps
<1>2. Types' /\ Queued'
    BY <1>1 DEF Inv, Types, Queued
<1>3. Backed' /\ Opens'
    BY <1>1 DEF Inv, Backed, BackedAt, Opens, OpenAt, Partner, Others, Sleeps
<1>4. Counted'
    <2>1. ASSUME NEW places \in SUBSET Sleeps
          PROVE  Waiting(places)' = Waiting(places)
        BY <1>1 DEF Waiting
    <2>2. {"read"} \in SUBSET Sleeps /\ {"write", "write_more"} \in SUBSET Sleeps
        BY DEF Sleeps
    <2>3. QED
        BY <2>1, <2>2 DEF Inv, Counted, CountedBy, Holders
<1>5. Reasons'
    BY <1>1 DEF Inv, Queued, Reasons, ReasonAt, HasReason, Partner
<1>6. QED
    BY <1>2, <1>3, <1>4, <1>5 DEF Inv

LEMMA LookupStep == ASSUME Inv, NEW p \in Procs, proc_lookupfd(p) PROVE Inv'
BY MoveStep DEF proc_lookupfd, Sleeps

\* The pipe is gone when the open has i_sem.
LEMMA NullOpenStep ==
    ASSUME Inv, NEW p \in Procs, NEW ends, NEW nonblock, pipe_open(p, ends, nonblock),
           pipe = NULL
    PROVE  Inv'
<1>1. pc[p] \notin Sleeps /\ file[p] = NULL
    BY DEF pipe_open, Inv, Backed, BackedAt, Sleeps
<1>2. QED
    BY <1>1, MoveStep DEF pipe_open

\* The first opening of an end, and every one while nobody has it, wakes.
LEMMA OpenKept ==
    ASSUME Inv, pipe \in Pipes, NEW ends \in {{"r"}, {"w"}, {"r", "w"}},
           NEW wake \in BOOLEAN, pipe' = Opened(pipe, ends), wake = FirstOf(pipe', ends)
    PROVE  Kept(wake)
<1>1. pipe.readers \in Nat /\ pipe.writers \in Nat
    BY CountsNat
<1>2. /\ pipe'.readers = IF "r" \in ends THEN pipe.readers + 1 ELSE pipe.readers
      /\ pipe'.writers = IF "w" \in ends THEN pipe.writers + 1 ELSE pipe.writers
      /\ pipe'.r_counter = IF "r" \in ends THEN pipe.r_counter + 1 ELSE pipe.r_counter
      /\ pipe'.w_counter = IF "w" \in ends THEN pipe.w_counter + 1 ELSE pipe.w_counter
      /\ pipe'.len = pipe.len /\ pipe'.fifo = pipe.fifo
    BY OpenedPipe
<1>3. ("r" \in ends /\ pipe'.readers = 1 => wake) /\ ("w" \in ends /\ pipe'.writers = 1 => wake)
    <2>1. CASE "r" \in ends /\ pipe'.readers = 1
        BY <2>1 DEF FirstOf
    <2>2. CASE "w" \in ends /\ pipe'.writers = 1
        BY <2>2 DEF FirstOf
    <2>3. QED
        BY <2>1, <2>2
<1>4. EndKept(pipe.r_counter, pipe.readers, pipe'.r_counter, pipe'.readers, wake)
    BY <1>1, <1>2, <1>3 DEF EndKept
<1>5. EndKept(pipe.w_counter, pipe.writers, pipe'.w_counter, pipe'.writers, wake)
    BY <1>1, <1>2, <1>3 DEF EndKept
<1>6. QED
    BY <1>1, <1>2, <1>4, <1>5 DEF Kept

LEMMA FifoOpenStep ==
    ASSUME Inv, NEW p \in Procs, NEW ends \in {{"r"}, {"w"}, {"r", "w"}},
           NEW nonblock \in BOOLEAN, fifo_open(p, ends, nonblock)
    PROVE  Inv'
<1> DEFINE before == IF pipe = NULL THEN pipe_new(TRUE) ELSE pipe
           pi == Opened(before, ends)
<1>1. /\ pc[p] = "idle" /\ file[p] = NULL /\ before.fifo /\ pipe' = pi
      /\ state[p] = TASK_RUNNING
    BY IdleRuns DEF fifo_open, Sleeps
<1>2. before \in Pipes
    BY NewPipe DEF Inv, Types
<1>3. PICK wake \in BOOLEAN : wake = FirstOf(pi, ends)
    BY DEF FirstOf
<1>4. PICK f \in Files : f.ends = ends /\ file' = [file EXCEPT ![p] = f]
    BY DEF fifo_open, Files
<1>5. \/ ends = {"r"} /\ pi.writers = 0 /\ pipe_wait(p, "open", 0, pi.w_counter, wake)
      \/ ends = {"w"} /\ pi.readers = 0 /\ pipe_wait(p, "open", 0, pi.r_counter, wake)
      \/ Return(p, wake, FALSE)
    BY <1>3 DEF fifo_open
<1>6. /\ pi \in Pipes
      /\ pi.readers = IF "r" \in ends THEN before.readers + 1 ELSE before.readers
      /\ pi.writers = IF "w" \in ends THEN before.writers + 1 ELSE before.writers
      /\ pi.fifo = before.fifo
      /\ pi.waiting_readers = before.waiting_readers
      /\ pi.waiting_writers = before.waiting_writers
    BY <1>2, OpenedPipe
<1>7. /\ file' \in [Procs -> Files \cup {NULL}] /\ file'[p] = f /\ f # NULL
      /\ \A q \in Procs \ {p} : file'[q] = file[q]
    BY <1>4, PipeAssumption DEF Inv, Types
<1>8. pipe' \in Pipes /\ pipe' # NULL /\ pipe'.fifo
    BY <1>1, <1>6, PipeAssumption
<1>9. before.readers \in Nat /\ before.writers \in Nat
    <2>1. CASE pipe = NULL
        BY <2>1 DEF pipe_new
    <2>2. CASE pipe # NULL
        BY <1>2, <2>2, CountsNat
    <2>3. QED
        BY <2>1, <2>2
<1> HIDE DEF before, pi
<1>10. pipe'.readers # 0 \/ pipe'.writers # 0
    BY <1>1, <1>6, <1>9
<1>11. /\ Ended(p, wake) /\ pc'[p] \in {"idle", "open"}
       /\ BackedAt(p)' /\ OpenAt(p)' /\ ReasonAt(p)'
    <2>1. CASE ends = {"r"} /\ pi.writers = 0 /\ pipe_wait(p, "open", 0, pi.w_counter, wake)
        <3>1. pi.w_counter \in Int
            BY <1>6 DEF Pipes
        <3>2. Ended(p, wake) /\ pc'[p] = "open" /\ cur'[p] = pi.w_counter
            BY <2>1, <3>1, WaitEnds DEF Inv, Places, Sleeps
        <3>3. Partner(p)' = cur'[p] /\ Others(p)' = 0
            BY <1>1, <1>4, <1>7, <2>1, <3>2 DEF Partner, Others
        <3>4. QED
            BY <1>4, <1>7, <1>8, <2>1, <3>1, <3>2, <3>3
               DEF BackedAt, OpenAt, ReasonAt, HasReason
    <2>2. CASE ends = {"w"} /\ pi.readers = 0 /\ pipe_wait(p, "open", 0, pi.r_counter, wake)
        <3>1. pi.r_counter \in Int
            BY <1>6 DEF Pipes
        <3>2. Ended(p, wake) /\ pc'[p] = "open" /\ cur'[p] = pi.r_counter
            BY <2>2, <3>1, WaitEnds DEF Inv, Places, Sleeps
        <3>3. Partner(p)' = cur'[p] /\ Others(p)' = 0
            BY <1>1, <1>4, <1>7, <2>2, <3>2 DEF Partner, Others
        <3>4. QED
            BY <1>4, <1>7, <1>8, <2>2, <3>1, <3>2, <3>3
               DEF BackedAt, OpenAt, ReasonAt, HasReason
    <2>3. CASE Return(p, wake, FALSE)
        <3>1. Ended(p, wake) /\ pc'[p] = "idle" /\ state'[p] = TASK_RUNNING
            BY <1>1, <2>3, ReturnEnds DEF Inv
        <3>2. QED
            BY <1>8, <3>1 DEF BackedAt, OpenAt, ReasonAt, TASK_RUNNING, TASK_INTERRUPTIBLE, Sleeps
    <2>4. QED
        BY <1>5, <2>1, <2>2, <2>3
<1>12. Balanced(p, before, pipe')
    <2>1. PICK b, n : b = before /\ n = pipe'
        OBVIOUS
    <2>2. Balanced(p, b, n)
        BY <1>1, <1>2, <1>4, <1>6, <1>7, <1>11, <2>1, OpenBalanced
    <2>3. QED
        BY <2>1, <2>2
<1>13. CASE pipe = NULL
    <2>1. Balanced(p, pipe_new(TRUE), pipe')
        BY <1>12, <1>13 DEF before
    <2>2. QED
        BY <1>7, <1>8, <1>10, <1>11, <1>13, <2>1, FinishNew DEF fifo_open
<1>14. CASE pipe # NULL
    <2>1. before = pipe /\ pipe \in Pipes
        BY <1>2, <1>14 DEF before
    <2>2. Kept(wake)
        BY <1>1, <1>3, <2>1, OpenKept DEF pi
    <2>3. QED
        BY <1>7, <1>8, <1>10, <1>11, <1>12, <2>1, <2>2, Finish
<1>15. QED
    BY <1>13, <1>14
LEMMA OpenAgainStep ==
    ASSUME Inv, NEW p \in Procs, OpenAgain(p)
    PROVE  Inv'
<1>1. /\ pc[p] = "open" /\ file[p] # NULL /\ UNCHANGED <<pipe, file>> /\ Partner(p) = cur[p]
      /\ pipe_wait(p, "open", 0, cur[p], FALSE) /\ cur[p] \in Int
    BY DEF OpenAgain, Resumed, Inv, Backed, BackedAt, Types, Sleeps
<1>2. pipe \in Pipes
    BY <1>1, HasPipe
<1>3. Ended(p, FALSE) /\ pc'[p] = "open" /\ cur'[p] = cur[p]
    BY <1>1, WaitEnds DEF Inv, Places, Sleeps
<1>4. Kept(FALSE)
    BY <1>1 DEF Kept, EndKept
<1>5. Balanced(p, pipe, pipe')
    <2>1. \A end : EndOf(file[p], end) \in Int
        BY DEF EndOf
    <2>2. \A places : At(pc[p], places) \in Int
        BY DEF At
    <2>3. QED
        BY <1>1, <1>2, <1>3, <2>1, <2>2 DEF Balanced, Pipes
<1>6. BackedAt(p)' /\ OpenAt(p)'
    BY <1>1, <1>3 DEF BackedAt, OpenAt, Partner, Others, Inv, Backed, Opens
<1>7. ReasonAt(p)'
    BY <1>1, <1>3 DEF ReasonAt, HasReason, Partner
<1>8. pipe'.readers # 0 \/ pipe'.writers # 0
    BY <1>1, <1>2, CountsNat
<1>9. QED
    BY <1>1, <1>2, <1>3, <1>4, <1>5, <1>6, <1>7, <1>8, Finish DEF Inv, Types

LEMMA OpenDoneStep ==
    ASSUME Inv, NEW p \in Procs, OpenDone(p)
    PROVE  Inv'
<1>1. /\ pc[p] = "open" /\ state[p] = TASK_RUNNING /\ file[p] # NULL
      /\ UNCHANGED <<pipe, file>> /\ Return(p, FALSE, FALSE)
    BY DEF OpenDone, Resumed, Inv, Backed, BackedAt, Sleeps
<1>2. pipe \in Pipes
    BY <1>1, HasPipe
<1>3. Off(p, pipe')
    BY <1>1, <1>2 DEF Off, At, Pipes
<1>4. QED
    BY <1>1, <1>3, ReturnStep

\* p gives up its file, when it closes it or does not get to open it. If that leaves
\* nobody at one of its ends, the others are woken.
LEMMA CloseStep ==
    ASSUME Inv, NEW p \in Procs, file[p] # NULL, state[p] = TASK_RUNNING,
           pc[p] \in {"idle", "open"}, NEW pi, pi = Closed(pipe, file[p].ends),
           pipe' = FreeIfUnused(pi), file' = [file EXCEPT ![p] = NULL],
           NEW wake \in BOOLEAN, Return(p, wake, FALSE),
           "r" \in file[p].ends /\ pi.readers = 0 => wake \/ pi.writers = 0,
           "w" \in file[p].ends /\ pi.writers = 0 => wake \/ pi.readers = 0
    PROVE  Inv'
<1>1. pipe \in Pipes /\ file[p] \in Files
    BY HasPipe
<1>2. pipe.readers \in Nat /\ pipe.writers \in Nat /\ CountedBy(pipe)
    BY <1>1, CountsNat
<1>3. Ended(p, wake) /\ pc'[p] = "idle" /\ state'[p] = TASK_RUNNING
    BY ReturnEnds DEF Inv
<1>4. /\ pi \in Pipes
      /\ pi.readers = IF "r" \in file[p].ends THEN pipe.readers - 1 ELSE pipe.readers
      /\ pi.writers = IF "w" \in file[p].ends THEN pipe.writers - 1 ELSE pipe.writers
      /\ pi.len = pipe.len /\ pi.fifo = pipe.fifo
      /\ pi.waiting_readers = pipe.waiting_readers
      /\ pi.waiting_writers = pipe.waiting_writers
      /\ pi.r_counter = pipe.r_counter /\ pi.w_counter = pipe.w_counter
    <2>0. PICK by \in Int : by = -1
        OBVIOUS
    <2>1. PICK ends : ends = file[p].ends
        OBVIOUS
    <2>2. pi = Count(pipe, ends, by)
        BY <2>0, <2>1 DEF Closed
    <2>3. QED
        BY <1>1, <2>0, <2>1, <2>2, CountPipe DEF Pipes
<1>5. /\ file' \in [Procs -> Files \cup {NULL}] /\ file'[p] = NULL
      /\ \A q \in Procs \ {p} : file'[q] = file[q]
    BY DEF Inv, Types
<1>6. Balanced(p, pipe, pi)
    <2>1. /\ At(pc[p], {"read"}) = 0 /\ At(pc[p], {"write", "write_more"}) = 0
          /\ At(pc'[p], {"read"}) = 0 /\ At(pc'[p], {"write", "write_more"}) = 0
        BY <1>3 DEF At
    <2>2. /\ EndOf(file[p], "r") = IF "r" \in file[p].ends THEN 1 ELSE 0
          /\ EndOf(file[p], "w") = IF "w" \in file[p].ends THEN 1 ELSE 0
          /\ EndOf(file'[p], "r") = 0 /\ EndOf(file'[p], "w") = 0
        BY <1>5 DEF EndOf
    <2>3. QED
        BY <1>1, <1>4, <2>1, <2>2 DEF Balanced, Pipes
<1>7. /\ "r" \in file[p].ends => pipe.readers > 0
      /\ "w" \in file[p].ends => pipe.writers > 0
    <2>1. ASSUME NEW end, end \in file[p].ends PROVE Cardinality(Holders(end)) > 0
        <3>1. p \in Holders(end) /\ Holders(end) \in SUBSET Procs
            BY <2>1 DEF Holders
        <3>2. Cardinality(Holders(end)) \in Nat
            BY <3>1, ProcsFinite
        <3>3. QED
            BY <3>1, <3>2, EmptySet
    <2>2. QED
        BY <2>1, <1>2 DEF CountedBy
<1>8. CASE pi.readers = 0 /\ pi.writers = 0
    <2>1. pipe' = NULL
        BY <1>8 DEF FreeIfUnused
    <2>2. QED
        BY <1>1, <1>3, <1>5, <1>6, <1>8, <2>1, FinishFreed
<1>9. CASE ~(pi.readers = 0 /\ pi.writers = 0)
    <2>1. pipe' = pi
        BY <1>9 DEF FreeIfUnused
    <2>2. /\ EndKept(pipe.r_counter, pipe.readers, pipe'.r_counter, pipe'.readers, wake)
          /\ EndKept(pipe.w_counter, pipe.writers, pipe'.w_counter, pipe'.writers, wake)
        BY <1>4, <1>7, <2>1 DEF EndKept
    <2>3. ~wake => /\ pipe.writers > 0 => pipe'.writers > 0
                   /\ pipe.readers > 0 => pipe'.readers > 0
        BY <1>2, <1>4, <1>7, <1>9, <2>1
    <2>4. Kept(wake)
        BY <1>4, <2>1, <2>2, <2>3 DEF Kept
    <2>5. BackedAt(p)' /\ OpenAt(p)' /\ ReasonAt(p)'
        BY <1>3, <1>5 DEF BackedAt, OpenAt, ReasonAt, TASK_RUNNING, TASK_INTERRUPTIBLE, Sleeps
    <2>6. pipe' \in Pipes /\ (pipe'.readers # 0 \/ pipe'.writers # 0) /\ Balanced(p, pipe, pipe')
        BY <1>4, <1>6, <1>9, <2>1
    <2>7. QED
        BY <1>1, <1>3, <1>5, <2>4, <2>5, <2>6, Finish
<1>10. QED
    BY <1>8, <1>9

LEMMA OpenSignalStep ==
    ASSUME Inv, NEW p \in Procs, OpenSignal(p)
    PROVE  Inv'
<1>1. /\ file[p] # NULL /\ state[p] = TASK_RUNNING /\ pc[p] = "open"
      /\ file[p].ends \in {{"r"}, {"w"}}
    BY DEF OpenSignal, Resumed, Inv, Backed, BackedAt, Sleeps
<1>2. PICK pi : pi = Closed(pipe, file[p].ends)
    OBVIOUS
<1>3. PICK wake \in BOOLEAN :
          wake = IF file[p].ends = {"r"} THEN pi.readers = 0 ELSE pi.writers = 0
    OBVIOUS
<1>4. /\ pipe' = FreeIfUnused(pi) /\ file' = [file EXCEPT ![p] = NULL]
      /\ Return(p, wake, FALSE)
    BY <1>2, <1>3 DEF OpenSignal
<1>5. /\ "r" \in file[p].ends /\ pi.readers = 0 => wake
      /\ "w" \in file[p].ends /\ pi.writers = 0 => wake
    BY <1>1, <1>3
<1>6. QED
    BY <1>1, <1>2, <1>4, <1>5, CloseStep

LEMMA ReleaseStep ==
    ASSUME Inv, NEW p \in Procs, pipe_release(p)
    PROVE  Inv'
<1>1. file[p] # NULL /\ state[p] = TASK_RUNNING /\ pc[p] = "idle"
    BY IdleRuns DEF pipe_release, Sleeps
<1>2. PICK pi : pi = Closed(pipe, file[p].ends)
    OBVIOUS
<1>3. PICK wake \in BOOLEAN : wake = (pi.readers # 0 \/ pi.writers # 0)
    OBVIOUS
<1>4. /\ pipe' = FreeIfUnused(pi) /\ file' = [file EXCEPT ![p] = NULL]
      /\ Return(p, wake, FALSE)
    BY <1>2, <1>3 DEF pipe_release
<1>5. QED
    BY <1>1, <1>2, <1>3, <1>4, CloseStep

LEMMA DoPipeStep ==
    ASSUME Inv, NEW p \in Procs, NEW q \in Procs, do_pipe(p, q)
    PROVE  Inv'
<1>1. pipe = NULL /\ p # q
    BY DEF do_pipe
<1>2. /\ \A u \in Procs : file[u] = NULL /\ pc[u] \notin Sleeps /\ state[u] # TASK_INTERRUPTIBLE
      /\ \A u \in Procs : pc[u] # "lookup"
      /\ pc[p] = "idle" /\ pc[q] = "idle"
    BY <1>1, NewPipe DEF do_pipe, NextInode
<1>3. /\ pipe' \in Pipes /\ pipe'.readers = 1 /\ pipe'.writers = 1
      /\ pipe'.waiting_readers = 0 /\ pipe'.waiting_writers = 0
    <2>1. PICK new \in Pipes : /\ new = pipe_new(FALSE) /\ new.waiting_readers = 0
                               /\ new.waiting_writers = 0
        BY <1>1, NewPipe DEF pipe_new
    <2>2. PICK one \in Int : one = 1
        OBVIOUS
    <2>3. pipe' = [new EXCEPT !.readers = one, !.writers = one]
        BY <2>1, <2>2 DEF do_pipe
    <2>4. QED
        BY <2>1, <2>2, <2>3 DEF Pipes
<1>4. PICK f \in Files, g \in Files :
          /\ f.ends = {"r"} /\ g.ends = {"w"}
          /\ file' = [file EXCEPT ![p] = f, ![q] = g]
    BY DEF do_pipe, Files
<1>5. f # NULL /\ g # NULL
    BY PipeAssumption
<1>6. /\ file' \in [Procs -> Files \cup {NULL}] /\ file'[p] = f /\ file'[q] = g
      /\ \A u \in Procs \ {p, q} : file'[u] = NULL
    BY <1>1, <1>2, <1>4 DEF Inv, Types
<1>7. UNCHANGED <<wait, pc, state, sig, count, cur>> /\ moved' = FALSE
    BY DEF do_pipe
<1>8. Types' /\ Queued'
    BY <1>3, <1>6, <1>7 DEF Inv, Types, Queued
<1>9. \A u \in Procs : BackedAt(u)' /\ OpenAt(u)' /\ ReasonAt(u)'
    BY <1>2, <1>3, <1>6, <1>7, PipeAssumption DEF BackedAt, OpenAt, ReasonAt, Sleeps
<1>10. Holders("r")' = {p} /\ Holders("w")' = {q}
    BY <1>1, <1>4, <1>5, <1>6 DEF Holders
<1>11. Waiting({"read"})' = {} /\ Waiting({"write", "write_more"})' = {}
    BY <1>2, <1>7 DEF Waiting, Sleeps
<1>12. Counted'
    BY <1>3, <1>10, <1>11, FS_Singleton, FS_EmptySet DEF Counted, CountedBy
<1>13. QED
    BY <1>8, <1>9, <1>12 DEF Inv, Backed, Opens, Reasons

LEMMA SignalStep ==
    ASSUME Inv, NEW p \in Procs, Signal(p)
    PROVE  Inv'
<1>1. UNCHANGED <<pipe, wait, file, pc, count, cur, moved>>
    BY DEF Signal
<1>2. /\ state' \in [Procs -> {TASK_RUNNING, TASK_INTERRUPTIBLE}]
      /\ \A q \in Procs : state'[q] = TASK_INTERRUPTIBLE => state[q] = TASK_INTERRUPTIBLE
    BY DEF Signal, Inv, Types, TASK_RUNNING, TASK_INTERRUPTIBLE
<1>3. Types' /\ Queued'
    BY <1>1, <1>2 DEF Signal, Inv, Types, Queued
<1>4. Backed' /\ Opens'
    BY <1>1 DEF Inv, Backed, BackedAt, Opens, OpenAt, Partner, Others
<1>5. Counted'
    BY <1>1 DEF Inv, Counted, CountedBy, Holders, Waiting
<1>6. Reasons'
    BY <1>1, <1>2 DEF Inv, Reasons, ReasonAt, HasReason, Partner
<1>7. QED
    BY <1>3, <1>4, <1>5, <1>6 DEF Inv

-----------------------------------------------------------------------------
LEMMA InvInit == ASSUME Init PROVE Inv
<1>1. Types
    <2>1. wait \in Seq(Entries)
        BY EmptySeq DEF Init
    <2>2. pipe \in Pipes \cup {NULL} /\ sig \in SUBSET Procs
        BY Zenon DEF Init
    <2>3. moved \in BOOLEAN
        BY Zenon DEF Init
    <2>4. file \in [Procs -> Files \cup {NULL}] /\ pc \in [Procs -> Places]
        BY Zenon DEF Init, Places
    <2>5. state \in [Procs -> {TASK_RUNNING, TASK_INTERRUPTIBLE}]
        BY Zenon DEF Init
    <2>6. count \in [Procs -> Nat] /\ cur \in [Procs -> Int]
        <3>1. count = [p \in Procs |-> 0] /\ cur = [p \in Procs |-> 0]
            BY Zenon DEF Init
        <3>2. QED
            BY <3>1
    <2>7. QED
        BY <2>1, <2>2, <2>3, <2>4, <2>5, <2>6, Zenon DEF Types
<1>2. Queued
    <2>1. DOMAIN wait = {}
        BY DEF Init
    <2>2. QED
        BY <2>1 DEF Init, Queued, OnQueue, NoRepeats, TASK_RUNNING, TASK_INTERRUPTIBLE, Sleeps
<1>3. QED
    BY <1>1, <1>2 DEF Init, Inv, Backed, BackedAt, Counted, Opens, OpenAt, Reasons, ReasonAt,
                      TASK_RUNNING, TASK_INTERRUPTIBLE, Sleeps

LEMMA InvNext == ASSUME Inv, [Next]_vars PROVE Inv'
<1>1. CASE UNCHANGED vars
    BY <1>1 DEF vars, Inv, Types, Queued, Backed, BackedAt, Counted, CountedBy, Holders,
                Waiting, Opens, OpenAt, Partner, Others, Reasons, ReasonAt, HasReason
<1>2. CASE Next
    <2>1. PICK p \in Procs :
              \/ \E q \in Procs : do_pipe(p, q)
              \/ \E m \in Modes, nonblock \in BOOLEAN :
                     fifo_open(p, Ends(m), nonblock) \/ pipe_open(p, Ends(m), nonblock)
              \/ proc_lookupfd(p)
              \/ OpenAgain(p) \/ OpenDone(p) \/ OpenSignal(p) \/ pipe_release(p)
              \/ \E n \in Counts : pipe_read(p, n) \/ pipe_write(p, n)
              \/ ReadResume(p)
              \/ WriteResume(p, "write", Need(count[p])) \/ WriteResume(p, "write_more", 1)
              \/ Signal(p)
        BY <1>2 DEF Next
    <2>2. CASE \E q \in Procs : do_pipe(p, q)
        BY <2>2, DoPipeStep
    <2>3. CASE \E m \in Modes, nonblock \in BOOLEAN :
                   fifo_open(p, Ends(m), nonblock) \/ pipe_open(p, Ends(m), nonblock)
        <3>1. PICK m \in Modes, nonblock \in BOOLEAN :
                  fifo_open(p, Ends(m), nonblock) \/ pipe_open(p, Ends(m), nonblock)
            BY <2>3
        <3>2. Ends(m) \in {{"r"}, {"w"}, {"r", "w"}}
            BY EndsOfModes
        <3>3. QED
            BY <3>1, <3>2, FifoOpenStep, PipeOpenStep, NullOpenStep
    <2>4. CASE OpenAgain(p) \/ OpenDone(p) \/ OpenSignal(p) \/ pipe_release(p)
        BY <2>4, OpenAgainStep, OpenDoneStep, OpenSignalStep, ReleaseStep
    <2>5. CASE \E n \in Counts : pipe_read(p, n) \/ pipe_write(p, n)
        BY <2>5, ReadStep, WriteStep
    <2>6. CASE ReadResume(p) \/ Signal(p) \/ proc_lookupfd(p)
        BY <2>6, ReadResumeStep, SignalStep, LookupStep
    <2>7. CASE WriteResume(p, "write", Need(count[p]))
        <3>1. PICK room : room = Need(count[p])
            OBVIOUS
        <3>2. QED
            BY <2>7, <3>1, WriteResumeStep
    <2>8. CASE WriteResume(p, "write_more", 1)
        BY <2>8, WriteResumeStep
    <2>9. QED
        BY <2>1, <2>2, <2>3, <2>4, <2>5, <2>6, <2>7, <2>8
<1>3. QED
    BY <1>1, <1>2

\* The invariant holds of every behaviour of fs/pipe.c and fs/fifo.c.
THEOREM Invariance == Spec => []Inv
<1>1. Init => Inv
    BY InvInit
<1>2. Inv /\ [Next]_vars => Inv'
    BY InvNext
<1>3. QED
    BY <1>1, <1>2, PTL DEF Spec

\* The ends and the waiting processes are counted exactly, and the pipe is freed when
\* nobody has it any more and never under a process that sleeps in pipe_wait.
THEOREM CountsAreExact == Spec => []EndsCounted
<1>1. ASSUME Inv PROVE EndsCounted
    <2>1. CASE pipe = NULL
        <3>1. \A p \in Procs : file[p] = NULL /\ pc[p] \notin Sleeps
            BY <2>1, <1>1, NewPipe
        <3>2. file = [p \in Procs |-> NULL]
            BY <1>1, <3>1 DEF Inv, Types
        <3>3. wait = <<>>
            <4>3. wait \in Seq(Entries) /\ Len(wait) \in Nat
                BY <1>1 DEF Inv, Types
            <4>0. \A i \in 1 .. Len(wait) : wait[i] \in Entries /\ i \in DOMAIN wait
                BY <4>3, ElementOfSeq
            <4>1. \A i \in 1 .. Len(wait) : wait[i].task \in Procs
                BY <4>0 DEF Entries
            <4>2. \A i \in 1 .. Len(wait) : FALSE
                BY <1>1, <3>1, <4>0, <4>1 DEF Inv, Queued, OnQueue
            <4>4. Len(wait) = 0
                BY <4>2, <4>3
            <4>5. QED
                BY <4>3, <4>4, EmptySeq
        <3>4. QED
            BY <2>1, <3>2, <3>3 DEF EndsCounted
    <2>2. CASE pipe # NULL
        <3>1. CountedBy(pipe)
            BY <1>1, <2>2 DEF Inv, Counted
        <3>2. Waiting({"read"}) = {p \in Procs : pc[p] = "read"}
            BY DEF Waiting
        <3>3. QED
            BY <2>2, <3>1, <3>2 DEF CountedBy, EndsCounted, Waiting
    <2>3. QED
        BY <2>1, <2>2
<1>2. QED
    BY <1>1, Invariance, PTL

\* Nobody sleeps in read, write or open past the event it waits for.
THEOREM NoEventIsMissed == Spec => []NoMissedEvent
<1>1. Inv => NoMissedEvent
    BY DEF Inv, Reasons, ReasonAt, NoMissedEvent
<1>2. QED
    BY <1>1, Invariance, PTL
=============================================================================
