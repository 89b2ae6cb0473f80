---------------------------- MODULE SysvMsgProofs ---------------------------
(***************************************************************************)
(* Proofs about System V message queues, for every number of processes,    *)
(* queues and messages, every size of the table and all the sizes, types   *)
(* and permissions the calls may be given: every message is in one place,  *)
(* no receiver and no sender sleeps while there is something for it, the   *)
(* retry of msgrcv uses no freed queue, the counters describe the queues   *)
(* and messages of one type stay in order.                                 *)
(*                                                                         *)
(* Inv is inductive. It ties the lists of a queue to what the processes on *)
(* them believe (Receiving, Sending), an identifier a sleeper keeps to the *)
(* queue it names, and every message to one spot. The lemmas on what a     *)
(* step means to the other processes come before those on the actions.     *)
(***************************************************************************)
EXTENDS SysvMsg, FiniteSetTheorems, SequenceTheorems, WellFoundedInduction, TLAPS

Slots == 0 .. IPCMNI - 1
RcvPlaces == {"rcv_sleep", "rcv_relock"}
PCs == {"idle", "snd_sleep", "wake", "copyout", "rmid"} \cup RcvPlaces

\* A table of IPCMNI slots. Nothing here depends on in_use and max_id.
Table(tab) ==
    \E n, x : tab \in [size : {IPCMNI}, in_use : {n}, max_id : {x}, seq : 0 .. SeqMax,
                       entries : [Slots -> Perms \cup {NULL}]]

MsgQueue ==
    [messages : Seq(Message), receivers : Seq(Procs), senders : Seq(Procs),
     cbytes : Int, qnum : Int, qbytes : Nat,
     lspid : Procs \cup {NULL}, lrpid : Procs \cup {NULL},
     readers : SUBSET Procs, writers : SUBSET Procs]
SndArgs == [msqid : MsqIds, nowait : BOOLEAN, msg : Message \cup {NULL}]
RcvArgs == [msqid : MsqIds, mode : SearchModes, type : Int, size : Int,
            nowait : BOOLEAN, noerror : BOOLEAN]

QueueTypes ==
    /\ Table(ids)
    /\ queue \in [Queues -> MsgQueue]
    /\ nqueues \in 0 .. MaxQueues
ProcTypes ==
    /\ nmsgs \in 0 .. MaxMsgs
    /\ sem \in Procs \cup {NULL} /\ ary \in Procs \cup {NULL}
    /\ pc \in [Procs -> PCs]
    /\ asleep \in SUBSET Procs /\ sig \in SUBSET Procs
    /\ cur \in [Procs -> Queues \cup {NULL}]
    /\ snd \in [Procs -> SndArgs]
    /\ linked \in [Procs -> BOOLEAN]
    /\ rcv \in [Procs -> RcvArgs]
    /\ rmsg \in [Procs -> Message \cup Errors]
    /\ inmsg \in [Procs -> Message \cup {NULL}]
    /\ taker \in [Procs -> Procs \cup {NULL}]
    /\ freed \in SUBSET (0 .. MaxMsgs - 1)
    /\ hdrs \in Int /\ bytes \in Int

\* The queue in each slot of the table, or NULL.
ObjAt(tab) == [i \in Slots |-> IF tab.entries[i] = NULL THEN NULL ELSE tab.entries[i].obj]

\* Every queue of the table has been created, and is in one slot.
Slotted ==
    /\ \A i \in Slots : ObjAt(ids)[i] # NULL => ObjAt(ids)[i] < nqueues
    /\ \A i, j \in Slots : ObjAt(ids)[i] # NULL /\ ObjAt(ids)[i] = ObjAt(ids)[j] => i = j

\* A queue is in the table, and an identifier names it.
InTable(k) == k # NULL /\ \E i \in Slots : ObjAt(ids)[i] = k
Names(msqid, k) == k # NULL /\ ObjAt(ids)[Lid(msqid)] = k

Receivers(k) == ToSet(queue[k].receivers)
Senders(k) == ToSet(queue[k].senders)

\* A receiver that nobody has told anything is on the list of its queue, which is
\* still there, has no message for it and, if it sleeps, may be read by it.
Waits(p) == pc[p] \in RcvPlaces /\ rmsg[p] = EAGAIN
Receiving(p) ==
    /\ \A k \in Queues : p \in Receivers(k) <=> Waits(p) /\ cur[p] = k
    /\ Waits(p) => /\ Names(rcv[p].msqid, cur[p])
                   /\ FindMsg(queue[cur[p]].messages, rcv[p].type, rcv[p].mode) = 0
                   /\ p \in asleep => p \in queue[cur[p]].readers
    /\ rmsg[p] # EAGAIN => pc[p] \in RcvPlaces
    /\ inmsg[p] # NULL <=> pc[p] = "copyout"

\* A sender that is linked is on the list of its queue; one that sleeps is linked
\* and has no room.
Sending(p) ==
    /\ \A k \in Queues : p \in Senders(k) <=> linked[p] /\ cur[p] = k
    /\ linked[p] => pc[p] = "snd_sleep" /\ Names(snd[p].msqid, cur[p])
    /\ pc[p] \in {"snd_sleep", "wake"} => snd[p].msg # NULL
    /\ pc[p] = "snd_sleep" /\ p \in asleep =>
          linked[p] /\ Full(queue[cur[p]], snd[p].msg)

\* Where a process is tells what it may hold.
Placed(p) ==
    /\ p \in asleep => pc[p] \in {"snd_sleep", "rcv_sleep"}
    /\ pc[p] = "wake" => cur[p] # NULL /\ taker[p] # NULL
    /\ pc[p] = "rmid" => sem = p /\ cur[p] # NULL /\ cur[p] < nqueues /\ ~InTable(cur[p])

\* Messages are only on queues in the table, or about to be freed.
Owned ==
    \A k \in Queues : queue[k].messages # <<>> =>
        InTable(k) \/ \E p \in Procs : pc[p] = "rmid" /\ cur[p] = k

\* The places a message can be in, and the messages there.
Spots == ({"sender", "handed", "copied"} \X Procs) \cup ({"queue"} \X Queues)
         \cup {<<"freed", 0>>}
IdsOf(messages) == {messages[i].id : i \in DOMAIN messages}
SenderHas(p) == IF pc[p] = "snd_sleep" THEN {snd[p].msg.id} ELSE {}
HandedHas(p) == IF rmsg[p] \in Errors THEN {} ELSE {rmsg[p].id}
CopiedHas(p) == IF inmsg[p] = NULL THEN {} ELSE {inmsg[p].id}
Held ==
    [x \in Spots |-> IF x[1] = "sender" THEN SenderHas(x[2])
                     ELSE IF x[1] = "queue" THEN IdsOf(queue[x[2]].messages)
                     ELSE IF x[1] = "handed" THEN HandedHas(x[2])
                     ELSE IF x[1] = "copied" THEN CopiedHas(x[2])
                     ELSE freed]

\* f holds every element of S in one spot, and nothing else.
OneSpot(f, S) ==
    /\ \A x \in Spots : f[x] \subseteq S
    /\ \A m \in S : \E x \in Spots : m \in f[x]
    /\ \A x, y \in Spots : \A m \in f[x] \cap f[y] : x = y
DistinctIds(messages) == \A i, j \in DOMAIN messages : messages[i].id = messages[j].id => i = j
Conserved ==
    /\ OneSpot(Held, 0 .. nmsgs - 1)
    /\ \A k \in Queues : DistinctIds(queue[k].messages)

\* There are h messages with b bytes in msgs. This holds of the counters of every
\* queue and of those of all of them.
Amount(msgs, h, b) ==
    /\ IsFiniteSet(msgs) /\ h = Cardinality(msgs)
    /\ IsFiniteSet(Bytes(msgs)) /\ b = Cardinality(Bytes(msgs))
CountedAt(q) == Len(q.messages) = q.qnum /\ Amount(ToSet(q.messages), q.qnum, q.cbytes)
Counted ==
    /\ \A k \in Queues : CountedAt(queue[k])
    /\ Amount(On(Queues), hdrs, bytes)

\* The inductive invariant.
Calling(p) == Receiving(p) /\ Sending(p) /\ Placed(p)
Inv ==
    /\ QueueTypes /\ ProcTypes /\ Slotted /\ Owned /\ Conserved /\ Counted
    /\ \A p \in Procs : Calling(p)

(***************************************************************************)
(* Loops over a sequence.                                                  *)
(***************************************************************************)
\* A set of numbers that is not empty has a least element.
LEMMA LeastNumber ==
    ASSUME NEW S \in SUBSET Nat, S # {}
    PROVE  \E x \in S : \A y \in S : x <= y
<1>1. PICK x \in S : \A y \in S : ~ (<<y, x>> \in OpToRel(<, Nat))
    BY NatLessThanWellFounded, WFMin, S \subseteq Nat, Zenon
<1>2. \A y \in S : ~ (y < x)
    BY <1>1 DEF OpToRel
<1>3. QED
    BY <1>2

\* A loop of n turns, given by what each turn makes of a value, has a course.
Loop(A, a, n, turn) == a \in A /\ n \in Nat /\ turn \in [1 .. n -> [A -> A]]
CourseOf(A, a, n, turn, f) ==
    /\ f \in [0 .. n -> A] /\ f[0] = a
    /\ \A i \in 1 .. n : f[i] = turn[i][f[i - 1]]

\* A loop over 1 .. n is a function that satisfies its recursion equation.
LEMMA Iterate ==
    ASSUME NEW A, NEW a, NEW n, NEW turn, Loop(A, a, n, turn)
    PROVE  \E f : CourseOf(A, a, n, turn, f)
<1> USE DEF CourseOf, Loop
<1> DEFINE Course(m, f) == f \in [0 .. m -> A] /\ f[0] = a
                           /\ \A i \in 1 .. m : f[i] = turn[i][f[i - 1]]
           Bad == {m \in 0 .. n : ~ \E f : Course(m, f)}
<1>1. SUFFICES ASSUME Bad # {} PROVE FALSE
    <2>1. n \in 0 .. n
        OBVIOUS
    <2>2. \E f : Course(n, f)
        BY <1>1, <2>1
    <2>3. QED
        BY <2>2
<1>2. PICK m \in Bad : \A y \in Bad : m <= y
    <2>1. Bad \in SUBSET Nat
        OBVIOUS
    <2>2. QED
        BY <1>1, <2>1, LeastNumber
<1>3. m \in 0 .. n /\ ~ \E f : Course(m, f)
    BY <1>2
<1>4. m # 0
    <2>1. PICK g : g = [i \in 0 .. 0 |-> a]
        OBVIOUS
    <2>2. Course(0, g)
        BY <2>1
    <2>3. QED
        BY <1>3, <2>2
<1>5. PICK f : Course(m - 1, f)
    <2>1. m - 1 \in 0 .. n /\ ~ (m <= m - 1)
        BY <1>3, <1>4
    <2>2. m - 1 \notin Bad
        BY <1>2, <2>1
    <2>3. QED
        BY <2>1, <2>2
<1>6. PICK g : g = [i \in 0 .. m |-> IF i = m THEN turn[m][f[m - 1]] ELSE f[i]]
    OBVIOUS
<1>7. Course(m, g)
    <2>1. m \in 1 .. n /\ m - 1 \in 0 .. m - 1 /\ 0 \in 0 .. m - 1
        BY <1>3, <1>4
    <2>2. f[m - 1] \in A /\ turn[m] \in [A -> A] /\ turn[m][f[m - 1]] \in A
        BY <2>1, <1>5
    <2>3. g \in [0 .. m -> A]
        BY <2>1, <2>2, <1>3, <1>5, <1>6
    <2>4. g[0] = a
        BY <2>1, <1>5, <1>6, <1>4
    <2>5. ASSUME NEW i \in 1 .. m PROVE g[i] = turn[i][g[i - 1]]
        <3>1. i - 1 \in 0 .. m - 1 /\ i - 1 \in 0 .. m /\ i - 1 # m /\ i \in 0 .. m
            BY <2>1, SMT
        <3>2. g[i - 1] = f[i - 1]
            BY <3>1, <1>6
        <3>3. CASE i = m
            BY <3>1, <3>2, <3>3, <1>6
        <3>4. CASE i # m
            <4>1. i \in 1 .. m - 1
                BY <3>4, <2>1, SMT
            <4>2. g[i] = f[i] /\ f[i] = turn[i][f[i - 1]]
                BY <4>1, <3>1, <3>4, <1>5, <1>6
            <4>3. QED
                BY <4>2, <3>2
        <3>5. QED
            BY <3>3, <3>4
    <2>6. QED
        BY <2>3, <2>4, <2>5
<1>8. QED
    BY <1>3, <1>7
\* Without takes the members of S off a list and leaves the others.
Unlink(s, S, f, i) ==
    IF i = 0 THEN <<>> ELSE IF s[i] \in S THEN f[i - 1] ELSE Append(f[i - 1], s[i])

\* Append adds its element to those of the sequence.
LEMMA AppendElems ==
    ASSUME NEW T, NEW s \in Seq(T), NEW x \in T
    PROVE  /\ Append(s, x) \in Seq(T) /\ Len(Append(s, x)) = Len(s) + 1
           /\ DOMAIN Append(s, x) = 1 .. Len(s) + 1 /\ DOMAIN s = 1 .. Len(s) /\ Len(s) \in Nat
           /\ \A i \in 1 .. Len(s) : Append(s, x)[i] = s[i]
           /\ Append(s, x)[Len(s) + 1] = x
           /\ ToSet(Append(s, x)) = ToSet(s) \cup {x}
<1>1. PICK r : r = Append(s, x)
    OBVIOUS
<1>2. /\ r \in Seq(T) /\ Len(r) = Len(s) + 1 /\ DOMAIN r = 1 .. Len(s) + 1
      /\ DOMAIN s = 1 .. Len(s) /\ Len(s) \in Nat
      /\ \A i \in 1 .. Len(s) : r[i] = s[i]
      /\ r[Len(s) + 1] = x
    BY <1>1
<1>3. \A i \in 1 .. Len(s) : i \in DOMAIN r
    BY <1>2
<1>4. \A i \in DOMAIN r : i \in 1 .. Len(s) \/ i = Len(s) + 1
    BY <1>2
<1>5. Len(s) + 1 \in DOMAIN r
    BY <1>2
<1>6. {r[i] : i \in DOMAIN r} = {s[i] : i \in DOMAIN s} \cup {x}
    BY <1>2, <1>3, <1>4, <1>5, Zenon
<1>7. QED
    BY <1>1, <1>2, <1>6 DEF ToSet

\* Unlinking S from a list leaves a list of the others.
LEMMA WithoutProps ==
    ASSUME NEW T, NEW s \in Seq(T), NEW S
    PROVE  Without(s, S) \in Seq(T) /\ ToSet(Without(s, S)) = ToSet(s) \ S
<1>1. PICK n : n = Len(s)
    OBVIOUS
<1>2. n \in Nat /\ DOMAIN s = 1 .. n /\ \A i \in 1 .. n : s[i] \in T
    BY <1>1
<1>3. \E f : f = [i \in 0 .. n |-> Unlink(s, S, f, i)]
    <2>1. PICK turn : turn = [i \in 1 .. n |-> [r \in Seq(T) |->
                                IF s[i] \in S THEN r ELSE Append(r, s[i])]]
        OBVIOUS
    <2>2. ASSUME NEW i \in 1 .. n, NEW r \in Seq(T)
          PROVE  (IF s[i] \in S THEN r ELSE Append(r, s[i])) \in Seq(T)
        BY <1>2, AppendElems
    <2>3. turn \in [1 .. n -> [Seq(T) -> Seq(T)]]
        BY <2>1, <2>2
    <2>4. <<>> \in Seq(T)
        OBVIOUS
    <2>5. PICK f \in [0 .. n -> Seq(T)] : f[0] = <<>> /\ \A i \in 1 .. n : f[i] = turn[i][f[i - 1]]
        <3>1. PICK A, a : A = Seq(T) /\ a = <<>>
            OBVIOUS
        <3>2. Loop(A, a, n, turn)
            BY <1>2, <2>3, <2>4, <3>1 DEF Loop
        <3>3. \E f : CourseOf(A, a, n, turn, f)
            BY ONLY <3>2, Iterate, Zenon
        <3>4. QED
            BY <3>1, <3>3 DEF CourseOf
    <2>6. ASSUME NEW i \in 0 .. n PROVE f[i] = Unlink(s, S, f, i)
        <3>1. CASE i = 0
            BY <3>1, <2>5 DEF Unlink
        <3>2. CASE i # 0
            <4>1. i \in 1 .. n /\ i - 1 \in 0 .. n
                BY <3>2, <1>2
            <4>2. f[i - 1] \in Seq(T)
                BY <4>1
            <4>3. turn[i][f[i - 1]] = IF s[i] \in S THEN f[i - 1] ELSE Append(f[i - 1], s[i])
                BY <4>1, <4>2, <2>1
            <4>4. QED
                BY <4>1, <4>3, <2>5, <3>2 DEF Unlink
        <3>3. QED
            BY <3>1, <3>2
    <2>7. f = [i \in 0 .. n |-> Unlink(s, S, f, i)]
        BY <2>6
    <2>8. QED
        BY <2>7
<1>4. PICK g : g = [i \in 0 .. n |-> Unlink(s, S, g, i)] /\ Without(s, S) = g[n]
    <2> DEFINE G == CHOOSE f : f = [i \in 0 .. Len(s) |->
                        IF i = 0 THEN <<>> ELSE IF s[i] \in S THEN f[i - 1]
                                                ELSE Append(f[i - 1], s[i])]
    <2>1. Without(s, S) = G[Len(s)]
        BY Zenon DEF Without
    <2>2. \E f : f = [i \in 0 .. Len(s) |->
                        IF i = 0 THEN <<>> ELSE IF s[i] \in S THEN f[i - 1]
                                                ELSE Append(f[i - 1], s[i])]
        BY <1>1, <1>3 DEF Unlink
    <2>3. G = [i \in 0 .. Len(s) |->
                        IF i = 0 THEN <<>> ELSE IF s[i] \in S THEN G[i - 1]
                                                ELSE Append(G[i - 1], s[i])]
        BY <2>2
    <2> HIDE DEF G
    <2>4. QED
        BY <2>1, <2>3, <1>1 DEF Unlink
<1>5. g[0] = <<>> /\ \A i \in 1 .. n : g[i] = IF s[i] \in S THEN g[i - 1] ELSE Append(g[i - 1], s[i])
    <2>1. \A i \in 0 .. n : g[i] = Unlink(s, S, g, i)
        BY <1>4, Zenon
    <2>2. 0 \in 0 .. n /\ \A i \in 1 .. n : i \in 0 .. n /\ i # 0
        BY <1>2
    <2>3. QED
        BY <2>1, <2>2 DEF Unlink
<1> DEFINE Good(i) == g[i] \in Seq(T) /\ ToSet(g[i]) = {s[j] : j \in 1 .. i} \ S
           Bad == {i \in 0 .. n : ~ Good(i)}
<1>6. Bad = {}
    <2>1. SUFFICES ASSUME Bad # {} PROVE FALSE
        OBVIOUS
    <2>2. Bad \in SUBSET Nat
        BY <1>2
    <2>3. PICK m \in Bad : \A y \in Bad : m <= y
        BY <2>1, <2>2, LeastNumber
    <2>4. m \in 0 .. n /\ ~ Good(m)
        BY <2>3
    <2> HIDE DEF Good, Bad
    <2>5. m # 0
        <3> USE DEF Good
        <3>1. g[0] \in Seq(T)
            BY <1>5
        <3>2. {s[j] : j \in 1 .. 0} \ S = {}
            OBVIOUS
        <3>3. ToSet(<<>>) = {}
            BY DEF ToSet
        <3>4. QED
            BY <2>4, <3>1, <3>2, <3>3, <1>5
    <2>6. m \in 1 .. n /\ m - 1 \in 0 .. n /\ ~ (m <= m - 1)
        BY <2>4, <2>5, <1>2, SMT
    <2>7. Good(m - 1)
        <3>1. m - 1 \notin Bad
            BY <2>3, <2>6
        <3>2. QED
            BY <3>1, <2>6 DEF Bad
    <2>8. {s[j] : j \in 1 .. m} = {s[j] : j \in 1 .. m - 1} \cup {s[m]}
        <3>1. \A j \in 1 .. m : j \in 1 .. m - 1 \/ j = m
            BY <2>6
        <3>2. (\A j \in 1 .. m - 1 : j \in 1 .. m) /\ m \in 1 .. m
            BY <2>6
        <3>3. QED
            BY <3>1, <3>2, Zenon
    <2>9. PICK r : r = g[m - 1]
        OBVIOUS
    <2>10. r \in Seq(T) /\ s[m] \in T
        BY <2>7, <2>9, <2>6, <1>2 DEF Good
    <2>11. PICK D : D = {s[j] : j \in 1 .. m - 1}
        OBVIOUS
    <2>12. ToSet(r) = D \ S
        BY <2>7, <2>9, <2>11 DEF Good
    <2>13. CASE s[m] \in S
        <3>1. g[m] = r
            BY <2>13, <2>6, <2>9, <1>5
        <3>2. ToSet(r) = (D \cup {s[m]}) \ S
            BY <2>12, <2>13, Zenon
        <3>3. QED
            BY <3>1, <3>2, <2>4, <2>8, <2>10, <2>11 DEF Good
    <2>14. CASE s[m] \notin S
        <3>1. g[m] = Append(r, s[m])
            BY <2>14, <2>6, <2>9, <1>5
        <3>2. Append(r, s[m]) \in Seq(T) /\ ToSet(Append(r, s[m])) = ToSet(r) \cup {s[m]}
            BY <2>10, AppendElems
        <3>3. (D \ S) \cup {s[m]} = (D \cup {s[m]}) \ S
            BY <2>14, Zenon
        <3>4. QED
            BY <3>1, <3>2, <3>3, <2>4, <2>8, <2>11, <2>12 DEF Good
    <2>15. QED
        BY <2>13, <2>14
<1>7. Good(n)
    <2>1. n \in 0 .. n
        BY <1>2
    <2>2. QED
        BY <2>1, <1>6
<1>8. QED
    BY <1>1, <1>2, <1>4, <1>7 DEF ToSet
\* The search of a message: what has been found after i messages.
Ats(n) == [found : 0 .. n, type : Int, stop : BOOLEAN]
Sought(s, type, mode, at, i) ==
    /\ at \in Ats(i)
    /\ at.found = 0 => at.type = type /\ ~at.stop
    /\ at.found # 0 => /\ testmsg(s[at.found], type, mode)
                       /\ \A x \in 1 .. at.found - 1 : s[x].type # s[at.found].type
    /\ at.type <= type /\ (mode # "lessequal" => at.type = type)
    /\ ~at.stop => \A x \in 1 .. i : ~testmsg(s[x], at.type, mode)

\* testmsg looks at the type of a message only.
LEMMA TestType ==
    ASSUME NEW m \in Message, NEW type \in Int, NEW mode \in SearchModes
    PROVE  /\ m.type \in Int
           /\ testmsg(m, type, mode) <=>
                 \/ mode = "any"
                 \/ (mode = "lessequal" /\ m.type <= type)
                 \/ (mode = "equal" /\ m.type = type)
                 \/ (mode = "notequal" /\ m.type # type)
<1>1. m.type \in Types /\ \A y \in Types : y \in Nat
    BY MsgAssumption DEF Message
<1>2. PICK x : x = m.type
    OBVIOUS
<1>3. x \in Int
    BY <1>1, <1>2
<1>4. testmsg(m, type, mode) <=>
                 \/ mode = "any"
                 \/ (mode = "lessequal" /\ x <= type)
                 \/ (mode = "equal" /\ x = type)
                 \/ (mode = "notequal" /\ x # type)
    <2>1. CASE mode = "any"
        BY <2>1 DEF testmsg
    <2>2. CASE mode = "lessequal"
        BY <1>2, <2>2 DEF testmsg
    <2>3. CASE mode = "equal"
        BY <1>2, <2>3 DEF testmsg
    <2>4. CASE mode = "notequal"
        BY <1>2, <2>4 DEF testmsg
    <2>5. QED
        BY <2>1, <2>2, <2>3, <2>4 DEF SearchModes
<1>5. QED
    BY <1>2, <1>3, <1>4

\* One turn of the search loop keeps what the loop has found out.
LEMMA TurnProps ==
    ASSUME NEW s \in Seq(Message), NEW type \in Int, NEW mode \in SearchModes,
           NEW i \in 1 .. Len(s), NEW at, Sought(s, type, mode, at, i - 1)
    PROVE  Sought(s, type, mode, Turn(s, mode, at, i), i)
<1>1. /\ i \in Nat /\ i - 1 \in Nat /\ i \in DOMAIN s /\ s[i] \in Message
      /\ \A x \in 1 .. i : x \in DOMAIN s /\ s[x] \in Message
      /\ \A x \in 1 .. i : x \in 1 .. i - 1 \/ x = i
    OBVIOUS
<1>2. /\ at \in Ats(i - 1) /\ at.found \in 0 .. i - 1 /\ at.type \in Int /\ at.stop \in BOOLEAN
      /\ at \in Ats(i)
    BY <1>1 DEF Sought, Ats
<1>3. \A x \in 1 .. i : s[x].type \in Int
    BY <1>1, TestType
<1>4. CASE at.stop \/ ~testmsg(s[i], at.type, mode)
    <2>1. Turn(s, mode, at, i) = at
        BY <1>4 DEF Turn
    <2>2. ~at.stop => \A x \in 1 .. i : ~testmsg(s[x], at.type, mode)
        BY <1>1, <1>4 DEF Sought
    <2>3. QED
        BY <2>1, <2>2, <1>2 DEF Sought
<1>5. CASE ~at.stop /\ testmsg(s[i], at.type, mode)
    <2>1. \A x \in 1 .. i - 1 : ~testmsg(s[x], at.type, mode)
        BY <1>5 DEF Sought
    <2>2. \A x \in 1 .. i - 1 : s[x].type # s[i].type
        <3>1. SUFFICES ASSUME NEW x \in 1 .. i - 1, s[x].type = s[i].type PROVE FALSE
            OBVIOUS
        <3>2. x \in 1 .. i /\ s[x] \in Message
            BY <1>1
        <3>3. testmsg(s[x], at.type, mode) <=> testmsg(s[i], at.type, mode)
            BY <3>1, <3>2, <1>1, <1>2, TestType
        <3>4. QED
            BY <3>3, <2>1, <1>5
    <2>3. at.type <= type /\ (mode # "lessequal" => at.type = type)
        BY DEF Sought
    <2>4. testmsg(s[i], type, mode)
        <3>1. CASE mode = "lessequal"
            <4>1. s[i].type <= at.type /\ s[i].type \in Int
                BY <3>1, <1>1, <1>2, <1>5, TestType
            <4>2. s[i].type <= type
                BY <4>1, <2>3, <1>2
            <4>3. QED
                BY <3>1, <4>2, <1>1, TestType
        <3>2. CASE mode # "lessequal"
            BY <3>2, <2>3, <1>5
        <3>3. QED
            BY <3>1, <3>2
    <2>5. PICK ty, st : Turn(s, mode, at, i) = [at EXCEPT !.found = i, !.type = ty, !.stop = st]
                        /\ ( \/ mode = "lessequal" /\ ty = s[i].type - 1 /\ st = FALSE
                             \/ ty = at.type /\ st = TRUE )
        <3>1. CASE mode = "lessequal" /\ s[i].type # 1
            <4>1. Turn(s, mode, at, i) = [at EXCEPT !.found = i, !.type = s[i].type - 1]
                BY <3>1, <1>5 DEF Turn
            <4>2. [at EXCEPT !.found = i, !.type = s[i].type - 1]
                    = [at EXCEPT !.found = i, !.type = s[i].type - 1, !.stop = FALSE]
                BY <1>2, <1>5 DEF Ats
            <4>3. QED
                BY <3>1, <4>1, <4>2
        <3>2. CASE ~(mode = "lessequal" /\ s[i].type # 1)
            <4>1. Turn(s, mode, at, i) = [at EXCEPT !.found = i, !.stop = TRUE]
                BY <3>2, <1>5 DEF Turn
            <4>2. [at EXCEPT !.found = i, !.stop = TRUE]
                    = [at EXCEPT !.found = i, !.type = at.type, !.stop = TRUE]
                BY <1>2 DEF Ats
            <4>3. QED
                BY <4>1, <4>2
        <3>3. QED
            BY <3>1, <3>2
    <2>6. PICK new : new = Turn(s, mode, at, i)
        OBVIOUS
    <2>13. \/ mode = "lessequal" /\ ty = s[i].type - 1 /\ st = FALSE
           \/ ty = at.type /\ st = TRUE
        BY <2>5
    <2>7. ty \in Int /\ st \in BOOLEAN
        <3>1. s[i].type \in Int
            BY <1>1, <1>3
        <3>2. ty = s[i].type - 1 \/ ty = at.type
            BY <2>13
        <3>3. st \in BOOLEAN
            BY <2>13, Zenon
        <3>4. QED
            BY <3>1, <3>2, <3>3, <1>2
    <2>8. new \in Ats(i) /\ new.found = i /\ new.type = ty /\ new.stop = st
        <3>1. i \in 0 .. i
            BY <1>1
        <3>2. at \in [found : 0 .. i, type : Int, stop : BOOLEAN]
            BY <1>2 DEF Ats
        <3>3. new = [at EXCEPT !.found = i, !.type = ty, !.stop = st]
            BY <2>5, <2>6
        <3>4. QED
            BY <3>1, <3>2, <3>3, <2>7 DEF Ats
    <2>9. ty <= type /\ (mode # "lessequal" => ty = type)
        <3>1. CASE mode = "lessequal" /\ ty = s[i].type - 1
            <4>1. s[i].type <= at.type /\ s[i].type \in Int
                BY <3>1, <1>1, <1>2, <1>5, TestType
            <4>2. QED
                BY <3>1, <4>1, <2>3, <1>2
        <3>2. CASE ty = at.type
            BY <3>2, <2>3
        <3>3. QED
            BY <3>1, <3>2, <2>13
    <2>10. ASSUME ~st, NEW x \in 1 .. i PROVE ~testmsg(s[x], ty, mode)
        <3>1. mode = "lessequal" /\ ty = s[i].type - 1
            BY <2>10, <2>13
        <3>2. s[i].type <= at.type /\ s[i].type \in Int /\ s[x].type \in Int /\ s[x] \in Message
            BY <3>1, <1>1, <1>2, <1>3, <1>5, TestType
        <3>3. x # i => ~(s[x].type <= at.type)
            BY <2>1, <3>1, <3>2, <1>1, <1>2, TestType
        <3>4. ~(s[x].type <= ty)
            BY <3>1, <3>2, <3>3, <1>2
        <3>5. QED
            BY <3>1, <3>2, <3>4, TestType
    <2>11. i # 0
        BY <1>1
    <2>12. QED
        BY <2>2, <2>4, <2>6, <2>8, <2>9, <2>10, <2>11, Zenon DEF Sought
<1>6. QED
    BY <1>2, <1>4, <1>5

\* One turn of the search loop stays among the states of the loop.
LEMMA TurnType ==
    ASSUME NEW s \in Seq(Message), NEW mode \in SearchModes, NEW i \in 1 .. Len(s),
           NEW at \in Ats(Len(s))
    PROVE  Turn(s, mode, at, i) \in Ats(Len(s))
<1>1. s[i] \in Message /\ s[i].type \in Int /\ i \in 0 .. Len(s)
    BY TestType
<1>2. PICK n, ty : n = Len(s) /\ ty = s[i].type - 1
    OBVIOUS
<1>3. at \in [found : 0 .. n, type : Int, stop : BOOLEAN] /\ i \in 0 .. n /\ ty \in Int
    BY <1>1, <1>2 DEF Ats
<1>4. /\ [at EXCEPT !.found = i, !.type = ty] \in [found : 0 .. n, type : Int, stop : BOOLEAN]
      /\ [at EXCEPT !.found = i, !.stop = TRUE] \in [found : 0 .. n, type : Int, stop : BOOLEAN]
    BY <1>3
<1>5. \/ Turn(s, mode, at, i) = at
      \/ Turn(s, mode, at, i) = [at EXCEPT !.found = i, !.type = ty]
      \/ Turn(s, mode, at, i) = [at EXCEPT !.found = i, !.stop = TRUE]
    BY <1>2 DEF Turn
<1>6. QED
    BY <1>2, <1>3, <1>4, <1>5, Zenon DEF Ats

Start(type) == [found |-> 0, type |-> type, stop |-> FALSE]
Course(s, type, mode, f, i) == IF i = 0 THEN Start(type) ELSE Turn(s, mode, f[i - 1], i)

\* The search finds a message exactly if one matches, and the first of its type.
LEMMA SearchProps ==
    ASSUME NEW s \in Seq(Message), NEW type \in Int, NEW mode \in SearchModes
    PROVE  /\ FindMsg(s, type, mode) \in 0 .. Len(s)
           /\ FindMsg(s, type, mode) = 0 <=> \A i \in DOMAIN s : ~testmsg(s[i], type, mode)
           /\ FindMsg(s, type, mode) # 0 =>
                 \A x \in 1 .. FindMsg(s, type, mode) - 1 :
                     s[x].type # s[FindMsg(s, type, mode)].type
<1>1. PICK n : n = Len(s)
    OBVIOUS
<1>2. n \in Nat /\ DOMAIN s = 1 .. n
    BY <1>1
<1>3. Start(type) \in Ats(n) /\ Start(type).found = 0 /\ Start(type).type = type
      /\ Start(type).stop = FALSE
    BY <1>2 DEF Start, Ats
<1>4. \E f : f = [i \in 0 .. n |-> Course(s, type, mode, f, i)]
    <2>1. PICK turn : turn = [i \in 1 .. n |-> [at \in Ats(n) |-> Turn(s, mode, at, i)]]
        OBVIOUS
    <2>2. ASSUME NEW i \in 1 .. n, NEW at \in Ats(n) PROVE Turn(s, mode, at, i) \in Ats(n)
        BY <1>1, TurnType
    <2>3. PICK A, a : A = Ats(n) /\ a = Start(type)
        OBVIOUS
    <2>4. Loop(A, a, n, turn)
        BY <1>2, <1>3, <2>1, <2>2, <2>3 DEF Loop
    <2>5. PICK f : CourseOf(A, a, n, turn, f)
        BY ONLY <2>4, Iterate, Zenon
    <2>6. f \in [0 .. n -> A] /\ f[0] = a /\ \A i \in 1 .. n : f[i] = turn[i][f[i - 1]]
        BY <2>5 DEF CourseOf
    <2>7. ASSUME NEW i \in 0 .. n PROVE f[i] = Course(s, type, mode, f, i)
        <3>1. CASE i = 0
            BY <3>1, <2>3, <2>6 DEF Course
        <3>2. CASE i # 0
            <4>1. i \in 1 .. n /\ i - 1 \in 0 .. n
                BY <3>2, <1>2
            <4>2. f[i - 1] \in Ats(n)
                BY <4>1, <2>3, <2>6
            <4>3. turn[i][f[i - 1]] = Turn(s, mode, f[i - 1], i)
                BY <4>1, <4>2, <2>1
            <4>4. QED
                BY <4>1, <4>3, <2>6, <3>2 DEF Course
        <3>3. QED
            BY <3>1, <3>2
    <2>8. f = [i \in 0 .. n |-> Course(s, type, mode, f, i)]
        BY <2>6, <2>7
    <2>9. QED
        BY <2>8
<1>5. PICK g : g = [i \in 0 .. n |-> Course(s, type, mode, g, i)]
               /\ Search(s, type, mode) = g
    <2> DEFINE G == CHOOSE f : f = [i \in 0 .. Len(s) |->
                        IF i = 0 THEN [found |-> 0, type |-> type, stop |-> FALSE]
                        ELSE Turn(s, mode, f[i - 1], i)]
    <2>1. Search(s, type, mode) = G
        BY Zenon DEF Search
    <2>2. \E f : f = [i \in 0 .. Len(s) |->
                        IF i = 0 THEN [found |-> 0, type |-> type, stop |-> FALSE]
                        ELSE Turn(s, mode, f[i - 1], i)]
        BY <1>1, <1>4, Zenon DEF Course, Start
    <2>3. G = [i \in 0 .. Len(s) |->
                        IF i = 0 THEN [found |-> 0, type |-> type, stop |-> FALSE]
                        ELSE Turn(s, mode, G[i - 1], i)]
        BY <2>2, Zenon
    <2> HIDE DEF G
    <2>4. QED
        BY <2>1, <2>3, <1>1, Zenon DEF Course, Start
<1>6. g[0] = Start(type) /\ \A i \in 1 .. n : g[i] = Turn(s, mode, g[i - 1], i)
    <2>1. \A i \in 0 .. n : g[i] = Course(s, type, mode, g, i)
        BY <1>5, Zenon
    <2>2. 0 \in 0 .. n /\ \A i \in 1 .. n : i \in 0 .. n /\ i # 0
        BY <1>2
    <2>3. QED
        BY <2>1, <2>2 DEF Course
<1> DEFINE Good(i) == Sought(s, type, mode, g[i], i)
           Bad == {i \in 0 .. n : ~ Good(i)}
<1>7. Good(n)
    <2>1. SUFFICES ASSUME Bad # {} PROVE FALSE
        <3>1. n \in 0 .. n
            BY <1>2
        <3>2. QED
            BY <2>1, <3>1, Zenon
    <2>2. Bad \in SUBSET Nat
        BY <1>2
    <2>3. PICK m \in Bad : \A y \in Bad : m <= y
        BY <2>1, <2>2, LeastNumber
    <2>4. m \in 0 .. n /\ ~ Good(m)
        BY <2>3
    <2>5. m # 0
        <3>1. Sought(s, type, mode, Start(type), 0)
            <4>1. Start(type) \in Ats(0)
                BY DEF Start, Ats
            <4>2. \A x \in 1 .. 0 : FALSE
                OBVIOUS
            <4>3. type <= type
                OBVIOUS
            <4>4. QED
                BY <4>1, <4>2, <4>3, <1>3, Zenon DEF Sought
        <3>2. QED
            BY <3>1, <2>4, <1>6
    <2> HIDE DEF Good
    <2>6. m \in 1 .. n /\ m - 1 \in 0 .. n /\ ~ (m <= m - 1)
        BY <2>4, <2>5, <1>2, SMT
    <2> HIDE DEF Bad
    <2>7. Good(m - 1)
        <3>1. m - 1 \notin Bad
            BY <2>3, <2>6
        <3>2. QED
            BY <3>1, <2>6 DEF Bad
    <2>8. Sought(s, type, mode, g[m - 1], m - 1)
        BY <2>7 DEF Good
    <2>9. Sought(s, type, mode, Turn(s, mode, g[m - 1], m), m)
        BY <2>6, <2>8, <1>1, TurnProps
    <2>10. QED
        BY <2>4, <2>6, <2>9, <1>6 DEF Good
<1>8. PICK at : at = g[n]
    OBVIOUS
<1>9. Sought(s, type, mode, at, n) /\ FindMsg(s, type, mode) = at.found
    BY <1>1, <1>5, <1>7, <1>8 DEF FindMsg
<1> HIDE DEF Good, Bad
<1>10. at.found \in 0 .. n
    BY <1>9 DEF Sought, Ats
<1>11. at.found = 0 => \A i \in 1 .. n : ~testmsg(s[i], type, mode)
    BY <1>9 DEF Sought
<1>12. at.found # 0 => /\ at.found \in 1 .. n /\ testmsg(s[at.found], type, mode)
                       /\ \A x \in 1 .. at.found - 1 : s[x].type # s[at.found].type
    BY <1>2, <1>9, <1>10 DEF Sought
<1>13. QED
    BY <1>1, <1>2, <1>9, <1>10, <1>11, <1>12

(***************************************************************************)
(* The messages of a queue, when one is put on it or taken off it.         *)
(***************************************************************************)
LEMMA RemoveElems ==
    ASSUME NEW T, NEW s \in Seq(T), NEW pos \in 1 .. Len(s)
    PROVE  /\ RemoveAt(s, pos) \in Seq(T) /\ Len(RemoveAt(s, pos)) = Len(s) - 1
           /\ DOMAIN RemoveAt(s, pos) = 1 .. Len(s) - 1
           /\ \A i \in 1 .. Len(s) - 1 :
                 RemoveAt(s, pos)[i] = IF i < pos THEN s[i] ELSE s[i + 1]
<1> DEFINE a == SubSeq(s, 1, pos - 1)
           b == SubSeq(s, pos + 1, Len(s))
<1>0. Len(s) \in Nat /\ pos \in Nat /\ pos <= Len(s) /\ pos >= 1
    OBVIOUS
<1>1. a \in Seq(T) /\ Len(a) = pos - 1 /\ \A i \in 1 .. pos - 1 : a[i] = s[i]
    BY <1>0
<1>2. b \in Seq(T) /\ Len(b) = Len(s) - pos /\ \A i \in 1 .. Len(s) - pos : b[i] = s[i + pos]
    BY <1>0
<1> HIDE DEF a, b
<1>3. PICK r : r = a \o b
    OBVIOUS
<1>4. /\ r \in Seq(T) /\ Len(r) = Len(s) - 1
      /\ \A i \in 1 .. Len(s) - 1 : r[i] = IF i <= pos - 1 THEN a[i] ELSE b[i - (pos - 1)]
    <2>1. /\ r \in Seq(T) /\ Len(r) = Len(a) + Len(b)
          /\ \A i \in 1 .. Len(a) + Len(b) : r[i] = IF i <= Len(a) THEN a[i] ELSE b[i - Len(a)]
        BY <1>1, <1>2, <1>3, ConcatProperties
    <2>2. Len(a) + Len(b) = Len(s) - 1 /\ Len(a) = pos - 1
        BY <1>0, <1>1, <1>2
    <2>3. QED
        BY <2>1, <2>2
<1>5. ASSUME NEW i \in 1 .. Len(s) - 1 PROVE r[i] = IF i < pos THEN s[i] ELSE s[i + 1]
    <2>1. CASE i < pos
        <3>1. i \in 1 .. pos - 1 /\ i <= pos - 1
            BY <2>1, <1>0
        <3>2. r[i] = a[i]
            BY <3>1, <1>4
        <3>3. a[i] = s[i]
            BY <3>1, <1>1
        <3>4. QED
            BY <2>1, <3>2, <3>3
    <2>2. CASE ~(i < pos)
        <3>1. i - (pos - 1) \in 1 .. Len(s) - pos /\ ~(i <= pos - 1)
              /\ i - (pos - 1) + pos = i + 1
            BY <2>2, <1>0
        <3>2. r[i] = b[i - (pos - 1)]
            BY <3>1, <1>4
        <3>3. b[i - (pos - 1)] = s[i + 1]
            BY <3>1, <1>2
        <3>4. QED
            BY <2>2, <3>2, <3>3
    <2>3. QED
        BY <2>1, <2>2
<1>6. DOMAIN r = 1 .. Len(s) - 1
    BY <1>4
<1>7. r = RemoveAt(s, pos)
    BY <1>3 DEF RemoveAt, a, b
<1>8. QED
    BY <1>4, <1>5, <1>6, <1>7

\* list_add_tail adds a message with a new id to a queue.
LEMMA EnqueuedMessages ==
    ASSUME NEW s \in Seq(Message), NEW m \in Message
    PROVE  /\ IdsOf(Append(s, m)) = IdsOf(s) \cup {m.id}
           /\ DistinctIds(s) /\ m.id \notin IdsOf(s) => DistinctIds(Append(s, m))
<1>1. PICK r : r = Append(s, m)
    OBVIOUS
<1>2. PICK n : n = Len(s)
    OBVIOUS
<1>3. /\ n \in Nat /\ DOMAIN s = 1 .. n /\ DOMAIN r = 1 .. n + 1
      /\ \A i \in 1 .. n : r[i] = s[i]
      /\ r[n + 1] = m
    BY <1>1, <1>2, AppendElems
<1>4. \A i \in DOMAIN r : i \in DOMAIN s \/ i = n + 1
    BY <1>3
<1>5. n + 1 \in DOMAIN r /\ \A i \in DOMAIN s : i \in DOMAIN r
    BY <1>3
<1>6. \A i \in DOMAIN s : r[i] = s[i]
    BY <1>3
<1>7. IdsOf(r) = IdsOf(s) \cup {m.id}
    BY <1>3, <1>4, <1>5, <1>6, Zenon DEF IdsOf
<1>8. ASSUME DistinctIds(s), m.id \notin IdsOf(s) PROVE DistinctIds(r)
    <2>1. \A i \in DOMAIN s : s[i].id # m.id
        BY <1>8 DEF IdsOf
    <2>2. ASSUME NEW i \in DOMAIN r, NEW j \in DOMAIN r, r[i].id = r[j].id PROVE i = j
        <3>1. CASE i \in DOMAIN s /\ j \in DOMAIN s
            BY <3>1, <2>2, <1>6, <1>8 DEF DistinctIds
        <3>2. CASE i = n + 1 /\ j \in DOMAIN s
            BY <3>2, <2>1, <2>2, <1>3, <1>6
        <3>3. CASE i \in DOMAIN s /\ j = n + 1
            BY <3>3, <2>1, <2>2, <1>3, <1>6
        <3>4. QED
            BY <3>1, <3>2, <3>3, <1>4
    <2>3. QED
        BY <2>2 DEF DistinctIds
<1>9. QED
    BY <1>1, <1>7, <1>8

\* list_del takes one message off a queue, and no other.
LEMMA DequeuedMessages ==
    ASSUME NEW s \in Seq(Message), NEW pos \in 1 .. Len(s), DistinctIds(s)
    PROVE  /\ IdsOf(RemoveAt(s, pos)) = IdsOf(s) \ {s[pos].id}
           /\ ToSet(RemoveAt(s, pos)) = ToSet(s) \ {s[pos]}
           /\ DistinctIds(RemoveAt(s, pos))
           /\ s[pos] \in ToSet(s) /\ s[pos] \in Message
<1>1. PICK r : r = RemoveAt(s, pos)
    OBVIOUS
<1>2. PICK n : n = Len(s)
    OBVIOUS
<1>3. /\ n \in Nat /\ pos \in 1 .. n /\ DOMAIN s = 1 .. n /\ DOMAIN r = 1 .. n - 1
      /\ \A i \in 1 .. n - 1 : r[i] = IF i < pos THEN s[i] ELSE s[i + 1]
    BY <1>1, <1>2, RemoveElems, SMTT(30)
\* Where an element of r comes from, and where one of s goes.
<1>4. ASSUME NEW i \in DOMAIN r
      PROVE  \E j \in DOMAIN s : j # pos /\ r[i] = s[j] /\ j = IF i < pos THEN i ELSE i + 1
    <2>1. CASE i < pos
        BY <2>1, <1>3
    <2>2. CASE ~(i < pos)
        <3>1. i + 1 \in DOMAIN s /\ i + 1 # pos /\ r[i] = s[i + 1]
            BY <2>2, <1>3
        <3>2. QED
            BY <2>2, <3>1
    <2>3. QED
        BY <2>1, <2>2
<1>5. ASSUME NEW j \in DOMAIN s, j # pos PROVE \E i \in DOMAIN r : r[i] = s[j]
    <2>1. CASE j < pos
        <3>1. j \in DOMAIN r /\ r[j] = s[j]
            BY <2>1, <1>3
        <3>2. QED
            BY <3>1
    <2>2. CASE j > pos
        <3>1. j - 1 \in 1 .. n - 1 /\ ~(j - 1 < pos) /\ (j - 1) + 1 = j
            BY <2>2, <1>3
        <3>2. r[j - 1] = s[j]
            BY <3>1, <1>3
        <3>3. QED
            BY <3>1, <3>2, <1>3
    <2>3. QED
        BY <2>1, <2>2, <1>3, <1>5
<1>6. \A j \in DOMAIN s : j # pos => s[j].id # s[pos].id /\ s[j] # s[pos]
    BY <1>3 DEF DistinctIds
<1>7. pos \in DOMAIN s /\ \A i \in DOMAIN r : \E j \in DOMAIN s : j # pos /\ r[i] = s[j]
    BY <1>3, <1>4
<1>8. IdsOf(r) = IdsOf(s) \ {s[pos].id}
    <2>1. ASSUME NEW x \in IdsOf(r) PROVE x \in IdsOf(s) /\ x # s[pos].id
        <3>1. PICK i \in DOMAIN r : x = r[i].id
            BY DEF IdsOf
        <3>2. PICK j \in DOMAIN s : j # pos /\ r[i] = s[j]
            BY <1>7
        <3>3. QED
            BY <3>1, <3>2, <1>6 DEF IdsOf
    <2>2. ASSUME NEW x \in IdsOf(s), x # s[pos].id PROVE x \in IdsOf(r)
        <3>1. PICK j \in DOMAIN s : x = s[j].id
            BY DEF IdsOf
        <3>2. j # pos
            BY <2>2, <3>1
        <3>3. PICK i \in DOMAIN r : r[i] = s[j]
            BY <3>2, <1>5
        <3>4. QED
            BY <3>1, <3>3 DEF IdsOf
    <2>3. QED
        BY <2>1, <2>2
<1>9. ToSet(r) = ToSet(s) \ {s[pos]}
    <2>1. ASSUME NEW x \in ToSet(r) PROVE x \in ToSet(s) /\ x # s[pos]
        <3>1. PICK i \in DOMAIN r : x = r[i]
            BY DEF ToSet
        <3>2. PICK j \in DOMAIN s : j # pos /\ r[i] = s[j]
            BY <1>7
        <3>3. QED
            BY <3>1, <3>2, <1>6 DEF ToSet
    <2>2. ASSUME NEW x \in ToSet(s), x # s[pos] PROVE x \in ToSet(r)
        <3>1. PICK j \in DOMAIN s : x = s[j]
            BY DEF ToSet
        <3>2. j # pos
            BY <2>2, <3>1
        <3>3. PICK i \in DOMAIN r : r[i] = s[j]
            BY <3>2, <1>5
        <3>4. QED
            BY <3>1, <3>3 DEF ToSet
    <2>3. QED
        BY <2>1, <2>2
<1>10. DistinctIds(r)
    <2>1. SUFFICES ASSUME NEW i \in DOMAIN r, NEW j \in DOMAIN r, r[i].id = r[j].id PROVE i = j
        BY DEF DistinctIds
    <2>2. PICK x \in DOMAIN s : r[i] = s[x] /\ x = IF i < pos THEN i ELSE i + 1
        BY <1>4
    <2>3. PICK y \in DOMAIN s : r[j] = s[y] /\ y = IF j < pos THEN j ELSE j + 1
        BY <1>4
    <2>4. x = y
        BY <2>1, <2>2, <2>3 DEF DistinctIds
    <2>5. x = (IF i < pos THEN i ELSE i + 1) /\ y = (IF j < pos THEN j ELSE j + 1)
        BY <2>2, <2>3
    <2>6. i \in Int /\ j \in Int /\ pos \in Int /\ x \in Int /\ y \in Int
        BY <1>3
    <2>7. /\ i < pos => x = i
          /\ ~(i < pos) => x = i + 1
          /\ j < pos => y = j
          /\ ~(j < pos) => y = j + 1
        BY <2>5, Zenon
    <2>8. QED
        BY ONLY <2>4, <2>6, <2>7, SMT
<1>11. s[pos] \in ToSet(s) /\ s[pos] \in Message
    BY <1>7 DEF ToSet
<1>12. QED
    BY <1>1, <1>8, <1>9, <1>10, <1>11

(***************************************************************************)
(* The table.                                                              *)
(***************************************************************************)
LEMMA IdSlot ==
    /\ \A id \in MsqIds : Lid(id) \in Slots
    /\ 0 \in MsqIds
<1>1. IPCMNI \in Nat \ {0} /\ SeqMax \in Nat
    BY UtilAssumption
<1>2. IPCMNI * (SeqMax + 1) \in Nat /\ IPCMNI * (SeqMax + 1) >= IPCMNI
    BY <1>1, SMT
<1>3. \A id \in MsqIds : id \in Nat
    BY <1>2, SMT DEF MsqIds
<1>4. \A n \in Nat : n % IPCMNI \in 0 .. IPCMNI - 1
    BY <1>1, SMT
<1>5. \A id \in MsqIds : Lid(id) \in Slots
    BY <1>3, <1>4 DEF Lid, SEQ_MULTIPLIER, Slots
<1>6. 0 \in MsqIds
    BY <1>1, <1>2, SMT DEF MsqIds
<1>7. QED
    BY <1>5, <1>6

\* The fields of a table.
LEMMA TableParts ==
    ASSUME NEW tab, Table(tab)
    PROVE  /\ tab.size = IPCMNI /\ tab.seq \in 0 .. SeqMax
           /\ tab.entries \in [Slots -> Perms \cup {NULL}]
BY DEF Table

\* ipc_addid takes a free slot.
LEMMA FreeSlot ==
    ASSUME NEW tab, Table(tab), FreeSlots(tab, tab.size) # {}
    PROVE  FirstFree(tab, tab.size) \in Slots /\ tab.entries[FirstFree(tab, tab.size)] = NULL
<1> DEFINE S == FreeSlots(tab, tab.size)
<1>1. S \subseteq Slots /\ S \in SUBSET Nat /\ \A i \in S : tab.entries[i] = NULL
    BY TableParts, UtilAssumption DEF FreeSlots, Slots
<1>2. S # {} /\ FirstFree(tab, tab.size) = CHOOSE i \in S : \A j \in S : i <= j
    BY DEF FirstFree
<1> HIDE DEF S
<1>3. \E x \in S : \A y \in S : x <= y
    BY <1>1, <1>2, LeastNumber
<1>4. FirstFree(tab, tab.size) \in S
    BY <1>2, <1>3
<1>5. QED
    BY <1>1, <1>4

\* ipc_addid puts the new queue in a free slot, ipc_rmid empties a slot.
LEMMA AddEffect ==
    ASSUME NEW tab, Table(tab), NEW s \in Queues,
           FreeSlots(tab, tab.size) # {}
    PROVE  /\ Table(ipc_addid(tab, IPC_PRIVATE, s))
           /\ ObjAt(ipc_addid(tab, IPC_PRIVATE, s)) = [ObjAt(tab) EXCEPT ![FirstFree(tab, tab.size)] = s]
           /\ FirstFree(tab, tab.size) \in Slots
           /\ ObjAt(tab)[FirstFree(tab, tab.size)] = NULL
<1>1. PICK l : l = FirstFree(tab, tab.size)
    OBVIOUS
<1>2. l \in Slots /\ tab.entries[l] = NULL
    BY <1>1, FreeSlot
<1>3. PICK n, x : tab \in [size : {IPCMNI}, in_use : {n}, max_id : {x}, seq : 0 .. SeqMax,
                           entries : [Slots -> Perms \cup {NULL}]]
    BY DEF Table
<1>4. PICK n1, x1, q1 : n1 = tab.in_use + 1 /\ x1 = (IF l > tab.max_id THEN l ELSE tab.max_id)
                        /\ q1 = NextSeq(tab.seq)
    OBVIOUS
<1>5. q1 \in 0 .. SeqMax
    <2>1. tab.seq \in 0 .. SeqMax
        BY <1>3
    <2>2. QED
        BY <1>4, <2>1, UtilAssumption, SMT DEF NextSeq
<1>6. PICK perm : perm = [key |-> IPC_PRIVATE, seq |-> tab.seq, obj |-> s]
    OBVIOUS
<1>7. perm \in Perms /\ perm # NULL /\ perm.obj = s
    BY <1>3, <1>6, MsgAssumption DEF Perms
<1>8. ipc_addid(tab, IPC_PRIVATE, s)
        = [[tab EXCEPT !.in_use = n1, !.max_id = x1, !.seq = q1] EXCEPT !.entries[l] = perm]
    <2>1. ClaimSlot(tab, l) = [tab EXCEPT !.in_use = n1, !.max_id = x1, !.seq = q1]
        BY <1>4 DEF ClaimSlot
    <2>2. ipc_addid(tab, IPC_PRIVATE, s) = PublishSlot(ClaimSlot(tab, l), l, perm)
        BY <1>1, <1>6 DEF ipc_addid
    <2>3. QED
        BY <2>1, <2>2 DEF PublishSlot
<1>9. PICK new : new = ipc_addid(tab, IPC_PRIVATE, s)
    OBVIOUS
<1>10. new \in [size : {IPCMNI}, in_use : {n1}, max_id : {x1}, seq : 0 .. SeqMax,
                entries : [Slots -> Perms \cup {NULL}]]
       /\ new.entries = [tab.entries EXCEPT ![l] = perm]
    <2>1. PICK mid : mid = [tab EXCEPT !.in_use = n1, !.max_id = x1, !.seq = q1]
        OBVIOUS
    <2>2. mid \in [size : {IPCMNI}, in_use : {n1}, max_id : {x1}, seq : 0 .. SeqMax,
                   entries : [Slots -> Perms \cup {NULL}]]
          /\ mid.entries = tab.entries
        BY <1>3, <1>5, <2>1
    <2>3. new = [mid EXCEPT !.entries[l] = perm]
        BY <1>8, <1>9, <2>1
    <2>4. QED
        BY <1>2, <1>7, <2>2, <2>3
<1>11. Table(new)
    BY <1>10 DEF Table
<1>12. ObjAt(new) = [ObjAt(tab) EXCEPT ![l] = s]
    BY <1>2, <1>3, <1>7, <1>10 DEF ObjAt
<1>13. ObjAt(tab)[l] = NULL
    BY <1>2 DEF ObjAt
<1>14. QED
    BY <1>1, <1>2, <1>9, <1>11, <1>12, <1>13

\* ipc_rmid clears one slot.
LEMMA RemoveEffect ==
    ASSUME NEW tab, Table(tab), NEW l \in Slots
    PROVE  /\ Table(ipc_rmid(tab, l))
           /\ ObjAt(ipc_rmid(tab, l)) = [ObjAt(tab) EXCEPT ![l] = NULL]
<1>1. PICK n, x : tab \in [size : {IPCMNI}, in_use : {n}, max_id : {x}, seq : 0 .. SeqMax,
                           entries : [Slots -> Perms \cup {NULL}]]
    BY DEF Table
<1>2. PICK n1, x1 : n1 = tab.in_use - 1
                    /\ x1 = (IF l = tab.max_id THEN LastUsedBelow(tab, l) ELSE tab.max_id)
    OBVIOUS
<1>3. ipc_rmid(tab, l) = [tab EXCEPT !.entries[l] = NULL, !.in_use = n1, !.max_id = x1]
    BY <1>2 DEF ipc_rmid
<1>4. PICK new : new = ipc_rmid(tab, l)
    OBVIOUS
<1>5. new \in [size : {IPCMNI}, in_use : {n1}, max_id : {x1}, seq : 0 .. SeqMax,
               entries : [Slots -> Perms \cup {NULL}]]
      /\ new.entries = [tab.entries EXCEPT ![l] = NULL]
    <2>1. PICK e : e = [tab.entries EXCEPT ![l] = NULL]
        OBVIOUS
    <2>2. new = [tab EXCEPT !.entries = e, !.in_use = n1, !.max_id = x1]
        BY <1>3, <1>4, <2>1, Zenon
    <2>3. tab.entries \in [Slots -> Perms \cup {NULL}]
        BY <1>1
    <2>4. e \in [Slots -> Perms \cup {NULL}]
        BY <2>1, <2>3
    <2>5. QED
        BY <1>1, <2>1, <2>2, <2>4
<1>6. Table(new)
    BY <1>5 DEF Table
<1>7. ObjAt(new) = [ObjAt(tab) EXCEPT ![l] = NULL]
    BY <1>1, <1>5 DEF ObjAt
<1>8. QED
    BY <1>4, <1>6, <1>7

\* What msg_lock finds, and the queues of the table.
LEMMA Lookup ==
    ASSUME Table(ids), NEW id \in MsqIds
    PROVE  /\ Found(id) <=> ObjAt(ids)[Lid(id)] # NULL
           /\ Found(id) => Names(id, QueueOf(id)) /\ QueueOf(id) \in Queues /\ InTable(QueueOf(id))
           /\ \A k \in Queues : Names(id, k) <=> Found(id) /\ QueueOf(id) = k
<1>1. Lid(id) \in Slots /\ ids.entries \in [Slots -> Perms \cup {NULL}]
    BY IdSlot, TableParts
<1>2. PICK e : e = ids.entries[Lid(id)]
    OBVIOUS
<1>3. e \in Perms \cup {NULL} /\ NULL \notin Perms /\ NULL \notin Queues
    BY <1>1, <1>2, MsgAssumption
<1>4. e # NULL => e.obj \in Queues /\ e.obj # NULL
    BY <1>3 DEF Perms
<1>5. ObjAt(ids)[Lid(id)] = IF e = NULL THEN NULL ELSE e.obj
    BY <1>1, <1>2 DEF ObjAt
<1>6. (Found(id) <=> e # NULL) /\ QueueOf(id) = e.obj
    BY <1>2 DEF Found, QueueOf
<1>7. QED
    BY <1>1, <1>3, <1>4, <1>5, <1>6 DEF Names, InTable

\* The live queues are those in the table.
LEMMA LiveIs == ASSUME Table(ids) PROVE \A k \in Queues : k \in LiveQueues <=> InTable(k)
<1>1. ids.entries \in [Slots -> Perms \cup {NULL}]
    BY TableParts
<1>2. ASSUME NEW i \in Slots, NEW k \in Queues
      PROVE  ObjAt(ids)[i] = k <=> ids.entries[i] # NULL /\ ids.entries[i].obj = k
    <2>1. NULL \notin Queues
        BY MsgAssumption
    <2>2. QED
        BY <2>1 DEF ObjAt
<1>3. DOMAIN ids.entries = Slots
    BY <1>1
<1>4. \A k \in Queues : k # NULL
    BY MsgAssumption
<1>5. QED
    BY <1>2, <1>3, <1>4, Zenon DEF LiveQueues, Live, InTable

\* A queue that an identifier names is in the table.
LEMMA NamesInTable == ASSUME NEW id \in MsqIds, NEW k, Names(id, k) PROVE InTable(k)
BY IdSlot DEF Names, InTable

(***************************************************************************)
(* The spots: a message appears in one, or moves to another.               *)
(***************************************************************************)
LEMMA SpotSame ==
    ASSUME NEW f, NEW g, NEW S, OneSpot(f, S), \A x \in Spots : g[x] = f[x]
    PROVE  OneSpot(g, S)
BY Zenon DEF OneSpot

\* g is f with T moved from a to b.
Moved(f, g, a, b, T) ==
    /\ a \in Spots /\ b \in Spots /\ a # b /\ T \subseteq f[a]
    /\ g[a] = f[a] \ T /\ g[b] = f[b] \cup T
    /\ \A x \in Spots \ {a, b} : g[x] = f[x]

\* What moves from one spot to another is still in one spot.
LEMMA SpotMoved ==
    ASSUME NEW f, NEW g, NEW S, OneSpot(f, S), NEW a, NEW b, NEW T, Moved(f, g, a, b, T)
    PROVE  OneSpot(g, S)
<1> USE DEF Moved
<1>1. \A x \in Spots : g[x] \subseteq S
    BY DEF OneSpot
<1>2. ASSUME NEW m \in S PROVE \E x \in Spots : m \in g[x]
    <2>1. PICK x \in Spots : m \in f[x]
        BY DEF OneSpot
    <2>2. CASE m \in T
        BY <2>2
    <2>3. CASE m \notin T
        <3>1. m \in g[x]
            BY <2>1, <2>3
        <3>2. QED
            BY <3>1
    <2>4. QED
        BY <2>2, <2>3
<1>3. ASSUME NEW x \in Spots, NEW y \in Spots, NEW m \in g[x] \cap g[y] PROVE x = y
    <2>1. CASE m \in T
        <3>1. ASSUME NEW z \in Spots, m \in g[z] PROVE z = b
            <4>1. z # a
                BY <2>1, <3>1
            <4>2. CASE z # b
                <5>1. m \in f[z] /\ m \in f[a]
                    BY <2>1, <3>1, <4>1, <4>2
                <5>2. z = a
                    BY <5>1 DEF OneSpot
                <5>3. QED
                    BY <4>1, <5>2
            <4>3. QED
                BY <4>2
        <3>2. QED
            BY <3>1
    <2>2. CASE m \notin T
        <3>1. m \in f[x] /\ m \in f[y]
            BY <2>2
        <3>2. QED
            BY <3>1 DEF OneSpot
    <2>3. QED
        BY <2>1, <2>2
<1>4. QED
    BY <1>1, <1>2, <1>3 DEF OneSpot

\* g is f with m added at b.
Added(f, g, b, m) ==
    b \in Spots /\ g[b] = f[b] \cup {m} /\ \A x \in Spots \ {b} : g[x] = f[x]

\* A new message in one spot is in one spot.
LEMMA SpotAdded ==
    ASSUME NEW f, NEW g, NEW S, OneSpot(f, S), NEW b, NEW m, m \notin S, Added(f, g, b, m)
    PROVE  OneSpot(g, S \cup {m})
<1> USE DEF Added
<1>1. \A x \in Spots : g[x] \subseteq S \cup {m}
    BY DEF OneSpot
<1>2. ASSUME NEW n \in S \cup {m} PROVE \E x \in Spots : n \in g[x]
    <2>1. CASE n = m
        BY <2>1
    <2>2. CASE n \in S
        <3>1. PICK x \in Spots : n \in f[x]
            BY <2>2 DEF OneSpot
        <3>2. n \in g[x]
            BY <3>1
        <3>3. QED
            BY <3>2
    <2>3. QED
        BY <2>1, <2>2
<1>3. ASSUME NEW x \in Spots, NEW y \in Spots, NEW n \in g[x] \cap g[y] PROVE x = y
    <2>1. CASE n = m
        <3>1. \A z \in Spots : m \notin f[z]
            BY DEF OneSpot
        <3>2. QED
            BY <2>1, <3>1
    <2>2. CASE n # m
        <3>1. n \in f[x] /\ n \in f[y]
            BY <2>2
        <3>2. QED
            BY <3>1 DEF OneSpot
    <2>3. QED
        BY <2>1, <2>2
<1>4. QED
    BY <1>1, <1>2, <1>3 DEF OneSpot

\* What is in each spot, now and after a step.
LEMMA HeldIs ==
    /\ \A p \in Procs : /\ <<"sender", p>> \in Spots /\ Held[<<"sender", p>>] = SenderHas(p)
                        /\ <<"handed", p>> \in Spots /\ Held[<<"handed", p>>] = HandedHas(p)
                        /\ <<"copied", p>> \in Spots /\ Held[<<"copied", p>>] = CopiedHas(p)
    /\ \A k \in Queues : /\ <<"queue", k>> \in Spots
                         /\ Held[<<"queue", k>>] = IdsOf(queue[k].messages)
    /\ <<"freed", 0>> \in Spots /\ Held[<<"freed", 0>>] = freed
BY DEF Held, Spots

\* What each spot holds after a step.
LEMMA HeldNext ==
    /\ \A p \in Procs : /\ Held'[<<"sender", p>>] = SenderHas(p)'
                        /\ Held'[<<"handed", p>>] = HandedHas(p)'
                        /\ Held'[<<"copied", p>>] = CopiedHas(p)'
    /\ \A k \in Queues : Held'[<<"queue", k>>] = IdsOf(queue'[k].messages)
    /\ Held'[<<"freed", 0>>] = freed'
BY DEF Held, Spots, SenderHas, HandedHas, CopiedHas

\* Every spot is of one of the five kinds ...
LEMMA SpotsAre ==
    ASSUME NEW x \in Spots
    PROVE  \/ \E p \in Procs : x = <<"sender", p>> \/ x = <<"handed", p>> \/ x = <<"copied", p>>
           \/ \E k \in Queues : x = <<"queue", k>>
           \/ x = <<"freed", 0>>
BY DEF Spots

\* ... and spots of different kinds differ.
LEMMA SpotsDiffer ==
    /\ \A p, r : <<"sender", p>> # <<"handed", r>> /\ <<"sender", p>> # <<"copied", r>>
                 /\ <<"sender", p>> # <<"queue", r>> /\ <<"sender", p>> # <<"freed", r>>
                 /\ <<"handed", p>> # <<"copied", r>> /\ <<"handed", p>> # <<"queue", r>>
                 /\ <<"handed", p>> # <<"freed", r>> /\ <<"copied", p>> # <<"queue", r>>
                 /\ <<"copied", p>> # <<"freed", r>> /\ <<"queue", p>> # <<"freed", r>>
OBVIOUS

\* The spots outside Z keep what they have.
LEMMA HeldKept ==
    ASSUME NEW Z,
           \A p \in Procs : /\ <<"sender", p>> \notin Z => SenderHas(p)' = SenderHas(p)
                            /\ <<"handed", p>> \notin Z => HandedHas(p)' = HandedHas(p)
                            /\ <<"copied", p>> \notin Z => CopiedHas(p)' = CopiedHas(p),
           \A k \in Queues : <<"queue", k>> \notin Z =>
               IdsOf(queue'[k].messages) = IdsOf(queue[k].messages),
           <<"freed", 0>> \notin Z => freed' = freed
    PROVE  \A x \in Spots \ Z : Held'[x] = Held[x]
<1>1. SUFFICES ASSUME NEW x \in Spots, x \notin Z PROVE Held'[x] = Held[x]
    BY Zenon
<1>2. ASSUME NEW p \in Procs, x = <<"sender", p>> PROVE Held'[x] = Held[x]
    BY <1>1, <1>2, HeldIs, HeldNext, Zenon
<1>3. ASSUME NEW p \in Procs, x = <<"handed", p>> PROVE Held'[x] = Held[x]
    BY <1>1, <1>3, HeldIs, HeldNext, Zenon
<1>4. ASSUME NEW p \in Procs, x = <<"copied", p>> PROVE Held'[x] = Held[x]
    BY <1>1, <1>4, HeldIs, HeldNext, Zenon
<1>5. ASSUME NEW k \in Queues, x = <<"queue", k>> PROVE Held'[x] = Held[x]
    BY <1>1, <1>5, HeldIs, HeldNext, Zenon
<1>6. ASSUME x = <<"freed", 0>> PROVE Held'[x] = Held[x]
    BY <1>1, <1>6, HeldIs, HeldNext, Zenon
<1>7. QED
    BY <1>2, <1>3, <1>4, <1>5, <1>6, SpotsAre, Zenon

(***************************************************************************)
(* Counting messages and their bytes.                                      *)
(***************************************************************************)
LEMMA BytesAre ==
    ASSUME NEW A
    PROVE  \A x : x \in Bytes(A) <=> \E m \in A : \E n \in 1 .. m.size : x = <<m, n>>
<1>1. \A x : x \in Bytes(A) <=> \E m \in A : x \in {m} \X (1 .. m.size)
    BY Zenon DEF Bytes
<1>2. ASSUME NEW m, NEW x
      PROVE  x \in {m} \X (1 .. m.size) <=> \E n \in 1 .. m.size : x = <<m, n>>
    <2>1. PICK S : S = 1 .. m.size
        OBVIOUS
    <2>2. x \in {m} \X S <=> \E n \in S : x = <<m, n>>
        OBVIOUS
    <2>3. QED
        BY <2>1, <2>2
<1>3. ASSUME NEW x
      PROVE  (\E m \in A : x \in {m} \X (1 .. m.size))
                <=> \E m \in A : \E n \in 1 .. m.size : x = <<m, n>>
    <2>1. \A m : x \in {m} \X (1 .. m.size) <=> \E n \in 1 .. m.size : x = <<m, n>>
        BY <1>2
    <2>2. QED
        BY <2>1, Zenon
<1>4. QED
    BY <1>1, <1>3

\* The bytes of what is left when B is taken away.
LEMMA BytesMinus ==
    ASSUME NEW A, NEW B, B \subseteq A
    PROVE  Bytes(A \ B) = Bytes(A) \ Bytes(B) /\ Bytes(B) \subseteq Bytes(A)
<1>1. ASSUME NEW m, NEW n, NEW k, NEW l, <<m, n>> = <<k, l>> PROVE m = k
    BY <1>1
<1>2. ASSUME NEW x, x \in Bytes(A \ B) PROVE x \in Bytes(A) /\ x \notin Bytes(B)
    <2>1. PICK m \in A \ B : \E n \in 1 .. m.size : x = <<m, n>>
        BY <1>2, BytesAre
    <2>2. PICK n \in 1 .. m.size : x = <<m, n>>
        BY <2>1
    <2>3. x \in Bytes(A)
        BY <2>1, <2>2, BytesAre
    <2>4. ASSUME x \in Bytes(B) PROVE FALSE
        <3>1. PICK k \in B : \E l \in 1 .. k.size : x = <<k, l>>
            BY <2>4, BytesAre
        <3>2. k = m
            BY <2>2, <3>1, <1>1
        <3>3. QED
            BY <3>1, <3>2, <2>1
    <2>5. QED
        BY <2>3, <2>4
<1>3. ASSUME NEW x, x \in Bytes(A), x \notin Bytes(B) PROVE x \in Bytes(A \ B)
    <2>1. PICK m \in A : \E n \in 1 .. m.size : x = <<m, n>>
        BY <1>3, BytesAre
    <2>2. m \notin B
        BY <1>3, <2>1, BytesAre
    <2>3. QED
        BY <2>1, <2>2, BytesAre
<1>4. ASSUME NEW x, x \in Bytes(B) PROVE x \in Bytes(A)
    BY <1>4, BytesAre
<1>5. QED
    BY <1>2, <1>3, <1>4

\* No messages have no bytes.
LEMMA AmountNone == Amount({}, 0, 0)
<1>1. Bytes({}) = {}
    BY BytesAre
<1>2. QED
    BY <1>1, FS_EmptySet DEF Amount

\* One message has its own bytes.
LEMMA AmountOne == ASSUME NEW m \in Message PROVE Amount({m}, 1, m.size)
<1>1. m.size \in Nat
    BY MsgAssumption DEF Message
<1>2. PICK z : z = m.size
    OBVIOUS
<1>3. IsFiniteSet(1 .. z) /\ Cardinality(1 .. z) = z
    <2>1. 1 \in Int /\ z \in Int
        BY <1>1, <1>2
    <2>2. IsFiniteSet(1 .. z) /\ Cardinality(1 .. z) = IF 1 > z THEN 0 ELSE z - 1 + 1
        BY <2>1, FS_Interval
    <2>3. QED
        BY <1>1, <1>2, <2>2
<1>4. Bytes({m}) = {m} \X (1 .. z)
    BY <1>2, Zenon DEF Bytes
<1>5. IsFiniteSet({m}) /\ Cardinality({m}) = 1
    BY FS_Singleton
<1>6. IsFiniteSet({m} \X (1 .. z)) /\ Cardinality({m} \X (1 .. z)) = 1 * z
    BY <1>3, <1>5, FS_Product, ZenonT(30)
<1>7. 1 * z = z
    BY <1>1, <1>2
<1>8. QED
    BY <1>2, <1>4, <1>5, <1>6, <1>7, ZenonT(30) DEF Amount

\* Counters go down by what is taken away ...
LEMMA AmountMinus ==
    ASSUME NEW A, NEW h, NEW b, Amount(A, h, b), NEW B, NEW i, NEW c, Amount(B, i, c),
           B \subseteq A
    PROVE  Amount(A \ B, h - i, b - c)
<1>1. A \cap B = B
    OBVIOUS
<1>2. IsFiniteSet(A \ B) /\ Cardinality(A \ B) = h - i
    <2>1. IsFiniteSet(A) /\ h = Cardinality(A) /\ i = Cardinality(B)
        BY DEF Amount
    <2>2. IsFiniteSet(A \ B) /\ Cardinality(A \ B) = Cardinality(A) - Cardinality(A \cap B)
        BY <2>1, FS_Difference
    <2>3. QED
        BY <1>1, <2>1, <2>2
<1>3. Bytes(A \ B) = Bytes(A) \ Bytes(B) /\ Bytes(A) \cap Bytes(B) = Bytes(B)
    BY BytesMinus
<1>4. IsFiniteSet(Bytes(A \ B)) /\ Cardinality(Bytes(A \ B)) = b - c
    <2>1. IsFiniteSet(Bytes(A)) /\ b = Cardinality(Bytes(A)) /\ c = Cardinality(Bytes(B))
        BY DEF Amount
    <2>2. PICK X, Y : X = Bytes(A) /\ Y = Bytes(B)
        OBVIOUS
    <2>3. IsFiniteSet(X \ Y) /\ Cardinality(X \ Y) = Cardinality(X) - Cardinality(X \cap Y)
        BY <2>1, <2>2, FS_Difference
    <2>4. QED
        BY <1>3, <2>1, <2>2, <2>3
<1>5. QED
    BY <1>2, <1>4 DEF Amount

\* ... do not go below zero ...
LEMMA AmountNat == ASSUME NEW A, NEW h, NEW b, Amount(A, h, b) PROVE h \in Nat /\ b \in Nat
BY FS_CardinalityType DEF Amount

\* ... and go up by what is added.
LEMMA AmountPlus ==
    ASSUME NEW A, NEW h, NEW b, Amount(A, h, b), NEW m \in Message, m \notin A
    PROVE  Amount(A \cup {m}, h + 1, b + m.size)
<1>1. PICK X : X = A \cup {m}
    OBVIOUS
<1>2. Amount({m}, 1, m.size) /\ m.size \in Nat
    BY AmountOne, MsgAssumption DEF Message
<1>3. X \ {m} = A /\ {m} \subseteq X /\ A \subseteq X
    BY <1>1
<1>4. Bytes(X) = Bytes(A) \cup Bytes({m})
    <2>1. Bytes(A) = Bytes(X) \ Bytes({m}) /\ Bytes({m}) \subseteq Bytes(X)
        BY <1>3, BytesMinus
    <2>2. QED
        BY <2>1
<1>5. IsFiniteSet(X) /\ IsFiniteSet(Bytes(X))
    <2>1. IsFiniteSet(A) /\ IsFiniteSet(Bytes(A)) /\ IsFiniteSet({m}) /\ IsFiniteSet(Bytes({m}))
        BY <1>2 DEF Amount
    <2>2. PICK Y, Z : Y = Bytes(A) /\ Z = Bytes({m})
        OBVIOUS
    <2>3. IsFiniteSet(Y \cup Z)
        BY <2>1, <2>2, FS_Union
    <2>4. QED
        BY <1>1, <1>4, <2>1, <2>2, <2>3, FS_AddElement
<1>6. PICK g, c : g = Cardinality(X) /\ c = Cardinality(Bytes(X))
    OBVIOUS
<1>7. Amount(X, g, c) /\ g \in Nat /\ c \in Nat
    BY <1>5, <1>6, FS_CardinalityType DEF Amount
<1>8. Amount(A, g - 1, c - m.size)
    BY <1>2, <1>3, <1>7, AmountMinus
<1>9. h = g - 1 /\ b = c - m.size
    BY <1>8 DEF Amount
<1>10. h + 1 = g /\ b + m.size = c
    BY <1>2, <1>7, <1>9
<1>11. QED
    BY <1>1, <1>7, <1>10

(***************************************************************************)
(* What the operations on a msg_queue change.                              *)
(***************************************************************************)
SameMsgs(q, r) == r.messages = q.messages /\ r.cbytes = q.cbytes /\ r.qnum = q.qnum
SameRules(q, r) == r.qbytes = q.qbytes /\ r.readers = q.readers /\ r.writers = q.writers
SameLists(q, r) == r.receivers = q.receivers /\ r.senders = q.senders

\* The fields of a msg_queue.
LEMMA QueueFields ==
    ASSUME NEW q \in MsgQueue
    PROVE  /\ q.messages \in Seq(Message) /\ q.receivers \in Seq(Procs) /\ q.senders \in Seq(Procs)
           /\ q.cbytes \in Int /\ q.qnum \in Int /\ q.qbytes \in Nat
           /\ q.readers \in SUBSET Procs /\ q.writers \in SUBSET Procs
BY DEF MsgQueue

\* A new list of receivers changes nothing else ...
LEMMA SetReceivers ==
    ASSUME NEW q \in MsgQueue, NEW s \in Seq(Procs), NEW r, r = [q EXCEPT !.receivers = s]
    PROVE  /\ r \in MsgQueue /\ SameMsgs(q, r) /\ SameRules(q, r)
           /\ r.senders = q.senders /\ r.receivers = s
BY DEF MsgQueue, SameMsgs, SameRules

\* ... and neither does a new list of senders.
LEMMA SetSenders ==
    ASSUME NEW q \in MsgQueue, NEW s \in Seq(Procs), NEW r, r = [q EXCEPT !.senders = s]
    PROVE  /\ r \in MsgQueue /\ SameMsgs(q, r) /\ SameRules(q, r)
           /\ r.senders = s /\ r.receivers = q.receivers
BY DEF MsgQueue, SameMsgs, SameRules

\* ss_add: p is linked after the other senders.
LEMMA JoinSenders ==
    ASSUME NEW q \in MsgQueue, NEW p \in Procs, NEW r,
           r = [q EXCEPT !.senders = Append(q.senders, p)]
    PROVE  /\ r \in MsgQueue /\ SameMsgs(q, r) /\ SameRules(q, r)
           /\ ToSet(r.senders) = ToSet(q.senders) \cup {p} /\ r.receivers = q.receivers
<1>1. PICK s : s = Append(q.senders, p)
    OBVIOUS
<1>2. q.senders \in Seq(Procs)
    BY QueueFields
<1>3. s \in Seq(Procs) /\ ToSet(s) = ToSet(q.senders) \cup {p}
    BY <1>1, <1>2, AppendElems
<1>4. r = [q EXCEPT !.senders = s]
    BY <1>1
<1>5. r \in MsgQueue /\ SameMsgs(q, r) /\ SameRules(q, r) /\ r.senders = s /\ r.receivers = q.receivers
    BY ONLY <1>3, <1>4, SetSenders
<1>6. QED
    BY ONLY <1>3, <1>5

\* A receiver is linked after the other receivers.
LEMMA JoinReceivers ==
    ASSUME NEW q \in MsgQueue, NEW p \in Procs, NEW r,
           r = [q EXCEPT !.receivers = Append(q.receivers, p)]
    PROVE  /\ r \in MsgQueue /\ SameMsgs(q, r) /\ SameRules(q, r)
           /\ ToSet(r.receivers) = ToSet(q.receivers) \cup {p} /\ r.senders = q.senders
<1>1. PICK s : s = Append(q.receivers, p)
    OBVIOUS
<1>2. q.receivers \in Seq(Procs)
    BY QueueFields
<1>3. s \in Seq(Procs) /\ ToSet(s) = ToSet(q.receivers) \cup {p}
    BY <1>1, <1>2, AppendElems
<1>4. r = [q EXCEPT !.receivers = s]
    BY <1>1
<1>5. r \in MsgQueue /\ SameMsgs(q, r) /\ SameRules(q, r) /\ r.receivers = s /\ r.senders = q.senders
    BY ONLY <1>3, <1>4, SetReceivers
<1>6. QED
    BY ONLY <1>3, <1>5

\* Unlinking the members of S.
LEMMA LeaveSenders ==
    ASSUME NEW q \in MsgQueue, NEW S, NEW r, r = [q EXCEPT !.senders = Without(q.senders, S)]
    PROVE  /\ r \in MsgQueue /\ SameMsgs(q, r) /\ SameRules(q, r)
           /\ ToSet(r.senders) = ToSet(q.senders) \ S /\ r.receivers = q.receivers
<1>1. PICK s : s = Without(q.senders, S)
    OBVIOUS
<1>2. q.senders \in Seq(Procs)
    BY QueueFields
<1>3. s \in Seq(Procs) /\ ToSet(s) = ToSet(q.senders) \ S
    BY <1>1, <1>2, WithoutProps
<1>4. r = [q EXCEPT !.senders = s]
    BY <1>1
<1>5. r \in MsgQueue /\ SameMsgs(q, r) /\ SameRules(q, r) /\ r.senders = s /\ r.receivers = q.receivers
    BY ONLY <1>3, <1>4, SetSenders
<1>6. QED
    BY ONLY <1>3, <1>5

\* The members of S are unlinked from the receivers.
LEMMA LeaveReceivers ==
    ASSUME NEW q \in MsgQueue, NEW S, NEW r, r = [q EXCEPT !.receivers = Without(q.receivers, S)]
    PROVE  /\ r \in MsgQueue /\ SameMsgs(q, r) /\ SameRules(q, r)
           /\ ToSet(r.receivers) = ToSet(q.receivers) \ S /\ r.senders = q.senders
<1>1. PICK s : s = Without(q.receivers, S)
    OBVIOUS
<1>2. q.receivers \in Seq(Procs)
    BY QueueFields
<1>3. s \in Seq(Procs) /\ ToSet(s) = ToSet(q.receivers) \ S
    BY <1>1, <1>2, WithoutProps
<1>4. r = [q EXCEPT !.receivers = s]
    BY <1>1
<1>5. r \in MsgQueue /\ SameMsgs(q, r) /\ SameRules(q, r) /\ r.receivers = s /\ r.senders = q.senders
    BY ONLY <1>3, <1>4, SetReceivers
<1>6. QED
    BY ONLY <1>3, <1>5

\* Setting q_lspid changes nothing the invariant looks at.
LEMMA SetLspid ==
    ASSUME NEW q \in MsgQueue, NEW p \in Procs, NEW r, r = [q EXCEPT !.lspid = p]
    PROVE  r \in MsgQueue /\ SameMsgs(q, r) /\ SameRules(q, r) /\ SameLists(q, r)
BY DEF MsgQueue, SameMsgs, SameRules, SameLists

\* IPC_SET changes the limit and the permissions only.
LEMMA SetRules ==
    ASSUME NEW q \in MsgQueue, NEW b \in Nat, NEW R \in SUBSET Procs, NEW W \in SUBSET Procs,
           NEW r, r = [q EXCEPT !.qbytes = b, !.readers = R, !.writers = W]
    PROVE  r \in MsgQueue /\ SameMsgs(q, r) /\ SameLists(q, r)
BY DEF MsgQueue, SameMsgs, SameLists

\* What Enqueue changes in a msg_queue.
LEMMA PutMessage ==
    ASSUME NEW q \in MsgQueue, NEW m \in Message, NEW p \in Procs, NEW r, r = Enqueue(q, m, p)
    PROVE  /\ r \in MsgQueue /\ SameRules(q, r) /\ SameLists(q, r)
           /\ r.messages = Append(q.messages, m) /\ r.cbytes = q.cbytes + m.size
           /\ r.qnum = q.qnum + 1
<1>1. PICK s, c, n : s = Append(q.messages, m) /\ c = q.cbytes + m.size /\ n = q.qnum + 1
    OBVIOUS
<1>2. m.size \in Nat
    BY MsgAssumption DEF Message
<1>3. s \in Seq(Message) /\ c \in Int /\ n \in Int
    BY <1>1, <1>2, QueueFields, AppendElems
<1>4. r = [q EXCEPT !.messages = s, !.cbytes = c, !.qnum = n, !.lspid = p]
    BY <1>1 DEF Enqueue
<1>5. /\ r \in MsgQueue /\ SameRules(q, r) /\ SameLists(q, r)
      /\ r.messages = s /\ r.cbytes = c /\ r.qnum = n
    BY <1>3, <1>4 DEF MsgQueue, SameRules, SameLists
<1>6. QED
    BY <1>1, <1>5

\* What Dequeue changes in a msg_queue.
LEMMA TakeMessage ==
    ASSUME NEW q \in MsgQueue, NEW pos \in 1 .. Len(q.messages), NEW p \in Procs,
           NEW r, r = Dequeue(q, pos, p)
    PROVE  /\ r \in MsgQueue /\ SameRules(q, r) /\ SameLists(q, r)
           /\ r.messages = RemoveAt(q.messages, pos)
           /\ r.cbytes = q.cbytes - q.messages[pos].size /\ r.qnum = q.qnum - 1
<1>1. PICK s, c, n : s = RemoveAt(q.messages, pos) /\ c = q.cbytes - q.messages[pos].size
                     /\ n = q.qnum - 1
    OBVIOUS
<1>2. q.messages[pos] \in Message
    BY QueueFields
<1>3. q.messages[pos].size \in Nat
    BY <1>2, MsgAssumption DEF Message
<1>4. s \in Seq(Message) /\ c \in Int /\ n \in Int
    <2>1. q.messages \in Seq(Message) /\ q.cbytes \in Int /\ q.qnum \in Int
        BY QueueFields
    <2>2. RemoveAt(q.messages, pos) \in Seq(Message)
        BY <2>1, RemoveElems
    <2>3. c \in Int /\ n \in Int
        BY <1>1, <1>3, <2>1
    <2>4. QED
        BY <1>1, <2>2, <2>3
<1>5. r = [q EXCEPT !.messages = s, !.qnum = n, !.cbytes = c, !.lrpid = p]
    BY <1>1 DEF Dequeue
<1>6. /\ r \in MsgQueue /\ SameRules(q, r) /\ SameLists(q, r)
      /\ r.messages = s /\ r.cbytes = c /\ r.qnum = n
    BY <1>4, <1>5 DEF MsgQueue, SameRules, SameLists
<1>7. QED
    BY <1>1, <1>6

\* A new queue has no messages, no receivers and no senders.
LEMMA NewQueue ==
    /\ newque \in MsgQueue
    /\ newque.messages = <<>> /\ newque.receivers = <<>> /\ newque.senders = <<>>
    /\ newque.cbytes = 0 /\ newque.qnum = 0
BY MsgAssumption DEF newque, MsgQueue

\* The queue unlinked from, the receivers told, and the queue set in place.
Emptied(qs, k) == [qs EXCEPT ![k].receivers = <<>>, ![k].senders = <<>>]

\* freeque empties both lists of its queue and changes no other.
LEMMA EmptyLists ==
    ASSUME NEW qs \in [Queues -> MsgQueue], NEW k \in Queues, NEW new, new = Emptied(qs, k)
    PROVE  /\ new \in [Queues -> MsgQueue] /\ \A j \in Queues \ {k} : new[j] = qs[j]
           /\ SameMsgs(qs[k], new[k]) /\ SameRules(qs[k], new[k])
           /\ new[k].receivers = <<>> /\ new[k].senders = <<>>
<1>1. PICK q, r, z : q = qs[k] /\ r = [q EXCEPT !.receivers = <<>>]
                     /\ z = [r EXCEPT !.senders = <<>>]
    OBVIOUS
<1>2. q \in MsgQueue /\ <<>> \in Seq(Procs)
    BY <1>1
<1>3. r \in MsgQueue /\ SameMsgs(q, r) /\ SameRules(q, r) /\ r.receivers = <<>>
    <2>1. PICK e : e = <<>>
        OBVIOUS
    <2>2. r = [q EXCEPT !.receivers = e] /\ q \in MsgQueue /\ e \in Seq(Procs)
        BY <1>1, <1>2, <2>1
    <2>3. r \in MsgQueue /\ SameMsgs(q, r) /\ SameRules(q, r) /\ r.receivers = e
        BY ONLY <2>2, SetReceivers
    <2>4. QED
        BY <2>1, <2>3
<1>4. z \in MsgQueue /\ SameMsgs(r, z) /\ SameRules(r, z) /\ z.receivers = r.receivers
      /\ z.senders = <<>>
    <2>1. PICK e : e = <<>>
        OBVIOUS
    <2>2. z = [r EXCEPT !.senders = e] /\ r \in MsgQueue /\ e \in Seq(Procs)
        BY <1>1, <1>2, <1>3, <2>1
    <2>3. z \in MsgQueue /\ SameMsgs(r, z) /\ SameRules(r, z) /\ z.receivers = r.receivers
          /\ z.senders = e
        BY ONLY <2>2, SetSenders
    <2>4. QED
        BY <2>1, <2>3
<1>5. new = [qs EXCEPT ![k] = z]
    BY <1>1 DEF Emptied
<1>6. new \in [Queues -> MsgQueue] /\ new[k] = z /\ \A j \in Queues \ {k} : new[j] = qs[j]
    BY <1>4, <1>5
<1>7. SameMsgs(q, z) /\ SameRules(q, z)
    BY <1>3, <1>4 DEF SameMsgs, SameRules
<1>8. QED
    BY <1>1, <1>3, <1>4, <1>6, <1>7

\* The empty list has no members.
LEMMA NoElems == ToSet(<<>>) = {}
BY DEF ToSet

(***************************************************************************)
(* The other processes. A step of p changes at most one queue, k; it tells *)
(* the receivers in told something, unlinks the senders in unl and wakes   *)
(* some.                                                                   *)
(***************************************************************************)
Same(x) ==
    /\ pc'[x] = pc[x] /\ cur'[x] = cur[x] /\ snd'[x] = snd[x] /\ rcv'[x] = rcv[x]
    /\ inmsg'[x] = inmsg[x] /\ taker'[x] = taker[x]
    /\ x \in asleep' => x \in asleep

Touched(k) ==
    /\ queue' \in [Queues -> MsgQueue]
    /\ \A j \in Queues \ {k} : queue'[j] = queue[j]

Told(x, k, told) ==
    /\ IF x \in told THEN x \in Receivers(k) /\ rmsg'[x] # EAGAIN ELSE rmsg'[x] = rmsg[x]
    /\ x \in ToSet(queue'[k].receivers) <=> x \in Receivers(k) /\ x \notin told
    /\ x \in ToSet(queue'[k].receivers) =>
          /\ FindMsg(queue'[k].messages, rcv[x].type, rcv[x].mode) = 0
          /\ x \in asleep' => x \in queue'[k].readers

Unlinked(x, k, unl) ==
    /\ linked'[x] = (linked[x] /\ x \notin unl)
    /\ x \in unl => x \in Senders(k) /\ x \notin asleep'
    /\ x \in ToSet(queue'[k].senders) <=> x \in Senders(k) /\ x \notin unl
    /\ x \in ToSet(queue'[k].senders) /\ x \in asleep' /\ Full(queue[k], snd[x].msg) =>
          Full(queue'[k], snd[x].msg)

\* Slots change only if they are empty, or if k, which nobody waits for, is removed.
TableKept(k) ==
    \A i \in Slots : \/ ObjAt(ids)[i] = NULL \/ ObjAt(ids)'[i] = ObjAt(ids)[i]
                     \/ ObjAt(ids)[i] = k /\ queue'[k].receivers = <<>>
                                          /\ queue'[k].senders = <<>>

\* What the invariant says of one process.
LEMMA CallParts ==
    ASSUME Inv, NEW x \in Procs
    PROVE  /\ Receiving(x) /\ Sending(x) /\ Placed(x)
           /\ pc[x] \in PCs /\ cur[x] \in Queues \cup {NULL} /\ linked[x] \in BOOLEAN
           /\ snd[x] \in SndArgs /\ rcv[x] \in RcvArgs /\ rmsg[x] \in Message \cup Errors
           /\ inmsg[x] \in Message \cup {NULL} /\ taker[x] \in Procs \cup {NULL}
           /\ rcv[x].msqid \in MsqIds /\ snd[x].msqid \in MsqIds
           /\ Lid(rcv[x].msqid) \in Slots /\ Lid(snd[x].msqid) \in Slots
<1>1. Receiving(x) /\ Sending(x) /\ Placed(x)
    BY DEF Inv, Calling
<1>2. /\ pc[x] \in PCs /\ cur[x] \in Queues \cup {NULL} /\ linked[x] \in BOOLEAN
      /\ snd[x] \in SndArgs /\ rcv[x] \in RcvArgs /\ rmsg[x] \in Message \cup Errors
      /\ inmsg[x] \in Message \cup {NULL} /\ taker[x] \in Procs \cup {NULL}
    BY DEF Inv, ProcTypes
<1>3. rcv[x].msqid \in MsqIds /\ snd[x].msqid \in MsqIds
    BY <1>2 DEF RcvArgs, SndArgs
<1>4. QED
    BY <1>1, <1>2, <1>3, IdSlot

\* A process that a step leaves alone, or tells an error, is in order as a
\* receiver ...
LEMMA OtherReceiver ==
    ASSUME Inv, NEW k \in Queues, Touched(k), TableKept(k),
           NEW x \in Procs, Same(x), NEW told, Told(x, k, told)
    PROVE  Receiving(x)'
<1>1. /\ Receiving(x) /\ cur[x] \in Queues \cup {NULL} /\ Lid(rcv[x].msqid) \in Slots
      /\ pc'[x] = pc[x] /\ cur'[x] = cur[x] /\ rcv'[x] = rcv[x] /\ inmsg'[x] = inmsg[x]
    BY CallParts DEF Same
<1>2. \A j \in Queues : x \in ToSet(queue[j].receivers) <=> Waits(x) /\ cur[x] = j
    BY <1>1 DEF Receiving, Receivers
<1>3. \A j \in Queues \ {k} : queue'[j] = queue[j]
    BY DEF Touched
<1>4. Waits(x)' <=> Waits(x) /\ x \notin told
    BY <1>1, <1>2 DEF Waits, Told, Receivers
<1>5. \A j \in Queues : x \in ToSet(queue'[j].receivers) <=> Waits(x)' /\ cur'[x] = j
    <2>1. ASSUME NEW j \in Queues, j # k
          PROVE  x \in ToSet(queue'[j].receivers) <=> Waits(x)' /\ cur'[x] = j
        <3>1. queue'[j] = queue[j]
            BY <1>3, <2>1
        <3>2. x \in told => cur[x] = k
            BY <1>2 DEF Told, Receivers
        <3>3. QED
            BY <1>1, <1>2, <1>4, <2>1, <3>1, <3>2
    <2>2. x \in ToSet(queue'[k].receivers) <=> Waits(x)' /\ cur'[x] = k
        BY <1>1, <1>2, <1>4 DEF Told, Receivers
    <2>3. QED
        BY <2>1, <2>2
<1>6. ASSUME Waits(x)'
      PROVE  /\ Names(rcv[x].msqid, cur[x])'
             /\ FindMsg(queue[cur[x]].messages, rcv[x].type, rcv[x].mode)' = 0
             /\ (x \in asleep => x \in queue[cur[x]].readers)'
    <2>1. /\ Names(rcv[x].msqid, cur[x])
          /\ FindMsg(queue[cur[x]].messages, rcv[x].type, rcv[x].mode) = 0
          /\ x \in asleep => x \in queue[cur[x]].readers
        BY <1>1, <1>4, <1>6 DEF Receiving
    <2>2. cur[x] \in Queues /\ cur[x] # NULL
        BY <1>1, <2>1 DEF Names
    <2>3. x \in ToSet(queue'[cur[x]].receivers)
        BY <1>1, <1>5, <1>6, <2>2
    <2>4. Names(rcv[x].msqid, cur[x])'
        <3>1. ObjAt(ids)[Lid(rcv[x].msqid)] = cur[x]
            BY <2>1 DEF Names
        <3>2. \/ ObjAt(ids)'[Lid(rcv[x].msqid)] = cur[x]
              \/ cur[x] = k /\ queue'[k].receivers = <<>>
            BY <1>1, <2>2, <3>1 DEF TableKept
        <3>3. ObjAt(ids)'[Lid(rcv[x].msqid)] = cur[x]
            BY <2>3, <3>2, NoElems
        <3>4. QED
            BY <1>1, <2>2, <3>3 DEF Names
    <2>5. CASE cur[x] = k
        BY <1>1, <2>3, <2>4, <2>5 DEF Told
    <2>6. CASE cur[x] # k
        <3>1. queue'[cur[x]] = queue[cur[x]]
            BY <1>3, <2>2, <2>6
        <3>2. x \in asleep' => x \in asleep
            BY DEF Same
        <3>3. QED
            BY <1>1, <2>1, <2>4, <3>1, <3>2
    <2>7. QED
        BY <2>5, <2>6
<1>7. (rmsg[x] # EAGAIN => pc[x] \in RcvPlaces)'
    BY <1>1, <1>2 DEF Receiving, Told, Waits, Receivers
<1>8. (inmsg[x] # NULL <=> pc[x] = "copyout")'
    BY <1>1 DEF Receiving
<1>9. QED
    BY <1>5, <1>6, <1>7, <1>8 DEF Receiving, Receivers

\* ... as a sender, linked still or unlinked ...
LEMMA OtherSender ==
    ASSUME Inv, NEW k \in Queues, Touched(k), TableKept(k),
           NEW x \in Procs, Same(x), NEW unl, Unlinked(x, k, unl)
    PROVE  Sending(x)'
<1>1. /\ Sending(x) /\ cur[x] \in Queues \cup {NULL} /\ Lid(snd[x].msqid) \in Slots
      /\ pc'[x] = pc[x] /\ cur'[x] = cur[x] /\ snd'[x] = snd[x] /\ linked[x] \in BOOLEAN
    BY CallParts DEF Same
<1>2. \A j \in Queues : x \in ToSet(queue[j].senders) <=> linked[x] /\ cur[x] = j
    BY <1>1 DEF Sending, Senders
<1>3. \A j \in Queues \ {k} : queue'[j] = queue[j]
    BY DEF Touched
<1>4. linked'[x] <=> linked[x] /\ x \notin unl
    BY <1>1 DEF Unlinked
<1>5. x \in unl => linked[x] /\ cur[x] = k /\ x \notin asleep'
    BY <1>2 DEF Unlinked, Senders
<1>6. \A j \in Queues : x \in ToSet(queue'[j].senders) <=> linked'[x] /\ cur'[x] = j
    <2>1. ASSUME NEW j \in Queues, j # k
          PROVE  x \in ToSet(queue'[j].senders) <=> linked'[x] /\ cur'[x] = j
        BY <1>1, <1>2, <1>3, <1>4, <1>5, <2>1
    <2>2. x \in ToSet(queue'[k].senders) <=> linked'[x] /\ cur'[x] = k
        BY <1>1, <1>2, <1>4 DEF Unlinked, Senders
    <2>3. QED
        BY <2>1, <2>2
<1>7. ASSUME linked'[x] PROVE pc'[x] = "snd_sleep" /\ Names(snd[x].msqid, cur[x])'
    <2>1. pc[x] = "snd_sleep" /\ Names(snd[x].msqid, cur[x])
        BY <1>1, <1>4, <1>7 DEF Sending
    <2>2. cur[x] \in Queues /\ cur[x] # NULL /\ ObjAt(ids)[Lid(snd[x].msqid)] = cur[x]
        BY <1>1, <2>1 DEF Names
    <2>3. x \in ToSet(queue'[cur[x]].senders)
        BY <1>1, <1>6, <1>7, <2>2
    <2>4. \/ ObjAt(ids)'[Lid(snd[x].msqid)] = cur[x]
          \/ cur[x] = k /\ queue'[k].senders = <<>>
        BY <1>1, <2>2 DEF TableKept
    <2>5. ObjAt(ids)'[Lid(snd[x].msqid)] = cur[x]
        BY <2>3, <2>4, NoElems
    <2>6. QED
        BY <1>1, <2>1, <2>2, <2>5 DEF Names
<1>8. (pc[x] \in {"snd_sleep", "wake"} => snd[x].msg # NULL)'
    BY <1>1 DEF Sending
<1>9. ASSUME pc'[x] = "snd_sleep", x \in asleep'
      PROVE  linked'[x] /\ Full(queue'[cur'[x]], snd'[x].msg)
    <2>1. x \in asleep /\ x \notin unl
        BY <1>5, <1>9 DEF Same
    <2>2. linked[x] /\ Full(queue[cur[x]], snd[x].msg)
        BY <1>1, <1>9, <2>1 DEF Sending
    <2>3. cur[x] \in Queues
        BY <1>1, <2>2 DEF Sending, Names
    <2>4. linked'[x] /\ x \in ToSet(queue'[cur[x]].senders)
        BY <1>1, <1>4, <1>6, <2>1, <2>2, <2>3
    <2>5. CASE cur[x] = k
        BY <1>1, <1>9, <2>2, <2>4, <2>5 DEF Unlinked
    <2>6. CASE cur[x] # k
        <3>1. queue'[cur[x]] = queue[cur[x]]
            BY <1>3, <2>3, <2>6
        <3>2. QED
            BY <1>1, <2>2, <2>4, <3>1
    <2>7. QED
        BY <2>5, <2>6
<1>10. (pc[x] = "snd_sleep" /\ x \in asleep => linked[x] /\ Full(queue[cur[x]], snd[x].msg))'
    BY <1>9 DEF Full
<1>11. QED
    BY <1>6, <1>7, <1>8, <1>10 DEF Sending, Senders
\* The table changes only by the removal of a queue or the entry of a new one.
SlotsKept ==
    /\ nqueues \in Int /\ nqueues' \in Int /\ nqueues <= nqueues'
    /\ \A i \in Slots : \/ ObjAt(ids)'[i] = ObjAt(ids)[i]
                        \/ ObjAt(ids)'[i] = NULL \/ ObjAt(ids)'[i] = nqueues

\* ... and where it is.
LEMMA OtherPlaced ==
    ASSUME Inv, NEW x \in Procs, Same(x), SlotsKept, pc[x] = "rmid" => sem' = sem
    PROVE  Placed(x)'
<1>1. /\ Placed(x) /\ cur[x] \in Queues \cup {NULL}
      /\ pc'[x] = pc[x] /\ cur'[x] = cur[x] /\ taker'[x] = taker[x]
      /\ x \in asleep' => x \in asleep
    BY CallParts DEF Same
<1>2. ASSUME pc[x] = "rmid"
      PROVE  sem' = x /\ cur[x] # NULL /\ cur[x] < nqueues' /\ ~InTable(cur[x])'
    <2>1. sem = x /\ cur[x] # NULL /\ cur[x] < nqueues /\ ~InTable(cur[x])
        BY <1>1, <1>2 DEF Placed
    <2>2. cur[x] \in Int
        BY <1>1, <2>1 DEF Queues
    <2>3. cur[x] < nqueues' /\ cur[x] # nqueues
        BY <2>1, <2>2 DEF SlotsKept
    <2>4. \A i \in Slots : ObjAt(ids)[i] # cur[x]
        BY <2>1 DEF InTable
    <2>5. \A i \in Slots : ObjAt(ids)'[i] # cur[x]
        BY <2>1, <2>3, <2>4 DEF SlotsKept
    <2>6. QED
        BY <1>1, <1>2, <2>1, <2>3, <2>5 DEF InTable
<1>3. QED
    BY <1>1, <1>2 DEF Placed

\* The three together.
LEMMA OtherCalling ==
    ASSUME Inv, NEW k \in Queues, Touched(k), TableKept(k), SlotsKept, NEW x \in Procs,
           Same(x), pc[x] = "rmid" => sem' = sem,
           NEW told, Told(x, k, told), NEW unl, Unlinked(x, k, unl)
    PROVE  Calling(x)'
BY OtherReceiver, OtherSender, OtherPlaced DEF Calling

\* The table and the lock are left alone.
Settled == ids' = ids /\ nqueues' = nqueues /\ sem' = sem

\* A step that changes no table keeps what names a queue.
LEMMA SettledKept ==
    ASSUME Inv, Settled
    PROVE  /\ SlotsKept /\ ObjAt(ids)' = ObjAt(ids)
           /\ \A k : TableKept(k)
           /\ \A k : InTable(k)' <=> InTable(k)
           /\ \A id, k : Names(id, k)' <=> Names(id, k)
<1>1. ObjAt(ids)' = ObjAt(ids)
    BY DEF Settled, ObjAt
<1>2. nqueues \in Int /\ nqueues' = nqueues
    BY DEF Settled, Inv, QueueTypes
<1>3. SlotsKept
    BY <1>1, <1>2 DEF SlotsKept
<1>4. \A k : TableKept(k)
    BY <1>1 DEF TableKept
<1>5. \A k : InTable(k)' <=> InTable(k)
    BY <1>1 DEF InTable
<1>6. \A id, k : Names(id, k)' <=> Names(id, k)
    BY <1>1 DEF Names
<1>7. QED
    BY <1>1, <1>3, <1>4, <1>5, <1>6

\* A step that leaves the messages and the rules alone, and x on the lists it is on.
Quiet(x) ==
    /\ rmsg'[x] = rmsg[x] /\ linked'[x] = linked[x]
    /\ \A j \in Queues : /\ SameMsgs(queue[j], queue'[j]) /\ SameRules(queue[j], queue'[j])
                         /\ x \in ToSet(queue'[j].receivers) <=> x \in Receivers(j)
                         /\ x \in ToSet(queue'[j].senders) <=> x \in Senders(j)

\* Whether there is room depends on the messages and the limit only.
LEMMA FullSame ==
    ASSUME NEW q, NEW r, SameMsgs(q, r), SameRules(q, r), NEW m
    PROVE  Full(r, m) <=> Full(q, m)
BY DEF SameMsgs, SameRules, Full

\* A process whose queue keeps its messages and rules is in order.
LEMMA OtherQuiet ==
    ASSUME Inv, Settled, NEW x \in Procs, Same(x), Quiet(x)
    PROVE  Calling(x)'
<1>1. Receiving(x) /\ Sending(x) /\ cur[x] \in Queues \cup {NULL}
    BY CallParts
<1>2. /\ pc'[x] = pc[x] /\ cur'[x] = cur[x] /\ snd'[x] = snd[x] /\ rcv'[x] = rcv[x]
      /\ inmsg'[x] = inmsg[x] /\ rmsg'[x] = rmsg[x] /\ linked'[x] = linked[x]
      /\ x \in asleep' => x \in asleep
    BY DEF Same, Quiet
<1>3. Placed(x)'
    BY OtherPlaced, SettledKept DEF Settled
<1>4. Waits(x)' <=> Waits(x)
    BY <1>2 DEF Waits
<1>5. \A j \in Queues : /\ SameMsgs(queue[j], queue'[j]) /\ SameRules(queue[j], queue'[j])
                        /\ x \in ToSet(queue'[j].receivers) <=> x \in ToSet(queue[j].receivers)
                        /\ x \in ToSet(queue'[j].senders) <=> x \in ToSet(queue[j].senders)
    BY DEF Quiet, Receivers, Senders
<1>6. Receiving(x)'
    <2>1. ASSUME Waits(x)'
          PROVE  /\ Names(rcv[x].msqid, cur[x])'
                 /\ FindMsg(queue[cur[x]].messages, rcv[x].type, rcv[x].mode)' = 0
                 /\ (x \in asleep => x \in queue[cur[x]].readers)'
        <3>1. /\ Names(rcv[x].msqid, cur[x])
              /\ FindMsg(queue[cur[x]].messages, rcv[x].type, rcv[x].mode) = 0
              /\ x \in asleep => x \in queue[cur[x]].readers
            BY <1>1, <1>4, <2>1 DEF Receiving
        <3>2. cur[x] \in Queues
            BY <1>1, <3>1 DEF Names
        <3>3. /\ queue'[cur[x]].messages = queue[cur[x]].messages
              /\ queue'[cur[x]].readers = queue[cur[x]].readers
            BY <1>5, <3>2 DEF SameMsgs, SameRules
        <3>4. QED
            BY <1>2, <3>1, <3>3, SettledKept
    <2>2. \A j \in Queues : x \in ToSet(queue'[j].receivers) <=> Waits(x)' /\ cur'[x] = j
        BY <1>1, <1>2, <1>4, <1>5 DEF Receiving, Receivers
    <2>3. /\ rmsg'[x] # EAGAIN => pc'[x] \in RcvPlaces
          /\ inmsg'[x] # NULL <=> pc'[x] = "copyout"
        BY <1>1, <1>2 DEF Receiving
    <2>4. QED
        BY <2>1, <2>2, <2>3 DEF Receiving, Receivers
<1>7. Sending(x)'
    <2>1. \A j \in Queues : x \in ToSet(queue'[j].senders) <=> linked'[x] /\ cur'[x] = j
        BY <1>1, <1>2, <1>5 DEF Sending, Senders
    <2>2. linked'[x] => pc'[x] = "snd_sleep" /\ Names(snd[x].msqid, cur[x])'
        BY <1>1, <1>2, SettledKept DEF Sending
    <2>3. pc'[x] \in {"snd_sleep", "wake"} => snd'[x].msg # NULL
        BY <1>1, <1>2 DEF Sending
    <2>4. ASSUME pc'[x] = "snd_sleep", x \in asleep'
          PROVE  linked'[x] /\ Full(queue'[cur'[x]], snd'[x].msg)
        <3>1. linked[x] /\ Full(queue[cur[x]], snd[x].msg) /\ Names(snd[x].msqid, cur[x])
            BY <1>1, <1>2, <2>4 DEF Sending
        <3>2. cur[x] \in Queues
            BY <1>1, <3>1 DEF Names
        <3>3. SameMsgs(queue[cur[x]], queue'[cur[x]]) /\ SameRules(queue[cur[x]], queue'[cur[x]])
            BY <1>5, <3>2
        <3>4. QED
            BY <1>2, <3>1, <3>3, FullSame
    <2>5. QED
        BY <2>1, <2>2, <2>3, <2>4 DEF Sending, Senders, Full
<1>8. QED
    BY <1>3, <1>6, <1>7 DEF Calling

\* A process is in order after a step that changes no queue.
LEMMA OtherUnchanged ==
    ASSUME Inv, Settled, NEW x \in Procs, Same(x), queue' = queue,
           rmsg'[x] = rmsg[x], linked'[x] = linked[x]
    PROVE  Calling(x)'
<1>1. Quiet(x)
    BY DEF Quiet, Receivers, Senders, SameMsgs, SameRules
<1>2. QED
    BY <1>1, OtherQuiet

\* A process that has left a call, or is about to.
LEMMA AwayCalling ==
    ASSUME NEW p \in Procs, pc'[p] \in {"idle", "copyout"}, rmsg'[p] = EAGAIN,
           inmsg'[p] # NULL <=> pc'[p] = "copyout", linked'[p] = FALSE, p \notin asleep',
           \A k \in Queues : p \notin ToSet(queue'[k].receivers) /\ p \notin ToSet(queue'[k].senders)
    PROVE  Calling(p)'
<1>1. ~Waits(p)'
    BY DEF Waits, RcvPlaces
<1>2. Receiving(p)'
    BY <1>1 DEF Receiving, Receivers
<1>3. Sending(p)'
    BY DEF Sending, Senders
<1>4. Placed(p)'
    BY DEF Placed
<1>5. QED
    BY <1>2, <1>3, <1>4 DEF Calling

(***************************************************************************)
(* The messages: where they are and how many.                              *)
(***************************************************************************)
LEMMA OwnedKept ==
    ASSUME Inv, Settled,
           \A x \in Procs : pc[x] = "rmid" => pc'[x] = "rmid" /\ cur'[x] = cur[x],
           \A k \in Queues : queue'[k].messages # <<>> => queue[k].messages # <<>> \/ InTable(k)
    PROVE  Owned'
<1>1. ASSUME NEW k \in Queues, queue'[k].messages # <<>>
      PROVE  InTable(k)' \/ \E x \in Procs : pc'[x] = "rmid" /\ cur'[x] = k
    <2>1. InTable(k) \/ \E x \in Procs : pc[x] = "rmid" /\ cur[x] = k
        BY <1>1 DEF Inv, Owned
    <2>2. QED
        BY <2>1, SettledKept
<1>2. QED
    BY <1>1 DEF Owned

\* Counters stay right when no queue changes its messages.
LEMMA CountedSame ==
    ASSUME Inv, hdrs' = hdrs, bytes' = bytes,
           \A k \in Queues : SameMsgs(queue[k], queue'[k])
    PROVE  Counted'
<1>1. On(Queues)' = On(Queues)
    BY DEF On, SameMsgs
<1>2. Amount(On(Queues), hdrs, bytes)'
    BY <1>1 DEF Inv, Counted, Amount, Bytes
<1>3. ASSUME NEW k \in Queues PROVE CountedAt(queue'[k])
    BY DEF Inv, Counted, CountedAt, SameMsgs
<1>4. \A k \in Queues : CountedAt(queue[k])'
    BY <1>3 DEF CountedAt, Amount, Bytes
<1>5. QED
    BY <1>2, <1>4 DEF Counted

\* Ids stay distinct on the queues a step does not touch.
LEMMA DistinctKept ==
    ASSUME Inv, NEW k \in Queues, Touched(k), DistinctIds(queue'[k].messages)
    PROVE  (\A j \in Queues : DistinctIds(queue[j].messages))'
<1>1. ASSUME NEW j \in Queues PROVE DistinctIds(queue'[j].messages)
    BY DEF Inv, Conserved, Touched
<1>2. QED
    BY <1>1 DEF DistinctIds

\* Conservation, put together from its parts.
LEMMA SpotsKept ==
    ASSUME Inv, OneSpot(Held', 0 .. nmsgs' - 1),
           (\A j \in Queues : DistinctIds(queue[j].messages))'
    PROVE  Conserved'
BY DEF Conserved, OneSpot

\* Messages are conserved by a step that moves none.
LEMMA ConservedSame ==
    ASSUME Inv, nmsgs' = nmsgs, freed' = freed,
           \A k \in Queues : SameMsgs(queue[k], queue'[k]),
           \A x \in Procs : /\ SenderHas(x)' = SenderHas(x) /\ HandedHas(x)' = HandedHas(x)
                            /\ CopiedHas(x)' = CopiedHas(x)
    PROVE  Conserved'
<1>1. \A k \in Queues : IdsOf(queue'[k].messages) = IdsOf(queue[k].messages)
    BY DEF SameMsgs
<1>2. \A x \in Spots \ {} : Held'[x] = Held[x]
    BY <1>1, HeldKept
<1>3. OneSpot(Held, 0 .. nmsgs - 1)
    BY DEF Inv, Conserved
<1>4. OneSpot(Held', 0 .. nmsgs - 1)
    BY <1>2, <1>3, SpotSame
<1>5. \A j \in Queues : DistinctIds(queue'[j].messages)
    BY DEF Inv, Conserved, SameMsgs
<1>6. (\A j \in Queues : DistinctIds(queue[j].messages))'
    BY <1>5 DEF DistinctIds
<1>7. QED
    BY <1>4, <1>6, SpotsKept

\* The message a sender has in hand: just loaded, or kept while it slept.
InHand(p, m) ==
    \/ nmsgs' = nmsgs + 1 /\ m.id = nmsgs /\ pc[p] # "snd_sleep"
    \/ nmsgs' = nmsgs /\ pc[p] = "snd_sleep" /\ snd[p].msg = m

\* The message of a sender moves to another spot b, or appears there when it was
\* just loaded.
LEMMA SentTo ==
    ASSUME Inv, NEW p \in Procs, NEW m \in Message, InHand(p, m), pc'[p] # "snd_sleep",
           NEW b \in Spots, b # <<"sender", p>>, Held'[b] = Held[b] \cup {m.id},
           \A x \in Spots \ {<<"sender", p>>, b} : Held'[x] = Held[x]
    PROVE  OneSpot(Held', 0 .. nmsgs' - 1)
<1>1. OneSpot(Held, 0 .. nmsgs - 1) /\ nmsgs \in Nat
    BY DEF Inv, Conserved, ProcTypes
<1>2. /\ <<"sender", p>> \in Spots /\ Held[<<"sender", p>>] = SenderHas(p)
      /\ Held'[<<"sender", p>>] = SenderHas(p)'
    BY HeldIs, HeldNext
<1>3. Held'[<<"sender", p>>] = {}
    BY <1>2 DEF SenderHas
<1>4. CASE nmsgs' = nmsgs + 1 /\ m.id = nmsgs /\ pc[p] # "snd_sleep"
    <2>1. Held[<<"sender", p>>] = {}
        BY <1>2, <1>4 DEF SenderHas
    <2>2. \A x \in Spots \ {b} : Held'[x] = Held[x]
        BY <1>3, <2>1
    <2>3. m.id \notin 0 .. nmsgs - 1 /\ (0 .. nmsgs - 1) \cup {m.id} = 0 .. nmsgs' - 1
        BY <1>1, <1>4
    <2>4. Added(Held, Held', b, m.id)
        BY <2>2 DEF Added
    <2>5. OneSpot(Held', (0 .. nmsgs - 1) \cup {m.id})
        BY <1>1, <2>3, <2>4, SpotAdded, Zenon
    <2>6. QED
        BY <2>3, <2>5
<1>5. CASE nmsgs' = nmsgs /\ pc[p] = "snd_sleep" /\ snd[p].msg = m
    <2>1. Held[<<"sender", p>>] = {m.id}
        BY <1>2, <1>5 DEF SenderHas
    <2>2. /\ {m.id} \subseteq Held[<<"sender", p>>]
          /\ Held'[<<"sender", p>>] = Held[<<"sender", p>>] \ {m.id}
        BY <1>3, <2>1
    <2>3. Moved(Held, Held', <<"sender", p>>, b, {m.id})
        BY <1>2, <2>2 DEF Moved
    <2>4. OneSpot(Held', 0 .. nmsgs - 1)
        BY <1>1, <2>3, SpotMoved, Zenon
    <2>5. QED
        BY <1>5, <2>4
<1>6. QED
    BY <1>4, <1>5 DEF InHand

\* The message of a sender is on no queue.
LEMMA FreshMessage ==
    ASSUME Inv, NEW p \in Procs, NEW m \in Message, InHand(p, m), NEW k \in Queues
    PROVE  m.id \notin IdsOf(queue[k].messages)
<1>1. OneSpot(Held, 0 .. nmsgs - 1) /\ nmsgs \in Nat
    BY DEF Inv, Conserved, ProcTypes
<1>2. /\ <<"sender", p>> \in Spots /\ Held[<<"sender", p>>] = SenderHas(p)
      /\ <<"queue", k>> \in Spots /\ Held[<<"queue", k>>] = IdsOf(queue[k].messages)
    BY HeldIs
<1>3. CASE m.id = nmsgs
    <2>1. nmsgs \notin 0 .. nmsgs - 1
        BY <1>1
    <2>2. QED
        BY <1>1, <1>2, <1>3, <2>1 DEF OneSpot
<1>4. CASE pc[p] = "snd_sleep" /\ snd[p].msg = m
    <2>1. m.id \in Held[<<"sender", p>>]
        BY <1>2, <1>4 DEF SenderHas
    <2>2. <<"sender", p>> # <<"queue", k>>
        BY SpotsDiffer
    <2>3. QED
        BY <1>1, <1>2, <2>1, <2>2 DEF OneSpot
<1>5. QED
    BY <1>3, <1>4 DEF InHand

\* No message is on two queues.
LEMMA ApartQueues ==
    ASSUME Inv, NEW j \in Queues, NEW k \in Queues, j # k
    PROVE  ToSet(queue[j].messages) \cap ToSet(queue[k].messages) = {}
<1>1. SUFFICES ASSUME NEW m, m \in ToSet(queue[j].messages), m \in ToSet(queue[k].messages)
               PROVE FALSE
    OBVIOUS
<1>2. m.id \in IdsOf(queue[j].messages) /\ m.id \in IdsOf(queue[k].messages)
    BY <1>1 DEF ToSet, IdsOf
<1>3. /\ <<"queue", j>> \in Spots /\ Held[<<"queue", j>>] = IdsOf(queue[j].messages)
      /\ <<"queue", k>> \in Spots /\ Held[<<"queue", k>>] = IdsOf(queue[k].messages)
    BY HeldIs
<1>4. \A x, y \in Spots : \A i \in Held[x] \cap Held[y] : x = y
    BY DEF Inv, Conserved, OneSpot
<1>5. <<"queue", j>> = <<"queue", k>>
    BY <1>2, <1>3, <1>4
<1>6. QED
    BY <1>5

\* The messages on all queues, apart from the one a step touches.
LEMMA OnParts ==
    ASSUME Inv, NEW k \in Queues, Touched(k)
    PROVE  /\ On(Queues) = On(Queues \ {k}) \cup ToSet(queue[k].messages)
           /\ On(Queues)' = On(Queues \ {k}) \cup ToSet(queue'[k].messages)
           /\ On(Queues \ {k}) \cap ToSet(queue[k].messages) = {}
<1>1. On(Queues) = On(Queues \ {k}) \cup ToSet(queue[k].messages)
    BY DEF On
<1>2. On(Queues)' = On(Queues \ {k})' \cup ToSet(queue'[k].messages)
    BY DEF On
<1>3. On(Queues \ {k})' = On(Queues \ {k})
    BY DEF On, Touched
<1>4. On(Queues \ {k}) \cap ToSet(queue[k].messages) = {}
    BY ApartQueues DEF On
<1>5. QED
    BY <1>1, <1>2, <1>3, <1>4

\* Counters are right after a step on one queue if that queue and the totals
\* are.
LEMMA CountedTouched ==
    ASSUME Inv, NEW k \in Queues, Touched(k), CountedAt(queue'[k]),
           NEW S, On(Queues)' = S, Amount(S, hdrs', bytes')
    PROVE  Counted'
<1>1. ASSUME NEW j \in Queues PROVE CountedAt(queue'[j])
    BY DEF Inv, Counted, Touched
<1>2. \A j \in Queues : CountedAt(queue[j])'
    BY <1>1 DEF CountedAt, Amount, Bytes
<1>3. Amount(On(Queues), hdrs, bytes)'
    BY DEF Amount, Bytes
<1>4. QED
    BY <1>2, <1>3 DEF Counted

(***************************************************************************)
(* The steps that leave the messages where they are.                       *)
(***************************************************************************)
LEMMA SettledTypes ==
    ASSUME Inv, Settled, queue' \in [Queues -> MsgQueue]
    PROVE  QueueTypes' /\ Slotted'
<1>1. QueueTypes'
    BY DEF Inv, QueueTypes, Settled
<1>2. ObjAt(ids)' = ObjAt(ids)
    BY SettledKept
<1>3. Slotted'
    BY <1>2 DEF Inv, Slotted, Settled
<1>4. QED
    BY <1>1, <1>3

\* Nothing happens to any message.
MsgsStay ==
    /\ queue' \in [Queues -> MsgQueue]
    /\ \A k \in Queues : SameMsgs(queue[k], queue'[k])
    /\ nmsgs' = nmsgs /\ freed' = freed /\ hdrs' = hdrs /\ bytes' = bytes
    /\ \A x \in Procs : /\ SenderHas(x)' = SenderHas(x) /\ HandedHas(x)' = HandedHas(x)
                        /\ CopiedHas(x)' = CopiedHas(x)
                        /\ pc[x] = "rmid" => pc'[x] = "rmid" /\ cur'[x] = cur[x]

\* The messages on the queues stay there.
QueuesStay ==
    /\ queue' \in [Queues -> MsgQueue]
    /\ \A k \in Queues : SameMsgs(queue[k], queue'[k])
    /\ hdrs' = hdrs /\ bytes' = bytes
    /\ \A x \in Procs : pc[x] = "rmid" => pc'[x] = "rmid" /\ cur'[x] = cur[x]

\* A step that leaves the messages on their queues keeps the invariant if it
\* keeps the other parts ...
LEMMA QueuesStayInv ==
    ASSUME Inv, Settled, QueuesStay, ProcTypes', \A x \in Procs : Calling(x)',
           OneSpot(Held', 0 .. nmsgs' - 1)
    PROVE  Inv'
<1>1. QueueTypes' /\ Slotted'
    BY SettledTypes DEF QueuesStay
<1>2. Owned'
    BY OwnedKept DEF QueuesStay, SameMsgs
<1>3. Counted'
    BY CountedSame DEF QueuesStay
<1>4. \A j \in Queues : DistinctIds(queue'[j].messages)
    BY DEF Inv, Conserved, QueuesStay, SameMsgs
<1>5. (\A j \in Queues : DistinctIds(queue[j].messages))'
    BY <1>4 DEF DistinctIds
<1>6. Conserved'
    BY <1>5, SpotsKept
<1>7. QED
    BY <1>1, <1>2, <1>3, <1>6 DEF Inv

\* ... and so does one that moves no message at all.
LEMMA StayInv ==
    ASSUME Inv, Settled, MsgsStay, ProcTypes', \A x \in Procs : Calling(x)'
    PROVE  Inv'
<1>1. QueueTypes' /\ Slotted'
    BY SettledTypes DEF MsgsStay
<1>2. Owned'
    BY OwnedKept DEF MsgsStay, SameMsgs
<1>3. Counted'
    BY CountedSame DEF MsgsStay
<1>4. Conserved'
    BY ConservedSame DEF MsgsStay
<1>5. QED
    BY <1>1, <1>2, <1>3, <1>4 DEF Inv

\* A queue has its own messages and rules.
LEMMA SameMsgsSelf == \A q : SameMsgs(q, q) /\ SameRules(q, q)
BY DEF SameMsgs, SameRules

\* A signal wakes a process and changes nothing else.
LEMMA SignalInv ==
    ASSUME Inv, NEW p \in Procs, Signal(p)
    PROVE  Inv'
<1>1. /\ queue' = queue /\ Settled /\ asleep' = asleep \ {p} /\ sig' = sig \cup {p}
      /\ ary' = ary /\ pc' = pc /\ cur' = cur /\ nmsgs' = nmsgs /\ hdrs' = hdrs /\ bytes' = bytes
      /\ freed' = freed /\ snd' = snd /\ linked' = linked /\ taker' = taker
      /\ rcv' = rcv /\ rmsg' = rmsg /\ inmsg' = inmsg
    BY DEF Signal, Settled, queueVars, msgVars, lockVars, sndVars, rcvVars
<1>2. ProcTypes'
    BY <1>1 DEF Inv, ProcTypes, Settled
<1>3. queue' \in [Queues -> MsgQueue]
    BY <1>1 DEF Inv, QueueTypes
<1>4. MsgsStay
    BY <1>1, <1>3, SameMsgsSelf DEF MsgsStay, SenderHas, HandedHas, CopiedHas
<1>5. ASSUME NEW x \in Procs PROVE Calling(x)'
    <2>1. Same(x)
        BY <1>1 DEF Same
    <2>2. QED
        BY <1>1, <2>1, OtherUnchanged
<1>6. QED
    BY <1>1, <1>2, <1>4, <1>5, StayInv

\* Errors, messages and NULL are apart.
LEMMA Kinds ==
    /\ EAGAIN \in Errors /\ EIDRM \in Errors /\ E2BIG \in Errors
    /\ EAGAIN # EIDRM /\ EAGAIN # E2BIG
    /\ \A m \in Message : m \notin Errors /\ m # EAGAIN /\ m # NULL
                          /\ m.id \in 0 .. MaxMsgs - 1 /\ m.size \in Nat
BY MsgAssumption DEF Errors, Message

\* The arguments of a process that is in no call.
LEMMA NoArgs == NoRcv \in RcvArgs /\ NoSnd \in SndArgs
BY IdSlot DEF NoRcv, RcvArgs, SearchModes, NoSnd, SndArgs

\* A process that neither waits for a message nor is linked is on no list.
LEMMA OnNoList ==
    ASSUME Inv, NEW p \in Procs
    PROVE  /\ ~Waits(p) => \A k \in Queues : p \notin ToSet(queue[k].receivers)
           /\ ~linked[p] => \A k \in Queues : p \notin ToSet(queue[k].senders)
           /\ pc[p] # "snd_sleep" => linked[p] = FALSE
           /\ pc[p] \notin RcvPlaces => rmsg[p] = EAGAIN
           /\ pc[p] # "copyout" => inmsg[p] = NULL
           /\ pc[p] \notin {"snd_sleep", "rcv_sleep"} => p \notin asleep
<1>1. Receiving(p) /\ Sending(p) /\ Placed(p) /\ linked[p] \in BOOLEAN
    BY CallParts
<1>2. QED
    BY <1>1 DEF Receiving, Sending, Placed, Receivers, Senders

\* out_success of msgrcv: the message moves from r_msg to the copy.
LEMMA TakeInv ==
    ASSUME Inv, NEW p \in Procs, RcvTake(p), rmsg[p] \notin Errors, pc[p] \in RcvPlaces,
           p \notin asleep
    PROVE  Inv'
<1>1. /\ queue' = queue /\ Settled /\ asleep' = asleep /\ sig' = sig
      /\ ary' = ary /\ nmsgs' = nmsgs /\ hdrs' = hdrs /\ bytes' = bytes
      /\ freed' = freed /\ snd' = snd /\ linked' = linked /\ taker' = taker
    BY DEF RcvTake, Settled, queueVars, msgVars, lockVars, sndVars
<1>2. /\ inmsg' = [inmsg EXCEPT ![p] = rmsg[p]] /\ rcv' = [rcv EXCEPT ![p] = NoRcv]
      /\ rmsg' = [rmsg EXCEPT ![p] = EAGAIN] /\ cur' = [cur EXCEPT ![p] = NULL]
      /\ pc' = [pc EXCEPT ![p] = "copyout"]
    BY DEF RcvTake, Goto
<1>3. rmsg[p] \in Message /\ pc[p] # "snd_sleep" /\ pc[p] # "rmid" /\ pc[p] # "copyout"
    BY CallParts DEF RcvPlaces
<1>4. ProcTypes
    BY DEF Inv
<1>5. /\ inmsg'[p] = rmsg[p] /\ rmsg'[p] = EAGAIN /\ pc'[p] = "copyout"
      /\ \A x \in Procs \ {p} : /\ inmsg'[x] = inmsg[x] /\ rmsg'[x] = rmsg[x] /\ pc'[x] = pc[x]
                                /\ cur'[x] = cur[x] /\ rcv'[x] = rcv[x]
    BY <1>2, <1>4 DEF ProcTypes
<1>6. ProcTypes'
    <2>2. /\ inmsg' \in [Procs -> Message \cup {NULL}] /\ rcv' \in [Procs -> RcvArgs]
          /\ rmsg' \in [Procs -> Message \cup Errors] /\ cur' \in [Procs -> Queues \cup {NULL}]
          /\ pc' \in [Procs -> PCs]
        BY <1>2, <1>3, <1>4, NoArgs, Kinds DEF ProcTypes, PCs
    <2>3. QED
        BY <1>1, <1>4, <2>2 DEF ProcTypes, Settled
<1>7. QueuesStay
    <2>1. queue' \in [Queues -> MsgQueue]
        BY <1>1 DEF Inv, QueueTypes
    <2>2. QED
        BY <1>1, <1>3, <1>5, <2>1, SameMsgsSelf DEF QueuesStay
<1>8. ASSUME NEW x \in Procs PROVE Calling(x)'
    <2>1. CASE x # p
        <3>1. Same(x)
            BY <1>1, <1>5, <2>1 DEF Same
        <3>2. QED
            BY <1>1, <1>5, <2>1, <3>1, OtherUnchanged
    <2>2. CASE x = p
        <3>1. ~Waits(p)
            BY Kinds DEF Waits
        <3>2. linked[p] = FALSE
            BY <1>3, OnNoList
        <3>3. \A k \in Queues : p \notin ToSet(queue'[k].receivers) /\ p \notin ToSet(queue'[k].senders)
            BY <1>1, <3>1, <3>2, OnNoList
        <3>4. inmsg'[p] # NULL
            BY <1>3, <1>5, Kinds
        <3>5. QED
            BY <1>1, <1>5, <2>2, <3>2, <3>3, <3>4, AwayCalling
    <2>3. QED
        BY <2>1, <2>2
<1>9. OneSpot(Held', 0 .. nmsgs' - 1)
    <2>1. /\ HandedHas(p) = {rmsg[p].id} /\ HandedHas(p)' = {}
          /\ CopiedHas(p) = {} /\ CopiedHas(p)' = {rmsg[p].id}
        <3>1. inmsg[p] = NULL
            BY <1>3, OnNoList
        <3>2. QED
            BY <1>3, <1>5, <3>1, Kinds DEF HandedHas, CopiedHas
    <2>2. \A x \in Procs : /\ SenderHas(x)' = SenderHas(x)
                           /\ <<"handed", x>> \notin {<<"handed", p>>, <<"copied", p>>} => HandedHas(x)' = HandedHas(x)
                           /\ <<"copied", x>> \notin {<<"handed", p>>, <<"copied", p>>} => CopiedHas(x)' = CopiedHas(x)
        BY <1>1, <1>3, <1>5 DEF SenderHas, HandedHas, CopiedHas
    <2>3. \A x \in Spots \ {<<"handed", p>>, <<"copied", p>>} : Held'[x] = Held[x]
        BY <1>1, <2>2, HeldKept
    <2>4. /\ <<"handed", p>> \in Spots /\ <<"copied", p>> \in Spots
          /\ Held[<<"handed", p>>] = {rmsg[p].id} /\ Held'[<<"handed", p>>] = {}
          /\ Held[<<"copied", p>>] = {} /\ Held'[<<"copied", p>>] = {rmsg[p].id}
        BY <2>1, HeldIs, HeldNext
    <2>5. Moved(Held, Held', <<"handed", p>>, <<"copied", p>>, {rmsg[p].id})
        BY <2>3, <2>4, SpotsDiffer DEF Moved
    <2>6. OneSpot(Held, 0 .. nmsgs - 1)
        BY DEF Inv, Conserved
    <2>7. QED
        BY <1>1, <2>5, <2>6, SpotMoved
<1>10. QED
    BY <1>1, <1>6, <1>7, <1>8, <1>9, QueuesStayInv
\* The process p is on no list any more; nothing else about the queues has changed.
Left(p) ==
    /\ queue' \in [Queues -> MsgQueue]
    /\ \A j \in Queues :
          /\ SameMsgs(queue[j], queue'[j]) /\ SameRules(queue[j], queue'[j])
          /\ p \notin ToSet(queue'[j].receivers) /\ p \notin ToSet(queue'[j].senders)
          /\ \A x \in Procs \ {p} : /\ x \in ToSet(queue'[j].receivers) <=> x \in Receivers(j)
                                    /\ x \in ToSet(queue'[j].senders) <=> x \in Senders(j)

\* A process on no list has left every queue.
LEMMA LeftUnchanged ==
    ASSUME Inv, NEW p \in Procs, queue' = queue, ~Waits(p), ~linked[p]
    PROVE  Left(p)
<1>1. queue' \in [Queues -> MsgQueue]
    BY DEF Inv, QueueTypes
<1>2. QED
    BY <1>1, OnNoList, SameMsgsSelf DEF Left, Receivers, Senders

\* q is the msg_queue of k once p has unlinked itself from it.
Ready(p, k, q) ==
    /\ k \in Queues /\ q \in MsgQueue
    /\ SameMsgs(queue[k], q) /\ SameRules(queue[k], q)
    /\ ToSet(q.receivers) = Receivers(k) \ {p} /\ ToSet(q.senders) = Senders(k) \ {p}
    /\ \A j \in Queues \ {k} : p \notin Receivers(j) /\ p \notin Senders(j)

\* A process that writes back the queue it has unlinked itself from has left
\* every queue.
LEMMA LeftReady ==
    ASSUME Inv, NEW p \in Procs, NEW k, NEW q, Ready(p, k, q), queue' = [queue EXCEPT ![k] = q]
    PROVE  Left(p)
<1>1. queue \in [Queues -> MsgQueue] /\ k \in Queues /\ q \in MsgQueue
    BY DEF Inv, QueueTypes, Ready
<1>2. queue' \in [Queues -> MsgQueue] /\ queue'[k] = q /\ \A j \in Queues \ {k} : queue'[j] = queue[j]
    BY <1>1
<1>3. ASSUME NEW j \in Queues
      PROVE  /\ SameMsgs(queue[j], queue'[j]) /\ SameRules(queue[j], queue'[j])
             /\ p \notin ToSet(queue'[j].receivers) /\ p \notin ToSet(queue'[j].senders)
             /\ \A x \in Procs \ {p} : /\ x \in ToSet(queue'[j].receivers) <=> x \in Receivers(j)
                                       /\ x \in ToSet(queue'[j].senders) <=> x \in Senders(j)
    <2>1. CASE j = k
        BY <1>2, <2>1 DEF Ready
    <2>2. CASE j # k
        BY <1>2, <2>2, SameMsgsSelf DEF Ready, Receivers, Senders
    <2>3. QED
        BY <2>1, <2>2
<1>4. QED
    BY <1>2, <1>3 DEF Left

\* The others do not notice that p has left.
LEMMA LeftQuiet ==
    ASSUME NEW p \in Procs, Left(p), NEW x \in Procs, x # p,
           rmsg'[x] = rmsg[x], linked'[x] = linked[x]
    PROVE  Quiet(x)
BY DEF Left, Quiet

\* msgrcv returns an error.
LEMMA RcvFailInv ==
    ASSUME Inv, NEW p \in Procs, RcvFail(p), Left(p), rmsg[p] \in Errors, p \notin asleep,
           pc[p] \in {"idle"} \cup RcvPlaces
    PROVE  Inv'
<1>1. /\ Settled /\ asleep' = asleep /\ ary' = ary /\ nmsgs' = nmsgs /\ hdrs' = hdrs
      /\ bytes' = bytes /\ freed' = freed /\ snd' = snd /\ linked' = linked /\ taker' = taker
      /\ inmsg' = inmsg
    BY DEF RcvFail, Settled, msgVars, lockVars, sndVars
<1>2. /\ rcv' = [rcv EXCEPT ![p] = NoRcv] /\ rmsg' = [rmsg EXCEPT ![p] = EAGAIN]
      /\ cur' = [cur EXCEPT ![p] = NULL] /\ pc' = [pc EXCEPT ![p] = "idle"] /\ sig' = sig \ {p}
    BY DEF RcvFail, Leave, Goto
<1>3. pc[p] # "snd_sleep" /\ pc[p] # "rmid" /\ pc[p] # "copyout"
    BY DEF RcvPlaces
<1>4. ProcTypes
    BY DEF Inv
<1>5. /\ rmsg'[p] = EAGAIN /\ pc'[p] = "idle"
      /\ \A x \in Procs \ {p} : /\ rmsg'[x] = rmsg[x] /\ pc'[x] = pc[x]
                                /\ cur'[x] = cur[x] /\ rcv'[x] = rcv[x]
    BY <1>2, <1>4 DEF ProcTypes
<1>6. ProcTypes'
    <2>2. /\ rcv' \in [Procs -> RcvArgs] /\ rmsg' \in [Procs -> Message \cup Errors]
          /\ cur' \in [Procs -> Queues \cup {NULL}] /\ pc' \in [Procs -> PCs]
          /\ sig' \in SUBSET Procs
        BY <1>2, <1>4, NoArgs, Kinds DEF ProcTypes, PCs
    <2>3. QED
        BY <1>1, <1>4, <2>2 DEF ProcTypes, Settled
<1>7. MsgsStay
    <2>1. \A x \in Procs : /\ SenderHas(x)' = SenderHas(x) /\ CopiedHas(x)' = CopiedHas(x)
                           /\ HandedHas(x)' = HandedHas(x)
        BY <1>1, <1>3, <1>5, Kinds DEF SenderHas, HandedHas, CopiedHas
    <2>2. QED
        BY <1>1, <1>3, <1>5, <2>1 DEF MsgsStay, Left
<1>8. ASSUME NEW x \in Procs PROVE Calling(x)'
    <2>1. CASE x # p
        <3>1. Same(x)
            BY <1>1, <1>5, <2>1 DEF Same
        <3>2. QED
            BY <1>1, <1>5, <2>1, <3>1, LeftQuiet, OtherQuiet
    <2>2. CASE x = p
        <3>1. linked[p] = FALSE /\ inmsg[p] = NULL
            BY <1>3, OnNoList
        <3>2. \A k \in Queues : p \notin ToSet(queue'[k].receivers) /\ p \notin ToSet(queue'[k].senders)
            BY DEF Left
        <3>3. QED
            BY <1>1, <1>5, <2>2, <3>1, <3>2, AwayCalling
    <2>3. QED
        BY <2>1, <2>2
<1>9. QED
    BY <1>1, <1>6, <1>7, <1>8, StayInv

\* The check of r_msg without the lock.
LEMMA CheckInv ==
    ASSUME Inv, NEW p \in Procs, RcvCheck(p)
    PROVE  Inv'
<1>1. pc[p] = "rcv_sleep" /\ p \notin asleep /\ pc[p] \in RcvPlaces
    BY DEF RcvCheck, RcvPlaces
<1>2. CASE rmsg[p] \notin Errors /\ RcvTake(p)
    BY <1>1, <1>2, TakeInv
<1>3. CASE /\ Goto(p, "rcv_relock")
           /\ UNCHANGED <<queueVars, msgVars, lockVars, asleep, sig, cur, sndVars, rcvVars>>
    <2>1. /\ queue' = queue /\ Settled /\ asleep' = asleep /\ sig' = sig /\ ary' = ary /\ cur' = cur
          /\ nmsgs' = nmsgs /\ hdrs' = hdrs /\ bytes' = bytes /\ freed' = freed
          /\ snd' = snd /\ linked' = linked /\ taker' = taker
          /\ rcv' = rcv /\ rmsg' = rmsg /\ inmsg' = inmsg
        BY <1>3 DEF Settled, queueVars, msgVars, lockVars, sndVars, rcvVars
    <2>2. ProcTypes /\ queue \in [Queues -> MsgQueue]
        BY DEF Inv, QueueTypes
    <2>3. /\ pc' \in [Procs -> PCs] /\ pc'[p] = "rcv_relock"
          /\ \A x \in Procs \ {p} : pc'[x] = pc[x]
        BY <1>3, <2>2 DEF Goto, ProcTypes, PCs, RcvPlaces
    <2>4. ProcTypes'
        BY <2>1, <2>2, <2>3 DEF ProcTypes, Settled
    <2>5. MsgsStay
        BY <1>1, <2>1, <2>2, <2>3, SameMsgsSelf DEF MsgsStay, SenderHas, HandedHas, CopiedHas
    <2>6. ASSUME NEW x \in Procs PROVE Calling(x)'
        <3>1. CASE x # p
            <4>1. Same(x)
                BY <2>1, <2>3, <3>1 DEF Same
            <4>2. QED
                BY <2>1, <4>1, OtherUnchanged
        <3>2. CASE x = p
            <4>1. Receiving(p) /\ Sending(p) /\ linked[p] = FALSE
                BY <1>1, CallParts, OnNoList
            <4>2. Waits(p)' <=> Waits(p)
                BY <1>1, <2>1, <2>3 DEF Waits, RcvPlaces
            <4>3. Receiving(p)'
                BY <1>1, <2>1, <2>3, <4>1, <4>2, SettledKept DEF Receiving, Receivers, RcvPlaces
            <4>4. Sending(p)'
                BY <2>1, <2>3, <4>1 DEF Sending, Senders
            <4>5. Placed(p)'
                BY <1>1, <2>1, <2>3 DEF Placed
            <4>6. QED
                BY <3>2, <4>3, <4>4, <4>5 DEF Calling
        <3>3. QED
            BY <3>1, <3>2
    <2>7. QED
        BY <2>1, <2>4, <2>5, <2>6, StayInv
<1>4. QED
    BY <1>2, <1>3 DEF RcvCheck

\* The message is copied out and freed.
LEMMA CopyOutInv ==
    ASSUME Inv, NEW p \in Procs, RcvCopyOut(p)
    PROVE  Inv'
<1>1. /\ queue' = queue /\ Settled /\ asleep' = asleep /\ ary' = ary /\ nmsgs' = nmsgs
      /\ hdrs' = hdrs /\ bytes' = bytes /\ snd' = snd /\ linked' = linked /\ taker' = taker
      /\ rcv' = rcv /\ rmsg' = rmsg /\ pc[p] = "copyout"
    BY DEF RcvCopyOut, Settled, queueVars, lockVars, sndVars
<1>2. /\ inmsg' = [inmsg EXCEPT ![p] = NULL] /\ freed' = freed \cup {inmsg[p].id}
      /\ cur' = [cur EXCEPT ![p] = NULL] /\ pc' = [pc EXCEPT ![p] = "idle"] /\ sig' = sig \ {p}
    BY DEF RcvCopyOut, Leave, Goto, free_msg
<1>3. inmsg[p] \in Message
    BY <1>1, CallParts DEF Receiving
<1>4. ProcTypes /\ queue \in [Queues -> MsgQueue]
    BY DEF Inv, QueueTypes
<1>5. /\ inmsg'[p] = NULL /\ pc'[p] = "idle"
      /\ \A x \in Procs \ {p} : inmsg'[x] = inmsg[x] /\ pc'[x] = pc[x] /\ cur'[x] = cur[x]
    BY <1>2, <1>4 DEF ProcTypes
<1>6. ProcTypes'
    <2>1. /\ inmsg' \in [Procs -> Message \cup {NULL}] /\ cur' \in [Procs -> Queues \cup {NULL}]
          /\ pc' \in [Procs -> PCs] /\ sig' \in SUBSET Procs
        BY <1>2, <1>4 DEF ProcTypes, PCs
    <2>2. freed' \in SUBSET (0 .. MaxMsgs - 1)
        BY <1>2, <1>3, <1>4, Kinds DEF ProcTypes
    <2>3. QED
        BY <1>1, <1>4, <2>1, <2>2 DEF ProcTypes, Settled
<1>7. QueuesStay
    BY <1>1, <1>4, <1>5, SameMsgsSelf DEF QueuesStay
<1>8. ASSUME NEW x \in Procs PROVE Calling(x)'
    <2>1. CASE x # p
        <3>1. Same(x)
            BY <1>1, <1>5, <2>1 DEF Same
        <3>2. QED
            BY <1>1, <3>1, OtherUnchanged
    <2>2. CASE x = p
        <3>1. ~Waits(p) /\ linked[p] = FALSE /\ rmsg[p] = EAGAIN /\ p \notin asleep
            BY <1>1, OnNoList DEF Waits, RcvPlaces
        <3>2. \A k \in Queues : p \notin ToSet(queue'[k].receivers) /\ p \notin ToSet(queue'[k].senders)
            BY <1>1, <3>1, OnNoList
        <3>3. QED
            BY <1>1, <1>5, <2>2, <3>1, <3>2, AwayCalling
    <2>3. QED
        BY <2>1, <2>2
<1>9. OneSpot(Held', 0 .. nmsgs' - 1)
    <2>1. CopiedHas(p) = {inmsg[p].id} /\ CopiedHas(p)' = {}
        BY <1>3, <1>5, Kinds DEF CopiedHas
    <2>2. \A x \in Procs : /\ SenderHas(x)' = SenderHas(x) /\ HandedHas(x)' = HandedHas(x)
                           /\ <<"copied", x>> \notin {<<"copied", p>>, <<"freed", 0>>} => CopiedHas(x)' = CopiedHas(x)
        BY <1>1, <1>5 DEF SenderHas, HandedHas, CopiedHas
    <2>3. \A x \in Spots \ {<<"copied", p>>, <<"freed", 0>>} : Held'[x] = Held[x]
        BY <1>1, <2>2, HeldKept
    <2>4. /\ <<"copied", p>> \in Spots /\ <<"freed", 0>> \in Spots
          /\ Held[<<"copied", p>>] = {inmsg[p].id} /\ Held'[<<"copied", p>>] = {}
          /\ Held'[<<"freed", 0>>] = Held[<<"freed", 0>>] \cup {inmsg[p].id}
        BY <1>2, <2>1, HeldIs, HeldNext
    <2>5. Moved(Held, Held', <<"copied", p>>, <<"freed", 0>>, {inmsg[p].id})
        BY <2>3, <2>4, SpotsDiffer DEF Moved
    <2>6. OneSpot(Held, 0 .. nmsgs - 1)
        BY DEF Inv, Conserved
    <2>7. QED
        BY <1>1, <2>5, <2>6, SpotMoved
<1>10. QED
    BY <1>1, <1>6, <1>7, <1>8, <1>9, QueuesStayInv

\* The end of a hand-over, whatever process it wakes.
LEMMA WakeInv ==
    ASSUME Inv, NEW p \in Procs, SndWake(p)
    PROVE  Inv'
<1>1. /\ Settled /\ nmsgs' = nmsgs /\ hdrs' = hdrs /\ bytes' = bytes /\ freed' = freed
      /\ linked' = linked /\ rcv' = rcv /\ rmsg' = rmsg /\ inmsg' = inmsg /\ pc[p] = "wake"
    BY DEF SndWake, Settled, msgVars, rcvVars
<1>2. /\ taker' = [taker EXCEPT ![p] = NULL] /\ snd' = [snd EXCEPT ![p] = NoSnd] /\ ary' = NULL
      /\ cur' = [cur EXCEPT ![p] = NULL] /\ pc' = [pc EXCEPT ![p] = "idle"] /\ sig' = sig \ {p}
    BY DEF SndWake, Leave, Goto
<1>3. asleep' \subseteq asleep
    BY DEF SndWake
<1>4. ProcTypes /\ queue \in [Queues -> MsgQueue]
    BY DEF Inv, QueueTypes
<1>5. cur[p] \in Queues
    BY <1>1, CallParts DEF Placed
<1>6. ~Waits(p) /\ linked[p] = FALSE /\ rmsg[p] = EAGAIN /\ inmsg[p] = NULL /\ p \notin asleep
    BY <1>1, OnNoList DEF Waits, RcvPlaces
<1>7. /\ pc'[p] = "idle"
      /\ \A x \in Procs \ {p} : /\ snd'[x] = snd[x] /\ pc'[x] = pc[x] /\ cur'[x] = cur[x]
                                /\ taker'[x] = taker[x]
    BY <1>2, <1>4 DEF ProcTypes
<1>8. Left(p)
    <2>1. PICK q : q = [queue[cur[p]] EXCEPT !.lspid = p]
        OBVIOUS
    <2>2. /\ q \in MsgQueue /\ SameMsgs(queue[cur[p]], q) /\ SameRules(queue[cur[p]], q)
          /\ SameLists(queue[cur[p]], q)
        BY <1>4, <1>5, <2>1, SetLspid
    <2>3. queue' = [queue EXCEPT ![cur[p]] = q]
        BY <2>1 DEF SndWake
    <2>4. Ready(p, cur[p], q)
        BY <1>5, <1>6, <2>2, OnNoList DEF Ready, SameLists, Receivers, Senders
    <2>5. QED
        BY <2>3, <2>4, LeftReady
<1>9. ProcTypes'
    <2>1. /\ snd' \in [Procs -> SndArgs] /\ taker' \in [Procs -> Procs \cup {NULL}]
          /\ cur' \in [Procs -> Queues \cup {NULL}] /\ pc' \in [Procs -> PCs]
          /\ sig' \in SUBSET Procs /\ asleep' \in SUBSET Procs
        BY <1>2, <1>3, <1>4, NoArgs DEF ProcTypes, PCs
    <2>2. QED
        BY <1>1, <1>2, <1>4, <2>1 DEF ProcTypes, Settled
<1>10. MsgsStay
    <2>1. \A x \in Procs : /\ SenderHas(x)' = SenderHas(x) /\ CopiedHas(x)' = CopiedHas(x)
                           /\ HandedHas(x)' = HandedHas(x)
        BY <1>1, <1>7 DEF SenderHas, HandedHas, CopiedHas
    <2>2. QED
        BY <1>1, <1>7, <1>8, <2>1 DEF MsgsStay, Left
<1>11. ASSUME NEW x \in Procs PROVE Calling(x)'
    <2>1. CASE x # p
        <3>1. Same(x)
            BY <1>1, <1>3, <1>7, <2>1 DEF Same
        <3>2. QED
            BY <1>1, <1>8, <2>1, <3>1, LeftQuiet, OtherQuiet
    <2>2. CASE x = p
        <3>1. \A k \in Queues : p \notin ToSet(queue'[k].receivers) /\ p \notin ToSet(queue'[k].senders)
            BY <1>8 DEF Left
        <3>2. QED
            BY <1>1, <1>3, <1>6, <1>7, <2>2, <3>1, AwayCalling
    <2>3. QED
        BY <2>1, <2>2
<1>12. QED
    BY <1>1, <1>9, <1>10, <1>11, StayInv

(***************************************************************************)
(* msgsnd. The sender p has a message in hand, and args say which.         *)
(***************************************************************************)
Sender(p, args) ==
    /\ args \in SndArgs /\ args.msg \in Message /\ InHand(p, args.msg)
    /\ nmsgs' \in 0 .. MaxMsgs
    /\ p \notin asleep /\ pc[p] \in {"idle", "snd_sleep"}

\* What a sender under the lock is and has.
LEMMA SenderParts ==
    ASSUME Inv, NEW p \in Procs, NEW args, Sender(p, args)
    PROVE  /\ args \in SndArgs /\ args.msg \in Message /\ InHand(p, args.msg)
           /\ nmsgs' \in 0 .. MaxMsgs /\ p \notin asleep
           /\ pc[p] # "rmid" /\ ~Waits(p) /\ rmsg[p] = EAGAIN /\ inmsg[p] = NULL
           /\ \A k \in Queues : p \notin Receivers(k)
BY OnNoList DEF Sender, Waits, RcvPlaces, Receivers

\* out_free of msgsnd: the message is freed.
LEMMA SndFailInv ==
    ASSUME Inv, NEW p \in Procs, NEW args, SndFail(p, args), Left(p), Sender(p, args)
    PROVE  Inv'
<1>1. /\ Settled /\ hdrs' = hdrs /\ bytes' = bytes /\ asleep' = asleep /\ ary' = ary
      /\ taker' = taker /\ rcv' = rcv /\ rmsg' = rmsg /\ inmsg' = inmsg
    BY DEF SndFail, Settled, lockVars, rcvVars
<1>2. /\ snd' = [snd EXCEPT ![p] = NoSnd] /\ linked' = [linked EXCEPT ![p] = FALSE]
      /\ freed' = freed \cup {args.msg.id}
      /\ cur' = [cur EXCEPT ![p] = NULL] /\ pc' = [pc EXCEPT ![p] = "idle"] /\ sig' = sig \ {p}
    BY DEF SndFail, Leave, Goto, free_msg
<1>3. ProcTypes
    BY DEF Inv
<1>4. /\ args.msg \in Message /\ InHand(p, args.msg) /\ nmsgs' \in 0 .. MaxMsgs /\ p \notin asleep
      /\ pc[p] # "rmid" /\ rmsg[p] = EAGAIN /\ inmsg[p] = NULL
    BY SenderParts
<1>5. /\ pc'[p] = "idle" /\ linked'[p] = FALSE
      /\ \A x \in Procs \ {p} : /\ snd'[x] = snd[x] /\ pc'[x] = pc[x] /\ cur'[x] = cur[x]
                                /\ linked'[x] = linked[x]
    BY <1>2, <1>3 DEF ProcTypes
<1>6. ProcTypes'
    <2>1. /\ snd' \in [Procs -> SndArgs] /\ linked' \in [Procs -> BOOLEAN]
          /\ cur' \in [Procs -> Queues \cup {NULL}] /\ pc' \in [Procs -> PCs]
          /\ sig' \in SUBSET Procs
        BY <1>2, <1>3, NoArgs DEF ProcTypes, PCs
    <2>2. freed' \in SUBSET (0 .. MaxMsgs - 1)
        BY <1>2, <1>3, <1>4, Kinds DEF ProcTypes
    <2>3. QED
        BY <1>1, <1>3, <1>4, <2>1, <2>2 DEF ProcTypes, Settled
<1>7. QueuesStay
    BY <1>1, <1>4, <1>5 DEF QueuesStay, Left
<1>8. ASSUME NEW x \in Procs PROVE Calling(x)'
    <2>1. CASE x # p
        <3>1. Same(x)
            BY <1>1, <1>5, <2>1 DEF Same
        <3>2. QED
            BY <1>1, <1>5, <2>1, <3>1, LeftQuiet, OtherQuiet
    <2>2. CASE x = p
        <3>1. \A k \in Queues : p \notin ToSet(queue'[k].receivers) /\ p \notin ToSet(queue'[k].senders)
            BY DEF Left
        <3>2. QED
            BY <1>1, <1>4, <1>5, <2>2, <3>1, AwayCalling
    <2>3. QED
        BY <2>1, <2>2
<1>9. OneSpot(Held', 0 .. nmsgs' - 1)
    <2>1. \A x \in Procs : /\ HandedHas(x)' = HandedHas(x) /\ CopiedHas(x)' = CopiedHas(x)
                           /\ <<"sender", x>> \notin {<<"sender", p>>, <<"freed", 0>>} => SenderHas(x)' = SenderHas(x)
        BY <1>1, <1>5 DEF SenderHas, HandedHas, CopiedHas
    <2>2. \A k \in Queues : IdsOf(queue'[k].messages) = IdsOf(queue[k].messages)
        BY DEF Left, SameMsgs
    <2>3. \A x \in Spots \ {<<"sender", p>>, <<"freed", 0>>} : Held'[x] = Held[x]
        BY <2>1, <2>2, HeldKept
    <2>4. /\ <<"freed", 0>> \in Spots /\ <<"freed", 0>> # <<"sender", p>>
          /\ Held'[<<"freed", 0>>] = Held[<<"freed", 0>>] \cup {args.msg.id}
        BY <1>2, HeldIs, HeldNext, SpotsDiffer
    <2>5. pc'[p] # "snd_sleep"
        BY <1>5
    <2>6. QED
        BY <1>4, <2>3, <2>4, <2>5, SentTo
<1>10. QED
    BY <1>1, <1>6, <1>7, <1>8, <1>9, QueuesStayInv

\* An assignment to one queue touches that one only.
LEMMA TouchedBy ==
    ASSUME Inv, NEW k \in Queues, NEW n \in MsgQueue, queue' = [queue EXCEPT ![k] = n]
    PROVE  Touched(k) /\ queue'[k] = n
<1>1. queue \in [Queues -> MsgQueue]
    BY DEF Inv, QueueTypes
<1>2. QED
    BY <1>1 DEF Touched

SndSleep(p, k, q, args) ==
    /\ queue' = [queue EXCEPT ![k] = [q EXCEPT !.senders = Append(q.senders, p)]]
    /\ snd' = [snd EXCEPT ![p] = args]
    /\ linked' = [linked EXCEPT ![p] = TRUE]
    /\ cur' = [cur EXCEPT ![p] = k]
    /\ asleep' = asleep \cup {p}
    /\ Goto(p, "snd_sleep")
    /\ UNCHANGED <<ids, nqueues, hdrs, bytes, freed, lockVars, sig, taker, rcvVars>>

\* msgsnd finds no room and sleeps.
LEMMA SndSleepInv ==
    ASSUME Inv, NEW p \in Procs, NEW k, NEW q, NEW args, SndSleep(p, k, q, args),
           Ready(p, k, q), Sender(p, args), Names(args.msqid, k), Full(q, args.msg)
    PROVE  Inv'
<1>1. /\ Settled /\ hdrs' = hdrs /\ bytes' = bytes /\ freed' = freed /\ ary' = ary /\ sig' = sig
      /\ taker' = taker /\ rcv' = rcv /\ rmsg' = rmsg /\ inmsg' = inmsg
      /\ asleep' = asleep \cup {p}
    BY DEF SndSleep, Settled, lockVars, rcvVars
<1>2. /\ snd' = [snd EXCEPT ![p] = args] /\ linked' = [linked EXCEPT ![p] = TRUE]
      /\ cur' = [cur EXCEPT ![p] = k] /\ pc' = [pc EXCEPT ![p] = "snd_sleep"]
    BY DEF SndSleep, Goto
<1>3. ProcTypes /\ queue \in [Queues -> MsgQueue]
    BY DEF Inv, QueueTypes
<1>4. /\ args \in SndArgs /\ args.msg \in Message /\ InHand(p, args.msg)
      /\ nmsgs' \in 0 .. MaxMsgs /\ pc[p] # "rmid" /\ rmsg[p] = EAGAIN /\ inmsg[p] = NULL
      /\ \A j \in Queues : p \notin Receivers(j)
    BY SenderParts
<1>5. k \in Queues /\ q \in MsgQueue
    BY DEF Ready
<1>6. PICK n : n = [q EXCEPT !.senders = Append(q.senders, p)]
    OBVIOUS
<1>8. /\ n \in MsgQueue /\ SameMsgs(q, n) /\ SameRules(q, n)
      /\ ToSet(n.senders) = ToSet(q.senders) \cup {p} /\ n.receivers = q.receivers
    BY <1>5, <1>6, JoinSenders
<1>9. queue' = [queue EXCEPT ![k] = n]
    BY <1>6 DEF SndSleep
<1>10. Touched(k) /\ queue'[k] = n
    BY <1>5, <1>8, <1>9, TouchedBy
<1>11. /\ snd'[p] = args /\ linked'[p] = TRUE /\ cur'[p] = k /\ pc'[p] = "snd_sleep"
       /\ \A x \in Procs \ {p} : /\ snd'[x] = snd[x] /\ pc'[x] = pc[x] /\ cur'[x] = cur[x]
                                 /\ linked'[x] = linked[x]
    BY <1>2, <1>3 DEF ProcTypes
<1>12. ProcTypes'
    <2>1. /\ snd' \in [Procs -> SndArgs] /\ linked' \in [Procs -> BOOLEAN]
          /\ cur' \in [Procs -> Queues \cup {NULL}] /\ pc' \in [Procs -> PCs]
          /\ asleep' \in SUBSET Procs
        BY <1>1, <1>2, <1>3, <1>4, <1>5 DEF ProcTypes, PCs
    <2>2. QED
        BY <1>1, <1>3, <1>4, <2>1 DEF ProcTypes, Settled
<1>13. /\ SameMsgs(queue[k], n) /\ SameRules(queue[k], n)
       /\ ToSet(n.receivers) = Receivers(k) /\ ToSet(n.senders) = Senders(k) \cup {p}
    BY <1>4, <1>5, <1>8 DEF Ready, SameMsgs, SameRules
<1>14. \A j \in Queues : SameMsgs(queue[j], queue'[j]) /\ SameRules(queue[j], queue'[j])
    BY <1>10, <1>13, SameMsgsSelf DEF Touched
<1>15. QueuesStay
    BY <1>1, <1>4, <1>10, <1>11, <1>14 DEF QueuesStay, Touched
<1>16. ASSUME NEW x \in Procs PROVE Calling(x)'
    <2>1. CASE x # p
        <3>1. Same(x)
            BY <1>1, <1>11, <2>1 DEF Same
        <3>2. Quiet(x)
            BY <1>1, <1>10, <1>11, <1>13, <1>14, <2>1 DEF Quiet, Touched, Receivers, Senders
        <3>3. QED
            BY <1>1, <3>1, <3>2, OtherQuiet
    <2>2. CASE x = p
        <3>1. Receiving(p)'
            <4>1. ~Waits(p)'
                BY <1>11 DEF Waits, RcvPlaces
            <4>2. \A j \in Queues : p \notin ToSet(queue'[j].receivers)
                BY <1>4, <1>10, <1>13 DEF Touched, Receivers
            <4>3. QED
                BY <1>1, <1>4, <1>11, <4>1, <4>2 DEF Receiving, Receivers
        <3>2. Sending(p)'
            <4>1. \A j \in Queues : p \in ToSet(queue'[j].senders) <=> j = k
                BY <1>10, <1>13 DEF Touched, Ready, Senders
            <4>2. Names(args.msqid, k)'
                BY <1>1, SettledKept
            <4>3. Full(n, args.msg)
                BY <1>8, FullSame
            <4>4. args.msg # NULL
                BY <1>4, Kinds
            <4>5. Full(queue'[cur'[p]], snd'[p].msg)
                BY <1>10, <1>11, <4>3
            <4>6. Names(snd[p].msqid, cur[p])'
                BY <1>11, <4>2 DEF Names
            <4>7. QED
                BY <1>11, <4>1, <4>4, <4>5, <4>6 DEF Sending, Senders, Full
        <3>3. Placed(p)'
            BY <1>11 DEF Placed
        <3>4. QED
            BY <2>2, <3>1, <3>2, <3>3 DEF Calling
    <2>3. QED
        BY <2>1, <2>2
<1>17. OneSpot(Held', 0 .. nmsgs' - 1)
    <2>1. \A x \in Procs : /\ HandedHas(x)' = HandedHas(x) /\ CopiedHas(x)' = CopiedHas(x)
                           /\ <<"sender", x>> \notin {<<"sender", p>>} => SenderHas(x)' = SenderHas(x)
        BY <1>1, <1>11 DEF SenderHas, HandedHas, CopiedHas
    <2>2. \A j \in Queues : IdsOf(queue'[j].messages) = IdsOf(queue[j].messages)
        BY <1>14 DEF SameMsgs
    <2>3. \A x \in Spots \ {<<"sender", p>>} : Held'[x] = Held[x]
        BY <1>1, <2>1, <2>2, HeldKept
    <2>4. /\ <<"sender", p>> \in Spots /\ Held[<<"sender", p>>] = SenderHas(p)
          /\ Held'[<<"sender", p>>] = {args.msg.id}
        BY <1>11, HeldIs, HeldNext DEF SenderHas
    <2>5. OneSpot(Held, 0 .. nmsgs - 1) /\ nmsgs \in Nat
        BY <1>3 DEF Inv, Conserved, ProcTypes
    <2>6. CASE nmsgs' = nmsgs + 1 /\ args.msg.id = nmsgs /\ pc[p] # "snd_sleep"
        <3>1. Held'[<<"sender", p>>] = Held[<<"sender", p>>] \cup {args.msg.id}
            BY <2>4, <2>6 DEF SenderHas
        <3>2. /\ args.msg.id \notin 0 .. nmsgs - 1
              /\ (0 .. nmsgs - 1) \cup {args.msg.id} = 0 .. nmsgs' - 1
            BY <2>5, <2>6
        <3>3. Added(Held, Held', <<"sender", p>>, args.msg.id)
            BY <2>3, <2>4, <3>1 DEF Added
        <3>4. OneSpot(Held', (0 .. nmsgs - 1) \cup {args.msg.id})
            BY <2>5, <3>2, <3>3, SpotAdded, Zenon
        <3>5. QED
            BY <3>2, <3>4
    <2>7. CASE nmsgs' = nmsgs /\ pc[p] = "snd_sleep" /\ snd[p].msg = args.msg
        <3>1. Held'[<<"sender", p>>] = Held[<<"sender", p>>]
            BY <2>4, <2>7 DEF SenderHas
        <3>2. QED
            BY <2>3, <2>5, <2>7, <3>1, SpotSame
    <2>8. QED
        BY <1>4, <2>6, <2>7 DEF InHand
<1>18. QED
    BY <1>1, <1>12, <1>15, <1>16, <1>17, QueuesStayInv
\* The receivers pipelined_send comes across.
LEMMA Takers ==
    ASSUME NEW q \in MsgQueue, NEW m
    PROVE  /\ TooSmall(q, m) \subseteq ToSet(q.receivers) /\ ToSet(q.receivers) \subseteq Procs
           /\ CanTake(q, m) # {} => q.receivers[FirstTaker(q, m)] \in ToSet(q.receivers)
           /\ CanTake(q, m) = {} =>
                 \A x \in ToSet(q.receivers) \ TooSmall(q, m) :
                     ~testmsg(m, rcv[x].type, rcv[x].mode)
<1>1. q.receivers \in Seq(Procs) /\ DOMAIN q.receivers = 1 .. Len(q.receivers)
    BY QueueFields
<1>2. ToSet(q.receivers) = {q.receivers[i] : i \in DOMAIN q.receivers}
    BY DEF ToSet
<1>3. TooSmall(q, m) \subseteq ToSet(q.receivers)
    BY <1>2 DEF TooSmall, Matching
<1>4. ToSet(q.receivers) \subseteq Procs
    BY <1>1, <1>2
<1>5. ASSUME CanTake(q, m) # {}
      PROVE  q.receivers[FirstTaker(q, m)] \in ToSet(q.receivers)
    <2>1. CanTake(q, m) \subseteq DOMAIN q.receivers
        BY DEF CanTake, Matching
    <2>2. CanTake(q, m) \in SUBSET Nat
        BY <1>1, <2>1
    <2>3. \E i \in CanTake(q, m) : \A j \in CanTake(q, m) : i <= j
        BY <1>5, <2>2, LeastNumber
    <2>4. FirstTaker(q, m) \in CanTake(q, m)
        BY <2>3, Zenon DEF FirstTaker
    <2>5. QED
        BY <1>2, <2>1, <2>4
<1>6. ASSUME CanTake(q, m) = {}, NEW x \in ToSet(q.receivers) \ TooSmall(q, m),
             testmsg(m, rcv[x].type, rcv[x].mode)
      PROVE  FALSE
    <2>1. PICK i \in DOMAIN q.receivers : x = q.receivers[i]
        BY <1>2, <1>6
    <2>2. i \in Matching(q, m)
        BY <1>6, <2>1 DEF Matching
    <2>3. x \in TooSmall(q, m)
        BY <1>6, <2>1, <2>2 DEF TooSmall
    <2>4. QED
        BY <1>6, <2>3
<1>7. QED
    BY <1>3, <1>4, <1>5, <1>6

\* Every receiver on a list is told nothing yet, and holds no message.
LEMMA ListedReceiver ==
    ASSUME Inv, NEW k \in Queues, NEW x \in Procs, x \in Receivers(k)
    PROVE  /\ rmsg[x] = EAGAIN /\ HandedHas(x) = {} /\ cur[x] = k /\ pc[x] \in RcvPlaces
           /\ FindMsg(queue[k].messages, rcv[x].type, rcv[x].mode) = 0
           /\ x \in asleep => x \in queue[k].readers
           /\ rcv[x].type \in Int /\ rcv[x].mode \in SearchModes
<1>1. Receiving(x) /\ rcv[x] \in RcvArgs
    BY CallParts
<1>2. Waits(x) /\ cur[x] = k
    BY <1>1 DEF Receiving
<1>3. rmsg[x] = EAGAIN /\ HandedHas(x) = {} /\ pc[x] \in RcvPlaces
    BY <1>2, Kinds DEF Waits, HandedHas
<1>4. /\ FindMsg(queue[k].messages, rcv[x].type, rcv[x].mode) = 0
      /\ x \in asleep => x \in queue[k].readers
    BY <1>1, <1>2 DEF Receiving
<1>5. rcv[x].type \in Int /\ rcv[x].mode \in SearchModes
    BY <1>1 DEF RcvArgs
<1>6. QED
    BY <1>2, <1>3, <1>4, <1>5

SndHand(p, k, q, args, r, small) ==
    /\ queue' = [queue EXCEPT ![k] = [q EXCEPT !.receivers = Without(q.receivers, small \cup {r})]]
    /\ rmsg' = [x \in Procs |-> IF x = r THEN args.msg
                                ELSE IF x \in small THEN E2BIG ELSE rmsg[x]]
    /\ taker' = [taker EXCEPT ![p] = r]
    /\ asleep' = asleep \ small
    /\ ary' = p
    /\ snd' = [snd EXCEPT ![p] = args]
    /\ cur' = [cur EXCEPT ![p] = k]
    /\ linked' = [linked EXCEPT ![p] = FALSE]
    /\ Goto(p, "wake")
    /\ UNCHANGED <<ids, nqueues, hdrs, bytes, freed, sem, sig, rcv, inmsg>>

\* pipelined_send hands the message to a receiver.
LEMMA SndHandInv ==
    ASSUME Inv, NEW p \in Procs, NEW k, NEW q, NEW args, NEW r, NEW small,
           SndHand(p, k, q, args, r, small), Ready(p, k, q), Sender(p, args),
           small \subseteq ToSet(q.receivers), r \in ToSet(q.receivers)
    PROVE  Inv'
<1>1. /\ Settled /\ hdrs' = hdrs /\ bytes' = bytes /\ freed' = freed /\ sig' = sig
      /\ rcv' = rcv /\ inmsg' = inmsg /\ ary' = p /\ asleep' = asleep \ small
    BY DEF SndHand, Settled
<1>2. /\ snd' = [snd EXCEPT ![p] = args] /\ linked' = [linked EXCEPT ![p] = FALSE]
      /\ cur' = [cur EXCEPT ![p] = k] /\ pc' = [pc EXCEPT ![p] = "wake"]
      /\ taker' = [taker EXCEPT ![p] = r]
    BY DEF SndHand, Goto
<1>3. ProcTypes /\ queue \in [Queues -> MsgQueue]
    BY DEF Inv, QueueTypes
<1>4. /\ args \in SndArgs /\ args.msg \in Message /\ InHand(p, args.msg)
      /\ nmsgs' \in 0 .. MaxMsgs /\ pc[p] # "rmid" /\ rmsg[p] = EAGAIN /\ inmsg[p] = NULL
      /\ p \notin asleep /\ \A j \in Queues : p \notin Receivers(j)
    BY SenderParts
<1>5. k \in Queues /\ q \in MsgQueue
    BY DEF Ready
<1>6. /\ small \subseteq Receivers(k) /\ r \in Receivers(k) /\ p \notin small /\ p # r
      /\ ToSet(q.receivers) = Receivers(k) /\ Receivers(k) \subseteq Procs
    <2>1. ToSet(q.receivers) = Receivers(k)
        BY <1>4, <1>5 DEF Ready
    <2>2. ToSet(q.receivers) \subseteq Procs
        BY <1>5, Takers
    <2>3. QED
        BY <1>4, <1>5, <2>1, <2>2
<1>7. PICK n : n = [q EXCEPT !.receivers = Without(q.receivers, small \cup {r})]
    OBVIOUS
<1>8. /\ n \in MsgQueue /\ SameMsgs(q, n) /\ SameRules(q, n)
      /\ ToSet(n.receivers) = ToSet(q.receivers) \ (small \cup {r}) /\ n.senders = q.senders
    BY <1>5, <1>7, LeaveReceivers
<1>9. queue' = [queue EXCEPT ![k] = n]
    BY <1>7 DEF SndHand
<1>10. Touched(k) /\ queue'[k] = n
    BY <1>5, <1>8, <1>9, TouchedBy
<1>11. /\ snd'[p] = args /\ linked'[p] = FALSE /\ cur'[p] = k /\ pc'[p] = "wake" /\ taker'[p] = r
       /\ \A x \in Procs \ {p} : /\ snd'[x] = snd[x] /\ pc'[x] = pc[x] /\ cur'[x] = cur[x]
                                 /\ linked'[x] = linked[x] /\ taker'[x] = taker[x]
    BY <1>2, <1>3, <1>6 DEF ProcTypes
<1>12. /\ rmsg' \in [Procs -> Message \cup Errors] /\ rmsg'[r] = args.msg
       /\ \A x \in Procs \ {r} : rmsg'[x] = IF x \in small THEN E2BIG ELSE rmsg[x]
    BY <1>3, <1>4, <1>6, Kinds DEF ProcTypes, SndHand
<1>13. ProcTypes'
    <2>1. /\ snd' \in [Procs -> SndArgs] /\ linked' \in [Procs -> BOOLEAN]
          /\ cur' \in [Procs -> Queues \cup {NULL}] /\ pc' \in [Procs -> PCs]
          /\ asleep' \in SUBSET Procs /\ taker' \in [Procs -> Procs \cup {NULL}]
        BY <1>1, <1>2, <1>3, <1>4, <1>5, <1>6 DEF ProcTypes, PCs
    <2>2. QED
        BY <1>1, <1>3, <1>4, <1>12, <2>1 DEF ProcTypes, Settled
<1>14. /\ SameMsgs(queue[k], n) /\ SameRules(queue[k], n)
       /\ ToSet(n.receivers) = Receivers(k) \ (small \cup {r}) /\ ToSet(n.senders) = Senders(k) \ {p}
    BY <1>6, <1>8 DEF Ready, SameMsgs, SameRules
<1>15. \A j \in Queues : SameMsgs(queue[j], queue'[j])
    BY <1>10, <1>14, SameMsgsSelf DEF Touched
<1>16. QueuesStay
    BY <1>1, <1>4, <1>10, <1>11, <1>15 DEF QueuesStay, Touched
<1>17. ASSUME NEW x \in Procs PROVE Calling(x)'
    <2>1. CASE x # p
        <3>1. Same(x)
            BY <1>1, <1>11, <2>1 DEF Same
        <3>2. Told(x, k, small \cup {r})
            <4>1. IF x \in small \cup {r} THEN x \in Receivers(k) /\ rmsg'[x] # EAGAIN
                  ELSE rmsg'[x] = rmsg[x]
                BY <1>4, <1>6, <1>12, Kinds
            <4>2. x \in ToSet(n.receivers) =>
                     /\ FindMsg(n.messages, rcv[x].type, rcv[x].mode) = 0
                     /\ x \in asleep' => x \in n.readers
                BY <1>1, <1>5, <1>14, ListedReceiver DEF SameMsgs, SameRules
            <4>3. QED
                BY <1>10, <1>14, <4>1, <4>2 DEF Told
        <3>3. Unlinked(x, k, {})
            <4>1. linked'[x] = linked[x] /\ linked[x] \in BOOLEAN
                BY <1>11, <2>1, CallParts
            <4>2. QED
                BY <1>10, <1>14, <2>1, <4>1, FullSame DEF Unlinked
        <3>4. QED
            BY <1>1, <1>5, <1>10, <3>1, <3>2, <3>3, SettledKept, OtherCalling DEF Settled
    <2>2. CASE x = p
        <3>1. Receiving(p)'
            <4>1. ~Waits(p)'
                BY <1>11 DEF Waits, RcvPlaces
            <4>2. \A j \in Queues : p \notin ToSet(queue'[j].receivers)
                BY <1>4, <1>10, <1>14 DEF Touched, Receivers
            <4>3. rmsg'[p] = EAGAIN /\ inmsg'[p] = NULL
                BY <1>1, <1>4, <1>6, <1>12
            <4>4. QED
                BY <1>11, <4>1, <4>2, <4>3 DEF Receiving, Receivers
        <3>2. Sending(p)'
            <4>1. \A j \in Queues : p \notin ToSet(queue'[j].senders)
                BY <1>10, <1>14 DEF Touched, Ready, Senders
            <4>2. args.msg # NULL
                BY <1>4, Kinds
            <4>3. QED
                BY <1>11, <4>1, <4>2 DEF Sending, Senders
        <3>3. Placed(p)'
            <4>1. k # NULL /\ r # NULL
                BY <1>5, <1>6, MsgAssumption
            <4>2. p \notin asleep'
                BY <1>1, <1>4
            <4>3. QED
                BY <1>11, <4>1, <4>2 DEF Placed
        <3>4. QED
            BY <2>2, <3>1, <3>2, <3>3 DEF Calling
    <2>3. QED
        BY <2>1, <2>2
<1>18. OneSpot(Held', 0 .. nmsgs' - 1)
    <2>1. ASSUME NEW x \in Procs, x # r PROVE HandedHas(x)' = HandedHas(x)
        <3>1. CASE x \in small
            BY <1>5, <1>6, <1>12, <2>1, <3>1, ListedReceiver, Kinds DEF HandedHas
        <3>2. CASE x \notin small
            BY <1>12, <2>1, <3>2 DEF HandedHas
        <3>3. QED
            BY <3>1, <3>2
    <2>2. \A x \in Procs :
             /\ CopiedHas(x)' = CopiedHas(x)
             /\ <<"handed", x>> \notin {<<"sender", p>>, <<"handed", r>>} => HandedHas(x)' = HandedHas(x)
             /\ <<"sender", x>> \notin {<<"sender", p>>, <<"handed", r>>} => SenderHas(x)' = SenderHas(x)
        BY <1>1, <1>11, <2>1 DEF SenderHas, CopiedHas
    <2>3. \A j \in Queues : IdsOf(queue'[j].messages) = IdsOf(queue[j].messages)
        BY <1>15 DEF SameMsgs
    <2>4. \A x \in Spots \ {<<"sender", p>>, <<"handed", r>>} : Held'[x] = Held[x]
        BY <1>1, <2>2, <2>3, HeldKept
    <2>5. r \in Procs /\ HandedHas(r) = {} /\ HandedHas(r)' = {args.msg.id}
        BY <1>4, <1>5, <1>6, <1>12, ListedReceiver, Kinds DEF HandedHas
    <2>6. /\ <<"handed", r>> \in Spots /\ <<"handed", r>> # <<"sender", p>>
          /\ Held'[<<"handed", r>>] = Held[<<"handed", r>>] \cup {args.msg.id}
        BY <2>5, HeldIs, HeldNext, SpotsDiffer
    <2>7. pc'[p] # "snd_sleep"
        BY <1>11
    <2>8. QED
        BY <1>4, <2>4, <2>6, <2>7, SentTo
<1>19. QED
    BY <1>1, <1>13, <1>16, <1>17, <1>18, QueuesStayInv

\* Counters of a queue that gets a message.
LEMMA PutCounted ==
    ASSUME NEW q, NEW n, NEW m \in Message, q.messages \in Seq(Message), CountedAt(q),
           m \notin ToSet(q.messages), n.messages = Append(q.messages, m),
           n.qnum = q.qnum + 1, n.cbytes = q.cbytes + m.size
    PROVE  CountedAt(n)
<1>1. ToSet(n.messages) = ToSet(q.messages) \cup {m} /\ Len(n.messages) = Len(q.messages) + 1
    BY AppendElems
<1>2. Len(q.messages) = q.qnum /\ Amount(ToSet(q.messages), q.qnum, q.cbytes)
    BY DEF CountedAt
<1>3. Amount(ToSet(q.messages) \cup {m}, q.qnum + 1, q.cbytes + m.size)
    BY <1>2, AmountPlus
<1>4. QED
    BY <1>1, <1>2, <1>3 DEF CountedAt

\* A receiver that has nothing to receive and does not match the message put on.
LEMMA PutSearch ==
    ASSUME NEW s \in Seq(Message), NEW m \in Message, NEW type \in Int, NEW mode \in SearchModes,
           FindMsg(s, type, mode) = 0, ~testmsg(m, type, mode)
    PROVE  FindMsg(Append(s, m), type, mode) = 0
<1>1. PICK a : a = Append(s, m)
    OBVIOUS
<1>2. /\ a \in Seq(Message) /\ DOMAIN a = 1 .. Len(s) + 1 /\ DOMAIN s = 1 .. Len(s) /\ Len(s) \in Nat
      /\ \A i \in 1 .. Len(s) : a[i] = s[i]
      /\ a[Len(s) + 1] = m
    BY <1>1, AppendElems
<1>3. \A i \in DOMAIN s : ~testmsg(s[i], type, mode)
    BY SearchProps
<1>4. ASSUME NEW i \in DOMAIN a PROVE ~testmsg(a[i], type, mode)
    <2>1. CASE i \in 1 .. Len(s)
        BY <1>2, <1>3, <2>1
    <2>2. CASE i = Len(s) + 1
        BY <1>2, <2>2
    <2>3. QED
        BY <1>2, <2>1, <2>2
<1>5. FindMsg(a, type, mode) = 0
    BY <1>2, <1>4, SearchProps
<1>6. QED
    BY <1>1, <1>5

\* A linked sender has a message.
LEMMA ListedSender ==
    ASSUME Inv, NEW k \in Queues, NEW x \in Procs, x \in Senders(k)
    PROVE  snd[x].msg \in Message /\ snd[x].msg.size \in Nat /\ linked[x] = TRUE /\ cur[x] = k
           /\ pc[x] = "snd_sleep"
<1>1. Sending(x) /\ snd[x] \in SndArgs /\ linked[x] \in BOOLEAN
    BY CallParts
<1>2. linked[x] = TRUE /\ cur[x] = k /\ pc[x] = "snd_sleep"
    BY <1>1 DEF Sending
<1>3. snd[x].msg # NULL /\ snd[x].msg \in Message \cup {NULL}
    BY <1>1, <1>2 DEF Sending, SndArgs
<1>4. QED
    BY <1>2, <1>3, Kinds

SndPut(p, k, q, args, small) ==
    /\ queue' = [queue EXCEPT ![k] =
          Enqueue([q EXCEPT !.receivers = Without(q.receivers, small)], args.msg, p)]
    /\ rmsg' = [x \in Procs |-> IF x \in small THEN E2BIG ELSE rmsg[x]]
    /\ asleep' = asleep \ small
    /\ hdrs' = hdrs + 1
    /\ bytes' = bytes + args.msg.size
    /\ snd' = [snd EXCEPT ![p] = NoSnd]
    /\ linked' = [linked EXCEPT ![p] = FALSE]
    /\ Leave(p)
    /\ UNCHANGED <<ids, nqueues, freed, lockVars, taker, rcv, inmsg>>

\* msgsnd puts its message on the queue, where no listed receiver wants it.
LEMMA SndPutInv ==
    ASSUME Inv, NEW p \in Procs, NEW k, NEW q, NEW args, NEW small,
           SndPut(p, k, q, args, small), Ready(p, k, q), Sender(p, args), InTable(k),
           small \subseteq ToSet(q.receivers),
           \A x \in ToSet(q.receivers) \ small : ~testmsg(args.msg, rcv[x].type, rcv[x].mode)
    PROVE  Inv'
<1>1. /\ Settled /\ freed' = freed /\ ary' = ary /\ taker' = taker
      /\ rcv' = rcv /\ inmsg' = inmsg /\ asleep' = asleep \ small
      /\ hdrs' = hdrs + 1 /\ bytes' = bytes + args.msg.size
    BY DEF SndPut, Settled, lockVars
<1>2. /\ snd' = [snd EXCEPT ![p] = NoSnd] /\ linked' = [linked EXCEPT ![p] = FALSE]
      /\ cur' = [cur EXCEPT ![p] = NULL] /\ pc' = [pc EXCEPT ![p] = "idle"] /\ sig' = sig \ {p}
    BY DEF SndPut, Goto, Leave
<1>3. ProcTypes /\ queue \in [Queues -> MsgQueue]
    BY DEF Inv, QueueTypes
<1>4. /\ args.msg \in Message /\ InHand(p, args.msg)
      /\ nmsgs' \in 0 .. MaxMsgs /\ pc[p] # "rmid" /\ rmsg[p] = EAGAIN /\ inmsg[p] = NULL
      /\ p \notin asleep /\ \A j \in Queues : p \notin Receivers(j)
    BY SenderParts
<1>5. k \in Queues /\ q \in MsgQueue
    BY DEF Ready
<1>6. /\ small \subseteq Receivers(k) /\ p \notin small
      /\ ToSet(q.receivers) = Receivers(k) /\ Receivers(k) \subseteq Procs
    <2>1. ToSet(q.receivers) = Receivers(k)
        BY <1>4, <1>5 DEF Ready
    <2>2. ToSet(q.receivers) \subseteq Procs
        BY <1>5, Takers
    <2>3. QED
        BY <1>4, <1>5, <2>1, <2>2
<1>7. PICK c : c = [q EXCEPT !.receivers = Without(q.receivers, small)]
    OBVIOUS
<1>8. PICK n : n = Enqueue(c, args.msg, p)
    OBVIOUS
<1>9. /\ c \in MsgQueue /\ SameMsgs(q, c) /\ SameRules(q, c)
      /\ ToSet(c.receivers) = ToSet(q.receivers) \ small /\ c.senders = q.senders
    BY <1>5, <1>7, LeaveReceivers
<1>10. /\ n \in MsgQueue /\ SameRules(c, n) /\ SameLists(c, n)
       /\ n.messages = Append(c.messages, args.msg) /\ n.cbytes = c.cbytes + args.msg.size
       /\ n.qnum = c.qnum + 1
    BY <1>4, <1>8, <1>9, PutMessage
<1>11. queue' = [queue EXCEPT ![k] = n]
    BY <1>7, <1>8 DEF SndPut
<1>12. Touched(k) /\ queue'[k] = n
    BY <1>5, <1>10, <1>11, TouchedBy
<1>13. /\ n.messages = Append(queue[k].messages, args.msg)
       /\ n.cbytes = queue[k].cbytes + args.msg.size /\ n.qnum = queue[k].qnum + 1
       /\ n.qbytes = queue[k].qbytes /\ n.readers = queue[k].readers
       /\ ToSet(n.receivers) = Receivers(k) \ small /\ ToSet(n.senders) = Senders(k) \ {p}
    BY <1>6, <1>9, <1>10 DEF Ready, SameMsgs, SameRules, SameLists
<1>14. /\ linked'[p] = FALSE /\ cur'[p] = NULL /\ pc'[p] = "idle"
       /\ \A x \in Procs \ {p} : /\ snd'[x] = snd[x] /\ pc'[x] = pc[x] /\ cur'[x] = cur[x]
                                 /\ linked'[x] = linked[x]
    BY <1>2, <1>3 DEF ProcTypes
<1>15. /\ rmsg' \in [Procs -> Message \cup Errors]
       /\ \A x \in Procs : rmsg'[x] = IF x \in small THEN E2BIG ELSE rmsg[x]
    BY <1>3, Kinds DEF ProcTypes, SndPut
<1>16. args.msg.size \in Nat
    BY <1>4, Kinds
<1>17. ProcTypes'
    <2>1. /\ snd' \in [Procs -> SndArgs] /\ linked' \in [Procs -> BOOLEAN]
          /\ cur' \in [Procs -> Queues \cup {NULL}] /\ pc' \in [Procs -> PCs]
          /\ asleep' \in SUBSET Procs /\ sig' \in SUBSET Procs
        BY <1>1, <1>2, <1>3, NoArgs DEF ProcTypes, PCs
    <2>2. hdrs' \in Int /\ bytes' \in Int
        BY <1>1, <1>3, <1>16 DEF ProcTypes
    <2>3. QED
        BY <1>1, <1>3, <1>4, <1>15, <2>1, <2>2 DEF ProcTypes, Settled
<1>18. queue[k] \in MsgQueue /\ queue[k].messages \in Seq(Message)
       /\ queue[k].cbytes \in Int /\ queue[k].qnum \in Int /\ queue[k].qbytes \in Nat
    BY <1>3, <1>5, QueueFields
<1>19. ASSUME NEW x \in Procs PROVE Calling(x)'
    <2>1. CASE x # p
        <3>1. Same(x)
            BY <1>1, <1>14, <2>1 DEF Same
        <3>2. Told(x, k, small)
            <4>1. IF x \in small THEN x \in Receivers(k) /\ rmsg'[x] # EAGAIN
                  ELSE rmsg'[x] = rmsg[x]
                BY <1>6, <1>15, Kinds
            <4>2. ASSUME x \in ToSet(n.receivers)
                  PROVE  /\ FindMsg(n.messages, rcv[x].type, rcv[x].mode) = 0
                         /\ x \in asleep' => x \in n.readers
                <5>1. x \in Receivers(k) /\ ~testmsg(args.msg, rcv[x].type, rcv[x].mode)
                    BY <1>6, <1>13, <4>2
                <5>2. /\ FindMsg(queue[k].messages, rcv[x].type, rcv[x].mode) = 0
                      /\ rcv[x].type \in Int /\ rcv[x].mode \in SearchModes
                      /\ x \in asleep => x \in queue[k].readers
                    BY <1>5, <5>1, ListedReceiver
                <5>3. FindMsg(n.messages, rcv[x].type, rcv[x].mode) = 0
                    BY <1>4, <1>13, <1>18, <5>1, <5>2, PutSearch
                <5>4. QED
                    BY <1>1, <1>13, <5>2, <5>3
            <4>3. QED
                BY <1>12, <1>13, <4>1, <4>2 DEF Told
        <3>3. Unlinked(x, k, {})
            <4>1. linked'[x] = linked[x] /\ linked[x] \in BOOLEAN
                BY <1>14, <2>1, CallParts
            <4>2. ASSUME x \in ToSet(n.senders), Full(queue[k], snd[x].msg)
                  PROVE  Full(n, snd[x].msg)
                <5>1. snd[x].msg.size \in Nat
                    BY <1>5, <1>13, <4>2, ListedSender
                <5>2. PICK z : z = snd[x].msg.size
                    OBVIOUS
                <5>3. z + queue[k].cbytes > queue[k].qbytes \/ 1 + queue[k].qnum > queue[k].qbytes
                    BY <4>2, <5>2 DEF Full
                <5>4. z + n.cbytes > n.qbytes \/ 1 + n.qnum > n.qbytes
                    BY <1>13, <1>16, <1>18, <5>1, <5>2, <5>3, SMTT(30)
                <5>5. QED
                    BY <5>2, <5>4 DEF Full
            <4>3. QED
                BY <1>12, <1>13, <2>1, <4>1, <4>2 DEF Unlinked
        <3>4. QED
            BY <1>1, <1>5, <1>12, <3>1, <3>2, <3>3, SettledKept, OtherCalling DEF Settled
    <2>2. CASE x = p
        <3>1. \A j \in Queues : p \notin ToSet(queue'[j].receivers) /\ p \notin ToSet(queue'[j].senders)
            BY <1>4, <1>12, <1>13 DEF Touched, Ready, Receivers, Senders
        <3>2. rmsg'[p] = EAGAIN /\ inmsg'[p] = NULL /\ p \notin asleep'
            BY <1>1, <1>4, <1>6, <1>15
        <3>3. QED
            BY <1>14, <2>2, <3>1, <3>2, AwayCalling
    <2>3. QED
        BY <2>1, <2>2
<1>20. args.msg.id \notin IdsOf(queue[k].messages) /\ args.msg \notin On(Queues)
    <2>1. \A j \in Queues : args.msg.id \notin IdsOf(queue[j].messages)
        BY <1>4, FreshMessage
    <2>2. \A j \in Queues : args.msg \notin ToSet(queue[j].messages)
        BY <2>1 DEF ToSet, IdsOf
    <2>3. QED
        BY <1>5, <2>1, <2>2 DEF On
<1>21. Conserved'
    <2>1. \A x \in Procs : HandedHas(x)' = HandedHas(x)
        <3>1. ASSUME NEW x \in Procs, x \in small PROVE HandedHas(x)' = HandedHas(x)
            BY <1>5, <1>6, <1>15, <3>1, ListedReceiver, Kinds DEF HandedHas
        <3>2. ASSUME NEW x \in Procs, x \notin small PROVE HandedHas(x)' = HandedHas(x)
            BY <1>15, <3>2 DEF HandedHas
        <3>3. QED
            BY <3>1, <3>2
    <2>2. \A x \in Procs :
             /\ CopiedHas(x)' = CopiedHas(x) /\ HandedHas(x)' = HandedHas(x)
             /\ <<"sender", x>> \notin {<<"sender", p>>, <<"queue", k>>} => SenderHas(x)' = SenderHas(x)
        BY <1>1, <1>14, <2>1 DEF SenderHas, CopiedHas
    <2>3. \A j \in Queues : <<"queue", j>> \notin {<<"sender", p>>, <<"queue", k>>} =>
              IdsOf(queue'[j].messages) = IdsOf(queue[j].messages)
        BY <1>12 DEF Touched
    <2>4. \A x \in Spots \ {<<"sender", p>>, <<"queue", k>>} : Held'[x] = Held[x]
        BY <1>1, <2>2, <2>3, HeldKept
    <2>5. IdsOf(queue'[k].messages) = IdsOf(queue[k].messages) \cup {args.msg.id}
        BY <1>4, <1>12, <1>13, <1>18, EnqueuedMessages
    <2>6. /\ <<"queue", k>> \in Spots /\ <<"queue", k>> # <<"sender", p>>
          /\ Held'[<<"queue", k>>] = Held[<<"queue", k>>] \cup {args.msg.id}
        BY <1>5, <2>5, HeldIs, HeldNext, SpotsDiffer
    <2>7. pc'[p] # "snd_sleep"
        BY <1>14
    <2>8. OneSpot(Held', 0 .. nmsgs' - 1)
        BY <1>4, <2>4, <2>6, <2>7, SentTo
    <2>9. DistinctIds(queue[k].messages)
        BY <1>5 DEF Inv, Conserved
    <2>10. DistinctIds(queue'[k].messages)
        BY <1>4, <1>12, <1>13, <1>18, <1>20, <2>9, EnqueuedMessages
    <2>11. QED
        BY <1>5, <1>12, <2>8, <2>10, DistinctKept, SpotsKept
<1>22. Counted'
    <2>1. args.msg \notin ToSet(queue[k].messages)
        BY <1>5, <1>20 DEF On
    <2>2. CountedAt(queue[k]) /\ Amount(On(Queues), hdrs, bytes)
        BY <1>5 DEF Inv, Counted
    <2>3. CountedAt(queue'[k])
        BY <1>4, <1>12, <1>13, <1>18, <2>1, <2>2, PutCounted
    <2>4. ToSet(queue'[k].messages) = ToSet(queue[k].messages) \cup {args.msg}
        BY <1>4, <1>12, <1>13, <1>18, AppendElems
    <2>5. On(Queues)' = On(Queues) \cup {args.msg}
        BY <1>5, <1>12, <2>4, OnParts
    <2>6. Amount(On(Queues) \cup {args.msg}, hdrs', bytes')
        BY <1>1, <1>4, <1>20, <2>2, AmountPlus
    <2>7. QED
        BY <1>5, <1>12, <2>3, <2>5, <2>6, CountedTouched
<1>23. Owned'
    <2>1. \A x \in Procs : pc[x] = "rmid" => pc'[x] = "rmid" /\ cur'[x] = cur[x]
        BY <1>4, <1>14
    <2>2. \A j \in Queues : queue'[j].messages # <<>> => queue[j].messages # <<>> \/ InTable(j)
        BY <1>12 DEF Touched
    <2>3. QED
        BY <1>1, <2>1, <2>2, OwnedKept
<1>24. QueueTypes' /\ Slotted'
    BY <1>1, <1>12, SettledTypes DEF Touched
<1>25. QED
    BY <1>17, <1>19, <1>21, <1>22, <1>23, <1>24 DEF Inv

\* The body of msgsnd under the lock.
LEMMA SndTryInv ==
    ASSUME Inv, NEW p \in Procs, NEW k, NEW q, NEW args, SndTry(p, k, q, args),
           Ready(p, k, q), Sender(p, args), Names(args.msqid, k)
    PROVE  Inv'
<1>1. PICK small : small = TooSmall(q, args.msg)
    OBVIOUS
<1>2. k \in Queues /\ q \in MsgQueue /\ args \in SndArgs
    BY DEF Ready, Sender
<1>3. InTable(k)
    <2>1. args.msqid \in MsqIds
        BY <1>2 DEF SndArgs
    <2>2. QED
        BY <2>1, NamesInTable
<1>4. small \subseteq ToSet(q.receivers)
    BY <1>1, <1>2, Takers
<1>5. CASE queue' = [queue EXCEPT ![k] = q] /\ SndFail(p, args)
    BY <1>5, LeftReady, SndFailInv
<1>6. CASE Full(q, args.msg) /\ SndSleep(p, k, q, args)
    BY <1>6, SndSleepInv
<1>7. CASE /\ CanTake(q, args.msg) # {}
           /\ SndHand(p, k, q, args, q.receivers[FirstTaker(q, args.msg)], small)
    <2>1. q.receivers[FirstTaker(q, args.msg)] \in ToSet(q.receivers)
        BY <1>2, <1>7, Takers
    <2>2. QED
        BY <1>4, <1>7, <2>1, SndHandInv
<1>8. CASE CanTake(q, args.msg) = {} /\ SndPut(p, k, q, args, small)
    <2>1. \A x \in ToSet(q.receivers) \ small : ~testmsg(args.msg, rcv[x].type, rcv[x].mode)
        BY <1>1, <1>2, <1>8, Takers
    <2>2. QED
        BY <1>3, <1>4, <1>8, <2>1, SndPutInv
<1>9. QED
    BY <1>1, <1>5, <1>6, <1>7, <1>8 DEF SndTry, SndSleep, SndHand, SndPut

\* Identifiers that were issued are identifiers.
LEMMA IssuedIds == Issued \subseteq MsqIds
BY DEF Issued

\* The call of msgsnd.
LEMMA MsgsndInv ==
    ASSUME Inv, NEW p \in Procs, NEW id \in MsqIds, NEW t \in Types, NEW z \in Sizes,
           NEW w \in BOOLEAN, Msgsnd(p, id, t, z, w)
    PROVE  Inv'
<1>1. PICK args : args = [msqid |-> id, nowait |-> w, msg |-> load_msg(t, z)]
    OBVIOUS
<1>2. pc[p] = "idle" /\ nmsgs < MaxMsgs /\ nmsgs' = nmsgs + 1
    BY DEF Msgsnd
<1>3. \/ Found(id) /\ SndTry(p, QueueOf(id), queue[QueueOf(id)], args)
      \/ SndFail(p, args) /\ queue' = queue
    BY <1>1 DEF Msgsnd
<1>4. nmsgs \in 0 .. MaxMsgs /\ MaxMsgs \in Nat
    BY MsgAssumption DEF Inv, ProcTypes
<1>5. /\ load_msg(t, z) \in Message /\ load_msg(t, z).id = nmsgs
    BY <1>2, <1>4 DEF load_msg, Message
<1>6. args \in SndArgs /\ args.msqid = id /\ args.msg \in Message /\ args.msg.id = nmsgs
    BY <1>1, <1>5 DEF SndArgs
<1>7. Sender(p, args)
    <2>1. p \notin asleep
        BY <1>2, OnNoList
    <2>2. nmsgs' \in 0 .. MaxMsgs
        BY <1>2, <1>4
    <2>3. InHand(p, args.msg)
        BY <1>2, <1>6 DEF InHand
    <2>4. QED
        BY <1>2, <1>6, <2>1, <2>2, <2>3 DEF Sender
<1>8. ~Waits(p) /\ linked[p] = FALSE
    BY <1>2, OnNoList DEF Waits, RcvPlaces
<1>9. CASE SndFail(p, args) /\ queue' = queue
    BY <1>7, <1>8, <1>9, LeftUnchanged, SndFailInv
<1>10. CASE Found(id) /\ SndTry(p, QueueOf(id), queue[QueueOf(id)], args)
    <2>1. Names(id, QueueOf(id)) /\ QueueOf(id) \in Queues
        BY <1>10, Lookup DEF Inv, QueueTypes
    <2>2. Ready(p, QueueOf(id), queue[QueueOf(id)])
        <3>1. queue[QueueOf(id)] \in MsgQueue
            BY <2>1 DEF Inv, QueueTypes
        <3>2. \A j \in Queues : p \notin Receivers(j) /\ p \notin Senders(j)
            BY <1>8, OnNoList DEF Receivers, Senders
        <3>3. QED
            BY <2>1, <3>1, <3>2, SameMsgsSelf DEF Ready, Receivers, Senders
    <2>3. Names(args.msqid, QueueOf(id))
        BY <1>6, <2>1
    <2>4. QED
        BY <1>7, <1>10, <2>2, <2>3, SndTryInv
<1>11. QED
    BY <1>3, <1>9, <1>10

\* A sender that slept, on a queue that may have been removed or replaced.
LEMMA SndAgainInv ==
    ASSUME Inv, NEW p \in Procs, SndAgain(p)
    PROVE  Inv'
<1>1. pc[p] = "snd_sleep" /\ p \notin asleep /\ nmsgs' = nmsgs
    BY DEF SndAgain
<1>2. PICK id : id = snd[p].msqid
    OBVIOUS
<1>3. id \in MsqIds /\ Sending(p) /\ snd[p] \in SndArgs /\ linked[p] \in BOOLEAN
    BY <1>2, CallParts
<1>4. \/ ~Found(id) /\ SndFail(p, snd[p]) /\ queue' = queue
      \/ /\ Found(id) /\ SndFail(p, snd[p])
         /\ queue' = [queue EXCEPT ![QueueOf(id)] = ss_del(p, queue[QueueOf(id)])]
      \/ Found(id) /\ SndTry(p, QueueOf(id), ss_del(p, queue[QueueOf(id)]), snd[p])
    BY <1>2 DEF SndAgain
<1>5. Sender(p, snd[p])
    <2>1. snd[p].msg # NULL /\ snd[p].msg \in Message \cup {NULL}
        BY <1>1, <1>3 DEF Sending, SndArgs
    <2>2. nmsgs' \in 0 .. MaxMsgs
        BY <1>1 DEF Inv, ProcTypes
    <2>3. InHand(p, snd[p].msg)
        BY <1>1 DEF InHand
    <2>4. QED
        BY <1>1, <1>3, <2>1, <2>2, <2>3 DEF Sender
<1>6. ~Waits(p)
    BY <1>1 DEF Waits, RcvPlaces
<1>7. ASSUME Found(id)
      PROVE  /\ Ready(p, QueueOf(id), ss_del(p, queue[QueueOf(id)]))
             /\ Names(snd[p].msqid, QueueOf(id))
    <2>1. Names(id, QueueOf(id)) /\ QueueOf(id) \in Queues
        BY <1>3, <1>7, Lookup DEF Inv, QueueTypes
    <2>2. PICK k : k = QueueOf(id)
        OBVIOUS
    <2>3. PICK q : q = ss_del(p, queue[k])
        OBVIOUS
    <2>4. queue[k] \in MsgQueue /\ k \in Queues
        BY <2>1, <2>2 DEF Inv, QueueTypes
    <2>5. \A j \in Queues : p \notin Receivers(j)
        BY <1>6, OnNoList DEF Receivers
    <2>6. CASE ~linked[p]
        <3>1. q = queue[k]
            BY <2>3, <2>6 DEF ss_del
        <3>2. \A j \in Queues : p \notin Senders(j)
            BY <2>6, OnNoList DEF Senders
        <3>3. Ready(p, k, q)
            BY <2>4, <2>5, <3>1, <3>2, SameMsgsSelf DEF Ready, Receivers, Senders
        <3>4. QED
            BY <1>2, <2>1, <2>2, <2>3, <3>3
    <2>7. CASE linked[p]
        <3>1. Names(id, cur[p])
            BY <1>2, <1>3, <2>7 DEF Sending
        <3>2. cur[p] = k
            BY <2>1, <2>2, <3>1 DEF Names
        <3>3. \A j \in Queues \ {k} : p \notin Senders(j)
            BY <1>3, <3>2 DEF Sending
        <3>4. q = [queue[k] EXCEPT !.senders = Without(queue[k].senders, {p})]
            BY <2>3, <2>7 DEF ss_del
        <3>5. /\ q \in MsgQueue /\ SameMsgs(queue[k], q) /\ SameRules(queue[k], q)
              /\ ToSet(q.senders) = ToSet(queue[k].senders) \ {p} /\ q.receivers = queue[k].receivers
            BY <2>4, <3>4, LeaveSenders
        <3>6. Ready(p, k, q)
            BY <2>4, <2>5, <3>3, <3>5 DEF Ready, Receivers, Senders
        <3>7. QED
            BY <1>2, <2>1, <2>2, <2>3, <3>6
    <2>8. QED
        BY <2>6, <2>7
<1>8. CASE ~Found(id) /\ SndFail(p, snd[p]) /\ queue' = queue
    <2>1. ~linked[p]
        <3>1. SUFFICES ASSUME linked[p] PROVE FALSE
            OBVIOUS
        <3>2. Names(id, cur[p])
            BY <1>2, <1>3, <3>1 DEF Sending
        <3>3. cur[p] \in Queues
            BY <3>2, CallParts DEF Names
        <3>4. QED
            BY <1>3, <1>8, <3>2, <3>3, Lookup DEF Inv, QueueTypes
    <2>2. Left(p)
        BY <1>6, <1>8, <2>1, LeftUnchanged
    <2>3. QED
        BY <1>5, <1>8, <2>2, SndFailInv
<1>9. CASE /\ Found(id) /\ SndFail(p, snd[p])
           /\ queue' = [queue EXCEPT ![QueueOf(id)] = ss_del(p, queue[QueueOf(id)])]
    <2>1. Left(p)
        BY <1>7, <1>9, LeftReady
    <2>2. QED
        BY <1>5, <1>9, <2>1, SndFailInv
<1>10. CASE Found(id) /\ SndTry(p, QueueOf(id), ss_del(p, queue[QueueOf(id)]), snd[p])
    BY <1>5, <1>7, <1>10, SndTryInv
<1>11. QED
    BY <1>4, <1>8, <1>9, <1>10

(***************************************************************************)
(* msgrcv. The receiver p holds nothing, and args say what it looks for.   *)
(***************************************************************************)
Receiver(p, args) ==
    /\ args \in RcvArgs /\ rmsg[p] = EAGAIN
    /\ p \notin asleep /\ pc[p] \in {"idle"} \cup RcvPlaces

\* What a receiver under the lock is and has.
LEMMA ReceiverParts ==
    ASSUME Inv, NEW p \in Procs, NEW args, Receiver(p, args)
    PROVE  /\ args \in RcvArgs /\ p \notin asleep /\ rmsg[p] = EAGAIN /\ inmsg[p] = NULL
           /\ pc[p] # "rmid" /\ pc[p] # "snd_sleep" /\ linked[p] = FALSE
           /\ pc[p] \in {"idle"} \cup RcvPlaces /\ rmsg[p] \in Errors
           /\ \A k \in Queues : p \notin Senders(k)
<1>1. pc[p] # "rmid" /\ pc[p] # "snd_sleep" /\ pc[p] # "copyout"
    BY DEF Receiver, RcvPlaces
<1>2. linked[p] = FALSE /\ inmsg[p] = NULL
    BY <1>1, OnNoList
<1>3. QED
    BY <1>1, <1>2, OnNoList, Kinds DEF Receiver, Senders

RcvSleep(p, k, q, args) ==
    /\ queue' = [queue EXCEPT ![k] = [q EXCEPT !.receivers = Append(q.receivers, p)]]
    /\ rcv' = [rcv EXCEPT ![p] = args]
    /\ rmsg' = [rmsg EXCEPT ![p] = EAGAIN]
    /\ cur' = [cur EXCEPT ![p] = k]
    /\ asleep' = asleep \cup {p}
    /\ Goto(p, "rcv_sleep")
    /\ UNCHANGED <<ids, nqueues, msgVars, lockVars, sig, sndVars, inmsg>>

\* msgrcv finds nothing and sleeps.
LEMMA RcvSleepInv ==
    ASSUME Inv, NEW p \in Procs, NEW k, NEW q, NEW args, RcvSleep(p, k, q, args),
           Ready(p, k, q), Receiver(p, args), Names(args.msqid, k), p \in q.readers,
           FindMsg(q.messages, args.type, args.mode) = 0
    PROVE  Inv'
<1>1. /\ Settled /\ hdrs' = hdrs /\ bytes' = bytes /\ freed' = freed /\ nmsgs' = nmsgs /\ ary' = ary
      /\ sig' = sig /\ taker' = taker /\ snd' = snd /\ linked' = linked /\ inmsg' = inmsg
      /\ asleep' = asleep \cup {p}
    BY DEF RcvSleep, Settled, lockVars, sndVars, msgVars
<1>2. /\ rcv' = [rcv EXCEPT ![p] = args] /\ rmsg' = [rmsg EXCEPT ![p] = EAGAIN]
      /\ cur' = [cur EXCEPT ![p] = k] /\ pc' = [pc EXCEPT ![p] = "rcv_sleep"]
    BY DEF RcvSleep, Goto
<1>3. ProcTypes /\ queue \in [Queues -> MsgQueue]
    BY DEF Inv, QueueTypes
<1>4. /\ args \in RcvArgs /\ rmsg[p] = EAGAIN /\ inmsg[p] = NULL /\ pc[p] # "rmid"
      /\ pc[p] # "snd_sleep" /\ linked[p] = FALSE /\ \A j \in Queues : p \notin Senders(j)
    BY ReceiverParts
<1>5. k \in Queues /\ q \in MsgQueue
    BY DEF Ready
<1>6. PICK n : n = [q EXCEPT !.receivers = Append(q.receivers, p)]
    OBVIOUS
<1>7. /\ n \in MsgQueue /\ SameMsgs(q, n) /\ SameRules(q, n)
      /\ ToSet(n.receivers) = ToSet(q.receivers) \cup {p} /\ n.senders = q.senders
    BY <1>5, <1>6, JoinReceivers
<1>8. queue' = [queue EXCEPT ![k] = n]
    BY <1>6 DEF RcvSleep
<1>9. Touched(k) /\ queue'[k] = n
    BY <1>5, <1>7, <1>8, TouchedBy
<1>10. /\ rcv'[p] = args /\ rmsg'[p] = EAGAIN /\ cur'[p] = k /\ pc'[p] = "rcv_sleep"
       /\ \A x \in Procs \ {p} : /\ rcv'[x] = rcv[x] /\ pc'[x] = pc[x] /\ cur'[x] = cur[x]
                                 /\ rmsg'[x] = rmsg[x]
    BY <1>2, <1>3 DEF ProcTypes
<1>11. ProcTypes'
    <2>1. /\ rcv' \in [Procs -> RcvArgs] /\ rmsg' \in [Procs -> Message \cup Errors]
          /\ cur' \in [Procs -> Queues \cup {NULL}] /\ pc' \in [Procs -> PCs]
          /\ asleep' \in SUBSET Procs
        BY <1>1, <1>2, <1>3, <1>4, <1>5, Kinds DEF ProcTypes, PCs, RcvPlaces
    <2>2. QED
        BY <1>1, <1>3, <2>1 DEF ProcTypes, Settled
<1>12. /\ SameMsgs(queue[k], n) /\ SameRules(queue[k], n)
       /\ ToSet(n.receivers) = Receivers(k) \cup {p} /\ ToSet(n.senders) = Senders(k)
    BY <1>4, <1>5, <1>7 DEF Ready, SameMsgs, SameRules
<1>13. \A j \in Queues : SameMsgs(queue[j], queue'[j]) /\ SameRules(queue[j], queue'[j])
    BY <1>9, <1>12, SameMsgsSelf DEF Touched
<1>14. MsgsStay
    <2>1. \A x \in Procs : /\ SenderHas(x)' = SenderHas(x) /\ CopiedHas(x)' = CopiedHas(x)
                           /\ HandedHas(x)' = HandedHas(x)
        BY <1>1, <1>4, <1>10, Kinds DEF SenderHas, HandedHas, CopiedHas
    <2>2. QED
        BY <1>1, <1>4, <1>9, <1>10, <1>13, <2>1 DEF MsgsStay, Touched
<1>15. ASSUME NEW x \in Procs PROVE Calling(x)'
    <2>1. CASE x # p
        <3>1. Same(x)
            BY <1>1, <1>10, <2>1 DEF Same
        <3>2. Quiet(x)
            BY <1>1, <1>9, <1>10, <1>12, <1>13, <2>1 DEF Quiet, Touched, Receivers, Senders
        <3>3. QED
            BY <1>1, <3>1, <3>2, OtherQuiet
    <2>2. CASE x = p
        <3>1. Receiving(p)'
            <4>1. Waits(p)'
                BY <1>10 DEF Waits, RcvPlaces
            <4>2. \A j \in Queues : p \in ToSet(queue'[j].receivers) <=> j = k
                BY <1>9, <1>12 DEF Touched, Ready, Receivers
            <4>3. Names(rcv[p].msqid, cur[p])'
                <5>1. Names(args.msqid, k)'
                    BY <1>1, SettledKept
                <5>2. QED
                    BY <1>10, <5>1 DEF Names
            <4>4. FindMsg(queue[cur[p]].messages, rcv[p].type, rcv[p].mode)' = 0
                BY <1>7, <1>9, <1>10 DEF SameMsgs
            <4>5. p \in queue'[cur'[p]].readers
                BY <1>7, <1>9, <1>10 DEF SameRules
            <4>6. pc'[p] \in RcvPlaces /\ pc'[p] # "copyout" /\ inmsg'[p] = NULL
                BY <1>1, <1>4, <1>10 DEF RcvPlaces
            <4>7. QED
                BY <1>10, <4>1, <4>2, <4>3, <4>4, <4>5, <4>6 DEF Receiving, Receivers
        <3>2. Sending(p)'
            <4>1. \A j \in Queues : p \notin ToSet(queue'[j].senders)
                BY <1>4, <1>9, <1>12 DEF Touched, Senders
            <4>2. QED
                BY <1>1, <1>4, <1>10, <4>1 DEF Sending, Senders
        <3>3. Placed(p)'
            BY <1>10 DEF Placed
        <3>4. QED
            BY <2>2, <3>1, <3>2, <3>3 DEF Calling
    <2>3. QED
        BY <2>1, <2>2
<1>16. QED
    BY <1>1, <1>11, <1>14, <1>15, StayInv

\* Counters of a queue that loses a message.
LEMMA TakeCounted ==
    ASSUME NEW q, NEW n, NEW m \in Message, q.messages \in Seq(Message), CountedAt(q),
           m \in ToSet(q.messages), ToSet(n.messages) = ToSet(q.messages) \ {m},
           Len(n.messages) = Len(q.messages) - 1,
           n.qnum = q.qnum - 1, n.cbytes = q.cbytes - m.size
    PROVE  CountedAt(n)
<1>1. Len(q.messages) = q.qnum /\ Amount(ToSet(q.messages), q.qnum, q.cbytes)
    BY DEF CountedAt
<1>2. Amount({m}, 1, m.size)
    BY AmountOne
<1>3. Amount(ToSet(q.messages) \ {m}, q.qnum - 1, q.cbytes - m.size)
    BY <1>1, <1>2, AmountMinus
<1>4. QED
    BY <1>1, <1>3 DEF CountedAt

\* A search that finds nothing finds nothing among fewer messages.
LEMMA TakeSearch ==
    ASSUME NEW s \in Seq(Message), NEW r \in Seq(Message), NEW type \in Int, NEW mode \in SearchModes,
           ToSet(r) \subseteq ToSet(s), FindMsg(s, type, mode) = 0
    PROVE  FindMsg(r, type, mode) = 0
<1>1. \A i \in DOMAIN s : ~testmsg(s[i], type, mode)
    BY SearchProps
<1>2. \A m \in ToSet(s) : ~testmsg(m, type, mode)
    BY <1>1 DEF ToSet
<1>3. \A i \in DOMAIN r : ~testmsg(r[i], type, mode)
    BY <1>2 DEF ToSet
<1>4. QED
    BY <1>3, SearchProps
RcvGet(p, k, q, pos) ==
    /\ queue' = [queue EXCEPT ![k] = Dequeue(q, pos, p)]
    /\ hdrs' = hdrs - 1
    /\ bytes' = bytes - q.messages[pos].size
    /\ asleep' = asleep \ ss_wakeup(q)
    /\ inmsg' = [inmsg EXCEPT ![p] = q.messages[pos]]
    /\ rcv' = [rcv EXCEPT ![p] = NoRcv]
    /\ rmsg' = [rmsg EXCEPT ![p] = EAGAIN]
    /\ cur' = [cur EXCEPT ![p] = NULL]
    /\ Goto(p, "copyout")
    /\ UNCHANGED <<ids, nqueues, nmsgs, freed, lockVars, sig, sndVars>>

\* msgrcv takes a message off the queue and wakes the senders.
LEMMA RcvGetInv ==
    ASSUME Inv, NEW p \in Procs, NEW k, NEW q, NEW args, NEW pos \in 1 .. Len(q.messages),
           RcvGet(p, k, q, pos), Ready(p, k, q), Receiver(p, args), InTable(k)
    PROVE  Inv'
<1>1. /\ Settled /\ freed' = freed /\ nmsgs' = nmsgs /\ ary' = ary
      /\ sig' = sig /\ taker' = taker /\ snd' = snd /\ linked' = linked
      /\ asleep' = asleep \ ToSet(q.senders) /\ hdrs' = hdrs - 1
      /\ bytes' = bytes - q.messages[pos].size
    BY DEF RcvGet, Settled, lockVars, sndVars, ss_wakeup
<1>2. /\ inmsg' = [inmsg EXCEPT ![p] = q.messages[pos]] /\ rcv' = [rcv EXCEPT ![p] = NoRcv]
      /\ rmsg' = [rmsg EXCEPT ![p] = EAGAIN]
      /\ cur' = [cur EXCEPT ![p] = NULL] /\ pc' = [pc EXCEPT ![p] = "copyout"]
    BY DEF RcvGet, Goto
<1>3. ProcTypes /\ queue \in [Queues -> MsgQueue]
    BY DEF Inv, QueueTypes
<1>4. /\ rmsg[p] = EAGAIN /\ inmsg[p] = NULL /\ pc[p] # "rmid" /\ p \notin asleep
      /\ pc[p] # "snd_sleep" /\ linked[p] = FALSE /\ \A j \in Queues : p \notin Senders(j)
    BY ReceiverParts
<1>5. k \in Queues /\ q \in MsgQueue
    BY DEF Ready
<1>6. /\ queue[k] \in MsgQueue /\ queue[k].messages \in Seq(Message)
      /\ DistinctIds(queue[k].messages) /\ CountedAt(queue[k])
    BY <1>3, <1>5, QueueFields DEF Inv, Conserved, Counted
<1>7. /\ q.messages = queue[k].messages /\ q.cbytes = queue[k].cbytes /\ q.qnum = queue[k].qnum
      /\ pos \in 1 .. Len(queue[k].messages)
    BY DEF Ready, SameMsgs
<1>8. PICK m : m = q.messages[pos]
    OBVIOUS
<1>9. PICK s : s = queue[k].messages
    OBVIOUS
<1>10. /\ IdsOf(RemoveAt(s, pos)) = IdsOf(s) \ {m.id} /\ ToSet(RemoveAt(s, pos)) = ToSet(s) \ {m}
       /\ DistinctIds(RemoveAt(s, pos)) /\ m \in ToSet(s) /\ m \in Message
    BY <1>6, <1>7, <1>8, <1>9, DequeuedMessages
<1>11. RemoveAt(s, pos) \in Seq(Message) /\ Len(RemoveAt(s, pos)) = Len(s) - 1
    BY <1>6, <1>7, <1>9, RemoveElems
<1>12. PICK n : n = Dequeue(q, pos, p)
    OBVIOUS
<1>13. /\ n \in MsgQueue /\ SameRules(q, n) /\ SameLists(q, n)
       /\ n.messages = RemoveAt(q.messages, pos)
       /\ n.cbytes = q.cbytes - q.messages[pos].size /\ n.qnum = q.qnum - 1
    BY <1>5, <1>12, TakeMessage
<1>14. queue' = [queue EXCEPT ![k] = n]
    BY <1>12 DEF RcvGet
<1>15. Touched(k) /\ queue'[k] = n
    BY <1>5, <1>13, <1>14, TouchedBy
<1>16. /\ n.messages = RemoveAt(s, pos) /\ n.cbytes = queue[k].cbytes - m.size
       /\ n.qnum = queue[k].qnum - 1 /\ n.readers = queue[k].readers
       /\ ToSet(n.receivers) = Receivers(k) \ {p} /\ ToSet(n.senders) = Senders(k)
       /\ ToSet(q.senders) = Senders(k)
    BY <1>4, <1>5, <1>7, <1>8, <1>9, <1>13 DEF Ready, SameRules, SameLists
<1>17. /\ inmsg'[p] = m /\ rmsg'[p] = EAGAIN /\ pc'[p] = "copyout"
       /\ \A x \in Procs \ {p} : /\ rcv'[x] = rcv[x] /\ pc'[x] = pc[x] /\ cur'[x] = cur[x]
                                 /\ rmsg'[x] = rmsg[x] /\ inmsg'[x] = inmsg[x]
    BY <1>2, <1>3, <1>8 DEF ProcTypes
<1>18. m.size \in Nat /\ m # NULL
    BY <1>10, Kinds
<1>19. ProcTypes'
    <2>1. /\ rcv' \in [Procs -> RcvArgs] /\ rmsg' \in [Procs -> Message \cup Errors]
          /\ cur' \in [Procs -> Queues \cup {NULL}] /\ pc' \in [Procs -> PCs]
          /\ asleep' \in SUBSET Procs
        BY <1>1, <1>2, <1>3, NoArgs, Kinds DEF ProcTypes, PCs
    <2>2. inmsg' \in [Procs -> Message \cup {NULL}]
        BY <1>2, <1>3, <1>8, <1>10 DEF ProcTypes
    <2>3. hdrs' \in Int /\ bytes' \in Int
        BY <1>1, <1>3, <1>8, <1>18 DEF ProcTypes
    <2>4. QED
        BY <1>1, <1>3, <2>1, <2>2, <2>3 DEF ProcTypes, Settled
<1>20. ASSUME NEW x \in Procs PROVE Calling(x)'
    <2>1. CASE x # p
        <3>1. Same(x)
            BY <1>1, <1>17, <2>1 DEF Same
        <3>2. Told(x, k, {})
            <4>1. ASSUME x \in ToSet(n.receivers)
                  PROVE  /\ FindMsg(n.messages, rcv[x].type, rcv[x].mode) = 0
                         /\ x \in asleep' => x \in n.readers
                <5>1. x \in Receivers(k)
                    BY <1>16, <4>1
                <5>2. /\ FindMsg(s, rcv[x].type, rcv[x].mode) = 0
                      /\ rcv[x].type \in Int /\ rcv[x].mode \in SearchModes
                      /\ x \in asleep => x \in queue[k].readers
                    BY <1>5, <1>9, <5>1, ListedReceiver
                <5>3. s \in Seq(Message) /\ ToSet(RemoveAt(s, pos)) \subseteq ToSet(s)
                    BY <1>6, <1>9, <1>10
                <5>4. FindMsg(n.messages, rcv[x].type, rcv[x].mode) = 0
                    BY <1>11, <1>16, <5>2, <5>3, TakeSearch
                <5>5. QED
                    BY <1>1, <1>16, <5>2, <5>4
            <4>2. QED
                BY <1>15, <1>16, <1>17, <2>1, <4>1 DEF Told
        <3>3. Unlinked(x, k, {})
            <4>1. linked'[x] = linked[x] /\ linked[x] \in BOOLEAN
                BY <1>1, CallParts
            <4>2. QED
                BY <1>1, <1>15, <1>16, <2>1, <4>1 DEF Unlinked
        <3>4. QED
            BY <1>1, <1>5, <1>15, <3>1, <3>2, <3>3, SettledKept, OtherCalling DEF Settled
    <2>2. CASE x = p
        <3>1. \A j \in Queues : p \notin ToSet(queue'[j].receivers) /\ p \notin ToSet(queue'[j].senders)
            BY <1>4, <1>15, <1>16 DEF Touched, Ready, Receivers, Senders
        <3>2. p \notin asleep' /\ linked'[p] = FALSE /\ inmsg'[p] # NULL
            BY <1>1, <1>4, <1>17, <1>18
        <3>3. QED
            BY <1>17, <2>2, <3>1, <3>2, AwayCalling
    <2>3. QED
        BY <2>1, <2>2
<1>21. Conserved'
    <2>1. \A x \in Procs :
             /\ SenderHas(x)' = SenderHas(x) /\ HandedHas(x)' = HandedHas(x)
             /\ <<"copied", x>> \notin {<<"queue", k>>, <<"copied", p>>} => CopiedHas(x)' = CopiedHas(x)
        BY <1>1, <1>4, <1>17, Kinds DEF SenderHas, HandedHas, CopiedHas
    <2>2. \A j \in Queues : <<"queue", j>> \notin {<<"queue", k>>, <<"copied", p>>} =>
              IdsOf(queue'[j].messages) = IdsOf(queue[j].messages)
        BY <1>15 DEF Touched
    <2>3. \A x \in Spots \ {<<"queue", k>>, <<"copied", p>>} : Held'[x] = Held[x]
        BY <1>1, <2>1, <2>2, HeldKept
    <2>4. CopiedHas(p) = {} /\ CopiedHas(p)' = {m.id}
        BY <1>4, <1>17, <1>18 DEF CopiedHas
    <2>5. IdsOf(queue'[k].messages) = IdsOf(queue[k].messages) \ {m.id} /\ m.id \in IdsOf(queue[k].messages)
        BY <1>9, <1>10, <1>15, <1>16 DEF ToSet, IdsOf
    <2>6. /\ <<"queue", k>> \in Spots /\ Held[<<"queue", k>>] = IdsOf(queue[k].messages)
          /\ Held'[<<"queue", k>>] = IdsOf(queue'[k].messages)
          /\ <<"copied", p>> \in Spots /\ Held[<<"copied", p>>] = CopiedHas(p)
          /\ Held'[<<"copied", p>>] = CopiedHas(p)'
        BY <1>5, HeldIs, HeldNext
    <2>7. /\ {m.id} \subseteq Held[<<"queue", k>>]
          /\ Held'[<<"queue", k>>] = Held[<<"queue", k>>] \ {m.id}
          /\ Held'[<<"copied", p>>] = Held[<<"copied", p>>] \cup {m.id}
        BY <2>4, <2>5, <2>6
    <2>8. Moved(Held, Held', <<"queue", k>>, <<"copied", p>>, {m.id})
        BY <2>3, <2>6, <2>7, SpotsDiffer DEF Moved
    <2>9. OneSpot(Held, 0 .. nmsgs - 1)
        BY DEF Inv, Conserved
    <2>10. OneSpot(Held', 0 .. nmsgs' - 1)
        BY <1>1, <2>8, <2>9, SpotMoved
    <2>11. DistinctIds(queue'[k].messages)
        BY <1>10, <1>15, <1>16
    <2>12. QED
        BY <1>5, <1>15, <2>10, <2>11, DistinctKept, SpotsKept
<1>22. Counted'
    <2>1. Amount(On(Queues), hdrs, bytes) /\ Amount({m}, 1, m.size)
        BY <1>10, AmountOne DEF Inv, Counted
    <2>2. /\ ToSet(queue'[k].messages) = ToSet(queue[k].messages) \ {m} /\ m \in ToSet(queue[k].messages)
          /\ Len(queue'[k].messages) = Len(queue[k].messages) - 1
        BY <1>9, <1>10, <1>11, <1>15, <1>16
    <2>3. CountedAt(queue'[k])
        BY <1>6, <1>10, <1>15, <1>16, <2>2, TakeCounted
    <2>4. On(Queues)' = On(Queues) \ {m} /\ {m} \subseteq On(Queues)
        <3>1. PICK A, B : A = On(Queues \ {k}) /\ B = ToSet(queue[k].messages)
            OBVIOUS
        <3>2. On(Queues) = A \cup B /\ On(Queues)' = A \cup (B \ {m}) /\ A \cap B = {}
            BY <1>5, <1>15, <2>2, <3>1, OnParts
        <3>3. m \in B
            BY <2>2, <3>1
        <3>4. A \cup (B \ {m}) = (A \cup B) \ {m} /\ {m} \subseteq A \cup B
            BY ONLY <3>2, <3>3
        <3>5. QED
            BY <3>2, <3>4
    <2>5. Amount(On(Queues) \ {m}, hdrs', bytes')
        BY <1>1, <1>8, <2>1, <2>4, AmountMinus
    <2>6. QED
        BY <1>5, <1>15, <2>3, <2>4, <2>5, CountedTouched
<1>23. Owned'
    <2>1. \A x \in Procs : pc[x] = "rmid" => pc'[x] = "rmid" /\ cur'[x] = cur[x]
        BY <1>4, <1>17
    <2>2. \A j \in Queues : queue'[j].messages # <<>> => queue[j].messages # <<>> \/ InTable(j)
        BY <1>15 DEF Touched
    <2>3. QED
        BY <1>1, <2>1, <2>2, OwnedKept
<1>24. QueueTypes' /\ Slotted'
    BY <1>1, <1>15, SettledTypes DEF Touched
<1>25. QED
    BY <1>19, <1>20, <1>21, <1>22, <1>23, <1>24 DEF Inv

\* The body of msgrcv under the lock.
LEMMA RcvTryInv ==
    ASSUME Inv, NEW p \in Procs, NEW k, NEW q, NEW args, RcvTry(p, k, q, args),
           Ready(p, k, q), Receiver(p, args), Names(args.msqid, k)
    PROVE  Inv'
<1>1. PICK pos : pos = FindMsg(q.messages, args.type, args.mode)
    OBVIOUS
<1>2. k \in Queues /\ q \in MsgQueue /\ args \in RcvArgs
    BY DEF Ready, Receiver
<1>3. args.msqid \in MsqIds /\ args.type \in Int /\ args.mode \in SearchModes
    BY <1>2 DEF RcvArgs
<1>4. InTable(k)
    BY <1>3, NamesInTable
<1>5. q.messages \in Seq(Message)
    BY <1>2, QueueFields
<1>6. pos \in 0 .. Len(q.messages) /\ Len(q.messages) \in Nat
    BY <1>1, <1>3, <1>5, SearchProps
<1>7. CASE queue' = [queue EXCEPT ![k] = q] /\ RcvFail(p)
    <2>1. rmsg[p] \in Errors /\ p \notin asleep /\ pc[p] \in {"idle"} \cup RcvPlaces
        BY ReceiverParts
    <2>2. Left(p)
        BY <1>7, LeftReady
    <2>3. QED
        BY <1>7, <2>1, <2>2, RcvFailInv
<1>8. CASE pos # 0 /\ RcvGet(p, k, q, pos)
    <2>1. pos \in 1 .. Len(q.messages)
        BY <1>6, <1>8
    <2>2. QED
        BY <1>4, <1>8, <2>1, RcvGetInv
<1>9. CASE p \in q.readers /\ pos = 0 /\ RcvSleep(p, k, q, args)
    BY <1>1, <1>9, RcvSleepInv
<1>10. QED
    BY <1>1, <1>7, <1>8, <1>9 DEF RcvTry, RcvGet, RcvSleep

\* The call of msgrcv.
LEMMA MsgrcvInv ==
    ASSUME Inv, NEW p \in Procs, NEW id \in MsqIds, NEW t \in RcvTypes, NEW z \in RcvSizes,
           NEW f \in RcvFlags, Msgrcv(p, id, t, z, f)
    PROVE  Inv'
<1>1. PICK args : args = [msqid |-> id, mode |-> convert_mode(t, f.except).mode,
                          type |-> convert_mode(t, f.except).type, size |-> z,
                          nowait |-> f.nowait, noerror |-> f.noerror]
    OBVIOUS
<1>2. pc[p] = "idle" /\ Found(id) /\ RcvTry(p, QueueOf(id), queue[QueueOf(id)], args)
    BY <1>1 DEF Msgrcv
<1>3. t \in Int /\ z \in Int /\ f.except \in BOOLEAN /\ f.nowait \in BOOLEAN /\ f.noerror \in BOOLEAN
    <2>1. t \in Int /\ z \in 0 .. INT_MAX
        BY MsgAssumption
    <2>2. f \in [nowait : BOOLEAN, noerror : BOOLEAN, except : BOOLEAN]
        BY MsgAssumption
    <2>3. QED
        BY <2>1, <2>2
<1>4. convert_mode(t, f.except).mode \in SearchModes /\ convert_mode(t, f.except).type \in Int
    BY <1>3 DEF convert_mode, SearchModes
<1>5. args \in RcvArgs /\ args.msqid = id
    BY <1>1, <1>3, <1>4 DEF RcvArgs
<1>6. ~Waits(p) /\ linked[p] = FALSE /\ rmsg[p] = EAGAIN /\ p \notin asleep
    BY <1>2, OnNoList DEF Waits, RcvPlaces
<1>7. Receiver(p, args)
    BY <1>2, <1>5, <1>6 DEF Receiver
<1>8. Names(id, QueueOf(id)) /\ QueueOf(id) \in Queues
    BY <1>2, Lookup DEF Inv, QueueTypes
<1>9. Ready(p, QueueOf(id), queue[QueueOf(id)])
    <2>1. queue[QueueOf(id)] \in MsgQueue
        BY <1>8 DEF Inv, QueueTypes
    <2>2. \A j \in Queues : p \notin Receivers(j) /\ p \notin Senders(j)
        BY <1>6, OnNoList DEF Receivers, Senders
    <2>3. QED
        BY <1>8, <2>1, <2>2, SameMsgsSelf DEF Ready, Receivers, Senders
<1>10. Names(args.msqid, QueueOf(id))
    BY <1>5, <1>8
<1>11. QED
    BY <1>2, <1>7, <1>9, <1>10, RcvTryInv

\* A receiver that slept, under the lock again.
LEMMA RcvAgainInv ==
    ASSUME Inv, NEW p \in Procs, RcvAgain(p)
    PROVE  Inv'
<1>1. pc[p] = "rcv_relock" /\ pc[p] \in RcvPlaces /\ p \notin asleep
    BY OnNoList DEF RcvAgain, RcvPlaces
<1>2. Receiving(p) /\ rcv[p] \in RcvArgs /\ cur[p] \in Queues \cup {NULL}
    BY CallParts
<1>3. linked[p] = FALSE
    BY <1>1, OnNoList
<1>4. CASE rmsg[p] \notin Errors /\ RcvTake(p)
    BY <1>1, <1>4, TakeInv
<1>5. CASE rmsg[p] \in Errors \ {EAGAIN} /\ queue' = queue /\ RcvFail(p)
    <2>1. ~Waits(p)
        BY <1>5 DEF Waits
    <2>2. QED
        BY <1>1, <1>3, <1>5, <2>1, LeftUnchanged, RcvFailInv
<1>6. ASSUME rmsg[p] = EAGAIN
      PROVE  /\ Names(rcv[p].msqid, cur[p]) /\ Receiver(p, rcv[p])
             /\ Ready(p, cur[p], [queue[cur[p]] EXCEPT !.receivers = Without(queue[cur[p]].receivers, {p})])
    <2>1. Waits(p)
        BY <1>1, <1>6 DEF Waits
    <2>2. Names(rcv[p].msqid, cur[p])
        BY <1>2, <2>1 DEF Receiving
    <2>3. PICK k : k = cur[p]
        OBVIOUS
    <2>4. k \in Queues /\ queue[k] \in MsgQueue
        BY <1>2, <2>2, <2>3 DEF Names, Inv, QueueTypes
    <2>5. PICK q : q = [queue[k] EXCEPT !.receivers = Without(queue[k].receivers, {p})]
        OBVIOUS
    <2>6. /\ q \in MsgQueue /\ SameMsgs(queue[k], q) /\ SameRules(queue[k], q)
          /\ ToSet(q.receivers) = ToSet(queue[k].receivers) \ {p} /\ q.senders = queue[k].senders
        BY <2>4, <2>5, LeaveReceivers
    <2>7. \A j \in Queues \ {k} : p \notin Receivers(j)
        BY <1>2, <2>3 DEF Receiving
    <2>8. \A j \in Queues : p \notin Senders(j)
        BY <1>3, OnNoList DEF Senders
    <2>9. Ready(p, k, q)
        BY <2>4, <2>6, <2>7, <2>8 DEF Ready, Receivers, Senders
    <2>10. Receiver(p, rcv[p])
        BY <1>1, <1>2, <1>6 DEF Receiver
    <2>11. QED
        BY <2>2, <2>3, <2>5, <2>9, <2>10
<1>7. CASE /\ rmsg[p] = EAGAIN /\ RcvFail(p)
           /\ queue' = [queue EXCEPT ![cur[p]] =
                 [queue[cur[p]] EXCEPT !.receivers = Without(queue[cur[p]].receivers, {p})]]
    <2>1. Left(p)
        BY <1>6, <1>7, LeftReady
    <2>2. QED
        BY <1>1, <1>7, <2>1, RcvFailInv, Kinds
<1>8. CASE /\ rmsg[p] = EAGAIN
           /\ RcvTry(p, cur[p], [queue[cur[p]] EXCEPT !.receivers = Without(queue[cur[p]].receivers, {p})],
                     rcv[p])
    BY <1>6, <1>8, RcvTryInv
<1>9. QED
    BY <1>4, <1>5, <1>7, <1>8 DEF RcvAgain

(***************************************************************************)
(* msgget and msgctl.                                                      *)
(***************************************************************************)
LEMMA MsgctlSetInv ==
    ASSUME Inv, NEW p \in Procs, NEW id \in MsqIds, NEW b \in QBytes, NEW R \in PermSets,
           NEW W \in PermSets, MsgctlSet(p, id, b, R, W)
    PROVE  Inv'
<1>1. PICK k : k = QueueOf(id)
    OBVIOUS
<1>2. /\ Settled /\ hdrs' = hdrs /\ bytes' = bytes /\ freed' = freed /\ nmsgs' = nmsgs /\ ary' = ary
      /\ sig' = sig /\ taker' = taker /\ snd' = snd /\ linked' = linked /\ inmsg' = inmsg
      /\ pc' = pc /\ cur' = cur /\ rcv' = rcv
      /\ asleep' = asleep \ (Receivers(k) \cup Senders(k))
      /\ rmsg' = [x \in Procs |-> IF x \in Receivers(k) THEN EAGAIN ELSE rmsg[x]]
    BY <1>1 DEF MsgctlSet, Settled, lockVars, sndVars, msgVars, expunge_all, Waiters, Receivers, Senders
<1>3. ProcTypes /\ queue \in [Queues -> MsgQueue]
    BY DEF Inv, QueueTypes
<1>4. k \in Queues
    BY <1>1, Lookup DEF MsgctlSet, Inv, QueueTypes
<1>5. PICK n : n = [queue[k] EXCEPT !.qbytes = b, !.readers = R, !.writers = W]
    OBVIOUS
<1>6. b \in Nat /\ R \in SUBSET Procs /\ W \in SUBSET Procs
    BY MsgAssumption
<1>7. n \in MsgQueue /\ SameMsgs(queue[k], n) /\ SameLists(queue[k], n)
    BY <1>3, <1>4, <1>5, <1>6, SetRules
<1>8. queue' = [queue EXCEPT ![k] = n]
    BY <1>1, <1>5 DEF MsgctlSet
<1>9. Touched(k) /\ queue'[k] = n
    BY <1>4, <1>7, <1>8, TouchedBy
<1>10. /\ rmsg' \in [Procs -> Message \cup Errors] /\ \A x \in Procs : rmsg'[x] = rmsg[x]
    <2>1. \A x \in Procs : x \in Receivers(k) => rmsg[x] = EAGAIN
        BY <1>4, ListedReceiver
    <2>2. QED
        BY <1>2, <1>3, <2>1 DEF ProcTypes
<1>11. ProcTypes'
    BY <1>2, <1>3, <1>10 DEF ProcTypes, Settled
<1>12. MsgsStay
    <2>1. \A j \in Queues : SameMsgs(queue[j], queue'[j])
        BY <1>7, <1>9, SameMsgsSelf DEF Touched
    <2>2. \A x \in Procs : /\ SenderHas(x)' = SenderHas(x) /\ CopiedHas(x)' = CopiedHas(x)
                           /\ HandedHas(x)' = HandedHas(x)
        BY <1>2, <1>10 DEF SenderHas, HandedHas, CopiedHas
    <2>3. QED
        BY <1>2, <1>9, <2>1, <2>2 DEF MsgsStay, Touched
<1>13. /\ n.messages = queue[k].messages /\ ToSet(n.receivers) = Receivers(k)
       /\ ToSet(n.senders) = Senders(k)
    BY <1>7 DEF SameMsgs, SameLists, Receivers, Senders
<1>14. ASSUME NEW x \in Procs PROVE Calling(x)'
    <2>1. Same(x)
        BY <1>2 DEF Same
    <2>2. Told(x, k, {})
        BY <1>2, <1>4, <1>9, <1>10, <1>13, ListedReceiver DEF Told
    <2>3. Unlinked(x, k, {})
        <3>1. linked'[x] = linked[x] /\ linked[x] \in BOOLEAN
            BY <1>2, CallParts
        <3>2. QED
            BY <1>2, <1>9, <1>13, <3>1 DEF Unlinked
    <2>4. QED
        BY <1>2, <1>4, <1>9, <2>1, <2>2, <2>3, SettledKept, OtherCalling DEF Settled
<1>15. QED
    BY <1>2, <1>11, <1>12, <1>14, StayInv

\* Nobody waits for a queue that is not in the table.
LEMMA NoWaiters ==
    ASSUME Inv, NEW k \in Queues, ~InTable(k)
    PROVE  \A x \in Procs : x \notin Receivers(k) /\ x \notin Senders(k)
<1>1. ASSUME NEW x \in Procs, x \in Receivers(k) PROVE FALSE
    <2>1. Receiving(x) /\ rcv[x].msqid \in MsqIds
        BY CallParts
    <2>2. Names(rcv[x].msqid, k)
        BY <1>1, <2>1 DEF Receiving
    <2>3. QED
        BY <2>1, <2>2, NamesInTable
<1>2. ASSUME NEW x \in Procs, x \in Senders(k) PROVE FALSE
    <2>1. Sending(x) /\ snd[x].msqid \in MsqIds
        BY CallParts
    <2>2. Names(snd[x].msqid, k)
        BY <1>2, <2>1 DEF Sending
    <2>3. QED
        BY <2>1, <2>2, NamesInTable
<1>3. QED
    BY <1>1, <1>2

\* Nobody removes a queue while msg_ids.sem is free.
LEMMA NoRemover ==
    ASSUME Inv, sem = NULL
    PROVE  \A x \in Procs : pc[x] # "rmid"
BY CallParts, MsgAssumption DEF Placed

\* freeque up to msg_unlock: everyone on the queue is told or unlinked.
LEMMA MsgctlRmidInv ==
    ASSUME Inv, NEW p \in Procs, NEW id \in MsqIds, MsgctlRmid(p, id)
    PROVE  Inv'
<1>1. PICK k : k = QueueOf(id)
    OBVIOUS
<1>2. /\ nqueues' = nqueues /\ hdrs' = hdrs /\ bytes' = bytes /\ freed' = freed /\ nmsgs' = nmsgs
      /\ ary' = ary /\ sig' = sig /\ taker' = taker /\ snd' = snd /\ inmsg' = inmsg /\ rcv' = rcv
      /\ sem' = p /\ asleep' = asleep \ (Receivers(k) \cup Senders(k))
      /\ rmsg' = [x \in Procs |-> IF x \in Receivers(k) THEN EIDRM ELSE rmsg[x]]
      /\ linked' = [x \in Procs |-> linked[x] /\ x \notin Senders(k)]
    BY <1>1 DEF MsgctlRmid, sndVars, msgVars, expunge_all, Waiters, Receivers, Senders
<1>3. /\ cur' = [cur EXCEPT ![p] = k] /\ pc' = [pc EXCEPT ![p] = "rmid"] /\ sem = NULL /\ pc[p] = "idle"
      /\ ids' = ipc_rmid(ids, Lid(id)) /\ Found(id)
    BY <1>1 DEF MsgctlRmid, Goto
<1>4. ProcTypes /\ queue \in [Queues -> MsgQueue] /\ Table(ids)
    BY DEF Inv, QueueTypes
<1>5. /\ k \in Queues /\ Names(id, k) /\ InTable(k) /\ Lid(id) \in Slots
    BY <1>1, <1>3, <1>4, Lookup, IdSlot
<1>6. PICK l : l = Lid(id)
    OBVIOUS
<1>7. k # NULL /\ l \in Slots /\ ObjAt(ids)[l] = k
    BY <1>5, <1>6 DEF Names
<1>8. Table(ids') /\ ObjAt(ids') = [ObjAt(ids) EXCEPT ![l] = NULL]
    BY <1>3, <1>4, <1>6, <1>7, RemoveEffect
<1>9. ObjAt(ids)'[l] = NULL /\ \A i \in Slots \ {l} : ObjAt(ids)'[i] = ObjAt(ids)[i]
    <2>1. ObjAt(ids)' = [ObjAt(ids) EXCEPT ![l] = NULL]
        BY <1>8 DEF ObjAt
    <2>2. DOMAIN ObjAt(ids) = Slots
        BY DEF ObjAt
    <2>3. PICK g : g = ObjAt(ids)
        OBVIOUS
    <2>4. DOMAIN g = Slots /\ ObjAt(ids)' = [g EXCEPT ![l] = NULL]
        BY <2>1, <2>2, <2>3
    <2>5. QED
        BY <1>7, <2>3, <2>4
<1>10. /\ \A i \in Slots : ObjAt(ids)[i] # NULL => ObjAt(ids)[i] < nqueues
       /\ \A i, j \in Slots : ObjAt(ids)[i] # NULL /\ ObjAt(ids)[i] = ObjAt(ids)[j] => i = j
    BY DEF Inv, Slotted
<1>11. /\ queue' \in [Queues -> MsgQueue] /\ \A j \in Queues \ {k} : queue'[j] = queue[j]
       /\ SameMsgs(queue[k], queue'[k])
       /\ queue'[k].receivers = <<>> /\ queue'[k].senders = <<>>
    <2>1. queue' = Emptied(queue, k)
        BY <1>1 DEF MsgctlRmid, Emptied
    <2>2. QED
        BY <1>4, <1>5, <2>1, EmptyLists
<1>12. /\ cur'[p] = k /\ pc'[p] = "rmid"
       /\ \A x \in Procs \ {p} : pc'[x] = pc[x] /\ cur'[x] = cur[x]
    BY <1>3, <1>4 DEF ProcTypes
<1>13. /\ rmsg' \in [Procs -> Message \cup Errors] /\ linked' \in [Procs -> BOOLEAN]
       /\ \A x \in Procs : /\ rmsg'[x] = IF x \in Receivers(k) THEN EIDRM ELSE rmsg[x]
                           /\ linked'[x] = (linked[x] /\ x \notin Senders(k))
    BY <1>2, <1>4, Kinds DEF ProcTypes
<1>14. ProcTypes'
    <2>1. /\ cur' \in [Procs -> Queues \cup {NULL}] /\ pc' \in [Procs -> PCs]
          /\ asleep' \in SUBSET Procs
        BY <1>2, <1>3, <1>4, <1>5 DEF ProcTypes, PCs
    <2>2. QED
        BY <1>2, <1>4, <1>13, <2>1 DEF ProcTypes
<1>15. QueueTypes' /\ Slotted'
    <2>1. QueueTypes'
        BY <1>2, <1>8, <1>11 DEF QueueTypes, Inv, Table
    <2>2. \A i \in Slots : ObjAt(ids)'[i] # NULL => ObjAt(ids)'[i] < nqueues'
        BY <1>2, <1>9, <1>10
    <2>3. \A i, j \in Slots : ObjAt(ids)'[i] # NULL /\ ObjAt(ids)'[i] = ObjAt(ids)'[j] => i = j
        BY <1>9, <1>10
    <2>4. QED
        BY <2>1, <2>2, <2>3 DEF Slotted
<1>16. ~InTable(k)' /\ \A j \in Queues \ {k} : InTable(j) => InTable(j)'
    <2>1. \A i \in Slots : ObjAt(ids)'[i] # k
        BY <1>7, <1>9, <1>10
    <2>2. ASSUME NEW j \in Queues \ {k}, InTable(j) PROVE InTable(j)'
        <3>1. PICK i \in Slots : ObjAt(ids)[i] = j
            BY <2>2 DEF InTable
        <3>2. ObjAt(ids)'[i] = j
            BY <1>7, <1>9, <2>2, <3>1
        <3>3. QED
            BY <2>2, <3>2 DEF InTable
    <2>3. QED
        BY <2>1, <2>2 DEF InTable
<1>17. Owned'
    <2>1. ASSUME NEW j \in Queues, queue'[j].messages # <<>>
          PROVE  InTable(j)' \/ \E x \in Procs : pc'[x] = "rmid" /\ cur'[x] = j
        <3>1. CASE j = k
            BY <1>12, <3>1
        <3>2. CASE j # k
            <4>1. InTable(j) \/ \E x \in Procs : pc[x] = "rmid" /\ cur[x] = j
                BY <1>11, <2>1, <3>2 DEF Inv, Owned
            <4>2. InTable(j)
                BY <1>3, <4>1, NoRemover
            <4>3. QED
                BY <1>16, <3>2, <4>2
        <3>3. QED
            BY <3>1, <3>2
    <2>2. QED
        BY <2>1 DEF Owned
<1>18. \A j \in Queues : SameMsgs(queue[j], queue'[j])
    BY <1>11, SameMsgsSelf
<1>19. Counted'
    BY <1>2, <1>18, CountedSame
<1>20. Conserved'
    <2>1. ASSUME NEW x \in Procs PROVE HandedHas(x)' = HandedHas(x)
        <3>1. CASE x \in Receivers(k)
            BY <1>5, <1>13, <3>1, ListedReceiver, Kinds DEF HandedHas
        <3>2. CASE x \notin Receivers(k)
            BY <1>13, <3>2 DEF HandedHas
        <3>3. QED
            BY <3>1, <3>2
    <2>2. \A x \in Procs : SenderHas(x)' = SenderHas(x) /\ CopiedHas(x)' = CopiedHas(x)
        BY <1>2, <1>3, <1>12 DEF SenderHas, CopiedHas
    <2>3. QED
        BY <1>2, <1>18, <2>1, <2>2, ConservedSame
<1>21. Touched(k)
    BY <1>11 DEF Touched
<1>22. SlotsKept
    BY <1>2, <1>4, <1>9 DEF SlotsKept, Inv, QueueTypes
<1>23. TableKept(k)
    BY <1>7, <1>9, <1>11 DEF TableKept
<1>24. ToSet(queue'[k].receivers) = {} /\ ToSet(queue'[k].senders) = {}
    BY <1>11, NoElems
<1>25. ASSUME NEW x \in Procs PROVE Calling(x)'
    <2>1. CASE x # p
        <3>1. Same(x)
            BY <1>2, <1>12, <2>1 DEF Same
        <3>2. Told(x, k, Receivers(k))
            BY <1>13, <1>24, Kinds DEF Told
        <3>3. Unlinked(x, k, Senders(k))
            BY <1>2, <1>13, <1>24 DEF Unlinked
        <3>4. pc[x] # "rmid"
            BY <1>3, NoRemover
        <3>5. QED
            BY <1>5, <1>21, <1>22, <1>23, <3>1, <3>2, <3>3, <3>4, OtherCalling
    <2>2. CASE x = p
        <3>1. ~Waits(p) /\ linked[p] = FALSE /\ rmsg[p] = EAGAIN /\ inmsg[p] = NULL /\ p \notin asleep
            BY <1>3, OnNoList DEF Waits, RcvPlaces
        <3>2. \A j \in Queues : p \notin Receivers(j) /\ p \notin Senders(j)
            BY <3>1, OnNoList DEF Receivers, Senders
        <3>3. \A j \in Queues : p \notin ToSet(queue'[j].receivers) /\ p \notin ToSet(queue'[j].senders)
            BY <1>11, <1>24, <3>2 DEF Receivers, Senders
        <3>4. rmsg'[p] = EAGAIN /\ linked'[p] = FALSE
            BY <1>5, <1>13, <3>1, <3>2
        <3>5. Receiving(p)'
            <4>1. ~Waits(p)'
                BY <1>12 DEF Waits, RcvPlaces
            <4>2. QED
                BY <1>2, <1>12, <3>1, <3>3, <3>4, <4>1 DEF Receiving, Receivers
        <3>6. Sending(p)'
            BY <1>12, <3>3, <3>4 DEF Sending, Senders
        <3>7. Placed(p)'
            <4>1. p \notin asleep' /\ k < nqueues'
                BY <1>2, <1>7, <1>10, <3>1
            <4>2. ~InTable(cur[p])'
                BY <1>12, <1>16 DEF InTable
            <4>3. QED
                BY <1>2, <1>7, <1>12, <4>1, <4>2 DEF Placed
        <3>8. QED
            BY <2>2, <3>5, <3>6, <3>7 DEF Calling
    <2>3. QED
        BY <2>1, <2>2
<1>26. QED
    BY <1>14, <1>15, <1>17, <1>19, <1>20, <1>25 DEF Inv

\* freeque after msg_unlock: nobody uses the queue that is freed.
LEMMA RmidFreeInv ==
    ASSUME Inv, NEW p \in Procs, RmidFree(p)
    PROVE  Inv'
<1>1. PICK k : k = cur[p]
    OBVIOUS
<1>2. /\ ids' = ids /\ nqueues' = nqueues /\ nmsgs' = nmsgs /\ ary' = ary /\ asleep' = asleep
      /\ snd' = snd /\ linked' = linked /\ taker' = taker /\ rcv' = rcv /\ rmsg' = rmsg
      /\ inmsg' = inmsg /\ sem' = NULL /\ pc[p] = "rmid"
    BY DEF RmidFree, sndVars, rcvVars
<1>3. /\ cur' = [cur EXCEPT ![p] = NULL] /\ pc' = [pc EXCEPT ![p] = "idle"] /\ sig' = sig \ {p}
      /\ hdrs' = hdrs - Len(queue[k].messages) /\ bytes' = bytes - queue[k].cbytes
      /\ queue' = [queue EXCEPT ![k] = newque]
    BY <1>1 DEF RmidFree, Leave, Goto
<1>4. ProcTypes /\ queue \in [Queues -> MsgQueue] /\ Table(ids) /\ nqueues \in Int
    BY DEF Inv, QueueTypes
<1>5. k \in Queues /\ ~InTable(k) /\ sem = p
    BY <1>1, <1>2, CallParts DEF Placed
<1>6. /\ queue[k].messages \in Seq(Message) /\ queue[k].cbytes \in Int
      /\ Len(queue[k].messages) \in Int
    BY <1>4, <1>5, QueueFields
<1>7. Touched(k) /\ queue'[k] = newque
    BY <1>3, <1>5, NewQueue, TouchedBy
<1>8. /\ queue'[k].messages = <<>> /\ queue'[k].cbytes = 0 /\ queue'[k].qnum = 0
      /\ ToSet(queue'[k].receivers) = {} /\ ToSet(queue'[k].senders) = {}
      /\ ToSet(queue'[k].messages) = {}
    BY <1>7, NewQueue, NoElems
<1>9. freed' = freed \cup IdsOf(queue[k].messages)
    <2>1. freed' = freed \cup {m.id : m \in ToSet(queue[k].messages)}
        BY <1>1 DEF RmidFree, free_msg
    <2>2. {m.id : m \in ToSet(queue[k].messages)} = IdsOf(queue[k].messages)
        BY DEF ToSet, IdsOf
    <2>3. QED
        BY <2>1, <2>2
<1>10. /\ pc'[p] = "idle"
       /\ \A x \in Procs \ {p} : pc'[x] = pc[x] /\ cur'[x] = cur[x]
    BY <1>3, <1>4 DEF ProcTypes
<1>11. ProcTypes'
    <2>1. /\ cur' \in [Procs -> Queues \cup {NULL}] /\ pc' \in [Procs -> PCs] /\ sig' \in SUBSET Procs
        BY <1>3, <1>4 DEF ProcTypes, PCs
    <2>2. freed' \in SUBSET (0 .. MaxMsgs - 1)
        <3>1. \A i \in DOMAIN queue[k].messages : queue[k].messages[i] \in Message
            BY <1>6
        <3>2. IdsOf(queue[k].messages) \subseteq 0 .. MaxMsgs - 1
            BY <3>1, Kinds DEF IdsOf
        <3>3. QED
            BY <1>4, <1>9, <3>2 DEF ProcTypes
    <2>3. hdrs' \in Int /\ bytes' \in Int
        BY <1>3, <1>4, <1>6 DEF ProcTypes
    <2>4. QED
        BY <1>2, <1>4, <2>1, <2>2, <2>3 DEF ProcTypes
<1>12. ObjAt(ids)' = ObjAt(ids) /\ QueueTypes'
    BY <1>2, <1>4, <1>7 DEF ObjAt, Inv, QueueTypes, Touched
<1>13. Slotted'
    BY <1>2, <1>12 DEF Inv, Slotted
<1>14. \A x \in Procs : pc[x] = "rmid" => x = p
    BY <1>5, CallParts DEF Placed
<1>15. Owned'
    <2>1. ASSUME NEW j \in Queues, queue'[j].messages # <<>>
          PROVE  InTable(j)'
        <3>1. j # k
            BY <1>8, <2>1
        <3>2. InTable(j) \/ \E x \in Procs : pc[x] = "rmid" /\ cur[x] = j
            BY <1>7, <2>1, <3>1 DEF Inv, Owned, Touched
        <3>3. InTable(j)
            BY <1>1, <1>14, <3>1, <3>2
        <3>4. QED
            BY <1>12, <3>3 DEF InTable
    <2>2. QED
        BY <2>1 DEF Owned
<1>16. Counted'
    <2>1. /\ Len(queue[k].messages) = queue[k].qnum
          /\ Amount(ToSet(queue[k].messages), queue[k].qnum, queue[k].cbytes)
          /\ Amount(On(Queues), hdrs, bytes)
        BY <1>5 DEF Inv, Counted, CountedAt
    <2>2. CountedAt(queue'[k])
        <3>1. Len(queue'[k].messages) = 0
            BY <1>8
        <3>2. QED
            BY <1>8, <3>1, AmountNone DEF CountedAt
    <2>3. /\ On(Queues)' = On(Queues) \ ToSet(queue[k].messages)
          /\ ToSet(queue[k].messages) \subseteq On(Queues)
        <3>1. PICK A, B : A = On(Queues \ {k}) /\ B = ToSet(queue[k].messages)
            OBVIOUS
        <3>2. On(Queues) = A \cup B /\ On(Queues)' = A /\ A \cap B = {}
            BY <1>5, <1>7, <1>8, <3>1, OnParts
        <3>3. A = (A \cup B) \ B
            BY ONLY <3>2
        <3>4. QED
            BY <3>1, <3>2, <3>3
    <2>4. Amount(On(Queues) \ ToSet(queue[k].messages), hdrs', bytes')
        BY <1>3, <2>1, <2>3, AmountMinus
    <2>5. QED
        BY <1>5, <1>7, <2>2, <2>3, <2>4, CountedTouched
<1>17. Conserved'
    <2>1. \A x \in Procs : /\ SenderHas(x)' = SenderHas(x) /\ HandedHas(x)' = HandedHas(x)
                           /\ CopiedHas(x)' = CopiedHas(x)
        BY <1>2, <1>10 DEF SenderHas, HandedHas, CopiedHas
    <2>2. \A j \in Queues : <<"queue", j>> \notin {<<"queue", k>>, <<"freed", 0>>} =>
              IdsOf(queue'[j].messages) = IdsOf(queue[j].messages)
        BY <1>7 DEF Touched
    <2>3. \A x \in Spots \ {<<"queue", k>>, <<"freed", 0>>} : Held'[x] = Held[x]
        BY <2>1, <2>2, HeldKept
    <2>4. IdsOf(queue'[k].messages) = {} /\ DistinctIds(queue'[k].messages)
        BY <1>8 DEF IdsOf, DistinctIds
    <2>5. /\ <<"queue", k>> \in Spots /\ Held[<<"queue", k>>] = IdsOf(queue[k].messages)
          /\ Held'[<<"queue", k>>] = IdsOf(queue'[k].messages)
          /\ <<"freed", 0>> \in Spots /\ Held[<<"freed", 0>>] = freed /\ Held'[<<"freed", 0>>] = freed'
        BY <1>5, HeldIs, HeldNext
    <2>6. Moved(Held, Held', <<"queue", k>>, <<"freed", 0>>, IdsOf(queue[k].messages))
        BY <1>9, <2>3, <2>4, <2>5, SpotsDiffer DEF Moved
    <2>7. OneSpot(Held, 0 .. nmsgs - 1)
        BY DEF Inv, Conserved
    <2>8. OneSpot(Held', 0 .. nmsgs' - 1)
        BY <1>2, <2>6, <2>7, SpotMoved
    <2>9. QED
        BY <1>5, <1>7, <2>4, <2>8, DistinctKept, SpotsKept
<1>18. SlotsKept /\ TableKept(k)
    BY <1>2, <1>4, <1>12 DEF SlotsKept, TableKept
<1>19. ASSUME NEW x \in Procs PROVE Calling(x)'
    <2>1. x \notin Receivers(k) /\ x \notin Senders(k)
        BY <1>5, NoWaiters
    <2>2. CASE x # p
        <3>1. Same(x)
            BY <1>2, <1>10, <2>2 DEF Same
        <3>2. Told(x, k, {})
            BY <1>2, <1>8, <2>1 DEF Told
        <3>3. Unlinked(x, k, {})
            <4>1. linked'[x] = linked[x] /\ linked[x] \in BOOLEAN
                BY <1>2, CallParts
            <4>2. QED
                BY <1>8, <2>1, <4>1 DEF Unlinked
        <3>4. pc[x] # "rmid"
            BY <1>14, <2>2
        <3>5. QED
            BY <1>5, <1>7, <1>18, <3>1, <3>2, <3>3, <3>4, OtherCalling
    <2>3. CASE x = p
        <3>1. ~Waits(p) /\ linked[p] = FALSE /\ rmsg[p] = EAGAIN /\ inmsg[p] = NULL /\ p \notin asleep
            BY <1>2, OnNoList DEF Waits, RcvPlaces
        <3>2. \A j \in Queues : p \notin ToSet(queue[j].receivers) /\ p \notin ToSet(queue[j].senders)
            BY <3>1, OnNoList
        <3>3. \A j \in Queues : p \notin ToSet(queue'[j].receivers) /\ p \notin ToSet(queue'[j].senders)
            BY <1>7, <1>8, <3>2 DEF Touched
        <3>4. QED
            BY <1>2, <1>10, <2>3, <3>1, <3>3, AwayCalling
    <2>4. QED
        BY <2>2, <2>3
<1>20. QED
    BY <1>11, <1>12, <1>13, <1>15, <1>16, <1>17, <1>19 DEF Inv

\* newque: the queue number and the slot are not in use.
LEMMA MsggetInv ==
    ASSUME Inv, NEW p \in Procs, Msgget(p)
    PROVE  Inv'
<1>1. PICK k : k = nqueues
    OBVIOUS
<1>2. /\ nmsgs' = nmsgs /\ hdrs' = hdrs /\ bytes' = bytes /\ freed' = freed /\ ary' = ary
      /\ sem' = sem /\ asleep' = asleep /\ pc' = pc /\ sig' = sig /\ cur' = cur
      /\ snd' = snd /\ linked' = linked /\ taker' = taker /\ rcv' = rcv /\ rmsg' = rmsg
      /\ inmsg' = inmsg
    BY DEF Msgget, msgVars, lockVars, procVars, sndVars, rcvVars
<1>3. /\ nqueues < MaxQueues /\ FreeSlots(ids, ids.size) # {} /\ nqueues' = nqueues + 1
      /\ ids' = ipc_addid(ids, IPC_PRIVATE, k) /\ queue' = [queue EXCEPT ![k] = newque]
    BY <1>1 DEF Msgget
<1>4. ProcTypes /\ queue \in [Queues -> MsgQueue] /\ Table(ids) /\ nqueues \in 0 .. MaxQueues
    BY DEF Inv, QueueTypes
<1>5. k \in Queues /\ nqueues \in Int /\ MaxQueues \in Nat
    BY <1>1, <1>3, <1>4, MsgAssumption DEF Queues
<1>6. k # NULL
    BY <1>5, MsgAssumption
<1>7. PICK l : l = FirstFree(ids, ids.size)
    OBVIOUS
<1>8. /\ Table(ids') /\ ObjAt(ids') = [ObjAt(ids) EXCEPT ![l] = k]
      /\ l \in Slots /\ ObjAt(ids)[l] = NULL
    BY <1>3, <1>4, <1>5, <1>7, AddEffect
<1>9. ObjAt(ids)'[l] = k /\ \A i \in Slots \ {l} : ObjAt(ids)'[i] = ObjAt(ids)[i]
    <2>1. ObjAt(ids)' = [ObjAt(ids) EXCEPT ![l] = k]
        BY <1>8 DEF ObjAt
    <2>2. DOMAIN ObjAt(ids) = Slots
        BY DEF ObjAt
    <2>3. PICK g : g = ObjAt(ids)
        OBVIOUS
    <2>4. DOMAIN g = Slots /\ ObjAt(ids)' = [g EXCEPT ![l] = k]
        BY <2>1, <2>2, <2>3
    <2>5. QED
        BY <1>8, <2>3, <2>4
<1>10. /\ \A i \in Slots : ObjAt(ids)[i] # NULL => ObjAt(ids)[i] < nqueues
       /\ \A i, j \in Slots : ObjAt(ids)[i] # NULL /\ ObjAt(ids)[i] = ObjAt(ids)[j] => i = j
    BY DEF Inv, Slotted
<1>11. \A i \in Slots : ObjAt(ids)[i] # k
    <2>1. ~(nqueues < nqueues)
        BY <1>5
    <2>2. QED
        BY <1>1, <1>6, <1>10, <2>1
<1>12. ~InTable(k)
    BY <1>11 DEF InTable
<1>13. Touched(k) /\ queue'[k] = newque
    BY <1>3, <1>5, NewQueue, TouchedBy
<1>14. /\ queue'[k].messages = <<>> /\ queue'[k].cbytes = 0 /\ queue'[k].qnum = 0
       /\ ToSet(queue'[k].receivers) = {} /\ ToSet(queue'[k].senders) = {}
    BY <1>13, NewQueue, NoElems
<1>15. SameMsgs(queue[k], queue'[k])
    <2>1. queue[k].messages = <<>>
        <3>1. \A x \in Procs : pc[x] = "rmid" => cur[x] < nqueues
            BY CallParts DEF Placed
        <3>2. \A x \in Procs : pc[x] = "rmid" => cur[x] # k
            BY <1>1, <1>5, <3>1
        <3>3. QED
            BY <1>5, <1>12, <3>2 DEF Inv, Owned
    <2>2. Len(queue[k].messages) = queue[k].qnum
          /\ Amount(ToSet(queue[k].messages), queue[k].qnum, queue[k].cbytes)
        BY <1>5 DEF Inv, Counted, CountedAt
    <2>3. Amount({}, queue[k].qnum, queue[k].cbytes)
        BY <2>1, <2>2, NoElems
    <2>4. queue[k].qnum = 0 /\ queue[k].cbytes = 0
        BY <2>3, AmountNone, Zenon DEF Amount
    <2>5. QED
        BY <1>14, <2>1, <2>4 DEF SameMsgs
<1>16. \A j \in Queues : SameMsgs(queue[j], queue'[j])
    BY <1>13, <1>15, SameMsgsSelf DEF Touched
<1>17. ProcTypes'
    BY <1>2, <1>4 DEF ProcTypes
<1>18. QueueTypes' /\ Slotted'
    <2>1. nqueues' \in 0 .. MaxQueues /\ nqueues < nqueues' /\ \A z \in Int : z < nqueues => z < nqueues'
        BY <1>3, <1>4, <1>5
    <2>2. QueueTypes'
        BY <1>8, <1>13, <2>1 DEF QueueTypes, Touched, Table
    <2>3. ASSUME NEW i \in Slots, ObjAt(ids)'[i] # NULL PROVE ObjAt(ids)'[i] < nqueues'
        <3>1. CASE i = l
            BY <1>1, <1>9, <2>1, <3>1
        <3>2. CASE i # l
            <4>1. ObjAt(ids)'[i] = ObjAt(ids)[i] /\ ObjAt(ids)[i] < nqueues
                BY <1>9, <1>10, <2>3, <3>2
            <4>2. ObjAt(ids)[i] \in Int
                <5>1. ids.entries \in [Slots -> Perms \cup {NULL}]
                    BY <1>4, TableParts
                <5>2. ids.entries[i] \in Perms /\ ObjAt(ids)[i] = ids.entries[i].obj
                    BY <2>3, <4>1, <5>1 DEF ObjAt
                <5>3. QED
                    BY <5>2 DEF Perms, Queues
            <4>3. QED
                BY <2>1, <4>1, <4>2
        <3>3. QED
            BY <3>1, <3>2
    <2>4. \A i, j \in Slots : ObjAt(ids)'[i] # NULL /\ ObjAt(ids)'[i] = ObjAt(ids)'[j] => i = j
        BY <1>9, <1>10, <1>11
    <2>5. QED
        BY <2>2, <2>3, <2>4 DEF Slotted
<1>19. \A j \in Queues : InTable(j) => InTable(j)'
    <2>1. ASSUME NEW j \in Queues, InTable(j) PROVE InTable(j)'
        <3>1. j # NULL /\ \E i \in Slots : ObjAt(ids)[i] = j
            BY <2>1 DEF InTable
        <3>2. \E i \in Slots : ObjAt(ids)'[i] = j
            BY <1>8, <1>9, <3>1
        <3>3. QED
            BY <3>1, <3>2 DEF InTable
    <2>2. QED
        BY <2>1
<1>20. Owned'
    BY <1>2, <1>16, <1>19 DEF Inv, Owned, SameMsgs
<1>21. Counted'
    BY <1>2, <1>16, CountedSame
<1>22. Conserved'
    <2>1. \A x \in Procs : /\ SenderHas(x)' = SenderHas(x) /\ HandedHas(x)' = HandedHas(x)
                           /\ CopiedHas(x)' = CopiedHas(x)
        BY <1>2 DEF SenderHas, HandedHas, CopiedHas
    <2>2. QED
        BY <1>2, <1>16, <2>1, ConservedSame
<1>23. SlotsKept
    <2>1. nqueues' \in Int /\ nqueues <= nqueues'
        BY <1>3, <1>5
    <2>2. QED
        BY <1>1, <1>5, <1>9, <2>1 DEF SlotsKept
<1>24. TableKept(k)
    BY <1>8, <1>9 DEF TableKept
<1>25. ASSUME NEW x \in Procs PROVE Calling(x)'
    <2>1. x \notin Receivers(k) /\ x \notin Senders(k)
        BY <1>5, <1>12, NoWaiters
    <2>2. Same(x)
        BY <1>2 DEF Same
    <2>3. Told(x, k, {})
        BY <1>2, <1>14, <2>1 DEF Told
    <2>4. Unlinked(x, k, {})
        <3>1. linked'[x] = linked[x] /\ linked[x] \in BOOLEAN
            BY <1>2, CallParts
        <3>2. QED
            BY <1>14, <2>1, <3>1 DEF Unlinked
    <2>5. QED
        BY <1>2, <1>5, <1>13, <1>23, <1>24, <2>2, <2>3, <2>4, OtherCalling
<1>26. QED
    BY <1>17, <1>18, <1>20, <1>21, <1>22, <1>25 DEF Inv

(***************************************************************************)
(* The invariant.                                                          *)
(***************************************************************************)
LEMMA InitInv == Init => Inv
<1> SUFFICES ASSUME Init PROVE Inv
    OBVIOUS
<1>1. /\ ids = ipc_init_ids(IPCMNI) /\ queue = [k \in Queues |-> newque] /\ nqueues = 0
      /\ nmsgs = 0 /\ hdrs = 0 /\ bytes = 0 /\ sem = NULL /\ ary = NULL
      /\ asleep = {} /\ sig = {} /\ freed = {}
    BY DEF Init
<1>2. /\ pc = [p \in Procs |-> "idle"] /\ cur = [p \in Procs |-> NULL]
      /\ snd = [p \in Procs |-> NoSnd] /\ linked = [p \in Procs |-> FALSE]
      /\ rcv = [p \in Procs |-> NoRcv] /\ rmsg = [p \in Procs |-> EAGAIN]
      /\ inmsg = [p \in Procs |-> NULL] /\ taker = [p \in Procs |-> NULL]
    BY DEF Init
<1>3. Table(ids) /\ \A i \in Slots : ids.entries[i] = NULL
    <2>1. Smaller(IPCMNI, IPCMNI) = IPCMNI /\ 0 \in 0 .. SeqMax
        BY UtilAssumption DEF Smaller
    <2>2. ids = [size |-> IPCMNI, in_use |-> 0, max_id |-> -1, seq |-> 0,
                 entries |-> [i \in Slots |-> NULL]]
        BY <1>1, <2>1 DEF ipc_init_ids, Slots
    <2>3. [i \in Slots |-> NULL] \in [Slots -> Perms \cup {NULL}]
        OBVIOUS
    <2>4. ids \in [size : {IPCMNI}, in_use : {0}, max_id : {-1}, seq : 0 .. SeqMax,
                   entries : [Slots -> Perms \cup {NULL}]]
        BY <2>1, <2>2, <2>3
    <2>5. QED
        BY <2>2, <2>4 DEF Table
<1>4. \A i \in Slots : ObjAt(ids)[i] = NULL
    BY <1>3 DEF ObjAt
<1>5. QueueTypes
    BY <1>1, <1>3, NewQueue, MsgAssumption DEF QueueTypes
<1>6. ProcTypes
    <2>1. nmsgs \in 0 .. MaxMsgs /\ hdrs \in Int /\ bytes \in Int
        BY <1>1, MsgAssumption
    <2>2. QED
        BY <1>1, <1>2, <2>1, NoArgs, Kinds DEF ProcTypes, PCs
<1>7. Slotted
    BY <1>4 DEF Slotted
<1>8. \A k \in Queues : /\ queue[k].messages = <<>> /\ queue[k].qnum = 0 /\ queue[k].cbytes = 0
                        /\ ToSet(queue[k].messages) = {}
                        /\ ToSet(queue[k].receivers) = {} /\ ToSet(queue[k].senders) = {}
    BY <1>1, NewQueue, NoElems
<1>9. Owned
    BY <1>8 DEF Owned
<1>10. Conserved
    <2>1. \A x \in Spots : Held[x] = {}
        <3>1. \A p \in Procs : SenderHas(p) = {} /\ HandedHas(p) = {} /\ CopiedHas(p) = {}
            BY <1>2, Kinds DEF SenderHas, HandedHas, CopiedHas
        <3>2. \A k \in Queues : IdsOf(queue[k].messages) = {}
            BY <1>8 DEF IdsOf
        <3>3. QED
            BY <1>1, <3>1, <3>2, SpotsAre, HeldIs
    <2>2. 0 .. nmsgs - 1 = {}
        BY <1>1
    <2>3. OneSpot(Held, 0 .. nmsgs - 1)
        BY <2>1, <2>2 DEF OneSpot
    <2>4. \A k \in Queues : DistinctIds(queue[k].messages)
        BY <1>8 DEF DistinctIds
    <2>5. QED
        BY <2>3, <2>4 DEF Conserved
<1>11. Counted
    <2>1. \A k \in Queues : CountedAt(queue[k])
        <3>1. Len(<<>>) = 0
            OBVIOUS
        <3>2. QED
            BY <1>8, <3>1, AmountNone DEF CountedAt
    <2>2. On(Queues) = {}
        BY <1>8 DEF On
    <2>3. QED
        BY <1>1, <2>1, <2>2, AmountNone DEF Counted
<1>12. ASSUME NEW p \in Procs PROVE Calling(p)
    <2>1. /\ pc[p] = "idle" /\ rmsg[p] = EAGAIN /\ inmsg[p] = NULL /\ linked[p] = FALSE
          /\ p \notin asleep
        BY <1>1, <1>2
    <2>2. ~Waits(p)
        BY <2>1 DEF Waits, RcvPlaces
    <2>3. Receiving(p)
        BY <1>8, <2>1, <2>2 DEF Receiving, Receivers
    <2>4. Sending(p)
        BY <1>8, <2>1 DEF Sending, Senders
    <2>5. Placed(p)
        BY <2>1 DEF Placed
    <2>6. QED
        BY <2>3, <2>4, <2>5 DEF Calling
<1>13. QED
    BY <1>5, <1>6, <1>7, <1>9, <1>10, <1>11, <1>12 DEF Inv

\* A step that changes nothing keeps the invariant ...
LEMMA StutterInv == Inv /\ UNCHANGED vars => Inv'
<1> SUFFICES ASSUME Inv, UNCHANGED vars PROVE Inv'
    OBVIOUS
<1>1. /\ queue' = queue /\ Settled /\ asleep' = asleep /\ sig' = sig
      /\ ary' = ary /\ pc' = pc /\ cur' = cur /\ nmsgs' = nmsgs /\ hdrs' = hdrs /\ bytes' = bytes
      /\ freed' = freed /\ snd' = snd /\ linked' = linked /\ taker' = taker
      /\ rcv' = rcv /\ rmsg' = rmsg /\ inmsg' = inmsg
    BY DEF vars, Settled, queueVars, msgVars, lockVars, sndVars, rcvVars, procVars
<1>2. ProcTypes'
    BY <1>1 DEF Inv, ProcTypes, Settled
<1>3. queue' \in [Queues -> MsgQueue]
    BY <1>1 DEF Inv, QueueTypes
<1>4. MsgsStay
    BY <1>1, <1>3, SameMsgsSelf DEF MsgsStay, SenderHas, HandedHas, CopiedHas
<1>5. ASSUME NEW x \in Procs PROVE Calling(x)'
    <2>1. Same(x)
        BY <1>1 DEF Same
    <2>2. QED
        BY <1>1, <2>1, OtherUnchanged
<1>6. QED
    BY <1>1, <1>2, <1>4, <1>5, StayInv

\* ... and so does every step of the system.
LEMMA NextInv == Inv /\ Next => Inv'
<1> SUFFICES ASSUME Inv, NEW p \in Procs, Calls(p) \/ Steps(p) \/ Signal(p) PROVE Inv'
    BY DEF Next
<1>1. CASE Calls(p)
    <2>1. CASE Msgget(p)
        BY <2>1, MsggetInv
    <2>2. ASSUME NEW id \in Issued, NEW t \in Types, NEW n \in Sizes, NEW w \in BOOLEAN,
                 Msgsnd(p, id, t, n, w)
          PROVE  Inv'
        BY <2>2, IssuedIds, MsgsndInv
    <2>3. ASSUME NEW id \in Issued, NEW t \in RcvTypes, NEW n \in RcvSizes, NEW f \in RcvFlags,
                 Msgrcv(p, id, t, n, f)
          PROVE  Inv'
        BY <2>3, IssuedIds, MsgrcvInv
    <2>4. ASSUME NEW id \in Issued, NEW b \in QBytes, NEW r \in PermSets, NEW w \in PermSets,
                 MsgctlSet(p, id, b, r, w)
          PROVE  Inv'
        BY <2>4, IssuedIds, MsgctlSetInv
    <2>5. ASSUME NEW id \in Issued, MsgctlRmid(p, id) PROVE Inv'
        BY <2>5, IssuedIds, MsgctlRmidInv
    <2>6. QED
        BY <1>1, <2>1, <2>2, <2>3, <2>4, <2>5 DEF Calls
<1>2. CASE Steps(p)
    BY <1>2, SndAgainInv, WakeInv, CheckInv, RcvAgainInv, CopyOutInv, RmidFreeInv DEF Steps
<1>3. CASE Signal(p)
    BY <1>3, SignalInv
<1>4. QED
    BY <1>1, <1>2, <1>3

\* The invariant holds in every reachable state of ipc/msg.c, whichever calls,
\* signals, hand-overs and removals come together.
THEOREM Invariance == Spec => []Inv
<1>1. Inv /\ [Next]_vars => Inv'
    BY NextInv, StutterInv
<1>2. QED
    BY <1>1, InitInv, PTL DEF Spec

(***************************************************************************)
(* What the invariant implies.                                             *)
(***************************************************************************)
LEMMA LiveInQueues == ASSUME Table(ids) PROVE LiveQueues \subseteq Queues
<1>1. ids.entries \in [Slots -> Perms \cup {NULL}]
    BY TableParts
<1>2. \A e \in Perms : e.obj \in Queues
    BY DEF Perms
<1>3. QED
    BY <1>1, <1>2 DEF LiveQueues, Live

\* The places of a message, spot by spot.
LEMMA PlaceIs ==
    ASSUME Inv, NEW m, NEW y
    PROVE  y \in Places(m) <=>
             \/ \E p \in Procs : y = <<"sender", p>> /\ m \in SenderHas(p)
             \/ \E k \in Queues : \E i \in DOMAIN queue[k].messages :
                    y = <<"queue", k, i>> /\ queue[k].messages[i].id = m
             \/ \E p \in Procs : y = <<"handed", p>> /\ m \in HandedHas(p)
             \/ \E p \in Procs : y = <<"copied", p>> /\ m \in CopiedHas(p)
             \/ y = <<"freed">> /\ m \in freed
<1> DEFINE A == {<<"sender", p>> : p \in {q \in Procs : pc[q] = "snd_sleep" /\ snd[q].msg.id = m}}
           B == UNION {{<<"queue", k, i>> : i \in
                   {j \in DOMAIN queue[k].messages : queue[k].messages[j].id = m}} : k \in Queues}
           C == {<<"handed", p>> : p \in {q \in Procs : rmsg[q] \notin Errors /\ rmsg[q].id = m}}
           D == {<<"copied", p>> : p \in {q \in Procs : inmsg[q] # NULL /\ inmsg[q].id = m}}
           E == IF m \in freed THEN {<<"freed">>} ELSE {}
<1>1. y \in A <=> \E p \in Procs : y = <<"sender", p>> /\ m \in SenderHas(p)
    BY DEF SenderHas
<1>2. y \in B <=> \E k \in Queues : \E i \in DOMAIN queue[k].messages :
                      y = <<"queue", k, i>> /\ queue[k].messages[i].id = m
    <2> DEFINE At(k) == {j \in DOMAIN queue[k].messages : queue[k].messages[j].id = m}
               Bk(k) == {<<"queue", k, i>> : i \in At(k)}
    <2>1. y \in B <=> \E k \in Queues : y \in Bk(k)
        OBVIOUS
    <2>2. ASSUME NEW k PROVE y \in Bk(k) <=> \E i \in At(k) : y = <<"queue", k, i>>
        OBVIOUS
    <2>3. ASSUME NEW k, NEW i
          PROVE  i \in At(k) <=> i \in DOMAIN queue[k].messages /\ queue[k].messages[i].id = m
        OBVIOUS
    <2> HIDE DEF At, Bk, B
    <2>4. QED
        BY <2>1, <2>2, <2>3
<1>3. y \in C <=> \E p \in Procs : y = <<"handed", p>> /\ m \in HandedHas(p)
    BY DEF HandedHas
<1>4. y \in D <=> \E p \in Procs : y = <<"copied", p>> /\ m \in CopiedHas(p)
    BY DEF CopiedHas
<1>5. y \in E <=> y = <<"freed">> /\ m \in freed
    OBVIOUS
<1>6. y \in Places(m) <=> y \in A \/ y \in B \/ y \in C \/ y \in D \/ y \in E
    <2>1. Places(m) = A \cup B \cup C \cup D \cup E
        BY DEF Places
    <2> HIDE DEF A, B, C, D, E
    <2>2. QED
        BY <2>1
<1>7. QED
    BY <1>1, <1>2, <1>3, <1>4, <1>5, <1>6, Zenon

\* A message that was loaded has one place.
LEMMA OnePlace == ASSUME Inv, NEW m \in 0 .. nmsgs - 1 PROVE \E x : Places(m) = {x}
<1>1. PICK x \in Spots : m \in Held[x]
    BY DEF Inv, Conserved, OneSpot
<1>2. ASSUME NEW y \in Spots, m \in Held[y] PROVE y = x
    BY <1>1, <1>2 DEF Inv, Conserved, OneSpot
<1>3. ASSUME NEW p \in Procs
      PROVE  /\ m \in SenderHas(p) <=> x = <<"sender", p>>
             /\ m \in HandedHas(p) <=> x = <<"handed", p>>
             /\ m \in CopiedHas(p) <=> x = <<"copied", p>>
    BY <1>1, <1>2, HeldIs
<1>4. ASSUME NEW k \in Queues PROVE m \in IdsOf(queue[k].messages) <=> x = <<"queue", k>>
    BY <1>1, <1>2, HeldIs
<1>5. m \in freed <=> x = <<"freed", 0>>
    BY <1>1, <1>2, HeldIs
<1>6. ASSUME NEW k \in Queues, NEW i \in DOMAIN queue[k].messages, queue[k].messages[i].id = m
      PROVE  x = <<"queue", k>>
    BY <1>4, <1>6 DEF IdsOf
<1>7. CASE x = <<"freed", 0>>
    <2>1. /\ \A r \in Procs : m \notin SenderHas(r)
          /\ \A r \in Procs : m \notin HandedHas(r)
          /\ \A r \in Procs : m \notin CopiedHas(r)
          /\ \A k \in Queues : \A i \in DOMAIN queue[k].messages : queue[k].messages[i].id # m
          /\ m \in freed
        BY <1>3, <1>5, <1>6, <1>7, SpotsDiffer
    <2>2. PICK z : z = <<"freed">>
        OBVIOUS
    <2>3. \A y : y \in Places(m) <=> y = z
        BY <2>2, <2>1, PlaceIs, Zenon
    <2>4. Places(m) = {z}
        BY <2>3
    <2>5. QED
        BY <2>4
<1>8. ASSUME NEW p \in Procs, x = <<"sender", p>> PROVE \E z : Places(m) = {z}
    <2>1. /\ \A r \in Procs : m \in SenderHas(r) <=> r = p
          /\ \A r \in Procs : m \notin HandedHas(r)
          /\ \A r \in Procs : m \notin CopiedHas(r)
          /\ \A k \in Queues : \A i \in DOMAIN queue[k].messages : queue[k].messages[i].id # m
          /\ m \notin freed
        <3>1. \A r : <<"sender", r>> = <<"sender", p>> <=> r = p
            OBVIOUS
        <3>2. \A r \in Procs : m \in SenderHas(r) <=> r = p
            BY <1>3, <1>8, <3>1
        <3>3. QED
            BY <1>3, <1>5, <1>6, <1>8, <3>2, SpotsDiffer
    <2>2. PICK z : z = <<"sender", p>>
        OBVIOUS
    <2>3. \A y : y \in Places(m) <=> y = z
        <3>1. ASSUME NEW y, y \in Places(m) PROVE y = z
            <4>1. PICK r \in Procs : y = <<"sender", r>> /\ m \in SenderHas(r)
                <5>1. /\ \A q \in Procs : ~(y = <<"handed", q>> /\ m \in HandedHas(q))
                      /\ \A q \in Procs : ~(y = <<"copied", q>> /\ m \in CopiedHas(q))
                      /\ ~(y = <<"freed">> /\ m \in freed)
                      /\ \A k \in Queues : \A i \in DOMAIN queue[k].messages :
                            ~(y = <<"queue", k, i>> /\ queue[k].messages[i].id = m)
                    BY <2>1, Zenon
                <5>2. QED
                    BY <3>1, <5>1, PlaceIs, Zenon
            <4>2. QED
                BY <2>1, <2>2, <4>1
        <3>2. m \in SenderHas(p)
            BY <2>1
        <3>3. z \in Places(m)
            BY <2>2, <3>2, PlaceIs, Zenon
        <3>4. QED
            BY <3>1, <3>3
    <2>4. Places(m) = {z}
        BY <2>3
    <2>5. QED
        BY <2>4
<1>9. ASSUME NEW p \in Procs, x = <<"handed", p>> PROVE \E z : Places(m) = {z}
    <2>1. /\ \A r \in Procs : m \notin SenderHas(r)
          /\ \A r \in Procs : m \in HandedHas(r) <=> r = p
          /\ \A r \in Procs : m \notin CopiedHas(r)
          /\ \A k \in Queues : \A i \in DOMAIN queue[k].messages : queue[k].messages[i].id # m
          /\ m \notin freed
        BY <1>3, <1>5, <1>6, <1>9, SpotsDiffer
    <2>2. PICK z : z = <<"handed", p>>
        OBVIOUS
    <2>3. \A y : y \in Places(m) <=> y = z
        BY <2>2, <2>1, PlaceIs, Zenon
    <2>4. Places(m) = {z}
        BY <2>3
    <2>5. QED
        BY <2>4
<1>10. ASSUME NEW p \in Procs, x = <<"copied", p>> PROVE \E z : Places(m) = {z}
    <2>1. /\ \A r \in Procs : m \notin SenderHas(r)
          /\ \A r \in Procs : m \notin HandedHas(r)
          /\ \A r \in Procs : m \in CopiedHas(r) <=> r = p
          /\ \A k \in Queues : \A i \in DOMAIN queue[k].messages : queue[k].messages[i].id # m
          /\ m \notin freed
        BY <1>3, <1>5, <1>6, <1>10, SpotsDiffer
    <2>2. PICK z : z = <<"copied", p>>
        OBVIOUS
    <2>3. \A y : y \in Places(m) <=> y = z
        BY <2>2, <2>1, PlaceIs, Zenon
    <2>4. Places(m) = {z}
        BY <2>3
    <2>5. QED
        BY <2>4
<1>11. ASSUME NEW k \in Queues, x = <<"queue", k>> PROVE \E z : Places(m) = {z}
    <2>1. PICK i \in DOMAIN queue[k].messages : queue[k].messages[i].id = m
        BY <1>4, <1>11 DEF IdsOf
    <2>2. \A j \in DOMAIN queue[k].messages : queue[k].messages[j].id = m => j = i
        BY <2>1 DEF Inv, Conserved, DistinctIds
    <2>3. ASSUME NEW j \in Queues, NEW n \in DOMAIN queue[j].messages, queue[j].messages[n].id = m
          PROVE  j = k /\ n = i
        <3>1. <<"queue", j>> = <<"queue", k>>
            BY <1>6, <1>11, <2>3
        <3>2. QED
            BY <2>2, <2>3, <3>1
    <2>4. /\ \A r \in Procs : m \notin SenderHas(r) /\ m \notin HandedHas(r) /\ m \notin CopiedHas(r)
          /\ m \notin freed
        BY <1>3, <1>5, <1>11, SpotsDiffer
    <2>5. PICK z : z = <<"queue", k, i>>
        OBVIOUS
    <2>6. \A y : y \in Places(m) <=> y = z
        BY <2>5, <2>1, <2>3, <2>4, PlaceIs, Zenon
    <2>7. Places(m) = {z}
        BY <2>6
    <2>8. QED
        BY <2>7
<1>12. QED
    BY <1>7, <1>8, <1>9, <1>10, <1>11, SpotsAre

\* Every message msgsnd has loaded is in exactly one place, until it is freed and
\* after: with its sender, on a queue, in the r_msg of a receiver or copied out.
THEOREM ConservedTheorem == Spec => []MessageConserved
<1>1. Inv => MessageConserved
    BY OnePlace, FS_Singleton DEF MessageConserved
<1>2. QED
    BY <1>1, Invariance, PTL

\* No message that a listed receiver could take is on its queue: pipelined_send
\* hands every message over or finds that no receiver wants it.
THEOREM NoMissedMessageTheorem == Spec => []NoMissedMessage
<1>1. Inv => NoMissedMessage
    <2> SUFFICES ASSUME Inv, NEW k \in LiveQueues, NEW r \in ToSet(queue[k].receivers)
                 PROVE  /\ rmsg[r] = EAGAIN
                        /\ FindMsg(queue[k].messages, rcv[r].type, rcv[r].mode) = 0
        BY DEF NoMissedMessage
    <2>1. k \in Queues
        BY LiveInQueues DEF Inv, QueueTypes
    <2>2. queue[k].receivers \in Seq(Procs)
        BY <2>1, QueueFields DEF Inv, QueueTypes
    <2>3. r \in Procs /\ r \in Receivers(k)
        BY <2>2 DEF ToSet, Receivers
    <2>4. QED
        BY <2>1, <2>3, ListedReceiver
<1>2. QED
    BY <1>1, Invariance, PTL

\* A sender that sleeps has no room on its queue, which is still in the table:
\* ss_wakeup follows everything that makes room, and removes no sleeper.
THEOREM NoMissedRoomTheorem == Spec => []NoMissedRoom
<1>1. Inv => NoMissedRoom
    <2> SUFFICES ASSUME Inv, NEW p \in asleep, pc[p] = "snd_sleep"
                 PROVE  cur[p] \in LiveQueues /\ Full(queue[cur[p]], snd[p].msg)
        BY DEF NoMissedRoom
    <2>1. p \in Procs /\ Table(ids)
        BY DEF Inv, ProcTypes, QueueTypes
    <2>2. Sending(p) /\ snd[p].msqid \in MsqIds /\ cur[p] \in Queues \cup {NULL}
        BY <2>1, CallParts DEF Inv, ProcTypes
    <2>3. Names(snd[p].msqid, cur[p]) /\ Full(queue[cur[p]], snd[p].msg)
        BY <2>2 DEF Sending
    <2>4. cur[p] \in Queues /\ InTable(cur[p])
        BY <2>2, <2>3, NamesInTable DEF Names
    <2>5. QED
        BY <2>1, <2>3, <2>4, LiveIs
<1>2. QED
    BY <1>1, Invariance, PTL

\* A receiver that sleeps on may read its queue: IPC_SET wakes those it excludes.
THEOREM SleepersPermittedTheorem == Spec => []SleepersPermitted
<1>1. Inv => SleepersPermitted
    <2> SUFFICES ASSUME Inv, NEW p \in asleep, pc[p] = "rcv_sleep", rmsg[p] = EAGAIN
                 PROVE  p \in queue[cur[p]].readers
        BY DEF SleepersPermitted
    <2>1. p \in Procs
        BY DEF Inv, ProcTypes
    <2>2. Receiving(p)
        BY <2>1, CallParts
    <2>3. Waits(p)
        BY DEF Waits, RcvPlaces
    <2>4. QED
        BY <2>2, <2>3 DEF Receiving
<1>2. QED
    BY <1>1, Invariance, PTL

\* The retry of msgrcv finds the queue it slept on, under its own identifier, and
\* itself on the list: the BUG() of msgrcv is not reached.
THEOREM RetryOnLiveQueueTheorem == Spec => []RetryOnLiveQueue
<1>1. Inv => RetryOnLiveQueue
    <2> SUFFICES ASSUME Inv, NEW p \in Procs, pc[p] \in RcvPlaces, rmsg[p] = EAGAIN
                 PROVE  /\ cur[p] \in LiveQueues
                        /\ Found(rcv[p].msqid) /\ QueueOf(rcv[p].msqid) = cur[p]
                        /\ p \in ToSet(queue[cur[p]].receivers)
        BY DEF RetryOnLiveQueue, RcvPlaces
    <2>1. Table(ids)
        BY DEF Inv, QueueTypes
    <2>2. Receiving(p) /\ rcv[p].msqid \in MsqIds /\ cur[p] \in Queues \cup {NULL}
        BY CallParts DEF Inv, ProcTypes
    <2>3. Waits(p)
        BY DEF Waits
    <2>4. Names(rcv[p].msqid, cur[p])
        BY <2>2, <2>3 DEF Receiving
    <2>5. cur[p] \in Queues /\ InTable(cur[p])
        BY <2>2, <2>4, NamesInTable DEF Names
    <2>6. p \in Receivers(cur[p])
        BY <2>2, <2>3, <2>5 DEF Receiving
    <2>7. QED
        BY <2>1, <2>2, <2>4, <2>5, <2>6, Lookup, LiveIs DEF Receivers
<1>2. QED
    BY <1>1, Invariance, PTL

\* q_qnum and q_cbytes describe the messages of their queue, and msg_hdrs and
\* msg_bytes those of all queues while nobody is inside msg_ids.sem.
THEOREM AccountingTheorem == Spec => []Accounting
<1>1. Inv => Accounting
    <2> SUFFICES ASSUME Inv PROVE Accounting
        OBVIOUS
    <2>1. Table(ids) /\ LiveQueues \subseteq Queues
        BY LiveInQueues DEF Inv, QueueTypes
    <2>2. ASSUME NEW k \in LiveQueues
          PROVE  /\ queue[k].qnum = Len(queue[k].messages)
                 /\ queue[k].cbytes = Cardinality(Bytes(On({k})))
        <3>1. CountedAt(queue[k])
            BY <2>1 DEF Inv, Counted
        <3>2. On({k}) = ToSet(queue[k].messages)
            BY DEF On
        <3>3. QED
            BY <3>1, <3>2 DEF CountedAt, Amount
    <2>3. ASSUME sem = NULL PROVE On(LiveQueues) = On(Queues)
        <3>1. ASSUME NEW k \in Queues, k \notin LiveQueues PROVE ToSet(queue[k].messages) = {}
            <4>1. ~InTable(k)
                BY <2>1, <3>1, LiveIs
            <4>2. queue[k].messages = <<>>
                BY <2>3, <4>1, NoRemover DEF Inv, Owned
            <4>3. QED
                BY <4>2, NoElems
        <3>2. QED
            BY <2>1, <3>1 DEF On
    <2>4. Amount(On(Queues), hdrs, bytes)
        BY DEF Inv, Counted
    <2>5. QED
        BY <2>2, <2>3, <2>4 DEF Accounting, Amount
<1>2. QED
    BY <1>1, Invariance, PTL

(***************************************************************************)
(* The order in which messages leave a queue. In a step a process is told  *)
(* an error or nothing and keeps, takes over or drops its message, or is   *)
(* handed a message from the list, or finds one on a queue.                *)
(***************************************************************************)
Kept(x) ==
    /\ rmsg'[x] \in Errors \cup {rmsg[x]}
    /\ inmsg'[x] \in {inmsg[x], NULL, rmsg[x]}
Handed(x) ==
    /\ \E k \in Queues : x \in Receivers(k)
    /\ rmsg'[x] \in Message /\ testmsg(rmsg'[x], rcv[x].type, rcv[x].mode)
    /\ inmsg'[x] = inmsg[x]
Fetched(x) ==
    \E k \in Queues, type \in Int, mode \in SearchModes :
        LET pos == FindMsg(queue[k].messages, type, mode)
        IN  pos # 0 /\ inmsg'[x] = queue[k].messages[pos] /\ rmsg'[x] \in Errors
Orderly(x) == Kept(x) \/ Handed(x) \/ Fetched(x)

\* pipelined_send picks a receiver whose search the message matches.
LEMMA TakerMatches ==
    ASSUME NEW q \in MsgQueue, NEW m, CanTake(q, m) # {}, NEW r, r = q.receivers[FirstTaker(q, m)]
    PROVE  r \in ToSet(q.receivers) /\ testmsg(m, rcv[r].type, rcv[r].mode)
<1>1. DOMAIN q.receivers = 1 .. Len(q.receivers) /\ Len(q.receivers) \in Nat
    BY QueueFields
<1>2. CanTake(q, m) \subseteq DOMAIN q.receivers
    BY DEF CanTake, Matching
<1>3. CanTake(q, m) \in SUBSET Nat
    BY <1>1, <1>2
<1>4. \E i \in CanTake(q, m) : \A j \in CanTake(q, m) : i <= j
    BY <1>3, LeastNumber
<1>5. FirstTaker(q, m) \in CanTake(q, m)
    BY <1>4, Zenon DEF FirstTaker
<1>6. r \in ToSet(q.receivers)
    BY <1>2, <1>5 DEF ToSet
<1>7. QED
    BY <1>5, <1>6 DEF CanTake, Matching

\* q is the msg_queue of k, apart from who is linked to it.
View(k, q) ==
    /\ k \in Queues /\ q \in MsgQueue /\ q.messages = queue[k].messages
    /\ ToSet(q.receivers) \subseteq Receivers(k)

\* The body of msgsnd is orderly for every process x ...
LEMMA SndTryOrder ==
    ASSUME Inv, NEW p \in Procs, NEW k, NEW q, NEW args, SndTry(p, k, q, args),
           View(k, q), args.msg \in Message, NEW x \in Procs
    PROVE  Orderly(x)
<1>1. PICK small : small = TooSmall(q, args.msg)
    OBVIOUS
<1>2. E2BIG \in Errors
    BY Kinds
<1>3. CASE rcvVars' = rcvVars
    BY <1>3 DEF Orderly, Kept, rcvVars
<1>4. CASE /\ CanTake(q, args.msg) # {}
           /\ SndHand(p, k, q, args, q.receivers[FirstTaker(q, args.msg)], small)
    <2>1. PICK r : r = q.receivers[FirstTaker(q, args.msg)]
        OBVIOUS
    <2>2. r \in ToSet(q.receivers) /\ testmsg(args.msg, rcv[r].type, rcv[r].mode)
        BY <1>4, <2>1, TakerMatches DEF View
    <2>3. /\ inmsg' = inmsg
          /\ rmsg' = [y \in Procs |-> IF y = r THEN args.msg
                                      ELSE IF y \in small THEN E2BIG ELSE rmsg[y]]
        BY <1>4, <2>1 DEF SndHand
    <2>4. CASE x = r
        <3>1. rmsg'[x] = args.msg
            BY <2>3, <2>4
        <3>2. k \in Queues /\ x \in Receivers(k)
            BY <2>2, <2>4 DEF View
        <3>3. Handed(x)
            BY <2>2, <2>3, <2>4, <3>1, <3>2 DEF Handed
        <3>4. QED
            BY <3>3 DEF Orderly
    <2>5. CASE x # r
        BY <1>2, <2>3, <2>5 DEF Orderly, Kept
    <2>6. QED
        BY <2>4, <2>5
<1>5. CASE SndPut(p, k, q, args, small)
    BY <1>2, <1>5 DEF Orderly, Kept, SndPut
<1>6. QED
    BY <1>1, <1>3, <1>4, <1>5 DEF SndTry, SndFail, SndHand, SndPut, rcvVars

\* ... and so are a failing msgrcv ...
LEMMA RcvFailOrder ==
    ASSUME Inv, NEW p \in Procs, RcvFail(p), NEW x \in Procs
    PROVE  Orderly(x)
<1>1. rmsg' = [rmsg EXCEPT ![p] = EAGAIN] /\ inmsg' = inmsg
    BY DEF RcvFail
<1>2. rmsg \in [Procs -> Message \cup Errors] /\ EAGAIN \in Errors
    BY Kinds DEF Inv, ProcTypes
<1>3. QED
    BY <1>1, <1>2 DEF Orderly, Kept

\* ... its out_success ...
LEMMA TakeOrder ==
    ASSUME Inv, NEW p \in Procs, RcvTake(p), NEW x \in Procs
    PROVE  Orderly(x)
<1>1. rmsg' = [rmsg EXCEPT ![p] = EAGAIN] /\ inmsg' = [inmsg EXCEPT ![p] = rmsg[p]]
    BY DEF RcvTake
<1>2. /\ rmsg \in [Procs -> Message \cup Errors] /\ EAGAIN \in Errors
      /\ inmsg \in [Procs -> Message \cup {NULL}]
    BY Kinds DEF Inv, ProcTypes
<1>3. QED
    BY <1>1, <1>2 DEF Orderly, Kept

\* ... and its body under the lock.
LEMMA RcvTryOrder ==
    ASSUME Inv, NEW p \in Procs, NEW k, NEW q, NEW args, RcvTry(p, k, q, args),
           View(k, q), args.type \in Int, args.mode \in SearchModes, NEW x \in Procs
    PROVE  Orderly(x)
<1>1. PICK pos : pos = FindMsg(q.messages, args.type, args.mode)
    OBVIOUS
<1>2. /\ rmsg \in [Procs -> Message \cup Errors] /\ EAGAIN \in Errors
      /\ inmsg \in [Procs -> Message \cup {NULL}]
    BY Kinds DEF Inv, ProcTypes
<1>3. CASE RcvFail(p)
    BY <1>3, RcvFailOrder
<1>4. CASE pos # 0 /\ RcvGet(p, k, q, pos)
    <2>1. rmsg' = [rmsg EXCEPT ![p] = EAGAIN] /\ inmsg' = [inmsg EXCEPT ![p] = q.messages[pos]]
        BY <1>4 DEF RcvGet
    <2>2. CASE x = p
        <3>1. rmsg'[x] \in Errors /\ inmsg'[x] = q.messages[pos]
            BY <1>2, <2>1, <2>2
        <3>2. Fetched(x)
            BY <1>1, <1>4, <3>1 DEF Fetched, View
        <3>3. QED
            BY <3>2 DEF Orderly
    <2>3. CASE x # p
        BY <1>2, <2>1, <2>3 DEF Orderly, Kept
    <2>4. QED
        BY <2>2, <2>3
<1>5. CASE RcvSleep(p, k, q, args)
    BY <1>2, <1>5 DEF Orderly, Kept, RcvSleep
<1>6. QED
    BY <1>1, <1>3, <1>4, <1>5 DEF RcvTry, RcvGet, RcvSleep

\* Every step of a sender up to the hand-over is orderly ...
LEMMA SendsOrder ==
    ASSUME Inv, NEW p \in Procs, NEW x \in Procs,
           SndAgain(p) \/ \E id \in MsqIds, t \in Types, n \in Sizes, w \in BOOLEAN :
                              Msgsnd(p, id, t, n, w)
    PROVE  Orderly(x)
<1>1. queue \in [Queues -> MsgQueue] /\ Table(ids)
    BY DEF Inv, QueueTypes
<1>2. ASSUME NEW args, SndFail(p, args) PROVE Orderly(x)
    BY <1>2 DEF SndFail, Orderly, Kept, rcvVars
<1>3. ASSUME NEW id \in MsqIds, NEW t \in Types, NEW n \in Sizes, NEW w \in BOOLEAN,
             Msgsnd(p, id, t, n, w)
      PROVE  Orderly(x)
    <2>1. PICK args : args = [msqid |-> id, nowait |-> w, msg |-> load_msg(t, n)]
        OBVIOUS
    <2>2. nmsgs \in 0 .. MaxMsgs - 1
        BY <1>3, MsgAssumption DEF Msgsnd, Inv, ProcTypes
    <2>3. args.msg \in Message
        BY <2>1, <2>2 DEF load_msg, Message
    <2>4. \/ Found(id) /\ SndTry(p, QueueOf(id), queue[QueueOf(id)], args)
          \/ SndFail(p, args)
        BY <1>3, <2>1 DEF Msgsnd
    <2>5. ASSUME Found(id) PROVE View(QueueOf(id), queue[QueueOf(id)])
        BY <1>1, <2>5, Lookup DEF View, Receivers
    <2>6. QED
        BY <1>2, <2>3, <2>4, <2>5, SndTryOrder
<1>4. CASE SndAgain(p)
    <2>1. PICK id : id = snd[p].msqid
        OBVIOUS
    <2>2. pc[p] = "snd_sleep" /\ id \in MsqIds /\ snd[p].msg \in Message
        <3>1. Sending(p) /\ snd[p] \in SndArgs
            BY CallParts
        <3>2. pc[p] = "snd_sleep"
            BY <1>4 DEF SndAgain
        <3>3. QED
            BY <2>1, <3>1, <3>2 DEF Sending, SndArgs
    <2>3. PICK k : k = QueueOf(id)
        OBVIOUS
    <2>4. \/ SndFail(p, snd[p])
          \/ Found(id) /\ SndTry(p, k, ss_del(p, queue[k]), snd[p])
        BY <1>4, <2>1, <2>3 DEF SndAgain
    <2>5. ASSUME Found(id) PROVE View(k, ss_del(p, queue[k]))
        <3>1. k \in Queues /\ queue[k] \in MsgQueue
            BY <1>1, <2>2, <2>3, <2>5, Lookup
        <3>2. CASE linked[p]
            <4>1. PICK q : q = [queue[k] EXCEPT !.senders = Without(queue[k].senders, {p})]
                OBVIOUS
            <4>2. q \in MsgQueue /\ SameMsgs(queue[k], q) /\ q.receivers = queue[k].receivers
                BY <3>1, <4>1, LeaveSenders
            <4>3. ss_del(p, queue[k]) = q
                BY <3>2, <4>1 DEF ss_del
            <4>4. QED
                BY <3>1, <4>2, <4>3 DEF View, SameMsgs, Receivers
        <3>3. CASE ~linked[p]
            BY <3>1, <3>3 DEF ss_del, View, Receivers
        <3>4. QED
            BY <3>2, <3>3
    <2>6. QED
        BY <1>2, <2>2, <2>4, <2>5, SndTryOrder
<1>5. QED
    BY <1>3, <1>4

\* ... and every step of a receiver ...
LEMMA ReceivesOrder ==
    ASSUME Inv, NEW p \in Procs, NEW x \in Procs,
           \/ RcvCheck(p) \/ RcvAgain(p) \/ RcvCopyOut(p)
           \/ \E id \in MsqIds, t \in RcvTypes, n \in RcvSizes, f \in RcvFlags :
                  Msgrcv(p, id, t, n, f)
    PROVE  Orderly(x)
<1>1. queue \in [Queues -> MsgQueue] /\ Table(ids)
    BY DEF Inv, QueueTypes
<1>2. ASSUME NEW id \in MsqIds, NEW t \in RcvTypes, NEW n \in RcvSizes, NEW f \in RcvFlags,
             Msgrcv(p, id, t, n, f)
      PROVE  Orderly(x)
    <2>1. PICK args : args = [msqid |-> id, mode |-> convert_mode(t, f.except).mode,
                              type |-> convert_mode(t, f.except).type, size |-> n,
                              nowait |-> f.nowait, noerror |-> f.noerror]
        OBVIOUS
    <2>2. Found(id) /\ RcvTry(p, QueueOf(id), queue[QueueOf(id)], args)
        BY <1>2, <2>1 DEF Msgrcv
    <2>3. t \in Int /\ f.except \in BOOLEAN
        BY MsgAssumption
    <2>4. convert_mode(t, f.except).mode \in SearchModes /\ convert_mode(t, f.except).type \in Int
        BY <2>3 DEF convert_mode, SearchModes
    <2>5. args.type \in Int /\ args.mode \in SearchModes
        BY <2>1, <2>4
    <2>6. View(QueueOf(id), queue[QueueOf(id)])
        BY <1>1, <2>2, Lookup DEF View, Receivers
    <2>7. QED
        BY <2>2, <2>5, <2>6, RcvTryOrder
<1>3. CASE RcvCheck(p)
    <2>1. CASE RcvTake(p)
        BY <2>1, TakeOrder
    <2>2. CASE rcvVars' = rcvVars
        BY <2>2 DEF Orderly, Kept, rcvVars
    <2>3. QED
        BY <1>3, <2>1, <2>2 DEF RcvCheck
<1>4. CASE RcvAgain(p)
    <2>1. PICK q : q = [queue[cur[p]] EXCEPT !.receivers = Without(queue[cur[p]].receivers, {p})]
        OBVIOUS
    <2>2. \/ RcvTake(p) \/ RcvFail(p)
          \/ rmsg[p] = EAGAIN /\ RcvTry(p, cur[p], q, rcv[p])
        BY <1>4, <2>1 DEF RcvAgain
    <2>3. ASSUME rmsg[p] = EAGAIN
          PROVE  View(cur[p], q) /\ rcv[p].type \in Int /\ rcv[p].mode \in SearchModes
        <3>1. pc[p] \in RcvPlaces
            BY <1>4 DEF RcvAgain, RcvPlaces
        <3>2. Receiving(p) /\ rcv[p] \in RcvArgs /\ cur[p] \in Queues \cup {NULL}
            BY CallParts
        <3>3. Names(rcv[p].msqid, cur[p])
            BY <2>3, <3>1, <3>2 DEF Receiving, Waits
        <3>4. cur[p] \in Queues
            BY <3>2, <3>3 DEF Names
        <3>5. queue[cur[p]] \in MsgQueue
            BY <1>1, <3>4
        <3>6. /\ q \in MsgQueue /\ SameMsgs(queue[cur[p]], q)
              /\ ToSet(q.receivers) = ToSet(queue[cur[p]].receivers) \ {p}
            BY <2>1, <3>5, LeaveReceivers
        <3>7. QED
            BY <3>2, <3>4, <3>6 DEF View, SameMsgs, Receivers, RcvArgs
    <2>4. QED
        BY <2>2, <2>3, TakeOrder, RcvFailOrder, RcvTryOrder
<1>5. CASE RcvCopyOut(p)
    <2>1. inmsg \in [Procs -> Message \cup {NULL}]
        BY DEF Inv, ProcTypes
    <2>2. rmsg' = rmsg /\ inmsg' = [inmsg EXCEPT ![p] = NULL]
        BY <1>5 DEF RcvCopyOut
    <2>3. QED
        BY <2>1, <2>2 DEF Orderly, Kept
<1>6. QED
    BY <1>2, <1>3, <1>4, <1>5

\* ... and so are all steps.
LEMMA NextOrder ==
    ASSUME Inv, Next, NEW x \in Procs
    PROVE  Orderly(x)
<1>1. PICK p \in Procs : Calls(p) \/ Steps(p) \/ Signal(p)
    BY DEF Next
<1>2. CASE rcvVars' = rcvVars
    BY <1>2 DEF Orderly, Kept, rcvVars
<1>3. ASSUME NEW q, NEW res \in Errors, expunge_all(q, res), inmsg' = inmsg PROVE Orderly(x)
    BY <1>3 DEF expunge_all, Orderly, Kept
<1>4. ASSUME NEW id \in Issued, NEW b \in QBytes, NEW r \in PermSets, NEW w \in PermSets,
             MsgctlSet(p, id, b, r, w)
      PROVE  Orderly(x)
    BY <1>3, <1>4, Kinds DEF MsgctlSet
<1>5. ASSUME NEW id \in Issued, MsgctlRmid(p, id) PROVE Orderly(x)
    BY <1>3, <1>5, Kinds DEF MsgctlRmid
<1>6. CASE \/ SndAgain(p)
           \/ \E id \in Issued, t \in Types, n \in Sizes, w \in BOOLEAN : Msgsnd(p, id, t, n, w)
    BY <1>6, IssuedIds, SendsOrder
<1>7. CASE \/ RcvCheck(p) \/ RcvAgain(p) \/ RcvCopyOut(p)
           \/ \E id \in Issued, t \in RcvTypes, n \in RcvSizes, f \in RcvFlags :
                  Msgrcv(p, id, t, n, f)
    BY <1>7, IssuedIds, ReceivesOrder
<1>8. CASE Msgget(p) \/ SndWake(p) \/ RmidFree(p) \/ Signal(p)
    <2>1. rcvVars' = rcvVars
        BY <1>8 DEF Msgget, SndWake, RmidFree, Signal
    <2>2. QED
        BY <1>2, <2>1
<1>9. QED
    BY <1>1, <1>4, <1>5, <1>6, <1>7, <1>8 DEF Calls, Steps

\* What a process obtains in an orderly step comes before all else of its type.
LEMMA FirstOfType ==
    ASSUME Inv, NEW p \in Procs, Orderly(p), NEW k \in Queues, NEW m \in Message,
           m # inmsg[p], Obtains(p, k, m),
           NEW x \in DOMAIN queue[k].messages, queue[k].messages[x].type = m.type
    PROVE  \E i \in DOMAIN queue[k].messages : queue[k].messages[i] = m /\ i <= x
<1>1. PICK s : s = queue[k].messages
    OBVIOUS
<1>2. s \in Seq(Message) /\ DOMAIN s = 1 .. Len(s)
    BY <1>1, QueueFields DEF Inv, QueueTypes
<1>3. m \notin Errors /\ m # NULL
    BY Kinds
<1>4. CASE rmsg'[p] = m /\ rmsg[p] # m /\ cur[p] = k
    <2>1. Handed(p)
        BY <1>3, <1>4 DEF Orderly, Kept, Fetched
    <2>2. PICK j \in Queues : p \in Receivers(j)
        BY <2>1 DEF Handed
    <2>3. /\ FindMsg(s, rcv[p].type, rcv[p].mode) = 0
          /\ rcv[p].type \in Int /\ rcv[p].mode \in SearchModes
        BY <1>1, <1>4, <2>2, ListedReceiver
    <2>4. testmsg(m, rcv[p].type, rcv[p].mode)
        BY <1>4, <2>1 DEF Handed
    <2>5. ~testmsg(s[x], rcv[p].type, rcv[p].mode)
        BY <1>1, <1>2, <2>3, SearchProps
    <2>6. s[x] \in Message /\ s[x].type = m.type
        BY <1>1, <1>2
    <2>7. QED
        BY <2>3, <2>4, <2>5, <2>6, TestType
<1>5. CASE /\ inmsg'[p] = m /\ rmsg[p] # m
           /\ \E i \in DOMAIN queue[k].messages : queue[k].messages[i] = m
    <2>1. Fetched(p)
        BY <1>3, <1>5 DEF Orderly, Kept, Handed
    <2>2. PICK j \in Queues, type \in Int, mode \in SearchModes :
              /\ FindMsg(queue[j].messages, type, mode) # 0
              /\ m = queue[j].messages[FindMsg(queue[j].messages, type, mode)]
        BY <1>5, <2>1 DEF Fetched
    <2>3. queue[j].messages \in Seq(Message)
        BY QueueFields DEF Inv, QueueTypes
    <2>4. FindMsg(queue[j].messages, type, mode) \in 1 .. Len(queue[j].messages)
        BY <2>2, <2>3, SearchProps
    <2>5. m \in ToSet(queue[j].messages) /\ m \in ToSet(queue[k].messages)
        <3>1. DOMAIN queue[j].messages = 1 .. Len(queue[j].messages)
            BY <2>3
        <3>2. QED
            BY <1>5, <2>2, <2>4, <3>1 DEF ToSet
    <2>6. j = k
        BY <2>5, ApartQueues
    <2>7. PICK pos : pos = FindMsg(s, type, mode)
        OBVIOUS
    <2>8. pos \in 1 .. Len(s) /\ s[pos] = m
        BY <1>1, <2>2, <2>4, <2>6, <2>7
    <2>9. \A y \in 1 .. pos - 1 : s[y].type # s[pos].type
        BY <1>2, <2>7, <2>8, SearchProps, SMTT(30)
    <2>10. x \in 1 .. Len(s) /\ s[x].type = s[pos].type
        BY <1>1, <1>2, <2>8
    <2>11. pos <= x
        BY <1>2, <2>8, <2>9, <2>10
    <2>12. QED
        BY <1>1, <1>2, <2>8, <2>11
<1>6. QED
    BY <1>4, <1>5 DEF Obtains

\* Every step is first in, first out.
LEMMA NextFifo == Inv /\ Next => Fifo
<1> SUFFICES ASSUME Inv, Next, NEW p \in Procs, NEW k \in LiveQueues,
                    NEW x \in DOMAIN queue[k].messages, NEW m,
                    m = IF rmsg'[p] \notin Errors /\ rmsg'[p] # rmsg[p] THEN rmsg'[p] ELSE inmsg'[p],
                    m # NULL, m # inmsg[p], Obtains(p, k, m),
                    queue[k].messages[x].type = m.type
             PROVE  \E i \in {i \in DOMAIN queue[k].messages : queue[k].messages[i] = m} : i <= x
    BY DEF Fifo
<1>1. Inv'
    BY NextInv
<1>2. rmsg'[p] \in Message \cup Errors /\ inmsg'[p] \in Message \cup {NULL}
    BY <1>1 DEF Inv, ProcTypes
<1>3. m \in Message
    BY <1>2
<1>4. k \in Queues
    BY LiveInQueues DEF Inv, QueueTypes
<1>5. Orderly(p)
    BY NextOrder
<1>6. QED
    BY <1>3, <1>4, <1>5, FirstOfType

\* Messages of one type leave a queue in the order msgsnd put them on it, whether
\* a receiver searches the queue or pipelined_send hands it a message.
THEOREM FifoTheorem == Spec => FifoPerType
<1>1. Inv /\ [Next]_vars => [Fifo]_vars
    BY NextFifo
<1>2. QED
    BY <1>1, Invariance, PTL DEF Spec, FifoPerType
=============================================================================
