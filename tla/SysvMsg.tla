------------------------------ MODULE SysvMsg ------------------------------
(***************************************************************************)
(* System V message queues (ipc/msg.c): msgget, msgsnd, msgrcv, IPC_SET    *)
(* and IPC_RMID, with the processes that sleep in them.                    *)
(*                                                                         *)
(* A section under the spinlock msg_ids.ary is one action, except for the  *)
(* hand-over of a message to a sleeping receiver: the receiver reads r_msg *)
(* without the lock, so it may run between the sender's store to r_msg and *)
(* the sender's use of the receiver's msr to wake it. There the lock is    *)
(* held from one action to the next (variable ary).                        *)
(*                                                                         *)
(* A process that sets its state to TASK_INTERRUPTIBLE is in asleep until  *)
(* it is woken or has a signal, which is when schedule() returns.          *)
(***************************************************************************)
EXTENDS IpcUtil, MsgSearch, SequencesExt

CONSTANTS
    Procs,
    Types,      \* message types, 1 and up
    Sizes,      \* text sizes msgsnd is called with
    RcvTypes,   \* msgtyp arguments of msgrcv: negative, 0 or positive
    RcvSizes,   \* buffer sizes msgrcv is called with
    RcvFlags,   \* flag combinations [nowait, noerror, except] of msgrcv
    QBytes,     \* values IPC_SET gives q_qbytes
    PermSets,   \* sets of processes IPC_SET may allow to read, or to write
    MSGMNB,     \* msg_ctlmnb, q_qbytes of a new queue
    EAGAIN, EIDRM, E2BIG,   \* error values of r_msg
    MaxMsgs,    \* bound on the messages ever loaded
    MaxQueues   \* bound on the queues ever created

Errors == {EAGAIN, EIDRM, E2BIG}
Queues == 0 .. MaxQueues - 1          \* a queue is the number of its creation
Perms == [key : {IPC_PRIVATE}, seq : 0 .. SeqMax, obj : Queues]
Message == [id : 0 .. MaxMsgs - 1, type : Types, size : Sizes]
MsqIds == 0 .. IPCMNI * (SeqMax + 1) - 1
INT_MAX == 2147483647

ASSUME MsgAssumption ==
    /\ NULL \notin Procs /\ NULL \notin Message /\ NULL \notin Queues /\ NULL \notin Perms
    /\ EAGAIN # EIDRM /\ EAGAIN # E2BIG /\ EIDRM # E2BIG
    /\ NULL \notin Errors /\ Errors \cap Message = {}
    /\ Types \subseteq Nat \ {0} /\ Sizes \subseteq Nat
    /\ RcvTypes \subseteq Int /\ RcvSizes \subseteq 0 .. INT_MAX
    /\ RcvFlags \subseteq [nowait : BOOLEAN, noerror : BOOLEAN, except : BOOLEAN]
    /\ QBytes \subseteq Nat /\ MSGMNB \in Nat
    /\ PermSets \subseteq SUBSET Procs
    /\ MaxMsgs \in Nat /\ MaxQueues \in Nat

VARIABLES
    ids,      \* msg_ids
    queue,    \* the msg_queue of every queue ever created
    nqueues,  \* queues created so far
    nmsgs,    \* messages loaded so far
    hdrs,     \* msg_hdrs
    bytes,    \* msg_bytes
    sem,      \* the process in msg_ids.sem, or NULL
    ary,      \* the sender that keeps msg_ids.ary over a hand-over, or NULL
    pc,       \* where each process is
    asleep,   \* processes in TASK_INTERRUPTIBLE that nothing has woken
    sig,      \* processes with a signal pending
    cur,      \* msq, the queue a process works on
    snd,      \* arguments of msgsnd, with the message it has loaded
    linked,   \* whether the list.next of a sender's msg_sender is not NULL
    rcv,      \* arguments of msgrcv, after convert_mode
    rmsg,     \* r_msg of a receiver's msg_receiver: an error or a message
    inmsg,    \* the message a receiver copies out
    taker,    \* the receiver a sender is about to wake in pipelined_send
    freed     \* history: messages freed

queueVars == <<ids, queue, nqueues>>
msgVars == <<nmsgs, hdrs, bytes, freed>>
lockVars == <<sem, ary>>
procVars == <<pc, asleep, sig, cur>>
sndVars == <<snd, linked, taker>>
rcvVars == <<rcv, rmsg, inmsg>>
vars == <<queueVars, msgVars, lockVars, procVars, sndVars, rcvVars>>

NoSnd == [msqid |-> 0, nowait |-> FALSE, msg |-> NULL]
NoRcv == [msqid |-> 0, mode |-> "any", type |-> 0, size |-> 0,
          nowait |-> FALSE, noerror |-> FALSE]
newque == [messages |-> <<>>, receivers |-> <<>>, senders |-> <<>>,
           cbytes |-> 0, qnum |-> 0, qbytes |-> MSGMNB,
           lspid |-> NULL, lrpid |-> NULL, readers |-> Procs, writers |-> Procs]

Init ==
    /\ ids = ipc_init_ids(IPCMNI)
    /\ queue = [k \in Queues |-> newque]
    /\ nqueues = 0 /\ nmsgs = 0 /\ hdrs = 0 /\ bytes = 0
    /\ sem = NULL /\ ary = NULL
    /\ pc = [p \in Procs |-> "idle"]
    /\ asleep = {} /\ sig = {}
    /\ cur = [p \in Procs |-> NULL]
    /\ snd = [p \in Procs |-> NoSnd]
    /\ linked = [p \in Procs |-> FALSE]
    /\ rcv = [p \in Procs |-> NoRcv]
    /\ rmsg = [p \in Procs |-> EAGAIN]
    /\ inmsg = [p \in Procs |-> NULL]
    /\ taker = [p \in Procs |-> NULL]
    /\ freed = {}

\* The queues in the table, and the one msg_lock finds for an identifier.
LiveQueues == {ids.entries[i].obj : i \in Live(ids)}
Found(msqid) == ids.entries[Lid(msqid)] # NULL
QueueOf(msqid) == ids.entries[Lid(msqid)].obj
msg_checkid(msqid) == ipc_checkid(ids.entries[Lid(msqid)], msqid)

\* The identifiers processes pass: those with the sequence number of a creation.
Issued == {id \in MsqIds : id \div SEQ_MULTIPLIER < nqueues}

Goto(p, where) == pc' = [pc EXCEPT ![p] = where]

\* Return to user space, where pending signals are handled.
Leave(p) ==
    /\ Goto(p, "idle")
    /\ sig' = sig \ {p}
    /\ cur' = [cur EXCEPT ![p] = NULL]

(***************************************************************************)
(* msgget, as far as it creates a queue, and signals.                      *)
(***************************************************************************)
Msgget(p) ==
    /\ pc[p] = "idle" /\ sem = NULL /\ ary = NULL
    /\ nqueues < MaxQueues /\ FreeSlots(ids, ids.size) # {}
    /\ ids' = ipc_addid(ids, IPC_PRIVATE, nqueues)
    /\ queue' = [queue EXCEPT ![nqueues] = newque]
    /\ nqueues' = nqueues + 1
    /\ UNCHANGED <<msgVars, lockVars, procVars, sndVars, rcvVars>>

\* A signal matters to a process that sleeps, or slept, and has not looked yet.
Signal(p) ==
    /\ pc[p] \in {"snd_sleep", "rcv_sleep", "rcv_relock"} /\ p \notin sig
    /\ sig' = sig \cup {p}
    /\ asleep' = asleep \ {p}
    /\ UNCHANGED <<queueVars, msgVars, lockVars, pc, cur, sndVars, rcvVars>>

(***************************************************************************)
(* msgsnd. Its arguments are a record args, kept in snd[p] while p sleeps. *)
(***************************************************************************)
\* The message load_msg allocates and copies in, and the end of messages.
load_msg(type, size) == [id |-> nmsgs, type |-> type, size |-> size]
free_msg(msgs) == freed' = freed \cup {m.id : m \in msgs}

\* out_free: the message was not sent.
SndFail(p, args) ==
    /\ free_msg({args.msg})
    /\ snd' = [snd EXCEPT ![p] = NoSnd]
    /\ linked' = [linked EXCEPT ![p] = FALSE]
    /\ Leave(p)
    /\ UNCHANGED <<ids, nqueues, hdrs, bytes, lockVars, asleep, taker, rcvVars>>

\* Whether a message has no room in a queue.
Full(q, msg) == msg.size + q.cbytes > q.qbytes \/ 1 + q.qnum > q.qbytes

\* pipelined_send walks the receivers: those whose search matches but whose
\* buffer is too small get E2BIG, up to the first that can take the message.
Matching_Type(q, msg) ==           \* mutant: the search mode is not looked at
    {i \in DOMAIN q.receivers : msg.type = rcv[q.receivers[i]].type}
Matching(q, msg) ==
    {i \in DOMAIN q.receivers :
        testmsg(msg, rcv[q.receivers[i]].type, rcv[q.receivers[i]].mode)}
r_maxsize(r) == IF rcv[r].noerror THEN INT_MAX ELSE rcv[r].size
CanTake(q, msg) == {i \in Matching(q, msg) : r_maxsize(q.receivers[i]) >= msg.size}
FirstTaker(q, msg) == CHOOSE i \in CanTake(q, msg) : \A j \in CanTake(q, msg) : i <= j
TooSmall(q, msg) ==
    {q.receivers[i] : i \in
        {j \in Matching(q, msg) : \A t \in CanTake(q, msg) : j < t}}

\* A list once the members of S are unlinked.
Without(list, S) ==
    LET kept[i \in 0 .. Len(list)] ==
            IF i = 0 THEN <<>>
            ELSE IF list[i] \in S THEN kept[i - 1] ELSE Append(kept[i - 1], list[i])
    IN  kept[Len(list)]

\* The queue with a message put on it by p, and with one taken off by p.
Enqueue(q, msg, p) ==
    [q EXCEPT !.messages = Append(@, msg), !.cbytes = @ + msg.size,
              !.qnum = @ + 1, !.lspid = p]
Dequeue_NoNum(q, pos, p) ==        \* mutant: q_qnum is forgotten
    [q EXCEPT !.messages = RemoveAt(@, pos),
              !.cbytes = @ - q.messages[pos].size, !.lrpid = p]
Dequeue(q, pos, p) ==
    [q EXCEPT !.messages = RemoveAt(@, pos), !.qnum = @ - 1,
              !.cbytes = @ - q.messages[pos].size, !.lrpid = p]

\* The body of msgsnd under the lock, from retry on. k is the queue and q its
\* msg_queue, from which a process that has slept has unlinked itself.
SndTry(p, k, q, args) ==
    LET msg == args.msg
        refused == msg_checkid(args.msqid) \/ p \notin q.writers
        small == TooSmall(q, msg)
    IN
    \/ /\ refused \/ (Full(q, msg) /\ args.nowait)
       /\ queue' = [queue EXCEPT ![k] = q]
       /\ SndFail(p, args)
    \/ /\ ~refused /\ Full(q, msg) /\ ~args.nowait
       /\ queue' = [queue EXCEPT ![k] = [q EXCEPT !.senders = Append(@, p)]]
       /\ snd' = [snd EXCEPT ![p] = args]
       /\ linked' = [linked EXCEPT ![p] = TRUE]
       /\ cur' = [cur EXCEPT ![p] = k]
       /\ asleep' = asleep \cup {p}
       /\ Goto(p, "snd_sleep")
       /\ UNCHANGED <<ids, nqueues, hdrs, bytes, freed, lockVars, sig, taker, rcvVars>>
    \/ /\ ~refused /\ ~Full(q, msg) /\ CanTake(q, msg) # {}
       /\ LET r == q.receivers[FirstTaker(q, msg)] IN
          /\ queue' = [queue EXCEPT ![k] =
                [q EXCEPT !.receivers = Without(@, small \cup {r})]]
          /\ rmsg' = [x \in Procs |-> IF x = r THEN msg
                                      ELSE IF x \in small THEN E2BIG ELSE rmsg[x]]
          /\ taker' = [taker EXCEPT ![p] = r]
       /\ asleep' = asleep \ small
       /\ ary' = p
       /\ snd' = [snd EXCEPT ![p] = args]
       /\ cur' = [cur EXCEPT ![p] = k]
       /\ linked' = [linked EXCEPT ![p] = FALSE]
       /\ Goto(p, "wake")
       /\ UNCHANGED <<ids, nqueues, hdrs, bytes, freed, sem, sig, rcv, inmsg>>
    \/ /\ ~refused /\ ~Full(q, msg) /\ CanTake(q, msg) = {}
       /\ queue' = [queue EXCEPT ![k] =
             Enqueue([q EXCEPT !.receivers = Without(@, small)], msg, p)]
       /\ rmsg' = [x \in Procs |-> IF x \in small THEN E2BIG ELSE rmsg[x]]
       /\ asleep' = asleep \ small
       /\ hdrs' = hdrs + 1
       /\ bytes' = bytes + msg.size
       /\ snd' = [snd EXCEPT ![p] = NoSnd]
       /\ linked' = [linked EXCEPT ![p] = FALSE]
       /\ Leave(p)
       /\ UNCHANGED <<ids, nqueues, freed, lockVars, taker, rcv, inmsg>>

\* The call: the message is loaded, then the queue locked.
Msgsnd(p, msqid, type, size, nowait) ==
    /\ pc[p] = "idle" /\ ary = NULL /\ nmsgs < MaxMsgs
    /\ nmsgs' = nmsgs + 1
    /\ LET args == [msqid |-> msqid, nowait |-> nowait, msg |-> load_msg(type, size)]
       IN  IF Found(msqid)
           THEN SndTry(p, QueueOf(msqid), queue[QueueOf(msqid)], args)
           ELSE SndFail(p, args) /\ UNCHANGED queue

\* A sender that slept locks the queue again; freeque has unlinked it when the
\* identifier may by now name another queue, or none.
ss_del(p, q) == IF linked[p] THEN [q EXCEPT !.senders = Without(@, {p})] ELSE q
SndAgain(p) ==
    /\ pc[p] = "snd_sleep" /\ p \notin asleep /\ ary = NULL
    /\ UNCHANGED nmsgs
    /\ IF ~Found(snd[p].msqid)
       THEN SndFail(p, snd[p]) /\ UNCHANGED queue
       ELSE LET k == QueueOf(snd[p].msqid)
                q == ss_del(p, queue[k])
            IN  IF p \in sig
                THEN SndFail(p, snd[p]) /\ queue' = [queue EXCEPT ![k] = q]
                ELSE SndTry(p, k, q, snd[p])

\* The end of a hand-over: the sender reads the receiver's msr once more to wake
\* it. A receiver that has already left took its msr, a local, with it; what the
\* sender then reads is undefined, and it may wake any process or none.
SndWake_NoWake(p) ==               \* mutant: the receiver is not woken
    /\ pc[p] = "wake"
    /\ queue' = [queue EXCEPT ![cur[p]].lspid = p]
    /\ ary' = NULL
    /\ taker' = [taker EXCEPT ![p] = NULL]
    /\ snd' = [snd EXCEPT ![p] = NoSnd]
    /\ Leave(p)
    /\ UNCHANGED <<ids, nqueues, msgVars, sem, asleep, linked, rcvVars>>
SndWake(p) ==
    /\ pc[p] = "wake"
    /\ LET r == taker[p] IN
       IF rmsg[r] = snd[p].msg
       THEN asleep' = asleep \ {r}
       ELSE \E S \in {{}} \cup {{x} : x \in asleep} : asleep' = asleep \ S
    /\ queue' = [queue EXCEPT ![cur[p]].lspid = p]
    /\ ary' = NULL
    /\ taker' = [taker EXCEPT ![p] = NULL]
    /\ snd' = [snd EXCEPT ![p] = NoSnd]
    /\ Leave(p)
    /\ UNCHANGED <<ids, nqueues, msgVars, sem, linked, rcvVars>>

(***************************************************************************)
(* msgrcv. Its arguments are a record args, kept in rcv[p] while p sleeps. *)
(***************************************************************************)
RcvFail(p) ==
    /\ rcv' = [rcv EXCEPT ![p] = NoRcv]
    /\ rmsg' = [rmsg EXCEPT ![p] = EAGAIN]
    /\ Leave(p)
    /\ UNCHANGED <<ids, nqueues, msgVars, lockVars, asleep, sndVars, inmsg>>

\* The senders ss_wakeup wakes: all of them.
ss_wakeup_One(q) == IF q.senders = <<>> THEN {} ELSE {Head(q.senders)}  \* mutant
ss_wakeup(q) == ToSet(q.senders)

\* The body of msgrcv under the lock, from retry on.
RcvTry(p, k, q, args) ==
    LET pos == FindMsg(q.messages, args.type, args.mode)
        msg == q.messages[pos]
        toobig == args.size < msg.size /\ ~args.noerror
        allowed == p \in q.readers
    IN
    \/ /\ \/ ~allowed
          \/ pos # 0 /\ toobig
          \/ pos = 0 /\ args.nowait
       /\ queue' = [queue EXCEPT ![k] = q]
       /\ RcvFail(p)
    \/ /\ allowed /\ pos # 0 /\ ~toobig
       /\ queue' = [queue EXCEPT ![k] = Dequeue(q, pos, p)]
       /\ hdrs' = hdrs - 1
       /\ bytes' = bytes - msg.size
       /\ asleep' = asleep \ ss_wakeup(q)
       /\ inmsg' = [inmsg EXCEPT ![p] = msg]
       /\ rcv' = [rcv EXCEPT ![p] = NoRcv]
       /\ rmsg' = [rmsg EXCEPT ![p] = EAGAIN]
       /\ cur' = [cur EXCEPT ![p] = NULL]
       /\ Goto(p, "copyout")
       /\ UNCHANGED <<ids, nqueues, nmsgs, freed, lockVars, sig, sndVars>>
    \/ /\ allowed /\ pos = 0 /\ ~args.nowait
       /\ queue' = [queue EXCEPT ![k] = [q EXCEPT !.receivers = Append(@, p)]]
       /\ rcv' = [rcv EXCEPT ![p] = args]
       /\ rmsg' = [rmsg EXCEPT ![p] = EAGAIN]
       /\ cur' = [cur EXCEPT ![p] = k]
       /\ asleep' = asleep \cup {p}
       /\ Goto(p, "rcv_sleep")
       /\ UNCHANGED <<ids, nqueues, msgVars, lockVars, sig, sndVars, inmsg>>

\* The call. It does not compare the sequence number of the identifier.
Msgrcv(p, msqid, msgtyp, size, flags) ==
    /\ pc[p] = "idle" /\ ary = NULL
    /\ Found(msqid)
    /\ LET search == convert_mode(msgtyp, flags.except)
           args == [msqid |-> msqid, mode |-> search.mode, type |-> search.type,
                    size |-> size, nowait |-> flags.nowait, noerror |-> flags.noerror]
       IN  RcvTry(p, QueueOf(msqid), queue[QueueOf(msqid)], args)

\* The message was handed over: out_success.
RcvTake(p) ==
    /\ inmsg' = [inmsg EXCEPT ![p] = rmsg[p]]
    /\ rcv' = [rcv EXCEPT ![p] = NoRcv]
    /\ rmsg' = [rmsg EXCEPT ![p] = EAGAIN]
    /\ cur' = [cur EXCEPT ![p] = NULL]
    /\ Goto(p, "copyout")
    /\ UNCHANGED <<queueVars, msgVars, lockVars, asleep, sig, sndVars>>

\* After schedule(): r_msg is read without the lock.
RcvCheck(p) ==
    /\ pc[p] = "rcv_sleep" /\ p \notin asleep
    /\ \/ /\ rmsg[p] \notin Errors
          /\ RcvTake(p)
       \/ /\ rmsg[p] \in Errors
          /\ Goto(p, "rcv_relock")
          /\ UNCHANGED <<queueVars, msgVars, lockVars, asleep, sig, cur, sndVars,
                         rcvVars>>

\* ... and again with it. EAGAIN means the receiver is still on its queue.
RcvAgain_NoRecheck(p) ==           \* mutant: r_msg is not looked at again
    /\ pc[p] = "rcv_relock" /\ ary = NULL
    /\ p \in sig
    /\ queue' = [queue EXCEPT ![cur[p]].receivers = Without(@, {p})]
    /\ RcvFail(p)
RcvAgain(p) ==
    /\ pc[p] = "rcv_relock" /\ ary = NULL
    /\ \/ /\ rmsg[p] \notin Errors
          /\ RcvTake(p)
       \/ /\ rmsg[p] \in Errors \ {EAGAIN}
          /\ UNCHANGED queue
          /\ RcvFail(p)
       \/ /\ rmsg[p] = EAGAIN
          /\ LET k == cur[p]
                 q == [queue[k] EXCEPT !.receivers = Without(@, {p})]
             IN  IF p \in sig
                 THEN RcvFail(p) /\ queue' = [queue EXCEPT ![k] = q]
                 ELSE RcvTry(p, k, q, rcv[p])

\* The message is copied to the caller and freed, whether the copy fails or not.
RcvCopyOut(p) ==
    /\ pc[p] = "copyout"
    /\ free_msg({inmsg[p]})
    /\ inmsg' = [inmsg EXCEPT ![p] = NULL]
    /\ Leave(p)
    /\ UNCHANGED <<queueVars, nmsgs, hdrs, bytes, lockVars, asleep, sndVars, rcv, rmsg>>

(***************************************************************************)
(* msgctl, called with the owner's rights.                                 *)
(***************************************************************************)
expunge_all_Silent(q, res) == UNCHANGED rmsg   \* mutant: r_msg is not set
expunge_all(q, res) ==
    rmsg' = [p \in Procs |-> IF p \in ToSet(q.receivers) THEN res ELSE rmsg[p]]

\* The processes expunge_all and ss_wakeup wake together.
Waiters_Receivers(q) == ToSet(q.receivers)     \* mutant: senders are forgotten
Waiters_Senders(q) == ToSet(q.senders)         \* mutant: receivers are forgotten
Waiters(q) == ToSet(q.receivers) \cup ToSet(q.senders)

MsgctlSet(p, msqid, qbytes, readers, writers) ==
    /\ pc[p] = "idle" /\ sem = NULL /\ ary = NULL
    /\ Found(msqid) /\ ~msg_checkid(msqid)
    /\ LET k == QueueOf(msqid)
           q == queue[k]
       IN  /\ queue' = [queue EXCEPT ![k] =
                 [q EXCEPT !.qbytes = qbytes, !.readers = readers, !.writers = writers]]
           /\ expunge_all(q, EAGAIN)
           /\ asleep' = asleep \ Waiters(q)
    /\ UNCHANGED <<ids, nqueues, msgVars, lockVars, pc, sig, cur, sndVars,
                   rcv, inmsg>>

\* IPC_RMID: freeque up to msg_unlock ...
MsgctlRmid(p, msqid) ==
    /\ pc[p] = "idle" /\ sem = NULL /\ ary = NULL
    /\ Found(msqid) /\ ~msg_checkid(msqid)
    /\ LET k == QueueOf(msqid)
           q == queue[k]
       IN  /\ ids' = ipc_rmid(ids, Lid(msqid))
           /\ expunge_all(q, EIDRM)
           /\ linked' = [s \in Procs |-> linked[s] /\ s \notin ToSet(q.senders)]
           /\ asleep' = asleep \ Waiters(q)
           /\ queue' = [queue EXCEPT ![k].receivers = <<>>, ![k].senders = <<>>]
           /\ cur' = [cur EXCEPT ![p] = k]
    /\ sem' = p
    /\ Goto(p, "rmid")
    /\ UNCHANGED <<nqueues, msgVars, ary, sig, snd, taker, rcv, inmsg>>

\* ... and the messages and the queue freed after it, still inside msg_ids.sem.
RmidFree(p) ==
    /\ pc[p] = "rmid"
    /\ LET q == queue[cur[p]] IN
       /\ free_msg(ToSet(q.messages))
       /\ hdrs' = hdrs - Len(q.messages)
       /\ bytes' = bytes - q.cbytes
       /\ queue' = [queue EXCEPT ![cur[p]] = newque]
    /\ sem' = NULL
    /\ Leave(p)
    /\ UNCHANGED <<ids, nqueues, nmsgs, ary, asleep, sndVars, rcvVars>>

-----------------------------------------------------------------------------
Calls(p) ==
    \/ Msgget(p)
    \/ \E id \in Issued :
        \/ \E t \in Types, n \in Sizes, w \in BOOLEAN : Msgsnd(p, id, t, n, w)
        \/ \E t \in RcvTypes, n \in RcvSizes, f \in RcvFlags : Msgrcv(p, id, t, n, f)
        \/ \E b \in QBytes, r \in PermSets, w \in PermSets : MsgctlSet(p, id, b, r, w)
        \/ MsgctlRmid(p, id)

Steps(p) ==
    \/ SndAgain(p) \/ SndWake(p)
    \/ RcvCheck(p) \/ RcvAgain(p) \/ RcvCopyOut(p)
    \/ RmidFree(p)

Next == \E p \in Procs : Calls(p) \/ Steps(p) \/ Signal(p)

\* A process inside a call goes on whenever it can; that it is woken, that it is
\* called at all or gets a signal is nobody's duty.
Fairness == \A p \in Procs : WF_vars(Steps(p))

Spec == Init /\ [][Next]_vars
FairSpec == Spec /\ Fairness

-----------------------------------------------------------------------------
\* Where a message is: with the sender that loaded it, on a queue, in the r_msg
\* of the receiver it was handed to, being copied out, or freed.
Places(m) ==
    {<<"sender", p>> : p \in {q \in Procs : pc[q] = "snd_sleep"
                                            /\ snd[q].msg.id = m}}
    \cup (UNION {{<<"queue", k, i>> : i \in
            {j \in DOMAIN queue[k].messages : queue[k].messages[j].id = m}} : k \in Queues})
    \cup {<<"handed", p>> : p \in {q \in Procs : rmsg[q] \notin Errors /\ rmsg[q].id = m}}
    \cup {<<"copied", p>> : p \in {q \in Procs : inmsg[q] # NULL /\ inmsg[q].id = m}}
    \cup (IF m \in freed THEN {<<"freed">>} ELSE {})

\* Every message msgsnd ever loaded is in exactly one place: none is lost, freed
\* while in use, received twice or leaked, whichever of hand-over, signal,
\* retry, removal and failure come together.
MessageConserved == \A m \in 0 .. nmsgs - 1 : Cardinality(Places(m)) = 1

\* The messages on the queues in K, and the bytes of messages.
On(K) == UNION {ToSet(queue[k].messages) : k \in K}
Bytes(msgs) == UNION {{m} \X (1 .. m.size) : m \in msgs}

\* q_qnum and q_cbytes describe the messages on the queue, and what MSG_INFO
\* reads inside msg_ids.sem describes all the queues together.
Accounting ==
    /\ \A k \in LiveQueues : /\ queue[k].qnum = Len(queue[k].messages)
                             /\ queue[k].cbytes = Cardinality(Bytes(On({k})))
    /\ sem = NULL => /\ hdrs = Cardinality(On(LiveQueues))
                     /\ bytes = Cardinality(Bytes(On(LiveQueues)))

\* A receiver on the list of a queue has nothing to receive there: between its
\* search and its sleep, and through retries, no matching message slips past it.
NoMissedMessage ==
    \A k \in LiveQueues : \A r \in ToSet(queue[k].receivers) :
        /\ rmsg[r] = EAGAIN
        /\ FindMsg(queue[k].messages, rcv[r].type, rcv[r].mode) = 0

\* A sender that stays asleep has no room for its message: whoever makes room,
\* by receiving or by IPC_SET, has woken it.
NoMissedRoom ==
    \A p \in asleep : pc[p] = "snd_sleep" =>
        cur[p] \in LiveQueues /\ Full(queue[cur[p]], snd[p].msg)

\* A receiver that stays asleep is still allowed to read its queue: IPC_SET wakes
\* the receivers because they "might be excluded by stricter permissions".
SleepersPermitted ==
    \A p \in asleep : pc[p] = "rcv_sleep" /\ rmsg[p] = EAGAIN => p \in queue[cur[p]].readers

\* A receiver that finds EAGAIN under the lock is still on the queue its
\* identifier names, so the BUG() is not reached and retry uses no freed queue.
RetryOnLiveQueue ==
    \A p \in Procs : pc[p] \in {"rcv_sleep", "rcv_relock"} /\ rmsg[p] = EAGAIN =>
        /\ cur[p] \in LiveQueues
        /\ Found(rcv[p].msqid) /\ QueueOf(rcv[p].msqid) = cur[p]
        /\ p \in ToSet(queue[cur[p]].receivers)

\* The message process p obtains in a step, from queue k, if any.
Obtains(p, k, m) ==
    \/ rmsg'[p] = m /\ rmsg[p] # m /\ cur[p] = k
    \/ inmsg'[p] = m /\ inmsg[p] # m /\ rmsg[p] # m
       /\ \E i \in DOMAIN queue[k].messages : queue[k].messages[i] = m

\* What a process obtains in a step has nothing of its type before it on the queue.
Fifo ==
    \A p \in Procs, k \in LiveQueues :
        \A x \in DOMAIN queue[k].messages :
            LET m == IF rmsg'[p] \notin Errors /\ rmsg'[p] # rmsg[p] THEN rmsg'[p] ELSE inmsg'[p]
                y == {i \in DOMAIN queue[k].messages : queue[k].messages[i] = m}
            IN  (/\ m # NULL /\ m # inmsg[p] /\ Obtains(p, k, m)
                 /\ queue[k].messages[x].type = m.type)
                => \E i \in y : i <= x

\* Messages of one type leave a queue in the order they were put on it, and no
\* message is handed over past one of its type that waits on the queue.
FifoPerType == [][Fifo]_vars

\* Once a queue is removed, every process that was sleeping on it returns.
RemovalReleases ==
    \A p \in Procs :
        (pc[p] \in {"snd_sleep", "rcv_sleep", "rcv_relock"} /\ cur[p] \notin LiveQueues)
            ~> pc[p] = "idle"

\* A receiver that was handed a message returns with it.
HandedIsReceived ==
    \A p \in Procs : (rmsg[p] \notin Errors) ~> (pc[p] = "copyout" /\ inmsg[p] # NULL)
=============================================================================
