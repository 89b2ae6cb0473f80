------------------------------ MODULE SysvSem ------------------------------
(***************************************************************************)
(* System V semaphores (ipc/sem.c): semget, semop with its pending queue   *)
(* and undo adjustments, SETVAL, SETALL, IPC_RMID and sem_exit.            *)
(*                                                                         *)
(* A section under the spinlock sem_ids.ary is one action. Between two     *)
(* sections the caller holds nothing: while semop allocates an undo        *)
(* structure, while it sleeps and until it has the lock again, while       *)
(* SETALL reads the caller's array, and between the read of an undo        *)
(* structure's semid and the lock in sem_exit.                             *)
(*                                                                         *)
(* A process in TASK_INTERRUPTIBLE is in asleep until it is woken or gets  *)
(* a signal. Failures of ipcperms, kmalloc and the copies from user space  *)
(* may happen wherever the code tests for them.                            *)
(***************************************************************************)
EXTENDS IpcUtil, SequencesExt

CONSTANTS
    Procs,
    NSems,      \* sem_nsems of every array
    SEMMNS,     \* limit on the semaphores of all arrays together
    SEMVMX,     \* largest value of a semaphore, and of a C short
    SopLists,   \* the sops arguments of semop: sequences of sembufs
    Vals,       \* values SETVAL and SETALL are called with
    MaxArrays   \* bound on the arrays ever created

Sems == 0 .. NSems - 1
Arrays == 0 .. MaxArrays - 1          \* an array is the number of its creation
SemIds == 0 .. IPCMNI * (SeqMax + 1) - 1
Sembuf == [sem_num : Nat, sem_op : Int, undo : BOOLEAN, nowait : BOOLEAN]
Perms == [key : {IPC_PRIVATE}, seq : 0 .. SeqMax, obj : Arrays]
Status == {"ok", "retry", "EINTR", "EIDRM", "EAGAIN", "ERANGE"}

ASSUME SemAssumption ==
    /\ NULL \notin Procs /\ NULL \notin Arrays /\ NULL \notin Perms
    /\ IsFiniteSet(Procs)
    /\ NSems \in Nat \ {0} /\ SEMMNS \in Nat /\ SEMVMX \in Nat \ {0}
    /\ SopLists \subseteq Seq(Sembuf) /\ <<>> \notin SopLists
    /\ Vals \subseteq 0 .. SEMVMX
    /\ MaxArrays \in Nat

VARIABLES
    ids,       \* sem_ids
    arr,       \* the sem_array of every array ever created
    narrs,     \* arrays created so far
    used_sems,
    pc,        \* where each process is
    asleep,    \* processes in TASK_INTERRUPTIBLE that nothing has woken
    cur,       \* sma, the array a process works on
    semid,     \* the identifier it was called with
    sops,      \* the operations of a semop, also queue.sops
    status,    \* queue.status
    io,        \* sem_io of SETALL
    semundo    \* current->semundo: the undo structures of a process, newest first

tableVars == <<ids, narrs, used_sems>>
callVars == <<cur, semid, sops, io>>
vars == <<tableVars, arr, pc, asleep, callVars, status, semundo>>

\* sem_array. sempid holds two pids, in its upper and its lower half. semadj is
\* the semadj of the undo structure each process in undo has for the array. base
\* and mixed are history: the value a semaphore would have had all undo been done,
\* and whether the last update_queue changed values on behalf of a sleeper.
newary ==
    [semval  |-> [i \in Sems |-> 0],
     sempid  |-> [i \in Sems |-> <<NULL, NULL>>],
     pending |-> <<>>,
     undo    |-> {},
     semadj  |-> [p \in Procs |-> [i \in Sems |-> 0]],
     base    |-> [i \in Sems |-> 0],
     mixed   |-> FALSE]

Init ==
    /\ ids = ipc_init_ids(IPCMNI)
    /\ arr = [a \in Arrays |-> newary]
    /\ narrs = 0 /\ used_sems = 0
    /\ pc = [p \in Procs |-> "idle"]
    /\ asleep = {}
    /\ cur = [p \in Procs |-> NULL]
    /\ semid = [p \in Procs |-> 0]
    /\ sops = [p \in Procs |-> <<>>]
    /\ status = [p \in Procs |-> "ok"]
    /\ io = [p \in Procs |-> <<>>]
    /\ semundo = [p \in Procs |-> <<>>]

\* The arrays in the table, and the one sem_lock finds for an identifier.
LiveArrays == {ids.entries[i].obj : i \in Live(ids)}
Found(id) == ids.entries[Lid(id)] # NULL
ArrayOf(id) == ids.entries[Lid(id)].obj
sem_checkid(id) == ipc_checkid(ids.entries[Lid(id)], id)

\* What sem_revalidate asks after the lock was given up: the same array is still
\* there under the identifier.
sem_revalidate_Slot(id, a) == Found(id)   \* mutant: any array in the slot will do
sem_revalidate(id, a) == Found(id) /\ ArrayOf(id) = a /\ ~sem_checkid(id)

\* The identifiers processes pass: those with the sequence number of a creation.
Issued == {id \in SemIds : id \div SEQ_MULTIPLIER < narrs}

Goto(p, where) == pc' = [pc EXCEPT ![p] = where]

\* The call returns; its locals end.
Leave(p) ==
    /\ Goto(p, "idle")
    /\ cur' = [cur EXCEPT ![p] = NULL]
    /\ semid' = [semid EXCEPT ![p] = 0]
    /\ sops' = [sops EXCEPT ![p] = <<>>]
    /\ io' = [io EXCEPT ![p] = <<>>]

(***************************************************************************)
(* try_atomic_semop on an array a, for process p.                          *)
(***************************************************************************)
\* semadj is a C short; base is kept modulo the number of shorts.
ShortCount == 2 * (SEMVMX + 1)
Short(n) == ((n + SEMVMX + 1) % ShortCount) - (SEMVMX + 1)

\* Has the member of a singleton, the result of a call, evaluated once.
The(S) == CHOOSE x \in S : TRUE

\* One turn of the loop: an operation applied to a semaphore, and recorded as to be
\* undone for p if it has SEM_UNDO.
Apply_NoUndo(a, p, op) ==          \* mutant: SEM_UNDO is not recorded
    [a EXCEPT !.sempid[op.sem_num] = <<@[2], p>>,
              !.semval[op.sem_num] = @ + op.sem_op,
              !.base[op.sem_num] = IF op.undo THEN @ ELSE (@ + op.sem_op) % ShortCount]
Apply(a, p, op) ==
    [a EXCEPT !.sempid[op.sem_num] = <<@[2], p>>,
              !.semval[op.sem_num] = @ + op.sem_op,
              !.semadj[p][op.sem_num] = IF op.undo THEN Short(@ - op.sem_op) ELSE @,
              !.base[op.sem_num] = IF op.undo THEN @ ELSE (@ + op.sem_op) % ShortCount]

\* The array as the operations are applied in order, and the value each one meets.
Course(a, p, ops) ==
    LET f[n \in 0 .. Len(ops)] == IF n = 0 THEN a ELSE Apply(f[n - 1], p, ops[n]) IN f
Value(f, ops, n) == f[n].semval[ops[n].sem_num]

Blocks_Late(op, v) == IF op.sem_op = 0 THEN v # 0 ELSE v < -1   \* mutant: off by one
Blocks(op, v) == IF op.sem_op = 0 THEN v # 0 ELSE v < 0
OutOfRange(v) == v > SEMVMX

\* The operations at which the loop would stop: it does at the first of them.
Stops(f, ops) ==
    {n \in DOMAIN ops : Blocks(ops[n], Value(f, ops, n)) \/ OutOfRange(Value(f, ops, n))}
Stopped(op, v) ==
    IF ~Blocks(op, v) THEN "ERANGE" ELSE IF op.nowait THEN "EAGAIN" ELSE "sleep"
Result(f, ops) ==
    LET stops == Stops(f, ops)
    IN  IF stops = {} THEN "ok" ELSE Stopped(ops[Min(stops)], Value(f, ops, Min(stops)))

\* The undo loop: values and adjustments are as they were, but sempid is shifted
\* right for every operation, and one that waits for zero stopped before the shift
\* to the left.
PidPopped(pids, n) ==
    IF n = 0 THEN pids ELSE IF n = 1 THEN <<NULL, pids[1]>> ELSE <<NULL, NULL>>
Unapply(a, f, ops) ==
    LET stops == Stops(f, ops)
        last == IF stops = {} THEN Len(ops) ELSE Min(stops)
        shifted == IF stops # {} /\ ops[last].sem_op = 0 THEN f[last - 1] ELSE f[last]
    IN  [a EXCEPT !.sempid = [i \in Sems |->
            PidPopped(shifted.sempid[i], Cardinality({j \in 1 .. last : ops[j].sem_num = i}))]]

Tried(a, f, ops, do_undo) ==
    [result |-> Result(f, ops),
     a |-> IF Stops(f, ops) = {} /\ ~do_undo THEN f[Len(ops)] ELSE Unapply(a, f, ops)]
try_atomic_semop(a, p, ops, do_undo) ==
    The({Tried(a, f, ops, do_undo) : f \in {Course(a, p, ops)}})

\* An operation of the sequence decreases, or changes, a semaphore; has SEM_UNDO.
Undone(ops) == {j \in DOMAIN ops : ops[j].undo}
Decrease(ops) == \E j \in DOMAIN ops : ops[j].sem_op < 0
Alter(ops) == \E j \in DOMAIN ops : ops[j].sem_op # 0

(***************************************************************************)
(* update_queue: every pending process whose operations can now proceed,   *)
(* or fail, is woken; the first that would decrease a semaphore is told to *)
(* try for itself and ends the walk, any other has its operations done and *)
(* leaves the queue. One that waits for zero and raises another semaphore  *)
(* is done so, though the values change behind the processes already       *)
(* passed. w holds the array, the status and the sleepers.                 *)
(***************************************************************************)
remove_from_queue(a, p) == [a EXCEPT !.pending = RemoveFirst(@, p)]

\* q has been tried, with the result and the array of r.
UpdateOne_NoWake(w, q, alter, r) ==        \* mutant: who is to try again is not woken
    IF r.result = "ok" /\ alter /\ ~w.done
    THEN [w EXCEPT !.a = r.a, !.status[q] = "retry", !.done = TRUE]
    ELSE w
UpdateOne(w, q, alter, r) ==
    IF w.done \/ w.status[q] = "retry" THEN w
    ELSE CASE r.result = "sleep" -> [w EXCEPT !.a = r.a]
           [] r.result = "ok" /\ alter ->
                [w EXCEPT !.a = r.a, !.status[q] = "retry",
                          !.asleep = @ \ {q}, !.done = TRUE]
           [] OTHER ->
                [w EXCEPT !.a = [remove_from_queue(r.a, q) EXCEPT
                                    !.mixed = @ \/ (r.result = "ok" /\ Alter(sops[q]))],
                          !.status[q] = r.result, !.asleep = @ \ {q}]
TryPending(w, q) ==                 \* Decrease is q->alter
    UpdateOne(w, q, Decrease(sops[q]),
              try_atomic_semop(w.a, q, sops[q], Decrease(sops[q])))

\* The walk takes only processes it has come to off the queue.
Walk(w, queue) ==
    LET f[n \in 0 .. Len(queue)] ==
            IF n = 0 THEN w ELSE The({TryPending(v, queue[n]) : v \in {f[n - 1]}})
    IN  f
update_queue(w) == Walk([w EXCEPT !.a.mixed = FALSE], w.a.pending)[Len(w.a.pending)]

\* The step ends with array k as it is in a, after update_queue if walk, as p
\* returns and its sem_queue ends with it.
Finish(p, k, a, walk) ==
    \E w \in {[a |-> a, status |-> status, asleep |-> asleep, done |-> FALSE]} :
    \E v \in {IF walk THEN update_queue(w) ELSE w} :
        /\ arr' = [arr EXCEPT ![k] = v.a]
        /\ status' = [v.status EXCEPT ![p] = "ok"]
        /\ asleep' = v.asleep

(***************************************************************************)
(* semget, as far as it creates an array, and signals.                     *)
(***************************************************************************)
Semget(p) ==
    /\ pc[p] = "idle"
    /\ narrs < MaxArrays /\ used_sems + NSems <= SEMMNS
    /\ FreeSlots(ids, ids.size) # {}
    /\ ids' = ipc_addid(ids, IPC_PRIVATE, narrs)
    /\ narrs' = narrs + 1
    /\ used_sems' = used_sems + NSems
    /\ UNCHANGED <<arr, pc, asleep, callVars, status, semundo>>

Signal(p) ==
    /\ p \in asleep
    /\ asleep' = asleep \ {p}
    /\ UNCHANGED <<tableVars, arr, pc, callVars, status, semundo>>

(***************************************************************************)
(* semop.                                                                  *)
(***************************************************************************)
\* The walk over current->semundo: structures of removed arrays (semid -1) are
\* freed on the way to the one of this array, or to the end.
UndoPos(list, id) ==
    LET S == {n \in DOMAIN list : list[n].semid = id} IN IF S = {} THEN 0 ELSE Min(S)
freeundos(list, id) ==
    LET stop == UndoPos(list, id)
        freed(n) == list[n].semid = -1 /\ (stop = 0 \/ n < stop)
        f[n \in 0 .. Len(list)] ==
            IF n = 0 THEN <<>> ELSE IF freed(n) THEN f[n - 1] ELSE Append(f[n - 1], list[n])
    IN  f[Len(list)]

\* The operations are tried under the lock, on array k as it is in a.
SemTry(p, k, a, ops, id) == \E tried \in {try_atomic_semop(a, p, ops, FALSE)} :
    \/ /\ tried.result # "sleep"
       /\ Leave(p)
       /\ Finish(p, k, tried.a, Alter(ops))
    \/ /\ tried.result = "sleep"
       /\ arr' = [arr EXCEPT ![k] = [tried.a EXCEPT !.pending =
             IF Alter(ops) THEN Append(@, p) ELSE <<p>> \o @]]
       /\ status' = [status EXCEPT ![p] = "EINTR"]
       /\ asleep' = asleep \cup {p}
       /\ cur' = [cur EXCEPT ![p] = k]
       /\ semid' = [semid EXCEPT ![p] = id]
       /\ sops' = [sops EXCEPT ![p] = ops]
       /\ Goto(p, "sleep")
       /\ UNCHANGED io

Semop(p, id, ops) ==
    /\ pc[p] = "idle"
    /\ Found(id) /\ ~sem_checkid(id)
    /\ \A j \in DOMAIN ops : ops[j].sem_num < NSems
    /\ LET k == ArrayOf(id)
           alloc == Undone(ops) # {} /\ UndoPos(semundo[p], id) = 0
       IN  \/ /\ ~alloc
              /\ SemTry(p, k, arr[k], ops, id)
           \/ /\ alloc
              /\ cur' = [cur EXCEPT ![p] = k]
              /\ semid' = [semid EXCEPT ![p] = id]
              /\ sops' = [sops EXCEPT ![p] = ops]
              /\ Goto(p, "alloc")
              /\ UNCHANGED <<arr, status, asleep, io>>
    /\ semundo' = IF Undone(ops) = {} THEN semundo
                  ELSE [semundo EXCEPT ![p] = freeundos(@, id)]
    /\ UNCHANGED tableVars

\* alloc_undo after the lock was given up to allocate.
AllocUndo(p) ==
    /\ pc[p] = "alloc"
    /\ LET k == cur[p] IN
       IF sem_revalidate(semid[p], k)
       THEN /\ semundo' = [semundo EXCEPT ![p] = <<[semid |-> semid[p], arr |-> k]>> \o @]
            /\ SemTry(p, k, [arr[k] EXCEPT !.undo = @ \cup {p},
                                           !.semadj[p] = [i \in Sems |-> 0]],
                      sops[p], semid[p])
       ELSE Leave(p) /\ UNCHANGED <<arr, status, asleep, semundo>>
    /\ UNCHANGED tableVars

\* The sleeper has the lock again. The identifier names no array any more ...
WakeGone(p) ==
    /\ pc[p] = "sleep" /\ p \notin asleep /\ ~Found(semid[p])
    /\ IF status[p] = "EIDRM"
       THEN Leave(p)
       ELSE \* BUG(): the process is killed and goes through sem_exit
            /\ Goto(p, "exit")
            /\ UNCHANGED callVars
    /\ status' = [status EXCEPT ![p] = "ok"]
    /\ UNCHANGED <<tableVars, arr, asleep, semundo>>

\* ... or it was told to try for itself ...
WakeRetry_NoUpdate(p) ==           \* mutant: the others are not looked at
    /\ pc[p] = "sleep" /\ p \notin asleep /\ Found(semid[p])
    /\ status[p] = "retry"
    /\ LET k == cur[p] IN
       \E tried \in {try_atomic_semop(arr[k], p, sops[p], FALSE)} :
       \/ /\ tried.result = "sleep"
          /\ arr' = [arr EXCEPT ![k] = tried.a]
          /\ status' = [status EXCEPT ![p] = "EINTR"]
          /\ asleep' = asleep \cup {p}
          /\ UNCHANGED <<pc, callVars>>
       \/ /\ tried.result # "sleep"
          /\ Leave(p)
          /\ Finish(p, k, remove_from_queue(tried.a, p), FALSE)
    /\ UNCHANGED <<tableVars, semundo>>
WakeRetry(p) ==
    /\ pc[p] = "sleep" /\ p \notin asleep /\ Found(semid[p])
    /\ status[p] = "retry"
    /\ LET k == cur[p] IN
       \E tried \in {try_atomic_semop(arr[k], p, sops[p], FALSE)} :
       \/ /\ tried.result = "sleep"
          /\ arr' = [arr EXCEPT ![k] = tried.a]
          /\ status' = [status EXCEPT ![p] = "EINTR"]
          /\ asleep' = asleep \cup {p}
          /\ UNCHANGED <<pc, callVars>>
       \/ /\ tried.result # "sleep"
          /\ Leave(p)
          /\ Finish(p, k, remove_from_queue(tried.a, p), Alter(sops[p]))
    /\ UNCHANGED <<tableVars, semundo>>

\* ... or it was interrupted and is still queued, or all has been done for it.
WakeDone(p) ==
    /\ pc[p] = "sleep" /\ p \notin asleep /\ Found(semid[p])
    /\ status[p] # "retry"
    /\ Leave(p)
    /\ LET k == cur[p]
           queued == p \in ToSet(arr[k].pending)    \* queue.prev is not NULL
       IN  Finish(p, k, remove_from_queue(arr[k], p), queued /\ Alter(sops[p]))
    /\ UNCHANGED <<tableVars, semundo>>

(***************************************************************************)
(* semctl.                                                                 *)
(***************************************************************************)
\* A value is set: what was to be undone on the semaphores of S is forgotten.
SetValues(a, S, v) ==
    [a EXCEPT !.semval = [i \in Sems |-> IF i \in S THEN v[i] ELSE @[i]],
              !.semadj = [p \in Procs |-> [i \in Sems |->
                    IF i \in S /\ p \in a.undo THEN 0 ELSE @[p][i]]],
              !.base = [i \in Sems |-> IF i \in S THEN v[i] ELSE @[i]]]

Setval(p, id, i, v) ==
    /\ pc[p] = "idle"
    /\ Found(id) /\ ~sem_checkid(id)
    /\ LET k == ArrayOf(id) IN
       Finish(p, k, SetValues(arr[k], {i}, [j \in Sems |-> v]), TRUE)
    /\ UNCHANGED <<tableVars, pc, callVars, semundo>>

\* SETALL gives the lock up to read the new values, and looks again.
SetallBegin(p, id, v) ==
    /\ pc[p] = "idle"
    /\ Found(id) /\ ~sem_checkid(id)
    /\ cur' = [cur EXCEPT ![p] = ArrayOf(id)]
    /\ semid' = [semid EXCEPT ![p] = id]
    /\ io' = [io EXCEPT ![p] = v]
    /\ Goto(p, "setall")
    /\ UNCHANGED <<tableVars, arr, asleep, sops, status, semundo>>

SetallEnd(p) ==
    /\ pc[p] = "setall"
    /\ Leave(p)
    /\ LET k == cur[p] IN
       IF sem_revalidate(semid[p], k)
       THEN Finish(p, k, SetValues(arr[k], Sems, io[p]), TRUE)
       ELSE UNCHANGED <<arr, status, asleep>>
    /\ UNCHANGED <<tableVars, semundo>>

\* kmalloc, the copy from user space or ipcperms failed while the lock was free.
CallFails(p) ==
    /\ pc[p] \in {"alloc", "setall"}
    /\ Leave(p)
    /\ UNCHANGED <<tableVars, arr, status, asleep, semundo>>

\* IPC_RMID: freeary.
InvalidUndos(list, k) ==
    [n \in DOMAIN list |-> IF list[n].arr = k THEN [list[n] EXCEPT !.semid = -1] ELSE list[n]]
freeary_NoStatus(st, pending) == st        \* mutant: the sleepers are not told
freeary_Status(st, pending) == [q \in Procs |-> IF q \in pending THEN "EIDRM" ELSE st[q]]
Woken_None(pending) == {}                  \* mutant: the sleepers are not woken
Woken(pending) == pending
Rmid(p, id) ==
    /\ pc[p] = "idle"
    /\ Found(id) /\ ~sem_checkid(id)
    /\ LET k == ArrayOf(id)
           pending == ToSet(arr[k].pending)
       IN  /\ ids' = ipc_rmid(ids, Lid(id))
           /\ semundo' = [q \in Procs |->
                 IF q \in arr[k].undo THEN InvalidUndos(semundo[q], k) ELSE semundo[q]]
           /\ status' = freeary_Status(status, pending)
           /\ asleep' = asleep \ Woken(pending)
           /\ arr' = [arr EXCEPT ![k] = newary]
    /\ used_sems' = used_sems - NSems
    /\ UNCHANGED <<narrs, pc, callVars>>

(***************************************************************************)
(* sem_exit: the process ends; its undo structures are taken one by one.   *)
(* A process that ends makes room for a new one.                           *)
(***************************************************************************)
Exit(p) ==
    /\ pc[p] = "idle"
    /\ Goto(p, "exit")
    /\ UNCHANGED <<tableVars, arr, asleep, callVars, status, semundo>>

\* u->semid is read before the lock is taken.
ExitNext(p) ==
    /\ pc[p] = "exit"
    /\ \/ /\ semundo[p] = <<>>
          /\ Leave(p)
          /\ UNCHANGED semundo
       \/ /\ semundo[p] # <<>> /\ Head(semundo[p]).semid = -1
          /\ semundo' = [semundo EXCEPT ![p] = Tail(@)]
          /\ UNCHANGED <<pc, callVars>>
       \/ /\ semundo[p] # <<>> /\ Head(semundo[p]).semid # -1
          /\ semid' = [semid EXCEPT ![p] = Head(semundo[p]).semid]
          /\ Goto(p, "adjust")
          /\ UNCHANGED <<semundo, cur, sops, io>>
    /\ UNCHANGED <<tableVars, arr, asleep, status>>

\* The array with the adjustments of p made: a negative value becomes 0.
Adjusted(a, p, i) == a.semval[i] + a.semadj[p][i]
ExitAdjust(a, p) ==
    LET val == [i \in Sems |-> IF Adjusted(a, p, i) < 0 THEN 0 ELSE Adjusted(a, p, i)]
    IN  [a EXCEPT !.semval = val,
                  !.sempid = [i \in Sems |-> <<NULL, p>>],
                  !.undo = @ \ {p},
                  !.semadj[p] = [i \in Sems |-> 0],
                  !.base = [i \in Sems |-> (@[i] + val[i] - Adjusted(a, p, i)) % ShortCount]]

\* Whether the array in the slot is the one the undo structure u belongs to.
StillOwn_Slot(p, u, id) == Found(id)       \* mutant: any array in the slot will do
StillOwn(p, u, id) ==
    /\ Found(id) /\ u.semid # -1 /\ ~ipc_checkid(ids.entries[Lid(id)], u.semid)
    /\ u.arr = ArrayOf(id) /\ p \in arr[u.arr].undo    \* found in sma->undo
ExitUndo(p) ==
    /\ pc[p] = "adjust"
    /\ Goto(p, "exit")
    /\ IF StillOwn(p, Head(semundo[p]), semid[p])
       THEN LET k == ArrayOf(semid[p]) IN Finish(p, k, ExitAdjust(arr[k], p), TRUE)
       ELSE UNCHANGED <<arr, status, asleep>>
    /\ semundo' = [semundo EXCEPT ![p] = Tail(@)]
    /\ semid' = [semid EXCEPT ![p] = 0]
    /\ UNCHANGED <<tableVars, cur, sops, io>>

-----------------------------------------------------------------------------
Calls(p) ==
    \/ Semget(p)
    \/ \E id \in Issued :
        \/ \E ops \in SopLists : Semop(p, id, ops)
        \/ \E i \in Sems, v \in Vals : Setval(p, id, i, v)
        \/ \E v \in [Sems -> Vals] : SetallBegin(p, id, v)
        \/ Rmid(p, id)
    \/ Exit(p)

Steps(p) ==
    \/ AllocUndo(p) \/ CallFails(p)
    \/ WakeGone(p) \/ WakeRetry(p) \/ WakeDone(p)
    \/ SetallEnd(p)
    \/ ExitNext(p) \/ ExitUndo(p)

Next == \E p \in Procs : Calls(p) \/ Steps(p) \/ Signal(p)

\* A process inside a call goes on whenever it can.
Fairness == \A p \in Procs : WF_vars(Steps(p))

Spec == Init /\ [][Next]_vars
FairSpec == Spec /\ Fairness

-----------------------------------------------------------------------------
ShortRange == -(SEMVMX + 1) .. SEMVMX
PidPair == (Procs \cup {NULL}) \X (Procs \cup {NULL})
ArrayType ==
    [semval : [Sems -> Nat], sempid : [Sems -> PidPair], pending : Seq(Procs),
     undo : SUBSET Procs, semadj : [Procs -> [Sems -> ShortRange]], base : [Sems -> 0 .. ShortCount - 1],
     mixed : BOOLEAN]

\* Every variable keeps its type: a semaphore is never negative, whatever is
\* undone in whatever order, and used_sems stays within the limit.
TypeOK ==
    /\ arr \in [Arrays -> ArrayType]
    /\ narrs \in 0 .. MaxArrays /\ used_sems \in 0 .. SEMMNS
    /\ pc \in [Procs -> {"idle", "alloc", "sleep", "setall", "exit", "adjust"}]
    /\ asleep \subseteq Procs
    /\ cur \in [Procs -> Arrays \cup {NULL}]
    /\ semid \in [Procs -> SemIds]
    /\ sops \in [Procs -> SopLists \cup {<<>>}]
    /\ status \in [Procs -> Status]
    /\ \A p \in Procs : io[p] = <<>> \/ io[p] \in [Sems -> Vals]
    /\ \A p \in Procs : semundo[p] \in Seq([semid : SemIds \cup {-1}, arr : Arrays])

\* What is to be undone on a semaphore, over all processes, in units of one: semadj
\* is a short, so what a negative one adds is counted modulo the number of shorts.
UndoUnits(a, i) ==
    {x \in Procs \X (1 .. ShortCount) : x[2] <= a.semadj[x[1]][i] % ShortCount}

\* Undoing everything would give each semaphore the value that the operations
\* without SEM_UNDO and the last SETVAL or SETALL give it: an operation that
\* fails, blocks or is tried on behalf of a sleeper leaves no trace, one that
\* completes counts once, whoever performs it.
UndoBalanced ==
    \A k \in LiveArrays : \A i \in Sems :
        (arr[k].semval[i] + Cardinality(UndoUnits(arr[k], i)) - arr[k].base[i]) % ShortCount = 0

\* Nobody stays asleep whose operations could proceed, unless a process that was
\* told to try for itself can: it will look at the queue when it has succeeded; or
\* unless the last update_queue performed, for a sleeper that waited for zero, a
\* sequence that raises another semaphore: q->alter is only set for sequences that
\* decrease one, so the walk went on and nobody looks again at those it had passed.
NoMissedWakeup ==
    \A k \in LiveArrays :
        LET Q == ToSet(arr[k].pending)
            MustWait(q) == Result(Course(arr[k], q, sops[q]), sops[q]) = "sleep"
        IN  \/ \A q \in Q : status[q] # "retry" => MustWait(q)
            \/ \E q \in Q : status[q] = "retry" /\ ~MustWait(q)
            \/ arr[k].mixed

\* A process that has not been told that its array is gone, nor that its
\* operations are done, is queued on an array its identifier still names; so
\* retry and clean-up never touch a freed or another array.
QueuedOnLiveArray ==
    \A p \in Procs :
        pc[p] = "sleep" /\ status[p] \in {"EINTR", "retry"} =>
            /\ Found(semid[p]) /\ ArrayOf(semid[p]) = cur[p]
            /\ p \in ToSet(arr[cur[p]].pending)

\* The operations of the pending processes, as pairs of a process and a position;
\* semncnt and semzcnt of a semaphore count some of them.
PendingOps(a) == UNION {{q} \X DOMAIN sops[q] : q \in ToSet(a.pending)}
WaitsOn(op, i) == op.sem_num = i /\ ~op.nowait
count_semncnt(a, i) == Cardinality({x \in PendingOps(a) :
    WaitsOn(sops[x[1]][x[2]], i) /\ sops[x[1]][x[2]].sem_op < 0})
count_semzcnt_None(a, i) == 0      \* mutant: tasks waiting for zero are not counted
count_semzcnt(a, i) == Cardinality({x \in PendingOps(a) :
    WaitsOn(sops[x[1]][x[2]], i) /\ sops[x[1]][x[2]].sem_op = 0})

\* The counts "still warrant that semncnt+semzcnt>0 if the task is on the pending
\* queue", for one of the semaphores.
CountsWarrant ==
    \A k \in LiveArrays : arr[k].pending # <<>> =>
        \E i \in Sems : count_semncnt(arr[k], i) + count_semzcnt(arr[k], i) > 0

\* The adjustments of a process that exits are made on the array they were
\* recorded for, though the array may be removed, and its slot and identifier
\* given to another, between the read of u->semid and the lock.
UndoOnOwn ==
    \A p \in Procs : pc[p] = "adjust" /\ semundo'[p] # semundo[p] /\ pc'[p] = "exit" =>
        \A k \in Arrays : k # Head(semundo[p]).arr => arr'[k] = arr[k]
UndoOnOwnArray == [][UndoOnOwn]_vars

\* No step writes to an array that has been removed, and freed: not the retry or
\* the clean-up after a sleep, nor what follows an allocation or a copy for which
\* the lock was given up.
WriteLive == \A k \in Arrays : arr'[k] # arr[k] => k \in LiveArrays
NoWriteAfterFree == [][WriteLive]_vars

\* A process that was queued on an array when it was removed, and told so, returns.
RemovalReleases ==
    \A p \in Procs : (pc[p] = "sleep" /\ status[p] = "EIDRM") ~> pc[p] = "idle"

\* "if(queue.status != -EIDRM) BUG();": a process that wakes up to find that its
\* identifier names no array has been told that the array was removed.
NoBUG ==
    \A p \in Procs : pc[p] = "sleep" /\ p \notin asleep /\ ~Found(semid[p]) =>
        status[p] = "EIDRM"

\* A process told to try for itself does so: it is not left with a wake-up that
\* the walks over the queue skip it for.
RetryHappens == \A p \in Procs : (status[p] = "retry") ~> (status[p] # "retry")
=============================================================================
