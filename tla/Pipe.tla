------------------------------- MODULE Pipe -------------------------------
(***************************************************************************)
(* Pipes and fifos (fs/pipe.c, fs/fifo.c): processes open, read, write and *)
(* close one inode, and sleep on its one wait queue for data, for room or  *)
(* for the other end to be opened.                                         *)
(*                                                                         *)
(* All of it happens under the inode's i_sem, which pipe_wait gives up to  *)
(* sleep: an action is what a process does from one down to the next up,   *)
(* the loops that copy included. Of the buffer only start and length are   *)
(* kept; start decides where a copy is split in two.                       *)
(***************************************************************************)
EXTENDS WaitQueue, Integers, FiniteSets

CONSTANTS
    NULL,
    Procs,
    PIPE_SIZE,  \* length of the buffer
    PIPE_BUF,   \* writes of up to this length are not split
    Counts,     \* lengths read and write are called with
    MaxOpens    \* bound on the openings of one end while the pipe lives

Modes == {"r", "w", "rw"}
Ends(m) == CASE m = "r" -> {"r"} [] m = "w" -> {"w"} [] m = "rw" -> {"r", "w"}

\* struct pipe_inode_info, and a file that is open on the inode.
Pipes ==
    [start : 0 .. PIPE_SIZE - 1, len : 0 .. PIPE_SIZE, readers : Int, writers : Int,
     fifo : BOOLEAN, waiting_readers : Int, waiting_writers : Int,
     r_counter : Int, w_counter : Int]
Files == [ends : (SUBSET {"r", "w"}) \ {{}}, nonblock : BOOLEAN]

ASSUME PipeAssumption ==
    /\ IsFiniteSet(Procs) /\ NULL \notin Pipes /\ NULL \notin Files
    /\ PIPE_SIZE \in Nat \ {0} /\ PIPE_BUF \in 1 .. PIPE_SIZE
    /\ Counts \subseteq Nat \ {0} /\ MaxOpens \in Nat

VARIABLES
    pipe,   \* inode->i_pipe with i_size as len, or NULL; fifo is the kind of inode
    wait,   \* its wait queue
    file,   \* the file each process has or is opening, or NULL
    pc,     \* where each process is
    state,  \* its TASK_ state
    sig,    \* processes with a signal pending
    count,  \* what a sleeping read or write has left
    cur,    \* the counter of the other end that a sleeping open has seen
    moved   \* history: a copy failed half-way and nobody has been woken since

vars == <<pipe, wait, file, pc, state, sig, count, cur, moved>>

pipe_new(fifo) ==
    [start |-> 0, len |-> 0, readers |-> 0, writers |-> 0, fifo |-> fifo,
     waiting_readers |-> 0, waiting_writers |-> 0, r_counter |-> 1, w_counter |-> 1]

Init ==
    /\ pipe = NULL /\ wait = <<>>
    /\ file = [p \in Procs |-> NULL]
    /\ pc = [p \in Procs |-> "idle"]
    /\ state = [p \in Procs |-> TASK_RUNNING]
    /\ sig = {}
    /\ count = [p \in Procs |-> 0]
    /\ cur = [p \in Procs |-> 0]
    /\ moved = FALSE

PIPE_FREE(pi) == PIPE_SIZE - pi.len
PIPE_END(pi) == (pi.start + pi.len) % PIPE_SIZE

(***************************************************************************)
(* The ways an action ends: asleep in pipe_wait, or back in user mode.     *)
(* wake says whether everyone on the queue is woken before, half whether a *)
(* copy has failed after it moved something.                               *)
(***************************************************************************)
Woken(wake) == IF wake THEN wake_up_interruptible(wait, state) ELSE state

\* Where a process sleeps, and the queue without p, which is on it if it has slept.
Sleeps == {"open", "read", "write", "write_more"}
Unqueued(p) == IF pc[p] \in Sleeps THEN remove_wait_queue(wait, p) ELSE wait

pipe_wait(p, where, left, seen, wake) ==
    /\ pc' = [pc EXCEPT ![p] = where]
    /\ state' = [Woken(wake) EXCEPT ![p] = TASK_INTERRUPTIBLE]
    /\ wait' = add_wait_queue(Unqueued(p), p)
    /\ count' = [count EXCEPT ![p] = left]
    /\ cur' = [cur EXCEPT ![p] = seen]
    /\ moved' = (moved /\ ~wake)
    /\ UNCHANGED sig

Return(p, wake, half) ==
    /\ pc' = [pc EXCEPT ![p] = "idle"]
    /\ state' = Woken(wake)
    /\ wait' = Unqueued(p)
    /\ sig' = sig \ {p}
    /\ count' = [count EXCEPT ![p] = 0]
    /\ cur' = [cur EXCEPT ![p] = 0]
    /\ moved' = (half \/ (moved /\ ~wake))

\* schedule() has returned and p has i_sem again.
Resumed(p, where) == pc[p] = where /\ state[p] = TASK_RUNNING

\* A signal wakes a sleeper; one that is awake finds it when it looks.
Signal(p) ==
    /\ pc[p] \in Sleeps /\ p \notin sig
    /\ sig' = sig \cup {p}
    /\ state' = [state EXCEPT ![p] = TASK_RUNNING]
    /\ UNCHANGED <<pipe, wait, file, pc, count, cur, moved>>

(***************************************************************************)
(* pipe(2), open of a fifo, and close.                                     *)
(***************************************************************************)
\* The model follows one inode at a time: the next one's turn comes when nobody is on
\* its way to the last.
NextInode == \A q \in Procs : pc[q] # "lookup"

\* do_pipe, with its ends in the hands of two processes.
do_pipe(p, q) ==
    /\ p # q /\ pipe = NULL /\ NextInode
    /\ \A r \in {p, q} : pc[r] = "idle" /\ file[r] = NULL
    /\ pipe' = [pipe_new(FALSE) EXCEPT !.readers = 1, !.writers = 1]
    /\ file' = [file EXCEPT ![p] = [ends |-> {"r"}, nonblock |-> FALSE],
                            ![q] = [ends |-> {"w"}, nonblock |-> FALSE]]
    /\ moved' = FALSE
    /\ UNCHANGED <<wait, pc, state, sig, count, cur>>

\* The pipe with by more openings of the given ends, and with one counted in fifo_open.
Count(pi, ends, by) ==
    [pi EXCEPT !.readers = IF "r" \in ends THEN @ + by ELSE @,
               !.writers = IF "w" \in ends THEN @ + by ELSE @]
Closed(pi, ends) == Count(pi, ends, -1)
Opened(pi, ends) ==
    [Count(pi, ends, 1) EXCEPT !.r_counter = IF "r" \in ends THEN @ + 1 ELSE @,
                               !.w_counter = IF "w" \in ends THEN @ + 1 ELSE @]
FreeIfUnused(pi) == IF pi.readers = 0 /\ pi.writers = 0 THEN NULL ELSE pi

\* A pipe is opened once more by following /proc/<pid>/fd: the link is looked up, and
\* then the inode is pinned, but the file that was found is not.
proc_lookupfd(p) ==
    /\ pc[p] = "idle" /\ file[p] = NULL
    /\ pipe # NULL /\ ~pipe.fifo
    /\ pc' = [pc EXCEPT ![p] = "lookup"]
    /\ UNCHANGED <<pipe, wait, file, state, sig, count, cur, moved>>

\* pipe_read_open, pipe_write_open, pipe_rdwr_open. They do not test i_pipe: where the
\* last close was faster, PIPE_READERS is a field of NULL, and the process dies with
\* i_sem down; whoever comes after it waits for i_sem for ever.
pipe_open(p, ends, nonblock) ==
    /\ pc[p] = "lookup"
    /\ IF pipe # NULL
       THEN /\ pipe' = Count(pipe, ends, 1)
            /\ file' = [file EXCEPT ![p] = [ends |-> ends, nonblock |-> nonblock]]
            /\ pc' = [pc EXCEPT ![p] = "idle"]
       ELSE /\ pc' = [pc EXCEPT ![p] = "dead"]
            /\ UNCHANGED <<pipe, file>>
    /\ UNCHANGED <<wait, state, sig, count, cur, moved>>

\* Whether the opening that led to pi calls wake_up_partner.
FirstOf(pi, ends) ==
    \E e \in ends : IF e = "r" THEN pi.readers = 1 ELSE pi.writers = 1

\* fifo_open. A non-blocking open for writing without a reader changes nothing.
fifo_open(p, ends, nonblock) ==
    LET before == IF pipe = NULL THEN pipe_new(TRUE) ELSE pipe
        pi == Opened(before, ends)
    IN  /\ pc[p] = "idle" /\ file[p] = NULL /\ before.fifo /\ NextInode
        /\ pi.r_counter <= MaxOpens /\ pi.w_counter <= MaxOpens
        /\ ~(ends = {"w"} /\ nonblock /\ before.readers = 0)
        /\ pipe' = pi
        /\ file' = [file EXCEPT ![p] = [ends |-> ends, nonblock |-> nonblock]]
        /\ IF ends = {"r"} /\ pi.writers = 0 /\ ~nonblock
           THEN pipe_wait(p, "open", 0, pi.w_counter, FirstOf(pi, ends))
           ELSE IF ends = {"w"} /\ pi.readers = 0
           THEN pipe_wait(p, "open", 0, pi.r_counter, FirstOf(pi, ends))
           ELSE Return(p, FirstOf(pi, ends), FALSE)

\* The counter of the end that p waits for in wait_for_partner.
Partner(p) == IF file[p].ends = {"r"} THEN pipe.w_counter ELSE pipe.r_counter

OpenAgain(p) ==
    /\ Resumed(p, "open") /\ p \notin sig /\ Partner(p) = cur[p]
    /\ pipe_wait(p, "open", 0, cur[p], FALSE)
    /\ UNCHANGED <<pipe, file>>

OpenDone(p) ==
    /\ Resumed(p, "open") /\ p \notin sig /\ Partner(p) # cur[p]
    /\ Return(p, FALSE, FALSE)
    /\ UNCHANGED <<pipe, file>>

\* err_rd and err_wr.
OpenSignal_Keep(p) ==              \* mutant: the end stays counted
    /\ Resumed(p, "open") /\ p \in sig
    /\ pipe' = FreeIfUnused(pipe)
    /\ file' = [file EXCEPT ![p] = NULL]
    /\ Return(p, FALSE, FALSE)
OpenSignal(p) ==
    LET pi == Closed(pipe, file[p].ends)
    IN  /\ Resumed(p, "open") /\ p \in sig
        /\ pipe' = FreeIfUnused(pi)
        /\ file' = [file EXCEPT ![p] = NULL]
        /\ Return(p, IF file[p].ends = {"r"} THEN pi.readers = 0 ELSE pi.writers = 0, FALSE)

pipe_release(p) ==
    LET pi == Closed(pipe, file[p].ends)
    IN  /\ pc[p] = "idle" /\ file[p] # NULL
        /\ pipe' = FreeIfUnused(pi)
        /\ file' = [file EXCEPT ![p] = NULL]
        /\ Return(p, pi.readers # 0 \/ pi.writers # 0, FALSE)

(***************************************************************************)
(* pipe_read.                                                              *)
(***************************************************************************)
\* The pipe with k bytes taken out.
Taken(pi, k) == [pi EXCEPT !.len = @ - k, !.start = (@ + k) % PIPE_SIZE]

\* A process that has to wait for data, with n bytes still to read; do_more_read.
ReadWait(p, pi, n, wake) ==
    IF pi.writers = 0 \/ file[p].nonblock
    THEN pipe' = pi /\ Return(p, wake, FALSE)
    ELSE /\ pipe' = [pi EXCEPT !.waiting_readers = @ + 1]
         /\ pipe_wait(p, "read", n, 0, wake)

ReadCopy_WasFull(p, pi, n) ==      \* mutant: wakes writers only if it was full
    LET k == Min({n, pi.len})
        rest == Taken(pi, k)
    IN  /\ pipe' = IF rest.len = 0 THEN [rest EXCEPT !.start = 0] ELSE rest
        /\ Return(p, pi.len = PIPE_SIZE, FALSE)

\* Takes what there is; goes on waiting if it lacks some and a writer waits for room.
ReadCopy(p, pi, n) ==
    LET k == Min({n, pi.len})
        rest == Taken(pi, k)
        after == IF rest.len = 0 THEN [rest EXCEPT !.start = 0] ELSE rest
    IN  IF n > k /\ pi.waiting_writers > 0 /\ ~file[p].nonblock
        THEN ReadWait(p, after, n - k, TRUE)
        ELSE pipe' = after /\ Return(p, TRUE, FALSE)

\* A copy fails, at once or past the end of the buffer: out, without a wake-up.
ReadFault(p, pi, n) ==
    \E k \in {0, PIPE_SIZE - pi.start} :
        /\ k < Min({n, pi.len})
        /\ pipe' = Taken(pi, k)
        /\ Return(p, FALSE, k > 0)

CanRead(p) == pc[p] = "idle" /\ file[p] # NULL /\ "r" \in file[p].ends

pipe_read(p, n) ==
    /\ CanRead(p)
    /\ \/ pipe.len = 0 /\ ReadWait(p, pipe, n, FALSE)
       \/ pipe.len > 0 /\ ReadCopy(p, pipe, n)
       \/ pipe.len > 0 /\ ReadFault(p, pipe, n)
    /\ UNCHANGED file

\* The waiting reader runs again. It is no longer counted while it looks.
ReadResume(p) ==
    LET pi == [pipe EXCEPT !.waiting_readers = @ - 1]
    IN  /\ Resumed(p, "read")
        /\ \/ p \in sig /\ pipe' = pi /\ Return(p, FALSE, FALSE)
           \/ p \notin sig /\ pi.len > 0 /\ ReadCopy(p, pi, count[p])
           \/ p \notin sig /\ pi.len > 0 /\ ReadFault(p, pi, count[p])
           \/ p \notin sig /\ pi.len = 0 /\ ReadWait(p, pi, count[p], FALSE)
        /\ UNCHANGED file

(***************************************************************************)
(* pipe_write.                                                             *)
(***************************************************************************)
\* The room a write of n bytes waits for.
Need(n) == IF n <= PIPE_BUF THEN n ELSE 1

WriteWait(p, pi, where, n, wake) ==
    /\ pipe' = [pi EXCEPT !.waiting_writers = @ + 1]
    /\ pipe_wait(p, where, n, 0, wake)

\* Puts in what there is room for; a blocking write then wakes the readers and waits.
WriteCopy(p, pi, n) ==
    LET k == Min({n, PIPE_FREE(pi)})
        after == [pi EXCEPT !.len = @ + k]
    IN  IF n > k /\ ~file[p].nonblock
        THEN WriteWait(p, after, "write_more", n - k, TRUE)
        ELSE pipe' = after /\ Return(p, TRUE, FALSE)

\* A copy fails, at once or past the end of the buffer: out, without a wake-up.
WriteFault(p, pi, n) ==
    \E k \in {0, PIPE_SIZE - PIPE_END(pi)} :
        /\ k < Min({n, PIPE_FREE(pi)})
        /\ pipe' = [pi EXCEPT !.len = @ + k]
        /\ Return(p, FALSE, k > 0)

CanWrite(p) == pc[p] = "idle" /\ file[p] # NULL /\ "w" \in file[p].ends

\* Without readers it only gets SIGPIPE; non-blocking and without room, EAGAIN.
pipe_write(p, n) ==
    /\ CanWrite(p) /\ pipe.readers > 0
    /\ \/ PIPE_FREE(pipe) < Need(n) /\ ~file[p].nonblock /\ WriteWait(p, pipe, "write", n, FALSE)
       \/ PIPE_FREE(pipe) >= Need(n) /\ WriteCopy(p, pipe, n)
       \/ PIPE_FREE(pipe) >= Need(n) /\ WriteFault(p, pipe, n)
    /\ UNCHANGED file

\* A waiting writer runs again, in the first loop (room for Need) or the second.
WriteResume(p, where, room) ==
    LET pi == [pipe EXCEPT !.waiting_writers = @ - 1]
    IN  /\ Resumed(p, where)
        /\ \/ (p \in sig \/ pi.readers = 0) /\ pipe' = pi /\ Return(p, FALSE, FALSE)
           \/ p \notin sig /\ pi.readers > 0 /\ PIPE_FREE(pi) >= room /\ WriteCopy(p, pi, count[p])
           \/ p \notin sig /\ pi.readers > 0 /\ PIPE_FREE(pi) >= room /\ WriteFault(p, pi, count[p])
           \/ p \notin sig /\ pi.readers > 0 /\ PIPE_FREE(pi) < room
              /\ WriteWait(p, pi, where, count[p], where = "write_more")
        /\ UNCHANGED file

Next ==
    \E p \in Procs :
        \/ \E q \in Procs : do_pipe(p, q)
        \/ \E m \in Modes, nonblock \in BOOLEAN :
               fifo_open(p, Ends(m), nonblock) \/ pipe_open(p, Ends(m), nonblock)
        \/ proc_lookupfd(p)
        \/ OpenAgain(p) \/ OpenDone(p) \/ OpenSignal(p) \/ pipe_release(p)
        \/ \E n \in Counts : pipe_read(p, n) \/ pipe_write(p, n)
        \/ ReadResume(p)
        \/ WriteResume(p, "write", Need(count[p])) \/ WriteResume(p, "write_more", 1)
        \/ Signal(p)

Spec == Init /\ [][Next]_vars

-----------------------------------------------------------------------------
\* The processes that have an end open, or wait in open with it already counted.
Holders(end) == {p \in Procs : file[p] # NULL /\ end \in file[p].ends}

\* The counts of readers, writers and waiting processes are exact whatever signal or
\* close comes between, and the pipe exists exactly as long as somebody has an end or
\* sleeps on it: nobody returns from pipe_wait to a pipe that was freed. An open that
\* is on its way through /proc is not counted yet and keeps nothing alive (pipe_open).
EndsCounted ==
    IF pipe = NULL
    THEN file = [p \in Procs |-> NULL] /\ wait = <<>>
    ELSE /\ pipe.readers = Cardinality(Holders("r"))
         /\ pipe.writers = Cardinality(Holders("w"))
         /\ pipe.waiting_readers = Cardinality({p \in Procs : pc[p] = "read"})
         /\ pipe.waiting_writers = Cardinality({p \in Procs : pc[p] \in {"write", "write_more"}})

\* Why a process may sleep.
HasReason(p) ==
    \/ pc[p] = "open" /\ Partner(p) = cur[p]
    \/ pc[p] = "read" /\ pipe.len = 0 /\ pipe.writers > 0
    \/ pc[p] = "write" /\ PIPE_FREE(pipe) < Need(count[p]) /\ pipe.readers > 0
    \/ pc[p] = "write_more" /\ PIPE_FREE(pipe) = 0 /\ pipe.readers > 0

\* Nobody sleeps past what it waits for: data or the last writer's close for a reader,
\* room or the last reader's close for a writer, the other end's opening, even if it is
\* closed again at once, for open. Only after a copy that failed half-way, which leaves
\* without a wake-up, may a sleeper be left until the next event.
NoMissedEvent == \A p \in Procs : state[p] = TASK_INTERRUPTIBLE => HasReason(p) \/ moved
=============================================================================
