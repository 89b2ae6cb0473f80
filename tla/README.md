# Models of kernel synchronisation and System V IPC in the Linux 2.4 tree

TLA+ modules, TLC configurations and TLAPS proofs about the parts of this kernel
tree whose correctness is a matter of interleavings: System V IPC (`ipc/`), the
sleeping locks it is built on, tasklets, timers, and pipes. All paths below are
relative to the repository.

## 1. The system and its parts

The repository is a complete kernel. Its own core, as opposed to drivers, file
systems, protocols and architecture code, is `kernel/`, `mm/`, `fs/*.c`, `ipc/`
and the locking primitives under `arch/*/kernel` and `include/`. The project
started with `ipc/`, whose four files have everything that makes a kernel hard: two
kinds of locks, sleeping and hand-made wake-ups, objects that vanish while others sleep
on them, signals, limits, counters that wrap, and clean-up at exit. It goes on with
the primitives below it and with the other small parts that sleep, wake or race.

| Part | State it keeps | Operations | Interacts with |
|---|---|---|---|
| Identifier tables, `ipc/util.c`, `ipc/util.h` | `struct ipc_ids`: array of slots, `size`, `in_use`, `max_id`, `seq`, the semaphore `sem`, the spinlock `ary` | `ipc_findkey`, `grow_ary`, `ipc_addid`, `ipc_rmid`, `ipc_lock`, `ipc_checkid`, `ipc_buildid` | called by the three below; limits come from sysctl |
| Message queues, `ipc/msg.c` | per queue: messages, sleeping receivers, sleeping senders, `q_cbytes`, `q_qnum`, `q_qbytes`, pids; globally `msg_bytes`, `msg_hdrs` | `msgget`, `msgsnd`, `msgrcv`, `msgctl` | tables; scheduler (`wake_up_process`, `schedule`); signals |
| Semaphores, `ipc/sem.c` | per array: values, `sempid`, the pending queue, undo structures; per process: `semundo`; `used_sems` | `semget`, `semop`, `semctl`, `sem_exit` | tables; scheduler; signals; `do_exit` |
| Shared memory, `ipc/shm.c` | segments, `shm_nattch`, `SHM_DEST`, `shm_tot` | `shmget`, `shmat`, `shmdt`, `shmctl`, open/close of areas | tables; `mmap`, `munmap`; `dup_mmap` and `exit_mmap` |
| Kernel semaphores, `asm-i386/semaphore.h`, `arch/i386/kernel/semaphore.c` | `count`, `sleepers`, `wait` | `down`, `down_interruptible`, `down_trylock`, `up` | wait queues; used by all of the above |
| Read-write semaphores, same files | `count` biased by writers, two wait queues, two granted flags | `down_read`, `down_write`, `up_read`, `up_write` | wait queues |
| Wait queues, `kernel/sched.c`, `kernel/fork.c` | entries, exclusive or not; task states | add, remove, `__wake_up` | scheduler, signals |
| Softirqs, tasklets, bottom halves, `kernel/softirq.c` | pending bits and lists per processor; state bits and `count` per tasklet; `global_bh_lock` | schedule, run, disable, enable, kill | interrupts on several processors |
| Timers, `kernel/timer.c` | `tv1` to `tv5`, `timer_jiffies`, `running_timer` | add, modify, delete, cascade, run | the timer interrupt, handlers, other processors |
| Pipes and fifos, `fs/pipe.c`, `fs/fifo.c` | `start`, length, readers, writers, waiting counts, open counters | `pipe`, open, read, write, close | `i_sem`, wait queues, signals |
| keventd, `kernel/context.c`; file locks, `fs/locks.c` | queues of tasks; lists of locks | schedule, flush; lock, unlock | not modelled |

`PROJECT.json` lists these and the remaining parts of the tree with the reason
each is left out.

**What is hard.** A table is protected by two locks: `ids->sem`, held over a whole
creation or removal and across allocations that sleep, and `ids->ary`, held for one
access. Lookups take only `ary`, and test `size` before they have it. Calls sleep
with the table unlocked and find it by identifier again afterwards: the object may
be gone, and its slot may hold another one. Wake-ups are hand-made (no wait queue
re-checks a condition), so a single forgotten or misdirected one is a process that
sleeps for ever. `msgrcv` reads the result of a hand-over without any lock. `semop`
has its operations tried by others while it sleeps. `sem_exit` reads undo
structures that `IPC_RMID` of another process invalidates. Mappings of shared memory
hold a file, not the segment, and look the segment up again on fork and unmap. The
semaphores spread one number over `count`, `sleepers` and the processes that have
decremented and not yet slept. The read-write semaphores decide who owns the bias by
the borrow of a subtraction that others undo. A tasklet is handed between processors,
interrupts and `tasklet_kill` by two bits. Timers move between lists whose indices
wrap, while handlers and other processors add and delete them. Readers and writers of a
pipe share one wait queue and wake each other only when they think it matters.

**What makes each part correct.** Tables: exact counters, one object per key and
identifier, no access outside the array, identifiers not reused early. Message
queues: no message lost, duplicated or leaked, exact accounting, limits respected,
order per type, no sleeper past a message, past room or past a removal. Semaphores:
values never negative, operations atomic and applied once, undo exact, no sleeper
that could proceed, nothing done to a removed array. Shared memory: exact attach
counts, destruction when and only when marked and detached. Kernel semaphores: as many
holders as units, no free unit beside a sleeper. Read-write semaphores: a writer is
alone, nobody who owns the bias is stranded. Tasklets: linked once, run by one
processor, quiet when disabled, run when scheduled. Timers: on their tick, gone after
`del_timer_sync`. Pipes: exact counts, freed at the last close, no missed event.
`PROJECT.json` lists the hazards at their lines with the properties that cover them.

## 2. Modules

| Module | Models |
|---|---|
| `IpcUtil` | the functions of `util.c`/`util.h` as operators on a `struct ipc_ids` record |
| `IpcRegistry` | abstract specification of a table: a set of registered objects |
| `IpcIds`, `IpcIdsProofs` | a table in use: creations, removals and lookups as interleaved steps; proofs |
| `MsgSearch` | `convert_mode`, `testmsg` and the search of a queue (`Search`, `FindMsg`) |
| `SysvMsg`, `SysvMsgProofs` | message queues: `msgget`, `msgsnd`, `msgrcv`, `IPC_SET`, `IPC_RMID`; proofs |
| `SysvSem`, `SysvSemProofs` | semaphores: `semget`, `semop`, `SETVAL`, `SETALL`, `IPC_RMID`, `sem_exit`; proofs |
| `SysvShm`, `SysvShmProofs` | shared memory: `shmget`, `shmat`, `shmdt`, `IPC_RMID`, `SHM_LOCK`, with `munmap`, fork and exit; proofs |
| `WaitQueue` | wait queues and `__wake_up_common` as operators |
| `Semaphore` | abstract specification of a counting semaphore |
| `KSemaphore`, `KSemaphoreProofs` | `down`, `down_interruptible`, `down_trylock`, `up`; proofs |
| `RwSem`, `RwSemProofs` | `down_read`, `down_write`, `up_read`, `up_write`; proofs |
| `Tasklet`, `TaskletProofs` | softirqs, tasklets and bottom halves on several processors; proofs, and those of `KTimer` |
| `KTimer` | the timer vectors, `run_timer_list` and the timer calls |
| `Pipe`, `PipeProofs` | pipes and fifos; proofs |
| `MC...` | instances for TLC |

`SysvMsg`, `SysvSem` and `SysvShm` are built on `IpcUtil` (`SysvMsg` also on
`MsgSearch`); `KSemaphore`, `RwSem` and `Pipe` on `WaitQueue`. The other
modules take a semaphore such as `ids->sem` or `i_sem` as an atomic lock, which is
what `KSemaphore` is shown to provide.
Names ending in `_Something` right before a definition are mutants: the definition
as a plausible mistake would have it. They are used by nothing; `PROJECT.json`
says which property each of them breaks when put in place of the original.

### IpcIds

One action per section of code between two points where another process can act.
A creation is `GetDown` (`down(&ids->sem)`), `GetFind` (`ipc_findkey`), `GrowAlloc`
(the allocation and the copy in `grow_ary`, without `ary`), `GrowSwap` (the swap under
`ary`), `AddScan` (`ipc_addid` up to `spin_lock`), `AddInsert` (the publication), `Up`.
A removal is `RmDown`, `RmLocked`, `Up`. A lookup is `LockTest` (the size test) and
`LockRead` (the access under `ary`, then `ipc_checkid`). The limit passed by the
caller is any member of `Limits`, since sysctl may change it at any time; an
allocation may fail. `Smaller` is the cut at `IPCMNI`; `seq` is an unsigned short.
`issued` is a history variable, the identifiers the kernel has returned. Removals and lookups
are called with any identifier, whether it was ever returned or not; `Entry` is what the
slot after the last one gives.

### SysvMsg

A section under `msg_ids.ary` is one action, with one exception: in `pipelined_send`
the receiver can act between the store to `r_msg` and the wake-up, because it reads
`r_msg` without the lock, so the hand-over is two actions (`SndTry`, `SndWake`) with
the lock held (`ary`) in between. `Msgsnd` and `SndAgain` are the first and the later
passes through the body of `sys_msgsnd`; `Msgrcv`, `RcvCheck` (lockless),
`RcvAgain` (with the lock) and `RcvCopyOut` those of `sys_msgrcv`; `MsgctlSet` is
`IPC_SET`, `MsgctlRmid` and `RmidFree` are `freeque` before and after it drops the
lock. A process that sleeps is in `asleep` until it is woken or `Signal` hits it.

Abstractions: a message is an identity, a type and a size; text, times and user ids
are left out, and permissions are the sets of processes that may read or write.
`msgget` of an existing key changes nothing and is covered by `IpcIds`, as is the
bounds check of identifiers, so a table of one slot suffices here. Errors that
change no state are not steps. After the receiver has returned, what
the sender reads through `msr` is undefined; `SndWake` then wakes any process or none.

### SysvSem

Again one action per section under the lock. `Semop` is the first section;
`AllocUndo` is what follows the allocation of an undo structure; `SemTry` tries the
operations and either returns or queues the caller; `WakeGone`, `WakeRetry` and
`WakeDone` are the three outcomes after a sleep; `SetallBegin` and `SetallEnd` are
the two sections of `SETALL`; `Rmid` is `freeary`; `Exit`, `ExitNext` and `ExitUndo`
are `sem_exit` with the gap between the read of `u->semid` and the lock.
`Apply` is one turn of the loop of `try_atomic_semop` and `Course` the array after each
turn; `Stops` is the set of operations at which the loop would stop, and a sequence that stops
leaves values and adjustments as they were (`Unapply`, the undo loop), but not `sempid`,
which is modelled with its two halves. `Walk` is `update_queue`, the pending queue taken
position by position with `TryPending`; `Finish` ends a section, with or without that walk.
`semadj` is a C short: it wraps at `SEMVMX + 1`, which in the code is 32768.
Two fields of an array are history: `base`, what the semaphores would be if everything were
undone, and `mixed`, that the last walk has done a sequence that raises a semaphore although
`queue.alter` says it alters none (section 3).

Abstractions: all arrays have the same number of semaphores; times are left out;
permission tests, allocations and copies from user space may fail wherever they are
made (`CallFails`; in the first section of a call such a failure changes nothing).
`sem_exit` also handles a process that sleeps in `semop`; a process only gets there
after `BUG()`, when it is no longer queued, so that part does nothing.

### SysvShm

A section under `shm_ids.ary` is one action. `GetNew`, `Newseg` and `NewsegFails` are
`newseg` before and after it creates the file, which may sleep, with `shm_ids.sem`
held; `GetFound` and `GetLock` are the other way through `sys_shmget`. `Shmat` pins the
segment (`shm_nattch++`), `MmapDown`, `MmapClear`, `Mmap` and `MmapFails` are
`do_mmap` under `mmap_sem` with the areas it replaces, and `Put` drops the pin.
`Munmap`, `Split`, `shm_close` are the ways areas are closed and opened; `Fork`, `DupArea`,
`ForkDone` and `ForkFails` are `dup_mmap`; `Exit`, `ExitArea`, `ExitDone` are
`exit_mmap`. An area is only counted, per segment and address space: addresses decide
nothing here. What a fork leaves when `copy_page_range` fails is modelled when
`CopyFails` is set; the fork then unmaps what was linked.

### KSemaphore

One step per locked instruction on `count` and one per section under
`semaphore_lock`. `Pre` are the processes that have decremented `count` and are not yet
queued: they, `count` and `sleepers` together are the number of free units, `Free`, and
`Abs` maps the module to `Semaphore` by it. A wake-up is a step after the instruction
that decides on it. `posts` bounds the calls of `up` by a process that holds nothing
(completion of something another waits for); `holders` is history.

### RwSem

Again one step per locked instruction: the subtraction of `down_read` and `down_write`, the
addition of `up` and of a failed attempt, the test-and-set and test-and-clear of the granted
flags, and the steps around `schedule()`. `biased` are the processes that found the
bias theirs by the borrow of their subtraction; `Borrow` and `UpWakes` are
the carry and zero flags the assembly branches on.

### Tasklet

An interrupt schedules a tasklet in two steps, the bit and the list, and may come between
any two steps of its processor. `DoSoftirq`, `TakeList` and `Restart` are `do_softirq`;
`Trylock`, `TestCount`, `Start`, `Finish` and `Requeue` are `tasklet_action` and
`tasklet_hi_action`; `BhAction`, `BhMark` and `BhDone` are `bh_action` with
`global_bh_lock`; `Kill...`, `Disable...` and `Enable` are the calls of processes. A bottom
half is a tasklet whose function is `bh_action`.

### KTimer

`internal_add_timer` is given by the list it chooses (`Level`, `Slot`), with
`jiffies` and `expires` of `TVR_BITS + 4 * TVN_BITS` bits and the signed comparison of
the code. `Requeue` is the loop of `cascade_timers`, `Cascade` the loop over the vectors. `RunBegin`, `RunCascade`, `RunTimer`, `RunReturn`, `RunNext` and `RunEnd` are the
turns of `run_timer_list`; handlers run with the lock free, so `AddTimer`,
`ModTimer` and `DelTimer` can happen while one does. `DelTimerSync`, `Synchronize`
and `SyncAgain` are `del_timer_sync`. `due` and `deleted` are history: the tick a timer has
to run on, and the timers a finished `del_timer_sync` guarantees. `CallTicks` is a bound: the
values of `jiffies` at which `add_timer` and `mod_timer` are called.

### Pipe

An action is what a process does from one `down` of `i_sem` to the next `up`. Of the
bytes only `start` and length are kept, since they decide where a copy is split and so
where it can fail half-way. `fifo_open` and `OpenAgain`, `OpenDone`, `OpenSignal` are the
open of a fifo with its wait for the other end; a pipe is opened again by `proc_lookupfd`, the
walk through `/proc/<pid>/fd`, and `pipe_open`, between which the last close may free it;
`ReadCopy`, `ReadWait`, `ReadFault` and the `Write...` operators are the loops of `pipe_read`
and `pipe_write`. `moved` is history: a copy has failed half-way since the last wake-up.

## 3. Runs

| Run | Instance | Shows |
|---|---|---|
| `ipc_ids` | 2 processes, table of 1 growing to 2, 2 sequence numbers, 4 creations, any identifiers | the invariants of the table, and `RegistrySpec`: the table implements `IpcRegistry` |
| `msg_core` | 3 processes, 3 messages of 2 types, queue limit 1 or 2, receivers with an empty buffer by type and by negative type, with `MSG_EXCEPT` or `MSG_NOERROR` | conservation of messages, no missed message, no missed room, retries use a live queue, order per type |
| `msg_removal` | 2 processes, 2 queues in turn in one slot, permissions withdrawn, `IPC_NOWAIT`, empty messages; with fairness | exact counters, sleepers stay permitted, sleepers of a removed queue return, a message handed over is received |
| `sem_core` | 3 processes, 2 semaphores, sequences of two operations, one of them a wait for zero that raises the other, and one operation with undo | values, undo balance, no missed wake-up, `GETNCNT`/`GETZCNT` |
| `sem_removal` | 2 processes, 2 arrays in turn in one slot, waits for zero, set to 0 and 1; with fairness | nothing is done to a freed or another array, sleepers told of the removal return, a retry happens |
| `shm` | 2 threads of one address space, 1 task of another, 2 segments in 2 slots, 2 areas each | attach counts are exact; nothing is leaked or destroyed twice |
| `ksem` | 3 processes, a mutex, 1 call of `up` by a process that holds nothing; with fairness | `SemaphoreSpec`: refinement of `Semaphore`; a free unit is found by a sleeper |
| `rwsem_timer` | 2 readers and 2 writers; or 2 timers, a first vector of 2 lists and four of 4, 9-bit `jiffies`, calls at 2 ticks, delays -1, 0, 2, 31, 127, 128 and 255, a bottom half up to one tick late, 1 caller of `del_timer_sync` | read-write semaphores: exclusion, no `BUG()`, the owner of the bias and readers are not stranded; timers: every one runs on its tick, `del_timer_sync` quiesces |
| `tasklet` | 2 processors, 1 tasklet, 2 bottom halves, 1 process; with fairness | linked once, serialized, quiet when disabled or killed, run when scheduled |
| `pipe` | 3 processes, buffer and `PIPE_BUF` of 3, reads and writes of 1, 2 and 4, two openings of each end of a fifo while it lives | counts are exact; no missed event |
| `shm_fork` | as `shm`, one slot, with page-table copies that fail | violation, see below |
| `sem_bug` | as `sem_removal`, without fairness | violation, see below |

**Two primitives in one run.** `MCRwSemTimer` extends `RwSem` and instantiates `KTimer` beside it.
They have no variable in common, so a behaviour of both is one of each; one is used (`used`,
chosen by the first step) while the other stays as it was initialised. The states explored
are those of the two instances, not their product, and every property speaks of one of them.

**Bounds.** `MaxCreate`, `MaxMsgs`, `MaxQueues`, `MaxArrays` and `MaxSegs` bound what is ever
created, `MaxAreas`, `MaxPosts` and `MaxOpens` what is held at once. Four creations over
two sequence numbers make an identifier recur; two queues, arrays or segments in one slot
make a sleeper find another object under its slot; three processes give a sleeper, one that
acts and one that overtakes; a limit of one or two messages is reached and left. `SEMVMX`
is 1, so that limits and the wrap of `semadj` are reached. Two threads and a second address
space give a fork beside an unmap of the same areas. Two of each kind make the
read-write semaphore hand its bias from readers to writers and back. The vectors of a timer
have two and four lists instead of 256 and 64, so that `jiffies` wraps within 512 ticks, a delay
of 128 or more is put in the fifth vector, and timers come down through all five; timers are added
and modified at the two ticks of `CallTicks` only, 383 and 510: the lists of all five vectors are
turned at 384 and at the wrap right after, and the delays reach every vector and cross the wrap. `MaxLag` lets the bottom half run late. A pipe of three bytes wraps, fills, and has
writes both of up to `PIPE_BUF` and longer than the buffer. The instances have between
45 thousand and 1.6 million distinct states. Processes are symmetric in safety runs, and the
views leave out only what decides nothing: recorded pids, `SHM_LOCKED`, the expiry of a timer
that is not queued. The message runs do not check deadlock: when all queues allowed by
`MaxQueues` have been removed no call can do anything.

**Fairness.** Only steps of a process inside a call are fair (weakly): a process that
is runnable is eventually run, and the spinlock it wants is eventually free since
every section under it is finite. Calls and signals are never assumed to
happen, nor is anyone assumed to be woken: that is what the properties are about.
In `Tasklet` a processor goes on with `do_softirq` and calls it again while something is
active, as the end of every interrupt and `schedule()` do, and a process in `tasklet_kill` or
`tasklet_disable` goes on; interrupts are not assumed to come, nor is a tasklet to be enabled.

**What is violated, and by what.** Two runs expect a violation. `shm_fork`: `dup_mmap` links an
area whose page tables it could not copy without opening it; when the failed fork is
cleaned up, `shm_close` takes away an attachment that was never counted, a segment marked
for destruction goes while somebody is attached, and a later close comes to `BUG()`. The
comment of `shm_open` says it "is called by fork, once for every shm attach". Without such
failures `AttachesCounted` holds (`shm`). `sem_bug`: after its sleep `semop` asserts
`if(queue.status != -EIDRM) BUG();` when it finds no array (`ipc/sem.c:925`). `freeary` says
EIDRM only to processes still queued; one whose operations `update_queue` has completed, and
which has not yet run when the array is removed, finds no array and status 0. It is then killed,
and the model goes on with its exit. `RemovalReleases` is therefore about the sleepers that were told
of the removal: those return.

**Other disagreements.** These are in the model as the code has them; where a property has
to make an exception for one, its formula and its comment say so. No run is spent on them.

- `ipc_lock` tests `lid > ids->size` where `>=` is meant (`ipc/util.h:72`), so an identifier
  that was never given out can read one slot past the array. `AccessInBounds` is checked and
  proved for all identifiers; it allows that one slot, and only if no object ever had it.
- `pipelined_send` uses the receiver's `msg_receiver` after publishing `r_msg`
  (`ipc/msg.c:616`); a receiver woken by a signal may have returned by then. `SndWake` of the
  model then wakes any process or none, and the properties hold regardless.
- `semop` sets `queue.alter` to `decrease` (`ipc/sem.c:906`), though `alter` means
  "operation will alter semaphore" (`include/linux/sem.h:111`): an operation that waits
  for zero and raises another semaphore is done inside `update_queue` after the processes it
  would let proceed have been passed, and they sleep on. `sem_core` has such a sequence, and
  without its last disjunct, `mixed`, TLC finds `NoMissedWakeup` violated in seven steps. The
  disjunct excuses an array from the walk that did so until the next one, and nothing else.
- Of `up_write` `include/asm-i386/semaphore.h:330` says "just release it and wake up any
  sleepers", but it looks at the carry only. With one reader and three writers: W1 holds, R1 owns
  the bias, W2 and W3 sleep; W1's `up` wakes R1 and W2; R1 takes and releases; W2 takes the
  lock, and its `up` sees no carry; W3 sleeps on a free lock until someone contends.
  `BiasNotStranded` therefore speaks of readers and owners of the bias only.
- `pipe_read_open` and its like do not test `i_pipe` (`fs/pipe.c:349`). An open through
  `/proc/<pid>/fd` pins the inode and not the file it found, so the last close may free the pipe
  first (`fs/pipe.c:308`); `pipe_open` then dereferences NULL and the process dies with `i_sem`
  down. `EndsCounted` is about the pipe while there is one, and holds with such opens.
- `pipe_read` and `pipe_write` return from a copy that fails half-way without the wake-up,
  although data or room has been made; `NoMissedEvent` excuses sleepers until the next
  event (`moved`).
- A reader that has data in hand sleeps on because `waiting_writers` counts a writer that a
  signal has already woken (`fs/pipe.c:111`). A message taken off a queue is freed although the copy
  to the caller fails (`ipc/msg.c:786`). Nothing in the repository says otherwise.
- `pipelined_send` stores the receiver's pid in `q_lspid`, so `q_lrpid` ("last receive pid")
  misses hand-overs (`ipc/msg.c:616`); an adjustment at exit may take a semaphore above
  `SEMVMX` (`ipc/sem.c:1029`); the correction of a negative value there, which "shouldn't
  happen", does when others have used what was raised with `SEM_UNDO` (`ipc/sem.c:1031`); a
  wait for zero that blocks shifts `sempid` back one operation too far (`ipc/sem.c:291`).

## 4. Proofs

`IpcIdsProofs` proves, for every number of processes, every `IPCMNI`, `InitSize` and set
of limits, every `SeqMax` up to 65535 and every `MaxCreate`:

| Theorem | Statement |
|---|---|
| `IInvHolds`, `TypeCorrect` | the inductive invariant, type correctness |
| `CountersAreExact` | `in_use` and `max_id` are exact outside `ids->sem` |
| `KeysAreUnique` | no two objects with one public key |
| `AccessesInBounds` | with any identifier, no access beyond the slot after the last, and that one only if no object ever had it |
| `IdsNotReusedEarly` | an identifier recurs only after `SeqMax + 1` creations |
| `LookupsAreSound` | a lookup finds only what was given that identifier |
| `ImplementsRegistry` | `Spec => RegistrySpec`, the refinement of `IpcRegistry` |

Assumptions: `UtilAssumption` and `IdsAssumption` (types of the constants, NULL is no
process, no object and no number of a creation). The abstract step `Register`
requires a fresh identifier, so `ImplementsRegistry` needs that two live objects differ
in their slots and that slot and sequence number can be read back from an identifier.

The invariants alone are not inductive, because each of them depends on what a process
in the middle of a call believes. `IInv` adds: exactly the holder of `ids->sem` is in a
creation or removal (`SemInv`); the copy made by `grow_ary` still equals the table when
it is swapped in (`GrowInv`), which is what makes the unlocked copy safe; the counters
are one ahead between the halves of `ipc_addid` (`CountInv`); the key being created is
not in the table (`KeyInv`); sequence numbers count creations modulo `SeqMax + 1`
(`SeqInv`, with `NextSeqCounts` about the wrap of an unsigned short); every live object
has been issued its identifier and issued slots stay within the array (`IssueInv`); a
process about to access a slot holds the one of its identifier (`LookInv`). There is one
lemma per action, under it one step per conjunct the action disturbs. TLC checked `IInv`
on the instance of `ipc_ids` before it was proved.

`KSemaphoreProofs` proves, for every finite set of processes, every initial value and
every number of calls of `up`:

| Theorem | Statement |
|---|---|
| `Invariance` | the inductive invariant `Inv` |
| `UnitsAreConserved` | no path makes or loses a unit; never more holders than units |
| `ImplementsSemaphore` | `Spec => SemaphoreSpec`, the refinement of `Semaphore` |

The only assumption is `KSemAssumption` (finitely many processes, natural numbers).
`Inv` is `TypeOK`, `WaitersHaveNone` (a process inside `down` or `down_trylock` is no
holder, so that taking a unit adds one) and `UnitsConserved`. The argument is about
`Free`, the sum of `count`, `sleepers` and the number of processes in `Pre`: one lemma per
kind of step says how it changes `Free` and `holders` (`DecrementEffect`, `TurnEffect`,
`UpEffect`, `TrylockEffect`, `MoveEffect`, the last for steps that change neither), `StepEffect`
collects them, and both the invariant and the refinement follow from that lemma, since each
effect is an abstract step or a stutter. Wait queue, task states and `semaphore_lock` play no
part in it: that a sleeper is woken is liveness, `FreeUnitFound`.

`TaskletProofs` proves, for any number of processors, tasklets, bottom halves and processes
that disable and kill, and, for `KTimer`, any number of timers and callers of `del_timer_sync`:

| Theorem | Statement |
|---|---|
| `Invariance` | the inductive invariant `Inv` |
| `TaskletsSerialized` | `Serialized`: a function runs on one processor at a time, one bottom half at all |
| `DisabledQuiesced` | `Quiesced`: after `tasklet_disable` or `tasklet_kill` nothing runs |
| `TaskletsLinkedOnce` | `LinkedOnce`: once in a list while scheduled, not at all otherwise |
| `DeletedQuiesced` | `DelSyncQuiesces`, of `KTimer`: after `del_timer_sync` a timer is neither queued nor running |

The two bits of a tasklet are locks, and the invariant says who has them: the RUN bit belongs
to the one processor between `Trylock` and `Finish` (`RunOwned`), the SCHED bit to the one
place the tasklet is in - a list, the hands of a processor or of an interrupt that is about to
link it - or to the process in `tasklet_kill` that set it (`SchedOwned`); `global_bh_lock`
to the processor in a bottom half (`BhOwned`). `NoRepeats` (no list holds a tasklet
twice) is what makes places countable, `HasList` says which processors have a list in hand.
`count` is the number of processes that have disabled (`CountExact`), and a processor that has
seen it zero has the RUN bit, which the disabling process waits for (`Quiet`).

`run_timer_list` runs as a bottom half, so the theorem about timers is proved in the same module,
on an instance `T` of `KTimer` with variables of its own, with `TimerAssumption`, the types of
the constants, as its hypothesis. Its invariant
`TimerInv` says that the lists hold only timers `del_timer_sync` is not done with, that the
timer whose function is called is `running_timer` - which is why the test under the lock is enough -
and that every index is one of its vector. Add, detach and cascade are shown to stay
within a set of timers (`AddStays`, `DetachStays`, `CascadeStays`, `AllStay`), turn by turn.

`RwSemProofs` proves, for any finite number of readers and writers:

| Theorem | Statement |
|---|---|
| `Invariance` | the inductive invariant `Inv` |
| `WritersExclude` | `Exclusion`: a writer is alone |
| `NoBUGReached` | `NoBUG`: no bias is granted twice |
| `NobodyStranded` | `BiasNotStranded`: at rest neither a reader nor an owner of the bias sleeps |

The assumption is `RwAssumption`: the bias exceeds the number of readers
(0x01000000 in the code, more than there can be tasks). `count` is an integer
of the model and 32 bits wide in the code: up to 127 writers at once cannot wrap it, and the
theorems say nothing about more. `CountExact` gives `count` as the bias less what everybody has
taken from it, counted over the processes by where they are; `Rules` is
the protocol in terms of four things only - who has subtracted, who has the lock, who owns the
bias and waits, which grant is under way: an uncontended lock has no owner of the bias,
a contended one exactly one, and one more while a grant is under way, of which there is at most
one. `GrantSeen` says that an owner of the granted kind is awake or about to be woken, `Queued`
who is on which queue and that readers stand in front, `ReadersWoken` that a reader
does not sleep on a lock no writer contends for.

`PipeProofs` proves, for any finite number of processes, buffer and request sizes:

| Theorem | Statement |
|---|---|
| `Invariance` | the inductive invariant `Inv` |
| `CountsAreExact` | `EndsCounted`: `readers`, `writers` and the waiting counts are exact, and the pipe exists as long as it is used |
| `NoEventIsMissed` | `NoMissedEvent`: nobody sleeps past what it waits for |

Each count is the cardinality of a set of processes, so every step is shown to add or take away
exactly one member (`Counted`). The wait queue holds exactly those that have not returned
(`Queued`), each with the end its call needs (`Backed`), so a wake-up reaches every sleeper. Who
sleeps has a reason (`Reasons`), and a step that wakes nobody takes nobody's reason away: for
open, because as long as the counter an open has read (`r_counter`, `w_counter`) has
not moved nobody has the other end (`Opens`). A process on its way through `/proc` counts for
nothing, and `pipe_open` counts it only if there still is a pipe. The assumptions are finitely many processes
and that NULL is neither a pipe nor a file.

`SysvShmProofs` proves, for any finite number of tasks and address spaces, any table, segment
and page numbers, provided no copy of page tables fails (`~CopyFails`):

| Theorem | Statement |
|---|---|
| `Invariance` | the inductive invariant `Inv` |
| `AttachCountsAreExact` | `AttachesCounted`: `shm_nattch` is the number of areas and of calls of `shmat` under way |
| `NoSegmentLeaks` | `NothingLeaks`: a marked segment is still attached, `shm_tot` is exact |
| `LookupsFind` | `NoBUG`: no lookup that is followed by `BUG()` fails |

Without that hypothesis they are false, which is what `shm_fork` shows: `LookupsFind` says that
the failing copy is the only way there. The invariant adds that the table has every segment
once, in the slot its identifier names (`Slotted`), what each task in the middle of a call
holds (`Shape`), and that the identifier a `shmat` or `shmget` came with still names the
segment it found (`Kept`). The argument: whoever has an area or a pin is counted, a
counted segment is not destroyed, so its slot still holds it when it is looked up again. No use is
made of `mmap_sem`: the counts are exact without it.

`SysvMsgProofs` proves, for any processes, any numbers of queues and messages, any table and
any types, sizes, flags, limits and permissions the calls are given:

| Theorem | Statement |
|---|---|
| `Invariance` | the inductive invariant `Inv` |
| `ConservedTheorem` | `MessageConserved`: every message is in exactly one place |
| `NoMissedMessageTheorem` | `NoMissedMessage`: a listed receiver has nothing to receive |
| `NoMissedRoomTheorem` | `NoMissedRoom`: a sleeping sender has no room, on a queue that exists |
| `SleepersPermittedTheorem` | `SleepersPermitted`: a sleeping receiver may read its queue |
| `RetryOnLiveQueueTheorem` | `RetryOnLiveQueue`: a retry finds its queue and itself on the list |
| `AccountingTheorem` | `Accounting`: the counters of a queue and of all queues are exact |
| `FifoTheorem` | `FifoPerType`: messages of one type leave in order |

The assumptions are `UtilAssumption` and `MsgAssumption`: the types of the constants, and that
errors, messages, processes, queues and NULL are apart. What the theorems need is spread over the
two sides of a sleep, and `Inv` ties them together: a process is on the receivers of a queue if
and only if it waits there and nobody has stored to its `r_msg`, and then its identifier names that
queue and the search finds nothing (`Receiving`); it is on the senders if and only if its
`msg_sender` is linked, and asleep only if linked and without room (`Sending`). The table has
a queue in at most one slot (`Slotted`), and only queues in the table, or the one `freeque` is
about to free, have messages (`Owned`). Conservation is stated with spots: a sender,
a queue, an `r_msg`, a copy, the freed messages (`Held`); every step moves what one spot has to
another one (`SpotMoved`) or adds a new message to one (`SpotAdded`), and ids on a queue are distinct.
Counters are cardinalities of sets of messages and of their bytes (`Amount`), so adding a
message adds its size. The loops - the walk over a list, the search with its falling `msgtyp` - are
recursive functions; `Iterate` shows, with least elements instead of an induction scheme, that
they satisfy their equations, and `SearchProps` what the search ends with. For the order, each
step either tells a process an error, hands it a message its search matches, or lets it
find one (`Orderly`). TLC checked `Inv` before it was proved.

`SysvSemProofs` proves, for any finite number of processes, any numbers of arrays and
semaphores, any table, and any sequences of operations and values the calls are given:

| Theorem | Statement |
|---|---|
| `Invariance` | the inductive invariant `Inv` |
| `Typing` | `TypeOK`: no semaphore is ever negative, `used_sems` stays within `SEMMNS` |
| `SleepersQueued` | `QueuedOnLiveArray`: a sleeper is queued on an array its identifier names |
| `UndoExact` | `UndoBalanced`: undoing everything gives the value without `SEM_UNDO` |
| `CountsShow` | `CountsWarrant`: the counts show that somebody is queued |
| `WakeupsComplete` | `NoMissedWakeup`: nobody who could proceed is passed over, with the exception its formula states (`mixed`) |
| `WritesLive` | `NoWriteAfterFree`: no step writes to a removed array |
| `UndoneOnOwn` | `UndoOnOwnArray`: `sem_exit` adjusts the array it recorded for |

The assumptions are `UtilAssumption` and `SemAssumption`: finitely many processes, a largest
value above zero, no empty sequence of operations, and NULL apart.

The invariants are not inductive, for two reasons. What a walk does to an array is
only good if every queued sequence is one `semop` accepted and has an undo structure when it
needs one; and what a process finds when it has the lock again depends on what others did to
table, queue and undo lists meanwhile. `Inv` therefore has five parts. `Tabled`: an array is in
at most one slot, `used_sems` counts those in the table. `Typed`. `Stored`: each array is
`Sound` - typed, balanced, nobody queued twice, nothing to undo for a process not in its undo list -
and an array outside the table is as new. `Alerted`: `NoMissedWakeup` of every array. And
for each process (`ProcInv`): it is in the queue of an array if and only if it waits there and
has been told nothing but to try again (`Queued`), its identifier then names that array and its
sequence can block (`Waits`), and it has one undo structure for each array
that lists it and no other valid one (`Owns`, `Listed`), with the one `sem_exit` is about to use
either still naming what it read or marked -1.

The argument has three layers. `Apply` keeps an array balanced: the adjustment it records
takes as many units from `UndoUnits` as it adds to the value, modulo the number of shorts, so
that the wrap of `semadj` cancels. `Course` and `Walk` are recursive functions; that they
satisfy their equations and keep what a turn keeps is shown with the first position at which they
would not, since no induction scheme can be used. A turn of the walk either passes, tells its
process to retry and ends, or settles it and takes it off the queue (`Turned`), and as long as it
changes no value, and the array is not marked `mixed`, those already passed must still wait
(`Calm`). Last, one lemma per
action; the sections that end with `Finish` share one lemma about what a change of one array and
a walk over its queue do to the other processes. TLC checked `Inv` on both instances first.

**Only model-checked.** Liveness (`HandedIsReceived`, `RemovalReleases`, `RetryHappens`,
`FreeUnitFound`, `ScheduledRuns`), which is beyond the prover. `OnItsTick` of `KTimer`: in which
list a timer is at which tick is arithmetic on powers of two and remainders, of which the
provers know little, and would have to be carried through a cascade of several vectors.

## 5. Plan

Done: the tables, message queues, shared memory, kernel semaphores, read-write semaphores,
tasklets, timers, pipes and System V semaphores, with proofs of all their safety
invariants. What is left:

1. `OnItsTick` of `KTimer` for vectors of any size.
2. `Keventd` and `FileLocks`: every scheduled task runs; splitting, merging and deadlock
   detection of POSIX locks against a reference definition.

## 6. Not modelled

Reading operations (`IPC_STAT`, `MSG_INFO`, `SEM_INFO`, `SHM_INFO`, `GETALL`,
`/proc/sysvipc`, `poll`, `FIONREAD`) change nothing; the counters they read are covered by
`CountersExact`, `Accounting`, `AttachesCounted` and `EndsCounted`. `ipcperms` and the
conversions between old and new structure layouts are pure. Failure of `ipc_init_ids` to
allocate at boot is left out. Multi-segment messages (`load_msg`, `store_msg`) are one
object, and the bytes of a pipe are counted, not kept. Of `kernel/timer.c` the wall clock, NTP,
process accounting and the small system calls are left out; of `kernel/sched.c` the choice
of the next task, which is a heuristic; of `kernel/fork.c` and `kernel/exit.c` all but the
address space and `sem_exit`.

Task queues and keventd (`kernel/context.c`) and file locks (`fs/locks.c`) are
the next candidates. The rest of the kernel - memory management, the VFS, file systems,
networking, drivers, architecture code, modules - is by far the larger part of the tree and
out of scope: each is a project of its own, or depends on hardware whose behaviour the
repository does not state. `PROJECT.json` gives the reason for each.
