------------------------------ MODULE IpcIds ------------------------------
(***************************************************************************)
(* The identifier table of ipc/util.c at work: processes look objects up,  *)
(* create them and remove them through the system calls that share it.     *)
(*                                                                         *)
(* Two locks protect a table. ids->sem is a semaphore held over a whole    *)
(* creation or removal, across steps that sleep; it is the variable sem.   *)
(* ids->ary is a spinlock held for one access to entries; every section    *)
(* under it is one action here. A lookup takes ary only, so it runs        *)
(* between any two steps of a creation, the growth of the array included.  *)
(***************************************************************************)
EXTENDS IpcUtil

CONSTANTS
    Procs,      \* processes
    Keys,       \* keys, IPC_PRIVATE included
    InitSize,   \* the size given to ipc_init_ids
    Limits,     \* the values the limit on objects (a sysctl) may have
    MaxCreate   \* bound on the number of objects ever created

Creations == 0 .. MaxCreate - 1
Perm == [key : Keys, seq : 0 .. SeqMax, obj : Creations]
AllIds == 0 .. IPCMNI * (SeqMax + 1) - 1
Tables == UNION {[0 .. n - 1 -> Perm \cup {NULL}] : n \in 0 .. IPCMNI}

ASSUME IdsAssumption ==
    /\ NULL \notin Procs /\ NULL \notin Perm /\ NULL \notin Creations
    /\ IPC_PRIVATE \in Keys
    /\ InitSize \in Nat
    /\ Limits \subseteq Nat
    /\ MaxCreate \in Nat

VARIABLES
    ids,      \* the table
    sem,      \* the process in ids->sem, or NULL
    pc,       \* where each process is
    key,      \* key a creating process asked for
    newtab,   \* the array grow_ary has allocated and filled
    limit,    \* size, the number of slots ipc_addid may scan
    lid,      \* slot a process works on
    newseq,   \* new->seq, the sequence number the new object was given
    uid,      \* identifier a process passed to the kernel
    found,    \* object its last lookup returned, or NULL
    created,  \* number of objects created so far
    issued    \* history: the [id, obj] pairs the kernel has returned

vars == <<ids, sem, pc, key, newtab, limit, lid, newseq, uid, found, created, issued>>

Init ==
    /\ ids = ipc_init_ids(InitSize)
    /\ sem = NULL
    /\ pc = [p \in Procs |-> "idle"]
    /\ key = [p \in Procs |-> IPC_PRIVATE]
    /\ newtab = [p \in Procs |-> [i \in {} |-> NULL]]
    /\ limit = [p \in Procs |-> 0]
    /\ lid = [p \in Procs |-> 0]
    /\ newseq = [p \in Procs |-> 0]
    /\ uid = [p \in Procs |-> 0]
    /\ found = [p \in Procs |-> NULL]
    /\ created = 0
    /\ issued = {}

Goto(p, where) == pc' = [pc EXCEPT ![p] = where]

(***************************************************************************)
(* Creation: semget, msgget and shmget.                                    *)
(***************************************************************************)
GetDown_NoWait(p, k) ==            \* mutant: down() does not wait
    /\ pc[p] = "idle"
    /\ sem' = p
    /\ key' = [key EXCEPT ![p] = k]
    /\ Goto(p, "find")
    /\ UNCHANGED <<ids, newtab, limit, lid, newseq, uid, found, created, issued>>

GetDown(p, k) ==
    /\ pc[p] = "idle" /\ sem = NULL
    /\ sem' = p
    /\ key' = [key EXCEPT ![p] = k]
    /\ Goto(p, "find")
    /\ UNCHANGED <<ids, newtab, limit, lid, newseq, uid, found, created, issued>>

\* The key is looked up. The call goes on to create the object when the key is
\* private, or when it is free and IPC_CREAT was given.
GetFind(p, create) ==
    /\ pc[p] = "find"
    /\ LET free == key[p] = IPC_PRIVATE \/ ipc_findkey(ids, key[p]) = -1
       IN  Goto(p, IF free /\ create /\ created < MaxCreate THEN "grow" ELSE "up")
    /\ UNCHANGED <<ids, sem, key, newtab, limit, lid, newseq, uid, found, created, issued>>

GrowAlloc_Shrinks(p, newsize) ==   \* mutant: no test that the array grows
    /\ pc[p] = "grow"
    /\ newtab' = [newtab EXCEPT ![p] =
          [i \in 0 .. newsize - 1 |->
             IF i < ids.size THEN ids.entries[i] ELSE NULL]]
    /\ limit' = [limit EXCEPT ![p] = newsize]
    /\ Goto(p, "swap")
    /\ UNCHANGED <<ids, sem, key, lid, newseq, uid, found, created, issued>>

\* grow_ary as far as the swap: the limit on objects, cut at IPCMNI, is lower
\* than the table is long (a sysctl may have lowered it), or a longer array is
\* allocated and filled, or the allocation fails and the table stays as it is.
GrowAlloc(p, newsize) ==
    /\ pc[p] = "grow"
    /\ IF newsize <= ids.size
       THEN /\ limit' = [limit EXCEPT ![p] = newsize]
            /\ Goto(p, "scan")
            /\ UNCHANGED newtab
       ELSE \/ /\ newtab' = [newtab EXCEPT ![p] =
                     [i \in 0 .. newsize - 1 |->
                        IF i < ids.size THEN ids.entries[i] ELSE NULL]]
               /\ limit' = [limit EXCEPT ![p] = newsize]
               /\ Goto(p, "swap")
            \/ /\ limit' = [limit EXCEPT ![p] = ids.size]
               /\ Goto(p, "scan")
               /\ UNCHANGED newtab
    /\ UNCHANGED <<ids, sem, key, lid, newseq, uid, found, created, issued>>

\* The longer array replaces the old one, under ary.
GrowSwap(p) ==
    /\ pc[p] = "swap"
    /\ ids' = [ids EXCEPT !.entries = newtab[p], !.size = limit[p]]
    /\ newtab' = [newtab EXCEPT ![p] = [i \in {} |-> NULL]]
    /\ Goto(p, "scan")
    /\ UNCHANGED <<sem, key, limit, lid, newseq, uid, found, created, issued>>

\* The first free slot is claimed, without ary; with none the call fails.
AddScan(p) ==
    /\ pc[p] = "scan"
    /\ \/ /\ FreeSlots(ids, limit[p]) = {}
          /\ Goto(p, "up")
          /\ UNCHANGED <<ids, lid, newseq>>
       \/ /\ FreeSlots(ids, limit[p]) # {}
          /\ lid' = [lid EXCEPT ![p] = FirstFree(ids, limit[p])]
          /\ newseq' = [newseq EXCEPT ![p] = ids.seq]
          /\ ids' = ClaimSlot(ids, FirstFree(ids, limit[p]))
          /\ Goto(p, "insert")
    /\ UNCHANGED <<sem, key, newtab, limit, uid, found, created, issued>>

\* The object is published under ary and its identifier returned.
AddInsert(p) ==
    /\ pc[p] = "insert"
    /\ ids' = PublishSlot(ids, lid[p],
                 [key |-> key[p], seq |-> newseq[p], obj |-> created])
    /\ issued' = issued \cup
                  {[id |-> ipc_buildid(lid[p], newseq[p]), obj |-> created]}
    /\ created' = created + 1
    /\ Goto(p, "up")
    /\ UNCHANGED <<sem, key, newtab, limit, lid, newseq, uid, found>>

Up(p) ==
    /\ pc[p] = "up"
    /\ sem' = NULL
    /\ Goto(p, "idle")
    /\ key' = [key EXCEPT ![p] = IPC_PRIVATE]   \* the locals of the call end
    /\ limit' = [limit EXCEPT ![p] = 0]
    /\ newseq' = [newseq EXCEPT ![p] = 0]
    /\ lid' = [lid EXCEPT ![p] = 0]
    /\ UNCHANGED <<ids, newtab, uid, found, created, issued>>

(***************************************************************************)
(* Removal: IPC_RMID of the three ctl calls. ids->sem is taken first, then *)
(* ipc_lock; a slot beyond the table, an empty one or an old sequence      *)
(* number end the call, as does a caller who is not the owner. Identifiers *)
(* come from user mode: any number that is not negative.                   *)
(***************************************************************************)
RmDown_AryOnly(p, id) ==           \* mutant: removal without ids->sem
    /\ pc[p] = "idle"
    /\ uid' = [uid EXCEPT ![p] = id]
    /\ lid' = [lid EXCEPT ![p] = Lid(id)]
    /\ found' = [found EXCEPT ![p] = NULL]
    /\ Goto(p, IF Lid(id) > ids.size THEN "up" ELSE "rm")
    /\ UNCHANGED <<ids, sem, key, newtab, limit, newseq, created, issued>>

RmDown(p, id) ==
    /\ pc[p] = "idle" /\ sem = NULL
    /\ sem' = p
    /\ uid' = [uid EXCEPT ![p] = id]
    /\ lid' = [lid EXCEPT ![p] = Lid(id)]
    /\ found' = [found EXCEPT ![p] = NULL]
    /\ Goto(p, IF Lid(id) > ids.size THEN "up" ELSE "rm")
    /\ UNCHANGED <<ids, key, newtab, limit, newseq, created, issued>>

\* What ipc_lock reads in its slot. The test of lid lets the slot after the last one
\* pass. If the word that follows the array is NULL the call ends; if not, the caller
\* takes it for an object, and the model does not follow: the process takes no further
\* step, as any process may.
Entry(l) == IF l \in DOMAIN ids.entries THEN ids.entries[l] ELSE NULL

RmLocked(p, owner) ==
    /\ pc[p] = "rm"
    /\ ids' = IF /\ Entry(lid[p]) # NULL
                 /\ ~ipc_checkid(Entry(lid[p]), uid[p])
                 /\ owner
              THEN ipc_rmid(ids, lid[p])
              ELSE ids
    /\ Goto(p, "up")
    /\ UNCHANGED <<sem, key, newtab, limit, lid, newseq, uid, found, created, issued>>

(***************************************************************************)
(* Lookup: ipc_lock, the test of the sequence number, ipc_unlock. The size *)
(* is tested before ary is taken.                                          *)
(***************************************************************************)
LockTest(p, id) ==
    /\ pc[p] = "idle"
    /\ uid' = [uid EXCEPT ![p] = id]
    /\ lid' = [lid EXCEPT ![p] = Lid(id)]
    /\ found' = [found EXCEPT ![p] = NULL]
    /\ Goto(p, IF Lid(id) > ids.size THEN "idle" ELSE "look")
    /\ UNCHANGED <<ids, sem, key, newtab, limit, newseq, created, issued>>

LockRead(p) ==
    /\ pc[p] = "look"
    /\ LET perm == Entry(lid[p]) IN
       found' = [found EXCEPT ![p] =
           IF perm = NULL THEN NULL
           ELSE IF ipc_checkid(perm, uid[p]) THEN NULL
           ELSE perm.obj]
    /\ Goto(p, "idle")
    /\ lid' = [lid EXCEPT ![p] = 0]
    /\ UNCHANGED <<ids, sem, key, newtab, limit, newseq, uid, created, issued>>

Next ==
    \E p \in Procs :
        \/ \E k \in Keys : GetDown(p, k)
        \/ \E c \in BOOLEAN : GetFind(p, c)
        \/ \E l \in Limits : GrowAlloc(p, Smaller(l, IPCMNI))
        \/ GrowSwap(p) \/ AddScan(p) \/ AddInsert(p) \/ Up(p)
        \/ \E id \in AllIds : RmDown(p, id) \/ LockTest(p, id)
        \/ \E o \in BOOLEAN : RmLocked(p, o)
        \/ LockRead(p)

Spec == Init /\ [][Next]_vars

-----------------------------------------------------------------------------
PcValues == {"idle", "find", "grow", "swap", "scan", "insert", "up", "rm", "look"}

\* Every variable keeps the type of the C object it stands for; the array is
\* always as long as size says and size never passes IPCMNI.
TypeOK ==
    /\ ids \in [size : 0 .. IPCMNI, in_use : Int, max_id : Int,
                seq : 0 .. SeqMax, entries : Tables]
    /\ DOMAIN ids.entries = 0 .. ids.size - 1
    /\ sem \in Procs \cup {NULL}
    /\ pc \in [Procs -> PcValues]
    /\ key \in [Procs -> Keys]
    /\ newtab \in [Procs -> Tables]
    /\ limit \in [Procs -> 0 .. IPCMNI]
    /\ lid \in [Procs -> 0 .. IPCMNI - 1]
    /\ newseq \in [Procs -> 0 .. SeqMax]
    /\ uid \in [Procs -> AllIds]
    /\ found \in [Procs -> Creations \cup {NULL}]
    /\ created \in 0 .. MaxCreate
    /\ issued \subseteq [id : AllIds, obj : Creations]

\* Whenever nobody is in ids->sem, in_use is the number of objects and max_id
\* the last slot in use: ipc_addid counts before it publishes, ipc_rmid lowers
\* max_id by a scan, and SEM_INFO, MSG_INFO, SHM_INFO and /proc rely on both.
CountersExact ==
    sem = NULL =>
        /\ ids.in_use = Cardinality(Live(ids))
        /\ ids.max_id \in Live(ids) \cup {-1}
        /\ \A i \in Live(ids) : i <= ids.max_id

\* Two objects never have the same public key: the search for the key and the
\* publication are steps apart, with a sleeping allocation between them.
KeysUnique ==
    \A i, j \in Live(ids) :
        /\ ids.entries[i].key = ids.entries[j].key
        /\ ids.entries[i].key # IPC_PRIVATE
        => i = j

\* Whatever identifier it was passed, ipc_lock reads a slot of the array, or the one
\* after the last (its test is lid > size), and that only if no object ever had that
\* slot: it tests size before it takes ary, while the array may be replaced, and a
\* lowered limit never shrinks the array under an identifier that was given out.
AccessInBounds ==
    \A p \in Procs : pc[p] \in {"rm", "look"} =>
        \/ lid[p] \in DOMAIN ids.entries
        \/ lid[p] = ids.size /\ \A r \in issued : Lid(r.id) # lid[p]

\* An identifier is not given out again before every sequence number has been
\* used: two objects that ever had the same identifier were created at least
\* seq_max + 1 creations apart, so a stale identifier is refused until then.
NoEarlyReuse ==
    \A r, s \in issued :
        r.id = s.id /\ r.obj < s.obj => s.obj - r.obj >= SeqMax + 1

\* A lookup only returns an object that the kernel gave that identifier.
LookupSound ==
    \A p \in Procs :
        found[p] # NULL => [id |-> uid[p], obj |-> found[p]] \in issued

\* The objects in the table as the callers see them.
Registered ==
    {[id  |-> ipc_buildid(i, ids.entries[i].seq),
      key |-> ids.entries[i].key,
      obj |-> ids.entries[i].obj] : i \in Live(ids)}

Registry == INSTANCE IpcRegistry
    WITH registry <- Registered, Ids <- AllIds, Objs <- Creations

\* The table behaves as one registry: objects appear and disappear one at a
\* time, and growing the array neither loses one nor brings one back.
RegistrySpec == Registry!Spec
=============================================================================
