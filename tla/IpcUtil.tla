------------------------------ MODULE IpcUtil ------------------------------
(***************************************************************************)
(* The identifier table that System V semaphores, message queues and       *)
(* shared memory share (ipc/util.c, ipc/util.h), as operators on one       *)
(* struct ipc_ids:                                                         *)
(*   [size, in_use, max_id, seq, entries]                                  *)
(* entries is the array of the code, a function on 0..size-1; a slot holds *)
(* NULL or the object's kern_ipc_perm [key, seq, obj], where obj stands    *)
(* for the identity of the allocated object (the number of its creation).  *)
(***************************************************************************)
EXTENDS Integers, FiniteSets

CONSTANTS
    NULL,         \* the null pointer
    IPC_PRIVATE,  \* the key that names no object
    IPCMNI,       \* upper bound on the size of the table, and SEQ_MULTIPLIER
    SeqMax        \* ids->seq_max, the last sequence number before the wrap

ASSUME UtilAssumption ==
    /\ IPCMNI \in Nat \ {0}
    /\ SeqMax \in Nat /\ SeqMax <= 65535

SEQ_MULTIPLIER == IPCMNI

Smaller_First(a, b) == a           \* mutant: the size is not cut at IPCMNI
Smaller(a, b) == IF a <= b THEN a ELSE b

(***************************************************************************)
(* ipc_init_ids: an empty table of the given size.                         *)
(***************************************************************************)
ipc_init_ids(sz) ==
    [size    |-> Smaller(sz, IPCMNI),
     in_use  |-> 0,
     max_id  |-> -1,
     seq     |-> 0,
     entries |-> [i \in 0 .. Smaller(sz, IPCMNI) - 1 |-> NULL]]

\* The slots that hold an object.
Live(ids) == {i \in DOMAIN ids.entries : ids.entries[i] # NULL}

\* An identifier joins a slot with the sequence number of its object.
ipc_buildid(lid, seq) == SEQ_MULTIPLIER * seq + lid
Lid(id) == id % SEQ_MULTIPLIER
ipc_checkid_Never(perm, uid) == FALSE   \* mutant: no sequence number test
ipc_checkid(perm, uid) == uid \div SEQ_MULTIPLIER # perm.seq

\* The slots up to max_id whose object has the key; the code returns the first.
KeySlots(ids, key) ==
    {i \in Live(ids) : i <= ids.max_id /\ ids.entries[i].key = key}
ipc_findkey(ids, key) ==
    IF KeySlots(ids, key) = {} THEN -1
    ELSE CHOOSE i \in KeySlots(ids, key) : \A j \in KeySlots(ids, key) : i <= j

\* The free slots ipc_addid may take when the table is limited to sz.
FreeSlots(ids, sz) == {i \in 0 .. sz - 1 : i \in DOMAIN ids.entries /\ ids.entries[i] = NULL}
FirstFree(ids, sz) ==
    CHOOSE i \in FreeSlots(ids, sz) : \A j \in FreeSlots(ids, sz) : i <= j

\* ids->seq++ on an unsigned short, then the wrap at seq_max.
NextSeq_Early(s) == IF s + 1 >= SeqMax THEN 0 ELSE s + 1  \* mutant: wraps one early
NextSeq(s) == IF (s + 1) % 65536 > SeqMax THEN 0 ELSE (s + 1) % 65536

\* The counters of the table once slot lid is claimed for a new object.
ClaimSlot(ids, lid) ==
    [ids EXCEPT !.in_use = @ + 1,
                !.max_id = IF lid > @ THEN lid ELSE @,
                !.seq = NextSeq(@)]

\* ... and the table once the object is published in that slot.
PublishSlot(ids, lid, perm) == [ids EXCEPT !.entries[lid] = perm]

\* The whole of ipc_addid, where nothing can come between its two halves.
ipc_addid(ids, key, obj) ==
    LET lid == FirstFree(ids, ids.size)
    IN  PublishSlot(ClaimSlot(ids, lid), lid,
                    [key |-> key, seq |-> ids.seq, obj |-> obj])

\* The last slot in use below lid, or -1: the loop that lowers max_id.
LastUsedBelow_NoScan(ids, lid) == lid - 1   \* mutant: no search downwards
LastUsedBelow(ids, lid) ==
    CHOOSE m \in {-1} \cup {i \in Live(ids) : i < lid} :
        \A i \in Live(ids) : i < lid => i <= m

(***************************************************************************)
(* ipc_rmid: empties slot lid, which must hold an object.                  *)
(***************************************************************************)
ipc_rmid(ids, lid) ==
    [ids EXCEPT !.entries[lid] = NULL,
                !.in_use = @ - 1,
                !.max_id = IF lid = @ THEN LastUsedBelow(ids, lid) ELSE @]
=============================================================================
