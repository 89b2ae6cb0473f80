------------------------------ MODULE SysvShm ------------------------------
(***************************************************************************)
(* System V shared memory (ipc/shm.c): shmget, shmat, shmdt, IPC_RMID and  *)
(* SHM_LOCK, with the mappings that fork, munmap and exit open and close.  *)
(*                                                                         *)
(* A segment is destroyed by whoever brings shm_nattch to 0 once it is     *)
(* marked SHM_DEST, or by IPC_RMID itself when nobody is attached. Its     *)
(* mappings hold only its file: open and close look the segment up again,  *)
(* by the identifier kept as the inode number, and BUG() if it is gone.    *)
(*                                                                         *)
(* A section under the spinlock shm_ids.ary is one action; shm_ids.sem is  *)
(* kept from one action to another by shmget only, where it allocates. The *)
(* mmap_sem of an address space is kept while its areas are changed.       *)
(***************************************************************************)
EXTENDS IpcUtil

CONSTANTS
    Tasks,
    Mms,        \* address spaces
    MmOf,       \* the address space of each task; several tasks may share one
    FirstMm,    \* the address space that exists at the start and stays
    Keys,       \* keys shmget is called with
    Pages,      \* sizes, in pages, it is called with
    shm_ctlall, \* the limit on the pages of all segments
    CopyFails,  \* whether copy_page_range may run out of memory
    MaxSegs,    \* bound on the segments ever created
    MaxAreas    \* bound on the areas of one segment in one address space

Segs == 0 .. MaxSegs - 1
Flags == {"SHM_DEST", "SHM_LOCKED"}
ShmIds == 0 .. IPCMNI * (SeqMax + 1) - 1
Perms == [key : Keys, seq : 0 .. SeqMax, obj : Segs]

ASSUME ShmAssumption ==
    /\ IsFiniteSet(Tasks) /\ IsFiniteSet(Mms)
    /\ NULL \notin Tasks /\ NULL \notin Mms /\ NULL \notin Segs /\ NULL \notin Perms
    /\ MmOf \in [Tasks -> Mms] /\ FirstMm \in Mms
    /\ IPC_PRIVATE \in Keys /\ Pages \subseteq Nat \ {0}
    /\ shm_ctlall \in Nat /\ CopyFails \in BOOLEAN
    /\ MaxSegs \in Nat /\ MaxAreas \in Nat

VARIABLES
    ids,      \* shm_ids
    seg,      \* the shmid_kernel of every segment ever created
    nsegs,    \* segments created so far
    shm_tot,  \* pages of all segments
    sem,      \* the task that keeps shm_ids.sem, or NULL
    mmap_sem, \* the task that keeps the mmap_sem of each address space, or NULL
    mms,      \* the address spaces in use
    areas,    \* how many areas of each address space map each segment
    pc,       \* where each task is
    mm,       \* the address space a task works on
    arg,      \* what a call keeps: shmid in shmat; key and pages, or slot, in shmget
    shp,      \* the segment whose file shmat maps
    vma,      \* the segment whose area a task closes
    ret       \* where shm_close returns to

segVars == <<ids, seg, nsegs, shm_tot>>
mmVars == <<mmap_sem, mms, areas>>
callVars == <<mm, arg, shp, vma, ret>>
vars == <<segVars, sem, mmVars, pc, callVars>>

Init ==
    /\ ids = ipc_init_ids(IPCMNI)
    /\ seg = [s \in Segs |-> [id |-> 0, pages |-> 0, nattch |-> 0, flags |-> {}]]
    /\ nsegs = 0 /\ shm_tot = 0
    /\ sem = NULL
    /\ mmap_sem = [m \in Mms |-> NULL]
    /\ mms = {FirstMm}
    /\ areas = [m \in Mms |-> [s \in Segs |-> 0]]
    /\ pc = [t \in Tasks |-> "idle"]
    /\ mm = MmOf
    /\ arg = [t \in Tasks |-> NULL]
    /\ shp = [t \in Tasks |-> NULL]
    /\ vma = [t \in Tasks |-> NULL]
    /\ ret = [t \in Tasks |-> "idle"]

\* The segment shm_lock finds for an identifier, or NULL. It does not look at the
\* sequence number.
shm_lock(id) ==
    LET perm == ids.entries[Lid(id)] IN IF perm = NULL THEN NULL ELSE perm.obj
shm_checkid(id) == ipc_checkid(ids.entries[Lid(id)], id)

\* The identifiers tasks pass: those with the sequence number of a creation.
Issued == {id \in ShmIds : id \div SEQ_MULTIPLIER < nsegs}

Goto(t, where) == pc' = [pc EXCEPT ![t] = where]

\* Whether t runs in user mode in an address space in use.
Running(t) == pc[t] = "idle" /\ MmOf[t] \in mms

(***************************************************************************)
(* shm_inc, and the end of an attachment with shm_destroy. Both are given  *)
(* the segment shm_lock finds; without one (see BUG) the task stops there. *)
(***************************************************************************)
shm_inc(s) == seg' = [seg EXCEPT ![s].nattch = @ + 1]

shm_destroy(s) ==
    /\ shm_tot' = shm_tot - seg[s].pages
    /\ ids' = ipc_rmid(ids, Lid(seg[s].id))

Doomed_Marked(s) == "SHM_DEST" \in seg[s].flags     \* mutant: not only the last one
Doomed(s) == seg[s].nattch = 1 /\ "SHM_DEST" \in seg[s].flags

shm_dec(s) ==
    /\ seg' = [seg EXCEPT ![s].nattch = @ - 1]
    /\ IF Doomed(s) THEN shm_destroy(s) ELSE UNCHANGED <<ids, shm_tot>>
    /\ UNCHANGED nsegs

(***************************************************************************)
(* shmget. shm_ids.sem is kept from the search for the key to the end.     *)
(***************************************************************************)
\* A new segment is due, within the limit on pages.
GetNew(t, key, n) ==
    /\ Running(t) /\ sem = NULL
    /\ key = IPC_PRIVATE \/ ipc_findkey(ids, key) = -1
    /\ shm_tot + n < shm_ctlall
    /\ sem' = t
    /\ Goto(t, "newseg")
    /\ arg' = [arg EXCEPT ![t] = [key |-> key, pages |-> n]]
    /\ UNCHANGED <<segVars, mmVars, mm, shp, vma, ret>>

\* newseg once it has its memory and its file.
Newseg(t) ==
    LET lid == FirstFree(ids, ids.size)
        new == [id |-> ipc_buildid(lid, ids.seq), pages |-> arg[t].pages,
                nattch |-> 0, flags |-> {}]
    IN  /\ pc[t] = "newseg" /\ nsegs < MaxSegs
        /\ FreeSlots(ids, ids.size) # {}
        /\ ids' = ipc_addid(ids, arg[t].key, nsegs)
        /\ seg' = [seg EXCEPT ![nsegs] = new]
        /\ nsegs' = nsegs + 1
        /\ shm_tot' = shm_tot + arg[t].pages
        /\ sem' = NULL
        /\ Goto(t, "idle")
        /\ arg' = [arg EXCEPT ![t] = NULL]
        /\ UNCHANGED <<mmVars, mm, shp, vma, ret>>

\* No memory, no file or no slot.
NewsegFails(t) ==
    /\ pc[t] = "newseg"
    /\ sem' = NULL
    /\ Goto(t, "idle")
    /\ arg' = [arg EXCEPT ![t] = NULL]
    /\ UNCHANGED <<segVars, mmVars, mm, shp, vma, ret>>

\* The key is found: its slot is locked, then permissions and size are tested.
GetFound(t, key) ==
    /\ Running(t) /\ sem = NULL
    /\ key # IPC_PRIVATE /\ ipc_findkey(ids, key) # -1
    /\ sem' = t
    /\ Goto(t, "found")
    /\ arg' = [arg EXCEPT ![t] = ipc_findkey(ids, key)]
    /\ UNCHANGED <<segVars, mmVars, mm, shp, vma, ret>>

GetLock(t) ==
    /\ pc[t] = "found" /\ shm_lock(arg[t]) # NULL
    /\ sem' = NULL
    /\ Goto(t, "idle")
    /\ arg' = [arg EXCEPT ![t] = NULL]
    /\ UNCHANGED <<segVars, mmVars, mm, shp, vma, ret>>

(***************************************************************************)
(* shmctl. IPC_SET changes only who may call: any call may be refused.     *)
(***************************************************************************)
Rmid_Mark(t, id) ==                            \* mutant: marks it in any case
    /\ Running(t) /\ sem = NULL
    /\ shm_lock(id) # NULL /\ ~shm_checkid(id)
    /\ LET s == shm_lock(id)
       IN  /\ seg' = [seg EXCEPT ![s].flags = @ \cup {"SHM_DEST"}]
           /\ ids' = [ids EXCEPT !.entries[Lid(id)].key = IPC_PRIVATE]
           /\ UNCHANGED <<nsegs, shm_tot>>
    /\ UNCHANGED <<sem, mmVars, pc, callVars>>
Rmid(t, id) ==
    /\ Running(t) /\ sem = NULL
    /\ shm_lock(id) # NULL /\ ~shm_checkid(id)
    /\ LET s == shm_lock(id)
       IN  \/ /\ seg[s].nattch # 0
              /\ seg' = [seg EXCEPT ![s].flags = @ \cup {"SHM_DEST"}]
              /\ ids' = [ids EXCEPT !.entries[Lid(id)].key = IPC_PRIVATE]
              /\ UNCHANGED <<nsegs, shm_tot>>
           \/ /\ seg[s].nattch = 0
              /\ shm_destroy(s)
              /\ UNCHANGED <<seg, nsegs>>
    /\ UNCHANGED <<sem, mmVars, pc, callVars>>

\* SHM_LOCK and SHM_UNLOCK, without shm_ids.sem.
ShmLock(t, id) ==
    /\ Running(t)
    /\ shm_lock(id) # NULL /\ ~shm_checkid(id)
    /\ \E flags \in {{}, {"SHM_LOCKED"}} :
           seg' = [seg EXCEPT ![shm_lock(id)].flags = (@ \ {"SHM_LOCKED"}) \cup flags]
    /\ UNCHANGED <<ids, nsegs, shm_tot, sem, mmVars, pc, callVars>>

(***************************************************************************)
(* shmat. shm_nattch is raised for as long as the call needs the segment.  *)
(***************************************************************************)
Shmat(t, id) ==
    LET s == shm_lock(id)
    IN  /\ Running(t) /\ s # NULL
        /\ shm_inc(s)
        /\ Goto(t, "shmat")
        /\ shp' = [shp EXCEPT ![t] = s]
        /\ arg' = [arg EXCEPT ![t] = id]
        /\ UNCHANGED <<ids, nsegs, shm_tot, sem, mmVars, mm, vma, ret>>

MmapDown(t) ==
    /\ pc[t] = "shmat" /\ mmap_sem[mm[t]] = NULL
    /\ mmap_sem' = [mmap_sem EXCEPT ![mm[t]] = t]
    /\ Goto(t, "do_mmap")
    /\ UNCHANGED <<segVars, sem, mms, areas, callVars>>

\* With SHM_RND or an address, do_mmap first unmaps what is there.
MmapClear(t, s) ==
    /\ pc[t] = "do_mmap" /\ areas[mm[t]][s] > 0
    /\ areas' = [areas EXCEPT ![mm[t]][s] = @ - 1]
    /\ Goto(t, "close")
    /\ vma' = [vma EXCEPT ![t] = s]
    /\ ret' = [ret EXCEPT ![t] = "do_mmap"]
    /\ UNCHANGED <<segVars, sem, mmap_sem, mms, mm, arg, shp>>

\* do_mmap succeeds: shm_mmap counts the new area.
Mmap(t) ==
    LET s == shm_lock(seg[shp[t]].id)
    IN  /\ pc[t] = "do_mmap" /\ s # NULL
        /\ areas[mm[t]][shp[t]] < MaxAreas
        /\ shm_inc(s)
        /\ areas' = [areas EXCEPT ![mm[t]][shp[t]] = @ + 1]
        /\ mmap_sem' = [mmap_sem EXCEPT ![mm[t]] = NULL]
        /\ Goto(t, "put")
        /\ UNCHANGED <<ids, nsegs, shm_tot, sem, mms, callVars>>

\* do_mmap fails before it calls shm_mmap.
MmapFails(t) ==
    /\ pc[t] = "do_mmap"
    /\ mmap_sem' = [mmap_sem EXCEPT ![mm[t]] = NULL]
    /\ Goto(t, "put")
    /\ UNCHANGED <<segVars, sem, mms, areas, callVars>>

\* The end of shmat: looks the identifier up again.
Put(t) ==
    LET s == shm_lock(arg[t])
    IN  /\ pc[t] = "put" /\ sem = NULL /\ s # NULL
        /\ shm_dec(s)
        /\ Goto(t, "idle")
        /\ shp' = [shp EXCEPT ![t] = NULL]
        /\ arg' = [arg EXCEPT ![t] = NULL]
        /\ UNCHANGED <<sem, mmVars, mm, vma, ret>>

(***************************************************************************)
(* Areas: shmdt and munmap, the split of an area, fork and exit.           *)
(***************************************************************************)
\* do_munmap takes a whole area off the list and closes it; shmdt, and munmap of a range
\* with several areas, is this step for each of them.
Munmap(t, s) ==
    LET m == MmOf[t]
    IN  /\ Running(t) /\ mmap_sem[m] = NULL /\ areas[m][s] > 0
        /\ mmap_sem' = [mmap_sem EXCEPT ![m] = t]
        /\ areas' = [areas EXCEPT ![m][s] = @ - 1]
        /\ Goto(t, "close")
        /\ vma' = [vma EXCEPT ![t] = s]
        /\ UNCHANGED <<segVars, sem, mms, mm, arg, shp, ret>>

shm_close(t) ==
    LET s == shm_lock(seg[vma[t]].id)
    IN  /\ pc[t] = "close" /\ sem = NULL /\ s # NULL
        /\ shm_dec(s)
        /\ Goto(t, ret[t])
        /\ vma' = [vma EXCEPT ![t] = NULL]
        /\ ret' = [ret EXCEPT ![t] = "idle"]
        /\ mmap_sem' = IF ret[t] = "idle"
                       THEN [mmap_sem EXCEPT ![mm[t]] = NULL] ELSE mmap_sem
        /\ UNCHANGED <<sem, mms, areas, mm, arg, shp>>

\* A hole in an area makes it two.
Split(t, s) ==
    LET m == MmOf[t]
        found == shm_lock(seg[s].id)
    IN  /\ Running(t) /\ mmap_sem[m] = NULL /\ found # NULL
        /\ areas[m][s] \in 1 .. MaxAreas - 1
        /\ shm_inc(found)
        /\ areas' = [areas EXCEPT ![m][s] = @ + 1]
        /\ UNCHANGED <<ids, nsegs, shm_tot, sem, mmap_sem, mms, pc, callVars>>

\* dup_mmap copies the areas of t's address space to a new one, m.
Fork(t, m) ==
    /\ Running(t) /\ mmap_sem[MmOf[t]] = NULL
    /\ m \notin mms /\ \A u \in Tasks : pc[u] # "idle" => mm[u] # m
    /\ mmap_sem' = [mmap_sem EXCEPT ![MmOf[t]] = t]
    /\ Goto(t, "dup_mmap")
    /\ mm' = [mm EXCEPT ![t] = m]
    /\ UNCHANGED <<segVars, sem, mms, areas, arg, shp, vma, ret>>

ToCopy(t) == {s \in Segs : areas[mm[t]][s] < areas[MmOf[t]][s]}

DupArea(t, s) ==
    LET found == shm_lock(seg[s].id)
    IN  /\ pc[t] = "dup_mmap" /\ s \in ToCopy(t) /\ found # NULL
        /\ shm_inc(found)
        /\ areas' = [areas EXCEPT ![mm[t]][s] = @ + 1]
        /\ UNCHANGED <<ids, nsegs, shm_tot, sem, mmap_sem, mms, pc, callVars>>

ForkDone(t) ==
    /\ pc[t] = "dup_mmap" /\ ToCopy(t) = {}
    /\ mmap_sem' = [mmap_sem EXCEPT ![MmOf[t]] = NULL]
    /\ mms' = mms \cup {mm[t]}
    /\ mm' = [mm EXCEPT ![t] = MmOf[t]]
    /\ Goto(t, "idle")
    /\ UNCHANGED <<segVars, sem, areas, arg, shp, vma, ret>>

\* No memory: what was copied is given back by exit_mmap. When it was the page tables
\* that could not be copied, the area is linked although it was not opened.
Unopened(t) ==
    {[areas EXCEPT ![mm[t]][s] = @ + 1] : s \in {s \in ToCopy(t) : CopyFails}}

ForkFails(t) ==
    /\ pc[t] = "dup_mmap"
    /\ areas' \in {areas} \cup Unopened(t)
    /\ mmap_sem' = [mmap_sem EXCEPT ![MmOf[t]] = NULL]
    /\ Goto(t, "exit_mmap")
    /\ UNCHANGED <<segVars, sem, mms, callVars>>

\* The last task of an address space exits.
Exit(t) ==
    /\ Running(t) /\ MmOf[t] # FirstMm
    /\ \A u \in Tasks : MmOf[u] = MmOf[t] => pc[u] = "idle"
    /\ mms' = mms \ {MmOf[t]}
    /\ Goto(t, "exit_mmap")
    /\ UNCHANGED <<segVars, sem, mmap_sem, areas, callVars>>

ExitArea(t, s) ==
    /\ pc[t] = "exit_mmap" /\ areas[mm[t]][s] > 0
    /\ areas' = [areas EXCEPT ![mm[t]][s] = @ - 1]
    /\ Goto(t, "close")
    /\ vma' = [vma EXCEPT ![t] = s]
    /\ ret' = [ret EXCEPT ![t] = "exit_mmap"]
    /\ UNCHANGED <<segVars, sem, mmap_sem, mms, mm, arg, shp>>

ExitDone(t) ==
    /\ pc[t] = "exit_mmap" /\ \A s \in Segs : areas[mm[t]][s] = 0
    /\ Goto(t, "idle")
    /\ mm' = [mm EXCEPT ![t] = MmOf[t]]
    /\ UNCHANGED <<segVars, sem, mmVars, arg, shp, vma, ret>>

Next ==
    \E t \in Tasks :
        \/ \E key \in Keys : GetFound(t, key) \/ \E n \in Pages : GetNew(t, key, n)
        \/ Newseg(t) \/ NewsegFails(t) \/ GetLock(t)
        \/ \E id \in Issued : Rmid(t, id) \/ ShmLock(t, id) \/ Shmat(t, id)
        \/ MmapDown(t) \/ Mmap(t) \/ MmapFails(t) \/ Put(t)
        \/ \E s \in Segs : Munmap(t, s) \/ Split(t, s) \/ MmapClear(t, s)
        \/ \E m \in Mms : Fork(t, m)
        \/ \E s \in Segs : DupArea(t, s) \/ ExitArea(t, s)
        \/ shm_close(t) \/ ForkDone(t) \/ ForkFails(t) \/ Exit(t) \/ ExitDone(t)

Spec == Init /\ [][Next]_vars

-----------------------------------------------------------------------------
Segments == {ids.entries[i].obj : i \in Live(ids)}

\* Who is attached to s: its areas, those being closed, and the calls of shmat.
AreasOf(s) == {a \in Mms \X (1 .. MaxAreas) : a[2] <= areas[a[1]][s]}
Attaches(s) ==
    Cardinality(AreasOf(s))
        + Cardinality({t \in Tasks : vma[t] = s}) + Cardinality({t \in Tasks : shp[t] = s})

\* The pages of the segments there are.
PagesInUse == UNION {{s} \X (1 .. seg[s].pages) : s \in Segments}

\* shm_nattch counts the attachments of a segment exactly, and a segment somebody is
\* attached to exists: what shm_open, shm_close and shmat count on when they look it up
\* again, by a slot that others remove and reuse, and use its file without a reference.
AttachesCounted ==
    \A s \in Segs : IF s \in Segments THEN seg[s].nattch = Attaches(s)
                                       ELSE Attaches(s) = 0

\* "... blow the name away when the usage hits zero" (ipc/shm.c:488): a segment marked
\* SHM_DEST is attached by someone who will destroy it; and shm_tot, which nothing
\* recomputes, is the number of pages of the segments there are, so memory is neither
\* leaked nor given back twice.
NothingLeaks ==
    /\ \A s \in Segments : "SHM_DEST" \in seg[s].flags => seg[s].nattch > 0
    /\ shm_tot = Cardinality(PagesInUse)

\* The lookups that are followed by BUG() if they find nothing.
BUG(t) ==
    \/ pc[t] = "found" /\ shm_lock(arg[t]) = NULL
    \/ pc[t] = "put" /\ shm_lock(arg[t]) = NULL
    \/ pc[t] = "do_mmap" /\ shm_lock(seg[shp[t]].id) = NULL
    \/ pc[t] = "close" /\ shm_lock(seg[vma[t]].id) = NULL
    \/ pc[t] = "dup_mmap" /\ \E s \in ToCopy(t) : shm_lock(seg[s].id) = NULL

\* Fork, "once for every shm attach", and exit, which cleans up after a fork that
\* failed, open and close the same areas: no lookup of shm.c comes to its BUG().
NoBUG == \A t \in Tasks : ~BUG(t)
=============================================================================
