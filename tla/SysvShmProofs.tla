--------------------------- MODULE SysvShmProofs ---------------------------
(***************************************************************************)
(* Proofs about System V shared memory, for every number of tasks, address *)
(* spaces, segments and areas, and every size of the table, as long as     *)
(* dup_mmap does not run out of memory in the middle of an area: shm_nattch *)
(* counts the attachments, nothing is leaked, and no lookup of shm.c comes *)
(* to its BUG().                                                           *)
(***************************************************************************)
EXTENDS SysvShm, FiniteSetTheorems, WellFoundedInduction, TLAPS

Slots == 0 .. IPCMNI - 1
ShmPcs == {"idle", "newseg", "found", "shmat", "do_mmap", "put", "close", "dup_mmap",
           "exit_mmap"}

\* A table of IPCMNI slots. Nothing here depends on in_use and max_id.
Table(tab) ==
    \E n, x : tab \in [size : {IPCMNI}, in_use : {n}, max_id : {x}, seq : 0 .. SeqMax,
                       entries : [Slots -> Perms \cup {NULL}]]

\* The segment in each slot of the table, or NULL.
ObjAt(tab) == [i \in Slots |-> IF tab.entries[i] = NULL THEN NULL ELSE tab.entries[i].obj]

\* The slot the identifier of a segment names.
SlotOf(s) == Lid(seg[s].id)
Exists(s) == s \in Segments

\* How many areas of each address space map each segment.
AreaMaps == [Mms -> [Segs -> 0 .. MaxAreas]]

SegTypes ==
    /\ Table(ids)
    /\ seg \in [Segs -> [id : ShmIds, pages : Nat, nattch : Int, flags : SUBSET Flags]]
    /\ nsegs \in 0 .. MaxSegs
    /\ shm_tot \in Int

TaskTypes ==
    /\ areas \in AreaMaps
    /\ pc \in [Tasks -> ShmPcs]
    /\ mm \in [Tasks -> Mms]
    /\ arg \in [Tasks -> ShmIds \cup {NULL} \cup [key : Keys, pages : Pages]]
    /\ shp \in [Tasks -> Segs \cup {NULL}]
    /\ vma \in [Tasks -> Segs \cup {NULL}]
    /\ ret \in [Tasks -> {"idle", "do_mmap", "exit_mmap"}]

\* The table holds every segment at most once, in the slot its identifier names.
Slotted ==
    \A i \in Slots : ObjAt(ids)[i] # NULL =>
        ObjAt(ids)[i] < nsegs /\ SlotOf(ObjAt(ids)[i]) = i

\* The invariant of the segments: the counters agree with the attachments and the
\* pages; PagesInUse, which is counted, is finite.
SegInv ==
    SegTypes /\ Slotted /\ AttachesCounted /\ NothingLeaks /\ IsFiniteSet(PagesInUse)

\* Where a task is tells whether it is in shmat and whether it closes an area.
Shape(t) ==
    /\ vma[t] # NULL <=> pc[t] = "close"
    /\ ret[t] # "idle" => pc[t] = "close"
    /\ shp[t] # NULL <=> pc[t] \in {"shmat", "do_mmap", "put"} \/ ret[t] = "do_mmap"

\* What a call keeps from one step to the next is still true: the identifier of shmat
\* names the slot of its segment, and the slot shmget found is not emptied, because
\* whoever removes a segment needs shm_ids.sem.
Kept(t) ==
    /\ shp[t] # NULL => arg[t] \in ShmIds /\ Lid(arg[t]) = SlotOf(shp[t])
    /\ pc[t] = "newseg" => sem = t /\ arg[t] \in [key : Keys, pages : Pages]
    /\ pc[t] = "found" => sem = t /\ arg[t] \in ShmIds /\ shm_lock(arg[t]) # NULL

Calls == \A t \in Tasks : Shape(t) /\ Kept(t)

Inv == SegInv /\ TaskTypes /\ Calls
(***************************************************************************)
(* Identifiers and slots.                                                  *)
(***************************************************************************)

\* The remainder of an identifier is its slot.
LEMMA BuildSlot ==
    ASSUME NEW l \in Slots, NEW q \in 0 .. SeqMax
    PROVE  ipc_buildid(l, q) \in ShmIds /\ Lid(ipc_buildid(l, q)) = l
<1> DEFINE n == IPCMNI * q + l
<1>1. IPCMNI \in Nat \ {0} /\ l \in 0 .. IPCMNI - 1 /\ q \in Nat /\ q <= SeqMax /\ SeqMax \in Nat
    BY UtilAssumption DEF Slots
<1>2. IPCMNI * q \in Nat
    BY <1>1, SMT
<1>3. IPCMNI * q <= IPCMNI * SeqMax /\ IPCMNI * (SeqMax + 1) = IPCMNI * SeqMax + IPCMNI
    BY <1>1, SMT
<1>4. n \in ShmIds
    BY <1>1, <1>2, <1>3, SMT DEF ShmIds
<1>5. n \div IPCMNI \in Nat /\ n % IPCMNI \in 0 .. IPCMNI - 1
      /\ n = IPCMNI * (n \div IPCMNI) + (n % IPCMNI)
    BY <1>1, <1>2, SMT
<1>6. n \div IPCMNI = q
    <2>1. CASE n \div IPCMNI < q
        <3>1. IPCMNI * (n \div IPCMNI) + IPCMNI <= IPCMNI * q
            BY <2>1, <1>1, <1>5, SMT
        <3>2. QED
            BY <3>1, <1>1, <1>2, <1>5, SMT
    <2>2. CASE n \div IPCMNI > q
        <3>1. IPCMNI * q + IPCMNI <= IPCMNI * (n \div IPCMNI)
            BY <2>2, <1>1, <1>5, SMT
        <3>2. QED
            BY <3>1, <1>1, <1>2, <1>5, SMT
    <2>3. QED
        BY <2>1, <2>2, <1>1, <1>5, SMT
<1>7. n % IPCMNI = l
    BY <1>1, <1>2, <1>5, <1>6, SMT
<1>8. QED
    BY <1>4, <1>7 DEF ipc_buildid, Lid, SEQ_MULTIPLIER

\* Every identifier names a slot of the table; a slot, as an identifier, names itself.
LEMMA IdSlot ==
    /\ \A id \in ShmIds : Lid(id) \in Slots
    /\ \A i \in Slots : i \in ShmIds /\ Lid(i) = i
    /\ 0 \in ShmIds
<1>1. IPCMNI \in Nat \ {0} /\ SeqMax \in Nat
    BY UtilAssumption
<1>2. IPCMNI * (SeqMax + 1) \in Nat /\ IPCMNI * (SeqMax + 1) >= IPCMNI
    BY <1>1, SMT
<1>3. \A id \in ShmIds : id \in Nat
    BY <1>2, SMT DEF ShmIds
<1>4. \A n \in Nat : n % IPCMNI \in 0 .. IPCMNI - 1 /\ (n < IPCMNI => n % IPCMNI = n)
    BY <1>1, SMT
<1>5. \A i \in Slots : i \in ShmIds
    BY <1>1, <1>2, SMT DEF ShmIds, Slots
<1>6. \A i \in Slots : i \in Nat /\ i < IPCMNI
    BY <1>1, SMT DEF Slots
<1>7. \A id \in ShmIds : Lid(id) \in Slots
    BY <1>3, <1>4 DEF Lid, SEQ_MULTIPLIER, Slots
<1>8. \A i \in Slots : Lid(i) = i
    BY <1>4, <1>6 DEF Lid, SEQ_MULTIPLIER
<1>9. 0 \in Slots
    BY <1>1, SMT DEF Slots
<1>10. QED
    BY <1>5, <1>7, <1>8, <1>9

\* A set of numbers that is not empty has a least element.
LEMMA LeastNumber ==
    ASSUME NEW S \in SUBSET Nat, S # {}
    PROVE  \E x \in S : \A y \in S : x <= y
<1>1. PICK x \in S : \A y \in S : ~ (<<y, x>> \in OpToRel(<, Nat))
    BY NatLessThanWellFounded, WFMin, S \subseteq Nat, Zenon
<1>2. \A y \in S : ~ (y < x)
    BY <1>1 DEF OpToRel
<1>3. QED
    BY <1>2

(***************************************************************************)
(* What the operations on the table do to its slots.                       *)
(***************************************************************************)
LEMMA TableParts ==
    ASSUME NEW tab, Table(tab)
    PROVE  /\ tab.size = IPCMNI /\ tab.seq \in 0 .. SeqMax
           /\ tab.entries \in [Slots -> Perms \cup {NULL}]
BY DEF Table

LEMMA Lookup ==
    ASSUME Table(ids), NEW id \in ShmIds
    PROVE  shm_lock(id) = ObjAt(ids)[Lid(id)]
BY IdSlot DEF shm_lock, ObjAt

LEMMA FoundSlot ==
    ASSUME NEW tab, Table(tab), NEW key, ipc_findkey(tab, key) # -1
    PROVE  ipc_findkey(tab, key) \in Slots /\ tab.entries[ipc_findkey(tab, key)] # NULL
<1> DEFINE S == KeySlots(tab, key)
<1>1. S \subseteq Slots /\ S \in SUBSET Nat /\ \A i \in S : tab.entries[i] # NULL
    BY TableParts, UtilAssumption DEF KeySlots, Live, Slots
<1>2. S # {} /\ ipc_findkey(tab, key) = CHOOSE i \in S : \A j \in S : i <= j
    BY DEF ipc_findkey
<1> HIDE DEF S
<1>3. \E x \in S : \A y \in S : x <= y
    BY <1>1, <1>2, LeastNumber
<1>4. ipc_findkey(tab, key) \in S
    BY <1>2, <1>3
<1>5. QED
    BY <1>1, <1>4

LEMMA FreeSlot ==
    ASSUME NEW tab, Table(tab), FreeSlots(tab, tab.size) # {}
    PROVE  FirstFree(tab, tab.size) \in Slots /\ tab.entries[FirstFree(tab, tab.size)] = NULL
<1> DEFINE S == FreeSlots(tab, tab.size)
<1>1. S \subseteq Slots /\ S \in SUBSET Nat /\ \A i \in S : tab.entries[i] = NULL
    BY TableParts, UtilAssumption DEF FreeSlots, Slots
<1>2. S # {} /\ FirstFree(tab, tab.size) = CHOOSE i \in S : \A j \in S : i <= j
    BY DEF FirstFree
<1> HIDE DEF S
<1>3. \E x \in S : \A y \in S : x <= y
    BY <1>1, <1>2, LeastNumber
<1>4. FirstFree(tab, tab.size) \in S
    BY <1>2, <1>3
<1>5. QED
    BY <1>1, <1>4

\* ipc_addid puts the new segment in a free slot.
LEMMA AddEffect ==
    ASSUME NEW tab, Table(tab), NEW key \in Keys, NEW s \in Segs,
           FreeSlots(tab, tab.size) # {}
    PROVE  /\ Table(ipc_addid(tab, key, s))
           /\ ObjAt(ipc_addid(tab, key, s)) = [ObjAt(tab) EXCEPT ![FirstFree(tab, tab.size)] = s]
           /\ FirstFree(tab, tab.size) \in Slots
           /\ ObjAt(tab)[FirstFree(tab, tab.size)] = NULL
<1>1. PICK l : l = FirstFree(tab, tab.size)
    OBVIOUS
<1>2. l \in Slots /\ tab.entries[l] = NULL
    BY <1>1, FreeSlot
<1>3. PICK n, x : tab \in [size : {IPCMNI}, in_use : {n}, max_id : {x}, seq : 0 .. SeqMax,
                           entries : [Slots -> Perms \cup {NULL}]]
    BY DEF Table
<1>4. PICK n1, x1, q1 : n1 = tab.in_use + 1 /\ x1 = (IF l > tab.max_id THEN l ELSE tab.max_id)
                        /\ q1 = NextSeq(tab.seq)
    OBVIOUS
<1>5. q1 \in 0 .. SeqMax
    <2>1. tab.seq \in 0 .. SeqMax
        BY <1>3
    <2>2. QED
        BY <1>4, <2>1, UtilAssumption, SMT DEF NextSeq
<1>6. PICK perm : perm = [key |-> key, seq |-> tab.seq, obj |-> s]
    OBVIOUS
<1>7. perm \in Perms /\ perm # NULL /\ perm.obj = s
    BY <1>3, <1>6, ShmAssumption DEF Perms
<1>8. ipc_addid(tab, key, s)
        = [[tab EXCEPT !.in_use = n1, !.max_id = x1, !.seq = q1] EXCEPT !.entries[l] = perm]
    <2>1. ClaimSlot(tab, l) = [tab EXCEPT !.in_use = n1, !.max_id = x1, !.seq = q1]
        BY <1>4 DEF ClaimSlot
    <2>2. ipc_addid(tab, key, s) = PublishSlot(ClaimSlot(tab, l), l, perm)
        BY <1>1, <1>6 DEF ipc_addid
    <2>3. QED
        BY <2>1, <2>2 DEF PublishSlot
<1>9. PICK new : new = ipc_addid(tab, key, s)
    OBVIOUS
<1>10. new \in [size : {IPCMNI}, in_use : {n1}, max_id : {x1}, seq : 0 .. SeqMax,
                entries : [Slots -> Perms \cup {NULL}]]
       /\ new.entries = [tab.entries EXCEPT ![l] = perm]
    <2>1. PICK mid : mid = [tab EXCEPT !.in_use = n1, !.max_id = x1, !.seq = q1]
        OBVIOUS
    <2>2. mid \in [size : {IPCMNI}, in_use : {n1}, max_id : {x1}, seq : 0 .. SeqMax,
                   entries : [Slots -> Perms \cup {NULL}]]
          /\ mid.entries = tab.entries
        BY <1>3, <1>5, <2>1
    <2>3. new = [mid EXCEPT !.entries[l] = perm]
        BY <1>8, <1>9, <2>1
    <2>4. QED
        BY <1>2, <1>7, <2>2, <2>3
<1>11. Table(new)
    BY <1>10 DEF Table
<1>12. ObjAt(new) = [ObjAt(tab) EXCEPT ![l] = s]
    BY <1>2, <1>3, <1>7, <1>10 DEF ObjAt
<1>13. ObjAt(tab)[l] = NULL
    BY <1>2 DEF ObjAt
<1>14. QED
    BY <1>1, <1>2, <1>9, <1>11, <1>12, <1>13

\* ipc_rmid empties a slot.
LEMMA RemoveEffect ==
    ASSUME NEW tab, Table(tab), NEW l \in Slots
    PROVE  /\ Table(ipc_rmid(tab, l))
           /\ ObjAt(ipc_rmid(tab, l)) = [ObjAt(tab) EXCEPT ![l] = NULL]
<1>1. PICK n, x : tab \in [size : {IPCMNI}, in_use : {n}, max_id : {x}, seq : 0 .. SeqMax,
                           entries : [Slots -> Perms \cup {NULL}]]
    BY DEF Table
<1>2. PICK n1, x1 : n1 = tab.in_use - 1
                    /\ x1 = (IF l = tab.max_id THEN LastUsedBelow(tab, l) ELSE tab.max_id)
    OBVIOUS
<1>3. ipc_rmid(tab, l) = [tab EXCEPT !.entries[l] = NULL, !.in_use = n1, !.max_id = x1]
    BY <1>2 DEF ipc_rmid
<1>4. PICK new : new = ipc_rmid(tab, l)
    OBVIOUS
<1>5. new \in [size : {IPCMNI}, in_use : {n1}, max_id : {x1}, seq : 0 .. SeqMax,
               entries : [Slots -> Perms \cup {NULL}]]
      /\ new.entries = [tab.entries EXCEPT ![l] = NULL]
    BY <1>1, <1>3, <1>4
<1>6. Table(new)
    BY <1>5 DEF Table
<1>7. ObjAt(new) = [ObjAt(tab) EXCEPT ![l] = NULL]
    BY <1>1, <1>5 DEF ObjAt
<1>8. QED
    BY <1>4, <1>6, <1>7

\* Hiding the key of a segment moves no segment.
LEMMA HideKeyEffect ==
    ASSUME NEW tab, Table(tab), NEW l \in Slots, tab.entries[l] # NULL
    PROVE  /\ Table([tab EXCEPT !.entries[l].key = IPC_PRIVATE])
           /\ ObjAt([tab EXCEPT !.entries[l].key = IPC_PRIVATE]) = ObjAt(tab)
<1>1. PICK n, x : tab \in [size : {IPCMNI}, in_use : {n}, max_id : {x}, seq : 0 .. SeqMax,
                           entries : [Slots -> Perms \cup {NULL}]]
    BY DEF Table
<1>2. PICK perm : perm = [tab.entries[l] EXCEPT !.key = IPC_PRIVATE]
    OBVIOUS
<1>3. tab.entries[l] \in Perms
    BY <1>1
<1>4. perm \in Perms /\ perm # NULL /\ perm.obj = tab.entries[l].obj
    BY <1>2, <1>3, ShmAssumption DEF Perms
<1>5. PICK new : new = [tab EXCEPT !.entries[l] = perm]
    OBVIOUS
<1>6. new = [tab EXCEPT !.entries[l].key = IPC_PRIVATE]
    BY <1>2, <1>5
<1>7. new \in [size : {IPCMNI}, in_use : {n}, max_id : {x}, seq : 0 .. SeqMax,
               entries : [Slots -> Perms \cup {NULL}]]
      /\ new.entries = [tab.entries EXCEPT ![l] = perm]
    BY <1>1, <1>4, <1>5
<1>8. Table(new)
    BY <1>7 DEF Table
<1>9. ObjAt(new) = ObjAt(tab)
    BY <1>1, <1>4, <1>7 DEF ObjAt
<1>10. QED
    BY <1>6, <1>8, <1>9
(***************************************************************************)
(* Counting attachments.                                                   *)
(***************************************************************************)
PointsTo(f, s) == {t \in Tasks : f[t] = s}
AreasIn(ar, s) == {a \in Mms \X (1 .. MaxAreas) : a[2] <= ar[a[1]][s]}

LEMMA AttachesSum ==
    ASSUME NEW s
    PROVE  Attaches(s) = Cardinality(AreasIn(areas, s)) + Cardinality(PointsTo(vma, s))
                            + Cardinality(PointsTo(shp, s))
BY DEF Attaches, AreasOf, AreasIn, PointsTo

LEMMA AttachesSumNext ==
    ASSUME NEW s
    PROVE  Attaches(s)' = Cardinality(AreasIn(areas', s)) + Cardinality(PointsTo(vma', s))
                            + Cardinality(PointsTo(shp', s))
BY DEF Attaches, AreasOf, AreasIn, PointsTo

LEMMA CountsFinite ==
    ASSUME NEW s, NEW f, NEW ar
    PROVE  /\ IsFiniteSet(PointsTo(f, s)) /\ Cardinality(PointsTo(f, s)) \in Nat
           /\ IsFiniteSet(AreasIn(ar, s)) /\ Cardinality(AreasIn(ar, s)) \in Nat
<1>1. IsFiniteSet(1 .. MaxAreas)
    BY ShmAssumption, FS_Interval
<1>2. IsFiniteSet(Mms \X (1 .. MaxAreas))
    BY <1>1, ShmAssumption, FS_Product
<1>3. IsFiniteSet(PointsTo(f, s))
    BY ShmAssumption, FS_Subset DEF PointsTo
<1>4. IsFiniteSet(AreasIn(ar, s))
    BY <1>2, FS_Subset DEF AreasIn
<1>5. QED
    BY <1>3, <1>4, FS_CardinalityType

\* A task that held no segment in f takes s.
LEMMA PointTo ==
    ASSUME NEW f \in [Tasks -> Segs \cup {NULL}], NEW t \in Tasks, NEW s \in Segs,
           f[t] = NULL, NEW x \in Segs
    PROVE  Cardinality(PointsTo([f EXCEPT ![t] = s], x))
              = Cardinality(PointsTo(f, x)) + (IF x = s THEN 1 ELSE 0)
<1>1. NULL \notin Segs
    BY ShmAssumption
<1>2. CASE x = s
    <2>1. PointsTo([f EXCEPT ![t] = s], x) = PointsTo(f, x) \cup {t} /\ t \notin PointsTo(f, x)
        BY <1>1, <1>2 DEF PointsTo
    <2>2. QED
        BY <1>2, <2>1, CountsFinite, FS_AddElement
<1>3. CASE x # s
    <2>1. PointsTo([f EXCEPT ![t] = s], x) = PointsTo(f, x)
        BY <1>1, <1>3 DEF PointsTo
    <2>2. QED
        BY <1>3, <2>1, CountsFinite
<1>4. QED
    BY <1>2, <1>3

\* A task lets go of the segment s it holds in f.
LEMMA PointAway ==
    ASSUME NEW f \in [Tasks -> Segs \cup {NULL}], NEW t \in Tasks, NEW s \in Segs,
           f[t] = s, NEW x \in Segs
    PROVE  Cardinality(PointsTo([f EXCEPT ![t] = NULL], x))
              = Cardinality(PointsTo(f, x)) - (IF x = s THEN 1 ELSE 0)
<1>1. NULL \notin Segs
    BY ShmAssumption
<1>2. CASE x = s
    <2>1. PointsTo([f EXCEPT ![t] = NULL], x) = PointsTo(f, x) \ {t} /\ t \in PointsTo(f, x)
        BY <1>1, <1>2 DEF PointsTo
    <2>2. QED
        BY <1>2, <2>1, CountsFinite, FS_RemoveElement
<1>3. CASE x # s
    <2>1. PointsTo([f EXCEPT ![t] = NULL], x) = PointsTo(f, x)
        BY <1>1, <1>3 DEF PointsTo
    <2>2. QED
        BY <1>3, <2>1, CountsFinite
<1>4. QED
    BY <1>2, <1>3

\* hi has one area of s in m more than lo.
OneArea(lo, hi, m, s) ==
    /\ hi[m][s] = lo[m][s] + 1
    /\ \A a \in Mms, y \in Segs : ~(a = m /\ y = s) => hi[a][y] = lo[a][y]

LEMMA AreaDiff ==
    ASSUME NEW lo \in AreaMaps, NEW hi \in AreaMaps, NEW m \in Mms, NEW s \in Segs,
           OneArea(lo, hi, m, s), NEW x \in Segs
    PROVE  Cardinality(AreasIn(hi, x)) = Cardinality(AreasIn(lo, x)) + (IF x = s THEN 1 ELSE 0)
<1>1. PICK n : n = hi[m][s]
    OBVIOUS
<1>2. n \in 1 .. MaxAreas /\ n = lo[m][s] + 1 /\ lo[m][s] \in Int /\ MaxAreas \in Nat
    BY <1>1, ShmAssumption DEF OneArea, AreaMaps
<1>3. \A a \in Mms, y \in Segs : ~(a = m /\ y = s) => hi[a][y] = lo[a][y]
    BY DEF OneArea
<1>4. CASE x = s
    <2>1. ASSUME NEW a \in Mms, NEW i \in 1 .. MaxAreas
          PROVE  i <= hi[a][x] <=> i <= lo[a][x] \/ (a = m /\ i = n)
        <3>1. CASE a = m
            <4>1. i \in Int /\ hi[a][x] = n /\ lo[a][x] = n - 1
                <5>1. i \in Int /\ n - 1 = lo[m][s]
                    BY <1>2
                <5>2. hi[a][x] = n /\ lo[a][x] = lo[m][s]
                    BY <1>1, <1>4, <3>1, Zenon
                <5>3. QED
                    BY <5>1, <5>2
            <4>2. i <= n <=> i <= n - 1 \/ i = n
                BY <4>1, <1>2
            <4>3. QED
                BY <3>1, <4>1, <4>2
        <3>2. CASE a # m
            BY <3>2, <1>3
        <3>3. QED
            BY <3>1, <3>2
    <2>2. ASSUME NEW a \in Mms \X (1 .. MaxAreas)
          PROVE  a \in AreasIn(hi, x) <=> a \in AreasIn(lo, x) \/ a = <<m, n>>
        <3>1. a[1] \in Mms /\ a[2] \in 1 .. MaxAreas /\ a = <<a[1], a[2]>>
            OBVIOUS
        <3>2. a = <<m, n>> <=> a[1] = m /\ a[2] = n
            BY <3>1
        <3>3. a[2] <= hi[a[1]][x] <=> a[2] <= lo[a[1]][x] \/ (a[1] = m /\ a[2] = n)
            BY <2>1, <3>1
        <3>4. QED
            BY <3>2, <3>3 DEF AreasIn
    <2>3. <<m, n>> \in Mms \X (1 .. MaxAreas)
        BY <1>2
    <2>4. AreasIn(hi, x) = AreasIn(lo, x) \cup {<<m, n>>}
        <3>1. AreasIn(hi, x) \subseteq Mms \X (1 .. MaxAreas)
              /\ AreasIn(lo, x) \subseteq Mms \X (1 .. MaxAreas)
            BY Zenon DEF AreasIn
        <3>2. QED
            BY <2>2, <2>3, <3>1, Zenon
    <2>5. <<m, n>> \notin AreasIn(lo, x)
        <3>1. ~(n <= lo[m][x])
            BY <1>2, <1>4
        <3>2. QED
            BY <3>1 DEF AreasIn
    <2>6. Cardinality(AreasIn(hi, x)) = Cardinality(AreasIn(lo, x)) + 1
        BY <2>4, <2>5, CountsFinite, FS_AddElement
    <2>7. QED
        BY <1>4, <2>6
<1>5. CASE x # s
    <2>1. AreasIn(hi, x) = AreasIn(lo, x)
        BY <1>3, <1>5 DEF AreasIn
    <2>2. Cardinality(AreasIn(lo, x)) \in Nat
        BY CountsFinite
    <2>3. QED
        BY <1>5, <2>1, <2>2
<1>6. QED
    BY <1>4, <1>5

LEMMA AreaMore ==
    ASSUME NEW ar \in AreaMaps, NEW m \in Mms, NEW s \in Segs, ar[m][s] < MaxAreas,
           NEW new, new = [ar EXCEPT ![m][s] = @ + 1]
    PROVE  new \in AreaMaps /\ OneArea(ar, new, m, s)
<1>1. ar[m][s] + 1 \in 0 .. MaxAreas
    BY ShmAssumption DEF AreaMaps
<1>2. QED
    BY <1>1 DEF AreaMaps, OneArea

LEMMA AreaLess ==
    ASSUME NEW ar \in AreaMaps, NEW m \in Mms, NEW s \in Segs, ar[m][s] > 0,
           NEW new, new = [ar EXCEPT ![m][s] = @ - 1]
    PROVE  new \in AreaMaps /\ OneArea(new, ar, m, s)
<1>1. ar[m][s] - 1 \in 0 .. MaxAreas /\ (ar[m][s] - 1) + 1 = ar[m][s]
    BY ShmAssumption DEF AreaMaps
<1>2. new[m][s] = ar[m][s] - 1 /\ new \in AreaMaps
    BY <1>1 DEF AreaMaps
<1>3. \A a \in Mms, y \in Segs : ~(a = m /\ y = s) => ar[a][y] = new[a][y]
    BY DEF AreaMaps
<1>4. QED
    BY <1>1, <1>2, <1>3 DEF OneArea

(***************************************************************************)
(* The segments there are, and their pages.                                *)
(***************************************************************************)
ObjsOf(objs) == {s \in Segs : \E i \in Slots : objs[i] = s}

LEMMA ObjType ==
    ASSUME NEW tab, Table(tab)
    PROVE  ObjAt(tab) \in [Slots -> Segs \cup {NULL}]
BY TableParts DEF ObjAt, Perms

LEMMA LiveObjects ==
    ASSUME NEW tab, Table(tab)
    PROVE  {tab.entries[i].obj : i \in Live(tab)} = ObjsOf(ObjAt(tab))
<1>1. tab.entries \in [Slots -> Perms \cup {NULL}] /\ Live(tab) = {i \in Slots : tab.entries[i] # NULL}
    BY TableParts DEF Live
<1>2. \A i \in Slots : tab.entries[i] # NULL => tab.entries[i].obj \in Segs
    BY <1>1 DEF Perms
<1>3. \A i \in Slots : tab.entries[i] # NULL => ObjAt(tab)[i] = tab.entries[i].obj
    BY DEF ObjAt
<1>4. \A i \in Slots : tab.entries[i] = NULL => ObjAt(tab)[i] = NULL
    BY DEF ObjAt
<1>5. NULL \notin Segs
    BY ShmAssumption
<1>6. QED
    BY <1>1, <1>2, <1>3, <1>4, <1>5 DEF ObjsOf

LEMMA SegmentsAre ==
    ASSUME Table(ids)
    PROVE  Segments = ObjsOf(ObjAt(ids))
BY LiveObjects, Zenon DEF Segments

\* The same after a step.
LEMMA SegmentsNext ==
    ASSUME Table(ids')
    PROVE  Segments' = ObjsOf(ObjAt(ids'))
<1>1. {ids'.entries[i].obj : i \in Live(ids')} = ObjsOf(ObjAt(ids'))
    BY LiveObjects, Zenon
<1>2. QED
    BY <1>1 DEF Segments, Live

\* A segment that exists is found in the slot of its identifier.
LEMMA ExistsInSlot ==
    ASSUME SegTypes, Slotted, NEW s \in Segs
    PROVE  /\ SlotOf(s) \in Slots /\ seg[s].id \in ShmIds
           /\ Exists(s) <=> ObjAt(ids)[SlotOf(s)] = s
           /\ Exists(s) => s < nsegs /\ shm_lock(seg[s].id) = s
<1>1. seg[s].id \in ShmIds /\ SlotOf(s) \in Slots
    BY IdSlot DEF SegTypes, SlotOf
<1>2. s # NULL
    BY ShmAssumption
<1>3. Exists(s) <=> \E i \in Slots : ObjAt(ids)[i] = s
    BY SegmentsAre DEF SegTypes, Exists, ObjsOf
<1>4. \A i \in Slots : ObjAt(ids)[i] = s => SlotOf(s) = i /\ s < nsegs
    BY <1>2 DEF Slotted
<1>5. shm_lock(seg[s].id) = ObjAt(ids)[SlotOf(s)]
    BY <1>1, Lookup DEF SegTypes, SlotOf
<1>6. QED
    BY <1>1, <1>3, <1>4, <1>5

\* Whatever a lookup finds exists.
LEMMA FoundExists ==
    ASSUME SegTypes, Slotted, NEW id \in ShmIds, shm_lock(id) # NULL
    PROVE  shm_lock(id) \in Segs /\ Exists(shm_lock(id)) /\ SlotOf(shm_lock(id)) = Lid(id)
<1>1. Lid(id) \in Slots /\ shm_lock(id) = ObjAt(ids)[Lid(id)]
    BY IdSlot, Lookup DEF SegTypes
<1>2. shm_lock(id) \in Segs
    BY <1>1, ObjType DEF SegTypes
<1>3. SlotOf(shm_lock(id)) = Lid(id)
    BY <1>1 DEF Slotted
<1>4. QED
    BY <1>1, <1>2, <1>3, ExistsInSlot

LEMMA ObjsAdd ==
    ASSUME NEW objs \in [Slots -> Segs \cup {NULL}], NEW l \in Slots, objs[l] = NULL, NEW s \in Segs
    PROVE  ObjsOf([objs EXCEPT ![l] = s]) = ObjsOf(objs) \cup {s}
BY ShmAssumption DEF ObjsOf

LEMMA ObjsRemove ==
    ASSUME NEW objs \in [Slots -> Segs \cup {NULL}], NEW l \in Slots, NEW s \in Segs, objs[l] = s,
           \A i \in Slots : objs[i] = s => i = l
    PROVE  ObjsOf([objs EXCEPT ![l] = NULL]) = ObjsOf(objs) \ {s}
BY ShmAssumption DEF ObjsOf

PagesOf(S, f) == UNION {{s} \X (1 .. f[s].pages) : s \in S}

LEMMA PagesElements ==
    ASSUME NEW S, NEW f, NEW a
    PROVE  a \in PagesOf(S, f) <=> \E s \in S : a \in {s} \X (1 .. f[s].pages)
BY Zenon DEF PagesOf

LEMMA OnePages ==
    ASSUME NEW s, NEW n \in Nat
    PROVE  IsFiniteSet({s} \X (1 .. n)) /\ Cardinality({s} \X (1 .. n)) = n
<1>1. IsFiniteSet({s}) /\ Cardinality({s}) = 1
    BY FS_Singleton
<1>2. IsFiniteSet(1 .. n) /\ Cardinality(1 .. n) = n
    BY FS_Interval
<1>3. IsFiniteSet({s} \X (1 .. n)) /\ Cardinality({s} \X (1 .. n)) = 1 * n
    <2>1. IsFiniteSet({s} \X (1 .. n))
          /\ Cardinality({s} \X (1 .. n)) = Cardinality({s}) * Cardinality(1 .. n)
        BY <1>1, <1>2, FS_Product, Zenon
    <2>2. QED
        BY <1>1, <1>2, <2>1, Zenon
<1>4. QED
    BY <1>3

\* One segment more has its own pages more.
LEMMA PagesAdd ==
    ASSUME NEW S, NEW f, NEW s, s \notin S, f[s].pages \in Nat, IsFiniteSet(PagesOf(S, f))
    PROVE  /\ IsFiniteSet(PagesOf(S \cup {s}, f))
           /\ Cardinality(PagesOf(S \cup {s}, f)) = Cardinality(PagesOf(S, f)) + f[s].pages
<1> DEFINE A == PagesOf(S, f)
           B == {s} \X (1 .. f[s].pages)
<1>1. PagesOf(S \cup {s}, f) = A \cup B
    <2> SUFFICES ASSUME NEW a PROVE a \in PagesOf(S \cup {s}, f) <=> a \in A \/ a \in B
        BY Zenon
    <2>1. a \in PagesOf(S \cup {s}, f) <=> \E z \in S \cup {s} : a \in {z} \X (1 .. f[z].pages)
        BY PagesElements, Zenon
    <2>2. a \in A <=> \E z \in S : a \in {z} \X (1 .. f[z].pages)
        BY PagesElements, Zenon
    <2>3. QED
        BY <2>1, <2>2, Zenon
<1>2. A \cap B = {}
    <2> SUFFICES ASSUME NEW a, a \in A, a \in B PROVE FALSE
        OBVIOUS
    <2>1. PICK z \in S : a \in {z} \X (1 .. f[z].pages)
        BY PagesElements
    <2>2. a[1] = z /\ a[1] = s
        BY <2>1
    <2>3. QED
        BY <2>2
<1>3. IsFiniteSet(B) /\ Cardinality(B) = f[s].pages
    BY OnePages
<1>4. IsFiniteSet(A)
    OBVIOUS
<1> HIDE DEF A, B
<1>5. IsFiniteSet(A \cup B) /\ Cardinality(A \cup B) = Cardinality(A) + Cardinality(B) - Cardinality(A \cap B)
    BY <1>3, <1>4, FS_Union
<1>6. Cardinality(A \cap B) = 0 /\ Cardinality(A) \in Nat
    BY <1>2, <1>4, FS_EmptySet, FS_CardinalityType
<1>7. QED
    <2>1. Cardinality(A \cup B) = Cardinality(A) + f[s].pages
        BY <1>3, <1>5, <1>6
    <2>2. QED
        BY <1>1, <1>5, <2>1, Zenon DEF A

LEMMA PagesRemove ==
    ASSUME NEW S, NEW f, NEW s \in S, f[s].pages \in Nat, IsFiniteSet(PagesOf(S, f))
    PROVE  /\ IsFiniteSet(PagesOf(S \ {s}, f))
           /\ Cardinality(PagesOf(S \ {s}, f)) = Cardinality(PagesOf(S, f)) - f[s].pages
<1>1. PagesOf(S \ {s}, f) \subseteq PagesOf(S, f)
    BY Zenon DEF PagesOf
<1>2. IsFiniteSet(PagesOf(S \ {s}, f)) /\ Cardinality(PagesOf(S \ {s}, f)) \in Nat
    BY <1>1, FS_Subset, FS_CardinalityType
<1>3. (S \ {s}) \cup {s} = S
    OBVIOUS
<1>4. Cardinality(PagesOf((S \ {s}) \cup {s}, f))
        = Cardinality(PagesOf(S \ {s}, f)) + f[s].pages
    BY <1>2, PagesAdd
<1>5. Cardinality(PagesOf(S, f)) = Cardinality(PagesOf(S \ {s}, f)) + f[s].pages
    BY <1>3, <1>4, Zenon
<1>6. QED
    BY <1>2, <1>5

\* Only the sizes of the segments there are matter.
LEMMA PagesSame ==
    ASSUME NEW S, NEW f, NEW g, \A s \in S : f[s].pages = g[s].pages
    PROVE  PagesOf(S, f) = PagesOf(S, g)
<1> SUFFICES ASSUME NEW a PROVE a \in PagesOf(S, f) <=> a \in PagesOf(S, g)
    BY Zenon
<1>1. a \in PagesOf(S, f) <=> \E s \in S : a \in {s} \X (1 .. f[s].pages)
    BY PagesElements, Zenon
<1>2. a \in PagesOf(S, g) <=> \E s \in S : a \in {s} \X (1 .. g[s].pages)
    BY PagesElements, Zenon
<1>3. QED
    BY <1>1, <1>2, Zenon

LEMMA PagesInUseAre == PagesInUse = PagesOf(Segments, seg)
BY DEF PagesInUse, PagesOf
(***************************************************************************)
(* The steps of the segments. Each keeps the slots of the segments there   *)
(* are, which the calls in progress rely on.                               *)
(***************************************************************************)
SlotsKept == \A x \in Segs : Exists(x) => SlotOf(x)' = SlotOf(x)
SegType == [id : ShmIds, pages : Nat, nattch : Int, flags : SUBSET Flags]

\* The counters of segment x agree with who is attached to it.
Agrees(x) ==
    /\ seg[x].nattch = Attaches(x)
    /\ "SHM_DEST" \in seg[x].flags => seg[x].nattch > 0

LEMMA AttachesNat == ASSUME NEW s PROVE Attaches(s) \in Nat
BY AttachesSum, CountsFinite

LEMMA SegmentsInSegs == ASSUME SegInv PROVE Segments \subseteq Segs
BY SegmentsAre DEF SegInv, SegTypes, ObjsOf

LEMMA CountedParts ==
    ASSUME SegInv, NEW x \in Segs
    PROVE  /\ Exists(x) => Agrees(x)
           /\ ~Exists(x) => Attaches(x) = 0
BY DEF SegInv, AttachesCounted, NothingLeaks, Exists, Agrees

\* No segment comes or goes.
LEMMA SegUpdate ==
    ASSUME SegInv, Table(ids)', ObjAt(ids)' = ObjAt(ids), nsegs' = nsegs, shm_tot' = shm_tot,
           seg' \in [Segs -> SegType],
           \A x \in Segs : seg'[x].id = seg[x].id /\ seg'[x].pages = seg[x].pages,
           \A x \in Segs : Exists(x) => Agrees(x)',
           \A x \in Segs : ~Exists(x) => Attaches(x)' = 0
    PROVE  SegInv' /\ SlotsKept
<1>1. Segments' = Segments /\ Segments \subseteq Segs
    <2>1. Segments = ObjsOf(ObjAt(ids))
        BY SegmentsAre DEF SegInv, SegTypes
    <2>2. Segments' = ObjsOf(ObjAt(ids'))
        BY SegmentsNext
    <2>3. QED
        BY <2>1, <2>2, SegmentsInSegs
<1>2. SegTypes'
    BY DEF SegInv, SegTypes, SegType
<1>3. \A x \in Segs : SlotOf(x)' = SlotOf(x)
    BY DEF SlotOf
<1>4. Slotted'
    <2> SUFFICES ASSUME NEW i \in Slots, ObjAt(ids)'[i] # NULL
                 PROVE  ObjAt(ids)'[i] < nsegs' /\ Lid(seg'[ObjAt(ids)'[i]].id) = i
        BY DEF Slotted, SlotOf
    <2>1. PICK s : s = ObjAt(ids)[i]
        OBVIOUS
    <2>2. s \in Segs /\ s < nsegs /\ SlotOf(s) = i
        BY <2>1, ObjType DEF SegInv, SegTypes, Slotted
    <2>3. QED
        BY <2>1, <2>2 DEF SlotOf
<1>5. \A x \in Segs : Exists(x)' <=> Exists(x)
    BY <1>1 DEF Exists
<1>6. AttachesCounted'
    BY <1>5 DEF AttachesCounted, Exists, Agrees
<1>7. PagesInUse' = PagesInUse
    <2>1. PagesOf(Segments, seg') = PagesOf(Segments, seg)
        BY <1>1, PagesSame
    <2>2. QED
        BY <1>1, <2>1 DEF PagesInUse, PagesOf
<1>8. NothingLeaks'
    <2>1. shm_tot' = Cardinality(PagesInUse)'
        BY <1>7 DEF SegInv, NothingLeaks
    <2>2. \A s \in Segments' : "SHM_DEST" \in seg'[s].flags => seg'[s].nattch > 0
        BY <1>1, <1>5 DEF Exists, Agrees
    <2>3. QED
        BY <2>1, <2>2 DEF NothingLeaks
<1>9. IsFiniteSet(PagesInUse)'
    BY <1>7 DEF SegInv
<1>10. QED
    BY <1>2, <1>3, <1>4, <1>6, <1>8, <1>9 DEF SegInv, SlotsKept

\* Segment s goes.
LEMMA SegRemove ==
    ASSUME SegInv, NEW s \in Segs, Exists(s), shm_destroy(s), nsegs' = nsegs,
           seg' \in [Segs -> SegType],
           \A x \in Segs : seg'[x].id = seg[x].id /\ seg'[x].pages = seg[x].pages,
           \A x \in Segs : Exists(x) /\ x # s => Agrees(x)',
           \A x \in Segs : ~Exists(x) \/ x = s => Attaches(x)' = 0
    PROVE  SegInv' /\ SlotsKept
<1>1. SlotOf(s) \in Slots /\ ObjAt(ids)[SlotOf(s)] = s
    BY ExistsInSlot DEF SegInv
<1>2. Table(ids)' /\ ObjAt(ids)' = [ObjAt(ids) EXCEPT ![SlotOf(s)] = NULL]
    <2>1. ids' = ipc_rmid(ids, SlotOf(s))
        BY DEF shm_destroy, SlotOf
    <2>2. PICK new : new = ipc_rmid(ids, SlotOf(s))
        OBVIOUS
    <2>3. Table(new) /\ ObjAt(new) = [ObjAt(ids) EXCEPT ![SlotOf(s)] = NULL]
        BY <1>1, <2>2, RemoveEffect DEF SegInv, SegTypes
    <2>4. QED
        BY <2>1, <2>2, <2>3 DEF Table, ObjAt
<1>3. Segments' = Segments \ {s} /\ Segments \subseteq Segs
    <2>1. ObjAt(ids) \in [Slots -> Segs \cup {NULL}]
        BY ObjType DEF SegInv, SegTypes
    <2>2. \A i \in Slots : ObjAt(ids)[i] = s => i = SlotOf(s)
        BY ShmAssumption DEF SegInv, Slotted
    <2>3. Segments = ObjsOf(ObjAt(ids))
        BY SegmentsAre DEF SegInv, SegTypes
    <2>4. Segments' = ObjsOf(ObjAt(ids'))
        BY <1>2, SegmentsNext
    <2>5. QED
        <3>1. ObjsOf([ObjAt(ids) EXCEPT ![SlotOf(s)] = NULL]) = ObjsOf(ObjAt(ids)) \ {s}
            BY <1>1, <2>1, <2>2, ObjsRemove
        <3>2. ObjAt(ids)' = ObjAt(ids')
            BY DEF ObjAt
        <3>3. QED
            BY <1>2, <2>3, <2>4, <3>1, <3>2, SegmentsInSegs, Zenon
<1>4. seg[s].pages \in Nat /\ shm_tot' = shm_tot - seg[s].pages /\ shm_tot \in Int
    BY DEF SegInv, SegTypes, shm_destroy
<1>5. SegTypes'
    BY <1>2, <1>4 DEF SegInv, SegTypes, SegType
<1>6. \A x \in Segs : SlotOf(x)' = SlotOf(x)
    BY DEF SlotOf
<1>7. Slotted'
    <2> SUFFICES ASSUME NEW i \in Slots, ObjAt(ids)'[i] # NULL
                 PROVE  ObjAt(ids)'[i] < nsegs' /\ Lid(seg'[ObjAt(ids)'[i]].id) = i
        BY DEF Slotted, SlotOf
    <2>1. ObjAt(ids) \in [Slots -> Segs \cup {NULL}]
        BY ObjType DEF SegInv, SegTypes
    <2>2. PICK z : z = ObjAt(ids)[i]
        OBVIOUS
    <2>3. z = ObjAt(ids)'[i]
        BY <1>1, <1>2, <2>1, <2>2
    <2>4. z \in Segs /\ z < nsegs /\ SlotOf(z) = i
        BY <2>1, <2>2, <2>3 DEF SegInv, Slotted
    <2>5. QED
        BY <2>3, <2>4 DEF SlotOf
<1>8. \A x \in Segs : Exists(x)' <=> Exists(x) /\ x # s
    BY <1>3 DEF Exists
<1>9. AttachesCounted'
    BY <1>8 DEF AttachesCounted, Exists, Agrees
<1>10. PagesInUse' = PagesOf(Segments \ {s}, seg)
    <2>1. PagesOf(Segments \ {s}, seg') = PagesOf(Segments \ {s}, seg)
        BY <1>3, PagesSame
    <2>2. QED
        BY <1>3, <2>1 DEF PagesInUse, PagesOf
<1>11. IsFiniteSet(PagesInUse') /\ Cardinality(PagesInUse') = Cardinality(PagesInUse) - seg[s].pages
    <2>1. s \in Segments /\ IsFiniteSet(PagesOf(Segments, seg))
        BY PagesInUseAre DEF Exists, SegInv
    <2>2. QED
        <3>1. /\ IsFiniteSet(PagesOf(Segments \ {s}, seg))
              /\ Cardinality(PagesOf(Segments \ {s}, seg))
                    = Cardinality(PagesOf(Segments, seg)) - seg[s].pages
            BY <1>4, <2>1, PagesRemove, Zenon
        <3>2. QED
            BY <1>10, <3>1, PagesInUseAre, Zenon
<1>12. NothingLeaks'
    <2>1. shm_tot' = Cardinality(PagesInUse')
        BY <1>4, <1>11 DEF SegInv, NothingLeaks
    <2>2. \A x \in Segments' : "SHM_DEST" \in seg'[x].flags => seg'[x].nattch > 0
        BY <1>3, <1>8 DEF Exists, Agrees
    <2>3. QED
        BY <2>1, <2>2 DEF NothingLeaks
<1>13. QED
    BY <1>5, <1>6, <1>7, <1>9, <1>11, <1>12 DEF SegInv, SlotsKept
\* A new segment gets a free slot and an identifier that names it.
LEMMA SegNew ==
    ASSUME SegInv, NEW k \in Keys, NEW n \in Nat, nsegs < MaxSegs,
           FreeSlots(ids, ids.size) # {},
           ids' = ipc_addid(ids, k, nsegs),
           seg' = [seg EXCEPT ![nsegs] =
                      [id |-> ipc_buildid(FirstFree(ids, ids.size), ids.seq), pages |-> n,
                       nattch |-> 0, flags |-> {}]],
           nsegs' = nsegs + 1, shm_tot' = shm_tot + n,
           \A x \in Segs : Attaches(x)' = Attaches(x)
    PROVE  SegInv' /\ SlotsKept /\ \A i \in Slots : ObjAt(ids)[i] # NULL => ObjAt(ids)'[i] # NULL
<1>1. PICK l : l = FirstFree(ids, ids.size)
    OBVIOUS
<1>2. PICK s : s = nsegs
    OBVIOUS
<1>3. s \in Segs /\ s \in Nat /\ nsegs' \in 0 .. MaxSegs
    BY <1>2, ShmAssumption, SMT DEF SegInv, SegTypes, Segs
<1>4. Table(ids) /\ ids.seq \in 0 .. SeqMax /\ ObjAt(ids) \in [Slots -> Segs \cup {NULL}]
    BY TableParts, ObjType DEF SegInv, SegTypes
<1>5. l \in Slots /\ ObjAt(ids)[l] = NULL /\ Table(ids)' /\ ObjAt(ids)' = [ObjAt(ids) EXCEPT ![l] = s]
    <2>1. PICK new : new = ipc_addid(ids, k, s)
        OBVIOUS
    <2>2. Table(new) /\ ObjAt(new) = [ObjAt(ids) EXCEPT ![l] = s] /\ l \in Slots /\ ObjAt(ids)[l] = NULL
        BY <1>1, <1>3, <1>4, <2>1, AddEffect
    <2>3. QED
        BY <1>2, <2>1, <2>2 DEF Table, ObjAt
<1>6. PICK id : id = ipc_buildid(l, ids.seq)
    OBVIOUS
<1>7. id \in ShmIds /\ Lid(id) = l
    BY <1>4, <1>5, <1>6, BuildSlot
<1>8. seg' = [seg EXCEPT ![s] = [id |-> id, pages |-> n, nattch |-> 0, flags |-> {}]]
    BY <1>1, <1>2, <1>6
<1>9. seg \in [Segs -> SegType] /\ seg' \in [Segs -> SegType]
    <2>1. seg \in [Segs -> SegType]
        BY DEF SegInv, SegTypes, SegType
    <2>2. [id |-> id, pages |-> n, nattch |-> 0, flags |-> {}] \in SegType
        BY <1>7 DEF SegType
    <2>3. QED
        BY <1>3, <1>8, <2>1, <2>2
<1>10. ~Exists(s)
    <2>1. ~(s < nsegs)
        BY <1>2, <1>3
    <2>2. QED
        BY <1>3, <2>1, ExistsInSlot DEF SegInv
<1>11. Segments' = Segments \cup {s} /\ Segments \subseteq Segs
    <2>1. Segments = ObjsOf(ObjAt(ids))
        BY <1>4, SegmentsAre
    <2>2. Segments' = ObjsOf(ObjAt(ids'))
        BY <1>5, SegmentsNext
    <2>3. QED
        <3>1. ObjsOf([ObjAt(ids) EXCEPT ![l] = s]) = ObjsOf(ObjAt(ids)) \cup {s}
            BY <1>3, <1>4, <1>5, ObjsAdd
        <3>2. ObjAt(ids)' = ObjAt(ids')
            BY DEF ObjAt
        <3>3. QED
            BY <1>5, <2>1, <2>2, <3>1, <3>2, SegmentsInSegs, Zenon
<1>12. \A x \in Segs : x # s => seg'[x] = seg[x]
    BY <1>3, <1>8, <1>9
<1>13. seg'[s].id = id /\ seg'[s].pages = n /\ seg'[s].nattch = 0 /\ seg'[s].flags = {}
    BY <1>3, <1>8, <1>9
<1>14. SegTypes'
    <2>1. shm_tot' \in Int
        BY DEF SegInv, SegTypes
    <2>2. QED
        BY <1>3, <1>5, <1>9, <2>1 DEF SegTypes, SegType
<1>15. SlotsKept
    BY <1>10, <1>12 DEF SlotsKept, SlotOf
<1>16. Slotted'
    <2> SUFFICES ASSUME NEW i \in Slots, ObjAt(ids)'[i] # NULL
                 PROVE  ObjAt(ids)'[i] < nsegs' /\ Lid(seg'[ObjAt(ids)'[i]].id) = i
        BY DEF Slotted, SlotOf
    <2>1. CASE i = l
        <3>1. ObjAt(ids)'[i] = s /\ s < nsegs'
            BY <1>2, <1>3, <1>4, <1>5, <2>1
        <3>2. QED
            BY <3>1, <1>7, <1>13, <2>1
    <2>2. CASE i # l
        <3>1. PICK z : z = ObjAt(ids)[i]
            OBVIOUS
        <3>2. z = ObjAt(ids)'[i] /\ z \in Segs
            BY <1>4, <1>5, <2>2, <3>1
        <3>3. z < nsegs /\ SlotOf(z) = i
            BY <3>1, <3>2 DEF SegInv, Slotted
        <3>4. z # s /\ z < nsegs'
            BY <1>2, <1>3, <3>2, <3>3, ShmAssumption, SMT DEF Segs
        <3>5. QED
            BY <1>12, <3>2, <3>3, <3>4 DEF SlotOf
    <2>3. QED
        BY <2>1, <2>2
<1>17. \A x \in Segs : Exists(x)' <=> Exists(x) \/ x = s
    BY <1>11 DEF Exists
<1>18. AttachesCounted'
    <2> SUFFICES ASSUME NEW x \in Segs
                 PROVE  IF Exists(x)' THEN seg'[x].nattch = Attaches(x)' ELSE Attaches(x)' = 0
        BY DEF AttachesCounted, Exists
    <2>1. CASE x = s
        BY <1>10, <1>13, <1>17, <2>1, CountedParts
    <2>2. CASE x # s
        BY <1>12, <1>17, <2>2, CountedParts DEF Agrees
    <2>3. QED
        BY <2>1, <2>2
<1>19. PagesInUse' = PagesOf(Segments \cup {s}, seg')
    BY <1>11 DEF PagesInUse, PagesOf
<1>20. PagesOf(Segments, seg') = PagesInUse
    <2>1. \A x \in Segments : seg'[x].pages = seg[x].pages
        BY <1>10, <1>11, <1>12 DEF Exists
    <2>2. PagesOf(Segments, seg') = PagesOf(Segments, seg)
        BY <2>1, PagesSame
    <2>3. QED
        BY <2>2, PagesInUseAre
<1>21. IsFiniteSet(PagesInUse') /\ Cardinality(PagesInUse') = Cardinality(PagesInUse) + n
    <2>1. IsFiniteSet(PagesOf(Segments, seg')) /\ s \notin Segments /\ seg'[s].pages \in Nat
        BY <1>10, <1>13, <1>20 DEF SegInv, Exists
    <2>2. QED
        <3>1. /\ IsFiniteSet(PagesOf(Segments \cup {s}, seg'))
              /\ Cardinality(PagesOf(Segments \cup {s}, seg'))
                    = Cardinality(PagesOf(Segments, seg')) + seg'[s].pages
            BY ONLY <2>1, PagesAdd, Zenon
        <3>2. QED
            BY <1>13, <1>19, <1>20, <3>1, Zenon
<1>22. NothingLeaks'
    <2>1. shm_tot' = Cardinality(PagesInUse')
        BY <1>21 DEF SegInv, NothingLeaks
    <2>2. \A x \in Segments' : "SHM_DEST" \in seg'[x].flags => seg'[x].nattch > 0
        <3> SUFFICES ASSUME NEW x \in Segs, Exists(x)', "SHM_DEST" \in seg'[x].flags
                     PROVE  seg'[x].nattch > 0
            BY <1>3, <1>11 DEF Exists
        <3>1. x # s
            BY <1>13
        <3>2. QED
            BY <1>12, <1>17, <3>1, CountedParts DEF Agrees
    <2>3. QED
        BY <2>1, <2>2 DEF NothingLeaks
<1>23. \A i \in Slots : ObjAt(ids)[i] # NULL => ObjAt(ids)'[i] # NULL
    BY <1>4, <1>5
<1>24. QED
    BY <1>14, <1>15, <1>16, <1>18, <1>21, <1>22, <1>23 DEF SegInv

Moved(s, d) == \A x \in Segs : Attaches(x)' = Attaches(x) + (IF x = s THEN d ELSE 0)
Still == \A x \in Segs : Attaches(x)' = Attaches(x)

LEMMA SegStill ==
    ASSUME SegInv, UNCHANGED segVars, Still
    PROVE  SegInv' /\ SlotsKept
<1>1. Table(ids)' /\ ObjAt(ids)' = ObjAt(ids)
    BY DEF SegInv, SegTypes, Table, ObjAt, segVars
<1>2. seg' = seg /\ seg \in [Segs -> SegType] /\ nsegs' = nsegs /\ shm_tot' = shm_tot
    BY DEF SegInv, SegTypes, SegType, segVars
<1>3. \A x \in Segs : Exists(x) => Agrees(x)'
    BY <1>2, CountedParts DEF Still, Agrees
<1>4. \A x \in Segs : ~Exists(x) => Attaches(x)' = 0
    BY CountedParts DEF Still
<1>5. QED
    BY <1>1, <1>2, <1>3, <1>4, SegUpdate

LEMMA SegInc ==
    ASSUME SegInv, NEW s \in Segs, Exists(s), shm_inc(s), UNCHANGED <<ids, nsegs, shm_tot>>,
           Moved(s, 1)
    PROVE  SegInv' /\ SlotsKept
<1>1. Table(ids)' /\ ObjAt(ids)' = ObjAt(ids)
    BY DEF SegInv, SegTypes, Table, ObjAt
<1>2. seg \in [Segs -> SegType]
    BY DEF SegInv, SegTypes, SegType
<1>3. seg' = [seg EXCEPT ![s].nattch = @ + 1]
    BY DEF shm_inc
<1>4. seg' \in [Segs -> SegType]
    BY <1>2, <1>3 DEF SegType
<1>5. \A x \in Segs : /\ seg'[x].id = seg[x].id /\ seg'[x].pages = seg[x].pages
                      /\ seg'[x].flags = seg[x].flags
                      /\ seg'[x].nattch = seg[x].nattch + (IF x = s THEN 1 ELSE 0)
    BY <1>2, <1>3 DEF SegType
<1>6. \A x \in Segs : Exists(x) => Agrees(x)'
    <2> SUFFICES ASSUME NEW x \in Segs, Exists(x) PROVE Agrees(x)'
        OBVIOUS
    <2>1. seg[x].nattch = Attaches(x) /\ Attaches(x) \in Nat
          /\ ("SHM_DEST" \in seg[x].flags => seg[x].nattch > 0)
        BY CountedParts, AttachesNat DEF Agrees
    <2>2. Attaches(x)' = Attaches(x) + (IF x = s THEN 1 ELSE 0)
        BY DEF Moved
    <2>3. QED
        BY <1>5, <2>1, <2>2 DEF Agrees
<1>7. \A x \in Segs : ~Exists(x) => Attaches(x)' = 0
    <2> SUFFICES ASSUME NEW x \in Segs, ~Exists(x) PROVE Attaches(x)' = 0
        OBVIOUS
    <2>1. x # s /\ Attaches(x) = 0
        BY CountedParts
    <2>2. QED
        BY <2>1 DEF Moved
<1>8. QED
    BY <1>1, <1>4, <1>5, <1>6, <1>7, SegUpdate

LEMMA SegDec ==
    ASSUME SegInv, NEW s \in Segs, Exists(s), shm_dec(s), Moved(s, -1)
    PROVE  SegInv' /\ SlotsKept
<1>1. seg \in [Segs -> SegType]
    BY DEF SegInv, SegTypes, SegType
<1>2. seg' = [seg EXCEPT ![s].nattch = @ - 1] /\ nsegs' = nsegs
    BY DEF shm_dec
<1>3. seg' \in [Segs -> SegType]
    BY <1>1, <1>2 DEF SegType
<1>4. \A x \in Segs : /\ seg'[x].id = seg[x].id /\ seg'[x].pages = seg[x].pages
                      /\ seg'[x].flags = seg[x].flags
                      /\ seg'[x].nattch = seg[x].nattch - (IF x = s THEN 1 ELSE 0)
    BY <1>1, <1>2 DEF SegType
<1>5. \A x \in Segs : Attaches(x) \in Nat /\ Attaches(x)' \in Nat
    BY AttachesNat, AttachesSumNext, CountsFinite
<1>6. Attaches(s)' = Attaches(s) - 1 /\ seg[s].nattch = Attaches(s)
    BY <1>5, CountedParts DEF Moved, Agrees
<1>7. \A x \in Segs : x # s => Attaches(x)' = Attaches(x)
    BY <1>5 DEF Moved
<1>8. \A x \in Segs : Exists(x) /\ x # s => Agrees(x)'
    BY <1>1, <1>4, <1>7, CountedParts DEF Agrees, SegType
<1>9. \A x \in Segs : ~Exists(x) => Attaches(x)' = 0
    BY <1>7, CountedParts
<1>10. CASE Doomed(s)
    <2>1. shm_destroy(s)
        BY <1>10 DEF shm_dec
    <2>2. Attaches(s)' = 0
        BY <1>6, <1>10 DEF Doomed
    <2>3. QED
        BY <1>2, <1>3, <1>4, <1>8, <1>9, <2>1, <2>2, SegRemove
<1>11. CASE ~Doomed(s)
    <2>1. ids' = ids /\ shm_tot' = shm_tot
        BY <1>11 DEF shm_dec
    <2>2. Table(ids)' /\ ObjAt(ids)' = ObjAt(ids)
        BY <2>1 DEF SegInv, SegTypes, Table, ObjAt
    <2>3. Agrees(s)'
        <3>1. seg'[s].nattch = Attaches(s)'
            BY <1>4, <1>6
        <3>2. "SHM_DEST" \in seg'[s].flags => seg[s].nattch # 1
            BY <1>4, <1>11 DEF Doomed
        <3>3. QED
            BY <1>4, <1>5, <1>6, <3>1, <3>2 DEF Agrees
    <2>4. QED
        BY <1>2, <1>3, <1>4, <1>8, <1>9, <2>1, <2>2, <2>3, SegUpdate
<1>12. QED
    BY <1>10, <1>11
(***************************************************************************)
(* Whoever is attached holds the segment in existence.                     *)
(***************************************************************************)
LEMMA HeldExists ==
    ASSUME SegInv, TaskTypes, NEW s \in Segs, Attaches(s) # 0
    PROVE  Exists(s) /\ shm_lock(seg[s].id) = s
BY CountedParts, ExistsInSlot DEF SegInv

LEMMA PointerHolds ==
    ASSUME SegInv, TaskTypes, NEW t \in Tasks, NEW s \in Segs, shp[t] = s \/ vma[t] = s
    PROVE  Exists(s) /\ shm_lock(seg[s].id) = s
<1>1. t \in PointsTo(shp, s) \/ t \in PointsTo(vma, s)
    BY DEF PointsTo
<1>2. Cardinality(PointsTo(shp, s)) # 0 \/ Cardinality(PointsTo(vma, s)) # 0
    BY <1>1, CountsFinite, FS_EmptySet
<1>3. Attaches(s) # 0
    BY <1>2, AttachesSum, CountsFinite
<1>4. QED
    BY <1>3, HeldExists

LEMMA AreaHolds ==
    ASSUME SegInv, TaskTypes, NEW m \in Mms, NEW s \in Segs, areas[m][s] > 0
    PROVE  Exists(s) /\ shm_lock(seg[s].id) = s
<1>1. <<m, 1>> \in AreasIn(areas, s)
    <2>1. areas[m][s] \in 0 .. MaxAreas /\ MaxAreas \in Nat
        BY ShmAssumption DEF TaskTypes, AreaMaps
    <2>2. 1 \in 1 .. MaxAreas /\ 1 <= areas[m][s]
        BY <2>1
    <2>3. QED
        BY <2>2 DEF AreasIn
<1>2. Cardinality(AreasIn(areas, s)) # 0
    BY <1>1, CountsFinite, FS_EmptySet
<1>3. Attaches(s) # 0
    BY <1>2, AttachesSum, CountsFinite
<1>4. QED
    BY <1>3, HeldExists

(***************************************************************************)
(* The other tasks. A step of t leaves what they keep true: it empties no  *)
(* slot, or nobody is in shm_ids.sem.                                      *)
(***************************************************************************)
TableKept == \A i \in Slots : ObjAt(ids)[i] # NULL => ObjAt(ids)'[i] # NULL

Others(t) ==
    \A u \in Tasks \ {t} :
        pc'[u] = pc[u] /\ arg'[u] = arg[u] /\ shp'[u] = shp[u] /\ vma'[u] = vma[u]
            /\ ret'[u] = ret[u]

SemStep(t) == sem' = sem \/ sem = NULL \/ sem = t

LEMMA OthersStep ==
    ASSUME Inv, NEW t \in Tasks, SegInv', TaskTypes', SlotsKept, Others(t), SemStep(t),
           TableKept \/ sem = NULL, Shape(t)', Kept(t)'
    PROVE  Inv'
<1> SUFFICES ASSUME NEW u \in Tasks PROVE Shape(u)' /\ Kept(u)'
    BY DEF Inv, Calls
<1>1. CASE u = t
    BY <1>1
<1>2. CASE u # t
    <2>1. /\ pc'[u] = pc[u] /\ arg'[u] = arg[u] /\ shp'[u] = shp[u] /\ vma'[u] = vma[u]
          /\ ret'[u] = ret[u]
        BY <1>2 DEF Others
    <2>2. Shape(u) /\ Kept(u)
        BY DEF Inv, Calls
    <2>3. Shape(u)'
        BY <2>1, <2>2 DEF Shape
    <2>4. shp[u] # NULL => Lid(seg'[shp[u]].id) = SlotOf(shp[u])
        <3>1. shp[u] \in Segs \cup {NULL}
            BY DEF Inv, TaskTypes
        <3>2. shp[u] \in Segs => Exists(shp[u])
            BY PointerHolds DEF Inv
        <3>3. QED
            BY <3>1, <3>2 DEF SlotsKept, SlotOf
    <2>5. pc[u] = "found" => sem' = u /\ shm_lock(arg[u])' # NULL
        <3> SUFFICES ASSUME pc[u] = "found" PROVE sem' = u /\ shm_lock(arg[u])' # NULL
            OBVIOUS
        <3>1. sem = u /\ arg[u] \in ShmIds /\ shm_lock(arg[u]) # NULL
            BY <2>2 DEF Kept
        <3>2. sem # NULL /\ sem' = u /\ TableKept
            BY <1>2, <3>1, ShmAssumption DEF SemStep
        <3>3. Lid(arg[u]) \in Slots /\ shm_lock(arg[u]) = ObjAt(ids)[Lid(arg[u])]
            BY <3>1, IdSlot, Lookup DEF Inv, SegInv, SegTypes
        <3>4. ObjAt(ids)'[Lid(arg[u])] # NULL
            BY <3>1, <3>2, <3>3 DEF TableKept
        <3>5. shm_lock(arg[u])' = ObjAt(ids)'[Lid(arg[u])]
            BY <2>1, <3>3 DEF shm_lock, ObjAt
        <3>6. QED
            BY <3>2, <3>4, <3>5
    <2>6. Kept(u)'
        <3>1. shp'[u] # NULL => arg'[u] \in ShmIds /\ Lid(arg'[u]) = Lid(seg'[shp'[u]].id)
            BY <2>1, <2>2, <2>4 DEF Kept
        <3>2. pc'[u] = "newseg" => sem' = u /\ arg'[u] \in [key : Keys, pages : Pages]
            BY <1>2, <2>1, <2>2, ShmAssumption DEF Kept, SemStep
        <3>3. pc'[u] = "found" => sem' = u /\ arg'[u] \in ShmIds /\ shm_lock(arg[u])' # NULL
            BY <2>1, <2>2, <2>5 DEF Kept
        <3>4. QED
            BY <3>1, <3>2, <3>3 DEF Kept, SlotOf
    <2>7. QED
        BY <2>3, <2>6
<1>3. QED
    BY <1>1, <1>2

LEMMA SameTable == ASSUME ids' = ids PROVE TableKept
BY DEF TableKept, ObjAt

\* A step that touches neither segments nor areas nor pointers to segments.
LEMMA QuietStill ==
    ASSUME UNCHANGED <<areas, vma, shp>>
    PROVE  Still
BY DEF Still, Attaches, AreasOf

LEMMA QuietStep ==
    ASSUME Inv, NEW t \in Tasks, UNCHANGED <<segVars, areas, vma, shp>>,
           TaskTypes', Others(t), SemStep(t), Shape(t)',
           pc'[t] = "newseg" => sem' = t /\ arg'[t] \in [key : Keys, pages : Pages],
           pc'[t] = "found" => sem' = t /\ arg'[t] \in ShmIds /\ shm_lock(arg'[t]) # NULL,
           shp[t] # NULL => arg'[t] = arg[t]
    PROVE  Inv'
<1>1. Still
    BY QuietStill
<1>2. SegInv' /\ SlotsKept
    BY <1>1, SegStill DEF Inv
<1>3. ids' = ids /\ seg' = seg
    BY DEF segVars
<1>4. TableKept
    BY <1>3, SameTable
<1>5. Kept(t)'
    <2>1. Kept(t)
        BY DEF Inv, Calls
    <2>2. shp'[t] # NULL => arg'[t] \in ShmIds /\ Lid(arg'[t]) = Lid(seg'[shp'[t]].id)
        BY <1>3, <2>1 DEF Kept, SlotOf
    <2>3. shm_lock(arg[t])' = shm_lock(arg'[t])
        BY <1>3 DEF shm_lock
    <2>4. QED
        BY <2>2, <2>3 DEF Kept, SlotOf
<1>6. QED
    BY <1>2, <1>4, <1>5, OthersStep
(***************************************************************************)
(* The steps that leave segments, areas and attachments alone.             *)
(***************************************************************************)
LEMMA Shapes == ASSUME Inv, NEW t \in Tasks PROVE Shape(t) /\ Kept(t)
BY DEF Inv, Calls

LEMMA GetStep ==
    ASSUME Inv, NEW t \in Tasks, NEW key \in Keys,
           GetFound(t, key) \/ \E n \in Pages : GetNew(t, key, n)
    PROVE  Inv'
<1> USE DEF Goto
<1>1. Shape(t) /\ TaskTypes
    BY Shapes DEF Inv
<1>2. CASE GetFound(t, key)
    <2>1. PICK i : i = ipc_findkey(ids, key)
        OBVIOUS
    <2>2. i \in Slots /\ ids.entries[i] # NULL
        BY <1>2, <2>1, FoundSlot DEF GetFound, Inv, SegInv, SegTypes
    <2>3. i \in ShmIds /\ Lid(i) = i
        BY <2>2, IdSlot
    <2>4. shm_lock(i) # NULL
        <3>1. ids.entries \in [Slots -> Perms \cup {NULL}]
            BY TableParts DEF Inv, SegInv, SegTypes
        <3>2. ids.entries[i].obj \in Segs
            BY <2>2, <3>1 DEF Perms
        <3>3. QED
            BY <2>2, <2>3, <3>2, ShmAssumption DEF shm_lock
    <2>5. /\ pc[t] = "idle" /\ sem = NULL /\ sem' = t
          /\ pc' = [pc EXCEPT ![t] = "found"] /\ arg' = [arg EXCEPT ![t] = i]
          /\ UNCHANGED <<segVars, areas, mm, shp, vma, ret>>
        BY <1>2, <2>1 DEF GetFound, Running, mmVars
    <2>6. TaskTypes' /\ pc'[t] = "found" /\ arg'[t] = i
        BY <1>1, <2>3, <2>5 DEF TaskTypes, ShmPcs
    <2>7. Shape(t)'
        BY <1>1, <2>5, <2>6 DEF Shape
    <2>8. Others(t)
        BY <1>1, <2>5 DEF Others, TaskTypes
    <2>9. shp[t] = NULL
        BY <1>1, <2>5 DEF Shape
    <2>10. QED
        BY <2>3, <2>4, <2>5, <2>6, <2>7, <2>8, <2>9, QuietStep DEF SemStep
<1>3. ASSUME NEW n \in Pages, GetNew(t, key, n) PROVE Inv'
    <2>1. PICK a : a = [key |-> key, pages |-> n]
        OBVIOUS
    <2>2. a \in [key : Keys, pages : Pages]
        BY <2>1
    <2>3. /\ pc[t] = "idle" /\ sem = NULL /\ sem' = t
          /\ pc' = [pc EXCEPT ![t] = "newseg"] /\ arg' = [arg EXCEPT ![t] = a]
          /\ UNCHANGED <<segVars, areas, mm, shp, vma, ret>>
        BY <1>3, <2>1 DEF GetNew, Running, mmVars
    <2>4. TaskTypes' /\ pc'[t] = "newseg" /\ arg'[t] = a
        BY <1>1, <2>2, <2>3 DEF TaskTypes, ShmPcs
    <2>5. Shape(t)'
        BY <1>1, <2>3, <2>4 DEF Shape
    <2>6. Others(t)
        BY <1>1, <2>3 DEF Others, TaskTypes
    <2>7. shp[t] = NULL
        BY <1>1, <2>3 DEF Shape
    <2>8. QED
        BY <2>2, <2>3, <2>4, <2>5, <2>6, <2>7, QuietStep DEF SemStep
<1>4. QED
    BY <1>2, <1>3

\* shmget ends without a new segment.
LEMMA GetEndStep ==
    ASSUME Inv, NEW t \in Tasks, NewsegFails(t) \/ GetLock(t)
    PROVE  Inv'
<1>1. Shape(t) /\ TaskTypes
    BY Shapes DEF Inv
<1>2. pc[t] \in {"newseg", "found"} => sem = t
    BY Shapes DEF Kept
<1>3. /\ pc[t] \in {"newseg", "found"} /\ sem' = NULL
      /\ pc' = [pc EXCEPT ![t] = "idle"] /\ arg' = [arg EXCEPT ![t] = NULL]
      /\ UNCHANGED <<segVars, areas, mm, shp, vma, ret>>
    BY DEF NewsegFails, GetLock, Goto, mmVars
<1>4. TaskTypes' /\ pc'[t] = "idle"
    BY <1>1, <1>3 DEF TaskTypes, ShmPcs
<1>5. Shape(t)'
    BY <1>1, <1>3, <1>4 DEF Shape
<1>6. Others(t)
    BY <1>1, <1>3 DEF Others, TaskTypes
<1>7. shp[t] = NULL
    BY <1>1, <1>3 DEF Shape
<1>8. QED
    BY <1>2, <1>3, <1>4, <1>5, <1>6, <1>7, QuietStep DEF SemStep
\* The mmap_sem steps of shmat, fork without its copies, and exit.
LEMMA MmStep ==
    ASSUME Inv, ~CopyFails, NEW t \in Tasks,
           \/ MmapDown(t) \/ MmapFails(t)
           \/ \E m \in Mms : Fork(t, m)
           \/ ForkDone(t) \/ ForkFails(t) \/ Exit(t) \/ ExitDone(t)
    PROVE  Inv'
<1>1. Shape(t) /\ TaskTypes /\ MmOf \in [Tasks -> Mms]
    BY Shapes, ShmAssumption DEF Inv
<1>2. PICK q \in ShmPcs :
          /\ pc' = [pc EXCEPT ![t] = q]
          /\ \/ q = "do_mmap" /\ pc[t] = "shmat"
             \/ q = "put" /\ pc[t] = "do_mmap"
             \/ q \in {"dup_mmap", "exit_mmap"} /\ pc[t] \in {"idle", "dup_mmap"}
             \/ q = "idle" /\ pc[t] \in {"dup_mmap", "exit_mmap"}
    BY DEF MmapDown, MmapFails, Fork, ForkDone, ForkFails, Exit, ExitDone, Goto, Running, ShmPcs
<1>3. UNCHANGED <<segVars, areas, sem, arg, shp, vma, ret>>
    <2>1. CASE ForkFails(t)
        <3>1. Unopened(t) = {}
            BY DEF Unopened
        <3>2. QED
            BY <2>1, <3>1 DEF ForkFails, callVars
    <2>2. CASE ~ForkFails(t)
        BY <2>2 DEF MmapDown, MmapFails, Fork, ForkDone, Exit, ExitDone, mmVars, callVars
    <2>3. QED
        BY <2>1, <2>2
<1>4. mm' \in [Tasks -> Mms]
    <2>1. mm \in [Tasks -> Mms] /\ MmOf[t] \in Mms
        BY <1>1 DEF TaskTypes
    <2>2. mm' = mm \/ \E m \in Mms : mm' = [mm EXCEPT ![t] = m]
        BY <2>1 DEF MmapDown, MmapFails, Fork, ForkDone, ForkFails, Exit, ExitDone, callVars
    <2>3. QED
        BY <2>1, <2>2
<1>5. TaskTypes' /\ pc'[t] = q
    BY <1>1, <1>2, <1>3, <1>4 DEF TaskTypes
<1>6. Shape(t)'
    BY <1>1, <1>2, <1>3, <1>5 DEF Shape
<1>7. Others(t)
    BY <1>1, <1>2, <1>3 DEF Others, TaskTypes
<1>8. q # "newseg" /\ q # "found"
    BY <1>2
<1>9. QED
    BY <1>3, <1>5, <1>6, <1>7, <1>8, QuietStep DEF SemStep

(***************************************************************************)
(* Segments come, change and go.                                           *)
(***************************************************************************)
LEMMA NewsegStep ==
    ASSUME Inv, NEW t \in Tasks, Newseg(t)
    PROVE  Inv'
<1>1. Shape(t) /\ Kept(t) /\ TaskTypes
    BY Shapes DEF Inv
<1>2. /\ pc[t] = "newseg" /\ nsegs < MaxSegs /\ FreeSlots(ids, ids.size) # {}
      /\ pc' = [pc EXCEPT ![t] = "idle"] /\ arg' = [arg EXCEPT ![t] = NULL]
      /\ sem' = NULL /\ UNCHANGED <<areas, mm, shp, vma, ret>>
    BY DEF Newseg, Goto, mmVars
<1>3. sem = t /\ arg[t] \in [key : Keys, pages : Pages]
    BY <1>1, <1>2 DEF Kept
<1>4. PICK k \in Keys, n \in Nat : k = arg[t].key /\ n = arg[t].pages
    BY <1>3, ShmAssumption
<1>5. /\ ids' = ipc_addid(ids, k, nsegs)
      /\ seg' = [seg EXCEPT ![nsegs] =
                    [id |-> ipc_buildid(FirstFree(ids, ids.size), ids.seq), pages |-> n,
                     nattch |-> 0, flags |-> {}]]
      /\ nsegs' = nsegs + 1 /\ shm_tot' = shm_tot + n
    BY <1>4 DEF Newseg
<1>6. Still
    BY <1>2, QuietStill
<1>7. SegInv' /\ SlotsKept /\ TableKept
    BY <1>2, <1>5, <1>6, SegNew DEF Inv, Still, TableKept
<1>8. TaskTypes' /\ pc'[t] = "idle"
    BY <1>1, <1>2 DEF TaskTypes, ShmPcs
<1>9. Shape(t)'
    BY <1>1, <1>2, <1>8 DEF Shape
<1>10. Kept(t)'
    BY <1>8, <1>9 DEF Kept, Shape
<1>11. Others(t)
    BY <1>1, <1>2 DEF Others, TaskTypes
<1>12. QED
    BY <1>3, <1>7, <1>8, <1>9, <1>10, <1>11, OthersStep DEF SemStep

\* A step of t that only changes segments.
LEMMA SegStep ==
    ASSUME Inv, NEW t \in Tasks, pc[t] = "idle", SegInv', SlotsKept, TableKept \/ sem = NULL,
           UNCHANGED <<sem, areas, pc, mm, arg, shp, vma, ret>>
    PROVE  Inv'
<1>1. Shape(t) /\ TaskTypes /\ shp[t] = NULL
    BY Shapes DEF Inv, Shape
<1>2. TaskTypes'
    BY <1>1 DEF TaskTypes
<1>3. Shape(t)'
    BY <1>1 DEF Shape
<1>4. Kept(t)'
    BY <1>1 DEF Kept
<1>5. Others(t) /\ SemStep(t)
    BY DEF Others, SemStep
<1>6. QED
    BY <1>2, <1>3, <1>4, <1>5, OthersStep

LEMMA RmidStep ==
    ASSUME Inv, NEW t \in Tasks, NEW id \in ShmIds, Rmid(t, id)
    PROVE  Inv'
<1>1. /\ pc[t] = "idle" /\ sem = NULL /\ shm_lock(id) # NULL
      /\ UNCHANGED <<sem, areas, pc, mm, arg, shp, vma, ret>>
    BY DEF Rmid, Running, mmVars, callVars
<1>2. PICK s : s = shm_lock(id)
    OBVIOUS
<1>3. s \in Segs /\ Exists(s) /\ SlotOf(s) = Lid(id)
    BY <1>1, <1>2, FoundExists DEF Inv, SegInv
<1>4. Still
    BY <1>1, QuietStill
<1>5. seg \in [Segs -> SegType] /\ Table(ids)
    BY DEF Inv, SegInv, SegTypes, SegType
<1>6. SegInv /\ \A x \in Segs : Attaches(x)' = Attaches(x)
    BY <1>4 DEF Inv, Still
<1>7. \A x \in Segs : ~Exists(x) => Attaches(x)' = 0
    BY <1>6, CountedParts
<1>8. CASE seg[s].nattch # 0
    <2>1. /\ seg' = [seg EXCEPT ![s].flags = @ \cup {"SHM_DEST"}]
          /\ ids' = [ids EXCEPT !.entries[Lid(id)].key = IPC_PRIVATE]
          /\ nsegs' = nsegs /\ shm_tot' = shm_tot
        BY <1>2, <1>8 DEF Rmid
    <2>2. Lid(id) \in Slots /\ ids.entries[Lid(id)] # NULL
        BY <1>1, IdSlot DEF shm_lock
    <2>3. Table(ids)' /\ ObjAt(ids)' = ObjAt(ids)
        <3>1. PICK new : new = [ids EXCEPT !.entries[Lid(id)].key = IPC_PRIVATE]
            OBVIOUS
        <3>2. Table(new) /\ ObjAt(new) = ObjAt(ids)
            BY <1>5, <2>2, <3>1, HideKeyEffect
        <3>3. QED
            BY <2>1, <3>1, <3>2 DEF Table, ObjAt
    <2>4. seg' \in [Segs -> SegType]
        BY <1>3, <1>5, <2>1 DEF SegType, Flags
    <2>5. \A x \in Segs : /\ seg'[x].id = seg[x].id /\ seg'[x].pages = seg[x].pages
                          /\ seg'[x].nattch = seg[x].nattch
                          /\ x # s => seg'[x].flags = seg[x].flags
        BY <1>3, <1>5, <2>1 DEF SegType
    <2>6. \A x \in Segs : Exists(x) => Agrees(x)'
        <3> SUFFICES ASSUME NEW x \in Segs, Exists(x) PROVE Agrees(x)'
            OBVIOUS
        <3>1. Agrees(x) /\ Attaches(x) \in Nat /\ Attaches(x)' = Attaches(x)
            BY <1>6, CountedParts, AttachesNat
        <3>2. x = s => seg[x].nattch > 0
            BY <1>8, <3>1 DEF Agrees
        <3>3. QED
            BY <2>5, <3>1, <3>2 DEF Agrees
    <2>7. SegInv' /\ SlotsKept
        BY <1>6, <1>7, <2>1, <2>3, <2>4, <2>5, <2>6, SegUpdate
    <2>8. QED
        BY <1>1, <2>7, SegStep
<1>9. CASE seg[s].nattch = 0
    <2>1. shm_destroy(s) /\ seg' = seg /\ nsegs' = nsegs
        BY <1>2, <1>9 DEF Rmid
    <2>2. Attaches(s)' = 0
        BY <1>3, <1>6, <1>9, CountedParts DEF Agrees
    <2>3. \A x \in Segs : Exists(x) /\ x # s => Agrees(x)'
        BY <1>6, <2>1, CountedParts DEF Agrees
    <2>4. SegInv' /\ SlotsKept
        BY <1>3, <1>5, <1>6, <1>7, <2>1, <2>2, <2>3, SegRemove
    <2>5. QED
        BY <1>1, <2>4, SegStep
<1>10. QED
    BY <1>8, <1>9

LEMMA ShmLockStep ==
    ASSUME Inv, NEW t \in Tasks, NEW id \in ShmIds, ShmLock(t, id)
    PROVE  Inv'
<1>1. /\ pc[t] = "idle" /\ shm_lock(id) # NULL
      /\ UNCHANGED <<ids, nsegs, shm_tot, sem, areas, pc, mm, arg, shp, vma, ret>>
    BY DEF ShmLock, Running, mmVars, callVars
<1>2. PICK s : s = shm_lock(id)
    OBVIOUS
<1>3. s \in Segs
    BY <1>1, <1>2, FoundExists DEF Inv, SegInv
<1>4. PICK flags \in {{}, {"SHM_LOCKED"}} :
          seg' = [seg EXCEPT ![s].flags = (@ \ {"SHM_LOCKED"}) \cup flags]
    BY <1>2 DEF ShmLock
<1>5. seg \in [Segs -> SegType] /\ Table(ids)' /\ ObjAt(ids)' = ObjAt(ids) /\ SegInv
    BY <1>1 DEF Inv, SegInv, SegTypes, SegType, Table, ObjAt
<1>6. \A x \in Segs : Attaches(x)' = Attaches(x)
    BY <1>1, QuietStill DEF Still
<1>7. \A x \in Segs : ~Exists(x) => Attaches(x)' = 0
    BY <1>5, <1>6, CountedParts
<1>8. seg' \in [Segs -> SegType]
    <2>1. ((seg[s].flags \ {"SHM_LOCKED"}) \cup flags) \in SUBSET Flags
        BY <1>3, <1>5 DEF SegType, Flags
    <2>2. QED
        BY <1>3, <1>4, <1>5, <2>1 DEF SegType
<1>9. \A x \in Segs : /\ seg'[x].id = seg[x].id /\ seg'[x].pages = seg[x].pages
                      /\ seg'[x].nattch = seg[x].nattch
                      /\ "SHM_DEST" \in seg'[x].flags <=> "SHM_DEST" \in seg[x].flags
    BY <1>3, <1>4, <1>5 DEF SegType
<1>10. \A x \in Segs : Exists(x) => Agrees(x)'
    BY <1>5, <1>6, <1>9, CountedParts DEF Agrees
<1>11. SegInv' /\ SlotsKept
    BY <1>1, <1>5, <1>7, <1>8, <1>9, <1>10, SegUpdate
<1>12. QED
    BY <1>1, <1>11, SameTable, SegStep
(***************************************************************************)
(* Attachments come and go.                                                *)
(***************************************************************************)
LEMMA MovedPointer ==
    ASSUME TaskTypes, NEW t \in Tasks, NEW s \in Segs, areas' = areas,
           vma' = vma, shp[t] = NULL, shp' = [shp EXCEPT ![t] = s]
    PROVE  Moved(s, 1)
<1> SUFFICES ASSUME NEW x \in Segs
             PROVE  Attaches(x)' = Attaches(x) + (IF x = s THEN 1 ELSE 0)
    BY DEF Moved
<1>1. Cardinality(PointsTo(shp', x)) = Cardinality(PointsTo(shp, x)) + (IF x = s THEN 1 ELSE 0)
    BY PointTo DEF TaskTypes
<1>2. Attaches(x)' = Cardinality(AreasIn(areas, x)) + Cardinality(PointsTo(vma, x))
                        + Cardinality(PointsTo(shp', x))
    BY AttachesSumNext
<1>3. QED
    BY <1>1, <1>2, AttachesSum, CountsFinite

LEMMA MovedAway ==
    ASSUME TaskTypes, NEW t \in Tasks, NEW s \in Segs, areas' = areas,
           \/ vma' = vma /\ shp[t] = s /\ shp' = [shp EXCEPT ![t] = NULL]
           \/ shp' = shp /\ vma[t] = s /\ vma' = [vma EXCEPT ![t] = NULL]
    PROVE  Moved(s, -1)
<1> SUFFICES ASSUME NEW x \in Segs
             PROVE  Attaches(x)' = Attaches(x) + (IF x = s THEN -1 ELSE 0)
    BY DEF Moved
<1>1. \/ vma' = vma /\ Cardinality(PointsTo(shp', x))
                          = Cardinality(PointsTo(shp, x)) - (IF x = s THEN 1 ELSE 0)
      \/ shp' = shp /\ Cardinality(PointsTo(vma', x))
                          = Cardinality(PointsTo(vma, x)) - (IF x = s THEN 1 ELSE 0)
    BY PointAway DEF TaskTypes
<1>2. Attaches(x)' = Cardinality(AreasIn(areas, x)) + Cardinality(PointsTo(vma', x))
                        + Cardinality(PointsTo(shp', x))
    BY AttachesSumNext
<1>3. Attaches(x) = Cardinality(AreasIn(areas, x)) + Cardinality(PointsTo(vma, x))
                        + Cardinality(PointsTo(shp, x))
    BY AttachesSum
<1>4. /\ Cardinality(AreasIn(areas, x)) \in Nat /\ Cardinality(PointsTo(vma, x)) \in Nat
      /\ Cardinality(PointsTo(shp, x)) \in Nat
    BY CountsFinite
<1>5. QED
    BY <1>1, <1>2, <1>3, <1>4

LEMMA MovedArea ==
    ASSUME TaskTypes, NEW m \in Mms, NEW s \in Segs, areas[m][s] < MaxAreas,
           areas' = [areas EXCEPT ![m][s] = @ + 1], UNCHANGED <<vma, shp>>
    PROVE  Moved(s, 1) /\ areas' \in AreaMaps
<1>1. areas \in AreaMaps /\ areas' \in AreaMaps /\ OneArea(areas, areas', m, s)
    BY AreaMore DEF TaskTypes
<1> SUFFICES ASSUME NEW x \in Segs
             PROVE  Attaches(x)' = Attaches(x) + (IF x = s THEN 1 ELSE 0)
    BY <1>1 DEF Moved
<1>2. Cardinality(AreasIn(areas', x)) = Cardinality(AreasIn(areas, x)) + (IF x = s THEN 1 ELSE 0)
    BY <1>1, AreaDiff
<1>3. Attaches(x)' = Cardinality(AreasIn(areas', x)) + Cardinality(PointsTo(vma, x))
                        + Cardinality(PointsTo(shp, x))
    BY AttachesSumNext
<1>4. Attaches(x) = Cardinality(AreasIn(areas, x)) + Cardinality(PointsTo(vma, x))
                        + Cardinality(PointsTo(shp, x))
    BY AttachesSum
<1>5. /\ Cardinality(AreasIn(areas, x)) \in Nat /\ Cardinality(PointsTo(vma, x)) \in Nat
      /\ Cardinality(PointsTo(shp, x)) \in Nat
    BY CountsFinite
<1>6. QED
    BY <1>2, <1>3, <1>4, <1>5

\* An area that is taken off the list stays an attachment until it is closed.
LEMMA StillArea ==
    ASSUME TaskTypes, NEW t \in Tasks, NEW m \in Mms, NEW s \in Segs, areas[m][s] > 0,
           areas' = [areas EXCEPT ![m][s] = @ - 1], vma[t] = NULL,
           vma' = [vma EXCEPT ![t] = s], shp' = shp
    PROVE  Still /\ areas' \in AreaMaps
<1>1. areas \in AreaMaps /\ areas' \in AreaMaps /\ OneArea(areas', areas, m, s)
    BY AreaLess DEF TaskTypes
<1> SUFFICES ASSUME NEW x \in Segs
             PROVE  Attaches(x)' = Attaches(x)
    BY <1>1 DEF Still
<1>2. Cardinality(AreasIn(areas, x)) = Cardinality(AreasIn(areas', x)) + (IF x = s THEN 1 ELSE 0)
    BY <1>1, AreaDiff
<1>3. Cardinality(PointsTo(vma', x)) = Cardinality(PointsTo(vma, x)) + (IF x = s THEN 1 ELSE 0)
    BY PointTo DEF TaskTypes
<1>4. Attaches(x)' = Cardinality(AreasIn(areas', x)) + Cardinality(PointsTo(vma', x))
                        + Cardinality(PointsTo(shp, x))
    BY AttachesSumNext
<1>5. Attaches(x) = Cardinality(AreasIn(areas, x)) + Cardinality(PointsTo(vma, x))
                        + Cardinality(PointsTo(shp, x))
    BY AttachesSum
<1>6. /\ Cardinality(AreasIn(areas', x)) \in Nat /\ Cardinality(PointsTo(vma, x)) \in Nat
      /\ Cardinality(PointsTo(shp, x)) \in Nat
    BY CountsFinite
<1>7. QED
    BY <1>2, <1>3, <1>4, <1>5, <1>6

LEMMA ShmatStep ==
    ASSUME Inv, NEW t \in Tasks, NEW id \in ShmIds, Shmat(t, id)
    PROVE  Inv'
<1>1. Shape(t) /\ TaskTypes /\ SegInv
    BY Shapes DEF Inv
<1>2. PICK s : s = shm_lock(id)
    OBVIOUS
<1>3. /\ pc[t] = "idle" /\ s # NULL /\ shm_inc(s) /\ pc' = [pc EXCEPT ![t] = "shmat"]
      /\ shp' = [shp EXCEPT ![t] = s] /\ arg' = [arg EXCEPT ![t] = id]
      /\ UNCHANGED <<ids, nsegs, shm_tot, sem, areas, mm, vma, ret>>
    BY <1>2 DEF Shmat, Goto, Running, mmVars
<1>4. s \in Segs /\ Exists(s) /\ SlotOf(s) = Lid(id)
    BY <1>1, <1>2, <1>3, FoundExists DEF SegInv
<1>5. Moved(s, 1)
    BY <1>1, <1>3, <1>4, MovedPointer DEF Shape
<1>6. SegInv' /\ SlotsKept
    BY <1>1, <1>3, <1>4, <1>5, SegInc
<1>7. TaskTypes' /\ pc'[t] = "shmat" /\ shp'[t] = s /\ arg'[t] = id
    BY <1>1, <1>3, <1>4 DEF TaskTypes, ShmPcs
<1>8. Shape(t)'
    BY <1>1, <1>3, <1>7 DEF Shape
<1>9. Kept(t)'
    <2>1. Lid(seg'[s].id) = Lid(id)
        BY <1>4, <1>6 DEF SlotsKept, SlotOf
    <2>2. QED
        BY <1>7, <2>1 DEF Kept, SlotOf
<1>10. Others(t) /\ SemStep(t) /\ TableKept
    BY <1>1, <1>3, SameTable DEF Others, SemStep, TaskTypes
<1>11. QED
    BY <1>6, <1>7, <1>8, <1>9, <1>10, OthersStep

LEMMA PutStep ==
    ASSUME Inv, NEW t \in Tasks, Put(t)
    PROVE  Inv'
<1>1. Shape(t) /\ Kept(t) /\ TaskTypes /\ SegInv
    BY Shapes DEF Inv
<1>2. PICK s : s = shm_lock(arg[t])
    OBVIOUS
<1>3. /\ pc[t] = "put" /\ sem = NULL /\ s # NULL /\ shm_dec(s) /\ pc' = [pc EXCEPT ![t] = "idle"]
      /\ shp' = [shp EXCEPT ![t] = NULL] /\ arg' = [arg EXCEPT ![t] = NULL]
      /\ UNCHANGED <<sem, areas, mm, vma, ret>>
    BY <1>2 DEF Put, Goto, mmVars
<1>4. shp[t] # NULL /\ shp[t] \in Segs /\ arg[t] \in ShmIds /\ Lid(arg[t]) = SlotOf(shp[t])
    BY <1>1, <1>3 DEF Shape, Kept, TaskTypes
<1>5. s = shp[t] /\ Exists(s)
    <2>1. Exists(shp[t]) /\ ObjAt(ids)[SlotOf(shp[t])] = shp[t]
        BY <1>1, <1>4, PointerHolds, ExistsInSlot DEF SegInv
    <2>2. s = ObjAt(ids)[Lid(arg[t])]
        BY <1>1, <1>2, <1>4, Lookup DEF SegInv, SegTypes
    <2>3. QED
        BY <1>4, <2>1, <2>2
<1>6. Moved(s, -1)
    BY <1>1, <1>3, <1>4, <1>5, MovedAway
<1>7. SegInv' /\ SlotsKept
    BY <1>1, <1>3, <1>4, <1>5, <1>6, SegDec
<1>8. TaskTypes' /\ pc'[t] = "idle" /\ shp'[t] = NULL
    BY <1>1, <1>3 DEF TaskTypes, ShmPcs
<1>9. Shape(t)'
    BY <1>1, <1>3, <1>8 DEF Shape
<1>10. Kept(t)'
    BY <1>8 DEF Kept
<1>11. Others(t) /\ SemStep(t)
    BY <1>1, <1>3 DEF Others, SemStep, TaskTypes
<1>12. QED
    BY <1>3, <1>7, <1>8, <1>9, <1>10, <1>11, OthersStep

LEMMA CloseStep ==
    ASSUME Inv, NEW t \in Tasks, shm_close(t)
    PROVE  Inv'
<1>1. Shape(t) /\ Kept(t) /\ TaskTypes /\ SegInv
    BY Shapes DEF Inv
<1>2. pc[t] = "close" /\ vma[t] # NULL /\ vma[t] \in Segs
    BY <1>1 DEF shm_close, Shape, TaskTypes
<1>3. PICK s \in Segs : s = vma[t]
    BY <1>2
<1>4. Exists(s) /\ shm_lock(seg[s].id) = s
    BY <1>1, <1>3, PointerHolds
<1>5. PICK q : q = ret[t]
    OBVIOUS
<1>6. /\ sem = NULL /\ shm_dec(s) /\ pc' = [pc EXCEPT ![t] = q]
      /\ vma' = [vma EXCEPT ![t] = NULL] /\ ret' = [ret EXCEPT ![t] = "idle"]
      /\ UNCHANGED <<sem, areas, mm, arg, shp>>
    BY <1>3, <1>4, <1>5 DEF shm_close, Goto
<1>7. Moved(s, -1)
    BY <1>1, <1>3, <1>6, MovedAway
<1>8. SegInv' /\ SlotsKept
    BY <1>1, <1>4, <1>6, <1>7, SegDec
<1>9. q \in {"idle", "do_mmap", "exit_mmap"}
    BY <1>1, <1>5 DEF TaskTypes
<1>10. TaskTypes' /\ pc'[t] = q /\ vma'[t] = NULL /\ ret'[t] = "idle"
    BY <1>1, <1>6, <1>9 DEF TaskTypes, ShmPcs
<1>11. Shape(t)'
    BY <1>1, <1>2, <1>5, <1>6, <1>9, <1>10 DEF Shape
<1>12. Kept(t)'
    <2>1. shp'[t] = shp[t] /\ arg'[t] = arg[t]
        BY <1>6
    <2>2. shp[t] # NULL => arg[t] \in ShmIds /\ Lid(arg[t]) = Lid(seg'[shp[t]].id)
        <3>1. shp[t] \in Segs => Exists(shp[t])
            BY <1>1, PointerHolds
        <3>2. shp[t] \in Segs \cup {NULL}
            BY <1>1 DEF TaskTypes
        <3>3. QED
            BY <1>1, <1>8, <3>1, <3>2 DEF Kept, SlotsKept, SlotOf
    <2>3. q # "newseg" /\ q # "found"
        BY <1>9
    <2>4. QED
        BY <1>10, <2>1, <2>2, <2>3 DEF Kept, SlotOf
<1>13. Others(t) /\ SemStep(t)
    BY <1>1, <1>6 DEF Others, SemStep, TaskTypes
<1>14. QED
    BY <1>6, <1>8, <1>10, <1>11, <1>12, <1>13, OthersStep
\* One more area of s in m is counted, and t goes on or ends its do_mmap.
LEMMA AreaStep ==
    ASSUME Inv, NEW t \in Tasks, NEW m \in Mms, NEW s \in Segs, areas[m][s] < MaxAreas,
           Exists(s), shm_inc(s), areas' = [areas EXCEPT ![m][s] = @ + 1],
           \/ pc' = pc
           \/ pc[t] = "do_mmap" /\ pc' = [pc EXCEPT ![t] = "put"],
           UNCHANGED <<ids, nsegs, shm_tot, sem, mm, arg, shp, vma, ret>>
    PROVE  Inv'
<1>1. Shape(t) /\ Kept(t) /\ TaskTypes /\ SegInv
    BY Shapes DEF Inv
<1>2. Moved(s, 1) /\ areas' \in AreaMaps
    BY <1>1, MovedArea
<1>3. SegInv' /\ SlotsKept
    BY <1>1, <1>2, SegInc
<1>4. TaskTypes' /\ (pc'[t] = pc[t] \/ (pc[t] = "do_mmap" /\ pc'[t] = "put"))
    <2>1. pc \in [Tasks -> ShmPcs] /\ "put" \in ShmPcs
        BY <1>1 DEF TaskTypes, ShmPcs
    <2>2. pc' \in [Tasks -> ShmPcs] /\ (pc'[t] = pc[t] \/ (pc[t] = "do_mmap" /\ pc'[t] = "put"))
        BY <2>1
    <2>3. QED
        BY <1>1, <1>2, <2>2 DEF TaskTypes
<1>5. Shape(t)'
    BY <1>1, <1>4 DEF Shape
<1>6. Kept(t)'
    <2>1. shp[t] # NULL => arg[t] \in ShmIds /\ Lid(arg[t]) = Lid(seg'[shp[t]].id)
        <3>1. shp[t] \in Segs => Exists(shp[t])
            BY <1>1, PointerHolds
        <3>2. shp[t] \in Segs \cup {NULL}
            BY <1>1 DEF TaskTypes
        <3>3. QED
            BY <1>1, <1>3, <3>1, <3>2 DEF Kept, SlotsKept, SlotOf
    <2>2. shm_lock(arg[t])' = shm_lock(arg[t])
        BY DEF shm_lock
    <2>3. QED
        BY <1>1, <1>4, <2>1, <2>2 DEF Kept, SlotOf
<1>7. Others(t) /\ SemStep(t) /\ TableKept
    BY <1>1, SameTable DEF Others, SemStep, TaskTypes
<1>8. QED
    BY <1>3, <1>4, <1>5, <1>6, <1>7, OthersStep

LEMMA MmapStep ==
    ASSUME Inv, NEW t \in Tasks, Mmap(t)
    PROVE  Inv'
<1>1. Shape(t) /\ TaskTypes /\ SegInv
    BY Shapes DEF Inv
<1>2. pc[t] = "do_mmap" /\ shp[t] \in Segs /\ mm[t] \in Mms
    BY <1>1 DEF Mmap, Shape, TaskTypes
<1>3. Exists(shp[t]) /\ shm_lock(seg[shp[t]].id) = shp[t]
    BY <1>1, <1>2, PointerHolds
<1>4. /\ areas[mm[t]][shp[t]] < MaxAreas /\ shm_inc(shp[t])
      /\ areas' = [areas EXCEPT ![mm[t]][shp[t]] = @ + 1]
      /\ pc' = [pc EXCEPT ![t] = "put"]
      /\ UNCHANGED <<ids, nsegs, shm_tot, sem, mm, arg, shp, vma, ret>>
    BY <1>3 DEF Mmap, Goto, callVars
<1>5. QED
    BY <1>2, <1>3, <1>4, AreaStep

LEMMA SplitStep ==
    ASSUME Inv, NEW t \in Tasks, NEW s \in Segs, Split(t, s)
    PROVE  Inv'
<1>1. TaskTypes /\ SegInv
    BY DEF Inv
<1>2. PICK m \in Mms : m = MmOf[t]
    BY ShmAssumption
<1>3. areas[m][s] \in 1 .. MaxAreas - 1
    BY <1>2 DEF Split
<1>4. areas[m][s] > 0 /\ areas[m][s] < MaxAreas
    BY <1>3, ShmAssumption
<1>5. Exists(s) /\ shm_lock(seg[s].id) = s
    BY <1>1, <1>4, AreaHolds
<1>6. /\ shm_inc(s) /\ areas' = [areas EXCEPT ![m][s] = @ + 1]
      /\ UNCHANGED <<ids, nsegs, shm_tot, sem, pc, mm, arg, shp, vma, ret>>
    BY <1>2, <1>5 DEF Split, callVars
<1>7. QED
    BY <1>4, <1>5, <1>6, AreaStep

\* The area that is copied keeps its segment.
LEMMA CopiedHeld ==
    ASSUME SegInv, TaskTypes, NEW t \in Tasks, NEW s \in ToCopy(t)
    PROVE  /\ s \in Segs /\ mm[t] \in Mms /\ areas[mm[t]][s] < MaxAreas
           /\ Exists(s) /\ shm_lock(seg[s].id) = s
<1>1. s \in Segs /\ mm[t] \in Mms /\ MmOf[t] \in Mms /\ areas[mm[t]][s] < areas[MmOf[t]][s]
    BY ShmAssumption DEF ToCopy, TaskTypes
<1>2. areas[mm[t]][s] \in 0 .. MaxAreas /\ areas[MmOf[t]][s] \in 0 .. MaxAreas /\ MaxAreas \in Nat
    BY <1>1, ShmAssumption DEF TaskTypes, AreaMaps
<1>3. areas[MmOf[t]][s] > 0 /\ areas[mm[t]][s] < MaxAreas
    BY <1>1, <1>2
<1>4. QED
    BY <1>1, <1>3, AreaHolds

LEMMA DupStep ==
    ASSUME Inv, NEW t \in Tasks, NEW s \in Segs, DupArea(t, s)
    PROVE  Inv'
<1>1. mm[t] \in Mms /\ areas[mm[t]][s] < MaxAreas /\ Exists(s) /\ shm_lock(seg[s].id) = s
    BY CopiedHeld DEF DupArea, Inv
<1>2. /\ shm_inc(s) /\ areas' = [areas EXCEPT ![mm[t]][s] = @ + 1]
      /\ UNCHANGED <<ids, nsegs, shm_tot, sem, pc, mm, arg, shp, vma, ret>>
    BY <1>1 DEF DupArea, callVars
<1>3. QED
    BY <1>1, <1>2, AreaStep

\* An area is taken off its list, to be closed.
LEMMA UnmapStep ==
    ASSUME Inv, NEW t \in Tasks, NEW s \in Segs,
           Munmap(t, s) \/ MmapClear(t, s) \/ ExitArea(t, s)
    PROVE  Inv'
<1>1. Shape(t) /\ Kept(t) /\ TaskTypes /\ SegInv
    BY Shapes DEF Inv
<1>2. PICK m \in Mms : areas[m][s] > 0 /\ areas' = [areas EXCEPT ![m][s] = @ - 1]
    <2>1. mm[t] \in Mms /\ MmOf[t] \in Mms
        BY <1>1, ShmAssumption DEF TaskTypes
    <2>2. QED
        BY <2>1 DEF Munmap, MmapClear, ExitArea
<1>3. PICK r \in {"idle", "do_mmap", "exit_mmap"} :
          pc[t] = r /\ ret' = [ret EXCEPT ![t] = r]
    <2>1. CASE Munmap(t, s)
        <3>1. pc[t] = "idle" /\ ret' = ret /\ ret[t] = "idle"
            BY <1>1, <2>1 DEF Munmap, Running, Shape
        <3>2. ret = [ret EXCEPT ![t] = "idle"]
            BY <1>1, <3>1 DEF TaskTypes
        <3>3. QED
            BY <3>1, <3>2
    <2>2. CASE MmapClear(t, s) \/ ExitArea(t, s)
        BY <2>2 DEF MmapClear, ExitArea
    <2>3. QED
        BY <2>1, <2>2
<1>4. /\ pc' = [pc EXCEPT ![t] = "close"] /\ vma' = [vma EXCEPT ![t] = s]
      /\ UNCHANGED <<segVars, sem, mm, arg, shp>>
    BY DEF Munmap, MmapClear, ExitArea, Goto
<1>5. vma[t] = NULL /\ (shp[t] # NULL <=> r = "do_mmap")
    BY <1>1, <1>3 DEF Shape
<1>6. Still /\ areas' \in AreaMaps
    BY <1>1, <1>2, <1>4, <1>5, StillArea
<1>7. SegInv' /\ SlotsKept
    BY <1>1, <1>4, <1>6, SegStill
<1>8. TaskTypes' /\ pc'[t] = "close" /\ vma'[t] = s /\ ret'[t] = r
    BY <1>1, <1>3, <1>4, <1>6 DEF TaskTypes, ShmPcs
<1>9. Shape(t)'
    BY <1>4, <1>5, <1>8, ShmAssumption DEF Shape
<1>10. Kept(t)'
    <2>1. seg' = seg
        BY <1>4 DEF segVars
    <2>2. QED
        BY <1>1, <1>4, <1>8, <2>1 DEF Kept, SlotOf
<1>11. Others(t) /\ SemStep(t) /\ TableKept
    BY <1>1, <1>3, <1>4, SameTable DEF Others, SemStep, TaskTypes, segVars
<1>12. QED
    BY <1>7, <1>8, <1>9, <1>10, <1>11, OthersStep

(***************************************************************************)
(* The theorems.                                                           *)
(***************************************************************************)
LEMMA InitInv == Init => Inv
<1> SUFFICES ASSUME Init PROVE Inv
    OBVIOUS
<1>1. Table(ids) /\ ObjAt(ids) = [i \in Slots |-> NULL]
    <2>1. Smaller(IPCMNI, IPCMNI) = IPCMNI
        BY UtilAssumption DEF Smaller
    <2>2. ids = [size |-> IPCMNI, in_use |-> 0, max_id |-> -1, seq |-> 0,
                 entries |-> [i \in Slots |-> NULL]]
        BY <2>1 DEF Init, ipc_init_ids, Slots
    <2>3. 0 \in 0 .. SeqMax
        BY UtilAssumption
    <2>4. ids \in [size : {IPCMNI}, in_use : {0}, max_id : {-1}, seq : 0 .. SeqMax,
                   entries : [Slots -> Perms \cup {NULL}]]
        BY <2>2, <2>3
    <2>5. QED
        BY <2>2, <2>4 DEF Table, ObjAt
<1>2. SegTypes
    BY <1>1, IdSlot, ShmAssumption DEF Init, SegTypes
<1>3. Segments = {}
    BY <1>1, SegmentsAre, ShmAssumption DEF ObjsOf
<1>4. Slotted
    BY <1>1 DEF Slotted
<1>5. ASSUME NEW s \in Segs PROVE Attaches(s) = 0
    <2>1. AreasIn(areas, s) = {}
        <3> SUFFICES ASSUME NEW a \in Mms \X (1 .. MaxAreas), a[2] <= areas[a[1]][s] PROVE FALSE
            BY DEF AreasIn
        <3>1. a[1] \in Mms /\ a[2] \in 1 .. MaxAreas
            OBVIOUS
        <3>2. areas[a[1]][s] = 0
            BY <3>1 DEF Init
        <3>3. QED
            BY <3>1, <3>2
    <2>2. PointsTo(vma, s) = {} /\ PointsTo(shp, s) = {}
        BY ShmAssumption DEF Init, PointsTo
    <2>3. QED
        BY <2>1, <2>2, AttachesSum, FS_EmptySet
<1>6. AttachesCounted
    BY <1>3, <1>5 DEF AttachesCounted
<1>7. PagesInUse = {}
    BY <1>3 DEF PagesInUse
<1>8. NothingLeaks /\ IsFiniteSet(PagesInUse)
    BY <1>3, <1>7, FS_EmptySet DEF NothingLeaks, Init
<1>9. TaskTypes
    <2>1. 0 \in 0 .. MaxAreas
        BY ShmAssumption
    <2>2. areas \in AreaMaps
        BY <2>1 DEF Init, AreaMaps
    <2>3. QED
        BY <2>2, ShmAssumption DEF Init, TaskTypes, ShmPcs
<1>10. Calls
    BY DEF Init, Calls, Shape, Kept
<1>11. QED
    BY <1>2, <1>4, <1>6, <1>8, <1>9, <1>10 DEF Inv, SegInv

LEMMA NextInv ==
    ASSUME ~CopyFails, Inv, [Next]_vars
    PROVE  Inv'
<1>1. CASE UNCHANGED vars
    <2>1. UNCHANGED <<ids, seg, nsegs, shm_tot, sem, areas, pc, mm, arg, shp, vma, ret>>
        BY <1>1 DEF vars, segVars, mmVars, callVars
    <2>2. SegInv'
        BY <2>1, QuietStill, SegStill DEF Inv, segVars
    <2>3. TaskTypes'
        BY <2>1 DEF Inv, TaskTypes
    <2>4. Calls'
        BY <2>1 DEF Inv, Calls, Shape, Kept, SlotOf, shm_lock
    <2>5. QED
        BY <2>2, <2>3, <2>4 DEF Inv
<1>2. CASE Next
    <2>1. PICK t \in Tasks :
              \/ \E key \in Keys : GetFound(t, key) \/ \E n \in Pages : GetNew(t, key, n)
              \/ Newseg(t) \/ NewsegFails(t) \/ GetLock(t)
              \/ \E id \in Issued : Rmid(t, id) \/ ShmLock(t, id) \/ Shmat(t, id)
              \/ MmapDown(t) \/ Mmap(t) \/ MmapFails(t) \/ Put(t)
              \/ \E s \in Segs : Munmap(t, s) \/ Split(t, s) \/ MmapClear(t, s)
              \/ \E m \in Mms : Fork(t, m)
              \/ \E s \in Segs : DupArea(t, s) \/ ExitArea(t, s)
              \/ shm_close(t) \/ ForkDone(t) \/ ForkFails(t) \/ Exit(t) \/ ExitDone(t)
        BY <1>2 DEF Next
    <2>2. CASE \E key \in Keys : GetFound(t, key) \/ \E n \in Pages : GetNew(t, key, n)
        BY <2>2, GetStep
    <2>3. CASE Newseg(t) \/ NewsegFails(t) \/ GetLock(t)
        BY <2>3, NewsegStep, GetEndStep
    <2>4. CASE \E id \in Issued : Rmid(t, id) \/ ShmLock(t, id) \/ Shmat(t, id)
        <3>1. Issued \subseteq ShmIds
            BY DEF Issued
        <3>2. QED
            BY <2>4, <3>1, RmidStep, ShmLockStep, ShmatStep
    <2>5. CASE Mmap(t) \/ Put(t) \/ shm_close(t)
        BY <2>5, MmapStep, PutStep, CloseStep
    <2>6. CASE \E s \in Segs : Munmap(t, s) \/ Split(t, s) \/ MmapClear(t, s)
        BY <2>6, UnmapStep, SplitStep
    <2>7. CASE \E s \in Segs : DupArea(t, s) \/ ExitArea(t, s)
        BY <2>7, UnmapStep, DupStep
    <2>8. CASE \/ MmapDown(t) \/ MmapFails(t)
               \/ \E m \in Mms : Fork(t, m)
               \/ ForkDone(t) \/ ForkFails(t) \/ Exit(t) \/ ExitDone(t)
        BY <2>8, MmStep
    <2>9. QED
        BY <2>1, <2>2, <2>3, <2>4, <2>5, <2>6, <2>7, <2>8
<1>3. QED
    BY <1>1, <1>2

\* The invariant holds in every reachable state, as long as copy_page_range finds memory.
THEOREM Invariance == ~CopyFails => (Spec => []Inv)
<1> SUFFICES ASSUME ~CopyFails PROVE Spec => []Inv
    OBVIOUS
<1>1. Init => Inv
    BY InitInv
<1>2. Inv /\ [Next]_vars => Inv'
    BY NextInv
<1>3. QED
    BY <1>1, <1>2, PTL DEF Spec

\* shm_nattch is the number of attachments of every segment, and nobody is attached to
\* a segment that is gone, whatever is removed, forked and unmapped in whatever order.
THEOREM AttachCountsAreExact == ~CopyFails => (Spec => []AttachesCounted)
<1>1. Inv => AttachesCounted
    BY DEF Inv, SegInv
<1>2. QED
    BY <1>1, Invariance, PTL

\* No segment marked SHM_DEST is left behind unattached, and shm_tot is exact.
THEOREM NoSegmentLeaks == ~CopyFails => (Spec => []NothingLeaks)
<1>1. Inv => NothingLeaks
    BY DEF Inv, SegInv
<1>2. QED
    BY <1>1, Invariance, PTL

\* None of the lookups of shm.c that are followed by BUG() fails.
THEOREM LookupsFind == ~CopyFails => (Spec => []NoBUG)
<1>1. Inv => NoBUG
    <2> SUFFICES ASSUME Inv, NEW t \in Tasks, BUG(t) PROVE FALSE
        BY DEF NoBUG
    <2>1. Shape(t) /\ Kept(t) /\ TaskTypes /\ SegInv
        BY Shapes DEF Inv
    <2>2. CASE pc[t] = "found" /\ shm_lock(arg[t]) = NULL
        BY <2>1, <2>2 DEF Kept
    <2>3. CASE pc[t] = "put" /\ shm_lock(arg[t]) = NULL
        <3>1. shp[t] \in Segs /\ arg[t] \in ShmIds /\ Lid(arg[t]) = SlotOf(shp[t])
            BY <2>1, <2>3 DEF Shape, Kept, TaskTypes
        <3>2. ObjAt(ids)[SlotOf(shp[t])] = shp[t]
            BY <2>1, <3>1, PointerHolds, ExistsInSlot DEF SegInv
        <3>3. shm_lock(arg[t]) = shp[t]
            BY <2>1, <3>1, <3>2, Lookup DEF SegInv, SegTypes
        <3>4. QED
            BY <2>3, <3>1, <3>3, ShmAssumption
    <2>4. CASE pc[t] = "do_mmap" /\ shm_lock(seg[shp[t]].id) = NULL
        <3>1. shp[t] \in Segs
            BY <2>1, <2>4 DEF Shape, TaskTypes
        <3>2. QED
            BY <2>1, <2>4, <3>1, PointerHolds, ShmAssumption
    <2>5. CASE pc[t] = "close" /\ shm_lock(seg[vma[t]].id) = NULL
        <3>1. vma[t] \in Segs
            BY <2>1, <2>5 DEF Shape, TaskTypes
        <3>2. QED
            BY <2>1, <2>5, <3>1, PointerHolds, ShmAssumption
    <2>6. CASE pc[t] = "dup_mmap" /\ \E s \in ToCopy(t) : shm_lock(seg[s].id) = NULL
        BY <2>1, <2>6, CopiedHeld, ShmAssumption
    <2>7. QED
        BY <2>2, <2>3, <2>4, <2>5, <2>6 DEF BUG
<1>2. QED
    BY <1>1, Invariance, PTL
=============================================================================
