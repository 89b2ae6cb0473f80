----------------------------- MODULE MCSysvShm -----------------------------
(***************************************************************************)
(* Instances of SysvShm for TLC: two threads in one address space, and one *)
(* task in a second one.                                                   *)
(***************************************************************************)
EXTENDS SysvShm, TLC

CONSTANTS t1, t2, t3, m1, m2

MCTasks == {t1, t2, t3}
MCMms == {m1, m2}
MCMmOf == t1 :> m1 @@ t2 :> m1 @@ t3 :> m2

\* Of a destroyed segment only the inode number of its file matters, and of the
\* identifier in shmat only its slot; nothing depends on SHM_LOCKED.
View ==
    <<ids, [s \in Segs |-> IF s \in Segments
                           THEN [seg[s] EXCEPT !.flags = @ \ {"SHM_LOCKED"}]
                           ELSE [id |-> seg[s].id]],
      nsegs, shm_tot, sem, mmVars, pc, mm, shp, vma, ret,
      [t \in Tasks |-> IF shp[t] = NULL THEN arg[t] ELSE Lid(arg[t])]>>

Symmetry == Permutations({t1, t2})
=============================================================================
