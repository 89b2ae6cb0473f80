----------------------------- MODULE MCSysvSem -----------------------------
(***************************************************************************)
(* Instances of SysvSem for TLC.                                           *)
(***************************************************************************)
EXTENDS SysvSem

Symmetry == Permutations(Procs)

\* The pids of the last operations decide nothing.
View ==
    <<tableVars, [a \in Arrays |-> [arr[a] EXCEPT !.sempid = <<>>]],
      pc, asleep, callVars, status, semundo>>

Op(i, n) == [sem_num |-> i, sem_op |-> n, undo |-> FALSE, nowait |-> FALSE]
Undo(o) == [o EXCEPT !.undo = TRUE]
NoWait(o) == [o EXCEPT !.nowait = TRUE]

\* Two semaphores: sequences that take both, wait for one or give up on one, one
\* that is undone at exit, and one that waits for zero and raises the other.
MCPairs ==
    {<<Op(0, -1), Op(1, -1)>>, <<Op(0, 1), Op(1, 1)>>, <<Op(0, 0), Op(1, 0)>>,
     <<Op(1, -1), NoWait(Op(0, -1))>>, <<Undo(Op(0, -1))>>,
     <<Op(0, 0), Op(1, 1)>>}

MCRemoval == {<<Op(0, 0)>>, <<Op(0, -1)>>, <<Undo(Op(0, 1))>>}
=============================================================================
