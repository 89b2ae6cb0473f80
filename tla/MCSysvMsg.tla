----------------------------- MODULE MCSysvMsg -----------------------------
(***************************************************************************)
(* Instances of SysvMsg for TLC.                                           *)
(***************************************************************************)
EXTENDS SysvMsg, TLC

Symmetry == Permutations(Procs)

\* The pids a queue records decide nothing: states that differ in them only are
\* one state.
View ==
    <<ids, [k \in Queues |-> [queue[k] EXCEPT !.lspid = NULL, !.lrpid = NULL]],
      nqueues, msgVars, lockVars, procVars, sndVars, rcvVars>>

Blocking == [nowait |-> FALSE, noerror |-> FALSE, except |-> FALSE]
MCFlagsModes == {[Blocking EXCEPT !.noerror = TRUE], [Blocking EXCEPT !.except = TRUE]}
MCFlagsWait == {Blocking, [Blocking EXCEPT !.nowait = TRUE]}
MCTypesModes == {-2, 1}
MCTypesAny == {0}
MCPermSets == {Procs, {}}
MCPermsFixed == {Procs}
=============================================================================
