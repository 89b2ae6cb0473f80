------------------------------ MODULE MCIpcIds ------------------------------
(***************************************************************************)
(* Instances of IpcIds for TLC: a table of one slot that grows to two,     *)
(* two processes and as many creations as make a sequence number recur.  *)
(***************************************************************************)
EXTENDS IpcIds, TLC

Symmetry == Permutations(Procs)
=============================================================================
