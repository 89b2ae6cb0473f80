----------------------------- MODULE MCTasklet -----------------------------
(***************************************************************************)
(* Instances of Tasklet for TLC.                                           *)
(***************************************************************************)
EXTENDS Tasklet, TLC

CONSTANTS c1, c2, t, b1, b2

\* The tasklet is scheduled on both processors, each bottom half on one.
MCSources == {<<c1, t>>, <<c2, t>>, <<c1, b1>>, <<c2, b2>>}
=============================================================================
