---------------------------- MODULE MCKSemaphore ----------------------------
(***************************************************************************)
(* The instance of KSemaphore for TLC: a mutex, as most semaphores of the  *)
(* kernel are, for as many processes as make one that sleeps, one that is  *)
(* on its way out and one that comes by. No symmetry: the run checks       *)
(* liveness.                                                               *)
(***************************************************************************)
EXTENDS KSemaphore
=============================================================================
