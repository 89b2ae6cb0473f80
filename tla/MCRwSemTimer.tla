---------------------------- MODULE MCRwSemTimer ----------------------------
(***************************************************************************)
(* Two primitives in one instance for TLC: read-write semaphores and       *)
(* timers. They share no state, so the processes use the one or the other  *)
(* while the other stays as it was initialised: all the behaviours of each *)
(* are explored and no product.                                            *)
(***************************************************************************)
EXTENDS RwSem, TLC

VARIABLES used    \* the primitive in use

CONSTANTS Timers, Callers, TVR_BITS, TVN_BITS, MaxLag, CallTicks, NULL    \* of KTimer
VARIABLES jiffies, timer_jiffies, tv, index, expires, marked, tpc, running, fn, spc, st, due, deleted
timerVars ==
    <<jiffies, timer_jiffies, tv, index, expires, marked, tpc, running, fn, spc, st, due, deleted>>

\* With vectors of 2, 4, 4, 4 and 4 lists: past, now, and delays that go to tv2,
\* tv3, the end of tv4, the beginning of tv5, and the longest one that is not taken
\* for the past.
MCDelays == {-1, 0, 2, 31, 127, 128, 255}
Timer == INSTANCE KTimer WITH Procs <- Callers, Delays <- MCDelays, pc <- tpc

ASSUME TimerInstance == Timer!TimerAssumption

-----------------------------------------------------------------------------
Use(x) == used \in {"none", x} /\ used' = x

MCInit == used = "none" /\ Init /\ Timer!Init
MCNext ==
    \/ Use("rwsem") /\ Next /\ UNCHANGED timerVars
    \/ Use("timer") /\ Timer!Next /\ UNCHANGED vars
MCSpec == MCInit /\ [][MCNext]_<<used, vars, timerVars>>

Symmetry == Permutations(Readers) \cup Permutations(Writers) \cup Permutations(Timers)

\* The primitive that is not in use is as it was; and what a timer that is not queued
\* was last set to decides nothing.
View ==
    IF used = "timer"
    THEN <<used, Timer!timeVars, tv, index, Timer!runVars, Timer!syncVars, deleted,
           [t \in Timers |-> IF Timer!timer_pending(t) THEN <<expires[t], due[t]>> ELSE <<>>]>>
    ELSE <<used, vars>>

\* KTimer's properties: a timer runs on the tick it was set for, or on the next one if
\* that is past, and once del_timer_sync is done it is neither queued nor running.
OnItsTick == Timer!OnItsTick
DelSyncQuiesces == Timer!DelSyncQuiesces
=============================================================================
