---------------------------- MODULE MCScheduler ----------------------------
(* Small instances of Scheduler for TLC.                                   *)
EXTENDS Scheduler, TLC

\* Callbacks are interchangeable, and so are the threads of a pool without
\* a caller (used only by runs that check no temporal property).
CallbackSymmetry == Permutations(Callbacks)
PoolSymmetry == Permutations(Threads) \cup Permutations(Callbacks)
=============================================================================
