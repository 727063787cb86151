--------------------------- MODULE MCTimerManager ---------------------------
(* Small instances of TimerManager for TLC.                                *)
EXTENDS TimerManager, TLC

\* Timers are interchangeable (ties in m_next go either way), and so are the
\* idle threads; used only where no temporal property is checked.
TimerSymmetry == Permutations(Timers) \cup Permutations(Workers)
=============================================================================
