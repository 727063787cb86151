---------------------------- MODULE MCIOManager ----------------------------
(* Small instances of IOManager for TLC.                                   *)
EXTENDS IOManager, TLC

\* Descriptors used for reading only, and for reading and writing.
ReadOnly == [fd \in Fds |-> {"READ"}]
ReadWrite == [fd \in Fds |-> Event]

\* Threads, descriptors, fibers and callbacks are interchangeable (used only
\* where no temporal property is checked).
IOSymmetry == Permutations(Threads) \cup Permutations(Fibers)
              \cup Permutations(Callbacks)
=============================================================================
