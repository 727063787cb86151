------------------------------- MODULE Batch -------------------------------
(***************************************************************************)
(* What a WorkerGroup promises: at most Size jobs are in flight, and       *)
(* waitAll() returns when none is, after which none starts.                *)
(***************************************************************************)
EXTENDS Naturals, FiniteSets

CONSTANTS Jobs, Size

VARIABLES inflight, returned

BatchInit == inflight = {} /\ returned = FALSE

Begin(j) ==
    /\ ~returned /\ j \notin inflight /\ Cardinality(inflight) < Size
    /\ inflight' = inflight \cup {j}
    /\ UNCHANGED returned

End(j) ==
    /\ j \in inflight
    /\ inflight' = inflight \ {j}
    /\ UNCHANGED returned

Return ==
    /\ inflight = {} /\ ~returned
    /\ returned' = TRUE
    /\ UNCHANGED inflight

BatchNext == (\E j \in Jobs : Begin(j) \/ End(j)) \/ Return

BatchSpec == BatchInit /\ [][BatchNext]_<<inflight, returned>>
=============================================================================
