------------------------ MODULE SchedulerInvariants ------------------------
(***************************************************************************)
(* The invariant of Scheduler that holds for every client, on which the    *)
(* proofs of SchedulerProofs and SchedulerTaskProofs rest.                 *)
(***************************************************************************)
EXTENDS Scheduler

\* An entry carries a fiber or a callback (asserted by the scan in run()).
Whole(e) == \/ e.fiber # None /\ e.cb = None
            \/ e.fiber = None /\ e.cb # None

\* What the local variables of run() hold at each place.
LocalsOK(w) ==
    /\ pc[w] \in {"off", "scan", "empty", "idle", "exit"} => ft[w] = NoEntry
    /\ pc[w] = "dispatch" => Whole(ft[w])
    /\ pc[w] \in {"body", "hold", "out", "back"} =>
          /\ Current(w) # None
          /\ ft[w].cb = None
          /\ ft[w].fiber = None => ft[w] = NoEntry

\* Threads start in start(), the caller's run() only inside stop().
StartedOK ==
    /\ client = "new" => \A w \in Threads : pc[w] = "off"
    /\ client \in {"new", "started", "stop", "check"} =>
          \A w \in Threads : w = Caller => pc[w] = "off"

Shape ==
    /\ \A i \in 1..Len(m_fibers) : Whole(m_fibers[i])
    /\ \A w \in Threads : LocalsOK(w)
    /\ StartedOK

\* The inductive invariant for every client: types, exact counters, shape.
CoreInv == TypeOK /\ CountersExact /\ Shape
=============================================================================
