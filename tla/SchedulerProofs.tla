-------------------------- MODULE SchedulerProofs --------------------------
(***************************************************************************)
(* Proofs about Scheduler for any number of threads, fibers and callbacks, *)
(* and for every client: types, counters and the end of run().             *)
(***************************************************************************)
EXTENDS SchedulerInvariants, FiniteSetTheorems, TLAPS

USE SMTT(60), ZenonT(60), SMTT(90), SMTT(120) DEF counts, locals, rest

-----------------------------------------------------------------------------
(* Facts about the operators.                                              *)

\* Erasing one entry of a list leaves a list of the others.
LEMMA EraseType ==
    ASSUME NEW S, NEW s \in Seq(S), NEW i \in 1..Len(s)
    PROVE  /\ Erase(s, i) \in Seq(S)
           /\ Len(Erase(s, i)) = Len(s) - 1
           /\ \A j \in 1..(Len(s) - 1) :
                 Erase(s, i)[j] = IF j < i THEN s[j] ELSE s[j + 1]
<1> DEFINE n == Len(s) - 1
<1>1. n \in Nat
  OBVIOUS
<1>2. \A j \in 1..n : j \in 1..Len(s) /\ j + 1 \in 1..Len(s)
  OBVIOUS
<1>3. Erase(s, i) \in [1..n -> S]
  BY <1>2 DEF Erase
<1>4. Erase(s, i) \in Seq(S)
  BY <1>1, <1>3
<1>5. Len(Erase(s, i)) = n
  BY <1>1, <1>4 DEF Erase
<1> QED
  BY <1>4, <1>5 DEF Erase

\* Entries of the shapes the code builds.
LEMMA EntryTypes ==
    /\ NoEntry \in Entry
    /\ \A x \in Tasks, t \in Threads \cup {AnyThread} :
          /\ FiberEntry(x, t) \in Entry /\ Whole(FiberEntry(x, t))
          /\ TaskEntry(x, t) \in Entry /\ Whole(TaskEntry(x, t))
BY SchedulerAssumption
   DEF Tasks, Entry, NoEntry, FiberEntry, CbEntry, TaskEntry, Whole

LEMMA ThreadSetsFinite == IsFiniteSet(Active) /\ IsFiniteSet(Idlers)
BY SchedulerAssumption, FS_Subset DEF Active, Idlers

\* stopping() sees a zero counter: no thread holds a task.
LEMMA NoneActive == CoreInv /\ Stopping => Active = {}
BY ZenonT(60), ThreadSetsFinite, FS_EmptySet DEF CoreInv, CountersExact, Stopping, Quiet

\* The counters follow the places of the threads: one thread moves.
LEMMA CountersMove ==
    ASSUME TypeOK, CountersExact,
           NEW w \in Threads, NEW place,
           pc' = [pc EXCEPT ![w] = place],
           m_activeThreadCount' =
               IF place \in {"dispatch", "body", "hold", "out"}
               THEN IF w \in Active THEN m_activeThreadCount
                                    ELSE m_activeThreadCount + 1
               ELSE IF w \in Active THEN m_activeThreadCount - 1
                                    ELSE m_activeThreadCount,
           m_idleThreadCount' =
               IF place = "idle"
               THEN IF w \in Idlers THEN m_idleThreadCount
                                    ELSE m_idleThreadCount + 1
               ELSE IF w \in Idlers THEN m_idleThreadCount - 1
                                    ELSE m_idleThreadCount
    PROVE  CountersExact' /\ m_activeThreadCount' \in Nat
                          /\ m_idleThreadCount' \in Nat
<1>1. Active' = IF place \in {"dispatch", "body", "hold", "out"}
                THEN Active \cup {w} ELSE Active \ {w}
  BY DEF Active, TypeOK
<1>2. Idlers' = IF place = "idle" THEN Idlers \cup {w} ELSE Idlers \ {w}
  BY DEF Idlers, TypeOK
<1>3. /\ Cardinality(Active \cup {w}) = IF w \in Active THEN Cardinality(Active)
                                        ELSE Cardinality(Active) + 1
      /\ Cardinality(Active \ {w}) = IF w \in Active THEN Cardinality(Active) - 1
                                      ELSE Cardinality(Active)
  BY ZenonT(60), ThreadSetsFinite, FS_AddElement, FS_RemoveElement
<1>4. /\ Cardinality(Idlers \cup {w}) = IF w \in Idlers THEN Cardinality(Idlers)
                                        ELSE Cardinality(Idlers) + 1
      /\ Cardinality(Idlers \ {w}) = IF w \in Idlers THEN Cardinality(Idlers) - 1
                                      ELSE Cardinality(Idlers)
  BY ZenonT(60), ThreadSetsFinite, FS_AddElement, FS_RemoveElement
<1>5. CountersExact'
  BY <1>1, <1>2, <1>3, <1>4 DEF CountersExact
<1>6. IsFiniteSet(Active') /\ IsFiniteSet(Idlers')
  BY <1>1, <1>2, ThreadSetsFinite, FS_AddElement, FS_RemoveElement
<1> QED
  BY <1>5, <1>6, FS_CardinalityType DEF CountersExact

\* No thread moves.
LEMMA CountersStay ==
    ASSUME CountersExact, UNCHANGED <<pc, counts>>
    PROVE  CountersExact'
BY DEF CountersExact, Active, Idlers

-----------------------------------------------------------------------------
(* Every step preserves CoreInv.                                           *)

\* Appending a whole entry keeps the list well-formed.
LEMMA ScheduleShape ==
    ASSUME TypeOK, Shape, NEW e \in Entry, Whole(e), schedule(e),
           UNCHANGED <<pc, ft, cb_fiber, client>>
    PROVE  m_fibers' \in Seq(Entry) /\ Shape'
<1>1. m_fibers' = Append(m_fibers, e) /\ m_fibers \in Seq(Entry)
  BY DEF schedule, TypeOK
<1>2. m_fibers' \in Seq(Entry) /\ Len(m_fibers') = Len(m_fibers) + 1
  BY <1>1
<1>3. \A i \in 1..Len(m_fibers') :
         m_fibers'[i] = IF i <= Len(m_fibers) THEN m_fibers[i] ELSE e
  BY <1>1, <1>2
<1>4. \A i \in 1..Len(m_fibers') : Whole(m_fibers'[i])
  BY <1>1, <1>2, <1>3 DEF Shape
<1>5. \A w \in Threads : LocalsOK(w)'
  BY DEF Shape, LocalsOK, Current
<1>6. StartedOK'
  BY DEF Shape, StartedOK
<1> QED
  BY <1>2, <1>4, <1>5, <1>6 DEF Shape, Whole

LEMMA ClientSteps ==
    ASSUME CoreInv,
           \/ \E x \in Tasks, t \in Threads \cup {AnyThread} : ClientSchedule(x, t)
           \/ \E f \in Fibers : ClientReschedule(f)
           \/ \E f \in Tasks : Wake(f)
           \/ \E w \in Threads, x \in Tasks, t \in Threads \cup {AnyThread} :
                 BodySchedule(w, x, t)
    PROVE  CoreInv'
<1> USE DEF CoreInv
<1>1. ASSUME NEW x \in Tasks, NEW t \in Threads \cup {AnyThread},
             ClientSchedule(x, t) \/ \E w \in Threads : BodySchedule(w, x, t)
      PROVE  CoreInv'
  <2>1. /\ schedule(TaskEntry(x, t))
        /\ UNCHANGED <<again, fiberVars, flagVars, pc, counts, locals, rest>>
        /\ fresh' = fresh \ {x}
        /\ pin' = [pin EXCEPT ![x] = t]
    BY <1>1 DEF ClientSchedule, BodySchedule, Submit
  <2>2. m_fibers' \in Seq(Entry) /\ Shape'
    BY <2>1, EntryTypes, ScheduleShape DEF flagVars
  <2>3. CountersExact'
    BY <2>1, CountersStay
  <2>4. TypeOK'
    BY <2>1, <2>2 DEF TypeOK, fiberVars, flagVars
  <2> QED
    BY <2>2, <2>3, <2>4
<1>2. ASSUME NEW f \in Tasks,
             Wake(f) \/ (f \in Fibers /\ ClientReschedule(f))
      PROVE  CoreInv'
  <2>1. /\ schedule(FiberEntry(f, AnyThread))
        /\ UNCHANGED <<fiberVars, flagVars, fresh, pin, pc, yields, aborted,
                       counts, locals>>
        /\ waiters' \subseteq waiters
        /\ again' \subseteq again
    BY <1>2 DEF Wake, ClientReschedule
  <2>2. m_fibers' \in Seq(Entry) /\ Shape'
    BY <2>1, EntryTypes, ScheduleShape DEF flagVars
  <2>3. CountersExact'
    BY <2>1, CountersStay
  <2>4. TypeOK'
    BY <2>1, <2>2 DEF TypeOK, fiberVars, flagVars
  <2> QED
    BY <2>2, <2>3, <2>4
<1> QED
  BY <1>1, <1>2 DEF Tasks

LEMMA StartStopSteps ==
    ASSUME CoreInv, start \/ Stop
    PROVE  CoreInv'
<1> USE DEF CoreInv
<1>1. CASE start
  <2>1. Active = {} /\ Active' = {} /\ Idlers = {} /\ Idlers' = {}
    BY <1>1 DEF start, ClientAt, Shape, StartedOK, Active, Idlers
  <2>2. CountersExact'
    BY <1>1, <2>1 DEF start, CountersExact
  <2>3. TypeOK'
    BY ZenonT(60), <1>1 DEF start, ClientAt, TypeOK, queueVars, fiberVars
  <2>4. Shape'
    <3>1. \A w \in Threads : LocalsOK(w)'
      BY <1>1 DEF start, ClientAt, Shape, StartedOK, LocalsOK, Current
    <3>2. StartedOK'
      BY <1>1 DEF start, StartedOK
    <3> QED
      BY <1>1, <3>1, <3>2 DEF start, queueVars, Shape, Whole
  <2> QED
    BY <2>2, <2>3, <2>4
<1>2. CASE stopAuto \/ stopFlag \/ stopJoin
  <2>1. UNCHANGED <<queueVars, fiberVars, pc, counts, locals, rest>>
    BY <1>2 DEF stopAuto, stopFlag, stopJoin
  <2>2. CountersExact'
    BY <2>1, CountersStay
  <2>3. TypeOK'
    BY ZenonT(60), <1>2, <2>1
       DEF TypeOK, stopAuto, stopFlag, stopJoin, queueVars, fiberVars
  <2>4. Shape'
    BY <1>2, <2>1 DEF stopAuto, stopFlag, stopJoin, ClientAt, queueVars, Shape,
                      StartedOK, LocalsOK, Current, Whole
  <2> QED
    BY <2>2, <2>3, <2>4
<1>3. CASE stopCheck /\ ~(~Stopping /\ Caller # None)
  <2>1. UNCHANGED <<queueVars, fiberVars, m_stopping, m_autoStop, pc, counts,
                    locals, rest>> /\ client' = "join"
    BY <1>3 DEF stopCheck
  <2>2. CountersExact'
    BY <2>1, CountersStay
  <2>3. TypeOK'
    BY ZenonT(60), <2>1 DEF TypeOK, queueVars, fiberVars
  <2>4. Shape'
    BY <2>1 DEF queueVars, Shape, StartedOK, LocalsOK, Current, Whole
  <2> QED
    BY <2>2, <2>3, <2>4
<1>4. CASE stopCheck /\ ~Stopping /\ Caller # None
  <2>1. /\ Caller \in Threads
        /\ pc[Caller] = "off"
        /\ pc' = [pc EXCEPT ![Caller] = "scan"]
        /\ client' = "root"
        /\ UNCHANGED <<queueVars, fiberVars, m_stopping, m_autoStop, counts,
                       locals, rest>>
    BY <1>4, SchedulerAssumption DEF stopCheck, ClientAt, Shape, StartedOK
  <2>2. Caller \notin Active /\ Caller \notin Idlers
    BY <2>1 DEF Active, Idlers
  <2>3. CountersExact'
    BY ZenonT(60), <2>1, <2>2, CountersMove
  <2>4. TypeOK'
    BY <2>1 DEF TypeOK, queueVars, fiberVars
  <2>5. Shape'
    <3>1. \A w \in Threads : LocalsOK(w)'
      BY <2>1 DEF TypeOK, Shape, LocalsOK, Current
    <3> QED
      BY <2>1, <3>1 DEF queueVars, Shape, StartedOK, Whole
  <2> QED
    BY <2>3, <2>4, <2>5
<1> QED
  BY <1>1, <1>2, <1>3, <1>4 DEF Stop

\* A step of thread w inside run() leaves the locals of the others alone.
LEMMA OneThreadShape ==
    ASSUME TypeOK, Shape,
           NEW w \in Threads, NEW place,
           pc[w] # "off",
           pc' = [pc EXCEPT ![w] = place],
           UNCHANGED client,
           \A v \in Threads \ {w} : ft'[v] = ft[v] /\ cb_fiber'[v] = cb_fiber[v],
           \A i \in 1..Len(m_fibers') : Whole(m_fibers'[i]),
           LocalsOK(w)'
    PROVE  Shape'
<1>1. \A v \in Threads \ {w} : LocalsOK(v)'
  BY DEF TypeOK, Shape, LocalsOK, Current
<1>2. StartedOK'
  BY DEF TypeOK, Shape, StartedOK
<1> QED
  BY <1>1, <1>2 DEF Shape, Whole

LEMMA TakeStep ==
    ASSUME CoreInv, NEW w \in Threads, Take(w)
    PROVE  CoreInv'
<1> USE DEF CoreInv
<1>1. PICK i \in Takeable(w) :
         /\ ft' = [ft EXCEPT ![w] = m_fibers[i]]
         /\ m_fibers' = Erase(m_fibers, i)
  BY ZenonT(60) DEF Take
<1>2. i \in 1..Len(m_fibers) /\ m_fibers \in Seq(Entry)
  <2>1. m_fibers \in Seq(Entry)
    BY ZenonT(60) DEF TypeOK
  <2>2. i \in DOMAIN m_fibers
    BY ZenonT(60), <1>1 DEF Takeable
  <2> HIDE DEF CoreInv
  <2> QED
    BY <2>1, <2>2
<1>3. /\ m_fibers' \in Seq(Entry)
      /\ Len(m_fibers') = Len(m_fibers) - 1
      /\ \A j \in 1..(Len(m_fibers) - 1) :
            m_fibers'[j] = IF j < i THEN m_fibers[j] ELSE m_fibers[j + 1]
  BY ZenonT(60), <1>1, <1>2, EraseType
<1>4. \A j \in 1..Len(m_fibers') : Whole(m_fibers'[j])
  <2> SUFFICES ASSUME NEW j \in 1..Len(m_fibers')
               PROVE  Whole(m_fibers'[j])
    OBVIOUS
  <2>1. j \in 1..Len(m_fibers) /\ j + 1 \in 1..Len(m_fibers)
    BY <1>2, <1>3
  <2> QED
    BY <1>2, <1>3, <2>1 DEF Shape
<1>5. Whole(m_fibers[i]) /\ m_fibers[i] \in Entry
  BY <1>2 DEF Shape
<1>6. /\ pc[w] = "scan"
      /\ pc' = [pc EXCEPT ![w] = "dispatch"]
      /\ m_activeThreadCount' = m_activeThreadCount + 1
      /\ UNCHANGED <<fiberVars, flagVars, fresh, again, pin,
                     m_idleThreadCount, cb_fiber, idle_state, rest>>
  BY DEF Take, At
<1>7. CountersExact' /\ m_activeThreadCount' \in Nat
  <2>1. w \notin Active /\ w \notin Idlers
    BY ZenonT(60), <1>6 DEF Active, Idlers
  <2> QED
    BY ZenonT(60), <1>6, <2>1, CountersMove
<1>8. TypeOK'
  BY ZenonT(60), <1>1, <1>3, <1>5, <1>6, <1>7 DEF TypeOK, fiberVars, flagVars
<1>9. LocalsOK(w)'
  BY <1>1, <1>5, <1>6 DEF TypeOK, LocalsOK, Whole
<1> QED
  BY ZenonT(60), <1>1, <1>4, <1>6, <1>7, <1>8, <1>9, OneThreadShape
     DEF TypeOK, flagVars

LEMMA TakeNothingStep ==
    ASSUME CoreInv, NEW w \in Threads, TakeNothing(w)
    PROVE  CoreInv'
<1> USE DEF CoreInv
<1>1. /\ pc[w] = "scan"
      /\ pc' = [pc EXCEPT ![w] = "empty"]
      /\ UNCHANGED <<queueVars, fiberVars, flagVars, counts, locals, rest>>
  BY DEF TakeNothing, At
<1>2. CountersExact'
  <2>1. w \notin Active /\ w \notin Idlers
    BY <1>1 DEF Active, Idlers
  <2> QED
    BY ZenonT(60), <1>1, <2>1, CountersMove
<1>3. TypeOK'
  BY ZenonT(60), <1>1 DEF TypeOK, queueVars, fiberVars, flagVars
<1>4. LocalsOK(w)' /\ \A i \in 1..Len(m_fibers') : Whole(m_fibers'[i])
  BY <1>1 DEF TypeOK, Shape, LocalsOK, Whole, queueVars
<1> QED
  BY ZenonT(60), <1>1, <1>2, <1>3, <1>4, OneThreadShape DEF flagVars

\* A failed assertion changes nothing else.
LEMMA AbortStep ==
    ASSUME CoreInv, aborted' \in {"swapIn", "reset"},
           UNCHANGED <<queueVars, fiberVars, flagVars, pc, waiters, yields,
                       counts, locals>>
    PROVE  CoreInv'
<1> USE DEF CoreInv
<1>1. CountersExact'
  BY ZenonT(60), CountersStay
<1>2. TypeOK'
  BY ZenonT(60) DEF TypeOK, queueVars, fiberVars, flagVars
<1>3. Shape'
  BY DEF queueVars, flagVars, Shape, StartedOK, LocalsOK, Current, Whole
<1> QED
  BY <1>1, <1>2, <1>3

LEMMA DispatchFiberStep ==
    ASSUME CoreInv, NEW w \in Threads, DispatchFiber(w)
    PROVE  CoreInv'
<1> USE DEF CoreInv
<1> DEFINE f == ft[w].fiber
<1>1. /\ pc[w] = "dispatch"
      /\ f \in Tasks
      /\ ft[w].cb = None
      /\ m_cb[f] \in Tasks \cup {None}
  BY DEF DispatchFiber, At, TypeOK, Entry, Shape, LocalsOK, Whole
<1>2. CASE m_state[f] = "EXEC"
  BY <1>2, AbortStep DEF DispatchFiber, swapIn
<1>3. CASE m_state[f] # "EXEC"
  <2>1. /\ pc' = [pc EXCEPT ![w] = "body"]
        /\ m_state' = [m_state EXCEPT ![f] = "EXEC"]
        /\ m_cb' = [m_cb EXCEPT ![f] = m_cb[f]]
        /\ runs' = [x \in Tasks |-> IF x = m_cb[f] /\ m_state[f] = "INIT"
                                    THEN runs[x] + 1 ELSE runs[x]]
        /\ UNCHANGED <<queueVars, flagVars, counts, locals, rest>>
    BY <1>3 DEF DispatchFiber, swapIn
  <2>2. CountersExact'
    <3>1. w \in Active /\ w \notin Idlers
      BY ZenonT(60), <1>1 DEF Active, Idlers
    <3> QED
      BY ZenonT(60), <2>1, <3>1, CountersMove
  <2>3. runs' \in [Tasks -> Nat]
    <3>1. runs \in [Tasks -> Nat]
      BY ZenonT(60) DEF TypeOK
    <3> HIDE DEF CoreInv
    <3> QED
      BY <2>1, <3>1
  <2>4. TypeOK'
    BY ZenonT(60), <1>1, <2>1, <2>3 DEF TypeOK, State, queueVars, flagVars
  <2>5. LocalsOK(w)' /\ \A i \in 1..Len(m_fibers') : Whole(m_fibers'[i])
    BY ZenonT(60), <1>1, <2>1, SchedulerAssumption
       DEF TypeOK, Shape, LocalsOK, Whole, Current, queueVars
  <2> QED
    BY ZenonT(60), <1>1, <2>1, <2>2, <2>4, <2>5, OneThreadShape DEF flagVars
<1> QED
  BY ZenonT(60), <1>2, <1>3

LEMMA DispatchEndedStep ==
    ASSUME CoreInv, NEW w \in Threads, DispatchEnded(w)
    PROVE  CoreInv'
<1> USE DEF CoreInv
<1>1. /\ pc[w] = "dispatch"
      /\ pc' = [pc EXCEPT ![w] = "scan"]
      /\ ft' = [ft EXCEPT ![w] = NoEntry]
      /\ m_activeThreadCount' = m_activeThreadCount - 1
      /\ UNCHANGED <<queueVars, fiberVars, flagVars, m_idleThreadCount,
                     cb_fiber, idle_state, rest>>
  BY ZenonT(60) DEF DispatchEnded, At
<1>2. CountersExact' /\ m_activeThreadCount' \in Nat
  <2>1. w \in Active /\ w \notin Idlers
    BY <1>1 DEF Active, Idlers
  <2> QED
    BY ZenonT(60), <1>1, <2>1, CountersMove
<1>3. TypeOK'
  BY ZenonT(60), <1>1, <1>2, EntryTypes DEF TypeOK, queueVars, fiberVars,
     flagVars
<1>4. LocalsOK(w)' /\ \A i \in 1..Len(m_fibers') : Whole(m_fibers'[i])
  BY ZenonT(60), <1>1 DEF TypeOK, Shape, LocalsOK, Whole, queueVars
<1> QED
  BY ZenonT(60), <1>1, <1>2, <1>3, <1>4, OneThreadShape DEF TypeOK, flagVars

LEMMA DispatchCbStep ==
    ASSUME CoreInv, NEW w \in Threads, DispatchCb(w)
    PROVE  CoreInv'
<1> USE DEF CoreInv
<1> DEFINE c == ft[w].cb
           f == IF cb_fiber[w] # None THEN cb_fiber[w] ELSE c
<1>1. /\ pc[w] = "dispatch"
      /\ c \in Tasks
      /\ f \in Tasks
  BY DEF DispatchCb, At, TypeOK, Entry, Tasks
<1>2. CASE cb_fiber[w] # None /\ ~Resettable(f)
  BY <1>2, AbortStep DEF DispatchCb
<1>3. CASE ~(cb_fiber[w] # None /\ ~Resettable(f))
  <2>1. /\ pc' = [pc EXCEPT ![w] = "body"]
        /\ m_state' = [m_state EXCEPT ![f] = "EXEC"]
        /\ m_cb' = [m_cb EXCEPT ![f] = c]
        /\ runs' = [x \in Tasks |-> IF x = c THEN runs[x] + 1 ELSE runs[x]]
        /\ cb_fiber' = [cb_fiber EXCEPT ![w] = f]
        /\ ft' = [ft EXCEPT ![w] = NoEntry]
        /\ UNCHANGED <<queueVars, flagVars, idle_state, counts, rest>>
    BY <1>3 DEF DispatchCb, swapIn
  <2>2. CountersExact'
    <3>1. w \in Active /\ w \notin Idlers
      BY ZenonT(60), <1>1 DEF Active, Idlers
    <3> QED
      BY ZenonT(60), <2>1, <3>1, CountersMove
  <2>3. TypeOK'
    BY <1>1, <2>1, EntryTypes DEF TypeOK, State, queueVars, flagVars
  <2>4. LocalsOK(w)' /\ \A i \in 1..Len(m_fibers') : Whole(m_fibers'[i])
    BY ZenonT(60), <1>1, <2>1, SchedulerAssumption
       DEF TypeOK, Shape, LocalsOK, Whole, Current, NoEntry, queueVars
  <2> HIDE DEF f
  <2> QED
    BY ZenonT(60), <1>1, <2>1, <2>2, <2>3, <2>4, OneThreadShape
       DEF TypeOK, flagVars
<1> QED
  BY ZenonT(60), <1>2, <1>3

\* The steps of a body that change only its own fiber.
LEMMA BodySteps ==
    ASSUME CoreInv, NEW w \in Threads,
           YieldToReady(w) \/ Register(w) \/ YieldToHold(w) \/ MainFuncEnd(w)
    PROVE  CoreInv'
<1> USE DEF CoreInv
<1>1. PICK place \in {"hold", "out"} :
         /\ pc[w] \in {"body", "hold"}
         /\ pc' = [pc EXCEPT ![w] = place]
         /\ UNCHANGED <<queueVars, flagVars, runs, aborted, counts, locals>>
  BY DEF YieldToReady, Register, YieldToHold, MainFuncEnd, LeaveBody, At,
         fiberVars
<1>2. Current(w) \in Tasks
  BY ZenonT(60), <1>1 DEF TypeOK, Shape, LocalsOK, Current, Entry
<1>3. CountersExact'
  <2>1. w \in Active /\ w \notin Idlers
    BY <1>1 DEF Active, Idlers
  <2> QED
    BY ZenonT(60), <1>1, <2>1, CountersMove
<1>4. /\ m_state' \in [Tasks -> State \cup {"FREE"}]
      /\ m_cb' \in [Tasks -> Tasks \cup {None}]
      /\ waiters' \subseteq Tasks
  <2>1. CASE Register(w)
    BY ZenonT(60), <1>2, <2>1 DEF TypeOK, Register, fiberVars
  <2>2. ASSUME NEW state \in State, LeaveBody(w, state)
        PROVE  m_state' \in [Tasks -> State \cup {"FREE"}]
    BY ZenonT(60), <1>2, <2>2 DEF TypeOK, LeaveBody
  <2>3. CASE YieldToReady(w)
    BY ZenonT(60), <2>2, <2>3 DEF TypeOK, YieldToReady, State
  <2>4. CASE YieldToHold(w)
    BY ZenonT(60), <2>2, <2>4 DEF TypeOK, YieldToHold, State
  <2>5. CASE MainFuncEnd(w)
    <3>1. m_cb' \in [Tasks -> Tasks \cup {None}]
      BY ZenonT(60), <2>5 DEF TypeOK, MainFuncEnd
    <3>2. QED
      BY ZenonT(60), <2>2, <2>5, <3>1 DEF TypeOK, MainFuncEnd, State, Ended
  <2>6. QED
    BY ZenonT(60), <2>1, <2>3, <2>4, <2>5
<1>5. yields' \in 0..MaxYields
  <2>1. yields' = yields \/ (yields' = yields + 1 /\ yields < MaxYields)
    BY ZenonT(60) DEF YieldToReady, Register, YieldToHold, MainFuncEnd
  <2>2. QED
    BY <2>1, SchedulerAssumption DEF TypeOK
<1>6. TypeOK'
  BY ZenonT(60), <1>1, <1>4, <1>5 DEF TypeOK, queueVars, flagVars
<1>7. LocalsOK(w)' /\ \A i \in 1..Len(m_fibers') : Whole(m_fibers'[i])
  BY ZenonT(60), <1>1 DEF TypeOK, Shape, LocalsOK, Whole, Current, queueVars
<1> QED
  BY ZenonT(60), <1>1, <1>3, <1>6, <1>7, OneThreadShape DEF flagVars

LEMMA swapOutStep ==
    ASSUME CoreInv, NEW w \in Threads, swapOut(w)
    PROVE  CoreInv'
<1> USE DEF CoreInv
<1>1. /\ pc[w] = "out"
      /\ pc' = [pc EXCEPT ![w] = "back"]
      /\ m_activeThreadCount' = m_activeThreadCount - 1
      /\ UNCHANGED <<queueVars, fiberVars, flagVars, m_idleThreadCount,
                     locals, rest>>
  BY DEF swapOut, At
<1>2. CountersExact' /\ m_activeThreadCount' \in Nat
  <2>1. w \in Active /\ w \notin Idlers
    BY ZenonT(60), <1>1 DEF Active, Idlers
  <2> QED
    BY ZenonT(60), <1>1, <2>1, CountersMove
<1>3. TypeOK'
  BY ZenonT(60), <1>1, <1>2 DEF TypeOK, queueVars, fiberVars, flagVars
<1>4. LocalsOK(w)' /\ \A i \in 1..Len(m_fibers') : Whole(m_fibers'[i])
  BY ZenonT(60), <1>1 DEF TypeOK, Shape, LocalsOK, Whole, Current, queueVars
<1> QED
  BY ZenonT(60), <1>1, <1>2, <1>3, <1>4, OneThreadShape DEF flagVars

LEMMA RequeueShape ==
    ASSUME TypeOK, Shape, NEW f \in Tasks, Requeue(f)
    PROVE  /\ m_fibers' \in Seq(Entry)
           /\ \A i \in 1..Len(m_fibers') : Whole(m_fibers'[i])
<1>1. CASE UNCHANGED m_fibers
  BY ZenonT(60), <1>1 DEF TypeOK, Shape
<1>2. CASE m_fibers' = Append(m_fibers, FiberEntry(f, AnyThread))
  <2> DEFINE e == FiberEntry(f, AnyThread)
  <2>1. e \in Entry /\ Whole(e) /\ m_fibers \in Seq(Entry)
    BY EntryTypes DEF TypeOK
  <2>2. m_fibers' \in Seq(Entry) /\ Len(m_fibers') = Len(m_fibers) + 1
    BY <1>2, <2>1
  <2>3. \A i \in 1..Len(m_fibers') :
           m_fibers'[i] = IF i <= Len(m_fibers) THEN m_fibers[i] ELSE e
    BY <1>2, <2>1, <2>2
  <2> HIDE DEF e
  <2> QED
    BY <2>1, <2>2, <2>3 DEF Shape
<1> QED
  BY <1>1, <1>2 DEF Requeue, schedule

LEMMA BackSteps ==
    ASSUME CoreInv, NEW w \in Threads, BackFiber(w) \/ BackCb(w)
    PROVE  CoreInv'
<1> USE DEF CoreInv
<1> DEFINE f == Current(w)
<1>1. /\ pc[w] = "back"
      /\ pc' = [pc EXCEPT ![w] = "scan"]
      /\ UNCHANGED <<flagVars, runs, fresh, again, pin, idle_state, counts,
                     rest>>
  BY ZenonT(60) DEF BackFiber, BackCb, At
<1>2. f \in Tasks /\ Requeue(f)
  BY ZenonT(60), <1>1 DEF TypeOK, Shape, LocalsOK, Current, Entry, BackFiber, BackCb
<1>3. /\ m_fibers' \in Seq(Entry)
      /\ \A i \in 1..Len(m_fibers') : Whole(m_fibers'[i])
  BY <1>2, RequeueShape
<1>4. CountersExact'
  <2>1. w \notin Active /\ w \notin Idlers
    BY <1>1 DEF Active, Idlers
  <2> QED
    BY ZenonT(60), <1>1, <2>1, CountersMove
<1>5. /\ m_state' \in [Tasks -> State \cup {"FREE"}]
      /\ m_cb' \in [Tasks -> Tasks \cup {None}]
      /\ cb_fiber' \in [Threads -> Tasks \cup {None}]
      /\ ft' \in [Threads -> Entry]
  <2>1. CASE BackFiber(w)
    BY ZenonT(60), <2>1, EntryTypes DEF TypeOK, BackFiber, State
  <2>2. CASE BackCb(w)
    BY ZenonT(60), <2>2, EntryTypes DEF TypeOK, BackCb, State
  <2> QED
    BY <2>1, <2>2
<1>6. TypeOK'
  BY ZenonT(60), <1>1, <1>3, <1>5 DEF TypeOK, flagVars
<1>7. ft'[w] = NoEntry
  <2>1. CASE BackFiber(w)
    BY ZenonT(60), <2>1 DEF BackFiber, TypeOK
  <2>2. CASE BackCb(w)
    BY ZenonT(60), <1>1, <2>2 DEF BackCb, Shape, LocalsOK
  <2> QED
    BY ZenonT(60), <2>1, <2>2
<1>8. LocalsOK(w)'
  BY ZenonT(60), <1>1, <1>7 DEF TypeOK, LocalsOK
<1>9. \A v \in Threads \ {w} : ft'[v] = ft[v] /\ cb_fiber'[v] = cb_fiber[v]
  BY DEF BackFiber, BackCb, TypeOK
<1> QED
  BY ZenonT(60), <1>1, <1>3, <1>4, <1>6, <1>8, <1>9, OneThreadShape
     DEF flagVars

LEMMA IdleSteps ==
    ASSUME CoreInv, NEW w \in Threads, EnterIdle(w) \/ idle(w)
    PROVE  CoreInv'
<1> USE DEF CoreInv
<1>1. /\ pc[w] \in {"empty", "idle"}
      /\ UNCHANGED <<queueVars, fiberVars, flagVars, m_activeThreadCount, ft,
                     cb_fiber, rest>>
      /\ idle_state' \in [Threads -> {"INIT", "HOLD", "EXEC", "TERM"}]
  BY ZenonT(60) DEF EnterIdle, idle, At, TypeOK
<1>2. PICK place \in {"exit", "idle", "scan"} :
         /\ pc' = [pc EXCEPT ![w] = place]
         /\ m_idleThreadCount' =
               IF place = "idle" THEN m_idleThreadCount + 1
               ELSE IF pc[w] = "idle" THEN m_idleThreadCount - 1
                                      ELSE m_idleThreadCount
         /\ place = "idle" => pc[w] = "empty"
  BY DEF EnterIdle, idle, At
<1>3. CountersExact' /\ m_idleThreadCount' \in Nat
  <2>1. w \notin Active /\ (w \in Idlers <=> pc[w] = "idle")
    BY ZenonT(60), <1>1 DEF Active, Idlers
  <2> QED
    BY ZenonT(60), <1>1, <1>2, <2>1, CountersMove
<1>4. TypeOK'
  BY ZenonT(60), <1>1, <1>2, <1>3 DEF TypeOK, queueVars, fiberVars, flagVars
<1>5. LocalsOK(w)' /\ \A i \in 1..Len(m_fibers') : Whole(m_fibers'[i])
  BY ZenonT(60), <1>1, <1>2 DEF TypeOK, Shape, LocalsOK, Whole, queueVars
<1> QED
  BY ZenonT(60), <1>1, <1>2, <1>3, <1>4, <1>5, OneThreadShape DEF flagVars

LEMMA CoreInvNext == CoreInv /\ [Next]_vars => CoreInv'
<1> SUFFICES ASSUME CoreInv, [Next]_vars
             PROVE  CoreInv'
  OBVIOUS
<1>1. CASE Next
  <2>1. ASSUME NEW w \in Threads, run(w)
        PROVE  CoreInv'
    BY ZenonT(60), <2>1, TakeStep, TakeNothingStep, DispatchFiberStep, DispatchEndedStep,
       DispatchCbStep, BodySteps, ClientSteps, swapOutStep, BackSteps,
       IdleSteps
       DEF run, BodyStep
  <2>2. CASE Terminated
    BY ZenonT(60), <2>2, CountersStay
       DEF Terminated, vars, queueVars, fiberVars, flagVars, CoreInv, TypeOK,
           Shape, StartedOK, LocalsOK, Current, Whole
  <2> QED
    BY ZenonT(60), <1>1, <2>1, <2>2, ClientSteps, StartStopSteps DEF Next
<1>2. CASE UNCHANGED vars
  BY ZenonT(60), <1>2, CountersStay
     DEF vars, queueVars, fiberVars, flagVars, CoreInv, TypeOK, Shape,
         StartedOK, LocalsOK, Current, Whole
<1> QED
  BY <1>1, <1>2

LEMMA CoreInvInit == Init => CoreInv
<1> SUFFICES ASSUME Init PROVE CoreInv
  OBVIOUS
<1>1. TypeOK
  <2>1. /\ m_state \in [Tasks -> State \cup {"FREE"}]
        /\ m_cb \in [Tasks -> Tasks \cup {None}]
    BY ZenonT(60) DEF Init, State
  <2>2. fresh \subseteq Tasks /\ again \subseteq Fibers /\ yields \in 0..MaxYields
    BY SchedulerAssumption DEF Init
  <2>3. /\ ft \in [Threads -> Entry]
        /\ m_fibers \in Seq(Entry)
    BY EntryTypes DEF Init
  <2> QED
    BY ZenonT(60), <2>1, <2>2, <2>3 DEF Init, TypeOK
<1>2. CountersExact
  <2>1. Active = {} /\ Idlers = {}
    BY ZenonT(60) DEF Init, Active, Idlers
  <2> QED
    BY ZenonT(60), <2>1, FS_EmptySet DEF Init, CountersExact
<1>3. Shape
  BY DEF Init, Shape, StartedOK, LocalsOK
<1> QED
  BY ZenonT(60), <1>1, <1>2, <1>3 DEF CoreInv

LEMMA CoreInvAlways == Spec => []CoreInv
BY CoreInvInit, CoreInvNext, PTL DEF Spec

-----------------------------------------------------------------------------
(* The theorems that hold for every client.                                *)

\* Every variable of the scheduler keeps its type; in particular neither
\* atomic counter of Scheduler ever wraps below zero.
THEOREM TypeCorrect == Spec => []TypeOK
BY CoreInvAlways, PTL DEF CoreInv

\* m_activeThreadCount and m_idleThreadCount are exact in every state, for
\* any number of threads and any use of the scheduler.
THEOREM CountersCorrect == Spec => []CountersExact
BY CoreInvAlways, PTL DEF CoreInv

\* A thread gives up only when stop() was called, nothing is queued and no
\* thread holds a task.
THEOREM ExitCorrect == Spec => NoEarlyExit
<1> DEFINE Exit == \A w \in Threads :
                      idle_state[w] # "TERM" /\ idle_state'[w] = "TERM" =>
                         m_autoStop /\ m_fibers = << >> /\ Active = {}
<1>1. CoreInv /\ [Next]_vars => [Exit]_vars
  <2> SUFFICES ASSUME CoreInv, [Next]_vars,
                      NEW v \in Threads,
                      idle_state[v] # "TERM", idle_state'[v] = "TERM"
               PROVE  m_autoStop /\ m_fibers = << >> /\ Active = {}
    OBVIOUS
  <2>1. PICK w \in Threads : EnterIdle(w) \/ idle(w)
    <3>1. idle_state' # idle_state
      OBVIOUS
    <3> QED
      BY ZenonT(60), <3>1 DEF Next, run, BodyStep, Stop, vars, ClientSchedule,
         ClientReschedule, Wake, start, stopAuto, stopFlag, stopCheck,
         stopJoin,
         Take, TakeNothing, DispatchFiber, DispatchEnded, DispatchCb,
         YieldToReady, Register, YieldToHold, MainFuncEnd, BodySchedule,
         swapOut, BackFiber, BackCb, Terminated
  <2>2. v = w /\ idle(w) /\ Stopping
    BY ZenonT(60), <2>1 DEF CoreInv, TypeOK, EnterIdle, idle
  <2>3. Active = {}
    BY <2>2, NoneActive
  <2> QED
    BY ZenonT(60), <2>2, <2>3 DEF Stopping, Quiet
<1> QED
  BY <1>1, CoreInvAlways, PTL DEF Spec, NoEarlyExit
=============================================================================
