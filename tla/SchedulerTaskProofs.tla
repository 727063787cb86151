------------------------ MODULE SchedulerTaskProofs ------------------------
(***************************************************************************)
(* Proofs about the tasks of Scheduler, for any number of threads, fibers  *)
(* and callbacks: what every step preserves of the callbacks that were     *)
(* scheduled, of the fibers, of the threads they are pinned to and of the  *)
(* entries left when the threads stop.  SchedulerTheorems concludes.       *)
(***************************************************************************)
EXTENDS SchedulerInvariants, TLAPS

USE SMTT(60), ZenonT(60), SMTT(90), SMTT(120) DEF counts, locals, rest

-----------------------------------------------------------------------------
(* Callbacks are conserved.                                                *)

\* A fiber that has not started its body does not carry a callback:
\* DispatchCb starts the fiber it gives one in the same step.
NewBodies == \A f \in Tasks : m_state[f] = "INIT" => m_cb[f] \notin Callbacks

CallbackInv == CallbackConserved /\ NewBodies

\* What Kept says of a callback that is queued, or taken.
LEMMA KeptPlaces ==
    ASSUME NEW c, Kept(c)
    PROVE  /\ Queued(c) # {} =>
                 /\ c \notin fresh /\ runs[c] = 0 /\ Taken(c) = {}
                 /\ \E i \in DOMAIN m_fibers : Queued(c) = {i}
           /\ Taken(c) # {} =>
                 /\ c \notin fresh /\ runs[c] = 0 /\ Queued(c) = {}
                 /\ \E w \in Threads : Taken(c) = {w}
BY ZenonT(60) DEF Kept

\* The three ways for a scheduled callback to be kept by a step.
LEMMA QueuedKept ==
    ASSUME NEW c, NEW i \in DOMAIN m_fibers', c \notin fresh', runs'[c] = 0,
           Queued(c)' = {i}, Taken(c)' = {}
    PROVE  Kept(c)'
<1>1. runs'[c] # 1
  OBVIOUS
<1> QED
  BY ZenonT(60), <1>1 DEF Kept

LEMMA TakenKept ==
    ASSUME NEW c, NEW w \in Threads, c \notin fresh', runs'[c] = 0,
           Queued(c)' = {}, Taken(c)' = {w}
    PROVE  Kept(c)'
<1>1. runs'[c] # 1
  OBVIOUS
<1> QED
  BY ZenonT(60), <1>1 DEF Kept

LEMMA EnteredKept ==
    ASSUME NEW c, c \notin fresh', runs'[c] = 1,
           Queued(c)' = {}, Taken(c)' = {}
    PROVE  Kept(c)'
BY ZenonT(60) DEF Kept

\* A step that leaves the places of a callback alone ...
LEMMA SameKept ==
    ASSUME NEW c, Kept(c), DOMAIN m_fibers \subseteq DOMAIN m_fibers',
           c \in fresh' <=> c \in fresh, runs'[c] = runs[c],
           Queued(c)' = Queued(c), Taken(c)' = Taken(c)
    PROVE  Kept(c)'
BY ZenonT(60) DEF Kept

\* ... or of all callbacks.
LEMMA PlacesStay ==
    ASSUME CallbackConserved, DOMAIN m_fibers \subseteq DOMAIN m_fibers',
           \A c \in Callbacks : /\ c \in fresh' <=> c \in fresh
                                /\ runs'[c] = runs[c]
                                /\ Queued(c)' = Queued(c)
                                /\ Taken(c)' = Taken(c)
    PROVE  CallbackConserved'
BY ZenonT(60), SameKept DEF CallbackConserved

\* A thread that holds no callback moves.
LEMMA TakenStays ==
    ASSUME TypeOK, NEW w \in Threads, NEW place,
           pc' = [pc EXCEPT ![w] = place], place # "dispatch",
           pc[w] = "dispatch" => ft[w].cb = None,
           \A v \in Threads : v # w => ft'[v] = ft[v]
    PROVE  \A c \in Callbacks : Taken(c)' = Taken(c)
<1> SUFFICES ASSUME NEW c \in Callbacks, NEW v \in Threads
             PROVE  pc'[v] = "dispatch" /\ ft'[v].cb = c
                       <=> pc[v] = "dispatch" /\ ft[v].cb = c
  BY ZenonT(60) DEF Taken
<1>1. CASE v = w
  <2>1. pc'[v] # "dispatch"
    BY ZenonT(60), <1>1 DEF TypeOK
  <2>2. c # None
    BY SchedulerAssumption DEF Tasks
  <2> QED
    BY ZenonT(60), <1>1, <2>1, <2>2
<1>2. CASE v # w
  <2>1. pc'[v] = pc[v]
    BY ZenonT(60), <1>2 DEF TypeOK
  <2> QED
    BY ZenonT(60), <1>2, <2>1
<1> QED
  BY <1>1, <1>2

\* Appending a fiber adds no callback to the list.
LEMMA FiberQueued ==
    ASSUME TypeOK, NEW f, NEW t, schedule(FiberEntry(f, t))
    PROVE  /\ \A c \in Callbacks : Queued(c)' = Queued(c)
           /\ DOMAIN m_fibers \subseteq DOMAIN m_fibers'
<1>1. /\ m_fibers' = Append(m_fibers, FiberEntry(f, t))
      /\ m_fibers \in Seq(Entry)
  BY DEF schedule, TypeOK
<1>2. /\ DOMAIN m_fibers = 1..Len(m_fibers)
      /\ DOMAIN m_fibers' = 1..(Len(m_fibers) + 1)
      /\ Len(m_fibers) \in Nat
      /\ \A i \in 1..Len(m_fibers) : m_fibers'[i] = m_fibers[i]
      /\ m_fibers'[Len(m_fibers) + 1] = FiberEntry(f, t)
  BY <1>1
<1>3. \A c \in Callbacks : FiberEntry(f, t).cb # c
  BY ZenonT(60), SchedulerAssumption DEF FiberEntry, Tasks
<1>4. ASSUME NEW c \in Callbacks, NEW i
      PROVE  i \in DOMAIN m_fibers' /\ m_fibers'[i].cb = c
                <=> i \in DOMAIN m_fibers /\ m_fibers[i].cb = c
  BY <1>2, <1>3
<1>5. \A c \in Callbacks : Queued(c)' = Queued(c)
  BY ZenonT(60), <1>4 DEF Queued
<1> QED
  BY <1>2, <1>5

\* Scheduling a task for the first time gives a callback its one entry.
LEMMA SubmitConserves ==
    ASSUME CoreInv, CallbackInv,
           NEW x \in Tasks, NEW t \in Threads \cup {AnyThread}, Submit(x, t),
           UNCHANGED <<fiberVars, pc, ft>>
    PROVE  CallbackInv'
<1> USE DEF CoreInv
<1>1. NewBodies'
  BY DEF CallbackInv, NewBodies, fiberVars
<1>2. \A c \in Callbacks : Taken(c)' = Taken(c) /\ runs'[c] = runs[c]
  BY DEF Taken, fiberVars
<1>3. x \in fresh /\ fresh' = fresh \ {x} /\ schedule(TaskEntry(x, t))
  BY ZenonT(60) DEF Submit
<1>4. CASE x \in Fibers
  <2>1. \A c \in Callbacks : c # x
    BY <1>4, SchedulerAssumption
  <2>2. schedule(FiberEntry(x, t))
    BY <1>3, <1>4 DEF TaskEntry
  <2> QED
    BY ZenonT(60), <1>1, <1>2, <1>3, <2>1, <2>2, FiberQueued, PlacesStay
       DEF CallbackInv
<1>5. CASE x \in Callbacks
  <2>1. m_fibers' = Append(m_fibers, CbEntry(x, t)) /\ m_fibers \in Seq(Entry)
    BY ZenonT(60), <1>3, <1>5, SchedulerAssumption DEF TaskEntry, schedule,
       TypeOK
  <2> DEFINE n == Len(m_fibers)
  <2>2. /\ DOMAIN m_fibers = 1..n /\ DOMAIN m_fibers' = 1..(n + 1) /\ n \in Nat
        /\ \A i \in 1..n : m_fibers'[i] = m_fibers[i]
        /\ m_fibers'[n + 1] = CbEntry(x, t)
    BY <2>1
  <2>3. CbEntry(x, t).cb = x
    BY ZenonT(60) DEF CbEntry
  <2>4. \A c \in Callbacks :
           Queued(c)' = IF c = x THEN Queued(c) \cup {n + 1} ELSE Queued(c)
    <3> HIDE DEF n
    <3> QED
      BY <2>2, <2>3 DEF Queued
  <2>5. /\ Queued(x) = {} /\ Taken(x) = {} /\ runs[x] = 0
        /\ x \notin fresh'
    <3>1. Kept(x)
      BY ZenonT(60), <1>5 DEF CallbackInv, CallbackConserved
    <3> QED
      BY ZenonT(60), <1>3, <3>1 DEF Kept
  <2>6. n + 1 \in DOMAIN m_fibers' /\ DOMAIN m_fibers \subseteq DOMAIN m_fibers'
    BY <2>2
  <2> HIDE DEF n
  <2>7. ASSUME NEW c \in Callbacks
        PROVE  Kept(c)'
    <3>1. CASE c = x
      <4>1. Queued(x)' = {n + 1} /\ Taken(x)' = {} /\ runs'[x] = 0
        BY <1>2, <1>5, <2>4, <2>5
      <4> QED
        BY ZenonT(60), <3>1, <4>1, <2>5, <2>6, QueuedKept
    <3>2. CASE c # x
      <4>1. /\ Queued(c)' = Queued(c) /\ Taken(c)' = Taken(c)
            /\ runs'[c] = runs[c] /\ (c \in fresh' <=> c \in fresh)
        BY <1>2, <1>3, <2>4, <3>2
      <4> QED
        BY ZenonT(60), <4>1, <2>6, SameKept DEF CallbackInv, CallbackConserved
    <3> QED
      BY <3>1, <3>2
  <2> QED
    BY ZenonT(60), <1>1, <2>7 DEF CallbackInv, CallbackConserved
<1> QED
  BY <1>4, <1>5 DEF Tasks

\* The scan moves an entry from the list to the thread, and no other.
LEMMA TakeConserves ==
    ASSUME CoreInv, CallbackInv, NEW w \in Threads, Take(w)
    PROVE  CallbackInv'
<1> USE DEF CoreInv
<1>1. NewBodies'
  BY DEF CallbackInv, NewBodies, Take, fiberVars
<1>2. PICK i \in 1..Len(m_fibers) :
         /\ ft' = [ft EXCEPT ![w] = m_fibers[i]]
         /\ m_fibers' = Erase(m_fibers, i)
  <2>1. PICK i \in Takeable(w) :
           /\ ft' = [ft EXCEPT ![w] = m_fibers[i]]
           /\ m_fibers' = Erase(m_fibers, i)
    BY ZenonT(60) DEF Take
  <2>2. i \in 1..Len(m_fibers)
    BY <2>1 DEF Takeable, TypeOK
  <2> QED
    BY ZenonT(60), <2>1, <2>2
<1>3. /\ pc[w] = "scan" /\ pc' = [pc EXCEPT ![w] = "dispatch"]
      /\ UNCHANGED <<runs, fresh>>
  BY ZenonT(60) DEF Take, At, fiberVars
<1> DEFINE n == Len(m_fibers) - 1
<1>4. /\ m_fibers \in Seq(Entry) /\ DOMAIN m_fibers = 1..(n + 1) /\ n \in Nat
      /\ i \in 1..(n + 1)
  BY <1>2 DEF TypeOK
<1>5. /\ DOMAIN m_fibers' = 1..n
      /\ \A j \in 1..n : m_fibers'[j] = IF j < i THEN m_fibers[j]
                                                 ELSE m_fibers[j + 1]
  BY ZenonT(60), <1>2 DEF Erase
<1>6. /\ pc'[w] = "dispatch" /\ ft'[w] = m_fibers[i]
      /\ \A v \in Threads \ {w} : pc'[v] = pc[v] /\ ft'[v] = ft[v]
  BY <1>2, <1>3 DEF TypeOK
<1> HIDE DEF n
<1>7. ASSUME NEW c \in Callbacks
      PROVE  Kept(c)'
  <2>0. Kept(c)
    BY DEF CallbackInv, CallbackConserved
  <2>1. CASE m_fibers[i].cb = c
    <3>1. i \in Queued(c)
      BY <1>4, <2>1 DEF Queued
    <3>2. /\ c \notin fresh /\ runs[c] = 0 /\ Taken(c) = {} /\ Queued(c) = {i}
      BY ZenonT(60), <2>0, <3>1, KeptPlaces
    <3>3. \A j \in 1..(n + 1) : j # i => m_fibers[j].cb # c
      BY ZenonT(60), <1>4, <3>2 DEF Queued
    <3>4. \A j \in 1..n : m_fibers'[j].cb # c
      BY <1>4, <1>5, <3>3
    <3>5. Queued(c)' = {}
      BY ZenonT(60), <1>5, <3>4 DEF Queued
    <3>6. Taken(c)' = {w}
      <4>1. \A v \in Threads : ~(pc[v] = "dispatch" /\ ft[v].cb = c)
        BY ZenonT(60), <3>2 DEF Taken
      <4>2. \A v \in Threads : pc'[v] = "dispatch" /\ ft'[v].cb = c <=> v = w
        BY <1>6, <2>1, <4>1
      <4> QED
        BY <4>2 DEF Taken
    <3> QED
      BY ZenonT(60), <1>3, <3>2, <3>5, <3>6, TakenKept
  <2>2. CASE m_fibers[i].cb # c
    <3>1. Taken(c)' = Taken(c)
      <4>1. \A v \in Threads : v \in Taken(c)' <=> v \in Taken(c)
        BY <1>3, <1>6, <2>2 DEF Taken
      <4> QED
        BY ZenonT(60), <4>1 DEF Taken
    <3>2. CASE Queued(c) = {}
      <4>1. \A j \in 1..(n + 1) : m_fibers[j].cb # c
        BY ZenonT(60), <1>4, <3>2 DEF Queued
      <4>2. \A j \in 1..n : m_fibers'[j].cb # c
        BY <1>4, <1>5, <4>1
      <4>3. Queued(c)' = {}
        BY <1>5, <4>2 DEF Queued
      <4> QED
        BY ZenonT(60), <1>3, <2>0, <3>1, <3>2, <4>3 DEF Kept
    <3>3. CASE Queued(c) # {}
      <4>1. PICK k \in 1..(n + 1) : Queued(c) = {k}
        BY ZenonT(60), <1>4, <2>0, <3>3, KeptPlaces
      <4>2. /\ c \notin fresh /\ runs[c] = 0 /\ Taken(c) = {}
        BY ZenonT(60), <2>0, <3>3, KeptPlaces
      <4>3. /\ m_fibers[k].cb = c /\ k # i
            /\ \A j \in 1..(n + 1) : j # k => m_fibers[j].cb # c
        BY ZenonT(60), <1>4, <2>2, <4>1 DEF Queued
      <4> DEFINE q == IF k < i THEN k ELSE k - 1
      <4>4. /\ q \in 1..n /\ m_fibers'[q].cb = c
        BY <1>4, <1>5, <4>3
      <4>5. \A j \in 1..n : j # q => m_fibers'[j].cb # c
        BY <1>4, <1>5, <4>3
      <4> HIDE DEF q
      <4>6. Queued(c)' = {q}
        BY <1>5, <4>4, <4>5 DEF Queued
      <4> QED
        BY ZenonT(60), <1>3, <1>5, <3>1, <4>2, <4>4, <4>6, QueuedKept
    <3> QED
      BY <3>2, <3>3
  <2> QED
    BY <2>1, <2>2
<1> QED
  BY ZenonT(60), <1>1, <1>7 DEF CallbackInv, CallbackConserved

\* The body of a callback is entered by the thread that took its entry; a
\* fiber that is swapped in enters no callback.
LEMMA DispatchConserves ==
    ASSUME CoreInv, CallbackInv, NEW w \in Threads,
           DispatchFiber(w) \/ DispatchCb(w)
    PROVE  CallbackInv'
<1> USE DEF CoreInv
<1>1. pc[w] = "dispatch" /\ UNCHANGED <<m_fibers, fresh>>
  BY ZenonT(60) DEF DispatchFiber, DispatchCb, At, queueVars
<1>2. Whole(ft[w]) /\ ft[w] \in Entry
  BY <1>1 DEF Shape, LocalsOK, TypeOK
<1>3. \A c \in Callbacks : Queued(c)' = Queued(c)
  BY ZenonT(60), <1>1 DEF Queued
<1>4. CASE aborted' # "no"
  <2>1. UNCHANGED <<fiberVars, pc, ft>>
    BY <1>4 DEF DispatchFiber, DispatchCb, swapIn, At
  <2>2. \A c \in Callbacks : Taken(c)' = Taken(c) /\ runs'[c] = runs[c]
    BY <2>1 DEF Taken, fiberVars
  <2>3. NewBodies'
    BY ZenonT(60), <2>1 DEF CallbackInv, NewBodies, fiberVars
  <2> QED
    BY ZenonT(60), <1>1, <1>3, <2>2, <2>3, PlacesStay DEF CallbackInv
<1>5. CASE aborted' = "no" /\ DispatchFiber(w)
  <2> DEFINE f == ft[w].fiber
  <2>1. /\ f # None /\ f \in Tasks /\ ft[w].cb = None
    BY ZenonT(60), <1>2, <1>5 DEF DispatchFiber, Whole, Entry
  <2>2. /\ m_state' = [m_state EXCEPT ![f] = "EXEC"]
        /\ m_cb' = [m_cb EXCEPT ![f] = m_cb[f]]
        /\ runs' = [x \in Tasks |-> IF x = m_cb[f] /\ m_state[f] = "INIT"
                                    THEN runs[x] + 1 ELSE runs[x]]
        /\ pc' = [pc EXCEPT ![w] = "body"]
        /\ ft' = ft
    BY <1>5 DEF DispatchFiber, swapIn
  <2>3. \A c \in Callbacks : Taken(c)' = Taken(c)
    BY ZenonT(60), <2>1, <2>2, TakenStays
  <2>4. \A c \in Callbacks : runs'[c] = runs[c]
    BY ZenonT(60), <2>1, <2>2 DEF CallbackInv, NewBodies, Tasks
  <2>5. NewBodies'
    BY <2>1, <2>2 DEF CallbackInv, NewBodies, TypeOK
  <2> QED
    BY <1>1, <1>3, <2>3, <2>4, <2>5, PlacesStay DEF CallbackInv
<1>6. CASE aborted' = "no" /\ DispatchCb(w)
  <2>0. PICK x \in Callbacks : x = ft[w].cb
    BY ZenonT(60), <1>2, <1>6 DEF DispatchCb, Entry
  <2> DEFINE f == IF cb_fiber[w] # None THEN cb_fiber[w] ELSE x
  <2>1. f \in Tasks
    BY ZenonT(60) DEF Tasks, TypeOK
  <2>2. /\ m_state' = [m_state EXCEPT ![f] = "EXEC"]
        /\ m_cb' = [m_cb EXCEPT ![f] = x]
        /\ pc' = [pc EXCEPT ![w] = "body"]
        /\ ft' = [ft EXCEPT ![w] = NoEntry]
    BY ZenonT(60), <1>6, <2>0 DEF DispatchCb, swapIn
  <2>11. runs' = [y \in Tasks |-> IF y = x THEN runs[y] + 1 ELSE runs[y]]
    BY ZenonT(60), <1>6, <2>0 DEF DispatchCb, swapIn
  <2>3. NewBodies'
    BY ZenonT(60), <2>1, <2>2 DEF CallbackInv, NewBodies, TypeOK
  <2>4. /\ pc'[w] = "body"
        /\ \A v \in Threads \ {w} : pc'[v] = pc[v] /\ ft'[v] = ft[v]
    BY <2>2 DEF TypeOK
  <2> HIDE DEF f
  <2>5. w \in Taken(x)
    BY <1>1, <2>0 DEF Taken
  <2>6. /\ x \notin fresh /\ runs[x] = 0 /\ Queued(x) = {} /\ Taken(x) = {w}
    <3>1. Kept(x)
      BY ZenonT(60) DEF CallbackInv, CallbackConserved
    <3> QED
      BY ZenonT(60), <2>5, <3>1, KeptPlaces
  <2>7. runs'[x] = 1 /\ \A c \in Callbacks : c # x => runs'[c] = runs[c]
    <3>1. \A c \in Callbacks : runs'[c] = IF c = x THEN runs[c] + 1 ELSE runs[c]
      BY ZenonT(60), <2>11 DEF Tasks
    <3> QED
      BY <2>6, <3>1
  <2>8. Taken(x)' = {}
    <3>1. \A v \in Threads \ {w} : ~(pc[v] = "dispatch" /\ ft[v].cb = x)
      BY ZenonT(60), <2>6 DEF Taken
    <3>2. \A v \in Threads : ~(pc'[v] = "dispatch" /\ ft'[v].cb = x)
      BY <2>4, <3>1
    <3> QED
      BY ZenonT(60), <3>2 DEF Taken
  <2>9. \A c \in Callbacks : c # x => Taken(c)' = Taken(c)
    <3>1. ASSUME NEW c \in Callbacks, c # x, NEW v \in Threads
          PROVE  pc'[v] = "dispatch" /\ ft'[v].cb = c
                    <=> pc[v] = "dispatch" /\ ft[v].cb = c
      BY <2>0, <2>4, <3>1
    <3> QED
      BY ZenonT(60), <3>1 DEF Taken
  <2>10. ASSUME NEW c \in Callbacks
         PROVE  Kept(c)'
    <3>1. CASE c = x
      BY ZenonT(60), <1>1, <1>3, <2>6, <2>7, <2>8, <3>1, EnteredKept
    <3>2. CASE c # x
      BY ZenonT(60), <1>1, <1>3, <2>7, <2>9, <3>2, SameKept
         DEF CallbackInv, CallbackConserved
    <3> QED
      BY <3>1, <3>2
  <2> QED
    BY ZenonT(60), <2>3, <2>10 DEF CallbackInv, CallbackConserved
<1> QED
  BY ZenonT(60), <1>4, <1>5, <1>6

\* Nothing is scheduled, taken or entered.
LEMMA QuietConserves ==
    ASSUME CallbackInv, UNCHANGED <<fresh, runs, m_fibers>>, NewBodies',
           \A c \in Callbacks : Taken(c)' = Taken(c)
    PROVE  CallbackInv'
<1>1. \A c \in Callbacks : Queued(c)' = Queued(c)
  BY DEF Queued
<1> QED
  BY <1>1, PlacesStay DEF CallbackInv

\* A fiber is scheduled again.
LEMMA RescheduleConserves ==
    ASSUME CoreInv, CallbackInv, NEW f, ClientReschedule(f) \/ Wake(f)
    PROVE  CallbackInv'
<1>1. /\ schedule(FiberEntry(f, AnyThread))
      /\ UNCHANGED <<fresh, fiberVars, pc, ft>>
  BY ZenonT(60) DEF ClientReschedule, Wake
<1>2. \A c \in Callbacks : Taken(c)' = Taken(c) /\ runs'[c] = runs[c]
  BY ZenonT(60), <1>1 DEF Taken, fiberVars
<1>3. NewBodies'
  BY ZenonT(60), <1>1 DEF CallbackInv, NewBodies, fiberVars
<1> QED
  BY ZenonT(60), <1>1, <1>2, <1>3, FiberQueued, PlacesStay DEF CoreInv,
     CallbackInv

\* start() and stop() touch no task.
LEMMA StartStopConserves ==
    ASSUME CoreInv, CallbackInv, start \/ Stop
    PROVE  CallbackInv'
<1>1. UNCHANGED <<queueVars, fiberVars, locals>>
  BY ZenonT(60) DEF start, Stop, stopAuto, stopFlag, stopCheck, stopJoin
<1>2. NewBodies'
  BY <1>1 DEF CallbackInv, NewBodies, fiberVars
<1>3. \A c \in Callbacks : Taken(c)' = Taken(c)
  <2>1. CASE start
    <3>1. \A w \in Threads : pc[w] # "dispatch" /\ pc'[w] # "dispatch"
      BY <2>1 DEF start, ClientAt, CoreInv, Shape, StartedOK
    <3> QED
      BY ZenonT(60), <3>1 DEF Taken
  <2>2. CASE UNCHANGED pc
    BY ZenonT(60), <1>1, <2>2 DEF Taken
  <2>3. CASE stopCheck /\ pc' # pc
    <3>1. /\ Caller \in Threads /\ pc' = [pc EXCEPT ![Caller] = "scan"]
          /\ client = "check"
      BY <2>3, SchedulerAssumption DEF stopCheck, ClientAt
    <3>2. pc[Caller] = "off"
      BY <3>1 DEF CoreInv, Shape, StartedOK
    <3> QED
      BY ZenonT(60), <1>1, <3>1, <3>2, TakenStays DEF CoreInv
  <2> QED
    BY ZenonT(60), <2>1, <2>2, <2>3 DEF Stop, stopAuto, stopFlag, stopJoin
<1> QED
  BY <1>1, <1>2, <1>3, QuietConserves DEF queueVars, fiberVars

\* A thread that finds nothing, drops an ended fiber, is idle, or whose body
\* yields or ends.
LEMMA ThreadConserves ==
    ASSUME CoreInv, CallbackInv, NEW w \in Threads,
           \/ TakeNothing(w) \/ DispatchEnded(w) \/ swapOut(w)
           \/ EnterIdle(w) \/ idle(w)
           \/ YieldToReady(w) \/ Register(w) \/ YieldToHold(w) \/ MainFuncEnd(w)
    PROVE  CallbackInv'
<1>1. UNCHANGED <<fresh, runs, m_fibers>>
  BY ZenonT(60) DEF TakeNothing, DispatchEnded, swapOut, EnterIdle, idle,
     YieldToReady,
     Register, YieldToHold, MainFuncEnd, queueVars, fiberVars
<1>2. PICK place \in {"empty", "scan", "back", "exit", "idle", "out", "hold"} :
         pc' = [pc EXCEPT ![w] = place]
  BY ZenonT(60) DEF TakeNothing, DispatchEnded, swapOut, EnterIdle, idle,
     YieldToReady,
     Register, YieldToHold, MainFuncEnd, LeaveBody
<1>3. pc[w] = "dispatch" => ft[w].fiber # None
  BY ZenonT(60) DEF TakeNothing, DispatchEnded, swapOut, EnterIdle, idle,
     YieldToReady,
     Register, YieldToHold, MainFuncEnd, At
<1>4. pc[w] = "dispatch" => ft[w].cb = None
  BY ZenonT(60), <1>3 DEF CoreInv, Shape, LocalsOK, Whole
<1>5. ft' = ft \/ ft' = [ft EXCEPT ![w] = NoEntry]
  BY ZenonT(60) DEF TakeNothing, DispatchEnded, swapOut, EnterIdle, idle,
     YieldToReady,
     Register, YieldToHold, MainFuncEnd
<1>6. \A c \in Callbacks : Taken(c)' = Taken(c)
  <2>1. \A v \in Threads : v # w => ft'[v] = ft[v]
    BY <1>5 DEF CoreInv, TypeOK
  <2> QED
    BY ZenonT(60), <1>2, <1>4, <2>1, TakenStays DEF CoreInv
<1>7. NewBodies'
  <2>1. CASE UNCHANGED <<m_state, m_cb>>
    BY ZenonT(60), <2>1 DEF CallbackInv, NewBodies
  <2>2. CASE YieldToReady(w) \/ YieldToHold(w) \/ MainFuncEnd(w)
    <3>1. PICK state \in {"READY", "HOLD", "TERM", "EXCEPT"} :
             m_state' = [m_state EXCEPT ![Current(w)] = state]
      BY ZenonT(60), <2>2 DEF YieldToReady, YieldToHold, MainFuncEnd,
         LeaveBody, Ended
    <3>2. m_cb' = m_cb \/ m_cb' = [m_cb EXCEPT ![Current(w)] = None]
      BY <2>2 DEF YieldToReady, YieldToHold, MainFuncEnd
    <3> QED
      BY ZenonT(60), <3>1, <3>2 DEF CallbackInv, NewBodies, CoreInv, TypeOK
  <2> QED
    BY ZenonT(60), <2>1, <2>2 DEF TakeNothing, DispatchEnded, swapOut,
       EnterIdle,
       idle, Register, fiberVars
<1> QED
  BY <1>1, <1>6, <1>7, QuietConserves

\* After a swap, a READY fiber goes back to the list and an ended cb_fiber
\* loses its body before it counts as new.
LEMMA BackConserves ==
    ASSUME CoreInv, CallbackInv, NEW w \in Threads, BackFiber(w) \/ BackCb(w)
    PROVE  CallbackInv'
<1>1. /\ pc[w] = "back" /\ pc' = [pc EXCEPT ![w] = "scan"]
      /\ UNCHANGED <<fresh, runs>>
      /\ ft' = ft \/ ft' = [ft EXCEPT ![w] = NoEntry]
  BY ZenonT(60) DEF BackFiber, BackCb, At
<1>2. \A c \in Callbacks : Taken(c)' = Taken(c)
  <2>1. \A v \in Threads : v # w => ft'[v] = ft[v]
    BY <1>1 DEF CoreInv, TypeOK
  <2> QED
    BY ZenonT(60), <1>1, <2>1, TakenStays DEF CoreInv
<1>3. PICK f : /\ Requeue(f)
               /\ \/ UNCHANGED <<m_state, m_cb>>
                  \/ /\ m_state' = [m_state EXCEPT ![f] = "HOLD"]
                     /\ UNCHANGED m_cb
                  \/ /\ m_state' = [m_state EXCEPT ![f] = "INIT"]
                     /\ m_cb' = [m_cb EXCEPT ![f] = None]
  BY ZenonT(60) DEF BackFiber, BackCb
<1>4. NewBodies'
  BY <1>3, SchedulerAssumption DEF CallbackInv, NewBodies, CoreInv, TypeOK,
     Tasks
<1>5. CASE schedule(FiberEntry(f, AnyThread))
  BY ZenonT(60), <1>1, <1>2, <1>4, <1>5, FiberQueued, PlacesStay DEF CoreInv,
     CallbackInv
<1>6. CASE UNCHANGED m_fibers
  BY <1>1, <1>2, <1>4, <1>6, QuietConserves
<1> QED
  BY ZenonT(60), <1>3, <1>5, <1>6 DEF Requeue

LEMMA CallbackInvNext == CoreInv /\ CallbackInv /\ [Next]_vars => CallbackInv'
<1> SUFFICES ASSUME CoreInv, CallbackInv, [Next]_vars
             PROVE  CallbackInv'
  OBVIOUS
<1>1. ASSUME UNCHANGED vars
      PROVE  CallbackInv'
  <2>1. UNCHANGED <<m_fibers, fresh, runs, m_state, m_cb, pc, ft>>
    BY ZenonT(60), <1>1 DEF vars, queueVars, fiberVars
  <2>2. NewBodies' /\ \A c \in Callbacks : Taken(c)' = Taken(c)
    BY <2>1 DEF CallbackInv, NewBodies, Taken
  <2> QED
    BY ZenonT(60), <2>1, <2>2, QuietConserves
<1>2. ASSUME NEW x \in Tasks, NEW t \in Threads \cup {AnyThread},
             ClientSchedule(x, t) \/ \E w \in Threads : BodySchedule(w, x, t)
      PROVE  CallbackInv'
  <2>1. Submit(x, t) /\ UNCHANGED <<fiberVars, pc, ft>>
    BY ZenonT(60), <1>2 DEF ClientSchedule, BodySchedule
  <2> QED
    BY <2>1, SubmitConserves
<1>3. ASSUME NEW w \in Threads, run(w)
      PROVE  CallbackInv'
  BY ZenonT(60), <1>2, <1>3, TakeConserves, DispatchConserves, ThreadConserves,
     BackConserves DEF run, BodyStep
<1> QED
  BY ZenonT(60), <1>1, <1>2, <1>3, RescheduleConserves, StartStopConserves
     DEF Next, Terminated

LEMMA CallbackInvInit == Init => CallbackInv
<1> SUFFICES ASSUME Init PROVE CallbackInv
  BY ZenonT(60)
<1>1. NewBodies
  BY ZenonT(60), SchedulerAssumption DEF Init, NewBodies, Tasks
<1>2. ASSUME NEW c \in Callbacks
      PROVE  c \in fresh /\ runs[c] = 0 /\ Queued(c) = {} /\ Taken(c) = {}
  BY DEF Init, Queued, Taken, Tasks
<1> QED
  BY ZenonT(60), <1>1, <1>2 DEF CallbackInv, CallbackConserved, Kept

-----------------------------------------------------------------------------
(* Fibers, for clients that leave waking up to the scheduler: no body      *)
(* calls YieldToHold, a Fiber::ptr is handed over once, and the bodies of  *)
(* callbacks do not yield.                                                 *)

ReadyOnly ==
    /\ HoldYielders = {} /\ Twice = {}
    /\ ReadyYielders \subseteq Fibers

-----------------------------------------------------------------------------
(* The inductive invariant.                                                *)

\* The list and the threads hold client fibers, and nothing else as a fiber,
\* each of them once; nobody waits to be woken.
FiberPtrs ==
    /\ \A i \in DOMAIN m_fibers : m_fibers[i].fiber \in Fibers \cup {None}
    /\ \A w \in Threads : ft[w].fiber \in Fibers \cup {None}

OnceListed ==
    \A i, j \in DOMAIN m_fibers :
        m_fibers[i].fiber # None /\ m_fibers[i].fiber = m_fibers[j].fiber => i = j

OnceHeld ==
    \A v, w \in Threads : ft[v].fiber # None /\ ft[v].fiber = ft[w].fiber => v = w

ListedNotHeld ==
    \A i \in DOMAIN m_fibers, w \in Threads :
        m_fibers[i].fiber # None => m_fibers[i].fiber # ft[w].fiber

NobodyHolds == waiters = {} /\ again = {} /\ \A w \in Threads : pc[w] # "hold"

Apart == FiberPtrs /\ OnceListed /\ OnceHeld /\ ListedNotHeld /\ NobodyHolds

Listed(f) == \E i \in DOMAIN m_fibers : m_fibers[i].fiber = f

\* The state of a fiber follows the place of the thread that holds it.
Stage(w, s) ==
    /\ pc[w] = "dispatch" => s \in {"INIT", "READY"}
    /\ pc[w] = "body" => s = "EXEC"
    /\ pc[w] \in {"out", "back"} => s \in Ended \cup {"READY"}

\* A client fiber that is neither in the list nor with a thread has ended,
\* unless nobody has scheduled it.
FiberOK(f) ==
    /\ Listed(f) => f \notin fresh /\ m_state[f] \in {"INIT", "READY"}
    /\ \A w \in Threads : ft[w].fiber = f => f \notin fresh /\ Stage(w, m_state[f])
    /\ f \in fresh => m_state[f] = "INIT"
    /\ f \notin fresh => \/ Listed(f) \/ \E w \in Threads : ft[w].fiber = f
                        \/ m_state[f] \in Ended
    /\ m_cb[f] = f \/ m_state[f] = "TERM"
    /\ runs[f] = IF m_state[f] = "INIT" THEN 0 ELSE 1

\* Thread w is in a callback.
InCb(w) == pc[w] \in {"body", "out", "back"} /\ ft[w].fiber = None

\* A thread's cb_fiber was made for a callback that was entered; it is new
\* except while the thread is in a callback.
CbOK(w) ==
    cb_fiber[w] # None =>
        /\ cb_fiber[w] \in Callbacks /\ runs[cb_fiber[w]] = 1
        /\ ~InCb(w) => m_state[cb_fiber[w]] = "INIT"
        /\ InCb(w) /\ pc[w] = "body" => m_state[cb_fiber[w]] = "EXEC"
        /\ InCb(w) /\ pc[w] # "body" => m_state[cb_fiber[w]] \in Ended
        /\ InCb(w) => \/ m_cb[cb_fiber[w]] \in Callbacks /\ runs[m_cb[cb_fiber[w]]] = 1
                      \/ m_cb[cb_fiber[w]] = None /\ pc[w] # "body"

CbApart ==
    /\ \A v, w \in Threads : cb_fiber[v] # None /\ cb_fiber[v] = cb_fiber[w] => v = w
    /\ \A c \in Callbacks : m_state[c] # "READY"

FibersInv ==
    /\ Apart /\ CbApart /\ aborted = "no"
    /\ \A f \in Fibers : FiberOK(f)
    /\ \A w \in Threads : CbOK(w)

-----------------------------------------------------------------------------
(* The list, and what a step leaves alone.                                 *)

\* An entry appended, or erased, and the places of the others.
LEMMA Appended ==
    ASSUME TypeOK, NEW e, schedule(e)
    PROVE  \E n : /\ n \notin DOMAIN m_fibers /\ DOMAIN m_fibers' = DOMAIN m_fibers \cup {n}
                  /\ m_fibers'[n] = e
                  /\ \A i \in DOMAIN m_fibers : m_fibers'[i] = m_fibers[i]
<1>1. m_fibers \in Seq(Entry) /\ m_fibers' = Append(m_fibers, e)
  BY DEF TypeOK, schedule
<1>2. /\ DOMAIN m_fibers = 1..Len(m_fibers) /\ Len(m_fibers) \in Nat
      /\ DOMAIN m_fibers' = 1..(Len(m_fibers) + 1)
      /\ m_fibers'[Len(m_fibers) + 1] = e
      /\ \A i \in 1..Len(m_fibers) : m_fibers'[i] = m_fibers[i]
  BY <1>1
<1>3. PICK n : n = Len(m_fibers) + 1
  OBVIOUS
<1>4. n \notin DOMAIN m_fibers /\ DOMAIN m_fibers' = DOMAIN m_fibers \cup {n}
  BY <1>2, <1>3
<1> QED
  BY <1>2, <1>3, <1>4

\* Thread w takes entry i; g says where the entries left were.
Removes(w, i, g) ==
    /\ ft' = [ft EXCEPT ![w] = m_fibers[i]]
    /\ \A j \in DOMAIN m_fibers' :
          /\ g[j] \in DOMAIN m_fibers /\ g[j] # i
          /\ m_fibers'[j] = m_fibers[g[j]]
    /\ \A j, k \in DOMAIN m_fibers' : g[j] = g[k] => j = k
    /\ \A k \in DOMAIN m_fibers : k # i => \E j \in DOMAIN m_fibers' : g[j] = k

LEMMA TakenEntry ==
    ASSUME TypeOK, NEW w \in Threads, Take(w)
    PROVE  \E i \in Takeable(w) : \E g :
              i \in DOMAIN m_fibers /\ m_fibers[i] \in Entry /\ Removes(w, i, g)
<1>1. PICK i \in Takeable(w) : ft' = [ft EXCEPT ![w] = m_fibers[i]] /\ m_fibers' = Erase(m_fibers, i)
  BY ZenonT(60) DEF Take
<1>2. m_fibers \in Seq(Entry) /\ i \in DOMAIN m_fibers
  BY ZenonT(60), <1>1 DEF Takeable, TypeOK
<1>3. PICK n : n = Len(m_fibers) - 1
  OBVIOUS
<1>4. /\ DOMAIN m_fibers = 1..(n + 1) /\ n \in Nat /\ i \in 1..(n + 1) /\ m_fibers[i] \in Entry
      /\ i \in 1..Len(m_fibers)
  BY <1>2, <1>3
<1>5. /\ DOMAIN m_fibers' = 1..n
      /\ \A j \in 1..n : m_fibers'[j] = IF j < i THEN m_fibers[j] ELSE m_fibers[j + 1]
  BY ZenonT(60), <1>1, <1>3 DEF Erase
<1>6. PICK g : g = [j \in 1..n |-> IF j < i THEN j ELSE j + 1]
  BY ZenonT(60)
<1>7. \A j \in 1..n : g[j] = IF j < i THEN j ELSE j + 1
  BY <1>6
<1>8. \A j \in 1..n : g[j] \in 1..(n + 1) /\ g[j] # i /\ m_fibers'[j] = m_fibers[g[j]]
  BY <1>4, <1>5, <1>7
<1>9. \A j, k \in 1..n : g[j] = g[k] => j = k
  BY <1>4, <1>7
<1>10. ASSUME NEW k \in 1..(n + 1), k # i
       PROVE  \E j \in 1..n : g[j] = k
  <2>1. CASE k < i
    BY <1>4, <1>7, <2>1
  <2>2. CASE k > i
    <3>1. k - 1 \in 1..n /\ g[k - 1] = k
      BY <1>4, <1>7, <2>2
    <3> QED
      BY <3>1
  <2> QED
    BY <1>4, <1>10, <2>1, <2>2
<1>11. \A j \in DOMAIN m_fibers' :
          g[j] \in DOMAIN m_fibers /\ g[j] # i /\ m_fibers'[j] = m_fibers[g[j]]
  BY ZenonT(60), <1>4, <1>5, <1>8
<1>12. \A j, k \in DOMAIN m_fibers' : g[j] = g[k] => j = k
  BY ZenonT(60), <1>5, <1>9
<1>13. \A k \in DOMAIN m_fibers : k # i => \E j \in DOMAIN m_fibers' : g[j] = k
  BY ZenonT(60), <1>4, <1>5, <1>10
<1>14. Removes(w, i, g)
  BY ZenonT(60), <1>1, <1>11, <1>12, <1>13 DEF Removes
<1> QED
  BY ZenonT(60), <1>2, <1>4, <1>14

\* A fiber the step does not touch.
LEMMA FiberStays ==
    ASSUME NEW f \in Fibers, FiberOK(f), Listed(f)' <=> Listed(f), f \in fresh' <=> f \in fresh,
           \A v \in Threads : ft'[v].fiber = f <=> ft[v].fiber = f,
           \A v \in Threads : ft[v].fiber = f =>
              pc'[v] = pc[v] \/ (pc[v] = "out" /\ pc'[v] = "back"),
           m_state'[f] = m_state[f], m_cb'[f] = m_cb[f], runs'[f] = runs[f]
    PROVE  FiberOK(f)'
<1>1. \A v \in Threads : ft[v].fiber = f /\ Stage(v, m_state[f]) => Stage(v, m_state[f])'
  BY ZenonT(60) DEF Stage
<1> QED
  BY ZenonT(60), <1>1 DEF FiberOK

\* A thread's cb_fiber the step does not touch.
LEMMA CbStays ==
    ASSUME NEW v \in Threads, CbOK(v), cb_fiber'[v] = cb_fiber[v], InCb(v)' <=> InCb(v),
           InCb(v) => pc'[v] = pc[v] \/ (pc[v] = "out" /\ pc'[v] = "back"),
           cb_fiber[v] # None => /\ m_state'[cb_fiber[v]] = m_state[cb_fiber[v]]
                                 /\ m_cb'[cb_fiber[v]] = m_cb[cb_fiber[v]],
           \A c \in Callbacks : runs[c] = 1 => runs'[c] = 1
    PROVE  CbOK(v)'
BY ZenonT(60) DEF CbOK

LEMMA ListedStays ==
    ASSUME UNCHANGED m_fibers
    PROVE  \A f : Listed(f)' <=> Listed(f)
BY ZenonT(60) DEF Listed

LEMMA NoFiber == NoEntry.fiber = None /\ NoEntry.cb = None
BY DEF NoEntry

\* The list stays, threads keep or drop what they hold.
LEMMA ApartStays ==
    ASSUME Apart, UNCHANGED <<m_fibers, waiters, again>>,
           \A v \in Threads : pc'[v] # "hold" /\ (ft'[v] = ft[v] \/ ft'[v] = NoEntry)
    PROVE  Apart'
<1>1. FiberPtrs'
  BY ZenonT(60), NoFiber DEF Apart, FiberPtrs
<1>2. OnceListed' /\ NobodyHolds'
  BY ZenonT(60) DEF Apart, OnceListed, NobodyHolds
<1>3. OnceHeld'
  BY ZenonT(60), NoFiber DEF Apart, OnceHeld
<1>4. ListedNotHeld'
  BY ZenonT(60), NoFiber DEF Apart, ListedNotHeld
<1> QED
  BY ZenonT(60), <1>1, <1>2, <1>3, <1>4 DEF Apart

\* The fiber a thread is in, or back from.
LEMMA WhoRuns ==
    ASSUME CoreInv, FibersInv, NEW w \in Threads, pc[w] \in {"body", "out", "back"}
    PROVE  \/ ft[w].fiber \in Fibers /\ Current(w) = ft[w].fiber /\ ~InCb(w)
           \/ /\ ft[w].fiber = None /\ cb_fiber[w] \in Callbacks /\ Current(w) = cb_fiber[w]
              /\ InCb(w)
<1>1. ft[w].fiber \in Fibers \cup {None} /\ Current(w) # None
  BY ZenonT(60) DEF FibersInv, Apart, FiberPtrs, CoreInv, Shape, LocalsOK
<1>2. CASE ft[w].fiber = None
  BY ZenonT(60), <1>1, <1>2 DEF Current, InCb, FibersInv, CbOK
<1>3. CASE ft[w].fiber # None
  BY ZenonT(60), <1>1, <1>3 DEF Current, InCb
<1> QED
  BY <1>2, <1>3

-----------------------------------------------------------------------------
(* One lemma per kind of step.                                             *)

\* Where a thread holds nothing.
Free == {"off", "scan", "empty", "idle", "exit"}

\* Threads move between places where they hold nothing, or swap out.
LEMMA QuietFibers ==
    ASSUME CoreInv, FibersInv,
           UNCHANGED <<m_fibers, waiters, again, fresh, m_state, m_cb, runs, aborted, ft, cb_fiber>>,
           \A v \in Threads : \/ pc'[v] = pc[v]
                              \/ pc[v] = "out" /\ pc'[v] = "back"
                              \/ pc[v] \in Free /\ pc'[v] \in Free
    PROVE  FibersInv'
<1>1. Apart'
  <2>1. \A v \in Threads : pc'[v] # "hold"
    BY ZenonT(60) DEF FibersInv, Apart, NobodyHolds, Free
  <2> QED
    BY ZenonT(60), <2>1, ApartStays DEF FibersInv
<1>2. ASSUME NEW f \in Fibers
      PROVE  FiberOK(f)'
  <2>1. f # None
    BY SchedulerAssumption DEF Tasks
  <2>2. \A v \in Threads : ft[v].fiber = f => pc[v] \notin Free
    BY ZenonT(60), <2>1, NoFiber DEF CoreInv, Shape, LocalsOK, Free
  <2>3. Listed(f)' <=> Listed(f)
    BY ListedStays
  <2> QED
    BY ZenonT(60), <2>2, <2>3, FiberStays DEF FibersInv
<1>3. ASSUME NEW v \in Threads
      PROVE  CbOK(v)'
  <2>1. InCb(v)' <=> InCb(v)
    BY ZenonT(60) DEF InCb, Free
  <2>2. InCb(v) => pc'[v] = pc[v] \/ (pc[v] = "out" /\ pc'[v] = "back")
    BY ZenonT(60) DEF InCb, Free
  <2> QED
    BY ZenonT(60), <2>1, <2>2, CbStays DEF FibersInv
<1>4. CbApart' /\ aborted' = "no"
  BY ZenonT(60) DEF FibersInv, CbApart
<1> QED
  BY ZenonT(60), <1>1, <1>2, <1>3, <1>4 DEF FibersInv

\* A task is scheduled for the first time.
LEMMA SubmitFibers ==
    ASSUME CoreInv, FibersInv, NEW x \in Tasks, NEW t \in Threads \cup {AnyThread}, Submit(x, t),
           UNCHANGED <<waiters, again, m_state, m_cb, runs, aborted, pc, ft, cb_fiber>>
    PROVE  FibersInv'
<1>1. /\ x \in fresh /\ fresh' = fresh \ {x} /\ schedule(TaskEntry(x, t))
  BY ZenonT(60) DEF Submit
<1>2. PICK n : /\ n \notin DOMAIN m_fibers /\ DOMAIN m_fibers' = DOMAIN m_fibers \cup {n}
               /\ m_fibers'[n] = TaskEntry(x, t)
               /\ \A i \in DOMAIN m_fibers : m_fibers'[i] = m_fibers[i]
  BY ZenonT(60), <1>1, Appended DEF CoreInv
<1>3. TaskEntry(x, t).fiber = IF x \in Fibers THEN x ELSE None
  BY DEF TaskEntry, FiberEntry, CbEntry
<1>4. x \in Fibers => ~Listed(x) /\ \A w \in Threads : ft[w].fiber # x
  BY ZenonT(60), <1>1 DEF FibersInv, FiberOK
<1>5. x # None
  BY SchedulerAssumption
<1>6. \A f \in Fibers : Listed(f)' <=> Listed(f) \/ f = x
  <2>1. \A f \in Fibers : f # None
    BY SchedulerAssumption DEF Tasks
  <2> QED
    BY ZenonT(60), <1>2, <1>3, <2>1 DEF Listed
<1>7. Apart'
  <2>1. FiberPtrs'
    BY ZenonT(60), <1>2, <1>3 DEF FibersInv, Apart, FiberPtrs
  <2>2. OnceListed'
    <3>1. \A i \in DOMAIN m_fibers : x \in Fibers => m_fibers[i].fiber # x
      BY ZenonT(60), <1>4 DEF Listed
    <3>2. OnceListed
      BY DEF FibersInv, Apart
    <3> QED
      BY ZenonT(60), <1>2, <1>3, <3>1, <3>2 DEF OnceListed
  <2>3. OnceHeld' /\ NobodyHolds'
    BY ZenonT(60) DEF FibersInv, Apart, OnceHeld, NobodyHolds
  <2>4. ListedNotHeld'
    BY ZenonT(60), <1>2, <1>3, <1>4 DEF FibersInv, Apart, ListedNotHeld
  <2> QED
    BY ZenonT(60), <2>1, <2>2, <2>3, <2>4 DEF Apart
<1>8. ASSUME NEW f \in Fibers
      PROVE  FiberOK(f)'
  <2>1. CASE f = x
    <3>1. FiberOK(f)
      BY DEF FibersInv
    <3>2. /\ m_state[f] = "INIT" /\ (m_cb[f] = f \/ m_state[f] = "TERM")
          /\ runs[f] = (IF m_state[f] = "INIT" THEN 0 ELSE 1)
      BY ZenonT(60), <1>1, <1>4, <2>1, <3>1 DEF FiberOK
    <3>3. f \notin fresh' /\ Listed(f)' /\ \A w \in Threads : ft'[w].fiber # f
      BY ZenonT(60), <1>1, <1>4, <1>6, <2>1
    <3> QED
      BY ZenonT(60), <3>2, <3>3 DEF FiberOK
  <2>2. CASE f # x
    <3>1. (Listed(f)' <=> Listed(f)) /\ (f \in fresh' <=> f \in fresh)
      BY ZenonT(60), <1>1, <1>6, <2>2
    <3> QED
      BY ZenonT(60), <3>1, FiberStays DEF FibersInv
  <2> QED
    BY <2>1, <2>2
<1>9. ASSUME NEW v \in Threads
      PROVE  CbOK(v)'
  BY ZenonT(60), CbStays DEF FibersInv, InCb
<1>10. CbApart' /\ aborted' = "no"
  BY ZenonT(60) DEF FibersInv, CbApart
<1> QED
  BY ZenonT(60), <1>7, <1>8, <1>9, <1>10 DEF FibersInv

\* The scan moves an entry to the thread.
LEMMA TakeFibers ==
    ASSUME CoreInv, FibersInv, NEW w \in Threads, Take(w)
    PROVE  FibersInv'
<1>1. PICK i \in DOMAIN m_fibers : \E g : m_fibers[i] \in Entry /\ Removes(w, i, g)
  BY ZenonT(60), TakenEntry DEF CoreInv
<1>2. PICK g : Removes(w, i, g)
  BY ZenonT(60), <1>1
<1>3. /\ pc[w] = "scan" /\ pc' = [pc EXCEPT ![w] = "dispatch"]
      /\ UNCHANGED <<waiters, again, fresh, m_state, m_cb, runs, aborted, cb_fiber>>
  <2>1. pc[w] = "scan" /\ pc' = [pc EXCEPT ![w] = "dispatch"]
    BY ZenonT(60) DEF Take, At
  <2>2. UNCHANGED <<fiberVars, flagVars, fresh, again, pin, m_idleThreadCount, cb_fiber,
                    idle_state, rest>>
    BY ZenonT(60) DEF Take
  <2> QED
    BY ZenonT(60), <2>1, <2>2 DEF fiberVars, rest
<1>11. /\ \A j \in DOMAIN m_fibers' :
             g[j] \in DOMAIN m_fibers /\ g[j] # i /\ m_fibers'[j] = m_fibers[g[j]]
       /\ \A j, k \in DOMAIN m_fibers' : g[j] = g[k] => j = k
       /\ \A k \in DOMAIN m_fibers : k # i => \E j \in DOMAIN m_fibers' : g[j] = k
  BY ZenonT(60), <1>2 DEF Removes
<1>4. /\ pc'[w] = "dispatch" /\ ft'[w] = m_fibers[i]
      /\ \A v \in Threads \ {w} : pc'[v] = pc[v] /\ ft'[v] = ft[v]
  BY <1>2, <1>3 DEF Removes, CoreInv, TypeOK
<1>5. ft[w].fiber = None
  BY ZenonT(60), <1>3, NoFiber DEF CoreInv, Shape, LocalsOK
<1>6. ASSUME NEW f \in Fibers
      PROVE  /\ m_fibers[i].fiber = f => Listed(f) /\ ~Listed(f)'
             /\ m_fibers[i].fiber # f => (Listed(f)' <=> Listed(f))
  <2>1. f # None
    BY SchedulerAssumption DEF Tasks
  <2>2. CASE m_fibers[i].fiber = f
    <3>1. ASSUME NEW j \in DOMAIN m_fibers', m_fibers'[j].fiber = f
          PROVE  FALSE
      <4>1. g[j] \in DOMAIN m_fibers /\ g[j] # i /\ m_fibers[g[j]].fiber = f
        BY <1>11, <3>1
      <4>2. OnceListed
        BY DEF FibersInv, Apart
      <4> QED
        BY ZenonT(60), <2>1, <2>2, <4>1, <4>2 DEF OnceListed
    <3> QED
      BY ZenonT(60), <2>2, <3>1 DEF Listed
  <2>3. CASE m_fibers[i].fiber # f
    <3>1. ASSUME NEW j \in DOMAIN m_fibers', m_fibers'[j].fiber = f
          PROVE  Listed(f)
      <4>1. g[j] \in DOMAIN m_fibers /\ m_fibers[g[j]].fiber = f
        BY <1>11, <3>1
      <4> QED
        BY ZenonT(60), <4>1 DEF Listed
    <3>2. ASSUME NEW k \in DOMAIN m_fibers, m_fibers[k].fiber = f
          PROVE  Listed(f)'
      <4>1. PICK j \in DOMAIN m_fibers' : g[j] = k
        BY ZenonT(60), <1>11, <2>3, <3>2
      <4> QED
        BY ZenonT(60), <1>11, <3>2, <4>1 DEF Listed
    <3> QED
      BY ZenonT(60), <2>3, <3>1, <3>2 DEF Listed
  <2> QED
    BY ZenonT(60), <2>2, <2>3
<1>7. Apart'
  <2>1. FiberPtrs'
    <3>1. /\ \A k \in DOMAIN m_fibers : m_fibers[k].fiber \in Fibers \cup {None}
          /\ \A v \in Threads : ft[v].fiber \in Fibers \cup {None}
      BY ZenonT(60) DEF FibersInv, Apart, FiberPtrs
    <3>2. \A j \in DOMAIN m_fibers' : m_fibers'[j].fiber \in Fibers \cup {None}
      BY <1>11, <3>1
    <3>3. \A v \in Threads : ft'[v].fiber \in Fibers \cup {None}
      BY ZenonT(60), <1>4, <3>1
    <3> QED
      BY ZenonT(60), <3>2, <3>3 DEF FiberPtrs
  <2>2. OnceListed'
    <3> SUFFICES ASSUME NEW j \in DOMAIN m_fibers', NEW k \in DOMAIN m_fibers',
                        m_fibers'[j].fiber # None, m_fibers'[j].fiber = m_fibers'[k].fiber
                 PROVE  j = k
      BY ZenonT(60) DEF OnceListed
    <3>1. /\ g[j] \in DOMAIN m_fibers /\ m_fibers'[j] = m_fibers[g[j]]
          /\ g[k] \in DOMAIN m_fibers /\ m_fibers'[k] = m_fibers[g[k]]
      BY ZenonT(60), <1>11
    <3>2. g[j] = g[k]
      BY <3>1 DEF FibersInv, Apart, OnceListed
    <3> QED
      BY ZenonT(60), <1>11, <3>2
  <2>3. ListedNotHeld'
    <3> SUFFICES ASSUME NEW j \in DOMAIN m_fibers', NEW v \in Threads, m_fibers'[j].fiber # None
                 PROVE  m_fibers'[j].fiber # ft'[v].fiber
      BY ZenonT(60) DEF ListedNotHeld
    <3>1. PICK k \in DOMAIN m_fibers : k # i /\ m_fibers'[j] = m_fibers[k]
      BY ZenonT(60), <1>11
    <3>2. OnceListed /\ ListedNotHeld
      BY DEF FibersInv, Apart
    <3>3. CASE v = w
      <4>1. m_fibers[k].fiber # m_fibers[i].fiber
        BY ZenonT(60), <3>1, <3>2 DEF OnceListed
      <4> QED
        BY ZenonT(60), <1>4, <3>1, <3>3, <4>1
    <3>4. CASE v # w
      BY ZenonT(60), <1>4, <3>1, <3>2, <3>4 DEF ListedNotHeld
    <3> QED
      BY <3>3, <3>4
  <2>4. OnceHeld'
    <3> SUFFICES ASSUME NEW u \in Threads, NEW v \in Threads, u # v,
                        ft'[u].fiber # None, ft'[u].fiber = ft'[v].fiber
                 PROVE  FALSE
      BY ZenonT(60) DEF OnceHeld
    <3>1. OnceHeld /\ ListedNotHeld
      BY DEF FibersInv, Apart
    <3>2. CASE u # w /\ v # w
      BY ZenonT(60), <1>4, <3>1, <3>2 DEF OnceHeld
    <3>3. CASE u = w
      BY ZenonT(60), <1>4, <3>1, <3>3 DEF ListedNotHeld
    <3>4. CASE v = w
      BY ZenonT(60), <1>4, <3>1, <3>4 DEF ListedNotHeld
    <3> QED
      BY <3>2, <3>3, <3>4
  <2>5. NobodyHolds'
    <3>1. pc'[w] # "hold"
      BY <1>4
    <3> QED
      BY ZenonT(60), <1>3, <1>4, <3>1 DEF FibersInv, Apart, NobodyHolds
  <2> QED
    BY ZenonT(60), <2>1, <2>2, <2>3, <2>4, <2>5 DEF Apart
<1>8. ASSUME NEW f \in Fibers
      PROVE  FiberOK(f)'
  <2>0. FiberOK(f) /\ f # None
    BY SchedulerAssumption DEF FibersInv, Tasks
  <2>1. CASE m_fibers[i].fiber = f
    <3>1. Listed(f) /\ ~Listed(f)' /\ f \notin fresh /\ m_state[f] \in {"INIT", "READY"}
      BY ZenonT(60), <1>6, <2>0, <2>1 DEF FiberOK
    <3>2. \A v \in Threads : ft[v].fiber # f
      BY ZenonT(60), <2>0, <2>1 DEF FibersInv, Apart, ListedNotHeld
    <3>3. \A v \in Threads : ft'[v].fiber = f <=> v = w
      BY ZenonT(60), <1>4, <2>1, <3>2
    <3>4. Stage(w, m_state[f])'
      BY <1>3, <1>4, <3>1 DEF Stage
    <3> QED
      BY ZenonT(60), <1>3, <2>0, <3>1, <3>3, <3>4 DEF FiberOK
  <2>2. CASE m_fibers[i].fiber # f
    <3>1. \A v \in Threads : /\ ft'[v].fiber = f <=> ft[v].fiber = f
                             /\ ft[v].fiber = f => pc'[v] = pc[v]
      BY ZenonT(60), <1>4, <1>5, <2>0, <2>2
    <3> QED
      BY ZenonT(60), <1>3, <1>6, <2>0, <2>2, <3>1, FiberStays
  <2> QED
    BY <2>1, <2>2
<1>9. ASSUME NEW v \in Threads
      PROVE  CbOK(v)'
  <2>1. (InCb(v)' <=> InCb(v)) /\ (InCb(v) => pc'[v] = pc[v])
    <3>1. CASE v = w
      BY <1>3, <1>4, <3>1 DEF InCb
    <3>2. CASE v # w
      BY ZenonT(60), <1>4, <3>2 DEF InCb
    <3> QED
      BY ZenonT(60), <3>1, <3>2
  <2> QED
    BY ZenonT(60), <1>3, <2>1, CbStays DEF FibersInv
<1>10. CbApart' /\ aborted' = "no"
  BY ZenonT(60), <1>3 DEF FibersInv, CbApart
<1> QED
  BY ZenonT(60), <1>7, <1>8, <1>9, <1>10 DEF FibersInv

\* A thread enters or leaves the fiber it holds, ...
LEMMA HeldFiberMoves ==
    ASSUME CoreInv, FibersInv, NEW w \in Threads, NEW f \in Fibers, ft[w].fiber = f,
           NEW place \in {"body", "out"}, pc' = [pc EXCEPT ![w] = place],
           pc[w] \in {"dispatch", "body"},
           NEW s \in {"EXEC", "READY", "TERM", "EXCEPT"}, m_state' = [m_state EXCEPT ![f] = s],
           place = "body" => s = "EXEC", place = "out" => s # "EXEC",
           \A x \in Tasks \ {f} : m_cb'[x] = m_cb[x] /\ runs'[x] = runs[x],
           m_cb'[f] = f \/ s = "TERM", runs'[f] = 1,
           UNCHANGED <<m_fibers, waiters, again, fresh, aborted, ft, cb_fiber>>
    PROVE  FibersInv'
<1>1. /\ pc'[w] = place /\ \A v \in Threads \ {w} : pc'[v] = pc[v]
      /\ m_state'[f] = s /\ \A x \in Tasks \ {f} : m_state'[x] = m_state[x]
  BY ZenonT(60) DEF CoreInv, TypeOK, Tasks
<1>2. f # None /\ f \in Tasks /\ f \notin Callbacks
  BY SchedulerAssumption DEF Tasks
<1>3. Apart'
  <2>1. place # "hold"
    OBVIOUS
  <2>2. \A v \in Threads : pc'[v] # "hold"
    BY ZenonT(60), <1>1, <2>1 DEF FibersInv, Apart, NobodyHolds
  <2> QED
    BY ZenonT(60), <2>2, ApartStays DEF FibersInv
<1>4. OnceHeld /\ ListedNotHeld
  BY DEF FibersInv, Apart
<1>5. \A v \in Threads : ft[v].fiber = f <=> v = w
  BY ZenonT(60), <1>2, <1>4 DEF OnceHeld
<1>6. FiberOK(f)'
  <2>1. FiberOK(f)
    BY DEF FibersInv
  <2>2. f \notin fresh /\ ~Listed(f)
    BY ZenonT(60), <1>2, <1>4, <2>1 DEF FiberOK, ListedNotHeld, Listed
  <2>3. f \notin fresh' /\ ~Listed(f)'
    BY ZenonT(60), <2>2, ListedStays
  <2>4. Stage(w, m_state[f])'
    BY <1>1 DEF Stage, Ended
  <2>5. m_state'[f] # "INIT"
    BY <1>1
  <2>6. ft' = ft
    OBVIOUS
  <2> QED
    BY ZenonT(60), <1>1, <1>5, <2>3, <2>4, <2>5, <2>6 DEF FiberOK
<1>7. ASSUME NEW x \in Fibers \ {f}
      PROVE  FiberOK(x)'
  <2>1. x \in Tasks \ {f} /\ FiberOK(x)
    BY DEF FibersInv, Tasks
  <2>2. \A v \in Threads : ft[v].fiber = x => v # w
    BY ZenonT(60)
  <2>3. Listed(x)' <=> Listed(x)
    BY ZenonT(60), ListedStays
  <2> QED
    BY ZenonT(60), <1>1, <2>1, <2>2, <2>3, FiberStays
<1>8. ASSUME NEW v \in Threads
      PROVE  CbOK(v)'
  <2>1. (InCb(v)' <=> InCb(v)) /\ (InCb(v) => pc'[v] = pc[v])
    BY ZenonT(60), <1>1, <1>2 DEF InCb
  <2>2. cb_fiber[v] # None => cb_fiber[v] \in Tasks \ {f}
    BY ZenonT(60), <1>2 DEF FibersInv, CbOK, Tasks
  <2>3. \A c \in Callbacks : runs'[c] = runs[c]
    BY ZenonT(60), <1>2 DEF Tasks
  <2> QED
    BY ZenonT(60), <1>1, <2>1, <2>2, <2>3, CbStays DEF FibersInv
<1>9. CbApart' /\ aborted' = "no"
  BY ZenonT(60), <1>1, <1>2 DEF FibersInv, CbApart, Tasks
<1> QED
  BY ZenonT(60), <1>3, <1>6, <1>7, <1>8, <1>9 DEF FibersInv

\* ... or its cb_fiber.
LEMMA CbFiberMoves ==
    ASSUME CoreInv, FibersInv, NEW w \in Threads, NEW c \in Callbacks, ft[w].fiber = None,
           NEW place \in {"body", "out", "scan"}, pc' = [pc EXCEPT ![w] = place],
           cb_fiber' = [cb_fiber EXCEPT ![w] = c], \A v \in Threads \ {w} : cb_fiber[v] # c,
           NEW s \in {"EXEC", "TERM", "EXCEPT", "INIT"}, m_state' = [m_state EXCEPT ![c] = s],
           \A x \in Tasks \ {c} : m_cb'[x] = m_cb[x],
           \A x \in Fibers : runs'[x] = runs[x],
           \A x \in Callbacks : runs[x] = 1 => runs'[x] = 1,
           \A v \in Threads : v # w => ft'[v] = ft[v], ft'[w] \in {ft[w], NoEntry},
           UNCHANGED <<m_fibers, waiters, again, fresh, aborted>>,
           CbOK(w)'
    PROVE  FibersInv'
<1>1. /\ pc'[w] = place /\ \A v \in Threads \ {w} : pc'[v] = pc[v]
      /\ cb_fiber'[w] = c /\ \A v \in Threads \ {w} : cb_fiber'[v] = cb_fiber[v]
      /\ m_state'[c] = s /\ \A x \in Tasks \ {c} : m_state'[x] = m_state[x]
  BY ZenonT(60) DEF CoreInv, TypeOK, Tasks
<1>2. c # None /\ c \in Tasks /\ c \notin Fibers
  BY SchedulerAssumption DEF Tasks
<1>3. Apart'
  <2>1. place # "hold"
    OBVIOUS
  <2>2. \A v \in Threads : pc'[v] # "hold"
    BY ZenonT(60), <1>1, <2>1 DEF FibersInv, Apart, NobodyHolds
  <2> QED
    BY ZenonT(60), <2>2, ApartStays DEF FibersInv
<1>4. ft'[w].fiber = None
  BY ZenonT(60), NoFiber
<1>5. ASSUME NEW x \in Fibers
      PROVE  FiberOK(x)'
  <2>1. x \in Tasks \ {c} /\ FiberOK(x) /\ x # None
    BY <1>2, SchedulerAssumption DEF FibersInv, Tasks
  <2>2. \A v \in Threads : /\ ft[v].fiber = x => v # w
                           /\ ft'[v].fiber = x <=> ft[v].fiber = x
    BY ZenonT(60), <1>4, <2>1
  <2>3. Listed(x)' <=> Listed(x)
    BY ZenonT(60), ListedStays
  <2> QED
    BY ZenonT(60), <1>1, <2>1, <2>2, <2>3, FiberStays
<1>6. ASSUME NEW v \in Threads \ {w}
      PROVE  CbOK(v)'
  <2>1. (InCb(v)' <=> InCb(v)) /\ pc'[v] = pc[v] /\ cb_fiber'[v] = cb_fiber[v]
    BY ZenonT(60), <1>1 DEF InCb
  <2>2. cb_fiber[v] # None => cb_fiber[v] \in Tasks \ {c}
    BY ZenonT(60), <1>2 DEF FibersInv, CbOK, Tasks
  <2> QED
    BY ZenonT(60), <1>1, <2>1, <2>2, CbStays DEF FibersInv
<1>7. CbApart'
  <2>1. ASSUME NEW u \in Threads, NEW v \in Threads, u # v,
               cb_fiber'[u] # None, cb_fiber'[u] = cb_fiber'[v]
        PROVE  FALSE
    <3>1. CASE u # w /\ v # w
      <4>1. cb_fiber[u] # None /\ cb_fiber[u] = cb_fiber[v]
        BY ZenonT(60), <1>1, <2>1, <3>1
      <4> QED
        BY ZenonT(60), <2>1, <4>1 DEF FibersInv, CbApart
    <3>2. CASE u = w \/ v = w
      BY <1>1, <2>1, <3>2
    <3> QED
      BY <3>1, <3>2
  <2>2. s # "READY"
    OBVIOUS
  <2>3. \A x \in Callbacks : m_state'[x] # "READY"
    BY ZenonT(60), <1>1, <2>2 DEF FibersInv, CbApart, Tasks
  <2> QED
    BY ZenonT(60), <2>1, <2>3 DEF CbApart
<1> QED
  BY ZenonT(60), <1>3, <1>5, <1>6, <1>7 DEF FibersInv

\* A fiber that is dispatched is new or READY: swapIn()'s assertion holds.
LEMMA DispatchedFiber ==
    ASSUME CoreInv, FibersInv, NEW w \in Threads, pc[w] = "dispatch", ft[w].fiber # None
    PROVE  /\ ft[w].fiber \in Fibers /\ m_state[ft[w].fiber] \in {"INIT", "READY"}
           /\ m_cb[ft[w].fiber] = ft[w].fiber
           /\ runs[ft[w].fiber] = IF m_state[ft[w].fiber] = "INIT" THEN 0 ELSE 1
<1>1. PICK f : f = ft[w].fiber
  OBVIOUS
<1>2. f \in Fibers
  BY ZenonT(60), <1>1 DEF FibersInv, Apart, FiberPtrs
<1>3. FiberOK(f)
  BY <1>2 DEF FibersInv
<1>4. m_state[f] \in {"INIT", "READY"}
  BY ZenonT(60), <1>1, <1>3 DEF FiberOK, Stage
<1>5. m_state[f] # "TERM"
  BY <1>4
<1> QED
  BY ZenonT(60), <1>1, <1>2, <1>3, <1>4, <1>5 DEF FiberOK

LEMMA DispatchFiberFibers ==
    ASSUME CoreInv, FibersInv, NEW w \in Threads, DispatchFiber(w) \/ DispatchEnded(w)
    PROVE  FibersInv'
<1>1. pc[w] = "dispatch" /\ ft[w].fiber # None
  BY ZenonT(60) DEF DispatchFiber, DispatchEnded, At
<1>2. PICK f \in Fibers : f = ft[w].fiber
  BY ZenonT(60), <1>1, DispatchedFiber
<1>3. /\ m_state[f] \in {"INIT", "READY"} /\ m_cb[f] = f
      /\ runs[f] = IF m_state[f] = "INIT" THEN 0 ELSE 1
  BY ZenonT(60), <1>1, <1>2, DispatchedFiber
<1>4. m_state[f] # "EXEC" /\ m_state[f] \notin Ended
  BY <1>3 DEF Ended
<1>5. DispatchFiber(w)
  BY ZenonT(60), <1>2, <1>4 DEF DispatchEnded
<1>6. /\ m_state' = [m_state EXCEPT ![f] = "EXEC"]
      /\ m_cb' = [m_cb EXCEPT ![f] = f]
      /\ runs' = [x \in Tasks |-> IF x = f /\ m_state[f] = "INIT" THEN runs[x] + 1 ELSE runs[x]]
      /\ pc' = [pc EXCEPT ![w] = "body"]
      /\ UNCHANGED aborted
  BY ZenonT(60), <1>2, <1>3, <1>4, <1>5 DEF DispatchFiber, swapIn
<1>7. UNCHANGED <<m_fibers, waiters, again, fresh, ft, cb_fiber>>
  BY ZenonT(60), <1>5 DEF DispatchFiber, queueVars
<1>8. f \in Tasks /\ m_cb \in [Tasks -> Tasks \cup {None}]
  BY DEF Tasks, CoreInv, TypeOK
<1>9. m_cb'[f] = f /\ \A x \in Tasks \ {f} : m_cb'[x] = m_cb[x] /\ runs'[x] = runs[x]
  BY ZenonT(60), <1>6, <1>8
<1>10. runs'[f] = 1
  <2>1. runs'[f] = IF m_state[f] = "INIT" THEN runs[f] + 1 ELSE runs[f]
    BY ZenonT(60), <1>6, <1>8
  <2> QED
    BY <1>3, <2>1
<1> QED
  BY ZenonT(60), <1>1, <1>2, <1>6, <1>7, <1>9, <1>10, HeldFiberMoves

\* A callback that is dispatched runs on a fiber that is new: reset()'s
\* assertion holds.
LEMMA DispatchCbFibers ==
    ASSUME CoreInv, CallbackInv, FibersInv, NEW w \in Threads, DispatchCb(w)
    PROVE  FibersInv'
<1>1. pc[w] = "dispatch" /\ ft[w] \in Entry /\ ft[w].cb # None
  BY ZenonT(60) DEF DispatchCb, At, CoreInv, TypeOK
<1>2. PICK c \in Callbacks : c = ft[w].cb
  BY ZenonT(60), <1>1 DEF Entry
<1>3. ft[w].fiber = None
  BY ZenonT(60), <1>1 DEF CoreInv, Shape, LocalsOK, Whole
<1>4. ~InCb(w)
  BY <1>1 DEF InCb
<1>5. c \notin fresh /\ runs[c] = 0
  <2>1. w \in Taken(c) /\ Kept(c)
    BY ZenonT(60), <1>1, <1>2 DEF Taken, CallbackInv, CallbackConserved
  <2> QED
    BY ZenonT(60), <2>1, KeptPlaces
<1>6. \A v \in Threads : cb_fiber[v] # None => /\ cb_fiber[v] \in Callbacks
                                               /\ runs[cb_fiber[v]] = 1
  BY ZenonT(60) DEF FibersInv, CbOK
<1>7. PICK f \in Callbacks : f = IF cb_fiber[w] # None THEN cb_fiber[w] ELSE c
  BY ZenonT(60), <1>6
<1>8. cb_fiber[w] # None => Resettable(f)
  BY ZenonT(60), <1>4, <1>7 DEF FibersInv, CbOK, Resettable
<1>9. /\ cb_fiber' = [cb_fiber EXCEPT ![w] = f] /\ ft' = [ft EXCEPT ![w] = NoEntry]
      /\ swapIn(w, f, c, "INIT")
      /\ UNCHANGED <<queueVars, waiters>>
  BY ZenonT(60), <1>2, <1>7, <1>8 DEF DispatchCb
<1>10. /\ m_state' = [m_state EXCEPT ![f] = "EXEC"] /\ m_cb' = [m_cb EXCEPT ![f] = c]
       /\ runs' = [x \in Tasks |-> IF x = c THEN runs[x] + 1 ELSE runs[x]]
       /\ pc' = [pc EXCEPT ![w] = "body"] /\ UNCHANGED aborted
  BY ZenonT(60), <1>9 DEF swapIn
<1>11. /\ cb_fiber'[w] = f /\ ft'[w] = NoEntry /\ pc'[w] = "body"
       /\ \A v \in Threads : v # w => ft'[v] = ft[v]
       /\ m_state'[f] = "EXEC" /\ m_cb'[f] = c /\ \A x \in Tasks \ {f} : m_cb'[x] = m_cb[x]
  BY ZenonT(60), <1>9, <1>10 DEF CoreInv, TypeOK, Tasks
<1>12. /\ runs'[c] = 1 /\ \A x \in Fibers : runs'[x] = runs[x]
       /\ \A x \in Callbacks : runs[x] = 1 => runs'[x] = 1
  <2>1. \A x \in Tasks : runs'[x] = IF x = c THEN runs[x] + 1 ELSE runs[x]
    BY ZenonT(60), <1>10
  <2> QED
    BY <1>5, <2>1, SchedulerAssumption DEF Tasks
<1>13. \A v \in Threads \ {w} : cb_fiber[v] # f
  <2>1. CASE cb_fiber[w] # None
    BY ZenonT(60), <1>7, <2>1 DEF FibersInv, CbApart
  <2>2. CASE cb_fiber[w] = None
    <3>1. f = c /\ f # None
      BY <1>7, <2>2, SchedulerAssumption DEF Tasks
    <3> QED
      BY <1>5, <1>6, <3>1
  <2> QED
    BY <2>1, <2>2
<1>14. runs'[f] = 1
  BY ZenonT(60), <1>6, <1>7, <1>12
<1>15. CbOK(w)'
  <2>1. InCb(w)'
    BY <1>11, NoFiber DEF InCb
  <2> QED
    BY ZenonT(60), <1>11, <1>12, <1>14, <2>1 DEF CbOK
<1>16. UNCHANGED <<m_fibers, again, fresh, waiters, aborted>>
  BY ZenonT(60), <1>9, <1>10 DEF queueVars
<1> QED
  BY ZenonT(60), <1>3, <1>9, <1>10, <1>11, <1>12, <1>13, <1>15, <1>16, CbFiberMoves

\* A body yields or ends: one that yields is that of a client fiber.
LEMMA BodyFibers ==
    ASSUME ReadyOnly, CoreInv, FibersInv, NEW w \in Threads,
           YieldToReady(w) \/ MainFuncEnd(w) \/ Register(w) \/ YieldToHold(w)
    PROVE  FibersInv'
<1>1. pc[w] = "body" /\ (YieldToReady(w) \/ MainFuncEnd(w))
  <2>1. pc[w] # "hold"
    BY ZenonT(60) DEF FibersInv, Apart, NobodyHolds
  <2>2. ~YieldToHold(w) /\ ~Register(w)
    BY <2>1 DEF YieldToHold, Register, At, ReadyOnly
  <2> QED
    BY ZenonT(60), <2>2 DEF YieldToReady, MainFuncEnd, At
<1>2. PICK f : f = Current(w)
  OBVIOUS
<1>3. PICK s \in {"READY", "TERM", "EXCEPT"} :
         /\ m_state' = [m_state EXCEPT ![f] = s] /\ pc' = [pc EXCEPT ![w] = "out"]
         /\ s = "READY" => YieldToReady(w)
         /\ m_cb' = m_cb \/ (s = "TERM" /\ m_cb' = [m_cb EXCEPT ![f] = None])
         /\ UNCHANGED <<m_fibers, waiters, again, fresh, aborted, ft, cb_fiber, runs>>
  <2>1. CASE YieldToReady(w)
    BY ZenonT(60), <1>2, <2>1 DEF YieldToReady, LeaveBody, queueVars
  <2>2. CASE MainFuncEnd(w)
    BY ZenonT(60), <1>2, <2>2 DEF MainFuncEnd, LeaveBody, queueVars, Ended
  <2> QED
    BY <1>1, <2>1, <2>2
<1>4. m_cb \in [Tasks -> Tasks \cup {None}]
  BY DEF CoreInv, TypeOK
<1>5. CASE ft[w].fiber \in Fibers /\ f = ft[w].fiber
  <2>1. FiberOK(f) /\ f \in Tasks
    BY <1>5 DEF FibersInv, Tasks
  <2>2. m_state[f] = "EXEC"
    BY ZenonT(60), <1>1, <1>5, <2>1 DEF FiberOK, Stage
  <2>3. m_cb[f] = f /\ runs[f] = 1
    BY ZenonT(60), <2>1, <2>2 DEF FiberOK
  <2>4. /\ \A x \in Tasks \ {f} : m_cb'[x] = m_cb[x] /\ runs'[x] = runs[x]
        /\ m_cb'[f] = f \/ s = "TERM"
        /\ runs'[f] = 1
    BY <1>3, <1>4, <2>1, <2>3
  <2>5. s \in {"EXEC", "READY", "TERM", "EXCEPT"} /\ s # "EXEC"
    OBVIOUS
  <2> QED
    BY ZenonT(60), <1>1, <1>3, <1>5, <2>4, <2>5, HeldFiberMoves
<1>6. CASE ft[w].fiber = None /\ f = cb_fiber[w] /\ f \in Callbacks /\ InCb(w)
  <2>1. CbOK(w) /\ f # None /\ f \in Tasks
    BY <1>6, SchedulerAssumption DEF FibersInv, Tasks
  <2>2. m_cb[f] \in Callbacks /\ runs[m_cb[f]] = 1 /\ runs[f] = 1
    BY ZenonT(60), <1>1, <1>6, <2>1 DEF CbOK
  <2>3. s # "READY"
    BY ZenonT(60), <1>2, <1>3, <2>2, SchedulerAssumption DEF YieldToReady, ReadyOnly
  <2>4. \A x \in Tasks \ {f} : m_cb'[x] = m_cb[x]
    BY ZenonT(60), <1>3, <1>4
  <2>5. m_cb'[f] = m_cb[f] \/ m_cb'[f] = None
    BY ZenonT(60), <1>3, <1>4, <2>1
  <2>6. /\ pc'[w] = "out" /\ cb_fiber'[w] = f /\ m_state'[f] = s /\ s \in Ended
        /\ cb_fiber' = [cb_fiber EXCEPT ![w] = f] /\ ft' = ft /\ runs' = runs
    BY ZenonT(60), <1>3, <1>6, <2>1, <2>3 DEF CoreInv, TypeOK, Ended
  <2>7. pc'[w] # "body" /\ InCb(w)'
    BY <1>6, <2>6 DEF InCb
  <2>8. CbOK(w)'
    BY ZenonT(60), <1>6, <2>2, <2>5, <2>6, <2>7 DEF CbOK
  <2>9. \A v \in Threads \ {w} : cb_fiber[v] # f
    BY ZenonT(60), <1>6, <2>1 DEF FibersInv, CbApart
  <2>10. s \in {"EXEC", "TERM", "EXCEPT", "INIT"}
    BY <2>3
  <2> QED
    BY ZenonT(60), <1>3, <1>6, <2>4, <2>6, <2>8, <2>9, <2>10, CbFiberMoves
<1> QED
  BY ZenonT(60), <1>1, <1>2, <1>5, <1>6, WhoRuns

\* Back in run(), a READY fiber returns to the list.
LEMMA BackFiberFibers ==
    ASSUME CoreInv, FibersInv, NEW w \in Threads, BackFiber(w)
    PROVE  FibersInv'
<1>1. PICK f : f = ft[w].fiber
  OBVIOUS
<1>2. pc[w] = "back" /\ f \in Fibers /\ f # None
  BY ZenonT(60), <1>1 DEF BackFiber, At, FibersInv, Apart, FiberPtrs
<1>3. FiberOK(f)
  BY <1>2 DEF FibersInv
<1>4. m_state[f] \in Ended \cup {"READY"} /\ f \notin fresh
  BY ZenonT(60), <1>1, <1>2, <1>3 DEF FiberOK, Stage
<1>5. /\ Requeue(f) /\ m_state' = m_state
      /\ ft' = [ft EXCEPT ![w] = NoEntry] /\ pc' = [pc EXCEPT ![w] = "scan"]
      /\ UNCHANGED <<m_cb, runs, fresh, again, cb_fiber, waiters, aborted>>
  BY ZenonT(60), <1>1, <1>4 DEF BackFiber
<1>6. /\ pc'[w] = "scan" /\ ft'[w] = NoEntry
      /\ \A v \in Threads \ {w} : pc'[v] = pc[v] /\ ft'[v] = ft[v]
  BY <1>5 DEF CoreInv, TypeOK
<1>7. ~Listed(f) /\ \A v \in Threads : ft'[v].fiber # f
  <2>1. OnceHeld /\ ListedNotHeld
    BY DEF FibersInv, Apart
  <2>2. ~Listed(f)
    BY ZenonT(60), <1>1, <1>2, <2>1 DEF ListedNotHeld, Listed
  <2>3. \A v \in Threads : ft'[v].fiber # f
    BY ZenonT(60), <1>1, <1>2, <1>6, <2>1, NoFiber DEF OnceHeld
  <2> QED
    BY <2>2, <2>3
<1>8. NobodyHolds'
  BY <1>5, <1>6 DEF FibersInv, Apart, NobodyHolds
<1>9. /\ \A v \in Threads : ft'[v] = ft[v] \/ ft'[v] = NoEntry
      /\ OnceHeld'
  <2>1. \A v \in Threads : ft'[v] = ft[v] \/ ft'[v] = NoEntry
    BY ZenonT(60), <1>6
  <2> QED
    BY ZenonT(60), <2>1, NoFiber DEF FibersInv, Apart, OnceHeld
<1>10. Apart' /\ \A x \in Fibers : Listed(x)' <=> Listed(x) \/ (x = f /\ m_state[f] = "READY")
  <2>1. CASE m_state[f] # "READY"
    <3>1. UNCHANGED m_fibers
      BY <1>5, <2>1 DEF Requeue
    <3>2. \A v \in Threads : pc'[v] # "hold"
      BY ZenonT(60), <1>8 DEF NobodyHolds
    <3>3. Apart'
      BY ZenonT(60), <1>5, <1>9, <3>1, <3>2, ApartStays DEF FibersInv
    <3> QED
      BY ZenonT(60), <2>1, <3>1, <3>3, ListedStays
  <2>2. CASE m_state[f] = "READY"
    <3>1. PICK e : e = FiberEntry(f, AnyThread)
      OBVIOUS
    <3>2. e.fiber = f /\ schedule(e)
      BY <1>5, <2>2, <3>1 DEF Requeue, FiberEntry
    <3>3. PICK n : /\ n \notin DOMAIN m_fibers /\ DOMAIN m_fibers' = DOMAIN m_fibers \cup {n}
                   /\ m_fibers'[n] = e
                   /\ \A i \in DOMAIN m_fibers : m_fibers'[i] = m_fibers[i]
      BY ZenonT(60), <3>2, Appended DEF CoreInv
    <3>4. FiberPtrs'
      BY ZenonT(60), <1>2, <1>9, <3>2, <3>3, NoFiber DEF FibersInv, Apart, FiberPtrs
    <3>5. \A i \in DOMAIN m_fibers : m_fibers[i].fiber # f
      BY ZenonT(60), <1>7 DEF Listed
    <3>6. OnceListed'
      BY ZenonT(60), <3>2, <3>3, <3>5 DEF FibersInv, Apart, OnceListed
    <3>7. ListedNotHeld'
      BY ZenonT(60), <1>7, <1>9, <3>2, <3>3, NoFiber DEF FibersInv, Apart, ListedNotHeld
    <3>8. \A x \in Fibers : Listed(x)' <=> Listed(x) \/ x = f
      BY ZenonT(60), <3>2, <3>3 DEF Listed
    <3> QED
      BY ZenonT(60), <1>8, <1>9, <2>2, <3>4, <3>6, <3>7, <3>8 DEF Apart
  <2> QED
    BY <2>1, <2>2
<1>11. FiberOK(f)'
  <2>1. m_state[f] # "INIT"
    BY <1>4 DEF Ended
  <2> QED
    BY ZenonT(60), <1>2, <1>3, <1>4, <1>5, <1>7, <1>10 DEF FiberOK
<1>12. ASSUME NEW x \in Fibers \ {f}
       PROVE  FiberOK(x)'
  <2>1. FiberOK(x) /\ (Listed(x)' <=> Listed(x)) /\ x # None
    BY <1>10, SchedulerAssumption DEF FibersInv, Tasks
  <2>2. \A v \in Threads : /\ ft'[v].fiber = x <=> ft[v].fiber = x
                           /\ ft[v].fiber = x => pc'[v] = pc[v]
    BY ZenonT(60), <1>1, <1>6, <2>1, NoFiber
  <2> QED
    BY ZenonT(60), <1>5, <2>1, <2>2, FiberStays
<1>13. ASSUME NEW v \in Threads
       PROVE  CbOK(v)'
  <2>1. (InCb(v)' <=> InCb(v)) /\ (InCb(v) => pc'[v] = pc[v])
    <3>1. CASE v = w
      BY <1>1, <1>2, <1>6, <3>1 DEF InCb
    <3>2. CASE v # w
      BY ZenonT(60), <1>6, <3>2 DEF InCb
    <3> QED
      BY ZenonT(60), <3>1, <3>2
  <2> QED
    BY ZenonT(60), <1>5, <2>1, CbStays DEF FibersInv
<1>14. CbApart' /\ aborted' = "no"
  BY ZenonT(60), <1>5 DEF FibersInv, CbApart
<1> QED
  BY ZenonT(60), <1>10, <1>11, <1>12, <1>13, <1>14 DEF FibersInv

\* Back from a callback, cb_fiber is reset for the next one.
LEMMA BackCbFibers ==
    ASSUME CoreInv, FibersInv, NEW w \in Threads, BackCb(w)
    PROVE  FibersInv'
<1>1. pc[w] = "back" /\ ft[w].fiber = None
  BY ZenonT(60) DEF BackCb, At
<1>2. InCb(w) /\ pc[w] # "body"
  BY <1>1 DEF InCb
<1>3. PICK c \in Callbacks : c = cb_fiber[w]
  BY ZenonT(60), <1>1, <1>2, WhoRuns
<1>4. c # None /\ c \in Tasks
  BY SchedulerAssumption DEF Tasks
<1>5. m_state[c] \in Ended /\ runs[c] = 1
  BY ZenonT(60), <1>2, <1>3, <1>4 DEF FibersInv, CbOK
<1>6. m_state[c] # "READY"
  BY <1>5 DEF Ended
<1>7. /\ UNCHANGED m_fibers /\ m_state' = [m_state EXCEPT ![c] = "INIT"]
      /\ m_cb' = [m_cb EXCEPT ![c] = None] /\ UNCHANGED cb_fiber
  BY ZenonT(60), <1>3, <1>5, <1>6 DEF BackCb, Requeue
<1>8. /\ pc' = [pc EXCEPT ![w] = "scan"]
      /\ UNCHANGED <<waiters, again, fresh, aborted, runs, ft>>
  BY ZenonT(60) DEF BackCb
<1>9. /\ pc'[w] = "scan" /\ m_state'[c] = "INIT" /\ cb_fiber' = [cb_fiber EXCEPT ![w] = c]
      /\ \A x \in Tasks \ {c} : m_cb'[x] = m_cb[x]
  BY ZenonT(60), <1>3, <1>4, <1>7, <1>8 DEF CoreInv, TypeOK
<1>10. ~InCb(w)'
  BY <1>9 DEF InCb
<1>11. CbOK(w)'
  BY ZenonT(60), <1>3, <1>5, <1>7, <1>8, <1>9, <1>10 DEF CbOK
<1>12. \A v \in Threads \ {w} : cb_fiber[v] # c
  BY ZenonT(60), <1>3, <1>4 DEF FibersInv, CbApart
<1> QED
  BY ZenonT(60), <1>1, <1>7, <1>8, <1>9, <1>11, <1>12, CbFiberMoves

\* The steps that move threads between places where they hold nothing.
LEMMA QuietThread ==
    ASSUME CoreInv, FibersInv, NEW w \in Threads,
           TakeNothing(w) \/ EnterIdle(w) \/ idle(w) \/ swapOut(w)
    PROVE  FibersInv'
<1>1. UNCHANGED <<m_fibers, waiters, again, fresh, m_state, m_cb, runs, aborted, ft, cb_fiber>>
  BY ZenonT(60) DEF TakeNothing, EnterIdle, idle, swapOut, queueVars, fiberVars
<1>2. PICK place : /\ pc' = [pc EXCEPT ![w] = place]
                   /\ \/ pc[w] = "out" /\ place = "back"
                      \/ pc[w] \in Free /\ place \in Free
  BY ZenonT(60) DEF TakeNothing, EnterIdle, idle, swapOut, At, Free
<1>3. pc'[w] = place /\ \A v \in Threads \ {w} : pc'[v] = pc[v]
  BY <1>2 DEF CoreInv, TypeOK
<1> QED
  BY ZenonT(60), <1>1, <1>2, <1>3, QuietFibers

LEMMA StartStopFibers ==
    ASSUME CoreInv, FibersInv, start \/ Stop \/ UNCHANGED vars
    PROVE  FibersInv'
<1>1. UNCHANGED <<m_fibers, waiters, again, fresh, m_state, m_cb, runs, aborted, ft, cb_fiber>>
  BY ZenonT(60) DEF start, Stop, stopAuto, stopFlag, stopCheck, stopJoin, vars, queueVars,
     fiberVars
<1>2. ASSUME start
      PROVE  \A v \in Threads : pc[v] \in Free /\ pc'[v] \in Free
  <2>1. client = "new" /\ pc' = [v \in Threads |-> IF v = Caller THEN "off" ELSE "scan"]
    BY <1>2 DEF start, ClientAt
  <2>2. \A v \in Threads : pc[v] = "off"
    BY ZenonT(60), <2>1 DEF CoreInv, Shape, StartedOK
  <2> QED
    BY <2>1, <2>2 DEF Free
<1>3. ASSUME stopCheck, pc' # pc
      PROVE  \A v \in Threads : pc'[v] = pc[v] \/ (pc[v] \in Free /\ pc'[v] \in Free)
  <2>1. Caller \in Threads /\ client = "check" /\ pc' = [pc EXCEPT ![Caller] = "scan"]
    BY ZenonT(60), <1>3, SchedulerAssumption DEF stopCheck, ClientAt
  <2>2. pc[Caller] = "off"
    BY <2>1 DEF CoreInv, Shape, StartedOK
  <2> QED
    BY <2>1, <2>2 DEF CoreInv, TypeOK, Free
<1>4. start \/ stopCheck \/ UNCHANGED pc
  BY ZenonT(60) DEF Stop, stopAuto, stopFlag, stopJoin, vars
<1> QED
  BY ZenonT(60), <1>1, <1>2, <1>3, <1>4, QuietFibers

LEMMA FibersInvNext ==
    ASSUME ReadyOnly
    PROVE  CoreInv /\ CallbackInv /\ FibersInv /\ [Next]_vars => FibersInv'
<1> SUFFICES ASSUME CoreInv, CallbackInv, FibersInv, [Next]_vars
             PROVE  FibersInv'
  OBVIOUS
<1>1. ASSUME NEW x \in Tasks, NEW t \in Threads \cup {AnyThread},
             ClientSchedule(x, t) \/ \E w \in Threads : BodySchedule(w, x, t)
      PROVE  FibersInv'
  <2>1. /\ Submit(x, t)
        /\ UNCHANGED <<waiters, again, m_state, m_cb, runs, aborted, pc, ft, cb_fiber>>
    BY ZenonT(60), <1>1 DEF ClientSchedule, BodySchedule, fiberVars
  <2> QED
    BY ZenonT(60), <2>1, SubmitFibers
<1>2. \A f : ~ClientReschedule(f) /\ ~Wake(f)
  BY ZenonT(60) DEF ClientReschedule, Wake, FibersInv, Apart, NobodyHolds
<1>3. ASSUME NEW w \in Threads, run(w)
      PROVE  FibersInv'
  BY ZenonT(60), <1>1, <1>3, TakeFibers, QuietThread, DispatchFiberFibers, DispatchCbFibers,
     BodyFibers, BackFiberFibers, BackCbFibers DEF run, BodyStep
<1> QED
  BY ZenonT(60), <1>1, <1>2, <1>3, StartStopFibers DEF Next, Terminated

LEMMA FibersInvInit ==
    ASSUME ReadyOnly
    PROVE  Init => FibersInv
<1> SUFFICES ASSUME Init PROVE FibersInv
  OBVIOUS
<1>1. /\ DOMAIN m_fibers = {} /\ \A w \in Threads : ft[w].fiber = None /\ pc[w] = "off"
      /\ \A w \in Threads : cb_fiber[w] = None
  BY NoFiber DEF Init
<1>2. Apart
  BY ZenonT(60), <1>1 DEF Init, Apart, FiberPtrs, OnceListed, OnceHeld, ListedNotHeld,
     NobodyHolds, ReadyOnly
<1>3. ASSUME NEW f \in Fibers
      PROVE  FiberOK(f)
  <2>1. f # None /\ f \in Tasks
    BY SchedulerAssumption DEF Tasks
  <2>2. m_state[f] = "INIT" /\ m_cb[f] = f /\ runs[f] = 0 /\ f \in fresh
    BY <2>1 DEF Init
  <2>3. ~Listed(f) /\ \A w \in Threads : ft[w].fiber # f
    BY ZenonT(60), <1>1, <2>1 DEF Listed
  <2> QED
    BY <2>2, <2>3 DEF FiberOK
<1>4. CbApart
  <2>1. ASSUME NEW c \in Callbacks
        PROVE  m_state[c] # "READY"
    BY SchedulerAssumption DEF Init, Tasks
  <2> QED
    BY ZenonT(60), <1>1, <2>1 DEF CbApart
<1>5. \A w \in Threads : CbOK(w)
  BY ZenonT(60), <1>1 DEF CbOK
<1> QED
  BY ZenonT(60), <1>2, <1>3, <1>4, <1>5 DEF FibersInv, Init

\* What the invariant says of the fibers the threads run.
LEMMA FibersApart ==
    CoreInv /\ FibersInv => OneThreadPerFiber /\ NoAssertFails
<1> SUFFICES ASSUME CoreInv, FibersInv
             PROVE  OneThreadPerFiber /\ NoAssertFails
  OBVIOUS
<1>1. \A w \in Threads : Running(w) => pc[w] \in {"body", "out", "back"} /\ pc[w] # "hold"
  BY DEF Running, FibersInv, Apart, NobodyHolds
<1>2. ASSUME NEW v \in Threads, NEW w \in Threads, v # w, Running(v), Running(w),
             Current(v) = Current(w)
      PROVE  FALSE
  <2>1. \A f \in Fibers : f # None /\ f \notin Callbacks
    BY SchedulerAssumption DEF Tasks
  <2>2. \A c \in Callbacks : c # None
    BY SchedulerAssumption DEF Tasks
  <2>3. \/ ft[v].fiber \in Fibers /\ Current(v) = ft[v].fiber
        \/ cb_fiber[v] \in Callbacks /\ Current(v) = cb_fiber[v]
    BY ZenonT(60), <1>1, <1>2, WhoRuns
  <2>4. \/ ft[w].fiber \in Fibers /\ Current(w) = ft[w].fiber
        \/ cb_fiber[w] \in Callbacks /\ Current(w) = cb_fiber[w]
    BY ZenonT(60), <1>1, <1>2, WhoRuns
  <2>5. OnceHeld /\ \A u, x \in Threads : cb_fiber[u] # None /\ cb_fiber[u] = cb_fiber[x] => u = x
    BY ZenonT(60) DEF FibersInv, Apart, CbApart
  <2> QED
    BY ZenonT(60), <1>2, <2>1, <2>2, <2>3, <2>4, <2>5 DEF OnceHeld
<1>3. ASSUME NEW w \in Threads, pc[w] \in {"body", "hold"}
      PROVE  m_state[Current(w)] = "EXEC"
  <2>1. pc[w] = "body" /\ pc[w] \in {"body", "out", "back"}
    BY <1>3 DEF FibersInv, Apart, NobodyHolds
  <2>2. CASE ft[w].fiber \in Fibers /\ Current(w) = ft[w].fiber
    BY ZenonT(60), <2>1, <2>2 DEF FibersInv, FiberOK, Stage
  <2>3. CASE InCb(w) /\ cb_fiber[w] \in Callbacks /\ Current(w) = cb_fiber[w]
    <3>1. cb_fiber[w] # None
      BY <2>3, SchedulerAssumption DEF Tasks
    <3> QED
      BY ZenonT(60), <2>1, <2>3, <3>1 DEF FibersInv, CbOK
  <2> QED
    BY ZenonT(60), <2>1, <2>2, <2>3, WhoRuns
<1> QED
  BY ZenonT(60), <1>2, <1>3 DEF OneThreadPerFiber, NoAssertFails, FibersInv

-----------------------------------------------------------------------------
(* Pinned tasks, for the same clients.                                     *)

EntryTask(e) == IF e.fiber # None THEN e.fiber ELSE e.cb

\* An entry of a task that does not yield carries the thread the task was
\* scheduled on; run() has taken only entries for its thread or for any.
EntryPinned(e) == EntryTask(e) \notin ReadyYielders => e.thread = pin[EntryTask(e)]

TakenPinned(w) == pc[w] = "dispatch" => EntryPinned(ft[w]) /\ ft[w].thread \in {AnyThread, w}

BodyPinned(w) ==
    LET x == m_cb[Current(w)] IN
        Running(w) /\ x \in Tasks =>
            x \notin fresh /\ (x \notin ReadyYielders => pin[x] \in {AnyThread, w})

PinInv ==
    /\ \A i \in DOMAIN m_fibers : EntryPinned(m_fibers[i])
    /\ \A f \in Fibers : m_state[f] = "READY" => f \in ReadyYielders
    /\ \A w \in Threads : TakenPinned(w) /\ BodyPinned(w)

\* A thread the step does not move, with its body or without.
LEMMA PinStays ==
    ASSUME NEW v \in Threads, TakenPinned(v), BodyPinned(v),
           UNCHANGED <<pin, fresh>>, pc'[v] = pc[v], ft'[v] = ft[v], cb_fiber'[v] = cb_fiber[v],
           m_cb'[Current(v)] \in {m_cb[Current(v)], None}
    PROVE  TakenPinned(v)' /\ BodyPinned(v)'
<1>1. Current(v)' = Current(v) /\ Running(v)' = Running(v)
  BY ZenonT(60) DEF Current, Running
<1>2. None \notin Tasks
  BY SchedulerAssumption
<1>3. TakenPinned(v)'
  BY ZenonT(60) DEF TakenPinned, EntryPinned
<1>4. BodyPinned(v)'
  BY ZenonT(60), <1>1, <1>2 DEF BodyPinned
<1> QED
  BY <1>3, <1>4

LEMMA SubmitPins ==
    ASSUME CoreInv, CallbackInv, FibersInv, PinInv, NEW x \in Tasks,
           NEW t \in Threads \cup {AnyThread}, Submit(x, t),
           UNCHANGED <<m_state, m_cb, pc, ft, cb_fiber>>
    PROVE  PinInv'
<1>1. x \in fresh /\ fresh' = fresh \ {x} /\ schedule(TaskEntry(x, t))
  BY ZenonT(60) DEF Submit
<1>2. pin'[x] = t /\ \A y \in Tasks \ {x} : pin'[y] = pin[y]
  BY DEF Submit, CoreInv, TypeOK
<1>3. PICK n : /\ n \notin DOMAIN m_fibers /\ DOMAIN m_fibers' = DOMAIN m_fibers \cup {n}
               /\ m_fibers'[n] = TaskEntry(x, t)
               /\ \A i \in DOMAIN m_fibers : m_fibers'[i] = m_fibers[i]
  BY ZenonT(60), <1>1, Appended DEF CoreInv
<1>4. EntryTask(TaskEntry(x, t)) = x /\ TaskEntry(x, t).thread = t
  BY SchedulerAssumption DEF EntryTask, TaskEntry, FiberEntry, CbEntry
<1>5. ASSUME NEW i \in DOMAIN m_fibers
      PROVE  EntryTask(m_fibers[i]) \in Tasks \ {x}
  <2>1. m_fibers[i] \in Entry /\ Whole(m_fibers[i])
    <3>1. m_fibers \in Seq(Entry)
      BY ZenonT(60) DEF CoreInv, TypeOK
    <3>2. i \in 1..Len(m_fibers) /\ m_fibers[i] \in Entry
      BY <3>1
    <3> QED
      BY ZenonT(60), <3>2 DEF CoreInv, Shape
  <2>2. CASE m_fibers[i].fiber # None
    <3>1. m_fibers[i].fiber \in Fibers /\ Listed(m_fibers[i].fiber)
      BY ZenonT(60), <2>2 DEF FibersInv, Apart, FiberPtrs, Listed
    <3>2. m_fibers[i].fiber \notin fresh
      BY ZenonT(60), <3>1 DEF FibersInv, FiberOK
    <3> QED
      BY ZenonT(60), <1>1, <2>2, <3>1, <3>2 DEF EntryTask, Tasks
  <2>3. CASE m_fibers[i].fiber = None
    <3>1. PICK c \in Callbacks : c = m_fibers[i].cb
      BY ZenonT(60), <2>1, <2>3 DEF Whole, Entry
    <3>2. i \in Queued(c) /\ Kept(c)
      BY ZenonT(60), <3>1 DEF Queued, CallbackInv, CallbackConserved
    <3>3. c \notin fresh
      BY ZenonT(60), <3>2, KeptPlaces
    <3> QED
      BY ZenonT(60), <1>1, <2>3, <3>1, <3>3 DEF EntryTask, Tasks
  <2> QED
    BY ZenonT(60), <2>2, <2>3
<1>6. ASSUME NEW w \in Threads, pc[w] = "dispatch"
      PROVE  EntryTask(ft[w]) \in Tasks \ {x}
  <2>1. ft[w] \in Entry /\ Whole(ft[w])
    BY ZenonT(60), <1>6 DEF CoreInv, TypeOK, Shape, LocalsOK
  <2>2. CASE ft[w].fiber # None
    <3>1. ft[w].fiber \in Fibers
      BY ZenonT(60), <2>2 DEF FibersInv, Apart, FiberPtrs
    <3>2. ft[w].fiber \notin fresh
      BY ZenonT(60), <3>1 DEF FibersInv, FiberOK
    <3> QED
      BY ZenonT(60), <1>1, <2>2, <3>1, <3>2 DEF EntryTask, Tasks
  <2>3. CASE ft[w].fiber = None
    <3>1. PICK c \in Callbacks : c = ft[w].cb
      BY ZenonT(60), <2>1, <2>3 DEF Whole, Entry
    <3>2. w \in Taken(c) /\ Kept(c)
      BY ZenonT(60), <1>6, <3>1 DEF Taken, CallbackInv, CallbackConserved
    <3>3. c \notin fresh
      BY ZenonT(60), <3>2, KeptPlaces
    <3> QED
      BY ZenonT(60), <1>1, <2>3, <3>1, <3>3 DEF EntryTask, Tasks
  <2> QED
    BY <2>2, <2>3
<1>7. \A i \in DOMAIN m_fibers' : EntryPinned(m_fibers[i])'
  <2>1. ASSUME NEW i \in DOMAIN m_fibers
        PROVE  EntryPinned(m_fibers[i])'
    BY ZenonT(60), <1>2, <1>3, <1>5 DEF PinInv, EntryPinned
  <2>2. EntryPinned(m_fibers[n])'
    BY ZenonT(60), <1>2, <1>3, <1>4 DEF EntryPinned
  <2> QED
    BY ZenonT(60), <1>3, <2>1, <2>2
<1>8. ASSUME NEW w \in Threads
      PROVE  TakenPinned(w)' /\ BodyPinned(w)'
  <2>1. TakenPinned(w)'
    BY ZenonT(60), <1>2, <1>6 DEF PinInv, TakenPinned, EntryPinned
  <2>2. Current(w)' = Current(w) /\ Running(w)' = Running(w)
    BY ZenonT(60) DEF Current, Running
  <2>3. BodyPinned(w)'
    BY ZenonT(60), <1>1, <1>2, <2>2 DEF PinInv, BodyPinned
  <2> QED
    BY <2>1, <2>3
<1> QED
  BY ZenonT(60), <1>7, <1>8 DEF PinInv

LEMMA TakePins ==
    ASSUME CoreInv, PinInv, NEW w \in Threads, Take(w)
    PROVE  PinInv'
<1>1. PICK i \in Takeable(w) : \E g : i \in DOMAIN m_fibers /\ Removes(w, i, g)
  BY ZenonT(60), TakenEntry DEF CoreInv
<1>2. PICK g : Removes(w, i, g)
  BY ZenonT(60), <1>1
<1>3. /\ pc' = [pc EXCEPT ![w] = "dispatch"]
      /\ UNCHANGED <<pin, fresh, m_state, m_cb, cb_fiber>>
  BY ZenonT(60) DEF Take, fiberVars
<1>4. /\ pc'[w] = "dispatch" /\ ft'[w] = m_fibers[i]
      /\ \A v \in Threads \ {w} : pc'[v] = pc[v] /\ ft'[v] = ft[v]
  BY <1>2, <1>3 DEF Removes, CoreInv, TypeOK
<1>5. ft'[w].thread \in {AnyThread, w}
  BY ZenonT(60), <1>4 DEF Takeable, Eligible
<1>6. ASSUME NEW j \in DOMAIN m_fibers'
      PROVE  EntryPinned(m_fibers[j])'
  <2>1. g[j] \in DOMAIN m_fibers /\ m_fibers'[j] = m_fibers[g[j]]
    BY ZenonT(60), <1>2 DEF Removes
  <2>2. EntryPinned(m_fibers[g[j]])
    BY ZenonT(60), <2>1 DEF PinInv
  <2> QED
    BY ZenonT(60), <1>3, <2>1, <2>2 DEF EntryPinned
<1>7. TakenPinned(w)' /\ BodyPinned(w)'
  <2>1. EntryPinned(ft[w])'
    BY ZenonT(60), <1>1, <1>3, <1>4 DEF PinInv, EntryPinned
  <2>2. ~Running(w)'
    BY <1>4 DEF Running
  <2> QED
    BY ZenonT(60), <1>5, <2>1, <2>2 DEF TakenPinned, BodyPinned
<1>8. ASSUME NEW v \in Threads \ {w}
      PROVE  TakenPinned(v)' /\ BodyPinned(v)'
  BY ZenonT(60), <1>3, <1>4, PinStays DEF PinInv
<1> QED
  BY ZenonT(60), <1>3, <1>6, <1>7, <1>8 DEF PinInv

\* A dispatched task is on the thread it was scheduled on.
LEMMA DispatchPins ==
    ASSUME CoreInv, CallbackInv, FibersInv, PinInv, NEW w \in Threads,
           DispatchFiber(w) \/ DispatchCb(w)
    PROVE  PinInv'
<1>1. pc[w] = "dispatch" /\ TakenPinned(w) /\ ft[w] \in Entry
  BY ZenonT(60) DEF DispatchFiber, DispatchCb, At, PinInv, CoreInv, TypeOK
<1>2. EntryPinned(ft[w]) /\ ft[w].thread \in {AnyThread, w}
  BY ZenonT(60), <1>1 DEF TakenPinned
<1>3. PICK f \in Tasks : \E b \in Tasks :
         /\ b = EntryTask(ft[w]) /\ b \notin fresh
         /\ Current(w)' = f /\ m_cb'[f] = b /\ \A x \in Tasks \ {f} : m_cb'[x] = m_cb[x]
         /\ \A v \in Threads \ {w} : Running(v) => Current(v) \in Tasks \ {f} \/ m_cb' = m_cb
         /\ m_state' = [m_state EXCEPT ![f] = "EXEC"] /\ pc' = [pc EXCEPT ![w] = "body"]
         /\ \A v \in Threads \ {w} : ft'[v] = ft[v] /\ cb_fiber'[v] = cb_fiber[v]
  <2>1. CASE DispatchFiber(w)
    <3>1. ft[w].fiber # None
      BY ZenonT(60), <2>1 DEF DispatchFiber
    <3>2. PICK f \in Fibers : f = ft[w].fiber
      BY ZenonT(60), <1>1, <3>1, DispatchedFiber
    <3>3. m_state[f] \in {"INIT", "READY"} /\ m_cb[f] = f
      BY ZenonT(60), <1>1, <3>1, <3>2, DispatchedFiber
    <3>4. m_state[f] # "EXEC"
      BY <3>3
    <3>5. /\ m_state' = [m_state EXCEPT ![f] = "EXEC"] /\ m_cb' = [m_cb EXCEPT ![f] = f]
          /\ pc' = [pc EXCEPT ![w] = "body"] /\ UNCHANGED <<ft, cb_fiber>>
      BY ZenonT(60), <2>1, <3>2, <3>3, <3>4 DEF DispatchFiber, swapIn
    <3>6. m_cb' = m_cb /\ f \in Tasks
      BY <3>3, <3>5 DEF CoreInv, TypeOK, Tasks
    <3>7. f \notin fresh
      BY ZenonT(60), <3>2 DEF FibersInv, FiberOK
    <3>8. Current(w)' = f /\ EntryTask(ft[w]) = f
      BY ZenonT(60), <3>1, <3>2, <3>5 DEF Current, EntryTask
    <3> QED
      BY ZenonT(60), <3>3, <3>5, <3>6, <3>7, <3>8
  <2>2. CASE DispatchCb(w)
    <3>1. ft[w].cb # None /\ ft[w].fiber = None
      BY ZenonT(60), <1>1, <2>2 DEF DispatchCb, CoreInv, Shape, LocalsOK, Whole
    <3>2. PICK c \in Callbacks : c = ft[w].cb
      BY ZenonT(60), <1>1, <3>1 DEF Entry
    <3>3. c \notin fresh /\ runs[c] = 0
      <4>1. w \in Taken(c) /\ Kept(c)
        BY ZenonT(60), <1>1, <3>2 DEF Taken, CallbackInv, CallbackConserved
      <4> QED
        BY ZenonT(60), <4>1, KeptPlaces
    <3>4. PICK f \in Callbacks : /\ f = IF cb_fiber[w] # None THEN cb_fiber[w] ELSE c
                                 /\ cb_fiber[w] # None => Resettable(f)
      <4>1. ~InCb(w)
        BY <1>1 DEF InCb
      <4> QED
        BY ZenonT(60), <4>1 DEF FibersInv, CbOK, Resettable
    <3>5. /\ cb_fiber' = [cb_fiber EXCEPT ![w] = f] /\ ft' = [ft EXCEPT ![w] = NoEntry]
          /\ swapIn(w, f, c, "INIT")
      BY ZenonT(60), <2>2, <3>2, <3>4 DEF DispatchCb
    <3>6. /\ m_state' = [m_state EXCEPT ![f] = "EXEC"] /\ m_cb' = [m_cb EXCEPT ![f] = c]
          /\ pc' = [pc EXCEPT ![w] = "body"]
      BY ZenonT(60), <3>5 DEF swapIn
    <3>7. /\ m_cb'[f] = c /\ \A x \in Tasks \ {f} : m_cb'[x] = m_cb[x]
          /\ ft'[w] = NoEntry /\ cb_fiber'[w] = f
          /\ \A v \in Threads \ {w} : ft'[v] = ft[v] /\ cb_fiber'[v] = cb_fiber[v]
      BY ZenonT(60), <3>5, <3>6 DEF CoreInv, TypeOK, Tasks
    <3>8. Current(w)' = f /\ EntryTask(ft[w]) = c
      BY ZenonT(60), <3>1, <3>2, <3>7, NoFiber DEF Current, EntryTask
    <3>9. ASSUME NEW v \in Threads \ {w}, Running(v)
          PROVE  Current(v) \in Tasks \ {f}
      <4>1. pc[v] \in {"body", "out", "back"}
        BY ZenonT(60), <3>9 DEF Running, FibersInv, Apart, NobodyHolds
      <4>2. CASE Current(v) \in Fibers
        BY <4>2, SchedulerAssumption DEF Tasks
      <4>3. CASE cb_fiber[v] \in Callbacks /\ Current(v) = cb_fiber[v]
        <5>1. cb_fiber[v] # None
          BY <4>3, SchedulerAssumption DEF Tasks
        <5>2. cb_fiber[v] # cb_fiber[w]
          BY ZenonT(60), <5>1 DEF FibersInv, CbApart
        <5>3. runs[cb_fiber[v]] = 1
          BY ZenonT(60), <5>1 DEF FibersInv, CbOK
        <5>4. cb_fiber[v] # c
          BY <3>3, <5>3
        <5> QED
          BY ZenonT(60), <3>4, <4>3, <5>2, <5>4 DEF Tasks
      <4> QED
        BY ZenonT(60), <4>1, <4>2, <4>3, WhoRuns
    <3>10. f \in Tasks /\ c \in Tasks
      BY DEF Tasks
    <3> QED
      BY ZenonT(60), <3>3, <3>6, <3>7, <3>8, <3>9, <3>10
  <2> QED
    BY <2>1, <2>2
<1>4. UNCHANGED <<m_fibers, fresh, pin>>
  BY ZenonT(60) DEF DispatchFiber, DispatchCb, queueVars
<1>5. /\ pc'[w] = "body" /\ \A v \in Threads \ {w} : pc'[v] = pc[v]
      /\ m_state'[f] = "EXEC" /\ \A x \in Tasks \ {f} : m_state'[x] = m_state[x]
  BY <1>3 DEF CoreInv, TypeOK
<1>6. TakenPinned(w)' /\ BodyPinned(w)'
  <2>1. pc'[w] # "dispatch"
    BY <1>5
  <2>2. PICK b \in Tasks : b = EntryTask(ft[w]) /\ b \notin fresh /\ Current(w)' = f /\ m_cb'[f] = b
    BY ZenonT(60), <1>3
  <2>3. b \notin ReadyYielders => pin[b] \in {AnyThread, w}
    BY ZenonT(60), <1>2, <2>2 DEF EntryPinned
  <2> QED
    BY ZenonT(60), <1>4, <2>1, <2>2, <2>3 DEF TakenPinned, BodyPinned
<1>7. ASSUME NEW v \in Threads \ {w}
      PROVE  TakenPinned(v)' /\ BodyPinned(v)'
  <2>1. TakenPinned(v) /\ BodyPinned(v)
    BY DEF PinInv
  <2>2. CASE Running(v)
    <3>1. m_cb'[Current(v)] = m_cb[Current(v)]
      BY ZenonT(60), <1>3, <2>2
    <3> QED
      BY ZenonT(60), <1>3, <1>4, <1>5, <2>1, <3>1, PinStays
  <2>3. CASE ~Running(v)
    BY ZenonT(60), <1>3, <1>4, <1>5, <2>1, <2>3 DEF TakenPinned, BodyPinned, EntryPinned, Running
  <2> QED
    BY ZenonT(60), <2>2, <2>3
<1>8. \A x \in Fibers : m_state'[x] = "READY" => x \in ReadyYielders
  <2>1. "EXEC" # "READY"
    OBVIOUS
  <2> QED
    BY ZenonT(60), <1>5, <2>1 DEF PinInv, Tasks
<1>9. \A i \in DOMAIN m_fibers' : EntryPinned(m_fibers[i])'
  BY ZenonT(60), <1>4 DEF PinInv, EntryPinned
<1> QED
  BY ZenonT(60), <1>6, <1>7, <1>8, <1>9 DEF PinInv

\* The threads are where they were, or hold no task any more.
LEMMA QuietPins ==
    ASSUME PinInv, UNCHANGED <<m_fibers, pin, fresh, m_state, m_cb, cb_fiber>>,
           \A v \in Threads : \/ pc'[v] = pc[v] /\ ft'[v] = ft[v]
                              \/ pc'[v] \in Free \cup {"back"}
    PROVE  PinInv'
<1>1. \A i \in DOMAIN m_fibers' : EntryPinned(m_fibers[i])'
  BY ZenonT(60) DEF PinInv, EntryPinned
<1>2. ASSUME NEW v \in Threads
      PROVE  TakenPinned(v)' /\ BodyPinned(v)'
  <2>1. CASE pc'[v] = pc[v] /\ ft'[v] = ft[v]
    BY ZenonT(60), <2>1, PinStays DEF PinInv
  <2>2. CASE pc'[v] \in Free \cup {"back"}
    <3>1. pc'[v] # "dispatch" /\ ~Running(v)'
      BY <2>2 DEF Free, Running
    <3> QED
      BY ZenonT(60), <3>1 DEF TakenPinned, BodyPinned
  <2> QED
    BY <2>1, <2>2
<1> QED
  BY ZenonT(60), <1>1, <1>2 DEF PinInv

LEMMA RunsTask ==
    ASSUME CoreInv, NEW v \in Threads, Running(v)
    PROVE  Current(v) \in Tasks
<1>1. pc[v] \in {"body", "hold", "out", "back"}
  BY DEF Running
<1>2. Current(v) # None
  BY ZenonT(60), <1>1 DEF CoreInv, Shape, LocalsOK
<1>3. Current(v) \in Tasks \cup {None}
  BY DEF Current, CoreInv, TypeOK, Entry
<1> QED
  BY <1>2, <1>3

LEMMA BodyPins ==
    ASSUME CoreInv, FibersInv, PinInv, NEW w \in Threads,
           YieldToReady(w) \/ MainFuncEnd(w)
    PROVE  PinInv'
<1>1. pc[w] = "body"
  BY ZenonT(60) DEF YieldToReady, MainFuncEnd, At
<1>2. PICK f : f = Current(w)
  OBVIOUS
<1>3. f \in Tasks /\ (f \in Fibers => m_cb[f] = f)
  <2>1. pc[w] \in {"body", "out", "back"}
    BY ZenonT(60), <1>1
  <2>2. CASE ft[w].fiber \in Fibers /\ f = ft[w].fiber
    <3>1. FiberOK(f)
      BY <2>2 DEF FibersInv
    <3>2. m_state[f] = "EXEC"
      BY ZenonT(60), <1>1, <2>2, <3>1 DEF FiberOK, Stage
    <3>3. m_cb[f] = f
      BY ZenonT(60), <3>1, <3>2 DEF FiberOK
    <3> QED
      BY <2>2, <3>3 DEF Tasks
  <2>3. CASE f \in Callbacks
    BY <2>3, SchedulerAssumption DEF Tasks
  <2> QED
    BY ZenonT(60), <1>2, <2>1, <2>2, <2>3, WhoRuns
<1>4. /\ pc' = [pc EXCEPT ![w] = "out"] /\ UNCHANGED <<m_fibers, pin, fresh, ft, cb_fiber>>
      /\ m_cb' = m_cb \/ m_cb' = [m_cb EXCEPT ![f] = None]
  BY ZenonT(60), <1>2 DEF YieldToReady, MainFuncEnd, LeaveBody, queueVars
<1>5. /\ pc'[w] = "out" /\ \A v \in Threads \ {w} : pc'[v] = pc[v]
      /\ \A x \in Tasks : m_cb'[x] \in {m_cb[x], None}
  BY <1>3, <1>4 DEF CoreInv, TypeOK
<1>6. \A x \in Fibers : m_state'[x] = "READY" => x \in ReadyYielders
  <2>1. PICK s : m_state' = [m_state EXCEPT ![f] = s] /\ (s = "READY" => m_cb[f] \in ReadyYielders)
    <3>1. \A s \in Ended : s # "READY"
      BY ZenonT(60) DEF Ended
    <3> QED
      BY ZenonT(60), <1>2, <3>1 DEF YieldToReady, MainFuncEnd, LeaveBody
  <2>2. m_state'[f] = s /\ \A x \in Tasks \ {f} : m_state'[x] = m_state[x]
    BY ZenonT(60), <1>3, <2>1 DEF CoreInv, TypeOK
  <2> QED
    BY ZenonT(60), <1>3, <2>1, <2>2 DEF PinInv, Tasks
<1>7. ASSUME NEW v \in Threads
      PROVE  TakenPinned(v)' /\ BodyPinned(v)'
  <2>1. TakenPinned(v) /\ BodyPinned(v)
    BY DEF PinInv
  <2>2. Current(v)' = Current(v) /\ ft'[v] = ft[v]
    BY ZenonT(60), <1>4 DEF Current
  <2>3. pc'[v] = "dispatch" => pc[v] = "dispatch"
    BY ZenonT(60), <1>5
  <2>4. Running(v)' => Running(v)
    BY <1>1, <1>5 DEF Running
  <2>5. TakenPinned(v)'
    BY ZenonT(60), <1>4, <2>1, <2>2, <2>3 DEF TakenPinned, EntryPinned
  <2>6. BodyPinned(v)'
    <3>1. None \notin Tasks
      BY SchedulerAssumption
    <3>2. Running(v) => Current(v) \in Tasks
      BY RunsTask
    <3> QED
      BY ZenonT(60), <1>4, <1>5, <2>1, <2>2, <2>4, <3>1, <3>2 DEF BodyPinned
  <2> QED
    BY ZenonT(60), <2>5, <2>6
<1>8. \A i \in DOMAIN m_fibers' : EntryPinned(m_fibers[i])'
  BY ZenonT(60), <1>4 DEF PinInv, EntryPinned
<1> QED
  BY ZenonT(60), <1>6, <1>7, <1>8 DEF PinInv

\* Only tasks that yield return to the list, for any thread.
LEMMA BackPins ==
    ASSUME CoreInv, FibersInv, PinInv, NEW w \in Threads, BackFiber(w) \/ BackCb(w)
    PROVE  PinInv'
<1>1. /\ pc[w] = "back" /\ pc' = [pc EXCEPT ![w] = "scan"] /\ UNCHANGED <<fresh, pin>>
  BY ZenonT(60) DEF BackFiber, BackCb, At
<1>2. pc'[w] = "scan" /\ \A v \in Threads \ {w} : pc'[v] = pc[v]
  BY ZenonT(60), <1>1 DEF CoreInv, TypeOK
<1>3. \A v \in Threads : v # w => ft'[v] = ft[v]
  BY DEF BackFiber, BackCb, CoreInv, TypeOK
<1>4. CASE BackFiber(w)
  <2>1. PICK f : f = ft[w].fiber
    OBVIOUS
  <2>2. f \in Fibers /\ f # None
    BY ZenonT(60), <1>4, <2>1 DEF BackFiber, FibersInv, Apart, FiberPtrs
  <2>3. m_state[f] \in Ended \cup {"READY"}
    BY ZenonT(60), <1>1, <2>1, <2>2 DEF FibersInv, FiberOK, Stage
  <2>4. Requeue(f) /\ UNCHANGED <<m_state, m_cb, cb_fiber>>
    BY ZenonT(60), <1>4, <2>1, <2>3 DEF BackFiber
  <2>5. CASE m_state[f] = "READY"
    <3>1. PICK e : e = FiberEntry(f, AnyThread)
      OBVIOUS
    <3>2. schedule(e) /\ EntryTask(e) = f
      BY <2>2, <2>4, <2>5, <3>1 DEF Requeue, FiberEntry, EntryTask
    <3>3. PICK n : /\ n \notin DOMAIN m_fibers /\ DOMAIN m_fibers' = DOMAIN m_fibers \cup {n}
                   /\ m_fibers'[n] = e
                   /\ \A i \in DOMAIN m_fibers : m_fibers'[i] = m_fibers[i]
      BY ZenonT(60), <3>2, Appended DEF CoreInv
    <3>4. f \in ReadyYielders
      BY ZenonT(60), <2>2, <2>5 DEF PinInv
    <3>5. EntryPinned(m_fibers[n])'
      BY ZenonT(60), <3>2, <3>3, <3>4 DEF EntryPinned
    <3>6. \A i \in DOMAIN m_fibers : EntryPinned(m_fibers[i])'
      BY ZenonT(60), <1>1, <3>3 DEF PinInv, EntryPinned
    <3>7. \A i \in DOMAIN m_fibers' : EntryPinned(m_fibers[i])'
      BY ZenonT(60), <3>3, <3>5, <3>6
    <3>8. ASSUME NEW v \in Threads \ {w}
          PROVE  TakenPinned(v)' /\ BodyPinned(v)'
      BY ZenonT(60), <1>1, <1>2, <1>3, <2>4, PinStays DEF PinInv
    <3>9. TakenPinned(w)' /\ BodyPinned(w)'
      <4>1. pc'[w] # "dispatch" /\ ~Running(w)'
        BY <1>2 DEF Running
      <4> QED
        BY ZenonT(60), <4>1 DEF TakenPinned, BodyPinned
    <3> QED
      BY ZenonT(60), <2>4, <3>7, <3>8, <3>9 DEF PinInv
  <2>6. CASE m_state[f] # "READY"
    <3>1. UNCHANGED m_fibers
      BY ZenonT(60), <2>4, <2>6 DEF Requeue
    <3>2. pc'[w] \in Free \cup {"back"}
      BY <1>2 DEF Free
    <3> QED
      BY ZenonT(60), <1>1, <1>2, <1>3, <2>4, <3>1, <3>2, QuietPins
  <2> QED
    BY <2>5, <2>6
<1>5. CASE BackCb(w)
  <2>1. ft[w].fiber = None /\ UNCHANGED ft
    BY ZenonT(60), <1>5 DEF BackCb
  <2>2. InCb(w) /\ pc[w] # "body"
    BY <1>1, <2>1 DEF InCb
  <2>3. PICK c \in Callbacks : c = cb_fiber[w]
    BY ZenonT(60), <1>1, <2>1, <2>2, WhoRuns
  <2>4. c # None /\ c \in Tasks /\ c \notin Fibers
    BY SchedulerAssumption DEF Tasks
  <2>5. m_state[c] \in Ended
    BY ZenonT(60), <2>2, <2>3, <2>4 DEF FibersInv, CbOK
  <2>6. m_state[c] # "READY"
    BY <2>5 DEF Ended
  <2>7. /\ UNCHANGED <<m_fibers, cb_fiber>> /\ m_state' = [m_state EXCEPT ![c] = "INIT"]
        /\ m_cb' = [m_cb EXCEPT ![c] = None]
    BY ZenonT(60), <1>5, <2>3, <2>5, <2>6 DEF BackCb, Requeue
  <2>8. /\ \A x \in Fibers : m_state'[x] = m_state[x]
        /\ \A x : x \in DOMAIN m_cb => m_cb'[x] \in {m_cb[x], None}
    BY ZenonT(60), <2>4, <2>7 DEF CoreInv, TypeOK, Tasks
  <2>9. ASSUME NEW v \in Threads \ {w}
        PROVE  TakenPinned(v)' /\ BodyPinned(v)'
    <3>1. TakenPinned(v) /\ BodyPinned(v) /\ DOMAIN m_cb = Tasks
      BY DEF PinInv, CoreInv, TypeOK
    <3>2. CASE Running(v)
      BY ZenonT(60), <1>1, <1>2, <1>3, <2>7, <2>8, <3>1, <3>2, RunsTask, PinStays
    <3>3. CASE ~Running(v)
      BY ZenonT(60), <1>1, <1>2, <1>3, <3>1, <3>3
         DEF TakenPinned, BodyPinned, EntryPinned, Running
    <3> QED
      BY ZenonT(60), <3>2, <3>3
  <2>10. TakenPinned(w)' /\ BodyPinned(w)'
    <3>1. pc'[w] # "dispatch" /\ ~Running(w)'
      BY <1>2 DEF Running
    <3> QED
      BY ZenonT(60), <3>1 DEF TakenPinned, BodyPinned
  <2>11. \A i \in DOMAIN m_fibers' : EntryPinned(m_fibers[i])'
    BY ZenonT(60), <1>1, <2>7 DEF PinInv, EntryPinned
  <2> QED
    BY ZenonT(60), <2>8, <2>9, <2>10, <2>11 DEF PinInv
<1> QED
  BY <1>4, <1>5

LEMMA PinInvNext ==
    ASSUME ReadyOnly
    PROVE  CoreInv /\ CallbackInv /\ FibersInv /\ PinInv /\ [Next]_vars => PinInv'
<1> SUFFICES ASSUME CoreInv, CallbackInv, FibersInv, PinInv, [Next]_vars
             PROVE  PinInv'
  OBVIOUS
<1>1. ASSUME NEW x \in Tasks, NEW t \in Threads \cup {AnyThread},
             ClientSchedule(x, t) \/ \E w \in Threads : BodySchedule(w, x, t)
      PROVE  PinInv'
  <2>1. Submit(x, t) /\ UNCHANGED <<m_state, m_cb, pc, ft, cb_fiber>>
    BY ZenonT(60), <1>1 DEF ClientSchedule, BodySchedule, fiberVars
  <2> QED
    BY ZenonT(60), <2>1, SubmitPins
<1>2. \A f : ~ClientReschedule(f) /\ ~Wake(f)
  BY ZenonT(60) DEF ClientReschedule, Wake, FibersInv, Apart, NobodyHolds
<1>3. ASSUME NEW w \in Threads, TakeNothing(w) \/ EnterIdle(w) \/ idle(w) \/ swapOut(w)
      PROVE  PinInv'
  <2>1. UNCHANGED <<m_fibers, pin, fresh, m_state, m_cb, cb_fiber, ft>>
    BY ZenonT(60), <1>3 DEF TakeNothing, EnterIdle, idle, swapOut, queueVars, fiberVars
  <2>2. PICK place \in Free \cup {"back"} : pc' = [pc EXCEPT ![w] = place]
    BY ZenonT(60), <1>3 DEF TakeNothing, EnterIdle, idle, swapOut, Free
  <2>3. pc'[w] = place /\ \A v \in Threads \ {w} : pc'[v] = pc[v]
    BY <2>2 DEF CoreInv, TypeOK
  <2> QED
    BY ZenonT(60), <2>1, <2>3, QuietPins
<1>4. ASSUME start \/ Stop \/ UNCHANGED vars
      PROVE  PinInv'
  <2>1. UNCHANGED <<m_fibers, pin, fresh, m_state, m_cb, cb_fiber, ft>>
    BY ZenonT(60), <1>4 DEF start, Stop, stopAuto, stopFlag, stopCheck, stopJoin, vars,
       queueVars, fiberVars
  <2>2. \A v \in Threads : pc'[v] = pc[v] \/ pc'[v] \in {"off", "scan"}
    <3>1. CASE start
      BY ZenonT(60), <3>1 DEF start
    <3>2. CASE stopCheck
      <4>1. pc' = pc \/ pc' = [pc EXCEPT ![Caller] = "scan"]
        BY ZenonT(60), <3>2 DEF stopCheck
      <4> QED
        BY ZenonT(60), <4>1 DEF CoreInv, TypeOK
    <3>3. CASE UNCHANGED pc
      BY ZenonT(60), <3>3
    <3> QED
      BY ZenonT(60), <1>4, <3>1, <3>2, <3>3 DEF Stop, stopAuto, stopFlag, stopJoin, vars
  <2>3. \A v \in Threads : pc'[v] = pc[v] \/ pc'[v] \in Free \cup {"back"}
    BY <2>2 DEF Free
  <2> QED
    BY ZenonT(60), <2>1, <2>3, QuietPins
<1>5. ASSUME NEW w \in Threads
      PROVE  ~DispatchEnded(w) /\ ~Register(w) /\ ~YieldToHold(w)
  <2>1. pc[w] # "hold"
    BY ZenonT(60) DEF FibersInv, Apart, NobodyHolds
  <2>2. ~YieldToHold(w) /\ ~Register(w)
    BY ZenonT(60), <2>1 DEF YieldToHold, Register, At, ReadyOnly
  <2>3. ASSUME DispatchEnded(w)
        PROVE  FALSE
    <3>1. pc[w] = "dispatch" /\ ft[w].fiber # None /\ m_state[ft[w].fiber] \in Ended
      BY ZenonT(60), <2>3 DEF DispatchEnded, At
    <3>2. m_state[ft[w].fiber] \in {"INIT", "READY"}
      BY ZenonT(60), <3>1, DispatchedFiber
    <3> QED
      BY <3>1, <3>2 DEF Ended
  <2> QED
    BY ZenonT(60), <2>2, <2>3
<1>6. ASSUME NEW w \in Threads, run(w)
      PROVE  PinInv'
  BY ZenonT(60), <1>1, <1>3, <1>5, <1>6, TakePins, DispatchPins, BodyPins, BackPins
     DEF run, BodyStep
<1> QED
  BY ZenonT(60), <1>1, <1>2, <1>4, <1>6 DEF Next, Terminated

LEMMA PinInvInit == Init => PinInv
<1> SUFFICES ASSUME Init PROVE PinInv
  OBVIOUS
<1>1. DOMAIN m_fibers = {} /\ \A w \in Threads : pc[w] = "off"
  BY DEF Init
<1>2. \A f \in Fibers : m_state[f] = "INIT"
  BY DEF Init, Tasks
<1>3. \A w \in Threads : pc[w] # "dispatch" /\ ~Running(w)
  BY <1>1 DEF Running
<1>4. \A f \in Fibers : m_state[f] # "READY"
  BY ZenonT(60), <1>2
<1> QED
  BY ZenonT(60), <1>1, <1>3, <1>4 DEF PinInv, TakenPinned, BodyPinned

-----------------------------------------------------------------------------
(* Draining: the entries that are left have a thread that will scan the    *)
(* list once more.                                                         *)

\* Thread v will scan the list again before it looks at its idle fiber.
Busy(v) == pc[v] \in {"scan", "dispatch", "body", "hold", "out", "back"}

\* Someone is left to take the entry.
Served(e) == IF e.thread = AnyThread THEN \E v \in Threads : Busy(v) ELSE Busy(e.thread)

\* Once a thread has seen stopping(), no entry is without such a thread.
AllServed ==
    (\E w \in Threads : idle_state[w] = "TERM") =>
        m_autoStop /\ \A i \in DOMAIN m_fibers : Served(m_fibers[i])

\* Where the threads are when stop() joins them and when it returns.
Joined ==
    /\ client \in {"new", "started"} => ~m_autoStop
    /\ \A w \in Threads : pc[w] = "exit" => idle_state[w] = "TERM"
    /\ client \in {"join", "done"} =>
          \A w \in Threads : w = Caller => pc[w] \in {"off", "exit"}
    /\ client \in {"join", "done"} /\ Threads = {Caller} => DOMAIN m_fibers = {}
    /\ client = "done" => \A w \in Threads \ {Caller} : pc[w] = "exit"

DrainInv == AllServed /\ Joined

LEMMA EntryThread ==
    ASSUME CoreInv, NEW i \in DOMAIN m_fibers
    PROVE  m_fibers[i].thread \in Threads \cup {AnyThread}
<1>1. m_fibers[i] \in Entry
  BY DEF CoreInv, TypeOK
<1> QED
  BY ZenonT(60), <1>1 DEF Entry

\* What stop() may rely on when it returns.
LEMMA Drained ==
    CoreInv /\ CallbackInv /\ FibersInv /\ DrainInv => StopDrains
<1> SUFFICES ASSUME CoreInv, CallbackInv, FibersInv, DrainInv, client = "done"
             PROVE  /\ \A x \in Tasks \ fresh : runs[x] = 1
                    /\ \A f \in Tasks : m_state[f] # "READY"
                    /\ m_fibers = << >>
  BY ZenonT(60) DEF StopDrains
<1>1. \A w \in Threads : pc[w] \in {"off", "exit"}
  BY DEF DrainInv, Joined
<1>2. \A w \in Threads : ft[w].fiber = None /\ ~Busy(w) /\ pc[w] # "dispatch"
  <2>1. \A w \in Threads : pc[w] \in Free /\ ~Busy(w) /\ pc[w] # "dispatch"
    BY <1>1 DEF Free, Busy
  <2> QED
    BY ZenonT(60), <2>1, NoFiber DEF CoreInv, Shape, LocalsOK, Free
<1>3. DOMAIN m_fibers = {}
  <2>1. CASE Threads = {Caller}
    BY ZenonT(60), <2>1 DEF DrainInv, Joined
  <2>2. CASE Threads # {Caller}
    <3>1. PICK w \in Threads : w # Caller
      BY <2>2, SchedulerAssumption
    <3>2. idle_state[w] = "TERM"
      BY ZenonT(60), <3>1 DEF DrainInv, Joined
    <3>3. ASSUME NEW i \in DOMAIN m_fibers
          PROVE  FALSE
      <4>1. Served(m_fibers[i])
        BY ZenonT(60), <3>2 DEF DrainInv, AllServed
      <4>2. m_fibers[i].thread \in Threads \cup {AnyThread}
        BY ZenonT(60), EntryThread
      <4> QED
        BY ZenonT(60), <1>2, <4>1, <4>2 DEF Served
    <3> QED
      BY ZenonT(60), <3>3
  <2> QED
    BY <2>1, <2>2
<1>4. m_fibers = << >>
  BY <1>3 DEF CoreInv, TypeOK
<1>5. ASSUME NEW f \in Fibers
      PROVE  m_state[f] # "READY" /\ (f \notin fresh => runs[f] = 1)
  <2>1. FiberOK(f) /\ f # None
    BY SchedulerAssumption DEF FibersInv, Tasks
  <2>2. ~Listed(f) /\ \A w \in Threads : ft[w].fiber # f
    BY ZenonT(60), <1>2, <1>3, <2>1 DEF Listed
  <2>3. f \in fresh => m_state[f] = "INIT"
    BY ZenonT(60), <2>1 DEF FiberOK
  <2>4. f \notin fresh => m_state[f] \in Ended
    BY ZenonT(60), <2>1, <2>2 DEF FiberOK
  <2>5. runs[f] = IF m_state[f] = "INIT" THEN 0 ELSE 1
    BY ZenonT(60), <2>1 DEF FiberOK
  <2> QED
    BY ZenonT(60), <2>3, <2>4, <2>5 DEF Ended
<1>6. ASSUME NEW c \in Callbacks
      PROVE  m_state[c] # "READY" /\ (c \notin fresh => runs[c] = 1)
  <2>1. Kept(c) /\ m_state[c] # "READY"
    BY ZenonT(60) DEF CallbackInv, CallbackConserved, FibersInv, CbApart
  <2>2. \A w \in Threads : Taken(c) # {w}
    BY ZenonT(60), <1>2 DEF Taken
  <2> QED
    BY ZenonT(60), <1>3, <2>1, <2>2 DEF Kept
<1> QED
  BY ZenonT(60), <1>4, <1>5, <1>6 DEF Tasks

\* A busy thread stays busy, entries are taken or come with a busy thread.
LEMMA ServedStays ==
    ASSUME CoreInv, AllServed, \A v \in Threads : Busy(v) => Busy(v)',
           \A v \in Threads : idle_state'[v] = "TERM" => idle_state[v] = "TERM",
           UNCHANGED m_autoStop,
           \A j \in DOMAIN m_fibers' :
              \/ \E i \in DOMAIN m_fibers : m_fibers'[j] = m_fibers[i]
              \/ m_fibers'[j].thread = AnyThread /\ \E v \in Threads : Busy(v)'
              \/ \E v \in Threads : m_fibers'[j].thread = v /\ Busy(v)'
    PROVE  AllServed'
<1> SUFFICES ASSUME NEW u \in Threads, idle_state'[u] = "TERM"
             PROVE  m_autoStop' /\ \A j \in DOMAIN m_fibers' : Served(m_fibers[j])'
  BY ZenonT(60) DEF AllServed
<1>1. m_autoStop /\ \A i \in DOMAIN m_fibers : Served(m_fibers[i])
  BY ZenonT(60) DEF AllServed
<1>2. ASSUME NEW j \in DOMAIN m_fibers'
      PROVE  Served(m_fibers[j])'
  <2>1. CASE \E i \in DOMAIN m_fibers : m_fibers'[j] = m_fibers[i]
    <3>1. PICK i \in DOMAIN m_fibers : m_fibers'[j] = m_fibers[i]
      BY ZenonT(60), <2>1
    <3>2. Served(m_fibers[i]) /\ m_fibers[i].thread \in Threads \cup {AnyThread}
      BY <1>1, EntryThread
    <3> QED
      BY ZenonT(60), <3>1, <3>2 DEF Served
  <2>2. CASE m_fibers'[j].thread = AnyThread /\ \E v \in Threads : Busy(v)'
    BY ZenonT(60), <2>2 DEF Served
  <2>3. CASE \E v \in Threads : m_fibers'[j].thread = v /\ Busy(v)'
    <3>1. PICK v \in Threads : m_fibers'[j].thread = v /\ Busy(v)'
      BY ZenonT(60), <2>3
    <3>2. v # AnyThread
      BY SchedulerAssumption
    <3> QED
      BY ZenonT(60), <3>1, <3>2 DEF Served
  <2> QED
    BY ZenonT(60), <1>2, <2>1, <2>2, <2>3
<1> QED
  BY <1>1, <1>2

\* What every step of run() does to the places and to the idle fibers.
LEMMA RunMoves ==
    ASSUME CoreInv, NEW w \in Threads, run(w), aborted' = "no"
    PROVE  /\ pc[w] \notin {"off", "exit"} /\ UNCHANGED <<client, m_autoStop>>
           /\ \A v \in Threads \ {w} : pc'[v] = pc[v] /\ idle_state'[v] = idle_state[v]
           /\ EnterIdle(w) \/ idle(w) \/ (idle_state' = idle_state /\ pc'[w] # "exit")
           /\ TakeNothing(w) \/ EnterIdle(w) \/ idle(w) \/ (Busy(w) /\ Busy(w)')
<1>1. UNCHANGED <<client, m_autoStop>>
  BY ZenonT(60) DEF run, BodyStep, Take, TakeNothing, DispatchFiber, DispatchEnded, DispatchCb,
     YieldToReady, Register, YieldToHold, MainFuncEnd, BodySchedule, swapOut, BackFiber, BackCb,
     EnterIdle, idle, flagVars
<1>2. EnterIdle(w) \/ idle(w) \/ idle_state' = idle_state
  BY ZenonT(60) DEF run, BodyStep, Take, TakeNothing, DispatchFiber, DispatchEnded, DispatchCb,
     YieldToReady, Register, YieldToHold, MainFuncEnd, BodySchedule, swapOut, BackFiber, BackCb
<1>3. \A v \in Threads \ {w} : idle_state'[v] = idle_state[v]
  BY <1>2 DEF EnterIdle, idle, CoreInv, TypeOK
<1>4. ASSUME ~EnterIdle(w), ~idle(w), ~TakeNothing(w)
      PROVE  /\ pc[w] \in {"scan", "dispatch", "body", "hold", "out", "back"}
             /\ \E place \in {"scan", "dispatch", "body", "hold", "out", "back"} :
                   pc' = [pc EXCEPT ![w] = place]
  <2>1. CASE Take(w) \/ DispatchEnded(w)
    BY ZenonT(60), <2>1 DEF Take, DispatchEnded, At
  <2>2. CASE DispatchFiber(w) \/ DispatchCb(w)
    <3>1. pc[w] = "dispatch" /\ (aborted' # "no" \/ pc' = [pc EXCEPT ![w] = "body"])
      <4>1. "swapIn" # "no" /\ "reset" # "no"
        OBVIOUS
      <4> QED
        BY ZenonT(60), <2>2, <4>1 DEF DispatchFiber, DispatchCb, At, swapIn
    <3> QED
      BY ZenonT(60), <3>1
  <2>3. CASE YieldToReady(w) \/ Register(w) \/ YieldToHold(w) \/ MainFuncEnd(w) \/ swapOut(w)
    BY ZenonT(60), <2>3 DEF YieldToReady, Register, YieldToHold, MainFuncEnd, swapOut, LeaveBody,
       At
  <2>4. CASE \E x \in Tasks, t \in Threads \cup {AnyThread} : BodySchedule(w, x, t)
    <3>1. pc[w] = "body" /\ pc' = pc
      BY ZenonT(60), <2>4 DEF BodySchedule, At
    <3>2. pc' = [pc EXCEPT ![w] = "body"]
      BY <3>1 DEF CoreInv, TypeOK
    <3> QED
      BY ZenonT(60), <3>1, <3>2
  <2>5. CASE BackFiber(w) \/ BackCb(w)
    BY ZenonT(60), <2>5 DEF BackFiber, BackCb, At
  <2> QED
    BY ZenonT(60), <1>4, <2>1, <2>2, <2>3, <2>4, <2>5 DEF run, BodyStep
<1>5. ASSUME ~EnterIdle(w), ~idle(w), ~TakeNothing(w)
      PROVE  /\ Busy(w) /\ Busy(w)' /\ \A v \in Threads \ {w} : pc'[v] = pc[v]
             /\ pc[w] \notin {"off", "exit"} /\ pc'[w] # "exit"
  <2>1. PICK place \in {"scan", "dispatch", "body", "hold", "out", "back"} :
           pc' = [pc EXCEPT ![w] = place]
    BY ZenonT(60), <1>4, <1>5
  <2>2. pc'[w] = place /\ \A v \in Threads \ {w} : pc'[v] = pc[v]
    BY ZenonT(60), <2>1 DEF CoreInv, TypeOK
  <2> QED
    BY ZenonT(60), <1>4, <1>5, <2>2 DEF Busy
<1>6. ASSUME EnterIdle(w) \/ idle(w) \/ TakeNothing(w)
      PROVE  /\ \A v \in Threads \ {w} : pc'[v] = pc[v]
             /\ pc[w] \notin {"off", "exit"} /\ (TakeNothing(w) => pc'[w] # "exit")
  BY <1>6 DEF EnterIdle, idle, TakeNothing, At, CoreInv, TypeOK
<1> QED
  BY ZenonT(60), <1>1, <1>2, <1>3, <1>5, <1>6

\* Threads run only before stop() has joined them.
LEMMA RunJoined ==
    ASSUME CoreInv, DrainInv, NEW w \in Threads, run(w), aborted' = "no"
    PROVE  Joined'
<1>1. /\ pc[w] \notin {"off", "exit"} /\ UNCHANGED <<client, m_autoStop>>
      /\ \A v \in Threads \ {w} : pc'[v] = pc[v] /\ idle_state'[v] = idle_state[v]
      /\ EnterIdle(w) \/ idle(w) \/ pc'[w] # "exit"
  BY ZenonT(60), RunMoves
<1>2. Joined
  BY ZenonT(60) DEF DrainInv
<1>3. client \in {"join", "done"} => w # Caller
  BY ZenonT(60), <1>1, <1>2 DEF Joined
<1>4. client # "done"
  BY ZenonT(60), <1>1, <1>2, <1>3 DEF Joined
<1>5. client \in {"join", "done"} => Threads # {Caller}
  BY <1>3
<1>6. pc'[w] = "exit" => idle_state'[w] = "TERM"
  <2>1. ~idle(w) \/ pc'[w] # "exit"
    BY ZenonT(60) DEF idle, CoreInv, TypeOK
  <2>2. EnterIdle(w) /\ pc'[w] = "exit" => idle_state'[w] = "TERM"
    BY DEF EnterIdle, CoreInv, TypeOK
  <2> QED
    BY ZenonT(60), <1>1, <2>1, <2>2
<1>7. \A v \in Threads : pc'[v] = "exit" => idle_state'[v] = "TERM"
  BY ZenonT(60), <1>1, <1>2, <1>6 DEF Joined
<1>8. client' \in {"join", "done"} => \A v \in Threads : v = Caller => pc'[v] \in {"off", "exit"}
  BY ZenonT(60), <1>1, <1>2, <1>3 DEF Joined
<1> QED
  BY ZenonT(60), <1>1, <1>2, <1>4, <1>5, <1>7, <1>8 DEF Joined

\* The scan leaves no entry the thread could have taken.
LEMMA NothingLeft ==
    ASSUME CoreInv, FibersInv, NEW w \in Threads, TakeNothing(w), NEW i \in DOMAIN m_fibers
    PROVE  m_fibers[i].thread \in Threads \ {w}
<1>1. ~Eligible(w, m_fibers[i])
  BY ZenonT(60) DEF TakeNothing, Takeable
<1>2. m_fibers[i].fiber # None => m_state[m_fibers[i].fiber] # "EXEC"
  <2>1. ASSUME m_fibers[i].fiber # None
        PROVE  m_state[m_fibers[i].fiber] \in {"INIT", "READY"}
    <3>1. PICK f \in Fibers : f = m_fibers[i].fiber
      BY ZenonT(60), <2>1 DEF FibersInv, Apart, FiberPtrs
    <3>2. Listed(f)
      BY ZenonT(60), <3>1 DEF Listed
    <3> QED
      BY ZenonT(60), <3>1, <3>2 DEF FibersInv, FiberOK
  <2>2. "INIT" # "EXEC" /\ "READY" # "EXEC"
    OBVIOUS
  <2> QED
    BY ZenonT(60), <2>1, <2>2
<1>3. m_fibers[i].thread \notin {AnyThread, w}
  BY ZenonT(60), <1>1, <1>2 DEF Eligible
<1> QED
  BY ZenonT(60), <1>3, EntryThread

LEMMA RunServed ==
    ASSUME CoreInv, FibersInv, DrainInv, ~CrossPins, NEW w \in Threads, run(w), aborted' = "no"
    PROVE  AllServed'
<1>1. /\ UNCHANGED m_autoStop
      /\ \A v \in Threads \ {w} : pc'[v] = pc[v] /\ idle_state'[v] = idle_state[v]
      /\ EnterIdle(w) \/ idle(w) \/ idle_state' = idle_state
      /\ TakeNothing(w) \/ EnterIdle(w) \/ idle(w) \/ (Busy(w) /\ Busy(w)')
  BY ZenonT(60), RunMoves
<1>2. \A v \in Threads \ {w} : Busy(v)' <=> Busy(v)
  BY ZenonT(60), <1>1 DEF Busy
<1>3. AllServed
  BY DEF DrainInv
<1>4. CASE TakeNothing(w)
  <2>1. UNCHANGED <<m_fibers, idle_state>>
    BY ZenonT(60), <1>4 DEF TakeNothing, queueVars
  <2>2. ASSUME NEW u \in Threads, idle_state'[u] = "TERM", NEW i \in DOMAIN m_fibers'
        PROVE  Served(m_fibers[i])'
    <3>1. i \in DOMAIN m_fibers /\ m_fibers'[i] = m_fibers[i] /\ idle_state[u] = "TERM"
      BY ZenonT(60), <2>1, <2>2
    <3>2. m_fibers[i].thread \in Threads \ {w} /\ Served(m_fibers[i])
      BY ZenonT(60), <1>3, <1>4, <3>1, NothingLeft DEF AllServed
    <3>3. AnyThread \notin Threads
      BY SchedulerAssumption
    <3> QED
      BY ZenonT(60), <1>2, <3>1, <3>2, <3>3 DEF Served
  <2> QED
    BY ZenonT(60), <1>1, <1>3, <2>1, <2>2 DEF AllServed
<1>5. CASE EnterIdle(w) \/ idle(w)
  <2>1. UNCHANGED m_fibers /\ ~Busy(w)
    <3>1. pc[w] \in {"empty", "idle"}
      BY ZenonT(60), <1>5 DEF EnterIdle, idle, At
    <3> QED
      BY <1>5, <3>1 DEF EnterIdle, idle, queueVars, Busy
  <2>2. CASE idle(w) /\ Stopping
    <3>1. DOMAIN m_fibers' = {} /\ m_autoStop
      BY <2>1, <2>2 DEF Stopping, Quiet
    <3> QED
      BY ZenonT(60), <1>1, <3>1 DEF AllServed
  <2>3. CASE EnterIdle(w) \/ ~Stopping
    <3>1. idle_state'[w] = "TERM" => idle_state[w] = "TERM"
      BY ZenonT(60), <1>5, <2>3 DEF EnterIdle, idle, CoreInv, TypeOK
    <3> QED
      BY ZenonT(60), <1>1, <1>2, <1>3, <2>1, <3>1, ServedStays
  <2> QED
    BY ZenonT(60), <1>5, <2>2, <2>3
<1>6. CASE Busy(w) /\ Busy(w)' /\ idle_state' = idle_state
  <2>1. CASE UNCHANGED m_fibers
    BY ZenonT(60), <1>1, <1>2, <1>3, <1>6, <2>1, ServedStays
  <2>2. CASE Take(w)
    <3>1. PICK i \in DOMAIN m_fibers : \E g : Removes(w, i, g)
      BY ZenonT(60), <2>2, TakenEntry DEF CoreInv
    <3>2. \A j \in DOMAIN m_fibers' : \E k \in DOMAIN m_fibers : m_fibers'[j] = m_fibers[k]
      BY ZenonT(60), <3>1 DEF Removes
    <3> QED
      BY ZenonT(60), <1>1, <1>2, <1>3, <1>6, <3>2, ServedStays
  <2>3. ASSUME NEW e, schedule(e), e.thread \in {AnyThread, w}
        PROVE  AllServed'
    <3>1. PICK n : /\ n \notin DOMAIN m_fibers /\ DOMAIN m_fibers' = DOMAIN m_fibers \cup {n}
                   /\ m_fibers'[n] = e
                   /\ \A i \in DOMAIN m_fibers : m_fibers'[i] = m_fibers[i]
      BY ZenonT(60), <2>3, Appended DEF CoreInv
    <3> QED
      BY ZenonT(60), <1>1, <1>2, <1>3, <1>6, <2>3, <3>1, ServedStays
  <2>4. CASE \E x \in Tasks, t \in Threads \cup {AnyThread} : BodySchedule(w, x, t)
    <3>1. PICK x \in Tasks, t \in Threads \cup {AnyThread} : BodySchedule(w, x, t)
      BY <2>4
    <3>2. schedule(TaskEntry(x, t)) /\ t \in {AnyThread, w}
      BY ZenonT(60), <3>1 DEF BodySchedule, Submit
    <3>3. TaskEntry(x, t).thread = t
      BY DEF TaskEntry, FiberEntry, CbEntry
    <3> QED
      BY ZenonT(60), <2>3, <3>2, <3>3
  <2>5. CASE BackFiber(w) \/ BackCb(w)
    <3>1. PICK f : Requeue(f)
      BY ZenonT(60), <2>5 DEF BackFiber, BackCb
    <3>2. FiberEntry(f, AnyThread).thread = AnyThread
      BY DEF FiberEntry
    <3> QED
      BY ZenonT(60), <2>1, <2>3, <3>1, <3>2 DEF Requeue
  <2> QED
    BY ZenonT(60), <1>4, <1>5, <2>1, <2>2, <2>4, <2>5 DEF run, BodyStep, DispatchFiber,
       DispatchEnded, DispatchCb, YieldToReady, Register, YieldToHold, MainFuncEnd, swapOut,
       queueVars
<1> QED
  BY ZenonT(60), <1>1, <1>4, <1>5, <1>6

\* The client's part of the argument.
LEMMA ClientDrains ==
    ASSUME CoreInv, DrainInv, NEW x \in Tasks, NEW t \in Threads \cup {AnyThread},
           ClientSchedule(x, t)
    PROVE  DrainInv'
<1>1. client \in {"new", "started"} /\ UNCHANGED <<client, m_autoStop, idle_state, pc>>
  BY ZenonT(60) DEF ClientSchedule, ClientAt, flagVars
<1>2. client \notin {"join", "done"} /\ client # "done"
  BY <1>1
<1>3. ~m_autoStop
  BY ZenonT(60), <1>1 DEF DrainInv, Joined
<1>4. AllServed'
  BY ZenonT(60), <1>1, <1>3 DEF DrainInv, AllServed
<1>5. Joined'
  BY ZenonT(60), <1>1, <1>2 DEF DrainInv, Joined
<1> QED
  BY <1>4, <1>5 DEF DrainInv

LEMMA StartDrains ==
    ASSUME CoreInv, DrainInv, start \/ stopAuto
    PROVE  DrainInv'
<1>1. /\ client \in {"new", "started"} /\ UNCHANGED <<idle_state, m_fibers>>
      /\ client' \in {"started", "stop"}
  BY DEF start, stopAuto, ClientAt, queueVars
<1>2. ~m_autoStop
  BY ZenonT(60), <1>1 DEF DrainInv, Joined
<1>3. AllServed'
  BY ZenonT(60), <1>1, <1>2 DEF DrainInv, AllServed
<1>4. client' \notin {"join", "done"} /\ client' # "done"
  BY ZenonT(60), <1>1
<1>5. client' \in {"new", "started"} => ~m_autoStop'
  BY ZenonT(60), <1>1, <1>2 DEF start, stopAuto
<1>6. \A v \in Threads : pc'[v] = "exit" => idle_state'[v] = "TERM"
  <2>1. CASE start
    BY <2>1 DEF start
  <2>2. CASE stopAuto
    BY ZenonT(60), <1>1, <2>2 DEF stopAuto, DrainInv, Joined
  <2> QED
    BY ZenonT(60), <2>1, <2>2
<1> QED
  BY ZenonT(60), <1>3, <1>4, <1>5, <1>6 DEF DrainInv, Joined

LEMMA StopDrainsStep ==
    ASSUME CoreInv, DrainInv, stopFlag \/ stopCheck \/ stopJoin
    PROVE  DrainInv'
<1>1. UNCHANGED <<idle_state, m_fibers, m_autoStop>>
  BY ZenonT(60) DEF stopFlag, stopCheck, stopJoin, queueVars
<1>2. /\ client \in {"stop", "check", "root", "join"}
      /\ client' \in {"check", "root", "join", "done"}
  BY DEF stopFlag, stopCheck, stopJoin, ClientAt
<1>3. AllServed /\ Joined
  BY DEF DrainInv
<1>4. \A v \in Threads : \/ pc'[v] = pc[v]
                         \/ v = Caller /\ pc'[v] = "scan" /\ pc[v] = "off" /\ client' = "root"
  <2>1. ASSUME pc' # pc
        PROVE  \A v \in Threads : \/ pc'[v] = pc[v]
                                  \/ v = Caller /\ pc'[v] = "scan" /\ pc[v] = "off"
                                     /\ client' = "root"
    <3>1. client = "check" /\ client' = "root" /\ pc' = [pc EXCEPT ![Caller] = "scan"]
      BY ZenonT(60), <2>1 DEF stopFlag, stopCheck, stopJoin, ClientAt
    <3>2. \A v \in Threads : v = Caller => pc[v] = "off"
      BY <3>1 DEF CoreInv, Shape, StartedOK
    <3> QED
      BY ZenonT(60), <3>1, <3>2 DEF CoreInv, TypeOK
  <2> QED
    BY ZenonT(60), <2>1
<1>5. AllServed'
  <2>1. \A v \in Threads : Busy(v) => Busy(v)'
    BY <1>4 DEF Busy
  <2> QED
    BY ZenonT(60), <1>1, <1>3, <2>1, ServedStays
<1>6. client' \notin {"new", "started"}
  BY <1>2
<1>7. \A v \in Threads : pc'[v] = "exit" => idle_state'[v] = "TERM"
  <2>1. "scan" # "exit"
    OBVIOUS
  <2> QED
    BY ZenonT(60), <1>1, <1>3, <1>4, <2>1 DEF Joined
<1>8. ASSUME client' \in {"join", "done"}
      PROVE  pc' = pc /\ \A v \in Threads : v = Caller => pc[v] \in {"off", "exit"}
  <2>1. CASE stopFlag \/ stopCheck
    <3>1. client \in {"stop", "check"} /\ pc' = pc
      BY ZenonT(60), <1>8, <2>1 DEF stopFlag, stopCheck, ClientAt
    <3> QED
      BY ZenonT(60), <3>1 DEF CoreInv, Shape, StartedOK
  <2>2. CASE stopJoin
    BY <1>3, <2>2 DEF stopJoin, ClientAt, Joined
  <2> QED
    BY ZenonT(60), <2>1, <2>2
<1>9. ASSUME client' \in {"join", "done"}, Threads = {Caller}
      PROVE  DOMAIN m_fibers' = {}
  <2>1. Caller \in Threads /\ Caller # None /\ Caller # AnyThread
    BY <1>9, SchedulerAssumption
  <2>2. CASE stopFlag \/ stopCheck
    <3>1. m_fibers = << >>
      BY <1>9, <2>1, <2>2 DEF stopFlag, stopCheck, Stopping, Quiet
    <3> QED
      BY <1>1, <3>1
  <2>3. CASE stopJoin /\ client = "root"
    <3>1. pc[Caller] = "exit"
      BY ZenonT(60), <2>3 DEF stopJoin, ClientAt
    <3>2. ~Busy(Caller) /\ idle_state[Caller] = "TERM"
      BY ZenonT(60), <1>3, <2>1, <3>1 DEF Busy, Joined
    <3>3. ASSUME NEW i \in DOMAIN m_fibers
          PROVE  FALSE
      <4>1. Served(m_fibers[i]) /\ m_fibers[i].thread \in Threads \cup {AnyThread}
        BY ZenonT(60), <1>3, <2>1, <3>2, EntryThread DEF AllServed
      <4> QED
        BY ZenonT(60), <1>9, <3>2, <4>1 DEF Served
    <3> QED
      BY ZenonT(60), <1>1, <3>3
  <2>4. CASE stopJoin /\ client = "join"
    BY ZenonT(60), <1>1, <1>3, <1>9, <2>4 DEF Joined
  <2> QED
    BY ZenonT(60), <2>2, <2>3, <2>4 DEF stopJoin, ClientAt
<1>10. client' = "done" => \A v \in Threads \ {Caller} : pc'[v] = "exit"
  BY DEF stopFlag, stopCheck, stopJoin, ClientAt
<1> QED
  BY ZenonT(60), <1>5, <1>6, <1>7, <1>8, <1>9, <1>10 DEF DrainInv, Joined

LEMMA DrainInvNext ==
    ASSUME ~CrossPins
    PROVE  CoreInv /\ FibersInv /\ DrainInv /\ [Next]_vars /\ FibersInv' => DrainInv'
<1> SUFFICES ASSUME CoreInv, FibersInv, DrainInv, [Next]_vars, FibersInv'
             PROVE  DrainInv'
  OBVIOUS
<1>1. \A f : ~ClientReschedule(f) /\ ~Wake(f)
  BY ZenonT(60) DEF ClientReschedule, Wake, FibersInv, Apart, NobodyHolds
<1>2. aborted' = "no"
  BY DEF FibersInv
<1>3. ASSUME NEW w \in Threads, run(w)
      PROVE  DrainInv'
  BY ZenonT(60), <1>2, <1>3, RunServed, RunJoined DEF DrainInv
<1>4. ASSUME UNCHANGED vars
      PROVE  DrainInv'
  <2>1. UNCHANGED <<m_fibers, m_autoStop, client, pc, idle_state>>
    BY ZenonT(60), <1>4 DEF vars, queueVars, flagVars
  <2>2. AllServed'
    BY ZenonT(60), <2>1 DEF DrainInv, AllServed, Served, Busy
  <2>3. Joined'
    BY ZenonT(60), <2>1 DEF DrainInv, Joined
  <2> QED
    BY <2>2, <2>3 DEF DrainInv
<1> QED
  BY ZenonT(60), <1>1, <1>3, <1>4, ClientDrains, StartDrains, StopDrainsStep
     DEF Next, Stop, Terminated

LEMMA DrainInvInit == Init => DrainInv
<1> SUFFICES ASSUME Init PROVE DrainInv
  OBVIOUS
<1>1. /\ DOMAIN m_fibers = {} /\ client = "new" /\ ~m_autoStop
      /\ \A w \in Threads : idle_state[w] = "INIT" /\ pc[w] = "off"
  BY DEF Init
<1>2. \A w \in Threads : idle_state[w] # "TERM" /\ pc[w] # "exit"
  BY ZenonT(60), <1>1
<1>3. client \notin {"join", "done"} /\ client # "done"
  BY <1>1
<1> QED
  BY ZenonT(60), <1>1, <1>2, <1>3 DEF DrainInv, AllServed, Joined
=============================================================================
