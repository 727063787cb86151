------------------------- MODULE SchedulerTheorems -------------------------
(***************************************************************************)
(* The theorems about the tasks of Scheduler, from the invariants of       *)
(* SchedulerProofs and SchedulerTaskProofs, and what one thread can do     *)
(* with fibers that yield to HOLD.                                         *)
(***************************************************************************)
EXTENDS SchedulerProofs, SchedulerTaskProofs

USE SMTT(60), ZenonT(60), SMTT(90), SMTT(120) DEF counts, locals, rest

LEMMA CallbackInvAlways == Spec => []CallbackInv
BY CallbackInvInit, CallbackInvNext, CoreInvAlways, PTL DEF Spec

\* However threads and tasks interleave, and whatever yields, a callback
\* handed to schedule() is never lost and never duplicated: it is one entry
\* of the list, or held by one thread, until its body is entered once.
THEOREM CallbacksCorrect == Spec => []CallbackConserved
<1>1. CallbackInv => CallbackConserved
  BY ZenonT(60) DEF CallbackInv
<1> QED
  BY <1>1, CallbackInvAlways, PTL

LEMMA FibersInvAlways ==
    ASSUME ReadyOnly
    PROVE  Spec => []FibersInv
<1>1. Init => FibersInv
  BY ZenonT(60), FibersInvInit
<1>2. CoreInv /\ CallbackInv /\ FibersInv /\ [Next]_vars => FibersInv'
  BY ZenonT(60), FibersInvNext
<1> QED
  BY <1>1, <1>2, CoreInvAlways, CallbackInvAlways, PTL DEF Spec

\* With clients that leave waking up to the scheduler, no fiber's stack is
\* ever used by two threads, whatever the threads, the yields to READY and
\* the exceptions.
THEOREM OneThreadEach ==
    ASSUME ReadyOnly
    PROVE  Spec => []OneThreadPerFiber
BY FibersInvAlways, CoreInvAlways, FibersApart, PTL

\* With such clients the assertions of swapIn() and reset() never fail, and
\* a body finds its fiber in state EXEC.
THEOREM AssertionsHold ==
    ASSUME ReadyOnly
    PROVE  Spec => []NoAssertFails
BY FibersInvAlways, CoreInvAlways, FibersApart, PTL

\* With such clients a task executes on the thread schedule() was given, as
\* long as it does not yield.
THEOREM PinsHold ==
    ASSUME ReadyOnly
    PROVE  Spec => []PinRespected
<1>1. CoreInv /\ CallbackInv /\ FibersInv /\ PinInv /\ [Next]_vars => PinInv'
  BY ZenonT(60), PinInvNext
<1>2. PinInv => PinRespected
  BY ZenonT(60) DEF PinInv, BodyPinned, PinRespected
<1> QED
  BY <1>1, <1>2, PinInvInit, CoreInvAlways, CallbackInvAlways, FibersInvAlways, PTL DEF Spec

\* With such clients, whose bodies pin tasks to no thread but their own,
\* stop() returns only when every task scheduled was entered and nothing is
\* left in the list.
THEOREM StopIsClean ==
    ASSUME ReadyOnly, ~CrossPins
    PROVE  Spec => []StopDrains
<1>1. CoreInv /\ FibersInv /\ DrainInv /\ [Next]_vars /\ FibersInv' => DrainInv'
  BY ZenonT(60), DrainInvNext
<1> QED
  BY <1>1, DrainInvInit, Drained, CoreInvAlways, CallbackInvAlways, FibersInvAlways, PTL DEF Spec

-----------------------------------------------------------------------------
(* One thread, and any client whose callbacks do not yield to READY:       *)
(* bodies may yield to HOLD and be woken any time after they registered,   *)
(* and a Fiber::ptr may be handed over twice.                              *)

SingleThread ==
    /\ \A v, w \in Threads : v = w
    /\ ReadyYielders \subseteq Fibers

\* Somebody besides the thread whose cb_fiber it is has a pointer to fiber f.
Handed(f) == f \in waiters \/ Listed(f) \/ \E w \in Threads : ft[w].fiber = f

InBody == {"body", "hold", "out", "back"}

InCallback(w) == pc[w] \in InBody /\ ft[w].fiber = None

\* A fiber is in state EXEC while its body executes, and only then.
ExecOK(w) ==
    \A f \in Tasks : m_state[f] = "EXEC" <=> pc[w] \in {"body", "hold"} /\ f = Current(w)

\* The thread's cb_fiber can be reset whenever a callback is dispatched: once
\* it has registered with somebody it yields to HOLD, and is given up.
OwnOK(w) ==
    cb_fiber[w] # None =>
        /\ cb_fiber[w] \in Callbacks
        /\ ~InCallback(w) => m_state[cb_fiber[w]] = "INIT" /\ ~Handed(cb_fiber[w])
        /\ InCallback(w) /\ pc[w] = "body" =>
              ~Handed(cb_fiber[w]) /\ m_cb[cb_fiber[w]] \in Callbacks
        /\ InCallback(w) /\ pc[w] \in {"out", "back"} =>
              \/ m_state[cb_fiber[w]] = "HOLD"
              \/ m_state[cb_fiber[w]] \in Ended /\ ~Handed(cb_fiber[w])

\* The fiber made for a callback does not exist before the callback is entered.
Unmade(c) == ~Handed(c) /\ \A w \in Threads : cb_fiber[w] # c

HoldInv ==
    /\ aborted = "no"
    /\ \A c \in Callbacks : runs[c] = 0 => Unmade(c)
    /\ \A w \in Threads : ExecOK(w) /\ OwnOK(w)

LEMMA NotZero == \A n \in Nat : n + 1 # 0
OBVIOUS

LEMMA EntryFiber == \A f, t : FiberEntry(f, t).fiber = f
BY DEF FiberEntry

LEMMA HandedAppended ==
    ASSUME TypeOK, NEW e, schedule(e), UNCHANGED ft, waiters' \subseteq waiters,
           NEW c, e.fiber # c \/ Handed(c)
    PROVE  Handed(c)' => Handed(c)
<1>1. PICK n : /\ DOMAIN m_fibers' = DOMAIN m_fibers \cup {n} /\ m_fibers'[n] = e
               /\ \A i \in DOMAIN m_fibers : m_fibers'[i] = m_fibers[i]
  BY ZenonT(60), Appended
<1>2. Listed(c)' => Listed(c) \/ e.fiber = c
  BY ZenonT(60), <1>1 DEF Listed
<1> QED
  BY ZenonT(60), <1>2 DEF Handed

\* A step that touches no fiber.
LEMMA HoldQuiet ==
    ASSUME HoldInv, UNCHANGED <<m_state, m_cb, cb_fiber, runs, aborted>>,
           \A c \in Callbacks : Handed(c)' => Handed(c),
           \A w \in Threads : \/ pc'[w] = pc[w] /\ ft'[w] = ft[w]
                              \/ pc[w] = "out" /\ pc'[w] = "back" /\ ft'[w] = ft[w]
                              \/ pc[w] \notin InBody /\ pc'[w] \notin InBody
    PROVE  HoldInv'
<1>1. \A c \in Callbacks : runs'[c] = 0 => Unmade(c)'
  BY ZenonT(60) DEF HoldInv, Unmade
<1>2. ASSUME NEW w \in Threads PROVE ExecOK(w)' /\ OwnOK(w)'
  <2>1. ExecOK(w) /\ OwnOK(w) /\ cb_fiber'[w] = cb_fiber[w]
    BY ZenonT(60) DEF HoldInv
  <2>2. CASE pc'[w] = pc[w] /\ ft'[w] = ft[w]
    <3>1. Current(w)' = Current(w) /\ (InCallback(w)' <=> InCallback(w))
      BY ZenonT(60), <2>1, <2>2 DEF Current, InCallback
    <3>2. ExecOK(w)'
      BY ZenonT(60), <2>1, <2>2, <3>1 DEF ExecOK
    <3> QED
      BY ZenonT(60), <2>1, <2>2, <3>1, <3>2 DEF OwnOK
  <2>3. CASE pc[w] = "out" /\ pc'[w] = "back" /\ ft'[w] = ft[w]
    <3>1. Current(w)' = Current(w) /\ (InCallback(w)' <=> InCallback(w))
      BY ZenonT(60), <2>1, <2>3 DEF Current, InCallback, InBody
    <3>2. ExecOK(w)'
      BY ZenonT(60), <2>1, <2>3, <3>1 DEF ExecOK
    <3> QED
      BY ZenonT(60), <2>1, <2>3, <3>1, <3>2 DEF OwnOK
  <2>4. CASE pc[w] \notin InBody /\ pc'[w] \notin InBody
    <3>1. ~InCallback(w) /\ ~InCallback(w)'
      BY ZenonT(60), <2>4 DEF InCallback
    <3>2. ExecOK(w)'
      BY ZenonT(60), <2>1, <2>4 DEF ExecOK, InBody
    <3> QED
      BY ZenonT(60), <2>1, <3>1, <3>2 DEF OwnOK
  <2> QED
    BY ZenonT(60), <2>2, <2>3, <2>4
<1> QED
  BY ZenonT(60), <1>1, <1>2 DEF HoldInv

\* A step of the only thread.
LEMMA HoldOwnStep ==
    ASSUME SingleThread, NEW w \in Threads, aborted' = "no", ExecOK(w)', OwnOK(w)',
           \A c \in Callbacks : runs'[c] = 0 => ~Handed(c)' /\ cb_fiber'[w] # c
    PROVE  HoldInv'
<1>1. \A v \in Threads : v = w
  BY ZenonT(60) DEF SingleThread
<1> QED
  BY ZenonT(60), <1>1 DEF HoldInv, Unmade

\* schedule(), by the client or by a body, and Wake.
LEMMA ScheduleHolds ==
    ASSUME CoreInv, HoldInv, NEW e, schedule(e), UNCHANGED <<fiberVars, pc, ft, cb_fiber, aborted>>,
           waiters' \subseteq waiters, e.fiber \notin Callbacks \/ Handed(e.fiber)
    PROVE  HoldInv'
<1>1. \A c \in Callbacks : Handed(c)' => Handed(c)
  BY ZenonT(60), HandedAppended DEF CoreInv
<1> QED
  BY ZenonT(60), <1>1, HoldQuiet DEF fiberVars

LEMMA ClientHolds ==
    ASSUME CoreInv, HoldInv,
           \/ \E x \in Tasks, t \in Threads \cup {AnyThread} :
                 ClientSchedule(x, t) \/ \E w \in Threads : BodySchedule(w, x, t)
           \/ \E f \in Fibers : ClientReschedule(f)
           \/ \E f \in Tasks : Wake(f)
    PROVE  HoldInv'
<1>1. ASSUME NEW x \in Tasks, NEW t \in Threads \cup {AnyThread},
             ClientSchedule(x, t) \/ \E w \in Threads : BodySchedule(w, x, t)
      PROVE  HoldInv'
  <2>1. schedule(TaskEntry(x, t)) /\ UNCHANGED <<fiberVars, pc, locals, rest>>
    BY ZenonT(60), <1>1 DEF ClientSchedule, BodySchedule, Submit
  <2>2. TaskEntry(x, t).fiber \notin Callbacks
    BY ZenonT(60), <1>1, SchedulerAssumption DEF TaskEntry, FiberEntry, CbEntry, Tasks
  <2>3. waiters' \subseteq waiters
    BY ZenonT(60), <2>1
  <2> QED
    BY ZenonT(60), <2>1, <2>2, <2>3, ScheduleHolds
<1>2. ASSUME NEW f \in Fibers, ClientReschedule(f)
      PROVE  HoldInv'
  <2>1. schedule(FiberEntry(f, AnyThread)) /\ UNCHANGED <<fiberVars, pc, locals, rest>>
    BY ZenonT(60), <1>2 DEF ClientReschedule
  <2>2. FiberEntry(f, AnyThread).fiber \notin Callbacks
    BY ZenonT(60), <1>2, SchedulerAssumption DEF FiberEntry
  <2>3. waiters' \subseteq waiters
    BY ZenonT(60), <2>1
  <2> QED
    BY ZenonT(60), <2>1, <2>2, <2>3, ScheduleHolds
<1>3. ASSUME NEW f \in Tasks, Wake(f)
      PROVE  HoldInv'
  <2>1. /\ schedule(FiberEntry(f, AnyThread)) /\ f \in waiters /\ waiters' = waiters \ {f}
        /\ UNCHANGED <<fiberVars, pc, locals, aborted>>
    BY ZenonT(60), <1>3 DEF Wake
  <2>2. Handed(FiberEntry(f, AnyThread).fiber)
    BY ZenonT(60), <2>1 DEF FiberEntry, Handed
  <2>3. waiters' \subseteq waiters
    BY ZenonT(60), <2>1
  <2> QED
    BY ZenonT(60), <2>1, <2>2, <2>3, ScheduleHolds
<1> QED
  BY ZenonT(60), <1>1, <1>2, <1>3
\* Taking an entry: what was in the list is now with the thread.
LEMMA TakeHolds ==
    ASSUME CoreInv, HoldInv, NEW w \in Threads, Take(w)
    PROVE  HoldInv'
<1>0. PICK i \in DOMAIN m_fibers : \E g : Removes(w, i, g)
  BY ZenonT(60), TakenEntry DEF CoreInv
<1>1. PICK g : Removes(w, i, g)
  BY ZenonT(60), <1>0
<1>2. ft'[w] = m_fibers[i] /\ \A v \in Threads \ {w} : ft'[v] = ft[v]
  BY ZenonT(60), <1>1 DEF Removes, CoreInv, TypeOK
<1>3. ASSUME NEW c, Listed(c)'
      PROVE  Listed(c)
  <2>1. PICK j \in DOMAIN m_fibers' : m_fibers'[j].fiber = c
    BY ZenonT(60), <1>3 DEF Listed
  <2>2. g[j] \in DOMAIN m_fibers /\ m_fibers'[j] = m_fibers[g[j]]
    BY ZenonT(60), <1>1, <2>1 DEF Removes
  <2> QED
    BY ZenonT(60), <2>1, <2>2 DEF Listed
<1>4. ASSUME NEW c, Handed(c)'
      PROVE  Handed(c)
  <2>1. waiters' = waiters
    BY ZenonT(60) DEF Take
  <2>2. (\E v \in Threads : ft'[v].fiber = c) => Listed(c) \/ \E v \in Threads : ft[v].fiber = c
    BY ZenonT(60), <1>2 DEF Listed
  <2> QED
    BY ZenonT(60), <1>3, <1>4, <2>1, <2>2 DEF Handed
<1>5. \A v \in Threads : \/ pc'[v] = pc[v] /\ ft'[v] = ft[v]
                         \/ pc[v] \notin InBody /\ pc'[v] \notin InBody
  BY ZenonT(60), <1>2 DEF Take, At, InBody, CoreInv, TypeOK
<1>6. UNCHANGED <<m_state, m_cb, cb_fiber, runs, aborted>>
  BY ZenonT(60) DEF Take, fiberVars
<1> QED
  BY ZenonT(60), <1>4, <1>5, <1>6, HoldQuiet

\* Where only what the threads hold changes, and a thread only drops it.
LEMMA HandedStays ==
    ASSUME UNCHANGED <<m_fibers, waiters>>,
           \A v \in Threads : ft'[v].fiber = ft[v].fiber \/ ft'[v].fiber = None
    PROVE  \A c \in Tasks : Handed(c)' => Handed(c)
<1>1. None \notin Tasks
  BY ZenonT(60), SchedulerAssumption
<1>2. \A f : Listed(f)' <=> Listed(f)
  BY ZenonT(60), ListedStays
<1> QED
  BY ZenonT(60), <1>1, <1>2 DEF Handed

LEMMA QuietThreadHolds ==
    ASSUME CoreInv, HoldInv, NEW w \in Threads,
           \/ TakeNothing(w) \/ EnterIdle(w) \/ idle(w) \/ swapOut(w)
           \/ DispatchEnded(w)
    PROVE  HoldInv'
<1>1. UNCHANGED <<m_fibers, waiters, m_state, m_cb, runs, aborted, cb_fiber>>
  BY ZenonT(60) DEF TakeNothing, EnterIdle, idle, swapOut, DispatchEnded, queueVars, fiberVars
<1>2. ft' = ft \/ (DispatchEnded(w) /\ ft' = [ft EXCEPT ![w] = NoEntry])
  BY ZenonT(60) DEF TakeNothing, EnterIdle, idle, swapOut, DispatchEnded
<1>3. \A v \in Threads : ft'[v] = ft[v] \/ (v = w /\ DispatchEnded(w) /\ ft'[v] = NoEntry)
  BY ZenonT(60), <1>2 DEF CoreInv, TypeOK
<1>4. \A c \in Tasks : Handed(c)' => Handed(c)
  BY ZenonT(60), <1>1, <1>3, NoFiber, HandedStays
<1>5. PICK place : /\ pc' = [pc EXCEPT ![w] = place]
                   /\ \/ pc[w] = "out" /\ place = "back" /\ ft' = ft
                      \/ pc[w] \in {"scan", "empty", "idle", "dispatch"}
                         /\ place \in {"scan", "empty", "idle", "exit"}
  BY ZenonT(60) DEF TakeNothing, EnterIdle, idle, swapOut, DispatchEnded, At
<1>6. pc'[w] = place /\ \A v \in Threads \ {w} : pc'[v] = pc[v] /\ ft'[v] = ft[v]
  BY ZenonT(60), <1>3, <1>5 DEF CoreInv, TypeOK
<1>7. \/ pc[w] = "out" /\ place = "back" /\ ft' = ft
      \/ pc[w] \notin InBody /\ place \notin InBody
  BY ZenonT(60), <1>5 DEF InBody
<1> QED
  BY ZenonT(60), <1>1, <1>4, <1>6, <1>7, HoldQuiet DEF Tasks

LEMMA StartStopHolds ==
    ASSUME CoreInv, HoldInv, start \/ Stop \/ UNCHANGED vars
    PROVE  HoldInv'
<1>1. UNCHANGED <<m_fibers, waiters, m_state, m_cb, runs, aborted, ft, cb_fiber>>
  BY ZenonT(60) DEF start, Stop, stopAuto, stopFlag, stopCheck, stopJoin, vars, queueVars,
     fiberVars
<1>2. ASSUME start
      PROVE  \A v \in Threads : pc[v] \notin InBody /\ pc'[v] \notin InBody
  <2>1. client = "new" /\ pc' = [v \in Threads |-> IF v = Caller THEN "off" ELSE "scan"]
    BY ZenonT(60), <1>2 DEF start, ClientAt
  <2>2. \A v \in Threads : pc[v] = "off"
    BY ZenonT(60), <2>1 DEF CoreInv, Shape, StartedOK
  <2> QED
    BY ZenonT(60), <2>1, <2>2 DEF InBody
<1>3. ASSUME stopCheck, pc' # pc
      PROVE  \A v \in Threads : pc'[v] = pc[v] \/ (pc[v] \notin InBody /\ pc'[v] \notin InBody)
  <2>1. Caller \in Threads /\ client = "check" /\ pc' = [pc EXCEPT ![Caller] = "scan"]
    BY ZenonT(60), <1>3, SchedulerAssumption DEF stopCheck, ClientAt
  <2>2. pc[Caller] = "off"
    BY ZenonT(60), <2>1 DEF CoreInv, Shape, StartedOK
  <2> QED
    BY ZenonT(60), <2>1, <2>2 DEF CoreInv, TypeOK, InBody
<1>4. start \/ stopCheck \/ UNCHANGED pc
  BY ZenonT(60) DEF Stop, stopAuto, stopFlag, stopJoin, vars
<1>5. \A c \in Tasks : Handed(c)' => Handed(c)
  BY ZenonT(60), <1>1, HandedStays
<1> QED
  BY ZenonT(60), <1>1, <1>2, <1>3, <1>4, <1>5, HoldQuiet DEF Tasks

\* Dispatching a fiber: none is in state EXEC, and it is not the cb_fiber.
LEMMA DispatchFiberHolds ==
    ASSUME SingleThread, CoreInv, HoldInv, NEW w \in Threads, DispatchFiber(w)
    PROVE  HoldInv'
<1>1. PICK f : f = ft[w].fiber
  OBVIOUS
<1>2. /\ pc[w] = "dispatch" /\ f # None /\ swapIn(w, f, m_cb[f], m_state[f])
      /\ UNCHANGED <<m_fibers, waiters, ft, cb_fiber>>
  BY ZenonT(60), <1>1 DEF DispatchFiber, At, queueVars
<1>3. f \in Tasks
  BY ZenonT(60), <1>1, <1>2 DEF CoreInv, TypeOK, Entry
<1>4. ExecOK(w) /\ OwnOK(w) /\ aborted = "no" /\ \A c \in Callbacks : runs[c] = 0 => Unmade(c)
  BY ZenonT(60) DEF HoldInv
<1>5. \A g \in Tasks : m_state[g] # "EXEC"
  BY ZenonT(60), <1>2, <1>4 DEF ExecOK
<1>6. /\ m_state' = [m_state EXCEPT ![f] = "EXEC"] /\ pc' = [pc EXCEPT ![w] = "body"]
      /\ runs' = [x \in Tasks |-> IF x = m_cb[f] /\ m_state[f] = "INIT" THEN runs[x] + 1 ELSE runs[x]]
      /\ UNCHANGED aborted
  BY ZenonT(60), <1>2, <1>3, <1>5 DEF swapIn
<1>7. m_state'[f] = "EXEC" /\ \A g \in Tasks \ {f} : m_state'[g] = m_state[g]
  BY ZenonT(60), <1>3, <1>6 DEF CoreInv, TypeOK
<1>8. pc'[w] = "body"
  BY ZenonT(60), <1>6 DEF CoreInv, TypeOK
<1>9. ASSUME NEW x \in Tasks, runs'[x] = 0
      PROVE  runs[x] = 0
  <2>1. runs[x] \in Nat /\ (runs'[x] = runs[x] \/ runs'[x] = runs[x] + 1)
    BY ZenonT(60), <1>6 DEF CoreInv, TypeOK
  <2> QED
    BY ZenonT(60), <1>9, <2>1, NotZero
<1>10. \A c \in Tasks : Handed(c)' => Handed(c)
  BY ZenonT(60), <1>2, HandedStays
<1>11. Current(w)' = f
  BY ZenonT(60), <1>1, <1>2 DEF Current
<1>12. ExecOK(w)'
  BY ZenonT(60), <1>5, <1>7, <1>8, <1>11 DEF ExecOK
<1>13. ~InCallback(w) /\ ~InCallback(w)'
  BY ZenonT(60), <1>1, <1>2 DEF InCallback, InBody
<1>14. Handed(f)
  BY ZenonT(60), <1>1 DEF Handed
<1>15. OwnOK(w)'
  <2>1. CASE cb_fiber[w] # None
    <3>1. cb_fiber[w] \in Callbacks /\ m_state[cb_fiber[w]] = "INIT" /\ ~Handed(cb_fiber[w])
      BY ZenonT(60), <1>4, <1>13, <2>1 DEF OwnOK
    <3>2. cb_fiber[w] \in Tasks \ {f}
      BY ZenonT(60), <1>14, <3>1 DEF Tasks
    <3>3. ~Handed(cb_fiber[w])' /\ m_state'[cb_fiber[w]] = "INIT" /\ cb_fiber'[w] = cb_fiber[w]
      BY ZenonT(60), <1>2, <1>7, <1>10, <3>1, <3>2 DEF Handed
    <3> QED
      BY ZenonT(60), <1>13, <3>1, <3>3 DEF OwnOK, Handed
  <2>2. CASE cb_fiber[w] = None
    BY ZenonT(60), <1>2, <2>2 DEF OwnOK
  <2> QED
    BY ZenonT(60), <2>1, <2>2
<1>16. \A c \in Callbacks : runs'[c] = 0 => ~Handed(c)' /\ cb_fiber'[w] # c
  BY ZenonT(60), <1>2, <1>4, <1>9, <1>10 DEF Unmade, Tasks
<1> QED
  BY ZenonT(60), <1>4, <1>6, <1>12, <1>15, <1>16, HoldOwnStep

\* Dispatching a callback: the cb_fiber is new and nobody else's, or it is
\* allocated, which happens once per callback.
LEMMA DispatchCbHolds ==
    ASSUME SingleThread, CoreInv, CallbackInv, HoldInv, NEW w \in Threads, DispatchCb(w)
    PROVE  HoldInv'
<1>1. PICK c : c = ft[w].cb
  OBVIOUS
<1>2. PICK f : f = IF cb_fiber[w] # None THEN cb_fiber[w] ELSE c
  OBVIOUS
<1>3. /\ pc[w] = "dispatch" /\ c # None /\ UNCHANGED <<m_fibers, waiters>>
      /\ IF cb_fiber[w] # None /\ ~Resettable(f)
         THEN aborted' = "reset"
         ELSE /\ cb_fiber' = [cb_fiber EXCEPT ![w] = f]
              /\ ft' = [ft EXCEPT ![w] = NoEntry]
              /\ swapIn(w, f, c, "INIT")
  BY ZenonT(60), <1>1, <1>2 DEF DispatchCb, At, queueVars
<1>4. c \in Callbacks
  BY ZenonT(60), <1>1, <1>3 DEF CoreInv, TypeOK, Entry
<1>5. ft[w].fiber = None
  BY ZenonT(60), <1>1, <1>3 DEF CoreInv, Shape, LocalsOK, Whole
<1>6. runs[c] = 0
  <2>1. w \in Taken(c)
    BY ZenonT(60), <1>1, <1>3 DEF Taken
  <2>2. Kept(c)
    BY ZenonT(60), <1>4 DEF CallbackInv, CallbackConserved
  <2> QED
    BY ZenonT(60), <2>1, <2>2, KeptPlaces
<1>7. ExecOK(w) /\ OwnOK(w) /\ aborted = "no" /\ \A x \in Callbacks : runs[x] = 0 => Unmade(x)
  BY ZenonT(60) DEF HoldInv
<1>8. ~InCallback(w)
  BY ZenonT(60), <1>3 DEF InCallback, InBody
<1>9. f \in Callbacks /\ ~Handed(f) /\ (cb_fiber[w] # None => m_state[f] = "INIT")
  BY ZenonT(60), <1>2, <1>4, <1>6, <1>7, <1>8 DEF OwnOK, Unmade
<1>10. /\ cb_fiber' = [cb_fiber EXCEPT ![w] = f] /\ ft' = [ft EXCEPT ![w] = NoEntry]
       /\ swapIn(w, f, c, "INIT")
  BY ZenonT(60), <1>3, <1>9 DEF Resettable
<1>11. /\ m_state' = [m_state EXCEPT ![f] = "EXEC"] /\ pc' = [pc EXCEPT ![w] = "body"]
       /\ m_cb' = [m_cb EXCEPT ![f] = c]
       /\ runs' = [x \in Tasks |-> IF x = c THEN runs[x] + 1 ELSE runs[x]]
       /\ UNCHANGED aborted
  BY ZenonT(60), <1>10 DEF swapIn
<1>12. f \in Tasks /\ c \in Tasks /\ None \notin Tasks
  BY ZenonT(60), <1>4, <1>9, SchedulerAssumption DEF Tasks
<1>13. /\ m_state'[f] = "EXEC" /\ \A g \in Tasks \ {f} : m_state'[g] = m_state[g]
       /\ m_cb'[f] = c /\ pc'[w] = "body" /\ cb_fiber'[w] = f /\ ft'[w] = NoEntry
       /\ \A v \in Threads \ {w} : ft'[v] = ft[v]
  BY ZenonT(60), <1>10, <1>11, <1>12 DEF CoreInv, TypeOK
<1>14. ASSUME NEW x \in Tasks, runs'[x] = 0
       PROVE  runs[x] = 0 /\ x # c
  <2>1. runs[x] \in Nat /\ runs'[x] = IF x = c THEN runs[x] + 1 ELSE runs[x]
    BY ZenonT(60), <1>11 DEF CoreInv, TypeOK
  <2> QED
    BY ZenonT(60), <1>14, <2>1, NotZero
<1>15. \A x \in Tasks : Handed(x)' => Handed(x)
  BY ZenonT(60), <1>3, <1>5, <1>13, NoFiber, HandedStays
<1>16. Current(w)' = f /\ InCallback(w)'
  BY ZenonT(60), <1>13, NoFiber DEF Current, InCallback, InBody
<1>17. \A g \in Tasks : m_state[g] # "EXEC"
  BY ZenonT(60), <1>3, <1>7 DEF ExecOK
<1>18. ExecOK(w)'
  BY ZenonT(60), <1>13, <1>16, <1>17 DEF ExecOK
<1>19. "body" \notin {"out", "back"}
  OBVIOUS
<1>20. ~Handed(f)'
  BY ZenonT(60), <1>9, <1>12, <1>15
<1>21. OwnOK(w)'
  <2>1. cb_fiber'[w] \in Callbacks /\ m_cb'[cb_fiber'[w]] \in Callbacks
    BY ZenonT(60), <1>4, <1>9, <1>13
  <2>2. ~Handed(cb_fiber[w])'
    BY ZenonT(60), <1>13, <1>20 DEF Handed, Listed
  <2> QED
    BY ZenonT(60), <1>13, <1>16, <1>19, <2>1, <2>2 DEF OwnOK
<1>22. ASSUME NEW x \in Callbacks, runs'[x] = 0
       PROVE  ~Handed(x)' /\ cb_fiber'[w] # x
  <2>1. x \in Tasks
    BY ZenonT(60) DEF Tasks
  <2>2. runs[x] = 0 /\ x # c
    BY ZenonT(60), <1>14, <1>22, <2>1
  <2>3. Unmade(x)
    BY ZenonT(60), <1>7, <2>2
  <2>4. cb_fiber[w] # x /\ ~Handed(x)
    BY ZenonT(60), <2>3 DEF Unmade
  <2> QED
    BY ZenonT(60), <1>2, <1>13, <1>15, <2>1, <2>2, <2>4
<1> QED
  BY ZenonT(60), <1>7, <1>11, <1>18, <1>21, <1>22, HoldOwnStep

\* What a body's fiber is, and that no other is in state EXEC.
LEMMA BodyFiber ==
    ASSUME CoreInv, HoldInv, NEW w \in Threads, pc[w] \in InBody
    PROVE  /\ Current(w) \in Tasks /\ Current(w) # None
           /\ ft[w].fiber # None => Current(w) = ft[w].fiber /\ Handed(Current(w))
           /\ ft[w].fiber = None => Current(w) = cb_fiber[w] /\ InCallback(w)
           /\ cb_fiber[w] # None => cb_fiber[w] \in Tasks
           /\ \A g \in Tasks \ {Current(w)} : m_state[g] # "EXEC"
<1>1. Current(w) # None
  BY ZenonT(60) DEF CoreInv, Shape, LocalsOK, InBody
<1>2. Current(w) \in Tasks \cup {None} /\ cb_fiber[w] \in Tasks \cup {None}
  BY ZenonT(60) DEF CoreInv, TypeOK, Entry, Current
<1>3. \A g \in Tasks \ {Current(w)} : m_state[g] # "EXEC"
  BY ZenonT(60) DEF HoldInv, ExecOK
<1> QED
  BY ZenonT(60), <1>1, <1>2, <1>3 DEF Current, Handed, InCallback

\* Yielding and ending: a callback's fiber leaves to HOLD, or ends without
\* having registered with anybody.
LEMMA LeaveHolds ==
    ASSUME SingleThread, CoreInv, HoldInv, NEW w \in Threads, NEW s \in State \ {"EXEC"},
           pc[w] \in {"body", "hold"}, LeaveBody(w, s),
           ft[w].fiber = None => s = "HOLD" \/ (s \in Ended /\ pc[w] = "body"),
           UNCHANGED <<m_fibers, waiters, ft, cb_fiber, runs, aborted>>
    PROVE  HoldInv'
<1>1. pc[w] \in InBody
  BY ZenonT(60) DEF InBody
<1>2. PICK f : f = Current(w)
  OBVIOUS
<1>3. /\ f \in Tasks
      /\ ft[w].fiber # None => Handed(f)
      /\ ft[w].fiber = None => f = cb_fiber[w] /\ InCallback(w)
      /\ cb_fiber[w] # None => cb_fiber[w] \in Tasks
      /\ \A g \in Tasks \ {f} : m_state[g] # "EXEC"
  BY ZenonT(60), <1>1, <1>2, BodyFiber
<1>4. m_state'[f] = s /\ \A g \in Tasks \ {f} : m_state'[g] = m_state[g]
  BY ZenonT(60), <1>2, <1>3 DEF LeaveBody, CoreInv, TypeOK
<1>5. pc'[w] = "out" /\ s # "EXEC"
  BY ZenonT(60) DEF LeaveBody, CoreInv, TypeOK
<1>6. "out" \notin {"body", "hold"} /\ "out" # "body" /\ "out" \in InBody
  BY ZenonT(60) DEF InBody
<1>7. ExecOK(w)'
  BY ZenonT(60), <1>3, <1>4, <1>5, <1>6 DEF ExecOK
<1>8. \A c \in Tasks : Handed(c)' => Handed(c)
  BY ZenonT(60), HandedStays
<1>9. OwnOK(w) /\ aborted = "no" /\ \A c \in Callbacks : runs[c] = 0 => Unmade(c)
  BY ZenonT(60) DEF HoldInv
<1>10. OwnOK(w)'
  <2>1. CASE ft[w].fiber = None
    <3>1. cb_fiber[w] = f /\ (s = "HOLD" \/ (s \in Ended /\ pc[w] = "body"))
      BY ZenonT(60), <1>3, <2>1
    <3>2. InCallback(w)'
      BY ZenonT(60), <1>5, <1>6, <2>1 DEF InCallback
    <3>3. cb_fiber[w] # None => cb_fiber[w] \in Callbacks
      BY ZenonT(60), <1>9 DEF OwnOK
    <3>4. cb_fiber[w] # None /\ s # "HOLD" => ~Handed(cb_fiber[w])
      BY ZenonT(60), <1>3, <1>9, <2>1, <3>1 DEF OwnOK
    <3>5. cb_fiber[w] # None /\ s # "HOLD" => ~Handed(cb_fiber[w])'
      BY ZenonT(60), <1>3, <1>8, <3>4 DEF Handed
    <3> QED
      BY ZenonT(60), <1>4, <1>5, <1>6, <3>1, <3>2, <3>3, <3>5 DEF OwnOK
  <2>2. CASE ft[w].fiber # None
    <3>1. ~InCallback(w) /\ ~InCallback(w)'
      BY ZenonT(60), <2>2 DEF InCallback
    <3>2. cb_fiber[w] # None => /\ cb_fiber[w] \in Callbacks /\ m_state[cb_fiber[w]] = "INIT"
                                /\ ~Handed(cb_fiber[w])
      BY ZenonT(60), <1>9, <3>1 DEF OwnOK
    <3>3. cb_fiber[w] # None => cb_fiber[w] \in Tasks \ {f}
      BY ZenonT(60), <1>3, <2>2, <3>2
    <3>4. cb_fiber[w] # None => m_state'[cb_fiber[w]] = "INIT" /\ ~Handed(cb_fiber[w])'
      BY ZenonT(60), <1>4, <1>8, <3>2, <3>3 DEF Handed
    <3> QED
      BY ZenonT(60), <3>1, <3>2, <3>4 DEF OwnOK
  <2> QED
    BY ZenonT(60), <2>1, <2>2
<1>11. \A c \in Callbacks : runs'[c] = 0 => ~Handed(c)' /\ cb_fiber'[w] # c
  BY ZenonT(60), <1>8, <1>9 DEF Unmade, Tasks
<1> QED
  BY ZenonT(60), <1>7, <1>9, <1>10, <1>11, HoldOwnStep

LEMMA YieldHolds ==
    ASSUME SingleThread, CoreInv, HoldInv, NEW w \in Threads,
           YieldToReady(w) \/ YieldToHold(w) \/ MainFuncEnd(w)
    PROVE  HoldInv'
<1>1. UNCHANGED <<m_fibers, waiters, ft, cb_fiber, runs, aborted>>
  BY ZenonT(60) DEF YieldToReady, YieldToHold, MainFuncEnd, queueVars
<1>2. ASSUME YieldToReady(w), ft[w].fiber = None
      PROVE  FALSE
  <2>1. pc[w] = "body" /\ m_cb[Current(w)] \in Fibers
    BY ZenonT(60), <1>2 DEF YieldToReady, At, SingleThread
  <2>2. pc[w] \in InBody
    BY ZenonT(60), <2>1 DEF InBody
  <2>3. InCallback(w) /\ Current(w) = cb_fiber[w] /\ cb_fiber[w] # None
    BY ZenonT(60), <1>2, <2>2, BodyFiber
  <2>4. m_cb[Current(w)] \in Callbacks
    BY ZenonT(60), <2>1, <2>3 DEF HoldInv, OwnOK
  <2> QED
    BY ZenonT(60), <2>1, <2>4, SchedulerAssumption
<1>3. PICK s : /\ LeaveBody(w, s) /\ pc[w] \in {"body", "hold"}
               /\ \/ s = "READY" /\ YieldToReady(w)
                  \/ s = "HOLD"
                  \/ s \in Ended /\ pc[w] = "body"
  BY ZenonT(60) DEF YieldToReady, YieldToHold, MainFuncEnd, At
<1>4. s \in State \ {"EXEC"}
  BY ZenonT(60), <1>3 DEF State, Ended
<1> QED
  BY ZenonT(60), <1>1, <1>2, <1>3, <1>4, LeaveHolds

\* Registering: the fiber handed over is the one that executes.
LEMMA RegisterHolds ==
    ASSUME SingleThread, CoreInv, HoldInv, NEW w \in Threads, Register(w)
    PROVE  HoldInv'
<1>1. PICK f : f = Current(w)
  OBVIOUS
<1>2. /\ pc[w] = "body" /\ waiters' = waiters \cup {f} /\ pc' = [pc EXCEPT ![w] = "hold"]
      /\ UNCHANGED <<m_fibers, m_state, m_cb, runs, ft, cb_fiber, aborted>>
  BY ZenonT(60), <1>1 DEF Register, At, queueVars, fiberVars
<1>3. pc[w] \in InBody /\ "hold" \in InBody
  BY ZenonT(60), <1>2 DEF InBody
<1>4. /\ ft[w].fiber # None => Handed(f)
      /\ ft[w].fiber = None => f = cb_fiber[w] /\ InCallback(w)
  BY ZenonT(60), <1>1, <1>3, BodyFiber
<1>5. pc'[w] = "hold" /\ "hold" \notin {"out", "back"} /\ "hold" # "body"
  BY ZenonT(60), <1>2 DEF CoreInv, TypeOK
<1>6. ExecOK(w) /\ OwnOK(w) /\ aborted = "no" /\ \A c \in Callbacks : runs[c] = 0 => Unmade(c)
  BY ZenonT(60) DEF HoldInv
<1>7. ASSUME NEW c, Handed(c)'
      PROVE  Handed(c) \/ c = f
  <2>1. Listed(c)' <=> Listed(c)
    BY ZenonT(60), <1>2, ListedStays
  <2> QED
    BY ZenonT(60), <1>2, <1>7, <2>1 DEF Handed
<1>8. ExecOK(w)'
  BY ZenonT(60), <1>2, <1>5, <1>6 DEF ExecOK, Current
<1>9. OwnOK(w)'
  <2>1. CASE ft[w].fiber = None
    <3>1. InCallback(w)'
      BY ZenonT(60), <1>2, <1>3, <1>5, <2>1 DEF InCallback
    <3>2. cb_fiber[w] # None => cb_fiber[w] \in Callbacks
      BY ZenonT(60), <1>6 DEF OwnOK
    <3> QED
      BY ZenonT(60), <1>2, <1>5, <3>1, <3>2 DEF OwnOK
  <2>2. CASE ft[w].fiber # None
    <3>1. ~InCallback(w) /\ ~InCallback(w)'
      BY ZenonT(60), <1>2, <2>2 DEF InCallback
    <3>2. cb_fiber[w] # None => /\ cb_fiber[w] \in Callbacks /\ m_state[cb_fiber[w]] = "INIT"
                                /\ ~Handed(cb_fiber[w])
      BY ZenonT(60), <1>6, <3>1 DEF OwnOK
    <3>3. cb_fiber[w] # None => ~Handed(cb_fiber[w])'
      BY ZenonT(60), <1>2, <1>4, <1>7, <2>2, <3>2 DEF Handed
    <3> QED
      BY ZenonT(60), <1>2, <3>1, <3>2, <3>3 DEF OwnOK
  <2> QED
    BY ZenonT(60), <2>1, <2>2
<1>10. \A c \in Callbacks : runs'[c] = 0 => ~Handed(c)' /\ cb_fiber'[w] # c
  BY ZenonT(60), <1>2, <1>4, <1>6, <1>7 DEF Unmade
<1> QED
  BY ZenonT(60), <1>2, <1>6, <1>8, <1>9, <1>10, HoldOwnStep

LEMMA BackFiberHolds ==
    ASSUME SingleThread, CoreInv, HoldInv, NEW w \in Threads, BackFiber(w)
    PROVE  HoldInv'
<1>1. PICK f : f = ft[w].fiber
  OBVIOUS
<1>2. /\ pc[w] = "back" /\ f # None /\ Requeue(f)
      /\ m_state' = IF m_state[f] \in Ended \cup {"READY"} THEN m_state
                    ELSE [m_state EXCEPT ![f] = "HOLD"]
      /\ ft' = [ft EXCEPT ![w] = NoEntry] /\ pc' = [pc EXCEPT ![w] = "scan"]
      /\ UNCHANGED <<waiters, m_cb, runs, cb_fiber, aborted>>
  BY ZenonT(60), <1>1 DEF BackFiber, At
<1>3. f \in Tasks /\ None \notin Tasks
  BY ZenonT(60), <1>1, <1>2, SchedulerAssumption DEF CoreInv, TypeOK, Entry
<1>4. /\ pc'[w] = "scan" /\ ft'[w] = NoEntry /\ \A v \in Threads \ {w} : ft'[v] = ft[v]
      /\ m_state'[f] \in {m_state[f], "HOLD"} /\ \A g \in Tasks \ {f} : m_state'[g] = m_state[g]
  BY ZenonT(60), <1>2, <1>3 DEF CoreInv, TypeOK
<1>5. ExecOK(w) /\ OwnOK(w) /\ aborted = "no" /\ \A c \in Callbacks : runs[c] = 0 => Unmade(c)
  BY ZenonT(60) DEF HoldInv
<1>6. \A g \in Tasks : m_state'[g] # "EXEC"
  <2>1. \A g \in Tasks : m_state[g] # "EXEC"
    BY ZenonT(60), <1>2, <1>5 DEF ExecOK
  <2> QED
    BY ZenonT(60), <1>3, <1>4, <2>1
<1>7. ExecOK(w)'
  <2>1. pc'[w] \notin {"body", "hold"}
    BY ZenonT(60), <1>4
  <2> QED
    BY ZenonT(60), <1>6, <2>1 DEF ExecOK
<1>8. Handed(f)
  BY ZenonT(60), <1>1 DEF Handed
<1>9. ASSUME NEW c \in Tasks, Handed(c)'
      PROVE  Handed(c)
  <2>1. Listed(c)' => Listed(c) \/ c = f
    <3>1. CASE UNCHANGED m_fibers
      BY ZenonT(60), <3>1, ListedStays
    <3>2. CASE schedule(FiberEntry(f, AnyThread))
      <4>1. PICK n : /\ DOMAIN m_fibers' = DOMAIN m_fibers \cup {n}
                     /\ m_fibers'[n] = FiberEntry(f, AnyThread)
                     /\ \A i \in DOMAIN m_fibers : m_fibers'[i] = m_fibers[i]
        BY ZenonT(60), <3>2, Appended DEF CoreInv
      <4>2. m_fibers'[n].fiber = f
        BY ZenonT(60), <4>1, EntryFiber
      <4> QED
        BY ZenonT(60), <4>1, <4>2 DEF Listed
    <3> QED
      BY ZenonT(60), <1>2, <3>1, <3>2 DEF Requeue
  <2>2. \A v \in Threads : ft'[v].fiber = c => ft[v].fiber = c
    BY ZenonT(60), <1>3, <1>4, NoFiber
  <2> QED
    BY ZenonT(60), <1>2, <1>8, <1>9, <2>1, <2>2 DEF Handed
<1>10. ~InCallback(w) /\ ~InCallback(w)'
  BY ZenonT(60), <1>1, <1>2, <1>4 DEF InCallback, InBody
<1>11. OwnOK(w)'
  <2>1. cb_fiber[w] # None => /\ cb_fiber[w] \in Callbacks /\ m_state[cb_fiber[w]] = "INIT"
                              /\ ~Handed(cb_fiber[w])
    BY ZenonT(60), <1>5, <1>10 DEF OwnOK
  <2>2. cb_fiber[w] # None => cb_fiber[w] \in Tasks \ {f}
    BY ZenonT(60), <1>8, <2>1 DEF Tasks
  <2>3. cb_fiber[w] # None => m_state'[cb_fiber[w]] = "INIT" /\ ~Handed(cb_fiber[w])'
    BY ZenonT(60), <1>2, <1>4, <1>9, <2>1, <2>2 DEF Handed
  <2> QED
    BY ZenonT(60), <1>2, <1>10, <2>1, <2>3 DEF OwnOK
<1>12. \A c \in Callbacks : runs'[c] = 0 => ~Handed(c)' /\ cb_fiber'[w] # c
  BY ZenonT(60), <1>2, <1>5, <1>9 DEF Unmade, Tasks
<1> QED
  BY ZenonT(60), <1>2, <1>5, <1>7, <1>11, <1>12, HoldOwnStep

\* After a callback: run() resets a fiber nobody else has, and gives up one
\* that yielded to HOLD.
LEMMA BackCbHolds ==
    ASSUME SingleThread, CoreInv, HoldInv, NEW w \in Threads, BackCb(w)
    PROVE  HoldInv'
<1>1. PICK f : f = cb_fiber[w]
  OBVIOUS
<1>2. /\ pc[w] = "back" /\ ft[w].fiber = None /\ Requeue(f) /\ pc' = [pc EXCEPT ![w] = "scan"]
      /\ UNCHANGED <<waiters, runs, ft, aborted>>
      /\ \/ m_state[f] = "READY"
         \/ m_state[f] \in Ended /\ m_state' = [m_state EXCEPT ![f] = "INIT"] /\ cb_fiber' = cb_fiber
         \/ /\ m_state[f] \notin Ended
            /\ m_state' = [m_state EXCEPT ![f] = "HOLD"]
            /\ cb_fiber' = [cb_fiber EXCEPT ![w] = None]
  BY ZenonT(60), <1>1 DEF BackCb, At
<1>3. pc[w] \in InBody
  BY ZenonT(60), <1>2 DEF InBody
<1>4. InCallback(w) /\ f \in Tasks /\ f # None
  BY ZenonT(60), <1>1, <1>2, <1>3, BodyFiber
<1>5. ExecOK(w) /\ OwnOK(w) /\ aborted = "no" /\ \A c \in Callbacks : runs[c] = 0 => Unmade(c)
  BY ZenonT(60) DEF HoldInv
<1>6. f \in Callbacks /\ (m_state[f] = "HOLD" \/ (m_state[f] \in Ended /\ ~Handed(f)))
  BY ZenonT(60), <1>1, <1>2, <1>4, <1>5 DEF OwnOK
<1>7. m_state[f] # "READY"
  BY ZenonT(60), <1>6 DEF Ended
<1>8. m_fibers' = m_fibers
  BY ZenonT(60), <1>2, <1>7 DEF Requeue
<1>9. \A c \in Tasks : Handed(c)' => Handed(c)
  BY ZenonT(60), <1>2, <1>8, HandedStays
<1>10. /\ \/ m_state[f] \in Ended /\ m_state'[f] = "INIT" /\ cb_fiber'[w] = f
          \/ m_state'[f] = "HOLD" /\ cb_fiber'[w] = None
       /\ \A g \in Tasks \ {f} : m_state'[g] = m_state[g]
       /\ pc'[w] = "scan"
  BY ZenonT(60), <1>1, <1>2, <1>4, <1>7 DEF CoreInv, TypeOK
<1>11. ExecOK(w)'
  <2>1. \A g \in Tasks : m_state[g] # "EXEC"
    BY ZenonT(60), <1>2, <1>5 DEF ExecOK
  <2>2. pc'[w] \notin {"body", "hold"} /\ \A g \in Tasks : m_state'[g] # "EXEC"
    BY ZenonT(60), <1>4, <1>10, <2>1
  <2> QED
    BY ZenonT(60), <2>2 DEF ExecOK
<1>12. ~InCallback(w)'
  BY ZenonT(60), <1>10 DEF InCallback, InBody
<1>13. OwnOK(w)'
  <2>1. CASE cb_fiber'[w] = None
    BY ZenonT(60), <2>1 DEF OwnOK
  <2>2. CASE m_state[f] \in Ended /\ m_state'[f] = "INIT" /\ cb_fiber'[w] = f
    <3>1. "HOLD" \notin Ended
      BY ZenonT(60) DEF Ended
    <3>2. ~Handed(f) /\ cb_fiber'[w] = cb_fiber[w]
      BY ZenonT(60), <1>1, <1>6, <2>2, <3>1
    <3>3. ~Handed(cb_fiber[w])'
      BY ZenonT(60), <1>1, <1>4, <1>9, <3>2 DEF Handed
    <3> QED
      BY ZenonT(60), <1>6, <1>12, <2>2, <3>3 DEF OwnOK
  <2> QED
    BY ZenonT(60), <1>10, <2>1, <2>2
<1>14. \A c \in Callbacks : runs'[c] = 0 => ~Handed(c)' /\ cb_fiber'[w] # c
  <2>1. None \notin Callbacks
    BY ZenonT(60), SchedulerAssumption DEF Tasks
  <2> QED
    BY ZenonT(60), <1>1, <1>2, <1>5, <1>9, <1>10, <2>1 DEF Unmade, Tasks
<1> QED
  BY ZenonT(60), <1>2, <1>5, <1>11, <1>13, <1>14, HoldOwnStep

LEMMA HoldInvNext ==
    ASSUME SingleThread
    PROVE  CoreInv /\ CallbackInv /\ HoldInv /\ [Next]_vars => HoldInv'
<1> SUFFICES ASSUME CoreInv, CallbackInv, HoldInv, [Next]_vars
             PROVE  HoldInv'
  OBVIOUS
<1>1. ASSUME NEW w \in Threads, run(w)
      PROVE  HoldInv'
  BY ZenonT(60), <1>1, ClientHolds, TakeHolds, QuietThreadHolds, DispatchFiberHolds,
     DispatchCbHolds, YieldHolds, RegisterHolds, BackFiberHolds, BackCbHolds DEF run, BodyStep
<1> QED
  BY ZenonT(60), <1>1, ClientHolds, StartStopHolds DEF Next, Terminated

LEMMA HoldInvInit == Init => HoldInv
<1> SUFFICES ASSUME Init PROVE HoldInv
  OBVIOUS
<1>0. DOMAIN << >> = {}
  OBVIOUS
<1>1. /\ DOMAIN m_fibers = {} /\ \A w \in Threads : ft[w].fiber = None /\ pc[w] = "off"
      /\ \A w \in Threads : cb_fiber[w] = None
      /\ \A f \in Tasks : m_state[f] # "EXEC"
  BY ZenonT(60), <1>0, NoFiber DEF Init
<1>2. "off" \notin {"body", "hold"} /\ None \notin Callbacks
  BY ZenonT(60), SchedulerAssumption DEF Tasks
<1>3. \A w \in Threads : ExecOK(w) /\ OwnOK(w)
  BY ZenonT(60), <1>1, <1>2 DEF ExecOK, OwnOK
<1>4. \A c \in Callbacks : Unmade(c)
  BY ZenonT(60), <1>1, <1>2 DEF Unmade, Handed, Listed, Init
<1> QED
  BY ZenonT(60), <1>3, <1>4 DEF HoldInv, Init

LEMMA HoldAsserts == CoreInv /\ HoldInv => NoAssertFails
<1> SUFFICES ASSUME CoreInv, HoldInv PROVE NoAssertFails
  OBVIOUS
<1>1. ASSUME NEW w \in Threads, pc[w] \in {"body", "hold"}
      PROVE  m_state[Current(w)] = "EXEC"
  <2>1. pc[w] \in InBody
    BY ZenonT(60), <1>1 DEF InBody
  <2> QED
    BY ZenonT(60), <1>1, <2>1, BodyFiber DEF HoldInv, ExecOK
<1> QED
  BY ZenonT(60), <1>1 DEF NoAssertFails, HoldInv

\* With one thread the assertions hold for every client whose callbacks do
\* not yield to READY: tasks may register with somebody and yield to HOLD, be
\* woken at any time after that, also before they have yielded, and a
\* Fiber::ptr may be in the list twice.
THEOREM OneThreadAsserts ==
    ASSUME SingleThread
    PROVE  Spec => []NoAssertFails
<1>1. CoreInv /\ CallbackInv /\ HoldInv /\ [Next]_vars => HoldInv'
  BY HoldInvNext
<1> QED
  BY <1>1, HoldInvInit, HoldAsserts, CoreInvAlways, CallbackInvAlways, PTL DEF Spec
=============================================================================
