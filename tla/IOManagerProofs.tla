-------------------------- MODULE IOManagerProofs --------------------------
(***************************************************************************)
(* Proofs about IOManager for any numbers of threads, descriptors, fibers  *)
(* and callbacks, closing and reopening descriptors included; two of them  *)
(* are for a single thread.                                                *)
(***************************************************************************)
EXTENDS IOManager, FiniteSetTheorems, TLAPS

\* The registered events.
Registered == {p \in Fds \X Event : p[2] \in events[p[1]]}

\* What epoll knows of a descriptor is what was registered since it was
\* opened, and then also what its context says.
InterestOK ==
    \A fd \in Fds :
        /\ interest[fd] = mine[fd]
        /\ interest[fd] # {} => fd \in open /\ events[fd] = interest[fd]

\* Only a thread between epoll_wait and the end of its loop has events.
GotOK == \A w \in Threads : pc[w] \notin {"expire", "events"} => got[w] = Nothing

\* EdgeNotLost for each event: handling a report takes care of the events
\* in the report only.
EdgeKept ==
    \A fd \in Fds, e \in Event : e \in mine[fd] \cap ready[fd] =>
        fd \in rdllist \/ \E w \in Threads : e \in got[w][fd]

EdgeInv == aborted = "no" => InterestOK /\ GotOK /\ EdgeKept

IOInv == TypeOK /\ PendingExact

USE SMTT(60), ZenonT(60), SMTT(90), SMTT(120)
    DEF fdVars, epollVars, threadVars, taskVars, envVars, onlyPc

-----------------------------------------------------------------------------
(* Counting.                                                               *)

LEMMA EventFinite == IsFiniteSet(Event)
<1>1. IsFiniteSet({"READ"})
  BY ZenonT(60), FS_Singleton
<1>2. IsFiniteSet({"READ"} \cup {"WRITE"})
  BY <1>1, FS_AddElement
<1>3. {"READ"} \cup {"WRITE"} = Event
  BY DEF Event
<1> QED
  BY <1>2, <1>3

LEMMA RegisteredFinite ==
    IsFiniteSet(Registered) /\ Cardinality(Registered) \in Nat
<1>2. IsFiniteSet(Fds \X Event)
  BY EventFinite, FS_Product, IOAssumption
<1>3. Registered \in SUBSET (Fds \X Event)
  BY DEF Registered
<1> QED
  BY <1>2, <1>3, FS_Subset, FS_CardinalityType

LEMMA CountAdd ==
    ASSUME events \in [Fds -> SUBSET Event], NEW fd \in Fds, NEW e \in Event,
           e \notin events[fd], events' = [events EXCEPT ![fd] = @ \cup {e}]
    PROVE  Cardinality(Registered') = Cardinality(Registered) + 1
<1>1. Registered' = Registered \cup {<<fd, e>>}
  BY DEF Registered
<1>2. <<fd, e>> \notin Registered
  BY DEF Registered
<1> QED
  BY ZenonT(60), <1>1, <1>2, RegisteredFinite, FS_AddElement

LEMMA CountRemove ==
    ASSUME events \in [Fds -> SUBSET Event], NEW fd \in Fds,
           NEW E \in SUBSET events[fd], events' = [events EXCEPT ![fd] = @ \ E]
    PROVE  /\ Cardinality(Registered') = Cardinality(Registered) - Cardinality(E)
           /\ Cardinality(E) \in Nat
<1>1. Registered' = Registered \ ({fd} \X E)
  BY DEF Registered
<1>2. Registered \cap ({fd} \X E) = {fd} \X E
  BY DEF Registered
<1>3. IsFiniteSet(E) /\ Cardinality(E) \in Nat
  BY EventFinite, E \in SUBSET Event, FS_Subset, FS_CardinalityType
<1>4. Cardinality({fd} \X E) = Cardinality(E)
  <2>1. IsFiniteSet({fd}) /\ Cardinality({fd}) = 1
    BY ZenonT(60), FS_Singleton
  <2>2. Cardinality({fd} \X E) = Cardinality({fd}) * Cardinality(E)
    BY <1>3, <2>1, FS_Product
  <2> QED
    BY <1>3, <2>1, <2>2
<1>5. Cardinality(Registered \ ({fd} \X E))
        = Cardinality(Registered) - Cardinality(Registered \cap ({fd} \X E))
  BY ZenonT(60), RegisteredFinite, FS_Difference
<1> QED
  BY ZenonT(60), <1>1, <1>2, <1>3, <1>4, <1>5

\* PendingExact in terms of Registered.
Waiters == \A fd \in Fds, e \in Event : e \in events[fd] <=> ctx[fd][e] # None

LEMMA PendingIs == PendingExact <=> m_pendingEventCount = Cardinality(Registered) /\ Waiters
  BY DEF PendingExact, Registered, Waiters

LEMMA PendingIsNext ==
    PendingExact' <=> m_pendingEventCount' = Cardinality(Registered') /\ Waiters'
  BY DEF PendingExact, Registered, Waiters

\* The variables of the contexts, and what follows when nobody touches them.
FdTypes ==
    /\ events \in [Fds -> SUBSET Event]
    /\ mine \in [Fds -> SUBSET Event]
    /\ ctx \in [Fds -> [Event -> Tasks \cup {None}]]
    /\ m_pendingEventCount \in Nat

LEMMA FdUntouched ==
    ASSUME IOInv, UNCHANGED <<events, ctx, m_pendingEventCount>>,
           mine' \in [Fds -> SUBSET Event]
    PROVE  FdTypes' /\ PendingExact'
  BY DEF IOInv, TypeOK, FdTypes, PendingExact

\* addEvent's assignments.
LEMMA AddStep ==
    ASSUME IOInv, NEW fd \in Fds, NEW e \in Event, NEW x \in Tasks,
           e \notin events[fd],
           m_pendingEventCount' = m_pendingEventCount + 1,
           events' = [events EXCEPT ![fd] = @ \cup {e}],
           mine' = [mine EXCEPT ![fd] = @ \cup {e}],
           ctx' = [ctx EXCEPT ![fd][e] = x]
    PROVE  FdTypes' /\ PendingExact'
<1>1. FdTypes'
  BY DEF IOInv, TypeOK, FdTypes
<1>2. m_pendingEventCount' = Cardinality(Registered')
  BY ZenonT(60), CountAdd, PendingIs, RegisteredFinite DEF IOInv, TypeOK
<1>3. Waiters'
  BY PendingIs, IOAssumption DEF IOInv, TypeOK, Waiters
<1> QED
  BY <1>1, <1>2, <1>3, PendingIsNext

\* Those of triggerEvent (and, without the scheduling, of delEvent).
LEMMA DropStep ==
    ASSUME IOInv, NEW fd \in Fds, NEW E \in SUBSET events[fd],
           m_pendingEventCount' = m_pendingEventCount - Cardinality(E),
           events' = [events EXCEPT ![fd] = @ \ E],
           mine' = [mine EXCEPT ![fd] = @ \ E],
           ctx' = [ctx EXCEPT ![fd] = [e \in Event |-> IF e \in E THEN None ELSE @[e]]]
    PROVE  FdTypes' /\ PendingExact'
<1>1. /\ events' \in [Fds -> SUBSET Event]
      /\ mine' \in [Fds -> SUBSET Event]
      /\ ctx' \in [Fds -> [Event -> Tasks \cup {None}]]
  BY DEF IOInv, TypeOK
<1>2. m_pendingEventCount' = Cardinality(Registered')
  BY ZenonT(60), CountRemove, PendingIs, RegisteredFinite DEF IOInv, TypeOK
<1>3. m_pendingEventCount' \in Nat
  <2>1. Registered' \in SUBSET Registered
    BY DEF Registered, IOInv, TypeOK
  <2> QED
    BY <1>2, <2>1, RegisteredFinite, FS_Subset, FS_CardinalityType
<1>4. Waiters'
  BY PendingIs DEF IOInv, TypeOK, Waiters
<1> QED
  BY <1>1, <1>2, <1>3, <1>4, PendingIsNext DEF FdTypes

-----------------------------------------------------------------------------
(* Types and counting, per action.                                         *)

OtherTypes ==
    /\ m_fibers \subseteq Tasks
    /\ timers \subseteq Callbacks /\ due \subseteq timers
    /\ stopped \in BOOLEAN /\ late \subseteq Callbacks
    /\ interest \in [Fds -> SUBSET Event]
    /\ ready \in [Fds -> SUBSET (Event \cup {"HUP"})]
    /\ rdllist \subseteq Fds
    /\ pipe \in BOOLEAN
    /\ open \subseteq Fds
    /\ pc \in [Threads -> {"scan", "body", "hold", "empty", "timers",
                           "pending", "base", "wait", "expire", "events",
                           "exit"}]
    /\ cur \in [Threads -> Tasks \cup {None}]
    /\ got \in [Threads -> [Fds -> SUBSET (Event \cup {"HUP"})]]
    /\ woken \subseteq Threads /\ ended \subseteq Threads
    /\ fresh \subseteq Tasks
    /\ ops \in 0..MaxOps
    /\ aborted \in {"no", "addEvent", "triggerEvent"}

LEMMA TypesAre == TypeOK <=> FdTypes /\ OtherTypes
  BY DEF TypeOK, FdTypes, OtherTypes

LEMMA TypesAreNext == TypeOK' <=> FdTypes' /\ OtherTypes'
  BY DEF TypeOK, FdTypes, OtherTypes

\* A waiter of a registered event is a task.
LEMMA WaitersAreTasks ==
    ASSUME IOInv, NEW fd \in Fds, NEW E \in SUBSET events[fd]
    PROVE  {ctx[fd][e] : e \in E} \subseteq Tasks
  BY PendingIs DEF IOInv, TypeOK, Waiters

LEMMA TriggerStep ==
    ASSUME IOInv, NEW fd \in Fds, NEW E \in SUBSET events[fd], triggerEvents(fd, E)
    PROVE  FdTypes' /\ PendingExact' /\ m_fibers' \subseteq Tasks /\ pipe' \in BOOLEAN
<1>1. FdTypes' /\ PendingExact'
  BY ZenonT(60), DropStep DEF triggerEvents, Trigger
<1>2. m_fibers' \subseteq Tasks /\ pipe' \in BOOLEAN
  BY ZenonT(60), WaitersAreTasks
     DEF IOInv, TypeOK, triggerEvents, Trigger, schedule, tickle
<1> QED
  BY <1>1, <1>2

LEMMA CtlTypes ==
    ASSUME TypeOK, NEW fd \in Fds, NEW mask \in SUBSET Event, epoll_ctl(fd, mask)
    PROVE  interest' \in [Fds -> SUBSET Event] /\ rdllist' \subseteq Fds
  BY DEF TypeOK, epoll_ctl

LEMMA AddEventTypes ==
    ASSUME IOInv, NEW w \in Threads, NEW fd \in Fds, NEW e \in Event,
           NEW x \in Tasks, addEvent(w, fd, e, x)
    PROVE  IOInv'
<1>1. CASE UNCHANGED <<fdVars, epollVars, pc>>
  <2>1. FdTypes' /\ PendingExact'
    BY ZenonT(60), <1>1, FdUntouched DEF IOInv, TypeOK
  <2>2. OtherTypes'
    BY <1>1, IOAssumption DEF IOInv, TypeOK, OtherTypes, addEvent, Op
  <2> QED
    BY <2>1, <2>2, TypesAreNext DEF IOInv
<1>2. CASE ~UNCHANGED <<fdVars, epollVars, pc>>
  <2>1. FdTypes' /\ PendingExact'
    BY <1>2, AddStep DEF addEvent
  <2>2. interest' \in [Fds -> SUBSET Event] /\ rdllist' \subseteq Fds
    <3>1. events[fd] \cup {e} \in SUBSET Event
      BY DEF IOInv, TypeOK
    <3>2. epoll_ctl(fd, events[fd] \cup {e})
      BY <1>2 DEF addEvent
    <3> QED
      BY <3>1, <3>2, CtlTypes DEF IOInv
  <2>3. aborted' = aborted /\ pc' \in [Threads -> {"scan", "body", "hold", "empty",
            "timers", "pending", "base", "wait", "expire", "events", "exit"}]
    <3>1. aborted' = aborted /\ (Goto(w, "hold") \/ UNCHANGED pc)
      BY ZenonT(60), <1>2 DEF addEvent
    <3> QED
      BY ZenonT(60), <3>1 DEF IOInv, TypeOK, Goto
  <2>4. fresh' \subseteq Tasks /\ ops' \in 0..MaxOps
    BY IOAssumption DEF IOInv, TypeOK, addEvent, Op
  <2>5. UNCHANGED <<cur, got, woken, ended, m_fibers, timers, due, pipe, ready,
                    open, stopped, late>>
    BY DEF addEvent
  <2>6. OtherTypes'
    BY <2>2, <2>3, <2>4, <2>5 DEF IOInv, TypeOK, OtherTypes
  <2> QED
    BY <2>1, <2>6, TypesAreNext DEF IOInv
<1> QED
  BY <1>1, <1>2

LEMMA CancelTypes ==
    ASSUME IOInv, NEW w \in Threads, NEW fd \in Fds, NEW E, cancel(w, fd, E)
    PROVE  IOInv'
<1>1. CASE CtlFails(fd, events[fd])
  <2>1. FdTypes' /\ PendingExact'
    BY ZenonT(60), <1>1, FdUntouched DEF IOInv, TypeOK, cancel
  <2>2. OtherTypes'
    BY <1>1, IOAssumption DEF IOInv, TypeOK, OtherTypes, cancel, Op
  <2> QED
    BY ZenonT(60), <2>1, <2>2, TypesAreNext DEF IOInv
<1>2. CASE ~CtlFails(fd, events[fd])
  <2>1. FdTypes' /\ PendingExact' /\ m_fibers' \subseteq Tasks /\ pipe' \in BOOLEAN
    BY ZenonT(60), <1>2, TriggerStep DEF cancel
  <2>2. interest' \in [Fds -> SUBSET Event] /\ rdllist' \subseteq Fds
    BY ZenonT(60), <1>2, CtlTypes, events[fd] \ E \in SUBSET Event
       DEF cancel, IOInv, TypeOK
  <2>3. OtherTypes'
    BY <2>1, <2>2, IOAssumption DEF IOInv, TypeOK, OtherTypes, cancel, Op
  <2> QED
    BY <2>1, <2>3, TypesAreNext DEF IOInv
<1> QED
  BY <1>1, <1>2

LEMMA DeleteTypes ==
    ASSUME IOInv, NEW w \in Threads, NEW fd \in Fds, NEW e \in Event,
           delEvent(w, fd, e)
    PROVE  IOInv'
<1> USE DEF delEvent, delete
<1>1. CASE CtlFails(fd, events[fd])
  <2>1. FdTypes' /\ PendingExact'
    BY ZenonT(60), <1>1, FdUntouched DEF IOInv, TypeOK
  <2>2. OtherTypes'
    BY <1>1, IOAssumption DEF IOInv, TypeOK, OtherTypes, Op
  <2> QED
    BY ZenonT(60), <2>1, <2>2, TypesAreNext DEF IOInv
<1>2. CASE ~CtlFails(fd, events[fd])
  <2>1. Cardinality({e}) = 1
    BY ZenonT(60), FS_Singleton
  <2>2. ctx' = [ctx EXCEPT ![fd] = [f \in Event |-> IF f \in {e} THEN None ELSE @[f]]]
    BY <1>2 DEF IOInv, TypeOK
  <2>3. FdTypes' /\ PendingExact'
    BY ZenonT(60), <1>2, <2>1, <2>2, DropStep, {e} \in SUBSET events[fd]
  <2>4. interest' \in [Fds -> SUBSET Event] /\ rdllist' \subseteq Fds
    BY ZenonT(60), <1>2, CtlTypes, events[fd] \ {e} \in SUBSET Event DEF IOInv, TypeOK
  <2>5. OtherTypes'
    BY <2>4, IOAssumption DEF IOInv, TypeOK, OtherTypes, Op
  <2> QED
    BY <2>3, <2>5, TypesAreNext DEF IOInv
<1> QED
  BY <1>1, <1>2

LEMMA HandleTypes ==
    ASSUME IOInv, NEW w \in Threads, NEW fd \in Fds, HandleEvent(w, fd)
    PROVE  IOInv'
<1> DEFINE real == real_events(fd, got[w][fd])
           skip == events[fd] \cap real = {}
<1>1. Handle(w, fd, skip, events[fd] \ real, real)
  BY DEF HandleEvent
<1> HIDE DEF real, skip
<1>2. got' \in [Threads -> [Fds -> SUBSET (Event \cup {"HUP"})]]
  BY <1>1 DEF IOInv, TypeOK, Handle
<1>3. CASE skip \/ CtlFails(fd, events[fd])
  <2>1. FdTypes' /\ PendingExact'
    BY ZenonT(60), <1>1, <1>3, FdUntouched DEF IOInv, TypeOK, Handle
  <2>2. OtherTypes'
    BY ZenonT(60), <1>1, <1>2, <1>3 DEF IOInv, TypeOK, OtherTypes, Handle
  <2> QED
    BY ZenonT(60), <2>1, <2>2, TypesAreNext DEF IOInv
<1>4. CASE ~(skip \/ CtlFails(fd, events[fd]))
  <2>1. interest' \in [Fds -> SUBSET Event] /\ rdllist' \subseteq Fds
    <3>1. events[fd] \ real \in SUBSET Event
      BY DEF IOInv, TypeOK
    <3> QED
      BY ZenonT(60), <1>1, <1>4, <3>1, CtlTypes DEF IOInv, Handle
  <2>2. CASE real \subseteq events[fd]
    <3>1. FdTypes' /\ PendingExact' /\ m_fibers' \subseteq Tasks /\ pipe' \in BOOLEAN
      BY ZenonT(60), <1>1, <1>4, <2>2, TriggerStep DEF Handle
    <3>2. OtherTypes'
      BY ZenonT(60), <1>1, <1>2, <1>4, <2>1, <2>2, <3>1
         DEF IOInv, TypeOK, OtherTypes, Handle
    <3> QED
      BY ZenonT(60), <3>1, <3>2, TypesAreNext DEF IOInv
  <2>3. CASE ~(real \subseteq events[fd])
    <3>1. FdTypes' /\ PendingExact'
      BY ZenonT(60), <1>1, <1>4, <2>3, FdUntouched DEF IOInv, TypeOK, Handle
    <3>2. OtherTypes'
      BY ZenonT(60), <1>1, <1>2, <1>4, <2>1, <2>3 DEF IOInv, TypeOK, OtherTypes, Handle
    <3> QED
      BY <3>1, <3>2, TypesAreNext DEF IOInv
  <2> QED
    BY ZenonT(60), <2>2, <2>3
<1> QED
  BY ZenonT(60), <1>3, <1>4

\* An operation counts towards the bound of the model.
LEMMA OpTypes ==
    ASSUME IOInv, NEW w \in Threads, Op(w)
    PROVE  ops' \in 0..MaxOps
  BY IOAssumption DEF IOInv, TypeOK, OtherTypes, Op

LEMMA ReadyTypes ==
    ASSUME IOInv, NEW fd \in Fds, NEW S \in SUBSET (Event \cup {"HUP"}),
           ready' = [ready EXCEPT ![fd] = S]
    PROVE  ready' \in [Fds -> SUBSET (Event \cup {"HUP"})]
  BY DEF IOInv, TypeOK, OtherTypes

LEMMA ReadyIs ==
    ASSUME IOInv, NEW fd \in Fds
    PROVE  ready[fd] \in SUBSET (Event \cup {"HUP"})
  BY DEF IOInv, TypeOK, OtherTypes

\* The actions that leave the contexts alone.
LEMMA BodyTypes ==
    ASSUME IOInv, NEW w \in Threads,
           \/ \E fd \in Fds, e \in Event : Drain(w, fd, e)
           \/ \E fd \in Fds : Close(w, fd) \/ Reopen(w, fd)
           \/ \E c \in Callbacks : addTimer(w, c)
           \/ Leave(w)
           \/ \E x \in Tasks : Take(w, x)
           \/ TakeNothing(w)
           \/ EnterIdle(w)
    PROVE  IOInv'
<1>1. FdTypes' /\ PendingExact'
  BY ZenonT(60), FdUntouched
     DEF IOInv, TypeOK, Drain, Close, Reopen, addTimer, InsertTimer, Leave, Take,
     TakeNothing, EnterIdle
<1>2. OtherTypes'
  <2> USE DEF IOInv, TypeOK, OtherTypes, At, Goto, tickle
  <2>1. CASE \E fd \in Fds, e \in Event : Drain(w, fd, e)
    <3>1. ops' \in 0..MaxOps
      BY ZenonT(60), <2>1, OpTypes DEF Drain
    <3>2. ready' \in [Fds -> SUBSET (Event \cup {"HUP"})]
      <4> HIDE DEF IOInv, TypeOK, OtherTypes, At, Goto, tickle
      <4>1. PICK fd \in Fds, e \in Event : Drain(w, fd, e)
        BY ZenonT(60), <2>1
      <4>2. ready[fd] \ {e} \in SUBSET (Event \cup {"HUP"})
        BY ReadyIs
      <4>3. ready' = [ready EXCEPT ![fd] = ready[fd] \ {e}]
        BY <4>1 DEF Drain
      <4> QED
        BY ZenonT(60), <4>2, <4>3, ReadyTypes
    <3> QED
      BY ZenonT(60), <2>1, <3>1, <3>2 DEF Drain
  <2>2. CASE \E fd \in Fds : Close(w, fd)
    <3>1. ops' \in 0..MaxOps
      BY ZenonT(60), <2>2, OpTypes DEF Close
    <3> QED
      BY ZenonT(60), <2>2, <3>1 DEF Close
  <2>3. CASE \E fd \in Fds : Reopen(w, fd)
    <3>1. ops' \in 0..MaxOps
      BY ZenonT(60), <2>3, OpTypes DEF Reopen
    <3> QED
      BY ZenonT(60), <2>3, <3>1 DEF Reopen
  <2>4. CASE \E c \in Callbacks : addTimer(w, c)
    <3>1. ops' \in 0..MaxOps
      BY ZenonT(60), <2>4, OpTypes DEF addTimer, InsertTimer
    <3> QED
      BY ZenonT(60), <2>4, <3>1 DEF addTimer, InsertTimer
  <2>5. CASE Leave(w)
    BY ZenonT(60), <2>5 DEF Leave
  <2>6. ASSUME NEW x \in Tasks, Take(w, x) PROVE OtherTypes'
    <3>1. m_fibers' \subseteq Tasks /\ pipe' \in BOOLEAN
      BY ZenonT(60), <2>6 DEF Take
    <3>2. cur' = [cur EXCEPT ![w] = x] /\ pc' = [pc EXCEPT ![w] = "body"]
      BY ZenonT(60), <2>6 DEF Take
    <3>3. UNCHANGED <<interest, rdllist, got, woken, ended, timers, due, fresh,
                      envVars>>
      BY <2>6 DEF Take
    <3> QED
      BY <3>1, <3>2, <3>3
  <2>7. CASE TakeNothing(w) \/ EnterIdle(w)
    BY ZenonT(60), <2>7 DEF TakeNothing, EnterIdle
  <2> HIDE DEF IOInv, TypeOK, OtherTypes, At, Goto, tickle
  <2> QED
    BY <2>1, <2>2, <2>3, <2>4, <2>5, <2>6, <2>7
<1> QED
  BY <1>1, <1>2, TypesAreNext DEF IOInv

LEMMA IdleTypes ==
    ASSUME IOInv, NEW w \in Threads,
           \/ stoppingTimers(w) \/ stoppingPending(w) \/ stoppingBase(w)
           \/ epoll_wait(w) \/ TimedOut(w) \/ listExpireCb(w) \/ ReadPipe(w)
           \/ LeaveIdle(w)
    PROVE  IOInv'
<1>1. FdTypes' /\ PendingExact'
  BY ZenonT(60), FdUntouched
     DEF IOInv, TypeOK, stoppingTimers, stoppingPending, stopping,
     stoppingBase, EndIdle, epoll_wait, TimedOut, listExpireCb, ReadPipe, LeaveIdle
<1>2. OtherTypes'
  <2> USE DEF IOInv, TypeOK, OtherTypes, At, Goto, tickle, schedule
  <2>1. CASE stoppingTimers(w) \/ stoppingPending(w)
    BY <2>1 DEF stoppingTimers, stoppingPending, stopping
  <2>2. CASE stoppingBase(w)
    BY ZenonT(60), <2>2 DEF stoppingBase, EndIdle
  <2>3. CASE epoll_wait(w)
    BY ZenonT(60), <2>3 DEF epoll_wait, Reported
  <2>4. CASE TimedOut(w) \/ LeaveIdle(w)
    BY ZenonT(60), <2>4 DEF TimedOut, LeaveIdle
  <2>5. CASE listExpireCb(w)
    BY ZenonT(60), <2>5 DEF listExpireCb, Tasks
  <2>6. CASE ReadPipe(w)
    BY ZenonT(60), <2>6 DEF ReadPipe
  <2> HIDE DEF IOInv, TypeOK, OtherTypes, At, Goto, tickle, schedule
  <2> QED
    BY ZenonT(60), <2>1, <2>2, <2>3, <2>4, <2>5, <2>6
<1> QED
  BY <1>1, <1>2, TypesAreNext DEF IOInv

LEMMA EnvTypes ==
    ASSUME IOInv,
           \/ \E x \in Tasks : ClientSchedule(x)
           \/ \E c \in Callbacks : ClientAddTimer(c) \/ Due(c)
           \/ \E fd \in Fds : \E r \in Uses[fd] \cup {"HUP"} : Arrive(fd, r)
           \/ stop
           \/ UNCHANGED vars
    PROVE  IOInv'
<1>1. FdTypes' /\ PendingExact'
  BY ZenonT(60), FdUntouched
     DEF IOInv, TypeOK, ClientSchedule, ClientAddTimer, InsertTimer, Due, Arrive, stop, vars
<1>2. OtherTypes'
  <2> USE IOAssumption DEF IOInv, TypeOK, OtherTypes, tickle, schedule
  <2>1. CASE \E x \in Tasks : ClientSchedule(x)
    BY ZenonT(60), <2>1 DEF ClientSchedule
  <2>2. CASE \E c \in Callbacks : Due(c)
    BY <2>2 DEF Due
  <2>6. ASSUME NEW c \in Callbacks, ClientAddTimer(c) PROVE OtherTypes'
    BY ZenonT(60), <2>6 DEF ClientAddTimer, InsertTimer
  <2>3. CASE \E fd \in Fds : \E r \in Uses[fd] \cup {"HUP"} : Arrive(fd, r)
    <3>1. ready' \in [Fds -> SUBSET (Event \cup {"HUP"})]
      <4> HIDE DEF IOInv, TypeOK, OtherTypes, tickle, schedule
      <4>1. PICK fd \in Fds, r \in Event \cup {"HUP"} : Arrive(fd, r)
        BY <2>3, IOAssumption
      <4>2. ready[fd] \cup {r} \in SUBSET (Event \cup {"HUP"})
        BY ZenonT(60), ReadyIs
      <4>3. ready' = [ready EXCEPT ![fd] = ready[fd] \cup {r}]
        BY ZenonT(60), <4>1 DEF Arrive
      <4> QED
        BY ZenonT(60), <4>2, <4>3, ReadyTypes
    <3> QED
      BY ZenonT(60), <2>3, <3>1 DEF Arrive
  <2>4. CASE stop
    BY ZenonT(60), <2>4 DEF stop
  <2>5. CASE UNCHANGED vars
    BY <2>5 DEF vars
  <2> HIDE DEF IOInv, TypeOK, OtherTypes, tickle, schedule
  <2> QED
    BY ZenonT(60), <2>1, <2>2, <2>3, <2>4, <2>5, <2>6
<1> QED
  BY <1>1, <1>2, TypesAreNext DEF IOInv

LEMMA InitTypes == Init => IOInv
<1> SUFFICES ASSUME Init PROVE IOInv
  OBVIOUS
<1>1. FdTypes /\ Waiters
  BY DEF Init, Nothing, FdTypes, Waiters, Event
<1>2. OtherTypes
  <2>1. /\ interest \in [Fds -> SUBSET Event]
        /\ ready \in [Fds -> SUBSET (Event \cup {"HUP"})]
        /\ got \in [Threads -> [Fds -> SUBSET (Event \cup {"HUP"})]]
    BY DEF Init, Nothing
  <2>2. /\ cur \in [Threads -> Tasks \cup {None}]
        /\ pc \in [Threads -> {"scan", "body", "hold", "empty", "timers",
                               "pending", "base", "wait", "expire", "events",
                               "exit"}]
    BY DEF Init
  <2>3. stopped \in BOOLEAN /\ pipe \in BOOLEAN
    BY ZenonT(60) DEF Init
  <2>4. /\ m_fibers \subseteq Tasks /\ timers \subseteq Callbacks /\ due \subseteq timers
        /\ late \subseteq Callbacks
        /\ rdllist \subseteq Fds /\ open \subseteq Fds /\ fresh \subseteq Tasks
        /\ woken \subseteq Threads /\ ended \subseteq Threads
    BY DEF Init
  <2>5. ops \in 0..MaxOps /\ aborted \in {"no", "addEvent", "triggerEvent"}
    BY IOAssumption DEF Init
  <2> QED
    BY <2>1, <2>2, <2>3, <2>4, <2>5, ZenonT(60) DEF OtherTypes
<1>3. Cardinality(Registered) = 0
  <2>1. Registered = {}
    BY DEF Init, Nothing, Registered
  <2> QED
    BY <2>1, FS_EmptySet
<1>4. m_pendingEventCount = 0
  BY DEF Init
<1> QED
  BY <1>1, <1>2, <1>3, <1>4, TypesAre, PendingIs DEF IOInv

LEMMA NextTypes == IOInv /\ [Next]_vars => IOInv'
<1> SUFFICES ASSUME IOInv, [Next]_vars PROVE IOInv'
  OBVIOUS
<1>1. ASSUME NEW w \in Threads, run(w) PROVE IOInv'
  <2>1. CASE BodyOp(w)
    BY ZenonT(60), <2>1, AddEventTypes, CancelTypes, DeleteTypes, BodyTypes
       DEF BodyOp, cancelEvent, cancelAll
  <2>2. CASE idle(w)
    BY <2>2, IdleTypes, HandleTypes DEF idle
  <2> QED
    BY <1>1, <2>1, <2>2, BodyTypes DEF run
<1> QED
  BY <1>1, EnvTypes DEF Next, Terminated

LEMMA IOInvariant == Spec => []IOInv
  BY InitTypes, NextTypes, PTL DEF Spec

\* Every variable of the IOManager keeps its type; m_pendingEventCount in
\* particular, a size_t that three functions decrement, does not go below 0.
THEOREM IOTypeCorrect == Spec => []TypeOK
<1>1. IOInv => TypeOK
  BY DEF IOInv
<1> QED
  BY <1>1, IOInvariant, PTL

\* m_pendingEventCount is the number of registered events, and an event is
\* registered exactly while its context holds somebody to schedule, whatever
\* threads add, cancel, delete and trigger, and whatever they close.
THEOREM PendingCorrect == Spec => []PendingExact
<1>1. IOInv => PendingExact
  BY ZenonT(60) DEF IOInv
<1> QED
  BY <1>1, IOInvariant, PTL

-----------------------------------------------------------------------------
(* No edge is lost.                                                        *)

EdgeCore == InterestOK /\ GotOK /\ EdgeKept

\* A successful epoll_ctl with the mask that addEvent, cancelEvent, cancelAll,
\* delEvent and idle() leave in the context: epoll looks at the descriptor.
LEMMA CtlStep ==
    ASSUME TypeOK, InterestOK, EdgeKept,
           NEW fd \in Fds, NEW mask \in SUBSET Event,
           fd \in open, epoll_ctl(fd, mask),
           events' = [events EXCEPT ![fd] = mask],
           mine' = [mine EXCEPT ![fd] = mask],
           UNCHANGED <<open, ready>>,
           \A v \in Threads, f \in Fds : f # fd => got'[v][f] = got[v][f]
    PROVE  InterestOK' /\ EdgeKept'
<1>1. InterestOK'
  BY ZenonT(60) DEF TypeOK, InterestOK, epoll_ctl
<1>2. ASSUME NEW f \in Fds, NEW e \in Event, e \in mine'[f] \cap ready'[f]
      PROVE  f \in rdllist' \/ \E w \in Threads : e \in got'[w][f]
  <2>1. CASE f = fd
    BY ZenonT(60), <1>2, <2>1 DEF TypeOK, epoll_ctl
  <2>2. CASE f # fd
    <3>1. f \in rdllist \/ \E w \in Threads : e \in got[w][f]
      BY <1>2, <2>2 DEF TypeOK, EdgeKept
    <3> QED
      BY ZenonT(60), <2>2, <3>1 DEF epoll_ctl
  <2> QED
    BY ZenonT(60), <2>1, <2>2
<1> QED
  BY ZenonT(60), <1>1, <1>2 DEF EdgeKept

\* When the operation matches the registration, the context is epoll's.
LEMMA CtlMatches ==
    ASSUME TypeOK, InterestOK, NEW fd \in Fds, ~CtlFails(fd, events[fd])
    PROVE  fd \in open /\ events[fd] = mine[fd]
  BY ZenonT(60) DEF TypeOK, InterestOK, CtlFails

LEMMA GotSame ==
    ASSUME TypeOK, GotOK, NEW w \in Threads, UNCHANGED got,
           pc' = pc \/ \E place : Goto(w, place) /\ pc[w] \notin {"expire", "events"}
    PROVE  GotOK'
  BY ZenonT(60) DEF TypeOK, GotOK, Goto

\* A step that leaves descriptors and epoll alone.
LEMMA EdgeSame ==
    ASSUME InterestOK, EdgeKept, UNCHANGED <<events, mine, interest, open, ready, got, rdllist>>
    PROVE  InterestOK' /\ EdgeKept'
  BY ZenonT(60) DEF InterestOK, EdgeKept

LEMMA AddEventEdge ==
    ASSUME TypeOK, EdgeCore, NEW w \in Threads, NEW fd \in Fds, NEW e \in Event,
           NEW x \in Tasks, addEvent(w, fd, e, x), aborted' = "no"
    PROVE  EdgeCore'
<1>1. GotOK'
  <2>1. UNCHANGED pc \/ Goto(w, "hold")
    BY ZenonT(60) DEF addEvent, EdgeCore
  <2>2. UNCHANGED got /\ pc[w] = "body"
    BY DEF addEvent, Op, At
  <2> QED
    BY ZenonT(60), <2>1, <2>2, GotSame DEF EdgeCore
<1>2. CASE CtlFails(fd, events[fd]) \/ e \in events[fd]
  <2>1. UNCHANGED <<events, mine, interest, open, ready, got, rdllist>>
    BY <1>2 DEF addEvent
  <2> QED
    BY ZenonT(60), <1>1, <2>1, EdgeSame DEF EdgeCore
<1>3. CASE ~CtlFails(fd, events[fd]) /\ e \notin events[fd]
  <2> DEFINE mask == events[fd] \cup {e}
  <2>1. fd \in open /\ events[fd] = mine[fd]
    BY ZenonT(60), <1>3, CtlMatches DEF EdgeCore
  <2>2. /\ epoll_ctl(fd, mask)
        /\ events' = [events EXCEPT ![fd] = @ \cup {e}]
        /\ mine' = [mine EXCEPT ![fd] = @ \cup {e}]
        /\ UNCHANGED <<open, ready, got>>
    BY ZenonT(60), <1>3 DEF addEvent
  <2>3. /\ events' = [events EXCEPT ![fd] = mask]
        /\ mine' = [mine EXCEPT ![fd] = mask]
        /\ mask \in SUBSET Event
    BY ZenonT(60), <2>1, <2>2 DEF TypeOK
  <2> HIDE DEF mask
  <2> QED
    BY ZenonT(60), <1>1, <2>1, <2>2, <2>3, CtlStep DEF EdgeCore
<1> QED
  BY ZenonT(60), <1>2, <1>3

LEMMA CancelEdge ==
    ASSUME TypeOK, EdgeCore, NEW w \in Threads, NEW fd \in Fds,
           NEW E, cancel(w, fd, E)
    PROVE  EdgeCore'
<1>1. GotOK'
  BY ZenonT(60), GotSame DEF EdgeCore, cancel
<1>2. CASE CtlFails(fd, events[fd])
  <2>1. UNCHANGED <<events, mine, interest, open, ready, got, rdllist>>
    BY ZenonT(60), <1>2 DEF cancel
  <2> QED
    BY <1>1, <2>1, EdgeSame DEF EdgeCore
<1>3. CASE ~CtlFails(fd, events[fd])
  <2> DEFINE mask == events[fd] \ E
  <2>1. fd \in open /\ events[fd] = mine[fd]
    BY ZenonT(60), <1>3, CtlMatches DEF EdgeCore
  <2>2. /\ epoll_ctl(fd, mask)
        /\ events' = [events EXCEPT ![fd] = @ \ E]
        /\ mine' = [mine EXCEPT ![fd] = @ \ E]
        /\ UNCHANGED <<open, ready, got>>
    BY ZenonT(60), <1>3 DEF cancel, triggerEvents, Trigger
  <2>3. /\ events' = [events EXCEPT ![fd] = mask]
        /\ mine' = [mine EXCEPT ![fd] = mask]
        /\ mask \in SUBSET Event
    BY ZenonT(60), <2>1, <2>2 DEF TypeOK
  <2> HIDE DEF mask
  <2> QED
    BY ZenonT(60), <1>1, <2>1, <2>2, <2>3, CtlStep DEF EdgeCore
<1> QED
  BY <1>2, <1>3

LEMMA DeleteEdge ==
    ASSUME TypeOK, EdgeCore, NEW w \in Threads, NEW fd \in Fds, NEW e \in Event,
           delEvent(w, fd, e)
    PROVE  EdgeCore'
<1> USE DEF delEvent, delete
<1>1. GotOK'
  BY ZenonT(60), GotSame DEF EdgeCore
<1>2. CASE CtlFails(fd, events[fd])
  <2>1. UNCHANGED <<events, mine, interest, open, ready, got, rdllist>>
    BY <1>2
  <2> QED
    BY ZenonT(60), <1>1, <2>1, EdgeSame DEF EdgeCore
<1>3. CASE ~CtlFails(fd, events[fd])
  <2> DEFINE mask == events[fd] \ {e}
  <2>1. fd \in open /\ events[fd] = mine[fd]
    BY ZenonT(60), <1>3, CtlMatches DEF EdgeCore
  <2>2. /\ epoll_ctl(fd, mask)
        /\ events' = [events EXCEPT ![fd] = @ \ {e}]
        /\ mine' = [mine EXCEPT ![fd] = @ \ {e}]
        /\ UNCHANGED <<open, ready, got>>
    BY ZenonT(60), <1>3
  <2>3. /\ events' = [events EXCEPT ![fd] = mask]
        /\ mine' = [mine EXCEPT ![fd] = mask]
        /\ mask \in SUBSET Event
    BY <2>1, <2>2 DEF TypeOK
  <2> HIDE DEF mask
  <2> QED
    BY ZenonT(60), <1>1, <2>1, <2>2, <2>3, CtlStep DEF EdgeCore
<1> QED
  BY ZenonT(60), <1>2, <1>3

\* A report that idle() skips is about no registered event; one it handles is
\* followed by an epoll_ctl.
LEMMA HandleEdge ==
    ASSUME TypeOK, EdgeCore, NEW w \in Threads, NEW fd \in Fds,
           HandleEvent(w, fd), aborted' = "no"
    PROVE  EdgeCore'
<1> DEFINE real == real_events(fd, got[w][fd])
           skip == events[fd] \cap real = {}
<1>1. Handle(w, fd, skip, events[fd] \ real, real)
  BY ZenonT(60) DEF HandleEvent
<1>2. /\ pc' = pc /\ pc[w] = "events"
      /\ got' = [got EXCEPT ![w][fd] = {}]
      /\ UNCHANGED <<open, ready>>
  BY ZenonT(60), <1>1 DEF Handle, At
<1>3. GotOK'
  BY ZenonT(60), <1>2 DEF EdgeCore, GotOK, TypeOK
<1>4. \A v \in Threads, f \in Fds : f # fd => got'[v][f] = got[v][f]
  BY <1>2 DEF TypeOK
<1>5. CASE skip \/ CtlFails(fd, events[fd])
  <2>1. UNCHANGED <<events, mine, interest, rdllist>>
    BY ZenonT(60), <1>1, <1>5 DEF Handle
  <2>2. ASSUME NEW e \in Event, e \in mine[fd] PROVE e \notin got[w][fd]
    <3>1. events[fd] = mine[fd] /\ ~CtlFails(fd, events[fd])
      BY ZenonT(60), <2>2 DEF EdgeCore, InterestOK, CtlFails
    <3> QED
      BY ZenonT(60), <1>5, <2>2, <3>1 DEF real_events
  <2>3. EdgeKept'
    <3> SUFFICES ASSUME NEW f \in Fds, NEW e \in Event, e \in mine'[f] \cap ready'[f]
                 PROVE  f \in rdllist' \/ \E v \in Threads : e \in got'[v][f]
      BY DEF EdgeKept
    <3>1. f \in rdllist \/ \E v \in Threads : e \in got[v][f]
      BY ZenonT(60), <1>2, <2>1 DEF EdgeCore, EdgeKept
    <3>2. ASSUME NEW v \in Threads, e \in got[v][f] PROVE e \in got'[v][f]
      BY ZenonT(60), <1>2, <2>1, <2>2, <3>2 DEF TypeOK
    <3> QED
      BY ZenonT(60), <2>1, <3>1, <3>2
  <2>4. InterestOK'
    BY <1>2, <2>1 DEF EdgeCore, InterestOK
  <2> QED
    BY ZenonT(60), <1>3, <2>3, <2>4 DEF EdgeCore
<1>6. CASE ~(skip \/ CtlFails(fd, events[fd]))
  <2> DEFINE mask == events[fd] \ real
  <2>1. fd \in open /\ events[fd] = mine[fd]
    BY ZenonT(60), <1>6, CtlMatches DEF EdgeCore
  <2>2. /\ epoll_ctl(fd, mask)
        /\ events' = [events EXCEPT ![fd] = @ \ real]
        /\ mine' = [mine EXCEPT ![fd] = @ \ real]
    BY ZenonT(60), <1>1, <1>6 DEF Handle, triggerEvents, Trigger
  <2>3. /\ events' = [events EXCEPT ![fd] = mask]
        /\ mine' = [mine EXCEPT ![fd] = mask]
        /\ mask \in SUBSET Event
    BY ZenonT(60), <2>1, <2>2 DEF TypeOK
  <2> HIDE DEF mask
  <2> QED
    BY ZenonT(60), <1>2, <1>3, <1>4, <2>1, <2>2, <2>3, CtlStep DEF EdgeCore
<1> QED
  BY ZenonT(60), <1>5, <1>6

LEMMA BodyEdge ==
    ASSUME TypeOK, EdgeCore, NEW w \in Threads,
           \/ \E fd \in Fds, e \in Event : Drain(w, fd, e)
           \/ \E fd \in Fds : Close(w, fd) \/ Reopen(w, fd)
    PROVE  EdgeCore'
<1>1. GotOK'
  BY GotSame DEF EdgeCore, Drain, Close, Reopen
<1>2. ASSUME NEW fd \in Fds, NEW e \in Event, Drain(w, fd, e)
      PROVE  EdgeCore'
  <2>1. /\ UNCHANGED <<events, mine, interest, open, got, rdllist, aborted>>
        /\ ready' = [ready EXCEPT ![fd] = @ \ {e}]
    BY ZenonT(60), <1>2 DEF Drain
  <2>2. \A f \in Fds : ready'[f] \subseteq ready[f]
    BY <2>1 DEF TypeOK
  <2>3. InterestOK'
    BY ZenonT(60), <2>1 DEF EdgeCore, InterestOK
  <2>4. EdgeKept'
    BY ZenonT(60), <2>1, <2>2 DEF EdgeCore, EdgeKept
  <2> QED
    BY ZenonT(60), <1>1, <2>1, <2>3, <2>4 DEF EdgeCore
<1>3. ASSUME NEW fd \in Fds, Close(w, fd)
      PROVE  EdgeCore'
  <2>1. /\ UNCHANGED <<events, got, aborted>>
        /\ open' = open \ {fd} /\ rdllist' = rdllist \ {fd}
        /\ interest' = [interest EXCEPT ![fd] = {}]
        /\ mine' = [mine EXCEPT ![fd] = {}]
        /\ ready' = [ready EXCEPT ![fd] = {}]
    BY ZenonT(60), <1>3 DEF Close
  <2>2. \A f \in Fds \ {fd} : /\ interest'[f] = interest[f]
                              /\ mine'[f] = mine[f] /\ ready'[f] = ready[f]
    BY ZenonT(60), <2>1 DEF TypeOK
  <2>3. interest'[fd] = {} /\ mine'[fd] = {}
    BY <2>1 DEF TypeOK
  <2>4. InterestOK'
    BY ZenonT(60), <2>1, <2>2, <2>3 DEF EdgeCore, InterestOK
  <2>5. EdgeKept'
    BY ZenonT(60), <2>1, <2>2, <2>3 DEF EdgeCore, EdgeKept
  <2> QED
    BY ZenonT(60), <1>1, <2>1, <2>4, <2>5 DEF EdgeCore
<1>4. CASE \E fd \in Fds : Reopen(w, fd)
  BY ZenonT(60), <1>1, <1>4 DEF EdgeCore, Reopen, InterestOK, EdgeKept, TypeOK
<1> QED
  BY ZenonT(60), <1>2, <1>3, <1>4

\* The steps of run() and of idle() that leave events[] and epoll alone.
LEMMA QuietEdge ==
    ASSUME TypeOK, EdgeCore, NEW w \in Threads,
           \/ \E c \in Callbacks : addTimer(w, c)
           \/ Leave(w)
           \/ \E x \in Tasks : Take(w, x)
           \/ TakeNothing(w)
           \/ EnterIdle(w)
           \/ stoppingTimers(w) \/ stoppingPending(w) \/ stoppingBase(w)
           \/ TimedOut(w) \/ listExpireCb(w) \/ ReadPipe(w)
           \/ LeaveIdle(w)
    PROVE  EdgeCore'
<1> USE DEF addTimer, InsertTimer, Leave, Take, TakeNothing, EnterIdle, stoppingTimers,
            stoppingPending, stopping, stoppingBase, EndIdle, TimedOut,
            listExpireCb, ReadPipe, LeaveIdle
<1>1. UNCHANGED <<events, mine, interest, open, ready, got, rdllist>>
  BY ZenonT(60)
<1>2. InterestOK' /\ EdgeKept'
  BY ZenonT(60), <1>1, EdgeSame DEF EdgeCore
<1>3. GotOK'
  <2>1. CASE listExpireCb(w)
    <3>1. pc' = [pc EXCEPT ![w] = "events"]
      BY ZenonT(60), <2>1 DEF Goto
    <3> QED
      BY ZenonT(60), <1>1, <2>1, <3>1 DEF EdgeCore, GotOK, TypeOK, At
  <2>2. CASE LeaveIdle(w)
    <3>1. pc' = [pc EXCEPT ![w] = "scan"] /\ got[w] = Nothing
      BY ZenonT(60), <2>2 DEF Goto
    <3> QED
      BY ZenonT(60), <1>1, <3>1 DEF EdgeCore, GotOK, TypeOK, Nothing
  <2>3. CASE ~listExpireCb(w) /\ ~LeaveIdle(w)
    <3>1. pc' = pc \/ \E place : Goto(w, place) /\ pc[w] \notin {"expire", "events"}
      BY ZenonT(60), <2>3 DEF At
    <3> QED
      BY ZenonT(60), <1>1, <3>1, GotSame DEF EdgeCore
  <2> QED
    BY ZenonT(60), <2>1, <2>2, <2>3
<1> QED
  BY ZenonT(60), <1>2, <1>3 DEF EdgeCore

\* epoll_wait hands what is on the ready list to a thread that had nothing.
LEMMA WaitEdge ==
    ASSUME TypeOK, EdgeCore, NEW w \in Threads, epoll_wait(w)
    PROVE  EdgeCore'
<1>1. /\ pc[w] = "wait" /\ pc' = [pc EXCEPT ![w] = "expire"]
      /\ got' = [got EXCEPT ![w] = [fd \in Fds |-> IF fd \in rdllist
                                                   THEN Reported(fd) ELSE {}]]
      /\ UNCHANGED <<events, mine, interest, open, ready>>
  BY ZenonT(60) DEF epoll_wait, At, Goto
<1>2. InterestOK'
  BY <1>1 DEF EdgeCore, InterestOK
<1>3. GotOK'
  BY ZenonT(60), <1>1 DEF EdgeCore, GotOK, TypeOK, Nothing
<1>4. ASSUME NEW f \in Fds, NEW e \in Event, e \in mine[f] \cap ready[f]
      PROVE  \E v \in Threads : e \in got'[v][f]
  <2>1. CASE f \in rdllist
    <3>1. e \in Reported(f)
      BY ZenonT(60), <1>4 DEF EdgeCore, InterestOK, Reported
    <3>2. got'[w][f] = Reported(f)
      BY ZenonT(60), <1>1, <2>1 DEF TypeOK
    <3> QED
      BY ZenonT(60), <3>1, <3>2
  <2>2. CASE f \notin rdllist
    <3>1. PICK v \in Threads : e \in got[v][f]
      BY ZenonT(60), <1>4, <2>2 DEF EdgeCore, EdgeKept
    <3>2. v # w
      BY ZenonT(60), <1>1, <3>1 DEF EdgeCore, GotOK, Nothing
    <3> QED
      BY ZenonT(60), <1>1, <3>1, <3>2 DEF TypeOK
  <2> QED
    BY ZenonT(60), <2>1, <2>2
<1> QED
  BY ZenonT(60), <1>1, <1>2, <1>3, <1>4 DEF EdgeCore, EdgeKept

LEMMA EnvEdge ==
    ASSUME TypeOK, EdgeCore,
           \/ \E x \in Tasks : ClientSchedule(x)
           \/ \E c \in Callbacks : ClientAddTimer(c) \/ Due(c)
           \/ \E fd \in Fds : \E r \in Uses[fd] \cup {"HUP"} : Arrive(fd, r)
           \/ stop
           \/ UNCHANGED vars
    PROVE  EdgeCore'
<1>1. CASE \E fd \in Fds : \E r \in Uses[fd] \cup {"HUP"} : Arrive(fd, r)
  <2>1. PICK fd \in Fds : \E r \in Uses[fd] \cup {"HUP"} : Arrive(fd, r)
    BY ZenonT(60), <1>1
  <2>2. PICK r \in Uses[fd] \cup {"HUP"} : Arrive(fd, r)
    BY ZenonT(60), <2>1
  <2>3. InterestOK' /\ GotOK'
    BY ZenonT(60), <2>2 DEF EdgeCore, Arrive, InterestOK, GotOK
  <2>4. EdgeKept'
    <3> SUFFICES ASSUME NEW f \in Fds, NEW e \in Event, e \in mine'[f] \cap ready'[f]
                 PROVE  f \in rdllist' \/ \E w \in Threads : e \in got'[w][f]
      BY DEF EdgeKept
    <3>1. CASE e \in ready[f]
      BY ZenonT(60), <2>2, <3>1 DEF EdgeCore, EdgeKept, Arrive
    <3>2. CASE e \notin ready[f]
      BY ZenonT(60), <2>2, <3>2 DEF EdgeCore, InterestOK, Arrive, TypeOK
    <3> QED
      BY ZenonT(60), <3>1, <3>2
  <2> QED
    BY ZenonT(60), <2>3, <2>4 DEF EdgeCore
<1>2. CASE ~\E fd \in Fds : \E r \in Uses[fd] \cup {"HUP"} : Arrive(fd, r)
  <2>1. UNCHANGED <<events, mine, interest, open, ready, got, rdllist, pc>>
    BY ZenonT(60), <1>2 DEF ClientSchedule, ClientAddTimer, InsertTimer, Due, stop, vars
  <2> QED
    BY ZenonT(60), <2>1, EdgeSame DEF EdgeCore, GotOK
<1> QED
  BY ZenonT(60), <1>1, <1>2

LEMMA InitEdge == Init => EdgeInv
  BY DEF Init, Nothing, EdgeInv, InterestOK, GotOK, EdgeKept

\* A process that has aborted does nothing more.
LEMMA NotAborted ==
    ASSUME [Next]_vars
    PROVE  aborted = "no" \/ UNCHANGED vars
<1>1. ASSUME NEW w \in Threads, run(w) PROVE aborted = "no"
  <2>1. CASE BodyOp(w)
    BY <2>1, ZenonT(60)
       DEF BodyOp, addEvent, cancelEvent, cancelAll, cancel, delEvent,
       delete, Drain, Close, Reopen, addTimer, InsertTimer, Op, At
  <2>2. CASE idle(w)
    BY <2>2, ZenonT(60) DEF idle, stoppingTimers, stoppingPending, stopping,
       stoppingBase, EndIdle, epoll_wait, TimedOut, listExpireCb, ReadPipe,
       HandleEvent, Handle, LeaveIdle, At
  <2> QED
    BY ZenonT(60), <1>1, <2>1, <2>2 DEF run, Take, TakeNothing, Leave, EnterIdle, At
<1> QED
  BY ZenonT(60), <1>1 DEF Next, ClientSchedule, ClientAddTimer, InsertTimer, Due, Arrive, stop, Terminated

LEMMA NextEdge == TypeOK /\ EdgeInv /\ [Next]_vars => EdgeInv'
<1> SUFFICES ASSUME TypeOK, EdgeInv, [Next]_vars, aborted' = "no" PROVE EdgeCore'
  BY DEF EdgeInv, EdgeCore
<1>1. aborted = "no" \/ UNCHANGED vars
  BY NotAborted
<1>2. aborted = "no"
  BY <1>1 DEF vars
<1>3. EdgeCore
  BY ZenonT(60), <1>2 DEF EdgeInv, EdgeCore
<1>4. ASSUME NEW w \in Threads, run(w) PROVE EdgeCore'
  <2>1. CASE BodyOp(w)
    BY ZenonT(60), <1>3, <2>1, AddEventEdge, CancelEdge, DeleteEdge, BodyEdge, QuietEdge
       DEF BodyOp, cancelEvent, cancelAll
  <2>2. CASE idle(w)
    BY ZenonT(60), <1>3, <2>2, QuietEdge, WaitEdge, HandleEdge DEF idle
  <2> QED
    BY ZenonT(60), <1>3, <1>4, <2>1, <2>2, QuietEdge DEF run
<1> QED
  BY <1>3, <1>4, EnvEdge DEF Next, Terminated

\* A readiness edge is never lost: a registered event whose condition holds is
\* on epoll's ready list or in the events[] of a thread that has yet to handle
\* it, whoever registers, cancels, re-arms, closes or is late.
THEOREM EdgeCorrect == Spec => []EdgeNotLost
<1>1. TypeOK /\ EdgeInv => EdgeNotLost
  BY DEF TypeOK, EdgeInv, EdgeKept, EdgeNotLost
<1> QED
  BY <1>1, IOTypeCorrect, InitEdge, NextEdge, PTL DEF Spec

-----------------------------------------------------------------------------
(* A single thread.                                                        *)

OneThread == \A v, w \in Threads : v = w

\* The events in events[] that are still to be handled are registered.
GotFresh == \A w \in Threads, fd \in Fds : got[w][fd] \cap Event \subseteq interest[fd]

ReuseInv == AssertOnlyOnReuse /\ (aborted = "no" => GotFresh)

\* What stopping() has found so far is still so, but for timers set from
\* outside, and after it was true there is nothing left that could bring a
\* task, but for those.
LeaveCore ==
    \A w \in Threads :
        /\ pc[w] \in {"pending", "base"} => timers \subseteq late
        /\ pc[w] = "base" => events = Nothing
        /\ w \in ended => /\ pc[w] \in {"scan", "empty", "exit"} /\ stopped
                          /\ m_fibers = {} /\ timers \subseteq late
                          /\ events = Nothing
        /\ pc[w] = "exit" => w \in ended

LeaveInv == aborted = "no" => LeaveCore

\* While a body executes, its thread's idle fiber is not in its loop.
LEMMA BodyOpIs ==
    ASSUME TypeOK, NEW w \in Threads, BodyOp(w)
    PROVE  /\ pc[w] = "body" /\ pc'[w] \in {"body", "hold"}
           /\ UNCHANGED <<got, ended>>
<1>1. pc[w] = "body" /\ UNCHANGED <<got, ended>>
  BY ZenonT(60) DEF BodyOp, addEvent, cancelEvent, cancelAll, cancel, delEvent,
     delete, Drain, Close, Reopen, addTimer, InsertTimer, Op, At
<1>2. UNCHANGED pc \/ Goto(w, "hold")
  BY ZenonT(60) DEF BodyOp, addEvent, cancelEvent, cancelAll, cancel, delEvent,
     delete, Drain, Close, Reopen, addTimer, InsertTimer
<1>3. w \in DOMAIN pc
  BY DEF TypeOK
<1> QED
  BY ZenonT(60), <1>1, <1>2, <1>3 DEF Goto

\* Only addEvent and the loop over events[] assert.
LEMMA WhoAborts ==
    ASSUME [Next]_vars
    PROVE  \/ aborted' = aborted
           \/ \E w \in Threads, fd \in Fds, e \in Event, x \in Tasks : addEvent(w, fd, e, x)
           \/ \E w \in Threads, fd \in Fds : HandleEvent(w, fd)
<1>1. ASSUME NEW w \in Threads, BodyOp(w)
      PROVE  \/ aborted' = aborted
             \/ \E fd \in Fds, e \in Event, x \in Tasks : addEvent(w, fd, e, x)
  BY <1>1, ZenonT(60) DEF BodyOp, cancelEvent, cancelAll, cancel, delEvent,
     delete, Drain, Close, Reopen, addTimer, InsertTimer
<1>2. ASSUME NEW w \in Threads, idle(w)
      PROVE  aborted' = aborted \/ \E fd \in Fds : HandleEvent(w, fd)
  BY <1>2, ZenonT(60) DEF idle, stoppingTimers, stoppingPending, stopping,
     stoppingBase, EndIdle, epoll_wait, TimedOut, listExpireCb, ReadPipe, LeaveIdle
<1>3. ASSUME NEW w \in Threads, run(w), ~BodyOp(w), ~idle(w)
      PROVE  aborted' = aborted
  BY <1>3, ZenonT(60) DEF run, Take, TakeNothing, Leave, EnterIdle
<1>4. CASE ~\E w \in Threads : run(w)
  BY <1>4, ZenonT(60) DEF Next, ClientSchedule, ClientAddTimer, InsertTimer, Due, Arrive, stop, Terminated, vars
<1> QED
  BY ZenonT(60), <1>1, <1>2, <1>3, <1>4

\* triggerEvent is called for registered events only: the report was made
\* after the last body on this thread, and there is no other.
LEMMA HandleFinds ==
    ASSUME TypeOK, InterestOK, GotFresh, NEW w \in Threads, NEW fd \in Fds,
           HandleEvent(w, fd)
    PROVE  aborted' = aborted
<1> DEFINE real == real_events(fd, got[w][fd])
<1>1. CASE events[fd] \cap real = {} \/ CtlFails(fd, events[fd])
  BY ZenonT(60), <1>1 DEF HandleEvent, Handle
<1>2. CASE events[fd] \cap real # {} /\ ~CtlFails(fd, events[fd])
  <2>1. interest[fd] # {}
    BY ZenonT(60), <1>2 DEF CtlFails
  <2>2. events[fd] = interest[fd]
    BY ZenonT(60), <2>1 DEF InterestOK
  <2>3. got[w][fd] \cap Event \subseteq events[fd]
    BY ZenonT(60), <2>2 DEF GotFresh
  <2>4. real \subseteq events[fd]
    BY <2>3 DEF real_events
  <2> QED
    BY ZenonT(60), <1>2, <2>4 DEF HandleEvent, Handle
<1> QED
  BY ZenonT(60), <1>1, <1>2

LEMMA GotFreshNext ==
    ASSUME OneThread, TypeOK, InterestOK, GotOK, GotFresh, [Next]_vars
    PROVE  GotFresh'
<1>1. ASSUME NEW w \in Threads, BodyOp(w) PROVE GotFresh'
  <2>1. got'[w] = Nothing
    BY ZenonT(60), <1>1, BodyOpIs DEF GotOK
  <2> QED
    BY ZenonT(60), <2>1 DEF GotFresh, OneThread, Nothing
<1>2. ASSUME NEW w \in Threads, epoll_wait(w) PROVE GotFresh'
  <2>1. /\ got'[w] = [fd \in Fds |-> IF fd \in rdllist THEN Reported(fd) ELSE {}]
        /\ UNCHANGED interest
    BY ZenonT(60), <1>2 DEF epoll_wait, TypeOK
  <2>2. \A fd \in Fds : got'[w][fd] \cap Event \subseteq interest'[fd]
    BY ZenonT(60), <2>1 DEF Reported, Event
  <2> QED
    BY ZenonT(60), <2>2 DEF GotFresh, OneThread
<1>3. ASSUME NEW w \in Threads, NEW fd \in Fds, HandleEvent(w, fd) PROVE GotFresh'
  <2>1. got' = [got EXCEPT ![w][fd] = {}]
    BY ZenonT(60), <1>3 DEF HandleEvent, Handle
  <2>2. UNCHANGED interest \/ \E mask : interest' = [interest EXCEPT ![fd] = mask]
    BY ZenonT(60), <1>3 DEF HandleEvent, Handle, epoll_ctl
  <2>3. ASSUME NEW f \in Fds PROVE got'[w][f] \cap Event \subseteq interest'[f]
    <3>0. w \in DOMAIN got /\ f \in DOMAIN got[w] /\ f \in DOMAIN interest
      BY ZenonT(60) DEF TypeOK
    <3>1. CASE f = fd
      BY ZenonT(60), <2>1, <3>0, <3>1
    <3>2. CASE f # fd
      <4>1. got'[w][f] = got[w][f]
        BY ZenonT(60), <2>1, <3>0, <3>2
      <4>2. interest'[f] = interest[f]
        BY ZenonT(60), <2>2, <3>0, <3>2
      <4> QED
        BY ZenonT(60), <4>1, <4>2 DEF GotFresh
    <3> QED
      BY ZenonT(60), <3>1, <3>2
  <2> QED
    BY <2>3 DEF GotFresh, OneThread
<1>4. CASE UNCHANGED <<got, interest>>
  BY ZenonT(60), <1>4 DEF GotFresh
<1>5. ASSUME NEW w \in Threads, idle(w) PROVE GotFresh'
  <2>1. CASE epoll_wait(w) \/ \E fd \in Fds : HandleEvent(w, fd)
    BY ZenonT(60), <1>2, <1>3, <2>1
  <2>2. CASE ~(epoll_wait(w) \/ \E fd \in Fds : HandleEvent(w, fd))
    BY <1>4, <1>5, <2>2, ZenonT(60) DEF idle, stoppingTimers, stoppingPending,
       stopping, stoppingBase, EndIdle, TimedOut, listExpireCb, ReadPipe, LeaveIdle
  <2> QED
    BY ZenonT(60), <2>1, <2>2
<1>6. ASSUME NEW w \in Threads, run(w), ~BodyOp(w), ~idle(w)
      PROVE  UNCHANGED <<got, interest>>
  BY <1>6, ZenonT(60) DEF run, Take, TakeNothing, Leave, EnterIdle
<1>7. CASE ~\E w \in Threads : run(w)
  <2>1. UNCHANGED <<got, interest>>
    BY <1>7, ZenonT(60) DEF Next, ClientSchedule, ClientAddTimer, InsertTimer, Due, Arrive, stop, Terminated, vars
  <2> QED
    BY ZenonT(60), <1>4, <2>1
<1> QED
  BY ZenonT(60), <1>1, <1>4, <1>5, <1>6, <1>7

LEMMA ReuseNext ==
    ASSUME OneThread, TypeOK, EdgeInv, ReuseInv, [Next]_vars
    PROVE  ReuseInv'
<1>1. CASE UNCHANGED vars
  BY ZenonT(60), <1>1 DEF vars, ReuseInv, AssertOnlyOnReuse, GotFresh
<1>2. CASE aborted = "no"
  <2>1. InterestOK /\ GotOK /\ GotFresh
    BY <1>2 DEF EdgeInv, ReuseInv
  <2>2. GotFresh'
    BY ZenonT(60), <2>1, GotFreshNext
  <2>3. ASSUME NEW w \in Threads, NEW fd \in Fds, NEW e \in Event, NEW x \in Tasks,
               addEvent(w, fd, e, x)
        PROVE  AssertOnlyOnReuse'
    <3>1. CASE e \in events[fd]
      <4>1. aborted' = "addEvent" /\ UNCHANGED <<events, mine>> /\ e \notin mine[fd]
        BY ZenonT(60), <2>3, <3>1 DEF addEvent
      <4> QED
        BY <3>1, <4>1 DEF AssertOnlyOnReuse
    <3>2. CASE e \notin events[fd]
      BY ZenonT(60), <1>2, <2>3, <3>2 DEF addEvent, AssertOnlyOnReuse
    <3> QED
      BY ZenonT(60), <3>1, <3>2
  <2>4. ASSUME aborted' = aborted PROVE AssertOnlyOnReuse'
    BY ZenonT(60), <1>2, <2>4 DEF AssertOnlyOnReuse
  <2>5. AssertOnlyOnReuse'
    BY ZenonT(60), <2>1, <2>3, <2>4, WhoAborts, HandleFinds
  <2> QED
    BY ZenonT(60), <2>2, <2>5 DEF ReuseInv
<1> QED
  BY ZenonT(60), <1>1, <1>2, NotAborted

\* With a single thread, and any descriptors, fibers and callbacks, the only
\* assertion of the IOManager that can fail is the one of addEvent, on a
\* descriptor that close() left registered; triggerEvent's never does.
THEOREM AssertsOnlyOnReuse ==
    ASSUME OneThread
    PROVE  Spec => []AssertOnlyOnReuse
<1>1. Init => ReuseInv
  BY DEF Init, ReuseInv, AssertOnlyOnReuse, GotFresh, Nothing
<1>2. TypeOK /\ EdgeInv /\ ReuseInv /\ [Next]_vars => ReuseInv'
  BY ReuseNext
<1>3. ReuseInv => AssertOnlyOnReuse
  BY ZenonT(60) DEF ReuseInv
<1> QED
  BY <1>1, <1>2, <1>3, IOTypeCorrect, InitEdge, NextEdge, PTL DEF Spec

\* No pending event means that no event is registered.
LEMMA NonePending ==
    ASSUME IOInv, m_pendingEventCount = 0
    PROVE  events = Nothing
<1>1. Cardinality(Registered) = 0
  BY ZenonT(60), PendingIs DEF IOInv
<1>2. Registered = {}
  BY ZenonT(60), <1>1, RegisteredFinite, FS_EmptySet
<1>3. \A fd \in Fds : events[fd] \subseteq Event
  BY DEF IOInv, TypeOK
<1>4. ASSUME NEW fd \in Fds, NEW e \in events[fd] PROVE FALSE
  <2>1. <<fd, e>> \in Fds \X Event
    BY ZenonT(60), <1>3, <1>4
  <2>2. <<fd, e>> \in Registered
    BY <2>1 DEF Registered
  <2> QED
    BY ZenonT(60), <1>2, <2>2
<1>5. \A fd \in Fds : events[fd] = {}
  BY ZenonT(60), <1>4
<1> QED
  BY <1>5 DEF IOInv, TypeOK, Nothing

\* Nothing is asked of a thread that is outside stopping() and has not seen
\* it true.
LEMMA LeaveElsewhere ==
    ASSUME OneThread, NEW w \in Threads, w \notin ended',
           pc'[w] \notin {"pending", "base", "exit"}
    PROVE  LeaveCore'
BY ZenonT(60) DEF OneThread, LeaveCore

LEMMA LeaveRun ==
    ASSUME OneThread, TypeOK, LeaveCore, NEW w \in Threads,
           \/ \E x \in Tasks : Take(w, x)
           \/ TakeNothing(w) \/ BodyOp(w) \/ Leave(w) \/ EnterIdle(w)
    PROVE  LeaveCore'
<1>0. w \in DOMAIN pc
  BY DEF TypeOK
<1>1. CASE \E x \in Tasks : Take(w, x)
  <2>1. m_fibers # {} /\ Goto(w, "body") /\ UNCHANGED ended
    BY ZenonT(60), <1>1 DEF Take, Takeable
  <2>2. w \notin ended' /\ pc'[w] = "body"
    BY ZenonT(60), <1>0, <2>1 DEF Goto, LeaveCore
  <2> QED
    BY <2>2, LeaveElsewhere
<1>2. CASE BodyOp(w)
  <2>1. w \notin ended' /\ pc'[w] \in {"body", "hold"}
    BY ZenonT(60), <1>2, BodyOpIs DEF LeaveCore
  <2> QED
    BY ZenonT(60), <2>1, LeaveElsewhere
<1>3. CASE Leave(w)
  <2>1. pc[w] \in {"body", "hold"} /\ Goto(w, "scan") /\ UNCHANGED ended
    BY ZenonT(60), <1>3 DEF Leave, At
  <2>2. w \notin ended' /\ pc'[w] = "scan"
    BY ZenonT(60), <1>0, <2>1 DEF Goto, LeaveCore
  <2> QED
    BY ZenonT(60), <2>2, LeaveElsewhere
<1>4. CASE TakeNothing(w) \/ EnterIdle(w)
  <2>1. /\ pc'[w] \in {"empty", "timers", "exit"}
        /\ pc'[w] = "timers" => w \notin ended
        /\ pc'[w] = "exit" => w \in ended
        /\ UNCHANGED <<ended, timers, late, events, m_fibers, stopped>>
    BY ZenonT(60), <1>0, <1>4 DEF TakeNothing, EnterIdle, Goto
  <2> QED
    BY ZenonT(60), <2>1 DEF LeaveCore, OneThread
<1> QED
  BY ZenonT(60), <1>1, <1>2, <1>3, <1>4

LEMMA LeaveIdles ==
    ASSUME OneThread, IOInv, LeaveCore, NEW w \in Threads, idle(w)
    PROVE  LeaveCore'
<1>0. w \in DOMAIN pc
  BY DEF IOInv, TypeOK
<1>1. w \notin ended
  BY ZenonT(60) DEF idle, stoppingTimers, stoppingPending, stopping, stoppingBase,
     EndIdle, epoll_wait, TimedOut, listExpireCb, ReadPipe, HandleEvent, Handle,
     LeaveIdle, At, LeaveCore
<1>2. CASE stoppingTimers(w)
  <2>1. /\ (pc'[w] = "pending" /\ timers = {}) \/ pc'[w] = "wait"
        /\ UNCHANGED <<ended, timers>>
    BY <1>0, <1>2 DEF stoppingTimers, stopping, Goto
  <2> QED
    BY ZenonT(60), <1>1, <2>1 DEF LeaveCore, OneThread
<1>3. CASE stoppingPending(w)
  <2>1. /\ pc[w] = "pending" /\ UNCHANGED <<ended, timers, late, events>>
        /\ (pc'[w] = "base" /\ m_pendingEventCount = 0) \/ pc'[w] = "wait"
    BY ZenonT(60), <1>0, <1>3 DEF stoppingPending, stopping, Goto, At
  <2>2. timers' \subseteq late' /\ (pc'[w] = "base" => events' = Nothing)
    BY <2>1, NonePending DEF LeaveCore
  <2> QED
    BY ZenonT(60), <1>1, <2>1, <2>2 DEF LeaveCore, OneThread
<1>4. CASE stoppingBase(w)
  <2>1. /\ pc[w] = "base" /\ UNCHANGED <<timers, late, events, m_fibers, stopped>>
        /\ \/ stopped /\ m_fibers = {} /\ pc'[w] = "scan"
           \/ pc'[w] = "wait" /\ UNCHANGED ended
    BY ZenonT(60), <1>0, <1>4 DEF stoppingBase, EndIdle, Goto, At
  <2>2. timers \subseteq late /\ events = Nothing
    BY ZenonT(60), <2>1 DEF LeaveCore
  <2> QED
    BY ZenonT(60), <1>1, <2>1, <2>2 DEF LeaveCore, OneThread
<1>5. CASE ~(stoppingTimers(w) \/ stoppingPending(w) \/ stoppingBase(w))
  <2>1. UNCHANGED ended
    BY <1>5, ZenonT(60) DEF idle, epoll_wait, TimedOut, listExpireCb, ReadPipe,
       HandleEvent, Handle, LeaveIdle
  <2>2. \/ pc[w] = "events" /\ UNCHANGED pc
        \/ Goto(w, "expire") \/ Goto(w, "events") \/ Goto(w, "scan")
    BY <1>5, ZenonT(60) DEF idle, epoll_wait, TimedOut, listExpireCb, ReadPipe,
       HandleEvent, Handle, LeaveIdle, At
  <2>3. pc'[w] \in {"expire", "events", "scan"}
    BY ZenonT(60), <1>0, <2>2 DEF Goto
  <2> QED
    BY ZenonT(60), <1>1, <2>1, <2>3, LeaveElsewhere
<1> QED
  BY ZenonT(60), <1>2, <1>3, <1>4, <1>5

LEMMA LeaveEnv ==
    ASSUME OneThread, LeaveCore,
           \/ \E x \in Tasks : ClientSchedule(x)
           \/ \E c \in Callbacks : ClientAddTimer(c) \/ Due(c)
           \/ \E fd \in Fds : \E r \in Uses[fd] \cup {"HUP"} : Arrive(fd, r)
           \/ stop
    PROVE  LeaveCore'
<1>0. CASE \E c \in Callbacks : ClientAddTimer(c)
  <2>1. PICK c \in Callbacks : ClientAddTimer(c)
    BY ZenonT(60), <1>0
  <2>2. /\ UNCHANGED <<pc, ended, events>> /\ ~stopped
        /\ timers' = timers \cup {c}
        /\ late' = IF PastTimers THEN late \cup {c} ELSE late
    BY ZenonT(60), <2>1 DEF ClientAddTimer, InsertTimer
  <2>3. \A w \in Threads : w \notin ended
    BY ZenonT(60), <2>2 DEF LeaveCore
  <2>4. ASSUME NEW w \in Threads, pc[w] \in {"pending", "base"} PROVE timers' \subseteq late'
    <3>1. PastTimers /\ timers \subseteq late
      BY ZenonT(60), <2>4 DEF PastTimers, OneThread, LeaveCore
    <3> QED
      BY ZenonT(60), <2>2, <3>1
  <2> QED
    BY ZenonT(60), <2>2, <2>3, <2>4 DEF LeaveCore
<1> SUFFICES ASSUME ~\E c \in Callbacks : ClientAddTimer(c) PROVE LeaveCore'
  BY ZenonT(60), <1>0
<1>1. UNCHANGED <<pc, ended, timers, late, events>>
  BY ZenonT(60) DEF ClientSchedule, Due, Arrive, stop, envVars
<1>2. CASE stop
  <2>1. \A w \in Threads : w \notin ended
    BY ZenonT(60), <1>2 DEF stop, LeaveCore
  <2> QED
    BY ZenonT(60), <1>1, <2>1 DEF LeaveCore
<1>3. CASE ~stop
  <2>1. UNCHANGED stopped
    BY ZenonT(60), <1>3 DEF ClientSchedule, Due, Arrive
  <2>2. \/ UNCHANGED m_fibers
        \/ ~stopped \/ \E v \in Threads : pc[v] \in {"body", "hold"}
    BY ZenonT(60), <1>3 DEF ClientSchedule, Due, Arrive, Active
  <2>3. ASSUME NEW w \in Threads, w \in ended PROVE UNCHANGED m_fibers
    BY ZenonT(60), <2>2, <2>3 DEF LeaveCore, OneThread
  <2> QED
    BY ZenonT(60), <1>1, <2>1, <2>3 DEF LeaveCore
<1> QED
  BY <1>2, <1>3

LEMMA LeaveNext ==
    ASSUME OneThread, IOInv, LeaveInv, [Next]_vars
    PROVE  LeaveInv'
<1>1. CASE UNCHANGED vars
  BY <1>1 DEF vars, LeaveInv, LeaveCore
<1>2. CASE aborted = "no"
  <2>1. LeaveCore /\ TypeOK
    BY <1>2 DEF LeaveInv, IOInv
  <2>2. ASSUME NEW w \in Threads, run(w) PROVE LeaveCore'
    BY ZenonT(60), <2>1, <2>2, LeaveRun, LeaveIdles DEF run
  <2> QED
    BY ZenonT(60), <1>1, <2>1, <2>2, LeaveEnv DEF Next, Terminated, LeaveInv
<1> QED
  BY ZenonT(60), <1>1, <1>2, NotAborted

\* With a single thread nobody is left waiting when it leaves run(): the
\* list is empty and no event is registered, so no fiber is destroyed in state
\* HOLD, and no timer is set but one that a thread outside the pool added
\* between the reads of stopping().
THEOREM NobodyStranded ==
    ASSUME OneThread
    PROVE  Spec => []NoneStranded
<1>1. Init => LeaveInv
  BY DEF Init, LeaveInv, LeaveCore
<1>2. IOInv /\ LeaveInv /\ [Next]_vars => LeaveInv'
  BY ZenonT(60), LeaveNext
<1>3. LeaveInv => NoneStranded
  BY IOAssumption DEF LeaveInv, LeaveCore, NoneStranded
<1> QED
  BY <1>1, <1>2, <1>3, IOInvariant, PTL DEF Spec
=============================================================================
