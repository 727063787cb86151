----------------------------- MODULE IOManager -----------------------------
(***************************************************************************)
(* bobliew::IOManager (iomanager.h, iomanager.cc): fibers register for     *)
(* events of file descriptors, the idle fiber of each thread waits in      *)
(* epoll_wait, triggers the events that occurred and decides when a thread *)
(* may leave.                                                              *)
(*                                                                         *)
(* The list of tasks is abstracted to a set and the two thread counters to *)
(* the sets they count (module Scheduler has the list, and a proof that    *)
(* the counters are exact); a fiber that yields is not resumed before it   *)
(* has left its thread (module Scheduler has that race).  Timers are       *)
(* callbacks that become due at any time, once (module TimerManager has    *)
(* the times, recurring timers and cancel()).  The critical section of an  *)
(* FdContext's mutex is one action.                                        *)
(*                                                                         *)
(* Threads outside the pool call schedule() and addTimer(), before they    *)
(* call stop().  Events are registered by bodies alone: addEvent() takes   *)
(* the caller's Scheduler::GetThis() for the waiter's.                     *)
(***************************************************************************)
EXTENDS Integers, FiniteSets

CONSTANTS
    Threads,    \* the threads of the pool
    Fds,        \* file descriptors
    Fibers,     \* fibers, which wait for events themselves
    Callbacks,  \* callbacks of events and timers, and scheduled callbacks
    Uses,       \* the events bodies register for, per descriptor
    Cancels,    \* may bodies cancel and delete events?
    Closes,     \* may bodies close descriptors?
    MaxOps,     \* bound on the operations of all bodies together
    None

Event == {"READ", "WRITE"}
Tasks == Fibers \cup Callbacks

ASSUME IOAssumption ==
    /\ IsFiniteSet(Threads) /\ Threads # {}
    /\ IsFiniteSet(Fds)
    /\ Fibers \cap Callbacks = {}
    /\ Uses \in [Fds -> SUBSET Event]
    /\ Cancels \in BOOLEAN /\ Closes \in BOOLEAN
    /\ MaxOps \in Nat
    /\ None \notin Tasks

VARIABLES
    events,     \* fd_ctx->events
    ctx,        \* fd_ctx->read and fd_ctx->write: the fiber or cb, or None
    m_pendingEventCount,
    m_fibers,   \* the tasks in the scheduler's list
    timers,     \* callbacks of the timers in m_timers
    due,        \* those whose time has come
    late,       \* those set from outside when every thread was PastTimers
    stopped,    \* stop() has set m_autoStop and m_stopping
    interest,   \* epoll: the events a descriptor is registered for
    ready,      \* the conditions that hold of a descriptor, also "HUP"
    rdllist,    \* epoll: the descriptors on its ready list
    pipe,       \* epoll: an unseen write to the tickle pipe
    open,       \* the descriptors that are open
    mine,       \* the events registered since a descriptor was last opened
    pc,         \* where in run() and idle() a thread is
    cur,        \* the task a thread executes
    got,        \* the local events[] of idle(), what is left of it
    woken,      \* the threads whose events[] still holds the tickle pipe
    ended,      \* the threads whose idle fiber is in state TERM
    fresh,      \* tasks nobody has used yet
    ops,        \* operations of bodies so far
    aborted     \* the BOBLIEW_ASSERT that ended the process, or "no"

fdVars == <<events, ctx, m_pendingEventCount, mine>>
epollVars == <<interest, rdllist>>
threadVars == <<pc, cur, got, woken, ended>>
taskVars == <<m_fibers, timers, due, fresh>>
envVars == <<ready, open, stopped, late, ops, aborted>>
vars == <<fdVars, epollVars, threadVars, taskVars, pipe, envVars>>
onlyPc == <<fdVars, epollVars, cur, got, woken, ended, taskVars, pipe, envVars>>

\* The threads counted in m_activeThreadCount and m_idleThreadCount.
Active == {w \in Threads : pc[w] \in {"body", "hold"}}
Idle == {w \in Threads : pc[w] \in {"timers", "pending", "base", "wait",
                                    "expire", "events"}}

TypeOK ==
    /\ events \in [Fds -> SUBSET Event]
    /\ ctx \in [Fds -> [Event -> Tasks \cup {None}]]
    /\ m_pendingEventCount \in Nat
    /\ m_fibers \subseteq Tasks
    /\ timers \subseteq Callbacks /\ due \subseteq timers
    /\ stopped \in BOOLEAN /\ late \subseteq Callbacks
    /\ interest \in [Fds -> SUBSET Event]
    /\ ready \in [Fds -> SUBSET (Event \cup {"HUP"})]
    /\ rdllist \subseteq Fds
    /\ pipe \in BOOLEAN
    /\ open \subseteq Fds
    /\ mine \in [Fds -> SUBSET Event]
    /\ pc \in [Threads -> {"scan", "body", "hold", "empty", "timers",
                           "pending", "base", "wait", "expire", "events",
                           "exit"}]
    /\ cur \in [Threads -> Tasks \cup {None}]
    /\ got \in [Threads -> [Fds -> SUBSET (Event \cup {"HUP"})]]
    /\ woken \subseteq Threads /\ ended \subseteq Threads
    /\ fresh \subseteq Tasks
    /\ ops \in 0..MaxOps
    /\ aborted \in {"no", "addEvent", "triggerEvent"}

Nothing == [fd \in Fds |-> {}]

Init ==
    /\ events = Nothing /\ mine = Nothing
    /\ ctx = [fd \in Fds |-> [e \in Event |-> None]]
    /\ m_pendingEventCount = 0
    /\ m_fibers = {} /\ timers = {} /\ due = {} /\ fresh = Tasks
    /\ stopped = FALSE /\ late = {}
    /\ interest = Nothing /\ ready = Nothing
    /\ rdllist = {} /\ pipe = FALSE
    /\ open = Fds
    /\ pc = [w \in Threads |-> "scan"]
    /\ cur = [w \in Threads |-> None]
    /\ got = [w \in Threads |-> Nothing]
    /\ woken = {} /\ ended = {}
    /\ ops = 0
    /\ aborted = "no"

At(w, place) == aborted = "no" /\ pc[w] = place
Goto(w, place) == pc' = [pc EXCEPT ![w] = place]

-----------------------------------------------------------------------------
(* epoll, edge-triggered.                                                  *)

\* What epoll_wait would report of a descriptor.
Reported(fd) == (interest[fd] \cup {"HUP"}) \cap ready[fd]

\* epoll_ctl fails on a closed descriptor, and when the operation does not
\* match the registration, which closing the descriptor removes.
CtlFails(fd, was) == fd \notin open \/ (was = {}) # (interest[fd] = {})

\* A successful epoll_ctl: ADD or MOD look at the descriptor at once, DEL
\* (an empty mask) forgets it.
epoll_ctl(fd, mask) ==
    /\ interest' = [interest EXCEPT ![fd] = mask]
    /\ rdllist' = IF mask = {} THEN rdllist \ {fd}
                  ELSE IF (mask \cup {"HUP"}) \cap ready[fd] # {}
                       THEN rdllist \cup {fd} ELSE rdllist

\* Data, room to write or a hang-up: an edge for registered descriptors.
Arrive(fd, r) ==
    /\ aborted = "no"
    /\ fd \in open
    /\ ready' = [ready EXCEPT ![fd] = @ \cup {r}]
    /\ rdllist' = IF interest[fd] # {} /\ r \in interest[fd] \cup {"HUP"}
                  THEN rdllist \cup {fd} ELSE rdllist
    /\ <<ready, rdllist>>' # <<ready, rdllist>>
    /\ UNCHANGED <<fdVars, interest, threadVars, taskVars, pipe, open,
                   stopped, late, ops, aborted>>

-----------------------------------------------------------------------------
(* schedule() and tickle().  A thread that becomes idle after the push and *)
(* before tickle() looks would only make tickle() write more often, and    *)
(* one that stops being idle rescans: the two are one step.                *)

tickle == pipe' = (pipe \/ Idle # {})

schedule(S) ==
    /\ m_fibers' = m_fibers \cup S
    /\ IF m_fibers = {} /\ S # {} THEN tickle ELSE UNCHANGED pipe

\* A thread outside the pool, which has not called stop(), or an executing
\* body schedules a task.
ClientSchedule(x) ==
    /\ aborted = "no" /\ (~stopped \/ Active # {})
    /\ x \in fresh
    /\ fresh' = fresh \ {x}
    /\ schedule({x})
    /\ UNCHANGED <<fdVars, epollVars, threadVars, timers, due, envVars>>

stop ==
    /\ aborted = "no" /\ ~stopped
    /\ stopped' = TRUE
    /\ tickle
    /\ UNCHANGED <<fdVars, epollVars, threadVars, taskVars, ready, open, late,
                   ops, aborted>>

\* addTimer(): onTimerInsertedAtFront() is tickle(), for a timer at the front
\* unless m_tickled is set (module TimerManager has when).
InsertTimer(c) ==
    /\ c \in fresh \cap Callbacks
    /\ fresh' = fresh \ {c}
    /\ timers' = timers \cup {c}
    /\ tickle \/ UNCHANGED pipe
    /\ UNCHANGED <<fdVars, epollVars, threadVars, m_fibers, due>>

\* The rest of stopping() does not read m_timers again, and may end the idle
\* fiber: a timer is late when all threads are there.
PastTimers == \A w \in Threads : pc[w] \in {"pending", "base"}

\* A thread outside the pool, which has not called stop(), sets a timer.
ClientAddTimer(c) ==
    /\ aborted = "no" /\ ~stopped
    /\ InsertTimer(c)
    /\ late' = IF PastTimers THEN late \cup {c} ELSE late
    /\ UNCHANGED <<ready, open, stopped, ops, aborted>>

\* The time of a timer comes.
Due(c) ==
    /\ aborted = "no"
    /\ c \in timers \ due
    /\ due' = due \cup {c}
    /\ UNCHANGED <<fdVars, epollVars, threadVars, m_fibers, timers, fresh,
                   pipe, envVars>>

-----------------------------------------------------------------------------
(* Operations of the fibers and callbacks the threads execute.             *)

Op(w) == At(w, "body") /\ ops < MaxOps /\ ops' = ops + 1

\* addEvent(fd, e, cb), or without cb for the current fiber.  The caller does
\* not register twice for the same event of a descriptor it has open.
addEvent(w, fd, e, x) ==
    /\ Op(w)
    /\ e \in Uses[fd] \ mine[fd] /\ fd \in open
    /\ \/ x = cur[w] /\ x \in Fibers /\ UNCHANGED fresh
       \/ x \in fresh \cap Callbacks /\ fresh' = fresh \ {x}
    /\ IF e \in events[fd]
       THEN /\ aborted' = "addEvent"
            /\ UNCHANGED <<fdVars, epollVars, pc>>
       ELSE /\ IF CtlFails(fd, events[fd])
               THEN UNCHANGED <<fdVars, epollVars, pc>>
               ELSE /\ epoll_ctl(fd, events[fd] \cup {e})
                    /\ m_pendingEventCount' = m_pendingEventCount + 1
                    /\ events' = [events EXCEPT ![fd] = @ \cup {e}]
                    /\ mine' = [mine EXCEPT ![fd] = @ \cup {e}]
                    /\ ctx' = [ctx EXCEPT ![fd][e] = x]
                    /\ IF x = cur[w] THEN Goto(w, "hold") ELSE UNCHANGED pc
            /\ UNCHANGED aborted
    /\ UNCHANGED <<cur, got, woken, ended, m_fibers, timers, due, pipe, ready,
                   open, stopped, late>>

\* triggerEvent for the events E of fd, and the decrements that follow.
Trigger(fd, E, n) ==
    /\ events' = [events EXCEPT ![fd] = @ \ E]
    /\ mine' = [mine EXCEPT ![fd] = @ \ E]
    /\ ctx' = [ctx EXCEPT ![fd] = [e \in Event |-> IF e \in E THEN None ELSE @[e]]]
    /\ schedule({ctx[fd][e] : e \in E})
    /\ m_pendingEventCount' = m_pendingEventCount - n

\* Mutant: nobody counts down.
triggerEventsNoCount(fd, E) == Trigger(fd, E, 0)

triggerEvents(fd, E) == Trigger(fd, E, Cardinality(E))

\* cancelEvent(fd, e) for E = {e}; cancelAll(fd) for E = events[fd].
cancel(w, fd, E) ==
    /\ Op(w) /\ Cancels
    /\ E # {} /\ E \subseteq events[fd]
    /\ IF CtlFails(fd, events[fd])
       THEN UNCHANGED <<fdVars, epollVars, m_fibers, pipe>>
       ELSE epoll_ctl(fd, events[fd] \ E) /\ triggerEvents(fd, E)
    /\ UNCHANGED <<threadVars, timers, due, fresh, ready, open, stopped,
                   late, aborted>>

cancelEvent(w, fd, e) == cancel(w, fd, {e})
cancelAll(w, fd) == cancel(w, fd, events[fd])

\* delEvent(fd, e) drops the waiter without scheduling it.  Only a callback
\* can be dropped: a fiber that waits cannot be meant to wait for ever.
delete(w, fd, e, n) ==
    /\ Op(w) /\ Cancels
    /\ e \in events[fd] /\ ctx[fd][e] \in Callbacks
    /\ IF CtlFails(fd, events[fd])
       THEN UNCHANGED <<fdVars, epollVars>>
       ELSE /\ epoll_ctl(fd, events[fd] \ {e})
            /\ m_pendingEventCount' = m_pendingEventCount - n
            /\ events' = [events EXCEPT ![fd] = @ \ {e}]
            /\ mine' = [mine EXCEPT ![fd] = @ \ {e}]
            /\ ctx' = [ctx EXCEPT ![fd][e] = None]
    /\ UNCHANGED <<threadVars, taskVars, pipe, ready, open, stopped, late,
                   aborted>>

\* Mutant: the count is forgotten.
delEventNoCount(w, fd, e) == delete(w, fd, e, 0)

delEvent(w, fd, e) == delete(w, fd, e, 1)

addTimer(w, c) ==
    /\ Op(w)
    /\ InsertTimer(c)
    /\ UNCHANGED <<ready, open, stopped, late, aborted>>

\* read or write until EAGAIN.
Drain(w, fd, e) ==
    /\ Op(w)
    /\ e \in ready[fd]
    /\ ready' = [ready EXCEPT ![fd] = @ \ {e}]
    /\ UNCHANGED <<fdVars, epollVars, threadVars, taskVars, pipe, open,
                   stopped, late, aborted>>

\* close(fd) on a thread with hooks enabled is close_f alone; a later socket()
\* or accept() may return the same number.
Close(w, fd) ==
    /\ Op(w) /\ Closes
    /\ fd \in open
    /\ open' = open \ {fd}
    /\ interest' = [interest EXCEPT ![fd] = {}]
    /\ rdllist' = rdllist \ {fd}
    /\ ready' = [ready EXCEPT ![fd] = {}]
    /\ mine' = [mine EXCEPT ![fd] = {}]
    /\ UNCHANGED <<events, ctx, m_pendingEventCount, threadVars, taskVars,
                   pipe, stopped, late, aborted>>

Reopen(w, fd) ==
    /\ Op(w)
    /\ fd \in Fds \ open
    /\ open' = open \cup {fd}
    /\ UNCHANGED <<fdVars, epollVars, threadVars, taskVars, pipe, ready,
                   stopped, late, aborted>>

\* The body ends, or its fiber has yielded to HOLD.
Leave(w) ==
    /\ At(w, "body") \/ At(w, "hold")
    /\ cur' = [cur EXCEPT ![w] = None]
    /\ Goto(w, "scan")
    /\ UNCHANGED <<fdVars, epollVars, got, woken, ended, taskVars, pipe,
                   envVars>>

-----------------------------------------------------------------------------
(* run(): a task that is not executing is taken, else the thread idles.    *)

Takeable == {x \in m_fibers : \A v \in Threads : cur[v] # x}

Take(w, x) ==
    /\ At(w, "scan")
    /\ x \in Takeable
    /\ m_fibers' = m_fibers \ {x}
    /\ IF m_fibers' # {} THEN tickle ELSE UNCHANGED pipe
    /\ cur' = [cur EXCEPT ![w] = x]
    /\ Goto(w, "body")
    /\ UNCHANGED <<fdVars, epollVars, got, woken, ended, timers, due, fresh,
                   envVars>>

TakeNothing(w) ==
    /\ At(w, "scan")
    /\ Takeable = {}
    /\ Goto(w, "empty")
    /\ UNCHANGED onlyPc

EnterIdle(w) ==
    /\ At(w, "empty")
    /\ Goto(w, IF w \in ended THEN "exit" ELSE "timers")
    /\ UNCHANGED onlyPc

-----------------------------------------------------------------------------
(* idle().                                                                 *)

\* stopping(): getNextTimer(), then m_pendingEventCount, then the base class
\* under its mutex.
stopping(w, from, holds, next) ==
    /\ At(w, from)
    /\ Goto(w, IF holds THEN next ELSE "wait")
    /\ UNCHANGED onlyPc

stoppingTimers(w) == stopping(w, "timers", timers = {}, "pending")

\* Mutant: pending events do not keep a thread.
stoppingPendingNot(w) == stopping(w, "pending", TRUE, "base")

stoppingPending(w) == stopping(w, "pending", m_pendingEventCount = 0, "base")

\* When stopping() is true the idle fiber ends and run() scans once more.
EndIdle(w, base) ==
    /\ At(w, "base")
    /\ IF base
       THEN ended' = ended \cup {w} /\ Goto(w, "scan")
       ELSE Goto(w, "wait") /\ UNCHANGED ended
    /\ UNCHANGED <<fdVars, epollVars, cur, got, woken, taskVars, pipe, envVars>>

\* Mutant: m_autoStop and m_stopping are not looked at.
stoppingBaseAlways(w) == EndIdle(w, m_fibers = {} /\ Active = {})

stoppingBase(w) == EndIdle(w, stopped /\ m_fibers = {} /\ Active = {})

\* epoll_wait returns what is on the ready list, which it empties, the pipe
\* included, ...
Available == pipe \/ \E fd \in rdllist : Reported(fd) # {}

epoll_wait(w) ==
    /\ At(w, "wait")
    /\ Available
    /\ got' = [got EXCEPT ![w] = [fd \in Fds |-> IF fd \in rdllist
                                                 THEN Reported(fd) ELSE {}]]
    /\ woken' = IF pipe THEN woken \cup {w} ELSE woken
    /\ rdllist' = {}
    /\ pipe' = FALSE
    /\ Goto(w, "expire")
    /\ UNCHANGED <<fdVars, interest, cur, ended, taskVars, envVars>>

\* ... or nothing, after at most MAX_TIMEOUT.
TimedOut(w) ==
    /\ At(w, "wait")
    /\ ~Available
    /\ Goto(w, "expire")
    /\ UNCHANGED onlyPc

\* listExpireCb() and the batch schedule() of what it collected.
listExpireCb(w) ==
    /\ At(w, "expire")
    /\ timers' = timers \ due
    /\ due' = {}
    /\ late' = late \ due
    /\ schedule(due)
    /\ Goto(w, "events")
    /\ UNCHANGED <<fdVars, epollVars, cur, got, woken, ended, fresh, ready, open,
                   stopped, ops, aborted>>

\* One turn of the loop over events[], for the tickle pipe: it is read empty,
\* which takes back an edge no thread has seen yet.
ReadPipe(w) ==
    /\ At(w, "events")
    /\ w \in woken
    /\ woken' = woken \ {w}
    /\ pipe' = FALSE
    /\ UNCHANGED <<fdVars, epollVars, pc, cur, got, ended, taskVars, envVars>>

\* The events that count of the reported conditions r: after an error or a
\* hang-up both events do as far as they are registered.
real_events(fd, r) == (r \cap Event) \cup (IF "HUP" \in r THEN events[fd] ELSE {})

\* One turn of the loop over events[].
Handle(w, fd, skip, left, real) ==
    /\ At(w, "events")
    /\ got[w][fd] # {}
    /\ got' = [got EXCEPT ![w][fd] = {}]
    /\ IF skip \/ CtlFails(fd, events[fd])
       THEN UNCHANGED <<fdVars, epollVars, m_fibers, pipe, aborted>>
       ELSE /\ epoll_ctl(fd, left)
            /\ IF real \subseteq events[fd]
               THEN triggerEvents(fd, real) /\ UNCHANGED aborted
               ELSE aborted' = "triggerEvent" /\ UNCHANGED <<fdVars, m_fibers, pipe>>
    /\ UNCHANGED <<pc, cur, woken, ended, timers, due, fresh, ready, open,
                   stopped, late, ops>>

\* Mutants: the other event is deleted too; the mask is the full one.
HandleEventDel(w, fd) ==
    LET real == real_events(fd, got[w][fd])
    IN  Handle(w, fd, events[fd] \cap real = {}, {}, real)
HandleEventAll(w, fd) == Handle(w, fd, events[fd] = {}, {}, Event)

HandleEvent(w, fd) ==
    LET real == real_events(fd, got[w][fd])
    IN  Handle(w, fd, events[fd] \cap real = {}, events[fd] \ real, real)

\* All handled: swapOut, --m_idleThreadCount.
LeaveIdle(w) ==
    /\ At(w, "events")
    /\ got[w] = Nothing /\ w \notin woken
    /\ Goto(w, "scan")
    /\ UNCHANGED onlyPc

-----------------------------------------------------------------------------

BodyOp(w) ==
    \/ \E fd \in Fds, e \in Event, x \in Tasks : addEvent(w, fd, e, x)
    \/ \E fd \in Fds, e \in Event :
         cancelEvent(w, fd, e) \/ delEvent(w, fd, e) \/ Drain(w, fd, e)
    \/ \E fd \in Fds : cancelAll(w, fd) \/ Close(w, fd) \/ Reopen(w, fd)
    \/ \E c \in Callbacks : addTimer(w, c)

idle(w) ==
    \/ stoppingTimers(w) \/ stoppingPending(w) \/ stoppingBase(w)
    \/ epoll_wait(w) \/ TimedOut(w)
    \/ listExpireCb(w)
    \/ ReadPipe(w)
    \/ \E fd \in Fds : HandleEvent(w, fd)
    \/ LeaveIdle(w)

run(w) ==
    \/ \E x \in Tasks : Take(w, x)
    \/ TakeNothing(w)
    \/ BodyOp(w) \/ Leave(w)
    \/ EnterIdle(w)
    \/ idle(w)

Terminated ==
    /\ aborted # "no" \/ \A w \in Threads : pc[w] = "exit"
    /\ UNCHANGED vars

Next ==
    \/ \E w \in Threads : run(w)
    \/ \E x \in Tasks : ClientSchedule(x)
    \/ \E c \in Callbacks : ClientAddTimer(c) \/ Due(c)
    \/ \E fd \in Fds : \E r \in Uses[fd] \cup {"HUP"} : Arrive(fd, r)
    \/ stop
    \/ Terminated

Spec == Init /\ [][Next]_vars

\* Threads keep running and epoll_wait has a timeout; bodies end; what is
\* waited for arrives and the time of timers comes.
FairSpec ==
    /\ Spec
    /\ \A w \in Threads : WF_vars(run(w))
    /\ \A c \in Callbacks : WF_vars(Due(c))
    /\ \A fd \in Fds : \A e \in Uses[fd] : WF_vars(e \in interest[fd] /\ Arrive(fd, e))

-----------------------------------------------------------------------------
(* Properties.                                                             *)

\* m_pendingEventCount, which keeps the threads from leaving, is the number
\* of registered events on every path that registers, triggers or drops one,
\* and an event is registered exactly while somebody is to be scheduled.
PendingExact ==
    /\ m_pendingEventCount =
         Cardinality({p \in Fds \X Event : p[2] \in events[p[1]]})
    /\ \A fd \in Fds, e \in Event : e \in events[fd] <=> ctx[fd][e] # None

\* Edge-triggered readiness is not lost: a registered event whose condition
\* holds is on epoll's ready list or in the hands of a thread that has yet to
\* handle it.
EdgeNotLost ==
    aborted = "no" =>
        \A fd \in Fds : mine[fd] \cap ready[fd] # {} =>
            fd \in rdllist \/ \E w \in Threads : got[w][fd] # {}

\* The assertions of addEvent and triggerEvent do not fail.
NoAssertFails == aborted = "no"

\* The only assertion that fails is the one of addEvent, for a descriptor that
\* was closed while an event was registered and whose number is in use again:
\* close() leaves the context as it was.  (True of one thread.)
AssertOnlyOnReuse ==
    aborted = "no" \/ (aborted = "addEvent" /\ \E fd \in Fds : events[fd] # mine[fd])

\* When all threads have left, nothing waits: ~Fiber asserts that no fiber is
\* destroyed in state HOLD, and the destructor of the IOManager destroys the
\* fibers its contexts still hold.  A timer that a thread outside the pool
\* sets while every thread is between the reads of stopping(), past
\* getNextTimer(), is not covered: stop() may follow, and it stays behind.
NoneStranded ==
    (aborted = "no" /\ \A w \in Threads : pc[w] = "exit") =>
        m_fibers = {} /\ timers \subseteq late /\ events = Nothing

\* Who waits in an event's context, in a timer or in the list is executed
\* later unless stop() is called: neither a lost edge nor a lost tickle is for
\* ever.  (What becomes of them after stop() is the subject of NoneStranded.)
EveryTaskRuns ==
    \A x \in Tasks :
        (x \in m_fibers \cup timers \/ \E fd \in Fds, e \in Event : ctx[fd][e] = x)
        ~> stopped \/ \E w \in Threads : cur[w] = x

\* After stop() every thread leaves run(), so the join in stop() returns.
StopReturns == stopped ~> \A w \in Threads : pc[w] = "exit"
=============================================================================
