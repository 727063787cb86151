----------------------------- MODULE Scheduler -----------------------------
(***************************************************************************)
(* bobliew::Scheduler (scheduler.h, scheduler.cc) and the part of          *)
(* bobliew::Fiber (fiber.cc) it drives: several threads execute            *)
(* Scheduler::run, take tasks from the shared list m_fibers and swap       *)
(* fibers in and out, while the client thread starts and stops the pool.   *)
(*                                                                         *)
(* A task is a Fiber::ptr created by the client (Fibers) or a              *)
(* std::function (Callbacks).  The fiber a worker allocates for callback c *)
(* (new Fiber(ft.cb)) is named c; the worker may reuse it for a later      *)
(* callback, so m_cb[f] says whose body fiber f executes.                  *)
(*                                                                         *)
(* One action is one stretch of code no other thread can observe the       *)
(* middle of: everything done under m_mutex, or the statements between     *)
(* two accesses to shared state.                                           *)
(***************************************************************************)
EXTENDS Naturals, Sequences, FiniteSets

CONSTANTS
    Threads,        \* the threads that execute Scheduler::run
    Caller,         \* the use_caller thread, or None when use_caller = false
    Fibers,         \* tasks handed over as Fiber::ptr
    Callbacks,      \* tasks handed over as std::function
    ReadyYielders,  \* tasks whose body may call Fiber::YieldToReady
    HoldYielders,   \* tasks whose body may register itself somewhere and
                    \*   call Fiber::YieldToHold
    Twice,          \* client fibers the client schedules a second time
    CrossPins,      \* may a body schedule a task on another given thread?
    MaxYields,      \* bound on the number of yields of all bodies together
    None,           \* a null pointer
    AnyThread       \* thread = -1

Tasks == Fibers \cup Callbacks

ASSUME SchedulerAssumption ==
    /\ Threads # {} /\ IsFiniteSet(Threads)
    /\ Caller \in Threads \cup {None}
    /\ Fibers \cap Callbacks = {}
    /\ ReadyYielders \subseteq Tasks
    /\ HoldYielders \subseteq Tasks
    /\ Twice \subseteq Fibers
    /\ CrossPins \in BOOLEAN
    /\ MaxYields \in Nat
    /\ None \notin Threads \cup Tasks
    /\ AnyThread \notin Threads \cup {None}

VARIABLES
    m_state,    \* Fiber::m_state; "FREE" when the fiber is not allocated
    m_cb,       \* Fiber::m_cb, the body the fiber executes
    m_fibers,   \* the list of FiberAndThread entries
    m_activeThreadCount,
    m_idleThreadCount,
    m_stopping,
    m_autoStop,
    pc,         \* where in Scheduler::run a thread is
    ft,         \* the local FiberAndThread ft of run()
    cb_fiber,   \* the local cb_fiber of run()
    idle_state, \* m_state of the local idle_fiber of run()
    client,     \* where in its program the client thread is
    waiters,    \* fibers registered with a timer, event or semaphore that
                \*   will schedule them
    fresh,      \* tasks nobody has scheduled yet
    again,      \* fibers of Twice that wait for their second schedule()
    pin,        \* the thread a task was scheduled on (history)
    runs,       \* how often the body of a task was entered (history)
    yields,     \* yields so far, for MaxYields
    aborted     \* the BOBLIEW_ASSERT that ended the process, or "no"

queueVars == <<m_fibers, fresh, again, pin>>
fiberVars == <<m_state, m_cb, runs>>
flagVars == <<m_stopping, m_autoStop, client>>
counts == <<m_activeThreadCount, m_idleThreadCount>>
locals == <<ft, cb_fiber, idle_state>>
rest == <<waiters, yields, aborted>>
vars == <<queueVars, fiberVars, flagVars, counts, pc, locals, rest>>

State == {"INIT", "HOLD", "EXEC", "TERM", "READY", "EXCEPT"}
Ended == {"TERM", "EXCEPT"}

Entry == [fiber : Tasks \cup {None}, cb : Callbacks \cup {None},
          thread : Threads \cup {AnyThread}]
NoEntry == [fiber |-> None, cb |-> None, thread |-> AnyThread]
FiberEntry(f, t) == [fiber |-> f, cb |-> None, thread |-> t]
CbEntry(c, t) == [fiber |-> None, cb |-> c, thread |-> t]
TaskEntry(x, t) == IF x \in Fibers THEN FiberEntry(x, t) ELSE CbEntry(x, t)

\* The fiber a worker has swapped in, or has just got back from.
Current(w) == IF ft[w].fiber # None THEN ft[w].fiber ELSE cb_fiber[w]

\* The stack of Current(w) is in use by thread w.
Running(w) == pc[w] \in {"body", "hold", "out"}

TypeOK ==
    /\ m_state \in [Tasks -> State \cup {"FREE"}]
    /\ m_cb \in [Tasks -> Tasks \cup {None}]
    /\ m_fibers \in Seq(Entry)
    /\ m_activeThreadCount \in Nat
    /\ m_idleThreadCount \in Nat
    /\ m_stopping \in BOOLEAN
    /\ m_autoStop \in BOOLEAN
    /\ pc \in [Threads -> {"off", "scan", "dispatch", "empty", "idle",
                           "body", "hold", "out", "back", "exit"}]
    /\ ft \in [Threads -> Entry]
    /\ cb_fiber \in [Threads -> Tasks \cup {None}]
    /\ idle_state \in [Threads -> {"INIT", "HOLD", "EXEC", "TERM"}]
    /\ client \in {"new", "started", "stop", "check", "root", "join", "done"}
    /\ waiters \subseteq Tasks
    /\ fresh \subseteq Tasks
    /\ again \subseteq Fibers
    /\ pin \in [Tasks -> Threads \cup {AnyThread}]
    /\ runs \in [Tasks -> Nat]
    /\ yields \in 0..MaxYields
    /\ aborted \in {"no", "swapIn", "reset"}

Init ==
    /\ m_state = [f \in Tasks |-> IF f \in Fibers THEN "INIT" ELSE "FREE"]
    /\ m_cb = [f \in Tasks |-> IF f \in Fibers THEN f ELSE None]
    /\ m_fibers = << >>
    /\ m_activeThreadCount = 0
    /\ m_idleThreadCount = 0
    /\ m_stopping = TRUE
    /\ m_autoStop = FALSE
    /\ pc = [w \in Threads |-> "off"]
    /\ ft = [w \in Threads |-> NoEntry]
    /\ cb_fiber = [w \in Threads |-> None]
    /\ idle_state = [w \in Threads |-> "INIT"]
    /\ client = "new"
    /\ waiters = {}
    /\ fresh = Tasks
    /\ again = Twice
    /\ pin = [x \in Tasks |-> AnyThread]
    /\ runs = [x \in Tasks |-> 0]
    /\ yields = 0
    /\ aborted = "no"

\* A thread is at a place in run(), the client in its program; a failed
\* assertion ends the process.
At(w, place) == aborted = "no" /\ pc[w] = place
ClientAt(places) == aborted = "no" /\ client \in places

-----------------------------------------------------------------------------
(* Scheduling: schedule() appends an entry under m_mutex.  The tickle() of *)
(* the base class only logs.                                               *)

\* Mutant: the entry is only pushed onto an empty list.
scheduleIfEmpty(e) == m_fibers' = IF m_fibers = << >> THEN <<e>> ELSE m_fibers

schedule(e) == m_fibers' = Append(m_fibers, e)

\* Scheduling a task for the first time, by the client or by another body.
Submit(x, t) ==
    /\ x \in fresh
    /\ fresh' = fresh \ {x}
    /\ pin' = [pin EXCEPT ![x] = t]
    /\ schedule(TaskEntry(x, t))

\* The client may schedule before and after start(), until it calls stop().
ClientSchedule(x, t) ==
    /\ ClientAt({"new", "started"})
    /\ Submit(x, t)
    /\ UNCHANGED <<again, fiberVars, flagVars, pc, counts, locals, rest>>

\* It may hand over the same Fiber::ptr again, on any thread.
ClientReschedule(f) ==
    /\ ClientAt({"new", "started"})
    /\ f \in again \ fresh
    /\ again' = again \ {f}
    /\ schedule(FiberEntry(f, AnyThread))
    /\ UNCHANGED <<fiberVars, flagVars, fresh, pin, pc, counts, locals, rest>>

\* Whoever a fiber registered with (a timer, an epoll event, a semaphore)
\* schedules it once, on any thread, at any time after the registration.
Wake(f) ==
    /\ aborted = "no"
    /\ f \in waiters
    /\ waiters' = waiters \ {f}
    /\ schedule(FiberEntry(f, AnyThread))
    /\ UNCHANGED <<fiberVars, flagVars, fresh, again, pin, pc, yields,
                   aborted, counts, locals>>

-----------------------------------------------------------------------------
(* The client: start() and stop().                                         *)

\* Mutant: stopping() does not look at m_activeThreadCount.
QuietListOnly == m_fibers = << >>

Quiet == m_fibers = << >> /\ m_activeThreadCount = 0

Stopping == m_autoStop /\ m_stopping /\ Quiet

\* start() holds m_mutex until all threads exist; they first need it in Take.
start ==
    /\ ClientAt({"new"})
    /\ m_stopping
    /\ m_stopping' = FALSE
    /\ client' = "started"
    /\ pc' = [w \in Threads |-> IF w = Caller THEN "off" ELSE "scan"]
    /\ UNCHANGED <<queueVars, fiberVars, m_autoStop, counts, locals, rest>>

\* stop() without the early return: m_autoStop = true ...
stopAuto ==
    /\ ClientAt({"started"})
    /\ m_autoStop' = TRUE
    /\ client' = "stop"
    /\ UNCHANGED <<queueVars, fiberVars, m_stopping, pc, counts, locals,
                   rest>>

\* ... m_stopping = true, returning at once when there is only the root
\* fiber and nothing for it to do ...
stopFlag ==
    /\ ClientAt({"stop"})
    /\ m_stopping' = TRUE
    /\ client' = IF Threads = {Caller} /\ Quiet THEN "done" ELSE "check"
    /\ UNCHANGED <<queueVars, fiberVars, m_autoStop, pc, counts, locals,
                   rest>>

\* Mutant: stop() never calls the root fiber.
stopCheckNoRoot ==
    /\ ClientAt({"check"})
    /\ client' = "join"
    /\ UNCHANGED <<queueVars, fiberVars, m_stopping, m_autoStop, pc, counts,
                   locals, rest>>

\* ... with use_caller, run() on the root fiber unless all is done ...
stopCheck ==
    /\ ClientAt({"check"})
    /\ IF ~Stopping /\ Caller # None
       THEN /\ client' = "root"
            /\ pc' = [pc EXCEPT ![Caller] = "scan"]
       ELSE /\ client' = "join"
            /\ UNCHANGED pc
    /\ UNCHANGED <<queueVars, fiberVars, m_stopping, m_autoStop, counts,
                   locals, rest>>

\* Mutant: stop() does not join the threads.
stopNoJoin ==
    /\ ClientAt({"root", "join"})
    /\ client = "root" => pc[Caller] = "exit"
    /\ client' = "done"
    /\ UNCHANGED <<queueVars, fiberVars, m_stopping, m_autoStop, pc, counts,
                   locals, rest>>

\* ... and join the threads of the pool.
stopJoin ==
    /\ \/ /\ ClientAt({"root"})
          /\ pc[Caller] = "exit"
          /\ client' = "join"
       \/ /\ ClientAt({"join"})
          /\ \A w \in Threads \ {Caller} : pc[w] = "exit"
          /\ client' = "done"
    /\ UNCHANGED <<queueVars, fiberVars, m_stopping, m_autoStop, pc, counts,
                   locals, rest>>

-----------------------------------------------------------------------------
(* Scheduler::run.                                                         *)

\* Mutant: the thread of the entry is not looked at.
EligibleAnywhere(w, e) == e.fiber # None => m_state[e.fiber] # "EXEC"

\* An entry thread w may take: not pinned elsewhere, fiber not executing.
Eligible(w, e) ==
    /\ e.thread \in {AnyThread, w}
    /\ e.fiber # None => m_state[e.fiber] # "EXEC"

Takeable(w) == {i \in DOMAIN m_fibers : Eligible(w, m_fibers[i])}

\* Mutants: the entry taken stays in the list; the first one is erased.
EraseNothing(s, i) == s
EraseFront(s, i) == Tail(s)

\* m_fibers.erase(it)
Erase(s, i) == [j \in 1..(Len(s) - 1) |-> IF j < i THEN s[j] ELSE s[j + 1]]

\* The scan under m_mutex takes the first such entry ...
Take(w) ==
    /\ At(w, "scan")
    /\ \E i \in Takeable(w) :
         /\ \A j \in Takeable(w) : i <= j
         /\ ft' = [ft EXCEPT ![w] = m_fibers[i]]
         /\ m_fibers' = Erase(m_fibers, i)
    /\ m_activeThreadCount' = m_activeThreadCount + 1
    /\ pc' = [pc EXCEPT ![w] = "dispatch"]
    /\ UNCHANGED <<fiberVars, flagVars, fresh, again, pin, m_idleThreadCount,
                   cb_fiber, idle_state, rest>>

\* ... or finds none.
TakeNothing(w) ==
    /\ At(w, "scan")
    /\ Takeable(w) = {}
    /\ pc' = [pc EXCEPT ![w] = "empty"]
    /\ UNCHANGED <<queueVars, fiberVars, flagVars, counts, locals, rest>>

\* Mutant: swapIn forgets m_state = EXEC.
swapInStateKept(w, f, b, state) ==
    /\ m_cb' = [m_cb EXCEPT ![f] = b]
    /\ runs' = [x \in Tasks |-> IF x = b /\ state = "INIT" THEN runs[x] + 1
                                                          ELSE runs[x]]
    /\ pc' = [pc EXCEPT ![w] = "body"]
    /\ UNCHANGED <<m_state, aborted>>

\* Fiber::swapIn; a fiber in state INIT starts its body.
swapIn(w, f, b, state) ==
    IF state = "EXEC"
    THEN /\ aborted' = "swapIn"
         /\ UNCHANGED <<fiberVars, pc>>
    ELSE /\ m_state' = [m_state EXCEPT ![f] = "EXEC"]
         /\ m_cb' = [m_cb EXCEPT ![f] = b]
         /\ runs' = [x \in Tasks |-> IF x = b /\ state = "INIT" THEN runs[x] + 1
                                                               ELSE runs[x]]
         /\ pc' = [pc EXCEPT ![w] = "body"]
         /\ UNCHANGED aborted

DispatchFiber(w) ==
    /\ At(w, "dispatch")
    /\ LET f == ft[w].fiber IN
         /\ f # None
         /\ m_state[f] \notin Ended
         /\ swapIn(w, f, m_cb[f], m_state[f])
    /\ UNCHANGED <<queueVars, flagVars, waiters, yields, counts, locals>>

\* The fiber ended since it was scheduled: drop the entry.
DispatchEnded(w) ==
    /\ At(w, "dispatch")
    /\ ft[w].fiber # None
    /\ m_state[ft[w].fiber] \in Ended
    /\ m_activeThreadCount' = m_activeThreadCount - 1
    /\ ft' = [ft EXCEPT ![w] = NoEntry]
    /\ pc' = [pc EXCEPT ![w] = "scan"]
    /\ UNCHANGED <<queueVars, fiberVars, flagVars, m_idleThreadCount,
                   cb_fiber, idle_state, rest>>

\* Mutant: reset() only accepts ended fibers.
ResettableEnded(f) == m_state[f] \in Ended

\* Fiber::reset asserts that the fiber it gives a new body is not in use.
Resettable(f) == m_state[f] \in Ended \cup {"INIT"}

\* A callback runs on the worker's cb_fiber, or on a new Fiber.
DispatchCb(w) ==
    /\ At(w, "dispatch")
    /\ ft[w].cb # None
    /\ LET c == ft[w].cb
           f == IF cb_fiber[w] # None THEN cb_fiber[w] ELSE c IN
         IF cb_fiber[w] # None /\ ~Resettable(f)
         THEN /\ aborted' = "reset"
              /\ UNCHANGED <<fiberVars, pc, ft, cb_fiber>>
         ELSE /\ cb_fiber' = [cb_fiber EXCEPT ![w] = f]
              /\ ft' = [ft EXCEPT ![w] = NoEntry]
              /\ swapIn(w, f, c, "INIT")
    /\ UNCHANGED <<queueVars, flagVars, idle_state, waiters, yields, counts>>

-----------------------------------------------------------------------------
(* The body of a fiber.  The fiber writes m_state before swapcontext saves *)
(* its context (pc "out"), so others can see the new state while the stack *)
(* is still in use.                                                        *)

LeaveBody(w, state) ==
    /\ m_state' = [m_state EXCEPT ![Current(w)] = state]
    /\ pc' = [pc EXCEPT ![w] = "out"]

YieldToReady(w) ==
    /\ At(w, "body")
    /\ m_cb[Current(w)] \in ReadyYielders
    /\ yields < MaxYields
    /\ yields' = yields + 1
    /\ LeaveBody(w, "READY")
    /\ UNCHANGED <<queueVars, flagVars, m_cb, runs, waiters, aborted, counts,
                   locals>>

\* The body hands its own Fiber::ptr to whoever is to wake it (addEvent,
\* addTimer, FiberSemaphore::wait) ...
Register(w) ==
    /\ At(w, "body")
    /\ m_cb[Current(w)] \in HoldYielders
    /\ yields < MaxYields
    /\ yields' = yields + 1
    /\ waiters' = waiters \cup {Current(w)}
    /\ pc' = [pc EXCEPT ![w] = "hold"]
    /\ UNCHANGED <<queueVars, fiberVars, flagVars, aborted, counts, locals>>

\* ... and then yields.
YieldToHold(w) ==
    /\ At(w, "hold")
    /\ LeaveBody(w, "HOLD")
    /\ UNCHANGED <<queueVars, flagVars, m_cb, runs, counts, locals, rest>>

\* MainFunc: the body returns (TERM, m_cb released) or throws (EXCEPT).
MainFuncEnd(w) ==
    /\ At(w, "body")
    /\ \E state \in Ended :
         /\ LeaveBody(w, state)
         /\ m_cb' = IF state = "TERM" THEN [m_cb EXCEPT ![Current(w)] = None]
                                      ELSE m_cb
    /\ UNCHANGED <<queueVars, flagVars, runs, counts, locals, rest>>

\* The body schedules another task.
BodySchedule(w, x, t) ==
    /\ At(w, "body")
    /\ CrossPins \/ t \in {AnyThread, w}
    /\ Submit(x, t)
    /\ UNCHANGED <<again, fiberVars, flagVars, pc, counts, locals, rest>>

\* Mutant: no decrement after swapOut.
swapOutUncounted(w) ==
    /\ At(w, "out")
    /\ pc' = [pc EXCEPT ![w] = "back"]
    /\ UNCHANGED <<queueVars, fiberVars, flagVars, counts, locals, rest>>

\* swapOut returns to run(), which decrements m_activeThreadCount ...
swapOut(w) ==
    /\ At(w, "out")
    /\ m_activeThreadCount' = m_activeThreadCount - 1
    /\ pc' = [pc EXCEPT ![w] = "back"]
    /\ UNCHANGED <<queueVars, fiberVars, flagVars, m_idleThreadCount, locals,
                   rest>>

-----------------------------------------------------------------------------
(* ... and then looks at the state the fiber is in.                        *)

\* A READY fiber goes back to the list, without the thread it was pinned to.
Requeue(f) ==
    IF m_state[f] = "READY" THEN schedule(FiberEntry(f, AnyThread))
                            ELSE UNCHANGED m_fibers

BackFiber(w) ==
    /\ At(w, "back")
    /\ LET f == ft[w].fiber IN
         /\ f # None
         /\ Requeue(f)
         /\ m_state' = IF m_state[f] \in Ended \cup {"READY"} THEN m_state
                       ELSE [m_state EXCEPT ![f] = "HOLD"]
    /\ ft' = [ft EXCEPT ![w] = NoEntry]
    /\ pc' = [pc EXCEPT ![w] = "scan"]
    /\ UNCHANGED <<flagVars, m_cb, runs, fresh, again, pin, cb_fiber,
                   idle_state, counts, rest>>

\* After a callback: READY keeps cb_fiber, an ended fiber is reset for
\* reuse, any other is given up.
BackCb(w) ==
    /\ At(w, "back")
    /\ ft[w].fiber = None
    /\ LET f == cb_fiber[w] IN
         /\ Requeue(f)
         /\ \/ /\ m_state[f] = "READY"
               /\ UNCHANGED <<m_state, m_cb, cb_fiber>>
            \/ /\ m_state[f] \in Ended
               /\ m_state' = [m_state EXCEPT ![f] = "INIT"]
               /\ m_cb' = [m_cb EXCEPT ![f] = None]
               /\ UNCHANGED cb_fiber
            \/ /\ m_state[f] \notin Ended \cup {"READY"}
               /\ m_state' = [m_state EXCEPT ![f] = "HOLD"]
               /\ cb_fiber' = [cb_fiber EXCEPT ![w] = None]
               /\ UNCHANGED m_cb
    /\ pc' = [pc EXCEPT ![w] = "scan"]
    /\ UNCHANGED <<flagVars, runs, fresh, again, pin, ft, idle_state, counts,
                   rest>>

\* Nothing taken: leave run() if the idle fiber ended, else swap it in.
EnterIdle(w) ==
    /\ At(w, "empty")
    /\ IF idle_state[w] = "TERM"
       THEN /\ pc' = [pc EXCEPT ![w] = "exit"]
            /\ UNCHANGED <<m_idleThreadCount, idle_state>>
       ELSE /\ m_idleThreadCount' = m_idleThreadCount + 1
            /\ idle_state' = [idle_state EXCEPT ![w] = "EXEC"]
            /\ pc' = [pc EXCEPT ![w] = "idle"]
    /\ UNCHANGED <<queueVars, fiberVars, flagVars, m_activeThreadCount, ft,
                   cb_fiber, rest>>

\* idle() asks stopping() once per swapIn: it ends or yields to HOLD.
idle(w) ==
    /\ At(w, "idle")
    /\ idle_state' = [idle_state EXCEPT ![w] = IF Stopping THEN "TERM"
                                                           ELSE "HOLD"]
    /\ m_idleThreadCount' = m_idleThreadCount - 1
    /\ pc' = [pc EXCEPT ![w] = "scan"]
    /\ UNCHANGED <<queueVars, fiberVars, flagVars, m_activeThreadCount, ft,
                   cb_fiber, rest>>

-----------------------------------------------------------------------------

Stop == stopAuto \/ stopFlag \/ stopCheck \/ stopJoin

BodyStep(w) ==
    \/ YieldToReady(w)
    \/ Register(w)
    \/ YieldToHold(w)
    \/ MainFuncEnd(w)
    \/ \E x \in Tasks, t \in Threads \cup {AnyThread} : BodySchedule(w, x, t)

run(w) ==
    \/ Take(w) \/ TakeNothing(w)
    \/ DispatchFiber(w) \/ DispatchEnded(w) \/ DispatchCb(w)
    \/ BodyStep(w)
    \/ swapOut(w)
    \/ BackFiber(w) \/ BackCb(w)
    \/ EnterIdle(w) \/ idle(w)

\* A failed assertion ends the process; after stop() returned nothing runs.
Terminated ==
    /\ aborted # "no" \/ (client = "done" /\ waiters = {})
    /\ UNCHANGED vars

Next ==
    \/ \E x \in Tasks, t \in Threads \cup {AnyThread} : ClientSchedule(x, t)
    \/ \E f \in Fibers : ClientReschedule(f)
    \/ \E f \in Tasks : Wake(f)
    \/ start \/ Stop
    \/ \E w \in Threads : run(w)
    \/ Terminated

Spec == Init /\ [][Next]_vars

\* The operating system runs every thread, bodies end (yields are bounded),
\* a registered fiber is woken, and the client calls start() and stop().
Fairness ==
    /\ \A w \in Threads : WF_vars(run(w))
    /\ \A f \in Tasks : WF_vars(Wake(f))
    /\ WF_vars(start \/ Stop)

FairSpec == Spec /\ Fairness

-----------------------------------------------------------------------------
(* Properties.                                                             *)

\* The threads that hold a task: from the scan that took an entry to the
\* decrement after the fiber was swapped out.
Active == {w \in Threads : pc[w] \in {"dispatch", "body", "hold", "out"}}

Idlers == {w \in Threads : pc[w] = "idle"}

\* stopping() and hasIdleThreads() may rely on the atomic counters: on every
\* path through run() they are exactly the number of threads that hold a
\* task, and that have their idle fiber swapped in.
CountersExact ==
    /\ m_activeThreadCount = Cardinality(Active)
    /\ m_idleThreadCount = Cardinality(Idlers)

\* "if this fiber is already running, go on to the next" (the scan in run()):
\* no fiber's stack is ever used by two threads at the same time.
OneThreadPerFiber ==
    \A v, w \in Threads :
        (v # w /\ Running(v) /\ Running(w)) => Current(v) # Current(w)

\* The assertions about a fiber's state hold: those of Fiber::swapIn and
\* Fiber::reset never fail, and while a body runs its fiber is in state EXEC, as
\* IOManager::addEvent asserts of the fiber it registers.
NoAssertFails ==
    /\ aborted = "no"
    /\ \A w \in Threads :
          pc[w] \in {"body", "hold"} => m_state[Current(w)] = "EXEC"

\* Where an entry for callback c can be.
Queued(c) == {i \in DOMAIN m_fibers : m_fibers[i].cb = c}
Taken(c) == {w \in Threads : pc[w] = "dispatch" /\ ft[w].cb = c}

\* Not scheduled yet, or entered once; else one entry, queued or taken.
Kept(c) ==
    IF c \in fresh \/ runs[c] = 1
    THEN /\ Queued(c) = {} /\ Taken(c) = {}
         /\ c \in fresh => runs[c] = 0
    ELSE /\ runs[c] = 0
         /\ \/ Taken(c) = {} /\ \E i \in DOMAIN m_fibers : Queued(c) = {i}
            \/ Queued(c) = {} /\ \E w \in Threads : Taken(c) = {w}

\* A callback is neither lost nor duplicated, whatever the threads do: once
\* scheduled it is one entry of the list, or one thread has taken it, or its
\* body was entered, once.
CallbackConserved == \A c \in Callbacks : Kept(c)

\* The idle fiber of a thread ends, and the thread leaves run(), only when
\* stop() was called, nothing is queued and no thread holds a task.
NoEarlyExit ==
    [][\A w \in Threads : idle_state[w] # "TERM" /\ idle_state'[w] = "TERM" =>
          m_autoStop /\ m_fibers = << >> /\ Active = {}]_vars

\* stop() returns only when every task scheduled was entered and no fiber
\* is left in the list or about to be put back into it.
StopDrains ==
    client = "done" =>
        /\ \A x \in Tasks \ fresh : runs[x] = 1
        /\ \A f \in Tasks : m_state[f] # "READY"
        /\ m_fibers = << >>

\* The thread argument of schedule() is the thread the task executes on, as
\* long as it does not yield to READY (run() puts such a fiber back with
\* thread -1).
PinRespected ==
    \A w \in Threads : LET x == m_cb[Current(w)] IN
        Running(w) /\ x \in Tasks \ ReadyYielders => pin[x] \in {AnyThread, w}

\* Once called, stop() returns: all threads see stopping() and leave run().
StopReturns == (client = "stop") ~> (client = "done")

\* Every scheduled task is entered in the end.
EveryTaskRuns == \A x \in Tasks : (x \notin fresh) ~> (runs[x] > 0)
=============================================================================
