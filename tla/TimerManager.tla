---------------------------- MODULE TimerManager ----------------------------
(***************************************************************************)
(* bobliew::TimerManager and bobliew::Timer (timer.h, timer.cc), with the  *)
(* part of IOManager::idle that serves them: threads that find nothing to  *)
(* run ask getNextTimer() how long to sleep in epoll_wait, and on waking   *)
(* collect the expired callbacks with listExpireCb().                      *)
(*                                                                         *)
(* m_timers is ordered by m_next and then by address; the model keeps the  *)
(* set and lets ties go either way.  Everything done under m_mutex is one  *)
(* action; reading the clock before locking and calling                    *)
(* onTimerInsertedAtFront() after unlocking are actions of their own.      *)
(***************************************************************************)
EXTENDS Integers, FiniteSets

CONSTANTS
    Timers,      \* the Timer objects clients create
    Workers,     \* the threads that become idle
    Delays,      \* the intervals (ms) clients use
    MAX_TIMEOUT, \* longest sleep in epoll_wait, 3000 in the code
    HOUR,        \* 60*60*1000 in detectClockRollover
    IntHalf,     \* int holds -IntHalf .. IntHalf - 1
    MaxTime,     \* bound: the clock stops here
    ClockSets,   \* the values an administrator may set the clock to
    MaxUpdates   \* bound on refresh(), reset() and clock changes

ASSUME TimerAssumption ==
    /\ IsFiniteSet(Workers) /\ Workers # {}
    /\ Delays \subseteq Nat
    /\ MAX_TIMEOUT \in Nat \ {0}
    /\ HOUR \in Nat
    /\ IntHalf \in Nat \ {0}
    /\ MaxTime \in Nat
    /\ ClockSets \subseteq 0..MaxTime
    /\ MaxUpdates \in Nat

VARIABLES
    m_timers, m_tickled, m_previousTime,   \* the TimerManager
    m_next, m_ms, m_recurring, m_cb,       \* the Timers (m_cb: not null)
    stage,      \* of a Timer: "none", "built" (constructed), "in" (inserted)
    now,        \* GetCurrentMS()
    notify,     \* onTimerInsertedAtFront() calls that are still to be made
    pipe,       \* epoll has an unseen write to the tickle pipe
    pc,         \* where in run() and idle() a worker is
    until,      \* when its epoll_wait times out, NoTimeout for never
    now_ms,     \* the local now_ms of listExpireCb
    cbs,        \* how often the callback of a timer was scheduled, up to 2
                \*   (history)
    cancelled,  \* the timers for which cancel() returned true (history)
    updates     \* refresh() and reset() calls and clock changes so far

timerVars == <<m_next, m_ms, m_recurring, m_cb, stage>>
managerVars == <<m_timers, m_tickled, m_previousTime>>
workerVars == <<pc, until, now_ms>>
historyVars == <<cbs, cancelled>>
vars == <<timerVars, managerVars, workerVars, historyVars, now, notify, pipe,
          updates>>

NoTimeout == -1

\* Workers counted in m_idleThreadCount, and those inside epoll_wait.
IdleThreads == {w \in Workers : pc[w] # "busy"}
Asleep == {w \in Workers : pc[w] = "sleep"}

TypeOK ==
    /\ m_timers \subseteq Timers
    /\ m_tickled \in BOOLEAN
    /\ m_previousTime \in Nat
    /\ m_next \in [Timers -> Nat]
    /\ m_ms \in [Timers -> Nat]
    /\ m_recurring \in [Timers -> BOOLEAN]
    /\ m_cb \in [Timers -> BOOLEAN]
    /\ stage \in [Timers -> {"none", "built", "in"}]
    /\ now \in 0..MaxTime
    /\ notify \in Nat
    /\ pipe \in BOOLEAN
    /\ pc \in [Workers -> {"busy", "idle", "sleep", "woke", "list"}]
    /\ until \in [Workers -> Nat \cup {NoTimeout}]
    /\ now_ms \in [Workers -> 0..MaxTime]
    /\ cbs \in [Timers -> 0..2]
    /\ cancelled \subseteq Timers
    /\ updates \in 0..MaxUpdates

Init ==
    /\ m_timers = {} /\ m_tickled = FALSE /\ m_previousTime = 0
    /\ m_next = [t \in Timers |-> 0] /\ m_ms = [t \in Timers |-> 0]
    /\ m_recurring = [t \in Timers |-> FALSE]
    /\ m_cb = [t \in Timers |-> FALSE]
    /\ stage = [t \in Timers |-> "none"]
    /\ now = 0
    /\ notify = 0 /\ pipe = FALSE
    /\ pc = [w \in Workers |-> "busy"]
    /\ until = [w \in Workers |-> NoTimeout]
    /\ now_ms = [w \in Workers |-> 0]
    /\ cbs = [t \in Timers |-> 0]
    /\ cancelled = {}
    /\ updates = 0

-----------------------------------------------------------------------------
(* Clients.                                                                *)

\* The constructor reads the clock, before the lock is taken.
Timer(t, ms, recurring) ==
    /\ stage[t] = "none"
    /\ stage' = [stage EXCEPT ![t] = "built"]
    /\ m_next' = [m_next EXCEPT ![t] = now + ms]
    /\ m_ms' = [m_ms EXCEPT ![t] = ms]
    /\ m_recurring' = [m_recurring EXCEPT ![t] = recurring]
    /\ m_cb' = [m_cb EXCEPT ![t] = TRUE]
    /\ UNCHANGED <<managerVars, workerVars, now, historyVars, notify,
                   pipe, updates>>

\* Mutant: a timer in front is inserted without notice.
InsertSilent(t, next, others) ==
    /\ m_timers' = others \cup {t}
    /\ UNCHANGED <<m_tickled, notify>>

\* addTimer(val, lock): insert a timer due at next into the set others; when
\* it is the new front and nobody was told since the last getNextTimer(),
\* onTimerInsertedAtFront() is called after the unlock.
Insert(t, next, others) ==
    \E front \in BOOLEAN :
        /\ front => \A u \in others : next <= m_next[u]
        /\ ~front => \E u \in others : m_next[u] <= next
        /\ m_timers' = others \cup {t}
        /\ m_tickled' = (m_tickled \/ front)
        /\ notify' = IF front /\ ~m_tickled THEN notify + 1 ELSE notify

addTimer(t) ==
    /\ stage[t] = "built"
    /\ stage' = [stage EXCEPT ![t] = "in"]
    /\ Insert(t, m_next[t], m_timers)
    /\ UNCHANGED <<m_next, m_ms, m_recurring, m_cb, m_previousTime,
                   workerVars, now, historyVars, pipe, updates>>

\* onTimerInsertedAtFront() is IOManager::tickle(): it writes to the pipe if
\* some thread is idle.
onTimerInsertedAtFront ==
    /\ notify > 0
    /\ notify' = notify - 1
    /\ pipe' = (pipe \/ IdleThreads # {})
    /\ UNCHANGED <<timerVars, managerVars, workerVars, now,
                   historyVars, updates>>

\* Mutants: cancel() leaves m_cb, or leaves the timer in m_timers.
cancelNoNull(t) ==
    /\ stage[t] = "in" /\ m_cb[t]
    /\ m_timers' = m_timers \ {t}
    /\ cancelled' = cancelled \cup {t}
    /\ UNCHANGED <<timerVars, m_tickled, m_previousTime, workerVars,
                   now, cbs, notify, pipe, updates>>

cancelNoErase(t) ==
    /\ stage[t] = "in" /\ m_cb[t]
    /\ cancelled' = cancelled \cup {t}
    /\ m_cb' = [m_cb EXCEPT ![t] = FALSE]
    /\ UNCHANGED <<m_next, m_ms, m_recurring, stage, managerVars, workerVars,
                   now, cbs, notify, pipe, updates>>

cancel(t) ==
    /\ stage[t] = "in"
    /\ m_cb[t]
    /\ m_cb' = [m_cb EXCEPT ![t] = FALSE]
    /\ m_timers' = m_timers \ {t}
    /\ cancelled' = cancelled \cup {t}
    /\ UNCHANGED <<m_next, m_ms, m_recurring, stage, m_tickled,
                   m_previousTime, workerVars, now, cbs, notify,
                   pipe, updates>>

\* refresh() erases and inserts again, without looking at the front.
refresh(t) ==
    /\ stage[t] = "in" /\ updates < MaxUpdates
    /\ m_cb[t] /\ t \in m_timers
    /\ m_next' = [m_next EXCEPT ![t] = now + m_ms[t]]
    /\ updates' = updates + 1
    /\ UNCHANGED <<managerVars, m_ms, m_recurring, m_cb, stage, workerVars,
                   now, historyVars, notify, pipe>>

\* reset() counts the new interval from now, or from the old start.
reset(t, ms, from_now) ==
    /\ stage[t] = "in" /\ updates < MaxUpdates
    /\ ms # m_ms[t] \/ from_now
    /\ m_cb[t] /\ t \in m_timers
    /\ LET start == IF from_now THEN now ELSE m_next[t] - m_ms[t] IN
         /\ m_next' = [m_next EXCEPT ![t] = start + ms]
         /\ Insert(t, start + ms, m_timers \ {t})
    /\ m_ms' = [m_ms EXCEPT ![t] = ms]
    /\ updates' = updates + 1
    /\ UNCHANGED <<m_recurring, m_cb, stage, m_previousTime, workerVars, now,
                   historyVars, pipe>>

-----------------------------------------------------------------------------
(* The idle threads.                                                       *)

\* run() found no task: ++m_idleThreadCount and swap the idle fiber in.
EnterIdle(w) ==
    /\ pc[w] = "busy"
    /\ pc' = [pc EXCEPT ![w] = "idle"]
    /\ UNCHANGED <<timerVars, managerVars, until, now_ms, now,
                   historyVars, notify, pipe, updates>>

\* (int) of an unsigned number.
ToInt(n) == LET r == n % (2 * IntHalf) IN IF r < IntHalf THEN r
                                                         ELSE r - 2 * IntHalf

\* The timeout given to epoll_wait when the next timer is due in n ms.
EpollTimeout(n) == ToInt(IF ToInt(n) > MAX_TIMEOUT THEN MAX_TIMEOUT ELSE n)

\* When epoll_wait, called now, times out; never with a negative timeout.
Deadline(timeout) == IF timeout < 0 THEN NoTimeout ELSE now + timeout

\* getNextTimer() for a timer due at next, as a distance from now.
Until(next) == IF now >= next THEN 0 ELSE next - now

\* Mutant: m_tickled is never cleared.
getNextTimerKeeps(w) ==
    /\ pc[w] = "idle"
    /\ \/ /\ m_timers = {}
          /\ until' = [until EXCEPT ![w] = Deadline(MAX_TIMEOUT)]
       \/ \E t \in m_timers :
            /\ \A u \in m_timers : m_next[t] <= m_next[u]
            /\ until' = [until EXCEPT ![w] =
                           Deadline(EpollTimeout(Until(m_next[t])))]
    /\ pc' = [pc EXCEPT ![w] = "sleep"]
    /\ UNCHANGED <<timerVars, managerVars, now_ms, now, historyVars,
                   notify, pipe, updates>>

\* stopping(next_timeout) calls getNextTimer(); then epoll_wait.
getNextTimer(w) ==
    /\ pc[w] = "idle"
    /\ m_tickled' = FALSE
    /\ \/ /\ m_timers = {}
          /\ until' = [until EXCEPT ![w] = Deadline(MAX_TIMEOUT)]
       \/ \E t \in m_timers :
            /\ \A u \in m_timers : m_next[t] <= m_next[u]
            /\ until' = [until EXCEPT ![w] =
                           Deadline(EpollTimeout(Until(m_next[t])))]
    /\ pc' = [pc EXCEPT ![w] = "sleep"]
    /\ UNCHANGED <<timerVars, m_timers, m_previousTime, now_ms, now,
                   historyVars, notify, pipe, updates>>

\* epoll_wait returns: a timeout, the tickle pipe, or an event of a socket.
WakeUp(w) ==
    /\ pc[w] = "sleep"
    /\ pc' = [pc EXCEPT ![w] = "woke"]
    /\ until' = [until EXCEPT ![w] = NoTimeout]
    /\ UNCHANGED <<timerVars, managerVars, now_ms, now,
                   historyVars, notify, updates>>

TimedOut(w) == WakeUp(w) /\ until[w] # NoTimeout /\ until[w] <= now /\ UNCHANGED pipe
Tickled(w) == WakeUp(w) /\ pipe /\ pipe' = FALSE
SocketEvent(w) == WakeUp(w) /\ UNCHANGED pipe

\* listExpireCb() reads the clock before it takes the lock ...
listNow(w) ==
    /\ pc[w] = "woke"
    /\ now_ms' = [now_ms EXCEPT ![w] = now]
    /\ pc' = [pc EXCEPT ![w] = "list"]
    /\ UNCHANGED <<timerVars, managerVars, until, now, historyVars,
                   notify, pipe, updates>>

\* detectClockRollover(ms)
Rollover(ms) == ms < m_previousTime /\ ms < m_previousTime - HOUR

Expired(ms) == {t \in m_timers : Rollover(ms) \/ m_next[t] <= ms}

\* ... and takes the expired timers out, putting recurring ones back; idle()
\* schedules their callbacks and swaps out.
listExpireCb(w) ==
    /\ pc[w] = "list"
    /\ LET expired == Expired(now_ms[w]) IN
         /\ m_timers' = {t \in m_timers : t \in expired => m_recurring[t]}
         /\ m_next' = [t \in Timers |-> IF t \in expired /\ m_recurring[t]
                                        THEN now_ms[w] + m_ms[t] ELSE m_next[t]]
         /\ m_cb' = [t \in Timers |-> m_cb[t] /\ (t \in expired => m_recurring[t])]
         /\ cbs' = [t \in Timers |-> IF t \in expired /\ cbs[t] < 2
                                     THEN cbs[t] + 1 ELSE cbs[t]]
    /\ m_previousTime' = IF m_timers = {} THEN m_previousTime ELSE now_ms[w]
    /\ now_ms' = [now_ms EXCEPT ![w] = 0]
    /\ pc' = [pc EXCEPT ![w] = "busy"]
    /\ UNCHANGED <<m_ms, m_recurring, stage, m_tickled, until, now,
                   cancelled, notify, pipe, updates>>

-----------------------------------------------------------------------------
(* Time.                                                                   *)

Tick ==
    /\ now < MaxTime
    /\ now' = now + 1
    /\ UNCHANGED <<timerVars, managerVars, workerVars, historyVars,
                   notify, pipe, updates>>

\* The wall clock is set; epoll_wait keeps its own, monotonic, time, so a
\* sleeper's deadline moves along.
SetClock(n) ==
    /\ n \in ClockSets \ {now} /\ updates < MaxUpdates
    /\ now' = n
    /\ updates' = updates + 1
    /\ until' = [w \in Workers |->
                   IF until[w] = NoTimeout THEN NoTimeout
                   ELSE IF until[w] < now THEN n ELSE until[w] - now + n]
    /\ UNCHANGED <<timerVars, managerVars, pc, now_ms, historyVars, notify, pipe>>

Client(t) ==
    \/ \E ms \in Delays, recurring \in BOOLEAN : Timer(t, ms, recurring)
    \/ addTimer(t)
    \/ cancel(t)
    \/ refresh(t)
    \/ \E ms \in Delays, from_now \in BOOLEAN : reset(t, ms, from_now)

idle(w) ==
    \/ EnterIdle(w)
    \/ getNextTimer(w)
    \/ TimedOut(w) \/ Tickled(w)
    \/ listNow(w)
    \/ listExpireCb(w)

Next ==
    \/ \E t \in Timers : Client(t)
    \/ onTimerInsertedAtFront
    \/ \E w \in Workers : idle(w) \/ SocketEvent(w)
    \/ Tick
    \/ \E n \in ClockSets : SetClock(n)

Spec == Init /\ [][Next]_vars

\* Threads keep coming back to idle(), time passes, and calls under way end.
Fairness ==
    /\ \A w \in Workers : WF_vars(idle(w))
    /\ WF_vars(Tick)
    /\ WF_vars(onTimerInsertedAtFront)

FairSpec == Spec /\ Fairness

-----------------------------------------------------------------------------
(* Properties.                                                             *)

\* cancel() erases m_timers.find(this) without comparing it to end(): a timer
\* that was inserted has a callback exactly while it is in the set.
QueuedIffArmed == \A t \in Timers : stage[t] = "in" => (m_cb[t] <=> t \in m_timers)

\* The fate of a one-shot timer, whatever races with its expiry: it is queued,
\* or cancel() returned true and its callback never runs, or its callback was
\* collected exactly once.
OneShotFate ==
    \A t \in Timers : stage[t] = "in" /\ ~m_recurring[t] =>
        IF t \in m_timers \/ t \in cancelled
        THEN /\ cbs[t] = 0
             /\ ~(t \in m_timers /\ t \in cancelled)
        ELSE cbs[t] = 1

\* w wakes up in time for timer t.
Covers(w, t) == until[w] # NoTimeout /\ (until[w] <= m_next[t] \/ until[w] <= now)

\* No oversleeping: when all threads sleep in epoll_wait and no wake-up is on
\* its way, one of them wakes in time for each timer, although a new front is
\* announced only once between two calls of getNextTimer() and not at all
\* when no thread is idle.
SleepCovers ==
    (Asleep = Workers /\ ~pipe /\ notify = 0) =>
        \A t \in m_timers : \E w \in Workers : Covers(w, t)

\* "MAX_TIMEOUT is the longest time epoll_wait blocks" (IOManager::idle).
SleepBounded ==
    \A w \in Asleep : until[w] # NoTimeout /\ until[w] <= now + MAX_TIMEOUT

\* A timer due within the horizon leaves the queue, by expiry or cancel(), or
\* is moved past the horizon.
TimersExpire ==
    \A t \in Timers :
        (t \in m_timers /\ m_next[t] <= MaxTime) ~>
            (t \notin m_timers \/ m_next[t] > MaxTime)
=============================================================================
