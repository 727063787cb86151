------------------------- MODULE TimerManagerProofs -------------------------
(***************************************************************************)
(* Proofs about TimerManager: types, the fate of timers, and that sleeping *)
(* threads wake up in time.                                                *)
(***************************************************************************)
EXTENDS TimerManager, TLAPS

USE SMTT(60), ZenonT(60), SMTT(90), SMTT(120)

\* A timer that does not exist yet, or that is constructed and not inserted.
StageOK ==
    \A t \in Timers :
        /\ stage[t] # "in" => cbs[t] = 0 /\ t \notin m_timers /\ t \notin cancelled
        /\ stage[t] = "built" => m_cb[t]

\* The start of a timer is not before the epoch, so reset() cannot wrap.
StartsOK == \A t \in Timers : m_ms[t] <= m_next[t]

TimerInv == TypeOK /\ StageOK /\ StartsOK /\ QueuedIffArmed /\ OneShotFate

-----------------------------------------------------------------------------

LEMMA InsertEffect ==
    ASSUME NEW t, NEW next, NEW others, Insert(t, next, others),
           m_tickled \in BOOLEAN, notify \in Nat
    PROVE  /\ m_timers' = others \cup {t}
           /\ m_tickled' \in BOOLEAN
           /\ notify' \in Nat
  BY DEF Insert

LEMMA DeadlineType ==
    ASSUME NEW n \in Int, now \in 0..MaxTime
    PROVE  Deadline(n) \in Nat \cup {NoTimeout}
  BY TimerAssumption DEF Deadline, NoTimeout

LEMMA ToIntType ==
    ASSUME NEW n \in Int
    PROVE  ToInt(n) \in Int
  BY TimerAssumption DEF ToInt

LEMMA TimerInvInit == Init => TimerInv
  <1> SUFFICES ASSUME Init PROVE TimerInv
    OBVIOUS
  <1>1. 0 \in 0..MaxTime /\ 0 \in 0..MaxUpdates /\ 0 \in 0..2
    BY TimerAssumption
  <1>2. TypeOK
    <2>1. /\ m_timers \subseteq Timers /\ m_tickled \in BOOLEAN
          /\ m_previousTime \in Nat /\ notify \in Nat /\ pipe \in BOOLEAN
          /\ cancelled \subseteq Timers
      BY ZenonT(60) DEF Init
    <2>2. /\ m_next \in [Timers -> Nat] /\ m_ms \in [Timers -> Nat]
          /\ m_recurring \in [Timers -> BOOLEAN] /\ m_cb \in [Timers -> BOOLEAN]
      BY DEF Init
    <2>3. /\ stage \in [Timers -> {"none", "built", "in"}]
          /\ cbs \in [Timers -> 0..2]
      BY <1>1 DEF Init
    <2>4. /\ pc \in [Workers -> {"busy", "idle", "sleep", "woke", "list"}]
          /\ until \in [Workers -> Nat \cup {NoTimeout}]
          /\ now_ms \in [Workers -> 0..MaxTime]
      BY <1>1 DEF Init
    <2>5. now \in 0..MaxTime /\ updates \in 0..MaxUpdates
      BY <1>1 DEF Init
    <2>6. QED
      BY <2>1, <2>2, <2>3, <2>4, <2>5 DEF TypeOK
  <1>3. StageOK /\ QueuedIffArmed /\ OneShotFate
    BY DEF Init, StageOK, QueuedIffArmed, OneShotFate
  <1>4. StartsOK
    BY DEF Init, StartsOK
  <1>5. QED
    BY <1>2, <1>3, <1>4 DEF TimerInv

LEMMA ClientStep ==
    ASSUME TimerInv, NEW t \in Timers, Client(t)
    PROVE  TimerInv'
  <1> USE TimerAssumption DEF TimerInv, timerVars, managerVars, workerVars,
          historyVars
  <1>1. CASE \E ms \in Delays, recurring \in BOOLEAN : Timer(t, ms, recurring)
    BY <1>1 DEF Timer, TypeOK, StageOK, StartsOK, QueuedIffArmed, OneShotFate
  <1>2. CASE addTimer(t)
    <2>1. /\ m_timers' = m_timers \cup {t}
          /\ m_tickled' \in BOOLEAN
          /\ notify' \in Nat
      BY <1>2, InsertEffect DEF addTimer, TypeOK
    <2>2. TypeOK'
      BY <1>2, <2>1 DEF addTimer, TypeOK
    <2>3. QED
      BY <1>2, <2>1, <2>2 DEF addTimer, TypeOK, StageOK, StartsOK,
         QueuedIffArmed, OneShotFate
  <1>3. CASE cancel(t)
    BY <1>3 DEF cancel, TypeOK, StageOK, StartsOK, QueuedIffArmed, OneShotFate
  <1>4. CASE refresh(t)
    BY <1>4 DEF refresh, TypeOK, StageOK, StartsOK, QueuedIffArmed, OneShotFate
  <1>5. ASSUME NEW ms \in Delays, NEW from_now \in BOOLEAN,
               reset(t, ms, from_now)
        PROVE  TimerInv'
    <2> DEFINE start == IF from_now THEN now ELSE m_next[t] - m_ms[t]
    <2>1. start \in Nat
      BY DEF TypeOK, StartsOK
    <2>2. /\ m_timers' = m_timers
          /\ m_tickled' \in BOOLEAN
          /\ notify' \in Nat
      <3>1. t \in m_timers /\ Insert(t, start + ms, m_timers \ {t})
        BY <1>5 DEF reset
      <3>2. (m_timers \ {t}) \cup {t} = m_timers
        BY <3>1
      <3>3. QED
        BY ZenonT(60), <3>1, <3>2, InsertEffect DEF TypeOK
    <2>3. /\ m_next' = [m_next EXCEPT ![t] = start + ms]
          /\ m_ms' = [m_ms EXCEPT ![t] = ms]
      BY <1>5 DEF reset
    <2> HIDE DEF start
    <2>4. TypeOK'
      BY <1>5, <2>1, <2>2, <2>3 DEF reset, TypeOK
    <2>5. QED
      BY <1>5, <2>1, <2>2, <2>3, <2>4 DEF reset, TypeOK, StageOK, StartsOK,
         QueuedIffArmed, OneShotFate
  <1>6. QED
    BY <1>1, <1>2, <1>3, <1>4, <1>5 DEF Client

LEMMA WorkerStep ==
    ASSUME TimerInv, NEW w \in Workers, idle(w) \/ SocketEvent(w)
    PROVE  TimerInv'
  <1> USE TimerAssumption DEF TimerInv, timerVars, managerVars, workerVars,
          historyVars
  <1>1. CASE EnterIdle(w)
    BY <1>1
       DEF EnterIdle, TypeOK, StageOK, StartsOK, QueuedIffArmed, OneShotFate
  <1>2. CASE getNextTimer(w)
    <2>1. PICK n \in Int : until' = [until EXCEPT ![w] = Deadline(n)]
      <3>1. CASE until' = [until EXCEPT ![w] = Deadline(MAX_TIMEOUT)]
        <4>1. MAX_TIMEOUT \in Int
          BY TimerAssumption
        <4>2. QED
          BY ZenonT(60), <3>1, <4>1
      <3>2. ASSUME NEW u \in m_timers,
                   until' = [until EXCEPT ![w] =
                               Deadline(EpollTimeout(Until(m_next[u])))]
            PROVE  \E n \in Int : until' = [until EXCEPT ![w] = Deadline(n)]
        <4>1. Until(m_next[u]) \in Int
          BY DEF Until, TypeOK
        <4>2. EpollTimeout(Until(m_next[u])) \in Int
          BY <4>1, ToIntType DEF EpollTimeout
        <4>3. QED
          BY ZenonT(60), <3>2, <4>2
      <3>3. QED
        BY <1>2, <3>1, <3>2 DEF getNextTimer
    <2>2. Deadline(n) \in Nat \cup {NoTimeout}
      BY DeadlineType DEF TypeOK
    <2>3. QED
      BY ZenonT(60), <1>2, <2>1, <2>2
         DEF getNextTimer, TypeOK, StageOK, StartsOK,
         QueuedIffArmed, OneShotFate
  <1>3. CASE TimedOut(w) \/ Tickled(w) \/ SocketEvent(w)
    <2>1. WakeUp(w) /\ pipe' \in BOOLEAN
      BY ZenonT(60), <1>3 DEF TimedOut, Tickled, SocketEvent, TypeOK
    <2>2. TypeOK'
      BY <2>1 DEF WakeUp, TypeOK
    <2>3. QED
      BY <2>1, <2>2 DEF WakeUp, StageOK, StartsOK, QueuedIffArmed, OneShotFate
  <1>4. CASE listNow(w)
    BY <1>4 DEF listNow, TypeOK, StageOK, StartsOK, QueuedIffArmed, OneShotFate
  <1>5. CASE listExpireCb(w)
    <2> DEFINE expired == Expired(now_ms[w])
    <2>1. expired \subseteq m_timers
      BY ZenonT(60) DEF Expired
    <2>2. /\ m_timers' = {t \in m_timers : t \in expired => m_recurring[t]}
          /\ m_next' = [t \in Timers |-> IF t \in expired /\ m_recurring[t]
                                         THEN now_ms[w] + m_ms[t] ELSE m_next[t]]
          /\ m_cb' = [t \in Timers |-> m_cb[t] /\ (t \in expired => m_recurring[t])]
          /\ cbs' = [t \in Timers |-> IF t \in expired /\ cbs[t] < 2
                                      THEN cbs[t] + 1 ELSE cbs[t]]
      BY <1>5 DEF listExpireCb
    <2> HIDE DEF expired
    <2>3. /\ m_next' \in [Timers -> Nat] /\ cbs' \in [Timers -> 0..2]
          /\ m_timers' \subseteq Timers
      BY <2>2 DEF TypeOK
    <2>4. m_cb' \in [Timers -> BOOLEAN]
      BY <2>2 DEF TypeOK
    <2>5. m_previousTime' \in Nat /\ now_ms' \in [Workers -> 0..MaxTime]
      BY <1>5 DEF listExpireCb, TypeOK
    <2>6. TypeOK'
      BY <1>5, <2>3, <2>4, <2>5 DEF listExpireCb, TypeOK
    <2>7. StageOK' /\ StartsOK'
      BY <1>5, <2>1, <2>2 DEF listExpireCb, StageOK, StartsOK, TypeOK
    <2>8. QueuedIffArmed'
      BY <1>5, <2>1, <2>2 DEF listExpireCb, QueuedIffArmed, TypeOK
    <2>9. OneShotFate'
      BY <1>5, <2>1, <2>2 DEF listExpireCb, OneShotFate, TypeOK
    <2>10. QED
      BY <2>6, <2>7, <2>8, <2>9
  <1>6. QED
    BY <1>1, <1>2, <1>3, <1>4, <1>5 DEF idle

LEMMA OtherStep ==
    ASSUME TimerInv,
           onTimerInsertedAtFront \/ Tick \/ \E n \in ClockSets : SetClock(n)
    PROVE  TimerInv'
  <1> USE TimerAssumption DEF TimerInv, timerVars, managerVars, workerVars,
          historyVars
  <1>1. CASE onTimerInsertedAtFront
    BY <1>1 DEF onTimerInsertedAtFront, TypeOK, StageOK, StartsOK,
       QueuedIffArmed, OneShotFate
  <1>2. CASE Tick
    BY <1>2 DEF Tick, TypeOK, StageOK, StartsOK, QueuedIffArmed, OneShotFate
  <1>3. ASSUME NEW n \in ClockSets, SetClock(n)
        PROVE  TimerInv'
    <2>1. until' \in [Workers -> Nat \cup {NoTimeout}]
      BY <1>3 DEF SetClock, TypeOK, NoTimeout
    <2>2. QED
      BY <1>3, <2>1 DEF SetClock, TypeOK, StageOK, StartsOK,
         QueuedIffArmed, OneShotFate
  <1>4. QED
    BY ZenonT(60), <1>1, <1>2, <1>3

LEMMA TimerInvNext == TimerInv /\ [Next]_vars => TimerInv'
  <1> SUFFICES ASSUME TimerInv, [Next]_vars PROVE TimerInv'
    OBVIOUS
  <1>1. CASE UNCHANGED vars
    BY <1>1 DEF vars, timerVars, managerVars, workerVars,
       historyVars, TimerInv, TypeOK, StageOK, StartsOK, QueuedIffArmed,
       OneShotFate
  <1>2. CASE Next
    BY <1>2, ClientStep, WorkerStep, OtherStep DEF Next
  <1>3. QED
    BY <1>1, <1>2

LEMMA TimerInvAlways == Spec => []TimerInv
  BY TimerInvInit, TimerInvNext, PTL DEF Spec

\* Every reachable state is well typed, for any timers, threads, delays and
\* clock changes; in particular the unsigned difference in reset() and the
\* deadlines never wrap.
THEOREM TimerTypeCorrect == Spec => []TypeOK
  BY TimerInvAlways, PTL DEF TimerInv

\* cancel() may erase what find() returns: a timer with a callback is always
\* in the set.
THEOREM ArmedCorrect == Spec => []QueuedIffArmed
  BY TimerInvAlways, PTL DEF TimerInv

\* A one-shot timer's callback is collected exactly once, or cancel()
\* returned true and it never is, whatever the interleaving of cancel(),
\* refresh(), reset(), listExpireCb() and clock changes.
THEOREM FateCorrect == Spec => []OneShotFate
  BY TimerInvAlways, PTL DEF TimerInv

-----------------------------------------------------------------------------
(* Sleeping threads wake up in time, when the clock is not set and the     *)
(* timeouts fit an int.                                                    *)

Regular ==
    /\ ClockSets = {}
    /\ MAX_TIMEOUT < IntHalf
    /\ \A ms \in Delays : ms < IntHalf

\* A timer is due no later than its interval from now.
DueOK ==
    \A t \in Timers : stage[t] # "none" =>
        m_ms[t] \in Delays /\ m_next[t] <= now + m_ms[t]

\* listExpireCb works with a time that has passed.
ListOK == \A w \in Workers : pc[w] = "list" => now_ms[w] <= now

\* After a new front was announced, the announcement is still to be made, is
\* in the pipe, or some thread is awake and will call getNextTimer().
TickledOK == m_tickled => notify > 0 \/ pipe \/ Asleep # Workers

SleepInv == DueOK /\ ListOK /\ TickledOK /\ SleepCovers

LEMMA SleepInvInit == Init => SleepInv
  BY DEF Init, SleepInv, DueOK, ListOK, TickledOK, SleepCovers

LEMMA ToIntSmall ==
    ASSUME NEW n \in Nat, n < IntHalf
    PROVE  ToInt(n) = n
  BY TimerAssumption DEF ToInt

\* Within the int range the clamp is the minimum.
LEMMA EpollTimeoutSmall ==
    ASSUME NEW n \in Nat, n < IntHalf, MAX_TIMEOUT < IntHalf
    PROVE  EpollTimeout(n) \in 0..n
  BY TimerAssumption, ToIntSmall DEF EpollTimeout

LEMMA SleepClient ==
    ASSUME TimerInv, SleepInv, NEW t \in Timers, Client(t)
    PROVE  SleepInv'
  <1> USE TimerAssumption DEF SleepInv, TimerInv, timerVars, managerVars,
          workerVars, historyVars, Asleep
  <1>1. CASE \E ms \in Delays, recurring \in BOOLEAN : Timer(t, ms, recurring)
    <2>1. t \notin m_timers /\ m_timers \subseteq Timers
      BY <1>1 DEF Timer, StageOK, TypeOK
    <2>2. DueOK' /\ ListOK' /\ TickledOK'
      BY <1>1 DEF Timer, TypeOK, DueOK, ListOK, TickledOK
    <2>3. SleepCovers'
      BY <1>1, <2>1 DEF Timer, TypeOK, SleepCovers, Covers
    <2>4. QED
      BY <2>2, <2>3
  <1>2. ASSUME NEW next \in Nat, NEW others,
               Insert(t, next, others), others \subseteq m_timers,
               pc' = pc, pipe' = pipe, until' = until, now' = now,
               m_next' \in [Timers -> Nat], m_next'[t] = next,
               \A u \in others : m_next'[u] = m_next[u]
        PROVE  TickledOK' /\ SleepCovers'
    <2>1. PICK front \in BOOLEAN :
            /\ ~front => \E u \in others : m_next[u] <= next
            /\ m_timers' = others \cup {t}
            /\ m_tickled' = (m_tickled \/ front)
            /\ notify' = IF front /\ ~m_tickled THEN notify + 1 ELSE notify
      BY <1>2 DEF Insert
    <2>2. TickledOK'
      BY <1>2, <2>1 DEF TickledOK, TypeOK
    <2>3. SleepCovers'
      <3>1. SUFFICES ASSUME Asleep = Workers, ~pipe, notify' = 0,
                            NEW u \in others \cup {t}
                     PROVE  \E w \in Workers : Covers(w, u)'
        BY <1>2, <2>1 DEF SleepCovers
      <3>2. notify = 0 /\ ~front
        BY <2>1, <3>1 DEF TickledOK, TypeOK
      <3>3. PICK v \in others : m_next[v] <= m_next'[u]
        BY <1>2, <2>1, <3>1, <3>2 DEF TypeOK
      <3>4. PICK w \in Workers : Covers(w, v)
        BY ZenonT(60), <1>2, <3>1, <3>2, <3>3 DEF SleepCovers
      <3>5. Covers(w, u)'
        BY <1>2, <3>1, <3>3, <3>4 DEF Covers, TypeOK, NoTimeout
      <3>6. QED
        BY <3>5
    <2>4. QED
      BY <2>2, <2>3
  <1>3. CASE addTimer(t)
    <2>1. DueOK' /\ ListOK'
      BY <1>3 DEF addTimer, TypeOK, DueOK, ListOK
    <2>2. TickledOK' /\ SleepCovers'
      BY ZenonT(60), <1>2, <1>3 DEF addTimer, TypeOK
    <2>3. QED
      BY <2>1, <2>2
  <1>4. CASE cancel(t)
    BY <1>4 DEF cancel, TypeOK, DueOK, ListOK, TickledOK, SleepCovers, Covers
  <1>5. CASE refresh(t)
    <2>1. DueOK' /\ ListOK' /\ TickledOK'
      BY <1>5 DEF refresh, TypeOK, DueOK, ListOK, TickledOK
    <2>2. ASSUME NEW u \in m_timers, NEW w \in Workers, Covers(w, u)
          PROVE  Covers(w, u)'
      <3>1. /\ stage[t] = "in" /\ now' = now /\ until' = until
            /\ m_next' = [m_next EXCEPT ![t] = now + m_ms[t]]
        BY ZenonT(60), <1>5 DEF refresh
      <3>2. /\ u \in Timers /\ m_next \in [Timers -> Nat] /\ m_ms[t] \in Nat
            /\ until[w] \in Int /\ now \in Nat
        BY DEF TypeOK, NoTimeout
      <3>3. m_next[t] <= now + m_ms[t]
        BY <3>1 DEF DueOK
      <3> HIDE DEF SleepInv, TimerInv
      <3>4. m_next'[u] \in Nat /\ m_next[u] <= m_next'[u]
        BY <3>1, <3>2, <3>3
      <3>5. QED
        BY <2>2, <3>1, <3>2, <3>4 DEF Covers, NoTimeout
    <2>3. SleepCovers'
      BY <1>5, <2>2 DEF refresh, SleepCovers
    <2>4. QED
      BY <2>1, <2>3
  <1>6. ASSUME NEW ms \in Delays, NEW from_now \in BOOLEAN,
               reset(t, ms, from_now)
        PROVE  SleepInv'
    <2> DEFINE start == IF from_now THEN now ELSE m_next[t] - m_ms[t]
    <2>1. start \in Nat /\ start <= now
      <3>1. stage[t] = "in"
        BY <1>6 DEF reset
      <3>2. QED
        BY <3>1 DEF TypeOK, StartsOK, DueOK
    <2>2. /\ m_next' = [m_next EXCEPT ![t] = start + ms]
          /\ m_ms' = [m_ms EXCEPT ![t] = ms]
          /\ Insert(t, start + ms, m_timers \ {t})
      BY <1>6 DEF reset
    <2> HIDE DEF start
    <2>3. DueOK' /\ ListOK'
      BY <1>6, <2>1, <2>2 DEF reset, TypeOK, DueOK, ListOK
    <2>4. /\ start + ms \in Nat /\ m_next' \in [Timers -> Nat]
          /\ m_next'[t] = start + ms
          /\ \A u \in m_timers \ {t} : m_next'[u] = m_next[u]
      BY <2>1, <2>2 DEF TypeOK
    <2> HIDE DEF SleepInv, TimerInv
    <2>5. TickledOK' /\ SleepCovers'
      BY ZenonT(60), <1>2, <1>6, <2>2, <2>4 DEF reset
    <2>6. QED
      BY <2>3, <2>5 DEF SleepInv
  <1>7. QED
    BY <1>1, <1>3, <1>4, <1>5, <1>6 DEF Client

LEMMA SleepWorker ==
    ASSUME Regular, TimerInv, SleepInv, NEW w \in Workers,
           idle(w) \/ SocketEvent(w)
    PROVE  SleepInv'
  <1> USE TimerAssumption DEF SleepInv, TimerInv, timerVars, managerVars,
          workerVars, historyVars, Asleep
  <1>1. CASE pc'[w] # "sleep"
    <2>1. Asleep' # Workers'
      BY ZenonT(60), <1>1
    <2>2. TickledOK' /\ SleepCovers'
      BY <2>1 DEF TickledOK, SleepCovers
    <2>3. DueOK' /\ ListOK'
      <3>1. CASE EnterIdle(w) \/ TimedOut(w) \/ Tickled(w) \/ SocketEvent(w)
        BY ZenonT(60), <3>1 DEF EnterIdle, TimedOut, Tickled, SocketEvent, WakeUp, TypeOK,
           DueOK, ListOK
      <3>2. CASE listNow(w)
        BY <3>2 DEF listNow, TypeOK, DueOK, ListOK
      <3>3. CASE listExpireCb(w)
        <4>1. now_ms[w] <= now /\ now_ms[w] \in Nat
          <5>1. pc[w] = "list"
            BY ZenonT(60), <3>3 DEF listExpireCb
          <5>2. QED
            BY <5>1 DEF ListOK, TypeOK
        <4>2. \A u \in Timers : m_next'[u] \in {m_next[u], now_ms[w] + m_ms[u]}
          BY ZenonT(60), <3>3 DEF listExpireCb
        <4>3. DueOK'
          <5>1. UNCHANGED <<m_ms, stage, now>>
            BY ZenonT(60), <3>3 DEF listExpireCb
          <5>2. QED
            BY <4>1, <4>2, <5>1 DEF DueOK, TypeOK
        <4>4. ListOK'
          BY ZenonT(60), <3>3 DEF listExpireCb, ListOK, TypeOK
        <4>5. QED
          BY <4>3, <4>4
      <3>4. CASE getNextTimer(w)
        BY ZenonT(60), <1>1, <3>4 DEF getNextTimer, TypeOK
      <3>5. QED
        BY ZenonT(60), <3>1, <3>2, <3>3, <3>4 DEF idle
    <2>4. QED
      BY <2>2, <2>3
  <1>2. CASE getNextTimer(w)
    <2>1. DueOK' /\ ListOK' /\ TickledOK'
      BY ZenonT(60), <1>2 DEF getNextTimer, TypeOK, DueOK, ListOK, TickledOK
    <2>2. SUFFICES ASSUME NEW u \in m_timers
                   PROVE  Covers(w, u)'
      BY ZenonT(60), <1>2, <2>1 DEF getNextTimer, SleepCovers
    <2>3. PICK t \in m_timers :
            /\ m_next[t] <= m_next[u]
            /\ until' = [until EXCEPT ![w] =
                           Deadline(EpollTimeout(Until(m_next[t])))]
      BY <1>2 DEF getNextTimer
    <2>4. t \in Timers /\ stage[t] = "in"
      BY ZenonT(60) DEF TypeOK, StageOK
    <2>5. /\ Until(m_next[t]) \in Nat
          /\ Until(m_next[t]) < IntHalf
      BY <2>4 DEF Until, DueOK, TypeOK, Regular
    <2>6. EpollTimeout(Until(m_next[t])) \in 0..Until(m_next[t])
      BY ZenonT(60), <2>5, EpollTimeoutSmall DEF Regular
    <2>7. /\ until'[w] \in Nat
          /\ until'[w] <= now + Until(m_next[t])
      BY <2>3, <2>5, <2>6 DEF Deadline, TypeOK
    <2>8. until'[w] <= m_next[t] \/ until'[w] <= now
      BY <2>4, <2>7 DEF Until, TypeOK
    <2>9. now' = now /\ m_next' = m_next
      BY <1>2 DEF getNextTimer
    <2>10. QED
      BY <2>3, <2>4, <2>7, <2>8, <2>9 DEF Covers, NoTimeout, TypeOK
  <1>3. QED
    BY ZenonT(60), <1>1, <1>2 DEF idle, EnterIdle, TimedOut, Tickled, SocketEvent, WakeUp,
       listNow, listExpireCb, TypeOK

LEMMA SleepOther ==
    ASSUME Regular, TimerInv, SleepInv,
           onTimerInsertedAtFront \/ Tick \/ \E n \in ClockSets : SetClock(n)
    PROVE  SleepInv'
  <1> USE TimerAssumption DEF SleepInv, TimerInv, timerVars, managerVars,
          workerVars, historyVars, Asleep
  <1>1. CASE onTimerInsertedAtFront
    <2>1. pipe' \/ Asleep # Workers
      BY ZenonT(60), <1>1 DEF onTimerInsertedAtFront, IdleThreads
    <2>2. DueOK' /\ ListOK'
      BY ZenonT(60), <1>1 DEF onTimerInsertedAtFront, DueOK, ListOK
    <2>3. TickledOK' /\ SleepCovers'
      BY <1>1, <2>1 DEF onTimerInsertedAtFront, TickledOK, SleepCovers
    <2>4. QED
      BY <2>2, <2>3
  <1>2. CASE Tick
    <2>1. DueOK' /\ ListOK' /\ TickledOK'
      BY <1>2 DEF Tick, TypeOK, DueOK, ListOK, TickledOK
    <2>2. ASSUME NEW u \in m_timers, NEW w \in Workers, Covers(w, u)
          PROVE  Covers(w, u)'
      <3>1. /\ now \in Nat /\ now' = now + 1 /\ until' = until /\ m_next' = m_next
            /\ until[w] \in Nat \cup {NoTimeout}
        BY ONLY <1>2, TimerInv DEF Tick, TimerInv, TypeOK, workerVars, timerVars
      <3>2. until[w] # NoTimeout /\ (until[w] <= m_next[u] \/ until[w] <= now)
        BY ZenonT(60), <2>2 DEF Covers
      <3>3. until[w] # NoTimeout /\ (until[w] <= m_next[u] \/ until[w] <= now + 1)
        BY ONLY <3>1, <3>2 DEF NoTimeout
      <3> QED
        BY ZenonT(60), <3>1, <3>3 DEF Covers
    <2>3. SleepCovers'
      BY <1>2, <2>2 DEF Tick, SleepCovers
    <2>4. QED
      BY ZenonT(60), <2>1, <2>3
  <1>3. QED
    BY <1>1, <1>2 DEF Regular

LEMMA SleepInvNext ==
    ASSUME Regular, TimerInv, SleepInv, [Next]_vars
    PROVE  SleepInv'
  <1>1. CASE UNCHANGED vars
    BY <1>1 DEF vars, timerVars, managerVars, workerVars, SleepInv,
       DueOK, ListOK, TickledOK, SleepCovers, Covers, Asleep
  <1>2. CASE Next
    BY <1>2, SleepClient, SleepWorker, SleepOther DEF Next
  <1>3. QED
    BY ZenonT(60), <1>1, <1>2

\* No oversleeping, for any number of threads and timers: when all threads
\* sleep and no wake-up is on its way, each timer has a thread that wakes in
\* time for it, provided the clock is not set and the delays fit an int.
THEOREM NoOversleep ==
    ASSUME Regular
    PROVE  Spec => []SleepCovers
  <1>1. Init => SleepInv
    BY SleepInvInit
  <1>2. TimerInv /\ SleepInv /\ [Next]_vars => SleepInv'
    BY SleepInvNext
  <1>3. SleepInv => SleepCovers
    BY DEF SleepInv
  <1>4. QED
    BY <1>1, <1>2, <1>3, TimerInvAlways, PTL DEF Spec
-----------------------------------------------------------------------------
(* How long a thread sleeps.                                               *)

LEMMA EpollTimeoutBounded ==
    ASSUME NEW n \in Nat, n < IntHalf, MAX_TIMEOUT < IntHalf
    PROVE  EpollTimeout(n) \in 0..MAX_TIMEOUT
  BY TimerAssumption, ToIntSmall DEF EpollTimeout

LEMMA DeadlineBounded ==
    ASSUME now \in Nat, NEW timeout \in 0..MAX_TIMEOUT
    PROVE  Deadline(timeout) # NoTimeout /\ Deadline(timeout) <= now + MAX_TIMEOUT
  BY TimerAssumption DEF Deadline, NoTimeout

\* The thread that goes to sleep asked for a timer due within its interval.
LEMMA AsksBounded ==
    ASSUME Regular, TimerInv, SleepInv, SleepBounded, NEW w \in Workers, getNextTimer(w)
    PROVE  SleepBounded'
  <1>1. now \in Nat /\ MAX_TIMEOUT \in Nat /\ until \in [Workers -> Nat \cup {NoTimeout}]
    BY TimerAssumption DEF TimerInv, TypeOK
  <1>2. PICK d : /\ until' = [until EXCEPT ![w] = d]
                 /\ d # NoTimeout /\ d <= now + MAX_TIMEOUT
    <2>1. CASE m_timers = {} /\ until' = [until EXCEPT ![w] = Deadline(MAX_TIMEOUT)]
      <3>1. MAX_TIMEOUT \in 0..MAX_TIMEOUT
        BY <1>1
      <3> QED
        BY ZenonT(60), <1>1, <2>1, <3>1, DeadlineBounded
    <2>2. ASSUME NEW t \in m_timers,
                 until' = [until EXCEPT ![w] = Deadline(EpollTimeout(Until(m_next[t])))]
          PROVE  \E d : /\ until' = [until EXCEPT ![w] = d]
                        /\ d # NoTimeout /\ d <= now + MAX_TIMEOUT
      <3>1. t \in Timers /\ stage[t] # "none"
        BY <2>2 DEF TimerInv, TypeOK, StageOK
      <3>2. m_ms[t] \in Delays /\ m_next[t] <= now + m_ms[t]
        BY <3>1 DEF SleepInv, DueOK
      <3>3. m_ms[t] \in Nat /\ m_ms[t] < IntHalf /\ m_next[t] \in Nat
        BY <3>1, <3>2 DEF Regular, TimerInv, TypeOK
      <3>4. Until(m_next[t]) \in Nat /\ Until(m_next[t]) < IntHalf
        BY <1>1, <3>2, <3>3, TimerAssumption DEF Until
      <3>5. EpollTimeout(Until(m_next[t])) \in 0..MAX_TIMEOUT
        BY <3>4, EpollTimeoutBounded DEF Regular
      <3> QED
        BY ZenonT(60), <1>1, <2>2, <3>5, DeadlineBounded
    <2> QED
      BY <2>1, <2>2 DEF getNextTimer
  <1>3. until'[w] = d /\ \A v \in Workers \ {w} : until'[v] = until[v]
    BY <1>1, <1>2
  <1>4. \A v \in Asleep' \ {w} : v \in Asleep
    BY DEF getNextTimer, Asleep, TimerInv, TypeOK
  <1>5. now' = now
    BY DEF getNextTimer
  <1> QED
    BY ZenonT(60), <1>2, <1>3, <1>4, <1>5 DEF SleepBounded, Asleep

LEMMA SleepBoundedNext ==
    ASSUME Regular, TimerInv, SleepInv, SleepBounded, [Next]_vars
    PROVE  SleepBounded'
  <1>1. ASSUME UNCHANGED <<pc, until>>, now' = now \/ Tick
        PROVE  SleepBounded'
    <2>1. Asleep' = Asleep
      BY ZenonT(60), <1>1 DEF Asleep
    <2>2. now \in Nat /\ now' \in Nat /\ now <= now' /\ MAX_TIMEOUT \in Nat
      BY <1>1, TimerAssumption DEF Tick, TimerInv, TypeOK
    <2>3. \A w \in Asleep : until[w] \in Nat \cup {NoTimeout}
      BY DEF Asleep, TimerInv, TypeOK
    <2> QED
      BY <1>1, <2>1, <2>2, <2>3 DEF SleepBounded, NoTimeout
  <1>2. ASSUME NEW w \in Workers,
               EnterIdle(w) \/ WakeUp(w) \/ listNow(w) \/ listExpireCb(w)
        PROVE  SleepBounded'
    <2>1. Asleep' \subseteq Asleep \ {w}
      BY <1>2 DEF EnterIdle, WakeUp, listNow, listExpireCb, Asleep, TimerInv, TypeOK
    <2>2. now' = now /\ \A v \in Workers \ {w} : until'[v] = until[v]
      BY <1>2 DEF EnterIdle, WakeUp, listNow, listExpireCb, TimerInv, TypeOK
    <2> QED
      BY ZenonT(60), <2>1, <2>2 DEF SleepBounded, Asleep
  <1>3. ASSUME NEW t \in Timers, Client(t)
        PROVE  UNCHANGED <<pc, until, now>>
    BY ZenonT(60), <1>3 DEF Client, Timer, addTimer, cancel, refresh, reset, workerVars
  <1>4. onTimerInsertedAtFront \/ UNCHANGED vars => UNCHANGED <<pc, until, now>>
    BY ZenonT(60) DEF onTimerInsertedAtFront, vars, workerVars
  <1>5. Tick => UNCHANGED <<pc, until>>
    BY ZenonT(60) DEF Tick, workerVars
  <1>6. \A n \in ClockSets : FALSE
    BY ZenonT(60) DEF Regular
  <1> QED
    BY ZenonT(60), <1>1, <1>2, <1>3, <1>4, <1>5, <1>6, AsksBounded
       DEF Next, idle, TimedOut, Tickled, SocketEvent

\* MAX_TIMEOUT bounds every sleep in epoll_wait, for any timers and threads,
\* as long as the clock is not set and the delays fit the int that idle()
\* casts them to; the run timer_int_wrap shows that a longer delay breaks it.
THEOREM SleepsAreBounded ==
    ASSUME Regular
    PROVE  Spec => []SleepBounded
  <1>1. Init => SleepInv /\ SleepBounded
    BY SleepInvInit DEF Init, SleepBounded, Asleep
  <1>2. TimerInv /\ SleepInv /\ [Next]_vars => SleepInv'
    BY SleepInvNext
  <1>3. TimerInv /\ SleepInv /\ SleepBounded /\ [Next]_vars => SleepBounded'
    BY SleepBoundedNext
  <1>4. QED
    BY <1>1, <1>2, <1>3, TimerInvAlways, PTL DEF Spec
=============================================================================
