-------------------------------- MODULE Hook --------------------------------
(***************************************************************************)
(* The blocking calls of hook.cc: do_io() (read, recv, write, accept, ...) *)
(* and connect_with_timeout(), by one fiber on one descriptor, with the    *)
(* timers and the event they leave to the IOManager's threads.             *)
(*                                                                         *)
(* A call tries the system call and, while that would block, adds a        *)
(* condition timer, registers for the event and leaves its thread; it is   *)
(* resumed by the event or by the timer's callback, which marks the tinfo  *)
(* of its call and cancels the event.  Timer, event and callback are run   *)
(* by other threads at any time.  Times are relative: left is the time to  *)
(* a timer's expiry, spent the age of the call (no more than Timeout).     *)
(***************************************************************************)
EXTENDS Naturals, FiniteSets

CONSTANTS
    Timeout,        \* the timeout of a call that has one, in ticks
    MaxCalls        \* bound on the calls of a behaviour

ASSUME HookAssumption == Timeout \in Nat \ {0} /\ MaxCalls \in Nat \ {0}

VARIABLES
    call,       \* the current call, or the last one
    timers,     \* timers not yet finished; their callbacks refer to their call
    registered, \* the descriptor's context holds the fiber
    scheduled,  \* the fiber is in the scheduler's list
    ready       \* the system call would not block; the connection is made

hvars == <<call, timers, registered, scheduled, ready>>

NoCall == [id |-> 0, kind |-> "io", timed |-> FALSE, at |-> "out", cancelled |-> FALSE,
           spent |-> 0, result |-> "none",
           early |-> FALSE, refused |-> FALSE]

HookInit ==
    /\ call = NoCall /\ timers = {}
    /\ registered = FALSE /\ scheduled = FALSE /\ ready = FALSE

Return(c, result) == [c EXCEPT !.at = "out", !.result = result]

-----------------------------------------------------------------------------
(* The calling fiber.                                                      *)

\* do_io() or connect_with_timeout() is called with or without a timeout; a
\* descriptor is connected first.  A new tinfo is made.
Enter(kind, timed) ==
    /\ call.at = "out" /\ call.id < MaxCalls
    /\ kind = "connect" => call.id = 0
    /\ call' = [NoCall EXCEPT !.id = call.id + 1, !.kind = kind, !.timed = timed, !.at = "try"]
    /\ UNCHANGED <<timers, registered, scheduled, ready>>

\* fun(fd, ...): done (and the data taken), failed, or EAGAIN / EINPROGRESS.
Try ==
    /\ call.at = "try"
    /\ \/ ready /\ call' = Return(call, "ok") /\ ready' = (call.kind = "connect")
       \/ call' = Return(call, "error") /\ UNCHANGED ready
       \/ ~ready /\ call' = [call EXCEPT !.at = "addTimer"] /\ UNCHANGED ready
    /\ UNCHANGED <<timers, registered, scheduled>>

\* iom->addConditionTimer(to, ..., winfo)
AddTimer ==
    /\ call.at = "addTimer"
    /\ timers' = IF call.timed
                 THEN timers \cup {[id |-> call.id, left |-> Timeout, state |-> "armed"]}
                 ELSE timers
    /\ call' = [call EXCEPT !.at = "addEvent"]
    /\ UNCHANGED <<registered, scheduled, ready>>

\* timer->cancel(): what was collected stays.
Disarmed == {t \in timers : t.state # "armed"}

\* iom->addEvent(fd, event); on failure do_io() gives up, and
\* connect_with_timeout() goes on to SO_ERROR.
AddEvent ==
    /\ call.at = "addEvent"
    /\ \/ /\ registered' = TRUE
          /\ call' = [call EXCEPT !.at = "leaving"]
          /\ UNCHANGED timers
       \/ /\ timers' = Disarmed
          /\ call' = IF call.kind = "io" THEN Return(call, "error")
                                         ELSE [call EXCEPT !.at = "sockopt", !.refused = TRUE]
          /\ UNCHANGED registered
    /\ UNCHANGED <<scheduled, ready>>

\* YieldToHold()
Leave ==
    /\ call.at = "leaving"
    /\ call' = [call EXCEPT !.at = "held"]
    /\ UNCHANGED <<timers, registered, scheduled, ready>>

\* A thread resumes the fiber.
Wake ==
    /\ call.at = "held" /\ scheduled
    /\ scheduled' = FALSE
    /\ call' = [call EXCEPT !.at = "resumed"]
    /\ UNCHANGED <<timers, registered, ready>>

\* if(timer) timer->cancel()
CancelTimer ==
    /\ call.at = "resumed"
    /\ timers' = Disarmed
    /\ call' = [call EXCEPT !.at = "check"]
    /\ UNCHANGED <<registered, scheduled, ready>>

\* Mutant: connect does not look at its tinfo.
CheckIoOnly ==
    /\ call.at = "check"
    /\ call' = IF call.cancelled /\ call.kind = "io" THEN Return(call, "timeout")
               ELSE [call EXCEPT !.at = IF call.kind = "io" THEN "try" ELSE "sockopt"]
    /\ UNCHANGED <<timers, registered, scheduled, ready>>

\* if(tinfo->cancelled), then goto retry, or SO_ERROR.
Check ==
    /\ call.at = "check"
    /\ call' = IF call.cancelled THEN Return(call, "timeout")
               ELSE [call EXCEPT !.at = IF call.kind = "io" THEN "try" ELSE "sockopt"]
    /\ UNCHANGED <<timers, registered, scheduled, ready>>

\* getsockopt(fd, SOL_SOCKET, SO_ERROR): no error yet counts as connected.
SockOpt ==
    /\ call.at = "sockopt"
    /\ \E result \in {"ok", "error"} : call' = Return(call, result)
    /\ UNCHANGED <<timers, registered, scheduled, ready>>

-----------------------------------------------------------------------------
(* The other threads.                                                      *)

\* listExpireCb takes an expired timer's callback (the clock is not set back
\* here; TimerManager has that case).
Collect(t) ==
    /\ t.state = "armed" /\ t.left = 0
    /\ timers' = (timers \ {t}) \cup {[t EXCEPT !.state = "collected"]}
    /\ UNCHANGED <<call, registered, scheduled, ready>>

\* Mutant: the callback holds the current tinfo, whoever's it is.
MarkAnyCall(t) ==
    /\ t.state = "collected"
    /\ IF call.at # "out" /\ ~call.cancelled
       THEN /\ call' = [call EXCEPT !.cancelled = TRUE]
            /\ timers' = (timers \ {t}) \cup {[t EXCEPT !.state = "marked"]}
       ELSE timers' = timers \ {t} /\ UNCHANGED call
    /\ UNCHANGED <<registered, scheduled, ready>>

\* The callback, up to t->cancelled = ETIMEDOUT: winfo.lock() fails once the
\* call has returned.
MarkTinfo(t) ==
    /\ t.state = "collected"
    /\ IF t.id = call.id /\ call.at # "out" /\ ~call.cancelled
       THEN /\ call' = [call EXCEPT !.cancelled = TRUE]
            /\ timers' = (timers \ {t}) \cup {[t EXCEPT !.state = "marked"]}
       ELSE timers' = timers \ {t} /\ UNCHANGED call
    /\ UNCHANGED <<registered, scheduled, ready>>

\* Mutant: the event is left alone.
CancelEventNot(t) ==
    /\ t.state = "marked"
    /\ timers' = timers \ {t}
    /\ UNCHANGED <<call, registered, scheduled, ready>>

\* Where a call has its next wait before it.
Unregistered == {"try", "addTimer", "addEvent"}

\* The callback's iom->cancelEvent(fd, event): triggers what is registered by
\* now.  early notes that the call had yet to register.
CancelEvent(t) ==
    /\ t.state = "marked"
    /\ timers' = timers \ {t}
    /\ IF registered THEN registered' = FALSE /\ scheduled' = TRUE
                     ELSE UNCHANGED <<registered, scheduled>>
    /\ call' = [call EXCEPT !.early = @ \/ (t.id = call.id /\ call.at \in Unregistered)]
    /\ UNCHANGED ready

\* epoll_wait reports the event and IOManager::idle triggers it.
Trigger ==
    /\ registered /\ ready
    /\ registered' = FALSE /\ scheduled' = TRUE
    /\ UNCHANGED <<call, timers, ready>>

\* Data arrives, or the connection is made.
Arrive ==
    /\ ~ready /\ ready' = TRUE
    /\ UNCHANGED <<call, timers, registered, scheduled>>

Tick ==
    /\ call.at # "out" \/ timers # {}
    /\ timers' = {[t EXCEPT !.left = IF @ > 0 THEN @ - 1 ELSE 0] : t \in timers}
    /\ call' = [call EXCEPT !.spent = IF @ < Timeout /\ call.at # "out" THEN @ + 1 ELSE @]
    /\ UNCHANGED <<registered, scheduled, ready>>

HookFiber == Try \/ AddTimer \/ AddEvent \/ Leave \/ Wake \/ CancelTimer \/ Check \/ SockOpt
TimerStep(t) == Collect(t) \/ MarkTinfo(t) \/ CancelEvent(t)

HookNext ==
    \/ \E kind \in {"io", "connect"}, timed \in BOOLEAN : Enter(kind, timed)
    \/ HookFiber
    \/ \E t \in timers : TimerStep(t)
    \/ Trigger \/ Arrive \/ Tick

HookSpec == HookInit /\ [][HookNext]_hvars

\* The scheduler runs the fiber, the idle fiber runs timers and events.
HookFairness ==
    /\ WF_hvars(HookFiber) /\ WF_hvars(Trigger) /\ WF_hvars(Tick)
    /\ WF_hvars(\E t \in timers : TimerStep(t))

-----------------------------------------------------------------------------
(* Properties.                                                             *)

\* A call fails with ETIMEDOUT only when its timeout has passed since it was
\* made, although callbacks of earlier calls, and of earlier waits of the same
\* call, may still run, and may cancel its event.
TimeoutNotEarly == call.result = "timeout" => call.timed /\ call.spent = Timeout

\* connect() succeeds only on a connection that is made, or when it could not
\* register for the event: a timer that resumes the fiber has marked its tinfo
\* first, so SO_ERROR, 0 while the connection is in progress, is not reached.
ConnectIsMade ==
    (call.kind = "connect" /\ call.result = "ok") => (ready \/ call.refused)

\* A call with a timeout returns, whatever the peer does, unless the callback
\* of one of its timers ran before the event was registered: the tinfo is
\* marked, later timers of the call do nothing, and only the event wakes it.
TimedCallReturns ==
    (call.at # "out" /\ call.timed) ~> (call.at = "out" \/ call.early)
=============================================================================
