----------------------------- MODULE TcpServer -----------------------------
(***************************************************************************)
(* TcpServer (tcp_server.cc) with one listening socket: start(), stop(),   *)
(* the closing callback stop() schedules, and one startAccept() fiber per  *)
(* start(), on the threads of m_acceptWorker.  The blocking accept() is    *)
(* do_io() of hook.cc without a timeout: try, register, wait, try again.   *)
(***************************************************************************)
EXTENDS Naturals, FiniteSets

CONSTANT MaxStarts      \* bound on the calls of start()

ASSUME StartsAssumption == MaxStarts \in Nat

VARIABLES
    m_isStop,
    listening,  \* m_socks holds the socket
    fd,         \* the descriptor: "open" or "closed"
    loops,      \* startAccept() fibers begun so far
    loop,       \* fiber -> "none", "test", "try", "register", "wait", "woken", "ended"
    m_event,    \* fibers waiting for READ on the descriptor
    closing,    \* the callbacks of stop(): a set of [n, at]
    stops,      \* calls of stop()
    late,       \* fibers that registered between cancelAll() and close()
    assertFailed

tvars == <<m_isStop, listening, fd, loops, loop, m_event, closing, stops, late, assertFailed>>

Loops == 1..MaxStarts

TcpInit ==
    /\ m_isStop = TRUE /\ listening = TRUE /\ fd = "open"
    /\ loops = 0 /\ loop = [i \in Loops |-> "none"]
    /\ m_event = {} /\ closing = {} /\ stops = 0 /\ late = {}
    /\ assertFailed = FALSE

Goto(i, at) == loop' = [loop EXCEPT ![i] = at]

-----------------------------------------------------------------------------

\* start(): the second call in a row does nothing; a fiber per socket of m_socks.
StartServer ==
    /\ m_isStop /\ loops < MaxStarts
    /\ m_isStop' = FALSE
    /\ IF listening THEN loops' = loops + 1 /\ Goto(loops + 1, "test")
                    ELSE UNCHANGED <<loops, loop>>
    /\ UNCHANGED <<listening, fd, m_event, closing, stops, late, assertFailed>>

StopServer ==
    /\ stops < MaxStarts
    /\ m_isStop' = TRUE
    /\ stops' = stops + 1
    /\ closing' = closing \cup {[n |-> stops, at |-> "cancelAll"]}
    /\ UNCHANGED <<listening, fd, loops, loop, m_event, late, assertFailed>>

\* sock->cancelAll(): schedules the waiting fibers.
CancelAll(k) ==
    /\ k.at = "cancelAll" /\ listening
    /\ loop' = [i \in Loops |-> IF i \in m_event THEN "woken" ELSE loop[i]]
    /\ m_event' = {} /\ late' = {}
    /\ closing' = (closing \ {k}) \cup {[k EXCEPT !.at = "close"]}
    /\ UNCHANGED <<m_isStop, listening, fd, loops, stops, assertFailed>>

\* sock->close(), in a hooked thread close_f() alone; m_socks.clear().
CloseSocket(k) ==
    /\ k.at = "close" \/ ~listening
    /\ fd' = "closed" /\ listening' = FALSE
    /\ closing' = closing \ {k}
    /\ UNCHANGED <<m_isStop, loops, loop, m_event, stops, late, assertFailed>>

-----------------------------------------------------------------------------

\* Mutant: the flag is read once, before the loop.
LoopTestNot(i) ==
    /\ loop[i] = "test"
    /\ Goto(i, "try")
    /\ UNCHANGED <<m_isStop, listening, fd, loops, m_event, closing, stops, late, assertFailed>>

\* while(!m_isStop)
LoopTest(i) ==
    /\ loop[i] = "test"
    /\ Goto(i, IF m_isStop THEN "ended" ELSE "try")
    /\ UNCHANGED <<m_isStop, listening, fd, loops, m_event, closing, stops, late, assertFailed>>

\* accept_f(): a client, which is scheduled on m_ioWorker, or EBADF: the next
\* turn of the loop; or EAGAIN.
Accept(i) ==
    /\ loop[i] = "try"
    /\ \/ Goto(i, "test")
       \/ fd = "open" /\ Goto(i, "register")
    /\ UNCHANGED <<m_isStop, listening, fd, loops, m_event, closing, stops, late, assertFailed>>

\* iom->addEvent(fd, READ): the assertion that nobody waits already; epoll_ctl
\* fails on a closed descriptor.
Register(i) ==
    /\ loop[i] = "register"
    /\ \/ m_event # {} /\ assertFailed' = TRUE /\ UNCHANGED <<loop, m_event, late>>
       \/ /\ m_event = {} /\ fd = "closed" /\ Goto(i, "test")
          /\ UNCHANGED <<m_event, late, assertFailed>>
       \/ /\ m_event = {} /\ fd = "open" /\ Goto(i, "wait")
          /\ m_event' = {i}
          /\ late' = IF \E k \in closing : k.at = "close" THEN late \cup {i} ELSE late
          /\ UNCHANGED assertFailed
    /\ UNCHANGED <<m_isStop, listening, fd, loops, closing, stops>>

\* A connection arrives, and IOManager::idle triggers the event.
Connection(i) ==
    /\ loop[i] = "wait" /\ fd = "open"
    /\ Goto(i, "woken")
    /\ m_event' = {}
    /\ UNCHANGED <<m_isStop, listening, fd, loops, closing, stops, late, assertFailed>>

\* goto retry
Retry(i) ==
    /\ loop[i] = "woken"
    /\ Goto(i, "try")
    /\ UNCHANGED <<m_isStop, listening, fd, loops, m_event, closing, stops, late, assertFailed>>

ClosingStep(k) == CancelAll(k) \/ CloseSocket(k)
LoopStep(i) == LoopTest(i) \/ Accept(i) \/ Register(i) \/ Retry(i)

\* A failed assertion ends the process.
TcpNext ==
    /\ ~assertFailed
    /\ \/ StartServer \/ StopServer
       \/ \E k \in closing : ClosingStep(k)
       \/ \E i \in Loops : LoopStep(i) \/ Connection(i)

\* m_acceptWorker runs the fibers and the callbacks it holds.
TcpFairness ==
    /\ WF_tvars(~assertFailed /\ \E k \in closing : ClosingStep(k))
    /\ \A i \in Loops : WF_tvars(~assertFailed /\ LoopStep(i))

-----------------------------------------------------------------------------
(* Properties.                                                             *)

\* A server that stays stopped ends its startAccept() fibers, wherever stop()
\* met them, unless one was woken by cancelAll(), tried again and registered
\* once more before close(): close_f() wakes nobody; or start() came between
\* stop() and its callback, and two fibers registered for the socket: the
\* failed assertion of addEvent() ended the process.
StopEndsAccept ==
    (<>[]m_isStop) => <>[](assertFailed \/ \A i \in Loops : loop[i] \in {"none", "ended"} \/ i \in late)
=============================================================================
