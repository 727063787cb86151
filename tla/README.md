# Verification of Bobliew-Server

TLA+ models of Bobliew-Server (the fiber scheduler, its timers and its I/O
manager, the hooks and services on top of them, and the generated Uri and HTTP
parsers), the TLC runs that check them on small instances, and TLAPS proofs for
every size. Paths without a directory are below `src/bobliew/`. `PROJECT.json`
is the index: which definition models which lines, which run checks which
property, the hazards of the code and the properties that cover them.

To repeat a run: `tlc -config IOOne.cfg MCIOManager`; a proof: `tlapm
IOManagerProofs.tla`.

## 1. The system

Bobliew-Server runs user code on fibers (ucontext).

| part | files | role |
|---|---|---|
| Fiber | `fiber.*` | stackful fiber with a state: INIT, HOLD, EXEC, TERM, READY, EXCEPT |
| Scheduler | `scheduler.*` | one list of tasks (fibers and callbacks), N threads in `run()` |
| TimerManager | `timer.*` | ordered set of timers, expired callbacks, wake-up of idle threads |
| IOManager | `iomanager.*` | a Scheduler and a TimerManager; its idle fiber waits in epoll |
| hook, FdManager | `hook.*`, `fd_manager.*` | blocking calls become registrations with the IOManager |
| FiberSemaphore, WorkerGroup | `mutex.*`, `worker.*` | waiting for other fibers |
| Socket, TcpServer | `socket.*`, `tcp_server.*` | accept loops on top of the hooks |
| Stream, ByteArray | `stream.*`, `streams/*`, `bytearray.*` | buffers and partial reads |
| Http* | `http/*` | parsers, sessions, servlets, client connections and their pool |
| Config, Log, util, Uri, Address | | support |
| rock, db, application, zk, ... | | fragments that are not built |

They interact upwards: `run()` swaps fibers in; a fiber that would block
registers itself with a timer or an event, yields to HOLD, and is put back on
the list by `triggerEvent`, by an expired timer or by `notify()`; a thread with
nothing to do runs the idle fiber, which sleeps in `epoll_wait` until an event,
a timer or a byte in the tickle pipe. What is hard to test is all here: the
handover of a fiber between threads, the counters that decide when a thread
may leave, wake-ups that may be lost, cancellation that races expiry.

## 2. Modules

| module | models | state | actions |
|---|---|---|---|
| `Scheduler` | `scheduler.h`, `scheduler.cc`, the life cycle in `fiber.cc` | the list, both counters, both stop flags, per thread the locals of `run()` and its place, per fiber `m_state` and body | `start`, `stopAuto`/`stopFlag`/`stopCheck`/`stopJoin`, `Take`, `TakeNothing`, `Dispatch*`, `YieldToReady`, `Register`, `YieldToHold`, `MainFuncEnd`, `swapOut`, `BackFiber`, `BackCb`, `EnterIdle`, `idle`, `Wake` |
| `TimerManager` | `timer.h`, `timer.cc`, the timeout of `IOManager::idle` | the set, `m_tickled`, `m_previousTime`, each timer's fields, the clock, per thread its deadline | `Timer`, `addTimer`, `onTimerInsertedAtFront`, `cancel`, `refresh`, `reset`, `getNextTimer`, `listNow`, `listExpireCb`, `Tick`, `SetClock` |
| `IOManager` | `iomanager.h`, `iomanager.cc`, `close` of `hook.cc` | per descriptor events and waiters, the pending count, epoll's registration and ready list, the pipe, per thread its place and `events[]` | `addEvent`, `delEvent`, `cancelEvent`, `cancelAll`, `epoll_wait`, `listExpireCb`, `ReadPipe`, `HandleEvent`, `stopping*`, `Take`, `Close`, `Reopen`, ... |
| `Hook` | `do_io`, `connect_with_timeout` of `hook.cc` | the call and its `tinfo`, its timers, the registration | `Enter`, `Try`, `AddTimer`, `AddEvent`, `Leave`, `Wake`, `CancelTimer`, `Check`, `SockOpt`; of other threads `Collect`, `MarkTinfo`, `CancelEvent`, `Trigger` |
| `FdManager` | `fd_manager.cc`, `socket`, `accept`, `close`, `fcntl` of `hook.cc` | the kernel's descriptors, `m_datas` | one per call, hooked or not |
| `TcpServer` | `start`, `stop`, `startAccept` of `tcp_server.cc` | `m_isStop`, the listening socket, each accept fiber's place, the callbacks of `stop()` | `StartServer`, `StopServer`, `CancelAll`, `CloseSocket`, `LoopTest`, `Accept`, `Register`, `Retry` |
| `WorkerGroup`, `Batch` | `worker.cc`, `FiberSemaphore` of `mutex.cc`; `Batch` is what it promises | units, waiters, clients, jobs | `Schedule`, `Post`, `WaitAll`, `Take`, `Run`, `Finish`, `Throw`, `Yield`, `Resume` |
| `HttpConnectionPool` | the pool of `http/http_connection.cc` | `m_conns`, `m_total`, users, connections | `Scan`, `Purge`, `Connect*`, `Send*`, `Recv*`, `Release`, `Push` |
| `ConfigVar` | `setValue` of `config.h` | value, what listeners were told, each setter's place | `SetValue`, `Tell`, `Told`, `Assign` |
| `ByteArray`, `Varint` | `bytearray.cc` | the cursor twice (position and node), one followed byte; one integer and its bytes | one per turn of a loop |
| `HttpBody` | bodies in `http/http_session.cc`, `http/http_connection.cc`, `stream.cc`, the loop of `http/http_server.cc` | bytes consumed, placed, left | `HeadDone`, `Split`, `ReadFixSize`, `ReadFail`, `ReadDone`, `KeepAlive`, `CloseSession` |
| `Ragel`, `UriTable`, `Uri` | `uri.rl.cc` | state of the machine, `mark`, members set | `Read`, `End`, `Create` |
| `HttpElements`, `Http*Table`, `HttpRequestParser`, `HttpResponseParser` | `http/*.rl.cc`, `http/http_parser.cc` and the read loops that drive them | state of the machine, the offsets kept across a call, elements delivered | `ReqRead`, `ReqError`, `EndCall`, `ReqAgain`; `Rsp*` |
| `MCComponents` | | the modules from `Hook` on, one live in each behaviour | |
| `MC*` | | | model values and symmetry for TLC |
| `SchedulerInvariants` | | | the invariant both proof modules of the scheduler start from |
| `*Proofs`, `SchedulerTheorems` | | | lemmas and theorems; the scheduler's are in three modules, those of the two pools in `PoolProofs`, of the small services in `ComponentProofs` |

An action is a stretch of code that no other thread can see the middle of: a
critical section, or the statements between two accesses to shared state. What
the code does after unlocking is a later action. A failed `BOBLIEW_ASSERT` sets
`aborted`, after which nothing happens.

Composition. `IOManager` is the composition of the three classes, with the
scheduler's list abstracted to a set, its counters to the sets they count
(`CountersCorrect` in `SchedulerProofs` justifies that) and timers to callbacks
that become due at any time. Threads outside the pool schedule tasks and set
timers (`ClientSchedule`, `ClientAddTimer`) until they call `stop()`; events are
registered by bodies only, as `addEvent()` takes the caller's own scheduler. Each simplification is stated in the module's
header with the module that has the detail.

Abstractions of data. A callback or a fiber is a model value. A thread that is
given to `schedule()` is a member of `Threads` or `AnyThread`. `m_timers` is a
set; ties in its order go either way. `EPOLLERR` and `EPOLLHUP` are one
condition `HUP`. The C `int` that `epoll_wait` takes has `2 * IntHalf` values.

The parsers. The generated machines are tables: one entry per `case` of the
switch, in the order of the source, with the characters grouped into the classes
the code tells apart. What the actions of an edge do is in `Uri`,
`HttpRequestParser` and `HttpResponseParser`. Positions in the input are not
numbers. An independent reader of the same characters (the component split of
RFC 3986; request line, header lines, blank line) puts landmarks on positions,
such as "end of the scheme" or "start of the value", and a pointer or offset of
the parser is the set of landmarks where it points. The state space is then
finite although inputs have any length and are cut into reads anywhere, and a
property says that an element handed to a callback runs from its landmark to its
landmark. The reader knows nothing of the machine.

`Hook`, `TcpServer` and `WorkerGroup` stand on what `IOManager` and `Scheduler`
do: an event or a `notify()` makes a fiber runnable, and a runnable fiber that
has left its thread is resumed. `ByteArray` treats all bytes alike, so one byte
is followed from the position it was written at.

epoll is external and modelled from how `idle()` uses it: edge-triggered, an
interest mask and one ready list; `epoll_ctl` ADD and MOD look at the descriptor
at once; `epoll_wait` empties the list; closing removes the registration.

## 3. Runs

| run | instance | shows |
|---|---|---|
| `scheduler_ready` | 2 threads, 1 fiber that yields to READY, 2 callbacks, `stop()` | counters exact; one thread per fiber; no assertion fails; callbacks neither lost nor doubled; `stop()` drains; pins respected; nobody leaves early |
| `scheduler_hold` | 1 thread, every body may wait in HOLD, a fiber scheduled twice | the same fiber invariants with waits |
| `scheduler_caller` | `use_caller`, fair | `stop()` returns and every task runs, the caller's own included |
| `scheduler_hold_race` | 2 threads, 1 fiber that waits | **violated** `OneThreadPerFiber` |
| `timer_tickle` | 2 threads, 2 timers, delays on both sides of `MAX_TIMEOUT` | armed iff queued; one fate per one-shot timer; no oversleeping |
| `timer_live` | 2 timers, clock set back once, fair | every timer due leaves the set |
| `timer_int_wrap` | a delay that does not fit `int` | **violated** `SleepBounded` |
| `io_one` | 1 thread, both events, a fiber, 2 callbacks, cancel, closing and reopening, timers from inside and outside, `stop()` | pending count exact; no lost edge; no assertion fails except where a closed descriptor's number is reused; nothing stranded but timers set between the reads of `stopping()` |
| `io_live` | 2 threads, fair | waiting tasks run although tickles can be lost; `stop()` returns |
| `io_trigger` | 2 threads, cancel | **violated** `NoAssertFails` |
| `io_stranded` | 2 threads, 1 fiber | **violated** `NoneStranded` |
| `components` | each part of `MCComponents` by itself | see below |

What `components` shows:

| part | properties |
|---|---|
| Uri | `UriSplit`: members are the components of the input, and `Create()` throws only on an empty port |
| requests | `ReqElements`: elements, version and headers that are stored, whatever the cuts; `ReqFinished`: a head ends exactly at its blank line |
| responses | `RspElements` as above; `RspFinished`: no head ends early, and the body is read as chunks exactly when a header line said so |
| bodies | `BodyExact`: `Content-Length` bytes, each in its place |
| hooks | `TimeoutNotEarly`, `ConnectIsMade`; `TimedCallReturns` (liveness) |
| FdManager | `NeverBlocksThread` |
| TcpServer | `StopEndsAccept` (liveness) |
| WorkerGroup | `ImplementsBatch` (refinement); `WaitAllReturns` (liveness) |
| pool | `PoolExclusive`: no two users of one connection; `TotalExact`: `m_total`; `PoolAnswered`: what is pooled is fit for the next user, unless a call ended without closing it and without knowing what is left |
| ConfigVar | `ListenersFollow` |
| ByteArray, varints | `ReadsBack`, `NullOnlyAtEnd`; `VarintRoundTrip` |

Several of them have the form "holds, unless": the exception is a behaviour the
code has, named in the property; section 5 lists them. The type invariants and,
with a clock that is set back, `QueuedIffArmed` and `OneShotFate` are left to the
proofs.

Bounds and why they are enough. Two threads are what a race between threads
needs; the counters' theorems hold for any number. Two callbacks and one fiber
let a thread reuse its callback fiber, leave a task in the list while another
runs, and re-tickle. `MaxYields` 2 lets a fiber come back and go again.
`MaxOps` bounds the operations of all bodies together: 4 is enough to register
both events, cancel one and register it again, or to close, reopen and register
again. Two timers are a front and a non-front; `MaxTime` 2 with delays 1 and 3
and `MAX_TIMEOUT` 2 has a sleeper with a deadline before, at and after the next
timer. In `components`: the parsers have no bound; two nodes' worth of bytes and
more, with writes longer than a node, cross every kind of boundary of
`ByteArray`; integers of 7 bits in groups of 3 leave a cut last group like 32 and
64 bits in groups of 7; three clients and three jobs on two units make clients
wait with the owner; two users and two connections of two requests each reuse,
retire and replace a connection; three calls with a timeout of two ticks let a
callback of the first run in the third; two calls of `start()` and of `stop()`.
Symmetry is over threads, fibers, callbacks, timers and only in runs
without temporal properties that it would disturb.

Deadlock is checked in all scheduler and IOManager runs (a state in which every
thread has left, or the process has aborted, stutters by `Terminated`). The
timer runs switch it off: the clock ends at `MaxTime`; so does `components`: its
parts end when their bounded work is done.

Fairness. Weak fairness of every thread: the operating system runs them, and
`epoll_wait` has a timeout, so no thread sleeps for ever. Weak fairness of
`Wake`, `Due` and of the arrival of what is registered for: a property about
tasks that wait for something that never comes would say nothing. In
`scheduler_caller` the client's calls of `start()` and `stop()` are fair. In
`components`: the scheduler runs the fibers and callbacks it holds
(`WorkerFairness`, `TcpFairness`), the idle fiber takes expired timers and
reports events, and the clock advances (`HookFairness`); nothing is assumed of
peers, and callbacks end, by returning or throwing. Nothing needs strong
fairness. `EveryTaskRuns` of `IOManager` ends at `stop()`, because
`NoneStranded` is what is expected from then on.

## 4. Proofs

Except where a hypothesis is named, all are for any numbers of threads, fibers,
callbacks, timers and descriptors, from the `ASSUME` of each module (finite sets
of threads and descriptors, disjoint sets of tasks, null pointers that are not
objects).

**Scheduler** (`SchedulerProofs`): `TypeCorrect`, `CountersCorrect`,
`ExitCorrect`. The inductive invariant is `CoreInv == TypeOK /\ CountersExact /\
Shape`. `Shape` says what the locals of `run()` hold at each place (an entry is
a fiber or a callback and never both, `ft` is empty when nothing is held) and
that no thread runs before `start()`: without it the decrement after a swap
could not be matched with the increment of the scan, nor typed. Each action
moves at most one thread in or out of `Active` or `Idlers`, so the counters
follow from `CountersMove` and `CountersStay`, lemmas on the cardinality of
these sets. `ExitCorrect` is an action property: the idle fiber ends only when
`stop()` was called, the list is empty and nobody holds a task; it needs the
counter to be exact.

`CallbacksCorrect` proves `CallbackConserved`: a callback is one entry of the
list, or held by one thread, until it is entered once. Its invariant adds one
fact (`NewBodies`): a fiber in state INIT carries no callback, because `run()`
swaps a `cb_fiber` in right after giving it one and `reset(nullptr)` takes the
body of an ended one away; otherwise an old entry for a `cb_fiber` could enter a
callback a second time. `TakeConserves` and `DispatchConserves` follow the entry
from the list to the thread and into the body. The lemmas about what happens to
a task are in `SchedulerTaskProofs`, the theorems made from them and from
`CoreInv` in `SchedulerTheorems`.

Four more theorems of the scheduler hold for clients that are `ReadyOnly`, the
ones the scheduler alone serves: no body yields to HOLD (a wake-up may then come
before the context is saved, the first finding of section 5), no `Fiber::ptr` is
handed to `schedule()` by the client a second time, and a callback does not
yield to READY (its fiber would be reset under it, section 5). Without any one
of the three, in `SchedulerReady.cfg`, TLC has a counterexample. Threads, fibers, callbacks, the number of
yields, exceptions, and whether the caller's thread takes part, are arbitrary;
`SchedulerReady.cfg` is an instance.

- `OneThreadEach`, `AssertionsHold`: no stack is used by two threads and no
  assertion of `swapIn()` or `reset()` fails. Neither property is inductive.
  `FibersInv` follows every `Fiber::ptr`: it is in at most one entry, or with at
  most one thread, never both (`Apart`); what its `m_state` is follows from the
  place of the thread that holds it (`FiberOK`, `Stage`); and a `cb_fiber` is
  one thread's own, in state INIT except while that thread is in a callback
  (`CbOK`, `CbApart`). The delicate steps are `BackFiber`, which reads the state
  after the swap and puts the fiber back, and the exception path of `MainFunc`.
- `PinsHold`: a task that does not yield executes on the thread it was given.
  `PinInv` carries the pin from `schedule()` to the entry (`EntryPinned`), to
  the locals of the thread that took it (`TakenPinned`) and to the body.
- `StopIsClean`: when `stop()` returns every scheduled task was entered and the
  list is empty. This one also needs `~CrossPins`: a body that pins a task to
  another thread can find that thread gone (section 5). `DrainInv` says that from the
  moment one thread has seen `stopping()` every entry left has a thread that
  will scan the list again (`AllServed`), and where the threads are when
  `stop()` joins them (`Joined`): a late entry can only come from a body, whose
  own thread returns to the list before it looks at its idle fiber.

`OneThreadAsserts` is about the clients outside `ReadyOnly`: bodies register
with somebody and yield to HOLD, they may be woken at any moment after that,
and a `Fiber::ptr` may be in the list twice. On one thread (`SingleThread`) the
assertions still hold; `SchedulerHold.cfg` is an instance. With two threads the
first finding of section 5 violates it, and a callback that yields to READY has
its fiber reset under it, so `SingleThread` also asks that only fibers do that.
A fiber may now be in several entries and held as well, so the places of a
`Fiber::ptr` are no longer exclusive and `FibersInv` is of no use. `HoldInv`
says instead that a fiber is in state EXEC exactly while its body executes
(`ExecOK`); that `cb_fiber` is new and known to nobody else except while its
callback executes, and one that has registered leaves to HOLD and is given up
by `run()` (`OwnOK`); and that the fiber of a callback does not exist before the
callback is entered (`Unmade`), which rests on `CallbackConserved`. These
lemmas are in `SchedulerTheorems`.

**TimerManager** (`TimerManagerProofs`): `TimerTypeCorrect`, `ArmedCorrect`,
`FateCorrect`, by `TimerInv`, which adds to the properties that a timer not yet
inserted has no history and that `m_next - m_ms` is not negative. `NoOversleep`
proves `SleepCovers` for clocks that are never set and delays within `int`
(`Regular`); its invariant adds that a timer is due no later than its interval
from now (`DueOK`), that `listExpireCb` works with a time that has passed
(`ListOK`) and `TickledOK`: `m_tickled` is set only while a wake-up is on its
way or some thread is awake to ask again, which is why suppressing later
wake-ups is harmless. `SleepsAreBounded` proves `SleepBounded` under the same
hypotheses: by `DueOK` what `getNextTimer()` returns fits `int`, and the clamp
to `MAX_TIMEOUT` then bounds the sleep (`EpollTimeoutBounded`). It says how far
the finding of `timer_int_wrap` reaches: only delays beyond `int` break it.

**IOManager** (`IOManagerProofs`): `IOTypeCorrect` and `PendingCorrect` by
`IOInv == TypeOK /\ PendingExact`, which is inductive as it stands: a registered
event has a waiter (so what `triggerEvent` schedules is a task) and the count
is the size of the set `Registered`, which every path changes by what it adds
to the count. `EdgeCorrect` proves that no edge is lost. `EdgeNotLost` itself is
not inductive. `EdgeInv` adds that epoll's mask is what was registered since the
descriptor was opened and, when it is not empty, what the context says
(`InterestOK`); that only a thread between `epoll_wait` and the end of its loop
holds reports (`GotOK`); and it speaks of each event rather than of each
descriptor (`EdgeKept`): handling a report re-arms the descriptor with
`epoll_ctl`, which looks at it again, or skips it because none of the reported
events is registered.

Two theorems are about a single thread (`OneThread`), with any descriptors,
fibers and callbacks; with two threads both statements are violated, by findings
of section 5. `AssertsOnlyOnReuse`: `GotFresh` says that what is left of
`events[]` is registered with epoll, since no body runs between `epoll_wait` and
the end of the loop, and `InterestOK` makes that the context's events, so
`triggerEvent` finds what it asserts. `NobodyStranded`: what the reads of
`stopping()` found stays so while the thread looks further, and once all held
nobody is left to add anything (`LeaveCore`); that a zero count means no
registered event is `PendingExact`. The exception is a timer that a thread
outside the pool sets after `getNextTimer()` was read: these are collected in
`late`, and the theorem says that no other timer is left.

**WorkerGroup** (`PoolProofs`): `WorkerImplementsBatch`, for any clients,
jobs and batch size: initial states map to initial states of `Batch` and every
step to a step or a stutter. `WorkerInv` says where each unit of the semaphore
is: free, on its way to a client (`granted`, or handed over by `notify()` and in
`woken`), with a job in flight, or taken by `waitAll()`; together they are
`m_batchSize` (`UnitsOK`). A fiber waits for one unit at a time (`WaitersOK`) and
no two clients are given one job (`GivenOK`). When `waitAll()` has all units
nothing is in flight (`ReturnedOK`), and nothing can be any more.

**ByteArray** (`ComponentProofs`): `BytesReadBack`, `CursorInList`, for any node
size and lengths. `ByteInv` ties the two forms of the cursor together
(`CursorOK`: between operations `m_curr` is the node that holds `m_position`,
the next one at a boundary, which may not exist yet), says that the capacity is
whole nodes and neither the position nor the size lies beyond it (`NodesOK`),
how far a loop has come (`LoopOK`), and where the followed byte is while it is
being written or read (`WritingOK`, `ReadingOK`, `StoredOK`).

**Varints** (`VarintProofs`): `VarintsReadBack`, for every integer of every
width, group size and array size with `VarintAssumption`: the array has just as
many bytes as the width has groups, as 5 bytes for 32 bits and 10 for 64 do.
With `u` the unsigned value that is encoded and `Weight(n)` the power
2^(Group * n), `VarintInv` says that the bytes written are the digits of `u` in
base 2^Group with the continuation bit on all but the last, that what is left
to write is `u \div Weight(n)` after n bytes (`WrittenOK`), and that the reader
has `u % Weight(i)` after i bytes (`ReadOK`). The steps are laws of `\div` and
`%` (`DivTwice`, `DivUnique`). The provers know no exponentiation, so
2^(m + n) = 2^m * 2^n is obtained by counting the subsets of 1..(m + n)
(`PowerSum`). `Zigzag` shows that decoding undoes encoding, the negation that
wraps at the most negative integer included.

**HttpConnectionPool** (`PoolProofs`): `ConnectionsExclusive`,
`TotalCorrect` and `PooledFit`, for any users, connections and limits. `PoolInv`
joins the three with what is known of a connection a user holds (`HeldOK`): it is
live; connected unless it is about to be released; while it is connected,
nothing of an earlier answer is still to come (`rest`) unless a call on it ended
without closing and without knowing (`loose`); below `m_maxRequest` when it is
about to be pushed. What `loose` stands for is a failed `sendRequest()`, an
exception in `recvResponse()`, a chunked response and one without a usable
Content-Length; timeouts, errors and malformed responses are covered by the
theorem. The peer is taken to answer a request once, with as many bytes as its
Content-Length says. So everything pooled is usable, `getConnection()` takes the front of the
list or finds it empty, and never purges one (`PopsFront`, `ScanTakes`). That
rests on `ClockAssumption`, the clock being beyond `m_maxAliveTime`, since
`m_createTime` is never set and the lifetime rule compares with zero.

**Services** (`ComponentProofs`), each by an invariant of its own:

- `TimeoutsNotEarly`, `ConnectsAreMade` of `Hook`, for any timeout and number of
  calls. Timers of earlier calls, and of earlier waits of the same call, may
  still be collected and run their callbacks. `HookInv` says of each timer of
  the call under way that it runs out no earlier than the call does and was
  collected only after that, and that its callback has marked this call's
  `tinfo` and no later one (`TimerOK`); that the event is registered, or the
  fiber scheduled, only while the call waits (`WaitOK`); and why a `connect()`
  was resumed (`ConnectOK`).
- `ThreadsNotBlocked` of `FdManager`, for any descriptors. `CtxOK`: unless
  `close()` left it behind, an FdCtx belongs to an open descriptor of the same
  kind, and both it and the kernel have a socket as non-blocking.
- `ListenersCorrect` of `ConfigVar`, for any threads, values and number of
  listeners: as long as calls have not overlapped one setter is under way
  (`OneSetter`) and has told its value to the listeners before `next`
  (`ToldOK`).
- `BodiesExact` of `HttpBody`, for any buffer and Content-Length
  (`BodyAssumption`: they are natural numbers, the buffer not empty). `BodyInv`
  keeps the sum: what was split off the buffer and what was read since is what
  was consumed after the head, and with what is left it is the Content-Length.

Only model-checked:

- liveness (`StopReturns`, `EveryTaskRuns`, `TimersExpire`, `TimedCallReturns`,
  `WaitAllReturns`, `StopEndsAccept`), which needs fairness and `ENABLED`, out
  of the prover's reach;
- the parsers (`UriSplit`, `ReqElements`, `ReqFinished`, `RspElements`,
  `RspFinished`): they are statements about generated tables of a fixed size,
  whose state spaces TLC covers completely.

## 5. Findings

- **A fiber on two threads** (`scheduler_hold_race`, `fiber.cc:194`). A fiber
  sets HOLD and only then saves its context. Whoever it registered with may
  schedule it in between, and a second thread swaps in a context that is still
  in use. The scan's test for EXEC does not see it.
- **Timeouts beyond `int`** (`timer_int_wrap`, `iomanager.cc:320`). The distance
  of the next timer is cast to `int` before it is compared with `MAX_TIMEOUT`;
  from 2^31 ms on it is negative and `epoll_wait` gets a timeout that is not
  bounded by `MAX_TIMEOUT`.
- **`triggerEvent`'s assertion** (`io_trigger`, `iomanager.cc:406`). Both events
  of a descriptor are reported, another thread cancels one, and the reporting
  thread triggers both.
- **A fiber left in HOLD** (`io_stranded`, `iomanager.cc:276`). `stopping()` is
  three separate reads; a thread whose idle fiber has ended still executes a
  task, which may wait for an event nobody will report.

Smaller observations in the core, each reproduced by changing one constant of a
passing run, or built into a property as its exception:

- a callback that yields to READY stays the thread's `cb_fiber` and is reset for
  the next callback (a callback in `ReadyYielders` in `SchedulerReady.cfg`
  violates `NoAssertFails`, `fiber.cc:107`);
- a fiber pinned to a thread loses its pin when it yields to READY
  (`scheduler.cc:226`), hence the condition in `PinRespected`;
- a body that schedules a callback on another thread late in `stop()` can find
  that thread gone (`CrossPins = TRUE` violates `StopDrains`);
- `close()` under hooks leaves the registration behind; when the number is
  reused and registered again, `addEvent`'s assertion fails
  (`iomanager.cc:100`), and that is the only way a single thread reaches a
  failed assertion (`AssertOnlyOnReuse`); the pending count and the edges stay
  right;
- a timer that a thread outside the pool sets just after the last thread's
  `stopping()` has read `getNextTimer()` stays behind when `stop()` follows
  before the read of the flags, even with one thread (`NoneStranded`, `late`;
  `src/tests/test_iomanager.cc:46` has the main thread set a timer and then stop);
- a tickle is lost when a thread is between its empty scan and
  `++m_idleThreadCount`; the task waits for at most `MAX_TIMEOUT` (`io_live`).

In the services:

- a timer's callback that runs before `do_io` has registered the event leaves
  the call without a timeout: its mark makes later timers return at once
  (`TimedCallReturns`, `call.early`);
- a descriptor closed in a hooked thread keeps its FdCtx, so the socket that
  gets its number next is not made non-blocking and inherits its timeouts
  (`NeverBlocksThread`, `left`);
- an accept fiber woken by `cancelAll()` may register again before `close()`,
  which wakes nobody: it waits for ever (`StopEndsAccept`, `late`); `start()`
  between `stop()` and its callback makes two fibers wait on one socket, which
  ends the process in `addEvent`'s assertion (also an exception of
  `StopEndsAccept`); after the callback `m_socks` is empty and `start()` serves
  nothing;
- a callback that throws keeps its unit and `waitAll()` hangs
  (`WaitAllReturns`); so does a `schedule()` after `waitAll()`;
- a connection is pooled after a request could not be sent completely, after
  `recvResponse()` threw, and after a response whose body was not read because
  it has no Content-Length, or has one that was cut and dropped: the next user
  can take what is left for its own answer (`PoolAnswered`, `loose`); nothing assigns `m_createTime`, so connections never age,
  what is in the pool is still connected and the loop over `invalid_conns` has
  nothing to delete; `m_maxSize` is not used;
- overlapping `setValue()` calls can tell two listeners and assign the value in
  three different orders (`ListenersFollow`);
- `read()` of no bytes at the end of a full array dereferences nullptr
  (`NullOnlyAtEnd`);
- bytes of the next message that came with this one are dropped with the buffer
  of `recvRequest` and `recvResponse`.

In the parsers:

- `scheme://host:` (an empty port) makes `Uri::Create` throw; the path is stored
  only after `scheme://authority`; the userinfo loses what
  precedes its first ":" when a digit follows it (all in `UriSplit`);
- an element cut by a read loses its head, a header whose ":" came with an earlier
  read, or whose name was cut right before the ":", is dropped, a query is then measured from an old offset and a
  version cut exactly at its end counts as 1.1 (`ReqElements`);
- an empty Content-Length or Transfer-Encoding of a response continued on the
  next line is stored under the first bytes of that line (`RspElements`);
- a response head whose last header is a Content-Length, Connection or
  Transfer-Encoding line without a value is not recognised as complete, since
  `is_finished` tests for one of four final states (`RspFinished`);
- a chunk header cut by a read has its bytes subtracted twice
  (`http/http_connection.cc:85`); the model of the response ends there.

## 6. Not modelled

`PROJECT.json` lists every part with its reason. In short: text conversions
(Address, Http messages, YAML, JSON), logging, wrappers of system calls and
libraries (Thread, mutexes, Socket, TLS, zlib), sequential lookups over tables
filled at start-up (ServletDispatch, WorkerManager), interfaces without an
implementation (db) and fragments that are not built (rock, application, module,
zk, part of streams). In the modelled parts: stack allocation and fiber ids, the
vectors of FdContexts and FdCtxs and their resizing, `dump()`; `sleep` and its
relatives, `ioctl` and `setsockopt` of the hooks; `tryWait` of FiberSemaphore,
which nothing calls; `bind` and certificates of TcpServer; the chunked bodies of
responses after their first miscount; listeners added while values change; the
const `read`, the iovec views and the file I/O of ByteArray; clocks that are set
while a hooked call waits (`TimerManager` has set-backs).
