---------------------------- MODULE WorkerGroup ----------------------------
(***************************************************************************)
(* WorkerGroup (worker.cc) on its FiberSemaphore (mutex.cc).               *)
(*                                                                         *)
(* Clients are fibers that call schedule(); the owner also calls           *)
(* waitAll(), which is what the destructor does.  A client that finds no   *)
(* unit enters m_waiters under the lock and leaves its thread afterwards;  *)
(* notify() hands the unit to the first waiter by scheduling its fiber.    *)
(* The scheduler is the one of Scheduler.tla; here it is the set woken of  *)
(* fibers and the jobs "listed": it runs each of them eventually.          *)
(***************************************************************************)
EXTENDS Naturals, Sequences, FiniteSets

CONSTANTS
    Clients, Owner,
    Jobs,           \* callbacks, each scheduled once at most
    m_batchSize

ASSUME BatchSizeAssumption == m_batchSize \in Nat \ {0}
ASSUME ClientAssumption == Owner \in Clients /\ IsFiniteSet(Clients) /\ IsFiniteSet(Jobs)
ASSUME AllAssumption == "all" \notin Jobs

VARIABLES
    m_concurrency, m_waiters,   \* FiberSemaphore
    m_finish,
    at,         \* client -> "idle", in wait(): "leaving", "held", "granted"
    arg,        \* client -> the job it schedules, or "all" for waitAll()
    woken,      \* clients notify() has scheduled
    job,        \* job -> "new", "given", "listed", "running", "done", "threw"
    taken,      \* units waitAll() has taken
    returned    \* waitAll() has returned

wvars == <<m_concurrency, m_waiters, m_finish, at, arg, woken, job, taken, returned>>

WorkerInit ==
    /\ m_concurrency = m_batchSize /\ m_waiters = <<>>
    /\ m_finish = FALSE
    /\ at = [f \in Clients |-> "idle"]
    /\ arg = [f \in Clients |-> "all"]
    /\ woken = {}
    /\ job = [j \in Jobs |-> "new"]
    /\ taken = 0 /\ returned = FALSE

-----------------------------------------------------------------------------
(* FiberSemaphore.                                                         *)

\* Mutant: the unit is not counted.
WaitFree(f) ==
    IF m_concurrency > 0
    THEN /\ at' = [at EXCEPT ![f] = "granted"]
         /\ UNCHANGED <<m_concurrency, m_waiters>>
    ELSE /\ m_waiters' = Append(m_waiters, f)
         /\ at' = [at EXCEPT ![f] = "leaving"]
         /\ UNCHANGED m_concurrency

\* wait(), up to the release of m_mutex.
Wait(f) ==
    IF m_concurrency > 0
    THEN /\ m_concurrency' = m_concurrency - 1
         /\ at' = [at EXCEPT ![f] = "granted"]
         /\ UNCHANGED m_waiters
    ELSE /\ m_waiters' = Append(m_waiters, f)
         /\ at' = [at EXCEPT ![f] = "leaving"]
         /\ UNCHANGED m_concurrency

\* Mutant: the waiter stays asleep.
NotifySilent ==
    /\ IF m_waiters # <<>> THEN m_waiters' = Tail(m_waiters) ELSE UNCHANGED m_waiters
    /\ m_concurrency' = m_concurrency + 1
    /\ UNCHANGED woken

Notify ==
    IF m_waiters # <<>>
    THEN /\ woken' = woken \cup {Head(m_waiters)}
         /\ m_waiters' = Tail(m_waiters)
         /\ UNCHANGED m_concurrency
    ELSE /\ m_concurrency' = m_concurrency + 1
         /\ UNCHANGED <<woken, m_waiters>>

\* YieldToHold() at the end of wait().
Yield(f) ==
    /\ at[f] = "leaving"
    /\ at' = [at EXCEPT ![f] = "held"]
    /\ UNCHANGED <<m_concurrency, m_waiters, m_finish, arg, woken, job, taken, returned>>

\* The scheduler resumes a fiber that notify() scheduled; wait() returns.
Resume(f) ==
    /\ f \in woken /\ at[f] = "held"
    /\ woken' = woken \ {f}
    /\ at' = [at EXCEPT ![f] = "granted"]
    /\ UNCHANGED <<m_concurrency, m_waiters, m_finish, arg, job, taken, returned>>

-----------------------------------------------------------------------------
(* WorkerGroup.                                                            *)

\* schedule(cb): m_sem.wait().
Schedule(f, j) ==
    /\ at[f] = "idle" /\ job[j] = "new"
    /\ arg' = [arg EXCEPT ![f] = j]
    /\ job' = [job EXCEPT ![j] = "given"]
    /\ Wait(f)
    /\ UNCHANGED <<m_finish, woken, taken, returned>>

\* schedule(cb): m_scheduler->schedule(doWork).
Post(f) ==
    /\ at[f] = "granted" /\ arg[f] # "all"
    /\ job' = [job EXCEPT ![arg[f]] = "listed"]
    /\ at' = [at EXCEPT ![f] = "idle"]
    /\ UNCHANGED <<m_concurrency, m_waiters, m_finish, arg, woken, taken, returned>>

\* waitAll(): the first m_sem.wait(); a second call returns at once.
WaitAll ==
    /\ at[Owner] = "idle" /\ ~m_finish
    /\ m_finish' = TRUE
    /\ arg' = [arg EXCEPT ![Owner] = "all"]
    /\ Wait(Owner)
    /\ UNCHANGED <<woken, job, taken, returned>>

\* waitAll(): a wait() has returned; the next one, or the end of the loop.
Take ==
    /\ at[Owner] = "granted" /\ arg[Owner] = "all"
    /\ taken' = taken + 1
    /\ IF taken' = m_batchSize
       THEN /\ returned' = TRUE
            /\ at' = [at EXCEPT ![Owner] = "idle"]
            /\ UNCHANGED <<m_concurrency, m_waiters>>
       ELSE Wait(Owner) /\ UNCHANGED returned
    /\ UNCHANGED <<m_finish, arg, woken, job>>

\* doWork(): cb() starts.
Run(j) ==
    /\ job[j] = "listed"
    /\ job' = [job EXCEPT ![j] = "running"]
    /\ UNCHANGED <<m_concurrency, m_waiters, m_finish, at, arg, woken, taken, returned>>

\* doWork(): cb() returns, m_sem.notify().
Finish(j) ==
    /\ job[j] = "running"
    /\ job' = [job EXCEPT ![j] = "done"]
    /\ Notify
    /\ UNCHANGED <<m_finish, at, arg, taken, returned>>

\* doWork(): cb() throws, and the fiber's MainFunc catches it.
Throw(j) ==
    /\ job[j] = "running"
    /\ job' = [job EXCEPT ![j] = "threw"]
    /\ UNCHANGED <<m_concurrency, m_waiters, m_finish, at, arg, woken, taken, returned>>

WorkerNext ==
    \/ \E f \in Clients : \/ \E j \in Jobs : Schedule(f, j)
                          \/ Yield(f) \/ Resume(f) \/ Post(f)
    \/ WaitAll \/ Take
    \/ \E j \in Jobs : Run(j) \/ Finish(j) \/ Throw(j)

WorkerSpec == WorkerInit /\ [][WorkerNext]_wvars

\* The scheduler runs what it holds, and callbacks end: as each client schedules
\* a bounded number of jobs, it is enough that some step is taken.
WorkerFairness ==
    WF_wvars(\/ \E f \in Clients : Yield(f) \/ Resume(f) \/ Post(f)
             \/ Take
             \/ \E j \in Jobs : Run(j) \/ Finish(j) \/ Throw(j))

-----------------------------------------------------------------------------
(* Properties.                                                             *)

\* A job that threw keeps its unit, and stays in flight for the group.
InFlight == {j \in Jobs : job[j] \in {"listed", "running", "threw"}}

\* A WorkerGroup is a Batch: never more than m_batchSize callbacks are in
\* flight, and waitAll() returns only when all of them have returned, although
\* units are handed from doWork() to a waiting fiber that may not even have
\* left its thread.
B == INSTANCE Batch WITH Size <- m_batchSize, inflight <- InFlight
ImplementsBatch == B!BatchSpec

\* waitAll() returns, unless a callback threw: doWork() then misses notify().
WaitAllReturns == m_finish ~> (returned \/ \E j \in Jobs : job[j] = "threw")
=============================================================================
