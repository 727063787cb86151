----------------------------- MODULE PoolProofs -----------------------------
(***************************************************************************)
(* The two modules that count what they lend, for any number of borrowers. *)
(*                                                                         *)
(* A WorkerGroup implements a Batch.  The invariant counts the units: each *)
(* is in the semaphore, with a client that was granted it or is being      *)
(* woken with it, with a job in flight, or taken by waitAll().             *)
(*                                                                         *)
(* An HttpConnectionPool shares no connection, counts those that exist and *)
(* keeps only such as are fit for the next user.                           *)
(***************************************************************************)
EXTENDS WorkerGroup, HttpConnectionPool, FiniteSetTheorems, TLAPS

WorkerTypeOK ==
    /\ m_concurrency \in Nat /\ taken \in Nat
    /\ m_waiters \in Seq(Clients)
    /\ m_finish \in BOOLEAN /\ returned \in BOOLEAN
    /\ at \in [Clients -> {"idle", "leaving", "held", "granted"}]
    /\ arg \in [Clients -> Jobs \cup {"all"}]
    /\ woken \in SUBSET Clients
    /\ job \in [Jobs -> {"new", "given", "listed", "running", "done", "threw"}]

\* A client in wait() has one place: m_waiters, once, or the scheduler's list.
WaitersOK ==
    /\ \A f \in woken : at[f] \in {"leaving", "held"}
    /\ \A i \in 1..Len(m_waiters) :
         at[m_waiters[i]] \in {"leaving", "held"} /\ m_waiters[i] \notin woken
    /\ \A i, j \in 1..Len(m_waiters) : m_waiters[i] = m_waiters[j] => i = j

\* A job that is given is in the hands of one client.
GivenOK ==
    /\ \A f \in Clients : at[f] # "idle" /\ arg[f] # "all" => job[arg[f]] = "given"
    /\ \A f, g \in Clients :
         at[f] # "idle" /\ at[g] # "idle" /\ arg[f] # "all" /\ arg[f] = arg[g] => f = g

\* The clients that hold a unit.
Holders == {f \in Clients : at[f] = "granted"} \cup woken

UnitsOK == m_concurrency + Cardinality(Holders) + Cardinality(InFlight) + taken = m_batchSize

ReturnedOK == returned => taken = m_batchSize

WorkerInv == WorkerTypeOK /\ WaitersOK /\ GivenOK /\ UnitsOK /\ ReturnedOK

USE SMTT(60), ZenonT(60), SMTT(90), SMTT(120)

-----------------------------------------------------------------------------
(* Counting.                                                               *)

LEMMA HoldersFinite ==
    ASSUME WorkerTypeOK
    PROVE  IsFiniteSet(Holders) /\ Cardinality(Holders) \in Nat
<1>1. Holders \in SUBSET Clients
  BY DEF Holders, WorkerTypeOK
<1> QED
  BY <1>1, ClientAssumption, FS_Subset, FS_CardinalityType

LEMMA NextHoldersFinite ==
    ASSUME WorkerTypeOK'
    PROVE  IsFiniteSet(Holders') /\ Cardinality(Holders') \in Nat
<1>1. Holders' \in SUBSET Clients
  BY DEF Holders, WorkerTypeOK
<1> QED
  BY <1>1, ClientAssumption, FS_Subset, FS_CardinalityType

LEMMA InFlightFinite == IsFiniteSet(InFlight) /\ Cardinality(InFlight) \in Nat
<1>1. InFlight \in SUBSET Jobs
  BY DEF InFlight
<1> QED
  BY <1>1, ClientAssumption, FS_Subset, FS_CardinalityType

LEMMA Numbers ==
    ASSUME WorkerTypeOK
    PROVE  /\ m_concurrency \in Nat /\ taken \in Nat
           /\ Cardinality(Holders) \in Nat /\ Cardinality(InFlight) \in Nat
<1>1. m_concurrency \in Nat /\ taken \in Nat
  BY DEF WorkerTypeOK
<1> QED
  BY <1>1, HoldersFinite, InFlightFinite

LEMMA NextNumbers ==
    ASSUME WorkerTypeOK'
    PROVE  m_concurrency' \in Nat /\ Cardinality(Holders') \in Nat
<1>1. m_concurrency' \in Nat
  BY DEF WorkerTypeOK
<1> QED
  BY <1>1, NextHoldersFinite

LEMMA HolderAdded ==
    ASSUME WorkerTypeOK, NEW f, f \notin Holders, Holders' = Holders \cup {f}
    PROVE  Cardinality(Holders') = Cardinality(Holders) + 1
BY HoldersFinite, FS_AddElement

LEMMA HolderRemoved ==
    ASSUME WorkerTypeOK, NEW f, f \in Holders, Holders' = Holders \ {f}
    PROVE  Cardinality(Holders') = Cardinality(Holders) - 1
BY ZenonT(60), HoldersFinite, FS_RemoveElement

LEMMA SameInFlight ==
    ASSUME job' = job
    PROVE  InFlight' = InFlight
BY DEF InFlight

-----------------------------------------------------------------------------
(* The semaphore.                                                          *)

\* wait() moves a unit from the semaphore to its caller, or queues the
\* caller; a caller that comes with a unit gives it away.
LEMMA WaitKeeps ==
    ASSUME WorkerTypeOK, WaitersOK, NEW f \in Clients, at[f] \in {"idle", "granted"},
           Wait(f), woken' = woken
    PROVE  /\ WaitersOK'
           /\ m_concurrency' \in Nat /\ m_waiters' \in Seq(Clients)
           /\ at' \in [Clients -> {"idle", "leaving", "held", "granted"}]
           /\ at'[f] # "idle" /\ \A g \in Clients \ {f} : at'[g] = at[g]
           /\ m_concurrency' + Cardinality(Holders')
                = m_concurrency + Cardinality(Holders) - (IF at[f] = "idle" THEN 0 ELSE 1)
<1>0. f \notin woken /\ \A i \in 1..Len(m_waiters) : m_waiters[i] # f
  BY DEF WaitersOK
<1>1. CASE m_concurrency > 0
  <2>1. m_concurrency' = m_concurrency - 1 /\ at' = [at EXCEPT ![f] = "granted"]
        /\ m_waiters' = m_waiters
    BY <1>1 DEF Wait
  <2>2. WaitersOK'
    BY <1>0, <2>1 DEF WaitersOK, WorkerTypeOK
  <2>3. at[f] = "idle" => f \notin Holders /\ Holders' = Holders \cup {f}
    BY <1>0, <2>1 DEF Holders, WorkerTypeOK
  <2>4. at[f] = "granted" => Holders' = Holders
    BY <2>1 DEF Holders, WorkerTypeOK
  <2>5. Cardinality(Holders') = Cardinality(Holders) + (IF at[f] = "idle" THEN 1 ELSE 0)
    BY <2>3, <2>4, HolderAdded, HoldersFinite
  <2> QED
    <3>1. /\ m_concurrency' \in Nat
          /\ m_concurrency' + Cardinality(Holders')
               = m_concurrency + Cardinality(Holders) - (IF at[f] = "idle" THEN 0 ELSE 1)
      BY <1>1, <2>1, <2>5, Numbers
    <3>2. /\ m_waiters' \in Seq(Clients)
          /\ at' \in [Clients -> {"idle", "leaving", "held", "granted"}]
          /\ at'[f] # "idle" /\ \A g \in Clients \ {f} : at'[g] = at[g]
      BY <2>1 DEF WorkerTypeOK
    <3> QED
      BY <2>2, <3>1, <3>2
<1>2. CASE ~(m_concurrency > 0)
  <2>1. m_concurrency' = m_concurrency /\ at' = [at EXCEPT ![f] = "leaving"]
        /\ m_waiters' = Append(m_waiters, f)
    BY <1>2 DEF Wait
  <2>2. m_waiters \in Seq(Clients) /\ at \in [Clients -> {"idle", "leaving", "held", "granted"}]
    BY DEF WorkerTypeOK
  <2>3. /\ Len(m_waiters') = Len(m_waiters) + 1 /\ m_waiters'[Len(m_waiters) + 1] = f
        /\ \A i \in 1..Len(m_waiters) : m_waiters'[i] = m_waiters[i] /\ m_waiters[i] \in Clients
    BY <2>1, <2>2
  <2>4. WaitersOK'
    <3>1. \A g \in woken' : at'[g] \in {"leaving", "held"}
      BY <2>1, <2>2 DEF WaitersOK, WorkerTypeOK
    <3>2. \A i \in 1..Len(m_waiters') :
            at'[m_waiters'[i]] \in {"leaving", "held"} /\ m_waiters'[i] \notin woken'
      BY <1>0, <2>1, <2>2, <2>3 DEF WaitersOK
    <3>3. \A i, j \in 1..Len(m_waiters') : m_waiters'[i] = m_waiters'[j] => i = j
      BY <1>0, <2>2, <2>3 DEF WaitersOK
    <3> QED
      BY <3>1, <3>2, <3>3 DEF WaitersOK
  <2>5. at[f] = "idle" => Holders' = Holders
    BY <2>1, <2>2 DEF Holders
  <2>6. at[f] = "granted" => f \in Holders /\ Holders' = Holders \ {f}
    BY <1>0, <2>1, <2>2 DEF Holders, WorkerTypeOK
  <2>7. Cardinality(Holders') = Cardinality(Holders) - (IF at[f] = "idle" THEN 0 ELSE 1)
    BY <2>5, <2>6, HolderRemoved, HoldersFinite
  <2> QED
    BY <2>1, <2>2, <2>4, <2>7, HoldersFinite DEF WorkerTypeOK
<1> QED
  BY <1>1, <1>2

\* notify() returns a unit to the semaphore or to the first waiter.
LEMMA NotifyKeeps ==
    ASSUME WorkerTypeOK, WaitersOK, Notify, at' = at
    PROVE  /\ WaitersOK'
           /\ m_concurrency' \in Nat /\ m_waiters' \in Seq(Clients) /\ woken' \in SUBSET Clients
           /\ m_concurrency' + Cardinality(Holders') = m_concurrency + Cardinality(Holders) + 1
<1>0. m_waiters \in Seq(Clients) /\ woken \in SUBSET Clients /\ m_concurrency \in Nat
  BY DEF WorkerTypeOK
<1>1. CASE m_waiters # <<>>
  <2> DEFINE f == Head(m_waiters)
  <2>1. woken' = woken \cup {f} /\ m_waiters' = Tail(m_waiters) /\ m_concurrency' = m_concurrency
    BY <1>1 DEF Notify
  <2>2. /\ Len(m_waiters) \in Nat \ {0} /\ f = m_waiters[1] /\ f \in Clients
        /\ m_waiters' \in Seq(Clients) /\ Len(m_waiters') = Len(m_waiters) - 1
        /\ \A i \in 1..Len(m_waiters') : m_waiters'[i] = m_waiters[i + 1]
    BY <1>0, <1>1, <2>1
  <2>3. at[f] \in {"leaving", "held"} /\ f \notin woken
    BY <2>2 DEF WaitersOK
  <2> HIDE DEF f
  <2>4. WaitersOK'
    BY <1>0, <2>1, <2>2, <2>3 DEF WaitersOK
  <2>5. f \notin Holders /\ Holders' = Holders \cup {f}
    BY <2>1, <2>3 DEF Holders
  <2>6. Cardinality(Holders') = Cardinality(Holders) + 1
    BY ZenonT(60), <2>5, HolderAdded
  <2>7. m_concurrency' + Cardinality(Holders') = m_concurrency + Cardinality(Holders) + 1
    BY <1>0, <2>1, <2>6, HoldersFinite
  <2> QED
    BY ZenonT(60), <1>0, <2>1, <2>2, <2>4, <2>7
<1>2. CASE m_waiters = <<>>
  <2>1. m_concurrency' = m_concurrency + 1 /\ woken' = woken /\ m_waiters' = m_waiters
    BY <1>2 DEF Notify
  <2>2. Holders' = Holders
    BY <2>1 DEF Holders
  <2>3. WaitersOK'
    BY <2>1 DEF WaitersOK
  <2> QED
    BY <1>0, <2>1, <2>2, <2>3, HoldersFinite
<1> QED
  BY <1>1, <1>2

-----------------------------------------------------------------------------
(* The steps.                                                              *)

LEMMA ScheduleKeeps ==
    ASSUME WorkerInv, NEW f \in Clients, NEW j \in Jobs, Schedule(f, j)
    PROVE  WorkerInv' /\ InFlight' = InFlight
<1> USE DEF WorkerInv
<1>1. /\ at[f] = "idle" /\ job[j] = "new" /\ Wait(f)
      /\ arg' = [arg EXCEPT ![f] = j] /\ job' = [job EXCEPT ![j] = "given"]
      /\ UNCHANGED <<m_finish, woken, taken, returned>>
  BY DEF Schedule
<1>2. /\ WaitersOK' /\ m_concurrency' \in Nat /\ m_waiters' \in Seq(Clients)
      /\ at' \in [Clients -> {"idle", "leaving", "held", "granted"}]
      /\ at'[f] # "idle" /\ \A g \in Clients \ {f} : at'[g] = at[g]
      /\ m_concurrency' + Cardinality(Holders') = m_concurrency + Cardinality(Holders) - 0
  BY <1>1, WaitKeeps
<1>3. WorkerTypeOK'
  BY ZenonT(60), <1>1, <1>2 DEF WorkerTypeOK
<1>4. InFlight' = InFlight
  BY <1>1 DEF InFlight, WorkerTypeOK
<1>5. GivenOK'
  BY <1>1, <1>2, AllAssumption DEF GivenOK, WorkerTypeOK
<1>6. UnitsOK'
  <2>1. /\ m_concurrency' + Cardinality(Holders') = m_concurrency + Cardinality(Holders)
        /\ taken' = taken
    BY <1>1, <1>2, Numbers
  <2> QED
    BY ZenonT(60), <1>3, <1>4, <2>1, Numbers, NextNumbers DEF UnitsOK
<1> QED
  BY ZenonT(60), <1>1, <1>2, <1>3, <1>4, <1>5, <1>6 DEF ReturnedOK

LEMMA YieldKeeps ==
    ASSUME WorkerInv, NEW f \in Clients, Yield(f)
    PROVE  WorkerInv' /\ InFlight' = InFlight
<1> USE DEF WorkerInv, Yield
<1>1. WorkerTypeOK'
  BY DEF WorkerTypeOK
<1>2. WaitersOK'
  BY DEF WaitersOK, WorkerTypeOK
<1>3. GivenOK'
  BY DEF GivenOK, WorkerTypeOK
<1>4. Holders' = Holders
  BY DEF Holders, WorkerTypeOK
<1> QED
  BY ZenonT(60), <1>1, <1>2, <1>3, <1>4, SameInFlight DEF UnitsOK, ReturnedOK

LEMMA ResumeKeeps ==
    ASSUME WorkerInv, NEW f \in Clients, Resume(f)
    PROVE  WorkerInv' /\ InFlight' = InFlight
<1> USE DEF WorkerInv, Resume
<1>1. WorkerTypeOK'
  BY DEF WorkerTypeOK
<1>2. WaitersOK'
  <2>1. m_waiters \in Seq(Clients) /\ \A i \in 1..Len(m_waiters) : m_waiters[i] # f
    BY DEF WaitersOK, WorkerTypeOK
  <2> QED
    BY <2>1 DEF WaitersOK, WorkerTypeOK
<1>3. GivenOK'
  BY DEF GivenOK, WorkerTypeOK
<1>4. Holders' = Holders
  BY DEF Holders, WorkerTypeOK
<1> QED
  BY ZenonT(60), <1>1, <1>2, <1>3, <1>4, SameInFlight DEF UnitsOK, ReturnedOK

\* The unit of the client becomes the unit of its job.
LEMMA PostKeeps ==
    ASSUME WorkerInv, NEW f \in Clients, Post(f)
    PROVE  /\ WorkerInv' /\ ~returned
           /\ arg[f] \in Jobs \ InFlight /\ InFlight' = InFlight \cup {arg[f]}
           /\ Cardinality(InFlight) < m_batchSize
<1> USE DEF WorkerInv, Post
<1>1. arg[f] \in Jobs /\ job[arg[f]] = "given"
  BY DEF WorkerTypeOK, GivenOK
<1>2. arg[f] \notin InFlight /\ InFlight' = InFlight \cup {arg[f]}
  BY <1>1 DEF InFlight, WorkerTypeOK
<1>3. Cardinality(InFlight') = Cardinality(InFlight) + 1
  BY ZenonT(60), <1>2, InFlightFinite, FS_AddElement
<1>4. f \in Holders /\ Holders' = Holders \ {f}
  BY DEF Holders, WaitersOK, WorkerTypeOK
<1>5. Cardinality(Holders') = Cardinality(Holders) - 1
  BY ZenonT(60), <1>4, HolderRemoved
<1>6. WorkerTypeOK'
  BY <1>1 DEF WorkerTypeOK
<1>7. WaitersOK'
  <2>1. m_waiters \in Seq(Clients) /\ f \notin woken
        /\ \A i \in 1..Len(m_waiters) : m_waiters[i] # f
    BY DEF WaitersOK, WorkerTypeOK
  <2> QED
    BY <2>1 DEF WaitersOK, WorkerTypeOK
<1>8. GivenOK'
  BY <1>1 DEF GivenOK, WorkerTypeOK
<1>9. /\ UnitsOK' /\ ~returned /\ Cardinality(InFlight) < m_batchSize
  <2>1. m_concurrency' = m_concurrency /\ taken' = taken
    OBVIOUS
  <2>2. UnitsOK'
    BY <1>3, <1>5, <2>1, Numbers DEF UnitsOK
  <2>3. Cardinality(Holders') \in Nat
    BY <1>6, NextNumbers
  <2>4. taken # m_batchSize /\ Cardinality(InFlight) < m_batchSize
    BY <1>5, <2>3, Numbers DEF UnitsOK
  <2> QED
    BY <2>2, <2>4 DEF ReturnedOK
<1> QED
  BY ZenonT(60), <1>1, <1>2, <1>6, <1>7, <1>8, <1>9 DEF ReturnedOK

LEMMA WaitAllKeeps ==
    ASSUME WorkerInv, WaitAll
    PROVE  WorkerInv' /\ InFlight' = InFlight
<1> USE DEF WorkerInv
<1>1. /\ at[Owner] = "idle" /\ Wait(Owner) /\ m_finish' = TRUE /\ Owner \in Clients
      /\ arg' = [arg EXCEPT ![Owner] = "all"]
      /\ UNCHANGED <<woken, job, taken, returned>>
  BY ClientAssumption DEF WaitAll
<1>2. /\ WaitersOK' /\ m_concurrency' \in Nat /\ m_waiters' \in Seq(Clients)
      /\ at' \in [Clients -> {"idle", "leaving", "held", "granted"}]
      /\ at'[Owner] # "idle" /\ \A g \in Clients \ {Owner} : at'[g] = at[g]
      /\ m_concurrency' + Cardinality(Holders') = m_concurrency + Cardinality(Holders) - 0
  BY <1>1, WaitKeeps
<1>3. WorkerTypeOK'
  BY ZenonT(60), <1>1, <1>2 DEF WorkerTypeOK
<1>4. InFlight' = InFlight
  BY ZenonT(60), <1>1, SameInFlight
<1>5. GivenOK'
  BY <1>1, <1>2 DEF GivenOK, WorkerTypeOK
<1>6. UnitsOK'
  <2>1. /\ m_concurrency' + Cardinality(Holders') = m_concurrency + Cardinality(Holders)
        /\ taken' = taken
    BY <1>1, <1>2, Numbers
  <2> QED
    BY ZenonT(60), <1>3, <1>4, <2>1, Numbers, NextNumbers DEF UnitsOK
<1> QED
  BY ZenonT(60), <1>1, <1>2, <1>3, <1>4, <1>5, <1>6 DEF ReturnedOK

\* When waitAll() has all the units no other client and no job has one.
LEMMA TakeKeeps ==
    ASSUME WorkerInv, Take
    PROVE  WorkerInv' /\ InFlight' = InFlight /\ ~returned
           /\ (returned' => InFlight = {} /\ returned' = TRUE)
<1> USE DEF WorkerInv
<1>1. /\ at[Owner] = "granted" /\ arg[Owner] = "all" /\ Owner \in Clients
      /\ taken' = taken + 1 /\ UNCHANGED <<m_finish, arg, woken, job>>
  BY ClientAssumption DEF Take
<1>2. InFlight' = InFlight
  BY <1>1, SameInFlight
<1>3. Owner \in Holders /\ Cardinality(Holders) \in Nat \ {0}
  <2>1. Owner \in Holders
    BY <1>1 DEF Holders
  <2> QED
    BY <2>1, HoldersFinite, FS_EmptySet
<1>4. ~returned
  BY <1>3, InFlightFinite, BatchSizeAssumption
     DEF UnitsOK, ReturnedOK, WorkerTypeOK
<1>5. CASE taken' = m_batchSize
  <2>1. /\ returned' = TRUE /\ at' = [at EXCEPT ![Owner] = "idle"]
        /\ UNCHANGED <<m_concurrency, m_waiters>>
    BY <1>5 DEF Take
  <2>2. WorkerTypeOK'
    BY <1>1, <2>1 DEF WorkerTypeOK
  <2>3. WaitersOK'
    <3>1. m_waiters \in Seq(Clients) /\ Owner \notin woken
          /\ \A i \in 1..Len(m_waiters) : m_waiters[i] # Owner
      BY <1>1 DEF WaitersOK, WorkerTypeOK
    <3> QED
      BY <1>1, <2>1, <3>1 DEF WaitersOK, WorkerTypeOK
  <2>4. GivenOK'
    BY <1>1, <2>1 DEF GivenOK, WorkerTypeOK
  <2>5. Holders' = Holders \ {Owner}
    BY ZenonT(60), <1>1, <2>1 DEF Holders, WaitersOK, WorkerTypeOK
  <2>6. Cardinality(Holders') = Cardinality(Holders) - 1
    BY ZenonT(60), <1>3, <2>5, HolderRemoved
  <2>7. UnitsOK'
    <3>1. taken' = taken + 1 /\ m_concurrency' = m_concurrency
      BY <1>1, <2>1
    <3> QED
      BY <1>2, <2>6, <3>1, Numbers DEF UnitsOK
  <2>8. Cardinality(InFlight) = 0
    BY <1>1, <1>3, <1>5, InFlightFinite, BatchSizeAssumption
       DEF UnitsOK, WorkerTypeOK
  <2>9. InFlight = {}
    BY ZenonT(60), <2>8, InFlightFinite, FS_EmptySet
  <2> QED
    BY ZenonT(60), <1>2, <1>4, <1>5, <2>1, <2>2, <2>3, <2>4, <2>7, <2>9 DEF ReturnedOK
<1>6. CASE taken' # m_batchSize
  <2>1. Wait(Owner) /\ returned' = returned
    BY <1>6 DEF Take
  <2>2. /\ WaitersOK' /\ m_concurrency' \in Nat /\ m_waiters' \in Seq(Clients)
        /\ at' \in [Clients -> {"idle", "leaving", "held", "granted"}]
        /\ \A g \in Clients \ {Owner} : at'[g] = at[g]
        /\ m_concurrency' + Cardinality(Holders') = m_concurrency + Cardinality(Holders) - 1
    BY ZenonT(60), <1>1, <2>1, WaitKeeps
  <2>3. WorkerTypeOK'
    BY <1>1, <2>1, <2>2 DEF WorkerTypeOK
  <2>4. GivenOK'
    BY <1>1, <2>2 DEF GivenOK, WorkerTypeOK
  <2>5. UnitsOK'
    <3>1. /\ m_concurrency' + Cardinality(Holders') = m_concurrency + Cardinality(Holders) - 1
          /\ taken' = taken + 1
      BY ZenonT(60), <1>1, <2>2
    <3> QED
      BY <1>2, <2>3, <3>1, Numbers, NextNumbers DEF UnitsOK
  <2> QED
    BY ZenonT(60), <1>2, <1>4, <2>1, <2>2, <2>3, <2>4, <2>5 DEF ReturnedOK
<1> QED
  BY ZenonT(60), <1>5, <1>6

LEMMA RunKeeps ==
    ASSUME WorkerInv, NEW j \in Jobs, Run(j) \/ Throw(j)
    PROVE  WorkerInv' /\ InFlight' = InFlight
<1> USE DEF WorkerInv, Run, Throw
<1>1. WorkerTypeOK'
  BY DEF WorkerTypeOK
<1>2. InFlight' = InFlight
  BY DEF InFlight, WorkerTypeOK
<1>3. GivenOK'
  BY DEF GivenOK, WorkerTypeOK
<1>4. Holders' = Holders
  BY DEF Holders
<1> QED
  BY <1>1, <1>2, <1>3, <1>4 DEF WaitersOK, UnitsOK, ReturnedOK

\* The unit of the job goes back.
LEMMA FinishKeeps ==
    ASSUME WorkerInv, NEW j \in Jobs, Finish(j)
    PROVE  WorkerInv' /\ j \in InFlight /\ InFlight' = InFlight \ {j}
<1> USE DEF WorkerInv
<1>1. /\ job[j] = "running" /\ job' = [job EXCEPT ![j] = "done"] /\ Notify
      /\ UNCHANGED <<m_finish, at, arg, taken, returned>>
  BY DEF Finish
<1>2. /\ WaitersOK'
      /\ m_concurrency' \in Nat /\ m_waiters' \in Seq(Clients) /\ woken' \in SUBSET Clients
      /\ m_concurrency' + Cardinality(Holders') = m_concurrency + Cardinality(Holders) + 1
  BY ZenonT(60), <1>1, NotifyKeeps
<1>3. j \in InFlight /\ InFlight' = InFlight \ {j}
  BY <1>1 DEF InFlight, WorkerTypeOK
<1>4. Cardinality(InFlight') = Cardinality(InFlight) - 1
  BY ZenonT(60), <1>3, InFlightFinite, FS_RemoveElement
<1>5. WorkerTypeOK'
  BY <1>1, <1>2 DEF WorkerTypeOK
<1>6. GivenOK'
  BY <1>1 DEF GivenOK, WorkerTypeOK
<1>7. UnitsOK'
  <2>1. /\ m_concurrency' + Cardinality(Holders') = m_concurrency + Cardinality(Holders) + 1
        /\ taken' = taken
    BY <1>1, <1>2
  <2> QED
    BY <1>4, <1>5, <2>1, Numbers, NextNumbers DEF UnitsOK
<1> QED
  BY ZenonT(60), <1>1, <1>2, <1>3, <1>5, <1>6, <1>7 DEF ReturnedOK

-----------------------------------------------------------------------------

\* The module Batch has a FiniteSets of its own.
LEMMA BatchCardinality == \A S : B!Cardinality(S) = Cardinality(S)
BY ZenonT(60) DEF B!Cardinality, Cardinality, B!IsFiniteSet, IsFiniteSet

LEMMA WorkerInit1 == WorkerInit => WorkerInv /\ InFlight = {}
<1> SUFFICES ASSUME WorkerInit PROVE WorkerInv /\ InFlight = {}
  OBVIOUS
<1> USE DEF WorkerInit
<1>1. InFlight = {} /\ Holders = {}
  BY DEF InFlight, Holders
<1>2. UnitsOK
  BY <1>1, FS_EmptySet, BatchSizeAssumption DEF UnitsOK
<1>3. WorkerTypeOK
  <2>1. m_waiters \in Seq(Clients) /\ woken \in SUBSET Clients /\ m_concurrency \in Nat
    BY BatchSizeAssumption
  <2>2. /\ at \in [Clients -> {"idle", "leaving", "held", "granted"}]
        /\ arg \in [Clients -> Jobs \cup {"all"}]
    OBVIOUS
  <2> QED
    BY ZenonT(60), <2>1, <2>2 DEF WorkerTypeOK
<1>4. WaitersOK /\ GivenOK /\ ReturnedOK
  BY DEF WaitersOK, GivenOK, ReturnedOK
<1> QED
  BY ZenonT(60), <1>1, <1>2, <1>3, <1>4 DEF WorkerInv

\* Every step keeps the invariant and is a step of the Batch or leaves it alone.
LEMMA WorkerStep ==
    ASSUME WorkerInv, [WorkerNext]_wvars
    PROVE  WorkerInv' /\ [B!BatchNext]_<<InFlight, returned>>
<1>1. ASSUME InFlight' = InFlight, returned' = returned
      PROVE  [B!BatchNext]_<<InFlight, returned>>
  BY <1>1
<1>2. ASSUME NEW f \in Clients, NEW j \in Jobs, Schedule(f, j)
      PROVE  WorkerInv' /\ InFlight' = InFlight /\ returned' = returned
  BY ZenonT(60), <1>2, ScheduleKeeps DEF Schedule
<1>3. ASSUME NEW f \in Clients, Yield(f) \/ Resume(f)
      PROVE  WorkerInv' /\ InFlight' = InFlight /\ returned' = returned
  BY ZenonT(60), <1>3, YieldKeeps, ResumeKeeps DEF Yield, Resume
<1>4. ASSUME NEW f \in Clients, Post(f)
      PROVE  WorkerInv' /\ [B!BatchNext]_<<InFlight, returned>>
  <2>1. /\ WorkerInv' /\ ~returned /\ returned' = returned
        /\ arg[f] \in Jobs /\ arg[f] \notin InFlight /\ InFlight' = InFlight \cup {arg[f]}
        /\ Cardinality(InFlight) < m_batchSize
    BY ZenonT(60), <1>4, PostKeeps DEF Post
  <2>2. B!Begin(arg[f])
    BY ZenonT(60), <2>1, BatchCardinality DEF B!Begin
  <2> QED
    BY <2>1, <2>2 DEF B!BatchNext
<1>5. CASE WaitAll
  BY ZenonT(60), <1>1, <1>5, WaitAllKeeps DEF WaitAll
<1>6. CASE Take
  <2>1. /\ WorkerInv' /\ InFlight' = InFlight /\ ~returned
        /\ (returned' => InFlight = {} /\ returned' = TRUE)
    BY ZenonT(60), <1>6, TakeKeeps
  <2>2. CASE returned'
    <3>1. B!Return
      BY <2>1, <2>2 DEF B!Return
    <3> QED
      BY <2>1, <3>1 DEF B!BatchNext
  <2>3. CASE ~returned'
    <3>1. returned \in BOOLEAN /\ returned' \in BOOLEAN
      BY ZenonT(60), <2>1 DEF WorkerInv, WorkerTypeOK
    <3> QED
      BY ZenonT(60), <1>1, <2>1, <2>3, <3>1
  <2> QED
    BY <2>2, <2>3
<1>7. ASSUME NEW j \in Jobs, Run(j) \/ Throw(j)
      PROVE  WorkerInv' /\ InFlight' = InFlight /\ returned' = returned
  BY <1>7, RunKeeps DEF Run, Throw
<1>8. ASSUME NEW j \in Jobs, Finish(j)
      PROVE  WorkerInv' /\ [B!BatchNext]_<<InFlight, returned>>
  <2>1. WorkerInv' /\ j \in InFlight /\ InFlight' = InFlight \ {j} /\ returned' = returned
    BY ZenonT(60), <1>8, FinishKeeps DEF Finish
  <2>2. B!End(j)
    BY <2>1 DEF B!End
  <2> QED
    BY <2>1, <2>2 DEF B!BatchNext
<1>9. CASE UNCHANGED wvars
  <2>1. WorkerInv' /\ InFlight' = InFlight /\ returned' = returned
    BY <1>9
       DEF wvars, WorkerInv, WorkerTypeOK, WaitersOK, GivenOK, UnitsOK, ReturnedOK,
                Holders, InFlight
  <2> QED
    BY ZenonT(60), <1>1, <2>1
<1> QED
  BY ZenonT(60), <1>1, <1>2, <1>3, <1>4, <1>5, <1>6, <1>7, <1>8, <1>9 DEF WorkerNext

\* A WorkerGroup is a Batch, whatever the numbers of fibers and jobs and the
\* batch size: at most m_batchSize callbacks are in flight, and waitAll()
\* returns only when none is, and none starts after it.
THEOREM WorkerImplementsBatch == WorkerSpec => ImplementsBatch
<1>1. WorkerInit => WorkerInv /\ B!BatchInit
  BY WorkerInit1 DEF B!BatchInit, WorkerInit
<1>2. WorkerInv /\ [WorkerNext]_wvars => WorkerInv' /\ [B!BatchNext]_<<InFlight, returned>>
  BY ZenonT(60), WorkerStep
<1> QED
  BY <1>1, <1>2, PTL DEF WorkerSpec, ImplementsBatch, B!BatchSpec

-----------------------------------------------------------------------------
(* The connection pool.                                                    *)

Place == {"out", "purge", "connect", "send", "recv", "release", "push"}

User == [at : Place, conn : Conns \cup {NoConn}, invalid : SUBSET Conns]

Connection == [state : {"new", "live", "dead"}, connected : BOOLEAN,
               m_request : Nat, rest : BOOLEAN, loose : BOOLEAN]

PoolTypeOK ==
    /\ m_conns \in Seq(Conns) /\ m_total \in Int
    /\ user \in [Users -> User] /\ conn \in [Conns -> Connection]

\* Where a user has a connection and where not.  Nothing in m_conns is ever
\* found invalid, for what closes a connection or uses it up does so while a
\* user holds it.
UsersOK ==
    \A u \in Users :
        /\ user[u].invalid = {}
        /\ user[u].at \in {"out", "connect"} => user[u].conn = NoConn
        /\ user[u].at \in {"send", "recv", "release", "push"} => user[u].conn # NoConn

\* What is known of a connection that a user holds.
Fit(u) ==
    LET c == user[u].conn IN
    /\ conn[c].state = "live"
    /\ user[u].at # "release" => conn[c].connected
    /\ conn[c].connected /\ conn[c].rest => conn[c].loose
    /\ user[u].at = "push" => conn[c].m_request < m_maxRequest

\* Nothing was sent on a connection that does not exist yet.
NewOK == \A c \in Conns : conn[c].state = "new" => ~conn[c].rest

HeldOK == \A u \in Users : user[u].conn # NoConn => Fit(u)

PoolInv == PoolTypeOK /\ UsersOK /\ NewOK /\ HeldOK /\ PoolExclusive /\ TotalExact /\ PoolAnswered

Live == {c \in Conns : conn[c].state = "live"}

-----------------------------------------------------------------------------
(* The list.                                                               *)

LEMMA PooledConns ==
    ASSUME PoolTypeOK
    PROVE  Pooled \subseteq Conns
<1>0. m_conns \in Seq(Conns)
  BY ZenonT(60) DEF PoolTypeOK
<1>1. \A i \in 1..Len(m_conns) : m_conns[i] \in Conns
  BY ONLY <1>0
<1> QED
  BY ZenonT(60), <1>1 DEF Pooled

\* Every pooled connection is usable.
LEMMA AllUsable ==
    ASSUME PoolTypeOK, PoolAnswered, NEW now \in Clock, NEW i \in 1..Len(m_conns)
    PROVE  Usable(m_conns[i], now)
BY ClockAssumption DEF PoolTypeOK, User, Connection, PoolAnswered, Pooled, Usable, m_createTime

\* The loop of getConnection() pops the front, if there is one.
LEMMA PopsFront ==
    ASSUME PoolTypeOK, PoolAnswered, NEW now \in Clock
    PROVE  Popped(now) = IF Len(m_conns) = 0 THEN 0 ELSE 1
<1> DEFINE Q(n) == /\ \A i \in 1..n : Usable(m_conns[i], now) => i = n
                   /\ n = Len(m_conns) \/ (n > 0 /\ Usable(m_conns[n], now))
           front == IF Len(m_conns) = 0 THEN 0 ELSE 1
<1>1. Len(m_conns) \in Nat
  BY DEF PoolTypeOK
<1>2. front \in 0..Len(m_conns) /\ Q(front)
  BY <1>1, AllUsable
<1>3. \A n \in 0..Len(m_conns) : Q(n) => n = front
  <2> SUFFICES ASSUME NEW n \in 0..Len(m_conns), Q(n) PROVE n = front
    OBVIOUS
  <2>1. n > 0 => n = 1
    BY <1>1, AllUsable
  <2> QED
    BY <1>1, <2>1
<1>4. Popped(now) = CHOOSE n \in 0..Len(m_conns) : Q(n)
  BY DEF Popped
<1> HIDE DEF Q, front
<1>5. Popped(now) = front
  BY ZenonT(60), <1>2, <1>3, <1>4
<1> QED
  BY <1>5 DEF front

\* What Scan does.
LEMMA ScanTakes ==
    ASSUME PoolTypeOK, PoolAnswered, NEW u \in Users, NEW now \in Clock, Scan(u, now)
    PROVE  /\ user[u].at = "out" /\ m_total' = m_total /\ conn' = conn
           /\ \/ /\ Len(m_conns) = 0 /\ m_conns' = << >>
                 /\ user' = [user EXCEPT ![u] = [at |-> "purge", conn |-> NoConn, invalid |-> {}]]
              \/ /\ Len(m_conns) > 0 /\ m_conns' = SubSeq(m_conns, 2, Len(m_conns))
                 /\ user' = [user EXCEPT ![u] = [at |-> "purge", conn |-> m_conns[1], invalid |-> {}]]
<1> DEFINE n == Popped(now)
           found == n > 0 /\ Usable(m_conns[n], now)
           k == IF found THEN n - 1 ELSE n
           invalid == {m_conns[i] : i \in 1..k}
<1>0. Len(m_conns) \in Nat
  BY DEF PoolTypeOK
<1>1. /\ user[u].at = "out" /\ m_total' = m_total /\ conn' = conn
      /\ m_conns' = SubSeq(m_conns, n + 1, Len(m_conns))
      /\ user' = [user EXCEPT ![u] = [at |-> "purge", conn |-> IF found THEN m_conns[n] ELSE NoConn,
                                      invalid |-> invalid]]
  BY ZenonT(60) DEF Scan
<1>2. n = (IF Len(m_conns) = 0 THEN 0 ELSE 1) /\ (found <=> Len(m_conns) > 0)
  BY <1>0, PopsFront, AllUsable
<1>3. k = 0
  BY <1>0, <1>2
<1>4. invalid = {}
  BY <1>3
<1> HIDE DEF n, found, k, invalid
<1>5. CASE Len(m_conns) = 0
  <2>1. SubSeq(m_conns, 1, Len(m_conns)) = << >>
    BY <1>5
  <2> QED
    BY <1>1, <1>2, <1>4, <1>5, <2>1
<1>6. CASE Len(m_conns) > 0
  <2>1. n = 1 /\ n + 1 = 2 /\ found
    BY <1>0, <1>2, <1>6
  <2>2. m_conns' = SubSeq(m_conns, 2, Len(m_conns))
    BY ZenonT(60), <1>1, <2>1
  <2>3. user' = [user EXCEPT ![u] = [at |-> "purge", conn |-> m_conns[1], invalid |-> {}]]
    BY <1>1, <1>4, <2>1
  <2> QED
    BY <1>1, <1>6, <2>2, <2>3, Zenon
<1> QED
  BY <1>0, <1>5, <1>6

LEMMA FrontGone ==
    ASSUME NEW s \in Seq(Conns), Len(s) > 0, NEW t, t = SubSeq(s, 2, Len(s))
    PROVE  t \in Seq(Conns) /\ Len(t) = Len(s) - 1 /\ \A i \in 1..Len(t) : t[i] = s[i + 1]
<1>1. t \in Seq(Conns)
  OBVIOUS
<1>2. Len(t) = Len(s) - 1
  <2>1. CASE Len(s) = 1
    BY <2>1
  <2>2. CASE Len(s) > 1
    BY <2>2
  <2>3. Len(s) = 1 \/ Len(s) > 1
    BY ONLY s \in Seq(Conns), Len(s) > 0
  <2> QED
    BY ZenonT(60), <2>1, <2>2, <2>3
<1>3. \A i \in 1..(Len(s) - 1) : t[i] = s[i + 1]
  OBVIOUS
<1> QED
  BY <1>1, <1>2, <1>3

-----------------------------------------------------------------------------
(* The steps.                                                              *)

LEMMA SameLive ==
    ASSUME TotalExact, m_total' = m_total, \A c \in Conns : conn'[c].state = conn[c].state
    PROVE  TotalExact'
BY DEF TotalExact

LEMMA LiveFinite == IsFiniteSet(Live) /\ Cardinality(Live) \in Nat
<1>1. Live \in SUBSET Conns
  BY ZenonT(60) DEF Live
<1> QED
  BY ZenonT(60), <1>1, NoConnAssumption, FS_Subset, FS_CardinalityType

\* A connection moves from the front of m_conns to the user.
LEMMA ScanKeeps ==
    ASSUME PoolInv, NEW u \in Users, NEW now \in Clock, Scan(u, now)
    PROVE  PoolInv'
<1> USE DEF PoolInv
<1>0. TotalExact' /\ NewOK'
  BY ZenonT(60), ScanTakes, SameLive DEF NewOK
<1>1. CASE /\ m_conns' = << >> /\ conn' = conn /\ m_total' = m_total
           /\ user' = [user EXCEPT ![u] = [at |-> "purge", conn |-> NoConn, invalid |-> {}]]
  <2>1. PoolTypeOK'
    BY <1>1 DEF PoolTypeOK, User, Connection, Place
  <2>2. UsersOK'
    BY ZenonT(60), <1>1 DEF UsersOK, PoolTypeOK, User, Connection
  <2>3. HeldOK'
    BY ZenonT(60), <1>1 DEF HeldOK, Fit, PoolTypeOK, User, Connection
  <2>4. 1..Len(m_conns') = {}
    BY <1>1
  <2>5. Pooled' = {}
    BY ZenonT(60), <2>4 DEF Pooled
  <2>6. user'[u].conn = NoConn /\ \A v \in Users \ {u} : user'[v] = user[v]
    BY ZenonT(60), <1>1 DEF PoolTypeOK
  <2>7. PoolExclusive' /\ PoolAnswered'
    BY <2>4, <2>5, <2>6 DEF PoolExclusive, PoolAnswered
  <2> QED
    BY ZenonT(60), <1>0, <2>1, <2>2, <2>3, <2>7
<1>2. CASE /\ Len(m_conns) > 0 /\ m_conns' = SubSeq(m_conns, 2, Len(m_conns))
           /\ conn' = conn /\ m_total' = m_total
           /\ user' = [user EXCEPT ![u] = [at |-> "purge", conn |-> m_conns[1], invalid |-> {}]]
  <2>0. Len(m_conns) \in Nat /\ m_conns[1] \in Conns /\ m_conns[1] \in Pooled
    <3>1. m_conns \in Seq(Conns) /\ 1 \in 1..Len(m_conns)
      BY <1>2 DEF PoolTypeOK
    <3>2. m_conns[1] \in Pooled
      BY <3>1, Zenon DEF Pooled
    <3> QED
      BY <3>1, <3>2
  <2>1. /\ m_conns' \in Seq(Conns) /\ Len(m_conns') = Len(m_conns) - 1
        /\ \A i \in 1..Len(m_conns') : m_conns'[i] = m_conns[i + 1]
    <3> DEFINE t == SubSeq(m_conns, 2, Len(m_conns))
    <3>1. m_conns \in Seq(Conns)
      BY DEF PoolTypeOK
    <3>2. t \in Seq(Conns) /\ Len(t) = Len(m_conns) - 1 /\ \A i \in 1..Len(t) : t[i] = m_conns[i + 1]
      BY <1>2, <3>1, FrontGone, Zenon
    <3>3. m_conns' = t
      BY ZenonT(60), <1>2
    <3> HIDE DEF t
    <3> QED
      BY <3>2, <3>3
  <2>2. PoolTypeOK'
    BY <1>2, <2>0, <2>1 DEF PoolTypeOK, User, Connection, Place
  <2>3. UsersOK'
    BY ZenonT(60), <1>2, <2>0 DEF UsersOK, PoolTypeOK, User, Connection
  <2>4. HeldOK'
    BY <1>2, <2>0 DEF HeldOK, Fit, PoolTypeOK, User, Connection, PoolAnswered
  <2>5. Pooled' \subseteq Pooled /\ m_conns[1] \notin Pooled'
    <3>1. \A i \in 1..Len(m_conns') : i + 1 \in 1..Len(m_conns) /\ 1 \in 1..Len(m_conns) /\ i + 1 # 1
      BY <2>0, <2>1
    <3>2. \A i \in 1..Len(m_conns') : m_conns'[i] \in Pooled
      BY <2>1, <3>1, Zenon DEF Pooled
    <3>3. \A i \in 1..Len(m_conns') : m_conns'[i] # m_conns[1]
      BY <2>1, <3>1, Zenon DEF PoolExclusive
    <3> QED
      BY <3>2, <3>3, Zenon DEF Pooled
  <2>6. PoolExclusive'
    <3>1. \A i, j \in 1..Len(m_conns') : m_conns'[i] = m_conns'[j] => i = j
      <4> SUFFICES ASSUME NEW i \in 1..Len(m_conns'), NEW j \in 1..Len(m_conns'),
                          m_conns'[i] = m_conns'[j]
                   PROVE  i = j
        BY ZenonT(60)
      <4>1. i + 1 \in 1..Len(m_conns) /\ j + 1 \in 1..Len(m_conns) /\ i \in Int /\ j \in Int
        BY <2>0, <2>1
      <4>2. i + 1 = j + 1
        BY <2>1, <4>1, Zenon DEF PoolExclusive
      <4> QED
        BY <4>1, <4>2
    <3>2. \A v \in Users : user'[v].conn \notin Pooled'
      BY ZenonT(60), <1>2, <2>5 DEF PoolExclusive, PoolTypeOK, User, Connection
    <3>3. \A v, w \in Users : user'[v].conn = user'[w].conn /\ user'[v].conn # NoConn => v = w
      BY ZenonT(60), <1>2, <2>0 DEF PoolExclusive, PoolTypeOK, User, Connection
    <3> QED
      BY ZenonT(60), <3>1, <3>2, <3>3 DEF PoolExclusive
  <2>7. PoolAnswered'
    BY ZenonT(60), <1>2, <2>5 DEF PoolAnswered
  <2> QED
    BY ZenonT(60), <1>0, <2>2, <2>3, <2>4, <2>6, <2>7
<1> QED
  BY ZenonT(60), <1>1, <1>2, ScanTakes

\* The list stays, and the users keep their connections.
LEMMA SameHolders ==
    ASSUME PoolExclusive, PoolAnswered, conn' = conn, m_conns' = m_conns,
           NEW u \in Users, user'[u].conn = user[u].conn,
           \A v \in Users \ {u} : user'[v] = user[v]
    PROVE  PoolExclusive' /\ PoolAnswered'
<1>1. Pooled' = Pooled
  BY ZenonT(60) DEF Pooled
<1>2. \A v \in Users : user'[v].conn = user[v].conn
  BY ZenonT(60)
<1>3. \A v \in Users : user'[v].conn \notin Pooled'
  BY ZenonT(60), <1>1, <1>2 DEF PoolExclusive
<1>4. \A v, w \in Users : user'[v].conn = user'[w].conn /\ user'[v].conn # NoConn => v = w
  BY ZenonT(60), <1>2 DEF PoolExclusive
<1>5. \A i, j \in 1..Len(m_conns') : m_conns'[i] = m_conns'[j] => i = j
  BY ZenonT(60) DEF PoolExclusive
<1>6. PoolAnswered'
  BY ZenonT(60), <1>1 DEF PoolAnswered
<1> QED
  BY ZenonT(60), <1>3, <1>4, <1>5, <1>6 DEF PoolExclusive

\* There is nothing to delete.
LEMMA PurgeKeeps ==
    ASSUME PoolInv, NEW u \in Users, Purge(u)
    PROVE  PoolInv'
<1> USE DEF PoolInv
<1>1. user[u].invalid = {} /\ user[u].at = "purge"
  BY DEF UsersOK, Purge
<1>2. conn' = conn
  <2>1. conn' = [c \in Conns |-> conn[c]]
    BY <1>1 DEF Purge
  <2> QED
    BY <2>1 DEF PoolTypeOK
<1>3. m_total' = m_total
  <2>1. m_total' = m_total - 0
    BY <1>1, FS_EmptySet DEF Purge
  <2> QED
    BY <2>1 DEF PoolTypeOK
<1>4. /\ m_conns' = m_conns
      /\ user' = [user EXCEPT ![u].at = IF user[u].conn = NoConn THEN "connect" ELSE "send",
                              ![u].invalid = {}]
  BY DEF Purge
<1>5. PoolTypeOK'
  <2> DEFINE step == IF user[u].conn = NoConn THEN "connect" ELSE "send"
  <2>1. step \in Place
    BY DEF Place
  <2>2. user' = [user EXCEPT ![u] = [user[u] EXCEPT !.at = step, !.invalid = {}]]
    BY <1>4, Zenon DEF PoolTypeOK
  <2> HIDE DEF step
  <2>3. [user[u] EXCEPT !.at = step, !.invalid = {}] \in User
    BY <2>1, Zenon DEF PoolTypeOK, User
  <2> QED
    BY <1>2, <1>3, <1>4, <2>2, <2>3, ZenonT(60) DEF PoolTypeOK
<1>6. /\ user'[u].conn = user[u].conn /\ user'[u].invalid = {}
      /\ user'[u].at = IF user[u].conn = NoConn THEN "connect" ELSE "send"
      /\ \A v \in Users \ {u} : user'[v] = user[v]
  BY ZenonT(60), <1>4 DEF PoolTypeOK, User
<1>7. UsersOK'
  BY <1>6 DEF UsersOK
<1>8. HeldOK'
  BY ZenonT(60), <1>1, <1>2, <1>6 DEF HeldOK, Fit
<1>10. PoolExclusive' /\ PoolAnswered'
  BY ZenonT(60), <1>2, <1>4, <1>6, SameHolders
<1>11. TotalExact' /\ NewOK'
  BY ZenonT(60), <1>2, <1>3, SameLive DEF NewOK
<1> QED
  BY ZenonT(60), <1>5, <1>7, <1>8, <1>10, <1>11

LEMMA ConnectFailKeeps ==
    ASSUME PoolInv, NEW u \in Users, ConnectFail(u)
    PROVE  PoolInv'
<1> USE DEF PoolInv
<1>1. PoolTypeOK'
  BY ZenonT(60) DEF ConnectFail, PoolTypeOK, User, Connection, Place, Idle
<1>2. UsersOK' /\ HeldOK'
  BY ZenonT(60), NoConnAssumption DEF ConnectFail, UsersOK, HeldOK, Fit, PoolTypeOK, User, Connection, Idle
<1>3. PoolExclusive' /\ PoolAnswered'
  <2>1. /\ user'[u].conn = user[u].conn /\ conn' = conn /\ m_conns' = m_conns
        /\ \A v \in Users \ {u} : user'[v] = user[v]
    BY ZenonT(60) DEF ConnectFail, PoolTypeOK, User, UsersOK, Idle
  <2> QED
    BY ZenonT(60), <2>1, SameHolders
<1>4. TotalExact' /\ NewOK'
  BY ZenonT(60), SameLive DEF ConnectFail, NewOK
<1> QED
  BY ZenonT(60), <1>1, <1>2, <1>3, <1>4

\* A new connection is nobody's, and counted.
LEMMA ConnectNewKeeps ==
    ASSUME PoolInv, NEW u \in Users, NEW c \in Conns, ConnectNew(u, c)
    PROVE  PoolInv'
<1> USE DEF PoolInv
<1>1. /\ user[u].at = "connect" /\ conn[c].state = "new" /\ m_conns' = m_conns
      /\ conn' = [conn EXCEPT ![c].state = "live", ![c].connected = TRUE]
      /\ m_total' = m_total + 1
      /\ user' = [user EXCEPT ![u].at = "send", ![u].conn = c]
  BY DEF ConnectNew
<1>2. c \notin Pooled /\ c # NoConn /\ \A v \in Users : user[v].conn # c
  BY ZenonT(60), <1>1, NoConnAssumption DEF PoolAnswered, HeldOK, Fit
<1>3. PoolTypeOK'
  <2>1. user' \in [Users -> User]
    <3>1. [user[u] EXCEPT !.at = "send", !.conn = c] \in User
      BY ZenonT(60) DEF PoolTypeOK, User, Place
    <3>2. user' = [user EXCEPT ![u] = [user[u] EXCEPT !.at = "send", !.conn = c]]
      BY <1>1, Zenon DEF PoolTypeOK
    <3> QED
      BY <3>1, <3>2 DEF PoolTypeOK
  <2>2. conn' \in [Conns -> Connection]
    <3>1. [conn[c] EXCEPT !.state = "live", !.connected = TRUE] \in Connection
      BY ZenonT(60) DEF PoolTypeOK, Connection
    <3>2. conn' = [conn EXCEPT ![c] = [conn[c] EXCEPT !.state = "live", !.connected = TRUE]]
      BY <1>1, Zenon DEF PoolTypeOK
    <3> QED
      BY <3>1, <3>2 DEF PoolTypeOK
  <2> QED
    BY <1>1, <2>1, <2>2 DEF PoolTypeOK
<1>31. /\ user'[u].at = "send" /\ user'[u].conn = c /\ user'[u].invalid = user[u].invalid
       /\ \A v \in Users \ {u} : user'[v] = user[v]
  BY ZenonT(60), <1>1 DEF PoolTypeOK, User
<1>32. /\ conn'[c].state = "live" /\ conn'[c].connected
       /\ conn'[c].rest = conn[c].rest /\ conn'[c].loose = conn[c].loose
       /\ \A d \in Conns \ {c} : conn'[d] = conn[d]
  BY ZenonT(60), <1>1 DEF PoolTypeOK, Connection
<1>4. UsersOK'
  BY ZenonT(60), <1>2, <1>31 DEF UsersOK
<1>5. conn[c].rest => conn[c].loose
  BY ZenonT(60), <1>1 DEF NewOK
<1>6. HeldOK'
  <2>1. Fit(u)'
    BY ZenonT(60), <1>5, <1>31, <1>32 DEF Fit
  <2>2. ASSUME NEW v \in Users \ {u}, user'[v].conn # NoConn
        PROVE  Fit(v)'
    <3>1. user[v].conn \in Conns \ {c} /\ Fit(v)
      BY ZenonT(60), <1>2, <1>31, <2>2 DEF HeldOK, PoolTypeOK, User
    <3> QED
      BY ZenonT(60), <1>31, <1>32, <3>1 DEF Fit
  <2> QED
    BY ZenonT(60), <2>1, <2>2 DEF HeldOK
<1>7. PoolExclusive' /\ PoolAnswered'
  <2>1. Pooled' = Pooled
    BY ZenonT(60), <1>1 DEF Pooled
  <2>2. Pooled \subseteq Conns \ {c}
    BY ZenonT(60), <1>2, PooledConns
  <2>3. PoolAnswered'
    BY ZenonT(60), <1>32, <2>1, <2>2 DEF PoolAnswered
  <2>4. \A v \in Users : user'[v].conn = IF v = u THEN c ELSE user[v].conn
    BY ZenonT(60), <1>31
  <2>5. \A v \in Users : user'[v].conn \notin Pooled'
    BY ZenonT(60), <1>2, <2>1, <2>4 DEF PoolExclusive
  <2>6. \A v, w \in Users : user'[v].conn = user'[w].conn /\ user'[v].conn # NoConn => v = w
    BY ZenonT(60), <1>2, <2>4 DEF PoolExclusive
  <2>7. \A i, j \in 1..Len(m_conns') : m_conns'[i] = m_conns'[j] => i = j
    BY ZenonT(60), <1>1 DEF PoolExclusive
  <2> QED
    BY ZenonT(60), <2>3, <2>5, <2>6, <2>7 DEF PoolExclusive
<1>8. NewOK'
  BY ZenonT(60), <1>32 DEF NewOK
<1>9. TotalExact'
  <2>1. c \notin Live /\ Live' = Live \cup {c}
    <3>1. c \notin Live
      BY ZenonT(60), <1>1 DEF Live
    <3> QED
      BY ZenonT(60), <1>32, <3>1 DEF Live
  <2>2. Cardinality(Live') = Cardinality(Live) + 1
    BY <2>1, LiveFinite, FS_AddElement, Zenon
  <2> QED
    BY <1>1, <2>2 DEF TotalExact, Live
<1> QED
  BY ZenonT(60), <1>3, <1>4, <1>6, <1>7, <1>8, <1>9

\* What a user in doRequest() does to the connection it holds, which becomes r.
LEMMA RequestKeeps ==
    ASSUME PoolInv, NEW u \in Users, user[u].at \in {"send", "recv"},
           NEW p \in {"recv", "release"}, NEW r \in Connection,
           r.state = "live", p = "recv" => r.connected,
           r.connected /\ r.rest => r.loose,
           user' = [user EXCEPT ![u].at = p], conn' = [conn EXCEPT ![user[u].conn] = r],
           m_conns' = m_conns, m_total' = m_total
    PROVE  PoolInv'
<1> USE DEF PoolInv
<1> DEFINE c == user[u].conn
<1>1. c \in Conns /\ c # NoConn /\ conn[c].state = "live" /\ c \notin Pooled
  BY DEF UsersOK, HeldOK, Fit, PoolExclusive, PoolTypeOK, User
<1>2. \A v \in Users : v # u => user[v].conn # c
  BY <1>1 DEF PoolExclusive
<1>3. PoolTypeOK'
  BY ZenonT(60), <1>1 DEF PoolTypeOK, User, Place
<1>4. UsersOK'
  BY DEF UsersOK, PoolTypeOK, User
<1>5. NewOK' /\ TotalExact'
  <2>1. \A d \in Conns : conn'[d] = IF d = c THEN r ELSE conn[d]
    BY <1>1 DEF PoolTypeOK
  <2> QED
    BY <1>1, <2>1, SameLive DEF NewOK
<1>6. HeldOK'
  <2> SUFFICES ASSUME NEW v \in Users, user'[v].conn # NoConn PROVE Fit(v)'
    BY ZenonT(60) DEF HeldOK
  <2>1. CASE v = u
    <3>1. user'[v].conn = c /\ user'[v].at = p /\ conn'[c] = r
      BY <1>1, <2>1 DEF PoolTypeOK, User
    <3> QED
      BY <3>1 DEF Fit
  <2>2. CASE v # u
    <3>1. user'[v] = user[v] /\ conn'[user[v].conn] = conn[user[v].conn]
      BY <1>1, <1>2, <2>2 DEF PoolTypeOK, User
    <3> QED
      BY <3>1, Zenon DEF HeldOK, Fit
  <2> QED
    BY <2>1, <2>2
<1>7. PoolExclusive'
  BY DEF PoolExclusive, Pooled, PoolTypeOK, User
<1>8. PoolAnswered'
  <2>1. \A d \in Pooled : conn'[d] = conn[d]
    BY ZenonT(60), <1>1, PooledConns DEF PoolTypeOK
  <2>2. Pooled' = Pooled
    BY ZenonT(60) DEF Pooled
  <2> QED
    BY ZenonT(60), <2>1, <2>2 DEF PoolAnswered
<1> QED
  BY ZenonT(60), <1>3, <1>4, <1>5, <1>6, <1>7, <1>8

\* A user in doRequest() has a connection.
LEMMA HolderFit ==
    ASSUME PoolInv, NEW u \in Users, user[u].at \in {"send", "recv"}
    PROVE  Fit(u) /\ user[u].conn \in Conns /\ conn[user[u].conn] \in Connection
  BY DEF PoolInv, UsersOK, HeldOK, PoolTypeOK, User

LEMMA SendKeeps ==
    ASSUME PoolInv, NEW u \in Users, SendOk(u)
    PROVE  PoolInv'
<1> DEFINE c == user[u].conn
<1>1. /\ user[u].at = "send" /\ user' = [user EXCEPT ![u].at = "recv"]
      /\ m_conns' = m_conns /\ m_total' = m_total /\ conn' = conn
  BY DEF SendOk
<1>2. c \in Conns /\ conn[c] \in Connection /\ Fit(u)
  BY <1>1, HolderFit
<1>3. conn[c].state = "live" /\ conn[c].connected /\ (conn[c].connected /\ conn[c].rest => conn[c].loose)
  BY ZenonT(60), <1>1, <1>2 DEF Fit
<1>4. conn' = [conn EXCEPT ![c] = conn[c]]
  BY <1>1, <1>2 DEF PoolInv, PoolTypeOK
<1> QED
  BY ZenonT(60), <1>1, <1>2, <1>3, <1>4, RequestKeeps

\* A call that ends with something left on an open connection has made it
\* loose, or found it so.
LEMMA EndOfCallKeeps ==
    ASSUME PoolInv, NEW u \in Users, user[u].at \in {"send", "recv"},
           NEW connected \in BOOLEAN, NEW rest \in BOOLEAN, NEW loose \in BOOLEAN,
           connected /\ rest => loose \/ conn[user[u].conn].loose,
           EndOfCall(u, connected, rest, loose)
    PROVE  PoolInv'
<1> DEFINE c == user[u].conn
           r == [conn[c] EXCEPT !.connected = connected, !.rest = rest, !.loose = @ \/ loose]
<1>1. c \in Conns /\ conn[c] \in Connection /\ Fit(u)
  BY HolderFit
<1>2. r \in Connection /\ r.state = "live"
  BY ZenonT(60), <1>1 DEF Fit, Connection
<1>3. r.connected /\ r.rest => r.loose
  BY ZenonT(60), <1>1 DEF Connection
<1>4. conn' = [conn EXCEPT ![c] = r]
  BY ZenonT(60), <1>1 DEF EndOfCall, PoolInv, PoolTypeOK, Connection
<1>5. user' = [user EXCEPT ![u].at = "release"] /\ m_conns' = m_conns /\ m_total' = m_total
  BY DEF EndOfCall
<1> HIDE DEF r
<1> QED
  BY ZenonT(60), <1>2, <1>3, <1>4, <1>5, RequestKeeps

\* ReleasePtr() deletes and counts down, or leaves a connection fit to push.
LEMMA ReleaseKeeps ==
    ASSUME PoolInv, NEW u \in Users, NEW now \in Clock, Release(u, now)
    PROVE  PoolInv'
<1> USE DEF PoolInv
<1> DEFINE c == user[u].conn
           r == conn[c].m_request + 1
           drop == \/ ~conn[c].connected
                   \/ m_createTime + m_maxAliveTime >= now
                   \/ r >= m_maxRequest
<1>0. /\ user[u].at = "release" /\ m_conns' = m_conns
      /\ conn' = [conn EXCEPT ![c].m_request = r, ![c].state = IF drop THEN "dead" ELSE @]
      /\ m_total' = IF drop THEN m_total - 1 ELSE m_total
      /\ user' = [user EXCEPT ![u] = IF drop THEN Idle ELSE [@ EXCEPT !.at = "push"]]
  BY ZenonT(60) DEF Release
<1>1. c \in Conns /\ c # NoConn /\ conn[c].state = "live" /\ c \notin Pooled
  BY ZenonT(60), <1>0 DEF UsersOK, HeldOK, Fit, PoolExclusive, PoolTypeOK, User
<1>2. \A v \in Users : v # u => user[v].conn # c
  BY ZenonT(60), <1>1 DEF PoolExclusive
<1>3. conn[c] \in Connection /\ r \in Nat
  BY <1>1 DEF PoolTypeOK, Connection
<1>4. \A d \in Pooled : d \in Conns /\ d # c
  BY ZenonT(60), <1>1, PooledConns
<1>5. m_conns' = m_conns
  BY <1>0
<1>6. CASE drop
  <2>0. [conn[c] EXCEPT !.m_request = r, !.state = "dead"] \in Connection
    BY <1>3, Zenon DEF Connection
  <2>1. /\ conn' = [conn EXCEPT ![c] = [conn[c] EXCEPT !.m_request = r, !.state = "dead"]]
        /\ m_total' = m_total - 1 /\ user' = [user EXCEPT ![u] = Idle]
    BY <1>0, <1>1, <1>6, Zenon DEF PoolTypeOK
  <2> HIDE DEF c, r, drop
  <2>2. PoolTypeOK'
    <3>1. user' \in [Users -> User]
      BY <2>1 DEF PoolTypeOK, User, Idle, Place
    <3>2. conn' \in [Conns -> Connection]
      BY ZenonT(60), <1>1, <2>0, <2>1 DEF PoolTypeOK
    <3> QED
      BY <1>5, <2>1, <3>1, <3>2 DEF PoolTypeOK
  <2>3. UsersOK'
    BY <2>1 DEF UsersOK, PoolTypeOK, Idle
  <2>4. conn'[c].state = "dead" /\ \A d \in Conns : d # c => conn'[d] = conn[d]
    BY ZenonT(60), <1>1, <1>3, <2>1 DEF PoolTypeOK, Connection
  <2>5. NewOK'
    BY ZenonT(60), <2>4 DEF NewOK
  <2>6. HeldOK'
    <3> SUFFICES ASSUME NEW v \in Users, user'[v].conn # NoConn PROVE Fit(v)'
      BY DEF HeldOK
    <3>1. v # u /\ user'[v] = user[v]
      BY ZenonT(60), <2>1 DEF Idle, PoolTypeOK
    <3>2. user[v].conn \in Conns /\ user[v].conn # c
      BY ZenonT(60), <1>2, <3>1 DEF PoolTypeOK, User
    <3> QED
      BY ZenonT(60), <2>4, <3>1, <3>2 DEF HeldOK, Fit
  <2>7. PoolExclusive'
    BY ZenonT(60), <1>4, <1>5, <2>1, NoConnAssumption DEF PoolExclusive, Pooled, PoolTypeOK, Idle
  <2>8. PoolAnswered'
    <3>1. Pooled' = Pooled /\ \A d \in Pooled : conn'[d] = conn[d]
      BY ZenonT(60), <1>4, <1>5, <2>4 DEF Pooled
    <3> QED
      BY ZenonT(60), <3>1 DEF PoolAnswered
  <2>9. TotalExact'
    <3>1. c \in Live /\ Live' = Live \ {c}
      BY <1>1, <2>4 DEF Live
    <3>2. Cardinality(Live') = Cardinality(Live) - 1
      BY ZenonT(60), <3>1, LiveFinite, FS_RemoveElement
    <3> QED
      BY ZenonT(60), <2>1, <3>2 DEF TotalExact, Live
  <2> QED
    BY ZenonT(60), <2>2, <2>3, <2>5, <2>6, <2>7, <2>8, <2>9
<1>7. CASE ~drop
  <2>0. /\ [conn[c] EXCEPT !.m_request = r] \in Connection
        /\ r < m_maxRequest /\ conn[c].connected
    BY <1>3, <1>7, ClockAssumption DEF Connection
  <2>1. /\ conn' = [conn EXCEPT ![c] = [conn[c] EXCEPT !.m_request = r]]
        /\ m_total' = m_total /\ user' = [user EXCEPT ![u].at = "push"]
    BY <1>0, <1>1, <1>3, <1>7, ZenonT(60) DEF PoolTypeOK, Connection
  <2> HIDE DEF c, r, drop
  <2>2. PoolTypeOK'
    <3>1. user' \in [Users -> User]
      BY ZenonT(60), <2>1 DEF PoolTypeOK, User, Place
    <3>2. conn' \in [Conns -> Connection]
      BY ZenonT(60), <1>1, <2>0, <2>1 DEF PoolTypeOK
    <3> QED
      BY <1>5, <2>1, <3>1, <3>2 DEF PoolTypeOK
  <2>3. UsersOK'
    BY <1>0, <1>1, <2>1 DEF UsersOK, PoolTypeOK, User, c
  <2>4. /\ conn'[c].state = "live" /\ conn'[c].connected /\ conn'[c].m_request = r
        /\ conn'[c].rest = conn[c].rest /\ conn'[c].loose = conn[c].loose
        /\ \A d \in Conns : d # c => conn'[d] = conn[d]
    BY ZenonT(60), <1>1, <1>3, <2>0, <2>1 DEF PoolTypeOK, Connection
  <2>5. NewOK' /\ TotalExact'
    BY ZenonT(60), <1>1, <2>1, <2>4, SameLive DEF NewOK
  <2>6. HeldOK'
    <3> SUFFICES ASSUME NEW v \in Users, user'[v].conn # NoConn PROVE Fit(v)'
      BY DEF HeldOK
    <3>1. CASE v = u
      <4>1. user'[v].conn = c /\ user'[v].at = "push"
        BY ZenonT(60), <2>1, <3>1 DEF PoolTypeOK, User, c
      <4>2. conn[c].rest => conn[c].loose
        BY ZenonT(60), <1>0, <1>1, <2>0 DEF HeldOK, Fit, c
      <4> QED
        BY ZenonT(60), <2>0, <2>4, <4>1, <4>2 DEF Fit
    <3>2. CASE v # u
      <4>1. user'[v] = user[v]
        BY ZenonT(60), <2>1, <3>2 DEF PoolTypeOK
      <4>2. user[v].conn \in Conns /\ user[v].conn # c
        BY ZenonT(60), <1>2, <3>2, <4>1 DEF PoolTypeOK, User
      <4> QED
        BY ZenonT(60), <2>4, <4>1, <4>2 DEF HeldOK, Fit
    <3> QED
      BY <3>1, <3>2
  <2>7. PoolExclusive'
    BY ZenonT(60), <1>5, <2>1 DEF PoolExclusive, Pooled, PoolTypeOK, User
  <2>8. PoolAnswered'
    <3>1. Pooled' = Pooled /\ \A d \in Pooled : conn'[d] = conn[d]
      BY ZenonT(60), <1>4, <1>5, <2>4 DEF Pooled
    <3> QED
      BY <3>1 DEF PoolAnswered
  <2> QED
    BY ZenonT(60), <2>2, <2>3, <2>5, <2>6, <2>7, <2>8
<1> QED
  BY <1>6, <1>7

\* The connection moves from the user to the end of m_conns.
LEMMA PushKeeps ==
    ASSUME PoolInv, NEW u \in Users, Push(u)
    PROVE  PoolInv'
<1> USE DEF PoolInv
<1> DEFINE c == user[u].conn
<1>0. /\ user[u].at = "push" /\ m_conns' = Append(m_conns, c)
      /\ user' = [user EXCEPT ![u] = Idle] /\ m_total' = m_total /\ conn' = conn
  BY ZenonT(60) DEF Push
<1>1. c \in Conns /\ c # NoConn /\ c \notin Pooled
  BY ZenonT(60), <1>0 DEF UsersOK, PoolExclusive, PoolTypeOK, User
<1>2. \A v \in Users : v # u => user[v].conn # c
  BY ZenonT(60), <1>1 DEF PoolExclusive
<1>3. /\ conn[c].state = "live" /\ conn[c].connected /\ conn[c].m_request < m_maxRequest
      /\ conn[c].rest => conn[c].loose
  BY ZenonT(60), <1>0, <1>1 DEF HeldOK, Fit
<1> HIDE DEF c
<1>4. /\ Len(m_conns) \in Nat /\ m_conns' \in Seq(Conns) /\ Len(m_conns') = Len(m_conns) + 1
      /\ \A i \in 1..Len(m_conns) : m_conns'[i] = m_conns[i]
      /\ m_conns'[Len(m_conns) + 1] = c
  BY <1>0, <1>1 DEF PoolTypeOK
<1>5. Pooled' = Pooled \cup {c}
  BY <1>4 DEF Pooled
<1>6. \A v \in Users : user'[v] = IF v = u THEN Idle ELSE user[v]
  BY <1>0 DEF PoolTypeOK
<1>7. PoolTypeOK'
  BY ZenonT(60), <1>0, <1>4 DEF PoolTypeOK, User, Idle, Place
<1>71. Idle.conn = NoConn /\ Idle.at = "out" /\ Idle.invalid = {}
  BY DEF Idle
<1>8. UsersOK' /\ HeldOK'
  BY <1>0, <1>6, <1>71 DEF UsersOK, HeldOK, Fit
<1>9. NewOK' /\ TotalExact'
  BY ZenonT(60), <1>0, SameLive DEF NewOK
<1>10. PoolExclusive'
  <2>1. \A i, j \in 1..Len(m_conns') : m_conns'[i] = m_conns'[j] => i = j
    <3>1. \A i \in 1..Len(m_conns) : m_conns[i] # c
      BY ZenonT(60), <1>1 DEF Pooled
    <3> QED
      BY <1>4, <3>1 DEF PoolExclusive
  <2>2. \A v \in Users : user'[v].conn \notin Pooled'
    <3>1. NoConn \notin Pooled'
      BY <1>4, NoConnAssumption DEF Pooled
    <3> QED
      BY <1>2, <1>5, <1>6, <3>1 DEF PoolExclusive, Idle
  <2>3. \A v, w \in Users : user'[v].conn = user'[w].conn /\ user'[v].conn # NoConn => v = w
    BY <1>6 DEF PoolExclusive, Idle
  <2> QED
    BY ZenonT(60), <2>1, <2>2, <2>3 DEF PoolExclusive
<1>11. PoolAnswered'
  BY ZenonT(60), <1>0, <1>3, <1>5 DEF PoolAnswered
<1> QED
  BY ZenonT(60), <1>7, <1>8, <1>9, <1>10, <1>11

-----------------------------------------------------------------------------
(* The theorems.                                                           *)

LEMMA PoolInitially == PoolInit => PoolInv
<1> SUFFICES ASSUME PoolInit PROVE PoolInv
  OBVIOUS
<1>1. PoolTypeOK
  BY DEF PoolInit, PoolTypeOK, User, Connection, Place, Idle
<1>2. UsersOK /\ NewOK /\ HeldOK
  BY ZenonT(60) DEF PoolInit, UsersOK, NewOK, HeldOK, Idle
<1>3. PoolExclusive /\ PoolAnswered
  BY DEF PoolInit, PoolExclusive, PoolAnswered, Pooled, Idle
<1>4. TotalExact
  <2>1. {c \in Conns : conn[c].state = "live"} = {}
    BY DEF PoolInit
  <2> QED
    BY <2>1, FS_EmptySet, Zenon DEF PoolInit, TotalExact
<1> QED
  BY ZenonT(60), <1>1, <1>2, <1>3, <1>4 DEF PoolInv

LEMMA PoolStep == PoolInv /\ [PoolNext]_pvars => PoolInv'
<1> SUFFICES ASSUME PoolInv, [PoolNext]_pvars PROVE PoolInv'
  OBVIOUS
<1>1. ASSUME NEW u \in Users,
             SendOk(u) \/ SendFail(u) \/ RecvLength(u) \/ RecvLoose(u) \/ RecvFail(u)
      PROVE  PoolInv'
  <2>1. CASE SendOk(u)
    BY <2>1, SendKeeps
  <2>2. CASE SendFail(u)
    <3>0. user[u].at \in {"send", "recv"}
      BY <2>2 DEF SendFail
    <3>1. Fit(u) /\ conn[user[u].conn] \in Connection
      BY <3>0, HolderFit
    <3>2. PICK some \in BOOLEAN :
            EndOfCall(u, conn[user[u].conn].connected, conn[user[u].conn].rest \/ some, TRUE)
      BY ZenonT(60), <2>2 DEF SendFail
    <3>3. /\ conn[user[u].conn].connected \in BOOLEAN
          /\ (conn[user[u].conn].rest \/ some) \in BOOLEAN
      BY ZenonT(60), <3>1 DEF Connection
    <3> QED
      BY ZenonT(60), <3>0, <3>2, <3>3, EndOfCallKeeps
  <2>3. CASE RecvLength(u)
    <3>0. user[u].at \in {"send", "recv"}
      BY <2>3 DEF RecvLength
    <3>1. Fit(u) /\ conn[user[u].conn] \in Connection
      BY <3>0, HolderFit
    <3>2. PICK rest \in BOOLEAN :
            /\ rest => conn[user[u].conn].rest
            /\ EndOfCall(u, conn[user[u].conn].connected, rest, FALSE)
      BY ZenonT(60), <2>3 DEF RecvLength
    <3>3. conn[user[u].conn].connected \in BOOLEAN
      BY ZenonT(60), <3>1 DEF Connection
    <3>4. conn[user[u].conn].connected /\ rest => conn[user[u].conn].loose
      BY ZenonT(60), <3>1, <3>2 DEF Fit
    <3> QED
      BY ZenonT(60), <3>0, <3>2, <3>3, <3>4, EndOfCallKeeps
  <2>4. CASE RecvLoose(u)
    <3>0. user[u].at \in {"send", "recv"}
      BY <2>4 DEF RecvLoose
    <3>1. Fit(u) /\ conn[user[u].conn] \in Connection
      BY <3>0, HolderFit
    <3>2. PICK rest \in BOOLEAN : EndOfCall(u, conn[user[u].conn].connected, rest, TRUE)
      BY ZenonT(60), <2>4 DEF RecvLoose
    <3>3. conn[user[u].conn].connected \in BOOLEAN
      BY ZenonT(60), <3>1 DEF Connection
    <3> QED
      BY ZenonT(60), <3>0, <3>2, <3>3, EndOfCallKeeps
  <2>5. CASE RecvFail(u)
    <3>0. user[u].at \in {"send", "recv"} /\ EndOfCall(u, FALSE, TRUE, FALSE)
      BY ZenonT(60), <2>5 DEF RecvFail
    <3> QED
      BY ZenonT(60), <3>0, EndOfCallKeeps
  <2> QED
    BY ZenonT(60), <1>1, <2>1, <2>2, <2>3, <2>4, <2>5
<1>2. CASE UNCHANGED pvars
  BY ZenonT(60), <1>2 DEF pvars, PoolInv, PoolTypeOK, UsersOK, NewOK, HeldOK, Fit, PoolExclusive, TotalExact,
              PoolAnswered, Pooled
<1>3. CASE PoolNext
  <2> PICK u \in Users :
        \/ \E now \in Clock : Scan(u, now) \/ Release(u, now)
        \/ Purge(u) \/ ConnectFail(u) \/ \E c \in Conns : ConnectNew(u, c)
        \/ SendOk(u) \/ SendFail(u)
        \/ RecvLength(u) \/ RecvLoose(u) \/ RecvFail(u)
        \/ Push(u)
    BY <1>3, Zenon DEF PoolNext
  <2> QED
    BY <1>1, ScanKeeps, ReleaseKeeps, PurgeKeeps, ConnectFailKeeps, ConnectNewKeeps, PushKeeps, Zenon
<1> QED
  BY ZenonT(60), <1>2, <1>3

LEMMA PoolInvariant == PoolSpec => []PoolInv
BY PoolInitially, PoolStep, PTL DEF PoolSpec

\* No connection is ever shared, whatever the users of the pool do between its
\* critical sections.
THEOREM ConnectionsExclusive == PoolSpec => []PoolExclusive
<1>1. PoolInv => PoolExclusive
  BY DEF PoolInv
<1> QED
  BY <1>1, PoolInvariant, PTL

\* m_total is the number of connections that exist.
THEOREM TotalCorrect == PoolSpec => []TotalExact
<1>1. PoolInv => TotalExact
  BY DEF PoolInv
<1> QED
  BY <1>1, PoolInvariant, PTL

\* What ReleasePtr() puts into m_conns, and what stays there, is fit for the
\* next user of getConnection(): a timeout, an error or a malformed response
\* never leaves an answer under way on it.  Only a call that neither closed nor
\* knew what was left (loose) may: a failed sendRequest(), an exception, chunks,
\* or no Content-Length that could be used.
THEOREM PooledFit == PoolSpec => []PoolAnswered
<1>1. PoolInv => PoolAnswered
  BY DEF PoolInv
<1> QED
  BY <1>1, PoolInvariant, PTL

=============================================================================
