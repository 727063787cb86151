----------------------------- MODULE FdManager -----------------------------
(***************************************************************************)
(* FdManager and FdCtx (fd_manager.cc) with the calls of hook.cc that make *)
(* and drop them: socket(), accept(), close(), fcntl(F_SETFL).  A call is  *)
(* made by a thread with the hooks on (a scheduler's thread) or off.       *)
(*                                                                         *)
(* m_datas outlives descriptors: the kernel gives a closed one's number to *)
(* the next file or socket.                                                *)
(***************************************************************************)
EXTENDS Naturals

CONSTANTS Fds

VARIABLES
    kernel,     \* fd -> [open, socket, nonblock]
    m_datas,    \* fd -> NoCtx or the FdCtx
    left        \* descriptors closed while their FdCtx stayed in m_datas

fvars == <<kernel, m_datas, left>>

Closed == [open |-> FALSE, socket |-> FALSE, nonblock |-> FALSE]
NoCtx == [m_isInit |-> FALSE, m_isSocket |-> FALSE, m_sysNonblock |-> FALSE, m_userNonblock |-> FALSE]

FdInit ==
    /\ kernel = [f \in Fds |-> Closed]
    /\ m_datas = [f \in Fds |-> NoCtx]
    /\ left = {}

-----------------------------------------------------------------------------

\* FdCtx::init() of a descriptor that was just made.
MakeCtx(f, isSocket) ==
    /\ m_datas' = [m_datas EXCEPT ![f] = [m_isInit |-> TRUE, m_isSocket |-> isSocket,
                                          m_sysNonblock |-> isSocket, m_userNonblock |-> FALSE]]
    /\ kernel' = [kernel EXCEPT ![f] = [open |-> TRUE, socket |-> isSocket, nonblock |-> isSocket]]

\* socket() with the hooks on, and accept(): get(fd, true) creates what is not
\* there.
HookedSocket(f) ==
    /\ ~kernel[f].open
    /\ IF m_datas[f].m_isInit
       THEN /\ kernel' = [kernel EXCEPT ![f] = [open |-> TRUE, socket |-> TRUE, nonblock |-> FALSE]]
            /\ UNCHANGED m_datas
       ELSE MakeCtx(f, TRUE)
    /\ UNCHANGED left

\* open(), or socket() with the hooks off: no FdCtx is made.
PlainOpen(f, isSocket) ==
    /\ ~kernel[f].open
    /\ kernel' = [kernel EXCEPT ![f] = [open |-> TRUE, socket |-> isSocket, nonblock |-> FALSE]]
    /\ UNCHANGED <<m_datas, left>>

\* Mutant: close() forgets del().
UnhookedCloseKeeps(f) ==
    /\ kernel[f].open
    /\ kernel' = [kernel EXCEPT ![f] = Closed]
    /\ UNCHANGED <<m_datas, left>>

\* close() with the hooks off: del(fd), close_f(fd).
UnhookedClose(f) ==
    /\ kernel[f].open
    /\ m_datas' = [m_datas EXCEPT ![f] = NoCtx]
    /\ kernel' = [kernel EXCEPT ![f] = Closed]
    /\ left' = left \ {f}

\* close() with the hooks on: close_f(fd).
HookedClose(f) ==
    /\ kernel[f].open
    /\ kernel' = [kernel EXCEPT ![f] = Closed]
    /\ left' = IF m_datas[f].m_isInit THEN left \cup {f} ELSE left
    /\ UNCHANGED m_datas

\* fcntl(fd, F_SETFL, arg).
SetFl(f, nonblock) ==
    /\ kernel[f].open
    /\ IF m_datas[f].m_isSocket
       THEN /\ m_datas' = [m_datas EXCEPT ![f].m_userNonblock = nonblock]
            /\ kernel' = [kernel EXCEPT ![f].nonblock = m_datas[f].m_sysNonblock]
       ELSE kernel' = [kernel EXCEPT ![f].nonblock = nonblock] /\ UNCHANGED m_datas
    /\ UNCHANGED left

FdNext ==
    \E f \in Fds :
        \/ HookedSocket(f) \/ UnhookedClose(f) \/ HookedClose(f)
        \/ \E b \in BOOLEAN : PlainOpen(f, b) \/ SetFl(f, b)

FdSpec == FdInit /\ [][FdNext]_fvars

-----------------------------------------------------------------------------
(* Properties.                                                             *)

\* do_io() takes the fiber off its thread when the call would block.
Suspends(f) == m_datas[f].m_isSocket /\ ~m_datas[f].m_userNonblock

\* A descriptor do_io() suspends on is a socket whose calls do not block the
\* thread, unless its number was that of a descriptor closed in a thread with
\* the hooks on: close() leaves the FdCtx there, get() finds it, and init(),
\* which sets O_NONBLOCK, does not run again.
NeverBlocksThread ==
    \A f \in Fds \ left : (kernel[f].open /\ Suspends(f)) => (kernel[f].socket /\ kernel[f].nonblock)
=============================================================================
