------------------------- MODULE HttpConnectionPool -------------------------
(***************************************************************************)
(* HttpConnectionPool (http_connection.cc): users are fibers in            *)
(* doRequest(), conns the HttpConnection objects, each created once.       *)
(*                                                                         *)
(* isConnected() is Socket's own flag: it tells nothing of the peer, and   *)
(* only close() clears it.  Nothing assigns m_createTime.                  *)
(*                                                                         *)
(* Of the bytes on a connection the model keeps whether some of the answer *)
(* to an earlier request may still come when the next user reads (rest),   *)
(* and whether a call on it ended without knowing (loose).                 *)
(***************************************************************************)
EXTENDS Integers, Sequences, FiniteSets

CONSTANTS
    Users, Conns, NoConn,
    m_maxAliveTime, m_maxRequest,
    Clock           \* values of GetCurrentMS()

\* m_maxAliveTime has 32 bits, and the clock has passed 2^32 ms long ago.
ASSUME ClockAssumption ==
    /\ m_maxAliveTime \in Nat /\ m_maxRequest \in Nat /\ Clock \subseteq Nat
    /\ \A now \in Clock : now > m_maxAliveTime
ASSUME NoConnAssumption == NoConn \notin Conns /\ IsFiniteSet(Conns)

VARIABLES
    m_conns, m_total,
    user,       \* user -> [at, conn, invalid]
    conn        \* conn -> [state, connected, m_request, rest, loose]

pvars == <<m_conns, m_total, user, conn>>

m_createTime == 0

Idle == [at |-> "out", conn |-> NoConn, invalid |-> {}]

PoolInit ==
    /\ m_conns = <<>> /\ m_total = 0
    /\ user = [u \in Users |-> Idle]
    /\ conn = [c \in Conns |-> [state |-> "new", connected |-> FALSE, m_request |-> 0,
                                rest |-> FALSE, loose |-> FALSE]]

-----------------------------------------------------------------------------
(* getConnection().                                                        *)

Usable(c, now) == conn[c].connected /\ ~(m_createTime + m_maxAliveTime > now)

\* How many connections the loop pops: up to the first usable one.
Popped(now) ==
    CHOOSE n \in 0..Len(m_conns) :
        /\ \A i \in 1..n : Usable(m_conns[i], now) => i = n
        /\ n = Len(m_conns) \/ (n > 0 /\ Usable(m_conns[n], now))

\* Mutant: the connection found is left in the list.
ScanPeek(u, now) ==
    LET n == Popped(now)
        found == n > 0 /\ Usable(m_conns[n], now)
        k == IF found THEN n - 1 ELSE n
    IN  /\ user[u].at = "out"
        /\ m_conns' = SubSeq(m_conns, k + 1, Len(m_conns))
        /\ user' = [user EXCEPT ![u] = [at |-> "purge",
                                        conn |-> IF found THEN m_conns[n] ELSE NoConn,
                                        invalid |-> {m_conns[i] : i \in 1..k}]]
        /\ UNCHANGED <<m_total, conn>>

\* Under m_mutex.
Scan(u, now) ==
    LET n == Popped(now)
        found == n > 0 /\ Usable(m_conns[n], now)
        k == IF found THEN n - 1 ELSE n
    IN  /\ user[u].at = "out"
        /\ m_conns' = SubSeq(m_conns, n + 1, Len(m_conns))
        /\ user' = [user EXCEPT ![u] = [at |-> "purge",
                                        conn |-> IF found THEN m_conns[n] ELSE NoConn,
                                        invalid |-> {m_conns[i] : i \in 1..k}]]
        /\ UNCHANGED <<m_total, conn>>

\* The invalid ones are deleted and taken off m_total.
Purge(u) ==
    /\ user[u].at = "purge"
    /\ conn' = [c \in Conns |-> IF c \in user[u].invalid
                                THEN [conn[c] EXCEPT !.state = "dead"] ELSE conn[c]]
    /\ m_total' = m_total - Cardinality(user[u].invalid)
    /\ user' = [user EXCEPT ![u].at = IF user[u].conn = NoConn THEN "connect" ELSE "send",
                            ![u].invalid = {}]
    /\ UNCHANGED m_conns

\* No address, no socket, or no connection: nullptr.
ConnectFail(u) ==
    /\ user[u].at = "connect"
    /\ user' = [user EXCEPT ![u] = Idle]
    /\ UNCHANGED <<m_conns, m_total, conn>>

ConnectNew(u, c) ==
    /\ user[u].at = "connect" /\ conn[c].state = "new"
    /\ conn' = [conn EXCEPT ![c].state = "live", ![c].connected = TRUE]
    /\ m_total' = m_total + 1
    /\ user' = [user EXCEPT ![u].at = "send", ![u].conn = c]
    /\ UNCHANGED m_conns

-----------------------------------------------------------------------------
(* doRequest() with the connection.                                        *)

SendOk(u) ==
    /\ user[u].at = "send"
    /\ user' = [user EXCEPT ![u].at = "recv"]
    /\ UNCHANGED <<m_conns, m_total, conn>>

\* The call of sendRequest() or recvResponse() is over and the connection goes
\* back to the pool.
EndOfCall(u, connected, rest, loose) ==
    /\ conn' = [conn EXCEPT ![user[u].conn].connected = connected,
                            ![user[u].conn].rest = rest,
                            ![user[u].conn].loose = @ \/ loose]
    /\ user' = [user EXCEPT ![u].at = "release"]
    /\ UNCHANGED <<m_conns, m_total>>

\* rt <= 0: the connection stays open, and some of the request may have left.
SendFail(u) ==
    /\ user[u].at = "send"
    /\ \E some \in BOOLEAN :
          EndOfCall(u, conn[user[u].conn].connected, conn[user[u].conn].rest \/ some, TRUE)

\* A response with a Content-Length that the parser kept is read to its end.
\* It is the user's own, unless an earlier one was still to come.  The peer
\* answers a request once, with as many bytes as its Content-Length says.
RecvLength(u) ==
    /\ user[u].at = "recv"
    /\ \E rest \in BOOLEAN :
          /\ rest => conn[user[u].conn].rest
          /\ EndOfCall(u, conn[user[u].conn].connected, rest, FALSE)

\* Without a Content-Length, or with one whose header the parser dropped, the
\* body is not read; chunks are miscounted, as each chunk header is subtracted
\* twice; append() and resize() throw on a negative or enormous length.  The
\* connection stays open, and anything may be left.
RecvLoose(u) ==
    /\ user[u].at = "recv"
    /\ \E rest \in BOOLEAN : EndOfCall(u, conn[user[u].conn].connected, rest, TRUE)

\* Mutant: recvResponse() does not close.
RecvFailOpen(u) ==
    /\ user[u].at = "recv"
    /\ EndOfCall(u, conn[user[u].conn].connected, TRUE, FALSE)

\* recvResponse() closes on a timeout, an error or a malformed response.
RecvFail(u) ==
    /\ user[u].at = "recv"
    /\ EndOfCall(u, FALSE, TRUE, FALSE)

-----------------------------------------------------------------------------
(* ReleasePtr(), when the last reference goes.                             *)

\* Mutant: m_total is not touched.
ReleaseUncounted(u, now) ==
    LET c == user[u].conn
        r == conn[c].m_request + 1
        drop == ~conn[c].connected \/ r >= m_maxRequest
    IN  /\ user[u].at = "release"
        /\ conn' = [conn EXCEPT ![c].m_request = r, ![c].state = IF drop THEN "dead" ELSE @]
        /\ user' = [user EXCEPT ![u] = IF drop THEN Idle ELSE [@ EXCEPT !.at = "push"]]
        /\ UNCHANGED <<m_conns, m_total>>

Release(u, now) ==
    LET c == user[u].conn
        r == conn[c].m_request + 1
        drop == \/ ~conn[c].connected
                \/ m_createTime + m_maxAliveTime >= now
                \/ r >= m_maxRequest
    IN  /\ user[u].at = "release"
        /\ conn' = [conn EXCEPT ![c].m_request = r, ![c].state = IF drop THEN "dead" ELSE @]
        /\ m_total' = IF drop THEN m_total - 1 ELSE m_total
        /\ user' = [user EXCEPT ![u] = IF drop THEN Idle ELSE [@ EXCEPT !.at = "push"]]
        /\ UNCHANGED m_conns

\* pool->m_conns.push_back(ptr), under m_mutex.
Push(u) ==
    /\ user[u].at = "push"
    /\ m_conns' = Append(m_conns, user[u].conn)
    /\ user' = [user EXCEPT ![u] = Idle]
    /\ UNCHANGED <<m_total, conn>>

PoolNext ==
    \E u \in Users :
        \/ \E now \in Clock : Scan(u, now) \/ Release(u, now)
        \/ Purge(u)
        \/ ConnectFail(u) \/ \E c \in Conns : ConnectNew(u, c)
        \/ SendOk(u) \/ SendFail(u)
        \/ RecvLength(u) \/ RecvLoose(u) \/ RecvFail(u)
        \/ Push(u)

PoolSpec == PoolInit /\ [][PoolNext]_pvars

-----------------------------------------------------------------------------
(* Properties.                                                             *)

Pooled == {m_conns[i] : i \in 1..Len(m_conns)}

\* The pool never shares a connection: what is in m_conns is there once and is
\* nobody's, and no two users of getConnection() hold the same one, although
\* connections leave and enter the list in different critical sections.
PoolExclusive ==
    /\ \A i, j \in 1..Len(m_conns) : m_conns[i] = m_conns[j] => i = j
    /\ \A u \in Users : user[u].conn \notin Pooled
    /\ \A u, v \in Users : user[u].conn = user[v].conn /\ user[u].conn # NoConn => u = v

\* m_total, kept outside of m_mutex, counts the connections that exist.
TotalExact == m_total = Cardinality({c \in Conns : conn[c].state = "live"})

\* A pooled connection is fit for its next user: alive, connected, below
\* m_maxRequest, and with nothing of an earlier answer under way that the user
\* would take for its own.  Timeouts, errors and malformed responses close it;
\* what is not covered are the calls that end without closing and without
\* knowing what is left: a failed sendRequest(), and a recvResponse() that
\* threw, or met chunks or a response without a Content-Length it could use.
PoolAnswered ==
    \A c \in Pooled : /\ conn[c].state = "live" /\ conn[c].connected
                      /\ conn[c].m_request < m_maxRequest
                      /\ conn[c].rest => conn[c].loose
=============================================================================
