---------------------------- MODULE MCComponents ----------------------------
(***************************************************************************)
(* The parsers and the services around the scheduler, for TLC.  They share *)
(* no state, so a behaviour runs one of them, chosen by Init, while the    *)
(* others stay as they were made: one run checks each of them, in the sum  *)
(* of their state spaces.                                                  *)
(***************************************************************************)
EXTENDS Uri, HttpRequestParser, HttpResponseParser, HttpBody, WorkerGroup, Hook, FdManager,
        TcpServer, HttpConnectionPool, ConfigVar, ByteArray, Varint

VARIABLE part

parsers == <<uri, req, rsp, var, body>>
services == <<wvars, hvars, fvars, tvars, pvars, cvars, bvars>>
vars == <<part, parsers, services>>

\* The initial states of the parts that have one only.
Resting ==
    /\ WorkerInit /\ HookInit /\ FdInit /\ TcpInit /\ PoolInit /\ ConfigInit /\ ByteInit /\ BodyInit

RestingParsers(but) ==
    /\ "uri" \in but \/ uri = Fresh
    /\ "request" \in but \/ req = FreshRequest(FALSE)
    /\ "response" \in but \/ rsp = FreshResponse(FALSE)
    /\ "varint" \in but \/ var = NewInteger(FALSE, 0)

Init ==
    /\ part \in {"uri", "request", "response", "varint", "body", "worker", "hook", "fd", "tcp",
                 "pool", "config", "bytes"}
    /\ Resting
    /\ RestingParsers({part})
    /\ part = "uri" => UriInit
    /\ part = "request" => ReqInit
    /\ part = "response" => RspInit
    /\ part = "varint" => VarintInit

Next ==
    /\ UNCHANGED part
    /\ \/ /\ UNCHANGED services
          /\ \/ part = "uri" /\ UriNext /\ UNCHANGED <<req, rsp, var, body>>
             \/ part = "request" /\ ReqNextStep /\ UNCHANGED <<uri, rsp, var, body>>
             \/ part = "response" /\ RspNextStep /\ UNCHANGED <<uri, req, var, body>>
             \/ part = "varint" /\ VarintNext /\ UNCHANGED <<uri, req, rsp, body>>
             \/ part = "body" /\ BodyNext /\ UNCHANGED <<uri, req, rsp, var>>
       \/ /\ UNCHANGED parsers
          /\ \/ part = "worker" /\ WorkerNext
                /\ UNCHANGED <<hvars, fvars, tvars, pvars, cvars, bvars>>
             \/ part = "hook" /\ HookNext
                /\ UNCHANGED <<wvars, fvars, tvars, pvars, cvars, bvars>>
             \/ part = "fd" /\ FdNext
                /\ UNCHANGED <<wvars, hvars, tvars, pvars, cvars, bvars>>
             \/ part = "tcp" /\ TcpNext
                /\ UNCHANGED <<wvars, hvars, fvars, pvars, cvars, bvars>>
             \/ part = "pool" /\ PoolNext
                /\ UNCHANGED <<wvars, hvars, fvars, tvars, cvars, bvars>>
             \/ part = "config" /\ ConfigNext
                /\ UNCHANGED <<wvars, hvars, fvars, tvars, pvars, bvars>>
             \/ part = "bytes" /\ ByteNext
                /\ UNCHANGED <<wvars, hvars, fvars, tvars, pvars, cvars>>

Spec == Init /\ [][Next]_vars /\ WorkerFairness /\ HookFairness /\ TcpFairness
=============================================================================
