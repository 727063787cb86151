------------------------------ MODULE HttpBody ------------------------------
(***************************************************************************)
(* A connection's messages after the parser has found the end of a head:   *)
(* HttpSession::recvRequest() in HttpServer::handleClient()'s loop, and    *)
(* HttpConnection::recvResponse() without chunks, in HttpConnectionPool's  *)
(* use of a connection, down to Stream::readFixSize().                     *)
(*                                                                         *)
(* Bytes are numbered as they come: consumed have been read from the       *)
(* socket.  The buffer is a local of each call, so what it holds beyond    *)
(* the message is gone with the call.                                      *)
(***************************************************************************)
EXTENDS Naturals

CONSTANTS
    BuffSize,       \* GetHttpRequestBufferSize()
    MaxBody,        \* bound on Content-Length
    MaxBytes        \* bound on the bytes of the connection

ASSUME BodyAssumption == BuffSize \in Nat \ {0} /\ MaxBody \in Nat /\ MaxBytes \in Nat

VARIABLE
    body    \* [at, head, consumed, length, len, left, placed]

\* head: where the head ended.
BodyInit ==
    body = [at |-> "head", head |-> 0, consumed |-> 0, length |-> 0, len |-> 0, left |-> 0, placed |-> TRUE]

\* The parser finishes on a head of h bytes, after reads that brought offset
\* bytes more (fewer than the buffer holds); Content-Length is length.
HeadDone(h, offset, length) ==
    /\ body.at = "head"
    /\ body.consumed + h + offset <= MaxBytes
    /\ body' = [body EXCEPT !.at = "split", !.head = body.consumed + h,
                            !.consumed = @ + h + offset, !.length = length]

\* memcpy of what is at hand; length -= offset.
Split ==
    LET offset == body.consumed - body.head
    IN  /\ body.at = "split"
        /\ IF body.length > offset
           THEN body' = [body EXCEPT !.len = offset, !.left = body.length - offset, !.at = "read"]
           ELSE body' = [body EXCEPT !.len = body.length, !.left = 0, !.at = "done"]

\* Mutant: the offset does not advance.
ReadFixSizeFirst(n) ==
    /\ body.at = "read" /\ body.left > 0
    /\ n <= body.left
    /\ body.consumed + n <= MaxBytes
    /\ body' = [body EXCEPT !.consumed = @ + n, !.left = @ - n,
                            !.placed = @ /\ body.head + body.len = body.consumed]

\* readFixSize(): read() returns n bytes, put at buffer + offset.  placed: each
\* byte went to its place in the body.
ReadFixSize(n) ==
    /\ body.at = "read" /\ body.left > 0
    /\ n <= body.left
    /\ body.consumed + n <= MaxBytes
    /\ body' = [body EXCEPT !.consumed = @ + n, !.left = @ - n, !.len = @ + n,
                            !.placed = @ /\ body.head + body.len = body.consumed]

\* read() returns 0 or an error: close(), nullptr.
ReadFail ==
    /\ body.at \in {"head", "read"}
    /\ body' = [body EXCEPT !.at = "closed"]

ReadDone ==
    /\ body.at = "read" /\ body.left = 0
    /\ body' = [body EXCEPT !.at = "done"]

\* The message is handled; a connection that is kept takes the next one.
KeepAlive ==
    /\ body.at = "done"
    /\ body' = [body EXCEPT !.at = "head", !.placed = TRUE]

CloseSession ==
    /\ body.at = "done"
    /\ body' = [body EXCEPT !.at = "closed"]

BodyNext ==
    \/ \E h \in 1..2, offset \in 0..(BuffSize - 1), length \in 0..MaxBody : HeadDone(h, offset, length)
    \/ Split \/ ReadDone
    \/ \E n \in 1..MaxBody : ReadFixSize(n)
    \/ ReadFail \/ KeepAlive \/ CloseSession

BodySpec == BodyInit /\ [][BodyNext]_body

-----------------------------------------------------------------------------
(* Properties.                                                             *)

\* A message that is handed on has the Content-Length bytes that follow its
\* head, each in its place, whatever reads they came in.
BodyExact == body.at = "done" => body.placed /\ body.len = body.length
=============================================================================
