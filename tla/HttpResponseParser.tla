------------------------- MODULE HttpResponseParser -------------------------
(***************************************************************************)
(* HttpResponseParser (http_parser.cc) on the machine of                   *)
(* HttpResponseTable, driven as HttpConnection::recvResponse drives it:    *)
(* for the head of a response execute(data, len, false) with every read(), *)
(* for a chunk header execute(data, len, true), which starts the machine   *)
(* anew.                                                                   *)
(***************************************************************************)
EXTENDS HttpResponseTable, HttpElements

VARIABLE rsp

FreshResponse(chunk) ==
    [phase |-> "reading", cs |-> 1, chunk |-> chunk, m_error |-> FALSE,
     mark |-> {Call}, field_start |-> {Call}, field |-> NoField,
     delivered |-> {}, header |-> NoName, chunked |-> FALSE,
     \* the reader: as for requests; whether the last field value was empty;
     \* whether the message was over before the last step; how much of
     \* "Transfer-Encoding: chunked" was read, and whether such a line was
     part |-> "start", opened |-> {Call}, at |-> {}, incall |-> {},
     empty |-> FALSE, over |-> FALSE, word |-> 0, chunks |-> FALSE]

RspInit == \E chunk \in BOOLEAN : rsp = FreshResponse(chunk)

-----------------------------------------------------------------------------
(* The reader.                                                             *)

White == {"sp", "tab"}
Eol == {"CR", "LF"}
AfterEol(c) == IF c = "LF" THEN "line" ELSE "eol"

RspPart(q, c) ==
    CASE q = "start" -> IF c = "H" THEN "version" ELSE "size"
      [] q = "version" -> IF c = "sp" THEN "status" ELSE q
      [] q = "status" -> IF c = "sp" THEN "reasonStart" ELSE q
      [] q = "reasonStart" -> "reason"
      [] q \in {"reason", "value"} -> IF c \in Eol THEN AfterEol(c) ELSE q
      [] q = "eol" -> CASE c = "LF" -> "line" [] c \in White \cup {"CR"} -> "fold"
                        [] OTHER -> "value"
      [] q = "line" -> CASE c = "LF" -> "body" [] c = "CR" -> "blank"
                         [] c \in White -> "fold" [] OTHER -> "name"
      [] q = "blank" -> CASE c = "LF" -> "body" [] c \in White \cup {"CR"} -> "fold"
                          [] OTHER -> "value"
      [] q = "fold" -> IF c \in White \cup Eol THEN q ELSE "value"
      [] q = "name" -> CASE c = ":" -> "gap" [] c \in Eol -> AfterEol(c) [] OTHER -> q
      [] q = "gap" -> CASE c \in White -> q [] c \in Eol -> AfterEol(c)
                        [] OTHER -> "value"
      [] q \in {"size", "extName", "extValue"} ->
           CASE c = ";" -> "extStart" [] c = "LF" -> "body" [] c = "CR" -> "blank"
             [] c = "=" -> "extValueStart" [] OTHER -> q
      [] q = "extStart" -> "extName"
      [] q = "extValueStart" -> "extValue"
      [] OTHER -> q

\* The landmarks at a position whose next character is c.
RspHere(q, c) ==
    CASE q = "start" -> {Start("version"), Start("size")}
      [] q = "version" /\ c = "sp" -> {Stop("version")}
      [] q = "status" /\ c = "sp" -> {Stop("status")}
      [] q = "reasonStart" -> {Start("reason")}
      [] q = "reason" /\ c \in Eol -> {Stop("reason")}
      [] q = "line" /\ c \notin White \cup Eol -> {Start("next"), Start("value")}
      [] q \in {"fold", "blank", "eol"} /\ c \notin White \cup Eol ->
           {Start("value")}
      [] q = "name" /\ c = ":" -> {Stop("name")}
      [] q \in {"name", "value"} /\ c \in Eol -> {Stop("value")}
      [] q = "gap" /\ c \in Eol -> {Start("value"), Stop("value")}
      [] q = "gap" /\ c \notin White \cup Eol -> {Start("value")}
      [] q = "size" /\ c \in {";", "CR", "LF"} -> {Stop("size")}
      [] q = "extStart" -> {Start("name")}
      [] q = "extName" /\ c = "=" -> {Stop("name")}
      [] q = "extName" /\ c \in {";", "CR", "LF"} ->
           {Stop("name"), Start("value"), Stop("value")}
      [] q = "extValueStart" -> {Start("value")}
      [] q = "extValue" /\ c \in {";", "CR", "LF"} -> {Stop("value")}
      [] OTHER -> {}

\* The landmarks at the position after c.
RspNext(q, c) == IF q = "version" /\ c = "sp" THEN {Start("status")} ELSE {}

\* The value last started is empty so far.
EmptyValue(r, c) ==
    \/ r.part = "gap" /\ c \in Eol
    \/ r.empty /\ RspPart(r.part, c) \in {"eol", "line", "blank", "fold", "body"}

TransferEncoding == <<"t", "r", "a", "n", "s", "f", "e", "r", "-", "e", "n", "c",
                      "o", "d", "i", "n", "g", ":", "c", "h", "u", "n", "k", "e", "d">>
Lower(c) == CASE c = "T" -> "t" [] c = "H" -> "h" [] OTHER -> c

\* The line read so far, with c, is that much of TransferEncoding.
Word(r, c) ==
    LET NextIs(n) == n < Len(TransferEncoding) /\ TransferEncoding[n + 1] = Lower(c)
    IN  CASE c \in Eol \cup White /\ r.word = 18 /\ r.part # "value" -> 18
          [] r.part = "line" /\ NextIs(0) -> 1
          [] r.part # "line" /\ r.word > 0 /\ NextIs(r.word) -> r.word + 1
          [] r.part = "line" /\ r.word = 18 /\ NextIs(18) -> 19
          [] OTHER -> 0

Chunked(r, c) ==
    \/ r.part = "size"
    \/ c \in Eol /\ r.part \in {"name", "value"} /\ r.word = Len(TransferEncoding)

\* The first word of a line is a field name once its ":" is read; until then,
\* after an empty value, it may be the value of the header before.
Renamed(S) == {IF l = Start("next") THEN Start("name") ELSE l : l \in S \ HeaderMarks}

NewName(r) ==
    [r EXCEPT !.mark = Renamed(@), !.field_start = Renamed(@),
              !.field = IF @ = NoField THEN @ ELSE Span(Renamed(@.from), {Stop("old")}),
              !.incall = Renamed(@)]

NewValue(r, L) == [r EXCEPT !.mark = @ \ L, !.field_start = @ \ L, !.incall = @ \ L]

RspForget(r, c) ==
    CASE r.part = "name" /\ c = ":" -> NewName(r)
      [] r.part = "extStart" -> NewHeader(r)
      [] r.part = "line" -> NewValue(r, {Start("next"), Start("value"), Stop("value")})
      [] r.part \in {"fold", "blank", "eol"} -> NewValue(r, {Start("value"), Stop("value")})
      [] OTHER -> r

-----------------------------------------------------------------------------
(* The actions of httpclient_parser.rl and the callbacks, at position p.   *)

\* on_response_version accepts 1.0 and 1.1; a tail of the version is accepted
\* only when it is empty.
ResponseVersion(r, p, known) ==
    [Deliver(r, "version", r.mark, p) EXCEPT
        !.m_error = @ \/ ~(IF Start("version") \in r.mark THEN known ELSE Call \in p)]

\* Mutant: an offset is taken once in a call.
RspMarkOnce(r, p) == IF r.mark = {Call} THEN [r EXCEPT !.mark = p] ELSE r

RspMark(r, p) == [r EXCEPT !.mark = p]

RspWriteField(r, p) == [r EXCEPT !.field = FieldLen(r, p)]

RspAct(r, a, p, known) ==
    CASE a \in {"mark", "start_value"} -> RspMark(r, p)
      [] a = "start_field" -> [r EXCEPT !.field_start = p]
      [] a = "write_field" -> RspWriteField(r, p)
      [] a = "write_value" -> HttpField(r, p)
      [] a = "reason_phrase" -> Deliver(r, "reason", r.mark, p)
      [] a = "status_code" -> Deliver(r, "status", r.mark, p)
      [] a = "http_version" -> ResponseVersion(r, p, known)
      [] a = "chunk_size" -> [Deliver(r, "size", r.mark, p) EXCEPT !.chunked = TRUE]
      [] a = "trans_chunked" -> [r EXCEPT !.chunked = TRUE]
      [] a \in {"write_content_len", "write_connection_close", "done"} -> r

RspActs(r, actions, p, known) ==
    FoldLeft(LAMBDA s, a : RspAct(s, a, p, known), r, actions)

-----------------------------------------------------------------------------
(* Steps.                                                                  *)

RspEdges(c) == {e \in ResponseTable[rsp.cs] : c \in e.chars}

\* The parser after character c along edge e.  The version is one that
\* on_response_version knows or not.
RspStep(c, e, known) ==
    LET q == rsp.part
        f == RspForget([rsp EXCEPT !.delivered = {}], c)
        p == rsp.opened \cup RspHere(q, c)
        r == RspActs(Note(f, p), e.actions, p, known)
    IN  [r EXCEPT !.cs = e.next, !.part = RspPart(q, c), !.at = p,
                  !.opened = RspNext(q, c), !.over = (q = "body"),
                  !.empty = EmptyValue(rsp, c), !.word = Word(rsp, c),
                  !.chunks = @ \/ Chunked(rsp, c),
                  !.phase = IF "done" \in Range(e.actions) THEN "returned" ELSE @]

RspSteps(c) ==
    UNION {{RspStep(c, e, known) :
               known \in IF "http_version" \in Range(e.actions) THEN BOOLEAN ELSE {TRUE}} :
              e \in RspEdges(c)}

\* One character, the last of the buffer or not.
RspRead ==
    /\ rsp.phase = "reading"
    /\ LET read == UNION {RspSteps(c) : c \in ResponseChar}
       IN  rsp' \in read \cup {[r EXCEPT !.phase = "returned"] : r \in read}

\* No edge: cs = 0, and recvResponse closes the connection.
RspError ==
    /\ rsp.phase = "reading" /\ \E c \in ResponseChar : RspEdges(c) = {}
    /\ rsp' = [rsp EXCEPT !.cs = 0, !.phase = "closed", !.delivered = {}, !.at = {}]

\* httpclient_parser_is_finished: one of the four final states.
IsFinished(r) == r.cs = 120

\* Mutant: a call forgets what the head said so far.
RspNewCallForgets(r) == [Reset(r) EXCEPT !.phase = "reading", !.chunked = FALSE]

RspNewCall(r) == [Reset(r) EXCEPT !.phase = "reading"]

\* httpclient_parser_execute has returned: hasError(), isFinished(), and
\* another read(), which may fail.  After a chunk header that is not complete
\* the bytes parsed are subtracted twice from the bytes at hand and the next
\* read() would start before the buffer: the model ends there.
RspEndCall(more) ==
    /\ rsp.phase = "returned"
    /\ LET r == [rsp EXCEPT !.delivered = {}, !.at = {}] IN
       rsp' = CASE r.m_error \/ (~IsFinished(r) /\ ~more) -> [r EXCEPT !.phase = "closed"]
                [] ~r.m_error /\ IsFinished(r) -> [r EXCEPT !.phase = "finished"]
                [] ~r.m_error /\ ~IsFinished(r) /\ more ->
                     IF r.chunk THEN [r EXCEPT !.phase = "undefined"]
                                ELSE RspNewCall(r)

RspAgain ==
    /\ rsp.phase \in {"closed", "finished", "undefined"}
    /\ \E chunk \in BOOLEAN : rsp' = FreshResponse(chunk)

RspNextStep ==
    \/ RspRead
    \/ RspError
    \/ \E more \in BOOLEAN : RspEndCall(more)
    \/ RspAgain

-----------------------------------------------------------------------------
(* Properties.                                                             *)

\* However the bytes of a response are cut into reads, the callbacks get each
\* element up to its end, and from its start as far as that lies in the same
\* buffer, values that an empty Content-Length or Transfer-Encoding line
\* continues on the next one included.  A header is stored under its own name,
\* or not at all when its ":" came with an earlier read or is the first byte of
\* one.  A value continued at the very start of the next line, which the
\* machine takes for a name at the same time, is the exception: it is stored
\* under as many bytes from its own start on as its name has.
RspElements ==
    ~rsp.over => \A d \in rsp.delivered :
                    /\ Stop(d.elem) \in d.span.to
                    /\ FromStart(rsp, d.elem, d.span.from)
                    /\ d.elem = "value" =>
                          IF Start("next") \in rsp.incall
                          THEN /\ Start("next") \in rsp.header.at
                               /\ Stop("name") \in rsp.header.len.to
                          ELSE OwnName(rsp)

\* isFinished() answers 1 only when the blank line was read, and recvResponse
\* then reads a chunked body exactly when a line of the head said
\* "Transfer-Encoding: chunked", in any case and wherever the reads cut it.
\* When the blank line was read and isFinished() does not answer 1, the last
\* header had no value (states 121, 122 and 123 are final too, and the test is
\* for 120).
RspFinished ==
    /\ rsp.phase = "finished" =>
          /\ rsp.part = "body"
          /\ ~rsp.over => rsp.chunked = rsp.chunks
    /\ (rsp.phase = "reading" /\ rsp.part = "body") => rsp.empty
=============================================================================
