------------------------- MODULE HttpRequestParser -------------------------
(***************************************************************************)
(* HttpRequestParser (http_parser.cc) on the machine of HttpRequestTable,  *)
(* driven as HttpSession::recvRequest drives it: every read() is one call  *)
(* of execute(), which consumes what it is given, until an error or the    *)
(* end of the head.                                                        *)
(***************************************************************************)
EXTENDS HttpRequestTable, HttpElements

VARIABLE req

\* uri_relaxed is a member nobody sets: it has either value.
FreshRequest(relaxed) ==
    [phase |-> "reading", cs |-> 1, relaxed |-> relaxed, m_error |-> FALSE,
     mark |-> {Call}, field_start |-> {Call}, field |-> NoField,
     query_start |-> {Stale}, m_version |-> "none",
     \* the elements of the last step, the last field name
     delivered |-> {}, header |-> NoName,
     \* the reader: part of the message, landmarks the position starts with,
     \* the last position, those of this call, digits of the version
     part |-> "start", opened |-> {Call}, at |-> {}, incall |-> {},
     minor |-> "none"]

ReqInit == \E relaxed \in BOOLEAN : req = FreshRequest(relaxed)

-----------------------------------------------------------------------------
(* The reader.                                                             *)

ReqPart(q, c) ==
    CASE q = "start" -> CASE c = "<" -> "xml" [] c = "@" -> "json" [] OTHER -> "method"
      [] q = "method" -> IF c = "sp" THEN "uri" ELSE q
      [] q \in {"uri", "lead", "hier", "path"} ->
           CASE c = "?" -> "query" [] c = "#" -> "fragment" [] c = "sp" -> "space"
             [] c = "/" -> "path" [] c = ":" /\ q = "lead" -> "hier"
             [] OTHER -> IF q = "uri" THEN "lead" ELSE IF q = "lead" THEN q ELSE "path"
      [] q = "query" -> CASE c = "#" -> "fragment" [] c = "sp" -> "space" [] OTHER -> q
      [] q = "fragment" -> IF c = "sp" THEN "space" ELSE q
      [] q \in {"space", "version", "value"} ->
           CASE c = "LF" -> "line" [] c = "CR" -> "eol"
             [] OTHER -> IF q = "space" THEN "version" ELSE q
      [] q = "eol" -> "line"
      [] q \in {"line", "blank"} ->
           CASE c = "LF" -> "body" [] c = "CR" /\ q = "line" -> "blank"
             [] c = ":" -> "gap" [] OTHER -> "name"
      [] q = "name" -> IF c = ":" THEN "gap" ELSE q
      [] q = "gap" -> CASE c \in {"sp", "tab"} -> q [] c = "LF" -> "line"
                        [] c = "CR" -> "eol" [] OTHER -> "value"
      [] q = "xml" -> IF c \in {"sp", "tab", "LF", "vt", "CR", "/", ">"}
                      THEN "inXml" ELSE q
      [] q = "json" -> IF c = "sp" THEN "inJson" ELSE q
      [] q \in {"inXml", "endXml"} ->
           CASE c = ">" -> "endXml" [] c = "nul" /\ q = "endXml" -> "body"
             [] OTHER -> "inXml"
      [] q \in {"inJson", "endJson"} ->
           CASE c = "}" -> "endJson" [] c = "nul" /\ q = "endJson" -> "body"
             [] OTHER -> "inJson"
      [] OTHER -> q

\* The landmarks at a position whose next character is c.
ReqHere(q, c) ==
    CASE q = "start" -> {Start("method"), Start("path")}
      [] q = "method" /\ c = "sp" -> {Stop("method")}
      [] q \in {"uri", "lead", "hier", "path"} ->
           (IF q \in {"uri", "hier"} THEN {Start("path")} ELSE {})
           \cup (IF c \in {"?", "#", "sp"} THEN {Stop("path")} ELSE {})
      [] q = "query" /\ c \in {"#", "sp"} -> {Stop("query")}
      [] q = "fragment" /\ c = "sp" -> {Stop("fragment")}
      [] q = "space" -> {Start("version")}
      [] q = "version" /\ c \in {"CR", "LF"} -> {Stop("version")}
      [] q = "line" -> {Start("name")}
      [] q \in {"name", "blank"} /\ c = ":" -> {Stop("name")}
      [] q = "gap" /\ c \in {"CR", "LF"} -> {Start("value"), Stop("value")}
      [] q = "gap" /\ c \notin {"CR", "LF", "sp", "tab"} -> {Start("value")}
      [] q = "value" /\ c \in {"CR", "LF"} -> {Stop("value")}
      [] q \in {"xml", "json"} /\ ReqPart(q, c) # q -> {Stop("path")}
      [] OTHER -> {}

\* The landmarks at the position after c.
ReqNext(q, c) ==
    CASE q \notin {"query", "fragment"} /\ ReqPart(q, c) = "query" -> {Start("query")}
      [] q # "fragment" /\ ReqPart(q, c) = "fragment" -> {Start("fragment")}
      [] OTHER -> {}

\* What an element that starts now replaces: a path after "scheme:", a header.
Forget(r, c) ==
    CASE r.part = "line" -> NewHeader(r)
      [] r.part \in {"uri", "hier"} -> [r EXCEPT !.mark = @ \ {Start("path")},
                                                !.incall = @ \ {Start("path")}]
      [] OTHER -> r

-----------------------------------------------------------------------------
(* The actions of http11_parser.rl and the callbacks, at position p.       *)

\* on_request_version compares what it is given with HTTP/1.1 over the given
\* length: a tail of the version matches only when it is empty.
HttpVersion(r, p) ==
    LET d == Deliver(r, "version", r.mark, p) IN
    CASE Start("version") \in r.mark -> [d EXCEPT !.m_version = r.minor]
      [] Start("version") \notin r.mark /\ Call \in p -> [d EXCEPT !.m_version = "1"]
      [] OTHER -> [d EXCEPT !.m_error = TRUE]

\* on_request_method fails on a method it does not know.
RequestMethod(r, p, known) ==
    [Deliver(r, "method", r.mark, p) EXCEPT !.m_error = @ \/ ~known]

StartQuery(r, p) == [r EXCEPT !.query_start = p]

\* Mutant: the name is kept while there is one.
ReqWriteFieldOnce(r, p) ==
    IF r.field = NoField THEN [r EXCEPT !.field = FieldLen(r, p)] ELSE r

ReqWriteField(r, p) == [r EXCEPT !.field = FieldLen(r, p)]

ReqAct(r, a, p, known) ==
    CASE a \in {"mark", "start_value"} -> [r EXCEPT !.mark = p]
      [] a = "start_field" -> [r EXCEPT !.field_start = p]
      [] a = "write_field" -> ReqWriteField(r, p)
      [] a = "write_value" -> HttpField(r, p)
      [] a = "start_query" -> StartQuery(r, p)
      [] a = "query_string" -> Deliver(r, "query", r.query_start, p)
      [] a = "request_method" -> RequestMethod(r, p, known)
      [] a = "request_path" -> Deliver(r, "path", r.mark, p)
      [] a = "fragment" -> Deliver(r, "fragment", r.mark, p)
      [] a = "http_version" -> HttpVersion(r, p)
      [] a \in {"request_uri", "done", "xml", "json"} -> r

ReqActs(r, actions, p, known) ==
    FoldLeft(LAMBDA s, a : ReqAct(s, a, p, known), r, actions)

-----------------------------------------------------------------------------
(* Steps.                                                                  *)

ReqEdges(c) ==
    {e \in HttpTable[req.cs] :
        c \in e.chars \/ (req.relaxed /\ c \in More /\ "more" \in e.chars)}

\* The parser after character c along edge e.  The method is one that
\* CharsToHttpMethod knows or not.
ReqStep(c, e, known) ==
    LET q == req.part
        f == Forget([req EXCEPT !.delivered = {}], c)
        p == req.opened \cup ReqHere(q, c)
        r == ReqActs(Note(f, p), e.actions, p, known)
    IN  [r EXCEPT !.cs = e.next, !.part = ReqPart(q, c), !.at = p,
                  !.opened = ReqNext(q, c),
                  !.minor = IF q = "version" /\ c \in DIGIT THEN c ELSE @,
                  !.phase = IF "done" \in Range(e.actions) THEN "returned" ELSE @]

ReqSteps(c) ==
    UNION {{ReqStep(c, e, known) :
               known \in IF "request_method" \in Range(e.actions) THEN BOOLEAN ELSE {TRUE}} :
              e \in ReqEdges(c)}

\* One character, the last of the buffer or not.
ReqRead ==
    /\ req.phase = "reading"
    /\ LET read == UNION {ReqSteps(c) : c \in HttpChar}
       IN  req' \in read \cup {[r EXCEPT !.phase = "returned"] : r \in read}

\* No edge: cs = 0, and recvRequest closes the connection.
ReqError ==
    /\ req.phase = "reading" /\ \E c \in HttpChar : ReqEdges(c) = {}
    /\ req' = [req EXCEPT !.cs = 0, !.phase = "closed", !.delivered = {}, !.at = {}]

\* Mutant: off by one.
ReqIsFinishedLate(r) == r.cs > 348

\* http_parser_is_finished: cs >= http_parser_first_final.
ReqIsFinished(r) == r.cs >= 348

\* http_parser_execute has returned: hasError(), isFinished(), and another
\* read(), which may fail.
EndCall(more) ==
    /\ req.phase = "returned"
    /\ LET r == [req EXCEPT !.delivered = {}, !.at = {}] IN
       req' = CASE r.m_error \/ (~ReqIsFinished(r) /\ ~more) -> [r EXCEPT !.phase = "closed"]
                [] ~r.m_error /\ ReqIsFinished(r) -> [r EXCEPT !.phase = "finished"]
                [] ~r.m_error /\ ~ReqIsFinished(r) /\ more ->
                     [Reset(r) EXCEPT !.phase = "reading", !.query_start = {Stale}]

\* The next request has a parser of its own.
ReqAgain ==
    /\ req.phase \in {"closed", "finished"}
    /\ \E relaxed \in BOOLEAN : req' = FreshRequest(relaxed)

ReqNextStep ==
    \/ ReqRead
    \/ ReqError
    \/ \E more \in BOOLEAN : EndCall(more)
    \/ ReqAgain

-----------------------------------------------------------------------------
(* Properties.                                                             *)

\* However the bytes of a request are cut into reads, the callbacks get each
\* element up to its end, and from its start as far as that lies in the same
\* buffer: an element cut by a read loses its head, and a query cut by one is
\* measured from an offset into the buffer before.  The version stored is the
\* one sent; cut by a read it is refused, unless the cut falls exactly at its
\* end: nothing is left to compare and the request counts as HTTP/1.1.
\* Exactly the headers whose ":" came with the buffer that holds the end of
\* their value, and was not its first byte, are stored, each under its name or
\* what of it is in that buffer.
ReqElements ==
    /\ \A d \in req.delivered :
          /\ Stop(d.elem) \in d.span.to
          /\ IF d.elem = "query" /\ Start("query") \notin req.incall
             THEN d.span.from = {Stale}
             ELSE FromStart(req, d.elem, d.span.from)
          /\ d.elem = "version" =>
                IF Start("version") \in req.incall THEN req.m_version = req.minor
                ELSE req.m_error \/ (Call \in d.span.to /\ req.m_version = "1")
    /\ Stop("value") \in req.at =>
          IF Stop("name") \in req.incall /\ Cut \notin req.incall
          THEN (\E d \in req.delivered : d.elem = "value") /\ OwnName(req)
          ELSE req.delivered = {}

\* isFinished() answers 1 exactly when the blank line, or the NUL of a socket
\* message, was read: no head ends early and none goes unnoticed.
ReqFinished ==
    /\ req.phase = "finished" => req.part = "body"
    /\ req.phase = "reading" => req.part # "body"
=============================================================================
