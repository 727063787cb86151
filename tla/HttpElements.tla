---------------------------- MODULE HttpElements ----------------------------
(***************************************************************************)
(* What the two HTTP parsers share: offsets into the buffer of one call of *)
(* execute(), and the elements they hand to the callbacks.                 *)
(*                                                                         *)
(* The input has any length and comes in calls of any length.  An offset   *)
(* is not a number: it is the set of landmarks that an independent reader  *)
(* of the message finds at that position, Call being the first byte of the *)
(* buffer; {} is a position between landmarks.                             *)
(***************************************************************************)
EXTENDS Ragel, SequencesExt

Start(e) == <<e, "start">>
Stop(e) == <<e, "stop">>
Call == <<"buffer", "start">>
Stale == <<"buffer", "stale">>    \* an offset kept from an earlier call

Cut == <<"name", "cut">>          \* the ":" is the first byte of the buffer

Span(from, to) == [from |-> from, to |-> to]
NoField == Span({}, {})           \* field_len == 0
NoName == [at |-> {}, len |-> NoField]

\* execute() starts with mark = field_start = field_len = 0.
Reset(r) == [r EXCEPT !.mark = {Call}, !.field_start = {Call},
                      !.field = NoField,
                      !.opened = @ \cup {Call}, !.incall = {}]

Deliver(r, e, from, p) ==
    [r EXCEPT !.delivered = @ \cup {[elem |-> e, span |-> Span(from, p)]}]

\* field_len = LEN(field_start, fpc), the distance of two positions: 0 when
\* they are the same one, which has some landmark.
FieldLen(r, p) ==
    IF r.field_start \cap p = {} THEN Span(r.field_start, p) ELSE NoField

\* on_request_http_field, on_response_http_field: flen == 0 is dropped, else
\* the name is field_len bytes from where field_start is now.
HttpField(r, p) ==
    IF r.field = NoField THEN r
    ELSE [Deliver(r, "value", r.mark, p) EXCEPT
             !.header = [at |-> r.field_start, len |-> r.field]]

\* The reader notes the landmarks of position p.
Note(r, p) ==
    [r EXCEPT !.incall = @ \cup p \cup (IF {Call, Stop("name")} \subseteq p THEN {Cut} ELSE {})]

\* A header line starts: what the reader noted of the last one is forgotten.
HeaderMarks == {Start("name"), Stop("name"), Start("value"), Stop("value"), Cut}
NewHeader(r) ==
    [r EXCEPT !.mark = @ \ HeaderMarks, !.field_start = @ \ HeaderMarks,
              !.field = IF @ = NoField THEN @
                        ELSE Span(@.from \ HeaderMarks, {Stop("old")}),
              !.incall = @ \ HeaderMarks]

\* An element was handed over from its first byte, or from the first byte of
\* the buffer when its own came with an earlier call.
FromStart(r, e, from) == IF Start(e) \in r.incall THEN Start(e) \in from
                                                  ELSE from = {Call}

\* The name handed over is the one before the ":".
OwnName(r) ==
    /\ r.header.at = r.header.len.from
    /\ Stop("name") \in r.header.len.to
    /\ FromStart(r, "name", r.header.at)
=============================================================================
