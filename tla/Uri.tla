-------------------------------- MODULE Uri --------------------------------
(***************************************************************************)
(* bobliew::Uri::Create (uri.rl.cc): the generated machine of UriTable,    *)
(* its actions, and what they leave in the Uri.                            *)
(*                                                                         *)
(* The input is read one character at a time and has any length.  The      *)
(* pointers p and mark are not numbers: a position is the set of landmarks *)
(* that an independent reader of the same input, the component split of    *)
(* RFC 3986 (appendix B), finds there.  A position between two landmarks   *)
(* is {}.  The state space is finite and covers inputs of every length.    *)
(***************************************************************************)
EXTENDS UriTable, SequencesExt

VARIABLE uri    \* one call of Create(): the machine and the Uri it fills

Field == {"scheme", "userinfo", "host", "port", "path", "query", "fragment"}
Null == {"null"}
Unset == [from |-> {"unset"}, to |-> {"unset"}]

Fresh == [phase |-> "reading", cs |-> 451, mark |-> Null, moved |-> FALSE,
          m |-> [f \in Field |-> Unset],
          \* the reference reader: its part, the landmarks p starts with, and
          \* all it has passed
          part |-> "start", opened |-> {"begin"}, seen |-> {"begin"}]

UriInit == uri = Fresh

-----------------------------------------------------------------------------
(* The actions of uri.rl, at position p.                                   *)

Mark(u, p) == [u EXCEPT !.mark = p, !.moved = FALSE]

Set(u, f, p) == [u EXCEPT !.m[f] = [from |-> u.mark, to |-> p]]

\* std::string(mark, p - mark) throws when mark is NULL.
Save(u, f, p) == IF u.mark = Null THEN [u EXCEPT !.phase = "threw"]
                 ELSE [Set(u, f, p) EXCEPT !.mark = Null]

SavePath(u, p) == Save(u, "path", p)

SaveHost(u, p) == IF u.mark = Null THEN u ELSE Set(u, "host", p)

\* Mutant: a userinfo whose mark moved to a digit is not saved.
SaveUserinfoFirst(u, p) ==
    [IF "auth" \in u.mark THEN Set(u, "userinfo", p) ELSE u EXCEPT !.mark = Null]

SaveUserinfo(u, p) ==
    [IF u.mark = Null THEN u ELSE Set(u, "userinfo", p) EXCEPT !.mark = Null]

\* atoi(mark) reads the digits up to p.
SavePort(u, p) == [IF u.moved THEN Set(u, "port", p) ELSE u EXCEPT !.mark = Null]

Act(u, a, p) ==
    IF u.phase # "reading" THEN u
    ELSE CASE a \in {"marku", "markh"} -> Mark(u, p)
           [] a = "save_scheme" -> Save(u, "scheme", p)
           [] a = "save_path" -> SavePath(u, p)
           [] a = "save_query" -> Save(u, "query", p)
           [] a = "save_fragment" -> Save(u, "fragment", p)
           [] a = "save_host" -> SaveHost(u, p)
           [] a = "save_userinfo" -> SaveUserinfo(u, p)
           [] a = "save_port" -> SavePort(u, p)

Acts(u, actions, p) == FoldLeft(LAMBDA v, a : Act(v, a, p), u, actions)

-----------------------------------------------------------------------------
(* The reference reader.  c is a character, or "eof".                      *)

\* The part of the input after c.
NextPart(q, c) ==
    CASE q = "fragment" -> q
      [] q # "fragment" /\ c = "#" -> "fragment"
      [] q \notin {"fragment", "query", "literal"} /\ c = "?" -> "query"
      [] q = "query" /\ c # "#" -> q
      [] q \in {"start", "hier"} /\ c = "/" -> "slash"
      [] q = "slash" /\ c = "/" -> "auth"
      [] q = "lead" /\ c = ":" -> "hier"
      [] q = "auth" /\ c = "[" -> "literal"
      [] q = "literal" /\ c = "]" -> "auth"
      [] q \in {"auth", "literal"} /\ c \notin {"/", "?", "#", "[", "]"} -> q
      [] q \in {"start", "lead"} /\ c \notin {"/", "?", "#", ":"} -> "lead"
      [] OTHER -> "path"

\* The landmarks at a position whose next character is c.  A ":" of the
\* authority counts once.
Ends(u, c) ==
    LET q == u.part IN
    CASE q = "lead" /\ c = ":" -> {"schemeEnd"}
      [] q = "auth" /\ c = ":" -> {"colon"} \ u.seen
      [] q = "auth" /\ c = "@" -> {"at"}
      [] q = "auth" /\ c = "/" -> {"authEnd"}
      [] q = "auth" /\ c \in {"?", "#", "eof"} -> {"authEnd", "pathEnd"}
      [] q = "path" /\ c \in {"?", "#", "eof"} -> {"pathEnd"}
      [] q = "query" /\ c \in {"#", "eof"} -> {"queryEnd"}
      [] q = "fragment" /\ c = "eof" -> {"end"}
      [] OTHER -> {}

\* The landmarks at the position after c.
Starts(u, c) ==
    LET q == u.part IN
    CASE q = "slash" /\ c = "/" -> {"auth"}
      [] q = "auth" /\ c = ":" /\ "colon" \notin u.seen -> {"port"}
      [] q = "auth" /\ c = "@" -> {"host"}
      [] q \notin {"query", "fragment"} /\ c = "?" -> {"query"}
      [] q # "fragment" /\ c = "#" -> {"fragment"}
      [] OTHER -> {}

\* A port starts with a digit.
Here(u, c) == {l \in u.opened : l = "port" => c \in Digit} \cup Ends(u, c)

\* An "@" shows that the ":" before it belongs to the userinfo; the digit
\* after it starts no port but the tail of the userinfo.
Relabelled(u, c) ==
    LET at == u.part = "auth" /\ c = "@"
        r(S) == IF at THEN {IF l = "port" THEN "tail" ELSE l : l \in S \ {"colon"}}
                ELSE S
    IN  [u EXCEPT !.mark = r(@), !.seen = r(@),
                  !.m = [f \in Field |-> [from |-> r(@[f].from), to |-> r(@[f].to)]]]

-----------------------------------------------------------------------------
(* Steps.                                                                  *)

Edges(u, c) == {e \in UriTable[u.cs] : c \in e.chars}

\* The parser after character c.
Reads(c) ==
    LET u == Relabelled(uri, c)
        p == Here(u, c)
    IN  IF Edges(u, c) = {} THEN {[uri EXCEPT !.phase = "rejected"]}
        ELSE {[Acts(u, e.actions, p) EXCEPT
                 !.cs = e.next, !.moved = TRUE,
                 !.part = NextPart(@, c), !.opened = Starts(u, c),
                 !.seen = @ \cup p] : e \in Edges(u, c)}

\* The next character.
Read == uri.phase = "reading" /\ uri' \in UNION {Reads(c) : c \in UriChar}

\* p == eof: the end-of-input actions, and the test of the final state.
End ==
    /\ uri.phase = "reading"
    /\ LET p == Here(uri, "eof")
           u == Acts(uri, IF uri.cs \in DOMAIN UriEof THEN UriEof[uri.cs]
                                                      ELSE <<>>, p)
       IN  uri' = [u EXCEPT !.seen = @ \cup p,
                            !.phase = CASE @ = "threw" -> @
                                        [] @ # "threw" /\ uri.cs >= 451 -> "accepted"
                                        [] OTHER -> "rejected"]

\* The next call.
Create == uri.phase # "reading" /\ uri' = Fresh

UriNext == Read \/ End \/ Create

-----------------------------------------------------------------------------
(* Properties.                                                             *)

Spans(f, from, to) == from \in uri.m[f].from /\ to \in uri.m[f].to
Without(f) == uri.m[f] = Unset
Passes(l) == l \in uri.seen

\* A member f runs from one landmark to another when p holds, else is unset.
Holds(f, p, from, to) == IF p THEN Spans(f, from, to) ELSE Without(f)

\* The members of a Uri that Create() returns are the components of its
\* input, as RFC 3986 splits it, for inputs of any length and although one mark
\* serves them all and host and userinfo are told apart only at the "@".
\* Where the code differs: a userinfo whose first ":" is followed by a digit
\* starts with that digit, which could have been a port's; the path is stored
\* for scheme://authority only; and Create() throws, a string being built from
\* a NULL mark, but only where a ":" without port has cleared the path's mark.
UriSplit ==
    /\ uri.phase = "accepted" =>
          /\ Holds("scheme", Passes("schemeEnd"), "begin", "schemeEnd")
          /\ Holds("userinfo", Passes("at"), IF Passes("tail") THEN "tail" ELSE "auth", "at")
          /\ Holds("host", Passes("auth"), IF Passes("at") THEN "host" ELSE "auth",
                                            IF Passes("colon") THEN "colon" ELSE "authEnd")
          /\ Holds("port", Passes("port"), "port", "authEnd")
          /\ Holds("path", Passes("schemeEnd") /\ Passes("auth"), "authEnd", "pathEnd")
          /\ Holds("query", Passes("query"), "query", "queryEnd")
          /\ Holds("fragment", Passes("fragment"), "fragment", "end")
    /\ uri.phase = "threw" => Passes("schemeEnd") /\ Passes("colon") /\ ~Passes("port")
=============================================================================
