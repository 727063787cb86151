-------------------------- MODULE HttpResponseTable -------------------------
(***************************************************************************)
(* The state machine of httpclient_parser_execute, generated by Ragel from *)
(* httpclient_parser.rl: one entry per "case N:" of the switch in          *)
(* httpclient_parser.rl.cc, with the edges the code tests for; a character *)
(* on no edge goes to the error state 0.  HttpResponseParser.tla gives it  *)
(* its meaning.                                                            *)
(*                                                                         *)
(* Characters are the classes the code tells apart, named by one member; a *)
(* lower case letter stands for both cases, except "h" and "t":            *)
(*   "0"   0-9                      "tab" the bytes 9, 11 and 12           *)
(*   "!"   ! # $ % & ' * + ^ _ ` | ~ and the letters named nowhere         *)
(*   "hi"  the bytes outside ASCII, the other control characters and       *)
(*         the other separators                                            *)
(***************************************************************************)
EXTENDS Ragel

ResponseChar == {"hi", "tab", "LF", "CR", "sp", "!", "-", ".", "/", "0", ":",
                 ";", "=", "a", "b", "c", "d", "e", "f", "g", "H", "i", "k",
                 "l", "n", "o", "P", "r", "s", "T", "u", "h", "t"}

HexChar == {"0", "a", "b", "c", "d", "e", "f"}
TokenChar == ResponseChar \ {"hi", "tab", "LF", "CR", "sp", "/", ":", ";", "="}
AnyChar == ResponseChar

(* start, chunk header, end of the head *)
Rsp1 ==
       1 :> {Do(HexChar, <<"mark">>, 2), Do({"H"}, <<"mark">>, 8)}
  @@   2 :> {To(HexChar, 2), Do({"CR"}, <<"chunk_size">>, 3),
             Do({";"}, <<"chunk_size">>, 4),
             Do({"LF"}, <<"chunk_size", "done">>, 120)}
  @@ 120 :> {}

(* chunk header *)
Rsp2 ==
       3 :> {Do({"LF"}, <<"done">>, 120)}
  @@   4 :> {Do(TokenChar, <<"start_field">>, 5)}
  @@   5 :> {Do({"CR"}, <<"write_field", "start_value", "write_value">>, 3),
             Do({";"}, <<"write_field", "start_value", "write_value">>, 4),
             To(TokenChar, 5), Do({"="}, <<"write_field", "start_value">>, 6),
             Do({"LF"}, <<"write_field", "start_value", "write_value", "done">>, 120)}

(* chunk header, status line *)
Rsp3 ==
       6 :> {Do(TokenChar, <<"start_value">>, 7)}
  @@   7 :> {Do({"CR"}, <<"write_value">>, 3), Do({";"}, <<"write_value">>, 4),
             To(TokenChar, 7), Do({"LF"}, <<"write_value", "done">>, 120)}
  @@   8 :> {To({"T"}, 9)}
  @@   9 :> {To({"T"}, 10)}
  @@  10 :> {To({"P"}, 11)}
  @@  11 :> {To({"/"}, 12)}
  @@  12 :> {To({"0"}, 13)}
  @@  13 :> {To({"0"}, 13), To({"."}, 14)}
  @@  14 :> {To({"0"}, 15)}
  @@  15 :> {To({"0"}, 15), Do({"sp"}, <<"http_version">>, 16)}

(* status line, start of a header line *)
Rsp4 ==
      16 :> {Do({"0"}, <<"mark">>, 17)}
  @@  17 :> {To({"0"}, 17), Do({"sp"}, <<"status_code">>, 18)}
  @@  18 :> {Do(AnyChar \ {"LF"}, <<"mark">>, 19)}
  @@  19 :> {To(AnyChar \ {"LF", "CR"}, 19),
             Do({"LF"}, <<"reason_phrase">>, 20),
             Do({"CR"}, <<"reason_phrase">>, 24)}
  @@  20 :> {To({"CR"}, 3),
             Do(TokenChar \ {"c", "T", "t"}, <<"start_field">>, 21),
             Do({"c"}, <<"start_field">>, 25),
             Do({"T", "t"}, <<"start_field">>, 44), Do({"LF"}, <<"done">>, 120)}

(* field name, before the field value, field value, end of a line *)
Rsp5 ==
      21 :> {To(TokenChar, 21), Do({":"}, <<"write_field">>, 22)}
  @@  22 :> {Do({"LF"}, <<"start_value", "write_value">>, 20),
             Do({"tab", "sp"}, <<"start_value">>, 22),
             Do(AnyChar \ {"tab", "LF", "CR", "sp"}, <<"start_value">>, 23),
             Do({"CR"}, <<"start_value", "write_value">>, 24)}
  @@  23 :> {Do({"LF"}, <<"write_value">>, 20), To(AnyChar \ {"LF", "CR"}, 23),
             Do({"CR"}, <<"write_value">>, 24)}
  @@  24 :> {To({"LF"}, 20)}

(* "Connection" *)
Rsp6 ==
      25 :> {To(TokenChar \ {"o"}, 21), Do({":"}, <<"write_field">>, 22),
             To({"o"}, 26)}
  @@  26 :> {To(TokenChar \ {"n"}, 21), Do({":"}, <<"write_field">>, 22),
             To({"n"}, 27)}
  @@  27 :> {To(TokenChar \ {"n", "T", "t"}, 21),
             Do({":"}, <<"write_field">>, 22), To({"n"}, 28),
             To({"T", "t"}, 101)}
  @@  28 :> {To(TokenChar \ {"e"}, 21), Do({":"}, <<"write_field">>, 22),
             To({"e"}, 29)}

(* "Connection" *)
Rsp7 ==
      29 :> {To(TokenChar \ {"c"}, 21), Do({":"}, <<"write_field">>, 22),
             To({"c"}, 30)}
  @@  30 :> {To(TokenChar \ {"T", "t"}, 21), Do({":"}, <<"write_field">>, 22),
             To({"T", "t"}, 31)}
  @@  31 :> {To(TokenChar \ {"i"}, 21), Do({":"}, <<"write_field">>, 22),
             To({"i"}, 32)}
  @@  32 :> {To(TokenChar \ {"o"}, 21), Do({":"}, <<"write_field">>, 22),
             To({"o"}, 33)}
  @@  33 :> {To(TokenChar \ {"n"}, 21), Do({":"}, <<"write_field">>, 22),
             To({"n"}, 34)}

(* "Connection" *)
Rsp8 ==
      34 :> {To(TokenChar, 21), Do({":"}, <<"write_field">>, 35)}
  @@  35 :> {Do(AnyChar \ {"tab", "LF", "CR", "sp", "c"}, <<"start_value">>, 23),
             Do({"tab", "sp"}, <<"start_value">>, 35),
             Do({"LF"}, <<"start_value", "write_value">>, 36),
             Do({"CR"}, <<"start_value", "write_value">>, 95),
             Do({"c"}, <<"start_value">>, 96)}
  @@  36 :> {Do(TokenChar \ {"c", "T", "t"}, <<"start_field">>, 21),
             To({"tab", "sp"}, 37), Do({"T", "t"}, <<"start_field">>, 44),
             To({"CR"}, 89), Do({"c"}, <<"start_field">>, 90),
             Do({"LF"}, <<"done">>, 122)}
  @@  37 :> {To({"tab", "LF", "CR", "sp"}, 37), To({"c"}, 38)}
  @@  38 :> {To({"l"}, 39)}
  @@  39 :> {To({"o"}, 40)}
  @@  40 :> {To({"s"}, 41)}
  @@  41 :> {To({"e"}, 42)}

(* "Connection", "Transfer-Encoding" *)
Rsp9 ==
      42 :> {To({"LF"}, 43), To({"CR"}, 88)}
  @@  43 :> {Do({"CR"}, <<"write_connection_close">>, 3),
             Do(TokenChar \ {"c", "T", "t"}, <<"write_connection_close", "start_field">>, 21),
             Do({"c"}, <<"write_connection_close", "start_field">>, 25),
             Do({"T", "t"}, <<"write_connection_close", "start_field">>, 44),
             Do({"LF"}, <<"write_connection_close", "done">>, 120)}
  @@  44 :> {To(TokenChar \ {"r"}, 21), Do({":"}, <<"write_field">>, 22),
             To({"r"}, 45)}
  @@  45 :> {To(TokenChar \ {"a"}, 21), Do({":"}, <<"write_field">>, 22),
             To({"a"}, 46)}

(* "Transfer-Encoding" *)
Rsp10 ==
      46 :> {To(TokenChar \ {"n"}, 21), Do({":"}, <<"write_field">>, 22),
             To({"n"}, 47)}
  @@  47 :> {To(TokenChar \ {"s"}, 21), Do({":"}, <<"write_field">>, 22),
             To({"s"}, 48)}
  @@  48 :> {To(TokenChar \ {"f"}, 21), Do({":"}, <<"write_field">>, 22),
             To({"f"}, 49)}
  @@  49 :> {To(TokenChar \ {"e"}, 21), Do({":"}, <<"write_field">>, 22),
             To({"e"}, 50)}
  @@  50 :> {To(TokenChar \ {"r"}, 21), Do({":"}, <<"write_field">>, 22),
             To({"r"}, 51)}

(* "Transfer-Encoding" *)
Rsp11 ==
      51 :> {To(TokenChar \ {"-"}, 21), Do({":"}, <<"write_field">>, 22),
             To({"-"}, 52)}
  @@  52 :> {To(TokenChar \ {"e"}, 21), Do({":"}, <<"write_field">>, 22),
             To({"e"}, 53)}
  @@  53 :> {To(TokenChar \ {"n"}, 21), Do({":"}, <<"write_field">>, 22),
             To({"n"}, 54)}
  @@  54 :> {To(TokenChar \ {"c"}, 21), Do({":"}, <<"write_field">>, 22),
             To({"c"}, 55)}
  @@  55 :> {To(TokenChar \ {"o"}, 21), Do({":"}, <<"write_field">>, 22),
             To({"o"}, 56)}

(* "Transfer-Encoding" *)
Rsp12 ==
      56 :> {To(TokenChar \ {"d"}, 21), Do({":"}, <<"write_field">>, 22),
             To({"d"}, 57)}
  @@  57 :> {To(TokenChar \ {"i"}, 21), Do({":"}, <<"write_field">>, 22),
             To({"i"}, 58)}
  @@  58 :> {To(TokenChar \ {"n"}, 21), Do({":"}, <<"write_field">>, 22),
             To({"n"}, 59)}
  @@  59 :> {To(TokenChar \ {"g"}, 21), Do({":"}, <<"write_field">>, 22),
             To({"g"}, 60)}
  @@  60 :> {To(TokenChar, 21), Do({":"}, <<"write_field">>, 61)}

(* "Transfer-Encoding" *)
Rsp13 ==
      61 :> {Do(AnyChar \ {"tab", "LF", "CR", "sp", "c"}, <<"start_value">>, 23),
             Do({"tab", "sp"}, <<"start_value">>, 61),
             Do({"LF"}, <<"start_value", "write_value">>, 62),
             Do({"CR"}, <<"start_value", "write_value">>, 80),
             Do({"c"}, <<"start_value">>, 81)}
  @@  62 :> {Do(TokenChar \ {"c", "T", "t"}, <<"start_field">>, 21),
             Do({"T", "t"}, <<"start_field">>, 44), To({"tab", "sp"}, 63),
             To({"CR"}, 72), Do({"c"}, <<"start_value", "start_field">>, 73),
             Do({"LF"}, <<"done">>, 121)}
  @@  63 :> {To({"tab", "LF", "CR", "sp"}, 63),
             Do({"c"}, <<"start_value">>, 64)}
  @@  64 :> {To({"H", "h"}, 65)}
  @@  65 :> {To({"u"}, 66)}
  @@  66 :> {To({"n"}, 67)}
  @@  67 :> {To({"k"}, 68)}
  @@  68 :> {To({"e"}, 69)}
  @@  69 :> {To({"d"}, 70)}

(* "Transfer-Encoding", end after an empty Transfer-Encoding *)
Rsp14 ==
      70 :> {Do({"LF"}, <<"write_value", "trans_chunked">>, 20),
             Do({"CR"}, <<"write_value">>, 71)}
  @@  71 :> {Do({"LF"}, <<"trans_chunked">>, 20)}
  @@ 121 :> {To({"tab", "LF", "CR", "sp"}, 63),
             Do({"c"}, <<"start_value">>, 64)}
  @@  72 :> {To({"tab", "CR", "sp"}, 63), Do({"c"}, <<"start_value">>, 64),
             Do({"LF"}, <<"done">>, 121)}
  @@  73 :> {To(TokenChar \ {"H", "o", "h"}, 21),
             Do({":"}, <<"write_field">>, 22), To({"o"}, 26),
             To({"H", "h"}, 74)}
  @@  74 :> {To(TokenChar \ {"u"}, 21), Do({":"}, <<"write_field">>, 22),
             To({"u"}, 75)}

(* "Transfer-Encoding" *)
Rsp15 ==
      75 :> {To(TokenChar \ {"n"}, 21), Do({":"}, <<"write_field">>, 22),
             To({"n"}, 76)}
  @@  76 :> {To(TokenChar \ {"k"}, 21), Do({":"}, <<"write_field">>, 22),
             To({"k"}, 77)}
  @@  77 :> {To(TokenChar \ {"e"}, 21), Do({":"}, <<"write_field">>, 22),
             To({"e"}, 78)}
  @@  78 :> {To(TokenChar \ {"d"}, 21), Do({":"}, <<"write_field">>, 22),
             To({"d"}, 79)}
  @@  79 :> {Do({"LF"}, <<"write_value", "trans_chunked">>, 20),
             To(TokenChar, 21), Do({":"}, <<"write_field">>, 22),
             Do({"CR"}, <<"write_value">>, 71)}

(* "Connection", "Transfer-Encoding", end after an empty Connection *)
Rsp16 ==
      80 :> {To({"LF"}, 62), To({"tab", "CR", "sp"}, 63),
             Do({"c"}, <<"start_value">>, 64)}
  @@  81 :> {Do({"LF"}, <<"write_value">>, 20),
             To(AnyChar \ {"LF", "CR", "H", "h"}, 23),
             Do({"CR"}, <<"write_value">>, 24), To({"H", "h"}, 82)}
  @@  82 :> {Do({"LF"}, <<"write_value">>, 20),
             To(AnyChar \ {"LF", "CR", "u"}, 23),
             Do({"CR"}, <<"write_value">>, 24), To({"u"}, 83)}
  @@  83 :> {Do({"LF"}, <<"write_value">>, 20),
             To(AnyChar \ {"LF", "CR", "n"}, 23),
             Do({"CR"}, <<"write_value">>, 24), To({"n"}, 84)}
  @@  84 :> {Do({"LF"}, <<"write_value">>, 20),
             To(AnyChar \ {"LF", "CR", "k"}, 23),
             Do({"CR"}, <<"write_value">>, 24), To({"k"}, 85)}
  @@  85 :> {Do({"LF"}, <<"write_value">>, 20),
             To(AnyChar \ {"LF", "CR", "e"}, 23),
             Do({"CR"}, <<"write_value">>, 24), To({"e"}, 86)}
  @@  86 :> {Do({"LF"}, <<"write_value">>, 20),
             To(AnyChar \ {"LF", "CR", "d"}, 23),
             Do({"CR"}, <<"write_value">>, 24), To({"d"}, 87)}
  @@  87 :> {Do({"LF"}, <<"write_value", "trans_chunked">>, 20),
             To(AnyChar \ {"LF", "CR"}, 23), Do({"CR"}, <<"write_value">>, 71)}
  @@  88 :> {To({"LF"}, 43)}
  @@ 122 :> {To({"tab", "LF", "CR", "sp"}, 37), To({"c"}, 38)}

(* "Connection" *)
Rsp17 ==
      89 :> {To({"tab", "CR", "sp"}, 37), To({"c"}, 38),
             Do({"LF"}, <<"done">>, 122)}
  @@  90 :> {To(TokenChar \ {"l", "o"}, 21), Do({":"}, <<"write_field">>, 22),
             To({"o"}, 26), To({"l"}, 91)}
  @@  91 :> {To(TokenChar \ {"o"}, 21), Do({":"}, <<"write_field">>, 22),
             To({"o"}, 92)}
  @@  92 :> {To(TokenChar \ {"s"}, 21), Do({":"}, <<"write_field">>, 22),
             To({"s"}, 93)}
  @@  93 :> {To(TokenChar \ {"e"}, 21), Do({":"}, <<"write_field">>, 22),
             To({"e"}, 94)}

(* "Connection", "Content-Length" *)
Rsp18 ==
      94 :> {To(TokenChar, 21), Do({":"}, <<"write_field">>, 22),
             To({"LF"}, 43), To({"CR"}, 88)}
  @@  95 :> {To({"LF"}, 36), To({"tab", "CR", "sp"}, 37), To({"c"}, 38)}
  @@  96 :> {Do({"LF"}, <<"write_value">>, 20),
             To(AnyChar \ {"LF", "CR", "l"}, 23),
             Do({"CR"}, <<"write_value">>, 24), To({"l"}, 97)}
  @@  97 :> {Do({"LF"}, <<"write_value">>, 20),
             To(AnyChar \ {"LF", "CR", "o"}, 23),
             Do({"CR"}, <<"write_value">>, 24), To({"o"}, 98)}
  @@  98 :> {Do({"LF"}, <<"write_value">>, 20),
             To(AnyChar \ {"LF", "CR", "s"}, 23),
             Do({"CR"}, <<"write_value">>, 24), To({"s"}, 99)}
  @@  99 :> {Do({"LF"}, <<"write_value">>, 20),
             To(AnyChar \ {"LF", "CR", "e"}, 23),
             Do({"CR"}, <<"write_value">>, 24), To({"e"}, 100)}
  @@ 100 :> {To(AnyChar \ {"LF", "CR"}, 23), Do({"LF"}, <<"write_value">>, 43),
             Do({"CR"}, <<"write_value">>, 88)}
  @@ 101 :> {To(TokenChar \ {"e"}, 21), Do({":"}, <<"write_field">>, 22),
             To({"e"}, 102)}

(* "Content-Length" *)
Rsp19 ==
     102 :> {To(TokenChar \ {"n"}, 21), Do({":"}, <<"write_field">>, 22),
             To({"n"}, 103)}
  @@ 103 :> {To(TokenChar \ {"T", "t"}, 21), Do({":"}, <<"write_field">>, 22),
             To({"T", "t"}, 104)}
  @@ 104 :> {To(TokenChar \ {"-"}, 21), Do({":"}, <<"write_field">>, 22),
             To({"-"}, 105)}
  @@ 105 :> {To(TokenChar \ {"l"}, 21), Do({":"}, <<"write_field">>, 22),
             To({"l"}, 106)}
  @@ 106 :> {To(TokenChar \ {"e"}, 21), Do({":"}, <<"write_field">>, 22),
             To({"e"}, 107)}

(* "Content-Length" *)
Rsp20 ==
     107 :> {To(TokenChar \ {"n"}, 21), Do({":"}, <<"write_field">>, 22),
             To({"n"}, 108)}
  @@ 108 :> {To(TokenChar \ {"g"}, 21), Do({":"}, <<"write_field">>, 22),
             To({"g"}, 109)}
  @@ 109 :> {To(TokenChar \ {"T", "t"}, 21), Do({":"}, <<"write_field">>, 22),
             To({"T", "t"}, 110)}
  @@ 110 :> {To(TokenChar \ {"H", "h"}, 21), Do({":"}, <<"write_field">>, 22),
             To({"H", "h"}, 111)}
  @@ 111 :> {To(TokenChar, 21), Do({":"}, <<"write_field">>, 112)}

(* "Content-Length", end after an empty Content-Length *)
Rsp21 ==
     112 :> {Do(AnyChar \ {"tab", "LF", "CR", "sp", "0"}, <<"start_value">>, 23),
             Do({"tab", "sp"}, <<"start_value">>, 112),
             Do({"LF"}, <<"start_value", "write_value">>, 113),
             Do({"CR"}, <<"start_value", "write_value">>, 118),
             Do({"0"}, <<"start_value">>, 119)}
  @@ 113 :> {Do(TokenChar \ {"0", "c", "T", "t"}, <<"start_field">>, 21),
             Do({"c"}, <<"start_field">>, 25),
             Do({"T", "t"}, <<"start_field">>, 44), To({"tab", "sp"}, 114),
             To({"CR"}, 116), Do({"0"}, <<"start_value", "start_field">>, 117),
             Do({"LF"}, <<"done">>, 123)}
  @@ 114 :> {To({"tab", "LF", "CR", "sp"}, 114),
             Do({"0"}, <<"start_value">>, 115)}
  @@ 115 :> {Do({"LF"}, <<"write_content_len", "write_value">>, 20),
             Do({"CR"}, <<"write_content_len", "write_value">>, 24),
             To({"0"}, 115)}
  @@ 123 :> {To({"tab", "LF", "CR", "sp"}, 114),
             Do({"0"}, <<"start_value">>, 115)}
  @@ 116 :> {To({"tab", "CR", "sp"}, 114), Do({"0"}, <<"start_value">>, 115),
             Do({"LF"}, <<"done">>, 123)}

(* "Content-Length" *)
Rsp22 ==
     117 :> {Do({"LF"}, <<"write_content_len", "write_value">>, 20),
             To(TokenChar \ {"0"}, 21), Do({":"}, <<"write_field">>, 22),
             Do({"CR"}, <<"write_content_len", "write_value">>, 24),
             To({"0"}, 117)}
  @@ 118 :> {To({"LF"}, 113), To({"tab", "CR", "sp"}, 114),
             Do({"0"}, <<"start_value">>, 115)}
  @@ 119 :> {Do({"LF"}, <<"write_content_len", "write_value">>, 20),
             To(AnyChar \ {"LF", "CR", "0"}, 23),
             Do({"CR"}, <<"write_content_len", "write_value">>, 24),
             To({"0"}, 119)}

ResponseTable ==
     Rsp1 @@ Rsp2 @@ Rsp3 @@ Rsp4 @@ Rsp5 @@ Rsp6 @@ Rsp7 @@ Rsp8
  @@ Rsp9 @@ Rsp10 @@ Rsp11 @@ Rsp12 @@ Rsp13 @@ Rsp14 @@ Rsp15 @@ Rsp16
  @@ Rsp17 @@ Rsp18 @@ Rsp19 @@ Rsp20 @@ Rsp21 @@ Rsp22
=============================================================================
