-------------------------- MODULE HttpRequestTable --------------------------
(***************************************************************************)
(* The state machine of http_parser_execute (http11_parser.rl.cc), which   *)
(* Ragel generated from http11_parser.rl: one entry per "case N:" of its   *)
(* switch, with the edges the code tests for; a character on no edge goes  *)
(* to the error state 0.  HttpRequestParser.tla gives it its meaning.      *)
(*                                                                         *)
(* Characters are the classes the code tells apart, named by one member:   *)
(*   "!"  ! $ & ' * _ ~            "("  ( ) , ; =                          *)
(*   "3"  3 4 6 7 8 9              "q"  the quotation mark and \           *)
(*   "A"  A-F                      "G"  the other upper case letters       *)
(*   "a"  a-f                      "g"  the other lower case letters       *)
(*   "hi" the bytes outside ASCII  "vt" the bytes 11 and 12                *)
(*   "x2" .. "x6"  the bytes 2 .. 6, "nul" the byte 0, "del" the byte 127  *)
(*   "ctl"  the other control characters, ` and |                          *)
(* "more" on an edge stands for { } ^ when parser->uri_relaxed is set.     *)
(***************************************************************************)
EXTENDS Ragel

HttpChar == {"hi", "nul", "ctl", "x2", "x3", "x4", "x5", "x6", "tab", "LF",
             "vt", "CR", "sp", "!", "q", "#", "%", "(", "+", "-", ".", "/",
             "0", "1", "2", "3", "5", ":", "<", ">", "?", "@", "A", "G", "H",
             "P", "T", "[", "]", "^", "a", "g", "v", "{", "}", "del"}

More == {"{", "}", "^"}
DIGIT == {"0", "1", "2", "3", "5"}
HEXDIG == DIGIT \cup {"A", "a"}
UPPER == {"A", "G", "H", "P", "T"}
ALPHA == UPPER \cup {"a", "g", "v"}
METHOD == DIGIT \cup UPPER
SEGMENT == DIGIT \cup ALPHA \cup {"!", "(", "+", "-", ".", "more"}
PCHAR == SEGMENT \cup {":", "@", "hi"}
QUERY == PCHAR \cup {"/", "?"}
TOKEN == DIGIT \cup ALPHA \cup {"ctl", "x2", "x3", "x4", "x5", "x6", "LF", "vt",
                                "CR", "!", "#", "%", "+", "-", ".", "^"}
ANY == HttpChar

(* start, method, start of the URI *)
Http1 ==
       1 :> {Do(METHOD, <<"mark">>, 2), Do({"<"}, <<"mark">>, 194),
             Do({"@"}, <<"mark">>, 198)}
  @@   2 :> {Do({"sp"}, <<"request_method">>, 3), To(METHOD, 175)}
  @@   3 :> {Do({"sp"}, <<"mark", "request_path", "request_uri">>, 4),
             Do(DIGIT \cup {"!", "(", "+", "-", ".", "@", "more"}, <<"mark">>, 19),
             Do({"#"}, <<"mark", "request_path", "request_uri">>, 20),
             Do({"%"}, <<"mark">>, 24),
             Do({"?"}, <<"mark", "request_path">>, 29),
             Do({"/"}, <<"mark">>, 33), Do(ALPHA, <<"mark">>, 173)}

(* HTTP version *)
Http2 ==
       4 :> {Do({"H"}, <<"mark">>, 5)}
  @@   5 :> {To({"T"}, 6)}
  @@   6 :> {To({"T"}, 7)}
  @@   7 :> {To({"P"}, 8)}
  @@   8 :> {To({"/"}, 9)}
  @@   9 :> {To({"1"}, 10)}
  @@  10 :> {To({"."}, 11)}
  @@  11 :> {To({"0", "1"}, 12)}
  @@  12 :> {Do({"LF"}, <<"http_version">>, 13),
             Do({"CR"}, <<"http_version">>, 17)}

(* start of a header line, field name, before the field value, field value *)
Http3 ==
      13 :> {Do(TOKEN \ {"LF", "CR"}, <<"start_field">>, 14),
             Do({"CR"}, <<"start_field">>, 18),
             Do({"LF"}, <<"start_field", "done">>, 348)}
  @@  14 :> {To(TOKEN, 14), Do({":"}, <<"write_field">>, 15)}
  @@  15 :> {Do({"LF"}, <<"start_value", "write_value">>, 13),
             Do({"tab", "sp"}, <<"start_value">>, 15),
             Do(ANY \ {"nul", "tab", "LF", "CR", "sp", "del"}, <<"start_value">>, 16),
             Do({"CR"}, <<"start_value", "write_value">>, 17)}
  @@  16 :> {Do({"LF"}, <<"write_value">>, 13),
             To(ANY \ {"nul", "LF", "CR", "del"}, 16),
             Do({"CR"}, <<"write_value">>, 17)}

(* end of a line, CR of the blank line, end of the head *)
Http4 ==
      17 :> {To({"LF"}, 13)}
  @@ 348 :> {To(TOKEN, 14), Do({":"}, <<"write_field">>, 15)}
  @@  18 :> {To(TOKEN \ {"LF"}, 14), Do({":"}, <<"write_field">>, 15),
             Do({"LF"}, <<"done">>, 348)}

(* leading segment or scheme *)
Http5 ==
      19 :> {Do({"sp"}, <<"request_path", "request_uri">>, 4),
             To(SEGMENT \cup {"@"}, 19),
             Do({"#"}, <<"request_path", "request_uri">>, 20), To({"%"}, 24),
             To({"/"}, 26), Do({"?"}, <<"request_path">>, 29)}

(* fragment *)
Http6 ==
      20 :> {Do({"sp"}, <<"mark", "fragment">>, 4), Do(QUERY, <<"mark">>, 21),
             Do({"%"}, <<"mark">>, 22)}

(* leading segment or scheme, fragment *)
Http7 ==
      21 :> {Do({"sp"}, <<"fragment">>, 4), To(QUERY, 21), To({"%"}, 22)}
  @@  22 :> {To(HEXDIG, 23)}
  @@  23 :> {To(HEXDIG, 21)}
  @@  24 :> {To(HEXDIG, 25)}
  @@  25 :> {To(HEXDIG, 19)}

(* path *)
Http8 ==
      26 :> {Do({"sp"}, <<"request_path", "request_uri">>, 4),
             Do({"#"}, <<"request_path", "request_uri">>, 20),
             To(QUERY \ {"?"}, 26), To({"%"}, 27),
             Do({"?"}, <<"request_path">>, 29)}
  @@  27 :> {To(HEXDIG, 28)}
  @@  28 :> {To(HEXDIG, 26)}

(* query *)
Http9 ==
      29 :> {Do({"sp"}, <<"start_query", "query_string", "request_uri">>, 4),
             Do({"#"}, <<"start_query", "query_string", "request_uri">>, 20),
             Do(QUERY, <<"start_query">>, 30), Do({"%"}, <<"start_query">>, 31)}
  @@  30 :> {Do({"sp"}, <<"query_string", "request_uri">>, 4),
             Do({"#"}, <<"query_string", "request_uri">>, 20), To(QUERY, 30),
             To({"%"}, 31)}
  @@  31 :> {To(HEXDIG, 32)}

(* path, query *)
Http10 ==
      32 :> {To(HEXDIG, 30)}
  @@  33 :> {Do({"sp"}, <<"request_path", "request_uri">>, 4),
             Do({"#"}, <<"request_path", "request_uri">>, 20), To(PCHAR, 26),
             To({"%"}, 27), Do({"?"}, <<"request_path">>, 29), To({"/"}, 34)}
  @@  34 :> {Do({"sp"}, <<"request_path", "request_uri">>, 4),
             Do({"#"}, <<"request_path", "request_uri">>, 20), To({"/"}, 26),
             Do({"?"}, <<"request_path">>, 29), To(SEGMENT, 35), To({"%"}, 36),
             To({":"}, 38), To({"@"}, 42), To({"["}, 47)}

(* path *)
Http11 ==
      35 :> {Do({"sp"}, <<"request_path", "request_uri">>, 4),
             Do({"#"}, <<"request_path", "request_uri">>, 20), To({"/"}, 26),
             Do({"?"}, <<"request_path">>, 29), To(SEGMENT, 35), To({"%"}, 36),
             To({":"}, 38), To({"@"}, 42)}
  @@  36 :> {To(HEXDIG, 37)}
  @@  37 :> {To(HEXDIG, 35)}
  @@  38 :> {Do({"sp"}, <<"request_path", "request_uri">>, 4),
             Do({"#"}, <<"request_path", "request_uri">>, 20), To({"/"}, 26),
             Do({"?"}, <<"request_path">>, 29), To(DIGIT, 38),
             To(PCHAR \ {"hi", "0", "1", "2", "3", "5", "@"}, 39),
             To({"%"}, 40), To({"@"}, 42)}

(* path *)
Http12 ==
      39 :> {To(SEGMENT \cup {":"}, 39), To({"%"}, 40), To({"@"}, 42)}
  @@  40 :> {To(HEXDIG, 41)}
  @@  41 :> {To(HEXDIG, 39)}
  @@  42 :> {Do({"sp"}, <<"request_path", "request_uri">>, 4),
             Do({"#"}, <<"request_path", "request_uri">>, 20), To({"/"}, 26),
             Do({"?"}, <<"request_path">>, 29), To(SEGMENT, 43), To({"%"}, 44),
             To({":"}, 46), To({"["}, 47)}

(* path *)
Http13 ==
      43 :> {Do({"sp"}, <<"request_path", "request_uri">>, 4),
             Do({"#"}, <<"request_path", "request_uri">>, 20), To({"/"}, 26),
             Do({"?"}, <<"request_path">>, 29), To(SEGMENT, 43), To({"%"}, 44),
             To({":"}, 46)}
  @@  44 :> {To(HEXDIG, 45)}
  @@  45 :> {To(HEXDIG, 43)}
  @@  46 :> {Do({"sp"}, <<"request_path", "request_uri">>, 4),
             Do({"#"}, <<"request_path", "request_uri">>, 20), To({"/"}, 26),
             Do({"?"}, <<"request_path">>, 29), To(DIGIT, 46)}
  @@  47 :> {To({"x6"}, 48), To(HEXDIG, 91), To({":"}, 167), To({"v"}, 169)}
  @@  48 :> {To(HEXDIG, 49)}
  @@  49 :> {To(HEXDIG, 50), To({":"}, 53)}
  @@  50 :> {To(HEXDIG, 51), To({":"}, 53)}

(* path *)
Http14 ==
      51 :> {To(HEXDIG, 52), To({":"}, 53)}
  @@  52 :> {To({":"}, 53)}
  @@  53 :> {To({"0", "3", "5"}, 54), To({"1"}, 84), To({"2"}, 87),
             To({"A", "a"}, 90)}
  @@  54 :> {To({"."}, 55), To(HEXDIG, 77), To({":"}, 80)}
  @@  55 :> {To({"0", "3", "5"}, 56), To({"1"}, 72), To({"2"}, 74)}
  @@  56 :> {To({"."}, 57)}
  @@  57 :> {To({"0", "3", "5"}, 58), To({"1"}, 67), To({"2"}, 69)}
  @@  58 :> {To({"."}, 59)}
  @@  59 :> {To({"0", "3", "5"}, 60), To({"1"}, 62), To({"2"}, 64)}
  @@  60 :> {To({"]"}, 61)}
  @@  61 :> {Do({"sp"}, <<"request_path", "request_uri">>, 4),
             Do({"#"}, <<"request_path", "request_uri">>, 20), To({"/"}, 26),
             Do({"?"}, <<"request_path">>, 29), To({":"}, 46)}
  @@  62 :> {To({"]"}, 61), To(DIGIT, 63)}
  @@  63 :> {To(DIGIT, 60), To({"]"}, 61)}
  @@  64 :> {To({"]"}, 61), To({"0"}, 65), To({"5"}, 66)}

(* path *)
Http15 ==
      65 :> {To(DIGIT, 60)}
  @@  66 :> {To({"0"}, 60)}
  @@  67 :> {To({"."}, 59), To(DIGIT, 68)}
  @@  68 :> {To(DIGIT, 58), To({"."}, 59)}
  @@  69 :> {To({"."}, 59), To({"0"}, 70), To({"5"}, 71)}
  @@  70 :> {To(DIGIT, 58)}
  @@  71 :> {To({"0"}, 58)}
  @@  72 :> {To({"."}, 57), To(DIGIT, 73)}
  @@  73 :> {To(DIGIT, 56), To({"."}, 57)}
  @@  74 :> {To({"."}, 57), To({"0"}, 75), To({"5"}, 76)}
  @@  75 :> {To(DIGIT, 56)}
  @@  76 :> {To({"0"}, 56)}
  @@  77 :> {To(HEXDIG, 78), To({":"}, 80)}
  @@  78 :> {To(HEXDIG, 79), To({":"}, 80)}
  @@  79 :> {To({":"}, 80)}
  @@  80 :> {To(HEXDIG, 81)}

(* path *)
Http16 ==
      81 :> {To({"]"}, 61), To(HEXDIG, 82)}
  @@  82 :> {To({"]"}, 61), To(HEXDIG, 83)}
  @@  83 :> {To(HEXDIG, 60), To({"]"}, 61)}
  @@  84 :> {To({"."}, 55), To({"A", "a"}, 77), To({":"}, 80), To(DIGIT, 85)}
  @@  85 :> {To({"."}, 55), To({"A", "a"}, 78), To({":"}, 80), To(DIGIT, 86)}
  @@  86 :> {To({"."}, 55), To(HEXDIG, 79), To({":"}, 80)}
  @@  87 :> {To({"."}, 55), To(HEXDIG \ {"0", "5"}, 77), To({":"}, 80),
             To({"0"}, 88), To({"5"}, 89)}
  @@  88 :> {To({"A", "a"}, 78), To({":"}, 80), To(DIGIT, 86)}
  @@  89 :> {To(HEXDIG \ {"0"}, 78), To({":"}, 80), To({"0"}, 86)}

(* path *)
Http17 ==
      90 :> {To(HEXDIG, 77), To({":"}, 80)}
  @@  91 :> {To(HEXDIG, 92), To({":"}, 95)}
  @@  92 :> {To(HEXDIG, 93), To({":"}, 95)}
  @@  93 :> {To(HEXDIG, 94), To({":"}, 95)}
  @@  94 :> {To({":"}, 95)}
  @@  95 :> {To(HEXDIG, 96), To({":"}, 166)}
  @@  96 :> {To(HEXDIG, 97), To({":"}, 100)}
  @@  97 :> {To(HEXDIG, 98), To({":"}, 100)}
  @@  98 :> {To(HEXDIG, 99), To({":"}, 100)}
  @@  99 :> {To({":"}, 100)}
  @@ 100 :> {To(HEXDIG, 101), To({":"}, 165)}

(* path *)
Http18 ==
     101 :> {To(HEXDIG, 102), To({":"}, 105)}
  @@ 102 :> {To(HEXDIG, 103), To({":"}, 105)}
  @@ 103 :> {To(HEXDIG, 104), To({":"}, 105)}
  @@ 104 :> {To({":"}, 105)}
  @@ 105 :> {To(HEXDIG, 106), To({":"}, 164)}
  @@ 106 :> {To(HEXDIG, 107), To({":"}, 110)}
  @@ 107 :> {To(HEXDIG, 108), To({":"}, 110)}
  @@ 108 :> {To(HEXDIG, 109), To({":"}, 110)}
  @@ 109 :> {To({":"}, 110)}
  @@ 110 :> {To(HEXDIG, 111), To({":"}, 163)}
  @@ 111 :> {To(HEXDIG, 112), To({":"}, 115)}

(* path *)
Http19 ==
     112 :> {To(HEXDIG, 113), To({":"}, 115)}
  @@ 113 :> {To(HEXDIG, 114), To({":"}, 115)}
  @@ 114 :> {To({":"}, 115)}
  @@ 115 :> {To(HEXDIG, 116), To({":"}, 151)}
  @@ 116 :> {To(HEXDIG, 117), To({":"}, 120)}
  @@ 117 :> {To(HEXDIG, 118), To({":"}, 120)}
  @@ 118 :> {To(HEXDIG, 119), To({":"}, 120)}
  @@ 119 :> {To({":"}, 120)}
  @@ 120 :> {To(HEXDIG, 121), To({":"}, 150)}
  @@ 121 :> {To(HEXDIG, 122), To({":"}, 125)}
  @@ 122 :> {To(HEXDIG, 123), To({":"}, 125)}

(* path *)
Http20 ==
     123 :> {To(HEXDIG, 124), To({":"}, 125)}
  @@ 124 :> {To({":"}, 125)}
  @@ 125 :> {To(HEXDIG, 121), To({":"}, 126)}
  @@ 126 :> {To({"x2", "x3"}, 48), To({"]"}, 61), To({"0", "3", "5"}, 127),
             To({"1"}, 143), To({"2"}, 146), To({"A", "a"}, 149)}
  @@ 127 :> {To({"."}, 55), To({"]"}, 61), To(HEXDIG, 128), To({":"}, 131)}
  @@ 128 :> {To({"]"}, 61), To(HEXDIG, 129), To({":"}, 131)}
  @@ 129 :> {To({"]"}, 61), To(HEXDIG, 130), To({":"}, 131)}
  @@ 130 :> {To({"]"}, 61), To({":"}, 131)}
  @@ 131 :> {To({"0", "3", "5"}, 132), To({"1"}, 136), To({"2"}, 139),
             To({"A", "a"}, 142)}

(* path *)
Http21 ==
     132 :> {To({"."}, 55), To({"]"}, 61), To({":"}, 80), To(HEXDIG, 133)}
  @@ 133 :> {To({"]"}, 61), To({":"}, 80), To(HEXDIG, 134)}
  @@ 134 :> {To({"]"}, 61), To({":"}, 80), To(HEXDIG, 135)}
  @@ 135 :> {To({"]"}, 61), To({":"}, 80)}
  @@ 136 :> {To({"."}, 55), To({"]"}, 61), To({":"}, 80), To({"A", "a"}, 133),
             To(DIGIT, 137)}
  @@ 137 :> {To({"."}, 55), To({"]"}, 61), To({":"}, 80), To({"A", "a"}, 134),
             To(DIGIT, 138)}
  @@ 138 :> {To({"."}, 55), To({"]"}, 61), To({":"}, 80), To(HEXDIG, 135)}
  @@ 139 :> {To({"."}, 55), To({"]"}, 61), To({":"}, 80),
             To(HEXDIG \ {"0", "5"}, 133), To({"0"}, 140), To({"5"}, 141)}

(* path *)
Http22 ==
     140 :> {To({"]"}, 61), To({":"}, 80), To({"A", "a"}, 134), To(DIGIT, 138)}
  @@ 141 :> {To({"]"}, 61), To({":"}, 80), To(HEXDIG \ {"0"}, 134),
             To({"0"}, 138)}
  @@ 142 :> {To({"]"}, 61), To({":"}, 80), To(HEXDIG, 133)}
  @@ 143 :> {To({"."}, 55), To({"]"}, 61), To({"A", "a"}, 128), To({":"}, 131),
             To(DIGIT, 144)}
  @@ 144 :> {To({"."}, 55), To({"]"}, 61), To({"A", "a"}, 129), To({":"}, 131),
             To(DIGIT, 145)}
  @@ 145 :> {To({"."}, 55), To({"]"}, 61), To(HEXDIG, 130), To({":"}, 131)}
  @@ 146 :> {To({"."}, 55), To({"]"}, 61), To(HEXDIG \ {"0", "5"}, 128),
             To({":"}, 131), To({"0"}, 147), To({"5"}, 148)}
  @@ 147 :> {To({"]"}, 61), To({"A", "a"}, 129), To({":"}, 131), To(DIGIT, 145)}

(* path *)
Http23 ==
     148 :> {To({"]"}, 61), To(HEXDIG \ {"0"}, 129), To({":"}, 131),
             To({"0"}, 145)}
  @@ 149 :> {To({"]"}, 61), To(HEXDIG, 128), To({":"}, 131)}
  @@ 150 :> {To({"x2", "x3"}, 48), To({"0", "3", "5"}, 127), To({"1"}, 143),
             To({"2"}, 146), To({"A", "a"}, 149)}
  @@ 151 :> {To({"x2", "x3"}, 48), To({"0", "3", "5"}, 152), To({"1"}, 156),
             To({"2"}, 159), To({"A", "a"}, 162)}
  @@ 152 :> {To({"."}, 55), To({":"}, 131), To(HEXDIG, 153)}
  @@ 153 :> {To({":"}, 131), To(HEXDIG, 154)}
  @@ 154 :> {To({":"}, 131), To(HEXDIG, 155)}
  @@ 155 :> {To({":"}, 131)}
  @@ 156 :> {To({"."}, 55), To({":"}, 131), To({"A", "a"}, 153), To(DIGIT, 157)}

(* path *)
Http24 ==
     157 :> {To({"."}, 55), To({":"}, 131), To({"A", "a"}, 154), To(DIGIT, 158)}
  @@ 158 :> {To({"."}, 55), To({":"}, 131), To(HEXDIG, 155)}
  @@ 159 :> {To({"."}, 55), To({":"}, 131), To(HEXDIG \ {"0", "5"}, 153),
             To({"0"}, 160), To({"5"}, 161)}
  @@ 160 :> {To({":"}, 131), To({"A", "a"}, 154), To(DIGIT, 158)}
  @@ 161 :> {To({":"}, 131), To(HEXDIG \ {"0"}, 154), To({"0"}, 158)}
  @@ 162 :> {To({":"}, 131), To(HEXDIG, 153)}
  @@ 163 :> {To({"x2", "x3"}, 48), To(HEXDIG, 49)}
  @@ 164 :> {To({"x2", "x3"}, 48)}
  @@ 165 :> {To({"x3"}, 48)}
  @@ 166 :> {To({"x4"}, 48)}
  @@ 167 :> {To({":"}, 168)}

(* path *)
Http25 ==
     168 :> {To({"x2", "x3", "x4", "x5"}, 48), To({"]"}, 61),
             To({"0", "3", "5"}, 127), To({"1"}, 143), To({"2"}, 146),
             To({"A", "a"}, 149)}
  @@ 169 :> {To(HEXDIG, 170)}
  @@ 170 :> {To(HEXDIG, 170), To({"."}, 171)}
  @@ 171 :> {To(SEGMENT \cup {":"}, 172)}
  @@ 172 :> {To({"]"}, 61), To(SEGMENT \cup {":"}, 172)}

(* method, leading segment or scheme, after "scheme:" *)
Http26 ==
     173 :> {Do({"sp"}, <<"request_path", "request_uri">>, 4),
             To({"!", "(", "@", "more"}, 19),
             Do({"#"}, <<"request_path", "request_uri">>, 20), To({"%"}, 24),
             To({"/"}, 26), Do({"?"}, <<"request_path">>, 29),
             To(SEGMENT \ {"!", "(", "more"}, 173), To({":"}, 174)}
  @@ 174 :> {Do({"sp"}, <<"mark", "request_path", "request_uri">>, 4),
             Do({"#"}, <<"mark", "request_path", "request_uri">>, 20),
             Do(PCHAR, <<"mark">>, 26), Do({"%"}, <<"mark">>, 27),
             Do({"?"}, <<"mark", "request_path">>, 29),
             Do({"/"}, <<"mark">>, 33)}
  @@ 175 :> {Do({"sp"}, <<"request_method">>, 3), To(METHOD, 176)}
  @@ 176 :> {Do({"sp"}, <<"request_method">>, 3), To(METHOD, 177)}
  @@ 177 :> {Do({"sp"}, <<"request_method">>, 3), To(METHOD, 178)}

(* method *)
Http27 ==
     178 :> {Do({"sp"}, <<"request_method">>, 3), To(METHOD, 179)}
  @@ 179 :> {Do({"sp"}, <<"request_method">>, 3), To(METHOD, 180)}
  @@ 180 :> {Do({"sp"}, <<"request_method">>, 3), To(METHOD, 181)}
  @@ 181 :> {Do({"sp"}, <<"request_method">>, 3), To(METHOD, 182)}
  @@ 182 :> {Do({"sp"}, <<"request_method">>, 3), To(METHOD, 183)}
  @@ 183 :> {Do({"sp"}, <<"request_method">>, 3), To(METHOD, 184)}
  @@ 184 :> {Do({"sp"}, <<"request_method">>, 3), To(METHOD, 185)}
  @@ 185 :> {Do({"sp"}, <<"request_method">>, 3), To(METHOD, 186)}
  @@ 186 :> {Do({"sp"}, <<"request_method">>, 3), To(METHOD, 187)}
  @@ 187 :> {Do({"sp"}, <<"request_method">>, 3), To(METHOD, 188)}
  @@ 188 :> {Do({"sp"}, <<"request_method">>, 3), To(METHOD, 189)}
  @@ 189 :> {Do({"sp"}, <<"request_method">>, 3), To(METHOD, 190)}

(* method, XML message *)
Http28 ==
     190 :> {Do({"sp"}, <<"request_method">>, 3), To(METHOD, 191)}
  @@ 191 :> {Do({"sp"}, <<"request_method">>, 3), To(METHOD, 192)}
  @@ 192 :> {Do({"sp"}, <<"request_method">>, 3), To(METHOD, 193)}
  @@ 193 :> {Do({"sp"}, <<"request_method">>, 3)}
  @@ 194 :> {To(SEGMENT \ {"!", "(", "+", "more"}, 195)}
  @@ 195 :> {To(SEGMENT \ {"!", "(", "+", "more"}, 195),
             Do({"tab", "LF", "vt", "CR", "sp", "/", ">"}, <<"request_path">>, 196)}
  @@ 196 :> {To(ANY \ {">"}, 196), To({">"}, 197)}
  @@ 197 :> {To(ANY \ {"nul", ">"}, 196), To({">"}, 197),
             Do({"nul"}, <<"xml", "done">>, 349)}

(* XML message, JSON message *)
Http29 ==
     349 :> {}
  @@ 198 :> {Do({"sp"}, <<"request_path">>, 199), To(SEGMENT \cup {"@"}, 202),
             To({"%"}, 203), To({"/"}, 208)}
  @@ 199 :> {Do({"{"}, <<"mark">>, 200)}
  @@ 200 :> {To(ANY \ {"}"}, 200), To({"}"}, 201)}
  @@ 201 :> {To(ANY \ {"nul", "}"}, 200), To({"}"}, 201),
             Do({"nul"}, <<"json", "done">>, 349)}

(* JSON message *)
Http30 ==
     202 :> {Do({"sp"}, <<"request_path">>, 199), To(SEGMENT \cup {"@"}, 202),
             To({"%"}, 203), To({"/"}, 205)}
  @@ 203 :> {To(HEXDIG, 204)}
  @@ 204 :> {To(HEXDIG, 202)}
  @@ 205 :> {Do({"sp"}, <<"request_path">>, 199), To(QUERY \ {"?"}, 205),
             To({"%"}, 206)}
  @@ 206 :> {To(HEXDIG, 207)}
  @@ 207 :> {To(HEXDIG, 205)}

(* JSON message *)
Http31 ==
     208 :> {Do({"sp"}, <<"request_path">>, 199), To(PCHAR, 205),
             To({"%"}, 206), To({"/"}, 209)}
  @@ 209 :> {Do({"sp"}, <<"request_path">>, 199), To({"/"}, 205),
             To(SEGMENT, 210), To({"%"}, 211), To({":"}, 213), To({"@"}, 217),
             To({"["}, 222)}
  @@ 210 :> {Do({"sp"}, <<"request_path">>, 199), To({"/"}, 205),
             To(SEGMENT, 210), To({"%"}, 211), To({":"}, 213), To({"@"}, 217)}

(* JSON message *)
Http32 ==
     211 :> {To(HEXDIG, 212)}
  @@ 212 :> {To(HEXDIG, 210)}
  @@ 213 :> {Do({"sp"}, <<"request_path">>, 199), To({"/"}, 205),
             To(DIGIT, 213),
             To(PCHAR \ {"hi", "0", "1", "2", "3", "5", "@"}, 214),
             To({"%"}, 215), To({"@"}, 217)}
  @@ 214 :> {To(SEGMENT \cup {":"}, 214), To({"%"}, 215), To({"@"}, 217)}
  @@ 215 :> {To(HEXDIG, 216)}

(* JSON message *)
Http33 ==
     216 :> {To(HEXDIG, 214)}
  @@ 217 :> {Do({"sp"}, <<"request_path">>, 199), To({"/"}, 205),
             To(SEGMENT, 218), To({"%"}, 219), To({":"}, 221), To({"["}, 222)}
  @@ 218 :> {Do({"sp"}, <<"request_path">>, 199), To({"/"}, 205),
             To(SEGMENT, 218), To({"%"}, 219), To({":"}, 221)}
  @@ 219 :> {To(HEXDIG, 220)}
  @@ 220 :> {To(HEXDIG, 218)}
  @@ 221 :> {Do({"sp"}, <<"request_path">>, 199), To({"/"}, 205),
             To(DIGIT, 221)}

(* JSON message *)
Http34 ==
     222 :> {To({"x6"}, 223), To(HEXDIG, 266), To({":"}, 342), To({"v"}, 344)}
  @@ 223 :> {To(HEXDIG, 224)}
  @@ 224 :> {To(HEXDIG, 225), To({":"}, 228)}
  @@ 225 :> {To(HEXDIG, 226), To({":"}, 228)}
  @@ 226 :> {To(HEXDIG, 227), To({":"}, 228)}
  @@ 227 :> {To({":"}, 228)}
  @@ 228 :> {To({"0", "3", "5"}, 229), To({"1"}, 259), To({"2"}, 262),
             To({"A", "a"}, 265)}
  @@ 229 :> {To({"."}, 230), To(HEXDIG, 252), To({":"}, 255)}
  @@ 230 :> {To({"0", "3", "5"}, 231), To({"1"}, 247), To({"2"}, 249)}
  @@ 231 :> {To({"."}, 232)}
  @@ 232 :> {To({"0", "3", "5"}, 233), To({"1"}, 242), To({"2"}, 244)}

(* JSON message *)
Http35 ==
     233 :> {To({"."}, 234)}
  @@ 234 :> {To({"0", "3", "5"}, 235), To({"1"}, 237), To({"2"}, 239)}
  @@ 235 :> {To({"]"}, 236)}
  @@ 236 :> {Do({"sp"}, <<"request_path">>, 199), To({"/"}, 205),
             To({":"}, 221)}
  @@ 237 :> {To({"]"}, 236), To(DIGIT, 238)}
  @@ 238 :> {To(DIGIT, 235), To({"]"}, 236)}
  @@ 239 :> {To({"]"}, 236), To({"0"}, 240), To({"5"}, 241)}
  @@ 240 :> {To(DIGIT, 235)}
  @@ 241 :> {To({"0"}, 235)}
  @@ 242 :> {To({"."}, 234), To(DIGIT, 243)}
  @@ 243 :> {To(DIGIT, 233), To({"."}, 234)}
  @@ 244 :> {To({"."}, 234), To({"0"}, 245), To({"5"}, 246)}
  @@ 245 :> {To(DIGIT, 233)}
  @@ 246 :> {To({"0"}, 233)}
  @@ 247 :> {To({"."}, 232), To(DIGIT, 248)}
  @@ 248 :> {To(DIGIT, 231), To({"."}, 232)}
  @@ 249 :> {To({"."}, 232), To({"0"}, 250), To({"5"}, 251)}

(* JSON message *)
Http36 ==
     250 :> {To(DIGIT, 231)}
  @@ 251 :> {To({"0"}, 231)}
  @@ 252 :> {To(HEXDIG, 253), To({":"}, 255)}
  @@ 253 :> {To(HEXDIG, 254), To({":"}, 255)}
  @@ 254 :> {To({":"}, 255)}
  @@ 255 :> {To(HEXDIG, 256)}
  @@ 256 :> {To({"]"}, 236), To(HEXDIG, 257)}
  @@ 257 :> {To({"]"}, 236), To(HEXDIG, 258)}
  @@ 258 :> {To(HEXDIG, 235), To({"]"}, 236)}
  @@ 259 :> {To({"."}, 230), To({"A", "a"}, 252), To({":"}, 255),
             To(DIGIT, 260)}
  @@ 260 :> {To({"."}, 230), To({"A", "a"}, 253), To({":"}, 255),
             To(DIGIT, 261)}

(* JSON message *)
Http37 ==
     261 :> {To({"."}, 230), To(HEXDIG, 254), To({":"}, 255)}
  @@ 262 :> {To({"."}, 230), To(HEXDIG \ {"0", "5"}, 252), To({":"}, 255),
             To({"0"}, 263), To({"5"}, 264)}
  @@ 263 :> {To({"A", "a"}, 253), To({":"}, 255), To(DIGIT, 261)}
  @@ 264 :> {To(HEXDIG \ {"0"}, 253), To({":"}, 255), To({"0"}, 261)}
  @@ 265 :> {To(HEXDIG, 252), To({":"}, 255)}
  @@ 266 :> {To(HEXDIG, 267), To({":"}, 270)}
  @@ 267 :> {To(HEXDIG, 268), To({":"}, 270)}
  @@ 268 :> {To(HEXDIG, 269), To({":"}, 270)}
  @@ 269 :> {To({":"}, 270)}
  @@ 270 :> {To(HEXDIG, 271), To({":"}, 341)}

(* JSON message *)
Http38 ==
     271 :> {To(HEXDIG, 272), To({":"}, 275)}
  @@ 272 :> {To(HEXDIG, 273), To({":"}, 275)}
  @@ 273 :> {To(HEXDIG, 274), To({":"}, 275)}
  @@ 274 :> {To({":"}, 275)}
  @@ 275 :> {To(HEXDIG, 276), To({":"}, 340)}
  @@ 276 :> {To(HEXDIG, 277), To({":"}, 280)}
  @@ 277 :> {To(HEXDIG, 278), To({":"}, 280)}
  @@ 278 :> {To(HEXDIG, 279), To({":"}, 280)}
  @@ 279 :> {To({":"}, 280)}
  @@ 280 :> {To(HEXDIG, 281), To({":"}, 339)}
  @@ 281 :> {To(HEXDIG, 282), To({":"}, 285)}

(* JSON message *)
Http39 ==
     282 :> {To(HEXDIG, 283), To({":"}, 285)}
  @@ 283 :> {To(HEXDIG, 284), To({":"}, 285)}
  @@ 284 :> {To({":"}, 285)}
  @@ 285 :> {To(HEXDIG, 286), To({":"}, 338)}
  @@ 286 :> {To(HEXDIG, 287), To({":"}, 290)}
  @@ 287 :> {To(HEXDIG, 288), To({":"}, 290)}
  @@ 288 :> {To(HEXDIG, 289), To({":"}, 290)}
  @@ 289 :> {To({":"}, 290)}
  @@ 290 :> {To(HEXDIG, 291), To({":"}, 326)}
  @@ 291 :> {To(HEXDIG, 292), To({":"}, 295)}
  @@ 292 :> {To(HEXDIG, 293), To({":"}, 295)}

(* JSON message *)
Http40 ==
     293 :> {To(HEXDIG, 294), To({":"}, 295)}
  @@ 294 :> {To({":"}, 295)}
  @@ 295 :> {To(HEXDIG, 296), To({":"}, 325)}
  @@ 296 :> {To(HEXDIG, 297), To({":"}, 300)}
  @@ 297 :> {To(HEXDIG, 298), To({":"}, 300)}
  @@ 298 :> {To(HEXDIG, 299), To({":"}, 300)}
  @@ 299 :> {To({":"}, 300)}
  @@ 300 :> {To(HEXDIG, 296), To({":"}, 301)}
  @@ 301 :> {To({"x2", "x3"}, 223), To({"]"}, 236), To({"0", "3", "5"}, 302),
             To({"1"}, 318), To({"2"}, 321), To({"A", "a"}, 324)}
  @@ 302 :> {To({"."}, 230), To({"]"}, 236), To(HEXDIG, 303), To({":"}, 306)}

(* JSON message *)
Http41 ==
     303 :> {To({"]"}, 236), To(HEXDIG, 304), To({":"}, 306)}
  @@ 304 :> {To({"]"}, 236), To(HEXDIG, 305), To({":"}, 306)}
  @@ 305 :> {To({"]"}, 236), To({":"}, 306)}
  @@ 306 :> {To({"0", "3", "5"}, 307), To({"1"}, 311), To({"2"}, 314),
             To({"A", "a"}, 317)}
  @@ 307 :> {To({"."}, 230), To({"]"}, 236), To({":"}, 255), To(HEXDIG, 308)}
  @@ 308 :> {To({"]"}, 236), To({":"}, 255), To(HEXDIG, 309)}
  @@ 309 :> {To({"]"}, 236), To({":"}, 255), To(HEXDIG, 310)}
  @@ 310 :> {To({"]"}, 236), To({":"}, 255)}
  @@ 311 :> {To({"."}, 230), To({"]"}, 236), To({":"}, 255),
             To({"A", "a"}, 308), To(DIGIT, 312)}

(* JSON message *)
Http42 ==
     312 :> {To({"."}, 230), To({"]"}, 236), To({":"}, 255),
             To({"A", "a"}, 309), To(DIGIT, 313)}
  @@ 313 :> {To({"."}, 230), To({"]"}, 236), To({":"}, 255), To(HEXDIG, 310)}
  @@ 314 :> {To({"."}, 230), To({"]"}, 236), To({":"}, 255),
             To(HEXDIG \ {"0", "5"}, 308), To({"0"}, 315), To({"5"}, 316)}
  @@ 315 :> {To({"]"}, 236), To({":"}, 255), To({"A", "a"}, 309),
             To(DIGIT, 313)}
  @@ 316 :> {To({"]"}, 236), To({":"}, 255), To(HEXDIG \ {"0"}, 309),
             To({"0"}, 313)}
  @@ 317 :> {To({"]"}, 236), To({":"}, 255), To(HEXDIG, 308)}
  @@ 318 :> {To({"."}, 230), To({"]"}, 236), To({"A", "a"}, 303),
             To({":"}, 306), To(DIGIT, 319)}
  @@ 319 :> {To({"."}, 230), To({"]"}, 236), To({"A", "a"}, 304),
             To({":"}, 306), To(DIGIT, 320)}

(* JSON message *)
Http43 ==
     320 :> {To({"."}, 230), To({"]"}, 236), To(HEXDIG, 305), To({":"}, 306)}
  @@ 321 :> {To({"."}, 230), To({"]"}, 236), To(HEXDIG \ {"0", "5"}, 303),
             To({":"}, 306), To({"0"}, 322), To({"5"}, 323)}
  @@ 322 :> {To({"]"}, 236), To({"A", "a"}, 304), To({":"}, 306),
             To(DIGIT, 320)}
  @@ 323 :> {To({"]"}, 236), To(HEXDIG \ {"0"}, 304), To({":"}, 306),
             To({"0"}, 320)}
  @@ 324 :> {To({"]"}, 236), To(HEXDIG, 303), To({":"}, 306)}
  @@ 325 :> {To({"x2", "x3"}, 223), To({"0", "3", "5"}, 302), To({"1"}, 318),
             To({"2"}, 321), To({"A", "a"}, 324)}
  @@ 326 :> {To({"x2", "x3"}, 223), To({"0", "3", "5"}, 327), To({"1"}, 331),
             To({"2"}, 334), To({"A", "a"}, 337)}
  @@ 327 :> {To({"."}, 230), To({":"}, 306), To(HEXDIG, 328)}

(* JSON message *)
Http44 ==
     328 :> {To({":"}, 306), To(HEXDIG, 329)}
  @@ 329 :> {To({":"}, 306), To(HEXDIG, 330)}
  @@ 330 :> {To({":"}, 306)}
  @@ 331 :> {To({"."}, 230), To({":"}, 306), To({"A", "a"}, 328),
             To(DIGIT, 332)}
  @@ 332 :> {To({"."}, 230), To({":"}, 306), To({"A", "a"}, 329),
             To(DIGIT, 333)}
  @@ 333 :> {To({"."}, 230), To({":"}, 306), To(HEXDIG, 330)}
  @@ 334 :> {To({"."}, 230), To({":"}, 306), To(HEXDIG \ {"0", "5"}, 328),
             To({"0"}, 335), To({"5"}, 336)}
  @@ 335 :> {To({":"}, 306), To({"A", "a"}, 329), To(DIGIT, 333)}
  @@ 336 :> {To({":"}, 306), To(HEXDIG \ {"0"}, 329), To({"0"}, 333)}

(* JSON message *)
Http45 ==
     337 :> {To({":"}, 306), To(HEXDIG, 328)}
  @@ 338 :> {To({"x2", "x3"}, 223), To(HEXDIG, 224)}
  @@ 339 :> {To({"x2", "x3"}, 223)}
  @@ 340 :> {To({"x3"}, 223)}
  @@ 341 :> {To({"x4"}, 223)}
  @@ 342 :> {To({":"}, 343)}
  @@ 343 :> {To({"x2", "x3", "x4", "x5"}, 223), To({"]"}, 236),
             To({"0", "3", "5"}, 302), To({"1"}, 318), To({"2"}, 321),
             To({"A", "a"}, 324)}
  @@ 344 :> {To(HEXDIG, 345)}
  @@ 345 :> {To(HEXDIG, 345), To({"."}, 346)}

(* JSON message *)
Http46 ==
     346 :> {To(SEGMENT \cup {":"}, 347)}
  @@ 347 :> {To({"]"}, 236), To(SEGMENT \cup {":"}, 347)}

HttpTable ==
     Http1 @@ Http2 @@ Http3 @@ Http4 @@ Http5 @@ Http6 @@ Http7 @@ Http8
  @@ Http9 @@ Http10 @@ Http11 @@ Http12 @@ Http13 @@ Http14 @@ Http15 @@ Http16
  @@ Http17 @@ Http18 @@ Http19 @@ Http20 @@ Http21 @@ Http22 @@ Http23 @@ Http24
  @@ Http25 @@ Http26 @@ Http27 @@ Http28 @@ Http29 @@ Http30 @@ Http31 @@ Http32
  @@ Http33 @@ Http34 @@ Http35 @@ Http36 @@ Http37 @@ Http38 @@ Http39 @@ Http40
  @@ Http41 @@ Http42 @@ Http43 @@ Http44 @@ Http45 @@ Http46
=============================================================================
