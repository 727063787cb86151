------------------------------ MODULE UriTable ------------------------------
(***************************************************************************)
(* The state machine of Uri::Create (uri.rl.cc): the code Ragel generated  *)
(* from uri.rl, one entry per "case N:" of its switch.  An entry is the    *)
(* set of edges the code tests for in that state; a character on no edge   *)
(* goes to the error state 0.  Uri.tla gives the edges their meaning.      *)
(*                                                                         *)
(* Characters are the 23 classes the code tells apart, named by one        *)
(* member.  The members not spelled by their name:                         *)
(*   "!"   ! $ & ' ( ) * , ; = _ ~      "+"   + -                          *)
(*   "3"   3 4                          "6"   6 7 8 9                      *)
(*   "a"   a-f A-F                      "g"   the letters not in "a", "v"  *)
(*   "hi"  the bytes outside ASCII      "ctl" the byte 2                   *)
(*   "bad" the other control characters, space and " < > \ ^ ` { | }       *)
(***************************************************************************)
EXTENDS Ragel

UriChar == {"hi", "bad", "ctl", "!", "#", "%", "+", ".", "/", "0", "1", "2",
            "3", "5", "6", ":", "?", "@", "a", "g", "[", "]", "v"}

Digit == {"0", "1", "2", "3", "5", "6"}
HexDigit == Digit \cup {"a"}
Alpha == {"a", "g", "v"}
RegName == Digit \cup Alpha \cup {"!", "+", "."}
UserInfo == RegName \cup {":"}
Pchar == UserInfo \cup {"@", "hi"}
QueryChar == Pchar \cup {"/", "?"}

(***************************************************************************)
(* The states in the order of the source.                                  *)
(***************************************************************************)
(* start, leading segment or scheme *)
Uri1 ==
     451 :> {To({"%"}, 3), To(Pchar \ {":", "a", "g", "v"}, 452),
             To({"#"}, 453), To({"?"}, 456), To({"/"}, 458),
             Do(Alpha, <<"marku">>, 508)}
  @@ 452 :> {To({"%"}, 3), To(Pchar \ {":"}, 452), To({"#"}, 453),
             To({"/"}, 455), To({"?"}, 456)}

(* fragment *)
Uri2 ==
     453 :> {Do({"%"}, <<"marku">>, 1), Do(QueryChar, <<"marku">>, 454)}

(* leading segment or scheme, path, fragment *)
Uri3 ==
     454 :> {To({"%"}, 1), To(QueryChar, 454)}
  @@   1 :> {To(HexDigit, 2)}
  @@   2 :> {To(HexDigit, 454)}
  @@   3 :> {To(HexDigit, 4)}
  @@   4 :> {To(HexDigit, 452)}
  @@ 455 :> {To({"%"}, 5), To({"#"}, 453), To(Pchar \cup {"/"}, 455),
             To({"?"}, 456)}

(* path *)
Uri4 ==
       5 :> {To(HexDigit, 6)}
  @@   6 :> {To(HexDigit, 455)}

(* query *)
Uri5 ==
     456 :> {Do({"%"}, <<"marku">>, 7),
             Do({"#"}, <<"marku", "save_query">>, 453),
             Do(QueryChar, <<"marku">>, 457)}

(* after one "/", authority, query *)
Uri6 ==
     457 :> {To({"%"}, 7), Do({"#"}, <<"save_query">>, 453), To(QueryChar, 457)}
  @@   7 :> {To(HexDigit, 8)}
  @@   8 :> {To(HexDigit, 457)}
  @@ 458 :> {To({"%"}, 5), To({"#"}, 453), To(Pchar, 455), To({"?"}, 456),
             To({"/"}, 459)}
  @@ 459 :> {Do({"ctl"}, <<"markh">>, 9), Do({"%"}, <<"markh">>, 31),
             Do({"["}, <<"markh">>, 38),
             Do({"#"}, <<"markh", "save_host">>, 453),
             Do({"/"}, <<"markh", "save_host">>, 455),
             Do({"?"}, <<"markh", "save_host">>, 456),
             Do(Alpha \cup {"!", "+", "."}, <<"markh">>, 467),
             Do({":"}, <<"markh", "save_host">>, 468),
             Do({"@"}, <<"markh", "save_userinfo">>, 469),
             Do({"0"}, <<"markh">>, 490), Do({"1"}, <<"markh">>, 504),
             Do({"3", "5", "6"}, <<"markh">>, 505), Do({"2"}, <<"markh">>, 506)}
  @@   9 :> {To(Digit \ {"5", "6"}, 10)}
  @@  10 :> {To(Digit, 11)}
  @@  11 :> {To({"."}, 12)}

(* authority *)
Uri7 ==
      12 :> {To({"ctl"}, 13), To({"0"}, 15), To({"1"}, 27),
             To({"3", "5", "6"}, 28), To({"2"}, 29)}
  @@  13 :> {To(Digit \ {"5", "6"}, 14)}
  @@  14 :> {To(Digit, 15)}
  @@  15 :> {To({"."}, 16)}
  @@  16 :> {To({"ctl"}, 17), To({"0"}, 19), To({"1"}, 23),
             To({"3", "5", "6"}, 24), To({"2"}, 25)}
  @@  17 :> {To(Digit \ {"5", "6"}, 18)}
  @@  18 :> {To(Digit, 19)}
  @@  19 :> {To({"."}, 20)}
  @@  20 :> {To({"ctl"}, 21), To({"0"}, 460), To({"1"}, 463),
             To({"3", "5", "6"}, 464), To({"2"}, 465)}
  @@  21 :> {To(Digit \ {"5", "6"}, 22)}
  @@  22 :> {To(Digit, 460)}
  @@ 460 :> {Do({"#"}, <<"save_host">>, 453), Do({"/"}, <<"save_host">>, 455),
             Do({"?"}, <<"save_host">>, 456), Do({":"}, <<"save_host">>, 461)}
  @@ 461 :> {Do({"#"}, <<"markh", "save_port">>, 453),
             Do({"/"}, <<"markh", "save_port">>, 455),
             Do({"?"}, <<"markh", "save_port">>, 456),
             Do(Digit, <<"markh">>, 462)}

(* authority *)
Uri8 ==
     462 :> {Do({"#"}, <<"save_port">>, 453), Do({"/"}, <<"save_port">>, 455),
             Do({"?"}, <<"save_port">>, 456), To(Digit, 462)}
  @@ 463 :> {Do({"#"}, <<"save_host">>, 453), Do({"/"}, <<"save_host">>, 455),
             Do({"?"}, <<"save_host">>, 456), Do({":"}, <<"save_host">>, 461),
             To(Digit, 464)}
  @@ 464 :> {Do({"#"}, <<"save_host">>, 453), Do({"/"}, <<"save_host">>, 455),
             Do({"?"}, <<"save_host">>, 456), To(Digit, 460),
             Do({":"}, <<"save_host">>, 461)}
  @@ 465 :> {Do({"#"}, <<"save_host">>, 453), Do({"/"}, <<"save_host">>, 455),
             Do({"?"}, <<"save_host">>, 456), To(Digit \ {"5"}, 460),
             Do({":"}, <<"save_host">>, 461), To({"5"}, 466)}
  @@ 466 :> {Do({"#"}, <<"save_host">>, 453), Do({"/"}, <<"save_host">>, 455),
             Do({"?"}, <<"save_host">>, 456), To(Digit \ {"6"}, 460),
             Do({":"}, <<"save_host">>, 461)}
  @@  23 :> {To({"."}, 20), To(Digit, 24)}
  @@  24 :> {To(Digit, 19), To({"."}, 20)}
  @@  25 :> {To(Digit \ {"5"}, 19), To({"."}, 20), To({"5"}, 26)}
  @@  26 :> {To(Digit \ {"6"}, 19), To({"."}, 20)}
  @@  27 :> {To({"."}, 16), To(Digit, 28)}
  @@  28 :> {To(Digit, 15), To({"."}, 16)}
  @@  29 :> {To(Digit \ {"5"}, 15), To({"."}, 16), To({"5"}, 30)}
  @@  30 :> {To(Digit \ {"6"}, 15), To({"."}, 16)}

(* authority *)
Uri9 ==
     467 :> {To({"%"}, 31), Do({"#"}, <<"save_host">>, 453),
             Do({"/"}, <<"save_host">>, 455), Do({"?"}, <<"save_host">>, 456),
             To(RegName, 467), Do({":"}, <<"save_host">>, 468),
             Do({"@"}, <<"save_userinfo">>, 469)}
  @@  31 :> {To(HexDigit, 32)}
  @@  32 :> {To(HexDigit, 467)}
  @@ 468 :> {To(Alpha \cup {"!", "+", ".", ":"}, 33), To({"%"}, 34),
             Do({"#"}, <<"markh", "save_port">>, 453),
             Do({"/"}, <<"markh", "save_port">>, 455),
             Do({"?"}, <<"markh", "save_port">>, 456),
             Do({"@"}, <<"save_userinfo">>, 469), Do(Digit, <<"markh">>, 489)}
  @@  33 :> {To(UserInfo, 33), To({"%"}, 34),
             Do({"@"}, <<"save_userinfo">>, 469)}
  @@  34 :> {To(HexDigit, 35)}

(* authority *)
Uri10 ==
      35 :> {To(HexDigit, 33)}
  @@ 469 :> {Do({"ctl"}, <<"markh">>, 9), Do({"%"}, <<"markh">>, 36),
             Do({"["}, <<"markh">>, 38),
             Do({"#"}, <<"markh", "save_host">>, 453),
             Do({"/"}, <<"markh", "save_host">>, 455),
             Do({"?"}, <<"markh", "save_host">>, 456),
             Do({":"}, <<"markh", "save_host">>, 461),
             Do(Alpha \cup {"!", "+", "."}, <<"markh">>, 470),
             Do({"0"}, <<"markh">>, 471), Do({"1"}, <<"markh">>, 485),
             Do({"3", "5", "6"}, <<"markh">>, 486), Do({"2"}, <<"markh">>, 487)}
  @@ 470 :> {To({"%"}, 36), Do({"#"}, <<"save_host">>, 453),
             Do({"/"}, <<"save_host">>, 455), Do({"?"}, <<"save_host">>, 456),
             Do({":"}, <<"save_host">>, 461), To(RegName, 470)}
  @@  36 :> {To(HexDigit, 37)}
  @@  37 :> {To(HexDigit, 470)}

(* authority *)
Uri11 ==
     471 :> {To({"%"}, 36), Do({"#"}, <<"save_host">>, 453),
             Do({"/"}, <<"save_host">>, 455), Do({"?"}, <<"save_host">>, 456),
             Do({":"}, <<"save_host">>, 461), To(RegName \ {"."}, 470),
             To({"."}, 472)}
  @@ 472 :> {To({"ctl"}, 13), To({"%"}, 36), Do({"#"}, <<"save_host">>, 453),
             Do({"/"}, <<"save_host">>, 455), Do({"?"}, <<"save_host">>, 456),
             Do({":"}, <<"save_host">>, 461),
             To(Alpha \cup {"!", "+", "."}, 470), To({"0"}, 473),
             To({"1"}, 481), To({"3", "5", "6"}, 482), To({"2"}, 483)}
  @@ 473 :> {To({"%"}, 36), Do({"#"}, <<"save_host">>, 453),
             Do({"/"}, <<"save_host">>, 455), Do({"?"}, <<"save_host">>, 456),
             Do({":"}, <<"save_host">>, 461), To(RegName \ {"."}, 470),
             To({"."}, 474)}
  @@ 474 :> {To({"ctl"}, 17), To({"%"}, 36), Do({"#"}, <<"save_host">>, 453),
             Do({"/"}, <<"save_host">>, 455), Do({"?"}, <<"save_host">>, 456),
             Do({":"}, <<"save_host">>, 461),
             To(Alpha \cup {"!", "+", "."}, 470), To({"0"}, 475),
             To({"1"}, 477), To({"3", "5", "6"}, 478), To({"2"}, 479)}
  @@ 475 :> {To({"%"}, 36), Do({"#"}, <<"save_host">>, 453),
             Do({"/"}, <<"save_host">>, 455), Do({"?"}, <<"save_host">>, 456),
             Do({":"}, <<"save_host">>, 461), To(RegName \ {"."}, 470),
             To({"."}, 476)}

(* authority *)
Uri12 ==
     476 :> {To({"ctl"}, 21), To({"%"}, 36), Do({"#"}, <<"save_host">>, 453),
             Do({"/"}, <<"save_host">>, 455), Do({"?"}, <<"save_host">>, 456),
             Do({":"}, <<"save_host">>, 461), To(RegName, 470)}
  @@ 477 :> {To({"%"}, 36), Do({"#"}, <<"save_host">>, 453),
             Do({"/"}, <<"save_host">>, 455), Do({"?"}, <<"save_host">>, 456),
             Do({":"}, <<"save_host">>, 461), To(Alpha \cup {"!", "+"}, 470),
             To({"."}, 476), To(Digit, 478)}
  @@ 478 :> {To({"%"}, 36), Do({"#"}, <<"save_host">>, 453),
             Do({"/"}, <<"save_host">>, 455), Do({"?"}, <<"save_host">>, 456),
             Do({":"}, <<"save_host">>, 461), To(Alpha \cup {"!", "+"}, 470),
             To(Digit, 475), To({"."}, 476)}
  @@ 479 :> {To({"%"}, 36), Do({"#"}, <<"save_host">>, 453),
             Do({"/"}, <<"save_host">>, 455), Do({"?"}, <<"save_host">>, 456),
             Do({":"}, <<"save_host">>, 461), To(Alpha \cup {"!", "+"}, 470),
             To(Digit \ {"5"}, 475), To({"."}, 476), To({"5"}, 480)}
  @@ 480 :> {To({"%"}, 36), Do({"#"}, <<"save_host">>, 453),
             Do({"/"}, <<"save_host">>, 455), Do({"?"}, <<"save_host">>, 456),
             Do({":"}, <<"save_host">>, 461),
             To(Alpha \cup {"!", "+", "6"}, 470), To(Digit \ {"6"}, 475),
             To({"."}, 476)}

(* authority *)
Uri13 ==
     481 :> {To({"%"}, 36), Do({"#"}, <<"save_host">>, 453),
             Do({"/"}, <<"save_host">>, 455), Do({"?"}, <<"save_host">>, 456),
             Do({":"}, <<"save_host">>, 461), To(Alpha \cup {"!", "+"}, 470),
             To({"."}, 474), To(Digit, 482)}
  @@ 482 :> {To({"%"}, 36), Do({"#"}, <<"save_host">>, 453),
             Do({"/"}, <<"save_host">>, 455), Do({"?"}, <<"save_host">>, 456),
             Do({":"}, <<"save_host">>, 461), To(Alpha \cup {"!", "+"}, 470),
             To(Digit, 473), To({"."}, 474)}
  @@ 483 :> {To({"%"}, 36), Do({"#"}, <<"save_host">>, 453),
             Do({"/"}, <<"save_host">>, 455), Do({"?"}, <<"save_host">>, 456),
             Do({":"}, <<"save_host">>, 461), To(Alpha \cup {"!", "+"}, 470),
             To(Digit \ {"5"}, 473), To({"."}, 474), To({"5"}, 484)}
  @@ 484 :> {To({"%"}, 36), Do({"#"}, <<"save_host">>, 453),
             Do({"/"}, <<"save_host">>, 455), Do({"?"}, <<"save_host">>, 456),
             Do({":"}, <<"save_host">>, 461),
             To(Alpha \cup {"!", "+", "6"}, 470), To(Digit \ {"6"}, 473),
             To({"."}, 474)}

(* authority *)
Uri14 ==
     485 :> {To({"%"}, 36), Do({"#"}, <<"save_host">>, 453),
             Do({"/"}, <<"save_host">>, 455), Do({"?"}, <<"save_host">>, 456),
             Do({":"}, <<"save_host">>, 461), To(Alpha \cup {"!", "+"}, 470),
             To({"."}, 472), To(Digit, 486)}
  @@ 486 :> {To({"%"}, 36), Do({"#"}, <<"save_host">>, 453),
             Do({"/"}, <<"save_host">>, 455), Do({"?"}, <<"save_host">>, 456),
             Do({":"}, <<"save_host">>, 461), To(Alpha \cup {"!", "+"}, 470),
             To(Digit, 471), To({"."}, 472)}
  @@ 487 :> {To({"%"}, 36), Do({"#"}, <<"save_host">>, 453),
             Do({"/"}, <<"save_host">>, 455), Do({"?"}, <<"save_host">>, 456),
             Do({":"}, <<"save_host">>, 461), To(Alpha \cup {"!", "+"}, 470),
             To(Digit \ {"5"}, 471), To({"."}, 472), To({"5"}, 488)}
  @@ 488 :> {To({"%"}, 36), Do({"#"}, <<"save_host">>, 453),
             Do({"/"}, <<"save_host">>, 455), Do({"?"}, <<"save_host">>, 456),
             Do({":"}, <<"save_host">>, 461),
             To(Alpha \cup {"!", "+", "6"}, 470), To(Digit \ {"6"}, 471),
             To({"."}, 472)}

(* IP literal *)
Uri15 ==
      38 :> {To(HexDigit, 39), To({":"}, 146), To({"v"}, 225)}
  @@  39 :> {To(HexDigit, 40), To({":"}, 43)}
  @@  40 :> {To(HexDigit, 41), To({":"}, 43)}
  @@  41 :> {To(HexDigit, 42), To({":"}, 43)}
  @@  42 :> {To({":"}, 43)}
  @@  43 :> {To(HexDigit, 44), To({":"}, 141)}
  @@  44 :> {To(HexDigit, 45), To({":"}, 48)}
  @@  45 :> {To(HexDigit, 46), To({":"}, 48)}
  @@  46 :> {To(HexDigit, 47), To({":"}, 48)}
  @@  47 :> {To({":"}, 48)}

(* IP literal *)
Uri16 ==
      48 :> {To(HexDigit, 49), To({":"}, 136)}
  @@  49 :> {To(HexDigit, 50), To({":"}, 53)}
  @@  50 :> {To(HexDigit, 51), To({":"}, 53)}
  @@  51 :> {To(HexDigit, 52), To({":"}, 53)}
  @@  52 :> {To({":"}, 53)}
  @@  53 :> {To(HexDigit, 54), To({":"}, 131)}
  @@  54 :> {To(HexDigit, 55), To({":"}, 58)}
  @@  55 :> {To(HexDigit, 56), To({":"}, 58)}
  @@  56 :> {To(HexDigit, 57), To({":"}, 58)}
  @@  57 :> {To({":"}, 58)}
  @@  58 :> {To(HexDigit, 59), To({":"}, 126)}

(* IP literal *)
Uri17 ==
      59 :> {To(HexDigit, 60), To({":"}, 63)}
  @@  60 :> {To(HexDigit, 61), To({":"}, 63)}
  @@  61 :> {To(HexDigit, 62), To({":"}, 63)}
  @@  62 :> {To({":"}, 63)}
  @@  63 :> {To(HexDigit, 64), To({":"}, 113)}
  @@  64 :> {To(HexDigit, 65), To({":"}, 68)}
  @@  65 :> {To(HexDigit, 66), To({":"}, 68)}
  @@  66 :> {To(HexDigit, 67), To({":"}, 68)}
  @@  67 :> {To({":"}, 68)}
  @@  68 :> {To({"ctl"}, 69), To({"0"}, 96), To({"1"}, 104), To({"2"}, 107),
             To({"3", "5", "6"}, 110), To({":"}, 111), To({"a"}, 112)}
  @@  69 :> {To(Digit \ {"5", "6"}, 70)}

(* IP literal *)
Uri18 ==
      70 :> {To(Digit, 71)}
  @@  71 :> {To({"."}, 72)}
  @@  72 :> {To({"ctl"}, 73), To({"0"}, 75), To({"1"}, 92),
             To({"3", "5", "6"}, 93), To({"2"}, 94)}
  @@  73 :> {To(Digit \ {"5", "6"}, 74)}
  @@  74 :> {To(Digit, 75)}
  @@  75 :> {To({"."}, 76)}
  @@  76 :> {To({"ctl"}, 77), To({"0"}, 79), To({"1"}, 88),
             To({"3", "5", "6"}, 89), To({"2"}, 90)}
  @@  77 :> {To(Digit \ {"5", "6"}, 78)}
  @@  78 :> {To(Digit, 79)}
  @@  79 :> {To({"."}, 80)}
  @@  80 :> {To({"ctl"}, 81), To({"0"}, 83), To({"1"}, 84),
             To({"3", "5", "6"}, 85), To({"2"}, 86)}
  @@  81 :> {To(Digit \ {"5", "6"}, 82)}
  @@  82 :> {To(Digit, 83)}
  @@  83 :> {To({"]"}, 460)}
  @@  84 :> {To(Digit, 85), To({"]"}, 460)}
  @@  85 :> {To(Digit, 83), To({"]"}, 460)}
  @@  86 :> {To(Digit \ {"5"}, 83), To({"5"}, 87), To({"]"}, 460)}

(* IP literal *)
Uri19 ==
      87 :> {To(Digit \ {"6"}, 83), To({"]"}, 460)}
  @@  88 :> {To({"."}, 80), To(Digit, 89)}
  @@  89 :> {To(Digit, 79), To({"."}, 80)}
  @@  90 :> {To(Digit \ {"5"}, 79), To({"."}, 80), To({"5"}, 91)}
  @@  91 :> {To(Digit \ {"6"}, 79), To({"."}, 80)}
  @@  92 :> {To({"."}, 76), To(Digit, 93)}
  @@  93 :> {To(Digit, 75), To({"."}, 76)}
  @@  94 :> {To(Digit \ {"5"}, 75), To({"."}, 76), To({"5"}, 95)}
  @@  95 :> {To(Digit \ {"6"}, 75), To({"."}, 76)}
  @@  96 :> {To({"."}, 72), To(HexDigit, 97), To({":"}, 100)}
  @@  97 :> {To(HexDigit, 98), To({":"}, 100)}
  @@  98 :> {To(HexDigit, 99), To({":"}, 100)}
  @@  99 :> {To({":"}, 100)}

(* IP literal *)
Uri20 ==
     100 :> {To({":"}, 83), To(HexDigit, 101)}
  @@ 101 :> {To(HexDigit, 102), To({"]"}, 460)}
  @@ 102 :> {To(HexDigit, 103), To({"]"}, 460)}
  @@ 103 :> {To(HexDigit, 83), To({"]"}, 460)}
  @@ 104 :> {To({"."}, 72), To({"a"}, 97), To({":"}, 100), To(Digit, 105)}
  @@ 105 :> {To({"."}, 72), To({"a"}, 98), To({":"}, 100), To(Digit, 106)}
  @@ 106 :> {To({"."}, 72), To(HexDigit, 99), To({":"}, 100)}
  @@ 107 :> {To({"."}, 72), To({"a"}, 97), To({":"}, 100),
             To(Digit \ {"5"}, 108), To({"5"}, 109)}
  @@ 108 :> {To({"."}, 72), To(HexDigit, 98), To({":"}, 100)}

(* IP literal *)
Uri21 ==
     109 :> {To({"."}, 72), To({"6", "a"}, 98), To({":"}, 100),
             To(Digit \ {"6"}, 106)}
  @@ 110 :> {To({"."}, 72), To({"a"}, 97), To({":"}, 100), To(Digit, 108)}
  @@ 111 :> {To(HexDigit, 101)}
  @@ 112 :> {To(HexDigit, 97), To({":"}, 100)}
  @@ 113 :> {To({"ctl"}, 69), To({"0"}, 114), To({"1"}, 118), To({"2"}, 121),
             To({"3", "5", "6"}, 124), To({"a"}, 125)}
  @@ 114 :> {To({"."}, 72), To({":"}, 111), To(HexDigit, 115)}
  @@ 115 :> {To({":"}, 111), To(HexDigit, 116)}
  @@ 116 :> {To({":"}, 111), To(HexDigit, 117)}
  @@ 117 :> {To({":"}, 111)}

(* IP literal *)
Uri22 ==
     118 :> {To({"."}, 72), To({":"}, 111), To({"a"}, 115), To(Digit, 119)}
  @@ 119 :> {To({"."}, 72), To({":"}, 111), To({"a"}, 116), To(Digit, 120)}
  @@ 120 :> {To({"."}, 72), To({":"}, 111), To(HexDigit, 117)}
  @@ 121 :> {To({"."}, 72), To({":"}, 111), To({"a"}, 115),
             To(Digit \ {"5"}, 122), To({"5"}, 123)}
  @@ 122 :> {To({"."}, 72), To({":"}, 111), To(HexDigit, 116)}
  @@ 123 :> {To({"."}, 72), To({":"}, 111), To({"6", "a"}, 116),
             To(Digit \ {"6"}, 120)}
  @@ 124 :> {To({"."}, 72), To({":"}, 111), To({"a"}, 115), To(Digit, 122)}
  @@ 125 :> {To({":"}, 111), To(HexDigit, 115)}

(* IP literal *)
Uri23 ==
     126 :> {To(HexDigit, 127)}
  @@ 127 :> {To({":"}, 113), To(HexDigit, 128)}
  @@ 128 :> {To({":"}, 113), To(HexDigit, 129)}
  @@ 129 :> {To({":"}, 113), To(HexDigit, 130)}
  @@ 130 :> {To({":"}, 113)}
  @@ 131 :> {To(HexDigit, 132)}
  @@ 132 :> {To({":"}, 126), To(HexDigit, 133)}
  @@ 133 :> {To({":"}, 126), To(HexDigit, 134)}
  @@ 134 :> {To({":"}, 126), To(HexDigit, 135)}
  @@ 135 :> {To({":"}, 126)}
  @@ 136 :> {To(HexDigit, 137)}

(* IP literal *)
Uri24 ==
     137 :> {To({":"}, 131), To(HexDigit, 138)}
  @@ 138 :> {To({":"}, 131), To(HexDigit, 139)}
  @@ 139 :> {To({":"}, 131), To(HexDigit, 140)}
  @@ 140 :> {To({":"}, 131)}
  @@ 141 :> {To(HexDigit, 142)}
  @@ 142 :> {To({":"}, 136), To(HexDigit, 143)}
  @@ 143 :> {To({":"}, 136), To(HexDigit, 144)}
  @@ 144 :> {To({":"}, 136), To(HexDigit, 145)}
  @@ 145 :> {To({":"}, 136)}
  @@ 146 :> {To({":"}, 147)}
  @@ 147 :> {To({"ctl"}, 69), To({"0"}, 148), To({"1"}, 217), To({"2"}, 220),
             To({"3", "5", "6"}, 223), To({"a"}, 224), To({"]"}, 460)}

(* IP literal *)
Uri25 ==
     148 :> {To({"."}, 72), To(HexDigit, 149), To({":"}, 152), To({"]"}, 460)}
  @@ 149 :> {To(HexDigit, 150), To({":"}, 152), To({"]"}, 460)}
  @@ 150 :> {To(HexDigit, 151), To({":"}, 152), To({"]"}, 460)}
  @@ 151 :> {To({":"}, 152), To({"]"}, 460)}
  @@ 152 :> {To({"ctl"}, 69), To({"0"}, 153), To({"1"}, 209), To({"2"}, 212),
             To({"3", "5", "6"}, 215), To({"a"}, 216)}
  @@ 153 :> {To({"."}, 72), To(HexDigit, 154), To({":"}, 157), To({"]"}, 460)}
  @@ 154 :> {To(HexDigit, 155), To({":"}, 157), To({"]"}, 460)}
  @@ 155 :> {To(HexDigit, 156), To({":"}, 157), To({"]"}, 460)}
  @@ 156 :> {To({":"}, 157), To({"]"}, 460)}

(* IP literal *)
Uri26 ==
     157 :> {To({"ctl"}, 69), To({"0"}, 158), To({"1"}, 201), To({"2"}, 204),
             To({"3", "5", "6"}, 207), To({"a"}, 208)}
  @@ 158 :> {To({"."}, 72), To(HexDigit, 159), To({":"}, 162), To({"]"}, 460)}
  @@ 159 :> {To(HexDigit, 160), To({":"}, 162), To({"]"}, 460)}
  @@ 160 :> {To(HexDigit, 161), To({":"}, 162), To({"]"}, 460)}
  @@ 161 :> {To({":"}, 162), To({"]"}, 460)}
  @@ 162 :> {To({"ctl"}, 69), To({"0"}, 163), To({"1"}, 193), To({"2"}, 196),
             To({"3", "5", "6"}, 199), To({"a"}, 200)}
  @@ 163 :> {To({"."}, 72), To(HexDigit, 164), To({":"}, 167), To({"]"}, 460)}
  @@ 164 :> {To(HexDigit, 165), To({":"}, 167), To({"]"}, 460)}

(* IP literal *)
Uri27 ==
     165 :> {To(HexDigit, 166), To({":"}, 167), To({"]"}, 460)}
  @@ 166 :> {To({":"}, 167), To({"]"}, 460)}
  @@ 167 :> {To({"ctl"}, 69), To({"0"}, 168), To({"1"}, 185), To({"2"}, 188),
             To({"3", "5", "6"}, 191), To({"a"}, 192)}
  @@ 168 :> {To({"."}, 72), To(HexDigit, 169), To({":"}, 172), To({"]"}, 460)}
  @@ 169 :> {To(HexDigit, 170), To({":"}, 172), To({"]"}, 460)}
  @@ 170 :> {To(HexDigit, 171), To({":"}, 172), To({"]"}, 460)}
  @@ 171 :> {To({":"}, 172), To({"]"}, 460)}
  @@ 172 :> {To({"ctl"}, 69), To({"0"}, 173), To({"1"}, 177), To({"2"}, 180),
             To({"3", "5", "6"}, 183), To({"a"}, 184)}
  @@ 173 :> {To({"."}, 72), To({":"}, 111), To(HexDigit, 174), To({"]"}, 460)}

(* IP literal *)
Uri28 ==
     174 :> {To({":"}, 111), To(HexDigit, 175), To({"]"}, 460)}
  @@ 175 :> {To({":"}, 111), To(HexDigit, 176), To({"]"}, 460)}
  @@ 176 :> {To({":"}, 111), To({"]"}, 460)}
  @@ 177 :> {To({"."}, 72), To({":"}, 111), To({"a"}, 174), To(Digit, 178),
             To({"]"}, 460)}
  @@ 178 :> {To({"."}, 72), To({":"}, 111), To({"a"}, 175), To(Digit, 179),
             To({"]"}, 460)}
  @@ 179 :> {To({"."}, 72), To({":"}, 111), To(HexDigit, 176), To({"]"}, 460)}
  @@ 180 :> {To({"."}, 72), To({":"}, 111), To({"a"}, 174),
             To(Digit \ {"5"}, 181), To({"5"}, 182), To({"]"}, 460)}
  @@ 181 :> {To({"."}, 72), To({":"}, 111), To(HexDigit, 175), To({"]"}, 460)}

(* IP literal *)
Uri29 ==
     182 :> {To({"."}, 72), To({":"}, 111), To({"6", "a"}, 175),
             To(Digit \ {"6"}, 179), To({"]"}, 460)}
  @@ 183 :> {To({"."}, 72), To({":"}, 111), To({"a"}, 174), To(Digit, 181),
             To({"]"}, 460)}
  @@ 184 :> {To({":"}, 111), To(HexDigit, 174), To({"]"}, 460)}
  @@ 185 :> {To({"."}, 72), To({"a"}, 169), To({":"}, 172), To(Digit, 186),
             To({"]"}, 460)}
  @@ 186 :> {To({"."}, 72), To({"a"}, 170), To({":"}, 172), To(Digit, 187),
             To({"]"}, 460)}
  @@ 187 :> {To({"."}, 72), To(HexDigit, 171), To({":"}, 172), To({"]"}, 460)}
  @@ 188 :> {To({"."}, 72), To({"a"}, 169), To({":"}, 172),
             To(Digit \ {"5"}, 189), To({"5"}, 190), To({"]"}, 460)}
  @@ 189 :> {To({"."}, 72), To(HexDigit, 170), To({":"}, 172), To({"]"}, 460)}

(* IP literal *)
Uri30 ==
     190 :> {To({"."}, 72), To({"6", "a"}, 170), To({":"}, 172),
             To(Digit \ {"6"}, 187), To({"]"}, 460)}
  @@ 191 :> {To({"."}, 72), To({"a"}, 169), To({":"}, 172), To(Digit, 189),
             To({"]"}, 460)}
  @@ 192 :> {To(HexDigit, 169), To({":"}, 172), To({"]"}, 460)}
  @@ 193 :> {To({"."}, 72), To({"a"}, 164), To({":"}, 167), To(Digit, 194),
             To({"]"}, 460)}
  @@ 194 :> {To({"."}, 72), To({"a"}, 165), To({":"}, 167), To(Digit, 195),
             To({"]"}, 460)}
  @@ 195 :> {To({"."}, 72), To(HexDigit, 166), To({":"}, 167), To({"]"}, 460)}
  @@ 196 :> {To({"."}, 72), To({"a"}, 164), To({":"}, 167),
             To(Digit \ {"5"}, 197), To({"5"}, 198), To({"]"}, 460)}
  @@ 197 :> {To({"."}, 72), To(HexDigit, 165), To({":"}, 167), To({"]"}, 460)}

(* IP literal *)
Uri31 ==
     198 :> {To({"."}, 72), To({"6", "a"}, 165), To({":"}, 167),
             To(Digit \ {"6"}, 195), To({"]"}, 460)}
  @@ 199 :> {To({"."}, 72), To({"a"}, 164), To({":"}, 167), To(Digit, 197),
             To({"]"}, 460)}
  @@ 200 :> {To(HexDigit, 164), To({":"}, 167), To({"]"}, 460)}
  @@ 201 :> {To({"."}, 72), To({"a"}, 159), To({":"}, 162), To(Digit, 202),
             To({"]"}, 460)}
  @@ 202 :> {To({"."}, 72), To({"a"}, 160), To({":"}, 162), To(Digit, 203),
             To({"]"}, 460)}
  @@ 203 :> {To({"."}, 72), To(HexDigit, 161), To({":"}, 162), To({"]"}, 460)}
  @@ 204 :> {To({"."}, 72), To({"a"}, 159), To({":"}, 162),
             To(Digit \ {"5"}, 205), To({"5"}, 206), To({"]"}, 460)}
  @@ 205 :> {To({"."}, 72), To(HexDigit, 160), To({":"}, 162), To({"]"}, 460)}

(* IP literal *)
Uri32 ==
     206 :> {To({"."}, 72), To({"6", "a"}, 160), To({":"}, 162),
             To(Digit \ {"6"}, 203), To({"]"}, 460)}
  @@ 207 :> {To({"."}, 72), To({"a"}, 159), To({":"}, 162), To(Digit, 205),
             To({"]"}, 460)}
  @@ 208 :> {To(HexDigit, 159), To({":"}, 162), To({"]"}, 460)}
  @@ 209 :> {To({"."}, 72), To({"a"}, 154), To({":"}, 157), To(Digit, 210),
             To({"]"}, 460)}
  @@ 210 :> {To({"."}, 72), To({"a"}, 155), To({":"}, 157), To(Digit, 211),
             To({"]"}, 460)}
  @@ 211 :> {To({"."}, 72), To(HexDigit, 156), To({":"}, 157), To({"]"}, 460)}
  @@ 212 :> {To({"."}, 72), To({"a"}, 154), To({":"}, 157),
             To(Digit \ {"5"}, 213), To({"5"}, 214), To({"]"}, 460)}
  @@ 213 :> {To({"."}, 72), To(HexDigit, 155), To({":"}, 157), To({"]"}, 460)}

(* IP literal *)
Uri33 ==
     214 :> {To({"."}, 72), To({"6", "a"}, 155), To({":"}, 157),
             To(Digit \ {"6"}, 211), To({"]"}, 460)}
  @@ 215 :> {To({"."}, 72), To({"a"}, 154), To({":"}, 157), To(Digit, 213),
             To({"]"}, 460)}
  @@ 216 :> {To(HexDigit, 154), To({":"}, 157), To({"]"}, 460)}
  @@ 217 :> {To({"."}, 72), To({"a"}, 149), To({":"}, 152), To(Digit, 218),
             To({"]"}, 460)}
  @@ 218 :> {To({"."}, 72), To({"a"}, 150), To({":"}, 152), To(Digit, 219),
             To({"]"}, 460)}
  @@ 219 :> {To({"."}, 72), To(HexDigit, 151), To({":"}, 152), To({"]"}, 460)}
  @@ 220 :> {To({"."}, 72), To({"a"}, 149), To({":"}, 152),
             To(Digit \ {"5"}, 221), To({"5"}, 222), To({"]"}, 460)}
  @@ 221 :> {To({"."}, 72), To(HexDigit, 150), To({":"}, 152), To({"]"}, 460)}

(* IP literal *)
Uri34 ==
     222 :> {To({"."}, 72), To({"6", "a"}, 150), To({":"}, 152),
             To(Digit \ {"6"}, 219), To({"]"}, 460)}
  @@ 223 :> {To({"."}, 72), To({"a"}, 149), To({":"}, 152), To(Digit, 221),
             To({"]"}, 460)}
  @@ 224 :> {To(HexDigit, 149), To({":"}, 152), To({"]"}, 460)}
  @@ 225 :> {To(HexDigit, 226)}
  @@ 226 :> {To(HexDigit, 226), To({"."}, 227)}
  @@ 227 :> {To(UserInfo, 228)}
  @@ 228 :> {To(UserInfo, 228), To({"]"}, 460)}

(* authority *)
Uri35 ==
     489 :> {To(Alpha \cup {"!", "+", ".", ":"}, 33), To({"%"}, 34),
             Do({"#"}, <<"save_port">>, 453), Do({"/"}, <<"save_port">>, 455),
             Do({"?"}, <<"save_port">>, 456),
             Do({"@"}, <<"save_userinfo">>, 469), To(Digit, 489)}
  @@ 490 :> {To({"%"}, 31), Do({"#"}, <<"save_host">>, 453),
             Do({"/"}, <<"save_host">>, 455), Do({"?"}, <<"save_host">>, 456),
             To(RegName \ {"."}, 467), Do({":"}, <<"save_host">>, 468),
             Do({"@"}, <<"save_userinfo">>, 469), To({"."}, 491)}
  @@ 491 :> {To({"ctl"}, 13), To({"%"}, 31), Do({"#"}, <<"save_host">>, 453),
             Do({"/"}, <<"save_host">>, 455), Do({"?"}, <<"save_host">>, 456),
             To(Alpha \cup {"!", "+", "."}, 467),
             Do({":"}, <<"save_host">>, 468),
             Do({"@"}, <<"save_userinfo">>, 469), To({"0"}, 492),
             To({"1"}, 500), To({"3", "5", "6"}, 501), To({"2"}, 502)}
  @@ 492 :> {To({"%"}, 31), Do({"#"}, <<"save_host">>, 453),
             Do({"/"}, <<"save_host">>, 455), Do({"?"}, <<"save_host">>, 456),
             To(RegName \ {"."}, 467), Do({":"}, <<"save_host">>, 468),
             Do({"@"}, <<"save_userinfo">>, 469), To({"."}, 493)}

(* authority *)
Uri36 ==
     493 :> {To({"ctl"}, 17), To({"%"}, 31), Do({"#"}, <<"save_host">>, 453),
             Do({"/"}, <<"save_host">>, 455), Do({"?"}, <<"save_host">>, 456),
             To(Alpha \cup {"!", "+", "."}, 467),
             Do({":"}, <<"save_host">>, 468),
             Do({"@"}, <<"save_userinfo">>, 469), To({"0"}, 494),
             To({"1"}, 496), To({"3", "5", "6"}, 497), To({"2"}, 498)}
  @@ 494 :> {To({"%"}, 31), Do({"#"}, <<"save_host">>, 453),
             Do({"/"}, <<"save_host">>, 455), Do({"?"}, <<"save_host">>, 456),
             To(RegName \ {"."}, 467), Do({":"}, <<"save_host">>, 468),
             Do({"@"}, <<"save_userinfo">>, 469), To({"."}, 495)}
  @@ 495 :> {To({"ctl"}, 21), To({"%"}, 31), Do({"#"}, <<"save_host">>, 453),
             Do({"/"}, <<"save_host">>, 455), Do({"?"}, <<"save_host">>, 456),
             To(RegName, 467), Do({":"}, <<"save_host">>, 468),
             Do({"@"}, <<"save_userinfo">>, 469)}
  @@ 496 :> {To({"%"}, 31), Do({"#"}, <<"save_host">>, 453),
             Do({"/"}, <<"save_host">>, 455), Do({"?"}, <<"save_host">>, 456),
             To(Alpha \cup {"!", "+"}, 467), Do({":"}, <<"save_host">>, 468),
             Do({"@"}, <<"save_userinfo">>, 469), To({"."}, 495),
             To(Digit, 497)}
  @@ 497 :> {To({"%"}, 31), Do({"#"}, <<"save_host">>, 453),
             Do({"/"}, <<"save_host">>, 455), Do({"?"}, <<"save_host">>, 456),
             To(Alpha \cup {"!", "+"}, 467), Do({":"}, <<"save_host">>, 468),
             Do({"@"}, <<"save_userinfo">>, 469), To(Digit, 494),
             To({"."}, 495)}

(* authority *)
Uri37 ==
     498 :> {To({"%"}, 31), Do({"#"}, <<"save_host">>, 453),
             Do({"/"}, <<"save_host">>, 455), Do({"?"}, <<"save_host">>, 456),
             To(Alpha \cup {"!", "+"}, 467), Do({":"}, <<"save_host">>, 468),
             Do({"@"}, <<"save_userinfo">>, 469), To(Digit \ {"5"}, 494),
             To({"."}, 495), To({"5"}, 499)}
  @@ 499 :> {To({"%"}, 31), Do({"#"}, <<"save_host">>, 453),
             Do({"/"}, <<"save_host">>, 455), Do({"?"}, <<"save_host">>, 456),
             To(Alpha \cup {"!", "+", "6"}, 467),
             Do({":"}, <<"save_host">>, 468),
             Do({"@"}, <<"save_userinfo">>, 469), To(Digit \ {"6"}, 494),
             To({"."}, 495)}
  @@ 500 :> {To({"%"}, 31), Do({"#"}, <<"save_host">>, 453),
             Do({"/"}, <<"save_host">>, 455), Do({"?"}, <<"save_host">>, 456),
             To(Alpha \cup {"!", "+"}, 467), Do({":"}, <<"save_host">>, 468),
             Do({"@"}, <<"save_userinfo">>, 469), To({"."}, 493),
             To(Digit, 501)}
  @@ 501 :> {To({"%"}, 31), Do({"#"}, <<"save_host">>, 453),
             Do({"/"}, <<"save_host">>, 455), Do({"?"}, <<"save_host">>, 456),
             To(Alpha \cup {"!", "+"}, 467), Do({":"}, <<"save_host">>, 468),
             Do({"@"}, <<"save_userinfo">>, 469), To(Digit, 492),
             To({"."}, 493)}

(* authority *)
Uri38 ==
     502 :> {To({"%"}, 31), Do({"#"}, <<"save_host">>, 453),
             Do({"/"}, <<"save_host">>, 455), Do({"?"}, <<"save_host">>, 456),
             To(Alpha \cup {"!", "+"}, 467), Do({":"}, <<"save_host">>, 468),
             Do({"@"}, <<"save_userinfo">>, 469), To(Digit \ {"5"}, 492),
             To({"."}, 493), To({"5"}, 503)}
  @@ 503 :> {To({"%"}, 31), Do({"#"}, <<"save_host">>, 453),
             Do({"/"}, <<"save_host">>, 455), Do({"?"}, <<"save_host">>, 456),
             To(Alpha \cup {"!", "+", "6"}, 467),
             Do({":"}, <<"save_host">>, 468),
             Do({"@"}, <<"save_userinfo">>, 469), To(Digit \ {"6"}, 492),
             To({"."}, 493)}
  @@ 504 :> {To({"%"}, 31), Do({"#"}, <<"save_host">>, 453),
             Do({"/"}, <<"save_host">>, 455), Do({"?"}, <<"save_host">>, 456),
             To(Alpha \cup {"!", "+"}, 467), Do({":"}, <<"save_host">>, 468),
             Do({"@"}, <<"save_userinfo">>, 469), To({"."}, 491),
             To(Digit, 505)}
  @@ 505 :> {To({"%"}, 31), Do({"#"}, <<"save_host">>, 453),
             Do({"/"}, <<"save_host">>, 455), Do({"?"}, <<"save_host">>, 456),
             To(Alpha \cup {"!", "+"}, 467), Do({":"}, <<"save_host">>, 468),
             Do({"@"}, <<"save_userinfo">>, 469), To(Digit, 490),
             To({"."}, 491)}

(* leading segment or scheme, after "scheme:", authority *)
Uri39 ==
     506 :> {To({"%"}, 31), Do({"#"}, <<"save_host">>, 453),
             Do({"/"}, <<"save_host">>, 455), Do({"?"}, <<"save_host">>, 456),
             To(Alpha \cup {"!", "+"}, 467), Do({":"}, <<"save_host">>, 468),
             Do({"@"}, <<"save_userinfo">>, 469), To(Digit \ {"5"}, 490),
             To({"."}, 491), To({"5"}, 507)}
  @@ 507 :> {To({"%"}, 31), Do({"#"}, <<"save_host">>, 453),
             Do({"/"}, <<"save_host">>, 455), Do({"?"}, <<"save_host">>, 456),
             To(Alpha \cup {"!", "+", "6"}, 467),
             Do({":"}, <<"save_host">>, 468),
             Do({"@"}, <<"save_userinfo">>, 469), To(Digit \ {"6"}, 490),
             To({"."}, 491)}
  @@ 508 :> {To({"%"}, 3), To({"hi", "!", "@"}, 452), To({"#"}, 453),
             To({"/"}, 455), To({"?"}, 456), To(RegName \ {"!"}, 508),
             Do({":"}, <<"save_scheme">>, 509)}
  @@ 509 :> {To({"%"}, 5), To({"#"}, 453), To(Pchar, 455), To({"?"}, 456),
             To({"/"}, 510)}

(* after one "/", authority *)
Uri40 ==
     510 :> {To({"%"}, 5), To({"#"}, 453), To(Pchar, 455), To({"?"}, 456),
             To({"/"}, 511)}
  @@ 511 :> {Do({"ctl"}, <<"markh">>, 229), Do({"%"}, <<"markh">>, 253),
             Do({"["}, <<"markh">>, 260),
             Do({"#"}, <<"markh", "save_host", "save_path">>, 453),
             Do({"?"}, <<"markh", "save_host", "save_path">>, 456),
             Do({"/"}, <<"markh", "save_host">>, 513),
             Do(Alpha \cup {"!", "+", "."}, <<"markh">>, 520),
             Do({":"}, <<"markh", "save_host">>, 521),
             Do({"@"}, <<"markh", "save_userinfo">>, 522),
             Do({"0"}, <<"markh">>, 543), Do({"1"}, <<"markh">>, 557),
             Do({"3", "5", "6"}, <<"markh">>, 558), Do({"2"}, <<"markh">>, 559)}
  @@ 229 :> {To(Digit \ {"5", "6"}, 230)}
  @@ 230 :> {To(Digit, 231)}
  @@ 231 :> {To({"."}, 232)}
  @@ 232 :> {To({"ctl"}, 233), To({"0"}, 235), To({"1"}, 249),
             To({"3", "5", "6"}, 250), To({"2"}, 251)}
  @@ 233 :> {To(Digit \ {"5", "6"}, 234)}
  @@ 234 :> {To(Digit, 235)}
  @@ 235 :> {To({"."}, 236)}
  @@ 236 :> {To({"ctl"}, 237), To({"0"}, 239), To({"1"}, 245),
             To({"3", "5", "6"}, 246), To({"2"}, 247)}
  @@ 237 :> {To(Digit \ {"5", "6"}, 238)}
  @@ 238 :> {To(Digit, 239)}

(* authority, path *)
Uri41 ==
     239 :> {To({"."}, 240)}
  @@ 240 :> {To({"ctl"}, 241), To({"0"}, 512), To({"1"}, 516),
             To({"3", "5", "6"}, 517), To({"2"}, 518)}
  @@ 241 :> {To(Digit \ {"5", "6"}, 242)}
  @@ 242 :> {To(Digit, 512)}
  @@ 512 :> {Do({"#"}, <<"save_host", "markh", "save_path">>, 453),
             Do({"?"}, <<"save_host", "markh", "save_path">>, 456),
             Do({"/"}, <<"save_host", "markh">>, 513),
             Do({":"}, <<"save_host">>, 514)}
  @@ 513 :> {To({"%"}, 243), Do({"#"}, <<"save_path">>, 453),
             Do({"?"}, <<"save_path">>, 456), To(Pchar \cup {"/"}, 513)}
  @@ 243 :> {To(HexDigit, 244)}
  @@ 244 :> {To(HexDigit, 513)}

(* authority *)
Uri42 ==
     514 :> {Do({"#"}, <<"markh", "save_port", "save_path">>, 453),
             Do({"?"}, <<"markh", "save_port", "save_path">>, 456),
             Do({"/"}, <<"markh", "save_port">>, 513),
             Do(Digit, <<"markh">>, 515)}
  @@ 515 :> {Do({"#"}, <<"save_port", "markh", "save_path">>, 453),
             Do({"?"}, <<"save_port", "markh", "save_path">>, 456),
             Do({"/"}, <<"save_port", "markh">>, 513), To(Digit, 515)}
  @@ 516 :> {Do({"#"}, <<"save_host", "markh", "save_path">>, 453),
             Do({"?"}, <<"save_host", "markh", "save_path">>, 456),
             Do({"/"}, <<"save_host", "markh">>, 513),
             Do({":"}, <<"save_host">>, 514), To(Digit, 517)}
  @@ 517 :> {Do({"#"}, <<"save_host", "markh", "save_path">>, 453),
             Do({"?"}, <<"save_host", "markh", "save_path">>, 456),
             To(Digit, 512), Do({"/"}, <<"save_host", "markh">>, 513),
             Do({":"}, <<"save_host">>, 514)}
  @@ 518 :> {Do({"#"}, <<"save_host", "markh", "save_path">>, 453),
             Do({"?"}, <<"save_host", "markh", "save_path">>, 456),
             To(Digit \ {"5"}, 512), Do({"/"}, <<"save_host", "markh">>, 513),
             Do({":"}, <<"save_host">>, 514), To({"5"}, 519)}
  @@ 519 :> {Do({"#"}, <<"save_host", "markh", "save_path">>, 453),
             Do({"?"}, <<"save_host", "markh", "save_path">>, 456),
             To(Digit \ {"6"}, 512), Do({"/"}, <<"save_host", "markh">>, 513),
             Do({":"}, <<"save_host">>, 514)}
  @@ 245 :> {To({"."}, 240), To(Digit, 246)}
  @@ 246 :> {To(Digit, 239), To({"."}, 240)}
  @@ 247 :> {To(Digit \ {"5"}, 239), To({"."}, 240), To({"5"}, 248)}
  @@ 248 :> {To(Digit \ {"6"}, 239), To({"."}, 240)}
  @@ 249 :> {To({"."}, 236), To(Digit, 250)}

(* authority *)
Uri43 ==
     250 :> {To(Digit, 235), To({"."}, 236)}
  @@ 251 :> {To(Digit \ {"5"}, 235), To({"."}, 236), To({"5"}, 252)}
  @@ 252 :> {To(Digit \ {"6"}, 235), To({"."}, 236)}
  @@ 520 :> {To({"%"}, 253),
             Do({"#"}, <<"save_host", "markh", "save_path">>, 453),
             Do({"?"}, <<"save_host", "markh", "save_path">>, 456),
             Do({"/"}, <<"save_host", "markh">>, 513), To(RegName, 520),
             Do({":"}, <<"save_host">>, 521),
             Do({"@"}, <<"save_userinfo">>, 522)}
  @@ 253 :> {To(HexDigit, 254)}
  @@ 254 :> {To(HexDigit, 520)}
  @@ 521 :> {To(Alpha \cup {"!", "+", ".", ":"}, 255), To({"%"}, 256),
             Do({"#"}, <<"markh", "save_port", "save_path">>, 453),
             Do({"?"}, <<"markh", "save_port", "save_path">>, 456),
             Do({"/"}, <<"markh", "save_port">>, 513),
             Do({"@"}, <<"save_userinfo">>, 522), Do(Digit, <<"markh">>, 542)}

(* authority *)
Uri44 ==
     255 :> {To(UserInfo, 255), To({"%"}, 256),
             Do({"@"}, <<"save_userinfo">>, 522)}
  @@ 256 :> {To(HexDigit, 257)}
  @@ 257 :> {To(HexDigit, 255)}
  @@ 522 :> {Do({"ctl"}, <<"markh">>, 229), Do({"%"}, <<"markh">>, 258),
             Do({"["}, <<"markh">>, 260),
             Do({"#"}, <<"markh", "save_host", "save_path">>, 453),
             Do({"?"}, <<"markh", "save_host", "save_path">>, 456),
             Do({"/"}, <<"markh", "save_host">>, 513),
             Do({":"}, <<"markh", "save_host">>, 514),
             Do(Alpha \cup {"!", "+", "."}, <<"markh">>, 523),
             Do({"0"}, <<"markh">>, 524), Do({"1"}, <<"markh">>, 538),
             Do({"3", "5", "6"}, <<"markh">>, 539), Do({"2"}, <<"markh">>, 540)}
  @@ 523 :> {To({"%"}, 258),
             Do({"#"}, <<"save_host", "markh", "save_path">>, 453),
             Do({"?"}, <<"save_host", "markh", "save_path">>, 456),
             Do({"/"}, <<"save_host", "markh">>, 513),
             Do({":"}, <<"save_host">>, 514), To(RegName, 523)}

(* authority *)
Uri45 ==
     258 :> {To(HexDigit, 259)}
  @@ 259 :> {To(HexDigit, 523)}
  @@ 524 :> {To({"%"}, 258),
             Do({"#"}, <<"save_host", "markh", "save_path">>, 453),
             Do({"?"}, <<"save_host", "markh", "save_path">>, 456),
             Do({"/"}, <<"save_host", "markh">>, 513),
             Do({":"}, <<"save_host">>, 514), To(RegName \ {"."}, 523),
             To({"."}, 525)}
  @@ 525 :> {To({"ctl"}, 233), To({"%"}, 258),
             Do({"#"}, <<"save_host", "markh", "save_path">>, 453),
             Do({"?"}, <<"save_host", "markh", "save_path">>, 456),
             Do({"/"}, <<"save_host", "markh">>, 513),
             Do({":"}, <<"save_host">>, 514),
             To(Alpha \cup {"!", "+", "."}, 523), To({"0"}, 526),
             To({"1"}, 534), To({"3", "5", "6"}, 535), To({"2"}, 536)}
  @@ 526 :> {To({"%"}, 258),
             Do({"#"}, <<"save_host", "markh", "save_path">>, 453),
             Do({"?"}, <<"save_host", "markh", "save_path">>, 456),
             Do({"/"}, <<"save_host", "markh">>, 513),
             Do({":"}, <<"save_host">>, 514), To(RegName \ {"."}, 523),
             To({"."}, 527)}
  @@ 527 :> {To({"ctl"}, 237), To({"%"}, 258),
             Do({"#"}, <<"save_host", "markh", "save_path">>, 453),
             Do({"?"}, <<"save_host", "markh", "save_path">>, 456),
             Do({"/"}, <<"save_host", "markh">>, 513),
             Do({":"}, <<"save_host">>, 514),
             To(Alpha \cup {"!", "+", "."}, 523), To({"0"}, 528),
             To({"1"}, 530), To({"3", "5", "6"}, 531), To({"2"}, 532)}

(* authority *)
Uri46 ==
     528 :> {To({"%"}, 258),
             Do({"#"}, <<"save_host", "markh", "save_path">>, 453),
             Do({"?"}, <<"save_host", "markh", "save_path">>, 456),
             Do({"/"}, <<"save_host", "markh">>, 513),
             Do({":"}, <<"save_host">>, 514), To(RegName \ {"."}, 523),
             To({"."}, 529)}
  @@ 529 :> {To({"ctl"}, 241), To({"%"}, 258),
             Do({"#"}, <<"save_host", "markh", "save_path">>, 453),
             Do({"?"}, <<"save_host", "markh", "save_path">>, 456),
             Do({"/"}, <<"save_host", "markh">>, 513),
             Do({":"}, <<"save_host">>, 514), To(RegName, 523)}
  @@ 530 :> {To({"%"}, 258),
             Do({"#"}, <<"save_host", "markh", "save_path">>, 453),
             Do({"?"}, <<"save_host", "markh", "save_path">>, 456),
             Do({"/"}, <<"save_host", "markh">>, 513),
             Do({":"}, <<"save_host">>, 514), To(Alpha \cup {"!", "+"}, 523),
             To({"."}, 529), To(Digit, 531)}
  @@ 531 :> {To({"%"}, 258),
             Do({"#"}, <<"save_host", "markh", "save_path">>, 453),
             Do({"?"}, <<"save_host", "markh", "save_path">>, 456),
             Do({"/"}, <<"save_host", "markh">>, 513),
             Do({":"}, <<"save_host">>, 514), To(Alpha \cup {"!", "+"}, 523),
             To(Digit, 528), To({"."}, 529)}
  @@ 532 :> {To({"%"}, 258),
             Do({"#"}, <<"save_host", "markh", "save_path">>, 453),
             Do({"?"}, <<"save_host", "markh", "save_path">>, 456),
             Do({"/"}, <<"save_host", "markh">>, 513),
             Do({":"}, <<"save_host">>, 514), To(Alpha \cup {"!", "+"}, 523),
             To(Digit \ {"5"}, 528), To({"."}, 529), To({"5"}, 533)}

(* authority *)
Uri47 ==
     533 :> {To({"%"}, 258),
             Do({"#"}, <<"save_host", "markh", "save_path">>, 453),
             Do({"?"}, <<"save_host", "markh", "save_path">>, 456),
             Do({"/"}, <<"save_host", "markh">>, 513),
             Do({":"}, <<"save_host">>, 514),
             To(Alpha \cup {"!", "+", "6"}, 523), To(Digit \ {"6"}, 528),
             To({"."}, 529)}
  @@ 534 :> {To({"%"}, 258),
             Do({"#"}, <<"save_host", "markh", "save_path">>, 453),
             Do({"?"}, <<"save_host", "markh", "save_path">>, 456),
             Do({"/"}, <<"save_host", "markh">>, 513),
             Do({":"}, <<"save_host">>, 514), To(Alpha \cup {"!", "+"}, 523),
             To({"."}, 527), To(Digit, 535)}
  @@ 535 :> {To({"%"}, 258),
             Do({"#"}, <<"save_host", "markh", "save_path">>, 453),
             Do({"?"}, <<"save_host", "markh", "save_path">>, 456),
             Do({"/"}, <<"save_host", "markh">>, 513),
             Do({":"}, <<"save_host">>, 514), To(Alpha \cup {"!", "+"}, 523),
             To(Digit, 526), To({"."}, 527)}
  @@ 536 :> {To({"%"}, 258),
             Do({"#"}, <<"save_host", "markh", "save_path">>, 453),
             Do({"?"}, <<"save_host", "markh", "save_path">>, 456),
             Do({"/"}, <<"save_host", "markh">>, 513),
             Do({":"}, <<"save_host">>, 514), To(Alpha \cup {"!", "+"}, 523),
             To(Digit \ {"5"}, 526), To({"."}, 527), To({"5"}, 537)}
  @@ 537 :> {To({"%"}, 258),
             Do({"#"}, <<"save_host", "markh", "save_path">>, 453),
             Do({"?"}, <<"save_host", "markh", "save_path">>, 456),
             Do({"/"}, <<"save_host", "markh">>, 513),
             Do({":"}, <<"save_host">>, 514),
             To(Alpha \cup {"!", "+", "6"}, 523), To(Digit \ {"6"}, 526),
             To({"."}, 527)}

(* authority *)
Uri48 ==
     538 :> {To({"%"}, 258),
             Do({"#"}, <<"save_host", "markh", "save_path">>, 453),
             Do({"?"}, <<"save_host", "markh", "save_path">>, 456),
             Do({"/"}, <<"save_host", "markh">>, 513),
             Do({":"}, <<"save_host">>, 514), To(Alpha \cup {"!", "+"}, 523),
             To({"."}, 525), To(Digit, 539)}
  @@ 539 :> {To({"%"}, 258),
             Do({"#"}, <<"save_host", "markh", "save_path">>, 453),
             Do({"?"}, <<"save_host", "markh", "save_path">>, 456),
             Do({"/"}, <<"save_host", "markh">>, 513),
             Do({":"}, <<"save_host">>, 514), To(Alpha \cup {"!", "+"}, 523),
             To(Digit, 524), To({"."}, 525)}
  @@ 540 :> {To({"%"}, 258),
             Do({"#"}, <<"save_host", "markh", "save_path">>, 453),
             Do({"?"}, <<"save_host", "markh", "save_path">>, 456),
             Do({"/"}, <<"save_host", "markh">>, 513),
             Do({":"}, <<"save_host">>, 514), To(Alpha \cup {"!", "+"}, 523),
             To(Digit \ {"5"}, 524), To({"."}, 525), To({"5"}, 541)}
  @@ 541 :> {To({"%"}, 258),
             Do({"#"}, <<"save_host", "markh", "save_path">>, 453),
             Do({"?"}, <<"save_host", "markh", "save_path">>, 456),
             Do({"/"}, <<"save_host", "markh">>, 513),
             Do({":"}, <<"save_host">>, 514),
             To(Alpha \cup {"!", "+", "6"}, 523), To(Digit \ {"6"}, 524),
             To({"."}, 525)}

(* IP literal *)
Uri49 ==
     260 :> {To(HexDigit, 261), To({":"}, 368), To({"v"}, 447)}
  @@ 261 :> {To(HexDigit, 262), To({":"}, 265)}
  @@ 262 :> {To(HexDigit, 263), To({":"}, 265)}
  @@ 263 :> {To(HexDigit, 264), To({":"}, 265)}
  @@ 264 :> {To({":"}, 265)}
  @@ 265 :> {To(HexDigit, 266), To({":"}, 363)}
  @@ 266 :> {To(HexDigit, 267), To({":"}, 270)}
  @@ 267 :> {To(HexDigit, 268), To({":"}, 270)}
  @@ 268 :> {To(HexDigit, 269), To({":"}, 270)}
  @@ 269 :> {To({":"}, 270)}

(* IP literal *)
Uri50 ==
     270 :> {To(HexDigit, 271), To({":"}, 358)}
  @@ 271 :> {To(HexDigit, 272), To({":"}, 275)}
  @@ 272 :> {To(HexDigit, 273), To({":"}, 275)}
  @@ 273 :> {To(HexDigit, 274), To({":"}, 275)}
  @@ 274 :> {To({":"}, 275)}
  @@ 275 :> {To(HexDigit, 276), To({":"}, 353)}
  @@ 276 :> {To(HexDigit, 277), To({":"}, 280)}
  @@ 277 :> {To(HexDigit, 278), To({":"}, 280)}
  @@ 278 :> {To(HexDigit, 279), To({":"}, 280)}
  @@ 279 :> {To({":"}, 280)}
  @@ 280 :> {To(HexDigit, 281), To({":"}, 348)}

(* IP literal *)
Uri51 ==
     281 :> {To(HexDigit, 282), To({":"}, 285)}
  @@ 282 :> {To(HexDigit, 283), To({":"}, 285)}
  @@ 283 :> {To(HexDigit, 284), To({":"}, 285)}
  @@ 284 :> {To({":"}, 285)}
  @@ 285 :> {To(HexDigit, 286), To({":"}, 335)}
  @@ 286 :> {To(HexDigit, 287), To({":"}, 290)}
  @@ 287 :> {To(HexDigit, 288), To({":"}, 290)}
  @@ 288 :> {To(HexDigit, 289), To({":"}, 290)}
  @@ 289 :> {To({":"}, 290)}
  @@ 290 :> {To({"ctl"}, 291), To({"0"}, 318), To({"1"}, 326), To({"2"}, 329),
             To({"3", "5", "6"}, 332), To({":"}, 333), To({"a"}, 334)}
  @@ 291 :> {To(Digit \ {"5", "6"}, 292)}

(* IP literal *)
Uri52 ==
     292 :> {To(Digit, 293)}
  @@ 293 :> {To({"."}, 294)}
  @@ 294 :> {To({"ctl"}, 295), To({"0"}, 297), To({"1"}, 314),
             To({"3", "5", "6"}, 315), To({"2"}, 316)}
  @@ 295 :> {To(Digit \ {"5", "6"}, 296)}
  @@ 296 :> {To(Digit, 297)}
  @@ 297 :> {To({"."}, 298)}
  @@ 298 :> {To({"ctl"}, 299), To({"0"}, 301), To({"1"}, 310),
             To({"3", "5", "6"}, 311), To({"2"}, 312)}
  @@ 299 :> {To(Digit \ {"5", "6"}, 300)}
  @@ 300 :> {To(Digit, 301)}
  @@ 301 :> {To({"."}, 302)}
  @@ 302 :> {To({"ctl"}, 303), To({"0"}, 305), To({"1"}, 306),
             To({"3", "5", "6"}, 307), To({"2"}, 308)}
  @@ 303 :> {To(Digit \ {"5", "6"}, 304)}
  @@ 304 :> {To(Digit, 305)}
  @@ 305 :> {To({"]"}, 512)}
  @@ 306 :> {To(Digit, 307), To({"]"}, 512)}
  @@ 307 :> {To(Digit, 305), To({"]"}, 512)}
  @@ 308 :> {To(Digit \ {"5"}, 305), To({"5"}, 309), To({"]"}, 512)}

(* IP literal *)
Uri53 ==
     309 :> {To(Digit \ {"6"}, 305), To({"]"}, 512)}
  @@ 310 :> {To({"."}, 302), To(Digit, 311)}
  @@ 311 :> {To(Digit, 301), To({"."}, 302)}
  @@ 312 :> {To(Digit \ {"5"}, 301), To({"."}, 302), To({"5"}, 313)}
  @@ 313 :> {To(Digit \ {"6"}, 301), To({"."}, 302)}
  @@ 314 :> {To({"."}, 298), To(Digit, 315)}
  @@ 315 :> {To(Digit, 297), To({"."}, 298)}
  @@ 316 :> {To(Digit \ {"5"}, 297), To({"."}, 298), To({"5"}, 317)}
  @@ 317 :> {To(Digit \ {"6"}, 297), To({"."}, 298)}
  @@ 318 :> {To({"."}, 294), To(HexDigit, 319), To({":"}, 322)}
  @@ 319 :> {To(HexDigit, 320), To({":"}, 322)}
  @@ 320 :> {To(HexDigit, 321), To({":"}, 322)}
  @@ 321 :> {To({":"}, 322)}

(* IP literal *)
Uri54 ==
     322 :> {To({":"}, 305), To(HexDigit, 323)}
  @@ 323 :> {To(HexDigit, 324), To({"]"}, 512)}
  @@ 324 :> {To(HexDigit, 325), To({"]"}, 512)}
  @@ 325 :> {To(HexDigit, 305), To({"]"}, 512)}
  @@ 326 :> {To({"."}, 294), To({"a"}, 319), To({":"}, 322), To(Digit, 327)}
  @@ 327 :> {To({"."}, 294), To({"a"}, 320), To({":"}, 322), To(Digit, 328)}
  @@ 328 :> {To({"."}, 294), To(HexDigit, 321), To({":"}, 322)}
  @@ 329 :> {To({"."}, 294), To({"a"}, 319), To({":"}, 322),
             To(Digit \ {"5"}, 330), To({"5"}, 331)}
  @@ 330 :> {To({"."}, 294), To(HexDigit, 320), To({":"}, 322)}

(* IP literal *)
Uri55 ==
     331 :> {To({"."}, 294), To({"6", "a"}, 320), To({":"}, 322),
             To(Digit \ {"6"}, 328)}
  @@ 332 :> {To({"."}, 294), To({"a"}, 319), To({":"}, 322), To(Digit, 330)}
  @@ 333 :> {To(HexDigit, 323)}
  @@ 334 :> {To(HexDigit, 319), To({":"}, 322)}
  @@ 335 :> {To({"ctl"}, 291), To({"0"}, 336), To({"1"}, 340), To({"2"}, 343),
             To({"3", "5", "6"}, 346), To({"a"}, 347)}
  @@ 336 :> {To({"."}, 294), To({":"}, 333), To(HexDigit, 337)}
  @@ 337 :> {To({":"}, 333), To(HexDigit, 338)}
  @@ 338 :> {To({":"}, 333), To(HexDigit, 339)}
  @@ 339 :> {To({":"}, 333)}

(* IP literal *)
Uri56 ==
     340 :> {To({"."}, 294), To({":"}, 333), To({"a"}, 337), To(Digit, 341)}
  @@ 341 :> {To({"."}, 294), To({":"}, 333), To({"a"}, 338), To(Digit, 342)}
  @@ 342 :> {To({"."}, 294), To({":"}, 333), To(HexDigit, 339)}
  @@ 343 :> {To({"."}, 294), To({":"}, 333), To({"a"}, 337),
             To(Digit \ {"5"}, 344), To({"5"}, 345)}
  @@ 344 :> {To({"."}, 294), To({":"}, 333), To(HexDigit, 338)}
  @@ 345 :> {To({"."}, 294), To({":"}, 333), To({"6", "a"}, 338),
             To(Digit \ {"6"}, 342)}
  @@ 346 :> {To({"."}, 294), To({":"}, 333), To({"a"}, 337), To(Digit, 344)}
  @@ 347 :> {To({":"}, 333), To(HexDigit, 337)}

(* IP literal *)
Uri57 ==
     348 :> {To(HexDigit, 349)}
  @@ 349 :> {To({":"}, 335), To(HexDigit, 350)}
  @@ 350 :> {To({":"}, 335), To(HexDigit, 351)}
  @@ 351 :> {To({":"}, 335), To(HexDigit, 352)}
  @@ 352 :> {To({":"}, 335)}
  @@ 353 :> {To(HexDigit, 354)}
  @@ 354 :> {To({":"}, 348), To(HexDigit, 355)}
  @@ 355 :> {To({":"}, 348), To(HexDigit, 356)}
  @@ 356 :> {To({":"}, 348), To(HexDigit, 357)}
  @@ 357 :> {To({":"}, 348)}
  @@ 358 :> {To(HexDigit, 359)}

(* IP literal *)
Uri58 ==
     359 :> {To({":"}, 353), To(HexDigit, 360)}
  @@ 360 :> {To({":"}, 353), To(HexDigit, 361)}
  @@ 361 :> {To({":"}, 353), To(HexDigit, 362)}
  @@ 362 :> {To({":"}, 353)}
  @@ 363 :> {To(HexDigit, 364)}
  @@ 364 :> {To({":"}, 358), To(HexDigit, 365)}
  @@ 365 :> {To({":"}, 358), To(HexDigit, 366)}
  @@ 366 :> {To({":"}, 358), To(HexDigit, 367)}
  @@ 367 :> {To({":"}, 358)}
  @@ 368 :> {To({":"}, 369)}
  @@ 369 :> {To({"ctl"}, 291), To({"0"}, 370), To({"1"}, 439), To({"2"}, 442),
             To({"3", "5", "6"}, 445), To({"a"}, 446), To({"]"}, 512)}

(* IP literal *)
Uri59 ==
     370 :> {To({"."}, 294), To(HexDigit, 371), To({":"}, 374), To({"]"}, 512)}
  @@ 371 :> {To(HexDigit, 372), To({":"}, 374), To({"]"}, 512)}
  @@ 372 :> {To(HexDigit, 373), To({":"}, 374), To({"]"}, 512)}
  @@ 373 :> {To({":"}, 374), To({"]"}, 512)}
  @@ 374 :> {To({"ctl"}, 291), To({"0"}, 375), To({"1"}, 431), To({"2"}, 434),
             To({"3", "5", "6"}, 437), To({"a"}, 438)}
  @@ 375 :> {To({"."}, 294), To(HexDigit, 376), To({":"}, 379), To({"]"}, 512)}
  @@ 376 :> {To(HexDigit, 377), To({":"}, 379), To({"]"}, 512)}
  @@ 377 :> {To(HexDigit, 378), To({":"}, 379), To({"]"}, 512)}
  @@ 378 :> {To({":"}, 379), To({"]"}, 512)}

(* IP literal *)
Uri60 ==
     379 :> {To({"ctl"}, 291), To({"0"}, 380), To({"1"}, 423), To({"2"}, 426),
             To({"3", "5", "6"}, 429), To({"a"}, 430)}
  @@ 380 :> {To({"."}, 294), To(HexDigit, 381), To({":"}, 384), To({"]"}, 512)}
  @@ 381 :> {To(HexDigit, 382), To({":"}, 384), To({"]"}, 512)}
  @@ 382 :> {To(HexDigit, 383), To({":"}, 384), To({"]"}, 512)}
  @@ 383 :> {To({":"}, 384), To({"]"}, 512)}
  @@ 384 :> {To({"ctl"}, 291), To({"0"}, 385), To({"1"}, 415), To({"2"}, 418),
             To({"3", "5", "6"}, 421), To({"a"}, 422)}
  @@ 385 :> {To({"."}, 294), To(HexDigit, 386), To({":"}, 389), To({"]"}, 512)}
  @@ 386 :> {To(HexDigit, 387), To({":"}, 389), To({"]"}, 512)}

(* IP literal *)
Uri61 ==
     387 :> {To(HexDigit, 388), To({":"}, 389), To({"]"}, 512)}
  @@ 388 :> {To({":"}, 389), To({"]"}, 512)}
  @@ 389 :> {To({"ctl"}, 291), To({"0"}, 390), To({"1"}, 407), To({"2"}, 410),
             To({"3", "5", "6"}, 413), To({"a"}, 414)}
  @@ 390 :> {To({"."}, 294), To(HexDigit, 391), To({":"}, 394), To({"]"}, 512)}
  @@ 391 :> {To(HexDigit, 392), To({":"}, 394), To({"]"}, 512)}
  @@ 392 :> {To(HexDigit, 393), To({":"}, 394), To({"]"}, 512)}
  @@ 393 :> {To({":"}, 394), To({"]"}, 512)}
  @@ 394 :> {To({"ctl"}, 291), To({"0"}, 395), To({"1"}, 399), To({"2"}, 402),
             To({"3", "5", "6"}, 405), To({"a"}, 406)}
  @@ 395 :> {To({"."}, 294), To({":"}, 333), To(HexDigit, 396), To({"]"}, 512)}

(* IP literal *)
Uri62 ==
     396 :> {To({":"}, 333), To(HexDigit, 397), To({"]"}, 512)}
  @@ 397 :> {To({":"}, 333), To(HexDigit, 398), To({"]"}, 512)}
  @@ 398 :> {To({":"}, 333), To({"]"}, 512)}
  @@ 399 :> {To({"."}, 294), To({":"}, 333), To({"a"}, 396), To(Digit, 400),
             To({"]"}, 512)}
  @@ 400 :> {To({"."}, 294), To({":"}, 333), To({"a"}, 397), To(Digit, 401),
             To({"]"}, 512)}
  @@ 401 :> {To({"."}, 294), To({":"}, 333), To(HexDigit, 398), To({"]"}, 512)}
  @@ 402 :> {To({"."}, 294), To({":"}, 333), To({"a"}, 396),
             To(Digit \ {"5"}, 403), To({"5"}, 404), To({"]"}, 512)}
  @@ 403 :> {To({"."}, 294), To({":"}, 333), To(HexDigit, 397), To({"]"}, 512)}

(* IP literal *)
Uri63 ==
     404 :> {To({"."}, 294), To({":"}, 333), To({"6", "a"}, 397),
             To(Digit \ {"6"}, 401), To({"]"}, 512)}
  @@ 405 :> {To({"."}, 294), To({":"}, 333), To({"a"}, 396), To(Digit, 403),
             To({"]"}, 512)}
  @@ 406 :> {To({":"}, 333), To(HexDigit, 396), To({"]"}, 512)}
  @@ 407 :> {To({"."}, 294), To({"a"}, 391), To({":"}, 394), To(Digit, 408),
             To({"]"}, 512)}
  @@ 408 :> {To({"."}, 294), To({"a"}, 392), To({":"}, 394), To(Digit, 409),
             To({"]"}, 512)}
  @@ 409 :> {To({"."}, 294), To(HexDigit, 393), To({":"}, 394), To({"]"}, 512)}
  @@ 410 :> {To({"."}, 294), To({"a"}, 391), To({":"}, 394),
             To(Digit \ {"5"}, 411), To({"5"}, 412), To({"]"}, 512)}
  @@ 411 :> {To({"."}, 294), To(HexDigit, 392), To({":"}, 394), To({"]"}, 512)}

(* IP literal *)
Uri64 ==
     412 :> {To({"."}, 294), To({"6", "a"}, 392), To({":"}, 394),
             To(Digit \ {"6"}, 409), To({"]"}, 512)}
  @@ 413 :> {To({"."}, 294), To({"a"}, 391), To({":"}, 394), To(Digit, 411),
             To({"]"}, 512)}
  @@ 414 :> {To(HexDigit, 391), To({":"}, 394), To({"]"}, 512)}
  @@ 415 :> {To({"."}, 294), To({"a"}, 386), To({":"}, 389), To(Digit, 416),
             To({"]"}, 512)}
  @@ 416 :> {To({"."}, 294), To({"a"}, 387), To({":"}, 389), To(Digit, 417),
             To({"]"}, 512)}
  @@ 417 :> {To({"."}, 294), To(HexDigit, 388), To({":"}, 389), To({"]"}, 512)}
  @@ 418 :> {To({"."}, 294), To({"a"}, 386), To({":"}, 389),
             To(Digit \ {"5"}, 419), To({"5"}, 420), To({"]"}, 512)}
  @@ 419 :> {To({"."}, 294), To(HexDigit, 387), To({":"}, 389), To({"]"}, 512)}

(* IP literal *)
Uri65 ==
     420 :> {To({"."}, 294), To({"6", "a"}, 387), To({":"}, 389),
             To(Digit \ {"6"}, 417), To({"]"}, 512)}
  @@ 421 :> {To({"."}, 294), To({"a"}, 386), To({":"}, 389), To(Digit, 419),
             To({"]"}, 512)}
  @@ 422 :> {To(HexDigit, 386), To({":"}, 389), To({"]"}, 512)}
  @@ 423 :> {To({"."}, 294), To({"a"}, 381), To({":"}, 384), To(Digit, 424),
             To({"]"}, 512)}
  @@ 424 :> {To({"."}, 294), To({"a"}, 382), To({":"}, 384), To(Digit, 425),
             To({"]"}, 512)}
  @@ 425 :> {To({"."}, 294), To(HexDigit, 383), To({":"}, 384), To({"]"}, 512)}
  @@ 426 :> {To({"."}, 294), To({"a"}, 381), To({":"}, 384),
             To(Digit \ {"5"}, 427), To({"5"}, 428), To({"]"}, 512)}
  @@ 427 :> {To({"."}, 294), To(HexDigit, 382), To({":"}, 384), To({"]"}, 512)}

(* IP literal *)
Uri66 ==
     428 :> {To({"."}, 294), To({"6", "a"}, 382), To({":"}, 384),
             To(Digit \ {"6"}, 425), To({"]"}, 512)}
  @@ 429 :> {To({"."}, 294), To({"a"}, 381), To({":"}, 384), To(Digit, 427),
             To({"]"}, 512)}
  @@ 430 :> {To(HexDigit, 381), To({":"}, 384), To({"]"}, 512)}
  @@ 431 :> {To({"."}, 294), To({"a"}, 376), To({":"}, 379), To(Digit, 432),
             To({"]"}, 512)}
  @@ 432 :> {To({"."}, 294), To({"a"}, 377), To({":"}, 379), To(Digit, 433),
             To({"]"}, 512)}
  @@ 433 :> {To({"."}, 294), To(HexDigit, 378), To({":"}, 379), To({"]"}, 512)}
  @@ 434 :> {To({"."}, 294), To({"a"}, 376), To({":"}, 379),
             To(Digit \ {"5"}, 435), To({"5"}, 436), To({"]"}, 512)}
  @@ 435 :> {To({"."}, 294), To(HexDigit, 377), To({":"}, 379), To({"]"}, 512)}

(* IP literal *)
Uri67 ==
     436 :> {To({"."}, 294), To({"6", "a"}, 377), To({":"}, 379),
             To(Digit \ {"6"}, 433), To({"]"}, 512)}
  @@ 437 :> {To({"."}, 294), To({"a"}, 376), To({":"}, 379), To(Digit, 435),
             To({"]"}, 512)}
  @@ 438 :> {To(HexDigit, 376), To({":"}, 379), To({"]"}, 512)}
  @@ 439 :> {To({"."}, 294), To({"a"}, 371), To({":"}, 374), To(Digit, 440),
             To({"]"}, 512)}
  @@ 440 :> {To({"."}, 294), To({"a"}, 372), To({":"}, 374), To(Digit, 441),
             To({"]"}, 512)}
  @@ 441 :> {To({"."}, 294), To(HexDigit, 373), To({":"}, 374), To({"]"}, 512)}
  @@ 442 :> {To({"."}, 294), To({"a"}, 371), To({":"}, 374),
             To(Digit \ {"5"}, 443), To({"5"}, 444), To({"]"}, 512)}
  @@ 443 :> {To({"."}, 294), To(HexDigit, 372), To({":"}, 374), To({"]"}, 512)}

(* IP literal *)
Uri68 ==
     444 :> {To({"."}, 294), To({"6", "a"}, 372), To({":"}, 374),
             To(Digit \ {"6"}, 441), To({"]"}, 512)}
  @@ 445 :> {To({"."}, 294), To({"a"}, 371), To({":"}, 374), To(Digit, 443),
             To({"]"}, 512)}
  @@ 446 :> {To(HexDigit, 371), To({":"}, 374), To({"]"}, 512)}
  @@ 447 :> {To(HexDigit, 448)}
  @@ 448 :> {To(HexDigit, 448), To({"."}, 449)}
  @@ 449 :> {To(UserInfo, 450)}
  @@ 450 :> {To(UserInfo, 450), To({"]"}, 512)}

(* authority *)
Uri69 ==
     542 :> {To(Alpha \cup {"!", "+", ".", ":"}, 255), To({"%"}, 256),
             Do({"#"}, <<"save_port", "markh", "save_path">>, 453),
             Do({"?"}, <<"save_port", "markh", "save_path">>, 456),
             Do({"/"}, <<"save_port", "markh">>, 513),
             Do({"@"}, <<"save_userinfo">>, 522), To(Digit, 542)}
  @@ 543 :> {To({"%"}, 253),
             Do({"#"}, <<"save_host", "markh", "save_path">>, 453),
             Do({"?"}, <<"save_host", "markh", "save_path">>, 456),
             Do({"/"}, <<"save_host", "markh">>, 513),
             To(RegName \ {"."}, 520), Do({":"}, <<"save_host">>, 521),
             Do({"@"}, <<"save_userinfo">>, 522), To({"."}, 544)}
  @@ 544 :> {To({"ctl"}, 233), To({"%"}, 253),
             Do({"#"}, <<"save_host", "markh", "save_path">>, 453),
             Do({"?"}, <<"save_host", "markh", "save_path">>, 456),
             Do({"/"}, <<"save_host", "markh">>, 513),
             To(Alpha \cup {"!", "+", "."}, 520),
             Do({":"}, <<"save_host">>, 521),
             Do({"@"}, <<"save_userinfo">>, 522), To({"0"}, 545),
             To({"1"}, 553), To({"3", "5", "6"}, 554), To({"2"}, 555)}
  @@ 545 :> {To({"%"}, 253),
             Do({"#"}, <<"save_host", "markh", "save_path">>, 453),
             Do({"?"}, <<"save_host", "markh", "save_path">>, 456),
             Do({"/"}, <<"save_host", "markh">>, 513),
             To(RegName \ {"."}, 520), Do({":"}, <<"save_host">>, 521),
             Do({"@"}, <<"save_userinfo">>, 522), To({"."}, 546)}

(* authority *)
Uri70 ==
     546 :> {To({"ctl"}, 237), To({"%"}, 253),
             Do({"#"}, <<"save_host", "markh", "save_path">>, 453),
             Do({"?"}, <<"save_host", "markh", "save_path">>, 456),
             Do({"/"}, <<"save_host", "markh">>, 513),
             To(Alpha \cup {"!", "+", "."}, 520),
             Do({":"}, <<"save_host">>, 521),
             Do({"@"}, <<"save_userinfo">>, 522), To({"0"}, 547),
             To({"1"}, 549), To({"3", "5", "6"}, 550), To({"2"}, 551)}
  @@ 547 :> {To({"%"}, 253),
             Do({"#"}, <<"save_host", "markh", "save_path">>, 453),
             Do({"?"}, <<"save_host", "markh", "save_path">>, 456),
             Do({"/"}, <<"save_host", "markh">>, 513),
             To(RegName \ {"."}, 520), Do({":"}, <<"save_host">>, 521),
             Do({"@"}, <<"save_userinfo">>, 522), To({"."}, 548)}
  @@ 548 :> {To({"ctl"}, 241), To({"%"}, 253),
             Do({"#"}, <<"save_host", "markh", "save_path">>, 453),
             Do({"?"}, <<"save_host", "markh", "save_path">>, 456),
             Do({"/"}, <<"save_host", "markh">>, 513), To(RegName, 520),
             Do({":"}, <<"save_host">>, 521),
             Do({"@"}, <<"save_userinfo">>, 522)}
  @@ 549 :> {To({"%"}, 253),
             Do({"#"}, <<"save_host", "markh", "save_path">>, 453),
             Do({"?"}, <<"save_host", "markh", "save_path">>, 456),
             Do({"/"}, <<"save_host", "markh">>, 513),
             To(Alpha \cup {"!", "+"}, 520), Do({":"}, <<"save_host">>, 521),
             Do({"@"}, <<"save_userinfo">>, 522), To({"."}, 548),
             To(Digit, 550)}
  @@ 550 :> {To({"%"}, 253),
             Do({"#"}, <<"save_host", "markh", "save_path">>, 453),
             Do({"?"}, <<"save_host", "markh", "save_path">>, 456),
             Do({"/"}, <<"save_host", "markh">>, 513),
             To(Alpha \cup {"!", "+"}, 520), Do({":"}, <<"save_host">>, 521),
             Do({"@"}, <<"save_userinfo">>, 522), To(Digit, 547),
             To({"."}, 548)}

(* authority *)
Uri71 ==
     551 :> {To({"%"}, 253),
             Do({"#"}, <<"save_host", "markh", "save_path">>, 453),
             Do({"?"}, <<"save_host", "markh", "save_path">>, 456),
             Do({"/"}, <<"save_host", "markh">>, 513),
             To(Alpha \cup {"!", "+"}, 520), Do({":"}, <<"save_host">>, 521),
             Do({"@"}, <<"save_userinfo">>, 522), To(Digit \ {"5"}, 547),
             To({"."}, 548), To({"5"}, 552)}
  @@ 552 :> {To({"%"}, 253),
             Do({"#"}, <<"save_host", "markh", "save_path">>, 453),
             Do({"?"}, <<"save_host", "markh", "save_path">>, 456),
             Do({"/"}, <<"save_host", "markh">>, 513),
             To(Alpha \cup {"!", "+", "6"}, 520),
             Do({":"}, <<"save_host">>, 521),
             Do({"@"}, <<"save_userinfo">>, 522), To(Digit \ {"6"}, 547),
             To({"."}, 548)}
  @@ 553 :> {To({"%"}, 253),
             Do({"#"}, <<"save_host", "markh", "save_path">>, 453),
             Do({"?"}, <<"save_host", "markh", "save_path">>, 456),
             Do({"/"}, <<"save_host", "markh">>, 513),
             To(Alpha \cup {"!", "+"}, 520), Do({":"}, <<"save_host">>, 521),
             Do({"@"}, <<"save_userinfo">>, 522), To({"."}, 546),
             To(Digit, 554)}
  @@ 554 :> {To({"%"}, 253),
             Do({"#"}, <<"save_host", "markh", "save_path">>, 453),
             Do({"?"}, <<"save_host", "markh", "save_path">>, 456),
             Do({"/"}, <<"save_host", "markh">>, 513),
             To(Alpha \cup {"!", "+"}, 520), Do({":"}, <<"save_host">>, 521),
             Do({"@"}, <<"save_userinfo">>, 522), To(Digit, 545),
             To({"."}, 546)}

(* authority *)
Uri72 ==
     555 :> {To({"%"}, 253),
             Do({"#"}, <<"save_host", "markh", "save_path">>, 453),
             Do({"?"}, <<"save_host", "markh", "save_path">>, 456),
             Do({"/"}, <<"save_host", "markh">>, 513),
             To(Alpha \cup {"!", "+"}, 520), Do({":"}, <<"save_host">>, 521),
             Do({"@"}, <<"save_userinfo">>, 522), To(Digit \ {"5"}, 545),
             To({"."}, 546), To({"5"}, 556)}
  @@ 556 :> {To({"%"}, 253),
             Do({"#"}, <<"save_host", "markh", "save_path">>, 453),
             Do({"?"}, <<"save_host", "markh", "save_path">>, 456),
             Do({"/"}, <<"save_host", "markh">>, 513),
             To(Alpha \cup {"!", "+", "6"}, 520),
             Do({":"}, <<"save_host">>, 521),
             Do({"@"}, <<"save_userinfo">>, 522), To(Digit \ {"6"}, 545),
             To({"."}, 546)}
  @@ 557 :> {To({"%"}, 253),
             Do({"#"}, <<"save_host", "markh", "save_path">>, 453),
             Do({"?"}, <<"save_host", "markh", "save_path">>, 456),
             Do({"/"}, <<"save_host", "markh">>, 513),
             To(Alpha \cup {"!", "+"}, 520), Do({":"}, <<"save_host">>, 521),
             Do({"@"}, <<"save_userinfo">>, 522), To({"."}, 544),
             To(Digit, 558)}
  @@ 558 :> {To({"%"}, 253),
             Do({"#"}, <<"save_host", "markh", "save_path">>, 453),
             Do({"?"}, <<"save_host", "markh", "save_path">>, 456),
             Do({"/"}, <<"save_host", "markh">>, 513),
             To(Alpha \cup {"!", "+"}, 520), Do({":"}, <<"save_host">>, 521),
             Do({"@"}, <<"save_userinfo">>, 522), To(Digit, 543),
             To({"."}, 544)}

(* authority *)
Uri73 ==
     559 :> {To({"%"}, 253),
             Do({"#"}, <<"save_host", "markh", "save_path">>, 453),
             Do({"?"}, <<"save_host", "markh", "save_path">>, 456),
             Do({"/"}, <<"save_host", "markh">>, 513),
             To(Alpha \cup {"!", "+"}, 520), Do({":"}, <<"save_host">>, 521),
             Do({"@"}, <<"save_userinfo">>, 522), To(Digit \ {"5"}, 543),
             To({"."}, 544), To({"5"}, 560)}
  @@ 560 :> {To({"%"}, 253),
             Do({"#"}, <<"save_host", "markh", "save_path">>, 453),
             Do({"?"}, <<"save_host", "markh", "save_path">>, 456),
             Do({"/"}, <<"save_host", "markh">>, 513),
             To(Alpha \cup {"!", "+", "6"}, 520),
             Do({":"}, <<"save_host">>, 521),
             Do({"@"}, <<"save_userinfo">>, 522), To(Digit \ {"6"}, 543),
             To({"."}, 544)}

UriTable ==
     Uri1 @@ Uri2 @@ Uri3 @@ Uri4 @@ Uri5 @@ Uri6 @@ Uri7 @@ Uri8
  @@ Uri9 @@ Uri10 @@ Uri11 @@ Uri12 @@ Uri13 @@ Uri14 @@ Uri15 @@ Uri16
  @@ Uri17 @@ Uri18 @@ Uri19 @@ Uri20 @@ Uri21 @@ Uri22 @@ Uri23 @@ Uri24
  @@ Uri25 @@ Uri26 @@ Uri27 @@ Uri28 @@ Uri29 @@ Uri30 @@ Uri31 @@ Uri32
  @@ Uri33 @@ Uri34 @@ Uri35 @@ Uri36 @@ Uri37 @@ Uri38 @@ Uri39 @@ Uri40
  @@ Uri41 @@ Uri42 @@ Uri43 @@ Uri44 @@ Uri45 @@ Uri46 @@ Uri47 @@ Uri48
  @@ Uri49 @@ Uri50 @@ Uri51 @@ Uri52 @@ Uri53 @@ Uri54 @@ Uri55 @@ Uri56
  @@ Uri57 @@ Uri58 @@ Uri59 @@ Uri60 @@ Uri61 @@ Uri62 @@ Uri63 @@ Uri64
  @@ Uri65 @@ Uri66 @@ Uri67 @@ Uri68 @@ Uri69 @@ Uri70 @@ Uri71 @@ Uri72
  @@ Uri73

(* The actions run when the input ends in a state (the _test_eof switch).  *)
UriEof ==
     [s \in {453} |-> <<"marku", "save_fragment">>]
  @@ [s \in {454} |-> <<"save_fragment">>]
  @@ [s \in {456} |-> <<"marku", "save_query">>]
  @@ [s \in {457} |-> <<"save_query">>]
  @@ [s \in {459, 469} |-> <<"markh", "save_host">>]
  @@ [s \in (463..467) \cup (470..488) \cup (490..507) \cup {460}
      |-> <<"save_host">>]
  @@ [s \in {461, 468} |-> <<"markh", "save_port">>]
  @@ [s \in {462, 489} |-> <<"save_port">>]
  @@ [s \in {511, 522} |-> <<"markh", "save_host", "save_path">>]
  @@ [s \in (516..520) \cup (523..541) \cup (543..560) \cup {512}
      |-> <<"save_host", "markh", "save_path">>]
  @@ [s \in {513} |-> <<"save_path">>]
  @@ [s \in {514, 521} |-> <<"markh", "save_port", "save_path">>]
  @@ [s \in {515, 542} |-> <<"save_port", "markh", "save_path">>]
=============================================================================
