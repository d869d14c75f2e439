----------------------------- MODULE JsonParser -----------------------------
(***************************************************************************)
(* The JSON parser (json/json_parser.cpp): a pushdown automaton that reads *)
(* one character at a time.  The character is classified, added to the     *)
(* parse buffer, and the table gives either the next state or an action.   *)
(* The stack holds the modes of the open containers.                       *)
(*                                                                         *)
(* The parser is modelled in the configuration of its only user: no        *)
(* comments (a slash outside a string rejects, and the states C1 to C3 are *)
(* never entered), unbounded depth (push never fails), floats converted by *)
(* the parser.  A character is its code.  The actions keep the numbers and *)
(* names of the source.                                                    *)
(***************************************************************************)
EXTENDS JsonLua, TLC, FiniteSetsExt

Quote == 34
Backslash == 92

\* Classes of characters; "__" is the error code.
ascii_class(c) ==
    CASE c \in {9, 10, 13} -> "WHITE"      [] c = 32 -> "SPACE"
      [] c = 123 -> "LCURB"                [] c = 125 -> "RCURB"
      [] c = 91 -> "LSQRB"                 [] c = 93 -> "RSQRB"
      [] c = 58 -> "COLON"                 [] c = 44 -> "COMMA"
      [] c = Quote -> "QUOTE"              [] c = Backslash -> "BACKS"
      [] c = 47 -> "SLASH"                 [] c = 43 -> "PLUS"
      [] c = 45 -> "MINUS"                 [] c = 46 -> "POINT"
      [] c = 48 -> "ZERO"                  [] c \in 49 .. 57 -> "DIGIT"
      [] c = 97 -> "LOW_A"                 [] c = 98 -> "LOW_B"
      [] c = 99 -> "LOW_C"                 [] c = 100 -> "LOW_D"
      [] c = 101 -> "LOW_E"                [] c = 102 -> "LOW_F"
      [] c = 108 -> "LOW_L"                [] c = 110 -> "LOW_N"
      [] c = 114 -> "LOW_R"                [] c = 115 -> "LOW_S"
      [] c = 116 -> "LOW_T"                [] c = 117 -> "LOW_U"
      [] c \in {65, 66, 67, 68, 70} -> "ABCDF"
      [] c = 69 -> "E"                     [] c = 42 -> "STAR"
      [] c < 32 -> "__"                    [] OTHER -> "ETC"

Blank == {"SPACE", "WHITE"}
Digit == {"ZERO", "DIGIT"}
Hex == Digit \cup {"LOW_A", "LOW_B", "LOW_C", "LOW_D", "LOW_E", "LOW_F", "ABCDF", "E"}
Exponent == {"LOW_E", "E"}
Escapable == {"QUOTE", "BACKS", "SLASH", "LOW_B", "LOW_F", "LOW_N", "LOW_R", "LOW_T"}
Classes == Hex \cup Blank \cup Escapable \cup
    {"LCURB", "RCURB", "LSQRB", "RSQRB", "COLON", "COMMA", "PLUS", "MINUS", "POINT",
     "LOW_L", "LOW_S", "LOW_U", "ETC", "STAR"}

\* The entries of the rows of a complete value, and of the rows where a
\* value may start: the classes, and the next state or action.
AfterValue ==
    {<<Blank, "OK">>, <<{"RCURB"}, "-8">>, <<{"RSQRB"}, "-7">>, <<{"COMMA"}, "-3">>}
BeforeValue ==
    {<<{"LCURB"}, "-6">>, <<{"LSQRB"}, "-5">>, <<{"QUOTE"}, "SB">>, <<{"MINUS"}, "MX">>,
     <<{"ZERO"}, "ZX">>, <<{"DIGIT"}, "IX">>, <<{"LOW_F"}, "FA">>, <<{"LOW_N"}, "NU">>,
     <<{"LOW_T"}, "TR">>}

\* state -> its entries; a class that is in none of them rejects.
state_transition_table ==
    [GO |-> {<<Blank, "GO">>, <<{"LCURB"}, "-6">>, <<{"LSQRB"}, "-5">>},
     OK |-> AfterValue,
     OB |-> {<<Blank, "OB">>, <<{"RCURB"}, "-9">>, <<{"QUOTE"}, "SB">>},
     KE |-> {<<Blank, "KE">>, <<{"QUOTE"}, "SB">>},
     CO |-> {<<Blank, "CO">>, <<{"COLON"}, "-2">>},
     VA |-> BeforeValue \cup {<<Blank, "VA">>},
     AR |-> BeforeValue \cup {<<Blank, "AR">>, <<{"RSQRB"}, "-7">>},
     ST |-> {<<{"QUOTE"}, "-4">>, <<{"BACKS"}, "EX">>,
             <<Classes \ {"QUOTE", "BACKS", "WHITE"}, "ST">>},
     ES |-> {<<Escapable, "ST">>, <<{"LOW_U"}, "U1">>},
     U1 |-> {<<Hex, "U2">>},  U2 |-> {<<Hex, "U3">>},
     U3 |-> {<<Hex, "U4">>},  U4 |-> {<<Hex, "UC">>},
     MI |-> {<<{"ZERO"}, "ZE">>, <<{"DIGIT"}, "IT">>},
     ZE |-> AfterValue \cup {<<{"POINT"}, "DF">>},
     IT |-> AfterValue \cup {<<{"POINT"}, "DF">>, <<Digit, "IT">>, <<Exponent, "DE">>},
     FR |-> AfterValue \cup {<<Digit, "FR">>, <<Exponent, "E1">>},
     E1 |-> {<<{"PLUS", "MINUS"}, "E2">>, <<Digit, "E3">>},
     E2 |-> {<<Digit, "E3">>},
     E3 |-> AfterValue \cup {<<Digit, "E3">>},
     T1 |-> {<<{"LOW_R"}, "T2">>},  T2 |-> {<<{"LOW_U"}, "T3">>},  T3 |-> {<<{"LOW_E"}, "OK">>},
     F1 |-> {<<{"LOW_A"}, "F2">>},  F2 |-> {<<{"LOW_L"}, "F3">>},
     F3 |-> {<<{"LOW_S"}, "F4">>},  F4 |-> {<<{"LOW_E"}, "OK">>},
     N1 |-> {<<{"LOW_U"}, "N2">>},  N2 |-> {<<{"LOW_L"}, "N3">>},  N3 |-> {<<{"LOW_L"}, "OK">>},
     FX |-> AfterValue \cup {<<Digit, "FR">>, <<Exponent, "E1">>},
     D1 |-> {<<{"BACKS"}, "D2">>},  D2 |-> {<<{"LOW_U"}, "U1">>}]

Lookup(s, class) ==
    LET entries == {e \in state_transition_table[s] : class \in e[1]}
    IN  IF entries = {} THEN "__" ELSE (CHOOSE e \in entries : TRUE)[2]

-----------------------------------------------------------------------------
\* The parser joined to the context of the callback; one mode is pushed.
new_JSON_parser ==
    LET ctx == luaT_json_parser_ctx_create
        own == [state |-> "GO", type |-> "NONE", escaped |-> FALSE, high |-> 0,
                stack |-> <<"DONE">>, buf |-> <<>>]
    IN  [f \in DOMAIN ctx \cup DOMAIN own |-> IF f \in DOMAIN ctx THEN ctx[f] ELSE own[f]]

push(p, mode) == [p EXCEPT !.stack = Append(@, mode)]

\* Variant: whatever was open is closed.
popAny(p, mode) == IF p.stack = <<>> THEN Fail(p) ELSE [p EXCEPT !.stack = Front(@)]

pop(p, mode) ==
    IF p.stack = <<>> \/ Last(p.stack) # mode
    THEN Fail(p)
    ELSE [p EXCEPT !.stack = Front(@)]

Mode(p) == Last(p.stack)

parse_buffer_clear(p) == [p EXCEPT !.buf = <<>>]
parse_buffer_pop_back_char(p) == [p EXCEPT !.buf = Front(@)]
parse_buffer_push_back_char(p, c) == [p EXCEPT !.buf = Append(@, c)]

\* strtod and sscanf leave out the blanks behind a number.
Numeral(buf) == SelectSeq(buf, LAMBDA c : c \notin {9, 10, 13, 32})
IntegerValue(buf) ==
    LET value == FoldLeft(LAMBDA n, c : IF c = 45 THEN n ELSE 10 * n + c - 48, 0, Numeral(buf))
    IN IF Head(buf) = 45 THEN -value ELSE value

\* The value of a finished literal.
LiteralValue(p) ==
    CASE p.type = "FLOAT" -> Float(Numeral(p.buf))
      [] p.type = "INTEGER" -> Integer(IntegerValue(p.buf))
      [] p.type = "STRING" -> _json_parser_special_type(p.buf)
      [] p.type = "TRUE" -> Bool(TRUE)
      [] p.type = "FALSE" -> Bool(FALSE)
      [] p.type = "NULL" -> Nil

parse_parse_buffer(p) ==
    Then(IF p.type = "NONE" THEN p ELSE Scalar(p, LiteralValue(p)), parse_buffer_clear)

-----------------------------------------------------------------------------
(* \uXXXX: the last four characters of the buffer are a UTF-16 unit.       *)

HexValue(c) ==
    CASE c >= 97 -> c - 87
      [] c >= 65 /\ c < 97 -> c - 55
      [] OTHER -> c % 16

IsHighSurrogate(u) == u \in 55296 .. 56319
IsLowSurrogate(u) == u \in 56320 .. 57343

SurrogatePair(hi, lo) == (hi % 1024) * 1024 + (lo % 1024) + 65536

\* The bytes of a code point with so many trailing bytes.
Utf8(uc, trail) ==
    LET lead == <<0, 192, 224, 240>>[trail + 1]
    IN <<(uc \div 64^trail) + lead>>
       \o [k \in 1 .. trail |-> ((uc \div 64^(trail - k)) % 64) + 128]

\* The UTF-16 unit written by the last four characters.
CodeUnit(buf) ==
    FoldLeft(LAMBDA v, c : 16 * v + HexValue(c), 0, SubSeq(buf, Len(buf) - 3, Len(buf)))

Emit(p, uc, trail) == [p EXCEPT !.buf = @ \o Utf8(uc, trail)]

decode_unicode_char(p) ==
    LET uc == CodeUnit(p.buf)
        q == [p EXCEPT !.buf = SubSeq(@, 1, Len(@) - 6)]
    IN  CASE p.high # 0 /\ IsLowSurrogate(uc) ->
               Emit([q EXCEPT !.high = 0], SurrogatePair(p.high, uc), 3)
          [] p.high # 0 /\ ~IsLowSurrogate(uc) -> Fail(q)
          [] p.high = 0 /\ uc < 128 -> Emit(q, uc, 0)
          [] p.high = 0 /\ uc \in 128 .. 2047 -> Emit(q, uc, 1)
          [] p.high = 0 /\ IsHighSurrogate(uc) -> [q EXCEPT !.high = uc]
          [] p.high = 0 /\ IsLowSurrogate(uc) -> Fail(q)
          [] OTHER -> Emit(q, uc, 2)

\* \b \f \n \r \t \" \\ \/ and the start of \uXXXX.
Escapes == 98 :> <<8>> @@ 102 :> <<12>> @@ 110 :> <<10>> @@ 114 :> <<13>> @@ 116 :> <<9>>
           @@ Quote :> <<Quote>> @@ Backslash :> <<Backslash>> @@ 47 :> <<47>>
           @@ 117 :> <<Backslash, 117>>

add_escaped_char_to_parse_buffer(p, c) ==
    IF c \in DOMAIN Escapes
    THEN [p EXCEPT !.escaped = FALSE, !.buf = Front(@) \o Escapes[c]]
    ELSE Fail(p)

add_char_to_parse_buffer(p, c, class) ==
    CASE p.escaped -> add_escaped_char_to_parse_buffer(p, c)
      [] ~p.escaped /\ (p.type # "NONE" \/ class \notin Blank) ->
           parse_buffer_push_back_char(p, c)
      [] OTHER -> p

-----------------------------------------------------------------------------
(* The actions of the table.                                               *)

Goto(p, s) == [p EXCEPT !.state = s]
Typed(p, t, s) == [p EXCEPT !.type = t, !.state = s]

UnicodeRead(p) ==
    LET q == decode_unicode_char(p)
    IN IF q.ok THEN Goto(q, IF q.high # 0 THEN "D1" ELSE "ST") ELSE q

\* The container ends: the callback is called before the mode is checked.
Close(p, End(_), mode) ==
    LET q == Then(p, End)
        r == IF q.ok THEN pop(q, mode) ELSE q
    IN  IF r.ok THEN Typed(r, "NONE", "OK") ELSE r

EmptyObject(p) == Close(parse_buffer_clear(p), ObjectEnd, "KEY")
ObjectClosed(p) == Close(parse_parse_buffer(parse_buffer_pop_back_char(p)), ObjectEnd, "OBJECT")
ArrayClosed(p) == Close(parse_parse_buffer(parse_buffer_pop_back_char(p)), ArrayEnd, "ARRAY")

ObjectOpened(p) == Goto(push(ObjectBegin(parse_buffer_pop_back_char(p)), "KEY"), "OB")
ArrayOpened(p) == Goto(push(ArrayBegin(parse_buffer_pop_back_char(p)), "ARRAY"), "AR")

StringEnd(p) ==
    LET q == parse_buffer_pop_back_char(p) IN
    CASE Mode(q) = "KEY" -> parse_buffer_clear(Typed(Key(q, q.buf), "NONE", "CO"))
      [] Mode(q) \in {"ARRAY", "OBJECT"} ->
           Then(parse_parse_buffer(q), LAMBDA r : Typed(r, "NONE", "OK"))
      [] OTHER -> Fail(q)

Comma(p) ==
    LET q == parse_parse_buffer(parse_buffer_pop_back_char(p)) IN
    CASE ~q.ok -> q
      [] q.ok /\ Mode(q) = "OBJECT" -> Typed(push(pop(q, "OBJECT"), "KEY"), "NONE", "KE")
      [] q.ok /\ Mode(q) = "ARRAY" -> Typed(q, "NONE", "VA")
      [] OTHER -> Fail(q)

Colon(p) ==
    Then(pop(parse_buffer_pop_back_char(p), "KEY"),
         LAMBDA q : Goto(push(q, "OBJECT"), "VA"))

Perform(p, action) ==
    CASE action = "UC" -> UnicodeRead(p)
      [] action = "EX" -> Goto([p EXCEPT !.escaped = TRUE], "ES")
      [] action = "MX" -> Typed(p, "INTEGER", "MI")
      [] action = "ZX" -> Typed(p, "INTEGER", "ZE")
      [] action = "IX" -> Typed(p, "INTEGER", "IT")
      [] action = "DE" -> Typed(p, "FLOAT", "E1")
      [] action = "DF" -> Typed(p, "FLOAT", "FX")
      [] action = "SB" -> Typed(parse_buffer_clear(p), "STRING", "ST")
      [] action = "NU" -> Typed(p, "NULL", "N1")
      [] action = "FA" -> Typed(p, "FALSE", "F1")
      [] action = "TR" -> Typed(p, "TRUE", "T1")
      [] action = "-9" -> EmptyObject(p)
      [] action = "-8" -> ObjectClosed(p)
      [] action = "-7" -> ArrayClosed(p)
      [] action = "-6" -> ObjectOpened(p)
      [] action = "-5" -> ArrayOpened(p)
      [] action = "-4" -> StringEnd(p)
      [] action = "-3" -> Comma(p)
      [] action = "-2" -> Colon(p)
      [] OTHER -> Fail(p)

\* One character.
JSON_parser_char(p, c) ==
    LET class == ascii_class(c)
        q == IF class = "__" THEN Fail(p) ELSE add_char_to_parse_buffer(p, c, class)
        next == Lookup(p.state, class)
    IN  CASE ~q.ok -> q
          [] q.ok /\ next \in DOMAIN state_transition_table -> Goto(q, next)
          [] OTHER -> Perform(q, next)

\* The end of the text.
JSON_parser_done(p) == p.state = "OK" /\ pop(p, "DONE").ok
=============================================================================
