------------------------------- MODULE JsonLua -------------------------------
(***************************************************************************)
(* The callback that turns the events of the JSON parser into Lua values   *)
(* (lua/luaT_json_parser.cpp, _json_parser_cb).  It works on the Lua stack *)
(* of the caller and on a context: the kind of the container being filled, *)
(* a stack of the enclosing kinds, the next index of the current array, a  *)
(* stack of the indices of the enclosing arrays, and the number of keys    *)
(* that wait on the Lua stack for their value.                             *)
(*                                                                         *)
(* Everything a decoding call owns is one record p; an operator takes it   *)
(* and returns the next one.  p.ok is the return value so far, p.ub says   *)
(* that a pop of an empty std::stack or a lua_settable on something that   *)
(* is no table has happened (undefined behaviour).                         *)
(***************************************************************************)
EXTENDS Integers, Sequences, SequencesExt

CONSTANT CharBits   \* the width of the char an array index is saved in

ASSUME CharAssumption == CharBits \in Nat \ {0}

\* What an int becomes when it is stored in a char.
Char(n) == ((n + 2^(CharBits - 1)) % 2^CharBits) - 2^(CharBits - 1)

\* Lua values, tagged with their type.  A table maps keys to values.
Nil == <<"nil">>
Bool(b) == <<"bool", b>>
Integer(n) == <<"int", n>>
Float(text) == <<"num", text>>
Str(bytes) == <<"str", bytes>>
CFunction(bytes) == <<"cfn", bytes>>
Table(f) == <<"tab", f>>
NewTable == Table(<<>>)

\* t[k] = v: a nil removes the key.
Assign(f, k, v) ==
    [x \in (DOMAIN f \ {k}) \cup (IF v = Nil THEN {} ELSE {k}) |->
        IF x = k THEN v ELSE f[x]]

luaT_json_parser_ctx_create ==
    [ok |-> TRUE, ub |-> FALSE, lua |-> <<>>, key_lvl |-> 0, cur_state |-> "NONE",
     state_stack |-> <<>>, array_idx |-> 1, array_stack |-> <<>>]

Fail(p) == [p EXCEPT !.ok = FALSE]
Undefined(p) == [p EXCEPT !.ok = FALSE, !.ub = TRUE]
Then(p, F(_)) == IF p.ok THEN F(p) ELSE p

-----------------------------------------------------------------------------
(* The calls of the Lua API that the callback makes (external).            *)

lua_push(p, v) == [p EXCEPT !.lua = Append(@, v)]

\* lua_settable(L, -3).
lua_settable(p) ==
    LET n == Len(p.lua) IN
    IF n < 3 \/ p.lua[n - 2][1] # "tab"
    THEN Undefined(p)
    ELSE [p EXCEPT !.lua = Append(SubSeq(@, 1, n - 3),
                                  Table(Assign(@[n - 2][2], @[n - 1], @[n])))]

-----------------------------------------------------------------------------
\* The start of an element of an array: its index is pushed.
NextIndex(p) ==
    IF p.cur_state = "ARRAY"
    THEN [lua_push(p, Integer(p.array_idx)) EXCEPT !.array_idx = @ + 1]
    ELSE p

\* Variant: an inner array goes on counting where the outer one is.
ArrayBeginShared(p) ==
    LET q == lua_push(NextIndex(p), NewTable) IN
    [q EXCEPT !.state_stack = Append(@, q.cur_state),
              !.cur_state = "ARRAY",
              !.array_stack = Append(@, Char(q.array_idx))]

\* Variant: the index is saved only for an array in an array.
ArrayBeginUnsaved(p) ==
    LET q == lua_push(NextIndex(p), NewTable) IN
    [q EXCEPT !.state_stack = Append(@, q.cur_state),
              !.cur_state = "ARRAY",
              !.array_stack = IF q.cur_state = "ARRAY" THEN Append(@, Char(q.array_idx)) ELSE @,
              !.array_idx = 1]

\* JSON_T_ARRAY_BEGIN.
ArrayBegin(p) ==
    LET q == lua_push(NextIndex(p), NewTable) IN
    [q EXCEPT !.state_stack = Append(@, q.cur_state),
              !.cur_state = "ARRAY",
              !.array_stack = Append(@, Char(q.array_idx)),
              !.array_idx = 1]

\* JSON_T_OBJECT_BEGIN.
ObjectBegin(p) ==
    LET q == lua_push(NextIndex(p), NewTable) IN
    [q EXCEPT !.state_stack = Append(@, q.cur_state), !.cur_state = "TABLE"]

\* A value in a table needs a key.
WithKey(p) == IF p.key_lvl > 0 THEN [p EXCEPT !.key_lvl = @ - 1] ELSE Fail(p)

\* A finished container becomes a value of the container around it; the
\* outermost one stays on the stack.
Enclose(p) ==
    CASE p.cur_state = "TABLE" -> Then(WithKey(p), lua_settable)
      [] p.cur_state = "ARRAY" -> lua_settable(p)
      [] OTHER -> p

PopState(p) ==
    IF p.state_stack = <<>>
    THEN Undefined(p)
    ELSE [p EXCEPT !.cur_state = Last(p.state_stack), !.state_stack = Front(@)]

PopIndex(p) ==
    IF p.array_stack = <<>>
    THEN Undefined(p)
    ELSE [p EXCEPT !.array_idx = Last(p.array_stack), !.array_stack = Front(@)]

\* JSON_T_ARRAY_END.
ArrayEnd(p) == Then(Then(PopState(p), PopIndex), Enclose)

\* JSON_T_OBJECT_END.
ObjectEnd(p) == Then(PopState(p), Enclose)

\* JSON_T_INTEGER, FLOAT, NULL, TRUE, FALSE and STRING.
Scalar(p, v) ==
    CASE p.cur_state = "TABLE" ->
           IF p.key_lvl > 0 THEN WithKey(lua_settable(lua_push(p, v))) ELSE Fail(p)
      [] p.cur_state = "ARRAY" -> lua_settable(lua_push(NextIndex(p), v))
      [] OTHER -> Fail(p)

\* JSON_T_KEY.
Key(p, bytes) == [lua_push(p, Str(bytes)) EXCEPT !.key_lvl = @ + 1]

-----------------------------------------------------------------------------
\* The bytes of "function".
FunctionName == <<102, 117, 110, 99, 116, 105, 111, 110>>

HexDigits == 48 .. 57 \cup 65 .. 70 \cup 97 .. 102

\* The longest prefix of s with all its members in S, and what follows it.
Span(s, S) ==
    LET i == SelectInSeq(s, LAMBDA c : c \notin S)
    IN  IF i = 0 THEN s ELSE SubSeq(s, 1, i - 1)
After(s, S) == SubSeq(s, Len(Span(s, S)) + 1, Len(s))

\* A number without its sign, and one without 0x.
Unsigned(s) == IF s # <<>> /\ Head(s) \in {43, 45} THEN Tail(s) ELSE s
Unprefixed(s) == IF Len(s) > 1 /\ s[1] = 48 /\ s[2] \in {88, 120} THEN SubSeq(s, 3, Len(s)) ELSE s

\* strtoull(p + 1, nullptr, 16) is neither 0 nor ULONG_MAX, p being the first
\* colon of the C string: blanks, a sign, 0x and up to 16 digits that count.
HasAddress(bytes) ==
    \E from \in {After(Span(bytes, 1 .. 255), 1 .. 255 \ {58})} :
        /\ from # <<>>
        /\ \E number \in {After(Tail(from), (9 .. 13) \cup {32})} :
           \E hex \in {Unprefixed(Unsigned(number))} :
           \E digits \in {After(Span(hex, HexDigits), {48})} :
              /\ Len(digits) \in 1 .. 16
              /\ digits # <<49>> \/ Head(number) # 45
              /\ \E d \in DOMAIN digits : Len(digits) < 16 \/ digits[d] \notin {70, 102}

\* A string that names a function and an address becomes that C function.
_json_parser_special_type(bytes) ==
    IF IsPrefix(FunctionName, bytes) /\ HasAddress(bytes)
    THEN CFunction(bytes)
    ELSE Str(bytes)
=============================================================================
