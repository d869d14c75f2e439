------------------------------ MODULE JsonCodec ------------------------------
(***************************************************************************)
(* JSON for Lua scripts (lua/luaT_json_parser.cpp): what                   *)
(* luaT_json_parser_encode writes for a Lua value, and the decoder of      *)
(* JsonDecode on small instances.                                          *)
(*                                                                         *)
(* The machine decodes every text over an alphabet, character by           *)
(* character.  It is compared with a recursive-descent definition of the   *)
(* values of a text.  A second kind of behaviour starts from a Lua value,  *)
(* and decodes what encode writes for it.                                  *)
(***************************************************************************)
EXTENDS JsonReference, JsonDecode

CONSTANTS
    Alphabet,      \* the characters that may follow outside a string
    StrAlphabet,   \* and inside one
    MaxText,       \* the longest text
    Samples        \* the Lua values to be encoded

VARIABLES
    pending,       \* what is still to be read; <<>> when any character may follow
    given          \* the Lua value that was encoded, if any

jsonVars == <<decodeVars, pending, given>>

None == <<"none">>

-----------------------------------------------------------------------------
(* Encoding.                                                               *)

\* The 6 bits of a continuation byte, or -1.
json_utf8_cont(s, i) == IF s[i] \div 64 = 2 THEN s[i] % 64 ELSE -1

\* The code point at position i and its length; <<0, 0>> when it is invalid.
json_utf8_decode_single(s, i) ==
    LET left == Len(s) - i + 1
        c == s[i]
        Conts(k) == /\ left > k
                    /\ \A j \in 1 .. k : json_utf8_cont(s, i + j) >= 0
        Code(high, k) ==
            FoldLeft(LAMBDA v, j : 64 * v + json_utf8_cont(s, i + j), high, [j \in 1 .. k |-> j])
        Checked(u, S, len) == IF u \in S THEN <<u, len>> ELSE <<0, 0>>
    IN  CASE c < 128 -> <<c, 1>>
          [] c \div 32 = 6 /\ Conts(1) -> Checked(Code(c % 32, 1), 128 .. 2047, 2)
          [] c \div 16 = 14 /\ Conts(2) ->
               Checked(Code(c % 16, 2), (2048 .. 55295) \cup (57344 .. 65535), 3)
          [] c \div 8 = 30 /\ Conts(3) -> Checked(Code(c % 16, 3), 65536 .. 1114111, 4)
          [] OTHER -> <<0, 0>>

HexDigit(d) == IF d < 10 THEN 48 + d ELSE 55 + d

\* What lies at hexdigits[1048575].
Wild == -1

\* \uXXXX.
Unit(u) == <<Backslash, 117>> \o [k \in 1 .. 4 |-> HexDigit((u \div 16^(4 - k)) % 16)]

\* Characters that stand for themselves.
Plain(c) == c \in {32, 33} \/ c \in 35 .. 46 \/ c \in 48 .. 91 \/ c \in 93 .. 127

ShortEscapes == 8 :> 98 @@ 12 :> 102 @@ 10 :> 110 @@ 13 :> 114 @@ 47 :> 47
                @@ Quote :> Quote @@ Backslash :> Backslash

RECURSIVE EscapesFrom(_, _)

\* Variant: control characters are not escaped.
EscapesFromRaw(s, i) ==
    IF i > Len(s) THEN <<>> ELSE <<s[i]>> \o EscapesFrom(s, i + 1)

\* The text of s from position i on, up to a NUL.  What is neither plain nor
\* has a short escape is written by code point, the bits above 16 in a unit of
\* their own; the char of a byte that starts no valid character is negative,
\* and as an unsigned number is far too large for four digits.
EscapesFrom(s, i) ==
    IF i > Len(s) \/ s[i] = 0
    THEN <<>>
    ELSE LET d == json_utf8_decode_single(s, i)
             high == d[1] \div 65536
         IN  CASE Plain(s[i]) -> <<s[i]>> \o EscapesFrom(s, i + 1)
               [] s[i] \in DOMAIN ShortEscapes ->
                    <<Backslash, ShortEscapes[s[i]]>> \o EscapesFrom(s, i + 1)
               [] d[2] = 0 ->
                    <<Backslash, 117, Wild, HexDigit(15), HexDigit(s[i] \div 16), HexDigit(s[i] % 16)>>
                    \o EscapesFrom(s, i + 1)
               [] OTHER -> (IF high # 0 THEN Unit(high) ELSE <<>>)
                           \o Unit(d[1] % 65536) \o EscapesFrom(s, i + d[2])

create_json_escapes(s) == <<Quote>> \o EscapesFrom(s, 1) \o <<Quote>>

\* lua_tolstring of an integer.  A float is represented by what lua_tolstring
\* writes for it: 14 digits, or inf or nan with or without a sign.
RECURSIVE Decimal(_)
Decimal(n) ==
    CASE n < 0 -> <<45>> \o Decimal(-n)
      [] n \in 0 .. 9 -> <<48 + n>>
      [] OTHER -> Decimal(n \div 10) \o <<48 + (n % 10)>>

\* lua_tolstring of a key: NULL unless it is a string or a number.
KeyText(k) ==
    CASE k[1] = "str" -> k[2]
      [] k[1] = "int" -> Decimal(k[2])
      [] k[1] = "num" -> k[2]
      [] OTHER -> <<>>

RECURSIVE Dumps(_), Joined(_, _)

\* The members of f in the order ks, each after a comma.
Joined(f, ks) ==
    IF ks = <<>> THEN {<<>>}
    ELSE { <<44>> \o create_json_escapes(KeyText(Head(ks))) \o <<58>> \o value \o rest :
             value \in Dumps(f[Head(ks)]), rest \in Joined(f, Tail(ks)) }

\* The texts luaT_json_parser_dump_object may write for v: lua_next visits
\* the keys of a table in any order.  "%p" is written as 0x1, or as (nil)
\* for a function that is not a C function.  There is none for a value that
\* has a userdata or a thread in it: encode returns false.
Dumps(v) ==
    CASE v[1] = "nil" -> {<<110, 117, 108, 108>>}
      [] v[1] = "bool" -> {IF v[2] THEN <<116, 114, 117, 101>> ELSE <<102, 97, 108, 115, 101>>}
      [] v[1] = "int" -> {Decimal(v[2])}
      [] v[1] = "num" -> {v[2]}
      [] v[1] = "str" -> {create_json_escapes(v[2])}
      [] v[1] = "cfn" -> {create_json_escapes(v[2])}
      [] v[1] = "luafn" -> {create_json_escapes(FunctionName \o <<58, 40, 110, 105, 108, 41>>)}
      [] v[1] = "tab" ->
           { <<123>> \o SubSeq(m, 2, Len(m)) \o <<125>> :
               m \in UNION { Joined(v[2], ks) : ks \in SetToSeqs(DOMAIN v[2]) } }
      [] v[1] \in {"userdata", "thread"} -> {}

-----------------------------------------------------------------------------
(* Decoding.                                                               *)

\* luaT_json_parser_decode starts, with any text or with an encoded value
\* (whose final NUL is the end of the text).
JsonInit ==
    /\ DecodeInit
    /\ \/ given = None /\ pending = <<>>
       \/ given \in Samples /\ pending \in Dumps(given)

InString == p.state = "ST"

ReadAny ==
    /\ given = None
    /\ Len(text) < MaxText
    /\ \E c \in IF InString THEN StrAlphabet ELSE Alphabet : Read(c)
    /\ UNCHANGED <<pending, given>>

ReadPending ==
    /\ pending # <<>> /\ Head(pending) # Wild
    /\ Read(Head(pending))
    /\ pending' = Tail(pending)
    /\ UNCHANGED given

\* Where encode indexed out of bounds: a character, a byte that decode stops
\* at, or no text at all because the process was killed.
ReadWild ==
    /\ result = "reading" /\ pending # <<>> /\ Head(pending) = Wild
    /\ \/ (\E c \in 1 .. 127 : Read(c)) /\ pending' = Tail(pending)
       \/ pending' = <<>> /\ UNCHANGED decodeVars
       \/ pending' = <<>> /\ result' = "killed" /\ UNCHANGED <<text, scanned, p>>
    /\ UNCHANGED given

EndOfText ==
    /\ pending = <<>>
    /\ FinishText
    /\ UNCHANGED <<pending, given>>

JsonNext == ReadAny \/ ReadPending \/ ReadWild \/ EndOfText

-----------------------------------------------------------------------------
(* Properties.                                                             *)

\* A text is accepted exactly when the grammar gives it a value: the rows of
\* the table and the stack of modes agree with a recursive definition, for
\* every text over the alphabet.
JsonAccepts ==
    given = None /\ result \in {"true", "false"} /\ ~p.ub =>
        (result = "true") = RefText(text).ok

\* What an accepted text leaves on the Lua stack is one table and nothing
\* else, and the table is the value of the text, unless an array follows so
\* many elements that the index saved in a char does not survive.
JsonBuilds ==
    /\ AcceptedBalanced
    /\ given = None /\ result = "true" /\ RefText(text).w < 2^(CharBits - 1) =>
          p.lua = <<RefText(text).v>>

\* Whether c is one character of UTF-8.
Character(c) ==
    /\ \/ c[1] < 128 /\ Len(c) = 1
       \/ c[1] \in 194 .. 223 /\ Len(c) = 2
       \/ c[1] \in 224 .. 239 /\ Len(c) = 3
       \/ c[1] \in 240 .. 244 /\ Len(c) = 4
    /\ \A j \in 2 .. Len(c) : c[j] \in 128 .. 191
    /\ c[1] = 224 => c[2] >= 160
    /\ c[1] = 237 => c[2] < 160
    /\ c[1] = 240 => c[2] >= 144
    /\ c[1] = 244 => c[2] < 144

\* The characters of s up to a NUL; a byte that starts none is on its own.
RECURSIVE CharactersFrom(_, _)
CharactersFrom(s, i) ==
    IF i > Len(s) \/ s[i] = 0 THEN <<>>
    ELSE LET ends == {j \in i .. i + 3 : j <= Len(s) /\ Character(SubSeq(s, i, j))}
             last == IF ends = {} THEN i ELSE CHOOSE j \in ends : TRUE
         IN  <<SubSeq(s, i, last)>> \o CharactersFrom(s, last + 1)

\* The two halves of the code point of a character of four bytes.
High(c) == (c[1] % 8) * 4 + (c[2] % 64) \div 16
Low(c) == (c[2] % 16) * 4096 + (c[3] % 64) * 64 + (c[4] % 64)

\* A character above U+FFFF comes back as two, one for each half.
Returned(c) ==
    LET Bytes(u) == Utf8(u, IF u < 128 THEN 0 ELSE IF u < 2048 THEN 1 ELSE 2)
    IN  IF Len(c) < 4 THEN c ELSE Bytes(High(c)) \o Bytes(Low(c))
ReturnedText(s) == FlattenSeq([i \in DOMAIN CharactersFrom(s, 1) |-> Returned(CharactersFrom(s, 1)[i])])

\* The texts of v, keys included, and its floats.
RECURSIVE TextsOf(_), FloatsOf(_)
TextsOf(v) ==
    CASE v[1] = "tab" -> UNION {{KeyText(k)} \cup TextsOf(v[2][k]) : k \in DOMAIN v[2]}
      [] v[1] = "str" -> {v[2]}
      [] OTHER -> {}
FloatsOf(v) ==
    CASE v[1] = "tab" -> UNION {FloatsOf(v[2][k]) : k \in DOMAIN v[2]}
      [] v[1] = "num" -> {v[2]}
      [] OTHER -> {}

\* Every text of v is UTF-8 up to its first NUL.
ValidTexts(v) ==
    \A s \in TextsOf(v) : \A i \in DOMAIN CharactersFrom(s, 1) : Character(CharactersFrom(s, 1)[i])

\* encode writes what decode rejects: inf and nan, and a half of a character
\* above U+FFFF that looks like a surrogate.
Rejected(v) ==
    \/ \E s \in FloatsOf(v) : \E i \in DOMAIN s : s[i] = 110
    \/ \E s \in TextsOf(v) : \E i \in DOMAIN CharactersFrom(s, 1) :
          LET c == CharactersFrom(s, 1)[i] IN Len(c) = 4 /\ Low(c) \in 55296 .. 57343

\* What may come back for v: keys are strings, one of those with the same
\* text remains, and a function that has no address is the text that was
\* written for it.
RECURSIVE Normal(_)
Normal(v) ==
    CASE v[1] = "tab" ->
           LET From(k) == {x \in DOMAIN v[2] : Str(ReturnedText(KeyText(x))) = k}
               keys == {Str(ReturnedText(KeyText(x))) : x \in DOMAIN v[2]}
           IN  {Table(f) : f \in {g \in [keys -> UNION {Normal(v[2][x]) : x \in DOMAIN v[2]}] :
                                    \A k \in keys : \E x \in From(k) : g[k] \in Normal(v[2][x])}}
      [] v[1] = "str" -> {_json_parser_special_type(ReturnedText(v[2]))}
      [] v[1] = "luafn" -> {Str(FunctionName \o <<58, 40, 110, 105, 108, 41>>)}
      [] OTHER -> {v}

\* Decoding what encode wrote for a table of UTF-8 texts gives this table back
\* and nothing else, escaped strings included - with its keys as strings, texts
\* cut at a NUL, and a character above U+FFFF, which is not written as a
\* surrogate pair, as two others - or is rejected for a float or a character
\* that JSON has no such text for.
EncodeDecodes ==
    given # None /\ ValidTexts(given) /\ result # "reading" =>
        IF Rejected(given) THEN result = "false"
        ELSE result = "true" /\ \E v \in Normal(given) : p.lua = <<v>>
=============================================================================
