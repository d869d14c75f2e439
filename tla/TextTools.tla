------------------------------ MODULE TextTools ------------------------------
(***************************************************************************)
(* The conversions of tools/Tools.cpp and tools/base64.cpp that scripts    *)
(* and the rest of the program use.  A text is a sequence of bytes.  Each  *)
(* is written the way the code computes it and compared with what it is    *)
(* for.                                                                    *)
(***************************************************************************)
EXTENDS Integers, Sequences, SequencesExt, FiniteSetsExt

CONSTANTS
    TextSamples,   \* the texts to be converted
    IntBits        \* the width of the int of splitString

VARIABLE sample    \* the text at hand

TextInit == sample \in TextSamples

\* s up to the first c.
UpTo(s, c) ==
    LET at == {i \in 1 .. Len(s) : s[i] = c}
    IN IF at = {} THEN s ELSE SubSeq(s, 1, Min(at) - 1)

\* A C string ends at the first NUL.
CString(s) == UpTo(s, 0)

\* The groups of n bytes of s, the last one shorter.
Groups(s, n) ==
    [k \in 1 .. (Len(s) + n - 1) \div n |->
        SubSeq(s, n * (k - 1) + 1, IF n * k > Len(s) THEN Len(s) ELSE n * k)]

ZeroPadded(g, n) == [i \in 1 .. n |-> IF i <= Len(g) THEN g[i] ELSE 0]

-----------------------------------------------------------------------------
(* base64.cpp.  A digit is its value 0 .. 63; Pad is '=', and any other    *)
(* character that is no digit.                                             *)

Pad == 64

Sextets(b) ==
    <<b[1] \div 4, ((b[1] % 4) * 16) + (b[2] \div 16),
      ((b[2] % 16) * 4) + (b[3] \div 64), b[3] % 64>>

Octets(d) ==
    <<((d[1] * 4) + ((d[2] \div 16) % 4)) % 256,
      (((d[2] % 16) * 16) + ((d[3] \div 4) % 16)) % 256,
      (((d[3] % 4) * 64) + d[4]) % 256>>

\* Variant: a last group of two bytes is written with one digit too few.
EncodeGroupShort(g) ==
    [j \in 1 .. 4 |-> IF j <= Len(g) \/ Len(g) = 3 THEN Sextets(ZeroPadded(g, 3))[j] ELSE Pad]

EncodeGroup(g) ==
    [j \in 1 .. 4 |-> IF j <= Len(g) + 1 THEN Sextets(ZeroPadded(g, 3))[j] ELSE Pad]

\* find() of the NUL that fills a last group is npos, 255 in a byte.
DecodeGroup(g) ==
    SubSeq(Octets([j \in 1 .. 4 |-> IF j <= Len(g) THEN g[j] ELSE 255]), 1, Len(g) - 1)

base64_encode(s) == FlattenSeq([k \in 1 .. Len(Groups(s, 3)) |-> EncodeGroup(Groups(s, 3)[k])])

base64_decode(t) ==
    LET digits == UpTo(t, Pad)
    IN  FlattenSeq([k \in 1 .. Len(Groups(digits, 4)) |-> DecodeGroup(Groups(digits, 4)[k])])

\* What a script gets: lua_pushstring takes the bytes for a C string.
cc_base64_decode(t) == CString(base64_decode(t))

\* Decoding gives the bytes back; a script gets them up to the first NUL.
Base64Agrees(s) ==
    /\ base64_decode(base64_encode(s)) = s
    /\ 0 \notin ToSet(s) => cc_base64_decode(base64_encode(s)) = s
    /\ Len(base64_encode(s)) = 4 * Len(Groups(s, 3))

-----------------------------------------------------------------------------
(* splitString.                                                            *)

\* The pieces between separators, with or without an empty last one.
RECURSIVE Pieces(_, _, _)
Pieces(s, sc, keep) ==
    LET at == {i \in 1 .. Len(s) : s[i] = sc} IN
    IF at = {}
    THEN IF s = <<>> /\ ~keep THEN <<>> ELSE <<s>>
    ELSE <<SubSeq(s, 1, Min(at) - 1)>> \o Pieces(SubSeq(s, Min(at) + 1, Len(s)), sc, keep)

splitStrings(s, sc) == Pieces(CString(s), sc, TRUE)

IsDigits(g) == g # <<>> /\ \A i \in 1 .. Len(g) : g[i] \in 48 .. 57

\* std::stoi, stol, stoll: the number at the start of a piece.
Number(g) ==
    LET digits == CHOOSE n \in 0 .. Len(g) :
                      /\ \A i \in 1 .. n : g[i] \in 48 .. 57
                      /\ n < Len(g) => g[n + 1] \notin 48 .. 57
    IN FoldLeft(LAMBDA v, c : 10 * v + c - 48, 0, SubSeq(g, 1, digits))

MaxInt == 2^(IntBits - 1) - 1
IntOf(n) == ((n + MaxInt + 1) % 2^IntBits) - MaxInt - 1

\* The numbers, or <<"false">>.  A piece that starts with no digit fails;
\* one that is too large fails for a vector of int, and loses its high bits
\* for one of long, since the value is held in an int.
splitNumbers(s, sc, long) ==
    LET pieces == Pieces(CString(s), sc, FALSE) IN
    IF \A k \in 1 .. Len(pieces) : /\ pieces[k] # <<>> /\ pieces[k][1] \in 48 .. 57
                                   /\ long \/ Number(pieces[k]) <= MaxInt
    THEN [k \in 1 .. Len(pieces) |-> IntOf(Number(pieces[k]))]
    ELSE <<"false">>

Join(pieces, sc) ==
    FoldLeft(LAMBDA t, g : t \o <<sc>> \o g, Head(pieces), Tail(pieces))

\* Joining the pieces gives the text back, no piece holds a separator, and
\* a list of numerals that fit in an int gives its numbers.
SplitAgrees(s) ==
    LET pieces == splitStrings(s, 44) IN
    /\ Join(pieces, 44) = CString(s)
    /\ \A k \in 1 .. Len(pieces) : 44 \notin ToSet(pieces[k])
    /\ (\A k \in 1 .. Len(pieces) : IsDigits(pieces[k]) /\ Number(pieces[k]) <= MaxInt) =>
          \A long \in BOOLEAN :
             splitNumbers(s, 44, long) = [k \in 1 .. Len(pieces) |-> Number(pieces[k])]

-----------------------------------------------------------------------------
(* isUTF8String.                                                           *)

\* The number of bytes that must follow the byte at i, or -1.
Following(s, i) ==
    CASE s[i] < 128 -> 0
      [] s[i] \in 192 .. 223 -> 1
      [] s[i] = 237 /\ i < Len(s) /\ (s[i + 1] \div 32) % 2 = 1 /\ s[i + 1] >= 128 -> -1
      [] s[i] \in 224 .. 239 -> 2
      [] s[i] \in 240 .. 247 -> 3
      [] OTHER -> -1

Continuation(c) == c \in 128 .. 191

RECURSIVE Utf8From(_, _)
Utf8From(s, i) ==
    \/ i > Len(s)
    \/ LET n == Following(s, i) IN
       /\ n >= 0
       /\ i + n <= Len(s)
       /\ \A j \in i + 1 .. i + n : Continuation(s[j])
       /\ Utf8From(s, i + n + 1)

isUTF8String(s) == Utf8From(s, 1)

\* The forms of a character: a lead byte and its continuations, surrogates
\* excluded.  (Overlong forms and code points above U+10FFFF are let pass.)
Characters ==
    [lead : 0 .. 127, n : {0}] \cup [lead : 192 .. 223, n : {1}]
    \cup [lead : 224 .. 239, n : {2}] \cup [lead : 240 .. 247, n : {3}]

\* A text is UTF-8 when it falls into characters: every byte that is not a
\* continuation is the lead of the continuations up to the next such byte.
Utf8Agrees(s) ==
    isUTF8String(s) =
        /\ s # <<>> => ~Continuation(s[1])
        /\ \A i \in 1 .. Len(s) : ~Continuation(s[i]) =>
              \E c \in Characters :
                 /\ c.lead = s[i]
                 /\ i + c.n <= Len(s)
                 /\ \A j \in i + 1 .. i + c.n : Continuation(s[j])
                 /\ i + c.n < Len(s) => ~Continuation(s[i + c.n + 1])
                 /\ ~(s[i] = 237 /\ s[i + 1] >= 160)

-----------------------------------------------------------------------------
(* openssl_des_encrypt and openssl_des_decrypt, on blocks of Block bytes.  *)
(* DES itself is external: a permutation of the blocks for each key.       *)

Block == 2
DesKey(key) == ZeroPadded(key, Block)
DesBlock(b, key) == [i \in 1 .. Block |-> (b[i] + DesKey(key)[i]) % 256]
DesBlockInverse(b, key) == [i \in 1 .. Block |-> (b[i] - DesKey(key)[i]) % 256]

Blocks(s) == [k \in 1 .. Len(Groups(s, Block)) |-> ZeroPadded(Groups(s, Block)[k], Block)]

openssl_des_encrypt(s, key) ==
    FlattenSeq([k \in 1 .. Len(Blocks(s)) |-> DesBlock(Blocks(s)[k], key)])
openssl_des_decrypt(s, key) ==
    FlattenSeq([k \in 1 .. Len(Blocks(s)) |-> DesBlockInverse(Blocks(s)[k], key)])

\* What is decrypted is the text filled with NULs, for a key shorter or
\* longer than a block.
DesAgrees(s) ==
    \A key \in {<<>>, <<7>>, <<7, 8, 9>>} :
        openssl_des_decrypt(openssl_des_encrypt(s, key), key) = FlattenSeq(Blocks(s))

-----------------------------------------------------------------------------
\* Every conversion of the text at hand does what it is for: base64 and DES
\* can be undone, the pieces of a split text make up the text, and the test
\* for UTF-8 is exact up to overlong forms.
TextAgrees ==
    /\ Base64Agrees(sample)
    /\ SplitAgrees(sample)
    /\ Utf8Agrees(sample)
    /\ DesAgrees(sample)
=============================================================================
