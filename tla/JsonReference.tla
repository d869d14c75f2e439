---------------------------- MODULE JsonReference ----------------------------
(***************************************************************************)
(* The values of JSON texts by recursive descent, to compare the automaton *)
(* of JsonParser with: the value that starts at position i of t, the       *)
(* position behind it, and the largest index in an array that follows an   *)
(* element with a bracket in it (an array, at any depth).                  *)
(***************************************************************************)
EXTENDS JsonParser

Bad == [ok |-> FALSE, i |-> 0, v |-> Nil, w |-> 0]
Good(i, v, w) == [ok |-> TRUE, i |-> i, v |-> v, w |-> w]
Larger(a, b) == IF a > b THEN a ELSE b

Skip(t, i) ==
    CHOOSE j \in i .. Len(t) + 1 :
        /\ \A k \in i .. j - 1 : t[k] \in {9, 10, 13, 32}
        /\ j <= Len(t) => t[j] \notin {9, 10, 13, 32}

Digits(s) == \A k \in 1 .. Len(s) : s[k] \in 48 .. 57

\* A numeral: the digits behind the point may be missing, and a plain 0 has
\* no exponent.
IsNumeral(s) ==
    LET body == IF s # <<>> /\ s[1] = 45 THEN Tail(s) ELSE s IN
    \E a \in 1 .. Len(body), b \in 1 .. Len(body) :
        LET int == SubSeq(body, 1, a)
            frac == SubSeq(body, a + 1, b)
            exp == SubSeq(body, b + 1, Len(body))
        IN  /\ a <= b
            /\ Digits(int) /\ (int[1] = 48 => a = 1)
            /\ frac # <<>> => frac[1] = 46 /\ Digits(Tail(frac))
            /\ exp # <<>> =>
                  /\ exp[1] \in {69, 101}
                  /\ int # <<48>> \/ frac # <<>>
                  /\ Len(exp) > 1
                  /\ LET e == SubSeq(exp, IF exp[2] \in {43, 45} THEN 3 ELSE 2, Len(exp))
                     IN  e # <<>> /\ Digits(e)

NumberChars == 48 .. 57 \cup {43, 45, 46, 69, 101}

RefNumber(t, i) ==
    LET j == CHOOSE j \in i .. Len(t) + 1 :
                 /\ \A k \in i .. j - 1 : t[k] \in NumberChars
                 /\ j <= Len(t) => t[j] \notin NumberChars
        s == SubSeq(t, i, j - 1)
    IN  CASE ~IsNumeral(s) -> Bad
          [] IsNumeral(s) /\ \E k \in 1 .. Len(s) : s[k] \in {46, 69, 101} -> Good(j, Float(s), 0)
          [] OTHER -> Good(j, Integer(IntegerValue(s)), 0)

RECURSIVE RefString(_, _, _), RefValue(_, _), RefElements(_, _, _, _, _), RefMembers(_, _, _, _)

\* The rest of a string without \uXXXX.
RefString(t, i, bytes) ==
    CASE i > Len(t) \/ (i <= Len(t) /\ t[i] < 32) -> Bad
      [] i <= Len(t) /\ t[i] = Quote -> Good(i + 1, Str(bytes), 0)
      [] i < Len(t) /\ t[i] = Backslash ->
           IF t[i + 1] \in DOMAIN Escapes \ {117}
           THEN RefString(t, i + 2, bytes \o Escapes[t[i + 1]])
           ELSE Bad
      [] i = Len(t) /\ t[i] = Backslash -> Bad
      [] OTHER -> RefString(t, i + 1, Append(bytes, t[i]))

RefValue(t, i) ==
    LET word(v, s) == IF i + Len(s) <= Len(t) + 1 /\ SubSeq(t, i, i + Len(s) - 1) = s
                  THEN Good(i + Len(s), v, 0) ELSE Bad
    IN  CASE i > Len(t) -> Bad
          [] i <= Len(t) /\ t[i] = Quote -> RefString(t, i + 1, <<>>)
          [] i <= Len(t) /\ t[i] = 91 ->
               IF Skip(t, i + 1) <= Len(t) /\ t[Skip(t, i + 1)] = 93
               THEN Good(Skip(t, i + 1) + 1, NewTable, 0)
               ELSE RefElements(t, i + 1, <<>>, 1, 0)
          [] i <= Len(t) /\ t[i] = 123 ->
               IF Skip(t, i + 1) <= Len(t) /\ t[Skip(t, i + 1)] = 125
               THEN Good(Skip(t, i + 1) + 1, NewTable, 0)
               ELSE RefMembers(t, i + 1, <<>>, 0)
          [] i <= Len(t) /\ t[i] = 116 -> word(Bool(TRUE), <<116, 114, 117, 101>>)
          [] i <= Len(t) /\ t[i] = 102 -> word(Bool(FALSE), <<102, 97, 108, 115, 101>>)
          [] i <= Len(t) /\ t[i] = 110 -> word(Nil, <<110, 117, 108, 108>>)
          [] OTHER -> RefNumber(t, i)

\* The elements from number n on, into f.
RefElements(t, i, f, n, w) ==
    LET from == Skip(t, i)
        e == RefValue(t, from)
        j == Skip(t, e.i)
        g == Assign(f, Integer(n), e.v)
        nested == \E k \in from .. e.i - 1 : t[k] = 91
        ww == Larger(Larger(w, e.w), IF nested THEN n + 1 ELSE 0)
    IN  CASE ~e.ok -> Bad
          [] e.ok /\ j <= Len(t) /\ t[j] = 93 -> Good(j + 1, Table(g), ww)
          [] e.ok /\ j <= Len(t) /\ t[j] = 44 -> RefElements(t, j + 1, g, n + 1, ww)
          [] OTHER -> Bad

\* The members, into f.
RefMembers(t, i, f, w) ==
    LET a == Skip(t, i)
        k == IF a <= Len(t) /\ t[a] = Quote THEN RefString(t, a + 1, <<>>) ELSE Bad
        b == IF k.ok THEN Skip(t, k.i) ELSE Len(t) + 1
        e == IF b <= Len(t) /\ t[b] = 58 THEN RefValue(t, Skip(t, b + 1)) ELSE Bad
        j == Skip(t, e.i)
        g == Assign(f, k.v, e.v)
    IN  CASE ~e.ok -> Bad
          [] e.ok /\ j <= Len(t) /\ t[j] = 125 -> Good(j + 1, Table(g), Larger(w, e.w))
          [] e.ok /\ j <= Len(t) /\ t[j] = 44 -> RefMembers(t, j + 1, g, Larger(w, e.w))
          [] OTHER -> Bad

\* A text is one object or array between blanks.
RefText(t) ==
    LET i == Skip(t, 1)
        r == IF i <= Len(t) /\ t[i] \in {91, 123} THEN RefValue(t, i) ELSE Bad
    IN  IF r.ok /\ Skip(t, r.i) = Len(t) + 1 THEN r ELSE Bad
=============================================================================
