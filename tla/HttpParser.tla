----------------------------- MODULE HttpParser -----------------------------
(***************************************************************************)
(* The HTTP request parser (tools/HttpParser.cpp).  parse() gets all bytes *)
(* that have arrived and are not consumed, starts from the beginning every *)
(* time, and returns the length of the first request, 0 when more is       *)
(* needed and -1 when the bytes are no request.  The caller calls it for   *)
(* every piece that arrives and consumes what was returned.                *)
(*                                                                         *)
(* A byte is one of the delimiters, "x" for any other, or stands for a     *)
(* word: "CL" for Content-Length, and a number for its numeral.            *)
(***************************************************************************)
EXTENDS Integers, Sequences, SequencesExt

CONSTANTS
    Requests,     \* the byte streams a peer may send
    SizeMod       \* 2^w of size_t

VARIABLES
    stream,       \* what the peer sends
    arrived,      \* how many bytes of it have arrived
    taken,        \* how many the caller has consumed
    served,       \* the requests the caller has got
    failed        \* parse returned -1

httpVars == <<stream, arrived, taken, served, failed>>

Space == "sp"
Invalid == SizeMod - 1    \* (size_t)-1

\* The bytes of d from a to b - 1, counted from 0.
Slice(d, a, b) == SubSeq(d, a + 1, b)

\* ltrim and rtrim.
Trim(v) ==
    LET kept == {i \in 1 .. Len(v) : v[i] # Space}
    IN  IF kept = {} THEN <<>>
        ELSE SubSeq(v, CHOOSE i \in kept : \A j \in kept : i <= j,
                       CHOOSE i \in kept : \A j \in kept : i >= j)

\* The parser before the first byte: the fields were cleared.
Cleared ==
    [ps |-> "method", nread |-> 0, prevread |-> 0, prevc |-> "", name |-> <<>>,
     method |-> <<>>, url |-> <<>>, version |-> <<>>, headers |-> <<>>]

\* The headers as a set of pairs.
Names(s) == {h[1] : h \in ToSet(s.headers)}

\* One byte, with s the parser before it and d all bytes.
Step(s, c, d) ==
    LET n == s.nread + 1
        t == [s EXCEPT !.nread = n, !.prevc = c]
        eol == c = "lf" /\ s.prevc = "cr"
        value == Trim(Slice(d, s.prevread, n - 2))
    IN  CASE s.ps = "method" /\ c = Space ->
               [t EXCEPT !.ps = "url", !.method = Slice(d, s.prevread, n - 1), !.prevread = n]
          [] s.ps = "url" /\ c = Space ->
               [t EXCEPT !.ps = "version", !.url = Slice(d, s.prevread, n - 1), !.prevread = n]
          [] s.ps = "version" /\ eol ->
               [t EXCEPT !.ps = "name", !.version = Slice(d, s.prevread, n - 2), !.prevread = n]
          [] s.ps = "name" /\ eol -> [t EXCEPT !.ps = "done"]
          [] s.ps = "name" /\ c = ":" ->
               [t EXCEPT !.ps = "value", !.name = Slice(d, s.prevread, n - 1), !.prevread = n]
          [] s.ps = "value" /\ eol ->
               [t EXCEPT !.ps = IF s.name \in Names(s) THEN "error" ELSE "name",
                         !.headers = Append(@, <<s.name, value>>),
                         !.prevread = n]
          [] s.ps \in {"done", "error"} -> s
          [] OTHER -> t

Scan(d) == FoldLeft(LAMBDA s, c : Step(s, c, d), Cleared, d)

\* std::stol of the value of Content-Length: <<>> when it throws.
LengthValue(s) ==
    LET h == CHOOSE h \in ToSet(s.headers) : h[1] = <<"CL">>
    IN  IF h[2] # <<>> /\ h[2][1] \in {"0", "1", "2", "-1"}
        THEN <<CASE h[2][1] = "0" -> 0 [] h[2][1] = "1" -> 1
                 [] h[2][1] = "2" -> 2 [] OTHER -> -1>>
        ELSE <<>>

\* Variant: the body need not have arrived.
parseEarly(d) ==
    LET s == Scan(d) IN
    CASE s.ps = "error" -> Invalid
      [] s.ps # "error" /\ s.ps # "done" -> 0
      [] s.ps = "done" /\ <<"CL">> \in Names(s) /\ LengthValue(s) = <<>> -> Invalid
      [] s.ps = "done" /\ <<"CL">> \in Names(s) /\ LengthValue(s) # <<>> ->
           LET n == (s.nread + LengthValue(s)[1]) % SizeMod
           IN  IF Len(d) < n THEN Len(d) ELSE n
      [] OTHER -> s.nread

parse(d) ==
    LET s == Scan(d) IN
    CASE s.ps = "error" -> Invalid
      [] s.ps # "error" /\ s.ps # "done" -> 0
      [] s.ps = "done" /\ <<"CL">> \in Names(s) /\ LengthValue(s) = <<>> -> Invalid
      [] s.ps = "done" /\ <<"CL">> \in Names(s) /\ LengthValue(s) # <<>> ->
           LET n == (s.nread + LengthValue(s)[1]) % SizeMod
           IN  IF Len(d) < n THEN 0 ELSE n
      [] OTHER -> s.nread

\* What a request is to the caller.
Request(d) ==
    LET s == Scan(d) IN [method |-> s.method, url |-> s.url, headers |-> s.headers, len |-> parse(d)]

-----------------------------------------------------------------------------
HttpInit ==
    /\ stream \in Requests
    /\ arrived = 0
    /\ taken = 0
    /\ served = <<>>
    /\ failed = FALSE

\* A piece arrives, of any length.
Arrive ==
    /\ \E n \in arrived + 1 .. Len(stream) : arrived' = n
    /\ UNCHANGED <<stream, taken, served, failed>>

\* The caller parses what it has, and consumes a complete request.
Parse ==
    LET d == Slice(stream, taken, arrived)
        n == parse(d)
    IN  /\ ~failed
        /\ n # 0
        /\ failed' = (n = Invalid)
        /\ IF n = Invalid
           THEN UNCHANGED <<taken, served>>
           ELSE /\ taken' = taken + n
                /\ served' = Append(served, Request(d))
        /\ UNCHANGED <<stream, arrived>>

HttpNext == Arrive \/ Parse

-----------------------------------------------------------------------------
\* The requests of d when all of it is there.
RECURSIVE Whole(_)
Whole(d) ==
    IF d = <<>> \/ parse(d) \in {0, Invalid}
    THEN <<>>
    ELSE <<Request(d)>> \o Whole(SubSeq(d, parse(d) + 1, Len(d)))

\* However the bytes are cut into pieces, the caller gets the requests it
\* would get from all the bytes at once, in order, and never consumes bytes
\* that have not arrived.
HttpChunking ==
    /\ IsPrefix(served, Whole(stream))
    /\ taken <= arrived
    /\ arrived = Len(stream) /\ parse(Slice(stream, taken, arrived)) = 0 =>
          served = Whole(stream)
=============================================================================
