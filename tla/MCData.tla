------------------------------- MODULE MCData -------------------------------
(* An instance of the components that run in one thread, or share nothing  *)
(* but a word, for TLC.  A behaviour exercises one of them, its subject,   *)
(* while the others rest in their initial states: the state space is the   *)
(* union of theirs.                                                        *)
EXTENDS ByteBuffer, JsonCodec, MessageParser, HttpParser, TextTools,
        Configuration, ClockTimer, Jscode

CONSTANT MaxBytes     \* bytes that pass through the buffer

VARIABLE subject

BytesBound == consumed <= MaxBytes

-----------------------------------------------------------------------------
(* JSON: blank { } [ ] : , " - . 0 1 e l n u, and in strings " \ n.        *)

MCAlphabet == {32, 123, 125, 91, 93, 58, 44, 34, 45, 46, 48, 49, 101, 108, 110, 117}
MCStrAlphabet == {34, 92, 110}

\* U+00E9, U+20AC, U+FFFF, a quote, a tab, a slash, a newline, DEL, a
\* backslash.
Text == <<195, 169, 226, 130, 172, 239, 191, 191, 34, 9, 47, 10, 127, 92>>
Pointer == FunctionName \o <<58, 48, 120, 49>>

MCSamples ==
    { NewTable,
      Table(Str(<<97>>) :> Str(Text) @@ Str(<<98>>) :> Bool(TRUE)),
      Table(Str(Text) :> Bool(FALSE) @@ Integer(1) :> Integer(-20)),
      Table(Integer(1) :> Table(Str(<<>>) :> Integer(7)) @@ Bool(TRUE) :> Float(<<49, 101, 43, 57>>)),
      \* U+1F600, U+10041 and U+1D800, whose halves are a character, a letter
      \* and a surrogate; NUL and what it cuts off; keys with the same text.
      Table(Str(<<97>>) :> Str(<<240, 159, 152, 128, 240, 144, 129, 129>>)),
      Table(Str(<<97>>) :> Str(<<240, 157, 160, 128>>)),
      Table(Str(<<97, 0, 98>>) :> Str(<<98, 0, 255>>) @@ Str(<<97>>) :> Str(<<>>)),
      Table(Integer(1) :> Bool(TRUE) @@ Str(<<49>>) :> Bool(FALSE) @@ Float(<<49, 46, 53>>) :> NewTable),
      \* inf, -nan; bytes that start no character, an overlong one, a surrogate.
      Table(Integer(1) :> Float(<<105, 110, 102>>)),
      Table(Integer(1) :> Float(<<45, 110, 97, 110>>)),
      Table(Integer(1) :> Str(<<255, 98>>)),
      Table(Str(<<192, 128>>) :> Bool(TRUE)),
      Table(Integer(1) :> Str(<<237, 160, 128>>)),
      \* Texts that are no addresses: zero, too large, ULONG_MAX, no digit.
      Table(Integer(1) :> Str(FunctionName \o <<58, 48, 120>>)
            @@ Integer(2) :> Str(FunctionName \o <<58>> \o [i \in 1 .. 17 |-> 49])
            @@ Integer(3) :> Str(FunctionName \o <<58, 32, 45, 49>>)
            @@ Integer(4) :> Str(FunctionName \o <<58>>)),
      Table(Integer(1) :> Str(FunctionName \o <<58, 9, 45, 48, 88, 70>>)),
      Table(Integer(1) :> <<"userdata">>),
      Table(Integer(1) :> CFunction(Pointer) @@ Integer(2) :> <<"luafn", <<>>>>),
      Table(Str(FunctionName) :> Str(FunctionName) @@ Integer(0) :> Table(Integer(3) :> NewTable)) }

-----------------------------------------------------------------------------
(* Messages: numbers, texts, repeated fields and messages in messages; two *)
(* types of proto3 and one, N, of proto2; zeros and empty strings; and     *)
(* tables that fail to encode before and after a field was set.            *)

Fld(name, kind, type, repeated, presence) ==
    [name |-> name, kind |-> kind, type |-> type, repeated |-> repeated, presence |-> presence]

MCSchema ==
    [M |-> <<Fld("a", "int", "", FALSE, FALSE), Fld("s", "str", "", FALSE, FALSE),
             Fld("r", "int", "", TRUE, FALSE), Fld("m", "msg", "N", FALSE, TRUE)>>,
     N |-> <<Fld("a", "int", "", FALSE, TRUE), Fld("q", "msg", "O", TRUE, FALSE)>>,
     O |-> <<Fld("s", "str", "", FALSE, FALSE)>>]

TableO == Table(Str("s") :> Str(<<97>>))
TableN == Table(Str("a") :> Integer(3)
                @@ Str("q") :> Table(Integer(1) :> TableO
                                     @@ Integer(2) :> Table(Str("s") :> Integer(7))))
MCTables ==
    { NewTable, TableN, TableO,
      Table(Str("a") :> Integer(2) @@ Str("m") :> TableN
            @@ Str("r") :> Table(Integer(1) :> Integer(4) @@ Integer(2) :> Integer(5))),
      Table(Str("a") :> Integer(2) @@ Str("s") :> NewTable),
      Table(Str("s") :> Str(<<98, 99>>) @@ Str("m") :> NewTable),
      Table(Str("a") :> Integer(0) @@ Str("s") :> Str(<<>>) @@ Str("r") :> Table(Integer(1) :> Str(<<55>>))),
      Table(Str("a") :> Bool(TRUE) @@ Str("m") :> Table(Str("a") :> Integer(0))),
      Table(Str("a") :> Integer(0) @@ Str("s") :> Integer(7)),
      Table(Str("r") :> Table(Integer(1) :> Integer(4)) @@ Str("m") :> Integer(3)) }

-----------------------------------------------------------------------------
(* HTTP: requests one after the other, with and without a body, and what   *)
(* is none.                                                                *)

Line == <<"x", "sp", "x", "sp", "x", "cr", "lf">>
EndLine == <<"cr", "lf">>
Header(name, value) == <<name, ":", "sp">> \o value \o EndLine

MCRequests ==
    { <<>>,
      Line \o EndLine \o Line \o Header("CL", <<"2">>) \o EndLine \o <<"x", "lf">>,
      Line \o Header("CL", <<"1", "sp">>) \o Header("x", <<>>) \o EndLine \o <<"cr">> \o Line \o EndLine,
      Line \o Header("x", <<"x">>) \o Header("x", <<":", "sp", "x">>) \o EndLine,
      Line \o Header("CL", <<"x">>) \o EndLine,
      Line \o Header("CL", <<"-1">>) \o EndLine \o Line \o EndLine,
      Line \o <<"x", "cr", "lf">> \o Line \o EndLine,
      <<"sp", "sp", "cr", "cr", "lf", "cr", "x", "cr", "lf">>
          \o Line \o Header("CL", <<"0">>) \o Header("x", <<"sp">>) \o EndLine,
      Line \o Header("CL", <<"2">>) \o EndLine \o <<"x">> }

-----------------------------------------------------------------------------
(* Text: NUL , 1 and bytes of each class of UTF-8.                         *)

MCTexts == UNION {[1 .. n -> {0, 44, 49, 129, 165, 200, 226, 237, 240}] : n \in 0 .. 3}
           \cup [1 .. 4 -> {44, 49, 165, 237, 240}]

-----------------------------------------------------------------------------
(* Configuration: elements, attributes and siblings of the same name, text *)
(* between elements, two top-level elements.                               *)

Word(w) == <<"word", w>>
Num(n) == <<"num", n>>
Element(name, attrs, kids) == [name |-> name, attrs |-> attrs, kids |-> kids]
Type(kind, bits) == [kind |-> kind, bits |-> bits]
Setting(key, type, val) == [key |-> key, type |-> type, val |-> val]

MCDocuments ==
    { <<>>,
      <<Element("root", <<<<"a", Word("x")>>>>,
          <<Element("log", <<<<"a", Word("y")>>, <<"b", Num(9)>>>>, <<>>),
            Element("", <<>>, <<>>),
            Element("log", <<<<"b", Word("True")>>, <<"b", Word("z")>>>>,
                    <<Element("b", <<<<"a", Word("u")>>>>, <<>>)>>)>>)>>,
      <<Element("root", <<<<"b", Word("x")>>>>,
          <<Element("log", <<>>, <<Element("b", <<<<"a", Word("v")>>>>, <<>>)>>)>>),
        Element("log", <<<<"b", Num(-3)>>>>, <<Element("b", <<<<"a", Word("w")>>>>, <<>>)>>)>> }

MCSettings ==
    { Setting(<<"log", "b">>, Type("bool", 1), TRUE),
      Setting(<<"log", "b">>, Type("signed", 2), -2),
      Setting(<<"root", "b">>, Type("unsigned", 2), 3),
      Setting(<<"k">>, Type("unsigned", 4), 15),
      Setting(<<"k">>, Type("signed", 4), -8),
      Setting(<<"k">>, Type("text", 0), Word("?")) }

-----------------------------------------------------------------------------
Subjects == {"buffer", "json", "messages", "http", "text", "configuration", "clock", "jscode"}

DataInit ==
    /\ subject \in Subjects
    /\ Init /\ MsgInit /\ ConfigInit /\ JscodeInit
    /\ JsonInit /\ (subject # "json" => given = None)
    /\ HttpInit /\ (subject # "http" => stream = <<>>)
    /\ TextInit /\ (subject # "text" => sample = <<>>)
    /\ ClockInit /\ (subject # "clock" => interval = CHOOSE i \in Intervals : TRUE)

\* Whether the step leaves the components other than s alone.
Others(s) ==
    /\ UNCHANGED <<subject, sample>>
    /\ s # "buffer" => UNCHANGED vars
    /\ s # "json" => UNCHANGED jsonVars
    /\ s # "messages" => UNCHANGED msgVars
    /\ s # "http" => UNCHANGED httpVars
    /\ s # "configuration" => UNCHANGED configVars
    /\ s # "clock" => UNCHANGED clockVars
    /\ s # "jscode" => UNCHANGED jscodeVars

DataNext ==
    \/ subject = "buffer" /\ Next /\ Others("buffer")
    \/ subject = "json" /\ JsonNext /\ Others("json")
    \/ subject = "messages" /\ MsgNext /\ Others("messages")
    \/ subject = "http" /\ HttpNext /\ Others("http")
    \/ subject = "configuration" /\ ConfigNext /\ Others("configuration")
    \/ subject = "clock" /\ ClockNext /\ Others("clock")
    \/ subject = "jscode" /\ JscodeNext /\ Others("jscode")

DataSpec == DataInit /\ [][DataNext]_<<subject, vars, jsonVars, msgVars, httpVars,
                                       sample, configVars, clockVars, jscodeVars>>
=============================================================================
