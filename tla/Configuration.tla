---------------------------- MODULE Configuration ----------------------------
(***************************************************************************)
(* The registry of typed values (tools/Registry.cpp), which Config fills   *)
(* from an XML file (config/Config.cpp, xml/XmlParser.cpp), and the Lua    *)
(* table scripts get for such a file (lua/luaT_xml_parser.cpp).            *)
(*                                                                         *)
(* The registry keeps text.  A text is <<"num", n>> or <<"word", w>>, a    *)
(* key the sequence of the names that dots join.  A document is the        *)
(* sequence of its top-level elements, the first one the root; an element  *)
(* is [name, attrs, kids], and text between elements an element with no    *)
(* name.                                                                   *)
(*                                                                         *)
(* XmlParser::open parses in place, in a buffer that is released when it   *)
(* returns: the names and values of the document are read from released    *)
(* memory, and any of them may have been overwritten by then.              *)
(***************************************************************************)
EXTENDS Integers, Sequences, SequencesExt, FiniteSetsExt

CONSTANTS
    Documents,    \* documents a file may hold
    Settings,     \* [key, type, val] a caller may set
    LongBits,     \* the width of long
    MaxOps,       \* operations
    MaxOverwritten  \* texts of a document that are overwritten

ASSUME ConfigAssumption == LongBits \in Nat \ {0} /\ MaxOps \in Nat

VARIABLES
    values,       \* _values: key -> text
    lua,          \* the table of the last document a script decoded
    intact,       \* no text was overwritten before it was read
    history       \* the operations, oldest first

configVars == <<values, lua, intact, history>>

NoTable == [doc |-> <<>>, table |-> <<>>]

ConfigInit == values = <<>> /\ lua = NoTable /\ intact = TRUE /\ history = <<>>

-----------------------------------------------------------------------------
(* Typed access.  A type is its kind and its width.                        *)

SetValue(vals, key, text) == IF key \in DOMAIN vals THEN vals ELSE (key :> text) @@ vals

\* The text of a value.
Format(type, v) ==
    CASE type.kind = "bool" -> <<"word", IF v THEN "true" ELSE "false">>
      [] type.kind = "text" -> v
      [] OTHER -> <<"num", v>>

Clamp(n, low, high) == IF n < low THEN low ELSE IF n > high THEN high ELSE n

\* strtoul and strtol; a text that starts with no digit is 0.
strtoul(text) ==
    CASE text[1] = "word" -> 0
      [] text[1] = "num" /\ text[2] < 0 /\ -text[2] < 2^LongBits -> 2^LongBits + text[2]
      [] OTHER -> IF text[2] < 0 THEN 2^LongBits - 1 ELSE Clamp(text[2], 0, 2^LongBits - 1)
strtol(text) ==
    IF text[1] = "word" THEN 0 ELSE Clamp(text[2], -(2^(LongBits - 1)), 2^(LongBits - 1) - 1)

\* The conversion to the type that get returns.
Truncate(n, type) ==
    LET u == n % 2^type.bits
    IN  IF type.kind = "signed" /\ u >= 2^(type.bits - 1) THEN u - 2^type.bits ELSE u

\* What strcasecmp takes for "true".
TrueWords == {a \o b \o c \o d : a \in {"t", "T"}, b \in {"r", "R"}, c \in {"u", "U"}, d \in {"e", "E"}}

get(key, type, default) ==
    IF key \notin DOMAIN values THEN default
    ELSE LET t == values[key] IN
         CASE type.kind = "bool" -> t[1] = "word" /\ t[2] \in TrueWords
           [] type.kind = "text" -> t
           [] OTHER -> Truncate(IF type.kind = "signed" THEN strtol(t) ELSE strtoul(t), type)

-----------------------------------------------------------------------------
(* Documents.                                                              *)

\* makeRegistry: the attributes of the first element, its children, and
\* then its next sibling.  The children of the root get no prefix.
RECURSIVE makeRegistry(_, _, _, _)
makeRegistry(vals, nodes, name, root) ==
    IF nodes = <<>> THEN vals
    ELSE LET n == Head(nodes)
             own == FoldLeft(LAMBDA v, a : SetValue(v, name \o <<n.name, a[1]>>, a[2]), vals, n.attrs)
             below == IF root THEN <<>> ELSE name \o <<n.name>>
         IN  makeRegistry(makeRegistry(own, n.kids, below, FALSE), Tail(nodes), name, FALSE)

\* luaT_xml_parser: the table t with the elements nodes in it.
RECURSIVE luaT_xml_parser(_, _)
luaT_xml_parser(t, nodes) ==
    IF nodes = <<>> THEN t
    ELSE LET n == Head(nodes)
             own == FoldLeft(LAMBDA u, a : (a[1] :> a[2]) @@ u, <<>>, n.attrs)
         IN  luaT_xml_parser((n.name :> luaT_xml_parser(own, n.kids)) @@ t, Tail(nodes))

\* The root has no name of its own in the table, its siblings are in it.
XmlTable(doc) ==
    LET own == FoldLeft(LAMBDA u, a : (a[1] :> a[2]) @@ u, <<>>, doc[1].attrs)
    IN  luaT_xml_parser(luaT_xml_parser(own, doc[1].kids), Tail(doc))

\* The texts of elements, and the elements with the texts of over overwritten.
RECURSIVE Texts(_), Reread(_, _)
Texts(nodes) ==
    UNION {{<<"word", n.name>>} \cup UNION {{<<"word", a[1]>>, a[2]} : a \in ToSet(n.attrs)}
              \cup Texts(n.kids) : n \in ToSet(nodes)}
Reread(nodes, over) ==
    LET Name(w) == IF <<"word", w>> \in over THEN "?" ELSE w
        Value(t) == IF t \in over THEN <<"word", "?">> ELSE t
    IN  [i \in 1 .. Len(nodes) |->
            [name |-> Name(nodes[i].name),
             attrs |-> [j \in 1 .. Len(nodes[i].attrs) |->
                           <<Name(nodes[i].attrs[j][1]), Value(nodes[i].attrs[j][2])>>],
             kids |-> Reread(nodes[i].kids, over)]]

Overwritten(doc) == UNION {kSubset(k, Texts(doc)) : k \in 0 .. MaxOverwritten}

-----------------------------------------------------------------------------
Note(entry) ==
    /\ Len(history) < MaxOps
    /\ history' = Append(history, entry)

\* set: false, and no effect, for a key that is there.
set(s) ==
    /\ values' = SetValue(values, s.key, Format(s.type, s.val))
    /\ Note([op |-> "set", set |-> s])
    /\ UNCHANGED <<lua, intact>>

removeKey(key) ==
    /\ values' = [k \in DOMAIN values \ {key} |-> values[k]]
    /\ Note([op |-> "remove", key |-> key])
    /\ UNCHANGED <<lua, intact>>

\* Variant: the registry is not cleared.
loadconfOnTop(doc) ==
    /\ \E over \in Overwritten(doc) :
          /\ values' = makeRegistry(values, Reread(doc, over), <<>>, TRUE)
          /\ intact' = (intact /\ over = {})
    /\ Note([op |-> "load", doc |-> doc])
    /\ UNCHANGED lua

loadconf(doc) ==
    /\ \E over \in Overwritten(doc) :
          /\ values' = makeRegistry(<<>>, Reread(doc, over), <<>>, TRUE)
          /\ intact' = (intact /\ over = {})
    /\ Note([op |-> "load", doc |-> doc])
    /\ UNCHANGED lua

\* A file that cannot be opened or parsed leaves everything as it was.
loadconfFails ==
    /\ Note([op |-> "fail"])
    /\ UNCHANGED <<values, lua, intact>>

\* luaT_xml_parser_decode.
xml_decode(doc) ==
    /\ doc # <<>>
    /\ \E over \in Overwritten(doc) :
          /\ lua' = [doc |-> doc, table |-> XmlTable(Reread(doc, over))]
          /\ intact' = (intact /\ over = {})
    /\ Note([op |-> "decode"])
    /\ UNCHANGED values

ConfigNext ==
    \/ \E s \in Settings : set(s) \/ removeKey(s.key)
    \/ \E doc \in Documents : loadconf(doc) \/ xml_decode(doc)
    \/ loadconfFails

-----------------------------------------------------------------------------
(* What the registry should hold.                                          *)

\* The places of the elements, as paths of indices, and the element there.
RECURSIVE Places(_), At(_, _)
Places(nodes) ==
    UNION {{<<i>>} \cup {<<i>> \o q : q \in Places(nodes[i].kids)} : i \in 1 .. Len(nodes)}
At(nodes, q) == IF Len(q) = 1 THEN nodes[q[1]] ELSE At(nodes[q[1]].kids, Tail(q))

PathNames(doc, q) == [k \in 1 .. Len(q) |-> At(doc, SubSeq(q, 1, k)).name]

\* Document order.
Earlier(q, r) ==
    \/ IsStrictPrefix(q, r)
    \/ \E k \in 1 .. Len(q) : /\ k <= Len(r) /\ q[k] < r[k]
                              /\ SubSeq(q, 1, k - 1) = SubSeq(r, 1, k - 1)

\* The attributes of doc whose key is key: the place of the element, and
\* the index of the attribute.  The root's name is not part of the keys of
\* the elements in it.
KeyAttributes(doc, key) ==
    {qj \in UNION {{q} \X (1 .. Len(At(doc, q).attrs)) : q \in Places(doc)} :
        LET q == qj[1]
            n == At(doc, q)
        IN  key = Append(IF q[1] = 1 /\ Len(q) > 1 THEN Tail(PathNames(doc, q))
                         ELSE PathNames(doc, q), n.attrs[qj[2]][1])}

\* The texts the registry may hold for key after h.
RECURSIVE Expected(_, _)
Expected(h, key) ==
    IF h = <<>> THEN {}
    ELSE LET e == h[Len(h)]
             before == Expected(SubSeq(h, 1, Len(h) - 1), key)
         IN  CASE e.op = "set" /\ e.set.key = key /\ before = {} -> {Format(e.set.type, e.set.val)}
               [] e.op = "remove" /\ e.key = key -> {}
               [] e.op = "load" ->
                    {At(e.doc, qj[1]).attrs[qj[2]][2] :
                        qj \in {x \in KeyAttributes(e.doc, key) :
                                  \A y \in KeyAttributes(e.doc, key) :
                                     Earlier(x[1] \o <<0, x[2]>>, y[1] \o <<0, y[2]>>) \/ x = y}}
               [] OTHER -> before

\* The entry of table t under a path of names; <<>> when there is none.
RECURSIVE TableEntry(_, _)
TableEntry(t, names) ==
    IF names = <<>> THEN t
    ELSE IF Head(names) \in DOMAIN t THEN TableEntry(t[Head(names)], Tail(names)) ELSE <<>>

\* Whether no later element or attribute takes the place of attribute j at q
\* in the table.
Visible(doc, q, j) ==
    LET n == At(doc, q)
        Siblings(k) == IF k = 1 THEN doc ELSE At(doc, SubSeq(q, 1, k - 1)).kids
    IN  /\ \A i \in j + 1 .. Len(n.attrs) : n.attrs[i][1] # n.attrs[j][1]
        /\ \A i \in 1 .. Len(n.kids) : n.kids[i].name # n.attrs[j][1]
        /\ \A k \in 1 .. Len(q) :
              \A i \in q[k] + 1 .. Len(Siblings(k)) : Siblings(k)[i].name # PathNames(doc, q)[k]
        /\ \A i \in 2 .. Len(doc) :
              q[1] = 1 => doc[i].name # Append(Tail(PathNames(doc, q)), n.attrs[j][1])[1]

\* The registry holds, for every key, what was written first since the key
\* was last removed or a file was last loaded, a file writing its attributes
\* in document order; what was set as a value of a type is read as the same
\* value of that type; and a script that decodes a document finds under the
\* names of an element the last one of these names.  All this provided that
\* no text was overwritten in the released buffer.
ConfigExact ==
    intact =>
        /\ \A key \in DOMAIN values \cup {s.key : s \in Settings} :
              (IF key \in DOMAIN values THEN {values[key]} ELSE {}) = Expected(history, key)
        /\ \A s \in Settings :
              Expected(history, s.key) = {Format(s.type, s.val)} => get(s.key, s.type, s.val) = s.val
        /\ \A q \in Places(lua.doc) : \A j \in 1 .. Len(At(lua.doc, q).attrs) :
              Visible(lua.doc, q, j) =>
                  TableEntry(lua.table, Append(IF q[1] = 1 THEN Tail(PathNames(lua.doc, q))
                                           ELSE PathNames(lua.doc, q), At(lua.doc, q).attrs[j][1])) =
                      At(lua.doc, q).attrs[j][2]
=============================================================================
