---------------------------- MODULE MessageParser ----------------------------
(***************************************************************************)
(* Protocol messages in Lua (lua/MessageParser.cpp and its callers in      *)
(* lua/luaT_reg_functions.cpp).  A service registers message types under   *)
(* ids; there is one message object per id, which every encode and every   *)
(* decode of the service uses again.  encode fills the object from a Lua   *)
(* table and serializes it, decode parses bytes into it and builds a       *)
(* table.                                                                  *)
(*                                                                         *)
(* A type is a sequence of fields.  The contents of an object map the      *)
(* fields to the values set (a field that is not repeated has at most      *)
(* one).  Serialization is external: a byte for the number of the field,   *)
(* a byte for a number, and a length before a string or a message.         *)
(* A number or string has presence in a proto2 schema; in a proto3 one (as *)
(* protocol/echo.proto, the configured one) 0 and "" are not told from a   *)
(* field that was never set.                                               *)
(***************************************************************************)
EXTENDS JsonLua

CONSTANTS
    Schema,       \* the types: name -> sequence of fields
    MsgIds,       \* ids that may be registered
    LuaTables,    \* tables a script may encode
    MaxCalls      \* calls of a script

VARIABLES
    messages,     \* _messages: id -> the type and the contents of its object
    last,         \* what the last call was and gave
    calls         \* calls made

msgVars == <<messages, last, calls>>

Empty(type) == [n \in {f.name : f \in Range(Schema[type])} |-> <<>>]
NoCall == [call |-> "none"]

IsTable(v) == v[1] = "tab"
Field(t, name) == IF Str(name) \in DOMAIN t[2] THEN t[2][Str(name)] ELSE Nil

\* HasField (external).
HasField(m, f) ==
    /\ m[f.name] # <<>>
    /\ f.kind = "int" /\ ~f.presence => m[f.name][1] # 0
    /\ f.kind = "str" /\ ~f.presence => m[f.name][1] # <<>>

\* A C string ends at the first NUL.
UpToNul(w) == SubSeq(w, 1, (CHOOSE n \in 0 .. Len(w) : /\ \A i \in 1 .. n : w[i] # 0
                                                       /\ n < Len(w) => w[n + 1] = 0))

\* The digits a text consists of, as a number; 0 when it consists of others.
IntegerOf(bytes) ==
    IF \A i \in DOMAIN bytes : bytes[i] \in 48 .. 57
    THEN FoldLeft(LAMBDA n, c : 10 * n + c - 48, 0, bytes) ELSE 0

-----------------------------------------------------------------------------
(* encode: the outcomes [ok, val], since lua_next visits a table in any    *)
(* order.                                                                  *)

RECURSIVE EncodeDescriptor(_, _, _, _), EncodeAll(_, _, _)

\* lua_tointeger: what is no number, nor a text of one, is 0.
lua_tointeger(v) ==
    CASE v[1] = "int" -> v[2]
      [] v[1] = "str" -> IntegerOf(v[2])
      [] OTHER -> 0

\* One value: lua_tostring of a table is NULL, which std::string answers with
\* an exception; a message needs a table.
EncodeValue(v, f) ==
    CASE f.kind = "int" -> {[ok |-> TRUE, val |-> <<lua_tointeger(v)>>]}
      [] f.kind = "str" ->
           CASE v[1] = "str" -> {[ok |-> TRUE, val |-> <<UpToNul(v[2])>>]}
             [] v[1] = "int" -> {[ok |-> TRUE, val |-> << <<48 + v[2]>> >>]}
             [] OTHER -> {[ok |-> FALSE, val |-> <<>>]}
      [] f.kind = "msg" ->
           IF IsTable(v)
           THEN {[ok |-> r.ok, val |-> <<r.val>>] :
                   r \in EncodeDescriptor(v, f.type, 1, Empty(f.type))}
           ELSE {[ok |-> FALSE, val |-> <<Empty(f.type)>>]}

\* The values vs of a repeated field, after those in done.
EncodeAll(vs, f, done) ==
    IF vs = <<>>
    THEN {[ok |-> TRUE, val |-> done]}
    ELSE UNION { IF r.ok THEN EncodeAll(Tail(vs), f, done \o r.val)
                 ELSE {[ok |-> FALSE, val |-> done \o r.val]} :
                   r \in EncodeValue(Head(vs), f) }

\* encodeField: what becomes of the values of field f, old so far.
EncodeField(t, f, old) ==
    LET v == Field(t, f.name) IN
    CASE f.repeated /\ IsTable(v) ->
           UNION { EncodeAll([i \in 1 .. Len(ks) |-> v[2][ks[i]]], f, old) :
                     ks \in SetToSeqs(DOMAIN v[2]) }
      [] ~f.repeated /\ v # Nil ->
           {[ok |-> r.ok, val |-> IF r.val = <<>> THEN old ELSE r.val] : r \in EncodeValue(v, f)}
      [] OTHER -> {[ok |-> TRUE, val |-> old]}

\* The fields from the k-th on, into the contents m.
EncodeDescriptor(t, type, k, m) ==
    IF k > Len(Schema[type])
    THEN {[ok |-> TRUE, val |-> m]}
    ELSE UNION { LET n == (Schema[type][k].name :> r.val) @@ m
                 IN  IF r.ok THEN EncodeDescriptor(t, type, k + 1, n)
                     ELSE {[ok |-> FALSE, val |-> n]} :
                       r \in EncodeField(t, Schema[type][k], m[Schema[type][k].name]) }

-----------------------------------------------------------------------------
(* Serialization (external).                                               *)

RECURSIVE Serialize(_, _)
Serialize(m, type) ==
    LET One(f, v) == CASE f.kind = "int" -> <<v>>
                       [] f.kind = "str" -> <<Len(v)>> \o v
                       [] f.kind = "msg" -> LET w == Serialize(v, f.type) IN <<Len(w)>> \o w
        FieldBytes(k) ==
            LET f == Schema[type][k]
                values == IF f.repeated \/ HasField(m, f) THEN m[f.name] ELSE <<>>
            IN  FlattenSeq([i \in 1 .. Len(values) |-> <<k>> \o One(f, values[i])])
    IN  FlattenSeq([k \in 1 .. Len(Schema[type]) |-> FieldBytes(k)])

\* ParseFromString: what was read before an error stays in the object.
RECURSIVE Parsed(_, _, _)
Parsed(w, type, m) ==
    LET k == w[1]
        f == Schema[type][k]
        size == IF f.kind = "int" THEN 2 ELSE 2 + w[2]
        sub == Parsed(SubSeq(w, 3, size), f.type, Empty(f.type))
        v == CASE f.kind = "int" -> w[2]
               [] f.kind = "str" -> SubSeq(w, 3, size)
               [] f.kind = "msg" -> sub.val
        rest == SubSeq(w, size + 1, Len(w))
    IN  CASE w = <<>> -> [ok |-> TRUE, val |-> m]
          [] Len(w) = 1 -> [ok |-> FALSE, val |-> m]
          [] Len(w) > 1 /\ (size > Len(w) \/ (f.kind = "msg" /\ ~sub.ok)) -> [ok |-> FALSE, val |-> m]
          [] OTHER -> Parsed(rest, type,
                             (f.name :> IF f.repeated THEN Append(m[f.name], v) ELSE <<v>>) @@ m)

-----------------------------------------------------------------------------
(* decode.  The elements of a repeated field are numbered from 0; a field  *)
(* that is not set is nil, a repeated one an empty table.                  *)

RECURSIVE DecodeDescriptor(_, _)

DecodeValue(f, v) ==
    CASE f.kind = "int" -> Integer(v)
      [] f.kind = "str" -> Str(v)
      [] f.kind = "msg" -> DecodeDescriptor(v, f.type)

DecodeField(m, f) ==
    IF f.repeated
    THEN Table([i \in {Integer(j) : j \in 0 .. Len(m[f.name]) - 1} |->
                   DecodeValue(f, m[f.name][i[2] + 1])])
    ELSE DecodeValue(f, m[f.name][1])

\* The others get nil, the default of DEF_NIL_VALUE: no entry in the table.
Present(m, type) == {f \in Range(Schema[type]) : f.repeated \/ HasField(m, f)}

DecodeDescriptor(m, type) ==
    Table([n \in {Str(f.name) : f \in Present(m, type)} |->
              DecodeField(m, CHOOSE f \in Present(m, type) : f.name = n[2])])

-----------------------------------------------------------------------------
MsgInit ==
    /\ messages = <<>>
    /\ last = NoCall
    /\ calls = 0

Registered == DOMAIN messages

\* regmsg: an id is registered once, for a type that was loaded.
regmsg(id, type) ==
    /\ calls' = calls + 1
    /\ last' = NoCall
    /\ messages' = IF id \in Registered THEN messages
                   ELSE [i \in Registered \cup {id} |->
                            IF i = id THEN [type |-> type, val |-> Empty(type)] ELSE messages[i]]

\* Variant: the object is not cleared.
startDirty(id) == messages[id].val

\* message->Clear().
start(id) == Empty(messages[id].type)

\* cc_message_encode: the bytes are pushed as a C string.
message_encode(id, t) ==
    /\ id \in Registered
    /\ \E r \in EncodeDescriptor(t, messages[id].type, 1, start(id)) :
          /\ messages' = [messages EXCEPT ![id].val = r.val]
          /\ last' = IF r.ok
                     THEN [call |-> "encode", id |-> id, table |-> t,
                           wire |-> Serialize(r.val, messages[id].type)]
                     ELSE NoCall
    /\ calls' = calls + 1

\* cc_message_decode, of what the last call encoded, or of a part of it.
message_decode(cut) ==
    /\ last.call = "encode"
    /\ LET id == last.id
           w == UpToNul(last.wire)
           r == Parsed(SubSeq(w, 1, Len(w) - cut), messages[id].type, start(id))
       IN  /\ cut <= Len(w)
           /\ messages' = [messages EXCEPT ![id].val = r.val]
           /\ last' = IF r.ok /\ cut = 0
                      THEN [call |-> "decode", id |-> id, table |-> last.table, wire |-> last.wire,
                            result |-> DecodeDescriptor(r.val, messages[id].type)]
                      ELSE NoCall
    /\ calls' = calls + 1

MsgNext ==
    /\ calls < MaxCalls
    /\ \/ \E id \in MsgIds, type \in DOMAIN Schema : regmsg(id, type)
       \/ \E id \in MsgIds, t \in LuaTables : message_encode(id, t)
       \/ \E cut \in 0 .. 1 : message_decode(cut)

-----------------------------------------------------------------------------
\* Whether table u is what table t becomes on the way: numbers and strings of
\* the fields, the elements of a repeated field from 0 on in some order; a
\* number or string that is 0 or empty is nil when its field has no presence.
RECURSIVE Carries(_, _, _)
Carries(u, t, type) ==
    LET Sent(f, y) ==
            IF f.kind = "int" THEN Integer(lua_tointeger(y))
            ELSE Str(IF y[1] = "int" THEN <<48 + y[2]>> ELSE UpToNul(y[2]))
        Same(f, x, y) ==
            IF f.kind = "msg" THEN Carries(x, y, f.type) ELSE x = Sent(f, y)
        Lost(f, y) ==
            \/ y = Nil
            \/ ~f.presence /\ f.kind = "int" /\ Sent(f, y) = Integer(0)
            \/ ~f.presence /\ f.kind = "str" /\ Sent(f, y) = Str(<<>>)
    IN  \A k \in 1 .. Len(Schema[type]) :
          LET f == Schema[type][k]
              x == Field(u, f.name)
              y == Field(t, f.name)
              ys == IF IsTable(y) THEN DOMAIN y[2] ELSE {}
          IN  IF f.repeated
              THEN \E ks \in SetToSeqs(ys) :
                     /\ DOMAIN x[2] = {Integer(i) : i \in 0 .. Len(ks) - 1}
                     /\ \A i \in 1 .. Len(ks) : Same(f, x[2][Integer(i - 1)], y[2][ks[i]])
              ELSE IF Lost(f, y) THEN x = Nil ELSE x # Nil /\ Same(f, x, y)

\* Whatever the object of an id was used for before - an encoding that
\* failed halfway, a parse that failed halfway, another table - what a script
\* decodes is the table that was encoded, and nothing else, but for the zeros
\* and empty strings of a proto3 schema, which come back as nil.  The bytes
\* reach the script as a C string: none of them is NUL.
MessageDecodes ==
    last.call = "decode" /\ (\A i \in 1 .. Len(last.wire) : last.wire[i] # 0) =>
        Carries(last.result, last.table, messages[last.id].type)
=============================================================================
