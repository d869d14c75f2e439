----------------------------- MODULE JsonDecode -----------------------------
(***************************************************************************)
(* Decoding JSON for Lua scripts (lua/luaT_json_parser.cpp):               *)
(* luaT_json_parser_decode feeds a text to the parser one character at a   *)
(* time, and asks it at the end whether the text was complete.             *)
(*                                                                         *)
(* `scanned' is history: what a reader who only knows strings and brackets *)
(* makes of the characters that were accepted.                             *)
(***************************************************************************)
EXTENDS JsonParser

VARIABLES
    text,          \* what was read so far
    scanned,       \* in an escape, in a string, the brackets that are open
    p,             \* the parser and the context of its callback
    result         \* what luaT_json_parser_decode returned

decodeVars == <<text, scanned, p, result>>

\* One more character.
ScanNext(s, c) ==
    CASE s.esc -> [s EXCEPT !.esc = FALSE]
      [] ~s.esc /\ s.str /\ c = Backslash -> [s EXCEPT !.esc = TRUE]
      [] ~s.esc /\ c = Quote -> [s EXCEPT !.str = ~s.str]
      [] ~s.esc /\ ~s.str /\ c \in {91, 123} -> [s EXCEPT !.open = Append(@, c)]
      [] ~s.esc /\ ~s.str /\ c \in {93, 125} /\ s.open # <<>> -> [s EXCEPT !.open = Front(@)]
      [] OTHER -> s

\* luaT_json_parser_decode starts.
DecodeInit ==
    /\ text = <<>>
    /\ scanned = [esc |-> FALSE, str |-> FALSE, open |-> <<>>]
    /\ p = new_JSON_parser
    /\ result = "reading"

\* The loop: one character.  A rejection restores the Lua stack.
Read(c) ==
    LET q == JSON_parser_char(p, c) IN
    /\ result = "reading"
    /\ text' = Append(text, c)
    /\ scanned' = IF q.ok THEN ScanNext(scanned, c) ELSE scanned
    /\ p' = IF q.ok THEN q ELSE [q EXCEPT !.lua = <<>>]
    /\ result' = IF q.ok THEN "reading" ELSE "false"

\* The text ends, or a byte that is not 1 .. 127 ends it.
FinishText ==
    /\ result = "reading"
    /\ result' = IF JSON_parser_done(p) THEN "true" ELSE "false"
    /\ p' = IF JSON_parser_done(p) THEN p ELSE [p EXCEPT !.lua = <<>>]
    /\ UNCHANGED <<text, scanned>>

DecodeNext == (\E c \in 1 .. 127 : Read(c)) \/ FinishText

DecodeSpec == DecodeInit /\ [][DecodeNext]_decodeVars

-----------------------------------------------------------------------------
(* Properties.                                                             *)

\* The callback is called for a closing bracket before the parser checks
\* that it closes anything.  It pops an empty stack, or sets a field of what
\* is no table, only for a bracket that does not match the innermost one
\* that is open.
UnderflowNeedsMismatch ==
    p.ub => /\ Last(text) \in {93, 125}
            /\ scanned.open = <<>> \/ Last(scanned.open) # Last(text) - 2

\* An accepted text leaves one table on the Lua stack and nothing else: every
\* key and index found its value, and the stacks of the context, kept by the
\* callback, end empty together with the parser's; no bracket is open.
AcceptedBalanced ==
    result = "true" =>
        /\ Len(p.lua) = 1 /\ p.lua[1][1] = "tab"
        /\ p.key_lvl = 0 /\ p.state_stack = <<>> /\ p.array_stack = <<>>
        /\ ~scanned.str /\ scanned.open = <<>>
=============================================================================
