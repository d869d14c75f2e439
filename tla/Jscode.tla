------------------------------- MODULE Jscode -------------------------------
(***************************************************************************)
(* decode_jscode (tools/Tools.cpp): a request to a login server, whose     *)
(* answer curl hands to curlWriteCallback, in as many pieces as arrive.    *)
(* The callback takes a piece for the whole answer, releases the context   *)
(* and reports the outcome to the caller's function.                       *)
(*                                                                         *)
(* A piece is "invalid" when it is not JSON by itself, "other" when it is  *)
(* JSON but no object, or else an object whose members are "none", "str"   *)
(* or "other".  The use of a released context, its second release and a    *)
(* failed assertion of the JSON library end the behaviour.                 *)
(***************************************************************************)
EXTENDS Naturals, Sequences

CONSTANTS
    MaxPieces     \* bound: pieces of an answer

VARIABLES
    call,         \* "idle", "transfer" or "returned"
    context,      \* "none", "live" or "released"
    reports,      \* what the caller's function was told
    pieces,       \* pieces handed over
    rc,           \* whether curl_easy_perform succeeded
    end           \* what ended the process, or "none"

jscodeVars == <<call, context, reports, pieces, rc, end>>

Member == {"none", "str", "other"}
Objects == [errcode : Member, session_key : Member, openid : Member]

JscodeInit ==
    /\ call = "idle" /\ context = "none" /\ reports = <<>>
    /\ pieces = 0 /\ rc = TRUE /\ end = "none"

\* curl_easy_init may fail: nothing is reported.
decode_jscode(ok) ==
    /\ call = "idle"
    /\ call' = IF ok THEN "transfer" ELSE "returned"
    /\ context' = IF ok THEN "live" ELSE context
    /\ UNCHANGED <<reports, pieces, rc, end>>

\* Variant: an answer with an error code is looked at further.
OutcomeOn(o) ==
    IF o.errcode # "none" /\ o.session_key # "other" THEN <<"errcode", "session_key">>
    ELSE IF o.session_key # "other" THEN <<"session_key">>
    ELSE IF o.openid # "str" THEN <<"openid">>
    ELSE <<"assert">>

\* What is reported for an object.  A session_key that is a string is taken
\* for a missing one; GetString of one that is no string asserts.
Outcome(o) ==
    IF o.errcode # "none" THEN <<"errcode">>
    ELSE IF o.session_key # "other" THEN <<"session_key">>
    ELSE IF o.openid # "str" THEN <<"openid">>
    ELSE <<"assert">>

\* What the callback does with a piece: the reports, or the assertion.
Reported(kind, o) ==
    IF kind = "invalid" THEN <<"parse">>
    ELSE IF kind = "other" THEN <<"assert">>
    ELSE Outcome(o)

\* curl hands over a piece: the first releases the context.
curlWriteCallback(kind, o) ==
    /\ call = "transfer" /\ pieces < MaxPieces
    /\ pieces' = pieces + 1
    /\ IF context = "released"
       THEN end' = "used_after_release" /\ UNCHANGED <<context, reports>>
       ELSE /\ context' = "released"
            /\ IF Reported(kind, o) = <<"assert">>
               THEN end' = "assert" /\ UNCHANGED reports
               ELSE end' = end /\ reports' = reports \o Reported(kind, o)
    /\ UNCHANGED <<call, rc>>

\* The transfer ends.
Finish(ok) ==
    /\ call = "transfer"
    /\ call' = "returned" /\ rc' = ok
    /\ IF ok THEN UNCHANGED <<context, reports, end>>
       ELSE /\ reports' = Append(reports, "error")
            /\ context' = "released"
            /\ end' = IF context = "released" THEN "released_twice" ELSE end
    /\ UNCHANGED pieces

JscodeNext ==
    /\ end = "none"
    /\ \/ \E ok \in BOOLEAN : decode_jscode(ok) \/ Finish(ok)
       \/ \E kind \in {"invalid", "other", "object"}, o \in Objects : curlWriteCallback(kind, o)

JscodeSpec == JscodeInit /\ [][JscodeNext]_jscodeVars

-----------------------------------------------------------------------------
\* A released context is used or released again only when the answer came in
\* more than one piece or the transfer failed after a piece; otherwise the
\* caller's function is told one outcome, or none when the answer was empty or
\* the transfer could not begin.
JscodeReports ==
    /\ end = "used_after_release" => pieces > 1
    /\ end = "released_twice" => pieces = 1 /\ ~rc
    /\ call = "returned" /\ end = "none" =>
          Len(reports) = IF pieces = 1 \/ ~rc THEN 1 ELSE 0
=============================================================================
