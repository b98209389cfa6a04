------------------------------ MODULE MCRequests ------------------------------
(***************************************************************************)
(* Model checking of jQuery.ajax: the life of requests that are made while *)
(* others are under way, the way of one from its data types to its value,  *)
(* and the callbacks of JSONP requests.  The three modules share no state, *)
(* so a behaviour is one of a page where one of them matters, and the      *)
(* others stay as they were at the start.                                  *)
(***************************************************************************)
EXTENDS Requests

CONSTANTS
  r1, r2, r3, r4, a, b, f, g

VARIABLE part    \* the one that matters

typesVars == <<settings, phase, responses, data, round, current, applied>>
jsonpVars == <<window, jsc, callback, previous, box, script, result, heard>>

-----------------------------------------------------------------------------
Opt(h, async, t, gl, before) == [how |-> h, async |-> async, timeout |-> t, global |-> gl, before |-> before]
AnyOptions == {Opt("xhr", TRUE, TRUE, TRUE, TRUE), Opt("xhr", FALSE, FALSE, FALSE, FALSE),
               Opt("script", TRUE, TRUE, TRUE, FALSE), Opt("none", TRUE, TRUE, TRUE, FALSE)}

\* One data type, or two, as in dataType: "jsonp xml".
Single == {"xml", "html", "text", "json", "script"}
AskedValues == {<<t>> : t \in Single \union {"jsonp", "*"}}
               \union {<<t, u>> : t \in Single \union {"jsonp", "*"}, u \in Single}

\* Two requests with names that jQuery generates, two with functions of the page, one of
\* them in the page's own domain.
GivenName == [r \in Scripts |-> CASE r = r3 -> f [] r = r4 -> g [] OTHER -> "none"]
CrossDomain == [r \in Scripts |-> r # r4]
Counted == <<a, b>>

-----------------------------------------------------------------------------
PageInit ==
  /\ part \in {"life", "types", "jsonp"}
  /\ Init /\ T!Init /\ J!Init
  /\ part # "life" => \A r \in Request : opts[r] = Opt("none", TRUE, TRUE, TRUE, FALSE)
  /\ part # "types" => settings.asked = <<"*">> /\ ~settings.cross /\ ~settings.marked /\ ~settings.body /\ settings.ct = "none"

PageNext ==
  /\ \/ part = "life" /\ Next /\ UNCHANGED typesVars /\ UNCHANGED jsonpVars
     \/ part = "types" /\ T!Next /\ UNCHANGED vars /\ UNCHANGED jsonpVars
     \/ part = "jsonp" /\ J!Next /\ UNCHANGED vars /\ UNCHANGED typesVars
  /\ UNCHANGED part

PageSpec == PageInit /\ [][PageNext]_<<part, vars, typesVars, jsonpVars>> /\ Fairness

=============================================================================
