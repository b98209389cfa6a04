------------------------------- MODULE Jsonp -------------------------------
(***************************************************************************)
(* The callbacks of JSONP requests (elasticSearch/*/vendor.js): each       *)
(* request puts a function of its own into a property of window, and puts  *)
(* back what was there when it is done.  Scripts run when the network      *)
(* brings them, also those of requests that were aborted.                  *)
(***************************************************************************)
EXTENDS Naturals, Sequences, SequencesExt, Functions

CONSTANTS
  Request,    \* the requests; a response is named by the request it answers
  Name,       \* properties of window
  given,      \* per request, the name the caller gives as jsonpCallback, or None
  Generated,  \* the names that jQuery generates, by the counter jsc
  cross,      \* per request, whether it leaves the domain, and thus needs a script element
  Page        \* the properties that hold a function of the page itself

None == "none"
NameAssumption ==
  /\ {None, "page"} \cap (Name \union Request) = {} /\ {"pending", "error"} \cap Request = {}
  /\ Page \subseteq Name /\ given \in [Request -> Name \union {None}]
  /\ Generated \in Seq(Name) /\ IsInjective(Generated)
  /\ Range(Generated) \cap (Page \union Range(given)) = {}

VARIABLES
  window,     \* per name, whose function it holds
  jsc,        \* how many names were generated
  callback,   \* per request, jsonpCallback
  previous,   \* per request, the variable previous
  box,        \* per request, what responseContainer holds
  script,     \* per request, its script: "new", "loading", "ran" or "over"
  result,     \* per request, "pending", "error" or the response success was given
  heard       \* per name, the responses the page's function was called with

vars == <<window, jsc, callback, previous, box, script, result, heard>>

Original == [n \in Name |-> IF n \in Page THEN "page" ELSE None]

Init ==
  /\ window = Original
  /\ jsc = 0 /\ callback = given
  /\ previous = [r \in Request |-> None] /\ box = [r \in Request |-> None]
  /\ script = [r \in Request |-> "new"] /\ result = [r \in Request |-> "pending"]
  /\ heard = [n \in Name |-> <<>>]

Holder(r) == window[callback[r]]

\* The boxes, and what the page has heard, once the function of who was called with x.
Boxed(who, x) == IF who \in Request THEN [box EXCEPT ![who] = x] ELSE box
Heard(n, who, x) == IF who = "page" THEN [heard EXCEPT ![n] = Append(@, x)] ELSE heard

\* Mutant: the counter is not incremented.
NewNameAgain(r) ==
  IF given[r] # None THEN UNCHANGED <<jsc, callback>> ELSE
  /\ callback' = [callback EXCEPT ![r] = Generated[jsc + 1]]
  /\ jsc' = jsc

\* The default of jsonpCallback is a function, which makes a new name.
NewName(r) ==
  IF given[r] # None THEN UNCHANGED <<jsc, callback>> ELSE
  /\ jsc < Len(Generated)
  /\ callback' = [callback EXCEPT ![r] = Generated[jsc + 1]]
  /\ jsc' = jsc + 1

\* The prefilter.
Ajax(r) ==
  /\ script[r] = "new"
  /\ NewName(r)
  /\ previous' = [previous EXCEPT ![r] = window[callback'[r]]]
  /\ window' = [window EXCEPT ![callback'[r]] = r]
  /\ script' = [script EXCEPT ![r] = "loading"]
  /\ UNCHANGED <<box, result, heard>>

\* The script of r calls the function it finds.
Run(r) ==
  /\ cross[r] /\ script[r] = "loading"
  /\ script' = [script EXCEPT ![r] = "ran"]
  /\ box' = Boxed(Holder(r), r)
  /\ heard' = Heard(callback[r], Holder(r), r)
  /\ UNCHANGED <<window, jsc, callback, previous, result>>

\* The script cannot be fetched, or calls nothing.
RunNothing(r) ==
  /\ cross[r] /\ script[r] = "loading"
  /\ script' \in {[script EXCEPT ![r] = "ran"], [script EXCEPT ![r] = "over"]}
  /\ UNCHANGED <<window, jsc, callback, previous, box, result, heard>>

\* Mutant: the page's own function is not told.
CleanUpSilently(r, boxes, calls) ==
  /\ window' = [window EXCEPT ![callback[r]] = previous[r]]
  /\ box' = boxes
  /\ heard' = calls

\* What always does: it puts back the function it found, and calls it.
CleanUp(r, boxes, calls) ==
  /\ window' = [window EXCEPT ![callback[r]] = previous[r]]
  /\ box' = IF boxes[r] # None /\ previous[r] \in Request
            THEN [boxes EXCEPT ![previous[r]] = boxes[r]] ELSE boxes
  /\ heard' = IF boxes[r] # None /\ previous[r] = "page"
              THEN [calls EXCEPT ![callback[r]] = Append(@, boxes[r])] ELSE calls

\* The script element has loaded: the converter takes the response out of the box.
Load(r) ==
  /\ script[r] = "ran" /\ result[r] = "pending"
  /\ result' = [result EXCEPT ![r] = IF box[r] = None THEN "error" ELSE box[r]]
  /\ CleanUp(r, box, heard)
  /\ script' = [script EXCEPT ![r] = "over"]
  /\ UNCHANGED <<jsc, callback, previous>>

\* In the same domain, XMLHttpRequest fetches the script, and done evaluates it.
Fetched(r) ==
  /\ ~cross[r] /\ script[r] = "loading" /\ result[r] = "pending"
  /\ LET boxes == Boxed(Holder(r), r) IN
     /\ result' = [result EXCEPT ![r] = IF boxes[r] = None THEN "error" ELSE boxes[r]]
     /\ CleanUp(r, boxes, Heard(callback[r], Holder(r), r))
  /\ script' = [script EXCEPT ![r] = "over"]
  /\ UNCHANGED <<jsc, callback, previous>>

\* Mutant: the function is put back only when the request succeeds.
AbortLeave(r) ==
  /\ script[r] # "new" /\ result[r] = "pending"
  /\ result' = [result EXCEPT ![r] = "error"]
  /\ script' = [script EXCEPT ![r] = IF @ = "loading" /\ cross[r] THEN @ ELSE "over"]
  /\ UNCHANGED <<window, jsc, callback, previous, box, heard>>

\* abort, a timeout, an error of XMLHttpRequest.  A script element that is taken away
\* may still run its script.
Abort(r) ==
  /\ script[r] # "new" /\ result[r] = "pending"
  /\ result' = [result EXCEPT ![r] = "error"]
  /\ script' = [script EXCEPT ![r] = IF @ = "loading" /\ cross[r] THEN @ ELSE "over"]
  /\ CleanUp(r, box, heard)
  /\ UNCHANGED <<jsc, callback, previous>>

Next == \E r \in Request :
  Ajax(r) \/ Run(r) \/ RunNothing(r) \/ Load(r) \/ Fetched(r) \/ Abort(r)

Spec == Init /\ [][Next]_vars

-----------------------------------------------------------------------------
Under(r) == script[r] # "new" /\ result[r] = "pending"

\* The types of the variables.
TypeOK ==
  /\ jsc \in 0..Len(Generated) /\ callback \in [Request -> Name \union {None}]
  /\ window \in [Name -> Request \union {"page", None}]
  /\ previous \in [Request -> Request \union {"page", None}]
  /\ box \in [Request -> Request \union {None}]
  /\ script \in [Request -> {"new", "loading", "ran", "over"}]
  /\ result \in [Request -> Request \union {"pending", "error"}]
  /\ heard \in [Name -> Seq(Request)]

\* A request succeeds with the response to it, whatever the order in which the scripts
\* run, and although scripts of aborted requests run late (7604-7607, 7620-7625).
OwnResponse == \A r \in Request : result[r] \in {"pending", "error", r}

\* The property of window is what it was before once no request that uses it is under
\* way ("Set callback back to previous value", 7611).
Restored == \A n \in Name : (\A r \in Request : callback[r] = n => ~Under(r)) => window[n] = Original[n]

\* A function of the page hears a response once: by way of always, or directly where
\* the request was aborted before its script ran (7612-7616).
PageHears ==
  \A r \in Request : callback[r] \in Page =>
    LET times == {i \in DOMAIN heard[callback[r]] : heard[callback[r]][i] = r} IN
    /\ \A i, j \in times : i = j
    /\ result[r] = r => times # {}
=============================================================================
