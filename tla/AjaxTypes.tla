----------------------------- MODULE AjaxTypes -----------------------------
(***************************************************************************)
(* How jQuery.ajax finds its way from the data types that were asked for   *)
(* to the value that success is given: prefilters, choice of the transport,*)
(* choice of the response, chain of conversions (elasticSearch/*/vendor.js)*)
(* A value is modelled by the data type it is of.                          *)
(***************************************************************************)
EXTENDS Naturals, Sequences, SequencesExt

CONSTANTS
  Asked,      \* the values of dataType, split: sequences of data types
  Cors        \* whether the browser lets XMLHttpRequest leave the domain

\* What jQuery has converters to, and what may also come first in dataType.
Convertible == {"xml", "html", "text", "json", "script"}
DataType == Convertible \union {"jsonp", "*"}

TypesAssumption ==
  /\ Cors \in BOOLEAN
  /\ \A asked \in Asked : asked \in Seq(DataType) /\ asked # <<>> /\ \A k \in 2..Len(asked) : asked[k] \in Convertible

VARIABLES
  s,          \* the settings that matter here
  at,         \* where the request is
  responses,  \* the responses the transport delivers, in order
  value,      \* the data type the value is of, or "none"
  i,          \* the loop variable of ajaxConvert
  current,    \* the variable current of ajaxConvert
  applied     \* the converters that were applied

vars == <<s, at, responses, value, i, current, applied>>

ContentType == {"none", "xml", "html", "json", "script"}

Init ==
  /\ \E asked \in Asked, cross, marked, body \in BOOLEAN, ct \in ContentType :
       s = [asked |-> asked, dataTypes |-> asked, cross |-> cross, marked |-> marked, body |-> body,
            type |-> IF body THEN "POST" ELSE "GET", global |-> TRUE, ct |-> ct,
            jsonp |-> FALSE, transport |-> "none"]
  /\ at = "prefilter" /\ responses = <<>> /\ value = "none" /\ i = 1 /\ current = "none" /\ applied = <<>>

-----------------------------------------------------------------------------
\* The prefilters.  Each returns the settings and where it redirects to.

\* "json jsonp": marked stands for a =? or ?? in the url, or in a string of data,
\* which is looked at because the content type is JSON.
Jsonp(o) ==
  IF o.dataTypes[1] = "jsonp" \/ o.marked
  THEN [to |-> "script", o |-> [o EXCEPT !.dataTypes[1] = "json", !.jsonp = TRUE]]
  ELSE [to |-> "none", o |-> o]

\* Mutant: every script is loaded by GET.
ScriptGet(o) == [to |-> "none", o |-> [o EXCEPT !.type = "GET", !.global = FALSE]]

\* "script"
Script(o) ==
  [to |-> "none", o |-> IF o.cross THEN [o EXCEPT !.type = "GET", !.global = FALSE] ELSE o]

\* The prefilter for a data type, of which there is one at most.
Filtered(o, dataType) ==
  CASE dataType \in {"json", "jsonp"} -> Jsonp(o)
    [] dataType = "script" -> Script(o)
    [] OTHER -> [to |-> "none", o |-> o]

\* inspectPrefiltersOrTransports for the prefilters.  The type that one redirects to is inspected
\* too; that for scripts, the only one redirected to, leads no further, and there is none for "*".
Inspect(o) ==
  LET first == Filtered(o, o.dataTypes[1])
  IN  IF first.to = "none" THEN first.o
      ELSE Filtered([first.o EXCEPT !.dataTypes = <<first.to>> \o @], first.to).o

Prefilter ==
  /\ at = "prefilter"
  /\ s' = Inspect(s)
  /\ at' = "transport"
  /\ UNCHANGED <<responses, value, i, current, applied>>

\* The transports: script elements for scripts of other domains, or else xhr.
Transport ==
  /\ at = "transport"
  /\ \/ /\ s.dataTypes[1] = "script" /\ s.cross
        /\ s' = [s EXCEPT !.transport = "script"] /\ at' = "send"
     \/ /\ ~(s.dataTypes[1] = "script" /\ s.cross) /\ (~s.cross \/ Cors)
        /\ s' = [s EXCEPT !.transport = "xhr"] /\ at' = "send"
     \/ /\ s.dataTypes[1] # "script" /\ s.cross /\ ~Cors
        /\ s' = s /\ at' = "failed"
  /\ UNCHANGED <<responses, value, i, current, applied>>

\* The transport has succeeded.  A script element has run the script, which is all
\* there is; xhr has a text, and a document where the answer is XML.
Answer ==
  /\ at = "send"
  /\ responses' = IF s.transport = "script" THEN <<>> ELSE IF s.ct = "xml" THEN <<"xml", "text">> ELSE <<"text">>
  /\ at' = IF s.transport = "script" THEN "convert" ELSE "handle"
  /\ value' = IF s.transport = "script" THEN s.dataTypes[1] ELSE "none"
  /\ current' = s.dataTypes[1]
  /\ UNCHANGED <<s, i, applied>>

-----------------------------------------------------------------------------
\* The keys of s.converters, in order; the one for JSONP is added by its prefilter.
Converters ==
  << <<"*", "text">>, <<"text", "html">>, <<"text", "json">>, <<"text", "xml">>, <<"text", "script">> >>
  \o IF s.jsonp THEN << <<"script", "json">> >> ELSE <<>>

Has(c) == Contains(Converters, c)

\* ajaxHandleResponses.
HandleResponses ==
  /\ at = "handle"
  /\ LET auto == s.dataTypes[1] = "*"
         rest == IF auto THEN Tail(s.dataTypes) ELSE s.dataTypes
         types == IF auto /\ s.ct # "none" THEN <<s.ct>> \o rest ELSE rest
         usable == {k \in DOMAIN responses : types = <<>> \/ Has(<<responses[k], types[1]>>)}
         final == IF types # <<>> /\ Contains(responses, types[1]) THEN types[1]
                  ELSE IF usable # {} THEN responses[Min(usable)] ELSE Head(responses)
         all == IF types # <<>> /\ types[1] = final THEN types ELSE <<final>> \o types
     IN /\ s' = [s EXCEPT !.dataTypes = all]
        /\ value' = final
        /\ current' = all[1]
  /\ at' = "convert"
  /\ UNCHANGED <<responses, i, applied>>

\* The converters for one step from prev to next: a direct one, or the first two
\* of which one follows the other.
Direct(prev, next) == {c \in {<<prev, next>>, <<"*", next>>} : Has(c)}

\* Mutants: a converter from text is taken for one from anything; only direct ones are
\* found.
StepsText(prev, next) ==
  IF Has(<<"text", next>>) THEN << <<"text", next>> >> ELSE << <<"*", next>> >>
StepsDirect(prev, next) ==
  IF Has(<<prev, next>>) THEN << <<prev, next>> >> ELSE IF Has(<<"*", next>>) THEN << <<"*", next>> >> ELSE <<>>

Steps(prev, next) ==
  LET between == {k \in DOMAIN Converters : Converters[k][1] \in {prev, "*"} /\ Has(<<Converters[k][2], next>>)}
      first == Converters[Min(between)]
  IN IF Direct(prev, next) # {}
     THEN << IF Has(<<prev, next>>) THEN <<prev, next>> ELSE <<"*", next>> >>
     ELSE IF between = {} THEN <<>> ELSE << first, <<first[2], next>> >>

\* One round of the loop of ajaxConvert.  What is the same is not converted.
Convert ==
  /\ at = "convert" /\ i < Len(s.dataTypes)
  /\ i' = i + 1
  /\ LET next == s.dataTypes[i + 1] IN
     \/ /\ next = "*" \/ current \in {"*", next}
        /\ current' = IF next = "*" THEN current ELSE next
        /\ UNCHANGED <<at, value, applied>>
     \/ /\ next # "*" /\ current \notin {"*", next}
        /\ current' = next
        /\ IF Steps(current, next) = <<>> THEN at' = "failed" /\ UNCHANGED <<value, applied>> ELSE
           /\ applied' = applied \o Steps(current, next)
           /\ value' = Last(Steps(current, next))[2]
           /\ at' = at
  /\ UNCHANGED <<s, responses>>

\* Mutant: the loop stops before the last type.
ConvertedEarly ==
  /\ at = "convert" /\ i >= Len(s.dataTypes) - 1
  /\ at' = "done"
  /\ UNCHANGED <<s, responses, value, i, current, applied>>

Converted ==
  /\ at = "convert" /\ i = Len(s.dataTypes)
  /\ at' = "done"
  /\ UNCHANGED <<s, responses, value, i, current, applied>>

Next == Prefilter \/ Transport \/ Answer \/ HandleResponses \/ Convert \/ Converted

Spec == Init /\ [][Next]_vars

-----------------------------------------------------------------------------
\* The types of the variables.
TypeOK ==
  /\ at \in {"prefilter", "transport", "send", "handle", "convert", "done", "failed"}
  /\ s \in [asked : Asked, dataTypes : Seq(DataType), cross : BOOLEAN, marked : BOOLEAN, body : BOOLEAN,
            type : {"GET", "POST"}, global : BOOLEAN, ct : ContentType, jsonp : BOOLEAN,
            transport : {"none", "xhr", "script"}]
  /\ responses \in Seq({"xml", "text"}) /\ {value, current} \subseteq DataType \union {"none"}
  /\ i \in 1..Len(s.dataTypes) /\ applied \in Seq(DataType \X DataType)

\* What the caller is to be given: the last type it asked for, the data where that is
\* JSONP, and where it left the choice to jQuery what the server says it is.
Wanted ==
  LET last == Last(s.asked) IN
  CASE last = "jsonp" -> "json"
    [] last = "*" -> IF s.ct = "none" THEN "text" ELSE s.ct
    [] OTHER -> last

\* success is called with a value of the type that was asked for, whichever transport
\* and whatever content type (ajaxHandleResponses 7408-7468, ajaxConvert 7472-7554).
RightType == at = "done" => value = Wanted

\* Every converter is applied to a value of its source type: one that was redirected by
\* a prefilter, too (7472-7554).
Fits ==
  LET before(k) == IF k > 1 THEN applied[k - 1][2] ELSE
                     IF responses = <<>> THEN "script" ELSE "any response"
  IN \A k \in DOMAIN applied :
       applied[k][1] \in {"*", before(k)} \/ (before(k) = "any response" /\ Contains(responses, applied[k][1]))

\* No conversion is missing: with the converters jQuery has, a request fails only
\* because it cannot leave the domain (7543-7545).
NeverStuck == at = "failed" => s.transport = "none"

\* A body is lost, because the request becomes a GET, only where a script is loaded
\* from another domain (7655-7663).
PostKept == s.body /\ s.type = "GET" => s.cross /\ Contains(s.dataTypes, "script")
=============================================================================
