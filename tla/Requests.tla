------------------------------- MODULE Requests -------------------------------
(***************************************************************************)
(* A page that makes requests: jQuery.ajax's own, with the counter of      *)
(* those under way; JSONP requests, each of which has a function of its    *)
(* own in window; and the way of one from its data types to its value.     *)
(* What is true of them together.                                          *)
(***************************************************************************)
EXTENDS AjaxProperties

CONSTANTS
  Scripts,                               \* Request of Jsonp: the JSONP requests
  Name, given, Generated, cross, Page,   \* of Jsonp
  Asked, Cors                            \* of AjaxTypes

VARIABLES
  window, jsc, callback, previous, box, script, result, heard,          \* of Jsonp
  settings, phase, responses, data, round, current, applied             \* of AjaxTypes

J == INSTANCE Jsonp WITH Request <- Scripts
T == INSTANCE AjaxTypes WITH s <- settings, at <- phase, value <- data, i <- round

ASSUME ScriptsAssumption == J!NameAssumption
ASSUME AskedAssumption == T!TypesAssumption

\* The type invariants of the three.
RequestTypes == TypeOK /\ T!TypeOK /\ J!TypeOK

\* success is given a value of the type that was asked for, every converter on the way is given
\* the type it is for, a request fails only because it cannot leave the domain, and a body is
\* lost only where a script is loaded from another domain (7408-7554, 7587-7663).
RightValue == T!RightType /\ T!Fits /\ T!NeverStuck /\ T!PostKept

\* JSONP requests with names of their own do not disturb each other, nor the page: each
\* succeeds with its own response, the page's function hears it once, and is back in its place
\* when the request is over (7587-7646).
JsonpApart == J!OwnResponse /\ J!PageHears /\ J!Restored
=============================================================================
