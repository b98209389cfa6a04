------------------------------ MODULE MCPromises ------------------------------
(***************************************************************************)
(* Model checking of what jQuery's other parts are built on: a deferred,   *)
(* the promise of jQuery.when, a chain of calls of pipe, the data of       *)
(* nodes, and showing and hiding one.  They share no state, so a behaviour *)
(* is one of a page that uses one of them, and the others stay as they     *)
(* were created.                                                           *)
(***************************************************************************)
EXTENDS Promises

VARIABLE part    \* the one that is used

whenVars == <<wanted, state, value, told, args, count, outcome, result>>
pipeVars == <<chain, passed, follows, own, broken>>
dataVars == <<within, made, expando, uuid, cache, pub, priv, objects, elem, listening, todo, moving, fresh, copying, pairs, calls>>
showVars == <<natural, sheet, el, queue, busy, running, tasks, turns, asked, orderly, whole>>

\* A node in another, and three that clones may become.
InAnother == <<0, 1, 0, 0, 0>>
Camel == [k \in Name |-> "myKey"]

\* All animated calls in the queue, and outside of it those that slide.
Sliding ==
  LET Some(props, queued, instant) ==
        [val : {"show", "hide", "toggle"}, props : props, queue : queued, instant : instant]
  IN  Some(SUBSET {"height", "opacity"} \ {{}}, {TRUE}, BOOLEAN) \union Some({{"height"}}, {FALSE}, {FALSE})

PageInit ==
  /\ part \in {"deferred", "when", "pipe", "data", "show"}
  /\ Init /\ W!Init /\ P!Init /\ ND!Init /\ SH!Init
  /\ part # "show" => natural = "block" /\ ~sheet /\ ~SH!Hidden(el)

PageNext ==
  /\ \/ part = "deferred" /\ Next /\ UNCHANGED whenVars /\ UNCHANGED pipeVars /\ UNCHANGED dataVars /\ UNCHANGED showVars
     \/ part = "when" /\ W!Next /\ UNCHANGED vars /\ UNCHANGED pipeVars /\ UNCHANGED dataVars /\ UNCHANGED showVars
     \/ part = "pipe" /\ P!Next /\ UNCHANGED vars /\ UNCHANGED whenVars /\ UNCHANGED dataVars /\ UNCHANGED showVars
     \/ part = "data" /\ ND!Next /\ UNCHANGED vars /\ UNCHANGED whenVars /\ UNCHANGED pipeVars /\ UNCHANGED showVars
     \/ part = "show" /\ SH!Next /\ UNCHANGED vars /\ UNCHANGED whenVars /\ UNCHANGED pipeVars /\ UNCHANGED dataVars
  /\ UNCHANGED part

PageSpec ==
  /\ PageInit /\ [][PageNext]_<<part, vars, whenVars, pipeVars, dataVars, showVars>>
  /\ W!Fairness /\ P!Fairness /\ SH!Fairness

-----------------------------------------------------------------------------
\* The cache is a store in which every node has data and handlers of its own, which other calls
\* do not change, and loses them only when they, or it, are removed.
IsStore == ND!IsStore

\* What depends on promises that are settled is settled in the end: the promise of when, and a
\* chain of pipes as far as no function on it throws; animations end, and the queue too
\* (1046-1133, 8352-8482).
Follows == W!Concludes /\ P!Arrives /\ SH!ComesToRest
=============================================================================
