-------------------------------- MODULE MCPage --------------------------------
(***************************************************************************)
(* Model checking of what vendor.js does to a page: it waits for the       *)
(* document, calls the handlers of events, and runs queues and animations. *)
(* The modules share no state, so a behaviour is one of a page that needs  *)
(* one of them, and the others stay as they were at the start.             *)
(***************************************************************************)
EXTENDS Page, Sequences, TLC

CONSTANTS child, parent, f

VARIABLE part    \* the one that is needed

eventVars == <<events, keys, active, hasHandle, triggered, undone, dispatches, turn>>
queueVars == <<fx, arrays, queue, calls, queued, running, ran, cleared, mark, defer, made, resolved, checks, early>>
timerVars == <<raf, ticking, timerId, requested, started, due, finished, stopped, completed, loops, control, meddled>>

-----------------------------------------------------------------------------
Chain == child :> parent @@ parent :> "none"
Owners == [a \in Anim |-> IF a = 2 THEN parent ELSE child]

PageInit ==
  /\ part \in {"document", "events", "nested", "queue", "animations"}
  /\ Init /\ E!Init /\ Q!Init /\ A!Init
  /\ part # "document" => w3c /\ phase = "complete"
  /\ part # "queue" => fx
  /\ part # "animations" => raf

\* Bounds of the parts about events: one type, two dispatches deep, with two handlers of the child
\* and one of the parent; or both types, three deep, with two handlers that stay until unbound.
OneType ==
  /\ Len(dispatches') <= 2 /\ \A k \in 1..Len(dispatches') : dispatches'[k].type = "focus"
  /\ Len(events'[parent]["focus"]) <= 1 /\ \A e \in Elem : events'[e]["change"] = <<>>

FewHandlers ==
  /\ events'[parent]["change"] = <<>>
  /\ \A e \in Elem, t \in Type : Len(events'[e][t]) <= 1 /\ (events'[e][t] # <<>> => ~events'[e][t][1].one)
  /\ \E e \in Elem, t \in Type : <<e, t>> # <<parent, "change">> /\ events'[e][t] = <<>>

\* Bound of the part about queues: one promise, or two and two functions.
FewPromises == made' <= 1 \/ queued' <= 2

PageNext ==
  /\ \/ part = "document" /\ Next /\ UNCHANGED eventVars /\ UNCHANGED queueVars /\ UNCHANGED timerVars
     \/ part = "events" /\ E!Next /\ OneType /\ UNCHANGED vars /\ UNCHANGED queueVars /\ UNCHANGED timerVars
     \/ part = "nested" /\ E!Next /\ FewHandlers /\ UNCHANGED vars /\ UNCHANGED queueVars /\ UNCHANGED timerVars
     \/ part = "queue" /\ Q!Next /\ FewPromises /\ UNCHANGED vars /\ UNCHANGED eventVars /\ UNCHANGED timerVars
     \/ part = "animations" /\ A!Next /\ UNCHANGED vars /\ UNCHANGED eventVars /\ UNCHANGED queueVars
  /\ UNCHANGED part

PageSpec ==
  /\ PageInit /\ [][PageNext]_<<part, vars, eventVars, queueVars, timerVars>>
  /\ Fairness /\ Q!Fairness /\ A!Fairness

-----------------------------------------------------------------------------
\* Functions that wait for the document are called once it is not held any more, those of a
\* queue in their order, and of an fx queue every one in the end; a promise about it is resolved,
\* unless the timer of another deprived it of its data; and every animation completes or is stopped
\* (402-480, 1706-1816, 1839-1872, 8176-8220, 8402-8482).
AllRun == Fires /\ Q!InOrder /\ Q!AllRun /\ Q!AllResolved /\ A!AllComplete
=============================================================================
