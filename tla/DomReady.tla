------------------------------ MODULE DomReady ------------------------------
(***************************************************************************)
(* When jQuery takes the document for ready (vendor.js of elasticSearch):  *)
(* the browser's events, the timers that stand in for them, the holds that *)
(* plugins put on it, and the functions that wait for it.                  *)
(***************************************************************************)
EXTENDS Integers

CONSTANTS
  MaxHolds,     \* bound: holds that are put
  MaxTimers     \* bound: timers that call ready

ASSUME DomReadyAssumption == MaxHolds \in Nat /\ MaxTimers \in Nat \ {0}

VARIABLES
  w3c,        \* whether the browser has addEventListener; IE's model otherwise
  phase,      \* document.readyState
  body,       \* whether document.body exists
  bound,      \* whether readyList exists
  listening,  \* the events that ready or DOMContentLoaded listens to
  timers,     \* the timers set for ready
  scrolling,  \* whether the timer of doScrollCheck is set
  isReady, readyWait,
  holds,      \* the holds that are not released
  held,       \* the holds put so far
  fired       \* whether readyList is resolved, so that its functions are called

browser == <<w3c, phase, body>>
ready == <<isReady, readyWait, fired>>
vars == <<browser, bound, listening, timers, scrolling, ready, holds, held>>

Init ==
  /\ w3c \in BOOLEAN
  /\ \/ phase = "loading" /\ body = FALSE
     \/ phase \in {"interactive", "complete"} /\ body = TRUE
  /\ bound = FALSE /\ listening = {} /\ timers = 0 /\ scrolling = FALSE
  /\ isReady = FALSE /\ readyWait = 1 /\ holds = 0 /\ held = 0 /\ fired = FALSE

-----------------------------------------------------------------------------
\* Mutant: every call counts.
SetReadyAgain(timersLeft) ==
  IF ~body THEN UNCHANGED ready /\ timers' = timersLeft + 1
  ELSE /\ isReady' = TRUE /\ readyWait' = readyWait - 1
       /\ IF readyWait <= 1 THEN fired' = TRUE ELSE UNCHANGED fired
       /\ timers' = timersLeft

\* ready(), as the events and the timers call it: the first call that finds a body counts,
\* and resolves readyList unless something holds it.
SetReady(timersLeft) ==
  IF isReady THEN UNCHANGED ready /\ timers' = timersLeft
  ELSE IF ~body THEN UNCHANGED ready /\ timers' = timersLeft + 1
  ELSE /\ isReady' = TRUE /\ readyWait' = readyWait - 1
       /\ IF readyWait <= 1 THEN fired' = TRUE ELSE UNCHANGED fired
       /\ timers' = timersLeft

Hold ==
  /\ held < MaxHolds
  /\ held' = held + 1 /\ holds' = holds + 1 /\ readyWait' = readyWait + 1
  /\ UNCHANGED <<browser, bound, listening, timers, scrolling, isReady, fired>>

\* Mutant: a release never resolves.
ReleaseOnly ==
  /\ holds > 0
  /\ holds' = holds - 1 /\ readyWait' = readyWait - 1
  /\ UNCHANGED <<browser, bound, listening, timers, scrolling, isReady, held, fired>>

\* holdReady(false), that is, ready(true), for a hold that was put.  The last one resolves.
Release ==
  /\ holds > 0 /\ (readyWait = 1 /\ ~body => timers < MaxTimers)
  /\ holds' = holds - 1 /\ readyWait' = readyWait - 1
  /\ IF readyWait = 1
     THEN IF body THEN isReady' = TRUE /\ fired' = TRUE /\ UNCHANGED timers
          ELSE timers' = timers + 1 /\ UNCHANGED <<isReady, fired>>
     ELSE UNCHANGED <<isReady, fired, timers>>
  /\ UNCHANGED <<browser, bound, listening, scrolling, held>>

\* bindReady, by the first function that waits; toplevel is whether the page is in no frame.
BindReady(toplevel) ==
  /\ ~bound /\ bound' = TRUE
  /\ IF phase = "complete" THEN timers' = timers + 1 /\ UNCHANGED <<listening, scrolling>>
     ELSE listening' = {"content", "load"} /\ scrolling' = (IF w3c THEN FALSE ELSE toplevel) /\ UNCHANGED timers
  /\ UNCHANGED <<browser, ready, holds, held>>

-----------------------------------------------------------------------------
\* The parser comes to the body.
Parse ==
  /\ phase = "loading" /\ ~body
  /\ body' = TRUE
  /\ UNCHANGED <<w3c, phase, bound, listening, timers, scrolling, ready, holds, held>>

\* The document is parsed.  Where there are no DOM events, only a document that is
\* complete counts.
ContentLoaded ==
  /\ phase = "loading" /\ body
  /\ phase' = "interactive"
  /\ IF w3c /\ "content" \in listening
     THEN listening' = listening \ {"content"} /\ SetReady(timers)
     ELSE UNCHANGED <<listening, timers, ready>>
  /\ UNCHANGED <<w3c, body, bound, scrolling, holds, held>>

\* Everything is loaded: onreadystatechange and onload, of which the first one counts.
Loaded ==
  /\ phase = "interactive"
  /\ phase' = "complete"
  /\ listening' = {}
  /\ IF listening # {} THEN SetReady(timers) ELSE UNCHANGED <<timers, ready>>
  /\ UNCHANGED <<w3c, body, bound, scrolling, holds, held>>

\* A timer set for ready.
Timer ==
  /\ timers > 0
  /\ SetReady(timers - 1)
  /\ UNCHANGED <<browser, bound, listening, scrolling, holds, held>>

\* doScrollCheck: IE's doScroll throws until it thinks that the document can be used, and
\* then ready is called, body or not.
ScrollCheck ==
  /\ scrolling
  /\ \/ isReady /\ scrolling' = FALSE /\ UNCHANGED <<ready, timers>>
     \/ ~isReady /\ phase = "loading" /\ UNCHANGED <<scrolling, ready, timers>>
     \/ ~isReady /\ timers < MaxTimers /\ scrolling' = FALSE /\ SetReady(timers)
  /\ UNCHANGED <<browser, bound, listening, holds, held>>

Next ==
  \/ Hold \/ Release \/ \E toplevel \in BOOLEAN : BindReady(toplevel)
  \/ Parse \/ ContentLoaded \/ Loaded \/ Timer \/ ScrollCheck

Spec == Init /\ [][Next]_vars

\* The page loads, timers fire, and every hold is released.
Fairness == WF_vars(Parse) /\ WF_vars(ContentLoaded) /\ WF_vars(Loaded) /\ WF_vars(Timer) /\ WF_vars(Release)

FairSpec == Spec /\ Fairness

-----------------------------------------------------------------------------
Flags == body \in BOOLEAN /\ bound \in BOOLEAN /\ scrolling \in BOOLEAN /\ isReady \in BOOLEAN /\ fired \in BOOLEAN

\* The types of the variables.
TypeOK ==
  /\ w3c \in BOOLEAN /\ Flags
  /\ phase \in {"loading", "interactive", "complete"} /\ listening \subseteq {"content", "load"}
  /\ timers \in Nat /\ readyWait \in Nat /\ held \in 0..MaxHolds /\ holds \in 0..held

\* "A counter to track how many items to wait for before the ready event fires" (397): it
\* counts the document and the holds, however often ready is called and with what.
Counted == (isReady => readyWait = holds) /\ (~isReady => readyWait = holds + 1)

\* Functions that wait are called when the document is ready and nothing holds it, and not
\* left waiting then (413-427).
NotForgotten == isReady /\ holds = 0 => fired

\* ... and not before: "Make sure body exists" (414).
NotEarly == fired => isReady /\ body

\* Something will call ready if nothing has: an event or a timer (437-480).
Awaited == bound /\ ~isReady => timers > 0 \/ (phase # "complete" /\ listening # {})

\* Functions are called only when no hold is left.
OnlyUnheld == [][~fired /\ fired' => holds' = 0]_vars

\* If every hold is released, functions that wait are called in the end.
Fires == bound ~> fired
=============================================================================
