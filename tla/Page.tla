-------------------------------- MODULE Page --------------------------------
(***************************************************************************)
(* What vendor.js does to a page: it waits for the document, calls the     *)
(* handlers of events, and runs queues and animations.  What is true of    *)
(* the four together.                                                      *)
(***************************************************************************)
EXTENDS DomReady

CONSTANTS
  Elem, Parent, Type, Active, Func, Namespace, MaxBound, MaxDepth,     \* of Events
  MaxQueued, MaxPromises, MaxMarks, MaxArrays, MaxChecks,              \* of FxQueue
  Anim, ElemOf, Props, MaxCalls, MaxRequested                          \* of FxTimers, whose elements are those of Events

VARIABLES
  \* of Events; active is its listening
  events, keys, active, hasHandle, triggered, undone, dispatches, turn,   \* its stack and control: dispatches, turn
  \* of FxQueue; calls is its stack
  fx, arrays, queue, calls, queued, running, ran, cleared, mark, defer, made, resolved, checks, early,
  \* of FxTimers; ticking is its timers, loops its stack
  raf, ticking, timerId, requested, started, due, finished, stopped, completed, loops, control, meddled

E == INSTANCE Events WITH listening <- active, stack <- dispatches, control <- turn
Q == INSTANCE FxQueueProperties WITH stack <- calls
A == INSTANCE FxTimersProperties WITH MaxDepth <- MaxCalls, timers <- ticking, stack <- loops

ASSUME EventAssumption == E!ElemAssumption /\ E!TypeAssumption
ASSUME QueueAssumption == Q!BoundAssumption
ASSUME TimerAssumption == A!AnimAssumption

\* The type invariants of the four.
PageTypes == TypeOK /\ E!TypeOK /\ Q!TypeOK /\ A!TypeOK

\* The browser calls eventHandle for exactly the types that have handlers; an element without
\* handlers keeps no data; no event is discarded when no trigger is under way; and what the browser
\* dispatches in a default action is not handled again, unless another trigger took triggered away
\* (2550-2900).
Listening == E!Listening /\ E!NoLeftover /\ E!NothingDiscarded /\ E!SecondDiscarded

\* What waits is attended to: a queue of type fx that functions wait in has one under way, and
\* while timers wait, frames come, from one loop where an interval drives them (1751-1816,
\* 8353-8482).
Attended == Q!Attended /\ A!Driven /\ A!OneLoop

\* As long as the functions under way do not meddle: none that was queued is lost; a timer is
\* kept until its last step and no longer, and its animation completes once.  A promise in the
\* element's data has its timer when queue and marks are gone (1706-1830, 8402-8482).
OnceEach == Q!NothingLost /\ Q!Notified /\ A!Kept /\ A!NoneSpent /\ A!CompletesOnce

\* Nothing that waits is left alone, and what is done is done once.
AttendedOnce == Attended /\ OnceEach
=============================================================================
