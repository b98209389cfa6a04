------------------------------ MODULE Promises ------------------------------
(***************************************************************************)
(* What jQuery's other parts are built on: promises about promises, that   *)
(* of jQuery.when for several arguments and a chain of those that pipe     *)
(* returns, beside the deferred that both are made of; and what jQuery     *)
(* keeps about nodes, their data and what it needs to show and hide one.   *)
(***************************************************************************)
EXTENDS DeferredProperties

CONSTANTS
  Arguments, Plain, Value, Given,    \* of When; Arguments is its N
  Links, Filters, Own,               \* of Pipe; Links is its N
  Node, Page, Made, Name, camelCase, Type, MaxId, MaxData, NoNode,    \* of NodeData: MaxData is its MaxCalls, NoNode its None
  Animated, MaxAnimated, Unset       \* of ShowHide: its Calls, MaxCalls and None

VARIABLES
  wanted, state, value, told, args, count, outcome, result,    \* of When; wanted is its called
  chain, passed, follows, own, broken,                         \* of Pipe; chain is its state, broken its thrown
  \* of NodeData
  within, made, expando, uuid, cache, pub, priv, objects, elem, listening, todo, moving, fresh, copying, pairs, calls,
  \* of ShowHide; tasks is its todo, turns its calls
  natural, sheet, el, queue, busy, running, tasks, turns, asked, orderly, whole

W == INSTANCE When WITH N <- Arguments, called <- wanted
P == INSTANCE Pipe WITH N <- Links, state <- chain, thrown <- broken
ND == INSTANCE NodeData WITH MaxCalls <- MaxData, None <- NoNode
SH == INSTANCE ShowHide WITH Calls <- Animated, MaxCalls <- MaxAnimated, None <- Unset, todo <- tasks, calls <- turns

ASSUME ArgumentAssumption == W!WhenAssumption
ASSUME LinkAssumption == P!PipeAssumption
ASSUME NodeAssumption == ND!DataAssumption
ASSUME ShowAssumption == SH!CallAssumption

\* The type invariants of the five.
PromiseTypes == TypeOK /\ W!TypeOK /\ P!TypeOK /\ ND!TypeOK /\ SH!TypeOK

\* The promise of when is resolved with the values of all its arguments in their order, and
\* rejected only when one of them failed; a promise made with pipe has the outcome of the
\* nearest promise before it that settled of itself (1046-1071, 1098-1132).
Outcomes == W!AllThere /\ W!OneFailed /\ P!Inherits

\* Entries of the cache and nodes belong together one by one; the browser calls a node's own
\* handle, for the types that it has handlers for; what jQuery keeps about two nodes is never
\* shared, and clones are given all of it (1408-1572, 5805-5832, 5979-6024, 6142-6185).
OwnData == ND!Owned /\ ND!Heard /\ ND!Apart /\ ND!Alike

\* An element is shown with its own display, and its styles are put back; calls that wait in the
\* queue are obeyed in their order, behind an animation that runs (7964-8213, 8376-8442).
AsAsked == SH!RightDisplay /\ SH!Restored /\ SH!Obeyed /\ SH!NotStuck

\* What is kept about a node is its own, and what is asked of it is done.
NodesRight == OwnData /\ AsAsked
=============================================================================
