------------------------------ MODULE Libraries ------------------------------
(***************************************************************************)
(* The two parts of Raphael that keep state between calls: the list of a   *)
(* paper's elements, and the animations of elements.                       *)
(***************************************************************************)
EXTENDS ElementList

CONSTANTS
  Shape, Parts, Anim    \* of ElementFrames: its Element, its Items, and the animations

VARIABLES
  el, entries, over, loops, at, late, removed, timers, ac, waiting, members, heard, fate, called, thrown, meddled

F == INSTANCE ElementFrames WITH Element <- Shape, Items <- Parts

ASSUME FrameAssumption == F!AnimAssumption

\* Frames come as long as there are animations, and the bookkeeping of each, its place in the
\* array and its timer, is touched by nobody else; the callback of a set is called once and last
\* (12216-12321, 12432-12595, 12657-12673).
Animated == F!LoopRuns /\ F!OwnEnd /\ F!Silent /\ F!Collected
=============================================================================
