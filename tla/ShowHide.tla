------------------------------- MODULE ShowHide -------------------------------
(***************************************************************************)
(* Showing and hiding an element with jQuery (vendor.js of elasticSearch): *)
(* show, hide and toggle set the inline display and remember another;      *)
(* their animated forms also move properties of the style, cut what        *)
(* overflows, and put everything back when they end.                       *)
(*                                                                         *)
(* One element.  What is under way when a call runs other calls (complete, *)
(* which takes the next animation from the queue and calls a callback) is  *)
(* a stack of tasks.  jQuery.timers, where an animation has a timer per    *)
(* property, is the subject of FxTimers; here an animation ends as one.    *)
(***************************************************************************)
EXTENDS Naturals, FiniteSets, Sequences, SequencesExt

CONSTANTS
  Calls,      \* the animated calls that are made: see Call
  MaxCalls,   \* bound: calls that are made
  None

Prop == {"height", "opacity"}     \* what an animation may move; the first is a size
Call == [val : {"show", "hide", "toggle"}, props : SUBSET Prop \ {{}}, queue : BOOLEAN, instant : BOOLEAN]

Display == {"", "none", "inline-block", "block", "inline"}
Style == {"own", "moved"}    \* of a style: as the page wrote it, or as an animation left it

CallAssumption == Calls \subseteq Call /\ None \notin Display \union {"own", "hidden"} /\ MaxCalls \in Nat

VARIABLES
  natural,   \* the display that the browser gives such an element
  sheet,     \* whether a stylesheet hides it
  el,        \* of the element: its inline style, and olddisplay of its data
  queue,     \* the animations that wait in the queue fx
  busy,      \* whether the queue holds "inprogress"
  running,   \* the animations that run, in the order of their timers
  todo,      \* the tasks under way, the innermost first
  calls,     \* the calls made so far
  asked,     \* whether the last call asked for the element to be seen
  orderly,   \* whether every call came when those before it were done with, or waited in the queue
  whole      \* whether no animation was stopped on its way or overlapped another

vars == <<natural, sheet, el, queue, busy, running, todo, calls, asked, orderly, whole>>

Css(e) == IF e.inline # "" THEN e.inline ELSE IF sheet THEN "none" ELSE natural
Hidden(e) == Css(e) = "none"

Init ==
  /\ natural \in {"block", "inline"} /\ sheet \in BOOLEAN
  /\ el \in [inline : {"", "none"}, old : {None}, style : {[p \in Prop |-> "own"]}, overflow : {"own"}]
  /\ queue = <<>> /\ busy = FALSE /\ running = <<>> /\ todo = <<>> /\ calls = 0
  /\ asked = ~Hidden(el) /\ orderly = TRUE /\ whole = TRUE

-----------------------------------------------------------------------------
(* The parts of calls.                                                     *)

\* Mutant: every element is shown as a block.
ShowBlock(e) ==
  LET inline == IF e.old = None /\ e.inline = "none" THEN "" ELSE e.inline
      old == IF inline = "" /\ sheet THEN "block" ELSE e.old
  IN  [e EXCEPT !.inline = IF inline \notin {"", "none"} THEN inline ELSE IF old = None THEN "" ELSE old,
                !.old = old]

\* show without a speed.
Show(e) ==
  LET inline == IF e.old = None /\ e.inline = "none" THEN "" ELSE e.inline
      old == IF inline = "" /\ sheet THEN natural ELSE e.old
  IN  [e EXCEPT !.inline = IF inline \notin {"", "none"} THEN inline ELSE IF old = None THEN "" ELSE old,
                !.old = old]

\* Mutant: a hidden element's display is remembered too.
HideAny(e) == [e EXCEPT !.inline = "none", !.old = IF @ = None THEN Css(e) ELSE @]

\* hide without a speed.
Hide(e) == [e EXCEPT !.inline = "none", !.old = IF @ = None /\ ~Hidden(e) THEN Css(e) ELSE @]

\* animate prepares an element whose size it moves.
Prepared(e, c) ==
  IF "height" \notin c.props THEN e
  ELSE [e EXCEPT !.inline = IF Css(e) = "inline" THEN "inline-block" ELSE @, !.overflow = "hidden"]

\* What an animation that begins keeps: the styles of its properties and the overflow before it.
Begun(e, c) ==
  [show |-> Hidden(e), props |-> c.props, queue |-> c.queue,
   orig |-> e.style, overflow |-> IF "height" \in c.props THEN e.overflow ELSE None]

\* The first steps of an animation.
Moved(e, a) == [e EXCEPT !.style = [p \in Prop |-> IF p \in a.props THEN "moved" ELSE @[p]]]

\* Mutant: what the animation kept is put back only if it showed the element.
FinishedShown(e, a) ==
  LET back == [e EXCEPT !.overflow = IF a.overflow = None THEN @ ELSE a.overflow]
  IN  IF ~a.show THEN Hide(back)
      ELSE [back EXCEPT !.style = [p \in Prop |-> IF p \in a.props THEN a.orig[p] ELSE @[p]]]

\* The last step of an animation, before complete.
Finished(e, a) ==
  LET back == [e EXCEPT !.overflow = IF a.overflow = None THEN @ ELSE a.overflow]
      done == IF a.show THEN back ELSE Hide(back)
  IN  [done EXCEPT !.style = [p \in Prop |-> IF p \in a.props THEN a.orig[p] ELSE @[p]]]

Task(name) == <<[do |-> name]>>

\* A show that the end of an animation without a duration still has before it.
ShowPending == \E t \in Range(todo) : t.do = "show"

\* Mutant: nothing is taken from the queue.
CompleteOnly(queued) == Task("callback")

\* complete: the next animation is taken from the queue, then the callback is called.
Complete(queued) == (IF queued THEN Task("dequeue") ELSE <<>>) \o Task("callback")

\* The function of animate, called under other tasks.  Where an animation shows the element,
\* each of its properties makes its first step and then calls show; without a duration the first
\* step of the last property is the end of the animation, and complete comes before that show.
Begin(c, under) ==
  IF c.val # "toggle" /\ (c.val = "hide") = Hidden(el)
  THEN todo' = Complete(c.queue) \o under /\ UNCHANGED <<el, running, whole>>
  ELSE LET a == Begun(el, c)
           moved == Moved(Prepared(el, c), a)
       IN  /\ whole' = (whole /\ \A b \in Range(running) : b.props \cap c.props = {})
           /\ IF c.instant
              THEN /\ el' = Finished(IF a.show /\ Cardinality(c.props) > 1 THEN Show(moved) ELSE moved, a)
                   /\ todo' = Complete(c.queue) \o (IF a.show THEN Task("show") ELSE <<>>) \o under
                   /\ UNCHANGED running
              ELSE /\ el' = IF a.show THEN Show(moved) ELSE moved
                   /\ running' = Append(running, a) /\ todo' = under

\* dequeue, with what the queue holds.  When the function has returned, the queue is removed if
\* its array is empty: that of the function, which another dequeue may have emptied meanwhile.
Dequeue(waiting, under) ==
  /\ busy' = (waiting # <<>>)
  /\ IF waiting = <<>>
     THEN /\ queue' = <<>> /\ UNCHANGED <<el, running, whole>>
          /\ todo' = [k \in DOMAIN under |-> IF under[k].do = "keep" THEN [do |-> "remove"] ELSE under[k]]
     ELSE queue' = Tail(waiting) /\ Begin(Head(waiting), Task("keep") \o under)

-----------------------------------------------------------------------------
(* What the page calls.                                                    *)

Ready == calls < MaxCalls /\ (todo # <<>> => Head(todo).do = "callback")
Alone == running = <<>> /\ queue = <<>> /\ ~ShowPending

\* show, hide and toggle without a speed.
Directly(val) ==
  /\ Ready /\ calls' = calls + 1
  /\ LET shown == val = "show" \/ (val = "toggle" /\ Hidden(el))
     IN  el' = (IF shown THEN Show(el) ELSE Hide(el)) /\ asked' = shown
  /\ orderly' = (orderly /\ Alone)
  /\ UNCHANGED <<natural, sheet, queue, busy, running, todo, whole>>

\* The animated forms: in the queue, whose first function is called at once if nothing is in
\* progress, or outside of it.
Animate(c) ==
  /\ Ready /\ calls' = calls + 1
  /\ asked' = CASE c.val = "show" -> TRUE [] c.val = "hide" -> FALSE [] c.val = "toggle" -> ~asked
  /\ orderly' = (orderly /\ IF c.queue /\ busy THEN ~ShowPending /\ \A a \in Range(running) : a.queue ELSE Alone)
  /\ CASE c.queue /\ busy -> queue' = Append(queue, c) /\ UNCHANGED <<el, busy, running, todo, whole>>
       [] c.queue /\ ~busy -> Dequeue(<<c>>, todo)
       [] ~c.queue -> Begin(c, todo) /\ UNCHANGED <<queue, busy>>
  /\ UNCHANGED <<natural, sheet>>

\* stop takes the element's timers out and dequeues; with clearQueue from an empty queue.  What
\* stop does when a callback calls it is in FxTimers.
Stop(clearQueue) ==
  /\ Ready /\ todo = <<>> /\ calls' = calls + 1
  /\ queue' = (IF clearQueue THEN <<>> ELSE queue) /\ running' = <<>>
  /\ todo' = Task("dequeue")
  /\ orderly' = (orderly /\ running = <<>> /\ queue = <<>>) /\ whole' = (whole /\ running = <<>>)
  /\ UNCHANGED <<natural, sheet, el, busy, asked>>

\* stop with gotoEnd forces the last steps, beginning with the last timer.
StopAtEnd(clearQueue) ==
  /\ Ready /\ todo = <<>> /\ calls' = calls + 1
  /\ queue' = (IF clearQueue THEN <<>> ELSE queue) /\ busy' = (busy /\ ~clearQueue)
  /\ todo' = [k \in DOMAIN running |-> [do |-> "force", at |-> Len(running) + 1 - k]]
  /\ orderly' = (orderly /\ (clearQueue => queue = <<>>))
  /\ UNCHANGED <<natural, sheet, el, running, asked, whole>>

-----------------------------------------------------------------------------
(* What goes on.                                                           *)

\* The animation at a place among the running ones ends.
End(k, under) ==
  /\ el' = Finished(el, running[k])
  /\ running' = RemoveAt(running, k)
  /\ todo' = Complete(running[k].queue) \o under

\* A frame, when an animation's time is over.
LastStep ==
  /\ todo = <<>>
  /\ \E k \in DOMAIN running : End(k, <<>>)
  /\ UNCHANGED <<natural, sheet, queue, busy, calls, asked, orderly, whole>>

\* The innermost task goes on.  A callback that has made its calls returns.
Go ==
  /\ todo # <<>> /\ LET under == Tail(todo) IN
     CASE Head(todo).do = "force" -> End(Head(todo).at, under) /\ UNCHANGED <<queue, busy, orderly, whole>>
       [] Head(todo).do = "dequeue" -> Dequeue(queue, under) /\ orderly' = (orderly /\ (ShowPending => queue = <<>>))
       [] Head(todo).do = "remove" -> /\ queue' = <<>> /\ busy' = FALSE /\ orderly' = (orderly /\ queue = <<>>)
                                      /\ todo' = under /\ UNCHANGED <<el, running, whole>>
       [] Head(todo).do = "show" -> el' = Show(el) /\ todo' = under /\ UNCHANGED <<queue, busy, running, orderly, whole>>
       [] Head(todo).do \in {"callback", "keep"} -> todo' = under /\ UNCHANGED <<el, queue, busy, running, orderly, whole>>
  /\ UNCHANGED <<natural, sheet, calls, asked>>

Next ==
  \/ \E val \in {"show", "hide", "toggle"} : Directly(val)
  \/ \E c \in Calls : Animate(c)
  \/ \E clearQueue \in BOOLEAN : Stop(clearQueue) \/ StopAtEnd(clearQueue)
  \/ LastStep \/ Go

Spec == Init /\ [][Next]_vars

\* Frames come, and calls return.
Fairness == WF_vars(LastStep) /\ WF_vars(Go)

-----------------------------------------------------------------------------
\* The types of the variables.
TypeOK ==
  /\ natural \in {"block", "inline"} /\ {sheet, busy, asked, orderly, whole} \subseteq BOOLEAN
  /\ el \in [inline : Display, old : Display \union {None}, style : [Prop -> Style], overflow : {"own", "hidden"}]
  /\ queue \in Seq(Calls) /\ calls \in 0..MaxCalls
  /\ \A a \in Range(running) : a.orig \in [Prop -> Style] /\ a.overflow \in {"own", "hidden", None}
  /\ \A t \in Range(todo) : t.do \in {"dequeue", "callback", "keep", "remove", "show", "force"}

Rest == running = <<>> /\ todo = <<>>

\* Whatever was asked for in whatever order: an element that is seen has the display of its
\* kind, or inline-block if it is an inline one whose size was moved, even where a stylesheet
\* hides it (7975-8060, 8135-8160).
RightDisplay == ~Hidden(el) => Css(el) \in {natural, "inline-block"} /\ (Css(el) = "inline-block" => natural = "inline")

\* "Reset the properties, if the item has been hidden or shown" (8431): when nothing runs any
\* more, the styles and the overflow are what the page wrote, unless an animation was stopped on
\* its way or overlapped another.
Restored == Rest /\ whole => el.overflow = "own" /\ \A p \in Prop : el.style[p] = "own"

\* Calls that wait for those before them are obeyed in their order, a toggle turning what it
\* finds: at the end the element is seen if the last one asked for that.
Obeyed == Rest /\ queue = <<>> /\ orderly => Hidden(el) = ~asked

\* Animations that wait in the queue do so behind one that runs.
NotStuck == (busy => todo # <<>> \/ \E a \in Range(running) : a.queue) /\ (queue # <<>> => busy)

\* In the end nothing runs and nothing waits.
ComesToRest == <>[](Rest /\ queue = <<>>)
=============================================================================
