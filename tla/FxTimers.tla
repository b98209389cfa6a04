------------------------------ MODULE FxTimers ------------------------------
(***************************************************************************)
(* The animations of jQuery (vendor.js of elasticSearch): one timer per    *)
(* property in the array jQuery.timers, which tick goes through at every   *)
(* frame and stop goes through for one element, while the callbacks of the *)
(* animations that complete start and stop others.                         *)
(*                                                                         *)
(* What runs is a stack: a call of tick at the bottom, above it the calls  *)
(* of stop(.., true) made by callbacks; each has its index into timers.    *)
(***************************************************************************)
EXTENDS Naturals, Sequences, SequencesExt, Sieve

CONSTANTS
  Elem, Anim, ElemOf,   \* the elements, the animations and the element of each
  Props,                \* the number of properties that an animation changes
  MaxDepth,             \* bound: calls on the stack
  MaxRequested          \* bound: frames that are requested

AnimAssumption == ElemOf \in [Anim -> Elem] /\ Props \in Nat \ {0} /\ MaxRequested \in Nat

VARIABLES
  raf,         \* whether the browser has requestAnimationFrame
  timers,      \* jQuery.timers
  timerId,     \* whether timerId is set
  requested,   \* frames that are requested from the browser; the interval counts as one
  started,     \* the animations that have been started
  due,         \* those whose duration has passed
  finished,    \* the timers that have made their last step
  stopped,     \* those that stop took from timers
  completed,   \* per animation, how often complete has been called, 2 for more than once
  stack,       \* the calls of tick and stop
  control,     \* "user": user code runs; "engine": the topmost call goes on
  meddled      \* whether a callback has called stop or thrown

loop == <<timerId, requested>>
vars == <<raf, timers, loop, started, due, finished, stopped, completed, stack, control, meddled>>

Timer == Anim \X (1..Props)
TimersOf(a) == [p \in 1..Props |-> <<a, p>>]
TimerElem(t) == ElemOf[t[1]]

Frame == [call : {"tick"}, index : Nat] \union [call : {"stop"}, index : Nat, elem : Elem]

Init ==
  /\ raf \in BOOLEAN /\ meddled = FALSE
  /\ timers = <<>> /\ timerId = FALSE /\ requested = 0
  /\ started = {} /\ due = {} /\ finished = {} /\ stopped = {}
  /\ completed = [a \in Anim |-> 0]
  /\ stack = <<>> /\ control = "user"

Top == Last(stack)
At(i) == Append(Front(stack), [Top EXCEPT !.index = i])

-----------------------------------------------------------------------------
\* Mutant: the loop is thought to run for as long as timers exist.
AnimateAfter(a) ==
  /\ control = "user" /\ a \notin started /\ requested < MaxRequested
  /\ timers' = timers \o TimersOf(a)
  /\ started' = started \union {a}
  /\ timerId' = TRUE
  /\ requested' = IF timers = <<>> THEN requested + 1 ELSE requested
  /\ UNCHANGED <<raf, meddled, due, finished, stopped, completed, stack, control>>

\* animate, with a duration: its timers make their first step and are put in.  If no
\* timers run yet, they are set going.
Animate(a) ==
  /\ control = "user" /\ a \notin started /\ requested < MaxRequested
  /\ timers' = timers \o TimersOf(a)
  /\ started' = started \union {a}
  /\ timerId' = TRUE
  /\ requested' = IF timerId THEN requested ELSE requested + 1
  /\ UNCHANGED <<raf, meddled, due, finished, stopped, completed, stack, control>>

\* The duration of an animation passes.
Expire(a) ==
  /\ stack = <<>> /\ a \in started \ due
  /\ due' = due \union {a}
  /\ UNCHANGED <<raf, meddled, timers, loop, started, finished, stopped, completed, stack, control>>

\* stop without gotoEnd takes the element's timers out.
Stop(e) ==
  /\ control = "user" /\ meddled' = (meddled \/ stack # <<>>)
  /\ timers' = Sifted(timers, {t \in Timer : TimerElem(t) # e})
  /\ stopped' = stopped \union {t \in Range(timers) : TimerElem(t) = e}
  /\ UNCHANGED <<raf, loop, started, due, finished, completed, stack, control>>

\* stop with gotoEnd begins with the last timer.
StopAtEnd(e) ==
  /\ control = "user" /\ Len(stack) < MaxDepth /\ meddled' = (meddled \/ stack # <<>>)
  /\ stack' = Append(stack, [call |-> "stop", index |-> Len(timers), elem |-> e])
  /\ control' = "engine"
  /\ UNCHANGED <<raf, timers, loop, started, due, finished, stopped, completed>>

\* The browser calls raf, which requests the next frame, or calls tick by the interval.
Begin ==
  /\ stack = <<>> /\ requested > 0
  /\ IF timerId
     THEN stack' = <<[call |-> "tick", index |-> 1]>> /\ control' = "engine" /\ UNCHANGED requested
     ELSE requested' = requested - 1 /\ UNCHANGED <<stack, control>>
  /\ UNCHANGED <<raf, meddled, timers, timerId, started, due, finished, stopped, completed>>

-----------------------------------------------------------------------------
\* Mutant: an animation completes with its first timer.
LastStepEarly(t, after) ==
  /\ finished' = finished \union {t}
  /\ completed' = [completed EXCEPT ![t[1]] = IF @ < 2 THEN @ + 1 ELSE @]
  /\ control' = "user" /\ UNCHANGED <<timers, stack>>

\* Timer t makes its last step.  With the last one of its animation, complete is called;
\* otherwise the timer is taken out at once, and the call goes on at index after.
LastStep(t, after) ==
  /\ finished' = finished \union {t}
  /\ IF \A p \in 1..Props : <<t[1], p>> \in finished'
     THEN /\ completed' = [completed EXCEPT ![t[1]] = IF @ < 2 THEN @ + 1 ELSE @]
          /\ control' = "user" /\ UNCHANGED <<timers, stack>>
     ELSE /\ timers' = RemoveAt(timers, Top.index)
          /\ stack' = At(after)
          /\ UNCHANGED <<completed, control>>

InCall(call) == control = "engine" /\ stack # <<>> /\ Top.call = call

\* tick steps the timer at its index.
Tick ==
  /\ InCall("tick") /\ Top.index <= Len(timers)
  /\ LET t == timers[Top.index]
     IN IF t[1] \in due THEN LastStep(t, Top.index)
        ELSE stack' = At(Top.index + 1) /\ UNCHANGED <<timers, finished, completed, control>>
  /\ UNCHANGED <<raf, meddled, loop, started, due, stopped>>

\* Mutant: the length is not looked at.
TickEndsAlways ==
  /\ InCall("tick") /\ Top.index > Len(timers)
  /\ timerId' = FALSE /\ requested' = (IF raf THEN requested ELSE 0)
  /\ stack' = <<>> /\ control' = "user"
  /\ UNCHANGED <<raf, meddled, timers, started, due, finished, stopped, completed>>

\* tick has gone through timers; when there are none left, fx.stop.
TickEnds ==
  /\ InCall("tick") /\ Top.index > Len(timers)
  /\ IF timers = <<>> THEN timerId' = FALSE /\ requested' = IF raf THEN requested ELSE 0
     ELSE UNCHANGED loop
  /\ stack' = <<>> /\ control' = "user"
  /\ UNCHANGED <<raf, meddled, timers, started, due, finished, stopped, completed>>

\* stop forces the timer at its index to make its last step, if it is the element's.
StopSteps ==
  /\ InCall("stop") /\ Top.index \in DOMAIN timers
  /\ LET t == timers[Top.index]
     IN IF TimerElem(t) = Top.elem THEN LastStep(t, Top.index - 1)
        ELSE stack' = At(Top.index - 1) /\ UNCHANGED <<timers, finished, completed, control>>
  /\ UNCHANGED <<raf, meddled, loop, started, due, stopped>>

\* stop is through, or its index points past the end: then it throws.
StopEnds ==
  /\ InCall("stop") /\ Top.index \notin DOMAIN timers
  /\ stack' = Front(stack) /\ control' = "user"
  /\ UNCHANGED <<raf, meddled, timers, loop, started, due, finished, stopped, completed>>

\* Mutant: the timer stays.
ReturnKeeping ==
  /\ control = "user" /\ stack # <<>>
  /\ stack' = IF Top.call = "tick" THEN At(Top.index + 1) ELSE At(Top.index - 1)
  /\ control' = "engine"
  /\ UNCHANGED <<raf, meddled, timers, loop, started, due, finished, stopped, completed>>

\* Mutant: the index has gone on.
ReturnBeyond ==
  /\ control = "user" /\ stack # <<>>
  /\ timers' = IF Top.index + 1 \in DOMAIN timers THEN RemoveAt(timers, Top.index + 1) ELSE timers
  /\ stack' = IF Top.call = "tick" THEN At(Top.index + 1) ELSE At(Top.index - 1)
  /\ control' = "engine"
  /\ UNCHANGED <<raf, meddled, loop, started, due, finished, stopped, completed>>

\* complete returns, and the timer at the index is taken out, whichever it is by now.
Return ==
  /\ control = "user" /\ stack # <<>>
  /\ timers' = IF Top.index \in DOMAIN timers THEN RemoveAt(timers, Top.index) ELSE timers
  /\ stack' = IF Top.call = "tick" THEN stack ELSE At(Top.index - 1)
  /\ control' = "engine"
  /\ UNCHANGED <<raf, meddled, loop, started, due, finished, stopped, completed>>

\* A callback throws, through stop to the code that called it, or through tick.
Throw ==
  /\ control = "user" /\ stack # <<>>
  /\ stack' = Front(stack) /\ meddled' = TRUE
  /\ UNCHANGED <<raf, timers, loop, started, due, finished, stopped, completed, control>>

Engine == Tick \/ TickEnds \/ StopSteps \/ StopEnds

Next ==
  \/ \E a \in Anim : Animate(a) \/ Expire(a)
  \/ \E e \in Elem : Stop(e) \/ StopAtEnd(e)
  \/ Begin \/ Engine \/ Return \/ Throw

Spec == Init /\ [][Next]_vars

\* Callbacks return.  Time passes and the browser makes frames even if other code runs
\* again and again in between.
Fairness ==
  /\ WF_vars(Engine) /\ WF_vars(Return) /\ SF_vars(Begin)
  /\ \A a \in Anim : SF_vars(Expire(a))

FairSpec == Spec /\ Fairness
=============================================================================
