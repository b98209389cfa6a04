------------------------ MODULE FxTimersProperties ------------------------
(***************************************************************************)
(* What jQuery's timers owe the animations.                                *)
(***************************************************************************)
EXTENDS FxTimers

\* The types of the variables.
TypeOK ==
  /\ raf \in BOOLEAN /\ meddled \in BOOLEAN
  /\ timers \in Seq(Timer) /\ timerId \in BOOLEAN /\ requested \in 0..MaxRequested
  /\ due \subseteq started /\ started \subseteq Anim /\ finished \subseteq Timer /\ stopped \subseteq Timer
  /\ completed \in [Anim -> 0..2] /\ stack \in Seq(Frame) /\ control \in {"user", "engine"}

\* While a timer waits, frames come: a loop that has ended, or is about to, never leaves
\* behind a timer that was put in meanwhile (8353-8368, 8465-8482).
Driven == timers # <<>> => timerId /\ requested > 0

\* A timer stays in timers until it has made its last step or its element is stopped.  This
\* is so as long as no callback calls stop or throws: the index that is taken out after it
\* returns may be another timer's by then (8474-8478, 8557-8567).
Kept == ~meddled => \A a \in started, p \in 1..Props :
  <<a, p>> \in finished \union stopped \union Range(timers)

\* Between frames every timer in timers has steps to make.
NoneSpent == ~meddled /\ stack = <<>> => Range(timers) \cap finished = {}

\* complete is called once: "force the next step to be the last" (8206), "Execute the
\* complete function" (8438).
CompletesOnce == ~meddled => \A a \in Anim : completed[a] <= 1

\* "When timerId gets set to null at any point, this stops" (8358): one loop runs at a time.
OneLoop == ~raf => requested <= 1

\* An animation that was started completes or is stopped.
AllComplete == \A a \in Anim :
  [](a \in started => <>(completed[a] > 0 \/ meddled \/ \E p \in 1..Props : <<a, p>> \in stopped))
=============================================================================
