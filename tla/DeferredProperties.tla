------------------------- MODULE DeferredProperties -------------------------
(***************************************************************************)
(* What a deferred owes its callbacks, however they call it back.          *)
(***************************************************************************)
EXTENDS Deferred

\* What the methods isResolved and isRejected return.
Settled(l) == firing[l] \/ fired[l]

\* cancel is the first callback of a list, or none of it.
Users(q) == IF q # <<>> /\ Head(q) = Cancel THEN Tail(q) ELSE q

\* The types of the variables.
TypeOK ==
  /\ callbacks \in [List -> Seq(0..MaxAdded)]
  /\ fired \in [List -> BOOLEAN] /\ firing \in [List -> BOOLEAN]
  /\ cancelled \in [List -> BOOLEAN] /\ thrown \in [List -> BOOLEAN]
  /\ stack \in Seq(List) /\ control \in {"user", "loop"} /\ n \in 0..MaxAdded
  /\ added \in [List -> Seq(1..MaxAdded)] /\ called \in [List -> Seq(1..MaxAdded)]

\* A deferred is resolved or rejected, never both, and callbacks of one list
\* only are ever called: cancel comes before any other callback (Deferred, 1087).
Exclusive ==
  /\ ~(Settled("done") /\ Settled("fail"))
  /\ called["done"] = <<>> \/ called["fail"] = <<>>

\* A list that was not cancelled has called, in order and once each, what it
\* was given, except what is still in it: also when callbacks add others to the
\* list that fires, or throw (resolveWith, 988-1004).
NothingLost ==
  \A l \in List : ~cancelled[l] => called[l] \o Users(callbacks[l]) = added[l]

\* Once a list has fired and no code of it runs, callbacks are left only
\* because one threw; they wait for the next done or fail (done, 959-985).
Delivered ==
  \A l \in List : fired[l] /\ ~cancelled[l] /\ ~thrown[l] => called[l] = added[l]

\* A list never fires inside itself, nor one list inside the other (resolveWith, 989).
NeverNested == Len(stack) <= 1

\* What isResolved and isRejected said once they say for ever, although fired
\* is cleared while a list fires again (done, 967-970).
StaysSettled == [][\A l \in List : Settled(l) => Settled(l)']_vars

-----------------------------------------------------------------------------
Outcome == CASE Settled("done") -> "done" [] Settled("fail") -> "fail" [] OTHER -> "pending"

\* Until cancel is called, the callbacks of the other list are still in it.
Waiting == [l \in List |-> IF Outcome \in {"pending", l} THEN Users(callbacks[l]) ELSE <<>>]

Abstract == INSTANCE Promise WITH outcome <- Outcome, waiting <- Waiting

\* A deferred is a promise.
IsPromise == Abstract!Spec
=============================================================================
