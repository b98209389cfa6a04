-------------------------------- MODULE When --------------------------------
(***************************************************************************)
(* jQuery.when for several arguments (vendor.js of elasticSearch): one     *)
(* promise about many, some of which are settled before the call, some     *)
(* after it, and some of which are no promises.                            *)
(*                                                                         *)
(* That a promise was settled and that it calls the callback of when are   *)
(* two steps: it may be busy with callbacks that were added earlier.       *)
(***************************************************************************)
EXTENDS Naturals, FiniteSets

CONSTANTS
  N,        \* the number of arguments
  Plain,    \* those that are no promises, whose values are Given
  Value, Given

WhenAssumption == N \in Nat /\ N > 1 /\ Plain \subseteq 1..N /\ Given \in Value /\ "none" \notin Value

VARIABLES
  called,    \* whether when has been called
  state,     \* of each argument, "pending", "done" or "fail"
  value,     \* of each argument, what it is or was resolved with, else None
  told,      \* the arguments whose outcome reached when
  args,      \* the array of values that when builds up
  count,
  outcome,   \* of the promise that when returns
  result     \* what it was resolved with

vars == <<called, state, value, told, args, count, outcome, result>>

None == "none"
Arg == 1..N
Asked == Arg \ Plain

Init ==
  /\ called = FALSE
  /\ state = [i \in Arg |-> IF i \in Plain THEN "done" ELSE "pending"]
  /\ value = [i \in Arg |-> IF i \in Plain THEN Given ELSE None]
  /\ told = {} /\ args = [i \in Arg |-> None] /\ count = N
  /\ outcome = "pending" /\ result = [i \in Arg |-> None]

\* Somebody settles a promise.
Settle(i, s, v) ==
  /\ state[i] = "pending"
  /\ state' = [state EXCEPT ![i] = s]
  /\ value' = [value EXCEPT ![i] = IF s = "done" THEN v ELSE None]
  /\ UNCHANGED <<called, told, args, count, outcome, result>>

\* What when does about its own promise, which is settled once: it rejects it for one that
\* failed, and resolves it when nothing is left to count.
Conclude(left, values, failed) ==
  /\ count' = left /\ args' = values
  /\ IF outcome # "pending" THEN UNCHANGED <<outcome, result>>
     ELSE IF failed THEN outcome' = "fail" /\ UNCHANGED result
     ELSE IF left = 0 THEN outcome' = "done" /\ result' = values
     ELSE UNCHANGED <<outcome, result>>

\* Of the promises in now, those that were resolved; and the values that when has with theirs.
Resolved(now) == {i \in now : state[i] = "done"}
Known(now) == [i \in Arg |-> IF i \in Plain \union Resolved(now) THEN value[i] ELSE None]

\* Mutant: what is no promise is counted all the same.
WhenCounting(now) ==
  /\ ~called /\ called' = TRUE
  /\ now \subseteq {i \in Asked : state[i] # "pending"}
  /\ told' = now
  /\ Conclude(N - Cardinality(Resolved(now)), Known(now), now # Resolved(now))
  /\ UNCHANGED <<state, value>>

\* when goes through its arguments.  Those of the promises in now were settled and call back
\* at once.
When(now) ==
  /\ ~called /\ called' = TRUE
  /\ now \subseteq {i \in Asked : state[i] # "pending"}
  /\ told' = now
  /\ Conclude(N - Cardinality(Plain) - Cardinality(Resolved(now)), Known(now), now # Resolved(now))
  /\ UNCHANGED <<state, value>>

\* Mutant: the values are put in the order in which they come.
TellInTurn(i) ==
  /\ called /\ i \in Asked \ told /\ state[i] # "pending"
  /\ told' = told \union {i}
  /\ IF state[i] = "done" THEN Conclude(count - 1, [args EXCEPT ![Cardinality(told) + 1] = value[i]], FALSE)
     ELSE Conclude(count, args, TRUE)
  /\ UNCHANGED <<called, state, value>>

\* Mutant: a promise calls back as often as it likes.
TellAgain(i) ==
  /\ called /\ i \in Asked /\ state[i] # "pending"
  /\ told' = told \union {i}
  /\ IF state[i] = "done" THEN Conclude(count - 1, [args EXCEPT ![i] = value[i]], FALSE)
     ELSE Conclude(count, args, TRUE)
  /\ UNCHANGED <<called, state, value>>

\* Mutant: the callbacks are given the wrong way round.
TellSwapped(i) ==
  /\ called /\ i \in Asked \ told /\ state[i] # "pending"
  /\ told' = told \union {i}
  /\ IF state[i] = "fail" THEN Conclude(count - 1, [args EXCEPT ![i] = value[i]], FALSE)
     ELSE Conclude(count, args, TRUE)
  /\ UNCHANGED <<called, state, value>>

\* A promise that was settled calls what when gave it.
Tell(i) ==
  /\ called /\ i \in Asked \ told /\ state[i] # "pending"
  /\ told' = told \union {i}
  /\ IF state[i] = "done" THEN Conclude(count - 1, [args EXCEPT ![i] = value[i]], FALSE)
     ELSE Conclude(count, args, TRUE)
  /\ UNCHANGED <<called, state, value>>

Next ==
  \/ \E now \in SUBSET Asked : When(now)
  \/ \E i \in Arg : Tell(i) \/ \E s \in {"done", "fail"}, v \in Value : Settle(i, s, v)

Spec == Init /\ [][Next]_vars

\* A promise that is settled calls its callbacks.
Fairness == \A i \in Arg : WF_vars(Tell(i))
FairSpec == Spec /\ Fairness

-----------------------------------------------------------------------------
\* The types of the variables.
TypeOK ==
  /\ called \in BOOLEAN /\ told \subseteq Asked /\ count \in 0..N
  /\ state \in [Arg -> {"pending", "done", "fail"}] /\ outcome \in {"pending", "done", "fail"}
  /\ {value, args, result} \subseteq [Arg -> Value \union {None}]

\* when resolves with the values of its arguments in their order, whichever came first, and
\* only when none is pending and none has failed (1112-1121).
AllThere == outcome = "done" => (result = value /\ \A i \in Arg : state[i] = "done")

\* It rejects only for a promise that failed.
OneFailed == outcome = "fail" => \E i \in Arg : state[i] = "fail"

\* If every promise is settled or one fails, so is that of when.
Concludes ==
  (called /\ \A i \in Arg : state[i] # "pending") \/ (called /\ \E i \in Arg : state[i] = "fail") ~> outcome # "pending"
=============================================================================
