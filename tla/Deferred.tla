------------------------------ MODULE Deferred ------------------------------
(***************************************************************************)
(* jQuery._Deferred and jQuery.Deferred (elasticSearch/*/vendor.js): two   *)
(* callback lists, of which the first to fire cancels the other.  All of   *)
(* it runs on one thread, but a callback is free to call the deferred      *)
(* again while a list fires, and may throw, so the calls that are on the   *)
(* stack are part of the state.                                            *)
(***************************************************************************)
EXTENDS Naturals, Sequences

CONSTANT
  MaxAdded    \* bound: the number of callbacks added

ASSUME BoundAssumption == MaxAdded \in Nat

VARIABLES
  callbacks,    \* per list, what is still to be called; Cancel is failDeferred.cancel etc.
  fired,        \* per list, whether it has fired
  firing,       \* per list, whether its loop runs
  cancelled,    \* per list, whether it was cancelled
  stack,        \* the lists whose resolveWith is on the call stack
  control,      \* "loop": the loop of the last of them goes on; "user": other code runs
  n,            \* the number of callbacks added so far, which also names them
  added, called,   \* per list, the callbacks it accepted and called, in order
  thrown        \* per list, whether its last loop was ended by an exception

lists == <<callbacks, fired, firing, cancelled>>
vars == <<lists, stack, control, n, added, called, thrown>>

List == {"done", "fail"}
Other(l) == IF l = "done" THEN "fail" ELSE "done"
Cancel == 0
Top == stack[Len(stack)]
Below == SubSeq(stack, 1, Len(stack) - 1)

Init ==
  /\ callbacks = [l \in List |-> <<Cancel>>]
  /\ fired = [l \in List |-> FALSE] /\ firing = [l \in List |-> FALSE]
  /\ cancelled = [l \in List |-> FALSE]
  /\ stack = <<>> /\ control = "user" /\ n = 0
  /\ added = [l \in List |-> <<>>] /\ called = [l \in List |-> <<>>]
  /\ thrown = [l \in List |-> FALSE]

\* The condition of resolveWith.
CanFire(l) == ~cancelled[l] /\ ~fired[l] /\ ~firing[l]

\* Its loop begins.
Fire(l) ==
  /\ firing' = [firing EXCEPT ![l] = TRUE]
  /\ stack' = Append(stack, l)
  /\ control' = "loop"

\* done(f, ...), fail(f, ...), then(f, g), always(f): k callbacks for the lists
\* ls.  A list that has fired fires again, for these.
Add(ls, k) ==
  LET new == [i \in 1..k |-> n + i]
      Onto(q) == [l \in List |-> IF l \in ls /\ ~cancelled[l] THEN q[l] \o new ELSE q[l]]
  IN
  /\ control = "user" /\ n + k <= MaxAdded
  /\ n' = n + k
  /\ callbacks' = Onto(callbacks) /\ added' = Onto(added)
  /\ \/ /\ \A l \in ls : fired[l] => cancelled[l]
        /\ UNCHANGED <<fired, firing, stack, control>>
     \/ \E l \in ls :
          /\ fired[l] /\ ~cancelled[l]
          /\ fired' = [fired EXCEPT ![l] = FALSE]
          /\ Fire(l)
  /\ UNCHANGED <<cancelled, called, thrown>>

\* resolve, resolveWith, reject, rejectWith.  Where the condition is false the
\* call does nothing.
Settle(l) ==
  /\ control = "user" /\ CanFire(l)
  /\ Fire(l)
  /\ UNCHANGED <<callbacks, fired, cancelled, n, added, called, thrown>>

\* Mutant: the lists are not tied together.
CancelNothing ==
  /\ control = "loop" /\ callbacks[Top] # <<>> /\ Head(callbacks[Top]) = Cancel
  /\ callbacks' = [callbacks EXCEPT ![Top] = Tail(@)]
  /\ UNCHANGED <<fired, firing, cancelled, stack, control, n, added, called, thrown>>

\* The loop calls the other list's cancel, the first callback of each list.
CancelOther ==
  /\ control = "loop" /\ callbacks[Top] # <<>> /\ Head(callbacks[Top]) = Cancel
  /\ callbacks' = [callbacks EXCEPT ![Top] = Tail(@), ![Other(Top)] = <<>>]
  /\ cancelled' = [cancelled EXCEPT ![Other(Top)] = TRUE]
  /\ UNCHANGED <<fired, firing, stack, control, n, added, called, thrown>>

\* Mutant: a callback is left on the list.
CallFirst ==
  /\ control = "loop" /\ callbacks[Top] # <<>> /\ Head(callbacks[Top]) # Cancel
  /\ called' = [called EXCEPT ![Top] = Append(@, Head(callbacks[Top]))]
  /\ control' = "user"
  /\ UNCHANGED <<callbacks, fired, firing, cancelled, stack, n, added, thrown>>

\* The loop shifts the next callback and calls it.
CallNext ==
  /\ control = "loop" /\ callbacks[Top] # <<>> /\ Head(callbacks[Top]) # Cancel
  /\ callbacks' = [callbacks EXCEPT ![Top] = Tail(@)]
  /\ called' = [called EXCEPT ![Top] = Append(@, Head(callbacks[Top]))]
  /\ control' = "user"
  /\ UNCHANGED <<fired, firing, cancelled, stack, n, added, thrown>>

\* The callback returns to the loop.
Return ==
  /\ control = "user" /\ stack # <<>>
  /\ control' = "loop"
  /\ UNCHANGED <<lists, stack, n, added, called, thrown>>

\* The finally clause: the loop of the topmost call is over.
Leave(byThrow) ==
  /\ fired' = [fired EXCEPT ![Top] = TRUE]
  /\ firing' = [firing EXCEPT ![Top] = FALSE]
  /\ thrown' = [thrown EXCEPT ![Top] = byThrow]
  /\ stack' = Below
  /\ control' = "user"
  /\ UNCHANGED <<callbacks, cancelled, n, added, called>>

\* A callback throws.  The code that had called the deferred may catch it.
Throw == control = "user" /\ stack # <<>> /\ Leave(TRUE)

\* No callback is left.
EndLoop == control = "loop" /\ callbacks[Top] = <<>> /\ Leave(FALSE)

User ==
  \/ \E ls \in SUBSET List \ {{}}, k \in 1..2 : Add(ls, k)
  \/ \E l \in List : Settle(l)

Engine == CancelOther \/ CallNext \/ EndLoop \/ Return \/ Throw

Next == User \/ Engine

Spec == Init /\ [][Next]_vars
=============================================================================
