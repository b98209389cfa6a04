------------------------------ MODULE Promise ------------------------------
(***************************************************************************)
(* What a deferred promises those who hold it: it is settled at most once, *)
(* as resolved or as rejected; the callbacks for that outcome are called   *)
(* once each in the order in which they were added, before or after it was *)
(* settled; those for the other outcome never are.                         *)
(***************************************************************************)
EXTENDS Naturals, SequencesExt

VARIABLES
  outcome,    \* "pending", or the list that fires: "done" or "fail"
  waiting,    \* per list, the callbacks still to be called
  called      \* per list, the callbacks that were called

Open(l) == outcome \in {"pending", l}

Init ==
  /\ outcome = "pending"
  /\ waiting = [l \in {"done", "fail"} |-> <<>>]
  /\ called = [l \in {"done", "fail"} |-> <<>>]

\* Callbacks are added; those for an outcome that is out of the question are dropped.
Add ==
  /\ \A l \in {"done", "fail"} :
       IF Open(l) THEN IsPrefix(waiting[l], waiting'[l]) ELSE waiting'[l] = waiting[l]
  /\ UNCHANGED <<outcome, called>>

Settle(l) ==
  /\ outcome = "pending"
  /\ outcome' = l
  /\ waiting' = [k \in {"done", "fail"} |-> IF k = l THEN waiting[k] ELSE <<>>]
  /\ UNCHANGED called

Deliver(l) ==
  /\ outcome = l /\ waiting[l] # <<>>
  /\ called' = [called EXCEPT ![l] = Append(@, Head(waiting[l]))]
  /\ waiting' = [waiting EXCEPT ![l] = Tail(@)]
  /\ UNCHANGED outcome

Next == Add \/ \E l \in {"done", "fail"} : Settle(l) \/ Deliver(l)

Spec == Init /\ [][Next]_<<outcome, waiting, called>>
=============================================================================
