----------------------------- MODULE NodeStore -----------------------------
(***************************************************************************)
(* What jQuery's data cache promises: every node has data and handlers of  *)
(* its own.  They change by calls for that node only, are lost only with a *)
(* whole tree that is taken out of the document, and are given to a copy.  *)
(***************************************************************************)
CONSTANTS Node, Name, Type, None

VARIABLES
  within,     \* per node, the one that it is in
  kept,       \* per node, the names under which the page keeps something
  handlers    \* per node, the types for which it has handlers

Init == kept = [n \in Node |-> {}] /\ handlers = [n \in Node |-> {}]

Put(n, k) == kept' = [kept EXCEPT ![n] = @ \union {k}] /\ UNCHANGED handlers
Take(n, ks) == kept' = [kept EXCEPT ![n] = @ \ ks] /\ UNCHANGED handlers
Bind(n, t) == handlers' = [handlers EXCEPT ![n] = @ \union {t}] /\ UNCHANGED kept
Unbind(n, ts) == handlers' = [handlers EXCEPT ![n] = @ \ ts] /\ UNCHANGED kept

\* The nodes of S are taken out of the document: none of them is in another node any more.
Forget(S) ==
  /\ \A n \in S : within'[n] \in S \union {None}
  /\ kept' = [n \in Node |-> IF n \in S THEN {} ELSE kept[n]]
  /\ handlers' = [n \in Node |-> IF n \in S THEN {} ELSE handlers[n]]

\* A copy, which is new, is given what the node m has.
Copy(m, c) ==
  /\ kept[c] = {} /\ handlers[c] = {}
  /\ kept' = [kept EXCEPT ![c] = kept[m]]
  /\ handlers' = [handlers EXCEPT ![c] = handlers[m]]

Next ==
  \/ /\ \/ \E n \in Node :
             \/ \E k \in Name : Put(n, k)
             \/ \E ks \in SUBSET Name : Take(n, ks)
             \/ \E t \in Type : Bind(n, t)
             \/ \E ts \in SUBSET Type : Unbind(n, ts)
        \/ \E m, c \in Node : Copy(m, c)
     /\ UNCHANGED within
  \/ \E S \in SUBSET Node : Forget(S)

Spec == Init /\ [][Next]_<<within, kept, handlers>>
=============================================================================
