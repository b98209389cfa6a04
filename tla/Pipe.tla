-------------------------------- MODULE Pipe --------------------------------
(***************************************************************************)
(* A chain of promises made with pipe (vendor.js of elasticSearch): the    *)
(* outcome of each goes through a function to the next, which may return a *)
(* value, or a promise whose outcome the next one takes, or throw.         *)
(***************************************************************************)
EXTENDS Naturals

CONSTANTS
  N,         \* the number of calls of pipe
  Filters,   \* what the functions given to pipe do, of the kinds below
  Own        \* the promises that such functions return

\* "none": no function was given for that outcome.
Kinds == {"none", "value", "promise", "throw"}

PipeAssumption == N \in Nat \ {0} /\ Filters \subseteq Kinds /\ 0 \notin Own

VARIABLES
  state,    \* of the promises of the chain, 0 the first: "pending", "done" or "fail"
  passed,   \* the links whose function has been called
  follows,  \* per link, the promise that its function returned, or 0 for none
  own,      \* of the promises in Own, "pending", "done" or "fail"
  thrown    \* the links whose function threw

vars == <<state, passed, follows, own, thrown>>

Settled == {"done", "fail"}
Link == 1..N

Init ==
  /\ state = [i \in 0..N |-> "pending"] /\ passed = {}
  /\ follows = [i \in Link |-> 0] /\ own = [p \in Own |-> "pending"]
  /\ thrown = {}

\* Somebody settles the first promise of the chain, or one that a function returns.
SettleFirst(s) ==
  /\ state[0] = "pending"
  /\ state' = [state EXCEPT ![0] = s]
  /\ UNCHANGED <<passed, follows, own, thrown>>

SettleOwn(p, s) ==
  /\ own[p] = "pending"
  /\ own' = [own EXCEPT ![p] = s]
  /\ UNCHANGED <<state, passed, follows, thrown>>

\* Mutant: a value that a function returns for a failure makes it good.
PassMended(i, kind, p) ==
  /\ state[i - 1] \in Settled /\ i \notin passed
  /\ passed' = passed \union {i}
  /\ state' = CASE kind = "none" -> [state EXCEPT ![i] = state[i - 1]]
                [] kind = "value" -> [state EXCEPT ![i] = "done"]
                [] OTHER -> state
  /\ follows' = IF kind = "promise" THEN [follows EXCEPT ![i] = p] ELSE follows
  /\ thrown' = IF kind = "throw" THEN thrown \union {i} ELSE thrown
  /\ UNCHANGED own

\* A promise calls back its link.  Without a function, or with the value of one, the next
\* promise has the same outcome; a promise is followed; an exception leaves nothing behind.
Pass(i, kind, p) ==
  /\ state[i - 1] \in Settled /\ i \notin passed
  /\ passed' = passed \union {i}
  /\ state' = IF kind \in {"none", "value"} THEN [state EXCEPT ![i] = state[i - 1]] ELSE state
  /\ follows' = IF kind = "promise" THEN [follows EXCEPT ![i] = p] ELSE follows
  /\ thrown' = IF kind = "throw" THEN thrown \union {i} ELSE thrown
  /\ UNCHANGED own

\* Mutant: its failure is not passed on.
FollowDone(i) ==
  /\ follows[i] # 0 /\ own[follows[i]] = "done" /\ state[i] = "pending"
  /\ state' = [state EXCEPT ![i] = "done"]
  /\ UNCHANGED <<passed, follows, own, thrown>>

\* The promise that a function returned is settled, and so is that of its link.
Follow(i) ==
  /\ follows[i] # 0 /\ own[follows[i]] \in Settled /\ state[i] = "pending"
  /\ state' = [state EXCEPT ![i] = own[follows[i]]]
  /\ UNCHANGED <<passed, follows, own, thrown>>

PassSome(i) == \E kind \in Filters, p \in Own : Pass(i, kind, p)

Next ==
  \/ \E s \in Settled : SettleFirst(s) \/ \E p \in Own : SettleOwn(p, s)
  \/ \E i \in Link : PassSome(i) \/ Follow(i)

Spec == Init /\ [][Next]_vars

\* Promises call back when they are settled, and those that functions return are settled.
Fairness ==
  /\ \A i \in Link : WF_vars(PassSome(i)) /\ WF_vars(Follow(i))
  /\ \A p \in Own : WF_vars(\E i \in Link, s \in Settled : follows[i] = p /\ SettleOwn(p, s))
FairSpec == Spec /\ Fairness

-----------------------------------------------------------------------------
\* The types of the variables; and the chain settles from its first promise on.
TypeOK ==
  /\ state \in [0..N -> {"pending", "done", "fail"}] /\ passed \subseteq Link /\ thrown \subseteq passed
  /\ follows \in [Link -> Own \union {0}] /\ own \in [Own -> {"pending", "done", "fail"}]
  /\ \A i \in Link : (i \in passed \/ state[i] \in Settled) => state[i - 1] \in Settled

\* A promise of the chain has the outcome of the nearest promise before it that settled of
\* itself: the first, or one that a function on the way returned (1052-1066).
Source(i) ==
  LET returned == {j \in 1..i : follows[j] # 0}
  IN IF returned = {} THEN state[0] ELSE own[follows[CHOOSE j \in returned : \A k \in returned : k <= j]]

Inherits == \A i \in 0..N : state[i] \in Settled => state[i] = Source(i)

\* A promise of a chain is settled if the first is, unless a function before it throws.
Arrives == \A i \in Link : (state[0] \in Settled) ~> (state[i] \in Settled \/ \E j \in 1..i : j \in thrown)
=============================================================================
