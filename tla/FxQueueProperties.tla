------------------------- MODULE FxQueueProperties -------------------------
(***************************************************************************)
(* What jQuery's queues and the promises about them owe their users.       *)
(***************************************************************************)
EXTENDS FxQueue

\* The types of the variables.
TypeOK ==
  /\ fx \in BOOLEAN /\ early \in BOOLEAN
  /\ arrays \in Seq(Seq(0..MaxQueued)) /\ queue \in 0..Len(arrays)
  /\ stack \in Seq(Call)
  /\ queued \in 0..MaxQueued /\ running \subseteq ran /\ ran \subseteq 1..queued /\ cleared \subseteq 1..queued
  /\ mark \in Nat /\ made \in 0..MaxPromises /\ defer \in 0..made /\ resolved \subseteq 1..made
  /\ checks \in Seq(1..made)

\* A queue of type fx that anything waits in has something in progress, which will dequeue
\* it: no function waits for a call that nobody makes (1783-1787, 1814-1816).
Attended == (fx /\ queue # 0) => (arrays[queue] # <<>> /\ Head(arrays[queue]) = InProgress /\ running # {})

\* A function that was queued has been called, still waits or was cleared.  This is lost when
\* a function clears or dequeues before it returns to dequeue, which then looks at an old
\* array and removes the new one (1754-1798).
NothingLost == ~early => \A f \in 1..queued :
  f \in ran \union cleared \/ (queue # 0 /\ f \in Range(arrays[queue]))

\* While nothing is queued or marked, a promise in the data has its timer: who empties the
\* queue and who takes the last mark each leave it to the other only when there is one (1706-1726).
Notified == (defer # 0 /\ queue = 0 /\ mark = 0) => defer \in Range(checks)

\* A queue's functions run in the order they were queued (1767, 1774).
InOrder == [][~early' => \A f \in ran' \ ran : \A g \in 1..queued : g < f => g \in ran \union cleared]_vars

\* Whatever is queued is called in the end, unless it was cleared.
AllRun == \A f \in Function : [](fx /\ f <= queued => <>(f \in ran \union cleared \/ early))

\* The data of a later promise were taken away by an old timer, of the promise before it (1716-1720).
Deprived(p) == p > 1 /\ defer # p

\* Every promise about a queue of type fx is resolved in the end, unless it was deprived of its data
\* or the element is marked again and again.
AllResolved == \A p \in 1..MaxPromises :
  []<>(fx /\ p <= made => p \in resolved \/ Deprived(p) \/ early \/ mark > 0)
=============================================================================
