------------------------------ MODULE FxQueue ------------------------------
(***************************************************************************)
(* The queue of functions that jQuery keeps per element and type, and the  *)
(* promise that an element's queue is empty (vendor.js of elasticSearch).  *)
(*                                                                         *)
(* One element and one type.  A queue is a JavaScript array that the       *)
(* element's data refer to; dequeue keeps its own reference to it while it *)
(* calls a function, and that function may queue, clear and dequeue.  The  *)
(* calls of dequeue under way are a stack.                                 *)
(***************************************************************************)
EXTENDS Naturals, Sequences, SequencesExt

CONSTANTS
  MaxQueued,     \* bound: functions that are queued
  MaxPromises,   \* bound: promises that are made
  MaxMarks,      \* bound: marks
  MaxArrays,     \* bound: arrays that are made
  MaxChecks      \* bound: timers that wait

BoundAssumption == {MaxQueued, MaxPromises, MaxArrays} \subseteq Nat

VARIABLES
  fx,         \* whether the type is "fx", whose queue runs by itself
  arrays,     \* every array, by its identity
  queue,      \* the element's data <type>queue: an array, or 0
  stack,      \* the calls of dequeue under way, each with its array and its function
  queued,     \* the functions queued so far are 1..queued
  running,    \* those that have been called and have not called next
  ran,        \* those that have been called
  cleared,    \* those that clearQueue dropped
  mark,       \* <type>mark, 0 when there is none
  defer,      \* <type>defer: the promise's number, or 0
  made,       \* the promises made so far are 1..made
  resolved,   \* those that are resolved
  checks,     \* the timers of handleQueueMarkDefer, each with its promise, in order
  early       \* whether a function has dequeued or cleared while dequeue was still calling it

functions == <<queued, ran, cleared>>
promises == <<made, resolved>>
vars == <<fx, arrays, queue, stack, functions, running, mark, defer, promises, checks, early>>

InProgress == 0   \* the sentinel

Function == 1..MaxQueued
Call == [array : 0..MaxArrays, function : Function]

Init ==
  /\ fx \in BOOLEAN /\ early = FALSE
  /\ arrays = <<>> /\ queue = 0 /\ stack = <<>>
  /\ queued = 0 /\ running = {} /\ ran = {} /\ cleared = {}
  /\ mark = 0 /\ defer = 0 /\ made = 0 /\ resolved = {} /\ checks = <<>>

-----------------------------------------------------------------------------
\* handleQueueMarkDefer, called when the queue is gone and when the marks are: a timer
\* will look again, to "give room for hard-coded callbacks".
HandleQueueMarkDefer(nothingElse) ==
  IF defer # 0 /\ nothingElse
  THEN Len(checks) < MaxChecks /\ checks' = Append(checks, defer)
  ELSE UNCHANGED checks

\* Mutant: nobody is told.
EmptiedSilently == queue' = 0 /\ UNCHANGED checks

\* The queue's data are removed.
Emptied ==
  /\ queue' = 0
  /\ HandleQueueMarkDefer(mark = 0)

\* What is left of an array when the sentinel has gone.
Waiting(s) == IF s # <<>> /\ Head(s) = InProgress THEN Tail(s) ELSE s

\* Mutant: the sentinel is not put in.
DequeueBare(heap, a, live) ==
  LET waiting == IF a = 0 THEN <<>> ELSE Waiting(heap[a])
  IN IF waiting = <<>>
     THEN /\ arrays' = IF a = 0 THEN heap ELSE [heap EXCEPT ![a] = <<>>]
          /\ Emptied
          /\ running' = live /\ UNCHANGED <<stack, ran>>
     ELSE /\ arrays' = [heap EXCEPT ![a] = Tail(waiting)]
          /\ queue' = a
          /\ stack' = Append(stack, [array |-> a, function |-> Head(waiting)])
          /\ running' = live \union {Head(waiting)} /\ ran' = ran \union {Head(waiting)}
          /\ UNCHANGED checks

\* jQuery.dequeue, given the arrays, the one that the data hold and the functions that are
\* running by then: the first function is called, or the queue is removed.
Dequeue(heap, a, live) ==
  LET waiting == IF a = 0 THEN <<>> ELSE Waiting(heap[a])
  IN IF waiting = <<>>
     THEN /\ arrays' = IF a = 0 THEN heap ELSE [heap EXCEPT ![a] = <<>>]
          /\ Emptied
          /\ running' = live /\ UNCHANGED <<stack, ran>>
     ELSE /\ arrays' = [heap EXCEPT ![a] = IF fx THEN <<InProgress>> \o Tail(waiting) ELSE Tail(waiting)]
          /\ queue' = a
          /\ stack' = Append(stack, [array |-> a, function |-> Head(waiting)])
          /\ running' = live \union {Head(waiting)} /\ ran' = ran \union {Head(waiting)}
          /\ UNCHANGED checks

\* Mutant: nothing starts the queue.
QueuedOnly(heap, a) ==
  /\ arrays' = heap /\ queue' = a
  /\ UNCHANGED <<stack, running, ran, checks>>

\* fn.queue goes on: a queue of type fx in which nothing is in progress is dequeued.
Queued(heap, a) ==
  IF fx /\ Waiting(heap[a]) = heap[a] THEN Dequeue(heap, a, running)
  ELSE /\ arrays' = heap /\ queue' = a
       /\ UNCHANGED <<stack, running, ran, checks>>

\* Mutant: the new function is put before those that wait.
QueueFirst ==
  /\ queued < MaxQueued /\ (queue # 0 \/ Len(arrays) < MaxArrays)
  /\ queued' = queued + 1
  /\ IF queue = 0 THEN Queued(Append(arrays, <<queued + 1>>), Len(arrays) + 1)
     ELSE LET waiting == Waiting(arrays[queue])
              held == SubSeq(arrays[queue], 1, Len(arrays[queue]) - Len(waiting))
          IN Queued([arrays EXCEPT ![queue] = held \o <<queued + 1>> \o waiting], queue)
  /\ UNCHANGED <<fx, early, cleared, mark, defer, promises>>

\* fn.queue of a function.
Queue ==
  /\ queued < MaxQueued /\ (queue # 0 \/ Len(arrays) < MaxArrays)
  /\ queued' = queued + 1
  /\ IF queue = 0 THEN Queued(Append(arrays, <<queued + 1>>), Len(arrays) + 1)
     ELSE Queued([arrays EXCEPT ![queue] = Append(@, queued + 1)], queue)
  /\ UNCHANGED <<fx, early, cleared, mark, defer, promises>>

\* clearQueue: fn.queue of an empty array, which takes the place of the old one.
ClearQueue ==
  /\ Len(arrays) < MaxArrays /\ early' = (early \/ stack # <<>>)
  /\ cleared' = IF queue = 0 THEN cleared ELSE cleared \union Range(Waiting(arrays[queue]))
  /\ Queued(Append(arrays, <<>>), Len(arrays) + 1)
  /\ UNCHANGED <<fx, queued, mark, defer, promises>>

\* fn.dequeue; from within a function that dequeue has called it is early.
DequeueNow ==
  /\ early' = (early \/ stack # <<>>)
  /\ Dequeue(arrays, queue, running)
  /\ UNCHANGED <<fx, queued, cleared, mark, defer, promises>>

\* A function calls next, which dequeues.
CallNext(f) ==
  /\ f \in running /\ early' = (early \/ stack # <<>>)
  /\ Dequeue(arrays, queue, running \ {f})
  /\ UNCHANGED <<fx, queued, cleared, mark, defer, promises>>

\* Mutant: the length is not looked at.
ReturnAlways ==
  /\ stack # <<>>
  /\ stack' = Front(stack)
  /\ Emptied
  /\ UNCHANGED <<fx, early, arrays, functions, running, mark, defer, promises>>

\* The function returns to dequeue, which looks at its own array.
Return ==
  /\ stack # <<>>
  /\ stack' = Front(stack)
  /\ IF arrays[Last(stack).array] = <<>> THEN Emptied ELSE UNCHANGED <<queue, checks>>
  /\ UNCHANGED <<fx, early, arrays, functions, running, mark, defer, promises>>

\* The function throws, through dequeue.
Throw ==
  /\ stack # <<>>
  /\ stack' = Front(stack)
  /\ UNCHANGED <<fx, early, arrays, queue, functions, running, mark, defer, promises, checks>>

-----------------------------------------------------------------------------
\* jQuery._mark, as animations outside the queue call it when they begin.
Mark ==
  /\ mark < MaxMarks
  /\ mark' = mark + 1
  /\ UNCHANGED <<fx, early, arrays, queue, stack, functions, running, defer, promises, checks>>

\* jQuery._unmark, as they call it when they end; stop forces it to no mark at all.
Unmark(force) ==
  /\ mark' = IF force \/ mark = 0 THEN 0 ELSE mark - 1
  /\ IF mark' = 0 THEN HandleQueueMarkDefer(queue = 0) ELSE UNCHANGED checks
  /\ UNCHANGED <<fx, early, arrays, queue, stack, functions, running, defer, promises>>

\* fn.promise.  With nothing queued or marked and no promise waiting it is resolved at once.
Promise ==
  /\ defer = 0 /\ (queue # 0 \/ mark > 0) /\ made < MaxPromises
  /\ made' = made + 1 /\ defer' = made + 1
  /\ UNCHANGED <<fx, early, arrays, queue, stack, functions, running, mark, resolved, checks>>

\* The timer of handleQueueMarkDefer.
Check ==
  /\ stack = <<>> /\ checks # <<>>
  /\ checks' = Tail(checks)
  /\ IF queue = 0 /\ mark = 0 THEN defer' = 0 /\ resolved' = resolved \union {Head(checks)}
     ELSE UNCHANGED <<defer, resolved>>
  /\ UNCHANGED <<fx, early, arrays, queue, stack, functions, running, mark, made>>

Next ==
  \/ Queue \/ ClearQueue \/ DequeueNow \/ Return \/ Throw
  \/ \E f \in Function : CallNext(f)
  \/ Mark \/ Promise \/ Check
  \/ \E force \in BOOLEAN : Unmark(force)

Spec == Init /\ [][Next]_vars

\* A function that is called returns and calls next, timers fire, and who marks unmarks.
Fairness ==
  /\ WF_vars(Return) /\ WF_vars(Check)
  /\ \A f \in Function : WF_vars(CallNext(f))
  /\ WF_vars(mark > 0 /\ Unmark(FALSE))

FairSpec == Spec /\ Fairness
=============================================================================
