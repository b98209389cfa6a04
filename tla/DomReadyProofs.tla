--------------------------- MODULE DomReadyProofs ---------------------------
(*****************************************************************************)
(* The safety properties of what runs on a page, for every value of the      *)
(* constants: DomReady, whatever the number of holds and timers and in both  *)
(* browsers; the handlers of Events; the queues of FxQueue; and the timers   *)
(* of FxTimers.                                                              *)
(*                                                                           *)
(* Each component has an inductive invariant of its own (IInv, EventInv,     *)
(* QueueInv, AnimInv), for no step of one touches the state of another.      *)
(*****************************************************************************)
EXTENDS Page, SieveProofs

Numbers == timers \in Nat /\ readyWait \in Nat /\ held \in 0..MaxHolds /\ holds \in 0..held
Sets == phase \in {"loading", "interactive", "complete"} /\ listening \subseteq {"content", "load"}

\* The document was not taken for ready without a body, even while something held it.
Backed == isReady => body

\* What holds together: readyWait counts, so that a release comes to zero only after the
\* document was found ready, and whoever waits has a caller left.
IInv == TypeOK /\ Counted /\ NotForgotten /\ NotEarly /\ Backed /\ Awaited

LEMMA Initially == Init => IInv
<1> SUFFICES ASSUME Init PROVE IInv
    OBVIOUS
<1>1. Flags
  BY DEF Init, Flags
<1>2. Sets
  BY DEF Init, Sets
<1>3. Numbers
  BY DomReadyAssumption DEF DomReadyAssumption, Init, Numbers
<1>4. Counted
  BY DEF Init, Counted
<1>5. NotForgotten /\ NotEarly /\ Backed /\ Awaited
  BY DEF Init, NotForgotten, NotEarly, Backed, Awaited
<1>6. w3c \in BOOLEAN
  BY DEF Init
<1> QED
  BY <1>6, <1>1, <1>2, <1>3, <1>4, <1>5 DEF IInv, TypeOK, Sets, Numbers

\* A call of ready, from anywhere: the first that counts lowers readyWait with isReady, and
\* resolves unless a hold is left; one that finds no body leaves a timer.
LEMMA SetReadySafe ==
  ASSUME Flags, Numbers, Counted, NotForgotten, NotEarly, Backed,
         NEW n \in Nat, SetReady(n), UNCHANGED <<body, holds, held>>
  PROVE  /\ isReady' \in BOOLEAN /\ fired' \in BOOLEAN
         /\ timers' \in Nat /\ readyWait' \in Nat
         /\ Counted' /\ NotForgotten' /\ NotEarly' /\ Backed'
         /\ ~isReady' => timers' > 0
         /\ isReady => isReady'
<1> USE DEF ready
<1>1. CASE isReady
  <2>1. UNCHANGED <<isReady, readyWait, fired>> /\ timers' = n
    BY <1>1 DEF SetReady
  <2> QED
    BY <1>1, <2>1 DEF Flags, Numbers, Counted, NotForgotten, NotEarly, Backed
<1>2. CASE ~isReady /\ ~body
  <2>1. UNCHANGED <<isReady, readyWait, fired>> /\ timers' = n + 1
    BY <1>2 DEF SetReady
  <2>2. timers' \in Nat /\ timers' > 0
    BY <2>1
  <2> QED
    BY <1>2, <2>1, <2>2 DEF Flags, Numbers, Counted, NotForgotten, NotEarly, Backed
<1>3. CASE ~isReady /\ body
  <2>1. isReady' = TRUE /\ readyWait' = readyWait - 1 /\ timers' = n
    BY <1>3 DEF SetReady
  <2>2. (readyWait <= 1 => fired' = TRUE) /\ (~(readyWait <= 1) => fired' = fired)
    BY <1>3 DEF SetReady
  <2>3. readyWait = holds + 1
    BY <1>3 DEF Counted
  <2>4. readyWait' \in Nat /\ readyWait' = holds' /\ timers' \in Nat
    BY <2>1, <2>3 DEF Numbers
  <2>5. holds' = 0 => readyWait <= 1
    BY <2>3 DEF Numbers
  <2>6. fired' \in BOOLEAN
    BY <2>2 DEF Flags
  <2> QED
    BY <1>3, <2>1, <2>2, <2>4, <2>5, <2>6 DEF Counted, NotForgotten, NotEarly, Backed
<1> QED
  BY <1>1, <1>2, <1>3

\* Every step keeps the invariant.
LEMMA StepKeeps == IInv /\ [Next]_vars => IInv'
<1> SUFFICES ASSUME IInv, [Next]_vars PROVE IInv'
    OBVIOUS
<1> USE DEF browser
<1>0. Flags /\ Sets /\ Numbers /\ Counted /\ NotForgotten /\ NotEarly /\ Backed /\ Awaited
  BY DEF IInv, TypeOK, Sets, Numbers
<1>00. w3c' \in BOOLEAN
  <2>1. w3c \in BOOLEAN
    BY DEF IInv, TypeOK
  <2>2. w3c' = w3c
    BY DEF vars, Next, Hold, Release, BindReady, Parse, ContentLoaded, Loaded, Timer, ScrollCheck
  <2> QED
    BY <2>1, <2>2
<1>a. ASSUME Flags', Sets', Numbers', Counted', NotForgotten', NotEarly', Backed', Awaited' PROVE IInv'
  BY <1>00, <1>a DEF IInv, TypeOK, Sets, Numbers
<1>b. ASSUME NEW n \in Nat, SetReady(n), UNCHANGED <<holds, held>>, body' = body,
             bound' \in BOOLEAN, scrolling' \in BOOLEAN, Sets'
      PROVE  IInv'
  <2>1. UNCHANGED <<body, holds, held>>
    BY <1>b
  <2>2. /\ isReady' \in BOOLEAN /\ fired' \in BOOLEAN /\ timers' \in Nat /\ readyWait' \in Nat
        /\ Counted' /\ NotForgotten' /\ NotEarly' /\ Backed' /\ (~isReady' => timers' > 0)
    BY <1>0, <1>b, <2>1, SetReadySafe
  <2>3. Flags'
    BY <1>0, <1>b, <2>2 DEF Flags
  <2>4. Numbers'
    BY <1>0, <2>1, <2>2 DEF Numbers
  <2>5. Awaited'
    BY <2>2 DEF Awaited
  <2> QED
    BY <1>a, <1>b, <2>2, <2>3, <2>4, <2>5
<1>1. CASE Hold
  <2>1. /\ held' = held + 1 /\ holds' = holds + 1 /\ readyWait' = readyWait + 1 /\ held < MaxHolds
        /\ UNCHANGED <<phase, body, bound, listening, timers, scrolling, isReady, fired>>
    BY <1>1 DEF Hold
  <2>2. Numbers' /\ holds' # 0
    BY <1>0, <2>1, DomReadyAssumption DEF DomReadyAssumption, Numbers
  <2>3. Counted'
    BY <1>0, <2>1 DEF Numbers, Counted
  <2> QED
    BY <1>0, <1>a, <2>1, <2>2, <2>3 DEF Flags, Sets, NotForgotten, NotEarly, Backed, Awaited
<1>2. CASE Release
  <2>1. /\ holds > 0 /\ holds' = holds - 1 /\ readyWait' = readyWait - 1
        /\ UNCHANGED <<phase, body, bound, listening, scrolling, held>>
    BY <1>2 DEF Release
  <2>2. CASE readyWait = 1
    <3>1. isReady
      BY <1>0, <2>1, <2>2 DEF Numbers, Counted
    <3>2. body /\ holds = 1
      BY <1>0, <2>2, <3>1 DEF Counted, Backed
    <3>3. isReady' = TRUE /\ fired' = TRUE /\ timers' = timers
      BY <1>2, <2>2, <3>2 DEF Release
    <3>4. Numbers'
      BY <1>0, <2>1, <2>2, <3>3 DEF Numbers
    <3>5. Counted'
      BY <1>0, <2>1, <2>2, <3>2, <3>3 DEF Counted
    <3> QED
      BY <1>0, <1>a, <2>1, <3>2, <3>3, <3>4, <3>5 DEF Flags, Sets, NotForgotten, NotEarly, Backed, Awaited
  <2>3. CASE readyWait # 1
    <3>1. UNCHANGED <<isReady, fired, timers>>
      BY <1>2, <2>3 DEF Release
    <3>2. Numbers'
      BY <1>0, <2>1, <3>1 DEF Numbers, Counted
    <3>3. Counted'
      BY <1>0, <2>1, <3>1 DEF Numbers, Counted
    <3>4. isReady => holds' # 0
      BY <1>0, <2>1, <2>3 DEF Numbers, Counted
    <3> QED
      BY <1>0, <1>a, <2>1, <3>1, <3>2, <3>3, <3>4 DEF Flags, Sets, NotForgotten, NotEarly, Backed, Awaited
  <2> QED
    BY <2>2, <2>3
<1>3. ASSUME NEW toplevel \in BOOLEAN, BindReady(toplevel) PROVE IInv'
  <2>1. bound' = TRUE /\ UNCHANGED <<phase, body, isReady, readyWait, fired, holds, held>>
    BY <1>3 DEF BindReady, ready
  <2>2. CASE phase = "complete"
    <3>1. timers' = timers + 1 /\ UNCHANGED <<listening, scrolling>>
      BY <1>3, <2>2 DEF BindReady
    <3>2. Numbers' /\ timers' > 0
      BY <1>0, <2>1, <3>1 DEF Numbers
    <3> QED
      BY <1>0, <1>a, <2>1, <3>1, <3>2 DEF Flags, Sets, Counted, NotForgotten, NotEarly, Backed, Awaited
  <2>3. CASE phase # "complete"
    <3>1. listening' = {"content", "load"} /\ timers' = timers
      BY <1>3, <2>3 DEF BindReady
    <3>2. scrolling' \in BOOLEAN
      BY <1>3, <2>3 DEF BindReady
    <3>3. Numbers'
      BY <1>0, <2>1, <3>1 DEF Numbers
    <3>4. Awaited'
      BY <2>1, <2>3, <3>1 DEF Awaited
    <3> QED
      BY <1>0, <1>a, <2>1, <3>1, <3>2, <3>3, <3>4 DEF Flags, Sets, Counted, NotForgotten, NotEarly, Backed
  <2> QED
    BY <2>2, <2>3
<1>4. CASE Parse
  <2>1. body' = TRUE /\ UNCHANGED <<phase, bound, listening, timers, scrolling, isReady, readyWait, fired, holds, held>>
    BY <1>4 DEF Parse, ready
  <2> QED
    BY <1>0, <1>a, <2>1 DEF Flags, Sets, Numbers, Counted, NotForgotten, NotEarly, Backed, Awaited
<1>5. CASE ContentLoaded
  <2>1. phase = "loading" /\ phase' = "interactive" /\ UNCHANGED <<body, bound, scrolling, holds, held>>
    BY <1>5 DEF ContentLoaded
  <2>2. CASE w3c /\ "content" \in listening
    <3>1. listening' = listening \ {"content"} /\ SetReady(timers)
      BY <1>5, <2>2 DEF ContentLoaded
    <3>2. Sets' /\ timers \in Nat /\ bound' \in BOOLEAN /\ scrolling' \in BOOLEAN
      BY <1>0, <2>1, <3>1 DEF Sets, Numbers, Flags
    <3> QED
      BY <1>b, <2>1, <3>1, <3>2
  <2>3. CASE ~(w3c /\ "content" \in listening)
    <3>1. UNCHANGED <<listening, timers, isReady, readyWait, fired>>
      BY <1>5, <2>3 DEF ContentLoaded, ready
    <3> QED
      BY <1>0, <1>a, <2>1, <3>1 DEF Flags, Sets, Numbers, Counted, NotForgotten, NotEarly, Backed, Awaited
  <2> QED
    BY <2>2, <2>3
<1>6. CASE Loaded
  <2>1. /\ phase = "interactive" /\ phase' = "complete" /\ listening' = {}
        /\ UNCHANGED <<body, bound, scrolling, holds, held>>
    BY <1>6 DEF Loaded
  <2>2. CASE listening # {}
    <3>1. SetReady(timers)
      BY <1>6, <2>2 DEF Loaded
    <3>2. Sets' /\ timers \in Nat /\ bound' \in BOOLEAN /\ scrolling' \in BOOLEAN
      BY <1>0, <2>1 DEF Sets, Numbers, Flags
    <3> QED
      BY <1>b, <2>1, <3>1, <3>2
  <2>3. CASE listening = {}
    <3>1. UNCHANGED <<timers, isReady, readyWait, fired>>
      BY <1>6, <2>3 DEF Loaded, ready
    <3> QED
      BY <1>0, <1>a, <2>1, <2>3, <3>1 DEF Flags, Sets, Numbers, Counted, NotForgotten, NotEarly, Backed, Awaited
  <2> QED
    BY <2>2, <2>3
<1>7. CASE Timer
  <2>1. timers > 0 /\ SetReady(timers - 1) /\ UNCHANGED <<phase, body, bound, listening, scrolling, holds, held>>
    BY <1>7 DEF Timer
  <2>2. timers - 1 \in Nat
    BY <1>0, <2>1 DEF Numbers
  <2>3. Sets' /\ bound' \in BOOLEAN /\ scrolling' \in BOOLEAN
    BY <1>0, <2>1 DEF Sets, Flags
  <2> QED
    BY <1>b, <2>1, <2>2, <2>3
<1>8. CASE ScrollCheck
  <2>1. UNCHANGED <<phase, body, bound, listening, holds, held>>
    BY <1>8 DEF ScrollCheck
  <2>2. Sets' /\ timers \in Nat /\ bound' \in BOOLEAN
    BY <1>0, <2>1 DEF Sets, Numbers, Flags
  <2>3. \/ scrolling' = FALSE /\ UNCHANGED <<isReady, readyWait, fired, timers>>
        \/ UNCHANGED <<scrolling, isReady, readyWait, fired, timers>>
        \/ scrolling' = FALSE /\ SetReady(timers)
    BY <1>8 DEF ScrollCheck, ready
  <2>4. CASE SetReady(timers) /\ scrolling' = FALSE
    BY <1>b, <2>1, <2>2, <2>4
  <2>5. CASE scrolling' \in {scrolling, FALSE} /\ UNCHANGED <<isReady, readyWait, fired, timers>>
    BY <1>0, <1>a, <2>1, <2>2, <2>5 DEF Flags, Sets, Numbers, Counted, NotForgotten, NotEarly, Backed, Awaited
  <2> QED
    BY <2>3, <2>4, <2>5
<1>9. CASE UNCHANGED vars
  BY <1>0, <1>a, <1>9 DEF vars, ready, Flags, Sets, Numbers, Counted, NotForgotten, NotEarly, Backed, Awaited
<1> QED
  BY <1>1, <1>2, <1>3, <1>4, <1>5, <1>6, <1>7, <1>8, <1>9 DEF Next

LEMMA Invariance == Spec => []IInv
<1> QED BY Initially, StepKeeps, PTL DEF Spec

-----------------------------------------------------------------------------
\* The variables keep their types.
THEOREM TypeCorrect == Spec => []TypeOK
<1> QED BY Invariance, PTL DEF IInv

\* readyWait counts the document and the holds, whatever events and timers call ready.
THEOREM CountedHolds == Spec => []Counted
<1> QED BY Invariance, PTL DEF IInv

\* Functions that wait are not left waiting once the document is ready and nothing holds it.
THEOREM NotForgottenHolds == Spec => []NotForgotten
<1> QED BY Invariance, PTL DEF IInv

\* They are not called before the document is ready and has a body.
THEOREM NotEarlyHolds == Spec => []NotEarly
<1> QED BY Invariance, PTL DEF IInv

\* While the document is not ready, an event or a timer is left that will call ready.
THEOREM AwaitedHolds == Spec => []Awaited
<1> QED BY Invariance, PTL DEF IInv

\* Functions are called at a moment when no hold is left.
THEOREM OnlyUnheldHolds == Spec => OnlyUnheld
<1>1. ASSUME IInv, [Next]_vars, ~fired, fired' PROVE holds' = 0
  <2> USE DEF browser, ready
  <2>0. Numbers /\ Counted /\ Backed
    BY <1>1 DEF IInv, TypeOK, Numbers
  <2>1. ASSUME NEW n, SetReady(n), UNCHANGED holds PROVE holds' = 0
    <3>1. ~isReady /\ readyWait <= 1
      BY <1>1, <2>1 DEF SetReady
    <3> QED
      BY <2>0, <2>1, <3>1 DEF Numbers, Counted
  <2>2. CASE Release
    <3>1. readyWait = 1 /\ holds > 0 /\ holds' = holds - 1
      BY <1>1, <2>2 DEF Release
    <3>2. isReady
      BY <2>0, <3>1 DEF Numbers, Counted
    <3> QED
      BY <2>0, <3>1, <3>2 DEF Counted
  <2>3. CASE ContentLoaded
    BY <1>1, <2>1, <2>3 DEF ContentLoaded
  <2>4. CASE Loaded
    BY <1>1, <2>1, <2>4 DEF Loaded
  <2>5. CASE Timer
    BY <2>1, <2>5 DEF Timer
  <2>6. CASE ScrollCheck
    BY <1>1, <2>1, <2>6 DEF ScrollCheck
  <2>7. CASE Hold
    BY <1>1, <2>7 DEF Hold
  <2>8. CASE Parse
    BY <1>1, <2>8 DEF Parse
  <2>9. CASE \E toplevel \in BOOLEAN : BindReady(toplevel)
    BY <1>1, <2>9 DEF BindReady
  <2>10. CASE UNCHANGED vars
    BY <1>1, <2>10 DEF vars
  <2> QED
    BY <1>1, <2>2, <2>3, <2>4, <2>5, <2>6, <2>7, <2>8, <2>9, <2>10 DEF Next
<1>2. IInv /\ [Next]_vars => [~fired /\ fired' => holds' = 0]_vars
  BY <1>1
<1> QED BY Invariance, <1>2, PTL DEF Spec, OnlyUnheld


-----------------------------------------------------------------------------
\* Events.  Lists, listeners and data belong together.
ListsOK ==
  /\ events \in [Elem -> [Type -> Seq(E!Handler)]]
  /\ keys \in [Elem -> SUBSET Type] /\ active \in [Elem -> SUBSET Type] /\ hasHandle \in [Elem -> BOOLEAN]
  /\ E!Listening /\ E!NoLeftover

\* While user code runs, its dispatch calls handlers; only from there does a trigger begin; and an
\* event is discarded only while there is a default action under way.
StackOK ==
  /\ triggered \in Type \union {"none"} /\ dispatches \in Seq(E!Dispatch) /\ turn \in {"user", "engine"}
  /\ turn = "user" /\ dispatches # <<>> => E!Top.stage = "handlers"
  /\ \A i \in 2..Len(dispatches) : dispatches[i].kind = "trigger" => dispatches[i - 1].stage = "handlers"
  /\ triggered # "none" => \E i \in 1..Len(dispatches) : dispatches[i].stage = "action"

EventInv == ListsOK /\ StackOK

\* What Events sifts is what is sifted here.
LEMMA EventsSift == \A s, T : E!Sifted(s, T) = Sifted(s, T)
BY Zenon DEF E!Sifted, Sifted

\* A list with a new handler.
LEMMA AddKeeps ==
  ASSUME ListsOK, NEW e \in Elem, NEW t \in Type, NEW h \in E!Handler, E!Add(e, t, h)
  PROVE  ListsOK'
<1>1. /\ events' = [events EXCEPT ![e][t] = Append(@, h)]
      /\ keys' = [keys EXCEPT ![e] = @ \union {t}]
      /\ active' = [active EXCEPT ![e] = IF t \in keys[e] THEN @ ELSE @ \union {t}]
      /\ hasHandle' = [hasHandle EXCEPT ![e] = TRUE]
  BY DEF E!Add
<1>2. events[e][t] \in Seq(E!Handler) /\ Append(events[e][t], h) \in Seq(E!Handler) /\ Append(events[e][t], h) # <<>>
  <2>1. events[e][t] \in Seq(E!Handler)
    BY DEF ListsOK
  <2> DEFINE q == events[e][t]
             H == E!Handler
  <2> HIDE DEF q, H
  <2>2. q \in Seq(H)
    BY <2>1 DEF q, H
  <2>3. h \in H
    BY DEF H
  <2>4. Append(q, h) \in Seq(H) /\ Append(q, h) # <<>>
    BY <2>2, <2>3, AppendProperties
  <2> QED
    BY <2>2, <2>4 DEF q, H
<1>3. events' \in [Elem -> [Type -> Seq(E!Handler)]]
  <2>1. events \in [Elem -> [Type -> Seq(E!Handler)]]
    BY DEF ListsOK
  <2> DEFINE q == Append(events[e][t], h)
  <2>2. events' = [events EXCEPT ![e] = [events[e] EXCEPT ![t] = q]]
    BY <1>1, <2>1
  <2>3. q \in Seq(E!Handler)
    BY <1>2
  <2> HIDE DEF q
  <2>4. [events[e] EXCEPT ![t] = q] \in [Type -> Seq(E!Handler)]
    BY <2>1, <2>3
  <2> QED
    BY <2>1, <2>2, <2>4
<1>4. \A x \in Elem, y \in Type : IF x = e /\ y = t THEN events'[x][y] # <<>> ELSE events'[x][y] = events[x][y]
  <2> SUFFICES ASSUME NEW x \in Elem, NEW y \in Type
      PROVE  IF x = e /\ y = t THEN events'[x][y] # <<>> ELSE events'[x][y] = events[x][y]
    OBVIOUS
  <2>1. events \in [Elem -> [Type -> Seq(E!Handler)]]
    BY DEF ListsOK
  <2> DEFINE q == Append(events[e][t], h)
  <2>2. events' = [events EXCEPT ![e][t] = q] /\ q # <<>>
    BY <1>1, <1>2
  <2> HIDE DEF q
  <2> QED
    BY <2>1, <2>2
<1>5. keys' \in [Elem -> SUBSET Type] /\ active' \in [Elem -> SUBSET Type] /\ hasHandle' \in [Elem -> BOOLEAN]
  <2>1. keys' \in [Elem -> SUBSET Type]
    BY <1>1 DEF ListsOK
  <2>2. active' \in [Elem -> SUBSET Type]
    BY <1>1 DEF ListsOK
  <2>3. hasHandle' \in [Elem -> BOOLEAN]
    BY <1>1 DEF ListsOK
  <2> QED
    BY <2>1, <2>2, <2>3
<1>6. E!Listening'
  <2> SUFFICES ASSUME NEW x \in Elem, NEW y \in Type
      PROVE  (y \in active'[x] <=> events'[x][y] # <<>>) /\ (y \in keys'[x] <=> events'[x][y] # <<>>)
    BY DEF E!Listening
  <2>1. (y \in active[x] <=> events[x][y] # <<>>) /\ (y \in keys[x] <=> events[x][y] # <<>>)
    BY DEF ListsOK, E!Listening
  <2>2. CASE x # e
    <3>1. active'[x] = active[x] /\ keys'[x] = keys[x]
      BY <1>1, <2>2 DEF ListsOK
    <3> QED
      BY <1>4, <2>1, <2>2, <3>1
  <2>3. CASE x = e
    <3>1. keys'[e] = keys[e] \union {t} /\ active'[e] = IF t \in keys[e] THEN active[e] ELSE active[e] \union {t}
      BY <1>1 DEF ListsOK
    <3>2. t \in active'[e]
      BY <3>1 DEF ListsOK, E!Listening
    <3>3. CASE y = t
      BY <1>4, <2>3, <3>1, <3>2, <3>3
    <3>4. CASE y # t
      BY <1>4, <2>1, <2>3, <3>1, <3>4
    <3> QED
      BY <3>3, <3>4
  <2> QED
    BY <2>2, <2>3
<1>7. E!NoLeftover'
  <2> SUFFICES ASSUME NEW x \in Elem  PROVE hasHandle'[x] <=> \E y \in Type : events'[x][y] # <<>>
    BY DEF E!NoLeftover
  <2>1. CASE x = e
    <3>1. hasHandle'[e] = TRUE
      BY <1>1 DEF ListsOK
    <3> QED
      BY <1>4, <2>1, <3>1
  <2>2. CASE x # e
    <3>1. hasHandle'[x] <=> hasHandle[x]
      BY <1>1, <2>2 DEF ListsOK
    <3>2. \A y \in Type : events'[x][y] = events[x][y]
      BY <1>4, <2>2
    <3>3. hasHandle[x] <=> \E y \in Type : events[x][y] # <<>>
      BY DEF ListsOK, E!NoLeftover
    <3> QED
      BY <3>1, <3>2, <3>3
  <2> QED
    BY <2>1, <2>2
<1> QED
  BY <1>3, <1>5, <1>6, <1>7 DEF ListsOK

\* Lists from which handlers were taken.
LEMMA RemoveKeeps ==
  ASSUME ListsOK, NEW e \in Elem, NEW ts \in SUBSET Type, NEW fs, NEW ns, E!Remove(e, ts, fs, ns)
  PROVE  ListsOK'
<1> DEFINE left == [t \in Type |-> IF t \in ts THEN E!Sifted(events[e][t], {h \in E!Handler : ~E!Meant(h, fs, ns)})
                                   ELSE events[e][t]]
           gone == {t \in ts \cap keys[e] : left[t] = <<>>}
<1>1. /\ events' = [events EXCEPT ![e] = left]
      /\ keys' = [keys EXCEPT ![e] = @ \ gone]
      /\ active' = [active EXCEPT ![e] = @ \ gone]
      /\ hasHandle' = [hasHandle EXCEPT ![e] = @ /\ keys[e] \ gone # {}]
  BY DEF E!Remove
<1>2. left \in [Type -> Seq(E!Handler)]
  <2>1. ASSUME NEW t \in Type  PROVE left[t] \in Seq(E!Handler)
    <3>1. events[e][t] \in Seq(E!Handler)
      BY DEF ListsOK
    <3>2. Sifted(events[e][t], {h \in E!Handler : ~E!Meant(h, fs, ns)}) \in Seq(E!Handler)
      BY <3>1, SiftedIs
    <3> QED
      BY <3>1, <3>2, EventsSift
  <2> QED
    BY <2>1
<1>3. \A t \in Type : events[e][t] = <<>> => left[t] = <<>>
  <2> SUFFICES ASSUME NEW t \in Type, events[e][t] = <<>>  PROVE left[t] = <<>>
    OBVIOUS
  <2>1. events[e][t] \in Seq(E!Handler)
    BY DEF ListsOK
  <2>2. Sifted(events[e][t], {h \in E!Handler : ~E!Meant(h, fs, ns)}) = <<>>
    BY <2>1, SiftedEmpty
  <2> QED
    BY <2>2, EventsSift
<1> HIDE DEF left
<1>4. \A t \in Type : t \in keys[e] \ gone <=> left[t] # <<>>
  <2> SUFFICES ASSUME NEW t \in Type  PROVE t \in keys[e] \ gone <=> left[t] # <<>>
    OBVIOUS
  <2>1. t \in keys[e] <=> events[e][t] # <<>>
    BY DEF ListsOK, E!Listening
  <2>2. t \notin ts => left[t] = events[e][t]
    BY DEF left
  <2> QED
    BY <1>3, <2>1, <2>2
<1>5. active[e] = keys[e]
  BY DEF ListsOK, E!Listening
<1> HIDE DEF gone
<1>6. /\ \A x \in Elem : x # e => /\ events'[x] = events[x] /\ keys'[x] = keys[x] /\ active'[x] = active[x]
                                  /\ (hasHandle'[x] <=> hasHandle[x])
      /\ events'[e] = left /\ keys'[e] = keys[e] \ gone /\ active'[e] = keys[e] \ gone
  BY <1>1, <1>5 DEF ListsOK
<1>7. /\ events' \in [Elem -> [Type -> Seq(E!Handler)]] /\ keys' \in [Elem -> SUBSET Type]
      /\ active' \in [Elem -> SUBSET Type] /\ hasHandle' \in [Elem -> BOOLEAN]
  BY <1>1, <1>2 DEF ListsOK
<1>8. hasHandle'[e] <=> \E t \in Type : left[t] # <<>>
  <2>1. hasHandle'[e] <=> (hasHandle[e] /\ keys[e] \ gone # {})
    BY <1>1 DEF ListsOK
  <2>2. hasHandle[e] <=> \E t \in Type : events[e][t] # <<>>
    BY DEF ListsOK, E!NoLeftover
  <2>3. keys[e] \in SUBSET Type
    BY DEF ListsOK
  <2> QED
    BY <1>3, <1>4, <2>1, <2>2, <2>3
<1>9. E!Listening'
  <2> SUFFICES ASSUME NEW x \in Elem, NEW t \in Type
      PROVE  (t \in active'[x] <=> events'[x][t] # <<>>) /\ (t \in keys'[x] <=> events'[x][t] # <<>>)
    BY DEF E!Listening
  <2>1. CASE x = e
    BY <1>4, <1>6, <2>1
  <2>2. CASE x # e
    BY <1>6, <2>2 DEF ListsOK, E!Listening
  <2> QED
    BY <2>1, <2>2
<1>10. E!NoLeftover'
  <2> SUFFICES ASSUME NEW x \in Elem  PROVE hasHandle'[x] <=> \E t \in Type : events'[x][t] # <<>>
    BY DEF E!NoLeftover
  <2>1. CASE x = e
    BY <1>6, <1>8, <2>1
  <2>2. CASE x # e
    BY <1>6, <2>2 DEF ListsOK, E!NoLeftover
  <2> QED
    BY <2>1, <2>2
<1> QED
  BY <1>7, <1>9, <1>10 DEF ListsOK

\* A stack without its top, and one whose top is another.
LEMMA Lowered ==
  ASSUME NEW S, NEW s \in Seq(S), s # <<>>
  PROVE  LET b == SubSeq(s, 1, Len(s) - 1)
         IN b \in Seq(S) /\ Len(b) = Len(s) - 1 /\ \A i \in 1..(Len(s) - 1) : b[i] = s[i]
<1> DEFINE n == Len(s)
<1>1. n \in Nat \ {0} /\ 1 \in 1..(n + 1) /\ n - 1 \in 0..n /\ n - 1 \in Nat
  OBVIOUS
<1>2. /\ SubSeq(s, 1, n - 1) \in Seq(S)
      /\ Len(SubSeq(s, 1, n - 1)) = IF 1 <= n - 1 THEN (n - 1) - 1 + 1 ELSE 0
      /\ \A i \in 1..((n - 1) - 1 + 1) : SubSeq(s, 1, n - 1)[i] = s[1 + i - 1]
  BY <1>1, SubSeqProperties
<1> HIDE DEF n
<1>3. (n - 1) - 1 + 1 = n - 1 /\ (IF 1 <= n - 1 THEN (n - 1) - 1 + 1 ELSE 0) = n - 1
      /\ \A i \in 1..(n - 1) : 1 + i - 1 = i
  BY <1>1
<1>4. /\ Len(SubSeq(s, 1, n - 1)) = n - 1
      /\ \A i \in 1..(n - 1) : SubSeq(s, 1, n - 1)[i] = s[i]
  BY <1>2, <1>3
<1> QED
  BY <1>2, <1>4 DEF n

LEMMA Replaced ==
  ASSUME NEW S, NEW s \in Seq(S), s # <<>>, NEW d \in S
  PROVE  LET r == Append(SubSeq(s, 1, Len(s) - 1), d)
         IN r \in Seq(S) /\ Len(r) = Len(s) /\ r[Len(s)] = d /\ \A i \in 1..(Len(s) - 1) : r[i] = s[i]
<1> DEFINE b == SubSeq(s, 1, Len(s) - 1)
<1>1. Len(s) \in Nat \ {0} /\ b \in Seq(S) /\ Len(b) = Len(s) - 1 /\ \A i \in 1..(Len(s) - 1) : b[i] = s[i]
  BY Lowered
<1> HIDE DEF b
<1>2. /\ Append(b, d) \in Seq(S) /\ Len(Append(b, d)) = Len(b) + 1 /\ Append(b, d)[Len(b) + 1] = d
      /\ \A i \in 1..Len(b) : Append(b, d)[i] = b[i]
  BY <1>1, AppendProperties
<1> QED
  BY <1>1, <1>2 DEF b

\* The top is a dispatch.
LEMMA TopIs ==
  ASSUME StackOK, dispatches # <<>>
  PROVE  /\ Len(dispatches) \in Nat \ {0} /\ E!Top \in E!Dispatch
         /\ E!Top.elem \in Elem /\ E!Top.target \in Elem /\ E!Top.type \in Type /\ E!Top.ns \in SUBSET Namespace
         /\ E!Top.todo \in Seq(E!Handler) /\ E!Top.stopped \in BOOLEAN /\ E!Top.prevented \in BOOLEAN
         /\ E!Top.stage \in {"handlers", "action"} /\ E!Top.kind \in {"trigger", "native", "second"}
<1>1. dispatches \in Seq(E!Dispatch)
  BY DEF StackOK
<1>2. Len(dispatches) \in Nat \ {0} /\ E!Top \in E!Dispatch
  BY <1>1 DEF E!Top
<1> QED
  BY <1>2 DEF E!Dispatch

\* The snapshot is of the lists.
LEMMA SnapshotIs ==
  ASSUME ListsOK, NEW e \in Elem, NEW t \in Type, NEW ns
  PROVE  E!Snapshot(e, t, ns) \in Seq(E!Handler)
<1>1. events[e][t] \in Seq(E!Handler)
  BY DEF ListsOK
<1>2. Sifted(events[e][t], {h \in E!Handler : ns \subseteq h.ns}) \in Seq(E!Handler)
  BY <1>1, SiftedIs
<1>3. E!Sifted(events[e][t], {h \in E!Handler : ns \subseteq h.ns}) \in Seq(E!Handler)
  BY <1>2, EventsSift
<1>4. <<>> \in Seq(E!Handler)
  OBVIOUS
<1> QED
  BY <1>3, <1>4, Zenon DEF E!Snapshot

\* The dispatch at the top goes on.
LEMMA GoesOn ==
  ASSUME StackOK, dispatches # <<>>, NEW d \in E!Dispatch, dispatches' = E!Put(d),
         d.kind = E!Top.kind, E!Top.stage = "action" => d.stage = "action",
         turn' \in {"user", "engine"}, turn' = "user" => d.stage = "handlers",
         \/ triggered' = triggered
         \/ triggered' \in Type /\ d.stage = "action"
  PROVE  StackOK'
<1> DEFINE n == Len(dispatches)
<1>1. dispatches \in Seq(E!Dispatch) /\ n \in Nat \ {0} /\ E!Top = dispatches[n]
  BY TopIs DEF E!Top, StackOK
<1>2. dispatches' = Append(SubSeq(dispatches, 1, n - 1), d)
  BY DEF E!Put, E!Below
<1>3. /\ dispatches' \in Seq(E!Dispatch) /\ Len(dispatches') = n /\ dispatches'[n] = d
      /\ \A i \in 1..(n - 1) : dispatches'[i] = dispatches[i]
  BY <1>1, <1>2, Replaced
<1> HIDE DEF n
<1>4. \A i \in 1..n : i \in 1..(n - 1) \/ i = n
  BY <1>1
<1>5. \A i \in 2..n : dispatches'[i].kind = "trigger" => dispatches'[i - 1].stage = "handlers"
  <2> SUFFICES ASSUME NEW i \in 2..n, dispatches'[i].kind = "trigger"  PROVE dispatches'[i - 1].stage = "handlers"
    OBVIOUS
  <2>1. i \in 1..n /\ i - 1 \in 1..(n - 1)
    BY <1>1
  <2>2. dispatches[i].kind = "trigger"
    BY <1>1, <1>3, <1>4, <2>1
  <2>3. dispatches[i - 1].stage = "handlers"
    BY <2>2 DEF StackOK, n
  <2> QED
    BY <1>3, <2>1, <2>3
<1>6. triggered' # "none" => \E i \in 1..n : dispatches'[i].stage = "action"
  <2>1. CASE d.stage = "action"
    BY <1>1, <1>3, <2>1
  <2>2. CASE d.stage # "action"
    <3> SUFFICES ASSUME triggered # "none"  PROVE \E i \in 1..n : dispatches'[i].stage = "action"
      BY <2>2
    <3>1. PICK i \in 1..n : dispatches[i].stage = "action"
      BY DEF StackOK, n
    <3>2. i \in 1..(n - 1)
      BY <1>1, <1>4, <2>2, <3>1
    <3> QED
      BY <1>3, <3>1, <3>2
  <2> QED
    BY <2>1, <2>2
<1>7. E!Top' = d
  BY <1>3 DEF E!Top
<1>8. triggered' \in Type \union {"none"}
  BY DEF StackOK
<1> QED
  BY <1>3, <1>5, <1>6, <1>7, <1>8 DEF StackOK

\* The dispatch at the top ends.
LEMMA IsOver ==
  ASSUME StackOK, dispatches # <<>>, dispatches' = E!Below, turn' \in {"user", "engine"},
         turn' = "user" => \/ Len(dispatches) = 1
                           \/ dispatches[Len(dispatches) - 1].stage = "handlers",
         triggered' = "none" \/ (triggered' = triggered /\ E!Top.stage = "handlers")
  PROVE  StackOK'
<1> DEFINE n == Len(dispatches)
<1>1. dispatches \in Seq(E!Dispatch) /\ n \in Nat \ {0} /\ E!Top = dispatches[n]
  BY TopIs DEF E!Top, StackOK
<1>2. dispatches' = SubSeq(dispatches, 1, n - 1)
  BY DEF E!Below
<1>3. /\ dispatches' \in Seq(E!Dispatch) /\ Len(dispatches') = n - 1
      /\ \A i \in 1..(n - 1) : dispatches'[i] = dispatches[i]
  BY <1>1, <1>2, Lowered
<1> HIDE DEF n
<1>4. \A i \in 2..(n - 1) : dispatches'[i].kind = "trigger" => dispatches'[i - 1].stage = "handlers"
  <2> SUFFICES ASSUME NEW i \in 2..(n - 1), dispatches'[i].kind = "trigger"
      PROVE  dispatches'[i - 1].stage = "handlers"
    OBVIOUS
  <2>1. i \in 2..n /\ i \in 1..(n - 1) /\ i - 1 \in 1..(n - 1)
    BY <1>1
  <2>2. dispatches[i - 1].stage = "handlers"
    BY <1>3, <2>1 DEF StackOK, n
  <2> QED
    BY <1>3, <2>1, <2>2
<1>5. triggered' # "none" => \E i \in 1..(n - 1) : dispatches'[i].stage = "action"
  <2> SUFFICES ASSUME triggered' # "none"  PROVE \E i \in 1..(n - 1) : dispatches'[i].stage = "action"
    OBVIOUS
  <2>1. PICK i \in 1..n : dispatches[i].stage = "action"
    BY DEF StackOK, n
  <2>2. i \in 1..(n - 1)
    BY <1>1, <2>1
  <2> QED
    BY <1>3, <2>1, <2>2
<1>6. turn' = "user" /\ dispatches' # <<>> => E!Top'.stage = "handlers"
  <2> SUFFICES ASSUME turn' = "user", dispatches' # <<>>  PROVE E!Top'.stage = "handlers"
    OBVIOUS
  <2>1. n - 1 \in 1..(n - 1)
    BY <1>1, <1>3
  <2>2. E!Top' = dispatches[n - 1]
    BY <1>3, <2>1 DEF E!Top
  <2> QED
    BY <1>1, <2>1, <2>2 DEF n
<1>7. triggered' \in Type \union {"none"}
  BY DEF StackOK
<1> QED
  BY <1>3, <1>4, <1>5, <1>6, <1>7 DEF StackOK

\* A dispatch begins: by trigger only in a handler or at rest.
LEMMA Begins ==
  ASSUME StackOK, NEW d \in E!Dispatch, dispatches' = Append(dispatches, d),
         d.kind = "trigger" /\ dispatches # <<>> => E!Top.stage = "handlers",
         turn' = "engine", triggered' = triggered
  PROVE  StackOK'
<1> DEFINE n == Len(dispatches)
<1>1. dispatches \in Seq(E!Dispatch) /\ n \in Nat /\ (n # 0 => dispatches # <<>> /\ E!Top = dispatches[n])
  BY DEF E!Top, StackOK
<1>2. /\ dispatches' \in Seq(E!Dispatch) /\ Len(dispatches') = n + 1 /\ dispatches'[n + 1] = d
      /\ \A i \in 1..n : dispatches'[i] = dispatches[i]
  BY <1>1, AppendProperties
<1> HIDE DEF n
<1>3. \A i \in 2..(n + 1) : dispatches'[i].kind = "trigger" => dispatches'[i - 1].stage = "handlers"
  <2> SUFFICES ASSUME NEW i \in 2..(n + 1), dispatches'[i].kind = "trigger"
      PROVE  dispatches'[i - 1].stage = "handlers"
    OBVIOUS
  <2>1. i - 1 \in 1..n /\ (i = n + 1 \/ i \in 2..n)
    BY <1>1
  <2>2. CASE i = n + 1
    <3>1. n # 0 /\ n \in 1..n /\ i - 1 = n
      BY <1>1, <2>1, <2>2
    <3> QED
      BY <1>1, <1>2, <2>2, <3>1
  <2>3. CASE i \in 2..n
    <3>1. i \in 1..n /\ dispatches[i].kind = "trigger"
      BY <1>1, <1>2, <2>3
    <3>2. dispatches[i - 1].stage = "handlers"
      BY <2>3, <3>1 DEF StackOK, n
    <3> QED
      BY <1>2, <2>1, <3>2
  <2> QED
    BY <2>1, <2>2, <2>3
<1>4. triggered' # "none" => \E i \in 1..(n + 1) : dispatches'[i].stage = "action"
  <2> SUFFICES ASSUME triggered # "none"  PROVE \E i \in 1..(n + 1) : dispatches'[i].stage = "action"
    OBVIOUS
  <2>1. PICK i \in 1..n : dispatches[i].stage = "action"
    BY DEF StackOK, n
  <2>2. i \in 1..(n + 1)
    BY <1>1
  <2> QED
    BY <1>2, <2>1, <2>2
<1>5. triggered' \in Type \union {"none"} /\ turn' # "user"
  BY DEF StackOK
<1> QED
  BY <1>2, <1>3, <1>4, <1>5 DEF StackOK

LEMMA EventsInitially == E!Init => EventInv
<1> SUFFICES ASSUME E!Init PROVE EventInv
  OBVIOUS
<1>1. /\ events = [e \in Elem |-> [t \in Type |-> <<>>]] /\ keys = [e \in Elem |-> {}]
      /\ active = [e \in Elem |-> {}] /\ hasHandle = [e \in Elem |-> FALSE]
      /\ triggered = "none" /\ dispatches = <<>> /\ turn = "user"
  BY DEF E!Init, E!None
<1>2. <<>> \in Seq(E!Handler) /\ <<>> \in Seq(E!Dispatch) /\ Len(dispatches) = 0
  BY <1>1
<1>3. events \in [Elem -> [Type -> Seq(E!Handler)]] /\ \A e \in Elem, t \in Type : events[e][t] = <<>>
  BY <1>1, <1>2
<1>4. /\ keys \in [Elem -> SUBSET Type] /\ active \in [Elem -> SUBSET Type] /\ hasHandle \in [Elem -> BOOLEAN]
      /\ \A e \in Elem : keys[e] = {} /\ active[e] = {} /\ hasHandle[e] = FALSE
  BY <1>1
<1>5. E!Listening /\ E!NoLeftover
  BY <1>3, <1>4 DEF E!Listening, E!NoLeftover
<1>6. StackOK
  BY <1>1, <1>2 DEF StackOK
<1> QED
  BY <1>3, <1>4, <1>5, <1>6 DEF EventInv, ListsOK

\* What leaves the lists, or the stack, as they are.
LEMMA ListsStay ==
  ASSUME ListsOK, UNCHANGED E!lists  PROVE ListsOK'
BY DEF E!lists, ListsOK, E!Listening, E!NoLeftover

LEMMA StackStays ==
  ASSUME StackOK, UNCHANGED <<triggered, dispatches, turn>>  PROVE StackOK'
BY DEF StackOK, E!Top

LEMMA AddSafe ==
  ASSUME EventInv, NEW e \in Elem, NEW t \in Type, NEW h \in E!Handler, E!Add(e, t, h)
  PROVE  EventInv'
<1>1. ListsOK'
  BY AddKeeps DEF EventInv
<1>2. StackOK'
  BY StackStays DEF EventInv, E!Add
<1> QED
  BY <1>1, <1>2 DEF EventInv

LEMMA UnbindSafe ==
  ASSUME EventInv, NEW e \in Elem, NEW ts \in SUBSET Type, NEW fs, NEW ns, E!Unbind(e, ts, fs, ns)
  PROVE  EventInv'
<1>1. ListsOK'
  BY RemoveKeeps DEF EventInv, E!Unbind
<1>2. StackOK'
  BY StackStays DEF EventInv, E!Unbind
<1> QED
  BY <1>1, <1>2 DEF EventInv

LEMMA TriggerSafe ==
  ASSUME EventInv, NEW e \in Elem, NEW t \in Type, NEW ns \in SUBSET Namespace, NEW only \in BOOLEAN,
         E!Trigger(e, t, ns, only)
  PROVE  EventInv'
<1> DEFINE d == [elem |-> e, target |-> e, type |-> t, ns |-> ns, todo |-> E!Snapshot(e, t, ns),
                 stopped |-> only, prevented |-> only, stage |-> "handlers", kind |-> "trigger"]
<1>1. E!Snapshot(e, t, ns) \in Seq(E!Handler)
  BY SnapshotIs DEF EventInv
<1>2. d \in E!Dispatch /\ d.kind = "trigger"
  BY <1>1 DEF E!Dispatch
<1>3. dispatches' = Append(dispatches, d) /\ turn = "user" /\ turn' = "engine" /\ triggered' = triggered
  BY DEF E!Trigger, E!InUserCode
<1> HIDE DEF d
<1>4. ListsOK'
  BY ListsStay DEF EventInv, E!Trigger
<1>5. dispatches # <<>> => E!Top.stage = "handlers"
  BY <1>3 DEF EventInv, StackOK
<1>6. StackOK'
  BY <1>2, <1>3, <1>5, Begins DEF EventInv
<1> QED
  BY <1>4, <1>6 DEF EventInv

LEMMA NativeSafe ==
  ASSUME EventInv, NEW e \in Elem, NEW t \in Type, E!Native(e, t)
  PROVE  EventInv'
<1> DEFINE todo == IF t \in active[e] THEN E!Snapshot(e, t, {}) ELSE <<>>
           kind == IF dispatches # <<>> /\ E!Top.type = t /\ E!Top.target = e THEN "second" ELSE "native"
           d == [elem |-> e, target |-> e, type |-> t, ns |-> {}, todo |-> todo,
                 stopped |-> FALSE, prevented |-> FALSE, stage |-> "handlers", kind |-> kind]
<1>1. dispatches' = Append(dispatches, d) /\ turn' = "engine" /\ triggered' = triggered
  BY DEF E!Native
<1>2. todo \in Seq(E!Handler)
  <2>1. E!Snapshot(e, t, {}) \in Seq(E!Handler)
    BY SnapshotIs DEF EventInv
  <2>2. <<>> \in Seq(E!Handler)
    OBVIOUS
  <2> QED
    BY <2>1, <2>2
<1>3. kind \in {"native", "second"}
  OBVIOUS
<1> HIDE DEF todo, kind
<1>4. d \in E!Dispatch /\ d.kind # "trigger"
  BY <1>2, <1>3 DEF E!Dispatch
<1> HIDE DEF d
<1>5. ListsOK'
  BY ListsStay DEF EventInv, E!Native
<1>6. StackOK'
  BY <1>1, <1>4, Begins DEF EventInv
<1> QED
  BY <1>5, <1>6 DEF EventInv

LEMMA CallNextSafe ==
  ASSUME EventInv, E!CallNext  PROVE EventInv'
<1> DEFINE d == [E!Top EXCEPT !.todo = Tail(@)]
<1>1. /\ dispatches # <<>> /\ E!Top.stage = "handlers" /\ E!Top.todo # <<>>
      /\ dispatches' = E!Put(d) /\ turn' = "user" /\ triggered' = triggered
  BY DEF E!CallNext
<1>2. Tail(E!Top.todo) \in Seq(E!Handler) /\ E!Top.elem \in Elem /\ E!Top.type \in Type
  BY <1>1, TopIs, HeadTailProperties DEF EventInv
<1>3. d \in E!Dispatch /\ d.kind = E!Top.kind /\ d.stage = "handlers"
  BY <1>1, <1>2, TopIs DEF EventInv, E!Dispatch
<1> HIDE DEF d
<1>4. ListsOK'
  <2>1. CASE Head(E!Top.todo).one
    <3>1. {E!Top.type} \in SUBSET Type
      BY <1>2
    <3>2. E!Remove(E!Top.elem, {E!Top.type}, {Head(E!Top.todo).guid}, {})
      BY <2>1 DEF E!CallNext
    <3> QED
      BY <1>2, <3>1, <3>2, RemoveKeeps DEF EventInv
  <2>2. CASE ~Head(E!Top.todo).one
    BY <2>2, ListsStay DEF EventInv, E!CallNext
  <2> QED
    BY <2>1, <2>2
<1>5. StackOK'
  BY <1>1, <1>3, GoesOn DEF EventInv
<1> QED
  BY <1>4, <1>5 DEF EventInv

LEMMA ReturnSafe ==
  ASSUME EventInv, NEW p \in BOOLEAN, NEW s \in BOOLEAN, NEW m \in BOOLEAN, E!Return(p, s, m)
  PROVE  EventInv'
<1> DEFINE d == [E!Top EXCEPT !.prevented = @ \/ p, !.stopped = @ \/ s, !.todo = IF m THEN <<>> ELSE @]
<1>1. /\ dispatches # <<>> /\ turn = "user" /\ dispatches' = E!Put(d) /\ turn' = "engine"
      /\ triggered' = triggered
  BY DEF E!Return
<1>2. E!Top.stage = "handlers"
  BY <1>1 DEF EventInv, StackOK
<1>3. (IF m THEN <<>> ELSE E!Top.todo) \in Seq(E!Handler)
  <2>1. E!Top.todo \in Seq(E!Handler) /\ <<>> \in Seq(E!Handler)
    BY <1>1, TopIs DEF EventInv
  <2> QED
    BY <2>1
<1>4. (E!Top.prevented \/ p) \in BOOLEAN /\ (E!Top.stopped \/ s) \in BOOLEAN
  OBVIOUS
<1>5. d \in E!Dispatch /\ d.kind = E!Top.kind /\ d.stage = "handlers"
  BY <1>1, <1>2, <1>3, <1>4, TopIs DEF EventInv, E!Dispatch
<1> HIDE DEF d
<1>6. ListsOK'
  BY ListsStay DEF EventInv, E!Return
<1>7. StackOK'
  BY <1>1, <1>2, <1>5, GoesOn DEF EventInv
<1> QED
  BY <1>6, <1>7 DEF EventInv

LEMMA BubbleSafe ==
  ASSUME EventInv, E!Bubble  PROVE EventInv'
<1> DEFINE up == Parent[E!Top.elem]
           heard == E!Top.kind = "trigger" \/ E!Top.type \in active[up]
           todo == IF heard THEN E!Snapshot(up, E!Top.type, E!Top.ns) ELSE <<>>
           d == [E!Top EXCEPT !.elem = up, !.todo = todo]
<1>1. /\ dispatches # <<>> /\ E!Top.stage = "handlers" /\ turn = "engine" /\ turn' = turn /\ up # "none"
      /\ triggered' = triggered /\ dispatches' = E!Put(d)
  BY DEF E!Bubble, E!None
<1>2. up \in Elem
  BY <1>1, TopIs, EventAssumption DEF EventInv, E!ElemAssumption, E!None
<1>3. todo \in Seq(E!Handler)
  <2>1. E!Snapshot(up, E!Top.type, E!Top.ns) \in Seq(E!Handler)
    BY <1>1, <1>2, TopIs, SnapshotIs DEF EventInv
  <2>2. <<>> \in Seq(E!Handler)
    OBVIOUS
  <2> QED
    BY <2>1, <2>2
<1> HIDE DEF up, heard, todo
<1>4. d \in E!Dispatch /\ d.kind = E!Top.kind /\ d.stage = "handlers"
  BY <1>1, <1>2, <1>3, TopIs DEF EventInv, E!Dispatch
<1> HIDE DEF d
<1>5. ListsOK'
  BY ListsStay DEF EventInv, E!Bubble
<1>6. StackOK'
  BY <1>1, <1>4, GoesOn DEF EventInv
<1> QED
  BY <1>5, <1>6 DEF EventInv

LEMMA ActSafe ==
  ASSUME EventInv, E!Act  PROVE EventInv'
<1> DEFINE d == [E!Top EXCEPT !.stage = "action"]
<1>1. /\ dispatches # <<>> /\ turn = "engine" /\ turn' = turn /\ triggered' = E!Top.type /\ dispatches' = E!Put(d)
  BY DEF E!Act, E!AtEnd
<1>2. d \in E!Dispatch /\ d.kind = E!Top.kind /\ d.stage = "action" /\ triggered' \in Type
  BY <1>1, TopIs DEF EventInv, E!Dispatch
<1> HIDE DEF d
<1>3. ListsOK'
  BY ListsStay DEF EventInv, E!Act
<1>4. StackOK'
  BY <1>1, <1>2, GoesOn DEF EventInv
<1> QED
  BY <1>3, <1>4 DEF EventInv

\* User code goes on only below dispatches that call handlers.
LEMMA ResumeIs ==
  ASSUME StackOK, dispatches # <<>>, turn' = E!Resume
  PROVE  /\ turn' \in {"user", "engine"}
         /\ turn' = "user" => Len(dispatches) = 1 \/ dispatches[Len(dispatches) - 1].stage = "handlers"
<1> DEFINE n == Len(dispatches)
           b == SubSeq(dispatches, 1, n - 1)
<1>1. dispatches \in Seq(E!Dispatch) /\ n \in Nat \ {0}
  BY TopIs DEF StackOK
<1>2. b \in Seq(E!Dispatch) /\ Len(b) = n - 1 /\ \A i \in 1..(n - 1) : b[i] = dispatches[i]
  BY <1>1, Lowered
<1>3. turn' = IF b # <<>> /\ b[Len(b)].stage = "action" THEN "engine" ELSE "user"
  BY DEF E!Resume, E!Below
<1> HIDE DEF n, b
<1>4. n # 1 => b # <<>> /\ n - 1 \in 1..(n - 1) /\ b[Len(b)] = dispatches[n - 1]
  BY <1>1, <1>2
<1>5. n # 1 => dispatches[n - 1] \in E!Dispatch
  <2>1. \A i \in 1..n : dispatches[i] \in E!Dispatch
    BY <1>1 DEF n
  <2>2. n # 1 => n - 1 \in 1..n
    BY <1>1
  <2> QED
    BY <2>1, <2>2
<1>6. n # 1 => dispatches[n - 1].stage \in {"handlers", "action"}
  BY <1>5 DEF E!Dispatch
<1>7. turn' = "user" => n = 1 \/ dispatches[n - 1].stage = "handlers"
  BY <1>3, <1>4, <1>6
<1> QED
  BY <1>3, <1>7 DEF n

LEMMA EndSafe ==
  ASSUME EventInv, E!End  PROVE EventInv'
<1>1. /\ dispatches # <<>> /\ E!Top.stage = "handlers" /\ dispatches' = E!Below /\ turn' = E!Resume
      /\ triggered' = triggered \/ triggered' = "none"
  BY DEF E!End, E!AtEnd, E!None
<1>2. ListsOK'
  BY ListsStay DEF EventInv, E!End
<1>3. StackOK'
  BY <1>1, IsOver, ResumeIs DEF EventInv
<1> QED
  BY <1>2, <1>3 DEF EventInv

LEMMA ActedSafe ==
  ASSUME EventInv, E!Acted  PROVE EventInv'
<1>1. dispatches # <<>> /\ dispatches' = E!Below /\ turn' = E!Resume /\ triggered' = "none"
  BY DEF E!Acted, E!None
<1>2. ListsOK'
  BY ListsStay DEF EventInv, E!Acted
<1>3. StackOK'
  BY <1>1, IsOver, ResumeIs DEF EventInv
<1> QED
  BY <1>2, <1>3 DEF EventInv

LEMMA ThrowSafe ==
  ASSUME EventInv, E!Throw  PROVE EventInv'
<1> DEFINE d == [E!Top EXCEPT !.todo = <<>>]
           n == Len(dispatches)
<1>1. dispatches # <<>> /\ turn = "user" /\ triggered' = triggered
  BY DEF E!Throw
<1>2. E!Top.stage = "handlers" /\ n \in Nat \ {0} /\ E!Top = dispatches[n]
  BY <1>1, TopIs DEF EventInv, StackOK, E!Top
<1>3. ListsOK'
  BY ListsStay DEF EventInv, E!Throw
<1>4. CASE E!Top.kind = "trigger"
  <2>1. dispatches' = E!Below /\ turn' = "user"
    BY <1>4 DEF E!Throw
  <2>2. n = 1 \/ n \in 2..n
    <3>1. n \in Nat \ {0}
      BY <1>2
    <3> HIDE DEF n
    <3> QED
      BY <3>1
  <2>3. n = 1 \/ dispatches[n - 1].stage = "handlers"
    BY <1>2, <1>4, <2>2 DEF EventInv, StackOK
  <2>4. StackOK'
    BY <1>1, <1>2, <2>1, <2>3, IsOver DEF EventInv
  <2> QED
    BY <1>3, <2>4 DEF EventInv
<1>5. CASE E!Top.kind # "trigger"
  <2>1. dispatches' = E!Put(d) /\ turn' = "engine"
    BY <1>5 DEF E!Throw
  <2>2. <<>> \in Seq(E!Handler)
    OBVIOUS
  <2>3. d \in E!Dispatch /\ d.kind = E!Top.kind /\ d.stage = "handlers"
    BY <1>1, <1>2, <2>2, TopIs DEF EventInv, E!Dispatch
  <2> HIDE DEF d
  <2>4. StackOK'
    BY <1>1, <1>2, <2>1, <2>3, GoesOn DEF EventInv
  <2> QED
    BY <1>3, <2>4 DEF EventInv
<1> QED
  BY <1>4, <1>5

LEMMA EventStep ==
  ASSUME EventInv, [E!Next]_(E!vars)  PROVE EventInv'
<1>1. CASE E!User
  <2>1. PICK e \in Elem :
          \/ \E t \in Type, h \in E!Handler : E!Add(e, t, h)
          \/ \E t \in Type, fs \in {Func} \union {{f} : f \in Func}, ns \in SUBSET Namespace : E!Unbind(e, {t}, fs, ns)
          \/ \E ns \in SUBSET Namespace : E!Unbind(e, Type, Func, ns)
          \/ \E t \in Type, ns \in SUBSET Namespace, only \in BOOLEAN : E!Trigger(e, t, ns, only)
    BY <1>1 DEF E!User
  <2>2. ASSUME NEW t \in Type, NEW h \in E!Handler, E!Add(e, t, h)  PROVE EventInv'
    BY <2>2, AddSafe
  <2>3. ASSUME NEW t \in Type, NEW fs, NEW ns, E!Unbind(e, {t}, fs, ns)  PROVE EventInv'
    <3>1. {t} \in SUBSET Type
      OBVIOUS
    <3> QED
      BY <2>3, <3>1, UnbindSafe
  <2>4. ASSUME NEW ns, E!Unbind(e, Type, Func, ns)  PROVE EventInv'
    <3>1. Type \in SUBSET Type
      OBVIOUS
    <3> QED
      BY <2>4, <3>1, UnbindSafe
  <2>5. ASSUME NEW t \in Type, NEW ns \in SUBSET Namespace, NEW only \in BOOLEAN, E!Trigger(e, t, ns, only)
        PROVE  EventInv'
    BY <2>5, TriggerSafe
  <2> QED
    BY <2>1, <2>2, <2>3, <2>4, <2>5
<1>2. CASE \E e \in Elem, t \in Type : E!Native(e, t)
  BY <1>2, NativeSafe
<1>3. CASE E!CallNext
  BY <1>3, CallNextSafe
<1>4. CASE E!Bubble
  BY <1>4, BubbleSafe
<1>5. CASE E!Act
  BY <1>5, ActSafe
<1>6. CASE E!End
  BY <1>6, EndSafe
<1>7. CASE E!Acted
  BY <1>7, ActedSafe
<1>8. CASE E!Throw
  BY <1>8, ThrowSafe
<1>9. CASE \E p, s, m \in BOOLEAN : E!Return(p, s, m)
  BY <1>9, ReturnSafe
<1>10. CASE UNCHANGED E!vars
  <2>1. UNCHANGED E!lists /\ UNCHANGED <<triggered, dispatches, turn>>
    BY <1>10 DEF E!vars
  <2>2. ListsOK' /\ StackOK'
    BY <2>1, ListsStay, StackStays DEF EventInv
  <2> QED
    BY <2>2 DEF EventInv
<1> QED
  BY <1>1, <1>2, <1>3, <1>4, <1>5, <1>6, <1>7, <1>8, <1>9, <1>10 DEF E!Next

LEMMA EventInvAlways == E!Spec => []EventInv
<1>1. E!Init => EventInv
  BY EventsInitially
<1>2. EventInv /\ [E!Next]_(E!vars) => EventInv'
  BY EventStep
<1> QED
  BY <1>1, <1>2, PTL DEF E!Spec

\* The type of the default action that is under way is the one to be discarded.
Announced == \A k \in 1..Len(dispatches) : dispatches[k].stage = "action" => triggered = dispatches[k].type

DiscardOK == undone \in BOOLEAN /\ (~undone => Announced /\ E!SecondDiscarded)

\* Two dispatches, of which the first acts and the second has its type, have no handlers to call.
LEMMA SecondIs ==
  ASSUME DiscardOK, ~undone, NEW k \in 1..Len(dispatches), NEW j \in (k + 1)..Len(dispatches),
         dispatches[k].stage = "action", dispatches[j].type = dispatches[k].type
  PROVE  triggered = dispatches[j].type /\ dispatches[j].todo = <<>>
BY DEF DiscardOK, Announced, E!SecondDiscarded

\* A dispatch begins.
LEMMA BeginsDiscarded ==
  ASSUME StackOK, DiscardOK, NEW d, dispatches' = Append(dispatches, d), d.stage = "handlers",
         d.todo = <<>> \/ triggered # d.type, triggered' = triggered, undone' = undone
  PROVE  DiscardOK'
<1> SUFFICES ASSUME ~undone  PROVE Announced' /\ E!SecondDiscarded'
  BY DEF DiscardOK
<1> DEFINE n == Len(dispatches)
<1>1. n \in Nat /\ Len(dispatches') = n + 1 /\ dispatches'[n + 1] = d /\ \A i \in 1..n : dispatches'[i] = dispatches[i]
  BY DEF StackOK
<1>2. Announced
  BY DEF DiscardOK
<1>3. ASSUME NEW k \in 1..n, NEW j \in (k + 1)..n, dispatches[k].stage = "action", dispatches[j].type = dispatches[k].type
      PROVE  dispatches[j].todo = <<>>
  BY <1>3, SecondIs
<1>4. \A k \in 1..n : dispatches[k].stage = "action" => triggered = dispatches[k].type
  BY <1>2 DEF Announced
<1> HIDE DEF n
<1>5. \A k \in 1..(n + 1) : dispatches'[k].stage = "action" => k \in 1..n
  BY <1>1
<1>6. Announced'
  BY <1>1, <1>4, <1>5 DEF Announced
<1>7. E!SecondDiscarded'
  <2> SUFFICES ASSUME NEW k \in 1..(n + 1), NEW j \in (k + 1)..(n + 1),
                      dispatches'[k].stage = "action", dispatches'[j].type = dispatches'[k].type
      PROVE  dispatches'[j].todo = <<>>
    BY <1>1 DEF E!SecondDiscarded
  <2>1. k \in 1..n /\ dispatches'[k] = dispatches[k]
    BY <1>1, <1>5
  <2>2. CASE j = n + 1
    <3>1. triggered = d.type
      BY <1>1, <1>4, <2>1, <2>2
    <3> QED
      BY <1>1, <2>2, <3>1
  <2>3. CASE j # n + 1
    <3>1. j \in (k + 1)..n /\ dispatches'[j] = dispatches[j]
      BY <1>1, <2>1, <2>3
    <3> QED
      BY <1>3, <2>1, <3>1
  <2> QED
    BY <2>2, <2>3
<1> QED
  BY <1>6, <1>7

\* The dispatch at the top calls handlers, and goes on to none that are to be discarded.
LEMMA GoesOnDiscarded ==
  ASSUME StackOK, DiscardOK, dispatches # <<>>, E!Top.stage = "handlers", NEW d \in E!Dispatch, dispatches' = E!Put(d),
         d.stage = "handlers", d.type = E!Top.type,
         d.todo = <<>> \/ triggered # d.type \/ E!Top.todo # <<>>,
         triggered' = triggered, undone' = undone
  PROVE  DiscardOK'
<1> SUFFICES ASSUME ~undone  PROVE Announced' /\ E!SecondDiscarded'
  BY DEF DiscardOK
<1> DEFINE n == Len(dispatches)
<1>1. dispatches \in Seq(E!Dispatch) /\ n \in Nat \ {0} /\ E!Top = dispatches[n]
  BY TopIs DEF E!Top, StackOK
<1>2. dispatches' = Append(SubSeq(dispatches, 1, n - 1), d)
  BY DEF E!Put, E!Below
<1>3. Len(dispatches') = n /\ dispatches'[n] = d /\ \A i \in 1..(n - 1) : dispatches'[i] = dispatches[i]
  BY <1>1, <1>2, Replaced
<1>4. ASSUME NEW k \in 1..n, NEW j \in (k + 1)..n, dispatches[k].stage = "action", dispatches[j].type = dispatches[k].type
      PROVE  triggered = dispatches[j].type /\ dispatches[j].todo = <<>>
  BY <1>4, SecondIs
<1>5. \A k \in 1..n : dispatches[k].stage = "action" => triggered = dispatches[k].type
  BY DEF DiscardOK, Announced
<1> HIDE DEF n
<1>6. \A k \in 1..n : dispatches'[k].stage = "action" => k \in 1..(n - 1) /\ dispatches'[k] = dispatches[k]
  BY <1>1, <1>3
<1>7. Announced'
  BY <1>1, <1>3, <1>5, <1>6 DEF Announced
<1>8. E!SecondDiscarded'
  <2> SUFFICES ASSUME NEW k \in 1..n, NEW j \in (k + 1)..n,
                      dispatches'[k].stage = "action", dispatches'[j].type = dispatches'[k].type
      PROVE  dispatches'[j].todo = <<>>
    BY <1>3 DEF E!SecondDiscarded
  <2>1. k \in 1..(n - 1) /\ dispatches'[k] = dispatches[k]
    BY <1>6
  <2>2. CASE j = n
    <3>1. dispatches[n].type = dispatches[k].type
      BY <1>1, <1>3, <2>1, <2>2
    <3>2. triggered = dispatches[n].type /\ dispatches[n].todo = <<>>
      BY <1>4, <2>1, <2>2, <3>1
    <3> QED
      BY <1>1, <1>3, <2>2, <3>2
  <2>3. CASE j # n
    <3>1. dispatches'[j] = dispatches[j]
      BY <1>1, <1>3, <2>1, <2>3
    <3> QED
      BY <1>4, <2>1, <3>1
  <2> QED
    BY <2>2, <2>3
<1> QED
  BY <1>7, <1>8

\* The default action of the topmost begins.
LEMMA ActDiscarded ==
  ASSUME EventInv, DiscardOK, E!Act  PROVE DiscardOK'
<1> DEFINE n == Len(dispatches)
           d == [E!Top EXCEPT !.stage = "action"]
<1>1. /\ dispatches # <<>> /\ triggered' = E!Top.type /\ undone' = E!InAction /\ dispatches' = E!Put(d)
  BY DEF E!Act, E!AtEnd
<1>2. dispatches \in Seq(E!Dispatch) /\ n \in Nat \ {0} /\ E!Top = dispatches[n] /\ d \in E!Dispatch /\ d.type = E!Top.type
  BY <1>1, TopIs DEF E!Top, EventInv, StackOK, E!Dispatch
<1>3. E!Below = SubSeq(dispatches, 1, n - 1) /\ dispatches' = Append(SubSeq(dispatches, 1, n - 1), d)
  BY <1>1 DEF E!Put, E!Below
<1> HIDE DEF d
<1>4. Len(dispatches') = n /\ dispatches'[n] = d /\ \A i \in 1..(n - 1) : dispatches'[i] = dispatches[i]
  BY <1>1, <1>2, <1>3, Replaced
<1>5. Len(E!Below) = n - 1 /\ \A i \in 1..(n - 1) : E!Below[i] = dispatches[i]
  BY <1>1, <1>2, <1>3, Lowered
<1> HIDE DEF n
<1>6. undone' \in BOOLEAN
  BY <1>1 DEF E!InAction
<1> SUFFICES ASSUME ~undone'  PROVE Announced' /\ E!SecondDiscarded'
  BY <1>6 DEF DiscardOK
<1>7. \A i \in 1..(n - 1) : dispatches[i].stage # "action"
  BY <1>1, <1>5 DEF E!InAction
<1>8. \A k \in 1..n : dispatches'[k].stage = "action" => k = n
  BY <1>2, <1>4, <1>7
<1>9. Announced'
  BY <1>1, <1>2, <1>4, <1>8 DEF Announced
<1>10. E!SecondDiscarded'
  BY <1>2, <1>4, <1>8 DEF E!SecondDiscarded
<1> QED
  BY <1>9, <1>10

\* The topmost ends, and leaves triggered as it was or takes it from the others.
LEMMA IsOverDiscarded ==
  ASSUME StackOK, DiscardOK, dispatches # <<>>, dispatches' = E!Below,
         (triggered' = triggered /\ undone' = undone) \/ undone' = E!InAction
  PROVE  DiscardOK'
<1> DEFINE n == Len(dispatches)
<1>1. dispatches \in Seq(E!Dispatch) /\ n \in Nat \ {0}
  BY TopIs DEF StackOK
<1>2. dispatches' = SubSeq(dispatches, 1, n - 1)
  BY DEF E!Below
<1>3. Len(dispatches') = n - 1 /\ \A i \in 1..(n - 1) : dispatches'[i] = dispatches[i]
  BY <1>1, <1>2, Lowered
<1>4. ASSUME ~undone, NEW k \in 1..n, NEW j \in (k + 1)..n, dispatches[k].stage = "action",
             dispatches[j].type = dispatches[k].type
      PROVE  dispatches[j].todo = <<>>
  BY <1>4, SecondIs
<1>5. ~undone => \A k \in 1..n : dispatches[k].stage = "action" => triggered = dispatches[k].type
  BY DEF DiscardOK, Announced
<1> HIDE DEF n
<1>6. CASE triggered' = triggered /\ undone' = undone
  <2> SUFFICES ASSUME ~undone  PROVE Announced' /\ E!SecondDiscarded'
    BY <1>6 DEF DiscardOK
  <2>1. \A k \in 1..(n - 1) : k \in 1..n
    BY <1>1
  <2>2. Announced'
    BY <1>3, <1>5, <1>6, <2>1 DEF Announced
  <2>3. E!SecondDiscarded'
    <3> SUFFICES ASSUME NEW k \in 1..(n - 1), NEW j \in (k + 1)..(n - 1),
                        dispatches'[k].stage = "action", dispatches'[j].type = dispatches'[k].type
        PROVE  dispatches'[j].todo = <<>>
      BY <1>3 DEF E!SecondDiscarded
    <3>1. j \in 1..(n - 1) /\ j \in (k + 1)..n /\ k \in 1..n
      BY <1>1
    <3> QED
      BY <1>3, <1>4, <3>1
  <2> QED
    BY <2>2, <2>3
<1>7. CASE undone' = E!InAction
  <2>1. undone' \in BOOLEAN /\ (~undone' => \A k \in 1..Len(dispatches') : dispatches'[k].stage # "action")
    BY <1>7 DEF E!InAction
  <2>2. ~undone' => Announced' /\ E!SecondDiscarded'
    BY <2>1 DEF Announced, E!SecondDiscarded
  <2> QED
    BY <2>1, <2>2 DEF DiscardOK
<1> QED
  BY <1>6, <1>7

\* The snapshot is empty where the type is to be discarded.
LEMMA SnapshotDiscards ==
  ASSUME NEW e, NEW t, NEW ns  PROVE E!Snapshot(e, t, ns) = <<>> \/ triggered # t
BY Zenon DEF E!Snapshot

LEMMA TriggerDiscarded ==
  ASSUME EventInv, DiscardOK, NEW e, NEW t, NEW ns, NEW only, E!Trigger(e, t, ns, only)
  PROVE  DiscardOK'
<1> DEFINE d == [elem |-> e, target |-> e, type |-> t, ns |-> ns, todo |-> E!Snapshot(e, t, ns),
                 stopped |-> only, prevented |-> only, stage |-> "handlers", kind |-> "trigger"]
<1>1. dispatches' = Append(dispatches, d) /\ triggered' = triggered /\ undone' = undone
  BY DEF E!Trigger
<1>2. d.stage = "handlers" /\ (d.todo = <<>> \/ triggered # d.type)
  BY SnapshotDiscards
<1> HIDE DEF d
<1> QED
  BY <1>1, <1>2, BeginsDiscarded DEF EventInv

LEMMA NativeDiscarded ==
  ASSUME EventInv, DiscardOK, NEW e, NEW t, E!Native(e, t)
  PROVE  DiscardOK'
<1> DEFINE todo == IF t \in active[e] THEN E!Snapshot(e, t, {}) ELSE <<>>
           kind == IF dispatches # <<>> /\ E!Top.type = t /\ E!Top.target = e THEN "second" ELSE "native"
           d == [elem |-> e, target |-> e, type |-> t, ns |-> {}, todo |-> todo,
                 stopped |-> FALSE, prevented |-> FALSE, stage |-> "handlers", kind |-> kind]
<1>1. dispatches' = Append(dispatches, d) /\ triggered' = triggered /\ undone' = undone
  BY DEF E!Native
<1>2. todo = <<>> \/ triggered # t
  BY SnapshotDiscards, Zenon
<1> HIDE DEF todo, kind
<1>3. d.stage = "handlers" /\ (d.todo = <<>> \/ triggered # d.type)
  BY <1>2
<1> HIDE DEF d
<1> QED
  BY <1>1, <1>3, BeginsDiscarded DEF EventInv

LEMMA CallNextDiscarded ==
  ASSUME EventInv, DiscardOK, E!CallNext  PROVE DiscardOK'
<1> DEFINE d == [E!Top EXCEPT !.todo = Tail(@)]
<1>1. /\ dispatches # <<>> /\ E!Top.stage = "handlers" /\ E!Top.todo # <<>>
      /\ dispatches' = E!Put(d) /\ triggered' = triggered /\ undone' = undone
  BY DEF E!CallNext
<1>2. Tail(E!Top.todo) \in Seq(E!Handler)
  BY <1>1, TopIs, HeadTailProperties DEF EventInv
<1>3. d \in E!Dispatch /\ d.stage = "handlers" /\ d.type = E!Top.type
  BY <1>1, <1>2, TopIs DEF EventInv, E!Dispatch
<1> HIDE DEF d
<1> QED
  BY <1>1, <1>3, GoesOnDiscarded DEF EventInv

LEMMA ReturnDiscarded ==
  ASSUME EventInv, DiscardOK, NEW p \in BOOLEAN, NEW s \in BOOLEAN, NEW m \in BOOLEAN, E!Return(p, s, m)
  PROVE  DiscardOK'
<1> DEFINE todo == IF m THEN <<>> ELSE E!Top.todo
           d == [E!Top EXCEPT !.prevented = @ \/ p, !.stopped = @ \/ s, !.todo = todo]
<1>1. dispatches # <<>> /\ turn = "user" /\ dispatches' = E!Put(d) /\ triggered' = triggered /\ undone' = undone
  BY DEF E!Return
<1>2. E!Top.stage = "handlers"
  BY <1>1 DEF EventInv, StackOK
<1>3. todo \in Seq(E!Handler) /\ (todo = <<>> \/ E!Top.todo # <<>>)
  <2>1. E!Top.todo \in Seq(E!Handler) /\ <<>> \in Seq(E!Handler)
    BY <1>1, TopIs DEF EventInv
  <2> QED
    BY <2>1
<1> HIDE DEF todo
<1>4. (E!Top.prevented \/ p) \in BOOLEAN /\ (E!Top.stopped \/ s) \in BOOLEAN
  OBVIOUS
<1>5. d \in E!Dispatch /\ d.type = E!Top.type /\ d.stage = "handlers" /\ d.todo = todo
  BY <1>1, <1>2, <1>3, <1>4, TopIs DEF EventInv, E!Dispatch
<1> HIDE DEF d
<1> QED
  BY <1>1, <1>2, <1>3, <1>5, GoesOnDiscarded DEF EventInv

LEMMA BubbleDiscarded ==
  ASSUME EventInv, DiscardOK, E!Bubble  PROVE DiscardOK'
<1> DEFINE up == Parent[E!Top.elem]
           heard == E!Top.kind = "trigger" \/ E!Top.type \in active[up]
           todo == IF heard THEN E!Snapshot(up, E!Top.type, E!Top.ns) ELSE <<>>
           d == [E!Top EXCEPT !.elem = up, !.todo = todo]
<1>1. /\ dispatches # <<>> /\ E!Top.stage = "handlers" /\ up # "none"
      /\ triggered' = triggered /\ undone' = undone /\ dispatches' = E!Put(d)
  BY DEF E!Bubble, E!None
<1>2. up \in Elem
  BY <1>1, TopIs, EventAssumption DEF EventInv, E!ElemAssumption, E!None
<1>3. todo \in Seq(E!Handler)
  <2>1. E!Snapshot(up, E!Top.type, E!Top.ns) \in Seq(E!Handler)
    BY <1>1, <1>2, TopIs, SnapshotIs DEF EventInv
  <2>2. <<>> \in Seq(E!Handler)
    OBVIOUS
  <2> QED
    BY <2>1, <2>2
<1>4. todo = <<>> \/ triggered # E!Top.type
  BY SnapshotDiscards, Zenon
<1> HIDE DEF up, heard, todo
<1>5. d \in E!Dispatch /\ d.type = E!Top.type /\ d.stage = "handlers" /\ d.todo = todo
  BY <1>1, <1>2, <1>3, TopIs DEF EventInv, E!Dispatch
<1> HIDE DEF d
<1> QED
  BY <1>1, <1>4, <1>5, GoesOnDiscarded DEF EventInv

LEMMA EndDiscarded ==
  ASSUME EventInv, DiscardOK, E!End  PROVE DiscardOK'
<1>1. dispatches # <<>> /\ dispatches' = E!Below
  BY DEF E!End, E!AtEnd
<1>2. (triggered' = triggered /\ undone' = undone) \/ undone' = E!InAction
  BY Zenon DEF E!End
<1> QED
  BY <1>1, <1>2, IsOverDiscarded DEF EventInv

LEMMA ActedDiscarded ==
  ASSUME EventInv, DiscardOK, E!Acted  PROVE DiscardOK'
<1>1. dispatches # <<>> /\ dispatches' = E!Below /\ undone' = E!InAction
  BY DEF E!Acted
<1> QED
  BY <1>1, IsOverDiscarded DEF EventInv

LEMMA ThrowDiscarded ==
  ASSUME EventInv, DiscardOK, E!Throw  PROVE DiscardOK'
<1> DEFINE d == [E!Top EXCEPT !.todo = <<>>]
<1>1. dispatches # <<>> /\ turn = "user" /\ triggered' = triggered /\ undone' = undone
  BY DEF E!Throw
<1>2. E!Top.stage = "handlers"
  BY <1>1 DEF EventInv, StackOK
<1>3. CASE E!Top.kind = "trigger"
  <2>1. dispatches' = E!Below
    BY <1>3 DEF E!Throw
  <2> QED
    BY <1>1, <2>1, IsOverDiscarded DEF EventInv
<1>4. CASE E!Top.kind # "trigger"
  <2>1. dispatches' = E!Put(d)
    BY <1>4 DEF E!Throw
  <2>2. <<>> \in Seq(E!Handler)
    OBVIOUS
  <2>3. d \in E!Dispatch /\ d.type = E!Top.type /\ d.stage = "handlers" /\ d.todo = <<>>
    BY <1>1, <1>2, <2>2, TopIs DEF EventInv, E!Dispatch
  <2> HIDE DEF d
  <2> QED
    BY <1>1, <1>2, <2>1, <2>3, GoesOnDiscarded DEF EventInv
<1> QED
  BY <1>3, <1>4

\* What leaves the stack as it is.
LEMMA DiscardStays ==
  ASSUME DiscardOK, UNCHANGED <<triggered, undone, dispatches>>  PROVE DiscardOK'
BY DEF DiscardOK, Announced, E!SecondDiscarded

LEMMA DiscardStep ==
  ASSUME EventInv, DiscardOK, [E!Next]_(E!vars)  PROVE DiscardOK'
<1>1. CASE E!User
  <2>1. PICK e \in Elem :
          \/ \E t \in Type, h \in E!Handler : E!Add(e, t, h)
          \/ \E t \in Type, fs \in {Func} \union {{f} : f \in Func}, ns \in SUBSET Namespace : E!Unbind(e, {t}, fs, ns)
          \/ \E ns \in SUBSET Namespace : E!Unbind(e, Type, Func, ns)
          \/ \E t \in Type, ns \in SUBSET Namespace, only \in BOOLEAN : E!Trigger(e, t, ns, only)
    BY <1>1 DEF E!User
  <2>2. ASSUME NEW t \in Type, NEW h \in E!Handler, E!Add(e, t, h)  PROVE DiscardOK'
    <3>1. UNCHANGED <<triggered, undone, dispatches>>
      BY <2>2 DEF E!Add
    <3> QED
      BY <3>1, DiscardStays
  <2>3. ASSUME NEW ts, NEW fs, NEW ns, E!Unbind(e, ts, fs, ns)  PROVE DiscardOK'
    <3>1. UNCHANGED <<triggered, undone, dispatches>>
      BY <2>3 DEF E!Unbind
    <3> QED
      BY <3>1, DiscardStays
  <2>4. ASSUME NEW t \in Type, NEW ns \in SUBSET Namespace, NEW only \in BOOLEAN, E!Trigger(e, t, ns, only)
        PROVE  DiscardOK'
    BY <2>4, TriggerDiscarded
  <2> QED
    BY <2>1, <2>2, <2>3, <2>4
<1>2. CASE \E e \in Elem, t \in Type : E!Native(e, t)
  BY <1>2, NativeDiscarded
<1>3. CASE E!CallNext
  BY <1>3, CallNextDiscarded
<1>4. CASE E!Bubble
  BY <1>4, BubbleDiscarded
<1>5. CASE E!Act
  BY <1>5, ActDiscarded
<1>6. CASE E!End
  BY <1>6, EndDiscarded
<1>7. CASE E!Acted
  BY <1>7, ActedDiscarded
<1>8. CASE E!Throw
  BY <1>8, ThrowDiscarded
<1>9. CASE \E p, s, m \in BOOLEAN : E!Return(p, s, m)
  BY <1>9, ReturnDiscarded
<1>10. CASE UNCHANGED E!vars
  <2>1. UNCHANGED <<triggered, undone, dispatches>>
    BY <1>10 DEF E!vars
  <2> QED
    BY <2>1, DiscardStays
<1> QED
  BY <1>1, <1>2, <1>3, <1>4, <1>5, <1>6, <1>7, <1>8, <1>9, <1>10 DEF E!Next

LEMMA DiscardAlways == E!Spec => []DiscardOK
<1>1. E!Init => DiscardOK
  <2> SUFFICES ASSUME E!Init  PROVE DiscardOK
    OBVIOUS
  <2>1. undone = FALSE /\ dispatches = <<>> /\ Len(dispatches) = 0
    BY DEF E!Init
  <2>2. 1..Len(dispatches) = {}
    BY <2>1
  <2>3. undone \in BOOLEAN
    BY <2>1, Zenon
  <2> QED
    BY <2>2, <2>3, Zenon DEF DiscardOK, Announced, E!SecondDiscarded
<1>2. EventInv /\ DiscardOK /\ [E!Next]_(E!vars) => DiscardOK'
  BY DiscardStep
<1> QED
  BY <1>1, <1>2, EventInvAlways, PTL DEF E!Spec

\* The types of the variables of Events.
LEMMA EventTypes == E!Spec => []E!TypeOK
<1>1. EventInv /\ DiscardOK => E!TypeOK
  BY DEF EventInv, ListsOK, StackOK, DiscardOK, E!TypeOK, E!None
<1> QED
  BY <1>1, EventInvAlways, DiscardAlways, PTL

\* However handlers bind, unbind, trigger and throw while they run, on every tree of elements:
\* eventHandle is registered for exactly the types that have handlers, an element keeps data as
\* long as it has handlers and no longer, no event is discarded at rest, and what the browser
\* dispatches in a default action is not handled again, unless another trigger that came about in
\* it took triggered away (2550-2900).
THEOREM HandlersAreHeard == E!Spec => []Listening
<1>1. EventInv => E!NothingDiscarded
  <2> SUFFICES ASSUME EventInv, dispatches = <<>>  PROVE triggered = "none"
    BY DEF E!NothingDiscarded, E!None
  <2>1. Len(dispatches) = 0
    OBVIOUS
  <2> QED
    BY <2>1 DEF EventInv, StackOK
<1>2. DiscardOK => E!SecondDiscarded
  BY DEF DiscardOK, E!SecondDiscarded
<1>3. EventInv /\ DiscardOK => Listening
  BY <1>1, <1>2 DEF EventInv, ListsOK, Listening
<1> QED
  BY <1>3, EventInvAlways, DiscardAlways, PTL

-----------------------------------------------------------------------------
\* Queues.  s is an array of a queue that holds functions up to n: the sentinel comes first.
Holds(s, n) == /\ s \in Seq(0..MaxQueued)
               /\ \A i \in 1..Len(s) : s[i] <= n /\ (i # 1 => s[i] # 0)
Heap(h, n) == h \in Seq(Seq(0..MaxQueued)) /\ \A a \in 1..Len(h) : Holds(h[a], n)

QueueTypes ==
  /\ fx \in BOOLEAN /\ early \in BOOLEAN /\ queued \in 0..MaxQueued
  /\ Heap(arrays, queued) /\ Len(arrays) <= MaxArrays /\ queue \in 0..Len(arrays)
  /\ calls \in Seq(Q!Call)
  /\ running \subseteq ran /\ ran \subseteq 1..queued /\ cleared \subseteq 1..queued

PromisesOK ==
  /\ mark \in Nat /\ made \in 0..MaxPromises /\ defer \in 0..made /\ resolved \subseteq 1..made
  /\ checks \in Seq(1..made) /\ Q!Notified

\* Unless a function clears or dequeues while dequeue is still calling it, dequeue is called only
\* at rest, and the array that it looks at in the end is the one that the data hold.
OwnArray == ~early /\ calls # <<>> => Len(calls) = 1 /\ queue # 0 /\ queue = calls[1].array

QueueInv == QueueTypes /\ PromisesOK /\ Q!Attended /\ Q!NothingLost /\ OwnArray

\* What an array holds.
LEMMA RangeIs ==
  ASSUME NEW S, NEW s \in Seq(S), NEW f
  PROVE  f \in Q!Range(s) <=> \E i \in 1..Len(s) : s[i] = f
BY DEF Q!Range

\* What waits in an array is all that it holds but the sentinel.
LEMMA WaitingIs ==
  ASSUME NEW n \in 0..MaxQueued, NEW s, Holds(s, n)
  PROVE  /\ Q!Waiting(s) \in Seq(1..n)
         /\ \A f \in 1..n : f \in Q!Range(s) => f \in Q!Range(Q!Waiting(s))
         /\ Q!Waiting(s) = s => s = <<>> \/ Head(s) # 0
<1> DEFINE w == Q!Waiting(s)
<1>1. s \in Seq(0..MaxQueued) /\ Len(s) \in Nat /\ n \in Nat /\ \A i \in 1..Len(s) : s[i] \in Nat
  BY QueueAssumption DEF Holds, Q!BoundAssumption
<1>2. CASE s # <<>> /\ Head(s) = 0
  <2>1. w = Tail(s)
    BY <1>2, Zenon DEF Q!Waiting, Q!InProgress
  <2>2. /\ Tail(s) \in Seq(0..MaxQueued) /\ Len(Tail(s)) = Len(s) - 1
        /\ \A i \in 1..Len(Tail(s)) : Tail(s)[i] = s[i + 1]
    BY <1>1, <1>2, HeadTailProperties
  <2>3. s[1] = 0 /\ Len(s) \in Nat \ {0}
    BY <1>1, <1>2
  <2> HIDE DEF w
  <2>4. w \in Seq(0..MaxQueued) /\ Len(w) = Len(s) - 1 /\ \A i \in 1..Len(w) : w[i] = s[i + 1]
    BY <2>1, <2>2
  <2>5. \A i \in 1..Len(w) : w[i] \in 1..n
    <3> SUFFICES ASSUME NEW i \in 1..Len(w)  PROVE w[i] \in 1..n
      OBVIOUS
    <3>1. i + 1 \in 1..Len(s) /\ i + 1 # 1
      BY <1>1, <2>3, <2>4
    <3>2. s[i + 1] <= n /\ s[i + 1] # 0 /\ s[i + 1] \in Nat
      BY <1>1, <3>1 DEF Holds
    <3> QED
      BY <1>1, <2>4, <3>2
  <2>6. w \in Seq(1..n)
    BY <2>4, <2>5
  <2>7. ASSUME NEW f \in 1..n, f \in Q!Range(s)  PROVE f \in Q!Range(w)
    <3>1. PICK i \in 1..Len(s) : s[i] = f
      BY <1>1, <2>7, RangeIs
    <3>2. i # 1 /\ i - 1 \in 1..Len(w) /\ (i - 1) + 1 = i
      BY <1>1, <2>3, <2>4, <3>1
    <3>3. w[i - 1] = f
      BY <2>4, <3>1, <3>2
    <3> QED
      BY <2>6, <3>2, <3>3, RangeIs
  <2>8. w # s
    BY <1>1, <2>3, <2>4
  <2> QED
    BY <2>6, <2>7, <2>8 DEF w
<1>3. CASE s = <<>> \/ Head(s) # 0
  <2>1. w = s
    BY <1>3, Zenon DEF Q!Waiting, Q!InProgress
  <2>2. \A i \in 1..Len(s) : s[i] \in 1..n
    <3> SUFFICES ASSUME NEW i \in 1..Len(s)  PROVE s[i] \in 1..n
      OBVIOUS
    <3>1. s # <<>> /\ Head(s) = s[1]
      BY <1>1
    <3>2. s[i] # 0 /\ s[i] <= n
      BY <1>3, <3>1 DEF Holds
    <3> QED
      BY <1>1, <3>2
  <2>3. s \in Seq(1..n)
    BY <1>1, <2>2
  <2> HIDE DEF w
  <2> QED
    BY <1>3, <2>1, <2>3 DEF w
<1> QED
  BY <1>2, <1>3

\* What is left of an array when its first function is called.
LEMMA RestIs ==
  ASSUME NEW n \in 0..MaxQueued, NEW w \in Seq(1..n), w # <<>>,
         NEW r, r = IF fx THEN << 0 >> \o Tail(w) ELSE Tail(w)
  PROVE  /\ Holds(r, n) /\ Head(w) \in 1..n
         /\ fx => r # <<>> /\ Head(r) = 0
         /\ \A f \in 1..n : f \in Q!Range(w) => f = Head(w) \/ f \in Q!Range(r)
<1> DEFINE t == Tail(w)
<1>1. /\ t \in Seq(1..n) /\ Len(t) = Len(w) - 1 /\ (\A i \in 1..Len(t) : t[i] = w[i + 1])
      /\ Head(w) \in 1..n /\ Head(w) = w[1]
  BY HeadTailProperties
<1>2. r = IF fx THEN <<0>> \o t ELSE t
  OBVIOUS
<1> HIDE DEF t
<1>3. n \in Nat /\ MaxQueued \in Nat /\ n <= MaxQueued /\ Len(w) \in Nat \ {0} /\ Len(t) \in Nat
  BY <1>1, QueueAssumption DEF Q!BoundAssumption
<1>4. \A i \in 1..Len(t) : t[i] \in 1..n /\ t[i] \in 0..MaxQueued /\ t[i] # 0 /\ t[i] <= n
  <2> SUFFICES ASSUME NEW i \in 1..Len(t)
               PROVE t[i] \in 1..n /\ t[i] \in 0..MaxQueued /\ t[i] # 0 /\ t[i] <= n
    OBVIOUS
  <2>1. t[i] \in 1..n
    BY <1>1, ElementOfSeq
  <2> QED
    BY <1>3, <2>1
<1>5. \A f \in 1..n : f \in Q!Range(w) => f = Head(w) \/ \E i \in 1..Len(t) : t[i] = f
  <2> SUFFICES ASSUME NEW f \in 1..n, f \in Q!Range(w), f # Head(w)  PROVE \E i \in 1..Len(t) : t[i] = f
    OBVIOUS
  <2>1. PICK i \in 1..Len(w) : w[i] = f
    BY RangeIs
  <2>2. i - 1 \in 1..Len(t) /\ (i - 1) + 1 = i
    BY <1>1, <1>3, <2>1
  <2>3. t[i - 1] = f
    BY <1>1, <2>1, <2>2
  <2> QED
    BY <2>2, <2>3
<1>6. t \in Seq(0..MaxQueued)
  <2>1. 1..n \subseteq 0..MaxQueued
    BY <1>3
  <2> QED
    BY <1>1, <2>1, SeqMonotonic
<1>7. CASE ~fx
  <2>1. r = t
    BY <1>2, <1>7
  <2>2. Holds(r, n)
    BY <1>4, <1>6, <2>1 DEF Holds
  <2> QED
    BY <1>1, <1>5, <1>6, <1>7, <2>1, <2>2, RangeIs
<1>8. CASE fx
  <2>1. r = <<0>> \o t
    BY <1>2, <1>8
  <2>2. <<0>> \in Seq(0..MaxQueued) /\ Len(<<0>>) = 1 /\ <<0>>[1] = 0
    BY <1>3
  <2>3. /\ r \in Seq(0..MaxQueued) /\ Len(r) = 1 + Len(t) /\ r[1] = 0
        /\ \A i \in 1..Len(t) : r[i + 1] = t[i]
    <3> DEFINE z == <<0>>
    <3>1. z \in Seq(0..MaxQueued) /\ Len(z) = 1 /\ z[1] = 0 /\ r = z \o t
      BY <2>1, <2>2
    <3> HIDE DEF z
    <3>2. /\ z \o t \in Seq(0..MaxQueued) /\ Len(z \o t) = Len(z) + Len(t)
          /\ \A i \in 1..Len(z) + Len(t) : (z \o t)[i] = IF i <= Len(z) THEN z[i] ELSE t[i - Len(z)]
      BY <1>6, <3>1, ConcatProperties
    <3>3. \A i \in 1..1 + Len(t) : r[i] = IF i <= 1 THEN z[i] ELSE t[i - 1]
      BY <3>1, <3>2
    <3>4. r[1] = 0
      <4>1. 1 \in 1..1 + Len(t) /\ 1 <= 1
        BY <1>3
      <4> QED
        BY <3>1, <3>3, <4>1
    <3>5. ASSUME NEW i \in 1..Len(t)  PROVE r[i + 1] = t[i]
      <4>1. i + 1 \in 1..1 + Len(t) /\ ~(i + 1 <= 1) /\ (i + 1) - 1 = i
        BY <1>3
      <4> QED
        BY <3>3, <4>1
    <3> QED
      BY <3>1, <3>2, <3>4, <3>5
  <2>4. \A i \in 1..Len(r) : i = 1 \/ (i - 1 \in 1..Len(t) /\ r[i] = t[i - 1])
    <3> SUFFICES ASSUME NEW i \in 1..Len(r), i # 1  PROVE i - 1 \in 1..Len(t) /\ r[i] = t[i - 1]
      OBVIOUS
    <3>1. i - 1 \in 1..Len(t) /\ (i - 1) + 1 = i
      BY <1>3, <2>3
    <3> QED
      BY <2>3, <3>1
  <2>5. \A i \in 1..Len(r) : r[i] <= n /\ (i # 1 => r[i] # 0)
    <3> SUFFICES ASSUME NEW i \in 1..Len(r)  PROVE r[i] <= n /\ (i # 1 => r[i] # 0)
      OBVIOUS
    <3>1. CASE i = 1
      BY <1>3, <2>3, <3>1
    <3>2. CASE i # 1
      BY <1>4, <2>4, <3>2
    <3> QED
      BY <3>1, <3>2
  <2>6. Holds(r, n)
    BY <2>3, <2>5 DEF Holds
  <2>7. r # <<>> /\ Head(r) = 0
    BY <1>3, <2>3
  <2>8. ASSUME NEW f \in 1..n, f \in Q!Range(w), f # Head(w)  PROVE f \in Q!Range(r)
    <3>1. PICK i \in 1..Len(t) : t[i] = f
      BY <1>5, <2>8
    <3>2. r[i + 1] = f
      BY <2>3, <3>1
    <3>3. i + 1 \in 1..Len(r)
      <4>1. i \in Nat /\ i >= 1 /\ i <= Len(t) /\ Len(r) = 1 + Len(t)
        BY <1>3, <2>3
      <4> QED
        BY <1>3, <4>1
    <3> QED
      BY <2>3, <3>2, <3>3, RangeIs
  <2> QED
    BY <1>1, <2>6, <2>7, <2>8
<1> QED
  BY <1>7, <1>8

\* A timer is left when the queue's data go, if no mark is there.
LEMMA ChecksKept ==
  ASSUME PromisesOK, UNCHANGED <<made, defer, resolved, mark>>,
         \/ queue' = 0 /\ Q!HandleQueueMarkDefer(mark = 0)
         \/ checks' = checks /\ (queue' # 0 \/ queue' = queue)
  PROVE  PromisesOK'
<1>1. CASE checks' = checks /\ (queue' # 0 \/ queue' = queue)
  <2>1. Q!Notified'
    BY <1>1 DEF PromisesOK, Q!Notified, Q!Range
  <2> QED
    BY <1>1, <2>1 DEF PromisesOK
<1>2. CASE queue' = 0 /\ Q!HandleQueueMarkDefer(mark = 0)
  <2>1. CASE defer # 0 /\ mark = 0
    <3>1. checks' = Append(checks, defer)
      BY <1>2, <2>1 DEF Q!HandleQueueMarkDefer
    <3>2. checks \in Seq(1..made) /\ defer \in 1..made
      BY <2>1 DEF PromisesOK
    <3>3. checks' \in Seq(1..made) /\ Len(checks') = Len(checks) + 1 /\ checks'[Len(checks) + 1] = defer
      BY <3>1, <3>2, AppendProperties
    <3>4. Len(checks) + 1 \in 1..Len(checks')
      BY <3>2, <3>3
    <3>5. defer \in Q!Range(checks')
      BY <3>3, <3>4, RangeIs
    <3>6. Q!Notified'
      BY <3>5 DEF Q!Notified, Q!Range
    <3> QED
      BY <3>3, <3>6 DEF PromisesOK
  <2>2. CASE ~(defer # 0 /\ mark = 0)
    <3>1. checks' = checks
      BY <1>2, <2>2 DEF Q!HandleQueueMarkDefer
    <3>2. Q!Notified'
      BY <2>2 DEF Q!Notified
    <3> QED
      BY <3>1, <3>2 DEF PromisesOK
  <2> QED
    BY <2>1, <2>2
<1> QED
  BY <1>1, <1>2

\* An array put in anew.
LEMMA HeapPut ==
  ASSUME NEW n \in Nat, NEW h, Heap(h, n), NEW a \in 1..Len(h), NEW r, Holds(r, n),
         NEW g, g = [h EXCEPT ![a] = r]
  PROVE  Heap(g, n) /\ Len(g) = Len(h) /\ g[a] = r /\ \A b \in 1..Len(h) : b # a => g[b] = h[b]
<1>1. h \in Seq(Seq(0..MaxQueued)) /\ r \in Seq(0..MaxQueued)
  BY DEF Heap, Holds
<1>2. g \in Seq(Seq(0..MaxQueued)) /\ Len(g) = Len(h) /\ \A b \in 1..Len(h) : g[b] = IF b = a THEN r ELSE h[b]
  BY <1>1, ExceptSeq
<1>3. \A b \in 1..Len(g) : Holds(g[b], n)
  BY <1>2 DEF Heap
<1> QED
  BY <1>2, <1>3 DEF Heap

LEMMA EmptyHolds ==
  ASSUME NEW n  PROVE Holds(<<>>, n)
BY DEF Holds

\* What dequeue, or queue, of array a among h leads to, when functions up to n are queued.
After(h, a, n) ==
  /\ Heap(arrays', n) /\ Len(arrays') = Len(h) /\ queue' \in 0..Len(h)
  /\ running' \subseteq ran' /\ ran' \subseteq 1..n /\ ran \subseteq ran'
  /\ fx /\ queue' # 0 => arrays'[queue'] # <<>> /\ Head(arrays'[queue']) = 0 /\ running' # {}
  /\ \/ queue' = 0 /\ Q!HandleQueueMarkDefer(mark = 0)
     \/ queue' # 0 /\ checks' = checks
  /\ \/ calls' = calls
     \/ queue' # 0 /\ \E d \in Q!Call : d.array = queue' /\ calls' = Append(calls, d)
  /\ \A f \in 1..n : a # 0 /\ f \in Q!Range(h[a]) => f \in ran' \/ (queue' # 0 /\ f \in Q!Range(arrays'[queue']))

\* jQuery.dequeue.
LEMMA DequeueIs ==
  ASSUME fx \in BOOLEAN, NEW n \in 0..MaxQueued, NEW h, Heap(h, n), Len(h) <= MaxArrays, NEW a \in 0..Len(h),
         NEW live, live \subseteq ran, ran \subseteq 1..n, calls \in Seq(Q!Call), Q!Dequeue(h, a, live)
  PROVE  After(h, a, n)
<1> DEFINE w == IF a = 0 THEN <<>> ELSE Q!Waiting(h[a])
<1>1. n \in Nat /\ MaxQueued \in Nat /\ n <= MaxQueued /\ Len(h) \in Nat /\ MaxArrays \in Nat
  BY QueueAssumption DEF Heap, Q!BoundAssumption
<1>2. a # 0 => a \in 1..Len(h) /\ Holds(h[a], n)
  BY <1>1 DEF Heap
<1>3. w \in Seq(1..n) /\ (a # 0 => \A f \in 1..n : f \in Q!Range(h[a]) => f \in Q!Range(w))
  <2>1. CASE a = 0
    BY <2>1
  <2>2. CASE a # 0
    BY <1>2, <2>2, WaitingIs
  <2> QED
    BY <2>1, <2>2
<1>4. CASE w = <<>>
  <2>1. /\ arrays' = IF a = 0 THEN h ELSE [h EXCEPT ![a] = <<>>]
        /\ queue' = 0 /\ Q!HandleQueueMarkDefer(mark = 0) /\ running' = live /\ calls' = calls /\ ran' = ran
    BY <1>4 DEF Q!Dequeue, Q!Emptied
  <2>2. Heap(arrays', n) /\ Len(arrays') = Len(h)
    <3>1. CASE a = 0
      BY <2>1, <3>1
    <3>2. CASE a # 0
      <4>1. a \in 1..Len(h) /\ Holds(<<>>, n) /\ arrays' = [h EXCEPT ![a] = <<>>]
        BY <1>2, <2>1, <3>2, EmptyHolds
      <4> QED
        <5>1. Heap(arrays', n)
          BY <1>1, <4>1, HeapPut
        <5>2. Len(arrays') = Len(h)
          BY <1>1, <4>1, HeapPut
        <5> QED
          BY <5>1, <5>2
    <3> QED
      BY <3>1, <3>2
  <2>3. \A f \in 1..n : f \notin Q!Range(<<>>)
    BY DEF Q!Range
  <2> HIDE DEF w
  <2>4. a # 0 => \A f \in 1..n : f \notin Q!Range(h[a])
    BY <1>3, <1>4, <2>3
  <2> QED
    BY <1>1, <2>1, <2>2, <2>4 DEF After
<1>5. CASE w # <<>>
  <2> DEFINE r == IF fx THEN <<0>> \o Tail(w) ELSE Tail(w)
             d == [array |-> a, function |-> Head(w)]
  <2>1. a # 0
    BY <1>5
  <2>2. /\ arrays' = [h EXCEPT ![a] = r] /\ queue' = a /\ calls' = Append(calls, d)
        /\ running' = live \union {Head(w)} /\ ran' = ran \union {Head(w)} /\ checks' = checks
    BY <1>5 DEF Q!Dequeue, Q!InProgress
  <2> HIDE DEF w
  <2>3. /\ Holds(r, n) /\ Head(w) \in 1..n /\ (fx => r # <<>> /\ Head(r) = 0)
        /\ \A f \in 1..n : f \in Q!Range(w) => f = Head(w) \/ f \in Q!Range(r)
    BY <1>3, <1>5, RestIs
  <2> HIDE DEF r
  <2>4. Heap(arrays', n) /\ Len(arrays') = Len(h) /\ arrays'[a] = r
    <3>1. a \in 1..Len(h) /\ Holds(r, n) /\ arrays' = [h EXCEPT ![a] = r]
      BY <1>2, <2>1, <2>2, <2>3
    <3> QED
      <4>1. Heap(arrays', n)
        BY <1>1, <3>1, HeapPut
      <4>2. Len(arrays') = Len(h)
        BY <1>1, <3>1, HeapPut
      <4>3. arrays'[a] = r
        BY <3>1 DEF Heap
      <4> QED
        BY <4>1, <4>2, <4>3
  <2>5. d \in Q!Call /\ d.array = queue'
    <3>1. a \in 0..MaxArrays /\ Head(w) \in 1..MaxQueued
      BY <1>1, <2>3
    <3> QED
      BY <2>2, <3>1 DEF Q!Call, Q!Function
  <2>6. \A f \in 1..n : f \in Q!Range(h[a]) => f \in ran' \/ f \in Q!Range(arrays'[queue'])
    BY <1>3, <2>1, <2>2, <2>3, <2>4
  <2>7. running' \subseteq ran' /\ ran' \subseteq 1..n /\ ran \subseteq ran' /\ running' # {}
    BY <2>2, <2>3
  <2>8. fx => arrays'[queue'] # <<>> /\ Head(arrays'[queue']) = 0
    BY <2>2, <2>3, <2>4
  <2> HIDE DEF d
  <2> QED
    BY <2>1, <2>2, <2>4, <2>5, <2>6, <2>7, <2>8 DEF After
<1> QED
  BY <1>4, <1>5

\* What fn.queue does when the array is there.
LEMMA QueuedIs ==
  ASSUME fx \in BOOLEAN, NEW n \in 0..MaxQueued, NEW h, Heap(h, n), Len(h) <= MaxArrays, NEW a \in 1..Len(h),
         running \subseteq ran, ran \subseteq 1..n, calls \in Seq(Q!Call), Q!Queued(h, a),
         fx /\ h[a] # <<>> /\ Head(h[a]) = 0 => running # {}
  PROVE  /\ After(h, a, n)
         /\ ~fx \/ (h[a] # <<>> /\ Head(h[a]) = 0) => calls' = calls /\ queue' = a
<1>1. Holds(h[a], n) /\ Len(h) \in Nat /\ a \in 0..Len(h) /\ a # 0
  BY DEF Heap
<1>2. Q!Waiting(h[a]) = IF h[a] # <<>> /\ Head(h[a]) = 0 THEN Tail(h[a]) ELSE h[a]
  BY DEF Q!Waiting, Q!InProgress
<1>3. Q!Waiting(h[a]) = h[a] => h[a] = <<>> \/ Head(h[a]) # 0
  BY <1>1, WaitingIs
<1>4. CASE fx /\ Q!Waiting(h[a]) = h[a]
  <2>1. Q!Dequeue(h, a, running)
    BY <1>4 DEF Q!Queued
  <2>2. After(h, a, n)
    BY <1>1, <2>1, DequeueIs
  <2> QED
    BY <1>3, <1>4, <2>2
<1>5. CASE ~(fx /\ Q!Waiting(h[a]) = h[a])
  <2>1. arrays' = h /\ queue' = a /\ calls' = calls /\ running' = running /\ ran' = ran /\ checks' = checks
    BY <1>5 DEF Q!Queued
  <2>2. fx => h[a] # <<>> /\ Head(h[a]) = 0
    BY <1>2, <1>5
  <2>3. After(h, a, n)
    BY <1>1, <2>1, <2>2 DEF After
  <2> QED
    BY <2>1, <2>3
<1> QED
  BY <1>4, <1>5

\* Arrays as more functions are queued, and with one more array.
LEMMA HeapGrows ==
  ASSUME NEW n \in 0..MaxQueued, n + 1 \in 0..MaxQueued, NEW h, Heap(h, n)
  PROVE  Heap(h, n + 1)
<1>1. \A a \in 1..Len(h) : Holds(h[a], n + 1)
  <2> SUFFICES ASSUME NEW a \in 1..Len(h)  PROVE Holds(h[a], n + 1)
    OBVIOUS
  <2>1. Holds(h[a], n) /\ n \in Nat /\ MaxQueued \in Nat
    BY QueueAssumption DEF Heap, Q!BoundAssumption
  <2> DEFINE s == h[a]
  <2> HIDE DEF s
  <2>2. Holds(s, n)
    BY <2>1 DEF s
  <2>3. s \in Seq(0..MaxQueued)
    BY <2>2 DEF Holds
  <2>4. ASSUME NEW i \in 1..Len(s)  PROVE s[i] <= n + 1 /\ (i # 1 => s[i] # 0)
    <3>1. s[i] \in 0..MaxQueued
      BY <2>3, ElementOfSeq
    <3>2. s[i] <= n /\ (i # 1 => s[i] # 0)
      BY <2>2 DEF Holds
    <3> QED
      BY <2>1, <3>1, <3>2
  <2>5. Holds(s, n + 1)
    BY <2>3, <2>4 DEF Holds
  <2> QED
    BY <2>5 DEF s
<1> QED
  BY <1>1 DEF Heap

LEMMA HeapAppend ==
  ASSUME NEW n, NEW h, Heap(h, n), NEW r, Holds(r, n), NEW g, g = Append(h, r)
  PROVE  /\ Heap(g, n) /\ Len(g) = Len(h) + 1 /\ g[Len(h) + 1] = r /\ Len(h) \in Nat
         /\ \A a \in 1..Len(h) : g[a] = h[a]
<1>1. h \in Seq(Seq(0..MaxQueued)) /\ r \in Seq(0..MaxQueued)
  BY DEF Heap, Holds
<1>2. /\ g \in Seq(Seq(0..MaxQueued)) /\ Len(g) = Len(h) + 1 /\ g[Len(h) + 1] = r
      /\ \A a \in 1..Len(h) : g[a] = h[a]
  BY <1>1, AppendProperties
<1>3. \A a \in 1..Len(g) : a \in 1..Len(h) \/ a = Len(h) + 1
  BY <1>1, <1>2
<1>4. \A a \in 1..Len(g) : Holds(g[a], n)
  BY <1>2, <1>3 DEF Heap
<1> QED
  BY <1>1, <1>2, <1>4 DEF Heap

LEMMA HoldsAppend ==
  ASSUME NEW n \in 0..MaxQueued, n + 1 \in 0..MaxQueued, NEW s, Holds(s, n), NEW r, r = Append(s, n + 1)
  PROVE  /\ Holds(r, n + 1) /\ (s # <<>> => r # <<>> /\ Head(r) = Head(s))
         /\ n + 1 \in Q!Range(r) /\ \A f : f \in Q!Range(s) => f \in Q!Range(r)
<1>1. s \in Seq(0..MaxQueued) /\ n \in Nat /\ Len(s) \in Nat /\ MaxQueued \in Nat
  BY QueueAssumption DEF Holds, Q!BoundAssumption
<1>2. /\ r \in Seq(0..MaxQueued) /\ Len(r) = Len(s) + 1 /\ r[Len(s) + 1] = n + 1
      /\ \A i \in 1..Len(s) : r[i] = s[i]
  BY <1>1, AppendProperties
<1>3. \A i \in 1..Len(r) : i \in 1..Len(s) \/ i = Len(s) + 1
  BY <1>1, <1>2
<1>4. \A i \in 1..Len(s) : s[i] \in Nat /\ s[i] <= n + 1 /\ (i # 1 => s[i] # 0) /\ i \in 1..Len(r)
  <2> SUFFICES ASSUME NEW i \in 1..Len(s)
      PROVE  s[i] \in Nat /\ s[i] <= n + 1 /\ (i # 1 => s[i] # 0) /\ i \in 1..Len(r)
    OBVIOUS
  <2>1. s[i] \in Nat /\ s[i] <= n /\ (i # 1 => s[i] # 0)
    <3>1. s[i] \in 0..MaxQueued
      BY <1>1, ElementOfSeq
    <3>2. s[i] <= n /\ (i # 1 => s[i] # 0)
      BY DEF Holds
    <3> QED
      BY <3>1, <3>2
  <2> QED
    BY <1>1, <1>2, <2>1
<1>5. \A i \in 1..Len(r) : r[i] <= n + 1 /\ (i # 1 => r[i] # 0)
  <2> SUFFICES ASSUME NEW i \in 1..Len(r)  PROVE r[i] <= n + 1 /\ (i # 1 => r[i] # 0)
    OBVIOUS
  <2>1. CASE i \in 1..Len(s)
    BY <1>2, <1>4, <2>1
  <2>2. CASE i = Len(s) + 1
    BY <1>1, <1>2, <2>2
  <2> QED
    BY <1>3, <2>1, <2>2
<1>6. Holds(r, n + 1)
  BY <1>2, <1>5 DEF Holds
<1>7. Len(s) + 1 \in 1..Len(r)
  BY <1>1, <1>2
<1>8. n + 1 \in Q!Range(r)
  BY <1>2, <1>7, RangeIs
<1>9. \A f : f \in Q!Range(s) => f \in Q!Range(r)
  <2> SUFFICES ASSUME NEW f, f \in Q!Range(s)  PROVE f \in Q!Range(r)
    OBVIOUS
  <2>1. PICK i \in 1..Len(s) : s[i] = f
    BY <1>1, RangeIs
  <2> QED
    BY <1>2, <1>4, <2>1, RangeIs
<1>10. s # <<>> => r # <<>> /\ Head(r) = Head(s)
  <2> SUFFICES ASSUME s # <<>>  PROVE r # <<>> /\ Head(r) = Head(s)
    OBVIOUS
  <2>1. 1 \in 1..Len(s) /\ Len(r) # 0
    BY <1>1, <1>2
  <2>2. r # <<>> /\ Head(r) = r[1] /\ Head(s) = s[1]
    BY <1>1, <1>2, <2>1
  <2> QED
    BY <1>2, <2>1, <2>2
<1> QED
  BY <1>6, <1>8, <1>9, <1>10

\* The invariant after queue and dequeue.
LEMMA AfterSafe ==
  ASSUME QueueInv, NEW n \in 0..MaxQueued, NEW h, NEW a, After(h, a, n), Len(h) <= MaxArrays,
         queued' = n, cleared' \in SUBSET (1..n), fx' = fx, early' \in BOOLEAN,
         UNCHANGED <<mark, defer, made, resolved>>,
         ~early' => calls = <<>> \/ (~early /\ calls' = calls /\ queue' = queue),
         ~early' => \A f \in 1..n : f \in ran \union cleared' \/ (a # 0 /\ f \in Q!Range(h[a]))
  PROVE  QueueInv'
<1>1. calls \in Seq(Q!Call) /\ calls' \in Seq(Q!Call)
  <2>1. calls \in Seq(Q!Call)
    BY DEF QueueInv, QueueTypes
  <2>2. ASSUME NEW d \in Q!Call  PROVE Append(calls, d) \in Seq(Q!Call)
    BY <2>1, AppendProperties
  <2> QED
    BY <2>1, <2>2 DEF After
<1>2. QueueTypes'
  <2>1. fx' \in BOOLEAN
    BY DEF QueueInv, QueueTypes
  <2> QED
    BY <1>1, <2>1 DEF After, QueueTypes
<1>3. PromisesOK'
  BY ChecksKept DEF QueueInv, After
<1>4. Q!Attended'
  BY DEF Q!Attended, Q!InProgress, After
<1>5. Q!NothingLost'
  BY DEF Q!NothingLost, After, Q!Range
<1>6. OwnArray'
  <2> SUFFICES ASSUME ~early', calls' # <<>>  PROVE Len(calls') = 1 /\ queue' # 0 /\ queue' = calls'[1].array
    BY DEF OwnArray
  <2>1. CASE calls' = calls
    BY <2>1 DEF QueueInv, OwnArray
  <2>2. CASE calls' # calls
    <3>1. calls = <<>>
      BY <2>2
    <3>2. PICK d \in Q!Call : queue' # 0 /\ d.array = queue' /\ calls' = Append(calls, d)
      BY <2>2 DEF After
    <3>3. Len(calls) = 0 /\ Len(calls') = Len(calls) + 1 /\ calls'[Len(calls) + 1] = d
      BY <1>1, <3>1, <3>2, AppendProperties
    <3> QED
      BY <3>2, <3>3
  <2> QED
    BY <2>1, <2>2
<1> QED
  BY <1>2, <1>3, <1>4, <1>5, <1>6 DEF QueueInv

LEMMA QueuesInitially == Q!Init => QueueInv
<1> SUFFICES ASSUME Q!Init PROVE QueueInv
  OBVIOUS
<1>1. /\ fx \in BOOLEAN /\ early = FALSE /\ arrays = <<>> /\ queue = 0 /\ calls = <<>>
      /\ queued = 0 /\ running = {} /\ ran = {} /\ cleared = {}
      /\ mark = 0 /\ defer = 0 /\ made = 0 /\ resolved = {} /\ checks = <<>>
  BY DEF Q!Init
<1>2. MaxQueued \in Nat /\ MaxPromises \in Nat /\ MaxArrays \in Nat
  BY QueueAssumption DEF Q!BoundAssumption
<1>3. Heap(arrays, queued) /\ Len(arrays) = 0
  BY <1>1 DEF Heap
<1>4. QueueTypes
  <2>1. queue \in 0..Len(arrays) /\ queued \in 0..MaxQueued /\ Len(arrays) <= MaxArrays
    BY <1>1, <1>2, <1>3
  <2>2. calls \in Seq(Q!Call) /\ running \subseteq ran /\ ran \subseteq 1..queued /\ cleared \subseteq 1..queued
    BY <1>1
  <2> QED
    BY <1>1, <1>3, <2>1, <2>2 DEF QueueTypes
<1>5. checks \in Seq(1..made)
  BY <1>1
<1>6. PromisesOK
  BY <1>1, <1>2, <1>5 DEF PromisesOK, Q!Notified
<1>7. Q!Attended /\ Q!NothingLost /\ OwnArray
  BY <1>1 DEF Q!Attended, Q!NothingLost, OwnArray
<1> QED
  BY <1>4, <1>6, <1>7 DEF QueueInv

LEMMA QueueSafe ==
  ASSUME QueueInv, Q!Queue  PROVE QueueInv'
<1> DEFINE n == queued + 1
<1>1. /\ fx \in BOOLEAN /\ queued \in 0..MaxQueued /\ Heap(arrays, queued) /\ Len(arrays) <= MaxArrays
      /\ queue \in 0..Len(arrays) /\ calls \in Seq(Q!Call) /\ running \subseteq ran /\ ran \subseteq 1..queued
      /\ cleared \subseteq 1..queued /\ Q!Attended /\ Q!NothingLost /\ OwnArray /\ early \in BOOLEAN
  BY DEF QueueInv, QueueTypes
<1>2. /\ queued < MaxQueued /\ (queue # 0 \/ Len(arrays) < MaxArrays) /\ queued' = n
      /\ IF queue = 0 THEN Q!Queued(Append(arrays, <<n>>), Len(arrays) + 1)
         ELSE Q!Queued([arrays EXCEPT ![queue] = Append(@, n)], queue)
      /\ fx' = fx /\ early' = early /\ cleared' = cleared /\ UNCHANGED <<mark, defer, made, resolved>>
  BY DEF Q!Queue, Q!promises
<1>3. MaxQueued \in Nat /\ MaxArrays \in Nat /\ n \in 0..MaxQueued /\ n \in Nat /\ n \in 1..n
  BY <1>1, <1>2, QueueAssumption DEF Q!BoundAssumption
<1>4. \A f \in 1..n : f \in 1..queued \/ f = n
  BY <1>1
<1>5. Heap(arrays, n) /\ Len(arrays) \in Nat /\ ran \subseteq 1..n /\ cleared \in SUBSET (1..n)
  <2>1. Heap(arrays, n)
    BY <1>1, <1>3, HeapGrows
  <2>2. 1..queued \subseteq 1..n
    BY <1>1, <1>3
  <2> QED
    BY <1>1, <2>1, <2>2 DEF Heap
<1> HIDE DEF n
<1>6. ~early => \A f \in 1..queued : f \in ran \union cleared \/ (queue # 0 /\ f \in Q!Range(arrays[queue]))
  BY <1>1 DEF Q!NothingLost
<1>7. CASE queue = 0
  <2> DEFINE h == Append(arrays, <<n>>)
             a == Len(arrays) + 1
  <2>1. Holds(<<n>>, n)
    BY <1>3 DEF Holds
  <2>11. h = Append(arrays, <<n>>) /\ a = Len(arrays) + 1 /\ Q!Queued(h, a)
    BY <1>2, <1>7
  <2> HIDE DEF h, a
  <2>12. Heap(h, n)
    BY <1>5, <2>1, <2>11, HeapAppend
  <2>13. Len(h) = Len(arrays) + 1
    BY <1>5, <2>1, <2>11, HeapAppend
  <2>14. h[a] = <<n>>
    BY <1>5, <2>1, <2>11, HeapAppend
  <2>2. Heap(h, n) /\ Len(h) = a /\ h[a] = <<n>> /\ a \in 1..Len(h) /\ a # 0
    BY <1>5, <2>11, <2>12, <2>13, <2>14
  <2>3. Len(h) <= MaxArrays /\ Q!Queued(h, a)
    BY <1>2, <1>3, <1>5, <1>7, <2>11, <2>13
  <2>4. h[a] # <<>> /\ Head(h[a]) # 0
    BY <1>3, <2>2
  <2>5. After(h, a, n)
    BY <1>1, <1>3, <1>5, <2>2, <2>3, <2>4, QueuedIs
  <2>6. ~early' => calls = <<>>
    BY <1>1, <1>2, <1>7 DEF OwnArray
  <2>7. <<n>> \in Seq(1..n) /\ Len(<<n>>) = 1 /\ <<n>>[1] = n
    BY <1>3
  <2>8. n \in Q!Range(h[a])
    BY <2>2, <2>7 DEF Q!Range
  <2>9. ~early' => \A f \in 1..n : f \in ran \union cleared' \/ (a # 0 /\ f \in Q!Range(h[a]))
    BY <1>2, <1>4, <1>6, <1>7, <2>2, <2>8
  <2> QED
    BY <1>1, <1>2, <1>3, <1>5, <2>3, <2>5, <2>6, <2>9, AfterSafe
<1>8. CASE queue # 0
  <2> DEFINE r == Append(arrays[queue], n)
             h == [arrays EXCEPT ![queue] = r]
  <2>1. Q!Queued(h, queue)
    BY <1>2, <1>8
  <2>2. queue \in 1..Len(arrays) /\ Holds(arrays[queue], queued)
    BY <1>1, <1>5, <1>8 DEF Heap
  <2>3. /\ Holds(r, n) /\ (arrays[queue] # <<>> => r # <<>> /\ Head(r) = Head(arrays[queue]))
        /\ n \in Q!Range(r) /\ \A f : f \in Q!Range(arrays[queue]) => f \in Q!Range(r)
    <3>1. queued + 1 \in 0..MaxQueued /\ r = Append(arrays[queue], queued + 1)
      BY <1>3 DEF n
    <3> HIDE DEF r
    <3> DEFINE s == arrays[queue]
    <3> HIDE DEF s
    <3>2. r = Append(s, queued + 1) /\ Holds(s, queued)
      BY <2>2, <3>1 DEF s
    <3>3. Holds(r, queued + 1)
      BY <1>1, <3>1, <3>2, HoldsAppend
    <3>4. s # <<>> => r # <<>> /\ Head(r) = Head(s)
      BY <1>1, <3>1, <3>2, HoldsAppend
    <3>5. queued + 1 \in Q!Range(r)
      BY <1>1, <3>1, <3>2, HoldsAppend
    <3>6. \A f : f \in Q!Range(s) => f \in Q!Range(r)
      BY <1>1, <3>1, <3>2, HoldsAppend
    <3> QED
      BY <3>3, <3>4, <3>5, <3>6 DEF n, s
  <2> HIDE DEF r
  <2>4. Heap(h, n)
    BY <1>3, <1>5, <2>2, <2>3, HeapPut
  <2>5. Len(h) = Len(arrays)
    BY <1>3, <1>5, <2>2, <2>3, HeapPut
  <2>6. h[queue] = r
    BY <2>2, <1>5 DEF Heap
  <2> HIDE DEF h
  <2>7. fx => h[queue] # <<>> /\ Head(h[queue]) = 0 /\ running # {}
    BY <1>1, <1>8, <2>3, <2>6 DEF Q!Attended, Q!InProgress
  <2>8. Len(h) <= MaxArrays /\ queue \in 1..Len(h)
    BY <1>1, <2>2, <2>5
  <2>9. After(h, queue, n) /\ calls' = calls /\ queue' = queue
    BY <1>1, <1>3, <1>5, <2>1, <2>4, <2>7, <2>8, QueuedIs
  <2>10. ~early' => \A f \in 1..n : f \in ran \union cleared' \/ (queue # 0 /\ f \in Q!Range(h[queue]))
    BY <1>2, <1>4, <1>6, <1>8, <2>3, <2>6
  <2> QED
    BY <1>1, <1>2, <1>3, <1>5, <2>8, <2>9, <2>10, AfterSafe
<1> QED
  BY <1>7, <1>8

LEMMA ClearQueueSafe ==
  ASSUME QueueInv, Q!ClearQueue  PROVE QueueInv'
<1> DEFINE h == Append(arrays, <<>>)
           a == Len(arrays) + 1
<1>1. /\ fx \in BOOLEAN /\ queued \in 0..MaxQueued /\ Heap(arrays, queued) /\ Len(arrays) <= MaxArrays
      /\ queue \in 0..Len(arrays) /\ calls \in Seq(Q!Call) /\ running \subseteq ran /\ ran \subseteq 1..queued
      /\ cleared \subseteq 1..queued /\ Q!NothingLost /\ early \in BOOLEAN
  BY DEF QueueInv, QueueTypes
<1>2. /\ Len(arrays) < MaxArrays /\ early' = (early \/ calls # <<>>)
      /\ cleared' = IF queue = 0 THEN cleared ELSE cleared \union Q!Range(Q!Waiting(arrays[queue]))
      /\ Q!Queued(h, a)
      /\ fx' = fx /\ queued' = queued /\ UNCHANGED <<mark, defer, made, resolved>>
  BY DEF Q!ClearQueue, Q!promises
<1>3. Len(arrays) \in Nat /\ MaxArrays \in Nat
  BY <1>1, QueueAssumption DEF Heap, Q!BoundAssumption
<1>9. h = Append(arrays, <<>>) /\ a = Len(arrays) + 1 /\ Holds(<<>>, queued)
  BY EmptyHolds
<1> HIDE DEF h, a
<1>4. Heap(h, queued) /\ Len(h) = a /\ h[a] = <<>> /\ a \in 1..Len(h) /\ Len(h) <= MaxArrays
  <2>1. Heap(h, queued)
    BY <1>1, <1>9, HeapAppend
  <2>2. Len(h) = Len(arrays) + 1
    BY <1>1, <1>9, HeapAppend
  <2>3. h[a] = <<>>
    BY <1>1, <1>9, HeapAppend
  <2> QED
    BY <1>2, <1>3, <1>9, <2>1, <2>2, <2>3
<1>5. After(h, a, queued)
  BY <1>1, <1>2, <1>4, QueuedIs
<1>6. cleared' \in SUBSET (1..queued) /\ \A f \in 1..queued : f \in cleared
        \/ (queue # 0 /\ f \in Q!Range(arrays[queue])) => f \in cleared'
  <2>1. CASE queue = 0
    BY <1>1, <1>2, <2>1
  <2>2. CASE queue # 0
    <3>1. Holds(arrays[queue], queued)
      BY <1>1, <1>3, <2>2 DEF Heap
    <3>2. /\ Q!Waiting(arrays[queue]) \in Seq(1..queued)
          /\ \A f \in 1..queued : f \in Q!Range(arrays[queue]) => f \in Q!Range(Q!Waiting(arrays[queue]))
      BY <1>1, <3>1, WaitingIs
    <3>3. \A f : f \in Q!Range(Q!Waiting(arrays[queue])) => f \in 1..queued
      <4> DEFINE w == Q!Waiting(arrays[queue])
      <4> HIDE DEF w
      <4>1. w \in Seq(1..queued)
        BY <3>2 DEF w
      <4>2. \A f : f \in Q!Range(w) => \E i \in 1..Len(w) : w[i] = f
        BY <4>1, RangeIs
      <4>3. \A i \in 1..Len(w) : w[i] \in 1..queued
        BY <4>1, ElementOfSeq
      <4> QED
        BY <4>2, <4>3 DEF w
    <3> QED
      BY <1>1, <1>2, <2>2, <3>2, <3>3
  <2> QED
    BY <2>1, <2>2
<1>7. ~early' => \A f \in 1..queued : f \in ran \union cleared' \/ (a # 0 /\ f \in Q!Range(h[a]))
  BY <1>1, <1>2, <1>6 DEF Q!NothingLost
<1>8. early' \in BOOLEAN /\ (~early' => calls = <<>>)
  BY <1>2
<1> QED
  BY <1>1, <1>2, <1>4, <1>5, <1>6, <1>7, <1>8, AfterSafe

\* dequeue, called by whoever, after live of the functions under way.
LEMMA DequeueSafe ==
  ASSUME QueueInv, NEW live, live \subseteq ran, early' = (early \/ calls # <<>>), Q!Dequeue(arrays, queue, live),
         UNCHANGED <<fx, queued, cleared, mark, defer, made, resolved>>
  PROVE  QueueInv'
<1>1. /\ fx \in BOOLEAN /\ queued \in 0..MaxQueued /\ Heap(arrays, queued) /\ Len(arrays) <= MaxArrays
      /\ queue \in 0..Len(arrays) /\ calls \in Seq(Q!Call) /\ ran \subseteq 1..queued
      /\ cleared \subseteq 1..queued /\ Q!NothingLost /\ early \in BOOLEAN
  BY DEF QueueInv, QueueTypes
<1>2. After(arrays, queue, queued)
  BY <1>1, DequeueIs
<1>3. early' \in BOOLEAN /\ (~early' => calls = <<>> /\ ~early)
  OBVIOUS
<1>4. ~early' => \A f \in 1..queued : f \in ran \union cleared' \/ (queue # 0 /\ f \in Q!Range(arrays[queue]))
  BY <1>1, <1>3 DEF Q!NothingLost
<1> QED
  BY <1>1, <1>2, <1>3, <1>4, AfterSafe

\* The calls below the last one.
LEMMA FrontIs ==
  ASSUME calls \in Seq(Q!Call), calls # <<>>
  PROVE  /\ Q!Front(calls) \in Seq(Q!Call) /\ Len(Q!Front(calls)) = Len(calls) - 1 /\ Len(calls) \in Nat \ {0}
         /\ Q!Last(calls) = calls[Len(calls)]
<1>1. SubSeq(calls, 1, Len(calls) - 1) \in Seq(Q!Call) /\ Len(SubSeq(calls, 1, Len(calls) - 1)) = Len(calls) - 1
  BY Lowered
<1>2. Q!Front(calls) = SubSeq(calls, 1, Len(calls) - 1) /\ Q!Last(calls) = calls[Len(calls)]
  BY Zenon DEF Q!Front, Q!Last
<1>3. Len(calls) \in Nat \ {0}
  OBVIOUS
<1> QED
  BY <1>1, <1>2, <1>3

LEMMA QueueReturnSafe ==
  ASSUME QueueInv, Q!Return  PROVE QueueInv'
<1>1. /\ calls # <<>> /\ calls' = Q!Front(calls)
      /\ IF arrays[Q!Last(calls).array] = <<>> THEN queue' = 0 /\ Q!HandleQueueMarkDefer(mark = 0)
         ELSE queue' = queue /\ checks' = checks
      /\ UNCHANGED <<fx, early, arrays, queued, ran, cleared, running, mark, defer, made, resolved>>
  BY DEF Q!Return, Q!Emptied, Q!functions, Q!promises
<1>2. QueueTypes /\ PromisesOK /\ Q!Attended /\ Q!NothingLost /\ OwnArray
  BY DEF QueueInv
<1>3. calls \in Seq(Q!Call) /\ Len(arrays) \in Nat
  BY <1>2 DEF QueueTypes, Heap
<1>4. calls' \in Seq(Q!Call) /\ Len(calls') = Len(calls) - 1 /\ Q!Last(calls) = calls[Len(calls)]
  BY <1>1, <1>3, FrontIs
<1>5. QueueTypes'
  BY <1>1, <1>2, <1>3, <1>4 DEF QueueTypes
<1>6. PromisesOK'
  BY <1>1, <1>2, ChecksKept
<1>7. Q!Attended'
  BY <1>1, <1>2 DEF Q!Attended
<1>8. OwnArray'
  <2>1. ~early => Len(calls) = 1
    BY <1>1, <1>2 DEF OwnArray
  <2>2. ~early => calls' = <<>>
    BY <1>4, <2>1
  <2> QED
    BY <1>1, <2>2 DEF OwnArray
<1>9. Q!NothingLost'
  <2>1. CASE arrays[Q!Last(calls).array] = <<>> /\ ~early
    <3>1. Q!Last(calls).array = queue
      BY <1>1, <1>2, <1>4, <2>1 DEF OwnArray
    <3>2. \A f : f \notin Q!Range(arrays[queue])
      BY <2>1, <3>1 DEF Q!Range
    <3> QED
      BY <1>1, <1>2, <3>2 DEF Q!NothingLost
  <2>2. CASE ~(arrays[Q!Last(calls).array] = <<>> /\ ~early)
    BY <1>1, <1>2, <2>2 DEF Q!NothingLost, Q!Range
  <2> QED
    BY <2>1, <2>2
<1> QED
  BY <1>5, <1>6, <1>7, <1>8, <1>9 DEF QueueInv

LEMMA QueueThrowSafe ==
  ASSUME QueueInv, Q!Throw  PROVE QueueInv'
<1>1. /\ calls # <<>> /\ calls' = Q!Front(calls)
      /\ UNCHANGED <<fx, early, arrays, queue, queued, ran, cleared, running, mark, defer, made, resolved, checks>>
  BY DEF Q!Throw, Q!functions, Q!promises
<1>2. QueueTypes /\ PromisesOK /\ Q!Attended /\ Q!NothingLost /\ OwnArray
  BY DEF QueueInv
<1>3. calls \in Seq(Q!Call)
  BY <1>2 DEF QueueTypes
<1>4. calls' \in Seq(Q!Call) /\ Len(calls') = Len(calls) - 1 /\ Len(calls) \in Nat
  BY <1>1, <1>3, FrontIs
<1>5. QueueTypes'
  BY <1>1, <1>2, <1>4 DEF QueueTypes
<1>6. PromisesOK'
  BY <1>1, <1>2, ChecksKept
<1>7. OwnArray'
  <2>1. ~early => Len(calls) = 1
    BY <1>1, <1>2 DEF OwnArray
  <2>2. ~early => calls' = <<>>
    BY <1>4, <2>1
  <2> QED
    BY <1>1, <2>2 DEF OwnArray
<1>8. Q!Attended' /\ Q!NothingLost'
  BY <1>1, <1>2 DEF Q!Attended, Q!NothingLost, Q!Range
<1> QED
  BY <1>5, <1>6, <1>7, <1>8 DEF QueueInv

\* What is not about promises stays.
LEMMA QueueRest ==
  ASSUME QueueInv, UNCHANGED <<fx, early, arrays, queue, calls, queued, ran, cleared, running>>, PromisesOK'
  PROVE  QueueInv'
<1>1. QueueTypes /\ Q!Attended /\ Q!NothingLost /\ OwnArray
  BY DEF QueueInv
<1>2. QueueTypes' /\ OwnArray'
  BY <1>1 DEF QueueTypes, OwnArray
<1>3. Q!Attended' /\ Q!NothingLost'
  BY <1>1 DEF Q!Attended, Q!NothingLost, Q!Range
<1> QED
  BY <1>2, <1>3 DEF QueueInv

LEMMA MarkSafe ==
  ASSUME QueueInv, Q!Mark  PROVE QueueInv'
<1>1. /\ mark' = mark + 1 /\ UNCHANGED <<fx, early, arrays, queue, calls, queued, ran, cleared, running>>
      /\ UNCHANGED <<defer, made, resolved, checks>>
  BY DEF Q!Mark, Q!functions, Q!promises
<1>2. mark \in Nat
  BY DEF QueueInv, PromisesOK
<1>3. Q!Notified'
  BY <1>1, <1>2 DEF Q!Notified
<1>4. PromisesOK'
  BY <1>1, <1>2, <1>3 DEF QueueInv, PromisesOK
<1> QED
  BY <1>1, <1>4, QueueRest

LEMMA UnmarkSafe ==
  ASSUME QueueInv, NEW force \in BOOLEAN, Q!Unmark(force)  PROVE QueueInv'
<1>1. /\ mark' = IF force \/ mark = 0 THEN 0 ELSE mark - 1
      /\ IF mark' = 0 THEN Q!HandleQueueMarkDefer(queue = 0) ELSE checks' = checks
      /\ UNCHANGED <<fx, early, arrays, queue, calls, queued, ran, cleared, running>>
      /\ UNCHANGED <<defer, made, resolved>>
  BY DEF Q!Unmark, Q!functions, Q!promises
<1>2. mark \in Nat /\ made \in 0..MaxPromises /\ defer \in 0..made /\ checks \in Seq(1..made) /\ resolved \subseteq 1..made
  BY DEF QueueInv, PromisesOK
<1>3. mark' \in Nat
  BY <1>1, <1>2
<1>4. checks' \in Seq(1..made) /\ Q!Notified'
  <2>1. CASE mark' = 0 /\ defer # 0 /\ queue = 0
    <3>1. checks' = Append(checks, defer) /\ defer \in 1..made
      BY <1>1, <1>2, <2>1 DEF Q!HandleQueueMarkDefer
    <3>2. checks' \in Seq(1..made) /\ Len(checks') = Len(checks) + 1 /\ checks'[Len(checks) + 1] = defer
      BY <1>2, <3>1, AppendProperties
    <3>3. Len(checks) + 1 \in 1..Len(checks')
      BY <1>2, <3>2
    <3>4. defer \in Q!Range(checks')
      BY <3>2, <3>3, RangeIs
    <3> QED
      BY <1>1, <3>2, <3>4 DEF Q!Notified, Q!Range
  <2>2. CASE ~(mark' = 0 /\ defer # 0 /\ queue = 0)
    <3>1. checks' = checks
      BY <1>1, <2>2 DEF Q!HandleQueueMarkDefer
    <3> QED
      BY <1>1, <1>2, <2>2, <3>1 DEF Q!Notified
  <2> QED
    BY <2>1, <2>2
<1>5. PromisesOK'
  BY <1>1, <1>2, <1>3, <1>4 DEF PromisesOK
<1> QED
  BY <1>1, <1>5, QueueRest

LEMMA PromiseSafe ==
  ASSUME QueueInv, Q!Promise  PROVE QueueInv'
<1>1. /\ queue # 0 \/ mark > 0
      /\ made < MaxPromises /\ made' = made + 1 /\ defer' = made + 1
      /\ UNCHANGED <<fx, early, arrays, queue, calls, queued, ran, cleared, running>>
      /\ UNCHANGED <<mark, resolved, checks>>
  BY DEF Q!Promise, Q!functions
<1>2. mark \in Nat /\ made \in 0..MaxPromises /\ checks \in Seq(1..made) /\ resolved \subseteq 1..made /\ MaxPromises \in Nat
  BY QueueAssumption DEF QueueInv, PromisesOK, Q!BoundAssumption
<1>3. 1..made \subseteq 1..made' /\ made' \in 0..MaxPromises /\ defer' \in 0..made'
  BY <1>1, <1>2
<1>4. checks' \in Seq(1..made')
  BY <1>1, <1>2, <1>3, SeqMonotonic
<1>5. Q!Notified'
  BY <1>1, <1>2 DEF Q!Notified
<1>6. PromisesOK'
  BY <1>1, <1>2, <1>3, <1>4, <1>5 DEF PromisesOK
<1> QED
  BY <1>1, <1>6, QueueRest

LEMMA CheckSafe ==
  ASSUME QueueInv, Q!Check  PROVE QueueInv'
<1>1. /\ checks # <<>> /\ checks' = Tail(checks)
      /\ IF queue = 0 /\ mark = 0 THEN defer' = 0 /\ resolved' = resolved \union {Head(checks)}
         ELSE defer' = defer /\ resolved' = resolved
      /\ UNCHANGED <<fx, early, arrays, queue, calls, queued, ran, cleared, running>>
      /\ UNCHANGED <<mark, made>>
  BY DEF Q!Check, Q!functions
<1>2. mark \in Nat /\ made \in 0..MaxPromises /\ defer \in 0..made /\ checks \in Seq(1..made) /\ resolved \subseteq 1..made
  BY DEF QueueInv, PromisesOK
<1>3. checks' \in Seq(1..made) /\ Head(checks) \in 1..made
  BY <1>1, <1>2, HeadTailProperties
<1>4. made \in Nat /\ 0 \in 0..made
  BY <1>2
<1>5. Q!Notified'
  BY <1>1 DEF Q!Notified
<1>6. PromisesOK'
  BY <1>1, <1>2, <1>3, <1>4, <1>5 DEF PromisesOK
<1> QED
  BY <1>1, <1>6, QueueRest

LEMMA QueueStep ==
  ASSUME QueueInv, [Q!Next]_(Q!vars)  PROVE QueueInv'
<1>1. CASE Q!Queue
  BY <1>1, QueueSafe
<1>2. CASE Q!ClearQueue
  BY <1>2, ClearQueueSafe
<1>3. CASE Q!DequeueNow
  <2>1. running \subseteq ran
    BY DEF QueueInv, QueueTypes
  <2>2. /\ early' = (early \/ calls # <<>>) /\ Q!Dequeue(arrays, queue, running)
        /\ UNCHANGED <<fx, queued, cleared, mark, defer, made, resolved>>
    BY <1>3 DEF Q!DequeueNow, Q!promises
  <2> QED
    BY <2>1, <2>2, DequeueSafe
<1>4. CASE Q!Return
  BY <1>4, QueueReturnSafe
<1>5. CASE Q!Throw
  BY <1>5, QueueThrowSafe
<1>6. ASSUME NEW f \in Q!Function, Q!CallNext(f)  PROVE QueueInv'
  <2>1. running \ {f} \subseteq ran
    BY DEF QueueInv, QueueTypes
  <2>2. /\ early' = (early \/ calls # <<>>) /\ Q!Dequeue(arrays, queue, running \ {f})
        /\ UNCHANGED <<fx, queued, cleared, mark, defer, made, resolved>>
    BY <1>6 DEF Q!CallNext, Q!promises
  <2> QED
    BY <2>1, <2>2, DequeueSafe
<1>7. CASE Q!Mark
  BY <1>7, MarkSafe
<1>8. CASE Q!Promise
  BY <1>8, PromiseSafe
<1>9. CASE Q!Check
  BY <1>9, CheckSafe
<1>10. ASSUME NEW force \in BOOLEAN, Q!Unmark(force)  PROVE QueueInv'
  BY <1>10, UnmarkSafe
<1>11. CASE UNCHANGED Q!vars
  <2>1. /\ UNCHANGED <<fx, early, arrays, queue, calls, queued, ran, cleared, running>>
        /\ UNCHANGED <<mark, defer, made, resolved, checks>>
    BY <1>11 DEF Q!vars, Q!functions, Q!promises
  <2>2. PromisesOK'
    BY <2>1, ChecksKept DEF QueueInv
  <2> QED
    BY <2>1, <2>2, QueueRest
<1> QED
  BY <1>1, <1>2, <1>3, <1>4, <1>5, <1>6, <1>7, <1>8, <1>9, <1>10, <1>11 DEF Q!Next

LEMMA QueueInvAlways == Q!Spec => []QueueInv
<1>1. Q!Init => QueueInv
  BY QueuesInitially
<1>2. QueueInv /\ [Q!Next]_(Q!vars) => QueueInv'
  BY QueueStep
<1> QED
  BY <1>1, <1>2, PTL DEF Q!Spec

-----------------------------------------------------------------------------
\* Animations.  The timers in the array are different.
Distinct(s) == \A i, j \in 1..Len(s) : s[i] = s[j] => i = j

\* A call whose callback runs, or below another, has come to a timer; tick begins with the first.
CallsOK ==
  /\ loops \in Seq(A!Frame) /\ control \in {"user", "engine"}
  /\ \A i \in 1..Len(loops) : i # Len(loops) \/ control = "user" \/ loops[i].call = "tick" => loops[i].index # 0

TimersOK ==
  /\ raf \in BOOLEAN /\ meddled \in BOOLEAN /\ ticking \in Seq(A!Timer)
  /\ due \subseteq started /\ started \subseteq Anim /\ finished \subseteq A!Timer /\ stopped \subseteq A!Timer
  /\ completed \in [Anim -> 0..2]

\* There is a frame to come while timerId is set, and the interval is there just as long.
LoopOK ==
  /\ timerId \in BOOLEAN /\ requested \in 0..MaxRequested
  /\ ticking # <<>> => timerId
  /\ timerId => requested # 0
  /\ ~raf => requested = IF timerId THEN 1 ELSE 0

\* Only the timer whose callback runs has made its last step.
Spent == IF control = "user" /\ loops # <<>>
         THEN /\ A!Top.index \in 1..Len(ticking)
              /\ \A i \in 1..Len(ticking) : ticking[i] \in finished <=> i = A!Top.index
         ELSE \A i \in 1..Len(ticking) : ticking[i] \notin finished

\* Timers belong to animations that were started, and one is finished, stopped or waits.
Members ==
  /\ Distinct(ticking)
  /\ \A i \in 1..Len(ticking) : ticking[i][1] \in started
  /\ \A t \in finished : t[1] \in started
  /\ \A a \in started, p \in 1..Props : <<a, p>> \in finished \union stopped \union A!Range(ticking)

\* An animation completes when all of its timers are finished.
Completed == \A a \in Anim : completed[a] <= 1 /\ (completed[a] # 0 => \A p \in 1..Props : <<a, p>> \in finished)

Followed == Len(loops) <= 1 /\ Members /\ Completed /\ Spent

AnimInv == CallsOK /\ TimersOK /\ LoopOK /\ (~meddled => Followed)

\* What an array of timers holds.
LEMMA TimerRange ==
  ASSUME NEW S, NEW s \in Seq(S), NEW f
  PROVE  f \in A!Range(s) <=> \E i \in 1..Len(s) : s[i] = f
BY DEF A!Range

\* An array without the element at i.
LEMMA RemoveAtIs ==
  ASSUME NEW S, NEW s \in Seq(S), NEW i \in 1..Len(s), NEW r, r = A!RemoveAt(s, i)
  PROVE  /\ r \in Seq(S) /\ Len(r) = Len(s) - 1
         /\ \A j \in 1..Len(r) : r[j] = IF j < i THEN s[j] ELSE s[j + 1]
<1> DEFINE n == Len(s)
           b == SubSeq(s, 1, i - 1)
           c == SubSeq(s, i + 1, n)
<1>1. n \in Nat /\ i \in Nat /\ 1 <= i /\ i <= n
  OBVIOUS
<1>2. r = b \o c
  BY Zenon DEF A!RemoveAt
<1>3. \A j \in 1..(i - 1) : s[j] \in S
  <2> SUFFICES ASSUME NEW j \in 1..(i - 1)  PROVE s[j] \in S
    OBVIOUS
  <2>1. j \in 1..Len(s)
    BY <1>1
  <2> QED
    BY <2>1, ElementOfSeq
<1>4. \A j \in (i + 1)..n : s[j] \in S
  <2> SUFFICES ASSUME NEW j \in (i + 1)..n  PROVE s[j] \in S
    OBVIOUS
  <2>1. j \in 1..Len(s)
    BY <1>1
  <2> QED
    BY <2>1, ElementOfSeq
<1>5. /\ b \in Seq(S) /\ Len(b) = (IF 1 <= i - 1 THEN (i - 1) - 1 + 1 ELSE 0)
      /\ \A j \in 1..((i - 1) - 1 + 1) : b[j] = s[1 + j - 1]
  <2>1. 1 \in Int /\ i - 1 \in Int
    BY <1>1
  <2> QED
    BY <1>3, <2>1, SubSeqProperties
<1>6. /\ c \in Seq(S) /\ Len(c) = (IF i + 1 <= n THEN n - (i + 1) + 1 ELSE 0)
      /\ \A j \in 1..(n - (i + 1) + 1) : c[j] = s[(i + 1) + j - 1]
  <2>1. i + 1 \in Int /\ n \in Int
    BY <1>1
  <2> QED
    BY <1>4, <2>1, SubSeqProperties
<1> HIDE DEF b, c, n
<1>7. Len(b) = i - 1 /\ \A j \in 1..(i - 1) : b[j] = s[j]
  <2>1. Len(b) = i - 1
    BY <1>1, <1>5
  <2>2. ASSUME NEW j \in 1..(i - 1)  PROVE b[j] = s[j]
    <3>1. j \in 1..((i - 1) - 1 + 1) /\ 1 + j - 1 = j
      BY <1>1
    <3> QED
      BY <1>5, <3>1
  <2> QED
    BY <2>1, <2>2
<1>8. Len(c) = n - i /\ \A j \in 1..(n - i) : c[j] = s[i + j]
  <2>1. Len(c) = n - i
    BY <1>1, <1>6
  <2>2. ASSUME NEW j \in 1..(n - i)  PROVE c[j] = s[i + j]
    <3>1. j \in 1..(n - (i + 1) + 1) /\ (i + 1) + j - 1 = i + j
      BY <1>1
    <3> QED
      BY <1>6, <3>1
  <2> QED
    BY <2>1, <2>2
<1>9. /\ r \in Seq(S) /\ Len(r) = Len(b) + Len(c)
      /\ \A j \in 1..Len(b) + Len(c) : r[j] = IF j <= Len(b) THEN b[j] ELSE c[j - Len(b)]
  <2>1. b \in Seq(S) /\ c \in Seq(S)
    BY <1>5, <1>6
  <2>2. /\ b \o c \in Seq(S) /\ Len(b \o c) = Len(b) + Len(c)
        /\ \A j \in 1..Len(b) + Len(c) : (b \o c)[j] = IF j <= Len(b) THEN b[j] ELSE c[j - Len(b)]
    BY <2>1, ConcatProperties
  <2> QED
    BY <1>2, <2>2
<1>10. Len(r) = n - 1
  BY <1>1, <1>7, <1>8, <1>9
<1>11. ASSUME NEW j \in 1..Len(r)  PROVE r[j] = IF j < i THEN s[j] ELSE s[j + 1]
  <2>1. j \in 1..Len(b) + Len(c) /\ j \in Nat
    BY <1>9
  <2>2. CASE j < i
    <3>1. j <= Len(b) /\ j \in 1..(i - 1)
      BY <1>1, <1>7, <2>1, <2>2
    <3> QED
      BY <1>7, <1>9, <2>1, <2>2, <3>1
  <2>3. CASE ~(j < i)
    <3>1. ~(j <= Len(b)) /\ j - Len(b) \in 1..(n - i) /\ i + (j - Len(b)) = j + 1
      <4>1. Len(b) = i - 1 /\ j \in Nat /\ j <= n - 1 /\ i <= j
        BY <1>1, <1>7, <1>10, <2>1, <2>3
      <4> QED
        BY <1>1, <4>1
    <3> QED
      BY <1>8, <1>9, <2>1, <2>3, <3>1
  <2> QED
    BY <2>2, <2>3
<1> QED
  BY <1>9, <1>10, <1>11 DEF n

\* What is still in it, and what is not.
LEMMA RemovedIs ==
  ASSUME NEW S, NEW s \in Seq(S), NEW i \in 1..Len(s), NEW r, r = A!RemoveAt(s, i)
  PROVE  /\ r \in Seq(S)
         /\ \A j \in 1..Len(r) : \E k \in 1..Len(s) : k # i /\ r[j] = s[k]
         /\ \A k \in 1..Len(s) : k # i => \E j \in 1..Len(r) : r[j] = s[k]
         /\ Distinct(s) => Distinct(r)
<1>1. /\ r \in Seq(S) /\ Len(r) = Len(s) - 1 /\ Len(s) \in Nat /\ i \in Nat /\ 1 <= i /\ i <= Len(s)
      /\ \A j \in 1..Len(r) : r[j] = IF j < i THEN s[j] ELSE s[j + 1]
  BY RemoveAtIs
<1>2. ASSUME NEW j \in 1..Len(r)  PROVE \E k \in 1..Len(s) : k # i /\ r[j] = s[k]
  <2>1. CASE j < i
    <3>1. j \in 1..Len(s) /\ j # i /\ r[j] = s[j]
      BY <1>1, <2>1
    <3> QED
      BY <3>1
  <2>2. CASE ~(j < i)
    <3>1. j + 1 \in 1..Len(s) /\ j + 1 # i /\ r[j] = s[j + 1]
      BY <1>1, <2>2
    <3> QED
      BY <3>1
  <2> QED
    BY <2>1, <2>2
<1>3. ASSUME NEW k \in 1..Len(s), k # i  PROVE \E j \in 1..Len(r) : r[j] = s[k]
  <2>1. CASE k < i
    <3>1. k \in 1..Len(r)
      BY <1>1, <2>1
    <3>2. r[k] = s[k]
      BY <1>1, <2>1, <3>1
    <3> QED
      BY <3>1, <3>2
  <2>2. CASE ~(k < i)
    <3>1. k - 1 \in 1..Len(r) /\ ~(k - 1 < i) /\ (k - 1) + 1 = k
      BY <1>1, <1>3, <2>2
    <3>2. r[k - 1] = s[k]
      BY <1>1, <3>1
    <3> QED
      BY <3>1, <3>2
  <2> QED
    BY <2>1, <2>2
<1>4. ASSUME Distinct(s)  PROVE Distinct(r)
  <2> SUFFICES ASSUME NEW j \in 1..Len(r), NEW k \in 1..Len(r), r[j] = r[k]  PROVE j = k
    BY DEF Distinct
  <2> DEFINE at(m) == IF m < i THEN m ELSE m + 1
  <2>1. r[j] = s[at(j)] /\ r[k] = s[at(k)]
    BY <1>1
  <2>2. at(j) \in 1..Len(s) /\ at(k) \in 1..Len(s)
    BY <1>1
  <2>3. at(j) = at(k)
    BY <1>4, <2>1, <2>2 DEF Distinct
  <2> QED
    BY <1>1, <2>3
<1> QED
  BY <1>1, <1>2, <1>3, <1>4

\* Calls: the call at the top.
LEMMA CallIs ==
  ASSUME CallsOK, loops # <<>>
  PROVE  /\ Len(loops) \in Nat \ {0} /\ A!Top = loops[Len(loops)] /\ A!Top \in A!Frame
         /\ A!Top.index \in Nat /\ A!Top.call \in {"tick", "stop"}
<1>1. loops \in Seq(A!Frame)
  BY DEF CallsOK
<1>2. Len(loops) \in Nat \ {0} /\ A!Top = loops[Len(loops)] /\ A!Top \in A!Frame
  BY <1>1 DEF A!Top, A!Last
<1> QED
  BY <1>2 DEF A!Frame

\* The top call at another index.
LEMMA AtIs ==
  ASSUME CallsOK, loops # <<>>, NEW i \in Nat, A!Top.call = "tick" => i # 0,
         loops' = A!At(i), control' \in {"user", "engine"}, control' = "user" => i # 0
  PROVE  /\ CallsOK' /\ Len(loops') = Len(loops) /\ loops' # <<>>
<1> DEFINE n == Len(loops)
           d == [A!Top EXCEPT !.index = i]
<1>1. loops \in Seq(A!Frame) /\ n \in Nat \ {0} /\ A!Top = loops[n] /\ A!Top \in A!Frame
  BY CallIs DEF CallsOK
<1>2. d \in A!Frame /\ d.index = i /\ d.call = A!Top.call
  BY <1>1 DEF A!Frame
<1>3. loops' = Append(SubSeq(loops, 1, n - 1), d)
  BY Zenon DEF A!At, A!Front
<1> HIDE DEF d
<1>4. /\ loops' \in Seq(A!Frame) /\ Len(loops') = n /\ loops'[n] = d
      /\ \A k \in 1..(n - 1) : loops'[k] = loops[k]
  BY <1>1, <1>2, <1>3, Replaced
<1>5. ASSUME NEW k \in 1..n, k # n \/ control' = "user" \/ loops'[k].call = "tick"  PROVE loops'[k].index # 0
  <2>1. CASE k = n
    BY <1>2, <1>4, <1>5, <2>1
  <2>2. CASE k # n
    <3>1. k \in 1..(n - 1)
      BY <1>1, <2>2
    <3>2. loops[k].index # 0
      BY <2>2 DEF CallsOK
    <3> QED
      BY <1>4, <3>1, <3>2
  <2> QED
    BY <2>1, <2>2
<1>6. loops' # <<>>
  BY <1>1, <1>4
<1> QED
  BY <1>4, <1>5, <1>6 DEF CallsOK

\* The top call ends.
LEMMA EndsIs ==
  ASSUME CallsOK, loops # <<>>, loops' = A!Front(loops), control' = "user"
  PROVE  CallsOK' /\ Len(loops') = Len(loops) - 1
<1> DEFINE n == Len(loops)
<1>1. loops \in Seq(A!Frame) /\ n \in Nat \ {0}
  BY CallIs DEF CallsOK
<1>2. loops' = SubSeq(loops, 1, n - 1)
  BY Zenon DEF A!Front
<1>3. loops' \in Seq(A!Frame) /\ Len(loops') = n - 1 /\ \A k \in 1..(n - 1) : loops'[k] = loops[k]
  BY <1>1, <1>2, Lowered
<1>4. ASSUME NEW k \in 1..(n - 1)  PROVE loops'[k].index # 0
  <2>1. k \in 1..n /\ k # n
    BY <1>1
  <2>2. loops[k].index # 0
    BY <2>1 DEF CallsOK
  <2> QED
    BY <1>3, <2>2
<1> QED
  BY <1>3, <1>4 DEF CallsOK

\* The same calls.
LEMMA CallsStay ==
  ASSUME CallsOK, loops' = loops, control' \in {"user", "engine"},
         control' = "user" /\ loops # <<>> => control = "user" \/ A!Top.index # 0
  PROVE  CallsOK'
<1>1. ASSUME NEW k \in 1..Len(loops), k # Len(loops) \/ control' = "user" \/ loops[k].call = "tick"
      PROVE  loops[k].index # 0
  <2>1. CASE k # Len(loops) \/ control = "user" \/ loops[k].call = "tick"
    BY <2>1 DEF CallsOK
  <2>2. CASE ~(k # Len(loops) \/ control = "user" \/ loops[k].call = "tick")
    <3>1. loops # <<>> /\ k = Len(loops)
      BY <2>2 DEF CallsOK
    <3> QED
      BY <1>1, <2>2, <3>1, CallIs
  <2> QED
    BY <2>1, <2>2
<1> QED
  BY <1>1 DEF CallsOK

\* A call of stop is made by user code.
LEMMA PushedIs ==
  ASSUME CallsOK, control = "user", NEW f \in A!Frame, f.call = "stop", loops' = Append(loops, f), control' = "engine"
  PROVE  CallsOK' /\ Len(loops') = Len(loops) + 1 /\ loops' # <<>>
<1> DEFINE n == Len(loops)
<1>1. loops \in Seq(A!Frame) /\ n \in Nat
  BY DEF CallsOK
<1>2. /\ loops' \in Seq(A!Frame) /\ Len(loops') = n + 1 /\ loops'[n + 1] = f
      /\ \A k \in 1..n : loops'[k] = loops[k]
  BY <1>1, AppendProperties
<1>3. ASSUME NEW k \in 1..(n + 1), k # n + 1 \/ loops'[k].call = "tick"  PROVE loops'[k].index # 0
  <2>1. CASE k = n + 1
    BY <1>2, <1>3, <2>1
  <2>2. CASE k # n + 1
    <3>1. k \in 1..n
      BY <1>1, <2>2
    <3>2. loops[k].index # 0
      BY <3>1 DEF CallsOK
    <3> QED
      BY <1>2, <3>1, <3>2
  <2> QED
    BY <2>1, <2>2
<1>4. loops' # <<>>
  BY <1>1, <1>2
<1> QED
  BY <1>2, <1>3, <1>4 DEF CallsOK

\* A timer, and one that is among others.
LEMMA TimerIs ==
  ASSUME NEW t \in A!Timer
  PROVE  t[1] \in Anim /\ t[2] \in 1..Props /\ t = <<t[1], t[2]>>
BY DEF A!Timer

\* What happens to the array does not disturb the loop, unless timers are put in.
LEMMA LoopStays ==
  ASSUME LoopOK, ticking' # <<>> => ticking # <<>>, UNCHANGED <<raf, timerId, requested>>
  PROVE  LoopOK'
BY DEF LoopOK

\* A finished timer is taken out, and the others are not finished.
LEMMA TakenOut ==
  ASSUME ticking \in Seq(A!Timer), Members, NEW n \in 1..Len(ticking), ticking' = A!RemoveAt(ticking, n),
         ticking[n] \in finished', finished' \subseteq finished \union {ticking[n]}, finished \subseteq finished',
         \A i \in 1..Len(ticking) : i # n => ticking[i] \notin finished',
         UNCHANGED <<started, stopped>>
  PROVE  /\ ticking' \in Seq(A!Timer) /\ Members'
         /\ \A i \in 1..Len(ticking') : ticking'[i] \notin finished'
<1>1. /\ ticking' \in Seq(A!Timer)
      /\ \A j \in 1..Len(ticking') : \E k \in 1..Len(ticking) : k # n /\ ticking'[j] = ticking[k]
      /\ \A k \in 1..Len(ticking) : k # n => \E j \in 1..Len(ticking') : ticking'[j] = ticking[k]
      /\ Distinct(ticking) => Distinct(ticking')
  <2> DEFINE r == A!RemoveAt(ticking, n)
             X == A!Timer
  <2>1. ticking \in Seq(X) /\ ticking' = r
    OBVIOUS
  <2> HIDE DEF X
  <2>2. /\ r \in Seq(X)
        /\ \A j \in 1..Len(r) : \E k \in 1..Len(ticking) : k # n /\ r[j] = ticking[k]
        /\ \A k \in 1..Len(ticking) : k # n => \E j \in 1..Len(r) : r[j] = ticking[k]
        /\ Distinct(ticking) => Distinct(r)
    BY <2>1, RemovedIs, Zenon
  <2> HIDE DEF r
  <2> QED
    BY <2>1, <2>2 DEF X
<1>2. Distinct(ticking')
  BY <1>1 DEF Members
<1>3. \A i \in 1..Len(ticking') : ticking'[i][1] \in started' /\ ticking'[i] \notin finished'
  <2> SUFFICES ASSUME NEW i \in 1..Len(ticking')  PROVE ticking'[i][1] \in started /\ ticking'[i] \notin finished'
    OBVIOUS
  <2>1. PICK k \in 1..Len(ticking) : k # n /\ ticking'[i] = ticking[k]
    BY <1>1
  <2> QED
    BY <2>1 DEF Members
<1>4. \A t \in finished' : t[1] \in started'
  BY DEF Members
<1>5. \A a \in started', p \in 1..Props : <<a, p>> \in finished' \union stopped' \union A!Range(ticking')
  <2> SUFFICES ASSUME NEW a \in started, NEW p \in 1..Props, <<a, p>> \notin finished', <<a, p>> \notin stopped
      PROVE  <<a, p>> \in A!Range(ticking')
    OBVIOUS
  <2>1. <<a, p>> \in A!Range(ticking)
    BY DEF Members
  <2>2. PICK k \in 1..Len(ticking) : ticking[k] = <<a, p>>
    BY <2>1, TimerRange
  <2>3. k # n
    BY <2>2
  <2>4. \E j \in 1..Len(ticking') : ticking'[j] = <<a, p>>
    <3>1. \E j \in 1..Len(ticking') : ticking'[j] = ticking[k]
      BY <1>1, <2>2, <2>3, Zenon
    <3> QED
      BY <2>2, <3>1, Zenon
  <2> QED
    BY <1>1, <2>4, TimerRange
<1>6. Members'
  <2>1. Distinct(ticking)'
    BY <1>2 DEF Distinct
  <2>2. (\A a \in started, p \in 1..Props : <<a, p>> \in finished \union stopped \union A!Range(ticking))'
    BY <1>5 DEF A!Range
  <2> QED
    BY <1>3, <1>4, <2>1, <2>2 DEF Members
<1> QED
  BY <1>1, <1>3, <1>6

\* The timer at the index makes its last step.
LEMMA LastStepSafe ==
  ASSUME AnimInv, control = "engine", loops # <<>>, A!Top.index \in 1..Len(ticking),
         NEW after \in Nat, A!Top.call = "tick" => after # 0, A!LastStep(ticking[A!Top.index], after),
         UNCHANGED <<raf, meddled, timerId, requested, started, due, stopped>>
  PROVE  AnimInv'
<1> DEFINE n == A!Top.index
           t == ticking[n]
<1>1. CallsOK /\ TimersOK /\ LoopOK /\ (~meddled => Followed)
  BY DEF AnimInv
<1>2. n \in 1..Len(ticking) /\ n # 0 /\ ticking \in Seq(A!Timer) /\ ticking # <<>>
  BY <1>1 DEF TimersOK
<1>3. t \in A!Timer /\ t[1] \in Anim /\ t[2] \in 1..Props /\ t = <<t[1], t[2]>>
  <2>1. t \in A!Timer
    BY <1>2
  <2> QED
    BY <2>1, TimerIs
<1>4. finished' = finished \union {t}
  BY DEF A!LastStep
<1> HIDE DEF t
<1>5. finished' \subseteq A!Timer
  BY <1>1, <1>3, <1>4 DEF TimersOK
<1>6. ~meddled => /\ \A i \in 1..Len(ticking) : ticking[i] \notin finished
                  /\ \A i \in 1..Len(ticking) : i # n => ticking[i] \notin finished'
  <2> SUFFICES ASSUME ~meddled
      PROVE  /\ \A i \in 1..Len(ticking) : ticking[i] \notin finished
             /\ \A i \in 1..Len(ticking) : i # n => ticking[i] \notin finished'
    OBVIOUS
  <2>1. \A i \in 1..Len(ticking) : ticking[i] \notin finished
    BY <1>1 DEF Followed, Spent
  <2>2. \A i \in 1..Len(ticking) : i # n => ticking[i] # t
    BY <1>1, <1>2 DEF t, Followed, Members, Distinct
  <2> QED
    BY <1>4, <2>1, <2>2
<1>7. ~meddled => t[1] \in started
  BY <1>1, <1>2 DEF t, Followed, Members
<1>8. LoopOK'
  BY <1>1, <1>2, LoopStays
<1>9. CASE \A p \in 1..Props : <<t[1], p>> \in finished'
  <2>1. /\ completed' = [completed EXCEPT ![t[1]] = IF @ < 2 THEN @ + 1 ELSE @]
        /\ control' = "user" /\ ticking' = ticking /\ loops' = loops
    BY <1>9 DEF A!LastStep, t
  <2>2. completed' \in [Anim -> 0..2]
    <3>1. completed \in [Anim -> 0..2]
      BY <1>1 DEF TimersOK
    <3>2. (IF completed[t[1]] < 2 THEN completed[t[1]] + 1 ELSE completed[t[1]]) \in 0..2
      BY <1>3, <3>1
    <3> QED
      BY <1>3, <2>1, <3>1, <3>2
  <2>3. TimersOK'
    BY <1>1, <1>5, <2>1, <2>2 DEF TimersOK
  <2>4. CallsOK'
    BY <1>1, <1>2, <2>1, CallsStay
  <2>5. ASSUME ~meddled  PROVE Followed'
    <3>1. Members'
      BY <1>1, <1>4, <1>7, <2>1, <2>5 DEF Followed, Members, Distinct, A!Range
    <3>2. Spent'
      <4>1. A!Top' = A!Top
        BY <2>1 DEF A!Top, A!Last
      <4>2. \A i \in 1..Len(ticking) : ticking[i] \in finished' <=> i = n
        BY <1>2, <1>4, <1>6, <2>5 DEF t
      <4> QED
        BY <1>2, <2>1, <4>1, <4>2 DEF Spent
    <3>3. completed[t[1]] = 0
      <4> SUFFICES ASSUME completed[t[1]] # 0  PROVE FALSE
        OBVIOUS
      <4>1. t \in finished
        BY <1>1, <1>3, <2>5 DEF Followed, Completed
      <4>2. ticking[n] \notin finished
        BY <1>2, <1>6, <2>5
      <4> QED
        BY <4>1, <4>2 DEF t
    <3>4. Completed'
      <4> SUFFICES ASSUME NEW a \in Anim
          PROVE  completed'[a] <= 1 /\ (completed'[a] # 0 => \A p \in 1..Props : <<a, p>> \in finished')
        BY DEF Completed
      <4>1. completed \in [Anim -> 0..2]
        BY <1>1 DEF TimersOK
      <4>2. CASE a = t[1]
        <5>1. completed'[a] = 1
          BY <1>3, <2>1, <3>3, <4>1, <4>2
        <5> QED
          BY <1>9, <4>2, <5>1
      <4>3. CASE a # t[1]
        <5>1. completed'[a] = completed[a]
          BY <2>1, <4>1, <4>3
        <5> QED
          BY <1>1, <1>4, <2>5, <5>1 DEF Followed, Completed
      <4> QED
        BY <4>2, <4>3
    <3>5. Len(loops') <= 1
      BY <1>1, <2>1, <2>5 DEF Followed
    <3> QED
      BY <3>1, <3>2, <3>4, <3>5 DEF Followed
  <2> QED
    BY <1>8, <2>3, <2>4, <2>5 DEF AnimInv
<1>10. CASE ~\A p \in 1..Props : <<t[1], p>> \in finished'
  <2>1. /\ ticking' = A!RemoveAt(ticking, n) /\ loops' = A!At(after)
        /\ completed' = completed /\ control' = control
    BY <1>10 DEF A!LastStep, t
  <2>2. ticking' \in Seq(A!Timer)
    BY <1>2, <2>1, RemovedIs
  <2>3. TimersOK'
    BY <1>1, <1>5, <2>1, <2>2 DEF TimersOK
  <2>4. CallsOK' /\ Len(loops') = Len(loops) /\ loops' # <<>>
    BY <1>1, <2>1, AtIs
  <2>5. ASSUME ~meddled  PROVE Followed'
    <3>1. ticking[n] \in finished' /\ finished' \subseteq finished \union {ticking[n]} /\ finished \subseteq finished'
      BY <1>4 DEF t
    <3>2. Members
      BY <1>1, <2>5 DEF Followed
    <3>3. \A i \in 1..Len(ticking) : i # n => ticking[i] \notin finished'
      BY <1>6, <2>5
    <3> HIDE DEF n
    <3>4. Members' /\ \A i \in 1..Len(ticking') : ticking'[i] \notin finished'
      BY <1>2, <2>1, <3>1, <3>2, <3>3, TakenOut
    <3>5. Spent'
      BY <2>1, <3>4 DEF Spent
    <3>6. Completed'
      BY <1>1, <1>4, <2>1, <2>5 DEF Followed, Completed
    <3>7. Len(loops') <= 1
      BY <1>1, <2>4, <2>5 DEF Followed
    <3> QED
      BY <3>4, <3>5, <3>6, <3>7 DEF Followed
  <2> QED
    BY <1>8, <2>3, <2>4, <2>5 DEF AnimInv
<1> QED
  BY <1>9, <1>10

LEMMA AnimInitially == A!Init => AnimInv
<1> SUFFICES ASSUME A!Init PROVE AnimInv
  OBVIOUS
<1>1. /\ raf \in BOOLEAN /\ meddled = FALSE /\ ticking = <<>> /\ timerId = FALSE /\ requested = 0
      /\ started = {} /\ due = {} /\ finished = {} /\ stopped = {} /\ completed = [a \in Anim |-> 0]
      /\ loops = <<>> /\ control = "user"
  BY DEF A!Init
<1>2. MaxRequested \in Nat /\ Len(loops) = 0 /\ Len(ticking) = 0
  BY <1>1, TimerAssumption DEF A!AnimAssumption
<1>3. CallsOK
  BY <1>1, <1>2 DEF CallsOK
<1>4. TimersOK
  <2>1. completed \in [Anim -> 0..2] /\ ticking \in Seq(A!Timer)
    BY <1>1
  <2>2. meddled \in BOOLEAN /\ due \subseteq started /\ started \subseteq Anim /\ finished \subseteq A!Timer
        /\ stopped \subseteq A!Timer
    BY <1>1
  <2> QED
    BY <1>1, <2>1, <2>2 DEF TimersOK
<1>5. LoopOK
  <2>1. timerId \in BOOLEAN
    BY <1>1
  <2>2. requested \in 0..MaxRequested
    BY <1>1, <1>2
  <2>3. ~timerId /\ ticking = <<>> /\ requested = 0
    BY <1>1
  <2> QED
    BY <2>1, <2>2, <2>3 DEF LoopOK
<1>6. Followed
  BY <1>1, <1>2 DEF Followed, Members, Completed, Spent, Distinct
<1> QED
  BY <1>3, <1>4, <1>5, <1>6 DEF AnimInv

\* The call at the top goes on to another index, and nothing else changes.
LEMMA GoesOnSafe ==
  ASSUME AnimInv, control = "engine", loops # <<>>, NEW i \in Nat, A!Top.call = "tick" => i # 0, loops' = A!At(i),
         UNCHANGED <<raf, meddled, ticking, timerId, requested, started, due, finished, stopped, completed, control>>
  PROVE  AnimInv'
<1>1. CallsOK /\ TimersOK /\ LoopOK /\ (~meddled => Followed)
  BY DEF AnimInv
<1>2. CallsOK' /\ Len(loops') = Len(loops)
  BY <1>1, AtIs
<1>3. TimersOK' /\ LoopOK'
  BY <1>1 DEF TimersOK, LoopOK
<1>4. ASSUME ~meddled  PROVE Followed'
  <2>1. Members' /\ Completed'
    BY <1>1, <1>4 DEF Followed, Members, Completed, Distinct, A!Range
  <2>2. Spent'
    BY <1>1, <1>4 DEF Followed, Spent
  <2>3. Len(loops') <= 1
    BY <1>1, <1>2, <1>4 DEF Followed
  <2> QED
    BY <2>1, <2>2, <2>3 DEF Followed
<1> QED
  BY <1>2, <1>3, <1>4 DEF AnimInv

LEMMA TickSafe ==
  ASSUME AnimInv, A!Tick  PROVE AnimInv'
<1>1. /\ control = "engine" /\ loops # <<>> /\ A!Top.call = "tick" /\ A!Top.index <= Len(ticking)
      /\ UNCHANGED <<raf, meddled, timerId, requested, started, due, stopped>>
      /\ IF ticking[A!Top.index][1] \in due THEN A!LastStep(ticking[A!Top.index], A!Top.index)
         ELSE loops' = A!At(A!Top.index + 1) /\ UNCHANGED <<ticking, finished, completed, control>>
  BY DEF A!Tick, A!InCall, A!loop
<1>2. A!Top.index \in Nat /\ A!Top.index # 0
  <2>1. A!Top.index \in Nat /\ A!Top = loops[Len(loops)] /\ Len(loops) \in Nat \ {0}
    BY <1>1, CallIs DEF AnimInv
  <2>2. Len(loops) \in 1..Len(loops)
    BY <2>1
  <2> QED
    BY <1>1, <2>1, <2>2 DEF AnimInv, CallsOK
<1>3. Len(ticking) \in Nat
  BY DEF AnimInv, TimersOK
<1> DEFINE n == A!Top.index
<1>4. n \in 1..Len(ticking) /\ n + 1 \in Nat /\ n + 1 # 0
  BY <1>1, <1>2, <1>3
<1>5. CASE ticking[n][1] \in due
  BY <1>1, <1>2, <1>4, <1>5, LastStepSafe
<1>6. CASE ticking[n][1] \notin due
  BY <1>1, <1>4, <1>6, GoesOnSafe
<1> QED
  BY <1>5, <1>6

LEMMA StopStepsSafe ==
  ASSUME AnimInv, A!StopSteps  PROVE AnimInv'
<1>1. /\ control = "engine" /\ loops # <<>> /\ A!Top.call = "stop" /\ A!Top.index \in DOMAIN ticking
      /\ UNCHANGED <<raf, meddled, timerId, requested, started, due, stopped>>
      /\ IF A!TimerElem(ticking[A!Top.index]) = A!Top.elem THEN A!LastStep(ticking[A!Top.index], A!Top.index - 1)
         ELSE loops' = A!At(A!Top.index - 1) /\ UNCHANGED <<ticking, finished, completed, control>>
  BY DEF A!StopSteps, A!InCall, A!loop
<1>2. ticking \in Seq(A!Timer)
  BY DEF AnimInv, TimersOK
<1> DEFINE n == A!Top.index
<1>3. n \in 1..Len(ticking) /\ n - 1 \in Nat
  BY <1>1, <1>2
<1>4. CASE A!TimerElem(ticking[n]) = A!Top.elem
  BY <1>1, <1>3, <1>4, LastStepSafe
<1>5. CASE A!TimerElem(ticking[n]) # A!Top.elem
  BY <1>1, <1>3, <1>5, GoesOnSafe
<1> QED
  BY <1>4, <1>5

\* A call that ends leaves none, as long as nobody meddles.
LEMMA StopEndsSafe ==
  ASSUME AnimInv, A!StopEnds  PROVE AnimInv'
<1>1. /\ control = "engine" /\ loops # <<>> /\ loops' = A!Front(loops) /\ control' = "user"
      /\ UNCHANGED <<raf, meddled, ticking, timerId, requested, started, due, finished, stopped, completed>>
  BY DEF A!StopEnds, A!InCall, A!loop
<1>2. CallsOK /\ TimersOK /\ LoopOK /\ (~meddled => Followed)
  BY DEF AnimInv
<1>3. CallsOK' /\ Len(loops') = Len(loops) - 1 /\ Len(loops) \in Nat \ {0}
  BY <1>1, <1>2, EndsIs, CallIs
<1>4. TimersOK' /\ LoopOK'
  BY <1>1, <1>2 DEF TimersOK, LoopOK
<1>5. ASSUME ~meddled  PROVE Followed'
  <2>1. Members' /\ Completed'
    BY <1>1, <1>2, <1>5 DEF Followed, Members, Completed, Distinct, A!Range
  <2>2. Len(loops') = 0
    BY <1>2, <1>3, <1>5 DEF Followed
  <2>3. loops' = <<>>
    BY <1>3, <2>2 DEF CallsOK
  <2>4. Spent'
    BY <1>1, <1>2, <1>5, <2>3 DEF Followed, Spent
  <2> QED
    BY <2>1, <2>2, <2>4 DEF Followed
<1> QED
  BY <1>1, <1>3, <1>4, <1>5 DEF AnimInv

LEMMA TickEndsSafe ==
  ASSUME AnimInv, A!TickEnds  PROVE AnimInv'
<1>1. /\ control = "engine" /\ loops' = <<>> /\ control' = "user"
      /\ IF ticking = <<>> THEN timerId' = FALSE /\ requested' = IF raf THEN requested ELSE 0
         ELSE timerId' = timerId /\ requested' = requested
      /\ UNCHANGED <<raf, meddled, ticking, started, due, finished, stopped, completed>>
  BY DEF A!TickEnds, A!InCall, A!loop
<1>2. CallsOK /\ TimersOK /\ LoopOK /\ (~meddled => Followed)
  BY DEF AnimInv
<1>3. CallsOK' /\ Len(loops') = 0
  BY <1>1 DEF CallsOK
<1>4. TimersOK'
  BY <1>1, <1>2 DEF TimersOK
<1>5. LoopOK'
  <2>1. requested \in 0..MaxRequested /\ MaxRequested \in Nat /\ timerId \in BOOLEAN
    BY <1>2, TimerAssumption DEF LoopOK, A!AnimAssumption
  <2>2. CASE ticking = <<>>
    <3>1. timerId' = FALSE /\ requested' \in 0..MaxRequested /\ (~raf => requested' = 0)
      BY <1>1, <2>1, <2>2
    <3> QED
      BY <1>1, <2>2, <3>1 DEF LoopOK
  <2>3. CASE ticking # <<>>
    BY <1>1, <1>2, <2>3 DEF LoopOK
  <2> QED
    BY <2>2, <2>3
<1>6. ASSUME ~meddled  PROVE Followed'
  <2>1. Members' /\ Completed'
    BY <1>1, <1>2, <1>6 DEF Followed, Members, Completed, Distinct, A!Range
  <2>2. Spent'
    BY <1>1, <1>2, <1>6 DEF Followed, Spent
  <2> QED
    BY <1>3, <2>1, <2>2 DEF Followed
<1> QED
  BY <1>1, <1>3, <1>4, <1>5, <1>6 DEF AnimInv

LEMMA TimerReturnSafe ==
  ASSUME AnimInv, A!Return  PROVE AnimInv'
<1> DEFINE n == A!Top.index
<1>1. /\ control = "user" /\ loops # <<>> /\ control' = "engine"
      /\ ticking' = IF n \in DOMAIN ticking THEN A!RemoveAt(ticking, n) ELSE ticking
      /\ loops' = IF A!Top.call = "tick" THEN loops ELSE A!At(n - 1)
      /\ UNCHANGED <<raf, meddled, timerId, requested, started, due, finished, stopped, completed>>
  BY DEF A!Return, A!loop
<1>2. CallsOK /\ TimersOK /\ LoopOK /\ (~meddled => Followed)
  BY DEF AnimInv
<1>3. n \in Nat /\ n # 0 /\ n - 1 \in Nat
  <2>1. n \in Nat /\ A!Top = loops[Len(loops)] /\ Len(loops) \in Nat \ {0}
    BY <1>1, <1>2, CallIs
  <2>2. Len(loops) \in 1..Len(loops)
    BY <2>1
  <2>3. n # 0
    BY <1>1, <1>2, <2>1, <2>2 DEF CallsOK
  <2> HIDE DEF n
  <2> QED
    BY <2>1, <2>3
<1> HIDE DEF n
<1>4. CallsOK' /\ Len(loops') = Len(loops)
  <2>1. CASE A!Top.call = "tick"
    BY <1>1, <1>2, <2>1, CallsStay
  <2>2. CASE A!Top.call # "tick"
    BY <1>1, <1>2, <1>3, <2>2, AtIs
  <2> QED
    BY <2>1, <2>2
<1>5. ticking \in Seq(A!Timer) /\ DOMAIN ticking = 1..Len(ticking)
  BY <1>2 DEF TimersOK
<1>6. ticking' \in Seq(A!Timer) /\ (ticking' # <<>> => ticking # <<>>)
  <2>1. CASE n \in DOMAIN ticking
    <3>1. ticking' \in Seq(A!Timer)
      BY <1>1, <1>5, <2>1, RemovedIs
    <3>2. ticking # <<>>
      BY <1>5, <2>1
    <3> QED
      BY <3>1, <3>2
  <2>2. CASE n \notin DOMAIN ticking
    BY <1>1, <1>5, <2>2
  <2> QED
    BY <2>1, <2>2
<1>7. TimersOK'
  BY <1>1, <1>2, <1>6 DEF TimersOK
<1>8. LoopOK'
  BY <1>1, <1>2, <1>6, LoopStays
<1>9. ASSUME ~meddled  PROVE Followed'
  <2>1. Members /\ Completed /\ n \in 1..Len(ticking) /\ \A i \in 1..Len(ticking) : ticking[i] \in finished <=> i = n
    BY <1>1, <1>2, <1>9 DEF Followed, Spent, n
  <2>2. ticking' = A!RemoveAt(ticking, n) /\ ticking[n] \in finished'
        /\ \A i \in 1..Len(ticking) : i # n => ticking[i] \notin finished'
    BY <1>1, <1>5, <2>1
  <2>3. finished' \subseteq finished \union {ticking[n]} /\ finished \subseteq finished'
    BY <1>1
  <2>4. Members' /\ \A i \in 1..Len(ticking') : ticking'[i] \notin finished'
    BY <1>1, <1>5, <2>1, <2>2, <2>3, TakenOut
  <2>5. Spent'
    BY <1>1, <2>4 DEF Spent
  <2>6. Completed' /\ Len(loops') <= 1
    BY <1>1, <1>2, <1>4, <1>9 DEF Followed, Completed
  <2> QED
    BY <2>4, <2>5, <2>6 DEF Followed
<1> QED
  BY <1>1, <1>4, <1>7, <1>8, <1>9 DEF AnimInv

LEMMA TimerThrowSafe ==
  ASSUME AnimInv, A!Throw  PROVE AnimInv'
<1>1. /\ control = "user" /\ loops # <<>> /\ loops' = A!Front(loops) /\ control' = "user" /\ meddled' = TRUE
      /\ UNCHANGED <<raf, ticking, timerId, requested, started, due, finished, stopped, completed>>
  BY DEF A!Throw, A!loop
<1>2. CallsOK'
  BY <1>1, EndsIs DEF AnimInv
<1>3. TimersOK' /\ LoopOK'
  BY <1>1 DEF AnimInv, TimersOK, LoopOK
<1> QED
  BY <1>1, <1>2, <1>3 DEF AnimInv

LEMMA ExpireSafe ==
  ASSUME AnimInv, NEW a \in Anim, A!Expire(a)  PROVE AnimInv'
<1>1. /\ a \in started /\ due' = due \union {a}
      /\ UNCHANGED <<raf, meddled, ticking, timerId, requested, started, finished, stopped, completed, loops, control>>
  BY DEF A!Expire, A!loop
<1>2. CallsOK' /\ TimersOK' /\ LoopOK'
  BY <1>1 DEF AnimInv, CallsOK, TimersOK, LoopOK
<1>3. ASSUME ~meddled  PROVE Followed'
  BY <1>1, <1>3 DEF AnimInv, Followed, Members, Completed, Distinct, Spent, A!Range, A!Top, A!Last
<1> QED
  BY <1>1, <1>2, <1>3 DEF AnimInv

\* stop with gotoEnd, from a callback or at rest.
LEMMA StopAtEndSafe ==
  ASSUME AnimInv, NEW e \in Elem, A!StopAtEnd(e)  PROVE AnimInv'
<1> DEFINE f == [call |-> "stop", index |-> Len(ticking), elem |-> e]
<1>1. /\ control = "user" /\ meddled' = (meddled \/ loops # <<>>) /\ loops' = Append(loops, f) /\ control' = "engine"
      /\ UNCHANGED <<raf, ticking, timerId, requested, started, due, finished, stopped, completed>>
  BY DEF A!StopAtEnd, A!loop
<1>2. CallsOK /\ TimersOK /\ LoopOK /\ (~meddled => Followed) /\ meddled \in BOOLEAN
  BY DEF AnimInv, TimersOK
<1>3. f \in A!Frame /\ f.call = "stop"
  <2>1. Len(ticking) \in Nat
    BY <1>2 DEF TimersOK
  <2> QED
    BY <2>1 DEF A!Frame
<1> HIDE DEF f
<1>4. CallsOK' /\ Len(loops') = Len(loops) + 1
  BY <1>1, <1>2, <1>3, PushedIs
<1>5. meddled' \in BOOLEAN
  BY <1>1, <1>2
<1>6. TimersOK' /\ LoopOK'
  BY <1>1, <1>2, <1>5 DEF TimersOK, LoopOK
<1>7. ASSUME ~meddled'  PROVE Followed'
  <2>1. ~meddled /\ loops = <<>>
    BY <1>1, <1>7
  <2>2. Members' /\ Completed'
    BY <1>1, <1>2, <2>1 DEF Followed, Members, Completed, Distinct, A!Range
  <2>3. Spent'
    BY <1>1, <1>2, <2>1 DEF Followed, Spent
  <2>4. Len(loops') <= 1
    <3>1. Len(loops) = 0
      BY <2>1
    <3> QED
      BY <1>4, <3>1
  <2> QED
    BY <2>2, <2>3, <2>4 DEF Followed
<1> QED
  BY <1>4, <1>6, <1>7 DEF AnimInv

LEMMA BeginSafe ==
  ASSUME AnimInv, A!Begin  PROVE AnimInv'
<1> DEFINE f == [call |-> "tick", index |-> 1]
<1>1. /\ loops = <<>> /\ requested > 0
      /\ IF timerId THEN loops' = <<f>> /\ control' = "engine" /\ requested' = requested
         ELSE requested' = requested - 1 /\ loops' = loops /\ control' = control
      /\ UNCHANGED <<raf, meddled, ticking, timerId, started, due, finished, stopped, completed>>
  BY DEF A!Begin
<1>2. CallsOK /\ TimersOK /\ LoopOK /\ (~meddled => Followed)
  BY DEF AnimInv
<1>3. f \in A!Frame /\ f.index = 1
  BY DEF A!Frame
<1> HIDE DEF f
<1>4. TimersOK'
  BY <1>1, <1>2 DEF TimersOK
<1>5. LoopOK'
  <2>1. requested \in 0..MaxRequested /\ MaxRequested \in Nat
    BY <1>2, TimerAssumption DEF LoopOK, A!AnimAssumption
  <2>2. requested' \in 0..MaxRequested /\ (timerId => requested' = requested)
    BY <1>1, <2>1
  <2>3. ~raf => timerId
    BY <1>1, <1>2 DEF LoopOK
  <2> QED
    BY <1>1, <1>2, <2>2, <2>3 DEF LoopOK
<1>6. CallsOK' /\ Len(loops') <= 1
  <2>1. CASE timerId
    <3> DEFINE z == <<f>>
    <3>1. z \in Seq(A!Frame) /\ Len(z) = 1 /\ z[1] = f
      BY <1>3
    <3>2. loops' = z /\ control' = "engine"
      BY <1>1, <2>1
    <3> HIDE DEF z
    <3>3. \A i \in 1..Len(z) : z[i].index # 0
      BY <1>3, <3>1
    <3>4. CallsOK'
      BY <3>1, <3>2, <3>3 DEF CallsOK
    <3>5. Len(loops') <= 1
      <4>1. Len(loops') = 1
        BY <3>1, <3>2, Zenon
      <4> QED
        BY <4>1
    <3> QED
      BY <3>4, <3>5
  <2>2. CASE ~timerId
    <3>1. Len(loops) = 0
      BY <1>1
    <3> QED
      BY <1>1, <1>2, <2>2, <3>1 DEF CallsOK
  <2> QED
    BY <2>1, <2>2
<1>7. ASSUME ~meddled  PROVE Followed'
  <2>1. Members' /\ Completed'
    BY <1>1, <1>2, <1>7 DEF Followed, Members, Completed, Distinct, A!Range
  <2>2. \A i \in 1..Len(ticking) : ticking[i] \notin finished
    BY <1>1, <1>2, <1>7 DEF Followed, Spent
  <2>3. ~(control' = "user" /\ loops' # <<>>)
    BY <1>1
  <2>4. Spent'
    BY <1>1, <2>2, <2>3 DEF Spent
  <2> QED
    BY <1>6, <2>1, <2>4 DEF Followed
<1> QED
  BY <1>1, <1>4, <1>5, <1>6, <1>7 DEF AnimInv

\* The timers of a new animation.
LEMMA NewTimersAre ==
  ASSUME NEW a \in Anim
  PROVE  /\ A!TimersOf(a) \in Seq(A!Timer) /\ Len(A!TimersOf(a)) = Props
         /\ \A p \in 1..Props : A!TimersOf(a)[p] = <<a, p>>
<1> DEFINE s == [p \in 1..Props |-> <<a, p>>]
<1>1. Props \in Nat
  BY TimerAssumption DEF A!AnimAssumption
<1>2. \A p \in 1..Props : <<a, p>> \in A!Timer
  BY DEF A!Timer
<1>3. s \in Seq(A!Timer) /\ Len(s) = Props /\ \A p \in 1..Props : s[p] = <<a, p>>
  BY <1>1, <1>2
<1>4. A!TimersOf(a) = s
  BY DEF A!TimersOf
<1> QED
  BY <1>3, <1>4

LEMMA AnimateSafe ==
  ASSUME AnimInv, NEW a \in Anim, A!Animate(a)  PROVE AnimInv'
<1> DEFINE new == A!TimersOf(a)
           n == Len(ticking)
<1>1. /\ control = "user" /\ a \notin started /\ requested < MaxRequested
      /\ ticking' = ticking \o new /\ started' = started \union {a} /\ timerId' = TRUE
      /\ requested' = IF timerId THEN requested ELSE requested + 1
      /\ UNCHANGED <<raf, meddled, due, finished, stopped, completed, loops, control>>
  BY DEF A!Animate
<1>2. CallsOK /\ TimersOK /\ LoopOK /\ (~meddled => Followed)
  BY DEF AnimInv
<1>3. /\ ticking \in Seq(A!Timer) /\ n \in Nat /\ Props \in Nat
      /\ new \in Seq(A!Timer) /\ Len(new) = Props /\ \A p \in 1..Props : new[p] = <<a, p>>
  BY <1>2, NewTimersAre, TimerAssumption DEF TimersOK, A!AnimAssumption
<1> HIDE DEF new
<1>4. /\ ticking' \in Seq(A!Timer) /\ Len(ticking') = n + Props
      /\ \A i \in 1..n + Props : ticking'[i] = IF i <= n THEN ticking[i] ELSE new[i - n]
  <2>1. /\ ticking \o new \in Seq(A!Timer) /\ Len(ticking \o new) = Len(ticking) + Len(new)
        /\ \A i \in 1..Len(ticking) + Len(new) :
             (ticking \o new)[i] = IF i <= Len(ticking) THEN ticking[i] ELSE new[i - Len(ticking)]
    BY <1>3, ConcatProperties
  <2> QED
    BY <1>1, <1>3, <2>1
<1>5. \A i \in 1..n : ticking[i] \in A!Timer
  BY <1>3
<1> HIDE DEF n
<1>6. \A i \in 1..n : i \in 1..n + Props /\ ticking'[i] = ticking[i]
  BY <1>3, <1>4
<1>7. \A p \in 1..Props : n + p \in 1..n + Props /\ ticking'[n + p] = <<a, p>>
  <2> SUFFICES ASSUME NEW p \in 1..Props  PROVE n + p \in 1..n + Props /\ ticking'[n + p] = <<a, p>>
    OBVIOUS
  <2>1. n + p \in 1..n + Props /\ ~(n + p <= n) /\ (n + p) - n = p
    BY <1>3
  <2> QED
    BY <1>3, <1>4, <2>1
<1>8. \A i \in 1..n + Props : i \in 1..n \/ \E p \in 1..Props : i = n + p
  <2> SUFFICES ASSUME NEW i \in 1..n + Props, i \notin 1..n  PROVE \E p \in 1..Props : i = n + p
    OBVIOUS
  <2>1. i - n \in 1..Props /\ i = n + (i - n)
    BY <1>3
  <2> QED
    BY <2>1
<1>9. CallsOK'
  BY <1>1, <1>2 DEF CallsOK
<1>10. TimersOK'
  BY <1>1, <1>2, <1>4 DEF TimersOK
<1>11. LoopOK'
  <2>1. requested \in 0..MaxRequested /\ MaxRequested \in Nat
    BY <1>2, TimerAssumption DEF LoopOK, A!AnimAssumption
  <2>2. requested' \in 0..MaxRequested
    BY <1>1, <2>1
  <2>3. requested' # 0
    BY <1>1, <1>2, <2>1 DEF LoopOK
  <2>4. ~raf => requested' = 1
    BY <1>1, <1>2 DEF LoopOK
  <2> QED
    BY <1>1, <2>2, <2>3, <2>4 DEF LoopOK
<1>12. ASSUME ~meddled  PROVE Followed'
  <2>1. Members /\ Completed /\ Len(loops) <= 1 /\ Spent
    BY <1>2, <1>12 DEF Followed
  <2>2. \A i \in 1..n : ticking[i][1] \in started /\ ticking[i][1] # a
    BY <1>1, <2>1 DEF Members, n
  <2>3. \A p \in 1..Props : <<a, p>> \notin finished /\ <<a, p>>[1] = a /\ <<a, p>>[2] = p
    BY <1>1, <2>1 DEF Members
  <2>4. Distinct(ticking')
    <3> SUFFICES ASSUME NEW i \in 1..n + Props, NEW j \in 1..n + Props, ticking'[i] = ticking'[j]  PROVE i = j
      BY <1>4 DEF Distinct
    <3>1. CASE i \in 1..n /\ j \in 1..n
      BY <1>6, <2>1, <3>1 DEF Members, Distinct, n
    <3>2. CASE i \in 1..n /\ j \notin 1..n
      <4>1. PICK p \in 1..Props : j = n + p
        BY <1>8, <3>2
      <4>2. ticking'[i][1] # a /\ ticking'[j][1] = a
        BY <1>6, <1>7, <2>2, <2>3, <3>2, <4>1
      <4> QED
        BY <4>2
    <3>3. CASE i \notin 1..n /\ j \in 1..n
      <4>1. PICK p \in 1..Props : i = n + p
        BY <1>8, <3>3
      <4>2. ticking'[j][1] # a /\ ticking'[i][1] = a
        BY <1>6, <1>7, <2>2, <2>3, <3>3, <4>1
      <4> QED
        BY <4>2
    <3>4. CASE i \notin 1..n /\ j \notin 1..n
      <4>1. PICK p \in 1..Props : i = n + p
        BY <1>8, <3>4
      <4>2. PICK q \in 1..Props : j = n + q
        BY <1>8, <3>4
      <4>3. ticking'[i][2] = p /\ ticking'[j][2] = q
        BY <1>7, <2>3, <4>1, <4>2
      <4> QED
        BY <4>1, <4>2, <4>3
    <3> QED
      BY <3>1, <3>2, <3>3, <3>4
  <2>5. \A i \in 1..n + Props : ticking'[i][1] \in started'
    <3> SUFFICES ASSUME NEW i \in 1..n + Props  PROVE ticking'[i][1] \in started'
      OBVIOUS
    <3>1. CASE i \in 1..n
      BY <1>1, <1>6, <2>2, <3>1
    <3>2. CASE i \notin 1..n
      <4>1. PICK p \in 1..Props : i = n + p
        BY <1>8, <3>2
      <4> QED
        BY <1>1, <1>7, <2>3, <4>1
    <3> QED
      BY <3>1, <3>2
  <2>6. \A x \in started', p \in 1..Props : <<x, p>> \in finished' \union stopped' \union A!Range(ticking')
    <3> SUFFICES ASSUME NEW x \in started', NEW p \in 1..Props, <<x, p>> \notin finished, <<x, p>> \notin stopped
        PROVE  <<x, p>> \in A!Range(ticking')
      BY <1>1
    <3>1. CASE x = a
      <4>1. n + p \in 1..Len(ticking') /\ ticking'[n + p] = <<x, p>>
        BY <1>4, <1>7, <3>1
      <4> QED
        BY <1>4, <4>1, TimerRange
    <3>2. CASE x # a
      <4>1. <<x, p>> \in A!Range(ticking)
        BY <1>1, <2>1, <3>2 DEF Members
      <4>2. PICK k \in 1..n : ticking[k] = <<x, p>>
        BY <1>3, <4>1, TimerRange DEF n
      <4>3. k \in 1..Len(ticking') /\ ticking'[k] = <<x, p>>
        BY <1>4, <1>6, <4>2
      <4> QED
        BY <1>4, <4>3, TimerRange
    <3> QED
      BY <3>1, <3>2
  <2>7. Members'
    <3>1. Distinct(ticking)'
      BY <2>4 DEF Distinct
    <3>2. (\A x \in started, p \in 1..Props : <<x, p>> \in finished \union stopped \union A!Range(ticking))'
      BY <2>6 DEF A!Range
    <3>3. (\A i \in 1..Len(ticking) : ticking[i][1] \in started)'
      BY <1>4, <2>5
    <3>4. (\A t \in finished : t[1] \in started)'
      BY <1>1, <2>1 DEF Members
    <3> QED
      BY <3>1, <3>2, <3>3, <3>4 DEF Members
  <2>8. \A i \in 1..n + Props : ticking'[i] \in finished => i \in 1..n
    <3> SUFFICES ASSUME NEW i \in 1..n + Props, i \notin 1..n  PROVE ticking'[i] \notin finished
      OBVIOUS
    <3>1. PICK p \in 1..Props : i = n + p
      BY <1>8
    <3> QED
      BY <1>7, <2>3, <3>1
  <2>9. Spent'
    <3>1. A!Top' = A!Top
      BY <1>1 DEF A!Top, A!Last
    <3>2. CASE loops # <<>>
      <4>1. A!Top.index \in 1..n /\ \A i \in 1..n : ticking[i] \in finished <=> i = A!Top.index
        BY <1>1, <2>1, <3>2 DEF Spent, n
      <4>2. A!Top.index \in 1..n + Props
        BY <1>6, <4>1
      <4>3. \A i \in 1..n + Props : ticking'[i] \in finished <=> i = A!Top.index
        BY <1>6, <2>8, <4>1
      <4> QED
        BY <1>1, <1>4, <3>1, <3>2, <4>2, <4>3 DEF Spent
    <3>3. CASE loops = <<>>
      <4>1. \A i \in 1..n : ticking[i] \notin finished
        BY <2>1, <3>3 DEF Spent, n
      <4>2. \A i \in 1..n + Props : ticking'[i] \notin finished
        BY <1>6, <2>8, <4>1
      <4> QED
        BY <1>1, <1>4, <3>3, <4>2 DEF Spent
    <3> QED
      BY <3>2, <3>3
  <2>10. Completed' /\ Len(loops') <= 1
    BY <1>1, <2>1 DEF Completed
  <2> QED
    BY <2>7, <2>9, <2>10 DEF Followed
<1> QED
  BY <1>1, <1>9, <1>10, <1>11, <1>12 DEF AnimInv

\* What FxTimers sifts is what is sifted here.
LEMMA TimersSift == \A s, T : A!Sifted(s, T) = Sifted(s, T)
BY Zenon DEF A!Sifted, Sifted

LEMMA StopSafe ==
  ASSUME AnimInv, NEW e \in Elem, A!Stop(e)  PROVE AnimInv'
<1> DEFINE Others == {t \in A!Timer : A!TimerElem(t) # e}
<1>1. /\ control = "user" /\ meddled' = (meddled \/ loops # <<>>)
      /\ ticking' = A!Sifted(ticking, Others)
      /\ stopped' = stopped \union {t \in A!Range(ticking) : A!TimerElem(t) = e}
      /\ UNCHANGED <<raf, timerId, requested, started, due, finished, completed, loops, control>>
  BY DEF A!Stop, A!loop
<1>2. CallsOK /\ TimersOK /\ LoopOK /\ (~meddled => Followed) /\ meddled \in BOOLEAN
  BY DEF AnimInv, TimersOK
<1>3. ticking \in Seq(A!Timer) /\ \A t \in A!Range(ticking) : t \in A!Timer
  <2>1. ticking \in Seq(A!Timer)
    BY <1>2 DEF TimersOK
  <2>2. \A i \in 1..Len(ticking) : ticking[i] \in A!Timer
    BY <2>1
  <2> QED
    BY <2>1, <2>2, TimerRange
<1>4. ticking' = Sifted(ticking, Others)
  BY <1>1, TimersSift
<1>5. \A t \in A!Timer : t \in Others <=> A!TimerElem(t) # e
  OBVIOUS
<1> HIDE DEF Others
<1>6. /\ ticking' \in Seq(A!Timer)
      /\ \A i \in 1..Len(ticking') : \E j \in 1..Len(ticking) : ticking'[i] = ticking[j] /\ ticking[j] \in Others
      /\ \A j \in 1..Len(ticking) : ticking[j] \in Others => \E i \in 1..Len(ticking') : ticking'[i] = ticking[j]
      /\ Distinct(ticking) => Distinct(ticking')
  <2> DEFINE v == Sifted(ticking, Others)
             X == A!Timer
  <2>1. ticking \in Seq(X) /\ ticking' = v
    BY <1>3, <1>4
  <2> HIDE DEF X
  <2>2. /\ v \in Seq(X)
        /\ \A i \in 1..Len(v) : \E j \in 1..Len(ticking) : v[i] = ticking[j] /\ ticking[j] \in Others
        /\ \A j \in 1..Len(ticking) : ticking[j] \in Others => \E i \in 1..Len(v) : v[i] = ticking[j]
        /\ (\A i, j \in 1..Len(ticking) : ticking[i] = ticking[j] => i = j) =>
             \A i, j \in 1..Len(v) : v[i] = v[j] => i = j
    BY <2>1, SiftedIs, Zenon
  <2> HIDE DEF v
  <2>3. Distinct(ticking) => Distinct(v)
    BY <2>2 DEF Distinct
  <2> QED
    BY <2>1, <2>2, <2>3 DEF X
<1>7. CallsOK'
  BY <1>1, <1>2 DEF CallsOK
<1>8. stopped' \subseteq A!Timer /\ meddled' \in BOOLEAN
  BY <1>1, <1>2, <1>3 DEF TimersOK
<1>9. TimersOK'
  BY <1>1, <1>2, <1>6, <1>8 DEF TimersOK
<1>10. LoopOK'
  <2>1. ticking = <<>> => ticking' = <<>>
    <3> SUFFICES ASSUME ticking = <<>>  PROVE ticking' = <<>>
      OBVIOUS
    <3>1. Len(ticking) = 0
      OBVIOUS
    <3>2. \A i \in 1..Len(ticking') : FALSE
      BY <1>6, <3>1
    <3> QED
      BY <1>6, <3>2
  <2> QED
    BY <1>1, <1>2, <2>1, LoopStays
<1>11. ASSUME ~meddled'  PROVE Followed'
  <2>1. ~meddled /\ loops = <<>>
    BY <1>1, <1>11
  <2>2. Members /\ Completed /\ Len(loops) <= 1 /\ Spent
    BY <1>2, <2>1 DEF Followed
  <2>3. \A i \in 1..Len(ticking') : ticking'[i][1] \in started /\ ticking'[i] \notin finished
    <3>1. \A i \in 1..Len(ticking) : ticking[i][1] \in started /\ ticking[i] \notin finished
      BY <2>1, <2>2 DEF Members, Spent
    <3> QED
      BY <1>6, <3>1
  <2>4. \A a \in started, p \in 1..Props : <<a, p>> \in finished \union stopped' \union A!Range(ticking')
    <3> SUFFICES ASSUME NEW a \in started, NEW p \in 1..Props, <<a, p>> \notin finished, <<a, p>> \notin stopped'
        PROVE  <<a, p>> \in A!Range(ticking')
      OBVIOUS
    <3>1. <<a, p>> \in A!Range(ticking)
      BY <1>1, <2>2 DEF Members
    <3>2. <<a, p>> \in Others
      BY <1>1, <1>3, <1>5, <3>1
    <3>3. PICK k \in 1..Len(ticking) : ticking[k] = <<a, p>>
      BY <1>3, <3>1, TimerRange
    <3>4. \E i \in 1..Len(ticking') : ticking'[i] = <<a, p>>
      BY <1>6, <3>2, <3>3
    <3> QED
      BY <1>6, <3>4, TimerRange
  <2>5. Members'
    <3>1. Distinct(ticking)'
      BY <1>6, <2>2 DEF Members, Distinct
    <3>2. (\A a \in started, p \in 1..Props : <<a, p>> \in finished \union stopped \union A!Range(ticking))'
      BY <1>1, <2>4 DEF A!Range
    <3>3. (\A t \in finished : t[1] \in started)'
      BY <1>1, <2>2 DEF Members
    <3> QED
      BY <1>1, <2>3, <3>1, <3>2, <3>3 DEF Members
  <2>6. Spent'
    BY <1>1, <2>1, <2>3 DEF Spent
  <2>7. Completed' /\ Len(loops') <= 1
    BY <1>1, <2>2 DEF Completed
  <2> QED
    BY <2>5, <2>6, <2>7 DEF Followed
<1> QED
  BY <1>7, <1>9, <1>10, <1>11 DEF AnimInv

LEMMA AnimStep ==
  ASSUME AnimInv, [A!Next]_(A!vars)  PROVE AnimInv'
<1>1. ASSUME NEW a \in Anim, A!Animate(a)  PROVE AnimInv'
  BY <1>1, AnimateSafe
<1>2. ASSUME NEW a \in Anim, A!Expire(a)  PROVE AnimInv'
  BY <1>2, ExpireSafe
<1>3. ASSUME NEW e \in Elem, A!Stop(e)  PROVE AnimInv'
  BY <1>3, StopSafe
<1>4. ASSUME NEW e \in Elem, A!StopAtEnd(e)  PROVE AnimInv'
  BY <1>4, StopAtEndSafe
<1>5. CASE A!Begin
  BY <1>5, BeginSafe
<1>6. CASE A!Engine
  BY <1>6, TickSafe, TickEndsSafe, StopStepsSafe, StopEndsSafe DEF A!Engine
<1>7. CASE A!Return
  BY <1>7, TimerReturnSafe
<1>8. CASE A!Throw
  BY <1>8, TimerThrowSafe
<1>9. CASE UNCHANGED A!vars
  <2>1. UNCHANGED <<raf, meddled, ticking, timerId, requested, started, due, finished, stopped, completed, loops, control>>
    BY <1>9 DEF A!vars, A!loop
  <2>2. CallsOK' /\ TimersOK' /\ LoopOK'
    BY <2>1 DEF AnimInv, CallsOK, TimersOK, LoopOK
  <2>3. ASSUME ~meddled  PROVE Followed'
    BY <2>1, <2>3 DEF AnimInv, Followed, Members, Completed, Distinct, Spent, A!Range, A!Top, A!Last
  <2> QED
    BY <2>1, <2>2, <2>3 DEF AnimInv
<1> QED
  BY <1>1, <1>2, <1>3, <1>4, <1>5, <1>6, <1>7, <1>8, <1>9 DEF A!Next

LEMMA AnimInvAlways == A!Spec => []AnimInv
<1>1. A!Init => AnimInv
  BY AnimInitially
<1>2. AnimInv /\ [A!Next]_(A!vars) => AnimInv'
  BY AnimStep
<1> QED
  BY <1>1, <1>2, PTL DEF A!Spec

-----------------------------------------------------------------------------
\* The types of the variables of FxQueue and of FxTimers.
LEMMA QueueVariables == Q!Spec => []Q!TypeOK
<1>1. QueueInv => Q!TypeOK
  <2> SUFFICES ASSUME QueueInv PROVE Q!TypeOK
    OBVIOUS
  <2>1. QueueTypes /\ PromisesOK
    BY DEF QueueInv
  <2>2. arrays \in Seq(Seq(0..MaxQueued)) /\ queue \in 0..Len(arrays)
    BY <2>1 DEF QueueTypes, Heap
  <2> QED
    BY <2>1, <2>2 DEF QueueTypes, PromisesOK, Q!TypeOK
<1> QED
  BY <1>1, QueueInvAlways, PTL

LEMMA TimerVariables == A!Spec => []A!TypeOK
<1>1. AnimInv => A!TypeOK
  BY DEF AnimInv, CallsOK, TimersOK, LoopOK, A!TypeOK
<1> QED
  BY <1>1, AnimInvAlways, PTL

\* The variables of the four modules keep their types: indices stay indices, the sentinel stays
\* where it belongs, and a handler that is called is one that was bound.
THEOREM PageIsTyped == Spec /\ E!Spec /\ Q!Spec /\ A!Spec => []PageTypes
<1>1. TypeOK /\ E!TypeOK /\ Q!TypeOK /\ A!TypeOK => PageTypes
  BY DEF PageTypes
<1>2. IInv => TypeOK
  BY DEF IInv
<1> QED
  BY <1>1, <1>2, Invariance, EventTypes, QueueVariables, TimerVariables, PTL

\* Whatever functions and callbacks do while they run: a queue of type fx that functions wait in
\* has one under way, timers that wait have a frame to come, and the interval is one loop.  While
\* none meddles: nothing queued or started is lost, and an animation completes once (1706-1830,
\* 8353-8482).
THEOREM WorkIsAttended == Q!Spec /\ A!Spec => []AttendedOnce
<1>1. QueueInv => Q!Attended /\ Q!NothingLost /\ Q!Notified
  BY DEF QueueInv, PromisesOK
<1>2. AnimInv => A!Driven /\ A!OneLoop
  <2> SUFFICES ASSUME AnimInv PROVE A!Driven /\ A!OneLoop
    OBVIOUS
  <2>1. LoopOK
    BY DEF AnimInv
  <2>2. requested \in 0..MaxRequested /\ MaxRequested \in Nat
    BY <2>1, TimerAssumption DEF LoopOK, A!AnimAssumption
  <2>3. A!Driven
    BY <2>1, <2>2 DEF LoopOK, A!Driven
  <2>4. A!OneLoop
    BY <2>1, <2>2 DEF LoopOK, A!OneLoop
  <2> QED
    BY <2>3, <2>4
<1>3. AnimInv => A!Kept /\ A!NoneSpent /\ A!CompletesOnce
  <2> SUFFICES ASSUME AnimInv, ~meddled
      PROVE  /\ \A a \in started, p \in 1..Props : <<a, p>> \in finished \union stopped \union A!Range(ticking)
             /\ loops = <<>> => A!Range(ticking) \cap finished = {}
             /\ \A a \in Anim : completed[a] <= 1
    BY DEF A!Kept, A!NoneSpent, A!CompletesOnce
  <2>1. Followed /\ ticking \in Seq(A!Timer)
    BY DEF AnimInv, TimersOK
  <2>2. ASSUME loops = <<>>  PROVE A!Range(ticking) \cap finished = {}
    <3>1. \A i \in 1..Len(ticking) : ticking[i] \notin finished
      BY <2>1, <2>2 DEF Followed, Spent
    <3>2. \A t \in A!Range(ticking) : t \notin finished
      BY <2>1, <3>1, TimerRange
    <3> QED
      BY <3>2
  <2> QED
    BY <2>1, <2>2 DEF Followed, Members, Completed
<1>4. QueueInv /\ AnimInv => AttendedOnce
  BY <1>1, <1>2, <1>3 DEF AttendedOnce, Attended, OnceEach
<1> QED
  BY <1>4, QueueInvAlways, AnimInvAlways, PTL
=============================================================================
