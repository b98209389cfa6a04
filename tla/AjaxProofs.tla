----------------------------- MODULE AjaxProofs -----------------------------
(*****************************************************************************)
(* Proofs about AjaxRequest for any number of requests, options and depth    *)
(* of the stack.  User code may abort, throw, or make further requests at    *)
(* every point where it is called; what is known of a request is therefore   *)
(* stated of its frames, wherever they are on the stack.  FramesInv holds    *)
(* whatever user code does; PoliteInv, from which the counter follows, as    *)
(* long as it does nothing rude.                                             *)
(*                                                                           *)
(* The next part is about Jsonp, for any number of requests: JsonpInv ties   *)
(* each name to the one request whose function may be behind it.             *)
(*                                                                           *)
(* The last is about AjaxTypes, for any data types that are asked for:       *)
(* WayInv says that the types ahead always lead to what is wanted, and where *)
(* the value at hand comes from.                                             *)
(*****************************************************************************)
EXTENDS Requests, FiniteSetTheorems, TLAPS

-----------------------------------------------------------------------------
\* The sequence t is s with the frame f on top.
Pushed(t, s, f) ==
  /\ t \in Seq(Frame) /\ Len(t) = Len(s) + 1 /\ t[Len(t)] = f
  /\ \A i \in 1..Len(s) : t[i] = s[i]

\* What Append makes of a stack.
LEMMA AppendIs ==
  ASSUME NEW s \in Seq(Frame), NEW f \in Frame
  PROVE  Pushed(Append(s, f), s, f)
BY DEF Pushed

\* What remains of a stack when frames are ended.
LEMMA PrefixIs ==
  ASSUME stack \in Seq(Frame), NEW k \in 0..Len(stack)
  PROVE  /\ SubSeq(stack, 1, k) \in Seq(Frame) /\ Len(SubSeq(stack, 1, k)) = k
         /\ \A i \in 1..k : SubSeq(stack, 1, k)[i] = stack[i]
OBVIOUS

\* The topmost frame, and what is below it.
LEMMA StackIs ==
  ASSUME stack \in Seq(Frame), stack # <<>>
  PROVE  /\ Len(stack) \in Nat \ {0} /\ Top \in Frame /\ Top = stack[Len(stack)]
         /\ Below \in Seq(Frame) /\ Len(Below) = Len(stack) - 1
         /\ \A i \in 1..(Len(stack) - 1) : Below[i] = stack[i]
<1>1. Len(stack) \in Nat \ {0}
  OBVIOUS
<1>2. Top \in Frame /\ Top = stack[Len(stack)]
  BY <1>1 DEF Top
<1>3. /\ Below \in Seq(Frame) /\ Len(Below) = Len(stack) - 1
      /\ \A i \in 1..(Len(stack) - 1) : Below[i] = stack[i]
  <2> DEFINE n == Len(stack) - 1
  <2>1. n \in 0..Len(stack)
    BY <1>1
  <2> HIDE DEF n
  <2>2. Below = SubSeq(stack, 1, n)
    BY DEF Below, n
  <2>3. /\ Below \in Seq(Frame) /\ Len(Below) = n /\ \A i \in 1..n : Below[i] = stack[i]
    BY <2>1, <2>2, PrefixIs
  <2> QED
    BY <2>3 DEF n
<1> QED
  BY <1>1, <1>2, <1>3

\* The stack when its topmost frame is at another point.
Moved(p) == [stack EXCEPT ![Len(stack)].at = p]

\* Only that frame changes.
LEMMA MovedIs ==
  ASSUME stack \in Seq(Frame), stack # <<>>, NEW p \in Point
  PROVE  /\ Moved(p) \in Seq(Frame) /\ Len(Moved(p)) = Len(stack)
         /\ Moved(p)[Len(stack)] = [req |-> Top.req, at |-> p, first |-> Top.first]
         /\ \A i \in 1..(Len(stack) - 1) : Moved(p)[i] = stack[i]
<1>1. Len(stack) \in Nat \ {0} /\ Top \in Frame /\ stack[Len(stack)] = Top
  BY StackIs
<1>2. [Top EXCEPT !.at = p] = [req |-> Top.req, at |-> p, first |-> Top.first]
      /\ [Top EXCEPT !.at = p] \in Frame
  BY <1>1 DEF Frame
<1>3. Moved(p) = [stack EXCEPT ![Len(stack)] = [Top EXCEPT !.at = p]]
  BY <1>1 DEF Moved
<1> QED
  BY <1>1, <1>2, <1>3

-----------------------------------------------------------------------------
\* The types of done's part of the state, and of the stack below it.
LEMMA FinishTypes ==
  ASSUME TypeOK, NEW r \in Request, NEW verdict \in {"success", "error"}, NEW rest \in Seq(Frame),
         Finish(r, verdict, rest)
  PROVE  /\ state' \in [Request -> -1..2] /\ timer' \in [Request -> BOOLEAN]
         /\ transport' \in [Request -> BOOLEAN] /\ runs' \in [Request -> Nat]
         /\ outcome' \in [Request -> {"pending", "success", "error"}] /\ stack' \in Seq(Frame)
<1>1. [req |-> r, at |-> "settle", first |-> outcome[r] = "pending"] \in Frame
  BY DEF Frame, Point
<1>2. stack' \in Seq(Frame)
  BY <1>1, AppendIs DEF Finish, Pushed
<1> QED
  BY <1>2 DEF Finish, TypeOK

\* The same of done, which does nothing when it has run before.
LEMMA DoneTypes ==
  ASSUME TypeOK, NEW r \in Request, NEW verdict \in {"success", "error"}, NEW rest \in Seq(Frame),
         Done(r, verdict, rest)
  PROVE  /\ state' \in [Request -> -1..2] /\ timer' \in [Request -> BOOLEAN]
         /\ transport' \in [Request -> BOOLEAN] /\ runs' \in [Request -> Nat]
         /\ outcome' \in [Request -> {"pending", "success", "error"}] /\ stack' \in Seq(Frame)
<1>1. CASE Finish(r, verdict, rest)
  BY <1>1, FinishTypes
<1>2. CASE stack' = rest /\ UNCHANGED <<state, timer, transport, outcome, runs>>
  BY <1>2 DEF TypeOK
<1> QED
  BY <1>1, <1>2 DEF Done

\* The types hold for every set of requests and options.
THEOREM TypeCorrect == Spec => []TypeOK
<1>1. Init => TypeOK
  <2> SUFFICES ASSUME Init PROVE TypeOK
    OBVIOUS
  <2>0. <<>> \in Seq(Frame)
    OBVIOUS
  <2>1. stack \in Seq(Frame) /\ active \in Int /\ running \in BOOLEAN /\ rude \in BOOLEAN
    <3>1. stack \in Seq(Frame)
      BY <2>0 DEF Init
    <3>2. active \in Int
      BY DEF Init
    <3>3. running \in BOOLEAN /\ rude \in BOOLEAN
      BY DEF Init
    <3> QED
      BY <3>1, <3>2, <3>3
  <2>2. /\ opts \in [Request -> Options] /\ state \in [Request -> -1..2]
        /\ outcome \in [Request -> {"pending", "success", "error"}] /\ runs \in [Request -> Nat]
    <3>1. -1 \in -1..2 /\ 0 \in Nat
      OBVIOUS
    <3> QED
      BY <3>1 DEF Init
  <2>3. /\ transport \in [Request -> BOOLEAN] /\ listening \in [Request -> BOOLEAN]
        /\ timer \in [Request -> BOOLEAN] /\ counted \in [Request -> BOOLEAN]
        /\ completed \in [Request -> BOOLEAN] /\ sent \in [Request -> BOOLEAN]
        /\ aborted \in [Request -> BOOLEAN]
    BY DEF Init
  <2> QED
    BY <2>1, <2>2, <2>3 DEF TypeOK
<1>2. TypeOK /\ [Next]_vars => TypeOK'
  <2> SUFFICES ASSUME TypeOK, [Next]_vars PROVE TypeOK'
    OBVIOUS
  <2>0. stack \in Seq(Frame) /\ (stack # <<>> => Top \in Frame /\ Top.req \in Request /\ Below \in Seq(Frame))
    BY StackIs DEF TypeOK, Frame
  <2>a. ASSUME NEW p \in Point, stack # <<>>, Go(p) PROVE stack' \in Seq(Frame)
    BY <2>a, <2>0, MovedIs DEF Go, Moved
  <2>b. ASSUME NEW r \in Request, NEW rest \in Seq(Frame), AbortWith(r, rest),
               UNCHANGED <<opts, counted, completed, active, sent, running>>, rude' \in BOOLEAN
        PROVE  TypeOK'
    <3>1. aborted' \in [Request -> BOOLEAN] /\ listening' \in [Request -> BOOLEAN]
      BY <2>b DEF AbortWith, TypeOK
    <3> QED
      BY <2>b, <3>1, DoneTypes DEF AbortWith, TypeOK
  <2>c. ASSUME NEW r \in Request, NEW rest \in Seq(Frame), NEW verdict \in {"success", "error"},
               Done(r, verdict, rest) \/ Finish(r, verdict, rest), listening' \in [Request -> BOOLEAN],
               sent' \in [Request -> BOOLEAN],
               UNCHANGED <<opts, counted, completed, active, aborted, running, rude>>
        PROVE  TypeOK'
    BY <2>c, DoneTypes, FinishTypes DEF TypeOK
  <2>d. ASSUME NEW p \in Point, stack # <<>>, Go(p), UNCHANGED <<request, active, history>>
        PROVE  TypeOK'
    BY <2>a, <2>d DEF TypeOK, request, history
  <2>e. ASSUME stack # <<>>, stack' = Below, UNCHANGED <<request, active, history>>
        PROVE  TypeOK'
    BY <2>e, <2>0 DEF TypeOK, request, history
  <2> USE DEF Point
  <2>1. ASSUME NEW r \in Request, Ajax(r) PROVE TypeOK'
    <3>1. [req |-> r, at |-> "prefilter", first |-> TRUE] \in Frame
      BY DEF Frame
    <3>2. stack' \in Seq(Frame)
      BY <2>1, <2>0, <3>1, AppendIs DEF Ajax, Pushed
    <3> QED
      BY <2>1, <3>2 DEF Ajax, TypeOK, history
  <2>2. ASSUME NEW r \in Request, Abort(r) PROVE TypeOK'
    <3>1. rude' \in BOOLEAN /\ AbortWith(r, stack)
          /\ UNCHANGED <<opts, counted, completed, active, sent, running>>
      BY <2>2 DEF Abort, TypeOK
    <3> QED
      BY <2>0, <2>b, <3>1
  <2>3. CASE Throw
    <3>1. PICK k \in 0..Len(stack) - 1 :
            stack' = SubSeq(stack, 1, k) \/ (k > 0 /\ stack' = SubSeq(stack, 1, k - 1))
      BY <2>3 DEF Throw
    <3>2. stack' \in Seq(Frame)
      BY <2>0, <3>1, PrefixIs
    <3> QED
      BY <2>3, <3>2 DEF Throw, TypeOK, request
  <2>4. CASE Begin
    <3>1. CASE stack' = Below /\ UNCHANGED <<request, active, history>>
      BY <2>4, <3>1, <2>e DEF Begin, At
    <3>2. CASE counted' = [counted EXCEPT ![Top.req] = opts[Top.req].global]
               /\ active' = active + (IF opts[Top.req].global THEN 1 ELSE 0)
               /\ running' = (running \/ (opts[Top.req].global /\ active = 0))
               /\ Go(IF opts[Top.req].global /\ active = 0 THEN "start" ELSE "beforeSend")
               /\ UNCHANGED <<opts, state, transport, listening, timer, outcome, completed,
                              sent, aborted, runs, rude>>
      <4>1. opts[Top.req] \in OptionType
        BY <2>0, <2>4, OptionsAssumption DEF Begin, At, TypeOK
      <4>2. counted' \in [Request -> BOOLEAN] /\ active' \in Int /\ running' \in BOOLEAN
        <5>1. opts[Top.req].global \in BOOLEAN
          BY <4>1 DEF OptionType
        <5>2. active' \in Int
          BY <3>2, <5>1 DEF TypeOK
        <5>3. counted' \in [Request -> BOOLEAN]
          BY <3>2, <5>1 DEF TypeOK
        <5>4. running' \in BOOLEAN
          BY <3>2
        <5> QED
          BY <5>2, <5>3, <5>4
      <4>3. stack' \in Seq(Frame)
        BY <2>4, <2>a, <3>2 DEF Begin, At
      <4> QED
        BY <3>2, <4>2, <4>3 DEF TypeOK
    <3> QED
      BY <2>4, <3>1, <3>2 DEF Begin
  <2>5. CASE Started
    BY <2>5, <2>d DEF Started, At
  <2>6. CASE Veto
    <3>1. stack # <<>> /\ AbortWith(Top.req, Below)
          /\ UNCHANGED <<opts, counted, completed, active, sent, running, rude>>
      BY <2>6 DEF Veto, At
    <3> QED
      BY <2>0, <2>b, <3>1 DEF TypeOK
  <2>7. CASE NoTransport
    <3>1. stack # <<>> /\ Done(Top.req, "error", Below)
          /\ UNCHANGED <<opts, listening, counted, completed, active, sent, aborted, running, rude>>
      BY <2>7 DEF NoTransport, Passed, At
    <3>2. listening' \in [Request -> BOOLEAN] /\ sent' \in [Request -> BOOLEAN]
      BY <3>1 DEF TypeOK
    <3> QED
      BY <2>0, <2>c, <3>1, <3>2
  <2>8. CASE GetTransport
    <3>1. stack # <<>> /\ Go("ajaxSend") /\ transport' = [transport EXCEPT ![Top.req] = TRUE]
      BY <2>8 DEF GetTransport, Passed, At
    <3>2. stack' \in Seq(Frame)
      BY <2>a, <3>1
    <3> QED
      BY <2>8, <3>1, <3>2 DEF GetTransport, TypeOK, history
  <2>9. CASE Send
    <3>1. stack # <<>> /\ stack' = Below
      BY <2>9 DEF Send, At
    <3>2. opts[Top.req] \in OptionType
      BY <2>0, <3>1, OptionsAssumption DEF TypeOK
    <3>3. timer' \in [Request -> BOOLEAN]
      BY <2>9, <3>2 DEF Send, SendWith, TypeOK, OptionType
    <3> QED
      BY <2>0, <2>9, <3>1, <3>3 DEF Send, TypeOK
  <2>10. CASE SendAndAnswer
    <3>1. stack # <<>> /\ Moved("sending") = [stack EXCEPT ![Len(stack)].at = "sending"]
          /\ UNCHANGED <<opts, listening, counted, completed, active, aborted, running, rude>>
      BY <2>10 DEF SendAndAnswer, At, Moved
    <3>2. Moved("sending") \in Seq(Frame)
      BY <2>0, <3>1, MovedIs
    <3>3. PICK verdict \in {"success", "error"} : Finish(Top.req, verdict, Moved("sending"))
      BY <2>10, <3>1 DEF SendAndAnswer
    <3>4. listening' \in [Request -> BOOLEAN] /\ sent' \in [Request -> BOOLEAN]
      BY <2>10, <3>1 DEF SendAndAnswer, TypeOK
    <3> QED
      BY <2>0, <2>c, <3>1, <3>2, <3>3, <3>4
  <2>11. CASE SendFails
    <3>1. stack # <<>> /\ Finish(Top.req, "error", Below)
          /\ UNCHANGED <<opts, listening, counted, completed, active, sent, aborted, running, rude>>
      BY <2>11 DEF SendFails, At
    <3>2. listening' \in [Request -> BOOLEAN] /\ sent' \in [Request -> BOOLEAN]
      BY <3>1 DEF TypeOK
    <3> QED
      BY <2>0, <2>c, <3>1, <3>2
  <2>12. CASE Sent \/ Stopped
    BY <2>12, <2>e DEF Sent, Stopped, At
  <2>13. ASSUME NEW r \in Request, Answer(r) PROVE TypeOK'
    <3>1. stack = <<>> /\ <<>> \in Seq(Frame)
          /\ UNCHANGED <<opts, counted, completed, active, sent, aborted, running, rude>>
      BY <2>13 DEF Answer
    <3>2. PICK verdict \in {"success", "error"} : Done(r, verdict, <<>>)
      BY <2>13 DEF Answer
    <3>3. listening' \in [Request -> BOOLEAN] /\ sent' \in [Request -> BOOLEAN]
      BY <2>13, <3>1 DEF Answer, TypeOK
    <3> QED
      BY <2>c, <3>1, <3>2, <3>3
  <2>14. ASSUME NEW r \in Request, Expire(r) PROVE TypeOK'
    <3>1. AbortWith(r, <<>>) /\ <<>> \in Seq(Frame)
          /\ UNCHANGED <<opts, counted, completed, active, sent, running, rude>>
      BY <2>14 DEF Expire
    <3> QED
      BY <2>b, <3>1 DEF TypeOK
  <2>15. CASE Told
    BY <2>15, <2>d DEF Told, At
  <2>16. CASE Complete
    <3>1. stack # <<>> /\ stack' = Append(Below, [req |-> Top.req, at |-> "complete", first |-> ~completed[Top.req]])
          /\ completed' = [completed EXCEPT ![Top.req] = TRUE]
      BY <2>16 DEF Complete, At
    <3>2. [req |-> Top.req, at |-> "complete", first |-> ~completed[Top.req]] \in Frame
      BY <2>0, <3>1 DEF Frame
    <3>3. stack' \in Seq(Frame)
      BY <2>0, <3>1, <3>2, AppendIs DEF Pushed
    <3> QED
      BY <2>16, <3>1, <3>3 DEF Complete, TypeOK, history
  <2>17. CASE Completed
    BY <2>17, <2>d, <2>e DEF Completed, At
  <2>18. CASE Uncount
    <3>a. stack # <<>> /\ active' = active - 1
      BY <2>18 DEF Uncount, At
    <3>b. active' \in Int
      BY <3>a DEF TypeOK
    <3>c. running' \in BOOLEAN /\ (Go("stop") \/ stack' = Below)
      <4>1. CASE active' = 0
        BY <2>18, <4>1 DEF Uncount
      <4>2. CASE active' # 0
        BY <2>18, <4>2 DEF Uncount, TypeOK
      <4> QED
        BY <4>1, <4>2
    <3>1. stack # <<>> /\ active' \in Int /\ running' \in BOOLEAN /\ (Go("stop") \/ stack' = Below)
      BY <3>a, <3>b, <3>c
    <3>2. stack' \in Seq(Frame)
      BY <2>0, <2>a, <3>1
    <3> QED
      BY <2>18, <3>1, <3>2 DEF Uncount, TypeOK, request
  <2>19. CASE UNCHANGED vars
    BY <2>19 DEF vars, TypeOK, request, history
  <2> QED
    BY <2>1, <2>2, <2>3, <2>4, <2>5, <2>6, <2>7, <2>8, <2>9, <2>10, <2>11, <2>12, <2>13, <2>14, <2>15,
       <2>16, <2>17, <2>18, <2>19
    DEF Next, User, Engine, Browser
<1> QED
  BY <1>1, <1>2, PTL DEF Spec

-----------------------------------------------------------------------------
(***************************************************************************)
(* What the frames of a request tell about it.                             *)
(***************************************************************************)

\* Where ajax has not handed the request over yet; elsewhere it is done that runs.
Asking == {"prefilter", "start", "beforeSend", "ajaxSend", "sending"}

\* Whatever user code does: ajax runs once for a request, and until it is through the
\* request has not succeeded.
Loose(r) ==
  /\ state[r] = -1 => ~counted[r] /\ \A i \in DOMAIN stack : stack[i].req # r
  /\ \A i, j \in DOMAIN stack :
       /\ stack[i].req = r /\ stack[i].at \in Asking
       /\ stack[j].req = r /\ stack[j].at \in Asking
       => i = j
  /\ \A i \in DOMAIN stack :
       stack[i].req = r /\ stack[i].at \in Asking \ {"sending"} => outcome[r] # "success"
  /\ state[r] # 2 => outcome[r] # "success"
  /\ aborted[r] => outcome[r] = "error"
  /\ state[r] = 1 => listening[r]

\* What the request r is like when a frame of it is at p.
Standing(r, p) ==
  /\ p \notin Asking \ {"sending"} => state[r] = 2
  /\ p = "prefilter" => ~counted[r] /\ state[r] \in {0, 2}
  /\ p \in {"start", "ajaxSend"} => state[r] = 0
  /\ p = "beforeSend" => state[r] \in {0, 2} /\ (opts[r].before \/ state[r] = 0)
  /\ p \in {"event", "eventComplete", "stop"} => counted[r]

Stands(r) == \A i \in DOMAIN stack : stack[i].req = r => Standing(r, stack[i].at)

\* As long as user code is polite: done runs once for a request, which is not sent when it
\* was aborted before, and nothing of it goes on when it is done.
Polite(r) ==
  /\ \A i, j \in DOMAIN stack :
       /\ stack[i].req = r /\ stack[i].at \notin Asking
       /\ stack[j].req = r /\ stack[j].at \notin Asking
       => i = j
  /\ Stands(r)
  /\ runs[r] = IF state[r] = 2 THEN 1 ELSE 0
  /\ aborted[r] => state[r] = 2
  /\ listening[r] \/ timer[r] => state[r] = 1
  /\ listening[r] => transport[r]
  /\ transport[r] => \/ state[r] = 1
                     \/ \E i \in DOMAIN stack : stack[i].req = r /\ stack[i].at = "ajaxSend"

\* A frame that others were put upon is where user code runs.
Waits == \A i \in DOMAIN stack :
  i # Len(stack) /\ stack[i].at = "beforeSend" => opts[stack[i].req].before

\* jQuery.active is right.
Right ==
  /\ IsFiniteSet({r \in Request : Pending(r)})
  /\ active = Cardinality({r \in Request : Pending(r)})
  /\ running <=> active > 0

FramesInv == TypeOK /\ Waits /\ \A r \in Request : Loose(r)
PoliteInv == ~rude => Right /\ \A r \in Request : Polite(r)

-----------------------------------------------------------------------------
\* The sequences s and t have the same frames of r, at the same places.
SameOf(r, s, t) ==
  /\ \A i \in DOMAIN s : s[i].req = r => i \in DOMAIN t /\ t[i] = s[i]
  /\ \A i \in DOMAIN t : t[i].req = r => i \in DOMAIN s /\ t[i] = s[i]

\* A step does nothing to the request r.
Untouched(r) ==
  /\ SameOf(r, stack, stack')
  /\ opts'[r] = opts[r] /\ state'[r] = state[r] /\ transport'[r] = transport[r]
  /\ listening'[r] = listening[r] /\ timer'[r] = timer[r] /\ counted'[r] = counted[r]
  /\ outcome'[r] = outcome[r] /\ aborted'[r] = aborted[r] /\ runs'[r] = runs[r]

\* A step changes the request q alone, and what is known of it remains so.
Keeps(q) ==
  /\ \A r \in Request \ {q} : Untouched(r)
  /\ Loose(q)'
  /\ Waits'
  /\ ~rude' => ~rude
  /\ ~rude' /\ Polite(q) => Polite(q)'

\* It does not change whether the request counts.
Calm(q) == ~rude' /\ Polite(q) => (Pending(q)' <=> Pending(q))

\* What is known of a request that is not touched remains so.
LEMMA OtherKept ==
  ASSUME NEW r \in Request, Untouched(r)
  PROVE  /\ Loose(r) => Loose(r)'
         /\ Polite(r) => Polite(r)'
         /\ Pending(r)' <=> Pending(r)
<1>1. Loose(r) => Loose(r)'
  BY DEF Untouched, SameOf, Loose
<1>2. ASSUME Polite(r) PROVE Polite(r)'
  <2>1. \A i \in DOMAIN stack' : stack'[i].req = r => i \in DOMAIN stack /\ stack'[i] = stack[i]
    BY DEF Untouched, SameOf
  <2>2. Stands(r)
    BY <1>2 DEF Polite
  <2>3. Stands(r)'
    BY <2>1, <2>2 DEF Stands, Standing, Untouched
  <2>4. transport[r] => \/ state[r] = 1
                        \/ \E i \in DOMAIN stack' : stack'[i].req = r /\ stack'[i].at = "ajaxSend"
    BY <1>2 DEF Polite, Untouched, SameOf
  <2> QED
    BY <1>2, <2>1, <2>3, <2>4 DEF Polite, Untouched
<1>3. Pending(r)' <=> Pending(r)
  BY DEF Pending, Telling, Untouched, SameOf
<1> QED
  BY <1>1, <1>2, <1>3

\* The topmost frame and those below it, without numbers.
LEMMA TopIs ==
  ASSUME stack \in Seq(Frame), stack # <<>>
  PROVE  /\ Len(stack) \in DOMAIN stack /\ Top = stack[Len(stack)] /\ Top \in Frame
         /\ Below \in Seq(Frame) /\ DOMAIN Below = DOMAIN stack \ {Len(stack)}
         /\ \A i \in DOMAIN Below : Below[i] = stack[i] /\ i # Len(stack)
<1>1. /\ Len(stack) \in Nat \ {0} /\ Top \in Frame /\ Top = stack[Len(stack)]
      /\ Below \in Seq(Frame) /\ Len(Below) = Len(stack) - 1
      /\ \A i \in 1..(Len(stack) - 1) : Below[i] = stack[i]
  BY StackIs
<1>2. DOMAIN Below = 1..(Len(stack) - 1) /\ DOMAIN stack = 1..Len(stack)
  BY <1>1
<1> QED
  BY <1>1, <1>2

\* The stack with its topmost frame at another point, without numbers.
LEMMA MoveIs ==
  ASSUME stack \in Seq(Frame), stack # <<>>, NEW p \in Point
  PROVE  /\ Moved(p) \in Seq(Frame) /\ DOMAIN Moved(p) = DOMAIN stack /\ Len(Moved(p)) = Len(stack)
         /\ Moved(p)[Len(stack)].req = Top.req /\ Moved(p)[Len(stack)].at = p
         /\ \A i \in DOMAIN stack : i # Len(stack) => Moved(p)[i] = stack[i]
<1>1. /\ Moved(p) \in Seq(Frame) /\ Len(Moved(p)) = Len(stack)
      /\ Moved(p)[Len(stack)] = [req |-> Top.req, at |-> p, first |-> Top.first]
      /\ \A i \in 1..(Len(stack) - 1) : Moved(p)[i] = stack[i]
  BY MovedIs
<1>2. DOMAIN stack = 1..Len(stack) /\ DOMAIN Moved(p) = 1..Len(stack) /\ Len(stack) \in Nat
  BY <1>1
<1> QED
  BY <1>1, <1>2

\* A stack with a frame more, without numbers.
LEMMA PushIs ==
  ASSUME NEW s \in Seq(Frame), NEW f \in Frame
  PROVE  /\ Append(s, f) \in Seq(Frame) /\ Len(Append(s, f)) \notin DOMAIN s
         /\ DOMAIN Append(s, f) = DOMAIN s \union {Len(Append(s, f))}
         /\ Append(s, f)[Len(Append(s, f))] = f
         /\ \A i \in DOMAIN s : Append(s, f)[i] = s[i]
<1>1. /\ Append(s, f) \in Seq(Frame) /\ Len(Append(s, f)) = Len(s) + 1 /\ Len(s) \in Nat
      /\ Append(s, f)[Len(Append(s, f))] = f /\ \A i \in 1..Len(s) : Append(s, f)[i] = s[i]
  BY AppendIs DEF Pushed
<1>2. DOMAIN s = 1..Len(s) /\ DOMAIN Append(s, f) = 1..(Len(s) + 1)
  BY <1>1
<1> QED
  BY <1>1, <1>2

-----------------------------------------------------------------------------
\* The frames rest are those of the stack, perhaps without the topmost one, which is of q, or
\* with that at "sending"; user code may run where a frame is put upon them.
Rest(q, rest) ==
  /\ \A r \in Request \ {q} : SameOf(r, stack, rest)
  /\ \A i \in DOMAIN rest : rest[i].req = q =>
       /\ i \in DOMAIN stack /\ stack[i].req = q
       /\ rest[i] = stack[i] \/ (rest[i].at = "sending" /\ stack[i].at = "ajaxSend")
  /\ \A i \in DOMAIN rest : rest[i].at = "beforeSend" => opts[rest[i].req].before

\* Where done is called, the step changes no request but q, and no options; the transport may
\* call back no more than before.
Steady(q) ==
  /\ \A r \in Request \ {q} : aborted'[r] = aborted[r] /\ listening'[r] = listening[r]
  /\ listening'[q] => listening[q]
  /\ opts' = opts /\ counted' = counted
  /\ ~rude' => ~rude

\* done past its first line.
LEMMA FinishKeeps ==
  ASSUME TypeOK, NEW q \in Request, Loose(q), outcome[q] # "success",
         NEW verdict \in {"success", "error"}, NEW rest \in Seq(Frame), Rest(q, rest),
         Finish(q, verdict, rest), Steady(q),
         aborted'[q] => aborted[q] \/ verdict = "error",
         \/ verdict = "error"
         \/ \A i \in DOMAIN rest : rest[i].req = q => rest[i].at \notin Asking \ {"sending"},
         ~rude' /\ Polite(q) =>
           /\ state[q] # 2 /\ ~listening'[q]
           /\ \A i \in DOMAIN rest : rest[i].req = q => rest[i].at \notin {"start", "ajaxSend"}
  PROVE  Keeps(q) /\ Calm(q)
<1> DEFINE f == [req |-> q, at |-> "settle", first |-> outcome[q] = "pending"]
           n == Len(Append(rest, f))
<1>1. f \in Frame /\ f.req = q /\ f.at = "settle"
  BY DEF Frame, Point
<1> HIDE DEF f
<1>2. /\ n \notin DOMAIN rest /\ DOMAIN stack' = DOMAIN rest \union {n} /\ stack'[n] = f
      /\ n = Len(stack') /\ \A i \in DOMAIN rest : stack'[i] = rest[i]
  <2>1. stack' = Append(rest, f)
    BY DEF Finish, f
  <2> QED
    BY <1>1, <2>1, PushIs
<1> HIDE DEF n
<1>3. /\ state'[q] = 2 /\ ~timer'[q] /\ ~transport'[q] /\ runs'[q] = runs[q] + 1
      /\ outcome'[q] = IF outcome[q] = "pending" THEN verdict ELSE outcome[q]
  BY DEF Finish, TypeOK
<1>4. outcome[q] \in {"pending", "error"}
  BY DEF TypeOK
<1>5. ASSUME NEW r \in Request \ {q} PROVE Untouched(r)
  <2>1. SameOf(r, stack, stack')
    <3>1. SameOf(r, stack, rest)
      BY DEF Rest
    <3>2. \A i \in DOMAIN stack' : stack'[i].req = r => i \in DOMAIN rest /\ stack'[i] = rest[i]
      BY <1>1, <1>2
    <3>3. \A i \in DOMAIN rest : i \in DOMAIN stack' /\ stack'[i] = rest[i]
      BY <1>2
    <3> QED
      BY <3>1, <3>2, <3>3 DEF SameOf
  <2>2. /\ state'[r] = state[r] /\ timer'[r] = timer[r] /\ transport'[r] = transport[r]
        /\ outcome'[r] = outcome[r] /\ runs'[r] = runs[r]
    BY DEF Finish, TypeOK
  <2> QED
    BY <2>1, <2>2 DEF Untouched, Steady
<1>6. ASSUME NEW i \in DOMAIN stack', stack'[i].req = q
      PROVE  \/ i = n /\ stack'[i].at = "settle"
             \/ /\ i \in DOMAIN rest /\ rest[i] = stack'[i] /\ i \in DOMAIN stack /\ stack[i].req = q
                /\ stack'[i] = stack[i] \/ (stack'[i].at = "sending" /\ stack[i].at = "ajaxSend")
  <2>1. CASE i = n
    BY <1>1, <1>2, <2>1
  <2>2. CASE i # n
    <3>1. i \in DOMAIN rest /\ rest[i] = stack'[i]
      BY <1>2, <2>2
    <3>2. i \in DOMAIN stack /\ stack[i].req = q
          /\ (rest[i] = stack[i] \/ (rest[i].at = "sending" /\ stack[i].at = "ajaxSend"))
      BY <1>6, <3>1 DEF Rest
    <3> QED
      BY <3>1, <3>2
  <2> QED
    BY <2>1, <2>2
<1>7. Loose(q)'
  <2>1. \A i, j \in DOMAIN stack' :
          /\ stack'[i].req = q /\ stack'[i].at \in Asking
          /\ stack'[j].req = q /\ stack'[j].at \in Asking
          => i = j
    BY <1>6 DEF Loose, Asking
  <2>2. outcome'[q] # "success" \/ \A i \in DOMAIN rest : rest[i].req = q => rest[i].at \notin Asking \ {"sending"}
    BY <1>3, <1>4
  <2>3. \A i \in DOMAIN stack' :
          stack'[i].req = q /\ stack'[i].at \in Asking \ {"sending"} => outcome'[q] # "success"
    BY <1>6, <2>2 DEF Asking
  <2>4. aborted'[q] => outcome'[q] = "error"
    BY <1>3, <1>4 DEF Loose
  <2> QED
    BY <1>3, <2>1, <2>3, <2>4 DEF Loose
<1>8. Waits'
  BY <1>1, <1>2 DEF Waits, Rest, Steady
<1>9. ASSUME ~rude', Polite(q) PROVE Polite(q)' /\ (Pending(q)' <=> Pending(q))
  <2>1. state[q] # 2 /\ ~listening'[q]
    BY <1>9
  <2>2. ASSUME NEW i \in DOMAIN stack, stack[i].req = q
        PROVE  stack[i].at \in {"prefilter", "start", "beforeSend", "ajaxSend"}
    BY <1>9, <2>1, <2>2 DEF Polite, Stands, Standing, Asking
  <2>3. ASSUME NEW i \in DOMAIN stack', stack'[i].req = q
        PROVE  \/ i = n /\ stack'[i].at = "settle"
               \/ stack'[i].at = "sending"
               \/ stack'[i].at = "prefilter" /\ ~counted[q]
               \/ stack'[i].at = "beforeSend" /\ opts[q].before
    <3>1. CASE i = n /\ stack'[i].at = "settle"
      BY <3>1
    <3>2. CASE /\ i \in DOMAIN rest /\ rest[i] = stack'[i] /\ i \in DOMAIN stack /\ stack[i].req = q
               /\ stack'[i] = stack[i] \/ (stack'[i].at = "sending" /\ stack[i].at = "ajaxSend")
      <4>1. stack'[i].at \notin {"start", "ajaxSend"}
        BY <1>9, <2>3, <3>2
      <4>2. CASE stack'[i] = stack[i]
        <5>1. stack[i].at \in {"prefilter", "beforeSend"}
          BY <2>2, <3>2, <4>1, <4>2
        <5>2. Standing(q, stack[i].at)
          BY <1>9, <3>2 DEF Polite, Stands
        <5>3. stack[i].at = "beforeSend" => opts[q].before
          BY <2>3, <3>2 DEF Rest
        <5> QED
          BY <4>2, <5>1, <5>2, <5>3 DEF Standing
      <4> QED
        BY <3>2, <4>2
    <3> QED
      BY <1>6, <2>3, <3>1, <3>2
  <2>4. opts'[q] = opts[q] /\ counted'[q] = counted[q]
    BY DEF Steady
  <2>5. Stands(q)'
    BY <1>3, <2>3, <2>4 DEF Stands, Standing, Asking
  <2>6. \A i, j \in DOMAIN stack' :
          /\ stack'[i].req = q /\ stack'[i].at \notin Asking
          /\ stack'[j].req = q /\ stack'[j].at \notin Asking
          => i = j
    BY <2>3 DEF Asking
  <2>7. runs'[q] = 1
    BY <1>3, <1>9, <2>1 DEF Polite
  <2>8. Polite(q)'
    BY <1>3, <2>1, <2>5, <2>6, <2>7 DEF Polite
  <2>9. Telling(q)'
    BY <1>1, <1>2 DEF Telling
  <2> QED
    BY <2>1, <2>4, <2>8, <2>9 DEF Pending
<1> QED
  BY <1>5, <1>7, <1>8, <1>9 DEF Keeps, Calm, Steady

\* Frames of q end, or done returns in its first line.
LEMMA DropKeeps ==
  ASSUME TypeOK, NEW q \in Request, Loose(q), NEW rest \in Seq(Frame),
         \A r \in Request \ {q} : SameOf(r, stack, rest),
         \A i \in DOMAIN rest : rest[i].req = q =>
           i \in DOMAIN stack /\ stack[i].req = q /\ rest[i] = stack[i],
         \A i \in DOMAIN rest : rest[i].at = "beforeSend" => i = Len(rest) \/ opts[rest[i].req].before,
         stack' = rest, UNCHANGED <<state, timer, transport, outcome, runs>>, Steady(q),
         aborted'[q] => aborted[q], state[q] = 1 => listening'[q],
         ~rude' /\ Polite(q) => state[q] = 2
  PROVE  Keeps(q)
<1>1. ASSUME NEW r \in Request \ {q} PROVE Untouched(r)
  BY DEF Untouched, Steady
<1>2. Loose(q)'
  <2>1. \A i \in DOMAIN stack' : stack'[i].req = q => i \in DOMAIN stack /\ stack[i].req = q /\ stack'[i] = stack[i]
    OBVIOUS
  <2> QED
    BY <2>1 DEF Loose, Steady
<1>3. Waits'
  BY DEF Waits, Steady
<1>4. ASSUME ~rude', Polite(q) PROVE Polite(q)'
  <2>1. \A i \in DOMAIN stack' : stack'[i].req = q => i \in DOMAIN stack /\ stack[i].req = q /\ stack'[i] = stack[i]
    OBVIOUS
  <2>2. Stands(q)
    BY <1>4 DEF Polite
  <2>3. Stands(q)'
    BY <2>1, <2>2 DEF Stands, Standing, Steady
  <2>4. state[q] = 2 /\ ~listening[q] /\ ~timer[q]
    BY <1>4 DEF Polite
  <2>5. ~transport[q]
    <3>1. \A i \in DOMAIN stack : stack[i].req = q => stack[i].at # "ajaxSend"
      BY <2>2, <2>4 DEF Stands, Standing
    <3> QED
      BY <1>4, <2>4, <3>1 DEF Polite
  <2>6. ~transport'[q] /\ ~timer'[q] /\ ~listening'[q] /\ state'[q] = 2 /\ runs'[q] = 1
    BY <1>4, <2>4, <2>5 DEF Steady, Polite
  <2>7. \A i, j \in DOMAIN stack' :
          /\ stack'[i].req = q /\ stack'[i].at \notin Asking
          /\ stack'[j].req = q /\ stack'[j].at \notin Asking
          => i = j
    BY <1>4, <2>1 DEF Polite
  <2> QED
    BY <2>3, <2>6, <2>7 DEF Polite
<1> QED
  BY <1>1, <1>2, <1>3, <1>4 DEF Keeps, Steady

-----------------------------------------------------------------------------
\* What is known where a frame ends: those below are kept.
LEMMA BelowIs ==
  ASSUME TypeOK, Waits, stack # <<>>
  PROVE  /\ Top.req \in Request /\ Top.at \in Point /\ Below \in Seq(Frame)
         /\ \A r \in Request \ {Top.req} : SameOf(r, stack, Below)
         /\ \A i \in DOMAIN Below : i \in DOMAIN stack /\ i # Len(stack) /\ Below[i] = stack[i]
         /\ \A i \in DOMAIN Below : Below[i].at = "beforeSend" => opts[Below[i].req].before
         /\ Rest(Top.req, Below)
<1>1. /\ Len(stack) \in DOMAIN stack /\ Top = stack[Len(stack)] /\ Top \in Frame
      /\ Below \in Seq(Frame) /\ DOMAIN Below = DOMAIN stack \ {Len(stack)}
      /\ \A i \in DOMAIN Below : Below[i] = stack[i] /\ i # Len(stack)
  BY TopIs DEF TypeOK
<1>2. Top.req \in Request /\ Top.at \in Point
  BY <1>1 DEF Frame
<1>3. \A r \in Request \ {Top.req} : SameOf(r, stack, Below)
  BY <1>1 DEF SameOf
<1>4. \A i \in DOMAIN Below : Below[i].at = "beforeSend" => opts[Below[i].req].before
  BY <1>1 DEF Waits
<1> QED
  BY <1>1, <1>2, <1>3, <1>4 DEF Rest

\* While a frame of ajax is topmost, there is no other of its request.
LEMMA OneAsking ==
  ASSUME TypeOK, stack # <<>>, Top.req \in Request, Loose(Top.req), Top.at \in Asking
  PROVE  /\ \A i \in DOMAIN stack :
              i # Len(stack) /\ stack[i].req = Top.req => stack[i].at \notin Asking
         /\ Top.at \in Asking \ {"sending"} => outcome[Top.req] # "success"
         /\ state[Top.req] # -1
<1>1. Len(stack) \in DOMAIN stack /\ Top = stack[Len(stack)]
  BY TopIs DEF TypeOK
<1> QED
  BY <1>1 DEF Loose

\* What a topmost frame tells about its request.
LEMMA TopStands ==
  ASSUME TypeOK, stack # <<>>, Polite(Top.req)
  PROVE  Standing(Top.req, Top.at)
BY TopIs DEF TypeOK, Polite, Stands

\* The empty stack, where the browser calls back.
LEMMA EmptyIs ==
  ASSUME stack = <<>>, NEW q \in Request
  PROVE  Rest(q, <<>>) /\ <<>> \in Seq(Frame) /\ DOMAIN stack = {}
<1>1. DOMAIN stack = {} /\ <<>> \in Seq(Frame)
  OBVIOUS
<1> QED
  BY <1>1 DEF Rest, SameOf

\* ajax is called.
LEMMA AjaxKeeps ==
  ASSUME FramesInv, NEW q \in Request, Ajax(q)
  PROVE  Keeps(q) /\ Calm(q)
<1> DEFINE f == [req |-> q, at |-> "prefilter", first |-> TRUE]
           n == Len(Append(stack, f))
<1>1. f \in Frame /\ f.req = q /\ f.at = "prefilter"
  BY DEF Frame, Point
<1>a. TypeOK /\ Waits /\ Loose(q)
  BY DEF FramesInv
<1> HIDE DEF f
<1>2. /\ n \notin DOMAIN stack /\ DOMAIN stack' = DOMAIN stack \union {n} /\ stack'[n] = f
      /\ n = Len(stack') /\ \A i \in DOMAIN stack : stack'[i] = stack[i]
  <2>1. stack' = Append(stack, f)
    BY DEF Ajax, f
  <2> QED
    BY <1>a, <1>1, <2>1, PushIs DEF TypeOK
<1> HIDE DEF n
<1>3. /\ state[q] = -1 /\ state' = [state EXCEPT ![q] = 0] /\ state'[q] = 0
      /\ UNCHANGED <<opts, transport, listening, timer, counted, outcome, aborted, runs, rude>>
  BY <1>a DEF Ajax, TypeOK, history
<1>4. \A i \in DOMAIN stack : stack[i].req # q
  BY <1>a, <1>3 DEF Loose
<1>5. \A i \in DOMAIN stack' : stack'[i].req = q => i = n /\ stack'[i].at = "prefilter"
  BY <1>1, <1>2, <1>4
<1>6. ASSUME NEW r \in Request \ {q} PROVE Untouched(r)
  <2>1. SameOf(r, stack, stack')
    BY <1>1, <1>2 DEF SameOf
  <2>2. state'[r] = state[r]
    BY <1>a, <1>3 DEF TypeOK
  <2> QED
    BY <1>3, <2>1, <2>2 DEF Untouched
<1>7. Loose(q)'
  BY <1>a, <1>3, <1>5 DEF Loose
<1>8. \A i \in DOMAIN stack : stack[i].at = "beforeSend" => opts[stack[i].req].before
  BY <1>a, TopIs DEF Ajax, InUserCode, Waits, TypeOK
<1>9. Waits'
  BY <1>1, <1>2, <1>3, <1>8 DEF Waits
<1>10. ASSUME Polite(q) PROVE Polite(q)' /\ (Pending(q)' <=> Pending(q))
  <2>1. ~counted[q]
    BY <1>a, <1>3 DEF Loose
  <2>2. Stands(q)'
    BY <1>3, <1>5, <2>1 DEF Stands, Standing, Asking
  <2>3. ~transport[q] /\ ~listening[q] /\ ~timer[q] /\ ~aborted[q] /\ runs[q] = 0
    BY <1>3, <1>4, <1>10 DEF Polite
  <2>4. Polite(q)'
    BY <1>3, <1>5, <2>2, <2>3 DEF Polite
  <2> QED
    BY <1>3, <2>1, <2>4 DEF Pending
<1> QED
  BY <1>3, <1>6, <1>7, <1>9, <1>10 DEF Keeps, Calm

-----------------------------------------------------------------------------
\* A request whose frames at which done tells its outcome stay counts as before.
LEMMA DropCalm ==
  ASSUME NEW q \in Request, UNCHANGED <<state, counted>>,
         \A i \in DOMAIN stack' : stack'[i].req = q => i \in DOMAIN stack /\ stack'[i] = stack[i],
         \A i \in DOMAIN stack :
           /\ counted[q] /\ stack[i].req = q
           /\ stack[i].at \in {"settle", "event", "complete", "eventComplete"}
           => i \in DOMAIN stack' /\ stack'[i] = stack[i]
  PROVE  Calm(q)
BY DEF Calm, Pending, Telling

\* A request is aborted.
LEMMA AbortKeeps ==
  ASSUME TypeOK, NEW q \in Request, Loose(q), NEW rest \in Seq(Frame), Rest(q, rest), AbortWith(q, rest),
         \A i \in DOMAIN rest : i \in DOMAIN stack /\ rest[i] = stack[i],
         \A i \in DOMAIN stack : stack[i].req = q /\ stack[i].at \notin Asking => i \in DOMAIN rest,
         UNCHANGED <<opts, counted>>, ~rude' => ~rude,
         ~rude' /\ Polite(q) /\ state[q] # 2 =>
           \A i \in DOMAIN rest : rest[i].req = q => rest[i].at \notin {"start", "ajaxSend"}
  PROVE  Keeps(q) /\ Calm(q)
<1>1. /\ listening' = [listening EXCEPT ![q] = listening[q] /\ ~transport[q]]
      /\ aborted' = [aborted EXCEPT ![q] = aborted[q] \/ state[q] # 2]
  BY DEF AbortWith
<1>2. /\ \A r \in Request \ {q} : aborted'[r] = aborted[r] /\ listening'[r] = listening[r]
      /\ listening'[q] = (listening[q] /\ ~transport[q]) /\ aborted'[q] = (aborted[q] \/ state[q] # 2)
  BY <1>1 DEF TypeOK
<1>3. Steady(q)
  BY <1>2 DEF Steady
<1>4. CASE state[q] = 2
  <2>1. stack' = rest /\ UNCHANGED <<state, timer, transport, outcome, runs>>
    BY <1>4 DEF AbortWith, Done
  <2>2. aborted'[q] => aborted[q]
    BY <1>2, <1>4
  <2>3. Keeps(q)
    BY <1>3, <1>4, <2>1, <2>2, DropKeeps DEF Rest
  <2>4. Calm(q)
    <3>1. \A i \in DOMAIN stack' : stack'[i].req = q => i \in DOMAIN stack /\ stack'[i] = stack[i]
      BY <2>1
    <3>2. \A i \in DOMAIN stack :
            /\ counted[q] /\ stack[i].req = q
            /\ stack[i].at \in {"settle", "event", "complete", "eventComplete"}
            => i \in DOMAIN stack' /\ stack'[i] = stack[i]
      BY <2>1 DEF Asking
    <3> QED
      BY <2>1, <3>1, <3>2, DropCalm
  <2> QED
    BY <2>3, <2>4
<1>5. CASE state[q] # 2
  <2>1. Finish(q, "error", rest)
    BY <1>5 DEF AbortWith, Done
  <2>2. outcome[q] # "success"
    BY <1>5 DEF Loose
  <2>3. Polite(q) => ~listening'[q]
    BY <1>2 DEF Polite
  <2> QED
    BY <1>3, <1>5, <2>1, <2>2, <2>3, FinishKeeps
<1> QED
  BY <1>4, <1>5

\* The topmost frame ends, and no request is done with or begun.
LEMMA PopKeeps ==
  ASSUME FramesInv, stack # <<>>, NEW q \in Request, Top.req = q, stack' = Below,
         UNCHANGED <<opts, state, transport, listening, timer, counted, outcome, aborted, runs, rude>>,
         ~rude /\ Polite(q) => state[q] = 2
  PROVE  /\ Keeps(q)
         /\ (counted[q] => Top.at \notin {"settle", "event", "complete", "eventComplete"}) => Calm(q)
<1>1. TypeOK /\ Waits /\ Loose(q)
  BY DEF FramesInv
<1>2. /\ Below \in Seq(Frame) /\ \A r \in Request \ {q} : SameOf(r, stack, Below)
      /\ \A i \in DOMAIN Below : i \in DOMAIN stack /\ Below[i] = stack[i]
      /\ \A i \in DOMAIN Below : Below[i].at = "beforeSend" => opts[Below[i].req].before
  BY <1>1, BelowIs
<1>3. Keeps(q)
  <2>1. Steady(q)
    BY DEF Steady
  <2>2. state[q] = 1 => listening'[q]
    BY <1>1 DEF Loose
  <2> QED
    BY <1>1, <1>2, <2>1, <2>2, DropKeeps
<1>4. ASSUME counted[q] => Top.at \notin {"settle", "event", "complete", "eventComplete"}
      PROVE  Calm(q)
  <2>1. DOMAIN Below = DOMAIN stack \ {Len(stack)} /\ Top = stack[Len(stack)]
    BY <1>1, TopIs DEF TypeOK
  <2> QED
    BY <1>2, <1>4, <2>1, DropCalm
<1> QED
  BY <1>3, <1>4

\* The stack is the same but for its topmost frame, which is at p now.
Stepped(p) ==
  /\ DOMAIN stack' = DOMAIN stack /\ Len(stack') = Len(stack)
  /\ stack'[Len(stack)].req = Top.req /\ stack'[Len(stack)].at = p
  /\ \A i \in DOMAIN stack : i # Len(stack) => stack'[i] = stack[i]

\* So it is where a function goes on.
LEMMA GoSteps ==
  ASSUME TypeOK, stack # <<>>, NEW p \in Point, Go(p)
  PROVE  Stepped(p)
BY MoveIs DEF Go, Moved, Stepped, TypeOK

\* The function of the topmost frame goes on to its next point.
LEMMA StepKeeps ==
  ASSUME FramesInv, stack # <<>>, NEW q \in Request, Top.req = q, NEW p \in Point, Stepped(p),
         UNCHANGED <<opts, state, listening, timer, outcome, aborted, runs, rude>>,
         \A r \in Request \ {q} : counted'[r] = counted[r] /\ transport'[r] = transport[r],
         Top.at \in Asking <=> p \in Asking, p \in Asking \ {"sending"} => Top.at \in Asking \ {"sending"},
         ~rude /\ Polite(q) =>
           /\ Standing(q, p)' /\ (transport[q] => transport'[q])
           /\ transport'[q] => (transport[q] /\ Top.at # "ajaxSend") \/ p = "ajaxSend"
           /\ counted'[q] = counted[q] \/ (Top.at \in Asking /\ state[q] # 2)
  PROVE  /\ Keeps(q)
         /\ /\ counted'[q] = counted[q]
            /\ Top.at \in {"settle", "event", "complete", "eventComplete"}
               <=> p \in {"settle", "event", "complete", "eventComplete"}
            => Calm(q)
<1> DEFINE n == Len(stack)
<1>1. TypeOK /\ Waits /\ Loose(q)
  BY DEF FramesInv
<1>2. /\ n \in DOMAIN stack /\ Top = stack[n] /\ DOMAIN stack' = DOMAIN stack /\ Len(stack') = n
      /\ stack[n].req = q /\ stack'[n].req = q /\ stack'[n].at = p
      /\ \A i \in DOMAIN stack : i # n => stack'[i] = stack[i]
  BY <1>1, TopIs DEF Stepped, TypeOK
<1> HIDE DEF n
<1>3. ASSUME NEW r \in Request \ {q} PROVE Untouched(r)
  BY <1>2 DEF Untouched, SameOf
<1>4. state[q] # -1
  BY <1>1, <1>2 DEF Loose
<1>5. Loose(q)'
  <2>1. \A i, j \in DOMAIN stack' :
          /\ stack'[i].req = q /\ stack'[i].at \in Asking
          /\ stack'[j].req = q /\ stack'[j].at \in Asking
          => i = j
    BY <1>1, <1>2 DEF Loose
  <2>2. \A i \in DOMAIN stack' :
          stack'[i].req = q /\ stack'[i].at \in Asking \ {"sending"} => outcome'[q] # "success"
    BY <1>1, <1>2 DEF Loose
  <2> QED
    BY <1>1, <1>4, <2>1, <2>2 DEF Loose
<1>6. Waits'
  BY <1>1, <1>2 DEF Waits, n
<1>7. ASSUME ~rude, Polite(q) PROVE Polite(q)'
  <2>1. Standing(q, p)' /\ (transport[q] => transport'[q])
        /\ (transport'[q] => (transport[q] /\ Top.at # "ajaxSend") \/ p = "ajaxSend")
        /\ (counted'[q] = counted[q] \/ (Top.at \in Asking /\ state[q] # 2))
    BY <1>7
  <2>2. ASSUME NEW i \in DOMAIN stack', stack'[i].req = q, i # n PROVE Standing(q, stack[i].at) /\ counted'[q] = counted[q]
    <3>1. i \in DOMAIN stack /\ stack[i].req = q
      BY <1>2, <2>2
    <3>2. Standing(q, stack[i].at)
      BY <1>7, <3>1 DEF Polite, Stands
    <3>3. counted'[q] = counted[q]
      <4>1. CASE Top.at \in Asking /\ state[q] # 2
        <5>1. stack[i].at \notin Asking
          BY <1>1, <1>2, <2>2, <3>1, <4>1 DEF Loose
        <5> QED
          BY <3>2, <4>1, <5>1 DEF Standing
      <4> QED
        BY <2>1, <4>1
    <3> QED
      BY <3>2, <3>3
  <2>3. Stands(q)'
    BY <1>2, <2>1, <2>2 DEF Stands, Standing
  <2>4. \A i, j \in DOMAIN stack' :
          /\ stack'[i].req = q /\ stack'[i].at \notin Asking
          /\ stack'[j].req = q /\ stack'[j].at \notin Asking
          => i = j
    BY <1>2, <1>7 DEF Polite
  <2>5. transport'[q] => \/ state'[q] = 1
                         \/ \E i \in DOMAIN stack' : stack'[i].req = q /\ stack'[i].at = "ajaxSend"
    <3>1. CASE p = "ajaxSend"
      BY <1>2, <3>1
    <3>2. CASE transport[q] /\ Top.at # "ajaxSend"
      BY <1>2, <1>7, <3>2 DEF Polite
    <3> QED
      BY <2>1, <3>1, <3>2
  <2> QED
    BY <1>7, <2>1, <2>3, <2>4, <2>5 DEF Polite
<1>8. ASSUME counted'[q] = counted[q],
             Top.at \in {"settle", "event", "complete", "eventComplete"}
             <=> p \in {"settle", "event", "complete", "eventComplete"}
      PROVE  Calm(q)
  <2>1. Telling(q)' <=> Telling(q)
    BY <1>2, <1>8 DEF Telling
  <2> QED
    BY <1>8, <2>1 DEF Calm, Pending
<1> QED
  BY <1>3, <1>5, <1>6, <1>7, <1>8 DEF Keeps

-----------------------------------------------------------------------------
\* User code aborts a request.
LEMMA AbortStep ==
  ASSUME FramesInv, NEW q \in Request, Abort(q)
  PROVE  Keeps(q) /\ Calm(q)
<1>1. TypeOK /\ Waits /\ Loose(q) /\ stack \in Seq(Frame)
  BY DEF FramesInv, TypeOK
<1>2. \A i \in DOMAIN stack : stack[i].at = "beforeSend" => opts[stack[i].req].before
  BY <1>1, TopIs DEF Abort, InUserCode, Waits
<1>3. Rest(q, stack)
  BY <1>2 DEF Rest, SameOf
<1>4. AbortWith(q, stack) /\ UNCHANGED <<opts, counted>> /\ (~rude' => ~rude)
  BY DEF Abort
<1>5. ~rude' => \A i \in DOMAIN stack : stack[i].req = q => stack[i].at \notin {"start", "ajaxSend"}
  BY DEF Abort
<1> QED
  BY <1>1, <1>3, <1>4, <1>5, AbortKeeps

\* The prefilters return: where the request was aborted, ajax returns.
LEMMA BeginStep ==
  ASSUME FramesInv, NEW q \in Request, Begin, Top.req = q
  PROVE  /\ Keeps(q)
         /\ \/ Calm(q) /\ active' = active /\ running' = running
            \/ /\ state[q] # 2 /\ state'[q] # 2 /\ (Polite(q) => ~counted[q])
               /\ counted'[q] = opts[q].global /\ opts[q].global \in BOOLEAN
               /\ active' = active + (IF opts[q].global THEN 1 ELSE 0)
               /\ running' = (running \/ (opts[q].global /\ active = 0))
<1>1. stack # <<>> /\ Top.at = "prefilter" /\ TypeOK
  BY DEF Begin, At, FramesInv
<1>2. CASE state[q] = 2 /\ stack' = Below /\ UNCHANGED <<request, active, history>>
  <2>1. Keeps(q) /\ Calm(q)
    BY <1>1, <1>2, PopKeeps DEF request, history
  <2> QED
    BY <1>2, <2>1 DEF history
<1>3. CASE /\ state[q] # 2
           /\ counted' = [counted EXCEPT ![q] = opts[q].global]
           /\ active' = active + (IF opts[q].global THEN 1 ELSE 0)
           /\ running' = (running \/ (opts[q].global /\ active = 0))
           /\ Go(IF opts[q].global /\ active = 0 THEN "start" ELSE "beforeSend")
           /\ UNCHANGED <<opts, state, transport, listening, timer, outcome, completed,
                          sent, aborted, runs, rude>>
  <2>1. PICK p \in {"start", "beforeSend"} : p \in Point /\ Go(p)
    <3>1. CASE opts[q].global /\ active = 0
      BY <1>3, <3>1 DEF Point
    <3>2. CASE ~(opts[q].global /\ active = 0)
      BY <1>3, <3>2 DEF Point
    <3> QED
      BY <3>1, <3>2
  <2>2. Stepped(p)
    BY <1>1, <2>1, GoSteps
  <2>3. opts[q].global \in BOOLEAN
    BY <1>1, OptionsAssumption DEF TypeOK, OptionType
  <2>4. /\ \A r \in Request \ {q} : counted'[r] = counted[r] /\ transport'[r] = transport[r]
        /\ counted'[q] = opts[q].global
    BY <1>1, <1>3 DEF TypeOK
  <2>5. ASSUME Polite(q) PROVE Standing(q, p)' /\ ~counted[q]
    <3>1. Standing(q, "prefilter")
      BY <1>1, <2>5, TopStands
    <3> QED
      BY <1>3, <2>1, <3>1 DEF Standing, Asking
  <2>6. Keeps(q)
    BY <1>1, <1>3, <2>1, <2>2, <2>4, <2>5, StepKeeps DEF Asking
  <2> QED
    BY <1>3, <2>3, <2>4, <2>5, <2>6
<1> QED
  BY <1>2, <1>3 DEF Begin

\* The handlers of ajaxStart return.
LEMMA StartedStep ==
  ASSUME FramesInv, NEW q \in Request, Started, Top.req = q
  PROVE  Keeps(q) /\ Calm(q)
<1>1. stack # <<>> /\ Top.at = "start" /\ TypeOK /\ Go("beforeSend") /\ "beforeSend" \in Point
      /\ UNCHANGED <<request, active, history>>
  BY DEF Started, At, FramesInv, Point
<1>2. Stepped("beforeSend")
  BY <1>1, GoSteps
<1>3. Polite(q) => Standing(q, "beforeSend")'
  BY <1>1, TopStands DEF Standing, Asking, request
<1> QED
  BY <1>1, <1>2, <1>3, StepKeeps DEF Asking, request, history

\* No frame of its request but the topmost is one of ajax.
LEMMA OthersDone ==
  ASSUME FramesInv, stack # <<>>, NEW q \in Request, Top.req = q, Top.at \in Asking
  PROVE  /\ \A i \in DOMAIN Below : Below[i].req = q => Below[i].at \notin Asking
         /\ Polite(q) /\ state[q] # 2 => \A i \in DOMAIN Below : Below[i].req # q
<1>1. TypeOK /\ Waits /\ Loose(q)
  BY DEF FramesInv
<1>2. \A i \in DOMAIN Below : i \in DOMAIN stack /\ i # Len(stack) /\ Below[i] = stack[i]
  BY <1>1, BelowIs
<1>3. \A i \in DOMAIN stack : i # Len(stack) /\ stack[i].req = q => stack[i].at \notin Asking
  BY <1>1, OneAsking
<1> QED
  BY <1>2, <1>3 DEF Polite, Stands, Standing

\* beforeSend turns the request down.
LEMMA VetoStep ==
  ASSUME FramesInv, NEW q \in Request, Veto, Top.req = q
  PROVE  Keeps(q) /\ Calm(q)
<1>1. /\ TypeOK /\ Waits /\ Loose(q) /\ stack # <<>> /\ Top.at = "beforeSend"
      /\ AbortWith(q, Below) /\ UNCHANGED <<opts, counted, rude>>
  BY DEF FramesInv, Veto, At
<1>2. Rest(q, Below) /\ Below \in Seq(Frame) /\ \A i \in DOMAIN Below : i \in DOMAIN stack /\ Below[i] = stack[i]
  BY <1>1, BelowIs
<1>3. \A i \in DOMAIN Below : Below[i].req = q => Below[i].at \notin {"start", "ajaxSend"}
  BY <1>1, OthersDone DEF Asking
<1>4. \A i \in DOMAIN stack : stack[i].at \notin Asking => i \in DOMAIN Below
  BY <1>1, TopIs DEF Asking, TypeOK
<1> QED
  BY <1>1, <1>2, <1>3, <1>4, AbortKeeps

\* done is called from ajax, which returns then.
LEMMA FailKeeps ==
  ASSUME FramesInv, NEW q \in Request, stack # <<>>, Top.req = q, Top.at \in Asking \ {"sending"},
         Finish(q, "error", Below), UNCHANGED <<opts, listening, counted, aborted, rude>>,
         ~rude /\ Polite(q) => state[q] # 2
  PROVE  Keeps(q) /\ Calm(q)
<1>1. TypeOK /\ Waits /\ Loose(q) /\ outcome[q] # "success"
  BY OneAsking DEF FramesInv
<1>2. Rest(q, Below) /\ Below \in Seq(Frame)
  BY <1>1, BelowIs
<1>3. \A i \in DOMAIN Below : Below[i].req = q => Below[i].at \notin {"start", "ajaxSend"}
  BY OthersDone DEF Asking
<1>4. Steady(q)
  BY DEF Steady
<1>5. ~rude /\ Polite(q) => ~listening[q]
  <2>1. ~rude /\ Polite(q) => state[q] # 1
    BY <1>1, TopStands DEF Standing, Asking
  <2> QED
    BY <2>1 DEF Polite
<1> QED
  BY <1>1, <1>2, <1>3, <1>4, <1>5, FinishKeeps

\* There is no transport for the request.
LEMMA NoTransportStep ==
  ASSUME FramesInv, NEW q \in Request, NoTransport, Top.req = q
  PROVE  Keeps(q) /\ Calm(q)
<1>1. /\ TypeOK /\ Waits /\ Loose(q) /\ stack # <<>> /\ Top.at = "beforeSend" /\ Done(q, "error", Below)
      /\ UNCHANGED <<opts, listening, counted, aborted, rude>>
  BY DEF FramesInv, NoTransport, Passed, At
<1>2. ~rude /\ Polite(q) => state[q] # 2
  <2>1. Polite(q) => Standing(q, "beforeSend")
    BY <1>1, TopStands
  <2>2. opts[q].before => state[q] # 2
    BY DEF NoTransport, Passed
  <2> QED
    BY <2>1, <2>2 DEF Standing
<1>3. CASE Finish(q, "error", Below)
  BY <1>1, <1>2, <1>3, FailKeeps DEF Asking
<1>4. CASE state[q] = 2 /\ stack' = Below /\ UNCHANGED <<state, timer, transport, outcome, runs>>
  BY <1>1, <1>4, PopKeeps
<1> QED
  BY <1>1, <1>3, <1>4 DEF Done

\* The request gets a transport.
LEMMA GetTransportStep ==
  ASSUME FramesInv, NEW q \in Request, GetTransport, Top.req = q
  PROVE  Keeps(q) /\ Calm(q)
<1>1. /\ TypeOK /\ stack # <<>> /\ Top.at = "beforeSend" /\ Go("ajaxSend") /\ "ajaxSend" \in Point
      /\ UNCHANGED <<opts, state, listening, timer, counted, outcome, aborted, runs, rude>>
      /\ (opts[q].before => state[q] # 2)
  BY DEF FramesInv, GetTransport, Passed, At, Point, history
<1>2. Stepped("ajaxSend")
  BY <1>1, GoSteps
<1>3. (\A r \in Request \ {q} : transport'[r] = transport[r]) /\ transport'[q]
  BY <1>1 DEF GetTransport, TypeOK
<1>4. Polite(q) => Standing(q, "ajaxSend")'
  <2>1. Polite(q) => Standing(q, "beforeSend")
    BY <1>1, TopStands
  <2> QED
    BY <1>1, <2>1 DEF Standing, Asking
<1> QED
  BY <1>1, <1>2, <1>3, <1>4, StepKeeps DEF Asking

-----------------------------------------------------------------------------
\* The request is sent, and ajax returns.
LEMMA SendStep ==
  ASSUME FramesInv, NEW q \in Request, Send, Top.req = q
  PROVE  Keeps(q) /\ Calm(q)
<1>1. /\ TypeOK /\ Waits /\ Loose(q) /\ stack # <<>> /\ Top.at = "ajaxSend" /\ stack' = Below /\ transport[q]
      /\ UNCHANGED <<opts, transport, counted, outcome, completed, active, aborted, runs, running, rude>>
  BY DEF FramesInv, Send, At
<1>2. /\ \A r \in Request \ {q} : SameOf(r, stack, Below)
      /\ \A i \in DOMAIN Below : Below[i].at = "beforeSend" => opts[Below[i].req].before
      /\ \A i \in DOMAIN Below : i \in DOMAIN stack /\ i # Len(stack) /\ Below[i] = stack[i]
  BY <1>1, BelowIs
<1>3. /\ state'[q] = 1 /\ listening'[q]
      /\ \A r \in Request \ {q} : state'[r] = state[r] /\ listening'[r] = listening[r] /\ timer'[r] = timer[r]
  BY <1>1 DEF Send, SendWith, TypeOK
<1>4. ASSUME NEW r \in Request \ {q} PROVE Untouched(r)
  BY <1>1, <1>2, <1>3 DEF Untouched
<1>5. outcome[q] # "success" /\ \A i \in DOMAIN Below : Below[i].req = q => Below[i].at \notin Asking
  BY <1>1, OneAsking, OthersDone DEF Asking
<1>6. Loose(q)'
  BY <1>1, <1>3, <1>5 DEF Loose
<1>7. Waits'
  BY <1>1, <1>2 DEF Waits
<1>8. ASSUME Polite(q) PROVE Polite(q)' /\ (Pending(q)' <=> Pending(q))
  <2>1. state[q] = 0
    BY <1>1, <1>8, TopStands DEF Standing
  <2>2. \A i \in DOMAIN stack' : stack'[i].req # q
    BY <1>1, <1>8, <2>1, OthersDone DEF Asking
  <2>3. runs[q] = 0 /\ ~aborted[q]
    BY <1>8, <2>1 DEF Polite
  <2>4. Polite(q)'
    BY <1>1, <1>3, <2>2, <2>3 DEF Polite, Stands
  <2> QED
    BY <1>1, <1>3, <2>1, <2>4 DEF Pending
<1> QED
  BY <1>1, <1>4, <1>6, <1>7, <1>8 DEF Keeps, Calm

\* The answer is there before xhr.send returns: done runs in the try of ajax.
LEMMA SendAndAnswerStep ==
  ASSUME FramesInv, NEW q \in Request, SendAndAnswer, Top.req = q
  PROVE  Keeps(q) /\ Calm(q)
<1>1. /\ TypeOK /\ Waits /\ Loose(q) /\ stack # <<>> /\ Top.at = "ajaxSend" /\ stack \in Seq(Frame)
      /\ UNCHANGED <<opts, listening, counted, aborted, rude>>
  BY DEF FramesInv, SendAndAnswer, At, TypeOK
<1>2. PICK verdict \in {"success", "error"} : Finish(q, verdict, Moved("sending"))
  BY DEF SendAndAnswer, Moved
<1>3. /\ Moved("sending") \in Seq(Frame) /\ DOMAIN Moved("sending") = DOMAIN stack
      /\ Moved("sending")[Len(stack)].req = q /\ Moved("sending")[Len(stack)].at = "sending"
      /\ \A i \in DOMAIN stack : i # Len(stack) => Moved("sending")[i] = stack[i]
  BY <1>1, MoveIs DEF Point
<1>4. Len(stack) \in DOMAIN stack /\ Top = stack[Len(stack)]
  BY <1>1, TopIs
<1> DEFINE rest == Moved("sending")
<1> HIDE DEF rest
<1>5. Rest(q, rest)
  <2>1. \A r \in Request \ {q} : SameOf(r, stack, rest)
    BY <1>3, <1>4 DEF SameOf, rest
  <2>2. \A i \in DOMAIN rest : rest[i].req = q =>
          /\ i \in DOMAIN stack /\ stack[i].req = q
          /\ rest[i] = stack[i] \/ (rest[i].at = "sending" /\ stack[i].at = "ajaxSend")
    BY <1>1, <1>3, <1>4 DEF rest
  <2>3. \A i \in DOMAIN rest : rest[i].at = "beforeSend" => opts[rest[i].req].before
    BY <1>1, <1>3 DEF rest, Waits
  <2> QED
    BY <2>1, <2>2, <2>3 DEF Rest
<1>6. outcome[q] # "success" /\ \A i \in DOMAIN stack : i # Len(stack) /\ stack[i].req = q => stack[i].at \notin Asking
  BY <1>1, OneAsking DEF Asking
<1>7. \A i \in DOMAIN rest : rest[i].req = q => rest[i].at \notin Asking \ {"sending"}
  BY <1>3, <1>6 DEF rest
<1>8. Polite(q) => state[q] = 0 /\ ~listening[q]
  BY <1>1, TopStands DEF Standing, Polite
<1>9. Steady(q)
  BY <1>1 DEF Steady
<1>10. rest \in Seq(Frame) /\ Finish(q, verdict, rest)
  BY <1>2, <1>3 DEF rest
<1> QED
  BY <1>1, <1>5, <1>6, <1>7, <1>8, <1>9, <1>10, FinishKeeps DEF Asking

\* send throws.
LEMMA SendFailsStep ==
  ASSUME FramesInv, NEW q \in Request, SendFails, Top.req = q
  PROVE  Keeps(q) /\ Calm(q)
<1>1. /\ TypeOK /\ stack # <<>> /\ Top.at = "ajaxSend" /\ Finish(q, "error", Below)
      /\ UNCHANGED <<opts, listening, counted, aborted, rude>>
  BY DEF FramesInv, SendFails, At
<1>2. Polite(q) => state[q] # 2
  BY <1>1, TopStands DEF Standing
<1> QED
  BY <1>1, <1>2, FailKeeps DEF Asking

\* The transport calls back.
LEMMA AnswerStep ==
  ASSUME FramesInv, NEW q \in Request, Answer(q)
  PROVE  Keeps(q) /\ Calm(q)
<1>1. /\ TypeOK /\ Loose(q) /\ stack = <<>> /\ listening[q] /\ listening' = [listening EXCEPT ![q] = FALSE]
      /\ UNCHANGED <<opts, counted, completed, active, sent, aborted, running, rude>>
  BY DEF FramesInv, Answer
<1>2. PICK verdict \in {"success", "error"} : Done(q, verdict, <<>>)
  BY DEF Answer
<1>3. Rest(q, <<>>) /\ <<>> \in Seq(Frame) /\ DOMAIN stack = {}
  BY <1>1, EmptyIs
<1>4. ~listening'[q] /\ \A r \in Request \ {q} : listening'[r] = listening[r]
  BY <1>1 DEF TypeOK
<1>5. Steady(q)
  BY <1>1, <1>4 DEF Steady
<1>6. CASE state[q] = 2 /\ stack' = <<>> /\ UNCHANGED <<state, timer, transport, outcome, runs>>
  <2>1. Keeps(q)
    <3>1. (\A r \in Request \ {q} : SameOf(r, stack, <<>>)) /\ DOMAIN <<>> = {}
      BY <1>1, <1>3 DEF Rest
    <3>2. (aborted'[q] => aborted[q]) /\ (state[q] = 1 => listening'[q])
      BY <1>1, <1>6
    <3> QED
      BY <1>1, <1>3, <1>5, <1>6, <3>1, <3>2, DropKeeps
  <2>2. Calm(q)
    BY <1>1, <1>3, <1>6, DropCalm
  <2> QED
    BY <2>1, <2>2
<1>7. CASE state[q] # 2 /\ Finish(q, verdict, <<>>)
  <2>1. outcome[q] # "success"
    BY <1>1, <1>7 DEF Loose
  <2>2. \A i \in DOMAIN <<>> : FALSE
    BY <1>1, <1>3
  <2> QED
    BY <1>1, <1>3, <1>4, <1>5, <1>7, <2>1, <2>2, FinishKeeps
<1> QED
  BY <1>2, <1>6, <1>7 DEF Done

\* The timeout.
LEMMA ExpireStep ==
  ASSUME FramesInv, NEW q \in Request, Expire(q)
  PROVE  Keeps(q) /\ Calm(q)
<1>1. /\ TypeOK /\ Loose(q) /\ stack = <<>> /\ AbortWith(q, <<>>) /\ UNCHANGED <<opts, counted, rude>>
  BY DEF FramesInv, Expire
<1>2. Rest(q, <<>>) /\ <<>> \in Seq(Frame) /\ DOMAIN stack = {} /\ DOMAIN <<>> = {}
  BY <1>1, EmptyIs
<1> QED
  BY <1>1, <1>2, AbortKeeps

\* The callbacks of the deferred return.
LEMMA ToldStep ==
  ASSUME FramesInv, NEW q \in Request, Told, Top.req = q
  PROVE  Keeps(q) /\ Calm(q)
<1>1. /\ stack # <<>> /\ Top.at = "settle" /\ TypeOK /\ Go("event") /\ "event" \in Point /\ counted[q]
      /\ UNCHANGED <<opts, state, transport, listening, timer, counted, outcome, aborted, runs, rude>>
  BY DEF Told, At, FramesInv, Point, request, history
<1>2. Stepped("event")
  BY <1>1, GoSteps
<1>3. Polite(q) => Standing(q, "event")'
  BY <1>1, TopStands DEF Standing, Asking
<1> QED
  BY <1>1, <1>2, <1>3, StepKeeps DEF Asking

\* complete is called.
LEMMA CompleteStep ==
  ASSUME FramesInv, NEW q \in Request, Complete, Top.req = q
  PROVE  Keeps(q) /\ Calm(q)
<1> DEFINE f == [req |-> q, at |-> "complete", first |-> ~completed[q]]
<1>1. /\ stack # <<>> /\ Top.at \in {"settle", "event"} /\ TypeOK /\ Waits /\ stack' = Append(Below, f)
      /\ UNCHANGED <<opts, state, transport, listening, timer, counted, outcome, aborted, runs, rude>>
  BY DEF Complete, At, FramesInv, history
<1>2. f \in Frame /\ f.req = q /\ f.at = "complete"
  BY <1>1 DEF Frame, Point, TypeOK
<1> HIDE DEF f
<1>3. Below \in Seq(Frame) /\ Len(Below) = Len(stack) - 1 /\ Len(stack) \in Nat \ {0}
      /\ \A i \in 1..(Len(stack) - 1) : Below[i] = stack[i]
  BY <1>1, StackIs DEF TypeOK
<1>4. /\ stack' \in Seq(Frame) /\ Len(stack') = Len(stack) /\ stack'[Len(stack)] = f
      /\ \A i \in 1..(Len(stack) - 1) : stack'[i] = stack[i]
  BY <1>1, <1>2, <1>3, AppendIs DEF Pushed
<1>5. DOMAIN stack' = 1..Len(stack) /\ DOMAIN stack = 1..Len(stack)
  BY <1>1, <1>4 DEF TypeOK
<1>6. Stepped("complete")
  BY <1>2, <1>3, <1>4, <1>5 DEF Stepped
<1>7. Polite(q) => Standing(q, "complete")'
  BY <1>1, TopStands DEF Standing, Asking
<1> QED
  BY <1>1, <1>6, <1>7, StepKeeps DEF Asking, Point

\* complete returns.
LEMMA CompletedStep ==
  ASSUME FramesInv, NEW q \in Request, Completed, Top.req = q
  PROVE  Keeps(q) /\ Calm(q)
<1>1. /\ stack # <<>> /\ Top.at = "complete" /\ TypeOK
      /\ UNCHANGED <<opts, state, transport, listening, timer, counted, outcome, aborted, runs, rude>>
  BY DEF Completed, At, FramesInv, request, history
<1>2. CASE counted[q] /\ Go("eventComplete")
  <2>1. Stepped("eventComplete")
    BY <1>1, <1>2, GoSteps DEF Point
  <2>2. Polite(q) => Standing(q, "eventComplete")'
    BY <1>1, <1>2, TopStands DEF Standing, Asking
  <2> QED
    BY <1>1, <2>1, <2>2, StepKeeps DEF Asking, Point
<1>3. CASE ~counted[q] /\ stack' = Below
  <2>1. Polite(q) => state[q] = 2
    BY <1>1, TopStands DEF Standing, Asking
  <2> QED
    BY <1>1, <1>3, <2>1, PopKeeps
<1> QED
  BY <1>2, <1>3 DEF Completed

\* xhr.send, or the handlers of ajaxStop, return.
LEMMA ReturnStep ==
  ASSUME FramesInv, NEW q \in Request, Sent \/ Stopped, Top.req = q
  PROVE  Keeps(q) /\ Calm(q)
<1>1. /\ stack # <<>> /\ Top.at \in {"sending", "stop"} /\ TypeOK /\ stack' = Below
      /\ UNCHANGED <<opts, state, transport, listening, timer, counted, outcome, aborted, runs, rude>>
  BY DEF Sent, Stopped, At, FramesInv, request, history
<1>2. Polite(q) => state[q] = 2
  BY <1>1, TopStands DEF Standing, Asking
<1> QED
  BY <1>1, <1>2, PopKeeps

\* The request no longer counts; where it was the last one, the handlers of ajaxStop are called.
LEMMA UncountStep ==
  ASSUME FramesInv, NEW q \in Request, Uncount, Top.req = q
  PROVE  /\ Keeps(q)
         /\ ~rude /\ Polite(q) => Pending(q) /\ ~Pending(q)'
         /\ active' = active - 1 /\ (running' <=> running /\ active' # 0)
<1>1. /\ stack # <<>> /\ Top.at = "eventComplete" /\ TypeOK /\ Waits /\ active' = active - 1
      /\ UNCHANGED <<opts, state, transport, listening, timer, counted, outcome, aborted, runs, rude>>
  BY DEF Uncount, At, FramesInv, request
<1>2. Polite(q) => state[q] = 2 /\ counted[q]
  BY <1>1, TopStands DEF Standing, Asking
<1>3. Len(stack) \in DOMAIN stack /\ stack[Len(stack)] = Top
  BY <1>1, TopIs DEF TypeOK
<1>4. Polite(q) => Pending(q)
  BY <1>1, <1>2, <1>3 DEF Pending, Telling
<1>5. Polite(q) => \A i \in DOMAIN stack : i # Len(stack) /\ stack[i].req = q => stack[i].at \in Asking
  BY <1>1, <1>3 DEF Polite, Asking
<1>6. CASE active' = 0 /\ running' = FALSE /\ Go("stop")
  <2>1. Stepped("stop")
    BY <1>1, <1>6, GoSteps DEF Point
  <2>2. Polite(q) => Standing(q, "stop")'
    BY <1>1, <1>2 DEF Standing, Asking
  <2>3. Keeps(q)
    BY <1>1, <2>1, <2>2, StepKeeps DEF Asking, Point
  <2>4. Polite(q) => ~Telling(q)'
    BY <1>3, <1>5, <2>1 DEF Telling, Stepped, Asking
  <2> QED
    BY <1>1, <1>2, <1>4, <1>6, <2>3, <2>4 DEF Pending
<1>7. CASE active' # 0 /\ running' = running /\ stack' = Below
  <2>1. Keeps(q)
    BY <1>1, <1>2, <1>7, PopKeeps
  <2>2. \A i \in DOMAIN Below : i \in DOMAIN stack /\ i # Len(stack) /\ Below[i] = stack[i]
    BY <1>1, BelowIs
  <2>3. Polite(q) => ~Telling(q)'
    BY <1>5, <1>7, <2>2 DEF Telling, Asking
  <2>4. (running' <=> running /\ active' # 0)
    BY <1>1, <1>7 DEF TypeOK
  <2> QED
    BY <1>1, <1>2, <1>4, <2>1, <2>3, <2>4 DEF Pending
<1> QED
  BY <1>6, <1>7 DEF Uncount

\* User code throws.
LEMMA ThrowStep ==
  ASSUME FramesInv, Throw
  PROVE  rude' /\ Waits' /\ \A r \in Request : Loose(r)'
<1>1. TypeOK /\ Waits /\ (\A r \in Request : Loose(r)) /\ stack \in Seq(Frame)
  BY DEF FramesInv, TypeOK
<1>2. rude' /\ UNCHANGED <<opts, state, transport, listening, timer, counted, outcome, aborted, runs>>
  BY DEF Throw, request
<1>3. PICK k \in 0..Len(stack) - 1 :
        stack' = SubSeq(stack, 1, k) \/ (k > 0 /\ stack' = SubSeq(stack, 1, k - 1))
  BY DEF Throw
<1>4. PICK m \in 0..Len(stack) : stack' = SubSeq(stack, 1, m) /\ m < Len(stack)
  BY <1>1, <1>3
<1>5. stack' \in Seq(Frame) /\ Len(stack') = m /\ \A i \in 1..m : stack'[i] = stack[i]
  BY <1>1, <1>4, PrefixIs
<1>6. \A i \in DOMAIN stack' : i \in DOMAIN stack /\ i # Len(stack) /\ stack'[i] = stack[i]
  BY <1>1, <1>4, <1>5
<1>7. Waits'
  BY <1>1, <1>2, <1>6 DEF Waits
<1>8. ASSUME NEW r \in Request PROVE Loose(r)'
  BY <1>1, <1>2, <1>6 DEF Loose
<1> QED
  BY <1>2, <1>7, <1>8

-----------------------------------------------------------------------------
\* When the same requests count, the counter remains right.
LEMMA RightSame ==
  ASSUME Right, \A r \in Request : Pending(r)' <=> Pending(r), active' = active, running' = running
  PROVE  Right'
<1>1. {r \in Request : Pending(r)}' = {r \in Request : Pending(r)}
  OBVIOUS
<1> QED
  BY <1>1 DEF Right

\* When one request more counts, the counter goes up.
LEMMA RightMore ==
  ASSUME Right, NEW q \in Request, ~Pending(q), Pending(q)',
         \A r \in Request \ {q} : Pending(r)' <=> Pending(r),
         active' = active + 1, running'
  PROVE  Right'
<1> DEFINE S == {r \in Request : Pending(r)}
<1>1. S' = S \union {q} /\ q \notin S
  OBVIOUS
<1>2. IsFiniteSet(S) /\ active = Cardinality(S)
  BY DEF Right
<1> HIDE DEF S
<1>3. IsFiniteSet(S \union {q}) /\ Cardinality(S \union {q}) = Cardinality(S) + 1
  BY <1>1, <1>2, FS_AddElement
<1>4. Cardinality(S) \in Nat
  BY <1>2, FS_CardinalityType
<1>5. IsFiniteSet(S') /\ active' = Cardinality(S') /\ active' > 0
  BY <1>1, <1>2, <1>3, <1>4
<1> QED
  BY <1>5 DEF Right, S

\* When one request no longer counts, the counter goes down.
LEMMA RightLess ==
  ASSUME Right, NEW q \in Request, Pending(q), ~Pending(q)',
         \A r \in Request \ {q} : Pending(r)' <=> Pending(r),
         active' = active - 1, (running' <=> running /\ active' # 0)
  PROVE  Right'
<1> DEFINE S == {r \in Request : Pending(r)}
<1>1. S' = S \ {q} /\ q \in S
  OBVIOUS
<1>2. IsFiniteSet(S) /\ active = Cardinality(S) /\ (running <=> active > 0)
  BY DEF Right
<1> HIDE DEF S
<1>3. IsFiniteSet(S \ {q}) /\ Cardinality(S \ {q}) = Cardinality(S) - 1
  BY <1>1, <1>2, FS_RemoveElement
<1>4. Cardinality(S) \in Nat /\ Cardinality(S \ {q}) \in Nat
  BY <1>2, <1>3, FS_CardinalityType
<1>5. IsFiniteSet(S') /\ active' = Cardinality(S')
  BY <1>1, <1>2, <1>3
<1>6. active' \in Nat /\ active \in Nat
  BY <1>1, <1>2, <1>4, <1>5
<1>7. CASE active' = 0
  <2>1. ~running'
    BY <1>7, Zenon
  <2>2. ~(active' > 0)
    BY <1>7
  <2> QED
    BY <1>5, <2>1, <2>2 DEF Right, S
<1>8. CASE active' # 0
  <2>1. active' > 0 /\ active > 0
    BY <1>6, <1>8
  <2>2. running'
    BY <1>2, <1>8, <2>1
  <2> QED
    BY <1>5, <2>1, <2>2 DEF Right, S
<1> QED
  BY <1>7, <1>8

\* A step that keeps what is known of one request keeps the invariants, as far as they are
\* about frames.
LEMMA KeepsAll ==
  ASSUME FramesInv, TypeOK', NEW q \in Request, Keeps(q)
  PROVE  /\ FramesInv' /\ (~rude' => ~rude)
         /\ ~rude' /\ PoliteInv => \A r \in Request : Polite(r)'
         /\ \A r \in Request \ {q} : Pending(r)' <=> Pending(r)
<1>1. \A r \in Request \ {q} : Untouched(r)
  BY DEF Keeps
<1>2. \A r \in Request : Loose(r)'
  <2> TAKE r \in Request
  <2>1. CASE r = q
    BY <2>1 DEF Keeps
  <2>2. CASE r # q
    BY <1>1, <2>2, OtherKept DEF FramesInv
  <2> QED
    BY <2>1, <2>2
<1>3. ASSUME ~rude', PoliteInv PROVE \A r \in Request : Polite(r)'
  <2>1. \A r \in Request : Polite(r)
    BY <1>3 DEF Keeps, PoliteInv
  <2> TAKE r \in Request
  <2>2. CASE r = q
    BY <1>3, <2>1, <2>2 DEF Keeps
  <2>3. CASE r # q
    BY <1>1, <2>1, <2>3, OtherKept
  <2> QED
    BY <2>2, <2>3
<1>4. \A r \in Request \ {q} : Pending(r)' <=> Pending(r)
  BY <1>1, OtherKept
<1> QED
  BY <1>2, <1>3, <1>4 DEF FramesInv, Keeps

\* Where the step does not change whether the request counts, all of them.
LEMMA CalmAll ==
  ASSUME FramesInv, PoliteInv, TypeOK', NEW q \in Request, Keeps(q), Calm(q),
         UNCHANGED <<active, running>>
  PROVE  FramesInv' /\ PoliteInv'
<1>1. /\ FramesInv' /\ (~rude' => ~rude)
      /\ ~rude' => \A r \in Request : Polite(r)'
      /\ \A r \in Request \ {q} : Pending(r)' <=> Pending(r)
  BY KeepsAll
<1>2. ASSUME ~rude' PROVE Right'
  <2>1. Right /\ Polite(q)
    BY <1>1, <1>2 DEF PoliteInv
  <2>2. \A r \in Request : Pending(r)' <=> Pending(r)
    BY <1>1, <1>2, <2>1 DEF Calm
  <2> QED
    BY <2>1, <2>2, RightSame
<1> QED
  BY <1>1, <1>2 DEF PoliteInv

\* The invariants are inductive.
LEMMA InvStep ==
  ASSUME FramesInv, PoliteInv, TypeOK', [Next]_vars
  PROVE  FramesInv' /\ PoliteInv'
<1>1. ASSUME NEW r \in Request, Ajax(r) PROVE FramesInv' /\ PoliteInv'
  BY <1>1, AjaxKeeps, CalmAll DEF Ajax, history
<1>2. ASSUME NEW r \in Request, Abort(r) PROVE FramesInv' /\ PoliteInv'
  BY <1>2, AbortStep, CalmAll DEF Abort
<1>3. CASE Throw
  BY <1>3, ThrowStep DEF FramesInv, PoliteInv
<1>4. ASSUME NEW r \in Request, Answer(r) \/ Expire(r) PROVE FramesInv' /\ PoliteInv'
  BY <1>4, AnswerStep, ExpireStep, CalmAll DEF Answer, Expire
<1>5. ASSUME Engine PROVE FramesInv' /\ PoliteInv'
  <2>1. stack # <<>>
    BY <1>5 DEF Engine, Begin, Started, Veto, NoTransport, Passed, GetTransport, Send, SendAndAnswer,
                SendFails, Sent, Told, Complete, Completed, Uncount, Stopped, At
  <2>2. PICK q \in Request : Top.req = q
    BY <2>1, BelowIs DEF FramesInv
  <2>3. CASE Begin
    <3>1. /\ Keeps(q)
          /\ \/ Calm(q) /\ active' = active /\ running' = running
             \/ /\ state[q] # 2 /\ state'[q] # 2 /\ (Polite(q) => ~counted[q])
                /\ counted'[q] = opts[q].global /\ opts[q].global \in BOOLEAN
                /\ active' = active + (IF opts[q].global THEN 1 ELSE 0)
                /\ running' = (running \/ (opts[q].global /\ active = 0))
      BY <2>2, <2>3, BeginStep
    <3>2. CASE Calm(q) /\ active' = active /\ running' = running
      BY <3>1, <3>2, CalmAll
    <3>3. CASE /\ state[q] # 2 /\ state'[q] # 2 /\ (Polite(q) => ~counted[q])
               /\ counted'[q] = opts[q].global /\ opts[q].global \in BOOLEAN
               /\ active' = active + (IF opts[q].global THEN 1 ELSE 0)
               /\ running' = (running \/ (opts[q].global /\ active = 0))
      <4>1. active \in Int /\ running \in BOOLEAN
        BY DEF FramesInv, TypeOK
      <4>2. CASE ~opts[q].global
        <5>1. active' = active /\ running' = running
          BY <3>3, <4>1, <4>2
        <5>2. Calm(q)
          BY <3>3, <4>2 DEF Calm, Pending
        <5> QED
          BY <3>1, <5>1, <5>2, CalmAll
      <4>3. CASE opts[q].global
        <5>1. /\ FramesInv' /\ (~rude' => ~rude)
              /\ ~rude' => \A r \in Request : Polite(r)'
              /\ \A r \in Request \ {q} : Pending(r)' <=> Pending(r)
          BY <3>1, KeepsAll
        <5>2. ASSUME ~rude' PROVE Right'
          <6>1. Right /\ Polite(q)
            BY <5>1, <5>2 DEF PoliteInv
          <6>2. ~Pending(q) /\ Pending(q)'
            BY <3>3, <4>3, <6>1 DEF Pending
          <6>3. active' = active + 1 /\ running'
            <7>1. active' = active + 1
              BY <3>3, <4>3
            <7>2. active \in Nat
              BY <6>1, FS_CardinalityType DEF Right
            <7>3. running \/ active = 0
              BY <6>1, <7>2 DEF Right
            <7> QED
              BY <3>3, <4>3, <7>1, <7>3
          <6> QED
            BY <5>1, <6>1, <6>2, <6>3, RightMore
        <5> QED
          BY <5>1, <5>2 DEF PoliteInv
      <4> QED
        BY <4>2, <4>3
    <3> QED
      BY <3>1, <3>2, <3>3
  <2>4. CASE Uncount
    <3>1. /\ Keeps(q)
          /\ ~rude /\ Polite(q) => Pending(q) /\ ~Pending(q)'
          /\ active' = active - 1 /\ (running' <=> running /\ active' # 0)
      BY <2>2, <2>4, UncountStep
    <3>2. /\ FramesInv' /\ (~rude' => ~rude)
          /\ ~rude' => \A r \in Request : Polite(r)'
          /\ \A r \in Request \ {q} : Pending(r)' <=> Pending(r)
      BY <3>1, KeepsAll
    <3>3. ASSUME ~rude' PROVE Right'
      <4>1. Right /\ Polite(q) /\ ~rude
        BY <3>2, <3>3 DEF PoliteInv
      <4> QED
        BY <3>1, <3>2, <4>1, RightLess
    <3> QED
      BY <3>2, <3>3 DEF PoliteInv
  <2>5. CASE Started \/ Sent \/ Stopped \/ Told \/ Completed
    BY <2>2, <2>5, StartedStep, ReturnStep, ToldStep, CompletedStep, CalmAll
    DEF Started, Sent, Stopped, Told, Completed, history
  <2>6. CASE Complete \/ GetTransport
    BY <2>2, <2>6, CompleteStep, GetTransportStep, CalmAll DEF Complete, GetTransport, history
  <2>7. CASE Veto \/ NoTransport \/ Send \/ SendAndAnswer \/ SendFails
    BY <2>2, <2>7, VetoStep, NoTransportStep, SendStep, SendAndAnswerStep, SendFailsStep, CalmAll
    DEF Veto, NoTransport, Send, SendAndAnswer, SendFails
  <2> QED
    BY <1>5, <2>3, <2>4, <2>5, <2>6, <2>7 DEF Engine
<1>6. CASE UNCHANGED vars
  <2>1. FramesInv'
    BY <1>6 DEF vars, request, history, FramesInv, TypeOK, Waits, Loose
  <2>2. PoliteInv'
    <3>1. \A r \in Request : Untouched(r)
      BY <1>6 DEF vars, request, history, Untouched, SameOf
    <3>2. \A r \in Request : (Polite(r) => Polite(r)') /\ (Pending(r)' <=> Pending(r))
      BY <3>1, OtherKept
    <3>3. Right => Right'
      BY <1>6, <3>2, RightSame DEF vars, history
    <3> QED
      BY <1>6, <3>2, <3>3 DEF PoliteInv, vars, history
  <2> QED
    BY <2>1, <2>2
<1> QED
  BY <1>1, <1>2, <1>3, <1>4, <1>5, <1>6 DEF Next, User, Browser

\* What the frames tell holds in every behaviour, of any number of requests.
THEOREM FramesAlways == Spec => [](FramesInv /\ PoliteInv)
<1>1. Init /\ TypeOK => FramesInv /\ PoliteInv
  <2> SUFFICES ASSUME Init, TypeOK PROVE FramesInv /\ PoliteInv
    OBVIOUS
  <2>1. DOMAIN stack = {}
    BY DEF Init
  <2>2. Waits /\ \A r \in Request : Loose(r)
    BY <2>1 DEF Init, Waits, Loose
  <2>3. \A r \in Request : Polite(r)
    BY <2>1 DEF Init, Polite, Stands
  <2>4. Right
    <3>1. {r \in Request : Pending(r)} = {}
      BY DEF Init, Pending
    <3>2. IsFiniteSet({}) /\ Cardinality({}) = 0
      BY FS_EmptySet
    <3> QED
      <4>1. IsFiniteSet({r \in Request : Pending(r)}) /\ active = Cardinality({r \in Request : Pending(r)})
        BY <3>1, <3>2 DEF Init
      <4>2. ~running /\ ~(active > 0)
        BY DEF Init
      <4> QED
        BY <4>1, <4>2 DEF Right
  <2> QED
    BY <2>2, <2>3, <2>4 DEF FramesInv, PoliteInv
<1>2. FramesInv /\ PoliteInv /\ TypeOK' /\ [Next]_vars => (FramesInv /\ PoliteInv)'
  BY InvStep
<1> QED
  BY <1>1, <1>2, TypeCorrect, PTL DEF Spec

\* jQuery.active counts the requests that are under way: Counter.
THEOREM CounterHolds == Spec => []Counter
<1>1. FramesInv /\ PoliteInv => Counter
  BY DEF PoliteInv, Right, Counter
<1> QED
  BY <1>1, FramesAlways, PTL

\* A request that was aborted never succeeds, and one that is under way can end, whatever
\* user code does.
THEOREM EndsProperly == Spec => [](AbortIsFinal /\ CanEnd)
<1>1. FramesInv /\ PoliteInv => AbortIsFinal /\ CanEnd
  BY DEF FramesInv, Loose, AbortIsFinal, CanEnd
<1> QED
  BY <1>1, FramesAlways, PTL

\* Nothing of a finished request is left, and done runs once.
THEOREM EndsOnce == Spec => [](Quiet /\ CalledOnce)
<1>1. FramesInv /\ PoliteInv => Quiet /\ CalledOnce
  <2> SUFFICES ASSUME FramesInv, PoliteInv, ~rude PROVE Quiet /\ CalledOnce
    BY DEF Quiet, CalledOnce
  <2>1. \A r \in Request : Polite(r)
    BY DEF PoliteInv
  <2>2. CalledOnce
    BY <2>1 DEF CalledOnce, Polite
  <2>3. stack = <<>> => DOMAIN stack = {}
    BY EmptyIs
  <2>4. Quiet
    BY <2>1, <2>3 DEF Quiet, Polite
  <2> QED
    BY <2>2, <2>4
<1> QED
  BY <1>1, FramesAlways, PTL

\* The end of a request is final: nothing that is still to happen revives it, however many there
\* are and whatever their callbacks do to them (abort and done).
THEOREM EndIsFinalAlways == Spec => []EndIsFinal
BY EndsProperly, EndsOnce, PTL DEF EndIsFinal

\* What was aborted before it was sent is never sent: AbortedUnsent.
THEOREM NotSent == Spec => AbortedUnsent
<1>1. FramesInv /\ PoliteInv /\ [Next]_vars =>
        [\A r \in Request : aborted[r] /\ ~sent[r] /\ ~rude => ~sent'[r]]_vars
  <2> SUFFICES ASSUME FramesInv, PoliteInv, [Next]_vars, ~rude, NEW r \in Request, aborted[r], ~sent[r]
               PROVE  ~sent'[r]
    OBVIOUS
  <2>1. CASE UNCHANGED sent
    BY <2>1
  <2>2. CASE Send \/ SendAndAnswer
    <3>1. /\ stack # <<>> /\ Top.at = "ajaxSend" /\ TypeOK /\ Waits
          /\ sent' = [sent EXCEPT ![Top.req] = TRUE]
      BY <2>2 DEF Send, SendAndAnswer, At, FramesInv
    <3>2. Top.req \in Request
      BY <3>1, BelowIs
    <3>3. Polite(Top.req) /\ Polite(r)
      BY <3>2 DEF PoliteInv
    <3>4. state[Top.req] = 0
      BY <3>1, <3>3, TopStands DEF Standing
    <3>5. state[r] = 2
      BY <3>3 DEF Polite
    <3>6. Top.req # r
      BY <3>4, <3>5
    <3> QED
      BY <3>1, <3>6 DEF TypeOK
  <2> QED
    BY <2>1, <2>2 DEF Next, User, Engine, Browser, Ajax, Abort, Throw, Begin, Started, Veto, NoTransport,
                      GetTransport, SendFails, Sent, Answer, Expire, Told, Complete, Completed, Uncount,
                      Stopped, vars, request, history
<1> QED
  BY <1>1, FramesAlways, PTL DEF Spec, AbortedUnsent

-----------------------------------------------------------------------------
\* JSONP.  Two requests do not share a name that they are given.
OwnNames == \A r, q \in Scripts : given[r] = given[q] /\ r # q => given[r] = "none"

\* A name is given, or the latest that was generated at its time; no two requests share one.
Named(r) ==
  \/ callback[r] = given[r] /\ (given[r] = "none" => script[r] = "new")
  \/ given[r] = "none" /\ script[r] # "new" /\ \E k \in 1..jsc : callback[r] = Generated[k]
Unshared == \A r, q \in Scripts : callback[r] = callback[q] /\ callback[r] # "none" => r = q

\* While a request is under way its function is in window, and what was there is kept; only its
\* own response comes into its box, which is empty until its script has run.
Installed(r) == J!Under(r) => window[callback[r]] = r /\ previous[r] = J!Original[callback[r]]
Kept(r) ==
  /\ box[r] \in {"none", r} /\ result[r] \in {"pending", "error", r}
  /\ script[r] = "new" => result[r] = "pending"
  /\ script[r] \in {"new", "loading"} => box[r] = "none"

\* The page has heard nothing yet of a request that is under way or whose script may still run,
\* of none twice, and of those that succeeded by its functions.
Unheard == \A r \in Scripts, n \in Name :
  result[r] = "pending" \/ script[r] = "loading" => \A i \in DOMAIN heard[n] : heard[n][i] # r
HeardOnce == \A n \in Name : \A i, j \in DOMAIN heard[n] : heard[n][i] = heard[n][j] => i = j
HeardAll == \A r \in Scripts :
  result[r] = r /\ callback[r] \in Page => \E i \in DOMAIN heard[callback[r]] : heard[callback[r]][i] = r

JsonpInv ==
  /\ J!TypeOK /\ J!Restored
  /\ (\A r \in Scripts : Named(r)) /\ Unshared
  /\ \A r \in Scripts : Installed(r) /\ Kept(r)
  /\ Unheard /\ HeardOnce /\ HeardAll

\* The name of a request that has begun is a property of window, which holds its function as
\* long as it is under way, and then again what it held at first.
LEMMA HolderIs ==
  ASSUME JsonpInv, NEW r \in Scripts, script[r] # "new"
  PROVE  /\ callback[r] \in Name
         /\ J!Under(r) => window[callback[r]] = r /\ previous[r] = J!Original[callback[r]]
         /\ ~J!Under(r) => window[callback[r]] = J!Original[callback[r]]
<1>1. callback[r] \in Name
  <2>1. given \in [Scripts -> Name \union {"none"}]
    BY ScriptsAssumption DEF J!NameAssumption, J!None
  <2>2. CASE callback[r] = given[r] /\ given[r] # "none"
    BY <2>1, <2>2
  <2>3. CASE \E k \in 1..jsc : callback[r] = Generated[k]
    BY <2>3, ScriptsAssumption DEF J!NameAssumption, JsonpInv, J!TypeOK
  <2> QED
    BY <2>2, <2>3 DEF JsonpInv, Named
<1>2. J!Under(r) => window[callback[r]] = r /\ previous[r] = J!Original[callback[r]]
  BY DEF JsonpInv, Installed
<1>3. ASSUME ~J!Under(r)  PROVE window[callback[r]] = J!Original[callback[r]]
  <2>1. \A q \in Scripts : callback[q] = callback[r] => q = r
    BY <1>1, ScriptsAssumption DEF JsonpInv, Unshared, J!NameAssumption, J!None
  <2> QED
    BY <1>1, <1>3, <2>1 DEF JsonpInv, J!Restored
<1> QED
  BY <1>1, <1>2, <1>3

\* What window holds at first is nobody's request.
LEMMA OriginalIs ==
  ASSUME NEW n \in Name
  PROVE  /\ J!Original[n] \in {"page", "none"} /\ J!Original[n] \notin Scripts
         /\ (J!Original[n] = "page") <=> n \in Page
BY ScriptsAssumption DEF J!Original, J!NameAssumption, J!None

\* The constants' names for nothing and for the page name no request and no property.
LEMMA NoRequest ==
  "none" \notin Scripts /\ "page" \notin Scripts /\ "pending" \notin Scripts /\ "error" \notin Scripts
  /\ "none" \notin Name
BY ScriptsAssumption DEF J!NameAssumption, J!None

\* The next name that jQuery generates is nobody's.
LEMMA NewNameIs ==
  ASSUME JsonpInv, NEW r \in Scripts, script[r] = "new", J!NewName(r)
  PROVE  /\ jsc' \in 0..Len(Generated) /\ jsc <= jsc' /\ jsc \in Nat
         /\ callback' = [callback EXCEPT ![r] = callback'[r]] /\ callback'[r] \in Name
         /\ given[r] # "none" => callback'[r] = given[r]
         /\ given[r] = "none" => \E k \in 1..jsc' : callback'[r] = Generated[k]
<1>1. /\ jsc \in 0..Len(Generated) /\ callback \in [Scripts -> Name \union {"none"}] /\ Len(Generated) \in Nat
      /\ given \in [Scripts -> Name \union {"none"}] /\ Generated \in Seq(Name)
  BY ScriptsAssumption DEF JsonpInv, J!TypeOK, J!NameAssumption, J!None
<1>2. CASE given[r] # "none"
  <2>1. callback' = callback /\ jsc' = jsc
    BY <1>2 DEF J!NewName, J!None
  <2>2. callback[r] = given[r]
    BY <1>2 DEF JsonpInv, Named
  <2> QED
    BY <1>1, <1>2, <2>1, <2>2
<1>3. CASE given[r] = "none"
  <2>1. /\ jsc < Len(Generated) /\ jsc' = jsc + 1
        /\ callback' = [callback EXCEPT ![r] = Generated[jsc + 1]]
    BY <1>3 DEF J!NewName, J!None
  <2>2. jsc + 1 \in 1..Len(Generated) /\ Generated[jsc + 1] \in Name
    BY <1>1, <2>1
  <2>3. callback'[r] = Generated[jsc + 1]
    BY <1>1, <2>1
  <2> QED
    BY <1>1, <1>3, <2>1, <2>2, <2>3
<1> QED
  BY <1>2, <1>3

\* It is nobody's.
LEMMA NewNameUnshared ==
  ASSUME JsonpInv, OwnNames, NEW r \in Scripts, script[r] = "new", J!NewName(r), NEW q \in Scripts, q # r
  PROVE  callback[q] # callback'[r]
<1>1. /\ jsc \in 0..Len(Generated) /\ Len(Generated) \in Nat
      /\ given \in [Scripts -> Name \union {"none"}] /\ Generated \in Seq(Name)
      /\ \A x, y \in 1..Len(Generated) : Generated[x] = Generated[y] => x = y
      /\ \A x \in 1..Len(Generated), p \in Scripts : Generated[x] # given[p]
  <2>1. /\ Generated \in Seq(Name) /\ J!IsInjective(Generated)
        /\ J!Range(Generated) \cap (Page \union J!Range(given)) = {}
        /\ given \in [Scripts -> Name \union {"none"}]
    BY ScriptsAssumption DEF J!NameAssumption, J!None
  <2>2. \A x, y \in 1..Len(Generated) : Generated[x] = Generated[y] => x = y
    BY <2>1 DEF J!IsInjective
  <2>3. \A x \in 1..Len(Generated), p \in Scripts : Generated[x] # given[p]
    BY <2>1 DEF J!Range
  <2> QED
    BY <2>1, <2>2, <2>3 DEF JsonpInv, J!TypeOK
<1>2. Named(q)
  BY DEF JsonpInv
<1>3. CASE given[r] # "none"
  <2>1. callback'[r] = given[r]
    BY <1>3, NewNameIs
  <2>2. given[q] # given[r]
    BY <1>3 DEF OwnNames
  <2> QED
    BY <1>1, <1>2, <1>3, <2>1, <2>2 DEF Named
<1>4. CASE given[r] = "none"
  <2>1. callback'[r] = Generated[jsc + 1] /\ jsc + 1 \in 1..Len(Generated)
    BY <1>1, <1>4 DEF J!NewName, J!None, JsonpInv, J!TypeOK
  <2>2. CASE callback[q] = given[q]
    BY <1>1, <2>1, <2>2
  <2>3. CASE \E k \in 1..jsc : callback[q] = Generated[k]
    BY <1>1, <2>1, <2>3
  <2> QED
    BY <1>2, <2>2, <2>3 DEF Named
<1> QED
  BY <1>3, <1>4

\* The page has heard g where it had heard h, and now in n of r, of which it had not heard.
HeardMore(g, h, n, r) ==
  /\ g \in [Name -> Seq(Scripts)]
  /\ \A m \in Name : \A i, j \in DOMAIN g[m] : g[m][i] = g[m][j] => i = j
  /\ \A m \in Name : \A i \in DOMAIN g[m] :
       (m = n /\ g[m][i] = r) \/ \E j \in DOMAIN h[m] : h[m][j] = g[m][i]
  /\ \A m \in Name : \A j \in DOMAIN h[m] : \E i \in DOMAIN g[m] : g[m][i] = h[m][j]
  /\ \E i \in DOMAIN g[n] : g[n][i] = r

LEMMA HeardMoreIs ==
  ASSUME NEW h \in [Name -> Seq(Scripts)], NEW n \in Name, NEW r \in Scripts,
         \A i \in DOMAIN h[n] : h[n][i] # r,
         \A m \in Name : \A i, j \in DOMAIN h[m] : h[m][i] = h[m][j] => i = j
  PROVE  HeardMore([h EXCEPT ![n] = Append(@, r)], h, n, r)
<1> DEFINE g == [h EXCEPT ![n] = Append(@, r)]
<1>1. g \in [Name -> Seq(Scripts)] /\ g[n] = Append(h[n], r) /\ \A m \in Name : m # n => g[m] = h[m]
  OBVIOUS
<1>2. /\ Len(h[n]) \in Nat /\ DOMAIN h[n] = 1..Len(h[n]) /\ DOMAIN g[n] = 1..(Len(h[n]) + 1)
      /\ g[n][Len(h[n]) + 1] = r /\ \A i \in 1..Len(h[n]) : g[n][i] = h[n][i]
  BY <1>1
<1> HIDE DEF g
<1>3. \A m \in Name : \A i, j \in DOMAIN g[m] : g[m][i] = g[m][j] => i = j
  <2> SUFFICES ASSUME NEW m \in Name, NEW i \in DOMAIN g[m], NEW j \in DOMAIN g[m], g[m][i] = g[m][j]
      PROVE i = j
    OBVIOUS
  <2>1. CASE m # n
    BY <1>1, <2>1
  <2>2. CASE m = n
    <3>1. (i \in 1..Len(h[n]) \/ i = Len(h[n]) + 1) /\ (j \in 1..Len(h[n]) \/ j = Len(h[n]) + 1)
      BY <1>2, <2>2
    <3> QED
      BY <1>2, <2>2, <3>1
  <2> QED
    BY <2>1, <2>2
<1>4. \A m \in Name : \A i \in DOMAIN g[m] : (m = n /\ g[m][i] = r) \/ \E j \in DOMAIN h[m] : h[m][j] = g[m][i]
  <2> SUFFICES ASSUME NEW m \in Name, NEW i \in DOMAIN g[m]
      PROVE (m = n /\ g[m][i] = r) \/ \E j \in DOMAIN h[m] : h[m][j] = g[m][i]
    OBVIOUS
  <2>1. CASE m # n
    BY <1>1, <2>1
  <2>2. CASE m = n
    <3>1. i \in 1..Len(h[n]) \/ i = Len(h[n]) + 1
      BY <1>2, <2>2
    <3> QED
      BY <1>2, <2>2, <3>1
  <2> QED
    BY <2>1, <2>2
<1>5. \A m \in Name : \A j \in DOMAIN h[m] : \E i \in DOMAIN g[m] : g[m][i] = h[m][j]
  <2> SUFFICES ASSUME NEW m \in Name, NEW j \in DOMAIN h[m]
      PROVE \E i \in DOMAIN g[m] : g[m][i] = h[m][j]
    OBVIOUS
  <2>1. CASE m # n
    BY <1>1, <2>1
  <2>2. CASE m = n
    <3>1. j \in DOMAIN g[n] /\ g[n][j] = h[n][j]
      BY <1>2, <2>2
    <3> QED
      BY <2>2, <3>1
  <2> QED
    BY <2>1, <2>2
<1>6. \E i \in DOMAIN g[n] : g[n][i] = r
  BY <1>2
<1> QED
  BY <1>1, <1>3, <1>4, <1>5, <1>6 DEF HeardMore, g

\* What the ends of a request have in common: the function that was in window is put back, and
\* called if it is the page's and there is a response.
Finishes(r, b, v, s) ==
  /\ result' = [result EXCEPT ![r] = v] /\ v \in {"error", r} /\ (v = r => b = r)
  /\ box' = [box EXCEPT ![r] = b] /\ b \in {"none", r}
  /\ script' = [script EXCEPT ![r] = s] /\ s \in {"loading", "over"}
  /\ s = "loading" => script[r] = "loading" /\ b = "none"
  /\ window' = [window EXCEPT ![callback[r]] = J!Original[callback[r]]]
  /\ heard' = IF b = r /\ callback[r] \in Page THEN [heard EXCEPT ![callback[r]] = Append(@, r)] ELSE heard
  /\ UNCHANGED <<jsc, callback, previous>>

\* What CleanUp does for a request under way.
LEMMA CleanUpIs ==
  ASSUME JsonpInv, NEW r \in Scripts, J!Under(r), NEW b \in {"none", r},
         J!CleanUp(r, [box EXCEPT ![r] = b], heard)
  PROVE  /\ window' = [window EXCEPT ![callback[r]] = J!Original[callback[r]]]
         /\ box' = [box EXCEPT ![r] = b]
         /\ heard' = IF b = r /\ callback[r] \in Page THEN [heard EXCEPT ![callback[r]] = Append(@, r)] ELSE heard
<1>1. callback[r] \in Name /\ previous[r] = J!Original[callback[r]]
  BY HolderIs DEF J!Under
<1>2. previous[r] \notin Scripts /\ ((previous[r] = "page") <=> callback[r] \in Page)
  BY <1>1, OriginalIs
<1>3. [box EXCEPT ![r] = b][r] = b
  BY DEF JsonpInv, J!TypeOK
<1>4. window' = [window EXCEPT ![callback[r]] = J!Original[callback[r]]]
  BY <1>1 DEF J!CleanUp
<1>5. box' = [box EXCEPT ![r] = b]
  BY <1>2 DEF J!CleanUp
<1>6. heard' = IF b # "none" /\ previous[r] = "page" THEN [heard EXCEPT ![callback[r]] = Append(@, b)] ELSE heard
  <2> DEFINE boxes == [box EXCEPT ![r] = b]
  <2>1. boxes[r] = b
    BY <1>3
  <2>2. J!CleanUp(r, boxes, heard)
    OBVIOUS
  <2> HIDE DEF boxes
  <2> QED
    BY <2>1, <2>2 DEF J!CleanUp, J!None
<1>7. CASE b = r /\ callback[r] \in Page
  <2>1. b # "none" /\ previous[r] = "page" /\ b = r
    BY <1>2, <1>7, NoRequest
  <2> QED
    BY <1>4, <1>5, <1>6, <1>7, <2>1
<1>8. CASE ~(b = r /\ callback[r] \in Page)
  <2>1. b = "none" \/ previous[r] # "page"
    BY <1>2, <1>8
  <2> QED
    BY <1>4, <1>5, <1>6, <1>8, <2>1
<1> QED
  BY <1>7, <1>8

\* The three ends.
LEMMA LoadFinishes ==
  ASSUME JsonpInv, NEW r \in Scripts, J!Load(r)
  PROVE  Finishes(r, box[r], IF box[r] = "none" THEN "error" ELSE box[r], "over")
<1>1. J!Under(r) /\ box[r] \in {"none", r} /\ box = [box EXCEPT ![r] = box[r]]
  BY DEF J!Load, J!Under, JsonpInv, Kept, J!TypeOK
<1>2. J!CleanUp(r, [box EXCEPT ![r] = box[r]], heard)
  BY <1>1 DEF J!Load
<1>3. /\ window' = [window EXCEPT ![callback[r]] = J!Original[callback[r]]]
      /\ box' = [box EXCEPT ![r] = box[r]]
      /\ heard' = IF box[r] = r /\ callback[r] \in Page
                  THEN [heard EXCEPT ![callback[r]] = Append(@, r)] ELSE heard
  BY <1>1, <1>2, CleanUpIs
<1>4. /\ result' = [result EXCEPT ![r] = IF box[r] = "none" THEN "error" ELSE box[r]]
      /\ script' = [script EXCEPT ![r] = "over"] /\ UNCHANGED <<jsc, callback, previous>>
  BY DEF J!Load, J!None
<1> QED
  BY <1>1, <1>3, <1>4, NoRequest DEF Finishes

LEMMA FetchedFinishes ==
  ASSUME JsonpInv, NEW r \in Scripts, J!Fetched(r)
  PROVE  Finishes(r, r, r, "over")
<1>1. J!Under(r) /\ r # "page"
  BY NoRequest DEF J!Fetched, J!Under
<1>2. J!Holder(r) = r
  BY <1>1, HolderIs DEF J!Holder, J!Under
<1>3. J!Boxed(J!Holder(r), r) = [box EXCEPT ![r] = r] /\ J!Heard(callback[r], J!Holder(r), r) = heard
  BY <1>1, <1>2 DEF J!Boxed, J!Heard
<1>4. J!CleanUp(r, [box EXCEPT ![r] = r], heard)
  BY <1>3 DEF J!Fetched
<1>5. /\ window' = [window EXCEPT ![callback[r]] = J!Original[callback[r]]]
      /\ box' = [box EXCEPT ![r] = r]
      /\ heard' = IF r = r /\ callback[r] \in Page
                  THEN [heard EXCEPT ![callback[r]] = Append(@, r)] ELSE heard
  BY <1>1, <1>4, CleanUpIs
<1>6. [box EXCEPT ![r] = r][r] = r
  BY DEF JsonpInv, J!TypeOK
<1>7. result' = [result EXCEPT ![r] = r]
  BY <1>3, <1>6, NoRequest DEF J!Fetched, J!None
<1>8. script' = [script EXCEPT ![r] = "over"] /\ UNCHANGED <<jsc, callback, previous>>
  BY DEF J!Fetched
<1> QED
  BY <1>5, <1>7, <1>8 DEF Finishes

LEMMA AbortFinishes ==
  ASSUME JsonpInv, NEW r \in Scripts, J!Abort(r)
  PROVE  Finishes(r, box[r], "error", IF script[r] = "loading" /\ cross[r] THEN "loading" ELSE "over")
<1>1. J!Under(r) /\ box[r] \in {"none", r} /\ box = [box EXCEPT ![r] = box[r]]
  BY DEF J!Abort, J!Under, JsonpInv, Kept, J!TypeOK
<1>2. J!CleanUp(r, [box EXCEPT ![r] = box[r]], heard)
  BY <1>1 DEF J!Abort
<1>3. /\ window' = [window EXCEPT ![callback[r]] = J!Original[callback[r]]]
      /\ box' = [box EXCEPT ![r] = box[r]]
      /\ heard' = IF box[r] = r /\ callback[r] \in Page
                  THEN [heard EXCEPT ![callback[r]] = Append(@, r)] ELSE heard
  BY <1>1, <1>2, CleanUpIs
<1>4. /\ result' = [result EXCEPT ![r] = "error"]
      /\ script' = [script EXCEPT ![r] = IF script[r] = "loading" /\ cross[r] THEN "loading" ELSE "over"]
      /\ UNCHANGED <<jsc, callback, previous>>
  BY DEF J!Abort, JsonpInv, J!TypeOK
<1>5. script[r] = "loading" => box[r] = "none"
  BY DEF JsonpInv, Kept
<1> QED
  BY <1>1, <1>3, <1>4, <1>5, NoRequest DEF Finishes

\* One step of each kind keeps JsonpInv.
LEMMA FinishApart ==
  ASSUME JsonpInv, NEW r \in Scripts, J!Under(r), NEW b, NEW v, NEW s, Finishes(r, b, v, s)
  PROVE  JsonpInv'
<1> DEFINE c == callback[r]
<1>1. /\ c \in Name /\ window[c] = r /\ script[r] # "new" /\ result[r] = "pending"
      /\ J!Original[c] \in {"page", "none"}
  BY HolderIs, OriginalIs DEF J!Under
<1>2. /\ UNCHANGED <<jsc, callback, previous>>
      /\ window' = [window EXCEPT ![c] = J!Original[c]] /\ box' = [box EXCEPT ![r] = b]
      /\ script' = [script EXCEPT ![r] = s] /\ result' = [result EXCEPT ![r] = v]
      /\ b \in {"none", r} /\ v \in {"error", r} /\ s \in {"loading", "over"} /\ (v = r => b = r)
      /\ (s = "loading" => script[r] = "loading" /\ b = "none")
  BY DEF Finishes
<1>3. JsonpInv /\ J!TypeOK
  BY DEF JsonpInv
<1>4. \A q \in Scripts : q # r => callback[q] # c /\ script'[q] = script[q] /\ result'[q] = result[q] /\ box'[q] = box[q]
  BY <1>1, <1>2, <1>3, NoRequest DEF JsonpInv, Unshared, J!TypeOK
<1>5. script'[r] = s /\ result'[r] = v /\ box'[r] = b /\ window'[c] = J!Original[c]
      /\ \A n \in Name : n # c => window'[n] = window[n]
  BY <1>1, <1>2, <1>3 DEF J!TypeOK
<1>6. v # "pending" /\ s # "new"
  BY <1>2, NoRequest
<1>7. /\ heard' \in [Name -> Seq(Scripts)] /\ HeardOnce'
      /\ \A m \in Name : \A i \in DOMAIN heard'[m] :
           (b = r /\ heard'[m][i] = r) \/ \E j \in DOMAIN heard[m] : heard[m][j] = heard'[m][i]
      /\ \A m \in Name : \A j \in DOMAIN heard[m] : \E i \in DOMAIN heard'[m] : heard'[m][i] = heard[m][j]
      /\ b = r /\ c \in Page => \E i \in DOMAIN heard'[c] : heard'[c][i] = r
  <2>1. /\ heard \in [Name -> Seq(Scripts)] /\ \A i \in DOMAIN heard[c] : heard[c][i] # r
        /\ \A m \in Name : \A i, j \in DOMAIN heard[m] : heard[m][i] = heard[m][j] => i = j
    BY <1>1, <1>3 DEF J!TypeOK, JsonpInv, HeardOnce, Unheard
  <2>2. CASE b = r /\ c \in Page
    <3>1. heard' = [heard EXCEPT ![c] = Append(@, r)]
      BY <2>2 DEF Finishes
    <3>2. HeardMore(heard', heard, c, r)
      BY <1>1, <2>1, <3>1, HeardMoreIs
    <3> QED
      BY <2>2, <3>2 DEF HeardMore, HeardOnce
  <2>3. CASE ~(b = r /\ c \in Page)
    <3>1. heard' = heard
      BY <2>3 DEF Finishes
    <3> QED
      BY <2>1, <2>3, <3>1 DEF HeardOnce
  <2> QED
    BY <2>2, <2>3
<1>8. J!TypeOK'
  <2>1. window' \in [Name -> Scripts \union {"page", "none"}]
    BY <1>1, <1>2, <1>3 DEF J!TypeOK, J!None
  <2>2. /\ box' \in [Scripts -> Scripts \union {"none"}] /\ result' \in [Scripts -> Scripts \union {"pending", "error"}]
        /\ script' \in [Scripts -> {"new", "loading", "ran", "over"}]
    BY <1>2, <1>3 DEF J!TypeOK, J!None
  <2> QED
    BY <1>2, <1>3, <1>7, <2>1, <2>2 DEF J!TypeOK, J!None
<1>9. J!Restored'
  <2> SUFFICES ASSUME NEW n \in Name, \A q \in Scripts : callback'[q] = n => ~J!Under(q)'
      PROVE  window'[n] = J!Original[n]
    BY DEF J!Restored, J!Original, J!None
  <2>1. CASE n = c
    BY <1>5, <2>1
  <2>2. CASE n # c
    <3>1. \A q \in Scripts : callback[q] = n => ~J!Under(q)
      BY <1>2, <1>4, <2>2 DEF J!Under
    <3> QED
      BY <1>3, <1>5, <2>2, <3>1 DEF JsonpInv, J!Restored
  <2> QED
    BY <2>1, <2>2
<1>10. (\A q \in Scripts : Named(q))'
  <2> SUFFICES ASSUME NEW q \in Scripts  PROVE Named(q)'
    OBVIOUS
  <2>1. Named(q) /\ (script'[q] = "new" <=> script[q] = "new")
    BY <1>1, <1>4, <1>5, <1>6 DEF JsonpInv
  <2> QED
    BY <1>2, <2>1 DEF Named
<1>11. Unshared'
  BY <1>2 DEF JsonpInv, Unshared
<1>12. (\A q \in Scripts : Installed(q) /\ Kept(q))'
  <2> SUFFICES ASSUME NEW q \in Scripts  PROVE Installed(q)' /\ Kept(q)'
    OBVIOUS
  <2>1. Installed(q) /\ Kept(q)
    BY DEF JsonpInv
  <2>2. CASE q = r
    <3>1. Installed(q)'
      BY <1>5, <1>6, <2>2 DEF Installed, J!Under
    <3>2. Kept(q)'
      BY <1>2, <1>5, <1>6, <2>2 DEF Kept
    <3> QED
      BY <3>1, <3>2
  <2>3. CASE q # r
    <3>1. Installed(q)'
      <4> SUFFICES ASSUME J!Under(q)'
          PROVE window'[callback'[q]] = q /\ previous'[q] = J!Original[callback'[q]]
        BY DEF Installed, J!Original, J!None
      <4>1. J!Under(q)
        BY <1>4, <2>3 DEF J!Under
      <4>2. callback[q] \in Name /\ callback[q] # c
        BY <1>4, <2>3, <4>1, HolderIs DEF J!Under
      <4> QED
        BY <1>2, <1>5, <2>1, <4>1, <4>2 DEF Installed
    <3>2. Kept(q)'
      BY <1>4, <2>1, <2>3 DEF Kept
    <3> QED
      BY <3>1, <3>2
  <2> QED
    BY <2>2, <2>3
<1>13. Unheard'
  <2> SUFFICES ASSUME NEW q \in Scripts, NEW n \in Name, result'[q] = "pending" \/ script'[q] = "loading",
                      NEW i \in DOMAIN heard'[n]
      PROVE  heard'[n][i] # q
    BY DEF Unheard
  <2>1. (result[q] = "pending" \/ script[q] = "loading") /\ ~(q = r /\ b = r)
    <3>1. CASE q = r
      BY <1>1, <1>2, <1>5, <1>6, <3>1, NoRequest
    <3>2. CASE q # r
      BY <1>4, <3>2
    <3> QED
      BY <3>1, <3>2
  <2>2. \A j \in DOMAIN heard[n] : heard[n][j] # q
    BY <2>1 DEF JsonpInv, Unheard
  <2> QED
    BY <1>7, <2>1, <2>2
<1>14. HeardAll'
  <2> SUFFICES ASSUME NEW q \in Scripts, result'[q] = q, callback[q] \in Page
      PROVE  \E i \in DOMAIN heard'[callback[q]] : heard'[callback[q]][i] = q
    BY <1>2 DEF HeardAll
  <2>1. CASE q = r
    BY <1>2, <1>5, <1>7, <2>1
  <2>2. CASE q # r
    <3>1. \E i \in DOMAIN heard[callback[q]] : heard[callback[q]][i] = q
      BY <1>4, <2>2 DEF JsonpInv, HeardAll
    <3>2. callback[q] \in Name
      BY ScriptsAssumption DEF J!NameAssumption
    <3> QED
      BY <1>7, <3>1, <3>2
  <2> QED
    BY <2>1, <2>2
<1> QED
  BY <1>7, <1>8, <1>9, <1>10, <1>11, <1>12, <1>13, <1>14 DEF JsonpInv

\* A script runs: its response comes into the box of its own request, or the page's function
\* hears it directly, or nobody does.
LEMMA RunKeeps ==
  ASSUME JsonpInv, NEW r \in Scripts, J!Run(r)
  PROVE  JsonpInv'
<1> DEFINE c == callback[r]
<1>1. /\ script[r] = "loading" /\ c \in Name /\ box[r] = "none"
      /\ J!Under(r) => window[c] = r
      /\ ~J!Under(r) => window[c] \in {"page", "none"} /\ ((window[c] = "page") <=> c \in Page)
  <2>1. script[r] = "loading" /\ script[r] # "new"
    BY DEF J!Run
  <2>2. c \in Name /\ (J!Under(r) => window[c] = r) /\ (~J!Under(r) => window[c] = J!Original[c])
    BY <2>1, HolderIs
  <2> QED
    BY <2>1, <2>2, OriginalIs DEF JsonpInv, Kept
<1>2. UNCHANGED <<window, jsc, callback, previous, result>> /\ script' = [script EXCEPT ![r] = "ran"]
  BY DEF J!Run
<1>3. JsonpInv /\ J!TypeOK
  BY DEF JsonpInv
<1>4. \A q \in Scripts : script'[q] = IF q = r THEN "ran" ELSE script[q]
  BY <1>2, <1>3 DEF J!TypeOK
<1>5. \A q \in Scripts : J!Under(q)' <=> J!Under(q)
  BY <1>1, <1>2, <1>4 DEF J!Under
<1>6. /\ box' \in [Scripts -> Scripts \union {"none"}]
      /\ \A q \in Scripts : box'[q] = box[q] \/ (q = r /\ box'[q] = r)
  <2>1. CASE J!Under(r)
    <3>1. box' = [box EXCEPT ![r] = r]
      BY <1>1, <2>1 DEF J!Run, J!Boxed, J!Holder
    <3> QED
      BY <1>3, <3>1 DEF J!TypeOK, J!None
  <2>2. CASE ~J!Under(r)
    <3>1. box' = box
      BY <1>1, <2>2, NoRequest DEF J!Run, J!Boxed, J!Holder
    <3> QED
      BY <1>3, <3>1 DEF J!TypeOK, J!None
  <2> QED
    BY <2>1, <2>2
<1>7. /\ heard' \in [Name -> Seq(Scripts)] /\ HeardOnce'
      /\ \A m \in Name : \A i \in DOMAIN heard'[m] :
           (~J!Under(r) /\ heard'[m][i] = r) \/ \E j \in DOMAIN heard[m] : heard[m][j] = heard'[m][i]
      /\ \A m \in Name : \A j \in DOMAIN heard[m] : \E i \in DOMAIN heard'[m] : heard'[m][i] = heard[m][j]
  <2>1. /\ heard \in [Name -> Seq(Scripts)] /\ \A i \in DOMAIN heard[c] : heard[c][i] # r
        /\ \A m \in Name : \A i, j \in DOMAIN heard[m] : heard[m][i] = heard[m][j] => i = j
    BY <1>1, <1>3 DEF J!TypeOK, JsonpInv, HeardOnce, Unheard
  <2>2. CASE ~J!Under(r) /\ window[c] = "page"
    <3>1. heard' = [heard EXCEPT ![c] = Append(@, r)]
      BY <2>2 DEF J!Run, J!Heard, J!Holder
    <3>2. HeardMore(heard', heard, c, r)
      BY <1>1, <2>1, <3>1, HeardMoreIs
    <3> QED
      BY <2>2, <3>2 DEF HeardMore, HeardOnce
  <2>3. CASE ~(~J!Under(r) /\ window[c] = "page")
    <3>1. window[c] # "page"
      BY <1>1, <2>3, NoRequest
    <3>2. heard' = heard
      BY <3>1 DEF J!Run, J!Heard, J!Holder
    <3> QED
      BY <2>1, <3>2 DEF HeardOnce
  <2> QED
    BY <2>2, <2>3
<1>8. J!TypeOK'
  <2>1. script' \in [Scripts -> {"new", "loading", "ran", "over"}]
    BY <1>2, <1>3 DEF J!TypeOK
  <2> QED
    BY <1>2, <1>3, <1>6, <1>7, <2>1 DEF J!TypeOK, J!None
<1>9. J!Restored'
  <2> SUFFICES ASSUME NEW n \in Name, \A q \in Scripts : callback'[q] = n => ~J!Under(q)'
      PROVE  window'[n] = J!Original[n]
    BY DEF J!Restored, J!Original, J!None
  <2>1. \A q \in Scripts : callback[q] = n => ~J!Under(q)
    BY <1>2, <1>5
  <2> QED
    BY <1>2, <2>1 DEF JsonpInv, J!Restored
<1>10. (\A q \in Scripts : Named(q))'
  BY <1>1, <1>2, <1>4 DEF JsonpInv, Named
<1>11. Unshared'
  BY <1>2 DEF JsonpInv, Unshared
<1>12. (\A q \in Scripts : Installed(q))'
  <2> SUFFICES ASSUME NEW q \in Scripts, J!Under(q)'
      PROVE window'[callback'[q]] = q /\ previous'[q] = J!Original[callback'[q]]
    BY DEF Installed, J!Original, J!None
  <2> QED
    BY <1>2, <1>5 DEF JsonpInv, Installed
<1>13. (\A q \in Scripts : Kept(q))'
  BY <1>1, <1>2, <1>4, <1>6 DEF JsonpInv, Kept
<1>14. Unheard'
  <2> SUFFICES ASSUME NEW q \in Scripts, NEW n \in Name, result'[q] = "pending" \/ script'[q] = "loading",
                      NEW i \in DOMAIN heard'[n]
      PROVE  heard'[n][i] # q
    BY DEF Unheard
  <2>1. (result[q] = "pending" \/ script[q] = "loading") /\ (q = r => J!Under(r))
    BY <1>1, <1>2, <1>4 DEF J!Under
  <2>2. \A j \in DOMAIN heard[n] : heard[n][j] # q
    BY <2>1 DEF JsonpInv, Unheard
  <2> QED
    BY <1>7, <2>1, <2>2
<1>15. HeardAll'
  <2> SUFFICES ASSUME NEW q \in Scripts, result[q] = q, callback[q] \in Page
      PROVE  \E i \in DOMAIN heard'[callback[q]] : heard'[callback[q]][i] = q
    BY <1>2 DEF HeardAll
  <2>1. \E i \in DOMAIN heard[callback[q]] : heard[callback[q]][i] = q
    BY DEF JsonpInv, HeardAll
  <2>2. callback[q] \in Name
    BY ScriptsAssumption DEF J!NameAssumption
  <2> QED
    BY <1>7, <2>1, <2>2
<1> QED
  BY <1>7, <1>8, <1>9, <1>10, <1>11, <1>12, <1>13, <1>14, <1>15 DEF JsonpInv

LEMMA RunNothingKeeps ==
  ASSUME JsonpInv, NEW r \in Scripts, J!RunNothing(r)
  PROVE  JsonpInv'
<1>1. /\ script[r] = "loading" /\ UNCHANGED <<window, jsc, callback, previous, box, result, heard>>
      /\ script' = [script EXCEPT ![r] = "ran"] \/ script' = [script EXCEPT ![r] = "over"]
  BY DEF J!RunNothing
<1>2. JsonpInv /\ J!TypeOK
  BY DEF JsonpInv
<1>3. \A q \in Scripts : q # r => script'[q] = script[q]
  BY <1>1, <1>2 DEF J!TypeOK
<1>4. script'[r] \in {"ran", "over"} /\ script' \in [Scripts -> {"new", "loading", "ran", "over"}]
  BY <1>1, <1>2 DEF J!TypeOK
<1>5. \A q \in Scripts : J!Under(q)' <=> J!Under(q)
  BY <1>1, <1>3, <1>4 DEF J!Under
<1>6. J!TypeOK'
  BY <1>1, <1>2, <1>4 DEF J!TypeOK, J!None
<1>7. J!Restored'
  <2> SUFFICES ASSUME NEW n \in Name, \A q \in Scripts : callback'[q] = n => ~J!Under(q)'
      PROVE  window'[n] = J!Original[n]
    BY DEF J!Restored, J!Original, J!None
  <2>1. \A q \in Scripts : callback[q] = n => ~J!Under(q)
    BY <1>1, <1>5
  <2> QED
    BY <1>1, <2>1 DEF JsonpInv, J!Restored
<1>8. (\A q \in Scripts : Named(q))'
  BY <1>1, <1>3, <1>4 DEF JsonpInv, Named
<1>9. Unshared'
  BY <1>1 DEF JsonpInv, Unshared
<1>10. (\A q \in Scripts : Installed(q))'
  <2> SUFFICES ASSUME NEW q \in Scripts, J!Under(q)'
      PROVE window'[callback'[q]] = q /\ previous'[q] = J!Original[callback'[q]]
    BY DEF Installed, J!Original, J!None
  <2> QED
    BY <1>1, <1>5 DEF JsonpInv, Installed
<1>11. (\A q \in Scripts : Kept(q))'
  BY <1>1, <1>3, <1>4 DEF JsonpInv, Kept
<1>12. Unheard'
  BY <1>1, <1>3, <1>4 DEF JsonpInv, Unheard
<1>13. HeardOnce' /\ HeardAll'
  BY <1>1 DEF JsonpInv, HeardOnce, HeardAll
<1> QED
  BY <1>6, <1>7, <1>8, <1>9, <1>10, <1>11, <1>12, <1>13 DEF JsonpInv

\* A request begins: its function takes the place of what window holds at first.
LEMMA StartApart ==
  ASSUME JsonpInv, OwnNames, NEW r \in Scripts, J!Ajax(r)
  PROVE  JsonpInv'
<1> DEFINE c == callback'[r]
<1>1. /\ script[r] = "new" /\ J!NewName(r) /\ UNCHANGED <<box, result, heard>>
      /\ previous' = [previous EXCEPT ![r] = window[c]] /\ window' = [window EXCEPT ![c] = r]
      /\ script' = [script EXCEPT ![r] = "loading"]
  BY DEF J!Ajax
<1>2. /\ jsc' \in 0..Len(Generated) /\ jsc <= jsc' /\ jsc \in Nat
      /\ callback' = [callback EXCEPT ![r] = c] /\ c \in Name
      /\ given[r] # "none" => c = given[r]
      /\ given[r] = "none" => \E k \in 1..jsc' : c = Generated[k]
  BY <1>1, NewNameIs
<1>3. \A q \in Scripts : q # r => callback[q] # c
  BY <1>1, NewNameUnshared
<1>4. JsonpInv /\ J!TypeOK
  BY DEF JsonpInv
<1>5. /\ callback[r] \in {c, "none"}
      /\ result[r] = "pending" /\ box[r] = "none"
  BY <1>1, <1>2, <1>4 DEF JsonpInv, Named, Kept
<1> HIDE DEF c
<1>6. window[c] = J!Original[c]
  <2>1. \A q \in Scripts : callback[q] = c => ~J!Under(q)
    BY <1>1, <1>3 DEF J!Under
  <2> QED
    BY <1>2, <2>1 DEF JsonpInv, J!Restored
<1>7. /\ window'[c] = r /\ previous'[r] = J!Original[c] /\ script'[r] = "loading" /\ callback'[r] = c
      /\ \A n \in Name : n # c => window'[n] = window[n]
      /\ \A q \in Scripts : q # r =>
           previous'[q] = previous[q] /\ script'[q] = script[q] /\ callback'[q] = callback[q]
  BY <1>1, <1>2, <1>4, <1>6 DEF J!TypeOK
<1>8. J!Original[c] \in {"page", "none"}
  BY <1>2, OriginalIs
<1>9. J!TypeOK'
  <2>1. window' \in [Name -> Scripts \union {"page", "none"}] /\ callback' \in [Scripts -> Name \union {"none"}]
    BY <1>1, <1>2, <1>4 DEF J!TypeOK, J!None
  <2>2. /\ previous' \in [Scripts -> Scripts \union {"page", "none"}]
        /\ script' \in [Scripts -> {"new", "loading", "ran", "over"}]
    BY <1>1, <1>4, <1>6, <1>8 DEF J!TypeOK, J!None
  <2> QED
    BY <1>1, <1>2, <1>4, <2>1, <2>2 DEF J!TypeOK, J!None
<1>10. J!Restored'
  <2> SUFFICES ASSUME NEW n \in Name, \A q \in Scripts : callback'[q] = n => ~J!Under(q)'
      PROVE  window'[n] = J!Original[n]
    BY DEF J!Restored, J!Original, J!None
  <2>1. n # c
    BY <1>1, <1>5, <1>7 DEF J!Under
  <2>2. \A q \in Scripts : callback[q] = n => ~J!Under(q)
    BY <1>1, <1>7, <2>1 DEF J!Under
  <2> QED
    BY <1>7, <2>1, <2>2 DEF JsonpInv, J!Restored
<1>11. (\A q \in Scripts : Named(q))'
  <2> SUFFICES ASSUME NEW q \in Scripts  PROVE Named(q)'
    OBVIOUS
  <2>1. CASE q = r
    BY <1>2, <1>7, <2>1 DEF Named
  <2>2. CASE q # r
    <3>1. Named(q)
      BY DEF JsonpInv
    <3> QED
      BY <1>2, <1>7, <2>2, <3>1 DEF Named
  <2> QED
    BY <2>1, <2>2
<1>12. Unshared'
  BY <1>3, <1>7 DEF JsonpInv, Unshared
<1>13. (\A q \in Scripts : Installed(q))'
  <2> SUFFICES ASSUME NEW q \in Scripts, J!Under(q)'
      PROVE window'[callback'[q]] = q /\ previous'[q] = J!Original[callback'[q]]
    BY DEF Installed, J!Original, J!None
  <2>1. CASE q = r
    BY <1>7, <2>1
  <2>2. CASE q # r
    <3>1. J!Under(q)
      BY <1>1, <1>7, <2>2 DEF J!Under
    <3>2. callback[q] \in Name /\ callback[q] # c
      BY <1>3, <2>2, <3>1, HolderIs DEF J!Under
    <3> QED
      BY <1>7, <2>2, <3>1, <3>2 DEF JsonpInv, Installed
  <2> QED
    BY <2>1, <2>2
<1>14. (\A q \in Scripts : Kept(q))'
  BY <1>1, <1>5, <1>7 DEF JsonpInv, Kept
<1>15. Unheard'
  BY <1>1, <1>5, <1>7 DEF JsonpInv, Unheard
<1>16. HeardOnce'
  BY <1>1 DEF JsonpInv, HeardOnce
<1>17. HeardAll'
  BY <1>1, <1>5, <1>7, NoRequest DEF JsonpInv, HeardAll
<1> QED
  BY <1>9, <1>10, <1>11, <1>12, <1>13, <1>14, <1>15, <1>16, <1>17 DEF JsonpInv

LEMMA JsonpStarts ==
  ASSUME OwnNames, J!Init
  PROVE  JsonpInv
<1>1. given \in [Scripts -> Name \union {"none"}] /\ Generated \in Seq(Name) /\ Len(Generated) \in Nat
  BY ScriptsAssumption DEF J!NameAssumption, J!None
<1>2. J!TypeOK
  BY <1>1 DEF J!Init, J!TypeOK, J!None, J!Original
<1>3. J!Restored
  BY DEF J!Init, J!Restored
<1>4. \A r \in Scripts : Named(r)
  BY DEF J!Init, Named
<1>5. \A r \in Scripts : Installed(r) /\ Kept(r)
  BY DEF J!Init, Installed, J!Under, Kept, J!None
<1>6. Unheard /\ HeardOnce
  BY DEF J!Init, Unheard, HeardOnce
<1>7. HeardAll
  BY NoRequest DEF J!Init, HeardAll
<1>8. Unshared
  BY DEF J!Init, Unshared, OwnNames
<1> QED
  BY <1>2, <1>3, <1>4, <1>5, <1>6, <1>7, <1>8 DEF JsonpInv

LEMMA JsonpStutters ==
  ASSUME JsonpInv, UNCHANGED J!vars
  PROVE  JsonpInv'
<1>1. UNCHANGED <<window, jsc, callback, previous, box, script, result, heard>>
  BY DEF J!vars
<1>2. J!TypeOK'
  BY <1>1 DEF JsonpInv, J!TypeOK, J!None
<1>3. J!Restored'
  BY <1>1 DEF JsonpInv, J!Restored, J!Under, J!Original, J!None
<1>4. (\A r \in Scripts : Named(r))' /\ Unshared'
  BY <1>1 DEF JsonpInv, Named, Unshared
<1>5. (\A r \in Scripts : Installed(r) /\ Kept(r))'
  BY <1>1 DEF JsonpInv, Installed, Kept, J!Under, J!Original, J!None
<1>6. Unheard' /\ HeardOnce' /\ HeardAll'
  BY <1>1 DEF JsonpInv, Unheard, HeardOnce, HeardAll
<1> QED
  BY <1>2, <1>3, <1>4, <1>5, <1>6 DEF JsonpInv

LEMMA JsonpSteps ==
  ASSUME JsonpInv, OwnNames, J!Next
  PROVE  JsonpInv'
<1> PICK r \in Scripts : J!Ajax(r) \/ J!Run(r) \/ J!RunNothing(r) \/ J!Load(r) \/ J!Fetched(r) \/ J!Abort(r)
  BY DEF J!Next
<1>1. CASE J!Ajax(r)
  BY <1>1, StartApart
<1>2. CASE J!Run(r)
  BY <1>2, RunKeeps
<1>3. CASE J!RunNothing(r)
  BY <1>3, RunNothingKeeps
<1>4. CASE J!Load(r)
  <2>1. J!Under(r)
    BY <1>4 DEF J!Load, J!Under
  <2> QED
    BY <1>4, <2>1, LoadFinishes, FinishApart
<1>5. CASE J!Fetched(r)
  <2>1. J!Under(r)
    BY <1>5 DEF J!Fetched, J!Under
  <2> QED
    BY <1>5, <2>1, FetchedFinishes, FinishApart
<1>6. CASE J!Abort(r)
  <2>1. J!Under(r)
    BY <1>6 DEF J!Abort, J!Under
  <2> QED
    BY <1>6, <2>1, AbortFinishes, FinishApart
<1> QED
  BY <1>1, <1>2, <1>3, <1>4, <1>5, <1>6

\* JSONP requests that are given no name in common do not disturb each other, nor the page, in
\* whatever order their scripts run, and whether they are aborted or not (7587-7646).
THEOREM JsonpIsApart == OwnNames /\ J!Spec => []JsonpApart
<1> SUFFICES ASSUME OwnNames  PROVE J!Spec => []JsonpApart
  OBVIOUS
<1>1. J!Init => JsonpInv
  BY JsonpStarts
<1>2. JsonpInv /\ [J!Next]_(J!vars) => JsonpInv'
  BY JsonpSteps, JsonpStutters
<1>3. JsonpInv => JsonpApart
  <2> SUFFICES ASSUME JsonpInv  PROVE JsonpApart
    OBVIOUS
  <2>1. J!OwnResponse
    BY DEF JsonpInv, Kept, J!OwnResponse
  <2>2. J!Restored
    BY DEF JsonpInv
  <2>3. J!PageHears
    <3> SUFFICES ASSUME NEW r \in Scripts, callback[r] \in Page
        PROVE  LET times == {i \in DOMAIN heard[callback[r]] : heard[callback[r]][i] = r}
               IN (\A i, j \in times : i = j) /\ (result[r] = r => times # {})
      BY DEF J!PageHears
    <3>1. callback[r] \in Name
      BY ScriptsAssumption DEF J!NameAssumption
    <3>2. \A i, j \in DOMAIN heard[callback[r]] : heard[callback[r]][i] = r /\ heard[callback[r]][j] = r => i = j
      BY <3>1 DEF JsonpInv, HeardOnce
    <3>3. result[r] = r => \E i \in DOMAIN heard[callback[r]] : heard[callback[r]][i] = r
      BY DEF JsonpInv, HeardAll
    <3> QED
      BY <3>2, <3>3
  <2> QED
    BY <2>1, <2>2, <2>3 DEF JsonpApart
<1> QED
  BY <1>1, <1>2, <1>3, PTL DEF J!Spec

-----------------------------------------------------------------------------
(* The values of JSONP's variables, whatever names requests are given.     *)

\* A request that has begun has a name; before that it has what it was given.
HasName == \A r \in Scripts : IF script[r] = "new" THEN callback[r] = given[r] ELSE callback[r] \in Name

\* Where r is over, its function is replaced and what was in its box is passed on.
LEMMA CleanUpTypes ==
  ASSUME J!TypeOK, HasName, NEW r \in Scripts, script[r] # "new",
         NEW boxes \in [Scripts -> Scripts \union {"none"}], NEW calls \in [Name -> Seq(Scripts)],
         J!CleanUp(r, boxes, calls)
  PROVE  /\ window' \in [Name -> Scripts \union {"page", "none"}]
         /\ box' \in [Scripts -> Scripts \union {"none"}]
         /\ heard' \in [Name -> Seq(Scripts)]
<1>1. callback[r] \in Name /\ window \in [Name -> Scripts \union {"page", "none"}]
      /\ previous[r] \in Scripts \union {"page", "none"}
  BY DEF J!TypeOK, J!None, HasName
<1>2. window' \in [Name -> Scripts \union {"page", "none"}]
  BY <1>1 DEF J!CleanUp
<1>3. box' \in [Scripts -> Scripts \union {"none"}]
  BY DEF J!CleanUp, J!None
<1>4. CASE boxes[r] # "none" /\ previous[r] = "page"
  <2>1. heard' = [calls EXCEPT ![callback[r]] = Append(calls[callback[r]], boxes[r])]
    BY <1>4 DEF J!CleanUp, J!None
  <2>2. Append(calls[callback[r]], boxes[r]) \in Seq(Scripts)
    BY <1>1, <1>4
  <2> QED
    BY <1>2, <1>3, <2>1, <2>2
<1>5. CASE ~(boxes[r] # "none" /\ previous[r] = "page")
  <2>1. heard' = calls
    BY <1>5 DEF J!CleanUp, J!None
  <2> QED
    BY <1>2, <1>3, <2>1
<1> QED
  BY <1>4, <1>5

\* What a function that is called does to boxes and to what the page has heard.
LEMMA CalledTypes ==
  ASSUME J!TypeOK, HasName, NEW r \in Scripts, script[r] # "new"
  PROVE  /\ J!Boxed(J!Holder(r), r) \in [Scripts -> Scripts \union {"none"}]
         /\ J!Heard(callback[r], J!Holder(r), r) \in [Name -> Seq(Scripts)]
<1>1. callback[r] \in Name /\ box \in [Scripts -> Scripts \union {"none"}] /\ heard \in [Name -> Seq(Scripts)]
  BY DEF J!TypeOK, J!None, HasName
<1>2. J!Boxed(J!Holder(r), r) \in [Scripts -> Scripts \union {"none"}]
  BY <1>1 DEF J!Boxed
<1>3. Append(heard[callback[r]], r) \in Seq(Scripts)
  BY <1>1
<1>4. J!Heard(callback[r], J!Holder(r), r) \in [Name -> Seq(Scripts)]
  BY <1>1, <1>3 DEF J!Heard
<1> QED
  BY <1>2, <1>4

LEMMA JsonpTypesStep ==
  ASSUME J!TypeOK, HasName, J!Next
  PROVE  J!TypeOK' /\ HasName'
<1> PICK r \in Scripts : J!Ajax(r) \/ J!Run(r) \/ J!RunNothing(r) \/ J!Load(r) \/ J!Fetched(r) \/ J!Abort(r)
  BY DEF J!Next
<1>1. CASE J!Ajax(r)
  <2>1. /\ given \in [Scripts -> Name \union {"none"}] /\ Generated \in Seq(Name) /\ Len(Generated) \in Nat
    BY ScriptsAssumption DEF J!NameAssumption, J!None
  <2>2. /\ jsc \in 0..Len(Generated) /\ callback \in [Scripts -> Name \union {"none"}]
        /\ window \in [Name -> Scripts \union {"page", "none"}]
        /\ previous \in [Scripts -> Scripts \union {"page", "none"}]
        /\ script \in [Scripts -> {"new", "loading", "ran", "over"}] /\ script[r] = "new"
    BY <1>1 DEF J!TypeOK, J!None, J!Ajax
  <2>3. jsc' \in 0..Len(Generated) /\ callback' \in [Scripts -> Name \union {"none"}] /\ callback'[r] \in Name
    <3>1. CASE given[r] # "none"
      <4>1. UNCHANGED <<jsc, callback>>
        BY <1>1, <3>1 DEF J!Ajax, J!NewName, J!None
      <4>2. callback[r] = given[r]
        BY <2>2, <3>1 DEF HasName
      <4> QED
        BY <2>1, <2>2, <3>1, <4>1, <4>2
    <3>2. CASE given[r] = "none"
      <4>1. jsc < Len(Generated) /\ jsc' = jsc + 1 /\ callback' = [callback EXCEPT ![r] = Generated[jsc + 1]]
        BY <1>1, <3>2 DEF J!Ajax, J!NewName, J!None
      <4>2. jsc + 1 \in 1..Len(Generated) /\ Generated[jsc + 1] \in Name
        BY <2>1, <2>2, <4>1
      <4> QED
        BY <2>2, <4>1, <4>2
    <3> QED
      BY <3>1, <3>2
  <2>4. /\ previous' = [previous EXCEPT ![r] = window[callback'[r]]]
        /\ window' = [window EXCEPT ![callback'[r]] = r]
        /\ script' = [script EXCEPT ![r] = "loading"]
        /\ UNCHANGED <<box, result, heard>>
    BY <1>1 DEF J!Ajax
  <2>5. J!TypeOK'
    BY <2>2, <2>3, <2>4 DEF J!TypeOK, J!None
  <2>6. \A q \in Scripts : q # r => callback'[q] = callback[q]
    BY <1>1, <2>2 DEF J!Ajax, J!NewName
  <2> QED
    BY <2>2, <2>3, <2>4, <2>5, <2>6 DEF HasName
<1>2. CASE J!Run(r)
  <2>1. script[r] = "loading"
    BY <1>2 DEF J!Run
  <2>2. /\ box' \in [Scripts -> Scripts \union {"none"}] /\ heard' \in [Name -> Seq(Scripts)]
    BY <1>2, <2>1, CalledTypes DEF J!Run
  <2> QED
    BY <1>2, <2>1, <2>2 DEF J!TypeOK, J!None, J!Run, HasName
<1>3. CASE J!RunNothing(r)
  BY <1>3 DEF J!TypeOK, J!None, J!RunNothing, HasName
<1>4. CASE J!Load(r)
  <2>1. script[r] = "ran" /\ J!CleanUp(r, box, heard)
    BY <1>4 DEF J!Load
  <2>2. /\ window' \in [Name -> Scripts \union {"page", "none"}]
        /\ box' \in [Scripts -> Scripts \union {"none"}] /\ heard' \in [Name -> Seq(Scripts)]
    BY <2>1, CleanUpTypes DEF J!TypeOK, J!None
  <2> QED
    BY <1>4, <2>1, <2>2 DEF J!TypeOK, J!None, J!Load, HasName
<1>5. CASE J!Fetched(r)
  <2> DEFINE boxes == J!Boxed(J!Holder(r), r)
             calls == J!Heard(callback[r], J!Holder(r), r)
  <2>1. script[r] = "loading" /\ J!CleanUp(r, boxes, calls)
        /\ result' = [result EXCEPT ![r] = IF boxes[r] = "none" THEN "error" ELSE boxes[r]]
    BY <1>5 DEF J!Fetched, J!None
  <2>2. boxes \in [Scripts -> Scripts \union {"none"}] /\ calls \in [Name -> Seq(Scripts)]
    BY <2>1, CalledTypes
  <2> HIDE DEF boxes, calls
  <2>3. /\ window' \in [Name -> Scripts \union {"page", "none"}]
        /\ box' \in [Scripts -> Scripts \union {"none"}] /\ heard' \in [Name -> Seq(Scripts)]
    BY <2>1, <2>2, CleanUpTypes
  <2> QED
    BY <1>5, <2>1, <2>2, <2>3 DEF J!TypeOK, J!None, J!Fetched, HasName
<1>6. CASE J!Abort(r)
  <2>1. script[r] # "new" /\ J!CleanUp(r, box, heard)
    BY <1>6 DEF J!Abort
  <2>2. /\ window' \in [Name -> Scripts \union {"page", "none"}]
        /\ box' \in [Scripts -> Scripts \union {"none"}] /\ heard' \in [Name -> Seq(Scripts)]
    BY <2>1, CleanUpTypes DEF J!TypeOK, J!None
  <2> QED
    BY <1>6, <2>1, <2>2 DEF J!TypeOK, J!None, J!Abort, HasName
<1> QED
  BY <1>1, <1>2, <1>3, <1>4, <1>5, <1>6

LEMMA JsonpTypesHold == J!Spec => []J!TypeOK
<1>1. J!Init => J!TypeOK /\ HasName
  <2>1. given \in [Scripts -> Name \union {"none"}] /\ Generated \in Seq(Name) /\ Len(Generated) \in Nat
    BY ScriptsAssumption DEF J!NameAssumption, J!None
  <2> QED
    BY <2>1 DEF J!Init, J!TypeOK, J!None, J!Original, HasName
<1>2. J!TypeOK /\ HasName /\ [J!Next]_(J!vars) => J!TypeOK' /\ HasName'
  <2> SUFFICES ASSUME J!TypeOK, HasName, UNCHANGED J!vars  PROVE J!TypeOK' /\ HasName'
    BY JsonpTypesStep
  <2> QED
    BY DEF J!vars, J!TypeOK, J!None, HasName
<1> QED
  BY <1>1, <1>2, PTL DEF J!Spec

-----------------------------------------------------------------------------
(* From what is asked for to what success is given.                        *)

Settings ==
  [asked : Asked, dataTypes : Seq(T!DataType), cross : BOOLEAN, marked : BOOLEAN, body : BOOLEAN,
   type : {"GET", "POST"}, global : BOOLEAN, ct : T!ContentType, jsonp : BOOLEAN,
   transport : {"none", "xhr", "script"}]

\* Types on the way to what is wanted: jQuery has converters to all but the first, which may be
\* "*", and the last is what is wanted, but for a "*" alone, in whose place the server's comes.
Wants(o) ==
  LET last == o.asked[Len(o.asked)] IN
  CASE last = "jsonp" -> "json"
    [] last = "*" -> IF o.ct = "none" THEN "text" ELSE o.ct
    [] OTHER -> last
Leading(o, d) ==
  /\ d # <<>> /\ d[1] # "jsonp" /\ \A k \in 2..Len(d) : d[k] \in T!Convertible
  /\ Wants(o) \in T!Convertible
  /\ d[Len(d)] = "*" => o.asked[Len(o.asked)] = "*"
  /\ d[Len(d)] # "*" => d[Len(d)] = Wants(o)

\* A body is lost only with a script of another domain.
Posted(o) == o.body /\ o.type = "GET" => o.cross /\ \E k \in 1..Len(o.dataTypes) : o.dataTypes[k] = "script"

\* Where a value of type t comes from, when the converters in a have been applied: the last of
\* them, or the responses, or the script element.
Comes(a, answers, t) ==
  IF a # <<>> THEN a[Len(a)][2] = t
  ELSE IF answers = <<>> THEN t = "script" ELSE \E k \in 1..Len(answers) : answers[k] = t

\* Each converter in a takes anything, or what the one before gave, or what was there at first.
Fitting(a, answers) ==
  \A k \in 1..Len(a) :
    \/ a[k][1] = "*"
    \/ k > 1 /\ a[k][1] = a[k - 1][2]
    \/ k = 1 /\ Comes(<<>>, answers, a[k][1])

Conversion == T!DataType \X T!DataType

WayTypes ==
  /\ settings \in Settings /\ responses \in Seq({"xml", "text"})
  /\ {data, current} \subseteq T!DataType \union {"none"}
  /\ round \in 1..Len(settings.dataTypes) /\ applied \in Seq(Conversion)
  /\ phase \in {"prefilter", "transport", "send", "handle", "convert", "done", "failed"}

\* What is known where.
WayPhases ==
  /\ phase = "prefilter" => settings.dataTypes = settings.asked /\ (settings.body => settings.type = "POST")
  /\ phase \in {"prefilter", "transport", "failed"} => settings.transport = "none"
  /\ phase \in {"prefilter", "transport", "send", "handle", "failed"} => applied = <<>> /\ round = 1
  /\ phase \in {"transport", "send", "handle", "convert", "done"} => Leading(settings, settings.dataTypes)
  /\ phase = "send" /\ settings.transport = "script" => settings.dataTypes[1] = "script"
  /\ phase = "handle" => responses = <<"text">> \/ (responses = <<"xml", "text">> /\ settings.ct = "xml")
  /\ phase \in {"convert", "done"} =>
       settings.dataTypes[1] # "*" /\ data = current /\ current = settings.dataTypes[round]
       /\ Comes(applied, responses, current)
  /\ phase = "done" => round = Len(settings.dataTypes)

WayInv == WayTypes /\ WayPhases /\ Posted(settings) /\ Fitting(applied, responses)

\* A sequence with one more at its front.
LEMMA FrontIs ==
  ASSUME NEW S, NEW t \in S, NEW q \in Seq(S), NEW u, u = <<t>> \o q
  PROVE  /\ u \in Seq(S) /\ u # <<>> /\ Len(u) = Len(q) + 1 /\ u[1] = t
         /\ \A k \in 1..Len(q) : u[k + 1] = q[k]
         /\ \A k \in 2..Len(u) : u[k] = q[k - 1] /\ k - 1 \in 1..Len(q)
<1>1. <<t>> \in Seq(S) /\ Len(<<t>>) = 1 /\ <<t>>[1] = t /\ Len(q) \in Nat
  OBVIOUS
<1>2. /\ u \in Seq(S) /\ Len(u) = 1 + Len(q)
      /\ \A k \in 1..(1 + Len(q)) : u[k] = IF k <= 1 THEN <<t>>[k] ELSE q[k - 1]
  BY <1>1
<1> QED
  BY <1>1, <1>2

\* A sequence before another.
LEMMA JoinIs ==
  ASSUME NEW S, NEW p \in Seq(S), NEW q \in Seq(S), NEW u, u = p \o q
  PROVE  /\ u \in Seq(S) /\ Len(u) = Len(p) + Len(q) /\ DOMAIN u = 1..Len(u)
         /\ \A k \in 1..Len(p) : u[k] = p[k]
         /\ \A k \in 1..Len(q) : u[Len(p) + k] = q[k]
OBVIOUS

\* The first converters that there are, whatever was asked for.
LEMMA ConvertersAre ==
  /\ Len(T!Converters) \in 5..6 /\ DOMAIN T!Converters = 1..Len(T!Converters)
  /\ T!Converters[1] = <<"*", "text">>
  /\ T!Has(<<"*", "text">>) /\ \A t \in T!Convertible \ {"text"} : T!Has(<<"text", t>>)
<1> DEFINE c1 == <<"*", "text">>
           c2 == <<"text", "html">>
           c3 == <<"text", "json">>
           c4 == <<"text", "xml">>
           c5 == <<"text", "script">>
           c6 == <<"script", "json">>
           basic == <<c1, c2, c3, c4, c5>>
           extra == IF settings.jsonp THEN <<c6>> ELSE <<>>
           Pairs == {c1, c2, c3, c4, c5, c6}
<1>1. T!Converters = basic \o extra
  BY DEF T!Converters
<1>2. c1 \in Pairs /\ c2 \in Pairs /\ c3 \in Pairs /\ c4 \in Pairs /\ c5 \in Pairs /\ c6 \in Pairs
  OBVIOUS
<1> HIDE DEF c1, c2, c3, c4, c5, c6, Pairs
<1>3. /\ basic \in Seq(Pairs) /\ Len(basic) = 5 /\ basic[1] = c1 /\ basic[2] = c2
      /\ basic[3] = c3 /\ basic[4] = c4 /\ basic[5] = c5
  BY <1>2
<1>4. extra \in Seq(Pairs) /\ Len(extra) \in Nat /\ Len(extra) <= 1
  BY <1>2
<1> HIDE DEF basic, extra
<1>5. /\ T!Converters \in Seq(Pairs) /\ Len(T!Converters) = 5 + Len(extra)
      /\ DOMAIN T!Converters = 1..Len(T!Converters)
      /\ \A k \in 1..5 : T!Converters[k] = basic[k]
  <2>1. /\ T!Converters \in Seq(Pairs) /\ Len(T!Converters) = Len(basic) + Len(extra)
        /\ DOMAIN T!Converters = 1..Len(T!Converters)
        /\ \A k \in 1..Len(basic) : T!Converters[k] = basic[k]
    <3>1. basic \in Seq(Pairs) /\ extra \in Seq(Pairs)
      BY <1>3, <1>4
    <3> QED
      BY <1>1, <3>1, JoinIs
  <2> QED
    BY <1>3, <2>1
<1>6. \A k \in 1..5 : k \in 1..Len(T!Converters)
  BY <1>4, <1>5
<1>7. \A k \in 1..5 : T!Has(basic[k])
  BY <1>5, <1>6 DEF T!Has, T!Contains
<1>8. T!Has(c1) /\ T!Has(c2) /\ T!Has(c3) /\ T!Has(c4) /\ T!Has(c5)
  BY <1>3, <1>7
<1>9. Len(T!Converters) \in 5..6 /\ DOMAIN T!Converters = 1..Len(T!Converters) /\ T!Converters[1] = c1
  <2>1. Len(T!Converters) \in 5..6
    BY <1>4, <1>5
  <2>2. T!Converters[1] = c1
    BY <1>3, <1>5
  <2> QED
    BY <1>5, <2>1, <2>2
<1>10. \A t \in T!Convertible \ {"text"} : T!Has(<<"text", t>>)
  BY <1>8, Zenon DEF T!Convertible, c2, c3, c4, c5
<1> QED
  BY <1>8, <1>9, <1>10 DEF c1

\* There is always a conversion: a direct one, or one by way of a text.
LEMMA StepsAre ==
  ASSUME NEW prev \in T!Convertible, NEW next \in T!Convertible, prev # next
  PROVE  \/ T!Steps(prev, next) \in {<< <<prev, next>> >>, << <<"*", next>> >>}
         \/ T!Steps(prev, next) = << <<"*", "text">>, <<"text", next>> >>
<1> DEFINE between == {k \in DOMAIN T!Converters : T!Converters[k][1] \in {prev, "*"} /\ T!Has(<<T!Converters[k][2], next>>)}
<1>1. CASE T!Direct(prev, next) # {}
  BY <1>1 DEF T!Steps
<1>2. CASE T!Direct(prev, next) = {}
  <2>1. ~T!Has(<<"*", next>>)
    BY <1>2 DEF T!Direct
  <2>2. next # "text"
    BY <2>1, ConvertersAre
  <2>3. 1 \in between /\ \A k \in between : k \in Nat /\ 1 <= k
    BY <2>2, ConvertersAre
  <2>4. T!Min(between) = 1
    <3>1. T!Min(between) = CHOOSE k \in between : \A j \in between : k <= j
      BY DEF T!Min
    <3> HIDE DEF between
    <3>2. \A k \in between : (\A j \in between : k <= j) => k = 1
      BY <2>3
    <3> QED
      BY <2>3, <3>1, <3>2
  <2>5. T!Steps(prev, next) = << T!Converters[1], <<T!Converters[1][2], next>> >>
    BY <1>2, <2>3, <2>4 DEF T!Steps
  <2> QED
    BY <2>5, ConvertersAre
<1> QED
  BY <1>1, <1>2

\* Two settings of one request that differ in nothing that is not changed on the way.
Same(o, q) ==
  o.asked = q.asked /\ o.ct = q.ct /\ o.transport = q.transport /\ o.body = q.body /\ o.cross = q.cross

\* What is asked for leads to what is wanted, but for JSONP.
LEMMA AskedLeads ==
  ASSUME NEW o \in Settings
  PROVE  /\ o.asked \in Seq(T!DataType) /\ o.asked # <<>> /\ Len(o.asked) \in Nat \ {0}
         /\ \A k \in 2..Len(o.asked) : o.asked[k] \in T!Convertible
         /\ Wants(o) \in T!Convertible
         /\ o.asked[Len(o.asked)] \notin {"jsonp", "*"} => Wants(o) = o.asked[Len(o.asked)]
         /\ o.asked[Len(o.asked)] = "jsonp" => Wants(o) = "json"
<1>1. o.asked \in Asked /\ o.ct \in T!ContentType
  BY DEF Settings
<1>2. /\ o.asked \in Seq(T!DataType) /\ o.asked # <<>>
      /\ \A k \in 2..Len(o.asked) : o.asked[k] \in T!Convertible
  BY <1>1, AskedAssumption DEF T!TypesAssumption
<1>3. Len(o.asked) \in Nat \ {0} /\ o.asked[Len(o.asked)] \in T!DataType
  BY <1>2
<1> QED
  BY <1>1, <1>2, <1>3 DEF Wants, T!DataType, T!Convertible, T!ContentType

LEMMA ScriptIs ==
  ASSUME NEW o \in Settings, o.dataTypes # <<>>, o.dataTypes[1] = "script", o.body => o.type = "POST",
         NEW q, q = T!Filtered(o, "script").o
  PROVE  q \in Settings /\ Same(q, o) /\ q.dataTypes = o.dataTypes /\ Posted(q) /\ T!Filtered(o, "script").to = "none"
<1>1. T!Filtered(o, "script") = T!Script(o)
  BY DEF T!Filtered
<1>2. T!Script(o).to = "none" /\ q = IF o.cross THEN [o EXCEPT !.type = "GET", !.global = FALSE] ELSE o
  BY <1>1 DEF T!Script
<1>3. /\ o.dataTypes \in Seq(T!DataType) /\ 1 \in 1..Len(o.dataTypes)
  BY DEF Settings
<1>4. CASE o.cross
  <2>1. q = [o EXCEPT !.type = "GET", !.global = FALSE]
    BY <1>2, <1>4
  <2>2. q \in Settings /\ Same(q, o) /\ q.dataTypes = o.dataTypes
    BY <2>1 DEF Settings, Same
  <2>3. q.cross /\ q.dataTypes[1] = "script"
    BY <1>4, <2>2 DEF Same
  <2>4. Posted(q)
    BY <1>3, <2>2, <2>3 DEF Posted
  <2> QED
    BY <1>1, <1>2, <2>2, <2>4
<1>5. CASE ~o.cross
  <2>1. q = o
    BY <1>2, <1>5
  <2>2. Posted(q)
    BY <1>3, <2>1 DEF Posted
  <2>3. Same(q, o)
    BY <2>1 DEF Same
  <2> QED
    BY <1>1, <1>2, <2>1, <2>2, <2>3
<1> QED
  BY <1>4, <1>5

LEMMA JsonpIs ==
  ASSUME NEW o \in Settings, NEW t \in {"json", "jsonp"}, o.dataTypes # <<>>, o.dataTypes[1] = t,
         NEW n, n = T!Filtered(o, t)
  PROVE  \/ n.to = "none" /\ n.o = o /\ t = "json"
         \/ /\ n.to = "script" /\ n.o \in Settings /\ Same(n.o, o) /\ n.o.type = o.type
            /\ n.o.dataTypes = [o.dataTypes EXCEPT ![1] = "json"]
<1>1. n = T!Jsonp(o)
  BY DEF T!Filtered
<1>2. CASE o.dataTypes[1] = "jsonp" \/ o.marked
  <2>1. n = [to |-> "script", o |-> [o EXCEPT !.dataTypes[1] = "json", !.jsonp = TRUE]]
    BY <1>1, <1>2 DEF T!Jsonp
  <2>2. [o.dataTypes EXCEPT ![1] = "json"] \in Seq(T!DataType)
    BY DEF Settings, T!DataType, T!Convertible
  <2>3. n.to = "script" /\ n.o = [o EXCEPT !.dataTypes = [o.dataTypes EXCEPT ![1] = "json"], !.jsonp = TRUE]
    BY <2>1 DEF Settings
  <2> QED
    BY <2>2, <2>3 DEF Settings, Same
<1>3. CASE ~(o.dataTypes[1] = "jsonp" \/ o.marked)
  BY <1>1, <1>3 DEF T!Jsonp
<1> QED
  BY <1>2, <1>3

\* The prefilters lead to what is wanted, too, and lose a body only to a script.
LEMMA Inspected ==
  ASSUME NEW o \in Settings, o.dataTypes = o.asked, o.body => o.type = "POST", NEW q, q = T!Inspect(o)
  PROVE  q \in Settings /\ Same(q, o) /\ Posted(q) /\ Leading(q, q.dataTypes)
<1> DEFINE t == o.asked[1]
           n == T!Filtered(o, t)
           r == [n.o EXCEPT !.dataTypes = <<n.to>> \o n.o.dataTypes]
<1>1. /\ o.asked \in Seq(T!DataType) /\ o.asked # <<>> /\ Len(o.asked) \in Nat \ {0}
      /\ \A k \in 2..Len(o.asked) : o.asked[k] \in T!Convertible
      /\ Wants(o) \in T!Convertible
      /\ o.asked[Len(o.asked)] \notin {"jsonp", "*"} => Wants(o) = o.asked[Len(o.asked)]
      /\ o.asked[Len(o.asked)] = "jsonp" => Wants(o) = "json"
  BY AskedLeads
<1>2. t \in T!DataType
  BY <1>1
<1>3. q = IF n.to = "none" THEN n.o ELSE T!Filtered(r, n.to).o
  BY DEF T!Inspect
<1>4. ASSUME q = o, t # "jsonp"  PROVE q \in Settings /\ Same(q, o) /\ Posted(q) /\ Leading(q, q.dataTypes)
  <2>1. o.asked[Len(o.asked)] # "jsonp"
    BY <1>1, <1>4 DEF T!Convertible
  <2>2. Posted(o) /\ Same(o, o)
    BY DEF Posted, Same
  <2> QED
    BY <1>1, <1>4, <2>1, <2>2 DEF Leading
<1>5. CASE t \notin {"json", "jsonp", "script"}
  <2>1. n = [to |-> "none", o |-> o]
    BY <1>5 DEF T!Filtered
  <2> QED
    BY <1>3, <1>4, <1>5, <2>1
<1>6. CASE t = "script"
  <2>1. n.to = "none" /\ n.o \in Settings /\ Same(n.o, o) /\ n.o.dataTypes = o.asked /\ Posted(n.o)
    BY <1>1, <1>6, ScriptIs
  <2>2. q = n.o
    BY <1>3, <2>1
  <2>3. Wants(q) = Wants(o)
    BY <2>1, <2>2 DEF Wants, Same
  <2>4. o.asked[Len(o.asked)] \notin {"jsonp"}
    BY <1>1, <1>6 DEF T!Convertible
  <2>5. Leading(q, o.asked)
    BY <1>1, <1>6, <2>1, <2>2, <2>3, <2>4 DEF Leading, Same
  <2> QED
    BY <2>1, <2>2, <2>5
<1>7. CASE t \in {"json", "jsonp"}
  <2>1. CASE n.to = "none" /\ n.o = o /\ t = "json"
    BY <1>3, <1>4, <2>1
  <2>2. CASE /\ n.to = "script" /\ n.o \in Settings /\ Same(n.o, o) /\ n.o.type = o.type
             /\ n.o.dataTypes = [o.dataTypes EXCEPT ![1] = "json"]
    <3> DEFINE d == n.o.dataTypes
               e == <<"script">> \o d
    <3>1. /\ d \in Seq(T!DataType) /\ Len(d) = Len(o.asked) /\ d # <<>> /\ d[1] = "json"
          /\ \A k \in 2..Len(d) : d[k] = o.asked[k]
      BY <1>1, <2>2 DEF T!DataType, T!Convertible
    <3> HIDE DEF d
    <3>2. "script" \in T!DataType
      BY DEF T!DataType, T!Convertible
    <3>3. /\ e \in Seq(T!DataType) /\ e # <<>> /\ Len(e) = Len(d) + 1 /\ e[1] = "script"
          /\ \A k \in 1..Len(d) : e[k + 1] = d[k]
          /\ \A k \in 2..Len(e) : e[k] = d[k - 1] /\ k - 1 \in 1..Len(d)
      BY <3>1, <3>2, FrontIs
    <3> HIDE DEF e
    <3>4. r = [n.o EXCEPT !.dataTypes = e]
      BY <2>2 DEF d, e
    <3>5. r \in Settings /\ r.dataTypes = e /\ Same(r, o) /\ (r.body => r.type = "POST")
      BY <2>2, <3>3, <3>4 DEF Settings, Same
    <3>6. q = T!Filtered(r, "script").o
      BY <1>3, <2>2
    <3> HIDE DEF r, n
    <3>7. q \in Settings /\ Same(q, r) /\ q.dataTypes = r.dataTypes /\ Posted(q)
      BY <3>3, <3>5, <3>6, ScriptIs
    <3>8. Wants(q) = Wants(o) /\ Same(q, o)
      BY <3>5, <3>7 DEF Wants, Same
    <3>9. \A k \in 2..Len(e) : e[k] \in T!Convertible
      <4> SUFFICES ASSUME NEW k \in 2..Len(e)  PROVE e[k] \in T!Convertible
        OBVIOUS
      <4>1. e[k] = d[k - 1] /\ k - 1 \in 1..Len(d)
        BY <3>3
      <4>2. CASE k = 2
        BY <3>1, <4>1, <4>2 DEF T!Convertible
      <4>3. CASE k # 2
        <5>1. k - 1 \in 2..Len(o.asked)
          BY <1>1, <3>1, <4>1, <4>3
        <5> QED
          BY <1>1, <3>1, <4>1, <5>1
      <4> QED
        BY <4>2, <4>3
    <3>10. e[Len(e)] = Wants(o) /\ e[Len(e)] # "*"
      <4>1. e[Len(e)] = d[Len(d)] /\ Len(d) \in Nat \ {0}
        BY <1>1, <3>1, <3>3
      <4>2. CASE Len(d) = 1
        BY <1>1, <1>7, <3>1, <4>1, <4>2
      <4>3. CASE Len(d) # 1
        <5>1. d[Len(d)] = o.asked[Len(o.asked)] /\ o.asked[Len(o.asked)] \in T!Convertible
          BY <1>1, <3>1, <4>1, <4>3
        <5> QED
          BY <1>1, <4>1, <5>1 DEF T!Convertible
      <4> QED
        BY <4>2, <4>3
    <3>11. Leading(q, e)
      BY <1>1, <3>3, <3>8, <3>9, <3>10 DEF Leading
    <3> QED
      BY <3>5, <3>7, <3>8, <3>11
  <2> QED
    BY <1>1, <1>7, <2>1, <2>2, JsonpIs
<1> QED
  BY <1>2, <1>5, <1>6, <1>7

LEMMA LeastIs ==
  ASSUME NEW U, U \subseteq 1..2, U # {}
  PROVE  T!Min(U) \in U
<1>1. T!Min(U) = CHOOSE k \in U : \A j \in U : k <= j
  BY DEF T!Min
<1>2. \E k \in U : \A j \in U : k <= j
  <2>1. CASE 1 \in U
    BY <2>1
  <2>2. CASE 1 \notin U
    <3>1. PICK u \in U : TRUE
      OBVIOUS
    <3>2. \A j \in U : j = 2
      BY <2>2
    <3>3. u = 2 /\ \A j \in U : 2 <= j
      BY <3>1, <3>2
    <3> QED
      BY <3>1, <3>3
  <2> QED
    BY <2>1, <2>2
<1> QED
  BY <1>1, <1>2

\* What is left of a sequence without its first.
LEMMA TailIs ==
  ASSUME NEW S, NEW q \in Seq(S), q # <<>>, NEW u, u = Tail(q)
  PROVE  u \in Seq(S) /\ Len(u) = Len(q) - 1 /\ \A k \in 1..Len(u) : u[k] = q[k + 1]
OBVIOUS

LEMMA LengthIs ==
  ASSUME NEW S, NEW q \in Seq(S)
  PROVE  Len(q) \in Nat /\ DOMAIN q = 1..Len(q) /\ (q = <<>> <=> Len(q) = 0)
OBVIOUS

LEMMA HeadIs ==
  ASSUME NEW S, NEW q \in Seq(S), Len(q) \in 1..2
  PROVE  Head(q) = q[1]
OBVIOUS

\* What ajaxHandleResponses makes of the data types, before a response is chosen: "*" has gone,
\* and the server's type has come in its place.
Left(o) == IF o.dataTypes[1] = "*" THEN Tail(o.dataTypes) ELSE o.dataTypes
Types(o) == IF o.dataTypes[1] = "*" /\ o.ct # "none" THEN <<o.ct>> \o Left(o) ELSE Left(o)

LEMMA TypesAre ==
  ASSUME NEW o \in Settings, Leading(o, o.dataTypes), NEW types, types = Types(o)
  PROVE  /\ types \in Seq(T!Convertible)
         /\ types = <<>> => Wants(o) = "text" /\ o.ct = "none"
         /\ types # <<>> => types[Len(types)] = Wants(o)
         /\ \A k \in 1..Len(o.dataTypes) : o.dataTypes[k] = "script" => \E j \in 1..Len(types) : types[j] = "script"
<1> DEFINE d == o.dataTypes
           rest == Left(o)
<1>1. /\ d \in Seq(T!DataType) /\ d # <<>> /\ Len(d) \in Nat \ {0} /\ d[1] \in T!DataType \ {"jsonp"}
      /\ \A k \in 2..Len(d) : d[k] \in T!Convertible
  BY DEF Settings, Leading
<1>2. o.ct \in T!ContentType
  BY DEF Settings
<1>3. /\ d[Len(d)] = "*" => o.asked[Len(o.asked)] = "*"
      /\ d[Len(d)] # "*" => d[Len(d)] = Wants(o)
  BY DEF Leading
<1>4. d[Len(d)] = "*" => Wants(o) = IF o.ct = "none" THEN "text" ELSE o.ct
  BY <1>3 DEF Wants
<1> HIDE DEF d
<1>5. CASE d[1] # "*"
  <2>1. types = d
    BY <1>5 DEF d, Types, Left
  <2>2. \A k \in 1..Len(d) : d[k] \in T!Convertible
    BY <1>1, <1>5 DEF T!DataType, T!Convertible
  <2>3. d[Len(d)] # "*"
    BY <1>1, <2>2 DEF T!Convertible
  <2> QED
    BY <1>1, <1>3, <2>1, <2>2, <2>3 DEF d
<1>6. CASE d[1] = "*"
  <2>1. rest = Tail(d)
    BY <1>6 DEF d, Left
  <2> HIDE DEF rest
  <2>2. /\ rest \in Seq(T!DataType) /\ Len(rest) = Len(d) - 1 /\ Len(rest) \in Nat
        /\ (rest = <<>> <=> Len(rest) = 0) /\ DOMAIN rest = 1..Len(rest)
        /\ \A k \in 1..Len(rest) : rest[k] = d[k + 1]
    <3>1. d \in Seq(T!DataType) /\ d # <<>>
      BY <1>1
    <3>2. rest \in Seq(T!DataType) /\ Len(rest) = Len(d) - 1 /\ \A k \in 1..Len(rest) : rest[k] = d[k + 1]
      BY <2>1, <3>1, TailIs
    <3> QED
      BY <3>2, LengthIs
  <2>3. rest \in Seq(T!Convertible)
    <3>1. \A k \in 1..Len(rest) : rest[k] \in T!Convertible
      BY <1>1, <2>2
    <3> QED
      BY <2>2, <3>1
  <2>4. Len(rest) \in Nat /\ (rest = <<>> <=> Len(rest) = 0)
    BY <2>2
  <2>5. rest # <<>> => rest[Len(rest)] = Wants(o)
    <3> SUFFICES ASSUME rest # <<>>  PROVE rest[Len(rest)] = Wants(o)
      OBVIOUS
    <3>1. rest[Len(rest)] = d[Len(d)] /\ d[Len(d)] \in T!Convertible
      BY <1>1, <2>2, <2>4
    <3> QED
      BY <1>3, <3>1 DEF T!Convertible
  <2>6. rest = <<>> => d[Len(d)] = "*"
    <3> SUFFICES ASSUME rest = <<>>  PROVE d[Len(d)] = "*"
      OBVIOUS
    <3>1. Len(rest) = 0 /\ Len(rest) = Len(d) - 1
      BY <2>2
    <3>2. Len(d) = 1
      BY <1>1, <3>1
    <3> QED
      BY <1>6, <3>2
  <2>7. \A k \in 1..Len(d) : d[k] = "script" => k - 1 \in 1..Len(rest) /\ rest[k - 1] = "script"
    <3> SUFFICES ASSUME NEW k \in 1..Len(d), d[k] = "script"  PROVE k - 1 \in 1..Len(rest) /\ rest[k - 1] = "script"
      OBVIOUS
    <3>1. k # 1
      BY <1>6
    <3>2. k - 1 \in 1..Len(rest)
      BY <1>1, <2>2, <3>1
    <3>3. rest[k - 1] = d[(k - 1) + 1] /\ (k - 1) + 1 = k
      BY <2>2, <3>2
    <3> QED
      BY <3>2, <3>3
  <2>8. CASE o.ct = "none"
    <3>1. types = rest
      BY <2>8 DEF Types, rest
    <3> QED
      <4>1. \A k \in 1..Len(d) : d[k] = "script" => \E j \in 1..Len(rest) : rest[j] = "script"
        BY <2>7
      <4>2. rest = <<>> => Wants(o) = "text"
        BY <1>4, <2>6, <2>8
      <4> QED
        BY <2>3, <2>5, <2>8, <3>1, <4>1, <4>2 DEF d
  <2>9. CASE o.ct # "none"
    <3>1. types = <<o.ct>> \o rest /\ o.ct \in T!Convertible
      BY <1>2, <1>6, <2>9 DEF T!ContentType, T!Convertible, d, Types, rest
    <3>2. /\ types \in Seq(T!Convertible) /\ types # <<>> /\ Len(types) = Len(rest) + 1 /\ types[1] = o.ct
          /\ \A k \in 1..Len(rest) : types[k + 1] = rest[k]
      BY <2>3, <3>1, FrontIs
    <3>3. types[Len(types)] = Wants(o)
      <4>1. CASE rest = <<>>
        BY <1>4, <2>4, <2>6, <2>9, <3>2, <4>1
      <4>2. CASE rest # <<>>
        BY <2>4, <2>5, <3>2, <4>2
      <4> QED
        BY <4>1, <4>2
    <3>4. ASSUME NEW k \in 1..Len(d), d[k] = "script"  PROVE \E j \in 1..Len(types) : types[j] = "script"
      <4>1. k - 1 \in 1..Len(rest) /\ rest[k - 1] = "script"
        BY <2>7, <3>4
      <4>2. k \in 1..Len(types) /\ types[k] = "script"
        BY <2>4, <3>2, <4>1
      <4> QED
        BY <4>2
    <3> QED
      BY <3>2, <3>3, <3>4 DEF d
  <2> QED
    BY <2>8, <2>9
<1> QED
  BY <1>5, <1>6

\* The response is put in front of them, unless it is the first already.
LEMMA Handled ==
  ASSUME WayInv, T!HandleResponses
  PROVE  WayInv'
<1> DEFINE o == settings
           types == Types(settings)
           usable == {k \in DOMAIN responses : types = <<>> \/ T!Has(<<responses[k], types[1]>>)}
           final == IF types # <<>> /\ T!Contains(responses, types[1]) THEN types[1]
                    ELSE IF usable # {} THEN responses[T!Min(usable)] ELSE Head(responses)
           all == IF types # <<>> /\ types[1] = final THEN types ELSE <<final>> \o types
<1>1. /\ phase = "handle" /\ phase' = "convert"
      /\ settings' = [settings EXCEPT !.dataTypes = all] /\ data' = final /\ current' = all[1]
      /\ UNCHANGED <<responses, round, applied>>
  BY DEF T!HandleResponses, Types, Left
<1>2. /\ settings \in Settings /\ Leading(settings, settings.dataTypes) /\ Posted(settings)
      /\ applied = <<>> /\ round = 1
      /\ responses = <<"text">> \/ (responses = <<"xml", "text">> /\ settings.ct = "xml")
  BY <1>1 DEF WayInv, WayTypes, WayPhases
<1>3. /\ types \in Seq(T!Convertible)
      /\ types = <<>> => Wants(o) = "text" /\ o.ct = "none"
      /\ types # <<>> => types[Len(types)] = Wants(o)
      /\ \A k \in 1..Len(o.dataTypes) : o.dataTypes[k] = "script" => \E j \in 1..Len(types) : types[j] = "script"
  BY <1>2, TypesAre
<1> HIDE DEF types
<1>4. responses \in Seq({"xml", "text"}) /\ Len(responses) \in 1..2 /\ DOMAIN responses = 1..Len(responses)
  <2>1. CASE responses = <<"text">>
    BY <2>1
  <2>2. CASE responses = <<"xml", "text">>
    BY <2>2
  <2> QED
    BY <1>2, <2>1, <2>2
<1>5. (\E k \in 1..Len(responses) : responses[k] = final) /\ final \in {"xml", "text"} /\ (types = <<>> => final = "text")
  <2>1. \E k \in 1..Len(responses) : responses[k] = final
    <3>1. CASE types # <<>> /\ T!Contains(responses, types[1])
      BY <3>1 DEF T!Contains
    <3>2. CASE ~(types # <<>> /\ T!Contains(responses, types[1])) /\ usable # {}
      <4>1. usable \subseteq 1..2 /\ usable \subseteq 1..Len(responses)
        BY <1>4
      <4>2. T!Min(usable) \in usable
        BY <3>2, <4>1, LeastIs
      <4>3. final = responses[T!Min(usable)]
        BY <3>2
      <4> QED
        BY <4>1, <4>2, <4>3
    <3>3. CASE ~(types # <<>> /\ T!Contains(responses, types[1])) /\ usable = {}
      <4>1. final = responses[1] /\ 1 \in 1..Len(responses)
        <5>1. final = Head(responses)
          BY <3>3
        <5>2. Head(responses) = responses[1]
          BY <1>4, HeadIs
        <5>3. 1 \in 1..Len(responses)
          BY <1>4
        <5> QED
          BY <5>1, <5>2, <5>3
      <4> QED
        BY <4>1
    <3> QED
      BY <3>1, <3>2, <3>3
  <2> HIDE DEF final
  <2>2. final \in {"xml", "text"}
    BY <1>4, <2>1
  <2>3. types = <<>> => responses = <<"text">>
    BY <1>2, <1>3
  <2> QED
    BY <2>1, <2>2, <2>3
<1> HIDE DEF final, usable
<1>6. /\ all \in Seq(T!Convertible) /\ all # <<>> /\ all[1] = final /\ all[Len(all)] = Wants(o)
      /\ \A k \in 1..Len(o.dataTypes) : o.dataTypes[k] = "script" => \E j \in 1..Len(all) : all[j] = "script"
  <2>1. CASE types # <<>> /\ types[1] = final
    BY <1>3, <2>1
  <2>2. CASE ~(types # <<>> /\ types[1] = final)
    <3>1. all = <<final>> \o types /\ final \in T!Convertible
      BY <1>5, <2>2 DEF T!Convertible
    <3>2. /\ all \in Seq(T!Convertible) /\ all # <<>> /\ Len(all) = Len(types) + 1 /\ all[1] = final
          /\ \A k \in 1..Len(types) : all[k + 1] = types[k]
      BY <1>3, <3>1, FrontIs
    <3>3. Len(types) \in Nat /\ (types = <<>> <=> Len(types) = 0)
      BY <1>3
    <3>4. all[Len(all)] = Wants(o)
      <4>1. CASE types = <<>>
        BY <1>3, <1>5, <3>2, <3>3, <4>1
      <4>2. CASE types # <<>>
        BY <1>3, <3>2, <3>3, <4>2
      <4> QED
        BY <4>1, <4>2
    <3>5. ASSUME NEW k \in 1..Len(o.dataTypes), o.dataTypes[k] = "script"  PROVE \E j \in 1..Len(all) : all[j] = "script"
      <4>1. PICK j \in 1..Len(types) : types[j] = "script"
        BY <1>3, <3>5
      <4>2. j + 1 \in 1..Len(all) /\ all[j + 1] = "script"
        BY <3>2, <3>3, <4>1
      <4> QED
        BY <4>2
    <3> QED
      BY <3>2, <3>4, <3>5
  <2> QED
    BY <2>1, <2>2
<1> HIDE DEF all
<1>7. /\ all \in Seq(T!DataType) /\ Len(all) \in Nat \ {0}
      /\ \A k \in 1..Len(all) : all[k] \in T!Convertible
  BY <1>6 DEF T!DataType
<1>8. /\ settings' \in Settings /\ settings'.dataTypes = all /\ Same(settings', settings) /\ settings'.type = settings.type
  BY <1>1, <1>2, <1>7 DEF Settings, Same
<1>9. Wants(settings') = Wants(settings)
  BY <1>8 DEF Wants, Same
<1>10. Posted(settings')
  BY <1>2, <1>6, <1>8 DEF Posted, Same
<1>11. Leading(settings', settings'.dataTypes)
  BY <1>6, <1>7, <1>8, <1>9 DEF Leading, T!Convertible
<1>12. /\ {data', current'} \subseteq T!DataType \union {"none"} /\ data' = current' /\ current' = all[1]
       /\ all[1] # "*"
  BY <1>1, <1>6, <1>7 DEF T!Convertible, T!DataType
<1>13. Comes(applied, responses, current)'
  <2>1. current' = final /\ applied' = <<>> /\ responses' = responses /\ responses # <<>>
    <3>1. responses # <<>>
      BY <1>4
    <3>2. current' = all[1] /\ all[1] = final
      BY <1>1, <1>6
    <3> QED
      BY <1>1, <1>2, <3>1, <3>2
  <2> QED
    BY <1>5, <2>1 DEF Comes
<1>14. Fitting(applied, responses)'
  BY <1>1, <1>2 DEF Fitting
<1>15. /\ round' = 1 /\ 1 \in 1..Len(all) /\ applied' = <<>> /\ responses' \in Seq({"xml", "text"})
  BY <1>1, <1>2, <1>4, <1>7
<1>16. (settings \in Settings)' /\ Posted(settings)' /\ Leading(settings, settings.dataTypes)'
  BY <1>8, <1>10, <1>11 DEF Settings, Posted, Leading, Wants
<1>17. settings'.dataTypes = all /\ phase' = "convert"
  BY <1>1, <1>8
<1> QED
  BY <1>12, <1>13, <1>14, <1>15, <1>16, <1>17 DEF WayInv, WayTypes, WayPhases

LEMMA Prefiltered ==
  ASSUME WayInv, T!Prefilter
  PROVE  WayInv'
<1>1. /\ phase = "prefilter" /\ phase' = "transport" /\ settings' = T!Inspect(settings)
      /\ UNCHANGED <<responses, data, round, current, applied>>
  BY DEF T!Prefilter
<1>2. /\ settings \in Settings /\ settings.dataTypes = settings.asked /\ (settings.body => settings.type = "POST")
      /\ settings.transport = "none" /\ applied = <<>> /\ round = 1
  BY <1>1 DEF WayInv, WayTypes, WayPhases
<1>3. /\ settings' \in Settings /\ Same(settings', settings) /\ Posted(settings')
      /\ Leading(settings', settings'.dataTypes)
  BY <1>1, <1>2, Inspected
<1>4. settings'.transport = "none" /\ settings'.dataTypes \in Seq(T!DataType) /\ settings'.dataTypes # <<>>
  BY <1>2, <1>3 DEF Same, Settings, Leading
<1>5. 1 \in 1..Len(settings'.dataTypes)
  BY <1>4
<1>6. (settings \in Settings)' /\ Posted(settings)' /\ Leading(settings, settings.dataTypes)'
  BY <1>3 DEF Settings, Posted, Leading, Wants
<1>7. /\ responses' \in Seq({"xml", "text"}) /\ {data', current'} \subseteq T!DataType \union {"none"}
      /\ applied' \in Seq(Conversion) /\ Fitting(applied, responses)'
  BY <1>1 DEF WayInv, WayTypes, WayPhases, Fitting, Comes
<1> QED
  BY <1>1, <1>2, <1>4, <1>5, <1>6, <1>7 DEF WayInv, WayTypes, WayPhases

LEMMA Posting ==
  ASSUME WayInv, T!Transport
  PROVE  WayInv'
<1>1. /\ phase = "transport" /\ UNCHANGED <<responses, data, round, current, applied>>
      /\ \/ /\ settings.dataTypes[1] = "script" /\ settings' = [settings EXCEPT !.transport = "script"] /\ phase' = "send"
         \/ settings' = [settings EXCEPT !.transport = "xhr"] /\ phase' = "send"
         \/ settings' = settings /\ phase' = "failed"
  BY DEF T!Transport
<1>2. /\ settings \in Settings /\ Posted(settings) /\ Leading(settings, settings.dataTypes)
      /\ settings.transport = "none" /\ applied = <<>> /\ round = 1 /\ round \in 1..Len(settings.dataTypes)
  BY <1>1 DEF WayInv, WayTypes, WayPhases
<1>3. /\ settings' \in Settings /\ settings'.dataTypes = settings.dataTypes /\ settings'.asked = settings.asked
      /\ settings'.ct = settings.ct /\ settings'.body = settings.body /\ settings'.type = settings.type
      /\ settings'.cross = settings.cross
  BY <1>1, <1>2 DEF Settings
<1>4. /\ phase' = "send" /\ settings'.transport = "script" => settings'.dataTypes[1] = "script"
      /\ phase' = "failed" => settings'.transport = "none"
      /\ phase' \in {"send", "failed"}
  BY <1>1, <1>2 DEF Settings
<1>5. Wants(settings') = Wants(settings)
  BY <1>3 DEF Wants
<1>6. Posted(settings') /\ Leading(settings', settings'.dataTypes)
  BY <1>2, <1>3, <1>5 DEF Posted, Leading
<1>7. (settings \in Settings)' /\ Posted(settings)' /\ Leading(settings, settings.dataTypes)'
  BY <1>3, <1>6 DEF Settings, Posted, Leading, Wants
<1>8. /\ responses' \in Seq({"xml", "text"}) /\ {data', current'} \subseteq T!DataType \union {"none"}
      /\ applied' \in Seq(Conversion) /\ Fitting(applied, responses)'
  BY <1>1 DEF WayInv, WayTypes, WayPhases, Fitting, Comes
<1>9. applied' = <<>> /\ round' = 1 /\ round' \in 1..Len(settings'.dataTypes)
  BY <1>1, <1>2, <1>3
<1>21. WayTypes'
  BY <1>4, <1>7, <1>8, <1>9 DEF WayTypes
<1>22. WayPhases'
  BY <1>4, <1>7, <1>8, <1>9 DEF WayPhases
<1> QED
  BY <1>4, <1>7, <1>8, <1>9, <1>21, <1>22 DEF WayInv

LEMMA Answered ==
  ASSUME WayInv, T!Answer
  PROVE  WayInv'
<1> DEFINE o == settings
<1>1. /\ phase = "send" /\ UNCHANGED <<settings, round, applied>> /\ current' = o.dataTypes[1]
      /\ o.transport = "script" => responses' = <<>> /\ phase' = "convert" /\ data' = o.dataTypes[1]
      /\ o.transport # "script" => /\ phase' = "handle" /\ data' = "none"
                                   /\ \/ o.ct = "xml" /\ responses' = <<"xml", "text">>
                                      \/ responses' = <<"text">>
  <2>1. phase = "send" /\ UNCHANGED <<settings, round, applied>> /\ current' = o.dataTypes[1]
    BY DEF T!Answer
  <2>2. responses' = (IF o.transport = "script" THEN <<>> ELSE IF o.ct = "xml" THEN <<"xml", "text">> ELSE <<"text">>)
    BY DEF T!Answer
  <2>3. /\ phase' = (IF o.transport = "script" THEN "convert" ELSE "handle")
        /\ data' = (IF o.transport = "script" THEN o.dataTypes[1] ELSE "none")
    BY DEF T!Answer
  <2>4. o.transport = "script" => responses' = <<>>
    BY <2>2, Zenon
  <2>5. o.transport # "script" /\ o.ct = "xml" => responses' = <<"xml", "text">>
    BY <2>2, Zenon
  <2>6. o.transport # "script" /\ o.ct # "xml" => responses' = <<"text">>
    BY <2>2, Zenon
  <2> QED
    BY <2>1, <2>3, <2>4, <2>5, <2>6
<1>2. /\ o \in Settings /\ Posted(o) /\ Leading(o, o.dataTypes) /\ applied = <<>> /\ round = 1
      /\ round \in 1..Len(o.dataTypes) /\ (o.transport = "script" => o.dataTypes[1] = "script")
  BY <1>1 DEF WayInv, WayTypes, WayPhases
<1>3. responses' \in Seq({"xml", "text"})
  <2>1. <<>> \in Seq({"xml", "text"}) /\ <<"text">> \in Seq({"xml", "text"}) /\ <<"xml", "text">> \in Seq({"xml", "text"})
    OBVIOUS
  <2> QED
    BY <1>1, <2>1
<1>4. o.dataTypes[1] \in T!DataType
  BY <1>2 DEF Settings
<1>5. {data', current'} \subseteq T!DataType \union {"none"}
  BY <1>1, <1>4
<1>6. (settings \in Settings)' /\ Posted(settings)' /\ Leading(settings, settings.dataTypes)'
  BY <1>1, <1>2 DEF Settings, Posted, Leading, Wants
<1>7. /\ applied' = <<>> /\ round' = 1 /\ round' \in 1..Len(settings'.dataTypes)
      /\ applied' \in Seq(Conversion) /\ Fitting(applied, responses)'
  BY <1>1, <1>2 DEF Fitting
<1>8. CASE o.transport = "script"
  <2>1. /\ phase' = "convert" /\ settings'.dataTypes[1] = "script" /\ data' = "script" /\ current' = "script"
        /\ responses' = <<>> /\ applied' = <<>> /\ round' = 1
    BY <1>1, <1>2, <1>8
  <2>2. Comes(applied, responses, current)'
    BY <2>1 DEF Comes
  <2> QED
    BY <1>3, <1>5, <1>6, <1>7, <2>1, <2>2 DEF WayInv, WayTypes, WayPhases
<1>9. CASE o.transport # "script"
  <2>1. /\ phase' = "handle" /\ settings' = settings
        /\ (responses = <<"text">> \/ (responses = <<"xml", "text">> /\ settings.ct = "xml"))'
    BY <1>1, <1>9
  <2> QED
    BY <1>3, <1>5, <1>6, <1>7, <2>1 DEF WayInv, WayTypes, WayPhases
<1> QED
  BY <1>8, <1>9

\* One more converter that takes what there is.
LEMMA Fitted ==
  ASSUME NEW a \in Seq(Conversion), NEW answers, Fitting(a, answers),
         NEW c \in Conversion, c[1] = "*" \/ Comes(a, answers, c[1]),
         NEW b, b = a \o <<c>>
  PROVE  b \in Seq(Conversion) /\ b # <<>> /\ Fitting(b, answers) /\ Comes(b, answers, c[2])
<1>1. <<c>> \in Seq(Conversion) /\ Len(<<c>>) = 1 /\ <<c>>[1] = c /\ Len(a) \in Nat
      /\ (a = <<>> <=> Len(a) = 0)
  OBVIOUS
<1>2. /\ b \in Seq(Conversion) /\ Len(b) = Len(a) + 1
      /\ \A k \in 1..Len(a) : b[k] = a[k]
      /\ b[Len(a) + 1] = c
  <2>1. /\ b \in Seq(Conversion) /\ Len(b) = Len(a) + Len(<<c>>)
        /\ \A k \in 1..Len(a) : b[k] = a[k]
        /\ \A k \in 1..Len(<<c>>) : b[Len(a) + k] = <<c>>[k]
    BY <1>1, JoinIs
  <2> QED
    BY <1>1, <2>1
<1>3. b # <<>>
  BY <1>1, <1>2
<1>4. Fitting(b, answers)
  <2> SUFFICES ASSUME NEW k \in 1..Len(b)
               PROVE  b[k][1] = "*" \/ (k > 1 /\ b[k][1] = b[k - 1][2]) \/ (k = 1 /\ Comes(<<>>, answers, b[k][1]))
    BY DEF Fitting
  <2>1. CASE k <= Len(a)
    <3>1. k \in 1..Len(a) /\ b[k] = a[k]
      BY <1>1, <1>2, <2>1
    <3>2. k > 1 => b[k - 1] = a[k - 1]
      BY <1>1, <1>2, <2>1
    <3> QED
      BY <3>1, <3>2 DEF Fitting
  <2>2. CASE k > Len(a)
    <3>1. k = Len(a) + 1 /\ b[k] = c
      BY <1>1, <1>2, <2>2
    <3>2. CASE a = <<>>
      BY <1>1, <3>1, <3>2
    <3>3. CASE a # <<>>
      <4>1. k > 1 /\ k - 1 = Len(a) /\ Len(a) \in 1..Len(a)
        BY <1>1, <3>1, <3>3
      <4>2. b[k - 1] = a[Len(a)]
        BY <1>2, <4>1
      <4>3. Comes(a, answers, c[1]) => a[Len(a)][2] = c[1]
        BY <3>3 DEF Comes
      <4> QED
        BY <3>1, <4>1, <4>2, <4>3
    <3> QED
      BY <3>2, <3>3
  <2> QED
    BY <1>1, <2>1, <2>2
<1>5. Comes(b, answers, c[2])
  BY <1>1, <1>2, <1>3 DEF Comes
<1> QED
  BY <1>2, <1>3, <1>4, <1>5

LEMMA TwoMore ==
  ASSUME NEW S, NEW a \in Seq(S), NEW c \in S, NEW e \in S
  PROVE  a \o <<c, e>> = (a \o <<c>>) \o <<e>>
<1> DEFINE p == <<c, e>>
           m == a \o <<c>>
           u == a \o p
           v == m \o <<e>>
<1>1. p \in Seq(S) /\ Len(p) = 2 /\ p[1] = c /\ p[2] = e
      /\ <<c>> \in Seq(S) /\ Len(<<c>>) = 1 /\ <<c>>[1] = c
      /\ <<e>> \in Seq(S) /\ Len(<<e>>) = 1 /\ <<e>>[1] = e /\ Len(a) \in Nat
  OBVIOUS
<1>2. u \in Seq(S) /\ Len(u) = Len(a) + 2 /\ (\A k \in 1..Len(a) : u[k] = a[k]) /\ u[Len(a) + 1] = c /\ u[Len(a) + 2] = e
  <2>1. /\ u \in Seq(S) /\ Len(u) = Len(a) + Len(p)
        /\ \A k \in 1..Len(a) : u[k] = a[k]
        /\ \A k \in 1..Len(p) : u[Len(a) + k] = p[k]
    BY <1>1, JoinIs
  <2> HIDE DEF u, p
  <2> QED
    BY <1>1, <2>1
<1>3. m \in Seq(S) /\ Len(m) = Len(a) + 1 /\ (\A k \in 1..Len(a) : m[k] = a[k]) /\ m[Len(a) + 1] = c
  <2>1. /\ m \in Seq(S) /\ Len(m) = Len(a) + Len(<<c>>)
        /\ \A k \in 1..Len(a) : m[k] = a[k]
        /\ \A k \in 1..Len(<<c>>) : m[Len(a) + k] = <<c>>[k]
    BY <1>1, JoinIs
  <2> HIDE DEF m
  <2> QED
    BY <1>1, <2>1
<1> HIDE DEF m
<1>4. v \in Seq(S) /\ Len(v) = Len(m) + 1 /\ (\A k \in 1..Len(m) : v[k] = m[k]) /\ v[Len(m) + 1] = e
  <2>1. /\ v \in Seq(S) /\ Len(v) = Len(m) + Len(<<e>>)
        /\ \A k \in 1..Len(m) : v[k] = m[k]
        /\ \A k \in 1..Len(<<e>>) : v[Len(m) + k] = <<e>>[k]
    BY <1>1, <1>3, JoinIs
  <2> HIDE DEF v
  <2> QED
    BY <1>1, <2>1
<1> HIDE DEF u, v, p
<1>5. \A k \in 1..Len(u) : u[k] = v[k]
  <2> SUFFICES ASSUME NEW k \in 1..Len(u)  PROVE u[k] = v[k]
    OBVIOUS
  <2>1. k \in 1..Len(a) \/ k = Len(a) + 1 \/ k = Len(a) + 2
    BY <1>1, <1>2
  <2>2. CASE k \in 1..Len(a)
    <3>1. k \in 1..Len(m)
      BY <1>1, <1>3, <2>2
    <3>2. u[k] = a[k] /\ m[k] = a[k] /\ v[k] = m[k]
      BY <1>2, <1>3, <1>4, <2>2, <3>1
    <3> QED
      BY <3>2
  <2>3. CASE k = Len(a) + 1
    <3>1. k \in 1..Len(m)
      BY <1>1, <1>3, <2>3
    <3>2. u[k] = c /\ m[k] = c /\ v[k] = m[k]
      BY <1>2, <1>3, <1>4, <2>3, <3>1
    <3> QED
      BY <3>2
  <2>4. CASE k = Len(a) + 2
    <3>1. k = Len(m) + 1
      BY <1>1, <1>3, <2>4
    <3> QED
      BY <1>2, <1>4, <2>4, <3>1
  <2> QED
    BY <2>1, <2>2, <2>3, <2>4
<1>6. u = v
  BY <1>1, <1>2, <1>3, <1>4, <1>5
<1> QED
  BY <1>6 DEF u, v, m, p

\* The converters of a step, one after the other.
LEMMA StepFits ==
  ASSUME applied \in Seq(Conversion), Fitting(applied, responses), Comes(applied, responses, current),
         current \in T!Convertible, NEW next \in T!Convertible, current # next,
         NEW b, b = applied \o T!Steps(current, next)
  PROVE  /\ T!Steps(current, next) # <<>> /\ T!Last(T!Steps(current, next))[2] = next
         /\ b \in Seq(Conversion) /\ Fitting(b, responses) /\ Comes(b, responses, next)
<1>1. "*" \in T!DataType /\ "text" \in T!DataType /\ current \in T!DataType /\ next \in T!DataType
  BY DEF T!DataType, T!Convertible
<1>2. CASE T!Steps(current, next) \in {<< <<current, next>> >>, << <<"*", next>> >>}
  <2>1. PICK c \in {<<current, next>>, <<"*", next>>} : T!Steps(current, next) = <<c>>
    BY <1>2
  <2>2. c \in Conversion /\ c[1] \in {"*", current} /\ c[2] = next
    BY <1>1, <2>1 DEF Conversion
  <2>3. b = applied \o <<c>> /\ T!Steps(current, next) # <<>> /\ T!Last(T!Steps(current, next)) = c
    BY <2>1 DEF T!Last
  <2> HIDE DEF T!Steps
  <2>4. b \in Seq(Conversion) /\ Fitting(b, responses) /\ Comes(b, responses, c[2])
    BY <2>2, <2>3, Fitted
  <2> QED
    BY <2>2, <2>3, <2>4
<1>3. CASE T!Steps(current, next) = << <<"*", "text">>, <<"text", next>> >>
  <2> DEFINE c == <<"*", "text">>
             e == <<"text", next>>
             m == applied \o <<c>>
  <2>1. c \in Conversion /\ c[1] = "*" /\ c[2] = "text"
        /\ e \in Conversion /\ e[1] = "text" /\ e[2] = next
    BY <1>1 DEF Conversion
  <2>2. T!Steps(current, next) = <<c, e>>
    BY <1>3
  <2> HIDE DEF c, e
  <2>3. T!Steps(current, next) # <<>> /\ T!Last(T!Steps(current, next)) = e
    BY <2>2 DEF T!Last
  <2>4. m \in Seq(Conversion) /\ Fitting(m, responses) /\ Comes(m, responses, c[2])
    BY <2>1, Fitted
  <2>5. b = m \o <<e>>
    <3>1. applied \o <<c, e>> = (applied \o <<c>>) \o <<e>>
      BY <2>1, TwoMore
    <3> QED
      BY <2>2, <3>1
  <2> HIDE DEF m
  <2>6. b \in Seq(Conversion) /\ Fitting(b, responses) /\ Comes(b, responses, e[2])
    BY <2>1, <2>4, <2>5, Fitted
  <2> QED
    BY <2>1, <2>3, <2>6
<1> QED
  BY <1>2, <1>3, StepsAre

LEMMA OneRound ==
  ASSUME WayInv, T!Convert
  PROVE  WayInv'
<1> DEFINE d == settings.dataTypes
           next == d[round + 1]
<1>1. /\ phase = "convert" /\ round < Len(d) /\ round' = round + 1 /\ UNCHANGED <<settings, responses>>
      /\ \/ /\ next = "*" \/ current \in {"*", next}
            /\ current' = (IF next = "*" THEN current ELSE next) /\ UNCHANGED <<phase, data, applied>>
         \/ /\ next # "*" /\ current \notin {"*", next}
            /\ current' = next
            /\ IF T!Steps(current, next) = <<>> THEN phase' = "failed" /\ UNCHANGED <<data, applied>> ELSE
               /\ applied' = applied \o T!Steps(current, next)
               /\ data' = T!Last(T!Steps(current, next))[2]
               /\ phase' = phase
  BY DEF T!Convert
<1>2. /\ settings \in Settings /\ Posted(settings) /\ Leading(settings, d) /\ round \in 1..Len(d)
      /\ responses \in Seq({"xml", "text"}) /\ applied \in Seq(Conversion) /\ Fitting(applied, responses)
      /\ d[1] # "*" /\ data = current /\ current = d[round] /\ Comes(applied, responses, current)
  BY <1>1 DEF WayInv, WayTypes, WayPhases
<1>3. d \in Seq(T!DataType) /\ Len(d) \in Nat /\ d[1] # "jsonp" /\ \A k \in 2..Len(d) : d[k] \in T!Convertible
  BY <1>2 DEF Settings, Leading
<1>4. round + 1 \in 2..Len(d) /\ next \in T!Convertible
  BY <1>1, <1>2, <1>3
<1>5. current \in T!Convertible
  BY <1>2, <1>3 DEF T!DataType, T!Convertible
<1>6. next # "*" /\ current # "*" /\ next \in T!DataType
  BY <1>4, <1>5 DEF T!DataType, T!Convertible
<1>7. phase' = "convert" /\ data' = next /\ current' = next /\ applied' \in Seq(Conversion)
      /\ Fitting(applied', responses') /\ Comes(applied', responses', current')
  <2>1. CASE current = next
    <3>1. phase' = phase /\ data' = data /\ applied' = applied /\ current' = next
      BY <1>1, <1>6, <2>1
    <3> QED
      BY <1>1, <1>2, <2>1, <3>1
  <2>2. CASE current # next
    <3>1. /\ T!Steps(current, next) # <<>> /\ T!Last(T!Steps(current, next))[2] = next
          /\ applied \o T!Steps(current, next) \in Seq(Conversion)
          /\ Fitting(applied \o T!Steps(current, next), responses)
          /\ Comes(applied \o T!Steps(current, next), responses, next)
      <4> DEFINE b == applied \o T!Steps(current, next)
      <4>1. b = applied \o T!Steps(current, next)
        OBVIOUS
      <4> HIDE DEF b, next, d
      <4>3. Fitting(applied, responses) /\ Comes(applied, responses, current)
            /\ applied \in Seq(Conversion)
        BY <1>2
      <4>2. /\ T!Steps(current, next) # <<>> /\ T!Last(T!Steps(current, next))[2] = next
            /\ b \in Seq(Conversion) /\ Fitting(b, responses) /\ Comes(b, responses, next)
        <5>1. current \in T!Convertible /\ next \in T!Convertible /\ current # next
          BY <1>4, <1>5, <2>2
        <5> HIDE DEF T!Convertible
        <5> QED
          BY ONLY <4>1, <4>3, <5>1, StepFits
      <4> QED
        BY <4>2 DEF b
    <3>2. phase' = phase /\ current' = next /\ data' = T!Last(T!Steps(current, next))[2]
          /\ applied' = applied \o T!Steps(current, next)
      BY <1>1, <1>6, <2>2, <3>1
    <3> QED
      BY <1>1, <3>1, <3>2
  <2> QED
    BY <2>1, <2>2
<1>8. (settings \in Settings)' /\ Posted(settings)' /\ Leading(settings, settings.dataTypes)'
  BY <1>1, <1>2 DEF Settings, Posted, Leading, Wants
<1>9. Fitting(applied, responses)' /\ Comes(applied, responses, current)'
  BY <1>7 DEF Fitting, Comes
<1>10. /\ settings'.dataTypes[1] # "*" /\ data' = current' /\ current' = settings'.dataTypes[round']
       /\ round' \in 1..Len(settings'.dataTypes) /\ {data', current'} \subseteq T!DataType \union {"none"}
       /\ responses' \in Seq({"xml", "text"})
  BY <1>1, <1>2, <1>3, <1>4, <1>6, <1>7
<1> QED
  <2> HIDE DEF next, d
  <2>21. WayTypes'
    BY <1>7, <1>8, <1>9, <1>10 DEF WayTypes
  <2>22. WayPhases'
    BY <1>7, <1>8, <1>9, <1>10 DEF WayPhases
  <2> QED
    BY <1>7, <1>8, <1>9, <1>10, <2>21, <2>22 DEF WayInv

LEMMA Ended ==
  ASSUME WayInv, T!Converted
  PROVE  WayInv'
<1>1. /\ phase = "convert" /\ round = Len(settings.dataTypes) /\ phase' = "done"
      /\ UNCHANGED <<settings, responses, data, round, current, applied>>
  BY DEF T!Converted
<1>2. (settings \in Settings)' /\ Posted(settings)' /\ Leading(settings, settings.dataTypes)'
  BY <1>1 DEF WayInv, WayTypes, WayPhases, Settings, Posted, Leading, Wants
<1>3. Fitting(applied, responses)' /\ Comes(applied, responses, current)'
  BY <1>1 DEF WayInv, WayTypes, WayPhases, Fitting, Comes
<1> QED
  BY <1>1, <1>2, <1>3 DEF WayInv, WayTypes, WayPhases

LEMMA WayStutters ==
  ASSUME WayInv, UNCHANGED T!vars
  PROVE  WayInv'
<1>1. UNCHANGED <<settings, phase, responses, data, round, current, applied>>
  BY DEF T!vars
<1>2. /\ (settings \in Settings)' = (settings \in Settings) /\ Posted(settings)' = Posted(settings)
      /\ Leading(settings, settings.dataTypes)' = Leading(settings, settings.dataTypes)
  BY <1>1 DEF Settings, Posted, Leading, Wants
<1>3. /\ Fitting(applied, responses)' = Fitting(applied, responses)
      /\ Comes(applied, responses, current)' = Comes(applied, responses, current)
  BY <1>1 DEF Fitting, Comes
<1> QED
  BY <1>1, <1>2, <1>3 DEF WayInv, WayTypes, WayPhases

LEMMA WayStarts ==
  ASSUME T!Init
  PROVE  WayInv
<1>1. PICK asked \in Asked, crossing \in BOOLEAN, marked \in BOOLEAN, body \in BOOLEAN, ct \in T!ContentType :
        settings = [asked |-> asked, dataTypes |-> asked, cross |-> crossing, marked |-> marked, body |-> body,
                    type |-> IF body THEN "POST" ELSE "GET", global |-> TRUE, ct |-> ct,
                    jsonp |-> FALSE, transport |-> "none"]
  BY DEF T!Init
<1>2. asked \in Seq(T!DataType) /\ asked # <<>>
  BY AskedAssumption DEF T!TypesAssumption
<1>3. phase = "prefilter" /\ responses = <<>> /\ data = "none" /\ round = 1 /\ current = "none" /\ applied = <<>>
  BY DEF T!Init
<1>4. settings \in Settings
  BY <1>1, <1>2 DEF Settings
<1>5. /\ settings.dataTypes = asked /\ settings.asked = asked /\ (settings.body => settings.type = "POST")
      /\ settings.transport = "none"
  BY <1>1
<1>6. Posted(settings)
  BY <1>4, <1>5 DEF Posted, Settings
<1>7. Fitting(applied, responses) /\ 1 \in 1..Len(settings.dataTypes)
  BY <1>2, <1>3, <1>5 DEF Fitting
<1> QED
  BY <1>3, <1>4, <1>5, <1>6, <1>7 DEF WayInv, WayTypes, WayPhases

LEMMA WayHolds == T!Spec => []WayInv
<1>1. WayInv /\ [T!Next]_(T!vars) => WayInv'
  BY Prefiltered, Posting, Answered, Handled, OneRound, Ended, WayStutters DEF T!Next
<1> QED
  BY <1>1, WayStarts, PTL DEF T!Spec

\* What RightValue says follows from it.
LEMMA WayIsRight ==
  ASSUME WayInv
  PROVE  RightValue
<1> DEFINE d == settings.dataTypes
           n == Len(settings.asked)
<1>1. /\ settings \in Settings /\ applied \in Seq(Conversion) /\ responses \in Seq({"xml", "text"})
      /\ Posted(settings) /\ Fitting(applied, responses)
  BY DEF WayInv, WayTypes, WayPhases
<1>2. T!RightType
  <2> SUFFICES ASSUME phase = "done"  PROVE data = T!Wanted
    BY DEF T!RightType
  <2>1. /\ Leading(settings, d) /\ d[1] # "*" /\ data = d[round] /\ round = Len(d) /\ round \in 1..Len(d)
    BY DEF WayInv, WayTypes, WayPhases
  <2>2. d[Len(d)] # "*"
    BY <2>1 DEF Leading, T!Convertible
  <2>3. data = Wants(settings)
    BY <2>1, <2>2 DEF Leading
  <2>4. T!Wanted = Wants(settings)
    BY DEF T!Wanted, Wants, T!Last
  <2> QED
    BY <2>3, <2>4
<1>3. T!Fits
  <2>1. DOMAIN applied = 1..Len(applied)
    BY <1>1
  <2> DEFINE before(k) == IF k > 1 THEN applied[k - 1][2] ELSE
                            IF responses = <<>> THEN "script" ELSE "any response"
  <2> SUFFICES ASSUME NEW k \in 1..Len(applied)
               PROVE  \/ applied[k][1] \in {"*", before(k)}
                      \/ before(k) = "any response" /\ T!Contains(responses, applied[k][1])
    BY <2>1 DEF T!Fits
  <2>2. Len(applied) \in Nat /\ k \in Nat \ {0}
    BY <1>1
  <2>3. CASE k > 1
    <3>1. before(k) = applied[k - 1][2]
      BY <2>3, Zenon
    <3> HIDE DEF before
    <3>2. applied[k][1] = "*" \/ applied[k][1] = applied[k - 1][2]
      BY <1>1, <2>2, <2>3 DEF Fitting
    <3> QED
      BY <3>1, <3>2
  <2>4. CASE ~(k > 1)
    <3>1. k = 1
      BY <2>2, <2>4
    <3>2. applied[k][1] = "*" \/ Comes(<<>>, responses, applied[k][1])
      BY <1>1, <3>1 DEF Fitting
    <3>3. CASE responses = <<>>
      <4>1. before(k) = "script"
        BY <2>4, <3>3, Zenon
      <4> HIDE DEF before
      <4> QED
        BY <3>2, <3>3, <4>1 DEF Comes
    <3>4. CASE responses # <<>>
      <4>1. before(k) = "any response"
        BY <2>4, <3>4, Zenon
      <4> HIDE DEF before
      <4>2. applied[k][1] # "*" => T!Contains(responses, applied[k][1])
        BY <3>2, <3>4 DEF Comes, T!Contains
      <4> QED
        BY <4>1, <4>2
    <3> QED
      BY <3>3, <3>4
  <2> QED
    BY <2>3, <2>4
<1>4. T!NeverStuck
  BY DEF WayInv, WayTypes, WayPhases, T!NeverStuck
<1>5. T!PostKept
  BY <1>1 DEF Posted, T!PostKept, T!Contains
<1> QED
  BY <1>2, <1>3, <1>4, <1>5 DEF RightValue

LEMMA WayIsTyped ==
  ASSUME WayInv
  PROVE  T!TypeOK
BY DEF WayInv, WayTypes, WayPhases, T!TypeOK, Settings, Conversion

\* Whatever data types are asked for, on whichever way to them: success is given a value of the
\* last, every converter on the way gets what it is for, a request fails only because it may not
\* leave the domain, and no body is lost but with a script of another domain.
THEOREM ValueIsRight == T!Spec => []RightValue
BY WayHolds, WayIsRight, PTL

\* The variables of the requests, of the JSONP requests and of the way to a value keep to their
\* types, whatever user code does.
THEOREM RequestsAreTyped == Spec /\ T!Spec /\ J!Spec => []RequestTypes
<1>1. TypeOK /\ T!TypeOK /\ J!TypeOK => RequestTypes
  BY DEF RequestTypes
<1> QED
  BY <1>1, TypeCorrect, JsonpTypesHold, WayHolds, WayIsTyped, PTL
=============================================================================
