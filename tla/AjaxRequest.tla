---------------------------- MODULE AjaxRequest ----------------------------
(***************************************************************************)
(* jQuery.ajax (elasticSearch/*/vendor.js): the life of requests, from the *)
(* call of ajax to the end of done, with the transports, the timeout, abort*)
(* and the counter behind ajaxStart and ajaxStop.                          *)
(*                                                                         *)
(* One thread runs it all, but at many points the functions call back into *)
(* user code, which may abort any request, start another, or throw.  The   *)
(* frames of ajax and done that are on the call stack are therefore part   *)
(* of the state, and every step goes from one such point to the next.      *)
(***************************************************************************)
EXTENDS Integers, Sequences, FiniteSets

CONSTANTS
  Request,     \* the requests
  Options,     \* the options they may be made with: a set of the records below
  MaxDepth     \* bound: the frames on the stack

OptionType == [how : {"xhr", "script", "none"}, async : BOOLEAN, timeout : BOOLEAN,
               global : BOOLEAN, before : BOOLEAN]

ASSUME OptionsAssumption == Options \subseteq OptionType
ASSUME DepthAssumption == MaxDepth \in Nat

VARIABLES
  opts,        \* per request, the options it is made with
  state,       \* per request, the variable state: 0, 1 or 2; -1 before ajax is called
  transport,   \* per request, whether transport is set
  listening,   \* per request, whether the transport still calls back
  timer,       \* per request, whether timeoutTimer runs
  counted,     \* per request, fireGlobals
  outcome,     \* per request, its deferred: "pending", "success" or "error"
  completed,   \* per request, whether completeDeferred has fired
  active,      \* jQuery.active
  stack,       \* the frames of ajax and done, and where each of them is
  \* what has happened, for the properties
  sent,        \* per request, whether it was handed to the browser
  aborted,     \* per request, whether it was aborted, or timed out, before it was done
  runs,        \* per request, how often done went past its first line
  running,     \* whether ajaxStart was triggered and ajaxStop was not yet
  rude         \* whether user code threw, or aborted a request in its own ajaxStart or ajaxSend

request == <<opts, state, transport, listening, timer, counted, outcome, completed>>
history == <<sent, aborted, runs, running, rude>>
vars == <<request, active, stack, history>>

\* Where user code runs: prefilters, handlers of ajaxStart, beforeSend, handlers of
\* ajaxSend; the callbacks of the deferred, handlers of ajaxSuccess or ajaxError,
\* complete, handlers of ajaxComplete and of ajaxStop.  In "sending" the frame is
\* inside the try of ajax.
Point == {"prefilter", "start", "beforeSend", "ajaxSend", "sending",
          "settle", "event", "complete", "eventComplete", "stop"}
Frame == [req : Request, at : Point, first : BOOLEAN]

Top == stack[Len(stack)]
Below == SubSeq(stack, 1, Len(stack) - 1)
At(p) == stack # <<>> /\ Top.at = p
Go(p) == stack' = [stack EXCEPT ![Len(stack)].at = p]

\* User code runs: at top level, or where the topmost frame calls it.  A deferred
\* that has fired before calls nothing.
InUserCode ==
  \/ stack = <<>>
  \/ /\ stack # <<>> /\ Top.at # "sending"
     /\ Top.at = "beforeSend" => opts[Top.req].before
     /\ Top.at = "ajaxSend" => counted[Top.req]
     /\ Top.at \in {"settle", "complete"} => Top.first

Init ==
  /\ opts \in [Request -> Options] /\ state = [r \in Request |-> -1]
  /\ transport = [r \in Request |-> FALSE] /\ listening = [r \in Request |-> FALSE]
  /\ timer = [r \in Request |-> FALSE] /\ counted = [r \in Request |-> FALSE]
  /\ outcome = [r \in Request |-> "pending"] /\ completed = [r \in Request |-> FALSE]
  /\ active = 0 /\ stack = <<>>
  /\ sent = [r \in Request |-> FALSE] /\ aborted = [r \in Request |-> FALSE]
  /\ runs = [r \in Request |-> 0] /\ running = FALSE /\ rude = FALSE

-----------------------------------------------------------------------------
\* Mutant: the deferred is settled anew.
FinishAnew(r, result, rest) ==
  /\ state' = [state EXCEPT ![r] = 2]
  /\ timer' = [timer EXCEPT ![r] = FALSE]
  /\ transport' = [transport EXCEPT ![r] = FALSE]
  /\ outcome' = [outcome EXCEPT ![r] = result]
  /\ runs' = [runs EXCEPT ![r] = @ + 1]
  /\ stack' = Append(rest, [req |-> r, at |-> "settle", first |-> TRUE])

\* done past its first line, up to the callbacks of the deferred, called with the
\* frames rest below it.
Finish(r, result, rest) ==
  /\ state' = [state EXCEPT ![r] = 2]
  /\ timer' = [timer EXCEPT ![r] = FALSE]
  /\ transport' = [transport EXCEPT ![r] = FALSE]
  /\ outcome' = [outcome EXCEPT ![r] = IF @ = "pending" THEN result ELSE @]
  /\ runs' = [runs EXCEPT ![r] = @ + 1]
  /\ stack' = Append(rest, [req |-> r, at |-> "settle", first |-> outcome[r] = "pending"])

\* Mutant: done leaves the timer alone.
DoneTicking(r, result, rest) ==
  \/ /\ state[r] = 2
     /\ stack' = rest /\ UNCHANGED <<state, timer, transport, outcome, runs>>
  \/ /\ state[r] # 2
     /\ state' = [state EXCEPT ![r] = 2]
     /\ transport' = [transport EXCEPT ![r] = FALSE]
     /\ outcome' = [outcome EXCEPT ![r] = result]
     /\ runs' = [runs EXCEPT ![r] = @ + 1]
     /\ stack' = Append(rest, [req |-> r, at |-> "settle", first |-> TRUE])
     /\ UNCHANGED timer

Done(r, result, rest) ==
  \/ /\ state[r] = 2
     /\ stack' = rest /\ UNCHANGED <<state, timer, transport, outcome, runs>>
  \/ /\ state[r] # 2
     /\ Finish(r, result, rest)

\* Mutants: only the transport is aborted; abort is an outcome of its own.
AbortTransport(r, rest) ==
  /\ listening' = [listening EXCEPT ![r] = @ /\ ~transport[r]]
  /\ aborted' = [aborted EXCEPT ![r] = @ \/ state[r] # 2]
  /\ stack' = rest /\ UNCHANGED <<state, timer, transport, outcome, runs>>

AbortNamed(r, rest) ==
  /\ listening' = [listening EXCEPT ![r] = @ /\ ~transport[r]]
  /\ aborted' = [aborted EXCEPT ![r] = @ \/ state[r] # 2]
  /\ Done(r, "abort", rest)

\* jqXHR.abort: the transport drops its callback.
AbortWith(r, rest) ==
  /\ listening' = [listening EXCEPT ![r] = @ /\ ~transport[r]]
  /\ aborted' = [aborted EXCEPT ![r] = @ \/ state[r] # 2]
  /\ Done(r, "error", rest)

-----------------------------------------------------------------------------
\* User code calls jQuery.ajax, which applies the prefilters.
Ajax(r) ==
  /\ InUserCode /\ state[r] = -1 /\ Len(stack) < MaxDepth
  /\ state' = [state EXCEPT ![r] = 0]
  /\ stack' = Append(stack, [req |-> r, at |-> "prefilter", first |-> TRUE])
  /\ UNCHANGED <<opts, transport, listening, timer, counted, outcome, completed, active, history>>

\* User code calls abort.
Abort(r) ==
  /\ InUserCode /\ state[r] # -1 /\ Len(stack) < MaxDepth
  /\ rude' = (rude \/ \E i \in DOMAIN stack : stack[i].req = r /\ stack[i].at \in {"start", "ajaxSend"})
  /\ AbortWith(r, stack)
  /\ UNCHANGED <<opts, counted, completed, active, sent, running>>

\* Mutant: a request that a prefilter aborted goes on.
BeginAnyway ==
  /\ At("prefilter")
  /\ LET r == Top.req IN
     /\ counted' = [counted EXCEPT ![r] = opts[r].global]
     /\ active' = active + (IF opts[r].global THEN 1 ELSE 0)
     /\ running' = (running \/ (opts[r].global /\ active = 0))
     /\ Go(IF opts[r].global /\ active = 0 THEN "start" ELSE "beforeSend")
     /\ UNCHANGED <<opts, state, transport, listening, timer, outcome, completed, sent, aborted, runs, rude>>

\* The prefilters return.
Begin ==
  /\ At("prefilter")
  /\ LET r == Top.req IN
     \/ /\ state[r] = 2
        /\ stack' = Below
        /\ UNCHANGED <<request, active, history>>
     \/ /\ state[r] # 2
        /\ counted' = [counted EXCEPT ![r] = opts[r].global]
        /\ active' = active + (IF opts[r].global THEN 1 ELSE 0)
        /\ running' = (running \/ (opts[r].global /\ active = 0))
        /\ Go(IF opts[r].global /\ active = 0 THEN "start" ELSE "beforeSend")
        /\ UNCHANGED <<opts, state, transport, listening, timer, outcome, completed,
                       sent, aborted, runs, rude>>

Started ==
  /\ At("start")
  /\ Go("beforeSend")
  /\ UNCHANGED <<request, active, history>>

\* beforeSend returns false, or has aborted the request.
Veto ==
  /\ At("beforeSend") /\ opts[Top.req].before
  /\ AbortWith(Top.req, Below)
  /\ UNCHANGED <<opts, counted, completed, active, sent, running, rude>>

\* Without beforeSend, nobody looks at the state.
Passed == At("beforeSend") /\ (opts[Top.req].before => state[Top.req] # 2)

NoTransport ==
  /\ Passed /\ opts[Top.req].how = "none"
  /\ Done(Top.req, "error", Below)
  /\ UNCHANGED <<opts, listening, counted, completed, active, sent, aborted, running, rude>>

GetTransport ==
  /\ Passed /\ opts[Top.req].how # "none"
  /\ transport' = [transport EXCEPT ![Top.req] = TRUE]
  /\ Go("ajaxSend")
  /\ UNCHANGED <<opts, state, listening, timer, counted, outcome, completed, active, history>>

\* The handlers of ajaxSend return: the timeout is set, state becomes 1, whatever
\* it was, and the transport is told to send.
SendWith(r) == [timer EXCEPT ![r] = opts[r].async /\ opts[r].timeout]

\* The transport goes on by itself.
Send ==
  /\ At("ajaxSend") /\ transport[Top.req]
  /\ opts[Top.req].how = "xhr" => opts[Top.req].async
  /\ timer' = SendWith(Top.req)
  /\ state' = [state EXCEPT ![Top.req] = 1]
  /\ listening' = [listening EXCEPT ![Top.req] = TRUE]
  /\ sent' = [sent EXCEPT ![Top.req] = TRUE]
  /\ stack' = Below
  /\ UNCHANGED <<opts, transport, counted, outcome, completed, active, aborted, runs, running, rude>>

\* The answer is there when xhr.send returns: the request is synchronous, or cached.
SendAndAnswer ==
  /\ At("ajaxSend") /\ transport[Top.req] /\ opts[Top.req].how = "xhr"
  /\ sent' = [sent EXCEPT ![Top.req] = TRUE]
  /\ \E result \in {"success", "error"} :
       Finish(Top.req, result, [stack EXCEPT ![Len(stack)].at = "sending"])
  /\ UNCHANGED <<opts, listening, counted, completed, active, aborted, running, rude>>

\* send throws: xhr fails, or transport is undefined because the request was
\* aborted.  The catch clause looks at window.status, which is not 2.
SendFails ==
  /\ At("ajaxSend")
  /\ transport[Top.req] => opts[Top.req].how = "xhr"
  /\ Finish(Top.req, "error", Below)
  /\ UNCHANGED <<opts, listening, counted, completed, active, sent, aborted, running, rude>>

Sent ==
  /\ At("sending")
  /\ stack' = Below
  /\ UNCHANGED <<request, active, history>>

-----------------------------------------------------------------------------
\* The transport calls back.  A script element says only that it was loaded.
Answer(r) ==
  /\ stack = <<>> /\ listening[r]
  /\ listening' = [listening EXCEPT ![r] = FALSE]
  /\ \E result \in IF opts[r].how = "xhr" THEN {"success", "error"} ELSE {"success"} :
       Done(r, result, <<>>)
  /\ UNCHANGED <<opts, counted, completed, active, sent, aborted, running, rude>>

\* The timeout.
Expire(r) ==
  /\ stack = <<>> /\ timer[r]
  /\ AbortWith(r, <<>>)
  /\ UNCHANGED <<opts, counted, completed, active, sent, running, rude>>

\* done goes on after the callbacks of the deferred, and triggers ajaxSuccess or ajaxError.
Told ==
  /\ At("settle") /\ counted[Top.req]
  /\ Go("event")
  /\ UNCHANGED <<request, active, history>>

Complete ==
  /\ At("event") \/ (At("settle") /\ ~counted[Top.req])
  /\ completed' = [completed EXCEPT ![Top.req] = TRUE]
  /\ stack' = Append(Below, [req |-> Top.req, at |-> "complete", first |-> ~completed[Top.req]])
  /\ UNCHANGED <<opts, state, transport, listening, timer, counted, outcome, active, history>>

Completed ==
  /\ At("complete")
  /\ IF counted[Top.req] THEN Go("eventComplete") ELSE stack' = Below
  /\ UNCHANGED <<request, active, history>>

\* Mutants: ajaxStop is triggered for every request; the counter is looked at before
\* it is decremented.
UncountStop ==
  /\ At("eventComplete")
  /\ active' = active - 1
  /\ running' = FALSE /\ Go("stop")
  /\ UNCHANGED <<request, sent, aborted, runs, rude>>

UncountLate ==
  /\ At("eventComplete")
  /\ active' = active - 1
  /\ IF active = 0 THEN running' = FALSE /\ Go("stop") ELSE running' = running /\ stack' = Below
  /\ UNCHANGED <<request, sent, aborted, runs, rude>>

\* The last request that is counted triggers ajaxStop.
Uncount ==
  /\ At("eventComplete")
  /\ active' = active - 1
  /\ IF active' = 0 THEN running' = FALSE /\ Go("stop") ELSE running' = running /\ stack' = Below
  /\ UNCHANGED <<request, sent, aborted, runs, rude>>

Stopped ==
  /\ At("stop")
  /\ stack' = Below
  /\ UNCHANGED <<request, active, history>>

\* User code throws.  The exception ends the frames above the one that catches it:
\* user code further down, ajax where it calls the transport, which then drops it
\* because the request is done, or nobody.
Throw ==
  /\ InUserCode
  /\ \E k \in 0..Len(stack) - 1 :
       /\ \A i \in k + 1..Len(stack) - 1 : stack[i].at # "sending"
       /\ \/ (k > 0 => stack[k].at # "sending") /\ stack' = SubSeq(stack, 1, k)
          \/ k > 0 /\ stack[k].at = "sending" /\ stack' = SubSeq(stack, 1, k - 1)
  /\ rude' = TRUE
  /\ UNCHANGED <<request, active, sent, aborted, runs, running>>

User == (\E r \in Request : Ajax(r) \/ Abort(r)) \/ Throw
Engine == Begin \/ Started \/ Veto \/ NoTransport \/ GetTransport \/ Send \/ SendAndAnswer \/ SendFails
          \/ Sent \/ Told \/ Complete \/ Completed \/ Uncount \/ Stopped
Browser == \E r \in Request : Answer(r) \/ Expire(r)

Next == User \/ Engine \/ Browser

Spec == Init /\ [][Next]_vars

\* The functions come to their end, timers go off, and the browser ends every
\* XMLHttpRequest; a script that cannot be loaded is never heard of.
Fairness ==
  /\ WF_vars(Engine)
  /\ \A r \in Request :
       WF_vars(Expire(r)) /\ WF_vars(opts[r].how = "xhr" /\ Answer(r))

FairSpec == Spec /\ Fairness
=============================================================================
