--------------------------- MODULE AjaxProperties ---------------------------
(***************************************************************************)
(* What jQuery.ajax owes its callers and the pages that count its requests.*)
(***************************************************************************)
EXTENDS AjaxRequest

\* The types of the variables.
TypeOK ==
  /\ opts \in [Request -> Options] /\ state \in [Request -> -1..2]
  /\ transport \in [Request -> BOOLEAN] /\ listening \in [Request -> BOOLEAN]
  /\ timer \in [Request -> BOOLEAN] /\ counted \in [Request -> BOOLEAN]
  /\ outcome \in [Request -> {"pending", "success", "error"}]
  /\ completed \in [Request -> BOOLEAN]
  /\ active \in Int /\ stack \in Seq(Frame)
  /\ sent \in [Request -> BOOLEAN] /\ aborted \in [Request -> BOOLEAN]
  /\ runs \in [Request -> Nat] /\ running \in BOOLEAN /\ rude \in BOOLEAN

\* A request that was aborted or timed out before it was done never succeeds,
\* although its answer may already be on the way (abort, 7032-7039).
AbortIsFinal == \A r \in Request : aborted[r] => outcome[r] = "error"

\* What was aborted before it was sent, in a prefilter or by beforeSend or while
\* either of them made other requests, never reaches the server (7203, 7274; abort
\* says "Cancel the request", 7031).  One that is aborted in its own ajaxStart does.
AbortedUnsent == [][\A r \in Request : aborted[r] /\ ~sent[r] /\ ~rude => ~sent'[r]]_vars

\* When nothing of a finished request runs, nothing of it is left: no timer, no
\* transport that would call back (7059-7065).  In its own ajaxStart or ajaxSend it is too
\* early to abort a request: it gets a transport all the same, as in Counter.
Quiet ==
  ~rude /\ stack = <<>> => \A r \in Request : state[r] = 2 => ~timer[r] /\ ~transport[r] /\ ~listening[r]

\* done runs once for a request ("Called once", 7047).  It runs again for one that was aborted
\* in its own ajaxSend and then fails to be sent.
CalledOnce == ~rude => \A r \in Request : runs[r] <= 1

\* Every request that is under way can still end: by its transport or its timer.
CanEnd ==
  stack = <<>> => \A r \in Request : state[r] = 1 => listening[r]

\* A request that was aborted or timed out never succeeds; nothing of one that is done is left
\* behind; one that is under way can still end, and does so once (abort and done, 7032-7161).
EndIsFinal == AbortIsFinal /\ Quiet /\ CanEnd /\ CalledOnce

\* jQuery.active counts the requests that are under way, so that ajaxStop means
\* that none is (7217, 7148).  This is lost for good when user code throws in between.
Telling(r) == \E i \in DOMAIN stack :
  stack[i].req = r /\ stack[i].at \in {"settle", "event", "complete", "eventComplete"}
Pending(r) == counted[r] /\ (state[r] # 2 \/ Telling(r))
Counter ==
  ~rude =>
  /\ active = Cardinality({r \in Request : Pending(r)})
  /\ running <=> active > 0

\* Every request that was sent is told its outcome and completed.
Ends ==
  \A r \in Request :
    state[r] = 1 /\ (opts[r].how = "xhr" \/ timer[r]) ~> completed[r] \/ rude

\* A request takes one of two courses: it is aborted in time and never sent, or it comes to its
\* end (7203-7320, 7032-7152).
TwoCourses == AbortedUnsent /\ Ends
=============================================================================
