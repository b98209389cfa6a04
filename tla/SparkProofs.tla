----------------------------- MODULE SparkProofs -----------------------------
(***************************************************************************)
(* Proofs about SparkControl for every cluster, host list and number of    *)
(* shells.  The properties are about what a script knows after wait; the   *)
(* inductive invariant follows the sessions that wait waits for.           *)
(***************************************************************************)
EXTENDS SparkProperties, TLAPS

\* What spark-daemon.sh does keeps the daemons, and those of old among them.
LEMMA DaemonTypes ==
  ASSUME TypeOK, NEW d \in Daemon, ~d.sig, Launch(d) \/ Signal(d)
  PROVE  daemons' \subseteq Daemon /\ old' \in [Shell -> SUBSET daemons']
<1>1. CASE Launch(d)
  BY <1>1 DEF Launch, TypeOK
<1>2. CASE Signal(d)
  <2>1. [d EXCEPT !.sig = TRUE] \in Daemon
    BY DEF Daemon
  <2> QED
    BY <1>2, <2>1 DEF Signal, TypeOK
<1> QED
  BY <1>1, <1>2

\* The daemons the scripts name are daemons.
LEMMA DaemonIsDaemon ==
  /\ \A m \in Machine, k \in Number, b \in BOOLEAN : Worker(m, k, b) \in Daemon
  /\ \A b \in BOOLEAN : Master(b) \in Daemon /\ History(b) \in Daemon
BY ControlAssumption DEF Worker, Master, History, Daemon, Number

\* The scripts of one phase.
SingleScript == {"start_master", "stop_master", "start_workers", "stop_workers",
                 "start_history", "stop_history"}

\* The scripts and what is left of them.
LEMMA PlanTypes ==
  \A x \in Scripts : Plan[x] \in Seq(FanOut \union Single) /\ Plan[x] # <<>>
<1> SUFFICES ASSUME NEW x \in Scripts
             PROVE  Plan[x] \in Seq(FanOut \union Single) /\ Plan[x] # <<>>
  OBVIOUS
<1>1. x \in {"start_all", "stop_all", "stop_wait"} \union SingleScript
  BY ControlAssumption DEF Plan, SingleScript
<1>2. CASE x = "start_all"
  BY <1>2 DEF Plan, FanOut, Single
<1>3. CASE x = "stop_all"
  BY <1>3 DEF Plan, FanOut, Single
<1>4. CASE x = "stop_wait"
  BY <1>4 DEF Plan, FanOut, Single
<1>5. CASE x \in SingleScript
  <2>1. PICK a \in FanOut \union Single : Plan[x] = <<a>>
    BY <1>5 DEF Plan, FanOut, Single, SingleScript
  <2> QED
    BY <2>1
<1> QED
  BY <1>1, <1>2, <1>3, <1>4, <1>5

\* A phase that is one call of spark-daemon.sh on this machine.
Here(s) == StartMaster(s) \/ StopMaster(s) \/ StartHistory(s) \/ StopHistory(s)

\* The end of a phase keeps the types of what it changes.
LEMMA ProceedTypes ==
  ASSUME TypeOK, NEW s \in Shell, Phase(s) # "idle", Proceed(s)
  PROVE  /\ script' \in [Shell -> Seq(FanOut \union Single)]
         /\ sent' \in [Shell -> 0..Len(HostList)]
<1>1. script[s] # <<>>
  BY DEF Phase
<1>2. Tail(script[s]) \in Seq(FanOut \union Single)
  BY <1>1 DEF TypeOK
<1>3. Len(HostList) \in Nat
  BY ControlAssumption
<1> QED
  BY <1>2, <1>3 DEF Proceed, TypeOK

\* The types hold whatever the scripts, ssh and the machines do: no loop of
\* start-worker.sh or stop-worker.sh leaves 1..SPARK_WORKER_INSTANCES, and
\* workers.sh sends at most one session per line of HOSTLIST.  Inductive as it is.
THEOREM TypeCorrect == Spec => []TypeOK
<1>1. Init => TypeOK
  <2> SUFFICES ASSUME Init PROVE TypeOK
    OBVIOUS
  <2>1. Len(HostList) \in Nat
    BY ControlAssumption
  <2>2. Master(FALSE) \in Daemon
    BY DaemonIsDaemon
  <2>3. daemons \subseteq Daemon /\ sessions \subseteq Session
    BY <2>2 DEF Init
  <2>4. /\ machine \in [Machine -> {"off", "on", "severed"}]
        /\ setting \in [Machine -> Number]
    BY DEF Init
  <2>5. /\ script \in [Shell -> Seq(FanOut \union Single)]
        /\ ran \in [Shell -> Scripts \union {"none"}]
        /\ running \in [Shell -> BOOLEAN]
    BY DEF Init
  <2>6. /\ sent \in [Shell -> 0..Len(HostList)]
        /\ old \in [Shell -> SUBSET daemons]
        /\ cut \in [Shell -> SUBSET (0..Len(HostList))]
    BY <2>1 DEF Init
  <2>7. runs \in 0..MaxRuns /\ faults \in 0..MaxFaults /\ edits \in 0..MaxEdits
    BY ControlAssumption DEF Init
  <2> QED
    BY <2>3, <2>4, <2>5, <2>6, <2>7 DEF TypeOK
<1>2. TypeOK /\ [Next]_vars => TypeOK'
  <2> SUFFICES ASSUME TypeOK, [Next]_vars PROVE TypeOK'
    OBVIOUS
  <2>0. /\ Len(HostList) \in Nat /\ MaxRuns \in Nat /\ MaxFaults \in Nat /\ MaxEdits \in Nat
        /\ \A l \in Line : HostList[l] \in Machine
    BY ControlAssumption DEF Line
  <2>1. ASSUME NEW s \in Shell, Here(s) PROVE TypeOK'
    <3>1. PICK d \in {Master(FALSE), History(FALSE)} :
            Phase(s) # "idle" /\ Proceed(s) /\ (Launch(d) \/ Signal(d))
      BY <2>1 DEF Here, StartMaster, StopMaster, StartHistory, StopHistory
    <3>2. d \in Daemon /\ ~d.sig
      <4>1. ~Master(FALSE).sig /\ ~History(FALSE).sig
        BY DEF Master, History
      <4> QED
        BY <3>1, <4>1, DaemonIsDaemon
    <3>3. daemons' \subseteq Daemon /\ old' \in [Shell -> SUBSET daemons']
      BY <3>1, <3>2, DaemonTypes
    <3> QED
      BY <3>1, <3>3, ProceedTypes DEF Proceed, TypeOK, counts
  <2>2. ASSUME NEW s \in Shell, Spawn(s) PROVE TypeOK'
    <3> DEFINE l == sent[s] + 1
               x == [by |-> s, line |-> l, at |-> HostList[l], op |-> Sends(Phase(s)), next |-> 1,
                     last |-> IF Sends(Phase(s)) = "ps" THEN 1 ELSE setting[HostList[l]]]
    <3>1. l \in Line /\ HostList[l] \in Machine /\ l \in 0..Len(HostList)
      BY <2>2, <2>0 DEF Spawn, TypeOK, Line
    <3>2. Sends(Phase(s)) \in {"start", "stop", "ps"}
      BY DEF Sends
    <3>3. 1 \in Number /\ setting[HostList[l]] \in Number
      BY <3>1, ControlAssumption DEF TypeOK, Number
    <3>4. x \in Session
      BY <3>1, <3>2, <3>3 DEF Session
    <3>5. sessions' = sessions \union {x} /\ sent' = [sent EXCEPT ![s] = l]
      BY <2>2 DEF Spawn
    <3>6. /\ cut' \in [Shell -> SUBSET (0..Len(HostList))]
          /\ running' \in [Shell -> BOOLEAN] /\ old' \in [Shell -> SUBSET daemons]
      <4> HIDE DEF l, x
      <4>1. /\ cut' = cut \/ cut' = [cut EXCEPT ![s] = {}]
            /\ running' = running \/ running' = [running EXCEPT ![s] = FALSE]
            /\ old' = old \/ old' = [old EXCEPT ![s] = daemons]
        <5>1. cut' = IF sent[s] + 1 = 1 THEN [cut EXCEPT ![s] = {}] ELSE cut
          BY <2>2 DEF Spawn
        <5>2. running' = IF sent[s] + 1 = 1 THEN [running EXCEPT ![s] = FALSE] ELSE running
          BY <2>2 DEF Spawn
        <5>3. old' = IF sent[s] + 1 = 1 /\ Sends(Phase(s)) = "ps" THEN [old EXCEPT ![s] = daemons] ELSE old
          BY <2>2 DEF Spawn
        <5> QED
          BY <5>1, <5>2, <5>3
      <4>2. cut' \in [Shell -> SUBSET (0..Len(HostList))]
        BY <4>1 DEF TypeOK
      <4>3. running' \in [Shell -> BOOLEAN]
        BY <4>1 DEF TypeOK
      <4>4. old' \in [Shell -> SUBSET daemons]
        BY <4>1 DEF TypeOK
      <4> QED
        BY <4>2, <4>3, <4>4
    <3> HIDE DEF l, x
    <3> QED
      BY <2>2, <3>1, <3>4, <3>5, <3>6 DEF Spawn, TypeOK, counts
  <2>3. ASSUME NEW s \in Shell, Wait(s) \/ Again(s) PROVE TypeOK'
    <3>1. CASE Again(s)
      <4>1. /\ sent' = [sent EXCEPT ![s] = 0]
            /\ UNCHANGED <<work, script, ran, running, cut, machine, setting, counts>>
        BY <3>1 DEF Again
      <4> QED
        BY <4>1, <2>0 DEF TypeOK, work, counts
    <3>2. CASE Wait(s)
      <4>1. Phase(s) # "idle" /\ Proceed(s)
        BY <3>2 DEF Wait, FanOut
      <4>2. /\ script' \in [Shell -> Seq(FanOut \union Single)]
            /\ sent' \in [Shell -> 0..Len(HostList)]
        BY <4>1, ProceedTypes
      <4>3. UNCHANGED <<daemons, old, sessions, ran, running, cut, machine, setting, runs, faults, edits>>
        BY <3>2, <4>1 DEF Wait, Proceed, counts
      <4> QED
        BY <4>2, <4>3 DEF TypeOK
    <3> QED
      BY <2>3, <3>1, <3>2
  <2>4. ASSUME NEW s \in Shell, NEW x \in Scripts, Run(s, x) PROVE TypeOK'
    <3>1. /\ script' = [script EXCEPT ![s] = Plan[x]] /\ ran' = [ran EXCEPT ![s] = x]
          /\ sent' = [sent EXCEPT ![s] = 0] /\ running' = [running EXCEPT ![s] = FALSE]
          /\ UNCHANGED <<daemons, sessions, machine, setting, faults, edits>>
      BY <2>4 DEF Run
    <3>2. cut' = [cut EXCEPT ![s] = {}] /\ old' = [old EXCEPT ![s] = daemons]
      BY <2>4 DEF Run
    <3>3. Plan[x] \in Seq(FanOut \union Single)
      BY PlanTypes
    <3>4. script' \in [Shell -> Seq(FanOut \union Single)] /\ ran' \in [Shell -> Scripts \union {"none"}]
      BY <3>1, <3>3 DEF TypeOK
    <3>5. sent' \in [Shell -> 0..Len(HostList)] /\ running' \in [Shell -> BOOLEAN]
      BY <2>0, <3>1 DEF TypeOK
    <3>6. cut' \in [Shell -> SUBSET (0..Len(HostList))] /\ old' \in [Shell -> SUBSET daemons']
      BY <3>1, <3>2 DEF TypeOK
    <3>7. runs' \in 0..MaxRuns
      BY <2>0, <2>4 DEF Run, TypeOK
    <3> QED
      BY <3>1, <3>4, <3>5, <3>6, <3>7 DEF TypeOK
  <2>5. ASSUME NEW x \in sessions, Remote(x) PROVE TypeOK'
    <3>1. x \in Session
      BY DEF TypeOK
    <3>2. x.at \in Machine /\ x.next \in Number /\ x.last \in Number
          /\ x.by \in Shell \union Machine /\ x.line \in 0..Len(HostList) /\ x.op \in {"start", "stop", "ps"}
      BY <3>1 DEF Session
    <3>3. sessions' \subseteq Session
      <4>1. x.next < x.last => x.next + 1 \in Number
        BY <3>2, ControlAssumption DEF Number
      <4>2. x.next < x.last => [x EXCEPT !.next = @ + 1] \in Session
        BY <3>1, <4>1 DEF Session
      <4> QED
        BY <2>5, <4>2 DEF Remote, StartWorker, StopWorker, ListWorkers, Round, TypeOK
    <3>4. Worker(x.at, x.next, FALSE) \in Daemon /\ ~Worker(x.at, x.next, FALSE).sig
      BY <3>2, DaemonIsDaemon DEF Worker
    <3>5. CASE x.op \in {"start", "stop"}
      <4>1. /\ Launch(Worker(x.at, x.next, FALSE)) \/ Signal(Worker(x.at, x.next, FALSE))
            /\ UNCHANGED running
        BY <2>5, <3>5 DEF Remote, StartWorker, StopWorker, ListWorkers, Round
      <4>2. daemons' \subseteq Daemon /\ old' \in [Shell -> SUBSET daemons']
        BY <3>4, <4>1, DaemonTypes
      <4> QED
        BY <2>5, <3>3, <4>1, <4>2 DEF Remote, StartWorker, StopWorker, ListWorkers, Round, TypeOK, counts
    <3>6. CASE x.op = "ps"
      <4>1. UNCHANGED <<daemons, old>>
        BY <2>5, <3>6 DEF Remote, StartWorker, StopWorker, ListWorkers, Round
      <4>2. running' \in [Shell -> BOOLEAN]
        <5>1. PICK b \in BOOLEAN : running' = [running EXCEPT ![x.by] = running[x.by] \/ b]
          BY <2>5, <3>6 DEF Remote, StartWorker, StopWorker, ListWorkers, Round
        <5> QED
          BY <5>1 DEF TypeOK
      <4> QED
        BY <2>5, <3>3, <4>1, <4>2 DEF Remote, StartWorker, StopWorker, ListWorkers, Round, TypeOK, counts
    <3> QED
      BY <3>2, <3>5, <3>6
  <2>6. ASSUME NEW x \in sessions, Drop(x) PROVE TypeOK'
    <3>1. x.line \in 0..Len(HostList)
      BY DEF TypeOK, Session
    <3> QED
      BY <2>6, <3>1 DEF Drop, TypeOK, counts
  <2>7. ASSUME NEW d \in daemons, Exit(d) PROVE TypeOK'
    BY <2>7, <2>0 DEF Exit, TypeOK, shells
  <2>8. ASSUME NEW m \in Machine, Boot(m) PROVE TypeOK'
    <3> DEFINE x == [by |-> m, line |-> 0, at |-> m, op |-> "start", next |-> 1, last |-> setting[m]]
    <3>1. x \in Session
      BY <2>8, <2>0, ControlAssumption DEF Boot, Session, Number, TypeOK
    <3>2. sessions' = sessions \union {x}
      BY <2>8 DEF Boot
    <3> HIDE DEF x
    <3> QED
      BY <2>8, <3>1, <3>2 DEF Boot, TypeOK, shells, counts
  <2>9. ASSUME NEW m \in Machine, Off(m) PROVE TypeOK'
    <3>1. cut' \in [Shell -> SUBSET (0..Len(HostList))]
      BY <2>9 DEF Off, TypeOK, SessionsOf, Session
    <3>2. daemons' \subseteq Daemon /\ sessions' \subseteq Session
      BY <2>9 DEF Off, TypeOK
    <3>3. old' \in [Shell -> SUBSET daemons']
      BY <2>9 DEF Off, TypeOK
    <3>4. machine' \in [Machine -> {"off", "on", "severed"}]
      BY <2>9 DEF Off, TypeOK
    <3>5. faults' \in 0..MaxFaults
      BY <2>9, <2>0 DEF Off, TypeOK
    <3> QED
      <4>1. UNCHANGED <<script, ran, sent, running, setting, runs, edits>>
        BY <2>9 DEF Off
      <4> QED
        BY <4>1, <3>1, <3>2, <3>3, <3>4, <3>5 DEF TypeOK
  <2>10. ASSUME NEW m \in Machine, Sever(m) \/ Heal(m) PROVE TypeOK'
    <3>1. UNCHANGED <<work, shells, setting, runs, edits>>
      BY <2>10 DEF Sever, Heal, counts
    <3>2. machine' \in [Machine -> {"off", "on", "severed"}]
      BY <2>10 DEF Sever, Heal, TypeOK
    <3>3. faults' \in 0..MaxFaults
      BY <2>10, <2>0 DEF Sever, Heal, TypeOK, counts
    <3> QED
      BY <3>1, <3>2, <3>3 DEF TypeOK, work, shells
  <2>11. ASSUME NEW m \in Machine, NEW k \in Number, Edit(m, k) PROVE TypeOK'
    BY <2>11, <2>0 DEF Edit, TypeOK, work
  <2>12. ASSUME NEW m \in Machine, NEW op \in {"start", "stop"}, RunHere(m, op) PROVE TypeOK'
    <3> DEFINE x == [by |-> m, line |-> 0, at |-> m, op |-> op, next |-> 1, last |-> setting[m]]
    <3>1. x \in Session
      BY <2>0, ControlAssumption DEF Session, Number, TypeOK
    <3>2. sessions' = sessions \union {x} /\ runs' \in 0..MaxRuns
      BY <2>12, <2>0 DEF RunHere, TypeOK
    <3> HIDE DEF x
    <3> QED
      BY <2>12, <3>1, <3>2 DEF RunHere, TypeOK, shells
  <2>13. CASE UNCHANGED vars
    BY <2>13 DEF vars, work, shells, counts, TypeOK
  <2> QED
    BY <2>13, <2>1, <2>2, <2>3, <2>4, <2>5, <2>6, <2>7, <2>8, <2>9, <2>10, <2>11, <2>12 DEF Next, Local, Here
<1> QED
  BY <1>1, <1>2, PTL DEF Spec

-----------------------------------------------------------------------------
\* What is left of a script.
Rest(s, x, rs) == ran[s] = x /\ script[s] \in rs

ScriptInv ==
  \A s \in Shell :
    \/ script[s] = <<>>
    \/ Rest(s, "start_all", {<<"start-master", "start-workers">>, <<"start-workers">>})
    \/ Rest(s, "stop_all", {<<"stop-workers", "stop-master">>, <<"stop-master">>})
    \/ Rest(s, "stop_wait", {<<"stop-workers", "stop-master", "poll">>, <<"stop-master", "poll">>,
                             <<"poll">>})
    \/ ran[s] \in SingleScript /\ script[s] = Plan[ran[s]]

\* The sessions of a shell belong to the phase that its script is in.
SessionInv ==
  \A x \in sessions : x.by \in Shell =>
    /\ Phase(x.by) \in FanOut
    /\ x.op = Sends(Phase(x.by))
    /\ x.line \in 1..sent[x.by]
    /\ x.at = HostList[x.line]
    /\ x.next <= x.last
    /\ x.op = "stop" => x.last = setting[x.at]

\* A worker that the script must signal, and has not, is ahead of a session.
SweepInv(s) ==
  \A d \in old[s], l \in Line :
    (/\ d.class = "Worker" /\ ~d.sig
     /\ HostList[l] = d.at /\ l \notin cut[s] /\ d.num <= setting[d.at])
    => /\ Phase(s) = "stop-master" => ran[s] = "stop_master"
       /\ Phase(s) = "stop-workers" =>
            \/ sent[s] < l
            \/ \E x \in sessions : x.by = s /\ x.line = l /\ x.next <= d.num

\* A worker that the listing must show, and has not, is ahead of a session.
ListInv(s) ==
  \A d \in old[s], l \in Line :
    (d.class = "Worker" /\ HostList[l] = d.at /\ l \notin cut[s])
    => /\ ~Ended(s, "stop_wait")
       /\ Phase(s) = "poll" =>
            \/ sent[s] < l \/ running[s]
            \/ \E x \in sessions : x.by = s /\ x.line = l

FanOutInv == ScriptInv /\ SessionInv /\ \A s \in Shell : SweepInv(s) /\ ListInv(s)

\* Head and Tail of a script of one, two or three phases.
LEMMA HeadTail ==
  /\ \A a : Head(<<a>>) = a /\ Tail(<<a>>) = <<>>
  /\ \A a, b : Head(<<a, b>>) = a /\ Tail(<<a, b>>) = <<b>>
  /\ \A a, b, c : Head(<<a, b, c>>) = a /\ Tail(<<a, b, c>>) = <<b, c>>
OBVIOUS

\* What comes next in a script.
LEMMA ScriptSteps ==
  ASSUME TypeOK, ScriptInv, NEW s \in Shell, Phase(s) # "idle"
  PROVE  /\ Phase(s) = "start-master" =>
              \/ Tail(script[s]) = <<"start-workers">> /\ ran[s] = "start_all"
              \/ Tail(script[s]) = <<>> /\ ran[s] = "start_master"
         /\ Phase(s) = "start-workers" =>
              Tail(script[s]) = <<>> /\ ran[s] \in {"start_all", "start_workers"}
         /\ Phase(s) = "stop-workers" =>
              \/ Tail(script[s]) = <<"stop-master">> /\ ran[s] = "stop_all"
              \/ Tail(script[s]) = <<"stop-master", "poll">> /\ ran[s] = "stop_wait"
              \/ Tail(script[s]) = <<>> /\ ran[s] = "stop_workers"
         /\ Phase(s) = "stop-master" =>
              \/ Tail(script[s]) = <<>> /\ ran[s] \in {"stop_all", "stop_master"}
              \/ Tail(script[s]) = <<"poll">> /\ ran[s] = "stop_wait"
         /\ Phase(s) = "poll" => Tail(script[s]) = <<>> /\ ran[s] = "stop_wait"
         /\ Phase(s) \in {"start-history", "stop-history"} =>
              Tail(script[s]) = <<>> /\ ran[s] \in SingleScript
         /\ Phase(s) \in FanOut \union Single
<1>1. script[s] # <<>> /\ Phase(s) = Head(script[s])
  BY DEF Phase
<1>2. CASE script[s] = <<"start-master", "start-workers">> /\ ran[s] = "start_all"
  BY ONLY <1>1, <1>2, HeadTail DEF FanOut, Single
<1>3. CASE script[s] = <<"start-workers">> /\ ran[s] = "start_all"
  BY ONLY <1>1, <1>3, HeadTail DEF FanOut, Single
<1>4. CASE script[s] = <<"stop-workers", "stop-master">> /\ ran[s] = "stop_all"
  BY ONLY <1>1, <1>4, HeadTail DEF FanOut, Single
<1>5. CASE script[s] = <<"stop-workers", "stop-master", "poll">> /\ ran[s] = "stop_wait"
  BY ONLY <1>1, <1>5, HeadTail DEF FanOut, Single
<1>6. CASE script[s] = <<"stop-master">> /\ ran[s] = "stop_all"
  BY ONLY <1>1, <1>6, HeadTail DEF FanOut, Single
<1>7. CASE script[s] = <<"stop-master", "poll">> /\ ran[s] = "stop_wait"
  BY ONLY <1>1, <1>7, HeadTail DEF FanOut, Single
<1>8. CASE script[s] = <<"poll">> /\ ran[s] = "stop_wait"
  BY ONLY <1>1, <1>8, HeadTail DEF FanOut, Single
<1>9. CASE ran[s] \in SingleScript /\ script[s] = Plan[ran[s]]
  <2>1. CASE ran[s] = "start_master"
    <3>1. script[s] = <<"start-master">>
      BY ONLY <1>9, <2>1 DEF Plan
    <3> QED
      BY ONLY <1>1, <2>1, <3>1, HeadTail DEF FanOut, Single, SingleScript
  <2>2. CASE ran[s] = "stop_master"
    <3>1. script[s] = <<"stop-master">>
      BY ONLY <1>9, <2>2 DEF Plan
    <3> QED
      BY ONLY <1>1, <2>2, <3>1, HeadTail DEF FanOut, Single, SingleScript
  <2>3. CASE ran[s] = "start_workers"
    <3>1. script[s] = <<"start-workers">>
      BY ONLY <1>9, <2>3 DEF Plan
    <3> QED
      BY ONLY <1>1, <2>3, <3>1, HeadTail DEF FanOut, Single, SingleScript
  <2>4. CASE ran[s] = "stop_workers"
    <3>1. script[s] = <<"stop-workers">>
      BY ONLY <1>9, <2>4 DEF Plan
    <3> QED
      BY ONLY <1>1, <2>4, <3>1, HeadTail DEF FanOut, Single, SingleScript
  <2>5. CASE ran[s] = "start_history"
    <3>1. script[s] = <<"start-history">>
      BY ONLY <1>9, <2>5 DEF Plan
    <3> QED
      BY ONLY <1>1, <2>5, <3>1, HeadTail DEF FanOut, Single, SingleScript
  <2>6. CASE ran[s] = "stop_history"
    <3>1. script[s] = <<"stop-history">>
      BY ONLY <1>9, <2>6 DEF Plan
    <3> QED
      BY ONLY <1>1, <2>6, <3>1, HeadTail DEF FanOut, Single, SingleScript
  <2> QED
    BY <1>9, <2>1, <2>2, <2>3, <2>4, <2>5, <2>6 DEF SingleScript
<1> QED
  BY <1>1, <1>2, <1>3, <1>4, <1>5, <1>6, <1>7, <1>8, <1>9 DEF ScriptInv, Rest

\* Only a script that is through is idle.
LEMMA ScriptHeads ==
  ASSUME ScriptInv, NEW s \in Shell, Phase(s) = "idle"
  PROVE  script[s] = <<>>
<1> SUFFICES ASSUME script[s] # <<>> PROVE FALSE
  OBVIOUS
<1>1. Head(script[s]) = "idle"
  BY DEF Phase
<1>2. script[s] \in {<<"start-master", "start-workers">>, <<"start-workers">>,
                     <<"stop-workers", "stop-master">>, <<"stop-master">>, <<"poll">>,
                     <<"stop-workers", "stop-master", "poll">>, <<"stop-master", "poll">>,
                     <<"stop-workers">>, <<"start-master">>, <<"start-history">>, <<"stop-history">>}
  BY DEF ScriptInv, Rest, SingleScript, Plan
<1> QED
  BY ONLY <1>1, <1>2, HeadTail

\* What a step of others leaves of the sessions and the ghosts of s.
Frame(s) ==
  /\ script'[s] = script[s] /\ ran'[s] = ran[s] /\ sent'[s] = sent[s] /\ running'[s] = running[s]
  /\ cut[s] \subseteq cut'[s]
  /\ \A d \in old'[s] : \/ d \in old[s]
                        \/ d.sig /\ \E c \in old[s] : c.class = d.class /\ c.at = d.at
  /\ \A x \in sessions : x.by = s => x \in sessions' \/ x.line \in cut'[s]
  /\ setting' = setting

\* Such a step keeps what is known of the script of one shell.
LEMMA FrameKeeps ==
  ASSUME NEW s \in Shell, SweepInv(s), ListInv(s), Frame(s)
  PROVE  SweepInv(s)' /\ ListInv(s)'
<1>1. Phase(s)' = Phase(s) /\ Ended(s, "stop_wait")' = Ended(s, "stop_wait")
  BY DEF Frame, Phase, Ended
<1>2. SweepInv(s)'
  BY <1>1 DEF Frame, SweepInv
<1>3. ListInv(s)'
  BY <1>1 DEF Frame, ListInv
<1> QED
  BY <1>2, <1>3

\* A step that changes nothing of the scripts, and ends no session without cut.
LEMMA FramesKeep ==
  ASSUME FanOutInv, \A s \in Shell : Frame(s),
         \A x \in sessions' : x \in sessions \/ x.by \notin Shell
  PROVE  FanOutInv'
<1>1. \A s \in Shell : SweepInv(s)' /\ ListInv(s)'
  BY FrameKeeps DEF FanOutInv
<1>2. \A s \in Shell : Phase(s)' = Phase(s)
  BY DEF Frame, Phase
<1>3. SessionInv'
  BY <1>2 DEF FanOutInv, SessionInv, Frame
<1>4. ScriptInv'
  BY DEF FanOutInv, ScriptInv, Frame, Rest
<1> QED
  BY <1>1, <1>3, <1>4 DEF FanOutInv

\* What spark-daemon.sh does to the daemons that a script found.
OldFrame(s) ==
  \A d \in old'[s] : \/ d \in old[s]
                     \/ d.sig /\ \E c \in old[s] : c.class = d.class /\ c.at = d.at

\* spark-daemon.sh, started or stopping, leaves such a frame.
LEMMA DaemonFrame ==
  ASSUME NEW d \in Daemon, Launch(d) \/ Signal(d), NEW s \in Shell
  PROVE  OldFrame(s)
<1>1. CASE Launch(d)
  BY <1>1 DEF Launch, OldFrame
<1>2. CASE Signal(d)
  <2>1. old'[s] = old[s] \/ (d \in old[s] /\ old'[s] \subseteq old[s] \union {[d EXCEPT !.sig = TRUE]})
    BY <1>2 DEF Signal
  <2>2. LET e == [d EXCEPT !.sig = TRUE] IN e.sig /\ e.class = d.class /\ e.at = d.at
    BY DEF Daemon
  <2> QED
    BY <2>1, <2>2 DEF OldFrame
<1> QED
  BY <1>1, <1>2

\* The end of a phase.
LEMMA ProceedKeeps ==
  ASSUME TypeOK, FanOutInv, NEW s \in Shell, Phase(s) # "idle", Proceed(s), SessionsOf(s) = {},
         Phase(s) \in FanOut => sent[s] = Len(HostList),
         Phase(s) = "poll" => ~running[s],
         \A t \in Shell : OldFrame(t)
  PROVE  FanOutInv'
<1>1. /\ script' = [script EXCEPT ![s] = Tail(@)] /\ sent' = [sent EXCEPT ![s] = 0]
      /\ UNCHANGED <<sessions, ran, running, cut, setting>>
  BY DEF Proceed
<1>2. script'[s] = Tail(script[s]) /\ sent'[s] = 0 /\ ran'[s] = ran[s]
  BY <1>1 DEF TypeOK
<1>3. \A t \in Shell \ {s} : Frame(t) /\ Phase(t)' = Phase(t)
  BY <1>1 DEF TypeOK, Frame, OldFrame, Phase
<1>4. ScriptInv
  BY DEF FanOutInv
<1>5. ScriptInv'
  <2>1. script'[s] = <<>> \/ Rest(s, "start_all", {<<"start-workers">>})'
        \/ Rest(s, "stop_all", {<<"stop-master">>})'
        \/ Rest(s, "stop_wait", {<<"stop-master", "poll">>, <<"poll">>})'
    BY <1>2, <1>4, ScriptSteps DEF Rest, FanOut, Single
  <2>2. \A t \in Shell \ {s} : script'[t] = script[t] /\ ran'[t] = ran[t]
    BY <1>3 DEF Frame
  <2> QED
    BY <1>4, <2>1, <2>2 DEF ScriptInv, Rest
<1>6. SessionInv'
  <2> SUFFICES ASSUME NEW x \in sessions', x.by \in Shell
               PROVE  /\ Phase(x.by)' \in FanOut /\ x.op = Sends(Phase(x.by)') /\ x.line \in 1..sent'[x.by]
                      /\ x.at = HostList[x.line] /\ x.next <= x.last
                      /\ x.op = "stop" => x.last = setting'[x.at]
    BY DEF SessionInv, Sends
  <2>1. x \in sessions /\ x.by # s
    BY <1>1 DEF SessionsOf
  <2> QED
    BY <1>1, <1>3, <2>1 DEF FanOutInv, SessionInv, Frame
<1>7. SweepInv(s) /\ ListInv(s) /\ OldFrame(s) /\ Len(HostList) \in Nat /\ sent[s] \in Nat
  BY ControlAssumption DEF FanOutInv, TypeOK
<1>8. ~\E x \in sessions : x.by = s
  BY DEF SessionsOf
<1>9. SweepInv(s)'
  <2>1. CASE Phase(s) = "stop-workers"
    <3>1. sent[s] = Len(HostList)
      BY <2>1 DEF FanOut
    <3>2. \A d \in old[s], l \in Line :
            ~(/\ d.class = "Worker" /\ ~d.sig
              /\ HostList[l] = d.at /\ l \notin cut[s] /\ d.num <= setting[d.at])
      BY <1>7, <1>8, <2>1, <3>1 DEF SweepInv, Line
    <3> QED
      BY <1>1, <1>7, <3>2 DEF SweepInv, OldFrame
  <2>2. CASE Phase(s) # "stop-workers"
    <3>1. script'[s] \in {<<>>, <<"start-workers">>, <<"poll">>}
      BY <1>2, <1>4, <2>2, ScriptSteps DEF FanOut, Single
    <3>2. Phase(s)' \notin {"stop-workers", "stop-master"}
      BY ONLY <3>1, HeadTail DEF Phase
    <3> QED
      BY <3>2 DEF SweepInv
  <2> QED
    BY <2>1, <2>2
<1>10. ListInv(s)'
  <2>1. CASE Phase(s) = "poll"
    <3>1. sent[s] = Len(HostList)
      BY <2>1 DEF FanOut
    <3>2. \A d \in old[s], l \in Line : ~(d.class = "Worker" /\ HostList[l] = d.at /\ l \notin cut[s])
      BY <1>7, <1>8, <2>1, <3>1 DEF ListInv, Line
    <3> QED
      BY <1>1, <1>7, <3>2 DEF ListInv, OldFrame
  <2>2. CASE Phase(s) # "poll"
    <3>1. \/ script'[s] \in {<<"stop-master">>, <<"stop-master", "poll">>, <<"poll">>}
          \/ ran'[s] \in {"start_all", "stop_all"} \union SingleScript
      BY <1>2, <1>4, <2>2, ScriptSteps DEF FanOut, Single, SingleScript
    <3>2. script'[s] \in {<<"stop-master">>, <<"stop-master", "poll">>, <<"poll">>}
            => Phase(s)' \in {"stop-master", "poll"}
      BY ONLY HeadTail DEF Phase
    <3>3. ~Ended(s, "stop_wait")'
      BY <3>1, <3>2 DEF Ended, SingleScript
    <3> QED
      BY <1>2, <3>3 DEF ListInv, Line
  <2> QED
    BY <2>1, <2>2
<1>11. \A t \in Shell : SweepInv(t)' /\ ListInv(t)'
  BY <1>3, <1>9, <1>10, FrameKeeps DEF FanOutInv
<1> QED
  BY <1>5, <1>6, <1>11 DEF FanOutInv

\* A session is opened for the next host.
LEMMA SpawnKeeps ==
  ASSUME TypeOK, FanOutInv, NEW s \in Shell, Spawn(s)
  PROVE  FanOutInv'
<1> DEFINE n == sent[s] + 1
           op == Sends(Phase(s))
           x == [by |-> s, line |-> n, at |-> HostList[n], op |-> op, next |-> 1,
                 last |-> IF op = "ps" THEN 1 ELSE setting[HostList[n]]]
<1>1. /\ Phase(s) \in FanOut /\ sessions' = sessions \union {x} /\ sent' = [sent EXCEPT ![s] = n]
      /\ cut' = IF n = 1 THEN [cut EXCEPT ![s] = {}] ELSE cut
      /\ running' = IF n = 1 THEN [running EXCEPT ![s] = FALSE] ELSE running
      /\ old' = IF n = 1 /\ op = "ps" THEN [old EXCEPT ![s] = daemons] ELSE old
      /\ UNCHANGED <<script, ran, setting>>
  BY DEF Spawn
<1>2. n \in Line /\ sent[s] \in Nat /\ sent[s] < n /\ HostList[n] \in Machine
  BY ControlAssumption DEF Spawn, Line, TypeOK
<1>3. x.by = s /\ x.line = n /\ x.at = HostList[n] /\ x.op = op /\ x.next = 1 /\ x.next <= x.last
      /\ (x.op = "stop" => x.last = setting[x.at])
  <2>1. setting[HostList[n]] \in Nat /\ 1 <= setting[HostList[n]]
    BY <1>2, ControlAssumption DEF TypeOK, Number
  <2> QED
    BY <2>1
<1> HIDE DEF n, x
<1>4. /\ \A t \in Shell \ {s} : cut'[t] = cut[t] /\ running'[t] = running[t] /\ old'[t] = old[t] /\ sent'[t] = sent[t]
      /\ sent'[s] = n
      /\ n # 1 => cut'[s] = cut[s] /\ running'[s] = running[s]
      /\ n # 1 \/ op # "ps" => old'[s] = old[s]
      /\ old'[s] = old[s] \/ old'[s] = daemons
  <2>1. /\ cut' = cut \/ (n = 1 /\ cut' = [cut EXCEPT ![s] = {}])
        /\ running' = running \/ (n = 1 /\ running' = [running EXCEPT ![s] = FALSE])
        /\ old' = old \/ (n = 1 /\ op = "ps" /\ old' = [old EXCEPT ![s] = daemons])
    BY <1>1
  <2>2. \A t \in Shell \ {s} : cut'[t] = cut[t] /\ running'[t] = running[t] /\ old'[t] = old[t]
    BY <2>1 DEF TypeOK
  <2>3. sent'[s] = n /\ \A t \in Shell \ {s} : sent'[t] = sent[t]
    BY <1>1 DEF TypeOK
  <2>4. old'[s] = old[s] \/ old'[s] = daemons
    BY <2>1 DEF TypeOK
  <2> QED
    BY <2>1, <2>2, <2>3, <2>4
<1>5. \A t \in Shell \ {s} : Frame(t)
  BY <1>1, <1>4 DEF Frame
<1>6. \A t \in Shell : Phase(t)' = Phase(t)
  BY <1>1 DEF Phase
<1>7. ScriptInv'
  BY <1>1 DEF FanOutInv, ScriptInv, Rest
<1>8. SessionInv'
  <2>1. \A y \in sessions : y.by \in Shell => y.line \in 1..sent'[y.by]
    <3> SUFFICES ASSUME NEW y \in sessions, y.by \in Shell PROVE y.line \in 1..sent'[y.by]
      OBVIOUS
    <3>1. y.line \in 1..sent[y.by]
      BY DEF FanOutInv, SessionInv
    <3>2. CASE y.by = s
      BY <1>2, <1>4, <3>1, <3>2 DEF n
    <3>3. CASE y.by # s
      BY <1>4, <3>1, <3>3
    <3> QED
      BY <3>2, <3>3
  <2>2. x.line \in 1..sent'[s]
    BY <1>2, <1>3, <1>4 DEF Line
  <2> QED
    BY <1>1, <1>3, <1>6, <2>1, <2>2 DEF FanOutInv, SessionInv
<1>9. old'[s] \subseteq Daemon /\ \A d \in Daemon : 1 <= d.num
  BY <1>4, ControlAssumption DEF TypeOK, Daemon, Number
<1>10. SweepInv(s)'
  <2> SUFFICES ASSUME Phase(s) = "stop-workers", NEW d \in old'[s], NEW l \in Line,
                      d.class = "Worker" /\ ~d.sig /\ HostList[l] = d.at /\ l \notin cut'[s]
                        /\ d.num <= setting[d.at],
                      ~(n < l)
               PROVE  \E y \in sessions' : y.by = s /\ y.line = l /\ y.next <= d.num
    BY <1>1, <1>4, <1>6 DEF SweepInv, FanOut
  <2>1. CASE l = n
    BY <1>1, <1>3, <1>9, <2>1
  <2>2. CASE l # n
    <3>1. n # 1 /\ ~(sent[s] < l)
      BY <1>2, <2>2 DEF Line, n
    <3>2. \E y \in sessions : y.by = s /\ y.line = l /\ y.next <= d.num
      BY <1>4, <3>1 DEF FanOutInv, SweepInv
    <3> QED
      BY <1>1, <3>2
  <2> QED
    BY <2>1, <2>2
<1>11. ListInv(s)'
  <2> SUFFICES ASSUME Phase(s) = "poll", NEW d \in old'[s], NEW l \in Line,
                      d.class = "Worker" /\ HostList[l] = d.at /\ l \notin cut'[s],
                      ~(n < l)
               PROVE  running'[s] \/ \E y \in sessions' : y.by = s /\ y.line = l
    BY <1>1, <1>4, <1>6 DEF ListInv, FanOut, Ended
  <2>1. CASE l = n
    BY <1>1, <1>3, <2>1
  <2>2. CASE l # n
    <3>1. n # 1 /\ ~(sent[s] < l)
      BY <1>2, <2>2 DEF Line, n
    <3>2. running[s] \/ \E y \in sessions : y.by = s /\ y.line = l
      BY <1>4, <3>1 DEF FanOutInv, ListInv
    <3> QED
      BY <1>1, <1>4, <3>1, <3>2
  <2> QED
    BY <2>1, <2>2
<1>12. \A t \in Shell : SweepInv(t)' /\ ListInv(t)'
  BY <1>5, <1>10, <1>11, FrameKeeps DEF FanOutInv
<1> QED
  BY <1>7, <1>8, <1>12 DEF FanOutInv

\* A remote script goes on.
LEMMA RemoteKeeps ==
  ASSUME TypeOK, FanOutInv, NEW x \in sessions, Remote(x)
  PROVE  FanOutInv'
<1> DEFINE next == [x EXCEPT !.next = @ + 1]
<1>1. /\ sessions' = (sessions \ {x}) \union IF x.next < x.last THEN {next} ELSE {}
      /\ UNCHANGED <<script, ran, sent, cut, setting>>
  BY DEF Remote, StartWorker, StopWorker, ListWorkers, Round
<1>2. /\ x.at \in Machine /\ x.next \in Number /\ x.last \in Number
      /\ x.op \in {"start", "stop", "ps"} /\ x.by \in Shell \union Machine
  BY DEF TypeOK, Session
<1>3. /\ next.by = x.by /\ next.line = x.line /\ next.at = x.at /\ next.op = x.op
      /\ next.last = x.last /\ next.next = x.next + 1
  BY DEF TypeOK, Session
<1> HIDE DEF next
<1>4. Worker(x.at, x.next, FALSE) \in Daemon
  BY <1>2, DaemonIsDaemon
<1>5. \A t \in Shell : OldFrame(t)
  <2>1. CASE x.op \in {"start", "stop"}
    BY <1>4, <2>1, DaemonFrame DEF Remote, StartWorker, StopWorker, ListWorkers, Round
  <2>2. CASE x.op = "ps"
    BY <2>2 DEF Remote, StartWorker, StopWorker, ListWorkers, Round, OldFrame
  <2> QED
    BY <1>2, <2>1, <2>2
<1>6. \A t \in Shell \ {x.by} : running'[t] = running[t]
  BY <1>2 DEF Remote, StartWorker, StopWorker, ListWorkers, Round, TypeOK
<1>7. \A t \in Shell \ {x.by} : Frame(t)
  BY <1>1, <1>5, <1>6 DEF Frame, OldFrame
<1>8. \A t \in Shell : Phase(t)' = Phase(t) /\ Ended(t, "stop_wait")' = Ended(t, "stop_wait")
  BY <1>1 DEF Phase, Ended
<1>9. ScriptInv'
  BY <1>1 DEF FanOutInv, ScriptInv, Rest
<1>10. SessionInv'
  <2>1. x.next < x.last /\ x.next \in Nat /\ x.last \in Nat => next.next <= next.last
    BY <1>3
  <2>2. x.next \in Nat /\ x.last \in Nat
    BY <1>2 DEF Number
  <2> QED
    BY <1>1, <1>3, <1>8, <2>1, <2>2 DEF FanOutInv, SessionInv
<1>11. ASSUME x.by \in Shell PROVE SweepInv(x.by)'
  <2> DEFINE s == x.by
  <2>0. /\ Phase(s) \in FanOut /\ x.op = Sends(Phase(s)) /\ x.at = HostList[x.line]
        /\ x.op = "stop" => x.last = setting[x.at]
    BY <1>11 DEF FanOutInv, SessionInv
  <2> SUFFICES ASSUME Phase(s) = "stop-workers", NEW d \in old'[s], NEW l \in Line,
                      d.class = "Worker" /\ ~d.sig /\ HostList[l] = d.at /\ l \notin cut[s]
                        /\ d.num <= setting[d.at],
                      ~(sent[s] < l)
               PROVE  \E y \in sessions' : y.by = s /\ y.line = l /\ y.next <= d.num
    BY <1>1, <1>8, <1>11, <2>0 DEF SweepInv, FanOut
  <2>1. x.op = "stop"
    BY <2>0 DEF Sends
  <2>2. d \in old[s] /\ d \in Daemon
    BY <1>5, <1>11 DEF OldFrame, TypeOK
  <2>3. PICK y \in sessions : y.by = s /\ y.line = l /\ y.next <= d.num
    BY <1>11, <2>2 DEF FanOutInv, SweepInv
  <2>4. CASE y # x
    BY <1>1, <2>3, <2>4
  <2>5. CASE y = x
    <3>1. x.at = d.at /\ x.last = setting[d.at]
      BY <2>0, <2>1, <2>3, <2>5
    <3>2. d.num # x.next
      <4> SUFFICES ASSUME d.num = x.next PROVE FALSE
        OBVIOUS
      <4>1. d = Worker(x.at, x.next, FALSE)
        BY <2>2, <3>1 DEF Worker, Daemon
      <4>2. Signal(d)
        BY <2>1, <4>1 DEF Remote, StartWorker, StopWorker, ListWorkers, Round
      <4>3. d \notin old'[s]
        <5>1. old'[s] = (old[s] \ {d}) \union {[d EXCEPT !.sig = TRUE]}
          BY <1>11, <2>2, <4>2 DEF Signal
        <5>2. [d EXCEPT !.sig = TRUE].sig
          BY <2>2 DEF Daemon
        <5> QED
          BY <5>1, <5>2
      <4> QED
        BY <4>3
    <3>3. x.next + 1 <= d.num /\ x.next < x.last
      <4>1. d.num \in Nat /\ x.next \in Nat /\ x.last \in Nat
        BY <1>2, <2>2 DEF Daemon, Number
      <4> QED
        BY <2>3, <2>5, <3>1, <3>2, <4>1
    <3> QED
      BY <1>1, <1>3, <2>3, <2>5, <3>3
  <2> QED
    BY <2>4, <2>5
<1>12. ASSUME x.by \in Shell PROVE ListInv(x.by)'
  <2> DEFINE s == x.by
  <2>0. Phase(s) \in FanOut /\ x.op = Sends(Phase(s)) /\ x.at = HostList[x.line]
    BY <1>12 DEF FanOutInv, SessionInv
  <2> SUFFICES ASSUME Phase(s) = "poll", NEW d \in old'[s], NEW l \in Line,
                      d.class = "Worker" /\ HostList[l] = d.at /\ l \notin cut[s],
                      ~(sent[s] < l)
               PROVE  running'[s] \/ \E y \in sessions' : y.by = s /\ y.line = l
    BY <1>1, <1>8, <1>12, <2>0 DEF ListInv, FanOut, Ended
  <2>1. x.op = "ps"
    BY <2>0 DEF Sends
  <2>2. d \in old[s] /\ d \in daemons
    BY <1>12, <2>1 DEF Remote, StartWorker, StopWorker, ListWorkers, Round, TypeOK
  <2>3. running[s] => running'[s]
    BY <1>12, <2>1 DEF Remote, StartWorker, StopWorker, ListWorkers, Round, TypeOK
  <2>4. running[s] \/ \E y \in sessions : y.by = s /\ y.line = l
    BY <1>12, <2>2 DEF FanOutInv, ListInv
  <2>5. ASSUME NEW y \in sessions, y.by = s, y.line = l, y # x PROVE y \in sessions'
    BY <1>1, <2>5
  <2>6. x.line = l => running'[s]
    <3>1. running'[s] = (running[s] \/ \E c \in daemons : c.class = "Worker" /\ c.at = x.at)
      BY <1>12, <2>1 DEF Remote, StartWorker, StopWorker, ListWorkers, Round, TypeOK
    <3> QED
      BY <2>0, <2>2, <3>1
  <2> QED
    BY <2>3, <2>4, <2>5, <2>6
<1>13. \A t \in Shell : SweepInv(t)' /\ ListInv(t)'
  BY <1>7, <1>11, <1>12, FrameKeeps DEF FanOutInv
<1> QED
  BY <1>9, <1>10, <1>13 DEF FanOutInv

\* At every moment each worker that a sweep or a listing (workers.sh 103-120)
\* must reach is behind it, in the hands of a session, or still to come.
THEOREM FanOutSound == Spec => []FanOutInv
<1>1. Init => FanOutInv
  BY DEF Init, FanOutInv, ScriptInv, SessionInv, SweepInv, ListInv
<1>2. TypeOK /\ FanOutInv /\ [Next]_vars => FanOutInv'
  <2> SUFFICES ASSUME TypeOK, FanOutInv, [Next]_vars PROVE FanOutInv'
    OBVIOUS
  <2>1. ASSUME NEW s \in Shell, Here(s) PROVE FanOutInv'
    <3>1. /\ Phase(s) \in Single /\ Proceed(s)
          /\ \E d \in {Master(FALSE), History(FALSE)} : Launch(d) \/ Signal(d)
      BY <2>1 DEF Here, StartMaster, StopMaster, StartHistory, StopHistory, Single
    <3>2. SessionsOf(s) = {}
      BY <3>1 DEF SessionsOf, FanOutInv, SessionInv, FanOut, Single
    <3>3. \A t \in Shell : OldFrame(t)
      BY <3>1, DaemonIsDaemon, DaemonFrame
    <3> QED
      BY <3>1, <3>2, <3>3, ProceedKeeps DEF FanOut, Single
  <2>2. ASSUME NEW s \in Shell, Spawn(s) PROVE FanOutInv'
    BY <2>2, SpawnKeeps
  <2>3. ASSUME NEW s \in Shell, Again(s) PROVE FanOutInv'
    <3>1. /\ sent' = [sent EXCEPT ![s] = 0] /\ SessionsOf(s) = {} /\ Phase(s) = "poll"
          /\ UNCHANGED <<daemons, old, script, sessions, ran, running, cut, setting>>
      BY <2>3 DEF Again, work
    <3>2. \A t \in Shell \ {s} : Frame(t)
      BY <3>1 DEF Frame, TypeOK
    <3>3. \A t \in Shell : Phase(t)' = Phase(t)
      BY <3>1 DEF Phase
    <3>4. SessionInv' /\ ScriptInv'
      BY <3>1, <3>3 DEF FanOutInv, SessionInv, ScriptInv, Rest, SessionsOf, TypeOK
    <3>5. SweepInv(s)' /\ ListInv(s)'
      BY <3>1, <3>3 DEF SweepInv, ListInv, Ended, TypeOK, Line
    <3>6. \A t \in Shell : SweepInv(t)' /\ ListInv(t)'
      BY <3>2, <3>5, FrameKeeps DEF FanOutInv
    <3> QED
      BY <3>4, <3>6 DEF FanOutInv
  <2>13. ASSUME NEW s \in Shell, Wait(s) PROVE FanOutInv'
    <3>1. /\ Phase(s) \in FanOut /\ Proceed(s) /\ SessionsOf(s) = {} /\ sent[s] = Len(HostList)
          /\ ~(Phase(s) = "poll" /\ running[s]) /\ UNCHANGED old
      BY <2>13 DEF Wait
    <3> QED
      BY <3>1, ProceedKeeps DEF OldFrame, FanOut
  <2>4. ASSUME NEW s \in Shell, NEW x \in Scripts, Run(s, x) PROVE FanOutInv'
    <3>1. /\ Phase(s) = "idle" /\ UNCHANGED <<daemons, sessions, setting>>
          /\ script'[s] = Plan[x] /\ ran'[s] = x /\ sent'[s] = 0 /\ cut'[s] = {} /\ old'[s] = daemons
      BY <2>4 DEF Run, TypeOK
    <3>2. \A t \in Shell \ {s} : Frame(t)
      BY <2>4 DEF Run, Frame, TypeOK
    <3>3. \A t \in Shell \ {s} : Phase(t)' = Phase(t)
      BY <3>2 DEF Frame, Phase
    <3>4. SessionInv'
      BY <3>1, <3>2, <3>3 DEF FanOutInv, SessionInv, FanOut, Frame
    <3>5. x \in {"start_all", "stop_all", "stop_wait"} \union SingleScript
      BY ControlAssumption DEF Plan, SingleScript
    <3>6. ScriptInv'
      <4>1. \/ Rest(s, "start_all", {<<"start-master", "start-workers">>})'
            \/ Rest(s, "stop_all", {<<"stop-workers", "stop-master">>})'
            \/ Rest(s, "stop_wait", {<<"stop-workers", "stop-master", "poll">>})'
            \/ (ran[s] \in SingleScript /\ script[s] = Plan[ran[s]])'
        BY <3>1, <3>5 DEF Plan, Rest
      <4> QED
        BY <3>2, <4>1 DEF FanOutInv, ScriptInv, Rest, Frame
    <3>7. /\ Phase(s)' \notin {"idle", "poll"}
          /\ Phase(s)' = "stop-master" => ran'[s] = "stop_master"
      <4>1. \/ script'[s] \in {<<"start-master", "start-workers">>, <<"stop-workers", "stop-master">>,
                               <<"stop-workers", "stop-master", "poll">>, <<"start-master">>,
                               <<"start-workers">>, <<"stop-workers">>, <<"start-history">>,
                               <<"stop-history">>}
            \/ script'[s] = <<"stop-master">> /\ ran'[s] = "stop_master"
        BY <3>1, <3>5 DEF Plan, SingleScript
      <4> QED
        BY ONLY <4>1, HeadTail DEF Phase
    <3>8. SweepInv(s)' /\ ListInv(s)'
      BY <3>1, <3>7 DEF SweepInv, ListInv, Ended, Line
    <3>9. \A t \in Shell : SweepInv(t)' /\ ListInv(t)'
      BY <3>2, <3>8, FrameKeeps DEF FanOutInv
    <3> QED
      BY <3>4, <3>6, <3>9 DEF FanOutInv
  <2>5. ASSUME NEW x \in sessions, Remote(x) PROVE FanOutInv'
    BY <2>5, RemoteKeeps
  <2>6. ASSUME NEW x \in sessions, Drop(x) PROVE FanOutInv'
    <3>1. \A s \in Shell : Frame(s)
      BY <2>6 DEF Drop, Frame, TypeOK
    <3>2. sessions' \subseteq sessions
      BY <2>6 DEF Drop
    <3> QED
      BY <3>1, <3>2, FramesKeep
  <2>7. ASSUME NEW d \in daemons, Exit(d) PROVE FanOutInv'
    <3>1. \A s \in Shell : Frame(s)
      BY <2>7 DEF Exit, Frame, shells
    <3> QED
      BY <2>7, <3>1, FramesKeep DEF Exit
  <2>8. ASSUME NEW m \in Machine, Boot(m) PROVE FanOutInv'
    <3>1. \A s \in Shell : Frame(s)
      BY <2>8 DEF Boot, Frame, shells
    <3>2. \A x \in sessions' : x \in sessions \/ x.by = m
      BY <2>8 DEF Boot
    <3> QED
      BY <3>1, <3>2, FramesKeep, ControlAssumption
  <2>9. ASSUME NEW m \in Machine, Off(m) PROVE FanOutInv'
    <3>1. ASSUME NEW s \in Shell PROVE Frame(s)
      <4>1. /\ UNCHANGED <<script, ran, sent, running, setting>>
            /\ old'[s] \subseteq old[s]
            /\ cut'[s] = cut[s] \union {x.line : x \in {y \in SessionsOf(s) : y.at = m}}
            /\ sessions' = {x \in sessions : x.at # m}
        BY <2>9 DEF Off
      <4>2. \A x \in sessions : x.by = s => x \in sessions' \/ x.line \in cut'[s]
        BY <4>1 DEF SessionsOf
      <4> QED
        BY <4>1, <4>2 DEF Frame
    <3>2. sessions' \subseteq sessions
      BY <2>9 DEF Off
    <3> QED
      BY <3>1, <3>2, FramesKeep
  <2>10. ASSUME NEW m \in Machine, Sever(m) \/ Heal(m) PROVE FanOutInv'
    <3>1. UNCHANGED <<work, shells, setting>>
      BY <2>10 DEF Sever, Heal
    <3>2. \A s \in Shell : Frame(s)
      BY <3>1 DEF Frame, work, shells
    <3> QED
      BY <3>1, <3>2, FramesKeep DEF work
  <2>11. ASSUME NEW m \in Machine, NEW k \in Number, Edit(m, k) PROVE FanOutInv'
    <3>1. /\ sessions' = {} /\ script' = script
          /\ \A s \in Shell : Phase(s) = "idle" /\ ran'[s] = "none"
      BY <2>11 DEF Edit, work
    <3>2. \A s \in Shell : Phase(s)' = "idle"
      BY <3>1 DEF Phase
    <3>3. \A s \in Shell : script[s] = <<>>
      BY <3>1, ScriptHeads DEF FanOutInv
    <3>4. ScriptInv' /\ SessionInv'
      BY <3>1, <3>3 DEF ScriptInv, SessionInv
    <3>5. \A s \in Shell : SweepInv(s)' /\ ListInv(s)'
      BY <3>1, <3>2 DEF SweepInv, ListInv, Ended
    <3> QED
      BY <3>4, <3>5 DEF FanOutInv
  <2>14. ASSUME NEW m \in Machine, NEW op \in {"start", "stop"}, RunHere(m, op) PROVE FanOutInv'
    <3>1. \A s \in Shell : Frame(s)
      BY <2>14 DEF RunHere, Frame, shells
    <3>2. \A x \in sessions' : x \in sessions \/ x.by = m
      BY <2>14 DEF RunHere
    <3> QED
      BY <3>1, <3>2, FramesKeep, ControlAssumption
  <2>12. CASE UNCHANGED vars
    <3>1. \A s \in Shell : Frame(s)
      BY <2>12 DEF vars, work, shells, Frame
    <3> QED
      BY <2>12, <3>1, FramesKeep DEF vars, work
  <2> QED
    BY <2>1, <2>2, <2>3, <2>4, <2>5, <2>6, <2>7, <2>8, <2>9, <2>10, <2>11, <2>12, <2>13, <2>14
    DEF Next, Local, Here
<1> QED
  BY <1>1, <1>2, TypeCorrect, PTL DEF Spec

\* The master is stopped after every worker that could be reached.
THEOREM WorkersStopFirst == Spec => []WorkersFirst
<1>1. TypeOK /\ FanOutInv => WorkersFirst
  <2> SUFFICES ASSUME TypeOK, FanOutInv, NEW s \in Shell,
                      Phase(s) = "stop-master", ran[s] # "stop_master", NEW d \in old[s],
                      d.class = "Worker", Listed(d.at), ~d.sig, ~Missed(s, d.at)
               PROVE  d.num > setting[d.at]
    BY DEF WorkersFirst
  <2>1. PICK l \in Line : HostList[l] = d.at
    BY DEF Listed
  <2>2. l \notin cut[s]
    BY <2>1 DEF Missed
  <2>3. d \in Daemon
    BY DEF TypeOK
  <2>4. d.num \in Nat /\ setting[d.at] \in Nat
    BY <2>3 DEF TypeOK, Daemon, Number
  <2>5. ~(d.num <= setting[d.at])
    BY <2>1, <2>2 DEF FanOutInv, SweepInv
  <2> QED
    BY <2>4, <2>5
<1> QED
  BY <1>1, TypeCorrect, FanOutSound, PTL

\* What --wait announces holds of every worker its listing could have shown.
THEOREM AnnouncementSound == Spec => []AnnouncedGone
<1>1. FanOutInv => AnnouncedGone
  BY DEF FanOutInv, ListInv, AnnouncedGone, Listed, Missed
<1> QED
  BY <1>1, FanOutSound, PTL

\* Each script stops its workers first, and announces only what its listing saw.
THEOREM OrderlyAlways == Spec => []Orderly
<1>1. WorkersFirst /\ AnnouncedGone => Orderly
  BY DEF Orderly
<1> QED
  BY <1>1, WorkersStopFirst, AnnouncementSound, PTL

-----------------------------------------------------------------------------
\* One operator's shell, and nothing goes wrong: what StartComplete is said of.
Alone == Faults = {} /\ Entry = {} /\ Console = {} /\ \A s, t \in Shell : s = t

\* The k-th worker of line l runs, or the session that is to start it is on its way.
Started(s, l, k) ==
  \/ Worker(HostList[l], k, FALSE) \in daemons
  \/ \E x \in sessions : /\ x.by = s /\ x.line = l /\ x.op = "start"
                         /\ x.last = setting[HostList[l]] /\ x.next <= k

\* The lines whose workers start-all.sh has sent for.
Reached(s, l) == Phase(s) = "idle" \/ (Phase(s) = "start-workers" /\ l <= sent[s])

\* What is known of a start-all.sh: the master is there, and each worker it has sent for is there
\* or will be.
StartedInv(s) ==
  ran[s] = "start_all" =>
    /\ Phase(s) # "start-master" => Master(FALSE) \in daemons
    /\ \A l \in Line, k \in Number :
         k <= setting[HostList[l]] /\ Reached(s, l) => Started(s, l, k)

StartInv ==
  /\ \A m \in Machine : machine[m] = "on"
  /\ \A x \in sessions : x.by \in Shell
  /\ \A s \in Shell : StartedInv(s)

\* A step that does not touch the scripts, and takes away no daemon that is not signalled.
LEMMA StartKept ==
  ASSUME StartInv, UNCHANGED <<script, ran, sent, sessions, machine, setting>>,
         \A d \in daemons : d.sig \/ d \in daemons'
  PROVE  StartInv'
<1>1. \A m, k : Worker(m, k, FALSE) \in daemons => Worker(m, k, FALSE) \in daemons'
  BY DEF Worker
<1>2. Master(FALSE) \in daemons => Master(FALSE) \in daemons'
  BY DEF Master
<1>3. \A s \in Shell : Phase(s)' = Phase(s)
  BY DEF Phase
<1>4. \A s, l, k : Started(s, l, k) => Started(s, l, k)'
  BY <1>1 DEF Started
<1> QED
  BY <1>2, <1>3, <1>4 DEF StartInv, StartedInv, Reached

\* The phases of start-all.sh, one after the other.
LEMMA StartPhases ==
  ASSUME TypeOK, FanOutInv, NEW s \in Shell, Phase(s) # "idle", ran[s] = "start_all"
  PROVE  \/ Phase(s) = "start-master" /\ Tail(script[s]) = <<"start-workers">>
         \/ Phase(s) = "start-workers" /\ Tail(script[s]) = <<>>
BY ScriptSteps DEF FanOutInv, SingleScript, FanOut, Single

\* start-master.sh, and what follows in the plan.
LEMMA StartHere ==
  ASSUME Alone, TypeOK, FanOutInv, StartInv, NEW s \in Shell, Here(s)
  PROVE  StartInv'
<1>1. Phase(s) \in Single /\ Proceed(s) /\ UNCHANGED <<machine, sessions, ran>>
      /\ script'[s] = Tail(script[s]) /\ sent'[s] = 0
  BY DEF Here, StartMaster, StopMaster, StartHistory, StopHistory, Single, Proceed, TypeOK
<1>2. ASSUME ran[s] = "start_all"
      PROVE  Phase(s)' = "start-workers" /\ Master(FALSE) \in daemons'
  <2>1. Phase(s) = "start-master" /\ Tail(script[s]) = <<"start-workers">>
    BY <1>1, <1>2, StartPhases DEF Single
  <2>2. Master(FALSE) \in daemons'
    BY <2>1 DEF Here, StartMaster, StopMaster, StartHistory, StopHistory, Launch
  <2>3. script'[s] = <<"start-workers">>
    BY <1>1, <2>1
  <2>4. Phase(s)' = "start-workers"
    BY ONLY <2>3, HeadTail DEF Phase
  <2> QED
    BY <2>2, <2>4
<1>3. \A t \in Shell : t = s
  BY DEF Alone
<1>4. StartedInv(s)'
  <2>1. \A l \in Line : ran[s] = "start_all" => ~Reached(s, l)'
    BY <1>1, <1>2 DEF Reached, Line
  <2> QED
    BY <1>1, <1>2, <2>1 DEF StartedInv
<1> QED
  BY <1>1, <1>3, <1>4 DEF StartInv

\* workers.sh sends a session to the next host.
LEMMA StartSpawn ==
  ASSUME Alone, TypeOK, FanOutInv, StartInv, NEW s \in Shell, Spawn(s)
  PROVE  StartInv'
<1> DEFINE l == sent[s] + 1
           op == Sends(Phase(s))
           x == [by |-> s, line |-> l, at |-> HostList[l], op |-> op, next |-> 1,
                 last |-> IF op = "ps" THEN 1 ELSE setting[HostList[l]]]
<1>1. /\ sessions' = sessions \union {x} /\ sent'[s] = l /\ Phase(s) \in FanOut
      /\ UNCHANGED <<daemons, script, ran, machine, setting>>
  BY DEF Spawn, TypeOK
<1>2. Phase(s)' = Phase(s) /\ sent[s] \in Nat
  BY <1>1, ControlAssumption DEF Phase, TypeOK
<1>3. \A t \in Shell : t = s
  BY DEF Alone
<1>4. ASSUME ran[s] = "start_all" PROVE Phase(s) = "start-workers" /\ op = "start"
  BY <1>1, <1>4, StartPhases DEF FanOut, Sends
<1>5. StartedInv(s)'
  <2> SUFFICES ASSUME ran[s] = "start_all", NEW k \in Line, NEW n \in Number,
                      n <= setting[HostList[k]], Reached(s, k)'
               PROVE  Started(s, k, n)'
    BY <1>1, <1>2, <1>4 DEF StartInv, StartedInv
  <2>1. CASE k = l
    <3>1. x.by = s /\ x.line = l /\ x.op = "start" /\ x.last = setting[HostList[l]] /\ x.next = 1
      BY <1>4
    <3>2. x.next <= n
      BY <3>1 DEF Number
    <3> HIDE DEF x, op
    <3> QED
      BY <1>1, <2>1, <3>1, <3>2 DEF Started
  <2>2. CASE k # l
    <3>1. Reached(s, k)
      BY <1>1, <1>2, <1>4, <2>2 DEF Reached, Line
    <3>2. Started(s, k, n)
      BY <3>1 DEF StartInv, StartedInv
    <3> HIDE DEF x
    <3> QED
      BY <1>1, <3>2 DEF Started
  <2> QED
    BY <2>1, <2>2
<1>6. x.by = s
  OBVIOUS
<1> HIDE DEF x
<1> QED
  BY <1>1, <1>3, <1>5, <1>6 DEF StartInv

\* wait: all sessions have ended, so all workers run.
LEMMA StartWait ==
  ASSUME Alone, TypeOK, FanOutInv, StartInv, NEW s \in Shell, Wait(s)
  PROVE  StartInv'
<1>1. /\ SessionsOf(s) = {} /\ sent[s] = Len(HostList) /\ Phase(s) \in FanOut
      /\ UNCHANGED <<daemons, sessions, ran, machine, setting>>
  BY DEF Wait, Proceed
<1>2. \A t \in Shell : t = s
  BY DEF Alone
<1>3. StartedInv(s)'
  <2> SUFFICES ASSUME ran[s] = "start_all" PROVE StartedInv(s)'
    BY <1>1 DEF StartedInv
  <2>1. Phase(s) = "start-workers"
    BY <1>1, StartPhases DEF FanOut
  <2>2. Master(FALSE) \in daemons
    BY <2>1 DEF StartInv, StartedInv
  <2>3. \A l \in Line, k \in Number :
          k <= setting[HostList[l]] => Worker(HostList[l], k, FALSE) \in daemons
    <3>1. \A l \in Line : Reached(s, l)
      BY <1>1, <2>1 DEF Reached, Line
    <3>2. \A x \in sessions : x.by # s
      BY <1>1 DEF SessionsOf
    <3>3. StartedInv(s)
      BY DEF StartInv
    <3> QED
      BY <3>1, <3>2, <3>3 DEF StartedInv, Started
  <2> QED
    BY <1>1, <2>2, <2>3 DEF StartedInv, Started
<1> QED
  BY <1>1, <1>2, <1>3 DEF StartInv

\* A remote script starts one worker.
LEMMA StartRemote ==
  ASSUME Alone, TypeOK, FanOutInv, StartInv, NEW x \in sessions, Remote(x)
  PROVE  StartInv'
<1>1. x.by \in Shell /\ x \in Session
  BY DEF StartInv, TypeOK
<1> DEFINE s == x.by
<1>2. \A t \in Shell : t = s
  BY <1>1 DEF Alone
<1>3. /\ sessions' = (sessions \ {x}) \union IF x.next < x.last THEN {[x EXCEPT !.next = @ + 1]} ELSE {}
      /\ UNCHANGED <<script, ran, sent, machine, setting>>
  BY DEF Remote, StartWorker, StopWorker, ListWorkers, Round
<1>4. \A y \in sessions' : y.by \in Shell
  BY <1>1, <1>3 DEF StartInv, Session
<1>5. StartedInv(s)'
  <2> SUFFICES ASSUME ran[s] = "start_all" PROVE StartedInv(s)'
    BY <1>3 DEF StartedInv
  <2>1. Phase(s) = "start-workers" /\ x.op = "start" /\ x.at = HostList[x.line]
    <3>1. Phase(s) \in FanOut /\ x.op = Sends(Phase(s)) /\ x.at = HostList[x.line]
      BY <1>1 DEF FanOutInv, SessionInv
    <3>2. Phase(s) = "start-workers"
      BY <1>1, <3>1, StartPhases DEF FanOut
    <3> QED
      BY <3>1, <3>2 DEF Sends
  <2>2. daemons' = daemons \union {Worker(x.at, x.next, FALSE)}
    BY <2>1 DEF Remote, StartWorker, StopWorker, ListWorkers, Launch
  <2>3. Phase(s)' = Phase(s) /\ Master(FALSE) \in daemons'
    BY <1>1, <1>3, <2>1, <2>2 DEF Phase, StartInv, StartedInv
  <2>4. ASSUME NEW l \in Line, NEW k \in Number, k <= setting[HostList[l]], Reached(s, l)'
        PROVE  Started(s, l, k)'
    <3>1. Started(s, l, k)
      BY <1>1, <1>3, <2>3, <2>4 DEF StartInv, StartedInv, Reached
    <3>2. CASE Worker(HostList[l], k, FALSE) \in daemons
      BY <2>2, <3>2 DEF Started
    <3>3. ASSUME NEW y \in sessions, y.by = s, y.line = l, y.op = "start",
                 y.last = setting[HostList[l]], y.next <= k
          PROVE  Started(s, l, k)'
      <4>1. CASE y # x
        BY <1>3, <3>3, <4>1 DEF Started
      <4>2. CASE y = x /\ k = x.next
        BY <2>1, <2>2, <3>3, <4>2 DEF Started
      <4>3. CASE y = x /\ k # x.next
        <5>1. x.next \in Nat /\ k \in Nat /\ x.last \in Nat
          BY <1>1 DEF Session, Number
        <5>2. x.next < x.last /\ x.next + 1 <= k
          BY <2>4, <3>3, <4>3, <5>1
        <5> DEFINE z == [x EXCEPT !.next = @ + 1]
        <5>3. z \in sessions'
          BY <1>3, <5>2
        <5>4. z.by = s /\ z.line = l /\ z.op = "start" /\ z.last = x.last /\ z.next = x.next + 1
          BY <1>1, <3>3, <4>3 DEF Session
        <5> HIDE DEF z
        <5> QED
          BY <1>3, <3>3, <4>3, <5>2, <5>3, <5>4 DEF Started
      <4> QED
        BY <4>1, <4>2, <4>3
    <3> QED
      BY <3>1, <3>2, <3>3 DEF Started
  <2> QED
    BY <1>3, <2>3, <2>4 DEF StartedInv
<1> QED
  BY <1>2, <1>3, <1>4, <1>5 DEF StartInv

\* Where no other script or fault interferes, start-all.sh leaves the master and the full number
\* of workers on every listed machine, however often scripts ran before.
THEOREM StartsComplete == Alone /\ Spec => []StartComplete
<1> SUFFICES ASSUME Alone PROVE Spec => []StartComplete
  OBVIOUS
<1>1. Init => StartInv
  BY DEF Init, StartInv, StartedInv, Alone
<1>2. TypeOK /\ FanOutInv /\ StartInv /\ [Next]_vars => StartInv'
  <2> SUFFICES ASSUME TypeOK, FanOutInv, StartInv, [Next]_vars PROVE StartInv'
    OBVIOUS
  <2>1. ASSUME NEW s \in Shell, Here(s) PROVE StartInv'
    BY <2>1, StartHere
  <2>2. ASSUME NEW s \in Shell, Spawn(s) PROVE StartInv'
    BY <2>2, StartSpawn
  <2>3. ASSUME NEW s \in Shell, Wait(s) PROVE StartInv'
    BY <2>3, StartWait
  <2>4. ASSUME NEW s \in Shell, Again(s) PROVE StartInv'
    <3>1. ran[s] # "start_all"
      BY <2>4, StartPhases DEF Again
    <3>2. \A t \in Shell : t = s
      BY DEF Alone
    <3> QED
      BY <2>4, <3>1, <3>2 DEF Again, StartInv, StartedInv, work
  <2>5. ASSUME NEW s \in Shell, NEW x \in Scripts, Run(s, x) PROVE StartInv'
    <3>1. UNCHANGED <<sessions, machine>> /\ script'[s] = Plan[x] /\ ran'[s] = x
      BY <2>5 DEF Run, TypeOK
    <3>2. ran'[s] = "start_all" => Phase(s)' = "start-master"
      BY <3>1, HeadTail DEF Phase, Plan
    <3>3. \A t \in Shell : t = s
      BY DEF Alone
    <3> QED
      BY <3>1, <3>2, <3>3 DEF StartInv, StartedInv, Reached
  <2>6. ASSUME NEW x \in sessions, Remote(x) PROVE StartInv'
    BY <2>6, StartRemote
  <2>7. ASSUME NEW x \in sessions, Drop(x) PROVE FALSE
    BY <2>7 DEF Drop, StartInv, TypeOK, Session
  <2>8. ASSUME NEW d \in daemons, Exit(d) PROVE StartInv'
    <3>1. d.sig /\ daemons' = daemons \ {d} /\ UNCHANGED <<sessions, shells, machine, setting>>
      BY <2>8 DEF Exit, Alone
    <3> QED
      BY <3>1, StartKept DEF shells
  <2>9. ASSUME NEW m \in Machine, Boot(m) \/ Off(m) \/ Sever(m) \/ Heal(m) PROVE FALSE
    BY <2>9 DEF Boot, Off, Sever, Heal, Alone, StartInv
  <2>10. ASSUME NEW m \in Machine, NEW k \in Number, Edit(m, k) PROVE StartInv'
    BY <2>10 DEF Edit, StartInv, StartedInv, work
  <2>11. ASSUME NEW m \in Machine, NEW op \in {"start", "stop"}, RunHere(m, op) PROVE FALSE
    BY <2>11 DEF RunHere, Alone
  <2>12. CASE UNCHANGED vars
    BY <2>12, StartKept DEF vars, work, shells
  <2> QED
    BY <2>1, <2>2, <2>3, <2>4, <2>5, <2>6, <2>7, <2>8, <2>9, <2>10, <2>11, <2>12 DEF Next, Local, Here
<1>3. TypeOK /\ FanOutInv /\ StartInv => StartComplete
  <2> SUFFICES ASSUME TypeOK, FanOutInv, StartInv, NEW s \in Shell, Ended(s, "start_all")
               PROVE  /\ Master(FALSE) \in daemons
                      /\ \A m \in Machine : Listed(m) =>
                           \A k \in 1..setting[m] : Worker(m, k, FALSE) \in daemons
    BY DEF StartComplete
  <2>1. Phase(s) = "idle" /\ ran[s] = "start_all"
    BY DEF Ended
  <2>2. \A x \in sessions : x.by # s
    BY <2>1 DEF FanOutInv, SessionInv, FanOut
  <2>3. ASSUME NEW m \in Machine, NEW l \in Line, HostList[l] = m, NEW k \in 1..setting[m]
        PROVE  Worker(m, k, FALSE) \in daemons
    <3>1. k \in Number /\ k <= setting[HostList[l]]
      BY <2>3, ControlAssumption DEF Number, TypeOK
    <3>2. Started(s, l, k)
      BY <2>1, <3>1 DEF StartInv, StartedInv, Reached
    <3> QED
      BY <2>2, <2>3, <3>2 DEF Started
  <2> QED
    BY <2>1, <2>3 DEF StartInv, StartedInv, Listed
<1> QED
  BY <1>1, <1>2, <1>3, TypeCorrect, FanOutSound, PTL DEF Spec
=============================================================================
