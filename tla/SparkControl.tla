---------------------------- MODULE SparkControl ----------------------------
(***************************************************************************)
(* The control scripts of the Spark cluster image                          *)
(* (src/spark/spark-cluster): start-all.sh and stop-all.sh, and the scripts *)
(* they call, run in shells on the master's machine.  Those for all workers *)
(* send start-worker.sh, stop-worker.sh or ps to the machines of a host    *)
(* list, one ssh session each, all at once; the entry point of a worker's  *)
(* container and operators on its machine run start-worker.sh and          *)
(* stop-worker.sh by themselves.                                           *)
(*                                                                         *)
(* spark-daemon.sh, ssh and the machines are external: spark-daemon.sh     *)
(* keeps one pid per class and number, starts a daemon unless the one with *)
(* that pid runs, and stops it by a signal that it does not wait for; ssh  *)
(* to a machine that does not answer ends without having run the rest.     *)
(***************************************************************************)
EXTENDS Naturals, Sequences

CONSTANTS
  Machine,      \* the machines with workers
  Hub,          \* the machine of the master and of the shells
  Entry,        \* the machines whose container runs entyrpoint-work.sh
  HostList,     \* a sequence of machines, the lines of HOSTLIST
  Shell,        \* the terminals of the operators
  Scripts,      \* the scripts they run
  Console,      \* the machines on which operators run scripts for its own workers
  MaxInstances, \* bound: SPARK_WORKER_INSTANCES
  Foreground,   \* the shells with SPARK_SSH_FOREGROUND set
  Faults,       \* what may go wrong: "crash", "sever", "off"
  MaxRuns, MaxFaults, MaxEdits    \* bounds

\* Mutant: stop-all.sh begins with the master.
PlanMasterFirst ==
  [start_all |-> <<"start-master", "start-workers">>,
   stop_all  |-> <<"stop-master", "stop-workers">>,
   stop_wait |-> <<"stop-master", "stop-workers", "poll">>,
   start_master |-> <<"start-master">>, stop_master |-> <<"stop-master">>,
   start_workers |-> <<"start-workers">>, stop_workers |-> <<"stop-workers">>,
   start_history |-> <<"start-history">>, stop_history |-> <<"stop-history">>]

Plan ==
  [start_all |-> <<"start-master", "start-workers">>,
   stop_all  |-> <<"stop-workers", "stop-master">>,
   stop_wait |-> <<"stop-workers", "stop-master", "poll">>,
   start_master |-> <<"start-master">>, stop_master |-> <<"stop-master">>,
   start_workers |-> <<"start-workers">>, stop_workers |-> <<"stop-workers">>,
   start_history |-> <<"start-history">>, stop_history |-> <<"stop-history">>]

FanOut == {"start-workers", "stop-workers", "poll"}

\* The phases that are one call of spark-daemon.sh.
Single == {"start-master", "stop-master", "start-history", "stop-history"}

\* The command that a phase sends to each host: start-worker.sh, stop-worker.sh, ps.
Sends(phase) ==
  CASE phase = "start-workers" -> "start" [] phase = "stop-workers" -> "stop" [] OTHER -> "ps"

Line == 1..Len(HostList)
Number == 1..MaxInstances
Daemon == [class : {"Master", "Worker", "HistoryServer"}, at : Machine, num : Number, sig : BOOLEAN]
Session == [by : Shell \union Machine, line : 0..Len(HostList), at : Machine, op : {"start", "stop", "ps"},
            next : Number, last : Number]

ASSUME ControlAssumption ==
  /\ Hub \in Machine /\ Entry \subseteq Machine \ {Hub} /\ HostList \in Seq(Machine)
  /\ Console \subseteq Machine
  /\ Shell \intersect Machine = {} /\ Scripts \subseteq DOMAIN Plan
  /\ MaxInstances \in Nat \ {0} /\ Foreground \subseteq Shell
  /\ Faults \subseteq {"crash", "sever", "off"}
  /\ MaxRuns \in Nat /\ MaxFaults \in Nat /\ MaxEdits \in Nat

VARIABLES
  daemons,    \* the processes, with whether they were signalled to stop
  machine,    \* "off", "on", or "severed": running, but not answering ssh
  setting,    \* SPARK_WORKER_INSTANCES on each machine (unset is 1)
  sessions,   \* the remote scripts that run
  script,     \* per shell, the phases of its script still to be done
  ran,        \* the script it runs or ran last
  sent,       \* workers.sh: the number of hosts it has gone through
  running,    \* stop-all.sh: whether the listing shows a worker
  old,        \* the daemons there when the script, or its current listing, began
  cut,        \* the lines of the host list whose session failed
  runs, faults, edits

work == <<daemons, sessions, old>>
shells == <<script, ran, sent, running, cut>>
counts == <<runs, faults, edits>>
vars == <<work, shells, machine, setting, counts>>

Phase(s) == IF script[s] = <<>> THEN "idle" ELSE Head(script[s])
Listed(m) == \E l \in Line : HostList[l] = m
SessionsOf(s) == {x \in sessions : x.by = s}

Worker(m, k, sig) == [class |-> "Worker", at |-> m, num |-> k, sig |-> sig]
Master(sig) == [class |-> "Master", at |-> Hub, num |-> 1, sig |-> sig]
History(sig) == [class |-> "HistoryServer", at |-> Hub, num |-> 1, sig |-> sig]

-----------------------------------------------------------------------------
\* entyrpoint-master.sh has run; the master it started may have failed.
Init ==
  /\ daemons \in {{}, {Master(FALSE)}} /\ sessions = {}
  /\ machine = [m \in Machine |-> IF m \in Entry THEN "off" ELSE "on"]
  /\ setting \in [Machine -> Number]
  /\ script = [s \in Shell |-> <<>>] /\ ran = [s \in Shell |-> "none"]
  /\ sent = [s \in Shell |-> 0] /\ running = [s \in Shell |-> FALSE]
  /\ old = [s \in Shell |-> {}] /\ cut = [s \in Shell |-> {}]
  /\ runs = 0 /\ faults = 0 /\ edits = 0

\* spark-daemon.sh start: d, not signalled, runs afterwards.
Launch(d) == daemons' = daemons \union {d} /\ UNCHANGED old

\* spark-daemon.sh stop: d, if it runs, has been signalled.
Signal(d) ==
  LET Signalled(ds) == IF d \in ds THEN (ds \ {d}) \union {[d EXCEPT !.sig = TRUE]} ELSE ds
  IN  /\ daemons' = Signalled(daemons)
      /\ old' = [s \in Shell |-> Signalled(old[s])]

\* An operator runs start-worker.sh or stop-worker.sh on the machine itself.
RunHere(m, op) ==
  /\ m \in Console /\ machine[m] # "off" /\ runs < MaxRuns
  /\ ~\E x \in sessions : x.by = m
  /\ runs' = runs + 1
  /\ sessions' = sessions \union {[by |-> m, line |-> 0, at |-> m, op |-> op, next |-> 1,
                                   last |-> setting[m]]}
  /\ UNCHANGED <<daemons, old, shells, machine, setting, faults, edits>>

\* A shell runs a script.
Run(s, x) ==
  /\ Phase(s) = "idle" /\ runs < MaxRuns
  /\ runs' = runs + 1
  /\ script' = [script EXCEPT ![s] = Plan[x]]
  /\ ran' = [ran EXCEPT ![s] = x]
  /\ sent' = [sent EXCEPT ![s] = 0]
  /\ running' = [running EXCEPT ![s] = FALSE]
  /\ cut' = [cut EXCEPT ![s] = {}]
  /\ old' = [old EXCEPT ![s] = daemons]
  /\ UNCHANGED <<daemons, sessions, machine, setting, faults, edits>>

\* The phase is over; whether it failed is not looked at.
Proceed(s) ==
  /\ script' = [script EXCEPT ![s] = Tail(@)]
  /\ sent' = [sent EXCEPT ![s] = 0]
  /\ UNCHANGED <<sessions, ran, running, cut, machine, setting, counts>>

StartMaster(s) == Phase(s) = "start-master" /\ Launch(Master(FALSE)) /\ Proceed(s)

StopMaster(s) == Phase(s) = "stop-master" /\ Signal(Master(FALSE)) /\ Proceed(s)

StartHistory(s) == Phase(s) = "start-history" /\ Launch(History(FALSE)) /\ Proceed(s)

StopHistory(s) == Phase(s) = "stop-history" /\ Signal(History(FALSE)) /\ Proceed(s)

\* The loop of workers.sh: a session in the background for the next host, or in
\* the foreground.  A listing starts afresh.
Spawn(s) ==
  LET l == sent[s] + 1
      op == Sends(Phase(s))
      m == HostList[l]
  IN
  /\ Phase(s) \in FanOut /\ sent[s] < Len(HostList)
  /\ s \in Foreground => SessionsOf(s) = {}
  /\ sessions' = sessions \union
       {[by |-> s, line |-> l, at |-> m, op |-> op, next |-> 1,
         last |-> IF op = "ps" THEN 1 ELSE setting[m]]}
  /\ sent' = [sent EXCEPT ![s] = l]
  /\ cut' = IF l = 1 THEN [cut EXCEPT ![s] = {}] ELSE cut
  /\ running' = IF l = 1 THEN [running EXCEPT ![s] = FALSE] ELSE running
  /\ old' = IF l = 1 /\ op = "ps" THEN [old EXCEPT ![s] = daemons] ELSE old
  /\ UNCHANGED <<daemons, script, ran, machine, setting, counts>>

\* Mutants: the loop over the instances takes one too many, or one too few.
RoundMore(x) ==
  /\ machine[x.at] = "on" \/ x.by \notin Shell
  /\ sessions' = (sessions \ {x}) \union
                   IF x.next <= x.last THEN {[x EXCEPT !.next = @ + 1]} ELSE {}
  /\ UNCHANGED <<script, ran, sent, cut, machine, setting, counts>>
RoundLess(x) ==
  /\ machine[x.at] = "on" \/ x.by \notin Shell
  /\ sessions' = (sessions \ {x}) \union
                   IF x.next + 1 < x.last THEN {[x EXCEPT !.next = @ + 1]} ELSE {}
  /\ UNCHANGED <<script, ran, sent, cut, machine, setting, counts>>

\* The remote script does one round of its loop; ps has one.
Round(x) ==
  /\ machine[x.at] = "on" \/ x.by \notin Shell
  /\ sessions' = (sessions \ {x}) \union
                   IF x.next < x.last THEN {[x EXCEPT !.next = @ + 1]} ELSE {}
  /\ UNCHANGED <<script, ran, sent, cut, machine, setting, counts>>

StartWorker(x) ==
  x.op = "start" /\ Launch(Worker(x.at, x.next, FALSE)) /\ Round(x) /\ UNCHANGED running

StopWorker(x) ==
  x.op = "stop" /\ Signal(Worker(x.at, x.next, FALSE)) /\ Round(x) /\ UNCHANGED running

\* Mutant: the listing keeps only what the last host answered.
ListLast(x) ==
  /\ x.op = "ps" /\ Round(x)
  /\ running' = [running EXCEPT ![x.by] = \E d \in daemons : d.class = "Worker" /\ d.at = x.at]
  /\ UNCHANGED <<daemons, old>>

\* A daemon that was signalled is listed as long as it has not exited.
ListWorkers(x) ==
  /\ x.op = "ps" /\ Round(x)
  /\ running' = [running EXCEPT ![x.by] = @ \/ \E d \in daemons : d.class = "Worker" /\ d.at = x.at]
  /\ UNCHANGED <<daemons, old>>

Remote(x) == StartWorker(x) \/ StopWorker(x) \/ ListWorkers(x)

\* Mutant: ssh tries again until the machine answers.
DropRetry(x) ==
  /\ machine[x.at] # "on" /\ x.by \in Shell
  /\ UNCHANGED vars

\* ssh ends without an answer; the remote script gets no further.
Drop(x) ==
  /\ machine[x.at] # "on" /\ x.by \in Shell
  /\ sessions' = sessions \ {x}
  /\ cut' = [cut EXCEPT ![x.by] = @ \union {x.line}]
  /\ UNCHANGED <<daemons, old, script, ran, sent, running, machine, setting, counts>>

\* Mutant: workers.sh does not wait.
WaitNot(s) ==
  /\ Phase(s) \in FanOut /\ sent[s] = Len(HostList)
  /\ ~(Phase(s) = "poll" /\ running[s])
  /\ Proceed(s)
  /\ UNCHANGED <<daemons, old>>

\* wait, at the end of workers.sh: every session has ended.
Wait(s) ==
  /\ Phase(s) \in FanOut /\ sent[s] = Len(HostList) /\ SessionsOf(s) = {}
  /\ ~(Phase(s) = "poll" /\ running[s])
  /\ Proceed(s)
  /\ UNCHANGED <<daemons, old>>

\* Mutant: grep finds itself in each listing.
AgainAlways(s) ==
  /\ Phase(s) = "poll" /\ sent[s] = Len(HostList) /\ SessionsOf(s) = {}
  /\ sent' = [sent EXCEPT ![s] = 0]
  /\ UNCHANGED <<work, script, ran, running, cut, machine, setting, counts>>

\* The loop of --wait: the listing shows a worker, and is made again.
Again(s) ==
  /\ Phase(s) = "poll" /\ sent[s] = Len(HostList) /\ SessionsOf(s) = {}
  /\ running[s]
  /\ sent' = [sent EXCEPT ![s] = 0]
  /\ UNCHANGED <<work, script, ran, running, cut, machine, setting, counts>>

-----------------------------------------------------------------------------
\* A daemon exits: it was signalled, or it crashes.
Exit(d) ==
  /\ d.sig \/ "crash" \in Faults
  /\ daemons' = daemons \ {d}
  /\ old' = [s \in Shell |-> old[s] \ {d}]
  /\ IF d.sig THEN UNCHANGED faults ELSE faults < MaxFaults /\ faults' = faults + 1
  /\ UNCHANGED <<sessions, shells, machine, setting, runs, edits>>

\* docker run of a worker's container: its entry point starts the workers.
Boot(m) ==
  /\ m \in Entry /\ machine[m] = "off"
  /\ machine' = [machine EXCEPT ![m] = "on"]
  /\ sessions' = sessions \union {[by |-> m, line |-> 0, at |-> m, op |-> "start", next |-> 1,
                                   last |-> setting[m]]}
  /\ UNCHANGED <<daemons, old, shells, setting, counts>>

\* The container stops, and all that runs in it with it, also remote scripts.
Off(m) ==
  /\ "off" \in Faults /\ m \in Entry /\ machine[m] # "off" /\ faults < MaxFaults
  /\ machine' = [machine EXCEPT ![m] = "off"]
  /\ daemons' = {d \in daemons : d.at # m}
  /\ old' = [s \in Shell |-> {d \in old[s] : d.at # m}]
  /\ sessions' = {x \in sessions : x.at # m}
  /\ cut' = [s \in Shell |-> cut[s] \union {x.line : x \in {y \in SessionsOf(s) : y.at = m}}]
  /\ faults' = faults + 1
  /\ UNCHANGED <<script, ran, sent, running, setting, runs, edits>>

\* The machine stops answering ssh, or answers again.
Sever(m) ==
  /\ "sever" \in Faults /\ m # Hub /\ machine[m] = "on" /\ faults < MaxFaults
  /\ machine' = [machine EXCEPT ![m] = "severed"]
  /\ faults' = faults + 1
  /\ UNCHANGED <<work, shells, setting, runs, edits>>

Heal(m) ==
  /\ machine[m] = "severed"
  /\ machine' = [machine EXCEPT ![m] = "on"]
  /\ UNCHANGED <<work, shells, setting, counts>>

\* The operator edits spark-env.sh on a machine, while no script runs.
Edit(m, k) ==
  /\ edits < MaxEdits /\ sessions = {} /\ \A s \in Shell : Phase(s) = "idle"
  /\ setting[m] # k
  /\ setting' = [setting EXCEPT ![m] = k]
  /\ edits' = edits + 1
  /\ ran' = [s \in Shell |-> "none"]
  /\ UNCHANGED <<work, script, sent, running, cut, machine, runs, faults>>

Local(s) ==
  \/ StartMaster(s) \/ StopMaster(s) \/ StartHistory(s) \/ StopHistory(s)
  \/ Spawn(s) \/ Wait(s) \/ Again(s)

Answer(s) == \E x \in SessionsOf(s) : Remote(x) \/ Drop(x)

Stopping == \E d \in daemons : d.sig /\ Exit(d)

Next ==
  \/ \E s \in Shell : Local(s) \/ \E x \in Scripts : Run(s, x)
  \/ \E x \in sessions : Remote(x) \/ Drop(x)
  \/ \E m \in Machine : RunHere(m, "start") \/ RunHere(m, "stop")
  \/ \E d \in daemons : Exit(d)
  \/ \E m \in Machine : Boot(m) \/ Off(m) \/ Sever(m) \/ Heal(m) \/ \E k \in Number : Edit(m, k)

Spec == Init /\ [][Next]_vars

\* A script that can go on does, a session is answered or ends, and a daemon
\* that was signalled exits.
FairSpec ==
  /\ Spec
  /\ \A s \in Shell : WF_vars(Local(s)) /\ WF_vars(Answer(s))
  /\ WF_vars(Stopping)
=============================================================================
