-------------------------- MODULE SparkProperties --------------------------
(***************************************************************************)
(* What the control scripts must achieve, whatever else happens to the     *)
(* machines meanwhile, and what their comments claim.                      *)
(***************************************************************************)
EXTENDS SparkControl

\* The types of the variables: no session goes beyond the instances a machine
\* may have, no script beyond its phases and hosts.
TypeOK ==
  /\ daemons \subseteq Daemon /\ sessions \subseteq Session
  /\ machine \in [Machine -> {"off", "on", "severed"}]
  /\ setting \in [Machine -> Number]
  /\ script \in [Shell -> Seq(FanOut \union Single)]
  /\ ran \in [Shell -> Scripts \union {"none"}]
  /\ sent \in [Shell -> 0..Len(HostList)]
  /\ running \in [Shell -> BOOLEAN]
  /\ old \in [Shell -> SUBSET daemons]
  /\ cut \in [Shell -> SUBSET (0..Len(HostList))]
  /\ runs \in 0..MaxRuns /\ faults \in 0..MaxFaults /\ edits \in 0..MaxEdits

\* Some session of s to m ended early.
Missed(s, m) == \E l \in cut[s] \intersect Line : HostList[l] = m

Ended(s, x) == Phase(s) = "idle" /\ ran[s] = x

-----------------------------------------------------------------------------
\* When stop-all.sh comes to the master, every worker that ran on a listed
\* machine when the script began is gone or has been signalled, except where
\* ssh failed or the worker's number is above SPARK_WORKER_INSTANCES: the
\* sessions run at once, and wait is what holds the script back (workers.sh
\* 103-120, stop-all.sh 33-34).
WorkersFirst ==
  \A s \in Shell : Phase(s) = "stop-master" /\ ran[s] # "stop_master" =>
    \A d \in old[s] :
      d.class = "Worker" /\ Listed(d.at) =>
        d.sig \/ Missed(s, d.at) \/ d.num > setting[d.at]

\* When --wait announces the end of all workers, none that its last listing
\* could have shown is still there, on a listed machine that answered it; the
\* machines are listed one after another while workers come and go
\* (stop-all.sh 39-50).
AnnouncedGone ==
  \A s \in Shell : Ended(s, "stop_wait") =>
    \A d \in old[s] : d.class = "Worker" /\ Listed(d.at) => Missed(s, d.at)

\* With several operators' scripts at a time, each stops its workers first and announces only
\* what its listing saw (stop-all.sh 33-50).
Orderly == WorkersFirst /\ AnnouncedGone

\* Where no other script or fault interferes, start-all.sh leaves the master
\* and the full number of workers on every listed machine, however often
\* start and stop scripts ran before (start-all.sh 33-37, start-worker.sh 86-92).
StartComplete ==
  \A s \in Shell : Ended(s, "start_all") =>
    /\ Master(FALSE) \in daemons
    /\ \A m \in Machine : Listed(m) => \A k \in 1..setting[m] : Worker(m, k, FALSE) \in daemons

\* A script without --wait ends, whatever fails.
OthersEnd ==
  \A s \in Shell : Phase(s) # "idle" /\ ran[s] # "stop_wait" ~> Phase(s) = "idle"

\* --wait ends if from some time on there is no worker on a listed machine
\* that has not been signalled (stop-all.sh 39-50).
WaitEnds ==
  \A s \in Shell :
    <>[](\A d \in daemons : d.class = "Worker" /\ Listed(d.at) => d.sig)
      => (ran[s] = "stop_wait" ~> Phase(s) = "idle")

\* No script waits for ever: the loop of --wait only while there is a worker to wait for, and
\* none for a machine that fails (stop-all.sh 33-51, workers.sh 103-120).
ScriptsEnd == OthersEnd /\ WaitEnds

-----------------------------------------------------------------------------
\* "Stop all spark daemons." (stop-all.sh 22): afterwards no daemon runs that
\* ran before and was not told to stop.
StopsAllDaemons ==
  \A s \in Shell : Ended(s, "stop_all") => \A d \in old[s] : d.sig

\* "Stops all workers on this worker machine" (stop-worker.sh 29).
StopsAllOnMachine ==
  \A s \in Shell : Ended(s, "stop_all") =>
    \A d \in old[s] : d.class = "Worker" /\ Listed(d.at) => d.sig \/ Missed(s, d.at)

\* "All workers successfully shut down." (stop-all.sh 44).
AnnouncedTrue ==
  \A s \in Shell : Ended(s, "stop_wait") =>
    \A d \in old[s] : d.class = "Worker" => ~Listed(d.at)
=============================================================================
