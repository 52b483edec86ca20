----------------------------- MODULE PortScanner ----------------------------
(***************************************************************************)
(* PortScanner and PortScannerSession (src/common): the jobs (address,      *)
(* port) are tried in order, at most MaxConcurrency at a time, each by a    *)
(* Connector whose start and cancellation are tasks posted to the loop.     *)
(* Jobs are numbered in the order fill() takes them: job / ports.size() is  *)
(* the address and job % ports.size() the port.                            *)
(***************************************************************************)
EXTENDS Naturals, Sequences, FiniteSets

CONSTANTS JobCount,          (* addresses.size() * ports.size()            *)
          MaxConcurrency,    (* options.maxConcurrency                     *)
          MaxStops           (* calls of stop(); bounds the model          *)

ASSUME ScannerAssumption ==
    JobCount \in Nat /\ MaxConcurrency \in Nat \ {0} /\ MaxStops \in Nat

Jobs == 1..JobCount

VARIABLES
    started,     (* State::started                                         *)
    stopAction,  (* State::stopAction is set                               *)
    stops,       (* calls of stop() so far                                 *)
    tasks,       (* the Reactor's queue of posted tasks                    *)
    nextJob,     (* jobs taken by fill() so far                            *)
    active,      (* State::active                                          *)
    connector,   (* what each job's Connector is doing                     *)
    stopped, completed,
    ended,       (* calls of on_completed                                  *)
    found        (* jobs emitted as open                                   *)

control == <<started, stopAction, stops>>
vars == <<control, tasks, nextJob, active, connector, stopped, completed, ended, found>>

Task(op, job) == [op |-> op, job |-> job]
Tasks == [op : {"fill", "stop"}, job : {0}] \cup [op : {"start", "cancel"}, job : Jobs]

TypeOK ==
    /\ started \in BOOLEAN /\ stopAction \in BOOLEAN /\ stops \in 0..MaxStops
    /\ tasks \in Seq(Tasks)
    /\ nextJob \in 0..JobCount
    /\ active \subseteq Jobs
    /\ connector \in [Jobs -> {"none", "posted", "connecting", "finished"}]
    /\ stopped \in BOOLEAN /\ completed \in BOOLEAN
    /\ ended \in Nat
    /\ found \subseteq Jobs

Init ==
    /\ started = FALSE /\ stopAction = FALSE /\ stops = 0
    /\ tasks = <<>> /\ nextJob = 0 /\ active = {}
    /\ connector = [j \in Jobs |-> "none"]
    /\ stopped = FALSE /\ completed = FALSE /\ ended = 0
    /\ found = {}

-----------------------------------------------------------------------------
(* The session's functions.  t and a are the tasks and the active jobs as   *)
(* the caller has left them.                                               *)

Finish ==
    /\ completed' = TRUE
    /\ stopAction' = FALSE
    /\ ended' = IF completed THEN ended ELSE ended + 1

Continue == UNCHANGED <<completed, stopAction, ended>>

(* The last job that fill() takes while a are active.                       *)
LastTaken(a) == LET wanted == nextJob + (MaxConcurrency - Cardinality(a))
                IN  IF wanted < JobCount THEN wanted ELSE JobCount

(* There is nothing active and nothing left to take.                        *)
Drained(a, taken) == a = {} /\ taken >= JobCount

Fill(t, a, c) ==
    IF stopped
    THEN /\ tasks' = t /\ active' = a /\ connector' = c
         /\ UNCHANGED nextJob
         /\ Finish
    ELSE LET last == LastTaken(a)
             new == (nextJob + 1)..last
         IN  /\ nextJob' = last
             /\ active' = a \cup new
             /\ connector' = [j \in Jobs |-> IF j \in new THEN "posted" ELSE c[j]]
             /\ tasks' = t \o [i \in 1..(last - nextJob) |-> Task("start", nextJob + i)]
             /\ IF Drained(active', nextJob') THEN Finish ELSE Continue

(* Faulty: a result is emitted although the scan was stopped.               *)
FinishConnectorEmits(j, open, t) ==
    IF connector[j] = "finished"
    THEN /\ tasks' = t
         /\ UNCHANGED <<nextJob, active, connector, found>>
         /\ Continue
    ELSE /\ found' = IF open THEN found \cup {j} ELSE found
         /\ Fill(t, active \ {j}, [connector EXCEPT ![j] = "finished"])

(* Connector::finish with the result callback of fill(); nothing happens    *)
(* the second time.                                                         *)
FinishConnector(j, open, t) ==
    IF connector[j] = "finished"
    THEN /\ tasks' = t
         /\ UNCHANGED <<nextJob, active, connector, found>>
         /\ Continue
    ELSE /\ found' = IF ~stopped /\ open THEN found \cup {j} ELSE found
         /\ Fill(t, active \ {j}, [connector EXCEPT ![j] = "finished"])

-----------------------------------------------------------------------------
(* The calls and the callbacks.                                            *)

(* What start() leaves when q is the queue that fill() is put behind.        *)
Begin(q) ==
    /\ ~started
    /\ started' = TRUE
    /\ stopAction' = TRUE
    /\ tasks' = Append(q, Task("fill", 0))
    /\ UNCHANGED <<nextJob, active, connector, stopped, completed, ended, found>>

(* start(); a second call throws and changes nothing.  Another thread may     *)
(* stop() between the assignment of stopAction and the posting of fill(): its *)
(* task is then the first one.                                             *)
Start ==
    \/ Begin(tasks) /\ UNCHANGED stops
    \/ /\ stops < MaxStops
       /\ stops' = stops + 1
       /\ Begin(Append(tasks, Task("stop", 0)))

Stop ==
    /\ stops < MaxStops
    /\ stops' = stops + 1
    /\ tasks' = IF stopAction THEN Append(tasks, Task("stop", 0)) ELSE tasks
    /\ UNCHANGED <<started, stopAction, nextJob, active, connector, stopped, completed, ended, found>>

RunFill ==
    /\ tasks # <<>> /\ Head(tasks).op = "fill"
    /\ Fill(Tail(tasks), active, connector)
    /\ UNCHANGED <<started, stops, stopped, found>>

(* stop() in the loop: every active connector is cancelled by a task.       *)
CancelTasks(a) == [i \in 1..Cardinality(a) |->
                     Task("cancel", CHOOSE j \in a : Cardinality({k \in a : k < j}) = i - 1)]

(* Faulty: the active connectors are forgotten, not cancelled.               *)
RunStopForgets ==
    /\ tasks # <<>> /\ Head(tasks).op = "stop"
    /\ tasks' = Tail(tasks)
    /\ \/ stopped /\ UNCHANGED <<stopped, active>> /\ Continue
       \/ ~stopped /\ stopped' = TRUE /\ active' = {} /\ Finish
    /\ UNCHANGED <<started, stops, nextJob, connector, found>>

(* Faulty: the cancelled connectors are not moved aside, and a second stop()   *)
(* is not ignored.                                                         *)
RunStopAgain ==
    /\ tasks # <<>> /\ Head(tasks).op = "stop"
    /\ stopped' = TRUE
    /\ tasks' = Tail(tasks) \o CancelTasks(active)
    /\ IF active = {} THEN Finish ELSE Continue
    /\ UNCHANGED <<started, stops, nextJob, active, connector, found>>

RunStop ==
    /\ tasks # <<>> /\ Head(tasks).op = "stop"
    /\ \/ /\ stopped
          /\ tasks' = Tail(tasks)
          /\ UNCHANGED <<stopped, active>>
          /\ Continue
       \/ /\ ~stopped
          /\ stopped' = TRUE
          /\ active' = {}
          /\ tasks' = Tail(tasks) \o CancelTasks(active)
          /\ IF active = {} THEN Finish ELSE Continue
    /\ UNCHANGED <<started, stops, nextJob, connector, found>>

(* Connector::startInLoop: no socket, or a connection attempt begins.       *)
RunConnector ==
    /\ tasks # <<>> /\ Head(tasks).op = "start"
    /\ LET j == Head(tasks).job
       IN  \/ FinishConnector(j, FALSE, Tail(tasks))
           \/ /\ connector[j] = "posted"
              /\ connector' = [connector EXCEPT ![j] = "connecting"]
              /\ tasks' = Tail(tasks)
              /\ UNCHANGED <<nextJob, active, found>>
              /\ Continue
    /\ UNCHANGED <<started, stops, stopped>>

(* Faulty: a cancelled connector does not call back.                        *)
RunCancelSilently ==
    /\ tasks # <<>> /\ Head(tasks).op = "cancel"
    /\ tasks' = Tail(tasks)
    /\ connector' = [connector EXCEPT ![Head(tasks).job] = "finished"]
    /\ Continue
    /\ UNCHANGED <<started, stops, stopped, nextJob, active, found>>

RunCancel ==
    /\ tasks # <<>> /\ Head(tasks).op = "cancel"
    /\ FinishConnector(Head(tasks).job, FALSE, Tail(tasks))
    /\ UNCHANGED <<started, stops, stopped>>

(* onConnection: connected, refused, or timed out (libhv's connect timeout). *)
ConnectResult(j, open) ==
    /\ connector[j] = "connecting"
    /\ FinishConnector(j, open, tasks)
    /\ UNCHANGED <<started, stops, stopped>>

RunTask == RunFill \/ RunStop \/ RunConnector \/ RunCancel

Next == Start \/ Stop \/ RunTask \/ \E j \in Jobs, open \in BOOLEAN : ConnectResult(j, open)

Spec == Init /\ [][Next]_vars

(* The loop runs its tasks, and libhv ends every connection attempt, by its *)
(* timeout if by nothing else.                                             *)
FairSpec == /\ Spec
            /\ WF_vars(RunTask)
            /\ \A j \in Jobs : WF_vars(\E open \in BOOLEAN : ConnectResult(j, open))

-----------------------------------------------------------------------------
(* Properties.                                                             *)

Open(j) == connector[j] \in {"posted", "connecting"}

(* The scanner never has more connections under way than its concurrency,   *)
(* also while a stop is cancelling them.                                    *)
ConcurrencyBounded == Cardinality({j \in Jobs : Open(j)}) <= MaxConcurrency

(* A scan that ends unstopped has tried every job to its end.               *)
EndMeansScanned ==
    ended > 0 /\ ~stopped => nextJob = JobCount /\ \A j \in Jobs : connector[j] = "finished"

(* A connection that is still under way belongs to the running scan, or its *)
(* cancellation is on its way.                                              *)
NoOrphanConnection ==
    \A j \in Jobs : Open(j) => \/ j \in active
                               \/ \E i \in DOMAIN tasks : tasks[i] = Task("cancel", j)

(* stop() is heard as long as there is something to stop.                   *)
StopReachesScan == started /\ ended = 0 => stopAction

(* Whenever stop() comes, it reaches a scan that has not ended, and no      *)
(* connection is left behind that neither the scan nor a posted             *)
(* cancellation knows of; there are never more than the options allow.      *)
ConnectionsAccounted == TypeOK /\ NoOrphanConnection /\ StopReachesScan /\ ConcurrencyBounded

(* A scan that has not ended waits for a task or for a connection attempt;   *)
(* an attempt that is only posted has its task.                             *)
NeverStalls ==
    /\ \A j \in Jobs : connector[j] = "posted" => \E i \in DOMAIN tasks : tasks[i] = Task("start", j)
    /\ started /\ ended = 0 => tasks # <<>> \/ \E j \in Jobs : connector[j] = "connecting"

(* What is left to do: four steps for a job that is not taken, one for a       *)
(* posted task, one for an active job, one for an open connection.           *)
Remaining ==
    (IF started THEN 0 ELSE 2) + 2 * (MaxStops - stops) + 4 * (JobCount - nextJob)
      + Len(tasks) + Cardinality(active) + Cardinality({j \in Jobs : Open(j)})

(* Every step leaves less to do, so a scan cannot go on for ever.             *)
WorkShrinks == [][Remaining' < Remaining]_vars

(* What the end of a scan rests on besides fairness: it never waits for       *)
(* nothing, and never goes on for ever.                                     *)
ScanProgresses == []NeverStalls /\ WorkShrinks

(* The scanner as its subscribers see it.                                   *)
Phase == CASE ~started /\ ended = 0 -> "idle"
           [] started /\ ended = 0 -> "running"
           [] started /\ ended = 1 -> "ended"
           [] OTHER -> "broken"

Flow == INSTANCE DiscoveryFlow WITH Items <- Jobs, phase <- Phase, found <- found

(* Open ports are emitted only while the scan runs, and it ends once.       *)
ImplementsFlow == Flow!Spec

(* A started scan ends, stopped or not.                                     *)
ScanEnds == Flow!Ends

=============================================================================
