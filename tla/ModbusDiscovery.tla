--------------------------- MODULE ModbusDiscovery --------------------------
(***************************************************************************)
(* ModbusDiscovery and the Session of its scan()                           *)
(* (src/modbus/ModbusDiscovery.cpp): every open port of the port scanner    *)
(* becomes one identification job per unit ID; at most MaxConcurrency       *)
(* identifiers run at a time, and each that names a thing emits it.         *)
(*                                                                         *)
(* The port scanner is any ThingDiscovery: it moves only as DiscoveryFlow  *)
(* allows, and is asked to start and to stop by this session.  An           *)
(* identifier is what its result callback makes of it: it calls back once,  *)
(* with a thing or without, unless it is cancelled (ModbusIdentifier).      *)
(***************************************************************************)
EXTENDS Naturals, Sequences, FiniteSets, Functions, FiniteSetsExt

CONSTANTS Ports,             (* open ports the port scanner may report     *)
          UnitIds,           (* options.unitIds, a sequence                *)
          MaxConcurrency,    (* options.maxConcurrency                     *)
          MaxStops           (* calls of stop(); bounds the model          *)

(* validateOptions wants a unit ID and a place.  It accepts a unit ID twice,  *)
(* which nothing in src gives it; here a job is its port and its unit.      *)
ASSUME DiscoveryAssumption ==
    /\ UnitIds \in Seq(Nat) /\ UnitIds # <<>> /\ IsInjective(UnitIds)
    /\ MaxConcurrency \in Nat \ {0}
    /\ MaxStops \in Nat

Jobs == Ports \X Range(UnitIds)

VARIABLES
    upPhase, upFound,   (* the port scanner, as DiscoveryFlow has it        *)
    upStopped,          (* portScanner->stop() has reached it               *)
    subscribed,         (* Session::subscription                            *)
    started,            (* start() was called                               *)
    running,            (* State::running                                   *)
    stopAction,         (* State::stopAction is set                         *)
    stops,              (* calls of stop() so far                           *)
    tasks,              (* the Reactor's queue of posted tasks              *)
    pending, active,    (* jobs waiting, jobs whose identifier runs         *)
    upstreamCompleted, stopped, completed,
    outcome,            (* what the flow's subscribers were told: "none",   *)
                        (* "completed" or "failed"                          *)
    found,              (* the things emitted, by job                       *)
    (* History variables, which only the properties read:                   *)
    begun,              (* jobs whose identifier has been started           *)
    done,               (* jobs whose identifier has called back            *)
    cancelled,          (* jobs whose identifier was told to stop: its      *)
                        (* exchange is closed by a task of its own later,   *)
                        (* TcpExchange::cancel (ModbusIdentifier)           *)
    stoppedLate         (* the stop found the port scan over, and           *)
                        (* identifiers running                              *)

history == <<begun, done, cancelled, stoppedLate>>
upstream == <<upPhase, upFound, upStopped>>
handle == <<started, running, stopAction, stops>>
session == <<subscribed, pending, active, upstreamCompleted, stopped, completed>>
vars == <<upstream, handle, session, tasks, outcome, found, history>>

TypeOK ==
    /\ upPhase \in {"idle", "running", "ended", "failed"} /\ upFound \subseteq Ports
    /\ {upStopped, subscribed, started, running, stopAction} \subseteq BOOLEAN
    /\ {upstreamCompleted, stopped, completed} \subseteq BOOLEAN
    /\ stops \in 0..MaxStops
    /\ tasks \in Seq({"begin", "stop"})
    /\ pending \in Seq(Jobs) /\ active \subseteq Jobs /\ found \subseteq Jobs
    /\ outcome \in {"none", "completed", "failed"}
    /\ {begun, done, cancelled} \subseteq SUBSET Jobs /\ stoppedLate \in BOOLEAN

Init ==
    /\ upPhase = "idle" /\ upFound = {} /\ upStopped = FALSE
    /\ started = FALSE /\ running = FALSE /\ stopAction = FALSE /\ stops = 0
    /\ subscribed = FALSE /\ pending = <<>> /\ active = {}
    /\ upstreamCompleted = FALSE /\ stopped = FALSE /\ completed = FALSE
    /\ tasks = <<>> /\ outcome = "none" /\ found = {}
    /\ begun = {} /\ done = {} /\ cancelled = {} /\ stoppedLate = FALSE

Upstream == INSTANCE DiscoveryFlow WITH Items <- Ports, phase <- upPhase, found <- upFound

-----------------------------------------------------------------------------
(* The session's functions.  p and a are the waiting and the running jobs   *)
(* as the caller has left them, up whether the upstream has completed.      *)

Finish(how) ==
    IF completed
    THEN UNCHANGED <<completed, subscribed, stopAction, running, outcome>>
    ELSE /\ completed' = TRUE
         /\ subscribed' = FALSE
         /\ stopAction' = FALSE
         /\ running' = FALSE
         /\ outcome' = how

(* Faulty: identifiers that still run are overlooked.                       *)
MaybeCompleteEarly(p, a, up) ==
    IF completed \/ ~up \/ p # <<>>
    THEN UNCHANGED <<completed, subscribed, stopAction, running, outcome>>
    ELSE Finish("completed")

MaybeComplete(p, a, up) ==
    IF completed \/ ~up \/ p # <<>> \/ a # {}
    THEN UNCHANGED <<completed, subscribed, stopAction, running, outcome>>
    ELSE Finish("completed")

Fill(p, a) ==
    LET room == IF completed \/ stopped \/ Cardinality(a) >= MaxConcurrency
                THEN 0 ELSE Min({Len(p), MaxConcurrency - Cardinality(a)})
        first == {p[i] : i \in 1..room}
    IN  /\ active' = a \cup first
        /\ begun' = begun \cup first
        /\ pending' = SubSeq(p, room + 1, Len(p))
        /\ MaybeComplete(pending', active', upstreamCompleted)

-----------------------------------------------------------------------------
(* The calls and the callbacks.                                            *)

(* start(): scan() is subscribed, and its session begins in the loop.  The   *)
(* SunSpec discovery, its only caller, starts it once.                      *)
Start ==
    /\ ~started
    /\ started' = TRUE /\ running' = TRUE /\ stopAction' = TRUE
    /\ tasks' = Append(tasks, "begin")
    /\ UNCHANGED <<upstream, stops, session, outcome, found, history>>

Stop ==
    /\ stops < MaxStops
    /\ stops' = stops + 1
    /\ tasks' = IF stopAction THEN Append(tasks, "stop") ELSE tasks
    /\ UNCHANGED <<upstream, started, running, stopAction, session, outcome, found, history>>

(* The task of Session::start: subscribe, then start the port scanner.      *)
Begin ==
    /\ tasks # <<>> /\ Head(tasks) = "begin"
    /\ tasks' = Tail(tasks)
    /\ \/ /\ stopped
          /\ upstreamCompleted' = TRUE
          /\ Finish("completed")
          /\ UNCHANGED upstream
       \/ /\ ~stopped
          /\ subscribed' = TRUE
          /\ Upstream!Start
          /\ UNCHANGED <<upStopped, upstreamCompleted, completed, stopAction, running, outcome>>
    /\ UNCHANGED <<started, stops, pending, active, stopped, found, history>>

(* Faulty: the session does not remember that it was stopped.               *)
StopInLoopForgets ==
    /\ tasks # <<>> /\ Head(tasks) = "stop"
    /\ tasks' = Tail(tasks)
    /\ pending' = <<>> /\ active' = {} /\ upStopped' = TRUE
    /\ IF active = {} THEN MaybeComplete(<<>>, {}, upstreamCompleted)
       ELSE UNCHANGED <<completed, subscribed, stopAction, running, outcome>>
    /\ cancelled' = cancelled \cup active
    /\ UNCHANGED <<upPhase, upFound, started, stops, found, stopped, upstreamCompleted, begun,
                   done, stoppedLate>>

(* Faulty: stopping also ends the subscription to the port scanner.         *)
StopInLoopUnsubscribes ==
    /\ tasks # <<>> /\ Head(tasks) = "stop"
    /\ tasks' = Tail(tasks)
    /\ stopped' = TRUE /\ pending' = <<>> /\ active' = {} /\ upStopped' = TRUE
    /\ subscribed' = FALSE /\ cancelled' = cancelled \cup active
    /\ UNCHANGED <<upPhase, upFound, started, stops, found, upstreamCompleted, completed,
                   stopAction, running, outcome, begun, done, stoppedLate>>

(* Session::stop.  A cancelled identifier forgets its result callback, so   *)
(* nothing is heard of it again.                                           *)
StopInLoop ==
    /\ tasks # <<>> /\ Head(tasks) = "stop"
    /\ tasks' = Tail(tasks)
    /\ \/ /\ stopped
          /\ UNCHANGED <<session, upStopped, stopAction, running, outcome, cancelled, stoppedLate>>
       \/ /\ ~stopped
          /\ stopped' = TRUE
          /\ pending' = <<>>
          /\ active' = {} /\ cancelled' = cancelled \cup active
          /\ stoppedLate' = (upstreamCompleted /\ active # {})
          /\ upStopped' = TRUE
          /\ UNCHANGED upstreamCompleted
          /\ IF active = {}
             THEN MaybeComplete(<<>>, {}, upstreamCompleted)
             ELSE UNCHANGED <<completed, subscribed, stopAction, running, outcome>>
    /\ UNCHANGED <<upPhase, upFound, started, stops, found, begun, done>>

(* Faulty: only the first unit of a port is queued.                          *)
JobsOfFirstUnit(port) == <<<<port, UnitIds[1]>>>>

JobsOf(port) == [i \in DOMAIN UnitIds |-> <<port, UnitIds[i]>>]

(* The port scanner reports an open port; Session::enqueue.                 *)
PortFound(port) ==
    /\ port \notin upFound
    /\ Upstream!Emit(port)
    /\ IF subscribed /\ ~stopped
       THEN Fill(pending \o JobsOf(port), active)
       ELSE UNCHANGED <<pending, active, begun, completed, subscribed, stopAction, running,
                        outcome>>
    /\ UNCHANGED <<upStopped, started, stops, upstreamCompleted, stopped, tasks, found, done,
                   cancelled, stoppedLate>>

(* The port scanner completes; onUpstreamCompleted.                         *)
PortsEnd ==
    /\ Upstream!End
    /\ IF subscribed
       THEN /\ upstreamCompleted' = TRUE
            /\ MaybeComplete(pending, active, TRUE)
       ELSE UNCHANGED <<upstreamCompleted, completed, subscribed, stopAction, running, outcome>>
    /\ UNCHANGED <<upStopped, started, stops, pending, active, stopped, tasks, found, history>>

(* The port scanner's flow fails; Session::fail.                            *)
PortsFail ==
    /\ Upstream!Fail
    /\ IF subscribed /\ ~completed
       THEN /\ stopped' = TRUE /\ pending' = <<>>
            /\ active' = {} /\ cancelled' = cancelled \cup active
            /\ Finish("failed")
       ELSE UNCHANGED <<stopped, pending, active, cancelled, completed, subscribed, stopAction,
                        running, outcome>>
    /\ UNCHANGED <<upStopped, started, stops, upstreamCompleted, tasks, found, begun, done,
                   stoppedLate>>

(* An identifier calls back; oneFinished.                                   *)
OneFinished(job, named) ==
    /\ job \in active
    /\ found' = IF ~stopped /\ named THEN found \cup {job} ELSE found
    /\ done' = done \cup {job}
    /\ Fill(pending, active \ {job})
    /\ UNCHANGED <<upstream, started, stops, upstreamCompleted, stopped, tasks, cancelled,
                   stoppedLate>>

RunTask == Begin \/ StopInLoop

Next == \/ Start \/ Stop \/ RunTask
        \/ \E port \in Ports : PortFound(port)
        \/ PortsEnd \/ PortsFail
        \/ \E job \in Jobs, named \in BOOLEAN : OneFinished(job, named)

Spec == Init /\ [][Next]_vars

(* The loop runs its tasks; the port scanner ends (PortScanner!ScanEnds);   *)
(* an identifier that is not cancelled ends, by its timeouts.               *)
FairSpec == /\ Spec
            /\ WF_vars(RunTask)
            /\ WF_vars(PortsEnd)
            /\ \A job \in Jobs : WF_vars(\E named \in BOOLEAN : OneFinished(job, named))

-----------------------------------------------------------------------------
(* Properties.                                                             *)

(* At most MaxConcurrency identifiers run, and a job waits only while that   *)
(* many do: no free slot is left idle.                                      *)
SlotsUsed ==
    /\ Cardinality(active) <= MaxConcurrency
    /\ pending # <<>> => Cardinality(active) = MaxConcurrency

JobsReported == upFound \X Range(UnitIds)

(* A discovery that completes unstopped has identified every unit of every   *)
(* port that was reported, after the end of the port scan; nothing waits and *)
(* nothing runs once it is over.                                            *)
NothingLeft ==
    /\ completed => pending = <<>> /\ active = {} /\ ~running /\ ~subscribed
    /\ outcome = "completed" /\ ~stopped =>
          upstreamCompleted /\ upPhase = "ended" /\ done = JobsReported

(* No job is identified twice: what waits does so once and has not begun,    *)
(* and what has begun runs, is done or was cancelled.                       *)
JobsOnce ==
    /\ IsInjective(pending)
    /\ Range(pending) \cap begun = {}
    /\ active \cap done = {} /\ cancelled \cap (active \cup done) = {}

(* None is overlooked: until a stop or a failure each unit of each port      *)
(* reported waits or has begun, and whatever has begun still runs, has      *)
(* called back, with a thing or without, or was cancelled by that stop.     *)
NoneOverlooked ==
    /\ ~stopped => Range(pending) \cup begun = JobsReported
    /\ begun = active \cup done \cup cancelled
    /\ begun \subseteq JobsReported /\ found \subseteq done
    /\ cancelled # {} => stopped

(* Every job of every port reported is accounted for once, and a discovery  *)
(* that completes unstopped has done all of them: no unit is identified      *)
(* twice and none is overlooked, in whatever order ports and results arrive, *)
(* and no place for an identifier is exceeded or left idle.                 *)
JobsAccounted == TypeOK /\ JobsOnce /\ NoneOverlooked /\ NothingLeft /\ SlotsUsed

(* A discovery that has not ended waits for its first task, for the port scan *)
(* or for an identifier, unless its stop came after the port scan and before *)
(* the last identifier.                                                    *)
NeverStalls ==
    started /\ outcome = "none" =>
        \/ \E i \in DOMAIN tasks : tasks[i] = "begin"
        \/ subscribed /\ upPhase = "running"
        \/ active # {}
        \/ stoppedLate

(* The jobs are accounted for, and when all are done, in whatever order, the  *)
(* discovery is over, except after a stop that came too late.                *)
EndsWhenIdentified == JobsAccounted /\ NeverStalls

Phase == CASE ~started -> "idle"
           [] started /\ outcome = "none" -> "running"
           [] outcome = "completed" -> "ended"
           [] OTHER -> "failed"

Flow == INSTANCE DiscoveryFlow WITH Items <- Jobs, phase <- Phase, found <- found

(* Things are emitted only while the discovery runs, and its flow ends once. *)
ImplementsFlow == Flow!Spec

(* Once the stop has been run by the loop no thing is emitted, although      *)
(* ports are still reported and identifiers were under way.                 *)
SilentOnceStopped == [][upStopped => found' = found]_vars

(* A discovery that is never stopped ends.                                  *)
UnstoppedEnds == (Phase = "running") ~> (Phase # "running" \/ stops > 0)

(* A stop that finds the port scan still under way ends the discovery.       *)
StopDuringPortScanEnds ==
    (stopped /\ Phase = "running" /\ upPhase = "running") ~> (Phase # "running")

(* A discovery ends unless it is stopped after the port scan is over and     *)
(* while units are being identified: the cancelled identifiers are silent,  *)
(* and only the end of the port scan can still complete it then.            *)
EndsUnlessStoppedLate == UnstoppedEnds /\ StopDuringPortScanEnds
=============================================================================
