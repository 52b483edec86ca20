-------------------------- MODULE SunspecDiscovery --------------------------
(***************************************************************************)
(* SunspecDiscovery and its Run (src/sunspec/SunspecDiscovery.cpp): every   *)
(* candidate of the Modbus discovery below gets an EndpointScan, that is, a *)
(* ModbusSession and a SunspecScanner under a SunspecScanControl; the flow  *)
(* completes when the Modbus discovery has and every scan has.              *)
(*                                                                         *)
(* The Modbus discovery is any ThingDiscovery and moves as DiscoveryFlow    *)
(* allows.  A scan is what its callbacks make of it: its first step is a    *)
(* task posted to the loop, it emits at most one thing, ends once, and ends *)
(* synchronously when its control is cancelled (SunspecScanner).            *)
(***************************************************************************)
EXTENDS FiniteSets

CONSTANT Candidates          (* the things the Modbus discovery may report *)

VARIABLES
    upPhase, upFound,   (* the Modbus discovery, as DiscoveryFlow has it    *)
    upStopped,          (* modbusDiscovery->stop() was called               *)
    loopRuns,           (* the Reactor's loop is running                    *)
    queued,             (* start() before the loop ran has posted startInLoop *)
    started, stopRequested,  (* State::started, State::stopping             *)
    loopEntered,        (* State::loopEntered                               *)
    gone,               (* the object is destroyed, and its State with it   *)
    stopping, failing, modbusCompleted,   (* the fields of Run              *)
    scan,               (* what each candidate's scan is doing              *)
    cancelled,          (* candidates whose control was cancelled           *)
    open,               (* candidates whose session is not closed           *)
    outcome,            (* what subscribers were told; State::terminal when *)
                        (* it is not "none"                                 *)
    found               (* the candidates emitted as SunSpec things         *)

upstream == <<upPhase, upFound, upStopped>>
handle == <<loopRuns, queued, started, stopRequested, loopEntered, gone>>
run == <<stopping, failing, modbusCompleted, scan, cancelled, open>>
vars == <<upstream, handle, run, outcome, found>>

TypeOK ==
    /\ upPhase \in {"idle", "running", "ended", "failed"} /\ upFound \subseteq Candidates
    /\ {upStopped, loopRuns, queued, started, stopRequested, loopEntered, gone} \subseteq BOOLEAN
    /\ {stopping, failing, modbusCompleted} \subseteq BOOLEAN
    /\ scan \in [Candidates -> {"none", "posted", "running", "completed"}]
    /\ cancelled \cup open \subseteq {c \in Candidates : scan[c] # "none"}
    /\ outcome \in {"none", "completed", "failed"} /\ found \subseteq Candidates

Init ==
    /\ upPhase = "idle" /\ upFound = {} /\ upStopped = FALSE
    /\ loopRuns = FALSE /\ queued = FALSE /\ started = FALSE
    /\ stopRequested = FALSE /\ loopEntered = FALSE /\ gone = FALSE
    /\ stopping = FALSE /\ failing = FALSE /\ modbusCompleted = FALSE
    /\ scan = [c \in Candidates |-> "none"] /\ cancelled = {} /\ open = {}
    /\ outcome = "none" /\ found = {}

Upstream == INSTANCE DiscoveryFlow WITH Items <- Candidates, phase <- upPhase, found <- upFound

-----------------------------------------------------------------------------
(* The Run's functions.  s and o are the scans and the open sessions as the *)
(* caller has left them.  Each finds nothing to do once the State is gone.  *)

Terminal == outcome # "none"

Scanned(s) == \A c \in Candidates : s[c] \in {"none", "completed"}

(* Faulty: a run that has failed may still complete.                        *)
MaybeCompleteAgain(s, o, up) ==
    IF gone \/ ~up \/ ~Scanned(s)
    THEN outcome' = outcome /\ open' = o
    ELSE outcome' = "completed" /\ open' = {}

(* maybeComplete and complete, up whether the upstream has completed.       *)
MaybeComplete(s, o, up) ==
    IF gone \/ failing \/ Terminal \/ ~up \/ ~Scanned(s)
    THEN outcome' = outcome /\ open' = o
    ELSE outcome' = "completed" /\ open' = {}

(* Cancelling every control: a scan whose first step is still posted hears  *)
(* of it only then.                                                        *)
Opened == {c \in Candidates : scan[c] # "none"}

Cancelled == [c \in Candidates |-> IF scan[c] = "running" THEN "completed" ELSE scan[c]]

Fail ==
    IF gone \/ failing \/ Terminal
    THEN UNCHANGED <<stopping, failing, scan, cancelled, open, upStopped, outcome>>
    ELSE /\ failing' = TRUE /\ stopping' = TRUE
         /\ scan' = Cancelled /\ cancelled' = Opened /\ open' = {}
         /\ upStopped' = TRUE
         /\ outcome' = "failed"

-----------------------------------------------------------------------------
(* The owner's calls.                                                      *)

LoopStarts ==
    /\ ~loopRuns /\ loopRuns' = TRUE
    /\ UNCHANGED <<upstream, queued, started, stopRequested, loopEntered, gone, run, outcome,
                   found>>

(* Run::startInLoop: subscribe to the Modbus discovery, then start it.      *)
Enter ==
    /\ loopEntered' = TRUE
    /\ IF Terminal \/ stopRequested
       THEN /\ outcome' = IF failing \/ Terminal THEN outcome ELSE "completed"
            /\ UNCHANGED upstream
       ELSE Upstream!Start /\ UNCHANGED <<upStopped, outcome>>

Start ==
    /\ ~gone /\ ~started /\ started' = TRUE
    /\ \/ /\ loopRuns
          /\ Enter
          /\ UNCHANGED queued
       \/ /\ ~loopRuns /\ queued' = TRUE
          /\ UNCHANGED <<upstream, loopEntered, outcome>>
    /\ UNCHANGED <<loopRuns, stopRequested, gone, run, found>>

RunQueuedStart ==
    /\ queued /\ loopRuns
    /\ queued' = FALSE
    /\ \/ ~gone /\ Enter
       \/ gone /\ UNCHANGED <<upstream, loopEntered, outcome>>
    /\ UNCHANGED <<loopRuns, started, stopRequested, gone, run, found>>

(* stop() before the loop runs: remembered, for startInLoop to find.        *)
StopBeforeLoop ==
    /\ ~gone /\ ~loopRuns /\ started /\ ~Terminal /\ ~stopRequested
    /\ stopRequested' = TRUE
    /\ UNCHANGED <<upstream, loopRuns, queued, started, loopEntered, gone, run, outcome, found>>

(* stop() on the loop: Run::stopInLoop cancels the scans, which may end the *)
(* flow there and then, closes the sessions, and stops the Modbus discovery. *)
StopRun ==
    /\ stopRequested' = TRUE
    /\ stopping' = TRUE
    /\ scan' = Cancelled /\ cancelled' = Opened
    /\ IF Cancelled # scan THEN MaybeComplete(Cancelled, {}, modbusCompleted)
                           ELSE outcome' = outcome /\ open' = {}
    /\ upStopped' = TRUE
    /\ UNCHANGED <<upPhase, upFound, loopRuns, queued, started, loopEntered, failing,
                   modbusCompleted>>

StopOnLoop ==
    /\ ~gone /\ loopRuns /\ started /\ ~Terminal /\ ~stopRequested
    /\ StopRun
    /\ UNCHANGED <<gone, found>>

(* The destructor, on the loop's thread or before the loop runs.            *)
Destroy ==
    /\ ~gone /\ gone' = TRUE
    /\ IF loopRuns /\ started /\ ~Terminal /\ ~stopRequested
       THEN StopRun
       ELSE UNCHANGED <<upstream, loopRuns, queued, started, stopRequested, loopEntered, run,
                        outcome>>
    /\ UNCHANGED found

-----------------------------------------------------------------------------
(* The callbacks of the Modbus discovery.                                  *)

Ignoring == gone \/ stopping \/ failing \/ Terminal

OpenEndpoint(c) ==
    IF Ignoring THEN UNCHANGED <<scan, open>>
                ELSE scan' = [scan EXCEPT ![c] = "posted"] /\ open' = open \cup {c}

UpstreamEmits(c) ==
    /\ c \notin upFound /\ Upstream!Emit(c)
    /\ OpenEndpoint(c)
    /\ UNCHANGED <<upStopped, handle, stopping, failing, modbusCompleted, cancelled, outcome, found>>

(* A candidate without an address or a port, which ModbusDiscovery never     *)
(* reports: the constructor of its session throws.                          *)
UpstreamEmitsUnusable(c) ==
    /\ c \notin upFound /\ Upstream!Emit(c)
    /\ ~Ignoring /\ Fail
    /\ UNCHANGED <<handle, modbusCompleted, found>>

UpstreamEnds ==
    /\ Upstream!End
    /\ modbusCompleted' = TRUE
    /\ MaybeComplete(scan, open, TRUE)
    /\ UNCHANGED <<upStopped, handle, stopping, failing, scan, cancelled, found>>

UpstreamFails ==
    /\ Upstream!Fail
    /\ Fail
    /\ UNCHANGED <<handle, modbusCompleted, found>>

(* The last identification reports its candidate and ends the Modbus flow.  *)
UpstreamEmitsAndEnds(c) ==
    /\ c \notin upFound /\ Upstream!EmitAndEnd(c)
    /\ modbusCompleted' = TRUE
    /\ \/ Ignoring /\ MaybeComplete(scan, open, TRUE) /\ UNCHANGED scan
       \/ ~Ignoring /\ OpenEndpoint(c) /\ UNCHANGED outcome
    /\ UNCHANGED <<upStopped, handle, stopping, failing, cancelled, found>>

-----------------------------------------------------------------------------
(* The callbacks of the scans.                                             *)

(* Faulty: the end of a scan does not end the run.                          *)
ScannerCompletedAlone(c) ==
    /\ scan' = [scan EXCEPT ![c] = "completed"]
    /\ open' = open \ {c}
    /\ UNCHANGED outcome

(* scannerCompleted: close the endpoint's sessions.                         *)
ScannerCompleted(c) ==
    /\ scan' = [scan EXCEPT ![c] = "completed"]
    /\ MaybeComplete(scan', open \ {c}, modbusCompleted)

(* Faulty: the control is bound, but not asked whether it was cancelled.    *)
ScanBeginsDeaf(c) ==
    /\ loopRuns /\ scan[c] = "posted"
    /\ scan' = [scan EXCEPT ![c] = "running"]
    /\ UNCHANGED <<open, outcome>>
    /\ UNCHANGED <<upstream, handle, stopping, failing, modbusCompleted, cancelled, found>>

(* The scan's first step binds its control, and ends it if that was         *)
(* cancelled meanwhile.                                                    *)
ScanBegins(c) ==
    /\ loopRuns /\ scan[c] = "posted"
    /\ \/ /\ c \notin cancelled
          /\ scan' = [scan EXCEPT ![c] = "running"]
          /\ UNCHANGED <<open, outcome>>
       \/ c \in cancelled /\ ScannerCompleted(c)
    /\ UNCHANGED <<upstream, handle, stopping, failing, modbusCompleted, cancelled, found>>

(* The scan ends, having emitted a thing or not.                            *)
ScanEnds(c, named) ==
    /\ scan[c] = "running"
    /\ found' = IF named /\ ~Ignoring THEN found \cup {c} ELSE found
    /\ ScannerCompleted(c)
    /\ UNCHANGED <<upstream, handle, stopping, failing, modbusCompleted, cancelled>>

(* A subscriber that is given the thing calls stop() there and then, before *)
(* the scan that found it has completed.                                    *)
FoundThenStop(c) ==
    /\ scan[c] = "running" /\ ~Ignoring /\ ~stopRequested
    /\ found' = found \cup {c}
    /\ StopRun
    /\ UNCHANGED gone

(* The scan's flow fails: no session to go on with.                         *)
ScanFails(c) ==
    /\ scan[c] = "running"
    /\ IF Ignoring
       THEN ScannerCompleted(c) /\ UNCHANGED <<stopping, failing, cancelled, upStopped>>
       ELSE Fail
    /\ UNCHANGED <<upPhase, upFound, handle, modbusCompleted, found>>

ScanMoves(c) == \/ ScanBegins(c) \/ ScanFails(c) \/ FoundThenStop(c)
                \/ \E named \in BOOLEAN : ScanEnds(c, named)

Next == \/ LoopStarts \/ Start \/ RunQueuedStart \/ StopBeforeLoop \/ StopOnLoop \/ Destroy
        \/ \E c \in Candidates : \/ UpstreamEmits(c) \/ UpstreamEmitsAndEnds(c)
                               \/ UpstreamEmitsUnusable(c) \/ ScanMoves(c)
        \/ UpstreamEnds \/ UpstreamFails

Spec == Init /\ [][Next]_vars

(* main() runs the loop; the loop runs what is posted to it; the Modbus     *)
(* discovery ends; a scan ends, since every read of it does                 *)
(* (ModbusSession!EveryReadEnds) and maxModels bounds how many there are.   *)
FairSpec == /\ Spec
            /\ WF_vars(LoopStarts) /\ WF_vars(RunQueuedStart) /\ WF_vars(UpstreamEnds)
            /\ \A c \in Candidates : WF_vars(ScanMoves(c))

-----------------------------------------------------------------------------
(* Properties.                                                             *)

(* A run that completes without a stop has scanned every candidate the      *)
(* Modbus discovery reported, and that discovery is over.                   *)
CompleteMeansScanned ==
    outcome = "completed" /\ ~stopRequested =>
        upPhase = "ended" /\ \A c \in upFound : scan[c] = "completed"

(* A run that has not ended waits for its start, for the Modbus discovery or  *)
(* for a scan; whichever comes last ends it.                                 *)
NeverStalls ==
    started /\ outcome = "none" /\ ~gone =>
        queued \/ upPhase = "running" \/ \E c \in Candidates : scan[c] \in {"posted", "running"}

(* The run ends when, and only when, the discovery below and every scan have, *)
(* in whatever order they do; a stop is an end of its own.                   *)
EndsWhenScanned == CompleteMeansScanned /\ NeverStalls

(* Stopping, failing and completing each leave no session open, and none is *)
(* opened afterwards.                                                       *)
NoSessionLeftOpen == Ignoring => open = {}

(* Every open session belongs to a scan that will close it.                 *)
SessionsOwned == \A c \in open : scan[c] \in {"posted", "running"}

(* After a stop, a failure or the destructor no scan runs, one that is still *)
(* posted has been cancelled and ends with its first step, and the Modbus   *)
(* discovery below is over or has been told to stop.                        *)
StopReachesScans ==
    Ignoring => /\ \A c \in Candidates : /\ scan[c] # "running"
                                         /\ scan[c] = "posted" => c \in cancelled
                /\ upStopped \/ upPhase # "running"

(* However a run ends, and whatever the Modbus discovery still reports,     *)
(* no device is left with a connection that nothing closes, and neither a    *)
(* scan nor the discovery below is left running.                            *)
NothingLeftRunning == TypeOK /\ SessionsOwned /\ NoSessionLeftOpen /\ StopReachesScans

Phase == CASE ~started -> "idle"
           [] started /\ outcome = "none" -> "running"
           [] outcome = "completed" -> "ended"
           [] OTHER -> "failed"

Flow == INSTANCE DiscoveryFlow WITH Items <- Candidates, phase <- Phase, found <- found

(* Things are emitted only while the discovery runs, and its flow ends once. *)
ImplementsFlow == Flow!Spec

(* The discovery ends, stopped or not, provided the one below does, unless   *)
(* it is destroyed before.                                                  *)
DiscoveryEnds == (Phase = "running") ~> (Phase # "running" \/ gone)
=============================================================================
