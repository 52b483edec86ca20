---------------------------- MODULE SunspecChain ----------------------------
(***************************************************************************)
(* The SunSpec chain as DiscoveryService::startSunspec wires it: a          *)
(* SunspecDiscovery whose Modbus discovery is ModbusDiscovery, with the     *)
(* port scanner below that left to its contract.  The Modbus discovery's    *)
(* flow and the SunSpec run meet in one callback of the loop: a thing       *)
(* emitted below opens an endpoint above, and the end of the flow below is  *)
(* upstreamCompleted above.  The variables of ModbusDiscovery keep their    *)
(* names, those of SunspecDiscovery carry the prefix ss.                    *)
(*                                                                         *)
(* A chain is also retired (stopSunspecChain, for the next scan or at the   *)
(* end): it is stopped, and its objects are handed to one more task of the  *)
(* loop, which destroys them.                                              *)
(***************************************************************************)
EXTENDS ModbusDiscovery

VARIABLES ssUpStopped, ssLoopRuns, ssQueued, ssStarted, ssStopRequested, ssLoopEntered,
          ssGone, ssStopping, ssFailing, ssModbusCompleted, ssScan, ssCancelled, ssOpen,
          ssOutcome, ssFound,
          retired,      (* "held" while the keep-alive task has the objects,  *)
                        (* "released" once it has destroyed them            *)
          ahead,        (* tasks of the Modbus discovery queued before it     *)
          scanAhead     (* those queued before the first of the port scanner *)

ssVars == <<ssUpStopped, ssLoopRuns, ssQueued, ssStarted, ssStopRequested, ssLoopEntered,
            ssGone, ssStopping, ssFailing, ssModbusCompleted, ssScan, ssCancelled, ssOpen,
            ssOutcome, ssFound>>

Sunspec == INSTANCE SunspecDiscovery WITH
    Candidates <- Jobs, upPhase <- Phase, upFound <- found, upStopped <- ssUpStopped,
    loopRuns <- ssLoopRuns, queued <- ssQueued, started <- ssStarted,
    stopRequested <- ssStopRequested, loopEntered <- ssLoopEntered, gone <- ssGone, stopping <- ssStopping,
    failing <- ssFailing, modbusCompleted <- ssModbusCompleted, scan <- ssScan,
    cancelled <- ssCancelled, open <- ssOpen, outcome <- ssOutcome, found <- ssFound

retirement == <<retired, ahead>>

Less(n) == Max({n - 1, 0})

ChainTypeOK == TypeOK /\ Sunspec!TypeOK /\ retired \in {"no", "held", "released"} 
               /\ ahead \in Nat /\ scanAhead \in Nat

ChainInit == Init /\ Sunspec!Init /\ retired = "no" /\ ahead = 0 /\ scanAhead = 0

-----------------------------------------------------------------------------
(* The owner's calls on the SunSpec discovery, each with the call on the     *)
(* Modbus discovery that it makes, if it makes one.                         *)

LoopCalls ==
    /\ \/ UNCHANGED vars /\ (Sunspec!LoopStarts \/ Sunspec!RunQueuedStart)
       \/ Start /\ Sunspec!RunQueuedStart
    /\ UNCHANGED <<retirement, scanAhead>>

StopSunspec ==
    \/ Stop /\ Sunspec!StopOnLoop
    \/ UNCHANGED vars /\ Sunspec!StopBeforeLoop

OwnerCalls ==
    /\ retired = "no"
    /\ \/ Start /\ Sunspec!Start
       \/ UNCHANGED vars /\ Sunspec!Start
       \/ StopSunspec
    /\ UNCHANGED <<retirement, scanAhead>>

(* Faulty: the objects are destroyed as soon as they are no longer needed.  *)
RetireAtOnce ==
    /\ retired = "no" /\ ssStarted
    /\ \/ StopSunspec
       \/ (ssStopRequested \/ ssOutcome # "none") /\ UNCHANGED <<vars, ssVars>>
    /\ retired' = "held" /\ ahead' = 0 /\ UNCHANGED scanAhead

(* stopSunspecChain: stop, which does nothing to a discovery that is over    *)
(* or stopped already, then the task that keeps the objects alive.          *)
Retire ==
    /\ retired = "no" /\ ssStarted
    /\ \/ StopSunspec
       \/ (ssStopRequested \/ ssOutcome # "none") /\ UNCHANGED <<vars, ssVars>>
    /\ retired' = "held" /\ ahead' = Len(tasks') /\ UNCHANGED scanAhead

(* The keep-alive task: the destructors of both discoveries, each of which   *)
(* stops what it finds running.                                            *)
Release ==
    /\ retired = "held" /\ ahead = 0
    /\ retired' = "released"
    /\ Stop /\ Sunspec!Destroy
    /\ UNCHANGED <<ahead, scanAhead>>

-----------------------------------------------------------------------------
(* What the loop runs.                                                     *)

(* A scan that fails stops the Modbus discovery, and so does a subscriber    *)
(* that stops the SunSpec discovery when it is given a thing.               *)
ScanCallback(job) ==
    /\ \/ UNCHANGED vars /\ Sunspec!ScanMoves(job) /\ ssUpStopped' = ssUpStopped
       \/ Stop /\ Sunspec!ScanMoves(job) /\ ssUpStopped' # ssUpStopped
    /\ UNCHANGED <<retirement, scanAhead>>

(* A step of the Modbus discovery, heard by the SunSpec run when it emits a  *)
(* thing or ends the flow.  Whether it moves only as a flow may is for      *)
(* ImplementsFlow to say, and not required here.                            *)
Heard ==
    \/ (Flow!Next => UNCHANGED <<Phase, found>>) /\ UNCHANGED ssVars
    \/ \E job \in Jobs : Sunspec!UpstreamEmits(job) \/ Sunspec!UpstreamEmitsAndEnds(job)
    \/ Sunspec!UpstreamEnds \/ Sunspec!UpstreamFails

(* A task; the one that starts the port scanner posts the port scanner's     *)
(* first task behind those that wait by then.                              *)
ModbusTask ==
    /\ RunTask /\ Heard
    /\ ahead' = Less(ahead)
    /\ scanAhead' = IF upPhase' # upPhase THEN Len(tasks') ELSE Less(scanAhead)
    /\ UNCHANGED retired

PortScanEnds == scanAhead = 0 /\ PortsEnd /\ Heard /\ UNCHANGED <<retirement, scanAhead>>
PortScanMoves ==
    /\ scanAhead = 0
    /\ (\E port \in Ports : PortFound(port)) \/ PortsFail
    /\ Heard /\ UNCHANGED <<retirement, scanAhead>>

Identified(job) == (\E named \in BOOLEAN : OneFinished(job, named)) /\ Heard
                   /\ UNCHANGED <<retirement, scanAhead>>

ChainNext ==
    \/ LoopCalls \/ OwnerCalls \/ Retire \/ Release
    \/ ModbusTask \/ PortScanMoves \/ PortScanEnds
    \/ \E job \in Jobs : Identified(job) \/ ScanCallback(job)

chainVars == <<vars, ssVars, retirement, scanAhead>>

ChainSpec == ChainInit /\ [][ChainNext]_chainVars

(* The fairness of ModbusDiscovery and of SunspecDiscovery, except that      *)
(* nothing is assumed of the Modbus discovery's flow: it is the real one.    *)
ChainFairSpec ==
    /\ ChainSpec
    /\ WF_chainVars(LoopCalls)
    /\ WF_chainVars(ModbusTask) /\ WF_chainVars(PortScanEnds) /\ WF_chainVars(Release)
    /\ \A job \in Jobs : WF_chainVars(Identified(job)) /\ WF_chainVars(ScanCallback(job))

-----------------------------------------------------------------------------
(* Properties.                                                             *)

(* Once the objects of a retired chain are destroyed, none of its tasks     *)
(* still queued goes on to use the port scanner or the Modbus discovery     *)
(* ("the ModbusDiscovery/PortScanner they depend on must stay alive until   *)
(* that queued shutdown has actually executed",                             *)
(* src/bootstrap/DiscoveryService.cpp:98), and nobody was forgotten: no job  *)
(* waits, every identifier ever started has called back or was cancelled,    *)
(* a port scan that still runs was told to stop, and every session of a     *)
(* scan is closed.  Exchanges and connectors may still be open: what cancels *)
(* them are tasks of their own, queued behind the release, which keep alive *)
(* what they need (ModbusIdentifier!ExchangeOwned,                          *)
(* PortScanner!NoOrphanConnection).                                         *)
ReleasedUntouched ==
    /\ ChainTypeOK
    /\ retired = "released" =>
           /\ tasks # <<>> => stopped
           /\ pending = <<>> /\ begun = done \cup cancelled
           /\ upPhase = "running" => upStopped
           /\ ssOpen = {}

(* A chain that is never stopped ends: the Modbus discovery because the port *)
(* scan and every identifier do, the SunSpec discovery because the Modbus    *)
(* discovery and every scan do.  One that is stopped ends below unless the   *)
(* stop comes after the port scan and before the last identification.       *)
ChainEndsUnlessStoppedLate ==
    /\ EndsUnlessStoppedLate
    /\ (Sunspec!Phase = "running") ~> (Sunspec!Phase # "running" \/ ssStopRequested)

(* "The hot candidates flow completes once all opened endpoints complete,    *)
(* or after an in-loop stop has cancelled the active orchestration"          *)
(* (src/sunspec/SunspecDiscovery.hpp:46).                                   *)
ChainEnds == Sunspec!DiscoveryEnds
=============================================================================
