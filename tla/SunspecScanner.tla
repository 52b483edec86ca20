--------------------------- MODULE SunspecScanner ---------------------------
(***************************************************************************)
(* ScanState, LogicalRegisterReader and SunspecScanControl                  *)
(* (src/sunspec/SunspecScanner.cpp): one scan of one Modbus endpoint.  It   *)
(* probes a given unit, or every unit in turn, for the SunSpec header at     *)
(* Base, reads the common model behind it and walks the chain of models to  *)
(* the end marker.  A thing is emitted only for a chain that was read to    *)
(* its end.                                                                *)
(*                                                                         *)
(* A read of the session succeeds with the registers it asked for or fails  *)
(* (ReadContract); the session may have closed by then.  Of the registers   *)
(* only what steers the walk is kept: whether a header is one, and the      *)
(* identifier and the length of each model.                                *)
(***************************************************************************)
EXTENDS Naturals, Sequences, FiniteSets

CONSTANTS
    UnitCount,        (* 247 in the code                                   *)
    Base,             (* 40000                                             *)
    Limit,            (* 65536, the first address there is not             *)
    MaxRegisterSpan, MaxModels,  (* the options                             *)
    Chunk,            (* 125, the registers of one read                     *)
    CommonLengths,    (* {65, 66}                                          *)
    ModelIds,         (* model identifiers of the device                   *)
    Lengths           (* model lengths the device may claim                *)

ASSUME ScanAssumption ==
    /\ UnitCount \in Nat \ {0}
    /\ {Base, Limit, MaxRegisterSpan, MaxModels, Chunk} \subseteq Nat
    /\ MaxModels > 0 /\ MaxRegisterSpan >= 4
    /\ Chunk >= 2                 \* a header takes one read
    /\ CommonLengths \subseteq Nat \ {0} /\ Lengths \subseteq Nat

Common == "common"    \* the model with identifier 1

VARIABLES
    scan,        (* "idle", "posted", "probing", "reading" or "finished"    *)
    cancelled,   (* the control was cancelled                              *)
    outcome,     (* what the subscriber was told: "none", "completed" or     *)
                 (* "failed"                                               *)
    fixedUnit,           (* the scan was given its unit, the first          *)
    unitIndex, retry,    (* _unitIndex, _retryCurrentUnitOnClosed           *)
    probes,      (* how often each unit was probed                         *)
    purpose,     (* what _activeReader reads: "common", "header", "payload" *)
    nextAddress, remaining,  (* the fields of the reader                    *)
    currentAddress,      (* _currentAddress, of the next model header       *)
    locations,   (* _locations                                             *)
    emitted      (* the locations of the thing that was emitted, or <<>>     *)

control == <<scan, cancelled, outcome>>
sweep == <<fixedUnit, unitIndex, retry, probes>>
reader == <<purpose, nextAddress, remaining>>
chain == <<currentAddress, locations>>
vars == <<control, sweep, reader, chain, emitted>>

Units == 1..UnitCount
Location(id, instance, address, length) ==
    [id |-> id, instance |-> instance, address |-> address, length |-> length]
Locations == [id : ModelIds \cup {Common}, instance : 0..MaxModels,
              address : Base..Limit, length : Lengths \cup CommonLengths]

TypeOK ==
    /\ scan \in {"idle", "posted", "probing", "reading", "finished"}
    /\ cancelled \in BOOLEAN /\ outcome \in {"none", "completed", "failed"}
    /\ fixedUnit \in BOOLEAN
    /\ unitIndex \in 1..UnitCount + 1 /\ retry \in BOOLEAN /\ probes \in [Units -> Nat]
    /\ purpose \in {"none", "common", "header", "payload"}
    /\ nextAddress \in 0..Limit /\ remaining \in Nat
    /\ currentAddress \in 0..Limit
    /\ locations \in Seq(Locations) /\ emitted \in Seq(Locations)

Init ==
    /\ scan = "idle" /\ cancelled = FALSE /\ outcome = "none"
    /\ fixedUnit \in BOOLEAN /\ unitIndex = 1 /\ retry = FALSE /\ probes = [u \in Units |-> 0]
    /\ purpose = "none" /\ nextAddress = 0 /\ remaining = 0
    /\ currentAddress = 0 /\ locations = <<>> /\ emitted = <<>>

-----------------------------------------------------------------------------
(* How a scan ends.  Its reader is cancelled and its control unbound.        *)

End(how) == scan' = "finished" /\ outcome' = how

Complete == End("completed") /\ UNCHANGED <<reader, chain, emitted>>

Fail == End("failed") /\ UNCHANGED <<reader, chain, emitted>>

Emit ==
    /\ End("completed")
    /\ emitted' = locations
    /\ UNCHANGED <<reader, chain>>

-----------------------------------------------------------------------------
(* Reading.  a is an address, n a number of registers.                      *)

InRegisterSpan(a, n) ==
    Base <= a /\ a < Limit /\ a + n <= Limit /\ a + n - Base <= MaxRegisterSpan

Least(m, n) == IF m < n THEN m ELSE n

(* A read of the session reaches no further than the address space.         *)
Readable(a, n) == a < Limit /\ a + Least(Chunk, n) <= Limit

Read(what, a, n) ==
    /\ purpose' = what /\ nextAddress' = a /\ remaining' = n
    /\ scan' = "reading"
    /\ UNCHANGED outcome

(* readCommonModel, where length is the last register of the header.         *)
ReadCommonModel(length) ==
    IF InRegisterSpan(Base + 4, length)
    THEN Read("common", Base + 4, length) /\ UNCHANGED <<chain, emitted>>
    ELSE Complete

ReadModelHeader(a) ==
    IF InRegisterSpan(a, 2) THEN Read("header", a, 2)
                            ELSE End("completed") /\ UNCHANGED reader

(* How many models with this identifier have been located: the next one's   *)
(* instance, which _instances counts.                                      *)
Instances(id) == Cardinality({i \in DOMAIN locations : locations[i].id = id})

OnCommonModel(length) ==
    /\ locations' = Append(locations, Location(Common, 0, Base + 4, length))
    /\ currentAddress' = Base + 4 + length
    /\ ReadModelHeader(currentAddress')
    /\ UNCHANGED emitted

(* Faulty: the payload is not held against the span.                        *)
OnModelUnchecked(id, length) ==
    IF Len(locations) >= MaxModels \/ ~InRegisterSpan(currentAddress, 2)
    THEN Complete
    ELSE /\ locations' = Append(locations,
                                Location(id, Instances(id), currentAddress + 2, length))
         /\ UNCHANGED emitted
         /\ IF length = 0
            THEN /\ currentAddress' = currentAddress + 2
                 /\ ReadModelHeader(currentAddress')
            ELSE /\ UNCHANGED currentAddress
                 /\ Read("payload", currentAddress + 2, length)

(* onModelHeader with the identifier and the length of a model.              *)
OnModel(id, length) ==
    IF \/ Len(locations) >= MaxModels
       \/ ~InRegisterSpan(currentAddress, 2)
       \/ ~InRegisterSpan(currentAddress + 2, length)
    THEN Complete
    ELSE /\ locations' = Append(locations,
                                Location(id, Instances(id), currentAddress + 2, length))
         /\ UNCHANGED emitted
         /\ IF length = 0
            THEN /\ currentAddress' = currentAddress + 2
                 /\ ReadModelHeader(currentAddress')
            ELSE /\ UNCHANGED currentAddress
                 /\ Read("payload", currentAddress + 2, length)

(* onModelHeader with the end marker, which has the length 0.               *)
OnEndMarker(length) == IF length = 0 THEN Emit ELSE Complete

OnPayload ==
    /\ currentAddress' = nextAddress + remaining
    /\ ReadModelHeader(currentAddress')
    /\ UNCHANGED <<locations, emitted>>

-----------------------------------------------------------------------------
(* Probing.                                                                *)

ProbeUnit(u) ==
    /\ scan' = "probing"
    /\ probes' = [probes EXCEPT ![u] = @ + 1]
    /\ UNCHANGED <<outcome, fixedUnit, unitIndex, reader, chain, emitted>>

AdvanceUnit ==
    /\ unitIndex' = unitIndex + 1
    /\ UNCHANGED fixedUnit
    /\ IF unitIndex' > UnitCount
       THEN Complete /\ UNCHANGED probes
       ELSE /\ scan' = "probing"
            /\ probes' = [probes EXCEPT ![unitIndex'] = @ + 1]
            /\ UNCHANGED <<outcome, reader, chain, emitted>>

(* replaceClosedSession found no session to go on with.                     *)
NoReplacement == Fail /\ UNCHANGED sweep

-----------------------------------------------------------------------------
(* The calls and the callbacks.                                            *)

Subscribe ==
    /\ scan = "idle"
    /\ scan' = "posted"
    /\ UNCHANGED <<cancelled, outcome, sweep, reader, chain, emitted>>

(* Faulty: a scan that has ended completes again.                           *)
CancelAgain ==
    /\ ~cancelled /\ scan # "idle"
    /\ cancelled' = TRUE
    /\ Complete
    /\ UNCHANGED sweep

(* SunspecScanControl::cancel; before startInLoop nothing is bound to it.    *)
Cancel ==
    /\ ~cancelled /\ scan # "idle"
    /\ cancelled' = TRUE
    /\ \/ scan \in {"probing", "reading"} /\ Complete
       \/ scan \in {"posted", "finished"} /\ UNCHANGED <<scan, outcome, reader, chain, emitted>>
    /\ UNCHANGED sweep

(* Faulty: a scan that was cancelled before it began just returns.           *)
StartInLoopReturns ==
    /\ scan = "posted"
    /\ \/ cancelled /\ scan' = "finished" /\ UNCHANGED <<outcome, sweep, reader, chain, emitted>>
       \/ ~cancelled /\ ProbeUnit(unitIndex) /\ UNCHANGED retry
       \/ ~cancelled /\ NoReplacement
    /\ UNCHANGED cancelled

(* startInLoop: bind the control, get a session, probe the first unit.       *)
StartInLoop ==
    /\ scan = "posted"
    /\ \/ cancelled /\ Complete /\ UNCHANGED sweep
       \/ ~cancelled /\ ProbeUnit(unitIndex) /\ UNCHANGED retry
       \/ ~cancelled /\ NoReplacement
    /\ UNCHANGED cancelled

OnSunspecHeader ==
    /\ scan = "probing"
    /\ \E length \in CommonLengths : ReadCommonModel(length)
    /\ UNCHANGED <<cancelled, sweep>>

(* An answer that is not a SunSpec header; the session may have closed since *)
(* it came.  If it has not, and closes during the next probe, that unit is   *)
(* probed again.                                                           *)
OnOtherResponse ==
    /\ scan = "probing"
    /\ \/ fixedUnit /\ Complete /\ UNCHANGED sweep
       \/ \E sessionClosed \in BOOLEAN :
             ~fixedUnit /\ AdvanceUnit /\ retry' = ~sessionClosed
       \/ ~fixedUnit /\ NoReplacement
    /\ UNCHANGED cancelled

(* Faulty: the unit is probed again as often as the session closes.          *)
OnProbeFailureRetries ==
    /\ scan = "probing" /\ ~fixedUnit
    /\ ProbeUnit(unitIndex)
    /\ UNCHANGED <<cancelled, retry>>

OnProbeFailure ==
    /\ scan = "probing"
    /\ \/ fixedUnit /\ Complete /\ UNCHANGED sweep
       \/ \E sessionClosed \in BOOLEAN :
             /\ ~fixedUnit
             /\ retry' = FALSE
             /\ IF sessionClosed /\ retry THEN ProbeUnit(unitIndex) ELSE AdvanceUnit
       \/ ~fixedUnit /\ NoReplacement
    /\ UNCHANGED cancelled

(* LogicalRegisterReader: the registers of one read have come.              *)
OnRegisters ==
    /\ scan = "reading"
    /\ LET count == Least(Chunk, remaining)
           left == remaining - count
       IN  IF left > 0
           THEN IF Readable(nextAddress + count, left)
                THEN Read(purpose, nextAddress + count, left) /\ UNCHANGED <<chain, emitted>>
                ELSE Complete
           ELSE \/ purpose = "common" /\ OnCommonModel(nextAddress + remaining - (Base + 4))
                \/ purpose = "header" /\ \E id \in ModelIds, length \in Lengths : OnModel(id, length)
                \/ purpose = "header" /\ \E length \in Lengths : OnEndMarker(length)
                \/ purpose = "payload" /\ OnPayload
    /\ UNCHANGED <<cancelled, sweep>>

(* Faulty: what was located so far is emitted.                              *)
OnReadFailureEmits ==
    /\ scan = "reading"
    /\ Emit
    /\ UNCHANGED <<cancelled, sweep>>

OnReadFailure ==
    /\ scan = "reading"
    /\ Complete
    /\ UNCHANGED <<cancelled, sweep>>

Answered == OnSunspecHeader \/ OnOtherResponse \/ OnProbeFailure \/ OnRegisters \/ OnReadFailure

Next == Subscribe \/ Cancel \/ StartInLoop \/ Answered

Spec == Init /\ [][Next]_vars

(* The loop runs the posted start, and every read of the session ends        *)
(* (ModbusSession!EveryReadEnds).                                           *)
FairSpec == Spec /\ WF_vars(StartInLoop) /\ WF_vars(Answered)

-----------------------------------------------------------------------------
(* Properties.                                                             *)

(* The reader never reads outside the address space nor beyond the span the  *)
(* options allow, whatever lengths the device claims.                       *)
ReadsInSpan ==
    scan = "reading" => /\ remaining > 0 /\ nextAddress >= Base
                        /\ nextAddress + remaining <= Least(Limit, Base + MaxRegisterSpan)

(* The located models lie one behind the other, each behind its header: the  *)
(* chain never overlaps and never turns back.                               *)
ChainContiguous ==
    \A i \in DOMAIN locations :
        locations[i].address = IF i = 1 THEN Base + 4
                               ELSE locations[i - 1].address + locations[i - 1].length + 2

(* Models with the same identifier are numbered from 0 without a gap, and    *)
(* there are never more models than the options allow.                      *)
InstancesNumbered ==
    /\ Len(locations) <= MaxModels
    /\ \A i \in DOMAIN locations :
          locations[i].instance = Cardinality({j \in 1..i - 1 : locations[j].id = locations[i].id})

(* Whatever lengths a device claims and however the reads are cut, the chain *)
(* that was walked is a sequence of adjacent models, each counted once, and  *)
(* no read leaves the span.                                                *)
ChainWellFormed == TypeOK /\ ChainContiguous /\ InstancesNumbered /\ ReadsInSpan

(* A thing is emitted with a whole chain: it starts with the common model    *)
(* and every register up to the end marker has been read.                   *)
EmittedWhole ==
    emitted # <<>> =>
        /\ emitted[1].id = Common
        /\ LET last == emitted[Len(emitted)]
           IN  nextAddress = last.address + last.length /\ purpose = "header"

(* The scan as its subscriber sees it.                                      *)
Phase == CASE scan = "idle" -> "idle"
           [] scan # "idle" /\ outcome = "none" -> "running"
           [] outcome = "completed" -> "ended"
           [] OTHER -> "failed"

Flow == INSTANCE DiscoveryFlow WITH
            Items <- {"thing"}, phase <- Phase, found <- IF emitted = <<>> THEN {} ELSE {"thing"}

(* A scan emits while it runs, and ends once.                               *)
ImplementsFlow == Flow!Spec

(* Units are probed in order and none is skipped; one is probed at most      *)
(* twice, so a device that keeps closing the connection is left in the end.  *)
(* A scan that was given its unit asks it once and asks no other.            *)
UnitsInOrder ==
    /\ \A u \in Units : /\ u < unitIndex => probes[u] \in {1, 2}
                        /\ u > unitIndex => probes[u] = 0
                        /\ probes[u] <= 2
    /\ fixedUnit => unitIndex = 1 /\ probes[1] <= 1

(* A sweep that completes without having read anything, and was not          *)
(* cancelled, has probed every unit, or met a common model for which the     *)
(* options leave no room.                                                  *)
SweepComplete ==
    outcome = "completed" /\ ~cancelled /\ ~fixedUnit /\ purpose = "none" =>
        \/ \A u \in Units : probes[u] > 0
        \/ \E length \in CommonLengths : ~InRegisterSpan(Base + 4, length)

(* Whenever the device closes the connection, the sweep neither skips a unit *)
(* nor is held up by one.                                                   *)
SweepInOrder == UnitsInOrder /\ SweepComplete

(* What a device can still make the scan do: reads that lie further and      *)
(* further in the address space, and before them two probes of each unit;    *)
(* and what its subscriber can: cancel it.                                  *)
ScanLeft ==
    CASE scan = "idle" -> Limit + 2 * UnitCount + 4
      [] scan = "posted" -> Limit + 2 * UnitCount + 3
      [] scan = "probing" -> Limit + 2 * (UnitCount - unitIndex) + (IF retry THEN 3 ELSE 2)
      [] scan = "reading" -> Limit - nextAddress
      [] OTHER -> 0

Remaining == ScanLeft + (IF cancelled THEN 0 ELSE 1)

(* Whatever lengths a device claims, 0 included, and whenever it closes the   *)
(* connection, every answer brings the scan nearer to its end.               *)
WorkShrinks == [][Remaining' < Remaining]_vars

(* Every scan ends: a device cannot keep it busy for ever.                  *)
ScanEnds == Flow!Ends
=============================================================================
