----------------------- MODULE SunspecDiscoveryProofs ------------------------
(***************************************************************************)
(* Theorems about SunspecDiscovery for every set of candidates.             *)
(***************************************************************************)
EXTENDS SunspecDiscovery, TLAPS

-----------------------------------------------------------------------------
(* The inductive invariant.                                                *)

(* Only a candidate that was reported has a scan, and every one has while    *)
(* the run listens.                                                        *)
CandidatesOpened ==
    /\ \A c \in Candidates : scan[c] # "none" => c \in upFound
    /\ ~Ignoring => \A c \in upFound : scan[c] # "none"
    /\ upPhase = "idle" => upFound = {}

(* The Modbus discovery is started only from the loop, by a run that was      *)
(* started and has not been asked to stop, and its end is remembered.       *)
StartedInOrder ==
    /\ upPhase # "idle" => started /\ loopRuns
    /\ stopRequested /\ ~stopping => upPhase = "idle"
    /\ modbusCompleted <=> upPhase = "ended"
    /\ queued => started
    /\ ~started => outcome = "none" /\ ~stopRequested

(* A run stops because it was asked to or because it failed, and then stops   *)
(* the Modbus discovery; a failure is told at once.                        *)
EndedInOrder ==
    /\ stopping <=> upStopped
    /\ stopping => stopRequested \/ failing
    /\ failing <=> outcome = "failed"
    /\ failing => stopping

IInv == /\ NothingLeftRunning /\ CompleteMeansScanned
        /\ CandidatesOpened /\ StartedInOrder /\ EndedInOrder

-----------------------------------------------------------------------------
(* The run's functions.                                                    *)

(* A run ends or goes on.                                                  *)
LEMMA MaybeCompleteFacts ==
    ASSUME NEW s, NEW o, NEW up, MaybeComplete(s, o, up)
    PROVE  \/ outcome' = outcome /\ open' = o
           \/ /\ ~gone /\ ~failing /\ outcome = "none" /\ up /\ Scanned(s)
              /\ outcome' = "completed" /\ open' = {}
BY DEF MaybeComplete, Terminal

(* What a run that has not ended and was not stopped knows.                  *)
LEMMA Listening ==
    ASSUME IInv, ~Terminal, ~stopRequested
    PROVE  ~failing /\ ~stopping /\ outcome = "none" /\ (gone \/ ~Ignoring)
BY DEF IInv, EndedInOrder, Ignoring, Terminal

(* Every scan cancelled: those that ran are over.                           *)
LEMMA CancelledFacts ==
    ASSUME TypeOK
    PROVE  /\ Cancelled \in [Candidates -> {"none", "posted", "running", "completed"}]
           /\ \A c \in Candidates :
                 /\ Cancelled[c] # "running"
                 /\ Cancelled[c] = "none" <=> scan[c] = "none"
                 /\ Cancelled[c] = "posted" => c \in Opened
           /\ Opened \subseteq {c \in Candidates : Cancelled[c] # "none"}
BY DEF TypeOK, Cancelled, Opened

(* A run that fails leaves nothing running, and tells it.                    *)
LEMMA FailKeeps ==
    ASSUME IInv, Fail, ~gone, ~failing, ~Terminal, upPhase # "idle",
           upPhase' = upPhase \/ (upPhase = "running" /\ upPhase' = "failed"),
           UNCHANGED <<handle, modbusCompleted, found>>,
           upFound' \subseteq Candidates, upFound \subseteq upFound'
    PROVE  IInv'
<1>1. /\ failing' = TRUE /\ stopping' = TRUE /\ scan' = Cancelled /\ cancelled' = Opened
      /\ open' = {} /\ upStopped' = TRUE /\ outcome' = "failed"
  BY DEF Fail
<1>2. UNCHANGED <<loopRuns, queued, started, stopRequested, loopEntered, gone, modbusCompleted,
                  found>>
  BY DEF handle
<1>3. TypeOK
  BY DEF IInv, NothingLeftRunning
<1>4. TypeOK'
  BY <1>1, <1>2, <1>3, CancelledFacts DEF TypeOK
<1>5. SessionsOwned' /\ NoSessionLeftOpen' /\ StopReachesScans' /\ CompleteMeansScanned'
  BY <1>1, <1>3, CancelledFacts
     DEF SessionsOwned, NoSessionLeftOpen, StopReachesScans, CompleteMeansScanned
<1>6. CandidatesOpened'
  <2>1. \A c \in Candidates : scan'[c] # "none" => c \in upFound'
    BY <1>1, <1>3, CancelledFacts DEF IInv, CandidatesOpened
  <2>2. Ignoring' /\ upPhase' # "idle"
    BY <1>1 DEF Ignoring
  <2>3. QED BY <2>1, <2>2 DEF CandidatesOpened
<1>7. StartedInOrder' /\ EndedInOrder'
  BY <1>1, <1>2 DEF IInv, StartedInOrder, EndedInOrder
<1>8. QED BY <1>4, <1>5, <1>6, <1>7 DEF IInv, NothingLeftRunning

(* A run that is stopped on the loop leaves nothing running.                 *)
LEMMA StopRunKeeps ==
    ASSUME IInv, StopRun, loopRuns, started, ~gone, ~Terminal, ~stopRequested,
           found' \subseteq Candidates, gone' \in BOOLEAN
    PROVE  IInv'
<1>1. /\ stopRequested' = TRUE /\ stopping' = TRUE /\ scan' = Cancelled /\ cancelled' = Opened
      /\ upStopped' = TRUE /\ open' = {}
      /\ UNCHANGED <<upPhase, upFound, loopRuns, queued, started, loopEntered, failing,
                     modbusCompleted>>
      /\ outcome' = outcome \/ outcome' = "completed"
  BY MaybeCompleteFacts DEF StopRun
<1>2. ~failing /\ ~stopping /\ outcome = "none"
  BY Listening
<1>3. TypeOK
  BY DEF IInv, NothingLeftRunning
<1>4. TypeOK'
  BY <1>1, <1>3, CancelledFacts DEF TypeOK
<1>5. SessionsOwned' /\ NoSessionLeftOpen' /\ StopReachesScans' /\ CompleteMeansScanned'
  BY <1>1, <1>3, CancelledFacts
     DEF SessionsOwned, NoSessionLeftOpen, StopReachesScans, CompleteMeansScanned
<1>6. CandidatesOpened'
  <2>1. \A c \in Candidates : scan'[c] # "none" => c \in upFound'
    BY <1>1, <1>3, CancelledFacts DEF IInv, CandidatesOpened
  <2>2. Ignoring' /\ (upPhase' = "idle" => upFound' = {})
    BY <1>1 DEF Ignoring, IInv, CandidatesOpened
  <2>3. QED BY <2>1, <2>2 DEF CandidatesOpened
<1>7. StartedInOrder' /\ EndedInOrder'
  BY <1>1, <1>2 DEF IInv, StartedInOrder, EndedInOrder
<1>8. QED BY <1>4, <1>5, <1>6, <1>7 DEF IInv, NothingLeftRunning

(* A scan is over, and perhaps the run with it.                             *)
LEMMA ScannerCompletedKeeps ==
    ASSUME IInv, NEW c \in Candidates, scan[c] \in {"posted", "running"}, ScannerCompleted(c),
           UNCHANGED <<upstream, handle, stopping, failing, modbusCompleted, cancelled>>,
           found' \subseteq Candidates
    PROVE  IInv'
<1>1. UNCHANGED <<upPhase, upFound, upStopped, loopRuns, queued, started, stopRequested,
                  loopEntered, gone, stopping, failing, modbusCompleted, cancelled>>
  BY DEF upstream, handle
<1>2. TypeOK
  BY DEF IInv, NothingLeftRunning
<1>3. /\ scan' = [scan EXCEPT ![c] = "completed"]
      /\ \/ outcome' = outcome /\ open' = open \ {c}
         \/ /\ ~gone /\ ~failing /\ outcome = "none" /\ modbusCompleted /\ Scanned(scan')
            /\ outcome' = "completed" /\ open' = {}
  BY MaybeCompleteFacts DEF ScannerCompleted
<1>4. /\ scan' \in [Candidates -> {"none", "posted", "running", "completed"}]
      /\ scan'[c] = "completed" /\ \A d \in Candidates : d # c => scan'[d] = scan[d]
  BY <1>2, <1>3 DEF TypeOK
<1>5. open' \subseteq open \ {c}
  BY <1>3
<1>6. upPhase # "idle" /\ c \in upFound
  BY DEF IInv, CandidatesOpened
<1>7. TypeOK'
  <2>1. cancelled' \cup open' \subseteq {d \in Candidates : scan'[d] # "none"}
    BY <1>1, <1>2, <1>4, <1>5 DEF TypeOK
  <2>2. outcome' \in {"none", "completed", "failed"}
    BY <1>2, <1>3 DEF TypeOK
  <2>3. QED BY <1>1, <1>2, <1>4, <2>1, <2>2 DEF TypeOK
<1>8. SessionsOwned'
  BY <1>2, <1>4, <1>5 DEF IInv, NothingLeftRunning, SessionsOwned, TypeOK
<1>9. NoSessionLeftOpen'
  BY <1>1, <1>3 DEF IInv, NothingLeftRunning, NoSessionLeftOpen, Ignoring, Terminal
<1>10. StopReachesScans' /\ CompleteMeansScanned'
  <2>1. CASE outcome' = outcome
    <3>1. Ignoring' <=> Ignoring
      BY <1>1, <2>1 DEF Ignoring, Terminal
    <3>2. StopReachesScans'
      BY <1>1, <1>4, <3>1 DEF IInv, NothingLeftRunning, StopReachesScans
    <3>3. CompleteMeansScanned'
      BY <1>1, <1>2, <1>4, <2>1 DEF IInv, CompleteMeansScanned, TypeOK
    <3>4. QED BY <3>2, <3>3
  <2>2. CASE /\ ~gone /\ ~failing /\ outcome = "none" /\ modbusCompleted /\ Scanned(scan')
    <3>1. upPhase = "ended"
      BY <2>2 DEF IInv, StartedInOrder
    <3>2. \A d \in Candidates : scan'[d] \in {"none", "completed"}
      BY <2>2 DEF Scanned
    <3>3. StopReachesScans'
      BY <1>1, <3>1, <3>2 DEF StopReachesScans
    <3>4. ~stopRequested => \A d \in upFound : scan[d] # "none"
      BY <2>2, Listening DEF Terminal, IInv, CandidatesOpened
    <3>5. CompleteMeansScanned'
      BY <1>1, <1>2, <1>4, <3>1, <3>2, <3>4 DEF CompleteMeansScanned, TypeOK
    <3>6. QED BY <3>3, <3>5
  <2>3. QED BY <1>3, <2>1, <2>2
<1>11. CandidatesOpened'
  <2>1. ~Ignoring' => ~Ignoring
    BY <1>1, <1>3 DEF Ignoring, Terminal
  <2>2. QED BY <1>1, <1>2, <1>4, <1>6, <2>1 DEF IInv, CandidatesOpened, TypeOK
<1>12. StartedInOrder' /\ EndedInOrder'
  BY <1>1, <1>3, <1>6 DEF IInv, StartedInOrder, EndedInOrder
<1>13. QED BY <1>7, <1>8, <1>9, <1>10, <1>11, <1>12 DEF IInv, NothingLeftRunning

-----------------------------------------------------------------------------
(* The steps, one lemma per action.                                        *)

LEMMA InitIInv == Init => IInv
<1> SUFFICES ASSUME Init PROVE IInv
  OBVIOUS
<1>1. TypeOK
  BY DEF Init, TypeOK
<1>2. SessionsOwned /\ NoSessionLeftOpen /\ StopReachesScans /\ CompleteMeansScanned
  BY DEF Init, SessionsOwned, NoSessionLeftOpen, StopReachesScans, CompleteMeansScanned
<1>3. CandidatesOpened /\ StartedInOrder /\ EndedInOrder
  BY DEF Init, CandidatesOpened, StartedInOrder, EndedInOrder
<1>4. QED BY <1>1, <1>2, <1>3 DEF IInv, NothingLeftRunning

LEMMA LoopStartsKeeps == ASSUME IInv, LoopStarts PROVE IInv'
<1> USE DEF LoopStarts, upstream, run
<1>1. TypeOK'
  BY DEF IInv, NothingLeftRunning, TypeOK
<1>2. SessionsOwned' /\ NoSessionLeftOpen' /\ StopReachesScans' /\ CompleteMeansScanned'
  BY DEF IInv, NothingLeftRunning, SessionsOwned, NoSessionLeftOpen, StopReachesScans,
         CompleteMeansScanned, Ignoring, Terminal
<1>3. CandidatesOpened' /\ StartedInOrder' /\ EndedInOrder'
  BY DEF IInv, CandidatesOpened, StartedInOrder, EndedInOrder, Ignoring, Terminal
<1>4. QED BY <1>1, <1>2, <1>3 DEF IInv, NothingLeftRunning

(* startInLoop starts the Modbus discovery, or finds that it was stopped.    *)
LEMMA EnterKeeps ==
    ASSUME IInv, Enter, loopRuns, ~gone, started' = TRUE, started \/ ~stopRequested,
           UNCHANGED <<loopRuns, stopRequested, gone, run, found>>,
           queued' \in BOOLEAN
    PROVE  IInv'
<1>1. UNCHANGED <<loopRuns, stopRequested, gone, stopping, failing, modbusCompleted, scan,
                  cancelled, open, found>>
  BY DEF run
<1>2. TypeOK
  BY DEF IInv, NothingLeftRunning
<1>3. CASE Terminal \/ stopRequested
  <2>1. /\ UNCHANGED <<upPhase, upFound, upStopped>> /\ loopEntered' = TRUE
        /\ outcome' = IF failing \/ Terminal THEN outcome ELSE "completed"
    BY <1>3 DEF Enter, upstream
  <2>2. TypeOK'
    BY <1>1, <1>2, <2>1 DEF TypeOK
  <2>3. CASE Terminal
    <3>1. outcome' = outcome
      BY <2>1, <2>3
    <3>2. SessionsOwned' /\ NoSessionLeftOpen' /\ StopReachesScans' /\ CompleteMeansScanned'
      BY <1>1, <2>1, <3>1
         DEF IInv, NothingLeftRunning, SessionsOwned, NoSessionLeftOpen, StopReachesScans,
             CompleteMeansScanned, Ignoring, Terminal
    <3>3. CandidatesOpened' /\ StartedInOrder' /\ EndedInOrder'
      BY <1>1, <2>1, <3>1
         DEF IInv, CandidatesOpened, StartedInOrder, EndedInOrder, Ignoring, Terminal
    <3>4. QED BY <2>2, <3>2, <3>3 DEF IInv, NothingLeftRunning
  <2>4. CASE ~Terminal
    <3>1. /\ stopRequested /\ ~failing /\ outcome' = "completed"
      BY <1>3, <2>1, <2>4 DEF Terminal, IInv, EndedInOrder
    <3>2. CASE ~stopping
      <4>1. upPhase = "idle" /\ \A c \in Candidates : scan[c] = "none"
        BY <3>1, <3>2 DEF IInv, StartedInOrder, CandidatesOpened
      <4>2. open = {}
        BY <1>2, <4>1 DEF TypeOK
      <4>3. SessionsOwned' /\ NoSessionLeftOpen' /\ StopReachesScans' /\ CompleteMeansScanned'
        BY <1>1, <2>1, <3>1, <4>1, <4>2
           DEF SessionsOwned, NoSessionLeftOpen, StopReachesScans, CompleteMeansScanned
      <4>4. CandidatesOpened' /\ StartedInOrder' /\ EndedInOrder'
        BY <1>1, <2>1, <3>1, <4>1
           DEF IInv, CandidatesOpened, StartedInOrder, EndedInOrder, Ignoring, Terminal
      <4>5. QED BY <2>2, <4>3, <4>4 DEF IInv, NothingLeftRunning
    <3>3. CASE stopping
      <4>1. SessionsOwned' /\ NoSessionLeftOpen' /\ StopReachesScans' /\ CompleteMeansScanned'
        BY <1>1, <2>1, <3>1, <3>3
           DEF IInv, NothingLeftRunning, SessionsOwned, NoSessionLeftOpen, StopReachesScans,
               CompleteMeansScanned, Ignoring
      <4>2. CandidatesOpened' /\ StartedInOrder' /\ EndedInOrder'
        BY <1>1, <2>1, <3>1, <3>3
           DEF IInv, CandidatesOpened, StartedInOrder, EndedInOrder, Ignoring, Terminal
      <4>3. QED BY <2>2, <4>1, <4>2 DEF IInv, NothingLeftRunning
    <3>4. QED BY <3>2, <3>3
  <2>5. QED BY <2>3, <2>4
<1>4. CASE ~(Terminal \/ stopRequested)
  <2>1. /\ upPhase = "idle" /\ upPhase' = "running" /\ loopEntered' = TRUE
        /\ UNCHANGED <<upFound, upStopped, outcome>>
    BY <1>4 DEF Enter, Upstream!Start
  <2>2. ~Ignoring /\ upFound = {} /\ outcome = "none"
    BY <1>4, <2>1, Listening DEF IInv, CandidatesOpened
  <2>3. TypeOK'
    BY <1>1, <1>2, <2>1 DEF TypeOK
  <2>4. ~Ignoring'
    BY <1>1, <2>1, <2>2 DEF Ignoring, Terminal
  <2>5. SessionsOwned' /\ NoSessionLeftOpen' /\ StopReachesScans' /\ CompleteMeansScanned'
    BY <1>1, <2>1, <2>2, <2>4
       DEF IInv, NothingLeftRunning, SessionsOwned, NoSessionLeftOpen, StopReachesScans,
           CompleteMeansScanned
  <2>6. CandidatesOpened' /\ StartedInOrder' /\ EndedInOrder'
    BY <1>1, <1>4, <2>1, <2>2 DEF IInv, CandidatesOpened, StartedInOrder, EndedInOrder
  <2>7. QED BY <2>3, <2>5, <2>6 DEF IInv, NothingLeftRunning
<1>5. QED BY <1>3, <1>4

(* A call that changes no more than what was asked of the object.           *)
LEMMA HandleKeeps ==
    ASSUME IInv, started' = TRUE, queued' \in BOOLEAN,
           UNCHANGED <<upstream, loopRuns, stopRequested, loopEntered, gone, run, outcome, found>>
    PROVE  IInv'
<1> USE DEF upstream, run
<1>1. TypeOK'
  BY DEF IInv, NothingLeftRunning, TypeOK
<1>2. SessionsOwned' /\ NoSessionLeftOpen' /\ StopReachesScans' /\ CompleteMeansScanned'
  BY DEF IInv, NothingLeftRunning, SessionsOwned, NoSessionLeftOpen, StopReachesScans,
         CompleteMeansScanned, Ignoring, Terminal
<1>3. CandidatesOpened' /\ StartedInOrder' /\ EndedInOrder'
  BY DEF IInv, CandidatesOpened, StartedInOrder, EndedInOrder, Ignoring, Terminal
<1>4. QED BY <1>1, <1>2, <1>3 DEF IInv, NothingLeftRunning

LEMMA StartKeeps == ASSUME IInv, Start PROVE IInv'
<1>1. ~gone /\ ~started /\ started' = TRUE /\ ~stopRequested
      /\ UNCHANGED <<loopRuns, stopRequested, gone, run, found>>
  BY DEF Start, IInv, StartedInOrder
<1>2. CASE loopRuns /\ Enter /\ UNCHANGED queued
  <2>1. queued' \in BOOLEAN
    BY <1>2 DEF IInv, NothingLeftRunning, TypeOK
  <2>2. QED BY <1>1, <1>2, <2>1, EnterKeeps
<1>3. CASE queued' = TRUE /\ UNCHANGED <<upstream, loopEntered, outcome>>
  BY <1>1, <1>3, HandleKeeps
<1>4. QED BY <1>2, <1>3 DEF Start

LEMMA RunQueuedStartKeeps == ASSUME IInv, RunQueuedStart PROVE IInv'
<1>1. /\ loopRuns /\ started /\ started' = TRUE /\ queued' = FALSE
      /\ UNCHANGED <<loopRuns, stopRequested, gone, run, found>>
  BY DEF RunQueuedStart, IInv, StartedInOrder, NothingLeftRunning, TypeOK
<1>2. CASE ~gone /\ Enter
  BY <1>1, <1>2, EnterKeeps
<1>3. CASE UNCHANGED <<upstream, loopEntered, outcome>>
  BY <1>1, <1>3, HandleKeeps
<1>4. QED BY <1>2, <1>3 DEF RunQueuedStart

LEMMA StopBeforeLoopKeeps == ASSUME IInv, StopBeforeLoop PROVE IInv'
<1>1. /\ ~loopRuns /\ started /\ stopRequested' = TRUE
      /\ UNCHANGED <<upPhase, upFound, upStopped, loopRuns, queued, started, loopEntered, gone,
                     stopping, failing, modbusCompleted, scan, cancelled, open, outcome, found>>
  BY DEF StopBeforeLoop, upstream, run
<1>2. upPhase = "idle"
  BY <1>1 DEF IInv, StartedInOrder
<1>3. TypeOK'
  BY <1>1 DEF IInv, NothingLeftRunning, TypeOK
<1>4. SessionsOwned' /\ NoSessionLeftOpen' /\ StopReachesScans' /\ CompleteMeansScanned'
  BY <1>1 DEF IInv, NothingLeftRunning, SessionsOwned, NoSessionLeftOpen, StopReachesScans,
              CompleteMeansScanned, Ignoring, Terminal
<1>5. CandidatesOpened' /\ StartedInOrder' /\ EndedInOrder'
  BY <1>1, <1>2 DEF IInv, CandidatesOpened, StartedInOrder, EndedInOrder, Ignoring, Terminal
<1>6. QED BY <1>3, <1>4, <1>5 DEF IInv, NothingLeftRunning

LEMMA StopOnLoopKeeps == ASSUME IInv, StopOnLoop PROVE IInv'
<1>1. found' \subseteq Candidates /\ gone' \in BOOLEAN
  BY DEF StopOnLoop, IInv, NothingLeftRunning, TypeOK
<1>2. QED BY <1>1, StopRunKeeps DEF StopOnLoop

LEMMA DestroyKeeps == ASSUME IInv, Destroy PROVE IInv'
<1>1. CASE loopRuns /\ started /\ ~Terminal /\ ~stopRequested
  <2>1. ~gone /\ gone' = TRUE /\ StopRun /\ found' \subseteq Candidates
    BY <1>1 DEF Destroy, IInv, NothingLeftRunning, TypeOK
  <2>2. QED BY <1>1, <2>1, StopRunKeeps
<1>2. CASE ~(loopRuns /\ started /\ ~Terminal /\ ~stopRequested)
  <2>1. /\ gone' = TRUE
        /\ UNCHANGED <<upPhase, upFound, upStopped, loopRuns, queued, started, stopRequested,
                       loopEntered, stopping, failing, modbusCompleted, scan, cancelled, open,
                       outcome, found>>
    BY <1>2 DEF Destroy, upstream, run
  <2>2. TypeOK /\ TypeOK'
    BY <2>1 DEF IInv, NothingLeftRunning, TypeOK
  <2>3. CandidatesOpened' /\ StartedInOrder' /\ EndedInOrder'
    BY <2>1 DEF IInv, CandidatesOpened, StartedInOrder, EndedInOrder, Ignoring
  <2>4. SessionsOwned' /\ CompleteMeansScanned'
    BY <2>1 DEF IInv, NothingLeftRunning, SessionsOwned, CompleteMeansScanned
  <2>5. CASE Ignoring
    <3>1. NoSessionLeftOpen' /\ StopReachesScans'
      BY <2>1, <2>5 DEF IInv, NothingLeftRunning, NoSessionLeftOpen, StopReachesScans
    <3>2. QED BY <2>2, <2>3, <2>4, <3>1 DEF IInv, NothingLeftRunning
  <2>6. CASE ~Ignoring
    <3>1. upPhase = "idle"
      BY <1>2, <2>6 DEF Ignoring, Terminal, IInv, StartedInOrder
    <3>2. \A c \in Candidates : scan[c] = "none"
      BY <3>1 DEF IInv, CandidatesOpened
    <3>3. open = {}
      BY <2>2, <3>2 DEF TypeOK
    <3>4. NoSessionLeftOpen' /\ StopReachesScans'
      BY <2>1, <3>1, <3>2, <3>3 DEF NoSessionLeftOpen, StopReachesScans
    <3>5. QED BY <2>2, <2>3, <2>4, <3>4 DEF IInv, NothingLeftRunning
  <2>7. QED BY <2>5, <2>6
<1>3. QED BY <1>1, <1>2

(* A candidate opens an endpoint while the run listens.                      *)
LEMMA OpenEndpointKeeps ==
    ASSUME IInv, NEW c \in Candidates, c \notin upFound, ~Ignoring, OpenEndpoint(c),
           upPhase = "running", upFound' = upFound \cup {c},
           upPhase' = IF modbusCompleted' THEN "ended" ELSE "running",
           modbusCompleted' \in BOOLEAN,
           UNCHANGED <<upStopped, handle, stopping, failing, cancelled, outcome, found>>
    PROVE  IInv'
<1>1. UNCHANGED <<upStopped, loopRuns, queued, started, stopRequested, loopEntered, gone,
                  stopping, failing, cancelled, outcome, found>>
  BY DEF handle
<1>2. TypeOK /\ outcome = "none" /\ ~Ignoring'
  BY <1>1 DEF IInv, NothingLeftRunning, Ignoring, Terminal
<1>3. /\ scan' \in [Candidates -> {"none", "posted", "running", "completed"}]
      /\ scan'[c] = "posted" /\ \A d \in Candidates : d # c => scan'[d] = scan[d]
      /\ open' = open \cup {c}
  BY <1>2 DEF OpenEndpoint, TypeOK
<1>4. TypeOK'
  <2>1. cancelled' \cup open' \subseteq {d \in Candidates : scan'[d] # "none"}
    BY <1>1, <1>2, <1>3 DEF TypeOK
  <2>2. QED BY <1>1, <1>2, <1>3, <2>1 DEF TypeOK
<1>5. SessionsOwned' /\ NoSessionLeftOpen' /\ StopReachesScans' /\ CompleteMeansScanned'
  BY <1>1, <1>2, <1>3 DEF IInv, NothingLeftRunning, SessionsOwned, NoSessionLeftOpen,
                          StopReachesScans, CompleteMeansScanned, TypeOK
<1>6. CandidatesOpened'
  BY <1>2, <1>3 DEF IInv, CandidatesOpened, TypeOK
<1>7. StartedInOrder' /\ EndedInOrder'
  BY <1>1 DEF IInv, StartedInOrder, EndedInOrder
<1>8. QED BY <1>4, <1>5, <1>6, <1>7 DEF IInv, NothingLeftRunning

(* The Modbus flow goes on or ends without opening an endpoint; u are its     *)
(* candidates by now, none of them new to a run that listens.               *)
LEMMA UnopenedKeeps ==
    ASSUME IInv, upPhase = "running", upFound \subseteq upFound', upFound' \subseteq Candidates,
           Ignoring \/ upFound' = upFound,
           modbusCompleted' \in BOOLEAN, upPhase' = IF modbusCompleted' THEN "ended" ELSE "running",
           \/ outcome' = outcome /\ open' = open
           \/ modbusCompleted' /\ MaybeComplete(scan, open, TRUE),
           UNCHANGED <<upStopped, handle, stopping, failing, scan, cancelled, found>>
    PROVE  IInv'
<1>1. UNCHANGED <<upStopped, loopRuns, queued, started, stopRequested, loopEntered, gone,
                  stopping, failing, scan, cancelled, found>>
  BY DEF handle
<1>2. TypeOK /\ started /\ loopRuns /\ ~modbusCompleted
  BY DEF IInv, NothingLeftRunning, StartedInOrder
<1>3. \/ outcome' = outcome /\ open' = open
      \/ /\ ~gone /\ ~failing /\ outcome = "none" /\ modbusCompleted' /\ Scanned(scan)
         /\ outcome' = "completed" /\ open' = {}
  BY MaybeCompleteFacts
<1>4. TypeOK'
  BY <1>1, <1>2, <1>3 DEF TypeOK
<1>5. SessionsOwned' /\ NoSessionLeftOpen'
  BY <1>1, <1>3 DEF IInv, NothingLeftRunning, SessionsOwned, NoSessionLeftOpen, Ignoring, Terminal
<1>6. StopReachesScans' /\ CompleteMeansScanned'
  <2>1. CASE outcome' = outcome
    BY <1>1, <2>1 DEF IInv, NothingLeftRunning, StopReachesScans, CompleteMeansScanned,
                      Ignoring, Terminal
  <2>2. CASE ~gone /\ ~failing /\ outcome = "none" /\ modbusCompleted' /\ Scanned(scan)
    <3>1. upPhase' = "ended" /\ \A c \in Candidates : scan'[c] \in {"none", "completed"}
      BY <1>1, <2>2 DEF Scanned
    <3>2. ~stopRequested => upFound' = upFound /\ \A c \in upFound : scan[c] # "none"
      BY <2>2, Listening DEF Terminal, IInv, CandidatesOpened
    <3>3. QED BY <1>1, <1>2, <3>1, <3>2 DEF StopReachesScans, CompleteMeansScanned, TypeOK
  <2>3. QED BY <1>3, <2>1, <2>2
<1>7. CandidatesOpened'
  <2>1. ~Ignoring' => ~Ignoring
    BY <1>1, <1>3 DEF Ignoring, Terminal
  <2>2. QED BY <1>1, <2>1 DEF IInv, CandidatesOpened
<1>8. StartedInOrder' /\ EndedInOrder'
  BY <1>1, <1>2, <1>3 DEF IInv, StartedInOrder, EndedInOrder
<1>9. QED BY <1>4, <1>5, <1>6, <1>7, <1>8 DEF IInv, NothingLeftRunning

(* A Modbus flow that has failed, when the run no longer listens.            *)
LEMMA FailUnheardKeeps ==
    ASSUME IInv, Ignoring, upPhase = "running", upPhase' = "failed",
           UNCHANGED <<upFound, upStopped, handle, run, outcome, found>>
    PROVE  IInv'
<1>1. UNCHANGED <<upFound, upStopped, loopRuns, queued, started, stopRequested, loopEntered, gone,
                  stopping, failing, modbusCompleted, scan, cancelled, open, outcome, found>>
  BY DEF handle, run
<1>2. TypeOK'
  BY <1>1 DEF IInv, NothingLeftRunning, TypeOK
<1>3. SessionsOwned' /\ NoSessionLeftOpen' /\ StopReachesScans' /\ CompleteMeansScanned'
  BY <1>1 DEF IInv, NothingLeftRunning, SessionsOwned, NoSessionLeftOpen, StopReachesScans,
              CompleteMeansScanned, Ignoring, Terminal
<1>4. CandidatesOpened' /\ StartedInOrder' /\ EndedInOrder'
  BY <1>1 DEF IInv, CandidatesOpened, StartedInOrder, EndedInOrder, Ignoring, Terminal
<1>5. QED BY <1>2, <1>3, <1>4 DEF IInv, NothingLeftRunning

LEMMA UpstreamKeeps ==
    ASSUME IInv,
           \/ \E c \in Candidates : \/ UpstreamEmits(c) \/ UpstreamEmitsAndEnds(c)
                                    \/ UpstreamEmitsUnusable(c)
           \/ UpstreamEnds \/ UpstreamFails
    PROVE  IInv'
<1>1. modbusCompleted \in BOOLEAN /\ upFound \subseteq Candidates
      /\ (upPhase = "running" => ~modbusCompleted)
  BY DEF IInv, NothingLeftRunning, TypeOK, StartedInOrder
<1>2. ASSUME NEW c \in Candidates, UpstreamEmits(c) PROVE IInv'
  <2>1. /\ c \notin upFound /\ upPhase = "running" /\ upPhase' = "running"
        /\ upFound' = upFound \cup {c} /\ ~modbusCompleted /\ ~modbusCompleted'
        /\ modbusCompleted' \in BOOLEAN
        /\ OpenEndpoint(c)
        /\ UNCHANGED <<upStopped, handle, stopping, failing, cancelled, outcome, found>>
    BY <1>1, <1>2 DEF UpstreamEmits, Upstream!Emit
  <2>2. CASE Ignoring
    <3>1. UNCHANGED <<scan, open>>
      BY <2>1, <2>2 DEF OpenEndpoint
    <3>2. QED BY <1>1, <2>1, <2>2, <3>1, UnopenedKeeps
  <2>3. CASE ~Ignoring
    BY <2>1, <2>3, OpenEndpointKeeps
  <2>4. QED BY <2>2, <2>3
<1>3. ASSUME NEW c \in Candidates, UpstreamEmitsAndEnds(c) PROVE IInv'
  <2>1. /\ c \notin upFound /\ upPhase = "running" /\ upPhase' = "ended"
        /\ upFound' = upFound \cup {c} /\ modbusCompleted' = TRUE
        /\ UNCHANGED <<upStopped, handle, stopping, failing, cancelled, found>>
    BY <1>3 DEF UpstreamEmitsAndEnds, Upstream!EmitAndEnd
  <2>2. CASE Ignoring /\ MaybeComplete(scan, open, TRUE) /\ UNCHANGED scan
    BY <1>1, <2>1, <2>2, UnopenedKeeps
  <2>3. CASE ~Ignoring /\ OpenEndpoint(c) /\ UNCHANGED outcome
    BY <2>1, <2>3, OpenEndpointKeeps
  <2>4. QED BY <1>3, <2>2, <2>3 DEF UpstreamEmitsAndEnds
<1>4. ASSUME NEW c \in Candidates, UpstreamEmitsUnusable(c) PROVE IInv'
  <2>1. /\ upPhase = "running" /\ upPhase' = "running" /\ upFound' = upFound \cup {c}
        /\ Fail /\ ~gone /\ ~failing /\ ~Terminal
        /\ UNCHANGED <<handle, modbusCompleted, found>>
    BY <1>4 DEF UpstreamEmitsUnusable, Upstream!Emit, Ignoring
  <2>2. QED BY <1>1, <2>1, FailKeeps
<1>5. CASE UpstreamEnds
  <2>1. /\ upPhase = "running" /\ upPhase' = "ended" /\ upFound' = upFound
        /\ modbusCompleted' = TRUE /\ MaybeComplete(scan, open, TRUE)
        /\ UNCHANGED <<upStopped, handle, stopping, failing, scan, cancelled, found>>
    BY <1>5 DEF UpstreamEnds, Upstream!End
  <2>2. QED BY <1>1, <2>1, UnopenedKeeps
<1>6. CASE UpstreamFails
  <2>1. /\ upPhase = "running" /\ upPhase' = "failed" /\ upFound' = upFound /\ Fail
        /\ UNCHANGED <<handle, modbusCompleted, found>>
    BY <1>6 DEF UpstreamFails, Upstream!Fail
  <2>2. CASE gone \/ failing \/ Terminal
    <3>1. Ignoring /\ UNCHANGED <<upStopped, run, outcome>>
      BY <2>1, <2>2 DEF Fail, Ignoring, run
    <3>2. QED BY <2>1, <3>1, FailUnheardKeeps
  <2>3. CASE ~(gone \/ failing \/ Terminal)
    BY <1>1, <2>1, <2>3, FailKeeps
  <2>4. QED BY <2>2, <2>3
<1>7. QED BY <1>2, <1>3, <1>4, <1>5, <1>6

LEMMA ScanBeginsKeeps ==
    ASSUME IInv, NEW c \in Candidates, ScanBegins(c)
    PROVE  IInv'
<1>1. CASE c \in cancelled /\ ScannerCompleted(c)
  <2>1. found' \subseteq Candidates
    BY DEF ScanBegins, IInv, NothingLeftRunning, TypeOK
  <2>2. QED BY <1>1, <2>1, ScannerCompletedKeeps DEF ScanBegins
<1>2. CASE c \notin cancelled
  <2>1. /\ scan[c] = "posted" /\ scan' = [scan EXCEPT ![c] = "running"]
        /\ UNCHANGED <<upPhase, upFound, upStopped, loopRuns, queued, started, stopRequested,
                       loopEntered, gone, stopping, failing, modbusCompleted, cancelled, open,
                       outcome, found>>
    BY <1>2 DEF ScanBegins, upstream, handle
  <2>2. TypeOK /\ ~Ignoring
    BY <1>2, <2>1 DEF IInv, NothingLeftRunning, StopReachesScans
  <2>3. ~Ignoring' /\ outcome' = "none"
    BY <2>1, <2>2 DEF Ignoring, Terminal
  <2>4. /\ scan' \in [Candidates -> {"none", "posted", "running", "completed"}]
        /\ scan'[c] = "running" /\ \A d \in Candidates : d # c => scan'[d] = scan[d]
    BY <2>1, <2>2 DEF TypeOK
  <2>5. TypeOK'
    BY <2>1, <2>2, <2>4 DEF TypeOK
  <2>6. SessionsOwned' /\ NoSessionLeftOpen' /\ StopReachesScans' /\ CompleteMeansScanned'
    BY <2>1, <2>2, <2>3, <2>4 DEF IInv, NothingLeftRunning, SessionsOwned, NoSessionLeftOpen,
                                  StopReachesScans, CompleteMeansScanned, TypeOK
  <2>7. CandidatesOpened'
    BY <2>1, <2>2, <2>4 DEF IInv, CandidatesOpened, TypeOK
  <2>8. StartedInOrder' /\ EndedInOrder'
    BY <2>1 DEF IInv, StartedInOrder, EndedInOrder
  <2>9. QED BY <2>5, <2>6, <2>7, <2>8 DEF IInv, NothingLeftRunning
<1>3. QED BY <1>1, <1>2 DEF ScanBegins

(* A scan that runs belongs to a run that was started and is not over.       *)
LEMMA RunningScan ==
    ASSUME IInv, NEW c \in Candidates, scan[c] = "running"
    PROVE  ~Ignoring /\ outcome = "none" /\ started /\ loopRuns /\ upPhase # "idle"
BY DEF IInv, NothingLeftRunning, StopReachesScans, Ignoring, Terminal, CandidatesOpened,
       StartedInOrder

LEMMA ScanMovesKeeps ==
    ASSUME IInv, NEW c \in Candidates, ScanMoves(c)
    PROVE  IInv'
<1>1. CASE ScanBegins(c)
  BY <1>1, ScanBeginsKeeps
<1>2. CASE ScanFails(c)
  <2>1. /\ ~Ignoring /\ Fail /\ upPhase # "idle" /\ upPhase' = upPhase /\ upFound' = upFound
        /\ UNCHANGED <<handle, modbusCompleted, found>>
    BY <1>2, RunningScan DEF ScanFails
  <2>2. ~gone /\ ~failing /\ ~Terminal
    BY <2>1 DEF Ignoring
  <2>3. upFound' \subseteq Candidates
    BY <2>1 DEF IInv, NothingLeftRunning, TypeOK
  <2>4. QED BY <2>1, <2>2, <2>3, FailKeeps
<1>3. CASE FoundThenStop(c)
  <2>1. /\ StopRun /\ ~Ignoring /\ ~stopRequested /\ found' = found \cup {c} /\ gone' = gone
        /\ loopRuns /\ started
    BY <1>3, RunningScan DEF FoundThenStop
  <2>2. found' \subseteq Candidates /\ gone' \in BOOLEAN /\ ~gone /\ ~Terminal
    BY <2>1 DEF IInv, NothingLeftRunning, TypeOK, Ignoring
  <2>3. QED BY <2>1, <2>2, StopRunKeeps
<1>4. ASSUME NEW named \in BOOLEAN, ScanEnds(c, named) PROVE IInv'
  <2>1. found' \subseteq Candidates
    BY <1>4 DEF ScanEnds, IInv, NothingLeftRunning, TypeOK
  <2>2. QED BY <1>4, <2>1, ScannerCompletedKeeps DEF ScanEnds
<1>5. QED BY <1>1, <1>2, <1>3, <1>4 DEF ScanMoves

LEMMA NextIInv == IInv /\ [Next]_vars => IInv'
<1> SUFFICES ASSUME IInv, [Next]_vars PROVE IInv'
  OBVIOUS
<1>1. CASE LoopStarts
  BY <1>1, LoopStartsKeeps
<1>2. CASE Start
  BY <1>2, StartKeeps
<1>3. CASE RunQueuedStart
  BY <1>3, RunQueuedStartKeeps
<1>4. CASE StopBeforeLoop
  BY <1>4, StopBeforeLoopKeeps
<1>5. CASE StopOnLoop
  BY <1>5, StopOnLoopKeeps
<1>6. CASE Destroy
  BY <1>6, DestroyKeeps
<1>7. CASE \/ \E c \in Candidates : \/ UpstreamEmits(c) \/ UpstreamEmitsAndEnds(c)
                                    \/ UpstreamEmitsUnusable(c)
           \/ UpstreamEnds \/ UpstreamFails
  BY <1>7, UpstreamKeeps
<1>8. CASE \E c \in Candidates : ScanMoves(c)
  BY <1>8, ScanMovesKeeps
<1>9. CASE UNCHANGED vars
  <2>1. UNCHANGED <<upPhase, upFound, upStopped, loopRuns, queued, started, stopRequested,
                    loopEntered, gone, stopping, failing, modbusCompleted, scan, cancelled, open,
                    outcome, found>>
    BY <1>9 DEF vars, upstream, handle, run
  <2>2. TypeOK'
    BY <2>1 DEF IInv, NothingLeftRunning, TypeOK
  <2>3. SessionsOwned' /\ NoSessionLeftOpen' /\ StopReachesScans' /\ CompleteMeansScanned'
    BY <2>1 DEF IInv, NothingLeftRunning, SessionsOwned, NoSessionLeftOpen, StopReachesScans,
                CompleteMeansScanned, Ignoring, Terminal
  <2>4. CandidatesOpened' /\ StartedInOrder' /\ EndedInOrder'
    BY <2>1 DEF IInv, CandidatesOpened, StartedInOrder, EndedInOrder, Ignoring, Terminal
  <2>5. QED BY <2>2, <2>3, <2>4 DEF IInv, NothingLeftRunning
<1>10. QED
  BY <1>1, <1>2, <1>3, <1>4, <1>5, <1>6, <1>7, <1>8, <1>9 DEF Next

(* A SunSpec discovery's run, its scans and its sessions stand as its calls   *)
(* and callbacks have left them in order (Run in                            *)
(* src/sunspec/SunspecDiscovery.cpp).                                       *)
THEOREM Invariance == Spec => []IInv
BY InitIInv, NextIInv, PTL DEF Spec

(* However a run ends, no session is left open, no scan is left running and   *)
(* the discovery below is over or was told to stop (stopInLoop, fail,        *)
(* maybeComplete, the destructor).                                          *)
THEOREM NothingIsLeftRunning == Spec => []NothingLeftRunning
<1>1. IInv => NothingLeftRunning
  BY DEF IInv
<1>2. QED BY Invariance, <1>1, PTL

(* A run that completes without a stop has scanned every candidate that was   *)
(* reported (maybeComplete).                                                *)
THEOREM CompletionIsWhole == Spec => []CompleteMeansScanned
<1>1. IInv => CompleteMeansScanned
  BY DEF IInv
<1>2. QED BY Invariance, <1>1, PTL

-----------------------------------------------------------------------------
(* A run ends with whatever it waits for last.                              *)

Waits == queued \/ upPhase = "running" \/ \E c \in Candidates : scan[c] \in {"posted", "running"}

(* A failure of the Modbus discovery is the run's own; while the run goes on, *)
(* the end of the Modbus discovery leaves a scan to wait for.                *)
Awaiting ==
    started /\ outcome = "none" /\ ~gone => Waits /\ upPhase # "failed"

(* Before the Modbus discovery starts, a run waits for its own start.         *)
LEMMA IdleIsQueued ==
    ASSUME IInv, Waits, upPhase = "idle"
    PROVE  queued
BY DEF IInv, CandidatesOpened, Waits

(* Where maybeComplete does not end the run, something is left to wait for.    *)
LEMMA MaybeCompleteWaits ==
    ASSUME IInv, IInv', Awaiting, NEW o, NEW up \in BOOLEAN, MaybeComplete(scan', o, up),
           UNCHANGED <<queued, started, gone>>,
           \/ upPhase' = "ended" /\ up
           \/ upPhase' = upPhase /\ (up <=> upPhase = "ended")
    PROVE  Awaiting'
<1> SUFFICES ASSUME started', outcome' = "none", ~gone' PROVE Waits' /\ upPhase' # "failed"
  BY DEF Awaiting
<1>1. outcome = "none" /\ ~gone /\ started /\ ~failing
  BY MaybeCompleteFacts DEF IInv, EndedInOrder
<1>2. Waits /\ upPhase # "failed"
  BY <1>1 DEF Awaiting
<1>3. CASE up
  <2>1. ~Scanned(scan')
    BY <1>1, <1>3 DEF MaybeComplete, Terminal
  <2>2. \E c \in Candidates : scan'[c] \in {"posted", "running"}
    <3>1. scan' \in [Candidates -> {"none", "posted", "running", "completed"}]
      BY DEF IInv, NothingLeftRunning, TypeOK
    <3>2. QED BY <2>1, <3>1 DEF Scanned
  <2>3. QED BY <1>2, <1>3, <2>2 DEF Waits
<1>4. CASE ~up
  <2>1. upPhase' = upPhase /\ upPhase # "ended"
    BY <1>4
  <2>2. upPhase \in {"idle", "running"}
    BY <1>2, <2>1 DEF IInv, NothingLeftRunning, TypeOK
  <2>3. QED BY <1>2, <2>1, <2>2, IdleIsQueued DEF Waits
<1>5. QED BY <1>3, <1>4

LEMMA StopRunAwaits ==
    ASSUME IInv, IInv', Awaiting, StopRun, gone' = gone
    PROVE  Awaiting'
<1>1. /\ scan' = Cancelled /\ UNCHANGED <<upPhase, queued, started, gone>>
      /\ modbusCompleted \in BOOLEAN /\ (modbusCompleted <=> upPhase = "ended")
  BY DEF StopRun, IInv, StartedInOrder, NothingLeftRunning, TypeOK
<1>2. CASE Cancelled # scan
  <2>1. MaybeComplete(scan', {}, modbusCompleted)
    BY <1>1, <1>2 DEF StopRun
  <2>2. QED BY <1>1, <2>1, MaybeCompleteWaits
<1>3. CASE Cancelled = scan
  <2>1. scan' = scan /\ outcome' = outcome
    BY <1>1, <1>3 DEF StopRun
  <2>2. QED BY <1>1, <2>1 DEF Awaiting, Waits
<1>4. QED BY <1>2, <1>3

LEMMA ScannerCompletedAwaits ==
    ASSUME IInv, IInv', Awaiting, NEW c \in Candidates, ScannerCompleted(c),
           UNCHANGED <<upPhase, queued, started, gone>>
    PROVE  Awaiting'
<1>1. modbusCompleted \in BOOLEAN /\ (modbusCompleted <=> upPhase = "ended")
  BY DEF IInv, StartedInOrder, NothingLeftRunning, TypeOK
<1>2. MaybeComplete(scan', open \ {c}, modbusCompleted)
  BY DEF ScannerCompleted
<1>3. QED BY <1>1, <1>2, MaybeCompleteWaits

(* A run that fails tells it, unless it is over or destroyed.                *)
LEMMA FailAwaits ==
    ASSUME IInv, Fail, gone' = gone
    PROVE  Awaiting'
<1>1. failing => outcome = "failed"
  BY DEF IInv, EndedInOrder
<1>2. outcome' # "none" \/ gone'
  BY <1>1 DEF Fail, Terminal
<1>3. QED BY <1>2 DEF Awaiting

(* Entering the loop starts the Modbus discovery or ends the run.            *)
LEMMA EnterAwaits ==
    ASSUME IInv, Enter
    PROVE  Awaiting'
<1>1. failing => outcome = "failed"
  BY DEF IInv, EndedInOrder
<1>2. outcome' # "none" \/ upPhase' = "running"
  BY <1>1 DEF Enter, Terminal, Upstream!Start
<1>3. QED BY <1>2 DEF Awaiting, Waits

LEMMA UpstreamAwaits ==
    ASSUME IInv, IInv', Awaiting,
           \/ \E c \in Candidates : \/ UpstreamEmits(c) \/ UpstreamEmitsAndEnds(c)
                                    \/ UpstreamEmitsUnusable(c)
           \/ UpstreamEnds \/ UpstreamFails
    PROVE  Awaiting'
<1>1. CASE \E c \in Candidates : UpstreamEmits(c) \/ UpstreamEmitsUnusable(c)
  <2>1. upPhase' = "running"
    BY <1>1 DEF UpstreamEmits, UpstreamEmitsUnusable, Upstream!Emit
  <2>2. QED BY <2>1 DEF Awaiting, Waits
<1>2. ASSUME NEW c \in Candidates, UpstreamEmitsAndEnds(c) PROVE Awaiting'
  <2>1. upPhase' = "ended" /\ UNCHANGED <<queued, started, gone>>
    BY <1>2 DEF UpstreamEmitsAndEnds, Upstream!EmitAndEnd, handle
  <2>2. CASE MaybeComplete(scan, open, TRUE) /\ scan' = scan
    <3>1. MaybeComplete(scan', open, TRUE)
      BY <2>2
    <3>2. QED BY <2>1, <3>1, MaybeCompleteWaits
  <2>3. CASE ~Ignoring /\ OpenEndpoint(c)
    <3>1. scan'[c] = "posted"
      BY <2>3 DEF OpenEndpoint, IInv, NothingLeftRunning, TypeOK
    <3>2. QED BY <2>1, <3>1 DEF Awaiting, Waits
  <2>4. QED BY <1>2, <2>2, <2>3 DEF UpstreamEmitsAndEnds
<1>3. CASE UpstreamEnds
  <2>1. upPhase' = "ended" /\ UNCHANGED <<queued, started, gone>>
    BY <1>3 DEF UpstreamEnds, Upstream!End, handle
  <2>2. MaybeComplete(scan', open, TRUE)
    BY <1>3 DEF UpstreamEnds
  <2>3. QED BY <2>1, <2>2, MaybeCompleteWaits
<1>4. CASE UpstreamFails
  <2>1. Fail /\ gone' = gone
    BY <1>4 DEF UpstreamFails, handle
  <2>2. QED BY <2>1, FailAwaits
<1>5. QED BY <1>1, <1>2, <1>3, <1>4

LEMMA ScanMovesAwaits ==
    ASSUME IInv, IInv', Awaiting, NEW c \in Candidates, ScanMoves(c)
    PROVE  Awaiting'
<1>1. CASE ScanBegins(c)
  <2>1. UNCHANGED <<upPhase, queued, started, gone>>
    BY <1>1 DEF ScanBegins, upstream, handle
  <2>2. CASE scan' = [scan EXCEPT ![c] = "running"] /\ outcome' = outcome
    <3>1. scan'[c] = "running"
      BY <2>2 DEF IInv, NothingLeftRunning, TypeOK
    <3>2. QED BY <2>1, <2>2, <3>1 DEF Awaiting, Waits
  <2>3. CASE ScannerCompleted(c)
    BY <2>1, <2>3, ScannerCompletedAwaits
  <2>4. QED BY <1>1, <2>2, <2>3 DEF ScanBegins
<1>2. CASE ScanFails(c)
  <2>1. Fail /\ gone' = gone
    BY <1>2, RunningScan DEF ScanFails, handle
  <2>2. QED BY <2>1, FailAwaits
<1>3. CASE FoundThenStop(c)
  <2>1. StopRun /\ gone' = gone
    BY <1>3 DEF FoundThenStop
  <2>2. QED BY <2>1, StopRunAwaits
<1>4. ASSUME NEW named \in BOOLEAN, ScanEnds(c, named) PROVE Awaiting'
  <2>1. ScannerCompleted(c) /\ UNCHANGED <<upPhase, queued, started, gone>>
    BY <1>4 DEF ScanEnds, upstream, handle
  <2>2. QED BY <2>1, ScannerCompletedAwaits
<1>5. QED BY <1>1, <1>2, <1>3, <1>4 DEF ScanMoves

LEMMA NextAwaiting == ASSUME IInv, IInv', Awaiting, [Next]_vars PROVE Awaiting'
<1>1. CASE LoopStarts \/ StopBeforeLoop \/ UNCHANGED vars
  <2>1. UNCHANGED <<upPhase, queued, started, gone, scan, outcome>>
    BY <1>1 DEF LoopStarts, StopBeforeLoop, vars, upstream, handle, run
  <2>2. QED BY <2>1 DEF Awaiting, Waits
<1>2. CASE Start
  <2>1. CASE Enter
    BY <2>1, EnterAwaits
  <2>2. CASE queued' = TRUE /\ UNCHANGED upstream
    <3>1. ~started /\ upPhase' = upPhase
      BY <1>2, <2>2 DEF Start, upstream
    <3>2. upPhase = "idle"
      BY <3>1 DEF IInv, StartedInOrder
    <3>3. QED BY <2>2, <3>1, <3>2 DEF Awaiting, Waits
  <2>3. QED BY <1>2, <2>1, <2>2 DEF Start, upstream
<1>3. CASE RunQueuedStart
  <2>1. gone' = gone
    BY <1>3 DEF RunQueuedStart
  <2>2. QED BY <1>3, <2>1, EnterAwaits DEF RunQueuedStart, Awaiting
<1>4. CASE StopOnLoop
  <2>1. StopRun /\ gone' = gone
    BY <1>4 DEF StopOnLoop
  <2>2. QED BY <2>1, StopRunAwaits
<1>5. CASE Destroy
  BY <1>5 DEF Destroy, Awaiting
<1>6. CASE \/ \E c \in Candidates : \/ UpstreamEmits(c) \/ UpstreamEmitsAndEnds(c)
                                    \/ UpstreamEmitsUnusable(c)
           \/ UpstreamEnds \/ UpstreamFails
  BY <1>6, UpstreamAwaits
<1>7. CASE \E c \in Candidates : ScanMoves(c)
  BY <1>7, ScanMovesAwaits
<1>8. QED BY <1>1, <1>2, <1>3, <1>4, <1>5, <1>6, <1>7 DEF Next

(* A run ends when, and only when, the discovery below and every scan have     *)
(* ended, in whatever order they do: it never waits for something that is      *)
(* over already (maybeComplete, scannerCompleted, stopInLoop, startInLoop).   *)
THEOREM EndIsExact == Spec => []EndsWhenScanned
<1>1. Init => Awaiting
  BY DEF Init, Awaiting
<1>2. IInv /\ IInv' /\ Awaiting /\ [Next]_vars => Awaiting'
  BY NextAwaiting
<1>3. IInv /\ Awaiting => EndsWhenScanned
  BY DEF IInv, Awaiting, Waits, EndsWhenScanned, NeverStalls
<1>4. QED BY <1>1, <1>2, <1>3, Invariance, PTL DEF Spec

-----------------------------------------------------------------------------
(* What the flow's subscribers see.                                        *)

(* The flow ends once, and only after its start.                            *)
LEMMA OutcomeChanges ==
    ASSUME IInv, [Next]_vars, outcome' # outcome
    PROVE  started /\ started' = started /\ outcome = "none" /\ outcome' \in {"completed", "failed"}
<1>1. ~LoopStarts /\ ~StopBeforeLoop /\ ~UNCHANGED vars
  BY DEF LoopStarts, StopBeforeLoop, vars
<1>2. ~Start
  BY DEF Start, Enter, IInv, StartedInOrder, Terminal
<1>3. CASE RunQueuedStart
  BY <1>3 DEF RunQueuedStart, Enter, IInv, StartedInOrder, Terminal
<1>4. CASE StopRun
  <2>1. outcome = "none" /\ outcome' = "completed" /\ started' = started
    BY <1>4, MaybeCompleteFacts DEF StopRun
  <2>2. modbusCompleted
    BY <1>4, <2>1 DEF StopRun, MaybeComplete
  <2>3. QED BY <2>1, <2>2 DEF IInv, StartedInOrder
<1>5. CASE \/ \E c \in Candidates : \/ UpstreamEmits(c) \/ UpstreamEmitsAndEnds(c)
                                    \/ UpstreamEmitsUnusable(c)
           \/ UpstreamEnds \/ UpstreamFails
  <2>1. upPhase = "running" /\ started' = started
    BY <1>5 DEF UpstreamEmits, UpstreamEmitsAndEnds, UpstreamEmitsUnusable, UpstreamEnds,
                UpstreamFails, Upstream!Emit, Upstream!EmitAndEnd, Upstream!End, Upstream!Fail,
                handle
  <2>2. outcome = "none" /\ outcome' \in {"completed", "failed"}
    BY <1>5, MaybeCompleteFacts
       DEF UpstreamEmits, UpstreamEmitsAndEnds, UpstreamEmitsUnusable, UpstreamEnds,
           UpstreamFails, Fail, Terminal
  <2>3. QED BY <2>1, <2>2 DEF IInv, StartedInOrder
<1>6. ASSUME NEW c \in Candidates, ScanBegins(c) \/ ScanFails(c)
                                   \/ \E named \in BOOLEAN : ScanEnds(c, named)
      PROVE  /\ started /\ started' = started /\ outcome = "none"
             /\ outcome' \in {"completed", "failed"}
  <2>1. scan[c] \in {"posted", "running"} /\ started' = started
    BY <1>6 DEF ScanBegins, ScanFails, ScanEnds, handle
  <2>2. started
    BY <2>1 DEF IInv, CandidatesOpened, StartedInOrder
  <2>3. outcome = "none" /\ outcome' \in {"completed", "failed"}
    BY <1>6, MaybeCompleteFacts DEF ScanBegins, ScanFails, ScanEnds, ScannerCompleted, Fail,
                                    Terminal
  <2>4. QED BY <2>1, <2>2, <2>3
<1>7. CASE StopOnLoop \/ Destroy \/ \E c \in Candidates : FoundThenStop(c)
  BY <1>4, <1>7 DEF StopOnLoop, Destroy, FoundThenStop
<1>8. QED BY <1>1, <1>2, <1>3, <1>5, <1>6, <1>7 DEF Next, ScanMoves

(* A run that is over, or was asked to be, stays so: it neither starts the     *)
(* Modbus discovery any more nor has yet to stop it.                         *)
LEMMA OverStays ==
    ASSUME IInv, [Next]_vars, stopRequested \/ outcome # "none"
    PROVE  /\ stopRequested' \/ outcome' # "none"
           /\ upPhase = "idle" => upPhase' = "idle"
           /\ upStopped' = upStopped
<1>1. CASE UNCHANGED vars
  BY <1>1 DEF vars, upstream, handle
<1>2. CASE LoopStarts \/ StopBeforeLoop
  BY <1>2 DEF LoopStarts, StopBeforeLoop, upstream
<1>3. ~Start
  BY DEF Start, IInv, StartedInOrder
<1>4. CASE RunQueuedStart
  BY <1>4 DEF RunQueuedStart, Enter, Terminal, upstream
<1>5. CASE Destroy
  BY <1>5 DEF Destroy, Terminal, upstream
<1>6. ~StopOnLoop
  BY DEF StopOnLoop, Terminal
<1>7. CASE \/ \E c \in Candidates : \/ UpstreamEmits(c) \/ UpstreamEmitsAndEnds(c)
                                    \/ UpstreamEmitsUnusable(c)
           \/ UpstreamEnds \/ UpstreamFails
  <2>1. upPhase = "running" /\ stopRequested' = stopRequested
    BY <1>7 DEF UpstreamEmits, UpstreamEmitsAndEnds, UpstreamEmitsUnusable, UpstreamEnds,
                UpstreamFails, Upstream!Emit, Upstream!EmitAndEnd, Upstream!End, Upstream!Fail,
                handle
  <2>2. stopRequested => stopping /\ upStopped
    BY <2>1 DEF IInv, StartedInOrder, EndedInOrder
  <2>3. upStopped' = upStopped
    BY <1>7, <2>2 DEF UpstreamEmits, UpstreamEmitsAndEnds, UpstreamEmitsUnusable, UpstreamEnds,
                UpstreamFails, Fail, Ignoring, Terminal, IInv, NothingLeftRunning, TypeOK
  <2>4. QED BY <2>1, <2>3, OutcomeChanges
<1>8. CASE \E c \in Candidates : ScanMoves(c)
  <2>1. PICK c \in Candidates : ScanMoves(c)
    BY <1>8
  <2>2. scan[c] # "running"
    <3>1. Ignoring \/ upPhase = "idle"
      BY DEF IInv, StartedInOrder, Ignoring, Terminal
    <3>2. QED BY <3>1, RunningScan
  <2>3. ScanBegins(c)
    BY <2>1, <2>2 DEF ScanMoves, ScanFails, FoundThenStop, ScanEnds
  <2>4. UNCHANGED <<upPhase, upStopped, stopRequested>>
    BY <2>3 DEF ScanBegins, upstream, handle
  <2>5. QED BY <2>4, OutcomeChanges
<1>9. QED BY <1>1, <1>2, <1>3, <1>4, <1>5, <1>6, <1>7, <1>8 DEF Next

(* What is destroyed stays destroyed.                                      *)
LEMMA GoneStays ==
    ASSUME [Next]_vars, gone
    PROVE  gone'
BY DEF Next, vars, handle, ScanMoves, LoopStarts, Start, RunQueuedStart, StopBeforeLoop,
       StopOnLoop, Destroy, UpstreamEmits, UpstreamEmitsAndEnds, UpstreamEmitsUnusable,
       UpstreamEnds, UpstreamFails, ScanBegins, ScanFails, ScanEnds, FoundThenStop

(* A thing comes from a scan that runs, of a run that listens.               *)
LEMMA FoundChanges ==
    ASSUME IInv, [Next]_vars, found' # found
    PROVE  \E c \in Candidates : /\ scan[c] = "running" /\ found' = found \cup {c}
                                 /\ outcome' \in {"none", "completed"} /\ started' = started
<1>1. PICK c \in Candidates : FoundThenStop(c) \/ \E named \in BOOLEAN : ScanEnds(c, named)
  BY DEF Next, vars, ScanMoves, LoopStarts, Start, RunQueuedStart, StopBeforeLoop, StopOnLoop,
         Destroy, UpstreamEmits, UpstreamEmitsAndEnds, UpstreamEmitsUnusable, UpstreamEnds,
         UpstreamFails, ScanBegins, ScanFails
<1>2. scan[c] = "running" /\ found' = found \cup {c} /\ started' = started
  BY <1>1 DEF FoundThenStop, ScanEnds, StopRun, handle
<1>3. outcome = "none"
  BY <1>2, RunningScan
<1>4. outcome' \in {"none", "completed"}
  BY <1>1, <1>3, MaybeCompleteFacts DEF FoundThenStop, ScanEnds, StopRun, ScannerCompleted
<1>5. QED BY <1>2, <1>4

(* Each step is one of the flow, or none of its business.                   *)
LEMMA FlowStep ==
    ASSUME IInv, [Next]_vars
    PROVE  [Flow!Next]_<<Phase, found>>
<1>1. /\ outcome \in {"none", "completed", "failed"} /\ started \in BOOLEAN
      /\ (~started => outcome = "none")
  BY DEF IInv, NothingLeftRunning, TypeOK, StartedInOrder
<1>2. CASE found' # found
  <2>1. PICK c \in Candidates : /\ scan[c] = "running" /\ found' = found \cup {c}
                                /\ outcome' \in {"none", "completed"} /\ started' = started
    BY <1>2, FoundChanges
  <2>2. outcome = "none" /\ started
    BY <2>1, RunningScan
  <2>3. Flow!Emit(c) \/ Flow!EmitAndEnd(c)
    BY <2>1, <2>2 DEF Phase, Flow!Emit, Flow!EmitAndEnd
  <2>4. QED BY <2>3 DEF Flow!Next
<1>3. CASE found' = found /\ outcome' # outcome
  <2>1. started /\ started' = started /\ outcome = "none" /\ outcome' \in {"completed", "failed"}
    BY <1>3, OutcomeChanges
  <2>2. Flow!End \/ Flow!Fail
    BY <1>3, <2>1 DEF Phase, Flow!End, Flow!Fail
  <2>3. QED BY <2>2 DEF Flow!Next
<1>4. CASE found' = found /\ outcome' = outcome
  <2>1. started' = started \/ (~started /\ started' = TRUE)
    BY <1>4 DEF Next, vars, handle, ScanMoves, LoopStarts, Start, RunQueuedStart, StopBeforeLoop,
                StopOnLoop, Destroy, StopRun, UpstreamEmits, UpstreamEmitsAndEnds,
                UpstreamEmitsUnusable, UpstreamEnds, UpstreamFails, ScanBegins, ScanFails,
                ScanEnds, FoundThenStop
  <2>2. CASE started' = started
    BY <1>4, <2>2 DEF Phase
  <2>3. CASE ~started /\ started' = TRUE
    <3>1. Flow!Start
      BY <1>1, <1>4, <2>3 DEF Phase, Flow!Start
    <3>2. QED BY <3>1 DEF Flow!Next
  <2>4. QED BY <2>1, <2>2, <2>3
<1>5. QED BY <1>2, <1>3, <1>4

(* A SunSpec discovery keeps the contract of ThingDiscovery: things only      *)
(* while its flow runs, and one end of it.                                  *)
THEOREM FlowImplemented == Spec => ImplementsFlow
<1>1. Init => Flow!Init
  BY DEF Init, Phase, Flow!Init
<1>2. QED BY <1>1, Invariance, FlowStep, PTL DEF Spec, ImplementsFlow, Flow!Spec
=============================================================================
