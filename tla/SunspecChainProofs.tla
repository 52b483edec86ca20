------------------------- MODULE SunspecChainProofs --------------------------
(***************************************************************************)
(* Theorems about the Modbus discovery and about the chain that runs it     *)
(* below the SunSpec discovery, for every set of ports, every list of unit  *)
(* IDs, every concurrency and every number of stops.  First the Modbus      *)
(* discovery by itself, as ModbusDiscovery specifies it; then the chain:    *)
(* each of the two discoveries still behaves as its own specification says, *)
(* so what is proved of each holds of it in the chain, and a chain that has *)
(* been destroyed is left alone.                                           *)
(***************************************************************************)
EXTENDS SunspecChain, SequenceTheorems, FiniteSetTheorems, TLAPS

-----------------------------------------------------------------------------
(* The Modbus discovery: its inductive invariant.                          *)

(* Identifiers that run can be counted.                                     *)
RunningFinite == IsFiniteSet(active)

(* A session has jobs only while it is subscribed, which it is from the start  *)
(* of the port scan to its end, and has none once it is stopped; it can be    *)
(* stopped until it ends, and it stops a port scan that has not failed.       *)
SessionInOrder ==
    /\ stopAction <=> started /\ ~completed
    /\ pending # <<>> \/ active # {} => subscribed
    /\ subscribed => started /\ ~completed
    /\ stopped => pending = <<>> /\ active = {}
    /\ upStopped => stopped
    /\ stopped => upStopped \/ upPhase = "failed"
    /\ upPhase # "idle" => subscribed \/ completed

(* How the flow stands follows from how the session has gone.               *)
OutcomeInOrder ==
    /\ outcome # "none" <=> completed
    /\ outcome = "failed" => stopped
    /\ upstreamCompleted /\ ~stopped => upPhase = "ended"
    /\ ~started => tasks = <<>> /\ ~stopAction /\ ~completed /\ upPhase = "idle"

IInv == JobsAccounted /\ RunningFinite /\ SessionInOrder /\ OutcomeInOrder

-----------------------------------------------------------------------------
(* Sequences without repetition.                                           *)

(* What is behind the first n elements of a queue.                          *)
LEMMA RestOfQueue ==
    ASSUME NEW S, NEW p \in Seq(S), NEW n \in Nat, n <= Len(p)
    PROVE  /\ SubSeq(p, n + 1, Len(p)) \in Seq(S)
           /\ Len(SubSeq(p, n + 1, Len(p))) = Len(p) - n
           /\ \A i \in 1..(Len(p) - n) : SubSeq(p, n + 1, Len(p))[i] = p[n + i]
<1>1. Len(p) \in Nat /\ \A i \in 1..Len(p) : p[i] \in S
  BY LenProperties
<1>2. n + 1 \in Int /\ Len(p) \in Int /\ \A i \in (n + 1)..Len(p) : p[i] \in S
  BY <1>1
<1>3. /\ SubSeq(p, n + 1, Len(p)) \in Seq(S)
      /\ Len(SubSeq(p, n + 1, Len(p)))
            = IF n + 1 <= Len(p) THEN Len(p) - (n + 1) + 1 ELSE 0
      /\ \A i \in 1..(Len(p) - (n + 1) + 1) : SubSeq(p, n + 1, Len(p))[i] = p[(n + 1) + i - 1]
  BY <1>2, SubSeqProperties
<1>4. Len(p) - (n + 1) + 1 = Len(p) - n /\ (n + 1 <= Len(p) \/ Len(p) - n = 0)
  BY <1>1
<1>5. ASSUME NEW i \in 1..(Len(p) - n)
      PROVE  SubSeq(p, n + 1, Len(p))[i] = p[n + i]
  <2>1. (n + 1) + i - 1 = n + i
    OBVIOUS
  <2>2. QED BY <1>3, <1>4, <2>1
<1>6. QED BY <1>3, <1>4, <1>5

FirstOf(p, n) == {p[i] : i \in 1..n}

(* A queue cut in two: its first n elements and the rest.                   *)
LEMMA CutQueue ==
    ASSUME NEW S, NEW p \in Seq(S), IsInjective(p), NEW n \in Nat, n <= Len(p),
           NEW rest \in Seq(S), Len(rest) = Len(p) - n,
           \A i \in 1..(Len(p) - n) : rest[i] = p[n + i]
    PROVE  /\ IsInjective(rest)
           /\ rest = <<>> <=> n = Len(p)
           /\ Range(p) = FirstOf(p, n) \cup Range(rest)
           /\ FirstOf(p, n) \cap Range(rest) = {}
           /\ IsFiniteSet(FirstOf(p, n)) /\ Cardinality(FirstOf(p, n)) = n
<1>1. p \in [1..Len(p) -> S] /\ DOMAIN p = 1..Len(p) /\ Len(p) \in Nat
  BY LenProperties
<1>2. DOMAIN rest = 1..(Len(p) - n)
  BY LenProperties
<1>3. \A i, j \in 1..Len(p) : p[i] = p[j] => i = j
  BY <1>1 DEF IsInjective
<1>4. IsInjective(rest)
  <2>1. \A i \in 1..(Len(p) - n) : n + i \in 1..Len(p)
    BY <1>1
  <2>2. SUFFICES ASSUME NEW i \in 1..(Len(p) - n), NEW j \in 1..(Len(p) - n), rest[i] = rest[j]
                 PROVE  i = j
    BY <1>2 DEF IsInjective
  <2>3. n + i = n + j
    BY <1>3, <2>1, <2>2
  <2>4. QED BY <2>3
<1>5. rest = <<>> <=> n = Len(p)
  BY <1>1, EmptySeq
<1>6. Range(rest) = {p[i] : i \in (n + 1)..Len(p)}
  <2>1. ASSUME NEW i \in (n + 1)..Len(p)
        PROVE  i - n \in 1..(Len(p) - n) /\ p[i] = rest[i - n]
    <3>1. i - n \in 1..(Len(p) - n) /\ n + (i - n) = i
      BY <1>1
    <3>2. QED BY <3>1
  <2>2. \A i \in 1..(Len(p) - n) : n + i \in (n + 1)..Len(p) /\ rest[i] = p[n + i]
    BY <1>1
  <2>3. Range(rest) = {rest[i] : i \in 1..(Len(p) - n)}
    BY <1>2 DEF Range
  <2>4. Range(rest) \subseteq {p[i] : i \in (n + 1)..Len(p)}
    BY <2>2, <2>3
  <2>5. {p[i] : i \in (n + 1)..Len(p)} \subseteq Range(rest)
    <3>1. ASSUME NEW i \in (n + 1)..Len(p)
          PROVE  p[i] \in Range(rest)
      BY <2>1, <2>3
    <3>2. QED BY <3>1
  <2>6. QED BY <2>4, <2>5
<1>7. Range(p) = {p[i] : i \in 1..Len(p)}
  BY <1>1 DEF Range
<1>8. Range(p) = FirstOf(p, n) \cup Range(rest)
  BY <1>1, <1>6, <1>7 DEF FirstOf
<1>9. FirstOf(p, n) \cap Range(rest) = {}
  BY <1>1, <1>3, <1>6 DEF FirstOf
<1>10. IsFiniteSet(FirstOf(p, n)) /\ Cardinality(FirstOf(p, n)) = n
  <2> DEFINE count == [i \in 1..n |-> p[i]]
  <2>1. count \in Bijection(1..n, FirstOf(p, n))
    BY <1>1, <1>3 DEF Bijection, Injection, Surjection, IsInjective, FirstOf
  <2>2. ExistsBijection(1..n, FirstOf(p, n))
    BY <2>1 DEF ExistsBijection
  <2>3. QED BY <2>2, FS_CountingElements, FS_NatBijection
<1>11. QED BY <1>4, <1>5, <1>8, <1>9, <1>10

(* Two queues with nothing in common, one behind the other.                 *)
LEMMA JoinQueues ==
    ASSUME NEW S, NEW p \in Seq(S), NEW q \in Seq(S), IsInjective(p), IsInjective(q),
           Range(p) \cap Range(q) = {}
    PROVE  p \o q \in Seq(S) /\ IsInjective(p \o q) /\ Range(p \o q) = Range(p) \cup Range(q)
<1>1. /\ p \o q \in Seq(S) /\ Len(p \o q) = Len(p) + Len(q)
      /\ \A i \in 1..(Len(p) + Len(q)) :
            (p \o q)[i] = IF i <= Len(p) THEN p[i] ELSE q[i - Len(p)]
  BY ConcatProperties
<1>2. /\ DOMAIN p = 1..Len(p) /\ Len(p) \in Nat
      /\ DOMAIN q = 1..Len(q) /\ Len(q) \in Nat
      /\ DOMAIN (p \o q) = 1..(Len(p) + Len(q))
  BY <1>1, LenProperties
<1>3. SUFFICES ASSUME NEW i \in DOMAIN (p \o q), NEW j \in DOMAIN (p \o q),
                      (p \o q)[i] = (p \o q)[j]
               PROVE  i = j
  BY <1>1, RangeConcatenation DEF IsInjective
<1>4. \A k \in 1..Len(p), l \in 1..Len(q) : p[k] # q[l]
  BY <1>2 DEF Range
<1>5. /\ \A k, l \in 1..Len(p) : p[k] = p[l] => k = l
      /\ \A k, l \in 1..Len(q) : q[k] = q[l] => k = l
  BY <1>2 DEF IsInjective
<1>6. CASE i <= Len(p) /\ j <= Len(p)
  BY <1>1, <1>2, <1>3, <1>5, <1>6
<1>7. CASE ~(i <= Len(p)) /\ ~(j <= Len(p))
  <2>1. i - Len(p) \in 1..Len(q) /\ j - Len(p) \in 1..Len(q)
    BY <1>2, <1>7
  <2>2. q[i - Len(p)] = q[j - Len(p)]
    BY <1>1, <1>2, <1>3, <1>7
  <2>3. i - Len(p) = j - Len(p)
    BY <1>5, <2>1, <2>2
  <2>4. QED BY <1>2, <2>3
<1>8. CASE i <= Len(p) /\ ~(j <= Len(p))
  <2>1. i \in 1..Len(p) /\ j - Len(p) \in 1..Len(q)
    BY <1>2, <1>8
  <2>2. p[i] = q[j - Len(p)]
    BY <1>1, <1>2, <1>3, <1>8
  <2>3. QED BY <1>4, <2>1, <2>2
<1>9. CASE ~(i <= Len(p)) /\ j <= Len(p)
  <2>1. j \in 1..Len(p) /\ i - Len(p) \in 1..Len(q)
    BY <1>2, <1>9
  <2>2. p[j] = q[i - Len(p)]
    BY <1>1, <1>2, <1>3, <1>9
  <2>3. QED BY <1>4, <2>1, <2>2
<1>10. QED BY <1>6, <1>7, <1>8, <1>9

(* The jobs of a port: one for each unit ID.                                *)
LEMMA PortJobs ==
    ASSUME NEW port \in Ports
    PROVE  /\ JobsOf(port) \in Seq(Jobs) /\ IsInjective(JobsOf(port))
           /\ Range(JobsOf(port)) = {port} \X Range(UnitIds)
<1>1. /\ UnitIds \in Seq(Nat) /\ UnitIds # <<>> /\ IsInjective(UnitIds)
      /\ DOMAIN UnitIds = 1..Len(UnitIds) /\ Len(UnitIds) \in Nat
  BY DiscoveryAssumption, LenProperties
<1>2. \A i \in DOMAIN UnitIds : JobsOf(port)[i] = <<port, UnitIds[i]>>
  BY DEF JobsOf
<1>3. DOMAIN JobsOf(port) = 1..Len(UnitIds)
  BY <1>1 DEF JobsOf
<1>4. \A i \in DOMAIN UnitIds : <<port, UnitIds[i]>> \in Jobs
  BY DEF Jobs, Range
<1>5. JobsOf(port) \in [1..Len(UnitIds) -> Jobs]
  BY <1>1, <1>4 DEF JobsOf
<1>6. JobsOf(port) \in Seq(Jobs)
  BY <1>1, <1>5, SeqDef
<1>7. IsInjective(JobsOf(port))
  BY <1>1, <1>2, <1>3 DEF IsInjective
<1>8. Range(JobsOf(port)) = {<<port, UnitIds[i]>> : i \in DOMAIN UnitIds}
  BY <1>1, <1>2, <1>3 DEF Range
<1>9. Range(UnitIds) = {UnitIds[i] : i \in DOMAIN UnitIds}
  BY DEF Range
<1>10. {<<port, UnitIds[i]>> : i \in DOMAIN UnitIds}
           = {port} \X {UnitIds[i] : i \in DOMAIN UnitIds}
  OBVIOUS
<1>11. QED BY <1>6, <1>7, <1>8, <1>9, <1>10

-----------------------------------------------------------------------------
(* The session's functions.                                                *)

LEMMA MinOfTwo ==
    ASSUME NEW m \in Nat, NEW n \in Nat
    PROVE  Min({m, n}) = IF m <= n THEN m ELSE n
<1>1. \E x \in {m, n} : \A y \in {m, n} : x <= y
  OBVIOUS
<1>2. Min({m, n}) \in {m, n} /\ \A y \in {m, n} : Min({m, n}) <= y
  BY <1>1 DEF Min
<1>3. QED BY <1>2

(* Filling the free places takes the first of the waiting jobs, as many as   *)
(* there is room for.                                                      *)
LEMMA FillFacts ==
    ASSUME NEW p \in Seq(Jobs), IsInjective(p),
           NEW a \in SUBSET Jobs, IsFiniteSet(a), Cardinality(a) <= MaxConcurrency,
           Range(p) \cap a = {}, completed \/ stopped => p = <<>>,
           begun \in SUBSET Jobs, Range(p) \cap begun = {},
           Fill(p, a)
    PROVE  /\ pending' \in Seq(Jobs) /\ IsInjective(pending')
           /\ active' \in SUBSET Jobs /\ IsFiniteSet(active')
           /\ Cardinality(active') <= MaxConcurrency
           /\ pending' # <<>> => Cardinality(active') = MaxConcurrency
           /\ Range(pending') \cup active' = Range(p) \cup a
           /\ Range(pending') \cap begun' = {}
           /\ \E first \in SUBSET Range(p) :
                 /\ active' = a \cup first /\ begun' = begun \cup first
                 /\ Range(p) = first \cup Range(pending')
           /\ MaybeComplete(pending', active', upstreamCompleted)
<1> DEFINE room == IF completed \/ stopped \/ Cardinality(a) >= MaxConcurrency
                   THEN 0 ELSE Min({Len(p), MaxConcurrency - Cardinality(a)})
           first == FirstOf(p, room)
           rest == SubSeq(p, room + 1, Len(p))
<1>1. /\ Len(p) \in Nat /\ Cardinality(a) \in Nat /\ MaxConcurrency \in Nat
      /\ \A i \in 1..Len(p) : p[i] \in Jobs
  BY LenProperties, FS_CardinalityType, DiscoveryAssumption
<1>2. /\ active' = a \cup first /\ begun' = begun \cup first /\ pending' = rest
      /\ MaybeComplete(pending', active', upstreamCompleted)
  BY DEF Fill, FirstOf
<1>3. /\ room \in Nat /\ room <= Len(p) /\ Cardinality(a) + room <= MaxConcurrency
      /\ room = Len(p) \/ Cardinality(a) + room = MaxConcurrency
  <2>1. CASE completed \/ stopped
    <3>1. Len(p) = 0 /\ room = 0
      BY <2>1, EmptySeq
    <3>2. QED BY <1>1, <3>1
  <2>2. CASE ~(completed \/ stopped) /\ Cardinality(a) >= MaxConcurrency
    <3>1. room = 0
      BY <2>2
    <3>2. QED BY <1>1, <2>2, <3>1
  <2>3. CASE ~(completed \/ stopped) /\ ~(Cardinality(a) >= MaxConcurrency)
    <3>1. MaxConcurrency - Cardinality(a) \in Nat
      BY <1>1, <2>3
    <3>2. room = Min({Len(p), MaxConcurrency - Cardinality(a)})
      BY <2>3
    <3>3. room = IF Len(p) <= MaxConcurrency - Cardinality(a)
                 THEN Len(p) ELSE MaxConcurrency - Cardinality(a)
      BY <1>1, <3>1, <3>2, MinOfTwo
    <3> HIDE DEF room
    <3>4. QED BY <1>1, <3>1, <3>3
  <2>4. QED BY <2>1, <2>2, <2>3
<1> HIDE DEF room
<1>4. /\ rest \in Seq(Jobs) /\ Len(rest) = Len(p) - room
      /\ \A i \in 1..(Len(p) - room) : rest[i] = p[room + i]
  BY <1>3, RestOfQueue
<1> HIDE DEF rest
<1>5. /\ IsInjective(rest)
      /\ rest = <<>> <=> room = Len(p)
      /\ Range(p) = first \cup Range(rest)
      /\ first \cap Range(rest) = {}
      /\ IsFiniteSet(first) /\ Cardinality(first) = room
  BY <1>3, <1>4, CutQueue
<1>6. first \subseteq Jobs /\ first \cap a = {}
  BY <1>1, <1>3, <1>5 DEF FirstOf
<1> HIDE DEF first
<1>7. IsFiniteSet(a \cup first) /\ Cardinality(a \cup first) = Cardinality(a) + room
  <2>1. a \cap first = {}
    BY <1>6
  <2>2. Cardinality(a \cap first) = 0
    BY <2>1, FS_EmptySet
  <2>3. /\ IsFiniteSet(a \cup first)
        /\ Cardinality(a \cup first)
              = Cardinality(a) + Cardinality(first) - Cardinality(a \cap first)
    BY <1>5, FS_Union
  <2>4. QED BY <1>1, <1>3, <1>5, <2>2, <2>3
<1>8. /\ Cardinality(active') <= MaxConcurrency
      /\ pending' # <<>> => Cardinality(active') = MaxConcurrency
  BY <1>1, <1>2, <1>3, <1>5, <1>7
<1>9. /\ Range(pending') \cup active' = Range(p) \cup a
      /\ Range(pending') \cap begun' = {}
      /\ first \in SUBSET Range(p) /\ Range(p) = first \cup Range(pending')
  BY <1>2, <1>5, <1>6
<1>10. QED BY <1>2, <1>4, <1>5, <1>6, <1>7, <1>8, <1>9

(* The session ends or goes on.                                            *)
LEMMA MaybeCompleteFacts ==
    ASSUME NEW p, NEW a, NEW up, MaybeComplete(p, a, up)
    PROVE  \/ UNCHANGED <<completed, subscribed, stopAction, running, outcome>>
           \/ /\ ~completed /\ up /\ p = <<>> /\ a = {}
              /\ completed' = TRUE /\ subscribed' = FALSE /\ stopAction' = FALSE
              /\ running' = FALSE /\ outcome' = "completed"
BY DEF MaybeComplete, Finish

-----------------------------------------------------------------------------
(* The steps, one lemma per action.                                        *)

LEMMA InitIInv == Init => IInv
<1> SUFFICES ASSUME Init PROVE IInv
  OBVIOUS
<1>1. Cardinality({}) = 0 /\ IsFiniteSet({})
  BY FS_EmptySet
<1>2. DOMAIN <<>> = {} /\ Range(<<>>) = {}
  BY DEF Range
<1>3. TypeOK /\ NothingLeft
  <2>1. 0 \in 0..MaxStops
    BY DiscoveryAssumption
  <2>2. <<>> \in Seq(Jobs) /\ <<>> \in Seq({"begin", "stop"})
    BY EmptySeq
  <2>3. QED BY <2>1, <2>2 DEF Init, TypeOK, NothingLeft
<1>4. JobsOnce /\ NoneOverlooked /\ SlotsUsed
  BY <1>1, <1>2, DiscoveryAssumption
     DEF Init, JobsOnce, NoneOverlooked, JobsReported, SlotsUsed, IsInjective
<1>5. RunningFinite /\ SessionInOrder /\ OutcomeInOrder
  BY <1>1, <1>2 DEF Init, RunningFinite, SessionInOrder, OutcomeInOrder
<1>6. QED BY <1>3, <1>4, <1>5 DEF IInv, JobsAccounted

(* A step that leaves the jobs alone leaves alone what is known of them,     *)
(* unless an unstopped session missed a port.                               *)
LEMMA JobsStay ==
    ASSUME IInv, UNCHANGED <<pending, active, found, begun, done, cancelled, stopped>>,
           upFound' = upFound \/ (stopped /\ upFound \subseteq upFound')
    PROVE  JobsOnce' /\ NoneOverlooked' /\ SlotsUsed' /\ RunningFinite'
<1>1. JobsOnce' /\ SlotsUsed' /\ RunningFinite'
  BY DEF IInv, JobsAccounted, JobsOnce, SlotsUsed, RunningFinite
<1>2. JobsReported \subseteq JobsReported' /\ (~stopped => JobsReported' = JobsReported)
  BY DEF JobsReported
<1>3. NoneOverlooked'
  BY <1>2 DEF IInv, JobsAccounted, NoneOverlooked
<1>4. QED BY <1>1, <1>3

(* Dropping every job at once is harmless, if those that run are cancelled.   *)
LEMMA JobsDropped ==
    ASSUME IInv, pending' = <<>>, active' = {}, cancelled' = cancelled \cup active, stopped',
           UNCHANGED <<found, upFound, begun, done>>
    PROVE  JobsOnce' /\ NoneOverlooked' /\ SlotsUsed' /\ RunningFinite'
<1>1. Cardinality({}) = 0 /\ IsFiniteSet({})
  BY FS_EmptySet
<1>2. DOMAIN <<>> = {} /\ Range(<<>>) = {}
  BY DEF Range
<1>3. active \cap done = {} /\ cancelled \cap (active \cup done) = {}
  BY DEF IInv, JobsAccounted, JobsOnce
<1>4. JobsOnce' /\ SlotsUsed' /\ RunningFinite'
  BY <1>1, <1>2, <1>3, DiscoveryAssumption DEF JobsOnce, SlotsUsed, IsInjective, RunningFinite
<1>5. NoneOverlooked'
  BY DEF IInv, JobsAccounted, NoneOverlooked, JobsReported
<1>6. QED BY <1>4, <1>5

(* With nothing waiting and nothing running, an unstopped session has done     *)
(* every job.                                                              *)
LEMMA AllDone ==
    ASSUME NoneOverlooked', ~stopped', pending' = <<>>, active' = {}
    PROVE  done' = JobsReported'
<1>1. Range(<<>>) = {}
  BY DEF Range
<1>2. QED BY <1>1 DEF NoneOverlooked

(* A task goes to the back of the queue, or is taken from its front.         *)
LEMMA TasksType ==
    ASSUME TypeOK
    PROVE  /\ \A t \in {"begin", "stop"} : Append(tasks, t) \in Seq({"begin", "stop"})
           /\ tasks # <<>> => Tail(tasks) \in Seq({"begin", "stop"})
BY HeadTailProperties, AppendProperties DEF TypeOK

LEMMA StartKeeps == ASSUME IInv, Start PROVE IInv'
<1>1. JobsOnce' /\ NoneOverlooked' /\ SlotsUsed' /\ RunningFinite'
  BY JobsStay DEF Start, session, upstream, history
<1>2. TypeOK'
  BY TasksType DEF IInv, JobsAccounted, TypeOK, Start, upstream, session, history
<1>3. NothingLeft' /\ SessionInOrder' /\ OutcomeInOrder'
  BY DEF IInv, JobsAccounted, NothingLeft, JobsReported, SessionInOrder, OutcomeInOrder, Start,
         upstream, session, history
<1>4. QED BY <1>1, <1>2, <1>3 DEF IInv, JobsAccounted

LEMMA StopKeeps == ASSUME IInv, Stop PROVE IInv'
<1>1. JobsOnce' /\ NoneOverlooked' /\ SlotsUsed' /\ RunningFinite'
  BY JobsStay DEF Stop, session, upstream, history
<1>2. stops' \in 0..MaxStops
  BY DiscoveryAssumption DEF IInv, JobsAccounted, TypeOK, Stop
<1>3. TypeOK'
  BY <1>2, TasksType DEF IInv, JobsAccounted, TypeOK, Stop, upstream, session, history
<1>4. NothingLeft' /\ SessionInOrder' /\ OutcomeInOrder'
  BY DEF IInv, JobsAccounted, NothingLeft, JobsReported, SessionInOrder, OutcomeInOrder, Stop,
         upstream, session, history
<1>5. QED BY <1>1, <1>3, <1>4 DEF IInv, JobsAccounted

LEMMA BeginKeeps == ASSUME IInv, Begin PROVE IInv'
<1> USE DEF upstream, history, Finish, Upstream!Start
<1>1. JobsOnce' /\ NoneOverlooked' /\ SlotsUsed' /\ RunningFinite'
  <2>1. UNCHANGED <<pending, active, found, begun, done, cancelled, stopped, upFound>>
    BY DEF Begin
  <2>2. QED BY <2>1, JobsStay
<1>2. TypeOK'
  BY TasksType DEF IInv, JobsAccounted, TypeOK, Begin
<1>3. NothingLeft' /\ SessionInOrder' /\ OutcomeInOrder'
  BY DEF IInv, JobsAccounted, NothingLeft, JobsReported, SessionInOrder, OutcomeInOrder, Begin,
         TypeOK
<1>4. QED BY <1>1, <1>2, <1>3 DEF IInv, JobsAccounted

LEMMA StopInLoopKeeps == ASSUME IInv, StopInLoop PROVE IInv'
<1>1. CASE stopped
  <2>1. UNCHANGED <<upstream, started, stops, session, stopAction, running, outcome, found,
                    history>>
    BY <1>1 DEF StopInLoop, session, upstream, history
  <2>2. JobsOnce' /\ NoneOverlooked' /\ SlotsUsed' /\ RunningFinite'
    BY <2>1, JobsStay DEF upstream, session, history
  <2>3. TypeOK'
    BY <2>1, TasksType DEF IInv, JobsAccounted, TypeOK, StopInLoop, upstream, session, history
  <2>4. NothingLeft' /\ SessionInOrder' /\ OutcomeInOrder'
    BY <2>1 DEF IInv, JobsAccounted, NothingLeft, JobsReported, SessionInOrder, OutcomeInOrder,
                StopInLoop, upstream, session, history
  <2>5. QED BY <2>2, <2>3, <2>4 DEF IInv, JobsAccounted
<1>2. CASE ~stopped
  <2>1. /\ stopped' = TRUE /\ pending' = <<>> /\ active' = {} /\ upStopped' = TRUE
        /\ cancelled' = cancelled \cup active /\ stoppedLate' \in BOOLEAN
        /\ UNCHANGED <<upstreamCompleted, upPhase, upFound, started, stops, found, begun, done>>
        /\ tasks # <<>> /\ tasks' = Tail(tasks)
        /\ \/ UNCHANGED <<completed, subscribed, stopAction, running, outcome>>
           \/ /\ ~completed /\ completed' = TRUE /\ subscribed' = FALSE /\ stopAction' = FALSE
              /\ running' = FALSE /\ outcome' = "completed"
    BY <1>2, MaybeCompleteFacts DEF StopInLoop
  <2>2. JobsOnce' /\ NoneOverlooked' /\ SlotsUsed' /\ RunningFinite'
    BY <2>1, JobsDropped
  <2>3. TypeOK'
    <3>1. <<>> \in Seq(Jobs)
      BY EmptySeq
    <3>2. TypeOK /\ tasks' \in Seq({"begin", "stop"})
      BY <2>1, TasksType DEF IInv, JobsAccounted
    <3>3. QED BY <2>1, <3>1, <3>2 DEF TypeOK
  <2>4. NothingLeft' /\ SessionInOrder' /\ OutcomeInOrder'
    BY <2>1 DEF IInv, JobsAccounted, NothingLeft, SessionInOrder, OutcomeInOrder
  <2>5. QED BY <2>2, <2>3, <2>4 DEF IInv, JobsAccounted
<1>3. QED BY <1>1, <1>2

LEMMA PortFoundKeeps ==
    ASSUME IInv, NEW port \in Ports, PortFound(port)
    PROVE  IInv'
<1>1. /\ port \notin upFound /\ upPhase = "running" /\ upPhase' = upPhase
      /\ upFound' = upFound \cup {port}
      /\ UNCHANGED <<upStopped, started, stops, upstreamCompleted, stopped, tasks, found, done,
                     cancelled, stoppedLate>>
  BY DEF PortFound, Upstream!Emit
<1>2. TypeOK /\ started /\ JobsReported' = JobsReported \cup ({port} \X Range(UnitIds))
  BY <1>1 DEF IInv, JobsAccounted, OutcomeInOrder, JobsReported
<1>3. CASE subscribed /\ ~stopped
  <2>1. Fill(pending \o JobsOf(port), active)
    BY <1>3 DEF PortFound
  <2>2. ~completed /\ ~upstreamCompleted
    BY <1>1, <1>3 DEF IInv, SessionInOrder, OutcomeInOrder
  <2>3. Range(pending) \cap Range(JobsOf(port)) = {} /\ begun \cap Range(JobsOf(port)) = {}
        /\ active \subseteq begun
    <3>1. Range(JobsOf(port)) \cap JobsReported = {}
      BY <1>1, PortJobs DEF JobsReported
    <3>2. Range(pending) \cup begun = JobsReported /\ active \subseteq begun
      BY <1>3 DEF IInv, JobsAccounted, NoneOverlooked
    <3>3. QED BY <3>1, <3>2
  <2>4. /\ pending \o JobsOf(port) \in Seq(Jobs) /\ IsInjective(pending \o JobsOf(port))
        /\ Range(pending \o JobsOf(port)) = Range(pending) \cup Range(JobsOf(port))
    BY <1>2, <2>3, PortJobs, JoinQueues DEF IInv, JobsAccounted, JobsOnce, TypeOK
  <2>5. /\ pending' \in Seq(Jobs) /\ IsInjective(pending')
        /\ active' \in SUBSET Jobs /\ IsFiniteSet(active')
        /\ Cardinality(active') <= MaxConcurrency
        /\ pending' # <<>> => Cardinality(active') = MaxConcurrency
        /\ Range(pending') \cap begun' = {}
        /\ \E first \in SUBSET Range(pending \o JobsOf(port)) :
              /\ active' = active \cup first /\ begun' = begun \cup first
              /\ Range(pending \o JobsOf(port)) = first \cup Range(pending')
        /\ MaybeComplete(pending', active', upstreamCompleted)
    <3>1. /\ active \in SUBSET Jobs /\ IsFiniteSet(active) /\ begun \in SUBSET Jobs
          /\ Cardinality(active) <= MaxConcurrency
          /\ Range(pending \o JobsOf(port)) \cap begun = {}
      BY <2>3, <2>4 DEF IInv, JobsAccounted, JobsOnce, RunningFinite, SlotsUsed, TypeOK
    <3>2. Range(pending \o JobsOf(port)) \cap active = {}
      BY <2>3, <3>1
    <3>3. QED BY <1>3, <2>1, <2>2, <2>4, <3>1, <3>2, FillFacts
  <2>6. UNCHANGED <<completed, subscribed, stopAction, running, outcome>>
    BY <2>2, <2>5, MaybeCompleteFacts
  <2>7. PICK first \in SUBSET Range(pending \o JobsOf(port)) :
              /\ active' = active \cup first /\ begun' = begun \cup first
              /\ Range(pending \o JobsOf(port)) = first \cup Range(pending')
    BY <2>5
  <2>8. JobsOnce' /\ NoneOverlooked' /\ SlotsUsed' /\ RunningFinite'
    <3>1. /\ begun = active \cup done \cup cancelled
          /\ Range(pending) \cup begun = JobsReported
          /\ found \subseteq done /\ (cancelled # {} => stopped)
          /\ active \cap done = {} /\ cancelled \cap (active \cup done) = {}
      BY <1>3 DEF IInv, JobsAccounted, NoneOverlooked, JobsOnce
    <3>2. first \cap begun = {}
      BY <2>3, <2>4 DEF IInv, JobsAccounted, JobsOnce
    <3>3. JobsOnce' /\ SlotsUsed' /\ RunningFinite'
      BY <1>1, <2>5, <2>7, <3>1, <3>2 DEF JobsOnce, SlotsUsed, RunningFinite
    <3>4. Range(pending') \cup begun' = JobsReported'
      BY <1>2, <2>4, <2>7, <3>1, PortJobs
    <3>5. NoneOverlooked'
      BY <1>1, <2>7, <3>1, <3>4 DEF NoneOverlooked
    <3>6. QED BY <3>3, <3>5
  <2>9. TypeOK'
    BY <1>1, <1>2, <2>4, <2>5, <2>6, <2>7 DEF TypeOK
  <2>10. NothingLeft' /\ SessionInOrder' /\ OutcomeInOrder'
    BY <1>1, <1>2, <1>3, <2>2, <2>6
       DEF IInv, JobsAccounted, NothingLeft, SessionInOrder, OutcomeInOrder
  <2>11. QED BY <2>8, <2>9, <2>10 DEF IInv, JobsAccounted
<1>4. CASE ~(subscribed /\ ~stopped)
  <2>1. UNCHANGED <<pending, active, begun, completed, subscribed, stopAction, running, outcome>>
    BY <1>4 DEF PortFound
  <2>2. JobsOnce' /\ NoneOverlooked' /\ SlotsUsed' /\ RunningFinite'
    <3>1. stopped
      BY <1>1, <1>2, <1>4
         DEF IInv, JobsAccounted, TypeOK, SessionInOrder, OutcomeInOrder, NothingLeft
    <3>2. QED BY <1>1, <2>1, <3>1, JobsStay
  <2>3. TypeOK'
    BY <1>1, <1>2, <2>1 DEF TypeOK
  <2>4. NothingLeft' /\ SessionInOrder' /\ OutcomeInOrder'
    BY <1>1, <1>2, <2>1 DEF IInv, JobsAccounted, NothingLeft, SessionInOrder, OutcomeInOrder
  <2>5. QED BY <2>2, <2>3, <2>4 DEF IInv, JobsAccounted
<1>5. QED BY <1>3, <1>4

LEMMA PortsEndKeeps == ASSUME IInv, PortsEnd PROVE IInv'
<1>1. /\ upPhase = "running" /\ upPhase' = "ended" /\ upFound' = upFound
      /\ UNCHANGED <<upStopped, started, stops, pending, active, stopped, tasks, found, begun,
                     done, cancelled, stoppedLate>>
  BY DEF PortsEnd, Upstream!End, history
<1>2. TypeOK /\ started
  BY <1>1 DEF IInv, JobsAccounted, OutcomeInOrder
<1>3. \/ /\ subscribed /\ upstreamCompleted' = TRUE
         /\ \/ UNCHANGED <<completed, subscribed, stopAction, running, outcome>>
            \/ /\ ~completed /\ pending = <<>> /\ active = {}
               /\ completed' = TRUE /\ subscribed' = FALSE /\ stopAction' = FALSE
               /\ running' = FALSE /\ outcome' = "completed"
      \/ /\ ~subscribed
         /\ UNCHANGED <<upstreamCompleted, completed, subscribed, stopAction, running, outcome>>
  BY MaybeCompleteFacts DEF PortsEnd
<1>4. JobsOnce' /\ NoneOverlooked' /\ SlotsUsed' /\ RunningFinite'
  BY <1>1, JobsStay
<1>5. TypeOK'
  BY <1>1, <1>2, <1>3 DEF TypeOK
<1>6. SessionInOrder' /\ OutcomeInOrder'
  BY <1>1, <1>2, <1>3 DEF IInv, JobsAccounted, NothingLeft, SessionInOrder, OutcomeInOrder
<1>7. NothingLeft'
  <2>1. JobsReported' = JobsReported
    BY <1>1 DEF JobsReported
  <2>2. QED BY <1>1, <1>3, <1>4, <2>1, AllDone DEF IInv, JobsAccounted, NothingLeft
<1>8. QED BY <1>4, <1>5, <1>6, <1>7 DEF IInv, JobsAccounted

LEMMA PortsFailKeeps == ASSUME IInv, PortsFail PROVE IInv'
<1>1. /\ upPhase = "running" /\ upPhase' = "failed" /\ upFound' = upFound
      /\ UNCHANGED <<upStopped, started, stops, upstreamCompleted, tasks, found, begun, done,
                     stoppedLate>>
  BY DEF PortsFail, Upstream!Fail
<1>2. TypeOK /\ started
  BY <1>1 DEF IInv, JobsAccounted, OutcomeInOrder
<1>3. CASE subscribed /\ ~completed
  <2>1. /\ stopped' = TRUE /\ pending' = <<>> /\ active' = {}
        /\ cancelled' = cancelled \cup active
        /\ completed' = TRUE /\ subscribed' = FALSE /\ stopAction' = FALSE
        /\ running' = FALSE /\ outcome' = "failed"
    BY <1>3 DEF PortsFail, Finish
  <2>2. JobsOnce' /\ NoneOverlooked' /\ SlotsUsed' /\ RunningFinite'
    BY <1>1, <2>1, JobsDropped
  <2>3. <<>> \in Seq(Jobs)
    BY EmptySeq
  <2>4. TypeOK'
    BY <1>1, <1>2, <2>1, <2>3 DEF TypeOK
  <2>5. NothingLeft' /\ SessionInOrder' /\ OutcomeInOrder'
    BY <1>1, <1>2, <2>1 DEF NothingLeft, SessionInOrder, OutcomeInOrder
  <2>6. QED BY <2>2, <2>4, <2>5 DEF IInv, JobsAccounted
<1>4. CASE ~(subscribed /\ ~completed)
  <2>1. UNCHANGED <<stopped, pending, active, cancelled, completed, subscribed, stopAction,
                    running, outcome>>
    BY <1>4 DEF PortsFail
  <2>2. JobsOnce' /\ NoneOverlooked' /\ SlotsUsed' /\ RunningFinite'
    BY <1>1, <2>1, JobsStay
  <2>3. TypeOK'
    BY <1>1, <1>2, <2>1 DEF TypeOK
  <2>4. NothingLeft' /\ SessionInOrder' /\ OutcomeInOrder'
    BY <1>1, <1>2, <2>1 DEF IInv, JobsAccounted, NothingLeft, SessionInOrder, OutcomeInOrder
  <2>5. QED BY <2>2, <2>3, <2>4 DEF IInv, JobsAccounted
<1>5. QED BY <1>3, <1>4

LEMMA OneFinishedKeeps ==
    ASSUME IInv, NEW job \in Jobs, NEW named \in BOOLEAN, OneFinished(job, named)
    PROVE  IInv'
<1>1. /\ job \in active /\ Fill(pending, active \ {job})
      /\ found' = found \/ found' = found \cup {job}
      /\ done' = done \cup {job}
      /\ UNCHANGED <<upPhase, upFound, upStopped, started, stops, upstreamCompleted, stopped,
                     tasks, cancelled, stoppedLate>>
  BY DEF OneFinished, upstream
<1>2. TypeOK /\ subscribed /\ started /\ ~completed /\ ~stopped
  BY <1>1 DEF IInv, JobsAccounted, SessionInOrder
<1>3. /\ active \ {job} \in SUBSET Jobs /\ IsFiniteSet(active \ {job})
      /\ Cardinality(active \ {job}) <= MaxConcurrency
  <2>1. IsFiniteSet(active) /\ Cardinality(active) \in Nat /\ Cardinality(active) <= MaxConcurrency
    BY FS_CardinalityType DEF IInv, JobsAccounted, RunningFinite, SlotsUsed
  <2>2. IsFiniteSet(active \ {job}) /\ Cardinality(active \ {job}) = Cardinality(active) - 1
    BY <1>1, <2>1, FS_RemoveElement
  <2>3. QED BY <1>2, <2>1, <2>2, DiscoveryAssumption DEF TypeOK
<1>4. /\ pending \in Seq(Jobs) /\ IsInjective(pending)
      /\ Range(pending) \cap begun = {} /\ begun \in SUBSET Jobs
      /\ active \cap done = {} /\ cancelled \cap (active \cup done) = {}
      /\ begun = active \cup done \cup cancelled /\ begun \subseteq JobsReported
      /\ Range(pending) \cup begun = JobsReported
      /\ found \subseteq done /\ (cancelled # {} => stopped)
      /\ JobsReported' = JobsReported
  BY <1>1, <1>2 DEF IInv, JobsAccounted, JobsOnce, NoneOverlooked, TypeOK, JobsReported
<1>5. /\ pending' \in Seq(Jobs) /\ IsInjective(pending')
      /\ active' \in SUBSET Jobs /\ IsFiniteSet(active')
      /\ Cardinality(active') <= MaxConcurrency
      /\ pending' # <<>> => Cardinality(active') = MaxConcurrency
      /\ Range(pending') \cap begun' = {}
      /\ \E first \in SUBSET Range(pending) :
            /\ active' = (active \ {job}) \cup first /\ begun' = begun \cup first
            /\ Range(pending) = first \cup Range(pending')
      /\ MaybeComplete(pending', active', upstreamCompleted)
  <2>1. /\ Range(pending) \cap (active \ {job}) = {} /\ Range(pending) \cap begun = {}
        /\ pending \in Seq(Jobs) /\ IsInjective(pending) /\ begun \in SUBSET Jobs
    BY <1>4
  <2>2. Fill(pending, active \ {job}) /\ ~(completed \/ stopped)
    BY <1>1, <1>2
  <2>3. QED BY <1>3, <2>1, <2>2, FillFacts
<1>6. \/ UNCHANGED <<completed, subscribed, stopAction, running, outcome>>
      \/ /\ upstreamCompleted /\ pending' = <<>> /\ active' = {}
         /\ completed' = TRUE /\ subscribed' = FALSE /\ stopAction' = FALSE
         /\ running' = FALSE /\ outcome' = "completed"
  BY <1>5, MaybeCompleteFacts
<1>7. PICK first \in SUBSET Range(pending) :
            /\ active' = (active \ {job}) \cup first /\ begun' = begun \cup first
            /\ Range(pending) = first \cup Range(pending')
  BY <1>5
<1>8. JobsOnce' /\ NoneOverlooked' /\ SlotsUsed' /\ RunningFinite'
  <2>1. JobsOnce' /\ SlotsUsed' /\ RunningFinite'
    BY <1>1, <1>4, <1>5, <1>7 DEF JobsOnce, SlotsUsed, RunningFinite
  <2>2. NoneOverlooked'
    BY <1>1, <1>4, <1>7 DEF NoneOverlooked
  <2>3. QED BY <2>1, <2>2
<1>9. TypeOK'
  <2>1. found' \subseteq Jobs /\ done' \in SUBSET Jobs /\ begun' \in SUBSET Jobs
    <3>1. first \in SUBSET Jobs
      BY <1>2, <1>4, <1>7 DEF JobsReported, Jobs, TypeOK
    <3>2. QED BY <1>1, <1>2, <1>4, <1>7, <3>1 DEF TypeOK
  <2>2. QED BY <1>1, <1>2, <1>5, <1>6, <2>1 DEF TypeOK
<1>10. NothingLeft' /\ SessionInOrder' /\ OutcomeInOrder'
  <2>1. upstreamCompleted => upPhase = "ended"
    BY <1>2 DEF IInv, OutcomeInOrder
  <2>2. outcome = "none"
    BY <1>2 DEF IInv, OutcomeInOrder
  <2>3. ~upStopped /\ stopAction
    BY <1>2 DEF IInv, SessionInOrder
  <2>4. UNCHANGED <<upPhase, upStopped, started, upstreamCompleted, stopped, tasks>>
    BY <1>1
  <2>5. CASE UNCHANGED <<completed, subscribed, stopAction, running, outcome>>
    BY <1>2, <2>1, <2>2, <2>3, <2>4, <2>5 DEF NothingLeft, SessionInOrder, OutcomeInOrder
  <2>8. pending' = <<>> /\ active' = {} => done' = JobsReported'
    BY <1>2, <1>8, <2>4, AllDone
  <2>6. CASE /\ pending' = <<>> /\ active' = {} /\ upstreamCompleted
             /\ completed' = TRUE /\ subscribed' = FALSE /\ stopAction' = FALSE
             /\ running' = FALSE /\ outcome' = "completed"
    BY <1>2, <2>1, <2>3, <2>4, <2>6, <2>8 DEF NothingLeft, SessionInOrder, OutcomeInOrder
  <2>7. QED BY <1>6, <2>5, <2>6
<1>11. QED BY <1>8, <1>9, <1>10 DEF IInv, JobsAccounted

LEMMA NextIInv == IInv /\ [Next]_vars => IInv'
<1> SUFFICES ASSUME IInv, [Next]_vars PROVE IInv'
  OBVIOUS
<1>1. CASE Start
  BY <1>1, StartKeeps
<1>2. CASE Stop
  BY <1>2, StopKeeps
<1>3. CASE RunTask
  BY <1>3, BeginKeeps, StopInLoopKeeps DEF RunTask
<1>4. CASE \E port \in Ports : PortFound(port)
  BY <1>4, PortFoundKeeps
<1>5. CASE PortsEnd
  BY <1>5, PortsEndKeeps
<1>6. CASE PortsFail
  BY <1>6, PortsFailKeeps
<1>7. CASE \E job \in Jobs, named \in BOOLEAN : OneFinished(job, named)
  BY <1>7, OneFinishedKeeps
<1>8. CASE UNCHANGED vars
  <2>1. UNCHANGED <<pending, active, found, begun, done, cancelled, stopped, upFound>>
    BY <1>8 DEF vars, upstream, session, history
  <2>2. JobsOnce' /\ NoneOverlooked' /\ SlotsUsed' /\ RunningFinite'
    BY <2>1, JobsStay
  <2>3. QED BY <1>8, <2>2
        DEF vars, upstream, handle, session, history, IInv, JobsAccounted, TypeOK, JobsReported,
            NothingLeft, SessionInOrder, OutcomeInOrder
<1>9. QED BY <1>1, <1>2, <1>3, <1>4, <1>5, <1>6, <1>7, <1>8 DEF Next

(* The jobs of a Modbus discovery are accounted for, and its session goes     *)
(* from its start to its end in order, whatever comes in whatever order     *)
(* (Session in src/modbus/ModbusDiscovery.cpp).                             *)
THEOREM Invariance == Spec => []IInv
BY InitIInv, NextIInv, PTL DEF Spec

-----------------------------------------------------------------------------
(* What the flow's subscribers see.                                        *)

(* A thing is emitted only by an identifier that runs.                      *)
LEMMA FoundChanges ==
    ASSUME IInv, [Next]_vars, found' # found
    PROVE  \E job \in active : /\ found' = found \cup {job} /\ ~stopped
                               /\ \E named \in BOOLEAN : OneFinished(job, named)
<1>1. \E job \in Jobs, named \in BOOLEAN : OneFinished(job, named)
  BY DEF Next, vars, RunTask, Start, Stop, Begin, StopInLoop, PortFound, PortsEnd, PortsFail
<1>2. QED BY <1>1 DEF OneFinished

(* Once the loop has run the stop no thing is emitted (Session::stop).       *)
THEOREM SilentAfterStop == Spec => SilentOnceStopped
<1>1. IInv /\ [Next]_vars => [upStopped => found' = found]_vars
  BY FoundChanges DEF IInv, SessionInOrder
<1>2. QED BY <1>1, Invariance, PTL DEF Spec, SilentOnceStopped

(* The flow ends at most once, by completion or by a failure.               *)
LEMMA OutcomeChanges ==
    ASSUME IInv, [Next]_vars, outcome' # outcome
    PROVE  started /\ started' = started /\ outcome = "none" /\ outcome' \in {"completed", "failed"}
<1>1. started /\ ~completed => started /\ outcome = "none"
  BY DEF IInv, OutcomeInOrder
<1>2. ~Start /\ ~Stop /\ ~UNCHANGED vars
  BY DEF Start, Stop, vars
<1>3. CASE Begin
  <2>1. started
    BY <1>3 DEF Begin, IInv, OutcomeInOrder
  <2>2. QED BY <1>1, <1>3, <2>1 DEF Begin, Finish
<1>4. CASE StopInLoop
  <2>1. started
    BY <1>4 DEF StopInLoop, IInv, OutcomeInOrder
  <2>2. QED BY <1>1, <1>4, <2>1, MaybeCompleteFacts DEF StopInLoop
<1>5. CASE \E port \in Ports : PortFound(port)
  <2>1. PICK port \in Ports : PortFound(port)
    BY <1>5
  <2>2. started /\ started' = started
    BY <2>1 DEF PortFound, Upstream!Emit, IInv, OutcomeInOrder
  <2>3. ~completed /\ outcome' = "completed"
    BY <2>1, MaybeCompleteFacts DEF PortFound, Fill
  <2>4. QED BY <1>1, <2>2, <2>3
<1>6. CASE PortsEnd
  <2>1. started /\ started' = started
    BY <1>6 DEF PortsEnd, Upstream!End, IInv, OutcomeInOrder
  <2>2. ~completed /\ outcome' = "completed"
    BY <1>6, MaybeCompleteFacts DEF PortsEnd
  <2>3. QED BY <1>1, <2>1, <2>2
<1>7. CASE PortsFail
  <2>1. started /\ started' = started
    BY <1>7 DEF PortsFail, Upstream!Fail, IInv, OutcomeInOrder
  <2>2. ~completed /\ outcome' = "failed"
    BY <1>7 DEF PortsFail, Finish
  <2>3. QED BY <1>1, <2>1, <2>2
<1>8. CASE \E job \in Jobs, named \in BOOLEAN : OneFinished(job, named)
  <2>1. PICK job \in Jobs, named \in BOOLEAN : OneFinished(job, named)
    BY <1>8
  <2>2. started /\ started' = started
    BY <2>1 DEF OneFinished, IInv, SessionInOrder
  <2>3. ~completed /\ outcome' = "completed"
    BY <2>1, MaybeCompleteFacts DEF OneFinished, Fill
  <2>4. QED BY <1>1, <2>2, <2>3
<1>9. QED BY <1>2, <1>3, <1>4, <1>5, <1>6, <1>7, <1>8 DEF Next, RunTask

(* Each step is one of the flow, or none of its business.                   *)
LEMMA FlowStep ==
    ASSUME IInv, [Next]_vars
    PROVE  [Flow!Next]_<<Phase, found>>
<1>1. outcome \in {"none", "completed", "failed"} /\ started \in BOOLEAN
      /\ (~started => outcome = "none")
  BY DEF IInv, JobsAccounted, TypeOK, OutcomeInOrder
<1>2. CASE Start
  BY <1>1, <1>2 DEF Phase, Start, Flow!Next, Flow!Start
<1>3. CASE ~Start /\ found' # found
  <2>1. PICK job \in active : /\ found' = found \cup {job}
                              /\ \E named \in BOOLEAN : OneFinished(job, named)
    BY <1>3, FoundChanges
  <2>2. job \in Jobs /\ started /\ started' = started /\ outcome = "none"
    BY <2>1 DEF OneFinished, IInv, JobsAccounted, TypeOK, SessionInOrder, OutcomeInOrder
  <2>3. outcome' \in {"none", "completed"}
    BY <2>1, <2>2, MaybeCompleteFacts DEF OneFinished, Fill
  <2>4. Phase = "running" /\ Phase' = IF outcome' = "none" THEN "running" ELSE "ended"
    BY <2>2, <2>3 DEF Phase
  <2>5. Flow!Emit(job) \/ Flow!EmitAndEnd(job)
    BY <2>1, <2>3, <2>4 DEF Flow!Emit, Flow!EmitAndEnd
  <2>6. QED BY <2>2, <2>5 DEF Flow!Next
<1>4. CASE ~Start /\ found' = found /\ outcome' = outcome
  <2>1. started' = started
    BY <1>4 DEF Next, vars, handle, RunTask, Stop, Begin, StopInLoop, PortFound, PortsEnd,
                PortsFail, OneFinished
  <2>2. QED BY <1>4, <2>1 DEF Phase
<1>5. CASE ~Start /\ found' = found /\ outcome' # outcome
  <2>1. started /\ started' = started /\ outcome = "none" /\ outcome' \in {"completed", "failed"}
    BY <1>5, OutcomeChanges
  <2>2. Flow!End \/ Flow!Fail
    BY <1>5, <2>1 DEF Phase, Flow!End, Flow!Fail
  <2>3. QED BY <2>2 DEF Flow!Next
<1>6. QED BY <1>2, <1>3, <1>4, <1>5

(* A Modbus discovery keeps the contract of ThingDiscovery: things only       *)
(* while its flow runs, and one end of it.                                  *)
THEOREM FlowImplemented == Spec => ImplementsFlow
<1>1. Init => Flow!Init
  BY DEF Init, Phase, Flow!Init
<1>2. QED BY <1>1, Invariance, FlowStep, PTL DEF Spec, ImplementsFlow, Flow!Spec

-----------------------------------------------------------------------------
(* The two discoveries in the chain.                                       *)

SunspecProofs == INSTANCE SunspecDiscoveryProofs WITH
    Candidates <- Jobs, upPhase <- Phase, upFound <- found, upStopped <- ssUpStopped,
    loopRuns <- ssLoopRuns, queued <- ssQueued, started <- ssStarted,
    stopRequested <- ssStopRequested, loopEntered <- ssLoopEntered, gone <- ssGone, stopping <- ssStopping,
    failing <- ssFailing, modbusCompleted <- ssModbusCompleted, scan <- ssScan,
    cancelled <- ssCancelled, open <- ssOpen, outcome <- ssOutcome, found <- ssFound

(* Whatever the chain does, the Modbus discovery takes a step of its own or   *)
(* none.                                                                   *)
LEMMA ModbusStep == [ChainNext]_chainVars => [Next]_vars
<1> USE DEF Next, RunTask
<1>1. LoopCalls \/ OwnerCalls \/ Retire \/ Release => [Next]_vars
  BY DEF LoopCalls, OwnerCalls, Retire, Release, StopSunspec
<1>2. ModbusTask \/ PortScanMoves \/ PortScanEnds => [Next]_vars
  BY DEF ModbusTask, PortScanMoves, PortScanEnds
<1>3. \A job \in Jobs : Identified(job) \/ ScanCallback(job) => [Next]_vars
  BY DEF Identified, ScanCallback
<1>4. UNCHANGED chainVars => [Next]_vars
  BY DEF chainVars
<1>5. QED BY <1>1, <1>2, <1>3, <1>4 DEF ChainNext

(* The Modbus discovery of the chain is a ModbusDiscovery                    *)
(* (DiscoveryService::startSunspec): what is proved of one holds here.       *)
THEOREM ModbusInChain == ChainSpec => Spec
<1>1. ChainInit => Init
  BY DEF ChainInit
<1>2. QED BY <1>1, ModbusStep, PTL DEF ChainSpec, Spec

(* The definitions of SunspecDiscovery are the same by either name.          *)
LEMMA SameStep == [Sunspec!Next]_(Sunspec!vars) => [SunspecProofs!Next]_(SunspecProofs!vars)
<1> USE DEF Sunspec!upstream, Sunspec!handle, Sunspec!run, Sunspec!vars, Sunspec!Terminal,
            Sunspec!Scanned, Sunspec!MaybeComplete, Sunspec!Opened, Sunspec!Cancelled,
            Sunspec!Fail, Sunspec!LoopStarts, Sunspec!Enter, Sunspec!Start,
            Sunspec!RunQueuedStart, Sunspec!StopBeforeLoop, Sunspec!StopRun,
            Sunspec!StopOnLoop, Sunspec!Destroy, Sunspec!Ignoring, Sunspec!OpenEndpoint,
            Sunspec!UpstreamEmits, Sunspec!UpstreamEmitsUnusable, Sunspec!UpstreamEnds,
            Sunspec!UpstreamFails, Sunspec!UpstreamEmitsAndEnds, Sunspec!ScannerCompleted,
            Sunspec!ScanBegins, Sunspec!ScanEnds, Sunspec!FoundThenStop,
            Sunspec!ScanFails, Sunspec!ScanMoves, Sunspec!Next, Sunspec!Upstream!Start,
            Sunspec!Upstream!Emit, Sunspec!Upstream!End, Sunspec!Upstream!Fail,
            Sunspec!Upstream!EmitAndEnd
<1> USE DEF SunspecProofs!upstream, SunspecProofs!handle, SunspecProofs!run,
            SunspecProofs!vars, SunspecProofs!Terminal, SunspecProofs!Scanned,
            SunspecProofs!MaybeComplete, SunspecProofs!Opened, SunspecProofs!Cancelled,
            SunspecProofs!Fail, SunspecProofs!LoopStarts, SunspecProofs!Enter,
            SunspecProofs!Start, SunspecProofs!RunQueuedStart,
            SunspecProofs!StopBeforeLoop, SunspecProofs!StopRun, SunspecProofs!StopOnLoop,
            SunspecProofs!Destroy, SunspecProofs!Ignoring, SunspecProofs!OpenEndpoint,
            SunspecProofs!UpstreamEmits, SunspecProofs!UpstreamEmitsUnusable,
            SunspecProofs!UpstreamEnds, SunspecProofs!UpstreamFails,
            SunspecProofs!UpstreamEmitsAndEnds, SunspecProofs!ScannerCompleted,
            SunspecProofs!ScanBegins, SunspecProofs!ScanEnds, SunspecProofs!FoundThenStop,
            SunspecProofs!ScanFails, SunspecProofs!ScanMoves, SunspecProofs!Next,
            SunspecProofs!Upstream!Start, SunspecProofs!Upstream!Emit,
            SunspecProofs!Upstream!End, SunspecProofs!Upstream!Fail,
            SunspecProofs!Upstream!EmitAndEnd
<1> QED OBVIOUS

LEMMA SameProperties ==
    /\ Sunspec!TypeOK <=> SunspecProofs!TypeOK
    /\ Sunspec!NothingLeftRunning <=> SunspecProofs!NothingLeftRunning
    /\ Sunspec!CompleteMeansScanned <=> SunspecProofs!CompleteMeansScanned
    /\ Sunspec!Init <=> SunspecProofs!Init
BY DEF Sunspec!TypeOK, Sunspec!NothingLeftRunning, Sunspec!CompleteMeansScanned, Sunspec!Init,
       Sunspec!SessionsOwned, Sunspec!NoSessionLeftOpen, Sunspec!StopReachesScans,
       Sunspec!Ignoring, Sunspec!Terminal,
       SunspecProofs!TypeOK, SunspecProofs!NothingLeftRunning,
       SunspecProofs!CompleteMeansScanned, SunspecProofs!Init, SunspecProofs!SessionsOwned,
       SunspecProofs!NoSessionLeftOpen, SunspecProofs!StopReachesScans,
       SunspecProofs!Ignoring, SunspecProofs!Terminal

(* What the SunSpec run hears of a step of the Modbus discovery is all there   *)
(* is to hear: a step that it does not hear is none of the flow.             *)
LEMMA HeardStep ==
    ASSUME IInv, [Next]_vars, Heard
    PROVE  [Sunspec!Next]_(Sunspec!vars)
<1>1. CASE (Flow!Next => UNCHANGED <<Phase, found>>) /\ UNCHANGED ssVars
  <2>1. UNCHANGED <<Phase, found>>
    BY <1>1, FlowStep
  <2>2. QED BY <1>1, <2>1 DEF ssVars, Sunspec!vars, Sunspec!upstream, Sunspec!handle, Sunspec!run
<1>2. QED BY <1>1 DEF Heard, Sunspec!Next

(* Whatever the chain does, the SunSpec discovery takes a step of its own or   *)
(* none.                                                                   *)
LEMMA SunspecStep ==
    ASSUME IInv, [ChainNext]_chainVars
    PROVE  [Sunspec!Next]_(Sunspec!vars)
<1> USE DEF Sunspec!vars, Sunspec!upstream, Sunspec!handle, Sunspec!run
<1>1. CASE UNCHANGED <<vars, ssVars>>
  BY <1>1 DEF vars, handle, ssVars, Phase
<1>2. CASE LoopCalls \/ OwnerCalls \/ Retire \/ Release
  BY <1>1, <1>2 DEF LoopCalls, OwnerCalls, Retire, Release, StopSunspec, Sunspec!Next
<1>3. CASE ModbusTask \/ PortScanMoves \/ PortScanEnds \/ \E job \in Jobs : Identified(job)
  <2>1. Heard
    BY <1>3 DEF ModbusTask, PortScanMoves, PortScanEnds, Identified
  <2>2. QED BY <2>1, ModbusStep, HeardStep
<1>4. CASE \E job \in Jobs : ScanCallback(job)
  BY <1>4 DEF ScanCallback, Sunspec!Next
<1>5. CASE UNCHANGED chainVars
  BY <1>1, <1>5 DEF chainVars
<1>6. QED BY <1>2, <1>3, <1>4, <1>5 DEF ChainNext

(* The SunSpec discovery of the chain is a SunspecDiscovery, because the       *)
(* Modbus discovery below keeps the contract of ThingDiscovery.              *)
THEOREM SunspecInChain == ChainSpec => Sunspec!Spec
<1>1. ChainInit => Sunspec!Init
  BY DEF ChainInit
<1>2. ChainSpec => []IInv
  BY ModbusInChain, Invariance, PTL
<1>3. QED BY <1>1, <1>2, SunspecStep, PTL DEF ChainSpec, Sunspec!Spec

-----------------------------------------------------------------------------
(* The inductive invariant of a chain that is retired.                      *)

(* The Modbus discovery has nothing more to do, or will have once its queued   *)
(* stop has run.                                                           *)
Halted == stopped \/ completed \/ ~started
Halting == Halted \/ "stop" \in Range(tasks)

(* The SunSpec discovery has ended, or was asked to.                         *)
Over == ssStopRequested \/ ssOutcome # "none"

(* What stops the SunSpec run stops the Modbus discovery.                     *)
StopHeard == ssUpStopped => Halting

(* A chain is retired when it is over; the keep-alive task then waits behind   *)
(* exactly the tasks that are left, and once it has run nothing moves.       *)
RetiredInOrder ==
    /\ retired # "no" => Over
    /\ retired = "held" => Len(tasks) = ahead
    /\ retired = "released" => ssGone /\ Halted /\ (tasks # <<>> => stopped)

ChainIInv ==
    /\ IInv /\ SunspecProofs!IInv
    /\ retired \in {"no", "held", "released"} /\ ahead \in Nat /\ scanAhead \in Nat
    /\ StopHeard /\ RetiredInOrder

-----------------------------------------------------------------------------
(* Queues of tasks.                                                        *)

LEMMA TailRange ==
    ASSUME NEW S, NEW q \in Seq(S), q # <<>>
    PROVE  Range(q) \subseteq {Head(q)} \cup Range(Tail(q))
<1>1. /\ Len(q) \in Nat \ {0} /\ DOMAIN q = 1..Len(q)
      /\ Tail(q) \in Seq(S) /\ Len(Tail(q)) = Len(q) - 1
      /\ \A i \in 1..Len(Tail(q)) : Tail(q)[i] = q[i + 1]
      /\ Head(q) = q[1]
  BY HeadTailProperties, LenProperties, EmptySeq
<1>2. DOMAIN Tail(q) = 1..(Len(q) - 1)
  BY <1>1, LenProperties
<1>3. ASSUME NEW i \in 1..Len(q) PROVE q[i] \in {Head(q)} \cup Range(Tail(q))
  <2>1. CASE i = 1
    BY <1>1, <2>1
  <2>2. CASE i # 1
    <3>1. i - 1 \in 1..(Len(q) - 1) /\ (i - 1) + 1 = i
      BY <1>1, <2>2
    <3>2. Tail(q)[i - 1] = q[i]
      BY <1>1, <3>1
    <3>3. QED BY <1>2, <3>1, <3>2 DEF Range
  <2>3. QED BY <2>1, <2>2
<1>4. QED BY <1>1, <1>3 DEF Range

LEMMA AppendRange ==
    ASSUME NEW S, NEW q \in Seq(S), NEW e \in S
    PROVE  Range(q) \subseteq Range(Append(q, e)) /\ e \in Range(Append(q, e))
<1>1. /\ Append(q, e) \in Seq(S) /\ Len(Append(q, e)) = Len(q) + 1 /\ Len(q) \in Nat
      /\ \A i \in 1..Len(q) : Append(q, e)[i] = q[i]
      /\ Append(q, e)[Len(q) + 1] = e
  BY AppendProperties, LenProperties
<1>2. DOMAIN q = 1..Len(q) /\ DOMAIN Append(q, e) = 1..(Len(q) + 1)
  BY <1>1, LenProperties
<1>3. QED BY <1>1, <1>2 DEF Range

-----------------------------------------------------------------------------
(* What stays so.                                                          *)

(* Stopped, ended: for good.                                               *)
LEMMA EndsStay ==
    ASSUME [Next]_vars
    PROVE  (stopped => stopped') /\ (completed => completed')
<1>1. stopped => stopped'
  BY DEF Next, vars, session, RunTask, Start, Stop, Begin, StopInLoop, PortFound, PortsEnd,
         PortsFail, OneFinished
<1>2. ASSUME completed, UNCHANGED completed \/ completed' = TRUE PROVE completed'
  BY <1>2
<1>3. UNCHANGED completed \/ completed' = TRUE
  BY MaybeCompleteFacts
     DEF Next, vars, session, RunTask, Start, Stop, Begin, StopInLoop, PortFound, PortsEnd,
         PortsFail, OneFinished, Fill, Finish
<1>4. QED BY <1>1, <1>2, <1>3

(* A queued stop is run before anything queued later.                        *)
LEMMA HaltingStays ==
    ASSUME IInv, [Next]_vars, Halting, ~started => ~started'
    PROVE  Halting' /\ (Halted => Halted')
<1>1. Halted => Halted'
  BY EndsStay DEF Halted
<1>2. CASE Halted
  BY <1>1, <1>2 DEF Halting
<1>3. CASE "stop" \in Range(tasks) /\ ~Halted
  <2>1. tasks \in Seq({"begin", "stop"})
    BY DEF IInv, JobsAccounted, TypeOK
  <2>2. CASE RunTask
    <3>1. tasks # <<>> /\ tasks' = Tail(tasks)
      BY <2>2 DEF RunTask, Begin, StopInLoop
    <3>2. Range(tasks) \subseteq {Head(tasks)} \cup Range(tasks')
      BY <2>1, <3>1, TailRange
    <3>3. CASE Head(tasks) = "stop"
      BY <1>3, <2>2, <3>3 DEF RunTask, Begin, StopInLoop, Halting, Halted
    <3>4. CASE Head(tasks) # "stop"
      BY <1>3, <3>2, <3>4 DEF Halting
    <3>5. QED BY <3>3, <3>4
  <2>3. CASE ~RunTask
    <3>1. tasks' = tasks \/ tasks' = Append(tasks, "begin") \/ tasks' = Append(tasks, "stop")
      BY <2>3 DEF Next, vars, Start, Stop, PortFound, PortsEnd, PortsFail, OneFinished
    <3>2. \A t \in {"begin", "stop"} : Range(tasks) \subseteq Range(Append(tasks, t))
      BY <2>1, AppendRange
    <3>3. Range(tasks) \subseteq Range(tasks')
      BY <3>1, <3>2
    <3>4. QED BY <1>3, <3>3 DEF Halting
  <2>4. QED BY <2>2, <2>3
<1>4. QED BY <1>1, <1>2, <1>3 DEF Halting

(* stop() finds the discovery not running, or queues its stop.               *)
LEMMA StopHalts ==
    ASSUME IInv, Stop
    PROVE  Halting'
<1>1. tasks \in Seq({"begin", "stop"})
  BY DEF IInv, JobsAccounted, TypeOK
<1>2. CASE stopAction
  BY <1>1, <1>2, AppendRange DEF Stop, Halting
<1>3. CASE ~stopAction
  BY <1>3 DEF Stop, session, IInv, SessionInOrder, Halting, Halted
<1>4. QED BY <1>2, <1>3

(* A chain that is over has been halted below, or its halt is queued.        *)
LEMMA OverHalts ==
    ASSUME ChainIInv, Over
    PROVE  Halting
<1> USE DEF ChainIInv
<1>1. CASE ssUpStopped
  BY <1>1 DEF StopHeard
<1>2. CASE ~ssUpStopped
  <2>1. Phase = "idle" \/ (ssOutcome = "completed" /\ ~ssStopRequested)
    BY <1>2 DEF Over, SunspecProofs!IInv, SunspecProofs!EndedInOrder, SunspecProofs!StartedInOrder,
                SunspecProofs!NothingLeftRunning, SunspecProofs!TypeOK
  <2>2. Phase = "idle" \/ Phase = "ended"
    BY <2>1 DEF SunspecProofs!IInv, SunspecProofs!CompleteMeansScanned
  <2>3. Phase = "idle" => ~started
    BY DEF Phase, IInv, JobsAccounted, TypeOK
  <2>4. Phase = "ended" => completed
    BY DEF Phase, IInv, OutcomeInOrder
  <2>5. QED BY <2>2, <2>3, <2>4 DEF Halting, Halted
<1>3. QED BY <1>1, <1>2

(* A chain that is over starts and stops nothing more below.                 *)
LEMMA OverStays ==
    ASSUME ChainIInv, [ChainNext]_chainVars, Over
    PROVE  Over' /\ (~started => ~started') /\ ssUpStopped' = ssUpStopped
<1>1. [SunspecProofs!Next]_(SunspecProofs!vars)
  BY SunspecStep, SameStep DEF ChainIInv
<1>2. Over' /\ ssUpStopped' = ssUpStopped /\ (Phase = "idle" => Phase' = "idle")
  BY <1>1, SunspecProofs!OverStays DEF ChainIInv, Over
<1>3. IInv'
  BY ModbusStep, NextIInv DEF ChainIInv
<1>4. (Phase = "idle" <=> ~started) /\ (Phase' = "idle" => ~started')
  BY <1>3 DEF ChainIInv, IInv, JobsAccounted, TypeOK, OutcomeInOrder, Phase
<1>5. QED BY <1>2, <1>4

(* How the chain's steps are made of the two discoveries' steps.             *)
LEMMA ChainSteps ==
    ASSUME ChainIInv, [ChainNext]_chainVars
    PROVE  /\ [Next]_vars /\ IInv'
           /\ [SunspecProofs!Next]_(SunspecProofs!vars) /\ SunspecProofs!IInv'
<1>1. [Next]_vars /\ IInv'
  BY ModbusStep, NextIInv DEF ChainIInv
<1>2. [SunspecProofs!Next]_(SunspecProofs!vars)
  BY SunspecStep, SameStep DEF ChainIInv
<1>3. SunspecProofs!IInv'
  BY <1>2, SunspecProofs!NextIInv DEF ChainIInv
<1>4. QED BY <1>1, <1>2, <1>3

(* A step that first stops the SunSpec run stops the Modbus discovery too, or  *)
(* comes from its failure.                                                  *)
LEMMA StopHeardStays ==
    ASSUME ChainIInv, [ChainNext]_chainVars
    PROVE  StopHeard'
<1>1. CASE ssUpStopped
  <2>1. Over
    BY <1>1 DEF ChainIInv, Over, SunspecProofs!IInv, SunspecProofs!EndedInOrder
  <2>2. Halting
    BY <1>1 DEF ChainIInv, StopHeard
  <2>3. Halting'
    BY <2>1, <2>2, OverStays, ChainSteps, HaltingStays DEF ChainIInv
  <2>4. QED BY <2>3 DEF StopHeard
<1>2. CASE ssUpStopped' # ssUpStopped
  <2>1. Stop => Halting'
    BY StopHalts DEF ChainIInv
  <2>2. CASE LoopCalls
    BY <1>2, <2>2 DEF LoopCalls, Sunspec!LoopStarts, Sunspec!RunQueuedStart, Sunspec!Enter,
                      Sunspec!upstream
  <2>3. StopSunspec => Stop
    BY <1>2 DEF StopSunspec, Sunspec!StopBeforeLoop, Sunspec!upstream
  <2>4. CASE OwnerCalls \/ Retire \/ Release
    <3>1. ~Sunspec!Start
      BY <1>2 DEF Sunspec!Start, Sunspec!Enter, Sunspec!upstream
    <3>2. ~UNCHANGED ssVars
      BY <1>2 DEF ssVars
    <3>3. Stop
      BY <2>3, <2>4, <3>1, <3>2 DEF OwnerCalls, Retire, Release
    <3>4. QED BY <2>1, <3>3 DEF StopHeard
  <2>5. CASE ModbusTask \/ PortScanMoves \/ PortScanEnds \/ \E job \in Jobs : Identified(job)
    <3>1. Heard
      BY <2>5 DEF ModbusTask, PortScanMoves, PortScanEnds, Identified
    <3>2. Sunspec!UpstreamFails
      BY <1>2, <3>1 DEF Heard, ssVars, Sunspec!UpstreamEmits, Sunspec!UpstreamEmitsAndEnds,
                        Sunspec!UpstreamEnds
    <3>3. Phase' = "failed"
      BY <3>2 DEF Sunspec!UpstreamFails, Sunspec!Upstream!Fail
    <3>4. IInv'
      BY ChainSteps
    <3>5. completed'
      BY <3>3, <3>4 DEF Phase, IInv, OutcomeInOrder, JobsAccounted, TypeOK
    <3>6. QED BY <3>5 DEF StopHeard, Halting, Halted
  <2>6. CASE \E job \in Jobs : ScanCallback(job)
    BY <1>2, <2>1, <2>6 DEF ScanCallback, StopHeard
  <2>7. CASE UNCHANGED chainVars
    BY <1>2, <2>7 DEF chainVars, ssVars
  <2>8. QED BY <2>2, <2>4, <2>5, <2>6, <2>7 DEF ChainNext
<1>3. CASE ~ssUpStopped /\ ssUpStopped' = ssUpStopped
  BY <1>3 DEF StopHeard
<1>4. QED BY <1>1, <1>2, <1>3

LEMMA LessIs ==
    ASSUME NEW n \in Nat
    PROVE  Less(n) = IF n = 0 THEN 0 ELSE n - 1
<1>1. \E x \in {n - 1, 0} : \A y \in {n - 1, 0} : x >= y
  OBVIOUS
<1>2. Max({n - 1, 0}) \in {n - 1, 0} /\ \A y \in {n - 1, 0} : Max({n - 1, 0}) >= y
  BY <1>1 DEF Max
<1>3. QED BY <1>2 DEF Less

(* The tasks of a chain that is over only run out.                          *)
LEMMA TasksRunOut ==
    ASSUME ChainIInv, ChainNext, Over, retired # "no", ~Release
    PROVE  /\ retired' = retired
           /\ \/ UNCHANGED <<tasks, ahead>>
              \/ RunTask /\ tasks # <<>> /\ tasks' = Tail(tasks) /\ ahead' = Less(ahead)
<1>1. ~started => ~started'
  BY OverStays
<1>2. ~Start
  BY <1>1 DEF Start
<1>3. CASE LoopCalls
  BY <1>2, <1>3 DEF LoopCalls, retirement, vars
<1>4. ~OwnerCalls /\ ~Retire
  BY DEF OwnerCalls, Retire
<1>5. CASE ModbusTask
  BY <1>5 DEF ModbusTask, RunTask, Begin, StopInLoop
<1>6. CASE PortScanMoves \/ PortScanEnds \/ \E job \in Jobs : Identified(job)
  BY <1>6 DEF PortScanMoves, PortScanEnds, Identified, PortFound, PortsFail, PortsEnd,
              OneFinished, retirement
<1>7. CASE \E job \in Jobs : ScanCallback(job)
  BY <1>7, OverStays DEF ScanCallback, retirement, vars
<1>8. QED BY <1>3, <1>4, <1>5, <1>6, <1>7 DEF ChainNext

LEMMA RetiredStays ==
    ASSUME ChainIInv, [ChainNext]_chainVars
    PROVE  RetiredInOrder'
<1> USE DEF ChainIInv
<1>1. tasks \in Seq({"begin", "stop"}) /\ ahead \in Nat
  BY DEF IInv, JobsAccounted, TypeOK
<1>2. CASE retired = "no"
  <2>1. CASE Retire
    <3>1. retired' = "held" /\ ahead' = Len(tasks')
      BY <2>1 DEF Retire
    <3>2. Over'
      <4>1. StopSunspec => ssStopRequested'
        BY DEF StopSunspec, Sunspec!StopOnLoop, Sunspec!StopRun, Sunspec!StopBeforeLoop
      <4>2. UNCHANGED ssVars => UNCHANGED <<ssStopRequested, ssOutcome>>
        BY DEF ssVars
      <4>3. CASE StopSunspec
        BY <4>1, <4>3 DEF Over
      <4>4. CASE Over /\ UNCHANGED ssVars
        BY <4>2, <4>4 DEF Over
      <4>5. QED BY <2>1, <4>3, <4>4 DEF Retire, Over
    <3>3. QED BY <3>1, <3>2 DEF RetiredInOrder
  <2>2. CASE ~Retire
    <3>1. retired' = "no"
      BY <1>2, <2>2 DEF ChainNext, chainVars, retirement, LoopCalls, OwnerCalls, Release,
         ModbusTask, PortScanMoves, PortScanEnds, Identified, ScanCallback
    <3>2. QED BY <3>1 DEF RetiredInOrder
  <2>3. QED BY <2>1, <2>2
<1>3. CASE retired # "no"
  <2>1. Over /\ Over' /\ (~started => ~started')
    BY <1>3, OverStays DEF RetiredInOrder
  <2>2. Halting /\ Halting' /\ (Halted => Halted')
    BY <2>1, OverHalts, ChainSteps, HaltingStays
  <2>3. (ssGone => ssGone') /\ (stopped => stopped')
    BY ChainSteps, SunspecProofs!GoneStays, EndsStay
  <2>4. CASE UNCHANGED chainVars
    <3>1. UNCHANGED <<retired, ahead, tasks>>
      BY <2>4 DEF chainVars, vars, retirement
    <3>2. QED BY <2>1, <2>2, <2>3, <3>1 DEF RetiredInOrder
  <2>5. CASE Release
    <3>1. retired = "held" /\ ahead = 0 /\ retired' = "released" /\ Stop /\ Sunspec!Destroy
      BY <2>5 DEF Release
    <3>2. tasks = <<>>
      BY <1>1, <3>1, EmptySeq DEF RetiredInOrder
    <3>3. Halted
      BY <2>2, <3>2 DEF Halting, Range
    <3>4. tasks' # <<>> => stopped
      BY <3>1, <3>2, <3>3 DEF Stop, Halted, IInv, SessionInOrder
    <3>5. ssGone'
      BY <3>1 DEF Sunspec!Destroy
    <3>6. QED BY <2>1, <2>2, <2>3, <3>1, <3>3, <3>4, <3>5 DEF RetiredInOrder
  <2>6. CASE ChainNext /\ ~Release
    <3>1. /\ retired' = retired
          /\ \/ UNCHANGED <<tasks, ahead>>
             \/ RunTask /\ tasks # <<>> /\ tasks' = Tail(tasks) /\ ahead' = Less(ahead)
      BY <1>3, <2>1, <2>6, TasksRunOut
    <3>2. CASE retired = "held"
      <4>1. tasks # <<>> => Len(tasks) \in Nat \ {0} /\ Len(Tail(tasks)) = Len(tasks) - 1
        BY <1>1, EmptySeq, HeadTailProperties
      <4>2. Len(tasks') = ahead'
        BY <1>1, <3>1, <3>2, <4>1, LessIs DEF RetiredInOrder
      <4>3. QED BY <2>1, <3>1, <3>2, <4>2 DEF RetiredInOrder
    <3>3. CASE retired = "released"
      <4>1. tasks' # <<>> => stopped
        BY <3>1, <3>3 DEF RetiredInOrder
      <4>2. QED BY <2>1, <2>2, <2>3, <3>1, <3>3, <4>1 DEF RetiredInOrder
    <3>4. QED BY <1>3, <3>2, <3>3
  <2>7. QED BY <2>4, <2>5, <2>6
<1>4. QED BY <1>2, <1>3

LEMMA AheadType ==
    ASSUME ChainIInv, [ChainNext]_chainVars
    PROVE  /\ retired' \in {"no", "held", "released"} /\ ahead' \in Nat /\ scanAhead' \in Nat
<1> USE DEF ChainIInv
<1>1. IInv'
  BY ChainSteps
<1>2. Len(tasks') \in Nat /\ Less(ahead) \in Nat /\ Less(scanAhead) \in Nat
  <2>1. Len(tasks') \in Nat
    BY <1>1, LenProperties DEF IInv, JobsAccounted, TypeOK
  <2>2. \A n \in Nat : Less(n) \in Nat
    BY LessIs
  <2>3. QED BY <2>1, <2>2
<1>3. CASE LoopCalls \/ OwnerCalls \/ PortScanEnds \/ PortScanMoves
           \/ \E job \in Jobs : Identified(job) \/ ScanCallback(job)
  BY <1>3 DEF LoopCalls, OwnerCalls, PortScanEnds, PortScanMoves, Identified, ScanCallback,
              retirement
<1>4. CASE Retire \/ Release
  BY <1>2, <1>4 DEF Retire, Release
<1>5. CASE ModbusTask
  <2>1. retired' = retired /\ ahead' = Less(ahead)
        /\ (scanAhead' = Len(tasks') \/ scanAhead' = Less(scanAhead))
    BY <1>5 DEF ModbusTask
  <2>2. QED BY <1>2, <2>1
<1>6. CASE UNCHANGED chainVars
  BY <1>6 DEF chainVars, retirement
<1>7. QED BY <1>3, <1>4, <1>5, <1>6 DEF ChainNext

LEMMA ChainInitIInv == ChainInit => ChainIInv
<1> SUFFICES ASSUME ChainInit PROVE ChainIInv
  OBVIOUS
<1>1. IInv
  BY InitIInv DEF ChainInit
<1>2. SunspecProofs!IInv
  BY SunspecProofs!InitIInv, SameProperties DEF ChainInit
<1>3. StopHeard /\ RetiredInOrder
  BY DEF ChainInit, Sunspec!Init, StopHeard, RetiredInOrder
<1>4. QED BY <1>1, <1>2, <1>3 DEF ChainInit, ChainIInv

LEMMA ChainNextIInv == ChainIInv /\ [ChainNext]_chainVars => ChainIInv'
BY ChainSteps, StopHeardStays, RetiredStays, AheadType DEF ChainIInv

-----------------------------------------------------------------------------
(* A Modbus discovery ends with whatever it waits for last.                   *)

(* A session that is not over is subscribed or about to be.  While it is, the *)
(* end of the port scan is its own, and leaves it a job unless its stop then   *)
(* takes the last.                                                         *)
GoesOn ==
    /\ started /\ ~completed => subscribed \/ "begin" \in Range(tasks)
    /\ subscribed => upPhase \in {"running", "ended"}
    /\ subscribed /\ upPhase = "ended" =>
          upstreamCompleted /\ (stoppedLate \/ pending # <<>> \/ active # {})

(* Where maybeComplete does not end the session, there is something to wait    *)
(* for.                                                                    *)
LEMMA MaybeCompleteGoesOn ==
    ASSUME NEW p, NEW a, NEW up, ~completed, MaybeComplete(p, a, up)
    PROVE  \/ completed' /\ ~subscribed'
           \/ UNCHANGED <<completed, subscribed>> /\ (~up \/ p # <<>> \/ a # {})
<1>1. CASE ~up \/ p # <<>> \/ a # {}
  BY <1>1 DEF MaybeComplete
<1>2. CASE ~(~up \/ p # <<>> \/ a # {})
  <2>1. completed' = TRUE /\ subscribed' = FALSE
    BY <1>2 DEF MaybeComplete, Finish
  <2>2. QED BY <2>1
<1>3. QED BY <1>1, <1>2

(* A session that is over waits for nothing.                                 *)
LEMMA OverGoesOn == ASSUME completed', ~subscribed' PROVE GoesOn'
BY DEF GoesOn

(* Running a stop leaves the session's beginning in the queue.               *)
LEMMA BeginWaits ==
    ASSUME IInv, tasks # <<>>, Head(tasks) = "stop", tasks' = Tail(tasks)
    PROVE  "begin" \in Range(tasks) => "begin" \in Range(tasks')
<1>1. tasks \in Seq({"begin", "stop"})
  BY DEF IInv, JobsAccounted, TypeOK
<1>2. Range(tasks) \subseteq {Head(tasks)} \cup Range(tasks')
  BY <1>1, TailRange
<1>3. QED BY <1>2

LEMMA TasksGoOn ==
    ASSUME IInv, IInv', GoesOn, RunTask
    PROVE  GoesOn'
<1>1. CASE Begin
  <2>1. CASE stopped
    <3>1. completed'
      BY <1>1, <2>1 DEF Begin, Finish
    <3>2. ~subscribed'
      BY <3>1 DEF IInv, SessionInOrder
    <3>3. QED BY <3>1, <3>2, OverGoesOn
  <2>2. CASE ~stopped
    <3>1. subscribed' /\ upPhase' = "running"
      BY <1>1, <2>2 DEF Begin, Upstream!Start
    <3>2. QED BY <3>1 DEF GoesOn
  <2>3. QED BY <2>1, <2>2
<1>2. CASE StopInLoop
  <2>1. /\ "begin" \in Range(tasks) => "begin" \in Range(tasks')
        /\ UNCHANGED <<upPhase, started, upstreamCompleted>>
    BY <1>2, BeginWaits DEF StopInLoop, session
  <2>2. CASE stopped
    <3>1. UNCHANGED <<subscribed, pending, active, stoppedLate, completed>>
      BY <1>2, <2>2 DEF StopInLoop, session
    <3>2. QED BY <2>1, <3>1 DEF GoesOn
  <2>3. CASE ~stopped
    <3>1. /\ stoppedLate' = (upstreamCompleted /\ active # {})
          /\ IF active = {} THEN MaybeComplete(<<>>, {}, upstreamCompleted)
             ELSE UNCHANGED <<completed, subscribed>>
      BY <1>2, <2>3 DEF StopInLoop
    <3>2. CASE active # {}
      BY <2>1, <3>1, <3>2 DEF GoesOn
    <3>3. CASE active = {} /\ subscribed
      <4>1. ~completed /\ MaybeComplete(<<>>, {}, upstreamCompleted)
        BY <3>1, <3>3 DEF IInv, SessionInOrder
      <4>2. CASE completed' /\ ~subscribed'
        BY <4>2, OverGoesOn
      <4>3. CASE UNCHANGED <<completed, subscribed>> /\ ~upstreamCompleted
        BY <2>1, <3>3, <4>3 DEF GoesOn
      <4>4. QED BY <4>1, <4>2, <4>3, MaybeCompleteGoesOn
    <3>4. CASE active = {} /\ ~subscribed
      <4>1. UNCHANGED <<completed, subscribed>> \/ (completed' = TRUE /\ subscribed' = FALSE)
        BY <3>1, <3>4, MaybeCompleteFacts
      <4>2. QED BY <2>1, <3>4, <4>1, OverGoesOn DEF GoesOn
    <3>5. QED BY <3>2, <3>3, <3>4
  <2>4. QED BY <2>2, <2>3
<1>3. QED BY <1>1, <1>2 DEF RunTask

LEMMA PortsGoOn ==
    ASSUME IInv, IInv', GoesOn,
           (\E port \in Ports : PortFound(port)) \/ PortsEnd \/ PortsFail
    PROVE  GoesOn'
<1>1. subscribed => ~completed
  BY DEF IInv, SessionInOrder
<1>2. ASSUME NEW port \in Ports, PortFound(port) PROVE GoesOn'
  <2>1. upPhase' = "running" /\ UNCHANGED <<started, tasks>>
    BY <1>2 DEF PortFound, Upstream!Emit
  <2>2. CASE UNCHANGED <<completed, subscribed>>
    BY <2>1, <2>2 DEF GoesOn
  <2>3. CASE completed' = TRUE /\ subscribed' = FALSE
    BY <2>3, OverGoesOn
  <2>4. QED BY <1>2, <2>2, <2>3, MaybeCompleteFacts DEF PortFound, Fill
<1>3. CASE PortsEnd
  <2>1. upPhase' = "ended" /\ UNCHANGED <<started, tasks, pending, active, stoppedLate>>
    BY <1>3 DEF PortsEnd, Upstream!End, history
  <2>2. CASE subscribed
    <3>1. upstreamCompleted' = TRUE /\ MaybeComplete(pending, active, TRUE)
      BY <1>3, <2>2 DEF PortsEnd
    <3>2. CASE completed' /\ ~subscribed'
      BY <3>2, OverGoesOn
    <3>3. CASE UNCHANGED <<completed, subscribed>> /\ (pending # <<>> \/ active # {})
      BY <2>1, <3>1, <3>3 DEF GoesOn
    <3>4. QED BY <1>1, <2>2, <3>1, <3>2, <3>3, MaybeCompleteGoesOn
  <2>3. CASE ~subscribed
    <3>1. UNCHANGED <<upstreamCompleted, completed, subscribed>>
      BY <1>3, <2>3 DEF PortsEnd
    <3>2. QED BY <2>1, <2>3, <3>1 DEF GoesOn
  <2>4. QED BY <2>2, <2>3
<1>4. CASE PortsFail
  <2>1. UNCHANGED <<started, tasks>>
    BY <1>4 DEF PortsFail
  <2>2. CASE subscribed
    <3>1. completed' = TRUE /\ subscribed' = FALSE
      BY <1>1, <1>4, <2>2 DEF PortsFail, Finish
    <3>2. QED BY <3>1, OverGoesOn
  <2>3. CASE ~subscribed
    <3>1. UNCHANGED <<completed, subscribed>>
      BY <1>4, <2>3 DEF PortsFail
    <3>2. QED BY <2>1, <2>3, <3>1 DEF GoesOn
  <2>4. QED BY <2>2, <2>3
<1>5. QED BY <1>2, <1>3, <1>4

LEMMA OneFinishedGoesOn ==
    ASSUME IInv, GoesOn, NEW job \in Jobs, NEW named \in BOOLEAN, OneFinished(job, named)
    PROVE  GoesOn'
<1>1. /\ ~completed /\ MaybeComplete(pending', active', upstreamCompleted)
      /\ UNCHANGED <<upPhase, started, tasks, stoppedLate, upstreamCompleted>>
  BY DEF OneFinished, Fill, upstream, IInv, SessionInOrder
<1>2. CASE completed' /\ ~subscribed'
  BY <1>2, OverGoesOn
<1>3. CASE /\ UNCHANGED <<completed, subscribed>>
           /\ ~upstreamCompleted \/ pending' # <<>> \/ active' # {}
  BY <1>1, <1>3 DEF GoesOn
<1>4. QED BY <1>1, <1>2, <1>3, MaybeCompleteGoesOn

LEMMA NextGoesOn == ASSUME IInv, IInv', GoesOn, [Next]_vars PROVE GoesOn'
<1>1. tasks \in Seq({"begin", "stop"})
  BY DEF IInv, JobsAccounted, TypeOK
<1>2. CASE Start
  <2>1. tasks' = Append(tasks, "begin") /\ UNCHANGED <<upstream, session, history>>
    BY <1>2 DEF Start
  <2>2. "begin" \in Range(tasks')
    BY <1>1, <2>1, AppendRange
  <2>3. QED BY <2>1, <2>2 DEF GoesOn, upstream, session, history
<1>3. CASE Stop
  <2>1. Range(tasks) \subseteq Range(tasks')
    BY <1>1, <1>3, AppendRange DEF Stop
  <2>2. QED BY <1>3, <2>1 DEF Stop, GoesOn, upstream, session, history
<1>4. CASE RunTask
  BY <1>4, TasksGoOn
<1>5. CASE (\E port \in Ports : PortFound(port)) \/ PortsEnd \/ PortsFail
  BY <1>5, PortsGoOn
<1>6. CASE \E job \in Jobs, named \in BOOLEAN : OneFinished(job, named)
  BY <1>6, OneFinishedGoesOn
<1>7. CASE UNCHANGED vars
  BY <1>7 DEF vars, upstream, handle, session, history, GoesOn
<1>8. QED BY <1>2, <1>3, <1>4, <1>5, <1>6, <1>7 DEF Next

(* A job that waits, waits for one that runs.                                *)
LEMMA WaitingBehind == ASSUME IInv, pending # <<>> PROVE active # {}
<1>1. Cardinality(active) = MaxConcurrency
  BY DEF IInv, JobsAccounted, SlotsUsed
<1>2. MaxConcurrency # 0
  BY DiscoveryAssumption
<1>3. QED BY <1>1, <1>2, FS_EmptySet

(* Until a stop each unit of each port reported waits, runs or has called back, *)
(* once; and when the port scan and every identifier have ended, in whatever  *)
(* order, so has the discovery.  Only a stop that comes between the two can   *)
(* leave it waiting (enqueue, fill, oneFinished, maybeComplete,              *)
(* onUpstreamCompleted, Session::stop).                                     *)
THEOREM EndIsExact == Spec => []EndsWhenIdentified
<1>1. Init => GoesOn
  BY DEF Init, GoesOn
<1>2. IInv /\ IInv' /\ GoesOn /\ [Next]_vars => GoesOn'
  BY NextGoesOn
<1>3. IInv /\ GoesOn => EndsWhenIdentified
  <2> SUFFICES ASSUME IInv, GoesOn PROVE EndsWhenIdentified
    OBVIOUS
  <2>1. ASSUME started, outcome = "none"
        PROVE  \/ \E i \in DOMAIN tasks : tasks[i] = "begin"
               \/ subscribed /\ upPhase = "running"
               \/ active # {}
               \/ stoppedLate
    <3>1. subscribed \/ "begin" \in Range(tasks)
      BY <2>1 DEF GoesOn, IInv, OutcomeInOrder
    <3>2. CASE "begin" \in Range(tasks)
      BY <3>2 DEF Range
    <3>3. CASE subscribed
      BY <3>3, WaitingBehind DEF GoesOn
    <3>4. QED BY <3>1, <3>2, <3>3
  <2>2. QED BY <2>1 DEF EndsWhenIdentified, NeverStalls, IInv
<1>4. QED BY <1>1, <1>2, <1>3, Invariance, PTL DEF Spec

-----------------------------------------------------------------------------
(* What holds of the chain.                                                *)

(* Both discoveries of a chain stand as they do alone, and its retirement      *)
(* goes in order (startSunspec, stopSunspecChain in                         *)
(* src/bootstrap/DiscoveryService.cpp).                                     *)
THEOREM ChainInvariance == ChainSpec => []ChainIInv
BY ChainInitIInv, ChainNextIInv, PTL DEF ChainSpec

(* No task of a destroyed chain goes on to use the port scanner or the Modbus  *)
(* discovery; each of its identifiers has called back or was cancelled, a     *)
(* port scan under way was told to stop, and each session of a scan is closed *)
(* (stopSunspecChain, Session::stop).                                       *)
THEOREM ReleasedIsUntouched == ChainSpec => []ReleasedUntouched
<1>1. ChainIInv => ReleasedUntouched
  <2> SUFFICES ASSUME ChainIInv PROVE ReleasedUntouched
    OBVIOUS
  <2> USE DEF ChainIInv
  <2>1. ChainTypeOK
    BY SameProperties DEF ChainTypeOK, IInv, JobsAccounted, SunspecProofs!IInv,
                          SunspecProofs!NothingLeftRunning
  <2>2. ASSUME retired = "released"
        PROVE  /\ tasks # <<>> => stopped
               /\ pending = <<>> /\ begun = done \cup cancelled
               /\ upPhase = "running" => upStopped
               /\ ssOpen = {}
    <3>1. ssGone /\ Halted /\ (tasks # <<>> => stopped)
      BY <2>2 DEF RetiredInOrder
    <3>2. pending = <<>> /\ active = {}
      BY <3>1 DEF Halted, IInv, JobsAccounted, NothingLeft, SessionInOrder
    <3>3. begun = done \cup cancelled
      BY <3>2 DEF IInv, JobsAccounted, NoneOverlooked
    <3>4. upPhase = "running" => upStopped
      BY <3>1 DEF Halted, IInv, JobsAccounted, TypeOK, NothingLeft, SessionInOrder,
                  OutcomeInOrder
    <3>5. ssOpen = {}
      BY <3>1 DEF SunspecProofs!IInv, SunspecProofs!NothingLeftRunning,
                  SunspecProofs!NoSessionLeftOpen, SunspecProofs!Ignoring
    <3>6. QED BY <3>1, <3>2, <3>3, <3>4, <3>5
  <2>3. QED BY <2>1, <2>2 DEF ReleasedUntouched
<1>2. QED BY ChainInvariance, <1>1, PTL

(* In the chain too, each unit of each port reported is accounted for once,    *)
(* and the Modbus discovery ends when all are done, except after a late stop. *)
THEOREM ChainJobsAccounted == ChainSpec => []EndsWhenIdentified
BY ModbusInChain, EndIsExact, PTL

(* In the chain too, nothing is emitted once the loop has run the stop.       *)
THEOREM ChainSilent == ChainSpec => SilentOnceStopped
BY ModbusInChain, SilentAfterStop, PTL

(* In the chain too, the Modbus discovery keeps the contract that the SunSpec   *)
(* discovery above it counts on.                                            *)
THEOREM ChainFlow == ChainSpec => ImplementsFlow
BY ModbusInChain, FlowImplemented, PTL

(* In the chain the SunSpec run leaves nothing running, and ends exactly when   *)
(* the real Modbus discovery has and every thing it reported is scanned.      *)
THEOREM ChainScansWhole ==
    ChainSpec => [](Sunspec!NothingLeftRunning /\ Sunspec!EndsWhenScanned)
<1>1. ChainIInv => Sunspec!NothingLeftRunning
  BY SameProperties DEF ChainIInv, SunspecProofs!IInv
<1>2. ChainInit => SunspecProofs!Awaiting
  BY DEF ChainInit, Sunspec!Init, SunspecProofs!Awaiting
<1>3. ChainIInv /\ SunspecProofs!Awaiting /\ [ChainNext]_chainVars => SunspecProofs!Awaiting'
  BY ChainSteps, SunspecProofs!NextAwaiting DEF ChainIInv
<1>4. ChainIInv /\ SunspecProofs!Awaiting => Sunspec!EndsWhenScanned
  BY SameProperties DEF ChainIInv, SunspecProofs!IInv, SunspecProofs!Awaiting,
     SunspecProofs!Waits, Sunspec!EndsWhenScanned, Sunspec!NeverStalls
<1>5. QED BY ChainInvariance, <1>1, <1>2, <1>3, <1>4, PTL DEF ChainSpec
=============================================================================
