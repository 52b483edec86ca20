-------------------------- MODULE PortScannerProofs --------------------------
(***************************************************************************)
(* Theorems about PortScanner for every number of jobs, every concurrency   *)
(* and every number of stops, and about the jobs that MCPortScanner gives   *)
(* it, for every width of an address, every subnet and every set of ports.  *)
(***************************************************************************)
EXTENDS MCPortScanner, SequenceTheorems, FiniteSetTheorems, TLAPS

-----------------------------------------------------------------------------
(* The inductive invariant.                                                *)

OpenIn(c) == {j \in Jobs : c[j] \in {"posted", "connecting"}}

(* The jobs that were taken are the first ones, and only they have tasks.    *)
TakenInOrder ==
    /\ \A j \in Jobs : connector[j] = "none" <=> j > nextJob
    /\ \A task \in Range(tasks) : task.job <= nextJob

(* Until it is stopped the session knows exactly the connections under way,  *)
(* then none.                                                              *)
ActiveAreOpen == IF stopped THEN active = {} ELSE active = OpenIn(connector)

(* The scan ends once, after its start.                                     *)
EndedOnce ==
    /\ ended = IF completed THEN 1 ELSE 0
    /\ ~started => tasks = <<>> /\ ~completed /\ ~stopAction /\ nextJob = 0

IInv == ConnectionsAccounted /\ EndMeansScanned /\ TakenInOrder /\ ActiveAreOpen /\ EndedOnce

-----------------------------------------------------------------------------
(* Queues of tasks.                                                        *)

LEMMA TailTasks ==
    ASSUME NEW S, NEW q \in Seq(S), q # <<>>
    PROVE  /\ Head(q) \in S /\ Tail(q) \in Seq(S)
           /\ Range(q) = {Head(q)} \cup Range(Tail(q))
<1>1. /\ Len(q) \in Nat \ {0} /\ DOMAIN q = 1..Len(q)
      /\ Head(q) \in S /\ Tail(q) \in Seq(S) /\ Len(Tail(q)) = Len(q) - 1
      /\ \A i \in 1..Len(Tail(q)) : Tail(q)[i] = q[i + 1]
      /\ Head(q) = q[1]
  BY HeadTailProperties, LenProperties, EmptySeq
<1>2. DOMAIN Tail(q) = 1..(Len(q) - 1)
  BY <1>1, LenProperties
<1>3. ASSUME NEW i \in 1..Len(q) PROVE q[i] \in {Head(q)} \cup Range(Tail(q))
  <2>1. CASE i = 1
    BY <1>1, <2>1
  <2>2. CASE i # 1
    <3>1. i - 1 \in 1..(Len(q) - 1) /\ (i - 1) + 1 = i
      BY <1>1, <2>2
    <3>2. Tail(q)[i - 1] = q[i]
      BY <1>1, <3>1
    <3>3. QED BY <1>2, <3>1, <3>2 DEF Range
  <2>3. QED BY <2>1, <2>2
<1>4. ASSUME NEW i \in 1..(Len(q) - 1) PROVE Tail(q)[i] \in Range(q)
  <2>1. i + 1 \in 1..Len(q)
    BY <1>1
  <2>2. QED BY <1>1, <2>1 DEF Range
<1>5. QED BY <1>1, <1>2, <1>3, <1>4 DEF Range

LEMMA AppendTask ==
    ASSUME NEW S, NEW q \in Seq(S), NEW e \in S
    PROVE  /\ Append(q, e) \in Seq(S) /\ Append(q, e) # <<>>
           /\ Range(Append(q, e)) = Range(q) \cup {e}
<1>1. /\ Append(q, e) \in Seq(S) /\ Len(Append(q, e)) = Len(q) + 1 /\ Len(q) \in Nat
      /\ \A i \in 1..Len(q) : Append(q, e)[i] = q[i]
      /\ Append(q, e)[Len(q) + 1] = e /\ Append(q, e) # <<>>
  BY AppendProperties, LenProperties
<1>2. DOMAIN q = 1..Len(q) /\ DOMAIN Append(q, e) = 1..(Len(q) + 1)
  BY <1>1, LenProperties
<1>3. 1..(Len(q) + 1) = (1..Len(q)) \cup {Len(q) + 1}
  BY <1>1
<1>4. QED BY <1>1, <1>2, <1>3 DEF Range

(* NoOrphanConnection in terms of what the queue contains.                  *)
LEMMA Queued == \A task : (\E i \in DOMAIN tasks : tasks[i] = task) <=> task \in Range(tasks)
BY DEF Range

-----------------------------------------------------------------------------
(* The tasks that cancel the active connectors.                             *)

Below(a, j) == {k \in a : k < j}

(* The rank of a job among the active ones counts them without a gap.        *)
LEMMA Ranks ==
    ASSUME NEW a \in SUBSET Jobs
    PROVE  /\ IsFiniteSet(a) /\ Cardinality(a) \in Nat
           /\ \A j \in a : Cardinality(Below(a, j)) + 1 \in 1..Cardinality(a)
           /\ \A j, k \in a : Cardinality(Below(a, j)) = Cardinality(Below(a, k)) => j = k
           /\ \A i \in 1..Cardinality(a) : \E j \in a : Cardinality(Below(a, j)) = i - 1
<1>1. IsFiniteSet(a) /\ Cardinality(a) \in Nat /\ a \subseteq Nat
  <2>1. IsFiniteSet(Jobs) /\ Jobs \subseteq Nat
    BY ScannerAssumption, FS_Interval DEF Jobs
  <2>2. QED BY <2>1, FS_Subset, FS_CardinalityType
<1>2. ASSUME NEW b \in SUBSET a PROVE IsFiniteSet(b) /\ Cardinality(b) \in Nat
  BY <1>1, FS_Subset, FS_CardinalityType
<1>3. ASSUME NEW j \in a, NEW b \in SUBSET a, Below(a, j) \cup {j} \subseteq b
      PROVE  Cardinality(Below(a, j)) + 1 <= Cardinality(b)
  <2>1. Below(a, j) \in SUBSET a /\ j \notin Below(a, j)
    BY <1>1 DEF Below
  <2>2. IsFiniteSet(Below(a, j)) /\ Cardinality(Below(a, j)) \in Nat
    BY <1>2, <2>1
  <2>3. Cardinality(Below(a, j) \cup {j}) = Cardinality(Below(a, j)) + 1
    BY <2>1, <2>2, FS_AddElement
  <2>4. Cardinality(Below(a, j) \cup {j}) <= Cardinality(b)
    BY <1>2, <1>3, FS_Subset
  <2>5. QED BY <2>3, <2>4
<1>4. \A j \in a : Cardinality(Below(a, j)) + 1 \in 1..Cardinality(a)
  <2>1. SUFFICES ASSUME NEW j \in a PROVE Cardinality(Below(a, j)) + 1 \in 1..Cardinality(a)
    OBVIOUS
  <2>2. Below(a, j) \in SUBSET a /\ Below(a, j) \cup {j} \subseteq a
    BY DEF Below
  <2>3. Cardinality(Below(a, j)) \in Nat /\ Cardinality(Below(a, j)) + 1 <= Cardinality(a)
    BY <1>2, <1>3, <2>2
  <2>4. QED BY <1>1, <2>3
<1>5. ASSUME NEW j \in a, NEW k \in a, j < k
      PROVE  Cardinality(Below(a, j)) # Cardinality(Below(a, k))
  <2>0. ASSUME NEW m \in Below(a, j) PROVE m \in Below(a, k)
    <3>1. m \in a /\ m < j
      BY DEF Below
    <3>2. m \in Nat /\ j \in Nat /\ k \in Nat
      BY <1>1, <3>1
    <3>3. m < k
      BY <1>5, <3>1, <3>2
    <3>4. QED BY <3>1, <3>3 DEF Below
  <2>1. /\ Below(a, j) \cup {j} \subseteq Below(a, k)
        /\ Below(a, k) \in SUBSET a /\ Below(a, j) \in SUBSET a
    <3>1. j \in Below(a, k)
      BY <1>5 DEF Below
    <3>2. Below(a, k) \in SUBSET a /\ Below(a, j) \in SUBSET a
      BY DEF Below
    <3>3. QED BY <2>0, <3>1, <3>2
  <2>2. Cardinality(Below(a, j)) + 1 <= Cardinality(Below(a, k))
    BY <1>3, <2>1
  <2>3. Cardinality(Below(a, j)) \in Nat /\ Cardinality(Below(a, k)) \in Nat
    BY <1>2, <2>1
  <2>4. QED BY <2>2, <2>3
<1>6. \A j, k \in a : Cardinality(Below(a, j)) = Cardinality(Below(a, k)) => j = k
  <2>1. SUFFICES ASSUME NEW j \in a, NEW k \in a, j # k
                 PROVE  Cardinality(Below(a, j)) # Cardinality(Below(a, k))
    OBVIOUS
  <2>2. j < k \/ k < j
    BY <1>1, <2>1
  <2>3. QED BY <1>5, <2>2
<1>7. \A i \in 1..Cardinality(a) : \E j \in a : Cardinality(Below(a, j)) = i - 1
  <2> DEFINE rank == [j \in a |-> Cardinality(Below(a, j)) + 1]
  <2>1. rank \in Injection(a, 1..Cardinality(a))
    <3>1. rank \in [a -> 1..Cardinality(a)]
      BY <1>4
    <3>2. ASSUME NEW j \in a, NEW k \in a, rank[j] = rank[k] PROVE j = k
      <4>1. /\ Cardinality(Below(a, j)) + 1 \in 1..Cardinality(a)
            /\ Cardinality(Below(a, k)) + 1 \in 1..Cardinality(a)
            /\ Cardinality(Below(a, j)) + 1 = Cardinality(Below(a, k)) + 1
        BY <1>4, <3>2
      <4>2. Below(a, j) \in SUBSET a /\ Below(a, k) \in SUBSET a
        BY DEF Below
      <4>3. Cardinality(Below(a, j)) \in Nat /\ Cardinality(Below(a, k)) \in Nat
        BY <1>2, <4>2
      <4>4. Cardinality(Below(a, j)) = Cardinality(Below(a, k))
        BY <4>1, <4>3
      <4>5. QED BY <1>6, <4>4
    <3>3. QED BY <3>1, <3>2 DEF Injection, IsInjective
  <2>2. IsFiniteSet(1..Cardinality(a)) /\ Cardinality(1..Cardinality(a)) = Cardinality(a)
    BY <1>1, FS_Interval
  <2>3. rank \in Surjection(a, 1..Cardinality(a))
    <3> HIDE DEF rank
    <3>1. QED BY <2>1, <2>2, FS_Injection
  <2>4. ASSUME NEW i \in 1..Cardinality(a)
        PROVE  \E j \in a : Cardinality(Below(a, j)) = i - 1
    <3>1. PICK j \in a : rank[j] = i
      BY <2>3 DEF Surjection
    <3>2. Below(a, j) \in SUBSET a
      BY DEF Below
    <3>3. Cardinality(Below(a, j)) \in Nat /\ Cardinality(Below(a, j)) + 1 = i
      BY <1>2, <3>1, <3>2
    <3>4. QED BY <3>3
  <2>5. QED BY <2>4
<1>8. QED BY <1>1, <1>4, <1>6, <1>7

(* Each active connector is cancelled by a task, and nothing else is.         *)
LEMMA CancelTasksFacts ==
    ASSUME NEW a \in SUBSET Jobs
    PROVE  /\ CancelTasks(a) \in Seq(Tasks)
           /\ Range(CancelTasks(a)) = {Task("cancel", j) : j \in a}
<1> DEFINE n == Cardinality(a)
           nth(i) == CHOOSE j \in a : Cardinality(Below(a, j)) = i - 1
<1>1. CancelTasks(a) = [i \in 1..n |-> Task("cancel", nth(i))]
  BY DEF CancelTasks, Below
<1>2. n \in Nat
  BY Ranks
<1>3. ASSUME NEW i \in 1..n PROVE nth(i) \in a /\ Cardinality(Below(a, nth(i))) = i - 1
  <2>1. \E j \in a : Cardinality(Below(a, j)) = i - 1
    BY Ranks
  <2>2. QED BY <2>1
<1>4. ASSUME NEW j \in a PROVE \E i \in 1..n : nth(i) = j
  <2>1. Cardinality(Below(a, j)) + 1 \in 1..n
    BY Ranks
  <2>2. Below(a, j) \in SUBSET a /\ IsFiniteSet(a)
    BY Ranks DEF Below
  <2>3. Cardinality(Below(a, j)) \in Nat
    BY <2>2, FS_Subset, FS_CardinalityType
  <2>4. PICK i \in 1..n : i - 1 = Cardinality(Below(a, j))
    BY <2>1, <2>3
  <2>5. nth(i) \in a /\ Cardinality(Below(a, nth(i))) = Cardinality(Below(a, j))
    BY <1>3, <2>4
  <2>6. nth(i) = j
    BY <2>5, Ranks
  <2>7. QED BY <2>6
<1> HIDE DEF n, nth
<1>5. \A j \in a : Task("cancel", j) \in Tasks
  BY DEF Task, Tasks
<1>6. CancelTasks(a) \in [1..n -> Tasks]
  BY <1>1, <1>3, <1>5
<1>7. CancelTasks(a) \in Seq(Tasks)
  BY <1>2, <1>6, SeqDef
<1>8. Range(CancelTasks(a)) = {Task("cancel", nth(i)) : i \in 1..n}
  BY <1>1 DEF Range
<1>9. QED BY <1>3, <1>4, <1>7, <1>8

-----------------------------------------------------------------------------
(* Fill, from the tasks, the active jobs and the connectors its caller left.  *)

(* The state a caller of Fill hands over, and the one Fill leaves.           *)
Sound(t, a, c, n) ==
    /\ t \in Seq(Tasks) /\ a \in SUBSET Jobs /\ n \in 0..JobCount
    /\ c \in [Jobs -> {"none", "posted", "connecting", "finished"}]
    /\ \A j \in Jobs : c[j] = "none" <=> j > n
    /\ \A task \in Range(t) : task.job <= n
    /\ Cardinality(OpenIn(c)) <= MaxConcurrency
    /\ IF stopped THEN a = {} ELSE a = OpenIn(c)

(* The jobs that Fill takes follow those taken before.                       *)
LEMMA Taken ==
    ASSUME NEW a \in SUBSET Jobs, nextJob \in 0..JobCount, Cardinality(a) <= MaxConcurrency
    PROVE  /\ LastTaken(a) \in nextJob..JobCount
           /\ LastTaken(a) - nextJob <= MaxConcurrency - Cardinality(a)
           /\ a = {} /\ LastTaken(a) = nextJob => nextJob = JobCount
<1>1. Cardinality(a) \in Nat /\ IsFiniteSet(a)
  BY Ranks
<1>2. JobCount \in Nat /\ MaxConcurrency \in Nat \ {0}
  BY ScannerAssumption
<1>3. a = {} => Cardinality(a) = 0
  BY FS_EmptySet
<1>4. QED BY <1>1, <1>2, <1>3 DEF LastTaken

LEMMA FillFacts ==
    ASSUME NEW t, NEW a, NEW c, Sound(t, a, c, nextJob), stopped \in BOOLEAN,
           Fill(t, a, c)
    PROVE  /\ Sound(tasks', active', connector', nextJob')
           /\ nextJob <= nextJob'
           /\ Range(t) \subseteq Range(tasks')
           /\ stopped => OpenIn(connector') = OpenIn(c)
           /\ IF stopped \/ Drained(active', nextJob') THEN Finish ELSE Continue
           /\ Drained(active', nextJob') => active' = {} /\ nextJob' = JobCount
           /\ ~stopped => active' = a \cup ((nextJob + 1)..nextJob')
<1> USE DEF Sound
<1>1. CASE stopped
  <2>1. /\ tasks' = t /\ active' = a /\ connector' = c /\ nextJob' = nextJob /\ Finish
    BY <1>1 DEF Fill
  <2>2. JobCount \in Nat
    BY ScannerAssumption
  <2>3. Drained(active', nextJob') => active' = {} /\ nextJob' = JobCount
    BY <2>1, <2>2 DEF Drained
  <2>4. QED BY <1>1, <2>1, <2>3
<1>2. CASE ~stopped
  <2> DEFINE last == LastTaken(a)
             new == (nextJob + 1)..last
             posted == [i \in 1..(last - nextJob) |-> Task("start", nextJob + i)]
  <2>1. /\ nextJob' = last
        /\ active' = a \cup new
        /\ connector' = [j \in Jobs |-> IF j \in new THEN "posted" ELSE c[j]]
        /\ tasks' = t \o posted
        /\ IF Drained(active', nextJob') THEN Finish ELSE Continue
    BY <1>2 DEF Fill
  <2>2. /\ nextJob \in 0..JobCount /\ JobCount \in Nat /\ a = OpenIn(c) /\ a \in SUBSET Jobs
        /\ MaxConcurrency \in Nat
    BY <1>2, ScannerAssumption
  <2>3. /\ last \in nextJob..JobCount
        /\ last - nextJob <= MaxConcurrency - Cardinality(a)
    BY <2>2, Taken
  <2> HIDE DEF last
  <2>4. new \subseteq Jobs /\ \A j \in Jobs : j \in new <=> (nextJob < j /\ j <= last)
    BY <2>2, <2>3 DEF Jobs
  <2>5. posted \in Seq(Tasks) /\ \A task \in Range(posted) : task.job <= last
    <3>1. ASSUME NEW i \in 1..(last - nextJob)
          PROVE  Task("start", nextJob + i) \in Tasks /\ Task("start", nextJob + i).job <= last
      <4>1. nextJob + i \in Jobs /\ nextJob + i <= last
        BY <2>2, <2>3 DEF Jobs
      <4>2. QED BY <4>1 DEF Task, Tasks
    <3>2. last - nextJob \in Nat
      BY <2>2, <2>3
    <3>3. posted \in [1..(last - nextJob) -> Tasks]
      BY <3>1
    <3>4. posted \in Seq(Tasks)
      BY <3>2, <3>3, SeqDef
    <3>5. QED BY <3>1, <3>4 DEF Range
  <2> HIDE DEF posted
  <2>6. tasks' \in Seq(Tasks) /\ Range(tasks') = Range(t) \cup Range(posted)
    BY <2>1, <2>5, RangeConcatenation
  <2>7. \A task \in Range(tasks') : task.job <= last
    <3>1. ASSUME NEW task \in Range(t) PROVE task.job <= last
      <4>1. task \in Tasks /\ task.job <= nextJob
        BY DEF Range
      <4>2. task.job \in Nat
        BY <4>1 DEF Tasks, Jobs
      <4>3. QED BY <2>2, <2>3, <4>1, <4>2
    <3>2. QED BY <2>5, <2>6, <3>1
  <2>8. connector' \in [Jobs -> {"none", "posted", "connecting", "finished"}]
    BY <2>1
  <2>9. \A j \in Jobs : connector'[j] = "none" <=> j > last
    <3>1. ASSUME NEW j \in Jobs PROVE connector'[j] = "none" <=> j > last
      <4>1. j \in Nat
        BY DEF Jobs
      <4>2. connector'[j] = IF j \in new THEN "posted" ELSE c[j]
        BY <2>1
      <4>3. CASE j \in new
        BY <2>2, <2>3, <2>4, <4>1, <4>2, <4>3
      <4>4. CASE j \notin new
        BY <2>2, <2>3, <2>4, <4>1, <4>2, <4>4
      <4>5. QED BY <4>3, <4>4
    <3>2. QED BY <3>1
  <2>10. OpenIn(connector') = a \cup new
    <3>1. ASSUME NEW j \in Jobs
          PROVE  connector'[j] \in {"posted", "connecting"}
                 <=> (c[j] \in {"posted", "connecting"} \/ j \in new)
      BY <2>1
    <3>2. QED BY <2>2, <2>4, <3>1 DEF OpenIn
  <2>11. Cardinality(a \cup new) <= MaxConcurrency
    <3>1. IsFiniteSet(a) /\ Cardinality(a) \in Nat
      BY <2>2, Ranks
    <3>2. IsFiniteSet(new) /\ Cardinality(new) = last - nextJob
      <4>1. IsFiniteSet(new) /\ Cardinality(new) = IF nextJob + 1 > last THEN 0 ELSE last - (nextJob + 1) + 1
        BY <2>2, <2>3, FS_Interval
      <4>2. QED BY <4>1, <2>2, <2>3
    <3> HIDE DEF new
    <3>3. Cardinality(a \cup new) = Cardinality(a) + Cardinality(new) - Cardinality(a \cap new)
      BY <3>1, <3>2, FS_Union
    <3>4. Cardinality(a \cap new) \in Nat
      BY <3>1, FS_Intersection, FS_CardinalityType
    <3>5. QED BY <2>2, <2>3, <3>1, <3>2, <3>3, <3>4
  <2>12. active' = OpenIn(connector') /\ active' \in SUBSET Jobs
    BY <2>1, <2>10, <2>4, <2>2
  <2>13. last \in 0..JobCount /\ nextJob <= last
    BY <2>2, <2>3
  <2>14. Sound(tasks', active', connector', nextJob')
    <3> HIDE DEF new
    <3>1. QED BY <1>2, <2>1, <2>6, <2>7, <2>8, <2>9, <2>10, <2>11, <2>12, <2>13
  <2>15. /\ IF stopped \/ Drained(active', nextJob') THEN Finish ELSE Continue
         /\ Drained(active', nextJob') => active' = {} /\ nextJob' = JobCount
    <3>1. nextJob' = last /\ IF Drained(active', nextJob') THEN Finish ELSE Continue
      BY <2>1
    <3>2. Drained(active', nextJob') => active' = {} /\ nextJob' = JobCount
      BY <3>1, <2>2, <2>3 DEF Drained
    <3>3. QED BY <1>2, <3>1, <3>2
  <2>16. active' = a \cup ((nextJob + 1)..nextJob')
    BY <2>1
  <2>17. nextJob <= nextJob' /\ Range(t) \subseteq Range(tasks')
    BY <2>1, <2>6, <2>13
  <2>18. QED BY <1>2, <2>14, <2>15, <2>16, <2>17
<1>3. QED BY <1>1, <1>2

(* What the invariant hands to Fill, and what it is given back.              *)
LEMMA FillKeepsIInv ==
    ASSUME IInv, started, NEW t, NEW a, NEW c, Sound(t, a, c, nextJob),
           \A j \in OpenIn(c) : stopped => Task("cancel", j) \in Range(t),
           ended > 0 /\ ~stopped => a = {},
           Fill(t, a, c), UNCHANGED <<started, stops, stopped>>, found' \in SUBSET Jobs
    PROVE  IInv'
<1>1. /\ stopped \in BOOLEAN /\ completed \in BOOLEAN /\ stopAction \in BOOLEAN /\ ended \in Nat
      /\ stops \in 0..MaxStops /\ nextJob \in 0..JobCount /\ started \in BOOLEAN
      /\ ended = IF completed THEN 1 ELSE 0
      /\ ended = 0 => stopAction
      /\ ended > 0 /\ ~stopped => nextJob = JobCount
      /\ JobCount \in Nat
  BY ScannerAssumption DEF IInv, ConnectionsAccounted, TypeOK, EndMeansScanned, StopReachesScan, EndedOnce
<1>2. /\ Sound(tasks', active', connector', nextJob')
      /\ nextJob <= nextJob' /\ Range(t) \subseteq Range(tasks')
      /\ stopped => OpenIn(connector') = OpenIn(c)
      /\ IF stopped \/ Drained(active', nextJob') THEN Finish ELSE Continue
      /\ Drained(active', nextJob') => active' = {} /\ nextJob' = JobCount
      /\ ~stopped => active' = a \cup ((nextJob + 1)..nextJob')
  BY <1>1, FillFacts
<1>3. /\ tasks' \in Seq(Tasks) /\ active' \in SUBSET Jobs /\ nextJob' \in 0..JobCount
      /\ connector' \in [Jobs -> {"none", "posted", "connecting", "finished"}]
      /\ \A j \in Jobs : connector'[j] = "none" <=> j > nextJob'
      /\ \A task \in Range(tasks') : task.job <= nextJob'
      /\ Cardinality(OpenIn(connector')) <= MaxConcurrency
      /\ IF stopped THEN active' = {} ELSE active' = OpenIn(connector')
      /\ stopped' = stopped /\ started' = started /\ stops' = stops
  BY <1>2 DEF Sound
<1>4. /\ completed' \in BOOLEAN /\ stopAction' \in BOOLEAN /\ ended' \in Nat
      /\ ended' = IF completed' THEN 1 ELSE 0
      /\ ended' = 0 => stopAction'
      /\ (stopped \/ Drained(active', nextJob')) \/ ended' = ended
  <2>1. CASE stopped \/ Drained(active', nextJob')
    <3>1. Finish
      BY <1>2, <2>1
    <3>2. completed' = TRUE /\ stopAction' = FALSE /\ ended' = 1
      <4>1. CASE completed
        BY <1>1, <3>1, <4>1 DEF Finish
      <4>2. CASE ~completed
        BY <1>1, <3>1, <4>2 DEF Finish
      <4>3. QED BY <1>1, <4>1, <4>2
    <3>3. /\ completed' \in BOOLEAN /\ stopAction' \in BOOLEAN /\ ended' \in Nat
          /\ ended' = IF completed' THEN 1 ELSE 0
          /\ ended' = 0 => stopAction'
      <4>1. completed' \in BOOLEAN /\ stopAction' \in BOOLEAN /\ completed'
        BY <3>2, Zenon
      <4>2. ended' = 1
        BY <3>2
      <4>3. ended' \in Nat /\ ended' = IF completed' THEN 1 ELSE 0
        BY <4>1, <4>2
      <4>4. QED BY <4>1, <4>2, <4>3
    <3>4. QED BY <2>1, <3>3
  <2>2. CASE ~(stopped \/ Drained(active', nextJob'))
    <3>1. completed' = completed /\ stopAction' = stopAction /\ ended' = ended
      BY <1>2, <2>2 DEF Continue
    <3>2. QED BY <1>1, <3>1
  <2>3. QED BY <2>1, <2>2
<1>5. NoOrphanConnection'
  <2>1. ASSUME NEW j \in Jobs, Open(j)'
        PROVE  j \in active' \/ Task("cancel", j) \in Range(tasks')
    <3>1. j \in OpenIn(connector')
      BY <2>1 DEF Open, OpenIn
    <3>2. QED BY <1>2, <1>3, <3>1
  <2>2. \A task : (\E i \in DOMAIN tasks' : tasks'[i] = task) <=> task \in Range(tasks')
    BY DEF Range
  <2>3. QED BY <2>1, <2>2 DEF NoOrphanConnection
<1>6. EndMeansScanned'
  <2>1. SUFFICES ASSUME ended' > 0, ~stopped
                 PROVE  nextJob' = JobCount /\ \A j \in Jobs : connector'[j] = "finished"
    BY <1>3 DEF EndMeansScanned
  <2>2. Drained(active', nextJob')
    <3>1. CASE ended' = ended
      <4>1. a = {} /\ nextJob = JobCount /\ nextJob' = JobCount
        BY <1>1, <1>2, <1>3, <2>1, <3>1
      <4>2. (nextJob + 1)..nextJob' = {}
        BY <1>1, <4>1
      <4>3. active' = {}
        BY <1>2, <2>1, <4>1, <4>2
      <4>4. QED BY <1>1, <4>1, <4>3 DEF Drained
    <3>2. QED BY <1>4, <2>1, <3>1
  <2>3. active' = {} /\ nextJob' = JobCount
    BY <1>2, <2>2
  <2>4. ASSUME NEW j \in Jobs PROVE connector'[j] = "finished"
    <3>1. connector'[j] # "none"
      BY <1>1, <1>3, <2>3 DEF Jobs
    <3>2. j \notin OpenIn(connector')
      BY <1>3, <2>1, <2>3
    <3>3. connector'[j] \in {"none", "posted", "connecting", "finished"}
      BY <1>3
    <3>4. QED BY <3>1, <3>2, <3>3 DEF OpenIn
  <2>5. QED BY <2>3, <2>4
<1>7. ConcurrencyBounded'
  <2>1. {j \in Jobs : Open(j)}' = OpenIn(connector')
    BY DEF Open, OpenIn
  <2>2. QED BY <1>3, <2>1 DEF ConcurrencyBounded
<1>8. TypeOK'
  BY <1>1, <1>3, <1>4 DEF TypeOK
<1>9. StopReachesScan' /\ TakenInOrder' /\ ActiveAreOpen' /\ EndedOnce'
  BY <1>3, <1>4 DEF StopReachesScan, TakenInOrder, ActiveAreOpen, EndedOnce
<1>10. QED BY <1>5, <1>6, <1>7, <1>8, <1>9 DEF IInv, ConnectionsAccounted

-----------------------------------------------------------------------------
(* What the state says of a caller of Fill.                                 *)

LEMMA SoundState ==
    ASSUME IInv
    PROVE  /\ Sound(tasks, active, connector, nextJob)
           /\ \A j \in OpenIn(connector) : stopped => Task("cancel", j) \in Range(tasks)
           /\ ended > 0 /\ ~stopped => active = {}
           /\ JobCount \in Nat
<1> USE DEF IInv, ConnectionsAccounted
<1>1. {j \in Jobs : Open(j)} = OpenIn(connector)
  BY DEF Open, OpenIn
<1>2. Sound(tasks, active, connector, nextJob)
  <2>1. /\ tasks \in Seq(Tasks) /\ active \in SUBSET Jobs /\ nextJob \in 0..JobCount
        /\ connector \in [Jobs -> {"none", "posted", "connecting", "finished"}]
    BY DEF TypeOK
  <2>2. Cardinality(OpenIn(connector)) <= MaxConcurrency
    BY <1>1 DEF ConcurrencyBounded
  <2>3. QED BY <2>1, <2>2 DEF Sound, TakenInOrder, ActiveAreOpen
<1>3. ASSUME NEW j \in OpenIn(connector), stopped PROVE Task("cancel", j) \in Range(tasks)
  <2>1. j \in Jobs /\ Open(j) /\ active = {}
    BY <1>3 DEF Open, OpenIn, ActiveAreOpen
  <2>2. QED BY <2>1, Queued DEF NoOrphanConnection
<1>4. ASSUME ended > 0, ~stopped PROVE active = {}
  BY <1>4 DEF EndMeansScanned, ActiveAreOpen, OpenIn
<1>5. QED BY <1>2, <1>3, <1>4, ScannerAssumption

(* The head of the queue is a task of a job that was taken.                   *)
LEMMA HeadTask ==
    ASSUME IInv, tasks # <<>>
    PROVE  /\ started
           /\ Head(tasks) \in Tasks /\ Tail(tasks) \in Seq(Tasks)
           /\ Range(tasks) = {Head(tasks)} \cup Range(Tail(tasks))
           /\ Head(tasks).op \in {"start", "cancel"} =>
                /\ Head(tasks).job \in Jobs
                /\ connector[Head(tasks).job] # "none"
                /\ Head(tasks) = Task(Head(tasks).op, Head(tasks).job)
           /\ Sound(Tail(tasks), active, connector, nextJob)
<1>1. Sound(tasks, active, connector, nextJob)
  BY SoundState
<1>2. /\ Head(tasks) \in Tasks /\ Tail(tasks) \in Seq(Tasks)
      /\ Range(tasks) = {Head(tasks)} \cup Range(Tail(tasks))
  BY <1>1, TailTasks DEF Sound
<1>3. started
  BY DEF IInv, ConnectionsAccounted, TypeOK, EndedOnce
<1>4. Sound(Tail(tasks), active, connector, nextJob)
  BY <1>1, <1>2 DEF Sound
<1>5. ASSUME Head(tasks).op \in {"start", "cancel"}
      PROVE  /\ Head(tasks).job \in Jobs
             /\ connector[Head(tasks).job] # "none"
             /\ Head(tasks) = Task(Head(tasks).op, Head(tasks).job)
  <2>1. Head(tasks) \in [op : {"start", "cancel"}, job : Jobs]
    BY <1>2, <1>5 DEF Tasks
  <2>2. Head(tasks).job \in Jobs /\ Head(tasks) = Task(Head(tasks).op, Head(tasks).job)
    BY <2>1 DEF Task
  <2>3. Head(tasks).job <= nextJob
    BY <1>1, <1>2 DEF Sound
  <2>4. Head(tasks).job \in Nat /\ nextJob \in Nat
    BY <1>1, <2>2 DEF Sound, Jobs
  <2>5. QED BY <1>1, <2>2, <2>3, <2>4 DEF Sound
<1>6. QED BY <1>2, <1>3, <1>4, <1>5

(* What a connector that calls back hands to Fill.                           *)
LEMMA FinishedIsSound ==
    ASSUME IInv, NEW j \in Jobs, NEW t \in Seq(Tasks), connector[j] \notin {"none", "finished"},
           Range(t) \subseteq Range(tasks)
    PROVE  /\ Sound(t, active \ {j}, [connector EXCEPT ![j] = "finished"], nextJob)
           /\ OpenIn([connector EXCEPT ![j] = "finished"]) = OpenIn(connector) \ {j}
           /\ j \in OpenIn(connector)
<1> DEFINE a == active \ {j}
           c == [connector EXCEPT ![j] = "finished"]
<1>1. Sound(tasks, active, connector, nextJob)
  BY SoundState
<1>2. OpenIn(c) = OpenIn(connector) \ {j} /\ j \in OpenIn(connector)
  BY <1>1 DEF Sound, OpenIn
<1>3. Cardinality(OpenIn(c)) <= MaxConcurrency
  <2>1. OpenIn(connector) \in SUBSET Jobs /\ OpenIn(c) \subseteq OpenIn(connector)
    BY <1>2 DEF OpenIn
  <2>2. /\ IsFiniteSet(OpenIn(connector)) /\ Cardinality(OpenIn(connector)) \in Nat
        /\ Cardinality(OpenIn(c)) \in Nat
    BY <2>1, Ranks
  <2>3. Cardinality(OpenIn(c)) <= Cardinality(OpenIn(connector))
    BY <2>1, <2>2, FS_Subset
  <2>4. QED BY <1>1, <2>2, <2>3, ScannerAssumption DEF Sound
<1>4. Sound(t, a, c, nextJob)
  <2>1. /\ c \in [Jobs -> {"none", "posted", "connecting", "finished"}]
        /\ \A k \in Jobs : c[k] = "none" <=> k > nextJob
    BY <1>1 DEF Sound
  <2>2. IF stopped THEN a = {} ELSE a = OpenIn(c)
    BY <1>1, <1>2 DEF Sound
  <2> HIDE DEF c
  <2>3. QED BY <1>1, <1>3, <2>1, <2>2 DEF Sound
<1>5. QED BY <1>2, <1>4

(* A connector that calls back, from a task or from its connection.           *)
LEMMA FinishConnectorKeepsIInv ==
    ASSUME IInv, started, NEW j \in Jobs, NEW open \in BOOLEAN, NEW t \in Seq(Tasks),
           connector[j] # "none",
           Range(t) \subseteq Range(tasks),
           Range(tasks) \subseteq Range(t) \cup {Task("start", j), Task("cancel", j)},
           FinishConnector(j, open, t), UNCHANGED <<started, stops, stopped>>
    PROVE  IInv'
<1>1. /\ Sound(tasks, active, connector, nextJob)
      /\ \A k \in OpenIn(connector) : stopped => Task("cancel", k) \in Range(tasks)
      /\ ended > 0 /\ ~stopped => active = {}
      /\ JobCount \in Nat
  BY SoundState
<1>2. CASE connector[j] = "finished"
  <2>1. /\ tasks' = t /\ Continue
        /\ UNCHANGED <<nextJob, active, connector, found>>
        /\ UNCHANGED <<started, stops, stopped>>
    BY <1>2 DEF FinishConnector
  <2>2. UNCHANGED <<completed, stopAction, ended>>
    BY <2>1 DEF Continue
  <2>3. TypeOK' /\ StopReachesScan' /\ EndMeansScanned' /\ ActiveAreOpen' /\ EndedOnce'
    BY <2>1, <2>2 DEF IInv, ConnectionsAccounted, TypeOK, StopReachesScan, EndMeansScanned,
                      ActiveAreOpen, OpenIn, EndedOnce
  <2>4. TakenInOrder'
    <3>1. TakenInOrder /\ Range(tasks') \subseteq Range(tasks)
      BY <2>1 DEF IInv
    <3>2. QED BY <2>1, <3>1 DEF TakenInOrder
  <2>5. ConcurrencyBounded'
    <3>1. {k \in Jobs : Open(k)}' = {k \in Jobs : Open(k)}
      BY <2>1 DEF Open
    <3>2. QED BY <3>1 DEF IInv, ConnectionsAccounted, ConcurrencyBounded
  <2>6. NoOrphanConnection'
    <3>1. ASSUME NEW k \in Jobs, Open(k)', k \notin active'
          PROVE  \E i \in DOMAIN tasks' : tasks'[i] = Task("cancel", k)
      <4>1. Open(k) /\ k \notin active /\ k # j
        BY <1>2, <2>1, <3>1 DEF Open
      <4>2. Task("cancel", k) \in Range(tasks)
        BY <4>1, Queued DEF IInv, ConnectionsAccounted, NoOrphanConnection
      <4>3. Task("cancel", k) \notin {Task("start", j), Task("cancel", j)}
        BY <4>1 DEF Task
      <4>4. Task("cancel", k) \in Range(tasks')
        BY <2>1, <4>2, <4>3
      <4>5. QED BY <4>4 DEF Range
    <3>2. QED BY <3>1 DEF NoOrphanConnection
  <2>7. QED BY <2>3, <2>4, <2>5, <2>6 DEF IInv, ConnectionsAccounted
<1>3. CASE connector[j] # "finished"
  <2> DEFINE a == active \ {j}
             c == [connector EXCEPT ![j] = "finished"]
  <2>1. /\ found' = IF ~stopped /\ open THEN found \cup {j} ELSE found
        /\ Fill(t, a, c)
    BY <1>3 DEF FinishConnector
  <2>2. Sound(t, a, c, nextJob) /\ OpenIn(c) = OpenIn(connector) \ {j} /\ j \in OpenIn(connector)
    BY <1>3, FinishedIsSound
  <2>5. ASSUME NEW k \in OpenIn(c), stopped PROVE Task("cancel", k) \in Range(t)
    <3>1. k \in OpenIn(connector) /\ k # j
      BY <2>2
    <3>2. Task("cancel", k) \in Range(tasks)
      BY <1>1, <2>5, <3>1
    <3>3. Task("cancel", k) \notin {Task("start", j), Task("cancel", j)}
      BY <3>1 DEF Task
    <3>4. QED BY <3>2, <3>3
  <2>6. ended > 0 /\ ~stopped => a = {}
    BY <1>1
  <2>7. found' \in SUBSET Jobs
    BY <2>1 DEF IInv, ConnectionsAccounted, TypeOK
  <2> HIDE DEF a, c
  <2>8. QED BY <2>1, <2>2, <2>5, <2>6, <2>7, FillKeepsIInv
<1>4. QED BY <1>2, <1>3

-----------------------------------------------------------------------------
(* One lemma per action.                                                    *)

(* What start() does, whichever queue it finds.                             *)
LEMMA Starts ==
    ASSUME TypeOK, Start
    PROVE  /\ ~started /\ started' = TRUE /\ stopAction' = TRUE
           /\ UNCHANGED <<nextJob, active, connector, stopped, completed, ended, found>>
           /\ tasks' \in Seq(Tasks)
           /\ Range(tasks) \cup {Task("fill", 0)} \subseteq Range(tasks')
           /\ Range(tasks') \subseteq Range(tasks) \cup {Task("fill", 0), Task("stop", 0)}
           /\ \/ stops' = stops /\ Len(tasks') = Len(tasks) + 1
              \/ stops < MaxStops /\ stops' = stops + 1 /\ Len(tasks') = (Len(tasks) + 1) + 1
<1>1. /\ tasks \in Seq(Tasks) /\ Task("fill", 0) \in Tasks /\ Task("stop", 0) \in Tasks
  BY DEF Task, Tasks, TypeOK
<1>2. CASE Begin(tasks) /\ UNCHANGED stops
  <2>1. Len(Append(tasks, Task("fill", 0))) = Len(tasks) + 1
    BY <1>1, AppendProperties
  <2>2. QED BY <1>1, <1>2, <2>1, AppendTask DEF Begin
<1>3. CASE stops < MaxStops /\ stops' = stops + 1 /\ Begin(Append(tasks, Task("stop", 0)))
  <2> DEFINE q == Append(tasks, Task("stop", 0))
  <2>1. q \in Seq(Tasks) /\ Range(q) = Range(tasks) \cup {Task("stop", 0)} /\ Len(q) = Len(tasks) + 1
    BY <1>1, AppendTask, AppendProperties
  <2>2. Begin(q) /\ tasks' = Append(q, Task("fill", 0))
    BY <1>3 DEF Begin
  <2> HIDE DEF q
  <2>3. /\ tasks' \in Seq(Tasks) /\ Range(tasks') = Range(q) \cup {Task("fill", 0)}
        /\ Len(tasks') = Len(q) + 1
    BY <1>1, <2>1, <2>2, AppendTask, AppendProperties
  <2>4. QED BY <1>3, <2>1, <2>2, <2>3 DEF Begin
<1>4. QED BY <1>2, <1>3 DEF Start

LEMMA StartKeepsIInv == ASSUME IInv, Start PROVE IInv'
<1> USE DEF IInv, ConnectionsAccounted
<1>1. /\ ~started /\ started' = TRUE /\ stopAction' = TRUE
      /\ UNCHANGED <<nextJob, active, connector, stopped, completed, ended, found>>
      /\ stops' = stops \/ (stops < MaxStops /\ stops' = stops + 1)
  BY Starts
<1>2. /\ Task("fill", 0).job = 0 /\ Task("stop", 0).job = 0 /\ stops' \in 0..MaxStops
  <2>1. stops \in 0..MaxStops /\ MaxStops \in Nat
    BY ScannerAssumption DEF TypeOK
  <2>2. QED BY <1>1, <2>1 DEF Task
<1>3. /\ tasks' \in Seq(Tasks) /\ Range(tasks) \subseteq Range(tasks')
      /\ Range(tasks') \subseteq Range(tasks) \cup {Task("fill", 0), Task("stop", 0)}
  BY Starts
<1>4. TypeOK' /\ StopReachesScan' /\ EndMeansScanned' /\ ActiveAreOpen' /\ EndedOnce'
  BY <1>1, <1>2, <1>3 DEF TypeOK, StopReachesScan, EndMeansScanned, ActiveAreOpen, OpenIn, EndedOnce
<1>5. TakenInOrder'
  <2>1. 0 <= nextJob
    BY DEF TypeOK
  <2>2. QED BY <1>1, <1>2, <1>3, <2>1 DEF TakenInOrder
<1>6. ConcurrencyBounded'
  <2>1. {k \in Jobs : Open(k)}' = {k \in Jobs : Open(k)}
    BY <1>1 DEF Open
  <2>2. QED BY <2>1 DEF ConcurrencyBounded
<1>7. NoOrphanConnection'
  <2>1. ASSUME NEW k \in Jobs, Open(k)', k \notin active' PROVE Task("cancel", k) \in Range(tasks')
    <3>1. Open(k) /\ k \notin active
      BY <1>1, <2>1 DEF Open
    <3>2. QED BY <1>3, <3>1, Queued DEF NoOrphanConnection
  <2>2. \A task : (\E i \in DOMAIN tasks' : tasks'[i] = task) <=> task \in Range(tasks')
    BY DEF Range
  <2>3. QED BY <2>1, <2>2 DEF NoOrphanConnection
<1>8. QED BY <1>4, <1>5, <1>6, <1>7

LEMMA StopKeepsIInv == ASSUME IInv, Stop PROVE IInv'
<1> USE DEF IInv, ConnectionsAccounted
<1>1. /\ stops' = stops + 1 /\ stops < MaxStops
      /\ tasks' = IF stopAction THEN Append(tasks, Task("stop", 0)) ELSE tasks
      /\ UNCHANGED <<started, stopAction, nextJob, active, connector, stopped, completed, ended, found>>
  BY DEF Stop
<1>2. Task("stop", 0) \in Tasks /\ Task("stop", 0).job = 0 /\ tasks \in Seq(Tasks)
  BY DEF Task, Tasks, TypeOK
<1>3. /\ tasks' \in Seq(Tasks) /\ Range(tasks) \subseteq Range(tasks')
      /\ Range(tasks') \subseteq Range(tasks) \cup {Task("stop", 0)}
  BY <1>1, <1>2, AppendTask
<1>4. stops' \in 0..MaxStops
  BY <1>1, ScannerAssumption DEF TypeOK
<1>5. TypeOK' /\ StopReachesScan' /\ EndMeansScanned' /\ ActiveAreOpen'
  BY <1>1, <1>3, <1>4 DEF TypeOK, StopReachesScan, EndMeansScanned, ActiveAreOpen, OpenIn
<1>6. EndedOnce'
  BY <1>1 DEF EndedOnce
<1>7. TakenInOrder'
  <2>1. 0 <= nextJob
    BY DEF TypeOK
  <2>2. QED BY <1>1, <1>2, <1>3, <2>1 DEF TakenInOrder
<1>8. ConcurrencyBounded'
  <2>1. {k \in Jobs : Open(k)}' = {k \in Jobs : Open(k)}
    BY <1>1 DEF Open
  <2>2. QED BY <2>1 DEF ConcurrencyBounded
<1>9. NoOrphanConnection'
  <2>1. ASSUME NEW k \in Jobs, Open(k)', k \notin active' PROVE Task("cancel", k) \in Range(tasks')
    <3>1. Open(k) /\ k \notin active
      BY <1>1, <2>1 DEF Open
    <3>2. QED BY <1>3, <3>1, Queued DEF NoOrphanConnection
  <2>2. \A task : (\E i \in DOMAIN tasks' : tasks'[i] = task) <=> task \in Range(tasks')
    BY DEF Range
  <2>3. QED BY <2>1, <2>2 DEF NoOrphanConnection
<1>10. QED BY <1>5, <1>6, <1>7, <1>8, <1>9

LEMMA RunFillKeepsIInv == ASSUME IInv, RunFill PROVE IInv'
<1>1. /\ tasks # <<>> /\ Head(tasks).op = "fill"
      /\ Fill(Tail(tasks), active, connector)
      /\ UNCHANGED <<started, stops, stopped>> /\ found' = found
  BY DEF RunFill
<1>2. /\ started /\ Sound(Tail(tasks), active, connector, nextJob)
      /\ Range(tasks) = {Head(tasks)} \cup Range(Tail(tasks))
  BY <1>1, HeadTask
<1>3. /\ \A j \in OpenIn(connector) : stopped => Task("cancel", j) \in Range(tasks)
      /\ ended > 0 /\ ~stopped => active = {}
  BY SoundState
<1>4. ASSUME NEW j \in OpenIn(connector), stopped PROVE Task("cancel", j) \in Range(Tail(tasks))
  <2>1. Task("cancel", j) # Head(tasks)
    BY <1>1 DEF Task
  <2>2. QED BY <1>2, <1>3, <1>4, <2>1
<1>5. found' \in SUBSET Jobs
  BY <1>1 DEF IInv, ConnectionsAccounted, TypeOK
<1>6. QED BY <1>1, <1>2, <1>3, <1>4, <1>5, FillKeepsIInv

LEMMA RunConnectorKeepsIInv == ASSUME IInv, RunConnector PROVE IInv'
<1> DEFINE j == Head(tasks).job
<1>1. /\ tasks # <<>> /\ Head(tasks).op = "start"
      /\ UNCHANGED <<started, stops, stopped>>
      /\ \/ FinishConnector(j, FALSE, Tail(tasks))
         \/ /\ connector[j] = "posted"
            /\ connector' = [connector EXCEPT ![j] = "connecting"]
            /\ tasks' = Tail(tasks)
            /\ UNCHANGED <<nextJob, active, found>>
            /\ Continue
  BY DEF RunConnector
<1>2. /\ started /\ Sound(Tail(tasks), active, connector, nextJob)
      /\ Range(tasks) = {Head(tasks)} \cup Range(Tail(tasks))
      /\ Tail(tasks) \in Seq(Tasks)
      /\ j \in Jobs /\ connector[j] # "none" /\ Head(tasks) = Task("start", j)
  BY <1>1, HeadTask
<1> HIDE DEF j
<1>3. CASE FinishConnector(j, FALSE, Tail(tasks))
  BY <1>1, <1>2, <1>3, FinishConnectorKeepsIInv
<1>4. CASE /\ connector[j] = "posted"
           /\ connector' = [connector EXCEPT ![j] = "connecting"]
           /\ tasks' = Tail(tasks)
           /\ UNCHANGED <<nextJob, active, found>>
           /\ Continue
  <2> USE DEF IInv, ConnectionsAccounted
  <2>1. /\ started' = started /\ stops' = stops /\ stopped' = stopped
        /\ nextJob' = nextJob /\ active' = active /\ found' = found
        /\ completed' = completed /\ stopAction' = stopAction /\ ended' = ended
    BY <1>1, <1>4 DEF Continue
  <2>2. /\ connector \in [Jobs -> {"none", "posted", "connecting", "finished"}]
        /\ connector' \in [Jobs -> {"none", "posted", "connecting", "finished"}]
        /\ \A k \in Jobs : Open(k)' <=> Open(k)
        /\ \A k \in Jobs : connector'[k] = "none" <=> connector[k] = "none"
        /\ \A k \in Jobs : connector[k] = "finished" => connector'[k] = "finished"
    BY <1>2, <1>4 DEF Open, TypeOK
  <2>3. OpenIn(connector') = OpenIn(connector)
    BY <2>2 DEF Open, OpenIn
  <2>4. TypeOK' /\ StopReachesScan' /\ EndedOnce'
    BY <1>2, <1>4, <2>1, <2>2 DEF TypeOK, StopReachesScan, EndedOnce
  <2>5. ActiveAreOpen' /\ EndMeansScanned'
    BY <2>1, <2>2, <2>3 DEF ActiveAreOpen, EndMeansScanned
  <2>6. TakenInOrder'
    <3>1. Range(tasks') \subseteq Range(tasks)
      BY <1>2, <1>4
    <3>2. QED BY <2>1, <2>2, <3>1 DEF TakenInOrder
  <2>7. ConcurrencyBounded'
    <3>1. {k \in Jobs : Open(k)}' = {k \in Jobs : Open(k)}
      BY <2>2
    <3>2. QED BY <3>1 DEF ConcurrencyBounded
  <2>8. NoOrphanConnection'
    <3>1. ASSUME NEW k \in Jobs, Open(k)', k \notin active' PROVE Task("cancel", k) \in Range(tasks')
      <4>1. Task("cancel", k) \in Range(tasks)
        BY <2>1, <2>2, <3>1, Queued DEF NoOrphanConnection
      <4>2. Task("cancel", k) # Head(tasks)
        BY <1>1 DEF Task
      <4>3. QED BY <1>2, <1>4, <4>1, <4>2
    <3>2. \A task : (\E i \in DOMAIN tasks' : tasks'[i] = task) <=> task \in Range(tasks')
      BY DEF Range
    <3>3. QED BY <3>1, <3>2 DEF NoOrphanConnection
  <2>9. QED BY <2>4, <2>5, <2>6, <2>7, <2>8
<1>5. QED BY <1>1, <1>3, <1>4

LEMMA RunCancelKeepsIInv == ASSUME IInv, RunCancel PROVE IInv'
<1> DEFINE j == Head(tasks).job
<1>1. /\ tasks # <<>> /\ Head(tasks).op = "cancel"
      /\ FinishConnector(j, FALSE, Tail(tasks))
      /\ UNCHANGED <<started, stops, stopped>>
  BY DEF RunCancel
<1>2. /\ started /\ Tail(tasks) \in Seq(Tasks)
      /\ Range(tasks) = {Head(tasks)} \cup Range(Tail(tasks))
      /\ j \in Jobs /\ connector[j] # "none" /\ Head(tasks) = Task("cancel", j)
  BY <1>1, HeadTask
<1> HIDE DEF j
<1>3. QED BY <1>1, <1>2, FinishConnectorKeepsIInv

LEMMA ConnectResultKeepsIInv ==
    ASSUME IInv, NEW j \in Jobs, NEW open \in BOOLEAN, ConnectResult(j, open) PROVE IInv'
<1>1. /\ connector[j] = "connecting"
      /\ FinishConnector(j, open, tasks)
      /\ UNCHANGED <<started, stops, stopped>>
  BY DEF ConnectResult
<1>2. tasks \in Seq(Tasks)
  BY DEF IInv, ConnectionsAccounted, TypeOK
<1>3. started
  <2>1. ~(j > nextJob) /\ j \in Nat /\ j > 0
    BY <1>1 DEF IInv, TakenInOrder, Jobs
  <2>2. QED BY <2>1 DEF IInv, EndedOnce, ConnectionsAccounted, TypeOK
<1>4. QED BY <1>1, <1>2, <1>3, FinishConnectorKeepsIInv

LEMMA RunStopKeepsIInv == ASSUME IInv, RunStop PROVE IInv'
<1>1. /\ tasks # <<>> /\ Head(tasks).op = "stop"
      /\ \/ stopped /\ tasks' = Tail(tasks) /\ UNCHANGED <<stopped, active>> /\ Continue
         \/ /\ ~stopped /\ stopped' = TRUE /\ active' = {}
            /\ tasks' = Tail(tasks) \o CancelTasks(active)
            /\ IF active = {} THEN Finish ELSE Continue
      /\ UNCHANGED <<started, stops, nextJob, connector, found>>
  BY DEF RunStop
<1>2. /\ started /\ Sound(Tail(tasks), active, connector, nextJob)
      /\ Range(tasks) = {Head(tasks)} \cup Range(Tail(tasks))
      /\ Tail(tasks) \in Seq(Tasks) /\ active \in SUBSET Jobs
  BY <1>1, HeadTask DEF Sound
<1>3. /\ \A j \in OpenIn(connector) : stopped => Task("cancel", j) \in Range(tasks)
      /\ ended > 0 /\ ~stopped => active = {}
      /\ Sound(tasks, active, connector, nextJob)
  BY SoundState
<1>4. ASSUME NEW j PROVE Task("cancel", j) # Head(tasks)
  BY <1>1 DEF Task
<1>5. /\ tasks' \in Seq(Tasks) /\ stopped' = TRUE /\ active' = {}
      /\ \A j \in OpenIn(connector) : Task("cancel", j) \in Range(tasks')
      /\ \A task \in Range(tasks') : task.job <= nextJob
  <2>1. CASE stopped
    <3>1. tasks' = Tail(tasks) /\ stopped' = TRUE /\ active' = active
      BY <1>1, <2>1 DEF IInv, ConnectionsAccounted, TypeOK
    <3>2. QED BY <1>2, <1>3, <1>4, <2>1, <3>1 DEF Sound
  <2>2. CASE ~stopped
    <3>1. tasks' = Tail(tasks) \o CancelTasks(active) /\ stopped' = TRUE /\ active' = {}
      BY <1>1, <2>2
    <3>2. /\ CancelTasks(active) \in Seq(Tasks)
          /\ Range(CancelTasks(active)) = {Task("cancel", j) : j \in active}
      BY <1>2, CancelTasksFacts
    <3>3. /\ tasks' \in Seq(Tasks)
          /\ Range(tasks') = Range(Tail(tasks)) \cup {Task("cancel", j) : j \in active}
      <4>1. Range(Tail(tasks) \o CancelTasks(active))
              = Range(Tail(tasks)) \cup Range(CancelTasks(active))
        <5>1. Tail(tasks) \in Seq(Tasks) /\ CancelTasks(active) \in Seq(Tasks)
          BY <1>2, <3>2
        <5>2. QED BY <5>1, RangeConcatenation
      <4>2. QED BY <1>2, <3>1, <3>2, <4>1
    <3>4. active = OpenIn(connector)
      BY <1>2, <2>2 DEF Sound
    <3>5. ASSUME NEW j \in active PROVE Task("cancel", j).job <= nextJob
      <4>1. connector[j] # "none" /\ j \in Jobs /\ j \in Nat /\ nextJob \in Nat
        BY <1>2, <3>4 DEF OpenIn, Jobs, Sound
      <4>2. QED BY <1>2, <4>1 DEF Sound, Task
    <3>6. \A task \in Range(tasks') : task.job <= nextJob
      BY <1>2, <3>3, <3>5 DEF Sound
    <3>7. QED BY <3>1, <3>3, <3>4, <3>6
  <2>3. QED BY <1>2, <2>1, <2>2 DEF IInv, ConnectionsAccounted, TypeOK
<1>6. /\ completed' \in BOOLEAN /\ stopAction' \in BOOLEAN /\ ended' \in Nat
      /\ ended' = IF completed' THEN 1 ELSE 0
      /\ ended' = 0 => stopAction'
  <2>1. /\ completed \in BOOLEAN /\ stopAction \in BOOLEAN /\ stopped \in BOOLEAN
        /\ ended = IF completed THEN 1 ELSE 0
        /\ ended = 0 => stopAction
    BY <1>2 DEF IInv, ConnectionsAccounted, TypeOK, EndedOnce, StopReachesScan
  <2>2. CASE Finish
    <3>1. completed' = TRUE /\ ended' = 1 /\ stopAction' = FALSE
      <4>1. CASE completed
        BY <2>1, <2>2, <4>1 DEF Finish
      <4>2. CASE ~completed
        BY <2>1, <2>2, <4>2 DEF Finish
      <4>3. QED BY <2>1, <4>1, <4>2
    <3>2. completed' \in BOOLEAN /\ stopAction' \in BOOLEAN /\ completed'
      BY <3>1, Zenon
    <3>3. ended' = 1
      BY <3>1
    <3>4. ended' \in Nat /\ ended' = IF completed' THEN 1 ELSE 0
      BY <3>2, <3>3
    <3>5. QED BY <3>2, <3>3, <3>4
  <2>3. CASE Continue
    <3>1. completed' = completed /\ ended' = ended /\ stopAction' = stopAction
      BY <2>3 DEF Continue
    <3>2. QED BY <2>1, <3>1
  <2>4. QED BY <1>1, <2>2, <2>3
<1>7. started' = started /\ stops' = stops /\ nextJob' = nextJob
      /\ connector' = connector /\ found' = found
  BY <1>1
<1>8. TypeOK' /\ StopReachesScan' /\ EndedOnce'
  <2>1. TypeOK'
    BY <1>5, <1>6, <1>7 DEF IInv, ConnectionsAccounted, TypeOK
  <2>2. StopReachesScan' /\ EndedOnce'
    BY <1>2, <1>6, <1>7 DEF StopReachesScan, EndedOnce
  <2>3. QED BY <2>1, <2>2
<1>9. EndMeansScanned' /\ ActiveAreOpen' /\ TakenInOrder'
  BY <1>5, <1>7 DEF EndMeansScanned, ActiveAreOpen, TakenInOrder, IInv
<1>10. ConcurrencyBounded'
  <2>1. {k \in Jobs : Open(k)}' = {k \in Jobs : Open(k)}
    BY <1>7 DEF Open
  <2>2. QED BY <2>1 DEF ConcurrencyBounded, IInv, ConnectionsAccounted
<1>11. NoOrphanConnection'
  <2>1. ASSUME NEW k \in Jobs, Open(k)' PROVE Task("cancel", k) \in Range(tasks')
    <3>1. k \in OpenIn(connector)
      BY <1>7, <2>1 DEF Open, OpenIn
    <3>2. QED BY <1>5, <3>1
  <2>2. \A task : (\E i \in DOMAIN tasks' : tasks'[i] = task) <=> task \in Range(tasks')
    BY DEF Range
  <2>3. QED BY <2>1, <2>2 DEF NoOrphanConnection
<1>12. QED BY <1>8, <1>9, <1>10, <1>11 DEF IInv, ConnectionsAccounted

-----------------------------------------------------------------------------
(* The invariant and what follows from it.                                  *)

LEMMA InitIInv == Init => IInv
<1> SUFFICES ASSUME Init PROVE IInv
  OBVIOUS
<1>1. /\ started = FALSE /\ stopAction = FALSE /\ stops = 0
      /\ tasks = <<>> /\ nextJob = 0 /\ active = {}
      /\ connector = [j \in Jobs |-> "none"]
      /\ stopped = FALSE /\ completed = FALSE /\ ended = 0
      /\ found = {}
  BY DEF Init
<1>2. tasks \in Seq(Tasks) /\ Range(tasks) = {}
  BY <1>1 DEF Range
<1>3. \A j \in Jobs : ~Open(j)
  BY <1>1 DEF Open
<1>4. OpenIn(connector) = {} /\ {j \in Jobs : Open(j)} = {}
  BY <1>3 DEF Open, OpenIn
<1>5. TypeOK
  <2>1. started \in BOOLEAN /\ stopAction \in BOOLEAN /\ stopped \in BOOLEAN /\ completed \in BOOLEAN
    BY <1>1, Zenon
  <2>2. /\ stops \in 0..MaxStops /\ nextJob \in 0..JobCount /\ ended \in Nat
        /\ active \subseteq Jobs /\ found \subseteq Jobs
        /\ connector \in [Jobs -> {"none", "posted", "connecting", "finished"}]
    BY <1>1, ScannerAssumption
  <2>3. QED BY <1>2, <2>1, <2>2 DEF TypeOK
<1>6. ConcurrencyBounded
  BY <1>4, FS_EmptySet, ScannerAssumption DEF ConcurrencyBounded
<1>7. TakenInOrder
  BY <1>1, <1>2 DEF TakenInOrder, Jobs
<1>8. NoOrphanConnection /\ StopReachesScan /\ EndMeansScanned /\ ActiveAreOpen /\ EndedOnce
  BY <1>1, <1>3, <1>4 DEF NoOrphanConnection, StopReachesScan, EndMeansScanned, ActiveAreOpen,
                         EndedOnce
<1>9. QED BY <1>5, <1>6, <1>7, <1>8 DEF IInv, ConnectionsAccounted

LEMMA NextIInv == IInv /\ [Next]_vars => IInv'
<1> SUFFICES ASSUME IInv, [Next]_vars PROVE IInv'
  OBVIOUS
<1>1. CASE Start
  BY <1>1, StartKeepsIInv
<1>2. CASE Stop
  BY <1>2, StopKeepsIInv
<1>3. CASE RunTask
  BY <1>3, RunFillKeepsIInv, RunStopKeepsIInv, RunConnectorKeepsIInv, RunCancelKeepsIInv DEF RunTask
<1>4. CASE \E j \in Jobs, open \in BOOLEAN : ConnectResult(j, open)
  BY <1>4, ConnectResultKeepsIInv
<1>5. CASE UNCHANGED vars
  <2>1. /\ UNCHANGED <<started, stopAction, stops, tasks, nextJob, active, connector>>
        /\ UNCHANGED <<stopped, completed, ended, found>>
    BY <1>5 DEF vars, control
  <2>2. TypeOK' /\ StopReachesScan' /\ EndMeansScanned' /\ TakenInOrder' /\ EndedOnce'
    BY <2>1 DEF IInv, ConnectionsAccounted, TypeOK, StopReachesScan, EndMeansScanned, TakenInOrder,
                EndedOnce
  <2>3. ActiveAreOpen' /\ NoOrphanConnection' /\ ConcurrencyBounded'
    BY <2>1 DEF IInv, ConnectionsAccounted, ActiveAreOpen, OpenIn, NoOrphanConnection,
                ConcurrencyBounded, Open
  <2>4. QED BY <2>2, <2>3 DEF IInv, ConnectionsAccounted
<1>6. QED BY <1>1, <1>2, <1>3, <1>4, <1>5 DEF Next

(* The strengthened invariant holds in every reachable state of a port scan.  *)
THEOREM Invariance == Spec => []IInv
BY InitIInv, NextIInv, PTL DEF Spec

(* Whenever stop() comes it reaches a scan that has not ended, no connection  *)
(* is left that neither the session nor a posted cancellation knows of, and   *)
(* there are never more than maxConcurrency.                                *)
THEOREM EveryConnectionAccounted == Spec => []ConnectionsAccounted
<1>1. IInv => ConnectionsAccounted
  BY DEF IInv
<1>2. QED BY <1>1, Invariance, PTL

(* on_completed of a scan nobody stopped comes after every address and port   *)
(* was tried to its end.                                                    *)
THEOREM CompletionIsWhole == Spec => []EndMeansScanned
<1>1. IInv => EndMeansScanned
  BY DEF IInv
<1>2. QED BY <1>1, Invariance, PTL

-----------------------------------------------------------------------------
(* The refinement of DiscoveryFlow.                                         *)

LEMMA Callbacks ==
    ASSUME IInv, NEW j, NEW open, NEW t, FinishConnector(j, open, t)
    PROVE  /\ Finish \/ Continue
           /\ found' = found \/ (open /\ ~stopped /\ found' = found \cup {j} /\ connector[j] # "finished")
<1>1. CASE connector[j] = "finished"
  BY <1>1 DEF FinishConnector
<1>2. CASE connector[j] # "finished"
  <2>1. /\ found' = IF ~stopped /\ open THEN found \cup {j} ELSE found
        /\ Fill(t, active \ {j}, [connector EXCEPT ![j] = "finished"])
    BY <1>2 DEF FinishConnector
  <2>2. Finish \/ Continue
    BY <2>1 DEF Fill
  <2>3. QED BY <1>2, <2>1, <2>2
<1>3. QED BY <1>1, <1>2

(* Each step starts the scan or goes on with it, emitting at most one port.   *)
LEMMA Steps ==
    ASSUME IInv, [Next]_vars
    PROVE  /\ ended' = ended \/ ended' = ended + 1
           /\ \/ ~started /\ started' = TRUE /\ ended' = ended /\ found' = found
              \/ started' = started /\ found' = found
              \/ /\ started' = started
                 /\ \E j \in Jobs : /\ ~stopped /\ connector[j] = "connecting"
                                    /\ found' = found \cup {j}
<1>1. CASE Start
  BY <1>1, Starts DEF IInv, ConnectionsAccounted
<1>2. CASE Stop
  BY <1>2 DEF Stop
<1>3. CASE RunFill
  <2>1. Finish \/ Continue
    BY <1>3 DEF RunFill, Fill
  <2>2. started' = started /\ found' = found
    BY <1>3 DEF RunFill
  <2>3. QED BY <2>1, <2>2 DEF Finish, Continue
<1>4. CASE RunStop
  <2>1. Finish \/ Continue
    BY <1>4 DEF RunStop
  <2>2. started' = started /\ found' = found
    BY <1>4 DEF RunStop
  <2>3. QED BY <2>1, <2>2 DEF Finish, Continue
<1>5. CASE RunConnector \/ RunCancel
  <2>1. /\ started' = started
        /\ \/ FinishConnector(Head(tasks).job, FALSE, Tail(tasks))
           \/ found' = found /\ Continue
    BY <1>5 DEF RunConnector, RunCancel
  <2>2. (Finish \/ Continue) /\ found' = found
    BY <2>1, Callbacks
  <2>3. QED BY <2>1, <2>2 DEF Finish, Continue
<1>6. CASE \E j \in Jobs, open \in BOOLEAN : ConnectResult(j, open)
  <2>1. PICK j \in Jobs, open \in BOOLEAN : ConnectResult(j, open)
    BY <1>6
  <2>2. /\ connector[j] = "connecting" /\ started' = started
        /\ FinishConnector(j, open, tasks)
    BY <2>1 DEF ConnectResult
  <2>3. /\ Finish \/ Continue
        /\ found' = found \/ (~stopped /\ found' = found \cup {j})
    BY <2>2, Callbacks
  <2>4. QED BY <2>2, <2>3 DEF Finish, Continue
<1>7. CASE UNCHANGED vars
  BY <1>7 DEF vars, control
<1>8. QED BY <1>1, <1>2, <1>3, <1>4, <1>5, <1>6, <1>7 DEF Next, RunTask

LEMMA FlowStep ==
    ASSUME IInv, IInv', [Next]_vars
    PROVE  [Flow!Next]_<<Phase, found>>
<1>1. /\ started \in BOOLEAN /\ started' \in BOOLEAN
      /\ ended \in {0, 1} /\ ended' \in {0, 1}
      /\ (~started => ended = 0) /\ (~started' => ended' = 0)
  BY DEF IInv, ConnectionsAccounted, TypeOK, EndedOnce
<1>2. CASE ~started /\ started' = TRUE /\ ended' = ended /\ found' = found
  <2>1. Flow!Start
    BY <1>1, <1>2 DEF Flow!Start, Phase
  <2>2. QED BY <2>1 DEF Flow!Next
<1>3. CASE started' = started /\ found' = found
  <2>1. CASE ended' = ended
    BY <1>3, <2>1 DEF Phase
  <2>2. CASE ended' # ended
    <3>1. ended = 0 /\ ended' = 1 /\ started
      BY <1>1, <1>3, <2>2, Steps
    <3>2. Flow!End
      BY <1>3, <3>1 DEF Flow!End, Phase
    <3>3. QED BY <3>2 DEF Flow!Next
  <2>3. QED BY <2>1, <2>2
<1>4. ASSUME NEW j \in Jobs, started' = started, ~stopped, connector[j] = "connecting",
             found' = found \cup {j}
      PROVE  Flow!Emit(j) \/ Flow!EmitAndEnd(j)
  <2>1. ended = 0
    BY <1>1, <1>4 DEF IInv, EndMeansScanned
  <2>2. started
    <3>1. ~(j > nextJob) /\ j \in Nat /\ j > 0
      BY <1>4 DEF IInv, TakenInOrder, Jobs
    <3>2. QED BY <1>1, <3>1 DEF IInv, EndedOnce
  <2>3. QED BY <1>1, <1>4, <2>1, <2>2 DEF Flow!Emit, Flow!EmitAndEnd, Phase
<1>5. QED BY <1>2, <1>3, <1>4, Steps DEF Flow!Next

(* The port scanner keeps the contract of ThingDiscovery: one start, open     *)
(* ports only while the scan runs, and one end.                             *)
THEOREM FlowImplemented == Spec => ImplementsFlow
<1>1. Init => Flow!Init
  BY DEF Init, Flow!Init, Phase
<1>2. IInv /\ IInv' /\ [Next]_vars => [Flow!Next]_<<Phase, found>>
  BY FlowStep
<1>3. QED BY <1>1, <1>2, Invariance, PTL DEF Spec, ImplementsFlow, Flow!Spec

-----------------------------------------------------------------------------
(* A scan that has started goes on until it ends.                            *)

(* What every state has that a stalled scan would lack.                      *)
Pending ==
    /\ ~started => ~stopped
    /\ \A j \in Jobs : connector[j] = "posted" => Task("start", j) \in Range(tasks)
    /\ started /\ ended = 0 /\ OpenIn(connector) = {} => ~stopped /\ Task("fill", 0) \in Range(tasks)

(* Fill posts a task for every job it takes.                                 *)
LEMMA FillPosts ==
    ASSUME NEW t, NEW a, NEW c, Sound(t, a, c, nextJob), Fill(t, a, c), ~stopped
    PROVE  LET new == (nextJob + 1)..nextJob'
           IN  /\ nextJob' = LastTaken(a) /\ nextJob' - nextJob \in Nat
               /\ connector' = [j \in Jobs |-> IF j \in new THEN "posted" ELSE c[j]]
               /\ active' = a \cup new
               /\ tasks' \in Seq(Tasks) /\ Len(tasks') = Len(t) + (nextJob' - nextJob)
               /\ Range(t) \subseteq Range(tasks')
               /\ \A j \in new : Task("start", j) \in Range(tasks')
<1> DEFINE last == LastTaken(a)
           k == last - nextJob
           posted == [i \in 1..k |-> Task("start", nextJob + i)]
<1>1. /\ nextJob' = last
      /\ active' = a \cup ((nextJob + 1)..last)
      /\ connector' = [j \in Jobs |-> IF j \in (nextJob + 1)..last THEN "posted" ELSE c[j]]
      /\ tasks' = t \o posted
  BY DEF Fill
<1>2. nextJob \in 0..JobCount /\ JobCount \in Nat /\ a \in SUBSET Jobs /\ t \in Seq(Tasks)
  BY ScannerAssumption DEF Sound
<1>3. Cardinality(a) <= MaxConcurrency
  BY DEF Sound
<1>4. last \in nextJob..JobCount
  BY <1>2, <1>3, Taken
<1> HIDE DEF last
<1>5. k \in Nat
  BY <1>2, <1>4
<1>6. \A i \in 1..k : nextJob + i \in Jobs
  BY <1>2, <1>4 DEF Jobs
<1> HIDE DEF k
<1>7. posted \in [1..k -> Tasks]
  BY <1>6 DEF Task, Tasks
<1>8. posted \in Seq(Tasks) /\ Len(posted) = k
  <2>1. posted \in Seq(Tasks)
    BY <1>5, <1>7, SeqDef
  <2>2. QED BY <1>5, <1>7, <2>1, LenProperties
<1>9. ASSUME NEW j \in (nextJob + 1)..last PROVE Task("start", j) \in Range(posted)
  <2>1. j - nextJob \in 1..k /\ nextJob + (j - nextJob) = j
    BY <1>2, <1>4 DEF k
  <2>2. posted[j - nextJob] = Task("start", j)
    BY <2>1
  <2>3. QED BY <1>7, <2>1, <2>2 DEF Range
<1> HIDE DEF posted
<1>10. /\ tasks' \in Seq(Tasks) /\ Len(tasks') = Len(t) + k
       /\ Range(tasks') = Range(t) \cup Range(posted)
  <2>1. tasks' = t \o posted /\ t \in Seq(Tasks) /\ posted \in Seq(Tasks) /\ Len(posted) = k
    BY <1>1, <1>2, <1>8
  <2>2. t \o posted \in Seq(Tasks) /\ Len(t \o posted) = Len(t) + Len(posted)
    BY <2>1, ConcatProperties
  <2>3. Range(t \o posted) = Range(t) \cup Range(posted)
    BY <2>1, RangeConcatenation
  <2>4. QED BY <2>1, <2>2, <2>3
<1>11. QED BY <1>1, <1>5, <1>9, <1>10 DEF k, last

(* After Fill a scan that has not ended has a job under way.                  *)
LEMMA FillPends ==
    ASSUME IInv, IInv', NEW t, NEW a, NEW c, Sound(t, a, c, nextJob), Fill(t, a, c),
           UNCHANGED <<started, stopped>>, started,
           \A j \in Jobs : c[j] = "posted" => Task("start", j) \in Range(t)
    PROVE  Pending'
<1>1. /\ stopped \in BOOLEAN /\ started' /\ stopped' = stopped
      /\ ended' = IF completed' THEN 1 ELSE 0
      /\ JobCount \in Nat
  BY ScannerAssumption DEF IInv, ConnectionsAccounted, TypeOK, EndedOnce
<1>2. nextJob \in 0..JobCount /\ Cardinality(a) <= MaxConcurrency /\ a \in SUBSET Jobs
  <2>1. nextJob \in 0..JobCount /\ a \in SUBSET Jobs
    BY DEF Sound
  <2>2. /\ IF stopped THEN a = {} ELSE a = OpenIn(c)
        /\ Cardinality(OpenIn(c)) <= MaxConcurrency
    BY DEF Sound
  <2>3. Cardinality({}) = 0 /\ MaxConcurrency \in Nat
    BY FS_EmptySet, ScannerAssumption
  <2>4. Cardinality(a) <= MaxConcurrency
    <3>1. CASE a = {}
      BY <2>3, <3>1
    <3>2. CASE a = OpenIn(c)
      BY <2>2, <3>2
    <3>3. QED BY <2>2, <3>1, <3>2
  <2>5. QED BY <2>1, <2>4
<1>3. CASE stopped
  <2>1. tasks' = t /\ connector' = c /\ completed' = TRUE
    BY <1>3 DEF Fill, Finish
  <2>2. ended' # 0
    BY <1>1, <2>1
  <2>3. QED BY <1>1, <2>1, <2>2 DEF Pending
<1>4. CASE ~stopped
  <2> DEFINE new == (nextJob + 1)..nextJob'
  <2>1. /\ nextJob' = LastTaken(a) /\ nextJob' - nextJob \in Nat
        /\ connector' = [j \in Jobs |-> IF j \in new THEN "posted" ELSE c[j]]
        /\ active' = a \cup new
        /\ Range(t) \subseteq Range(tasks')
        /\ \A j \in new : Task("start", j) \in Range(tasks')
    BY <1>4, FillPosts
  <2>2. \A j \in Jobs : connector'[j] = "posted" => Task("start", j) \in Range(tasks')
    <3> HIDE DEF new
    <3>1. QED BY <2>1
  <2>3. ASSUME ended' = 0, OpenIn(connector') = {} PROVE FALSE
    <3>1. active' = {}
      BY <1>1, <1>4, <2>3 DEF IInv, ActiveAreOpen
    <3>2. a = {} /\ new = {}
      <4> HIDE DEF new
      <4>1. QED BY <2>1, <3>1
    <3>3. LastTaken(a) \in nextJob..JobCount /\ (a = {} /\ LastTaken(a) = nextJob => nextJob = JobCount)
      BY <1>2, Taken
    <3>4. LastTaken(a) = nextJob
      <4>1. nextJob \in Nat /\ LastTaken(a) \in Nat /\ nextJob <= LastTaken(a)
        BY <1>1, <1>2, <3>3
      <4>2. (nextJob + 1)..LastTaken(a) = {}
        BY <2>1, <3>2
      <4>3. QED BY <4>1, <4>2
    <3>5. nextJob' = JobCount
      BY <2>1, <3>2, <3>3, <3>4
    <3>6. Drained(active', nextJob')
      BY <1>1, <3>1, <3>5 DEF Drained
    <3>7. Finish
      BY <1>1, <1>4, <3>6, FillFacts
    <3>8. QED BY <1>1, <2>3, <3>7 DEF Finish
  <2>4. QED BY <1>1, <1>4, <2>2, <2>3 DEF Pending
<1>5. QED BY <1>1, <1>3, <1>4

LEMMA FinishConnectorPends ==
    ASSUME IInv, IInv', Pending, started, NEW j \in Jobs, NEW open \in BOOLEAN, NEW t \in Seq(Tasks),
           connector[j] # "none",
           Range(t) \subseteq Range(tasks),
           Range(tasks) \subseteq Range(t) \cup {Task("start", j), Task("cancel", j)},
           FinishConnector(j, open, t), UNCHANGED <<started, stops, stopped>>
    PROVE  Pending'
<1>1. Task("fill", 0) \notin {Task("start", j), Task("cancel", j)}
  BY DEF Task
<1>2. ASSUME NEW k \in Jobs, k # j
      PROVE  Task("start", k) \notin {Task("start", j), Task("cancel", j)}
  BY <1>2 DEF Task
<1>3. CASE connector[j] = "finished"
  <2>1. tasks' = t /\ connector' = connector /\ ended' = ended /\ started' = started /\ stopped' = stopped
    BY <1>3 DEF FinishConnector, Continue
  <2>2. \A k \in Jobs : connector'[k] = "posted" => Task("start", k) \in Range(tasks')
    BY <1>2, <1>3, <2>1 DEF Pending
  <2>3. started /\ ended' = 0 /\ OpenIn(connector') = {} => ~stopped' /\ Task("fill", 0) \in Range(tasks')
    BY <1>1, <2>1 DEF Pending
  <2>4. QED BY <2>1, <2>2, <2>3 DEF Pending
<1>4. CASE connector[j] # "finished"
  <2> DEFINE a == active \ {j}
             c == [connector EXCEPT ![j] = "finished"]
  <2>1. Fill(t, a, c)
    BY <1>4 DEF FinishConnector
  <2>2. Sound(t, a, c, nextJob)
    BY <1>4, FinishedIsSound
  <2>3. \A k \in Jobs : c[k] = "posted" => Task("start", k) \in Range(t)
    <3>1. connector \in [Jobs -> {"none", "posted", "connecting", "finished"}]
      BY DEF IInv, ConnectionsAccounted, TypeOK
    <3>2. ASSUME NEW k \in Jobs, c[k] = "posted" PROVE k # j /\ connector[k] = "posted"
      BY <3>1, <3>2
    <3>3. QED BY <1>2, <3>2 DEF Pending
  <2> HIDE DEF a, c
  <2>4. QED BY <2>1, <2>2, <2>3, FillPends
<1>5. QED BY <1>3, <1>4

LEMMA NextPending == ASSUME IInv, IInv', Pending, [Next]_vars PROVE Pending'
<1>1. CASE Start
  <2>1. /\ ~started /\ started' = TRUE /\ stopped' = stopped /\ connector' = connector
        /\ Range(tasks) \cup {Task("fill", 0)} \subseteq Range(tasks')
    BY <1>1, Starts DEF IInv, ConnectionsAccounted
  <2>2. QED BY <2>1 DEF Pending
<1>2. CASE Stop
  <2>1. /\ tasks' = IF stopAction THEN Append(tasks, Task("stop", 0)) ELSE tasks
        /\ UNCHANGED <<started, stopped, connector, ended>>
    BY <1>2 DEF Stop
  <2>2. Task("stop", 0) \in Tasks /\ tasks \in Seq(Tasks)
    BY DEF Task, Tasks, IInv, ConnectionsAccounted, TypeOK
  <2>3. Range(tasks) \subseteq Range(tasks')
    BY <2>1, <2>2, AppendTask
  <2>4. QED BY <2>1, <2>3 DEF Pending
<1>3. CASE RunFill
  <2>1. /\ tasks # <<>> /\ Head(tasks).op = "fill"
        /\ Fill(Tail(tasks), active, connector)
        /\ UNCHANGED <<started, stops, stopped>>
    BY <1>3 DEF RunFill
  <2>2. /\ started /\ Sound(Tail(tasks), active, connector, nextJob)
        /\ Range(tasks) = {Head(tasks)} \cup Range(Tail(tasks))
    BY <2>1, HeadTask
  <2>3. ASSUME NEW j \in Jobs, connector[j] = "posted" PROVE Task("start", j) \in Range(Tail(tasks))
    <3>1. Task("start", j) # Head(tasks) /\ Task("start", j) \in Range(tasks)
      BY <2>1, <2>3 DEF Task, Pending
    <3>2. QED BY <2>2, <3>1
  <2>4. QED BY <2>1, <2>2, <2>3, FillPends
<1>4. CASE RunStop
  <2>1. /\ tasks # <<>> /\ Head(tasks).op = "stop"
        /\ \/ stopped /\ tasks' = Tail(tasks) /\ UNCHANGED <<stopped, active>> /\ Continue
           \/ /\ ~stopped /\ stopped' = TRUE
              /\ tasks' = Tail(tasks) \o CancelTasks(active)
              /\ IF active = {} THEN Finish ELSE Continue
        /\ UNCHANGED <<started, connector>>
    BY <1>4 DEF RunStop
  <2>2. /\ started /\ Range(tasks) = {Head(tasks)} \cup Range(Tail(tasks))
        /\ Tail(tasks) \in Seq(Tasks) /\ active \in SUBSET Jobs
        /\ IF stopped THEN active = {} ELSE active = OpenIn(connector)
    BY <2>1, HeadTask DEF Sound
  <2>3. Range(Tail(tasks)) \subseteq Range(tasks')
    <3>1. CASE tasks' = Tail(tasks)
      BY <3>1
    <3>2. CASE tasks' = Tail(tasks) \o CancelTasks(active)
      <4>1. CancelTasks(active) \in Seq(Tasks)
        BY <2>2, CancelTasksFacts
      <4>2. Range(Tail(tasks) \o CancelTasks(active))
              = Range(Tail(tasks)) \cup Range(CancelTasks(active))
        <5>1. Tail(tasks) \in Seq(Tasks) /\ CancelTasks(active) \in Seq(Tasks)
          BY <2>2, <4>1
        <5>2. QED BY <5>1, RangeConcatenation
      <4>3. QED BY <3>2, <4>2
    <3>3. QED BY <2>1, <3>1, <3>2
  <2>4. ASSUME NEW j \in Jobs, connector[j] = "posted" PROVE Task("start", j) \in Range(tasks')
    <3>1. Task("start", j) # Head(tasks) /\ Task("start", j) \in Range(tasks)
      BY <2>1, <2>4 DEF Task, Pending
    <3>2. QED BY <2>2, <2>3, <3>1
  <2>5. ASSUME ended' = 0, OpenIn(connector) = {} PROVE FALSE
    <3>1. CASE stopped
      <4>1. ended = 0
        BY <2>1, <2>5, <3>1 DEF Continue
      <4>2. QED BY <2>2, <2>5, <3>1, <4>1 DEF Pending
    <3>2. CASE ~stopped
      <4>1. active = {} /\ Finish
        BY <2>1, <2>2, <2>5, <3>2
      <4>2. ended' = IF completed' THEN 1 ELSE 0
        BY DEF IInv, EndedOnce
      <4>3. QED BY <2>5, <4>1, <4>2 DEF Finish
    <3>3. QED BY <3>1, <3>2
  <2>6. QED BY <2>1, <2>2, <2>4, <2>5 DEF Pending
<1>5. CASE RunConnector
  <2> DEFINE j == Head(tasks).job
  <2>1. /\ tasks # <<>> /\ Head(tasks).op = "start"
        /\ UNCHANGED <<started, stops, stopped>>
        /\ \/ FinishConnector(j, FALSE, Tail(tasks))
           \/ /\ connector[j] = "posted"
              /\ connector' = [connector EXCEPT ![j] = "connecting"]
              /\ tasks' = Tail(tasks)
    BY <1>5 DEF RunConnector
  <2>2. /\ started
        /\ Range(tasks) = {Head(tasks)} \cup Range(Tail(tasks))
        /\ Tail(tasks) \in Seq(Tasks)
        /\ j \in Jobs /\ connector[j] # "none" /\ Head(tasks) = Task("start", j)
    BY <2>1, HeadTask
  <2> HIDE DEF j
  <2>3. CASE FinishConnector(j, FALSE, Tail(tasks))
    BY <2>1, <2>2, <2>3, FinishConnectorPends
  <2>4. CASE /\ connector[j] = "posted"
             /\ connector' = [connector EXCEPT ![j] = "connecting"]
             /\ tasks' = Tail(tasks)
    <3>1. connector \in [Jobs -> {"none", "posted", "connecting", "finished"}]
      BY DEF IInv, ConnectionsAccounted, TypeOK
    <3>2. j \in OpenIn(connector')
      BY <2>2, <2>4, <3>1 DEF OpenIn
    <3>3. ASSUME NEW k \in Jobs, connector'[k] = "posted" PROVE Task("start", k) \in Range(tasks')
      <4>1. k # j /\ connector[k] = "posted"
        BY <2>2, <2>4, <3>1, <3>3
      <4>2. Task("start", k) \in Range(tasks) /\ Task("start", k) # Head(tasks)
        BY <2>2, <4>1 DEF Pending, Task
      <4>3. QED BY <2>2, <2>4, <4>2
    <3>4. QED BY <2>1, <2>2, <3>2, <3>3 DEF Pending
  <2>5. QED BY <2>1, <2>3, <2>4
<1>6. CASE RunCancel
  <2> DEFINE j == Head(tasks).job
  <2>1. /\ tasks # <<>> /\ Head(tasks).op = "cancel"
        /\ FinishConnector(j, FALSE, Tail(tasks))
        /\ UNCHANGED <<started, stops, stopped>>
    BY <1>6 DEF RunCancel
  <2>2. /\ started /\ Tail(tasks) \in Seq(Tasks)
        /\ Range(tasks) = {Head(tasks)} \cup Range(Tail(tasks))
        /\ j \in Jobs /\ connector[j] # "none" /\ Head(tasks) = Task("cancel", j)
    BY <2>1, HeadTask
  <2> HIDE DEF j
  <2>3. QED BY <2>1, <2>2, FinishConnectorPends
<1>7. CASE \E j \in Jobs, open \in BOOLEAN : ConnectResult(j, open)
  <2>1. PICK j \in Jobs, open \in BOOLEAN : ConnectResult(j, open)
    BY <1>7
  <2>2. /\ connector[j] = "connecting"
        /\ FinishConnector(j, open, tasks)
        /\ UNCHANGED <<started, stops, stopped>>
    BY <2>1 DEF ConnectResult
  <2>3. tasks \in Seq(Tasks) /\ connector[j] # "none"
    BY <2>2 DEF IInv, ConnectionsAccounted, TypeOK
  <2>4. started
    <3>1. ~(j > nextJob) /\ j \in Nat /\ j > 0
      BY <2>2 DEF IInv, TakenInOrder, Jobs
    <3>2. QED BY <3>1 DEF IInv, EndedOnce, ConnectionsAccounted, TypeOK
  <2>5. QED BY <2>2, <2>3, <2>4, FinishConnectorPends
<1>8. CASE UNCHANGED vars
  BY <1>8 DEF vars, control, Pending, OpenIn
<1>9. QED BY <1>1, <1>2, <1>3, <1>4, <1>5, <1>6, <1>7, <1>8 DEF Next, RunTask

(* A scan that has not ended always waits for something that comes: a task of *)
(* the loop or the outcome of a connection attempt.                          *)
THEOREM ScanNeverStalls == Spec => []NeverStalls
<1>1. Init => Pending
  BY DEF Init, Pending
<1>2. IInv /\ IInv' /\ Pending /\ [Next]_vars => Pending'
  BY NextPending
<1>3. IInv /\ Pending => NeverStalls
  <2> SUFFICES ASSUME IInv, Pending PROVE NeverStalls
    OBVIOUS
  <2>1. \A j \in Jobs : connector[j] = "posted" => \E i \in DOMAIN tasks : tasks[i] = Task("start", j)
    BY Queued DEF Pending
  <2>2. ASSUME started, ended = 0, \A j \in Jobs : connector[j] # "connecting" PROVE tasks # <<>>
    <3>1. \E task : task \in Range(tasks)
      BY <2>2 DEF Pending, OpenIn
    <3>2. QED BY <3>1 DEF Range
  <2>3. QED BY <2>1, <2>2 DEF NeverStalls
<1>4. QED BY <1>1, <1>2, <1>3, Invariance, PTL DEF Spec

-----------------------------------------------------------------------------
(* A scan cannot go on for ever.                                            *)

(* The part of Remaining that Fill changes.                                  *)
Work(n, t, a, c) == 4 * (JobCount - n) + Len(t) + Cardinality(a) + Cardinality(OpenIn(c))

LEMMA WorkIsNat ==
    ASSUME NEW t, NEW a, NEW c, NEW n, Sound(t, a, c, n)
    PROVE  /\ Work(n, t, a, c) \in Nat /\ n \in Nat /\ n <= JobCount /\ JobCount \in Nat
           /\ Len(t) \in Nat
           /\ a \in SUBSET Jobs /\ IsFiniteSet(a) /\ Cardinality(a) \in Nat
           /\ OpenIn(c) \in SUBSET Jobs
           /\ IsFiniteSet(OpenIn(c)) /\ Cardinality(OpenIn(c)) \in Nat
<1>1. /\ t \in Seq(Tasks) /\ a \in SUBSET Jobs /\ OpenIn(c) \in SUBSET Jobs
      /\ n \in 0..JobCount /\ JobCount \in Nat
  BY ScannerAssumption DEF Sound, OpenIn
<1>2. Len(t) \in Nat
  BY <1>1, LenProperties
<1>3. IsFiniteSet(a) /\ Cardinality(a) \in Nat
  BY <1>1, Ranks
<1>4. IsFiniteSet(OpenIn(c)) /\ Cardinality(OpenIn(c)) \in Nat
  BY <1>1, Ranks
<1>5. n \in Nat /\ n <= JobCount
  BY <1>1
<1>6. Work(n, t, a, c) \in Nat
  BY <1>1, <1>2, <1>3, <1>4, <1>5 DEF Work
<1>7. QED BY <1>1, <1>2, <1>3, <1>4, <1>5, <1>6

(* A union has no more elements than its two sets together.                  *)
LEMMA UnionBounded ==
    ASSUME NEW A, NEW B, NEW C, IsFiniteSet(A), IsFiniteSet(B), C \subseteq A \cup B
    PROVE  /\ Cardinality(A) \in Nat /\ Cardinality(B) \in Nat /\ Cardinality(C) \in Nat
           /\ Cardinality(C) <= Cardinality(A) + Cardinality(B)
<1>1. IsFiniteSet(A \cup B)
      /\ Cardinality(A \cup B) = Cardinality(A) + Cardinality(B) - Cardinality(A \cap B)
  BY FS_Union
<1>2. IsFiniteSet(A \cap B) /\ IsFiniteSet(C) /\ Cardinality(C) <= Cardinality(A \cup B)
  BY <1>1, FS_Subset
<1>3. /\ Cardinality(A) \in Nat /\ Cardinality(B) \in Nat /\ Cardinality(C) \in Nat
      /\ Cardinality(A \cap B) \in Nat /\ Cardinality(A \cup B) \in Nat
  BY <1>1, <1>2, FS_CardinalityType
<1>4. QED BY <1>1, <1>2, <1>3

(* Taking jobs adds to the tasks, the active jobs and the open connections,   *)
(* but less than it takes from the jobs that are left.                       *)
LEMMA FillShrinks ==
    ASSUME NEW t, NEW a, NEW c, Sound(t, a, c, nextJob), stopped \in BOOLEAN, Fill(t, a, c)
    PROVE  /\ Work(nextJob', tasks', active', connector') <= Work(nextJob, t, a, c)
           /\ Work(nextJob', tasks', active', connector') \in Nat
<1>1. Sound(tasks', active', connector', nextJob')
  BY FillFacts
<1>2. Work(nextJob, t, a, c) \in Nat /\ Work(nextJob', tasks', active', connector') \in Nat
  BY <1>1, WorkIsNat
<1>3. CASE stopped
  <2>1. nextJob' = nextJob /\ tasks' = t /\ active' = a /\ connector' = c
    BY <1>3 DEF Fill
  <2>2. QED BY <1>2, <2>1
<1>4. CASE ~stopped
  <2> DEFINE new == (nextJob + 1)..nextJob'
             k == nextJob' - nextJob
  <2>1. /\ k \in Nat
        /\ connector' = [j \in Jobs |-> IF j \in new THEN "posted" ELSE c[j]]
        /\ active' = a \cup new
        /\ Len(tasks') = Len(t) + k
    BY <1>4, FillPosts
  <2>2. /\ nextJob \in Nat /\ nextJob' \in Nat /\ JobCount \in Nat
        /\ Len(t) \in Nat /\ IsFiniteSet(a) /\ IsFiniteSet(OpenIn(c))
    BY <1>1, WorkIsNat
  <2>3. IsFiniteSet(new) /\ Cardinality(new) = k
    <3>1. nextJob + 1 \in Int /\ nextJob' \in Int
      BY <2>2
    <3>2. /\ IsFiniteSet(new)
          /\ Cardinality(new) = IF nextJob + 1 > nextJob' THEN 0 ELSE nextJob' - (nextJob + 1) + 1
      BY <3>1, FS_Interval
    <3>3. k \in Nat
      BY <2>1
    <3>4. \A m, n \in Nat : n - m \in Nat => (IF m + 1 > n THEN 0 ELSE n - (m + 1) + 1) = n - m
      OBVIOUS
    <3>5. nextJob \in Nat /\ nextJob' \in Nat
      BY <2>2
    <3>6. QED BY <3>2, <3>3, <3>4, <3>5
  <2>4. nextJob' = nextJob + k
    <3>1. \A m, n \in Nat : n = m + (n - m)
      OBVIOUS
    <3>2. nextJob \in Nat /\ nextJob' \in Nat
      BY <2>2
    <3>3. QED BY <3>1, <3>2
  <2> HIDE DEF new, k
  <2>5. OpenIn(connector') \subseteq OpenIn(c) \cup new
    BY <2>1 DEF OpenIn
  <2>6. /\ Cardinality(active') <= Cardinality(a) + k
        /\ Cardinality(active') \in Nat /\ Cardinality(a) \in Nat
    BY <2>1, <2>2, <2>3, UnionBounded
  <2>7. /\ Cardinality(OpenIn(connector')) <= Cardinality(OpenIn(c)) + k
        /\ Cardinality(OpenIn(connector')) \in Nat /\ Cardinality(OpenIn(c)) \in Nat
    BY <2>2, <2>3, <2>5, UnionBounded
  <2>8. \A total, n, l, x, y, d, u, v \in Nat :
          u <= x + d /\ v <= y + d
            => 4 * (total - (n + d)) + (l + d) + u + v <= 4 * (total - n) + l + x + y
    OBVIOUS
  <2>9. QED BY <1>2, <2>1, <2>2, <2>4, <2>6, <2>7, <2>8 DEF Work
<1>5. QED BY <1>3, <1>4

(* A connector that calls back for the first time is not open any more.        *)
LEMMA FinishConnectorShrinks ==
    ASSUME IInv, NEW j \in Jobs, NEW open \in BOOLEAN, NEW t \in Seq(Tasks),
           connector[j] # "none", Range(t) \subseteq Range(tasks), Len(t) <= Len(tasks),
           Len(t) < Len(tasks) \/ connector[j] # "finished",
           FinishConnector(j, open, t)
    PROVE  /\ Work(nextJob', tasks', active', connector') < Work(nextJob, tasks, active, connector)
           /\ Work(nextJob', tasks', active', connector') \in Nat
<1>1. Sound(tasks, active, connector, nextJob)
  BY SoundState
<1>2. /\ Work(nextJob, tasks, active, connector) \in Nat
      /\ nextJob \in Nat /\ nextJob <= JobCount /\ JobCount \in Nat /\ Len(tasks) \in Nat
      /\ IsFiniteSet(active) /\ Cardinality(active) \in Nat
      /\ IsFiniteSet(OpenIn(connector)) /\ Cardinality(OpenIn(connector)) \in Nat
  BY <1>1, WorkIsNat
<1>3. Len(t) \in Nat /\ JobCount - nextJob \in Nat
  BY <1>2, LenProperties
<1>4. CASE connector[j] = "finished"
  <2>1. tasks' = t /\ nextJob' = nextJob /\ active' = active /\ connector' = connector
    BY <1>4 DEF FinishConnector
  <2>2. \A d, l, m, x, y \in Nat : m < l => /\ 4 * d + m + x + y < 4 * d + l + x + y
                                            /\ 4 * d + m + x + y \in Nat
    OBVIOUS
  <2>3. Len(t) < Len(tasks)
    BY <1>4
  <2>4. QED BY <1>2, <1>3, <2>1, <2>2, <2>3 DEF Work
<1>5. CASE connector[j] # "finished"
  <2> DEFINE a == active \ {j}
             c == [connector EXCEPT ![j] = "finished"]
  <2>1. Fill(t, a, c)
    BY <1>5 DEF FinishConnector
  <2>2. Sound(t, a, c, nextJob) /\ OpenIn(c) = OpenIn(connector) \ {j} /\ j \in OpenIn(connector)
    BY <1>5, FinishedIsSound
  <2>3. Cardinality(a) <= Cardinality(active) /\ Cardinality(a) \in Nat
    BY <1>2, FS_Subset, FS_CardinalityType
  <2> HIDE DEF a, c
  <2>4. Cardinality(OpenIn(c)) = Cardinality(OpenIn(connector)) - 1 /\ Cardinality(OpenIn(c)) \in Nat
    <3>1. Cardinality(OpenIn(connector) \ {j}) = Cardinality(OpenIn(connector)) - 1
      BY <1>2, <2>2, FS_RemoveElement
    <3>2. Cardinality(OpenIn(c)) \in Nat
      BY <2>2, WorkIsNat
    <3>3. QED BY <2>2, <3>1, <3>2
  <2>5. stopped \in BOOLEAN
    BY DEF IInv, ConnectionsAccounted, TypeOK
  <2>6. /\ Work(nextJob', tasks', active', connector') <= Work(nextJob, t, a, c)
        /\ Work(nextJob', tasks', active', connector') \in Nat
    BY <2>1, <2>2, <2>5, FillShrinks
  <2>7. \A d, l, m, x, u, y, v \in Nat :
          m <= l /\ u <= x /\ v = y - 1 => 4 * d + m + u + v < 4 * d + l + x + y
    OBVIOUS
  <2>8. Work(nextJob, t, a, c) < Work(nextJob, tasks, active, connector)
    BY <1>2, <1>3, <2>3, <2>4, <2>7 DEF Work
  <2>9. Work(nextJob, t, a, c) \in Nat
    BY <2>2, WorkIsNat
  <2>10. QED BY <1>2, <2>6, <2>8, <2>9
<1>6. QED BY <1>4, <1>5

LEMMA LeftOver == \A m \in Nat : \A n \in 0..m : m - n \in Nat
OBVIOUS

(* Remaining by its parts, before and after a step.                          *)
StartLeft == IF started THEN 0 ELSE 2
StopsLeft == MaxStops - stops
WorkLeft == Work(nextJob, tasks, active, connector)

LEMMA RemainingParts ==
    ASSUME IInv
    PROVE  /\ Remaining = StartLeft + 2 * StopsLeft + WorkLeft
           /\ StartLeft \in Nat /\ StopsLeft \in Nat /\ WorkLeft \in Nat
<1>1. /\ tasks \in Seq(Tasks) /\ active \in SUBSET Jobs /\ nextJob \in 0..JobCount
      /\ stops \in 0..MaxStops /\ JobCount \in Nat /\ MaxStops \in Nat
  BY ScannerAssumption DEF IInv, ConnectionsAccounted, TypeOK
<1>2. OpenIn(connector) \in SUBSET Jobs
  BY DEF OpenIn
<1>3. Cardinality(active) \in Nat /\ Cardinality(OpenIn(connector)) \in Nat
  BY <1>1, <1>2, Ranks
<1>4. Len(tasks) \in Nat
  BY <1>1, LenProperties
<1>5. StartLeft \in Nat
  BY DEF StartLeft
<1>6. StopsLeft \in Nat
  <2>1. stops \in 0..MaxStops /\ MaxStops \in Nat
    BY <1>1
  <2>2. QED BY <2>1, LeftOver DEF StopsLeft
<1>7. JobCount - nextJob \in Nat
  <2>1. nextJob \in 0..JobCount /\ JobCount \in Nat
    BY <1>1
  <2>2. QED BY <2>1, LeftOver
<1>8. {j \in Jobs : Open(j)} = OpenIn(connector)
  BY DEF Open, OpenIn
<1>9. Remaining = StartLeft + 2 * StopsLeft + 4 * (JobCount - nextJob) + Len(tasks)
                    + Cardinality(active) + Cardinality(OpenIn(connector))
  BY <1>8 DEF Remaining, StartLeft, StopsLeft
<1>10. WorkLeft = 4 * (JobCount - nextJob) + Len(tasks) + Cardinality(active)
                    + Cardinality(OpenIn(connector))
  BY DEF WorkLeft, Work
<1>11. WorkLeft \in Nat
  <2>1. \A d, l, x, y \in Nat : 4 * d + l + x + y \in Nat
    OBVIOUS
  <2>2. QED BY <1>3, <1>4, <1>7, <1>10, <2>1
<1>12. Remaining = StartLeft + 2 * StopsLeft + WorkLeft
  <2>1. \A b, m, d, l, x, y \in Nat :
          b + 2 * m + 4 * d + l + x + y = b + 2 * m + (4 * d + l + x + y)
    OBVIOUS
  <2>2. Remaining = StartLeft + 2 * StopsLeft + (4 * (JobCount - nextJob) + Len(tasks)
                     + Cardinality(active) + Cardinality(OpenIn(connector)))
    BY <1>3, <1>4, <1>5, <1>6, <1>7, <1>9, <2>1
  <2>3. QED BY <1>10, <2>2
<1>13. QED BY <1>5, <1>6, <1>11, <1>12

LEMMA RemainingPartsNext ==
    ASSUME IInv'
    PROVE  /\ Remaining' = StartLeft' + 2 * StopsLeft' + WorkLeft'
           /\ StartLeft' \in Nat /\ StopsLeft' \in Nat /\ WorkLeft' \in Nat
<1>1. /\ tasks' \in Seq(Tasks) /\ active' \in SUBSET Jobs /\ nextJob' \in 0..JobCount
      /\ stops' \in 0..MaxStops /\ JobCount \in Nat /\ MaxStops \in Nat
  BY ScannerAssumption DEF IInv, ConnectionsAccounted, TypeOK
<1>2. OpenIn(connector') \in SUBSET Jobs
  BY DEF OpenIn
<1>3. Cardinality(active') \in Nat /\ Cardinality(OpenIn(connector')) \in Nat
  BY <1>1, <1>2, Ranks
<1>4. Len(tasks') \in Nat
  BY <1>1, LenProperties
<1>5. StartLeft' \in Nat
  BY DEF StartLeft
<1>6. StopsLeft' \in Nat
  <2>1. stops' \in 0..MaxStops /\ MaxStops \in Nat
    BY <1>1
  <2>2. QED BY <2>1, LeftOver DEF StopsLeft
<1>7. JobCount - nextJob' \in Nat
  <2>1. nextJob' \in 0..JobCount /\ JobCount \in Nat
    BY <1>1
  <2>2. QED BY <2>1, LeftOver
<1>8. {j \in Jobs : Open(j)}' = OpenIn(connector')
  BY DEF Open, OpenIn
<1>9. Remaining' = StartLeft' + 2 * StopsLeft' + 4 * (JobCount - nextJob') + Len(tasks')
                    + Cardinality(active') + Cardinality(OpenIn(connector'))
  BY <1>8 DEF Remaining, StartLeft, StopsLeft
<1>10. WorkLeft' = 4 * (JobCount - nextJob') + Len(tasks') + Cardinality(active')
                    + Cardinality(OpenIn(connector'))
  BY DEF WorkLeft, Work
<1>11. WorkLeft' \in Nat
  <2>1. \A d, l, x, y \in Nat : 4 * d + l + x + y \in Nat
    OBVIOUS
  <2>2. QED BY <1>3, <1>4, <1>7, <1>10, <2>1
<1>12. Remaining' = StartLeft' + 2 * StopsLeft' + WorkLeft'
  <2>1. \A b, m, d, l, x, y \in Nat :
          b + 2 * m + 4 * d + l + x + y = b + 2 * m + (4 * d + l + x + y)
    OBVIOUS
  <2>2. Remaining' = StartLeft' + 2 * StopsLeft' + (4 * (JobCount - nextJob') + Len(tasks')
                     + Cardinality(active') + Cardinality(OpenIn(connector')))
    <3>1. Cardinality(active') \in Nat /\ Cardinality(OpenIn(connector')) \in Nat /\ Len(tasks') \in Nat
      BY <1>3, <1>4
    <3>2. StartLeft' \in Nat /\ StopsLeft' \in Nat /\ (JobCount - nextJob') \in Nat
      BY <1>5, <1>6, <1>7
    <3>3. PICK d \in Nat, l \in Nat, x \in Nat, y \in Nat, b \in Nat, m \in Nat :
            /\ d = JobCount - nextJob' /\ l = Len(tasks') /\ x = Cardinality(active')
            /\ y = Cardinality(OpenIn(connector')) /\ b = StartLeft' /\ m = StopsLeft'
      BY <3>1, <3>2
    <3>4. Remaining' = b + 2 * m + 4 * d + l + x + y
      BY <1>9, <3>3
    <3>5. Remaining' = b + 2 * m + (4 * d + l + x + y)
      BY <2>1, <3>4
    <3>6. QED BY <3>3, <3>5
  <2>3. QED BY <1>10, <2>2
<1>13. QED BY <1>5, <1>6, <1>11, <1>12

LEMMA NextShrinks == ASSUME IInv, IInv', Next PROVE Remaining' < Remaining
<1>1. /\ Remaining = StartLeft + 2 * StopsLeft + WorkLeft
      /\ StartLeft \in Nat /\ StopsLeft \in Nat /\ WorkLeft \in Nat
  BY RemainingParts
<1>2. /\ Remaining' = StartLeft' + 2 * StopsLeft' + WorkLeft'
      /\ StartLeft' \in Nat /\ StopsLeft' \in Nat /\ WorkLeft' \in Nat
  BY RemainingPartsNext
<1>3. ASSUME UNCHANGED <<started, stops>>, WorkLeft' < WorkLeft PROVE Remaining' < Remaining
  <2>1. StartLeft' = StartLeft /\ StopsLeft' = StopsLeft
    BY <1>3 DEF StartLeft, StopsLeft
  <2>2. \A b, m, v, w \in Nat : v < w => b + 2 * m + v < b + 2 * m + w
    OBVIOUS
  <2>3. StartLeft + 2 * StopsLeft + WorkLeft' < StartLeft + 2 * StopsLeft + WorkLeft
    BY <1>1, <1>2, <1>3, <2>2
  <2>4. QED BY <1>1, <1>2, <2>1, <2>3
<1>4. /\ tasks \in Seq(Tasks) /\ active \in SUBSET Jobs
      /\ connector \in [Jobs -> {"none", "posted", "connecting", "finished"}]
      /\ nextJob \in 0..JobCount /\ JobCount \in Nat
  BY ScannerAssumption DEF IInv, ConnectionsAccounted, TypeOK
<1>5. /\ Len(tasks) \in Nat /\ Cardinality(active) \in Nat /\ Cardinality(OpenIn(connector)) \in Nat
      /\ JobCount - nextJob \in Nat
  <2>1. OpenIn(connector) \in SUBSET Jobs
    BY DEF OpenIn
  <2>2. Cardinality(active) \in Nat /\ Cardinality(OpenIn(connector)) \in Nat
    BY <1>4, <2>1, Ranks
  <2>3. Len(tasks) \in Nat
    BY <1>4, LenProperties
  <2>4. JobCount - nextJob \in Nat
    BY <1>4
  <2>5. QED BY <2>2, <2>3, <2>4
<1>6. tasks # <<>> => Tail(tasks) \in Seq(Tasks) /\ Len(Tail(tasks)) = Len(tasks) - 1
  BY <1>4, HeadTailProperties
<1>7. CASE Start
  <2>1. /\ ~started /\ started' = TRUE /\ UNCHANGED <<nextJob, active, connector>>
        /\ \/ stops' = stops /\ Len(tasks') = Len(tasks) + 1
           \/ stops' = stops + 1 /\ Len(tasks') = (Len(tasks) + 1) + 1
    BY <1>7, Starts DEF IInv, ConnectionsAccounted
  <2>2. StartLeft = 2 /\ StartLeft' = 0
    BY <2>1 DEF StartLeft
  <2>3. stops \in Nat /\ MaxStops \in Nat
    BY ScannerAssumption DEF IInv, ConnectionsAccounted, TypeOK
  <2>4. \A d, l, x, y \in Nat : /\ 4 * d + (l + 1) + x + y = (4 * d + l + x + y) + 1
                                /\ 4 * d + ((l + 1) + 1) + x + y = (4 * d + l + x + y) + 2
    OBVIOUS
  <2>5. \/ StopsLeft' = StopsLeft /\ WorkLeft' = WorkLeft + 1
        \/ StopsLeft' = StopsLeft - 1 /\ WorkLeft' = WorkLeft + 2
    <3>1. CASE stops' = stops /\ Len(tasks') = Len(tasks) + 1
      BY <1>5, <2>1, <2>4, <3>1 DEF WorkLeft, Work, StopsLeft
    <3>2. CASE stops' = stops + 1 /\ Len(tasks') = (Len(tasks) + 1) + 1
      <4>1. StopsLeft' = StopsLeft - 1
        BY <2>3, <3>2 DEF StopsLeft
      <4>2. WorkLeft' = WorkLeft + 2
        BY <1>5, <2>1, <2>4, <3>2 DEF WorkLeft, Work
      <4>3. QED BY <4>1, <4>2
    <3>3. QED BY <2>1, <3>1, <3>2
  <2>6. \A m, w \in Nat : 0 + 2 * m + (w + 1) < 2 + 2 * m + w
                         /\ 0 + 2 * (m - 1) + (w + 2) < 2 + 2 * m + w
    OBVIOUS
  <2>7. QED BY <1>1, <1>2, <2>2, <2>5, <2>6
<1>8. CASE Stop
  <2>1. /\ stops' = stops + 1
        /\ tasks' = IF stopAction THEN Append(tasks, Task("stop", 0)) ELSE tasks
        /\ UNCHANGED <<started, nextJob, active, connector>>
    BY <1>8 DEF Stop
  <2>2. Task("stop", 0) \in Tasks
    BY DEF Task, Tasks
  <2>3. Len(Append(tasks, Task("stop", 0))) = Len(tasks) + 1
    BY <1>4, <2>2, AppendProperties
  <2>4. Len(tasks') = Len(tasks) \/ Len(tasks') = Len(tasks) + 1
    BY <2>1, <2>3
  <2>5. StartLeft' = StartLeft
    BY <2>1 DEF StartLeft
  <2>6. StopsLeft' = StopsLeft - 1
    <3>1. stops \in Nat /\ MaxStops \in Nat
      BY ScannerAssumption DEF IInv, ConnectionsAccounted, TypeOK
    <3>2. QED BY <2>1, <3>1 DEF StopsLeft
  <2>7. \A d, l, x, y \in Nat : 4 * d + (l + 1) + x + y = (4 * d + l + x + y) + 1
    OBVIOUS
  <2>8. WorkLeft' = WorkLeft \/ WorkLeft' = WorkLeft + 1
    BY <1>5, <2>1, <2>4, <2>7 DEF WorkLeft, Work
  <2>9. \A b, m, w \in Nat : /\ b + 2 * (m - 1) + w < b + 2 * m + w
                             /\ b + 2 * (m - 1) + (w + 1) < b + 2 * m + w
    OBVIOUS
  <2>10. /\ StartLeft + 2 * (StopsLeft - 1) + WorkLeft < StartLeft + 2 * StopsLeft + WorkLeft
         /\ StartLeft + 2 * (StopsLeft - 1) + (WorkLeft + 1) < StartLeft + 2 * StopsLeft + WorkLeft
    BY <1>1, <2>9
  <2>11. QED BY <1>1, <1>2, <2>5, <2>6, <2>8, <2>10
<1>9. CASE RunFill
  <2>1. /\ tasks # <<>> /\ Fill(Tail(tasks), active, connector)
        /\ UNCHANGED <<started, stops, stopped>>
    BY <1>9 DEF RunFill
  <2>2. Sound(Tail(tasks), active, connector, nextJob) /\ stopped \in BOOLEAN
    BY <2>1, HeadTask DEF IInv, ConnectionsAccounted, TypeOK
  <2>3. WorkLeft' <= Work(nextJob, Tail(tasks), active, connector)
    BY <2>1, <2>2, FillShrinks DEF WorkLeft
  <2>4. \A d, l, x, y \in Nat : 4 * d + (l - 1) + x + y = (4 * d + l + x + y) - 1
    OBVIOUS
  <2>5. Work(nextJob, Tail(tasks), active, connector) = WorkLeft - 1
    BY <1>5, <1>6, <2>1, <2>4 DEF WorkLeft, Work
  <2>6. WorkLeft' < WorkLeft
    BY <1>1, <1>2, <2>3, <2>5
  <2>7. QED BY <1>3, <2>1, <2>6
<1>10. CASE RunStop
  <2>1. /\ tasks # <<>>
        /\ \/ stopped /\ tasks' = Tail(tasks) /\ UNCHANGED active
           \/ active' = {} /\ tasks' = Tail(tasks) \o CancelTasks(active)
        /\ UNCHANGED <<started, stops, nextJob, connector>>
    BY <1>10 DEF RunStop
  <2>2. Len(tasks') + Cardinality(active') = Len(tasks) - 1 + Cardinality(active)
    <3>1. CASE tasks' = Tail(tasks) /\ UNCHANGED active
      BY <1>5, <1>6, <2>1, <3>1
    <3>2. CASE active' = {} /\ tasks' = Tail(tasks) \o CancelTasks(active)
      <4>1. CancelTasks(active) \in Seq(Tasks)
        BY <1>4, CancelTasksFacts
      <4>2. Len(CancelTasks(active)) = Cardinality(active)
        BY <1>5, <4>1, LenProperties DEF CancelTasks
      <4>3. Len(tasks') = Len(Tail(tasks)) + Len(CancelTasks(active))
        BY <1>6, <2>1, <3>2, <4>1, ConcatProperties
      <4>4. Cardinality(active') = 0
        BY <3>2, FS_EmptySet
      <4>5. QED BY <1>5, <1>6, <2>1, <4>2, <4>3, <4>4
    <3>3. QED BY <2>1, <3>1, <3>2
  <2>3. /\ \A d, l, x, y, m, u \in Nat :
             m + u = l - 1 + x => 4 * d + m + u + y < 4 * d + l + x + y
        /\ Len(tasks') \in Nat /\ Cardinality(active') \in Nat
    <3>1. tasks' \in Seq(Tasks) /\ active' \in SUBSET Jobs
      BY DEF IInv, ConnectionsAccounted, TypeOK
    <3>2. Len(tasks') \in Nat
      BY <3>1, LenProperties
    <3>3. Cardinality(active') \in Nat
      BY <3>1, Ranks
    <3>4. \A d, l, x, y, m, u \in Nat :
            m + u = l - 1 + x => 4 * d + m + u + y < 4 * d + l + x + y
      OBVIOUS
    <3>5. QED BY <3>2, <3>3, <3>4
  <2>4. WorkLeft' < WorkLeft
    BY <1>5, <2>1, <2>2, <2>3 DEF WorkLeft, Work
  <2>5. QED BY <1>3, <2>1, <2>4
<1>11. ASSUME NEW j \in Jobs, NEW open \in BOOLEAN, NEW t \in Seq(Tasks),
              connector[j] # "none", Range(t) \subseteq Range(tasks), Len(t) <= Len(tasks),
              Len(t) < Len(tasks) \/ connector[j] # "finished",
              FinishConnector(j, open, t), UNCHANGED <<started, stops>>
       PROVE  Remaining' < Remaining
  <2>1. WorkLeft' < WorkLeft
    BY <1>11, FinishConnectorShrinks DEF WorkLeft
  <2>2. QED BY <1>3, <1>11, <2>1
<1>12. ASSUME tasks # <<>>, NEW op \in {"start", "cancel"}, Head(tasks).op = op
       PROVE  /\ Head(tasks).job \in Jobs /\ connector[Head(tasks).job] # "none"
              /\ Tail(tasks) \in Seq(Tasks) /\ Range(Tail(tasks)) \subseteq Range(tasks)
              /\ Len(Tail(tasks)) <= Len(tasks) /\ Len(Tail(tasks)) < Len(tasks)
  BY <1>5, <1>6, <1>12, HeadTask
<1>13. CASE RunConnector
  <2> DEFINE j == Head(tasks).job
  <2>1. /\ tasks # <<>> /\ Head(tasks).op = "start"
        /\ UNCHANGED <<started, stops>>
        /\ \/ FinishConnector(j, FALSE, Tail(tasks))
           \/ /\ connector[j] = "posted"
              /\ connector' = [connector EXCEPT ![j] = "connecting"]
              /\ tasks' = Tail(tasks)
              /\ UNCHANGED <<nextJob, active>>
    BY <1>13 DEF RunConnector
  <2>2. /\ j \in Jobs /\ connector[j] # "none"
        /\ Tail(tasks) \in Seq(Tasks) /\ Range(Tail(tasks)) \subseteq Range(tasks)
        /\ Len(Tail(tasks)) <= Len(tasks) /\ Len(Tail(tasks)) < Len(tasks)
    BY <2>1, <1>12
  <2> HIDE DEF j
  <2>3. CASE FinishConnector(j, FALSE, Tail(tasks))
    BY <1>11, <2>1, <2>2, <2>3
  <2>4. CASE /\ connector[j] = "posted"
             /\ connector' = [connector EXCEPT ![j] = "connecting"]
             /\ tasks' = Tail(tasks)
             /\ UNCHANGED <<nextJob, active>>
    <3>1. OpenIn(connector') = OpenIn(connector)
      BY <1>4, <2>2, <2>4 DEF OpenIn
    <3>2. \A d, l, x, y \in Nat : 4 * d + (l - 1) + x + y < 4 * d + l + x + y
      OBVIOUS
    <3>3. WorkLeft' < WorkLeft
      BY <1>5, <1>6, <2>1, <2>4, <3>1, <3>2 DEF WorkLeft, Work
    <3>4. QED BY <1>3, <2>1, <3>3
  <2>5. QED BY <2>1, <2>3, <2>4
<1>14. CASE RunCancel
  <2> DEFINE j == Head(tasks).job
  <2>1. /\ tasks # <<>> /\ Head(tasks).op = "cancel"
        /\ FinishConnector(j, FALSE, Tail(tasks)) /\ UNCHANGED <<started, stops>>
    BY <1>14 DEF RunCancel
  <2>2. /\ j \in Jobs /\ connector[j] # "none"
        /\ Tail(tasks) \in Seq(Tasks) /\ Range(Tail(tasks)) \subseteq Range(tasks)
        /\ Len(Tail(tasks)) <= Len(tasks) /\ Len(Tail(tasks)) < Len(tasks)
    BY <2>1, <1>12
  <2> HIDE DEF j
  <2>3. QED BY <1>11, <2>1, <2>2
<1>15. CASE \E j \in Jobs, open \in BOOLEAN : ConnectResult(j, open)
  <2>1. PICK j \in Jobs, open \in BOOLEAN : ConnectResult(j, open)
    BY <1>15
  <2>2. /\ connector[j] = "connecting"
        /\ FinishConnector(j, open, tasks) /\ UNCHANGED <<started, stops>>
    BY <2>1 DEF ConnectResult
  <2>3. connector[j] # "none" /\ connector[j] # "finished" /\ Len(tasks) <= Len(tasks)
    BY <1>5, <2>2
  <2>4. QED BY <1>4, <1>11, <2>2, <2>3
<1>16. QED BY <1>7, <1>8, <1>9, <1>10, <1>13, <1>14, <1>15 DEF Next, RunTask

(* Every step of a scan leaves fewer steps to come: however many jobs, stops   *)
(* and results there are, it cannot go on for ever.                          *)
THEOREM ScanShrinks == Spec => WorkShrinks
<1>1. IInv /\ IInv' /\ [Next]_vars => [Remaining' < Remaining]_vars
  BY NextShrinks
<1>2. QED BY <1>1, Invariance, PTL DEF Spec, WorkShrinks

(* So a scan ends by itself: it waits for what comes, and less and less of it  *)
(* (fill and stop in src/common/PortScannerSession.cpp).                     *)
THEOREM ScanKeepsGoing == Spec => ScanProgresses
BY ScanNeverStalls, ScanShrinks, PTL DEF ScanProgresses

-----------------------------------------------------------------------------
(* Numbers.                                                                 *)

(* A set of numbers has a least one.                                        *)
LEMMA Least ==
    ASSUME NEW T \in SUBSET Nat, T # {}
    PROVE  \E x \in T : \A y \in T : x <= y
<1>1. IsWellFoundedOn(OpToRel(<, Nat), Nat)
  BY NatLessThanWellFounded
<1>2. PICK x \in T : \A y \in T : ~(<<y, x>> \in OpToRel(<, Nat))
  BY <1>1, WFMin
<1>3. \A y \in T : ~(y < x)
  BY <1>2 DEF OpToRel
<1>4. QED BY <1>3

(* Induction up to n, for a set instead of a predicate.                      *)
LEMMA UpTo ==
    ASSUME NEW n \in Nat, NEW good, 0 \in good, \A i \in 0..(n - 1) : i \in good => i + 1 \in good
    PROVE  \A i \in 0..n : i \in good
<1> DEFINE bad == {i \in 0..n : i \notin good}
<1>1. SUFFICES ASSUME bad # {} PROVE FALSE
  OBVIOUS
<1>2. PICK x \in bad : \A y \in bad : x <= y
  <2>1. bad \in SUBSET Nat
    OBVIOUS
  <2> HIDE DEF bad
  <2>2. QED BY <1>1, <2>1, Least
<1>3. x # 0 /\ x \in 0..n
  BY <1>2
<1>4. x - 1 \in 0..(n - 1) /\ (x - 1) + 1 = x
  BY <1>3
<1>5. x - 1 \in good
  BY <1>2, <1>4
<1>6. QED BY <1>2, <1>4, <1>5

-----------------------------------------------------------------------------
(* Division.                                                               *)

LEMMA DivMod ==
    ASSUME NEW x \in Nat, NEW y \in Nat \ {0}
    PROVE  x \div y \in Nat /\ x % y \in 0..(y - 1) /\ x = (x \div y) * y + (x % y)
OBVIOUS

LEMMA Monotone == \A a, b, c \in Nat : a <= b => a * c <= b * c
OBVIOUS

LEMMA Distributes == \A a, b, c \in Int : (a + b) * c = a * c + b * c
OBVIOUS

(* Quotient and remainder are determined by what they are for.               *)
LEMMA DivUnique ==
    ASSUME NEW x \in Nat, NEW y \in Nat \ {0}, NEW q \in Nat, NEW r \in 0..(y - 1), x = q * y + r
    PROVE  x \div y = q /\ x % y = r
<1> DEFINE p == x \div y
           s == x % y
<1>1. p \in Nat /\ s \in 0..(y - 1) /\ x = p * y + s
  BY DivMod
<1> HIDE DEF p, s
<1>2. ASSUME p < q PROVE FALSE
  <2>1. (p + 1) * y <= q * y
    BY <1>1, <1>2, Monotone
  <2>2. (p + 1) * y = p * y + y
    BY <1>1
  <2>3. p * y \in Nat /\ q * y \in Nat
    BY <1>1
  <2>4. QED BY <1>1, <2>1, <2>2, <2>3
<1>3. ASSUME q < p PROVE FALSE
  <2>1. (q + 1) * y <= p * y
    BY <1>1, <1>3, Monotone
  <2>2. (q + 1) * y = q * y + y
    OBVIOUS
  <2>3. p * y \in Nat /\ q * y \in Nat
    BY <1>1
  <2>4. QED BY <1>1, <2>1, <2>2, <2>3
<1>4. p = q
  BY <1>1, <1>2, <1>3
<1>5. s = r
  <2>1. p * y \in Nat /\ p * y = q * y
    BY <1>1, <1>4
  <2>2. QED BY <1>1, <2>1
<1>6. QED BY <1>4, <1>5 DEF p, s

LEMMA DivDiv ==
    ASSUME NEW x \in Nat, NEW y \in Nat \ {0}, NEW z \in Nat \ {0}
    PROVE  (x \div y) \div z = x \div (y * z)
<1> DEFINE p == x \div y
           s == x % y
           q == p \div z
           r == p % z
<1>1. p \in Nat /\ s \in 0..(y - 1) /\ x = p * y + s
  BY DivMod
<1>2. q \in Nat /\ r \in 0..(z - 1) /\ p = q * z + r
  <2> HIDE DEF p
  <2>1. QED BY <1>1, DivMod
<1> HIDE DEF p, s, q, r
<1>3. x = q * (y * z) + (r * y + s)
  <2>1. p * y = (q * z) * y + r * y
    BY <1>1, <1>2
  <2>2. (q * z) * y = q * (y * z)
    BY <1>2
  <2>3. q * (y * z) \in Nat /\ r * y \in Nat
    BY <1>2
  <2>4. QED BY <1>1, <2>1, <2>2, <2>3
<1>4. r * y + s \in 0..(y * z - 1)
  <2>1. (r + 1) * y <= z * y
    BY <1>2, Monotone
  <2>2. (r + 1) * y = r * y + y
    BY <1>2
  <2>3. r * y \in Nat /\ z * y \in Nat /\ z * y = y * z
    BY <1>2
  <2>4. QED BY <1>1, <2>1, <2>2, <2>3
<1>5. y * z \in Nat \ {0}
  <2>1. 1 * z <= y * z
    BY Monotone
  <2>2. QED BY <2>1
<1>6. x \div (y * z) = q
  BY <1>2, <1>3, <1>4, <1>5, DivUnique
<1>7. QED BY <1>6 DEF q, p

-----------------------------------------------------------------------------
(* The values of the bits.                                                  *)

LEMMA BitDefined == Bit = [i \in 0..Width |-> IF i = 0 THEN 1 ELSE 2 * Bit[i - 1]]
<1> DEFINE Doubles(f, n) == f = [i \in 0..n |-> IF i = 0 THEN 1 ELSE 2 * f[i - 1]]
           good == {n \in Nat : \E f : Doubles(f, n)}
<1>1. 0 \in good
  <2> DEFINE f == [i \in 0..0 |-> 1]
  <2>1. Doubles(f, 0)
    OBVIOUS
  <2>2. QED BY <2>1
<1>2. ASSUME NEW n \in Nat, n \in good PROVE n + 1 \in good
  <2>1. PICK f : Doubles(f, n)
    BY <1>2
  <2> DEFINE g == [i \in 0..(n + 1) |-> IF i = n + 1 THEN 2 * f[n] ELSE f[i]]
  <2>2. ASSUME NEW i \in 0..(n + 1) PROVE g[i] = IF i = 0 THEN 1 ELSE 2 * g[i - 1]
    <3>1. CASE i = 0
      BY <2>1, <3>1
    <3>2. CASE i = n + 1
      BY <3>2
    <3>3. CASE i # 0 /\ i # n + 1
      <4>1. i \in 0..n /\ i - 1 \in 0..n /\ i - 1 \in 0..(n + 1) /\ i - 1 # n + 1
        BY <3>3
      <4>2. f[i] = 2 * f[i - 1]
        BY <2>1, <3>3, <4>1
      <4>3. QED BY <3>3, <4>1, <4>2
    <3>4. QED BY <3>1, <3>2, <3>3
  <2>3. \E h : Doubles(h, n + 1)
    <3>1. Doubles(g, n + 1)
      BY <2>2
    <3> HIDE DEF g
    <3>2. QED BY <3>1
  <2> HIDE DEF Doubles
  <2>4. QED BY <2>3
<1>3. \A n \in 0..Width : n \in good
  <2>1. Width \in Nat
    BY WidthAssumption
  <2> HIDE DEF good
  <2>2. QED BY <1>1, <1>2, <2>1, UpTo
<1>4. \E f : Doubles(f, Width)
  <2>1. Width \in good
    <3> HIDE DEF good
    <3>1. Width \in 0..Width
      BY WidthAssumption
    <3>2. QED BY <1>3, <3>1
  <2> HIDE DEF Doubles
  <2>2. QED BY <2>1
<1>5. Doubles(Bit, Width)
  BY <1>4 DEF Bit
<1>6. QED BY <1>5

LEMMA BitValues ==
    /\ Bit[0] = 1
    /\ \A i \in 0..(Width - 1) : Bit[i + 1] = 2 * Bit[i]
    /\ \A i \in 0..Width : Bit[i] \in Nat \ {0}
<1>0. Width \in Nat
  BY WidthAssumption
<1>1. Bit[0] = 1
  BY <1>0, BitDefined
<1>2. \A i \in 0..(Width - 1) : Bit[i + 1] = 2 * Bit[i]
  <2>1. ASSUME NEW i \in 0..(Width - 1) PROVE Bit[i + 1] = 2 * Bit[i]
    <3>1. i + 1 \in 0..Width /\ i + 1 # 0 /\ (i + 1) - 1 = i
      BY <1>0
    <3>2. QED BY <3>1, BitDefined
  <2>2. QED BY <2>1
<1>3. \A i \in 0..Width : Bit[i] \in Nat \ {0}
  <2> DEFINE good == {i \in Nat : Bit[i] \in Nat \ {0}}
  <2>1. 0 \in good
    BY <1>1
  <2>2. \A i \in 0..(Width - 1) : i \in good => i + 1 \in good
    BY <1>0, <1>2
  <2>3. \A i \in 0..Width : i \in good
    <3> HIDE DEF good
    <3>1. QED BY <1>0, <2>1, <2>2, UpTo
  <2>4. QED BY <2>3
<1>4. QED BY <1>1, <1>2, <1>3

(* Shifting by i and by j is shifting by i + j.                              *)
LEMMA BitProduct ==
    ASSUME NEW i \in 0..Width, NEW j \in 0..Width, i + j <= Width
    PROVE  Bit[i + j] = Bit[i] * Bit[j]
<1>0. Width \in Nat
  BY WidthAssumption
<1> DEFINE good == {n \in Nat : Bit[i + n] = Bit[i] * Bit[n]}
<1>1. 0 \in good
  BY <1>0, BitValues
<1>2. ASSUME NEW n \in 0..(j - 1), n \in good PROVE n + 1 \in good
  <2>1. i + n \in 0..(Width - 1) /\ n \in 0..(Width - 1) /\ i + (n + 1) = (i + n) + 1
    BY <1>0
  <2>2. Bit[i + (n + 1)] = 2 * Bit[i + n] /\ Bit[n + 1] = 2 * Bit[n] /\ Bit[i + n] = Bit[i] * Bit[n]
    BY <1>2, <2>1, BitValues
  <2>3. Bit[i] \in Nat /\ Bit[n] \in Nat
    BY <1>0, <2>1, BitValues
  <2>4. \A a, b \in Nat : 2 * (a * b) = a * (2 * b)
    OBVIOUS
  <2>5. QED BY <2>2, <2>3, <2>4
<1>3. j \in good
  <2> HIDE DEF good
  <2>1. j \in Nat /\ j \in 0..j
    BY <1>0
  <2>2. QED BY <1>1, <1>2, <2>1, UpTo
<1>4. QED BY <1>3

(* Two addresses are the same if all their bits are.                         *)
LEMMA SameBits ==
    ASSUME NEW v \in Addresses, NEW w \in Addresses, \A i \in 0..(Width - 1) : IsSet(v, i) <=> IsSet(w, i)
    PROVE  v = w
<1>0. Width \in Nat /\ v \in Nat /\ w \in Nat /\ AddressCount \in Nat \ {0}
  BY WidthAssumption, BitValues DEF Addresses, AddressCount
<1> DEFINE good == {n \in 0..Width : v \div Bit[Width - n] = w \div Bit[Width - n]}
<1>1. 0 \in good
  <2>1. v = 0 * AddressCount + v /\ w = 0 * AddressCount + w
    BY <1>0
  <2>2. v \div AddressCount = 0 /\ w \div AddressCount = 0
    BY <1>0, <2>1, DivUnique DEF Addresses
  <2>3. Width - 0 = Width /\ 0 \in 0..Width
    BY <1>0
  <2>4. QED BY <2>2, <2>3 DEF AddressCount
<1>2. ASSUME NEW n \in 0..(Width - 1), n \in good PROVE n + 1 \in good
  <2> DEFINE i == Width - (n + 1)
  <2>1. i \in 0..(Width - 1) /\ i + 1 = Width - n /\ Width - (n + 1) = i /\ n + 1 \in 0..Width /\ i \in 0..Width
    BY <1>0
  <2> HIDE DEF i
  <2>2. Bit[Width - n] = 2 * Bit[i] /\ Bit[i] \in Nat \ {0}
    BY <2>1, BitValues
  <2>3. ASSUME NEW x \in Nat
        PROVE  /\ (x \div Bit[i]) = 2 * (x \div Bit[Width - n]) + ((x \div Bit[i]) % 2)
               /\ (x \div Bit[i]) % 2 \in {0, 1}
    <3>1. x \div Bit[i] \in Nat
      BY <2>2, DivMod
    <3>2. (x \div Bit[i]) \div 2 = x \div (Bit[i] * 2)
      BY <2>2, DivDiv
    <3>3. Bit[i] * 2 = Bit[Width - n]
      BY <2>2
    <3>4. QED BY <3>1, <3>2, <3>3
  <2>4. (v \div Bit[i]) % 2 = (w \div Bit[i]) % 2
    <3>1. IsSet(v, i) <=> IsSet(w, i)
      BY <2>1
    <3>2. ((v \div Bit[i]) % 2 = 1) <=> ((w \div Bit[i]) % 2 = 1)
      BY <3>1 DEF IsSet
    <3>3. (v \div Bit[i]) % 2 \in {0, 1} /\ (w \div Bit[i]) % 2 \in {0, 1}
      BY <1>0, <2>3
    <3>4. QED BY <3>2, <3>3
  <2>5. v \div Bit[Width - n] = w \div Bit[Width - n]
    BY <1>2
  <2>6. v \div Bit[i] = w \div Bit[i]
    BY <1>0, <2>3, <2>4, <2>5
  <2>7. QED BY <2>1, <2>6
<1>3. Width \in good
  <2> HIDE DEF good
  <2>1. Width \in 0..Width
    BY <1>0
  <2>2. QED BY <1>0, <1>1, <1>2, <2>1, UpTo
<1>4. v \div 1 = w \div 1
  <2>1. Width - Width = 0
    BY <1>0
  <2>2. QED BY <1>3, <2>1, BitValues
<1>5. v \div 1 = v /\ w \div 1 = w
  BY <1>0
<1>6. QED BY <1>4, <1>5

-----------------------------------------------------------------------------
(* The network of an address.                                               *)

(* Shifted left by k, the lowest k bits of a number are clear,               *)
LEMMA LowBits ==
    ASSUME NEW m \in Nat, NEW k \in 0..Width, NEW i \in 0..(k - 1)
    PROVE  ~IsSet(m * Bit[k], i)
<1>0. Width \in Nat
  BY WidthAssumption
<1> DEFINE c == Bit[(k - i) - 1]
<1>1. /\ (k - i) - 1 \in 0..(Width - 1) /\ (k - i) - 1 \in 0..Width /\ i \in 0..Width /\ k - i \in 0..Width
      /\ i + (k - i) = k /\ ((k - i) - 1) + 1 = k - i
  BY <1>0
<1>2. Bit[k - i] = 2 * c /\ c \in Nat /\ Bit[i] \in Nat \ {0}
  BY <1>1, BitValues
<1>3. Bit[k] = Bit[i] * Bit[k - i]
  BY <1>1, BitProduct
<1> HIDE DEF c
<1>4. m * Bit[k] = (2 * (m * c)) * Bit[i] + 0
  <2>1. \A a, b, d \in Nat : a * (b * (2 * d)) = (2 * (a * d)) * b + 0
    OBVIOUS
  <2>2. QED BY <1>2, <1>3, <2>1
<1>5. m * c \in Nat /\ m * Bit[k] \in Nat
  <2>1. Bit[k] \in Nat
    BY BitValues
  <2>2. QED BY <1>2, <2>1
<1>6. (m * Bit[k]) \div Bit[i] = 2 * (m * c)
  BY <1>2, <1>4, <1>5, DivUnique
<1>7. \A a \in Nat : (2 * a) % 2 # 1
  OBVIOUS
<1>8. QED BY <1>5, <1>6, <1>7 DEF IsSet

(* and the others are those of the number.                                   *)
LEMMA HighBits ==
    ASSUME NEW m \in Nat, NEW k \in 0..Width, NEW i \in k..Width, NEW r \in 0..(Bit[k] - 1)
    PROVE  (m * Bit[k] + r) \div Bit[i] = m \div Bit[i - k]
<1>0. Width \in Nat
  BY WidthAssumption
<1>1. i - k \in 0..Width /\ i \in 0..Width /\ k + (i - k) = i
  BY <1>0
<1>2. Bit[k] \in Nat \ {0} /\ Bit[i - k] \in Nat \ {0} /\ Bit[i] = Bit[k] * Bit[i - k]
  BY <1>1, BitValues, BitProduct
<1>3. m * Bit[k] + r \in Nat
  BY <1>2
<1>4. (m * Bit[k] + r) \div Bit[k] = m
  BY <1>2, <1>3, DivUnique
<1>5. ((m * Bit[k] + r) \div Bit[k]) \div Bit[i - k] = (m * Bit[k] + r) \div (Bit[k] * Bit[i - k])
  BY <1>2, <1>3, DivDiv
<1>6. QED BY <1>2, <1>4, <1>5

LEMMA MaskValue ==
    ASSUME NEW prefix \in PrefixLengths
    PROVE  PrefixMask(prefix) = (Bit[prefix] - 1) * Bit[Width - prefix]
<1> DEFINE b == Bit[Width - prefix]
           n == Bit[prefix]
<1>0. Width \in Nat /\ prefix \in 0..Width
  BY WidthAssumption DEF PrefixLengths
<1>1. /\ Width - prefix \in 0..Width /\ prefix + (Width - prefix) = Width
      /\ b \in Nat \ {0} /\ n \in Nat \ {0}
  BY <1>0, BitValues
<1>2. AddressCount = n * b
  BY <1>0, <1>1, BitProduct DEF AddressCount
<1>3. PrefixMask(prefix) = IF prefix = 0 THEN 0 ELSE ((AddressCount - 1) * b) % AddressCount
  BY DEF PrefixMask
<1>4. prefix = 0 => n = 1
  BY BitValues
<1> HIDE DEF b, n
<1>5. CASE prefix = 0
  BY <1>1, <1>3, <1>4, <1>5 DEF b, n
<1>6. CASE prefix # 0
  <2> DEFINE a == n * b
             rest == (n - 1) * b
  <2>1. a \in Nat \ {0} /\ rest \in 0..(a - 1) /\ a = rest + b
    <3>1. 1 * b <= n * b
      BY <1>1, Monotone
    <3>2. n - 1 \in Nat /\ (n - 1) * b \in Nat /\ n * b = (n - 1) * b + b
      BY <1>1
    <3>3. QED BY <1>1, <3>1, <3>2
  <2>2. (a - 1) * b = (b - 1) * a + rest
    <3> HIDE DEF a, rest
    <3>1. \A x, y, z \in Nat : x = z + y => (x - 1) * y = (y - 1) * x + z
      OBVIOUS
    <3>2. a \in Nat /\ rest \in Nat /\ b \in Nat
      BY <1>1, <2>1
    <3>3. QED BY <2>1, <3>1, <3>2
  <2>3. (a - 1) * b \in Nat /\ b - 1 \in Nat
    <3> HIDE DEF a, rest
    <3>1. QED BY <1>1, <2>1
  <2>4. ((a - 1) * b) % a = rest
    <3> HIDE DEF a, rest
    <3>1. QED BY <2>1, <2>2, <2>3, DivUnique
  <2>5. QED BY <1>2, <1>3, <1>6, <2>4 DEF b, n
<1>7. QED BY <1>5, <1>6

(* The network is the address without its remainder.                         *)
LEMMA NetworkValue ==
    ASSUME NEW address \in Addresses, NEW prefix \in PrefixLengths
    PROVE  Network(address, prefix) = (address \div Bit[Width - prefix]) * Bit[Width - prefix]
<1> DEFINE k == Width - prefix
           q == address \div Bit[k]
           w == q * Bit[k]
           mask == PrefixMask(prefix)
           Agrees(x) == \A i \in 0..(Width - 1) : IsSet(x, i) <=> IsSet(address, i) /\ IsSet(mask, i)
<1>0. /\ Width \in Nat \ {0} /\ prefix \in 0..Width /\ k \in 0..Width /\ prefix = Width - k
      /\ address \in Nat /\ AddressCount \in Nat /\ address < AddressCount
  BY WidthAssumption, BitValues DEF PrefixLengths, Addresses, AddressCount
<1>1. Bit[k] \in Nat \ {0} /\ Bit[prefix] \in Nat \ {0}
  BY <1>0, BitValues
<1>2. mask = (Bit[prefix] - 1) * Bit[k]
  BY MaskValue
<1> HIDE DEF mask, k
<1>3. q \in Nat /\ address % Bit[k] \in 0..(Bit[k] - 1) /\ address = q * Bit[k] + (address % Bit[k])
  BY <1>0, <1>1, DivMod
<1> HIDE DEF q
<1>4. w \in Addresses
  <2>1. w \in Nat /\ w <= address
    BY <1>0, <1>1, <1>3
  <2> HIDE DEF w
  <2>2. QED BY <1>0, <2>1 DEF Addresses
<1>5. ASSUME NEW i \in 0..(Width - 1) PROVE IsSet(w, i) <=> IsSet(address, i) /\ IsSet(mask, i)
  <2>1. CASE i < k
    <3>1. i \in 0..(k - 1) /\ Bit[prefix] - 1 \in Nat
      BY <1>0, <1>1, <2>1
    <3>2. ~IsSet(w, i) /\ ~IsSet(mask, i)
      BY <1>0, <1>2, <1>3, <3>1, LowBits
    <3>3. QED BY <3>2
  <2>2. CASE i >= k
    <3>1. i \in k..Width /\ 0 \in 0..(Bit[k] - 1) /\ Bit[prefix] - 1 \in Nat /\ mask + 0 = mask /\ w + 0 = w
      <4>1. i \in k..Width /\ 0 \in 0..(Bit[k] - 1) /\ Bit[prefix] - 1 \in Nat
        BY <1>0, <1>1, <2>2
      <4>2. mask \in Nat /\ w \in Nat
        BY <1>1, <1>2, <1>3, <4>1
      <4> HIDE DEF w
      <4>3. QED BY <4>1, <4>2
    <3>2. w \div Bit[i] = q \div Bit[i - k]
      BY <1>0, <1>3, <3>1, HighBits
    <3>3. address \div Bit[i] = q \div Bit[i - k]
      BY <1>0, <1>3, <3>1, HighBits
    <3>4. mask \div Bit[i] = (Bit[prefix] - 1) \div Bit[i - k]
      BY <1>0, <1>2, <3>1, HighBits
    <3>5. IsSet(mask, i)
      <4> DEFINE d == Width - i
                 e == i - k
                 c == Bit[d - 1]
      <4>1. /\ d \in 1..Width /\ d \in 0..Width /\ e \in 0..Width /\ e + d = prefix
            /\ d - 1 \in 0..(Width - 1) /\ d - 1 \in 0..Width /\ (d - 1) + 1 = d
        BY <1>0, <2>2
      <4> HIDE DEF d
      <4>2. Bit[d] = 2 * c /\ c \in Nat \ {0} /\ Bit[d] \in Nat \ {0} /\ Bit[e] \in Nat \ {0}
        BY <4>1, BitValues
      <4>3. Bit[prefix] = Bit[e] * Bit[d]
        BY <1>0, <4>1, BitProduct
      <4> HIDE DEF c, e
      <4>4. Bit[prefix] - 1 = (Bit[d] - 1) * Bit[e] + (Bit[e] - 1)
        <5>1. \A x, y \in Nat \ {0} : x * y - 1 = (y - 1) * x + (x - 1)
          OBVIOUS
        <5>2. QED BY <4>2, <4>3, <5>1
      <4>5. (Bit[prefix] - 1) \div Bit[e] = Bit[d] - 1
        <5> DEFINE x == Bit[prefix] - 1
                   y == Bit[e]
                   z == Bit[d] - 1
        <5>1. x \in Nat /\ y \in Nat \ {0} /\ z \in Nat /\ y - 1 \in 0..(y - 1) /\ x = z * y + (y - 1)
          BY <3>1, <4>2, <4>4
        <5> HIDE DEF x, y, z
        <5>2. x \div y = z
          BY <5>1, DivUnique
        <5>3. QED BY <5>2 DEF x, y, z
      <4>6. \A x \in Nat \ {0} : (2 * x - 1) % 2 = 1
        OBVIOUS
      <4>7. mask \div Bit[i] = 2 * c - 1
        BY <3>4, <4>2, <4>5 DEF e
      <4>8. QED BY <4>2, <4>6, <4>7 DEF IsSet
    <3>6. QED BY <3>2, <3>3, <3>5 DEF IsSet
  <2>3. QED BY <1>0, <2>1, <2>2
<1> HIDE DEF w
<1>6. Agrees(w)
  BY <1>5
<1>7. Network(address, prefix) = CHOOSE x \in Addresses : Agrees(x)
  BY DEF Network, BitAnd, mask
<1>8. Network(address, prefix) \in Addresses /\ Agrees(Network(address, prefix))
  <2> HIDE DEF Agrees
  <2>1. QED BY <1>4, <1>6, <1>7
<1>9. \A i \in 0..(Width - 1) : IsSet(Network(address, prefix), i) <=> IsSet(w, i)
  BY <1>6, <1>8
<1>10. Network(address, prefix) = w
  BY <1>4, <1>8, <1>9, SameBits
<1>11. QED BY <1>10 DEF w, q, k

-----------------------------------------------------------------------------
(* The hosts of a network.                                                  *)

First(address, prefix) ==
    Network(address, prefix) + (IF SkipNetworkAndBroadcast(prefix) THEN 1 ELSE 0)

LEMMA MembersValue ==
    ASSUME NEW address \in Addresses, NEW prefix \in PrefixLengths
    PROVE  LET network == Network(address, prefix)
               size == Bit[Width - prefix]
           IN  /\ network \in Nat /\ size \in Nat \ {0} /\ network + size <= AddressCount
               /\ Members(address, prefix) = network..(network + size - 1)
<1> DEFINE b == Bit[Width - prefix]
           n == Bit[prefix]
           q == address \div b
           network == Network(address, prefix)
<1>0. /\ Width \in Nat /\ prefix \in 0..Width /\ Width - prefix \in 0..Width
      /\ prefix + (Width - prefix) = Width
  BY WidthAssumption DEF PrefixLengths
<1>1. b \in Nat \ {0} /\ n \in Nat \ {0}
  BY <1>0, BitValues
<1>2. AddressCount = n * b
  BY <1>0, BitProduct DEF AddressCount
<1>3. network = q * b
  BY NetworkValue
<1>4. address \in Nat /\ address < AddressCount /\ AddressCount \in Nat
  BY <1>0, BitValues DEF Addresses, AddressCount
<1> HIDE DEF b, n, network
<1>5. q \in Nat /\ address % b \in 0..(b - 1) /\ address = q * b + (address % b)
  BY <1>1, <1>4, DivMod
<1> HIDE DEF q
<1>6. network \in Nat /\ network + b <= AddressCount
  <2>1. q < n
    <3>1. ASSUME n <= q PROVE FALSE
      <4>1. n * b <= q * b
        BY <1>1, <1>5, <3>1, Monotone
      <4>2. q * b \in Nat /\ n * b \in Nat
        BY <1>1, <1>5
      <4>3. QED BY <1>2, <1>4, <1>5, <4>1, <4>2
    <3>2. QED BY <1>1, <1>5, <3>1
  <2>2. (q + 1) * b <= n * b
    BY <1>1, <1>5, <2>1, Monotone
  <2>3. (q + 1) * b = q * b + b /\ q * b \in Nat
    BY <1>1, <1>5
  <2>4. QED BY <1>1, <1>2, <1>3, <2>2, <2>3
<1>7. ASSUME NEW a \in Addresses PROVE a \div b = q <=> a \in network..(network + b - 1)
  <2>1. a \in Nat
    BY <1>4 DEF Addresses
  <2>2. a \div b \in Nat /\ a % b \in 0..(b - 1) /\ a = (a \div b) * b + (a % b)
    BY <1>1, <2>1, DivMod
  <2>3. ASSUME a \div b = q PROVE a \in network..(network + b - 1)
    BY <1>1, <1>3, <1>6, <2>1, <2>2, <2>3
  <2>4. ASSUME a \in network..(network + b - 1) PROVE a \div b = q
    <3>1. a - network \in 0..(b - 1) /\ a = q * b + (a - network)
      BY <1>1, <1>3, <1>6, <2>1, <2>4
    <3>2. QED BY <1>1, <1>5, <2>1, <3>1, DivUnique
  <2>5. QED BY <2>3, <2>4
<1>8. network..(network + b - 1) \subseteq Addresses
  BY <1>1, <1>4, <1>6 DEF Addresses
<1>9. Members(address, prefix) = {a \in Addresses : a \div b = q}
  BY DEF Members, b, q
<1>10. Members(address, prefix) = network..(network + b - 1)
  BY <1>7, <1>8, <1>9
<1>11. QED BY <1>1, <1>6, <1>10 DEF b, network

(* The usable addresses are as many as hosts() says, from the one it says.    *)
LEMMA UsableValue ==
    ASSUME NEW address \in Addresses, NEW prefix \in PrefixLengths
    PROVE  LET first == First(address, prefix)
               count == HostCount(prefix)
           IN  /\ first \in Nat /\ count \in Nat /\ first + count <= AddressCount
               /\ Usable(address, prefix) = first..(first + count - 1)
               /\ Cardinality(Usable(address, prefix)) = count
<1> DEFINE network == Network(address, prefix)
           b == Bit[Width - prefix]
           members == network..(network + b - 1)
<1>0. Width \in Nat \ {0, 1} /\ prefix \in 0..Width /\ AddressCount \in Nat
  BY WidthAssumption, BitValues DEF PrefixLengths, AddressCount
<1>1. network \in Nat /\ b \in Nat \ {0} /\ network + b <= AddressCount /\ Members(address, prefix) = members
  BY MembersValue
<1>2. IF SkipNetworkAndBroadcast(prefix) THEN b > 3 ELSE b <= 2
  <2>1. CASE prefix = Width
    <3>1. Width - prefix = 0 /\ ~(prefix <= Width - 2)
      BY <1>0, <2>1
    <3>2. QED BY <3>1, BitValues DEF SkipNetworkAndBroadcast
  <2>2. CASE prefix = Width - 1
    <3>1. Width - prefix = 0 + 1 /\ ~(prefix <= Width - 2) /\ 0 \in 0..(Width - 1)
      BY <1>0, <2>2
    <3>2. b = 2 * Bit[0]
      BY <3>1, BitValues
    <3>3. QED BY <3>1, <3>2, BitValues DEF SkipNetworkAndBroadcast
  <2>3. CASE prefix <= Width - 2
    <3> DEFINE i == Width - prefix - 2
    <3>1. /\ i \in 0..Width /\ i \in 0..(Width - 1) /\ i + 1 \in 0..(Width - 1)
          /\ Width - prefix = (i + 1) + 1
      BY <1>0, <2>3
    <3> HIDE DEF i
    <3>2. b = 2 * (2 * Bit[i]) /\ Bit[i] \in Nat \ {0}
      BY <3>1, BitValues
    <3>3. QED BY <2>3, <3>2 DEF SkipNetworkAndBroadcast
  <2>4. QED BY <1>0, <2>1, <2>2, <2>3
<1>3. HostCount(prefix) = b - (IF SkipNetworkAndBroadcast(prefix) THEN 2 ELSE 0)
  BY DEF HostCount
<1>4. First(address, prefix) = network + (IF SkipNetworkAndBroadcast(prefix) THEN 1 ELSE 0)
  BY DEF First
<1> HIDE DEF network, b
<1>5. Cardinality(members) = b
  <2>1. network \in Int /\ network + b - 1 \in Int
    BY <1>1
  <2>2. Cardinality(members) = IF network > network + b - 1 THEN 0 ELSE (network + b - 1) - network + 1
    BY <2>1, FS_Interval
  <2>3. QED BY <1>1, <2>2
<1>6. Usable(address, prefix)
        = IF b <= 2 THEN members ELSE members \ {Min(members), Max(members)}
  BY <1>1, <1>5 DEF Usable
<1>7. Min(members) = network /\ Max(members) = network + b - 1
  <2>1. network \in members /\ network + b - 1 \in members
    BY <1>1
  <2>2. \A x \in members : (\A y \in members : x <= y) <=> x = network
    BY <1>1
  <2>3. \A x \in members : (\A y \in members : x >= y) <=> x = network + b - 1
    BY <1>1
  <2> HIDE DEF members
  <2>4. Min(members) = network
    BY <2>1, <2>2 DEF Min
  <2>5. Max(members) = network + b - 1
    BY <2>1, <2>3 DEF Max
  <2>6. QED BY <2>4, <2>5
<1>8. CASE SkipNetworkAndBroadcast(prefix)
  <2>1. b > 3 /\ HostCount(prefix) = b - 2 /\ First(address, prefix) = network + 1
    BY <1>2, <1>3, <1>4, <1>8
  <2>2. Usable(address, prefix) = members \ {network, network + b - 1}
    BY <1>1, <1>6, <1>7, <2>1
  <2>3. Usable(address, prefix) = (network + 1)..((network + 1) + (b - 2) - 1)
    BY <1>1, <2>1, <2>2
  <2>4. network + 1 \in Int /\ (network + 1) + (b - 2) - 1 \in Int
    BY <1>1
  <2>5. Cardinality(Usable(address, prefix)) = b - 2
    <3>1. Cardinality((network + 1)..((network + 1) + (b - 2) - 1))
            = IF network + 1 > (network + 1) + (b - 2) - 1 THEN 0
              ELSE ((network + 1) + (b - 2) - 1) - (network + 1) + 1
      BY <2>4, FS_Interval
    <3>2. QED BY <1>1, <2>1, <2>3, <3>1
  <2>6. QED BY <1>0, <1>1, <2>1, <2>3, <2>5
<1>9. CASE ~SkipNetworkAndBroadcast(prefix)
  <2>1. b <= 2 /\ HostCount(prefix) = b /\ First(address, prefix) = network
    BY <1>1, <1>2, <1>3, <1>4, <1>9
  <2>2. QED BY <1>1, <1>5, <1>6, <2>1
<1>10. QED BY <1>8, <1>9

(* The rounds of the loop of hosts().                                       *)
Rounds(listed, first, n, locals) ==
    listed = [count \in 0..n |->
                IF count = 0 THEN <<>>
                ELSE LET address == (first + (count - 1)) % AddressCount
                     IN  IF address \in locals THEN listed[count - 1]
                         ELSE Append(listed[count - 1], address)]

LEMMA RoundsExist ==
    ASSUME NEW first, NEW locals, NEW n \in Nat
    PROVE  \E listed : Rounds(listed, first, n, locals)
<1> DEFINE good == {m \in Nat : \E listed : Rounds(listed, first, m, locals)}
           Nth(count) == (first + (count - 1)) % AddressCount
<1>1. 0 \in good
  <2> DEFINE f == [count \in 0..0 |-> <<>>]
  <2>1. Rounds(f, first, 0, locals)
    BY DEF Rounds
  <2> HIDE DEF f
  <2>2. \E listed : Rounds(listed, first, 0, locals)
    BY <2>1
  <2>3. QED BY <2>2
<1>2. ASSUME NEW m \in Nat, m \in good PROVE m + 1 \in good
  <2>1. PICK f : Rounds(f, first, m, locals)
    BY <1>2
  <2> DEFINE Step(h, count) == IF Nth(count) \in locals THEN h[count - 1]
                               ELSE Append(h[count - 1], Nth(count))
             g == [count \in 0..(m + 1) |-> IF count = m + 1 THEN Step(f, m + 1) ELSE f[count]]
  <2>2. f = [count \in 0..m |-> IF count = 0 THEN <<>> ELSE Step(f, count)]
    BY <2>1 DEF Rounds
  <2> HIDE DEF Nth
  <2>3. ASSUME NEW count \in 0..(m + 1) PROVE g[count] = IF count = 0 THEN <<>> ELSE Step(g, count)
    <3>1. CASE count = 0
      BY <2>2, <3>1
    <3>2. CASE count = m + 1
      <4>1. (m + 1) - 1 = m /\ m \in 0..(m + 1) /\ m # m + 1
        OBVIOUS
      <4>2. g[m] = f[m] /\ g[m + 1] = Step(f, m + 1)
        BY <4>1
      <4>3. QED BY <3>2, <4>1, <4>2
    <3>3. CASE count # 0 /\ count # m + 1
      <4>1. count \in 0..m /\ count - 1 \in 0..(m + 1) /\ count - 1 # m + 1
        BY <3>3
      <4>2. f[count] = Step(f, count) /\ g[count] = f[count] /\ g[count - 1] = f[count - 1]
        BY <2>2, <3>3, <4>1
      <4>3. QED BY <3>3, <4>2
    <3>4. QED BY <3>1, <3>2, <3>3
  <2>4. g = [count \in 0..(m + 1) |-> IF count = 0 THEN <<>> ELSE Step(g, count)]
    BY <2>3
  <2>5. Rounds(g, first, m + 1, locals)
    BY <2>4 DEF Rounds, Nth
  <2> HIDE DEF g
  <2>6. \E listed : Rounds(listed, first, m + 1, locals)
    BY <2>5
  <2>7. QED BY <2>6
<1> HIDE DEF good
<1>3. \A m \in 0..n : m \in good
  BY <1>1, <1>2, UpTo
<1>4. n \in good
  BY <1>3
<1>5. QED BY <1>4 DEF good

Ascending(s) == \A i, j \in 1..Len(s) : i < j => s[i] < s[j]

(* After count rounds the first count addresses are listed, but for those of  *)
(* the machine.                                                             *)
LEMMA RoundsList ==
    ASSUME NEW first \in Nat, NEW locals, NEW n \in Nat, first + n <= AddressCount,
           NEW listed, Rounds(listed, first, n, locals)
    PROVE  /\ listed[n] \in Seq(Nat) /\ Ascending(listed[n])
           /\ Range(listed[n]) = (first..(first + n - 1)) \ locals
<1>0. AddressCount \in Nat
  BY WidthAssumption, BitValues DEF AddressCount
<1> DEFINE Good(s, c) == /\ s \in Seq(Nat) /\ Ascending(s)
                         /\ Range(s) = (first..(first + c - 1)) \ locals
           good == {c \in Nat : Good(listed[c], c)}
<1>1. 0 \in good
  <2>1. listed[0] = <<>>
    BY DEF Rounds
  <2>2. <<>> \in Seq(Nat) /\ Len(<<>>) = 0 /\ Range(<<>>) = {}
    BY DEF Range
  <2>3. first..(first + 0 - 1) = {}
    OBVIOUS
  <2>4. Ascending(<<>>)
    BY <2>2 DEF Ascending
  <2>5. Good(listed[0], 0)
    BY <2>1, <2>2, <2>3, <2>4
  <2> HIDE DEF Good
  <2>6. QED BY <2>5
<1>2. ASSUME NEW c \in 0..(n - 1), c \in good PROVE c + 1 \in good
  <2> DEFINE s == listed[c]
             a == first + c
  <2>1. Good(s, c)
    BY <1>2
  <2>2. listed[c + 1] = IF a \in locals THEN s ELSE Append(s, a)
    <3>1. c + 1 \in 0..n /\ c + 1 # 0 /\ (c + 1) - 1 = c
      OBVIOUS
    <3>2. a \in Nat /\ a < AddressCount
      BY <1>0
    <3>3. a % AddressCount = a
      <4> HIDE DEF a
      <4>1. QED BY <1>0, <3>2
    <3>4. listed[c + 1] = IF (first + c) % AddressCount \in locals THEN listed[c]
                          ELSE Append(listed[c], (first + c) % AddressCount)
      BY <3>1 DEF Rounds
    <3>5. QED BY <3>3, <3>4
  <2>3. first..(first + (c + 1) - 1) = (first..(first + c - 1)) \cup {a} /\ a \in Nat
    OBVIOUS
  <2>4. CASE a \in locals
    BY <2>1, <2>2, <2>3, <2>4
  <2>5. CASE a \notin locals
    <3> HIDE DEF s
    <3>1. s \in Seq(Nat) /\ Len(s) \in Nat
      BY <2>1, LenProperties
    <3>2. /\ Append(s, a) \in Seq(Nat) /\ Len(Append(s, a)) = Len(s) + 1
          /\ \A i \in 1..Len(s) : Append(s, a)[i] = s[i]
          /\ Append(s, a)[Len(s) + 1] = a
      BY <2>3, <3>1, AppendProperties
    <3>3. Range(Append(s, a)) = Range(s) \cup {a}
      <4>1. DOMAIN s = 1..Len(s) /\ DOMAIN Append(s, a) = 1..(Len(s) + 1)
        BY <3>1, <3>2, LenProperties
      <4>2. 1..(Len(s) + 1) = (1..Len(s)) \cup {Len(s) + 1}
        BY <3>1
      <4>3. QED BY <3>2, <4>1, <4>2 DEF Range
    <3>4. \A i \in 1..Len(s) : s[i] \in Nat /\ s[i] < a
      <4>1. ASSUME NEW i \in 1..Len(s) PROVE s[i] \in first..(first + c - 1)
        <5>1. s[i] \in Range(s)
          BY <3>1, LenProperties DEF Range
        <5>2. QED BY <2>1, <5>1
      <4>2. QED BY <4>1
    <3>5. Ascending(Append(s, a))
      <4>1. SUFFICES ASSUME NEW i \in 1..(Len(s) + 1), NEW j \in 1..(Len(s) + 1), i < j
                     PROVE  Append(s, a)[i] < Append(s, a)[j]
        BY <3>2 DEF Ascending
      <4>2. i \in 1..Len(s)
        BY <3>1, <4>1
      <4>3. CASE j = Len(s) + 1
        BY <3>2, <3>4, <4>2, <4>3
      <4>4. CASE j # Len(s) + 1
        <5>1. j \in 1..Len(s)
          BY <3>1, <4>4
        <5>2. s[i] < s[j]
          BY <2>1, <4>1, <4>2, <5>1 DEF Ascending
        <5>3. QED BY <3>2, <4>2, <5>1, <5>2
      <4>5. QED BY <4>3, <4>4
    <3>6. Range(Append(s, a)) = (first..(first + (c + 1) - 1)) \ locals
      BY <2>1, <2>3, <2>5, <3>3
    <3>7. listed[c + 1] = Append(s, a)
      BY <2>2, <2>5
    <3>8. Good(listed[c + 1], c + 1)
      BY <3>2, <3>5, <3>6, <3>7
    <3> HIDE DEF Good
    <3>9. QED BY <3>8
  <2>6. QED BY <2>4, <2>5
<1> HIDE DEF good
<1>3. \A c \in 0..n : c \in good
  BY <1>1, <1>2, UpTo
<1>4. n \in good
  BY <1>3
<1>5. QED BY <1>4 DEF good

(* For every address and prefix and every set of own addresses.              *)
LEMMA HostsListed ==
    ASSUME NEW address \in Addresses, NEW prefix \in PrefixLengths, NEW locals
    PROVE  LET hosts == Hosts(Network(address, prefix), prefix, locals)
           IN  /\ hosts \in Seq(Nat) /\ Ascending(hosts)
               /\ Range(hosts) = Usable(address, prefix) \ locals
<1> DEFINE first == First(address, prefix)
           n == HostCount(prefix)
           chosen == CHOOSE listed : Rounds(listed, first, n, locals)
<1>1. /\ first \in Nat /\ n \in Nat /\ first + n <= AddressCount
      /\ Usable(address, prefix) = first..(first + n - 1)
  BY UsableValue
<1>2. Hosts(Network(address, prefix), prefix, locals) = chosen[n]
  BY DEF Hosts, First, Rounds
<1> HIDE DEF first, n
<1>3. Rounds(chosen, first, n, locals)
  BY <1>1, RoundsExist
<1> HIDE DEF chosen
<1>4. /\ chosen[n] \in Seq(Nat) /\ Ascending(chosen[n])
      /\ Range(chosen[n]) = (first..(first + n - 1)) \ locals
  BY <1>1, <1>3, RoundsList
<1>5. QED BY <1>1, <1>2, <1>4

(* The hosts that the masks and the loop give are those meant by the prefix:  *)
(* all usable addresses but the machine's own, ascending, and the limit       *)
(* refuses exactly the networks that have more.                              *)
THEOREM HostsAreExact == HostsExact
<1> SUFFICES ASSUME NEW address \in Addresses, NEW prefix \in PrefixLengths,
                    NEW locals \in SUBSET {1, 6, AddressCount - 2}
             PROVE  LET hosts == Hosts(Network(address, prefix), prefix, locals)
                    IN  /\ Range(hosts) = Usable(address, prefix) \ locals
                        /\ \A i \in 1..(Len(hosts) - 1) : hosts[i] < hosts[i + 1]
                        /\ \A maxHosts \in 1..AddressCount :
                              ExceedsLimit(prefix, maxHosts)
                              <=> Cardinality(Usable(address, prefix)) > maxHosts
  BY DEF HostsExact
<1> DEFINE hosts == Hosts(Network(address, prefix), prefix, locals)
<1>1. hosts \in Seq(Nat) /\ Ascending(hosts) /\ Range(hosts) = Usable(address, prefix) \ locals
  BY HostsListed
<1> HIDE DEF hosts
<1>2. \A i \in 1..(Len(hosts) - 1) : hosts[i] < hosts[i + 1]
  <2>1. Len(hosts) \in Nat
    BY <1>1, LenProperties
  <2>2. QED BY <1>1, <2>1 DEF Ascending
<1>3. \A maxHosts \in 1..AddressCount :
          ExceedsLimit(prefix, maxHosts) <=> Cardinality(Usable(address, prefix)) > maxHosts
  BY UsableValue DEF ExceedsLimit
<1>4. QED BY <1>1, <1>2, <1>3 DEF hosts

-----------------------------------------------------------------------------
(* The jobs of a subnet.                                                    *)

LEMMA PortsListed ==
    /\ Len(PortList) \in Nat /\ IsInjective(PortList)
    /\ PortList \in [1..Len(PortList) -> ScanPorts]
    /\ \A port \in ScanPorts : \E i \in 1..Len(PortList) : PortList[i] = port
<1> DEFINE n == Cardinality(ScanPorts)
<1>1. n \in Nat /\ IsFiniteSet(ScanPorts)
  BY JobsAssumption, FS_CardinalityType
<1>2. \E f \in [1..n -> ScanPorts] : IsInjective(f)
  <2>1. ExistsBijection(1..n, ScanPorts)
    BY <1>1, FS_CardinalityType
  <2>2. PICK f : f \in Bijection(1..n, ScanPorts)
    BY <2>1 DEF ExistsBijection
  <2>3. QED BY <2>2 DEF Bijection, Injection
<1>3. PortList \in [1..n -> ScanPorts] /\ IsInjective(PortList)
  BY <1>2 DEF PortList, SetToSeq
<1> HIDE DEF n
<1>4. PortList \in Seq(ScanPorts) /\ Len(PortList) = n
  <2>1. PortList \in Seq(ScanPorts)
    BY <1>1, <1>3, SeqDef
  <2>2. QED BY <1>1, <1>3, <2>1, LenProperties
<1>5. \A port \in ScanPorts : \E i \in 1..n : PortList[i] = port
  <2>1. IsFiniteSet(1..n) /\ Cardinality(1..n) = n
    BY <1>1, FS_Interval
  <2>2. PortList \in Injection(1..n, ScanPorts)
    BY <1>3 DEF Injection
  <2>3. PortList \in Surjection(1..n, ScanPorts)
    BY <1>1, <2>1, <2>2, FS_Injection DEF n
  <2>4. QED BY <2>3 DEF Surjection
<1>6. QED BY <1>1, <1>3, <1>4, <1>5

LEMMA HostsOnce ==
    /\ Len(SubnetHosts) \in Nat
    /\ Range(SubnetHosts) = {SubnetHosts[i] : i \in 1..Len(SubnetHosts)}
    /\ Range(SubnetHosts) = Usable(Address, Prefix) \ Locals
    /\ \A i, j \in 1..Len(SubnetHosts) : SubnetHosts[i] = SubnetHosts[j] => i = j
<1>1. /\ SubnetHosts \in Seq(Nat) /\ Ascending(SubnetHosts)
      /\ Range(SubnetHosts) = Usable(Address, Prefix) \ Locals
  BY LocationAssumption, HostsListed DEF SubnetHosts
<1>2. Len(SubnetHosts) \in Nat /\ SubnetHosts \in [1..Len(SubnetHosts) -> Nat]
  BY <1>1, LenProperties
<1>3. ASSUME NEW i \in 1..Len(SubnetHosts), NEW j \in 1..Len(SubnetHosts), i # j
      PROVE  SubnetHosts[i] # SubnetHosts[j]
  <2>1. i < j \/ j < i
    BY <1>3
  <2>2. SubnetHosts[i] < SubnetHosts[j] \/ SubnetHosts[j] < SubnetHosts[i]
    BY <1>1, <2>1 DEF Ascending
  <2>3. SubnetHosts[i] \in Nat /\ SubnetHosts[j] \in Nat
    BY <1>2
  <2>4. QED BY <2>2, <2>3
<1>4. QED BY <1>1, <1>2, <1>3 DEF Range

(* Rows of n: a number is a row and a place in it,                           *)
Row(job, n) == ((job - 1) \div n) + 1
Place(job, n) == ((job - 1) % n) + 1

LEMMA RowAndPlace ==
    ASSUME NEW h \in Nat, NEW n \in Nat, NEW job \in 1..(h * n)
    PROVE  /\ Row(job, n) \in 1..h /\ Place(job, n) \in 1..n
           /\ job = (Row(job, n) - 1) * n + Place(job, n)
<1> DEFINE x == job - 1
           q == x \div n
           r == x % n
<1>1. n # 0
  OBVIOUS
<1>2. h * n \in Nat /\ x \in Nat /\ job = x + 1 /\ x < h * n
  OBVIOUS
<1> HIDE DEF x
<1>3. q \in Nat /\ r \in 0..(n - 1) /\ x = q * n + r
  BY <1>1, <1>2, DivMod
<1> HIDE DEF q, r
<1>4. q < h
  <2>1. ASSUME h <= q PROVE FALSE
    <3>1. h * n <= q * n /\ q * n \in Nat
      BY <1>3, <2>1, Monotone
    <3>2. QED BY <1>2, <1>3, <3>1
  <2>2. QED BY <1>3, <2>1
<1>5. q + 1 \in 1..h /\ r + 1 \in 1..n /\ job = q * n + r + 1
  <2>1. q * n \in Nat
    BY <1>3
  <2>2. QED BY <1>2, <1>3, <1>4, <2>1
<1>6. Row(job, n) = q + 1 /\ Place(job, n) = r + 1
  BY DEF Row, Place, q, r, x
<1>7. (Row(job, n) - 1) * n + Place(job, n) = q * n + (r + 1)
  <2>1. Row(job, n) - 1 = q
    BY <1>3, <1>6
  <2>2. QED BY <1>6, <2>1
<1>8. q * n \in Nat
  BY <1>3
<1>9. QED BY <1>3, <1>5, <1>6, <1>7, <1>8

(* and every row and place are those of a number.                            *)
LEMMA JobOf ==
    ASSUME NEW h \in Nat, NEW n \in Nat, NEW x \in 1..h, NEW y \in 1..n
    PROVE  \E job \in 1..(h * n) : Row(job, n) = x /\ Place(job, n) = y
<1> DEFINE base == (x - 1) * n
           job == base + y
<1>1. base \in Nat /\ base + n <= h * n
  <2>1. x * n <= h * n
    BY Monotone
  <2>2. x * n = (x - 1) * n + n /\ (x - 1) * n \in Nat
    OBVIOUS
  <2>3. QED BY <2>1, <2>2
<1>2. job \in 1..(h * n) /\ job - 1 \in Nat /\ job - 1 = (x - 1) * n + (y - 1)
  <2>1. h * n \in Nat
    OBVIOUS
  <2> HIDE DEF base
  <2>2. job \in 1..(h * n) /\ job - 1 \in Nat /\ job - 1 = base + (y - 1)
    BY <1>1, <2>1
  <2>3. QED BY <2>2 DEF base
<1> HIDE DEF job, base
<1>3. (job - 1) \div n = x - 1 /\ (job - 1) % n = y - 1
  <2>1. x - 1 \in Nat /\ y - 1 \in 0..(n - 1) /\ n \in Nat \ {0}
    OBVIOUS
  <2>2. QED BY <1>2, <2>1, DivUnique
<1>4. Row(job, n) = x /\ Place(job, n) = y
  BY <1>3 DEF Row, Place
<1>5. QED BY <1>2, <1>4

(* Each job has a host and a port of its own, and each pair of them its job.  *)
LEMMA TargetsOnce ==
    /\ {Target(j) : j \in Jobs} = (Usable(Address, Prefix) \ Locals) \X ScanPorts
    /\ \A j, k \in Jobs : Target(j) = Target(k) => j = k
<1> DEFINE h == Len(SubnetHosts)
           n == Len(PortList)
           row(job) == Row(job, n)
           place(job) == Place(job, n)
<1>1. Jobs = 1..(h * n)
  BY JobsAssumption DEF Jobs, AllJobs
<1>2. \A job \in Jobs : Target(job) = <<SubnetHosts[row(job)], PortList[place(job)]>>
  BY DEF Target, Row, Place
<1>3. h \in Nat /\ n \in Nat
  BY PortsListed, HostsOnce
<1> HIDE DEF h, n
<1>4. /\ \A job \in Jobs : row(job) \in 1..h /\ place(job) \in 1..n
      /\ \A j, k \in Jobs : row(j) = row(k) /\ place(j) = place(k) => j = k
      /\ \A x \in 1..h, y \in 1..n : \E job \in Jobs : row(job) = x /\ place(job) = y
  BY <1>1, <1>3, RowAndPlace, JobOf
<1> HIDE DEF row, place
<1>5. ASSUME NEW j \in Jobs, NEW k \in Jobs, Target(j) = Target(k) PROVE j = k
  <2>1. SubnetHosts[row(j)] = SubnetHosts[row(k)] /\ PortList[place(j)] = PortList[place(k)]
    BY <1>2, <1>5
  <2>2. row(j) \in 1..h /\ row(k) \in 1..h /\ place(j) \in 1..n /\ place(k) \in 1..n
    BY <1>4
  <2>3. row(j) = row(k)
    BY <2>1, <2>2, HostsOnce DEF h
  <2>4. place(j) = place(k)
    BY <2>1, <2>2, PortsListed DEF n, IsInjective
  <2>5. QED BY <1>4, <2>3, <2>4
<1>6. \A job \in Jobs : Target(job) \in Range(SubnetHosts) \X ScanPorts
  <2>1. SUFFICES ASSUME NEW job \in Jobs PROVE Target(job) \in Range(SubnetHosts) \X ScanPorts
    OBVIOUS
  <2>2. row(job) \in 1..h /\ place(job) \in 1..n
    BY <1>4
  <2>3. SubnetHosts[row(job)] \in Range(SubnetHosts) /\ PortList[place(job)] \in ScanPorts
    BY <2>2, HostsOnce, PortsListed DEF h, n
  <2>4. QED BY <1>2, <2>3
<1>7. ASSUME NEW host \in Range(SubnetHosts), NEW port \in ScanPorts
      PROVE  \E job \in Jobs : Target(job) = <<host, port>>
  <2>1. PICK x \in 1..h : SubnetHosts[x] = host
    BY HostsOnce DEF h
  <2>2. PICK y \in 1..n : PortList[y] = port
    BY PortsListed DEF n
  <2>3. PICK job \in Jobs : row(job) = x /\ place(job) = y
    BY <1>4
  <2>4. QED BY <1>2, <2>1, <2>2, <2>3
<1>8. {Target(j) : j \in Jobs} = Range(SubnetHosts) \X ScanPorts
  BY <1>6, <1>7
<1>9. QED BY <1>5, <1>8, HostsOnce

(* A scan that ends unstopped has tried every port of every usable address    *)
(* of its subnet but the machine's own, once each, and nothing else, whatever *)
(* the width of an address, the prefix (0, 31 and 32 included) and the ports. *)
THEOREM SubnetIsScanned == Spec => []SubnetScanned
<1>1. Cardinality(Jobs) = Cardinality({Target(j) : j \in Jobs})
  <2> DEFINE targets == {Target(j) : j \in Jobs}
             f == [j \in Jobs |-> Target(j)]
  <2>1. f \in Bijection(Jobs, targets)
    BY TargetsOnce DEF Bijection, Injection, Surjection, IsInjective
  <2>2. IsFiniteSet(Jobs)
    BY ScannerAssumption, FS_Interval DEF Jobs
  <2>3. Cardinality(Jobs) = Cardinality(targets)
    <3> HIDE DEF f, targets
    <3>1. ExistsBijection(Jobs, targets)
      BY <2>1 DEF ExistsBijection
    <3>2. QED BY <2>2, <3>1, FS_Bijection
  <2>4. QED BY <2>3
<1>2. EndMeansScanned => SubnetScanned
  BY <1>1, HostsAreExact, TargetsOnce DEF SubnetScanned
<1>3. QED BY <1>2, CompletionIsWhole, PTL
=============================================================================
