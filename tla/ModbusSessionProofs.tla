------------------------ MODULE ModbusSessionProofs -------------------------
(***************************************************************************)
(* Theorems about ModbusSession for every number of reads, transaction     *)
(* identifiers and faults.                                                 *)
(***************************************************************************)
EXTENDS ModbusSession, SequenceTheorems, TLAPS

-----------------------------------------------------------------------------
(* Sequences.                                                              *)

(* What popping the head of a sequence without repetitions leaves.         *)
LEMMA PopRange ==
    ASSUME NEW S, NEW s \in Seq(S), s # <<>>
    PROVE  /\ Head(s) \in S
           /\ Tail(s) \in Seq(S)
           /\ {Head(s)} \cup Range(Tail(s)) = Range(s)
           /\ IsInjective(s) => Head(s) \notin Range(Tail(s)) /\ IsInjective(Tail(s))
<1>1. /\ Head(s) \in S /\ Tail(s) \in Seq(S)
      /\ Len(Tail(s)) = Len(s) - 1
      /\ \A i \in 1..Len(Tail(s)) : Tail(s)[i] = s[i + 1]
  BY HeadTailProperties
<1>2. /\ DOMAIN s = 1..Len(s) /\ Len(s) \in Nat /\ Len(s) # 0
      /\ DOMAIN Tail(s) = 1..Len(Tail(s)) /\ Head(s) = s[1]
  BY <1>1, EmptySeq, LenProperties
<1>3. {Head(s)} \cup Range(Tail(s)) = Range(s)
  <2>1. ASSUME NEW x \in Range(s) PROVE x \in {Head(s)} \cup Range(Tail(s))
    <3>1. PICK i \in 1..Len(s) : x = s[i]
      BY <1>2 DEF Range
    <3>2. CASE i = 1
      BY <3>1, <3>2, <1>2
    <3>3. CASE i # 1
      <4>1. i - 1 \in 1..Len(Tail(s)) /\ Tail(s)[i - 1] = s[i]
        BY <3>3, <1>1, <1>2
      <4>2. QED BY <4>1, <3>1, <1>2 DEF Range
    <3>4. QED BY <3>2, <3>3
  <2>2. ASSUME NEW x \in {Head(s)} \cup Range(Tail(s)) PROVE x \in Range(s)
    BY <1>1, <1>2 DEF Range
  <2>3. QED BY <2>1, <2>2
<1>4. ASSUME IsInjective(s) PROVE Head(s) \notin Range(Tail(s)) /\ IsInjective(Tail(s))
  <2>1. \A a, b \in 1..Len(s) : s[a] = s[b] => a = b
    BY <1>4, <1>2 DEF IsInjective
  <2>2. Head(s) \notin Range(Tail(s))
    BY <2>1, <1>1, <1>2 DEF Range
  <2>3. IsInjective(Tail(s))
    BY <2>1, <1>1, <1>2 DEF IsInjective
  <2>4. QED BY <2>2, <2>3
<1>5. QED BY <1>1, <1>3, <1>4

(* What appending an element to a sequence adds.                           *)
LEMMA PushRange ==
    ASSUME NEW S, NEW s \in Seq(S), NEW e \in S
    PROVE  /\ Append(s, e) \in Seq(S)
           /\ Append(s, e) # <<>>
           /\ Range(Append(s, e)) = Range(s) \cup {e}
           /\ IsInjective(s) /\ e \notin Range(s) => IsInjective(Append(s, e))
<1>1. /\ Append(s, e) \in Seq(S) /\ Append(s, e) # <<>>
      /\ Len(Append(s, e)) = Len(s) + 1
      /\ \A i \in 1..Len(s) : Append(s, e)[i] = s[i]
      /\ Append(s, e)[Len(s) + 1] = e
  BY AppendProperties
<1>2. /\ DOMAIN s = 1..Len(s) /\ Len(s) \in Nat
      /\ DOMAIN Append(s, e) = 1..(Len(s) + 1)
  BY <1>1, LenProperties
<1>3. Range(Append(s, e)) = Range(s) \cup {e}
  BY <1>1, <1>2 DEF Range
<1>4. ASSUME IsInjective(s), e \notin Range(s) PROVE IsInjective(Append(s, e))
  <2>1. \A a, b \in 1..Len(s) : s[a] = s[b] => a = b
    BY <1>4, <1>2 DEF IsInjective
  <2>2. \A a \in 1..Len(s) : s[a] # e
    BY <1>4, <1>2 DEF Range
  <2>3. QED BY <2>1, <2>2, <1>1, <1>2 DEF IsInjective
<1>5. QED BY <1>1, <1>3, <1>4

-----------------------------------------------------------------------------
(* The inductive invariant.                                                *)

(* No read is held twice, and the active one has its transaction.           *)
HeldOnce == /\ IsInjective(queue) /\ active \notin Range(queue)
            /\ active # NoRead => activeTxn \in Transactions

IInv == /\ TypeOK
        /\ TimerCoversActive
        /\ ClosedHoldsNothing
        /\ HeldOnce
        /\ OneOutcome

(* A connection on which no request is running.                            *)
Resting(c) == /\ c \in Connections
              /\ ~c.closed /\ ~c.connecting /\ ~c.awaiting /\ c.timer = "none"

(* What is left of a set of reads once a callback has handled them: it      *)
(* holds them all, with out untouched, or has failed them all and closed.   *)
Settled(R, out) ==
    /\ session' \in Seq(Reads) \X (Reads \cup {NoRead}) \X (Transactions \cup {0})
                      \X Transactions \X Connections
    /\ outcomes' \in [Reads -> Nat]
    /\ atPeer' \in Seq(Requests)
    /\ TimerCoversActive' /\ ClosedHoldsNothing' /\ HeldOnce'
    /\ \/ Held' = R /\ outcomes' = out
       \/ Held' = {} /\ outcomes' = Ended(out, R)

LEMMA EndedType ==
    ASSUME NEW out \in [Reads -> Nat], NEW R
    PROVE  Ended(out, R) \in [Reads -> Nat]
BY DEF Ended

(* failAll settles the reads it is given.                                  *)
LEMMA FailAllSettles ==
    ASSUME TypeOK, NEW R, NEW out \in [Reads -> Nat], FailAll(R, out),
           activeTxn' \in Transactions \cup {0}, nextTxn' \in Transactions
    PROVE  Settled(R, out)
<1>1. /\ conn' = Closed /\ active' = NoRead /\ queue' = <<>>
      /\ outcomes' = Ended(out, R) /\ atPeer' = atPeer
  BY DEF FailAll
<1>2. Range(<<>>) = {} /\ IsInjective(<<>>) /\ <<>> \in Seq(Reads)
  BY DEF Range, IsInjective
<1>3. conn' \in Connections
  BY <1>1 DEF Closed, Connections
<1>4. Held' = {}
  BY <1>1, <1>2 DEF Held
<1>5. TimerCoversActive' /\ ClosedHoldsNothing' /\ HeldOnce'
  BY <1>1, <1>2, <1>4 DEF TimerCoversActive, ClosedHoldsNothing, HeldOnce, Closed
<1>6. QED
  BY <1>1, <1>2, <1>3, <1>4, <1>5, EndedType DEF Settled, session, TypeOK

(* sendActive settles the active read and the reads behind it.             *)
LEMMA SendActiveSettles ==
    ASSUME TypeOK, NEW r \in Reads, NEW t \in Transactions, NEW q \in Seq(Reads),
           NEW c, Resting(c), c.connected, NEW out \in [Reads -> Nat],
           IsInjective(q), r \notin Range(q), SendActive(r, t, q, c, out),
           activeTxn' \in Transactions, nextTxn' \in Transactions
    PROVE  Settled({r} \cup Range(q), out)
<1>1. CASE FailAll({r} \cup Range(q), out)
  BY <1>1, FailAllSettles
<1>2. CASE /\ conn' = [c EXCEPT !.awaiting = TRUE, !.timer = "response"]
           /\ active' = r /\ queue' = q /\ outcomes' = out
           /\ atPeer' = Append(atPeer, [req |-> r, txn |-> t])
  <2>1. conn' \in Connections /\ ~conn'.closed /\ conn'.connected /\ ~conn'.connecting
        /\ conn'.awaiting /\ conn'.timer = "response"
    BY <1>2 DEF Resting, Connections
  <2>2. atPeer' \in Seq(Requests)
    BY <1>2, AppendProperties DEF TypeOK, Requests
  <2>3. r # NoRead /\ Held' = {r} \cup Range(q)
    BY <1>2, SessionAssumption DEF Held, Reads, NoRead
  <2>4. TimerCoversActive' /\ ClosedHoldsNothing' /\ HeldOnce'
    BY <1>2, <2>1, <2>3 DEF TimerCoversActive, ClosedHoldsNothing, HeldOnce
  <2>5. QED BY <1>2, <2>1, <2>2, <2>3, <2>4 DEF Settled, session
<1>3. QED BY <1>1, <1>2 DEF SendActive

LEMMA StartConnectionSettles ==
    ASSUME TypeOK, NEW r \in Reads, NEW q \in Seq(Reads),
           NEW c, Resting(c), ~c.connected, NEW out \in [Reads -> Nat],
           IsInjective(q), r \notin Range(q), StartConnection(r, q, c, out),
           activeTxn' \in Transactions, nextTxn' \in Transactions
    PROVE  Settled({r} \cup Range(q), out)
<1>1. CASE FailAll({r} \cup Range(q), out)
  BY <1>1, FailAllSettles
<1>2. CASE /\ conn' = [c EXCEPT !.connecting = TRUE, !.timer = "connect"]
           /\ active' = r /\ queue' = q /\ outcomes' = out /\ atPeer' = atPeer
  <2>1. conn' \in Connections /\ ~conn'.closed /\ ~conn'.connected /\ conn'.connecting
        /\ ~conn'.awaiting /\ conn'.timer = "connect"
    BY <1>2 DEF Resting, Connections
  <2>2. r # NoRead /\ Held' = {r} \cup Range(q)
    BY <1>2, SessionAssumption DEF Held, Reads, NoRead
  <2>3. TimerCoversActive' /\ ClosedHoldsNothing' /\ HeldOnce'
    BY <1>2, <2>1, <2>2 DEF TimerCoversActive, ClosedHoldsNothing, HeldOnce
  <2>4. QED BY <1>2, <2>1, <2>2, <2>3 DEF Settled, session, TypeOK
<1>3. QED BY <1>1, <1>2 DEF StartConnection, Resting

(* startNext settles the queue it is given.                                *)
LEMMA StartNextSettles ==
    ASSUME TypeOK, NEW q \in Seq(Reads), NEW c, Resting(c),
           NEW out \in [Reads -> Nat], IsInjective(q), StartNext(q, c, out)
    PROVE  Settled(Range(q), out)
<1>1. CASE q = <<>>
  <2>1. /\ queue' = <<>> /\ active' = NoRead /\ conn' = c /\ outcomes' = out
        /\ activeTxn' = activeTxn /\ nextTxn' = nextTxn /\ atPeer' = atPeer
    BY <1>1 DEF StartNext
  <2>2. Range(<<>>) = {} /\ <<>> \in Seq(Reads)
    BY DEF Range
  <2>3. Held' = {}
    BY <2>1, <2>2 DEF Held
  <2>4. TimerCoversActive' /\ ClosedHoldsNothing' /\ HeldOnce'
    BY <1>1, <2>1, <2>2, <2>3
       DEF TimerCoversActive, ClosedHoldsNothing, HeldOnce, Resting
  <2>5. QED BY <1>1, <2>1, <2>2, <2>3, <2>4 DEF Settled, session, TypeOK, Resting
<1>2. CASE q # <<>>
  <2>1. /\ Head(q) \in Reads /\ Tail(q) \in Seq(Reads)
        /\ {Head(q)} \cup Range(Tail(q)) = Range(q)
        /\ Head(q) \notin Range(Tail(q)) /\ IsInjective(Tail(q))
    BY <1>2, PopRange
  <2>2. activeTxn' = nextTxn /\ nextTxn' = NextTransaction(nextTxn)
    BY <1>2 DEF StartNext
  <2>3. nextTxn \in Transactions /\ nextTxn' \in Transactions
    BY <2>2, SessionAssumption DEF TypeOK, Transactions, NextTransaction
  <2>4. CASE c.connected
    <3>1. SendActive(Head(q), nextTxn, Tail(q), c, out)
      BY <1>2, <2>4 DEF StartNext
    <3>2. Settled({Head(q)} \cup Range(Tail(q)), out)
      BY <2>1, <2>2, <2>3, <2>4, <3>1, SendActiveSettles
    <3>3. QED BY <3>2, <2>1
  <2>5. CASE ~c.connected
    <3>1. StartConnection(Head(q), Tail(q), c, out)
      BY <1>2, <2>5 DEF StartNext
    <3>2. Settled({Head(q)} \cup Range(Tail(q)), out)
      BY <2>1, <2>2, <2>3, <2>5, <3>1, StartConnectionSettles
    <3>3. QED BY <3>2, <2>1
  <2>6. QED BY <2>4, <2>5
<1>3. QED BY <1>1, <1>2

-----------------------------------------------------------------------------
(* The reads named by the tasks, and the reads whose observer has ended.    *)

DistinctTasks == \A i, j \in DOMAIN tasks : tasks[i].req = tasks[j].req => i = j

(* Running the first task takes its read out of the tasks.                 *)
LEMMA PopTask ==
    ASSUME tasks \in Seq(Tasks), tasks # <<>>, DistinctTasks, tasks' = Tail(tasks)
    PROVE  /\ tasks' \in Seq(Tasks) /\ DistinctTasks'
           /\ Head(tasks) \in Tasks
           /\ Head(tasks).req \in TaskReads(Head(tasks).op)
           /\ \A op : TaskReads(op)' = TaskReads(op) \ {Head(tasks).req}
           /\ \A op : Head(tasks).req \in TaskReads(op) => op = Head(tasks).op
<1>1. /\ Head(tasks) \in Tasks /\ tasks' \in Seq(Tasks)
      /\ Len(tasks') = Len(tasks) - 1
      /\ \A i \in 1..Len(tasks') : tasks'[i] = tasks[i + 1]
  BY HeadTailProperties
<1>2. /\ DOMAIN tasks = 1..Len(tasks) /\ Len(tasks) \in Nat /\ Len(tasks) # 0
      /\ DOMAIN tasks' = 1..Len(tasks') /\ Head(tasks) = tasks[1] /\ 1 \in DOMAIN tasks
  BY <1>1, EmptySeq, LenProperties
<1>3. DistinctTasks'
  BY <1>1, <1>2 DEF DistinctTasks
<1>4. ASSUME NEW op PROVE TaskReads(op)' = TaskReads(op) \ {Head(tasks).req}
  <2>1. ASSUME NEW r \in TaskReads(op)' PROVE r \in TaskReads(op) /\ r # Head(tasks).req
    <3>1. PICK i \in 1..Len(tasks') : tasks'[i].op = op /\ tasks'[i].req = r
      BY <1>2 DEF TaskReads
    <3>2. i + 1 \in DOMAIN tasks /\ i + 1 # 1 /\ tasks[i + 1] = tasks'[i]
      BY <1>1, <1>2
    <3>3. QED BY <3>1, <3>2, <1>2 DEF TaskReads, DistinctTasks
  <2>2. ASSUME NEW r \in TaskReads(op), r # Head(tasks).req PROVE r \in TaskReads(op)'
    <3>1. PICK i \in 1..Len(tasks) : tasks[i].op = op /\ tasks[i].req = r
      BY <1>2 DEF TaskReads
    <3>2. i - 1 \in DOMAIN tasks' /\ tasks'[i - 1] = tasks[i]
      BY <3>1, <2>2, <1>1, <1>2
    <3>3. QED BY <3>1, <3>2 DEF TaskReads
  <2>3. QED BY <2>1, <2>2
<1>5. ASSUME NEW op, Head(tasks).req \in TaskReads(op) PROVE op = Head(tasks).op
  BY <1>5, <1>2 DEF TaskReads, DistinctTasks
<1>6. Head(tasks).req \in TaskReads(Head(tasks).op)
  BY <1>2 DEF TaskReads
<1>7. QED BY <1>1, <1>3, <1>4, <1>5, <1>6

(* Posting a task adds its read.                                           *)
LEMMA PostTask ==
    ASSUME tasks \in Seq(Tasks), DistinctTasks, NEW t \in Tasks,
           \A op : t.req \notin TaskReads(op), tasks' = Append(tasks, t)
    PROVE  /\ tasks' \in Seq(Tasks) /\ DistinctTasks'
           /\ TaskReads(t.op)' = TaskReads(t.op) \cup {t.req}
           /\ \A op : op # t.op => TaskReads(op)' = TaskReads(op)
<1>1. /\ tasks' \in Seq(Tasks) /\ Len(tasks') = Len(tasks) + 1
      /\ \A i \in 1..Len(tasks) : tasks'[i] = tasks[i]
      /\ tasks'[Len(tasks) + 1] = t
  BY AppendProperties
<1>2. /\ DOMAIN tasks = 1..Len(tasks) /\ Len(tasks) \in Nat
      /\ DOMAIN tasks' = 1..(Len(tasks) + 1)
  BY <1>1, LenProperties
<1>3. \A i \in DOMAIN tasks : tasks[i].req # t.req
  BY DEF TaskReads
<1>4. DistinctTasks'
  BY <1>1, <1>2, <1>3 DEF DistinctTasks
<1>5. TaskReads(t.op)' = TaskReads(t.op) \cup {t.req}
  BY <1>1, <1>2 DEF TaskReads
<1>6. ASSUME NEW op, op # t.op PROVE TaskReads(op)' = TaskReads(op)
  BY <1>1, <1>2, <1>6 DEF TaskReads
<1>7. QED BY <1>1, <1>4, <1>5, <1>6

(* Ending reads that had not ended keeps one outcome each.                  *)
LEMMA EndReads ==
    ASSUME outcomes \in [Reads -> Nat], \A r \in Reads : outcomes[r] <= 1,
           NEW E \in SUBSET Reads, E \cap Over = {}, outcomes' = Ended(outcomes, E)
    PROVE  /\ outcomes' \in [Reads -> Nat]
           /\ \A r \in Reads : outcomes'[r] <= 1
           /\ Over' = Over \cup E
BY DEF Over, Ended

(* The same for one read.                                                  *)
LEMMA EndRead ==
    ASSUME outcomes \in [Reads -> Nat], \A r \in Reads : outcomes[r] <= 1,
           NEW e \in Reads, e \notin Over, outcomes' = Ended(outcomes, {e})
    PROVE  /\ outcomes' \in [Reads -> Nat]
           /\ \A r \in Reads : outcomes'[r] <= 1
           /\ Over' = Over \cup {e}
<1>1. {e} \in SUBSET Reads /\ {e} \cap Over = {}
  OBVIOUS
<1>2. QED BY <1>1, EndReads

LEMMA TaskReadsAreReads ==
    ASSUME tasks \in Seq(Tasks), NEW op
    PROVE  TaskReads(op) \subseteq Reads
<1>1. \A i \in DOMAIN tasks : tasks[i] \in Tasks
  BY ElementOfSeq, LenProperties
<1>2. QED BY <1>1 DEF TaskReads, Tasks

-----------------------------------------------------------------------------
(* The initial states, and the callbacks one by one.                       *)

LEMMA InitIInv == Init => IInv
<1> SUFFICES ASSUME Init PROVE IInv
  OBVIOUS
<1> USE SessionAssumption
<1>1. Range(<<>>) = {} /\ IsInjective(<<>>)
  BY DEF Range, IsInjective
<1>2. TypeOK
  BY DEF Init, TypeOK, Connections, Transactions
<1>3. Held = {} /\ \A op : TaskReads(op) = {}
  BY <1>1 DEF Init, Held, TaskReads
<1>4. Submitted = {} /\ Over = {}
  BY DEF Init, Submitted, Over
<1>5. OneOutcome
  BY <1>3, <1>4 DEF Init, OneOutcome, Waiting, Answered
<1>6. TimerCoversActive /\ ClosedHoldsNothing /\ HeldOnce
  BY <1>1 DEF Init, TimerCoversActive, ClosedHoldsNothing, HeldOnce
<1>7. QED BY <1>2, <1>5, <1>6 DEF IInv

(* A callback that only changes how the held reads stand, by settling H     *)
(* after ending E, preserves the accounting of the reads.                  *)
LEMMA SettledAccounting ==
    ASSUME IInv, NEW E \in SUBSET Reads, NEW H \in SUBSET Reads,
           Held = E \cup H, E \cap H = {},
           Settled(H, Ended(outcomes, E)),
           UNCHANGED <<submitted, tasks>>
    PROVE  OneOutcome'
<1>1. /\ \A r \in Reads : outcomes[r] <= 1
      /\ outcomes \in [Reads -> Nat]
      /\ Submitted = Waiting \cup Held \cup Answered \cup Over
      /\ Waiting \cap (Held \cup Answered \cup Over) = {}
      /\ Held \cap (Answered \cup Over) = {}
      /\ Answered \cap Over = {}
      /\ \A i, j \in DOMAIN tasks : tasks[i].req = tasks[j].req => i = j
  BY DEF IInv, OneOutcome, TypeOK
<1>2. \A op : TaskReads(op)' = TaskReads(op)
  BY DEF TaskReads
<1>3. Waiting' = Waiting /\ Answered' = Answered /\ Submitted' = Submitted
  BY <1>2 DEF Waiting, Answered, Submitted
<1>4. CASE Held' = H /\ outcomes' = Ended(outcomes, E)
  <2>1. (\A r \in Reads : outcomes'[r] <= 1) /\ Over' = Over \cup E
    BY <1>1, <1>4, EndReads
  <2>2. QED BY <1>1, <1>3, <1>4, <2>1 DEF OneOutcome
<1>5. CASE Held' = {} /\ outcomes' = Ended(Ended(outcomes, E), H)
  <2>1. outcomes' = Ended(outcomes, E \cup H)
    BY <1>1, <1>5 DEF Ended
  <2>2. E \cup H \in SUBSET Reads /\ (E \cup H) \cap Over = {}
    BY <1>1
  <2>3. (\A r \in Reads : outcomes'[r] <= 1) /\ Over' = Over \cup (E \cup H)
    BY <1>1, <2>1, <2>2, EndReads
  <2>4. QED BY <1>1, <1>3, <1>5, <2>3 DEF OneOutcome
<1>6. QED BY <1>4, <1>5 DEF Settled

(* The accounting facts of the invariant, by name.                         *)
LEMMA Accounts ==
    ASSUME IInv
    PROVE  /\ \A r \in Reads : outcomes[r] <= 1
           /\ Submitted = Waiting \cup Held \cup Answered \cup Over
           /\ Waiting \cap (Held \cup Answered \cup Over) = {}
           /\ Held \cap (Answered \cup Over) = {}
           /\ Answered \cap Over = {}
           /\ DistinctTasks
           /\ Held \in SUBSET Reads /\ NoRead \notin Held
           /\ \A op : TaskReads(op) \subseteq Reads
           /\ \A r \in Reads : Ended(outcomes, {})[r] = outcomes[r]
           /\ Ended(outcomes, {}) = outcomes
<1>1. NoRead \notin Reads
  BY SessionAssumption DEF Reads, NoRead
<1>2. Held \in SUBSET Reads
  BY <1>1, RangeOfSeq DEF IInv, TypeOK, Held, Range
<1>3. Ended(outcomes, {}) = outcomes
  BY DEF Ended, IInv, TypeOK
<1>4. \A op : TaskReads(op) \subseteq Reads
  BY TaskReadsAreReads DEF IInv, TypeOK
<1>5. QED BY <1>1, <1>2, <1>3, <1>4 DEF IInv, OneOutcome, DistinctTasks

(* Every task is one of the three kinds.                                   *)
LEMMA KnownTasks ==
    ASSUME IInv, NEW op
    PROVE  TaskReads(op) \subseteq Waiting \cup Answered
<1>1. \A i \in DOMAIN tasks : tasks[i] \in Tasks
  BY ElementOfSeq, LenProperties DEF IInv, TypeOK
<1>2. \A i \in DOMAIN tasks : tasks[i].op \in {"enqueue", "invalid", "success"}
  BY <1>1 DEF Tasks
<1>3. QED BY <1>2 DEF TaskReads, Waiting, Answered

LEMMA SubmitIInv == IInv /\ Submit => IInv'
<1> SUFFICES ASSUME IInv, Submit PROVE IInv'
  OBVIOUS
<1> USE SessionAssumption
<1>1. PICK r, t :
        /\ r = submitted + 1
        /\ t = Task(IF r \in InvalidReads THEN "invalid" ELSE "enqueue", r, NoRead)
  OBVIOUS
<1>2. /\ submitted < MaxReads /\ submitted' = r /\ tasks' = Append(tasks, t)
      /\ UNCHANGED <<session, outcomes, received, atPeer, toClient, faults>>
  BY <1>1 DEF Submit
<1>3. r \in Reads /\ submitted' \in 0..MaxReads /\ Submitted' = Submitted \cup {r} /\ r \notin Submitted
  BY <1>1, <1>2 DEF IInv, TypeOK, Reads, Submitted
<1>4. t \in Tasks /\ t.req = r /\ t.op \in {"enqueue", "invalid"}
  BY <1>1, <1>3 DEF Task, Tasks
<1>5. r \notin Waiting /\ r \notin Held /\ r \notin Answered /\ r \notin Over
  BY <1>3, Accounts
<1>6. \A op : t.req \notin TaskReads(op)
  BY <1>4, <1>5, KnownTasks
<1>7. /\ tasks' \in Seq(Tasks) /\ DistinctTasks'
      /\ Waiting' = Waiting \cup {r} /\ Answered' = Answered
  <2>1. tasks \in Seq(Tasks) /\ DistinctTasks
    BY Accounts DEF IInv, TypeOK
  <2>2. /\ tasks' \in Seq(Tasks) /\ DistinctTasks'
        /\ TaskReads(t.op)' = TaskReads(t.op) \cup {t.req}
        /\ \A op : op # t.op => TaskReads(op)' = TaskReads(op)
    BY <1>2, <1>4, <1>6, <2>1, PostTask
  <2>3. QED BY <2>2, <1>4 DEF Waiting, Answered
<1>8. Held' = Held /\ Over' = Over
  BY <1>2 DEF Held, Over, session
<1>9. TypeOK'
  BY <1>2, <1>3, <1>7 DEF IInv, TypeOK, session
<1>10. TimerCoversActive' /\ ClosedHoldsNothing' /\ HeldOnce'
  BY <1>2, <1>8 DEF IInv, TimerCoversActive, ClosedHoldsNothing, HeldOnce, session
<1>11. OneOutcome'
  BY <1>2, <1>3, <1>5, <1>7, <1>8, Accounts DEF OneOutcome, DistinctTasks
<1>12. QED BY <1>9, <1>10, <1>11 DEF IInv

(* Running the first task, whatever it does to the other variables.         *)
LEMMA RunsTask ==
    ASSUME IInv, tasks # <<>>, tasks' = Tail(tasks), NEW r, r = Head(tasks).req
    PROVE  /\ tasks' \in Seq(Tasks) /\ DistinctTasks'
           /\ r \in Reads
           /\ Waiting' = Waiting \ {r} /\ Answered' = Answered \ {r}
           /\ Head(tasks).op \in {"enqueue", "invalid"} => r \in Waiting
           /\ Head(tasks).op = "success" => r \in Answered
           /\ r \notin Held /\ r \notin Over
<1>1. tasks \in Seq(Tasks) /\ DistinctTasks
  BY Accounts DEF IInv, TypeOK
<1>2. /\ tasks' \in Seq(Tasks) /\ DistinctTasks' /\ Head(tasks) \in Tasks
      /\ r \in TaskReads(Head(tasks).op)
      /\ \A op : TaskReads(op)' = TaskReads(op) \ {r}
  BY <1>1, PopTask
<1>3. r \in Reads /\ r \in Waiting \cup Answered
  BY <1>2, KnownTasks, Accounts
<1>4. Waiting' = Waiting \ {r} /\ Answered' = Answered \ {r}
  BY <1>2 DEF Waiting, Answered
<1>5. QED BY <1>2, <1>3, <1>4, Accounts DEF Waiting, Answered

LEMMA EnqueueInLoopIInv == IInv /\ EnqueueInLoop => IInv'
<1> SUFFICES ASSUME IInv, EnqueueInLoop PROVE IInv'
  OBVIOUS
<1> USE SessionAssumption
<1>1. PICK r : r = Head(tasks).req
  OBVIOUS
<1>2. /\ tasks # <<>> /\ Head(tasks).op = "enqueue" /\ tasks' = Tail(tasks)
      /\ UNCHANGED <<submitted, received, toClient, faults>>
  BY DEF EnqueueInLoop
<1>3. /\ tasks' \in Seq(Tasks) /\ DistinctTasks' /\ r \in Reads
      /\ Waiting' = Waiting \ {r} /\ Answered' = Answered \ {r}
      /\ r \in Waiting /\ r \notin Held /\ r \notin Over
  BY <1>1, <1>2, RunsTask
<1>4. Submitted' = Submitted
  BY <1>2 DEF Submitted
<1>5. outcomes \in [Reads -> Nat]
  BY DEF IInv, TypeOK
<1>6. CASE /\ conn.closed /\ outcomes' = Ended(outcomes, {r})
           /\ UNCHANGED <<session, atPeer>>
  <2>1. outcomes' \in [Reads -> Nat] /\ (\A x \in Reads : outcomes'[x] <= 1) /\ Over' = Over \cup {r}
    BY <1>3, <1>5, <1>6, Accounts, EndRead
  <2>2. Held' = Held
    BY <1>6 DEF Held, session
  <2>3. TypeOK'
    BY <1>2, <1>3, <1>6, <2>1 DEF IInv, TypeOK, session
  <2>4. TimerCoversActive' /\ ClosedHoldsNothing' /\ HeldOnce'
    BY <1>6, <2>2 DEF IInv, TimerCoversActive, ClosedHoldsNothing, HeldOnce, session
  <2>5. OneOutcome'
    BY <1>3, <1>4, <2>1, <2>2, Accounts DEF OneOutcome, DistinctTasks
  <2>6. QED BY <2>3, <2>4, <2>5 DEF IInv
<1>7. CASE /\ ~conn.closed /\ active # NoRead /\ queue' = Append(queue, r)
           /\ UNCHANGED <<active, activeTxn, nextTxn, conn, outcomes, atPeer>>
  <2>1. queue \in Seq(Reads) /\ IsInjective(queue) /\ active \notin Range(queue)
        /\ r \notin Range(queue) /\ r # active
    BY <1>3, <1>7 DEF IInv, TypeOK, HeldOnce, Held
  <2>2. queue' \in Seq(Reads) /\ IsInjective(queue') /\ Range(queue') = Range(queue) \cup {r}
    BY <1>3, <1>7, <2>1, PushRange
  <2>3. Held' = Held \cup {r}
    BY <1>7, <2>2 DEF Held
  <2>4. Over' = Over
    BY <1>7 DEF Over
  <2>5. TypeOK'
    BY <1>2, <1>3, <1>7, <2>2 DEF IInv, TypeOK
  <2>6. TimerCoversActive' /\ ClosedHoldsNothing' /\ HeldOnce'
    BY <1>7, <2>1, <2>2 DEF IInv, TimerCoversActive, ClosedHoldsNothing, HeldOnce
  <2>7. OneOutcome'
    BY <1>3, <1>4, <1>7, <2>3, <2>4, Accounts DEF OneOutcome, DistinctTasks
  <2>8. QED BY <2>5, <2>6, <2>7 DEF IInv
<1>8. CASE ~conn.closed /\ active = NoRead /\ StartNext(Append(queue, r), conn, outcomes)
  <2>1. queue = <<>> /\ Resting(conn)
    BY <1>8 DEF IInv, TypeOK, TimerCoversActive, Resting
  <2>2. Range(<<>>) = {} /\ IsInjective(<<>>) /\ <<>> \in Seq(Reads)
    BY DEF Range, IsInjective
  <2>3. Held = {}
    BY <1>8, <2>1, <2>2 DEF Held
  <2>4. PICK q : q = Append(queue, r)
    OBVIOUS
  <2>5. q \in Seq(Reads) /\ IsInjective(q) /\ Range(q) = {r}
    <3>1. queue \in Seq(Reads) /\ IsInjective(queue) /\ Range(queue) = {} /\ r \notin Range(queue)
      BY <2>1, <2>2
    <3>2. q \in Seq(Reads) /\ IsInjective(q) /\ Range(q) = Range(queue) \cup {r}
      BY <1>3, <2>4, <3>1, PushRange
    <3>3. QED BY <3>1, <3>2
  <2>6. Settled({r}, outcomes)
    BY <1>5, <1>8, <2>1, <2>4, <2>5, StartNextSettles DEF IInv
  <2>7. TypeOK'
    BY <1>2, <1>3, <2>6 DEF Settled, session, IInv, TypeOK
  <2>8. OneOutcome'
    <3>1. CASE Held' = {r} /\ outcomes' = outcomes
      <4>1. Over' = Over /\ \A x \in Reads : outcomes'[x] <= 1
        BY <3>1, Accounts DEF Over
      <4>2. Held' = {r}
        BY <3>1
      <4>3. Answered' = Answered /\ r \notin Answered
        BY <1>3, Accounts
      <4>4. Submitted' = Waiting' \cup Held' \cup Answered' \cup Over'
        BY <1>3, <1>4, <2>3, <4>1, <4>2, <4>3, Accounts
      <4>5. Waiting' \cap (Held' \cup Answered' \cup Over') = {}
        BY <1>3, <4>1, <4>2, <4>3, Accounts
      <4>6. Held' \cap (Answered' \cup Over') = {}
        BY <1>3, <4>1, <4>2, <4>3
      <4>7. Answered' \cap Over' = {}
        BY <4>1, <4>3, Accounts
      <4>8. QED BY <1>3, <4>1, <4>4, <4>5, <4>6, <4>7 DEF OneOutcome, DistinctTasks
    <3>2. CASE Held' = {} /\ outcomes' = Ended(outcomes, {r})
      <4>1. (\A x \in Reads : outcomes'[x] <= 1) /\ Over' = Over \cup {r}
        BY <1>3, <1>5, <3>2, Accounts, EndRead
      <4>2. Answered' = Answered /\ r \notin Answered
        BY <1>3, Accounts
      <4>3. Submitted' = Waiting' \cup Held' \cup Answered' \cup Over'
        BY <1>3, <1>4, <2>3, <3>2, <4>1, <4>2, Accounts
      <4>4. Waiting' \cap (Held' \cup Answered' \cup Over') = {}
        BY <1>3, <3>2, <4>1, <4>2, Accounts
      <4>5. Held' \cap (Answered' \cup Over') = {}
        BY <3>2
      <4>6. Answered' \cap Over' = {}
        BY <4>1, <4>2, Accounts
      <4>7. QED BY <1>3, <4>1, <4>3, <4>4, <4>5, <4>6 DEF OneOutcome, DistinctTasks
    <3>3. QED BY <2>6, <3>1, <3>2 DEF Settled
  <2>9. QED BY <2>6, <2>7, <2>8 DEF Settled, IInv
<1>9. QED BY <1>1, <1>6, <1>7, <1>8 DEF EnqueueInLoop

(* The tasks that only end the observer of the read they name.             *)
LEMMA EndingTaskIInv ==
    ASSUME IInv, tasks # <<>>, tasks' = Tail(tasks),
           outcomes' = Ended(outcomes, {Head(tasks).req}),
           received' \in [Reads -> Reads \cup {NoRead}],
           UNCHANGED <<submitted, session, atPeer, toClient, faults>>
    PROVE  IInv'
<1>1. PICK r : r = Head(tasks).req
  OBVIOUS
<1>2. /\ tasks' \in Seq(Tasks) /\ DistinctTasks' /\ r \in Reads
      /\ Waiting' = Waiting \ {r} /\ Answered' = Answered \ {r}
      /\ r \notin Held /\ r \notin Over
  BY <1>1, RunsTask
<1>3. outcomes \in [Reads -> Nat]
  BY DEF IInv, TypeOK
<1>4. /\ outcomes' \in [Reads -> Nat] /\ (\A x \in Reads : outcomes'[x] <= 1)
      /\ Over' = Over \cup {r}
  BY <1>1, <1>2, <1>3, Accounts, EndRead
<1>5. Held' = Held /\ Submitted' = Submitted
  BY DEF Held, session, Submitted
<1>6. TypeOK'
  BY <1>2, <1>4 DEF IInv, TypeOK, session
<1>7. TimerCoversActive' /\ ClosedHoldsNothing' /\ HeldOnce'
  BY <1>5 DEF IInv, TimerCoversActive, ClosedHoldsNothing, HeldOnce, session
<1>8. r \in Waiting \cup Answered
  BY <1>1, <1>2, RunsTask, KnownTasks, PopTask, Accounts DEF IInv, TypeOK
<1>9. OneOutcome'
  <2>1. Submitted' = Waiting' \cup Held' \cup Answered' \cup Over'
    BY <1>2, <1>4, <1>5, <1>8, Accounts
  <2>2. Waiting' \cap (Held' \cup Answered' \cup Over') = {}
    BY <1>2, <1>4, <1>5, Accounts
  <2>3. Held' \cap (Answered' \cup Over') = {}
    BY <1>2, <1>4, <1>5, Accounts
  <2>4. Answered' \cap Over' = {}
    BY <1>2, <1>4, Accounts
  <2>5. QED BY <1>2, <1>4, <2>1, <2>2, <2>3, <2>4 DEF OneOutcome, DistinctTasks
<1>10. QED BY <1>6, <1>7, <1>9 DEF IInv

LEMMA RefuseCountIInv == IInv /\ RefuseCount => IInv'
<1> SUFFICES ASSUME IInv, RefuseCount PROVE IInv'
  OBVIOUS
<1>1. received' \in [Reads -> Reads \cup {NoRead}]
  BY DEF RefuseCount, IInv, TypeOK
<1>2. QED BY <1>1, EndingTaskIInv DEF RefuseCount

LEMMA DeliverSuccessIInv == IInv /\ DeliverSuccess => IInv'
<1> SUFFICES ASSUME IInv, DeliverSuccess PROVE IInv'
  OBVIOUS
<1>1. Head(tasks) \in Tasks
  BY PopRange DEF DeliverSuccess, IInv, TypeOK
<1>2. received' \in [Reads -> Reads \cup {NoRead}]
  BY <1>1 DEF DeliverSuccess, IInv, TypeOK, Tasks
<1>3. QED BY <1>2, EndingTaskIInv DEF DeliverSuccess

(* Settling what is held, as the connection and timer callbacks do.         *)
LEMMA SettledIInv ==
    ASSUME IInv, Settled(Held, outcomes),
           UNCHANGED <<submitted, tasks, received, faults>>, toClient' \in Seq(Frames)
    PROVE  IInv'
<1>1. Held \in SUBSET Reads /\ Ended(outcomes, {}) = outcomes
  BY Accounts
<1>2. Held = {} \cup Held /\ {} \cap Held = {} /\ {} \in SUBSET Reads
  OBVIOUS
<1>3. OneOutcome'
  BY <1>1, <1>2, SettledAccounting
<1>4. TypeOK'
  BY DEF Settled, session, IInv, TypeOK
<1>5. QED BY <1>3, <1>4 DEF Settled, IInv

LEMMA FailHeldIInv ==
    ASSUME IInv, FailAll(Held, outcomes),
           UNCHANGED <<submitted, tasks, activeTxn, nextTxn, received, toClient, faults>>
    PROVE  IInv'
<1>1. Settled(Held, outcomes)
  BY FailAllSettles DEF IInv, TypeOK
<1>2. QED BY <1>1, SettledIInv DEF IInv, TypeOK

LEMMA OnConnectedIInv == IInv /\ OnConnected => IInv'
<1> SUFFICES ASSUME IInv, OnConnected PROVE IInv'
  OBVIOUS
<1>1. PICK c : c = [conn EXCEPT !.connecting = FALSE, !.connected = TRUE, !.timer = "none"]
  OBVIOUS
<1>2. /\ conn.connecting /\ ~conn.closed
      /\ UNCHANGED <<submitted, tasks, activeTxn, nextTxn, received, toClient, faults>>
  BY DEF OnConnected
<1>3. active # NoRead /\ active \in Reads /\ ~conn.connected /\ ~conn.awaiting
  BY <1>2 DEF IInv, TypeOK, TimerCoversActive
<1>4. SendActive(active, activeTxn, queue, c, outcomes)
  BY <1>1, <1>3 DEF OnConnected
<1>5. Resting(c) /\ c.connected
  BY <1>1, <1>2, <1>3 DEF IInv, TypeOK, Connections, Resting
<1>6. HeldOnce /\ activeTxn \in Transactions /\ queue \in Seq(Reads)
      /\ nextTxn \in Transactions /\ outcomes \in [Reads -> Nat]
  BY <1>3 DEF IInv, HeldOnce, TypeOK
<1>7. Settled({active} \cup Range(queue), outcomes)
  BY <1>2, <1>3, <1>4, <1>5, <1>6, SendActiveSettles DEF IInv, HeldOnce
<1>8. Held = {active} \cup Range(queue)
  BY <1>3 DEF Held
<1>9. QED BY <1>2, <1>7, <1>8, SettledIInv DEF IInv, TypeOK

LEMMA OnDisconnectedIInv == IInv /\ OnDisconnected => IInv'
<1> SUFFICES ASSUME IInv, OnDisconnected PROVE IInv'
  OBVIOUS
<1>1. conn.connected \/ active # NoRead
  BY DEF OnDisconnected, IInv, TimerCoversActive
<1>2. QED BY <1>1, FailHeldIInv DEF OnDisconnected

LEMMA OnConnectTimeoutIInv == IInv /\ OnConnectTimeout => IInv'
<1> SUFFICES ASSUME IInv, OnConnectTimeout PROVE IInv'
  OBVIOUS
<1>1. ~conn.closed /\ conn.connecting
  BY DEF OnConnectTimeout, IInv, TimerCoversActive, ClosedHoldsNothing, Closed
<1>2. QED BY <1>1, FailHeldIInv DEF OnConnectTimeout

LEMMA OnResponseTimeoutIInv == IInv /\ OnResponseTimeout => IInv'
<1> SUFFICES ASSUME IInv, OnResponseTimeout PROVE IInv'
  OBVIOUS
<1>1. ~conn.closed /\ active # NoRead /\ conn.awaiting
  BY DEF OnResponseTimeout, IInv, TimerCoversActive, ClosedHoldsNothing, Closed
<1>2. QED BY <1>1, FailHeldIInv DEF OnResponseTimeout

LEMMA CloseInLoopIInv == IInv /\ CloseInLoop => IInv'
BY FailHeldIInv DEF CloseInLoop

(* The peer touches neither the session nor the tasks.                     *)
LEMMA PeerIInv == IInv /\ (PeerAnswers \/ PeerMisbehaves) => IInv'
<1> SUFFICES ASSUME IInv, PeerAnswers \/ PeerMisbehaves PROVE IInv'
  OBVIOUS
<1>1. UNCHANGED <<submitted, tasks, session, outcomes, received>>
  BY DEF PeerAnswers, PeerMisbehaves
<1>2. atPeer # <<>> => Head(atPeer) \in Requests /\ Tail(atPeer) \in Seq(Requests)
  BY HeadTailProperties DEF IInv, TypeOK
<1>3. atPeer' \in Seq(Requests) /\ toClient' \in Seq(Frames) /\ faults' \in 0..MaxFaults
  <2>1. CASE PeerAnswers
    <3>1. PICK kind \in {"registers", "refused"} :
            toClient' = Append(toClient, Frame(kind, Head(atPeer).req, Head(atPeer).txn))
      BY <2>1 DEF PeerAnswers
    <3>2. Frame(kind, Head(atPeer).req, Head(atPeer).txn) \in Frames
      BY <1>2, <2>1 DEF PeerAnswers, Frame, Frames, Requests
    <3>3. toClient' \in Seq(Frames)
      BY <3>1, <3>2, AppendProperties DEF IInv, TypeOK
    <3>4. QED BY <1>2, <2>1, <3>3 DEF PeerAnswers, IInv, TypeOK
  <2>2. CASE PeerMisbehaves
    <3>1. PICK f : toClient' = Append(toClient, f) /\ f \in Frames
      BY <1>2, <2>2 DEF PeerMisbehaves, Frame, Frames, Requests
    <3>2. toClient' \in Seq(Frames)
      BY <3>1, AppendProperties DEF IInv, TypeOK
    <3>3. QED BY <2>2, <3>2, SessionAssumption DEF PeerMisbehaves, IInv, TypeOK
  <2>3. QED BY <2>1, <2>2
<1>4. TypeOK'
  BY <1>1, <1>3 DEF IInv, TypeOK, session
<1>5. Held' = Held /\ (\A op : TaskReads(op)' = TaskReads(op)) /\ Over' = Over /\ Submitted' = Submitted
  BY <1>1 DEF Held, TaskReads, Over, Submitted, session
<1>6. OneOutcome'
  BY <1>1, <1>5 DEF IInv, OneOutcome, Waiting, Answered
<1>7. TimerCoversActive' /\ ClosedHoldsNothing' /\ HeldOnce'
  BY <1>1, <1>5 DEF IInv, TimerCoversActive, ClosedHoldsNothing, HeldOnce, session
<1>8. QED BY <1>4, <1>6, <1>7 DEF IInv

LEMMA OnFrameIInv == IInv /\ OnFrame => IInv'
<1> SUFFICES ASSUME IInv, OnFrame PROVE IInv'
  OBVIOUS
<1>1. /\ toClient # <<>> /\ conn.connected /\ ~conn.closed
      /\ UNCHANGED <<submitted, received, faults>>
  BY DEF OnFrame
<1>2. Head(toClient) \in Frames /\ toClient \in Seq(Frames)
  BY <1>1, HeadTailProperties DEF IInv, TypeOK
<1>3. toClient' \in Seq(Frames)
  <2>1. PICK k \in 1..Len(toClient) : toClient' = SubSeq(toClient, k + 1, Len(toClient))
    BY DEF OnFrame
  <2>2. Len(toClient) \in Nat /\ \A i \in 1..Len(toClient) : toClient[i] \in Frames
    BY <1>2, LenProperties, ElementOfSeq
  <2>3. \A i \in (k + 1)..Len(toClient) : toClient[i] \in Frames
    BY <2>1, <2>2
  <2>4. QED BY <2>1, <2>2, <2>3, SubSeqProperties
<1>4. CASE active = NoRead /\ UNCHANGED <<session, tasks, outcomes, atPeer>>
  <2>1. Held' = Held /\ (\A op : TaskReads(op)' = TaskReads(op)) /\ Over' = Over /\ Submitted' = Submitted
    BY <1>1, <1>4 DEF Held, TaskReads, Over, Submitted, session
  <2>2. OneOutcome'
    BY <1>4, <2>1 DEF IInv, OneOutcome, Waiting, Answered
  <2>3. TypeOK'
    BY <1>1, <1>3, <1>4 DEF IInv, TypeOK, session
  <2>4. TimerCoversActive' /\ ClosedHoldsNothing' /\ HeldOnce'
    BY <1>4, <2>1 DEF IInv, TimerCoversActive, ClosedHoldsNothing, HeldOnce, session
  <2>5. QED BY <2>2, <2>3, <2>4 DEF IInv
<1>5. ASSUME active # NoRead
      PROVE  /\ active \in Reads /\ Resting(Idle(conn)) /\ queue \in Seq(Reads)
             /\ IsInjective(queue) /\ active \notin Range(queue)
             /\ Held = {active} \cup Range(queue) /\ Range(queue) \in SUBSET Reads
             /\ outcomes \in [Reads -> Nat]
  <2>1. active \in Reads /\ Held = {active} \cup Range(queue) /\ Range(queue) \in SUBSET Reads
    BY <1>5, Accounts DEF IInv, TypeOK, Held
  <2>2. conn \in Connections /\ ~conn.closed /\ ~conn.connecting
    BY <1>1, <1>5 DEF IInv, TypeOK, TimerCoversActive
  <2>3. Resting(Idle(conn))
    BY <2>2 DEF Resting, Idle, Connections
  <2>4. QED BY <2>1, <2>3 DEF IInv, TypeOK, HeldOnce
<1>6. CASE active # NoRead /\ FinishActiveError /\ UNCHANGED tasks
  <2>1. PICK E, H : E = {active} /\ H = Range(queue)
    OBVIOUS
  <2>2. E \in SUBSET Reads /\ H \in SUBSET Reads /\ Held = E \cup H /\ E \cap H = {}
    BY <1>5, <1>6, <2>1
  <2>3. PICK out : out = Ended(outcomes, E)
    OBVIOUS
  <2>4. out \in [Reads -> Nat]
    BY <1>5, <1>6, <2>3, EndedType
  <2>5. Settled(H, out)
    <3>1. CASE StartNext(queue, Idle(conn), out)
      BY <1>5, <1>6, <2>1, <2>4, <3>1, StartNextSettles DEF IInv
    <3>2. CASE FailAll(Range(queue), out) /\ UNCHANGED <<activeTxn, nextTxn>>
      BY <2>1, <2>4, <3>2, FailAllSettles DEF IInv, TypeOK
    <3>3. QED BY <1>6, <2>1, <2>3, <3>1, <3>2 DEF FinishActiveError
  <2>6. OneOutcome'
    BY <1>1, <1>6, <2>2, <2>3, <2>5, SettledAccounting
  <2>7. TypeOK'
    BY <1>1, <1>3, <1>6, <2>5 DEF Settled, session, IInv, TypeOK
  <2>8. QED BY <2>5, <2>6, <2>7 DEF Settled, IInv
<1>7. CASE active # NoRead /\ FinishActiveSuccess(Head(toClient).req)
  <2>1. PICK r, t, H : r = active /\ t = Task("success", r, Head(toClient).req) /\ H = Range(queue)
    OBVIOUS
  <2>2. r \in Reads /\ t \in Tasks /\ t.req = r /\ t.op = "success"
    BY <1>2, <1>5, <1>7, <2>1 DEF Task, Tasks, Frames
  <2>3. r \in Held /\ Held = {r} \cup H /\ r \notin H
    BY <1>5, <1>7, <2>1
  <2>4. \A op : t.req \notin TaskReads(op)
    BY <2>2, <2>3, KnownTasks, Accounts
  <2>5. tasks' = Append(tasks, t) /\ StartNext(queue, Idle(conn), outcomes)
    BY <1>7, <2>1 DEF FinishActiveSuccess
  <2>6. /\ tasks' \in Seq(Tasks) /\ DistinctTasks'
        /\ Answered' = Answered \cup {r} /\ Waiting' = Waiting
    <3>1. tasks \in Seq(Tasks) /\ DistinctTasks
      BY Accounts DEF IInv, TypeOK
    <3>2. /\ tasks' \in Seq(Tasks) /\ DistinctTasks'
          /\ TaskReads(t.op)' = TaskReads(t.op) \cup {t.req}
          /\ \A op : op # t.op => TaskReads(op)' = TaskReads(op)
      BY <2>2, <2>4, <2>5, <3>1, PostTask
    <3>3. QED BY <2>2, <3>2 DEF Answered, Waiting
  <2>7. Settled(H, outcomes)
    BY <1>5, <1>7, <2>1, <2>5, StartNextSettles DEF IInv
  <2>8. Submitted' = Submitted
    BY <1>1 DEF Submitted
  <2>9. ASSUME Held' = H, outcomes' = outcomes PROVE OneOutcome'
    <3>1. Over' = Over /\ \A x \in Reads : outcomes'[x] <= 1
      BY <2>9, Accounts DEF Over
    <3>2. Submitted' = Waiting' \cup Held' \cup Answered' \cup Over'
      BY <2>3, <2>6, <2>8, <2>9, <3>1, Accounts
    <3>3. Waiting' \cap (Held' \cup Answered' \cup Over') = {}
      BY <2>3, <2>6, <2>9, <3>1, Accounts
    <3>4. Held' \cap (Answered' \cup Over') = {}
      BY <2>3, <2>6, <2>9, <3>1, Accounts
    <3>5. Answered' \cap Over' = {}
      BY <2>3, <2>6, <3>1, Accounts
    <3>6. QED BY <2>6, <3>1, <3>2, <3>3, <3>4, <3>5 DEF OneOutcome, DistinctTasks
  <2>10. ASSUME Held' = {}, outcomes' = Ended(outcomes, H) PROVE OneOutcome'
    <3>1. H \in SUBSET Reads /\ H \cap Over = {} /\ outcomes \in [Reads -> Nat]
      BY <1>5, <1>7, <2>3, Accounts
    <3>2. Over' = Over \cup H /\ \A x \in Reads : outcomes'[x] <= 1
      BY <2>10, <3>1, EndReads, Accounts
    <3>3. Submitted' = Waiting' \cup Held' \cup Answered' \cup Over'
      BY <2>3, <2>6, <2>8, <2>10, <3>2, Accounts
    <3>4. Waiting' \cap (Held' \cup Answered' \cup Over') = {}
      BY <2>3, <2>6, <2>10, <3>2, Accounts
    <3>5. Held' \cap (Answered' \cup Over') = {}
      BY <2>10
    <3>6. Answered' \cap Over' = {}
      BY <2>3, <2>6, <3>2, Accounts
    <3>7. QED BY <2>6, <3>2, <3>3, <3>4, <3>5, <3>6 DEF OneOutcome, DistinctTasks
  <2>11. TypeOK'
    BY <1>1, <1>3, <2>6, <2>7 DEF Settled, session, IInv, TypeOK
  <2>12. QED BY <2>7, <2>9, <2>10, <2>11 DEF Settled, IInv
<1>8. QED BY <1>4, <1>6, <1>7 DEF OnFrame

LEMMA NextIInv == IInv /\ [Next]_vars => IInv'
<1> SUFFICES ASSUME IInv, [Next]_vars PROVE IInv'
  OBVIOUS
<1>1. CASE Submit
  BY <1>1, SubmitIInv
<1>2. CASE RunTask
  BY <1>2, EnqueueInLoopIInv, RefuseCountIInv, DeliverSuccessIInv DEF RunTask
<1>3. CASE OnConnected \/ OnDisconnected
  BY <1>3, OnConnectedIInv, OnDisconnectedIInv
<1>4. CASE OnConnectTimeout \/ OnResponseTimeout
  BY <1>4, OnConnectTimeoutIInv, OnResponseTimeoutIInv
<1>5. CASE OnFrame \/ CloseInLoop
  BY <1>5, OnFrameIInv, CloseInLoopIInv
<1>6. CASE PeerAnswers \/ PeerMisbehaves
  BY <1>6, PeerIInv
<1>7. CASE UNCHANGED vars
  <2>1. UNCHANGED <<Submitted, Waiting, Held, Answered, Over>>
    BY <1>7 DEF vars, session, Submitted, Waiting, TaskReads, Held, Answered, Over
  <2>2. TypeOK' /\ TimerCoversActive' /\ ClosedHoldsNothing' /\ HeldOnce'
    BY <1>7, <2>1 DEF vars, session, IInv, TypeOK, TimerCoversActive, ClosedHoldsNothing, HeldOnce
  <2>3. OneOutcome'
    BY <1>7, <2>1 DEF vars, IInv, OneOutcome
  <2>4. QED BY <2>2, <2>3 DEF IInv
<1>8. QED BY <1>1, <1>2, <1>3, <1>4, <1>5, <1>6, <1>7 DEF Next

-----------------------------------------------------------------------------
(* First in, first decided.                                                *)

Increasing(s) == \A i, j \in DOMAIN s : i < j => s[i] < s[j]

(* The reads that are held wait in the order they were posted.              *)
HeldInOrder == /\ Increasing(queue)
               /\ active # NoRead => \A r \in Range(queue) : active < r

EnqueuesInOrder == \A i, j \in DOMAIN tasks :
    i < j /\ tasks[i].op = "enqueue" /\ tasks[j].op = "enqueue" => tasks[i].req < tasks[j].req

(* The reads that are still to be decided are in order, those decided came    *)
(* before them, and only reads refused for their count go their own way.    *)
ServedInOrder ==
    /\ HeldInOrder /\ EnqueuesInOrder
    /\ \A h \in Held, w \in TaskReads("enqueue") : h < w
    /\ \A d \in Decided \ InvalidReads, u \in Held \cup TaskReads("enqueue") : d < u
    /\ TaskReads("invalid") \subseteq InvalidReads
    /\ (Held \cup TaskReads("enqueue")) \cap InvalidReads = {}

(* Popping and appending keep a queue in order.                             *)
LEMMA PopIncreasing ==
    ASSUME NEW s \in Seq(Reads), s # <<>>, Increasing(s)
    PROVE  Increasing(Tail(s)) /\ \A r \in Range(Tail(s)) : Head(s) < r
<1>1. /\ Tail(s) \in Seq(Reads) /\ Len(Tail(s)) = Len(s) - 1
      /\ \A i \in 1..Len(Tail(s)) : Tail(s)[i] = s[i + 1]
  BY HeadTailProperties
<1>2. /\ DOMAIN s = 1..Len(s) /\ Len(s) \in Nat /\ Len(s) # 0
      /\ DOMAIN Tail(s) = 1..Len(Tail(s)) /\ Head(s) = s[1]
  BY <1>1, EmptySeq, LenProperties
<1>3. \A i, j \in 1..Len(s) : i < j => s[i] < s[j]
  BY <1>2 DEF Increasing
<1>4. Increasing(Tail(s))
  BY <1>1, <1>2, <1>3 DEF Increasing
<1>5. \A i \in 1..Len(Tail(s)) : Head(s) < Tail(s)[i]
  BY <1>1, <1>2, <1>3
<1>6. QED BY <1>2, <1>4, <1>5 DEF Range

LEMMA PushIncreasing ==
    ASSUME NEW s \in Seq(Reads), NEW e \in Reads, Increasing(s), \A r \in Range(s) : r < e
    PROVE  Increasing(Append(s, e))
<1>1. /\ Append(s, e) \in Seq(Reads) /\ Len(Append(s, e)) = Len(s) + 1
      /\ \A i \in 1..Len(s) : Append(s, e)[i] = s[i]
      /\ Append(s, e)[Len(s) + 1] = e
  BY AppendProperties
<1>2. /\ DOMAIN s = 1..Len(s) /\ Len(s) \in Nat
      /\ DOMAIN Append(s, e) = 1..(Len(s) + 1)
  BY <1>1, LenProperties
<1>3. \A i \in 1..Len(s) : s[i] < e
  BY <1>2 DEF Range
<1>4. \A i, j \in 1..Len(s) : i < j => s[i] < s[j]
  BY <1>2 DEF Increasing
<1>5. QED BY <1>1, <1>2, <1>3, <1>4 DEF Increasing

LEMMA FailAllOrder ==
    ASSUME NEW R, NEW out, FailAll(R, out)
    PROVE  HeldInOrder' /\ Held' = {}
<1>1. active' = NoRead /\ queue' = <<>> /\ Range(<<>>) = {} /\ DOMAIN <<>> = {}
  BY DEF FailAll, Range
<1>2. QED BY <1>1 DEF HeldInOrder, Increasing, Held

(* Starting the next read keeps the order of those that wait.               *)
LEMMA StartNextOrder ==
    ASSUME NEW q \in Seq(Reads), NEW c, NEW out, Increasing(q), StartNext(q, c, out)
    PROVE  HeldInOrder'
<1>1. CASE q = <<>>
  BY <1>1 DEF StartNext, HeldInOrder
<1>2. CASE q # <<>>
  <2>1. Increasing(Tail(q)) /\ \A r \in Range(Tail(q)) : Head(q) < r
    BY <1>2, PopIncreasing
  <2>2. \/ active' = Head(q) /\ queue' = Tail(q)
        \/ FailAll({Head(q)} \cup Range(Tail(q)), out)
    BY <1>2 DEF StartNext, SendActive, StartConnection
  <2>3. CASE active' = Head(q) /\ queue' = Tail(q)
    BY <2>1, <2>3 DEF HeldInOrder
  <2>4. QED BY <2>2, <2>3, FailAllOrder
<1>3. QED BY <1>1, <1>2

(* Every submitted read that neither waits nor is held has been decided.     *)
LEMMA DecidedAreTheRest ==
    IInv => Decided = Submitted \ (Waiting \cup Held)
BY DEF IInv, OneOutcome, Decided

(* A callback that lets go of the first reads it holds, if any, keeps the     *)
(* order.                                                                  *)
LEMMA LettingGoKeepsOrder ==
    ASSUME IInv, IInv', ServedInOrder, HeldInOrder', EnqueuesInOrder',
           submitted' = submitted, Held' \subseteq Held,
           \A d \in Held \ Held', u \in Held' : d < u,
           TaskReads("enqueue")' = TaskReads("enqueue"),
           TaskReads("invalid")' = TaskReads("invalid")
    PROVE  ServedInOrder'
<1>1. Decided = Submitted \ (Waiting \cup Held) /\ Decided' = Submitted' \ (Waiting' \cup Held')
  <2>1. Decided = Submitted \ (Waiting \cup Held)
    BY DecidedAreTheRest
  <2>2. Decided' = Submitted' \ (Waiting' \cup Held')
    BY DEF IInv, OneOutcome, Decided
  <2>3. QED BY <2>1, <2>2
<1>2. Submitted' = Submitted /\ Waiting' = Waiting
  BY DEF Submitted, Waiting
<1>3. Decided' \subseteq Decided \cup (Held \ Held')
  BY <1>1, <1>2
<1>4. \A d \in Decided' \ InvalidReads, u \in Held' \cup TaskReads("enqueue")' : d < u
  BY <1>3 DEF ServedInOrder
<1>5. QED BY <1>4 DEF ServedInOrder

(* A callback that breaks the connection decides all it holds.               *)
LEMMA FailHeldOrder ==
    ASSUME IInv, IInv', ServedInOrder, FailAll(Held, outcomes), UNCHANGED <<submitted, tasks>>
    PROVE  ServedInOrder'
<1>1. HeldInOrder' /\ Held' = {}
  BY FailAllOrder
<1>2. \A op : TaskReads(op)' = TaskReads(op)
  BY DEF TaskReads
<1>3. EnqueuesInOrder'
  BY DEF ServedInOrder, EnqueuesInOrder
<1>4. QED BY <1>1, <1>2, <1>3, LettingGoKeepsOrder

(* What running the first task does to the reads that wait in tasks.         *)
LEMMA RunKeepsEnqueues ==
    ASSUME IInv, ServedInOrder, tasks # <<>>, tasks' = Tail(tasks)
    PROVE  /\ EnqueuesInOrder'
           /\ \A op : TaskReads(op)' = TaskReads(op) \ {Head(tasks).req}
           /\ Head(tasks).req \in TaskReads(Head(tasks).op)
           /\ Head(tasks).op = "enqueue" =>
                 \A w \in TaskReads("enqueue")' : Head(tasks).req < w
<1>1. tasks \in Seq(Tasks) /\ DistinctTasks
  BY Accounts DEF IInv, TypeOK
<1>2. /\ tasks' \in Seq(Tasks) /\ Len(tasks') = Len(tasks) - 1
      /\ \A i \in 1..Len(tasks') : tasks'[i] = tasks[i + 1]
  BY <1>1, HeadTailProperties
<1>3. /\ DOMAIN tasks = 1..Len(tasks) /\ Len(tasks) \in Nat /\ Len(tasks) # 0
      /\ DOMAIN tasks' = 1..Len(tasks') /\ Head(tasks) = tasks[1]
  BY <1>1, <1>2, EmptySeq, LenProperties
<1>4. \A i, j \in 1..Len(tasks) :
         i < j /\ tasks[i].op = "enqueue" /\ tasks[j].op = "enqueue" => tasks[i].req < tasks[j].req
  BY <1>3 DEF ServedInOrder, EnqueuesInOrder
<1>5. EnqueuesInOrder'
  BY <1>2, <1>3, <1>4 DEF EnqueuesInOrder
<1>6. ASSUME Head(tasks).op = "enqueue", NEW w \in TaskReads("enqueue")' PROVE Head(tasks).req < w
  <2>1. PICK i \in 1..Len(tasks') : tasks'[i].op = "enqueue" /\ tasks'[i].req = w
    BY <1>3 DEF TaskReads
  <2>2. tasks[i + 1].op = "enqueue" /\ tasks[i + 1].req = w /\ i + 1 \in 1..Len(tasks) /\ 1 < i + 1
    BY <1>2, <1>3, <2>1
  <2>3. 1 \in 1..Len(tasks) /\ tasks[1].op = "enqueue" /\ tasks[1].req = Head(tasks).req
    BY <1>3, <1>6
  <2>4. QED BY <1>4, <2>2, <2>3
<1>7. QED BY <1>1, <1>5, <1>6, PopTask

LEMMA SubmitOrder ==
    ASSUME IInv, IInv', ServedInOrder, Submit PROVE ServedInOrder'
<1> USE SessionAssumption
<1>1. PICK r, t :
        /\ r = submitted + 1
        /\ t = Task(IF r \in InvalidReads THEN "invalid" ELSE "enqueue", r, NoRead)
  OBVIOUS
<1>2. /\ submitted < MaxReads /\ submitted' = r /\ tasks' = Append(tasks, t)
      /\ UNCHANGED <<session, outcomes>>
  BY <1>1 DEF Submit
<1>3. submitted \in Nat /\ r \in Reads
  BY <1>1, <1>2 DEF IInv, TypeOK, Reads
<1>4. t \in Tasks /\ t.req = r /\ (t.op = IF r \in InvalidReads THEN "invalid" ELSE "enqueue")
  BY <1>1, <1>3 DEF Task, Tasks
<1>5. \A x \in Waiting \cup Held \cup Decided : x \in Nat /\ x < r
  <2>1. Waiting \cup Held \cup Decided \subseteq Submitted
    BY Accounts DEF Decided
  <2>2. QED BY <1>1, <1>3, <2>1 DEF Submitted
<1>6. \A op : t.req \notin TaskReads(op)
  <2>1. r \notin Waiting \cup Answered
    BY <1>3, <1>5 DEF Decided, Reads
  <2>2. QED BY <1>4, <2>1, KnownTasks
<1>7. /\ TaskReads(t.op)' = TaskReads(t.op) \cup {r}
      /\ \A op : op # t.op => TaskReads(op)' = TaskReads(op)
  BY <1>2, <1>4, <1>6, Accounts, PostTask DEF IInv, TypeOK
<1>8. Held' = Held /\ HeldInOrder'
  BY <1>2 DEF Held, session, ServedInOrder, HeldInOrder
<1>9. Decided' = Decided
  BY <1>2, <1>4, <1>7 DEF Decided, Answered, Over
<1>10. EnqueuesInOrder'
  <2>1. /\ tasks \in Seq(Tasks) /\ tasks' \in Seq(Tasks) /\ Len(tasks') = Len(tasks) + 1
        /\ \A i \in 1..Len(tasks) : tasks'[i] = tasks[i]
        /\ tasks'[Len(tasks) + 1] = t
    BY <1>2, <1>4, AppendProperties DEF IInv, TypeOK
  <2>2. /\ DOMAIN tasks = 1..Len(tasks) /\ Len(tasks) \in Nat
        /\ DOMAIN tasks' = 1..(Len(tasks) + 1)
    BY <2>1, LenProperties
  <2>3. \A i \in 1..Len(tasks) : tasks[i].op = "enqueue" => tasks[i].req < r
    BY <1>5, <2>2 DEF Waiting, TaskReads
  <2>4. \A i, j \in 1..Len(tasks) :
           i < j /\ tasks[i].op = "enqueue" /\ tasks[j].op = "enqueue" => tasks[i].req < tasks[j].req
    BY <2>2 DEF ServedInOrder, EnqueuesInOrder
  <2>5. QED BY <1>4, <2>1, <2>2, <2>3, <2>4 DEF EnqueuesInOrder
<1>11. TaskReads("enqueue") \subseteq Waiting
  BY DEF Waiting
<1>12. CASE r \in InvalidReads
  BY <1>4, <1>7, <1>8, <1>9, <1>10, <1>12 DEF ServedInOrder
<1>13. CASE r \notin InvalidReads
  <2>1. TaskReads("enqueue")' = TaskReads("enqueue") \cup {r} /\ TaskReads("invalid")' = TaskReads("invalid")
    BY <1>4, <1>7, <1>13
  <2>2. \A h \in Held \cup Decided : h < r
    BY <1>5
  <2>3. QED BY <1>8, <1>9, <1>10, <1>13, <2>1, <2>2 DEF ServedInOrder
<1>14. QED BY <1>12, <1>13

LEMMA EnqueueInLoopOrder ==
    ASSUME IInv, IInv', ServedInOrder, EnqueueInLoop PROVE ServedInOrder'
<1>1. PICK r : r = Head(tasks).req
  OBVIOUS
<1>2. /\ tasks # <<>> /\ Head(tasks).op = "enqueue" /\ tasks' = Tail(tasks)
      /\ submitted' = submitted
  BY DEF EnqueueInLoop
<1>3. /\ EnqueuesInOrder' /\ r \in TaskReads("enqueue")
      /\ \A op : TaskReads(op)' = TaskReads(op) \ {r}
      /\ \A w \in TaskReads("enqueue")' : r < w
  BY <1>1, <1>2, RunKeepsEnqueues
<1>4. r \in Reads /\ r \notin InvalidReads /\ (\A h \in Held : h < r)
      /\ (\A d \in Decided \ InvalidReads : d < r)
  BY <1>3, Accounts DEF ServedInOrder
<1>5. Held' \subseteq Held \cup {r} /\ HeldInOrder' /\ (r \in Held' \/ Held' = {})
  <2>1. CASE conn.closed /\ UNCHANGED session
    <3>1. Held' = Held /\ Held = {}
      BY <2>1 DEF Held, session, IInv, ClosedHoldsNothing
    <3>2. QED BY <2>1, <3>1 DEF session, ServedInOrder, HeldInOrder
  <2>2. CASE active # NoRead /\ queue' = Append(queue, r) /\ active' = active
    <3>1. queue \in Seq(Reads) /\ Increasing(queue) /\ Held = {active} \cup Range(queue)
      BY <2>2 DEF IInv, TypeOK, ServedInOrder, HeldInOrder, Held
    <3>2. Increasing(queue') /\ Range(queue') = Range(queue) \cup {r}
      BY <1>4, <2>2, <3>1, PushIncreasing, PushRange
    <3>3. \A x \in Range(queue') : active < x
      BY <1>4, <2>2, <3>1, <3>2 DEF ServedInOrder, HeldInOrder
    <3>4. QED BY <2>2, <3>1, <3>2, <3>3 DEF HeldInOrder, Held
  <2>3. CASE ~conn.closed /\ active = NoRead /\ StartNext(Append(queue, r), conn, outcomes)
    <3>1. queue = <<>> /\ Resting(conn)
      BY <2>3 DEF IInv, TypeOK, TimerCoversActive, Resting
    <3>2. PICK q : q = Append(queue, r)
      OBVIOUS
    <3>3. queue \in Seq(Reads) /\ Range(queue) = {} /\ Increasing(queue) /\ IsInjective(queue)
      BY <3>1 DEF Range, Increasing, IsInjective
    <3>4. q \in Seq(Reads) /\ Increasing(q) /\ Range(q) = {r} /\ IsInjective(q)
      <4>1. q \in Seq(Reads) /\ Range(q) = Range(queue) \cup {r} /\ IsInjective(q)
        BY <1>4, <3>2, <3>3, PushRange
      <4>2. Increasing(q)
        BY <1>4, <3>2, <3>3, PushIncreasing
      <4>3. QED BY <3>3, <4>1, <4>2
    <3>5. HeldInOrder'
      BY <2>3, <3>2, <3>4, StartNextOrder
    <3>6. Settled({r}, outcomes)
      BY <2>3, <3>1, <3>2, <3>4, StartNextSettles DEF IInv, TypeOK
    <3>7. QED BY <3>5, <3>6 DEF Settled
  <2>4. QED BY <1>1, <2>1, <2>2, <2>3 DEF EnqueueInLoop
<1>6. Decided' \subseteq Decided \cup {r} \cup (Held \ Held')
  <2>1. Decided = Submitted \ (Waiting \cup Held)
    BY DecidedAreTheRest
  <2>2. Decided' = Submitted' \ (Waiting' \cup Held')
    BY DEF IInv, OneOutcome, Decided
  <2>3. Submitted' = Submitted /\ Waiting' = Waiting \ {r}
    BY <1>2, <1>3 DEF Submitted, Waiting
  <2>4. QED BY <2>1, <2>2, <2>3
<1>7. Held \subseteq Held' \/ Held' = {}
  <2>1. CASE UNCHANGED session
    BY <2>1 DEF Held, session
  <2>2. CASE active # NoRead /\ queue' = Append(queue, r) /\ active' = active
    <3>1. Range(queue') = Range(queue) \cup {r}
      BY <1>4, <2>2, PushRange DEF IInv, TypeOK
    <3>2. QED BY <2>2, <3>1 DEF Held
  <2>3. CASE active = NoRead
    <3>1. Held = {}
      BY <2>3 DEF Held, IInv, TimerCoversActive, Range
    <3>2. QED BY <3>1
  <2>4. QED BY <1>1, <2>1, <2>2, <2>3 DEF EnqueueInLoop
<1>8. \A d \in Decided' \ InvalidReads, u \in Held' \cup TaskReads("enqueue")' : d < u
  <2>1. \A w \in TaskReads("enqueue")', d \in Decided \ InvalidReads : d < w
    BY <1>3 DEF ServedInOrder
  <2>2. \A w \in TaskReads("enqueue")', d \in Held \cup {r} : d < w
    BY <1>3 DEF ServedInOrder
  <2>3. \A u \in Held', d \in Decided' \ InvalidReads : d < u
    <3>1. CASE Held' = {}
      BY <3>1
    <3>2. CASE r \in Held' /\ Held \subseteq Held'
      <4>1. r \notin Decided'
        BY <3>2 DEF IInv, OneOutcome, Decided
      <4>2. Decided' \subseteq Decided
        BY <1>6, <3>2, <4>1
      <4>3. QED BY <1>4, <1>5, <4>2 DEF ServedInOrder
    <3>3. QED BY <1>5, <1>7, <3>1, <3>2
  <2>4. QED BY <1>6, <2>1, <2>2, <2>3
<1>9. /\ \A h \in Held', w \in TaskReads("enqueue")' : h < w
      /\ TaskReads("invalid")' \subseteq InvalidReads
      /\ (Held' \cup TaskReads("enqueue")') \cap InvalidReads = {}
  BY <1>3, <1>4, <1>5 DEF ServedInOrder
<1>10. QED BY <1>3, <1>5, <1>8, <1>9 DEF ServedInOrder

(* Tasks that only end the observer of a read decide none that waits.        *)
LEMMA EndingTaskOrder ==
    ASSUME IInv, IInv', ServedInOrder, RefuseCount \/ DeliverSuccess PROVE ServedInOrder'
<1>1. PICK r : r = Head(tasks).req
  OBVIOUS
<1>2. /\ tasks # <<>> /\ Head(tasks).op \in {"invalid", "success"} /\ tasks' = Tail(tasks)
      /\ submitted' = submitted /\ UNCHANGED session
  BY DEF RefuseCount, DeliverSuccess
<1>3. /\ EnqueuesInOrder' /\ r \in TaskReads(Head(tasks).op)
      /\ \A op : TaskReads(op)' = TaskReads(op) \ {r}
  BY <1>1, <1>2, RunKeepsEnqueues
<1>4. r \notin TaskReads("enqueue")
  <2>1. \A op : r \in TaskReads(op) => op = Head(tasks).op
    BY <1>1, <1>2, Accounts, PopTask DEF IInv, TypeOK
  <2>2. QED BY <1>2, <2>1
<1>5. TaskReads("enqueue")' = TaskReads("enqueue") /\ TaskReads("invalid")' \subseteq TaskReads("invalid")
  BY <1>3, <1>4
<1>6. Held' = Held /\ HeldInOrder'
  BY <1>2 DEF Held, session, ServedInOrder, HeldInOrder
<1>7. Decided' \ InvalidReads \subseteq Decided \ InvalidReads
  <2>1. Decided = Submitted \ (Waiting \cup Held)
    BY DecidedAreTheRest
  <2>2. Decided' = Submitted' \ (Waiting' \cup Held')
    BY DEF IInv, OneOutcome, Decided
  <2>3. Submitted' = Submitted /\ Waiting' = Waiting \ {r}
    BY <1>2, <1>3 DEF Submitted, Waiting
  <2>4. r \in InvalidReads \/ r \in Decided
    BY <1>2, <1>3 DEF ServedInOrder, Decided, Answered
  <2>5. QED BY <1>6, <2>1, <2>2, <2>3, <2>4
<1>8. QED BY <1>3, <1>5, <1>6, <1>7 DEF ServedInOrder

LEMMA OnConnectedOrder ==
    ASSUME IInv, IInv', ServedInOrder, OnConnected PROVE ServedInOrder'
<1>1. active # NoRead /\ UNCHANGED <<submitted, tasks>>
  BY DEF OnConnected, IInv, TimerCoversActive
<1>2. (active' = active /\ queue' = queue) \/ Held' = {}
  <2>1. PICK c : SendActive(active, activeTxn, queue, c, outcomes)
    BY <1>1 DEF OnConnected
  <2>2. QED BY <2>1, FailAllOrder DEF SendActive
<1>3. HeldInOrder'
  <2>1. CASE active' = active /\ queue' = queue
    BY <2>1 DEF ServedInOrder, HeldInOrder
  <2>2. CASE Held' = {}
    <3>1. active' = NoRead
      BY <2>2 DEF Held
    <3>2. queue' = <<>>
      BY <3>1 DEF IInv, TimerCoversActive
    <3>3. DOMAIN <<>> = {}
      OBVIOUS
    <3>4. QED BY <3>1, <3>2, <3>3 DEF HeldInOrder, Increasing
  <2>3. QED BY <1>2, <2>1, <2>2
<1>4. Held' = Held \/ Held' = {}
  BY <1>2 DEF Held
<1>5. \A op : TaskReads(op)' = TaskReads(op)
  BY <1>1 DEF TaskReads
<1>6. EnqueuesInOrder'
  BY <1>1 DEF ServedInOrder, EnqueuesInOrder
<1>7. QED BY <1>1, <1>3, <1>4, <1>5, <1>6, LettingGoKeepsOrder

(* A frame decides the active read, the first of those held, and what comes   *)
(* next is the next of them, or none.                                      *)
LEMMA OnFrameOrder ==
    ASSUME IInv, IInv', ServedInOrder, OnFrame PROVE ServedInOrder'
<1>1. submitted' = submitted
  BY DEF OnFrame
<1>2. EnqueuesInOrder' /\ TaskReads("enqueue")' = TaskReads("enqueue")
      /\ TaskReads("invalid")' = TaskReads("invalid")
  <2>1. CASE UNCHANGED tasks
    BY <2>1 DEF ServedInOrder, EnqueuesInOrder, TaskReads
  <2>2. CASE active # NoRead /\ FinishActiveSuccess(Head(toClient).req)
    <3>1. PICK t : t = Task("success", active, Head(toClient).req)
      OBVIOUS
    <3>2. tasks' = Append(tasks, t) /\ t.op = "success" /\ t.req = active
      BY <2>2, <3>1 DEF FinishActiveSuccess, Task
    <3>3. /\ Len(tasks') = Len(tasks) + 1
          /\ \A i \in 1..Len(tasks) : tasks'[i] = tasks[i]
          /\ tasks'[Len(tasks) + 1] = t /\ tasks' \in Seq(Tasks)
      <4>1. tasks \in Seq(Tasks) /\ tasks' \in Seq(Tasks)
        BY DEF IInv, TypeOK
      <4>2. t \in Tasks
        <5>1. tasks'[Len(tasks) + 1] = t /\ Len(tasks') = Len(tasks) + 1 /\ Len(tasks) \in Nat
          BY <3>2, <4>1
        <5>2. QED BY <4>1, <5>1
      <4>3. QED BY <3>2, <4>1, <4>2, AppendProperties
    <3>4. /\ DOMAIN tasks = 1..Len(tasks) /\ Len(tasks) \in Nat
          /\ DOMAIN tasks' = 1..(Len(tasks) + 1)
      BY <3>3, LenProperties DEF IInv, TypeOK
    <3>5. \A i, j \in 1..Len(tasks) :
            i < j /\ tasks[i].op = "enqueue" /\ tasks[j].op = "enqueue" => tasks[i].req < tasks[j].req
      BY <3>4 DEF ServedInOrder, EnqueuesInOrder
    <3>6. EnqueuesInOrder'
      BY <3>2, <3>3, <3>4, <3>5 DEF EnqueuesInOrder
    <3>7. ASSUME NEW op, op # "success" PROVE TaskReads(op)' = TaskReads(op)
      BY <3>2, <3>3, <3>4, <3>7 DEF TaskReads
    <3>8. QED BY <3>6, <3>7
  <2>3. QED BY <2>1, <2>2 DEF OnFrame
<1>3. CASE UNCHANGED session
  <2>1. Held' = Held /\ HeldInOrder'
    BY <1>3 DEF Held, session, ServedInOrder, HeldInOrder
  <2>2. QED BY <1>1, <1>2, <2>1, LettingGoKeepsOrder
<1>4. CASE active # NoRead /\ \E out : StartNext(queue, Idle(conn), out) \/ FailAll(Range(queue), out)
  <2>1. PICK out : StartNext(queue, Idle(conn), out) \/ FailAll(Range(queue), out)
    BY <1>4
  <2>2. queue \in Seq(Reads) /\ Increasing(queue) /\ Held = {active} \cup Range(queue)
        /\ (\A r \in Range(queue) : active < r)
    BY <1>4 DEF IInv, TypeOK, ServedInOrder, HeldInOrder, Held
  <2>3. HeldInOrder'
    BY <2>1, <2>2, StartNextOrder, FailAllOrder
  <2>4. Held' = Range(queue) \/ Held' = {}
    <3>1. CASE FailAll(Range(queue), out)
      BY <3>1, FailAllOrder
    <3>2. CASE StartNext(queue, Idle(conn), out) /\ queue = <<>>
      BY <3>2 DEF StartNext, Held
    <3>3. CASE StartNext(queue, Idle(conn), out) /\ queue # <<>>
      <4>1. \/ active' = Head(queue) /\ queue' = Tail(queue)
            \/ FailAll({Head(queue)} \cup Range(Tail(queue)), out)
        BY <3>3 DEF StartNext, SendActive, StartConnection
      <4>2. /\ {Head(queue)} \cup Range(Tail(queue)) = Range(queue)
            /\ Head(queue) \in Reads /\ Head(queue) # NoRead
        BY <2>2, <3>3, PopRange, SessionAssumption DEF Reads, NoRead
      <4>3. QED BY <4>1, <4>2, FailAllOrder DEF Held
    <3>4. QED BY <2>1, <3>1, <3>2, <3>3
  <2>5. Held' \subseteq Held /\ \A d \in Held \ Held', u \in Held' : d < u
    BY <2>2, <2>4
  <2>6. QED BY <1>1, <1>2, <2>3, <2>5, LettingGoKeepsOrder
<1>5. QED BY <1>3, <1>4 DEF OnFrame, FinishActiveSuccess, FinishActiveError

LEMMA NextOrder == IInv /\ IInv' /\ ServedInOrder /\ [Next]_vars => ServedInOrder'
<1> SUFFICES ASSUME IInv, IInv', ServedInOrder, [Next]_vars PROVE ServedInOrder'
  OBVIOUS
<1>1. CASE OnDisconnected \/ OnConnectTimeout \/ OnResponseTimeout \/ CloseInLoop
  <2>1. FailAll(Held, outcomes) /\ UNCHANGED <<submitted, tasks>>
    BY <1>1 DEF OnDisconnected, OnConnectTimeout, OnResponseTimeout, CloseInLoop,
                IInv, TimerCoversActive, ClosedHoldsNothing, Closed
  <2>2. QED BY <2>1, FailHeldOrder
<1>2. CASE PeerAnswers \/ PeerMisbehaves \/ UNCHANGED vars
  <2>1. UNCHANGED <<submitted, tasks, session>>
    BY <1>2 DEF PeerAnswers, PeerMisbehaves, vars
  <2>2. Held' = Held /\ HeldInOrder' /\ EnqueuesInOrder' /\ \A op : TaskReads(op)' = TaskReads(op)
    BY <2>1 DEF Held, session, TaskReads, ServedInOrder, HeldInOrder, EnqueuesInOrder
  <2>3. QED BY <2>1, <2>2, LettingGoKeepsOrder
<1>3. QED BY <1>1, <1>2, SubmitOrder, EnqueueInLoopOrder, EndingTaskOrder, OnConnectedOrder, OnFrameOrder
          DEF Next, RunTask

LEMMA InitOrder == Init => ServedInOrder
<1> SUFFICES ASSUME Init PROVE ServedInOrder
  OBVIOUS
<1>1. Range(<<>>) = {} /\ DOMAIN <<>> = {}
  BY DEF Range
<1>2. Held = {} /\ (\A op : TaskReads(op) = {})
  BY <1>1 DEF Init, Held, TaskReads
<1>3. HeldInOrder /\ EnqueuesInOrder
  BY <1>1 DEF Init, HeldInOrder, Increasing, EnqueuesInOrder
<1>4. QED BY <1>2, <1>3 DEF ServedInOrder

(* The order gives the property of the runs.                                *)
LEMMA OrderSuffices == IInv /\ ServedInOrder => FirstInFirstDecided
<1> SUFFICES ASSUME IInv, ServedInOrder, NEW r \in Decided \ InvalidReads,
                    NEW e \in (1..r) \ InvalidReads, e \notin Decided
             PROVE  FALSE
  BY DEF FirstInFirstDecided
<1>1. r \in Submitted /\ submitted \in Nat
  BY Accounts DEF Decided, IInv, TypeOK
<1>2. e \in Submitted /\ e <= r /\ e \in Nat /\ r \in Nat
  BY <1>1 DEF Submitted
<1>3. e \in Held \cup TaskReads("enqueue")
  BY <1>2, DecidedAreTheRest DEF ServedInOrder, Waiting
<1>4. r < e
  BY <1>3 DEF ServedInOrder
<1>5. QED BY <1>2, <1>4

-----------------------------------------------------------------------------
(* The answers on the wire.                                                *)

(* How many requests after the one with transaction t the one with a was     *)
(* sent, if fewer than MaxTransaction.                                     *)
Distance(t, a) == IF t <= a THEN a - t ELSE a - t + MaxTransaction

(* m belongs to the request with transaction a, or one of the n sent before.  *)
AmongLast(m, n, a) == m.txn \in Transactions /\ Distance(m.txn, a) <= n

(* It is that of the read that is asked for if it has its transaction.       *)
Recent(m, n, a, r) == AmongLast(m, n, a) /\ (r # NoRead /\ m.txn = a => m.req = r)

Asking == IF conn.awaiting THEN active ELSE NoRead

(* A request has one frame, a fault of the peer one more, and they come in    *)
(* the order the requests were sent: no transaction comes round again while  *)
(* a frame of its last use is under way.                                   *)
WireInOrder == ~conn.closed =>
    /\ nextTxn = NextTransaction(activeTxn)
    /\ conn.connecting \/ conn.connected => activeTxn \in Transactions
    /\ ~conn.connected => atPeer = <<>> /\ toClient = <<>>
    /\ \A i \in DOMAIN atPeer : Recent(atPeer[i], Len(atPeer) - i, activeTxn, Asking)
    /\ \A i \in DOMAIN toClient : toClient[i].kind # "malformed" =>
          Recent(toClient[i], Len(atPeer) + Len(toClient) - i, activeTxn, Asking)

(* The registers that are delivered are those of the read they are for, and   *)
(* only a read that is over has been given some.                            *)
AnswersOwn ==
    /\ \A i \in DOMAIN tasks : tasks[i].op = "success" => tasks[i].data = tasks[i].req
    /\ \A r \in Reads : received[r] \in {NoRead, r} /\ (received[r] # NoRead => r \in Over)

WireInv == WireInOrder /\ StaleFramesBounded /\ AnswersOwn

(* The next transaction is one further from every earlier one, as long as     *)
(* the counter has not come round.                                         *)
LEMMA DistanceGrows ==
    ASSUME NEW t \in Transactions, NEW a \in Transactions, Distance(t, a) + 1 < MaxTransaction
    PROVE  /\ NextTransaction(a) \in Transactions /\ NextTransaction(a) # t
           /\ Distance(t, NextTransaction(a)) = Distance(t, a) + 1
BY SessionAssumption DEF Transactions, Distance, NextTransaction

LEMMA DistanceIsNat ==
    ASSUME NEW t \in Transactions, NEW a \in Transactions
    PROVE  Distance(t, a) \in Nat /\ Distance(a, a) = 0
BY SessionAssumption DEF Transactions, Distance

(* What is on the wire when no request is: frames that faults account for.    *)
(* T are the frames that a callback leaves.                                 *)
QuietWire(T) ==
    /\ Len(atPeer) + Len(T) <= faults
    /\ \A i \in DOMAIN atPeer : AmongLast(atPeer[i], Len(atPeer) - i, activeTxn)
    /\ \A i \in DOMAIN T : T[i].kind # "malformed" => AmongLast(T[i], Len(atPeer) + Len(T) - i, activeTxn)

(* Starting the next read keeps the wire in order.                           *)
LEMMA StartNextWire ==
    ASSUME TypeOK, NEW q \in Seq(Reads), NEW c, Resting(c), NEW out, StartNext(q, c, out),
           toClient' \in Seq(Frames), QuietWire(toClient'), faults' = faults,
           nextTxn = NextTransaction(activeTxn),
           c.connected => activeTxn \in Transactions,
           ~c.connected => atPeer = <<>> /\ toClient' = <<>>
    PROVE  WireInOrder' /\ StaleFramesBounded'
<1> USE SessionAssumption
<1>1. CASE conn'.closed
  BY <1>1 DEF WireInOrder, StaleFramesBounded
<1>2. PICK T : T = toClient'
  OBVIOUS
<1>3. /\ T \in Seq(Frames) /\ DOMAIN T = 1..Len(T) /\ Len(T) \in Nat
      /\ atPeer \in Seq(Requests) /\ DOMAIN atPeer = 1..Len(atPeer) /\ Len(atPeer) \in Nat
      /\ faults \in Nat /\ faults < MaxTransaction /\ QuietWire(T)
      /\ Len(atPeer) + Len(T) <= faults
  BY <1>2, LenProperties DEF TypeOK, QuietWire
<1>4. CASE q = <<>>
  <2>1. /\ conn' = c /\ activeTxn' = activeTxn /\ nextTxn' = nextTxn /\ atPeer' = atPeer
    BY <1>4 DEF StartNext
  <2>2. ~c.awaiting /\ ~c.connecting
    BY DEF Resting
  <2>3. StaleFramesBounded'
    BY <1>2, <1>3, <2>1, <2>2 DEF StaleFramesBounded
  <2>4. Asking' = NoRead
    BY <2>1, <2>2 DEF Asking
  <2>5. QED BY <1>2, <1>3, <2>1, <2>2, <2>3, <2>4 DEF WireInOrder, QuietWire, Recent, Resting
<1>5. ASSUME q # <<>>
      PROVE  activeTxn' = nextTxn /\ nextTxn' = NextTransaction(activeTxn') /\ activeTxn' \in Transactions
  BY <1>5 DEF StartNext, TypeOK, NextTransaction
<1>6. CASE q # <<>> /\ ~c.connected /\ ~conn'.closed
  <2>1. /\ conn' = [c EXCEPT !.connecting = TRUE, !.timer = "connect"] /\ atPeer' = atPeer
    BY <1>6 DEF StartNext, StartConnection, FailAll, Closed, Resting
  <2>2. ~conn'.connected /\ ~conn'.awaiting /\ ~conn'.closed
    BY <1>6, <2>1 DEF Resting, Connections
  <2>3. atPeer' = <<>> /\ toClient' = <<>> /\ Len(<<>>) = 0 /\ DOMAIN <<>> = {}
    BY <1>6, <2>1
  <2>4. StaleFramesBounded'
    BY <1>3, <2>2, <2>3 DEF StaleFramesBounded
  <2>5. QED BY <1>5, <1>6, <2>2, <2>3, <2>4 DEF WireInOrder
<1>7. CASE q # <<>> /\ c.connected /\ ~conn'.closed
  <2>1. PICK m : m = [req |-> Head(q), txn |-> nextTxn]
    OBVIOUS
  <2>2. /\ conn' = [c EXCEPT !.awaiting = TRUE, !.timer = "response"]
        /\ active' = Head(q) /\ atPeer' = Append(atPeer, m)
    BY <1>7, <2>1 DEF StartNext, SendActive, FailAll, Closed
  <2>3. conn'.connected /\ conn'.awaiting
    BY <1>7, <2>2 DEF Resting, Connections
  <2>4. m \in Requests /\ m.txn = activeTxn' /\ m.req = Asking'
    BY <1>5, <1>7, <2>1, <2>2, <2>3, PopRange DEF Requests, Asking
  <2>5. /\ Len(atPeer') = Len(atPeer) + 1 /\ DOMAIN atPeer' = 1..(Len(atPeer) + 1)
        /\ \A i \in 1..Len(atPeer) : atPeer'[i] = atPeer[i]
        /\ atPeer'[Len(atPeer) + 1] = m
    BY <1>3, <2>2, <2>4, AppendProperties, LenProperties
  <2>6. StaleFramesBounded'
    BY <1>2, <1>3, <2>3, <2>5 DEF StaleFramesBounded
  <2>7. ASSUME NEW x, NEW n \in Nat, AmongLast(x, n, activeTxn), n + 1 <= faults
        PROVE  Recent(x, n + 1, activeTxn', Asking')
    <3>1. x.txn \in Transactions /\ Distance(x.txn, activeTxn) <= n /\ activeTxn \in Transactions
      BY <1>7, <2>7 DEF AmongLast
    <3>2. PICK d \in Nat : d = Distance(x.txn, activeTxn)
      BY <3>1, DistanceIsNat
    <3>3. d + 1 < MaxTransaction
      BY <1>3, <2>7, <3>1, <3>2
    <3>4. activeTxn' # x.txn /\ Distance(x.txn, activeTxn') = d + 1
      BY <1>5, <1>7, <3>1, <3>2, <3>3, DistanceGrows
    <3>5. QED BY <2>7, <3>1, <3>2, <3>4 DEF Recent, AmongLast
  <2>8. ASSUME NEW i \in DOMAIN atPeer' PROVE Recent(atPeer'[i], Len(atPeer') - i, activeTxn', Asking')
    <3>1. CASE i = Len(atPeer) + 1
      <4>1. Distance(m.txn, activeTxn') = 0
        BY <1>5, <1>7, <2>4, DistanceIsNat
      <4>2. atPeer'[i] = m /\ Len(atPeer') - i = 0
        BY <1>3, <2>5, <3>1
      <4>3. QED BY <1>5, <1>7, <2>4, <4>1, <4>2 DEF Recent, AmongLast
    <3>2. CASE i \in 1..Len(atPeer)
      <4>1. AmongLast(atPeer[i], Len(atPeer) - i, activeTxn) /\ Len(atPeer) - i \in Nat
        BY <1>3, <3>2 DEF QuietWire
      <4>2. Len(atPeer) - i + 1 <= faults /\ Len(atPeer') - i = Len(atPeer) - i + 1
        BY <1>3, <2>5, <3>2
      <4>3. Recent(atPeer[i], Len(atPeer) - i + 1, activeTxn', Asking')
        BY <2>7, <4>1, <4>2
      <4>4. QED BY <2>5, <3>2, <4>2, <4>3
    <3>3. QED BY <1>3, <2>5, <3>1, <3>2
  <2>9. ASSUME NEW i \in DOMAIN toClient', toClient'[i].kind # "malformed"
        PROVE  Recent(toClient'[i], Len(atPeer') + Len(toClient') - i, activeTxn', Asking')
    <3>1. i \in 1..Len(T) /\ AmongLast(T[i], Len(atPeer) + Len(T) - i, activeTxn)
      BY <1>2, <1>3, <2>9 DEF QuietWire
    <3>2. /\ Len(atPeer) + Len(T) - i \in Nat /\ Len(atPeer) + Len(T) - i + 1 <= faults
          /\ Len(atPeer') + Len(T) - i = Len(atPeer) + Len(T) - i + 1
      BY <1>3, <2>5, <3>1
    <3>3. Recent(T[i], Len(atPeer) + Len(T) - i + 1, activeTxn', Asking')
      BY <2>7, <3>1, <3>2
    <3>4. QED BY <1>2, <3>2, <3>3
  <2>10. QED BY <1>5, <1>7, <2>3, <2>6, <2>8, <2>9 DEF WireInOrder
<1>8. QED BY <1>1, <1>4, <1>6, <1>7

(* Until a connection breaks its state and the wire change only together.     *)
LEMMA ClosingWire ==
    ASSUME NEW R, NEW out, FailAll(R, out) PROVE WireInOrder' /\ StaleFramesBounded'
BY DEF FailAll, Closed, WireInOrder, StaleFramesBounded

LEMMA SameWire ==
    ASSUME WireInOrder, StaleFramesBounded, UNCHANGED <<session, atPeer, toClient, faults>>
    PROVE  WireInOrder' /\ StaleFramesBounded'
BY DEF session, WireInOrder, StaleFramesBounded, Asking

(* An open session that asks for nothing has a quiet wire.                   *)
LEMMA IdleIsQuiet ==
    ASSUME IInv, WireInOrder, StaleFramesBounded, ~conn.closed, active = NoRead
    PROVE  /\ Resting(conn) /\ QuietWire(toClient)
           /\ nextTxn = NextTransaction(activeTxn)
           /\ conn.connected => activeTxn \in Transactions
           /\ ~conn.connected => atPeer = <<>> /\ toClient = <<>>
<1>1. Resting(conn)
  BY DEF IInv, TypeOK, TimerCoversActive, Resting
<1>2. QuietWire(toClient)
  <2>1. Len(atPeer) + Len(toClient) <= faults
    BY <1>1 DEF Resting, StaleFramesBounded, IInv, TypeOK
  <2>2. \A i \in DOMAIN atPeer : AmongLast(atPeer[i], Len(atPeer) - i, activeTxn)
    BY DEF WireInOrder, Recent
  <2>3. \A i \in DOMAIN toClient : toClient[i].kind # "malformed" =>
           AmongLast(toClient[i], Len(atPeer) + Len(toClient) - i, activeTxn)
    BY DEF WireInOrder, Recent
  <2>4. QED BY <2>1, <2>2, <2>3 DEF QuietWire
<1>3. QED BY <1>1, <1>2 DEF WireInOrder

LEMMA EnqueueInLoopWire ==
    ASSUME IInv, WireInOrder, StaleFramesBounded, EnqueueInLoop
    PROVE  WireInOrder' /\ StaleFramesBounded'
<1>1. UNCHANGED <<toClient, faults>>
  BY DEF EnqueueInLoop
<1>2. CASE conn.closed /\ UNCHANGED <<session, atPeer>>
  BY <1>1, <1>2, SameWire
<1>3. CASE active # NoRead /\ UNCHANGED <<active, activeTxn, nextTxn, conn, atPeer>>
  BY <1>1, <1>3 DEF WireInOrder, StaleFramesBounded, Asking
<1>4. CASE ~conn.closed /\ active = NoRead /\ StartNext(Append(queue, Head(tasks).req), conn, outcomes)
  <2>1. Head(tasks).req \in Reads
    BY RunsTask DEF EnqueueInLoop
  <2>2. PICK q : q = Append(queue, Head(tasks).req)
    OBVIOUS
  <2>3. q \in Seq(Reads)
    BY <2>1, <2>2, PushRange DEF IInv, TypeOK
  <2>4. toClient' \in Seq(Frames) /\ QuietWire(toClient')
    BY <1>1, <1>4, IdleIsQuiet DEF IInv, TypeOK
  <2>5. QED BY <1>1, <1>4, <2>2, <2>3, <2>4, IdleIsQuiet, StartNextWire DEF IInv
<1>5. QED BY <1>2, <1>3, <1>4 DEF EnqueueInLoop

(* The first request on a connection has the wire for itself.                *)
LEMMA OnConnectedWire ==
    ASSUME IInv, WireInOrder, StaleFramesBounded, OnConnected
    PROVE  WireInOrder' /\ StaleFramesBounded'
<1>1. PICK c : c = [conn EXCEPT !.connecting = FALSE, !.connected = TRUE, !.timer = "none"]
  OBVIOUS
<1>2. /\ conn.connecting /\ ~conn.closed
      /\ UNCHANGED <<activeTxn, nextTxn, toClient, faults>>
  BY DEF OnConnected
<1>3. active # NoRead /\ active \in Reads /\ ~conn.connected
  BY <1>2 DEF IInv, TypeOK, TimerCoversActive
<1>4. SendActive(active, activeTxn, queue, c, outcomes)
  BY <1>1, <1>3 DEF OnConnected
<1>5. /\ nextTxn = NextTransaction(activeTxn) /\ activeTxn \in Transactions
      /\ atPeer = <<>> /\ toClient = <<>>
  BY <1>2, <1>3 DEF WireInOrder
<1>6. CASE FailAll({active} \cup Range(queue), outcomes)
  BY <1>6, ClosingWire
<1>7. PICK m : m = [req |-> active, txn |-> activeTxn]
  OBVIOUS
<1>8. CASE /\ conn' = [c EXCEPT !.awaiting = TRUE, !.timer = "response"]
           /\ active' = active /\ atPeer' = Append(atPeer, m)
  <2>1. conn'.connected /\ conn'.awaiting /\ ~conn'.closed
    BY <1>1, <1>2, <1>8 DEF IInv, TypeOK, Connections
  <2>2. atPeer' = <<m>> /\ Len(atPeer') = 1 /\ DOMAIN atPeer' = 1..1 /\ atPeer'[1] = m
    BY <1>5, <1>8
  <2>3. toClient' = <<>> /\ Len(toClient') = 0 /\ DOMAIN toClient' = {}
    BY <1>2, <1>5
  <2>4. Asking' = active
    BY <1>8, <2>1 DEF Asking
  <2>5. Recent(m, 0, activeTxn', Asking')
    BY <1>2, <1>5, <1>7, <2>4, DistanceIsNat DEF Recent, AmongLast
  <2>6. StaleFramesBounded'
    BY <1>2, <2>1, <2>2, <2>3 DEF StaleFramesBounded, IInv, TypeOK
  <2>7. QED BY <1>2, <1>5, <2>1, <2>2, <2>3, <2>5, <2>6 DEF WireInOrder
<1>9. QED BY <1>4, <1>6, <1>7, <1>8 DEF SendActive

(* A frame that is taken leaves a quiet wire, whatever is dropped with it.    *)
LEMMA TakenFrameLeavesQuiet ==
    ASSUME IInv, WireInOrder, StaleFramesBounded, ~conn.closed, active # NoRead,
           NEW k \in 1..Len(toClient), toClient' = SubSeq(toClient, k + 1, Len(toClient))
    PROVE  QuietWire(toClient')
<1>1. PICK n, T : n = Len(toClient) /\ T = toClient'
  OBVIOUS
<1>2. /\ toClient \in Seq(Frames) /\ DOMAIN toClient = 1..n /\ n \in Nat /\ n # 0
      /\ atPeer \in Seq(Requests) /\ Len(atPeer) \in Nat
  BY <1>1, LenProperties DEF IInv, TypeOK
<1>3. /\ Len(T) = n - k /\ DOMAIN T = 1..(n - k) /\ \A i \in 1..(n - k) : T[i] = toClient[i + k]
  BY <1>1, <1>2, SubSeqProperties
<1>4. Len(atPeer) + Len(T) <= faults
  BY <1>1, <1>2, <1>3 DEF StaleFramesBounded, IInv, TypeOK
<1>5. ASSUME NEW i \in DOMAIN T, T[i].kind # "malformed"
      PROVE  AmongLast(T[i], Len(atPeer) + Len(T) - i, activeTxn)
  <2>1. i + k \in DOMAIN toClient /\ T[i] = toClient[i + k]
    BY <1>2, <1>3, <1>5
  <2>2. AmongLast(toClient[i + k], Len(atPeer) + n - (i + k), activeTxn)
    BY <1>1, <1>5, <2>1 DEF WireInOrder, Recent
  <2>3. Len(atPeer) + n - (i + k) = Len(atPeer) + Len(T) - i
    BY <1>2, <1>3
  <2>4. QED BY <2>1, <2>2, <2>3
<1>6. \A i \in DOMAIN atPeer : AmongLast(atPeer[i], Len(atPeer) - i, activeTxn)
  BY DEF WireInOrder, Recent
<1>7. QED BY <1>1, <1>4, <1>5, <1>6 DEF QuietWire

LEMMA OnFrameWire ==
    ASSUME IInv, IInv', WireInOrder, StaleFramesBounded, OnFrame
    PROVE  WireInOrder' /\ StaleFramesBounded'
<1>1. conn.connected /\ ~conn.closed /\ faults' = faults /\ toClient' \in Seq(Frames)
  BY DEF OnFrame, IInv, TypeOK
<1>2. PICK k \in 1..Len(toClient) : toClient' = SubSeq(toClient, k + 1, Len(toClient))
  BY DEF OnFrame
<1>3. CASE active # NoRead /\ \E out : StartNext(queue, Idle(conn), out)
  <2>1. PICK out : StartNext(queue, Idle(conn), out)
    BY <1>3
  <2>2. Resting(Idle(conn)) /\ Idle(conn).connected
    BY <1>1, <1>3 DEF IInv, TypeOK, TimerCoversActive, Resting, Idle, Connections
  <2>3. QuietWire(toClient')
    BY <1>1, <1>2, <1>3, TakenFrameLeavesQuiet
  <2>4. nextTxn = NextTransaction(activeTxn) /\ activeTxn \in Transactions
    BY <1>1 DEF WireInOrder
  <2>5. QED BY <1>1, <2>1, <2>2, <2>3, <2>4, StartNextWire DEF IInv, TypeOK
<1>4. CASE \E out : FailAll(Range(queue), out)
  BY <1>4, ClosingWire
<1>5. CASE active = NoRead /\ UNCHANGED <<session, atPeer>>
  <2>1. PICK n, T : n = Len(toClient) /\ T = toClient'
    OBVIOUS
  <2>2. /\ toClient \in Seq(Frames) /\ DOMAIN toClient = 1..n /\ n \in Nat /\ n # 0
        /\ atPeer \in Seq(Requests) /\ Len(atPeer) \in Nat
    BY <1>2, <2>1, LenProperties DEF IInv, TypeOK
  <2>3. /\ Len(T) = n - k /\ DOMAIN T = 1..(n - k) /\ \A i \in 1..(n - k) : T[i] = toClient[i + k]
    BY <1>2, <2>1, <2>2, SubSeqProperties
  <2>4. StaleFramesBounded'
    BY <1>1, <1>5, <2>1, <2>2, <2>3 DEF StaleFramesBounded, session, IInv, TypeOK
  <2>5. Asking' = Asking
    BY <1>5 DEF Asking, session
  <2>6. ASSUME NEW i \in DOMAIN T, T[i].kind # "malformed"
        PROVE  Recent(T[i], Len(atPeer) + Len(T) - i, activeTxn, Asking)
    <3>1. i + k \in DOMAIN toClient /\ T[i] = toClient[i + k]
      BY <2>2, <2>3, <2>6
    <3>2. Recent(toClient[i + k], Len(atPeer) + n - (i + k), activeTxn, Asking)
      BY <1>1, <2>1, <2>6, <3>1 DEF WireInOrder
    <3>3. Len(atPeer) + n - (i + k) = Len(atPeer) + Len(T) - i
      BY <2>2, <2>3
    <3>4. QED BY <3>1, <3>2, <3>3
  <2>7. QED BY <1>1, <1>5, <2>1, <2>4, <2>5, <2>6 DEF WireInOrder, session
<1>6. QED BY <1>3, <1>4, <1>5 DEF OnFrame, FinishActiveSuccess, FinishActiveError

(* The peer takes a request off the wire for the frame it puts on, and adds   *)
(* only as many others as it commits faults.                                *)
LEMMA PeerAnswersWire ==
    ASSUME IInv, WireInOrder, StaleFramesBounded, PeerAnswers
    PROVE  WireInOrder' /\ StaleFramesBounded'
<1>1. PICK kind \in {"registers", "refused"} :
        toClient' = Append(toClient, Frame(kind, Head(atPeer).req, Head(atPeer).txn))
  BY DEF PeerAnswers
<1>2. PICK f, p, n : f = Frame(kind, Head(atPeer).req, Head(atPeer).txn) /\ p = Len(atPeer) /\ n = Len(toClient)
  OBVIOUS
<1>3. /\ atPeer # <<>> /\ atPeer' = Tail(atPeer) /\ ~conn.closed
      /\ UNCHANGED <<session, faults>> /\ Asking' = Asking
  BY DEF PeerAnswers, Asking, session
<1>4. /\ atPeer \in Seq(Requests) /\ DOMAIN atPeer = 1..p /\ p \in Nat /\ p # 0
      /\ toClient \in Seq(Frames) /\ DOMAIN toClient = 1..n /\ n \in Nat
  BY <1>2, <1>3, LenProperties, EmptySeq DEF IInv, TypeOK
<1>5. /\ Len(atPeer') = p - 1 /\ DOMAIN atPeer' = 1..(p - 1)
      /\ \A i \in 1..(p - 1) : atPeer'[i] = atPeer[i + 1]
      /\ Head(atPeer) = atPeer[1] /\ Head(atPeer) \in Requests
  BY <1>2, <1>3, <1>4, HeadTailProperties, LenProperties
<1>6. f \in Frames
  BY <1>2, <1>5 DEF Frame, Frames, Requests
<1>7. /\ Len(toClient') = n + 1 /\ DOMAIN toClient' = 1..(n + 1)
      /\ \A i \in 1..n : toClient'[i] = toClient[i]
      /\ toClient'[n + 1] = f
  BY <1>1, <1>2, <1>4, <1>6, AppendProperties, LenProperties
<1>8. StaleFramesBounded'
  BY <1>2, <1>3, <1>4, <1>5, <1>7 DEF StaleFramesBounded, session
<1>9. ASSUME NEW i \in DOMAIN atPeer'
      PROVE  Recent(atPeer'[i], Len(atPeer') - i, activeTxn, Asking)
  <2>1. i + 1 \in DOMAIN atPeer /\ atPeer'[i] = atPeer[i + 1] /\ p - (i + 1) = Len(atPeer') - i
    BY <1>4, <1>5
  <2>2. Recent(atPeer[i + 1], p - (i + 1), activeTxn, Asking)
    BY <1>2, <1>3, <2>1 DEF WireInOrder
  <2>3. QED BY <2>1, <2>2
<1>10. ASSUME NEW i \in DOMAIN toClient', toClient'[i].kind # "malformed"
       PROVE  Recent(toClient'[i], Len(atPeer') + Len(toClient') - i, activeTxn, Asking)
  <2>1. CASE i = n + 1
    <3>1. Recent(atPeer[1], p - 1, activeTxn, Asking)
      BY <1>2, <1>3, <1>4 DEF WireInOrder
    <3>2. Recent(f, p - 1, activeTxn, Asking)
      BY <1>2, <1>5, <3>1 DEF Recent, AmongLast, Frame
    <3>3. toClient'[i] = f /\ Len(atPeer') + Len(toClient') - i = p - 1
      BY <1>4, <1>5, <1>7, <2>1
    <3>4. QED BY <3>2, <3>3
  <2>2. CASE i \in 1..n
    <3>1. toClient'[i] = toClient[i] /\ Len(atPeer') + Len(toClient') - i = p + n - i
      BY <1>4, <1>5, <1>7, <2>2
    <3>2. Recent(toClient[i], p + n - i, activeTxn, Asking)
      BY <1>2, <1>3, <1>4, <1>10, <2>2, <3>1 DEF WireInOrder
    <3>3. QED BY <3>1, <3>2
  <2>3. QED BY <1>4, <1>7, <2>1, <2>2
<1>11. ~conn.connected => FALSE
  BY <1>3 DEF WireInOrder
<1>12. QED BY <1>3, <1>8, <1>9, <1>10, <1>11 DEF WireInOrder, session

LEMMA PeerMisbehavesWire ==
    ASSUME IInv, WireInOrder, StaleFramesBounded, PeerMisbehaves
    PROVE  WireInOrder' /\ StaleFramesBounded'
<1>1. CASE conn.closed
  BY <1>1 DEF PeerMisbehaves, session, WireInOrder, StaleFramesBounded
<1>2. CASE ~conn.closed
  <2>1. PICK f, p, n :
          /\ toClient' = Append(toClient, f) /\ p = Len(atPeer) /\ n = Len(toClient)
          /\ \/ f = Frame("malformed", NoRead, 0)
             \/ atPeer # <<>> /\ f = Frame("registers", Head(atPeer).req, Head(atPeer).txn)
    BY DEF PeerMisbehaves
  <2>2. /\ conn.connected /\ faults' = faults + 1 /\ atPeer' = atPeer
        /\ UNCHANGED session /\ Asking' = Asking /\ faults \in Nat
    BY DEF PeerMisbehaves, Asking, session, IInv, TypeOK
  <2>3. /\ atPeer \in Seq(Requests) /\ DOMAIN atPeer = 1..p /\ p \in Nat
        /\ toClient \in Seq(Frames) /\ DOMAIN toClient = 1..n /\ n \in Nat
    BY <2>1, LenProperties DEF IInv, TypeOK
  <2>4. atPeer # <<>> => p # 0 /\ Head(atPeer) = atPeer[1] /\ Head(atPeer) \in Requests
    BY <2>1, <2>3, HeadTailProperties, EmptySeq
  <2>5. f \in Frames
    BY <2>1, <2>4 DEF Frame, Frames, Requests
  <2>6. /\ Len(toClient') = n + 1 /\ DOMAIN toClient' = 1..(n + 1)
        /\ \A i \in 1..n : toClient'[i] = toClient[i]
        /\ toClient'[n + 1] = f
    BY <2>1, <2>3, <2>5, AppendProperties, LenProperties
  <2>7. StaleFramesBounded'
    BY <1>2, <2>1, <2>2, <2>3, <2>6 DEF StaleFramesBounded, session
  <2>8. ASSUME NEW x, NEW i \in Int, Recent(x, i, activeTxn, Asking), activeTxn \in Transactions
        PROVE  Recent(x, i + 1, activeTxn, Asking)
    <3>1. Distance(x.txn, activeTxn) \in Nat
      BY <2>8, DistanceIsNat DEF Recent, AmongLast
    <3>2. QED BY <2>8, <3>1 DEF Recent, AmongLast
  <2>9. activeTxn \in Transactions
    BY <1>2, <2>2 DEF WireInOrder
  <2>10. ASSUME NEW i \in DOMAIN toClient', toClient'[i].kind # "malformed"
         PROVE  Recent(toClient'[i], Len(atPeer') + Len(toClient') - i, activeTxn, Asking)
    <3>1. CASE i = n + 1
      <4>1. /\ atPeer # <<>> /\ f = Frame("registers", Head(atPeer).req, Head(atPeer).txn)
        BY <2>1, <2>6, <2>10, <3>1 DEF Frame
      <4>2. Recent(atPeer[1], p - 1, activeTxn, Asking)
        <5>1. 1 \in DOMAIN atPeer
          BY <2>3, <2>4, <4>1
        <5>2. QED BY <1>2, <2>1, <5>1 DEF WireInOrder
      <4>3. Recent(f, p - 1, activeTxn, Asking)
        BY <2>4, <4>1, <4>2 DEF Recent, AmongLast, Frame
      <4>4. toClient'[i] = f /\ Len(atPeer') + Len(toClient') - i = (p - 1) + 1
        BY <2>1, <2>2, <2>3, <2>6, <3>1
      <4>5. QED BY <2>3, <2>8, <2>9, <4>3, <4>4
    <3>2. CASE i \in 1..n
      <4>1. toClient'[i] = toClient[i] /\ Len(atPeer') + Len(toClient') - i = (p + n - i) + 1
        <5>1. toClient'[i] = toClient[i] /\ i \in Int
          BY <2>6, <3>2
        <5>2. Len(atPeer') = p /\ Len(toClient') = n + 1
          BY <2>1, <2>2, <2>6
        <5>3. QED BY <2>3, <5>1, <5>2
      <4>2. Recent(toClient[i], p + n - i, activeTxn, Asking)
        BY <1>2, <2>1, <2>3, <2>10, <3>2, <4>1 DEF WireInOrder
      <4>3. QED BY <2>3, <2>8, <2>9, <4>1, <4>2
    <3>3. QED BY <2>3, <2>6, <3>1, <3>2
  <2>11. QED BY <1>2, <2>2, <2>7, <2>10 DEF WireInOrder, session
<1>3. QED BY <1>1, <1>2

-----------------------------------------------------------------------------
(* Outcomes, and what the observers are given.                             *)

(* An observer that has ended stays ended, whatever a callback does.         *)
LEMMA EndedStay ==
    ASSUME NEW out \in [Reads -> Nat], NEW R
    PROVE  /\ Ended(out, R) \in [Reads -> Nat]
           /\ \A r \in Reads : Ended(out, R)[r] >= out[r]
BY DEF Ended

LEMMA StartNextOutcomes ==
    ASSUME NEW out \in [Reads -> Nat], NEW q, NEW c, StartNext(q, c, out)
    PROVE  \A r \in Reads : outcomes'[r] >= out[r]
<1>1. outcomes' = out \/ \E R : outcomes' = Ended(out, R)
  BY DEF StartNext, SendActive, StartConnection, FailAll
<1>2. QED BY <1>1, EndedStay

LEMMA OverStays == IInv /\ [Next]_vars => Over \subseteq Over'
<1> SUFFICES ASSUME IInv, [Next]_vars PROVE Over \subseteq Over'
  OBVIOUS
<1>1. outcomes \in [Reads -> Nat]
  BY DEF IInv, TypeOK
<1>2. \A r \in Reads : outcomes'[r] >= outcomes[r]
  <2>1. CASE UNCHANGED outcomes
    BY <1>1, <2>1
  <2>2. CASE \E R : outcomes' = Ended(outcomes, R)
    BY <1>1, <2>2, EndedStay
  <2>3. CASE \E q, c : StartNext(q, c, outcomes)
    BY <1>1, <2>3, StartNextOutcomes
  <2>4. CASE OnFrame
    <3>1. CASE FinishActiveError
      <4>1. PICK out : out = Ended(outcomes, {active})
        OBVIOUS
      <4>2. out \in [Reads -> Nat] /\ \A r \in Reads : out[r] >= outcomes[r]
        BY <1>1, <4>1, EndedStay
      <4>3. StartNext(queue, Idle(conn), out) \/ outcomes' = Ended(out, Range(queue))
        BY <3>1, <4>1 DEF FinishActiveError, FailAll
      <4>4. \A r \in Reads : outcomes'[r] >= out[r] /\ outcomes'[r] \in Int
        <5>1. CASE outcomes' = Ended(out, Range(queue))
          BY <4>2, <5>1, EndedStay
        <5>2. CASE StartNext(queue, Idle(conn), out)
          <6>1. outcomes' = out \/ \E R : outcomes' = Ended(out, R)
            BY <5>2 DEF StartNext, SendActive, StartConnection, FailAll
          <6>2. QED BY <4>2, <6>1, EndedStay
        <5>3. QED BY <4>3, <5>1, <5>2
      <4>5. QED BY <1>1, <4>2, <4>4
    <3>2. CASE \E data : FinishActiveSuccess(data)
      BY <2>3, <3>2 DEF FinishActiveSuccess
    <3>3. QED BY <2>1, <2>4, <3>1, <3>2 DEF OnFrame
  <2>5. CASE Next /\ ~OnFrame
    <3>1. \/ UNCHANGED outcomes \/ (\E R : outcomes' = Ended(outcomes, R))
          \/ \E q, c : StartNext(q, c, outcomes)
      <4>1. CASE Submit \/ PeerAnswers \/ PeerMisbehaves
        BY <4>1 DEF Submit, PeerAnswers, PeerMisbehaves
      <4>2. CASE RunTask
        BY <4>2 DEF RunTask, EnqueueInLoop, RefuseCount, DeliverSuccess
      <4>3. CASE OnConnected \/ OnDisconnected
        BY <4>3 DEF OnConnected, OnDisconnected, SendActive, FailAll
      <4>4. CASE OnConnectTimeout \/ OnResponseTimeout \/ CloseInLoop
        BY <4>4 DEF OnConnectTimeout, OnResponseTimeout, CloseInLoop, FailAll
      <4>5. QED BY <2>5, <4>1, <4>2, <4>3, <4>4 DEF Next
    <3>2. QED BY <2>1, <2>2, <2>3, <3>1
  <2>6. QED BY <2>1, <2>4, <2>5 DEF vars
<1>3. ASSUME IInv' PROVE Over \subseteq Over'
  BY <1>1, <1>2, <1>3 DEF Over, IInv, TypeOK
<1>4. QED BY <1>3, NextIInv

(* The frame that is accepted is the active read's own.                      *)
LEMMA AcceptedIsOwn ==
    ASSUME IInv, WireInOrder, conn.connected, ~conn.closed, active # NoRead,
           toClient # <<>>, Accepted(Head(toClient))
    PROVE  Head(toClient).req = active
<1>1. Head(toClient) = toClient[1] /\ 1 \in DOMAIN toClient
  BY EmptySeq, LenProperties DEF IInv, TypeOK
<1>2. Recent(toClient[1], Len(atPeer) + Len(toClient) - 1, activeTxn, Asking)
  BY <1>1 DEF WireInOrder, Accepted
<1>3. Asking = active
  BY DEF Asking, IInv, TimerCoversActive
<1>4. QED BY <1>1, <1>2, <1>3 DEF Recent, Accepted

LEMMA NextAnswers ==
    ASSUME IInv, IInv', WireInOrder, AnswersOwn, [Next]_vars PROVE AnswersOwn'
<1>1. ASSUME UNCHANGED received
      PROVE  \A r \in Reads : received'[r] \in {NoRead, r} /\ (received'[r] # NoRead => r \in Over')
  BY <1>1, OverStays DEF AnswersOwn
<1>2. DOMAIN tasks = 1..Len(tasks) /\ Len(tasks) \in Nat /\ tasks \in Seq(Tasks)
      /\ DOMAIN tasks' = 1..Len(tasks') /\ tasks' \in Seq(Tasks)
  BY LenProperties DEF IInv, TypeOK
<1>3. ASSUME NEW t, tasks' = Append(tasks, t), t.op = "success" => t.data = t.req
      PROVE  \A i \in DOMAIN tasks' : tasks'[i].op = "success" => tasks'[i].data = tasks'[i].req
  <2>1. \A i \in DOMAIN tasks' : (i \in DOMAIN tasks /\ tasks'[i] = tasks[i]) \/ tasks'[i] = t
    BY <1>2, <1>3
  <2>2. QED BY <1>3, <2>1 DEF AnswersOwn
<1>4. ASSUME tasks # <<>>, tasks' = Tail(tasks)
      PROVE  \A i \in DOMAIN tasks' : tasks'[i].op = "success" => tasks'[i].data = tasks'[i].req
  <2>1. \A i \in DOMAIN tasks' : i + 1 \in DOMAIN tasks /\ tasks'[i] = tasks[i + 1]
    BY <1>2, <1>4, HeadTailProperties, EmptySeq
  <2>2. QED BY <2>1 DEF AnswersOwn
<1>5. CASE Submit
  <2>1. PICK t : t = Task(IF submitted' \in InvalidReads THEN "invalid" ELSE "enqueue", submitted', NoRead)
    OBVIOUS
  <2>2. t.op # "success" /\ tasks' = Append(tasks, t) /\ UNCHANGED received
    BY <1>5, <2>1 DEF Submit, Task
  <2>3. QED BY <1>1, <1>3, <2>2 DEF AnswersOwn
<1>6. CASE EnqueueInLoop \/ RefuseCount
  BY <1>1, <1>4, <1>6 DEF EnqueueInLoop, RefuseCount, AnswersOwn
<1>7. CASE DeliverSuccess
  <2>1. PICK r : r = Head(tasks).req
    OBVIOUS
  <2>2. /\ tasks # <<>> /\ tasks' = Tail(tasks) /\ outcomes' = Ended(outcomes, {r})
        /\ received' = [received EXCEPT ![r] = Head(tasks).data] /\ Head(tasks).op = "success"
    BY <1>7, <2>1 DEF DeliverSuccess
  <2>3. Head(tasks) = tasks[1] /\ 1 \in DOMAIN tasks
    BY <1>2, <2>2, EmptySeq
  <2>4. Head(tasks).data = r /\ r \in Reads
    BY <2>1, <2>2, <2>3, RunsTask DEF AnswersOwn
  <2>5. r \in Over'
    <3>1. outcomes \in [Reads -> Nat]
      BY DEF IInv, TypeOK
    <3>2. outcomes'[r] = outcomes[r] + 1 /\ outcomes[r] \in Nat
      BY <2>2, <2>4, <3>1 DEF Ended
    <3>3. QED BY <2>4, <3>2 DEF Over
  <2>6. ASSUME NEW x \in Reads
        PROVE  received'[x] \in {NoRead, x} /\ (received'[x] # NoRead => x \in Over')
    <3>1. received'[x] = IF x = r THEN r ELSE received[x]
      BY <2>2, <2>4 DEF IInv, TypeOK
    <3>2. QED BY <2>5, <3>1, OverStays DEF AnswersOwn
  <2>7. QED BY <1>4, <2>2, <2>6 DEF AnswersOwn
<1>8. CASE OnFrame
  <2>1. UNCHANGED received /\ conn.connected /\ ~conn.closed /\ toClient # <<>>
    BY <1>8 DEF OnFrame
  <2>2. CASE active # NoRead /\ Accepted(Head(toClient)) /\ FinishActiveSuccess(Head(toClient).req)
    <3>1. PICK t : t = Task("success", active, Head(toClient).req)
      OBVIOUS
    <3>2. tasks' = Append(tasks, t) /\ t.data = t.req
      BY <2>1, <2>2, <3>1, AcceptedIsOwn DEF FinishActiveSuccess, Task
    <3>3. QED BY <1>1, <1>3, <2>1, <3>2 DEF AnswersOwn
  <2>3. CASE UNCHANGED tasks
    BY <1>1, <2>1, <2>3 DEF AnswersOwn
  <2>4. QED BY <1>8, <2>2, <2>3 DEF OnFrame
<1>9. CASE ~(Submit \/ RunTask \/ OnFrame)
  <2>1. UNCHANGED <<tasks, received>>
    BY <1>9 DEF Next, vars, OnConnected, OnDisconnected, OnConnectTimeout, OnResponseTimeout,
                CloseInLoop, PeerAnswers, PeerMisbehaves
  <2>2. QED BY <1>1, <2>1 DEF AnswersOwn
<1>10. QED BY <1>5, <1>6, <1>7, <1>8, <1>9 DEF RunTask

LEMMA NextWire == IInv /\ IInv' /\ WireInv /\ [Next]_vars => WireInv'
<1> SUFFICES ASSUME IInv, IInv', WireInv, [Next]_vars PROVE WireInv'
  OBVIOUS
<1>1. AnswersOwn'
  BY NextAnswers DEF WireInv
<1>2. WireInOrder' /\ StaleFramesBounded'
  <2>1. CASE OnDisconnected \/ OnConnectTimeout \/ OnResponseTimeout \/ CloseInLoop
    <3>1. FailAll(Held, outcomes)
      BY <2>1 DEF OnDisconnected, OnConnectTimeout, OnResponseTimeout, CloseInLoop,
                  IInv, TimerCoversActive, ClosedHoldsNothing, Closed
    <3>2. QED BY <3>1, ClosingWire
  <2>2. CASE Submit \/ RefuseCount \/ DeliverSuccess \/ UNCHANGED vars
    <3>1. UNCHANGED <<session, atPeer, toClient, faults>>
      BY <2>2 DEF Submit, RefuseCount, DeliverSuccess, vars
    <3>2. QED BY <3>1, SameWire DEF WireInv
  <2>3. CASE OnConnected \/ OnFrame
    BY <2>3, OnConnectedWire, OnFrameWire DEF WireInv
  <2>4. CASE PeerAnswers \/ PeerMisbehaves
    BY <2>4, PeerAnswersWire, PeerMisbehavesWire DEF WireInv
  <2>5. CASE EnqueueInLoop
    BY <2>5, EnqueueInLoopWire DEF WireInv
  <2>6. QED BY <2>1, <2>2, <2>3, <2>4, <2>5 DEF Next, RunTask
<1>3. QED BY <1>1, <1>2 DEF WireInv

LEMMA InitWire == Init => WireInv
<1> SUFFICES ASSUME Init PROVE WireInv
  OBVIOUS
<1>1. /\ tasks = <<>> /\ atPeer = <<>> /\ toClient = <<>> /\ faults = 0
      /\ activeTxn = 0 /\ nextTxn = 1 /\ ~conn.connecting /\ ~conn.connected /\ ~conn.awaiting
      /\ \A r \in Reads : received[r] = NoRead
  BY DEF Init
<1>2. DOMAIN <<>> = {} /\ Len(<<>>) = 0
  OBVIOUS
<1>3. nextTxn = NextTransaction(activeTxn)
  BY <1>1, SessionAssumption DEF NextTransaction
<1>4. WireInOrder
  BY <1>1, <1>2, <1>3 DEF WireInOrder
<1>5. StaleFramesBounded
  BY <1>1, <1>2 DEF StaleFramesBounded
<1>6. AnswersOwn
  BY <1>1, <1>2 DEF AnswersOwn
<1>7. QED BY <1>4, <1>5, <1>6 DEF WireInv

-----------------------------------------------------------------------------
(* The contract of a read.                                                 *)

(* How far a subscription has come, by where its read is.                    *)
LEMMA StatusOf ==
    ASSUME IInv, AnswersOwn, NEW r \in Reads
    PROVE  /\ r \notin Submitted => Status(r) = "idle"
           /\ r \in Submitted /\ r \notin Over => Status(r) = "subscribed"
           /\ r \in Over /\ received[r] # NoRead => Status(r) = "registers"
           /\ r \in Over /\ received[r] = NoRead => Status(r) = "error"
<1>1. submitted \in Nat /\ r \in Nat /\ r >= 1 /\ outcomes[r] \in Nat
  BY DEF IInv, TypeOK, Reads
<1>2. (r \in Submitted <=> r <= submitted) /\ (r \in Over <=> outcomes[r] > 0)
  BY <1>1 DEF Submitted, Over
<1>3. r \in Over => r \in Submitted
  BY Accounts
<1>4. QED BY <1>1, <1>2, <1>3 DEF Status

(* Except for a subscription and for registers that are delivered, a callback *)
(* can only fail reads.                                                    *)
LEMMA OnlyFails ==
    ASSUME IInv, IInv', AnswersOwn, AnswersOwn', Over \subseteq Over',
           UNCHANGED <<submitted, received>>
    PROVE  Contract!Fail(Over' \ Over)
<1>1. Submitted' = Submitted /\ Over \subseteq Submitted /\ Over' \subseteq Submitted'
  <2>1. Over \subseteq Submitted
    BY Accounts
  <2>2. Over' \subseteq Submitted'
    BY DEF IInv, OneOutcome
  <2>3. QED BY <2>1, <2>2 DEF Submitted
<1>2. ASSUME NEW r \in Reads
      PROVE  /\ r \in Over' \ Over => Status(r) = "subscribed" /\ Status(r)' = "error"
             /\ r \notin Over' \ Over => Status(r)' = Status(r)
  <2>1. /\ r \notin Submitted => Status(r) = "idle"
        /\ r \in Submitted /\ r \notin Over => Status(r) = "subscribed"
        /\ r \in Over /\ received[r] # NoRead => Status(r) = "registers"
        /\ r \in Over /\ received[r] = NoRead => Status(r) = "error"
    BY StatusOf
  <2>2. /\ r \notin Submitted => Status(r)' = "idle"
        /\ r \in Submitted /\ r \notin Over' => Status(r)' = "subscribed"
        /\ r \in Over' /\ received[r] # NoRead => Status(r)' = "registers"
        /\ r \in Over' /\ received[r] = NoRead => Status(r)' = "error"
    <3>1. submitted' \in Nat /\ r \in Nat /\ r >= 1 /\ outcomes'[r] \in Nat
      BY DEF IInv, TypeOK, Reads
    <3>2. (r \in Submitted' <=> r <= submitted') /\ (r \in Over' <=> outcomes'[r] > 0)
      BY <3>1 DEF Submitted, Over
    <3>3. QED BY <1>1, <3>1, <3>2 DEF Status
  <2>3. r \notin Over => received[r] = NoRead
    BY DEF AnswersOwn
  <2>4. QED BY <1>1, <2>1, <2>2, <2>3
<1>3. QED BY <1>2 DEF Contract!Fail, Over

LEMMA NextContract ==
    ASSUME IInv, IInv', AnswersOwn, AnswersOwn', [Next]_vars
    PROVE  [Contract!Next]_([r \in Reads |-> Status(r)])
<1>1. Over \subseteq Over'
  BY OverStays
<1>2. Over' \ Over \in SUBSET Reads
  BY DEF Over
<1>3. CASE UNCHANGED <<submitted, received>>
  BY <1>1, <1>2, <1>3, OnlyFails DEF Contract!Next
<1>4. CASE Submit
  <2>1. PICK e : e = submitted + 1
    OBVIOUS
  <2>2. submitted < MaxReads /\ submitted' = e /\ UNCHANGED <<outcomes, received>>
    BY <1>4, <2>1 DEF Submit
  <2>3. e \in Reads /\ submitted \in Nat
    BY <2>1, <2>2, SessionAssumption DEF IInv, TypeOK, Reads
  <2>4. outcomes[e] = 0
    <3>1. e \notin Over
      BY <2>1, <2>3, Accounts DEF Submitted
    <3>2. QED BY <2>3, <3>1 DEF Over, IInv, TypeOK
  <2>5. Status(e) = "idle" /\ Status(e)' = "subscribed"
    BY <2>1, <2>2, <2>3, <2>4 DEF Status
  <2>6. \A r \in Reads : r # e => Status(r)' = Status(r)
    BY <2>1, <2>2, <2>3 DEF Status, Reads
  <2>7. Contract!Subscribe(e)
    BY <2>3, <2>5, <2>6 DEF Contract!Subscribe
  <2>8. QED BY <2>3, <2>7 DEF Contract!Next
<1>5. CASE DeliverSuccess
  <2>1. PICK e : e = Head(tasks).req
    OBVIOUS
  <2>2. /\ tasks # <<>> /\ tasks' = Tail(tasks) /\ outcomes' = Ended(outcomes, {e})
        /\ received' = [received EXCEPT ![e] = Head(tasks).data] /\ Head(tasks).op = "success"
        /\ submitted' = submitted
    BY <1>5, <2>1 DEF DeliverSuccess
  <2>3. e \in Reads /\ e \in Answered /\ e \notin Over
    BY <2>1, <2>2, RunsTask
  <2>4. Head(tasks).data = e
    <3>1. Head(tasks) = tasks[1] /\ 1 \in DOMAIN tasks
      BY <2>2, EmptySeq, LenProperties DEF IInv, TypeOK
    <3>2. QED BY <2>1, <2>2, <3>1 DEF AnswersOwn
  <2>5. e # NoRead
    BY <2>3 DEF Reads, NoRead
  <2>6. received'[e] = e /\ outcomes'[e] > 0
    <3>1. outcomes[e] \in Nat /\ outcomes'[e] = outcomes[e] + 1
      BY <2>2, <2>3 DEF IInv, TypeOK, Ended
    <3>2. QED BY <2>2, <2>3, <2>4, <3>1 DEF IInv, TypeOK
  <2>7. Status(e) = "subscribed" /\ Status(e)' = "registers"
    <3>1. e \in Submitted
      BY <2>3, Accounts
    <3>2. Status(e) = "subscribed"
      BY <2>3, <3>1, StatusOf
    <3>3. e <= submitted' /\ submitted' \in Nat /\ e \in Nat
      BY <2>2, <2>3, <3>1 DEF Submitted, IInv, TypeOK, Reads
    <3>4. Status(e)' = "registers"
      BY <2>5, <2>6, <3>3 DEF Status
    <3>5. QED BY <3>2, <3>4
  <2>8. \A r \in Reads : r # e => Status(r)' = Status(r)
    <3>1. \A r \in Reads : r # e => outcomes'[r] = outcomes[r] /\ received'[r] = received[r]
      BY <2>2, <2>3 DEF Ended, IInv, TypeOK
    <3>2. QED BY <2>2, <3>1 DEF Status
  <2>9. Contract!Answer(e)
    BY <2>3, <2>7, <2>8 DEF Contract!Answer
  <2>10. QED BY <2>3, <2>9 DEF Contract!Next
<1>6. CASE ~Submit /\ ~DeliverSuccess
  BY <1>3, <1>6 DEF Next, RunTask, vars, EnqueueInLoop, RefuseCount, OnConnected, OnDisconnected,
                    OnConnectTimeout, OnResponseTimeout, OnFrame, CloseInLoop, PeerAnswers, PeerMisbehaves
<1>7. QED BY <1>4, <1>5, <1>6

-----------------------------------------------------------------------------
(* Theorems.                                                               *)

(* The invariant that everything below follows from.                       *)
THEOREM Invariance == Spec => []IInv
<1>1. Init => IInv
  BY InitIInv
<1>2. IInv /\ [Next]_vars => IInv'
  BY NextIInv
<1>3. QED BY <1>1, <1>2, PTL DEF Spec

(* No read is lost and no observer is ended twice, an active read always has   *)
(* the timer that will end it, and a closed session holds nothing, however     *)
(* many reads are posted and whatever the peer, the network and the owner do.  *)
THEOREM EveryReadAccounted == Spec => []ReadsAccounted
<1>1. IInv => ReadsAccounted
  BY DEF IInv, ReadsAccounted
<1>2. QED BY <1>1, Invariance, PTL

(* Reads are served in the order they were posted: what waits, what is held    *)
(* and what is decided follow each other.                                  *)
THEOREM OrderIsKept == Spec => []ServedInOrder
<1>1. Init => IInv /\ ServedInOrder
  BY InitIInv, InitOrder
<1>2. IInv /\ ServedInOrder /\ [Next]_vars => (IInv /\ ServedInOrder)'
  BY NextIInv, NextOrder
<1>3. QED BY <1>1, <1>2, PTL DEF Spec

(* No read is decided before one that was posted earlier, whether they are    *)
(* answered, refused, failed together or failed by closing.                 *)
THEOREM FirstComeFirstServed == Spec => []FirstInFirstDecided
BY Invariance, OrderIsKept, OrderSuffices, PTL

(* What is under way on the wire is accounted for by the active read and the   *)
(* faults of the peer, and is told apart by its transaction.                *)
THEOREM WireIsKept == Spec => []WireInv
<1>1. Init => IInv /\ WireInv
  BY InitIInv, InitWire
<1>2. IInv /\ WireInv /\ [Next]_vars => (IInv /\ WireInv)'
  BY NextIInv, NextWire
<1>3. QED BY <1>1, <1>2, PTL DEF Spec

(* Nobody is given the registers of another read, although the transaction     *)
(* counter wraps and the peer repeats answers, as long as it repeats fewer    *)
(* than there are transaction identifiers.                                 *)
THEOREM RegistersAreOwn == Spec => []OwnAnswer
<1>1. WireInv => OwnAnswer
  BY DEF WireInv, AnswersOwn, OwnAnswer
<1>2. QED BY <1>1, WireIsKept, PTL

(* Every step of the session is one that the contract of a read allows.       *)
THEOREM ContractImplemented == Spec => ImplementsContract
<1>1. Init => Contract!Init
  <2>1. SUFFICES ASSUME Init PROVE \A r \in Reads : Status(r) = "idle"
    BY DEF Contract!Init
  <2>2. QED BY <2>1 DEF Init, Status, Reads
<1>2. IInv /\ IInv' /\ WireInv /\ WireInv' /\ [Next]_vars
        => [Contract!Next]_([r \in Reads |-> Status(r)])
  BY NextContract DEF WireInv
<1>3. QED BY <1>1, <1>2, Invariance, WireIsKept, PTL DEF Spec, ImplementsContract, Contract!Spec
=============================================================================
