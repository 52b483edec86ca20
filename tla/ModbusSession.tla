---------------------------- MODULE ModbusSession ---------------------------
(***************************************************************************)
(* ModbusSession::State (src/modbus/ModbusSession.cpp): one Modbus/TCP     *)
(* connection that serves reads first in, first out, one at a time, on the *)
(* Reactor's loop.  Reads are numbered in the order they are posted to the *)
(* loop.  Every action is one callback of the loop, run to completion; a   *)
(* failed read is reported inside the callback, a successful one by a task *)
(* posted to the loop, so the two can overtake each other.                 *)
(*                                                                         *)
(* The peer answers in order, but may repeat an answer, refuse a read, or   *)
(* send a frame with an impossible length.  A frame that is not complete    *)
(* stays in _receiveBuffer and changes nothing else, so the model receives *)
(* whole frames.                                                           *)
(***************************************************************************)
EXTENDS Naturals, Sequences, Functions

CONSTANTS MaxReads,        (* reads posted; bounds the model               *)
          InvalidReads,    (* the reads whose count is not in 1..125       *)
          MaxTransaction,  (* 65535 in the code; the counter wraps to 1    *)
          MaxFaults        (* repeated or malformed frames of the peer     *)

Reads == 1..MaxReads
NoRead == 0

ASSUME SessionAssumption ==
    /\ MaxReads \in Nat \ {0}
    /\ InvalidReads \subseteq Reads
    /\ MaxTransaction \in Nat \ {0}
    /\ MaxFaults \in Nat
    /\ MaxFaults < MaxTransaction  \* fewer stale frames than transaction IDs

VARIABLES
    submitted,   (* number of reads posted so far                          *)
    tasks,       (* the Reactor's queue of posted tasks (queueInLoop)      *)
    queue,       (* _queue                                                 *)
    active,      (* _active, NoRead when empty                             *)
    activeTxn,   (* _active->transactionId                                 *)
    nextTxn,     (* _nextTransaction                                       *)
    conn,        (* _connecting, _connected, _awaitingResponse, _closed and *)
                 (* which timeout _timer is armed for                       *)
    outcomes,    (* how often each observer was completed or failed        *)
    received,    (* the read whose registers each observer was given       *)
    atPeer,      (* requests sent and not answered yet                     *)
    toClient,    (* frames of the peer on their way to onData              *)
    faults       (* repeated and malformed frames sent so far              *)

session == <<queue, active, activeTxn, nextTxn, conn>>
vars == <<submitted, tasks, session, outcomes, received, atPeer, toClient, faults>>

Task(op, r, data) == [op |-> op, req |-> r, data |-> data]
Frame(kind, r, t) == [kind |-> kind, req |-> r, txn |-> t]

Transactions == 1..MaxTransaction
Tasks == [op : {"enqueue", "invalid", "success"}, req : Reads, data : Reads \cup {NoRead}]
Requests == [req : Reads, txn : Transactions]
Frames == [kind : {"registers", "refused", "malformed"},
           req : Reads \cup {NoRead}, txn : Transactions \cup {0}]
Connections == [connecting : BOOLEAN, connected : BOOLEAN, awaiting : BOOLEAN,
                closed : BOOLEAN, timer : {"none", "connect", "response"}]

TypeOK ==
    /\ submitted \in 0..MaxReads
    /\ tasks \in Seq(Tasks)
    /\ queue \in Seq(Reads)
    /\ active \in Reads \cup {NoRead}
    /\ activeTxn \in Transactions \cup {0}
    /\ nextTxn \in Transactions
    /\ conn \in Connections
    /\ outcomes \in [Reads -> Nat]
    /\ received \in [Reads -> Reads \cup {NoRead}]
    /\ atPeer \in Seq(Requests)
    /\ toClient \in Seq(Frames)
    /\ faults \in 0..MaxFaults

Init ==
    /\ submitted = 0 /\ faults = 0
    /\ tasks = <<>> /\ queue = <<>> /\ atPeer = <<>> /\ toClient = <<>>
    /\ active = NoRead /\ activeTxn = 0 /\ nextTxn = 1
    /\ conn = [connecting |-> FALSE, connected |-> FALSE, awaiting |-> FALSE,
               closed |-> FALSE, timer |-> "none"]
    /\ outcomes = [r \in Reads |-> 0]
    /\ received = [r \in Reads |-> NoRead]

-----------------------------------------------------------------------------
(* The functions the callbacks are made of.  c and out are the connection  *)
(* and the outcomes as the caller has left them.                           *)

Ended(out, R) == [r \in Reads |-> IF r \in R THEN out[r] + 1 ELSE out[r]]

NextTransaction(t) == IF t = MaxTransaction THEN 1 ELSE t + 1

Closed == [connecting |-> FALSE, connected |-> FALSE, awaiting |-> FALSE,
           closed |-> TRUE, timer |-> "none"]

(* failAll: R are the reads still held, active first, then the queue.      *)
FailAll(R, out) ==
    /\ conn' = Closed
    /\ active' = NoRead
    /\ queue' = <<>>
    /\ outcomes' = Ended(out, R)
    /\ UNCHANGED atPeer

(* Faulty: the response timer is not armed.                                *)
SendActiveUntimed(r, t, q, c, out) ==
    \/ /\ conn' = [c EXCEPT !.awaiting = TRUE]
       /\ active' = r
       /\ queue' = q
       /\ outcomes' = out
       /\ atPeer' = Append(atPeer, [req |-> r, txn |-> t])
    \/ FailAll({r} \cup Range(q), out)

(* sendActive: r is the active read, q the reads waiting behind it.         *)
SendActive(r, t, q, c, out) ==
    \/ /\ conn' = [c EXCEPT !.awaiting = TRUE, !.timer = "response"]
       /\ active' = r
       /\ queue' = q
       /\ outcomes' = out
       /\ atPeer' = Append(atPeer, [req |-> r, txn |-> t])
    \/ FailAll({r} \cup Range(q), out)                  \* the write failed

StartConnection(r, q, c, out) ==
    \/ /\ conn' = IF c.connecting THEN c
                  ELSE [c EXCEPT !.connecting = TRUE, !.timer = "connect"]
       /\ active' = r
       /\ queue' = q
       /\ outcomes' = out
       /\ UNCHANGED atPeer
    \/ ~c.connecting /\ FailAll({r} \cup Range(q), out) \* no socket

(* startNext, where the session is open and _active is empty.  libhv calls *)
(* onConnection from the close itself, so _connected and isConnected()     *)
(* agree between callbacks.                                                *)
StartNext(q, c, out) ==
    IF q = <<>>
    THEN /\ queue' = q /\ active' = NoRead /\ conn' = c /\ outcomes' = out
         /\ UNCHANGED <<activeTxn, nextTxn, atPeer>>
    ELSE /\ activeTxn' = nextTxn
         /\ nextTxn' = NextTransaction(nextTxn)
         /\ IF c.connected THEN SendActive(Head(q), nextTxn, Tail(q), c, out)
                           ELSE StartConnection(Head(q), Tail(q), c, out)

Idle(c) == [c EXCEPT !.awaiting = FALSE, !.timer = "none"]

(* Faulty: _active still holds the failed read when its callback closes.   *)
FinishActiveErrorTwice ==
    LET out == Ended(outcomes, {active})
    IN  \/ StartNext(queue, Idle(conn), out)
        \/ FailAll({active} \cup Range(queue), out) /\ UNCHANGED <<activeTxn, nextTxn>>

(* The failure callback runs before the next read starts and may close the *)
(* session.                                                                *)
FinishActiveError ==
    LET out == Ended(outcomes, {active})
    IN  \/ StartNext(queue, Idle(conn), out)
        \/ FailAll(Range(queue), out) /\ UNCHANGED <<activeTxn, nextTxn>>

(* Faulty: the read stays active until its registers are delivered.        *)
FinishActiveSuccessKept(data) ==
    /\ tasks' = Append(tasks, Task("success", active, data))
    /\ UNCHANGED <<session, outcomes, atPeer>>

(* The success callback is posted; the next read starts before it runs.    *)
FinishActiveSuccess(data) ==
    /\ tasks' = Append(tasks, Task("success", active, data))
    /\ StartNext(queue, Idle(conn), outcomes)

Held == ({active} \ {NoRead}) \cup Range(queue)

-----------------------------------------------------------------------------
(* The callbacks.                                                          *)

(* A subscription to readHoldingRegisters, from any thread.                *)
Submit ==
    /\ submitted < MaxReads
    /\ submitted' = submitted + 1
    /\ tasks' = Append(tasks, Task(IF submitted' \in InvalidReads THEN "invalid" ELSE "enqueue",
                                   submitted', NoRead))
    /\ UNCHANGED <<session, outcomes, received, atPeer, toClient, faults>>

(* Faulty: a new read goes to the front of the queue.                      *)
EnqueueInFront ==
    /\ tasks # <<>> /\ Head(tasks).op = "enqueue"
    /\ tasks' = Tail(tasks)
    /\ LET r == Head(tasks).req
       IN  \/ /\ conn.closed
              /\ outcomes' = Ended(outcomes, {r})
              /\ UNCHANGED <<session, atPeer>>
           \/ /\ ~conn.closed /\ active # NoRead
              /\ queue' = <<r>> \o queue
              /\ UNCHANGED <<active, activeTxn, nextTxn, conn, outcomes, atPeer>>
           \/ /\ ~conn.closed /\ active = NoRead
              /\ StartNext(Append(queue, r), conn, outcomes)
    /\ UNCHANGED <<submitted, received, toClient, faults>>

(* enqueueInLoop.                                                          *)
EnqueueInLoop ==
    /\ tasks # <<>> /\ Head(tasks).op = "enqueue"
    /\ tasks' = Tail(tasks)
    /\ LET r == Head(tasks).req
       IN  \/ /\ conn.closed
              /\ outcomes' = Ended(outcomes, {r})
              /\ UNCHANGED <<session, atPeer>>
           \/ /\ ~conn.closed /\ active # NoRead
              /\ queue' = Append(queue, r)
              /\ UNCHANGED <<active, activeTxn, nextTxn, conn, outcomes, atPeer>>
           \/ /\ ~conn.closed /\ active = NoRead
              /\ StartNext(Append(queue, r), conn, outcomes)
    /\ UNCHANGED <<submitted, received, toClient, faults>>

(* The task of invalidCountFlow, which never touches the session.          *)
RefuseCount ==
    /\ tasks # <<>> /\ Head(tasks).op = "invalid"
    /\ tasks' = Tail(tasks)
    /\ outcomes' = Ended(outcomes, {Head(tasks).req})
    /\ UNCHANGED <<submitted, session, received, atPeer, toClient, faults>>

(* The task finishActiveSuccess posted: on_next, then on_completed.        *)
DeliverSuccess ==
    /\ tasks # <<>> /\ Head(tasks).op = "success"
    /\ tasks' = Tail(tasks)
    /\ outcomes' = Ended(outcomes, {Head(tasks).req})
    /\ received' = [received EXCEPT ![Head(tasks).req] = Head(tasks).data]
    /\ UNCHANGED <<submitted, session, atPeer, toClient, faults>>

OnConnected ==
    /\ conn.connecting /\ ~conn.closed
    /\ LET c == [conn EXCEPT !.connecting = FALSE, !.connected = TRUE, !.timer = "none"]
       IN  IF active = NoRead
           THEN conn' = c /\ UNCHANGED <<active, queue, outcomes, atPeer>>
           ELSE SendActive(active, activeTxn, queue, c, outcomes)
    /\ UNCHANGED <<submitted, tasks, activeTxn, nextTxn, received, toClient, faults>>

OnDisconnected ==
    /\ conn.connecting \/ conn.connected
    /\ ~conn.closed
    /\ IF conn.connected \/ active # NoRead
       THEN FailAll(Held, outcomes)
       ELSE /\ conn' = [conn EXCEPT !.connecting = FALSE, !.connected = FALSE]
            /\ UNCHANGED <<active, queue, outcomes, atPeer>>
    /\ UNCHANGED <<submitted, tasks, activeTxn, nextTxn, received, toClient, faults>>

OnConnectTimeout ==
    /\ conn.timer = "connect"
    /\ IF ~conn.closed /\ conn.connecting
       THEN FailAll(Held, outcomes)
       ELSE conn' = [conn EXCEPT !.timer = "none"] /\ UNCHANGED <<active, queue, outcomes, atPeer>>
    /\ UNCHANGED <<submitted, tasks, activeTxn, nextTxn, received, toClient, faults>>

OnResponseTimeout ==
    /\ conn.timer = "response"
    /\ IF ~conn.closed /\ active # NoRead /\ conn.awaiting
       THEN FailAll(Held, outcomes)
       ELSE conn' = [conn EXCEPT !.timer = "none"] /\ UNCHANGED <<active, queue, outcomes, atPeer>>
    /\ UNCHANGED <<submitted, tasks, activeTxn, nextTxn, received, toClient, faults>>

(* Faulty: the transaction ID of the answer is not compared.                *)
AcceptedAnyTransaction(f) == f.kind = "registers"

(* handleFrame accepts a frame only for the active read's own transaction. *)
Accepted(f) == f.kind = "registers" /\ f.txn = activeTxn

(* onData, one frame of it.  A frame with an impossible length empties      *)
(* _receiveBuffer, and with it the k frames that arrived behind it.         *)
OnFrame ==
    /\ toClient # <<>> /\ conn.connected /\ ~conn.closed
    /\ LET f == Head(toClient)
       IN  /\ \E k \in 1..Len(toClient) :
                 /\ k > 1 => f.kind = "malformed"
                 /\ toClient' = SubSeq(toClient, k + 1, Len(toClient))
           /\ \/ /\ active = NoRead
                 /\ UNCHANGED <<session, tasks, outcomes, atPeer>>
              \/ /\ active # NoRead /\ Accepted(f)
                 /\ FinishActiveSuccess(f.req)
              \/ /\ active # NoRead /\ ~Accepted(f)
                 /\ FinishActiveError
                 /\ UNCHANGED tasks
    /\ UNCHANGED <<submitted, received, faults>>

(* close(), called by the owner on the loop.                               *)
CloseInLoop ==
    /\ ~conn.closed
    /\ FailAll(Held, outcomes)
    /\ UNCHANGED <<submitted, tasks, activeTxn, nextTxn, received, toClient, faults>>

-----------------------------------------------------------------------------
(* The peer (external).  It reads nothing once the session has closed.     *)

PeerAnswers ==
    /\ atPeer # <<>> /\ ~conn.closed
    /\ \E kind \in {"registers", "refused"} :
          toClient' = Append(toClient, Frame(kind, Head(atPeer).req, Head(atPeer).txn))
    /\ atPeer' = Tail(atPeer)
    /\ UNCHANGED <<submitted, tasks, session, outcomes, received, faults>>

PeerMisbehaves ==
    /\ faults < MaxFaults /\ conn.connected
    /\ faults' = faults + 1
    /\ \/ /\ atPeer # <<>>                                \* answers twice
          /\ toClient' = Append(toClient, Frame("registers", Head(atPeer).req, Head(atPeer).txn))
       \/ toClient' = Append(toClient, Frame("malformed", NoRead, 0))
    /\ UNCHANGED <<submitted, tasks, session, outcomes, received, atPeer>>

RunTask == EnqueueInLoop \/ RefuseCount \/ DeliverSuccess

Next == \/ Submit \/ RunTask
        \/ OnConnected \/ OnDisconnected \/ OnConnectTimeout \/ OnResponseTimeout
        \/ OnFrame \/ CloseInLoop
        \/ PeerAnswers \/ PeerMisbehaves

Spec == Init /\ [][Next]_vars

(* The loop drains the tasks posted to it and fires the timers it has      *)
(* armed.  Nothing is asked of the peer, the network or the owner.          *)
FairSpec == Spec /\ WF_vars(RunTask) /\ WF_vars(OnConnectTimeout) /\ WF_vars(OnResponseTimeout)

-----------------------------------------------------------------------------
(* Properties.                                                             *)

TaskReads(op) == {tasks[i].req : i \in {j \in DOMAIN tasks : tasks[j].op = op}}

Submitted == 1..submitted

(* Where a posted read can be: still a task, held by the session, its       *)
(* registers posted but not delivered, or its observer ended.               *)
Waiting == TaskReads("enqueue") \cup TaskReads("invalid")
Answered == TaskReads("success")
Over == {r \in Reads : outcomes[r] > 0}
Decided == Answered \cup Over

(* Every read that was posted is in exactly one place and its observer is   *)
(* ended at most once: finishing, failing everything and closing from a     *)
(* failure callback never lose a read and never answer one twice.           *)
OneOutcome ==
    /\ \A r \in Reads : outcomes[r] <= 1
    /\ Submitted = Waiting \cup Held \cup Answered \cup Over
    /\ Waiting \cap (Held \cup Answered \cup Over) = {}
    /\ Held \cap (Answered \cup Over) = {}
    /\ Answered \cap Over = {}
    /\ \A i, j \in DOMAIN tasks : tasks[i].req = tasks[j].req => i = j

(* As long as a read is active a timer is armed for the very thing it waits *)
(* for, and reads wait in the queue only behind an active one: no read can  *)
(* be left waiting for an event that never comes.                           *)
TimerCoversActive ==
    /\ active # NoRead =>
         \/ conn.connecting /\ ~conn.connected /\ ~conn.awaiting /\ conn.timer = "connect"
         \/ conn.connected /\ ~conn.connecting /\ conn.awaiting /\ conn.timer = "response"
    /\ active = NoRead =>
         queue = <<>> /\ ~conn.connecting /\ ~conn.awaiting /\ conn.timer = "none"

(* A closed session holds no read and no timer, so the loop can drop it.    *)
ClosedHoldsNothing == conn.closed => Held = {} /\ conn = Closed

(* Every posted read is in one place and is ended once; while the session    *)
(* holds reads, a timer runs for the first of them; and once it is closed it  *)
(* holds none.                                                             *)
ReadsAccounted == TypeOK /\ OneOutcome /\ TimerCoversActive /\ ClosedHoldsNothing

(* Reads are decided in the order they were posted, whether they succeed,   *)
(* fail, or are failed together: none overtakes an earlier one.             *)
FirstInFirstDecided ==
    \A r \in Decided \ InvalidReads : \A e \in (1..r) \ InvalidReads : e \in Decided

(* Stale frames never pile up: each is owed to one fault of the peer.       *)
StaleFramesBounded ==
    ~conn.closed => Len(atPeer) + Len(toClient) <= faults + (IF conn.awaiting THEN 1 ELSE 0)

(* An observer that gets registers gets those of its own request, although  *)
(* the transaction counter wraps and the peer may repeat answers; and a     *)
(* peer that behaves is never misunderstood, for no answer is left over.    *)
OwnAnswer ==
    /\ \A r \in Reads : received[r] \in {NoRead, r}
    /\ StaleFramesBounded

(* What the subscribers see is the contract of a read.                      *)
Status(r) == CASE r > submitted -> "idle"
               [] r <= submitted /\ outcomes[r] = 0 -> "subscribed"
               [] r <= submitted /\ outcomes[r] > 0 /\ received[r] # NoRead -> "registers"
               [] OTHER -> "error"

Contract == INSTANCE ReadContract WITH status <- [r \in Reads |-> Status(r)]

(* Every step of the session is a step of the contract of a read.           *)
ImplementsContract == Contract!Spec

(* Every posted read ends, whatever the peer and the network do.            *)
EveryReadEnds == Contract!EveryReadEnds
=============================================================================
