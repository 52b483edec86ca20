-------------------------- MODULE ModbusIdentifier --------------------------
(***************************************************************************)
(* Identifier and TcpExchange (src/modbus/ModbusDiscovery.cpp): one unit of *)
(* one open port is asked for its Device Identification (MEI 43/14), page   *)
(* after page, and for one holding register when it has none.  Every        *)
(* request is an exchange of its own: connect, send, one answer, close.     *)
(* Exchanges are numbered as they are created.                             *)
(***************************************************************************)
EXTENDS Naturals, Sequences, FiniteSets

CONSTANTS LastPage,          (* 7 in the code: the last page that may ask on *)
          ObjectIds          (* object IDs a device may name as the next   *)

ASSUME IdentifierAssumption == LastPage \in Nat /\ 0 \in ObjectIds

Exchanges == 1..(LastPage + 2)   \* every page, and the fallback
NoExchange == 0

VARIABLES
    tasks,      (* the Reactor's queue of posted tasks                      *)
    exchange,   (* what each TcpExchange is doing                          *)
    created,    (* exchanges created so far                                *)
    current,    (* Identifier::_exchange                                   *)
    asking,     (* which request it carries: "mei" or "fallback"            *)
    objectId,   (* _objectId                                               *)
    page,       (* _page                                                   *)
    identified, (* _thing.hasDeviceIdentification                          *)
    finished,   (* _finished                                               *)
    cancelled,  (* cancel() was called: _result is gone                     *)
    result      (* the calls of the result callback: a thing or nothing     *)

identifier == <<created, current, asking, objectId, page, identified, finished, result>>
identifierVars == <<tasks, exchange, identifier, cancelled>>

Task(op, e) == [op |-> op, exchange |-> e]

IdentifierTypeOK ==
    /\ tasks \in Seq([op : {"start", "cancel"}, exchange : Exchanges])
    /\ exchange \in [Exchanges -> {"none", "posted", "connecting", "awaiting", "finished"}]
    /\ created \in 0..Cardinality(Exchanges)
    /\ current \in {NoExchange, created}
    /\ asking \in {"mei", "fallback"}
    /\ objectId \in ObjectIds /\ page \in 0..LastPage
    /\ identified \in BOOLEAN /\ finished \in BOOLEAN /\ cancelled \in BOOLEAN
    /\ result \in Seq({"thing", "nothing"})

IdentifierInit ==
    /\ tasks = <<>> /\ exchange = [e \in Exchanges |-> "none"]
    /\ created = 0 /\ current = NoExchange /\ asking = "mei"
    /\ objectId = 0 /\ page = 0
    /\ identified = FALSE /\ finished = FALSE /\ cancelled = FALSE /\ result = <<>>

-----------------------------------------------------------------------------
(* The identifier's functions.  x is what the exchanges are as the caller   *)
(* has left them, t the posted tasks.                                      *)

Begin(what, x, t) ==
    /\ created' = created + 1
    /\ current' = created'
    /\ asking' = what
    /\ exchange' = [x EXCEPT ![created'] = "posted"]
    /\ tasks' = Append(t, Task("start", created'))

RequestMei(x, t) == Begin("mei", x, t)
RequestFallback(x, t) == Begin("fallback", x, t)

(* complete(); _result is called if cancel() has not dropped it.            *)
Complete(with, x, t) ==
    /\ finished' = TRUE
    /\ result' = Append(result, with)
    /\ current' = NoExchange
    /\ exchange' = x /\ tasks' = t
    /\ UNCHANGED <<created, asking>>

(* Faulty: pages are not counted.                                           *)
AsksOnForever(more, next) == more /\ next # objectId

(* There is another page if the device says so, names another object, and   *)
(* has not been asked too often.                                           *)
AsksOn(more, next) == more /\ next # objectId /\ page < LastPage

(* onMei.  An answer with good PDU header marks the thing as identified     *)
(* before its objects are read, and it keeps the mark if they are bad.      *)
OnMei(answer, x, t) ==
    \/ /\ answer \in {"error", "foreign"}    \* also another PDU, or too short
       /\ RequestFallback(x, t)
       /\ UNCHANGED <<objectId, page, identified, finished, result>>
    \/ /\ answer = "exception"
       /\ Complete("thing", x, t)
       /\ UNCHANGED <<objectId, page, identified>>
    \/ /\ answer = "normal"
       /\ identified' = TRUE
       /\ \/ /\ RequestFallback(x, t)          \* an object exceeds the PDU
             /\ UNCHANGED <<objectId, page, finished, result>>
          \/ \E more \in BOOLEAN, next \in ObjectIds :
                IF AsksOn(more, next)
                THEN /\ objectId' = next
                     /\ page' = page + 1
                     /\ RequestMei(x, t)
                     /\ UNCHANGED <<finished, result>>
                ELSE Complete("thing", x, t) /\ UNCHANGED <<objectId, page>>

OnFallback(answer, x, t) ==
    /\ Complete(IF answer \in {"normal", "exception"} THEN "thing" ELSE "nothing", x, t)
    /\ UNCHANGED <<objectId, page, identified>>

(* TcpExchange::finish, whose result callback is onMei or onFallback; it    *)
(* does nothing more once the identifier has finished.                     *)
Finish(e, answer, t) ==
    IF exchange[e] = "finished"
    THEN tasks' = t /\ UNCHANGED <<exchange, identifier>>
    ELSE LET x == [exchange EXCEPT ![e] = "finished"]
         IN  \/ /\ finished
                /\ exchange' = x /\ tasks' = t /\ current' = NoExchange
                /\ UNCHANGED <<created, asking, objectId, page, identified, finished, result>>
             \/ ~finished /\ asking = "mei" /\ OnMei(answer, x, t)
             \/ ~finished /\ asking = "fallback" /\ OnFallback(answer, x, t)

-----------------------------------------------------------------------------
(* The calls and the callbacks.                                            *)

Start ==
    /\ created = 0
    /\ RequestMei(exchange, tasks)
    /\ UNCHANGED <<objectId, page, identified, finished, cancelled, result>>

(* Faulty: the identification goes on.                                      *)
CancelGoesOn ==
    /\ created > 0 /\ ~finished
    /\ cancelled' = TRUE
    /\ UNCHANGED <<tasks, exchange, identifier>>

(* Identifier::cancel(): nothing is reported any more, and the exchange is   *)
(* finished by a task.  fill() starts what it creates, so it has started.    *)
Cancel ==
    /\ created > 0 /\ ~finished
    /\ cancelled' = TRUE /\ finished' = TRUE
    /\ tasks' = IF current = NoExchange THEN tasks ELSE Append(tasks, Task("cancel", current))
    /\ UNCHANGED <<exchange, created, current, asking, objectId, page, identified, result>>

(* TcpExchange::startInLoop.                                                *)
RunStart ==
    /\ tasks # <<>> /\ Head(tasks).op = "start"
    /\ LET e == Head(tasks).exchange
       IN  \/ Finish(e, "error", Tail(tasks))            \* no socket
           \/ /\ exchange[e] = "posted"
              /\ exchange' = [exchange EXCEPT ![e] = "connecting"]
              /\ tasks' = Tail(tasks)
              /\ UNCHANGED identifier
    /\ UNCHANGED cancelled

RunCancel ==
    /\ tasks # <<>> /\ Head(tasks).op = "cancel"
    /\ Finish(Head(tasks).exchange, "error", Tail(tasks))
    /\ UNCHANGED cancelled

(* Connected: the request is sent and the response timer armed, or it       *)
(* cannot be written.                                                      *)
OnConnected(e) ==
    /\ exchange[e] = "connecting"
    /\ \/ /\ exchange' = [exchange EXCEPT ![e] = "awaiting"]
          /\ UNCHANGED <<tasks, identifier>>
       \/ Finish(e, "error", tasks)
    /\ UNCHANGED cancelled

(* Refused, lost, or not connected in time (libhv's timeout).               *)
OnDisconnected(e) ==
    /\ exchange[e] \in {"connecting", "awaiting"}
    /\ Finish(e, "error", tasks)
    /\ UNCHANGED cancelled

(* Faulty: the connection is closed, the identifier not told.               *)
OnResponseTimeoutSilent(e) ==
    /\ exchange[e] = "awaiting"
    /\ exchange' = [exchange EXCEPT ![e] = "finished"]
    /\ UNCHANGED <<tasks, identifier, cancelled>>

OnResponseTimeout(e) ==
    /\ exchange[e] = "awaiting"
    /\ Finish(e, "error", tasks)
    /\ UNCHANGED cancelled

(* onData with the last byte of an answer: one whole frame, or one of an     *)
(* impossible length or with bytes behind it, which is an error.            *)
OnData(e) ==
    /\ exchange[e] = "awaiting"
    /\ \E answer \in {"error", "foreign", "exception", "normal"} : Finish(e, answer, tasks)
    /\ UNCHANGED cancelled

RunTask == RunStart \/ RunCancel
Times(e) == (exchange[e] = "connecting" /\ OnDisconnected(e)) \/ OnResponseTimeout(e)

IdentifierNext == \/ Start \/ Cancel \/ RunTask
        \/ \E e \in Exchanges : \/ OnConnected(e) \/ OnDisconnected(e)
                                \/ OnResponseTimeout(e) \/ OnData(e)

IdentifierSpec == IdentifierInit /\ [][IdentifierNext]_identifierVars

(* The loop runs its tasks and fires its timers; nothing is asked of the     *)
(* device or the network.                                                  *)
FairIdentifierSpec == IdentifierSpec /\ WF_identifierVars(RunTask) /\ \A e \in Exchanges : WF_identifierVars(Times(e))

-----------------------------------------------------------------------------
(* Properties.                                                             *)

Unfinished == {e \in Exchanges : exchange[e] \notin {"none", "finished"}}

(* An identifier never holds two connections to its device at a time.       *)
OneConnection == Cardinality(Unfinished) <= 1

(* Until it has finished, the identifier waits for exactly the exchange it   *)
(* holds; afterwards only a cancelled exchange may be open, and the task     *)
(* that closes it is on its way.                                           *)
ExchangeOwned ==
    /\ created > 0 /\ ~finished => Unfinished = {current}
    /\ finished => \A e \in Unfinished :
          \E i \in DOMAIN tasks : tasks[i] = Task("cancel", e)

(* The result is reported once, by an identifier that was not cancelled,    *)
(* and only when no exchange is left behind.                                *)
ReportedOnce ==
    /\ Len(result) <= 1
    /\ result # <<>> => finished /\ ~cancelled /\ Unfinished = {}

(* However the device answers, an identification takes at most one exchange *)
(* for each page and one more: a device that always has another page, or    *)
(* names two in turn, is not asked for ever.                               *)
PagesBounded ==
    /\ asking = "mei" => created <= page + 1
    /\ asking = "fallback" => created <= page + 2
    /\ created <= LastPage + 2

(* At most one connection to the device is open, it is the one the          *)
(* identifier waits for or one whose cancellation is on its way, and there   *)
(* are boundedly many one after another.                                   *)
ExchangesAccounted == IdentifierTypeOK /\ OneConnection /\ ExchangeOwned /\ PagesBounded

(* An identifier that is started reports a result or is cancelled.          *)
IdentifierEnds == created > 0 ~> (result # <<>> \/ cancelled)
=============================================================================
