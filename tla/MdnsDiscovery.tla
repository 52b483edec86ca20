---------------------------- MODULE MdnsDiscovery ---------------------------
(***************************************************************************)
(* MdnsDiscovery (src/mdns/MdnsDiscovery.cpp): the records that answer its  *)
(* queries are put together to services, a service is emitted once it has   *)
(* its PTR and its SRV record, and again whenever it has changed.           *)
(*                                                                         *)
(* Multicast loses, delays, repeats and reorders: a datagram carries any    *)
(* part of what a device has to say of an instance, as it is now or as it   *)
(* was when the datagram was sent.  Of an SRV record only the host is kept  *)
(* (port, priority and weight go with it, and so does what a TXT record     *)
(* adds), of a time to live whether it was 0.  Names are their dnsKey.      *)
(***************************************************************************)
EXTENDS Naturals

CONSTANTS Instances,         (* service instances, each of one device      *)
          Hosts, Addresses,
          FirstHost, FirstAddress,  (* where everything is at first        *)
          None,
          MaxMoves,          (* changes of host or address; a bound        *)
          MaxLate,           (* outdated datagrams and goodbyes; a bound   *)
          MaxQueryFaults     (* queries that cannot be sent; a bound       *)

ASSUME MdnsAssumption ==
    /\ FirstHost \in Hosts /\ FirstAddress \in [Hosts -> Addresses] /\ None \notin Hosts
    /\ {MaxMoves, MaxLate, MaxQueryFaults} \subseteq Nat

Kinds == {"PTR", "SRV", "A"}

VARIABLES
    phase,       (* "idle" before the constructor; then what became of     *)
                 (* the subject: "running", "ended" or "failed"            *)
    stopped,     (* _stopped: the socket is closed                         *)
    discovered,  (* _discoveredServices, without the addresses             *)
    addresses,   (* _addresses                                             *)
    emitted,     (* _emitted                                               *)
    view,        (* what subscribers were told last                        *)
    behind,      (* the last datagram could not be parsed to its end       *)
    host, address,               (* the network: where an instance and a   *)
    formerHosts, formerAddresses,(* host are, and where they were          *)
    moves, late, queryFaults     (* what is bounded, so far                *)

discovery == <<phase, stopped, discovered, addresses, emitted, view, behind>>
network == <<host, address, formerHosts, formerAddresses>>
vars == <<discovery, network, moves, late, queryFaults>>

(* A service as it is emitted.                                             *)
Service == [host : Hosts, goodbye : BOOLEAN, addresses : SUBSET Addresses]

TypeOK ==
    /\ phase \in {"idle", "running", "ended", "failed"} /\ {stopped, behind} \subseteq BOOLEAN
    /\ discovered \in [Instances -> [ptr : BOOLEAN, host : Hosts \cup {None}, goodbye : BOOLEAN]]
    /\ addresses \in [Hosts -> SUBSET Addresses]
    /\ {emitted, view} \subseteq [Instances -> Service \cup {None}]
    /\ host \in [Instances -> Hosts] /\ address \in [Hosts -> Addresses]
    /\ formerHosts \in [Instances -> SUBSET Hosts]
    /\ formerAddresses \in [Hosts -> SUBSET Addresses]
    /\ moves \in 0..MaxMoves /\ late \in 0..MaxLate /\ queryFaults \in 0..MaxQueryFaults

Init ==
    /\ phase = "idle" /\ stopped = FALSE /\ behind = FALSE
    /\ discovered = [i \in Instances |-> [ptr |-> FALSE, host |-> None, goodbye |-> FALSE]]
    /\ addresses = [h \in Hosts |-> {}]
    /\ emitted = [i \in Instances |-> None] /\ view = emitted
    /\ host = [i \in Instances |-> FirstHost] /\ address = FirstAddress
    /\ formerHosts = [i \in Instances |-> {}] /\ formerAddresses = [h \in Hosts |-> {}]
    /\ moves = 0 /\ late = 0 /\ queryFaults = 0

-----------------------------------------------------------------------------
(* The network.                                                            *)

InstanceMoves(i, h) ==
    /\ moves < MaxMoves /\ h # host[i]
    /\ host' = [host EXCEPT ![i] = h]
    /\ formerHosts' = [formerHosts EXCEPT ![i] = @ \cup {host[i]}]
    /\ moves' = moves + 1
    /\ UNCHANGED <<discovery, address, formerAddresses, late, queryFaults>>

HostMoves(h, a) ==
    /\ moves < MaxMoves /\ a # address[h]
    /\ address' = [address EXCEPT ![h] = a]
    /\ formerAddresses' = [formerAddresses EXCEPT ![h] = @ \cup {address[h]}]
    /\ moves' = moves + 1
    /\ UNCHANGED <<discovery, host, formerHosts, late, queryFaults>>

(* A datagram about one instance.  kinds are the records that could be       *)
(* parsed; parsed says whether the answers were parsed to their end.        *)
Datagram == [of : Instances, kinds : SUBSET Kinds, host : Hosts, address : Addresses,
             goodbye : BOOLEAN, parsed : BOOLEAN]

Sent(d) ==
    /\ d.kinds # {}
    /\ IF d.kinds = {"PTR"} THEN d.host = host[d.of]
                            ELSE d.host \in {host[d.of]} \cup formerHosts[d.of]
    /\ IF "A" \notin d.kinds THEN d.address = address[d.host]
                              ELSE d.address \in {address[d.host]} \cup formerAddresses[d.host]

Outdated(d) == \/ d.goodbye
               \/ d.kinds \cap {"SRV", "A"} # {} /\ d.host # host[d.of]
               \/ "A" \in d.kinds /\ d.address # address[d.host]

-----------------------------------------------------------------------------
(* The discovery.                                                          *)

Construct ==
    /\ phase = "idle"
    /\ phase' = "running"
    /\ UNCHANGED <<stopped, discovered, addresses, emitted, view, behind>>
    /\ UNCHANGED <<network, moves, late, queryFaults>>

(* Faulty: the first SRV record stays.                                      *)
AssembledOnce(d) ==
    [ptr |-> discovered[d.of].ptr \/ "PTR" \in d.kinds,
     host |-> IF "SRV" \in d.kinds /\ discovered[d.of].host = None
              THEN d.host ELSE discovered[d.of].host,
     goodbye |-> IF d.kinds # {"A"} THEN d.goodbye ELSE discovered[d.of].goodbye]

(* handleRecord for every record of a datagram but its addresses; a record   *)
(* with a time to live of 0 is one like any other.                          *)
Assembled(d) ==
    [ptr |-> discovered[d.of].ptr \/ "PTR" \in d.kinds,
     host |-> IF "SRV" \in d.kinds THEN d.host ELSE discovered[d.of].host,
     goodbye |-> IF d.kinds # {"A"} THEN d.goodbye ELSE discovered[d.of].goodbye]

Whole(entry) == entry.ptr /\ entry.host # None

(* A service with every address its host has ever had.                      *)
ServiceOf(entry, known) ==
    [host |-> entry.host, goodbye |-> entry.goodbye, addresses |-> known[entry.host]]

(* Faulty: only services the datagram names are looked at.                  *)
ToEmitNamed(d, i) == i = d.of /\ d.kinds # {"A"} /\ Whole(discovered'[i])

(* The services emitChanges looks at.                                      *)
ToEmit(d, i) == Whole(discovered'[i])

(* emitChanges; a subject that is closed tells nobody.                      *)
EmitChanges(d) ==
    /\ emitted' = [i \in Instances |-> IF ToEmit(d, i) THEN ServiceOf(discovered'[i], addresses')
                                                     ELSE emitted[i]]
    /\ view' = [i \in Instances |-> IF phase = "running" /\ emitted'[i] # emitted[i]
                                    THEN emitted'[i] ELSE view[i]]

(* onDatagram.                                                             *)
Receive(d) ==
    /\ phase # "idle" /\ ~stopped /\ Sent(d)
    /\ Outdated(d) => late < MaxLate
    /\ late' = IF Outdated(d) THEN late + 1 ELSE late
    /\ discovered' = [discovered EXCEPT ![d.of] = Assembled(d)]
    /\ addresses' = IF "A" \in d.kinds THEN [addresses EXCEPT ![d.host] = @ \cup {d.address}]
                                       ELSE addresses
    /\ behind' = ~d.parsed
    /\ IF d.parsed THEN EmitChanges(d) ELSE UNCHANGED <<emitted, view>>
    /\ UNCHANGED <<phase, stopped, network, moves, queryFaults>>

(* discover() cannot send its query; sendQuery fails the subject.           *)
QueryFails ==
    /\ phase # "idle" /\ queryFaults < MaxQueryFaults
    /\ queryFaults' = queryFaults + 1
    /\ phase' = IF phase = "running" THEN "failed" ELSE phase
    /\ UNCHANGED <<stopped, discovered, addresses, emitted, view, behind, network, moves, late>>

(* Faulty: the flow is completed again, although it has failed.             *)
StopCompletes ==
    /\ phase # "idle" /\ ~stopped
    /\ stopped' = TRUE
    /\ phase' = "ended"
    /\ UNCHANGED <<discovered, addresses, emitted, view, behind>>
    /\ UNCHANGED <<network, moves, late, queryFaults>>

Stop ==
    /\ phase # "idle" /\ ~stopped
    /\ stopped' = TRUE
    /\ phase' = IF phase = "running" THEN "ended" ELSE phase
    /\ UNCHANGED <<discovered, addresses, emitted, view, behind>>
    /\ UNCHANGED <<network, moves, late, queryFaults>>

Next == \/ Construct \/ Stop \/ QueryFails
        \/ \E d \in Datagram : Receive(d)
        \/ \E i \in Instances, h \in Hosts : InstanceMoves(i, h)
        \/ \E h \in Hosts, a \in Addresses : HostMoves(h, a)

Spec == Init /\ [][Next]_vars

(* A device's whole answer to a query, as things are.                       *)
Answer(i) == [of |-> i, kinds |-> Kinds, host |-> host[i], address |-> address[host[i]],
              goodbye |-> FALSE, parsed |-> TRUE]

(* main() constructs the discovery; every discovery tick queries again, and *)
(* not every answer to these queries is lost.                               *)
FairSpec == Spec /\ WF_vars(Construct) /\ \A i \in Instances : WF_vars(Receive(Answer(i)))

-----------------------------------------------------------------------------
(* Properties.                                                             *)

(* Whatever came before, in whatever order: after a datagram that could be   *)
(* parsed every service is emitted as its records and the addresses of its  *)
(* host now are, also the services that the datagram did not name and those *)
(* whose records came in one that could not be parsed.                      *)
EmissionsCurrent ==
    /\ TypeOK
    /\ ~behind => \A i \in Instances : Whole(discovered[i]) =>
                                          emitted[i] = ServiceOf(discovered[i], addresses)
    /\ phase = "running" => view = emitted

(* What a service may be, of all that the network has been.                  *)
Shown == [i \in Instances |->
            UNION {[host : {h}, goodbye : BOOLEAN,
                    addresses : SUBSET ({address[h]} \cup formerAddresses[h])] :
                     h \in {host[i]} \cup formerHosts[i]}]

Flow == INSTANCE ServiceFlow WITH Names <- Instances, Unknown <- None, shown <- Shown

(* No service is made of records of different devices, and nothing is       *)
(* emitted after the one end of the flow.                                   *)
ImplementsFlow == Flow!Spec

(* As long as the flow is open, it arrives at the services as they are,      *)
(* however records were lost, late or damaged on the way; only addresses    *)
(* that hosts have given up stay.                                           *)
SettlesOnTruth ==
    <>[](phase = "running" =>
           \A i \in Instances : /\ view[i] # None /\ view[i].host = host[i]
                                /\ ~view[i].goodbye
                                /\ address[host[i]] \in view[i].addresses)
=============================================================================
