---------------------- MODULE MdnsAndIdentifierProofs -----------------------
(***************************************************************************)
(* Theorems about the two components that talk to devices directly.  First   *)
(* MdnsDiscovery, for all sets of instances, hosts and addresses, however    *)
(* often these move and whatever the network loses, delays, repeats or       *)
(* damages; then ModbusIdentifier, for every number of pages and all object  *)
(* IDs a device may name.                                                  *)
(***************************************************************************)
EXTENDS MdnsDiscovery, ModbusIdentifier, SequenceTheorems, FiniteSetTheorems, TLAPS

-----------------------------------------------------------------------------
(* The inductive invariant.                                                *)

(* Where an instance and a host are or have been.                           *)
HostsOf(i) == {host[i]} \cup formerHosts[i]
AddressesOf(h) == {address[h]} \cup formerAddresses[h]

(* All that the discovery has put together was true at some time.            *)
OnlyWhatWas ==
    /\ \A i \in Instances : discovered[i].host # None => discovered[i].host \in HostsOf(i)
    /\ \A h \in Hosts : addresses[h] \subseteq AddressesOf(h)

(* Subscribers of a flow that has not ended were told all that was emitted.  *)
ToldAll == phase \in {"idle", "running"} => view = emitted

IInv == EmissionsCurrent /\ OnlyWhatWas /\ ToldAll

-----------------------------------------------------------------------------
(* What a datagram adds to an entry and what emitChanges makes of it.        *)

Entries == [ptr : BOOLEAN, host : Hosts \cup {None}, goodbye : BOOLEAN]

LEMMA AssembledFacts ==
    ASSUME TypeOK, NEW d \in Datagram
    PROVE  /\ Assembled(d) \in Entries
           /\ Assembled(d).host # discovered[d.of].host => "SRV" \in d.kinds /\ Assembled(d).host = d.host
<1>1. d.host \in Hosts /\ d.goodbye \in BOOLEAN /\ d.of \in Instances
  BY DEF Datagram
<1>2. discovered[d.of] \in Entries
  BY <1>1 DEF TypeOK, Entries
<1>3. /\ (discovered[d.of].ptr \/ "PTR" \in d.kinds) \in BOOLEAN
      /\ (IF "SRV" \in d.kinds THEN d.host ELSE discovered[d.of].host) \in Hosts \cup {None}
      /\ (IF d.kinds # {"A"} THEN d.goodbye ELSE discovered[d.of].goodbye) \in BOOLEAN
  BY <1>1, <1>2 DEF Entries
<1>4. Assembled(d) \in Entries
  BY <1>3 DEF Assembled, Entries
<1>5. Assembled(d).host = IF "SRV" \in d.kinds THEN d.host ELSE discovered[d.of].host
  BY DEF Assembled
<1>6. QED BY <1>4, <1>5

LEMMA ServiceOfFacts ==
    ASSUME NEW entry \in Entries, Whole(entry), NEW known \in [Hosts -> SUBSET Addresses]
    PROVE  /\ ServiceOf(entry, known) \in Service
           /\ entry.host \in Hosts
<1>1. entry.host \in Hosts /\ entry.goodbye \in BOOLEAN
  BY DEF Entries, Whole
<1>2. known[entry.host] \in SUBSET Addresses
  BY <1>1
<1>3. QED BY <1>1, <1>2 DEF ServiceOf, Service

(* The part of IInv that receiving is about.                                *)
LEMMA StateTypes ==
    ASSUME IInv
    PROVE  /\ TypeOK
           /\ discovered \in [Instances -> Entries]
           /\ addresses \in [Hosts -> SUBSET Addresses]
           /\ emitted \in [Instances -> Service \cup {None}]
           /\ view \in [Instances -> Service \cup {None}]
           /\ host \in [Instances -> Hosts] /\ address \in [Hosts -> Addresses]
           /\ formerHosts \in [Instances -> SUBSET Hosts]
           /\ formerAddresses \in [Hosts -> SUBSET Addresses]
BY DEF IInv, EmissionsCurrent, TypeOK, Entries

(* What a datagram says was true when it was sent.                          *)
LEMMA SentFacts ==
    ASSUME NEW d \in Datagram, Sent(d)
    PROVE  /\ d.host \in HostsOf(d.of)
           /\ d.address \in AddressesOf(d.host)
BY DEF Sent, HostsOf, AddressesOf

-----------------------------------------------------------------------------
(* One lemma per action.                                                    *)

LEMMA ReceiveKeepsIInv ==
    ASSUME IInv, NEW d \in Datagram, Receive(d)
    PROVE  /\ IInv'
           /\ \A i \in Instances : view'[i] # view[i] =>
                 /\ phase = "running" /\ Whole(discovered'[i])
                 /\ view'[i] = ServiceOf(discovered'[i], addresses')
<1>1. /\ phase # "idle" /\ Sent(d) /\ ~stopped
      /\ Outdated(d) => late < MaxLate
      /\ late' = IF Outdated(d) THEN late + 1 ELSE late
      /\ discovered' = [discovered EXCEPT ![d.of] = Assembled(d)]
      /\ addresses' = IF "A" \in d.kinds THEN [addresses EXCEPT ![d.host] = @ \cup {d.address}]
                                         ELSE addresses
      /\ behind' = ~d.parsed
      /\ IF d.parsed THEN EmitChanges(d) ELSE UNCHANGED <<emitted, view>>
  BY DEF Receive
<1>2. /\ phase' = phase /\ stopped' = stopped /\ moves' = moves /\ queryFaults' = queryFaults
      /\ host' = host /\ address' = address
      /\ formerHosts' = formerHosts /\ formerAddresses' = formerAddresses
  BY DEF Receive, network
<1>3. /\ d.of \in Instances /\ d.host \in Hosts /\ d.address \in Addresses /\ d.parsed \in BOOLEAN
  BY DEF Datagram
<1>4. /\ d.host \in HostsOf(d.of) /\ d.address \in AddressesOf(d.host)
  BY <1>1, SentFacts
<1>5. discovered' \in [Instances -> Entries]
  BY <1>1, <1>3, StateTypes, AssembledFacts
<1>6. addresses' \in [Hosts -> SUBSET Addresses]
  BY <1>1, <1>3, StateTypes
<1>7. /\ emitted' \in [Instances -> Service \cup {None}]
      /\ view' \in [Instances -> Service \cup {None}]
      /\ ~behind' => \A i \in Instances : Whole(discovered'[i]) =>
                                            emitted'[i] = ServiceOf(discovered'[i], addresses')
      /\ phase = "running" => view' = emitted'
      /\ \A i \in Instances : view'[i] # view[i] =>
            /\ phase = "running" /\ Whole(discovered'[i])
            /\ view'[i] = ServiceOf(discovered'[i], addresses')
  <2>1. CASE d.parsed
    <3>1. emitted' = [i \in Instances |-> IF Whole(discovered'[i])
                                          THEN ServiceOf(discovered'[i], addresses') ELSE emitted[i]]
      BY <1>1, <2>1 DEF EmitChanges, ToEmit
    <3>2. view' = [i \in Instances |-> IF phase = "running" /\ emitted'[i] # emitted[i]
                                       THEN emitted'[i] ELSE view[i]]
      BY <1>1, <2>1 DEF EmitChanges
    <3>3. emitted' \in [Instances -> Service \cup {None}]
      <4>1. ASSUME NEW i \in Instances
            PROVE  (IF Whole(discovered'[i]) THEN ServiceOf(discovered'[i], addresses') ELSE emitted[i])
                     \in Service \cup {None}
        <5>1. CASE Whole(discovered'[i])
          <6>1. discovered'[i] \in Entries
            BY <1>5
          <6>2. QED BY <1>6, <5>1, <6>1, ServiceOfFacts
        <5>2. CASE ~Whole(discovered'[i])
          BY <5>2, StateTypes
        <5>3. QED BY <5>1, <5>2
      <4>2. QED BY <3>1, <4>1
    <3>4. view' \in [Instances -> Service \cup {None}]
      BY <3>2, <3>3, StateTypes
    <3>5. \A i \in Instances : Whole(discovered'[i]) =>
                                 emitted'[i] = ServiceOf(discovered'[i], addresses')
      BY <3>1
    <3>6. phase = "running" => view' = emitted'
      <4>1. SUFFICES ASSUME phase = "running" PROVE view' = emitted'
        OBVIOUS
      <4>2. view = emitted
        BY <4>1 DEF IInv, ToldAll
      <4>3. \A i \in Instances : view'[i] = emitted'[i]
        BY <3>2, <4>1, <4>2
      <4>4. QED BY <3>3, <3>4, <4>3
    <3>7. \A i \in Instances : view'[i] # view[i] =>
             /\ phase = "running" /\ Whole(discovered'[i])
             /\ view'[i] = ServiceOf(discovered'[i], addresses')
      BY <3>1, <3>2
    <3>8. QED BY <3>3, <3>4, <3>5, <3>6, <3>7
  <2>2. CASE ~d.parsed
    <3>1. emitted' = emitted /\ view' = view /\ behind'
      BY <1>1, <2>2
    <3>2. phase = "running" => view = emitted
      BY DEF IInv, ToldAll
    <3>3. emitted \in [Instances -> Service \cup {None}] /\ view \in [Instances -> Service \cup {None}]
      BY StateTypes
    <3>4. QED BY <3>1, <3>2, <3>3
  <2>3. QED BY <2>1, <2>2
<1>8. TypeOK'
  <2>1. phase' \in {"idle", "running", "ended", "failed"} /\ {stopped', behind'} \subseteq BOOLEAN
    <3>1. phase' \in {"idle", "running", "ended", "failed"} /\ stopped' \in BOOLEAN
      BY <1>2, StateTypes DEF TypeOK
    <3>2. behind' \in BOOLEAN
      BY <1>1
    <3>3. QED BY <3>1, <3>2
  <2>2. moves' \in 0..MaxMoves /\ late' \in 0..MaxLate /\ queryFaults' \in 0..MaxQueryFaults
    <3>1. late \in 0..MaxLate /\ moves \in 0..MaxMoves /\ queryFaults \in 0..MaxQueryFaults
          /\ MaxLate \in Nat
      BY StateTypes, MdnsAssumption DEF TypeOK
    <3>2. CASE Outdated(d)
      BY <1>1, <1>2, <3>1, <3>2
    <3>3. CASE ~Outdated(d)
      BY <1>1, <1>2, <3>1, <3>3
    <3>4. QED BY <3>2, <3>3
  <2>3. /\ host' \in [Instances -> Hosts] /\ address' \in [Hosts -> Addresses]
        /\ formerHosts' \in [Instances -> SUBSET Hosts]
        /\ formerAddresses' \in [Hosts -> SUBSET Addresses]
    BY <1>2, StateTypes
  <2>4. {emitted', view'} \subseteq [Instances -> Service \cup {None}]
    BY <1>7
  <2>5. QED BY <1>5, <1>6, <2>1, <2>2, <2>3, <2>4 DEF TypeOK, Entries
<1>9. OnlyWhatWas'
  <2>1. ASSUME NEW i \in Instances, discovered'[i].host # None
        PROVE  discovered'[i].host \in {host'[i]} \cup formerHosts'[i]
    <3>1. CASE discovered'[i].host = discovered[i].host
      BY <1>2, <2>1, <3>1 DEF IInv, OnlyWhatWas, HostsOf
    <3>2. CASE discovered'[i].host # discovered[i].host
      <4>1. i = d.of /\ discovered'[i] = Assembled(d)
        BY <1>1, <1>3, <3>2, StateTypes
      <4>2. discovered'[i].host = d.host
        BY <3>2, <4>1, StateTypes, AssembledFacts
      <4>3. QED BY <1>2, <1>4, <4>1, <4>2 DEF HostsOf
    <3>3. QED BY <3>1, <3>2
  <2>2. ASSUME NEW h \in Hosts PROVE addresses'[h] \subseteq {address'[h]} \cup formerAddresses'[h]
    <3>1. addresses[h] \subseteq {address[h]} \cup formerAddresses[h]
      BY DEF IInv, OnlyWhatWas, AddressesOf
    <3>2. addresses'[h] = addresses[h] \/ (h = d.host /\ addresses'[h] = addresses[h] \cup {d.address})
      BY <1>1, <1>3, StateTypes
    <3>3. QED BY <1>2, <1>4, <3>1, <3>2 DEF AddressesOf
  <2>3. QED BY <2>1, <2>2 DEF OnlyWhatWas, HostsOf, AddressesOf
<1>10. EmissionsCurrent' /\ ToldAll'
  BY <1>1, <1>2, <1>7, <1>8 DEF EmissionsCurrent, ToldAll
<1>11. QED BY <1>7, <1>8, <1>9, <1>10 DEF IInv

(* The steps of the network: what was, remains among what has been.          *)
LEMMA InstanceMovesFacts ==
    ASSUME IInv, NEW j \in Instances, NEW g \in Hosts, InstanceMoves(j, g)
    PROVE  /\ host' \in [Instances -> Hosts] /\ formerHosts' \in [Instances -> SUBSET Hosts]
           /\ address' = address /\ formerAddresses' = formerAddresses
           /\ \A i \in Instances : HostsOf(i) \subseteq {host'[i]} \cup formerHosts'[i]
<1>1. /\ host' = [host EXCEPT ![j] = g]
      /\ formerHosts' = [formerHosts EXCEPT ![j] = formerHosts[j] \cup {host[j]}]
      /\ address' = address /\ formerAddresses' = formerAddresses
  BY DEF InstanceMoves
<1>2. host \in [Instances -> Hosts] /\ formerHosts \in [Instances -> SUBSET Hosts]
  BY StateTypes
<1>3. host' \in [Instances -> Hosts] /\ formerHosts' \in [Instances -> SUBSET Hosts]
  BY <1>1, <1>2
<1>4. ASSUME NEW i \in Instances PROVE HostsOf(i) \subseteq {host'[i]} \cup formerHosts'[i]
  <2>1. CASE i = j
    <3>1. formerHosts'[i] = formerHosts[i] \cup {host[i]}
      BY <1>1, <1>2, <2>1
    <3>2. QED BY <3>1 DEF HostsOf
  <2>2. CASE i # j
    <3>1. formerHosts'[i] = formerHosts[i] /\ host'[i] = host[i]
      BY <1>1, <1>2, <2>2
    <3>2. QED BY <3>1 DEF HostsOf
  <2>3. QED BY <2>1, <2>2
<1>5. QED BY <1>1, <1>3, <1>4

LEMMA HostMovesFacts ==
    ASSUME IInv, NEW g \in Hosts, NEW a \in Addresses, HostMoves(g, a)
    PROVE  /\ address' \in [Hosts -> Addresses]
           /\ formerAddresses' \in [Hosts -> SUBSET Addresses]
           /\ host' = host /\ formerHosts' = formerHosts
           /\ \A h \in Hosts : AddressesOf(h) \subseteq {address'[h]} \cup formerAddresses'[h]
<1>1. /\ address' = [address EXCEPT ![g] = a]
      /\ formerAddresses' = [formerAddresses EXCEPT ![g] = formerAddresses[g] \cup {address[g]}]
      /\ host' = host /\ formerHosts' = formerHosts
  BY DEF HostMoves
<1>2. address \in [Hosts -> Addresses] /\ formerAddresses \in [Hosts -> SUBSET Addresses]
  BY StateTypes
<1>3. address' \in [Hosts -> Addresses] /\ formerAddresses' \in [Hosts -> SUBSET Addresses]
  BY <1>1, <1>2
<1>4. ASSUME NEW h \in Hosts
      PROVE  AddressesOf(h) \subseteq {address'[h]} \cup formerAddresses'[h]
  <2>1. CASE h = g
    <3>1. formerAddresses'[h] = formerAddresses[h] \cup {address[h]}
      BY <1>1, <1>2, <2>1
    <3>2. QED BY <3>1 DEF AddressesOf
  <2>2. CASE h # g
    <3>1. formerAddresses'[h] = formerAddresses[h] /\ address'[h] = address[h]
      BY <1>1, <1>2, <2>2
    <3>2. QED BY <3>1 DEF AddressesOf
  <2>3. QED BY <2>1, <2>2
<1>5. QED BY <1>1, <1>3, <1>4

NetworkMoves == \/ \E i \in Instances, h \in Hosts : InstanceMoves(i, h)
                \/ \E h \in Hosts, a \in Addresses : HostMoves(h, a)

LEMMA NetworkKeepsIInv ==
    ASSUME IInv, NetworkMoves
    PROVE  /\ IInv'
           /\ phase' = phase /\ view' = view
           /\ \A i \in Instances : HostsOf(i) \subseteq {host'[i]} \cup formerHosts'[i]
           /\ \A h \in Hosts : AddressesOf(h) \subseteq {address'[h]} \cup formerAddresses'[h]
<1>1. /\ phase' = phase /\ stopped' = stopped /\ discovered' = discovered
      /\ addresses' = addresses /\ emitted' = emitted /\ view' = view /\ behind' = behind
      /\ late' = late /\ queryFaults' = queryFaults /\ moves < MaxMoves /\ moves' = moves + 1
  BY DEF NetworkMoves, InstanceMoves, HostMoves, discovery
<1>2. /\ host' \in [Instances -> Hosts] /\ address' \in [Hosts -> Addresses]
      /\ formerHosts' \in [Instances -> SUBSET Hosts]
      /\ formerAddresses' \in [Hosts -> SUBSET Addresses]
      /\ \A i \in Instances : HostsOf(i) \subseteq {host'[i]} \cup formerHosts'[i]
      /\ \A h \in Hosts : AddressesOf(h) \subseteq {address'[h]} \cup formerAddresses'[h]
  <2>1. CASE \E i \in Instances, h \in Hosts : InstanceMoves(i, h)
    <3>1. PICK i \in Instances, h \in Hosts : InstanceMoves(i, h)
      BY <2>1
    <3>2. \A k \in Hosts : AddressesOf(k) \subseteq {address'[k]} \cup formerAddresses'[k]
      BY <3>1, InstanceMovesFacts DEF AddressesOf
    <3>3. QED BY <3>1, <3>2, InstanceMovesFacts, StateTypes
  <2>2. CASE \E h \in Hosts, a \in Addresses : HostMoves(h, a)
    <3>1. PICK h \in Hosts, a \in Addresses : HostMoves(h, a)
      BY <2>2
    <3>2. \A k \in Instances : HostsOf(k) \subseteq {host'[k]} \cup formerHosts'[k]
      BY <3>1, HostMovesFacts DEF HostsOf
    <3>3. QED BY <3>1, <3>2, HostMovesFacts, StateTypes
  <2>3. QED BY <2>1, <2>2 DEF NetworkMoves
<1>3. TypeOK'
  <2>1. moves' \in 0..MaxMoves
    BY <1>1, StateTypes, MdnsAssumption DEF TypeOK
  <2>2. QED BY <1>1, <1>2, <2>1, StateTypes DEF TypeOK
<1>4. OnlyWhatWas'
  <2>1. \A i \in Instances : discovered'[i].host # None =>
                               discovered'[i].host \in {host'[i]} \cup formerHosts'[i]
    BY <1>1, <1>2 DEF IInv, OnlyWhatWas
  <2>2. \A h \in Hosts : addresses'[h] \subseteq {address'[h]} \cup formerAddresses'[h]
    BY <1>1, <1>2 DEF IInv, OnlyWhatWas
  <2>3. QED BY <2>1, <2>2 DEF OnlyWhatWas, HostsOf, AddressesOf
<1>5. EmissionsCurrent' /\ ToldAll'
  BY <1>1, <1>3 DEF IInv, EmissionsCurrent, ToldAll
<1>6. QED BY <1>1, <1>2, <1>3, <1>4, <1>5 DEF IInv

(* The steps that only concern the flow.                                    *)
LEMMA FlowStepsKeepIInv ==
    ASSUME IInv, Construct \/ Stop \/ QueryFails
    PROVE  /\ IInv'
           /\ UNCHANGED <<view, network>>
           /\ \/ phase = "idle" /\ phase' = "running"
              \/ phase = "running" /\ phase' \in {"ended", "failed"}
              \/ phase' = phase
<1>1. /\ discovered' = discovered /\ addresses' = addresses /\ emitted' = emitted
      /\ view' = view /\ behind' = behind /\ moves' = moves /\ late' = late
      /\ host' = host /\ address' = address
      /\ formerHosts' = formerHosts /\ formerAddresses' = formerAddresses
  BY DEF Construct, Stop, QueryFails, network
<1>2. /\ \/ phase = "idle" /\ phase' = "running"
         \/ phase = "running" /\ phase' \in {"ended", "failed"}
         \/ phase' = phase
      /\ phase' \in {"idle", "running", "ended", "failed"}
  BY StateTypes DEF Construct, Stop, QueryFails, TypeOK
<1>3. stopped' \in BOOLEAN
  BY StateTypes DEF Construct, Stop, QueryFails, TypeOK
<1>4. queryFaults' \in 0..MaxQueryFaults
  BY StateTypes, MdnsAssumption DEF Construct, Stop, QueryFails, TypeOK
<1>5. TypeOK'
  BY <1>1, <1>2, <1>3, <1>4, StateTypes DEF TypeOK
<1>6. OnlyWhatWas' /\ ToldAll' /\ EmissionsCurrent'
  BY <1>1, <1>2, <1>5 DEF IInv, OnlyWhatWas, HostsOf, AddressesOf, ToldAll, EmissionsCurrent
<1>7. QED BY <1>1, <1>2, <1>5, <1>6 DEF IInv, network

-----------------------------------------------------------------------------
(* The invariant and what follows from it.                                  *)

LEMMA InitIInv == Init => IInv
<1> SUFFICES ASSUME Init PROVE IInv
  OBVIOUS
<1>1. TypeOK
  <2>1. {stopped, behind} \subseteq BOOLEAN
    <3>1. stopped = FALSE /\ behind = FALSE
      BY DEF Init
    <3>2. QED BY <3>1, Zenon
  <2>2. /\ phase \in {"idle", "running", "ended", "failed"}
        /\ discovered \in [Instances -> [ptr : BOOLEAN, host : Hosts \cup {None}, goodbye : BOOLEAN]]
        /\ addresses \in [Hosts -> SUBSET Addresses]
        /\ {emitted, view} \subseteq [Instances -> Service \cup {None}]
    BY DEF Init
  <2>3. /\ host \in [Instances -> Hosts] /\ address \in [Hosts -> Addresses]
        /\ formerHosts \in [Instances -> SUBSET Hosts]
        /\ formerAddresses \in [Hosts -> SUBSET Addresses]
        /\ moves \in 0..MaxMoves /\ late \in 0..MaxLate /\ queryFaults \in 0..MaxQueryFaults
    BY MdnsAssumption DEF Init
  <2>4. QED BY <2>1, <2>2, <2>3 DEF TypeOK
<1>2. \A i \in Instances : discovered[i].host = None /\ ~Whole(discovered[i])
  BY DEF Init, Whole
<1>3. OnlyWhatWas
  BY <1>2 DEF Init, OnlyWhatWas
<1>4. QED BY <1>1, <1>2, <1>3 DEF Init, IInv, EmissionsCurrent, ToldAll

LEMMA NextIInv == IInv /\ [Next]_vars => IInv'
<1> SUFFICES ASSUME IInv, [Next]_vars PROVE IInv'
  OBVIOUS
<1>1. CASE Construct \/ Stop \/ QueryFails
  BY <1>1, FlowStepsKeepIInv
<1>2. CASE \E d \in Datagram : Receive(d)
  BY <1>2, ReceiveKeepsIInv
<1>3. CASE NetworkMoves
  BY <1>3, NetworkKeepsIInv
<1>4. CASE UNCHANGED vars
  <2>1. UNCHANGED <<phase, stopped, discovered, addresses, emitted, view, behind, host, address,
                    formerHosts, formerAddresses, moves, late, queryFaults>>
    BY <1>4 DEF vars, discovery, network
  <2>2. TypeOK'
    BY <2>1, StateTypes DEF TypeOK
  <2>3. QED BY <2>1, <2>2 DEF IInv, EmissionsCurrent, OnlyWhatWas, HostsOf, AddressesOf, ToldAll
<1>5. QED BY <1>1, <1>2, <1>3, <1>4 DEF Next, NetworkMoves

(* The strengthened invariant holds in every reachable state of the discovery *)
(* and its network.                                                         *)
THEOREM Invariance == Spec => []IInv
BY InitIInv, NextIInv, PTL DEF Spec

(* After a datagram that could be parsed every service is emitted as its      *)
(* records and its host's addresses are, whatever came before and however it  *)
(* was ordered, and subscribers of an open flow were told the same.           *)
THEOREM EmissionsStayCurrent == Spec => []EmissionsCurrent
<1>1. IInv => EmissionsCurrent
  BY DEF IInv
<1>2. QED BY <1>1, Invariance, PTL

-----------------------------------------------------------------------------
(* The refinement of ServiceFlow.                                           *)

(* What the network has shown of a service.                                 *)
LEMMA ShownMember ==
    \A i \in Instances : \A s :
       s \in Shown[i] <=> \E h \in HostsOf(i) :
                            s \in [host : {h}, goodbye : BOOLEAN, addresses : SUBSET AddressesOf(h)]
BY DEF Shown, HostsOf, AddressesOf

WholeAreShown == \A i \in Instances : Whole(discovered[i]) =>
                                          ServiceOf(discovered[i], addresses) \in Shown[i]

LEMMA ServicesAreShown == IInv => WholeAreShown
<1> SUFFICES ASSUME IInv, NEW i \in Instances, Whole(discovered[i])
             PROVE  ServiceOf(discovered[i], addresses) \in Shown[i]
  BY DEF WholeAreShown
<1> DEFINE h == discovered[i].host
<1>1. discovered[i] \in Entries
  BY StateTypes
<1>2. h \in Hosts /\ discovered[i].goodbye \in BOOLEAN /\ h # None
  BY <1>1 DEF Entries, Whole
<1>3. h \in HostsOf(i) /\ addresses[h] \in SUBSET AddressesOf(h)
  BY <1>2 DEF IInv, OnlyWhatWas
<1>4. ServiceOf(discovered[i], addresses)
        \in [host : {h}, goodbye : BOOLEAN, addresses : SUBSET AddressesOf(h)]
  BY <1>2, <1>3 DEF ServiceOf
<1> HIDE DEF h
<1>5. QED BY <1>3, <1>4, ShownMember

LEMMA FlowStep ==
    ASSUME IInv, IInv', [Next]_vars
    PROVE  [Flow!Next]_<<phase, Shown, view>>
<1>1. CASE Construct \/ Stop \/ QueryFails
  <2>1. view' = view /\ Shown' = Shown
    BY <1>1, FlowStepsKeepIInv DEF network, Shown
  <2>2. QED BY <1>1, <2>1, FlowStepsKeepIInv DEF Flow!Next, Flow!Create, Flow!End
<1>2. CASE \E d \in Datagram : Receive(d)
  <2>1. PICK d \in Datagram : Receive(d)
    BY <1>2
  <2>2. phase' = phase /\ Shown' = Shown
    BY <2>1 DEF Receive, network, Shown
  <2>3. CASE phase # "running"
    <3>1. \A i \in Instances : view'[i] = view[i]
      BY <2>1, <2>3, ReceiveKeepsIInv
    <3>2. view \in [Instances -> Service \cup {None}]
          /\ view' \in [Instances -> Service \cup {None}]
      BY StateTypes DEF IInv, EmissionsCurrent, TypeOK
    <3>3. view' = view
      BY <3>1, <3>2
    <3>4. QED BY <2>2, <3>3
  <2>4. CASE phase = "running"
    <3>1. ASSUME NEW i \in Instances, view'[i] # view[i] PROVE view'[i] \in Shown[i]
      <4>1. Whole(discovered'[i]) /\ view'[i] = ServiceOf(discovered'[i], addresses')
        BY <2>1, <3>1, ReceiveKeepsIInv
      <4>2. WholeAreShown'
        BY ServicesAreShown, PTL
      <4>3. QED BY <2>2, <4>1, <4>2 DEF WholeAreShown
    <3>2. Flow!Tell
      BY <2>2, <2>4, <3>1 DEF Flow!Tell
    <3>3. QED BY <3>2 DEF Flow!Next
  <2>5. QED BY <2>3, <2>4
<1>3. CASE NetworkMoves
  <2>1. ASSUME NEW i \in Instances PROVE Shown[i] \subseteq Shown'[i]
    <3>1. SUFFICES ASSUME NEW s \in Shown[i] PROVE s \in Shown'[i]
      OBVIOUS
    <3>2. PICK h \in HostsOf(i) :
             s \in [host : {h}, goodbye : BOOLEAN, addresses : SUBSET AddressesOf(h)]
      BY ShownMember
    <3>3. h \in {host'[i]} \cup formerHosts'[i] /\ h \in Hosts
      BY <1>3, <3>2, NetworkKeepsIInv, StateTypes DEF HostsOf
    <3>4. AddressesOf(h) \subseteq {address'[h]} \cup formerAddresses'[h]
      BY <1>3, <3>3, NetworkKeepsIInv
    <3>5. s \in [host : {h}, goodbye : BOOLEAN,
                 addresses : SUBSET ({address'[h]} \cup formerAddresses'[h])]
      BY <3>2, <3>4
    <3>6. QED BY <3>3, <3>5 DEF Shown
  <2>2. Flow!Change
    BY <1>3, <2>1, NetworkKeepsIInv DEF Flow!Change
  <2>3. QED BY <2>2 DEF Flow!Next
<1>4. CASE UNCHANGED vars
  BY <1>4 DEF vars, discovery, network, Shown
<1>5. QED BY <1>1, <1>2, <1>3, <1>4 DEF Next, NetworkMoves

(* The discovery keeps its promise to subscribers: while the flow is open     *)
(* they are told of services as the network has shown them, put together from *)
(* the records of one device, and of nothing after the one end of the flow.   *)
THEOREM FlowImplemented == Spec => ImplementsFlow
<1>1. Init => Flow!Init
  BY DEF Init, Flow!Init
<1>2. IInv /\ IInv' /\ [Next]_vars => [Flow!Next]_<<phase, Shown, view>>
  BY FlowStep
<1>3. QED BY <1>1, <1>2, Invariance, PTL DEF Spec, ImplementsFlow, Flow!Spec

-----------------------------------------------------------------------------
(* The identifier of a unit: its inductive invariant.                       *)

(* Exchanges follow one another: only the latest may be going on, and the    *)
(* tasks are of exchanges that have been created.                           *)
OneAfterAnother ==
    /\ \A e \in Exchanges : /\ e < created => exchange[e] = "finished"
                            /\ e > created => exchange[e] = "none"
    /\ \A i \in DOMAIN tasks : tasks[i].exchange <= created
    /\ created > 0 => exchange[created] # "none"
    /\ created = 0 => ~finished /\ asking = "mei"

(* Until it has finished, nothing is reported and nothing cancelled.         *)
NothingYet == ~finished => result = <<>> /\ ~cancelled

IdentifierIInv == ExchangesAccounted /\ ReportedOnce /\ OneAfterAnother /\ NothingYet

-----------------------------------------------------------------------------
(* What the functions of the identifier leave behind.                       *)

ExchangeQueue == [op : {"start", "cancel"}, exchange : Exchanges]
ExchangeStates == {"none", "posted", "connecting", "awaiting", "finished"}

(* Numbers and limits, as they are before any step.                         *)
LEMMA ExchangeNumbers ==
    ASSUME IdentifierAssumption
    PROVE  /\ LastPage \in Nat /\ Exchanges = 1..(LastPage + 2) /\ NoExchange \notin Exchanges
           /\ IsFiniteSet(Exchanges) /\ Cardinality(Exchanges) = LastPage + 2
<1>1. LastPage \in Nat
  BY DEF IdentifierAssumption
<1>2. Exchanges = 1..(LastPage + 2) /\ NoExchange \notin Exchanges
  BY <1>1 DEF Exchanges, NoExchange
<1>3. IsFiniteSet(1..(LastPage + 2)) /\ Cardinality(1..(LastPage + 2)) = LastPage + 2
  <2>1. /\ IsFiniteSet(1..(LastPage + 2))
        /\ Cardinality(1..(LastPage + 2)) = IF 1 > LastPage + 2 THEN 0 ELSE (LastPage + 2) - 1 + 1
    BY <1>1, FS_Interval
  <2>2. QED BY <1>1, <2>1
<1>4. QED BY <1>1, <1>2, <1>3

(* Only the latest exchange is open.                                        *)
LEMMA OnlyLatest ==
    ASSUME IdentifierAssumption, IdentifierTypeOK, OneAfterAnother
    PROVE  Unfinished \subseteq {created} /\ OneConnection
<1>1. Unfinished \subseteq {created}
  <2>1. \A e \in Exchanges : e \in Nat
    BY ExchangeNumbers
  <2>2. created \in Nat
    BY ExchangeNumbers DEF IdentifierTypeOK
  <2>3. QED BY <2>1, <2>2 DEF Unfinished, OneAfterAnother
<1>2. IsFiniteSet({created}) /\ Cardinality({created}) = 1
  BY FS_Singleton
<1>3. Cardinality(Unfinished) <= 1
  BY <1>1, <1>2, FS_Subset
<1>4. QED BY <1>1, <1>3 DEF OneConnection

LEMMA IdentifierInitIInv == IdentifierAssumption /\ IdentifierInit => IdentifierIInv
<1> SUFFICES ASSUME IdentifierAssumption, IdentifierInit PROVE IdentifierIInv
  OBVIOUS
<1>1. LastPage \in Nat /\ Cardinality(Exchanges) = LastPage + 2 /\ \A e \in Exchanges : e \in Nat \ {0}
  BY ExchangeNumbers
<1>2. IdentifierTypeOK
  <2>1. tasks \in Seq(ExchangeQueue) /\ result \in Seq({"thing", "nothing"})
    BY EmptySeq DEF IdentifierInit
  <2>2. exchange \in [Exchanges -> ExchangeStates] /\ objectId \in ObjectIds
    BY DEF IdentifierInit, ExchangeStates, IdentifierAssumption
  <2>3. created \in 0..Cardinality(Exchanges) /\ page \in 0..LastPage /\ current \in {NoExchange, created}
    BY <1>1 DEF IdentifierInit
  <2>4. QED BY <2>1, <2>2, <2>3 DEF IdentifierInit, IdentifierTypeOK, ExchangeQueue, ExchangeStates
<1>3. Unfinished = {}
  BY DEF IdentifierInit, Unfinished
<1>4. OneAfterAnother
  BY <1>1 DEF IdentifierInit, OneAfterAnother
<1>5. OneConnection
  BY <1>2, <1>4, OnlyLatest
<1>6. ExchangeOwned /\ PagesBounded /\ NothingYet
  BY <1>1 DEF IdentifierInit, ExchangeOwned, PagesBounded, NothingYet
<1>7. Len(result) = 0
  BY EmptySeq DEF IdentifierInit
<1>8. ReportedOnce
  BY <1>7 DEF IdentifierInit, ReportedOnce
<1>9. QED BY <1>2, <1>4, <1>5, <1>6, <1>8 DEF IdentifierIInv, ExchangesAccounted

(* A list of tasks t that the caller has left behind: all of them are of      *)
(* exchanges that exist.                                                   *)
Posted(t) == t \in Seq(ExchangeQueue) /\ \A i \in DOMAIN t : t[i].exchange <= created

LEMMA PostedTail == ASSUME IdentifierTypeOK, OneAfterAnother, tasks # <<>>
    PROVE  Posted(Tail(tasks)) /\ Posted(tasks) /\ Head(tasks) \in ExchangeQueue
           /\ Head(tasks).exchange <= created
           /\ \A task : (\E i \in DOMAIN tasks : tasks[i] = task) /\ task # Head(tasks)
                           => \E i \in DOMAIN Tail(tasks) : Tail(tasks)[i] = task
<1>1. /\ tasks \in Seq(ExchangeQueue) /\ Len(tasks) \in Nat \ {0} /\ DOMAIN tasks = 1..Len(tasks)
      /\ Tail(tasks) \in Seq(ExchangeQueue) /\ Len(Tail(tasks)) = Len(tasks) - 1 /\ Head(tasks) = tasks[1]
      /\ DOMAIN Tail(tasks) = 1..(Len(tasks) - 1)
      /\ \A i \in 1..(Len(tasks) - 1) : Tail(tasks)[i] = tasks[i + 1]
  BY HeadTailProperties, LenProperties, EmptySeq DEF IdentifierTypeOK, ExchangeQueue
<1>2. Head(tasks) \in ExchangeQueue /\ 1 \in DOMAIN tasks
  BY <1>1, HeadTailProperties
<1>3. \A i \in DOMAIN tasks : tasks[i].exchange <= created
  BY DEF OneAfterAnother
<1>4. \A i \in DOMAIN Tail(tasks) : i + 1 \in DOMAIN tasks
  BY <1>1
<1>5. Posted(Tail(tasks)) /\ Posted(tasks) /\ Head(tasks).exchange <= created
  BY <1>1, <1>2, <1>3, <1>4 DEF Posted
<1>6. ASSUME NEW task, NEW i \in DOMAIN tasks, tasks[i] = task, task # Head(tasks)
      PROVE  \E j \in DOMAIN Tail(tasks) : Tail(tasks)[j] = task
  <2>1. i \in 1..Len(tasks) /\ i # 1
    BY <1>1, <1>6
  <2>2. i - 1 \in 1..(Len(tasks) - 1) /\ (i - 1) + 1 = i
    BY <1>1, <2>1
  <2>3. Tail(tasks)[i - 1] = task
    BY <1>1, <1>6, <2>2
  <2>4. QED BY <1>1, <2>2, <2>3
<1>7. QED BY <1>2, <1>5, <1>6

LEMMA PostedAppend ==
    ASSUME IdentifierAssumption, IdentifierTypeOK, NEW t, Posted(t), NEW op \in {"start", "cancel"},
           NEW e \in Exchanges, NEW n \in Nat,
           e <= n, created <= n
    PROVE  /\ Append(t, Task(op, e)) \in Seq(ExchangeQueue)
           /\ \A i \in DOMAIN Append(t, Task(op, e)) : Append(t, Task(op, e))[i].exchange <= n
           /\ \A i \in DOMAIN t : i \in DOMAIN Append(t, Task(op, e)) /\ Append(t, Task(op, e))[i] = t[i]
           /\ \E i \in DOMAIN Append(t, Task(op, e)) : Append(t, Task(op, e))[i] = Task(op, e)
<1> DEFINE a == Task(op, e)
<1>1. a \in ExchangeQueue /\ a.exchange = e
  BY DEF Task, ExchangeQueue
<1> HIDE DEF a
<1>2. /\ Append(t, a) \in Seq(ExchangeQueue) /\ Len(t) \in Nat /\ DOMAIN t = 1..Len(t)
      /\ DOMAIN Append(t, a) = 1..(Len(t) + 1)
      /\ \A i \in 1..Len(t) : Append(t, a)[i] = t[i]
      /\ Append(t, a)[Len(t) + 1] = a
  BY <1>1, AppendProperties, LenProperties DEF Posted
<1>3. \A i \in 1..(Len(t) + 1) : i \in 1..Len(t) \/ i = Len(t) + 1
  BY <1>2
<1>4. created \in Nat /\ \A q \in ExchangeQueue : q.exchange \in Nat
  BY ExchangeNumbers DEF IdentifierTypeOK, ExchangeQueue
<1>5. \A i \in 1..Len(t) : t[i] \in ExchangeQueue /\ t[i].exchange <= created
  BY <1>2, ElementOfSeq DEF Posted
<1>6. e \in Nat
  BY ExchangeNumbers
<1>7. \A i \in DOMAIN Append(t, a) : Append(t, a)[i].exchange <= n
  BY <1>1, <1>2, <1>3, <1>4, <1>5, <1>6
<1>8. QED BY <1>2, <1>7 DEF a

(* Exchanges as they are when none is open.                                 *)
Closed(x) == /\ x \in [Exchanges -> ExchangeStates]
             /\ \A e \in Exchanges : x[e] = IF e <= created THEN "finished" ELSE "none"

LEMMA NextNumber ==
    ASSUME NEW c \in Nat, NEW p \in Nat, NEW n \in Nat, p <= n, c <= p + 1
    PROVE  /\ c + 1 \in 1..(n + 2) /\ c + 1 \in 0..(n + 2) /\ c + 1 <= n + 2 /\ c + 1 <= p + 2
           /\ c <= p => c + 1 <= p + 1
  OBVIOUS

LEMMA OneIsOne == \A n : Cardinality({n}) <= 1
<1>1. \A n : Cardinality({n}) = 1
  BY FS_Singleton
<1>2. QED BY <1>1

(* Another exchange is created: it is the only one that is open.             *)
LEMMA ExchangeBegins ==
    ASSUME IdentifierAssumption, IdentifierIInv, ~finished, NEW x, Closed(x), NEW t, Posted(t),
           NEW what \in {"mei", "fallback"}, Begin(what, x, t),
           objectId' \in ObjectIds, page' \in 0..LastPage, identified' \in BOOLEAN,
           created <= page' + 1, what = "mei" => created <= page',
           UNCHANGED <<finished, result, cancelled>>
    PROVE  IdentifierIInv'
<1>1. /\ created' = created + 1 /\ current' = created' /\ asking' = what
      /\ exchange' = [x EXCEPT ![created'] = "posted"] /\ tasks' = Append(t, Task("start", created'))
  BY DEF Begin
<1>2. /\ LastPage \in Nat /\ Exchanges = 1..(LastPage + 2) /\ Cardinality(Exchanges) = LastPage + 2
      /\ NoExchange \notin Exchanges
  BY ExchangeNumbers
<1>3. IdentifierTypeOK /\ created \in Nat
  BY <1>2 DEF IdentifierIInv, ExchangesAccounted, IdentifierTypeOK
<1>4. /\ created' \in Exchanges /\ created' \in 0..Cardinality(Exchanges) /\ created' <= LastPage + 2
      /\ (what = "mei" => created' <= page' + 1) /\ (what = "fallback" => created' <= page' + 2)
  <2>1. page' \in Nat /\ page' <= LastPage
    BY <1>2
  <2>2. QED BY <1>1, <1>2, <1>3, <2>1, NextNumber
<1>5. /\ tasks' \in Seq(ExchangeQueue) /\ \A j \in DOMAIN tasks' : tasks'[j].exchange <= created'
  <2>1. "start" \in {"start", "cancel"} /\ created' \in Nat /\ created' <= created' /\ created <= created'
    BY <1>1, <1>3
  <2>2. QED BY <1>1, <1>3, <1>4, <2>1, PostedAppend
<1>6. /\ exchange' \in [Exchanges -> ExchangeStates] /\ exchange'[created'] = "posted"
      /\ \A e \in Exchanges : /\ e < created' => exchange'[e] = "finished"
                              /\ e > created' => exchange'[e] = "none"
  BY <1>1, <1>2, <1>3, <1>4 DEF Closed, ExchangeStates
<1>7. result = <<>> /\ ~cancelled
  BY DEF IdentifierIInv, NothingYet
<1>8. IdentifierTypeOK'
  BY <1>1, <1>3, <1>4, <1>5, <1>6 DEF IdentifierTypeOK, ExchangeQueue, ExchangeStates
<1>9. OneAfterAnother'
  BY <1>1, <1>3, <1>5, <1>6 DEF OneAfterAnother
<1>10. Unfinished' = {created'}
  <2>1. created' \in Unfinished'
    BY <1>4, <1>6 DEF Unfinished
  <2>2. \A e \in Exchanges : e \in Nat
    BY <1>2
  <2>3. \A e \in Unfinished' : e = created'
    BY <1>3, <1>1, <1>6, <2>2 DEF Unfinished
  <2>4. QED BY <2>1, <2>3
<1>11. OneConnection'
  BY <1>10, OneIsOne DEF OneConnection
<1>12. ExchangeOwned'
  BY <1>1, <1>10 DEF ExchangeOwned
<1>13. PagesBounded'
  BY <1>1, <1>4 DEF PagesBounded
<1>14. ReportedOnce' /\ NothingYet'
  <2>1. Len(<<>>) = 0
    BY EmptySeq
  <2>2. QED BY <1>7, <2>1 DEF ReportedOnce, NothingYet
<1>15. QED BY <1>8, <1>9, <1>11, <1>12, <1>13, <1>14 DEF IdentifierIInv, ExchangesAccounted

(* The identifier reports: nothing is open any more.                         *)
LEMMA IdentifierCompletes ==
    ASSUME IdentifierAssumption, IdentifierIInv, ~finished, created > 0, NEW x, Closed(x), NEW t, Posted(t),
           NEW with \in {"thing", "nothing"}, Complete(with, x, t),
           identified' \in BOOLEAN, UNCHANGED <<objectId, page, cancelled>>
    PROVE  IdentifierIInv'
<1>1. /\ finished' = TRUE /\ result' = Append(result, with) /\ current' = NoExchange
      /\ exchange' = x /\ tasks' = t /\ UNCHANGED <<created, asking>>
  BY DEF Complete
<1>2. IdentifierTypeOK /\ PagesBounded /\ created \in Nat /\ result = <<>> /\ ~cancelled
  BY ExchangeNumbers DEF IdentifierIInv, ExchangesAccounted, IdentifierTypeOK, NothingYet
<1>3. /\ result' \in Seq({"thing", "nothing"}) /\ Len(result') = 1
  BY <1>1, <1>2, AppendProperties, EmptySeq
<1>4. Unfinished' = {}
  BY <1>1 DEF Closed, Unfinished
<1>5. IdentifierTypeOK'
  BY <1>1, <1>2, <1>3 DEF IdentifierTypeOK, Closed, Posted, ExchangeQueue, ExchangeStates
<1>6. OneAfterAnother'
  <2>1. \A e \in Exchanges : e \in Nat
    BY ExchangeNumbers
  <2>2. created > 0 => created \in Exchanges
    BY ExchangeNumbers, <1>2 DEF IdentifierTypeOK
  <2>3. exchange'[created] # "none"
    BY <1>1, <1>2, <2>2 DEF Closed
  <2>4. \A e \in Exchanges : /\ e < created => exchange'[e] = "finished"
                             /\ e > created => exchange'[e] = "none"
    BY <1>1, <1>2, <2>1 DEF Closed
  <2>5. \A j \in DOMAIN tasks' : tasks'[j].exchange <= created
    BY <1>1 DEF Posted
  <2>6. created # 0
    BY <1>2
  <2>7. QED BY <1>1, <2>3, <2>4, <2>5, <2>6 DEF OneAfterAnother
<1>7. OneConnection'
  BY <1>4, FS_EmptySet DEF OneConnection
<1>8. ExchangeOwned' /\ PagesBounded' /\ NothingYet'
  BY <1>1, <1>2, <1>4 DEF ExchangeOwned, PagesBounded, NothingYet
<1>9. ReportedOnce'
  BY <1>1, <1>2, <1>3, <1>4 DEF ReportedOnce
<1>10. QED BY <1>5, <1>6, <1>7, <1>8, <1>9 DEF IdentifierIInv, ExchangesAccounted

(* finish(), in whatever state the exchange and its identifier are.          *)
LEMMA ExchangeFinishes ==
    ASSUME IdentifierAssumption, IdentifierIInv, NEW e \in Exchanges, e <= created,
           NEW answer \in {"error", "foreign", "exception", "normal"}, NEW t, Posted(t),
           \A f \in Exchanges \ {e} : (\E i \in DOMAIN tasks : tasks[i] = Task("cancel", f))
                                          => \E i \in DOMAIN t : t[i] = Task("cancel", f),
           Finish(e, answer, t), cancelled' = cancelled
    PROVE  IdentifierIInv'
<1> DEFINE x == [exchange EXCEPT ![e] = "finished"]
<1>1. /\ LastPage \in Nat /\ Exchanges = 1..(LastPage + 2) /\ NoExchange \notin Exchanges
      /\ IdentifierTypeOK /\ OneAfterAnother /\ created \in Nat /\ e \in Nat
  BY ExchangeNumbers DEF IdentifierIInv, ExchangesAccounted, IdentifierTypeOK
<1>2. CASE exchange[e] = "finished"
  <2>1. /\ tasks' = t
        /\ UNCHANGED <<exchange, created, current, asking, objectId, page, identified, finished, result>>
    BY <1>2 DEF Finish, identifier
  <2>2. IdentifierTypeOK' /\ OneAfterAnother' /\ NothingYet' /\ PagesBounded' /\ ReportedOnce' /\ OneConnection'
    BY <2>1 DEF IdentifierIInv, ExchangesAccounted, IdentifierTypeOK, Posted, ExchangeQueue,
                OneAfterAnother, NothingYet, PagesBounded, ReportedOnce, OneConnection, Unfinished
  <2>3. e \notin Unfinished
    BY <1>2 DEF Unfinished
  <2>4. ExchangeOwned'
    BY <2>1, <2>3 DEF IdentifierIInv, ExchangesAccounted, ExchangeOwned, Unfinished
  <2>5. QED BY <2>2, <2>4 DEF IdentifierIInv, ExchangesAccounted
<1>3. CASE exchange[e] # "finished"
  <2>1. e = created /\ created > 0
    BY <1>1, <1>3 DEF OneAfterAnother
  <2>2. Closed(x)
    <3>1. x \in [Exchanges -> ExchangeStates] /\ x[e] = "finished" /\ \A f \in Exchanges \ {e} : x[f] = exchange[f]
      BY <1>1 DEF IdentifierTypeOK, ExchangeStates
    <3>2. \A f \in Exchanges \ {e} : f < created \/ f > created
      BY <1>1, <2>1
    <3>3. QED BY <1>1, <2>1, <3>1, <3>2 DEF Closed, OneAfterAnother
  <2> HIDE DEF x
  <2>3. CASE /\ finished
             /\ exchange' = x /\ tasks' = t /\ current' = NoExchange
             /\ UNCHANGED <<created, asking, objectId, page, identified, finished, result>>
    <3>1. Unfinished' = {}
      BY <2>2, <2>3 DEF Closed, Unfinished
    <3>2. IdentifierTypeOK'
      BY <1>1, <2>2, <2>3 DEF IdentifierTypeOK, Closed, Posted, ExchangeQueue, ExchangeStates
    <3>3. OneAfterAnother'
      <4>1. \A f \in Exchanges : /\ f < created => exchange'[f] = "finished"
                                 /\ f > created => exchange'[f] = "none"
        BY <1>1, <2>2, <2>3 DEF Closed
      <4>2. exchange'[created] # "none"
        BY <1>1, <2>1, <2>2, <2>3 DEF Closed
      <4>3. QED BY <1>1, <2>1, <2>3, <4>1, <4>2 DEF OneAfterAnother, Posted
    <3>4. OneConnection'
      BY <3>1, FS_EmptySet DEF OneConnection
    <3>5. ExchangeOwned' /\ PagesBounded' /\ NothingYet' /\ ReportedOnce'
      BY <2>3, <3>1
      DEF IdentifierIInv, ExchangesAccounted, ExchangeOwned, PagesBounded, NothingYet, ReportedOnce
    <3>6. QED BY <3>2, <3>3, <3>4, <3>5 DEF IdentifierIInv, ExchangesAccounted
  <2>4. CASE ~finished /\ asking = "mei" /\ OnMei(answer, x, t)
    <3>1. created <= page + 1 /\ page \in 0..LastPage /\ objectId \in ObjectIds /\ identified \in BOOLEAN
      BY <2>4 DEF IdentifierIInv, ExchangesAccounted, PagesBounded, IdentifierTypeOK
    <3>2. CASE /\ RequestFallback(x, t) /\ UNCHANGED <<objectId, page, finished, result>>
               /\ identified' \in BOOLEAN
      <4>1. created <= page' + 1 /\ page' \in 0..LastPage /\ objectId' \in ObjectIds
        BY <1>1, <3>1, <3>2
      <4>2. Begin("fallback", x, t)
        BY <3>2 DEF RequestFallback
      <4>3. QED BY <2>2, <2>4, <3>2, <4>1, <4>2, ExchangeBegins
    <3>3. CASE \E with \in {"thing", "nothing"} : Complete(with, x, t) /\ UNCHANGED <<objectId, page>>
                                                   /\ identified' \in BOOLEAN
      BY <2>1, <2>2, <2>4, <3>3, IdentifierCompletes
    <3>4. CASE \E more \in BOOLEAN, next \in ObjectIds :
                  /\ AsksOn(more, next) /\ objectId' = next /\ page' = page + 1
                  /\ RequestMei(x, t) /\ UNCHANGED <<finished, result>> /\ identified' \in BOOLEAN
      <4>1. created <= page' + 1 /\ created <= page' /\ page' \in 0..LastPage /\ objectId' \in ObjectIds
        BY <1>1, <3>1, <3>4 DEF AsksOn
      <4>2. Begin("mei", x, t) /\ identified' \in BOOLEAN /\ UNCHANGED <<finished, result>>
        BY <3>4 DEF RequestMei
      <4>3. QED BY <2>2, <2>4, <4>1, <4>2, ExchangeBegins
    <3>5. \/ RequestFallback(x, t) /\ UNCHANGED <<objectId, page, identified, finished, result>>
          \/ Complete("thing", x, t) /\ UNCHANGED <<objectId, page>> /\ identified' \in {identified, TRUE}
          \/ identified' = TRUE /\ RequestFallback(x, t) /\ UNCHANGED <<objectId, page, finished, result>>
          \/ /\ identified' = TRUE
             /\ \E more \in BOOLEAN, next \in ObjectIds :
                   /\ AsksOn(more, next) /\ objectId' = next /\ page' = page + 1
                   /\ RequestMei(x, t) /\ UNCHANGED <<finished, result>>
      BY <2>4, <3>1 DEF OnMei
    <3>6. QED BY <3>1, <3>2, <3>3, <3>4, <3>5
  <2>5. CASE ~finished /\ asking = "fallback" /\ OnFallback(answer, x, t)
    <3>1. PICK with \in {"thing", "nothing"} : Complete(with, x, t)
      BY <2>5 DEF OnFallback
    <3>2. UNCHANGED <<objectId, page>> /\ identified' \in BOOLEAN
      BY <1>1, <2>5 DEF OnFallback, IdentifierTypeOK
    <3>3. QED BY <2>1, <2>2, <2>5, <3>1, <3>2, IdentifierCompletes
  <2>6. QED BY <1>3, <2>3, <2>4, <2>5 DEF Finish, x
<1>4. QED BY <1>2, <1>3

-----------------------------------------------------------------------------
(* The actions.                                                            *)

LEMMA StartIInv == IdentifierAssumption /\ IdentifierIInv /\ Start => IdentifierIInv'
<1> SUFFICES ASSUME IdentifierAssumption, IdentifierIInv, Start PROVE IdentifierIInv'
  OBVIOUS
<1>1. /\ created = 0 /\ Begin("mei", exchange, tasks)
      /\ UNCHANGED <<objectId, page, identified, finished, cancelled, result>>
  BY DEF Start, RequestMei
<1>2. IdentifierTypeOK /\ OneAfterAnother /\ ~finished /\ LastPage \in Nat /\ \A e \in Exchanges : e \in Nat \ {0}
  BY <1>1, ExchangeNumbers DEF IdentifierIInv, ExchangesAccounted, OneAfterAnother
<1>3. Closed(exchange) /\ Posted(tasks)
  BY <1>1, <1>2 DEF Closed, Posted, IdentifierTypeOK, OneAfterAnother, ExchangeQueue, ExchangeStates
<1>4. page' \in 0..LastPage /\ objectId' \in ObjectIds /\ identified' \in BOOLEAN
      /\ created <= page' + 1 /\ created <= page'
  BY <1>1, <1>2 DEF IdentifierTypeOK
<1>5. QED BY <1>1, <1>2, <1>3, <1>4, ExchangeBegins

LEMMA CancelIInv == IdentifierAssumption /\ IdentifierIInv /\ Cancel => IdentifierIInv'
<1> SUFFICES ASSUME IdentifierAssumption, IdentifierIInv, Cancel PROVE IdentifierIInv'
  OBVIOUS
<1>1. /\ created > 0 /\ ~finished /\ cancelled' = TRUE /\ finished' = TRUE
      /\ tasks' = IF current = NoExchange THEN tasks ELSE Append(tasks, Task("cancel", current))
      /\ UNCHANGED <<exchange, created, current, asking, objectId, page, identified, result>>
  BY DEF Cancel
<1>2. IdentifierTypeOK /\ OneAfterAnother /\ ExchangeOwned /\ PagesBounded /\ OneConnection /\ result = <<>>
  BY <1>1 DEF IdentifierIInv, ExchangesAccounted, NothingYet
<1>3. Unfinished = {current} /\ current \in Exchanges /\ current # NoExchange /\ current = created
  <2>1. Unfinished = {current}
    BY <1>1, <1>2 DEF ExchangeOwned
  <2>2. current \in Exchanges
    BY <2>1 DEF Unfinished
  <2>3. QED BY <1>2, <2>1, <2>2, ExchangeNumbers DEF IdentifierTypeOK
<1>4. /\ tasks' \in Seq(ExchangeQueue) /\ \A i \in DOMAIN tasks' : tasks'[i].exchange <= created
      /\ \E i \in DOMAIN tasks' : tasks'[i] = Task("cancel", current)
  <2>1. Posted(tasks) /\ created \in Nat /\ created <= created
    BY <1>2, ExchangeNumbers DEF Posted, IdentifierTypeOK, OneAfterAnother, ExchangeQueue
  <2>2. /\ "cancel" \in {"start", "cancel"} /\ current <= created
        /\ tasks' = Append(tasks, Task("cancel", current))
    BY <1>1, <1>3, <2>1
  <2>3. QED BY <1>2, <1>3, <2>1, <2>2, PostedAppend
<1>5. IdentifierTypeOK'
  BY <1>1, <1>2, <1>4 DEF IdentifierTypeOK, ExchangeQueue
<1>6. OneAfterAnother'
  BY <1>1, <1>2, <1>4 DEF OneAfterAnother
<1>7. Unfinished' = Unfinished
  BY <1>1 DEF Unfinished
<1>8. OneConnection' /\ ExchangeOwned' /\ PagesBounded'
  BY <1>1, <1>2, <1>3, <1>4, <1>7 DEF OneConnection, ExchangeOwned, PagesBounded
<1>9. ReportedOnce' /\ NothingYet'
  <2>1. Len(<<>>) = 0
    BY EmptySeq
  <2>2. QED BY <1>1, <1>2, <2>1 DEF ReportedOnce, NothingYet
<1>10. QED BY <1>5, <1>6, <1>8, <1>9 DEF IdentifierIInv, ExchangesAccounted

(* An exchange goes on: connecting, or waiting for its answer.               *)
LEMMA ExchangeGoesOn ==
    ASSUME IdentifierAssumption, IdentifierIInv, NEW e \in Exchanges, exchange[e] \notin {"none", "finished"},
           NEW s \in {"connecting", "awaiting"}, exchange' = [exchange EXCEPT ![e] = s],
           Posted(tasks'),
           \A f \in Exchanges : (\E i \in DOMAIN tasks : tasks[i] = Task("cancel", f))
                                    => \E i \in DOMAIN tasks' : tasks'[i] = Task("cancel", f),
           UNCHANGED <<identifier, cancelled>>
    PROVE  IdentifierIInv'
<1>1. UNCHANGED <<created, current, asking, objectId, page, identified, finished, result, cancelled>>
  BY DEF identifier
<1>2. IdentifierTypeOK /\ OneAfterAnother /\ OneConnection /\ ExchangeOwned
      /\ PagesBounded /\ ReportedOnce /\ NothingYet
      /\ created \in Nat /\ \A f \in Exchanges : f \in Nat
  <2>1. IdentifierTypeOK /\ OneAfterAnother /\ OneConnection /\ ExchangeOwned
        /\ PagesBounded /\ ReportedOnce /\ NothingYet
    BY DEF IdentifierIInv, ExchangesAccounted
  <2>2. created \in Nat /\ \A f \in Exchanges : f \in Nat
    BY <2>1, ExchangeNumbers DEF IdentifierTypeOK
  <2>3. QED BY <2>1, <2>2
<1>3. e = created
  BY <1>2 DEF OneAfterAnother
<1>4. exchange' \in [Exchanges -> ExchangeStates] /\ exchange'[e] = s
      /\ \A f \in Exchanges \ {e} : exchange'[f] = exchange[f]
  BY <1>2 DEF IdentifierTypeOK, ExchangeStates
<1>5. IdentifierTypeOK'
  BY <1>1, <1>2, <1>4 DEF IdentifierTypeOK, Posted, ExchangeQueue, ExchangeStates
<1>6. OneAfterAnother'
  BY <1>1, <1>2, <1>3, <1>4 DEF OneAfterAnother, Posted
<1>7. Unfinished' = Unfinished
  BY <1>4 DEF Unfinished
<1>8. OneConnection' /\ PagesBounded' /\ ReportedOnce' /\ NothingYet'
  BY <1>1, <1>2, <1>7 DEF OneConnection, PagesBounded, ReportedOnce, NothingYet
<1>9. ExchangeOwned'
  <2>1. Unfinished \subseteq Exchanges
    BY DEF Unfinished
  <2>2. QED BY <1>1, <1>2, <1>7, <2>1 DEF ExchangeOwned
<1>10. QED BY <1>5, <1>6, <1>8, <1>9 DEF IdentifierIInv, ExchangesAccounted

LEMMA RunTaskIInv == IdentifierAssumption /\ IdentifierIInv /\ RunTask => IdentifierIInv'
<1> SUFFICES ASSUME IdentifierAssumption, IdentifierIInv, RunTask PROVE IdentifierIInv'
  OBVIOUS
<1> DEFINE e == Head(tasks).exchange
<1>1. tasks # <<>> /\ cancelled' = cancelled
  BY DEF RunTask, RunStart, RunCancel
<1>2. IdentifierTypeOK /\ OneAfterAnother
  BY DEF IdentifierIInv, ExchangesAccounted
<1>3. /\ Posted(Tail(tasks)) /\ Head(tasks) \in ExchangeQueue /\ e <= created
      /\ \A task : (\E i \in DOMAIN tasks : tasks[i] = task) /\ task # Head(tasks)
                      => \E i \in DOMAIN Tail(tasks) : Tail(tasks)[i] = task
  BY <1>1, <1>2, PostedTail
<1>4. e \in Exchanges
  BY <1>3 DEF ExchangeQueue
<1> HIDE DEF e
<1>5. \A f : Task("cancel", f).op = "cancel" /\ Task("cancel", f).exchange = f
  BY DEF Task
<1>6. \A f \in Exchanges : f # e \/ Head(tasks).op = "start" => Task("cancel", f) # Head(tasks)
  BY <1>5 DEF e
<1>7. \A f \in Exchanges \ {e} : (\E i \in DOMAIN tasks : tasks[i] = Task("cancel", f))
                                    => \E i \in DOMAIN Tail(tasks) : Tail(tasks)[i] = Task("cancel", f)
  BY <1>3, <1>6
<1>8. CASE Finish(e, "error", Tail(tasks))
  BY <1>1, <1>3, <1>4, <1>7, <1>8, ExchangeFinishes
<1>9. CASE /\ Head(tasks).op = "start" /\ exchange[e] = "posted"
           /\ exchange' = [exchange EXCEPT ![e] = "connecting"]
           /\ tasks' = Tail(tasks)
           /\ UNCHANGED identifier
  <2>1. \A f \in Exchanges : (\E i \in DOMAIN tasks : tasks[i] = Task("cancel", f))
                                => \E i \in DOMAIN tasks' : tasks'[i] = Task("cancel", f)
    BY <1>3, <1>6, <1>9
  <2>2. Posted(tasks')
    BY <1>3, <1>9 DEF Posted, identifier
  <2>3. exchange[e] \notin {"none", "finished"}
    BY <1>9
  <2>4. QED BY <1>1, <1>4, <1>9, <2>1, <2>2, <2>3, ExchangeGoesOn
<1>10. QED BY <1>8, <1>9 DEF RunTask, RunStart, RunCancel, e

(* An answer, a lost connection or a timeout finishes the exchange it is for. *)
LEMMA EventIInv ==
    ASSUME IdentifierAssumption, IdentifierIInv, NEW e \in Exchanges,
           OnConnected(e) \/ OnDisconnected(e) \/ OnResponseTimeout(e) \/ OnData(e)
    PROVE  IdentifierIInv'
<1>1. exchange[e] \in {"connecting", "awaiting"} /\ cancelled' = cancelled
  BY DEF OnConnected, OnDisconnected, OnResponseTimeout, OnData
<1>2. IdentifierTypeOK /\ OneAfterAnother /\ created \in Nat /\ e \in Nat
  BY ExchangeNumbers DEF IdentifierIInv, ExchangesAccounted, IdentifierTypeOK
<1>3. e <= created /\ Posted(tasks)
  BY <1>1, <1>2 DEF OneAfterAnother, Posted, IdentifierTypeOK, ExchangeQueue
<1>4. CASE \E answer \in {"error", "foreign", "exception", "normal"} : Finish(e, answer, tasks)
  BY <1>1, <1>3, <1>4, ExchangeFinishes
<1>5. CASE exchange' = [exchange EXCEPT ![e] = "awaiting"] /\ UNCHANGED <<tasks, identifier>>
  <2>1. Posted(tasks')
    BY <1>3, <1>5 DEF Posted, identifier
  <2>2. exchange[e] \notin {"none", "finished"}
    BY <1>1
  <2>3. QED BY <1>1, <1>5, <2>1, <2>2, ExchangeGoesOn
<1>6. QED BY <1>4, <1>5 DEF OnConnected, OnDisconnected, OnResponseTimeout, OnData

LEMMA IdentifierNextIInv ==
    IdentifierAssumption /\ IdentifierIInv /\ [IdentifierNext]_identifierVars => IdentifierIInv'
<1> SUFFICES ASSUME IdentifierAssumption, IdentifierIInv, [IdentifierNext]_identifierVars
             PROVE  IdentifierIInv'
  OBVIOUS
<1>1. CASE UNCHANGED identifierVars
  BY <1>1
  DEF identifierVars, identifier, IdentifierIInv, ExchangesAccounted, IdentifierTypeOK, OneConnection,
      ExchangeOwned, PagesBounded, Unfinished, ReportedOnce, OneAfterAnother, NothingYet
<1>2. QED BY <1>1, StartIInv, CancelIInv, RunTaskIInv, EventIInv DEF IdentifierNext

-----------------------------------------------------------------------------
(* What the identifier keeps holds at every moment.                         *)
THEOREM IdentifierInvariance == IdentifierSpec => []IdentifierIInv
<1>1. IdentifierInit => IdentifierIInv
  BY IdentifierAssumption, IdentifierInitIInv
<1>2. IdentifierIInv /\ [IdentifierNext]_identifierVars => IdentifierIInv'
  BY IdentifierAssumption, IdentifierNextIInv
<1>3. QED BY <1>1, <1>2, PTL DEF IdentifierSpec

(* An identifier has at most one exchange open, it is the one it holds, an    *)
(* exchange it has let go of is finished or has its cancel() queued, and      *)
(* there are no more exchanges than pages and the fallback                  *)
(* (ModbusIdentifier.cpp).                                                 *)
THEOREM OneExchangeAtATime == IdentifierSpec => []ExchangesAccounted
<1>1. IdentifierIInv => ExchangesAccounted
  BY DEF IdentifierIInv
<1>2. IdentifierSpec => []IdentifierIInv
  BY IdentifierInvariance
<1>3. QED BY <1>1, <1>2, PTL

(* An identifier reports once, and after cancel() never, whichever of an      *)
(* answer, a timeout, a lost connection and cancel() comes first.            *)
THEOREM ReportsAtMostOnce == IdentifierSpec => []ReportedOnce
<1>1. IdentifierIInv => ReportedOnce
  BY DEF IdentifierIInv
<1>2. IdentifierSpec => []IdentifierIInv
  BY IdentifierInvariance
<1>3. QED BY <1>1, <1>2, PTL
=============================================================================
