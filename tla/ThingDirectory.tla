--------------------------- MODULE ThingDirectory ---------------------------
(***************************************************************************)
(* How candidates become things: DiscoveryService starts one SunSpec chain  *)
(* after another and hands every candidate on, main() has                  *)
(* ThingFactoryService make things of them and adds these to the            *)
(* ThingRepository, PollingService watches what is there and removes what   *)
(* has expired (src/main.cpp, src/bootstrap, src/thing,                     *)
(* src/common/PollingService.cpp, src/shelly/ShellyThingFactory.cpp).       *)
(*                                                                         *)
(* Everything runs on the Reactor's loop; an action is one callback.  A     *)
(* chain reports a candidate at most once (ModbusDiscovery!JobsOnce), first *)
(* the Modbus unit, then the SunSpec device behind it.  Open ports are      *)
(* candidates too, but never things.                                       *)
(***************************************************************************)
EXTENDS Naturals, Sequences, SequencesExt

CONSTANTS Devices,          (* SunSpec devices in the subnet               *)
          SunspecId,        (* sunSpecId() of each device                  *)
          Shellys,          (* Shelly instances, by their lowercase key    *)
          MaxFailures,      (* Thing::kMaxConsecutiveFailures              *)
          MaxScans,         (* chains started; bounds the model            *)
          MaxNameFaults,    (* names that cannot be restored; a bound      *)
          MaxQueryFaults    (* mDNS queries that cannot be sent; a bound   *)

ASSUME DirectoryAssumption ==
    /\ MaxFailures \in Nat \ {0}
    /\ MaxScans \in Nat /\ MaxNameFaults \in Nat /\ MaxQueryFaults \in Nat

ModbusThing(d) == <<"modbus", d>>
SunspecThing(d) == <<"sunspec", SunspecId[d]>>
ShellyThing(k) == <<"shelly", k>>

ScannedThings == {ModbusThing(d) : d \in Devices} \cup {SunspecThing(d) : d \in Devices}
Ids == ScannedThings \cup {ShellyThing(k) : k \in Shellys}

Parts == {"host", "port"}    \* what a Shelly needs before it can be reached

VARIABLES
    listening,   (* main's subscription to the candidates is alive          *)
    mdnsAlive,   (* the subject of MdnsDiscovery has not failed             *)
    scans,       (* chains started so far                                  *)
    chain,       (* there is a chain: _sunspecDiscovery is set              *)
    reported,    (* the devices it has reported: as a unit, as SunSpec      *)
    merged,      (* ShellyThingFactory::_discovered                        *)
    created,     (* ShellyThingFactory::_emitted                           *)
    things,      (* ThingRepository::_things, by their IDs                  *)
    watched,     (* PollingService::_currentThings and the things whose     *)
                 (* expiry it is subscribed to                             *)
    failures,    (* Thing::_consecutiveFailures                            *)
    seen,        (* things the network has shown so far                     *)
    lost,        (* things that expired and were not shown since            *)
    announced,   (* what each Shelly has announced of itself                *)
    nameless,    (* Shellys with an empty key, which nothing changes        *)
    nameFaults, queryFaults    (* faults so far                            *)

discovery == <<mdnsAlive, scans, chain, reported, queryFaults, nameless>>
factory == <<merged, created>>
repository == <<things, watched, failures, nameFaults>>
history == <<seen, lost, announced>>
vars == <<listening, discovery, factory, repository, history>>

TypeOK ==
    /\ {listening, mdnsAlive, chain} \subseteq BOOLEAN
    /\ scans \in 0..MaxScans
    /\ reported \subseteq {"unit", "sunspec"} \X Devices
    /\ merged \in [Shellys -> SUBSET Parts] /\ created \subseteq Shellys
    /\ things \in Seq(Ids) /\ watched \in Seq(Ids)
    /\ failures \in [Ids -> 0..MaxFailures]
    /\ seen \subseteq Ids /\ lost \subseteq Ids
    /\ announced \in [Shellys -> SUBSET Parts] /\ nameless \subseteq Shellys
    /\ nameFaults \in 0..MaxNameFaults /\ queryFaults \in 0..MaxQueryFaults

Init ==
    /\ listening = TRUE /\ mdnsAlive = TRUE
    /\ scans = 0 /\ chain = FALSE /\ reported = {}
    /\ merged = [k \in Shellys |-> {}] /\ created = {}
    /\ things = <<>> /\ watched = <<>>
    /\ failures = [id \in Ids |-> 0]
    /\ seen = {} /\ lost = {} /\ announced = [k \in Shellys |-> {}]
    /\ nameless \in SUBSET Shellys
    /\ nameFaults = 0 /\ queryFaults = 0

-----------------------------------------------------------------------------
(* The repository.                                                         *)

(* Faulty: PollingService keeps to the list it began with.                  *)
PublishUnwatched(list) == things' = list /\ UNCHANGED watched

(* emitThings: PollingService takes the new list and subscribes to the      *)
(* expiry of what is in it, instead of what was.                            *)
Publish(list) == things' = list /\ watched' = list

(* Faulty: a thing whose name cannot be restored is dropped in silence.      *)
AddDrops(id) ==
    \/ /\ ~listening \/ Contains(things, id)
       /\ UNCHANGED <<listening, repository>>
    \/ /\ listening /\ ~Contains(things, id) /\ nameFaults < MaxNameFaults
       /\ nameFaults' = nameFaults + 1
       /\ UNCHANGED <<listening, things, watched, failures>>
    \/ /\ listening /\ ~Contains(things, id)
       /\ Publish(Append(things, id))
       /\ failures' = [failures EXCEPT ![id] = 0]
       /\ UNCHANGED <<listening, nameFaults>>

(* A candidate's thing reaches main's subscription.  An exception that add   *)
(* throws ends that subscription: RPP makes an on_error of it.              *)
Add(id) ==
    \/ /\ ~listening
       /\ UNCHANGED <<listening, repository>>
    \/ /\ listening /\ Contains(things, id)
       /\ listening' = FALSE
       /\ UNCHANGED repository
    \/ /\ listening /\ ~Contains(things, id)
       /\ nameFaults < MaxNameFaults           \* its name cannot be restored
       /\ nameFaults' = nameFaults + 1
       /\ listening' = FALSE
       /\ UNCHANGED <<things, watched, failures>>
    \/ /\ listening /\ ~Contains(things, id)
       /\ Publish(Append(things, id))
       /\ failures' = [failures EXCEPT ![id] = 0]
       /\ UNCHANGED <<listening, nameFaults>>

(* remove: the thing is erased where it stands.                             *)
Erase(id) == \E i \in DOMAIN things : things[i] = id /\ Publish(RemoveAt(things, i))

-----------------------------------------------------------------------------
(* The callbacks.                                                          *)

(* start(), and rediscover() at every discovery tick: two mDNS queries, then *)
(* a new chain in place of the old one, whose subscriptions are disposed.    *)
(* Without a primary subnet there is no new chain.                          *)
Discover ==
    /\ scans < MaxScans
    /\ scans' = scans + 1
    /\ chain' \in BOOLEAN
    /\ reported' = {}
    /\ \/ UNCHANGED <<mdnsAlive, queryFaults>>
       \/ /\ queryFaults < MaxQueryFaults       \* sendQuery fails its subject
          /\ queryFaults' = queryFaults + 1
          /\ mdnsAlive' = FALSE
    /\ UNCHANGED <<listening, factory, repository, history, nameless>>

(* The Modbus discovery of the running chain identifies a unit.             *)
ModbusReports(d) ==
    /\ chain /\ <<"unit", d>> \notin reported
    /\ reported' = reported \cup {<<"unit", d>>}
    /\ seen' = seen \cup {ModbusThing(d)}
    /\ lost' = lost \ {ModbusThing(d)}
    /\ Add(ModbusThing(d))
    /\ UNCHANGED <<mdnsAlive, scans, chain, queryFaults, factory, announced, nameless>>

(* Its SunSpec discovery has read the chain of models behind that unit.      *)
SunspecReports(d) ==
    /\ chain /\ <<"unit", d>> \in reported /\ <<"sunspec", d>> \notin reported
    /\ reported' = reported \cup {<<"sunspec", d>>}
    /\ seen' = seen \cup {SunspecThing(d)}
    /\ lost' = lost \ {SunspecThing(d)}
    /\ Add(SunspecThing(d))
    /\ UNCHANGED <<mdnsAlive, scans, chain, queryFaults, factory, announced, nameless>>

(* Faulty: the factory forgets which Shellys it has created.                *)
ShellyAnnouncesAgain(k, parts) ==
    /\ announced' = [announced EXCEPT ![k] = @ \cup parts]
    /\ seen' = IF announced'[k] = Parts THEN seen \cup {ShellyThing(k)} ELSE seen
    /\ IF mdnsAlive /\ listening
       THEN /\ merged' = [merged EXCEPT ![k] = @ \cup parts]
            /\ \/ merged'[k] # Parts /\ UNCHANGED <<listening, repository>>
               \/ merged'[k] = Parts /\ k \in nameless /\ listening' = FALSE /\ UNCHANGED repository
               \/ merged'[k] = Parts /\ k \notin nameless /\ Add(ShellyThing(k))
       ELSE UNCHANGED <<merged, listening, repository>>
    /\ UNCHANGED <<created, discovery, lost>>

(* A Shelly announces itself under _shelly._tcp or _http._tcp, with some of   *)
(* its records; ShellyThingFactory::tryCreate merges them.  A thing cannot   *)
(* be constructed without an ID, and this exception, too, ends the           *)
(* subscription.                                                           *)
ShellyAnnounces(k, parts) ==
    /\ announced' = [announced EXCEPT ![k] = @ \cup parts]
    /\ seen' = IF announced'[k] = Parts THEN seen \cup {ShellyThing(k)} ELSE seen
    /\ IF mdnsAlive /\ listening
       THEN /\ merged' = [merged EXCEPT ![k] = @ \cup parts]
            /\ \/ /\ k \in created \/ merged'[k] # Parts
                  /\ UNCHANGED <<created, listening, repository>>
               \/ /\ k \notin created /\ merged'[k] = Parts
                  /\ created' = created \cup {k}
                  /\ \/ k \in nameless /\ listening' = FALSE /\ UNCHANGED repository
                     \/ k \notin nameless /\ Add(ShellyThing(k))
       ELSE UNCHANGED <<factory, listening, repository>>
    /\ UNCHANGED <<discovery, lost>>

(* A poll of a thing ends well; notePollSuccess.                            *)
PollSucceeds(id) ==
    /\ Contains(things, id)
    /\ failures' = [failures EXCEPT ![id] = 0]
    /\ UNCHANGED <<listening, discovery, factory, things, watched, nameFaults, history>>

(* A poll fails; notePollFailure, which expires the thing after the last of  *)
(* MaxFailures in a row, and PollingService removes it if it watches it.     *)
PollFails(id) ==
    /\ Contains(things, id)
    /\ LET count == failures[id] + 1
       IN  IF count >= MaxFailures /\ Contains(watched, id)
           THEN /\ Erase(id)
                /\ failures' = [failures EXCEPT ![id] = 0]
                /\ lost' = lost \cup {id}
           ELSE /\ failures' = [failures EXCEPT ![id] = count]
                /\ UNCHANGED <<things, watched, lost>>
    /\ UNCHANGED <<listening, discovery, factory, nameFaults, seen, announced>>

Next == \/ Discover
        \/ \E d \in Devices : ModbusReports(d) \/ SunspecReports(d)
        \/ \E k \in Shellys, parts \in SUBSET Parts : ShellyAnnounces(k, parts)
        \/ \E id \in Ids : PollSucceeds(id) \/ PollFails(id)

Spec == Init /\ [][Next]_vars

-----------------------------------------------------------------------------
(* Properties.                                                             *)

(* No two things of the repository have the same ID, so find() is never      *)
(* ambiguous.                                                              *)
UniqueThings == IsInjective(things)

(* As long as main listens, every thing the network has shown is in the      *)
(* repository, unless it has expired and was not shown since: no candidate   *)
(* is dropped between the chain, the factories and the repository.          *)
FoundWhileListening ==
    listening => \A id \in seen : \/ Contains(things, id) \/ id \in lost
                                  \/ ~mdnsAlive /\ id \notin ScannedThings

(* main stops listening for candidates only after a scan was repeated, or    *)
(* devices share an ID, or a name could not be restored, or a Shelly without *)
(* a name could be reached: a Shelly that announces itself again, under      *)
(* either service type, does no harm.                                       *)
KeepsListening ==
    ~listening => \/ scans > 1 \/ nameFaults > 0
                  \/ \E k \in nameless : announced[k] = Parts
                  \/ \E d, e \in Devices : d # e /\ SunspecId[d] = SunspecId[e]

(* Every thing in the repository is watched, so one that fails MaxFailures   *)
(* polls in a row never stays, however the list changed in between.         *)
ExpiryHeard == \A id \in Ids : Contains(things, id) => failures[id] < MaxFailures

(* No candidate becomes a second thing with an ID that is there already, and *)
(* none stays that nobody watches.                                          *)
ThingsAccounted == TypeOK /\ UniqueThings /\ ExpiryHeard

(* Devices that missed the first discovery or joined the network later are   *)
(* found by a later one.                                                   *)
RediscoveryFinds == \A id \in seen \cap ScannedThings : Contains(things, id) \/ id \in lost

=============================================================================
