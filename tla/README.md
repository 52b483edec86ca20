# A TLA+ model of neubau

neubau finds the energy devices of a home network, keeps them as *things* and
shows them on a web page. This directory models the part of it that is hard to
test: one event loop, on which port scans, Modbus requests, SunSpec scans,
timers and subscriptions run as callbacks, and which is stopped, cut off or
asked to start again at any moment. Line numbers are those of the repository's
`src/` tree at this commit.

Contents: [the system](#the-system), [modules](#the-modules),
[runs](#the-runs), [bounds](#bounds), [fairness](#fairness),
[proofs](#proofs), [findings](#findings),
[what is not modelled](#what-is-not-modelled), [plan](#plan).

## The system

Almost everything below runs on one loop (`src/common/Reactor.cpp`): a callback runs
to completion, and `queueInLoop` posts a task for later, in order. Other
threads only post tasks; the exceptions are the store, which any thread may call
under its mutex, and the web application. Results travel through RPP flows, whose observers are
called synchronously, inside the callback that emits; an observer may therefore
call back into the emitter. Most of the difficulty is there: *what was posted
runs late, what is emitted runs at once.*

| Component | State | Operations | Talks to |
| --- | --- | --- | --- |
| Reactor | task queue, run state | run, queueInLoop | everything |
| Port scanner `common/PortScanner*.cpp` | next job, active connectors, stopAction | start, stop, connection results | emits open ports |
| Modbus identifier `modbus/ModbusDiscovery.cpp` | current exchange, page, object | start, cancel, answers, timeouts | one TCP connection per request |
| Modbus discovery `modbus/ModbusDiscovery.cpp` | waiting jobs, running identifiers | start, stop, open ports, results | drives the port scanner, emits Modbus things |
| Modbus session `modbus/ModbusSession.cpp` | queue of reads, active read, connection, timer | read, close, frames, timeouts | one TCP connection, reads answered in order |
| SunSpec scanner `sunspec/SunspecScanner.cpp` | unit, address, located models | scan, cancel, results of reads | reads through a Modbus session |
| SunSpec discovery `sunspec/SunspecDiscovery.cpp` | endpoints with their scans and sessions | start, stop, candidates, results | drives the Modbus discovery, emits SunSpec things |
| Discovery service `bootstrap/DiscoveryService.cpp` | the running chain, the retired one until its stop has run | start, rediscover, stop | one chain after another, and mDNS |
| mDNS discovery `mdns/MdnsDiscovery.cpp` | services being assembled, addresses of hosts, services emitted | discover, datagrams, stop | emits services |
| Factories, repository, polling (`bootstrap`, `shelly`, `thing`, `common/PollingService.cpp`) | Shelly announcements, list of things, failed polls | tryCreate, add, remove, tick | the subscription in `main.cpp` joins them |
| Timer `common/Timer.cpp` | intervals, schedulers, timeouts | intervals, ticks, failure, stop | ticks discovery and polling |
| Persistence `common/Persistence.cpp`, configuration | one TOML file and one beside it while it is replaced, a mutex | save, restore, intervals | names of things, intervals |
| Web application `webapp/` | none of its own | two GET handlers | reads the repository on its own thread |
| Subnet `common/Subnet.cpp` | none | network, hosts, limit | the port scanner's jobs |
| SunSpec decoding, properties | none | pure functions | |

What is hard about them, in one line each:

- *Modbus session*: a success is delivered by a task, a failure at once, and the
  next read starts before either is heard; timers, late frames and closing meet.
- *Port scanner, Modbus discovery*: stopping takes effect in tasks, while results
  keep coming and may start new work.
- *SunSpec discovery*: a subscriber may stop the run from inside an emission;
  a scan's first step is posted, so it can be cancelled before it exists.
- *SunSpec scanner*: a device chooses the lengths that steer the walk.
- *Things*: an exception in one observer ends a subscription that is meant to
  live as long as the process.
- *Retirement*: a chain that is replaced is destroyed while tasks that use it may
  still be queued.
- *mDNS*: what is known of a service comes in parts, in any order, old and new.
- *Persistence*: every save rewrites the whole file, and may be killed in it.
- *Timer*: two channels share schedulers; timeouts are never killed.

`PROJECT.json` lists every such hazard at its line, with the property that
catches it, or the reason why none does.

## The modules

| Module | What it models |
| --- | --- |
| `ReadContract` | abstract: what the subscriber of a read may rely on |
| `DiscoveryFlow` | abstract: what `ThingDiscovery<Candidate>` promises: one start, candidates while it runs, one end |
| `ServiceFlow` | abstract: what mDNS promises: services the network has shown, nothing after the end |
| `PropertyStore` | abstract: a store in which a save changes one property at once, unless a copy is cut short |
| `ModbusSession` | `ModbusSession::State` with a peer that may misbehave; implements `ReadContract` |
| `PortScanner` | `PortScanner`, `PortScannerSession`, `Connector`; implements `DiscoveryFlow` |
| `Subnet` | masks and hosts as operators on addresses of `Width` bits; shifts and the mask's *and* by the bits of a number, so that they can be reasoned about |
| `MCPortScanner` | composes `Subnet` and `PortScanner`: the jobs are the hosts and ports of a subnet |
| `ModbusIdentifier` | `Identifier` and its `TcpExchange`s |
| `ModbusDiscovery` | the session of `ModbusDiscovery::scan`, above any `DiscoveryFlow`; implements `DiscoveryFlow` |
| `SunspecScanner` | `ScanState`, `LogicalRegisterReader`, `SunspecScanControl`; implements `DiscoveryFlow` |
| `SunspecDiscovery` | `SunspecDiscovery::State` and `Run`, above any `DiscoveryFlow`, with the destructor; implements `DiscoveryFlow` |
| `SunspecChain` | composes `ModbusDiscovery` and `SunspecDiscovery` as `DiscoveryService::startSunspec` does, and retires the two as `stopSunspecChain` does |
| `MdnsDiscovery` | `MdnsDiscovery` with devices that move and datagrams that are partial, outdated or damaged; implements `ServiceFlow` |
| `ThingDirectory` | chains, mDNS, factories, the subscription of `main`, repository, polling |
| `Persistence` | saves of several threads, failing steps, kills and restarts; implements `PropertyStore` |
| `Timer` | `Timer::State` and `Scheduler` |
| `*Proofs` | theorems, see [proofs](#proofs) |
| other `MC*` | constants of a run that a configuration cannot write (sequences, functions, symmetry) |

The modules follow the components: each discovery is written above the
*contract* of the one below, and checked to keep the same contract towards the
one above. The chain of contracts is `PortScanner` -> `ModbusDiscovery` ->
`SunspecDiscovery`, with `ModbusIdentifier` justifying what
`ModbusDiscovery` assumes of an identifier (it calls back once or is
cancelled), `SunspecScanner` what `SunspecDiscovery` assumes of a scan (it ends
once, synchronously when cancelled), and `ModbusSession` what `SunspecScanner`
assumes of a read. Where the contract is not enough, because the two sides meet
in one callback, `SunspecChain` runs the two real modules together. It does not
require of the Modbus discovery below that it keeps its contract; that it does is
a property of the run and a theorem.

**From the code to the model.** A variable is a field, an action a callback of
the loop or a call from outside, an operator with parameters a function that
callbacks share. `tasks` is the Reactor's queue, as far as the component posts
to it; `Task` names what a posted lambda does. A call inside a callback is an
operator inside the action, never an action of its own. The operators that
take `q`, `c`, `out`, `t`, `x`, `p`, `a` receive the state as the caller
has left it, because a C++ function reads what its caller has just written.
Faults are disjuncts of the action in which they are met: no socket, a write
that fails, an observer that closes.

Where detail is left out:

- Data: registers, PDU bytes, addresses, names. What is kept of an answer is
  what the code branches on (accepted, refused, foreign, malformed; header,
  length, end marker).
- `ModbusSession` receives whole frames: a partial frame stays in
  `_receiveBuffer` and changes nothing else. `isConnected()` agrees with
  `_connected` between callbacks, since libhv calls `onConnection` from the
  close itself.
- `ModbusDiscovery` and `SunspecDiscovery` see their identifiers and scans
  through their callbacks. `begun`, `done`, `cancelled` and `stoppedLate` of
  `ModbusDiscovery` are history: which jobs have got an identifier, which of
  these have called back or were cancelled by the stop, and whether the stop ran
  after the end of the port scan with identifiers still active. No guard reads them.
- `PortScanner!Start` has two outcomes, with and without a stop of another thread
  between the assignment of `stopAction` and the posting of the first `fill`; nothing
  else of the call can be seen from outside.
- In `SunspecChain` the tasks of the Modbus discovery are in one queue, and what
  is queued behind them where it matters: the port scanner's first task
  (`scanAhead`) and the task that keeps a retired chain alive (`ahead`).
  Later tasks of the port scanner, of identifiers and of scans take any
  order, which is more than the Reactor allows.
- `MdnsDiscovery`: a datagram is about one instance and carries any of its PTR,
  SRV and address records; of a service only host, addresses and the goodbye
  are kept, since TXT, port, priority and weight travel with them. The wire
  format is that of the vendored mdns library. The code keeps a record whose time to
  live is 0 like any other, and keeps addresses for ever; so does the model.
- `Persistence`: a save is cut where another thread, an error or a kill makes a
  difference. What was flushed is on the disk: the program is killed, the
  machine is not. `restore` reads under the same mutex and changes nothing.
  In this version `src/` itself never saves (only its tests do); the
  repository's `README.md:84` gives the functions to things, and the model
  is of any callers that use them so.
- `Subnet`: parsing and formatting an address and listing the machine's
  interfaces are left out; the latter is the constant `Locals`.
- `SunspecDiscovery!ScanFails` is part of a scan's contract (no session to go
  on with); with a fixed unit, as the discovery service uses it, it happens only
  while the run is being torn down.
- `ThingDirectory`: outcomes of polls are inputs. `Thing::poll` is a no-op that
  no class in `src/` overrides; the methods for reporting an outcome are there
  and `PollingService` listens to their effect. Which Shellys announce no name
  (`nameless`) is chosen at the start: the constructor of their thing throws.
  `Publish` assigns the list and what the polling service watches in one step; that
  the service replaces its subscriptions while one of them is calling it is RPP's.
- `Timer`: time is counted in units of half a millisecond, so that truncation to
  milliseconds shows; a second has two milliseconds, that is four units, since
  only the proportions of the three matter. libhv fires a timeout when it
  is due or later, and the clock does not jump. The cast of the delay to an `int`,
  which libhv takes as an unsigned number again, is the remainder by `DelayRange`. A
  delay of which nothing remains is taken as due at once; what libhv makes of
  it is left out, as is its own arithmetic with the longest delays.

Operators whose comment begins with *Faulty:* are not part of the model. Each
is a definition with a plausible bug; substituted for the definition that
follows it, it makes a property fail, which shows that the property says
something about the code. `PROJECT.json` pairs them with the properties under
`mutants`.

## The runs

With two workers the `Timer` and `MCSunspecChain` runs take about a minute each, the others less than half a minute.

| Run | Question | States |
| --- | --- | --- |
| `ModbusSession.cfg` | Does each read have one outcome, in order, its own registers, a timer while it waits, and an end? Does the session implement `ReadContract`? | 23265 |
| `MCPortScanner.cfg` | Is every usable host and port of a subnet tried once? Concurrency, ends, orphans, silence after the end, termination and the two things it rests on | 10124 |
| `ModbusIdentifier.cfg` | One connection, one report, bounded pages, termination | 183 |
| `SunspecDiscovery.cfg` | No session left open, no scan left running after a stop or the destructor, one end, which comes when all is scanned and not before, termination provided the discovery below ends | 1879 |
| `MCSunspecChain.cfg` | Are the jobs the units of the reported ports, each identified at most once and none overlooked, and nothing emitted after a stop? Is a retired chain used after it is destroyed? When does the chain end? | 54896 |
| `MCSunspecChainStop.cfg` | Does a stopped chain end? **No**, see finding 1 | |
| `SunspecScanner.cfg` | Bounds of the reads, contiguous chain, instances, whole things, order and number of probes, cancellation, termination and the measure that decreases to it | 36877 |
| `MCMdnsDiscovery.cfg` | Is what subscribers know of a service current, never mixed up, and at last true? | 45967 |
| `MCThingDirectory.cfg` | No candidate lost while `main` listens; why does it stop listening; do expired things go? | 263747 |
| `MCThingDirectoryRescan.cfg` | Are devices found by rediscovery? **No**, see finding 2 | |
| `Persistence.cfg` | Does a saved property stay, whatever else is saved, fails or is killed? Does a save end? | 54862 |
| `Timer.cfg` | Is each channel served by one scheduler; how early, how often is a tick announced? | 762666 |

A property whose name ends in `Accounted`, and `ChainWellFormed`, `SweepInOrder`,
`NothingLeftRunning`, `SubnetScanned`, `ScanProgresses`, `EndsWhenScanned`,
`EndsWhenIdentified` and `ChainEndsUnlessStoppedLate`, is the
conjunction of named parts that are defined before it. Each module's `TypeOK` is
one of its invariants or a part of one.

Deadlock is not checked: every component stops for good when it has ended or
the bound on its inputs is reached, and termination is a property of its own.

The properties worth arguing about:

- `ModbusSession!ReadsAccounted`: `OneOutcome` partitions the reads (still a task, held by the
  session, answered but not delivered, over), `TimerCoversActive` gives the first of
  those held a timer, also when an observer has closed the session inside the callback
  that is about to start the next read. `FirstInFirstDecided` adds the
  order, `OwnAnswer` that nobody is given another read's registers even though
  transaction identifiers wrap and frames repeat. The latter needs the code's
  policy of failing everything on a response timeout: a session that went on
  with the next read would collect stale frames, which its part
  `StaleFramesBounded` rules out. It holds under `MaxFaults < MaxTransaction`: 65535 repeated frames
  on one connection are out of scope.
- `PortScanner!ConnectionsAccounted`: after a stop the session forgets its
  connectors; they are still counted by the model, never exceed the limit
  (`ConcurrencyBounded`), and must each have a cancellation on the way.
- `MCPortScanner!SubnetScanned`: a scan that ends by itself has tried the usable
  addresses of the subnet but the machine's own, with every port, once each.
  `HostsExact` says so of the hosts for *every* address and prefix, against a
  definition of the network by division instead of masks.
- `PortScanner!ScanProgresses`: its parts `NeverStalls` and `WorkShrinks` are the two halves of termination that are not
  about fairness. A scan that has not ended waits for a task or for a connection
  attempt, also after a stop has made the session forget its connectors; and each step
  leaves less to do, measured by jobs, tasks, active jobs and open connections
  together: a job that is taken posts a task, becomes active and opens a connection.
- `ModbusDiscovery!EndsWhenIdentified`, `SunspecChain!ChainEndsUnlessStoppedLate`: the jobs are
  the units of the ports that were reported (`JobsReported`), all of them: until a stop each waits or has begun
  (`NoneOverlooked`), none begins twice (`JobsOnce`), and a session that completes unstopped has had
  the result of every one (`NothingLeft`), in whatever order ports and results come. The end
  is not later than the last of them either: a session that has not ended waits for its first task,
  the port scan or an identifier. The one exception is `stoppedLate`, a stop that ran after the end of
  the port scan and before the last result (finding 1).
- `SunspecDiscovery!EndsWhenScanned`: the same one level up, where the last event may be the end
  of the Modbus discovery or of any scan, and a failure may be heard inside a scan's own callback.
- `SunspecChain!ReleasedUntouched`: when the task that keeps a retired chain alive
  has run, tasks of the chain may still be queued, but none goes on to use the
  destroyed port scanner or Modbus discovery, and nobody was forgotten: each identifier
  ever started has called back or was cancelled, the port scan was told to stop if it still
  runs, the sessions of the scans are closed. That one more task suffices rests on
  the stop being posted before it. Sockets may still be open at that moment: the
  cancellations of exchanges and connectors are tasks behind the release, and own what they need. That
  each is closed is `ModbusIdentifier!ExchangesAccounted` and `PortScanner!ConnectionsAccounted`.
- `ModbusIdentifier!ExchangesAccounted`: one connection at a time, and boundedly many
  (`PagesBounded`): a device decides whether there is another page; two object
  numbers named in turn defeat the comparison with the last one, and only the page
  counter ends it.
- `SunspecDiscovery!NothingLeftRunning`: sessions and scans against a stop at any
  moment, also from a subscriber that is being given a thing (`FoundThenStop`),
  and against the destructor.
- `SunspecScanner!ChainWellFormed`, `EmittedWhole`: lengths chosen by the device
  never lead out of the span (`ReadsInSpan`), never make the chain overlap, and never
  yield a half-read thing. `WorkShrinks`: nor do they keep the scan busy for ever, though a length
  may be 0 and a closed connection sends the sweep back to the unit it has just probed.
- `MdnsDiscovery!EmissionsCurrent`: emission looks at every service after every
  datagram, also at those the datagram does not name; that is what makes an
  address that comes late, or a record of a damaged datagram, reach the
  subscribers. `SettlesOnTruth`: whatever was lost, late or damaged before,
  what they know is at last what is there, addresses given up aside.
  `ImplementsFlow`: no service is put together from two devices. A query
  that cannot be sent fails the flow for good (`MdnsDiscovery.cpp:172`), while
  later queries are still sent and rediscovery is documented to find devices
  that were missed (`bootstrap/DiscoveryService.hpp:42`); the properties are
  therefore about a flow that is open.
- `Persistence!SavedStays`, `ImplementsStore`: read, modify and write under one
  mutex, beside the file: no save takes another one back, and a kill leaves the old
  contents or the new. Where `rename` fails, the fallback copies, and a copy that is
  cut short loses contents; the abstract store says exactly when.
- `ThingDirectory!FoundWhileListening`, `KeepsListening`: together they say what
  the one long-lived subscription is good for and what ends it: a second scan, a duplicate ID, a name that cannot
  be restored, or a Shelly without a name.
- `Timer!AnnouncedTwiceAtMost`: because the delay is truncated, a tick can fire
  up to a millisecond before its boundary, and the next boundary *strictly after
  now* is then the same one. It is announced a second time, but not a third. This is so
  for intervals whose milliseconds fit the delay of the event loop (`Fits`), which the program does not
  check (see the end of [findings](#findings)).

## Bounds

Every bound is a constant named in the module.

- `ModbusSession`: 5 reads, so that one can be active, others queue behind it,
  one (the second) is refused for its count, and the transaction counter, which
  wraps after 3, comes round; 2 faults of the peer, which is less than the
  number of transaction identifiers, as in the code.
- `MCPortScanner`: addresses of 4 bits, a network of 8 with prefix 1, three of
  whose six usable addresses are the machine's own, and 2 ports: 6 jobs,
  2 at a time, so that jobs wait, are taken by results, and both places can
  be cancelled; 2 stops, the second while the first is cancelling or after it, and one of them
  possibly from another thread inside `start()`.
  `HostsExact` goes through all 16 addresses, all prefixes from 0 to 4, eight sets of
  own addresses and all limits.
- `MCSunspecChain`: 2 ports, 2 units, 2 at a time: a port's jobs fill the
  places and the other's wait; 2 stops, of the owner, of a failing scan, of a
  subscriber or of the retirement.
- `ModbusIdentifier`: 4 pages instead of 8 and 3 object numbers, enough for a
  device that names two in turn.
- `SunspecDiscovery`: 3 candidates: one scan ended, one running, one posted.
- `SunspecScanner`: an address space of 30 registers, a span of 22 and reads of
  3, with model lengths 0, 1, 4 and 9: empty, one read, cut in two, cut in
  three, and too long. The model list is at its limit at 4. Whether the unit is
  given is chosen at the start; a sweep has 3 units: a first, one between, and a
  last.
- `MdnsDiscovery`: 2 instances that may share 2 hosts, 2 addresses; one move, one
  outdated datagram and one failed query, and any number of current datagrams in any
  parts. One of each is enough to put a service together from old and new.
- `Persistence`: 2 threads and 2 properties, so that saves of the same and of
  different properties meet; 3 saves, 2 failing steps (such as a rename and the copy after
  it; reading the file may fail as well), one kill.
- `ThingDirectory`: 2 devices, interchangeable (symmetry), and a Shelly with 2
  parts, which has a name or not; 2 chains, one name and one query that fail. `MaxFailures` is 2 in the
  large run, 3, as in the code, in the other: a thing recovers after one
  failure and expires after the last.
- `Timer`: intervals of 1 and 2 seconds, 11 units of time, 3 changes: the two
  channels can share a scheduler, cross, and come back to an interval whose old
  timeout is still pending. Both fit the `DelayRange` of 8: an interval that does not
  may have a delay of nothing and repeat a tick for ever without time passing, so that only the theorems are
  about such intervals.

## Fairness

- The Reactor drains its queue: weak fairness of the step that runs the first
  task. It is a FIFO queue of a loop that only stops with the process.
- libhv fires the timers that are armed: weak fairness of the connect and the
  response timeout in `ModbusSession`, of a connection attempt's end in
  `PortScanner` and of an exchange's timeouts in `ModbusIdentifier`. The code
  arms them in the same callback that starts the wait.
- In a module above a contract the fairness is the termination shown below:
  `ModbusDiscovery` assumes that the port scan ends (`PortScanner!ScanEnds`) and
  that an identifier calls back (`ModbusIdentifier!IdentifierEnds`),
  `SunspecDiscovery` that the Modbus flow ends and that a scan does
  (`SunspecScanner!ScanEnds`), `SunspecScanner` that a read ends
  (`ModbusSession!EveryReadEnds`). `SunspecChain` drops the assumption on the
  Modbus flow, because the real one is there, and adds the loop's run of the
  start that was posted and of the task that keeps a retired chain.
- `SunspecDiscovery` assumes that the loop is entered, as `main` does.
- `MdnsDiscovery` assumes that `main` constructs it and that not every whole answer
  of a device to the repeated queries is lost: every discovery tick queries again.
- `Persistence` assumes that a thread in a save goes on, which is the scheduler's
  promise; the mutex is released by every path (that is what `SavesEnd` checks).
- Nothing else is assumed of devices, network, owner or subscribers, and nothing in
  `ThingDirectory` and `Timer`, which have safety properties only.

## Proofs

Every invariant and every action property that a run checks, and every
implementation of an abstract specification, is also a theorem, for all values of the
constants. The runs show that
they can fail and that the interesting cases happen; the theorems that the bounds of the
runs do not matter.

| Module | Theorems | Properties |
| --- | --- | --- |
| `ModbusSessionProofs` | `Invariance`, `EveryReadAccounted`, `OrderIsKept`, `FirstComeFirstServed`, `WireIsKept`, `RegistersAreOwn`, `ContractImplemented` | `ReadsAccounted`, `FirstInFirstDecided`, `OwnAnswer`, `ImplementsContract` |
| `PortScannerProofs` | `Invariance`, `EveryConnectionAccounted`, `CompletionIsWhole`, `FlowImplemented`, `ScanNeverStalls`, `ScanShrinks`, `ScanKeepsGoing` about `PortScanner`; `HostsAreExact` about `Subnet`; `SubnetIsScanned` about the scan of a subnet | `ConnectionsAccounted`, `ImplementsFlow`, `ScanProgresses`, `SubnetScanned` |
| `SunspecChainProofs` | `Invariance`, `EndIsExact`, `SilentAfterStop`, `FlowImplemented` about `ModbusDiscovery`; `ModbusInChain`, `SunspecInChain`, `ChainInvariance`, `ReleasedIsUntouched`, `ChainJobsAccounted`, `ChainSilent`, `ChainFlow`, `ChainScansWhole` about the chain | `EndsWhenIdentified`, `SilentOnceStopped`, `ImplementsFlow`, `ReleasedUntouched` |
| `SunspecDiscoveryProofs` | `Invariance`, `NothingIsLeftRunning`, `CompletionIsWhole`, `EndIsExact`, `FlowImplemented` | `NothingLeftRunning`, `EndsWhenScanned`, `ImplementsFlow` |
| `SunspecScannerProofs` | `Invariance`, `WalkStaysInSpan`, `EmissionIsWhole`, `SweepGoesOn`, `ScanShrinks`, `FlowImplemented` | `ChainWellFormed`, `EmittedWhole`, `SweepInOrder`, `WorkShrinks`, `ImplementsFlow` |
| `MdnsAndIdentifierProofs` | `Invariance`, `EmissionsStayCurrent`, `FlowImplemented` about `MdnsDiscovery`; `IdentifierInvariance`, `OneExchangeAtATime`, `ReportsAtMostOnce` about `ModbusIdentifier` | `EmissionsCurrent`, `ImplementsFlow`, `ExchangesAccounted`, `ReportedOnce` |
| `PersistenceProofs` | `Invariance`, `SavedPropertiesStay`, `StoreImplemented` | `SavedStays`, `ImplementsStore` |
| `ThingsAndTimerProofs` | `Invariance`, `EveryThingAccounted`, `NothingIsMissed`, `SubscriptionLives` about `ThingDirectory`; `TimerInvariance`, `ChannelsAreServed`, `TicksTwiceAtMost`, `TimerFallsSilent` about `Timer` | `ThingsAccounted`, `FoundWhileListening`, `KeepsListening`, `ChannelsAccounted`, `AnnouncedTwiceAtMost`, `SilentOnceStopped` |

Two modules prove things about two components that have nothing to do with each other:
`ModbusIdentifier` shares a proof module with `MdnsDiscovery`, `Timer` one with
`ThingDirectory`. That is why the definitions of `Timer` and `ModbusIdentifier` that
every module has are called `TimerInit`, `IdentifierNext` and so on.

### What is assumed

Each theorem rests on the named `ASSUME` of its component, which TLC evaluates in
the component's run. What they say is what the code guarantees or what the
model means by its constants, with these exceptions worth knowing:

- `SessionAssumption`: fewer faults of a peer than transaction identifiers (`MaxFaults < MaxTransaction`),
  which `RegistersAreOwn` needs; the code has 65535 identifiers.
- `DiscoveryAssumption`: the unit IDs given to a Modbus discovery are distinct. The code accepts
  duplicates and would identify such a unit twice; nothing in `src/` gives them.
- `ScanAssumption`: a read fetches at least the two registers of a header (`Chunk >= 2`), and the span is at
  least 4, which is what `SunspecScanner.cpp:733` rejects smaller options for.
- `PersistenceAssumption`: the states "no file" and "a file that cannot be read" are not tables.
- `WidthAssumption`: an address has at least two bits. `LocationAssumption`: the subnet given in the options is an
  address and a prefix of that width, which the constructor of `Subnet` checks. `JobsAssumption`: the ports are a finite set, in
  any order, and the jobs are as many as hosts and ports give. The code takes the ports as a list and would try
  a port twice that is in it twice; the discovery service gives one port.
- `TimerAssumption`: the modelled time is at least a second long; a second is a whole number of milliseconds; a delay
  of one millisecond can be told from none (`DelayRange > 1`).

The modules above a contract assume of the component below that it keeps the contract, and
of an identifier or a scan that it calls back once; the theorems about the component
below, `ReportsAtMostOnce` and `SunspecScannerProofs!FlowImplemented` prove it. In the chain
the assumption about the Modbus discovery is gone: `SunspecInChain` shows that the SunSpec
discovery above the *real* one still behaves as its specification says, so all that is
proved of `SunspecDiscovery` holds there (`ChainScansWhole`). What remains assumed in the chain
is `PortScanner`, through its contract.

### The inductive invariants

No invariant worth checking was inductive as it stood. `IInv` (`ChainIInv`, `TimerIInv`,
`IdentifierIInv`, `WireInv`) is the property with what it silently rests on:

- **Session.** `IInv` adds `HeldOnce`: the queue has no repetition and the active read is not in
  it. Without it taking the head could leave the same read behind, and failing all
  held reads end an observer twice. All callbacks end in `FailAll`, `SendActive`,
  `StartConnection` or `StartNext`; `Settled(R, out)` says what each leaves behind, one
  lemma per function shows it, `SettledAccounting` turns it into the partition of
  `OneOutcome`. Order (`ServedInOrder`): decided reads come before held ones, these before reads that
  are still tasks. Registers (`WireInv`): every frame on the wire carries one of the last
  identifiers, and not more of them ago than there are messages and faults behind it
  (`Recent`); only then is "the identifier matches" the same as "the read matches". It is here
  that failing *all* reads on a timeout is needed: the connection, and with it the wire, is dropped.
- **Port scanner.** Jobs are taken in order (`TakenInOrder`), and until a stop the session
  knows exactly the open connections, afterwards none (`ActiveAreOpen`); `ConnectionsAccounted`
  counts all of them, which is what keeps the limit while a stop cancels. `NeverStalls` needs
  `Pending`: a connector that was posted has its start task, and where no connection is open and the scan has not
  ended, the first `fill` is still queued and nothing was stopped. `WorkShrinks` needs that `Fill` takes
  four steps' worth of a job for the three it adds (`FillShrinks`), and that a stop posts as many
  cancellations as it forgets active jobs.
- **Subnet.** No state, but an argument of its own: a mask clears the low bits (`MaskValue`), so the network is the
  address without its remainder (`NetworkValue`), and its members by division are the numbers from there on
  (`MembersValue`). The loop of `hosts()` is followed round by round (`RoundsList`): what is
  listed after a number of rounds is ascending and has the addresses of those rounds. Job numbers are rows
  and places (`RowAndPlace`), hence each host and port has one (`TargetsOnce`).
- **Modbus discovery.** Which jobs there are is part of the property (`NoneOverlooked`: until a stop what waits and
  what has begun are the units of the reported ports). Around it: a session has jobs only
  while it is subscribed and not stopped (`SessionInOrder`); the outcome follows from how it went; what runs is finite,
  so that a free place can be counted.
  That it never waits for what is over needs `GoesOn`: a session that is not over is subscribed, or its
  first task is still queued; and once the port scan has ended a job waits or runs, unless it was stopped late (`stoppedLate`).
- **SunSpec discovery.** Every reported candidate has a scan unless the run ignores it (`CandidatesOpened`),
  the Modbus discovery is started only by a run that is not stopped, and *stopping* means exactly that it
  was told to stop (`StartedInOrder`, `EndedInOrder`). `Awaiting` is why it never waits for what is over:
  once the Modbus discovery has ended and the run has not, a scan is still posted or running, because each callback
  ends in `maybeComplete`; and when the Modbus discovery has failed, so has the run.
- **Chain.** Both of these, and that the number of tasks in front of the keep-alive task
  is the number of tasks left (`RetiredInOrder`): that is why one more task of the loop
  suffices, and nothing that is still queued touches a destroyed chain.
- **SunSpec scanner.** What is being read is what comes next in the chain (`ReaderOnChain`): the sum
  of where the reader is and what remains is the end of the model it reads, whatever the
  chunk. `ReadsInSpan` and `ChainContiguous` follow for all lengths a device may claim. `WorkShrinks` needs the same:
  whatever a callback reads next lies further on (`Onward`), and a probe that is repeated has used up the one
  retry of its unit (`ProbeNearer`).
- **mDNS.** All that is put together was true once (`OnlyWhatWas`), and a running flow has told all it has
  emitted (`ToldAll`).
- **Identifier.** Exchanges follow one another, and only the latest may be open (`OneAfterAnother`); until it
  is finished nothing is reported or cancelled (`NothingYet`).
- **Persistence.** Only the holder of the mutex is past the lock (`MutexHeld`), it knows what is
  on the disk (`HolderKnows`), and each property of the file is what was saved last, or what a kill
  cut off, or that of a save about to return (`FileExplained`).
- **Things.** The polling service knows the list as it is (`AllWatched`), the Shelly factory has heard
  what was announced (`FactoryHears`), and every thing in the list comes from a candidate
  (`ThingsHaveOrigin`): that is why, in a first scan, `add` cannot meet an ID it has.
- **Timer.** Schedulers are made by changes, of which those in the queue are still to come
  (`ChangesCounted`); a timeout whose tick was announced already is due *after* that tick
  (`RepeatsOnce`): that is why there is no third announcement. It rests on the delay being at least
  a millisecond and less than one short of the wait (`DelayIsClose`), which takes that the milliseconds of the wait fit
  (`WaitFits`): a wait is never longer than the interval.

The implementations (`ContractImplemented`, `FlowImplemented`, `StoreImplemented`, `ModbusInChain`,
`SunspecInChain`) are proved step by step from these: every action is an action of the abstract
specification or leaves its variables alone. `StoreImplemented` takes the contents of the
file for the store, and during a copy those from before it, so that a save takes effect at the rename or at the
end of the copy; `ContractImplemented` takes for the status of a read what its observer has
been told.

### What the proofs have found

Attempts that failed for a good reason, and what was changed:

- `SweepInOrder` was false for options that leave no room for the common model: the span may be as
  small as 4 (`SunspecScanner.cpp:733`), and then a device is found, does not fit, and the sweep ends
  without having probed the rest. The property has the exception now.
- `SunspecScanner` with reads of a single register would split a header, which the code never does;
  `Chunk >= 2` became an assumption.
- `JobsAccounted` needs distinct unit IDs; this, too, was implicit.
- `Timer`: the initial time could lie after the end of the modelled time.
- `Subnet` was written with the library's bitwise operator and could not be reasoned about. It now says what a shift and
  an *and* are by the bits of a number; the run is the same.
- `Timer` handed the delay on as it was. With the cast of `Timer.cpp:53` the bound on early ticks needs an
  assumption on the interval (`Fits`), which the code does not check.
- `ThingDirectory` removed *every* thing of an ID; the code erases the first. `Erase` now does what
  `ThingRepository::remove` does; that there is only one is `UniqueThings`.

### Induction

The provers cannot instantiate the library's induction rules, which take an operator as a
parameter. Induction over data is done through sets instead: a non-empty set of numbers has a least
element (`Least`, from the library's `WFMin`), so a set of numbers that has 0 and with each number the next
has them all (`UpTo`). That a recursively defined function is what its definition says (`BitDefined`, `RoundsExist`)
is proved the same way.

### Only model-checked

All liveness properties (`EveryReadEnds`, `ScanEnds`, `IdentifierEnds`, `DiscoveryEnds`,
`ChainEndsUnlessStoppedLate`, `SettlesOnTruth`, `SavesEnd`): liveness under fairness is out of TLAPS' reach. For the
port scanner what remains is only the last step: by `ScanKeepsGoing` no behaviour has infinitely many
steps, and one that has not ended waits for a step that fairness promises. So it is for the SunSpec scanner
by `ScanShrinks`, where a scan that runs always waits for its posted task or a read. Of the two discoveries `EndIsExact`
says that one that has not ended waits for something that comes, with finding 1 as the only exception.

## Findings

1. **A Modbus discovery that is stopped late never completes**
   (`modbus/ModbusDiscovery.cpp:709`). `Session::stop` cancels the running
   identifiers, which drops their result callbacks, and completes only if there
   were none. If the port scan has ended already, nothing is left to complete
   the flow. The SunSpec flow above it hangs as well, against
   `sunspec/SunspecDiscovery.hpp:46`. Run `MCSunspecChainStop.cfg`.
2. **Rediscovery ends the subscription that adds things** (`main.cpp:58`). The
   second chain reports a Modbus unit that is in the repository; `add` throws;
   RPP turns it into `on_error`, after which no candidate is heard any more,
   against `bootstrap/DiscoveryService.hpp:42`. Run `MCThingDirectoryRescan.cfg`.

A limit of the code that no run refutes a document with, but that `Timer!AnnouncedTwiceAtMost` needs: **a long
interval ticks far ahead of its boundary** (`common/Timer.cpp:53`). The delay is cast to an `int` of
milliseconds, and `validateInterval` (`common/Timer.cpp:19`) accepts intervals of any length. Beyond 2^32
milliseconds, 49.7 days, the delay wraps, and a boundary that is weeks away is announced early, where
`README.md:62` of the repository promises ticks aligned to epoch boundaries. With an
interval of 4 seconds and a `DelayRange` of 5, `Timer` does the same within a second and a half.

## What is not modelled

- The web application. The list of things is rendered from a copy taken under a
  mutex; a single thing is looked up in the repository's vector from the HTTP thread
  (`webapp/ThingApi.cpp:91`) while the loop may change it. That is a data race: every
  outcome is possible, no property of the read holds, and a model of it would only
  say so. The documents disagree on whether it can happen: `README.md:78` of the
  repository says that callbacks run one after another and without worker threads,
  `webapp/WebAppService.hpp:18` that the server has its own. Rendering JSON is
  formatting.
- A second `start()` of the session of a Modbus discovery while the first runs, which only reports an
  error (`modbus/ModbusDiscovery.cpp:560`): the discovery service starts each of its chains once.
- The check of a SunSpec model's instance against 65535 (`sunspec/SunspecScanner.cpp:504`): each model takes at least
  the two registers of its header, so 65536 addresses have no room for as many.
- `PollingService` that replaces its subscriptions to the expiry of things from inside one of them
  (`common/PollingService.cpp:42`), beyond what it watches in the end.
- The Reactor's process-wide run state: single assignments that throw on misuse.
- `DiscoveryService::startSunspec` off the loop's thread (`main` never calls it
  there), and stopping it after the loop has ended.
- A Shelly that has expired is not created again, since the factory never forgets
  what it has emitted (`shelly/ShellyThingFactory.cpp:94`). `ThingDirectory` has the
  state (`lost`), but no property claims otherwise, as no thing polls yet.
- Restoring properties, which reads the file and changes nothing.
- Decoding of SunSpec strings, identities and scale factors, and the typed map of
  properties: pure functions and assignments without control.
- `WebSocketClientRepository.cpp` is empty; `tools/neubauDiscovery` prints.

## Plan

Done, in this order: the session and its contract; the port scanner; the Modbus
discovery and its identifier; the SunSpec discovery, its scanner, the chain; the
things; the timer; the mDNS discovery; persistence; subnets under the port scanner; the
destructors and the retirement of a chain; the proofs of all safety properties, those of
subnets by arithmetic; why a port scan and a SunSpec scan end, and that the discoveries never wait
for what is over.

Next:

1. Model and proof: `SunspecChain` downwards by the real `PortScanner`, with one queue, so that
   the last assumption about a contract goes.
2. Model: the recurrence of an expired Shelly, once things poll.
