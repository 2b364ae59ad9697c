# Smuggle in TLA+

Smuggle gives every host of a Nomad cluster a subnet of one or more overlay
networks and keeps the hosts' VXLAN devices, routes and packet filters in step
with what is recorded in Nomad variables. This directory holds TLA+ models of
its core, the TLC configurations that check them and theorems about them that
TLAPS checks. Paths are relative to the repository's `src/internal/` unless
they begin otherwise.

    tlc -config MCLeases.cfg MCLeases        # one run
    tlapm LeasesProofs.tla                   # one module of proofs

## 1. The system

### Components

| Component | State | Operations | Correct if |
|---|---|---|---|
| Client start, `agent/client/client.go` | the subnet in memory, the VXLAN device, the CNI file, the record in the store | `Init`, `initSubnet`: adopt or allocate, device, publish, CNI, firewall | no two clients have one subnet; record, memory, device and CNI file agree |
| Heartbeat, `agent/client/heartbeat.go` | a ticker | rewrite the record every third of the TTL, sooner after a failure | a running client keeps its lease |
| Store, `store/nvar/nvar.go` | one Nomad variable per client and network | get, list (names, then one read per name), set, delete; none is conditional | readers see leases that do not move, marked and removed only when due |
| Reaper, `agent/server/reaper.go` | its listing | mark what has run out, delete what has been marked for longer than a threshold | dead leases go, live ones stay |
| Allocator, `network/network.go`, `types/network.go`, `types/ipv4.go` | the addresses in use | `Validate`, `Canonicalize`, `GenerateIPv4Subnet` | what is found is free and in the network; "full" means full; it ends |
| Watcher and handler, `store/nvar/nvar.go` (`WatchSubnets`), `agent/client/subnet.go` | the wait index, two batches, three channels, the host's routes | blocking query, reads, hand-over; `SetRemote`, `DeleteRemote` | the routes follow the records |
| VXLAN provider, `network/provider/vxlan` | device, FDB, ARP and route entries | `SetLocal`, `SetRemote`, `DeleteRemote` | entries are there for every route, and go with it |
| Firewall, `network/firewall/iptables` | four chains | `SetupMasqRules`, `SetupForwardRules`, `EnsureIsolation` | networks are connected inside and outward, isolated from each other |
| Agent, `agent/agent.go`, `agent/nomad.go`; wait groups of client and server; `http/server.go` | goroutines, shutdown channels, open requests | `New`, `Start`, `Stop`, signals | a stop ends everything, in time |
| Client ID, `agent/client/client.go` (`generateID`) | one file | read it, or make one up and write it | a client stays the client it is |
| Retry, `helper/retry` | attempts, deadline | `Retry` | success is reported only of what was done |
| Configuration, `config`, and the run command, `cmd/agent/run.go` | option records | defaults, files, flags; merge, validate | files override defaults, flags override files, nothing is lost |
| Fingerprint, logging, version, the endpoint and the access log | none | | |

### Interactions

The agents share nothing but the store. A client writes its own record (start
and heartbeat), the single server agent marks and deletes records of all
clients, and every client watches them to program its own host. Within a client
agent the heartbeats, the watchers and the handlers are goroutines; a watcher
and its handler talk over channels. Docker is a second writer of the host's
`FORWARD` chain.

### What is hard

* Every write replaces a whole record that was read, or composed, some time
  ago; a listing is not a snapshot; nothing is locked.
* Agents stop between any two steps and find device, record, CNI file and
  rules of an earlier life when they start again.
* The watcher filters by an index taken before it reads the records, and
  delivers two batches in a fixed order.
* A deletion leaves nothing to be noticed.
* A remote subnet takes three entries in the kernel, each written on its own
  while traffic flows, and nothing is undone or tried again when one fails.
* Goroutines join the wait group of the agent's stop when they happen to run;
  what they do may take longer than the stop waits.
* The firewall is edited command by command, in chains that are never cleaned.
* Addresses are unsigned 32-bit numbers, and ranges come from the user.

`PROJECT.json` lists these as hazards, each at its line.

## 2. The modules

| Module | Models | Checked by | Proofs |
|---|---|---|---|
| `Leases` | clients, store and reaper of one network | `MCLeases` | `LeasesProofs` |
| `LeaseRegistry` | abstract: what the store promises to its readers | implemented by `Leases` | `LeasesProofs` |
| `SubnetAllocator` | configuration and `GenerateIPv4Subnet` | `MCSubnetAllocator` | `SubnetAllocatorProofs` |
| `SubnetWatch` | watcher, handler and routes of one client; abstract as to the kernel | `MCSubnetWatch` | `SubnetWatchProofs` |
| `Overlay` | a whole network: `Leases`, with `SubnetWatch` on one of its hosts | proofs only (see below) | `OverlayProofs` |
| `VxlanRoutes` | the handler's netlink calls; implements `SubnetWatch` | `MCVxlanRoutes` | `VxlanRoutesProofs` |
| `Firewall` | iptables commands and verdicts on one host | `MCFirewall` | `FirewallProofs` |
| `SequenceLemmas` | nothing: lemmas about the operators on sequences `Firewall` uses | | itself |
| `AgentConfig` | defaults, merges, flags and validation, as operators | through `Agent` | through `AgentProofs` |
| `Agent` | an agent process from its command line to its end | `MCAgent` | `AgentProofs` |

Definitions named `Mutant...` are plausible mistakes. Each is a variant of the
definition that follows it and is used by no other: putting it in that one's
place makes a run fail, which shows that the property can fail.

### Leases

A record is its subnet, expiration, mark and hardware address. An action is one
call to the store or the local step between two calls:

* `GetSubnet` reads the client's own record (`Init`, client.go:156). If there is
  none, `ListSubnets` and `ReadSubnet` are the two halves of `store.ListSubnets`
  (nvar.go:64-94) and `Allocate` is `GenerateIPv4Subnet`. `SetLocal` is the
  device, `Publish` the first write, `WriteCNI` the CNI file.
* `Heartbeat` and `HeartbeatFails` write what is in memory (heartbeat.go:41). A
  failed write may have reached the store.
* `Exit` stands for a signal, a crash and an error of any call of the start;
  `Reboot` takes the device away.
* `ReaperList`, `ReaperRead`, `ReaperScan`, `Delete`, `Mark`, `Keep`,
  `ReaperDone` are a pass of the reaper, `ReaperStop` its interruption. `Delete`
  and `Mark` use what was read, not what is in the store.

`raced` and `orphaned` are history variables: pairs of clients whose allocations
overlapped, and clients whose record was deleted while they held it.

### LeaseRegistry

The records without their hardware addresses, as their readers see them: a
lease that is registered keeps its subnet and its expiration, is marked only
once it has run out, and leaves only past the threshold. The refinement mapping
is `Advert`.

### SubnetAllocator

Addresses are numbers below `N` and all arithmetic is modulo `N`, as in
`uint32`. A prefix length is the size of its block. `Begin`, `StartSearch`,
`StartProbing`, `Probe`, `ProbesExhausted` and `Search` are the two strategies,
one round an action; `Finish` puts the outcome on record as it is read back
(`Decode`: `net.ParseCIDR` clears the host bits); `Release` is the reaper. The
configuration is `Validate`d and `Canonicalize`d in `Init`, and the properties
say of which configurations they speak (`WellFormed` is what no code checks).

### SubnetWatch

The records change as other agents may change them (`Register`, `Rewrite`,
`Delete`), each moving Nomad's index. As in `Leases`, two records may have one
subnet, the reaper may delete a record that has lost its mark, and a client may
register one with its mark: it has read it marked, and publishes it again after
the reaper has deleted it. `List` is the blocking query and the filter on
the stubs, `Read` and `ReadFails` the reads, `EndOfReads` their end and `ToSend`
the choice of the batch to send next, expired records before the others;
`ReceiveExpired` and `ReceiveModified` are the hand-over on channels without a
buffer, one step of both goroutines; `ReceiveError` empties the
channel of errors, which has room for one. `HandleSet` and `HandleDelete` handle
one subnet, as far as the route is concerned, and may fail. `Restart` is a new
agent on the same host. The history variables are `missed`, the clients for
which a read or a route failed; `heard`, those whose record was expired when it
was last read; `strays`, those whose record went without the host being told;
and `shared`, the subnets two records had at a time.

`RoutesFollowRecords` excepts shared subnets: the handler removes routes by subnet,
whoever's they are. `LatestWordIsRouted` does not: once the host has caught up, the
record that was written last is routed if every other with its subnet has
expired, whichever of them the host was told of in one listing. This is where
the order of the two batches counts.

### Overlay

`Leases` says what the agents and the reaper write, `SubnetWatch` what one host
makes of what it reads. `Overlay` puts them together: the variables of both, but
for the records, which `SubnetWatch` sees as `Seen` shows them, a subnet, a
hardware address and a mark under a `ModifyIndex`. Its actions are

* `Write`: those actions of `Leases` that write or delete a record, by a call that
  succeeds or whose answer is lost (`Publish`, `Heartbeat`, `HeartbeatFails`,
  `Mark`, `Delete`), each with the next index of Nomad's variables (`Stored`);
* `Quiet`: those that write none and are not this host's agent;
* `HostStops`: this host's agent exits, reboots or puts up its device in a new
  start, and the watcher of before and its goroutines are gone;
* `HostWatches`: a step of the watcher or the handler, while the agent runs.

`Overlay` has no run of its own: with two clients it has more states than a run
of minutes visits. Its properties are proved, from the invariants of the two
modules that do have runs. They are also true of what TLC has seen of it
(five million states breadth-first, and random behaviours of up to eighty steps),
and so is that their premises can be met.

### VxlanRoutes

`route`, `arp` and `fdb` are the entries of the VXLAN device. What they are written
from is what the record says (`Data`): a device (`Vteps`), which is a hardware
address and the host it is behind, or no hardware address at all (`NoVtep`). A
client may have had several devices, and a record may name any of them (`Own`):
nothing here depends on its being the present one, and nothing is promised of
it. That a record can name a device that is gone is a result of `Leases`
(`leases_device`); what is promised here is that packets go where the record says.
`Leads` says that they do, by all three entries. `Via`, the refinement mapping, is
the client that the hardware address of a subnet's gateway belongs to (`Owner`).

`SetFDB`, `SetARP`, `SetRoute` and `DeleteRoute`, `DeleteARP`, `DeleteFDB` are the calls of `SetRemote` and
`DeleteRemote` in their order (`SetOrder`, `DeleteOrder`); each may fail for good
(`SetStepFails`, `DeleteRouteFails`, `DeleteNeighFails`), and a call that finds no
device, or whose record has no hardware address, does nothing (`SetRefused`,
`DeleteRefused`). The steps of the watcher and of the records are those of
`SubnetWatch`, by instance. A subnet leaves the batch with the call that moves
its route, which is what makes a call of several steps one step of `SubnetWatch`.
If there is a route, that call is the one that writes ARP: a subnet that changes
hands, or whose client has another device, is turned from the one device to the
other by a single netlink call, after the FDB entry it needs is there.
`SetsTurnAtOnce` is about this.

The host's own record is left out (the handler passes it over), and no two
records have one subnet.

### AgentConfig

A configuration is a record of blocks of options. `Override` is what each of the
code's `Merge` methods does to an option: it takes the other's unless that is the
zero value, `Unset`. `...ConfigFromCommand` turns flags into a configuration, and
says which zero values count: those of options kept as pointers (`Pointer`).
`StringArgs` is the library's function the code asks for the files.

### Agent

`pc` is where the main goroutine is, from `runCommand` through `agent.New`,
`Start` and `WaitForSignal` to `Stop`. A worker is a goroutine of the wait group:
`Spawn` starts it, `Join` is its `Add(1)`, `Work` and `Finish` what it does when
`select` picks an event, `Leave` its end once `shutdownCh` is closed. Work may last
for ever. `Close`, `WaiterLooks`, `WaiterWakes`, `StopFinishes` and `StopTimesOut`
are `Stop` and the goroutine it starts to wait; `WaiterWakes` knows that a
`sync.WaitGroup` panics if it is used again before its waiter is awake.
`PingAnswered`, `PingFails` and `PingTimesOut` are the attempts of `Retry`, with its
doubling waits and its sixty seconds. `Kill` is a signal before `WaitForSignal`
has asked for signals. `ReadID`, `CreateID` and `WriteID` are `generateID`; the
file outlives the process, and `Restart` starts a client again.

### Firewall

`Commands` is the list of iptables commands of a start, in the order of
`Client.Init`; `EnsureChain`, `ApplyRule`, `DeleteJump`, `InsertJump` and
`EnsureIsolationRule` execute the next one (each looks first whether its rule is
there, which is the same step: no one else edits these chains). `Exit` stops
anywhere, `Reboot` empties the chains, `DockerRestart` puts Docker's rule first.
`Matches` is what a rule says of a packet and `Accepted`/`Rejected` the verdict
of the first rule that matches. Packets are those that open a connection; what
belongs to an open connection is accepted by the first rule.

## 3. What the runs show

| Run | Properties | Result |
|---|---|---|
| `leases_safety` | `IInv`, `DuplicateNeedsRaceOrReap`, `ExpiredIsOverdue`, `CNIMatchesRecord`, `LeaseIsStable`, `ReapOnlyPastThreshold` | hold |
| `leases_live` | `TypeOK`, `DeadLeasesAreReaped`, `ImplementsRegistry` | hold |
| `allocator` | `IInv`, `FoundIsAvailable`, `FullIsFull`, `RecordsAreDisjoint`, `NoPanic`, `Terminates`, `RoundsRunOut` | hold |
| `watch` | `IInv`, `RoutesFollowRecords`, `StaleRoutesAreExplained`, `LatestWordIsRouted`, `EventuallyCaughtUp` | hold |
| `vxlan` | `IInv`, `RoutesHaveNeighbours`, `EntriesFollowRecords`, `ImplementsWatch`, `SetsTurnAtOnce` | hold |
| `firewall` | `IInv`, `Isolated`, `Connected`, `RulesAreUnique`, `VerdictsAreStable` | hold |
| `agent` | `TypeOK`, `IInv`, `FlagsOverrideDefaults`, `GoesOnUnansweredOnlyByDeadline`, `CleanStopLeavesOnlyLateJoiners`, `PanicIsExplained`, `IDIsStable`, `SignalEndsAgent` | hold |
| `leases_heartbeat` | `HeartbeatMaintains` | violated: heartbeat.go:41 writes the subnet, not the copy it has renewed |
| `leases_device` | `VtepMACIsActual` | violated: a heartbeat puts the hardware address of a device that is gone back into the record |
| `leases_unique` | `UniqueAllocation` | violated: two clients list before either writes |
| `vxlan_expired` | `ExpiredIsUnrouted` | violated: heartbeats take the hardware address out of the record, and without it nothing is deleted |
| `firewall_prefix` | `IsolationSparesNetworks` | violated: a network's name begins with another's |

The violated properties are statements of comments in the code; `PROJECT.json`
quotes them under "findings".

Two of the results belong together. That no write moves an expiration
(`LeaseIsStable`, and with it the refinement) is what makes the reaper safe with
stale listings: nothing it could overwrite is newer. It is also what the wrong
argument at heartbeat.go:41 amounts to. If the heartbeat is repaired, the
reaper's write of a record it has read can undo a renewal, and its deletion can
hit a renewed lease; `Leases` with another `HeartbeatRecord` shows both.

Some properties hold because they name what the code lets happen, so that
anything else would be seen:

* `StaleRoutesAreExplained`: a route outlives its record if the record was marked
  and deleted between two listings, or while the agent was down, or if something
  failed. reaper.go:94-96 takes for granted that hosts have been told. The same is
  true of the routes in the kernel, since `VxlanRoutes` implements `SubnetWatch`.
* `CNIMatchesRecord` is about running agents. An agent that stops after a new
  record was written and before the CNI file was leaves the file of an earlier
  allocation behind; until it is started again, containers that are started on
  the host get addresses of that.
* `GoesOnUnansweredOnlyByDeadline`: if the first attempt to reach Nomad ends in a
  deadline, `Retry` reports success (retry.go:26-28), and the agent goes on, although
  nomad.go:13-17 says that the connection is tested.
* `CleanStopLeavesOnlyLateJoiners`, `PanicIsExplained`: goroutines that have not run
  by the time of a stop are not waited for, and one that joins while the stop is
  being woken makes it panic. A reaper interval that is not positive panics too,
  after the first pass: no validation looks at it (server.go:93-101).
* `IDIsStable` holds of a torn file as well: whatever is in it is the ID.

And some things the models know that no run shows. No configuration file is ever
read: config/agent.go:110 asks for positional arguments named `config`, of which
the command has none, so that an agent with files runs with the defaults, although
docs/config_agent.md:5-8 says that files are parsed and merged (`StringArgs` in
`AgentConfig`, `FlagsOverrideDefaults` in `Agent`). Were they read, run.go:30 would
still drop the result of their merge with the defaults; only the server's options
and the path of the store would get through, since their merges write into the
receiver. In `SubnetAllocator`, a range
that is not `WellFormed` passes `Validate`: with subnets as large as the network,
or half of it, even the defaults are inverted, the unsigned difference at
network.go:115 is large, and a subnet outside the network is found. Subnets of
one address in a network of half the address space or more make the range too
large for `Int31n`, which panics; `NoPanic` excepts them. In
`Firewall`, until the isolation rules of a first start are in, packets cross from
one network to another, although iptables.go:231-232 says the bridge's rule
does not let them.

### Bounds

* `leases_safety`: two clients (a race takes two), two subnets (enough to avoid
  each other), TTL and threshold of one tick, time up to 3: a lease is made,
  runs out, is marked and deleted, and is made again (`LastAlloc` = 3 does not
  restrict). One hardware address: no property of this run depends on it.
  Clients and subnets are symmetric.
* `leases_live`, `leases_heartbeat`: TTL 3, so that heartbeats (every TTL div 3)
  are not continuous; one client, so that `ImplementsRegistry` is checked for one
  here and proved for any number (`RegistryIsImplemented`); no allocation after time 1 (`LastAlloc`) so that
  every lease ends before the clock stops at 6, which the liveness property
  needs. `TTL + LastAlloc + Threshold < MaxTime`.
* `leases_unique` is `leases_safety` without symmetry. `leases_device` has one client,
  two hardware addresses and a TTL of 3, so that there is a heartbeat before the
  clock stops.
* `allocator`: 16 addresses and every well-formed configuration, among them those
  of subnets of one address and those that touch the end of the address space;
  two probes, so that they can run out.
* `watch`: the host's own client, two others and two subnets; three changes of the
  records (`MaxIndex` 4), enough for a subnet to be registered, deleted and
  registered by another client, or to be shared and marked, both in one listing.
  No symmetry, because the run has a liveness property. What else a record says is not told apart.
* `vxlan`: two other clients on a host each, the first with two devices, one after
  the other; two subnets and three changes (`MaxIndex` 4): a subnet is registered,
  deleted and registered by another client, or rewritten with another device, with
  the kernel's entries of the first still there. Every call may fail. A record
  may have no hardware address. Subnets are symmetric, and the first client's
  devices. `vxlan_expired` is without failures. The theorems are about any number of
  changes.
* `firewall`: two networks in any listing by name, one of them masqueraded;
  `FORWARD` grows only if a deletion of the jump fails, up to `MaxForward`.
* `agent`: command lines that enable nothing, the client or the server, and give
  one more option any of a valid, an invalid and a zero value; two workers, so
  that one joins, works or leaves while the other does something else; attempts
  that take no time or thirty seconds, so that there are six or one; one request;
  two generated IDs. Times are minutes where they are configured, seconds in
  `Retry`.

Runs with `CHECK_DEADLOCK FALSE` are those in which the clock or the allocation
stops by design: in `Leases` at `MaxTime`, with the reaper's states explored up
to it, in `SubnetAllocator` when the code panics or the system is idle, and in
`Agent` when the process has ended.

### Fairness

* `Leases!Fairness`: time passes; the reaper's ticker fires for as long as the
  server runs, and a pass goes on. A call of the reaper that is repeated on
  every pass succeeds in the end (strong fairness of `Delete` and `Mark` with
  success): the errors are transient, as the comment at reaper.go:22-25 assumes.
  Nothing is assumed of clients, and `DeadLeasesAreReaped` excepts servers that
  are interrupted for ever.
* `SubnetAllocator`: the function runs to its end.
* `SubnetWatch!FairSpec`: the process runs, whichever of its two goroutines that is,
  and not every query fails (strong fairness of `List`: a query that fails is
  repeated). No goroutine is taken to get its turn for its own sake: what one of
  them waits for is done by the other.
  `EventuallyCaughtUp` excepts agents that are restarted for ever.
* `Agent!FairSpec`: the main goroutine goes on, its timer fires (`StopTimesOut` is
  one of its steps) and requests end, for which the HTTP server has its timeouts
  of ten seconds (http/server.go:35-36). Nothing is assumed of workers.

## 4. What is proved

All theorems hold for any values of the constants that satisfy the modules'
named assumptions. These say

* that numbers are natural, block sizes at most half of `N` or `N`, and an attempt
  to reach Nomad takes no negative time (`NAssumption`, `BlocksAssumption`,
  `AttemptTimesAssumption`, ...);
* that the "none" values are none of the others (`CallAssumption`, `VtepAssumption`,
  `AbsentAssumption`, `NoBlockAssumption`, parts of the `ConstantsAssumption`s; in
  `VxlanRoutes`, `WatchAssumption` is that of `SubnetWatch`);
* that a hardware address belongs to one client (`OwnerAssumption`): the kernel draws
  them at random;
* that sets and sequences have the members they should: the reaper is none of a
  client's workers, a network covers itself.

TLC evaluates each of them in a run.

Invariants that a run checks are seldom inductive; each component's `IInv` adds
what is missing, in named parts. Every one of them is checked by its run as well.

**LeasesProofs.** `IInv` is the conjunction of `TypeOK`, `CopiesAgree` and
`AllocationsAgree`.

* `CopiesAgree` says that every copy of a registered lease, in a client's memory
  or in the reaper's listing, has the subnet and the expiration of the record,
  and that no copy is marked early. No property about records is inductive
  without it, since all writes are writes of copies. It gives
  `ExpiredIsOverdue`, `CNIMatchesRecord`, and, by `EveryStepIsAStoreStep` (what a
  step may do to a record), `LeaseIsStable` and `ReapOnlyPastThreshold`.
* `AllocationsAgree` says that clients that allocate at the same time are on
  record as a race, that a reading client has seen, or has yet to read, every
  record that is not part of one, and that claims are disjoint otherwise. It
  gives `DuplicateNeedsRaceOrReap`.

`RegistryIsImplemented` shows that every step of `Leases` is a step of
`LeaseRegistry` or leaves its variables alone.

**SubnetAllocatorProofs.** The invariant adds to the properties that the search
has passed only used subnets (`SearchedAreUsed`), that records and what is
found lie on subnet boundaries within the network, and that so does the network
itself (`NetIsAligned`). The lemmas are about multiples, remainders and wrapping.
`Invariance` gives `FoundIsAvailable`, `FullIsFull` and `RecordsAreDisjoint`, for
address spaces of any size, so for 2^32.

`NeverPanics` rests on `RangeFits`: a well-formed range holds at least one subnet,
and the number of its subnets, computed with wrapping, is below `N div 2`, unless
they are single addresses.

`RoundsAreBounded` is what of `Terminates` is a safety property: every round of an
allocation makes `Left`, a number, smaller, so there are at most
`Attempts + N + 2`. It needs no well-formed range. The search could only go on for
ever by wrapping, and it does not (`SearchStep`), as a subnet is at most half of the
address space.

**SubnetWatchProofs.** What a property says of the routes depends on what is on
its way to them, so the invariant follows a record through the watcher.

* `ChangesAreOnTheirWay` says that a record whose subnet is shared by nobody is
  above the wait index or in the stubs (`Awaited`), or in the right one of the
  two batches, or `Settled`: routed as it says, with nothing in the handler's
  hands that would undo it. `ReadsAgree` is what makes the last part inductive: a
  batch has nothing outdated about a record that has not changed since the
  listing, so a handler cannot delete what it has just set. Between two queries
  only `Settled` is left (`WatcherIsIdle`), which is `RoutesFollowRecords`.
* `RoutesAreHeld` says that a route leads to a client that has the subnet as far
  as the host could know, or that a deletion is coming, or that the client is a
  stray. It gives `StaleRoutesAreExplained`.
* `LatestIsOnItsWay` says of the record that was written last what
  `ChangesAreOnTheirWay` says of those that share nothing, with
  `FreshReadsAgree` in the place of `ReadsAgree`: while nothing changes after a
  listing, what has been read is what the records say. Since the batch of expired
  records is handled first, the other one has the last word, which is
  `LatestWordIsRouted` (`LatestWord`).

**OverlayProofs.** `SubnetWatch` assumes of the other agents that they register,
rewrite and delete records as its `Records` says; this is where that is shown.
`WriteIs` says what a step of `Leases` may write: a record with the subnet the
registered one has, or a new record, or nothing in place of one. It needs the
`CopiesAgree` of `Leases`, since all that is written is a copy. By `WriteRefines`
such a write, seen through `Seen`, is `Register`, `Rewrite` or `Delete`, and by
`WatchStep` every step of the whole is one of `SubnetWatch` or none; so
`OverlaySpec => W!Spec` (`WatchIsImplemented`), as well as `OverlaySpec => Spec`
(`LeasesAreImplemented`). All theorems about the parts are then theorems about
the whole, and three follow that none of the parts can state, because leases have
times and CNI configurations and routes have neither:

* `ContainersRouted`: a host that has caught up routes the subnet in a running
  client's CNI configuration as that client's record says until the lease has run out
  (`RoutesFollowRecords` with `CNIMatchesRecord` and `ExpiredIsOverdue`).
* `DeliveriesRight`: what it routes as a running client's record says is for that
  client's containers (`StaleRoutesAreExplained` with `CNIMatchesRecord`).
* `RoutesOutlast`: whether it has caught up or not, it takes no route away before the
  lease has run out, unless the present record is still to be read or to be set
  (`ChangesAreOnTheirWay` with `ExpiredIsOverdue`). The exception is real: a
  client that was reaped and has registered the same subnet again is taken away
  with its old record and comes back with its new one.

Each excepts what its parts except: failed reads and routes, strays, and subnets
two clients have had; and each is about routes as `SubnetWatch` has them, not about
the device the record names (`VtepMACIsActual`, section 3). The hypothesis is the `ConstantsAssumption` of
`SubnetWatch` for its instance.

**VxlanRoutesProofs.** Two invariants, one upon the other.

* `KernelInv` is inductive by itself: the call in progress has its item in the
  batch until its route is moved, and what comes before the entry it is at has
  been written (`CallIsInOrder`). It gives `RoutesHaveNeighbours`, and it is all
  that `WatchIsImplemented` needs: under it, each netlink call is a step of the
  handler in `SubnetWatch` or none at all.
  That a batch or a call names a device of its own client (`DevicesAreOwn`) is
  what keeps one client's FDB entries out of another's calls.
* The theorems of `SubnetWatchProofs` are then theorems about `VxlanRoutes`, by
  instance, among them the invariant of the watcher. Together with that one,
  `ReadsAgree` and `EntriesAreOnTheirWay` are inductive: a record that has not
  changed since the listing is read with the device it names, and what all three
  entries are to be is still to be read, to be handed over or in hand, or it is
  there, and nothing in hand is about to change it. They give
  `EntriesFollowRecords`. `ChangesAreOnTheirWay` is not enough for it: it is about the
  client a subnet is routed to, and a client's devices change.

`SetsAreSmooth` proves the action property `SetsTurnAtOnce` from `CallIsInOrder`.

**FirewallProofs**, for any number of networks, of starts and of interruptions.

* A command knows its chain (`CommandsFit`), and a start adds the rule for
  established connections before any other (`EstablishedIsPlanned`). So that rule
  is first and those that reject are next (`IsolationComesFirst`).
* No rule of a start is lost, wherever it has been interrupted before: it is in
  its chain, or the command for it is still to come (`RulesAreDue`).
* A rule is added only where it is missing (`NoneIsRepeated`), which is
  `RulesAreUnique` without cardinalities.

A packet between two networks meets the rule that rejects it before any that
accepts (`Isolated`); one inside a network, or to the outside, meets none that
rejects (`Connected`). For `VerdictsAreStable`, a command either leaves the filter
alone or inserts one rule, and that rule does not change the first match of a
packet whose verdict was settled.

Half of it are lemmas about lists of commands and rules. `SequenceLemmas` has
those that are not about the firewall: what `FlattenSeq`, `Contains`, `RemoveFirst`
and `InsertAt` return. `FlattenSeq` is recursive; what it returns is proved
by induction in the form of a set (the numbers for which it does not hold have no
least member), since the library's induction theorems take operators.

**AgentProofs.** `IInv` adds five parts to the properties, none of which is
inductive alone:

* `GroupIsClosed` says that nobody waits before the agent stops, and that once
  the waiter has looked only goroutines that were late then can join. It gives
  `CleanStopLeavesOnlyLateJoiners` and, with `ReaperIsServers`, `PanicIsExplained`.
* `IDIsOnDisk` says that an ID once used is what the file has, and that nobody is
  making up another. It gives `IDIsStable`.
* `ErrorsAreCounted` says that `Retry` has no first error before an attempt has
  failed, and that each failure has cost at least its wait, so that the sixty
  seconds are over after the sixth. It gives `GoesOnUnansweredOnlyByDeadline`, and
  `TypeOK` its bounds.
* `ConfigIsMerged` says that what is validated are the flags over the defaults. The
  lemmas on `Override` and on the conversion of flags, option by option, turn it
  into `FlagsOverrideDefaults`, for every command line.

The proofs hold for any number of workers and any input.

Model-checked only: liveness and termination (`DeadLeasesAreReaped`, `Terminates`,
`EventuallyCaughtUp`, `SignalEndsAgent`), which TLAPS does not do under fairness;
of `Terminates`, the bound on the rounds is proved.
Every invariant and every action property of a passing run is a theorem.

## 5. What is not modelled

* More than one host's view of a network at a time: `Overlay` has the watcher of one
  host, any host, and hosts do not act on one another but through the records.
* Clocks that disagree; several server agents (`docs/_architecture.md` allows
  one).
* The data of a record that no property tells apart: MTU and provider settings. A
  change of a network's addresses while clients hold subnets.
* Whether the device a record names is the one its client has, in `VxlanRoutes`:
  its records may name any device of the client. When they name the right one is a
  question to `Leases`, which has hardware addresses, and the answer is the run
  `leases_device`. A hardware address that is read before it is final
  (vxlan_linux.go:69-72) has no model.
* In `VxlanRoutes`, subnets that two clients have at a time; `SubnetWatch` has them,
  and excepts them from `RoutesFollowRecords`, because the handler removes routes by
  subnet, whoever's they are.
* The listing by prefix without a slash (nvar.go:70), which lets the records of
  a network with a longer name through: in the models a listing is exact.
* The watchers are in no wait group and hold nothing a stop would wait for;
  `Agent` leaves them out.
* `ServerConfig.Merge` writes into its receiver, and `StoreConfig.Merge` into a block
  it shares with its receiver. As long as no file is read there is nothing to
  write where it would be seen; `MergeFiles` would have to be refined with the
  repair of `AgentConfigFromFiles`. So would the parsing of HCL and JSON.
* What workers do in `Agent` (that is `Leases` and `SubnetWatch`), and the effect of
  a stop in the middle of it (there: `Exit`, `Restart`, at any step).
* The sysctls of `createIPv4`, which have no reader here.
* Fingerprinting (one look at the host's interfaces, as a step that fails or not),
  `network init`, the HTTP endpoint, logging: no state.
* Nomad, the kernel, iptables and Docker beyond what the code relies on.

## 6. Plan

The models are complete as far as section 5 goes, and so are the proofs of what
the runs check, except for liveness: the step from `RoutesFollowRecords`, which
is about an idle watcher, to `EventuallyCaughtUp` is fairness, and stays with TLC,
as do the other three liveness properties. What could come next:

1. `VxlanRoutes` on the host in `Overlay`, by its own refinement of `SubnetWatch`. It
   would have to be taken to subnets that are shared first.
2. A repaired heartbeat (section 3): `CopiesAgree` no longer holds then, and the
   reaper's writes need a condition for anything like `LeaseIsStable` to hold.
