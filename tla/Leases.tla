------------------------------- MODULE Leases -------------------------------
(***************************************************************************)
(* The subnet leases of one Smuggle network.                               *)
(*                                                                         *)
(* Every client agent holds one subnet of the network, recorded as a Nomad *)
(* variable under the client's ID.  A starting client adopts the record it *)
(* finds, or lists the records of the others, allocates a subnet none of   *)
(* them uses and writes its own record; it then rewrites that record from  *)
(* memory on every heartbeat.  The one server agent lists the records,     *)
(* marks those past their expiration and deletes those marked for longer   *)
(* than a threshold.  No call to the store is conditional: a write         *)
(* replaces whatever is there, and a listing is a list of names followed   *)
(* by one read per name, so every actor acts on data that may be stale.    *)
(*                                                                         *)
(* An action is one call to the store, or one local step between two of    *)
(* them.  Agents stop at any point (crash, signal, or an error of any      *)
(* call, which ends a start), and hosts reboot.                            *)
(***************************************************************************)
EXTENDS Integers, FiniteSets

CONSTANTS
  Clients,      \* client IDs
  Slots,        \* the subnets of the network, one per allocation
  NoSlot,       \* no subnet
  MACs,         \* hardware addresses the kernel gives a VXLAN device
  NoMAC,        \* no hardware address
  NoLease,      \* no record
  TTL,          \* types.DefaultSubnetTTL, in ticks of the model's clock
  Threshold,    \* the reaper's threshold, in ticks
  RetryDelay,   \* the heartbeat's delay after a failed write, in ticks
  LastAlloc,    \* bound: no subnet is allocated after this time
  MaxTime       \* bound: the clock stops here

Time == 0 .. MaxTime

\* A record, as far as the properties tell records apart.
Lease == [ip : Slots, exp : Nat, expired : BOOLEAN, mac : MACs \cup {NoMAC}]

ASSUME ConstantsAssumption ==
  /\ TTL \in Nat \ {0}
  /\ Threshold \in Nat
  /\ RetryDelay \in Nat
  /\ MaxTime \in Nat
  /\ LastAlloc \in Nat
  /\ NoLease \notin Lease \cup [ip : Slots, exp : Nat, expired : BOOLEAN]
  /\ NoSlot \notin Slots
  /\ NoMAC \notin MACs

VARIABLES
  now,       \* the clock (hosts are assumed to agree on the time)
  store,     \* store[c]: the record of client c in the Nomad variables
  pc,        \* pc[c]: where client c's agent is
  mem,       \* mem[c]: the subnet the agent holds in memory
  todo,      \* todo[c]: listed names the agent has not read yet
  used,      \* used[c]: the subnets it has read so far
  wait,      \* wait[c]: ticks until its heartbeat ticker fires
  dev,       \* dev[c]: address of the VXLAN device of c's host
  cni,       \* cni[c]: the subnet in the CNI configuration on c's disk
  rpc,       \* where the reaper is
  stubs,     \* names the reaper has listed and not read yet
  snap,      \* snap[c]: the record of c the reaper has read and not handled
  scanned,   \* the time the reaper compares the records with
  raced,     \* history: pairs of clients whose allocations overlapped
  orphaned   \* history: clients whose record was deleted while they held it

clientVars == <<pc, mem, todo, used, wait, dev, cni>>
reaperVars == <<rpc, stubs, snap, scanned>>
history    == <<raced, orphaned>>
vars == <<now, store, clientVars, reaperVars, history>>

\* A client that holds a subnet in memory.
HoldingStates == {"local", "publish", "cni", "running"}
Holds(c) == pc[c] \in HoldingStates

Registered == {c \in Clients : store[c] # NoLease}

\* A client between its listing and the first write of what it allocated.
Allocating(c) ==
  \/ pc[c] = "read"
  \/ pc[c] \in {"local", "publish"} /\ c \notin Registered \cup orphaned

TypeOK ==
  /\ now \in Time
  /\ store \in [Clients -> Lease \cup {NoLease}]
  /\ pc \in [Clients -> {"down", "list", "read"} \cup HoldingStates]
  /\ mem \in [Clients -> Lease \cup {NoLease}]
  /\ todo \in [Clients -> SUBSET Clients]
  /\ used \in [Clients -> SUBSET Slots]
  /\ wait \in [Clients -> Nat]
  /\ dev \in [Clients -> MACs \cup {NoMAC}]
  /\ cni \in [Clients -> Slots \cup {NoSlot}]
  /\ rpc \in {"idle", "read", "scan"}
  /\ stubs \subseteq Clients
  /\ snap \in [Clients -> Lease \cup {NoLease}]
  /\ scanned \in Time
  /\ raced \subseteq SUBSET Clients
  /\ orphaned \subseteq Clients
  /\ \A c \in Clients : Holds(c) <=> mem[c] \in Lease

Init ==
  /\ now = 0
  /\ store = [c \in Clients |-> NoLease]
  /\ pc = [c \in Clients |-> "down"]
  /\ mem = [c \in Clients |-> NoLease]
  /\ todo = [c \in Clients |-> {}]
  /\ used = [c \in Clients |-> {}]
  /\ wait = [c \in Clients |-> 0]
  /\ dev = [c \in Clients |-> NoMAC]
  /\ cni = [c \in Clients |-> NoSlot]
  /\ rpc = "idle"
  /\ stubs = {}
  /\ snap = [c \in Clients |-> NoLease]
  /\ scanned = 0
  /\ raced = {}
  /\ orphaned = {}

\* Time passes, up to the bound.
Tick ==
  /\ now < MaxTime
  /\ now' = now + 1
  /\ wait' = [c \in Clients |-> IF wait[c] = 0 THEN 0 ELSE wait[c] - 1]
  /\ UNCHANGED <<store, pc, mem, todo, used, dev, cni, reaperVars, history>>

-----------------------------------------------------------------------------
(* The client agent.                                                       *)

\* The names "Mutant..." below are plausible mistakes, each a variant of the
\* definition that follows it: the runs are shown to find them.

\* The store has a record of this client.
MutantFound(c) == store[c] # NoLease /\ ~store[c].expired
Found(c) == store[c] # NoLease

\* The agent starts and asks the store for its own record: it adopts the one
\* it finds, expiration, mark and all, and goes on to allocate otherwise.
GetSubnet(c) ==
  /\ pc[c] = "down"
  /\ mem' = [mem EXCEPT ![c] = IF Found(c) THEN store[c] ELSE NoLease]
  /\ pc' = [pc EXCEPT ![c] = IF Found(c) THEN "local" ELSE "list"]
  /\ UNCHANGED <<now, store, todo, used, wait, dev, cni, reaperVars, history>>

\* The names of the records.  This opens the client's allocation: from here
\* to its first write no other client can see what it takes.
ListSubnets(c) ==
  /\ pc[c] = "list"
  /\ pc' = [pc EXCEPT ![c] = "read"]
  /\ todo' = [todo EXCEPT ![c] = Registered]
  /\ used' = [used EXCEPT ![c] = {}]
  /\ raced' = {p \in raced : c \notin p}
                \cup {{c, d} : d \in {e \in Clients \ {c} : Allocating(e)}}
  /\ UNCHANGED <<now, store, mem, wait, dev, cni, reaperVars, orphaned>>

\* One record of the listing.  If it is gone by now the read fails and the
\* start with it: no step but Exit is left to such a client.
ReadSubnet(c) ==
  /\ pc[c] = "read"
  /\ \E d \in todo[c] \cap Registered :
       /\ todo' = [todo EXCEPT ![c] = @ \ {d}]
       /\ used' = [used EXCEPT ![c] = @ \cup {store[d].ip}]
  /\ UNCHANGED <<now, store, pc, mem, wait, dev, cni, reaperVars, history>>

\* The subnets that no record of the listing has, and when a new lease ends.
MutantAvailable(c) == Slots
Available(c) == Slots \ used[c]
MutantExpiration == now - TTL
Expiration == now + TTL

\* GenerateIPv4Subnet (module SubnetAllocator) returns some unused subnet, or
\* fails if there is none.  Bound: LastAlloc, for the runs in which every lease
\* must run out before the clock stops.
Allocate(c) ==
  /\ pc[c] = "read" /\ todo[c] = {}
  /\ now <= LastAlloc
  /\ \E s \in Available(c) :
       mem' = [mem EXCEPT ![c] =
                 [ip |-> s, exp |-> Expiration, expired |-> FALSE, mac |-> NoMAC]]
  /\ pc' = [pc EXCEPT ![c] = "local"]
  /\ used' = [used EXCEPT ![c] = {}]
  /\ orphaned' = orphaned \ {c}
  /\ UNCHANGED <<now, store, todo, wait, dev, cni, reaperVars, raced>>

\* The VXLAN device: kept as it is if it matches the configuration, created
\* with an address of the kernel's choice otherwise.  The subnet in memory is
\* left alone.
SetLocal(c) ==
  /\ pc[c] = "local"
  /\ \E m \in MACs : dev' = [dev EXCEPT ![c] = m]
  /\ pc' = [pc EXCEPT ![c] = "publish"]
  /\ UNCHANGED <<now, store, mem, todo, used, wait, cni, reaperVars, history>>

\* The first write of the record: a copy of the subnet in memory with the
\* address of the device.
Publish(c) ==
  /\ pc[c] = "publish"
  /\ store' = [store EXCEPT ![c] = [mem[c] EXCEPT !.mac = dev[c]]]
  /\ pc' = [pc EXCEPT ![c] = "cni"]
  /\ UNCHANGED <<now, mem, todo, used, wait, dev, cni, reaperVars, history>>

\* The subnet of the CNI configuration: the one in memory, whatever is on disk.
MutantCNISubnet(c) == IF cni[c] = NoSlot THEN mem[c].ip ELSE cni[c]
CNISubnet(c) == mem[c].ip

\* The CNI configuration replaces the one on disk, the firewall is set up
\* (module Firewall) and the heartbeat ticker starts.
WriteCNI(c) ==
  /\ pc[c] = "cni"
  /\ cni' = [cni EXCEPT ![c] = CNISubnet(c)]
  /\ wait' = [wait EXCEPT ![c] = TTL \div 3]
  /\ pc' = [pc EXCEPT ![c] = "running"]
  /\ UNCHANGED <<now, store, mem, todo, used, dev, reaperVars, history>>

\* The record a heartbeat writes: the subnet in memory, not the copy whose
\* expiration it has just moved.
HeartbeatRecord(c) == mem[c]

\* The ticker fires and the write succeeds.
Heartbeat(c) ==
  /\ pc[c] = "running" /\ wait[c] = 0
  /\ store' = [store EXCEPT ![c] = HeartbeatRecord(c)]
  /\ wait' = [wait EXCEPT ![c] = TTL \div 3]
  /\ UNCHANGED <<now, pc, mem, todo, used, dev, cni, reaperVars, history>>

\* The write returns an error, having reached the store or not.
HeartbeatFails(c) ==
  /\ pc[c] = "running" /\ wait[c] = 0
  /\ \E r \in {store[c], HeartbeatRecord(c)} : store' = [store EXCEPT ![c] = r]
  /\ wait' = [wait EXCEPT ![c] = RetryDelay]
  /\ UNCHANGED <<now, pc, mem, todo, used, dev, cni, reaperVars, history>>

\* The agent stops: on a signal, in a crash, or because a step of its start
\* returned an error (a listed record vanished, the network is full, ...).
\* The record, the device and the CNI configuration stay.
Exit(c) ==
  /\ pc[c] # "down"
  /\ pc' = [pc EXCEPT ![c] = "down"]
  /\ mem' = [mem EXCEPT ![c] = NoLease]
  /\ todo' = [todo EXCEPT ![c] = {}]
  /\ used' = [used EXCEPT ![c] = {}]
  /\ wait' = [wait EXCEPT ![c] = 0]
  /\ UNCHANGED <<now, store, dev, cni, reaperVars, history>>

\* The host restarts: devices are not persistent.
Reboot(c) ==
  /\ pc[c] = "down" /\ dev[c] # NoMAC
  /\ dev' = [dev EXCEPT ![c] = NoMAC]
  /\ UNCHANGED <<now, store, pc, mem, todo, used, wait, cni, reaperVars, history>>

-----------------------------------------------------------------------------
(* The reaper of the server agent.                                         *)

Unhandled == {c \in Clients : snap[c] # NoLease}

\* A pass begins: the names of the records.
ReaperList ==
  /\ rpc = "idle"
  /\ rpc' = "read"
  /\ stubs' = Registered
  /\ UNCHANGED <<now, store, clientVars, snap, scanned, history>>

\* One record of the listing.
ReaperRead(c) ==
  /\ rpc = "read" /\ c \in stubs \cap Registered
  /\ stubs' = stubs \ {c}
  /\ snap' = [snap EXCEPT ![c] = store[c]]
  /\ UNCHANGED <<now, store, clientVars, rpc, scanned, history>>

\* All are read: the time is taken once for the whole pass.
ReaperScan ==
  /\ rpc = "read" /\ stubs = {}
  /\ rpc' = "scan"
  /\ scanned' = now
  /\ UNCHANGED <<now, store, clientVars, stubs, snap, history>>

\* A record marked and past the threshold is deleted, another that has run
\* out is marked.
MutantDeletableAtOnce(r) == r.expired
MutantDeletableEarly(r) == r.expired /\ scanned < r.exp + Threshold
Deletable(r) == r.expired /\ r.exp + Threshold < scanned
MutantMarkable(r) == ~Deletable(r) /\ r.exp <= scanned
Markable(r) == ~Deletable(r) /\ r.exp < scanned

\* handleSubnetExpired: the record of c is deleted, whatever it is by now.
\* The call may fail without effect, which is only logged.
Delete(c, ok) ==
  /\ rpc = "scan" /\ c \in Unhandled /\ Deletable(snap[c])
  /\ snap' = [snap EXCEPT ![c] = NoLease]
  /\ IF ok
     THEN /\ store' = [store EXCEPT ![c] = NoLease]
          /\ orphaned' = orphaned \cup (IF Holds(c) THEN {c} ELSE {})
     ELSE UNCHANGED <<store, orphaned>>
  /\ UNCHANGED <<now, clientVars, rpc, stubs, scanned, raced>>

\* handleSubnetExpiration: the record the reaper has read is written back
\* with the mark, over whatever the client wrote since.
Mark(c, ok) ==
  /\ rpc = "scan" /\ c \in Unhandled /\ Markable(snap[c])
  /\ snap' = [snap EXCEPT ![c] = NoLease]
  /\ store' = IF ok THEN [store EXCEPT ![c] = [snap[c] EXCEPT !.expired = TRUE]]
                    ELSE store
  /\ UNCHANGED <<now, clientVars, rpc, stubs, scanned, history>>

\* A record that has not run out.
Keep(c) ==
  /\ rpc = "scan" /\ c \in Unhandled /\ ~Deletable(snap[c]) /\ ~Markable(snap[c])
  /\ snap' = [snap EXCEPT ![c] = NoLease]
  /\ UNCHANGED <<now, store, clientVars, rpc, stubs, scanned, history>>

\* The pass is over, until the ticker's next interval.
ReaperDone ==
  /\ rpc = "scan" /\ Unhandled = {}
  /\ rpc' = "idle"
  /\ scanned' = 0
  /\ UNCHANGED <<now, store, clientVars, stubs, snap, history>>

\* The listing fails (a call's error, or a record that vanished), or the
\* server stops with records unhandled: what the reaper has read is lost.
ReaperStop ==
  /\ rpc = "read" \/ Unhandled # {}
  /\ rpc' = "idle"
  /\ stubs' = {}
  /\ snap' = [c \in Clients |-> NoLease]
  /\ scanned' = 0
  /\ UNCHANGED <<now, store, clientVars, history>>

-----------------------------------------------------------------------------

ClientStep(c) ==
  \/ GetSubnet(c) \/ ListSubnets(c) \/ ReadSubnet(c) \/ Allocate(c)
  \/ SetLocal(c) \/ Publish(c) \/ WriteCNI(c)
  \/ Heartbeat(c) \/ HeartbeatFails(c)
  \/ Exit(c) \/ Reboot(c)

ReaperStep ==
  \/ ReaperList \/ ReaperScan \/ ReaperDone \/ ReaperStop
  \/ \E c \in Clients :
       \/ ReaperRead(c) \/ Keep(c)
       \/ \E ok \in BOOLEAN : Delete(c, ok) \/ Mark(c, ok)

Next ==
  \/ Tick
  \/ \E c \in Clients : ClientStep(c)
  \/ ReaperStep

Spec == Init /\ [][Next]_vars

\* Time passes; the reaper's ticker fires again and again, and a pass that is
\* not interrupted goes on.  A call that is retried on every pass succeeds in
\* the end.  Nothing is asked of the clients.
Fairness ==
  /\ WF_vars(Tick)
  /\ WF_vars(ReaperList) /\ WF_vars(ReaperScan) /\ WF_vars(ReaperDone)
  /\ \A c \in Clients :
       /\ WF_vars(ReaperRead(c)) /\ WF_vars(Keep(c))
       /\ SF_vars(Delete(c, TRUE)) /\ SF_vars(Mark(c, TRUE))

FairSpec == Spec /\ Fairness

-----------------------------------------------------------------------------
(* What holds.                                                             *)

\* Two registered clients have the same subnet only if their allocations
\* overlapped, or one of them held on to a subnet after the reaper deleted
\* its record.  So the listing, however it interleaves with deletions and
\* restarts, protects every allocation that does not race another (Init's
\* ListSubnets and GenerateIPv4Subnet, the reaper's deletion).
DuplicateNeedsRaceOrReap ==
  \A c, d \in Registered :
     c # d /\ store[c].ip = store[d].ip
        => {c, d} \in raced \/ c \in orphaned \/ d \in orphaned

\* A record bears the mark only once it has run out, although the reaper
\* marks from a listing of any age and a restarted client adopts, republishes
\* and keeps rewriting the mark it found.
ExpiredIsOverdue == \A c \in Registered : store[c].expired => store[c].exp < now

\* A running client's CNI configuration, which its containers are addressed
\* from, is that of the record the others route to, through every restart,
\* reap and revival of the record.
CNIMatchesRecord ==
  \A c \in Registered : pc[c] = "running" => cni[c] = store[c].ip

\* As long as a record is there, no write of any actor moves its subnet or
\* its expiration: neither the reaper's write of a stale record nor a write
\* of a client that adopted, or held on to, an earlier one.
LeaseIsStable ==
  [][\A c \in Registered \cap Registered' :
       store'[c].ip = store[c].ip /\ store'[c].exp = store[c].exp]_vars

\* The reaper deletes from a listing, yet never a record that, as it is at
\* the moment of the deletion, still has its expiration and the threshold
\* ahead of it.
ReapOnlyPastThreshold ==
  [][\A c \in Registered \ Registered' : store[c].exp + Threshold < now]_vars

\* Where the server is not interrupted for ever, the record of a client that
\* stays down goes away for good.
DeadLeasesAreReaped ==
  []<><<ReaperStop>>_vars \/
  \A c \in Clients : <>[](pc[c] = "down") => <>[](c \notin Registered)

\* The store as its readers see it, and what it promises them.
Advert(r) == IF r = NoLease THEN NoLease
             ELSE [ip |-> r.ip, exp |-> r.exp, expired |-> r.expired]

Registry == INSTANCE LeaseRegistry WITH lease <- [c \in Clients |-> Advert(store[c])]

\* Leases implements LeaseRegistry.
ImplementsRegistry == Registry!Spec

-----------------------------------------------------------------------------
(* What comments of the code say, and does not hold.                       *)

\* "Clients must refresh their subnet via heartbeat before this time to
\* maintain their allocation" (types/subnet.go): a heartbeat that succeeds
\* leaves an allocation that has not run out.
HeartbeatMaintains ==
  [][\A c \in Clients : Heartbeat(c) => store'[c].exp > now]_vars

\* GenerateIPv4Subnet "allocates an available subnet" (network.go), and a
\* subnet has one client "that owns this subnet" (types/subnet.go).
UniqueAllocation ==
  \A c, d \in Registered : c # d => store[c].ip # store[d].ip

\* "This is the actual MAC address of the remote host's VXLAN interface"
\* (vxlan_linux.go, of the address in the record): as long as a client runs, the
\* hardware address in its record, if there is one, is that of its device.
VtepMACIsActual ==
  \A c \in Registered :
    pc[c] = "running" /\ store[c].mac # NoMAC => store[c].mac = dev[c]

-----------------------------------------------------------------------------
(* Why: the inductive invariant, in named parts (proved in LeasesProofs).  *)

SameLease(r, q) == r.ip = q.ip /\ r.exp = q.exp

\* Whoever holds a copy of a registered lease holds that lease.
MemAgrees ==
  \A c \in Registered : Holds(c) => SameLease(mem[c], store[c])
SnapAgrees ==
  \A c \in Unhandled : c \in Registered /\ SameLease(snap[c], store[c])

\* No copy is marked early, or made for longer than the TTL.
Sound(r) == r # NoLease => r.exp <= now + TTL /\ (r.expired => r.exp < now)
AllSound ==
  /\ \A c \in Clients : Sound(store[c]) /\ Sound(mem[c]) /\ Sound(snap[c])
  /\ scanned <= now

\* A client allocates only without a record, and one that has published and
\* has no record was reaped.
RecordFollowsState ==
  \A c \in Clients :
     /\ pc[c] \in {"list", "read"} => c \notin Registered
     /\ pc[c] \in {"cni", "running"} => c \in Registered \cup orphaned
     /\ pc[c] = "running" => cni[c] = mem[c].ip

\* Overlapping allocations are on record; a reading client misses only those.
OverlapIsRecorded ==
  \A c, d \in Clients :
     c # d /\ Allocating(c) /\ Allocating(d) => {c, d} \in raced
ReadingMissesOnlyRaces ==
  \A c \in Clients, d \in Registered :
     pc[c] = "read"
        => \/ {c, d} \in raced \/ d \in orphaned
           \/ d \in todo[c] \/ store[d].ip \in used[c]

\* The subnet a client has, or is about to publish.
Claims(c) == c \in Registered \/ (Allocating(c) /\ pc[c] # "read")
Claimed(c) == IF c \in Registered THEN store[c].ip ELSE mem[c].ip
ClaimsAreDisjoint ==
  \A c, d \in Clients :
     c # d /\ Claims(c) /\ Claims(d) /\ Claimed(c) = Claimed(d)
        => {c, d} \in raced \/ c \in orphaned \/ d \in orphaned

\* Every copy of a lease is true to it; no allocation misses another unseen.
CopiesAgree == MemAgrees /\ SnapAgrees /\ AllSound /\ RecordFollowsState
AllocationsAgree == OverlapIsRecorded /\ ReadingMissesOnlyRaces /\ ClaimsAreDisjoint

IInv == TypeOK /\ CopiesAgree /\ AllocationsAgree
=============================================================================
