------------------------------- MODULE VxlanRoutes -------------------------------
(***************************************************************************)
(* What the handler of SubnetWatch does to the kernel of its host, one     *)
(* netlink call at a time.                                                 *)
(*                                                                         *)
(* A remote subnet takes three entries of the VXLAN device: a route to the *)
(* subnet by way of its gateway, an ARP entry with the hardware address of *)
(* the gateway, and an FDB entry with the host that address is behind.     *)
(* SetRemote and DeleteRemote write them one after the other, in opposite  *)
(* orders, each in a Retry of its own; when one fails the call returns and *)
(* what it has done stays.  Traffic flows, and the agent may stop, between *)
(* any two of them.                                                        *)
(*                                                                         *)
(* What they write is what the record says: the hardware address of a      *)
(* VXLAN device and the address of the host it is behind.  It may be an    *)
(* earlier device of the client (its heartbeats write the address it had   *)
(* in memory at its start back), or none at all (a fresh client's          *)
(* heartbeats have none); module Leases shows when.  This module promises  *)
(* no more than that packets go to the device the record names.            *)
(*                                                                         *)
(* The record of the host's own client, which the handler passes over, is  *)
(* left out.                                                               *)
(***************************************************************************)
EXTENDS Integers, FiniteSets

CONSTANTS
  Clients, Self, Slots, NoClient, NoRecord, MaxIndex, \* as in SubnetWatch
  MACs, NoMAC, \* hardware addresses of devices, and none
  Hosts,       \* addresses of hosts
  Vteps,       \* the devices that records may name
  NoVtep,      \* what a record names that has no hardware address
  Owner,       \* Owner[m]: the client whose devices have had address m
  NoCall,      \* the handler is not in a call
  KernelFails  \* netlink calls, reads and lookups may fail for good

ASSUME KernelAssumption == KernelFails \in BOOLEAN
ASSUME VtepAssumption ==
  /\ NoMAC \notin MACs
  /\ Vteps \subseteq [mac : MACs, host : Hosts] /\ NoVtep \notin Vteps

\* The kernel draws the address of a device at random, 46 bits of it: no two
\* clients are taken to draw the same.
ASSUME OwnerAssumption == Owner \in [MACs -> Clients]

Data == Vteps \cup {NoVtep}

ASSUME CallAssumption ==
  NoCall \notin [entry : {"fdb", "arp", "route"},
                 item : [client : Clients, ip : Slots, data : Data]]

VARIABLES
  rec, index, wpc, waitIndex, lastIndex, stubs, expired, modified, errs, hpc, batch,
  missed, heard, strays, shared, \* as in SubnetWatch
  call,   \* the call in progress: its subnet and the entry to write next
  fdb,    \* the FDB entries: a hardware address and the host it is behind
  arp,    \* arp[s]: the hardware address of the gateway of s
  route   \* subnets with a route

\* The client whose device, of today or of an earlier day, the host sends the
\* packets for a subnet to.
Via ==
  [s \in Slots |-> IF s \in route /\ arp[s] \in MACs THEN Owner[arp[s]] ELSE NoClient]

W == INSTANCE SubnetWatch WITH via <- Via

ASSUME WatchAssumption == W!ConstantsAssumption

records == <<rec, index, wpc, waitIndex, lastIndex, stubs, expired, modified, errs, shared>>
kernel  == <<fdb, arp, route>>
vars == <<records, hpc, batch, missed, heard, strays, call, kernel>>

Entries == {"fdb", "arp", "route"}

TypeOK ==
  /\ W!TypeOK
  /\ call \in [entry : Entries, item : W!Item] \cup {NoCall}
  /\ fdb \subseteq Vteps
  /\ arp \in [Slots -> MACs \cup {NoMAC}]
  /\ route \subseteq Slots

Init ==
  /\ fdb = {} /\ arp = [s \in Slots |-> NoMAC] /\ route = {}
  /\ call = NoCall
  /\ W!Init

-----------------------------------------------------------------------------
(* The order of the entries.                                               *)

\* FDB, ARP, route; and back.
MutantSetOrder == [begin |-> "arp", arp |-> "fdb", fdb |-> "route", route |-> "end"]
MutantSetOrderNoARP == [begin |-> "fdb", fdb |-> "route", route |-> "end"]
SetOrder == [begin |-> "fdb", fdb |-> "arp", arp |-> "route", route |-> "end"]
MutantDeleteOrder == [begin |-> "arp", arp |-> "fdb", fdb |-> "route", route |-> "end"]
DeleteOrder == [begin |-> "route", route |-> "arp", arp |-> "fdb", fdb |-> "end"]

\* The call goes on to the entry after this one, or returns.
GoOn(order, entry, i) ==
  call' = IF order[entry] = "end" THEN NoCall ELSE [entry |-> order[entry], item |-> i]

At(op, entry) == hpc = op /\ call # NoCall /\ call.entry = entry

Handled(i) == batch' = batch \ {i}

-----------------------------------------------------------------------------
(* SetRemote.  A subnet is done with, and leaves the batch, when its route *)
(* leads to the device of the record or the call fails.                    *)

Begin(op) ==
  /\ hpc = op /\ call = NoCall
  /\ \E i \in batch :
       i.data # NoVtep /\ GoOn(IF op = "set" THEN SetOrder ELSE DeleteOrder, "begin", i)
  /\ UNCHANGED <<records, hpc, batch, missed, heard, strays, kernel>>

SetFails(i) ==
  /\ Handled(i) /\ missed' = missed \cup {i.client}
  /\ call' = NoCall
  /\ UNCHANGED <<records, hpc, heard, strays, kernel>>

\* The device is not found, or the record has no hardware address.
SetRefused ==
  /\ hpc = "set" /\ call = NoCall
  /\ \E i \in batch : (i.data = NoVtep \/ KernelFails) /\ SetFails(i)

\* A hardware address is behind one host: the entry replaces an earlier one.
MutantSetFDB ==
  /\ At("set", "fdb")
  /\ GoOn(SetOrder, "fdb", call.item)
  /\ UNCHANGED <<records, hpc, batch, missed, heard, strays, kernel>>
SetFDB ==
  /\ At("set", "fdb")
  /\ fdb' = {v \in fdb : v.mac # call.item.data.mac} \cup {call.item.data}
  /\ GoOn(SetOrder, "fdb", call.item)
  /\ UNCHANGED <<records, hpc, batch, missed, heard, strays, arp, route>>

\* If there is a route to the subnet, this is what turns it to another device.
MutantSetARP ==
  /\ At("set", "arp")
  /\ arp' = [arp EXCEPT ![call.item.ip] = IF @ = NoMAC THEN call.item.data.mac ELSE @]
  /\ IF call.item.ip \in route THEN Handled(call.item) ELSE UNCHANGED batch
  /\ GoOn(SetOrder, "arp", call.item)
  /\ UNCHANGED <<records, hpc, missed, heard, strays, fdb, route>>
SetARP ==
  /\ At("set", "arp")
  /\ arp' = [arp EXCEPT ![call.item.ip] = call.item.data.mac]
  /\ IF call.item.ip \in route THEN Handled(call.item) ELSE UNCHANGED batch
  /\ GoOn(SetOrder, "arp", call.item)
  /\ UNCHANGED <<records, hpc, missed, heard, strays, fdb, route>>

SetRoute ==
  /\ At("set", "route")
  /\ route' = route \cup {call.item.ip}
  /\ Handled(call.item)
  /\ GoOn(SetOrder, "route", call.item)
  /\ UNCHANGED <<records, hpc, missed, heard, strays, fdb, arp>>

\* The retries of a call end without success.  A route that is there already
\* is the one that could not be written again.
SetStepFails ==
  /\ hpc = "set" /\ call # NoCall /\ KernelFails
  /\ IF call.item \in batch THEN SetFails(call.item)
     ELSE call' = NoCall /\ UNCHANGED <<records, hpc, batch, missed, heard, strays, kernel>>

-----------------------------------------------------------------------------
(* DeleteRemote.  A subnet leaves the batch with its route.  An entry that *)
(* does not exist is an error like any other, for sixty seconds.           *)

DeleteFails(i) ==
  /\ Handled(i)
  /\ call' = NoCall
  /\ missed' = IF i.ip \in route THEN missed \cup {i.client} ELSE missed
  /\ strays' = IF i.ip \in route THEN strays \cup {i.client} ELSE strays
  /\ UNCHANGED <<records, hpc, heard, kernel>>

DeleteRefused ==
  /\ hpc = "delete" /\ call = NoCall
  /\ \E i \in batch : (i.data = NoVtep \/ KernelFails) /\ DeleteFails(i)

DeleteRoute ==
  /\ At("delete", "route") /\ call.item.ip \in route
  /\ route' = route \ {call.item.ip}
  /\ Handled(call.item)
  /\ GoOn(DeleteOrder, "route", call.item)
  /\ UNCHANGED <<records, hpc, missed, heard, strays, fdb, arp>>

DeleteRouteFails ==
  /\ At("delete", "route") /\ (call.item.ip \in route => KernelFails)
  /\ DeleteFails(call.item)

DeleteARP ==
  /\ At("delete", "arp") /\ arp[call.item.ip] # NoMAC
  /\ arp' = [arp EXCEPT ![call.item.ip] = NoMAC]
  /\ GoOn(DeleteOrder, "arp", call.item)
  /\ UNCHANGED <<records, hpc, batch, missed, heard, strays, fdb, route>>

DeleteFDB ==
  /\ At("delete", "fdb") /\ call.item.data \in fdb
  /\ fdb' = fdb \ {call.item.data}
  /\ GoOn(DeleteOrder, "fdb", call.item)
  /\ UNCHANGED <<records, hpc, batch, missed, heard, strays, arp, route>>

\* The entries that are left stay for good, or until they are written again.
DeleteNeighFails ==
  /\ \/ At("delete", "arp") /\ (arp[call.item.ip] # NoMAC => KernelFails)
     \/ At("delete", "fdb") /\ (call.item.data \in fdb => KernelFails)
  /\ call' = NoCall
  /\ UNCHANGED <<records, hpc, batch, missed, heard, strays, kernel>>

-----------------------------------------------------------------------------
(* The rest is as in SubnetWatch, but no two records have one subnet:      *)
(* what becomes of a subnet two clients have is seen there.                *)

\* A record names a device of its client, or none.
Own(c, v) == v = NoVtep \/ Owner[v.mac] = c

Register(c) ==
  /\ UNCHANGED <<call, kernel>>
  /\ W!Register(c) /\ shared' = {} /\ Own(c, rec'[c].data)
Rewrite(c) == UNCHANGED <<call, kernel>> /\ W!Rewrite(c) /\ Own(c, rec'[c].data)
Delete(c)  == UNCHANGED <<call, kernel>> /\ W!Delete(c)

Watch ==
  /\ UNCHANGED <<call, kernel>>
  /\ \/ W!List \/ W!ListFails \/ W!Retry \/ W!EndOfReads
     \/ \E c \in Clients : W!Read(c) \/ (KernelFails /\ W!ReadFails(c))

Receive ==
  /\ UNCHANGED <<call, kernel>>
  /\ \/ W!ReceiveError \/ W!ReceiveExpired \/ W!ReceiveModified
     \/ call = NoCall /\ W!EndOfBatch

\* SetLocal keeps the device it finds if it is as configured (ensureLink), or
\* makes another one, without entries.
Restart ==
  /\ call' = NoCall
  /\ \/ UNCHANGED kernel
     \/ fdb' = {} /\ arp' = [s \in Slots |-> NoMAC] /\ route' = {}
  /\ W!Restart

-----------------------------------------------------------------------------

Set == SetRefused \/ SetFDB \/ SetARP \/ SetRoute \/ SetStepFails

DeleteCall ==
  DeleteRefused \/ DeleteRoute \/ DeleteRouteFails \/ DeleteARP \/ DeleteFDB \/ DeleteNeighFails

Next ==
  \/ \E c \in Clients \ {Self} : Register(c) \/ Rewrite(c) \/ Delete(c)
  \/ Watch \/ Receive \/ Restart
  \/ Begin("set") \/ Begin("delete") \/ Set \/ DeleteCall

Spec == Init /\ [][Next]_vars

-----------------------------------------------------------------------------
(* What holds.                                                             *)

\* Packets for subnet s are sent to device v.
Leads(s, v) == v \in fdb /\ s \in route /\ arp[s] = v.mac

\* A route has the hardware address of its gateway, at every step of every
\* call, and whatever a call that failed or an agent that stopped has left.
RoutesHaveNeighbours == \A s \in route : arp[s] # NoMAC

\* The entries implement the routes of SubnetWatch: a call of several steps,
\* with its failures, is for the routes one step that succeeds or fails.
ImplementsWatch == W!Spec

\* Once caught up, packets for the subnet of a record that is not expired are
\* sent to the device and the host that record names: all three entries say so,
\* though a client's device or host changes, and deleting another subnet of the
\* client, or an earlier owner of this one, takes entries away.  Whether the
\* client still has that device is for the record to say.
EntriesFollowRecords ==
  W!CaughtUp =>
    \A c \in W!Registered \ (missed \cup {Self}) :
      ~rec[c].expired => Leads(rec[c].ip, rec[c].data)

\* The device that the call in progress is about.
Named == IF call = NoCall THEN {} ELSE {call.item.data}

\* To set a subnet, be it new, there already, with another device or of another
\* client by now, turns traffic from the device it goes to to the one the record
\* names, for that subnet or another one of that device; never, between two
\* entries, to neither.
SetsTurnAtOnce ==
  [][hpc = "set" /\ hpc' = "set" =>
       \A s \in Slots, v \in Vteps :
         Leads(s, v) => \E w \in {v} \cup Named : Leads(s, w)']_vars

-----------------------------------------------------------------------------
(* What a comment of the code says, and does not hold.                     *)

\* "At this point, the subnet is already marked as expired and has been removed
\* from cluster host routing" (reaper.go): once a host has caught up, and has
\* had no failure, it does not route the subnet of an expired record to its
\* client.
ExpiredIsUnrouted ==
  W!CaughtUp => \A c \in W!Registered \ {Self} : rec[c].expired => Via[rec[c].ip] # c

-----------------------------------------------------------------------------
(* Why: the inductive invariant, in named parts (proved in                 *)
(* VxlanRoutesProofs).                                                     *)

\* A call works on an item of the batch until its route is moved, and has
\* written what comes before the entry it is at.
CallIsInOrder ==
  call # NoCall =>
    /\ hpc \in {"set", "delete"} /\ call.item.client # Self
    /\ hpc = "set" =>
         /\ call.entry \in {"fdb", "arp"} => call.item \in batch
         /\ call.entry \in {"arp", "route"} => call.item.data \in fdb
         /\ call.entry = "route" =>
              /\ arp[call.item.ip] = call.item.data.mac
              /\ call.item \in batch <=> call.item.ip \notin route
    /\ hpc = "delete" =>
         IF call.entry = "route" THEN call.item \in batch ELSE call.item.ip \notin route

SelfIsAbsent ==
  /\ rec[Self] = NoRecord /\ Self \notin stubs
  /\ \A i \in expired \cup modified \cup batch : i.client # Self

NoneIsShared ==
  shared = {} /\ \A c, d \in W!Registered : rec[c].ip = rec[d].ip => c = d

\* What a listing, a batch or a call has of a client names a device of it.
DevicesAreOwn ==
  /\ \A c \in W!Registered : Own(c, rec[c].data)
  /\ \A i \in expired \cup modified \cup batch : Own(i.client, i.data)
  /\ call # NoCall => call.item.data # NoVtep /\ Own(call.item.client, call.item.data)

\* What is read of the record of c, as it is now.
Mine(c) == [client |-> c, ip |-> rec[c].ip, data |-> rec[c].data]

\* A record that has not changed since the listing is read as it is.
ReadsAgree ==
  \A c \in W!Registered :
    rec[c].mod <= lastIndex => \A i \in expired \cup modified : i.client = c => i = Mine(c)

\* What the handler works on.
InHand == batch \cup (IF call = NoCall THEN {} ELSE {call.item})

\* A client that has a subnet has the entries its record asks for, which nothing
\* in hand is going to change or delete, or will get them.
EntriesAreOnTheirWay ==
  \A c \in W!Registered \ (missed \cup {Self}) :
    ~rec[c].expired =>
      \/ W!Awaited(c)
      \/ Mine(c) \in modified
      \/ /\ \A i \in InHand :
              i.client = c \/ i.ip = rec[c].ip => hpc = "set" /\ i = Mine(c)
         /\ Mine(c) \in batch \/ Leads(rec[c].ip, rec[c].data)

\* Inductive alone, and what makes a step one of SubnetWatch.
KernelInv ==
  /\ TypeOK /\ CallIsInOrder /\ SelfIsAbsent /\ NoneIsShared /\ DevicesAreOwn
  /\ RoutesHaveNeighbours

\* Inductive together with the invariant of SubnetWatch, which then holds.
IInv == KernelInv /\ ReadsAgree /\ EntriesAreOnTheirWay
===============================================================================
