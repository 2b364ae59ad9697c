------------------------------- MODULE Overlay -------------------------------
(***************************************************************************)
(* One Smuggle network as a whole: the agents and the reaper of module     *)
(* Leases, the store between them, and the watcher and handler of module   *)
(* SubnetWatch on one of the hosts.                                        *)
(*                                                                         *)
(* The two meet at the records.  Every write, whoever makes it and whether *)
(* it changes anything or not, gives its record the next ModifyIndex; the  *)
(* watcher sees of a record the subnet, the hardware address and the mark. *)
(* The goroutines of SubnetWatch run while the agent of Self does, once    *)
(* its start is over.                                                      *)
(***************************************************************************)
EXTENDS Leases

CONSTANTS
  Self,      \* the client whose host is looked at
  NoClient,  \* the next hop of a subnet without a route
  NoRecord,  \* no record, as the watcher sees it
  MaxIndex   \* bound: no more than this many writes

VARIABLES
  index,     \* the index of the last write
  mods,      \* mods[c]: the ModifyIndex of the record of c
  wpc, waitIndex, lastIndex, names, expired, modified,  \* the watcher
  errs, hpc, batch, via,                                \* the handler
  missed, heard, strays, shared                         \* as in SubnetWatch

\* A record as a listing and a read show it.
Seen(c) ==
  IF store[c] = NoLease THEN NoRecord
  ELSE [ip |-> store[c].ip, data |-> store[c].mac, expired |-> store[c].expired,
        mod |-> mods[c]]

W == INSTANCE SubnetWatch
       WITH rec <- [c \in Clients |-> Seen(c)], stubs <- names, Data <- MACs \cup {NoMAC}

host == <<wpc, waitIndex, lastIndex, names, expired, modified, errs, hpc, batch, via, missed,
          heard>>
overlayVars == <<vars, index, mods, host, strays, shared>>

OverlayInit ==
  /\ Init
  /\ mods = [c \in Clients |-> 0]
  /\ W!Init

-----------------------------------------------------------------------------

\* The record of c is written or deleted: what the store and the histories of
\* SubnetWatch make of it.  A host that has not heard of the mark will not hear
\* of the deletion.
Stored(c) ==
  /\ index < MaxIndex
  /\ index' = index + 1
  /\ mods' = [mods EXCEPT ![c] = index + 1]
  /\ strays' = IF c \in Registered' \cup heard THEN strays ELSE strays \cup {c}
  /\ shared' = shared \cup {store'[d].ip : d \in
                  {e \in Registered : c \in Registered' \ Registered /\ store[e].ip = store'[c].ip}}
  /\ UNCHANGED host

\* A call to the store that succeeds, or whose answer is lost.
Write(c) ==
  /\ \/ Publish(c) \/ Heartbeat(c)
     \/ HeartbeatFails(c) /\ store'[c] = HeartbeatRecord(c)
     \/ Delete(c, TRUE) \/ Mark(c, TRUE)
  /\ Stored(c)

\* A step that writes no record, and is none of this host's agent.
NoWrite(c) ==
  \/ GetSubnet(c) \/ ListSubnets(c) \/ ReadSubnet(c) \/ Allocate(c) \/ WriteCNI(c)
  \/ HeartbeatFails(c) /\ UNCHANGED store
  \/ c # Self /\ (SetLocal(c) \/ Exit(c) \/ Reboot(c))
  \/ ReaperRead(c) \/ Keep(c) \/ Delete(c, FALSE) \/ Mark(c, FALSE)

Quiet ==
  /\ \/ Tick
     \/ ReaperList \/ ReaperScan \/ ReaperDone \/ ReaperStop
     \/ \E c \in Clients : NoWrite(c)
  /\ UNCHANGED <<index, mods, host, strays, shared>>

\* The agent of this host stops, and with it what it had in memory.  The
\* routes stay as long as their device does: until the host restarts, or the
\* next start of the agent replaces the device.
HostStops ==
  /\ \/ Exit(Self) /\ UNCHANGED via
     \/ SetLocal(Self)
     \/ Reboot(Self) /\ via' = [s \in Slots |-> NoClient]
  /\ UNCHANGED mods
  /\ W!Restart

\* A step of the watcher or the handler.
HostWatches ==
  /\ pc[Self] = "running"
  /\ UNCHANGED <<vars, mods>>
  /\ W!Watch \/ W!Handle

OverlayNext == (\E c \in Clients : Write(c)) \/ Quiet \/ HostStops \/ HostWatches

OverlaySpec == OverlayInit /\ [][OverlayNext]_overlayVars

-----------------------------------------------------------------------------
(* What holds, proved in OverlayProofs.                                    *)

\* Once a host has caught up, the subnet that the containers of a running
\* client have their addresses from is routed as the record of that client
\* says, as long as its lease has not run out.  Excepted are the clients for
\* which a read or a route failed, and the subnets two clients have had at a
\* time.  Whether the device that the record names is still there, is another
\* matter: VtepMACIsActual of module Leases.
ContainersAreRouted ==
  W!CaughtUp =>
    \A c \in Registered \ (missed \cup {Self}) :
      pc[c] = "running" /\ now <= store[c].exp /\ store[c].ip \notin shared
        => via[cni[c]] = c

\* Once a host has caught up, what it routes as the record of a running client
\* says is for the containers of that client, or there is the explanation
\* SubnetWatch gives.
DeliveriesAreRight ==
  W!CaughtUp =>
    \A s \in Slots :
      LET c == via[s] IN
        \/ c \in missed \cup strays \cup {NoClient}
        \/ c \in Registered /\ (pc[c] = "running" => cni[c] = s)

\* While the agent of a host runs, it takes the route to a client away only
\* after the lease has run out.  If it does so earlier, because it has just
\* removed what an earlier record of the client stood for, the present record
\* is still to be read or already waits to be set.
RoutesOutlastLeases ==
  [][\A c \in Registered \ (missed \cup {Self}) :
       LET s == store[c].ip IN
         /\ HostWatches
         /\ s \notin shared /\ via[s] = c /\ via'[s] # c
         => \/ store[c].exp < now
            \/ W!Awaited(c) \/ W!Of(modified, c, s) # {}]_overlayVars

=============================================================================
