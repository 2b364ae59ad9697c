---------------------------- MODULE OverlayProofs ----------------------------
(***************************************************************************)
(* Proofs about Overlay.  What the agents and the reaper do to the records *)
(* is what SubnetWatch takes the others to do, so the theorems about       *)
(* Leases and those about SubnetWatch hold together, and yield what none   *)
(* of the two can say alone.                                               *)
(***************************************************************************)
EXTENDS Overlay, LeasesProofs

WP == INSTANCE SubnetWatchProofs
        WITH rec <- [c \in Clients |-> Seen(c)], stubs <- names, Data <- MACs \cup {NoMAC}

-----------------------------------------------------------------------------
(* The module of proofs speaks of the same watcher.                        *)

\* Its constants are.
LEMMA SameConstants == W!ConstantsAssumption <=> WP!ConstantsAssumption
BY DEF W!ConstantsAssumption, WP!ConstantsAssumption, W!Record, WP!Record

\* Its initial states are.
LEMMA SameInit == WP!Init <=> W!Init
BY DEF W!Init, WP!Init

\* Its steps are.
LEMMA SameNext == [WP!Next]_(WP!vars) <=> [W!Next]_(W!vars)
BY DEF W!Next, WP!Next, W!vars, WP!vars, W!watcher, WP!watcher, W!handler, WP!handler,
       W!history, WP!history, W!Registered, WP!Registered, W!Records, WP!Records,
       W!Watch, WP!Watch, W!Handle, WP!Handle, W!Register, WP!Register, W!Rewrite, WP!Rewrite,
       W!Delete, WP!Delete, W!Change, WP!Change, W!List, WP!List, W!Fresh, WP!Fresh,
       W!ListFails, WP!ListFails, W!Retry, WP!Retry, W!Read, WP!Read,
       W!ReadFails, WP!ReadFails, W!EndOfReads, WP!EndOfReads, W!Seen, WP!Seen,
       W!ToSend, WP!ToSend,
       W!ReceiveError, WP!ReceiveError, W!ReceiveExpired, WP!ReceiveExpired,
       W!ReceiveModified, WP!ReceiveModified, W!IsLocal, WP!IsLocal,
       W!HandleLocal, WP!HandleLocal, W!HandleSet, WP!HandleSet,
       W!HandleDelete, WP!HandleDelete, W!EndOfBatch, WP!EndOfBatch,
       W!Restart, WP!Restart, W!Unhandled, WP!Unhandled

-----------------------------------------------------------------------------
(* The steps of Leases are steps of SubnetWatch's records.                 *)

\* The indices are numbers.
Indexed == index \in Nat /\ mods \in [Clients -> Nat]

LEMMA IndexedInit == OverlayInit => Indexed
BY DEF OverlayInit, Indexed, W!Init

LEMMA IndexedStep == Indexed /\ [OverlayNext]_overlayVars => Indexed'
<1> SUFFICES ASSUME Indexed, [OverlayNext]_overlayVars PROVE Indexed'
  OBVIOUS
<1>1. ASSUME NEW c \in Clients, Stored(c) PROVE Indexed'
  BY <1>1 DEF Stored, Indexed
<1>2. CASE UNCHANGED <<index, mods>>
  BY <1>2 DEF Indexed
<1>3. Quiet \/ UNCHANGED overlayVars => UNCHANGED <<index, mods>>
  BY DEF Quiet, overlayVars
<1>4. HostStops => UNCHANGED <<index, mods>>
  BY DEF HostStops, W!Restart
<1>5. HostWatches => UNCHANGED <<index, mods>>
  <2>1. \A c \in Clients : W!Read(c) \/ W!ReadFails(c) => index' = index
    BY DEF W!Read, W!ReadFails
  <2>2. W!List \/ W!ListFails \/ W!Retry \/ W!EndOfReads => index' = index
    BY DEF W!List, W!ListFails, W!Retry, W!EndOfReads
  <2>3. W!Handle => index' = index
    BY DEF W!Handle, W!ReceiveError, W!ReceiveExpired, W!ReceiveModified, W!HandleLocal,
           W!HandleSet, W!HandleDelete, W!EndOfBatch
  <2> QED
    BY <2>1, <2>2, <2>3 DEF HostWatches, W!Watch
<1> QED
  BY <1>1, <1>2, <1>3, <1>4, <1>5 DEF OverlayNext, Write

\* Nothing that happens in the whole is new to Leases.
LEMMA LeasesStep ==
  ASSUME Self \in Clients, [OverlayNext]_overlayVars
  PROVE  [Next]_vars
<1>1. ASSUME NEW c \in Clients, Write(c) PROVE Next
  BY <1>1 DEF Write, Next, ClientStep, ReaperStep
<1>2. ASSUME NEW c \in Clients, NoWrite(c) PROVE Next
  BY <1>2 DEF NoWrite, Next, ClientStep, ReaperStep
<1>3. Quiet => Next
  BY <1>2 DEF Quiet, Next, ReaperStep
<1>4. HostStops => Next
  BY DEF HostStops, Next, ClientStep
<1> QED
  BY <1>1, <1>3, <1>4 DEF OverlayNext, HostWatches, overlayVars

\* A write is that of a record with the subnet it has, or of a new one, or
\* it deletes the record.
LEMMA WriteIs ==
  ASSUME IInv, NEW c \in Clients, Write(c)
  PROVE  \/ \E r \in Lease : /\ store' = [store EXCEPT ![c] = r]
                             /\ c \in Registered => r.ip = store[c].ip
         \/ c \in Registered /\ store' = [store EXCEPT ![c] = NoLease]
<1> USE DEF IInv, TypeOK, CopiesAgree, MemAgrees, SnapAgrees, SameLease, Holds, HoldingStates
<1>1. CASE Publish(c)
  <2> DEFINE r == [mem[c] EXCEPT !.mac = dev[c]]
  <2>1. r \in Lease /\ r.ip = mem[c].ip
    BY <1>1 DEF Publish, Lease
  <2> QED
    BY <1>1, <2>1 DEF Publish
<1>2. CASE Heartbeat(c) \/ (HeartbeatFails(c) /\ store'[c] = HeartbeatRecord(c))
  <2>1. store' = [store EXCEPT ![c] = mem[c]]
    BY <1>2 DEF Heartbeat, HeartbeatFails, HeartbeatRecord
  <2>2. mem[c] \in Lease /\ (c \in Registered => mem[c].ip = store[c].ip)
    BY <1>2 DEF Heartbeat, HeartbeatFails
  <2> QED
    BY <2>1, <2>2
<1>3. CASE Delete(c, TRUE)
  BY <1>3 DEF Delete
<1>4. CASE Mark(c, TRUE)
  <2> DEFINE r == [snap[c] EXCEPT !.expired = TRUE]
  <2>1. store' = [store EXCEPT ![c] = r] /\ c \in Unhandled
    BY <1>4 DEF Mark
  <2>2. snap[c] \in Lease /\ (c \in Registered => snap[c].ip = store[c].ip)
    BY <2>1 DEF Unhandled
  <2>3. r \in Lease /\ r.ip = snap[c].ip
    BY <2>2 DEF Lease
  <2> QED
    BY <2>1, <2>2, <2>3
<1> QED
  BY <1>1, <1>2, <1>3, <1>4 DEF Write

\* The watcher's records are those of Leases.
LEMMA RecordsAre ==
  ASSUME W!ConstantsAssumption, TypeOK, Indexed
  PROVE  /\ W!Registered = Registered
         /\ \A c \in Registered : Seen(c) \in W!Record
<1>1. \A c \in Registered : Seen(c) \in W!Record
  BY DEF Seen, Registered, W!Record, TypeOK, Lease, Indexed
<1>2. \A c \in Clients : Seen(c) = NoRecord <=> store[c] = NoLease
  BY <1>1 DEF Seen, Registered, W!ConstantsAssumption
<1> QED
  BY <1>1, <1>2 DEF W!Registered, Registered

\* A record with all but its subnet rewritten.
Rewritten(q, x, y, z) == [q EXCEPT !.data = x, !.expired = y, !.mod = z]

LEMMA RewrittenRecord ==
  ASSUME NEW q \in W!Record, NEW x \in MACs \cup {NoMAC}, NEW y \in BOOLEAN, NEW z \in Nat
  PROVE  Rewritten(q, x, y, z) = [ip |-> q.ip, data |-> x, expired |-> y, mod |-> z]
<1> DEFINE e == Rewritten(q, x, y, z)
           f == [ip |-> q.ip, data |-> x, expired |-> y, mod |-> z]
<1>1. e \in W!Record /\ e.ip = q.ip /\ e.data = x /\ e.expired = y /\ e.mod = z
  BY DEF W!Record, Rewritten
<1>2. f \in W!Record /\ f.ip = q.ip /\ f.data = x /\ f.expired = y /\ f.mod = z
  BY DEF W!Record
<1> HIDE DEF e, f
<1>3. e = f
  BY <1>1, <1>2 DEF W!Record
<1> QED
  BY <1>3 DEF e, f

\* A write registers, rewrites or deletes a record.
LEMMA WriteRefines ==
  ASSUME W!ConstantsAssumption, IInv, IInv', Indexed, Indexed', NEW c \in Clients, Write(c)
  PROVE  W!Records
<1> DEFINE recs == [d \in Clients |-> Seen(d)]
<1>1. /\ index < MaxIndex /\ index' = index + 1
      /\ mods' = [mods EXCEPT ![c] = index + 1]
      /\ UNCHANGED host
  BY DEF Write, Stored
<1>2. W!Registered = Registered /\ \A d \in Registered : recs[d] \in W!Record
  <2>1. \A d \in Registered : recs[d] = Seen(d)
    BY DEF Registered
  <2> HIDE DEF recs
  <2> QED
    BY <2>1, RecordsAre DEF IInv
<1>3. ASSUME NEW r \in Lease \cup {NoLease}, store' = [store EXCEPT ![c] = r]
      PROVE  /\ recs' = [recs EXCEPT ![c] = Seen(c)']
             /\ store'[c] = r
             /\ Registered' \ {c} = Registered \ {c}
             /\ c \in Registered' <=> r # NoLease
             /\ \A d \in Clients \ {c} : store'[d] = store[d]
  <2>1. store'[c] = r /\ \A d \in Clients \ {c} : store'[d] = store[d]
    BY <1>3 DEF IInv, TypeOK
  <2>2. \A d \in Clients \ {c} : Seen(d)' = Seen(d)
    BY <1>1, <2>1 DEF Seen, Indexed
  <2>3. recs' = [recs EXCEPT ![c] = Seen(c)']
    BY <2>2
  <2> QED
    BY <2>1, <2>3 DEF Registered
<1>4. ASSUME NEW q, recs' = [recs EXCEPT ![c] = q] PROVE W!Change(c, q)
  BY <1>1, <1>4 DEF W!Change, host, W!watcher, W!handler
<1>5. ASSUME NEW r \in Lease, store' = [store EXCEPT ![c] = r],
             c \in Registered => r.ip = store[c].ip
      PROVE  W!Register(c) \/ W!Rewrite(c)
  <2>1. /\ Seen(c)' = [ip |-> r.ip, data |-> r.mac, expired |-> r.expired, mod |-> index + 1]
        /\ r.ip \in Slots /\ r.mac \in MACs \cup {NoMAC} /\ r.expired \in BOOLEAN
    BY <1>1, <1>3, <1>5, ConstantsAssumption DEF Seen, Indexed, Lease
  <2>2. UNCHANGED strays
    BY <1>3, <1>5, ConstantsAssumption DEF Write, Stored
  <2>3. CASE c \in Registered
    <3>1. recs[c] # NoRecord /\ recs[c].ip = r.ip
      BY <1>2, <1>5, <2>3 DEF W!ConstantsAssumption, Seen, Registered
    <3> DEFINE q == recs[c]
    <3> HIDE DEF recs
    <3>2. q \in W!Record
      BY <1>2, <2>3
    <3>3. index + 1 \in Nat
      BY DEF Indexed
    <3> HIDE DEF q
    <3>4. Seen(c)' = Rewritten(q, r.mac, r.expired, index + 1)
      BY <2>1, <3>1, <3>2, <3>3, RewrittenRecord DEF q
    <3>5. UNCHANGED shared
      BY <2>3 DEF Write, Stored
    <3>6. W!Change(c, Rewritten(q, r.mac, r.expired, index + 1))
      BY <1>3, <1>4, <1>5, <3>4 DEF recs
    <3> QED
      BY <2>1, <2>2, <3>1, <3>5, <3>6 DEF W!Rewrite, Rewritten, q, recs
  <2>4. CASE c \notin Registered
    <3>1. recs[c] = NoRecord
      BY <2>4 DEF Seen, Registered
    <3>2. shared' = IF \E d \in W!Registered : recs[d].ip = r.ip THEN shared \cup {r.ip} ELSE shared
      <4>1. c \in Registered' \ Registered /\ store'[c].ip = r.ip
        BY <1>3, <1>5, <2>4, ConstantsAssumption
      <4>2. \A d \in Registered : store'[d] = store[d] /\ recs[d].ip = store[d].ip
        BY <1>3, <1>5, <2>4 DEF Seen, Registered
      <4>3. shared' = shared \cup {store'[d].ip : d \in {e \in Registered : store[e].ip = r.ip}}
        BY <4>1 DEF Write, Stored
      <4>4. shared' = shared \cup {r.ip : d \in {e \in Registered : store[e].ip = r.ip}}
        BY <4>2, <4>3
      <4> HIDE DEF recs
      <4> QED
        BY <1>2, <4>2, <4>4
    <3>3. W!Change(c, [ip |-> r.ip, data |-> r.mac, expired |-> r.expired, mod |-> index + 1])
      BY <1>3, <1>4, <1>5, <2>1
    <3> HIDE DEF recs
    <3> QED
      BY <2>1, <2>2, <3>1, <3>2, <3>3 DEF W!Register, recs
  <2> QED
    BY <2>3, <2>4
<1>6. ASSUME c \in Registered, store' = [store EXCEPT ![c] = NoLease] PROVE W!Delete(c)
  <2>1. recs[c] # NoRecord /\ Seen(c)' = NoRecord
    BY <1>2, <1>3, <1>6 DEF W!ConstantsAssumption, Seen
  <2>2. strays' = (IF c \in heard THEN strays ELSE strays \cup {c}) /\ UNCHANGED shared
    BY <1>3, <1>6 DEF Write, Stored
  <2> QED
    BY <1>3, <1>4, <1>6, <2>1, <2>2 DEF W!Delete
<1>7. W!Register(c) \/ W!Rewrite(c) \/ W!Delete(c)
  <2>1. CASE \E r \in Lease : /\ store' = [store EXCEPT ![c] = r]
                              /\ c \in Registered => r.ip = store[c].ip
    <3>1. PICK r \in Lease : /\ store' = [store EXCEPT ![c] = r]
                             /\ c \in Registered => r.ip = store[c].ip
      BY <2>1
    <3> QED
      BY <1>5, <3>1
  <2>2. CASE c \in Registered /\ store' = [store EXCEPT ![c] = NoLease]
    BY <1>6, <2>2
  <2> QED
    BY WriteIs, <2>1, <2>2
<1> QED
  BY <1>7 DEF W!Records

\* Every step of the whole is one of SubnetWatch, or changes nothing it sees.
LEMMA WatchStep ==
  ASSUME W!ConstantsAssumption, IInv, IInv', Indexed, Indexed', [OverlayNext]_overlayVars
  PROVE  [W!Next]_(W!vars)
<1>1. CASE \E c \in Clients : Write(c)
  BY <1>1, WriteRefines DEF W!Next
<1>2. CASE Quiet \/ UNCHANGED overlayVars
  <2>1. UNCHANGED <<store, index, mods, host, strays, shared>>
    BY <1>2
       DEF Quiet, NoWrite, overlayVars, vars, Tick, ReaperList, ReaperScan, ReaperDone,
           ReaperStop, GetSubnet, ListSubnets, ReadSubnet, Allocate, WriteCNI, SetLocal, Exit,
           Reboot, ReaperRead, Keep, Delete, Mark
  <2> QED
    BY <2>1 DEF Seen, host, W!vars, W!watcher, W!handler, W!history
<1>3. CASE HostStops
  BY <1>3 DEF HostStops, W!Next
<1>4. CASE HostWatches
  BY <1>4 DEF HostWatches, W!Next
<1> QED
  BY <1>1, <1>2, <1>3, <1>4 DEF OverlayNext

\* Whatever the watcher does, the leases are those of Leases.
THEOREM LeasesAreImplemented ==
  ASSUME W!ConstantsAssumption
  PROVE  OverlaySpec => Spec
<1>1. OverlayInit => Init
  BY DEF OverlayInit
<1>2. [OverlayNext]_overlayVars => [Next]_vars
  BY LeasesStep DEF W!ConstantsAssumption
<1> QED
  BY <1>1, <1>2, PTL DEF OverlaySpec, Spec

\* Whatever the agents and the reaper do, the host sees no other changes of the
\* records than SubnetWatch allows: it is SubnetWatch that the host runs.
THEOREM WatchIsImplemented ==
  ASSUME W!ConstantsAssumption
  PROVE  OverlaySpec => W!Spec
<1>1. OverlayInit => W!Init
  BY DEF OverlayInit
<1>2. IInv /\ IInv' /\ Indexed /\ Indexed' /\ [OverlayNext]_overlayVars => [W!Next]_(W!vars)
  BY WatchStep
<1>3. OverlaySpec => []IInv
  BY LeasesAreImplemented, Invariance, PTL
<1>4. OverlaySpec => []Indexed
  BY IndexedInit, IndexedStep, PTL DEF OverlaySpec
<1> QED
  BY <1>1, <1>2, <1>3, <1>4, PTL DEF OverlaySpec, W!Spec

\* What is proved of SubnetWatch holds of this host.
LEMMA WatcherInvariance ==
  ASSUME W!ConstantsAssumption
  PROVE  OverlaySpec => []WP!IInv
<1>1. WP!Spec => []WP!IInv
  BY SameConstants, WP!Invariance
<1>2. W!Spec => WP!Spec
  BY SameInit, SameNext, PTL DEF W!Spec, WP!Spec
<1> QED
  BY <1>1, <1>2, WatchIsImplemented, PTL

-----------------------------------------------------------------------------
(* What leases and routes are to each other.                               *)

\* What the proofs need of both modules.
Both == IInv /\ Indexed /\ WP!IInv

LEMMA BothHold ==
  ASSUME W!ConstantsAssumption
  PROVE  OverlaySpec => []Both
<1>1. OverlaySpec => []IInv
  BY LeasesAreImplemented, Invariance, PTL
<1>2. OverlaySpec => []Indexed
  BY IndexedInit, IndexedStep, PTL DEF OverlaySpec
<1> QED
  BY <1>1, <1>2, WatcherInvariance, PTL DEF Both

\* Once a host has caught up, the subnet of the containers of a running client is
\* routed as the client's record says, for as long as the lease lasts.
THEOREM ContainersRouted ==
  ASSUME W!ConstantsAssumption
  PROVE  OverlaySpec => []ContainersAreRouted
<1>1. OverlaySpec => [](CNIMatchesRecord /\ ExpiredIsOverdue)
  BY LeasesAreImplemented, CNIAgrees, MarksAreTrue, PTL
<1>2. OverlaySpec => []WP!RoutesFollowRecords
  <2>1. WP!Spec => []WP!RoutesFollowRecords
    BY SameConstants, WP!RoutesFollow
  <2>2. W!Spec => WP!Spec
    BY SameInit, SameNext, PTL DEF W!Spec, WP!Spec
  <2> QED
    BY <2>1, <2>2, WatchIsImplemented, PTL
<1>3. Both /\ CNIMatchesRecord /\ ExpiredIsOverdue /\ WP!RoutesFollowRecords => ContainersAreRouted
  <2> SUFFICES ASSUME Both, CNIMatchesRecord, ExpiredIsOverdue, WP!RoutesFollowRecords,
                      W!CaughtUp, NEW c \in Registered \ (missed \cup {Self}),
                      pc[c] = "running", now <= store[c].exp, store[c].ip \notin shared
               PROVE  via[cni[c]] = c
    BY DEF ContainersAreRouted
  <2> DEFINE recs == [d \in Clients |-> Seen(d)]
  <2>1. c \in WP!Registered /\ recs[c].ip = store[c].ip /\ recs[c].expired = store[c].expired
    BY RecordsAre DEF Both, IInv, Seen, Registered, W!Registered, WP!Registered
  <2>2. ~store[c].expired
    <3>1. store[c].exp \in Nat /\ now \in Nat
      BY DEF Both, IInv, TypeOK, Registered, Lease, Time
    <3> QED
      BY <3>1 DEF ExpiredIsOverdue
  <2>3. WP!CaughtUp
    BY DEF W!CaughtUp, WP!CaughtUp
  <2>4. ASSUME recs[c].ip \notin shared
        PROVE  via[recs[c].ip] = c <=> ~recs[c].expired
    BY <2>1, <2>3, <2>4 DEF WP!RoutesFollowRecords
  <2>5. via[store[c].ip] = c
    <3> HIDE DEF recs
    <3> QED
      BY <2>1, <2>2, <2>4
  <2> QED
    BY <2>5 DEF CNIMatchesRecord
<1> QED
  BY <1>1, <1>2, <1>3, BothHold, PTL

\* Once a host has caught up, what it sends to a client that runs is for the
\* containers there, unless the host could not know better.
THEOREM DeliveriesRight ==
  ASSUME W!ConstantsAssumption
  PROVE  OverlaySpec => []DeliveriesAreRight
<1>1. OverlaySpec => []CNIMatchesRecord
  BY LeasesAreImplemented, CNIAgrees, PTL
<1>2. OverlaySpec => []WP!StaleRoutesAreExplained
  <2>1. WP!Spec => []WP!StaleRoutesAreExplained
    BY SameConstants, WP!StaleRoutes
  <2>2. W!Spec => WP!Spec
    BY SameInit, SameNext, PTL DEF W!Spec, WP!Spec
  <2> QED
    BY <2>1, <2>2, WatchIsImplemented, PTL
<1>3. Both /\ CNIMatchesRecord /\ WP!StaleRoutesAreExplained => DeliveriesAreRight
  <2> SUFFICES ASSUME Both, CNIMatchesRecord, WP!StaleRoutesAreExplained, W!CaughtUp,
                      NEW s \in Slots, via[s] \notin missed \cup strays \cup {NoClient}
               PROVE  via[s] \in Registered /\ (pc[via[s]] = "running" => cni[via[s]] = s)
    BY DEF DeliveriesAreRight
  <2> DEFINE c == via[s]
  <2>1. c \in WP!Registered /\ [d \in Clients |-> Seen(d)][c].ip = s
    BY DEF WP!StaleRoutesAreExplained, W!CaughtUp, WP!CaughtUp
  <2>2. c \in Registered
    BY <2>1, RecordsAre DEF Both, IInv, W!Registered, WP!Registered
  <2>3. store[c].ip = s
    BY <2>1, <2>2 DEF Seen, Registered
  <2> QED
    BY <2>2, <2>3 DEF CNIMatchesRecord
<1> QED
  BY <1>1, <1>2, <1>3, BothHold, PTL

\* No host that runs takes the route to a client away before the lease has run
\* out, unless it is about to set it again.
THEOREM RoutesOutlast ==
  ASSUME W!ConstantsAssumption
  PROVE  OverlaySpec => RoutesOutlastLeases
<1>1. ASSUME Both, ExpiredIsOverdue, HostWatches,
             NEW c \in Registered \ (missed \cup {Self}), store[c].ip \notin shared,
             via[store[c].ip] = c, via'[store[c].ip] # c,
             ~W!Awaited(c), W!Of(modified, c, store[c].ip) = {}
      PROVE  store[c].exp < now
  <2> DEFINE recs == [d \in Clients |-> Seen(d)]
             s == store[c].ip
  <2>1. /\ c \in WP!Registered /\ recs[c].ip = s /\ recs[c].expired = store[c].expired
        /\ s \in Slots
    BY <1>1, RecordsAre
       DEF Both, IInv, TypeOK, Lease, Seen, Registered, W!Registered, WP!Registered
  <2>2. CASE store[c].expired
    BY <1>1, <2>2 DEF ExpiredIsOverdue
  <2>3. CASE ~store[c].expired
    <3>1. WP!Settled(c)
      BY <1>1, <2>1, <2>3
         DEF Both, WP!IInv, WP!ChangesAreOnTheirWay, WP!Awaited, W!Awaited, WP!Of, W!Of, Registered
    <3>2. \A i \in batch : i.ip = s => hpc = "set" /\ i.client = c
      BY <2>1, <2>3, <3>1 DEF WP!Settled
    <3>3. PICK i \in batch : i.ip = s /\ (hpc = "set" => i.client # c)
      <4>1. via' # via
        BY <1>1
      <4>2. W!HandleSet \/ W!HandleDelete
        BY <1>1, <4>1
           DEF HostWatches, W!Watch, W!Handle, W!List, W!ListFails, W!Retry, W!EndOfReads, W!Read,
               W!ReadFails, W!ReceiveError, W!ReceiveExpired, W!ReceiveModified, W!HandleLocal,
               W!EndOfBatch
      <4>3. via \in [Slots -> Clients \cup {NoClient}]
        BY <1>1 DEF Both, WP!IInv, WP!TypeOK
      <4> QED
        BY <1>1, <2>1, <4>2, <4>3 DEF W!HandleSet, W!HandleDelete
    <3> QED
      BY <3>2, <3>3
  <2> QED
    BY <2>2, <2>3
<1>2. Both /\ ExpiredIsOverdue /\ [OverlayNext]_overlayVars =>
        [\A c \in Registered \ (missed \cup {Self}) :
           LET s == store[c].ip IN
             /\ HostWatches
             /\ s \notin shared /\ via[s] = c /\ via'[s] # c
             => \/ store[c].exp < now
                \/ W!Awaited(c) \/ W!Of(modified, c, s) # {}]_overlayVars
  BY <1>1
<1>3. OverlaySpec => []ExpiredIsOverdue
  BY LeasesAreImplemented, MarksAreTrue, PTL
<1> QED
  BY <1>2, <1>3, BothHold, PTL DEF OverlaySpec, RoutesOutlastLeases

=============================================================================
