---------------------------- MODULE LeasesProofs ----------------------------
(***************************************************************************)
(* Proofs about Leases.                                                    *)
(***************************************************************************)
EXTENDS Leases, TLAPS

\* What the reaper's mark writes, if anything: the lease of its listing.
LEMMA MarkedRecord ==
  ASSUME TypeOK, NEW c \in Clients, NEW ok \in BOOLEAN, Mark(c, ok)
  PROVE  /\ snap[c] \in Lease /\ snap[c].exp < scanned /\ rpc = "scan"
         /\ snap' = [snap EXCEPT ![c] = NoLease]
         /\ UNCHANGED <<now, clientVars, rpc, stubs, scanned, history>>
         /\ \E q \in Lease : /\ SameLease(q, snap[c])
                            /\ store' \in {store, [store EXCEPT ![c] = q]}
<1>1. snap[c] \in Lease /\ snap[c].exp < scanned
  BY DEF TypeOK, Mark, Unhandled, Markable
<1> /\ rpc = "scan" /\ snap' = [snap EXCEPT ![c] = NoLease]
    /\ UNCHANGED <<now, clientVars, rpc, stubs, scanned, history>>
  BY DEF Mark
<1> DEFINE q == [snap[c] EXCEPT !.expired = TRUE]
<1>2. q \in Lease /\ SameLease(q, snap[c])
  BY <1>1 DEF Lease, SameLease
<1>3. store' \in {store, [store EXCEPT ![c] = q]}
  <2>1. CASE ok
    BY <2>1 DEF Mark
  <2>2. CASE ~ok
    BY <2>2 DEF Mark
  <2> QED
    BY <2>1, <2>2
<1> QED
  BY <1>1, <1>2, <1>3

\* The initial state has the right types, and every step keeps them.
LEMMA TypeInit == Init => TypeOK
BY ConstantsAssumption DEF Init, TypeOK, Time, Holds, HoldingStates, Lease

\* Every action keeps the types.
LEMMA TypeStep == TypeOK /\ [Next]_vars => TypeOK'
<1> SUFFICES ASSUME TypeOK, [Next]_vars PROVE TypeOK'
  OBVIOUS
<1> USE ConstantsAssumption DEF TypeOK, Time, Holds, HoldingStates, Registered
<1>1. CASE Tick
  BY <1>1 DEF Tick, reaperVars, history
<1>2. ASSUME NEW c \in Clients, GetSubnet(c) PROVE TypeOK'
  BY <1>2 DEF GetSubnet, Found, reaperVars, history
<1>3. ASSUME NEW c \in Clients, ListSubnets(c) PROVE TypeOK'
  BY <1>3 DEF ListSubnets, reaperVars
<1>4. ASSUME NEW c \in Clients, ReadSubnet(c) PROVE TypeOK'
  BY <1>4 DEF ReadSubnet, reaperVars, history, Lease
<1>5. ASSUME NEW c \in Clients, Allocate(c) PROVE TypeOK'
  BY <1>5 DEF Allocate, Available, Expiration, reaperVars, Lease
<1>6. ASSUME NEW c \in Clients, SetLocal(c) PROVE TypeOK'
  BY <1>6 DEF SetLocal, reaperVars, history
<1>7. ASSUME NEW c \in Clients, Publish(c) PROVE TypeOK'
  BY <1>7 DEF Publish, reaperVars, history, Lease
<1>8. ASSUME NEW c \in Clients, WriteCNI(c) PROVE TypeOK'
  BY <1>8 DEF WriteCNI, CNISubnet, reaperVars, history, Lease
<1>9. ASSUME NEW c \in Clients, Heartbeat(c) PROVE TypeOK'
  BY <1>9 DEF Heartbeat, HeartbeatRecord, reaperVars, history
<1>10. ASSUME NEW c \in Clients, HeartbeatFails(c) PROVE TypeOK'
  BY <1>10 DEF HeartbeatFails, HeartbeatRecord, reaperVars, history
<1>11. ASSUME NEW c \in Clients, Exit(c) PROVE TypeOK'
  BY <1>11 DEF Exit, reaperVars, history
<1>12. ASSUME NEW c \in Clients, Reboot(c) PROVE TypeOK'
  BY <1>12 DEF Reboot, reaperVars, history
<1>13. CASE ReaperList
  BY <1>13 DEF ReaperList, clientVars, history
<1>14. CASE ReaperScan
  BY <1>14 DEF ReaperScan, clientVars, history
<1>15. CASE ReaperDone
  BY <1>15 DEF ReaperDone, clientVars, history
<1>16. CASE ReaperStop
  BY <1>16 DEF ReaperStop, clientVars, history
<1>17. ASSUME NEW c \in Clients, ReaperRead(c) PROVE TypeOK'
  BY <1>17 DEF ReaperRead, clientVars, history
<1>18. ASSUME NEW c \in Clients, Keep(c) PROVE TypeOK'
  BY <1>18 DEF Keep, clientVars, history
<1>19. ASSUME NEW c \in Clients, NEW ok \in BOOLEAN, Delete(c, ok) PROVE TypeOK'
  BY <1>19 DEF Delete, clientVars
<1>20. ASSUME NEW c \in Clients, NEW ok \in BOOLEAN, Mark(c, ok) PROVE TypeOK'
  <2>1. PICK q \in Lease : store' \in {store, [store EXCEPT ![c] = q]}
    BY <1>20, MarkedRecord
  <2>2. /\ snap' = [snap EXCEPT ![c] = NoLease]
        /\ UNCHANGED <<now, clientVars, rpc, stubs, scanned, history>>
    BY <1>20, MarkedRecord
  <2> QED
    BY <2>1, <2>2 DEF clientVars, history
<1>21. CASE UNCHANGED vars
  BY <1>21 DEF vars, clientVars, reaperVars, history
<1> HIDE DEF TypeOK, Time, Holds, HoldingStates, Registered
<1> QED
  BY <1>1, <1>2, <1>3, <1>4, <1>5, <1>6, <1>7, <1>8, <1>9, <1>10, <1>11, <1>12, <1>13,
     <1>14, <1>15, <1>16, <1>17, <1>18, <1>19, <1>20, <1>21
     DEF Next, ClientStep, ReaperStep

\* Every step keeps the copies of a lease true to it.
LEMMA CopiesStep == IInv /\ TypeOK' /\ [Next]_vars => CopiesAgree'
<1> SUFFICES ASSUME IInv, TypeOK', [Next]_vars PROVE CopiesAgree'
  OBVIOUS
<1> USE ConstantsAssumption DEF IInv, TypeOK, CopiesAgree, MemAgrees, SnapAgrees,
  AllSound, Sound, SameLease, RecordFollowsState, Holds, HoldingStates, Registered,
  Unhandled, Time, clientVars, reaperVars, history
<1>1. CASE Tick
  <2>1. ASSUME NEW r \in Lease \cup {NoLease}, Sound(r) PROVE Sound(r)'
    BY <1>1, <2>1 DEF Tick, Lease
  <2> QED
    BY <1>1, <2>1 DEF Tick
<1>2. ASSUME NEW c \in Clients, GetSubnet(c) PROVE CopiesAgree'
  BY <1>2 DEF GetSubnet, Found
<1>3. ASSUME NEW c \in Clients, ListSubnets(c) PROVE CopiesAgree'
  BY <1>3 DEF ListSubnets
<1>4. ASSUME NEW c \in Clients, ReadSubnet(c) PROVE CopiesAgree'
  BY <1>4 DEF ReadSubnet
<1>5. ASSUME NEW c \in Clients, Allocate(c) PROVE CopiesAgree'
  BY <1>5 DEF Allocate, Available, Expiration, Lease
<1>6. ASSUME NEW c \in Clients, SetLocal(c) PROVE CopiesAgree'
  BY <1>6 DEF SetLocal
<1>7. ASSUME NEW c \in Clients, Publish(c) PROVE CopiesAgree'
  BY <1>7 DEF Publish, Lease
<1>8. ASSUME NEW c \in Clients, WriteCNI(c) PROVE CopiesAgree'
  BY <1>8 DEF WriteCNI, CNISubnet
<1>9. ASSUME NEW c \in Clients, Heartbeat(c) PROVE CopiesAgree'
  BY <1>9 DEF Heartbeat, HeartbeatRecord
<1>10. ASSUME NEW c \in Clients, HeartbeatFails(c) PROVE CopiesAgree'
  BY <1>10 DEF HeartbeatFails, HeartbeatRecord
<1>11. ASSUME NEW c \in Clients, Exit(c) PROVE CopiesAgree'
  BY <1>11 DEF Exit
<1>12. ASSUME NEW c \in Clients, Reboot(c) PROVE CopiesAgree'
  BY <1>12 DEF Reboot
<1>13. CASE ReaperList
  BY <1>13 DEF ReaperList
<1>14. CASE ReaperScan
  BY <1>14 DEF ReaperScan
<1>15. CASE ReaperDone
  BY <1>15 DEF ReaperDone
<1>16. CASE ReaperStop
  BY <1>16 DEF ReaperStop
<1>17. ASSUME NEW c \in Clients, ReaperRead(c) PROVE CopiesAgree'
  BY <1>17 DEF ReaperRead
<1>18. ASSUME NEW c \in Clients, Keep(c) PROVE CopiesAgree'
  BY <1>18 DEF Keep
<1>19. ASSUME NEW c \in Clients, NEW ok \in BOOLEAN, Delete(c, ok) PROVE CopiesAgree'
  BY <1>19 DEF Delete, Deletable
<1>20. ASSUME NEW c \in Clients, NEW ok \in BOOLEAN, Mark(c, ok) PROVE CopiesAgree'
  <2>1. PICK q \in Lease : /\ SameLease(q, snap[c])
                          /\ store' \in {store, [store EXCEPT ![c] = q]}
    BY <1>20, MarkedRecord
  <2>2. snap[c] \in Lease /\ snap[c].exp < scanned /\ c \in Registered
    BY <1>20, MarkedRecord DEF Mark
  <2>3. /\ snap' = [snap EXCEPT ![c] = NoLease]
        /\ UNCHANGED <<now, clientVars, rpc, stubs, scanned, history>>
    BY <1>20, MarkedRecord
  <2>4. Sound(q)'
    BY <2>1, <2>2, <2>3 DEF Lease
  <2>5. AllSound'
    BY <2>1, <2>2, <2>3, <2>4
  <2>6. MemAgrees' /\ SnapAgrees'
    BY <2>1, <2>2, <2>3
  <2>7. RecordFollowsState'
    BY <2>1, <2>2, <2>3
  <2> QED
    BY <2>5, <2>6, <2>7
<1>21. CASE UNCHANGED vars
  BY <1>21 DEF vars
<1> HIDE DEF IInv, TypeOK, CopiesAgree, MemAgrees, SnapAgrees,
  AllSound, Sound, SameLease, RecordFollowsState, Holds, HoldingStates, Registered,
  Unhandled, Time, clientVars, reaperVars, history
<1> QED
  BY <1>1, <1>2, <1>3, <1>4, <1>5, <1>6, <1>7, <1>8, <1>9, <1>10, <1>11, <1>12,
     <1>13, <1>14, <1>15, <1>16, <1>17, <1>18, <1>19, <1>20, <1>21
     DEF Next, ClientStep, ReaperStep

\* Every step keeps the allocations apart.
LEMMA AllocationsStep == IInv /\ TypeOK' /\ [Next]_vars => AllocationsAgree'
<1> SUFFICES ASSUME IInv, TypeOK', [Next]_vars PROVE AllocationsAgree'
  OBVIOUS
<1> USE ConstantsAssumption DEF IInv, TypeOK, CopiesAgree, MemAgrees, SnapAgrees,
  SameLease, RecordFollowsState, AllocationsAgree, OverlapIsRecorded,
  ReadingMissesOnlyRaces, ClaimsAreDisjoint, Claims, Claimed, Allocating, Holds,
  HoldingStates, Registered, Unhandled, clientVars, reaperVars, history
<1>1. CASE Tick
  BY <1>1 DEF Tick
<1>2. ASSUME NEW c \in Clients, GetSubnet(c) PROVE AllocationsAgree'
  BY <1>2 DEF GetSubnet, Found
<1>3. ASSUME NEW c \in Clients, ListSubnets(c) PROVE AllocationsAgree'
  BY <1>3 DEF ListSubnets
<1>4. ASSUME NEW c \in Clients, ReadSubnet(c) PROVE AllocationsAgree'
  BY <1>4 DEF ReadSubnet
<1>5. ASSUME NEW c \in Clients, Allocate(c) PROVE AllocationsAgree'
  <2>1. OverlapIsRecorded'
    BY <1>5 DEF Allocate, Available, Expiration, Lease
  <2>2. ReadingMissesOnlyRaces'
    BY <1>5 DEF Allocate, Available, Expiration, Lease
  <2>3. ClaimsAreDisjoint'
    <3>1. /\ pc[c] = "read" /\ todo[c] = {} /\ store' = store /\ raced' = raced
          /\ orphaned' = orphaned \ {c}
          /\ mem'[c].ip \notin used[c]
          /\ pc'[c] = "local"
          /\ \A d \in Clients \ {c} : pc'[d] = pc[d] /\ mem'[d] = mem[d]
      BY <1>5 DEF Allocate, Available, Lease
    <3>2. c \notin Registered /\ Claimed(c)' = mem'[c].ip /\ Allocating(c)
      BY <3>1
    <3>3. \A d \in Clients \ {c} : (Claims(d)' <=> Claims(d)) /\ Claimed(d)' = Claimed(d)
      BY <3>1
    <3>4. ASSUME NEW d \in Clients \ {c}, Claims(d), Claimed(d) = mem'[c].ip
          PROVE  {c, d} \in raced \/ d \in orphaned
      <4>1. CASE d \in Registered
        BY <3>1, <3>4, <4>1
      <4>2. CASE d \notin Registered
        BY <3>2, <3>4, <4>2
      <4> QED
        BY <4>1, <4>2
    <3>5. \A d \in Clients : {c, d} = {d, c}
      OBVIOUS
    <3> HIDE DEF Claims, Claimed
    <3> QED
      BY <3>1, <3>2, <3>3, <3>4, <3>5
  <2> QED
    BY <2>1, <2>2, <2>3
<1>6. ASSUME NEW c \in Clients, SetLocal(c) PROVE AllocationsAgree'
  BY <1>6 DEF SetLocal
<1>7. ASSUME NEW c \in Clients, Publish(c) PROVE AllocationsAgree'
  <2>1. OverlapIsRecorded'
    BY <1>7 DEF Publish, Lease
  <2>2. ReadingMissesOnlyRaces'
    BY <1>7 DEF Publish, Lease
  <2>3. ClaimsAreDisjoint'
    <3>1. /\ store'[c].ip = mem[c].ip /\ c \in Registered'
          /\ \A d \in Clients \ {c} : pc'[d] = pc[d] /\ store'[d] = store[d]
          /\ UNCHANGED <<mem, raced, orphaned>>
      BY <1>7 DEF Publish, Lease
    <3>2. c \in orphaned \/ (Claims(c) /\ Claimed(c) = mem[c].ip)
      BY <1>7 DEF Publish
    <3>3. Claimed(c)' = mem[c].ip
      BY <3>1
    <3>4. \A d \in Clients \ {c} : (Claims(d)' <=> Claims(d)) /\ Claimed(d)' = Claimed(d)
      BY <3>1
    <3> HIDE DEF Claims, Claimed
    <3> QED
      BY <3>1, <3>2, <3>3, <3>4
  <2> QED
    BY <2>1, <2>2, <2>3
<1>8. ASSUME NEW c \in Clients, WriteCNI(c) PROVE AllocationsAgree'
  BY <1>8 DEF WriteCNI, CNISubnet
<1>9. ASSUME NEW c \in Clients, Heartbeat(c) PROVE AllocationsAgree'
  BY <1>9 DEF Heartbeat, HeartbeatRecord
<1>10. ASSUME NEW c \in Clients, HeartbeatFails(c) PROVE AllocationsAgree'
  BY <1>10 DEF HeartbeatFails, HeartbeatRecord
<1>11. ASSUME NEW c \in Clients, Exit(c) PROVE AllocationsAgree'
  BY <1>11 DEF Exit
<1>12. ASSUME NEW c \in Clients, Reboot(c) PROVE AllocationsAgree'
  BY <1>12 DEF Reboot
<1>13. CASE ReaperList
  BY <1>13 DEF ReaperList
<1>14. CASE ReaperScan
  BY <1>14 DEF ReaperScan
<1>15. CASE ReaperDone
  BY <1>15 DEF ReaperDone
<1>16. CASE ReaperStop
  BY <1>16 DEF ReaperStop
<1>17. ASSUME NEW c \in Clients, ReaperRead(c) PROVE AllocationsAgree'
  BY <1>17 DEF ReaperRead
<1>18. ASSUME NEW c \in Clients, Keep(c) PROVE AllocationsAgree'
  BY <1>18 DEF Keep
<1>19. ASSUME NEW c \in Clients, NEW ok \in BOOLEAN, Delete(c, ok) PROVE AllocationsAgree'
  <2>1. CASE ~ok
    BY <1>19, <2>1 DEF Delete
  <2>2. CASE ok
    <3>1. /\ Registered' = Registered \ {c}
          /\ \A d \in Clients \ {c} : store'[d] = store[d]
          /\ orphaned' = orphaned \cup (IF Holds(c) THEN {c} ELSE {})
          /\ UNCHANGED <<pc, mem, todo, used, raced>>
      BY <1>19, <2>2 DEF Delete
    <3>2. \A d \in Clients : Allocating(d)' => Allocating(d)
      BY <3>1
    <3>3. \A d \in Clients : Claims(d)' => Claims(d) /\ Claimed(d)' = Claimed(d)
      BY <3>1
    <3>4. OverlapIsRecorded'
      BY <3>1, <3>2
    <3>5. ReadingMissesOnlyRaces'
      BY <3>1
    <3> HIDE DEF Claims, Claimed
    <3>6. ClaimsAreDisjoint'
      BY <3>1, <3>3
    <3> QED
      BY <3>4, <3>5, <3>6
  <2> QED
    BY <2>1, <2>2
<1>20. ASSUME NEW c \in Clients, NEW ok \in BOOLEAN, Mark(c, ok) PROVE AllocationsAgree'
  <2>1. PICK q \in Lease : /\ SameLease(q, snap[c])
                          /\ store' \in {store, [store EXCEPT ![c] = q]}
    BY <1>20, MarkedRecord
  <2>2. snap[c] \in Lease /\ snap[c].exp < scanned /\ c \in Registered
    BY <1>20, MarkedRecord DEF Mark
  <2>3. /\ snap' = [snap EXCEPT ![c] = NoLease]
        /\ UNCHANGED <<now, clientVars, rpc, stubs, scanned, history>>
    BY <1>20, MarkedRecord
  <2>4. Registered' = Registered /\ \A d \in Registered : store'[d].ip = store[d].ip
    BY <2>1, <2>2
  <2>5. OverlapIsRecorded'
    BY <2>3, <2>4
  <2>6. ReadingMissesOnlyRaces'
    BY <2>3, <2>4
  <2>7. ClaimsAreDisjoint'
    BY <2>3, <2>4
  <2> QED
    BY <2>5, <2>6, <2>7
<1>21. CASE UNCHANGED vars
  BY <1>21 DEF vars
<1> HIDE DEF IInv, TypeOK, CopiesAgree, MemAgrees, SnapAgrees,
  SameLease, RecordFollowsState, AllocationsAgree, OverlapIsRecorded,
  ReadingMissesOnlyRaces, ClaimsAreDisjoint, Claims, Claimed, Allocating, Holds,
  HoldingStates, Registered, Unhandled, clientVars, reaperVars, history
<1> QED
  BY <1>1, <1>2, <1>3, <1>4, <1>5, <1>6, <1>7, <1>8, <1>9, <1>10, <1>11, <1>12,
     <1>13, <1>14, <1>15, <1>16, <1>17, <1>18, <1>19, <1>20, <1>21
     DEF Next, ClientStep, ReaperStep

\* Leases is type correct.
THEOREM TypeCorrect == Spec => []TypeOK
BY TypeInit, TypeStep, PTL DEF Spec

\* Without records and copies there is nothing to disagree.
LEMMA InvInit == Init => IInv
BY TypeInit
   DEF Init, IInv, CopiesAgree, MemAgrees, SnapAgrees, AllSound, Sound, RecordFollowsState,
       AllocationsAgree, OverlapIsRecorded, ReadingMissesOnlyRaces, ClaimsAreDisjoint,
       Claims, Claimed, Allocating, Registered, Unhandled

\* The inductive invariant.
THEOREM Invariance == Spec => []IInv
<1>1. IInv /\ [Next]_vars => IInv'
  BY TypeStep, CopiesStep, AllocationsStep DEF IInv
<1> QED
  BY InvInit, <1>1, PTL DEF Spec

-----------------------------------------------------------------------------
(* The invariants the runs check.                                          *)

\* A mark never comes early: ExpiredIsOverdue holds of every behaviour.
THEOREM MarksAreTrue == Spec => []ExpiredIsOverdue
<1>1. IInv => ExpiredIsOverdue
  BY DEF IInv, CopiesAgree, AllSound, Sound, ExpiredIsOverdue, Registered
<1> QED
  BY Invariance, <1>1, PTL

\* Every duplicate subnet comes from overlapping allocations or from a record
\* deleted under its holder: DuplicateNeedsRaceOrReap holds of every behaviour.
THEOREM DuplicatesAreExplained == Spec => []DuplicateNeedsRaceOrReap
<1>1. IInv => DuplicateNeedsRaceOrReap
  BY DEF IInv, AllocationsAgree, ClaimsAreDisjoint, Claims, Claimed,
         DuplicateNeedsRaceOrReap, Registered
<1> QED
  BY Invariance, <1>1, PTL

\* A running client's CNI configuration is that of its record.
THEOREM CNIAgrees == Spec => []CNIMatchesRecord
<1>1. IInv => CNIMatchesRecord
  BY DEF IInv, CopiesAgree, MemAgrees, RecordFollowsState, SameLease,
         CNIMatchesRecord, Registered, Holds, HoldingStates
<1> QED
  BY Invariance, <1>1, PTL

-----------------------------------------------------------------------------
(* What a step may do to the store, and what follows from it.              *)

\* A write of one client's record: sound, and the lease that is registered.
Rewrites(c, r) ==
  /\ store' = [store EXCEPT ![c] = r]
  /\ Sound(r)
  /\ c \in Registered => SameLease(r, store[c])

\* A deletion of one client's record, past the threshold.
Removes(c) ==
  /\ c \in Registered
  /\ store' = [store EXCEPT ![c] = NoLease]
  /\ store[c].exp + Threshold < now

StoreStep ==
  \/ now < MaxTime /\ now' = now + 1 /\ store' = store
  \/ now' = now /\ store' = store
  \/ now' = now /\ \E c \in Clients, r \in Lease : Rewrites(c, r)
  \/ now' = now /\ \E c \in Clients : Removes(c)

\* Whatever an actor does, and from whatever stale copy, the store sees one of
\* these.
LEMMA EveryStepIsAStoreStep == IInv /\ [Next]_vars => StoreStep
<1> SUFFICES ASSUME IInv, [Next]_vars PROVE StoreStep
  OBVIOUS
<1> USE DEF IInv, TypeOK, CopiesAgree, MemAgrees, SnapAgrees, AllSound, StoreStep,
            Holds, HoldingStates
<1>1. CASE Tick
  BY <1>1 DEF Tick
<1>2. ASSUME NEW c \in Clients,
             \/ GetSubnet(c) \/ ListSubnets(c) \/ ReadSubnet(c) \/ Allocate(c)
             \/ SetLocal(c) \/ WriteCNI(c) \/ Exit(c) \/ Reboot(c)
      PROVE  StoreStep
  BY <1>2 DEF GetSubnet, ListSubnets, ReadSubnet, Allocate, SetLocal, WriteCNI, Exit, Reboot
<1>3. ASSUME NEW c \in Clients, Publish(c) PROVE StoreStep
  <2> DEFINE r == [mem[c] EXCEPT !.mac = dev[c]]
  <2>1. now' = now /\ store' = [store EXCEPT ![c] = r]
    BY <1>3 DEF Publish
  <2>2. mem[c] \in Lease /\ r \in Lease /\ SameLease(r, mem[c]) /\ r.expired = mem[c].expired
    BY <1>3 DEF Publish, Lease, SameLease
  <2>3. Sound(r) /\ (c \in Registered => SameLease(r, store[c]))
    BY <1>3, <2>2, ConstantsAssumption DEF Publish, Sound, SameLease
  <2> QED
    BY <2>1, <2>2, <2>3 DEF Rewrites
<1>4. ASSUME NEW c \in Clients, Heartbeat(c) \/ HeartbeatFails(c) PROVE StoreStep
  <2>1. now' = now /\ \E r \in {store[c], mem[c]} : store' = [store EXCEPT ![c] = r]
    BY <1>4 DEF Heartbeat, HeartbeatFails, HeartbeatRecord
  <2>2. mem[c] \in Lease /\ Sound(mem[c]) /\ (c \in Registered => SameLease(mem[c], store[c]))
    BY <1>4 DEF Heartbeat, HeartbeatFails
  <2>3. CASE store' = [store EXCEPT ![c] = mem[c]]
    BY <2>1, <2>2, <2>3 DEF Rewrites
  <2>4. CASE store' = [store EXCEPT ![c] = store[c]]
    BY <2>1, <2>4
  <2> QED
    BY <2>1, <2>3, <2>4
<1>5. CASE ReaperList \/ ReaperScan \/ ReaperDone \/ ReaperStop
  BY <1>5 DEF ReaperList, ReaperScan, ReaperDone, ReaperStop
<1>6. ASSUME NEW c \in Clients, ReaperRead(c) \/ Keep(c) PROVE StoreStep
  BY <1>6 DEF ReaperRead, Keep
<1>7. ASSUME NEW c \in Clients, NEW ok \in BOOLEAN, Delete(c, ok) PROVE StoreStep
  <2>1. CASE ~ok
    BY <1>7, <2>1 DEF Delete
  <2>2. CASE ok
    <3>1. now' = now /\ c \in Registered /\ store' = [store EXCEPT ![c] = NoLease]
      BY <1>7, <2>2 DEF Delete
    <3>2. snap[c].exp + Threshold < scanned /\ snap[c].exp = store[c].exp /\ scanned <= now
      BY <1>7 DEF Delete, Deletable, SameLease
    <3>3. store[c].exp \in Nat /\ scanned \in Nat /\ now \in Nat /\ Threshold \in Nat
      BY <3>1, ConstantsAssumption DEF Registered, Lease, Time
    <3>4. store[c].exp + Threshold < scanned
      BY <3>2
    <3>5. store[c].exp + Threshold < now
      BY <3>2, <3>3, <3>4
    <3> QED
      BY <3>1, <3>5 DEF Removes
  <2> QED
    BY <2>1, <2>2
<1>8. ASSUME NEW c \in Clients, NEW ok \in BOOLEAN, Mark(c, ok) PROVE StoreStep
  <2>1. PICK q \in Lease : /\ SameLease(q, snap[c])
                           /\ store' \in {store, [store EXCEPT ![c] = q]}
    BY <1>8, MarkedRecord
  <2>2. snap[c] \in Lease /\ snap[c].exp < scanned /\ now' = now
    BY <1>8, MarkedRecord
  <2>3. SameLease(q, store[c])
    BY <1>8, <2>1 DEF Mark, SameLease
  <2>4. Sound(q)
    BY <2>1, <2>2, ConstantsAssumption DEF Sound, SameLease, Lease, Time
  <2> QED
    BY <2>1, <2>2, <2>3, <2>4 DEF Rewrites
<1>9. CASE UNCHANGED vars
  BY <1>9 DEF vars
<1> QED
  BY <1>1, <1>2, <1>3, <1>4, <1>5, <1>6, <1>7, <1>8, <1>9 DEF Next, ClientStep, ReaperStep

\* No write moves a registered lease: LeaseIsStable holds of every behaviour.
THEOREM LeasesAreStable == Spec => LeaseIsStable
<1>1. TypeOK /\ StoreStep
        => \A c \in Registered \cap Registered' :
             store'[c].ip = store[c].ip /\ store'[c].exp = store[c].exp
  BY DEF TypeOK, StoreStep, Rewrites, Removes, SameLease, Registered
<1>2. IInv /\ [Next]_vars
        => [\A c \in Registered \cap Registered' :
             store'[c].ip = store[c].ip /\ store'[c].exp = store[c].exp]_vars
  BY <1>1, EveryStepIsAStoreStep DEF IInv
<1> QED
  BY Invariance, <1>2, PTL DEF Spec, LeaseIsStable

\* No record is deleted before its time: ReapOnlyPastThreshold holds of every
\* behaviour, although the reaper deletes from a listing.
THEOREM ReapsAreLate == Spec => ReapOnlyPastThreshold
<1>1. TypeOK /\ StoreStep
        => \A c \in Registered \ Registered' : store[c].exp + Threshold < now
  BY ConstantsAssumption DEF TypeOK, StoreStep, Rewrites, Removes, Registered, Lease
<1>2. IInv /\ [Next]_vars
        => [\A c \in Registered \ Registered' : store[c].exp + Threshold < now]_vars
  BY <1>1, EveryStepIsAStoreStep DEF IInv
<1> QED
  BY Invariance, <1>2, PTL DEF Spec, ReapOnlyPastThreshold

-----------------------------------------------------------------------------
(* Leases implements LeaseRegistry.                                        *)

lease == [c \in Clients |-> Advert(store[c])]

\* What the readers of a record see of it.
LEMMA AdvertOfLease ==
  ASSUME NEW r \in Lease
  PROVE  /\ Advert(r) = [ip |-> r.ip, exp |-> r.exp, expired |-> r.expired]
         /\ Advert(r) \in [ip : Slots, exp : Nat, expired : BOOLEAN]
         /\ Advert(r) # NoLease
BY ConstantsAssumption DEF Advert, Lease

\* A rewritten record registers the lease, or sets its mark.
LEMMA RewriteImplements ==
  ASSUME TypeOK, now' = now, NEW c \in Clients, NEW r \in Lease, Rewrites(c, r)
  PROVE  Registry!Next
<1>1. lease' = [lease EXCEPT ![c] = Advert(r)]
  BY DEF lease, Rewrites, TypeOK, Advert
<1>2. r.exp \in 0 .. now + TTL /\ (r.expired => r.exp < now)
  BY ConstantsAssumption DEF Rewrites, Sound, Lease, TypeOK, Time
<1>3. CASE c \notin Registered
  <2>1. lease[c] = NoLease
    BY <1>3 DEF lease, Registered, Advert
  <2>2. Advert(r) \in Registry!Entry(0 .. now + TTL)
    BY <1>2, AdvertOfLease DEF Registry!Entry, Lease
  <2>3. Advert(r).expired => Advert(r).exp < now
    BY <1>2, AdvertOfLease
  <2>4. /\ lease[c] = NoLease
        /\ \E q \in Registry!Entry(0 .. now + TTL) :
             (q.expired => q.exp < now) /\ lease' = [lease EXCEPT ![c] = q]
    BY <1>1, <2>1, <2>2, <2>3
  <2>5. Registry!Register(c)
    BY <2>4 DEF Registry!Register, lease
  <2> QED
    BY <2>5 DEF Registry!Next
<1>4. CASE c \in Registered
  <2>1. store[c] \in Lease /\ SameLease(r, store[c])
    BY <1>4 DEF Registered, TypeOK, Rewrites
  <2>2. lease[c] = [ip |-> store[c].ip, exp |-> store[c].exp, expired |-> store[c].expired]
        /\ lease[c] # NoLease
    BY <2>1, AdvertOfLease DEF lease
  <2>3. Advert(r) = [ip |-> store[c].ip, exp |-> store[c].exp, expired |-> r.expired]
    BY <2>1, AdvertOfLease DEF SameLease
  <2>4. lease' = [lease EXCEPT ![c].expired = r.expired]
    <3>1. [lease[c] EXCEPT !.expired = r.expired] = Advert(r)
      BY <2>2, <2>3
    <3> QED
      BY <1>1, <3>1
  <2>5. r.expired \in BOOLEAN /\ (r.expired => lease[c].exp < now)
    BY <1>2, <2>1, <2>2 DEF SameLease, Lease
  <2>6. Registry!SetMark(c, r.expired)
    BY <2>2, <2>4, <2>5 DEF Registry!SetMark, lease
  <2> QED
    BY <2>5, <2>6 DEF Registry!Next
<1> QED
  BY <1>3, <1>4

\* The store of Leases is a LeaseRegistry: initially, and in every step.
THEOREM RegistryIsImplemented == Spec => ImplementsRegistry
<1>1. Init => Registry!Init
  BY DEF Init, Registry!Init, Advert
<1>2. TypeOK /\ StoreStep => [Registry!Next]_<<now, lease>>
  <2> SUFFICES ASSUME TypeOK, StoreStep PROVE [Registry!Next]_<<now, lease>>
    OBVIOUS
  <2>1. CASE now < MaxTime /\ now' = now + 1 /\ store' = store
    BY <2>1 DEF Registry!Next, Registry!Tick, lease
  <2>2. CASE now' = now /\ store' = store
    BY <2>2 DEF lease
  <2>3. ASSUME now' = now, NEW c \in Clients, NEW r \in Lease, Rewrites(c, r)
        PROVE  Registry!Next
    BY <2>3, RewriteImplements
  <2>4. ASSUME now' = now, NEW c \in Clients, Removes(c)
        PROVE  Registry!Next
    <3>1. store[c] \in Lease
      BY <2>4 DEF Removes, Registered, TypeOK
    <3>2. lease[c] # NoLease /\ lease[c].exp = store[c].exp
      BY <3>1, AdvertOfLease DEF lease
    <3>3. lease' = [lease EXCEPT ![c] = NoLease]
      BY <2>4 DEF lease, Removes, TypeOK, Advert
    <3>4. Registry!Remove(c)
      BY <2>4, <3>2, <3>3 DEF Removes, Registry!Remove, lease
    <3> QED
      BY <3>4 DEF Registry!Next
  <2> QED
    BY <2>1, <2>2, <2>3, <2>4 DEF StoreStep
<1>3. IInv /\ [Next]_vars => [Registry!Next]_<<now, lease>>
  BY <1>2, EveryStepIsAStoreStep DEF IInv
<1> QED
  BY Invariance, <1>1, <1>3, PTL DEF Spec, ImplementsRegistry, Registry!Spec, lease
=============================================================================
