-------------------------- MODULE VxlanRoutesProofs --------------------------
(***************************************************************************)
(* Proofs about VxlanRoutes: the calls are in order, and therefore they    *)
(* implement the routes of SubnetWatch, whose invariant then holds of the  *)
(* routes of the kernel.                                                   *)
(***************************************************************************)
EXTENDS VxlanRoutes, TLAPS

WP == INSTANCE SubnetWatchProofs WITH via <- Via

-----------------------------------------------------------------------------
(* The module of proofs speaks of the same watcher.                        *)

\* Its assumption is the one of this module.
LEMMA WatchAssumed == WP!ConstantsAssumption
BY WatchAssumption DEF W!ConstantsAssumption, WP!ConstantsAssumption, W!Record, WP!Record

\* Its types are.
LEMMA SameTypes == (WP!TypeOK <=> W!TypeOK) /\ (WP!TypeOK' <=> W!TypeOK')
BY DEF W!TypeOK, WP!TypeOK, W!Record, WP!Record, W!Item, WP!Item

\* Its initial states are.
LEMMA SameInit == WP!Init <=> W!Init
BY DEF W!Init, WP!Init

\* Its steps are.
LEMMA SameNext == [WP!Next]_(WP!vars) <=> [W!Next]_(W!vars)
BY DEF W!Next, WP!Next, W!vars, WP!vars, W!watcher, WP!watcher, W!handler, WP!handler,
       W!history, WP!history, W!Registered, WP!Registered, W!Records, WP!Records,
       W!Watch, WP!Watch, W!Handle, WP!Handle, W!Register, WP!Register, W!Rewrite, WP!Rewrite,
       W!Delete, WP!Delete, W!Change, WP!Change, W!List, WP!List, W!Fresh, WP!Fresh, W!ToSend, WP!ToSend,
       W!ListFails, WP!ListFails, W!Retry, WP!Retry, W!Read, WP!Read,
       W!ReadFails, WP!ReadFails, W!EndOfReads, WP!EndOfReads, W!Seen, WP!Seen,
       W!ReceiveError, WP!ReceiveError, W!ReceiveExpired, WP!ReceiveExpired,
       W!ReceiveModified, WP!ReceiveModified, W!IsLocal, WP!IsLocal,
       W!HandleLocal, WP!HandleLocal, W!HandleSet, WP!HandleSet,
       W!HandleDelete, WP!HandleDelete, W!EndOfBatch, WP!EndOfBatch,
       W!Restart, WP!Restart, W!Unhandled, WP!Unhandled

\* Its invariant is the watcher's.
LEMMA SameIInv == WP!IInv <=> W!IInv
BY SameTypes
   DEF W!IInv, WP!IInv, W!NoRouteToSelf, WP!NoRouteToSelf, W!WatcherIsIdle, WP!WatcherIsIdle,
       W!IndexIsLatest, WP!IndexIsLatest, W!SharedIsRecorded, WP!SharedIsRecorded,
       W!ReadsAgree, WP!ReadsAgree, W!ChangesAreOnTheirWay, WP!ChangesAreOnTheirWay,
       W!RoutesAreHeld, WP!RoutesAreHeld, W!Registered, WP!Registered, W!Awaited, WP!Awaited,
       W!FreshReadsAgree, WP!FreshReadsAgree, W!LatestIsOnItsWay, WP!LatestIsOnItsWay,
       W!Latest, WP!Latest, W!Of, WP!Of, W!Settled, WP!Settled, W!Holds, WP!Holds, W!Unhandled, WP!Unhandled

-----------------------------------------------------------------------------
(* The calls, and the refinement.                                          *)

\* No entry is there at the beginning, and no call.
LEMMA KernelInit == Init => KernelInv /\ W!Init
BY WatchAssumption
   DEF Init, KernelInv, TypeOK, CallIsInOrder, SelfIsAbsent, NoneIsShared, RoutesHaveNeighbours,
       DevicesAreOwn, W!Init, W!TypeOK, W!Registered, W!ConstantsAssumption, W!Record, W!Item, Via

\* The steps of the watcher, and of the handler without the kernel.
Rest ==
  /\ UNCHANGED <<call, kernel>>
  /\ \/ \E c \in Clients \ {Self} :
          \/ W!Register(c) /\ shared' = {} /\ Own(c, rec'[c].data)
          \/ W!Rewrite(c) /\ Own(c, rec'[c].data)
          \/ W!Delete(c)
     \/ \E c \in Clients : W!Read(c) \/ W!ReadFails(c)
     \/ W!List \/ W!ListFails \/ W!Retry \/ W!EndOfReads
     \/ W!ReceiveError \/ W!ReceiveExpired \/ W!ReceiveModified
     \/ call = NoCall /\ W!EndOfBatch

\* The steps of a call.
Call == Begin("set") \/ Begin("delete") \/ Set \/ DeleteCall

\* Every step is a call of the kernel's, a restart, or the watcher's.
LEMMA NextIs == [Next]_vars => Rest \/ Call \/ Restart \/ UNCHANGED vars
BY DEF Next, Rest, Call, Register, Rewrite, Delete, Watch, Receive

\* The steps other than calls are those of the watcher.
LEMMA RestRefines ==
  ASSUME Rest \/ Restart \/ UNCHANGED vars
  PROVE  [W!Next]_(W!vars)
<1>1. CASE Rest
  BY <1>1 DEF Rest, W!Next, W!Records, W!Watch, W!Handle
<1>2. CASE Restart
  BY <1>2 DEF Restart, W!Next
<1>3. CASE UNCHANGED vars
  BY <1>3 DEF vars, records, kernel, Via, W!vars, W!watcher, W!handler, W!history
<1> QED
  BY <1>1, <1>2, <1>3

\* A call of the kernel moves one route or none.
LEMMA CallRefines ==
  ASSUME KernelInv, Call
  PROVE  [W!Next]_(W!vars)
<1> USE DEF KernelInv, TypeOK, CallIsInOrder, SelfIsAbsent, W!TypeOK, W!Item, At, Handled,
            records, kernel, W!vars, W!watcher, W!handler, W!history, W!IsLocal
<1>0. ASSUME call # NoCall
      PROVE  /\ call.item \in W!Item /\ call.item.data.mac \in MACs
             /\ Owner[call.item.data.mac] = call.item.client
  BY <1>0, VtepAssumption DEF DevicesAreOwn, Own, Data
<1> DEFINE Stutter == UNCHANGED W!vars
           Handles == W!HandleSet \/ W!HandleDelete
<1>1. Begin("set") \/ Begin("delete") => Stutter
  BY DEF Begin, Via
<1>2. ASSUME NEW i \in batch, SetFails(i), hpc = "set" PROVE Handles
  BY <1>2 DEF SetFails, W!HandleSet, Via
<1>3. SetRefused => Handles
  BY <1>2 DEF SetRefused
<1>4. SetFDB => Stutter
  BY DEF SetFDB, Via
<1>5. SetARP => Stutter \/ Handles
  <2> SUFFICES ASSUME SetARP PROVE Stutter \/ Handles
    OBVIOUS
  <2>1. CASE call.item.ip \in route
    <3>1. Via' = [Via EXCEPT ![call.item.ip] = call.item.client]
      BY <1>0, <2>1 DEF SetARP, Via
    <3> QED
      BY <2>1, <3>1 DEF SetARP, W!HandleSet
  <2>2. CASE call.item.ip \notin route
    <3>1. Via' = Via
      BY <2>2 DEF SetARP, Via
    <3> QED
      BY <2>2, <3>1 DEF SetARP
  <2> QED
    BY <2>1, <2>2
<1>6. SetRoute => Stutter \/ Handles
  <2> SUFFICES ASSUME SetRoute PROVE Stutter \/ Handles
    OBVIOUS
  <2>1. CASE call.item \in batch
    <3>1. Via' = [Via EXCEPT ![call.item.ip] = call.item.client]
      BY <1>0, <2>1 DEF SetRoute, Via
    <3> QED
      BY <2>1, <3>1 DEF SetRoute, W!HandleSet
  <2>2. CASE call.item \notin batch
    <3>1. Via' = Via /\ batch' = batch
      BY <2>2 DEF SetRoute, Via
    <3> QED
      BY <2>2, <3>1 DEF SetRoute
  <2> QED
    BY <2>1, <2>2
<1>7. SetStepFails => Stutter \/ Handles
  BY <1>2 DEF SetStepFails, Via
<1>8. ASSUME NEW i \in batch, DeleteFails(i), hpc = "delete" PROVE Handles
  <2>1. CASE i.ip \in route
    <3>1. Via' = Via /\ Via[i.ip] # NoClient
      BY <1>8, <2>1, OwnerAssumption, WatchAssumption
         DEF DeleteFails, Via, RoutesHaveNeighbours, W!ConstantsAssumption
    <3> QED
      BY <1>8, <2>1, <3>1 DEF DeleteFails, W!HandleDelete
  <2>2. CASE i.ip \notin route
    <3>1. Via' = [Via EXCEPT ![i.ip] = NoClient]
      BY <1>8, <2>2 DEF DeleteFails, Via
    <3> QED
      BY <1>8, <2>2, <3>1 DEF DeleteFails, W!HandleDelete
  <2> QED
    BY <2>1, <2>2
<1>9. DeleteRefused => Handles
  BY <1>8 DEF DeleteRefused
<1>10. DeleteRoute => Handles
  <2> SUFFICES ASSUME DeleteRoute PROVE Handles
    OBVIOUS
  <2>1. Via' = [Via EXCEPT ![call.item.ip] = NoClient]
    BY DEF DeleteRoute, Via
  <2> QED
    BY <2>1 DEF DeleteRoute, W!HandleDelete
<1>11. DeleteRouteFails => Handles
  BY <1>8 DEF DeleteRouteFails
<1>12. DeleteARP => Stutter
  BY DEF DeleteARP, Via
<1>13. DeleteFDB \/ DeleteNeighFails => Stutter
  BY DEF DeleteFDB, DeleteNeighFails, Via
<1>14. Stutter \/ Handles
  BY <1>1, <1>3, <1>4, <1>5, <1>6, <1>7, <1>9, <1>10, <1>11, <1>12, <1>13
     DEF Call, Set, DeleteCall
<1> QED
  BY <1>14 DEF W!Next, W!Handle

\* Every step is one of the watcher, or nothing as far as routes go.
LEMMA StepRefines ==
  ASSUME KernelInv, [Next]_vars
  PROVE  [W!Next]_(W!vars)
BY NextIs, RestRefines, CallRefines

\* The calls keep entries, items and history of the right types.
LEMMA TypesStep ==
  ASSUME KernelInv, [Next]_vars
  PROVE  TypeOK'
<1>1. W!TypeOK'
  <2>1. WP!TypeOK /\ [WP!Next]_(WP!vars)
    BY StepRefines, SameTypes, SameNext DEF KernelInv, TypeOK
  <2>2. WP!Step
    BY <2>1, WatchAssumed, WP!StepIsNext
  <2> QED
    BY <2>1, <2>2, WatchAssumed, WP!TypesStep, SameTypes
<1> USE DEF KernelInv, TypeOK, W!Item, GoOn, SetOrder, DeleteOrder, At, Entries, records, kernel
<1>2. UNCHANGED <<call, kernel>> \/ Restart => TypeOK'
  BY <1>1 DEF Restart
<1>3. Begin("set") \/ Begin("delete") => TypeOK'
  BY <1>1 DEF Begin, W!TypeOK
<1>4. Set => TypeOK'
  BY <1>1, VtepAssumption DEF DevicesAreOwn, Data, Set, SetRefused, SetFDB, SetARP, SetRoute, SetStepFails, SetFails
<1>5. DeleteCall => TypeOK'
  BY <1>1 DEF DeleteCall, DeleteRefused, DeleteRoute, DeleteRouteFails, DeleteARP, DeleteFDB,
     DeleteNeighFails, DeleteFails
<1> QED
  BY NextIs, <1>2, <1>3, <1>4, <1>5 DEF Rest, Call, vars

\* The host's own record is not there, nor is it on its way.
LEMMA AbsentStep ==
  ASSUME KernelInv, [Next]_vars
  PROVE  SelfIsAbsent'
<1> USE DEF KernelInv, TypeOK, W!TypeOK, SelfIsAbsent, W!Registered, records, kernel, W!handler,
            W!watcher, W!history
<1>1. CASE Rest
  <2>1. ASSUME NEW c \in Clients \ {Self}, W!Register(c) \/ W!Rewrite(c) \/ W!Delete(c)
        PROVE  SelfIsAbsent'
    BY <2>1, WatchAssumption
       DEF W!ConstantsAssumption, W!Register, W!Rewrite, W!Delete, W!Change
  <2>2. ASSUME NEW c \in Clients, W!Read(c) PROVE SelfIsAbsent'
    <3>1. c # Self /\ stubs' = stubs \ {c}
      BY <2>2 DEF W!Read
    <3>2. \A i \in expired' \cup modified' : i \in expired \cup modified \/ i.client = c
      BY <2>2 DEF W!Read
    <3> QED
      BY <2>2, <3>1, <3>2 DEF W!Read
  <2> QED
    BY <1>1, <2>1, <2>2
       DEF Rest, W!ReadFails, W!List, W!ListFails, W!Retry, W!EndOfReads, W!ReceiveError,
           W!ReceiveExpired, W!ReceiveModified, W!EndOfBatch
<1>2. CASE Call
  BY <1>2 DEF Call, Begin, Set, SetRefused, SetFDB, SetARP, SetRoute, SetStepFails, SetFails,
     DeleteCall, DeleteRefused, DeleteRoute, DeleteRouteFails, DeleteARP, DeleteFDB,
     DeleteNeighFails, DeleteFails, Handled
<1>3. CASE Restart
  BY <1>3 DEF Restart, W!Restart
<1>4. CASE UNCHANGED vars
  BY <1>4 DEF vars
<1> QED
  BY NextIs, <1>1, <1>2, <1>3, <1>4

\* No two records have one subnet: this module's restriction.
LEMMA UnsharedStep ==
  ASSUME KernelInv, [Next]_vars
  PROVE  NoneIsShared'
<1> USE DEF KernelInv, TypeOK, W!TypeOK, NoneIsShared, W!Registered, records, kernel, W!handler,
            W!watcher, W!history
<1>1. ASSUME NEW c \in Clients, W!Register(c), shared' = {} PROVE NoneIsShared'
  <2>1. PICK s \in Slots : /\ \A d \in W!Registered : rec[d].ip # s
                           /\ rec'[c].ip = s
                           /\ \A d \in Clients \ {c} : rec'[d] = rec[d]
    <3>1. PICK s \in Slots, x \in Data, marked \in BOOLEAN :
            /\ rec' = [rec EXCEPT ![c] = [ip |-> s, data |-> x, expired |-> marked,
                                         mod |-> index + 1]]
            /\ shared' = IF \E d \in W!Registered : rec[d].ip = s THEN shared \cup {s} ELSE shared
      BY <1>1 DEF W!Register, W!Change
    <3>2. \A d \in W!Registered : rec[d].ip # s
      BY <1>1, <3>1
    <3> QED
      BY <3>1, <3>2
  <2> QED
    BY <1>1, <2>1
<1>2. ASSUME NEW c \in Clients, W!Rewrite(c) PROVE NoneIsShared'
  BY <1>2 DEF W!Rewrite, W!Change, W!Record
<1>3. ASSUME NEW c \in Clients, W!Delete(c) PROVE NoneIsShared'
  BY <1>3 DEF W!Delete, W!Change
<1>4. CASE Restart
  BY <1>4 DEF Restart, W!Restart
<1>5. CASE UNCHANGED <<rec, shared>>
  BY <1>5
<1>6. CASE Rest
  <2>1. \/ UNCHANGED <<rec, shared>>
        \/ \E c \in Clients :
             (W!Register(c) /\ shared' = {}) \/ W!Rewrite(c) \/ W!Delete(c)
    BY <1>6
       DEF Rest, W!Read, W!ReadFails, W!List, W!ListFails, W!Retry, W!EndOfReads,
           W!ReceiveError, W!ReceiveExpired, W!ReceiveModified, W!EndOfBatch
  <2> HIDE DEF NoneIsShared
  <2> QED
    BY <1>1, <1>2, <1>3, <1>5, <2>1
<1>7. Call => UNCHANGED records
  BY DEF Call, Begin, Set, SetRefused, SetFDB, SetARP, SetRoute, SetStepFails, SetFails,
     DeleteCall, DeleteRefused, DeleteRoute, DeleteRouteFails, DeleteARP, DeleteFDB,
     DeleteNeighFails, DeleteFails
<1> QED
  BY NextIs, <1>4, <1>5, <1>6, <1>7 DEF vars

\* A netlink call, or its failure, writes no record and takes up nothing new.
LEMMA CallGoesOn ==
  ASSUME Set \/ DeleteCall
  PROVE  /\ UNCHANGED records /\ batch' \subseteq batch
         /\ call' = NoCall \/ (call # NoCall /\ call'.item = call.item)
<1> USE DEF At, Handled, GoOn
<1>1. CASE SetRefused \/ SetStepFails
  BY <1>1 DEF SetRefused, SetStepFails, SetFails
<1>2. CASE SetFDB
  BY <1>2 DEF SetFDB
<1>3. CASE SetARP
  BY <1>3 DEF SetARP
<1>4. CASE SetRoute
  BY <1>4 DEF SetRoute
<1>5. CASE DeleteRefused \/ DeleteRouteFails
  BY <1>5 DEF DeleteRefused, DeleteRouteFails, DeleteFails
<1>6. CASE DeleteRoute
  BY <1>6 DEF DeleteRoute
<1>7. CASE DeleteARP \/ DeleteFDB
  BY <1>7 DEF DeleteARP, DeleteFDB
<1>8. CASE DeleteNeighFails
  BY <1>8 DEF DeleteNeighFails
<1> QED
  BY <1>1, <1>2, <1>3, <1>4, <1>5, <1>6, <1>7, <1>8 DEF Set, DeleteCall

\* What is read, handed over and called for is what a client wrote.
LEMMA DevicesStep ==
  ASSUME KernelInv, [Next]_vars
  PROVE  DevicesAreOwn'
<1> USE DEF KernelInv, TypeOK, W!TypeOK, DevicesAreOwn, CallIsInOrder, W!Registered, records,
            kernel, W!handler, W!watcher, W!history
<1>1. ASSUME NEW c \in Clients, UNCHANGED <<call, kernel>>,
             \/ W!Delete(c)
             \/ (W!Register(c) \/ W!Rewrite(c)) /\ Own(c, rec'[c].data)
      PROVE  DevicesAreOwn'
  <2>1. PICK r : W!Change(c, r)
    BY <1>1 DEF W!Register, W!Rewrite, W!Delete
  <2>2. /\ \A d \in Clients \ {c} : rec'[d] = rec[d]
        /\ UNCHANGED <<expired, modified, batch, call>>
    BY <1>1, <2>1 DEF W!Change
  <2>3. c \in W!Registered' => Own(c, rec'[c].data)
    BY <1>1 DEF W!Delete, W!Change
  <2> HIDE DEF Own
  <2> QED
    BY <2>2, <2>3 DEF Own
<1>2. ASSUME NEW c \in Clients, W!Read(c), UNCHANGED <<call, kernel>>
      PROVE  DevicesAreOwn'
  <2> DEFINE item == [client |-> c, ip |-> rec[c].ip, data |-> rec[c].data]
  <2>1. item.client = c /\ item.data = rec[c].data
    OBVIOUS
  <2>2. /\ expired' \cup modified' \subseteq expired \cup modified \cup {item}
        /\ c \in W!Registered /\ UNCHANGED <<rec, batch, call>>
    BY <1>2 DEF W!Read
  <2> HIDE DEF item
  <2> QED
    BY <2>1, <2>2 DEF Own
<1>3. ASSUME UNCHANGED rec, call' \in {call, NoCall},
             expired' \cup modified' \cup batch' \subseteq expired \cup modified \cup batch
      PROVE  DevicesAreOwn'
  BY <1>3 DEF Own
<1>4. CASE Rest
  <2>1. \/ UNCHANGED rec /\ expired' \cup modified' \cup batch' \subseteq
                               expired \cup modified \cup batch
        \/ \E c \in Clients :
             \/ W!Read(c) \/ W!Delete(c)
             \/ (W!Register(c) \/ W!Rewrite(c)) /\ Own(c, rec'[c].data)
    BY <1>4
       DEF Rest, W!ReadFails, W!List, W!ListFails, W!Retry, W!EndOfReads,
           W!ReceiveError, W!ReceiveExpired, W!ReceiveModified, W!EndOfBatch
  <2>2. UNCHANGED <<call, kernel>>
    BY <1>4 DEF Rest
  <2> HIDE DEF DevicesAreOwn
  <2> QED
    BY <1>1, <1>2, <1>3, <2>1, <2>2
<1>5. CASE Begin("set") \/ Begin("delete")
  BY <1>5, CallAssumption DEF Begin, GoOn, Own
<1>6. CASE Set \/ DeleteCall
  BY <1>6, CallGoesOn DEF Own
<1>7. CASE Restart
  BY <1>7 DEF Restart, W!Restart, Own
<1>8. CASE UNCHANGED vars
  BY <1>8 DEF vars, Own
<1> QED
  BY NextIs, <1>4, <1>5, <1>6, <1>7, <1>8 DEF Call

\* A route is written after its ARP entry, and deleted before it.
LEMMA NeighboursStep ==
  ASSUME KernelInv, [Next]_vars
  PROVE  RoutesHaveNeighbours'
<1> USE DEF KernelInv, TypeOK, W!TypeOK, W!Item, RoutesHaveNeighbours, CallIsInOrder, At,
            kernel
<1>1. CASE UNCHANGED kernel
  BY <1>1
<1>2. CASE SetFDB \/ SetARP \/ SetRoute
  BY <1>2, VtepAssumption DEF SetFDB, SetARP, SetRoute, DevicesAreOwn, Data
<1>3. CASE DeleteRoute \/ DeleteARP \/ DeleteFDB
  BY <1>3 DEF DeleteRoute, DeleteARP, DeleteFDB
<1>4. CASE Restart
  BY <1>4 DEF Restart
<1> QED
  BY NextIs, <1>1, <1>2, <1>3, <1>4
     DEF Rest, Call, Begin, Set, SetRefused, SetStepFails, SetFails, DeleteCall, DeleteRefused,
         DeleteRouteFails, DeleteNeighFails, DeleteFails, vars

\* During a call the handler is given nothing else to do.
LEMMA BatchWaits ==
  ASSUME CallIsInOrder, Rest
  PROVE  UNCHANGED <<call, kernel>> /\ (call # NoCall => UNCHANGED <<hpc, batch>>)
<1>1. ASSUME NEW c \in Clients, W!Register(c) \/ W!Rewrite(c) \/ W!Delete(c)
      PROVE  UNCHANGED <<hpc, batch>>
  BY <1>1 DEF W!Register, W!Rewrite, W!Delete, W!Change, W!handler
<1>2. ASSUME NEW c \in Clients, W!Read(c) \/ W!ReadFails(c) PROVE UNCHANGED <<hpc, batch>>
  BY <1>2 DEF W!Read, W!ReadFails, W!handler
<1>3. W!List \/ W!ListFails \/ W!Retry \/ W!EndOfReads \/ W!ReceiveError =>
        UNCHANGED <<hpc, batch>>
  BY DEF W!List, W!ListFails, W!Retry, W!EndOfReads, W!ReceiveError, W!handler
<1>4. W!ReceiveExpired \/ W!ReceiveModified => call = NoCall
  BY DEF W!ReceiveExpired, W!ReceiveModified, CallIsInOrder
<1> QED
  BY <1>1, <1>2, <1>3, <1>4 DEF Rest

\* A call goes from entry to entry in its order.
LEMMA OrderStep ==
  ASSUME KernelInv, [Next]_vars
  PROVE  CallIsInOrder'
<1> USE CallAssumption DEF KernelInv, TypeOK, W!TypeOK, W!Item, CallIsInOrder, SelfIsAbsent, At, GoOn,
            SetOrder, DeleteOrder, Handled, Entries, records, kernel
<1>1. CASE Rest
  <2>1. UNCHANGED <<call, kernel>> /\ (call # NoCall => UNCHANGED <<hpc, batch>>)
    BY <1>1, BatchWaits
  <2> QED
    BY <2>1
<1>2. CASE Begin("set") \/ Begin("delete")
  BY <1>2 DEF Begin
<1>3. CASE call' = NoCall
  BY <1>3
<1>4. CASE SetFDB
  BY <1>4 DEF SetFDB
<1>5. CASE SetARP
  BY <1>5 DEF SetARP
<1>6. CASE SetRoute
  BY <1>6 DEF SetRoute
<1>7. CASE DeleteRoute
  BY <1>7 DEF DeleteRoute
<1>8. CASE DeleteARP \/ DeleteFDB
  BY <1>8 DEF DeleteARP, DeleteFDB
<1>9. CASE UNCHANGED vars
  BY <1>9 DEF vars
<1> QED
  BY NextIs, <1>1, <1>2, <1>3, <1>4, <1>5, <1>6, <1>7, <1>8, <1>9
     DEF Call, Set, SetRefused, SetStepFails, SetFails, DeleteCall, DeleteRefused,
         DeleteRouteFails, DeleteNeighFails, DeleteFails, Restart

\* The calls are in order, on every host, whatever fails or stops.
THEOREM KernelInvariance == Spec => []KernelInv
<1>1. KernelInv /\ [Next]_vars => KernelInv'
  BY TypesStep, OrderStep, AbsentStep, UnsharedStep, DevicesStep, NeighboursStep
     DEF KernelInv
<1> QED
  BY KernelInit, <1>1, PTL DEF Spec

\* The variables have their types.
THEOREM TypeCorrect == Spec => []TypeOK
<1>1. KernelInv => TypeOK
  BY DEF KernelInv
<1> QED
  BY <1>1, KernelInvariance, PTL

\* Every route has the ARP entry of its gateway.
THEOREM NeighboursAreThere == Spec => []RoutesHaveNeighbours
<1>1. KernelInv => RoutesHaveNeighbours
  BY DEF KernelInv
<1> QED
  BY <1>1, KernelInvariance, PTL

\* The kernel's entries, written call by call, implement the routes of
\* SubnetWatch: every step is one of its steps or changes nothing it sees.
THEOREM WatchIsImplemented == Spec => ImplementsWatch
<1>1. KernelInv /\ [Next]_vars => [W!Next]_(W!vars)
  BY StepRefines
<1> QED
  BY KernelInit, KernelInvariance, <1>1, PTL DEF Spec, ImplementsWatch, W!Spec

\* What is proved of SubnetWatch holds of the kernel's routes.
LEMMA WatchInvariance == Spec => []W!IInv
<1>1. WP!Spec => []WP!IInv
  BY WatchAssumed, WP!Invariance
<1>2. W!Spec => WP!Spec
  BY SameInit, SameNext, PTL DEF W!Spec, WP!Spec
<1> QED
  BY <1>1, <1>2, SameIInv, WatchIsImplemented, PTL DEF ImplementsWatch

-----------------------------------------------------------------------------
(* The entries.                                                            *)

\* A record that is written has not been listed since.
LEMMA ChangedSince ==
  ASSUME TypeOK, NEW c \in Clients, W!Register(c) \/ W!Rewrite(c) \/ W!Delete(c),
         c \in W!Registered'
  PROVE  rec'[c].mod \in Nat /\ rec'[c].mod > lastIndex
<1> USE DEF TypeOK, W!TypeOK, W!Registered
<1>1. index \in Nat /\ lastIndex \in Nat /\ lastIndex <= index
  OBVIOUS
<1>2. CASE W!Register(c)
  <2>1. rec'[c].mod = index + 1
    BY <1>2 DEF W!Register, W!Change
  <2> QED
    BY <1>1, <2>1
<1>3. CASE W!Rewrite(c)
  <2>1. rec'[c].mod = index + 1
    BY <1>3 DEF W!Rewrite, W!Change, W!Record
  <2> QED
    BY <1>1, <2>1
<1>4. CASE W!Delete(c)
  BY <1>4 DEF W!Delete, W!Change
<1> QED
  BY <1>2, <1>3, <1>4

\* What is read in a cycle is what the record says, if it has not changed since
\* the listing.
LEMMA ReadsAgreeStep ==
  ASSUME KernelInv, W!IInv, ReadsAgree, [Next]_vars
  PROVE  ReadsAgree'
<1> USE DEF KernelInv, TypeOK, W!TypeOK, W!Item, W!Record, ReadsAgree, Mine, W!Registered,
            records, kernel, W!handler, W!watcher, W!history
<1>1. ASSUME NEW c \in Clients, W!Register(c) \/ W!Rewrite(c) \/ W!Delete(c)
      PROVE  ReadsAgree'
  <2>1. PICK r : W!Change(c, r)
    BY <1>1 DEF W!Register, W!Rewrite, W!Delete
  <2>2. /\ \A d \in Clients \ {c} : rec'[d] = rec[d]
        /\ UNCHANGED <<expired, modified, lastIndex>>
    BY <2>1 DEF W!Change
  <2>3. c \in W!Registered' => ~(rec'[c].mod <= lastIndex)
    BY <1>1, ChangedSince DEF KernelInv
  <2> QED
    BY <2>2, <2>3
<1>2. ASSUME NEW c \in Clients, W!Read(c) PROVE ReadsAgree'
  <2>1. /\ expired' \cup modified' \subseteq expired \cup modified \cup {Mine(c)}
        /\ UNCHANGED <<rec, lastIndex>>
    BY <1>2 DEF W!Read
  <2>2. Mine(c).client = c
    OBVIOUS
  <2> QED
    BY <2>1, <2>2
<1>3. CASE W!List
  BY <1>3 DEF W!List, W!IInv, W!WatcherIsIdle
<1>4. CASE W!ReceiveExpired \/ W!ReceiveModified
  BY <1>4 DEF W!ReceiveExpired, W!ReceiveModified
<1>5. CASE Restart
  BY <1>5 DEF Restart, W!Restart
<1>6. CASE UNCHANGED <<rec, lastIndex, expired, modified>>
  BY <1>6
<1>7. Call => UNCHANGED records
  BY DEF Call, Begin, Set, SetRefused, SetFDB, SetARP, SetRoute, SetStepFails, SetFails,
     DeleteCall, DeleteRefused, DeleteRoute, DeleteRouteFails, DeleteARP, DeleteFDB,
     DeleteNeighFails, DeleteFails
<1> QED
  BY NextIs, <1>1, <1>2, <1>3, <1>4, <1>5, <1>6, <1>7
     DEF Rest, W!ReadFails, W!ListFails, W!Retry, W!EndOfReads, W!ReceiveError, W!EndOfBatch, vars

\* A record that is not expired, and has not changed since the listing, is in
\* no batch but that of the records to set, and alone has its subnet there.
LEMMA ReadOnce ==
  ASSUME KernelInv, W!IInv, ReadsAgree, NEW c \in W!Registered, ~rec[c].expired, ~W!Awaited(c)
  PROVE  /\ \A i \in expired : i.client # c /\ i.ip # rec[c].ip
         /\ \A i \in modified : i.client = c \/ i.ip = rec[c].ip => i = Mine(c)
<1>1. shared = {} /\ rec[c].ip \in Slots /\ rec[c].mod \in Nat /\ lastIndex \in Nat
  BY DEF KernelInv, NoneIsShared, TypeOK, W!TypeOK, W!Registered, W!Record
<1>2. rec[c].mod <= lastIndex
  BY <1>1 DEF W!Awaited
<1>3. /\ \A i \in expired  : i.ip = rec[c].ip => i.client = c /\ rec[c].expired
      /\ \A i \in modified : i.ip = rec[c].ip => i.client = c
  BY <1>1, <1>2 DEF W!IInv, W!ReadsAgree
<1>4. \A i \in expired \cup modified : i.client = c => i = Mine(c)
  BY <1>2 DEF ReadsAgree
<1>5. Mine(c).ip = rec[c].ip
  BY DEF Mine
<1> QED
  BY <1>3, <1>4, <1>5

\* The entries of c are as its record asks, or its item is in the batch; nothing
\* else in hand concerns it.
Served(c) ==
  /\ \A i \in InHand : i.client = c \/ i.ip = rec[c].ip => hpc = "set" /\ i = Mine(c)
  /\ Mine(c) \in batch \/ Leads(rec[c].ip, rec[c].data)

\* A call keeps the entries of the clients it is not for, and makes those of the
\* client it is for.
LEMMA CallServes ==
  ASSUME KernelInv, Call, NEW c \in W!Registered, c \notin missed', Served(c)
  PROVE  Served(c)'
<1> USE DEF KernelInv, TypeOK, W!TypeOK, W!Item, CallIsInOrder, At, Handled, GoOn, InHand,
            records, kernel
<1>1. Call => UNCHANGED <<rec, hpc>> /\ Mine(c)' = Mine(c)
  BY DEF Call, Begin, Set, SetRefused, SetFDB, SetARP, SetRoute, SetStepFails, SetFails,
     DeleteCall, DeleteRefused, DeleteRoute, DeleteRouteFails, DeleteARP, DeleteFDB,
     DeleteNeighFails, DeleteFails, Mine
<1>2. /\ Mine(c).client = c /\ Mine(c).ip = rec[c].ip /\ Mine(c).data = rec[c].data
  BY DEF Mine
<1>3. rec[c].ip \in Slots /\ Own(c, rec[c].data) /\ rec[c].data \in Data
  BY DEF DevicesAreOwn, W!Registered, W!Record
<1>4. ASSUME call # NoCall, call.item.client # c, Leads(rec[c].ip, rec[c].data)
      PROVE  call.item.data.mac # rec[c].data.mac
  BY <1>3, <1>4, VtepAssumption DEF DevicesAreOwn, Own, Leads
<1>5. InHand' \subseteq InHand
  <2>1. CASE Begin("set") \/ Begin("delete")
    BY <2>1, CallAssumption DEF Begin
  <2>2. CASE Set \/ DeleteCall
    BY <2>2, CallGoesOn
  <2> QED
    BY <2>1, <2>2 DEF Call
<1> HIDE DEF InHand
<1>6. batch \subseteq InHand /\ (call # NoCall => call.item \in InHand)
  BY DEF InHand
<1>7. (\A i \in InHand : i.client = c \/ i.ip = rec[c].ip => hpc = "set" /\ i = Mine(c))'
  BY <1>1, <1>5 DEF Served
<1>8. (Mine(c) \in batch \/ Leads(rec[c].ip, rec[c].data))'
  <2>1. CASE Begin("set") \/ Begin("delete")
    BY <1>1, <2>1 DEF Begin, Served, Leads
  <2>2. CASE SetRefused \/ SetStepFails
    BY <1>1, <1>2, <2>2 DEF SetRefused, SetStepFails, SetFails, Served, Leads
  <2>3. CASE SetFDB
    BY <1>1, <1>2, <1>4, <1>6, <2>3 DEF SetFDB, Served, Leads
  <2>4. CASE SetARP
    BY <1>1, <1>2, <1>3, <1>6, <2>4 DEF SetARP, Served, Leads
  <2>5. CASE SetRoute
    BY <1>1, <1>2, <1>3, <1>6, <2>5 DEF SetRoute, Served, Leads
  <2>6. CASE DeleteRefused \/ DeleteRouteFails
    BY <1>1, <1>2, <1>6, <2>6 DEF DeleteRefused, DeleteRouteFails, DeleteFails, Served, Leads
  <2>7. CASE DeleteRoute \/ DeleteARP \/ DeleteFDB \/ DeleteNeighFails
    BY <1>1, <1>2, <1>3, <1>4, <1>6, <2>7
       DEF DeleteRoute, DeleteARP, DeleteFDB, DeleteNeighFails, Served, Leads
  <2> QED
    BY <2>1, <2>2, <2>3, <2>4, <2>5, <2>6, <2>7 DEF Call, Set, DeleteCall
<1> QED
  BY <1>7, <1>8 DEF Served

\* The entries a record asks for are written, and none is taken away but to be
\* written again.
LEMMA EntriesStep ==
  ASSUME KernelInv, W!IInv, ReadsAgree, EntriesAreOnTheirWay, [Next]_vars
  PROVE  EntriesAreOnTheirWay'
<1> USE DEF KernelInv, TypeOK, W!TypeOK, W!Item, W!Record, W!Registered, W!Awaited, records,
            kernel, W!handler, W!watcher, W!history
<1>0. EntriesAreOnTheirWay <=>
        \A c \in W!Registered \ (missed \cup {Self}) :
          ~rec[c].expired => W!Awaited(c) \/ Mine(c) \in modified \/ Served(c)
  BY DEF EntriesAreOnTheirWay, Served
<1>00. EntriesAreOnTheirWay' <=>
         (\A c \in W!Registered \ (missed \cup {Self}) :
           ~rec[c].expired => W!Awaited(c) \/ Mine(c) \in modified \/ Served(c))'
  BY DEF EntriesAreOnTheirWay, Served
<1>1. ASSUME UNCHANGED <<rec, hpc, batch, call, kernel>>, NEW c \in Clients, Served(c)
      PROVE  Served(c)'
  BY <1>1 DEF Served, Mine, InHand, Leads
<1>2. ASSUME NEW c \in Clients, W!Register(c) \/ W!Rewrite(c) \/ W!Delete(c),
             UNCHANGED <<call, kernel>>
      PROVE  EntriesAreOnTheirWay'
  <2>1. PICK r : W!Change(c, r)
    BY <1>2 DEF W!Register, W!Rewrite, W!Delete
  <2>2. /\ \A d \in Clients \ {c} : rec'[d] = rec[d]
        /\ UNCHANGED <<lastIndex, stubs, modified, missed, hpc, batch, call, kernel>>
    BY <1>2, <2>1 DEF W!Change
  <2>3. c \in W!Registered' => W!Awaited(c)'
    BY <1>2, <2>2, ChangedSince
  <2>4. \A d \in Clients \ {c} : Mine(d)' = Mine(d) /\ (Served(d) => Served(d)')
    BY <2>2 DEF Served, Mine, InHand, Leads
  <2> QED
    BY <1>0, <1>00, <2>2, <2>3, <2>4
<1>3. ASSUME NEW c \in Clients, W!Read(c), UNCHANGED <<call, kernel>>
      PROVE  EntriesAreOnTheirWay'
  <2>1. /\ ~rec[c].expired => Mine(c) \in modified'
        /\ modified \subseteq modified'
        /\ UNCHANGED <<rec, lastIndex, hpc, batch, call, kernel>>
        /\ stubs' = stubs \ {c} /\ missed' = missed \ {c}
    BY <1>3 DEF W!Read, Mine
  <2>2. \A d \in Clients : Mine(d)' = Mine(d)
    BY <2>1 DEF Mine
  <2> QED
    BY <1>0, <1>00, <1>1, <2>1, <2>2
<1>4. CASE /\ UNCHANGED <<rec, lastIndex, modified, hpc, batch, call, kernel>>
           /\ \E c \in Clients : stubs' = stubs \ {c} /\ missed' = missed \cup {c}
  <2>1. \A d \in Clients : Mine(d)' = Mine(d)
    BY <1>4 DEF Mine
  <2> QED
    BY <1>0, <1>00, <1>1, <1>4, <2>1
<1>5. CASE W!List /\ UNCHANGED <<call, kernel>>
  <2>1. /\ UNCHANGED <<rec, hpc, batch, call, kernel, missed, modified>>
        /\ \A d \in W!Registered : W!Awaited(d) => d \in stubs'
    BY <1>5 DEF W!List, W!Fresh, W!IInv, W!WatcherIsIdle
  <2>2. \A d \in Clients : Mine(d)' = Mine(d)
    BY <2>1 DEF Mine
  <2> QED
    BY <1>0, <1>00, <1>1, <2>1, <2>2
<1>6. ASSUME W!ReceiveExpired, UNCHANGED <<call, kernel>>
      PROVE  EntriesAreOnTheirWay'
  <2>1. /\ UNCHANGED <<rec, lastIndex, stubs, modified, missed, kernel>>
        /\ hpc = "select" /\ batch = {} /\ call = NoCall
        /\ batch' = expired /\ call' = NoCall
    BY <1>6 DEF W!ReceiveExpired, W!IInv, W!WatcherIsIdle, CallIsInOrder
  <2>2. ASSUME NEW c \in W!Registered, ~rec[c].expired, ~W!Awaited(c), Served(c)
        PROVE  Served(c)'
    <3>1. \A i \in InHand' : i.client # c /\ i.ip # rec[c].ip
      BY <2>1, <2>2, ReadOnce DEF InHand
    <3>2. Leads(rec[c].ip, rec[c].data)
      BY <2>1, <2>2 DEF Served
    <3> QED
      BY <2>1, <3>1, <3>2 DEF Served, Leads
  <2>3. \A d \in Clients : Mine(d)' = Mine(d)
    BY <2>1 DEF Mine
  <2> QED
    BY <1>0, <1>00, <2>1, <2>2, <2>3
<1>7. ASSUME W!ReceiveModified, UNCHANGED <<call, kernel>>
      PROVE  EntriesAreOnTheirWay'
  <2>1. /\ UNCHANGED <<rec, lastIndex, stubs, missed, kernel>>
        /\ hpc = "select" /\ batch = {} /\ call = NoCall
        /\ hpc' = "set" /\ batch' = modified /\ call' = NoCall
    BY <1>7 DEF W!ReceiveModified, W!IInv, W!WatcherIsIdle, CallIsInOrder
  <2>2. \A d \in Clients : Mine(d)' = Mine(d)
    BY <2>1 DEF Mine
  <2>3. ASSUME NEW c \in W!Registered, ~rec[c].expired, ~W!Awaited(c),
               Mine(c) \in modified \/ Served(c)
        PROVE  Served(c)'
    <3>1. \A i \in InHand' : i.client = c \/ i.ip = rec[c].ip => i = Mine(c)
      BY <2>1, <2>3, ReadOnce DEF InHand
    <3>2. Mine(c) \in modified \/ Leads(rec[c].ip, rec[c].data)
      BY <2>1, <2>3 DEF Served
    <3> QED
      BY <2>1, <2>2, <3>1, <3>2 DEF Served, Leads
  <2> QED
    BY <1>0, <1>00, <2>1, <2>2, <2>3
<1>8. CASE /\ UNCHANGED <<rec, lastIndex, stubs, modified, missed, call, kernel>>
           /\ batch = {} /\ batch' = {} /\ call = NoCall
  <2>1. \A d \in Clients : Mine(d)' = Mine(d) /\ (Served(d) => Served(d)')
    BY <1>8 DEF Served, Mine, InHand, Leads
  <2> QED
    BY <1>0, <1>00, <1>8, <2>1
<1>9. CASE UNCHANGED <<rec, lastIndex, stubs, modified, hpc, batch, missed, call, kernel>>
  <2>1. \A d \in Clients : Mine(d)' = Mine(d)
    BY <1>9 DEF Mine
  <2> QED
    BY <1>0, <1>00, <1>1, <1>9, <2>1
<1> HIDE DEF Served
<1>10. CASE Rest
  BY <1>2, <1>3, <1>4, <1>5, <1>6, <1>7, <1>8, <1>9, <1>10
     DEF Rest, W!ReadFails, W!ListFails, W!Retry, W!EndOfReads, W!ReceiveError, W!EndOfBatch
<1>11. CASE Call
  <2>1. UNCHANGED <<rec, lastIndex, stubs, modified>> /\ missed \subseteq missed'
    BY <1>11 DEF Call, Begin, Set, SetRefused, SetFDB, SetARP, SetRoute, SetStepFails, SetFails,
       DeleteCall, DeleteRefused, DeleteRoute, DeleteRouteFails, DeleteARP, DeleteFDB,
       DeleteNeighFails, DeleteFails
  <2>2. \A d \in Clients : Mine(d)' = Mine(d)
    BY <2>1 DEF Mine
  <2>3. \A d \in W!Registered : d \notin missed' /\ Served(d) => Served(d)'
    BY <1>11, CallServes
  <2> QED
    BY <1>0, <1>00, <2>1, <2>2, <2>3
<1>12. CASE Restart
  <2>1. \A d \in W!Registered' : W!Awaited(d)'
    BY <1>12 DEF Restart, W!Restart, W!IInv, W!IndexIsLatest
  <2> QED
    BY <1>00, <2>1
<1> QED
  BY NextIs, <1>9, <1>10, <1>11, <1>12 DEF vars

\* The whole invariant holds, with that of SubnetWatch.
THEOREM Invariance == Spec => []IInv
<1>1. Init => ReadsAgree /\ EntriesAreOnTheirWay
  BY DEF Init, W!Init, ReadsAgree, EntriesAreOnTheirWay, W!Registered
<1>2. KernelInv /\ W!IInv /\ ReadsAgree /\ EntriesAreOnTheirWay /\ [Next]_vars
        => ReadsAgree' /\ EntriesAreOnTheirWay'
  BY ReadsAgreeStep, EntriesStep
<1>3. KernelInv /\ ReadsAgree /\ EntriesAreOnTheirWay => IInv
  BY DEF IInv
<1> QED
  BY <1>1, <1>2, <1>3, KernelInvariance, WatchInvariance, PTL DEF Spec

\* Once the host has caught up, route, ARP and FDB entry of a subnet lead to the
\* device and the host that its record names.
THEOREM EntriesFollow == Spec => []EntriesFollowRecords
<1>1. ASSUME IInv, W!IInv, W!CaughtUp,
             NEW c \in W!Registered \ (missed \cup {Self}), ~rec[c].expired
      PROVE  Leads(rec[c].ip, rec[c].data)
  <2>1. ~W!Awaited(c) /\ modified = {} /\ batch = {}
    BY <1>1 DEF W!IInv, W!CaughtUp, W!WatcherIsIdle, W!IndexIsLatest, W!TypeOK, W!Awaited
  <2> QED
    BY <1>1, <2>1 DEF IInv, EntriesAreOnTheirWay
<1>2. IInv /\ W!IInv => EntriesFollowRecords
  BY <1>1 DEF EntriesFollowRecords
<1> QED
  BY <1>2, Invariance, WatchInvariance, PTL

\* To set a subnet turns packets from device to device at once: the FDB entry of
\* the one the record names is there when the ARP entry changes.
THEOREM SetsAreSmooth == Spec => SetsTurnAtOnce
<1>1. ASSUME KernelInv, [Next]_vars, hpc = "set", hpc' = "set", NEW s \in Slots, NEW v \in Vteps,
             Leads(s, v)
      PROVE  \E w \in {v} \cup Named : Leads(s, w)'
  <2> USE <1>1 DEF KernelInv, TypeOK, W!TypeOK, W!Item, CallIsInOrder, At, Leads, Named, kernel
  <2>1. CASE UNCHANGED kernel
    BY <2>1
  <2>2. CASE SetFDB \/ SetRoute
    BY <2>2 DEF SetFDB, SetRoute
  <2>3. CASE SetARP
    <3>1. CASE s = call.item.ip
      BY <2>3, <3>1 DEF SetARP
    <3>2. CASE s # call.item.ip
      BY <2>3, <3>2 DEF SetARP
    <3> QED
      BY <3>1, <3>2
  <2> QED
    BY NextIs, <2>1, <2>2, <2>3
       DEF Rest, Call, Begin, Set, SetRefused, SetStepFails, SetFails, DeleteCall, DeleteRefused,
           DeleteRoute, DeleteARP, DeleteFDB, DeleteRouteFails, DeleteNeighFails, DeleteFails,
           Restart, W!Restart, vars
<1>2. KernelInv /\ [Next]_vars =>
        [hpc = "set" /\ hpc' = "set" =>
           \A s \in Slots, v \in Vteps :
             Leads(s, v) => \E w \in {v} \cup Named : Leads(s, w)']_vars
  BY <1>1
<1> QED
  BY <1>2, KernelInvariance, PTL DEF Spec, SetsTurnAtOnce
==============================================================================
