-------------------------- MODULE SubnetWatchProofs --------------------------
(***************************************************************************)
(* Proofs about SubnetWatch.  One lemma per part of the invariant, with    *)
(* one step per action; the theorems are at the end.                       *)
(***************************************************************************)
EXTENDS SubnetWatch, TLAPS

\* The watcher has nothing in hand at the beginning, and the host no route.
LEMMA InitHolds == Init => IInv
BY ConstantsAssumption
   DEF Init, IInv, TypeOK, NoRouteToSelf, WatcherIsIdle, IndexIsLatest, SharedIsRecorded,
       ReadsAgree, ChangesAreOnTheirWay, RoutesAreHeld, FreshReadsAgree, LatestIsOnItsWay,
       Registered, Record, Item

\* Every step of the specification, as its actions: what a case split covers.
Step ==
  \/ \E c \in Clients : Register(c) \/ Rewrite(c) \/ Delete(c) \/ Read(c) \/ ReadFails(c)
  \/ List \/ ListFails \/ Retry \/ EndOfReads
  \/ ReceiveError \/ ReceiveExpired \/ ReceiveModified
  \/ HandleLocal \/ HandleSet \/ HandleDelete \/ EndOfBatch
  \/ Restart \/ UNCHANGED vars

\* The next-state relation, goroutine by goroutine, is that list.
LEMMA StepIsNext == [Next]_vars <=> Step
BY DEF Next, Records, Watch, Handle, Step

\* What a rewrite does to the records.
LEMMA RewriteIs ==
  ASSUME TypeOK, NEW c \in Clients, Rewrite(c)
  PROVE  \E q \in Record :
           /\ rec[c] \in Record /\ q.ip = rec[c].ip /\ q.mod = index + 1 /\ Change(c, q)
           /\ UNCHANGED <<strays, shared>>
<1>1. PICK marked \in BOOLEAN, x \in Data :
          /\ rec[c] # NoRecord /\ UNCHANGED <<strays, shared>>
          /\ Change(c, [rec[c] EXCEPT !.data = x, !.expired = marked, !.mod = index + 1])
  BY DEF Rewrite
<1>2. rec[c] \in Record /\ index + 1 \in Nat
  BY <1>1 DEF TypeOK
<1> DEFINE q == [rec[c] EXCEPT !.data = x, !.expired = marked, !.mod = index + 1]
<1>3. q \in Record /\ q.ip = rec[c].ip /\ q.mod = index + 1
  BY <1>2 DEF Record
<1> HIDE DEF q
<1> QED
  BY <1>1, <1>2, <1>3 DEF q

\* What goes from goroutine to goroutine and into the routes has its type.
LEMMA TypesStep ==
  ASSUME TypeOK, Step
  PROVE  TypeOK'
<1> USE ConstantsAssumption DEF TypeOK, Record, Item, watcher, handler, history
<1>1. CASE \E c \in Clients : Register(c)
  BY <1>1 DEF Register, Change, Registered
<1>2. CASE \E c \in Clients : Rewrite(c)
  BY <1>2, RewriteIs DEF Change
<1>3. CASE \E c \in Clients : Delete(c)
  BY <1>3 DEF Delete, Change
<1>4. CASE \E c \in Clients : Read(c)
  BY <1>4 DEF Read, Registered
<1>5. CASE \E c \in Clients : ReadFails(c)
  BY <1>5 DEF ReadFails
<1>6. CASE List
  BY <1>6 DEF List, Registered
<1>7. CASE ListFails \/ Retry
  BY <1>7 DEF ListFails, Retry
<1>8. CASE EndOfReads
  BY <1>8 DEF EndOfReads, Seen, ToSend
<1>9. CASE ReceiveError
  BY <1>9 DEF ReceiveError
<1>10. CASE ReceiveExpired
  BY <1>10 DEF ReceiveExpired, Seen, ToSend
<1>11. CASE ReceiveModified
  BY <1>11 DEF ReceiveModified, Seen, ToSend
<1>12. CASE HandleLocal
  BY <1>12 DEF HandleLocal
<1>13. CASE HandleSet
  BY <1>13 DEF HandleSet
<1>14. CASE HandleDelete
  BY <1>14 DEF HandleDelete
<1>15. CASE EndOfBatch
  BY <1>15 DEF EndOfBatch
<1>16. CASE Restart
  BY <1>16 DEF Restart, Unhandled
<1>17. CASE UNCHANGED vars
  BY <1>17 DEF vars
<1> QED
  BY <1>1, <1>2, <1>3, <1>4, <1>5, <1>6, <1>7, <1>8, <1>9, <1>10, <1>11, <1>12, <1>13, <1>14,
     <1>15, <1>16, <1>17 DEF Step

\* Only a set item makes a route, and none of the client's own is handled.
LEMMA OwnRouteStep ==
  ASSUME TypeOK, NoRouteToSelf, Step
  PROVE  NoRouteToSelf'
<1> USE ConstantsAssumption DEF TypeOK, NoRouteToSelf, Item
<1>1. CASE HandleSet
  BY <1>1 DEF HandleSet, IsLocal
<1>2. CASE HandleDelete
  BY <1>2 DEF HandleDelete
<1>3. CASE Restart
  BY <1>3 DEF Restart
<1>4. CASE UNCHANGED via
  BY <1>4
<1> QED
  BY <1>1, <1>2, <1>3, <1>4
     DEF Step, Register, Rewrite, Delete, Change, Read, ReadFails, List, ListFails, Retry,
         EndOfReads, ReceiveError, ReceiveExpired, ReceiveModified, HandleLocal, EndOfBatch,
         vars

\* The watcher hands over what it has read before it queries again.
LEMMA IdleStep ==
  ASSUME TypeOK, WatcherIsIdle, Step
  PROVE  WatcherIsIdle'
<1> USE DEF TypeOK, WatcherIsIdle, watcher, handler, Step
<1>1. (\E c \in Clients : Register(c) \/ Rewrite(c) \/ Delete(c)) => WatcherIsIdle'
  BY DEF Register, Rewrite, Delete, Change
<1>2. (\E c \in Clients : Read(c) \/ ReadFails(c)) => WatcherIsIdle'
  BY DEF Read, ReadFails
<1>3. List \/ ListFails \/ Retry \/ EndOfReads => WatcherIsIdle'
  BY DEF List, ListFails, Retry, EndOfReads, Seen, ToSend
<1>4. ReceiveError \/ ReceiveExpired \/ ReceiveModified => WatcherIsIdle'
  BY DEF ReceiveError, ReceiveExpired, ReceiveModified, Seen, ToSend
<1>5. HandleLocal \/ HandleSet \/ HandleDelete \/ EndOfBatch => WatcherIsIdle'
  BY DEF HandleLocal, HandleSet, HandleDelete, EndOfBatch
<1>6. Restart \/ UNCHANGED vars => WatcherIsIdle'
  BY DEF Restart, vars
<1> HIDE DEF WatcherIsIdle
<1> QED
  BY <1>1, <1>2, <1>3, <1>4, <1>5, <1>6

\* Indices grow, and a change has the index it is made at.
LEMMA LatestStep ==
  ASSUME TypeOK, IndexIsLatest, Step
  PROVE  IndexIsLatest'
<1> USE DEF TypeOK, IndexIsLatest, Registered, Record, watcher, handler, history
<1>1. CASE \E c \in Clients : Register(c)
  BY <1>1 DEF Register, Change
<1>2. CASE \E c \in Clients : Rewrite(c)
  BY <1>2 DEF Rewrite, Change
<1>3. CASE \E c \in Clients : Delete(c)
  BY <1>3 DEF Delete, Change
<1>4. CASE UNCHANGED <<rec, index>>
  BY <1>4
<1> QED
  BY <1>1, <1>2, <1>3, <1>4
     DEF Step, Read, ReadFails, List, ListFails, Retry,
         EndOfReads, ReceiveError, ReceiveExpired, ReceiveModified, HandleLocal, HandleSet,
         HandleDelete, EndOfBatch, Restart, vars

\* A subnet is noted as shared when it is registered, and again by a new agent.
LEMMA SharedStep ==
  ASSUME TypeOK, SharedIsRecorded, Step
  PROVE  SharedIsRecorded'
<1> USE DEF TypeOK, SharedIsRecorded, Registered, Record, watcher, handler, history
<1>1. CASE \E c \in Clients : Register(c)
  BY <1>1 DEF Register, Change
<1>2. CASE \E c \in Clients : Rewrite(c)
  BY <1>2 DEF Rewrite, Change
<1>3. CASE \E c \in Clients : Delete(c)
  BY <1>3 DEF Delete, Change
<1>4. CASE Restart
  BY <1>4 DEF Restart
<1>5. CASE UNCHANGED <<rec, shared>>
  BY <1>5
<1> QED
  BY <1>1, <1>2, <1>3, <1>4, <1>5
     DEF Step, Read, ReadFails, List, ListFails, Retry,
         EndOfReads, ReceiveError, ReceiveExpired, ReceiveModified, HandleLocal, HandleSet,
         HandleDelete, EndOfBatch, vars

\* What is read in a cycle is what the record says, if it has not changed since
\* the listing: a second client with the subnet would have been noted.
LEMMA ReadsAgreeStep ==
  ASSUME IInv, Step
  PROVE  ReadsAgree'
<1> USE DEF IInv, TypeOK, ReadsAgree, Registered, Record, Item, watcher, handler, history
<1>1. CASE \E c \in Clients : Register(c)
  BY <1>1 DEF Register, Change
<1>2. CASE \E c \in Clients : Rewrite(c)
  BY <1>2 DEF Rewrite, Change
<1>3. CASE \E c \in Clients : Delete(c)
  BY <1>3 DEF Delete, Change
<1>4. CASE \E c \in Clients : Read(c)
  BY <1>4 DEF Read, SharedIsRecorded
<1>5. CASE \E c \in Clients : ReadFails(c)
  BY <1>5 DEF ReadFails
<1>6. CASE List
  BY <1>6 DEF List, WatcherIsIdle
<1>7. CASE ListFails \/ Retry \/ EndOfReads
  BY <1>7 DEF ListFails, Retry, EndOfReads
<1>8. CASE ReceiveExpired
  BY <1>8 DEF ReceiveExpired
<1>9. CASE ReceiveModified
  BY <1>9 DEF ReceiveModified
<1>10. CASE Restart
  BY <1>10 DEF Restart
<1>11. CASE UNCHANGED <<rec, lastIndex, stubs, expired, modified, shared>>
  BY <1>11
<1> QED
  BY <1>1, <1>2, <1>3, <1>4, <1>5, <1>6, <1>7, <1>8, <1>9, <1>10, <1>11
     DEF Step, ReceiveError, HandleLocal, HandleSet, HandleDelete, EndOfBatch, vars

\* A change is read, handed over, and handled, before anything older is.
LEMMA OnTheirWayStep ==
  ASSUME IInv, Step
  PROVE  ChangesAreOnTheirWay'
<1> USE DEF IInv, TypeOK, ChangesAreOnTheirWay, Awaited, Of, Settled, Registered, Record, Item,
            watcher, handler, history
<1>1. CASE \E c \in Clients : Register(c)
  BY <1>1 DEF Register, Change
<1>2. CASE \E c \in Clients : Rewrite(c)
  BY <1>2 DEF Rewrite, Change
<1>3. CASE \E c \in Clients : Delete(c)
  BY <1>3 DEF Delete, Change
<1>4. ASSUME NEW c \in Clients, Read(c), NEW d \in Registered' \ (missed' \cup {Self}),
             rec'[d].ip \notin shared', ~Awaited(d)'
      PROVE  \/ Of(IF rec'[d].expired THEN expired' ELSE modified', d, rec'[d].ip) # {}
             \/ Settled(d)'
  <2>1. CASE d = c
    <3> DEFINE item == [client |-> c, ip |-> rec[c].ip, data |-> rec[c].data]
    <3>1. item \in (IF rec[c].expired THEN expired' ELSE modified') /\ rec' = rec
      BY <1>4 DEF Read
    <3>2. item.client = c /\ item.ip = rec[c].ip
      OBVIOUS
    <3> QED
      BY <2>1, <3>1, <3>2
  <2>2. CASE d # c
    BY <1>4, <2>2 DEF Read
  <2> QED
    BY <2>1, <2>2
<1>5. CASE \E c \in Clients : ReadFails(c)
  BY <1>5 DEF ReadFails
<1>6. CASE List
  BY <1>6 DEF List, WatcherIsIdle, Fresh
<1>7. CASE ListFails \/ Retry \/ EndOfReads
  BY <1>7 DEF ListFails, Retry, EndOfReads
<1>8. CASE ReceiveExpired
  BY <1>8 DEF ReceiveExpired, ReadsAgree, WatcherIsIdle
<1>9. CASE ReceiveModified
  BY <1>9 DEF ReceiveModified, ReadsAgree, WatcherIsIdle
<1>10. CASE HandleLocal
  BY <1>10 DEF HandleLocal, IsLocal
<1>11. CASE HandleSet
  BY <1>11 DEF HandleSet
<1>12. CASE HandleDelete
  BY <1>12, ConstantsAssumption DEF HandleDelete
<1>13. CASE EndOfBatch
  BY <1>13 DEF EndOfBatch
<1>14. CASE Restart
  BY <1>14 DEF Restart, IndexIsLatest
<1>15. CASE UNCHANGED <<rec, lastIndex, stubs, expired, modified, hpc, batch, via, missed, shared>>
  BY <1>15
<1> QED
  BY <1>1, <1>2, <1>3, <1>4, <1>5, <1>6, <1>7, <1>8, <1>9, <1>10, <1>11, <1>12, <1>13, <1>14,
     <1>15 DEF Step, ReceiveError, vars

\* A route is deleted after the client has lost the subnet, unless no one could
\* tell the host, or it failed.
LEMMA HeldStep ==
  ASSUME IInv, Step
  PROVE  RoutesAreHeld'
<1> USE DEF IInv, TypeOK, RoutesAreHeld, Holds, Awaited, Of, Unhandled, Registered, Record, Item,
            watcher, handler, history
<1>1. CASE \E c \in Clients : Register(c)
  BY <1>1 DEF Register, Change
<1>2. CASE \E c \in Clients : Rewrite(c)
  <2>1. PICK c \in Clients, q \in Record :
          /\ rec[c] \in Record /\ q.ip = rec[c].ip /\ q.mod = index + 1 /\ Change(c, q)
          /\ UNCHANGED <<strays, shared>>
    BY <1>2, RewriteIs
  <2>2. \A d \in Clients, s \in Slots : Holds(d, s) => Holds(d, s)'
    BY <2>1, ConstantsAssumption DEF Change
  <2>3. UNCHANGED <<via, hpc, batch, expired, modified, strays>>
    BY <2>1 DEF Change
  <2> HIDE DEF Holds, Awaited, Registered
  <2> QED
    BY <2>2, <2>3
<1>3. CASE \E c \in Clients : Delete(c)
  BY <1>3 DEF Delete, Change
<1>4. CASE \E c \in Clients : Read(c)
  <2>1. PICK c \in Clients : Read(c)
    BY <1>4
  <2>2. \A d \in Clients \ {c}, s \in Slots : Holds(d, s) => Holds(d, s)'
    BY <2>1 DEF Read
  <2>3. \A s \in Slots : Holds(c, s) => Holds(c, s)' \/ Of(expired', c, s) # {}
    <3> DEFINE item == [client |-> c, ip |-> rec[c].ip, data |-> rec[c].data]
    <3>1. item.client = c /\ item.ip = rec[c].ip
      OBVIOUS
    <3>2. CASE rec[c].expired
      <4>1. item \in expired'
        BY <2>1, <3>2 DEF Read
      <4> QED
        BY <3>1, <4>1
    <3>3. CASE ~rec[c].expired
      BY <2>1, <3>3 DEF Read
    <3> QED
      BY <3>2, <3>3
  <2>4. expired \subseteq expired'
    BY <2>1 DEF Read
  <2>5. /\ \A i \in modified' : i \in modified \/ (i.client = c /\ Holds(c, i.ip)')
        /\ UNCHANGED <<via, hpc, batch, strays>>
    <3> DEFINE item == [client |-> c, ip |-> rec[c].ip, data |-> rec[c].data]
    <3>1. item.client = c /\ item.ip = rec[c].ip
      OBVIOUS
    <3>2. modified' = IF rec[c].expired THEN modified ELSE modified \cup {item}
      BY <2>1 DEF Read
    <3>3. ~rec[c].expired => \A s \in Slots : s = rec[c].ip => Holds(c, s)'
      BY <2>1 DEF Read
    <3>4. UNCHANGED <<via, hpc, batch, strays>>
      BY <2>1 DEF Read
    <3>5. rec[c].ip \in Slots
      BY <2>1 DEF Read
    <3> HIDE DEF item, Holds
    <3> QED
      BY <3>1, <3>2, <3>3, <3>4, <3>5
  <2>6. \A i \in modified : i.client # c
    BY <2>1 DEF Read, ReadsAgree
  <2> HIDE DEF Holds, Awaited, Registered
  <2>7. \A s \in Slots : Of(Unhandled, c, s) # {} => Of(Unhandled, c, s)' # {}
    BY <2>4, <2>5
  <2>8. \A i \in modified' : i.client # Self => i.client \in strays' \/ Holds(i.client, i.ip)'
    BY <2>2, <2>5, <2>6
  <2>9. \A d \in Clients, s \in Slots :
          Holds(d, s) \/ Of(expired, d, s) # {} => Holds(d, s)' \/ Of(expired', d, s) # {}
    BY <2>2, <2>3, <2>4
  <2>10. \A s \in Slots : via'[s] # NoClient =>
           \/ via'[s] \in strays' \/ Holds(via[s], s)' \/ Of(Unhandled, via[s], s)' # {}
    BY <2>4, <2>5, <2>7, <2>9
  <2>11. hpc' = "set" => \A i \in batch' : i.client # Self =>
           \/ i.client \in strays' \/ Holds(i.client, i.ip)'
           \/ Of(expired', i.client, i.ip) # {}
    BY <2>5, <2>9
  <2> QED
    BY <2>5, <2>8, <2>10, <2>11
<1>5. CASE \E c \in Clients : ReadFails(c)
  BY <1>5 DEF ReadFails
<1>6. CASE List
  BY <1>6 DEF List, WatcherIsIdle, Fresh
<1>7. CASE ListFails \/ Retry \/ EndOfReads
  BY <1>7 DEF ListFails, Retry, EndOfReads
<1>8. CASE ReceiveExpired
  BY <1>8 DEF ReceiveExpired, WatcherIsIdle
<1>9. CASE ReceiveModified
  BY <1>9 DEF ReceiveModified, WatcherIsIdle
<1>10. CASE HandleLocal
  BY <1>10 DEF HandleLocal, IsLocal, NoRouteToSelf
<1>11. CASE HandleSet
  <2>1. PICK i \in batch, ok \in BOOLEAN :
          /\ hpc = "set" /\ ~IsLocal(i)
          /\ batch' = batch \ {i}
          /\ via' = IF ok THEN [via EXCEPT ![i.ip] = i.client] ELSE via
          /\ missed \subseteq missed'
          /\ UNCHANGED <<rec, lastIndex, stubs, expired, modified, hpc, heard, strays>>
    BY <1>11 DEF HandleSet
  <2>2. \A d \in Clients, s \in Slots : Holds(d, s) => Holds(d, s)'
    BY <2>1
  <2> HIDE DEF Holds, Awaited, Registered
  <2> QED
    BY <2>1, <2>2 DEF IsLocal
<1>12. CASE HandleDelete
  BY <1>12 DEF HandleDelete
<1>13. CASE EndOfBatch
  BY <1>13 DEF EndOfBatch
<1>14. CASE Restart
  BY <1>14 DEF Restart, IndexIsLatest
<1>15. CASE UNCHANGED <<rec, lastIndex, stubs, expired, modified, hpc, batch, via, missed, heard,
                        strays>>
  BY <1>15
<1> QED
  BY <1>1, <1>2, <1>3, <1>4, <1>5, <1>6, <1>7, <1>8, <1>9, <1>10, <1>11, <1>12, <1>13, <1>14,
     <1>15 DEF Step, ReceiveError, vars

\* What is read after the last change is what the records say.
LEMMA FreshStep ==
  ASSUME IInv, Step
  PROVE  FreshReadsAgree'
<1> USE DEF IInv, TypeOK, FreshReadsAgree, Registered, Record, Item, watcher, handler, history
<1>1. CASE \E c \in Clients : Register(c) \/ Rewrite(c) \/ Delete(c)
  <2>1. index' = index + 1 /\ lastIndex' = lastIndex
    BY <1>1 DEF Register, Rewrite, Delete, Change
  <2> QED
    BY <2>1
<1>2. ASSUME NEW c \in Clients, Read(c)
      PROVE  FreshReadsAgree'
  <2> DEFINE item == [client |-> c, ip |-> rec[c].ip, data |-> rec[c].data]
  <2>1. item.client = c /\ item.ip = rec[c].ip
    OBVIOUS
  <2>2. \A i \in expired \cup modified : i.client # c
    BY <1>2 DEF Read, ReadsAgree
  <2>3. /\ expired' = IF rec[c].expired THEN expired \cup {item} ELSE expired
        /\ modified' = IF rec[c].expired THEN modified ELSE modified \cup {item}
        /\ rec[c] # NoRecord /\ UNCHANGED <<rec, index, lastIndex>>
    BY <1>2 DEF Read
  <2> HIDE DEF item
  <2> QED
    BY <2>1, <2>2, <2>3
<1>3. CASE List
  BY <1>3 DEF List, WatcherIsIdle
<1>4. CASE ReceiveExpired
  BY <1>4 DEF ReceiveExpired
<1>5. CASE ReceiveModified
  BY <1>5 DEF ReceiveModified
<1>6. CASE Restart
  BY <1>6 DEF Restart
<1>7. CASE UNCHANGED <<rec, index, lastIndex, expired, modified>>
  BY <1>7
<1> QED
  BY <1>1, <1>2, <1>3, <1>4, <1>5, <1>6, <1>7
     DEF Step, ReadFails, ListFails, Retry, EndOfReads, ReceiveError, HandleLocal, HandleSet,
         HandleDelete, EndOfBatch, vars

\* The latest record is read, handed over after the expired ones, and handled.
LEMMA LatestWordStep ==
  ASSUME IInv, Step
  PROVE  LatestIsOnItsWay'
<1> USE DEF IInv, TypeOK, LatestIsOnItsWay, Latest, Awaited, Of, Settled, Registered, Record, Item,
            watcher, handler, history
<1>1. CASE \E c \in Clients : Register(c) \/ Rewrite(c) \/ Delete(c)
  <2>1. PICK c \in Clients : \E r : Change(c, r)
    BY <1>1 DEF Register, Rewrite, Delete
  <2>2. \A d \in Registered' \ {c} : rec'[d].mod # index'
    BY <2>1 DEF Change, IndexIsLatest
  <2>3. c \in Registered' /\ rec'[c].mod = index' => Awaited(c)'
    BY <2>1 DEF Change
  <2> QED
    BY <2>2, <2>3
<1>2. ASSUME NEW c \in Clients, Read(c), NEW d \in Registered' \ (missed' \cup {Self}),
             Latest(d)', ~Awaited(d)'
      PROVE  Of(modified', d, rec'[d].ip) # {}
  <2>1. CASE d = c
    <3> DEFINE item == [client |-> c, ip |-> rec[c].ip, data |-> rec[c].data]
    <3>1. item \in modified' /\ rec' = rec
      BY <1>2, <2>1 DEF Read
    <3>2. item.client = c /\ item.ip = rec[c].ip
      OBVIOUS
    <3> QED
      BY <2>1, <3>1, <3>2
  <2>2. CASE d # c
    BY <1>2, <2>2 DEF Read
  <2> QED
    BY <2>1, <2>2
<1>3. CASE \E c \in Clients : ReadFails(c)
  BY <1>3 DEF ReadFails
<1>4. CASE List
  BY <1>4 DEF List, Fresh
<1>5. CASE ListFails \/ Retry
  BY <1>5 DEF ListFails, Retry
<1>6. CASE EndOfReads
  BY <1>6 DEF EndOfReads, ToSend
<1>7. CASE ReceiveExpired
  BY <1>7 DEF ReceiveExpired, ToSend
<1>8. ASSUME ReceiveModified, NEW c \in Registered' \ (missed' \cup {Self}),
             Latest(c)', ~Awaited(c)'
      PROVE  wpc' \in {"query", "backoff"} /\ Settled(c)'
  <2>1. /\ hpc' = "set" /\ batch' = modified /\ wpc' = "query"
        /\ Of(modified, c, rec[c].ip) # {}
        /\ UNCHANGED <<rec, index, lastIndex, via>>
    BY <1>8 DEF ReceiveModified, ToSend, WatcherIsIdle
  <2>2. lastIndex = index
    BY <1>8, <2>1
  <2>3. \A i \in modified : i.ip = rec[c].ip => i.client = c
    BY <1>8, <2>1, <2>2 DEF FreshReadsAgree, WatcherIsIdle, ReceiveModified
  <2> QED
    BY <1>8, <2>1, <2>3
<1>9. CASE HandleLocal
  BY <1>9 DEF HandleLocal, IsLocal
<1>10. CASE HandleSet
  BY <1>10 DEF HandleSet
<1>11. CASE HandleDelete
  BY <1>11 DEF HandleDelete
<1>12. CASE EndOfBatch
  BY <1>12 DEF EndOfBatch
<1>13. CASE Restart
  BY <1>13 DEF Restart, IndexIsLatest
<1>14. CASE UNCHANGED <<rec, index, wpc, lastIndex, stubs, modified, hpc, batch, via, missed>>
  BY <1>14
<1>15. CASE ReceiveError \/ UNCHANGED vars
  BY <1>14, <1>15 DEF ReceiveError, vars
<1> HIDE DEF IInv, TypeOK, Latest, Awaited, Of, Settled, Registered, Record, Item
<1>16. CASE \E c \in Clients : Read(c)
  BY <1>2, <1>16 DEF LatestIsOnItsWay
<1>17. CASE ReceiveModified
  BY <1>8, <1>17 DEF LatestIsOnItsWay
<1> HIDE DEF LatestIsOnItsWay
<1> QED
  BY <1>1, <1>3, <1>4, <1>5, <1>6, <1>7, <1>9, <1>10, <1>11, <1>12, <1>13, <1>15, <1>16, <1>17
     DEF Step

\* The invariant holds: whatever the order of changes, reads, hand-overs and
\* routes, for any number of clients, subnets and changes.
THEOREM Invariance == Spec => []IInv
<1>1. IInv /\ [Next]_vars => IInv'
  BY StepIsNext, TypesStep, OwnRouteStep, IdleStep, LatestStep, SharedStep, ReadsAgreeStep,
     OnTheirWayStep, HeldStep, FreshStep, LatestWordStep DEF IInv
<1> QED
  BY InitHolds, <1>1, PTL DEF Spec

\* The variables have their types.
THEOREM TypeCorrect == Spec => []TypeOK
<1>1. IInv => TypeOK
  BY DEF IInv
<1> QED
  BY <1>1, Invariance, PTL

\* Once a host has caught up, its routes are those of the records.
THEOREM RoutesFollow == Spec => []RoutesFollowRecords
<1>1. ASSUME IInv, CaughtUp, NEW c \in Registered \ (missed \cup {Self}),
             rec[c].ip \notin shared
      PROVE  via[rec[c].ip] = c <=> ~rec[c].expired
  <2>1. ~Awaited(c)
    BY <1>1 DEF IInv, CaughtUp, WatcherIsIdle, IndexIsLatest, TypeOK, Awaited
  <2>2. expired = {} /\ modified = {}
    BY <1>1 DEF IInv, CaughtUp, WatcherIsIdle
  <2>3. Settled(c)
    BY <1>1, <2>1, <2>2 DEF IInv, ChangesAreOnTheirWay, Of
  <2> QED
    BY <1>1, <2>3 DEF CaughtUp, Settled
<1>2. IInv => RoutesFollowRecords
  BY <1>1 DEF RoutesFollowRecords
<1> QED
  BY <1>2, Invariance, PTL

\* Once a host has caught up, the subnet of the record that was written last is
\* routed to its client, whoever had it before.
THEOREM LatestWord == Spec => []LatestWordIsRouted
<1>1. ASSUME IInv, CaughtUp, NEW c \in Registered \ (missed \cup {Self}), Latest(c)
      PROVE  via[rec[c].ip] = c
  <2>1. ~Awaited(c) /\ modified = {}
    BY <1>1 DEF IInv, CaughtUp, WatcherIsIdle, IndexIsLatest, TypeOK, Awaited
  <2>2. Settled(c) /\ ~rec[c].expired
    BY <1>1, <2>1 DEF IInv, LatestIsOnItsWay, Latest, Of
  <2> QED
    BY <1>1, <2>2 DEF CaughtUp, Settled
<1>2. IInv => LatestWordIsRouted
  BY <1>1 DEF LatestWordIsRouted
<1> QED
  BY <1>2, Invariance, PTL

\* Once a host has caught up, a route to a client without the subnet is that of
\* a record the host could not know of, or of a failure.
THEOREM StaleRoutes == Spec => []StaleRoutesAreExplained
<1>1. ASSUME IInv, CaughtUp, NEW s \in Slots, via[s] \notin missed \cup strays \cup {NoClient}
      PROVE  via[s] \in Registered /\ rec[via[s]].ip = s /\ ~rec[via[s]].expired
  <2>1. Unhandled = {} /\ stubs = {}
    BY <1>1 DEF IInv, CaughtUp, WatcherIsIdle, Unhandled
  <2>2. Holds(via[s], s)
    BY <1>1, <2>1 DEF IInv, RoutesAreHeld, Of
  <2>3. ~Awaited(via[s])
    BY <1>1, <2>1, <2>2 DEF IInv, CaughtUp, WatcherIsIdle, IndexIsLatest, TypeOK, Awaited, Holds
  <2> QED
    BY <1>1, <2>2, <2>3 DEF Holds
<1>2. IInv => StaleRoutesAreExplained
  BY <1>1 DEF StaleRoutesAreExplained
<1> QED
  BY <1>2, Invariance, PTL
==============================================================================
