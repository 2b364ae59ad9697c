----------------------------- MODULE SubnetWatch -----------------------------
(***************************************************************************)
(* How one client agent follows the subnets of the others.                 *)
(*                                                                         *)
(* A watcher asks Nomad for the records of the network with a blocking     *)
(* query, reads those that changed, and hands the expired ones and then    *)
(* the others to a handler, over channels without a buffer.  The handler   *)
(* removes and sets the routes of the host.  A record that is deleted is   *)
(* not in the next listing, so no one is told of it.                       *)
(*                                                                         *)
(* The other agents and the reaper appear as what they do to the records:  *)
(* they register a subnet, which another may have in spite of all, rewrite *)
(* their record, mark one and delete one (see module Leases for when).     *)
(***************************************************************************)
EXTENDS Integers, FiniteSets

CONSTANTS
  Clients,     \* client IDs
  Self,        \* the client that watches
  Slots,       \* the subnets of the network
  Data,        \* what else a record says of its client
  NoClient,    \* the next hop of a subnet without a route
  NoRecord,    \* no record
  MaxIndex     \* bound: the records change no more than this many times

Record == [ip : Slots, data : Data, expired : BOOLEAN, mod : Nat]
Item   == [client : Clients, ip : Slots, data : Data]

ASSUME ConstantsAssumption ==
  /\ Self \in Clients
  /\ NoClient \notin Clients
  /\ NoRecord \notin Record
  /\ MaxIndex \in Nat \ {0}

VARIABLES
  rec,        \* rec[c]: the record of c, with its ModifyIndex
  index,      \* the index of the last change of any record
  wpc,        \* where the watcher is
  waitIndex,  \* the index it has seen everything up to
  lastIndex,  \* the index its listing was made at
  stubs,      \* names of the listing it has not read
  expired,    \* expiredConfigs: what it has read, to be deleted
  modified,   \* modifiedConfigs: what it has read, to be set
  errs,       \* errors in errCh, which has room for one
  hpc,        \* what the handler does
  batch,      \* the subnets it has not handled yet
  via,        \* via[s]: the client the host routes subnet s to
  missed,     \* history: clients a read or a route of which failed since
  heard,      \* history: clients whose record was expired when last read
  strays,     \* history: clients whose record went without the host removing
              \* the route: it did not hear of it, or failed
  shared      \* history: subnets two records have had at a time

watcher == <<wpc, waitIndex, lastIndex, stubs, expired, modified>>
handler == <<hpc, batch>>
history == <<missed, heard, strays, shared>>
vars == <<rec, index, watcher, errs, handler, via, history>>

Registered == {c \in Clients : rec[c] # NoRecord}

TypeOK ==
  /\ rec \in [Clients -> Record \cup {NoRecord}]
  /\ index \in 1 .. MaxIndex
  /\ wpc \in {"query", "read", "expired", "modified", "backoff"}
  /\ waitIndex \in 0 .. index /\ lastIndex \in 0 .. index
  /\ stubs \subseteq Clients
  /\ expired \subseteq Item /\ modified \subseteq Item
  /\ errs \in 0 .. 1
  /\ hpc \in {"select", "set", "delete"}
  /\ batch \subseteq Item
  /\ via \in [Slots -> Clients \cup {NoClient}]
  /\ missed \subseteq Clients /\ heard \subseteq Clients /\ strays \subseteq Clients
  /\ shared \subseteq Slots

Init ==
  /\ rec = [c \in Clients |-> NoRecord]
  /\ index = 1
  /\ wpc = "query" /\ waitIndex = 0 /\ lastIndex = 0
  /\ stubs = {} /\ expired = {} /\ modified = {}
  /\ errs = 0
  /\ hpc = "select" /\ batch = {}
  /\ via = [s \in Slots |-> NoClient]
  /\ missed = {} /\ heard = {} /\ strays = {}
  /\ shared = {}

-----------------------------------------------------------------------------
(* The records, as the other agents change them.                           *)

Change(c, r) ==
  /\ index < MaxIndex
  /\ index' = index + 1
  /\ rec' = [rec EXCEPT ![c] = r]
  /\ UNCHANGED <<watcher, errs, handler, via, missed, heard>>

\* A new record, or that of a client which goes on with one the reaper has
\* deleted, mark and all.
Register(c) ==
  /\ rec[c] = NoRecord
  /\ \E s \in Slots, x \in Data, marked \in BOOLEAN :
       /\ Change(c, [ip |-> s, data |-> x, expired |-> marked, mod |-> index + 1])
       /\ shared' = IF \E d \in Registered : rec[d].ip = s THEN shared \cup {s} ELSE shared
  /\ UNCHANGED strays

\* A heartbeat, or the publication of an adopted record: with the mark or not.
Rewrite(c) ==
  /\ rec[c] # NoRecord
  /\ \E marked \in BOOLEAN, x \in Data :
       Change(c, [rec[c] EXCEPT !.data = x, !.expired = marked, !.mod = index + 1])
  /\ UNCHANGED <<strays, shared>>

\* By the time it deletes a record that was marked, the reaper may delete one
\* that is not.
Delete(c) ==
  /\ rec[c] # NoRecord
  /\ Change(c, NoRecord)
  /\ strays' = IF c \in heard THEN strays ELSE strays \cup {c}
  /\ UNCHANGED shared

-----------------------------------------------------------------------------
(* The watcher: WatchSubnets.                                              *)

\* Nomad's answer, and the records whose stub is not too old.
MutantFresh(m) == m > waitIndex + 1
Fresh(m) == m >= waitIndex

\* The blocking query returns when there is something new.
List ==
  /\ wpc = "query" /\ index > waitIndex
  /\ lastIndex' = index
  /\ stubs' = {c \in Registered : Fresh(rec[c].mod)}
  /\ wpc' = "read"
  /\ UNCHANGED <<rec, index, waitIndex, expired, modified, errs, handler, via, history>>

\* The query fails; the watcher reports it and waits ten seconds.
ListFails ==
  /\ wpc = "query" /\ errs = 0
  /\ errs' = 1
  /\ wpc' = "backoff"
  /\ UNCHANGED <<rec, index, waitIndex, lastIndex, stubs, expired, modified, handler, via,
                 history>>

Retry ==
  /\ wpc = "backoff"
  /\ wpc' = "query"
  /\ UNCHANGED <<rec, index, waitIndex, lastIndex, stubs, expired, modified, errs, handler,
                 via, history>>

\* A record is read as it is by now, and goes into one of the two batches.
Read(c) ==
  /\ wpc = "read" /\ c \in stubs \cap Registered
  /\ stubs' = stubs \ {c}
  /\ LET item == [client |-> c, ip |-> rec[c].ip, data |-> rec[c].data] IN
       /\ expired'  = IF rec[c].expired THEN expired \cup {item} ELSE expired
       /\ modified' = IF rec[c].expired THEN modified ELSE modified \cup {item}
  /\ missed' = missed \ {c}
  /\ heard' = IF rec[c].expired THEN heard \cup {c} ELSE heard \ {c}
  /\ UNCHANGED <<rec, index, wpc, waitIndex, lastIndex, errs, handler, via, strays, shared>>

\* The read fails, or the record is gone by now: the watcher reports it (once
\* there is room) and goes on with the next one.
ReadFails(c) ==
  /\ wpc = "read" /\ c \in stubs /\ errs = 0
  /\ errs' = 1
  /\ stubs' = stubs \ {c}
  /\ missed' = missed \cup {c}
  /\ UNCHANGED <<rec, index, wpc, waitIndex, lastIndex, expired, modified, handler, via,
                 heard, strays, shared>>

\* The index to wait for next: that of the listing, not of the reads.
MutantSeen == index
Seen == lastIndex

\* What the watcher does next with these two batches: the expired ones go
\* first, and a batch without a subnet is not sent.
MutantToSend(exp, mod) ==
  IF mod # {} THEN "modified" ELSE IF exp # {} THEN "expired" ELSE "query"
ToSend(exp, mod) ==
  IF exp # {} THEN "expired" ELSE IF mod # {} THEN "modified" ELSE "query"

\* Everything is read.
EndOfReads ==
  /\ wpc = "read" /\ stubs = {}
  /\ wpc' = ToSend(expired, modified)
  /\ waitIndex' = IF wpc' = "query" THEN Seen ELSE waitIndex
  /\ UNCHANGED <<rec, index, lastIndex, stubs, expired, modified, errs, handler, via, history>>

-----------------------------------------------------------------------------
(* The channels, and the handler: subnetUpdateHandlerImpl.                 *)

\* <-ErrorCh
MutantReceiveError ==
  /\ hpc = "select" /\ errs = 1 /\ waitIndex = index
  /\ errs' = 0
  /\ UNCHANGED <<rec, index, watcher, handler, via, history>>
ReceiveError ==
  /\ hpc = "select" /\ errs = 1
  /\ errs' = 0
  /\ UNCHANGED <<rec, index, watcher, handler, via, history>>

\* <-DeleteCh: the watcher goes on to what is left.
ReceiveExpired ==
  /\ hpc = "select" /\ wpc = "expired"
  /\ hpc' = "delete" /\ batch' = expired /\ expired' = {}
  /\ wpc' = ToSend({}, modified)
  /\ waitIndex' = IF wpc' = "query" THEN Seen ELSE waitIndex
  /\ UNCHANGED <<rec, index, lastIndex, stubs, modified, errs, via, history>>

\* <-ModifyCh: the watcher goes on while the handler works.
ReceiveModified ==
  /\ hpc = "select" /\ wpc = "modified"
  /\ hpc' = "set" /\ batch' = modified /\ modified' = {}
  /\ wpc' = ToSend(expired, {})
  /\ waitIndex' = IF wpc' = "query" THEN Seen ELSE waitIndex
  /\ UNCHANGED <<rec, index, lastIndex, stubs, expired, errs, via, history>>

\* The client's own subnet is not for the handler to touch.
MutantIsLocal(i) == FALSE
IsLocal(i) == i.client = Self

HandleLocal ==
  /\ \E i \in batch : IsLocal(i) /\ batch' = batch \ {i}
  /\ UNCHANGED <<rec, index, watcher, errs, hpc, via, history>>

\* SetRemote, whose last step is the route.  If one fails the route is as
\* before, the error is logged and the subnet is not tried again.
HandleSet ==
  /\ hpc = "set"
  /\ \E i \in batch, ok \in BOOLEAN :
       /\ ~IsLocal(i)
       /\ batch' = batch \ {i}
       /\ via' = IF ok THEN [via EXCEPT ![i.ip] = i.client] ELSE via
       /\ missed' = IF ok THEN missed ELSE missed \cup {i.client}
  /\ UNCHANGED <<rec, index, watcher, errs, hpc, heard, strays, shared>>

\* DeleteRemote, whose first step is the route to the subnet, whoever's it is.
\* It succeeds or not, and if it does a later step may fail, which is logged.
HandleDelete ==
  /\ hpc = "delete"
  /\ \E i \in batch :
       /\ ~IsLocal(i)
       /\ batch' = batch \ {i}
       /\ \/ via' = [via EXCEPT ![i.ip] = NoClient] /\ UNCHANGED <<missed, strays>>
          \/ /\ via[i.ip] # NoClient
             /\ UNCHANGED via
             /\ missed' = missed \cup {i.client} /\ strays' = strays \cup {i.client}
  /\ UNCHANGED <<rec, index, watcher, errs, hpc, heard, shared>>

EndOfBatch ==
  /\ hpc # "select" /\ batch = {}
  /\ hpc' = "select"
  /\ UNCHANGED <<rec, index, watcher, errs, batch, via, history>>

\* Expired records the host has heard of and whose routes are still there.
Unhandled == expired \cup (IF hpc = "delete" THEN batch ELSE {})

\* The agent restarts: the watcher begins at index 0, and the routes are those
\* the kernel kept, or none after a reboot of the host.
Restart ==
  /\ wpc' = "query" /\ waitIndex' = 0 /\ lastIndex' = 0
  /\ stubs' = {} /\ expired' = {} /\ modified' = {}
  /\ errs' = 0
  /\ hpc' = "select" /\ batch' = {}
  /\ via' \in {via, [s \in Slots |-> NoClient]}
  /\ missed' = {} /\ heard' = {}
  /\ strays' = IF via' = via THEN strays \cup {i.client : i \in Unhandled} ELSE {}
  /\ shared' = {s \in Slots : \E c, d \in Registered : c # d /\ rec[c].ip = s /\ rec[d].ip = s}
  /\ UNCHANGED <<rec, index>>

-----------------------------------------------------------------------------

Records == \E c \in Clients : Register(c) \/ Rewrite(c) \/ Delete(c)

Watch ==
  \/ List \/ ListFails \/ Retry \/ EndOfReads
  \/ \E c \in Clients : Read(c) \/ ReadFails(c)

Handle ==
  \/ ReceiveError \/ ReceiveExpired \/ ReceiveModified
  \/ HandleLocal \/ HandleSet \/ HandleDelete \/ EndOfBatch

Next == Records \/ Watch \/ Handle \/ Restart

Spec == Init /\ [][Next]_vars

\* The process runs, whichever of its two goroutines that is, and not every
\* query fails.
FairSpec == Spec /\ WF_vars(Watch \/ Handle) /\ SF_vars(List)

-----------------------------------------------------------------------------
(* What holds.                                                             *)

\* The watcher has seen everything and everything is handled.
CaughtUp ==
  /\ wpc \in {"query", "backoff"} /\ waitIndex = index
  /\ hpc = "select"

\* Once caught up, the routes are those of the records: a record that is not
\* expired is routed to its client and an expired one is not, whatever changed
\* during the listing, the reads and the handling, and across restarts.
\* Excepted are the clients for which a read or a route failed, and the subnets
\* two clients have had at a time.
RoutesFollowRecords ==
  CaughtUp =>
    \A c \in Registered \ (missed \cup {Self}) :
      rec[c].ip \notin shared => (via[rec[c].ip] = c <=> ~rec[c].expired)

\* Once caught up, a route leads to a client whose record has that subnet and is
\* not expired, or there is an explanation: the host could not have known (the
\* record was deleted between two listings, or while the agent was down), or it
\* failed.  In particular no stale route is left by two listings that overlap,
\* by a subnet that changes hands, by one two clients have at a time or by a
\* record that is delivered twice.
StaleRoutesAreExplained ==
  CaughtUp =>
    \A s \in Slots :
      LET c == via[s] IN
        \/ c \in missed \cup strays \cup {NoClient}
        \/ c \in Registered /\ rec[c].ip = s /\ ~rec[c].expired

\* The record of c is the last one written, and no other that is not expired
\* has its subnet.
Latest(c) ==
  /\ rec[c].mod = index /\ ~rec[c].expired
  /\ \A d \in Registered \ {c} : rec[d].ip = rec[c].ip => rec[d].expired

\* Shared or not, a subnet is routed to the client whose heartbeat was the last
\* thing the host was told of, unless another with a claim to the subnet is
\* left: the expired record of an earlier holder, which deletes the route to the
\* subnet whoever's it is, is handled before the one that brings it back.
LatestWordIsRouted ==
  CaughtUp =>
    \A c \in Registered \ (missed \cup {Self}) : Latest(c) => via[rec[c].ip] = c

\* Where the agent is not restarted for ever, it catches up for good once the
\* records stop changing: no error and no full channel stops it.
EventuallyCaughtUp ==
  []<><<Restart>>_vars \/ <>[]CaughtUp

-----------------------------------------------------------------------------
(* Why: the inductive invariant, in named parts (proved in                 *)
(* SubnetWatchProofs).                                                     *)

\* The host's own record, which the watcher is told of, changes no route.
NoRouteToSelf == \A s \in Slots : via[s] # Self

\* Between two queries nothing is on its way, and everything the last listing
\* was made of has been seen.
WatcherIsIdle ==
  /\ wpc \in {"query", "backoff"} => waitIndex = lastIndex /\ modified = {}
  /\ wpc # "read" => stubs = {}
  /\ wpc \in {"query", "backoff", "modified"} => expired = {}
  /\ hpc = "select" => batch = {}

IndexIsLatest == \A c \in Registered : rec[c].mod \in 1 .. index

SharedIsRecorded ==
  \A c, d \in Registered : c # d /\ rec[c].ip = rec[d].ip => rec[c].ip \in shared

\* Items for subnet s of client c.
Of(items, c, s) == {i \in items : i.client = c /\ i.ip = s}

\* The watcher has not read the record since it last changed, but will.
Awaited(c) == c \in stubs \/ rec[c].mod > lastIndex

\* A record is read once per listing.  If it has not changed since the listing
\* and shares its subnet with no one, what has been read of the subnet is what
\* the record says.
ReadsAgree ==
  /\ \A i \in expired \cup modified : i.client \notin stubs
  /\ \A c \in Registered :
       rec[c].mod <= lastIndex /\ rec[c].ip \notin shared =>
         /\ \A i \in expired  : i.ip = rec[c].ip => i.client = c /\ rec[c].expired
         /\ \A i \in modified : i.ip = rec[c].ip => i.client = c /\ ~rec[c].expired

\* The host routes c's subnet as the record says, or is about to, and nothing
\* the handler has in hand is going to change it.
Settled(c) ==
  LET mine == Of(batch, c, rec[c].ip) IN
    IF rec[c].expired
    THEN /\ (hpc = "delete" /\ mine # {}) \/ via[rec[c].ip] # c
         /\ hpc = "set" => mine = {}
    ELSE /\ (hpc = "set" /\ mine # {}) \/ via[rec[c].ip] = c
         /\ \A i \in batch : i.ip = rec[c].ip => hpc = "set" /\ i.client = c

\* A record that has changed is still to be read, or has been read and is in the
\* right one of the two batches, or is settled.
ChangesAreOnTheirWay ==
  \A c \in Registered \ (missed \cup {Self}) :
    rec[c].ip \notin shared =>
      \/ Awaited(c)
      \/ Of(IF rec[c].expired THEN expired ELSE modified, c, rec[c].ip) # {}
      \/ Settled(c)

\* As long as nothing changes after the listing, what is read is what the
\* records say, whoever shares what.
FreshReadsAgree ==
  lastIndex = index =>
    /\ \A i \in expired \cup modified :
         i.client \in Registered /\ rec[i.client].ip = i.ip
    /\ \A i \in expired : rec[i.client].expired
    /\ \A i \in modified : ~rec[i.client].expired

\* The latest word is still to be read, or waits to be handed over, or is with
\* the handler, or routed; once it is handed over, nothing is left that could
\* undo it.
LatestIsOnItsWay ==
  \A c \in Registered \ (missed \cup {Self}) :
    Latest(c) =>
      \/ Awaited(c)
      \/ Of(modified, c, rec[c].ip) # {}
      \/ wpc \in {"query", "backoff"} /\ Settled(c)

\* The client still has the subnet, as far as the host could know.
Holds(c, s) ==
  /\ c \in Registered \ heard /\ rec[c].ip = s
  /\ rec[c].expired => Awaited(c) \/ c \in missed

\* A route that is there, or that is going to be, leads to a client that has
\* the subnet, or will be deleted after that, or is a stray.
RoutesAreHeld ==
  /\ \A s \in Slots : via[s] # NoClient =>
       \/ via[s] \in strays \/ Holds(via[s], s)
       \/ Of(Unhandled, via[s], s) # {}
  /\ hpc = "set" => \A i \in batch : i.client # Self =>
       \/ i.client \in strays \/ Holds(i.client, i.ip)
       \/ Of(expired, i.client, i.ip) # {}
  /\ \A i \in modified : i.client # Self => i.client \in strays \/ Holds(i.client, i.ip)

IInv ==
  /\ TypeOK /\ NoRouteToSelf
  /\ WatcherIsIdle /\ IndexIsLatest /\ SharedIsRecorded /\ ReadsAgree
  /\ ChangesAreOnTheirWay /\ RoutesAreHeld
  /\ FreshReadsAgree /\ LatestIsOnItsWay

=============================================================================
