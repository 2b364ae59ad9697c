---------------------------- MODULE LeaseRegistry ----------------------------
(***************************************************************************)
(* What the store of subnet leases promises to those who read it, whoever  *)
(* writes it and however stale the data they write from: a registered      *)
(* lease keeps its subnet and its expiration for as long as it is          *)
(* registered, only the mark comes and goes; no lease is marked before it  *)
(* has run out; and none leaves before the threshold has passed too.       *)
(*                                                                         *)
(* Module Leases implements this specification.                            *)
(***************************************************************************)
EXTENDS Integers

CONSTANTS Clients, Slots, NoLease, TTL, Threshold, MaxTime

VARIABLES now, lease

Entry(times) == [ip : Slots, exp : times, expired : BOOLEAN]

Init == now = 0 /\ lease = [c \in Clients |-> NoLease]

Tick == now < MaxTime /\ now' = now + 1 /\ UNCHANGED lease

\* A lease appears, never for longer than the TTL.  One that is registered
\* late, by a slow or a revived client, may have run out already.
Register(c) ==
  /\ lease[c] = NoLease
  /\ \E r \in Entry(0 .. now + TTL) :
       /\ r.expired => r.exp < now
       /\ lease' = [lease EXCEPT ![c] = r]
  /\ UNCHANGED now

\* A registered lease is marked, or its mark is taken away again.
SetMark(c, marked) ==
  /\ lease[c] # NoLease
  /\ marked => lease[c].exp < now
  /\ lease' = [lease EXCEPT ![c].expired = marked]
  /\ UNCHANGED now

\* A lease leaves, past its expiration and the threshold.
Remove(c) ==
  /\ lease[c] # NoLease
  /\ lease[c].exp + Threshold < now
  /\ lease' = [lease EXCEPT ![c] = NoLease]
  /\ UNCHANGED now

Next ==
  \/ Tick
  \/ \E c \in Clients :
       \/ Register(c) \/ Remove(c)
       \/ \E marked \in BOOLEAN : SetMark(c, marked)

Spec == Init /\ [][Next]_<<now, lease>>
=============================================================================
