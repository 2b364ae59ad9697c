----------------------------- MODULE MCVxlanRoutes -----------------------------
(***************************************************************************)
(* VxlanRoutes, for TLC, with the constants of the .cfg files.             *)
(***************************************************************************)
EXTENDS VxlanRoutes, TLC

CONSTANTS c1, c2, a1, a2, b1, h1, h2

\* The host of client c1 gets a device with another address.
MCVteps ==
  {[mac |-> a1, host |-> h1], [mac |-> a2, host |-> h1], [mac |-> b1, host |-> h2]}

MCOwner == [m \in MACs |-> IF m = b1 THEN c2 ELSE c1]

\* The subnets are alike, and so are the two addresses of c1.
Symmetry == Permutations(Slots) \cup Permutations({a1, a2})
================================================================================
