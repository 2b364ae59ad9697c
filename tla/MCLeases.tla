------------------------------ MODULE MCLeases ------------------------------
(***************************************************************************)
(* Leases, for TLC.                                                        *)
(***************************************************************************)
EXTENDS Leases, TLC

\* Clients and subnets are interchangeable in the safety properties.
Symmetry == Permutations(Clients) \cup Permutations(Slots)
=============================================================================
