---------------------------- MODULE MCSubnetWatch ----------------------------
(***************************************************************************)
(* SubnetWatch, for TLC, with the constants of the .cfg files.             *)
(***************************************************************************)
EXTENDS SubnetWatch
=============================================================================
