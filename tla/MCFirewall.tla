------------------------------ MODULE MCFirewall ------------------------------
(***************************************************************************)
(* Firewall, for TLC.                                                      *)
(***************************************************************************)
EXTENDS Firewall

CONSTANTS n1, n2

\* Nomad lists the networks by name.
ByName == {<<n1>>, <<n2>>, <<n1, n2>>}

\* No name begins with another, or the name of n2 begins with that of n1.
DistinctNames == [n \in Networks |-> {n}]
PrefixedNames == [n \in Networks |-> IF n = n1 THEN {n1, n2} ELSE {n}]
=============================================================================
