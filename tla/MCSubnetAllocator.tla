-------------------------- MODULE MCSubnetAllocator --------------------------
(***************************************************************************)
(* SubnetAllocator, for TLC, in an address space of 4 bits.                *)
(***************************************************************************)
EXTENDS SubnetAllocator

MCBlocks == {1, 2, 4, 8, 16}

\* Every configuration, well formed or not, of subnets no larger than the network.
AllConfigs == {c \in Config : c.sub <= c.block}

\* Those the runs of the allocation start from: the defaults and all explicit
\* ranges for which the code's range is the one meant.
GoodConfigs == {c \in AllConfigs : Validate(c) /\ WellFormed(Canonicalize(c))}
=============================================================================
