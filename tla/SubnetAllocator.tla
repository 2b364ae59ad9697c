--------------------------- MODULE SubnetAllocator ---------------------------
(***************************************************************************)
(* The choice of a subnet for a client: the network configuration, its     *)
(* validation and defaults, and GenerateIPv4Subnet, which probes at random *)
(* while the network is sparse and searches in sequence when it is dense   *)
(* or the probes are used up.                                              *)
(*                                                                         *)
(* Addresses are the integers below N, the size of the address space, and  *)
(* all arithmetic on them wraps.  A prefix length is given by the size of  *)
(* its block, a power of two.                                              *)
(***************************************************************************)
EXTENDS Integers, FiniteSets

CONSTANTS
  N,          \* addresses in the address space (2^32)
  Blocks,     \* the block sizes of the prefix lengths 0 .. 32
  Configs,    \* network configurations, as they are in the store
  Attempts    \* random probes before the sequential search (1000 or more)

Addr == 0 .. N - 1
Wrap(x) == x % N

\* ip and block are the network, min and max the range (0 if not given), and
\* sub the size of a client's subnet.
Config == {c \in [ip : Addr, block : Blocks, min : Addr, max : Addr, sub : Blocks] :
             c.ip % c.block = 0}

ASSUME NAssumption == N \in Nat /\ N > 1
ASSUME BlocksAssumption == /\ Blocks \subseteq 1 .. N
                           /\ \A b \in Blocks : b < N => 2 * b <= N
ASSUME ConfigsAssumption == Configs \subseteq Config
ASSUME AttemptsAssumption == Attempts \in Nat

VARIABLES
  net,       \* the configuration, with its defaults filled in
  taken,     \* the addresses of the subnets on record
  phase,     \* where the allocation is
  used,      \* usedSubnets: what it has been told is taken
  attempt,   \* the number of probes made
  next,      \* candidateIP of the sequential search
  result     \* the address chosen

vars == <<net, taken, phase, used, attempt, next, result>>

-----------------------------------------------------------------------------
(* The configuration.                                                      *)

\* The network's last address: NextNetwork().IP - 1.
LastAddr(c) == Wrap(c.ip + c.block - 1)

\* The maximum is not looked at, nor how the subnet's size relates to the
\* network's.
Validate(c) ==
  /\ c.sub < N
  /\ c.min # 0 => c.ip <= c.min /\ c.min <= LastAddr(c)

\* The defaults leave out the first and the last subnet of the network.
Canonicalize(c) ==
  [c EXCEPT !.min = IF @ = 0 THEN Wrap(c.ip + c.sub) ELSE @,
            !.max = IF @ = 0 THEN Wrap(c.ip + c.block - c.sub - 1) ELSE @]

\* What a configuration must also satisfy, and no code checks: the range is
\* in the network and begins on a subnet's boundary.
WellFormed(c) ==
  /\ c.ip <= c.min /\ c.min <= c.max /\ c.max <= c.ip + c.block - 1
  /\ c.min % c.sub = 0 /\ c.block % c.sub = 0 /\ c.ip % c.sub = 0

\* A record is read back in CIDR notation, without the host bits.
Decode(a) == a - (a % net.sub)

-----------------------------------------------------------------------------
(* GenerateIPv4Subnet.                                                     *)

MutantTotalSubnets == Wrap(net.max - net.min) + 1
TotalSubnets == Wrap(net.max - net.min) \div net.sub + 1

\* Above 80% of utilization the probes are skipped.
Dense == 5 * Cardinality(used) >= 4 * TotalSubnets

\* randInt converts the total to 32 bits with a sign; Int31n panics unless the
\* outcome is positive.
RandPanics == LET t == TotalSubnets % N IN t = 0 \/ t >= N \div 2

Begin ==
  /\ phase = "idle"
  /\ used' = taken
  /\ phase' = "choose"
  /\ UNCHANGED <<net, taken, attempt, next, result>>

StartSearch ==
  /\ phase = "choose" /\ Dense
  /\ phase' = "search"
  /\ next' = net.min
  /\ UNCHANGED <<net, taken, used, attempt, result>>

StartProbing ==
  /\ phase = "choose" /\ ~Dense
  /\ phase' = IF RandPanics /\ Attempts > 0 THEN "panic" ELSE "probe"
  /\ attempt' = 0
  /\ UNCHANGED <<net, taken, used, next, result>>

MutantFree(a) == a = net.min \/ a \notin used
Free(a) == a \notin used

MutantCandidate(i) == Wrap(net.min + i)
Candidate(i) == Wrap(net.min + i * net.sub)

\* One probe: a candidate above the maximum is passed over, one that is free
\* is taken.
Probe ==
  /\ phase = "probe" /\ attempt < Attempts
  /\ \E i \in 0 .. TotalSubnets - 1 :
       IF Candidate(i) <= net.max /\ Free(Candidate(i))
       THEN phase' = "found" /\ result' = Candidate(i) /\ attempt' = 0
       ELSE UNCHANGED <<phase, result>> /\ attempt' = attempt + 1
  /\ UNCHANGED <<net, taken, used, next>>

ProbesExhausted ==
  /\ phase = "probe" /\ attempt = Attempts
  /\ phase' = "search"
  /\ next' = net.min
  /\ attempt' = 0
  /\ UNCHANGED <<net, taken, used, result>>

\* The step after a would pass the maximum, or the end of the address space.
MutantIsLast(a) == a >= Wrap(net.max - net.sub)
MutantNeverLast(a) == FALSE
IsLast(a) == a > Wrap(net.max - net.sub)

\* One round of the sequential search.
Search ==
  /\ phase = "search"
  /\ IF next <= net.max /\ Free(next)
     THEN phase' = "found" /\ result' = next /\ next' = 0
     ELSE IF next > net.max \/ IsLast(next)
     THEN phase' = "full" /\ next' = 0 /\ UNCHANGED result
     ELSE next' = Wrap(next + net.sub) /\ UNCHANGED <<phase, result>>
  /\ UNCHANGED <<net, taken, used, attempt>>

\* The chosen subnet is put on record, and the network is full for the client
\* that is told so.
Finish ==
  /\ phase \in {"found", "full"}
  /\ taken' = IF phase = "found" THEN taken \cup {Decode(result)} ELSE taken
  /\ phase' = "idle" /\ result' = 0 /\ used' = {}
  /\ UNCHANGED <<net, attempt, next>>

\* The reaper deletes a record.
Release(a) ==
  /\ phase = "idle"
  /\ a \in taken
  /\ taken' = taken \ {a}
  /\ UNCHANGED <<net, phase, used, attempt, next, result>>

-----------------------------------------------------------------------------

Init ==
  /\ \E c \in Configs : Validate(c) /\ net = Canonicalize(c)
  /\ taken = {} /\ used = {}
  /\ phase = "idle"
  /\ attempt = 0 /\ next = 0 /\ result = 0

Generate ==
  \/ StartSearch \/ StartProbing \/ Probe \/ ProbesExhausted \/ Search

Next ==
  \/ Begin \/ Generate \/ Finish
  \/ \E a \in taken : Release(a)

\* Once begun, GenerateIPv4Subnet runs to its end.
Spec == Init /\ [][Next]_vars /\ WF_vars(Generate)

-----------------------------------------------------------------------------
(* What holds, of well-formed configurations where the name says so.       *)

TypeOK ==
  /\ net \in [ip : Addr, block : Blocks, min : Addr, max : Addr, sub : Blocks]
  /\ taken \subseteq Addr /\ used \subseteq Addr
  /\ phase \in {"idle", "choose", "probe", "search", "found", "full", "panic"}
  /\ attempt \in 0 .. Attempts
  /\ next \in Addr /\ result \in Addr

\* The subnet found, by either strategy, is none of the used ones and within
\* the range, which must not be empty.
FoundIsAvailable ==
  phase = "found" => /\ result \notin used /\ result <= net.max
                     /\ net.min <= net.max => net.min <= result

\* "full" is said only of a network every subnet of which is used: the search
\* in sequence stops neither short of the maximum nor beyond it.
FullIsFull ==
  phase = "full" => \A i \in 0 .. N : net.min + i * net.sub <= net.max
                                         => net.min + i * net.sub \in used

\* The subnets on record lie in the network and have no address in common,
\* with each other or with the one found, although only their first addresses
\* are compared and a record is read back without the host bits.
Block(a) == a .. a + net.sub - 1
RecordsAreDisjoint ==
  WellFormed(net) =>
    /\ \A a \in taken : Block(a) \subseteq net.ip .. net.ip + net.block - 1
    /\ \A a, b \in taken : a # b => Block(a) \cap Block(b) = {}
    /\ phase = "found" => \A a \in taken : Block(Decode(result)) \cap Block(a) = {}

\* No random number is asked of an empty or a negative interval, unless subnets
\* of one address divide half of the address space or more.
NoPanic ==
  WellFormed(net) /\ (net.sub = 1 => net.block < N \div 2) => phase # "panic"

\* Every allocation comes to an end, at the end of the address space too.
Terminates == phase = "choose" ~> phase \in {"found", "full", "panic"}

\* Every round brings the end nearer: a probe uses up an attempt, and the search
\* does not wrap and begin again.  Left bounds the rounds to come.
Left ==
  CASE phase = "choose" -> Attempts + N + 2
    [] phase = "probe"  -> Attempts - attempt + N + 1
    [] phase = "search" -> N - next
    [] OTHER            -> 0
RoundsRunOut == [][Generate => Left' \in Nat /\ Left' < Left]_vars

-----------------------------------------------------------------------------
(* Why: the inductive invariant (proved in SubnetAllocatorProofs).         *)

\* The search has seen every subnet before the next one to be used.
SearchedAreUsed ==
  phase = "search" =>
    \E j \in 0 .. N : /\ next = net.min + j * net.sub
                     /\ \A i \in 0 .. j - 1 : net.min + i * net.sub \in used

\* The records lie on subnet boundaries, within the network.
RecordsAreAligned ==
  WellFormed(net) =>
    \A a \in taken : /\ a % net.sub = 0
                     /\ net.ip <= a /\ a + net.sub <= net.ip + net.block

\* What is found lies on a boundary too, and what is used is what is on record.
FoundIsAligned ==
  WellFormed(net) /\ phase = "found" => result % net.sub = 0
UsedAreTaken == phase # "idle" => used = taken

\* The network lies on a boundary of its size, and a range never begins at 0 by
\* default: that would be the network's first subnet.
NetIsAligned == net.ip % net.block = 0 /\ (net.ip = 0 => net.min # 0)

IInv ==
  /\ TypeOK /\ net.sub < N
  /\ FoundIsAvailable /\ FullIsFull /\ SearchedAreUsed
  /\ RecordsAreAligned /\ FoundIsAligned /\ UsedAreTaken /\ NetIsAligned

=============================================================================
