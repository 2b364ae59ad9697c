------------------------ MODULE SubnetAllocatorProofs ------------------------
(***************************************************************************)
(* Proofs about SubnetAllocator, for address spaces of every size.         *)
(***************************************************************************)
EXTENDS SubnetAllocator, TLAPS

-----------------------------------------------------------------------------
(* Arithmetic.                                                             *)

\* Arithmetic that wraps stays among the addresses.
LEMMA WrapIsAddr == ASSUME NEW x \in Int PROVE Wrap(x) \in Addr
BY NAssumption DEF Wrap, Addr

\* ... and does nothing to one.
LEMMA WrapOfAddr == ASSUME NEW x \in Addr PROVE Wrap(x) = x
BY NAssumption DEF Wrap, Addr

\* Multiples of s up to the quotient of d stay below d.
LEMMA MultiplesBelow ==
  ASSUME NEW d \in Nat, NEW s \in Nat \ {0}, NEW i \in 0 .. d \div s
  PROVE  i * s \in 0 .. d
<1>1. s * (d \div s) <= d /\ d \div s \in Nat
  OBVIOUS
<1>2. i * s <= s * (d \div s)
  BY <1>1
<1>3. i * s \in Nat
  OBVIOUS
<1> QED
  BY <1>1, <1>2, <1>3

\* The order of multiples is that of their factors.
LEMMA FactorOrder ==
  ASSUME NEW s \in Nat \ {0}, NEW i \in Nat, NEW j \in Nat, i * s < j * s
  PROVE  i < j
<1>1. SUFFICES ASSUME j <= i PROVE FALSE
  OBVIOUS
<1>2. j * s <= i * s
  BY <1>1
<1> QED
  BY <1>2

\* A multiple of a block size has no remainder.
LEMMA MultipleMod ==
  ASSUME NEW s \in Nat \ {0}, NEW k \in Nat
  PROVE  (s * k) % s = 0
OBVIOUS

\* Steps of s from a multiple of s end on multiples of s.
LEMMA MultipleSteps ==
  ASSUME NEW s \in Nat \ {0}, NEW x \in Nat, x % s = 0, NEW k \in Nat
  PROVE  (x + k * s) % s = 0
<1>1. x = s * (x \div s) /\ x \div s \in Nat
  OBVIOUS
<1>2. x + k * s = s * ((x \div s) + k) /\ (x \div s) + k \in Nat
  BY <1>1
<1>3. (s * ((x \div s) + k)) % s = 0
  BY <1>2, MultipleMod
<1> QED
  BY <1>2, <1>3

\* Rounding down to a multiple of s keeps a number between multiples of s.
LEMMA RoundingDown ==
  ASSUME NEW s \in Nat \ {0}, NEW x \in Nat
  PROVE  /\ (x - (x % s)) % s = 0 /\ x - (x % s) \in Nat
         /\ \A y \in Nat : y % s = 0 /\ y <= x => y <= x - (x % s)
         /\ \A y \in Nat : y % s = 0 /\ x < y => x - (x % s) + s <= y
<1>1. x = s * (x \div s) + (x % s) /\ x \div s \in Nat /\ x % s \in 0 .. s - 1
  OBVIOUS
<1>2. x - (x % s) = s * (x \div s)
  BY <1>1
<1>3. (s * (x \div s)) % s = 0
  BY <1>1
<1>4. ASSUME NEW y \in Nat, y % s = 0, y <= x PROVE y <= x - (x % s)
  <2>1. y = s * (y \div s) /\ y \div s \in Nat
    BY <1>4
  <2>2. (y \div s) * s < ((x \div s) + 1) * s
    BY <1>1, <1>4, <2>1
  <2>3. y \div s <= x \div s
    BY <1>1, <2>1, <2>2, FactorOrder
  <2> QED
    BY <1>1, <1>2, <2>1, <2>3
<1>5. ASSUME NEW y \in Nat, y % s = 0, x < y PROVE x - (x % s) + s <= y
  <2>1. y = s * (y \div s) /\ y \div s \in Nat
    BY <1>5
  <2>2. (x \div s) * s < (y \div s) * s
    BY <1>1, <1>5, <2>1
  <2>3. (x \div s) + 1 <= y \div s
    BY <1>1, <2>1, <2>2, FactorOrder
  <2>4. s * ((x \div s) + 1) <= s * (y \div s)
    BY <1>1, <2>1, <2>3
  <2> QED
    BY <1>1, <1>2, <2>1, <2>4
<1> QED
  BY <1>1, <1>2, <1>3, <1>4, <1>5

-----------------------------------------------------------------------------
(* The configuration.                                                      *)

NetType == net \in [ip : Addr, block : Blocks, min : Addr, max : Addr, sub : Blocks]

\* What the arithmetic needs to know of a configuration.
LEMMA NetNumbers ==
  ASSUME NetType, net.sub < N
  PROVE  /\ net.sub \in Nat \ {0} /\ 2 * net.sub <= N
         /\ net.min \in Addr /\ net.max \in Addr /\ net.ip \in Addr
         /\ net.block \in Nat \ {0}
<1>1. /\ net.sub \in Blocks /\ net.block \in Blocks
      /\ net.min \in Addr /\ net.max \in Addr /\ net.ip \in Addr
  BY DEF NetType
<1>2. \A b \in Blocks : b \in 1 .. N
  BY BlocksAssumption
<1>3. 2 * net.sub <= N
  BY <1>1, BlocksAssumption
<1>4. net.sub \in 1 .. N /\ net.block \in 1 .. N
  BY <1>1, <1>2
<1> QED
  BY <1>1, <1>3, <1>4, NAssumption

\* Canonicalize yields a configuration: the fields keep their types.
LEMMA CanonicalIsConfig ==
  ASSUME NEW c \in Config, Validate(c)
  PROVE  /\ Canonicalize(c) \in [ip : Addr, block : Blocks, min : Addr, max : Addr, sub : Blocks]
         /\ Canonicalize(c).sub < N
<1>1. /\ c.ip \in Addr /\ c.block \in Blocks /\ c.min \in Addr /\ c.max \in Addr
      /\ c.sub \in Blocks /\ c.sub < N /\ c.block \in Int /\ c.sub \in Int /\ c.ip \in Int
  <2>1. /\ c.ip \in Addr /\ c.block \in Blocks /\ c.min \in Addr /\ c.max \in Addr
        /\ c.sub \in Blocks /\ c.sub < N
    BY DEF Config, Validate
  <2>2. \A b \in Blocks : b \in 1 .. N
    BY BlocksAssumption
  <2> QED
    BY <2>1, <2>2, NAssumption DEF Addr
<1>2. Wrap(c.ip + c.sub) \in Addr /\ Wrap(c.ip + c.block - c.sub - 1) \in Addr
  BY <1>1, WrapIsAddr
<1> DEFINE mn == IF c.min = 0 THEN Wrap(c.ip + c.sub) ELSE c.min
           mx == IF c.max = 0 THEN Wrap(c.ip + c.block - c.sub - 1) ELSE c.max
<1>3. mn \in Addr /\ mx \in Addr
  BY <1>1, <1>2
<1>4. Canonicalize(c) = [c EXCEPT !.min = mn, !.max = mx]
  BY DEF Canonicalize
<1>5. c \in [ip : Addr, block : Blocks, min : Addr, max : Addr, sub : Blocks]
  BY DEF Config
<1> HIDE DEF mn, mx
<1> QED
  BY <1>1, <1>3, <1>4, <1>5

\* In a range that is not empty no candidate of a probe wraps.
LEMMA CandidateInRange ==
  ASSUME NetType, net.sub < N, net.min <= net.max, NEW i \in 0 .. TotalSubnets - 1
  PROVE  /\ net.min <= Candidate(i) /\ Candidate(i) <= net.max
         /\ Candidate(i) = net.min + i * net.sub /\ i \in Nat
<1> DEFINE d == net.max - net.min
<1>1. d \in Nat /\ d < N /\ net.sub \in Nat \ {0}
  BY NetNumbers, NAssumption DEF Addr
<1>2. i \in 0 .. d \div net.sub
  BY <1>1, WrapOfAddr, NAssumption DEF TotalSubnets, Addr
<1>3. i * net.sub \in 0 .. d
  BY <1>1, <1>2, MultiplesBelow
<1>4. net.min + i * net.sub \in Addr
  BY <1>1, <1>3, NetNumbers, NAssumption DEF Addr
<1> QED
  BY <1>1, <1>3, <1>4, WrapOfAddr, NetNumbers DEF Candidate, Addr

-----------------------------------------------------------------------------
(* The inductive invariant.                                                *)

\* Every configuration that is accepted starts with no subnet on record.
LEMMA InvInit == Init => IInv
<1> SUFFICES ASSUME Init PROVE IInv
  OBVIOUS
<1>1. PICK c \in Config : Validate(c) /\ net = Canonicalize(c)
  BY ConfigsAssumption DEF Init
<1>2. NetType /\ net.sub < N
  BY <1>1, CanonicalIsConfig DEF NetType
<1>3. NetIsAligned
  <2>1. c.ip % c.block = 0 /\ net.ip = c.ip /\ net.block = c.block
    BY <1>1 DEF Config, Canonicalize
  <2>2. net.min = IF c.min = 0 THEN Wrap(c.ip + c.sub) ELSE c.min
    BY <1>1 DEF Config, Canonicalize
  <2>3. c.sub \in 1 .. N /\ c.sub < N
    BY <1>1, BlocksAssumption DEF Config, Validate
  <2>4. Wrap(0 + c.sub) # 0
    BY <2>3, WrapOfAddr, NAssumption DEF Addr
  <2> QED
    BY <2>1, <2>2, <2>4 DEF NetIsAligned
<1> QED
  BY <1>2, <1>3, NAssumption, AttemptsAssumption
     DEF Init, IInv, TypeOK, NetType, FoundIsAvailable, FullIsFull, SearchedAreUsed,
         RecordsAreAligned, FoundIsAligned, UsedAreTaken, NetIsAligned, Addr

\* One round of the search.
LEMMA SearchStep ==
  ASSUME IInv, Search
  PROVE  /\ FoundIsAvailable' /\ FullIsFull' /\ SearchedAreUsed' /\ FoundIsAligned'
         /\ next' \in Addr
         /\ phase' = "search" => next < next'
<1> USE DEF NetType
<1>1. PICK j \in 0 .. N : /\ next = net.min + j * net.sub
                          /\ \A i \in 0 .. j - 1 : net.min + i * net.sub \in used
  BY DEF Search, IInv, SearchedAreUsed
<1>2. /\ net.sub \in Nat \ {0} /\ 2 * net.sub <= N /\ net.min \in Addr /\ net.max \in Addr
      /\ next \in Addr /\ j \in Nat /\ N \in Nat
  BY <1>1, NetNumbers, NAssumption DEF IInv, TypeOK
<1>3. j * net.sub \in Nat
  BY <1>2
<1>4. /\ net' = net /\ used' = used /\ phase = "search"
  BY DEF Search
<1>5. CASE next <= net.max /\ Free(next)
  <2>1. phase' = "found" /\ result' = next /\ next' = 0
    BY <1>5 DEF Search
  <2>2. WellFormed(net) => next % net.sub = 0
    <3>1. WellFormed(net) => net.min % net.sub = 0
      BY DEF WellFormed
    <3>2. net.min \in Nat
      BY <1>2 DEF Addr
    <3>3. net.min % net.sub = 0 => (net.min + j * net.sub) % net.sub = 0
      BY <1>2, <3>2, MultipleSteps
    <3> QED
      BY <1>1, <3>1, <3>3
  <2> QED
    BY <1>1, <1>2, <1>3, <1>4, <1>5, <2>1, <2>2
       DEF Free, FoundIsAvailable, FullIsFull, SearchedAreUsed, FoundIsAligned, Addr
<1>6. CASE ~(next <= net.max /\ Free(next)) /\ (next > net.max \/ IsLast(next))
  <2>1. phase' = "full" /\ next' = 0
    BY <1>6 DEF Search
  <2>2. net.max < next + net.sub
    <3>1. CASE next > net.max
      BY <1>2, <3>1 DEF Addr
    <3>2. CASE net.max >= net.sub
      <4>1. Wrap(net.max - net.sub) = net.max - net.sub
        BY <1>2, <3>2, WrapOfAddr DEF Addr
      <4> QED
        BY <1>2, <1>6, <3>2, <4>1 DEF IsLast, Addr
    <3>3. CASE net.max < net.sub
      BY <1>2, <3>3 DEF Addr
    <3> QED
      BY <1>2, <3>1, <3>2, <3>3 DEF Addr
  <2>3. next > net.max \/ next \in used
    BY <1>2, <1>6 DEF Free, Addr
  <2>4. ASSUME NEW i \in 0 .. N, net.min + i * net.sub <= net.max
        PROVE  net.min + i * net.sub \in used
    <3>1. i * net.sub \in Nat
      BY <1>2
    <3>2. CASE next > net.max
      <4>1. i * net.sub < j * net.sub
        BY <1>1, <1>2, <1>3, <2>4, <3>1, <3>2 DEF Addr
      <4>2. i < j
        BY <1>2, <4>1, FactorOrder
      <4> QED
        BY <1>1, <1>2, <4>2
    <3>3. CASE next \in used
      <4>1. i * net.sub < (j + 1) * net.sub
        BY <1>1, <1>2, <1>3, <2>2, <2>4, <3>1 DEF Addr
      <4>2. i < j + 1
        BY <1>2, <4>1, FactorOrder
      <4>3. i = j \/ i \in 0 .. j - 1
        BY <1>2, <4>2
      <4> QED
        BY <1>1, <3>3, <4>3
    <3> QED
      BY <2>3, <3>2, <3>3
  <2> QED
    BY <1>2, <1>4, <2>1, <2>4
       DEF FoundIsAvailable, FullIsFull, SearchedAreUsed, FoundIsAligned, Addr
<1>7. CASE ~(next <= net.max /\ Free(next)) /\ ~(next > net.max \/ IsLast(next))
  <2>1. phase' = phase /\ next' = Wrap(next + net.sub) /\ next \in used /\ next <= net.max
    BY <1>2, <1>7 DEF Search, Free, Addr
  <2>2. next + net.sub < N
    <3>1. CASE net.max >= net.sub
      <4>1. Wrap(net.max - net.sub) = net.max - net.sub
        BY <1>2, <3>1, WrapOfAddr DEF Addr
      <4> QED
        BY <1>2, <1>7, <3>1, <4>1 DEF IsLast, Addr
    <3>2. CASE net.max < net.sub
      BY <1>2, <2>1, <3>2 DEF Addr
    <3> QED
      BY <1>2, <3>1, <3>2 DEF Addr
  <2>3. next' = net.min + (j + 1) * net.sub /\ next' \in Addr
    BY <1>1, <1>2, <1>3, <2>1, <2>2, WrapOfAddr DEF Addr
  <2>4. j + 1 \in 0 .. N
    <3>1. j <= j * net.sub
      BY <1>2
    <3> QED
      BY <1>1, <1>2, <1>3, <2>2, <3>1 DEF Addr
  <2>5. \A i \in 0 .. (j + 1) - 1 : net.min + i * net.sub \in used
    BY <1>1, <1>2, <2>1
  <2>6. next < next'
    BY <1>2, <2>1, <2>2, WrapOfAddr DEF Addr
  <2> QED
    BY <1>4, <2>1, <2>3, <2>4, <2>5, <2>6
       DEF FoundIsAvailable, FullIsFull, SearchedAreUsed, FoundIsAligned
<1> QED
  BY <1>5, <1>6, <1>7

\* A record put down on a subnet's boundary within the network.
LEMMA DecodedIsAligned ==
  ASSUME IInv, WellFormed(net), phase = "found"
  PROVE  /\ Decode(result) % net.sub = 0 /\ Decode(result) \in Addr
         /\ net.ip <= Decode(result) /\ Decode(result) + net.sub <= net.ip + net.block
<1>1. /\ net.sub \in Nat \ {0} /\ net.ip \in Nat /\ net.block \in Nat \ {0}
      /\ net.min \in Nat /\ net.max \in Nat /\ result \in Nat /\ result < N /\ N \in Nat
  BY NetNumbers, NAssumption DEF IInv, TypeOK, NetType, Addr
<1>2. net.ip <= result /\ result < net.ip + net.block
  BY <1>1 DEF IInv, FoundIsAvailable, WellFormed
<1>3. net.ip % net.sub = 0 /\ (net.ip + net.block) % net.sub = 0 /\ net.ip + net.block \in Nat
  <2>1. net.ip % net.sub = 0 /\ net.block % net.sub = 0
    BY DEF WellFormed
  <2>2. net.ip = net.sub * (net.ip \div net.sub) /\ net.ip \div net.sub \in Nat
    BY <1>1, <2>1
  <2>3. net.block = net.sub * (net.block \div net.sub) /\ net.block \div net.sub \in Nat
    BY <1>1, <2>1
  <2>4. net.ip + net.block = net.sub * ((net.ip \div net.sub) + (net.block \div net.sub))
    BY <1>1, <2>2, <2>3
  <2> QED
    BY <1>1, <2>1, <2>2, <2>3, <2>4, MultipleMod
<1>4. result - (result % net.sub) <= result
  BY <1>1
<1>5. /\ Decode(result) % net.sub = 0 /\ Decode(result) \in Nat
      /\ net.ip <= Decode(result)
      /\ Decode(result) + net.sub <= net.ip + net.block
  BY ONLY <1>1, <1>2, <1>3, RoundingDown DEF Decode
<1>6. Decode(result) \in Addr
  BY ONLY <1>1, <1>4, <1>5 DEF Decode, Addr
<1> QED
  BY <1>5, <1>6

\* No step of the search, of a release or of a registration breaks the invariant.
LEMMA InvStep == IInv /\ [Next]_vars => IInv'
<1> SUFFICES ASSUME IInv, [Next]_vars PROVE IInv'
  OBVIOUS
<1>1. CASE Begin
  BY <1>1 DEF Begin, IInv, TypeOK, FoundIsAvailable, FullIsFull, SearchedAreUsed,
              RecordsAreAligned, FoundIsAligned, UsedAreTaken, NetIsAligned
<1>2. CASE StartSearch \/ ProbesExhausted
  <2>1. /\ phase # "idle" /\ phase' = "search" /\ next' = net.min /\ attempt' \in 0 .. Attempts
        /\ UNCHANGED <<net, taken, used, result>>
    BY <1>2, AttemptsAssumption DEF StartSearch, ProbesExhausted, IInv, TypeOK
  <2>2. net.min = net.min + 0 * net.sub /\ net.min \in Addr
    BY NetNumbers DEF IInv, TypeOK, NetType, Addr
  <2>3. SearchedAreUsed'
    BY <2>1, <2>2, NAssumption DEF SearchedAreUsed
  <2> QED
    BY <2>1, <2>2, <2>3
       DEF IInv, TypeOK, FoundIsAvailable, FullIsFull, RecordsAreAligned, FoundIsAligned,
           UsedAreTaken, NetIsAligned
<1>3. CASE StartProbing
  BY <1>3, AttemptsAssumption
     DEF StartProbing, IInv, TypeOK, FoundIsAvailable, FullIsFull, SearchedAreUsed,
         RecordsAreAligned, FoundIsAligned, UsedAreTaken, NetIsAligned
<1>4. CASE Probe
  <2>1. PICK i \in 0 .. TotalSubnets - 1 :
          IF Candidate(i) <= net.max /\ Free(Candidate(i))
          THEN phase' = "found" /\ result' = Candidate(i) /\ attempt' = 0
          ELSE UNCHANGED <<phase, result>> /\ attempt' = attempt + 1
    BY <1>4 DEF Probe
  <2>2. phase = "probe" /\ attempt < Attempts /\ UNCHANGED <<net, taken, used, next>>
    BY <1>4 DEF Probe
  <2>3. TypeOK' /\ RecordsAreAligned' /\ UsedAreTaken' /\ NetIsAligned'
    <3>1. TotalSubnets \in Int /\ net.min + i * net.sub \in Int
      BY NetNumbers, WrapIsAddr DEF TotalSubnets, IInv, TypeOK, NetType, Addr
    <3>2. Candidate(i) \in Addr
      BY <3>1, WrapIsAddr DEF Candidate
    <3> QED
      BY <2>1, <2>2, <3>2, AttemptsAssumption
         DEF IInv, TypeOK, RecordsAreAligned, UsedAreTaken, NetIsAligned
  <2>4. CASE Candidate(i) <= net.max /\ Free(Candidate(i))
    <3>1. WellFormed(net) => Candidate(i) % net.sub = 0
      <4>1. SUFFICES ASSUME WellFormed(net) PROVE Candidate(i) % net.sub = 0
        OBVIOUS
      <4>2. net.min <= net.max /\ net.min % net.sub = 0
        BY <4>1 DEF WellFormed
      <4>3. Candidate(i) = net.min + i * net.sub /\ i \in Nat
        BY <4>2, CandidateInRange DEF IInv, TypeOK, NetType
      <4> QED
        BY <4>2, <4>3, NetNumbers, MultipleSteps, NAssumption DEF IInv, TypeOK, NetType, Addr
    <3> QED
      BY <2>1, <2>2, <2>3, <2>4, <3>1, CandidateInRange
         DEF IInv, TypeOK, NetType, FoundIsAvailable, FullIsFull, SearchedAreUsed, Free,
             FoundIsAligned
  <2>5. CASE ~(Candidate(i) <= net.max /\ Free(Candidate(i)))
    BY <2>1, <2>2, <2>3, <2>5
       DEF IInv, TypeOK, FoundIsAvailable, FullIsFull, SearchedAreUsed, FoundIsAligned
  <2> QED
    BY <2>4, <2>5
<1>5. CASE Search
  BY <1>5, SearchStep DEF Search, IInv, TypeOK, RecordsAreAligned, UsedAreTaken, NetIsAligned, Addr
<1>6. CASE Finish
  <2>1. TypeOK'
    <3>1. net.sub \in Nat \ {0} /\ result \in Nat /\ result < N /\ N \in Nat
      BY NetNumbers, NAssumption DEF IInv, TypeOK, NetType, Addr
    <3>2. Decode(result) \in Nat /\ Decode(result) <= result
      BY <3>1, RoundingDown DEF Decode
    <3>3. Decode(result) \in Addr /\ 0 \in Addr
      BY <3>1, <3>2 DEF Addr
    <3> QED
      BY <1>6, <3>3 DEF Finish, IInv, TypeOK
  <2>2. RecordsAreAligned'
    BY <1>6, DecodedIsAligned DEF Finish, IInv, RecordsAreAligned, WellFormed
  <2> QED
    BY <1>6, <2>1, <2>2
       DEF Finish, IInv, FoundIsAvailable, FullIsFull, SearchedAreUsed, FoundIsAligned,
           UsedAreTaken, NetIsAligned
<1>7. ASSUME NEW a \in taken, Release(a) PROVE IInv'
  BY <1>7 DEF Release, IInv, TypeOK, FoundIsAvailable, FullIsFull, SearchedAreUsed,
              RecordsAreAligned, FoundIsAligned, UsedAreTaken, NetIsAligned
<1>8. CASE UNCHANGED vars
  BY <1>8 DEF vars, IInv, TypeOK, FoundIsAvailable, FullIsFull, SearchedAreUsed,
              RecordsAreAligned, FoundIsAligned, UsedAreTaken, NetIsAligned, WellFormed
<1> QED
  BY <1>1, <1>2, <1>3, <1>4, <1>5, <1>6, <1>7, <1>8 DEF Next, Generate

\* The invariant holds, for every size of the address space and every accepted
\* configuration: GenerateIPv4Subnet keeps the records in order.
THEOREM Invariance == Spec => []IInv
BY InvInit, InvStep, PTL DEF Spec

-----------------------------------------------------------------------------
(* What follows.                                                           *)

\* Whatever the strategy and the configuration, the subnet found is not in use
\* and not above the maximum, nor below the minimum of a range that is one.
THEOREM FoundSubnetsAreAvailable == Spec => []FoundIsAvailable
<1>1. IInv => FoundIsAvailable
  BY DEF IInv
<1> QED
  BY Invariance, <1>1, PTL

\* Only a full network is reported as full.
THEOREM FullNetworksAreFull == Spec => []FullIsFull
<1>1. IInv => FullIsFull
  BY DEF IInv
<1> QED
  BY Invariance, <1>1, PTL

\* With a well-formed configuration the subnets on record lie within the
\* network and share no address.
THEOREM RecordedSubnetsAreDisjoint == Spec => []RecordsAreDisjoint
<1>1. IInv => RecordsAreDisjoint
  <2> SUFFICES ASSUME IInv, WellFormed(net)
               PROVE  /\ \A a \in taken : Block(a) \subseteq net.ip .. net.ip + net.block - 1
                      /\ \A a, b \in taken : a # b => Block(a) \cap Block(b) = {}
                      /\ phase = "found" =>
                           \A a \in taken : Block(Decode(result)) \cap Block(a) = {}
    BY DEF RecordsAreDisjoint
  <2>1. net.sub \in Nat \ {0} /\ net.ip \in Nat /\ net.block \in Nat \ {0}
    BY NetNumbers, NAssumption DEF IInv, TypeOK, NetType, Addr
  <2>2. \A a \in taken : /\ a \in Nat /\ a % net.sub = 0
                         /\ net.ip <= a /\ a + net.sub <= net.ip + net.block
    BY NAssumption DEF IInv, TypeOK, RecordsAreAligned, Addr
  <2>3. ASSUME NEW a \in Nat, NEW b \in Nat, a % net.sub = 0, b % net.sub = 0, a < b
        PROVE  a + net.sub <= b
    <3>1. a - (a % net.sub) + net.sub <= b
      BY <2>1, <2>3, RoundingDown
    <3> QED
      BY <2>1, <2>3, <3>1
  <2>4. ASSUME NEW a \in Nat, NEW b \in Nat, a % net.sub = 0, b % net.sub = 0, a # b
        PROVE  Block(a) \cap Block(b) = {}
    <3>1. a + net.sub <= b \/ b + net.sub <= a
      BY <2>3, <2>4
    <3> QED
      BY <2>1, <2>4, <3>1 DEF Block
  <2>5. ASSUME phase = "found", NEW a \in taken PROVE Block(Decode(result)) \cap Block(a) = {}
    <3>1. result \in Nat /\ result % net.sub = 0 /\ result \notin taken
      BY <2>5, NAssumption
         DEF IInv, TypeOK, FoundIsAligned, FoundIsAvailable, UsedAreTaken, Addr
    <3>2. Decode(result) = result
      BY <3>1 DEF Decode
    <3> QED
      BY <2>2, <2>4, <3>1, <3>2
  <2>6. \A a \in taken : Block(a) \subseteq net.ip .. net.ip + net.block - 1
    BY <2>1, <2>2 DEF Block
  <2> QED
    BY <2>2, <2>4, <2>5, <2>6
<1> QED
  BY Invariance, <1>1, PTL

\* GenerateIPv4Subnet makes no more than Attempts + N + 2 rounds, whatever the
\* configuration: the candidate of the search only grows, at the end of the
\* address space too.
THEOREM RoundsAreBounded == Spec => RoundsRunOut
<1>1. ASSUME IInv, Generate PROVE Left' \in Nat /\ Left' < Left
  <2>1. /\ N \in Nat \ {0} /\ Attempts \in Nat
        /\ attempt \in 0 .. Attempts /\ next \in 0 .. N - 1 /\ net.min \in 0 .. N - 1
    BY <1>1, NetNumbers, NAssumption, AttemptsAssumption DEF IInv, TypeOK, NetType, Addr
  <2>2. CASE StartSearch
    BY <2>1, <2>2 DEF StartSearch, Left
  <2>3. CASE StartProbing
    BY <2>1, <2>3 DEF StartProbing, Left
  <2>4. CASE Probe
    <3>1. phase' = "found" \/ (phase' = "probe" /\ attempt' = attempt + 1)
      BY <2>4 DEF Probe
    <3>2. phase = "probe" /\ attempt < Attempts
      BY <2>4 DEF Probe
    <3> QED
      BY <2>1, <3>1, <3>2 DEF Left
  <2>5. CASE ProbesExhausted
    BY <2>1, <2>5 DEF ProbesExhausted, Left
  <2>6. CASE Search
    <3>1. phase = "search" /\ phase' \in {"search", "found", "full"}
      BY <2>6 DEF Search
    <3>2. next' \in 0 .. N - 1 /\ (phase' = "search" => next < next')
      BY <1>1, <2>6, SearchStep DEF Addr
    <3> QED
      BY <2>1, <3>1, <3>2 DEF Left
  <2> QED
    BY <1>1, <2>2, <2>3, <2>4, <2>5, <2>6 DEF Generate
<1>2. IInv /\ [Next]_vars => [Generate => Left' \in Nat /\ Left' < Left]_vars
  BY <1>1
<1> QED
  BY <1>2, Invariance, PTL DEF Spec, RoundsRunOut

\* Products are monotone.
LEMMA FactorMonotone ==
  ASSUME NEW k \in Nat, NEW s \in Nat, NEW q \in Nat, k <= s
  PROVE  k * q <= s * q
<1>1. s - k \in Nat /\ (s - k) * q >= 0
  OBVIOUS
<1>2. (s - k) * q = s * q - k * q
  OBVIOUS
<1> QED
  BY <1>1, <1>2

\* A multiple that is not zero is no smaller than what it is a multiple of.
LEMMA MultipleAtLeast ==
  ASSUME NEW s \in Nat \ {0}, NEW x \in Nat \ {0}, x % s = 0
  PROVE  s <= x
<1>1. x < s => x % s = x
  OBVIOUS
<1> QED
  BY <1>1

\* The random number is drawn from an interval that fits into 31 bits.
LEMMA RangeFits ==
  ASSUME NetType, net.sub < N, NetIsAligned, WellFormed(net),
         net.sub = 1 => net.block < N \div 2
  PROVE  ~RandPanics
<1> DEFINE s == net.sub
           d == net.max - net.min
           q == d \div s
<1>1. /\ s \in Nat \ {0} /\ N \in Nat /\ net.block \in 1 .. N /\ net.ip \in Nat /\ net.ip < N
      /\ net.min \in Nat /\ net.max \in Nat /\ net.max < N
      /\ net.block < N => 2 * net.block <= N
  <2>1. net.block \in Blocks
    BY DEF NetType
  <2> QED
    BY <2>1, NetNumbers, NAssumption, BlocksAssumption DEF Addr
<1>2. /\ net.ip <= net.min /\ net.min <= net.max /\ net.max <= net.ip + net.block - 1
      /\ net.min % s = 0 /\ net.block % s = 0
  BY DEF WellFormed
<1>3. d \in Nat /\ d < N /\ d <= net.block - 1 /\ q \in Nat /\ s * q <= d
  <2>1. d \in Nat /\ d < N /\ d <= net.block - 1
    BY <1>1, <1>2
  <2> HIDE DEF d
  <2> QED
    BY <1>1, <2>1
<1>4. TotalSubnets = q + 1
  BY <1>1, <1>3, WrapOfAddr DEF TotalSubnets, Addr
<1>5. NetIsAligned /\ (s = 1 => net.block < N \div 2)
  OBVIOUS
<1> HIDE DEF s, d, q
<1> SUFFICES q + 1 < N \div 2
  <2>1. q + 1 < N \div 2 => (q + 1) % N = q + 1 /\ q + 1 # 0
    BY <1>1, <1>3
  <2> QED
    BY <1>1, <1>3, <1>4, <2>1 DEF RandPanics
<1>6. CASE s = 1
  BY <1>1, <1>3, <1>5, <1>6
<1>7. CASE s # 1 /\ net.block < N
  <2>0. 2 <= s
    BY <1>1, <1>7
  <2>1. 2 * q <= s * q
    BY <1>1, <1>3, <2>0, FactorMonotone
  <2>2. net.block >= 2
    BY <1>1, <1>2, <2>0, MultipleAtLeast
  <2>3. 4 * q + 2 <= N /\ 4 <= N
    BY <1>1, <1>3, <1>7, <2>1, <2>2
  <2> QED
    BY <1>1, <1>3, <2>3
<1>8. CASE s # 1 /\ net.block = N
  <2>1. net.ip = 0 /\ net.min # 0
    BY <1>1, <1>5, <1>8 DEF NetIsAligned
  <2>2. s <= net.min
    BY <1>1, <1>2, <2>1, MultipleAtLeast
  <2>3. s * (q + 1) <= N - 1
    <3>1. s * q + s <= N - 1
      BY <1>1, <1>2, <1>3, <2>2 DEF d
    <3>2. s * (q + 1) = s * q + s
      BY <1>1, <1>3
    <3> QED
      BY <3>1, <3>2
  <2>4. CASE s = 2
    BY <1>1, <1>2, <1>3, <1>8, <2>3, <2>4
  <2>5. CASE s >= 3
    <3>1. 3 * (q + 1) <= s * (q + 1)
      BY <1>1, <1>3, <2>5, FactorMonotone
    <3> QED
      BY <1>1, <1>3, <2>3, <3>1
  <2> QED
    BY <1>1, <1>8, <2>4, <2>5
<1> QED
  BY <1>1, <1>6, <1>7, <1>8

\* GenerateIPv4Subnet asks for no random number it cannot get.
THEOREM NeverPanics == Spec => []NoPanic
<1>1. Init => NoPanic
  BY DEF Init, NoPanic
<1>2. IInv /\ NoPanic /\ [Next]_vars => NoPanic'
  <2> SUFFICES ASSUME IInv, NoPanic, [Next]_vars, net' = net => phase' = "panic" /\ phase # "panic"
               PROVE  NoPanic'
    BY DEF NoPanic, WellFormed
  <2>1. net' = net
    BY DEF Next, Generate, Begin, StartSearch, StartProbing, Probe, ProbesExhausted, Search,
           Finish, Release, vars
  <2>2. StartProbing /\ RandPanics
    BY <2>1 DEF Next, Generate, Begin, StartSearch, StartProbing, Probe, ProbesExhausted, Search,
                Finish, Release, vars
  <2> QED
    BY <2>1, <2>2, RangeFits DEF IInv, TypeOK, NetType, NoPanic, WellFormed
<1> QED
  BY <1>1, <1>2, Invariance, PTL DEF Spec
=============================================================================
