--------------------------- MODULE FirewallProofs ---------------------------
(***************************************************************************)
(* Proofs about Firewall: first what the commands of a start are, then     *)
(* what a command does to the chains, one lemma per part of the invariant, *)
(* and in the end the verdicts.                                            *)
(***************************************************************************)
EXTENDS Firewall, SequenceLemmas

-----------------------------------------------------------------------------
(* The commands of a start.                                                *)

\* Lists of commands that know their chains.
Fitting == {q \in Seq(Command) : \A i \in DOMAIN q : Fits(q[i])}

\* ... that also plan the rule for established connections before others.
Plans == {q \in Fitting : EstablishedFirst(q)}

AddEstablished == Run("applyRule", "SMUGGLE-FORWARD", Established)[1]

\* Lists of commands that fit can be joined.
LEMMA FittingJoins ==
  /\ Fitting \in SUBSET Seq(Command) /\ <<>> \in Fitting
  /\ \A a, b \in Fitting : a \o b \in Fitting
<1>1. ASSUME NEW a \in Fitting, NEW b \in Fitting PROVE a \o b \in Fitting
  <2>1. a \in Seq(Command) /\ b \in Seq(Command) /\ a \o b \in Seq(Command)
    BY DEF Fitting
  <2>2. ASSUME NEW i \in DOMAIN (a \o b) PROVE Fits((a \o b)[i])
    <3>1. CASE i <= Len(a)
      BY <2>1, <3>1 DEF Fitting
    <3>2. CASE i > Len(a)
      <4>1. i - Len(a) \in DOMAIN b /\ (a \o b)[i] = b[i - Len(a)]
        BY <2>1, <3>2
      <4> QED
        BY <4>1 DEF Fitting
    <3> QED
      BY <2>1, <3>1, <3>2
  <2> QED
    BY <2>1, <2>2 DEF Fitting
<1> QED
  BY <1>1 DEF Fitting

\* Plans can be joined, and a plan can be followed by anything once it has the
\* rule for established connections.
LEMMA PlansJoin ==
  /\ Plans \in SUBSET Seq(Command) /\ <<>> \in Plans
  /\ \A a \in Plans, b \in Fitting :
       b \in Plans \/ Contains(a, AddEstablished) => a \o b \in Plans
<1>1. ASSUME NEW a \in Plans, NEW b \in Fitting, b \in Plans \/ Contains(a, AddEstablished)
      PROVE  a \o b \in Plans
  <2>1. a \in Seq(Command) /\ b \in Seq(Command) /\ a \o b \in Fitting
    BY FittingJoins DEF Fitting, Plans
  <2>2. ASSUME NEW i \in DOMAIN (a \o b), AddsToFilter((a \o b)[i]),
               (a \o b)[i].rule # Established
        PROVE  \E j \in 1 .. i - 1 :
                 AddsToFilter((a \o b)[j]) /\ (a \o b)[j].rule = Established
    <3>1. CASE i <= Len(a)
      <4>1. PICK j \in 1 .. i - 1 : AddsToFilter(a[j]) /\ a[j].rule = Established
        BY <2>1, <2>2, <3>1 DEF Plans, EstablishedFirst
      <4>2. (a \o b)[j] = a[j]
        BY <2>1, <3>1
      <4> QED
        BY <4>1, <4>2
    <3>2. CASE i > Len(a)
      <4>1. i - Len(a) \in DOMAIN b /\ (a \o b)[i] = b[i - Len(a)]
        BY <2>1, <3>2
      <4>2. CASE b \in Plans
        <5>1. PICK j \in 1 .. (i - Len(a)) - 1 : AddsToFilter(b[j]) /\ b[j].rule = Established
          BY <2>2, <4>1, <4>2 DEF Plans, EstablishedFirst
        <5>2. Len(a) + j \in 1 .. i - 1 /\ (a \o b)[Len(a) + j] = b[j]
          BY <2>1, <3>2, <4>1
        <5> QED
          BY <5>1, <5>2
      <4>3. CASE Contains(a, AddEstablished)
        <5>1. PICK j \in 1 .. Len(a) : a[j] = AddEstablished
          BY <4>3 DEF Contains
        <5>2. j \in 1 .. i - 1 /\ (a \o b)[j] = a[j]
          BY <2>1, <3>2
        <5>3. AddsToFilter(a[j]) /\ a[j].rule = Established
          BY <5>1 DEF AddEstablished, Run, AddsToFilter
        <5> QED
          BY <5>2, <5>3
      <4> QED
        BY <1>1, <4>2, <4>3
    <3> QED
      BY <2>1, <3>1, <3>2
  <2> QED
    BY <2>1, <2>2 DEF Plans, EstablishedFirst
<1> QED
  BY <1>1, FittingJoins DEF Plans, EstablishedFirst

\* The rules a start is made of are rules.
LEMMA RulesAreRules ==
  /\ Jump \in Rule /\ Established \in Rule /\ Docker \in Rule
  /\ \A n \in Networks, kind \in Accepting : Accept(kind, n) \in Rule
  /\ \A n, m \in Networks : Reject(n, m) \in Rule
  /\ \A n \in Networks, s \in Subnets : Masquerade(n, s) \in Rule
BY DEF Jump, Established, Docker, Plain, Accept, Reject, Masquerade, Rule, Accepting

\* What one command is.
LEMMA RunIs ==
  ASSUME NEW op, NEW chain, NEW rule, [op |-> op, chain |-> chain, rule |-> rule] \in Command,
         Fits([op |-> op, chain |-> chain, rule |-> rule])
  PROVE  /\ Run(op, chain, rule) \in Fitting
         /\ Contains(Run(op, chain, rule), Run(op, chain, rule)[1])
         /\ op \notin {"applyRule", "isolate"} \/ chain # "SMUGGLE-FORWARD" =>
              Run(op, chain, rule) \in Plans
BY DEF Run, Contains, Fitting, Plans, EstablishedFirst, AddsToFilter

\* Adding lists of commands keeps what is planned.
LEMMA Adding ==
  ASSUME NEW a \in Plans, NEW b \in Fitting, b \in Plans \/ Contains(a, AddEstablished)
  PROVE  /\ a \o b \in Plans
         /\ \A x : Contains(a \o b, x) <=> Contains(a, x) \/ Contains(b, x)
<1>1. a \in Seq(Command) /\ b \in Seq(Command)
  BY DEF Plans, Fitting
<1> QED
  BY <1>1, PlansJoin, ContainsConcat

\* The commands of the forwarding rules.
LEMMA ForwardRules ==
  ASSUME NEW n \in Networks
  PROVE  /\ SetupForwardRules(n) \in Plans
         /\ Contains(SetupForwardRules(n), AddEstablished)
         /\ \A kind \in Accepting :
              Contains(SetupForwardRules(n),
                       Run("applyRule", "SMUGGLE-FORWARD", Accept(kind, n))[1])
         /\ Contains(SetupForwardRules(n), Run("jumpFirst", "FORWARD", Jump)[1])
<1> DEFINE ensure == Run("ensureChain", "SMUGGLE-FORWARD", Jump)
           est    == Run("applyRule", "SMUGGLE-FORWARD", Established)
           a(kind) == Run("applyRule", "SMUGGLE-FORWARD", Accept(kind, n))
           jump   == Run("jumpFirst", "FORWARD", Jump)
<1>1. ensure \in Plans
  BY RunIs, RulesAreRules DEF Command, ChainNames, Fits
<1>2. est \in Fitting /\ Contains(est, AddEstablished)
  BY RunIs, RulesAreRules DEF Command, ChainNames, Fits, AddEstablished
<1>3. ensure \o est \in Plans /\ Contains(ensure \o est, AddEstablished)
  <2>1. est \in Plans
    BY <1>2 DEF Plans, EstablishedFirst, Run
  <2> QED
    BY <1>1, <1>2, <2>1, Adding
<1>4. \A kind \in Accepting : a(kind) \in Fitting /\ Contains(a(kind), a(kind)[1])
  <2> SUFFICES ASSUME NEW kind \in Accepting
               PROVE  a(kind) \in Fitting /\ Contains(a(kind), a(kind)[1])
    OBVIOUS
  <2>1. Accept(kind, n) \in Rule /\ Accept(kind, n).kind \in Accepting
    BY RulesAreRules DEF Accept
  <2> QED
    BY <2>1, RunIs DEF Command, ChainNames, Fits
<1>5. jump \in Fitting /\ Contains(jump, jump[1])
  BY RunIs, RulesAreRules DEF Command, ChainNames, Fits
<1>6. {"toExternal", "fromExternal", "local", "toVxlan", "fromVxlan"} = Accepting
  BY DEF Accepting
<1> DEFINE q0 == ensure \o est
           q1 == q0 \o a("toExternal")
           q2 == q1 \o a("fromExternal")
           q3 == q2 \o a("local")
           q4 == q3 \o a("toVxlan")
           q5 == q4 \o a("fromVxlan")
           q6 == q5 \o jump
<1>7. SetupForwardRules(n) = q6
  BY DEF SetupForwardRules
<1> HIDE DEF ensure, est, a, jump
<1>10. q1 \in Plans /\ \A x : Contains(q1, x) <=> Contains(q0, x) \/ Contains(a("toExternal"), x)
  BY <1>3, <1>4, <1>6, Adding
<1> HIDE DEF q0, q1
<1>11. q2 \in Plans /\ \A x : Contains(q2, x) <=> Contains(q1, x) \/ Contains(a("fromExternal"), x)
  BY <1>3, <1>10, <1>4, <1>6, Adding DEF q0
<1> HIDE DEF q2
<1>12. q3 \in Plans /\ \A x : Contains(q3, x) <=> Contains(q2, x) \/ Contains(a("local"), x)
  BY <1>3, <1>10, <1>11, <1>4, <1>6, Adding DEF q0
<1> HIDE DEF q3
<1>13. q4 \in Plans /\ \A x : Contains(q4, x) <=> Contains(q3, x) \/ Contains(a("toVxlan"), x)
  BY <1>3, <1>10, <1>11, <1>12, <1>4, <1>6, Adding DEF q0
<1> HIDE DEF q4
<1>14. q5 \in Plans /\ \A x : Contains(q5, x) <=> Contains(q4, x) \/ Contains(a("fromVxlan"), x)
  BY <1>3, <1>10, <1>11, <1>12, <1>13, <1>4, <1>6, Adding DEF q0
<1> HIDE DEF q5
<1>15. q6 \in Plans /\ \A x : Contains(q6, x) <=> Contains(q5, x) \/ Contains(jump, x)
  BY <1>3, <1>10, <1>11, <1>12, <1>13, <1>14, <1>5, Adding DEF q0
<1> HIDE DEF q6
<1>16. \A kind \in Accepting : Contains(q6, a(kind)[1])
  BY <1>4, <1>6, <1>10, <1>11, <1>12, <1>13, <1>14, <1>15
<1>17. Contains(q6, AddEstablished) /\ Contains(q6, jump[1])
  BY <1>3, <1>5, <1>10, <1>11, <1>12, <1>13, <1>14, <1>15 DEF q0
<1> QED
  BY <1>7, <1>15, <1>16, <1>17 DEF a, jump

\* The commands of the masquerading rules.
LEMMA MasqRules ==
  ASSUME NEW n \in Networks, NEW s \in [Masqueraded -> Subnets]
  PROVE  /\ SetupMasqRules(n, s) \in Plans
         /\ n \in Masqueraded =>
              /\ Contains(SetupMasqRules(n, s), Run("applyRule", "POSTROUTING", Jump)[1])
              /\ Contains(SetupMasqRules(n, s),
                          Run("applyRule", "SMUGGLE-POSTROUTING", Masquerade(n, s[n]))[1])
<1>1. CASE n \notin Masqueraded
  BY <1>1, PlansJoin DEF SetupMasqRules
<1>2. CASE n \in Masqueraded
  <2> DEFINE a == Run("ensureChain", "SMUGGLE-POSTROUTING", Jump)
             b == Run("applyRule", "POSTROUTING", Jump)
             c == Run("applyRule", "SMUGGLE-POSTROUTING", Masquerade(n, s[n]))
  <2>1. SetupMasqRules(n, s) = (a \o b) \o c
    BY <1>2 DEF SetupMasqRules
  <2>2. Masquerade(n, s[n]) \in Rule
    BY <1>2, RulesAreRules
  <2>3. a \in Plans
    BY RunIs, RulesAreRules DEF Command, ChainNames, Fits
  <2>4. b \in Plans /\ b \in Fitting /\ Contains(b, b[1])
    BY RunIs, RulesAreRules DEF Command, ChainNames, Fits
  <2>5. c \in Plans /\ c \in Fitting /\ Contains(c, c[1])
    BY <2>2, RunIs DEF Command, ChainNames, Fits
  <2> HIDE DEF a, b, c
  <2>6. a \o b \in Plans /\ Contains(a \o b, b[1])
    BY <2>3, <2>4, Adding
  <2>7. (a \o b) \o c \in Plans /\ Contains((a \o b) \o c, b[1]) /\ Contains((a \o b) \o c, c[1])
    BY <2>5, <2>6, Adding
  <2> QED
    BY <2>1, <2>7 DEF b, c
<1> QED
  BY <1>1, <1>2

\* The commands of the isolation.
LEMMA IsolationRules ==
  ASSUME NEW nets \in Seq(Networks)
  PROVE  /\ EnsureIsolation(nets) \in Fitting
         /\ \A n, m \in ToSet(nets) : n # m =>
              Contains(EnsureIsolation(nets),
                       Run("isolate", "SMUGGLE-FORWARD", Reject(n, m))[1])
<1> DEFINE ensure == Run("ensureChain", "SMUGGLE-FORWARD", Jump)
           row(i) == [j \in DOMAIN nets |-> Isolate(nets[i], nets[j])]
           all    == [i \in DOMAIN nets |-> FlattenSeq(row(i))]
<1>1. ensure \in Plans
  BY RunIs, RulesAreRules DEF Command, ChainNames, Fits
<1>2. ASSUME NEW n \in Networks, NEW m \in Networks
      PROVE  /\ Isolate(n, m) \in Fitting
             /\ n # m => Contains(Isolate(n, m),
                                  Run("isolate", "SMUGGLE-FORWARD", Reject(n, m))[1])
  <2>1. CASE n = m
    BY <2>1, FittingJoins DEF Isolate
  <2>2. CASE n # m
    <3>1. Reject(n, m) \in Rule /\ Separates(Reject(n, m))
      BY <2>2, RulesAreRules DEF Separates, Reject
    <3> QED
      BY <2>2, <3>1, RunIs DEF Isolate, Command, ChainNames, Fits
  <2> QED
    BY <2>1, <2>2
<1>3. \A i \in DOMAIN nets : row(i) \in Seq(Fitting) /\ Len(row(i)) = Len(nets)
  BY <1>2
<1>4. \A i \in DOMAIN nets : FlattenSeq(row(i)) \in Fitting
  <2> SUFFICES ASSUME NEW i \in DOMAIN nets PROVE FlattenSeq(row(i)) \in Fitting
    OBVIOUS
  <2> HIDE DEF row
  <2> QED
    BY <1>3, FittingJoins, FlattenClosed
<1>5. all \in Seq(Fitting) /\ Len(all) = Len(nets)
  <2> HIDE DEF row
  <2> QED
    BY <1>4
<1>6. FlattenSeq(all) \in Fitting
  <2> HIDE DEF all
  <2> QED
    BY <1>5, FittingJoins, FlattenClosed
<1>7. ASSUME NEW i \in DOMAIN nets, NEW j \in DOMAIN nets, nets[i] # nets[j]
      PROVE  Contains(FlattenSeq(all),
                      Run("isolate", "SMUGGLE-FORWARD", Reject(nets[i], nets[j]))[1])
  <2> DEFINE x == Run("isolate", "SMUGGLE-FORWARD", Reject(nets[i], nets[j]))[1]
  <2>1. row(i)[j] = Isolate(nets[i], nets[j]) /\ nets[i] \in Networks /\ nets[j] \in Networks
    OBVIOUS
  <2>2. Contains(row(i)[j], x)
    BY <1>2, <1>7, <2>1
  <2>3. all[i] = FlattenSeq(row(i))
    <3> HIDE DEF row
    <3> QED
      OBVIOUS
  <2>4. row(i) \in Seq(Seq(Command)) /\ j \in 1 .. Len(row(i))
    BY <1>3, FittingJoins
  <2>5. all \in Seq(Seq(Command)) /\ i \in 1 .. Len(all)
    BY <1>5, FittingJoins
  <2> HIDE DEF row, all, x
  <2>6. Contains(all[i], x)
    BY <2>2, <2>3, <2>4, FlattenContains
  <2>7. Contains(FlattenSeq(all), x)
    BY <2>5, <2>6, FlattenContains
  <2> QED
    BY <2>7 DEF x
<1>8. CASE Len(nets) < 2
  <2>1. \A n, m \in ToSet(nets) : n = m
    BY <1>8 DEF ToSet
  <2> QED
    BY <1>8, <2>1, FittingJoins DEF EnsureIsolation
<1>9. CASE ~ (Len(nets) < 2)
  <2>1. EnsureIsolation(nets) = ensure \o FlattenSeq(all)
    BY <1>9 DEF EnsureIsolation
  <2> HIDE DEF ensure, all, row
  <2>2. ensure \in Seq(Command) /\ FlattenSeq(all) \in Seq(Command) /\ ensure \in Fitting
    BY <1>1, <1>6 DEF Plans, Fitting
  <2>3. ensure \o FlattenSeq(all) \in Fitting
    BY <2>2, <1>6, FittingJoins
  <2>4. ASSUME NEW n \in ToSet(nets), NEW m \in ToSet(nets), n # m
        PROVE  Contains(FlattenSeq(all), Run("isolate", "SMUGGLE-FORWARD", Reject(n, m))[1])
    BY <1>7, <2>4 DEF ToSet
  <2> QED
    BY <2>1, <2>2, <2>3, <2>4, ContainsConcat
<1> QED
  BY <1>8, <1>9

\* A start plans the rule for established connections before any other of the
\* filter, and leaves no rule out.
LEMMA CommandsArePlanned ==
  ASSUME NEW nets \in Listings, NEW s \in [Masqueraded -> Subnets]
  PROVE  /\ Commands(nets, s) \in Plans
         /\ \A n \in ToSet(nets) :
              /\ n \in Networks
              /\ \A kind \in Accepting :
                   Contains(Commands(nets, s),
                            Run("applyRule", "SMUGGLE-FORWARD", Accept(kind, n))[1])
              /\ \A m \in ToSet(nets) \ {n} :
                   Contains(Commands(nets, s),
                            Run("isolate", "SMUGGLE-FORWARD", Reject(n, m))[1])
              /\ n \in Masqueraded =>
                   /\ Contains(Commands(nets, s), Run("applyRule", "POSTROUTING", Jump)[1])
                   /\ Contains(Commands(nets, s),
                        Run("applyRule", "SMUGGLE-POSTROUTING", Masquerade(n, s[n]))[1])
              /\ Contains(Commands(nets, s), Run("jumpFirst", "FORWARD", Jump)[1])
<1> DEFINE each(i) == SetupMasqRules(nets[i], s) \o SetupForwardRules(nets[i])
           all     == [i \in DOMAIN nets |-> each(i)]
<1>1. nets \in Seq(Networks) /\ Len(nets) # 0
  BY ConstantsAssumption
<1>2. ASSUME NEW i \in DOMAIN nets
      PROVE  /\ each(i) \in Plans
             /\ \A x : Contains(SetupMasqRules(nets[i], s), x)
                       \/ Contains(SetupForwardRules(nets[i]), x) => Contains(each(i), x)
  <2>1. nets[i] \in Networks
    BY <1>1
  <2>2. SetupForwardRules(nets[i]) \in Plans /\ SetupForwardRules(nets[i]) \in Fitting
    BY <2>1, ForwardRules DEF Plans
  <2>3. SetupMasqRules(nets[i], s) \in Plans
    BY <2>1, MasqRules
  <2> QED
    BY <2>2, <2>3, Adding
<1> HIDE DEF each
<1>3. /\ all \in Seq(Plans) /\ all \in Seq(Seq(Command)) /\ Len(all) = Len(nets)
      /\ \A i \in DOMAIN nets : i \in 1 .. Len(all) /\ all[i] = each(i)
  <2>1. all \in Seq(Plans) /\ Len(all) = Len(nets)
    BY <1>1, <1>2
  <2>2. \A i \in DOMAIN nets : i \in 1 .. Len(all) /\ all[i] = each(i)
    BY <1>1
  <2> HIDE DEF all
  <2>3. Plans \subseteq Seq(Command)
    BY PlansJoin
  <2>4. all \in Seq(Seq(Command))
    BY <2>1, <2>3
  <2> QED
    BY <2>1, <2>2, <2>4
<1> HIDE DEF all
<1>4. FlattenSeq(all) \in Plans
  <2>1. \A a, b \in Plans : a \o b \in Plans
    BY PlansJoin DEF Plans
  <2> QED
    BY <1>3, <2>1, PlansJoin, FlattenClosed
<1>5. ASSUME NEW i \in DOMAIN nets, NEW x,
             Contains(SetupMasqRules(nets[i], s), x) \/ Contains(SetupForwardRules(nets[i]), x)
      PROVE  Contains(FlattenSeq(all), x)
  <2>1. Contains(all[i], x)
    BY <1>2, <1>3, <1>5
  <2> QED
    BY <1>3, <2>1, FlattenContains
<1>6. Contains(FlattenSeq(all), AddEstablished)
  <2>1. 1 \in DOMAIN nets /\ nets[1] \in Networks
    BY <1>1
  <2> QED
    BY <1>5, <2>1, ForwardRules
<1>7. /\ Commands(nets, s) \in Plans
      /\ \A x : Contains(FlattenSeq(all), x) \/ Contains(EnsureIsolation(nets), x)
                => Contains(Commands(nets, s), x)
  <2>1. Commands(nets, s) = FlattenSeq(all) \o EnsureIsolation(nets)
    BY DEF Commands, all, each
  <2>2. EnsureIsolation(nets) \in Fitting
    BY <1>1, IsolationRules
  <2> QED
    BY <1>4, <1>6, <2>1, <2>2, Adding
<1>8. ASSUME NEW n \in ToSet(nets) PROVE \E i \in DOMAIN nets : n = nets[i] /\ n \in Networks
  BY <1>1 DEF ToSet
<1> QED
  BY <1>1, <1>5, <1>7, <1>8, ForwardRules, MasqRules, IsolationRules

-----------------------------------------------------------------------------
(* What a step does.                                                       *)

\* The command that is next, and those that are left.
LEMMA NextCommand ==
  ASSUME TypeOK, CommandsFit, plan # <<>>
  PROVE  /\ plan[1] \in Command /\ Fits(plan[1]) /\ Chain \in Seq(Rule) \cup {Absent}
         /\ Tail(plan) \in Seq(Command)
         /\ \A i \in DOMAIN Tail(plan) : i + 1 \in DOMAIN plan /\ Tail(plan)[i] = plan[i + 1]
         /\ \A i \in DOMAIN plan : i # 1 => i - 1 \in DOMAIN Tail(plan) /\ Tail(plan)[i - 1] = plan[i]
         /\ \A x : Contains(plan, x) => x = plan[1] \/ Contains(Tail(plan), x)
<1>1. plan \in Seq(Command) /\ Len(plan) # 0
  BY DEF TypeOK
<1>2. /\ plan[1] \in Command /\ Fits(plan[1]) /\ Tail(plan) \in Seq(Command)
      /\ Len(Tail(plan)) = Len(plan) - 1
  BY <1>1 DEF CommandsFit
<1>3. Chain \in Seq(Rule) \cup {Absent}
  BY <1>2 DEF Chain, TypeOK, Command
<1>4. \A i \in DOMAIN Tail(plan) : i + 1 \in DOMAIN plan /\ Tail(plan)[i] = plan[i + 1]
  BY <1>1
<1>5. ASSUME NEW i \in DOMAIN plan, i # 1
      PROVE  i - 1 \in DOMAIN Tail(plan) /\ Tail(plan)[i - 1] = plan[i]
  BY <1>1, <1>5
<1>6. ASSUME NEW x, Contains(plan, x) PROVE x = plan[1] \/ Contains(Tail(plan), x)
  <2>1. PICK i \in 1 .. Len(plan) : plan[i] = x
    BY <1>6 DEF Contains
  <2>2. CASE i # 1
    <3>1. i - 1 \in 1 .. Len(Tail(plan)) /\ Tail(plan)[i - 1] = x
      BY <1>1, <2>1, <2>2
    <3> QED
      BY <3>1 DEF Contains
  <2> QED
    BY <2>1, <2>2
<1> QED
  BY <1>2, <1>3, <1>4, <1>5, <1>6

\* A command on one chain replaces its rules, and adds at most its own.
Edits(rules) ==
  /\ plan # <<>> /\ Rewrite(rules)
  /\ \/ /\ plan[1].op = "ensureChain"
        /\ rules = IF Chain = Absent THEN <<>> ELSE Chain
     \/ /\ plan[1].op \in {"applyRule", "isolate"} /\ Chain # Absent
        /\ Contains(Chain, plan[1].rule) /\ rules = Chain
     \/ /\ plan[1].op = "applyRule" /\ Chain # Absent
        /\ ~Contains(Chain, plan[1].rule) /\ rules = Append(Chain, plan[1].rule)
     \/ /\ plan[1].op = "insertJump" /\ Chain # Absent
        /\ rules = <<Jump>> \o Chain
     \/ /\ plan[1].op = "isolate" /\ Chain # Absent /\ Len(Chain) # 0
        /\ ~Contains(Chain, plan[1].rule) /\ rules = InsertAt(Chain, 2, plan[1].rule)

LEMMA SetupEdits ==
  ASSUME TypeOK, CommandsFit, Setup
  PROVE  DeleteJump \/ \E rules \in Seq(Rule) : Edits(rules)
<1>1. CASE EnsureChain
  <2>1. plan # <<>> /\ Chain \in Seq(Rule) \cup {Absent}
    BY <1>1, NextCommand DEF EnsureChain, Next1
  <2>2. PICK rules : rules = (IF Chain = Absent THEN <<>> ELSE Chain) /\ Rewrite(rules)
    BY <1>1 DEF EnsureChain
  <2>3. rules \in Seq(Rule)
    BY <2>1, <2>2
  <2> QED
    BY <1>1, <2>1, <2>2, <2>3, Zenon DEF EnsureChain, Next1, Edits
<1>2. CASE ApplyRule
  <2>1. plan[1].rule \in Rule /\ Chain \in Seq(Rule) /\ plan # <<>>
    BY <1>2, NextCommand DEF ApplyRule, Next1, Command
  <2>2. Append(Chain, plan[1].rule) \in Seq(Rule)
    BY <2>1
  <2> QED
    BY <1>2, <2>1, <2>2 DEF ApplyRule, Next1, Edits, Applied
<1>3. CASE InsertJump
  <2>1. plan # <<>> /\ Chain \in Seq(Rule) /\ Chain # Absent /\ plan[1].rule = Jump
    BY <1>3, NextCommand DEF InsertJump, Next1, Fits, Chain, TypeOK
  <2>2. <<Jump>> \o Chain \in Seq(Rule)
    BY <2>1, RulesAreRules
  <2> QED
    BY <1>3, <2>1, <2>2 DEF InsertJump, Next1, Edits
<1>4. CASE EnsureIsolationRule
  <2>1. plan[1].rule \in Rule /\ Chain \in Seq(Rule) /\ plan # <<>>
    BY <1>4, NextCommand DEF EnsureIsolationRule, Next1, Command
  <2>2. CASE Contains(Chain, plan[1].rule)
    BY <1>4, <2>1, <2>2 DEF EnsureIsolationRule, Next1, Edits
  <2>3. CASE ~Contains(Chain, plan[1].rule)
    <3>1. Len(Chain) # 0
      BY <1>4, <2>1, <2>3 DEF EnsureIsolationRule, IsolationPosition
    <3>2. InsertAt(Chain, 2, plan[1].rule) \in Seq(Rule)
      BY <2>1, <3>1, InsertedSecond
    <3> QED
      BY <1>4, <2>1, <2>3, <3>1, <3>2 DEF EnsureIsolationRule, Next1, Edits, IsolationPosition
  <2> QED
    BY <2>2, <2>3
<1> QED
  BY <1>1, <1>2, <1>3, <1>4 DEF Setup

\* No rule is lost by a command on one chain, and its own is there.
LEMMA EditsKeep ==
  ASSUME TypeOK, CommandsFit, NEW rules \in Seq(Rule), Edits(rules)
  PROVE  /\ \A x : Chain # Absent /\ Contains(Chain, x) => Contains(rules, x)
         /\ plan[1].op \in {"applyRule", "isolate", "insertJump"} => Contains(rules, plan[1].rule)
<1>1. Chain \in Seq(Rule) \cup {Absent} /\ plan[1].rule \in Rule /\ Fits(plan[1])
  BY NextCommand DEF Edits, Command
<1>2. CASE \/ Chain = Absent \/ plan[1].op = "ensureChain"
           \/ rules = Chain /\ Contains(Chain, plan[1].rule)
  <2> HIDE DEF Chain
  <2> QED
    BY <1>2, <1>1 DEF Edits
<1>3. CASE Chain # Absent /\ rules = Append(Chain, plan[1].rule)
  <2>1. rules = Chain \o <<plan[1].rule>> /\ <<plan[1].rule>> \in Seq(Rule) /\ Chain \in Seq(Rule)
    BY <1>1, <1>3
  <2>2. Contains(<<plan[1].rule>>, plan[1].rule)
    BY DEF Contains
  <2>3. \A x : Contains(rules, x) <=> Contains(Chain, x) \/ Contains(<<plan[1].rule>>, x)
    <3> DEFINE one == <<plan[1].rule>>
    <3>1. rules = Chain \o one /\ one \in Seq(Rule) /\ Chain \in Seq(Rule)
      BY <2>1
    <3> HIDE DEF one
    <3>2. \A x : Contains(rules, x) <=> Contains(Chain, x) \/ Contains(one, x)
      BY <3>1, ContainsConcat
    <3> QED
      BY <3>2 DEF one
  <2> QED
    BY <2>2, <2>3
<1>4. CASE Chain # Absent /\ rules = <<Jump>> \o Chain /\ plan[1].op = "insertJump"
  <2>1. <<Jump>> \in Seq(Rule) /\ Chain \in Seq(Rule) /\ plan[1].rule = Jump
    BY <1>1, <1>4, RulesAreRules DEF Fits
  <2>2. Contains(<<Jump>>, Jump)
    BY DEF Contains
  <2>3. \A x : Contains(rules, x) <=> Contains(<<Jump>>, x) \/ Contains(Chain, x)
    BY <1>4, <2>1, ContainsConcat
  <2> QED
    BY <2>1, <2>2, <2>3
<1>5. CASE Chain # Absent /\ Len(Chain) # 0 /\ rules = InsertAt(Chain, 2, plan[1].rule)
  <2>1. Chain \in Seq(Rule) /\ Len(Chain) # 0 /\ plan[1].rule \in Rule
    BY <1>1, <1>5
  <2> DEFINE c == Chain
             k == plan[1].rule
  <2>2. c \in Seq(Rule) /\ Len(c) # 0 /\ k \in Rule /\ rules = InsertAt(c, 2, k)
    BY <1>5, <2>1
  <2> HIDE DEF c, k
  <2>3. (\A x : Contains(c, x) => Contains(rules, x)) /\ Contains(rules, k)
    BY <2>2, InsertedKeeps
  <2> QED
    BY <2>3 DEF c, k
<1> QED
  BY <1>1, <1>2, <1>3, <1>4, <1>5 DEF Edits

\* What is left of the plan is as it was; it plans the rule for established
\* connections first, unless the next command is to add to the filter.
LEMMA RestFits ==
  ASSUME TypeOK, CommandsFit, plan # <<>>
  PROVE  /\ Tail(plan) \in Fitting
         /\ EstablishedFirst(plan) /\ ~AddsToFilter(plan[1]) => Tail(plan) \in Plans
<1>1. /\ Tail(plan) \in Seq(Command)
      /\ \A i \in DOMAIN Tail(plan) : i + 1 \in DOMAIN plan /\ Tail(plan)[i] = plan[i + 1]
      /\ \A i \in DOMAIN plan : i # 1 => i - 1 \in DOMAIN Tail(plan) /\ Tail(plan)[i - 1] = plan[i]
  BY NextCommand
<1>2. Tail(plan) \in Fitting
  BY <1>1 DEF Fitting, CommandsFit
<1>3. ASSUME EstablishedFirst(plan), ~AddsToFilter(plan[1]) PROVE EstablishedFirst(Tail(plan))
  <2>1. SUFFICES ASSUME NEW i \in DOMAIN Tail(plan), AddsToFilter(Tail(plan)[i]),
                        Tail(plan)[i].rule # Established
                 PROVE  \E j \in 1 .. i - 1 :
                          AddsToFilter(Tail(plan)[j]) /\ Tail(plan)[j].rule = Established
    BY Zenon DEF EstablishedFirst
  <2>2. i + 1 \in DOMAIN plan /\ AddsToFilter(plan[i + 1]) /\ plan[i + 1].rule # Established
    BY <1>1, <2>1
  <2>3. PICK j \in 1 .. (i + 1) - 1 : AddsToFilter(plan[j]) /\ plan[j].rule = Established
    BY <1>3, <2>2, Zenon DEF EstablishedFirst
  <2>4. j # 1 /\ j - 1 \in 1 .. i - 1 /\ j \in DOMAIN plan
    <3>1. plan \in Seq(Command) /\ Tail(plan) \in Seq(Command) /\ i \in Int
      BY <1>1, <2>1 DEF TypeOK
    <3>2. j # 1
      BY <1>3, <2>3
    <3> QED
      BY <2>2, <3>1, <3>2
  <2> QED
    BY <1>1, <2>3, <2>4
<1> QED
  BY <1>2, <1>3 DEF Plans

-----------------------------------------------------------------------------
(* Every step keeps the invariant, part by part.                           *)

\* Types, and that commands know their chains.
LEMMA TypesStep ==
  ASSUME TypeOK, CommandsFit, Next
  PROVE  TypeOK' /\ CommandsFit'
<1> SUFFICES TypeOK' /\ plan' \in Fitting
  BY DEF Fitting, CommandsFit
<1>0. plan \in Fitting
  BY DEF Fitting, TypeOK, CommandsFit
<1>1. CASE Start
  <2>1. PICK nets \in Listings, s \in [Masqueraded -> Subnets] :
          conf' = ToSet(nets) /\ sub' = s /\ plan' = Commands(nets, s) /\ chains' = chains
    BY <1>1 DEF Start
  <2>2. plan' \in Fitting /\ plan' \in Seq(Command) /\ conf' \subseteq Networks
    BY <2>1, CommandsArePlanned DEF Plans, Fitting
  <2> QED
    BY <2>1, <2>2 DEF TypeOK
<1>2. CASE Exit \/ Reboot
  <2>1. Unconfigured \in [ChainNames -> Seq(Rule) \cup {Absent}]
    BY DEF Unconfigured
  <2>2. Unconfigured["POSTROUTING"] # Absent /\ Unconfigured["FORWARD"] # Absent
    <3>1. <<>> \in Seq(Rule)
      OBVIOUS
    <3> QED
      BY <3>1, AbsentAssumption DEF Unconfigured, ChainNames
  <2> QED
    BY <1>2, <2>1, <2>2, FittingJoins DEF Exit, Reboot, TypeOK
<1>3. CASE DockerRestart
  <2>1. chains["FORWARD"] \in Seq(Rule)
    BY DEF TypeOK, ChainNames
  <2>2. RemoveFirst(chains["FORWARD"], Docker) \in Seq(Rule)
    BY <2>1, RemovedFirst
  <2>3. <<Docker>> \o RemoveFirst(chains["FORWARD"], Docker) \in Seq(Rule)
    BY <2>2, RulesAreRules
  <2> QED
    BY <1>0, <1>3, <2>3, AbsentAssumption DEF DockerRestart, TypeOK, ChainNames
<1>4. CASE DeleteJump
  <2>1. chains["FORWARD"] \in Seq(Rule)
    BY DEF TypeOK, ChainNames
  <2>2. RemoveFirst(chains["FORWARD"], Jump) \in Seq(Rule)
    BY <2>1, RemovedFirst
  <2>3. plan # <<>> /\ plan' = Run("insertJump", "FORWARD", Jump) \o Tail(plan)
    BY <1>4 DEF DeleteJump, Next1
  <2>4. Run("insertJump", "FORWARD", Jump) \in Fitting
    BY RunIs, RulesAreRules DEF Command, ChainNames, Fits
  <2>5. plan' \in Fitting
    BY <2>3, <2>4, RestFits, FittingJoins
  <2>6. plan' \in Seq(Command)
    BY <2>5 DEF Fitting
  <2> QED
    BY <1>4, <2>2, <2>5, <2>6, AbsentAssumption DEF DeleteJump, TypeOK, ChainNames
<1>5. ASSUME NEW rules \in Seq(Rule), Edits(rules) PROVE TypeOK' /\ plan' \in Fitting
  <2>1. plan' \in Fitting /\ plan' \in Seq(Command)
    BY <1>5, RestFits DEF Edits, Rewrite, Fitting
  <2>2. /\ chains' = [chains EXCEPT ![plan[1].chain] = rules] /\ conf' = conf /\ sub' = sub
        /\ rules # Absent
    BY <1>5, AbsentAssumption DEF Edits, Rewrite
  <2>3. chains' \in [ChainNames -> Seq(Rule) \cup {Absent}]
    BY <2>2 DEF TypeOK
  <2>4. chains'["POSTROUTING"] # Absent /\ chains'["FORWARD"] # Absent
    BY <2>2 DEF TypeOK, ChainNames
  <2> QED
    BY <2>1, <2>2, <2>3, <2>4 DEF TypeOK
<1> QED
  BY <1>1, <1>2, <1>3, <1>4, <1>5, SetupEdits DEF Next

\* A rule that is due stays due.
LEMMA DueKeeps ==
  ASSUME TypeOK, CommandsFit, Setup \/ DockerRestart,
         NEW op \in {"applyRule", "isolate"}, NEW chain \in ChainNames \ {"FORWARD"},
         NEW rule, Due(op, chain, rule)
  PROVE  Due(op, chain, rule)'
<1> DEFINE x == Run(op, chain, rule)[1]
<1>0. x.op = op /\ x.chain = chain /\ x.rule = rule
  BY DEF Run
<1>1. CASE DockerRestart
  BY <1>1 DEF DockerRestart, Due, TypeOK
<1>2. CASE DeleteJump
  <2>1. plan # <<>> /\ plan[1].op = "jumpFirst" /\ chains'[chain] = chains[chain]
    BY <1>2 DEF DeleteJump, Next1, TypeOK
  <2>2. Contains(plan, x) => Contains(Tail(plan), x)
    BY <1>0, <2>1, NextCommand
  <2>3. Contains(Tail(plan), x) => Contains(plan', x)
    <3> DEFINE jump == Run("insertJump", "FORWARD", Jump)
    <3>1. jump \in Seq(Command) /\ Tail(plan) \in Seq(Command) /\ plan' = jump \o Tail(plan)
      BY <1>2, <2>1, RunIs, NextCommand, RulesAreRules
      DEF DeleteJump, Command, ChainNames, Fits, Fitting
    <3> HIDE DEF x, jump
    <3> QED
      BY <3>1, ContainsConcat
  <2> QED
    BY <2>1, <2>2, <2>3 DEF Due
<1>3. ASSUME NEW rules \in Seq(Rule), Edits(rules) PROVE Due(op, chain, rule)'
  <2>1. /\ plan # <<>> /\ plan' = Tail(plan) /\ chains' = [chains EXCEPT ![plan[1].chain] = rules]
        /\ plan[1].op = op => Contains(rules, plan[1].rule)
        /\ \A y : Chain # Absent /\ Contains(Chain, y) => Contains(rules, y)
        /\ rules # Absent
    BY <1>3, EditsKeep, AbsentAssumption DEF Edits, Rewrite
  <2>2. chains'[chain] = IF chain = plan[1].chain THEN rules ELSE chains[chain]
    BY <2>1 DEF TypeOK
  <2>3. CASE chains[chain] # Absent /\ Contains(chains[chain], rule)
    BY <2>1, <2>2, <2>3 DEF Due, Chain
  <2>4. CASE Contains(plan, x)
    <3>1. x = plan[1] \/ Contains(Tail(plan), x)
      BY <2>1, <2>4, NextCommand
    <3>2. CASE x = plan[1]
      BY <1>0, <2>1, <2>2, <3>2 DEF Due
    <3> QED
      BY <2>1, <3>1, <3>2 DEF Due
  <2> QED
    BY <2>3, <2>4 DEF Due
<1> QED
  BY <1>1, <1>2, <1>3, SetupEdits

\* The start has not forgotten a rule.
LEMMA DueStep ==
  ASSUME TypeOK, CommandsFit, RulesAreDue, Next
  PROVE  RulesAreDue'
<1>1. CASE Start
  <2>1. PICK nets \in Listings, s \in [Masqueraded -> Subnets] :
          conf' = ToSet(nets) /\ sub' = s /\ plan' = Commands(nets, s) /\ chains' = chains
    BY <1>1 DEF Start
  <2>2. ASSUME NEW n \in ToSet(nets)
        PROVE  \E i \in DOMAIN Commands(nets, s) : Commands(nets, s)[i].op = "jumpFirst"
    <3>1. Contains(Commands(nets, s), Run("jumpFirst", "FORWARD", Jump)[1])
      BY CommandsArePlanned
    <3>2. PICK i \in 1 .. Len(Commands(nets, s)) :
            Commands(nets, s)[i] = Run("jumpFirst", "FORWARD", Jump)[1]
      BY <3>1 DEF Contains
    <3>3. i \in DOMAIN Commands(nets, s)
      BY CommandsArePlanned DEF Plans, Fitting
    <3> QED
      BY <3>2, <3>3 DEF Run
  <2> QED
    BY <2>1, <2>2, CommandsArePlanned DEF RulesAreDue, Due
<1>2. CASE Exit \/ Reboot
  BY <1>2 DEF Exit, Reboot, RulesAreDue
<1>3. CASE Setup \/ DockerRestart
  <2>1. conf' = conf /\ sub' = sub
    BY <1>3 DEF Setup, EnsureChain, ApplyRule, DeleteJump, InsertJump, EnsureIsolationRule,
                Rewrite, DockerRestart
  <2>2. ASSUME NEW n \in conf
        PROVE  \/ Contains(chains'["FORWARD"], Jump)
               \/ \E i \in DOMAIN plan' : plan'[i].op \in {"jumpFirst", "insertJump"}
    <3>0. chains["FORWARD"] \in Seq(Rule)
      BY DEF TypeOK, ChainNames
    <3>1. CASE DockerRestart
      <4>1. Contains(chains["FORWARD"], Jump) => Contains(chains'["FORWARD"], Jump)
        <5> DEFINE rest == RemoveFirst(chains["FORWARD"], Docker)
        <5>1. rest \in Seq(Rule) /\ <<Docker>> \in Seq(Rule) /\ Jump # Docker
          BY <3>0, RemovedFirst, RulesAreRules DEF Jump, Docker, Plain
        <5>2. Contains(chains["FORWARD"], Jump) => Contains(rest, Jump)
          BY <3>0, <5>1, RemovedFirst
        <5>3. chains'["FORWARD"] = <<Docker>> \o rest
          BY <3>1 DEF DockerRestart, TypeOK, ChainNames
        <5> HIDE DEF rest
        <5> QED
          BY <5>1, <5>2, <5>3, ContainsConcat
      <4> QED
        BY <2>2, <3>1, <4>1 DEF RulesAreDue, DockerRestart
    <3>2. CASE DeleteJump
      <4>1. Tail(plan) \in Seq(Command)
        BY <3>2, NextCommand DEF DeleteJump, Next1
      <4>2. 1 \in DOMAIN plan' /\ plan'[1].op = "insertJump"
        BY <3>2, <4>1 DEF DeleteJump, Run
      <4> QED
        BY <4>2
    <3>3. ASSUME NEW rules \in Seq(Rule), Edits(rules)
          PROVE  \/ Contains(chains'["FORWARD"], Jump)
                 \/ \E i \in DOMAIN plan' : plan'[i].op \in {"jumpFirst", "insertJump"}
      <4>1. /\ plan # <<>> /\ plan' = Tail(plan)
            /\ chains' = [chains EXCEPT ![plan[1].chain] = rules]
            /\ plan[1].op = "insertJump" => Contains(rules, plan[1].rule)
            /\ \A y : Chain # Absent /\ Contains(Chain, y) => Contains(rules, y)
            /\ plan[1].op # "jumpFirst"
        BY <3>3, EditsKeep DEF Edits, Rewrite
      <4>2. chains'["FORWARD"] = IF plan[1].chain = "FORWARD" THEN rules ELSE chains["FORWARD"]
        BY <4>1 DEF TypeOK, ChainNames
      <4>3. CASE Contains(chains["FORWARD"], Jump)
        BY <4>1, <4>2, <4>3 DEF Chain, TypeOK
      <4>4. CASE \E i \in DOMAIN plan : plan[i].op \in {"jumpFirst", "insertJump"}
        <5>1. PICK i \in DOMAIN plan : plan[i].op \in {"jumpFirst", "insertJump"}
          BY <4>4
        <5>2. CASE i = 1
          BY <4>1, <4>2, <5>1, <5>2, NextCommand DEF Fits
        <5>3. CASE i # 1
          BY <4>1, <5>1, <5>3, NextCommand
        <5> QED
          BY <5>2, <5>3
      <4> QED
        BY <2>2, <4>3, <4>4 DEF RulesAreDue
    <3> QED
      BY <1>3, <3>1, <3>2, <3>3, SetupEdits
  <2>3. ASSUME NEW n \in conf
        PROVE  /\ \A kind \in Accepting : Due("applyRule", "SMUGGLE-FORWARD", Accept(kind, n))'
               /\ \A m \in conf \ {n} : Due("isolate", "SMUGGLE-FORWARD", Reject(n, m))'
               /\ n \in Masqueraded =>
                    /\ Due("applyRule", "POSTROUTING", Jump)'
                    /\ Due("applyRule", "SMUGGLE-POSTROUTING", Masquerade(n, sub[n]))'
    <3>1. ASSUME NEW op \in {"applyRule", "isolate"}, NEW chain \in ChainNames \ {"FORWARD"},
                 NEW rule, Due(op, chain, rule)
          PROVE  Due(op, chain, rule)'
      BY <1>3, <3>1, DueKeeps
    <3>2. {"POSTROUTING", "SMUGGLE-POSTROUTING", "SMUGGLE-FORWARD"} = ChainNames \ {"FORWARD"}
      BY DEF ChainNames
    <3>3. ASSUME NEW kind \in Accepting PROVE Due("applyRule", "SMUGGLE-FORWARD", Accept(kind, n))'
      <4>1. Due("applyRule", "SMUGGLE-FORWARD", Accept(kind, n))
        BY <2>3 DEF RulesAreDue
      <4> QED
        BY <4>1, <3>1, <3>2
    <3>4. ASSUME NEW m \in conf \ {n} PROVE Due("isolate", "SMUGGLE-FORWARD", Reject(n, m))'
      <4>1. Due("isolate", "SMUGGLE-FORWARD", Reject(n, m))
        BY <2>3 DEF RulesAreDue
      <4> QED
        BY <4>1, <3>1, <3>2
    <3>5. ASSUME n \in Masqueraded
          PROVE  /\ Due("applyRule", "POSTROUTING", Jump)'
                 /\ Due("applyRule", "SMUGGLE-POSTROUTING", Masquerade(n, sub[n]))'
      <4>1. /\ Due("applyRule", "POSTROUTING", Jump)
            /\ Due("applyRule", "SMUGGLE-POSTROUTING", Masquerade(n, sub[n]))
        BY <2>3, <3>5 DEF RulesAreDue
      <4>2. Due("applyRule", "POSTROUTING", Jump)'
        BY <4>1, <3>1, <3>2
      <4>3. Due("applyRule", "SMUGGLE-POSTROUTING", Masquerade(n, sub[n]))'
        <5> DEFINE r == Masquerade(n, sub[n])
        <5>1. r' = r
          BY <2>1
        <5> HIDE DEF r
        <5>2. Due("applyRule", "SMUGGLE-POSTROUTING", r)
          BY <4>1 DEF r
        <5>3. \A rule : Due("applyRule", "SMUGGLE-POSTROUTING", rule)
                       => \/ Contains(plan', Run("applyRule", "SMUGGLE-POSTROUTING", rule)[1])
                          \/ /\ chains'["SMUGGLE-POSTROUTING"] # Absent
                             /\ Contains(chains'["SMUGGLE-POSTROUTING"], rule)
          BY <3>1, <3>2 DEF Due
        <5> QED
          BY <5>1, <5>2, <5>3 DEF Due, r
      <4> QED
        BY <4>2, <4>3
    <3> QED
      BY <3>3, <3>4, <3>5
  <2> QED
    BY <2>1, <2>2, <2>3 DEF RulesAreDue
<1> QED
  BY <1>1, <1>2, <1>3 DEF Next

\* What a step makes of the filter.
LEMMA FilterChanges ==
  ASSUME TypeOK, CommandsFit, Next
  PROVE  \/ Filter' = Filter
         \/ Reboot /\ Filter' = Absent
         \/ Filter = Absent /\ Filter' = <<>>
         \/ /\ plan # <<>> /\ AddsToFilter(plan[1]) /\ plan[1].rule \in Rule /\ Filter \in Seq(Rule)
            /\ \/ /\ plan[1].rule = Established \/ plan[1].rule.kind \in Accepting
                  /\ Filter' = Append(Filter, plan[1].rule)
               \/ /\ Separates(plan[1].rule) /\ Len(Filter) # 0
                  /\ Filter' = InsertAt(Filter, 2, plan[1].rule)
<1>1. CASE Start \/ Exit \/ DockerRestart \/ DeleteJump
  BY <1>1 DEF Start, Exit, DockerRestart, DeleteJump, TypeOK, ChainNames, Filter
<1>2. CASE Reboot
  BY <1>2 DEF Filter, Reboot, Unconfigured, ChainNames
<1>3. ASSUME NEW rules \in Seq(Rule), Edits(rules), Filter' # Filter,
             ~ (Filter = Absent /\ Filter' = <<>>)
      PROVE  /\ plan # <<>> /\ AddsToFilter(plan[1]) /\ plan[1].rule \in Rule /\ Filter \in Seq(Rule)
             /\ \/ /\ plan[1].rule = Established \/ plan[1].rule.kind \in Accepting
                   /\ Filter' = Append(Filter, plan[1].rule)
                \/ /\ Separates(plan[1].rule) /\ Len(Filter) # 0
                   /\ Filter' = InsertAt(Filter, 2, plan[1].rule)
  <2>1. /\ plan # <<>> /\ plan[1] \in Command /\ Fits(plan[1]) /\ plan[1].rule \in Rule
        /\ Chain \in Seq(Rule) \cup {Absent}
        /\ chains' = [chains EXCEPT ![plan[1].chain] = rules]
    BY <1>3, NextCommand DEF Edits, Rewrite, Command
  <2>2. plan[1].chain = "SMUGGLE-FORWARD" /\ Chain = Filter /\ Filter' = rules
    BY <1>3, <2>1 DEF Filter, TypeOK, ChainNames, Chain
  <2>3. CASE plan[1].op = "applyRule"
    BY <1>3, <2>1, <2>2, <2>3 DEF Edits, Fits, AddsToFilter
  <2>4. CASE plan[1].op = "isolate"
    BY <1>3, <2>1, <2>2, <2>4 DEF Edits, Fits, AddsToFilter
  <2>5. plan[1].op \in {"applyRule", "isolate"}
    BY <1>3, <2>1, <2>2 DEF Edits, Fits
  <2> QED
    BY <2>3, <2>4, <2>5
<1> QED
  BY <1>1, <1>2, <1>3, SetupEdits DEF Next

\* The rule for established connections comes first, isolation next.
LEMMA FilterStep ==
  ASSUME TypeOK, CommandsFit, IsolationComesFirst, EstablishedIsPlanned, Next
  PROVE  IsolationComesFirst'
<1>0. Filter # Absent => Filter \in Seq(Rule)
  BY DEF TypeOK, ChainNames, Filter
<1>1. CASE Filter' = Filter \/ Filter' = Absent
  BY <1>1 DEF IsolationComesFirst
<1>2. CASE Filter' = <<>>
  BY <1>2 DEF IsolationComesFirst
<1> DEFINE r == plan[1].rule
<1>3. CASE /\ plan # <<>> /\ AddsToFilter(plan[1]) /\ r \in Rule /\ Filter \in Seq(Rule)
           /\ r = Established \/ r.kind \in Accepting
           /\ Filter' = Append(Filter, r)
  <2>1. Filter = <<>> => r = Established
    <3>1. 1 \in DOMAIN plan
      BY <1>3 DEF TypeOK
    <3> QED
      BY <1>3, <3>1 DEF EstablishedIsPlanned, EstablishedFirst
  <2>2. r.kind # "reject"
    BY <1>3 DEF Established, Plain, Accepting
  <2>3. Filter # Absent
    BY <1>3, AbsentAssumption
  <2> DEFINE f == Filter
             g == Filter'
  <2>4. /\ f \in Seq(Rule) /\ g = Append(f, r)
        /\ f = <<>> => r = Established
        /\ f # <<>> => f[1] = Established
        /\ \A i, j \in 2 .. Len(f) : i < j /\ f[j].kind = "reject" => f[i].kind = "reject"
        /\ \A i \in DOMAIN f : f[i].kind = "reject" => Separates(f[i])
    BY <1>3, <2>1, <2>3 DEF IsolationComesFirst
  <2> HIDE DEF f, g, r
  <2>5. /\ Len(g) = Len(f) + 1 /\ g[Len(f) + 1] = r
        /\ \A i \in 1 .. Len(f) : g[i] = f[i]
    BY <2>4
  <2>6. g[1] = Established
    BY <2>4, <2>5
  <2>7. \A i, j \in 2 .. Len(g) : i < j /\ g[j].kind = "reject" => g[i].kind = "reject"
    BY <2>2, <2>4, <2>5
  <2>8. \A i \in DOMAIN g : g[i].kind = "reject" => Separates(g[i])
    BY <2>2, <2>4, <2>5
  <2> QED
    BY <2>6, <2>7, <2>8 DEF IsolationComesFirst, g
<1>4. CASE /\ plan # <<>> /\ r \in Rule /\ Filter \in Seq(Rule)
           /\ Separates(r) /\ Len(Filter) # 0 /\ Filter' = InsertAt(Filter, 2, r)
  <2>1. Filter # Absent
    BY <1>4, AbsentAssumption
  <2> DEFINE f == Filter
             g == Filter'
  <2>2. /\ f \in Seq(Rule) /\ Len(f) # 0 /\ g = InsertAt(f, 2, r) /\ r \in Rule /\ Separates(r)
        /\ f[1] = Established
        /\ \A i, j \in 2 .. Len(f) : i < j /\ f[j].kind = "reject" => f[i].kind = "reject"
        /\ \A i \in DOMAIN f : f[i].kind = "reject" => Separates(f[i])
    BY <1>4, <2>1 DEF IsolationComesFirst
  <2> HIDE DEF f, g, r
  <2>3. /\ g \in Seq(Rule) /\ Len(g) = Len(f) + 1 /\ g[1] = f[1] /\ g[2] = r
        /\ \A i \in 2 .. Len(f) : g[i + 1] = f[i]
    <3>1. f \in Seq(Rule) /\ Len(f) # 0 /\ r \in Rule /\ g = InsertAt(f, 2, r)
      BY <2>2
    <3> QED
      BY ONLY <3>1 DEF InsertAt
  <2>4. r.kind = "reject"
    BY <2>2 DEF Separates
  <2>5. \A i \in 3 .. Len(g) : i - 1 \in 2 .. Len(f) /\ g[i] = f[i - 1]
    <3> SUFFICES ASSUME NEW i \in 3 .. Len(g) PROVE i - 1 \in 2 .. Len(f) /\ g[i] = f[i - 1]
      OBVIOUS
    <3>1. i - 1 \in 2 .. Len(f) /\ (i - 1) + 1 = i
      BY <2>2, <2>3
    <3> QED
      BY <2>3, <3>1
  <2>6. \A i, j \in 2 .. Len(g) : i < j /\ g[j].kind = "reject" => g[i].kind = "reject"
    <3> SUFFICES ASSUME NEW i \in 2 .. Len(g), NEW j \in 2 .. Len(g), i < j, g[j].kind = "reject"
                 PROVE  g[i].kind = "reject"
      OBVIOUS
    <3>1. CASE i = 2
      BY <2>3, <2>4, <3>1
    <3>2. CASE i # 2
      <4>1. i \in 3 .. Len(g) /\ j \in 3 .. Len(g) /\ i - 1 < j - 1
        BY <3>2
      <4> QED
        BY <2>2, <2>5, <4>1
    <3> QED
      BY <3>1, <3>2
  <2>7. \A i \in DOMAIN g : g[i].kind = "reject" => Separates(g[i])
    <3> SUFFICES ASSUME NEW i \in DOMAIN g, g[i].kind = "reject" PROVE Separates(g[i])
      OBVIOUS
    <3>1. CASE i = 1
      BY <2>2, <2>3, <3>1 DEF Established, Plain
    <3>2. CASE i = 2
      BY <2>2, <2>3, <3>2
    <3>3. CASE i \in 3 .. Len(g)
      <4>1. i - 1 \in DOMAIN f /\ g[i] = f[i - 1]
        BY <2>2, <2>5, <3>3
      <4> QED
        BY <2>2, <4>1
    <3> QED
      BY <2>3, <3>1, <3>2, <3>3
  <2> QED
    BY <2>2, <2>3, <2>6, <2>7 DEF IsolationComesFirst, g
<1> QED
  BY <1>1, <1>2, <1>3, <1>4, FilterChanges

\* No command adds another rule to the filter before the rule for established
\* connections is there.
LEMMA PlannedStep ==
  ASSUME TypeOK, CommandsFit, EstablishedIsPlanned, Next
  PROVE  EstablishedIsPlanned'
<1> SUFFICES ASSUME Filter' \in {Absent, <<>>} PROVE EstablishedFirst(plan')
  BY DEF EstablishedIsPlanned, EstablishedFirst
<1>1. CASE Start
  BY <1>1, CommandsArePlanned DEF Start, Plans
<1>2. CASE Exit \/ Reboot
  BY <1>2 DEF Exit, Reboot, EstablishedFirst
<1>3. CASE DockerRestart
  <2>1. Filter' = Filter /\ plan' = plan
    BY <1>3 DEF DockerRestart, Filter, TypeOK, ChainNames
  <2> QED
    BY <2>1 DEF EstablishedIsPlanned
<1>4. CASE DeleteJump
  <2>1. /\ Filter' = Filter /\ plan # <<>> /\ ~AddsToFilter(plan[1])
        /\ plan' = Run("insertJump", "FORWARD", Jump) \o Tail(plan)
    BY <1>4 DEF DeleteJump, Next1, Filter, TypeOK, ChainNames, AddsToFilter
  <2>2. Tail(plan) \in Plans /\ Tail(plan) \in Fitting
    BY <2>1, RestFits DEF EstablishedIsPlanned
  <2>3. Run("insertJump", "FORWARD", Jump) \in Plans
    BY RunIs, RulesAreRules DEF Command, ChainNames, Fits
  <2>4. plan' \in Plans
    BY <2>1, <2>2, <2>3, Adding
  <2> QED
    BY <2>4 DEF Plans
<1>5. ASSUME NEW rules \in Seq(Rule), Edits(rules), ~Reboot PROVE EstablishedFirst(plan')
  <2>1. /\ plan # <<>> /\ plan' = Tail(plan)
        /\ chains' = [chains EXCEPT ![plan[1].chain] = rules]
    BY <1>5 DEF Edits, Rewrite
  <2>2. ~AddsToFilter(plan[1])
    <3> SUFFICES ASSUME AddsToFilter(plan[1]) PROVE FALSE
      OBVIOUS
    <3>1. Filter' = rules /\ Contains(rules, plan[1].rule)
      BY <1>5, <2>1, EditsKeep DEF AddsToFilter, Filter, TypeOK, ChainNames
    <3> QED
      BY <3>1, AbsentAssumption DEF Contains
  <2>3. Filter \in {Absent, <<>>}
    BY <2>2, <1>5, FilterChanges
  <2> QED
    BY <2>1, <2>2, <2>3, RestFits DEF EstablishedIsPlanned, Plans
<1> QED
  BY <1>1, <1>2, <1>3, <1>4, <1>5, SetupEdits DEF Next

\* No rule is added twice.
LEMMA UniqueStep ==
  ASSUME TypeOK, CommandsFit, NoneIsRepeated, Next
  PROVE  NoneIsRepeated'
<1> SUFFICES ASSUME NEW c \in ChainNames \ {"FORWARD"}, chains'[c] # Absent
             PROVE  \A i, j \in DOMAIN chains'[c] : chains'[c][i] = chains'[c][j] => i = j
  BY DEF NoneIsRepeated
<1>1. CASE chains'[c] = chains[c]
  BY <1>1 DEF NoneIsRepeated
<1>2. CASE chains'[c] = <<>>
  BY <1>2
<1>3. CASE Start \/ Exit \/ DockerRestart \/ DeleteJump
  BY <1>1, <1>3 DEF Start, Exit, DockerRestart, DeleteJump, TypeOK
<1>4. CASE Reboot
  BY <1>2, <1>4 DEF Reboot, Unconfigured
<1>5. ASSUME NEW rules \in Seq(Rule), Edits(rules), chains'[c] # chains[c], chains'[c] # <<>>
      PROVE  \A i, j \in DOMAIN rules : rules[i] = rules[j] => i = j
  <2> DEFINE f == Chain
             r == plan[1].rule
  <2>1. /\ plan[1].chain = c /\ Fits(plan[1]) /\ r \in Rule /\ f \in Seq(Rule) \cup {Absent}
        /\ f # Absent => \A i, j \in DOMAIN f : f[i] = f[j] => i = j
        /\ rules = chains'[c] /\ f = chains[c]
    <3>1. plan # <<>> /\ chains' = [chains EXCEPT ![plan[1].chain] = rules]
      BY <1>5 DEF Edits, Rewrite
    <3>2. plan[1] \in Command /\ Fits(plan[1]) /\ Chain \in Seq(Rule) \cup {Absent}
      BY <3>1, NextCommand
    <3>3. plan[1].chain = c /\ rules = chains'[c] /\ Chain = chains[c]
      BY <1>5, <3>1 DEF TypeOK, Chain
    <3> QED
      BY <3>2, <3>3 DEF NoneIsRepeated, Command
  <2>2. \/ /\ f \in Seq(Rule) /\ r \notin {f[i] : i \in DOMAIN f}
           /\ rules = Append(f, r) \/ (Len(f) # 0 /\ rules = InsertAt(f, 2, r))
        \/ rules = f \/ rules = <<>>
    <3>1. plan[1].op # "insertJump"
      BY <2>1 DEF Fits
    <3>2. f \in Seq(Rule) /\ ~Contains(f, r) => r \notin {f[i] : i \in DOMAIN f}
      BY DEF Contains
    <3> HIDE DEF r, f
    <3>3. \/ /\ f # Absent /\ ~Contains(f, r)
             /\ rules = Append(f, r) \/ (Len(f) # 0 /\ rules = InsertAt(f, 2, r))
          \/ rules = f \/ rules = <<>>
      BY <1>5, <3>1 DEF Edits, r, f
    <3> QED
      BY <2>1, <3>2, <3>3
  <2>3. rules # f /\ rules # <<>>
    BY <1>5, <2>1
  <2> HIDE DEF f, r
  <2>4. f # Absent => \A i, j \in DOMAIN f : f[i] = f[j] => i = j
    BY <2>1
  <2>5. f \in Seq(Rule) /\ f # Absent /\ r \in Rule /\ \A i \in DOMAIN f : f[i] # r
    BY <2>1, <2>2, <2>3, AbsentAssumption
  <2>6. CASE rules = Append(f, r)
    BY <2>4, <2>5, <2>6
  <2>7. CASE Len(f) # 0 /\ rules = InsertAt(f, 2, r)
    <3>1. /\ Len(rules) = Len(f) + 1 /\ rules[1] = f[1] /\ rules[2] = r
          /\ \A i \in 2 .. Len(f) : rules[i + 1] = f[i]
      BY ONLY <2>5, <2>7 DEF InsertAt
    <3> DEFINE from(i) == IF i = 1 THEN 1 ELSE i - 1
    <3>2. \A i \in DOMAIN rules : i # 2 => from(i) \in DOMAIN f /\ rules[i] = f[from(i)]
      <4> SUFFICES ASSUME NEW i \in DOMAIN rules, i # 2
                   PROVE  from(i) \in DOMAIN f /\ rules[i] = f[from(i)]
        OBVIOUS
      <4>1. CASE i = 1
        BY <2>5, <2>7, <3>1, <4>1
      <4>2. CASE i # 1
        <5>1. i - 1 \in 2 .. Len(f) /\ (i - 1) + 1 = i
          BY <2>5, <3>1, <4>2
        <5> QED
          BY <2>5, <3>1, <4>2, <5>1
      <4> QED
        BY <4>1, <4>2
    <3>3. \A i, j \in DOMAIN rules : i # 2 /\ j # 2 /\ from(i) = from(j) => i = j
      BY <3>1
    <3> HIDE DEF from
    <3> QED
      BY <2>4, <2>5, <3>1, <3>2, <3>3
  <2> QED
    BY <2>2, <2>3, <2>6, <2>7
<1>6. ASSUME NEW rules \in Seq(Rule), Edits(rules), chains'[c] # chains[c]
      PROVE  chains'[c] = rules
  BY <1>6 DEF Edits, Rewrite, TypeOK
<1> QED
  BY <1>1, <1>2, <1>3, <1>4, <1>5, <1>6, SetupEdits DEF Next

-----------------------------------------------------------------------------
(* The theorems.                                                           *)

\* The invariant of Firewall is inductive.
THEOREM Invariance == Spec => []IInv
<1>1. Init => IInv
  <2> SUFFICES ASSUME Init PROVE IInv
    OBVIOUS
  <2>1. \A c \in ChainNames : chains[c] \in {<<>>, Absent}
    BY DEF Init, Unconfigured
  <2>2. TypeOK
    <3>1. <<>> \in Seq(Rule) /\ <<>> \in Seq(Command)
      OBVIOUS
    <3>2. chains["POSTROUTING"] = <<>> /\ chains["FORWARD"] = <<>>
      BY DEF Init, Unconfigured, ChainNames
    <3>3. chains \in [ChainNames -> Seq(Rule) \cup {Absent}]
      BY <3>1 DEF Init, Unconfigured
    <3> QED
      BY <3>1, <3>2, <3>3, AbsentAssumption DEF Init, TypeOK
  <2>3. IsolationComesFirst
    BY <2>1 DEF IsolationComesFirst, Filter, ChainNames
  <2>4. CommandsFit /\ EstablishedIsPlanned /\ RulesAreDue
    BY DEF Init, CommandsFit, EstablishedIsPlanned, EstablishedFirst, RulesAreDue
  <2>5. NoneIsRepeated
    BY <2>1 DEF NoneIsRepeated
  <2> QED
    BY <2>2, <2>3, <2>4, <2>5 DEF IInv
<1>2. IInv /\ [Next]_vars => IInv'
  <2>1. ASSUME IInv, Next PROVE IInv'
    BY <2>1, TypesStep, DueStep, FilterStep, PlannedStep, UniqueStep DEF IInv
  <2>2. ASSUME IInv, UNCHANGED vars PROVE IInv'
    BY <2>2 DEF vars, IInv, TypeOK, CommandsFit, IsolationComesFirst, EstablishedIsPlanned,
                EstablishedFirst, RulesAreDue, Due, NoneIsRepeated, Filter
  <2> QED
    BY <2>1, <2>2
<1> QED
  BY <1>1, <1>2, PTL DEF Spec

\* No start, after however many, adds a rule that is there already.
THEOREM RulesUnique == Spec => []RulesAreUnique
<1>1. IInv => RulesAreUnique
  <2> SUFFICES ASSUME IInv, NEW c \in ChainNames \ {"FORWARD"}, chains[c] # Absent
               PROVE  Cardinality(ToSet(chains[c])) = Len(chains[c])
    BY DEF RulesAreUnique
  <2> DEFINE s == chains[c]
  <2>1. s \in Seq(Rule) /\ \A i, j \in DOMAIN s : s[i] = s[j] => i = j
    BY DEF IInv, TypeOK, NoneIsRepeated
  <2> HIDE DEF s
  <2>2. Cardinality(ToSet(s)) = Len(s)
    BY <2>1, CountingUnique
  <2> QED
    BY <2>2 DEF s
<1> QED
  BY <1>1, Invariance, PTL

-----------------------------------------------------------------------------
(* The verdicts.                                                           *)

\* If a rule matches, one decides, and not later in the chain.
LEMMA FirstMatch ==
  ASSUME NEW p, NEW i \in DOMAIN Filter, Filter \in Seq(Rule), Matches(Filter[i], p)
  PROVE  \E k \in DOMAIN Filter : k <= i /\ Decides(k, p)
<1> DEFINE S == {k \in 1 .. Len(Filter) : Matches(Filter[k], p)}
<1>1. S \in SUBSET Nat /\ S # {} /\ i \in S
  OBVIOUS
<1>2. PICK k \in S : \A j \in S : k <= j
  BY <1>1, Least
<1>3. k \in DOMAIN Filter /\ k <= i
  BY <1>1, <1>2
<1>4. ASSUME NEW j \in 1 .. k - 1 PROVE ~Matches(Filter[j], p)
  BY <1>2
<1> QED
  BY <1>2, <1>3, <1>4 DEF Decides

\* The rule for established connections is not about the first packet of one,
\* and the isolation of the networks not about what a network sends to itself
\* or to the world outside.
LEMMA NotMatched ==
  /\ \A p : ~Matches(Established, p)
  /\ \A n \in Networks : \A r : Distinct(n) /\ Separates(r) =>
       \A p \in Internal(n) \cup External(n) : ~Matches(r, p)
<1>1. ASSUME NEW p PROVE ~Matches(Established, p)
  BY DEF Established, Plain, Matches
<1>2. ASSUME NEW n \in Networks, NEW r, Distinct(n), Separates(r), NEW p \in Internal(n) \cup External(n),
             Matches(r, p)
      PROVE  FALSE
  <2>1. /\ r.of \in Networks /\ r.to \in Networks /\ r.of # r.to
        /\ p.in[1] \in Covers[r.of] /\ p.out[1] \in Covers[r.to]
    BY <1>2 DEF Separates, Matches
  <2>2. p.in[1] \in {n, NoNet} /\ p.out[1] \in {n, NoNet}
    BY DEF Internal, External, Packet, Bridge, Vxlan, Outside
  <2>3. p.in[1] # NoNet /\ p.out[1] # NoNet
    BY <2>1, ConstantsAssumption
  <2> QED
    BY <1>2, <2>1, <2>2, <2>3 DEF Distinct
<1> QED
  BY <1>1, <1>2

\* When the agent has started, the networks of the host are isolated from each
\* other.
THEOREM NetworksIsolated == Spec => []Isolated
<1>1. IInv => Isolated
  <2> SUFFICES ASSUME IInv, Running, NEW n \in conf, NEW m \in conf, n # m,
                      NEW p \in Crossing(n, m)
               PROVE  Rejected(p)
    BY DEF Isolated
  <2>1. n \in Networks /\ m \in Networks
    BY DEF IInv, TypeOK
  <2>2. \A x : ~Contains(plan, x)
    BY DEF Running, Contains
  <2>3. Filter # Absent /\ Contains(Filter, Reject(n, m)) /\ Contains(chains["FORWARD"], Jump)
    BY <2>2 DEF IInv, RulesAreDue, Due, Running, Filter
  <2>4. Filter \in Seq(Rule)
    BY <2>3 DEF IInv, TypeOK, ChainNames, Filter
  <2>5. PICK i \in DOMAIN Filter : Filter[i] = Reject(n, m)
    BY <2>3, <2>4 DEF Contains
  <2>6. Matches(Filter[i], p) /\ Filter[i].kind = "reject"
    <3>1. p.in[1] = n /\ p.out[1] = m
      BY DEF Crossing, Packet, Bridge, Vxlan
    <3> QED
      BY <2>1, <2>5, <3>1, ConstantsAssumption DEF Matches, Reject
  <2>7. PICK k \in DOMAIN Filter : k <= i /\ Decides(k, p)
    BY <2>4, <2>6, FirstMatch
  <2>8. k # 1
    BY <2>3, <2>4, <2>7, NotMatched DEF IInv, IsolationComesFirst, Decides
  <2>9. Filter[k].kind = "reject"
    <3>1. k = i \/ (k \in 2 .. Len(Filter) /\ i \in 2 .. Len(Filter) /\ k < i)
      BY <2>4, <2>7, <2>8
    <3> QED
      BY <2>3, <2>6, <3>1 DEF IInv, IsolationComesFirst
  <2> QED
    BY <2>3, <2>7, <2>9 DEF Rejected, HasJump
<1> QED
  BY <1>1, Invariance, PTL

\* ... and each is connected, if its interfaces are told apart from those of
\* the others, and masqueraded if so configured.
THEOREM NetworksConnected == Spec => []Connected
<1>1. IInv => Connected
  <2> SUFFICES ASSUME IInv, Running, NEW n \in conf
               PROVE  /\ Distinct(n) => \A p \in Internal(n) \cup External(n) : Accepted(p)
                      /\ n \in Masqueraded => MasqueradedOut(n)
    BY DEF Connected
  <2>1. n \in Networks /\ n # NoNet
    BY ConstantsAssumption DEF IInv, TypeOK
  <2>2. \A x : ~Contains(plan, x)
    BY DEF Running, Contains
  <2>3. n \in Masqueraded => MasqueradedOut(n)
    BY <2>2 DEF IInv, RulesAreDue, Due, MasqueradedOut
  <2>4. ASSUME Distinct(n), NEW p \in Internal(n) \cup External(n) PROVE Accepted(p)
    <3>1. /\ Filter # Absent /\ Contains(chains["FORWARD"], Jump)
          /\ \A kind \in Accepting : Contains(Filter, Accept(kind, n))
      BY <2>2 DEF IInv, RulesAreDue, Due, Running, Filter, Accepting
    <3>2. Filter \in Seq(Rule)
      BY <3>1 DEF IInv, TypeOK, ChainNames, Filter
    <3>3. \E kind \in Accepting : Matches(Accept(kind, n), p)
      BY <2>1 DEF Accepting, Matches, Accept, Within, Internal, External, Packet, Bridge, Vxlan, Outside
    <3>4. PICK i \in DOMAIN Filter : Matches(Filter[i], p)
      BY <3>1, <3>2, <3>3 DEF Contains
    <3>5. PICK k \in DOMAIN Filter : Decides(k, p)
      BY <3>2, <3>4, FirstMatch
    <3>6. Filter[k].kind # "reject"
      BY <2>1, <2>4, <3>1, <3>5, NotMatched DEF IInv, IsolationComesFirst, Decides
    <3>7. Filter[k].kind \in Accepting
      BY <3>5, <3>6 DEF Decides, Matches, Accepting
    <3> QED
      BY <3>1, <3>5, <3>7 DEF Accepted, HasJump
  <2> QED
    BY <2>3, <2>4
<1> QED
  BY <1>1, Invariance, PTL

\* A rule that decides goes on to decide, or a new rule of the isolation does
\* instead.
LEMMA GoesOnToDecide ==
  ASSUME IInv, Next, ~Reboot, Filter # Absent, NEW p, NEW i \in DOMAIN Filter, Decides(i, p)
  PROVE  \E k \in DOMAIN Filter' :
           /\ Decides(k, p)'
           /\ \/ Filter'[k] = Filter[i]
              \/ Separates(Filter'[k]) /\ Matches(Filter'[k], p)
<1> DEFINE f == Filter
           g == Filter'
           r == plan[1].rule
<1>1. CASE g = f
  BY <1>1 DEF Decides
<1>2. /\ f \in Seq(Rule) /\ i \in 1 .. Len(f) /\ f # <<>> /\ f[1] = Established
      /\ Matches(f[i], p) /\ \A j \in 1 .. i - 1 : ~Matches(f[j], p)
  <2>1. f \in Seq(Rule)
    BY DEF IInv, TypeOK, ChainNames, Filter
  <2>2. i \in 1 .. Len(f) /\ f # <<>>
    BY <2>1
  <2> QED
    BY <2>1, <2>2 DEF IInv, IsolationComesFirst, Decides
<1>3. i \in 2 .. Len(f)
  BY <1>2, NotMatched
<1>4. \/ g = f
      \/ r \in Rule /\ g = Append(f, r)
      \/ r \in Rule /\ Separates(r) /\ g = InsertAt(f, 2, r)
  BY FilterChanges DEF IInv
<1>5. ASSUME NEW k \in 1 .. Len(g), Matches(g[k], p), \A j \in 1 .. k - 1 : ~Matches(g[j], p),
             g \in Seq(Rule)
      PROVE  k \in DOMAIN Filter' /\ Decides(k, p)'
  BY <1>5 DEF Decides
<1> HIDE DEF f, g, r
<1>6. CASE r \in Rule /\ g = Append(f, r)
  <2>1. /\ g \in Seq(Rule) /\ i \in 1 .. Len(g) /\ g[i] = f[i]
        /\ \A j \in 1 .. i - 1 : g[j] = f[j]
    BY <1>2, <1>6
  <2> QED
    BY <1>2, <1>5, <2>1 DEF f, g
<1>7. CASE r \in Rule /\ Separates(r) /\ g = InsertAt(f, 2, r)
  <2>1. /\ g \in Seq(Rule) /\ Len(g) = Len(f) + 1 /\ g[1] = f[1] /\ g[2] = r
        /\ \A j \in 2 .. Len(f) : g[j + 1] = f[j]
    <3>1. f \in Seq(Rule) /\ Len(f) # 0
      BY <1>2
    <3> QED
      BY ONLY <3>1, <1>7 DEF InsertAt
  <2>2. ~Matches(g[1], p)
    BY <1>2, <2>1, NotMatched
  <2>3. CASE Matches(r, p)
    <3>1. 2 \in 1 .. Len(g) /\ Matches(g[2], p) /\ \A j \in 1 .. 2 - 1 : ~Matches(g[j], p)
      BY <1>2, <2>1, <2>2, <2>3
    <3> QED
      BY <1>5, <1>7, <2>1, <2>3, <3>1 DEF g
  <2>4. CASE ~Matches(r, p)
    <3>1. i + 1 \in 1 .. Len(g) /\ g[i + 1] = f[i]
      BY <1>3, <2>1
    <3>2. ASSUME NEW j \in 1 .. (i + 1) - 1 PROVE ~Matches(g[j], p)
      <4>1. CASE j = 1
        BY <2>2, <4>1
      <4>2. CASE j = 2
        BY <2>1, <2>4, <4>2
      <4>3. CASE j \notin {1, 2}
        <5>1. j - 1 \in 2 .. Len(f) /\ j - 1 \in 1 .. i - 1 /\ (j - 1) + 1 = j
          BY <1>2, <1>3, <4>3
        <5> QED
          BY <1>2, <2>1, <5>1
      <4> QED
        BY <4>1, <4>2, <4>3
    <3> QED
      BY <1>2, <1>5, <2>1, <3>1, <3>2 DEF f, g
  <2> QED
    BY <2>3, <2>4
<1> QED
  BY <1>1, <1>4, <1>6, <1>7 DEF f, g

\* As long as the jump is there and the host up, no step changes what becomes
\* of a packet.
THEOREM VerdictsStable == Spec => VerdictsAreStable
<1> DEFINE Stable ==
      (HasJump' /\ ~Reboot) =>
       \A n \in Networks :
         /\ Distinct(n) => \A p \in Internal(n) \cup External(n) : Accepted(p) => Accepted(p)'
         /\ \A m \in Networks \ {n} : \A p \in Crossing(n, m) : Rejected(p) => Rejected(p)'
<1>1. ASSUME IInv, Next, HasJump', ~Reboot, NEW n \in Networks, Distinct(n),
             NEW p \in Internal(n) \cup External(n), Accepted(p)
      PROVE  Accepted(p)'
  <2>1. PICK i \in DOMAIN Filter : Filter[i].kind \in Accepting /\ Decides(i, p)
    BY <1>1 DEF Accepted
  <2>2. Filter # Absent
    BY <1>1 DEF Accepted, HasJump
  <2>3. PICK k \in DOMAIN Filter' :
          /\ Decides(k, p)'
          /\ Filter'[k] = Filter[i] \/ (Separates(Filter'[k]) /\ Matches(Filter'[k], p))
    BY <1>1, <2>1, <2>2, GoesOnToDecide
  <2>4. Filter'[k].kind \in Accepting
    BY <1>1, <2>1, <2>3, NotMatched
  <2> QED
    BY <1>1, <2>3, <2>4 DEF Accepted
<1>2. ASSUME IInv, Next, HasJump', ~Reboot, NEW p, Rejected(p)
      PROVE  Rejected(p)'
  <2>1. PICK i \in DOMAIN Filter : Filter[i].kind = "reject" /\ Decides(i, p)
    BY <1>2 DEF Rejected
  <2>2. Filter # Absent
    BY <1>2 DEF Rejected, HasJump
  <2>3. PICK k \in DOMAIN Filter' :
          /\ Decides(k, p)'
          /\ Filter'[k] = Filter[i] \/ (Separates(Filter'[k]) /\ Matches(Filter'[k], p))
    BY <1>2, <2>1, <2>2, GoesOnToDecide
  <2>4. Filter'[k].kind = "reject"
    BY <2>1, <2>3 DEF Separates
  <2> QED
    BY <1>2, <2>3, <2>4 DEF Rejected
<1>3. IInv /\ [Next]_vars => [Stable]_chains
  <2>1. ASSUME IInv, Next PROVE Stable
    BY <1>1, <1>2, <2>1
  <2>2. UNCHANGED vars => UNCHANGED chains
    BY DEF vars
  <2> QED
    BY <2>1, <2>2
<1> HIDE DEF Stable
<1>4. Spec => [][Stable]_chains
  BY <1>3, Invariance, PTL DEF Spec
<1> QED
  BY <1>4, Zenon DEF VerdictsAreStable, Stable
=============================================================================
