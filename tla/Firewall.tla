------------------------------- MODULE Firewall -------------------------------
(***************************************************************************)
(* The packet filter of one host, as the client agent sets it up.          *)
(*                                                                         *)
(* A start of the agent is a list of iptables commands: for every network  *)
(* the masquerading rules, the forwarding rules and the jump to them, and  *)
(* in the end the rules that isolate the networks from each other.  A      *)
(* command looks whether its rule is there before it adds it, so that a    *)
(* start can follow on an earlier one, complete or not, for the same or    *)
(* for other networks: rules are never removed.  The agent may stop after  *)
(* every command, and Docker puts its own rule before all others whenever  *)
(* it restarts.                                                            *)
(*                                                                         *)
(* A rule is a record of its kind and the networks it is about; the        *)
(* properties are about what the rules make of a packet.                   *)
(***************************************************************************)
EXTENDS Integers, Sequences, FiniteSets, SequencesExt

CONSTANTS
  Networks,      \* the networks that may be configured
  Listings,      \* the lists of them that ListNetworks may return
  Masqueraded,   \* those with IPMasq
  Subnets,       \* the subnets a client may have
  Covers,        \* Covers[n]: the networks with interfaces that match "n+"
  NoNet,         \* in place of a network: the world outside
  Absent,        \* a chain that does not exist
  MaxForward     \* bound: the rules of FORWARD before a step that adds one

ASSUME ConstantsAssumption ==
  /\ Listings \subseteq Seq(Networks) \ {<<>>}
  /\ Masqueraded \subseteq Networks
  /\ Covers \in [Networks -> SUBSET Networks]
  /\ \A n \in Networks : n \in Covers[n]
  /\ NoNet \notin Networks \cup Subnets
  /\ MaxForward \in Nat

VARIABLES
  chains,    \* chains[c]: the rules of chain c
  conf,      \* the networks of the agent's start, none while it is down
  sub,       \* sub[n]: the client's subnet of network n, by that start
  plan       \* the commands the start still has to run

vars == <<chains, conf, sub, plan>>

ChainNames == {"POSTROUTING", "SMUGGLE-POSTROUTING", "FORWARD", "SMUGGLE-FORWARD"}
Filter == chains["SMUGGLE-FORWARD"]

Accepting == {"toExternal", "fromExternal", "local", "toVxlan", "fromVxlan"}
Rule == [kind : {"jump", "docker", "established", "masquerade", "reject"} \cup Accepting,
         of : Networks \cup {NoNet}, to : Networks \cup Subnets \cup {NoNet}]

Plain(kind)      == [kind |-> kind, of |-> NoNet, to |-> NoNet]
Jump             == Plain("jump")
Docker           == Plain("docker")
Established      == Plain("established")
Accept(kind, n)  == [kind |-> kind, of |-> n, to |-> NoNet]
Masquerade(n, s) == [kind |-> "masquerade", of |-> n, to |-> s]
Reject(n, m)     == [kind |-> "reject", of |-> n, to |-> m]

Command == [op : {"ensureChain", "applyRule", "jumpFirst", "insertJump", "isolate"},
            chain : ChainNames, rule : Rule]

ASSUME AbsentAssumption == Absent \notin Seq(Rule)

-----------------------------------------------------------------------------
(* The commands of a start.                                                *)

Run(op, chain, rule) == <<[op |-> op, chain |-> chain, rule |-> rule]>>

SetupMasqRules(n, s) ==
  IF n \notin DOMAIN s THEN <<>>
  ELSE Run("ensureChain", "SMUGGLE-POSTROUTING", Jump)
         \o Run("applyRule", "POSTROUTING", Jump)
         \o Run("applyRule", "SMUGGLE-POSTROUTING", Masquerade(n, s[n]))

SetupForwardRules(n) ==
  Run("ensureChain", "SMUGGLE-FORWARD", Jump)
    \o Run("applyRule", "SMUGGLE-FORWARD", Established)
    \o Run("applyRule", "SMUGGLE-FORWARD", Accept("toExternal", n))
    \o Run("applyRule", "SMUGGLE-FORWARD", Accept("fromExternal", n))
    \o Run("applyRule", "SMUGGLE-FORWARD", Accept("local", n))
    \o Run("applyRule", "SMUGGLE-FORWARD", Accept("toVxlan", n))
    \o Run("applyRule", "SMUGGLE-FORWARD", Accept("fromVxlan", n))
    \o Run("jumpFirst", "FORWARD", Jump)

\* The names "Mutant..." are plausible mistakes, each a variant of the
\* definition that follows it: the runs are shown to find them.

\* No network is isolated from itself.
MutantIsolate(n, m) == Run("isolate", "SMUGGLE-FORWARD", Reject(n, m))
Isolate(n, m) ==
  IF n = m THEN <<>> ELSE Run("isolate", "SMUGGLE-FORWARD", Reject(n, m))

EnsureIsolation(nets) ==
  IF Len(nets) < 2 THEN <<>>
  ELSE Run("ensureChain", "SMUGGLE-FORWARD", Jump)
         \o FlattenSeq([i \in DOMAIN nets |->
              FlattenSeq([j \in DOMAIN nets |-> Isolate(nets[i], nets[j])])])

\* The start's own order: network by network, and the isolation at the end.
Commands(nets, s) ==
  FlattenSeq([i \in DOMAIN nets |->
                SetupMasqRules(nets[i], s) \o SetupForwardRules(nets[i])])
    \o EnsureIsolation(nets)

-----------------------------------------------------------------------------

Unconfigured ==
  [c \in ChainNames |-> IF c \in {"POSTROUTING", "FORWARD"} THEN <<>> ELSE Absent]

Init ==
  /\ chains = Unconfigured
  /\ conf = {}
  /\ sub \in [Masqueraded -> Subnets]
  /\ plan = <<>>

\* The agent starts, with the networks of the store at that time.
Start ==
  /\ conf = {}
  /\ \E nets \in Listings, s \in [Masqueraded -> Subnets] :
       /\ conf' = ToSet(nets)
       /\ sub' = s
       /\ plan' = Commands(nets, s)
  /\ UNCHANGED chains

\* The next command, if it is op.
Next1(op) == plan # <<>> /\ plan[1].op = op
Chain == chains[plan[1].chain]
Rewrite(rules) ==
  /\ chains' = [chains EXCEPT ![plan[1].chain] = rules]
  /\ plan' = Tail(plan)
  /\ UNCHANGED <<conf, sub>>

MutantEnsureChain == Next1("ensureChain") /\ Rewrite(<<>>)
EnsureChain ==
  /\ Next1("ensureChain")
  /\ Rewrite(IF Chain = Absent THEN <<>> ELSE Chain)

\* A rule is appended, unless the chain has it.  Without the chain the command
\* fails, and the start with it.
MutantApplied(rules, r) == Append(rules, r)
Applied(rules, r) == IF Contains(rules, r) THEN rules ELSE Append(rules, r)
ApplyRule ==
  /\ Next1("applyRule") /\ Chain # Absent
  /\ Rewrite(Applied(Chain, plan[1].rule))

\* ensureJumpRuleFirst: the jump is deleted wherever it is; a deletion that
\* fails is only logged.
DeleteJump ==
  /\ Next1("jumpFirst")
  /\ \/ chains' = [chains EXCEPT !["FORWARD"] = RemoveFirst(@, Jump)]
     \/ Contains(Chain, Jump) /\ Len(Chain) < MaxForward /\ UNCHANGED chains
  /\ plan' = Run("insertJump", "FORWARD", Jump) \o Tail(plan)
  /\ UNCHANGED <<conf, sub>>

\* ... and put at the top, by a command of its own.
InsertJump ==
  /\ Next1("insertJump")
  /\ Rewrite(<<plan[1].rule>> \o Chain)

\* An isolation rule goes in at position 2, which takes a rule at position 1.
MutantIsolationPosition == 3
IsolationPosition == 2
EnsureIsolationRule ==
  /\ Next1("isolate") /\ Chain # Absent
  /\ IF Contains(Chain, plan[1].rule) THEN Rewrite(Chain)
     ELSE /\ IsolationPosition <= Len(Chain) + 1
          /\ Rewrite(InsertAt(Chain, IsolationPosition, plan[1].rule))

\* A command fails, another step of the start fails, or the agent stops: the
\* rules stay.
Exit ==
  /\ conf # {}
  /\ conf' = {} /\ plan' = <<>>
  /\ UNCHANGED <<chains, sub>>

\* The host restarts, without rules.
Reboot ==
  /\ chains' = Unconfigured
  /\ conf' = {} /\ plan' = <<>>
  /\ UNCHANGED sub

\* Docker puts its rule before all others.
DockerRestart ==
  /\ Len(RemoveFirst(chains["FORWARD"], Docker)) < MaxForward
  /\ chains' = [chains EXCEPT !["FORWARD"] = <<Docker>> \o RemoveFirst(@, Docker)]
  /\ UNCHANGED <<conf, sub, plan>>

Setup == EnsureChain \/ ApplyRule \/ DeleteJump \/ InsertJump \/ EnsureIsolationRule

Next == Start \/ Setup \/ Exit \/ Reboot \/ DockerRestart

Spec == Init /\ [][Next]_vars

-----------------------------------------------------------------------------
(* What the rules make of the first packet of a connection: in and out are *)
(* its interfaces, src and dst the networks of its addresses.  Docker's    *)
(* rule is about Docker's interfaces and passes it on.                     *)

Bridge(n) == <<n, "bridge">>
Vxlan(n)  == <<n, "vxlan">>
Outside   == <<NoNet, "eth">>

Packet(in, out, src, dst) == [in |-> in, out |-> out, src |-> src, dst |-> dst]

Within(r, p) == p.src = r.of /\ p.dst = r.of
Matches(r, p) ==
  \/ r.kind = "toExternal"   /\ p.in = Bridge(r.of) /\ p.src = r.of /\ p.dst # r.of
  \/ r.kind = "fromExternal" /\ p.out = Bridge(r.of) /\ p.dst = r.of /\ p.src # r.of
  \/ r.kind = "local"     /\ p.in = Bridge(r.of) /\ p.out = Bridge(r.of) /\ Within(r, p)
  \/ r.kind = "toVxlan"   /\ p.in = Bridge(r.of) /\ p.out = Vxlan(r.of) /\ Within(r, p)
  \/ r.kind = "fromVxlan" /\ p.in = Vxlan(r.of) /\ p.out = Bridge(r.of) /\ Within(r, p)
  \/ r.kind = "reject" /\ p.in[1] \in Covers[r.of] /\ p.out[1] \in Covers[r.to]

\* The first rule that matches decides, if the jump leads to it.
HasJump == Contains(chains["FORWARD"], Jump) /\ Filter # Absent
Decides(i, p) ==
  Matches(Filter[i], p) /\ \A j \in 1 .. i - 1 : ~Matches(Filter[j], p)
Accepted(p) ==
  HasJump /\ \E i \in DOMAIN Filter : Filter[i].kind \in Accepting /\ Decides(i, p)
Rejected(p) ==
  HasJump /\ \E i \in DOMAIN Filter : Filter[i].kind = "reject" /\ Decides(i, p)

\* From one network to another, within one, and between one and the outside.
Crossing(n, m) ==
  {Packet(i, o, n, m) : i \in {Bridge(n), Vxlan(n)}, o \in {Bridge(m), Vxlan(m)}}
Internal(n) ==
  {Packet(Bridge(n), Bridge(n), n, n), Packet(Bridge(n), Vxlan(n), n, n),
   Packet(Vxlan(n), Bridge(n), n, n)}
External(n) ==
  {Packet(Bridge(n), Outside, n, NoNet), Packet(Outside, Bridge(n), NoNet, n)}

MasqueradedOut(n) ==
  /\ Contains(chains["POSTROUTING"], Jump)
  /\ Contains(chains["SMUGGLE-POSTROUTING"], Masquerade(n, sub[n]))

-----------------------------------------------------------------------------
(* What holds.                                                             *)

Running == conf # {} /\ plan = <<>>

\* No other network's wildcard matches the interfaces of this one.
Distinct(n) == \A m \in Networks \ {n} : n \notin Covers[m]

TypeOK ==
  /\ chains \in [ChainNames -> Seq(Rule) \cup {Absent}]
  /\ chains["POSTROUTING"] # Absent /\ chains["FORWARD"] # Absent
  /\ conf \subseteq Networks
  /\ sub \in [Masqueraded -> Subnets]
  /\ plan \in Seq(Command)

\* When the agent has started, the networks of the host are isolated from each
\* other, although the rules that accept were there first: whatever starts
\* came before, with whichever networks, and wherever they stopped.
Isolated ==
  Running => \A n, m \in conf : n # m => \A p \in Crossing(n, m) : Rejected(p)

\* ... and each is connected: within the host, with other hosts and with the
\* world outside, to which it is masqueraded if so configured.
Connected ==
  Running =>
    \A n \in conf :
      /\ Distinct(n) => \A p \in Internal(n) \cup External(n) : Accepted(p)
      /\ n \in Masqueraded => MasqueradedOut(n)

\* No start, after however many, adds a rule that is there already.
RulesAreUnique ==
  \A c \in ChainNames \ {"FORWARD"} :
    chains[c] # Absent => Cardinality(ToSet(chains[c])) = Len(chains[c])

\* As long as the jump is there and the host up, no step changes what becomes
\* of a packet: a start with more networks neither cuts off the networks that
\* are connected nor opens, even for a moment, those that are isolated.
VerdictsAreStable ==
  [][(HasJump' /\ ~Reboot) =>
       \A n \in Networks :
         /\ Distinct(n) => \A p \in Internal(n) \cup External(n) : Accepted(p) => Accepted(p)'
         /\ \A m \in Networks \ {n} : \A p \in Crossing(n, m) : Rejected(p) => Rejected(p)']_chains

-----------------------------------------------------------------------------
(* What a comment of the code says, and does not hold.                     *)

\* The isolation "rejects traffic from one network's interfaces to another
\* network's interfaces" (iptables.go): none within a network.
IsolationSparesNetworks ==
  Running => \A n \in conf : \A p \in Internal(n) : ~Rejected(p)

-----------------------------------------------------------------------------
(* Why: the inductive invariant, in named parts (proved in                 *)
(* FirewallProofs).                                                        *)

\* Rule r is in the chain, or a command is left to put it there.
Due(op, chain, r) ==
  \/ Contains(plan, Run(op, chain, r)[1])
  \/ chains[chain] # Absent /\ Contains(chains[chain], r)

\* The start has not forgotten a rule.
RulesAreDue ==
  \A n \in conf :
    /\ \A kind \in Accepting : Due("applyRule", "SMUGGLE-FORWARD", Accept(kind, n))
    /\ \A m \in conf \ {n} : Due("isolate", "SMUGGLE-FORWARD", Reject(n, m))
    /\ n \in Masqueraded =>
         /\ Due("applyRule", "POSTROUTING", Jump)
         /\ Due("applyRule", "SMUGGLE-POSTROUTING", Masquerade(n, sub[n]))
    /\ \/ Contains(chains["FORWARD"], Jump)
       \/ \E i \in DOMAIN plan : plan[i].op \in {"jumpFirst", "insertJump"}

Separates(r) == r.kind = "reject" /\ r.of \in Networks /\ r.to \in Networks \ {r.of}

\* A command knows its chain, and only isolation commands add rules that reject.
Fits(k) ==
  /\ k.op = "applyRule" /\ k.chain = "SMUGGLE-FORWARD" =>
       k.rule = Established \/ k.rule.kind \in Accepting
  /\ k.op = "isolate" => k.chain = "SMUGGLE-FORWARD" /\ Separates(k.rule)
  /\ k.op \in {"jumpFirst", "insertJump"} => k.chain = "FORWARD" /\ k.rule = Jump

CommandsFit == \A i \in DOMAIN plan : Fits(plan[i])

\* The rule for established connections comes first, isolation next.
IsolationComesFirst ==
  Filter # Absent =>
    /\ Filter # <<>> => Filter[1] = Established
    /\ \A i, j \in 2 .. Len(Filter) :
         i < j /\ Filter[j].kind = "reject" => Filter[i].kind = "reject"
    /\ \A i \in DOMAIN Filter : Filter[i].kind = "reject" => Separates(Filter[i])

AddsToFilter(k) == k.op \in {"applyRule", "isolate"} /\ k.chain = "SMUGGLE-FORWARD"

EstablishedFirst(commands) ==
  \A i \in DOMAIN commands :
    AddsToFilter(commands[i]) /\ commands[i].rule # Established =>
      \E j \in 1 .. i - 1 : AddsToFilter(commands[j]) /\ commands[j].rule = Established

\* No command adds another rule to the filter before that one is there.
EstablishedIsPlanned == Filter \in {Absent, <<>>} => EstablishedFirst(plan)

NoneIsRepeated ==
  \A c \in ChainNames \ {"FORWARD"} :
    chains[c] # Absent => \A i, j \in DOMAIN chains[c] : chains[c][i] = chains[c][j] => i = j

IInv ==
  /\ TypeOK /\ CommandsFit /\ IsolationComesFirst /\ EstablishedIsPlanned
  /\ RulesAreDue /\ NoneIsRepeated
=============================================================================
