------------------------------ MODULE Exposure ------------------------------
(***************************************************************************)
(* Which network security groups leave SSH and RDP open to the world, and  *)
(* what Azure does with the same rules.  The collector looks for one rule  *)
(* that allows the port from anywhere and disregards the order of rules;   *)
(* Azure takes the first rule, by priority, that matches a packet.         *)
(*                                                                         *)
(* A rule has its source prefixes, the single one among them, and its port *)
(* ranges, where a port is a range of one, a star the range of all, and a  *)
(* list in one string its members.  What does not parse is an empty range. *)
(***************************************************************************)
EXTENDS Integers, Sequences, FiniteSets

CONSTANTS
  SecurityGroups, \* the network security groups a subscription may have
  MaxGroups       \* bound: those it has

SourcePrefixes == {"*", "any", "internet", "0.0.0.0/0", "::/0", "10.0.0.0/8"}
Protocols == {"*", "any", "tcp", "udp"}
Ports == 0 .. 65535
PortRange == [from : Ports, to : Ports]
Rule == [access : {"Allow", "Deny"}, direction : {"Inbound", "Outbound"},
         protocol : Protocols, sources : SUBSET SourcePrefixes,
         ports : SUBSET PortRange]

(* A group is the sequence of its rules from the first priority on.        *)
ASSUME SecurityGroupsAssumption == SecurityGroups \subseteq Seq(Rule)
ASSUME ExposureBoundAssumption == MaxGroups \in Nat

SSH == 22
RDP == 3389

VARIABLES
  nsgs,             \* the groups looked at so far
  sshOpen, rdpOpen  \* how many of them are open

exposureVars == <<nsgs, sshOpen, rdpOpen>>

-----------------------------------------------------------------------------
(* The collector.                                                          *)
securityRuleProtocolIncludesTCP(protocol) == protocol \in {"*", "any", "tcp"}

securityRuleSourceIsWorld(rule) ==
  rule.sources \cap {"*", "any", "internet", "0.0.0.0/0", "::/0"} # {}

(* Mutant: the last port of a range is left out.                           *)
securityRulePortsReach(ports, port) == \E r \in ports : r.from <= port /\ port < r.to
securityRulePortsInclude(ports, port) == \E r \in ports : r.from <= port /\ port <= r.to

opensToWorld(rule, port) ==
  /\ rule.access = "Allow" /\ rule.direction = "Inbound"
  /\ securityRuleProtocolIncludesTCP(rule.protocol)
  /\ securityRuleSourceIsWorld(rule)
  /\ securityRulePortsInclude(rule.ports, port)

nsgOpenToWorld(nsg, port) ==
  IF \E i \in DOMAIN nsg : opensToWorld(nsg[i], port) THEN 1 ELSE 0

ExposureInit == nsgs = <<>> /\ sshOpen = 0 /\ rdpOpen = 0

collectNetwork(nsg) ==
  /\ Len(nsgs) < MaxGroups
  /\ nsgs' = Append(nsgs, nsg)
  /\ sshOpen' = sshOpen + nsgOpenToWorld(nsg, SSH)
  /\ rdpOpen' = rdpOpen + nsgOpenToWorld(nsg, RDP)

ExposureNext == \E nsg \in SecurityGroups : collectNetwork(nsg)

ExposureSpec == ExposureInit /\ [][ExposureNext]_exposureVars

-----------------------------------------------------------------------------
(* Azure.  A stranger is an address no rule names but through a prefix of  *)
(* all addresses, or of all of its family.                                 *)
Strangers == {"IPv4", "IPv6"}

Covers(prefix, stranger) ==
  \/ prefix \in {"*", "any", "internet"}
  \/ prefix = "0.0.0.0/0" /\ stranger = "IPv4"
  \/ prefix = "::/0" /\ stranger = "IPv6"

Matches(rule, stranger, port) ==
  /\ rule.direction = "Inbound" /\ rule.protocol # "udp"
  /\ \E p \in rule.sources : Covers(p, stranger)
  /\ \E r \in rule.ports : port \in r.from .. r.to

(* Of the rules that count, the first that matches decides, and none lets  *)
(* nobody in.                                                              *)
Admits(nsg, rules, stranger, port) ==
  \E i \in rules :
    /\ Matches(nsg[i], stranger, port) /\ nsg[i].access = "Allow"
    /\ \A j \in rules : j < i => ~Matches(nsg[j], stranger, port)

Allowing(nsg) == {i \in DOMAIN nsg : nsg[i].access = "Allow"}

LetsIn(nsg, port) == \E s \in Strangers : Admits(nsg, DOMAIN nsg, s, port)
MightLetIn(nsg, port) == \E s \in Strangers : Admits(nsg, Allowing(nsg), s, port)

Let(port) == {i \in DOMAIN nsgs : LetsIn(nsgs[i], port)}
MightLet(port) == {i \in DOMAIN nsgs : MightLetIn(nsgs[i], port)}

(* Every group that lets a stranger in on the port is counted, and every   *)
(* group counted would let one in if its denying rules were not there: the *)
(* counts may take a group that denies first for open, and take no open    *)
(* group for closed (azure_network.go, nsgOpenToWorld).                    *)
StrangersAreCounted ==
  /\ Cardinality(Let(SSH)) <= sshOpen /\ sshOpen = Cardinality(MightLet(SSH))
  /\ Cardinality(Let(RDP)) <= rdpOpen /\ rdpOpen = Cardinality(MightLet(RDP))
=============================================================================
