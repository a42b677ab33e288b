------------------------------ MODULE NetConfig ------------------------------
(***************************************************************************)
(* What internal/network/config.go and discovery.go compute: the network   *)
(* configuration an admin submits, the files it is written to, what is     *)
(* read back from them, and interface roles.                               *)
(*                                                                         *)
(* A range stands for the DHCP range with its mask and broadcast address,  *)
(* dns for a list of servers that is not empty, ip for an address with its *)
(* netmask and gateway.  The interfaces file is one this program wrote:    *)
(* every stanza has an "auto" line and its properties are indented; lo's   *)
(* is left out.                                                            *)
(***************************************************************************)
EXTENDS Integers, SequencesExt

CONSTANTS
  Ifaces,       \* names of interfaces
  Wlan0,        \* "wlan0"
  NetIface,     \* Net.Iface
  IPs,          \* addresses
  LanIP,        \* 10.0.0.1
  Ranges,       \* DHCP ranges
  DefaultRange, \* 10.0.0.10 to 10.0.15.254
  None          \* an empty string: no address, no range

ASSUME NetConfigAssumption ==
  /\ {Wlan0, NetIface} \subseteq Ifaces
  /\ LanIP \in IPs /\ DefaultRange \in Ranges
  /\ None \notin IPs \cup Ranges \cup Ifaces

\* InterfaceConfig: Enabled, DHCP, IP.
IfaceConfig == [on : BOOLEAN, dhcp : BOOLEAN, ip : IPs \cup {None}]

\* InterfaceRole.
RoleNames == {"wan", "lan", "none"}
Role == [iface : Ifaces, role : RoleNames, primary : BOOLEAN]

-----------------------------------------------------------------------------
(* Roles.                                                                  *)

\* The first role of the list that Wanted accepts names the interface.
FirstWith(roles, Wanted(_)) ==
  LET found == SelectSeq(roles, Wanted) IN IF found = <<>> THEN None ELSE Head(found).iface

WanOf(roles) == LET IsWan(r) == r.role = "wan" IN FirstWith(roles, IsWan)
LanOf(roles) == LET IsLan(r) == r.role = "lan" /\ r.primary IN FirstWith(roles, IsLan)

\* ApplyRoleConfiguration: the WAN interface asks for an address unless it has one, the
\* LAN interface has a static one.  One interface can be both.
AsWan(c) == [c EXCEPT !.on = TRUE, !.dhcp = @ \/ c.ip = None]
AsLan(c) == [on |-> TRUE, dhcp |-> FALSE, ip |-> IF c.ip = None THEN LanIP ELSE c.ip]

ApplyRoleConfiguration(cfg, roles) ==
  LET lan == LanOf(roles)
      Wan(i) == IF i = WanOf(roles) THEN AsWan(cfg.ifaces[i]) ELSE cfg.ifaces[i]
  IN  [cfg EXCEPT !.ifaces = [i \in DOMAIN cfg.ifaces |-> IF i = lan THEN AsLan(Wan(i)) ELSE Wan(i)],
                  !.primary = IF lan \in DOMAIN cfg.ifaces THEN lan ELSE @]

\* ValidateRoleAssignment accepts the role for the interface.
ValidateRoleAssignment(roles, iface, role) ==
  \A k \in DOMAIN roles :
    LET r == roles[k] IN
    /\ role = "wan" /\ r.role = "wan" => r.iface = iface
    /\ role = "lan" /\ r.role = "lan" /\ r.primary => r.iface = iface
    /\ r.iface = iface /\ r.role # role => role # "wan" /\ (role = "lan" => ~r.primary)

\* AssignRole: the first role of the interface goes, the new one is appended.
AssignRole(roles, iface, role, primary) ==
  LET IsOf(r) == r.iface = iface
      rest == RemoveFirstMatch(roles, IsOf)
  IN  IF ~ValidateRoleAssignment(roles, iface, role) THEN roles
      ELSE IF role = "none" THEN rest
      ELSE Append(rest, [iface |-> iface, role |-> role, primary |-> primary])

-----------------------------------------------------------------------------
(* What is written.                                                        *)

\* writeNetworkInterfaces: interfaces that are enabled; without any in the list, wlan0
\* with the address of the legacy field.
InterfacesFile(cfg) ==
  [ifaces |-> IF DOMAIN cfg.ifaces = {} THEN [i \in {Wlan0} |-> [dhcp |-> FALSE, ip |-> cfg.legacy]]
              ELSE [i \in {j \in DOMAIN cfg.ifaces : cfg.ifaces[j].on} |->
                      [dhcp |-> cfg.ifaces[i].dhcp,
                       ip |-> IF cfg.ifaces[i].dhcp THEN None ELSE cfg.ifaces[i].ip]],
   dns |-> cfg.dns]

\* Mutant: the legacy field alone.
GatewayOfLegacy(cfg) == cfg.legacy

\* The address of the primary interface, or the legacy field.
Gateway(cfg) ==
  IF /\ cfg.primary \in DOMAIN cfg.ifaces
     /\ ~cfg.ifaces[cfg.primary].dhcp /\ cfg.ifaces[cfg.primary].ip # None
  THEN cfg.ifaces[cfg.primary].ip ELSE cfg.legacy

\* writeDHCPConfig.
DhcpdFile(cfg) == [hook |-> TRUE, range |-> cfg.range, routers |-> Gateway(cfg), dns |-> cfg.dns]

\* EnsureDHCPConfigWithHook: what it keeps of the file, and the defaults for the rest.
OrElse(value, default) == IF value = None THEN default ELSE value
WithHook(old) ==
  [hook |-> TRUE, range |-> OrElse(old.range, DefaultRange), routers |-> OrElse(old.routers, LanIP),
   dns |-> TRUE]

-----------------------------------------------------------------------------
(* What is read.                                                           *)

NoInterfaces == [ifaces |-> <<>>, dns |-> FALSE]
NoDhcpd == [hook |-> FALSE, range |-> None, routers |-> None, dns |-> FALSE]

\* parseNetworkInterfaces trims a line before it asks whether it is indented, and adds an
\* interface to the result at its "auto" line: of a stanza only the name is read.
ParseInterfaces(text) ==
  [i \in DOMAIN text.ifaces |-> [on |-> TRUE, dhcp |-> FALSE, ip |-> None]]

\* GetNetworkConfig, from the three files; legacy is the address read for Net.Iface.
NetworkConfigOf(hostname, interfaces, dhcpd) ==
  [hostname |-> hostname, ifaces |-> ParseInterfaces(interfaces), primary |-> NetIface,
   legacy |-> None, range |-> dhcpd.range, dns |-> FALSE]
=============================================================================
