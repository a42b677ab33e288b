-------------------------- MODULE NetConfigProofs --------------------------
(***************************************************************************)
(* What holds of roles and network files for any interfaces, addresses and *)
(* lists of roles.                                                         *)
(***************************************************************************)
EXTENDS NetConfig, SequenceTheorems, WellFoundedInduction, TLAPS

\* At most one interface is the WAN, at most one is the primary LAN.
Exclusive(roles) ==
  \A j, k \in DOMAIN roles :
    /\ roles[j].role = "wan" /\ roles[k].role = "wan" => roles[j].iface = roles[k].iface
    /\ /\ roles[j].role = "lan" /\ roles[j].primary
       /\ roles[k].role = "lan" /\ roles[k].primary
       => roles[j].iface = roles[k].iface

\* The result of removing an element has no others.
LEMMA RemoveAtElements ==
  ASSUME NEW S, NEW s \in Seq(S), NEW i \in 1..Len(s)
  PROVE  /\ RemoveAt(s, i) \in Seq(S)
         /\ \A j \in DOMAIN RemoveAt(s, i) : \E k \in DOMAIN s : RemoveAt(s, i)[j] = s[k]
<1> DEFINE p == SubSeq(s, 1, i - 1)
           q == SubSeq(s, i + 1, Len(s))
<1>1. RemoveAt(s, i) = p \o q
  BY DEF RemoveAt
<1>2. p \in Seq(S) /\ Len(p) = i - 1 /\ \A j \in 1..(i - 1) : p[j] = s[j]
  <2>1. \A j \in 1..(i - 1) : s[j] \in S
    OBVIOUS
  <2> QED
    BY <2>1, SubSeqProperties
<1>3. q \in Seq(S) /\ Len(q) = Len(s) - i /\ \A j \in 1..(Len(s) - i) : q[j] = s[i + j]
  <2>1. \A j \in (i + 1)..Len(s) : s[j] \in S
    OBVIOUS
  <2> QED
    BY <2>1, SubSeqProperties
<1> HIDE DEF p, q
<1>4. /\ p \o q \in Seq(S) /\ Len(p \o q) = Len(s) - 1
      /\ \A j \in 1..(Len(s) - 1) : (p \o q)[j] = IF j <= i - 1 THEN p[j] ELSE q[j - (i - 1)]
  <2>1. p \in Seq(S) /\ q \in Seq(S) /\ Len(p) = i - 1 /\ Len(q) = Len(s) - i
    BY <1>2, <1>3
  <2>2. /\ p \o q \in Seq(S) /\ Len(p \o q) = Len(p) + Len(q)
        /\ \A j \in 1..(Len(p) + Len(q)) : (p \o q)[j] = IF j <= Len(p) THEN p[j] ELSE q[j - Len(p)]
    BY <2>1, ConcatProperties
  <2>3. Len(s) \in Nat /\ Len(p) + Len(q) = Len(s) - 1
    BY <2>1
  <2> QED
    BY <2>1, <2>2, <2>3
<1>5. ASSUME NEW j \in 1..(Len(s) - 1) PROVE \E k \in DOMAIN s : (p \o q)[j] = s[k]
  <2>1. CASE j <= i - 1
    <3>1. j \in 1..(i - 1) /\ j \in DOMAIN s
      BY <2>1
    <3> QED
      BY <1>2, <1>4, <2>1, <3>1
  <2>2. CASE ~(j <= i - 1)
    <3>1. (p \o q)[j] = q[j - (i - 1)] /\ j - (i - 1) \in 1..(Len(s) - i)
      BY <1>4, <2>2
    <3>2. q[j - (i - 1)] = s[i + (j - (i - 1))]
      BY <1>3, <3>1
    <3>3. i + (j - (i - 1)) \in DOMAIN s
      BY <3>1
    <3> QED
      BY <3>1, <3>2, <3>3
  <2> QED
    BY <2>1, <2>2
<1>6. DOMAIN (p \o q) = 1..(Len(s) - 1)
  <2> DEFINE r == p \o q
  <2>1. r \in Seq(S) /\ Len(r) = Len(s) - 1
    BY <1>4
  <2> HIDE DEF r
  <2>2. DOMAIN r = 1..(Len(s) - 1)
    BY <2>1
  <2> QED
    BY <2>2 DEF r
<1> QED
  BY <1>1, <1>4, <1>5, <1>6

\* AssignRole keeps at most one WAN interface and one primary LAN interface, whatever roles
\* were given before (discovery.go:519-583).
THEOREM RolesStayExclusive ==
  ASSUME NEW roles \in Seq(Role), Exclusive(roles),
         NEW iface \in Ifaces, NEW role \in RoleNames, NEW primary \in BOOLEAN
  PROVE  Exclusive(AssignRole(roles, iface, role, primary))
<1> DEFINE IsOf(r) == r.iface = iface
           rest == RemoveFirstMatch(roles, IsOf)
           new == [iface |-> iface, role |-> role, primary |-> primary]
<1>1. rest \in Seq(Role) /\ \A j \in DOMAIN rest : \E k \in DOMAIN roles : rest[j] = roles[k]
  <2>1. CASE \E k \in DOMAIN roles : IsOf(roles[k])
    <3> DEFINE I == {k \in 1..Len(roles) : IsOf(roles[k])}
    <3>1. \E m \in I : \A k \in I : m <= k
      <4>1. I # {} /\ I \subseteq Nat
        BY <2>1
      <4> HIDE DEF I
      <4> DEFINE R == {ss \in Nat \X Nat : ss[1] < ss[2]}
      <4>2. IsWellFoundedOn(R, Nat)
        BY NatLessThanWellFounded DEF OpToRel
      <4>3. \A k, m \in Nat : <<k, m>> \in R <=> k < m
        OBVIOUS
      <4> HIDE DEF R
      <4>4. PICK m \in I : \A k \in I : <<k, m>> \notin R
        BY <4>1, <4>2, WFMin
      <4>5. ASSUME NEW k \in I PROVE m <= k
        <5>1. k \in Nat /\ m \in Nat /\ ~(k < m)
          BY <4>1, <4>3, <4>4
        <5> QED
          BY <5>1
      <4> QED
        BY <4>4, <4>5
    <3>2. SelectInSeq(roles, IsOf) \in 1..Len(roles)
      BY <2>1, <3>1 DEF SelectInSeq, Min
    <3> QED
      BY ZenonT(60), <2>1, <3>2, RemoveAtElements DEF RemoveFirstMatch
  <2>2. CASE ~\E k \in DOMAIN roles : IsOf(roles[k])
    <3>1. rest = roles
      BY <2>2 DEF RemoveFirstMatch
    <3> HIDE DEF rest
    <3> QED
      BY <3>1
  <2> QED
    BY <2>1, <2>2
<1>2. AssignRole(roles, iface, role, primary) =
        IF ~ValidateRoleAssignment(roles, iface, role) THEN roles
        ELSE IF role = "none" THEN rest ELSE Append(rest, new)
  BY DEF AssignRole
<1> HIDE DEF rest
<1>3. Exclusive(rest)
  BY <1>1 DEF Exclusive
<1>4. ASSUME ValidateRoleAssignment(roles, iface, role) PROVE Exclusive(Append(rest, new))
  <2>1. \A j \in DOMAIN rest :
          /\ role = "wan" /\ rest[j].role = "wan" => rest[j].iface = iface
          /\ role = "lan" /\ rest[j].role = "lan" /\ rest[j].primary => rest[j].iface = iface
    BY <1>1, <1>4 DEF ValidateRoleAssignment
  <2>2. /\ DOMAIN Append(rest, new) = DOMAIN rest \cup {Len(rest) + 1}
        /\ \A j \in DOMAIN rest : Append(rest, new)[j] = rest[j]
        /\ Append(rest, new)[Len(rest) + 1] = new
    BY <1>1
  <2> HIDE DEF new
  <2>3. new.iface = iface /\ new.role = role
    BY DEF new
  <2> QED
    BY <1>3, <2>1, <2>2, <2>3 DEF Exclusive
<1> QED
  BY <1>2, <1>3, <1>4

\* Whatever the configuration and the roles, once an interface of the configuration is the primary LAN, dhcpd
\* tells clients to use the address that interface is given (config.go:438-446, 533-583).
THEOREM RouterIsLan ==
  ASSUME NEW cfg, NEW roles,
         DOMAIN cfg.ifaces \subseteq Ifaces, cfg.ifaces \in [DOMAIN cfg.ifaces -> IfaceConfig],
         {"ifaces", "primary"} \subseteq DOMAIN cfg,
         LanOf(roles) \in DOMAIN cfg.ifaces
  PROVE  LET new == ApplyRoleConfiguration(cfg, roles)
             lan == LanOf(roles)
         IN  /\ InterfacesFile(new).ifaces[lan].ip # None
             /\ DhcpdFile(new).routers = InterfacesFile(new).ifaces[lan].ip
<1> DEFINE new == ApplyRoleConfiguration(cfg, roles)
           lan == LanOf(roles)
<1> SUFFICES /\ InterfacesFile(new).ifaces[lan].ip # None
             /\ DhcpdFile(new).routers = InterfacesFile(new).ifaces[lan].ip
  OBVIOUS
<1>1. cfg.ifaces[lan] \in IfaceConfig /\ AsWan(cfg.ifaces[lan]).ip = cfg.ifaces[lan].ip
  BY DEF IfaceConfig, AsWan
<1>2. PICK c : /\ c.ip \in IPs \cup {None} /\ new.ifaces[lan] = AsLan(c)
               /\ new.primary = lan /\ DOMAIN new.ifaces = DOMAIN cfg.ifaces
  BY <1>1 DEF ApplyRoleConfiguration, IfaceConfig, AsWan
<1>3. AsLan(c).on /\ ~AsLan(c).dhcp /\ AsLan(c).ip # None
  BY <1>2, NetConfigAssumption DEF AsLan
<1>4. DhcpdFile(new).routers = AsLan(c).ip
  BY <1>2, <1>3 DEF DhcpdFile, Gateway
<1>5. InterfacesFile(new).ifaces[lan].ip = AsLan(c).ip
  BY <1>2, <1>3 DEF InterfacesFile
<1> QED
  BY <1>3, <1>4, <1>5
=============================================================================
