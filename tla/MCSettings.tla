----------------------------- MODULE MCSettings -----------------------------
\* Instances of Settings for TLC.
EXTENDS Settings

\* An interface with a static address, and one that asks for one.
Static(i) == [on |-> TRUE, dhcp |-> FALSE, ip |-> i]
Dhcp == [on |-> TRUE, dhcp |-> TRUE, ip |-> None]
Off == [on |-> FALSE, dhcp |-> FALSE, ip |-> None]
Net(hostname, wlan, eth, dns) ==
  [hostname |-> hostname, ifaces |-> ("wlan0" :> wlan) @@ ("eth0" :> eth), primary |-> "wlan0",
   legacy |-> None, range |-> "r1", dns |-> dns]

Installed == Net("h1", Static("10.0.0.1"), Dhcp, TRUE)

\* The file isc-dhcp-server is packaged with: name servers, and no hook.
Packaged == [hook |-> FALSE, range |-> None, routers |-> None, dns |-> TRUE]

\* A new address for wlan0; eth0 off; roles with the submission.
Submissions ==
  {[cfg |-> Net("h2", Static("10.0.0.2"), Off, TRUE), roles |-> <<>>],
   [cfg |-> Net("h1", Static("10.0.0.1"), Off, FALSE),
    roles |-> <<[iface |-> "eth0", role |-> "wan", primary |-> TRUE]>>]}

WanAndLan ==
  {<<[iface |-> "eth0", role |-> "wan", primary |-> TRUE],
     [iface |-> "wlan0", role |-> "lan", primary |-> TRUE]>>}

Tables == {3 :> 10 @@ 7 :> 20}
=============================================================================
