----------------------------- MODULE MCFirewall -----------------------------
\* Instances of Firewall for TLC: two clients and two goroutines, as model values.
EXTENDS Firewall, TLC
=============================================================================
