------------------------------ MODULE MCShaper ------------------------------
\* Instances of Shaper for TLC.
EXTENDS Shaper, TLC

DefaultConfig == [qdisc |-> "cake", ingress |-> TRUE, iface |-> "e1", rate |-> 1]

\* CAKE that leaves downloads alone, and a qdisc the program does not know: it is applied
\* as HTB, and as CAKE after a restart.
SomeConfigs ==
  {[qdisc |-> "other", ingress |-> FALSE, iface |-> "e1", rate |-> 2],
   [qdisc |-> "cake", ingress |-> FALSE, iface |-> "e2", rate |-> 3]}

Symmetry == Permutations(Admins)
=============================================================================
