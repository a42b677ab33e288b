----------------------------- MODULE AccessSet -----------------------------
(***************************************************************************)
(* What the firewall promises the rest of the program: a set of IPs with   *)
(* internet access, opened and closed atomically.  A caller (an HTTP       *)
(* handler or a background loop) requests an operation and, at one instant *)
(* between its call and its return, the operation takes effect.            *)
(***************************************************************************)
EXTENDS FiniteSets

CONSTANTS
  IPs,      \* managed client addresses
  Threads   \* goroutines that call the firewall

VARIABLES
  open,     \* the IPs that have access
  pending   \* the request of each thread that has not taken effect yet

vars == <<open, pending>>

Idle == [op |-> "none"]
Requests == [op : {"open", "close"}, ip : IPs]

TypeOK ==
  /\ open \subseteq IPs
  /\ pending \in [Threads -> Requests \cup {Idle}]

Init == open = {} /\ pending = [t \in Threads |-> Idle]

Request(t, r) ==
  /\ pending[t] = Idle
  /\ pending' = [pending EXCEPT ![t] = r]
  /\ UNCHANGED open

TakeEffect(t) ==
  /\ pending[t] # Idle
  /\ open' = IF pending[t].op = "open" THEN open \cup {pending[t].ip}
                                       ELSE open \ {pending[t].ip}
  /\ pending' = [pending EXCEPT ![t] = Idle]

Next == \E t \in Threads : TakeEffect(t) \/ \E r \in Requests : Request(t, r)

Spec == Init /\ [][Next]_vars
=============================================================================
