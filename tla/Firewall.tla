------------------------------ MODULE Firewall ------------------------------
(***************************************************************************)
(* internal/iptables/iptables.go: per-client internet access as three      *)
(* kernel rules for each IP,                                               *)
(*    nat : PREROUTING -s ip ACCEPT  (skips the captive-portal redirect)   *)
(*    src : FORWARD    -s ip ACCEPT  (uplink)                              *)
(*    dst : FORWARD    -d ip ACCEPT  (downlink)                            *)
(* iptables allows the same rule several times, so a rule is a count.      *)
(* AddClient and RemoveClient hold IPT.mu and issue one iptables command   *)
(* after another; each command is one step here, because any goroutine may *)
(* run in between (IsConnected takes no lock) and any command may fail: an *)
(* iptables run without -w exits non-zero when another holds the xtables   *)
(* lock.  A failed -C looks exactly like an absent rule; a failed -I, -A   *)
(* or -D makes the operation return at once.  The kernel keeps the rules   *)
(* when the program dies.                                                  *)
(***************************************************************************)
EXTENDS Integers, FiniteSets

CONSTANTS
  IPs,        \* managed client addresses (validateIP accepts them)
  Threads,    \* goroutines calling the firewall
  NoThread,   \* the owner of an unlocked mutex
  NoIP,       \* the argument of a goroutine that is about no IP in particular
  MaxFaults,  \* bound: commands that fail plus crashes of the program
  MaxBytes    \* bound: traffic units an IP forwards

ASSUME FirewallAssumption ==
  /\ NoThread \notin Threads
  /\ NoIP \notin IPs
  /\ MaxFaults \in Nat
  /\ MaxBytes \in Nat

VARIABLES
  rules,    \* how often each rule is installed, per IP
  counter,  \* bytes the kernel counted on each rule since the last reading, per IP
  mu,       \* owner of IPT.mu
  pc,       \* the command each thread runs next
  arg,      \* the IP the operation of each thread is about
  faults,   \* failed commands and crashes so far
  carried,  \* history: bytes forwarded per IP
  billed    \* history: bytes GetForwardByteCounters reported per IP

kernel == <<rules, counter, carried>>
vars == <<rules, counter, mu, pc, arg, faults, carried, billed>>

Rules == {"nat", "src", "dst"}
Labels == {"idle", "addLock", "addNatCheck", "addNat", "addSrcCheck", "addSrc", "addDst", "addDone",
           "remLock", "remNatCheck", "remNat", "remSrcCheck", "remSrc",
           "remDstCheck", "remDst", "remDone", "cntLock", "cntRead", "cntDone", "failed"}

\* Labels at which a thread owns the mutex.
Holding == Labels \ {"idle", "addLock", "remLock", "cntLock"}

TypeOK ==
  /\ rules \in [IPs -> [Rules -> Nat]]
  /\ counter \in [IPs -> [Rules -> Nat]]
  /\ mu \in Threads \cup {NoThread}
  /\ pc \in [Threads -> Labels]
  /\ arg \in [Threads -> IPs \cup {NoIP}]
  /\ faults \in 0..MaxFaults
  /\ carried \in [IPs -> 0..MaxBytes]
  /\ billed \in [IPs -> Nat]

Init ==
  /\ rules = [ip \in IPs |-> [r \in Rules |-> 0]]
  /\ counter = [ip \in IPs |-> [r \in Rules |-> 0]]
  /\ mu = NoThread
  /\ pc = [t \in Threads |-> "idle"]
  /\ arg = [t \in Threads |-> NoIP]
  /\ faults = 0
  /\ carried = [ip \in IPs |-> 0]
  /\ billed = [ip \in IPs |-> 0]

Present(ip, r) == rules[ip][r] > 0
Goto(t, l) == pc' = [pc EXCEPT ![t] = l]

-----------------------------------------------------------------------------
(* One iptables command of thread t, at label "here".                      *)

\* iptables -C: nothing changes; a failed command reads as an absent rule.
Check(t, here, r, ifPresent, ifAbsent) ==
  /\ pc[t] = here
  /\ \/ Goto(t, IF Present(arg[t], r) THEN ifPresent ELSE ifAbsent) /\ UNCHANGED faults
     \/ /\ faults < MaxFaults
        /\ faults' = faults + 1
        /\ Goto(t, ifAbsent)
  /\ UNCHANGED <<rules, counter, mu, arg, carried, billed>>

\* Mutant: the error of a failed -I, -A or -D is not looked at.
ChangeIgnoringErrors(t, here, r, delta, next) ==
  /\ pc[t] = here
  /\ \/ rules' = [rules EXCEPT ![arg[t]][r] = @ + delta] /\ UNCHANGED faults
     \/ faults < MaxFaults /\ faults' = faults + 1 /\ UNCHANGED rules
  /\ Goto(t, next)
  /\ UNCHANGED <<counter, mu, arg, carried, billed>>

\* iptables -I / -A / -D: the rule's count changes, or the command fails and the
\* operation returns its error.  -D removes the first match, the one that counts
\* the traffic, so the bytes it held and nobody read are gone.
Change(t, here, r, delta, next) ==
  /\ pc[t] = here
  /\ \/ /\ rules' = [rules EXCEPT ![arg[t]][r] = @ + delta]
        /\ counter' = IF delta < 0 THEN [counter EXCEPT ![arg[t]][r] = 0] ELSE counter
        /\ Goto(t, next)
        /\ UNCHANGED faults
     \/ /\ faults < MaxFaults
        /\ faults' = faults + 1
        /\ Goto(t, "failed")
        /\ UNCHANGED <<rules, counter>>
  /\ UNCHANGED <<mu, arg, carried, billed>>

\* Mutant: the operations do not wait for each other.
LockWithoutWaiting(t, here, next) ==
  pc[t] = here /\ mu' = t /\ Goto(t, next) /\ UNCHANGED <<kernel, arg, faults, billed>>

\* Mutant: Unlock is called at the end of the operation, not deferred.
UnlockOnSuccess(t) ==
  /\ pc[t] \in {"addDone", "remDone", "cntDone", "failed"}
  /\ mu' = IF pc[t] = "failed" THEN mu ELSE NoThread
  /\ Goto(t, "idle")
  /\ arg' = [arg EXCEPT ![t] = NoIP]
  /\ UNCHANGED <<kernel, faults, billed>>

\* ipt.mu.Lock(), and the deferred ipt.mu.Unlock() with which every call returns.
Lock(t, here, next) ==
  /\ pc[t] = here
  /\ mu = NoThread
  /\ mu' = t
  /\ Goto(t, next)
  /\ UNCHANGED <<kernel, arg, faults, billed>>

Unlock(t) ==
  /\ pc[t] \in {"addDone", "remDone", "cntDone", "failed"}
  /\ mu' = NoThread
  /\ Goto(t, "idle")
  /\ arg' = [arg EXCEPT ![t] = NoIP]
  /\ UNCHANGED <<kernel, faults, billed>>

-----------------------------------------------------------------------------
(* The operations.                                                         *)

Call(t, ip, entry) ==
  /\ pc[t] = "idle"
  /\ arg' = [arg EXCEPT ![t] = ip]
  /\ Goto(t, entry)
  /\ UNCHANGED <<kernel, mu, faults, billed>>

\* Mutant: the uplink rule is appended without looking for it first.
AddWithoutCheck(t) ==
  \/ \E ip \in IPs : Call(t, ip, "addLock")
  \/ Lock(t, "addLock", "addNatCheck")
  \/ Check(t, "addNatCheck", "nat", "addSrc", "addNat")
  \/ Change(t, "addNat", "nat", 1, "addSrc")
  \/ Change(t, "addSrc", "src", 1, "addDst")
  \/ Change(t, "addDst", "dst", 1, "addDone")

\* AddClient.  The downlink rule is only looked at when the uplink rule is absent.
AddClient(t) ==
  \/ \E ip \in IPs : Call(t, ip, "addLock")
  \/ Lock(t, "addLock", "addNatCheck")
  \/ Check(t, "addNatCheck", "nat", "addSrcCheck", "addNat")
  \/ Change(t, "addNat", "nat", 1, "addSrcCheck")
  \/ Check(t, "addSrcCheck", "src", "addDone", "addSrc")
  \/ Change(t, "addSrc", "src", 1, "addDst")
  \/ Change(t, "addDst", "dst", 1, "addDone")

\* Mutant: the downlink rule is forgotten.
RemoveForgettingDownlink(t) ==
  \/ \E ip \in IPs : Call(t, ip, "remLock")
  \/ Lock(t, "remLock", "remNatCheck")
  \/ Check(t, "remNatCheck", "nat", "remNat", "remSrcCheck")
  \/ Change(t, "remNat", "nat", -1, "remNatCheck")
  \/ Check(t, "remSrcCheck", "src", "remSrc", "remDone")
  \/ Change(t, "remSrc", "src", -1, "remSrcCheck")

\* Mutant: the uplink rule is deleted without a check.
RemoveBlindly(t) ==
  \/ \E ip \in IPs : Call(t, ip, "remLock")
  \/ Lock(t, "remLock", "remNatCheck")
  \/ Check(t, "remNatCheck", "nat", "remNat", "remSrc")
  \/ Change(t, "remNat", "nat", -1, "remNatCheck")
  \/ Change(t, "remSrc", "src", -1, "remDstCheck")
  \/ Check(t, "remDstCheck", "dst", "remDst", "remDone")
  \/ Change(t, "remDst", "dst", -1, "remDstCheck")

\* RemoveClient: three loops, each until its check finds no rule.
RemoveClient(t) ==
  \/ \E ip \in IPs : Call(t, ip, "remLock")
  \/ Lock(t, "remLock", "remNatCheck")
  \/ Check(t, "remNatCheck", "nat", "remNat", "remSrcCheck")
  \/ Change(t, "remNat", "nat", -1, "remNatCheck")
  \/ Check(t, "remSrcCheck", "src", "remSrc", "remDstCheck")
  \/ Change(t, "remSrc", "src", -1, "remSrcCheck")
  \/ Check(t, "remDstCheck", "dst", "remDst", "remDone")
  \/ Change(t, "remDst", "dst", -1, "remDstCheck")

\* Mutant: the counters are listed without -Z.
ReadWithoutZeroing(t) ==
  /\ pc[t] = "cntRead"
  /\ Goto(t, "cntDone")
  /\ billed' = [ip \in IPs |-> billed[ip] + counter[ip]["src"] + counter[ip]["dst"]]
  /\ UNCHANGED <<counter, faults, rules, carried, mu, arg>>

\* GetForwardByteCounters: one command lists the FORWARD chain and zeroes it; the
\* lines of an IP are added up.  A failed command reports nothing and zeroes nothing.
ReadCounters(t) ==
  /\ pc[t] = "cntRead"
  /\ Goto(t, "cntDone")
  /\ \/ /\ counter' = [ip \in IPs |-> [r \in Rules |-> 0]]
        /\ billed' = [ip \in IPs |-> billed[ip] + counter[ip]["src"] + counter[ip]["dst"]]
        /\ UNCHANGED faults
     \/ /\ faults < MaxFaults
        /\ faults' = faults + 1
        /\ UNCHANGED <<counter, billed>>
  /\ UNCHANGED <<rules, carried, mu, arg>>

GetForwardByteCounters(t) ==
  \/ Call(t, NoIP, "cntLock")
  \/ Lock(t, "cntLock", "cntRead")
  \/ ReadCounters(t)

\* The kernel forwards a packet of the client in one direction and counts it.
Forward(ip, r) ==
  /\ r # "nat"
  /\ Present(ip, r)
  /\ carried[ip] < MaxBytes
  /\ carried' = [carried EXCEPT ![ip] = @ + 1]
  /\ counter' = [counter EXCEPT ![ip][r] = @ + 1]
  /\ UNCHANGED <<rules, mu, pc, arg, faults, billed>>

\* The program dies and is started again: its calls and its mutex are gone, the
\* kernel's rules stay.
Crash ==
  /\ faults < MaxFaults
  /\ faults' = faults + 1
  /\ pc' = [t \in Threads |-> "idle"]
  /\ arg' = [t \in Threads |-> NoIP]
  /\ mu' = NoThread
  /\ UNCHANGED <<kernel, billed>>

Step(t) == AddClient(t) \/ RemoveClient(t) \/ GetForwardByteCounters(t) \/ Unlock(t)
Next == (\E t \in Threads : Step(t)) \/ (\E ip \in IPs, r \in Rules : Forward(ip, r)) \/ Crash

\* A goroutine inside the firewall keeps running, and a goroutine that waits for
\* the mutex again and again finds it free gets it (sync.Mutex hands over to a
\* waiter after 1 ms); nobody is obliged to call the firewall.
Running(t) == pc[t] # "idle" /\ Step(t)
Spec == Init /\ [][Next]_vars /\ \A t \in Threads : SF_vars(Running(t))

\* IPT.IsConnected takes no lock and looks at the uplink rule only.
IsConnected(ip) == Present(ip, "src")

-----------------------------------------------------------------------------
(* Properties.                                                             *)

\* At most one goroutine runs iptables commands of AddClient, RemoveClient and
\* GetForwardByteCounters at a time, and it is the owner of IPT.mu.
MutualExclusion == \A t \in Threads : pc[t] \in Holding <=> mu = t

\* Each duplicate of a rule is the trace of a failed command or a crash: without
\* any, check-then-add under the mutex installs every rule at most once, so one
\* round of RemoveClient's loops is enough.
DuplicatesNeedFaults ==
  \A ip \in IPs, r \in Rules : rules[ip][r] <= 1 + faults

\* Whatever failed before, an AddClient that gets to its final return leaves the
\* client with the redirect skipped and an uplink.
AddedClientHasUplink ==
  \A t \in Threads : pc[t] = "addDone" => Present(arg[t], "nat") /\ Present(arg[t], "src")

\* Usage is never charged twice: the bytes reported by all GetForwardByteCounters
\* calls are bytes the kernel forwarded, each at most once.
NeverOverbilled ==
  \A ip \in IPs : billed[ip] + counter[ip]["src"] + counter[ip]["dst"] <= carried[ip]

\* Without faults the three rules of a client are all there or all absent whenever
\* no operation on it is under way.
AllOrNothing ==
  faults = 0 =>
    \A ip \in IPs :
      (\A t \in Threads : arg[t] = ip => pc[t] \notin Holding) =>
        \A r \in Rules : Present(ip, r) <=> IsConnected(ip)

\* Every call of the firewall returns: the mutex is released on every path, the
\* failing ones included, and RemoveClient's loops end.
CallsReturn == \A t \in Threads : pc[t] # "idle" ~> pc[t] = "idle"

-----------------------------------------------------------------------------
(* Without faults the firewall is a set of open IPs: AddClient takes effect *)
(* with the uplink rule, or when the check finds it, RemoveClient when the  *)
(* uplink rule is gone.                                                     *)

TookEffect(t) ==
  \/ pc[t] \in {"addDst", "addDone", "remDstCheck", "remDst", "remDone"}
  \/ pc[t] = "remSrcCheck" /\ ~IsConnected(arg[t])

Request(t) ==
  LET op == IF pc[t] \in {"addLock", "addNatCheck", "addNat", "addSrcCheck", "addSrc"} THEN "open" ELSE "close" IN
  IF pc[t] \in {"idle", "cntLock", "cntRead", "cntDone", "failed"} \/ TookEffect(t) THEN [op |-> "none"]
  ELSE [op |-> op, ip |-> arg[t]]

Access == INSTANCE AccessSet WITH
  open <- {ip \in IPs : IsConnected(ip)},
  pending <- [t \in Threads |-> Request(t)]

\* As long as nothing fails, IsConnected, read at any moment and without the lock,
\* sees an atomic set of open IPs in which each AddClient and RemoveClient takes
\* effect once, between its call and its return.
ImplementsAccessSet ==
  Access!Init /\ [][faults' = 0 => Access!Next \/ UNCHANGED Access!vars]_vars
=============================================================================
