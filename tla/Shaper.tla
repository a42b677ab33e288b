------------------------------- MODULE Shaper -------------------------------
(***************************************************************************)
(* The bandwidth shaper: internal/bandwidth, handleAdminTrafficControl and *)
(* what main.go does with it at start and shutdown.                        *)
(*                                                                         *)
(* A setting lives in four places: the Shaper's iface and tcConfig, the    *)
(* file traffic_control.json, and the queueing disciplines in the kernel,  *)
(* which are built by up to ten tc commands after three that clear the     *)
(* interface.  Nothing is locked: requests of two admins interleave command *)
(* by command, any command may fail, and the program may die between two.  *)
(* The kernel keeps what is installed.                                     *)
(***************************************************************************)
EXTENDS Integers, Sequences

CONSTANTS
  Admins,      \* goroutines that serve requests of admins
  Main,        \* the goroutine of main
  Ifaces,      \* network interfaces
  Configs,     \* settings an admin submits
  Default,     \* DefaultTrafficControlConfig
  None,        \* no file, or one that cannot be read
  MaxRequests, \* bound: requests
  MaxFaults    \* bound: failed commands and writes, crashes, stops, changes of a link

Settings == [qdisc : {"cake", "htb", "other"}, ingress : BOOLEAN, iface : Ifaces, rate : Nat]

ASSUME ShaperAssumption ==
  /\ Main \notin Admins /\ None \notin Settings
  /\ Configs \subseteq Settings /\ Default \in Settings /\ Default.qdisc = "cake"
  /\ "ifb0" \notin Ifaces
  /\ {MaxRequests, MaxFaults} \subseteq Nat

VARIABLES
  phase,     \* of the process
  up,        \* interfaces that are up
  iface,     \* Shaper.iface
  tcConfig,  \* Shaper.tcConfig
  file,      \* traffic_control.json
  root,      \* root qdisc of each device: its kind, rate and the parts below it
  ingress,   \* how many of the two parts of the ingress redirection are installed
  work,      \* what each goroutine does next
  requests, faults,  \* bounds used up
  latest     \* history: of the Apply that began last, whether it ran alone, hit a
             \* fault and ended well

memory == <<iface, tcConfig>>
kernel == <<root, ingress>>
vars == <<phase, up, memory, file, kernel, work, requests, faults, latest>>

Workers == Admins \cup {Main}
Devices == Ifaces \cup {"ifb0"}
Bare == [qdisc |-> "none", rate |-> 0, below |-> 0]
Idle == [step |-> "idle"]
Busy(w) == work[w] # Idle

Steps == {"idle", "validate", "set", "delRoot", "delIngress", "delIfb", "uplink", "run", "downlink",
          "applied", "write", "failed"}

TypeOK ==
  /\ phase \in {"starting", "serving", "stopping", "down"}
  /\ up \subseteq Ifaces /\ iface \in Ifaces
  /\ tcConfig \in Settings /\ file \in Settings \cup {None}
  /\ root \in [Devices -> [qdisc : {"none", "cake", "htb"}, rate : Nat, below : 0..4]]
  /\ ingress \in [Ifaces -> 0..2]
  /\ \A w \in Workers : work[w].step \in Steps
  /\ requests \in 0..MaxRequests /\ faults \in 0..MaxFaults
  /\ latest \in [alone : BOOLEAN, faulty : BOOLEAN, ok : BOOLEAN]

Init ==
  /\ phase = "down" /\ up \in SUBSET Ifaces
  /\ iface = Default.iface /\ tcConfig = Default /\ file = None
  /\ root = [d \in Devices |-> Bare] /\ ingress = [i \in Ifaces |-> 0]
  /\ work = [w \in Workers |-> Idle]
  /\ requests = 0 /\ faults = 0
  /\ latest = [alone |-> TRUE, faulty |-> FALSE, ok |-> FALSE]

Step(w, step) == work' = [work EXCEPT ![w].step = step]
Fault == faults < MaxFaults /\ faults' = faults + 1

\* Everything that goes on when an Apply begins loses its claim to be alone.
Begins(w) ==
  latest' = [alone |-> \A v \in Workers \ {w} : ~Busy(v), faulty |-> FALSE, ok |-> FALSE]

-----------------------------------------------------------------------------
(* The commands.  A tc add fails when the part is there or its parent is   *)
(* not; every command may fail.                                            *)

Root(dev, kind, rate) == <<[op |-> "root", dev |-> dev, kind |-> kind, rate |-> rate]>>
Below(dev, n) == [k \in 1..n |-> [op |-> "below", dev |-> dev, k |-> k]]
Ingress(dev) == [k \in 1..2 |-> [op |-> "ingress", dev |-> dev, k |-> k]]

\* applyHTB and applyCake: what they add to shape one direction.
Kind(qdisc) == IF qdisc = "cake" THEN "cake" ELSE "htb"
Uplink(kind, dev, rate) == Root(dev, kind, rate) \o (IF kind = "htb" THEN Below(dev, 4) ELSE <<>>)
Downlink(kind, dev, rate) ==
  Ingress(dev) \o Root("ifb0", kind, rate) \o (IF kind = "htb" THEN Below("ifb0", 2) ELSE <<>>)

\* CAKE shapes downloads only when EnableIngress says so.
ShapesDownlink(kind, cfg) == kind = "htb" \/ cfg.ingress

Accepted(c) ==
  \/ c.op = "root" /\ root[c.dev].qdisc = "none"
  \/ c.op = "below" /\ root[c.dev].qdisc = "htb" /\ root[c.dev].below = c.k - 1
  \/ c.op = "ingress" /\ ingress[c.dev] = c.k - 1

Add(c) ==
  /\ root' = CASE c.op = "root" -> [root EXCEPT ![c.dev] = [qdisc |-> c.kind, rate |-> c.rate, below |-> 0]]
               [] c.op = "below" -> [root EXCEPT ![c.dev].below = c.k]
               [] OTHER -> root
  /\ ingress' = IF c.op = "ingress" THEN [ingress EXCEPT ![c.dev] = c.k] ELSE ingress

-----------------------------------------------------------------------------
(* Apply.                                                                  *)

\* One of Clear's three commands, whose errors nobody looks at.
Delete(w, from, to, dev, part) ==
  /\ work[w].step = from
  /\ \/ /\ root' = IF part = "root" THEN [root EXCEPT ![dev] = Bare] ELSE root
        /\ ingress' = IF part = "ingress" THEN [ingress EXCEPT ![dev] = 0] ELSE ingress
        /\ UNCHANGED <<faults, latest>>
     \/ Fault /\ latest' = [latest EXCEPT !.faulty = TRUE] /\ UNCHANGED kernel
  /\ Step(w, to)
  /\ UNCHANGED <<phase, up, memory, file, requests>>

\* Mutant: ifb0 is forgotten.
ClearInterfaceOnly(w) ==
  \/ Delete(w, "delRoot", "delIngress", iface, "root")
  \/ Delete(w, "delIngress", "uplink", iface, "ingress")

\* Each command reads s.iface anew.
Clear(w) ==
  \/ Delete(w, "delRoot", "delIngress", iface, "root")
  \/ Delete(w, "delIngress", "delIfb", iface, "ingress")
  \/ Delete(w, "delIfb", "uplink", "ifb0", "root")

\* The kind is read from s.tcConfig, the speed is Apply's argument.
ApplyUplink(w) ==
  /\ work[w].step = "uplink" /\ ~(w = Main /\ phase = "stopping")
  /\ LET kind == Kind(tcConfig.qdisc) IN
       work' = [work EXCEPT ![w] = [@ EXCEPT !.step = "run", !.kind = kind, !.next = "downlink",
                                             !.todo = Uplink(kind, iface, work[w].rate)]]
  /\ UNCHANGED <<phase, up, memory, file, kernel, requests, faults, latest>>

ApplyDownlink(w) ==
  /\ work[w].step = "downlink"
  /\ work' = [work EXCEPT ![w] =
       IF ShapesDownlink(work[w].kind, tcConfig)
       THEN [@ EXCEPT !.step = "run", !.next = "applied", !.todo = Downlink(work[w].kind, iface, work[w].rate)]
       ELSE [@ EXCEPT !.step = "applied"]]
  /\ UNCHANGED <<phase, up, memory, file, kernel, requests, faults, latest>>

\* The first command that fails ends Apply with its error.
Run(w) ==
  /\ work[w].step = "run"
  /\ LET c == Head(work[w].todo)
         rest == Tail(work[w].todo) IN
     \/ /\ Accepted(c) /\ Add(c)
        /\ work' = [work EXCEPT ![w].todo = rest, ![w].step = IF rest = <<>> THEN work[w].next ELSE "run"]
        /\ UNCHANGED <<faults, latest>>
     \/ ~Accepted(c) /\ Step(w, "failed") /\ UNCHANGED <<kernel, faults, latest>>
     \/ /\ Fault /\ latest' = [latest EXCEPT !.faulty = TRUE]
        /\ Step(w, "failed") /\ UNCHANGED kernel
  /\ UNCHANGED <<phase, up, memory, file, requests>>

Apply(w) == Clear(w) \/ ApplyUplink(w) \/ ApplyDownlink(w) \/ Run(w)

-----------------------------------------------------------------------------
(* A request: handleAdminTrafficControl and SetTrafficControlConfig.       *)

Task(cfg, step) ==
  [step |-> step, cfg |-> cfg, rate |-> cfg.rate, kind |-> "none", next |-> "none", todo |-> <<>>,
   oldIface |-> iface]

\* The handler checks the interface (or picks one that is up, when there is any).
Request(a, c) ==
  /\ phase = "serving" /\ ~Busy(a)
  /\ requests < MaxRequests /\ requests' = requests + 1
  /\ c.iface \in up
  /\ work' = [work EXCEPT ![a] = Task(c, "validate")]
  /\ Begins(a)
  /\ UNCHANGED <<phase, up, memory, file, kernel, faults>>

\* SetTrafficControlConfig checks it again.
Validate(a) ==
  /\ work[a].step = "validate"
  /\ work' = [work EXCEPT ![a] = IF work[a].cfg.iface \in up THEN [@ EXCEPT !.step = "set"] ELSE Idle]
  /\ UNCHANGED <<phase, up, memory, file, kernel, requests, faults, latest>>

\* Mutant: s.iface stays as it was.
SetConfigOnly(a) ==
  /\ work[a].step = "set"
  /\ tcConfig' = work[a].cfg
  /\ work' = [work EXCEPT ![a].step = "delRoot", ![a].oldIface = iface]
  /\ UNCHANGED <<phase, up, iface, file, kernel, requests, faults, latest>>

Set(a) ==
  /\ work[a].step = "set"
  /\ iface' = work[a].cfg.iface
  /\ tcConfig' = work[a].cfg
  /\ work' = [work EXCEPT ![a].step = "delRoot", ![a].oldIface = iface]
  /\ UNCHANGED <<phase, up, file, kernel, requests, faults, latest>>

\* os.WriteFile truncates the file and writes it; a failed write is an error.
Save(a) ==
  \/ /\ work[a].step = "applied"
     /\ file' = None
     /\ Step(a, "write")
     /\ UNCHANGED <<phase, up, memory, kernel, requests, faults, latest>>
  \/ /\ work[a].step = "write"
     /\ work' = [work EXCEPT ![a] = Idle]
     /\ \/ file' = work[a].cfg /\ latest' = [latest EXCEPT !.ok = TRUE] /\ UNCHANGED faults
        \/ Fault /\ UNCHANGED <<file, latest>>
     /\ UNCHANGED <<phase, up, memory, kernel, requests>>

\* The error of Apply: only the interface is put back.
Revert(a) ==
  /\ work[a].step = "failed"
  /\ iface' = work[a].oldIface
  /\ work' = [work EXCEPT ![a] = Idle]
  /\ UNCHANGED <<phase, up, tcConfig, file, kernel, requests, faults, latest>>

Serve(a) == Validate(a) \/ Set(a) \/ Apply(a) \/ Save(a) \/ Revert(a)

-----------------------------------------------------------------------------
(* Start and shutdown.                                                     *)

\* LoadTrafficControlConfig: no file gives the default, an unknown qdisc is cake.
Load ==
  IF file = None THEN Default
  ELSE IF file.qdisc = "other" THEN [file EXCEPT !.qdisc = "cake"] ELSE file

\* Mutant: without an interface that is up there is none to shape.
StartInterfacesThatAreUp == IF Load.iface \in up THEN {Load.iface} ELSE IF up = {} THEN {None} ELSE up

\* NewWithConfig: the saved interface, if it is up; else one that the command line names
\* or that is found.
StartInterfaces == IF Load.iface \in up THEN {Load.iface} ELSE Ifaces

Start ==
  /\ phase = "down"
  /\ \E i \in StartInterfaces :
       /\ iface' = i
       /\ tcConfig' = [Load EXCEPT !.iface = i]
       /\ work' = [work EXCEPT ![Main] = [Task(Load, "delRoot") EXCEPT !.oldIface = i]]
  /\ phase' = "starting"
  /\ Begins(Main)
  /\ UNCHANGED <<up, file, kernel, requests, faults>>

\* RestoreSavedConfiguration has returned; its error is logged.
Started ==
  /\ phase = "starting" /\ work[Main].step \in {"applied", "failed"}
  /\ latest' = [latest EXCEPT !.ok = work[Main].step = "applied"]
  /\ work' = [work EXCEPT ![Main] = Idle]
  /\ phase' = "serving"
  /\ UNCHANGED <<up, memory, file, kernel, requests, faults>>

\* The deferred Clear, which does not wait for a request that goes on; then the process ends.
Stop ==
  /\ phase = "serving" /\ Fault
  /\ phase' = "stopping"
  /\ work' = [work EXCEPT ![Main] = Task(tcConfig, "delRoot")]
  /\ Begins(Main)
  /\ UNCHANGED <<up, memory, file, kernel, requests>>

Down ==
  /\ phase' = "down"
  /\ work' = [w \in Workers |-> Idle]
  /\ UNCHANGED <<up, memory, file, kernel, requests, latest>>

Stopped == phase = "stopping" /\ work[Main].step = "uplink" /\ Down /\ UNCHANGED faults
Crash == phase # "down" /\ Fault /\ Down

LinkChanges(i) ==
  /\ Fault
  /\ up' = IF i \in up THEN up \ {i} ELSE up \cup {i}
  /\ UNCHANGED <<phase, memory, file, kernel, work, requests, latest>>

Next ==
  \/ \E a \in Admins : Serve(a) \/ \E c \in Configs : Request(a, c)
  \/ Start \/ Apply(Main) \/ Started \/ Stop \/ Stopped \/ Crash
  \/ \E i \in Ifaces : LinkChanges(i)

Spec == Init /\ [][Next]_vars

-----------------------------------------------------------------------------
(* Properties.                                                             *)

\* The kernel shapes device i as cfg says.
Installed(cfg, i) ==
  LET kind == Kind(cfg.qdisc) IN
  /\ root[i] = [qdisc |-> kind, rate |-> cfg.rate, below |-> IF kind = "htb" THEN 4 ELSE 0]
  /\ ShapesDownlink(kind, cfg) =>
       /\ ingress[i] = 2
       /\ root["ifb0"] = [qdisc |-> kind, rate |-> cfg.rate, below |-> IF kind = "htb" THEN 2 ELSE 0]

\* When nothing is under way and the latest change, a request or the restoration at the
\* start, succeeded without overlapping another, then memory, kernel and file agree,
\* whatever failed, overlapped or crashed before (trafficcontrol.go and bandwidth.go
\* 42-190, 209-240).
InForce ==
  phase = "serving" /\ latest.ok /\ latest.alone /\ (\A w \in Workers : ~Busy(w)) =>
    /\ tcConfig.iface = iface
    /\ Installed(tcConfig, iface)
    /\ file # None => Load.rate = tcConfig.rate /\ Load.ingress = tcConfig.ingress

\* Apply may start from anything earlier requests and crashes left on this and on other
\* interfaces: alone and without a failing command it does not fail (bandwidth.go:42-190).
LoneApplySucceeds ==
  \A w \in Workers : work[w].step = "failed" => ~latest.alone \/ latest.faulty
=============================================================================
