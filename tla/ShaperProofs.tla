---------------------------- MODULE ShaperProofs ----------------------------
(***************************************************************************)
(* Safety of the bandwidth shaper for any number of admins, interfaces,    *)
(* settings, requests and faults.                                          *)
(*                                                                         *)
(* An Apply that is alone works on what others left.  The invariant says   *)
(* how far it is: after each of its commands what Clear has removed        *)
(* (Cleared, as long as no command failed), what the tc commands have      *)
(* built (Built), and that the setting it works for is still the one in    *)
(* memory (Configured).  Of an Apply that is not alone nothing is needed.  *)
(***************************************************************************)
EXTENDS Shaper, SequenceTheorems, TLAPS

Kinds == {"cake", "htb"}
\* The commands of an Apply.
Commands ==
  [op : {"root"}, dev : Devices, kind : Kinds, rate : Nat]
    \cup [op : {"below"}, dev : Devices, k : 1..4]
    \cup [op : {"ingress"}, dev : Ifaces, k : 1..2]

\* What a request, or main, carries from step to step.
TaskRecords ==
  [step : Steps \ {"idle"}, cfg : Settings, rate : Nat, kind : Kinds \cup {"none"},
   next : {"none", "downlink", "applied"}, todo : Seq(Commands), oldIface : Ifaces]

\* What Run and ApplyDownlink find is what ApplyUplink put there.
Tasks == {x \in TaskRecords :
  /\ x.rate = x.cfg.rate
  /\ x.step \in {"run", "downlink"} => x.kind \in Kinds
  /\ x.step = "run" => x.next # "none" /\ x.todo # <<>>}

\* TypeOK but for work, whose shape WorkOK gives in full.
StateOK ==
  /\ phase \in {"starting", "serving", "stopping", "down"}
  /\ up \subseteq Ifaces /\ iface \in Ifaces
  /\ tcConfig \in Settings /\ file \in Settings \cup {None}
  /\ root \in [Devices -> [qdisc : {"none", "cake", "htb"}, rate : Nat, below : 0..4]]
  /\ ingress \in [Ifaces -> 0..2]
  /\ requests \in 0..MaxRequests /\ faults \in 0..MaxFaults
  /\ latest \in [alone : BOOLEAN, faulty : BOOLEAN, ok : BOOLEAN]

WorkOK == work \in [Workers -> Tasks \cup {Idle}]

\* main works at start and shutdown only, and serves no request.
MainSteps == {"delRoot", "delIngress", "delIfb", "uplink", "run", "downlink", "applied", "failed"}

InPhase(w, x) ==
  /\ w \in Admins => phase \in {"serving", "stopping"}
  /\ w = Main => /\ phase \in {"starting", "stopping"} /\ x.step \in MainSteps
                 /\ phase = "stopping" => x.step \in {"delRoot", "delIngress", "delIfb", "uplink"}

Phases ==
  /\ \A w \in Workers : Busy(w) => InPhase(w, work[w])
  /\ phase \in {"starting", "stopping"} => Busy(Main)

\* The latest change, as long as it met no other, is the only work there is.
Solo ==
  latest.alone =>
    /\ \A v, w \in Workers : Busy(v) /\ Busy(w) => v = w
    /\ \A w \in Workers : Busy(w) => ~latest.ok

\* A start takes its settings from the file.
Restored ==
  phase = "starting" => Load.rate = tcConfig.rate /\ Load.ingress = tcConfig.ingress

\* Once it has set it, a task works on the setting in memory.
Configured(x, w) ==
  x.step \notin {"validate", "set"} =>
    /\ tcConfig.iface = iface /\ x.rate = tcConfig.rate
    /\ w \in Admins => x.cfg = tcConfig
    /\ x.step \in {"run", "downlink", "applied", "write"} => x.kind = Kind(tcConfig.qdisc)

\* The commands of each direction, how many there are, and the parts below a finished uplink.
Uplinks(x) == Uplink(x.kind, iface, x.rate)
Downlinks(x) == Downlink(x.kind, iface, x.rate)
UpLen(kind) == IF kind = "htb" THEN 5 ELSE 1
DownLen(kind) == IF kind = "htb" THEN 5 ELSE 3
BelowUp(kind) == IF kind = "htb" THEN 4 ELSE 0

\* todo is what is left of the commands of full.
Suffix(todo, full) ==
  /\ Len(todo) <= Len(full)
  /\ \A k \in 1..Len(todo) : todo[k] = full[Len(full) - Len(todo) + k]

\* Which direction a task builds, and how many commands of it are done.
AddsUplink(x) == x.step = "run" /\ x.next = "downlink"
AddsDownlink(x) == x.step = "run" /\ x.next = "applied"
UpDone(x) == UpLen(x.kind) - Len(x.todo)
DownDone(x) == DownLen(x.kind) - Len(x.todo)

\* What a task has cleared so far, and not built again, is gone from the kernel.
Cleared(x) ==
  /\ x.step \in {"delIngress", "delIfb", "uplink"} \/ (AddsUplink(x) /\ UpDone(x) = 0) => root[iface] = Bare
  /\ \/ x.step \in {"delIfb", "uplink", "downlink"} \/ AddsUplink(x)
     \/ AddsDownlink(x) /\ DownDone(x) = 0
     => ingress[iface] = 0
  /\ \/ x.step \in {"uplink", "downlink"} \/ AddsUplink(x)
     \/ AddsDownlink(x) /\ DownDone(x) <= 2
     => root["ifb0"] = Bare
  /\ x.step # "failed"

\* What a task has built so far is in the kernel, and the commands that are left make the rest.
Built(x) ==
  /\ AddsUplink(x) =>
       /\ Suffix(x.todo, Uplinks(x))
       /\ UpDone(x) >= 1 => root[iface] = [qdisc |-> x.kind, rate |-> x.rate, below |-> UpDone(x) - 1]
  /\ x.step = "downlink" \/ AddsDownlink(x) =>
       root[iface] = [qdisc |-> x.kind, rate |-> x.rate, below |-> BelowUp(x.kind)]
  /\ AddsDownlink(x) =>
       /\ Suffix(x.todo, Downlinks(x))
       /\ DownDone(x) >= 1 => ingress[iface] = IF DownDone(x) = 1 THEN 1 ELSE 2
       /\ DownDone(x) >= 3 => root["ifb0"] = [qdisc |-> x.kind, rate |-> x.rate, below |-> DownDone(x) - 3]
  /\ x.step \in {"applied", "write"} => Installed(tcConfig, iface)

\* Where a task that is alone has come to.
OnTrack(x, w) ==
  /\ phase # "stopping" => Configured(x, w)
  /\ ~latest.faulty => Cleared(x)
  /\ Built(x)

Progress == latest.alone => \A w \in Workers : Busy(w) => OnTrack(work[w], w)

IInv == StateOK /\ WorkOK /\ Phases /\ Solo /\ Restored /\ Progress /\ InForce

-----------------------------------------------------------------------------
(* The commands.                                                           *)

LEMMA Assumed ==
  /\ Main \notin Admins /\ None \notin Settings
  /\ Configs \subseteq Settings /\ Default \in Settings
  /\ "ifb0" \notin Ifaces
  /\ MaxRequests \in Nat /\ MaxFaults \in Nat
<1> QED
  BY ShaperAssumption

LEMMA KindTyped == \A q : Kind(q) \in Kinds
<1> QED
  BY DEF Kind, Kinds

LEMMA RootShape ==
  ASSUME NEW kind \in Kinds, NEW dev \in Devices, NEW rate \in Nat
  PROVE  /\ Root(dev, kind, rate) \in Seq(Commands) /\ Len(Root(dev, kind, rate)) = 1
         /\ Root(dev, kind, rate)[1] = [op |-> "root", dev |-> dev, kind |-> kind, rate |-> rate]
<1>1. [op |-> "root", dev |-> dev, kind |-> kind, rate |-> rate] \in Commands
  BY DEF Commands
<1> QED
  BY <1>1 DEF Root

LEMMA BelowShape ==
  ASSUME NEW dev \in Devices, NEW n \in 1..4
  PROVE  /\ Below(dev, n) \in Seq(Commands) /\ Len(Below(dev, n)) = n
         /\ \A k \in 1..n : Below(dev, n)[k] = [op |-> "below", dev |-> dev, k |-> k]
<1>1. \A k \in 1..n : [op |-> "below", dev |-> dev, k |-> k] \in Commands
  BY DEF Commands
<1> QED
  BY <1>1 DEF Below

LEMMA IngressShape ==
  ASSUME NEW dev \in Ifaces
  PROVE  /\ Ingress(dev) \in Seq(Commands) /\ Len(Ingress(dev)) = 2
         /\ \A k \in 1..2 : Ingress(dev)[k] = [op |-> "ingress", dev |-> dev, k |-> k]
<1>1. \A k \in 1..2 : [op |-> "ingress", dev |-> dev, k |-> k] \in Commands
  BY DEF Commands
<1> QED
  BY <1>1 DEF Ingress

\* The commands for uploads: the root qdisc, then, for HTB, four parts below it.
LEMMA UplinkShape ==
  ASSUME NEW kind \in Kinds, NEW dev \in Ifaces, NEW rate \in Nat
  PROVE  /\ Uplink(kind, dev, rate) \in Seq(Commands) /\ Len(Uplink(kind, dev, rate)) = UpLen(kind)
         /\ Uplink(kind, dev, rate)[1] = [op |-> "root", dev |-> dev, kind |-> kind, rate |-> rate]
         /\ \A k \in 2..UpLen(kind) :
              Uplink(kind, dev, rate)[k] = [op |-> "below", dev |-> dev, k |-> k - 1]
<1> DEFINE r == Root(dev, kind, rate)
           b == Below(dev, 4)
<1>1. dev \in Devices
  BY DEF Devices
<1>2. /\ r \in Seq(Commands) /\ Len(r) = 1
      /\ r[1] = [op |-> "root", dev |-> dev, kind |-> kind, rate |-> rate]
  BY <1>1, RootShape
<1>3. /\ b \in Seq(Commands) /\ Len(b) = 4
      /\ \A k \in 1..4 : b[k] = [op |-> "below", dev |-> dev, k |-> k]
  BY <1>1, BelowShape
<1>4. Uplink(kind, dev, rate) = IF kind = "htb" THEN r \o b ELSE r \o <<>>
  BY DEF Uplink
<1> HIDE DEF r, b
<1>5. CASE kind = "htb"
  <2>1. /\ r \o b \in Seq(Commands) /\ Len(r \o b) = 5
        /\ \A k \in 1..5 : (r \o b)[k] = IF k <= 1 THEN r[k] ELSE b[k - 1]
    <3>1. /\ r \o b \in Seq(Commands) /\ Len(r \o b) = Len(r) + Len(b)
          /\ \A k \in 1..(Len(r) + Len(b)) :
               (r \o b)[k] = IF k <= Len(r) THEN r[k] ELSE b[k - Len(r)]
      BY ZenonT(60), <1>2, <1>3, ConcatProperties
    <3> QED
      BY <1>2, <1>3, <3>1
  <2> QED
    BY SMTT(30), <1>2, <1>3, <1>4, <1>5, <2>1 DEF UpLen
<1>6. CASE kind # "htb"
  <2>1. r \o <<>> = r
    BY <1>2, ConcatEmptySeq
  <2> QED
    BY <1>2, <1>4, <1>6, <2>1 DEF UpLen
<1> QED
  BY <1>5, <1>6

\* The commands for downloads: two for the redirection, the root qdisc of ifb0, then, for
\* HTB, two parts below it.
LEMMA DownlinkShape ==
  ASSUME NEW kind \in Kinds, NEW dev \in Ifaces, NEW rate \in Nat
  PROVE  /\ Downlink(kind, dev, rate) \in Seq(Commands) /\ Len(Downlink(kind, dev, rate)) = DownLen(kind)
         /\ \A k \in 1..2 : Downlink(kind, dev, rate)[k] = [op |-> "ingress", dev |-> dev, k |-> k]
         /\ Downlink(kind, dev, rate)[3] = [op |-> "root", dev |-> "ifb0", kind |-> kind, rate |-> rate]
         /\ \A k \in 4..DownLen(kind) :
              Downlink(kind, dev, rate)[k] = [op |-> "below", dev |-> "ifb0", k |-> k - 3]
<1> DEFINE i == Ingress(dev)
           r == Root("ifb0", kind, rate)
           b == Below("ifb0", 2)
           ir == i \o r
<1>1. "ifb0" \in Devices
  BY DEF Devices
<1>2. /\ r \in Seq(Commands) /\ Len(r) = 1
      /\ r[1] = [op |-> "root", dev |-> "ifb0", kind |-> kind, rate |-> rate]
  BY <1>1, RootShape
<1>3. /\ b \in Seq(Commands) /\ Len(b) = 2
      /\ \A k \in 1..2 : b[k] = [op |-> "below", dev |-> "ifb0", k |-> k]
  <2>1. 2 \in 1..4
    OBVIOUS
  <2> QED
    BY <1>1, <2>1, BelowShape
<1>4. /\ i \in Seq(Commands) /\ Len(i) = 2
      /\ \A k \in 1..2 : i[k] = [op |-> "ingress", dev |-> dev, k |-> k]
  BY IngressShape
<1>5. Downlink(kind, dev, rate) = IF kind = "htb" THEN ir \o b ELSE ir \o <<>>
  BY DEF Downlink
<1> HIDE DEF i, r, b
<1>6. /\ ir \in Seq(Commands) /\ Len(ir) = 3
      /\ \A k \in 1..3 : ir[k] = IF k <= 2 THEN i[k] ELSE r[k - 2]
  <2>1. /\ i \o r \in Seq(Commands) /\ Len(i \o r) = Len(i) + Len(r)
        /\ \A k \in 1..(Len(i) + Len(r)) :
             (i \o r)[k] = IF k <= Len(i) THEN i[k] ELSE r[k - Len(i)]
    BY <1>2, <1>4, ConcatProperties
  <2> QED
    BY <1>2, <1>4, <2>1 DEF ir
<1> HIDE DEF ir
<1>7. CASE kind = "htb"
  <2>1. /\ ir \o b \in Seq(Commands) /\ Len(ir \o b) = 5
        /\ \A k \in 1..5 : (ir \o b)[k] = IF k <= 3 THEN ir[k] ELSE b[k - 3]
    <3>1. /\ ir \o b \in Seq(Commands) /\ Len(ir \o b) = Len(ir) + Len(b)
          /\ \A k \in 1..(Len(ir) + Len(b)) :
               (ir \o b)[k] = IF k <= Len(ir) THEN ir[k] ELSE b[k - Len(ir)]
      BY ZenonT(60), <1>3, <1>6, ConcatProperties
    <3> QED
      BY <1>3, <1>6, <3>1
  <2> QED
    BY <1>2, <1>3, <1>4, <1>5, <1>6, <1>7, <2>1 DEF DownLen
<1>8. CASE kind # "htb"
  <2>1. ir \o <<>> = ir
    BY <1>6, ConcatEmptySeq
  <2> QED
    BY <1>2, <1>4, <1>5, <1>6, <1>8, <2>1 DEF DownLen
<1> QED
  BY <1>7, <1>8

LEMMA SuffixOfItself ==
  ASSUME NEW S, NEW s \in Seq(S)
  PROVE  Suffix(s, s)
<1>1. Len(s) \in Nat
  BY LenProperties
<1>2. \A k \in 1..Len(s) : (Len(s) - Len(s)) + k = k
  BY <1>1
<1> QED
  BY <1>1, <1>2 DEF Suffix

\* Run takes the commands in order.
LEMMA NextCommand ==
  ASSUME NEW S, NEW full \in Seq(S), NEW todo \in Seq(S), Suffix(todo, full), todo # <<>>
  PROVE  /\ Len(todo) \in 1..Len(full)
         /\ Head(todo) \in S /\ Head(todo) = full[Len(full) - Len(todo) + 1]
         /\ Tail(todo) \in Seq(S) /\ Len(Tail(todo)) = Len(todo) - 1
         /\ Suffix(Tail(todo), full)
         /\ Tail(todo) = <<>> <=> Len(todo) = 1
<1> DEFINE tail == Tail(todo)
           n == Len(full)
           m == Len(todo)
<1>1. n \in Nat /\ m \in Nat /\ m # 0
  BY EmptySeq, LenProperties
<1>2. m <= n /\ \A k \in 1..m : todo[k] = full[n - m + k]
  BY DEF Suffix
<1>3. /\ Head(todo) \in S /\ tail \in Seq(S) /\ Len(tail) = m - 1
      /\ \A k \in 1..Len(tail) : tail[k] = todo[k + 1]
  BY HeadTailProperties
<1>4. Head(todo) = todo[1]
  OBVIOUS
<1>5. tail = <<>> <=> Len(tail) = 0
  BY <1>3, EmptySeq
<1> HIDE DEF tail, n, m
<1>6. m \in 1..n /\ Head(todo) = full[n - m + 1]
  BY <1>1, <1>2, <1>4
<1>7. \A k \in 1..(m - 1) : tail[k] = full[n - (m - 1) + k]
  BY <1>1, <1>2, <1>3
<1>8. Len(tail) = 0 <=> m = 1
  BY <1>1, <1>3
<1>9. Suffix(tail, full)
  <2>1. Len(tail) = m - 1 /\ Len(full) = n /\ m - 1 <= n
    BY <1>1, <1>2, <1>3 DEF n
  <2> QED
    BY <1>7, <2>1 DEF Suffix
<1> QED
  BY <1>3, <1>5, <1>6, <1>8, <1>9 DEF tail, n, m

\* What Run takes next while it adds the uplink's part.
LEMMA UplinkCommand ==
  ASSUME iface \in Ifaces, NEW x \in Tasks, AddsUplink(x), Suffix(x.todo, Uplinks(x))
  PROVE  /\ UpDone(x) \in 0..(UpLen(x.kind) - 1)
         /\ UpDone(x) = 0 =>
              Head(x.todo) = [op |-> "root", dev |-> iface, kind |-> x.kind, rate |-> x.rate]
         /\ UpDone(x) >= 1 =>
              x.kind = "htb" /\ Head(x.todo) = [op |-> "below", dev |-> iface, k |-> UpDone(x)]
         /\ Tail(x.todo) \in Seq(Commands) /\ Suffix(Tail(x.todo), Uplinks(x))
         /\ UpLen(x.kind) - Len(Tail(x.todo)) = UpDone(x) + 1
         /\ Tail(x.todo) = <<>> <=> UpDone(x) + 1 = UpLen(x.kind)
<1> DEFINE full == Uplinks(x)
           todo == x.todo
           n == UpDone(x)
<1>1. x.kind \in Kinds /\ x.rate \in Nat /\ todo \in Seq(Commands) /\ todo # <<>>
  BY DEF Tasks, TaskRecords, AddsUplink
<1>2. /\ full \in Seq(Commands) /\ Len(full) = UpLen(x.kind)
      /\ full[1] = [op |-> "root", dev |-> iface, kind |-> x.kind, rate |-> x.rate]
      /\ \A k \in 2..UpLen(x.kind) : full[k] = [op |-> "below", dev |-> iface, k |-> k - 1]
  BY <1>1, UplinkShape DEF Uplinks
<1>3. UpLen(x.kind) \in {1, 5} /\ (UpLen(x.kind) # 1 => x.kind = "htb")
  BY DEF UpLen
<1>4. n = Len(full) - Len(todo)
  BY <1>2 DEF UpDone
<1>5. /\ Len(todo) \in 1..Len(full)
      /\ Head(todo) = full[Len(full) - Len(todo) + 1]
      /\ Tail(todo) \in Seq(Commands) /\ Len(Tail(todo)) = Len(todo) - 1
      /\ Suffix(Tail(todo), full)
      /\ Tail(todo) = <<>> <=> Len(todo) = 1
  <2>1. full \in Seq(Commands)
    BY <1>2
  <2> HIDE DEF full, todo
  <2>2. Suffix(todo, full)
    BY DEF full, todo
  <2> QED
    BY <1>1, <2>1, <2>2, NextCommand
<1> HIDE DEF full, todo, n
<1>6. n \in 0..(UpLen(x.kind) - 1) /\ Head(todo) = full[n + 1]
  BY <1>2, <1>3, <1>4, <1>5
<1>7. n >= 1 => x.kind = "htb" /\ n + 1 \in 2..UpLen(x.kind)
  BY <1>3, <1>6
<1>8. UpLen(x.kind) - Len(Tail(todo)) = n + 1 /\ (Tail(todo) = <<>> <=> n + 1 = UpLen(x.kind))
  BY <1>2, <1>3, <1>4, <1>5
<1>9. n = 0 => Head(todo) = [op |-> "root", dev |-> iface, kind |-> x.kind, rate |-> x.rate]
  BY <1>2, <1>6
<1>10. n >= 1 => Head(todo) = [op |-> "below", dev |-> iface, k |-> n]
  <2> SUFFICES ASSUME n >= 1 PROVE Head(todo) = [op |-> "below", dev |-> iface, k |-> n]
    OBVIOUS
  <2>1. full[n + 1] = [op |-> "below", dev |-> iface, k |-> (n + 1) - 1]
    BY <1>2, <1>7
  <2>2. (n + 1) - 1 = n
    BY <1>3, <1>6
  <2> QED
    BY <1>6, <2>1, <2>2
<1> QED
  BY <1>5, <1>6, <1>7, <1>8, <1>9, <1>10 DEF full, todo, n

\* And while it adds the downlink's part.
LEMMA DownlinkCommand ==
  ASSUME iface \in Ifaces, NEW x \in Tasks, AddsDownlink(x), Suffix(x.todo, Downlinks(x))
  PROVE  /\ DownDone(x) \in 0..(DownLen(x.kind) - 1)
         /\ DownDone(x) <= 1 => Head(x.todo) = [op |-> "ingress", dev |-> iface, k |-> DownDone(x) + 1]
         /\ DownDone(x) = 2 =>
              Head(x.todo) = [op |-> "root", dev |-> "ifb0", kind |-> x.kind, rate |-> x.rate]
         /\ DownDone(x) >= 3 =>
              x.kind = "htb" /\ Head(x.todo) = [op |-> "below", dev |-> "ifb0", k |-> DownDone(x) - 2]
         /\ Tail(x.todo) \in Seq(Commands) /\ Suffix(Tail(x.todo), Downlinks(x))
         /\ DownLen(x.kind) - Len(Tail(x.todo)) = DownDone(x) + 1
         /\ Tail(x.todo) = <<>> <=> DownDone(x) + 1 = DownLen(x.kind)
<1> DEFINE full == Downlinks(x)
           todo == x.todo
           n == DownDone(x)
<1>1. x.kind \in Kinds /\ x.rate \in Nat /\ todo \in Seq(Commands) /\ todo # <<>>
  BY DEF Tasks, TaskRecords, AddsDownlink
<1>2. /\ full \in Seq(Commands) /\ Len(full) = DownLen(x.kind)
      /\ \A k \in 1..2 : full[k] = [op |-> "ingress", dev |-> iface, k |-> k]
      /\ full[3] = [op |-> "root", dev |-> "ifb0", kind |-> x.kind, rate |-> x.rate]
      /\ \A k \in 4..DownLen(x.kind) : full[k] = [op |-> "below", dev |-> "ifb0", k |-> k - 3]
  BY <1>1, DownlinkShape DEF Downlinks
<1>3. DownLen(x.kind) \in {3, 5} /\ (DownLen(x.kind) # 3 => x.kind = "htb")
  BY DEF DownLen
<1>4. n = Len(full) - Len(todo)
  BY <1>2 DEF DownDone
<1>5. /\ Len(todo) \in 1..Len(full)
      /\ Head(todo) = full[Len(full) - Len(todo) + 1]
      /\ Tail(todo) \in Seq(Commands) /\ Len(Tail(todo)) = Len(todo) - 1
      /\ Suffix(Tail(todo), full)
      /\ Tail(todo) = <<>> <=> Len(todo) = 1
  <2>1. full \in Seq(Commands)
    BY <1>2
  <2> HIDE DEF full, todo
  <2>2. Suffix(todo, full)
    BY DEF full, todo
  <2> QED
    BY <1>1, <2>1, <2>2, NextCommand
<1> HIDE DEF full, todo, n
<1>6. n \in 0..(DownLen(x.kind) - 1) /\ Head(todo) = full[n + 1]
  BY <1>2, <1>3, <1>4, <1>5
<1>7. n >= 3 => x.kind = "htb" /\ n + 1 \in 4..DownLen(x.kind)
  BY <1>3, <1>6
<1>8. DownLen(x.kind) - Len(Tail(todo)) = n + 1 /\ (Tail(todo) = <<>> <=> n + 1 = DownLen(x.kind))
  BY <1>2, <1>3, <1>4, <1>5
<1>9. n <= 1 => Head(todo) = [op |-> "ingress", dev |-> iface, k |-> n + 1]
  <2>1. n <= 1 => n + 1 \in 1..2
    BY <1>3, <1>6
  <2> QED
    BY <1>2, <1>6, <2>1
<1>10. n = 2 => Head(todo) = [op |-> "root", dev |-> "ifb0", kind |-> x.kind, rate |-> x.rate]
  BY <1>2, <1>6
<1>11. n >= 3 => Head(todo) = [op |-> "below", dev |-> "ifb0", k |-> n - 2]
  <2> SUFFICES ASSUME n >= 3 PROVE Head(todo) = [op |-> "below", dev |-> "ifb0", k |-> n - 2]
    OBVIOUS
  <2>1. full[n + 1] = [op |-> "below", dev |-> "ifb0", k |-> (n + 1) - 3]
    BY <1>2, <1>7
  <2>2. (n + 1) - 3 = n - 2
    BY <1>3, <1>6
  <2> QED
    BY <1>6, <2>1, <2>2
<1> QED
  BY <1>5, <1>6, <1>7, <1>8, <1>9, <1>10, <1>11 DEF full, todo, n

-----------------------------------------------------------------------------
(* How a worker goes on, begins and ends.                                  *)

\* The latest Apply, when it is alone, is the only work, and never that of a program that stops.
LEMMA LoneWorker ==
  ASSUME IInv, NEW w \in Workers, Busy(w), latest.alone
  PROVE  /\ \A v \in Workers : Busy(v) => v = w
         /\ ~latest.ok /\ OnTrack(work[w], w) /\ InPhase(w, work[w])
         /\ phase = "stopping" => w = Main
<1> QED
  BY DEF IInv, Solo, Progress, Phases, Workers

LEMMA GoesOn ==
  ASSUME IInv, NEW w \in Workers, Busy(w), NEW y \in Tasks, work' = [work EXCEPT ![w] = y],
         StateOK', phase' = phase, InPhase(w, y),
         latest'.alone = latest.alone, latest'.ok = latest.ok,
         phase = "starting" => tcConfig' = tcConfig /\ file' = file,
         latest.alone => OnTrack(y, w)'
  PROVE  IInv'
<1>1. y # Idle
  BY DEF Tasks, TaskRecords, Idle
<1>2. WorkOK' /\ work'[w] = y /\ \A v \in Workers \ {w} : work'[v] = work[v]
  BY DEF IInv, WorkOK
<1>3. \A v \in Workers : Busy(v)' <=> Busy(v)
  BY <1>1, <1>2 DEF Busy
<1>4. Phases'
  <2>1. \A v \in Workers : InPhase(v, work[v])' <=> InPhase(v, work'[v])
    BY DEF InPhase
  <2> QED
    BY <1>2, <1>3, <2>1 DEF IInv, Phases, Workers
<1>5. Solo'
  BY <1>3 DEF IInv, Solo
<1>6. Restored'
  BY DEF IInv, Restored, Load
<1>7. Progress'
  <2> SUFFICES ASSUME latest.alone, NEW v \in Workers, Busy(v) PROVE OnTrack(work[v], v)'
    BY <1>3 DEF Progress
  <2>1. v = w
    BY DEF IInv, Solo
  <2> QED
    BY <1>2, <2>1 DEF OnTrack, Configured, Cleared, Built, AddsUplink, AddsDownlink, UpDone, DownDone, Uplinks,
       Downlinks
<1>8. InForce'
  BY <1>3 DEF InForce
<1> QED
  BY <1>2, <1>4, <1>5, <1>6, <1>7, <1>8 DEF IInv

LEMMA Begin ==
  ASSUME IInv, NEW w \in Workers, ~Busy(w), NEW y \in Tasks, work' = [work EXCEPT ![w] = y],
         y.step \in {"validate", "delRoot"},
         StateOK', Begins(w), Phases', Restored',
         y.step = "delRoot" /\ phase' # "stopping" => Configured(y, w)'
  PROVE  IInv'
<1>1. y # Idle
  BY DEF Tasks, TaskRecords, Idle
<1>2. WorkOK' /\ work'[w] = y /\ \A v \in Workers \ {w} : work'[v] = work[v]
  BY DEF IInv, WorkOK
<1>3. Busy(w)' /\ \A v \in Workers \ {w} : Busy(v)' <=> Busy(v)
  BY <1>1, <1>2 DEF Busy
<1>4. latest'.ok = FALSE /\ (latest'.alone => \A v \in Workers \ {w} : ~Busy(v)')
  BY <1>3 DEF Begins
<1>5. Solo'
  BY <1>3, <1>4 DEF Solo
<1>6. Progress'
  <2> SUFFICES ASSUME latest'.alone, NEW v \in Workers, Busy(v)' PROVE OnTrack(work[v], v)'
    BY DEF Progress
  <2>1. v = w
    BY <1>3, <1>4
  <2>2. phase' # "stopping" => Configured(work[w], w)'
    BY <1>2 DEF Configured
  <2>3. Cleared(work[w])' /\ Built(work[w])'
    BY <1>2 DEF Cleared, Built, AddsUplink, AddsDownlink
  <2> QED
    BY <2>1, <2>2, <2>3 DEF OnTrack
<1>7. InForce'
  BY <1>3 DEF InForce
<1> QED
  BY <1>2, <1>5, <1>6, <1>7 DEF IInv

\* What was not in force before is not claimed after a request that ends without success.
LEMMA EndUnfinished ==
  ASSUME IInv, NEW w \in Workers, Busy(w), work' = [work EXCEPT ![w] = Idle],
         latest'.alone = latest.alone, latest'.ok = latest.ok
  PROVE  InForce'
<1>1. latest.alone => ~latest.ok
  BY DEF IInv, Solo
<1> QED
  BY <1>1 DEF InForce

LEMMA End ==
  ASSUME IInv, NEW w \in Workers, Busy(w), work' = [work EXCEPT ![w] = Idle],
         StateOK', w # Main, phase' = phase, latest'.alone = latest.alone, InForce'
  PROVE  IInv'
<1>1. WorkOK' /\ work'[w] = Idle /\ \A v \in Workers \ {w} : work'[v] = work[v]
  BY DEF IInv, WorkOK
<1>2. ~Busy(w)' /\ \A v \in Workers \ {w} : Busy(v)' <=> Busy(v)
  BY <1>1 DEF Busy
<1>3. latest'.alone => \A v \in Workers : ~Busy(v)'
  BY <1>2 DEF IInv, Solo
<1>4. Solo' /\ Progress'
  BY <1>3 DEF Solo, Progress
<1>5. phase # "starting"
  BY DEF IInv, Phases, InPhase, Workers
<1>6. Restored'
  BY <1>5 DEF Restored
<1>7. Phases'
  BY <1>1, <1>2 DEF IInv, Phases, InPhase, Workers
<1> QED
  BY <1>1, <1>4, <1>6, <1>7 DEF IInv

-----------------------------------------------------------------------------
(* One lemma for each action.                                              *)

\* A task that changes its step only.
LEMMA Stepped ==
  ASSUME NEW x \in Tasks, NEW s \in Steps \ {"idle", "run", "downlink"}
  PROVE  \E y \in Tasks : /\ y = [x EXCEPT !.step = s]
                          /\ y.step = s /\ y.cfg = x.cfg /\ y.rate = x.rate /\ y.kind = x.kind
<1> DEFINE y == [x EXCEPT !.step = s]
<1>1. x \in TaskRecords /\ x.rate = x.cfg.rate
  BY DEF Tasks
<1>2. y \in TaskRecords
  BY <1>1 DEF TaskRecords
<1>3. y.step = s /\ y.cfg = x.cfg /\ y.rate = x.rate /\ y.kind = x.kind
  BY <1>1 DEF TaskRecords
<1> HIDE DEF y
<1>4. y \in Tasks
  BY <1>1, <1>2, <1>3 DEF Tasks
<1> QED
  BY <1>3, <1>4 DEF y

LEMMA TaskTyped ==
  ASSUME iface \in Ifaces, NEW c \in Settings, NEW i \in Ifaces, NEW s \in {"validate", "delRoot"}
  PROVE  \E y \in Tasks : /\ y = [Task(c, s) EXCEPT !.oldIface = i]
                          /\ y.step = s /\ y.cfg = c /\ y.rate = c.rate
<1> DEFINE y == [Task(c, s) EXCEPT !.oldIface = i]
<1>1. y = [step |-> s, cfg |-> c, rate |-> c.rate, kind |-> "none", next |-> "none", todo |-> <<>>, oldIface |-> i]
  BY DEF Task
<1>2. c.rate \in Nat /\ <<>> \in Seq(Commands)
  BY EmptySeq DEF Settings
<1>3. y \in TaskRecords
  BY <1>1, <1>2 DEF TaskRecords, Steps
<1>4. y.step = s /\ y.cfg = c /\ y.rate = c.rate
  BY <1>1
<1> HIDE DEF y
<1>5. y \in Tasks
  BY <1>3, <1>4 DEF Tasks
<1> QED
  BY <1>4, <1>5 DEF y

LEMMA LoadTyped == StateOK => Load \in Settings
<1> SUFFICES ASSUME StateOK PROVE Load \in Settings
  OBVIOUS
<1>1. file # None => [file EXCEPT !.qdisc = "cake"] \in Settings
  BY DEF StateOK, Settings
<1> QED
  BY <1>1, Assumed DEF StateOK, Load

LEMMA ValidateStep ==
  ASSUME IInv, NEW a \in Admins, Validate(a)
  PROVE  IInv'
<1>1. a \in Workers /\ Busy(a) /\ work[a] \in Tasks
  BY DEF Validate, Busy, Idle, Workers, IInv, WorkOK
<1>2. StateOK'
  BY DEF Validate, IInv, StateOK, memory, kernel
<1>3. InPhase(a, work[a])
  BY <1>1 DEF IInv, Phases
<1>4. CASE work' = [work EXCEPT ![a] = [work[a] EXCEPT !.step = "set"]]
  <2> PICK y \in Tasks : /\ y = [work[a] EXCEPT !.step = "set"]
                         /\ y.step = "set" /\ y.cfg = work[a].cfg
                         /\ y.rate = work[a].rate /\ y.kind = work[a].kind
    BY <1>1, Stepped DEF Steps
  <2>1. InPhase(a, y)
    BY <1>3, Assumed DEF InPhase
  <2>2. OnTrack(y, a)'
    BY DEF OnTrack, Configured, Cleared, Built, AddsUplink, AddsDownlink
  <2> QED
    BY <1>1, <1>2, <1>4, <2>1, <2>2, GoesOn DEF Validate, memory
<1>5. CASE work' = [work EXCEPT ![a] = Idle]
  <2>1. InForce'
    BY <1>1, <1>5, EndUnfinished DEF Validate
  <2> QED
    BY <1>1, <1>2, <1>5, <2>1, End, Assumed DEF Validate
<1> QED
  BY <1>4, <1>5 DEF Validate

LEMMA SetStep ==
  ASSUME IInv, NEW a \in Admins, Set(a)
  PROVE  IInv'
<1>1. a \in Workers /\ Busy(a) /\ work[a] \in Tasks
  BY DEF Set, Busy, Idle, Workers, IInv, WorkOK
<1>2. work[a].cfg \in Settings /\ work[a].rate = work[a].cfg.rate /\ iface \in Ifaces
  BY <1>1 DEF Tasks, TaskRecords, IInv, StateOK
<1>3. StateOK'
  BY <1>2 DEF Set, IInv, StateOK, kernel, Settings
<1>4. phase # "starting"
  BY <1>1, Assumed DEF IInv, Phases, InPhase
<1> DEFINE t == [work[a] EXCEPT !.step = "delRoot", !.oldIface = iface]
<1>5. t \in TaskRecords /\ t.step = "delRoot" /\ t.rate = t.cfg.rate /\ t.cfg = work[a].cfg
  BY <1>1, <1>2 DEF Tasks, TaskRecords, Steps
<1>6. work' = [work EXCEPT ![a] = t]
  BY <1>1 DEF Set, IInv, WorkOK
<1> HIDE DEF t
<1>7. t \in Tasks
  BY <1>5 DEF Tasks
<1> PICK y \in Tasks : y = t
  BY <1>7
<1>8. InPhase(a, y)
  BY <1>1, Assumed DEF IInv, Phases, InPhase
<1>9. OnTrack(y, a)'
  BY <1>2, <1>5 DEF Set, OnTrack, Configured, Cleared, Built, AddsUplink, AddsDownlink
<1> QED
  BY <1>1, <1>3, <1>4, <1>6, <1>8, <1>9, GoesOn DEF Set

\* What Clear deletes stays deleted while it goes on, as ifb0 is none of the interfaces.
LEMMA DeleteStep ==
  ASSUME IInv, NEW w \in Workers,
         NEW from, NEW to, NEW part, NEW dev \in Devices,
         \/ from = "delRoot" /\ to = "delIngress" /\ dev = iface /\ part = "root"
         \/ from = "delIngress" /\ to = "delIfb" /\ dev = iface /\ part = "ingress"
         \/ from = "delIfb" /\ to = "uplink" /\ dev = "ifb0" /\ part = "root",
         Delete(w, from, to, dev, part)
  PROVE  IInv'
<1>1. Busy(w) /\ work[w] \in Tasks /\ work[w].step = from /\ iface \in Ifaces
  BY DEF Delete, Busy, Idle, IInv, WorkOK, StateOK
<1>2. StateOK'
  <2>1. root' \in [Devices -> [qdisc : {"none", "cake", "htb"}, rate : Nat, below : 0..4]]
    BY DEF Delete, IInv, StateOK, Bare, kernel
  <2>2. ingress' \in [Ifaces -> 0..2]
    BY <1>1 DEF Delete, IInv, StateOK, kernel
  <2>3. latest' \in [alone : BOOLEAN, faulty : BOOLEAN, ok : BOOLEAN]
    BY DEF Delete, IInv, StateOK
  <2>4. faults' \in 0..MaxFaults
    <3>1. faults \in 0..MaxFaults /\ (faults' = faults \/ (faults < MaxFaults /\ faults' = faults + 1))
      BY DEF Delete, Fault, IInv, StateOK
    <3> QED
      BY <3>1, Assumed
  <2> QED
    BY <2>1, <2>2, <2>3, <2>4 DEF Delete, IInv, StateOK, memory
<1>3. to \in Steps \ {"idle", "run", "downlink"}
  BY DEF Steps
<1> PICK y \in Tasks : /\ y = [work[w] EXCEPT !.step = to]
                       /\ y.step = to /\ y.cfg = work[w].cfg
                       /\ y.rate = work[w].rate /\ y.kind = work[w].kind
  BY <1>1, <1>3, Stepped
<1>4. work' = [work EXCEPT ![w] = y]
  BY DEF Delete, Step
<1>5. InPhase(w, y)
  BY <1>1 DEF IInv, Phases, InPhase, MainSteps
<1>6. latest'.alone = latest.alone /\ latest'.ok = latest.ok
  BY DEF Delete, IInv, StateOK
<1>7. ASSUME latest.alone PROVE OnTrack(y, w)'
  <2>1. OnTrack(work[w], w)
    BY <1>1, <1>7, LoneWorker
  <2>2. phase' # "stopping" => Configured(y, w)'
    BY <1>1, <2>1 DEF Delete, memory, OnTrack, Configured
  <2>3. Built(y)'
    BY DEF Built, AddsUplink, AddsDownlink
  <2>4. ASSUME ~latest'.faulty PROVE Cleared(y)'
    <3>1. /\ root' = IF part = "root" THEN [root EXCEPT ![dev] = Bare] ELSE root
          /\ ingress' = IF part = "ingress" THEN [ingress EXCEPT ![dev] = 0] ELSE ingress
          /\ latest' = latest /\ iface' = iface
      BY <2>4 DEF Delete, IInv, StateOK, memory
    <3>2. Cleared(work[w])
      BY <2>1, <2>4, <3>1 DEF OnTrack
    <3>3. iface \in Devices /\ "ifb0" \in Devices /\ iface # "ifb0"
      BY <1>1, Assumed DEF Devices
    <3>4. root \in [Devices -> [qdisc : {"none", "cake", "htb"}, rate : Nat, below : 0..4]]
          /\ ingress \in [Ifaces -> 0..2]
      BY DEF IInv, StateOK
    <3> QED
      BY <1>1, <3>1, <3>2, <3>3, <3>4 DEF Cleared, AddsUplink, AddsDownlink
  <2> QED
    BY <2>2, <2>3, <2>4 DEF OnTrack
<1> QED
  BY <1>1, <1>2, <1>4, <1>5, <1>6, <1>7, GoesOn DEF Delete, memory

LEMMA ClearStep ==
  ASSUME IInv, NEW w \in Workers, Clear(w)
  PROVE  IInv'
<1>1. iface \in Devices /\ "ifb0" \in Devices
  BY DEF IInv, StateOK, Devices
<1>2. PICK i : i = iface
  OBVIOUS
<1>3. CASE Delete(w, "delRoot", "delIngress", i, "root")
  BY <1>1, <1>2, <1>3, DeleteStep
<1>4. CASE Delete(w, "delIngress", "delIfb", i, "ingress")
  BY <1>1, <1>2, <1>4, DeleteStep
<1>5. CASE Delete(w, "delIfb", "uplink", "ifb0", "root")
  BY <1>1, <1>5, DeleteStep
<1>6. Clear(w) <=> \/ Delete(w, "delRoot", "delIngress", i, "root")
                   \/ Delete(w, "delIngress", "delIfb", i, "ingress")
                   \/ Delete(w, "delIfb", "uplink", "ifb0", "root")
  BY <1>2 DEF Clear, Delete
<1> QED
  BY <1>3, <1>4, <1>5, <1>6

LEMMA ApplyUplinkStep ==
  ASSUME IInv, NEW w \in Workers, ApplyUplink(w)
  PROVE  IInv'
<1>1. Busy(w) /\ work[w] \in Tasks /\ work[w].step = "uplink" /\ iface \in Ifaces
  BY DEF ApplyUplink, Busy, Idle, IInv, WorkOK, StateOK
<1>2. StateOK'
  BY DEF ApplyUplink, IInv, StateOK, memory, kernel
<1> DEFINE kind == Kind(tcConfig.qdisc)
           todo == Uplink(kind, iface, work[w].rate)
           t == [work[w] EXCEPT !.step = "run", !.kind = kind, !.next = "downlink", !.todo = todo]
<1>3. kind \in Kinds /\ work[w].rate \in Nat /\ work[w] \in TaskRecords /\ work[w].rate = work[w].cfg.rate
  BY <1>1, KindTyped DEF Tasks, TaskRecords
<1>4. todo \in Seq(Commands) /\ Len(todo) = UpLen(kind)
  BY <1>1, <1>3, UplinkShape
<1>5. work' = [work EXCEPT ![w] = t]
  BY DEF ApplyUplink
<1> HIDE DEF kind, todo
<1>6. UpLen(kind) \in {1, 5} /\ todo # <<>>
  <2>1. UpLen(kind) \in {1, 5}
    BY DEF UpLen
  <2>2. Len(todo) # 0
    BY <1>4, <2>1
  <2> QED
    BY <2>1, <2>2, EmptySeq
<1>7. /\ t \in TaskRecords /\ t.step = "run" /\ t.kind = kind /\ t.next = "downlink" /\ t.todo = todo
      /\ t.cfg = work[w].cfg /\ t.rate = work[w].rate
  BY <1>3, <1>4 DEF TaskRecords, Steps
<1> HIDE DEF t
<1>8. t \in Tasks
  BY <1>3, <1>6, <1>7 DEF Tasks
<1> PICK y \in Tasks : y = t
  BY <1>8
<1>9. ~(w = Main /\ phase = "stopping")
  BY DEF ApplyUplink
<1>10. InPhase(w, y)
  BY <1>1, <1>7, <1>9 DEF IInv, Phases, InPhase, MainSteps
<1>11. ASSUME latest.alone PROVE OnTrack(y, w)'
  <2>1. OnTrack(work[w], w) /\ phase # "stopping"
    BY <1>1, <1>9, <1>11, LoneWorker
  <2>2. tcConfig' = tcConfig /\ iface' = iface /\ latest' = latest /\ root' = root /\ ingress' = ingress
        /\ phase' = phase
    BY DEF ApplyUplink, memory, kernel
  <2>3. Configured(y, w)'
    BY <1>1, <1>7, <2>1, <2>2 DEF OnTrack, Configured, kind
  <2>4. AddsUplink(y) /\ ~AddsDownlink(y) /\ UpDone(y) = 0
    BY <1>4, <1>6, <1>7 DEF AddsUplink, AddsDownlink, UpDone, UpLen
  <2>5. Cleared(y)' <=> Cleared(y)
    BY <2>2 DEF Cleared, AddsUplink, AddsDownlink, UpDone, DownDone
  <2>6. ~latest.faulty => Cleared(y)
    BY <1>1, <1>7, <2>1, <2>4 DEF OnTrack, Cleared, AddsDownlink
  <2>7. Uplinks(y)' = todo
    BY <1>7, <2>2 DEF Uplinks, todo
  <2>8. Suffix(y.todo, todo)
    BY <1>4, <1>7, SuffixOfItself
  <2>9. Built(y)'
    BY <1>7, <2>4, <2>7, <2>8 DEF Built, AddsUplink, AddsDownlink, UpDone
  <2> QED
    BY <2>2, <2>3, <2>5, <2>6, <2>9 DEF OnTrack
<1> QED
  BY <1>1, <1>2, <1>5, <1>10, <1>11, GoesOn DEF ApplyUplink, memory

LEMMA ApplyDownlinkStep ==
  ASSUME IInv, NEW w \in Workers, ApplyDownlink(w)
  PROVE  IInv'
<1>1. Busy(w) /\ work[w] \in Tasks /\ work[w].step = "downlink" /\ iface \in Ifaces
  BY DEF ApplyDownlink, Busy, Idle, IInv, WorkOK, StateOK
<1>2. StateOK'
  BY DEF ApplyDownlink, IInv, StateOK, memory, kernel
<1>3. tcConfig' = tcConfig /\ iface' = iface /\ latest' = latest /\ root' = root /\ ingress' = ingress
      /\ phase' = phase /\ file' = file
  BY DEF ApplyDownlink, memory, kernel
<1>4. /\ work[w].kind \in Kinds /\ work[w].rate \in Nat /\ work[w] \in TaskRecords
      /\ work[w].rate = work[w].cfg.rate
  BY <1>1 DEF Tasks, TaskRecords
<1>5. InPhase(w, work[w])
  BY <1>1 DEF IInv, Phases
<1>6. CASE ShapesDownlink(work[w].kind, tcConfig)
  <2> DEFINE todo == Downlink(work[w].kind, iface, work[w].rate)
             t == [work[w] EXCEPT !.step = "run", !.next = "applied", !.todo = todo]
  <2>1. todo \in Seq(Commands) /\ Len(todo) = DownLen(work[w].kind)
    <3>1. work[w].kind \in Kinds /\ work[w].rate \in Nat
      BY <1>4
    <3>2. \A k \in Kinds, r \in Nat :
            Downlink(k, iface, r) \in Seq(Commands) /\ Len(Downlink(k, iface, r)) = DownLen(k)
      BY <1>1, DownlinkShape
    <3> QED
      BY <3>1, <3>2
  <2>2. work' = [work EXCEPT ![w] = t]
    BY <1>6 DEF ApplyDownlink
  <2> HIDE DEF todo
  <2>3. DownLen(work[w].kind) \in {3, 5} /\ todo # <<>>
    BY <2>1, EmptySeq DEF DownLen
  <2>4. /\ t \in TaskRecords /\ t.step = "run" /\ t.kind = work[w].kind /\ t.next = "applied" /\ t.todo = todo
        /\ t.cfg = work[w].cfg /\ t.rate = work[w].rate
    BY <1>4, <2>1 DEF TaskRecords, Steps
  <2> HIDE DEF t
  <2>5. t \in Tasks
    BY <1>4, <2>3, <2>4 DEF Tasks
  <2> PICK y \in Tasks : y = t
    BY <2>5
  <2>6. InPhase(w, y)
    BY <1>1, <1>5, <2>4 DEF InPhase, MainSteps
  <2>7. ASSUME latest.alone PROVE OnTrack(y, w)'
    <3>1. OnTrack(work[w], w)
      BY <1>1, <2>7, LoneWorker
    <3>2. phase' # "stopping" => Configured(y, w)'
      BY <1>1, <1>3, <2>4, <3>1 DEF OnTrack, Configured
    <3>3. AddsDownlink(y) /\ ~AddsUplink(y) /\ DownDone(y) = 0
      BY <2>1, <2>3, <2>4 DEF AddsUplink, AddsDownlink, DownDone
    <3>4. Cleared(y)' <=> Cleared(y)
      BY <1>3 DEF Cleared, AddsUplink, AddsDownlink, UpDone, DownDone
    <3>5. ~latest.faulty => Cleared(y)
      BY <1>1, <2>4, <3>1, <3>3 DEF OnTrack, Cleared, AddsUplink
    <3>6. Downlinks(y)' = todo
      BY <1>3, <2>4 DEF Downlinks, todo
    <3>7. Suffix(y.todo, todo)
      BY <2>1, <2>4, SuffixOfItself
    <3>8. root[iface] = [qdisc |-> y.kind, rate |-> y.rate, below |-> BelowUp(y.kind)]
      BY <1>1, <2>4, <3>1 DEF OnTrack, Built
    <3>9. Built(y)'
      BY <1>3, <2>4, <3>3, <3>6, <3>7, <3>8 DEF Built, AddsUplink, AddsDownlink, DownDone
    <3> QED
      BY <1>3, <3>2, <3>4, <3>5, <3>9 DEF OnTrack
  <2> QED
    BY <1>1, <1>2, <1>3, <2>2, <2>6, <2>7, GoesOn
<1>7. CASE ~ShapesDownlink(work[w].kind, tcConfig)
  <2> PICK y \in Tasks : /\ y = [work[w] EXCEPT !.step = "applied"]
                         /\ y.step = "applied" /\ y.cfg = work[w].cfg
                         /\ y.rate = work[w].rate /\ y.kind = work[w].kind
    BY <1>1, Stepped DEF Steps
  <2>1. work' = [work EXCEPT ![w] = y]
    BY <1>7 DEF ApplyDownlink
  <2>2. InPhase(w, y)
    BY <1>1, <1>5 DEF InPhase, MainSteps
  <2>3. ASSUME latest.alone PROVE OnTrack(y, w)'
    <3>1. OnTrack(work[w], w) /\ phase # "stopping"
      BY <1>1, <1>5, <2>3, LoneWorker DEF InPhase
    <3>2. Configured(y, w)'
      BY <1>1, <1>3, <3>1 DEF OnTrack, Configured
    <3>3. Cleared(y)'
      BY DEF Cleared, AddsUplink, AddsDownlink
    <3>4. /\ work[w].kind = Kind(tcConfig.qdisc) /\ work[w].rate = tcConfig.rate
          /\ root[iface] = [qdisc |-> work[w].kind, rate |-> work[w].rate, below |-> BelowUp(work[w].kind)]
      BY <1>1, <3>1 DEF OnTrack, Configured, Built
    <3>5. Installed(tcConfig, iface)
      BY <1>7, <3>4 DEF Installed, BelowUp
    <3>6. Built(y)'
      BY <1>3, <3>5 DEF Built, Installed, AddsUplink, AddsDownlink
    <3> QED
      BY <3>2, <3>3, <3>6 DEF OnTrack
  <2> QED
    BY <1>1, <1>2, <1>3, <2>1, <2>2, <2>3, GoesOn
<1> QED
  BY <1>6, <1>7

\* A command that is accepted, of a task that is alone.
LEMMA AcceptedUplink ==
  ASSUME StateOK, StateOK', NEW x \in Tasks, NEW y \in Tasks, AddsUplink(x), Built(x), ~latest.faulty => Cleared(x),
         y = [x EXCEPT !.todo = Tail(x.todo), !.step = IF Tail(x.todo) = <<>> THEN x.next ELSE "run"],
         Accepted(Head(x.todo)), Add(Head(x.todo)), memory' = memory, latest' = latest
  PROVE  Built(y)' /\ (~latest'.faulty => Cleared(y)')
<1> DEFINE n == UpDone(x)
<1>1. iface \in Ifaces /\ iface' = iface /\ iface \in Devices /\ iface # "ifb0"
  BY Assumed DEF StateOK, memory, Devices
<1>2. Suffix(x.todo, Uplinks(x))
  BY DEF Built
<1>3. /\ n \in 0..(UpLen(x.kind) - 1)
      /\ n = 0 => Head(x.todo) = [op |-> "root", dev |-> iface, kind |-> x.kind, rate |-> x.rate]
      /\ n >= 1 => x.kind = "htb" /\ Head(x.todo) = [op |-> "below", dev |-> iface, k |-> n]
      /\ Suffix(Tail(x.todo), Uplinks(x))
      /\ UpLen(x.kind) - Len(Tail(x.todo)) = n + 1
      /\ Tail(x.todo) = <<>> <=> n + 1 = UpLen(x.kind)
  BY <1>1, <1>2, UplinkCommand
<1>4. /\ x.next = "downlink" /\ x.step = "run"
      /\ y.todo = Tail(x.todo) /\ y.kind = x.kind /\ y.rate = x.rate /\ y.next = "downlink"
      /\ y.step = IF Tail(x.todo) = <<>> THEN "downlink" ELSE "run"
  BY DEF Tasks, TaskRecords, AddsUplink
<1>5. UpLen(x.kind) \in {1, 5} /\ BelowUp(x.kind) = UpLen(x.kind) - 1
  BY DEF UpLen, BelowUp
<1>6. UpDone(y) = n + 1
  BY <1>3, <1>4 DEF UpDone
<1>7. n >= 1 => root[iface] = [qdisc |-> x.kind, rate |-> x.rate, below |-> n - 1]
  BY DEF Built
<1>8. root \in [Devices -> [qdisc : {"none", "cake", "htb"}, rate : Nat, below : 0..4]]
  BY DEF StateOK
<1> HIDE DEF n
<1>9. /\ root'[iface] = [qdisc |-> x.kind, rate |-> x.rate, below |-> n]
      /\ root'["ifb0"] = root["ifb0"] /\ ingress' = ingress
  <2>1. CASE n = 0
    <3>1. /\ Head(x.todo).op = "root" /\ Head(x.todo).dev = iface
          /\ Head(x.todo).kind = x.kind /\ Head(x.todo).rate = x.rate
      BY <1>3, <2>1
    <3>2. root' = [root EXCEPT ![iface] = [qdisc |-> x.kind, rate |-> x.rate, below |-> 0]] /\ ingress' = ingress
      BY <3>1 DEF Add
    <3> QED
      BY <1>1, <1>8, <2>1, <3>2 DEF Devices
  <2>2. CASE n >= 1
    <3>1. Head(x.todo).op = "below" /\ Head(x.todo).dev = iface /\ Head(x.todo).k = n
      BY <1>3, <2>2
    <3>2. root' = [root EXCEPT ![iface].below = n] /\ ingress' = ingress
      BY <3>1 DEF Add
    <3> QED
      BY <1>1, <1>7, <1>8, <2>2, <3>2 DEF Devices
  <2> QED
    BY <1>3, <1>5, <2>1, <2>2
<1>10. (n + 1) - 1 = n /\ n + 1 # 0
  BY <1>3, <1>5
<1>11. CASE Tail(x.todo) = <<>>
  <2>1. y.step = "downlink" /\ n = BelowUp(x.kind)
    BY <1>3, <1>4, <1>5, <1>11
  <2>2. Built(y)'
    BY <1>1, <1>4, <1>9, <2>1 DEF Built, AddsUplink, AddsDownlink
  <2>3. ~latest'.faulty => Cleared(y)'
    BY <1>1, <1>9, <2>1 DEF Cleared, AddsUplink, AddsDownlink
  <2> QED
    BY <2>2, <2>3
<1>12. CASE Tail(x.todo) # <<>>
  <2>1. AddsUplink(y) /\ ~AddsDownlink(y) /\ y.step = "run"
    BY <1>4, <1>12 DEF AddsUplink, AddsDownlink
  <2>2. Uplinks(y)' = Uplinks(x)
    BY <1>1, <1>4 DEF Uplinks
  <2>3. UpDone(y)' = n + 1 /\ AddsUplink(y)' /\ ~AddsDownlink(y)'
    BY <1>6, <2>1 DEF UpDone, AddsUplink, AddsDownlink
  <2>4. Suffix(y.todo, Uplinks(y)')
    BY <1>3, <1>4, <2>2
  <2>5. root'[iface'] = [qdisc |-> y.kind, rate |-> y.rate, below |-> UpDone(y)' - 1]
    BY <1>1, <1>4, <1>9, <1>10, <2>3
  <2>6. Built(y)'
    BY <2>1, <2>3, <2>4, <2>5 DEF Built
  <2>7. ~latest'.faulty => Cleared(y)'
    BY <1>1, <1>9, <1>10, <2>1, <2>3 DEF Cleared, AddsUplink, AddsDownlink
  <2> QED
    BY <2>6, <2>7
<1> QED
  BY <1>11, <1>12

LEMMA AcceptedDownlink ==
  ASSUME StateOK, StateOK', NEW x \in Tasks, NEW y \in Tasks, AddsDownlink(x), Built(x), ~latest.faulty => Cleared(x),
         x.rate = tcConfig.rate, x.kind = Kind(tcConfig.qdisc),
         y = [x EXCEPT !.todo = Tail(x.todo), !.step = IF Tail(x.todo) = <<>> THEN x.next ELSE "run"],
         Accepted(Head(x.todo)), Add(Head(x.todo)), memory' = memory, latest' = latest
  PROVE  Built(y)' /\ (~latest'.faulty => Cleared(y)')
<1> DEFINE n == DownDone(x)
<1>1. iface \in Ifaces /\ iface' = iface /\ tcConfig' = tcConfig /\ iface \in Devices /\ "ifb0" \in Devices /\ iface # "ifb0"
  BY Assumed DEF StateOK, memory, Devices
<1>2. Suffix(x.todo, Downlinks(x))
  BY DEF Built
<1>3. /\ n \in 0..(DownLen(x.kind) - 1)
      /\ n <= 1 => Head(x.todo) = [op |-> "ingress", dev |-> iface, k |-> n + 1]
      /\ n = 2 => Head(x.todo) = [op |-> "root", dev |-> "ifb0", kind |-> x.kind, rate |-> x.rate]
      /\ n >= 3 => x.kind = "htb" /\ Head(x.todo) = [op |-> "below", dev |-> "ifb0", k |-> n - 2]
      /\ Suffix(Tail(x.todo), Downlinks(x))
      /\ DownLen(x.kind) - Len(Tail(x.todo)) = n + 1
      /\ Tail(x.todo) = <<>> <=> n + 1 = DownLen(x.kind)
  BY <1>1, <1>2, DownlinkCommand
<1>4. /\ x.next = "applied" /\ x.step = "run"
      /\ y.todo = Tail(x.todo) /\ y.kind = x.kind /\ y.rate = x.rate /\ y.next = "applied"
      /\ y.step = IF Tail(x.todo) = <<>> THEN "applied" ELSE "run"
  BY DEF Tasks, TaskRecords, AddsDownlink
<1>5. DownLen(x.kind) = IF x.kind = "htb" THEN 5 ELSE 3
  BY DEF DownLen
<1>6. DownDone(y) = n + 1
  BY <1>3, <1>4 DEF DownDone
<1>7. /\ root[iface] = [qdisc |-> x.kind, rate |-> x.rate, below |-> BelowUp(x.kind)]
      /\ n >= 1 => ingress[iface] = IF n = 1 THEN 1 ELSE 2
      /\ n >= 3 => root["ifb0"] = [qdisc |-> x.kind, rate |-> x.rate, below |-> n - 3]
  BY DEF Built
<1>8. /\ root \in [Devices -> [qdisc : {"none", "cake", "htb"}, rate : Nat, below : 0..4]]
      /\ ingress \in [Ifaces -> 0..2]
  BY DEF StateOK
<1>9. ~latest.faulty /\ n <= 2 => root["ifb0"] = Bare
  BY DEF Cleared
<1> HIDE DEF n
<1>10. n \in 0..4
  BY <1>3, <1>5
<1>11. /\ root'[iface] = root[iface]
       /\ ingress'[iface] = IF n = 0 THEN 1 ELSE 2
       /\ n >= 2 => root'["ifb0"] = [qdisc |-> x.kind, rate |-> x.rate, below |-> n - 2]
       /\ n <= 1 => root' = root
  <2>1. CASE n <= 1
    <3>1. root' = root /\ ingress' = [ingress EXCEPT ![iface] = n + 1]
      <4>1. Head(x.todo).op = "ingress" /\ Head(x.todo).dev = iface /\ Head(x.todo).k = n + 1
        BY <1>3, <2>1
      <4> QED
        BY <4>1 DEF Add
    <3>2. n = 0 \/ n = 1
      BY <1>10, <2>1
    <3> QED
      BY <1>1, <1>8, <3>1, <3>2
  <2>2. CASE n = 2
    <3>1. /\ root' = [root EXCEPT !["ifb0"] = [qdisc |-> x.kind, rate |-> x.rate, below |-> 0]]
          /\ ingress' = ingress
      <4>1. /\ Head(x.todo).op = "root" /\ Head(x.todo).dev = "ifb0"
            /\ Head(x.todo).kind = x.kind /\ Head(x.todo).rate = x.rate
        BY <1>3, <2>2
      <4> QED
        BY <4>1 DEF Add
    <3> QED
      BY <1>1, <1>7, <1>8, <2>2, <3>1
  <2>3. CASE n >= 3
    <3>1. Head(x.todo).op = "below" /\ Head(x.todo).dev = "ifb0" /\ Head(x.todo).k = n - 2
      BY <1>3, <2>3
    <3>2. root' = [root EXCEPT !["ifb0"].below = n - 2] /\ ingress' = ingress
      BY <3>1 DEF Add
    <3> QED
      BY <1>1, <1>7, <1>8, <1>10, <2>3, <3>2
  <2> QED
    BY <1>10, <2>1, <2>2, <2>3
<1>12. CASE Tail(x.todo) = <<>>
  <2>1. y.step = "applied" /\ n = IF x.kind = "htb" THEN 4 ELSE 2
    BY <1>3, <1>4, <1>5, <1>10, <1>12
  <2>2. root'["ifb0"] = [qdisc |-> x.kind, rate |-> x.rate, below |-> IF x.kind = "htb" THEN 2 ELSE 0]
    BY <1>11, <2>1
  <2>3. ingress'[iface] = 2
    BY <1>11, <2>1
  <2>4. root'[iface] = [qdisc |-> x.kind, rate |-> x.rate, below |-> IF x.kind = "htb" THEN 4 ELSE 0]
    BY <1>7, <1>11 DEF BelowUp
  <2>5. Installed(tcConfig, iface)'
    BY <1>1, <2>2, <2>3, <2>4 DEF Installed
  <2>6. Built(y)' /\ Cleared(y)'
    BY <1>1, <2>1, <2>5 DEF Built, Cleared, AddsUplink, AddsDownlink
  <2> QED
    BY <2>6
<1>13. CASE Tail(x.todo) # <<>>
  <2>1. AddsDownlink(y) /\ ~AddsUplink(y) /\ y.step = "run"
    BY <1>4, <1>13 DEF AddsUplink, AddsDownlink
  <2>2. Downlinks(y)' = Downlinks(x)
    BY <1>1, <1>4 DEF Downlinks
  <2>3. DownDone(y)' = n + 1 /\ AddsDownlink(y)' /\ ~AddsUplink(y)'
    BY <1>6, <2>1 DEF DownDone, AddsUplink, AddsDownlink
  <2>4. Suffix(y.todo, Downlinks(y)')
    BY <1>3, <1>4, <2>2
  <2>5. ingress'[iface'] = IF DownDone(y)' = 1 THEN 1 ELSE 2
    BY <1>1, <1>10, <1>11, <2>3
  <2>6. DownDone(y)' >= 3 => root'["ifb0"] = [qdisc |-> y.kind, rate |-> y.rate, below |-> DownDone(y)' - 3]
    <3>1. n + 1 >= 3 => n >= 2 /\ (n + 1) - 3 = n - 2
      BY <1>10
    <3> QED
      BY <1>4, <1>11, <2>3, <3>1
  <2>7. root'[iface'] = [qdisc |-> y.kind, rate |-> y.rate, below |-> BelowUp(y.kind)]
    BY <1>1, <1>4, <1>7, <1>11
  <2>8. Built(y)'
    BY <2>1, <2>3, <2>4, <2>5, <2>6, <2>7 DEF Built
  <2>9. ~latest'.faulty /\ DownDone(y)' <= 2 => root'["ifb0"] = Bare
    BY <1>9, <1>10, <1>11, <2>3
  <2>10. ~latest'.faulty => Cleared(y)'
    BY <1>10, <2>1, <2>3, <2>9 DEF Cleared, Bare
  <2> QED
    BY <2>8, <2>10
<1> QED
  BY <1>12, <1>13

\* After Clear the kernel accepts whatever comes next.
LEMMA NextIsAccepted ==
  ASSUME StateOK, NEW x \in Tasks, x.step = "run", Built(x), Cleared(x)
  PROVE  Accepted(Head(x.todo))
<1>1. iface \in Ifaces /\ x.next \in {"downlink", "applied"}
  BY DEF StateOK, Tasks, TaskRecords
<1>2. CASE AddsUplink(x)
  <2> DEFINE n == UpDone(x)
  <2>1. /\ n \in 0..(UpLen(x.kind) - 1)
        /\ n = 0 => Head(x.todo) = [op |-> "root", dev |-> iface, kind |-> x.kind, rate |-> x.rate]
        /\ n >= 1 => x.kind = "htb" /\ Head(x.todo) = [op |-> "below", dev |-> iface, k |-> n]
    BY <1>1, <1>2, UplinkCommand DEF Built
  <2>2. n = 0 => root[iface] = Bare
    BY <1>2 DEF Cleared
  <2>3. n >= 1 => root[iface] = [qdisc |-> x.kind, rate |-> x.rate, below |-> n - 1]
    BY <1>2 DEF Built
  <2>4. UpLen(x.kind) \in {1, 5}
    BY DEF UpLen
  <2> HIDE DEF n
  <2>5. CASE n = 0
    BY <2>1, <2>2, <2>5 DEF Accepted, Bare
  <2>6. CASE n >= 1
    BY <2>1, <2>3, <2>6 DEF Accepted
  <2> QED
    BY <2>1, <2>4, <2>5, <2>6
<1>3. CASE AddsDownlink(x)
  <2> DEFINE n == DownDone(x)
  <2>1. /\ n \in 0..(DownLen(x.kind) - 1)
        /\ n <= 1 => Head(x.todo) = [op |-> "ingress", dev |-> iface, k |-> n + 1]
        /\ n = 2 => Head(x.todo) = [op |-> "root", dev |-> "ifb0", kind |-> x.kind, rate |-> x.rate]
        /\ n >= 3 => x.kind = "htb" /\ Head(x.todo) = [op |-> "below", dev |-> "ifb0", k |-> n - 2]
    BY <1>1, <1>3, DownlinkCommand DEF Built
  <2>2. /\ n = 0 => ingress[iface] = 0
        /\ n <= 2 => root["ifb0"] = Bare
    BY <1>3 DEF Cleared
  <2>3. /\ n >= 1 => ingress[iface] = IF n = 1 THEN 1 ELSE 2
        /\ n >= 3 => root["ifb0"] = [qdisc |-> x.kind, rate |-> x.rate, below |-> n - 3]
    BY <1>3 DEF Built
  <2>4. DownLen(x.kind) \in {3, 5}
    BY DEF DownLen
  <2> HIDE DEF n
  <2>5. n \in 0..4
    BY <2>1, <2>4
  <2>6. CASE n <= 1
    <3>1. ingress[iface] = n
      BY <2>2, <2>3, <2>5, <2>6
    <3>2. Head(x.todo).op = "ingress" /\ Head(x.todo).dev = iface /\ Head(x.todo).k = n + 1
      BY <2>1, <2>6
    <3> QED
      BY <2>5, <3>1, <3>2 DEF Accepted
  <2>7. CASE n = 2
    BY <2>1, <2>2, <2>7 DEF Accepted, Bare
  <2>8. CASE n >= 3
    <3>1. Head(x.todo).op = "below" /\ Head(x.todo).dev = "ifb0" /\ Head(x.todo).k = n - 2
      BY <2>1, <2>8
    <3>2. root["ifb0"].qdisc = "htb" /\ root["ifb0"].below = n - 3
      BY <2>1, <2>3, <2>8
    <3> QED
      BY <2>5, <3>1, <3>2 DEF Accepted
  <2> QED
    BY <2>5, <2>6, <2>7, <2>8
<1> QED
  BY <1>1, <1>2, <1>3 DEF AddsUplink, AddsDownlink

LEMMA RunTyped ==
  ASSUME IInv, NEW w \in Workers, Run(w)
  PROVE  /\ Busy(w) /\ work[w] \in Tasks /\ work[w].step = "run" /\ work[w].next \in {"downlink", "applied"}
         /\ work[w].todo \in Seq(Commands) /\ work[w].todo # <<>> /\ Head(work[w].todo) \in Commands
         /\ StateOK'
<1>1. Busy(w) /\ work[w] \in Tasks /\ work[w].step = "run"
  BY DEF Run, Busy, Idle, IInv, WorkOK
<1>2. work[w].todo \in Seq(Commands) /\ work[w].todo # <<>> /\ work[w].next \in {"downlink", "applied"}
  BY <1>1 DEF Tasks, TaskRecords
<1>3. Head(work[w].todo) \in Commands
  BY <1>2, HeadTailProperties
<1> DEFINE c == Head(work[w].todo)
<1>4. \/ Accepted(c) /\ Add(c) /\ UNCHANGED <<faults, latest>>
      \/ UNCHANGED <<kernel, faults, latest>>
      \/ Fault /\ latest' = [latest EXCEPT !.faulty = TRUE] /\ UNCHANGED kernel
  BY DEF Run
<1>5. c \in Commands
  BY <1>3
<1> HIDE DEF c
<1>6. root' \in [Devices -> [qdisc : {"none", "cake", "htb"}, rate : Nat, below : 0..4]]
  <2>1. CASE Add(c)
    <3>1. CASE c.op = "root"
      <4>1. [qdisc |-> c.kind, rate |-> c.rate, below |-> 0]
              \in [qdisc : {"none", "cake", "htb"}, rate : Nat, below : 0..4]
        BY <1>5, <3>1 DEF Commands, Kinds
      <4>2. root' = [root EXCEPT ![c.dev] = [qdisc |-> c.kind, rate |-> c.rate, below |-> 0]]
        BY <2>1, <3>1 DEF Add
      <4> QED
        BY <4>1, <4>2 DEF IInv, StateOK
    <3>2. CASE c.op = "below"
      <4>1. c.k \in 0..4 /\ c.dev \in Devices
        BY <1>5, <3>2 DEF Commands
      <4>2. root' = [root EXCEPT ![c.dev].below = c.k]
        BY <2>1, <3>2 DEF Add
      <4> QED
        BY <4>1, <4>2 DEF IInv, StateOK
    <3>3. CASE c.op # "root" /\ c.op # "below"
      BY <2>1, <3>3 DEF Add, IInv, StateOK
    <3> QED
      BY <3>1, <3>2, <3>3
  <2>2. CASE UNCHANGED kernel
    BY <2>2 DEF kernel, IInv, StateOK
  <2> QED
    BY <1>4, <2>1, <2>2
<1>7. ingress' \in [Ifaces -> 0..2]
  <2>1. CASE Add(c)
    <3>1. c.op = "ingress" => c.k \in 0..2
      BY <1>5 DEF Commands
    <3>2. ingress' = IF c.op = "ingress" THEN [ingress EXCEPT ![c.dev] = c.k] ELSE ingress
      BY <2>1 DEF Add
    <3> QED
      BY <3>1, <3>2 DEF IInv, StateOK
  <2>2. CASE UNCHANGED kernel
    BY <2>2 DEF kernel, IInv, StateOK
  <2> QED
    BY <1>4, <2>1, <2>2
<1>8. latest' \in [alone : BOOLEAN, faulty : BOOLEAN, ok : BOOLEAN]
  BY <1>4 DEF IInv, StateOK
<1>9. faults' \in 0..MaxFaults
  <2>1. faults \in 0..MaxFaults /\ (faults' = faults \/ (faults < MaxFaults /\ faults' = faults + 1))
    BY <1>4 DEF Fault, IInv, StateOK
  <2> QED
    BY <2>1, Assumed
<1>10. StateOK'
  BY <1>6, <1>7, <1>8, <1>9 DEF Run, IInv, StateOK, memory
<1> QED
  BY <1>1, <1>2, <1>3, <1>10

LEMMA RunStep ==
  ASSUME IInv, NEW w \in Workers, Run(w)
  PROVE  IInv'
<1>1. /\ Busy(w) /\ work[w] \in Tasks /\ work[w].step = "run" /\ work[w].next \in {"downlink", "applied"}
      /\ work[w].todo \in Seq(Commands) /\ work[w].todo # <<>>
      /\ StateOK'
  BY RunTyped
<1>2. PICK x \in Tasks : x = work[w]
  BY <1>1
<1>3. InPhase(w, x) /\ phase' = phase /\ memory' = memory /\ file' = file /\ iface' = iface /\ tcConfig' = tcConfig
  BY <1>1, <1>2 DEF IInv, Phases, Run, memory
<1>4. phase # "stopping" \/ w # Main
  BY <1>1, <1>2, <1>3 DEF InPhase
<1>5. CASE /\ Accepted(Head(x.todo)) /\ Add(Head(x.todo)) /\ latest' = latest
           /\ work' = [work EXCEPT ![w].todo = Tail(x.todo),
                                   ![w].step = IF Tail(x.todo) = <<>> THEN x.next ELSE "run"]
  <2> DEFINE t == [x EXCEPT !.todo = Tail(x.todo), !.step = IF Tail(x.todo) = <<>> THEN x.next ELSE "run"]
             rest == Tail(x.todo)
  <2>1. rest \in Seq(Commands)
    BY <1>1, <1>2, HeadTailProperties
  <2>2. work' = [work EXCEPT ![w] = t]
    BY <1>2, <1>5 DEF IInv, WorkOK
  <2>3. x \in TaskRecords /\ x.rate = x.cfg.rate /\ x.kind \in Kinds /\ x.step = "run" /\ x.next \in {"downlink", "applied"}
    BY <1>1, <1>2 DEF Tasks
  <2> HIDE DEF rest
  <2>4. /\ t \in TaskRecords /\ t.todo = rest /\ t.step = IF rest = <<>> THEN x.next ELSE "run"
        /\ t.kind = x.kind /\ t.next = x.next /\ t.cfg = x.cfg /\ t.rate = x.rate
    BY <2>1, <2>3 DEF TaskRecords, Steps, rest
  <2> HIDE DEF t
  <2>5. t \in Tasks
    BY <2>3, <2>4 DEF Tasks
  <2> PICK y \in Tasks : y = t
    BY <2>5
  <2>6. InPhase(w, y)
    BY <1>3, <1>4, <2>3, <2>4 DEF InPhase, MainSteps
  <2>7. ASSUME latest.alone PROVE OnTrack(y, w)'
    <3>1. OnTrack(x, w) /\ phase # "stopping"
      BY <1>1, <1>2, <1>4, <2>7, LoneWorker
    <3>2. /\ Configured(x, w) /\ Built(x) /\ (~latest.faulty => Cleared(x)) /\ StateOK
          /\ x.rate = tcConfig.rate /\ x.kind = Kind(tcConfig.qdisc)
      BY <2>3, <3>1 DEF OnTrack, Configured, IInv
    <3>3. Configured(y, w)'
      BY <1>3, <2>3, <2>4, <3>2 DEF Configured
    <3>4. CASE x.next = "downlink"
      <4>1. Built(y)' /\ (~latest'.faulty => Cleared(y)')
        BY <1>1, <1>3, <1>5, <2>3, <3>2, <3>4, AcceptedUplink DEF AddsUplink, t
      <4> QED
        BY <3>3, <4>1 DEF OnTrack
    <3>5. CASE x.next = "applied"
      <4>1. Built(y)' /\ (~latest'.faulty => Cleared(y)')
        BY <1>1, <1>3, <1>5, <2>3, <3>2, <3>5, AcceptedDownlink DEF AddsDownlink, t
      <4> QED
        BY <3>3, <4>1 DEF OnTrack
    <3> QED
      BY <2>3, <3>4, <3>5
  <2> QED
    BY <1>1, <1>3, <1>5, <2>2, <2>6, <2>7, GoesOn
<1>6. CASE /\ work' = [work EXCEPT ![w].step = "failed"] /\ kernel' = kernel
           /\ latest'.alone = latest.alone /\ latest'.ok = latest.ok
           /\ latest'.faulty \/ (~Accepted(Head(x.todo)) /\ latest' = latest)
  <2> PICK y \in Tasks : /\ y = [x EXCEPT !.step = "failed"]
                         /\ y.step = "failed" /\ y.cfg = x.cfg
                         /\ y.rate = x.rate /\ y.kind = x.kind
    BY Stepped DEF Steps
  <2>1. work' = [work EXCEPT ![w] = y]
    BY <1>2, <1>6
  <2>2. InPhase(w, y)
    BY <1>1, <1>2, <1>3, <1>4 DEF InPhase, MainSteps
  <2>3. ASSUME latest.alone PROVE OnTrack(y, w)'
    <3>1. OnTrack(x, w) /\ phase # "stopping"
      BY <1>1, <1>2, <1>4, <2>3, LoneWorker
    <3>2. Configured(y, w)'
      BY <1>1, <1>2, <1>3, <3>1 DEF OnTrack, Configured
    <3>3. Built(y)'
      BY DEF Built, AddsUplink, AddsDownlink
    <3>4. latest'.faulty
      BY <1>1, <1>2, <1>6, <3>1, NextIsAccepted DEF OnTrack, IInv
    <3> QED
      BY <3>2, <3>3, <3>4 DEF OnTrack
  <2> QED
    BY <1>1, <1>3, <1>6, <2>1, <2>2, <2>3, GoesOn
<1> QED
  BY <1>2, <1>5, <1>6 DEF Run, Step, IInv, StateOK

LEMMA SaveStep ==
  ASSUME IInv, NEW a \in Admins, Save(a)
  PROVE  IInv'
<1>1. a \in Workers /\ a # Main /\ Busy(a) /\ work[a] \in Tasks /\ work[a].cfg \in Settings
  BY Assumed DEF Save, Busy, Idle, Workers, IInv, WorkOK, Tasks, TaskRecords
<1>2. InPhase(a, work[a]) /\ phase # "starting"
  BY <1>1 DEF IInv, Phases, InPhase
<1>3. CASE work[a].step = "applied" /\ file' = None /\ Step(a, "write")
           /\ UNCHANGED <<phase, up, memory, kernel, requests, faults, latest>>
  <2> PICK y \in Tasks : /\ y = [work[a] EXCEPT !.step = "write"]
                         /\ y.step = "write" /\ y.cfg = work[a].cfg
                         /\ y.rate = work[a].rate /\ y.kind = work[a].kind
    BY SMTT(30), <1>1, Stepped DEF Steps
  <2>1. StateOK'
    BY <1>3 DEF IInv, StateOK, memory, kernel
  <2>2. InPhase(a, y)
    BY <1>1, <1>2 DEF InPhase
  <2>3. ASSUME latest.alone PROVE OnTrack(y, a)'
    <3>1. OnTrack(work[a], a)
      BY <1>1, <2>3, LoneWorker
    <3>2. phase' # "stopping" => Configured(y, a)'
      BY <1>3, <3>1 DEF OnTrack, Configured, memory
    <3>3. Installed(tcConfig, iface)'
      BY <1>3, <3>1 DEF OnTrack, Built, Installed, memory, kernel
    <3>4. Built(y)' /\ Cleared(y)'
      BY <3>3 DEF Built, Cleared, AddsUplink, AddsDownlink
    <3> QED
      BY <3>2, <3>4 DEF OnTrack
  <2> QED
    BY <1>1, <1>2, <1>3, <2>1, <2>2, <2>3, GoesOn DEF Step, memory
<1>4. CASE /\ work[a].step = "write" /\ work' = [work EXCEPT ![a] = Idle]
           /\ UNCHANGED <<phase, up, memory, kernel, requests>>
           /\ file' = work[a].cfg /\ latest' = [latest EXCEPT !.ok = TRUE] /\ UNCHANGED faults
  <2>1. StateOK' /\ latest'.alone = latest.alone
    BY <1>1, <1>4 DEF IInv, StateOK, memory, kernel
  <2>2. ASSUME phase = "serving", latest.alone
        PROVE  /\ tcConfig.iface = iface /\ Installed(tcConfig, iface)
               /\ work[a].cfg = tcConfig
    BY <1>1, <1>4, <2>2, LoneWorker DEF OnTrack, Configured, Built
  <2>3. ASSUME work[a].cfg = tcConfig PROVE Load'.rate = tcConfig.rate /\ Load'.ingress = tcConfig.ingress
    BY <1>1, <1>4, <2>3, Assumed DEF Load, Settings
  <2>4. tcConfig' = tcConfig /\ iface' = iface /\ phase' = phase /\ root' = root /\ ingress' = ingress
    BY <1>4 DEF memory, kernel
  <2>5. InForce'
    BY <2>1, <2>2, <2>3, <2>4 DEF InForce, Installed
  <2> QED
    BY <1>1, <1>4, <2>1, <2>5, End
<1>5. CASE /\ work[a].step = "write" /\ work' = [work EXCEPT ![a] = Idle]
           /\ UNCHANGED <<phase, up, memory, kernel, requests>>
           /\ Fault /\ UNCHANGED <<file, latest>>
  <2>1. faults' \in 0..MaxFaults
    BY <1>5, Assumed DEF Fault, IInv, StateOK
  <2>2. StateOK'
    BY <1>5, <2>1 DEF IInv, StateOK, memory, kernel
  <2>3. InForce'
    BY <1>1, <1>5, EndUnfinished
  <2> QED
    BY <1>1, <1>5, <2>2, <2>3, End
<1> QED
  BY <1>3, <1>4, <1>5 DEF Save

LEMMA RevertStep ==
  ASSUME IInv, NEW a \in Admins, Revert(a)
  PROVE  IInv'
<1>1. a \in Workers /\ a # Main /\ Busy(a) /\ work[a] \in Tasks /\ work[a].oldIface \in Ifaces
  BY Assumed DEF Revert, Busy, Idle, Workers, IInv, WorkOK, Tasks, TaskRecords
<1>2. StateOK'
  BY <1>1 DEF Revert, IInv, StateOK, kernel
<1>3. InForce'
  BY <1>1, EndUnfinished DEF Revert
<1> QED
  BY <1>1, <1>2, <1>3, End DEF Revert

LEMMA ApplyStep ==
  ASSUME IInv, NEW w \in Workers, Apply(w)
  PROVE  IInv'
<1> QED
  BY ClearStep, ApplyUplinkStep, ApplyDownlinkStep, RunStep DEF Apply

LEMMA ServeStep ==
  ASSUME IInv, NEW a \in Admins, Serve(a)
  PROVE  IInv'
<1> QED
  BY ValidateStep, SetStep, ApplyStep, SaveStep, RevertStep DEF Serve, Workers


LEMMA InitEstablishes == Init => IInv
<1> SUFFICES ASSUME Init PROVE IInv
  OBVIOUS
<1>1. Default \in Settings /\ Default.iface \in Ifaces
  BY Assumed DEF Settings
<1>2. Bare \in [qdisc : {"none", "cake", "htb"}, rate : Nat, below : 0..4]
  BY DEF Bare
<1>3. StateOK
  BY <1>1, <1>2, Assumed DEF Init, StateOK
<1>4. WorkOK /\ \A w \in Workers : ~Busy(w)
  BY DEF Init, WorkOK, Busy
<1> QED
  BY <1>3, <1>4 DEF IInv, Init, Phases, Solo, Restored, Progress, InForce

LEMMA RequestStep ==
  ASSUME IInv, NEW a \in Admins, NEW c \in Configs, Request(a, c)
  PROVE  IInv'
<1>1. a \in Workers /\ ~Busy(a) /\ phase = "serving" /\ phase' = phase /\ c \in Settings /\ iface \in Ifaces
  BY Assumed DEF Request, Workers, IInv, StateOK
<1>2. PICK y \in Tasks : y = Task(c, "validate") /\ y.step = "validate"
  <2>1. PICK y \in Tasks : y = [Task(c, "validate") EXCEPT !.oldIface = iface] /\ y.step = "validate"
    BY <1>1, TaskTyped
  <2> QED
    BY <2>1 DEF Task
<1>3. work' = [work EXCEPT ![a] = y]
  BY <1>2 DEF Request
<1>4. requests' \in 0..MaxRequests
  BY Assumed DEF Request, IInv, StateOK
<1>5. latest' \in [alone : BOOLEAN, faulty : BOOLEAN, ok : BOOLEAN]
  BY DEF Request, Begins
<1>6. StateOK'
  BY <1>4, <1>5 DEF Request, IInv, StateOK, memory, kernel
<1>7. Phases'
  <2>1. \A v \in Workers : v # a => work'[v] = work[v]
    BY <1>3 DEF IInv, WorkOK
  <2>2. a # Main
    BY Assumed
  <2> QED
    BY <1>1, <2>1, <2>2 DEF IInv, Phases, InPhase, Busy
<1> QED
  BY <1>1, <1>2, <1>3, <1>6, <1>7, Begin DEF Request, Restored

\* Before main starts nobody works.
LEMMA StartStep == ASSUME IInv, Start PROVE IInv'
<1>1. Main \in Workers /\ phase = "down" /\ phase' = "starting" /\ iface \in Ifaces /\ Load \in Settings
  BY LoadTyped DEF Start, Workers, IInv, StateOK
<1>2. \A w \in Workers : ~Busy(w)
  BY <1>1 DEF IInv, Phases, InPhase, Workers
<1>3. PICK i \in Ifaces : /\ iface' = i /\ tcConfig' = [Load EXCEPT !.iface = i]
                          /\ work' = [work EXCEPT ![Main] = [Task(Load, "delRoot") EXCEPT !.oldIface = i]]
  BY <1>1 DEF Start, StartInterfaces, Settings
<1>4. PICK c \in Settings : c = Load
  BY <1>1
<1>5. PICK y \in Tasks : /\ y = [Task(c, "delRoot") EXCEPT !.oldIface = i]
                         /\ y.step = "delRoot" /\ y.rate = c.rate
  BY <1>1, TaskTyped
<1>6. work' = [work EXCEPT ![Main] = y]
  BY <1>3, <1>4, <1>5
<1>7. /\ tcConfig' \in Settings /\ tcConfig'.iface = i
      /\ tcConfig'.rate = c.rate /\ tcConfig'.ingress = c.ingress
  BY <1>3, <1>4 DEF Settings
<1>8. latest' \in [alone : BOOLEAN, faulty : BOOLEAN, ok : BOOLEAN]
  BY DEF Start, Begins
<1>9. StateOK'
  BY <1>1, <1>3, <1>7, <1>8 DEF Start, IInv, StateOK, kernel
<1>10. Phases'
  <2>1. /\ \A v \in Workers \ {Main} : work'[v] = work[v]
        /\ work'[Main] = y /\ y # Idle
    BY <1>1, <1>5, <1>6 DEF IInv, WorkOK, Idle
  <2> QED
    BY <1>1, <1>2, <1>5, <2>1, Assumed DEF Phases, InPhase, Busy, MainSteps
<1>11. Restored'
  BY <1>4, <1>7 DEF Start, Restored, Load
<1>12. Configured(y, Main)'
  BY <1>3, <1>5, <1>7, Assumed DEF Configured
<1> QED
  BY <1>1, <1>2, <1>5, <1>6, <1>9, <1>10, <1>11, <1>12, Begin DEF Start

\* The restoration's Apply ends; if it was alone its setting is the one of the file.
LEMMA StartedStep == ASSUME IInv, Started PROVE IInv'
<1>1. /\ Main \in Workers /\ phase = "starting" /\ phase' = "serving"
      /\ Busy(Main) /\ work' = [work EXCEPT ![Main] = Idle]
  BY DEF Started, Workers, Busy, Idle
<1>2. \A w \in Workers : Busy(w) => w = Main
  BY <1>1 DEF IInv, Phases, InPhase, Workers
<1>3. WorkOK' /\ \A w \in Workers : ~Busy(w)'
  BY <1>1, <1>2 DEF IInv, WorkOK, Busy
<1>4. StateOK'
  BY DEF Started, IInv, StateOK, memory, kernel
<1>5. latest'.alone = latest.alone /\ (latest'.ok => work[Main].step = "applied")
  BY DEF Started, IInv, StateOK
<1>6. ASSUME latest.alone, work[Main].step = "applied"
      PROVE  tcConfig.iface = iface /\ Installed(tcConfig, iface)
  BY <1>1, <1>6, LoneWorker DEF OnTrack, Configured, Built
<1>7. Load.rate = tcConfig.rate /\ Load.ingress = tcConfig.ingress
  BY <1>1 DEF IInv, Restored
<1>8. UNCHANGED <<iface, tcConfig, file, root, ingress>>
  BY DEF Started, memory, kernel
<1>9. InForce'
  BY <1>5, <1>6, <1>7, <1>8 DEF InForce, Installed, Load
<1> QED
  BY <1>1, <1>3, <1>4, <1>9 DEF IInv, Phases, Solo, Restored, Progress

\* The deferred Clear of main begins; requests may go on beside it.
LEMMA StopStep == ASSUME IInv, Stop PROVE IInv'
<1>1. /\ Main \in Workers /\ phase = "serving" /\ phase' = "stopping"
      /\ iface \in Ifaces /\ tcConfig \in Settings
  BY DEF Stop, Workers, IInv, StateOK
<1>2. ~Busy(Main)
  BY <1>1 DEF IInv, Phases, InPhase
<1>3. PICK c \in Settings : c = tcConfig
  BY <1>1
<1>4. PICK y \in Tasks : y = Task(c, "delRoot") /\ y.step = "delRoot"
  <2>1. PICK y \in Tasks : y = [Task(c, "delRoot") EXCEPT !.oldIface = iface] /\ y.step = "delRoot"
    BY <1>1, TaskTyped
  <2> QED
    BY <2>1 DEF Task
<1>5. work' = [work EXCEPT ![Main] = y]
  BY <1>3, <1>4 DEF Stop
<1>6. faults' \in 0..MaxFaults /\ latest' \in [alone : BOOLEAN, faulty : BOOLEAN, ok : BOOLEAN]
  BY Assumed DEF Stop, Fault, Begins, IInv, StateOK
<1>7. StateOK'
  BY <1>6 DEF Stop, IInv, StateOK, memory, kernel
<1>8. Phases'
  <2>1. /\ \A v \in Workers \ {Main} : work'[v] = work[v]
        /\ work'[Main] = y /\ y # Idle
    BY <1>1, <1>4, <1>5 DEF IInv, WorkOK, Idle
  <2> QED
    BY <1>1, <1>4, <2>1, Assumed DEF IInv, Phases, InPhase, Busy, MainSteps
<1> QED
  BY <1>1, <1>2, <1>4, <1>5, <1>7, <1>8, Begin DEF Stop, Restored

LEMMA DownStep ==
  ASSUME IInv, Down, faults' \in 0..MaxFaults
  PROVE  IInv'
<1>1. StateOK'
  BY DEF Down, IInv, StateOK, memory, kernel
<1>2. WorkOK' /\ \A w \in Workers : ~Busy(w)'
  BY DEF Down, WorkOK, Busy
<1>3. phase' = "down"
  BY DEF Down
<1> QED
  BY <1>1, <1>2, <1>3 DEF IInv, Phases, Solo, Restored, Progress, InForce

LEMMA FaultTyped == StateOK /\ Fault => faults' \in 0..MaxFaults
<1> QED
  BY Assumed DEF StateOK, Fault

\* Whatever the bookkeeping of faults and links, the rest stands.
LEMMA Unmoved ==
  ASSUME IInv, StateOK', UNCHANGED <<phase, iface, tcConfig, file, root, ingress, work, latest>>
  PROVE  IInv'
<1>1. WorkOK' /\ Phases' /\ Solo' /\ Restored'
  BY DEF IInv, WorkOK, Phases, InPhase, Solo, Restored, Load, Busy
<1>2. Progress'
  BY DEF IInv, Progress, Busy, OnTrack, Configured, Cleared, Built, Installed, AddsUplink, AddsDownlink,
         UpDone, DownDone, Uplinks, Downlinks
<1>3. InForce'
  BY DEF IInv, InForce, Installed, Load, Busy
<1> QED
  BY <1>1, <1>2, <1>3 DEF IInv

LEMMA LinkStep ==
  ASSUME IInv, NEW i \in Ifaces, LinkChanges(i)
  PROVE  IInv'
<1>1. faults' \in 0..MaxFaults
  BY FaultTyped DEF LinkChanges, IInv
<1>2. up' \subseteq Ifaces
  BY DEF LinkChanges, IInv, StateOK
<1>3. StateOK'
  BY <1>1, <1>2 DEF LinkChanges, IInv, StateOK, memory, kernel
<1> QED
  BY <1>3, Unmoved DEF LinkChanges, memory, kernel

LEMMA StepPreserves == IInv /\ [Next]_vars => IInv'
<1> SUFFICES ASSUME IInv, [Next]_vars PROVE IInv'
  OBVIOUS
<1>1. ASSUME NEW a \in Admins, Serve(a) PROVE IInv'
  BY <1>1, ServeStep
<1>2. ASSUME NEW a \in Admins, NEW c \in Configs, Request(a, c) PROVE IInv'
  BY <1>2, RequestStep
<1>3. CASE Start
  BY <1>3, StartStep
<1>4. CASE Apply(Main)
  <2>1. Main \in Workers
    BY DEF Workers
  <2>2. PICK w \in Workers : w = Main
    BY <2>1
  <2> QED
    BY <1>4, <2>2, ApplyStep
<1>5. CASE Started
  BY <1>5, StartedStep
<1>6. CASE Stop
  BY <1>6, StopStep
<1>7. CASE Stopped
  BY <1>7, DownStep DEF Stopped, IInv, StateOK
<1>8. CASE Crash
  BY <1>8, DownStep, FaultTyped DEF Crash, IInv
<1>9. ASSUME NEW i \in Ifaces, LinkChanges(i) PROVE IInv'
  BY <1>9, LinkStep
<1>10. CASE UNCHANGED vars
  <2>1. StateOK'
    BY <1>10 DEF vars, memory, kernel, IInv, StateOK
  <2> QED
    BY <1>10, <2>1, Unmoved DEF vars, memory, kernel
<1> QED
  BY <1>1, <1>2, <1>3, <1>4, <1>5, <1>6, <1>7, <1>8, <1>9, <1>10 DEF Next

-----------------------------------------------------------------------------
(* The theorems.                                                           *)

\* In every behaviour an Apply that runs alone is where IInv says it is, whatever earlier
\* requests, failed commands and crashes have left in the kernel (bandwidth.go:42-190).
THEOREM Inductive == Spec => []IInv
<1> QED
  BY InitEstablishes, StepPreserves, PTL DEF Spec

\* The Shaper's fields, the file, the kernel's disciplines and every task have their types:
\* no interface ever carries more parts than the commands of one Apply install.
THEOREM TypeCorrect == Spec => []TypeOK
<1>1. ASSUME IInv PROVE TypeOK
  <2>1. \A w \in Workers : work[w].step \in Steps
    BY <1>1 DEF IInv, WorkOK, Tasks, TaskRecords, Idle, Steps
  <2> QED
    BY <1>1, <2>1 DEF IInv, StateOK, TypeOK
<1> QED
  BY <1>1, Inductive, PTL

\* When nothing is under way and the latest change succeeded alone, then memory, kernel and
\* file agree, for every number of admins, interfaces, failed commands and restarts
\* (bandwidth.go:42-190, trafficcontrol.go).
THEOREM SettingInForce == Spec => []InForce
<1>1. IInv => InForce
  BY DEF IInv
<1> QED
  BY <1>1, Inductive, PTL

\* Apply works from anything earlier requests and crashes left: alone and without a failing
\* command none of its commands is refused by the kernel (bandwidth.go:42-190).
THEOREM LoneApplyIsAccepted == Spec => []LoneApplySucceeds
<1>1. ASSUME IInv PROVE LoneApplySucceeds
  <2> SUFFICES ASSUME NEW w \in Workers, work[w].step = "failed", latest.alone, ~latest.faulty PROVE FALSE
    BY DEF LoneApplySucceeds
  <2>1. Busy(w)
    BY DEF Busy, Idle
  <2> QED
    BY <1>1, <2>1 DEF IInv, Progress, OnTrack, Cleared
<1> QED
  BY <1>1, Inductive, PTL
=============================================================================
