---------------------------- MODULE LeasesProofs ----------------------------
(***************************************************************************)
(* Safety of lease monitoring, for any number of clients, addresses,       *)
(* leases, rewritings of the file, changes of the mode and failures.       *)
(*                                                                         *)
(* The parser is a recursion over the lines.  What it computes is a fact   *)
(* about the blocks that are whole in the part it is given (Parsed): the   *)
(* last one of each MAC.  The file is well formed however dhcpd cuts its   *)
(* writes (FileInv), so every cached lease was granted; and as long as     *)
(* nothing was missed the cache has the last blocks of a beginning of the  *)
(* file that ends with a block and reaches at least as far as the program  *)
(* thinks it has read (LearnInv).  In hook mode, the last lease of a MAC   *)
(* that was accepted is the last one on its way to the cache (QueueInv),   *)
(* and in the row unless somebody is still to write it there (RowInv).     *)
(***************************************************************************)
EXTENDS Leases, FiniteSetTheorems, SequenceTheorems, NaturalsInduction, WellFoundedInduction, TLAPS

LeaseMap == [Macs -> IPs \cup {None}]
Stats == [mtime : Int, size : Nat]
Watching ==
  [step : {"idle", "stat", "slice", "leases", "arp", "panic"}]
    \cup [step : {"read"}, stat : Stats, generation : Nat]
    \cup [step : {"merge"}, stat : Stats, generation : Nat, new : LeaseMap]
    \cup [step : {"upsert"}, snap : LeaseMap, todo : SUBSET Macs]

\* TypeOK, with what each step of the watcher carries.
TypeInv ==
  /\ hooked \in BOOLEAN /\ mode \in {"hook", "file_poll"}
  /\ cache \in LeaseMap /\ prev \in LeaseMap /\ rows \in LeaseMap /\ leased \in LeaseMap /\ accepted \in LeaseMap
  /\ known \in Stats /\ mtime \in Nat
  /\ queue \in Seq(Lease) /\ Len(queue) <= ChanCap
  /\ hook \in {Idle} \cup [step : {"submit", "upsert"}, lease : Lease]
  /\ listener \in {Idle} \cup [step : {"received", "writing"}, lease : Lease]
  /\ watcher \in Watching
  /\ file \in Seq(Lines) /\ buffer \in Seq(Lines)
  /\ granted \subseteq Macs \X IPs /\ whole \in BOOLEAN /\ generation \in Nat
  /\ spent \in [grants : Nat, rotations : Nat, switches : Nat, faults : Nat]
  /\ spent.grants <= MaxGrants /\ spent.rotations + spent.switches + spent.faults <= MaxEvents
  /\ generation <= spent.rotations
  /\ watcher.step \in {"read", "merge"} => watcher.generation <= spent.rotations

\* Each line comes where a block has it; a MAC and an address in a block were given.
WellFormed(lines, given) ==
  \A k \in 1..Len(lines) :
    /\ lines[k].kind = "mac" => k > 1 /\ lines[k - 1].kind = "lease" /\ <<lines[k].mac, lines[k - 1].ip>> \in given
    /\ lines[k].kind = "end" => k > 1 /\ lines[k - 1].kind \in {"lease", "mac"}

\* A block of m with address i that ends in line e; the last one of m up to line n.
BlockAt(lines, e, m, i) ==
  /\ lines[e].kind = "end"
  /\ lines[e - 1].kind = "mac" /\ lines[e - 1].mac = m
  /\ lines[e - 2].kind = "lease" /\ lines[e - 2].ip = i
LastBlock(lines, n, m, i) ==
  \E e \in 3..n : BlockAt(lines, e, m, i) /\ \A d \in (e + 1)..n, j \in IPs : ~BlockAt(lines, d, m, j)

\* File and buffer together are whole blocks of leases that were granted.
FileInv ==
  /\ WellFormed(file \o buffer, granted)
  /\ \A m \in Macs : leased[m] # None => <<m, leased[m]>> \in granted

\* Every lease on its way to the cache was granted.
GrantedInv ==
  /\ \A m \in Macs : cache[m] # None => <<m, cache[m]>> \in granted
  /\ hook # Idle => <<hook.lease.mac, hook.lease.ip>> \in granted
  /\ listener # Idle => <<listener.lease.mac, listener.lease.ip>> \in granted
  /\ \A k \in DOMAIN queue : <<queue[k].mac, queue[k].ip>> \in granted
  /\ watcher.step = "merge" => \A m \in Macs : watcher.new[m] # None => <<m, watcher.new[m]>> \in granted

\* The cache, as the merge under way leaves it, has what the file says up to a place where
\* a block ends, beyond which nothing is taken as read.
Reached(lines, size, leases) ==
  \E n \in size..Len(lines) :
    /\ n > 0 => lines[n].kind = "end"
    /\ \A m \in Macs, i \in IPs : LastBlock(lines, n, m, i) => leases[m] = i

\* Started without a hook: nobody but the watcher writes the cache.
Unhooked == ~hooked => listener = Idle /\ queue = <<>> /\ hook.step # "upsert"
\* A file that looks the same has not grown since it was read; so does one under reading.
KnownInv == known.mtime <= mtime /\ (known.mtime = mtime => known.size = Len(file))
StatInv ==
  watcher.step \in {"read", "merge"} =>
    /\ known.mtime < watcher.stat.mtime /\ watcher.stat.mtime <= mtime
    /\ watcher.stat.mtime = mtime => watcher.stat.size = Len(file)
    /\ watcher.generation = spent.rotations => watcher.stat.size <= Len(file)
\* Unless a reading started inside a block or in another file, nothing is read past.
ReachInv ==
  ~hooked /\ whole =>
    IF watcher.step = "merge"
    THEN watcher.generation = spent.rotations => Reached(file, watcher.stat.size, Merged(watcher.new))
    ELSE generation = spent.rotations => Reached(file, known.size, cache)
LearnInv == Unhooked /\ KnownInv /\ StatInv /\ ReachInv

\* Hook mode from the start on: the watcher does not read the file.
Hooked == hooked /\ spent.switches = 0
ModeInv == Hooked => mode = "hook" /\ watcher.step \in {"idle", "leases", "arp", "upsert"}

\* The last thing the hook accepted for m is on its way to the cache, or there.
Queued(m) == \E k \in DOMAIN queue : queue[k].mac = m
Arrived(m) ==
  IF Queued(m)
  THEN \E k \in DOMAIN queue : queue[k] = [mac |-> m, ip |-> accepted[m]]
                               /\ \A j \in DOMAIN queue : j > k => queue[j].mac # m
  ELSE IF listener # Idle /\ listener.lease.mac = m THEN listener.lease.ip = accepted[m]
  ELSE cache[m] = accepted[m]
\* In hook mode nothing older overtakes what the hook accepted.
QueueInv == Hooked => \A m \in Macs : accepted[m] # None => Arrived(m)

\* The watcher is still to see that i is not what it knows of m.
Stale(m, i) ==
  IF watcher.step = "upsert" THEN watcher.snap[m] # i \/ (m \in watcher.todo /\ prev[m] # watcher.snap[m])
  ELSE prev[m] # i
\* Nor in the database, where the watcher writes from its snapshots.
RowInv ==
  /\ Hooked /\ hook.step = "upsert" => accepted[hook.lease.mac] = hook.lease.ip
  /\ Hooked /\ spent.faults = 0 => \A m \in Macs : accepted[m] # None =>
       \/ rows[m] = accepted[m]
       \/ hook.step = "upsert" /\ hook.lease.mac = m
       \/ Stale(m, accepted[m])

-----------------------------------------------------------------------------
(* Recursion.                                                              *)

LEMMA Induction ==
  ASSUME NEW T, 0 \in T, \A n \in Nat : n \in T => n + 1 \in T
  PROVE  \A n \in Nat : n \in T
<1> DEFINE S == {n \in Nat : n \notin T}
           R == OpToRel(<, Nat)
<1> SUFFICES ASSUME S # {} PROVE FALSE
  OBVIOUS
<1>1. PICK x \in S : \A y \in S : <<y, x>> \notin R
  <2> HIDE DEF R
  <2>1. IsWellFoundedOn(R, Nat)
    BY NatLessThanWellFounded DEF R
  <2>2. S \subseteq Nat
    OBVIOUS
  <2> HIDE DEF S
  <2> QED
    BY <2>1, <2>2, WFMin
<1>2. \A y \in S : ~(y < x)
  BY <1>1 DEF OpToRel
<1>3. x \in Nat /\ x # 0 /\ x \notin T
  OBVIOUS
<1>4. x - 1 \in Nat /\ x - 1 < x /\ (x - 1) + 1 = x
  BY <1>3
<1>5. x - 1 \in T
  BY <1>2, <1>4
<1> QED
  BY <1>3, <1>4, <1>5

\* Going through the numbers up to n, each value made from the last one and the number.
Goes(f, n, S, base, F) ==
  /\ f \in [0..n -> S]
  /\ f[0] = base
  /\ \A i \in 1..n : f[i] = F[<<f[i - 1], i>>]

LEMMA Iterated ==
  ASSUME NEW n \in Nat, NEW S, NEW base \in S, NEW F \in [S \X (1..n) -> S]
  PROVE  \E f : Goes(f, n, S, base, F)
<1> USE DEF Goes
<1> DEFINE T == {k \in Nat : k <= n => \E f : Goes(f, k, S, base, F)}
<1>1. 0 \in T
  <2>1. Goes([i \in 0..0 |-> base], 0, S, base, F)
    OBVIOUS
  <2> QED
    BY <2>1
<1>2. ASSUME NEW k \in Nat, k \in T PROVE k + 1 \in T
  <2> SUFFICES ASSUME k + 1 <= n PROVE \E f : Goes(f, k + 1, S, base, F)
    OBVIOUS
  <2>1. PICK f : Goes(f, k, S, base, F)
    BY <1>2
  <2> DEFINE g == [i \in 0..(k + 1) |-> IF i = k + 1 THEN F[<<f[k], k + 1>>] ELSE f[i]]
  <2>2. F[<<f[k], k + 1>>] \in S
    BY <2>1
  <2>3. g \in [0..(k + 1) -> S] /\ g[0] = base
    BY <2>1, <2>2
  <2>4. ASSUME NEW i \in 1..(k + 1) PROVE g[i] = F[<<g[i - 1], i>>]
    <3>1. CASE i = k + 1
      <4>1. g[i] = F[<<f[k], k + 1>>] /\ g[i - 1] = f[k]
        BY <3>1
      <4> QED
        BY <3>1, <4>1
    <3>2. CASE i # k + 1
      <4>1. i \in 1..k /\ g[i] = f[i] /\ g[i - 1] = f[i - 1]
        BY <3>2
      <4> QED
        BY <2>1, <4>1
    <3> QED
      BY <3>1, <3>2
  <2>5. Goes(g, k + 1, S, base, F)
    BY <2>3, <2>4
  <2> QED
    BY <2>5
<1> HIDE DEF T
<1>3. n \in T
  BY <1>1, <1>2, Induction
<1> QED
  BY <1>3 DEF T

-----------------------------------------------------------------------------
(* The parser.                                                             *)

States == [inLease : BOOLEAN, ip : IPs \cup {None}, mac : Macs \cup {None}, leases : LeaseMap]

LEMMA LineKinds ==
  ASSUME NEW line \in Lines
  PROVE  /\ line.kind \in {"lease", "mac", "end"}
         /\ line.kind = "lease" => line.ip \in IPs
         /\ line.kind = "mac" => line.mac \in Macs
<1> QED
  BY DEF Lines

\* What one line does, by its kind.
LEMMA OneLine ==
  ASSUME NEW s \in States, NEW line \in Lines
  PROVE  /\ line.kind = "lease" => ParseLine(s, line) = [s EXCEPT !.inLease = TRUE, !.ip = line.ip, !.mac = None]
         /\ line.kind = "mac" /\ s.inLease => ParseLine(s, line) = [s EXCEPT !.mac = line.mac]
         /\ line.kind = "end" /\ s.inLease /\ s.mac = None => ParseLine(s, line) = [s EXCEPT !.inLease = FALSE]
         /\ line.kind = "end" /\ s.inLease /\ s.mac # None =>
              ParseLine(s, line) = [s EXCEPT !.inLease = FALSE, !.leases[s.mac] = s.ip]
         /\ line.kind # "lease" /\ ~s.inLease => ParseLine(s, line) = s
<1>1. line.kind \in {"lease", "mac", "end"}
  BY LineKinds
<1> QED
  BY <1>1 DEF ParseLine

LEMMA LineParsed ==
  ASSUME NEW s \in States, NEW line \in Lines
  PROVE  ParseLine(s, line) \in States
<1>1. line.kind \in {"lease", "mac", "end"} /\ (line.kind = "lease" => line.ip \in IPs)
      /\ (line.kind = "mac" => line.mac \in Macs)
  BY LineKinds
<1> PICK i : i = line.ip
  OBVIOUS
<1> PICK m : m = line.mac
  OBVIOUS
<1>2. CASE line.kind = "lease"
  <2>1. i \in IPs /\ [s EXCEPT !.inLease = TRUE, !.ip = i, !.mac = None] \in States
    BY <1>1, <1>2 DEF States
  <2> QED
    BY <1>2, <2>1, OneLine
<1>3. CASE line.kind # "lease" /\ ~s.inLease
  BY <1>3, OneLine
<1>4. CASE line.kind = "mac" /\ s.inLease
  <2>1. m \in Macs /\ [s EXCEPT !.mac = m] \in States
    BY <1>1, <1>4 DEF States
  <2> QED
    BY <1>4, <2>1, OneLine
<1>5. CASE line.kind = "end" /\ s.inLease /\ s.mac = None
  <2>1. [s EXCEPT !.inLease = FALSE] \in States
    BY DEF States
  <2> QED
    BY <1>5, <2>1, OneLine
<1>6. CASE line.kind = "end" /\ s.inLease /\ s.mac # None
  <2> PICK l : l = [s.leases EXCEPT ![s.mac] = s.ip]
    OBVIOUS
  <2>1. l \in LeaseMap
    BY DEF States, LeaseMap
  <2>2. [s EXCEPT !.inLease = FALSE, !.leases[s.mac] = s.ip] = [s EXCEPT !.inLease = FALSE, !.leases = l]
    BY DEF States
  <2>3. [s EXCEPT !.inLease = FALSE, !.leases = l] \in States
    BY <2>1 DEF States
  <2> QED
    BY <1>6, <2>2, <2>3, OneLine
<1> QED
  BY <1>1, <1>2, <1>3, <1>4, <1>5, <1>6

LEMMA ParsingGoes ==
  ASSUME NEW lines \in Seq(Lines)
  PROVE  /\ Parsing(lines) \in [0..Len(lines) -> States]
         /\ Parsing(lines)[0] = Begun
         /\ \A k \in 1..Len(lines) : Parsing(lines)[k] = ParseLine(Parsing(lines)[k - 1], lines[k])
<1> DEFINE n == Len(lines)
           F == [p \in States \X (1..n) |-> ParseLine(p[1], lines[p[2]])]
           Rec(g) == g = [k \in 0..n |-> IF k = 0 THEN Begun ELSE ParseLine(g[k - 1], lines[k])]
<1>1. n \in Nat /\ \A k \in 1..n : lines[k] \in Lines
  BY LenProperties, ElementOfSeq
<1>2. Begun \in States
  BY DEF Begun, States, NoLeases, LeaseMap
<1>3. F \in [States \X (1..n) -> States]
  BY <1>1, LineParsed
<1>4. \A s \in States, k \in 1..n : F[<<s, k>>] = ParseLine(s, lines[k])
  OBVIOUS
<1> HIDE DEF F
<1>5. PICK f \in [0..n -> States] : f[0] = Begun /\ \A k \in 1..n : f[k] = F[<<f[k - 1], k>>]
  <2> PICK N \in Nat : N = n
    BY <1>1
  <2> PICK G : G = F
    OBVIOUS
  <2> HIDE DEF n
  <2> PICK B : B = Begun
    OBVIOUS
  <2> PICK S : S = States
    OBVIOUS
  <2>1. G \in [S \X (1..N) -> S] /\ B \in S
    BY <1>2, <1>3
  <2>2. \E f : Goes(f, N, S, B, G)
    BY <2>1, Iterated
  <2> QED
    BY <2>2 DEF Goes
<1>6. ASSUME NEW k \in 1..n PROVE f[k] = ParseLine(f[k - 1], lines[k])
  <2>1. k - 1 \in 0..n
    BY <1>1
  <2> QED
    BY <1>4, <1>5, <2>1
<1>7. Rec(f)
  BY <1>1, <1>5, <1>6
<1>8. Parsing(lines) = CHOOSE g : Rec(g)
  BY DEF Parsing
<1> HIDE DEF Rec
<1>9. PICK g : g = Parsing(lines) /\ Rec(g)
  BY <1>7, <1>8, Zenon
<1>10. g[0] = Begun /\ DOMAIN g = 0..n /\ \A k \in 1..n : g[k] = ParseLine(g[k - 1], lines[k])
  BY <1>1, <1>9 DEF Rec
<1>11. \A k \in 0..n : g[k] = f[k]
  <2> DEFINE T == {k \in Nat : k <= n => g[k] = f[k]}
  <2>1. 0 \in T
    BY <1>5, <1>10
  <2>2. ASSUME NEW k \in Nat, k \in T PROVE k + 1 \in T
    <3> SUFFICES ASSUME k + 1 <= n PROVE g[k + 1] = f[k + 1]
      OBVIOUS
    <3>1. k + 1 \in 1..n /\ (k + 1) - 1 = k /\ g[k] = f[k]
      BY <1>1, <2>2
    <3> QED
      BY <1>6, <1>10, <3>1
  <2> HIDE DEF T
  <2>3. \A k \in Nat : k \in T
    BY <2>1, <2>2, Induction
  <2> QED
    BY <1>1, <2>3 DEF T
<1>12. g \in [0..n -> States]
  <2>1. g = [k \in 0..n |-> g[k]]
    BY <1>9 DEF Rec
  <2> QED
    BY <1>5, <1>11, <2>1
<1> QED
  BY <1>9, <1>10, <1>12

\* Each line but the first follows one that it belongs after.
Chained(lines) ==
  \A k \in 2..Len(lines) :
    /\ lines[k].kind = "mac" => lines[k - 1].kind = "lease"
    /\ lines[k].kind = "end" => lines[k - 1].kind \in {"lease", "mac"}

\* A line that ends no block changes no last block.
LEMMA NoBlockHere ==
  ASSUME NEW lines \in Seq(Lines), NEW k \in Nat \ {0}, k >= 3 => \A m \in Macs, i \in IPs : ~BlockAt(lines, k, m, i)
  PROVE  \A m \in Macs, i \in IPs : LastBlock(lines, k, m, i) <=> LastBlock(lines, k - 1, m, i)
<1> SUFFICES ASSUME NEW m \in Macs, NEW i \in IPs
             PROVE  LastBlock(lines, k, m, i) <=> LastBlock(lines, k - 1, m, i)
  OBVIOUS
<1>1. ASSUME LastBlock(lines, k, m, i) PROVE LastBlock(lines, k - 1, m, i)
  <2>1. PICK e \in 3..k : BlockAt(lines, e, m, i) /\ \A d \in (e + 1)..k, j \in IPs : ~BlockAt(lines, d, m, j)
    BY <1>1 DEF LastBlock
  <2>2. e \in 3..(k - 1)
    BY <2>1
  <2> QED
    BY <2>1, <2>2 DEF LastBlock
<1>2. ASSUME LastBlock(lines, k - 1, m, i) PROVE LastBlock(lines, k, m, i)
  <2>1. PICK e \in 3..(k - 1) : BlockAt(lines, e, m, i)
                                /\ \A d \in (e + 1)..(k - 1), j \in IPs : ~BlockAt(lines, d, m, j)
    BY <1>2 DEF LastBlock
  <2>2. \A d \in (e + 1)..k : d \in (e + 1)..(k - 1) \/ (d = k /\ k >= 3)
    OBVIOUS
  <2>3. \A d \in (e + 1)..k, j \in IPs : ~BlockAt(lines, d, m, j)
    BY <2>1, <2>2
  <2> QED
    BY <2>1, <2>3 DEF LastBlock
<1> QED
  BY <1>1, <1>2

\* The end of a block makes it the last one of its MAC, and leaves those of the others.
LEMMA BlockHere ==
  ASSUME NEW lines \in Seq(Lines), NEW k \in Nat, NEW m \in Macs, NEW i \in IPs, k >= 3, BlockAt(lines, k, m, i)
  PROVE  /\ LastBlock(lines, k, m, i)
         /\ \A j \in IPs : LastBlock(lines, k, m, j) => j = i
         /\ \A d \in Macs \ {m}, j \in IPs : LastBlock(lines, k, d, j) <=> LastBlock(lines, k - 1, d, j)
<1>1. LastBlock(lines, k, m, i)
  BY DEF LastBlock
<1>2. ASSUME NEW j \in IPs, LastBlock(lines, k, m, j) PROVE j = i
  <2>1. PICK e \in 3..k : BlockAt(lines, e, m, j) /\ \A d \in (e + 1)..k, x \in IPs : ~BlockAt(lines, d, m, x)
    BY <1>2 DEF LastBlock
  <2>2. e = k
    BY <2>1
  <2> QED
    BY <2>1, <2>2 DEF BlockAt
<1>3. ASSUME NEW c \in Macs \ {m}, NEW j \in IPs PROVE LastBlock(lines, k, c, j) <=> LastBlock(lines, k - 1, c, j)
  <2>1. \A x \in IPs : ~BlockAt(lines, k, c, x)
    BY DEF BlockAt
  <2>2. ASSUME LastBlock(lines, k, c, j) PROVE LastBlock(lines, k - 1, c, j)
    <3>1. PICK e \in 3..k : BlockAt(lines, e, c, j) /\ \A d \in (e + 1)..k, x \in IPs : ~BlockAt(lines, d, c, x)
      BY <2>2 DEF LastBlock
    <3>2. e \in 3..(k - 1)
      BY <2>1, <3>1
    <3> QED
      BY <3>1, <3>2 DEF LastBlock
  <2>3. ASSUME LastBlock(lines, k - 1, c, j) PROVE LastBlock(lines, k, c, j)
    <3>1. PICK e \in 3..(k - 1) : BlockAt(lines, e, c, j)
                                  /\ \A d \in (e + 1)..(k - 1), x \in IPs : ~BlockAt(lines, d, c, x)
      BY <2>3 DEF LastBlock
    <3>2. \A d \in (e + 1)..k : d \in (e + 1)..(k - 1) \/ d = k
      OBVIOUS
    <3>3. \A d \in (e + 1)..k, x \in IPs : ~BlockAt(lines, d, c, x)
      BY <2>1, <3>1, <3>2
    <3> QED
      BY <3>1, <3>3 DEF LastBlock
  <2> QED
    BY <2>2, <2>3
<1> QED
  BY <1>1, <1>2, <1>3

\* What is parsed after k lines: the state of the block line k is in, and the last blocks.
Current(s, lines, k) ==
  /\ k >= 1 /\ lines[k].kind = "lease" => s.inLease /\ s.ip = lines[k].ip /\ s.mac = None
  /\ k >= 2 /\ lines[k].kind = "mac" => s.inLease /\ s.ip = lines[k - 1].ip /\ s.mac = lines[k].mac
  /\ k = 0 \/ (k = 1 /\ lines[k].kind # "lease") \/ lines[k].kind = "end" => ~s.inLease
Collected(leases, lines, k) ==
  \A m \in Macs : /\ leases[m] # None => LastBlock(lines, k, m, leases[m])
                  /\ \A i \in IPs : LastBlock(lines, k, m, i) => leases[m] = i
Tracks(s, lines, k) == Current(s, lines, k) /\ Collected(s.leases, lines, k)

\* A line that ends no block leaves what is collected.
LEMMA SameCollected ==
  ASSUME NEW lines \in Seq(Lines), NEW k \in Nat \ {0}, k >= 3 => \A m \in Macs, i \in IPs : ~BlockAt(lines, k, m, i),
         NEW leases \in LeaseMap, Collected(leases, lines, k - 1)
  PROVE  Collected(leases, lines, k)
<1>1. \A m \in Macs, i \in IPs : LastBlock(lines, k, m, i) <=> LastBlock(lines, k - 1, m, i)
  BY NoBlockHere
<1>2. \A m \in Macs : leases[m] \in IPs \cup {None}
  BY DEF LeaseMap
<1> QED
  BY <1>1, <1>2 DEF Collected

LEMMA TracksLine ==
  ASSUME NEW lines \in Seq(Lines), Chained(lines), NEW k \in 1..Len(lines),
         NEW s \in States, Tracks(s, lines, k - 1)
  PROVE  Tracks(ParseLine(s, lines[k]), lines, k)
<1> PICK line \in Lines : line = lines[k]
  BY ElementOfSeq
<1> PICK i : i = line.ip
  OBVIOUS
<1> PICK m : m = line.mac
  OBVIOUS
<1> PICK t : t = ParseLine(s, line)
  OBVIOUS
<1> SUFFICES Tracks(t, lines, k)
  OBVIOUS
<1>1. Len(lines) \in Nat /\ k \in Nat \ {0}
  BY LenProperties
<1>2. line.kind \in {"lease", "mac", "end"} /\ (line.kind = "lease" => i \in IPs) /\ (line.kind = "mac" => m \in Macs)
  BY LineKinds
<1>3. t \in States
  BY LineParsed
<1>4. k >= 2 => /\ line.kind = "mac" => lines[k - 1].kind = "lease"
                /\ line.kind = "end" => lines[k - 1].kind \in {"lease", "mac"}
  BY <1>1 DEF Chained
<1>5. s.leases \in LeaseMap /\ t.leases \in LeaseMap
  BY <1>3 DEF States
<1>6. Current(s, lines, k - 1) /\ Collected(s.leases, lines, k - 1)
  BY DEF Tracks
<1>7. ASSUME t.leases = s.leases, k >= 3 => \A c \in Macs, j \in IPs : ~BlockAt(lines, k, c, j)
      PROVE  Collected(t.leases, lines, k)
  BY <1>1, <1>5, <1>6, <1>7, SameCollected
<1>8. CASE line.kind = "lease"
  <2>1. t = [s EXCEPT !.inLease = TRUE, !.ip = i, !.mac = None]
    BY <1>8, OneLine
  <2>2. t.inLease /\ t.ip = i /\ t.mac = None /\ t.leases = s.leases
    BY <2>1 DEF States
  <2>3. Collected(t.leases, lines, k)
    BY <1>7, <1>8, <2>2 DEF BlockAt
  <2> QED
    BY <1>8, <2>2, <2>3 DEF Tracks, Current
<1>9. CASE k = 1 /\ line.kind # "lease"
  <2>1. ~s.inLease
    BY <1>6, <1>9 DEF Current
  <2>2. t = s
    BY <1>9, <2>1, OneLine
  <2>3. Collected(t.leases, lines, k)
    BY <1>7, <1>9, <2>2
  <2> QED
    BY <1>9, <2>1, <2>2, <2>3 DEF Tracks, Current
<1>10. CASE k >= 2 /\ line.kind = "mac"
  <2>1. s.inLease /\ s.ip = lines[k - 1].ip
    BY <1>1, <1>4, <1>6, <1>10 DEF Current
  <2>2. t = [s EXCEPT !.mac = m]
    BY <1>10, <2>1, OneLine
  <2>3. t.inLease /\ t.ip = lines[k - 1].ip /\ t.mac = m /\ t.leases = s.leases
    BY <2>1, <2>2 DEF States
  <2>4. Collected(t.leases, lines, k)
    BY <1>7, <1>10, <2>3 DEF BlockAt
  <2> QED
    BY <1>1, <1>10, <2>3, <2>4 DEF Tracks, Current
<1>11. CASE k >= 2 /\ line.kind = "end" /\ lines[k - 1].kind = "lease"
  <2>1. s.inLease /\ s.mac = None
    BY <1>1, <1>6, <1>11 DEF Current
  <2>2. t = [s EXCEPT !.inLease = FALSE]
    BY <1>11, <2>1, OneLine
  <2>3. ~t.inLease /\ t.leases = s.leases
    BY <2>2 DEF States
  <2>4. Collected(t.leases, lines, k)
    BY <1>7, <1>11, <2>3 DEF BlockAt
  <2> QED
    BY <1>1, <1>11, <2>3, <2>4 DEF Tracks, Current
<1>12. CASE k = 2 /\ line.kind = "end" /\ lines[k - 1].kind = "mac"
  <2>1. ~s.inLease
    BY <1>1, <1>6, <1>12 DEF Current
  <2>2. t = s
    BY <1>12, <2>1, OneLine
  <2>3. Collected(t.leases, lines, k)
    BY <1>7, <1>12, <2>2
  <2> QED
    BY <1>1, <1>12, <2>1, <2>2, <2>3 DEF Tracks, Current
<1>13. CASE k >= 3 /\ line.kind = "end" /\ lines[k - 1].kind = "mac"
  <2> PICK c : c = lines[k - 1].mac
    OBVIOUS
  <2> PICK x : x = lines[k - 2].ip
    OBVIOUS
  <2>1. s.inLease /\ s.mac = c /\ s.ip = x
    BY <1>1, <1>6, <1>13 DEF Current
  <2>2. lines[k - 2].kind = "lease"
    <3>1. k - 1 \in 2..Len(lines) /\ (k - 1) - 1 = k - 2
      BY <1>1, <1>13
    <3> QED
      BY <1>13, <3>1 DEF Chained
  <2>3. c \in Macs /\ x \in IPs
    <3>1. lines[k - 1] \in Lines /\ lines[k - 2] \in Lines
      <4>1. k - 1 \in 1..Len(lines) /\ k - 2 \in 1..Len(lines)
        BY <1>1, <1>13
      <4> QED
        BY <4>1, ElementOfSeq
    <3> QED
      BY <1>13, <2>2, <3>1, LineKinds
  <2>4. c # None
    BY <2>3, LeasesAssumption
  <2>5. t = [s EXCEPT !.inLease = FALSE, !.leases[c] = x]
    BY ZenonT(60), <1>13, <2>1, <2>4, OneLine
  <2>6. ~t.inLease /\ t.leases = [s.leases EXCEPT ![c] = x]
    BY <2>5 DEF States
  <2>7. t.leases[c] = x /\ \A d \in Macs \ {c} : t.leases[d] = s.leases[d]
    BY <1>5, <2>3, <2>6 DEF LeaseMap
  <2>8. BlockAt(lines, k, c, x)
    BY <1>13, <2>2 DEF BlockAt
  <2>9. /\ LastBlock(lines, k, c, x) /\ \A j \in IPs : LastBlock(lines, k, c, j) => j = x
        /\ \A d \in Macs \ {c}, j \in IPs : LastBlock(lines, k, d, j) <=> LastBlock(lines, k - 1, d, j)
    <3>1. k \in Nat /\ k >= 3
      BY <1>1, <1>13
    <3>2. LastBlock(lines, k, c, x)
      BY <2>3, <2>8, <3>1, BlockHere
    <3>3. \A j \in IPs : LastBlock(lines, k, c, j) => j = x
      BY <2>3, <2>8, <3>1, BlockHere
    <3>4. ASSUME NEW d \in Macs \ {c}, NEW j \in IPs
          PROVE  LastBlock(lines, k, d, j) <=> LastBlock(lines, k - 1, d, j)
      BY <2>3, <2>8, <3>1, BlockHere
    <3> QED
      BY <3>2, <3>3, <3>4
  <2>10. \A d \in Macs \ {c} : s.leases[d] \in IPs \cup {None}
    BY <1>5 DEF LeaseMap
  <2>11. Collected(t.leases, lines, k)
    BY <1>6, <2>7, <2>9, <2>10 DEF Collected
  <2> QED
    BY <1>1, <1>13, <2>6, <2>11 DEF Tracks, Current
<1>14. \/ line.kind = "lease" \/ (k = 1 /\ line.kind # "lease") \/ (k >= 2 /\ line.kind = "mac")
       \/ k >= 2 /\ line.kind = "end" /\ lines[k - 1].kind = "lease"
       \/ k = 2 /\ line.kind = "end" /\ lines[k - 1].kind = "mac"
       \/ k >= 3 /\ line.kind = "end" /\ lines[k - 1].kind = "mac"
  BY <1>1, <1>2, <1>4
<1> QED
  BY <1>8, <1>9, <1>10, <1>11, <1>12, <1>13, <1>14

\* What the parser makes of a part of the file that begins anywhere: the last block of
\* each MAC that is whole in it.
LEMMA Parsed ==
  ASSUME NEW lines \in Seq(Lines), Chained(lines)
  PROVE  Parse(lines) \in LeaseMap /\ Collected(Parse(lines), lines, Len(lines))
<1> DEFINE T == {k \in Nat : k <= Len(lines) => Tracks(Parsing(lines)[k], lines, k)}
<1>1. Len(lines) \in Nat
  BY LenProperties
<1> PICK p : p = Parsing(lines)
  OBVIOUS
<1>2. /\ p \in [0..Len(lines) -> States]
      /\ p[0] = Begun
      /\ \A k \in 1..Len(lines) : p[k] = ParseLine(p[k - 1], lines[k])
  BY ParsingGoes
<1>3. 0 \in T
  <2>1. \A m \in Macs : Begun.leases[m] = None /\ \A i \in IPs : ~LastBlock(lines, 0, m, i)
    BY DEF Begun, NoLeases, LastBlock
  <2>2. Collected(Begun.leases, lines, 0)
    <3> USE <2>1
    <3>1. SUFFICES ASSUME NEW m \in Macs
                   PROVE  /\ Begun.leases[m] # None => LastBlock(lines, 0, m, Begun.leases[m])
                          /\ \A i \in IPs : LastBlock(lines, 0, m, i) => Begun.leases[m] = i
      BY DEF Collected
    <3> QED
      OBVIOUS
  <2>3. Current(Begun, lines, 0)
    BY DEF Current, Begun
  <2> QED
    BY <1>2, <2>2, <2>3 DEF Tracks
<1>4. ASSUME NEW k \in Nat, k \in T PROVE k + 1 \in T
  <2> SUFFICES ASSUME k + 1 <= Len(lines) PROVE Tracks(p[k + 1], lines, k + 1)
    OBVIOUS
  <2> PICK n : n = k + 1
    OBVIOUS
  <2>1. n \in 1..Len(lines) /\ n - 1 = k /\ k \in 0..Len(lines)
    BY <1>1
  <2>2. p[k] \in States /\ p[n] = ParseLine(p[k], lines[n])
    BY <1>2, <2>1
  <2>3. Tracks(p[k], lines, n - 1)
    BY <1>1, <1>4, <2>1
  <2> QED
    BY <2>1, <2>2, <2>3, TracksLine
<1> HIDE DEF T
<1>5. Len(lines) \in T
  BY <1>1, <1>3, <1>4, Induction
<1>6. Tracks(p[Len(lines)], lines, Len(lines))
  BY <1>1, <1>5 DEF T
<1>7. p[Len(lines)] \in States
  BY <1>1, <1>2
<1> QED
  BY <1>6, <1>7 DEF Parse, Tracks, States

-----------------------------------------------------------------------------
(* Well-formed files.                                                      *)

LEMMA Joined ==
  ASSUME NEW x \in Lines, NEW y \in Lines, NEW z \in Lines
  PROVE  /\ <<x>> \o <<>> \o <<z>> = <<x, z>>
         /\ <<x>> \o <<y>> \o <<z>> = <<x, y, z>>
<1>1. <<x>> \in Seq(Lines) /\ <<x, y>> \in Seq(Lines)
  OBVIOUS
<1>2. <<x>> \o <<>> = <<x>>
  BY <1>1, ConcatEmptySeq
<1>3. ASSUME NEW u \in Lines, NEW v \in Lines PROVE <<u>> \o <<v>> = <<u, v>>
  <2> PICK s : s = <<u>> \o <<v>>
    OBVIOUS
  <2> PICK t : t = <<u, v>>
    OBVIOUS
  <2>1. <<u>> \in Seq(Lines) /\ <<v>> \in Seq(Lines) /\ Len(<<u>>) = 1 /\ Len(<<v>>) = 1
        /\ <<u>>[1] = u /\ <<v>>[1] = v
    OBVIOUS
  <2>2. s \in Seq(Lines) /\ Len(s) = 2 /\ \A i \in 1..2 : s[i] = IF i <= 1 THEN <<u>>[i] ELSE <<v>>[i - 1]
    BY <2>1, ConcatProperties
  <2>3. s[1] = u /\ s[2] = v
    BY <2>1, <2>2
  <2>4. t \in Seq(Lines) /\ Len(t) = 2 /\ t[1] = u /\ t[2] = v
    OBVIOUS
  <2>5. \A i \in 1..2 : s[i] = t[i]
    <3>1. \A i \in 1..2 : i = 1 \/ i = 2
      OBVIOUS
    <3> QED
      BY <2>3, <2>4, <3>1
  <2>6. s = t
    BY <2>2, <2>4, <2>5, SeqEqual
  <2> QED
    BY <2>6
<1>4. <<x, y>> \o <<z>> = <<x, y, z>>
  <2> PICK s : s = <<x, y>> \o <<z>>
    OBVIOUS
  <2> PICK t : t = <<x, y, z>>
    OBVIOUS
  <2>1. <<x, y>> \in Seq(Lines) /\ <<z>> \in Seq(Lines) /\ Len(<<x, y>>) = 2 /\ Len(<<z>>) = 1
        /\ <<x, y>>[1] = x /\ <<x, y>>[2] = y /\ <<z>>[1] = z
    OBVIOUS
  <2>2. s \in Seq(Lines) /\ Len(s) = 3 /\ \A i \in 1..3 : s[i] = IF i <= 2 THEN <<x, y>>[i] ELSE <<z>>[i - 2]
    BY <2>1, ConcatProperties
  <2>3. s[1] = x /\ s[2] = y /\ s[3] = z
    BY <2>1, <2>2
  <2>4. t \in Seq(Lines) /\ Len(t) = 3 /\ t[1] = x /\ t[2] = y /\ t[3] = z
    OBVIOUS
  <2>5. \A i \in 1..Len(s) : s[i] = t[i]
    BY <2>2, <2>3, <2>4
  <2>6. s = t
    BY <2>2, <2>4, <2>5, SeqEqual
  <2> QED
    BY <2>6
<1> QED
  BY <1>2, <1>3, <1>4

LEMMA BlockLines ==
  ASSUME NEW m \in Macs \cup {None}, NEW i \in IPs
  PROVE  /\ Block(m, i) \in Seq(Lines)
         /\ m = None => /\ Len(Block(m, i)) = 2
                        /\ Block(m, i)[1].kind = "lease" /\ Block(m, i)[2].kind = "end"
         /\ m # None => /\ Len(Block(m, i)) = 3
                        /\ Block(m, i)[1].kind = "lease" /\ Block(m, i)[1].ip = i
                        /\ Block(m, i)[2].kind = "mac" /\ Block(m, i)[2].mac = m
                        /\ Block(m, i)[3].kind = "end"
<1> PICK first : first = [kind |-> "lease", ip |-> i]
  OBVIOUS
<1> PICK middle : middle = [kind |-> "mac", mac |-> m]
  OBVIOUS
<1> PICK last : last = [kind |-> "end"]
  OBVIOUS
<1>1. first \in Lines /\ last \in Lines /\ (m # None => middle \in Lines)
  BY DEF Lines
<1>2. first.kind = "lease" /\ first.ip = i /\ middle.kind = "mac" /\ middle.mac = m /\ last.kind = "end"
  OBVIOUS
<1>3. CASE m = None
  <2>1. Block(m, i) = <<first>> \o <<>> \o <<last>>
    BY <1>3 DEF Block
  <2>2. <<first>> \o <<>> \o <<last>> = <<first, last>>
    BY <1>1, Joined
  <2> PICK b : b = <<first, last>>
    OBVIOUS
  <2>3. b \in Seq(Lines) /\ Len(b) = 2 /\ b[1] = first /\ b[2] = last
    BY <1>1
  <2> QED
    BY <1>2, <1>3, <2>1, <2>2, <2>3
<1>4. CASE m # None
  <2>1. Block(m, i) = <<first>> \o <<middle>> \o <<last>>
    BY <1>4 DEF Block
  <2>2. <<first>> \o <<middle>> \o <<last>> = <<first, middle, last>>
    BY <1>1, <1>4, Joined
  <2> PICK b : b = <<first, middle, last>>
    OBVIOUS
  <2>3. b \in Seq(Lines) /\ Len(b) = 3 /\ b[1] = first /\ b[2] = middle /\ b[3] = last
    BY <1>1, <1>4
  <2> QED
    BY <1>2, <1>4, <2>1, <2>2, <2>3
<1> QED
  BY <1>3, <1>4

LEMMA BlockAppended ==
  ASSUME NEW lines \in Seq(Lines), NEW old \in SUBSET (Macs \X IPs), NEW given \in SUBSET (Macs \X IPs),
         WellFormed(lines, old), old \subseteq given,
         NEW m \in Macs \cup {None}, NEW i \in IPs, m # None => <<m, i>> \in given
  PROVE  lines \o Block(m, i) \in Seq(Lines) /\ WellFormed(lines \o Block(m, i), given)
<1> PICK b \in Seq(Lines) : b = Block(m, i)
  BY BlockLines
<1> PICK all : all = lines \o b
  OBVIOUS
<1> PICK n : n = Len(lines)
  OBVIOUS
<1>1. n \in Nat /\ Len(b) \in Nat
  BY LenProperties
<1>2. /\ all \in Seq(Lines)
      /\ Len(all) = n + Len(b)
      /\ \A k \in 1..(n + Len(b)) : all[k] = IF k <= n THEN lines[k] ELSE b[k - n]
  BY ConcatProperties
<1>3. /\ m = None => Len(b) = 2 /\ b[1].kind = "lease" /\ b[2].kind = "end"
      /\ m # None => /\ Len(b) = 3
                     /\ b[1].kind = "lease" /\ b[1].ip = i
                     /\ b[2].kind = "mac" /\ b[2].mac = m
                     /\ b[3].kind = "end"
  BY BlockLines
<1> DEFINE Fits(k) ==
      /\ all[k].kind = "mac" => k > 1 /\ all[k - 1].kind = "lease" /\ <<all[k].mac, all[k - 1].ip>> \in given
      /\ all[k].kind = "end" => k > 1 /\ all[k - 1].kind \in {"lease", "mac"}
<1>4. ASSUME NEW k \in 1..Len(all) PROVE Fits(k)
  <2>1. CASE k <= n
    <3>1. k \in 1..n /\ all[k] = lines[k] /\ (k > 1 => all[k - 1] = lines[k - 1])
      BY <1>1, <1>2, <2>1
    <3> QED
      BY <3>1 DEF WellFormed
  <2>2. CASE k > n
    <3>1. k - n \in 1..Len(b) /\ all[k] = b[k - n]
      BY <1>1, <1>2, <2>2
    <3>2. CASE k - n = 1
      BY <1>3, <3>1, <3>2
    <3>3. CASE k - n # 1
      <4>1. k > 1 /\ all[k - 1] = b[(k - n) - 1]
        BY SMTT(30), <1>1, <1>2, <2>2, <3>1, <3>3
      <4>2. k - n = 2 \/ (k - n = 3 /\ m # None)
        <5>1. (m = None /\ Len(b) = 2) \/ (m # None /\ Len(b) = 3)
          BY <1>3
        <5> PICK d : d = k - n
          OBVIOUS
        <5> PICK l \in Nat : l = Len(b)
          BY <1>1
        <5>2. d \in 1..l /\ d # 1
          BY <3>1, <3>3
        <5>3. CASE m = None
          <6>1. Len(b) = 2
            BY <5>1, <5>3
          <6>2. d = 2
            BY <5>2, <6>1
          <6> QED
            BY <6>2
        <5>4. CASE m # None
          <6>1. Len(b) = 3
            BY <5>1, <5>4
          <6>2. d \in 1..3 /\ d # 1
            BY <5>2, <6>1
          <6>3. d = 2 \/ d = 3
            BY <6>2
          <6> QED
            BY <5>4, <6>3
        <5> QED
          BY <5>3, <5>4
      <4>3. CASE m = None
        BY <1>3, <3>1, <4>1, <4>2, <4>3
      <4>4. CASE m # None
        <5>1. CASE k - n = 2
          <6>1. all[k].kind = "mac" /\ all[k].mac = m /\ all[k - 1].kind = "lease" /\ all[k - 1].ip = i
            BY <1>3, <3>1, <4>1, <4>4, <5>1
          <6> QED
            BY <4>1, <4>4, <6>1
        <5>2. CASE k - n = 3
          <6>1. all[k].kind = "end" /\ all[k - 1].kind = "mac"
            BY <1>3, <3>1, <4>1, <4>4, <5>2
          <6> QED
            BY <4>1, <6>1
        <5> QED
          BY <4>2, <5>1, <5>2
      <4> QED
        BY <4>3, <4>4
    <3> QED
      BY <3>2, <3>3
  <2>3. k \in Int
    OBVIOUS
  <2>4. k <= n \/ k > n
    BY <1>1, <2>3
  <2> QED
    BY <2>1, <2>2, <2>4
<1> QED
  BY <1>2, <1>4 DEF WellFormed

LEMMA EmptyWellFormed ==
  ASSUME NEW given
  PROVE  <<>> \in Seq(Lines) /\ WellFormed(<<>>, given)
<1> QED
  BY EmptySeq DEF WellFormed

\* A file that is made of blocks of given leases.
LEMMA BlocksWellFormed ==
  ASSUME NEW n \in Nat, NEW seqs \in [1..n -> Seq(Lines)], NEW given \in SUBSET (Macs \X IPs),
         \A k \in 1..n : \E m \in Macs, i \in IPs : seqs[k] = Block(m, i) /\ <<m, i>> \in given
  PROVE  FlattenSeq(seqs) \in Seq(Lines) /\ WellFormed(FlattenSeq(seqs), given)
<1> PICK S : S = Seq(Lines)
  OBVIOUS
<1>1. Len(seqs) = n
  OBVIOUS
<1>2. CASE n = 0
  <2>1. seqs = <<>>
    BY <1>2
  <2>2. FlattenSeq(seqs) = <<>>
    BY <1>1, <1>2, <2>1 DEF FlattenSeq
  <2> QED
    BY <2>2, EmptyWellFormed
<1>3. CASE n # 0
  <2> DEFINE F == [p \in S \X (1..n) |-> p[1] \o seqs[p[2]]]
             Rec(g) == g = [k \in 1..n |-> IF k = 1 THEN seqs[k] ELSE g[k - 1] \o seqs[k]]
  <2>1. \A s \in S, k \in 1..n : s \o seqs[k] \in S /\ F[<<s, k>>] = s \o seqs[k]
    BY ConcatProperties
  <2>2. F \in [S \X (1..n) -> S] /\ <<>> \in S
    BY <2>1, EmptySeq
  <2> PICK G : G = F
    OBVIOUS
  <2> PICK base \in S : base = <<>>
    BY <2>2
  <2>3. \E f : Goes(f, n, S, base, G)
    <3>1. G \in [S \X (1..n) -> S]
      BY <2>2
    <3> HIDE DEF F
    <3> QED
      BY <3>1, Iterated
  <2> HIDE DEF F
  <2>4. PICK f : Goes(f, n, S, base, G)
    BY <2>3
  <2>5. f \in [0..n -> S] /\ f[0] = <<>> /\ \A k \in 1..n : f[k] = f[k - 1] \o seqs[k]
    <3>1. f \in [0..n -> S] /\ f[0] = <<>> /\ \A k \in 1..n : f[k] = G[<<f[k - 1], k>>]
      BY <2>4 DEF Goes
    <3>2. \A k \in 1..n : f[k - 1] \in S
      BY <3>1
    <3> QED
      BY <2>1, <3>1, <3>2
  <2> PICK h : h = [k \in 1..n |-> f[k]]
    OBVIOUS
  <2>6. Rec(h)
    <3>1. ASSUME NEW k \in 1..n PROVE h[k] = IF k = 1 THEN seqs[k] ELSE h[k - 1] \o seqs[k]
      <4>1. CASE k = 1
        <5>1. f[1] = <<>> \o seqs[1]
          <6>1. 1 \in 1..n /\ 1 - 1 = 0
            BY <1>3
          <6> QED
            BY <2>5, <6>1
        <5>2. seqs[1] \in S
          BY <1>3
        <5>3. <<>> \o seqs[1] = seqs[1]
          BY <5>2, ConcatEmptySeq
        <5> QED
          BY <4>1, <5>1, <5>3
      <4>2. CASE k # 1
        <5>1. k - 1 \in 1..n
          BY <4>2
        <5> QED
          BY <2>5, <4>2, <5>1
      <4> QED
        BY <4>1, <4>2
    <3> QED
      BY <3>1
  <2>7. FlattenSeq(seqs) = (CHOOSE g : Rec(g))[n]
    BY <1>1, <1>3 DEF FlattenSeq
  <2> HIDE DEF Rec
  <2>8. PICK g : g = (CHOOSE x : Rec(x)) /\ Rec(g)
    BY <2>6, Zenon
  <2>9. \A k \in 1..n : g[k] = IF k = 1 THEN seqs[k] ELSE g[k - 1] \o seqs[k]
    BY <2>8 DEF Rec
  <2> DEFINE T == {k \in Nat : 1 <= k /\ k <= n => g[k] \in Seq(Lines) /\ WellFormed(g[k], given)}
  <2>10. 0 \in T
    OBVIOUS
  <2>11. ASSUME NEW k \in Nat, k \in T PROVE k + 1 \in T
    <3> SUFFICES ASSUME k + 1 <= n PROVE g[k + 1] \in Seq(Lines) /\ WellFormed(g[k + 1], given)
      OBVIOUS
    <3> PICK q : q = k + 1
      OBVIOUS
    <3>1. q \in 1..n
      OBVIOUS
    <3>2. PICK m \in Macs, i \in IPs : seqs[q] = Block(m, i) /\ <<m, i>> \in given
      BY <3>1
    <3> PICK before : before = IF k = 0 THEN <<>> ELSE g[k]
      OBVIOUS
    <3>3. before \in Seq(Lines) /\ WellFormed(before, given)
      <4>1. CASE k = 0
        BY <4>1, EmptyWellFormed
      <4>2. CASE k # 0
        BY <2>11, <4>2
      <4> QED
        BY <4>1, <4>2
    <3>4. g[q] = before \o Block(m, i)
      <4>1. CASE k = 0
        <5>1. g[q] = Block(m, i) /\ before = <<>>
          BY <2>9, <3>1, <3>2, <4>1
        <5>2. Block(m, i) \in Seq(Lines)
          BY <3>1, <3>2
        <5>3. <<>> \o Block(m, i) = Block(m, i)
          BY <5>2, ConcatEmptySeq
        <5> QED
          BY <5>1, <5>3
      <4>2. CASE k # 0
        <5>1. q - 1 = k /\ q # 1
          <6> HIDE DEF T, Rec
          <6> QED
            BY <4>2
        <5> QED
          BY <2>9, <3>1, <3>2, <4>2, <5>1
      <4> QED
        BY <4>1, <4>2
    <3>5. before \o Block(m, i) \in Seq(Lines) /\ WellFormed(before \o Block(m, i), given)
      BY <3>2, <3>3, BlockAppended
    <3> QED
      BY <3>4, <3>5
  <2> HIDE DEF T
  <2>12. n \in T
    BY <2>10, <2>11, Induction
  <2>13. g[n] \in Seq(Lines) /\ WellFormed(g[n], given)
    BY <1>3, <2>12 DEF T
  <2> QED
    BY <2>7, <2>8, <2>13
<1> QED
  BY <1>2, <1>3

LEMMA BeginningOf ==
  ASSUME NEW lines \in Seq(Lines), NEW more \in Seq(Lines), NEW given
  PROVE  /\ lines \o more \in Seq(Lines)
         /\ Len(lines) <= Len(lines \o more)
         /\ \A k \in 1..Len(lines) : (lines \o more)[k] = lines[k]
         /\ WellFormed(lines \o more, given) => WellFormed(lines, given)
<1> PICK all : all = lines \o more
  OBVIOUS
<1>1. Len(lines) \in Nat /\ Len(more) \in Nat
  BY LenProperties
<1>2. /\ all \in Seq(Lines) /\ Len(all) = Len(lines) + Len(more)
      /\ \A k \in 1..Len(lines) + Len(more) : all[k] = IF k <= Len(lines) THEN lines[k] ELSE more[k - Len(lines)]
  BY ConcatProperties
<1>3. \A k \in 1..Len(lines) : k \in 1..Len(all) /\ all[k] = lines[k] /\ (k > 1 => all[k - 1] = lines[k - 1])
  BY <1>1, <1>2
<1>4. ASSUME WellFormed(all, given) PROVE WellFormed(lines, given)
  BY <1>3, <1>4 DEF WellFormed
<1> QED
  BY <1>1, <1>2, <1>3, <1>4

\* The last blocks up to a line depend on the lines up to it.
LEMMA SameLastBlock ==
  ASSUME NEW lines \in Seq(Lines), NEW other \in Seq(Lines), NEW n \in Nat,
         \A k \in 1..n : lines[k] = other[k],
         NEW m \in Macs, NEW i \in IPs, LastBlock(lines, n, m, i)
  PROVE  LastBlock(other, n, m, i)
<1>1. ASSUME NEW e \in 3..n, NEW j \in IPs PROVE BlockAt(lines, e, m, j) <=> BlockAt(other, e, m, j)
  <2>1. e \in 1..n /\ e - 1 \in 1..n /\ e - 2 \in 1..n
    OBVIOUS
  <2>2. lines[e] = other[e] /\ lines[e - 1] = other[e - 1] /\ lines[e - 2] = other[e - 2]
    BY <2>1
  <2> QED
    BY <2>2 DEF BlockAt
<1>2. PICK e \in 3..n : BlockAt(lines, e, m, i) /\ \A d \in (e + 1)..n, j \in IPs : ~BlockAt(lines, d, m, j)
  BY DEF LastBlock
<1>3. \A d \in (e + 1)..n : d \in 3..n
  OBVIOUS
<1>4. \A d \in (e + 1)..n, j \in IPs : ~BlockAt(other, d, m, j)
  BY <1>1, <1>2, <1>3
<1>5. BlockAt(other, e, m, i)
  BY <1>1, <1>2
<1> QED
  BY <1>4, <1>5 DEF LastBlock

LEMMA BlockGiven ==
  ASSUME NEW lines \in Seq(Lines), NEW given \in SUBSET (Macs \X IPs), WellFormed(lines, given),
         NEW e \in 3..Len(lines), NEW m \in Macs, NEW i \in IPs, BlockAt(lines, e, m, i)
  PROVE  <<m, i>> \in given
<1>1. e - 1 \in 1..Len(lines) /\ (e - 1) - 1 = e - 2
  BY LenProperties
<1>2. lines[e - 1].kind = "mac" /\ lines[e - 1].mac = m /\ lines[e - 2].ip = i
  BY DEF BlockAt
<1>3. <<lines[e - 1].mac, lines[(e - 1) - 1].ip>> \in given
  BY <1>1, <1>2 DEF WellFormed
<1> QED
  BY <1>1, <1>2, <1>3

\* The rest of a file after some lines.
Rest(lines, p) == SubSeq(lines, p + 1, Len(lines))

LEMMA RestOf ==
  ASSUME NEW lines \in Seq(Lines), NEW given \in SUBSET (Macs \X IPs), WellFormed(lines, given),
         NEW p \in 0..Len(lines)
  PROVE  /\ Rest(lines, p) \in Seq(Lines) /\ Len(Rest(lines, p)) = Len(lines) - p
         /\ \A k \in 1..Len(Rest(lines, p)) : Rest(lines, p)[k] = lines[k + p]
         /\ Chained(Rest(lines, p))
         /\ \A e \in 3..Len(Rest(lines, p)), m \in Macs, i \in IPs :
              BlockAt(Rest(lines, p), e, m, i) <=> BlockAt(lines, e + p, m, i)
<1> PICK rest : rest = Rest(lines, p)
  OBVIOUS
<1> PICK n \in Nat : n = Len(lines)
  BY LenProperties
<1> PICK q : q = p + 1
  OBVIOUS
<1>1. \A k \in q..n : lines[k] \in Lines
  <2>1. \A k \in q..n : k \in 1..Len(lines)
    OBVIOUS
  <2> QED
    BY <2>1, ElementOfSeq
<1>2. q \in Int /\ n \in Int
  OBVIOUS
<1>3. rest \in Seq(Lines) /\ Len(rest) = (IF q <= n THEN n - q + 1 ELSE 0) /\ \A k \in 1..n - q + 1 : rest[k] = lines[q + k - 1]
  BY <1>1, <1>2, SubSeqProperties DEF Rest
<1>4. Len(rest) = n - p /\ n - q + 1 = n - p
  BY <1>3
<1>5. ASSUME NEW k \in 1..(n - p) PROVE rest[k] = lines[k + p] /\ k + p \in 1..n
  <2>1. q + k - 1 = k + p
    OBVIOUS
  <2>2. rest[k] = lines[q + k - 1]
    BY <1>3, <1>4
  <2>3. k + p \in 1..n
    OBVIOUS
  <2> QED
    BY <2>1, <2>2, <2>3
<1>6. Chained(rest)
  <2> SUFFICES ASSUME NEW k \in 2..Len(rest)
               PROVE  /\ rest[k].kind = "mac" => rest[k - 1].kind = "lease"
                      /\ rest[k].kind = "end" => rest[k - 1].kind \in {"lease", "mac"}
    BY DEF Chained
  <2>1. k \in 1..(n - p) /\ k - 1 \in 1..(n - p) /\ (k - 1) + p = (k + p) - 1
    BY <1>4
  <2>2. rest[k] = lines[k + p] /\ rest[k - 1] = lines[(k + p) - 1] /\ k + p \in 1..Len(lines)
    BY <1>5, <2>1
  <2> QED
    BY <2>2 DEF WellFormed
<1>7. ASSUME NEW e \in 3..Len(rest), NEW m \in Macs, NEW i \in IPs
      PROVE  BlockAt(rest, e, m, i) <=> BlockAt(lines, e + p, m, i)
  <2>1. /\ e \in 1..(n - p) /\ e - 1 \in 1..(n - p) /\ e - 2 \in 1..(n - p)
        /\ (e - 1) + p = (e + p) - 1 /\ (e - 2) + p = (e + p) - 2
    BY <1>4
  <2>2. rest[e] = lines[e + p] /\ rest[e - 1] = lines[(e + p) - 1] /\ rest[e - 2] = lines[(e + p) - 2]
    BY <1>5, <2>1
  <2> QED
    BY <2>2 DEF BlockAt
<1> QED
  BY <1>3, <1>4, <1>5, <1>6, <1>7

\* Whatever a reading starts in, what it parses was given.
LEMMA ParsedGiven ==
  ASSUME NEW lines \in Seq(Lines), NEW given \in SUBSET (Macs \X IPs), WellFormed(lines, given),
         NEW p \in 0..Len(lines)
  PROVE  /\ Parse(Rest(lines, p)) \in LeaseMap
         /\ \A m \in Macs : Parse(Rest(lines, p))[m] # None
                              => <<m, Parse(Rest(lines, p))[m]>> \in given
<1> PICK rest : rest = Rest(lines, p)
  OBVIOUS
<1>1. /\ rest \in Seq(Lines) /\ Len(rest) = Len(lines) - p /\ Chained(rest)
      /\ \A e \in 3..Len(rest), m \in Macs, i \in IPs : BlockAt(rest, e, m, i) <=> BlockAt(lines, e + p, m, i)
  BY RestOf
<1> PICK new : new = Parse(rest)
  OBVIOUS
<1>2. new \in LeaseMap /\ Collected(new, rest, Len(rest))
  BY <1>1, Parsed
<1>3. ASSUME NEW m \in Macs, new[m] # None PROVE <<m, new[m]>> \in given
  <2> PICK i \in IPs : i = new[m]
    BY <1>2, <1>3 DEF LeaseMap
  <2>1. LastBlock(rest, Len(rest), m, i)
    BY <1>2, <1>3 DEF Collected
  <2>2. PICK e \in 3..Len(rest) : BlockAt(rest, e, m, i)
    BY <2>1 DEF LastBlock
  <2>3. BlockAt(lines, e + p, m, i)
    BY <1>1, <2>2
  <2>4. e + p \in 3..Len(lines)
    BY <1>1, LenProperties
  <2> QED
    BY <2>3, <2>4, BlockGiven
<1> QED
  BY <1>2, <1>3

\* A map that has the last blocks of a beginning that ends with a block, with what is
\* parsed from some line of that beginning on, has the last blocks of the whole.
LEMMA RestLearned ==
  ASSUME NEW lines \in Seq(Lines), NEW given \in SUBSET (Macs \X IPs), WellFormed(lines, given),
         NEW p \in 0..Len(lines), NEW n \in p..Len(lines), n > 0 => lines[n].kind = "end",
         NEW old \in LeaseMap, \A c \in Macs, j \in IPs : LastBlock(lines, n, c, j) => old[c] = j,
         NEW m \in Macs, NEW i \in IPs, LastBlock(lines, Len(lines), m, i)
  PROVE  Parse(Rest(lines, p))[m] = i \/ (Parse(Rest(lines, p))[m] = None /\ old[m] = i)
<1> PICK new : new = Parse(Rest(lines, p))
  OBVIOUS
<1> PICK rest : rest = Rest(lines, p)
  OBVIOUS
<1> PICK L \in Nat : L = Len(lines)
  BY LenProperties
<1>1. /\ rest \in Seq(Lines) /\ Len(rest) = L - p /\ Chained(rest)
      /\ \A e \in 3..Len(rest), c \in Macs, j \in IPs : BlockAt(rest, e, c, j) <=> BlockAt(lines, e + p, c, j)
  BY RestOf
<1>2. new \in LeaseMap /\ Collected(new, rest, L - p)
  BY <1>1, Parsed
<1>3. PICK e \in 3..L : BlockAt(lines, e, m, i) /\ \A d \in (e + 1)..L, j \in IPs : ~BlockAt(lines, d, m, j)
  BY DEF LastBlock
<1>4. \A x \in 3..(L - p), j \in IPs : BlockAt(rest, x, m, j) <=> BlockAt(lines, x + p, m, j)
  BY <1>1
<1>5. CASE e >= p + 3
  <2> PICK x : x = e - p
    OBVIOUS
  <2>1. x \in 3..(L - p) /\ x + p = e
    BY <1>5
  <2>2. BlockAt(rest, x, m, i)
    BY <1>3, <1>4, <2>1
  <2>3. ASSUME NEW d \in (x + 1)..(L - p), NEW j \in IPs PROVE ~BlockAt(rest, d, m, j)
    <3>1. d \in 3..(L - p) /\ d + p \in (e + 1)..L
      BY SMTT(30), <2>1
    <3> QED
      BY <1>3, <1>4, <3>1
  <2>4. LastBlock(rest, L - p, m, i)
    BY <2>1, <2>2, <2>3 DEF LastBlock
  <2> QED
    BY <1>2, <2>4 DEF Collected
<1>6. CASE e < p + 3
  <2>1. new[m] = None
    <3> SUFFICES ASSUME new[m] # None PROVE FALSE
      OBVIOUS
    <3> PICK j \in IPs : j = new[m]
      BY <1>2 DEF LeaseMap
    <3>1. LastBlock(rest, L - p, m, j)
      BY <1>2 DEF Collected
    <3>2. PICK x \in 3..(L - p) : BlockAt(rest, x, m, j)
      BY <3>1 DEF LastBlock
    <3> PICK d : d = x + p
      OBVIOUS
    <3>3. BlockAt(lines, d, m, j)
      BY <1>4, <3>2
    <3>4. d \in Int /\ d >= p + 3 /\ d <= L
      OBVIOUS
    <3>5. d \in (e + 1)..L
      BY <1>6, <3>4
    <3> QED
      BY <1>3, <3>3, <3>5
  <2>2. e <= n
    <3> SUFFICES ASSUME e > n PROVE FALSE
      BY <1>1
    <3>1. n > 0 /\ (n = e - 1 \/ n = e - 2)
      BY <1>6
    <3>2. lines[n].kind = "end"
      BY <3>1
    <3>3. lines[e - 1].kind = "mac" /\ lines[e - 2].kind = "lease"
      BY <1>3 DEF BlockAt
    <3> QED
      BY <3>1, <3>2, <3>3
  <2>3. LastBlock(lines, n, m, i)
    <3>1. e \in 3..n /\ \A d \in (e + 1)..n : d \in (e + 1)..L
      BY <2>2
    <3> QED
      BY <1>3, <3>1 DEF LastBlock
  <2> QED
    BY <2>1, <2>3
<1>7. e \in Int /\ p \in Int
  OBVIOUS
<1>8. e >= p + 3 \/ e < p + 3
  BY <1>7
<1> QED
  BY <1>5, <1>6, <1>8

-----------------------------------------------------------------------------
(* Types.                                                                  *)

LEMMA WatcherForms ==
  ASSUME watcher \in Watching
  PROVE  /\ watcher.step \in {"idle", "stat", "slice", "leases", "arp", "panic", "read", "merge", "upsert"}
         /\ watcher.step = "read" => watcher \in [step : {"read"}, stat : Stats, generation : Nat]
         /\ watcher.step = "merge" =>
              watcher \in [step : {"merge"}, stat : Stats, generation : Nat, new : LeaseMap]
         /\ watcher.step = "upsert" => watcher \in [step : {"upsert"}, snap : LeaseMap, todo : SUBSET Macs]
         /\ watcher = Idle => watcher.step = "idle"
<1> QED
  BY DEF Watching, Idle

LEMMA CallForms ==
  ASSUME NEW S, NEW call \in {Idle} \cup [step : S, lease : Lease], "idle" \notin S
  PROVE  /\ call = Idle <=> call.step = "idle"
         /\ call # Idle => call.step \in S /\ call.lease \in Lease
                           /\ call.lease.mac \in Macs /\ call.lease.ip \in IPs
<1> QED
  BY DEF Idle, Lease

Spendings == [grants : Nat, rotations : Nat, switches : Nat, faults : Nat]

\* What is left of the bounds after each kind of event.
LEMMA Spent ==
  ASSUME TypeInv
  PROVE  /\ Event("faults") => /\ spent' = [spent EXCEPT !.faults = @ + 1] /\ spent' \in Spendings
                               /\ spent'.grants = spent.grants /\ spent'.rotations = spent.rotations
                               /\ spent'.switches = spent.switches /\ spent'.faults = spent.faults + 1
                               /\ spent'.rotations + spent'.switches + spent'.faults <= MaxEvents
         /\ Event("rotations") => /\ spent' \in Spendings
                                  /\ spent'.grants = spent.grants /\ spent'.rotations = spent.rotations + 1
                                  /\ spent'.switches = spent.switches /\ spent'.faults = spent.faults
                                  /\ spent'.rotations + spent'.switches + spent'.faults <= MaxEvents
         /\ Event("switches") => /\ spent' \in Spendings
                                 /\ spent'.grants = spent.grants /\ spent'.rotations = spent.rotations
                                 /\ spent'.switches = spent.switches + 1 /\ spent'.faults = spent.faults
                                 /\ spent'.rotations + spent'.switches + spent'.faults <= MaxEvents
         /\ Grant => /\ spent' \in Spendings
                     /\ spent'.grants = spent.grants + 1 /\ spent'.grants <= MaxGrants
                     /\ spent'.rotations = spent.rotations
                     /\ spent'.switches = spent.switches /\ spent'.faults = spent.faults
<1>1. spent \in Spendings /\ MaxEvents \in Nat /\ MaxGrants \in Nat
  BY LeasesAssumption DEF TypeInv, Spendings
<1> PICK s \in Spendings : s = spent
  BY <1>1
<1> PICK t : t = spent'
  OBVIOUS
<1>2. ASSUME Event("faults")
      PROVE  /\ t = [s EXCEPT !.faults = @ + 1] /\ t \in Spendings /\ t.grants = s.grants /\ t.rotations = s.rotations
             /\ t.switches = s.switches /\ t.faults = s.faults + 1 /\ t.rotations + t.switches + t.faults <= MaxEvents
  <2>1. t = [s EXCEPT !.faults = @ + 1] /\ s.rotations + s.switches + s.faults < MaxEvents
    BY <1>2 DEF Event
  <2> QED
    BY <1>1, <2>1 DEF Spendings
<1>3. ASSUME Event("rotations")
      PROVE  /\ t \in Spendings /\ t.grants = s.grants /\ t.rotations = s.rotations + 1
             /\ t.switches = s.switches /\ t.faults = s.faults /\ t.rotations + t.switches + t.faults <= MaxEvents
  <2>1. t = [s EXCEPT !.rotations = @ + 1] /\ s.rotations + s.switches + s.faults < MaxEvents
    BY <1>3 DEF Event
  <2> QED
    BY <1>1, <2>1 DEF Spendings
<1>4. ASSUME Event("switches")
      PROVE  /\ t \in Spendings /\ t.grants = s.grants /\ t.rotations = s.rotations
             /\ t.switches = s.switches + 1 /\ t.faults = s.faults /\ t.rotations + t.switches + t.faults <= MaxEvents
  <2>1. t = [s EXCEPT !.switches = @ + 1] /\ s.rotations + s.switches + s.faults < MaxEvents
    BY <1>4 DEF Event
  <2> QED
    BY <1>1, <2>1 DEF Spendings
<1>5. ASSUME Grant
      PROVE  /\ t \in Spendings /\ t.grants = s.grants + 1 /\ t.grants <= MaxGrants /\ t.rotations = s.rotations
             /\ t.switches = s.switches /\ t.faults = s.faults
  <2>1. t = [s EXCEPT !.grants = @ + 1] /\ s.grants < MaxGrants
    BY <1>5 DEF Grant
  <2> QED
    BY <1>1, <2>1 DEF Spendings
<1> QED
  BY <1>2, <1>3, <1>4, <1>5

\* The address in a call is put in the place of its MAC.
LEMMA Placed ==
  ASSUME NEW map \in LeaseMap, NEW m \in Macs, NEW i \in IPs
  PROVE  [map EXCEPT ![m] = i] \in LeaseMap
<1> QED
  BY DEF LeaseMap

\* The file that replaces the old one has a block for each lease of dhcpd.
LEMMA Rotated ==
  ASSUME TypeInv, FileInv, Rotate
  PROVE  file' \in Seq(Lines) /\ WellFormed(file', granted)
<1> PICK S : S = {m \in Macs : leased[m] # None}
  OBVIOUS
<1>1. PICK order \in SetToSeqs(S) : file' = FlattenSeq([k \in DOMAIN order |-> Block(order[k], leased[order[k]])])
  BY DEF Rotate
<1> PICK n : n = Cardinality(S)
  OBVIOUS
<1>2. order \in [1..n -> S]
  BY <1>1 DEF SetToSeqs
<1> PICK lease : lease = leased
  OBVIOUS
<1> PICK given \in SUBSET (Macs \X IPs) : given = granted
  BY DEF TypeInv
<1>3. \A m \in S : m \in Macs /\ lease[m] \in IPs /\ <<m, lease[m]>> \in given
  BY DEF TypeInv, FileInv, LeaseMap
<1> PICK seqs : seqs = [k \in DOMAIN order |-> Block(order[k], lease[order[k]])]
  OBVIOUS
<1>4. \A k \in 1..n : seqs[k] = Block(order[k], lease[order[k]])
  BY <1>2
<1>5. ASSUME NEW k \in 1..n PROVE \E m \in Macs, i \in IPs : seqs[k] = Block(m, i) /\ <<m, i>> \in given
  <2>1. order[k] \in S
    BY <1>2
  <2> QED
    BY <1>3, <1>4, <2>1
<1>6. ASSUME NEW k \in 1..n PROVE seqs[k] \in Seq(Lines)
  <2> PICK m \in Macs, i \in IPs : seqs[k] = Block(m, i)
    BY <1>5
  <2>1. Block(m, i) \in Seq(Lines)
    BY BlockLines
  <2> QED
    BY <2>1
<1>7. seqs \in [1..n -> Seq(Lines)]
  <2>1. DOMAIN seqs = 1..n /\ seqs = [k \in 1..n |-> seqs[k]]
    BY <1>2
  <2> QED
    BY <1>6, <2>1
<1>8. n \in Nat
  <2>1. IsFiniteSet(Macs) /\ S \subseteq Macs
    BY LeasesAssumption
  <2>2. IsFiniteSet(S)
    BY <2>1, FS_Subset
  <2> QED
    BY <2>2, FS_CardinalityType
<1>9. FlattenSeq(seqs) \in Seq(Lines) /\ WellFormed(FlattenSeq(seqs), given)
  BY <1>5, <1>7, <1>8, BlocksWellFormed
<1> QED
  BY <1>1, <1>9

LEMMA TypeStep ==
  ASSUME TypeInv, FileInv, [Next]_vars
  PROVE  TypeInv'
<1> USE DEF net, dhcpd, history, Goto
<1>1. CASE UNCHANGED vars
  BY <1>1 DEF TypeInv, vars, Stats
<1>2. CASE Tick
  BY <1>2 DEF TypeInv, Tick, Watching
<1>3. CASE Stat
  BY <1>3 DEF TypeInv, Stat, Watching, Stats
<1>4. CASE ReadFile
  <2> PICK p \in Nat : p = StartPos
    BY <1>4, WatcherForms DEF TypeInv, ReadFile, StartPos, Stats
  <2>1. file \in Seq(Lines) /\ WellFormed(file, granted) /\ granted \in SUBSET (Macs \X IPs) /\ Len(file) \in Nat
    BY BeginningOf DEF TypeInv, FileInv
  <2>2. watcher \in [step : {"read"}, stat : Stats, generation : Nat]
    BY <1>4, WatcherForms DEF TypeInv, ReadFile
  <2> PICK new : new = Parse(Rest(file, p))
    OBVIOUS
  <2>3. watcher' \in Watching /\ (watcher'.step = "merge" => watcher'.generation = watcher.generation)
        /\ watcher'.step \in {"panic", "merge"}
    <3>1. CASE p > Len(file)
      BY <1>4, <3>1 DEF ReadFile, Watching
    <3>2. CASE ~(p > Len(file))
      <4>1. p \in 0..Len(file)
        BY <2>1, <3>2
      <4>2. new \in LeaseMap
        BY <2>1, <4>1, ParsedGiven DEF Rest
      <4>3. watcher' = [step |-> "merge", stat |-> watcher.stat, generation |-> watcher.generation, new |-> new]
        BY <1>4, <3>2 DEF ReadFile, Rest
      <4> QED
        BY <2>2, <4>2, <4>3 DEF Watching
    <3> QED
      BY <3>1, <3>2
  <2>4. whole' \in BOOLEAN
    BY <1>4 DEF ReadFile
  <2> QED
    BY <1>4, <2>2, <2>3, <2>4 DEF TypeInv, ReadFile
<1>5. CASE Merge
  <2>1. watcher \in [step : {"merge"}, stat : Stats, generation : Nat, new : LeaseMap]
    BY <1>5, WatcherForms DEF TypeInv, Merge
  <2>2. cache' \in LeaseMap
    BY <1>5, <2>1 DEF TypeInv, Merge, Merged, LeaseMap
  <2>3. watcher' \in Watching /\ watcher'.step = "slice"
    BY <1>5 DEF Merge, Watching
  <2>4. known' \in Stats /\ generation' \in Nat /\ generation' <= spent.rotations
    BY <1>5, <2>1 DEF TypeInv, Merge
  <2> QED
    BY <1>5, <2>2, <2>3, <2>4 DEF TypeInv, Merge
<1>6. CASE Slice
  BY <1>6 DEF TypeInv, Slice, Watching
<1>7. CASE DHCPLeases
  BY <1>7 DEF TypeInv, DHCPLeases, Watching, WorkOn
<1>8. CASE RegisterLease
  <2>1. watcher \in [step : {"upsert"}, snap : LeaseMap, todo : SUBSET Macs]
    BY <1>8, WatcherForms DEF TypeInv, RegisterLease
  <2>2. PICK m \in watcher.todo :
          /\ watcher' = [watcher EXCEPT !.todo = @ \ {m}]
          /\ \/ rows' = [rows EXCEPT ![m] = watcher.snap[m]] /\ UNCHANGED spent
             \/ Event("faults") /\ UNCHANGED rows
             \/ UNCHANGED <<rows, spent>>
    BY <1>8 DEF RegisterLease, Fail
  <2>3. watcher' \in [step : {"upsert"}, snap : LeaseMap, todo : SUBSET Macs]
    BY <2>1, <2>2
  <2>4. watcher' \in Watching /\ watcher'.step = "upsert"
    BY <2>3 DEF Watching
  <2>5. rows' \in LeaseMap
    BY <2>1, <2>2 DEF TypeInv, LeaseMap
  <2>6. /\ spent' \in Spendings /\ spent'.grants = spent.grants /\ spent'.rotations = spent.rotations
        /\ spent'.rotations + spent'.switches + spent'.faults <= MaxEvents
    BY <2>2, Spent DEF TypeInv, Spendings
  <2> QED
    BY <1>8, <2>4, <2>5, <2>6 DEF TypeInv, RegisterLease, Spendings
<1>9. CASE RememberLeases
  BY <1>9 DEF TypeInv, RememberLeases, Watching, Idle
<1>10. CASE SubmitHookLease
  <2> PICK m \in Macs, i \in IPs, l \in Lease : l = hook.lease /\ m = l.mac /\ i = l.ip
    <3>1. hook # Idle
      BY <1>10 DEF SubmitHookLease, Idle
    <3>2. hook \in [step : {"submit", "upsert"}, lease : Lease]
      BY <3>1 DEF TypeInv
    <3> QED
      BY <3>2 DEF Lease
  <2>1. CASE hooked /\ Len(queue) < ChanCap
    <3>1. queue' = Append(queue, l) /\ accepted' = [accepted EXCEPT ![m] = i] /\ hook' = [hook EXCEPT !.step = "upsert"]
      BY <1>10, <2>1 DEF SubmitHookLease
    <3>2. queue' \in Seq(Lease) /\ Len(queue') <= ChanCap
      BY <2>1, <3>1, AppendProperties, LenProperties, LeasesAssumption DEF TypeInv
    <3>3. accepted' \in LeaseMap
      BY <3>1, Placed DEF TypeInv
    <3>4. hook' \in [step : {"submit", "upsert"}, lease : Lease]
      <4>1. hook \in [step : {"submit", "upsert"}, lease : Lease]
        BY <1>10 DEF TypeInv, SubmitHookLease, Idle
      <4> QED
        BY <3>1, <4>1
    <3> QED
      BY <1>10, <3>2, <3>3, <3>4 DEF TypeInv, SubmitHookLease
  <2>2. CASE ~(hooked /\ Len(queue) < ChanCap)
    BY <1>10, <2>2 DEF TypeInv, SubmitHookLease
  <2> QED
    BY <2>1, <2>2
<1>11. CASE HookUpsert
  <2> PICK m \in Macs, i \in IPs : m = hook.lease.mac /\ i = hook.lease.ip
    <3>1. hook # Idle
      BY <1>11 DEF HookUpsert, Idle
    <3>2. hook \in [step : {"submit", "upsert"}, lease : Lease]
      BY <3>1 DEF TypeInv
    <3> QED
      BY <3>2 DEF Lease
  <2>1. \/ rows' = [rows EXCEPT ![m] = i] /\ UNCHANGED spent
        \/ Event("faults") /\ UNCHANGED rows
    BY <1>11 DEF HookUpsert, Fail
  <2>2. rows' \in LeaseMap
    BY <2>1, Placed DEF TypeInv
  <2>3. /\ spent' \in Spendings /\ spent'.grants = spent.grants /\ spent'.rotations = spent.rotations
        /\ spent'.rotations + spent'.switches + spent'.faults <= MaxEvents
    BY <2>1, Spent DEF TypeInv, Spendings
  <2> QED
    BY <1>11, <2>2, <2>3 DEF TypeInv, HookUpsert, Spendings
<1>12. CASE Receive
  <2>1. queue \in Seq(Lease) /\ queue # <<>> /\ Len(queue) \in Nat
    BY <1>12, LenProperties DEF TypeInv, Receive
  <2>2. Head(queue) \in Lease /\ Tail(queue) \in Seq(Lease) /\ Len(Tail(queue)) = Len(queue) - 1
    BY <2>1, HeadTailProperties
  <2>3. listener' \in [step : {"received", "writing"}, lease : Lease]
    BY <1>12, <2>2 DEF Receive
  <2>4. queue' \in Seq(Lease) /\ Len(queue') <= ChanCap
    BY <1>12, <2>1, <2>2, LeasesAssumption DEF Receive, TypeInv
  <2> QED
    BY <1>12, <2>3, <2>4 DEF TypeInv, Receive
<1>13. CASE HandleDHCPHook
  <2>1. listener \in [step : {"received", "writing"}, lease : Lease]
    BY <1>13 DEF TypeInv, HandleDHCPHook, Idle
  <2>2. CASE listener.step = "received"
    <3>1. listener' = [listener EXCEPT !.step = "writing"] /\ UNCHANGED cache
      BY <1>13, <2>2 DEF HandleDHCPHook
    <3>2. listener' \in [step : {"received", "writing"}, lease : Lease]
      BY <2>1, <3>1
    <3> QED
      BY <1>13, <3>1, <3>2 DEF TypeInv, HandleDHCPHook
  <2>3. CASE listener.step = "writing"
    <3> PICK m \in Macs, i \in IPs : m = listener.lease.mac /\ i = listener.lease.ip
      BY <2>1 DEF Lease
    <3>1. listener' = Idle /\ cache' = [cache EXCEPT ![m] = i]
      BY <1>13, <2>3 DEF HandleDHCPHook
    <3>2. cache' \in LeaseMap
      BY <3>1, Placed DEF TypeInv
    <3> QED
      BY <1>13, <3>1, <3>2 DEF TypeInv, HandleDHCPHook
  <2> QED
    BY <1>13, <2>2, <2>3 DEF HandleDHCPHook
<1>14. ASSUME NEW m \in Macs, NEW i \in IPs, Commit(m, i) PROVE TypeInv'
  <2> PICK b \in Seq(Lines) : b = Block(m, i)
    BY BlockLines
  <2>1. buffer' \in Seq(Lines)
    BY <1>14, ConcatProperties DEF TypeInv, Commit
  <2>2. leased' \in LeaseMap
    BY <1>14, Placed DEF TypeInv, Commit
  <2>3. hook' \in [step : {"submit", "upsert"}, lease : Lease]
    BY <1>14 DEF Commit, Lease
  <2>4. granted' \subseteq Macs \X IPs
    BY <1>14 DEF TypeInv, Commit
  <2>5. /\ spent' \in Spendings /\ spent'.grants <= MaxGrants /\ spent'.rotations = spent.rotations
        /\ spent'.switches = spent.switches /\ spent'.faults = spent.faults
    BY <1>14, Spent DEF Commit
  <2> QED
    BY <1>14, <2>1, <2>2, <2>3, <2>4, <2>5 DEF TypeInv, Commit, Spendings
<1>15. ASSUME NEW i \in IPs, Abandon(i) PROVE TypeInv'
  <2> PICK b \in Seq(Lines) : b = Block(None, i)
    BY BlockLines
  <2>1. buffer' \in Seq(Lines)
    BY <1>15, ConcatProperties DEF TypeInv, Abandon
  <2>2. /\ spent' \in Spendings /\ spent'.grants <= MaxGrants /\ spent'.rotations = spent.rotations
        /\ spent'.switches = spent.switches /\ spent'.faults = spent.faults
    BY <1>15, Spent DEF Abandon
  <2> QED
    BY <1>15, <2>1, <2>2 DEF TypeInv, Abandon, Spendings
<1>16. CASE Flush
  BY SMTT(30), <1>16 DEF TypeInv, Flush
<1>17. CASE Rotate
  <2>1. file' \in Seq(Lines)
    BY <1>17, Rotated
  <2>2. /\ spent' \in Spendings /\ spent'.grants = spent.grants /\ spent'.rotations = spent.rotations + 1
        /\ spent'.rotations + spent'.switches + spent'.faults <= MaxEvents
    BY <1>17, Spent DEF Rotate
  <2>3. generation <= spent'.rotations /\ (watcher.step \in {"read", "merge"} => watcher.generation <= spent'.rotations)
    <3>1. generation \in Nat /\ spent.rotations \in Nat /\ (watcher.step \in {"read", "merge"} => watcher.generation \in Nat)
      BY WatcherForms DEF TypeInv
    <3> QED
      BY <2>2, <3>1 DEF TypeInv
  <2>4. mtime' \in Nat
    BY <1>17 DEF TypeInv, Rotate
  <2> QED
    BY <1>17, <2>1, <2>2, <2>3, <2>4 DEF TypeInv, Rotate, Spendings
<1>18. CASE SetLeaseMonitorMode
  <2>1. /\ spent' \in Spendings /\ spent'.grants = spent.grants /\ spent'.rotations = spent.rotations
        /\ spent'.rotations + spent'.switches + spent'.faults <= MaxEvents
    BY <1>18, Spent DEF SetLeaseMonitorMode
  <2>2. mode' \in {"hook", "file_poll"}
    BY <1>18 DEF SetLeaseMonitorMode
  <2> QED
    BY <1>18, <2>1, <2>2 DEF TypeInv, SetLeaseMonitorMode, Spendings
<1>19. CASE Restart
  <2>1. NoLeases \in LeaseMap /\ Idle \in Watching /\ Idle.step = "idle" /\ [mtime |-> -1, size |-> 0] \in Stats
    BY DEF NoLeases, LeaseMap, Watching, Idle, Stats
  <2>2. <<>> \in Seq(Lease) /\ Len(<<>>) <= ChanCap
    BY EmptySeq, LeasesAssumption
  <2>3. mode' \in {"hook", "file_poll"} /\ generation' \in Nat /\ generation' <= spent.rotations /\ whole' \in BOOLEAN
    BY <1>19 DEF Restart, TypeInv
  <2> QED
    BY <1>19, <2>1, <2>2, <2>3 DEF TypeInv, Restart
<1> QED
  BY <1>1, <1>2, <1>3, <1>4, <1>5, <1>6, <1>7, <1>8, <1>9, <1>10, <1>11, <1>12, <1>13, <1>14, <1>15, <1>16,
     <1>17, <1>18, <1>19 DEF Next, Watch, Hook, Listen

-----------------------------------------------------------------------------
(* The file, and what was granted.                                         *)

LEMMA FileSteps ==
  ASSUME [Next]_vars
  PROVE  \/ UNCHANGED dhcpd
         \/ \E m \in Macs, i \in IPs : Commit(m, i)
         \/ \E i \in IPs : Abandon(i)
         \/ Flush \/ Rotate
<1> QED
  BY DEF Next, vars, dhcpd, Watch, Hook, Listen, Tick, Stat, ReadFile, Merge, Slice, DHCPLeases, RegisterLease,
         RememberLeases, SubmitHookLease, HookUpsert, Receive, HandleDHCPHook, SetLeaseMonitorMode, Restart

LEMMA Reassociated ==
  ASSUME NEW a \in Seq(Lines), NEW b \in Seq(Lines), NEW c \in Seq(Lines)
  PROVE  (a \o b) \o c = a \o (b \o c)
<1> QED
  BY ConcatAssociative

LEMMA SequenceSplit ==
  ASSUME NEW lines \in Seq(Lines), NEW n \in 1..Len(lines)
  PROVE  /\ SubSeq(lines, 1, n) \in Seq(Lines)
         /\ SubSeq(lines, n + 1, Len(lines)) \in Seq(Lines)
         /\ SubSeq(lines, 1, n) \o SubSeq(lines, n + 1, Len(lines)) = lines
<1> PICK L \in Nat : L = Len(lines)
  BY LenProperties
<1> PICK q \in Int : q = n + 1
  OBVIOUS
<1>1. \A k \in 1..n : lines[k] \in Lines
  BY ElementOfSeq
<1>2. \A k \in q..L : lines[k] \in Lines
  <2>1. \A k \in q..L : k \in 1..Len(lines)
    OBVIOUS
  <2> QED
    BY <2>1, ElementOfSeq
<1>3. SubSeq(lines, 1, n) \in Seq(Lines)
  BY <1>1, SubSeqProperties
<1>4. SubSeq(lines, q, L) \in Seq(Lines)
  BY <1>2, SubSeqProperties
<1>5. SubSeq(lines, 1, L) = lines
  BY SubSeqFull
<1>6. 1 \in 1..Len(lines) + 1 /\ n \in (1 - 1)..Len(lines) /\ L \in n..Len(lines)
  OBVIOUS
<1>7. SubSeq(lines, 1, n) \o SubSeq(lines, n + 1, L) = SubSeq(lines, 1, L)
  BY <1>6, ConcatAdjacentSubSeq
<1> QED
  BY <1>3, <1>4, <1>5, <1>7

LEMMA FileStep ==
  ASSUME TypeInv, FileInv, [Next]_vars
  PROVE  FileInv' /\ granted \subseteq granted'
<1>1. CASE UNCHANGED dhcpd
  BY <1>1 DEF FileInv, WellFormed, dhcpd
<1>2. /\ file \in Seq(Lines) /\ buffer \in Seq(Lines) /\ granted \in SUBSET (Macs \X IPs)
      /\ file \o buffer \in Seq(Lines) /\ WellFormed(file \o buffer, granted)
  BY ConcatProperties DEF TypeInv, FileInv
<1>3. ASSUME NEW m \in Macs, NEW i \in IPs, Commit(m, i) PROVE FileInv' /\ granted \subseteq granted'
  <2> PICK b \in Seq(Lines) : b = Block(m, i)
    BY BlockLines
  <2> PICK given \in SUBSET (Macs \X IPs) : given = granted'
    BY <1>3, TypeStep DEF TypeInv, Commit
  <2>1. granted \subseteq given /\ <<m, i>> \in given
    BY <1>3 DEF Commit
  <2>2. WellFormed((file \o buffer) \o b, given)
    BY <1>2, <2>1, BlockAppended
  <2>3. (file \o buffer) \o b = file \o (buffer \o b)
    BY SMTT(30), <1>2, ConcatAssociative
  <2>4. file' = file /\ buffer' = buffer \o b
    BY <1>3 DEF Commit
  <2>5. ASSUME NEW c \in Macs, leased'[c] # None PROVE <<c, leased'[c]>> \in granted'
    BY <1>3, <2>1, <2>5 DEF Commit, FileInv, TypeInv, LeaseMap
  <2>6. WellFormed(file' \o buffer', granted')
    BY <2>2, <2>3, <2>4
  <2> QED
    BY <2>1, <2>5, <2>6 DEF FileInv
<1>4. ASSUME NEW i \in IPs, Abandon(i) PROVE FileInv' /\ granted \subseteq granted'
  <2> PICK b \in Seq(Lines) : b = Block(None, i)
    BY BlockLines
  <2>1. WellFormed((file \o buffer) \o b, granted)
    BY <1>2, BlockAppended
  <2>2. (file \o buffer) \o b = file \o (buffer \o b)
    BY SMTT(30), <1>2, ConcatAssociative
  <2>3. file' = file /\ buffer' = buffer \o b /\ granted' = granted /\ leased' = leased
    BY <1>4 DEF Abandon
  <2>4. WellFormed(file' \o buffer', granted')
    BY <2>1, <2>2, <2>3
  <2> QED
    BY <2>3, <2>4 DEF FileInv
<1>5. CASE Flush
  <2>1. PICK n \in 1..Len(buffer) : file' = file \o SubSeq(buffer, 1, n) /\ buffer' = SubSeq(buffer, n + 1, Len(buffer))
    BY <1>5 DEF Flush
  <2> PICK first : first = SubSeq(buffer, 1, n)
    OBVIOUS
  <2> PICK second : second = SubSeq(buffer, n + 1, Len(buffer))
    OBVIOUS
  <2>2. first \in Seq(Lines) /\ second \in Seq(Lines) /\ first \o second = buffer
    BY <1>2, SequenceSplit
  <2>3. (file \o first) \o second = file \o (first \o second)
    <3>1. file \in Seq(Lines) /\ first \in Seq(Lines) /\ second \in Seq(Lines)
      BY <1>2, <2>2
    <3> QED
      BY ZenonT(60), <3>1, Reassociated
  <2>4. file' \o buffer' = file \o buffer /\ granted' = granted /\ leased' = leased
    BY <1>5, <2>1, <2>2, <2>3 DEF Flush
  <2>5. WellFormed(file' \o buffer', granted')
    BY <1>2, <2>4
  <2> QED
    BY <2>4, <2>5 DEF FileInv
<1>6. CASE Rotate
  <2>1. file' \in Seq(Lines) /\ WellFormed(file', granted)
    BY <1>6, Rotated
  <2>2. buffer' = <<>> /\ granted' = granted /\ leased' = leased
    BY <1>6 DEF Rotate
  <2>3. file' \o buffer' = file'
    BY <2>1, <2>2, ConcatEmptySeq
  <2>4. WellFormed(file' \o buffer', granted')
    BY <2>1, <2>2, <2>3
  <2> QED
    BY <2>2, <2>4 DEF FileInv
<1> QED
  BY <1>1, <1>3, <1>4, <1>5, <1>6, FileSteps

LEMMA GrantedStep ==
  ASSUME TypeInv, FileInv, GrantedInv, [Next]_vars
  PROVE  GrantedInv'
<1>1. granted \subseteq granted'
  BY FileStep
<1> DEFINE CacheOK == \A m \in Macs : cache[m] # None => <<m, cache[m]>> \in granted
           HookOK == hook # Idle => <<hook.lease.mac, hook.lease.ip>> \in granted
           ListenerOK == listener # Idle => <<listener.lease.mac, listener.lease.ip>> \in granted
           QueueOK == \A k \in DOMAIN queue : <<queue[k].mac, queue[k].ip>> \in granted
           NewOK == watcher.step = "merge" => \A m \in Macs : watcher.new[m] # None => <<m, watcher.new[m]>> \in granted
<1>2. CacheOK /\ HookOK /\ ListenerOK /\ QueueOK /\ NewOK
  BY DEF GrantedInv
<1>3. UNCHANGED cache => CacheOK'
  BY <1>1, <1>2
<1>4. UNCHANGED hook \/ hook' = Idle => HookOK'
  BY <1>1, <1>2 DEF Idle
<1>5. UNCHANGED listener \/ listener' = Idle => ListenerOK'
  BY <1>1, <1>2 DEF Idle
<1>6. UNCHANGED queue \/ queue' = <<>> => QueueOK'
  BY <1>1, <1>2
<1>7. UNCHANGED watcher \/ watcher'.step # "merge" => NewOK'
  BY <1>1, <1>2
<1> HIDE DEF CacheOK, HookOK, ListenerOK, QueueOK, NewOK
<1> USE DEF net, dhcpd, history, Goto
<1> SUFFICES CacheOK' /\ HookOK' /\ ListenerOK' /\ QueueOK' /\ NewOK'
  BY DEF GrantedInv, CacheOK, HookOK, ListenerOK, QueueOK, NewOK
<1>8. CASE UNCHANGED vars
  BY <1>3, <1>4, <1>5, <1>6, <1>7, <1>8 DEF vars
<1>9. CASE Tick \/ Stat \/ Slice \/ DHCPLeases \/ RegisterLease \/ RememberLeases
  <2>1. UNCHANGED <<cache, hook, listener, queue>>
    BY <1>9 DEF Tick, Stat, Slice, DHCPLeases, RegisterLease, RememberLeases
  <2>2. watcher'.step # "merge"
    BY <1>9, WatcherForms DEF TypeInv, Tick, Stat, Slice, DHCPLeases, WorkOn, RegisterLease, RememberLeases, Idle
  <2> QED
    BY <1>3, <1>4, <1>5, <1>6, <1>7, <2>1, <2>2
<1>10. CASE ReadFile
  <2> PICK p \in Nat : p = StartPos
    BY <1>10, WatcherForms DEF TypeInv, ReadFile, StartPos, Stats
  <2>1. file \in Seq(Lines) /\ WellFormed(file, granted) /\ granted \in SUBSET (Macs \X IPs) /\ Len(file) \in Nat
    BY BeginningOf DEF TypeInv, FileInv
  <2>2. UNCHANGED <<cache, hook, listener, queue, granted>>
    BY <1>10 DEF ReadFile
  <2>3. NewOK'
    <3>1. CASE p > Len(file)
      BY <1>7, <1>10, <3>1 DEF ReadFile
    <3>2. CASE ~(p > Len(file))
      <4> PICK new : new = Parse(Rest(file, p))
        OBVIOUS
      <4>1. p \in 0..Len(file)
        BY <2>1, <3>2
      <4>2. \A m \in Macs : new[m] # None => <<m, new[m]>> \in granted
        BY <2>1, <4>1, ParsedGiven
      <4>3. watcher'.new = new
        BY <1>10, <3>2 DEF ReadFile, Rest
      <4> QED
        BY <2>2, <4>2, <4>3 DEF NewOK
    <3> QED
      BY <3>1, <3>2
  <2> QED
    BY <1>3, <1>4, <1>5, <1>6, <2>2, <2>3
<1>11. CASE Merge
  <2>1. UNCHANGED <<hook, listener, queue, granted>> /\ watcher'.step = "slice" /\ watcher.step = "merge"
        /\ cache' = [m \in Macs |-> IF watcher.new[m] = None THEN cache[m] ELSE watcher.new[m]]
    BY <1>11 DEF Merge, Merged
  <2>2. CacheOK'
    BY <1>2, <2>1 DEF CacheOK, NewOK
  <2> QED
    BY <1>4, <1>5, <1>6, <1>7, <2>1, <2>2
<1>12. CASE SubmitHookLease
  <2>1. UNCHANGED <<cache, listener, watcher, granted>>
    BY <1>12 DEF SubmitHookLease
  <2>2. HookOK' /\ QueueOK'
    <3>1. CASE hooked /\ Len(queue) < ChanCap
      <4>1. hook # Idle
        BY <1>12 DEF SubmitHookLease, Idle
      <4>2. hook \in [step : {"submit", "upsert"}, lease : Lease]
        BY <4>1 DEF TypeInv
      <4> PICK l \in Lease : l = hook.lease
        BY <4>2
      <4>3. hook'.lease = l /\ queue' = Append(queue, l)
        BY <1>12, <3>1, <4>2 DEF SubmitHookLease
      <4>4. <<l.mac, l.ip>> \in granted
        BY <1>2, <4>1 DEF HookOK
      <4>5. queue \in Seq(Lease)
        BY DEF TypeInv
      <4>6. \A k \in DOMAIN queue' : (k \in DOMAIN queue /\ queue'[k] = queue[k]) \/ queue'[k] = l
        BY <4>3, <4>5, AppendProperties, LenProperties
      <4>7. QueueOK'
        BY <1>2, <2>1, <4>4, <4>6 DEF QueueOK
      <4> QED
        BY <2>1, <4>3, <4>4, <4>7 DEF HookOK
    <3>2. CASE ~(hooked /\ Len(queue) < ChanCap)
      <4>1. hook' = Idle /\ UNCHANGED queue
        BY <1>12, <3>2 DEF SubmitHookLease
      <4> QED
        BY <1>4, <1>6, <4>1
    <3> QED
      BY <3>1, <3>2
  <2> QED
    BY <1>3, <1>5, <1>7, <2>1, <2>2
<1>13. CASE HookUpsert
  <2>1. UNCHANGED <<cache, listener, queue, watcher>> /\ hook' = Idle
    BY <1>13 DEF HookUpsert
  <2> QED
    BY <1>3, <1>4, <1>5, <1>6, <1>7, <2>1
<1>14. CASE Receive
  <2>1. UNCHANGED <<cache, hook, watcher, granted>> /\ queue # <<>> /\ queue' = Tail(queue)
        /\ listener'.lease = Head(queue)
    BY <1>14 DEF Receive
  <2>2. queue \in Seq(Lease) /\ Len(queue) \in Nat /\ DOMAIN queue = 1..Len(queue)
    BY LenProperties DEF TypeInv
  <2>3. Len(queue) > 0
    BY <2>1, <2>2, EmptySeq
  <2>4. Head(queue) = queue[1] /\ 1 \in DOMAIN queue
    <3>1. 1 \in DOMAIN queue
      BY <2>2, <2>3
    <3>2. Head(queue) = queue[1]
      BY <2>1, <2>2
    <3> QED
      BY <3>1, <3>2
  <2>5. queue' \in Seq(Lease) /\ Len(queue') = Len(queue) - 1 /\ \A k \in 1..Len(queue') : queue'[k] = queue[k + 1]
    BY <2>1, <2>2, HeadTailProperties
  <2>6. \A k \in DOMAIN queue' : k + 1 \in DOMAIN queue /\ queue'[k] = queue[k + 1]
    BY <2>2, <2>5, LenProperties
  <2>7. QueueOK'
    BY <1>2, <2>1, <2>6 DEF QueueOK
  <2>8. ListenerOK'
    BY <1>2, <2>1, <2>4 DEF QueueOK, ListenerOK
  <2> QED
    BY <1>3, <1>4, <1>7, <2>1, <2>7, <2>8
<1>15. CASE HandleDHCPHook
  <2>1. UNCHANGED <<hook, queue, watcher, granted>> /\ listener # Idle
    BY <1>15 DEF HandleDHCPHook, Idle
  <2>2. listener \in [step : {"received", "writing"}, lease : Lease]
    BY <2>1 DEF TypeInv
  <2>3. CASE listener.step = "received"
    <3>1. UNCHANGED cache /\ listener'.lease = listener.lease
      BY <1>15, <2>2, <2>3 DEF HandleDHCPHook
    <3>2. ListenerOK'
      BY <1>2, <2>1, <3>1 DEF ListenerOK
    <3> QED
      BY <1>3, <1>4, <1>6, <1>7, <2>1, <3>1, <3>2
  <2>4. CASE listener.step = "writing"
    <3> PICK c \in Macs, i \in IPs : c = listener.lease.mac /\ i = listener.lease.ip
      BY <2>2 DEF Lease
    <3>1. cache' = [cache EXCEPT ![c] = i] /\ listener' = Idle
      BY <1>15, <2>4 DEF HandleDHCPHook
    <3>2. <<c, i>> \in granted /\ cache \in LeaseMap
      BY <1>2, <2>1 DEF ListenerOK, TypeInv
    <3>3. CacheOK'
      BY <1>2, <2>1, <3>1, <3>2 DEF CacheOK, LeaseMap
    <3> QED
      BY <1>4, <1>5, <1>6, <1>7, <2>1, <3>1, <3>3
  <2> QED
    BY <1>15, <2>3, <2>4 DEF HandleDHCPHook
<1>16. ASSUME NEW m \in Macs, NEW i \in IPs, Commit(m, i)
       PROVE  CacheOK' /\ HookOK' /\ ListenerOK' /\ QueueOK' /\ NewOK'
  <2>1. UNCHANGED <<cache, listener, queue, watcher>> /\ hook'.lease = [mac |-> m, ip |-> i] /\ <<m, i>> \in granted'
    BY <1>16 DEF Commit
  <2>2. HookOK'
    BY <2>1 DEF HookOK
  <2> QED
    BY <1>3, <1>5, <1>6, <1>7, <2>1, <2>2
<1>17. CASE (\E i \in IPs : Abandon(i)) \/ Flush \/ Rotate \/ SetLeaseMonitorMode
  <2>1. UNCHANGED <<cache, hook, listener, queue, watcher>>
    BY <1>17 DEF Abandon, Flush, Rotate, SetLeaseMonitorMode
  <2> QED
    BY <1>3, <1>4, <1>5, <1>6, <1>7, <2>1
<1>18. CASE Restart
  <2>1. cache' = NoLeases /\ hook' = Idle /\ listener' = Idle /\ queue' = <<>> /\ watcher' = Idle
    BY <1>18 DEF Restart
  <2>2. CacheOK' /\ watcher'.step # "merge"
    BY <2>1 DEF CacheOK, NoLeases, Idle
  <2> QED
    BY <1>4, <1>5, <1>6, <1>7, <2>1, <2>2
<1> QED
  BY <1>8, <1>9, <1>10, <1>11, <1>12, <1>13, <1>14, <1>15, <1>16, <1>17, <1>18 DEF Next, Watch, Hook, Listen

-----------------------------------------------------------------------------
(* What is learned from the file.                                          *)

LEMMA LearnStays ==
  ASSUME LearnInv, UNCHANGED <<hooked, known, file, mtime, whole, generation>>,
         spent'.rotations = spent.rotations, hooked \/ UNCHANGED cache,
         UNCHANGED watcher \/ (watcher.step \notin {"read", "merge"} /\ watcher'.step \notin {"read", "merge"})
  PROVE  KnownInv' /\ StatInv' /\ ReachInv'
<1>1. KnownInv'
  BY DEF LearnInv, KnownInv
<1>2. StatInv'
  BY DEF LearnInv, StatInv
<1>3. ReachInv'
  <2> SUFFICES ASSUME ~hooked, whole PROVE ReachInv'
    BY DEF ReachInv
  <2>1. UNCHANGED cache
    OBVIOUS
  <2>2. CASE UNCHANGED watcher
    BY <2>1, <2>2 DEF LearnInv, ReachInv, Merged
  <2>3. CASE watcher.step \notin {"read", "merge"} /\ watcher'.step \notin {"read", "merge"}
    BY <2>1, <2>3 DEF LearnInv, ReachInv
  <2> QED
    BY <2>2, <2>3
<1> QED
  BY <1>1, <1>2, <1>3

\* A file that grows keeps its beginning.
LEMMA ReachedGrows ==
  ASSUME NEW now \in Seq(Lines), NEW more \in Seq(Lines), NEW size \in Nat, NEW leases \in LeaseMap,
         Reached(now, size, leases)
  PROVE  Reached(now \o more, size, leases)
<1> PICK all : all = now \o more
  OBVIOUS
<1>1. all \in Seq(Lines) /\ Len(now) \in Nat /\ Len(all) \in Nat /\ Len(now) <= Len(all)
      /\ \A k \in 1..Len(now) : all[k] = now[k]
  BY BeginningOf, LenProperties
<1>2. PICK n \in size..Len(now) :
        /\ n > 0 => now[n].kind = "end"
        /\ \A m \in Macs, i \in IPs : LastBlock(now, n, m, i) => leases[m] = i
  BY DEF Reached
<1>3. n \in size..Len(all) /\ n \in Nat /\ \A k \in 1..n : all[k] = now[k]
  BY <1>1, <1>2
<1>4. n > 0 => all[n].kind = "end"
  BY <1>2, <1>3
<1>5. ASSUME NEW m \in Macs, NEW i \in IPs, LastBlock(all, n, m, i) PROVE leases[m] = i
  BY <1>1, <1>2, <1>3, <1>5, SameLastBlock
<1> QED
  BY <1>3, <1>4, <1>5 DEF Reached

\* The steps of the program that learn nothing from the file, and those of dhcpd that do
\* not touch it.
LEMMA LearnQuiet ==
  ASSUME TypeInv, LearnInv,
         \/ UNCHANGED vars
         \/ Tick \/ Slice \/ DHCPLeases \/ RegisterLease \/ RememberLeases
         \/ Hook \/ Listen \/ SetLeaseMonitorMode
         \/ \E m \in Macs, i \in IPs : Commit(m, i)
         \/ \E i \in IPs : Abandon(i)
  PROVE  LearnInv'
<1> USE DEF net, dhcpd, history, Goto
<1>1. CASE UNCHANGED vars
  <2>1. Unhooked'
    BY <1>1 DEF vars, LearnInv, Unhooked
  <2> QED
    BY <1>1, <2>1, LearnStays DEF LearnInv, vars
<1>2. CASE Tick \/ Slice \/ DHCPLeases \/ RememberLeases
  <2>1. /\ UNCHANGED <<hooked, known, file, mtime, whole, generation, spent, cache, queue, hook, listener>>
        /\ watcher.step \notin {"read", "merge"} /\ watcher'.step \notin {"read", "merge"}
    BY <1>2 DEF Tick, Slice, DHCPLeases, WorkOn, RememberLeases, Idle
  <2>2. Unhooked'
    BY <2>1 DEF LearnInv, Unhooked
  <2> QED
    BY <2>1, <2>2, LearnStays DEF LearnInv
<1>3. CASE RegisterLease
  <2>1. watcher \in [step : {"upsert"}, snap : LeaseMap, todo : SUBSET Macs]
    BY <1>3, WatcherForms DEF TypeInv, RegisterLease
  <2>2. watcher'.step = "upsert" /\ watcher.step = "upsert"
    BY <1>3, <2>1 DEF RegisterLease
  <2>3. spent'.rotations = spent.rotations
    BY <1>3, Spent DEF RegisterLease, Fail
  <2>4. UNCHANGED <<hooked, known, file, mtime, whole, generation, cache, queue, hook, listener>>
    BY <1>3 DEF RegisterLease
  <2>5. Unhooked'
    BY <2>4 DEF LearnInv, Unhooked
  <2> QED
    BY <2>2, <2>3, <2>4, <2>5, LearnStays DEF LearnInv
<1>4. CASE SubmitHookLease
  <2>1. UNCHANGED <<hooked, known, file, mtime, whole, generation, spent, cache, watcher, listener>>
    BY <1>4 DEF SubmitHookLease
  <2>2. Unhooked'
    BY <1>4, <2>1 DEF LearnInv, Unhooked, SubmitHookLease, Idle
  <2> QED
    BY <2>1, <2>2, LearnStays DEF LearnInv
<1>5. CASE HookUpsert
  <2>1. UNCHANGED <<hooked, known, file, mtime, whole, generation, cache, watcher, listener, queue>> /\ hook' = Idle
    BY <1>5 DEF HookUpsert
  <2>2. spent'.rotations = spent.rotations
    BY <1>5, Spent DEF HookUpsert, Fail
  <2>3. Unhooked'
    BY <2>1 DEF LearnInv, Unhooked, Idle
  <2> QED
    BY <2>1, <2>2, <2>3, LearnStays DEF LearnInv
<1>6. CASE Receive \/ HandleDHCPHook
  <2>1. UNCHANGED <<hooked, known, file, mtime, whole, generation, spent, watcher>> /\ (queue # <<>> \/ listener # Idle)
    BY <1>6 DEF Receive, HandleDHCPHook, Idle
  <2>2. hooked
    BY <2>1 DEF LearnInv, Unhooked
  <2>3. Unhooked'
    BY <2>1, <2>2 DEF Unhooked
  <2> QED
    BY <2>1, <2>2, <2>3, LearnStays DEF LearnInv
<1>7. CASE SetLeaseMonitorMode
  <2>1. UNCHANGED <<hooked, known, file, mtime, whole, generation, cache, watcher, listener, queue, hook>>
    BY <1>7 DEF SetLeaseMonitorMode
  <2>2. spent'.rotations = spent.rotations
    BY <1>7, Spent DEF SetLeaseMonitorMode
  <2>3. Unhooked'
    BY <2>1 DEF LearnInv, Unhooked
  <2> QED
    BY <2>1, <2>2, <2>3, LearnStays DEF LearnInv
<1>8. ASSUME NEW m \in Macs, NEW i \in IPs, Commit(m, i) PROVE LearnInv'
  <2>1. UNCHANGED <<hooked, known, file, mtime, whole, generation, cache, watcher, listener, queue>> /\ hook'.step = "submit"
    BY <1>8 DEF Commit
  <2>2. spent'.rotations = spent.rotations
    BY <1>8, Spent DEF Commit
  <2>3. Unhooked'
    BY <2>1 DEF LearnInv, Unhooked
  <2> QED
    BY <2>1, <2>2, <2>3, LearnStays DEF LearnInv
<1>9. ASSUME NEW i \in IPs, Abandon(i) PROVE LearnInv'
  <2>1. UNCHANGED <<hooked, known, file, mtime, whole, generation, cache, watcher, listener, queue, hook>>
    BY <1>9 DEF Abandon
  <2>2. spent'.rotations = spent.rotations
    BY <1>9, Spent DEF Abandon
  <2>3. Unhooked'
    BY <2>1 DEF LearnInv, Unhooked
  <2> QED
    BY <2>1, <2>2, <2>3, LearnStays DEF LearnInv
<1> QED
  BY <1>1, <1>2, <1>3, <1>4, <1>5, <1>6, <1>7, <1>8, <1>9 DEF Hook, Listen

LEMMA LearnStat ==
  ASSUME TypeInv, LearnInv, Stat
  PROVE  LearnInv'
<1> USE DEF net, dhcpd, history, Goto
<1>1. UNCHANGED <<hooked, known, file, mtime, whole, generation, spent, cache, queue, hook, listener>>
  BY DEF Stat
<1>2. Unhooked'
  BY <1>1 DEF LearnInv, Unhooked
<1> PICK st : st = [mtime |-> mtime, size |-> Len(file)]
  OBVIOUS
<1>3. CASE st = known
  <2>1. watcher.step = "stat" /\ watcher'.step = "leases"
    BY <1>3 DEF Stat
  <2> QED
    BY <1>1, <1>2, <2>1, LearnStays DEF LearnInv
<1>4. CASE st # known
  <2>1. watcher.step = "stat" /\ watcher' = [step |-> "read", stat |-> st, generation |-> spent.rotations]
    BY <1>4 DEF Stat
  <2>2. known \in Stats /\ mtime \in Nat /\ Len(file) \in Nat
    BY LenProperties DEF TypeInv
  <2>3. known.mtime # mtime
    BY <1>4, <2>2 DEF LearnInv, KnownInv, Stats
  <2>4. known.mtime < mtime
    BY <2>2, <2>3 DEF LearnInv, KnownInv, Stats
  <2>5. StatInv'
    BY <1>1, <2>1, <2>2, <2>4 DEF StatInv
  <2>6. KnownInv'
    BY <1>1 DEF LearnInv, KnownInv
  <2>7. ReachInv'
    BY <1>1, <2>1 DEF LearnInv, ReachInv
  <2> QED
    BY <1>2, <2>5, <2>6, <2>7 DEF LearnInv
<1> QED
  BY <1>3, <1>4

LEMMA LearnRead ==
  ASSUME TypeInv, FileInv, LearnInv, ReadFile
  PROVE  LearnInv'
<1> USE DEF net, dhcpd, history, Goto
<1>1. UNCHANGED <<hooked, known, file, mtime, generation, spent, cache, queue, hook, listener>> /\ watcher.step = "read"
  BY DEF ReadFile
<1>2. Unhooked' /\ KnownInv'
  BY <1>1 DEF LearnInv, Unhooked, KnownInv
<1>3. watcher \in [step : {"read"}, stat : Stats, generation : Nat] /\ known \in Stats
  BY <1>1, WatcherForms DEF TypeInv
<1> PICK p \in Nat : p = StartPos
  BY <1>3 DEF StartPos, Stats
<1>4. file \in Seq(Lines) /\ WellFormed(file, granted) /\ granted \in SUBSET (Macs \X IPs) /\ Len(file) \in Nat
      /\ cache \in LeaseMap
  BY BeginningOf DEF TypeInv, FileInv
<1> PICK new : new = Parse(Rest(file, p))
  OBVIOUS
<1>5. p > Len(file) => watcher' = [step |-> "panic"]
  BY DEF ReadFile
<1>6. ~(p > Len(file)) =>
        watcher' = [step |-> "merge", stat |-> watcher.stat, generation |-> watcher.generation, new |-> new]
  BY DEF ReadFile, Rest
<1>7. StatInv'
  <2>1. /\ known.mtime < watcher.stat.mtime /\ watcher.stat.mtime <= mtime
        /\ watcher.stat.mtime = mtime => watcher.stat.size = Len(file)
        /\ watcher.generation = spent.rotations => watcher.stat.size <= Len(file)
    BY <1>1 DEF LearnInv, StatInv
  <2>2. CASE p > Len(file)
    BY <1>5, <2>2 DEF StatInv
  <2>3. CASE ~(p > Len(file))
    BY <1>1, <1>6, <2>1, <2>3 DEF StatInv
  <2> QED
    BY <2>2, <2>3
<1>8. ReachInv'
  <2> SUFFICES ASSUME ~hooked, whole' PROVE ReachInv'
    BY <1>1 DEF ReachInv
  <2>1. (p > 0 => spent.rotations = generation /\ whole) /\ (file # <<>> => Last(file).kind = "end")
    BY DEF ReadFile
  <2>2. generation = spent.rotations /\ whole => Reached(file, known.size, cache)
    BY <1>1 DEF LearnInv, ReachInv
  <2>3. CASE p > Len(file)
    <3>1. generation = spent.rotations /\ whole
      BY <1>4, <2>1, <2>3
    <3>2. watcher'.step = "panic"
      BY <1>5, <2>3
    <3> QED
      BY <1>1, <2>2, <3>1, <3>2 DEF ReachInv
  <2>4. CASE ~(p > Len(file))
    <3>1. watcher' = [step |-> "merge", stat |-> watcher.stat, generation |-> watcher.generation, new |-> new]
      BY <1>6, <2>4
    <3> SUFFICES ASSUME watcher.generation = spent.rotations
                 PROVE  Reached(file, watcher.stat.size, Merged(new))'
      BY <1>1, <3>1 DEF ReachInv
    <3>2. p \in 0..Len(file)
      BY <1>4, <2>4
    <3>3. watcher.stat.size \in 0..Len(file)
      BY <1>1, <1>3, <1>4 DEF LearnInv, StatInv, Stats
    <3>4. PICK n \in p..Len(file) :
            /\ n > 0 => file[n].kind = "end"
            /\ \A m \in Macs, i \in IPs : LastBlock(file, n, m, i) => cache[m] = i
      <4>1. CASE p = 0
        <5>1. 0 \in p..Len(file) /\ \A m \in Macs, i \in IPs : ~LastBlock(file, 0, m, i)
          BY <1>4, <4>1 DEF LastBlock
        <5> QED
          BY <5>1
      <4>2. CASE p # 0
        <5>1. p = known.size
          BY <4>2 DEF StartPos
        <5>2. Reached(file, p, cache)
          BY <2>1, <2>2, <4>2, <5>1
        <5> QED
          BY <5>2 DEF Reached
      <4> QED
        BY <4>1, <4>2
    <3>5. ASSUME NEW m \in Macs, NEW i \in IPs, LastBlock(file, Len(file), m, i)
          PROVE  Merged(new)[m] = i
      <4>1. new[m] = i \/ (new[m] = None /\ cache[m] = i)
        BY <1>4, <3>2, <3>4, <3>5, RestLearned
      <4>2. i # None
        BY LeasesAssumption
      <4> QED
        BY <4>1, <4>2 DEF Merged
    <3>6. Len(file) > 0 => file[Len(file)].kind = "end"
      <4> SUFFICES ASSUME Len(file) > 0 PROVE file[Len(file)].kind = "end"
        OBVIOUS
      <4>1. file # <<>>
        BY EmptySeq
      <4> QED
        BY <2>1, <4>1 DEF Last
    <3>7. Len(file) \in watcher.stat.size..Len(file)
      BY <1>4, <3>3
    <3>8. Reached(file, watcher.stat.size, Merged(new))
      BY <3>5, <3>6, <3>7 DEF Reached
    <3>9. watcher'.stat.size = watcher.stat.size /\ Merged(new)' = Merged(new)
      BY <1>1, <3>1 DEF Merged
    <3> QED
      BY <1>1, <3>8, <3>9
  <2> QED
    BY <2>3, <2>4
<1> QED
  BY <1>2, <1>7, <1>8 DEF LearnInv

LEMMA LearnMerge ==
  ASSUME TypeInv, LearnInv, Merge
  PROVE  LearnInv'
<1> USE DEF net, dhcpd, history, Goto
<1>1. /\ UNCHANGED <<hooked, file, mtime, whole, spent, queue, hook, listener>>
      /\ watcher.step = "merge" /\ watcher'.step = "slice"
      /\ cache' = Merged(watcher.new) /\ known' = watcher.stat /\ generation' = watcher.generation
  BY DEF Merge
<1>2. Unhooked'
  BY <1>1 DEF LearnInv, Unhooked
<1>3. KnownInv'
  BY <1>1 DEF LearnInv, StatInv, KnownInv
<1>4. StatInv'
  BY <1>1 DEF StatInv
<1>5. ReachInv'
  <2> SUFFICES ASSUME ~hooked, whole, watcher.generation = spent.rotations
               PROVE  Reached(file, known.size, cache)'
    BY <1>1 DEF ReachInv
  <2>1. Reached(file, watcher.stat.size, Merged(watcher.new))
    BY <1>1 DEF LearnInv, ReachInv
  <2> PICK map : map = Merged(watcher.new)
    OBVIOUS
  <2>2. Reached(file, watcher.stat.size, map) /\ cache' = map
    BY <1>1, <2>1
  <2> QED
    BY <1>1, <2>2
<1> QED
  BY <1>2, <1>3, <1>4, <1>5 DEF LearnInv

LEMMA LearnFlush ==
  ASSUME TypeInv, LearnInv, Flush
  PROVE  LearnInv'
<1> USE DEF net, dhcpd, history, Goto
<1>1. /\ UNCHANGED <<hooked, known, whole, generation, spent, cache, queue, hook, listener, watcher>>
      /\ mtime' = mtime + 1
  BY DEF Flush
<1>2. PICK n \in 1..Len(buffer) : file' = file \o SubSeq(buffer, 1, n)
  BY DEF Flush
<1> PICK more \in Seq(Lines) : file' = file \o more
  BY <1>2, SequenceSplit DEF TypeInv
<1>3. file \in Seq(Lines) /\ file' \in Seq(Lines) /\ Len(file) \in Nat /\ Len(file') \in Nat /\ Len(file) <= Len(file')
      /\ mtime \in Nat /\ known \in Stats
  BY BeginningOf, LenProperties DEF TypeInv
<1>4. Unhooked'
  BY <1>1 DEF LearnInv, Unhooked
<1>5. KnownInv'
  BY <1>1, <1>3 DEF LearnInv, KnownInv, Stats
<1>6. StatInv'
  <2> SUFFICES ASSUME watcher.step \in {"read", "merge"} PROVE StatInv'
    BY <1>1 DEF StatInv
  <2>1. watcher.stat.mtime \in Int /\ watcher.stat.size \in Nat
    BY WatcherForms DEF TypeInv, Stats
  <2>2. /\ known.mtime < watcher.stat.mtime /\ watcher.stat.mtime <= mtime
        /\ watcher.generation = spent.rotations => watcher.stat.size <= Len(file)
    BY DEF LearnInv, StatInv
  <2>3. watcher.stat.mtime <= mtime + 1 /\ watcher.stat.mtime # mtime + 1
    BY <1>3, <2>1, <2>2
  <2>4. watcher.generation = spent.rotations => watcher.stat.size <= Len(file')
    BY <1>3, <2>1, <2>2
  <2> QED
    BY <1>1, <2>2, <2>3, <2>4 DEF StatInv
<1>7. ReachInv'
  <2> SUFFICES ASSUME ~hooked, whole PROVE ReachInv'
    BY <1>1 DEF ReachInv
  <2>1. CASE watcher.step = "merge"
    <3> SUFFICES ASSUME watcher.generation = spent.rotations
                 PROVE  Reached(file, watcher.stat.size, Merged(watcher.new))'
      BY <1>1, <2>1 DEF ReachInv
    <3> PICK size \in Nat : size = watcher.stat.size
      BY <2>1, WatcherForms DEF TypeInv, Stats
    <3> PICK map \in LeaseMap : map = Merged(watcher.new)
      BY <2>1, WatcherForms DEF TypeInv, Merged, LeaseMap
    <3>1. Reached(file, size, map)
      BY <2>1 DEF LearnInv, ReachInv
    <3>2. Reached(file \o more, size, map)
      BY <1>3, <3>1, ReachedGrows
    <3>3. watcher'.stat.size = size /\ Merged(watcher.new)' = map
      BY <1>1 DEF Merged
    <3> QED
      BY <3>2, <3>3
  <2>2. CASE watcher.step # "merge"
    <3> SUFFICES ASSUME generation = spent.rotations
                 PROVE  Reached(file, known.size, cache)'
      BY <1>1, <2>2 DEF ReachInv
    <3> PICK size \in Nat : size = known.size
      BY <1>3 DEF Stats
    <3> PICK map \in LeaseMap : map = cache
      BY DEF TypeInv
    <3>1. Reached(file, size, map)
      BY <2>2 DEF LearnInv, ReachInv
    <3>2. Reached(file \o more, size, map)
      BY <1>3, <3>1, ReachedGrows
    <3> QED
      BY <1>1, <3>2
  <2> QED
    BY <2>1, <2>2
<1> QED
  BY <1>4, <1>5, <1>6, <1>7 DEF LearnInv

\* Rewriting the file makes everything that was read of it void; a start forgets it.
LEMMA LearnRotate ==
  ASSUME TypeInv, LearnInv, Rotate
  PROVE  LearnInv'
<1> USE DEF net, dhcpd, history, Goto
<1>1. /\ UNCHANGED <<hooked, known, whole, generation, cache, queue, hook, listener, watcher>>
      /\ mtime' = mtime + 1
  BY DEF Rotate
<1>2. spent'.rotations = spent.rotations + 1
  BY Spent DEF Rotate
<1>3. /\ known \in Stats /\ mtime \in Nat /\ spent.rotations \in Nat /\ generation \in Nat /\ generation <= spent.rotations
      /\ watcher.step \in {"read", "merge"} =>
           /\ watcher.stat \in Stats /\ watcher.generation \in Nat
           /\ watcher.generation <= spent.rotations
  BY WatcherForms DEF TypeInv
<1>4. generation # spent'.rotations /\ (watcher.step \in {"read", "merge"} => watcher.generation # spent'.rotations)
  BY <1>2, <1>3
<1>5. Unhooked'
  BY <1>1 DEF LearnInv, Unhooked
<1>6. KnownInv'
  BY <1>1, <1>3 DEF LearnInv, KnownInv, Stats
<1>7. StatInv'
  BY <1>1, <1>3, <1>4 DEF LearnInv, StatInv, Stats
<1>8. ReachInv'
  BY <1>1, <1>4 DEF ReachInv
<1> QED
  BY <1>5, <1>6, <1>7, <1>8 DEF LearnInv

LEMMA LearnRestart ==
  ASSUME TypeInv', Restart
  PROVE  LearnInv'
<1> PICK map : map = NoLeases
  OBVIOUS
<1>1. /\ known' = [mtime |-> -1, size |-> 0] /\ queue' = <<>> /\ hook' = Idle /\ listener' = Idle /\ watcher' = Idle
      /\ cache' = map
  BY DEF Restart
<1>2. mtime' \in Nat /\ Len(file') \in Nat
  BY LenProperties DEF TypeInv
<1>3. known'.mtime = -1 /\ known'.size = 0 /\ watcher'.step = "idle"
  BY <1>1 DEF Idle
<1>4. Unhooked' /\ KnownInv' /\ StatInv'
  BY <1>1, <1>2, <1>3 DEF Unhooked, KnownInv, StatInv, Idle
<1>5. Reached(file, known.size, cache)'
  <2>1. 0 \in 0..Len(file') /\ \A m \in Macs, i \in IPs : ~LastBlock(file', 0, m, i)
    BY <1>2 DEF LastBlock
  <2> QED
    BY <1>1, <1>3, <2>1 DEF Reached
<1>6. ReachInv'
  BY <1>3, <1>5 DEF ReachInv
<1> QED
  BY <1>4, <1>6 DEF LearnInv

LEMMA LearnStep ==
  ASSUME TypeInv, FileInv, LearnInv, [Next]_vars
  PROVE  LearnInv'
<1>1. TypeInv'
  BY TypeStep
<1> QED
  BY <1>1, LearnQuiet, LearnStat, LearnRead, LearnMerge, LearnFlush, LearnRotate, LearnRestart DEF Next, Watch

-----------------------------------------------------------------------------
(* Hook mode.                                                              *)

LEMMA HookedSteps ==
  ASSUME TypeInv, ModeInv, [Next]_vars, Hooked'
  PROVE  /\ Hooked
         /\ \/ UNCHANGED vars
            \/ Tick \/ DHCPLeases \/ RegisterLease \/ RememberLeases
            \/ Hook \/ Listen
            \/ \E m \in Macs, i \in IPs : Commit(m, i)
            \/ \E i \in IPs : Abandon(i)
            \/ Flush \/ Rotate \/ Restart
         /\ mode = "hook" /\ watcher.step \in {"idle", "leases", "arp", "upsert"}
<1>1. hooked' = hooked
  BY DEF Next, vars, Watch, Hook, Listen, Tick, Stat, ReadFile, Merge, Slice, DHCPLeases, RegisterLease,
         RememberLeases, SubmitHookLease, HookUpsert, Receive, HandleDHCPHook, SetLeaseMonitorMode, Restart,
         Commit, Abandon, Flush, Rotate
<1>2. spent.switches \in Nat
  BY DEF TypeInv
<1>3. UNCHANGED spent \/ Event("faults") \/ Event("rotations") \/ Event("switches") \/ Grant
  BY DEF Next, vars, Watch, Hook, Listen, Tick, Stat, ReadFile, Merge, Slice, DHCPLeases, RegisterLease,
         RememberLeases, SubmitHookLease, HookUpsert, Receive, HandleDHCPHook, SetLeaseMonitorMode, Restart,
         Commit, Abandon, Flush, Rotate, Fail
<1>4. spent'.switches = spent.switches \/ (spent'.switches = spent.switches + 1)
  BY <1>3, Spent
<1>5. Hooked
  BY <1>1, <1>2, <1>4 DEF Hooked
<1>6. ~Event("switches")
  <2> SUFFICES ASSUME Event("switches") PROVE FALSE
    OBVIOUS
  <2>1. spent'.switches = spent.switches + 1
    BY Spent
  <2> QED
    BY <1>2, <2>1 DEF Hooked
<1>7. mode = "hook" /\ watcher.step \in {"idle", "leases", "arp", "upsert"}
  BY <1>5 DEF ModeInv
<1>8. ~Stat /\ ~ReadFile /\ ~Merge /\ ~Slice /\ ~SetLeaseMonitorMode
  BY <1>6, <1>7 DEF Stat, ReadFile, Merge, Slice, SetLeaseMonitorMode
<1> QED
  BY <1>5, <1>7, <1>8 DEF Next, Watch

LEMMA ModeStep ==
  ASSUME TypeInv, ModeInv, [Next]_vars
  PROVE  ModeInv'
<1> USE DEF net, dhcpd, history, Goto
<1> SUFFICES ASSUME Hooked'
             PROVE  mode' = "hook" /\ watcher'.step \in {"idle", "leases", "arp", "upsert"}
  BY DEF ModeInv
<1>1. Hooked /\ mode = "hook" /\ watcher.step \in {"idle", "leases", "arp", "upsert"}
  BY HookedSteps
<1>2. CASE \/ UNCHANGED vars \/ Hook \/ Listen \/ (\E m \in Macs, i \in IPs : Commit(m, i))
           \/ (\E i \in IPs : Abandon(i)) \/ Flush \/ Rotate
  <2>1. UNCHANGED <<mode, watcher>>
    BY <1>2 DEF vars, Hook, Listen, SubmitHookLease, HookUpsert, Receive, HandleDHCPHook, Commit, Abandon,
       Flush, Rotate
  <2> QED
    BY <1>1, <2>1
<1>3. CASE Tick
  BY <1>1, <1>3 DEF Tick
<1>4. CASE DHCPLeases
  BY <1>1, <1>4 DEF DHCPLeases, WorkOn
<1>5. CASE RegisterLease
  <2>1. watcher \in [step : {"upsert"}, snap : LeaseMap, todo : SUBSET Macs] /\ mode' = mode
    BY <1>5, WatcherForms DEF TypeInv, RegisterLease
  <2>2. watcher'.step = "upsert"
    BY <1>5, <2>1 DEF RegisterLease
  <2> QED
    BY <1>1, <2>1, <2>2
<1>6. CASE RememberLeases
  BY <1>1, <1>6 DEF RememberLeases, Idle
<1>7. CASE Restart
  BY <1>1, <1>7 DEF Restart, Alive
<1> QED
  BY <1>2, <1>3, <1>4, <1>5, <1>6, <1>7, HookedSteps

LEMMA QueueStep ==
  ASSUME TypeInv, ModeInv, QueueInv, [Next]_vars
  PROVE  QueueInv'
<1> USE DEF net, dhcpd, history, Goto
<1> SUFFICES ASSUME Hooked', NEW m \in Macs, accepted'[m] # None
             PROVE  Arrived(m)'
  BY DEF QueueInv
<1>1. Hooked
  BY HookedSteps
<1>2. accepted[m] # None => Arrived(m)
  BY <1>1 DEF QueueInv
<1>3. CASE UNCHANGED <<accepted, queue, listener, cache>>
  BY <1>2, <1>3 DEF Arrived, Queued
<1>4. queue \in Seq(Lease) /\ Len(queue) \in Nat /\ DOMAIN queue = 1..Len(queue)
      /\ \A k \in DOMAIN queue : queue[k] \in Lease
  BY LenProperties, ElementOfSeq DEF TypeInv
<1>5. accepted \in LeaseMap /\ cache \in LeaseMap
  BY DEF TypeInv
<1>6. CASE SubmitHookLease
  <2>1. CASE hooked /\ Len(queue) < ChanCap
    <3>1. hook # Idle
      BY <1>6 DEF SubmitHookLease, Idle
    <3> PICK l \in Lease : l = hook.lease
      BY <3>1 DEF TypeInv
    <3>2. /\ queue' = Append(queue, l) /\ accepted' = [accepted EXCEPT ![l.mac] = l.ip]
          /\ UNCHANGED <<listener, cache>>
      BY <1>6, <2>1 DEF SubmitHookLease
    <3> PICK n \in Nat : n = Len(queue)
      BY <1>4
    <3>3. /\ DOMAIN queue' = 1..(n + 1) /\ queue'[n + 1] = l
          /\ \A k \in 1..n : queue'[k] = queue[k]
      BY <1>4, <3>2, AppendProperties, LenProperties
    <3>4. CASE l.mac = m
      <4>1. accepted'[m] = l.ip /\ l = [mac |-> m, ip |-> l.ip]
        BY <1>5, <3>2, <3>4 DEF LeaseMap, Lease
      <4>2. n + 1 \in DOMAIN queue' /\ queue'[n + 1] = [mac |-> m, ip |-> accepted'[m]]
            /\ \A j \in DOMAIN queue' : ~(j > n + 1)
        BY <3>3, <4>1
      <4>3. Queued(m)'
        BY <3>3, <3>4, <4>2 DEF Queued
      <4> QED
        BY <4>2, <4>3 DEF Arrived
    <3>5. CASE l.mac # m
      <4>1. accepted'[m] = accepted[m]
        BY <1>5, <3>2, <3>5 DEF LeaseMap, Lease
      <4>2. Queued(m)' <=> Queued(m)
        <5>1. ASSUME Queued(m) PROVE Queued(m)'
          <6>1. PICK k \in 1..n : queue[k].mac = m
            BY <1>4, <5>1 DEF Queued
          <6> QED
            BY <3>3, <6>1 DEF Queued
        <5>2. ASSUME Queued(m)' PROVE Queued(m)
          <6>1. PICK k \in 1..(n + 1) : queue'[k].mac = m
            BY <3>3, <5>2 DEF Queued
          <6>2. k \in 1..n
            BY <3>3, <3>5, <6>1
          <6> QED
            BY <1>4, <3>3, <6>1, <6>2 DEF Queued
        <5> QED
          BY <5>1, <5>2
      <4>3. Arrived(m)
        BY <1>2, <4>1
      <4>4. CASE Queued(m)
        <5>1. PICK k \in 1..n : queue[k] = [mac |-> m, ip |-> accepted[m]]
                                /\ \A j \in 1..n : j > k => queue[j].mac # m
          BY <1>4, <4>3, <4>4 DEF Arrived
        <5>2. k \in DOMAIN queue' /\ queue'[k] = [mac |-> m, ip |-> accepted'[m]]
          BY <3>3, <4>1, <5>1
        <5>3. ASSUME NEW j \in DOMAIN queue', j > k PROVE queue'[j].mac # m
          <6>1. j \in 1..n \/ j = n + 1
            BY <3>3
          <6> QED
            BY <3>3, <3>5, <5>1, <5>3, <6>1
        <5> QED
          BY <4>2, <4>4, <5>2, <5>3 DEF Arrived
      <4>5. CASE ~Queued(m)
        BY <3>2, <4>1, <4>2, <4>3, <4>5 DEF Arrived
      <4> QED
        BY <4>4, <4>5
    <3> QED
      BY <3>4, <3>5
  <2>2. CASE ~(hooked /\ Len(queue) < ChanCap)
    BY <1>3, <1>6, <2>2 DEF SubmitHookLease
  <2> QED
    BY <2>1, <2>2
<1>7. CASE Receive
  <2>1. /\ listener = Idle /\ queue # <<>> /\ queue' = Tail(queue)
        /\ listener' = [step |-> "received", lease |-> Head(queue)] /\ UNCHANGED <<accepted, cache>>
    BY <1>7 DEF Receive
  <2> PICK n \in Nat : n = Len(queue)
    BY <1>4
  <2>2. n > 0
    BY <1>4, <2>1, EmptySeq
  <2>3. Head(queue) = queue[1]
    BY <1>4, <2>1
  <2>4. DOMAIN queue' = 1..(n - 1) /\ \A k \in 1..(n - 1) : queue'[k] = queue[k + 1]
    BY <1>4, <2>1, HeadTailProperties, LenProperties
  <2>5. listener' # Idle /\ listener'.lease = queue[1]
    BY <2>1, <2>3 DEF Idle
  <2>6. Arrived(m)
    BY <1>2, <2>1
  <2>7. CASE Queued(m)
    <3>1. PICK k \in 1..n : queue[k] = [mac |-> m, ip |-> accepted[m]]
                            /\ \A j \in 1..n : j > k => queue[j].mac # m
      BY <1>4, <2>6, <2>7 DEF Arrived
    <3>2. CASE k = 1
      <4>1. ASSUME NEW j \in 1..(n - 1) PROVE queue'[j].mac # m
        <5>1. j + 1 \in 1..n /\ j + 1 > k
          BY <3>2
        <5> QED
          BY <2>4, <3>1, <5>1
      <4>2. ~Queued(m)'
        BY <2>4, <4>1 DEF Queued
      <4>3. listener'.lease.mac = m /\ listener'.lease.ip = accepted'[m]
        BY <2>1, <2>5, <3>1, <3>2
      <4> QED
        BY <2>5, <4>2, <4>3 DEF Arrived
    <3>3. CASE k # 1
      <4> PICK x : x = k - 1
        OBVIOUS
      <4>1. x \in 1..(n - 1) /\ x + 1 = k
        BY <3>3
      <4>2. queue'[x] = [mac |-> m, ip |-> accepted'[m]]
        BY <2>1, <2>4, <3>1, <4>1
      <4>3. ASSUME NEW j \in 1..(n - 1), j > x PROVE queue'[j].mac # m
        <5>1. j + 1 \in 1..n /\ j + 1 > k
          BY <4>1, <4>3
        <5> QED
          BY <2>4, <3>1, <5>1
      <4>4. Queued(m)'
        BY <2>4, <4>1, <4>2 DEF Queued
      <4> QED
        BY <2>4, <4>1, <4>2, <4>3, <4>4 DEF Arrived
    <3> QED
      BY <3>2, <3>3
  <2>8. CASE ~Queued(m)
    <3>1. \A k \in 1..n : queue[k].mac # m
      BY <1>4, <2>8 DEF Queued
    <3>2. \A k \in 1..(n - 1) : k + 1 \in 1..n
      OBVIOUS
    <3>3. ~Queued(m)'
      BY <2>4, <3>1, <3>2 DEF Queued
    <3>4. listener'.lease.mac # m
      BY <2>2, <2>5, <3>1
    <3>5. cache[m] = accepted[m]
      BY <2>1, <2>6, <2>8 DEF Arrived
    <3> QED
      BY <2>1, <3>3, <3>4, <3>5 DEF Arrived
  <2> QED
    BY <2>7, <2>8
<1>8. CASE HandleDHCPHook
  <2>1. UNCHANGED <<accepted, queue>> /\ listener # Idle
    BY <1>8 DEF HandleDHCPHook, Idle
  <2>2. listener \in [step : {"received", "writing"}, lease : Lease]
    BY <2>1 DEF TypeInv
  <2>3. Arrived(m) /\ (Queued(m)' <=> Queued(m))
    BY <1>2, <2>1 DEF Queued
  <2>4. CASE listener.step = "received"
    <3>1. UNCHANGED cache /\ listener' # Idle /\ listener'.lease = listener.lease
      BY <1>8, <2>2, <2>4 DEF HandleDHCPHook, Idle
    <3> QED
      BY <2>1, <2>3, <3>1 DEF Arrived
  <2>5. CASE listener.step = "writing"
    <3> PICK c \in Macs, i \in IPs : c = listener.lease.mac /\ i = listener.lease.ip
      BY <2>2 DEF Lease
    <3>1. cache' = [cache EXCEPT ![c] = i] /\ listener' = Idle
      BY <1>8, <2>5 DEF HandleDHCPHook
    <3>2. cache'[m] = IF m = c THEN i ELSE cache[m]
      BY <1>5, <3>1 DEF LeaseMap
    <3> QED
      BY <2>1, <2>3, <3>1, <3>2 DEF Arrived
  <2> QED
    BY <1>8, <2>4, <2>5 DEF HandleDHCPHook
<1>9. CASE \/ UNCHANGED vars \/ Tick \/ DHCPLeases \/ RegisterLease \/ RememberLeases \/ HookUpsert
           \/ (\E c \in Macs, i \in IPs : Commit(c, i)) \/ (\E i \in IPs : Abandon(i)) \/ Flush \/ Rotate
  <2>1. UNCHANGED <<accepted, queue, listener, cache>>
    BY <1>9 DEF vars, Tick, DHCPLeases, RegisterLease, RememberLeases, HookUpsert, Commit, Abandon, Flush, Rotate
  <2> QED
    BY <1>3, <2>1
<1>10. CASE Restart
  BY <1>10 DEF Restart, NoLeases
<1> QED
  BY <1>6, <1>7, <1>8, <1>9, <1>10, HookedSteps DEF Hook, Listen

LEMMA AwaitedStep ==
  ASSUME TypeInv, ModeInv, RowInv, [Next]_vars, Hooked', hook'.step = "upsert"
  PROVE  accepted'[hook'.lease.mac] = hook'.lease.ip
<1> USE DEF net, dhcpd, history, Goto
<1>1. Hooked
  BY HookedSteps
<1>2. CASE UNCHANGED <<hook, accepted>>
  BY <1>1, <1>2 DEF RowInv
<1>3. CASE SubmitHookLease
  <2>1. hook # Idle
    BY <1>3 DEF SubmitHookLease, Idle
  <2>2. hook \in [step : {"submit", "upsert"}, lease : Lease] /\ accepted \in LeaseMap
    BY <2>1 DEF TypeInv
  <2> PICK m \in Macs, i \in IPs : m = hook.lease.mac /\ i = hook.lease.ip
    BY <2>2 DEF Lease
  <2>3. CASE hooked /\ Len(queue) < ChanCap
    <3>1. hook' = [hook EXCEPT !.step = "upsert"] /\ accepted' = [accepted EXCEPT ![m] = i]
      BY <1>3, <2>3 DEF SubmitHookLease
    <3>2. hook'.lease.mac = m /\ hook'.lease.ip = i
      BY <2>2, <3>1
    <3> QED
      BY <2>2, <3>1, <3>2 DEF LeaseMap
  <2>4. CASE ~(hooked /\ Len(queue) < ChanCap)
    BY <1>3, <2>4 DEF SubmitHookLease, Idle
  <2> QED
    BY <2>3, <2>4
<1>4. CASE HookUpsert \/ Restart
  BY <1>4 DEF HookUpsert, Restart, Idle
<1>5. CASE \E m \in Macs, i \in IPs : Commit(m, i)
  BY <1>5 DEF Commit
<1>6. CASE \/ UNCHANGED vars \/ Tick \/ DHCPLeases \/ RegisterLease \/ RememberLeases \/ Listen
           \/ (\E i \in IPs : Abandon(i)) \/ Flush \/ Rotate
  <2>1. UNCHANGED <<accepted, hook>>
    BY <1>6 DEF vars, Tick, DHCPLeases, RegisterLease, RememberLeases, Listen, Receive, HandleDHCPHook,
       Abandon, Flush, Rotate
  <2> QED
    BY <1>2, <2>1
<1> QED
  BY <1>3, <1>4, <1>5, <1>6, HookedSteps DEF Hook

LEMMA RowStep ==
  ASSUME TypeInv, ModeInv, RowInv, [Next]_vars
  PROVE  RowInv'
<1> USE DEF net, dhcpd, history, Goto
<1> DEFINE Waiting(m) == hook.step = "upsert" /\ hook.lease.mac = m
           InRow(m) == rows[m] = accepted[m] \/ Waiting(m) \/ Stale(m, accepted[m])
<1> SUFFICES ASSUME Hooked', spent'.faults = 0, NEW m \in Macs, accepted'[m] # None
             PROVE  InRow(m)'
  BY AwaitedStep DEF RowInv
<1>1. Hooked
  BY HookedSteps
<1>2. spent.faults = 0 /\ ~Event("faults")
  <2>1. spent.faults \in Nat
    BY DEF TypeInv
  <2>2. ~Event("faults")
    BY <2>1, Spent
  <2>3. UNCHANGED spent \/ Event("rotations") \/ Grant
    BY <2>2, HookedSteps
       DEF vars, Hook, Listen, Tick, DHCPLeases, RegisterLease, RememberLeases, SubmitHookLease, HookUpsert, Receive,
           HandleDHCPHook, Restart, Commit, Abandon, Flush, Rotate, Fail
  <2>4. spent'.faults = spent.faults
    BY <2>3, Spent
  <2> QED
    BY <2>2, <2>4
<1>3. accepted[m] # None => InRow(m)
  BY <1>1, <1>2 DEF RowInv
<1>4. accepted \in LeaseMap /\ rows \in LeaseMap /\ prev \in LeaseMap /\ cache \in LeaseMap /\ leased \in LeaseMap
  BY DEF TypeInv
<1>5. CASE /\ UNCHANGED <<accepted, rows, prev>> /\ (Waiting(m) => Waiting(m)')
           /\ UNCHANGED watcher \/ (watcher.step # "upsert" /\ watcher'.step # "upsert")
  BY <1>3, <1>5 DEF Stale
<1>6. CASE \/ UNCHANGED vars \/ Listen \/ (\E i \in IPs : Abandon(i)) \/ Flush \/ Rotate
  <2>1. UNCHANGED <<accepted, rows, prev, hook, watcher>>
    BY <1>6 DEF vars, Listen, Receive, HandleDHCPHook, Abandon, Flush, Rotate
  <2> QED
    BY <1>5, <2>1
<1>7. CASE \E c \in Macs, i \in IPs : Commit(c, i)
  <2>1. UNCHANGED <<accepted, rows, prev, watcher>> /\ hook = Idle
    BY <1>7 DEF Commit
  <2> QED
    BY <1>5, <2>1 DEF Idle
<1>8. CASE Tick
  <2>1. UNCHANGED <<accepted, rows, prev, hook>> /\ watcher.step # "upsert" /\ watcher'.step # "upsert"
    BY <1>8 DEF Tick, Idle
  <2> QED
    BY <1>5, <2>1
<1>9. CASE DHCPLeases
  <2>1. UNCHANGED <<accepted, rows, prev, hook>> /\ watcher.step # "upsert"
    BY <1>9 DEF DHCPLeases
  <2>2. ASSUME NEW map \in LeaseMap, WorkOn(map) PROVE InRow(m)'
    <3>1. watcher' = [step |-> "upsert", snap |-> map, todo |-> {c \in Macs : map[c] # None}]
      BY <2>2 DEF WorkOn
    <3>2. Stale(m, accepted[m]) => Stale(m, accepted[m])'
      BY <2>1, <3>1 DEF Stale
    <3> QED
      BY <1>3, <2>1, <3>2
  <2>3. WorkOn(cache) \/ WorkOn(leased) \/ watcher' = [step |-> "arp"]
    BY <1>9 DEF DHCPLeases
  <2>4. CASE watcher' = [step |-> "arp"]
    BY <1>5, <2>1, <2>4
  <2> QED
    BY <1>4, <2>2, <2>3, <2>4
<1>10. CASE RegisterLease
  <2>1. watcher \in [step : {"upsert"}, snap : LeaseMap, todo : SUBSET Macs]
    BY <1>10, WatcherForms DEF TypeInv, RegisterLease
  <2>2. UNCHANGED <<accepted, prev, hook>>
    BY <1>10 DEF RegisterLease
  <2>3. PICK c \in watcher.todo :
          /\ watcher' = [watcher EXCEPT !.todo = @ \ {c}]
          /\ IF prev[c] # watcher.snap[c] \/ rows[c] = None
             THEN rows' = [rows EXCEPT ![c] = watcher.snap[c]]
             ELSE UNCHANGED rows
    BY <1>2, <1>10 DEF RegisterLease, Fail
  <2>4. watcher'.step = "upsert" /\ watcher'.snap = watcher.snap /\ watcher'.todo = watcher.todo \ {c}
    BY <2>1, <2>3
  <2>5. CASE m # c
    <3>1. rows'[m] = rows[m]
      BY <1>4, <2>3, <2>5 DEF LeaseMap
    <3>2. Stale(m, accepted[m]) => Stale(m, accepted[m])'
      BY <2>1, <2>2, <2>4, <2>5 DEF Stale
    <3> QED
      BY <1>3, <2>2, <3>1, <3>2
  <2>6. CASE m = c
    <3>1. CASE watcher.snap[m] # accepted[m]
      BY <2>2, <2>4, <3>1 DEF Stale
    <3>2. CASE watcher.snap[m] = accepted[m] /\ prev[m] # watcher.snap[m]
      BY <1>4, <2>2, <2>3, <2>6, <3>2 DEF LeaseMap
    <3>3. CASE watcher.snap[m] = accepted[m] /\ prev[m] = watcher.snap[m]
      <4>1. ~Stale(m, accepted[m])
        BY <2>1, <3>3 DEF Stale
      <4>2. rows[m] = accepted[m] \/ Waiting(m)
        BY <1>3, <2>2, <4>1
      <4>3. rows'[m] = rows[m] \/ rows'[m] = accepted[m]
        BY <1>4, <2>3, <2>6, <3>3 DEF LeaseMap
      <4> QED
        BY <2>2, <4>2, <4>3
    <3> QED
      BY <3>1, <3>2, <3>3
  <2> QED
    BY <2>5, <2>6
<1>11. CASE RememberLeases
  <2>1. UNCHANGED <<accepted, rows, hook>> /\ watcher.step = "upsert" /\ watcher.todo = {} /\ prev' = watcher.snap
        /\ watcher' = Idle
    BY <1>11 DEF RememberLeases
  <2>2. Stale(m, accepted[m]) => Stale(m, accepted[m])'
    BY <2>1 DEF Stale, Idle
  <2> QED
    BY <1>3, <2>1, <2>2
<1>12. CASE SubmitHookLease
  <2>1. UNCHANGED <<rows, prev, watcher>> /\ hook.step = "submit"
    BY <1>12 DEF SubmitHookLease
  <2>2. CASE hooked /\ Len(queue) < ChanCap
    <3>1. hook # Idle
      BY <2>1 DEF Idle
    <3>2. hook \in [step : {"submit", "upsert"}, lease : Lease]
      BY <3>1 DEF TypeInv
    <3> PICK c \in Macs, i \in IPs : c = hook.lease.mac /\ i = hook.lease.ip
      BY <3>2 DEF Lease
    <3>3. accepted' = [accepted EXCEPT ![c] = i] /\ hook' = [hook EXCEPT !.step = "upsert"]
      BY <1>12, <2>2 DEF SubmitHookLease
    <3>4. CASE m = c
      BY <3>2, <3>3, <3>4
    <3>5. CASE m # c
      <4>1. accepted'[m] = accepted[m]
        BY <1>4, <3>3, <3>5 DEF LeaseMap
      <4>2. Stale(m, accepted[m]) => Stale(m, accepted[m])'
        BY <2>1, <4>1 DEF Stale
      <4> QED
        BY <1>3, <2>1, <4>1, <4>2
    <3> QED
      BY <3>4, <3>5
  <2>3. CASE ~(hooked /\ Len(queue) < ChanCap)
    <3>1. UNCHANGED accepted
      BY <1>12, <2>3 DEF SubmitHookLease
    <3> QED
      BY <1>5, <2>1, <3>1
  <2> QED
    BY <2>2, <2>3
<1>13. CASE HookUpsert
  <2>1. UNCHANGED <<accepted, prev, watcher>> /\ hook.step = "upsert"
    BY <1>13 DEF HookUpsert
  <2>2. hook # Idle
    BY <2>1 DEF Idle
  <2>3. hook \in [step : {"submit", "upsert"}, lease : Lease]
    BY <2>2 DEF TypeInv
  <2> PICK c \in Macs, i \in IPs : c = hook.lease.mac /\ i = hook.lease.ip
    BY <2>3 DEF Lease
  <2>4. rows' = [rows EXCEPT ![c] = i]
    BY <1>2, <1>13 DEF HookUpsert, Fail
  <2>5. accepted[c] = i
    BY <1>1, <2>1 DEF RowInv
  <2>6. CASE m = c
    BY <1>4, <2>1, <2>4, <2>5, <2>6 DEF LeaseMap
  <2>7. CASE m # c
    <3>1. rows'[m] = rows[m] /\ ~Waiting(m)
      BY <1>4, <2>4, <2>7 DEF LeaseMap
    <3>2. Stale(m, accepted[m]) => Stale(m, accepted[m])'
      BY <2>1 DEF Stale
    <3> QED
      BY <1>3, <2>1, <3>1, <3>2
  <2> QED
    BY <2>6, <2>7
<1>14. CASE Restart
  BY <1>14 DEF Restart, NoLeases
<1> QED
  BY <1>6, <1>7, <1>8, <1>9, <1>10, <1>11, <1>12, <1>13, <1>14, HookedSteps DEF Hook

-----------------------------------------------------------------------------
(* The theorems.                                                           *)

Inv == TypeInv /\ FileInv /\ GrantedInv /\ LearnInv /\ ModeInv /\ QueueInv /\ RowInv

LEMMA InitInv ==
  ASSUME Init
  PROVE  Inv
<1> PICK map : map = NoLeases
  OBVIOUS
<1>1. map \in LeaseMap /\ \A m \in Macs : map[m] = None
  BY DEF NoLeases, LeaseMap
<1>2. Idle \in Watching /\ Idle.step = "idle" /\ [mtime |-> -1, size |-> 0] \in Stats
  BY DEF Watching, Idle, Stats
<1>3. /\ cache = map /\ prev = map /\ rows = map /\ leased = map /\ accepted = map
      /\ hook = Idle /\ listener = Idle /\ watcher = Idle /\ queue = <<>> /\ file = <<>> /\ buffer = <<>>
      /\ known = [mtime |-> -1, size |-> 0] /\ mtime = 0 /\ granted = {} /\ whole = TRUE /\ generation = 0
      /\ spent = [grants |-> 0, rotations |-> 0, switches |-> 0, faults |-> 0]
      /\ hooked \in BOOLEAN /\ mode = IF hooked THEN "hook" ELSE "file_poll"
  BY DEF Init
<1>4. <<>> \in Seq(Lease) /\ <<>> \in Seq(Lines) /\ Len(<<>>) = 0
  BY EmptySeq
<1>5. TypeInv
  <2>1. spent \in Spendings /\ spent.grants <= MaxGrants /\ spent.rotations + spent.switches + spent.faults <= MaxEvents
        /\ generation <= spent.rotations
    BY <1>3, LeasesAssumption DEF Spendings
  <2>2. mode \in {"hook", "file_poll"} /\ Len(queue) <= ChanCap
    BY <1>3, <1>4, LeasesAssumption
  <2> QED
    BY <1>1, <1>2, <1>3, <1>4, <2>1, <2>2 DEF TypeInv, Spendings
<1>6. FileInv
  <2>1. file \o buffer = <<>>
    BY <1>3, <1>4, ConcatEmptySeq
  <2>2. WellFormed(<<>>, granted)
    BY EmptyWellFormed
  <2>3. \A m \in Macs : leased[m] = None
    BY <1>1, <1>3
  <2>4. WellFormed(file \o buffer, granted)
    BY <2>1, <2>2
  <2> QED
    BY <2>3, <2>4 DEF FileInv
<1>7. GrantedInv
  BY <1>1, <1>2, <1>3 DEF GrantedInv
<1>8. LearnInv
  <2>1. Unhooked /\ KnownInv /\ StatInv
    BY <1>2, <1>3 DEF Unhooked, KnownInv, StatInv
  <2>2. 0 \in 0..Len(file) /\ \A m \in Macs, i \in IPs : ~LastBlock(file, 0, m, i)
    BY <1>3, <1>4 DEF LastBlock
  <2>3. Reached(file, 0, cache)
    BY <2>2 DEF Reached
  <2>4. ReachInv
    BY <1>2, <1>3, <2>3 DEF ReachInv
  <2> QED
    BY <2>1, <2>4 DEF LearnInv
<1>9. ModeInv
  BY <1>2, <1>3 DEF ModeInv, Hooked
<1>10. QueueInv /\ RowInv
  BY <1>1, <1>2, <1>3 DEF QueueInv, RowInv
<1> QED
  BY <1>5, <1>6, <1>7, <1>8, <1>9, <1>10 DEF Inv

LEMMA StepInv ==
  ASSUME Inv, [Next]_vars
  PROVE  Inv'
<1> QED
  BY TypeStep, FileStep, GrantedStep, LearnStep, ModeStep, QueueStep, RowStep DEF Inv

LEMMA Inductive == Spec => []Inv
<1>1. Init => Inv
  BY InitInv
<1>2. Inv /\ [Next]_vars => Inv'
  BY StepInv
<1> QED
  BY <1>1, <1>2, PTL DEF Spec

\* Every variable keeps its type and its bound, whatever fails, is rewritten or restarts.
THEOREM TypeCorrect == Spec => []TypeOK
<1>1. Inv => TypeOK
  <2> SUFFICES ASSUME TypeInv PROVE TypeOK
    BY DEF Inv
  <2>1. watcher.step \in {"idle", "stat", "read", "merge", "slice", "leases", "arp", "upsert", "panic"}
    BY WatcherForms DEF TypeInv
  <2>2. MaxEvents \in Nat /\ MaxGrants \in Nat
    BY LeasesAssumption
  <2>3. generation \in 0..MaxEvents
    BY <2>2 DEF TypeInv
  <2>4. spent \in [grants : 0..MaxGrants, rotations : 0..MaxEvents, switches : 0..MaxEvents, faults : 0..MaxEvents]
    BY <2>2 DEF TypeInv
  <2>5. {cache, prev, rows, leased, accepted} \subseteq [Macs -> IPs \cup {None}]
    BY DEF TypeInv, LeaseMap
  <2>6. known \in [mtime : Int, size : Nat]
    BY DEF TypeInv, Stats
  <2> QED
    BY <2>1, <2>3, <2>4, <2>5, <2>6 DEF TypeOK, TypeInv
<1> QED
  BY <1>1, Inductive, PTL

\* A lease in the cache was granted: no reading puts one together from two blocks, wherever
\* it starts, however dhcpd cuts its writes and whenever it rewrites the file.
THEOREM CacheWasGranted == Spec => []CachedWereGranted
<1>1. Inv => CachedWereGranted
  BY DEF Inv, GrantedInv, CachedWereGranted
<1> QED
  BY <1>1, Inductive, PTL

\* In hook mode the row of a device ends up with the last address that was accepted,
\* although the watcher writes rows of an older snapshot meanwhile.
THEOREM AcceptedReachRows == Spec => []AcceptedLeasesReachRows
<1>1. Inv => AcceptedLeasesReachRows
  <2> SUFFICES ASSUME Inv, hooked, spent.switches = 0, spent.faults = 0, hook = Idle, queue = <<>>, listener = Idle,
                      watcher = Idle, prev = cache, NEW m \in Macs, accepted[m] # None
               PROVE  rows[m] = accepted[m]
    BY DEF AcceptedLeasesReachRows
  <2>1. Arrived(m) /\ (rows[m] = accepted[m] \/ Stale(m, accepted[m]))
    BY DEF Inv, QueueInv, RowInv, Hooked, Idle
  <2>2. cache[m] = accepted[m]
    BY <2>1 DEF Arrived, Queued
  <2>3. ~Stale(m, accepted[m])
    BY <2>2 DEF Stale, Idle
  <2> QED
    BY <2>1, <2>3
<1> QED
  BY <1>1, Inductive, PTL

\* In file_poll mode a file that will not be read again has been learned, if no reading
\* since has missed a part of a block.
THEOREM FileLearned == Spec => []FileIsLearned
<1>1. Inv => FileIsLearned
  <2> SUFFICES ASSUME Inv, ~hooked, whole, generation = spent.rotations,
                      known = [mtime |-> mtime, size |-> Len(file)], NEW m \in Macs, Parse(file)[m] # None
               PROVE  cache[m] = Parse(file)[m]
    BY DEF FileIsLearned
  <2>1. file \in Seq(Lines) /\ Len(file) \in Nat /\ mtime \in Nat /\ granted \in SUBSET (Macs \X IPs)
    BY LenProperties DEF Inv, TypeInv
  <2>2. known.mtime = mtime /\ known.size = Len(file)
    OBVIOUS
  <2>3. watcher.step # "merge"
    <3> SUFFICES ASSUME watcher.step = "merge" PROVE FALSE
      OBVIOUS
    <3>1. known.mtime < watcher.stat.mtime /\ watcher.stat.mtime <= mtime /\ watcher.stat.mtime \in Int
      BY WatcherForms DEF Inv, TypeInv, LearnInv, StatInv, Stats
    <3> QED
      BY <2>1, <2>2, <3>1
  <2>4. Reached(file, Len(file), cache)
    BY <2>2, <2>3 DEF Inv, LearnInv, ReachInv
  <2>5. \A i \in IPs : LastBlock(file, Len(file), m, i) => cache[m] = i
    BY <2>1, <2>4 DEF Reached
  <2>6. WellFormed(file, granted)
    BY <2>1, BeginningOf DEF Inv, TypeInv, FileInv
  <2>7. Chained(file)
    <3>1. \A k \in 2..Len(file) : k \in 1..Len(file)
      BY <2>1
    <3> QED
      BY <2>6, <3>1 DEF Chained, WellFormed
  <2> PICK parsed : parsed = Parse(file)
    OBVIOUS
  <2>8. parsed \in LeaseMap /\ Collected(parsed, file, Len(file))
    BY <2>1, <2>7, Parsed
  <2>9. parsed[m] \in IPs /\ LastBlock(file, Len(file), m, parsed[m])
    BY <2>8 DEF LeaseMap, Collected
  <2> QED
    BY <2>5, <2>9
<1> QED
  BY <1>1, Inductive, PTL
=============================================================================
