------------------------------- MODULE Leases -------------------------------
(***************************************************************************)
(* How the program learns who has which address (internal/network/         *)
(* network.go, handleDHCPHook and handleAdminDHCPMode in handlers.go, the  *)
(* registration half of DHCPWatcher in background.go).                     *)
(*                                                                         *)
(* Three goroutines: the HTTP handler of dhcpd's hook queues a lease and   *)
(* writes its device row; the hook listener moves the queue into the lease *)
(* cache; the watcher polls dhcpd's lease file into the cache (in          *)
(* file_poll mode) and writes the rows of the leases that changed.  dhcpd  *)
(* itself is external: it waits for its hook, and writes the file through  *)
(* a buffer that is flushed in the middle of a block when it is full.      *)
(*                                                                         *)
(* A lease is the address of a MAC.  The file is a sequence of the lines   *)
(* the parser looks at.                                                    *)
(***************************************************************************)
EXTENDS Integers, SequencesExt

CONSTANTS
  Macs, IPs, None,
  ChanCap,       \* capacity of Net.hookCallbackChan (100 in the code)
  MaxGrants,     \* bound: leases granted, renewed or abandoned by dhcpd
  MaxEvents      \* bound: rewritings of the file, changes of the mode, failed statements

ASSUME LeasesAssumption ==
  /\ None \notin Macs \cup IPs
  /\ IsFiniteSet(Macs)
  /\ ChanCap \in Nat \ {0}
  /\ {MaxGrants, MaxEvents} \subseteq Nat

VARIABLES
  hooked,     \* started in hook mode: there are a token and a listener
  mode,       \* Net.monitorMode
  cache,      \* Net.leasesCacheMap: MAC -> IP
  known,      \* leasesCacheModTime and leasesCacheSize
  queue,      \* Net.hookCallbackChan
  hook,       \* the request dhcpd waits for
  listener,   \* StartHookListener's goroutine
  watcher,    \* DHCPWatcher's goroutine
  prev,       \* App.PrevLeases
  rows,       \* table devices: MAC -> ip_addr
  leased,     \* dhcpd's leases: MAC -> IP (and what the ARP table shows)
  file,       \* lines of dhcpd.leases
  mtime,      \* its modification time
  buffer,     \* lines dhcpd has not flushed yet
  accepted,   \* history: the last lease of each MAC that SubmitHookLease took
  granted,    \* history: pairs of MAC and IP dhcpd granted
  whole,      \* history: no reading since the last full one missed a part of a block
  generation, \* history: rotations before the os.Stat that `known' comes from
  spent       \* bounds used up

net == <<mode, cache, known, queue>>
dhcpd == <<leased, file, mtime, buffer, granted>>
history == <<accepted, whole, generation>>
vars == <<hooked, net, hook, listener, watcher, prev, rows, dhcpd, history, spent>>

NoLeases == [m \in Macs |-> None]
Idle == [step |-> "idle"]
Lines == [kind : {"lease"}, ip : IPs] \cup [kind : {"mac"}, mac : Macs] \cup [kind : {"end"}]
Lease == [mac : Macs, ip : IPs]

TypeOK ==
  /\ hooked \in BOOLEAN /\ mode \in {"hook", "file_poll"}
  /\ {cache, prev, rows, leased, accepted} \subseteq [Macs -> IPs \cup {None}]
  /\ known \in [mtime : Int, size : Nat] /\ mtime \in Nat
  /\ queue \in Seq(Lease) /\ Len(queue) <= ChanCap
  /\ hook \in {Idle} \cup [step : {"submit", "upsert"}, lease : Lease]
  /\ listener \in {Idle} \cup [step : {"received", "writing"}, lease : Lease]
  /\ watcher.step \in {"idle", "stat", "read", "merge", "slice", "leases", "arp", "upsert", "panic"}
  /\ file \in Seq(Lines) /\ buffer \in Seq(Lines)
  /\ granted \subseteq Macs \X IPs /\ whole \in BOOLEAN /\ generation \in 0..MaxEvents
  /\ spent \in [grants : 0..MaxGrants, rotations : 0..MaxEvents, switches : 0..MaxEvents, faults : 0..MaxEvents]

Init ==
  /\ hooked \in BOOLEAN
  /\ mode = IF hooked THEN "hook" ELSE "file_poll"
  /\ cache = NoLeases /\ known = [mtime |-> -1, size |-> 0] /\ queue = <<>>
  /\ hook = Idle /\ listener = Idle /\ watcher = Idle
  /\ prev = NoLeases /\ rows = NoLeases /\ leased = NoLeases
  /\ file = <<>> /\ mtime = 0 /\ buffer = <<>>
  /\ accepted = NoLeases /\ granted = {} /\ whole = TRUE /\ generation = 0
  /\ spent = [grants |-> 0, rotations |-> 0, switches |-> 0, faults |-> 0]

Alive == watcher.step # "panic"
Event(kind) ==
  /\ spent.rotations + spent.switches + spent.faults < MaxEvents
  /\ spent' = [spent EXCEPT ![kind] = @ + 1]
Goto(step) == watcher' = [step |-> step]

-----------------------------------------------------------------------------
(* The parser.                                                             *)

Begun == [inLease |-> FALSE, ip |-> None, mac |-> None, leases |-> NoLeases]

\* Mutant: current is not reset at the start of a block.
ParseWithoutReset(s, line) ==
  CASE line.kind = "lease" -> [s EXCEPT !.inLease = TRUE, !.ip = line.ip]
    [] line.kind = "mac" /\ s.inLease -> [s EXCEPT !.mac = line.mac]
    [] line.kind = "end" /\ s.inLease ->
         IF s.mac = None THEN [s EXCEPT !.inLease = FALSE]
         ELSE [s EXCEPT !.inLease = FALSE, !.leases[s.mac] = s.ip]
    [] OTHER -> s

\* One line of parseDHCPLeasesFromBytes; a later block of a MAC replaces an earlier one.
ParseLine(s, line) ==
  CASE line.kind = "lease" -> [s EXCEPT !.inLease = TRUE, !.ip = line.ip, !.mac = None]
    [] line.kind = "mac" /\ s.inLease -> [s EXCEPT !.mac = line.mac]
    [] line.kind = "end" /\ s.inLease ->
         IF s.mac = None THEN [s EXCEPT !.inLease = FALSE]
         ELSE [s EXCEPT !.inLease = FALSE, !.leases[s.mac] = s.ip]
    [] OTHER -> s

\* What is parsed after each number of lines.
Parsing(lines) ==
  LET after[k \in 0..Len(lines)] == IF k = 0 THEN Begun ELSE ParseLine(after[k - 1], lines[k])
  IN  after

Parse(lines) == Parsing(lines)[Len(lines)].leases

\* New leases replace the cached ones of their MACs.
Merged(new) == [m \in Macs |-> IF new[m] = None THEN cache[m] ELSE new[m]]

-----------------------------------------------------------------------------
(* The watcher.                                                            *)

Tick ==
  /\ watcher = Idle
  /\ Goto(IF mode = "file_poll" THEN "stat" ELSE "leases")
  /\ UNCHANGED <<hooked, net, hook, listener, prev, rows, dhcpd, history, spent>>

\* os.Stat; a file that looks the same is not read again.
Stat ==
  /\ watcher.step = "stat"
  /\ LET st == [mtime |-> mtime, size |-> Len(file)] IN
     IF st = known THEN Goto("leases")
     ELSE watcher' = [step |-> "read", stat |-> st, generation |-> spent.rotations]
  /\ UNCHANGED <<hooked, net, hook, listener, prev, rows, dhcpd, history, spent>>

\* Mutant: the part up to the size that was just seen is skipped.
StartAfterStat == IF watcher.stat.size > known.size THEN watcher.stat.size ELSE 0

\* A file that has grown since the last reading is parsed from its old end.
StartPos == IF watcher.stat.size > known.size THEN known.size ELSE 0

\* os.ReadFile, which may see a later file than os.Stat did; data[startPos:] of a shorter
\* one panics and ends the program.
ReadFile ==
  LET missed == StartPos > 0 /\ (spent.rotations # generation \/ ~whole) IN
  /\ watcher.step = "read"
  /\ IF StartPos > Len(file) THEN Goto("panic")
     ELSE watcher' = [step |-> "merge", stat |-> watcher.stat, generation |-> watcher.generation,
                      new |-> Parse(SubSeq(file, StartPos + 1, Len(file)))]
  /\ whole' = (~missed /\ (file # <<>> => Last(file).kind = "end"))
  /\ UNCHANGED <<hooked, net, hook, listener, prev, rows, dhcpd, accepted, generation, spent>>

\* Under leaseMu: the cache, and the size and time that os.Stat reported.
Merge ==
  /\ watcher.step = "merge" /\ listener.step # "writing"
  /\ cache' = Merged(watcher.new)
  /\ known' = watcher.stat
  /\ generation' = watcher.generation
  /\ Goto("slice")
  /\ UNCHANGED <<hooked, mode, queue, hook, listener, prev, rows, dhcpd, accepted, whole, spent>>

\* The final mapToSlice comes after the Unlock.
Slice ==
  /\ watcher.step = "slice"
  /\ Goto("leases")
  /\ UNCHANGED <<hooked, net, hook, listener, prev, rows, dhcpd, history, spent>>

WorkOn(leases) ==
  watcher' = [step |-> "upsert", snap |-> leases, todo |-> {m \in Macs : leases[m] # None}]

\* DHCPLeases holds leaseMu for reading, also while it reads the ARP table and looks
\* names up because the cache is empty.
DHCPLeases ==
  /\ \/ /\ watcher.step = "leases" /\ listener.step # "writing"
        /\ IF cache = NoLeases THEN Goto("arp") ELSE WorkOn(cache)
     \/ watcher.step = "arp" /\ WorkOn(leased)
  /\ UNCHANGED <<hooked, net, hook, listener, prev, rows, dhcpd, history, spent>>

Fail == Event("faults")

\* A lease that is new or changed is upserted; an error is logged.
RegisterLease ==
  /\ watcher.step = "upsert"
  /\ \E m \in watcher.todo :
       /\ watcher' = [watcher EXCEPT !.todo = @ \ {m}]
       /\ IF prev[m] # watcher.snap[m] \/ rows[m] = None
          THEN \/ rows' = [rows EXCEPT ![m] = watcher.snap[m]] /\ UNCHANGED spent
               \/ Fail /\ UNCHANGED rows
          ELSE UNCHANGED <<rows, spent>>
  /\ UNCHANGED <<hooked, net, hook, listener, prev, dhcpd, history>>

\* Mutant: PrevLeases is what the cache holds at the end of the tick.
RememberCache ==
  /\ watcher.step = "upsert" /\ watcher.todo = {}
  /\ prev' = cache
  /\ watcher' = Idle
  /\ UNCHANGED <<hooked, net, hook, listener, rows, dhcpd, history, spent>>

\* PrevLeases becomes what the tick has worked on, failed upserts included.
RememberLeases ==
  /\ watcher.step = "upsert" /\ watcher.todo = {}
  /\ prev' = watcher.snap
  /\ watcher' = Idle
  /\ UNCHANGED <<hooked, net, hook, listener, rows, dhcpd, history, spent>>

Watch == Tick \/ Stat \/ ReadFile \/ Merge \/ Slice \/ DHCPLeases \/ RegisterLease \/ RememberLeases

-----------------------------------------------------------------------------
(* The hook and its listener.                                              *)

\* Mutant: the send does not look whether the channel has room.
SubmitWithoutRoom ==
  /\ Alive /\ hook.step = "submit"
  /\ IF hooked
     THEN /\ queue' = Append(queue, hook.lease)
          /\ accepted' = [accepted EXCEPT ![hook.lease.mac] = hook.lease.ip]
          /\ hook' = [hook EXCEPT !.step = "upsert"]
     ELSE hook' = Idle /\ UNCHANGED <<queue, accepted>>
  /\ UNCHANGED <<hooked, mode, cache, known, listener, watcher, prev, rows, dhcpd, whole, generation, spent>>

\* A program started in file_poll mode has no token: dhcpd's script stops, or sends an old
\* one, which is refused.  SubmitHookLease drops the lease when the channel is full.
SubmitHookLease ==
  /\ Alive /\ hook.step = "submit"
  /\ IF hooked /\ Len(queue) < ChanCap
     THEN /\ queue' = Append(queue, hook.lease)
          /\ accepted' = [accepted EXCEPT ![hook.lease.mac] = hook.lease.ip]
          /\ hook' = [hook EXCEPT !.step = "upsert"]
     ELSE hook' = Idle /\ UNCHANGED <<queue, accepted>>
  /\ UNCHANGED <<hooked, mode, cache, known, listener, watcher, prev, rows, dhcpd, whole, generation, spent>>

\* handleDHCPHook goes on to write the row; its error is only logged.
HookUpsert ==
  /\ Alive /\ hook.step = "upsert"
  /\ \/ rows' = [rows EXCEPT ![hook.lease.mac] = hook.lease.ip] /\ UNCHANGED spent
     \/ Fail /\ UNCHANGED rows
  /\ hook' = Idle
  /\ UNCHANGED <<hooked, net, listener, watcher, prev, dhcpd, history>>

Receive ==
  /\ Alive /\ listener = Idle /\ queue # <<>>
  /\ listener' = [step |-> "received", lease |-> Head(queue)]
  /\ queue' = Tail(queue)
  /\ UNCHANGED <<hooked, mode, cache, known, hook, watcher, prev, rows, dhcpd, history, spent>>

\* HandleDHCPHook writes the map under leaseMu, whatever the mode is.
HandleDHCPHook ==
  /\ Alive
  /\ \/ /\ listener.step = "received" /\ watcher.step # "arp"
        /\ listener' = [listener EXCEPT !.step = "writing"]
        /\ UNCHANGED cache
     \/ /\ listener.step = "writing"
        /\ cache' = [cache EXCEPT ![listener.lease.mac] = listener.lease.ip]
        /\ listener' = Idle
  /\ UNCHANGED <<hooked, mode, known, queue, hook, watcher, prev, rows, dhcpd, history, spent>>

Hook == SubmitHookLease \/ HookUpsert
Listen == Receive \/ HandleDHCPHook

-----------------------------------------------------------------------------
(* dhcpd, the admin, the service manager.                                  *)

Block(m, i) ==
  <<[kind |-> "lease", ip |-> i]>> \o
  (IF m = None THEN <<>> ELSE <<[kind |-> "mac", mac |-> m]>>) \o <<[kind |-> "end"]>>

Grant == spent.grants < MaxGrants /\ spent' = [spent EXCEPT !.grants = @ + 1]

\* A lease that is granted, moved or renewed; "on commit" calls the hook.
Commit(m, i) ==
  /\ Grant
  /\ hook = Idle /\ \A n \in Macs \ {m} : leased[n] # i
  /\ leased' = [leased EXCEPT ![m] = i]
  /\ granted' = granted \cup {<<m, i>>}
  /\ buffer' = buffer \o Block(m, i)
  /\ hook' = [step |-> "submit", lease |-> [mac |-> m, ip |-> i]]
  /\ UNCHANGED <<hooked, net, listener, watcher, prev, rows, file, mtime, history>>

\* An address that something else answers from: a block without a MAC.
Abandon(i) ==
  /\ Grant
  /\ \A n \in Macs : leased[n] # i
  /\ buffer' = buffer \o Block(None, i)
  /\ UNCHANGED <<hooked, net, hook, listener, watcher, prev, rows, leased, file, mtime, granted, history>>

Flush ==
  /\ \E n \in 1..Len(buffer) :
       /\ file' = file \o SubSeq(buffer, 1, n)
       /\ buffer' = SubSeq(buffer, n + 1, Len(buffer))
  /\ mtime' = mtime + 1
  /\ UNCHANGED <<hooked, net, hook, listener, watcher, prev, rows, leased, granted, history, spent>>

\* From time to time dhcpd replaces the file by one with a block for each lease.
Rotate ==
  /\ Event("rotations") /\ buffer = <<>>
  /\ \E order \in SetToSeqs({m \in Macs : leased[m] # None}) :
       file' = FlattenSeq([k \in DOMAIN order |-> Block(order[k], leased[order[k]])])
  /\ mtime' = mtime + 1
  /\ UNCHANGED <<hooked, net, hook, listener, watcher, prev, rows, leased, buffer, granted, history>>

\* handleAdminDHCPMode: the listener and the token stay as they are.
SetLeaseMonitorMode ==
  /\ Alive /\ Event("switches")
  /\ mode' = IF mode = "hook" THEN "file_poll" ELSE "hook"
  /\ UNCHANGED <<hooked, cache, known, queue, hook, listener, watcher, prev, rows, dhcpd, history>>

\* The program that has panicked is started again; the rows stay.
Restart ==
  /\ ~Alive
  /\ mode' = IF hooked THEN "hook" ELSE "file_poll"
  /\ cache' = NoLeases /\ known' = [mtime |-> -1, size |-> 0] /\ queue' = <<>>
  /\ hook' = Idle /\ listener' = Idle /\ watcher' = Idle /\ prev' = NoLeases
  /\ accepted' = NoLeases /\ whole' = TRUE /\ generation' = 0
  /\ UNCHANGED <<hooked, rows, dhcpd, spent>>

Next ==
  \/ Watch \/ Hook \/ Listen
  \/ \E m \in Macs, i \in IPs : Commit(m, i)
  \/ \E i \in IPs : Abandon(i)
  \/ Flush \/ Rotate \/ SetLeaseMonitorMode \/ Restart

Spec == Init /\ [][Next]_vars

-----------------------------------------------------------------------------
(* Properties.                                                             *)

\* A lease is never put together from two blocks, whatever part of the file a reading
\* starts and ends in (network.go:361-399): every cached lease was granted.
CachedWereGranted == \A m \in Macs : cache[m] # None => <<m, cache[m]>> \in granted

\* In hook mode, once hook, listener and watcher are done and the watcher has nothing new
\* to look at, the row of a device has the address of its latest accepted lease, although
\* the watcher writes rows from a snapshot while the hook writes newer ones
\* (background.go:56-114, handlers.go:1909-1919).
AcceptedLeasesReachRows ==
  /\ hooked /\ spent.switches = 0 /\ spent.faults = 0
  /\ hook = Idle /\ queue = <<>> /\ listener = Idle
  /\ watcher = Idle /\ prev = cache
  => \A m \in Macs : accepted[m] # None => rows[m] = accepted[m]

\* When the file looks as it did at the last reading, so that it is not read again, the
\* cache has its leases, however appending and rewriting it interleave with stat, read and
\* the merge; a reading that had to start inside a block or at an offset of another file
\* is excepted (network.go:205-251; those are hazards).
FileIsLearned ==
  ~hooked /\ whole /\ generation = spent.rotations
          /\ known = [mtime |-> mtime, size |-> Len(file)]
  => \A m \in Macs : Parse(file)[m] # None => cache[m] = Parse(file)[m]

\* "Assumes caller holds leaseMu for reading." (network.go:254): nobody writes the map
\* while mapToSlice ranges over it, which would be fatal.
SlicedUnderLock == ~(watcher.step = "slice" /\ listener.step = "writing")
=============================================================================
