# A verification of foswvs-go

foswvs-go runs a coin-operated Wi-Fi hotspot on a Raspberry Pi. A client inserts coins, the
program credits megabytes to its device and opens the firewall for its address; background
loops charge the traffic and close the address again. This directory holds TLA+ models of the
program's own logic, the TLC runs that check them, and theorems that TLAPS checks.

    tlc -config MCFirewall.cfg MCFirewall     # a run: the .cfg files name them all
    tlapm FirewallProofs.tla                  # a module of proofs

PROJECT.json lists the components, the runs and what each asks, the source lines behind every
definition, the hazards of the code, for every checked property a plausible bug that breaks
it, the disagreements between code and comments, and the theorems.

## 1. The system

    dhcpd ──hook──► handleDHCPHook ─► queue ─► listener ─► lease cache ◄─ polling ─ dhcpd.leases
                          │                                   │
                          ▼                                   ▼ every tick
    clients ─HTTP─► handlers ──────────► SQLite ◄──────── DHCPWatcher, UsagePoller
      ▲               │  │   └─ Coinslot (GPIO)               │      │
      │               │  └──────────► firewall (iptables) ◄───┘      │
      └── WebSocket ──┴── hub ◄──────────────────────────────────────┘
    admins ─HTTP─► handlers ─► shaper (tc), maintenance, settings, network configuration

| component (src/)                    | state                                                                  | operations                                                                              |
|-------------------------------------|------------------------------------------------------------------------|-----------------------------------------------------------------------------------------|
| firewall, internal/iptables         | three iptables rules an address, their byte counters; a mutex          | AddClient, RemoveClient, IsConnected (no lock), GetForwardByteCounters                   |
| coin acceptor, internal/gpio        | busy, the two pins, their levels                                       | IsBusy, RunTopup, Reconfigure                                                            |
| topups, internal/handlers           | cancel channel and status of each device, topup_count (the backoff)    | handleTopup and its streaming goroutine, handleTopupCancel, handleTopupCheck             |
| balances, internal/db               | tables devices and session                                             | UpsertDevice, AddSession, UpdateMBUsed, balances, merge, block                            |
| who is online, internal/handlers    | LastUsage, the maintenance mode, the firewall, the balances            | handleConnect, share, admin requests, DHCPWatcher, UsagePoller, SetMode and its sweep     |
| lease monitoring, internal/network  | lease cache, stored size and time of the file, hook queue, mode        | hook, hook listener, polling and parsing of dhcpd.leases, change of the mode              |
| WebSocket hub, internal/ws          | clients, byDevID, a channel a page                        | Run, the two pumps, SetClientDeviceID, SendToDevice, SendToAdmins, BroadcastAll           |
| shaper, internal/bandwidth          | interface and settings in memory, a file, the qdiscs of the kernel     | SetTrafficControlConfig, Apply, Clear, RestoreSavedConfiguration                          |
| settings, internal/handlers, gpio   | rates, pins, maintenance mode, each in memory and in a JSON file       | load, save, Reconfigure, MaintenanceState.Set, AmountToMB                                |
| network roles and configuration, internal/network | hostname, interfaces, dhcpd.conf and its copy; what the services loaded | SetNetworkConfig, GetNetworkConfig, ApplyRoleConfiguration, EnsureDHCPConfigWithHook, AssignRole |
| admins, internal/auth               | password file, session map, device token key                           | first login, login, change of password, expiry, ReadOrCreateDeviceTokenSecret             |

What makes it hard:

- **Concurrency.** Every request is a goroutine; two loops (DHCPWatcher and UsagePoller)
  run beside them, and a topup adds a runner and a stream. Most state is not guarded by a lock
  that spans a whole operation: a handler checks a balance, a mode or busy, and acts later.
- **State outside.** The firewall and the qdiscs are changed by several commands, any of
  which may fail, and survive the program. The lease file is written by another program.
- **Failure.** Errors of statements and commands are mostly ignored or logged; files
  are written in place.
- **Ordering.** Leases reach the database through two paths; a topup's results through a
  channel of 100; messages through channels that are closed when a page goes away.

What makes each component correct:

- firewall: the mutex is released on every path; no rule is left over or doubled unless a
  command failed; usage is never charged twice; callers see an atomic set of open addresses.
- topups: a topup that was accepted ends, is settled once and for what was counted;
  no channel is closed twice; the acceptor is off when nobody counts; busy means busy; pins
  do not change under a runner.
- who is online: a client with a balance gets online, one without does not go on moving
  data, a lockdown closes everybody, whatever the handlers and loops race for.
- lease monitoring: no lease is made up, none that was delivered is lost or overtaken.
- hub: no send on a closed channel, nobody waits for ever, dead pages are forgotten.
- shaper: memory, file and kernel agree after a change that succeeded.
- settings: a change that was answered as done is in force and survives a restart; so does a lockdown.
- network: hook, address of the primary interface and the router clients are told agree.
- admins: only the first login sets a password; a device token stays readable.

## 2. The modules

| module         | models                                                                    |
|----------------|---------------------------------------------------------------------------|
| AccessSet      | what callers of the firewall rely on: an atomic set of open addresses      |
| Firewall       | iptables.go, one iptables command at a time, two or more goroutines        |
| FirewallProofs | the inductive invariants of Firewall, and that it implements AccessSet     |
| Topup          | coinslot.go with the topup handlers                                        |
| TopupProofs    | the inductive invariant of Topup                                           |
| Store          | the statements of store.go that decide who may be online; used by Portal   |
| Portal         | handlers, watcher, poller and maintenance over Store and the set of open addresses |
| PortalProofs   | lemmas on the statements of Store, the inductive invariants of Portal      |
| Leases         | network.go's lease monitoring, the hook handler, the watcher's registration |
| LeasesProofs   | what the parser of dhcpd.leases returns, the inductive invariants of Leases |
| Hub            | hub.go                                                                     |
| HubProofs      | the inductive invariant of Hub                                             |
| Shaper         | bandwidth.go, trafficcontrol.go and their handler                          |
| ShaperProofs   | the inductive invariant of Shaper                                          |
| Rates          | AmountToMB with the reference that takes the largest coin first; used by Settings |
| NetConfig      | what config.go and discovery.go compute: roles, the text of files and what is read back; used by Settings |
| NetConfigProofs| roles stay exclusive; the router is the LAN's address                      |
| Settings       | password, sessions, rates, pins, maintenance mode, network files and token key, from start to crash |
| SettingsProofs | the inductive invariants of Settings, and of AmountToMB that it is greedy  |
| MC*            | instances for TLC: symmetry and the values of constants                    |

The models are layered. Portal uses the firewall as the atomic set that Firewall implements
(`ImplementsAccessSet`), and it takes a lease as learned in the end, which is what Leases is
about. It extends Store, and its watcher is the same code as the watcher of Leases, there with
the reading of the file in detail, here with the rest of the tick.

### Firewall
`pc[t]` is where goroutine t is between two commands; `mu` is IPT.mu; `rules[ip][r]` counts
copies of the rules nat (the redirect skipped), src (uplink) and dst (downlink). A check or a
command is one step, so a crash or a failed command can come between any two. An iptables -C
that fails for another reason looks like an absent rule, which is how duplicates arise.
Forwarded traffic increments a counter that iptables -Z takes back; `carried` and `billed`
are histories. IsConnected reads the uplink rule without the lock.

### Topup
Each topup has a handler (`h`), a runner (`run`) and a stream (`str`), whose program counters
stand for the three goroutines of handlers.go 430-580 and coinslot.go 130-240. `chan` is
the channel between runner and stream, `cancelled` the closed cancel channels, `cancels` and
`status` the two maps of App. A turn of the runner's loop is one read of the slot (`CountCoin`,
`NoCoin`), the look at the clock (`TimeOut`), and, when the ticker has fired, the sending of
progress (`SendProgress`), which blocks the whole loop while the channel is full: at "progress" the runner
sees no coin, no clock and no cancel. Between topup and credit, DHCP may give the topup's address
to another device or leave it without one (`Move`; then `SettleNobody` loses the coins, as
handlers.go:552-556 does), a statement may fail, admins may change the pins, maintenance may begin,
and the program may die. A coin is one unit of credit. `overlapped` and `stranded` are histories: two runners
have held the coinslot at once; a topup's address was without a device before the topup ended.

### Store and Portal
Store has the rows, `lastId` (the rowid of SQLite's last insert, which UpsertDevice returns
whether it inserted or updated) and operators for each statement. Portal cuts each handler and
loop at its statements: a state between two steps is one in which another goroutine may run.
`work[h]` is what a handler does next. The watcher goes through a snapshot of leases; the
poller reads the counters once and then works through them. A grant of the free mode has a timestamp in
whole seconds, so the clock is in the model. `connected` is the set of open addresses.

### Leases
The file is a sequence of the lines the parser looks at (`lease`, `hardware`, `}`). dhcpd
appends blocks through a buffer that may be flushed in the middle of a block, and at times
replaces the file by a shorter one. A poll is four steps: os.Stat, os.ReadFile,
parsing with the merge under the lock, and mapToSlice after it. The hook's handler waits as the
real one does; the queue drops when it is full.

### Hub
`hub` is Run, with its select over three channels; `clients`, `byDevID` and the
fill level of each page's channel are its state; a page has a reader, a writer and the handler
that registers it. Senders call SendToDevice, SendToAdmins and BroadcastAll. A send on a
channel that is full is dropped; one on a closed channel panics where there is no recover.

### Shaper
Apply is three deletions whose errors are ignored and up to ten additions, each a step that
may fail; a tc addition is refused when the part is there or its parent is not. Requests of two
admins interleave, a link goes down, the program stops or dies; the kernel and the file stay.

The tc settings that were rejected stay in memory although bandwidth.go:229 says they are
reverted: only the interface is put back. The model does the same.

### Rates, NetConfig and Settings
NetConfig and Rates are pure. In Rates a table maps denominations to whole megabytes (the
code has floats), and the loop over the sorted denominations is a function of the set already
taken, which a proof can follow by the size of the set. In NetConfig files are records of what
matters in their text. Reading back
loses what the code loses: the parser trims each line before it looks for an indent, so that of
a stanza only the interface's name survives, and the primary interface is whatever interface the
program was started on. So a change of roles (`SetRoles`: read the configuration in force,
apply the roles, write) drops the static addresses an admin had set. Roles are stored nowhere,
the handlers never call ValidateRoleAssignment although one says "Validate and apply"
(handlers.go:1694), and AssignRole has no caller: it is an operator with a theorem, and no action.

Settings is the process and its files. `file[f]` is absent, empty (truncated and not written
yet), whole or torn; os.WriteFile is `Open`, which truncates, and `WriteOut`; two writes of
a file that overlap may leave the end of the longer one behind the shorter one. `work[w]` is the
request goroutine w serves, the step it takes next and the value it carries; `Successor` is
the order of the steps in each handler. Only the maintenance mode has a lock (`mu`). `Main`
is the start: in hook mode it ensures the hook in dhcpd.conf (a start that polls the lease file
skips that, one that cannot read the file goes on without), reads or makes the token key (one it cannot
read is replaced) and loads the
settings; it makes no network service read a file again, so dhcpd goes on with the file it loaded before.
`running` is what the services loaded last. A write or command may fail at any step, and the program may
die between any two. A failed write of the password, the mode or a network file ends the request with
an error; that of the rates or the pins does not: the admin is told "saved" (handlers.go:1112-1113) or
shown the pins in use (1159-1164), so `RequestFails` answers these as done. `issued`, `acked`, `suspect` and
`latest` are histories: keys in use when tokens were handed out, unless given up; whether an admin was told
that a password is set; the files whose last write failed, with dhcpd.conf until this process has written it or
found the hook in it; and, of the latest change in each group of settings, whether it met no other,
was answered as done, and was written.
Two changes that overlap may leave a mixture, which no lock prevents; the properties speak of
those that did not, except for the mode, which has a lock, and the hook, key and password, for which
any overlap is safe.

## 3. The runs

| run              | instance                                                       | distinct states | shows |
|------------------|----------------------------------------------------------------|------|-------|
| firewall         | 2 addresses, 2 goroutines, 1 fault, 1 unit of traffic           | 195 000 | mutex, duplicates, uplink, billing, all three rules or none, the refinement of AccessSet, every call returns |
| topup            | 2 topups at one address, 2 devices, 2 pins, 1 coin, 1 event     | 2.6 million | no double close, no entry left over, the acceptor is not left on, settled for what was counted |
| topup_live       | 2 topups of one device, a channel of 1, 1 coin, no event        | 263 000 | accepted topups end |
| portal           | 1 device, 2 addresses, 2 requests at once, 3 events, leases from the file | 514 000 | rows follow leases; balance ⇒ online again, no balance ⇒ no more traffic, lockdown ⇒ closed again |
| hub              | 1 page, 1 admin panel, 1 sender, channels of capacity 1         | 39 000 | no send on a closed channel, nobody waits, broken pages are forgotten |
| leases           | 2 devices, 2 addresses, 2 leases, 1 event, a queue of 1         | 4.3 million | cached leases were granted, accepted ones reach the rows, the file is learned |
| shaper           | 2 admins, 2 interfaces, 3 requests, 1 fault                     | 1.1 million | memory, file and kernel agree after a lone success; a lone Apply succeeds |
| settings         | 2 admins, 3 requests, 1 session, 2 interfaces, 1 fault, the packaged dhcpd.conf | 1.5 million | changes are in force and survive, one first login, tokens stay readable, the hook stays, files, services and router agree, credit is greedy |
| topup_busy, portal_reconnect, portal_grants, leases_lock | small instances of the same | | the four disagreements of section 6 |

**The bounds.** Every bound is a constant in a guard. Two goroutines are enough for a race,
as every hazard listed is one of two parties (the one that checks and the one that acts in
between); one fault or crash is enough to leave each partial state, and what follows it, the
retry included, is explored. A channel of capacity one is full and empty, which is all the
code asks; the real capacities (100, 64, 256) only make the full one rarer. A counter that
saturates (topup_count) is only compared with its limit. In Topup an event is an upsert by DHCP, a change of
the pins or of the mode, a failed statement or a crash; topup_live has none and no backoff, since the question
is whether the goroutines wait for each other. In Portal an event is a request, an address given or left, a second
of the clock or a crash; one device at two addresses with two requests has the races of handlers,
watcher and poller (a balance read before it is credited, an address opened after the sweep, a lease
that moves under a request). Two devices meet in portal_reconnect only, and hook mode in portal_grants only;
the theorems of PortalProofs cover both. In Leases two grants make a lease that is renewed,
moved or overtaken. In Settings
three requests are the first login, and then two that overlap, or one that a crash
interrupts and one after the restart; one fault is the crash or the failed write; the two
submissions differ in hostname, address, name servers and enabled interfaces, so every file
has two contents; `MaxAmount` is enough for amounts that need two denominations of either table and those that leave a remainder.
What stays unexplored by TLC: three overlapping requests, two events in one history of Topup, two faults in one
history (in Shaper, Settings and Firewall), more than one change of the mode or replacement of
the file.

**No deadlock** is checked except in Hub (which stops), Shaper and Settings (where nothing
happens when no request comes, and requests are bounded).

## 4. Fairness

Safety needs none. The liveness properties assume:

- *Firewall*: strong fairness of a goroutine inside the firewall. sync.Mutex hands the lock
  to a waiter after one millisecond, so one that waits is not overtaken for ever. Nobody
  has to call the firewall.
- *Topup*: weak fairness of handlers, runners and streams, goroutines that run when they
  can, and strong fairness of `TimeOut`: every turn of the runner's loop that is not blocked looks at the
  clock, and when the last coin is in (there are finitely many) 15 seconds pass. Progress and the final result are
  both sent blocking, and fairness does not make room: that the runner gets on is what `TopupsEnd` shows
  of the stream. Clients, admins, coins and the progress ticker owe nothing.
- *Portal*: weak fairness of both loops (their tickers never stop), of a request that
  has begun, and of learning a lease. No client or admin has to make a request.
- *Hub*: strong fairness of what waits on Run's select, which picks among ready cases at
  random and serves waiting goroutines in turn; weak fairness of the rest. A page whose
  connection is closed has its read fail.
- *Leases, Shaper and Settings*: no liveness is stated. Their invariants speak of the states in which
  nothing is under way.

## 5. What is proved

Every invariant and every action property that a passing run checks, and the refinement, is also a
theorem, for every value of the constants. The assumptions are named and stand in the modules that
declare the constants; TLC evaluates them on every run:

- of all modules: constants are of their kinds, bounds are natural numbers, channels hold at
  least one message, and the values that mean "none" are no members of the sets;
- `TopupAssumption`: there is a pair of pins, and there can be a row for every client;
- `ShaperAssumption`: submitted configurations are settings, the default one is CAKE
  (trafficcontrol.go), and ifb0 is none of the interfaces to shape;
- `PortalAssumption`: clients, addresses and requests at a time are finitely many (the bound of
  `GrantsAlwaysBounded` counts requests), addresses are not MACs, and the rows at the start have different MACs,
  as the UNIQUE column demands;
- `LeasesAssumption`: finitely many MACs, as the lease map is finite;
- `SettingsAssumption`: the default pins are pins, and a table of rates is finite and
  has positive denominations, as loadRates leaves no others.

Nothing else is bounded in the proofs: not the number of goroutines, admins, topups, pages, coins,
leases, rewritings of the file, requests, restarts or faults.

- **FirewallProofs**: `TypeCorrect`, `Exclusion`, `Duplicates`, `Uplink` and `Billing`, all
  from `Inductive`. Neither `DuplicatesNeedFaults` nor `AddedClientHasUplink` is inductive: a
  step that appends a rule would have to be known to come after a check that missed it.
  `IInv` adds `Knows`, what the owner of the mutex found out and nobody can have changed since (only
  the owner issues commands), and `Balance`: outside the last two loops of RemoveClient, which
  delete the uplink rules before the downlink rules, a downlink rule beyond the uplink rules is
  the trace of a fault. That is why AddClient, which looks only for the uplink rule, can append
  both. The proof has one lemma for each kind of step (a check, a change, locking and
  unlocking, traffic, a crash) and one for each of the three operations. Billing is inductive
  with the types alone.
  `AllRules` and `Refinement` add `EvenInv`, which speaks of histories without faults: an address
  nobody works on has each rule as often as the others, at most once, and for the owner of the
  mutex `Stage` says, label by label, which of the three rules its address has by now. Every
  command of AddClient and RemoveClient moves one stage to the next, so that at the final return the address is
  even again. For the refinement, a step leaves the requests of all other goroutines where they
  were (nobody else is past the mutex, so nobody else's request depends on the rules) and
  either carries out the mover's own (`Effect`: the uplink rule appended, found, deleted or
  missed) or changes nothing the callers see (`Same`).
- **TopupProofs**: `TypeCorrect`, `CancelsStayOpen`, `NoEntryOutlivesTopups`, `AcceptorNotLeftOn`
  and `SettledOnce`, all from one `IInv`, which says for each of the three goroutines of a topup
  what the others have done by now. `Linked`: runner and stream start together, and the stream
  receives as long as the runner lives. `NotYetCancelled`: a topup that has not stored its cancel channel has not
  been cancelled, so an entry never holds a closed channel. `FinalIsCount`: once
  the runner has sent its final result, the last message of the channel (or, when that is
  empty, the last one received) is its count, whatever progress messages were dropped.
  `ChannelDrained` and `Paid` carry that to the credit; a topup that was not paid has a fault or is in `stranded`.
  `Alone`: without an overlap the runner that holds the coinslot is the only one, so busy is true from its first
  step to its last, no pin changes under it (`Reconfigure` asks for busy), and what it switches off is what it
  switched on. `Housed`: a topup under way whose address has no device is in `stranded`. `BystanderKeepsEntries` covers
  the many steps that no entry can be about.
- **PortalProofs**: `TypeCorrect`, `RowsAlwaysFollow` and `GrantsAlwaysBounded` (what is left of the cap that
  portal_grants refutes: at most one grant a window for each request served at a time). One lemma for
  each statement of Store; the types need that MACs stay unique (`StoreOK`), since that
  is what bounds the rowids, and that a handler which looks for a row's address has found the row.
  `RowInv`: a row shows the address of a lease the watcher has seen, or the watcher still has it to
  write (`Stale`: in its snapshot, or in what it compares the next one with). `GrantInv`: once a
  window has a grant, every check of that window finds it (`Seen`), so the
  grants of a device and the handlers past their check (`Granting`) are never more than the handlers.
- **LeasesProofs**: `TypeCorrect`, `CacheWasGranted`, `AcceptedReachRows` and `FileLearned`. The core
  is what the parser returns: after k lines its state is determined by the lines before (`Tracks`), so a
  reading returns for each MAC its last whole block (`Parsed`). With `FileInv` (file and
  buffer together are whole blocks of granted leases, wherever dhcpd's flush cuts them) no lease is
  put together from two blocks. `LearnInv` carries what has been read past through the four steps of a
  poll: a file whose time is unchanged has not grown (`KnownInv`), a stat is not newer than
  what is read after it (`StatInv`), and the cache, as the merge under way will leave it, agrees with the
  file up to the end of a block (`ReachInv`). For hook mode, `QueueInv` says that the last lease accepted
  for a MAC is the last one queued, or held by the listener, or cached, and
  `RowInv` that a row which differs is still to be written.
- **ShaperProofs**: `TypeCorrect`, `SettingInForce` and `LoneApplyIsAccepted`. `IInv` follows an
  Apply that is alone through its steps: what it has cleared so far (`Cleared`), what it has built
  (`Built`), and that the commands left are a suffix of those for its setting (`Suffix`), so
  the kernel has exactly the parts the next command needs as parents and lacks the part it adds. That
  depends on ifb0 being none of the interfaces. An earlier request, or one
  that overlapped, may have left anything in the kernel.
- **HubProofs**: `TypeCorrect` and `SendersNeverPanic`. The strengthening is
  `KnownWereRegistered`: a page the hub knows, or has closed, has got past its registration, so
  a page that registers is a new one and its channel is open.

- **SettingsProofs**: `TypeCorrect`, `FirstLoginOnce`, `TokensAlwaysValid`,
  `ModeAlwaysSurvives` and `HookStaysInstalled`, for any number of admins, requests, sessions
  and faults. All rest on `Shape`: which steps a goroutine can be at for each kind of
  request, and that admins work only while the program serves and main only while it starts. On top of it,
  `PasswordInv` (who has the password file open, or was told of a password, has seen it
  created, and nothing deletes it), `KeyInv` (a key tokens were made with is whole in the file and
  main makes no other), `ModeInv` (the one holder of the lock is the one that changes the mode;
  between writing and setting the file is ahead) and `HookInv` (dhcpd.conf is suspect until main has looked at it, and whoever writes it writes the hook). The types add what a goroutine carries to a file.
  `ChangesStayInForce` and `NetworkStaysInForce` rest on `ForceInv`. While the latest request of a
  group is alone nobody else is about to change what it changes, so, by induction over its steps, what it has
  put in force so far stays (`Got`, one clause a step: the file it wrote holds what it carried, the service
  that loaded it read that file); a request that is answered has passed all of them (`Effect`), or, when it was answered
  in spite of a failed write, all but the file (`Reached` and `Counts` say what then still holds).
  `RouterIsPrimary` adds what the texts say.
  `CreditIsAlwaysGreedy`: after the denominations of an upper part of the table, what was credited and
  what is left are together worth the whole amount, and what is left is below every one of them
  (`LoopKeepsWorth`, by the size of the part); as long as no larger coin fits, q coins are worth q
  times the coin (`SameCoin`).
- **NetConfigProofs**: `RolesStayExclusive`, by cases on what AssignRole removes and appends,
  with a lemma on the elements RemoveAt leaves; `RouterIsLan`, for any configuration and list of roles.

**Recursion.** The parser of dhcpd.leases, the loop of AmountToMB and its reference are recursive
functions or folds, and the library's induction theorems take an operator as a parameter, which the
provers cannot instantiate. The proofs use them all the same: the induction rule is proved for a *set* of
numbers, by its least counterexample (`WFMin`), and the claim is put in a set
comprehension (`T == {n \in Nat : ...}`). That a recursive definition has a solution is
proved in the same way (`Recursion` in SettingsProofs, `Iterated` in LeasesProofs).

**Only model-checked:** the liveness properties (`CallsReturn` of Firewall and of Hub, `BrokenPagesForgotten`, `TopupsEnd`,
`EventuallyOnline`, `NoFreeRide` and `LockdownWins`), which are outside what TLAPS proves with the
provers used, and the four disagreements of section 6, which are counterexamples.

## 6. Where the code and its comments disagree

1. **topup_busy.** "IsBusy returns true if a topup session is in progress" (coinslot.go:128)
   is false when two requests passed the check together and the first runner has ended. Reconfigure, which
   "Refuses to do so mid-topup" (coinslot.go:70), goes by busy: the second runner may switch off another pin than
   it switched on. That is why `CoinslotNotLeftOn` speaks of the former pins only while no two topups have overlapped.
2. **portal_reconnect.** "Auto-reconnect only if device is present/connected AND has remaining
   data" (background.go:95): UpsertDevice returns the id of the last insert, of any
   device, when it only updates; the watcher reads that row's balance.
3. **leases_lock.** "Assumes caller holds leaseMu for reading" (network.go:254): the caller has
   released it, and a listener left over from hook mode may be writing.
4. **portal_grants.** "Used to cap maintenance mode's free-data grant to once per activation window"
   (store.go:328-330): the cap is a query and then an insert, and two requests of one device
   both find no grant. One for each request served at a time is what holds (`GrantsAlwaysBounded`).

One more is in the model without a run of its own: an admin is told that rates are "saved", or shown the
pins "so frontend can verify" (handlers.go:1113, 1163), although the file could not be written; `SettingsInForce`
excepts such an answer by `saved`: of the rates it then says nothing, of the pins that they are in force up to the
restart.

The hazards of PROJECT.json say more: some describe what the code does and no line of the
repository forbids (two shares at once overdraw a balance; a topup whose address has lost its device loses its coins;
a lockdown is lost by a crash between truncating and writing its file).

## 7. What is not modelled

- Of the network configuration: the files of hostapd and dhcpcd, the discovery of
  interfaces, and the validation of addresses.
- Of admins and tokens: hashing and encryption, which are taken for granted, and dates of expiry: a
  session may end at any time.
- **Share codes** and their expiry; listings, earnings and search.
- RestoreBaseRules, SendToIP and TrackIP, which nothing calls.
- The change of the lease monitoring mode (handlers.go:1925-1957) is in Leases, not in Settings: going over
  to hook mode installs no hook, and a start in file_poll mode does not either, so `HookInstalled` promises nothing
  of a dhcpd.conf this process has not written.
- The pins are read and written in one step each (SensorOn reads them under the lock and writes after it).
- The torn copy of a settings struct that the unguarded Shaper allows, the
  command-line overrides of the shaper (the Apply of main.go:175-178), the priorities of interface detection.
- Time, except for the seconds of a free-mode grant: how long nmblookup holds the lease lock,
  the thirty seconds of a topup and the length of a backoff are nondeterministic choices.
- Flags, signals, TLS and pprof;
  the development stand-ins; the pages in the browser.

## 8. Plan

In order:

1. Theorems for the safe halves of the liveness properties: what a goroutine that waits
   waits for, and that somebody who can move holds it.
2. The refinement of a Portal whose firewall is the one of Firewall, instead of the atomic set.
3. Share codes and their expiry in Portal.
4. Larger instances: three overlapping requests in Topup with one device, two faults in Shaper
   and Settings with one admin, two devices that contend for one address in Portal.
