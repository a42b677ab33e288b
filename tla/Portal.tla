------------------------------- MODULE Portal -------------------------------
(***************************************************************************)
(* Who is online: the goroutines that read the balances of Store and open  *)
(* and close the firewall (internal/handlers/handlers.go, background.go,   *)
(* maintenance.go).  HTTP handlers, DHCPWatcher and UsagePoller share no   *)
(* lock: each is a sequence of database statements and firewall calls, and *)
(* every one of those is a step here.                                      *)
(*                                                                         *)
(* The firewall is the atomic set that module Firewall implements.  A MAC  *)
(* made up by devMACForIP for an unknown IP is written as that IP.  dhcpd  *)
(* waits for its hook before it answers a client, so the upsert of the     *)
(* hook is part of getting an address.                                     *)
(***************************************************************************)
EXTENDS Store

CONSTANTS
  Macs,          \* MAC addresses of clients
  IPs,           \* addresses of the client network
  Handlers,      \* goroutines that serve HTTP requests
  None,          \* no lease; as the address of a row: one outside IPs, from earlier days
  Known,         \* a sequence of the MACs the database knows from earlier days
  HookMode,      \* leases come from dhcpd's hook, not from polling its lease file
  Ops,           \* the requests clients and admins make in this instance
  PaidMB, FreeMB, ShareMB,  \* size of a credited topup, a free-mode grant, a share
  MaxTraffic,    \* bound: MB an IP forwards between two readings
  MaxSessions,   \* bound: session rows
  MaxEvents,     \* bound: requests, addresses given and left, seconds and crashes, together
  MaxClock       \* bound: seconds the clock advances

ASSUME PortalAssumption ==
  /\ IPs \cap Macs = {} /\ None \notin IPs \cup Macs
  /\ IsFiniteSet(Macs) /\ IsFiniteSet(IPs) /\ IsFiniteSet(Handlers)
  /\ Known \in Seq(Macs) /\ IsInjective(Known) /\ HookMode \in BOOLEAN
  /\ Ops \subseteq {"connect", "credit", "cancel", "share", "merge", "addSession", "block", "clear",
                "delSession", "maintenance"}
  /\ {PaidMB, FreeMB, ShareMB} \subseteq Nat \ {0}
  /\ {MaxTraffic, MaxSessions, MaxEvents, MaxClock} \subseteq Nat

VARIABLES
  connected,   \* IPs with internet access
  pending,     \* MB the kernel counted per IP since the last reading
  maintenance, \* MaintenanceState: mode and EnabledAt
  now,         \* wall clock, in seconds
  address,     \* MAC -> the IP the client uses (the ARP table), None when it is away
  cache,       \* Net.leasesCacheMap: MAC -> IP
  handler,     \* what each request handler does next
  watcher,     \* what DHCPWatcher does next
  prevLeases,  \* App.PrevLeases
  poller,      \* what UsagePoller does next
  events,      \* bound used up
  grants       \* history: free-mode grants per device since maintenance was last set

access == <<connected, pending>>
world == <<now, address, cache, events>>
background == <<watcher, prevLeases, poller>>
vars == <<storeVars, access, maintenance, world, handler, background, grants>>

Modes == {"off", "lockdown", "free"}
Idle == [step |-> "idle"]
NoLeases == [m \in Macs |-> None]
Ids == 0..(Cardinality(Macs) + Cardinality(IPs) + MaxSessions)

\* DHCPLeases: the cache, or the ARP table as long as the cache is empty.
Leases == IF cache = NoLeases THEN address ELSE cache
Online == {m \in Macs : address[m] # None}
InUse(ip) == \E m \in Macs : address[m] = ip  \* MACForIP(ip) # ""

HandlerSteps == {"idle", "upsert", "begin", "usage", "grant", "already", "add", "deduct",
                 "credit", "address", "open", "close", "devices", "sweep"}

\* Every variable has its type, and a MAC has one row.
TypeOK ==
  /\ \A d, e \in DOMAIN devices : devices[d].mac = devices[e].mac => d = e
  /\ \A d \in DOMAIN devices : devices[d].mac \in Macs \cup IPs /\ devices[d].ip \in IPs \cup {None}
  /\ Range(order) = DOMAIN devices /\ Len(order) = Len(devices)
  /\ \A s \in DOMAIN sessions : sessions[s].dev \in Ids /\ sessions[s].at \in 0..MaxClock
  /\ lastId \in Ids
  /\ connected \subseteq IPs /\ pending \in [IPs -> 0..MaxTraffic]
  /\ maintenance \in [mode : Modes, enabledAt : 0..MaxClock]
  /\ now \in 0..MaxClock /\ events \in 0..MaxEvents
  /\ {address, cache, prevLeases} \subseteq [Macs -> IPs \cup {None}]
  /\ \A h \in Handlers : handler[h].step \in HandlerSteps
  /\ watcher.step \in {"idle", "next", "act", "reconnect"}
  /\ poller.step \in {"idle", "next", "charge", "check", "remove"}
  /\ grants \in [Ids -> 0..MaxSessions]

Init ==
  /\ devices = [k \in DOMAIN Known |-> [mac |-> Known[k], ip |-> None]]
  /\ order = [k \in DOMAIN Known |-> k]
  /\ sessions = <<>> /\ lastId = 0
  /\ connected = {} /\ pending = [i \in IPs |-> 0]
  /\ maintenance = [mode |-> "off", enabledAt |-> 0]
  /\ now = 0 /\ address = NoLeases /\ cache = NoLeases /\ events = 0
  /\ handler = [h \in Handlers |-> Idle]
  /\ watcher = Idle /\ prevLeases = NoLeases /\ poller = Idle
  /\ grants = [d \in Ids |-> 0]

\* IPT.AddClient and IPT.RemoveClient, which take an IP that is already in the wanted
\* state as done; the counters of removed rules are gone.
AddClient(ip) == connected' = connected \cup {ip} /\ UNCHANGED pending
RemoveClient(ip) == connected' = connected \ {ip} /\ pending' = [pending EXCEPT ![ip] = 0]
RoomForSession == Len(sessions) < MaxSessions
Event == events < MaxEvents /\ events' = events + 1

-----------------------------------------------------------------------------
(* Request handlers.                                                       *)

Continue(h, next) == handler' = [handler EXCEPT ![h] = next]
Step(h, step) == Continue(h, [handler[h] EXCEPT !.step = step])
Finish(h) == Continue(h, Idle)
Then(h, step, ip) == Continue(h, [step |-> step, ip |-> ip])
AtStep(h, op, step) == handler[h].step = step /\ handler[h].op = op

\* deviceForIP looks the IP up in one statement and, if no row has it, upserts a
\* made-up device in another.
ClientOps == {"connect", "credit", "cancel", "share", "merge"} \cap Ops

ClientRequest(h) ==
  /\ handler[h] = Idle
  /\ Event
  /\ \E op \in ClientOps, i \in {address[m] : m \in Online} :
       LET d == GetDeviceIDByIP(i) IN
       Continue(h, [op |-> op, ip |-> i, dev |-> d, to |-> NoDevice, mode |-> "off", since |-> 0,
                    step |-> IF d = NoDevice THEN "upsert" ELSE "begin"])
  /\ UNCHANGED <<storeVars, access, maintenance, now, address, cache, background, grants>>

UpsertUnknown(h) ==
  LET i == handler[h].ip
      id == UpsertedId(i) IN
  /\ handler[h].step = "upsert"
  /\ UpsertDevice(i, i)
  /\ Continue(h, IF id = NoDevice THEN Idle ELSE [handler[h] EXCEPT !.dev = id, !.step = "begin"])
  /\ UNCHANGED <<access, maintenance, world, background, grants>>

\* handleConnect reads the mode once; lockdown is a 503.
ConnectBegin(h) ==
  /\ AtStep(h, "connect", "begin")
  /\ IF maintenance.mode = "lockdown" THEN Finish(h)
     ELSE Continue(h, [handler[h] EXCEPT !.mode = maintenance.mode, !.step = "usage"])
  /\ UNCHANGED <<storeVars, access, maintenance, world, background, grants>>

ConnectUsage(h) ==
  /\ AtStep(h, "connect", "usage")
  /\ IF HasData(handler[h].dev) THEN Then(h, "open", handler[h].ip)
     ELSE IF handler[h].mode = "free" THEN Step(h, "grant")
     ELSE Finish(h)
  /\ UNCHANGED <<storeVars, access, maintenance, world, background, grants>>

\* maybeGrantMaintenanceFreeMB reads the mode again, then asks for an earlier grant
\* of this window, then adds the session: three steps.
GrantMode(h) ==
  /\ AtStep(h, "connect", "grant")
  /\ IF maintenance.mode # "free" THEN Finish(h)
     ELSE Continue(h, [handler[h] EXCEPT !.since = maintenance.enabledAt, !.step = "already"])
  /\ UNCHANGED <<storeVars, access, maintenance, world, background, grants>>

GrantAlready(h) ==
  /\ AtStep(h, "connect", "already")
  /\ IF HasFreeSessionSince(handler[h].dev, handler[h].since) THEN Finish(h)
     ELSE Continue(h, [op |-> "connect", step |-> "add", dev |-> handler[h].dev, ip |-> handler[h].ip])
  /\ UNCHANGED <<storeVars, access, maintenance, world, background, grants>>

GrantAdd(h) ==
  /\ AtStep(h, "connect", "add")
  /\ RoomForSession
  /\ AddSession(handler[h].dev, TRUE, FreeMB, now)
  /\ grants' = [grants EXCEPT ![handler[h].dev] = @ + 1]
  /\ Then(h, "open", handler[h].ip)
  /\ UNCHANGED <<access, maintenance, world, background>>

\* The end of a topup: the credit goes to the device now at the address (looked up
\* by ClientRequest), and the address is connected in any maintenance mode.
Credit(h) ==
  /\ AtStep(h, "credit", "begin")
  /\ RoomForSession
  /\ AddSession(handler[h].dev, FALSE, PaidMB, now)
  /\ Then(h, "open", handler[h].ip)
  /\ UNCHANGED <<access, maintenance, world, background, grants>>

\* The end of handleTopupCancel: a client with a balance is connected in any mode.
CancelUsage(h) ==
  /\ AtStep(h, "cancel", "begin")
  /\ IF HasData(handler[h].dev) THEN Then(h, "open", handler[h].ip) ELSE Finish(h)
  /\ UNCHANGED <<storeVars, access, maintenance, world, background, grants>>

\* handleShare, PUT with the code of another device: check, deduct from the caller,
\* credit the owner of the code, connect the owner.
ShareCheck(h) ==
  /\ AtStep(h, "share", "begin")
  /\ \/ /\ Remaining(handler[h].dev) >= ShareMB
        /\ \E to \in DOMAIN devices \ {handler[h].dev} :
             Continue(h, [handler[h] EXCEPT !.to = to, !.step = "deduct"])
     \/ Remaining(handler[h].dev) < ShareMB /\ Finish(h)
  /\ UNCHANGED <<storeVars, access, maintenance, world, background, grants>>

ShareDeduct(h) ==
  /\ AtStep(h, "share", "deduct")
  /\ UpdateMBUsed(handler[h].dev, ShareMB)
  /\ Step(h, "credit")
  /\ UNCHANGED <<access, maintenance, world, background, grants>>

ShareCredit(h) ==
  /\ AtStep(h, "share", "credit")
  /\ RoomForSession
  /\ AddSession(handler[h].to, TRUE, ShareMB, now)
  /\ Continue(h, [handler[h] EXCEPT !.dev = handler[h].to, !.step = "address"])
  /\ UNCHANGED <<access, maintenance, world, background, grants>>

\* handleDeviceInfo with the token of another device, whose MAC this client had before.
\* The device left without sessions starts over with its grants.
Merge(h) ==
  /\ AtStep(h, "merge", "begin")
  /\ \E old \in DOMAIN devices \ {handler[h].dev} :
       /\ MergeDeviceSessions(old, handler[h].dev)
       /\ grants' = [grants EXCEPT ![old] = 0]
  /\ Finish(h)
  /\ UNCHANGED <<access, maintenance, world, background>>

\* GetDeviceIP.  Opening or closing an address outside IPs shows nothing here.
Address(h) ==
  LET ip == devices[handler[h].dev].ip IN
  /\ handler[h].step = "address"
  /\ IF ip = None THEN Finish(h)
     ELSE Then(h, IF handler[h].op = "block" THEN "close" ELSE "open", ip)
  /\ UNCHANGED <<storeVars, access, maintenance, world, background, grants>>

Open(h) ==
  /\ handler[h].step = "open"
  /\ AddClient(handler[h].ip)
  /\ Finish(h)
  /\ UNCHANGED <<storeVars, maintenance, world, background, grants>>

-----------------------------------------------------------------------------
(* Requests of admins.  The device is found by its MAC, which never        *)
(* changes, so the lookup needs no step.                                   *)

AdminOps == {"addSession", "block", "clear", "delSession", "maintenance"} \cap Ops

AdminRequest(h) ==
  /\ handler[h] = Idle
  /\ Event
  /\ \/ \E op \in AdminOps \ {"maintenance"}, d \in DOMAIN devices :
          Continue(h, [op |-> op, dev |-> d, step |-> "begin"])
     \/ /\ "maintenance" \in Ops
        /\ Continue(h, [op |-> "maintenance", step |-> "begin"])
  /\ UNCHANGED <<storeVars, access, maintenance, now, address, cache, background, grants>>

\* handleAdminAddSession: add, read the balance, connect in any maintenance mode.
AdminAddSession(h) ==
  /\ AtStep(h, "addSession", "begin")
  /\ RoomForSession
  /\ AddSession(handler[h].dev, TRUE, FreeMB, now)
  /\ Step(h, "usage")
  /\ UNCHANGED <<access, maintenance, world, background, grants>>

AdminUsage(h) ==
  /\ AtStep(h, "addSession", "usage")
  /\ IF HasData(handler[h].dev) THEN Step(h, "address") ELSE Finish(h)
  /\ UNCHANGED <<storeVars, access, maintenance, world, background, grants>>

AdminBlock(h) ==
  /\ AtStep(h, "block", "begin")
  /\ ForceExhaustData(handler[h].dev)
  /\ Step(h, "address")
  /\ UNCHANGED <<access, maintenance, world, background, grants>>

Close(h) ==
  /\ handler[h].step = "close"
  /\ RemoveClient(handler[h].ip)
  /\ Finish(h)
  /\ UNCHANGED <<storeVars, maintenance, world, background, grants>>

\* handleAdminClearMB and handleAdminDelSession leave the client connected; the id
\* of a session that is gone deletes nothing.
AdminClearMB(h) ==
  /\ AtStep(h, "clear", "begin")
  /\ ClearSessions(handler[h].dev)
  /\ grants' = [grants EXCEPT ![handler[h].dev] = 0]
  /\ Finish(h)
  /\ UNCHANGED <<access, maintenance, world, background>>

AdminDelSession(h) ==
  /\ AtStep(h, "delSession", "begin")
  /\ \E s \in SessionsOf(handler[h].dev) \cup {0} : RemoveSession(s)
  /\ grants' = [grants EXCEPT ![handler[h].dev] = 0]
  /\ Finish(h)
  /\ UNCHANGED <<access, maintenance, world, background>>

\* MaintenanceState.Set; then, for lockdown, GetAllDevices and one IP after the other.
SetMaintenance(h) ==
  /\ AtStep(h, "maintenance", "begin")
  /\ \E mode \in Modes :
       /\ maintenance' = [mode |-> mode, enabledAt |-> IF mode = "off" THEN 0 ELSE now]
       /\ IF mode = "lockdown" THEN Continue(h, [step |-> "devices"]) ELSE Finish(h)
  /\ grants' = [d \in Ids |-> 0]
  /\ UNCHANGED <<storeVars, access, world, background>>

SweepDevices(h) ==
  /\ handler[h].step = "devices"
  /\ LET ips == {devices[d].ip : d \in DOMAIN devices} \ {None} IN
     Continue(h, IF ips = {} THEN Idle ELSE [step |-> "sweep", todo |-> ips])
  /\ UNCHANGED <<storeVars, access, maintenance, world, background, grants>>

Sweep(h) ==
  /\ handler[h].step = "sweep"
  /\ \E ip \in handler[h].todo :
       LET rest == handler[h].todo \ {ip} IN
       /\ RemoveClient(ip)
       /\ Continue(h, IF rest = {} THEN Idle ELSE [handler[h] EXCEPT !.todo = rest])
  /\ UNCHANGED <<storeVars, maintenance, world, background, grants>>

-----------------------------------------------------------------------------
(* DHCPWatcher.                                                            *)

\* Mutant: a lease that changed its IP is not a change.
LeaseIsNew(m) == prevLeases[m] = None

\* !exists || leaseChanged, of the leases the tick works on.
LeaseChanged(m) == prevLeases[m] # watcher.snap[m]

WatcherTick ==
  /\ watcher = Idle
  /\ LET todo == {m \in Macs : Leases[m] # None} IN
     IF todo = {} THEN prevLeases' = Leases /\ UNCHANGED watcher
     ELSE /\ watcher' = [step |-> "next", lockdown |-> maintenance.mode = "lockdown", snap |-> Leases,
                         todo |-> todo, mac |-> None, dev |-> NoDevice]
          /\ UNCHANGED prevLeases
  /\ UNCHANGED <<storeVars, access, maintenance, world, handler, poller, grants>>

\* On to the next lease, or to the end of the tick; only the watcher looks at PrevLeases.
WatcherGoesOn ==
  IF watcher.todo = {} THEN watcher' = Idle /\ prevLeases' = watcher.snap
  ELSE /\ watcher' = [watcher EXCEPT !.step = "next", !.mac = None, !.dev = NoDevice]
       /\ UNCHANGED prevLeases

\* Register the lease; a lease that did not change is only looked up.  The id of an
\* upsert is what UpsertDevice returns.
WatcherNext ==
  /\ watcher.step = "next"
  /\ \E m \in watcher.todo :
       LET Go(id) == watcher' = [watcher EXCEPT !.step = "act", !.mac = m, !.dev = id,
                                                !.todo = @ \ {m}] IN
       IF LeaseChanged(m) \/ GetDeviceIDByMAC(m) = NoDevice
       THEN UpsertDevice(m, watcher.snap[m]) /\ Go(UpsertedId(m))
       ELSE UNCHANGED storeVars /\ Go(GetDeviceIDByMAC(m))
  /\ UNCHANGED <<access, maintenance, world, handler, prevLeases, poller, grants>>

\* Mutant: only a lease the tick registered is worth a reconnection.
ReconnectsNew(ip) == LeaseChanged(watcher.mac) /\ HasData(watcher.dev) /\ InUse(ip)

Reconnects(ip) == HasData(watcher.dev) /\ InUse(ip)

\* Mutant: lockdown stops reconnections and leaves who is online alone.
SkipLockedDown(ip) ==
  /\ UNCHANGED access
  /\ WatcherGoesOn

LockDown(ip) ==
  /\ RemoveClient(ip)
  /\ WatcherGoesOn

WatcherAct ==
  LET ip == watcher.snap[watcher.mac] IN
  /\ watcher.step = "act"
  /\ IF watcher.lockdown THEN LockDown(ip)
     ELSE /\ IF Reconnects(ip) THEN /\ watcher' = [watcher EXCEPT !.step = "reconnect", !.dev = NoDevice]
                  /\ UNCHANGED prevLeases
             ELSE WatcherGoesOn
          /\ UNCHANGED access
  /\ UNCHANGED <<storeVars, maintenance, world, handler, poller, grants>>

WatcherReconnect ==
  /\ watcher.step = "reconnect"
  /\ AddClient(watcher.snap[watcher.mac])
  /\ WatcherGoesOn
  /\ UNCHANGED <<storeVars, maintenance, world, handler, poller, grants>>

-----------------------------------------------------------------------------
(* UsagePoller: pollUsage.                                                 *)

PollerGoesOn ==
  poller' = IF poller.todo = {} THEN Idle
            ELSE [poller EXCEPT !.step = "next", !.counters[poller.ip] = 0, !.ip = None, !.dev = NoDevice]

\* GetForwardByteCounters reads and zeroes all counters; the zero ones are skipped.
PollerTick ==
  LET used == {i \in connected : pending[i] > 0} IN
  /\ poller = Idle /\ used # {}
  /\ poller' = [step |-> "next", todo |-> used, counters |-> pending, ip |-> None, dev |-> NoDevice]
  /\ pending' = [i \in IPs |-> 0]
  /\ UNCHANGED <<storeVars, connected, maintenance, world, handler, watcher, prevLeases, grants>>

PollerNext ==
  /\ poller.step = "next"
  /\ \E i \in poller.todo :
       LET d == GetDeviceIDByIP(i) IN
       poller' = [poller EXCEPT !.ip = i, !.dev = d, !.todo = @ \ {i},
                                !.step = IF d = NoDevice THEN "remove" ELSE "charge"]
  /\ UNCHANGED <<storeVars, access, maintenance, world, handler, watcher, prevLeases, grants>>

PollerCharge ==
  /\ poller.step = "charge"
  /\ UpdateMBUsed(poller.dev, poller.counters[poller.ip])
  /\ poller' = [poller EXCEPT !.step = "check"]
  /\ UNCHANGED <<access, maintenance, world, handler, watcher, prevLeases, grants>>

\* Mutant: a balance below zero is not taken as used up.
ExhaustedExactly == Remaining(poller.dev) = 0 /\ SessionsOf(poller.dev) # {}

Exhausted == ~HasData(poller.dev)

PollerCheck ==
  /\ poller.step = "check"
  /\ IF Exhausted THEN poller' = [poller EXCEPT !.step = "remove"] ELSE PollerGoesOn
  /\ UNCHANGED <<storeVars, access, maintenance, world, handler, watcher, prevLeases, grants>>

PollerRemove ==
  /\ poller.step = "remove"
  /\ RemoveClient(poller.ip)
  /\ PollerGoesOn
  /\ UNCHANGED <<storeVars, maintenance, world, handler, watcher, prevLeases, grants>>

-----------------------------------------------------------------------------
(* The world around: clients, dhcpd, the clock, the process.               *)

\* A client takes an address nobody uses.  In hook mode the row is upserted before
\* the client hears of it; otherwise the watcher has to find the lease.
Join(m, i) ==
  /\ Event
  /\ ~InUse(i)
  /\ address' = [address EXCEPT ![m] = i]
  /\ IF HookMode THEN UpsertDevice(m, i) ELSE UNCHANGED storeVars
  /\ UNCHANGED <<access, maintenance, now, cache, handler, background, grants>>

\* The hook listener or PollDHCPLeasesFile put the lease into the cache.
LearnLease(m) ==
  /\ m \in Online /\ cache[m] # address[m]
  /\ cache' = [cache EXCEPT ![m] = address[m]]
  /\ UNCHANGED <<storeVars, access, maintenance, now, address, events, handler, background, grants>>

Leave(m) ==
  /\ Event
  /\ m \in Online
  /\ address' = [address EXCEPT ![m] = None]
  /\ UNCHANGED <<storeVars, access, maintenance, now, cache, handler, background, grants>>

Traffic(i) ==
  /\ i \in connected /\ InUse(i) /\ pending[i] < MaxTraffic
  /\ pending' = [pending EXCEPT ![i] = @ + 1]
  /\ UNCHANGED <<storeVars, connected, maintenance, world, handler, background, grants>>

ClockTick ==
  /\ Event
  /\ now < MaxClock
  /\ now' = now + 1
  /\ UNCHANGED <<storeVars, access, maintenance, address, cache, handler, background, grants>>

\* The database, the rules in the kernel and maintenance.json survive; a new connection
\* has inserted nothing yet.
Crash ==
  /\ Event
  /\ lastId' = 0 /\ cache' = NoLeases /\ prevLeases' = NoLeases
  /\ handler' = [h \in Handlers |-> Idle] /\ watcher' = Idle /\ poller' = Idle
  /\ UNCHANGED <<devices, order, sessions, access, maintenance, now, address, grants>>

-----------------------------------------------------------------------------
Serve(h) ==
  \/ UpsertUnknown(h) \/ ConnectBegin(h) \/ ConnectUsage(h)
  \/ GrantMode(h) \/ GrantAlready(h) \/ GrantAdd(h) \/ Credit(h) \/ CancelUsage(h)
  \/ ShareCheck(h) \/ ShareDeduct(h) \/ ShareCredit(h) \/ Merge(h)
  \/ Address(h) \/ Open(h) \/ Close(h)
  \/ AdminAddSession(h) \/ AdminUsage(h) \/ AdminBlock(h)
  \/ AdminClearMB(h) \/ AdminDelSession(h)
  \/ SetMaintenance(h) \/ SweepDevices(h) \/ Sweep(h)

Watch == WatcherTick \/ WatcherNext \/ WatcherAct \/ WatcherReconnect
Poll == PollerTick \/ PollerNext \/ PollerCharge \/ PollerCheck \/ PollerRemove

Environment ==
  \/ \E m \in Macs, i \in IPs : Join(m, i)
  \/ \E m \in Macs : LearnLease(m) \/ Leave(m)
  \/ \E i \in IPs : Traffic(i)
  \/ ClockTick \/ Crash

Next ==
  \/ \E h \in Handlers : ClientRequest(h) \/ AdminRequest(h) \/ Serve(h)
  \/ Watch \/ Poll \/ Environment

\* The tickers of the two background loops never stop, a request that was begun goes on,
\* and a lease is learned in the end.
Fairness ==
  /\ WF_vars(Watch) /\ WF_vars(Poll)
  /\ \A h \in Handlers : WF_vars(Serve(h))
  /\ \A m \in Macs : WF_vars(LearnLease(m))

Spec == Init /\ [][Next]_vars /\ Fairness

-----------------------------------------------------------------------------
(* Properties.                                                             *)

\* Between two ticks: a lease the watcher has seen is not written again, so the row must
\* already have the address.  Otherwise usage, the lockdown sweep and admin connects hit another client
\* for as long as the lease lasts (background.go:60-73).
RowsFollowLeases ==
  watcher = Idle => \A m \in Online :
    prevLeases[m] = address[m] /\ Leases[m] = address[m] =>
      devices[GetDeviceIDByMAC(m)].ip = address[m]

\* "Used to cap maintenance mode's free-data grant to once per activation window"
\* (store.go:329): no device is granted twice in one window.
OneGrantPerWindow == \A d \in Ids : grants[d] <= 1

\* What does hold of the check and the insert that make up the cap (maintenance.go:99-113):
\* at most one grant for each request that can be between the two.
GrantsBounded == \A d \in Ids : grants[d] <= Cardinality(Handlers)

\* "Auto-reconnect only if device is present/connected AND has remaining data"
\* (background.go:95): when the watcher decides to reconnect a lease, the device of that
\* lease has data.  UpsertDevice returns LastInsertId, which an update does not set.
ReconnectNeedsData ==
  [][watcher.step = "act" /\ watcher'.step = "reconnect" =>
       HasData(GetDeviceIDByMAC(watcher.mac))]_vars

\* An address in use by clients with a balance, outside lockdown, is connected again and
\* again, whatever closed it before (background.go:95-104).
EventuallyOnline ==
  \A i \in IPs :
    <>[](maintenance.mode # "lockdown"
         /\ \E m \in Macs : address[m] = i /\ HasData(GetDeviceIDByMAC(m)))
      => []<>(i \in connected)

\* An address whose owner has nothing left does not go on moving data
\* (background.go:155-175).
NoFreeRide ==
  \A i \in IPs :
    <>[](i \in connected /\ ~HasData(GetDeviceIDByIP(i))) => <>[](pending[i] = 0)

\* Under a lockdown that lasts, an address in use is closed again and again, whoever
\* opened it in the meantime (background.go:84-93).
LockdownWins ==
  \A i \in IPs :
    <>[](maintenance.mode = "lockdown" /\ InUse(i)) => []<>(i \notin connected)
=============================================================================
