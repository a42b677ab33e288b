------------------------------- MODULE Topup -------------------------------
(***************************************************************************)
(* Buying data with coins: handleTopup, handleTopupCancel and the goroutine *)
(* that streams and credits a session (internal/handlers/handlers.go), and  *)
(* the coin-counting goroutine RunTopup with the Coinslot's busy flag and   *)
(* pins (internal/gpio/coinslot.go).                                        *)
(*                                                                          *)
(* Every topup is three goroutines in turn: the HTTP handler h, then the    *)
(* runner that polls the slot, and the stream that reads the runner's       *)
(* channel, both started by the handler.  Each step touches at most one of  *)
(* the things they share: a map under its mutex, the busy flag, a pin, a    *)
(* channel, a statement of the database.                                    *)
(***************************************************************************)
EXTENDS Integers, Sequences, FiniteSets

CONSTANTS
  Topups,     \* topup requests
  IPs,        \* addresses clients call from
  Devs,       \* rows of table devices
  Pins,       \* pin assignments of the coin acceptor
  None,       \* an absent entry
  ChanCap,    \* capacity of the result channel (100 in the code)
  MaxCoins,   \* bound: coins inserted
  MaxTries,   \* bound: topup_count saturates here
  MaxEvents   \* bound: upserts by DHCP, changes of settings, failed statements of a
              \* settlement and crashes, together

ASSUME TopupAssumption ==
  /\ None \notin Topups \cup IPs \cup Devs \cup Pins
  /\ ChanCap \in Nat \ {0}
  /\ {MaxCoins, MaxTries, MaxEvents} \subseteq Nat
  /\ Pins # {}
  /\ \E f \in [IPs -> Devs] : \A i, j \in IPs : f[i] = f[j] => i = j  \* each client has a row

VARIABLES
  h, run, str,    \* next step of each topup's handler, runner and stream
  ip, dev,        \* the topup's address, and its device when it was requested
  count,          \* coins the runner counted
  chan,           \* results the runner sent and the stream has not received
  last,           \* the stream's lastResult
  cancelled,      \* cancelCh is closed
  busy,           \* Coinslot.busy
  pin,            \* the Coinslot's current pins
  sensor,         \* level of each sensor pin: the acceptor takes coins
  unread,         \* runners that have not read the current coin pulse yet
  cancels,        \* topupCancels
  status,         \* topupStatus (the amount)
  topupCount,     \* devices.topup_count
  wait,           \* backoff left, in units of 5 s: topup_at + 5 s * topup_count - now
  owner,          \* the device the database finds at an IP, None without a row
  creditDev,      \* the device the stream credits
  balance,        \* amounts of the sessions added, per device
  connected,      \* IPs with internet access
  canceller,      \* next step of handleTopupCancel, per IP
  maintenance,    \* a maintenance mode is active
  coins, credit,  \* history: coins inserted; amount credited by each topup
  counted,        \* history: coins counted, by all runners
  overlapped,     \* history: two runners have held the coinslot at once
  stranded,       \* history: topups whose address was without a device before they ended
  events,         \* bound used up
  faults          \* history: events that were failures

handlerVars == <<h, ip, dev>>
runnerVars == <<run, count, chan>>
streamVars == <<str, last, creditDev, credit>>
coinslot == <<busy, pin, sensor, unread, coins, counted, overlapped>>
registry == <<cancels, status, cancelled>>
db == <<topupCount, wait, owner, balance, stranded>>
rest == <<connected, canceller, maintenance, events, faults>>
vars == <<handlerVars, runnerVars, streamVars, coinslot, registry, db, rest>>

Kinds == {"progress", "done", "cancelled"}
Results == [kind : Kinds, amt : 0..MaxCoins]
NoResult == [kind |-> "progress", amt |-> 0]

HandlerSteps == {"idle", "busyCheck", "sensorCheck", "storeCancel", "storeStatus", "returned"}
RunnerSteps == {"none", "setBusy", "sensorOn", "poll", "progress", "endDone", "endCancelled",
                "sensorOff", "clearBusy", "close", "closed"}
StreamSteps == {"none", "range", "dropCancel", "dropStatus", "settle", "addSession",
                "resetCount", "connect", "finished"}

TypeOK ==
  /\ h \in [Topups -> HandlerSteps]
  /\ run \in [Topups -> RunnerSteps]
  /\ str \in [Topups -> StreamSteps]
  /\ ip \in [Topups -> IPs \cup {None}]
  /\ dev \in [Topups -> Devs \cup {None}]
  /\ count \in [Topups -> 0..MaxCoins]
  /\ chan \in [Topups -> Seq(Results)] /\ \A t \in Topups : Len(chan[t]) <= ChanCap
  /\ last \in [Topups -> Results]
  /\ cancelled \in [Topups -> BOOLEAN]
  /\ busy \in BOOLEAN /\ maintenance \in BOOLEAN
  /\ pin \in Pins /\ sensor \in [Pins -> {0, 1}] /\ unread \subseteq Topups
  /\ cancels \in [Devs -> Topups \cup {None}]
  /\ status \in [Devs -> 0..MaxCoins \cup {None}]
  /\ topupCount \in [Devs -> 0..MaxTries] /\ wait \in [Devs -> 0..MaxTries]
  /\ owner \in [IPs -> Devs \cup {None}] /\ stranded \subseteq Topups
  /\ creditDev \in [Topups -> Devs \cup {None}]
  /\ balance \in [Devs -> Nat]
  /\ connected \subseteq IPs
  /\ canceller \in [IPs -> [step : {"idle", "incr", "connect"}, dev : Devs \cup {None}]]
  /\ coins \in 0..MaxCoins /\ counted \in Nat /\ overlapped \in BOOLEAN
  /\ credit \in [Topups -> Nat]
  /\ events \in 0..MaxEvents /\ faults \in Nat

NoCancel == [step |-> "idle", dev |-> None]

Init ==
  /\ h = [t \in Topups |-> "idle"]
  /\ run = [t \in Topups |-> "none"]
  /\ str = [t \in Topups |-> "none"]
  /\ ip = [t \in Topups |-> None] /\ dev = [t \in Topups |-> None]
  /\ chan = [t \in Topups |-> <<>>]
  /\ busy = FALSE /\ unread = {}
  /\ cancels = [d \in Devs |-> None] /\ status = [d \in Devs |-> None]
  /\ canceller = [i \in IPs |-> NoCancel]
  /\ count = [t \in Topups |-> 0]
  /\ last = [t \in Topups |-> NoResult]
  /\ cancelled = [t \in Topups |-> FALSE]
  /\ pin = (CHOOSE p \in Pins : TRUE) /\ sensor = [p \in Pins |-> 0]
  /\ topupCount = [d \in Devs |-> 0] /\ wait = [d \in Devs |-> 0]
  /\ owner = CHOOSE f \in [IPs -> Devs] : \A i, j \in IPs : f[i] = f[j] => i = j
  /\ creditDev = [t \in Topups |-> None]
  /\ balance = [d \in Devs |-> 0]
  /\ connected = {}
  /\ maintenance = FALSE
  /\ coins = 0 /\ counted = 0 /\ credit = [t \in Topups |-> 0]
  /\ overlapped = FALSE /\ stranded = {}
  /\ events = 0 /\ faults = 0

At(pc, t, from) == pc[t] = from
Goto(pc, t, to) == [pc EXCEPT ![t] = to]

\* A session is in progress; the acceptor is on for it; its runner has yet to clear busy.
Running(t) == run[t] \in {"sensorOn", "poll", "progress", "endDone", "endCancelled", "sensorOff"}
Accepting(t) == Running(t) /\ run[t] # "sensorOn"
Holding(t) == Running(t) \/ run[t] = "clearBusy"

\* IncrTopupCount also stamps topup_at, so the whole backoff starts over.
IncrTopupCount(d) ==
  LET n == IF topupCount[d] < MaxTries THEN topupCount[d] + 1 ELSE MaxTries IN
  /\ topupCount' = [topupCount EXCEPT ![d] = n]
  /\ wait' = [wait EXCEPT ![d] = n]

-----------------------------------------------------------------------------
(* handleTopup.                                                            *)

\* Device, maintenance mode and backoff are checked first; a refusal changes nothing.
Request(t, i) ==
  /\ At(h, t, "idle") /\ str[t] = "none"
  /\ owner[i] # None
  /\ ~maintenance
  /\ wait[owner[i]] = 0
  /\ ip' = [ip EXCEPT ![t] = i]
  /\ dev' = [dev EXCEPT ![t] = owner[i]]
  /\ h' = Goto(h, t, "busyCheck")
  /\ UNCHANGED <<runnerVars, streamVars, coinslot, registry, db, rest>>

\* 409 "coinslot is busy" ends the request.
Refuse(t) ==
  /\ h' = Goto(h, t, "idle")
  /\ ip' = [ip EXCEPT ![t] = None] /\ dev' = [dev EXCEPT ![t] = None]

CheckBusy(t) ==
  /\ At(h, t, "busyCheck")
  /\ IF busy THEN Refuse(t)
     ELSE h' = Goto(h, t, "sensorCheck") /\ UNCHANGED <<ip, dev>>
  /\ UNCHANGED <<runnerVars, streamVars, coinslot, registry, db, rest>>

CheckSensor(t) ==
  /\ At(h, t, "sensorCheck")
  /\ IF sensor[pin] # 0 THEN Refuse(t)
     ELSE h' = Goto(h, t, "storeCancel") /\ UNCHANGED <<ip, dev>>
  /\ UNCHANGED <<runnerVars, streamVars, coinslot, registry, db, rest>>

StoreCancel(t) ==
  /\ At(h, t, "storeCancel")
  /\ cancels' = [cancels EXCEPT ![dev[t]] = t]
  /\ h' = Goto(h, t, "storeStatus")
  /\ UNCHANGED <<ip, dev, status, cancelled, runnerVars, streamVars, coinslot, db, rest>>

\* The initial status, then the two goroutines.
StoreStatusAndStart(t) ==
  /\ At(h, t, "storeStatus")
  /\ status' = [status EXCEPT ![dev[t]] = 0]
  /\ h' = Goto(h, t, "returned")
  /\ run' = Goto(run, t, "setBusy")
  /\ str' = Goto(str, t, "range")
  /\ UNCHANGED <<ip, dev, count, chan, last, creditDev, credit, cancels, cancelled, coinslot, db, rest>>

Handler(t) ==
  CheckBusy(t) \/ CheckSensor(t) \/ StoreCancel(t) \/ StoreStatusAndStart(t)

-----------------------------------------------------------------------------
(* RunTopup: the goroutine that counts coins.                              *)

SetBusy(t) ==
  /\ At(run, t, "setBusy")
  /\ busy' = TRUE
  /\ overlapped' = (overlapped \/ \E u \in Topups \ {t} : Holding(u))
  /\ run' = Goto(run, t, "sensorOn")
  /\ UNCHANGED <<handlerVars, count, chan, streamVars, pin, sensor, unread, coins, counted, registry, db, rest>>

\* Where a turn of the loop leads when it did not time out: the ticker may have fired,
\* and the two selects between one read of the slot and the next look at cancelCh.
NextTurn(t) == {"progress", IF cancelled[t] THEN "endCancelled" ELSE "poll"}

\* At "poll" the runner is about to read the slot.
SensorOn(t) ==
  /\ At(run, t, "sensorOn")
  /\ sensor' = [sensor EXCEPT ![pin] = 1]
  /\ run' = Goto(run, t, IF cancelled[t] THEN "endCancelled" ELSE "poll")
  /\ UNCHANGED <<handlerVars, count, chan, streamVars, busy, pin, unread, coins, counted, overlapped,
                 registry, db, rest>>

\* Mutant: no debounce, the same pulse is read again.
CountCoinAgain(t) ==
  /\ At(run, t, "poll") /\ t \in unread
  /\ count' = [count EXCEPT ![t] = @ + 1]
  /\ counted' = counted + 1
  /\ UNCHANGED <<handlerVars, run, chan, streamVars, busy, pin, sensor, unread, coins, overlapped,
                 registry, db, rest>>

\* SlotRead sees the pulse once: the debounce delay outlasts it.
CountCoin(t) ==
  /\ At(run, t, "poll")
  /\ t \in unread
  /\ unread' = unread \ {t}
  /\ count' = [count EXCEPT ![t] = @ + 1] /\ counted' = counted + 1
  /\ \E to \in NextTurn(t) : run' = Goto(run, t, to)
  /\ UNCHANGED <<handlerVars, chan, streamVars, busy, pin, sensor, coins, overlapped, registry, db, rest>>

\* A turn that read no coin.
NoCoin(t) ==
  /\ At(run, t, "poll")
  /\ \E to \in NextTurn(t) \ {"poll"} : run' = Goto(run, t, to)
  /\ unread' = IF run'[t] = "progress" THEN unread ELSE unread \ {t}
  /\ UNCHANGED <<handlerVars, count, chan, streamVars, busy, pin, sensor, coins, counted, overlapped,
                 registry, db, rest>>

\* 15 s after the last coin.  A pulse that begins after the last read is not counted.
TimeOut(t) ==
  /\ At(run, t, "poll")
  /\ run' = Goto(run, t, "endDone")
  /\ unread' = unread \ {t}
  /\ UNCHANGED <<handlerVars, count, chan, streamVars, busy, pin, sensor, coins, counted, overlapped,
                 registry, db, rest>>

\* The ticker's update is sent from the loop itself: until the channel has room the runner
\* reads no coin, no clock and no cancel.  A pulse may be over by then.
SendProgress(t) ==
  /\ At(run, t, "progress")
  /\ Len(chan[t]) < ChanCap
  /\ chan' = [chan EXCEPT ![t] = Append(@, [kind |-> "progress", amt |-> count[t]])]
  /\ run' = Goto(run, t, IF cancelled[t] THEN "endCancelled" ELSE "poll")
  /\ unread' \in {unread \ {t}, IF cancelled[t] THEN unread \ {t} ELSE unread}
  /\ UNCHANGED <<handlerVars, count, streamVars, busy, pin, sensor, coins, counted, overlapped,
                 registry, db, rest>>

\* The final result waits for room in the channel.
SendFinal(t) ==
  /\ run[t] \in {"endDone", "endCancelled"}
  /\ Len(chan[t]) < ChanCap
  /\ LET kind == IF run[t] = "endDone" THEN "done" ELSE "cancelled" IN
       chan' = [chan EXCEPT ![t] = Append(@, [kind |-> kind, amt |-> count[t]])]
  /\ run' = Goto(run, t, "sensorOff")
  /\ UNCHANGED <<handlerVars, count, streamVars, coinslot, registry, db, rest>>

\* Mutant: the sensor is not turned off.
SensorLeftOn(t) ==
  /\ At(run, t, "sensorOff")
  /\ run' = Goto(run, t, "clearBusy")
  /\ UNCHANGED <<handlerVars, count, chan, streamVars, coinslot, registry, db, rest>>

\* The deferred calls, last deferred first.
SensorOff(t) ==
  /\ At(run, t, "sensorOff")
  /\ sensor' = [sensor EXCEPT ![pin] = 0]
  /\ run' = Goto(run, t, "clearBusy")
  /\ UNCHANGED <<handlerVars, count, chan, streamVars, busy, pin, unread, coins, counted, overlapped,
                 registry, db, rest>>

ClearBusy(t) ==
  /\ At(run, t, "clearBusy")
  /\ busy' = FALSE
  /\ run' = Goto(run, t, "close")
  /\ UNCHANGED <<handlerVars, count, chan, streamVars, pin, sensor, unread, coins, counted, overlapped,
                 registry, db, rest>>

\* Mutant: the channel is never closed.
CloseForgotten(t) == At(run, t, "close") /\ UNCHANGED vars

CloseChannel(t) ==
  /\ At(run, t, "close")
  /\ run' = Goto(run, t, "closed")
  /\ UNCHANGED <<handlerVars, count, chan, streamVars, coinslot, registry, db, rest>>

Runner(t) ==
  \/ SetBusy(t) \/ SensorOn(t) \/ CountCoin(t) \/ NoCoin(t) \/ TimeOut(t)
  \/ SendProgress(t) \/ SendFinal(t) \/ SensorOff(t) \/ ClearBusy(t) \/ CloseChannel(t)

-----------------------------------------------------------------------------
(* The goroutine that streams the results and settles the topup.           *)

Receive(t) ==
  /\ At(str, t, "range")
  /\ chan[t] # <<>>
  /\ last' = [last EXCEPT ![t] = Head(chan[t])]
  /\ chan' = [chan EXCEPT ![t] = Tail(@)]
  /\ status' = [status EXCEPT ![dev[t]] = Head(chan[t]).amt]
  /\ UNCHANGED <<handlerVars, run, count, str, creditDev, credit, coinslot, cancels, cancelled, db, rest>>

ChannelClosed(t) ==
  /\ At(str, t, "range")
  /\ chan[t] = <<>> /\ At(run, t, "closed")
  /\ str' = Goto(str, t, "dropCancel")
  /\ UNCHANGED <<handlerVars, runnerVars, last, creditDev, credit, coinslot, registry, db, rest>>

\* The entries of the device are deleted, whichever topup they belong to by now.
DropCancel(t) ==
  /\ At(str, t, "dropCancel")
  /\ cancels' = [cancels EXCEPT ![dev[t]] = None]
  /\ str' = Goto(str, t, "dropStatus")
  /\ UNCHANGED <<handlerVars, runnerVars, last, creditDev, credit, coinslot, status, cancelled, db, rest>>

\* Mutant: the status entry stays.
StatusKept(t) ==
  /\ At(str, t, "dropStatus")
  /\ str' = Goto(str, t, "settle")
  /\ UNCHANGED <<handlerVars, runnerVars, last, creditDev, credit, coinslot, registry, db, rest>>

DropStatus(t) ==
  /\ At(str, t, "dropStatus")
  /\ status' = [status EXCEPT ![dev[t]] = None]
  /\ str' = Goto(str, t, "settle")
  /\ UNCHANGED <<handlerVars, runnerVars, last, creditDev, credit, coinslot, cancels, cancelled, db, rest>>

\* Mutant: a cancelled session is never paid out.
SettleCancelledUnpaid(t) ==
  /\ At(str, t, "settle")
  /\ IF last[t].kind = "cancelled" \/ last[t].amt = 0 \/ owner[ip[t]] = None
     THEN str' = Goto(str, t, "finished") /\ UNCHANGED creditDev
     ELSE /\ creditDev' = [creditDev EXCEPT ![t] = owner[ip[t]]]
          /\ str' = Goto(str, t, "addSession")
  /\ UNCHANGED <<handlerVars, runnerVars, last, credit, coinslot, registry, db, rest>>

\* No coin: an expired session counts as an empty attempt, a cancelled one does
\* not (its handleTopupCancel has counted it).
SettleEmpty(t) ==
  /\ last[t].amt = 0
  /\ IF last[t].kind = "cancelled" THEN UNCHANGED <<topupCount, wait>> ELSE IncrTopupCount(dev[t])
  /\ str' = Goto(str, t, "finished")
  /\ UNCHANGED <<creditDev, events, faults>>

\* Coins: the device the database now finds at the address is the one to credit.
SettleCoins(t) ==
  /\ last[t].amt > 0 /\ owner[ip[t]] # None
  /\ creditDev' = [creditDev EXCEPT ![t] = owner[ip[t]]]
  /\ str' = Goto(str, t, "addSession")
  /\ UNCHANGED <<topupCount, wait, events, faults>>

\* It finds none, or the query fails: the stream returns and the coins are lost.
SettleNobody(t) ==
  /\ last[t].amt > 0
  /\ \/ owner[ip[t]] = None /\ UNCHANGED <<events, faults>>
     \/ events < MaxEvents /\ events' = events + 1 /\ faults' = faults + 1
  /\ str' = Goto(str, t, "finished")
  /\ UNCHANGED <<creditDev, topupCount, wait>>

Settle(t) ==
  /\ At(str, t, "settle")
  /\ SettleEmpty(t) \/ SettleCoins(t) \/ SettleNobody(t)
  /\ UNCHANGED <<handlerVars, runnerVars, last, credit, coinslot, registry, owner, balance, stranded,
                 connected, canceller, maintenance>>

\* The error of AddSession is not looked at: a failed statement loses the coins.
AddSession(t) ==
  /\ At(str, t, "addSession")
  /\ \/ /\ balance' = [balance EXCEPT ![creditDev[t]] = @ + last[t].amt]
        /\ credit' = [credit EXCEPT ![t] = @ + last[t].amt]
        /\ UNCHANGED <<events, faults>>
     \/ /\ events < MaxEvents /\ events' = events + 1 /\ faults' = faults + 1
        /\ UNCHANGED <<balance, credit>>
  /\ str' = Goto(str, t, "resetCount")
  /\ UNCHANGED <<handlerVars, runnerVars, last, creditDev, coinslot, registry, topupCount, wait, owner, stranded,
                 connected, canceller, maintenance>>

ResetTopupCount(t) ==
  /\ At(str, t, "resetCount")
  /\ topupCount' = [topupCount EXCEPT ![creditDev[t]] = 0]
  /\ wait' = [wait EXCEPT ![creditDev[t]] = 0]
  /\ str' = Goto(str, t, "connect")
  /\ UNCHANGED <<handlerVars, runnerVars, last, creditDev, credit, coinslot, registry, owner, balance, stranded,
                 rest>>

Connect(t) ==
  /\ At(str, t, "connect")
  /\ connected' = connected \cup {ip[t]}
  /\ str' = Goto(str, t, "finished")
  /\ UNCHANGED <<handlerVars, runnerVars, last, creditDev, credit, coinslot, registry, db,
                 canceller, maintenance, events, faults>>

Stream(t) ==
  \/ Receive(t) \/ ChannelClosed(t) \/ DropCancel(t) \/ DropStatus(t) \/ Settle(t)
  \/ AddSession(t) \/ ResetTopupCount(t) \/ Connect(t)

-----------------------------------------------------------------------------
(* handleTopupCancel.                                                      *)

\* Mutant: the entry is left in topupCancels.
CancelKeepingEntry(i, d) ==
  /\ cancelled' = [t \in Topups |-> cancelled[t] \/ t = cancels[d]]
  /\ canceller' = [canceller EXCEPT ![i] = [step |-> "connect", dev |-> d]]
  /\ UNCHANGED cancels

\* Under topupCancelsMu the channel is closed and its entry deleted.
CloseCancel(i, d) ==
  IF cancels[d] = None
  THEN /\ canceller' = [canceller EXCEPT ![i] = [step |-> "connect", dev |-> d]]
       /\ UNCHANGED <<cancels, cancelled>>
  ELSE /\ cancelled' = [cancelled EXCEPT ![cancels[d]] = TRUE]
       /\ cancels' = [cancels EXCEPT ![d] = None]
       /\ canceller' = [canceller EXCEPT ![i] = [step |-> "incr", dev |-> d]]

\* An address without a device is not answered at all.
Cancel(i) ==
  /\ canceller[i].step = "idle"
  /\ IF owner[i] = None THEN UNCHANGED <<cancels, cancelled, canceller>> ELSE CloseCancel(i, owner[i])
  /\ UNCHANGED <<handlerVars, runnerVars, streamVars, coinslot, status, db,
                 connected, maintenance, events, faults>>

CancelIncr(i) ==
  /\ canceller[i].step = "incr"
  /\ IncrTopupCount(canceller[i].dev)
  /\ canceller' = [canceller EXCEPT ![i].step = "connect"]
  /\ UNCHANGED <<handlerVars, runnerVars, streamVars, coinslot, registry, owner, balance, stranded,
                 connected, maintenance, events, faults>>

CancelConnect(i) ==
  /\ canceller[i].step = "connect"
  /\ connected' = IF balance[canceller[i].dev] > 0 THEN connected \cup {i} ELSE connected
  /\ canceller' = [canceller EXCEPT ![i] = NoCancel]
  /\ UNCHANGED <<handlerVars, runnerVars, streamVars, coinslot, registry, db, maintenance, events, faults>>

-----------------------------------------------------------------------------
(* The rest of the world.                                                  *)

\* The acceptor takes a coin while the sensor is on; every runner that polls the
\* slot at that time has the pulse before it.
InsertCoin ==
  /\ sensor[pin] = 1 /\ unread = {}
  /\ coins < MaxCoins
  /\ coins' = coins + 1
  /\ unread' = {t \in Topups : run[t] \in {"poll", "progress"}}
  /\ UNCHANGED <<handlerVars, runnerVars, streamVars, busy, pin, sensor, counted, overlapped, registry, db, rest>>

Tick ==
  /\ \E d \in Devs : wait[d] > 0
  /\ wait' = [d \in Devs |-> IF wait[d] > 0 THEN wait[d] - 1 ELSE 0]
  /\ UNCHANGED <<handlerVars, runnerVars, streamVars, coinslot, registry, topupCount, owner, balance, stranded, rest>>

SetMaintenance ==
  /\ events < MaxEvents /\ events' = events + 1
  /\ maintenance' = ~maintenance
  /\ UNCHANGED <<handlerVars, runnerVars, streamVars, coinslot, registry, db,
                 connected, canceller, faults>>

\* DHCP gives device d the address i (None: one no topup comes from), or renews its lease:
\* UpsertDevice, which clears topup_count.  Its row has one address: at the address it had
\* before, the database now finds a device whose older row is still there, or none.
Move(i, d) ==
  /\ events < MaxEvents /\ events' = events + 1
  /\ i = None => \E j \in IPs : owner[j] = d
  /\ \E older \in {None} \cup {e \in Devs \ {d} : \A j \in IPs : owner[j] # e} :
       owner' = [j \in IPs |-> IF j = i THEN d ELSE IF owner[j] = d THEN older ELSE owner[j]]
  /\ stranded' = stranded \cup
       {t \in Topups : ip[t] # None /\ str[t] # "finished" /\ owner'[ip[t]] = None}
  /\ topupCount' = [topupCount EXCEPT ![d] = 0]
  /\ wait' = [wait EXCEPT ![d] = 0]
  /\ UNCHANGED <<handlerVars, runnerVars, streamVars, coinslot, registry, balance,
                 connected, canceller, maintenance, faults>>

\* Coinslot.Reconfigure, from the admin's GPIO settings: refused while busy; the
\* new sensor pin becomes an output, which drives it low.
Reconfigure(p) ==
  /\ events < MaxEvents /\ events' = events + 1
  /\ ~busy
  /\ pin' = p
  /\ sensor' = [sensor EXCEPT ![p] = 0]
  /\ UNCHANGED <<handlerVars, runnerVars, streamVars, busy, unread, coins, counted, overlapped, registry, db,
                 connected, canceller, maintenance, faults>>

\* The program dies and is started again: goroutines, channels and maps are gone,
\* the database and the firewall rules stay, NewCoinslot drives the sensor low.
Crash ==
  /\ events < MaxEvents /\ events' = events + 1 /\ faults' = faults + 1
  /\ h' = [t \in Topups |-> IF h[t] = "returned" THEN "returned" ELSE "idle"]
  /\ run' = [t \in Topups |-> IF run[t] = "none" THEN "none" ELSE "closed"]
  /\ str' = [t \in Topups |-> IF str[t] = "none" THEN "none" ELSE "finished"]
  /\ chan' = [t \in Topups |-> <<>>] /\ last' = [t \in Topups |-> NoResult]
  /\ creditDev' = [t \in Topups |-> None]
  /\ cancelled' = [t \in Topups |-> FALSE]
  /\ busy' = FALSE /\ unread' = {}
  /\ sensor' = [sensor EXCEPT ![pin] = 0]
  /\ cancels' = [d \in Devs |-> None] /\ status' = [d \in Devs |-> None]
  /\ canceller' = [i \in IPs |-> NoCancel]
  /\ UNCHANGED <<ip, dev, count, credit, pin, coins, counted, overlapped, db,
                 connected, maintenance>>

Environment ==
  \/ InsertCoin \/ Tick \/ SetMaintenance \/ Crash
  \/ \E i \in IPs \cup {None}, d \in Devs : Move(i, d)
  \/ \E p \in Pins : Reconfigure(p)

Next ==
  \/ \E t \in Topups : Handler(t) \/ Runner(t) \/ Stream(t)
  \/ \E t \in Topups, i \in IPs : Request(t, i)
  \/ \E i \in IPs : Cancel(i) \/ CancelIncr(i) \/ CancelConnect(i)
  \/ Environment

\* Goroutines that can run do; every turn of a runner's loop looks at the clock, and once
\* the last coin is in 15 s pass.  Clients, admins and coins are not obliged.
Fairness ==
  \A t \in Topups : WF_vars(Handler(t)) /\ WF_vars(Runner(t)) /\ SF_vars(TimeOut(t)) /\ WF_vars(Stream(t))

Spec == Init /\ [][Next]_vars /\ Fairness

-----------------------------------------------------------------------------
(* Properties.                                                             *)

\* The channels in topupCancels are open: handleTopupCancel, the stream's cleanup
\* and the overwriting by a second topup of the device never let a cancel close a
\* channel twice, which would panic the server.
CancelsAreOpen == \A d \in Devs : cancels[d] # None => ~cancelled[cancels[d]]

\* What handleTopupCheck (200: active topup) and handleTopupChecker answer is about
\* a topup that is really under way: no entry outlives the topups of its device.
EntriesHaveTopups ==
  \A d \in Devs :
    /\ cancels[d] # None => /\ dev[cancels[d]] = d
                            /\ h[cancels[d]] = "storeStatus" \/ str[cancels[d]] \in {"range", "dropCancel"}
    /\ status[d] # None => \E t \in Topups : dev[t] = d /\ str[t] \in {"range", "dropCancel", "dropStatus"}

\* The acceptor takes coins only while a runner is there to count them, and a coinslot
\* that says busy has a runner: nothing a topup leaves behind swallows coins or blocks
\* the next customer.  As long as no two topups have overlapped this is so of every pin
\* that ever was the acceptor's, however the admin changes pins; after an overlap, which
\* lets Reconfigure in while a runner polls, only of the current one.
CoinslotNotLeftOn ==
  /\ \A p \in Pins : sensor[p] = 1 /\ (p = pin \/ ~overlapped) => \E t \in Topups : Accepting(t)
  /\ busy => \E t \in Topups : Holding(t)

\* A topup is settled exactly once and for what its runner counted, whatever was cancelled
\* or reconfigured meanwhile and whoever now has the address; coins are lost only by a
\* failed statement, a crash, or when DHCP left the topup's address without a device
\* before it ended.  No runner counts a coin twice, and unless two topups overlapped no
\* coin is counted by two.
SettledExactly ==
  /\ \A t \in Topups :
       /\ count[t] <= coins
       /\ credit[t] \in {0, count[t]}
       /\ str[t] = "finished" /\ faults = 0 /\ t \notin stranded => credit[t] = count[t]
  /\ overlapped \/ counted <= coins

\* A topup that was accepted comes to its end: neither the progress updates nor the final
\* result, which the runner sends blocking, keep it in its loop or from closing the channel,
\* so the stream settles (checked without crashes).
TopupsEnd == \A t \in Topups : h[t] = "storeCancel" ~> str[t] = "finished"

\* coinslot.go:128 "IsBusy returns true if a topup session is in progress."
BusyDuringSession == (\E t \in Topups : Running(t)) => busy
=============================================================================
