---------------------------- MODULE TopupProofs ----------------------------
(***************************************************************************)
(* Safety of topups for any number of topups, addresses, devices, pins and *)
(* coins.                                                                  *)
(*                                                                         *)
(* The three goroutines of a topup never meet except in its channel, so    *)
(* what is needed is how far each of them can be when another is somewhere *)
(* (Linked), that a cancel only finds topups past StoreCancel              *)
(* (NotYetCancelled), and that the latest result in the channel, or the    *)
(* one received when it is empty, has the runner's final count             *)
(* (FinalIsCount).                                                         *)
(***************************************************************************)
EXTENDS Topup, SequenceTheorems, TLAPS

\* Steps of the runner once it has sent its final result.
Ended == {"sensorOff", "clearBusy", "close", "closed"}

\* The handler starts runner and stream together; the stream receives as long as the runner lives.
Linked == \A t \in Topups :
  /\ h[t] = "returned" <=> str[t] # "none"
  /\ run[t] = "none" <=> str[t] = "none"
  /\ run[t] \notin {"none", "closed"} => str[t] = "range"

\* Who is on his way has an address and a device.
Placed ==
  /\ \A t \in Topups : h[t] # "idle" => ip[t] \in IPs /\ dev[t] \in Devs
  /\ \A t \in Topups : str[t] \in {"addSession", "resetCount"} => creditDev[t] \in Devs
  /\ \A i \in IPs : canceller[i].step # "idle" => canceller[i].dev \in Devs

\* A runner that has a pulse before it has not counted that coin.
Counted == \A t \in Topups :
  /\ count[t] <= coins
  /\ t \in unread => run[t] \in {"poll", "progress"} /\ count[t] < coins

\* As long as topups do not overlap, busy tells who holds the coinslot, no pin but the current
\* one is high, and a pulse has one reader.
Alone == ~overlapped =>
  /\ \A t, u \in Topups : Holding(t) /\ Holding(u) => t = u
  /\ \A t \in Topups : Holding(t) => busy
  /\ \A p \in Pins : sensor[p] = 1 => p = pin
  /\ counted <= coins /\ (unread # {} => counted < coins)

\* The address of a topup has a device unless DHCP has taken it away meanwhile.
Housed == \A t \in Topups :
  h[t] # "idle" /\ str[t] # "finished" /\ t \notin stranded => owner[ip[t]] # None

\* A topup that is not in topupCancels yet cannot be cancelled.
NotYetCancelled == \A t \in Topups :
  h[t] \in {"idle", "busyCheck", "sensorCheck", "storeCancel"} => ~cancelled[t]

\* The amount the stream will have received when the channel is empty.
Latest(t) == IF chan[t] = <<>> THEN last[t].amt ELSE chan[t][Len(chan[t])].amt

\* Once the runner has sent its final result, that is what the stream gets last.
FinalIsCount == \A t \in Topups :
  str[t] \notin {"none", "finished"} /\ run[t] \in Ended => Latest(t) = count[t]

\* The stream leaves its loop when the closed channel is empty.
ChannelDrained == \A t \in Topups : str[t] \notin {"none", "range"} => chan[t] = <<>>

\* The stream settles after the runner has ended, and credits once, or not at all when a statement failed,
\* the program died or nobody was at the address.
Paid == \A t \in Topups :
  /\ str[t] \in {"none", "range", "dropCancel", "dropStatus", "settle", "addSession"} => credit[t] = 0
  /\ str[t] \notin {"none", "range"} => run[t] = "closed"
  /\ str[t] \in {"resetCount", "connect", "finished"} =>
       credit[t] = count[t] \/ (credit[t] = 0 /\ (faults > 0 \/ t \in stranded))

\* The inductive invariant.
IInv ==
  /\ TypeOK /\ Linked /\ Placed /\ Housed /\ Counted
  /\ NotYetCancelled /\ CancelsAreOpen /\ EntriesHaveTopups
  /\ CoinslotNotLeftOn /\ Alone
  /\ FinalIsCount /\ ChannelDrained /\ Paid

-----------------------------------------------------------------------------
LEMMA Bounds ==
  /\ None \notin Topups /\ None \notin IPs /\ None \notin Devs /\ None \notin Pins
  /\ ChanCap \in Nat /\ ChanCap > 0
  /\ MaxCoins \in Nat /\ MaxTries \in Nat /\ MaxEvents \in Nat
<1> QED
  BY TopupAssumption

LEMMA LastOfTail ==
  ASSUME NEW S, NEW s \in Seq(S), Len(s) > 1
  PROVE  Tail(s) # <<>> /\ Tail(s)[Len(Tail(s))] = s[Len(s)]
<1>1. s # <<>>
  BY EmptySeq
<1>2. /\ Tail(s) \in Seq(S) /\ Len(Tail(s)) = Len(s) - 1
      /\ \A i \in 1..Len(Tail(s)) : Tail(s)[i] = s[i + 1]
  BY <1>1, HeadTailProperties
<1>3. Len(s) \in Nat
  BY LenProperties
<1>4. Tail(s)[Len(s) - 1] = s[Len(s)]
  BY <1>2, <1>3
<1>5. Len(Tail(s)) # 0
  BY <1>2, <1>3
<1> QED
  BY <1>2, <1>4, <1>5, EmptySeq

LEMMA OneOrMore ==
  ASSUME NEW S, NEW s \in Seq(S), s # <<>>
  PROVE  Len(s) = 1 \/ Len(s) > 1
<1>1. Len(s) \in Nat /\ Len(s) # 0
  BY EmptySeq
<1>2. \A n \in Nat : n # 0 => n = 1 \/ n > 1
  OBVIOUS
<1> QED
  BY <1>1, <1>2

LEMMA AddedTyped ==
  ASSUME NEW S, NEW f \in [S -> Nat], NEW x \in S, NEW n \in Nat
  PROVE  [f EXCEPT ![x] = @ + n] \in [S -> Nat]
<1> QED
  OBVIOUS

\* The backoff saturates.
LEMMA IncrementTyped ==
  ASSUME TypeOK, NEW d \in Devs, IncrTopupCount(d)
  PROVE  topupCount' \in [Devs -> 0..MaxTries] /\ wait' \in [Devs -> 0..MaxTries]
<1> DEFINE n == IF topupCount[d] < MaxTries THEN topupCount[d] + 1 ELSE MaxTries
<1>1. n \in 0..MaxTries
  BY Bounds DEF TypeOK
<1>2. topupCount' = [topupCount EXCEPT ![d] = n] /\ wait' = [wait EXCEPT ![d] = n]
  BY DEF IncrTopupCount
<1> HIDE DEF n
<1> QED
  BY <1>1, <1>2 DEF TypeOK

\* A topup that no entry can be about may change its steps and its device.
LEMMA BystanderKeepsEntries ==
  ASSUME TypeOK, EntriesHaveTopups, NEW t \in Topups,
         h[t] # "storeStatus", str[t] \notin {"range", "dropCancel", "dropStatus"},
         \A u \in Topups \ {t} : h'[u] = h[u] /\ str'[u] = str[u] /\ dev'[u] = dev[u],
         cancels' = cancels, status' = status
  PROVE  EntriesHaveTopups'
<1> SUFFICES ASSUME NEW d \in Devs
             PROVE  /\ cancels[d] # None =>
                         /\ dev'[cancels[d]] = d
                         /\ h'[cancels[d]] = "storeStatus" \/ str'[cancels[d]] \in {"range", "dropCancel"}
                    /\ status[d] # None =>
                         \E u \in Topups : dev'[u] = d /\ str'[u] \in {"range", "dropCancel", "dropStatus"}
  BY DEF EntriesHaveTopups
<1>1. cancels[d] # None => cancels[d] \in Topups \ {t}
  BY DEF TypeOK, EntriesHaveTopups
<1>2. status[d] # None =>
        \E u \in Topups \ {t} : dev[u] = d /\ str[u] \in {"range", "dropCancel", "dropStatus"}
  BY DEF EntriesHaveTopups
<1> QED
  BY <1>1, <1>2 DEF EntriesHaveTopups

-----------------------------------------------------------------------------
LEMMA InitEstablishes == Init => IInv
<1> SUFFICES ASSUME Init PROVE IInv
  OBVIOUS
<1>1. pin \in Pins
  BY TopupAssumption DEF Init
<1>2. owner \in [IPs -> Devs]
  BY TopupAssumption DEF Init
<1>3. TypeOK
  <2>1. chan \in [Topups -> Seq(Results)] /\ \A t \in Topups : Len(chan[t]) <= ChanCap
    BY Bounds DEF Init
  <2>2. canceller \in [IPs -> [step : {"idle", "incr", "connect"}, dev : Devs \cup {None}]]
    BY DEF Init, NoCancel
  <2>3. last \in [Topups -> Results]
    BY Bounds DEF Init, Results, Kinds, NoResult
  <2>4. h \in [Topups -> HandlerSteps] /\ run \in [Topups -> RunnerSteps] /\ str \in [Topups -> StreamSteps]
    BY DEF Init, HandlerSteps, RunnerSteps, StreamSteps
  <2>5. /\ count \in [Topups -> 0..MaxCoins] /\ coins \in 0..MaxCoins
        /\ topupCount \in [Devs -> 0..MaxTries] /\ wait \in [Devs -> 0..MaxTries]
        /\ balance \in [Devs -> Nat] /\ credit \in [Topups -> Nat]
        /\ events \in 0..MaxEvents /\ faults \in Nat /\ counted \in Nat
    BY Bounds DEF Init
  <2>6. /\ ip \in [Topups -> IPs \cup {None}] /\ dev \in [Topups -> Devs \cup {None}]
        /\ creditDev \in [Topups -> Devs \cup {None}] /\ cancels \in [Devs -> Topups \cup {None}]
        /\ status \in [Devs -> 0..MaxCoins \cup {None}] /\ cancelled \in [Topups -> BOOLEAN]
        /\ sensor \in [Pins -> {0, 1}]
    BY DEF Init
  <2>7. busy \in BOOLEAN /\ maintenance \in BOOLEAN /\ unread \subseteq Topups /\ connected \subseteq IPs
        /\ overlapped \in BOOLEAN /\ stranded \subseteq Topups
    BY DEF Init
  <2> QED
    BY <1>1, <1>2, <2>1, <2>2, <2>3, <2>4, <2>5, <2>6, <2>7 DEF TypeOK
<1>4. Linked /\ Placed /\ Housed /\ Counted /\ NotYetCancelled /\ CancelsAreOpen /\ EntriesHaveTopups
  BY DEF Init, Linked, Placed, Housed, Counted, NotYetCancelled, CancelsAreOpen, EntriesHaveTopups, NoCancel
<1>5. CoinslotNotLeftOn /\ Alone
  BY <1>1, Bounds DEF Init, CoinslotNotLeftOn, Alone, Accepting, Holding, Running
<1>6. FinalIsCount /\ ChannelDrained /\ Paid
  BY DEF Init, FinalIsCount, ChannelDrained, Paid
<1> QED
  BY <1>3, <1>4, <1>5, <1>6 DEF IInv

LEMMA Unmoved == IInv /\ UNCHANGED vars => IInv'
<1> SUFFICES ASSUME IInv, UNCHANGED vars PROVE IInv'
  OBVIOUS
<1> USE DEF IInv, vars, handlerVars, runnerVars, streamVars, coinslot, registry, db, rest
<1>1. TypeOK'
  BY DEF TypeOK
<1>2. Linked' /\ Placed' /\ Housed' /\ Counted' /\ NotYetCancelled' /\ CancelsAreOpen' /\ EntriesHaveTopups'
  BY DEF Linked, Placed, Housed, Counted, NotYetCancelled, CancelsAreOpen, EntriesHaveTopups
<1>3. CoinslotNotLeftOn' /\ Alone'
  BY DEF CoinslotNotLeftOn, Alone, Accepting, Holding, Running
<1>4. FinalIsCount' /\ ChannelDrained' /\ Paid'
  BY DEF FinalIsCount, Latest, ChannelDrained, Paid
<1> QED
  BY <1>1, <1>2, <1>3, <1>4 DEF IInv

-----------------------------------------------------------------------------
(* One lemma for each actor.                                               *)

LEMMA HandlerStep ==
  ASSUME IInv, NEW t \in Topups, Handler(t)
  PROVE  IInv'
<1> USE DEF IInv, At, Goto, handlerVars, runnerVars, streamVars, coinslot, registry, db, rest
<1>1. CASE CheckBusy(t)
  <2>1. TypeOK'
    BY ZenonT(60), <1>1, Bounds DEF CheckBusy, Refuse, TypeOK, HandlerSteps
  <2>2. Linked'
    BY <1>1 DEF CheckBusy, Refuse, Linked, TypeOK
  <2>3. Placed' /\ Housed'
    BY ZenonT(60), <1>1 DEF CheckBusy, Refuse, Placed, Housed, TypeOK
  <2>4. NotYetCancelled'
    BY <1>1 DEF CheckBusy, Refuse, NotYetCancelled, Linked, TypeOK
  <2>5. EntriesHaveTopups'
    BY <1>1, BystanderKeepsEntries DEF CheckBusy, Refuse, Linked, TypeOK
  <2>6. Counted' /\ CancelsAreOpen' /\ CoinslotNotLeftOn' /\ Alone' /\ FinalIsCount' /\ ChannelDrained' /\ Paid'
    BY <1>1 DEF CheckBusy, Refuse, Counted, CancelsAreOpen, CoinslotNotLeftOn, Alone, Accepting, Holding,
       FinalIsCount, ChannelDrained,
       Paid, Running, Latest
  <2> QED
    BY <2>1, <2>2, <2>3, <2>4, <2>5, <2>6 DEF IInv
<1>2. CASE CheckSensor(t)
  <2>1. TypeOK'
    BY ZenonT(60), <1>2, Bounds DEF CheckSensor, Refuse, TypeOK, HandlerSteps
  <2>2. Linked'
    BY <1>2 DEF CheckSensor, Refuse, Linked, TypeOK
  <2>3. Placed' /\ Housed'
    BY ZenonT(60), <1>2 DEF CheckSensor, Refuse, Placed, Housed, TypeOK
  <2>4. NotYetCancelled'
    BY <1>2 DEF CheckSensor, Refuse, NotYetCancelled, Linked, TypeOK
  <2>5. EntriesHaveTopups'
    BY <1>2, BystanderKeepsEntries DEF CheckSensor, Refuse, Linked, TypeOK
  <2>6. Counted' /\ CancelsAreOpen' /\ CoinslotNotLeftOn' /\ Alone' /\ FinalIsCount' /\ ChannelDrained' /\ Paid'
    BY <1>2 DEF CheckSensor, Refuse, Counted, CancelsAreOpen, CoinslotNotLeftOn, Alone, Accepting, Holding,
       FinalIsCount, ChannelDrained,
       Paid, Running, Latest
  <2> QED
    BY <2>1, <2>2, <2>3, <2>4, <2>5, <2>6 DEF IInv
<1>3. CASE StoreCancel(t)
  <2>1. TypeOK'
    BY <1>3, Bounds DEF StoreCancel, TypeOK, Placed, HandlerSteps
  <2>2. Linked'
    BY <1>3 DEF StoreCancel, Linked, TypeOK
  <2>3. Placed' /\ Housed'
    BY <1>3 DEF StoreCancel, Placed, Housed, TypeOK
  <2>4. NotYetCancelled'
    BY <1>3 DEF StoreCancel, NotYetCancelled, Linked, TypeOK
  <2>5. CancelsAreOpen'
    BY <1>3 DEF StoreCancel, CancelsAreOpen, Linked, NotYetCancelled, EntriesHaveTopups, TypeOK
  <2>6. EntriesHaveTopups'
    BY <1>3 DEF StoreCancel, EntriesHaveTopups, Linked, TypeOK
  <2>7. Counted' /\ CoinslotNotLeftOn' /\ Alone' /\ FinalIsCount' /\ ChannelDrained' /\ Paid'
    BY <1>3 DEF StoreCancel, Counted, CoinslotNotLeftOn, Alone, Accepting, Holding, FinalIsCount,
       ChannelDrained, Paid, Running, Latest
  <2> QED
    BY <2>1, <2>2, <2>3, <2>4, <2>5, <2>6, <2>7 DEF IInv
<1>4. CASE StoreStatusAndStart(t)
  <2>1. TypeOK'
    <3>1. dev[t] \in Devs /\ 0 \in 0..MaxCoins
      BY <1>4, Bounds DEF StoreStatusAndStart, Placed
    <3>2. status' \in [Devs -> 0..MaxCoins \cup {None}]
      BY <1>4, <3>1 DEF StoreStatusAndStart, TypeOK
    <3>3. h' \in [Topups -> HandlerSteps] /\ run' \in [Topups -> RunnerSteps] /\ str' \in [Topups -> StreamSteps]
      BY <1>4 DEF StoreStatusAndStart, TypeOK, HandlerSteps, RunnerSteps, StreamSteps
    <3> QED
      BY <1>4, <3>2, <3>3 DEF StoreStatusAndStart, TypeOK
  <2>2. Linked'
    BY <1>4 DEF StoreStatusAndStart, Linked, TypeOK
  <2>3. Placed' /\ Housed'
    BY <1>4 DEF StoreStatusAndStart, Placed, Housed, Linked, TypeOK
  <2>4. Counted'
    BY <1>4 DEF StoreStatusAndStart, Counted, TypeOK, Linked
  <2>5. NotYetCancelled'
    BY <1>4 DEF StoreStatusAndStart, NotYetCancelled, Linked, TypeOK
  <2>6. EntriesHaveTopups'
    BY <1>4 DEF StoreStatusAndStart, EntriesHaveTopups, Linked, TypeOK
  <2>7. CoinslotNotLeftOn' /\ Alone'
    BY ZenonT(60), <1>4 DEF StoreStatusAndStart, CoinslotNotLeftOn, Alone, Accepting, Holding, Running, TypeOK, Linked
  <2>8. FinalIsCount'
    BY <1>4 DEF StoreStatusAndStart, FinalIsCount, Latest, Ended, Linked, Paid, TypeOK
  <2>9. ChannelDrained'
    BY <1>4 DEF StoreStatusAndStart, ChannelDrained, TypeOK
  <2>10. Paid'
    BY <1>4 DEF StoreStatusAndStart, Paid, Linked, TypeOK
  <2>11. CancelsAreOpen'
    BY <1>4 DEF StoreStatusAndStart, CancelsAreOpen
  <2> QED
    BY <2>1, <2>2, <2>3, <2>4, <2>5, <2>6, <2>7, <2>8, <2>9, <2>10, <2>11 DEF IInv
<1> QED
  BY <1>1, <1>2, <1>3, <1>4 DEF Handler

LEMMA RunnerStep ==
  ASSUME IInv, NEW t \in Topups, Runner(t)
  PROVE  IInv'
<1> USE DEF IInv, At, Goto, handlerVars, runnerVars, streamVars, coinslot, registry, db, rest
<1>1. CASE SetBusy(t)
  <2>1. TypeOK'
    BY <1>1, Bounds DEF SetBusy, TypeOK, RunnerSteps
  <2>2. Linked'
    BY <1>1 DEF SetBusy, Linked, TypeOK
  <2>3. Counted'
    BY <1>1 DEF SetBusy, Counted, TypeOK
  <2>4. CoinslotNotLeftOn' /\ Alone'
    BY <1>1 DEF SetBusy, CoinslotNotLeftOn, Alone, Accepting, Holding, Running, TypeOK
  <2>5. FinalIsCount'
    BY <1>1 DEF SetBusy, FinalIsCount, Latest, Ended, Linked, Paid, TypeOK
  <2>6. Paid'
    BY <1>1 DEF SetBusy, Paid, Linked, TypeOK
  <2>7. Placed' /\ Housed' /\ NotYetCancelled' /\ CancelsAreOpen' /\ EntriesHaveTopups' /\ ChannelDrained'
    BY <1>1 DEF SetBusy, Placed, Housed, NotYetCancelled, CancelsAreOpen, EntriesHaveTopups, ChannelDrained
  <2> QED
    BY <2>1, <2>2, <2>3, <2>4, <2>5, <2>6, <2>7 DEF IInv
<1>2. CASE SensorOn(t)
  <2>1. TypeOK'
    BY <1>2, Bounds DEF SensorOn, TypeOK, RunnerSteps
  <2>2. Linked'
    BY <1>2 DEF SensorOn, Linked, TypeOK
  <2>3. Counted'
    BY <1>2 DEF SensorOn, Counted, TypeOK
  <2>4. CoinslotNotLeftOn' /\ Alone'
    BY <1>2 DEF SensorOn, CoinslotNotLeftOn, Alone, Accepting, Holding, Running, TypeOK
  <2>5. FinalIsCount'
    BY <1>2 DEF SensorOn, FinalIsCount, Latest, Ended, Linked, Paid, TypeOK
  <2>6. Paid'
    BY <1>2 DEF SensorOn, Paid, Linked, TypeOK
  <2>7. Placed' /\ Housed' /\ NotYetCancelled' /\ CancelsAreOpen' /\ EntriesHaveTopups' /\ ChannelDrained'
    BY <1>2 DEF SensorOn, Placed, Housed, NotYetCancelled, CancelsAreOpen, EntriesHaveTopups, ChannelDrained
  <2> QED
    BY <2>1, <2>2, <2>3, <2>4, <2>5, <2>6, <2>7 DEF IInv
<1>3. CASE CountCoin(t)
  <2>1. TypeOK'
    <3>1. count' \in [Topups -> 0..MaxCoins] /\ counted' \in Nat
      BY SMTT(30), <1>3, Bounds DEF CountCoin, TypeOK, Counted
    <3>2. run' \in [Topups -> RunnerSteps]
      BY <1>3 DEF CountCoin, NextTurn, TypeOK, RunnerSteps
    <3> QED
      BY <1>3, <3>1, <3>2 DEF CountCoin, TypeOK
  <2>2. Linked'
    BY <1>3 DEF CountCoin, NextTurn, Linked, TypeOK
  <2>3. Counted'
    BY <1>3 DEF CountCoin, Counted, TypeOK
  <2>4. CoinslotNotLeftOn'
    BY <1>3 DEF CountCoin, NextTurn, CoinslotNotLeftOn, Accepting, Holding, Running, TypeOK
  <2>9. Alone'
    <3>1. SUFFICES ASSUME ~overlapped PROVE Alone'
      BY <1>3 DEF CountCoin, Alone
    <3>2. Holding(t)
      BY <1>3 DEF CountCoin, Holding, Running
    <3>3. \A u \in Topups : Holding(u)' => Holding(u)
      BY <1>3 DEF CountCoin, NextTurn, Holding, Running, TypeOK
    <3>4. unread = {t}
      <4>1. \A u \in unread : u \in Topups /\ Holding(u)
        BY DEF Counted, TypeOK, Holding, Running
      <4> QED
        BY <1>3, <3>1, <3>2, <4>1 DEF CountCoin, Alone
    <3>5. counted + 1 <= coins /\ counted' = counted + 1 /\ unread' = {} /\ UNCHANGED <<coins, busy, sensor, pin>>
      BY <1>3, <3>1, <3>4 DEF CountCoin, Alone, TypeOK
    <3> QED
      BY <3>1, <3>3, <3>5 DEF Alone
  <2>5. FinalIsCount'
    BY <1>3 DEF CountCoin, NextTurn, FinalIsCount, Latest, Ended, Linked, Paid, TypeOK
  <2>6. Paid'
    BY <1>3 DEF CountCoin, NextTurn, Paid, Linked, TypeOK
  <2>7. Placed' /\ Housed' /\ NotYetCancelled' /\ CancelsAreOpen' /\ EntriesHaveTopups' /\ ChannelDrained'
    BY <1>3 DEF CountCoin, Placed, Housed, NotYetCancelled, CancelsAreOpen, EntriesHaveTopups, ChannelDrained
  <2> QED
    BY <2>1, <2>2, <2>3, <2>4, <2>5, <2>6, <2>7, <2>9 DEF IInv
<1>4. CASE NoCoin(t) \/ TimeOut(t)
  <2>0. /\ run[t] = "poll" /\ unread' \in {unread, unread \ {t}}
        /\ \E to \in {"progress", "endDone", "endCancelled"} :
             run' = [run EXCEPT ![t] = to] /\ (to # "progress" => unread' = unread \ {t})
        /\ UNCHANGED <<handlerVars, count, chan, streamVars, busy, pin, sensor, coins, counted, overlapped,
                       registry, db, rest>>
    <3>1. CASE NoCoin(t)
      BY <1>4, <3>1 DEF NoCoin, NextTurn, TypeOK
    <3>2. CASE TimeOut(t)
      BY <1>4, <3>2 DEF TimeOut, TypeOK
    <3> QED
      BY <1>4, <3>1, <3>2
  <2>1. TypeOK'
    <3>1. run' \in [Topups -> RunnerSteps]
      BY <2>0 DEF TypeOK, RunnerSteps
    <3>2. unread' \subseteq Topups
      BY <2>0 DEF TypeOK
    <3> QED
      BY <2>0, <3>1, <3>2 DEF TypeOK
  <2>2. Linked'
    BY <2>0 DEF Linked, TypeOK
  <2>3. Counted'
    BY <2>0 DEF Counted, TypeOK
  <2>4. CoinslotNotLeftOn' /\ Alone'
    BY <2>0 DEF CoinslotNotLeftOn, Alone, Accepting, Holding, Running, TypeOK
  <2>5. FinalIsCount'
    BY <2>0 DEF FinalIsCount, Latest, Ended, Linked, Paid, TypeOK
  <2>6. Paid'
    BY <2>0 DEF Paid, Linked, TypeOK
  <2>7. Placed' /\ Housed' /\ NotYetCancelled' /\ CancelsAreOpen' /\ EntriesHaveTopups' /\ ChannelDrained'
    BY <2>0 DEF Placed, Housed, NotYetCancelled, CancelsAreOpen, EntriesHaveTopups, ChannelDrained
  <2> QED
    BY <2>1, <2>2, <2>3, <2>4, <2>5, <2>6, <2>7 DEF IInv
<1>5. CASE SendFinal(t)
  <2>1. TypeOK'
    <3> DEFINE r == [kind |-> IF run[t] = "endDone" THEN "done" ELSE "cancelled", amt |-> count[t]]
    <3>1. r \in Results /\ chan' = [chan EXCEPT ![t] = Append(chan[t], r)]
      BY <1>5 DEF SendFinal, TypeOK, Results, Kinds
    <3> HIDE DEF r
    <3>2. chan[t] \in Seq(Results) /\ Len(chan[t]) \in Nat /\ Len(chan[t]) < ChanCap
      BY <1>5 DEF SendFinal, TypeOK
    <3>3. Append(chan[t], r) \in Seq(Results) /\ Len(Append(chan[t], r)) <= ChanCap
      BY <3>1, <3>2, Bounds
    <3>4. chan' \in [Topups -> Seq(Results)] /\ \A u \in Topups : Len(chan'[u]) <= ChanCap
      BY <3>1, <3>3 DEF TypeOK
    <3>5. run' \in [Topups -> RunnerSteps]
      BY <1>5 DEF SendFinal, TypeOK, RunnerSteps
    <3> QED
      BY <1>5, <3>4, <3>5 DEF SendFinal, TypeOK
  <2>2. Linked'
    BY <1>5 DEF SendFinal, Linked, TypeOK
  <2>3. Counted'
    BY <1>5 DEF SendFinal, Counted, TypeOK
  <2>4. CoinslotNotLeftOn' /\ Alone'
    BY <1>5 DEF SendFinal, CoinslotNotLeftOn, Alone, Accepting, Holding, Running, TypeOK
  <2>5. FinalIsCount'
    <3>1. SUFFICES ASSUME NEW u \in Topups, str[u] \notin {"none", "finished"}, run'[u] \in Ended
                   PROVE  Latest(u)' = count[u]
      BY <1>5 DEF SendFinal, FinalIsCount
    <3>2. CASE u = t
      <4> DEFINE r == [kind |-> IF run[t] = "endDone" THEN "done" ELSE "cancelled", amt |-> count[t]]
      <4>1. r.amt = count[t] /\ chan' = [chan EXCEPT ![t] = Append(chan[t], r)]
        BY <1>5 DEF SendFinal
      <4> HIDE DEF r
      <4>2. chan[t] \in Seq(Results) /\ t \in DOMAIN chan
        BY DEF TypeOK
      <4>3. chan'[t] # <<>> /\ chan'[t][Len(chan'[t])] = r
        BY <4>1, <4>2
      <4> QED
        BY <3>2, <4>1, <4>3 DEF Latest
    <3>3. CASE u # t
      BY <3>1, <3>3, <1>5 DEF SendFinal, FinalIsCount, Latest, TypeOK
    <3> QED
      BY <3>2, <3>3
  <2>6. ChannelDrained'
    BY <1>5 DEF SendFinal, ChannelDrained, TypeOK, Linked
  <2>7. Paid'
    BY <1>5 DEF SendFinal, Paid, Linked, TypeOK
  <2>8. Placed' /\ Housed' /\ NotYetCancelled' /\ CancelsAreOpen' /\ EntriesHaveTopups'
    BY <1>5 DEF SendFinal, Placed, Housed, NotYetCancelled, CancelsAreOpen, EntriesHaveTopups
  <2> QED
    BY <2>1, <2>2, <2>3, <2>4, <2>5, <2>6, <2>7, <2>8 DEF IInv
<1>6. CASE SensorOff(t)
  <2>1. TypeOK'
    BY <1>6, Bounds DEF SensorOff, TypeOK, RunnerSteps
  <2>2. Linked'
    BY <1>6 DEF SensorOff, Linked, TypeOK
  <2>3. Counted'
    BY <1>6 DEF SensorOff, Counted, TypeOK
  <2>4. CoinslotNotLeftOn' /\ Alone'
    BY <1>6 DEF SensorOff, CoinslotNotLeftOn, Alone, Accepting, Holding, Running, TypeOK
  <2>5. FinalIsCount'
    BY <1>6 DEF SensorOff, FinalIsCount, Latest, Ended, Linked, Paid, TypeOK
  <2>6. Paid'
    BY <1>6 DEF SensorOff, Paid, Linked, TypeOK
  <2>7. Placed' /\ Housed' /\ NotYetCancelled' /\ CancelsAreOpen' /\ EntriesHaveTopups' /\ ChannelDrained'
    BY <1>6 DEF SensorOff, Placed, Housed, NotYetCancelled, CancelsAreOpen, EntriesHaveTopups, ChannelDrained
  <2> QED
    BY <2>1, <2>2, <2>3, <2>4, <2>5, <2>6, <2>7 DEF IInv
<1>7. CASE ClearBusy(t)
  <2>1. TypeOK'
    BY <1>7, Bounds DEF ClearBusy, TypeOK, RunnerSteps
  <2>2. Linked'
    BY <1>7 DEF ClearBusy, Linked, TypeOK
  <2>3. Counted'
    BY <1>7 DEF ClearBusy, Counted, TypeOK
  <2>4. CoinslotNotLeftOn' /\ Alone'
    BY <1>7 DEF ClearBusy, CoinslotNotLeftOn, Alone, Accepting, Holding, Running, TypeOK
  <2>5. FinalIsCount'
    BY <1>7 DEF ClearBusy, FinalIsCount, Latest, Ended, Linked, Paid, TypeOK
  <2>6. Paid'
    BY <1>7 DEF ClearBusy, Paid, Linked, TypeOK
  <2>7. Placed' /\ Housed' /\ NotYetCancelled' /\ CancelsAreOpen' /\ EntriesHaveTopups' /\ ChannelDrained'
    BY <1>7 DEF ClearBusy, Placed, Housed, NotYetCancelled, CancelsAreOpen, EntriesHaveTopups, ChannelDrained
  <2> QED
    BY <2>1, <2>2, <2>3, <2>4, <2>5, <2>6, <2>7 DEF IInv
<1>8. CASE CloseChannel(t)
  <2>1. TypeOK'
    BY <1>8, Bounds DEF CloseChannel, TypeOK, RunnerSteps
  <2>2. Linked'
    BY <1>8 DEF CloseChannel, Linked, TypeOK
  <2>3. Counted'
    BY <1>8 DEF CloseChannel, Counted, TypeOK
  <2>4. CoinslotNotLeftOn' /\ Alone'
    BY <1>8 DEF CloseChannel, CoinslotNotLeftOn, Alone, Accepting, Holding, Running, TypeOK
  <2>5. FinalIsCount'
    BY <1>8 DEF CloseChannel, FinalIsCount, Latest, Ended, Linked, Paid, TypeOK
  <2>6. Paid'
    BY <1>8 DEF CloseChannel, Paid, Linked, TypeOK
  <2>7. Placed' /\ Housed' /\ NotYetCancelled' /\ CancelsAreOpen' /\ EntriesHaveTopups' /\ ChannelDrained'
    BY <1>8 DEF CloseChannel, Placed, Housed, NotYetCancelled, CancelsAreOpen, EntriesHaveTopups, ChannelDrained
  <2> QED
    BY <2>1, <2>2, <2>3, <2>4, <2>5, <2>6, <2>7 DEF IInv
<1>9. CASE SendProgress(t)
  <2>0. /\ run[t] = "progress" /\ unread' \in {unread, unread \ {t}}
        /\ \E to \in {"poll", "endCancelled"} :
             run' = [run EXCEPT ![t] = to] /\ (to # "poll" => unread' = unread \ {t})
    BY <1>9 DEF SendProgress, TypeOK
  <2>1. TypeOK'
    <3> DEFINE r == [kind |-> "progress", amt |-> count[t]]
    <3>1. r \in Results /\ chan' = [chan EXCEPT ![t] = Append(chan[t], r)]
      BY <1>9 DEF SendProgress, TypeOK, Results, Kinds
    <3> HIDE DEF r
    <3>2. chan[t] \in Seq(Results) /\ Len(chan[t]) \in Nat /\ Len(chan[t]) < ChanCap
      BY <1>9 DEF SendProgress, TypeOK
    <3>3. Append(chan[t], r) \in Seq(Results) /\ Len(Append(chan[t], r)) <= ChanCap
      BY <3>1, <3>2, Bounds
    <3>4. chan' \in [Topups -> Seq(Results)] /\ \A u \in Topups : Len(chan'[u]) <= ChanCap
      BY <3>1, <3>3 DEF TypeOK
    <3>5. run' \in [Topups -> RunnerSteps] /\ unread' \subseteq Topups
      BY <2>0 DEF TypeOK, RunnerSteps
    <3> QED
      BY <1>9, <3>4, <3>5 DEF SendProgress, TypeOK
  <2>2. Linked'
    BY <1>9, <2>0 DEF SendProgress, Linked, TypeOK
  <2>3. Counted'
    BY <1>9, <2>0 DEF SendProgress, Counted, TypeOK
  <2>4. CoinslotNotLeftOn' /\ Alone'
    BY <1>9, <2>0 DEF SendProgress, CoinslotNotLeftOn, Alone, Accepting, Holding, Running, TypeOK
  <2>5. FinalIsCount'
    BY <1>9, <2>0 DEF SendProgress, FinalIsCount, Latest, Ended, Linked, Paid, TypeOK
  <2>6. ChannelDrained'
    BY <1>9, <2>0 DEF SendProgress, ChannelDrained, TypeOK, Linked
  <2>7. Paid'
    BY <1>9, <2>0 DEF SendProgress, Paid, Linked, TypeOK
  <2>8. Placed' /\ Housed' /\ NotYetCancelled' /\ CancelsAreOpen' /\ EntriesHaveTopups'
    BY <1>9 DEF SendProgress, Placed, Housed, NotYetCancelled, CancelsAreOpen, EntriesHaveTopups
  <2> QED
    BY <2>1, <2>2, <2>3, <2>4, <2>5, <2>6, <2>7, <2>8 DEF IInv
<1> QED
  BY <1>1, <1>2, <1>3, <1>4, <1>5, <1>6, <1>7, <1>8, <1>9 DEF Runner

LEMMA StreamStep ==
  ASSUME IInv, NEW t \in Topups, Stream(t)
  PROVE  IInv'
<1> USE DEF IInv, At, Goto, handlerVars, runnerVars, streamVars, coinslot, registry, db, rest
<1>1. CASE Receive(t)
  <2>1. TypeOK'
    <3>1. chan[t] \in Seq(Results) /\ chan[t] # <<>> /\ Len(chan[t]) <= ChanCap
      BY <1>1 DEF Receive, TypeOK
    <3>2. Head(chan[t]) \in Results /\ Tail(chan[t]) \in Seq(Results) /\ Len(Tail(chan[t])) <= ChanCap
      BY <3>1, Bounds, HeadTailProperties
    <3>3. Head(chan[t]).amt \in 0..MaxCoins
      BY <3>2 DEF Results
    <3>4. chan' = [chan EXCEPT ![t] = Tail(chan[t])]
      BY <1>1 DEF Receive
    <3>5. chan' \in [Topups -> Seq(Results)] /\ \A u \in Topups : Len(chan'[u]) <= ChanCap
      BY <3>2, <3>4 DEF TypeOK
    <3>6. last' \in [Topups -> Results] /\ status' \in [Devs -> 0..MaxCoins \cup {None}]
      BY <1>1, <3>2, <3>3 DEF Receive, TypeOK
    <3> QED
      BY <1>1, <3>5, <3>6 DEF Receive, TypeOK
  <2>2. EntriesHaveTopups'
    BY <1>1 DEF Receive, EntriesHaveTopups, Linked, TypeOK
  <2>3. FinalIsCount'
    <3>1. SUFFICES ASSUME NEW u \in Topups, str[u] \notin {"none", "finished"}, run[u] \in Ended
                   PROVE  Latest(u)' = count[u]
      BY <1>1 DEF Receive, FinalIsCount
    <3>2. Latest(u) = count[u]
      BY <3>1 DEF FinalIsCount
    <3>3. CASE u = t
      <4>1. chan[t] \in Seq(Results) /\ chan[t] # <<>>
        BY <1>1 DEF Receive, TypeOK
      <4>2. chan'[t] = Tail(chan[t]) /\ last'[t] = Head(chan[t])
        BY <1>1 DEF Receive, TypeOK
      <4>3. CASE Len(chan[t]) = 1
        BY <3>2, <3>3, <4>1, <4>2, <4>3 DEF Latest
      <4>4. CASE Len(chan[t]) > 1
        BY <3>2, <3>3, <4>1, <4>2, <4>4, LastOfTail DEF Latest
      <4>5. Len(chan[t]) = 1 \/ Len(chan[t]) > 1
        BY <4>1, OneOrMore
      <4> QED
        BY <4>3, <4>4, <4>5
    <3>4. CASE u # t
      BY <3>2, <3>4, <1>1 DEF Receive, Latest, TypeOK
    <3> QED
      BY <3>3, <3>4
  <2>4. ChannelDrained'
    BY <1>1 DEF Receive, ChannelDrained, TypeOK
  <2>5. Linked' /\ Placed' /\ Housed' /\ Counted' /\ NotYetCancelled' /\ CancelsAreOpen'
        /\ CoinslotNotLeftOn' /\ Alone' /\ Paid'
    BY <1>1 DEF Receive, Linked, Placed, Housed, Counted, NotYetCancelled, CancelsAreOpen, CoinslotNotLeftOn,
       Alone, Accepting, Holding, Paid, Running
  <2> QED
    BY <2>1, <2>2, <2>3, <2>4, <2>5 DEF IInv
<1>2. CASE ChannelClosed(t)
  <2>1. TypeOK'
    BY <1>2, Bounds DEF ChannelClosed, TypeOK, StreamSteps
  <2>2. Linked'
    BY <1>2 DEF ChannelClosed, Linked, TypeOK
  <2>3. Placed' /\ Housed'
    BY <1>2 DEF ChannelClosed, Placed, Housed, TypeOK
  <2>4. EntriesHaveTopups'
    BY <1>2 DEF ChannelClosed, EntriesHaveTopups, Linked, TypeOK
  <2>5. FinalIsCount'
    BY <1>2 DEF ChannelClosed, FinalIsCount, Latest, Ended, Linked, Paid, TypeOK
  <2>6. ChannelDrained'
    BY <1>2 DEF ChannelClosed, ChannelDrained, TypeOK
  <2>7. Paid'
    BY <1>2 DEF ChannelClosed, Paid, Linked, TypeOK
  <2>8. Counted' /\ NotYetCancelled' /\ CancelsAreOpen' /\ CoinslotNotLeftOn' /\ Alone'
    BY <1>2 DEF ChannelClosed, Counted, NotYetCancelled, CancelsAreOpen, CoinslotNotLeftOn, Alone, Accepting,
       Holding, Running
  <2> QED
    BY <2>1, <2>2, <2>3, <2>4, <2>5, <2>6, <2>7, <2>8 DEF IInv
<1>3. CASE DropCancel(t)
  <2>1. TypeOK'
    BY <1>3, Bounds DEF DropCancel, TypeOK, Placed, StreamSteps
  <2>2. Linked'
    BY <1>3 DEF DropCancel, Linked, TypeOK
  <2>3. Placed' /\ Housed'
    BY <1>3 DEF DropCancel, Placed, Housed, TypeOK
  <2>4. CancelsAreOpen'
    BY <1>3 DEF DropCancel, CancelsAreOpen, Linked, NotYetCancelled, EntriesHaveTopups, TypeOK
  <2>5. EntriesHaveTopups'
    BY SMTT(30), <1>3 DEF DropCancel, EntriesHaveTopups, Linked, TypeOK
  <2>6. FinalIsCount'
    BY <1>3 DEF DropCancel, FinalIsCount, Latest, Ended, Linked, Paid, TypeOK
  <2>7. ChannelDrained'
    BY <1>3 DEF DropCancel, ChannelDrained, TypeOK
  <2>8. Paid'
    BY <1>3 DEF DropCancel, Paid, Linked, TypeOK
  <2>9. Counted' /\ NotYetCancelled' /\ CoinslotNotLeftOn' /\ Alone'
    BY <1>3 DEF DropCancel, Counted, NotYetCancelled, CoinslotNotLeftOn, Alone, Accepting, Holding, Running
  <2> QED
    BY <2>1, <2>2, <2>3, <2>4, <2>5, <2>6, <2>7, <2>8, <2>9 DEF IInv
<1>4. CASE DropStatus(t)
  <2>1. TypeOK'
    BY <1>4, Bounds DEF DropStatus, TypeOK, Placed, StreamSteps
  <2>2. Linked'
    BY <1>4 DEF DropStatus, Linked, TypeOK
  <2>3. Placed' /\ Housed'
    BY <1>4 DEF DropStatus, Placed, Housed, TypeOK
  <2>4. EntriesHaveTopups'
    BY SMTT(30), <1>4 DEF DropStatus, EntriesHaveTopups, Linked, TypeOK
  <2>5. FinalIsCount'
    BY <1>4 DEF DropStatus, FinalIsCount, Latest, Ended, Linked, Paid, TypeOK
  <2>6. ChannelDrained'
    BY <1>4 DEF DropStatus, ChannelDrained, TypeOK
  <2>7. Paid'
    BY <1>4 DEF DropStatus, Paid, Linked, TypeOK
  <2>8. Counted' /\ NotYetCancelled' /\ CancelsAreOpen' /\ CoinslotNotLeftOn' /\ Alone'
    BY <1>4 DEF DropStatus, Counted, NotYetCancelled, CancelsAreOpen, CoinslotNotLeftOn, Alone, Accepting,
       Holding, Running
  <2> QED
    BY <2>1, <2>2, <2>3, <2>4, <2>5, <2>6, <2>7, <2>8 DEF IInv
<1>5. CASE Settle(t)
  <2>1. TypeOK'
    <3>1. h[t] = "returned" /\ ip[t] \in IPs /\ dev[t] \in Devs
      BY <1>5 DEF Settle, Linked, Placed
    <3>2. topupCount' \in [Devs -> 0..MaxTries] /\ wait' \in [Devs -> 0..MaxTries]
      BY <1>5, <3>1, IncrementTyped DEF Settle, SettleEmpty, SettleCoins, SettleNobody, TypeOK
    <3>3. str' = Goto(str, t, "finished") \/ str' = Goto(str, t, "addSession")
      BY <1>5 DEF Settle, SettleEmpty, SettleCoins, SettleNobody
    <3>6. str' \in [Topups -> StreamSteps]
      BY <3>3 DEF TypeOK, StreamSteps
    <3>4. creditDev' = creditDev \/ creditDev' = [creditDev EXCEPT ![t] = owner[ip[t]]]
      BY <1>5 DEF Settle, SettleEmpty, SettleCoins, SettleNobody
    <3>5. creditDev' \in [Topups -> Devs \cup {None}]
      BY <3>1, <3>4 DEF TypeOK
    <3>7. events' \in 0..MaxEvents /\ faults' \in Nat
      BY <1>5, Bounds DEF Settle, SettleEmpty, SettleCoins, SettleNobody, TypeOK
    <3> QED
      BY <1>5, <3>2, <3>5, <3>6, <3>7 DEF Settle, TypeOK
  <2>2. Linked'
    BY <1>5 DEF Settle, SettleEmpty, SettleCoins, SettleNobody, IncrTopupCount, Linked, TypeOK
  <2>3. Placed' /\ Housed'
    <3>1. h[t] = "returned" /\ ip[t] \in IPs /\ owner[ip[t]] \in Devs \cup {None}
      BY <1>5 DEF Settle, Linked, Placed, TypeOK
    <3>2. \A u \in Topups : str'[u] \in {"addSession", "resetCount"} => creditDev'[u] \in Devs
      BY <1>5, <3>1 DEF Settle, SettleEmpty, SettleCoins, SettleNobody, Placed, TypeOK
    <3>3. \A u \in Topups : str'[u] = str[u] \/ str[u] # "finished"
      BY <1>5 DEF Settle, SettleEmpty, SettleCoins, SettleNobody, TypeOK
    <3> QED
      BY <1>5, <3>2, <3>3 DEF Settle, Placed, Housed
  <2>4. EntriesHaveTopups'
    BY <1>5, BystanderKeepsEntries DEF Settle, SettleEmpty, SettleCoins, SettleNobody, IncrTopupCount,
       Linked, TypeOK
  <2>5. FinalIsCount'
    BY <1>5 DEF Settle, SettleEmpty, SettleCoins, SettleNobody, IncrTopupCount, FinalIsCount, Latest, Ended,
       Linked, Paid, TypeOK
  <2>6. ChannelDrained'
    BY <1>5 DEF Settle, SettleEmpty, SettleCoins, SettleNobody, IncrTopupCount, ChannelDrained, TypeOK
  <2>7. Paid'
    <3>1. last[t].amt = count[t]
      BY <1>5 DEF Settle, Paid, FinalIsCount, ChannelDrained, Latest, Ended
    <3>2. h[t] = "returned" /\ str[t] = "settle"
      BY <1>5 DEF Settle, Linked
    <3>3. faults \in Nat
      BY DEF TypeOK
    <3>4. faults' \in {faults, faults + 1} /\ credit' = credit /\ credit[t] = 0
      BY <1>5, <3>2 DEF Settle, SettleEmpty, SettleCoins, SettleNobody, Paid
    <3>8. SettleEmpty(t) \/ SettleCoins(t) \/ SettleNobody(t)
      BY <1>5 DEF Settle
    <3>5. str'[t] = "finished" => credit[t] = count[t] \/ faults' > 0 \/ t \in stranded
      <4>1. CASE SettleEmpty(t)
        BY <4>1, <3>1, <3>4 DEF SettleEmpty
      <4>2. CASE SettleCoins(t)
        BY <4>2 DEF SettleCoins, TypeOK
      <4>3. CASE SettleNobody(t)
        BY <4>3, <3>2, <3>3 DEF SettleNobody, Housed
      <4> QED
        BY <3>8, <4>1, <4>2, <4>3
    <3>6. /\ str'[t] \in {"finished", "addSession"}
          /\ \A u \in Topups \ {t} : str'[u] = str[u]
      BY <1>5 DEF Settle, SettleEmpty, SettleCoins, SettleNobody, TypeOK
    <3>7. run' = run /\ count' = count /\ stranded' = stranded /\ run[t] = "closed"
      BY <1>5, <3>2 DEF Settle, Paid
    <3> QED
      BY <3>2, <3>3, <3>4, <3>5, <3>6, <3>7 DEF Paid
  <2>8. Counted' /\ NotYetCancelled' /\ CancelsAreOpen' /\ CoinslotNotLeftOn' /\ Alone'
    BY <1>5 DEF Settle, SettleEmpty, SettleCoins, SettleNobody, IncrTopupCount, Counted, NotYetCancelled,
       CancelsAreOpen, CoinslotNotLeftOn, Alone, Accepting, Holding, Running
  <2> QED
    BY <2>1, <2>2, <2>3, <2>4, <2>5, <2>6, <2>7, <2>8 DEF IInv
<1>6. CASE AddSession(t)
  <2>1. TypeOK'
    <3>1. str' \in [Topups -> StreamSteps]
      <4>1. str' = [str EXCEPT ![t] = "resetCount"]
        BY <1>6 DEF AddSession
      <4>2. str \in [Topups -> StreamSteps] /\ "resetCount" \in StreamSteps
        BY DEF TypeOK, StreamSteps
      <4> QED
        BY ONLY <4>1, <4>2
    <3>2. last[t].amt \in Nat /\ creditDev[t] \in Devs
      BY <1>6, Bounds DEF AddSession, TypeOK, Results, Placed
    <3>3. events' \in 0..MaxEvents /\ faults' \in Nat
      BY SMTT(30), <1>6, Bounds DEF AddSession, TypeOK
    <3>4. /\ balance' = balance \/ balance' = [balance EXCEPT ![creditDev[t]] = @ + last[t].amt]
          /\ credit' = credit \/ credit' = [credit EXCEPT ![t] = @ + last[t].amt]
      BY <1>6 DEF AddSession
    <3>5. balance' \in [Devs -> Nat]
      <4>1. balance \in [Devs -> Nat]
        BY DEF TypeOK
      <4>2. [balance EXCEPT ![creditDev[t]] = @ + last[t].amt] \in [Devs -> Nat]
        BY <3>2, <4>1, AddedTyped
      <4> QED
        BY <3>4, <4>1, <4>2
    <3>6. credit' \in [Topups -> Nat]
      BY SMTT(30), <3>2, <3>4, AddedTyped DEF TypeOK
    <3> QED
      BY <1>6, <3>1, <3>3, <3>5, <3>6 DEF AddSession, TypeOK
  <2>2. Linked'
    BY <1>6 DEF AddSession, Linked, TypeOK
  <2>3. Placed' /\ Housed'
    BY <1>6 DEF AddSession, Placed, Housed, TypeOK
  <2>4. EntriesHaveTopups'
    BY <1>6, BystanderKeepsEntries DEF AddSession, Linked, TypeOK
  <2>5. FinalIsCount'
    BY <1>6 DEF AddSession, FinalIsCount, Latest, Ended, Linked, Paid, TypeOK
  <2>6. ChannelDrained'
    BY <1>6 DEF AddSession, ChannelDrained, TypeOK
  <2>7. Paid'
    <3>1. last[t].amt = count[t] /\ credit[t] = 0
      BY <1>6 DEF AddSession, Paid, FinalIsCount, ChannelDrained, Latest, Ended
    <3>5. count[t] \in Nat
      BY Bounds DEF TypeOK
    <3>2. str' = [str EXCEPT ![t] = "resetCount"] /\ run' = run /\ count' = count /\ stranded' = stranded
      BY <1>6 DEF AddSession
    <3>3. \/ credit' = [credit EXCEPT ![t] = @ + last[t].amt] /\ faults' = faults
          \/ credit' = credit /\ faults' = faults + 1
      BY <1>6 DEF AddSession
    <3>4. faults \in Nat
      BY Bounds DEF TypeOK
    <3>6. credit'[t] = count[t] \/ (credit'[t] = 0 /\ faults' > 0)
      BY <3>1, <3>3, <3>4, <3>5 DEF TypeOK
    <3>7. faults > 0 => faults' > 0
      BY <3>3, <3>4
    <3>8. \A u \in Topups \ {t} : credit'[u] = credit[u] /\ str'[u] = str[u]
      BY <3>2, <3>3 DEF TypeOK
    <3>9. str'[t] = "resetCount" /\ run[t] = "closed"
      BY <1>6, <3>2 DEF AddSession, Paid, TypeOK
    <3> QED
      BY <3>2, <3>6, <3>7, <3>8, <3>9 DEF Paid
  <2>8. Counted' /\ NotYetCancelled' /\ CancelsAreOpen' /\ CoinslotNotLeftOn' /\ Alone'
    BY <1>6 DEF AddSession, Counted, NotYetCancelled, CancelsAreOpen, CoinslotNotLeftOn, Alone, Accepting,
       Holding, Running
  <2> QED
    BY <2>1, <2>2, <2>3, <2>4, <2>5, <2>6, <2>7, <2>8 DEF IInv
<1>7. CASE ResetTopupCount(t)
  <2>1. TypeOK'
    BY SMTT(30), <1>7, Bounds DEF ResetTopupCount, TypeOK, Placed, StreamSteps
  <2>2. Linked'
    BY <1>7 DEF ResetTopupCount, Linked, TypeOK
  <2>3. Placed' /\ Housed'
    BY <1>7 DEF ResetTopupCount, Placed, Housed, TypeOK
  <2>4. EntriesHaveTopups'
    BY <1>7, BystanderKeepsEntries DEF ResetTopupCount, Linked, TypeOK
  <2>5. FinalIsCount'
    BY <1>7 DEF ResetTopupCount, FinalIsCount, Latest, Ended, Linked, Paid, TypeOK
  <2>6. ChannelDrained'
    BY <1>7 DEF ResetTopupCount, ChannelDrained, TypeOK
  <2>7. Paid'
    BY <1>7 DEF ResetTopupCount, Paid, Linked, TypeOK
  <2>8. Counted' /\ NotYetCancelled' /\ CancelsAreOpen' /\ CoinslotNotLeftOn' /\ Alone'
    BY <1>7 DEF ResetTopupCount, Counted, NotYetCancelled, CancelsAreOpen, CoinslotNotLeftOn, Alone,
       Accepting, Holding, Running
  <2> QED
    BY <2>1, <2>2, <2>3, <2>4, <2>5, <2>6, <2>7, <2>8 DEF IInv
<1>8. CASE Connect(t)
  <2>1. TypeOK'
    BY <1>8, Bounds DEF Connect, TypeOK, Placed, StreamSteps, Linked
  <2>2. Linked'
    BY <1>8 DEF Connect, Linked, TypeOK
  <2>3. Placed' /\ Housed'
    BY <1>8 DEF Connect, Placed, Housed, TypeOK
  <2>4. EntriesHaveTopups'
    BY <1>8, BystanderKeepsEntries DEF Connect, Linked, TypeOK
  <2>5. FinalIsCount'
    BY <1>8 DEF Connect, FinalIsCount, Latest, Ended, Linked, Paid, TypeOK
  <2>6. ChannelDrained'
    BY <1>8 DEF Connect, ChannelDrained, TypeOK
  <2>7. Paid'
    BY <1>8 DEF Connect, Paid, Linked, TypeOK
  <2>8. Counted' /\ NotYetCancelled' /\ CancelsAreOpen' /\ CoinslotNotLeftOn' /\ Alone'
    BY <1>8 DEF Connect, Counted, NotYetCancelled, CancelsAreOpen, CoinslotNotLeftOn, Alone, Accepting,
       Holding, Running
  <2> QED
    BY <2>1, <2>2, <2>3, <2>4, <2>5, <2>6, <2>7, <2>8 DEF IInv
<1> QED
  BY <1>1, <1>2, <1>3, <1>4, <1>5, <1>6, <1>7, <1>8 DEF Stream

LEMMA RequestStep ==
  ASSUME IInv, NEW t \in Topups, NEW i \in IPs, Request(t, i)
  PROVE  IInv'
<1> USE DEF IInv, At, Goto, handlerVars, runnerVars, streamVars, coinslot, registry, db, rest
<1>1. TypeOK'
  BY Bounds DEF Request, TypeOK, HandlerSteps
<1>2. Linked'
  BY DEF Request, Linked, TypeOK
<1>3. Placed' /\ Housed'
  BY DEF Request, Placed, Housed, TypeOK
<1>4. NotYetCancelled'
  BY DEF Request, NotYetCancelled, Linked, TypeOK
<1>5. EntriesHaveTopups'
  BY BystanderKeepsEntries DEF Request, Linked, TypeOK
<1>6. Counted' /\ CancelsAreOpen' /\ CoinslotNotLeftOn' /\ Alone' /\ FinalIsCount' /\ ChannelDrained' /\ Paid'
  BY DEF Request, Counted, CancelsAreOpen, CoinslotNotLeftOn, Alone, Accepting, Holding, FinalIsCount,
     ChannelDrained, Paid, Running, Latest
<1> QED
  BY <1>1, <1>2, <1>3, <1>4, <1>5, <1>6 DEF IInv

LEMMA CancelStep ==
  ASSUME IInv, NEW i \in IPs, Cancel(i) \/ CancelIncr(i) \/ CancelConnect(i)
  PROVE  IInv'
<1> USE DEF IInv, At, Goto, handlerVars, runnerVars, streamVars, coinslot, registry, db, rest
<1>0. CASE Cancel(i) /\ owner[i] = None
  <2>1. UNCHANGED vars
    BY <1>0 DEF Cancel, vars
  <2> QED
    BY <2>1, Unmoved
<1>1. CASE Cancel(i) /\ owner[i] # None
  <2>0. owner[i] \in Devs /\ CloseCancel(i, owner[i])
    BY <1>1 DEF Cancel, TypeOK
  <2>1. \/ /\ cancels' = cancels /\ cancelled' = cancelled
           /\ canceller' = [canceller EXCEPT ![i] = [step |-> "connect", dev |-> owner[i]]]
        \/ /\ cancels[owner[i]] \in Topups
           /\ cancelled' = [cancelled EXCEPT ![cancels[owner[i]]] = TRUE]
           /\ cancels' = [cancels EXCEPT ![owner[i]] = None]
           /\ canceller' = [canceller EXCEPT ![i] = [step |-> "incr", dev |-> owner[i]]]
    BY <1>1, <2>0, Bounds DEF CloseCancel, TypeOK
  <2>2. TypeOK'
    <3>1. owner[i] \in Devs
      BY <2>0
    <3>2. cancels' \in [Devs -> Topups \cup {None}] /\ cancelled' \in [Topups -> BOOLEAN]
      BY <2>1 DEF TypeOK
    <3>3. canceller' \in [IPs -> [step : {"idle", "incr", "connect"}, dev : Devs \cup {None}]]
      <4>1. \A s \in {"incr", "connect"} :
              [step |-> s, dev |-> owner[i]] \in [step : {"idle", "incr", "connect"}, dev : Devs \cup {None}]
        BY <3>1
      <4>2. \E r \in [step : {"idle", "incr", "connect"}, dev : Devs \cup {None}] : canceller' = [canceller EXCEPT ![i] = r]
        BY <2>1, <4>1
      <4> QED
        BY <4>2 DEF TypeOK
    <3> QED
      BY <1>1, <3>2, <3>3 DEF Cancel, TypeOK
  <2>3. Placed' /\ Housed'
    <3>1. owner[i] \in Devs
      BY <2>0
    <3>2. canceller'[i].dev = owner[i] /\ \A j \in IPs \ {i} : canceller'[j] = canceller[j]
      BY <2>1 DEF TypeOK
    <3>3. \A j \in IPs : canceller'[j].step # "idle" => canceller'[j].dev \in Devs
      BY <3>1, <3>2 DEF Placed
    <3> QED
      BY <1>1, <3>3 DEF Cancel, Placed, Housed
  <2>4. NotYetCancelled'
    <3>1. cancels[owner[i]] # None =>
            h[cancels[owner[i]]] \notin {"idle", "busyCheck", "sensorCheck", "storeCancel"}
      <4>1. SUFFICES ASSUME cancels[owner[i]] # None
                     PROVE  h[cancels[owner[i]]] \notin {"idle", "busyCheck", "sensorCheck", "storeCancel"}
        OBVIOUS
      <4>2. owner[i] \in Devs /\ cancels[owner[i]] \in Topups
        BY <2>0, <4>1 DEF TypeOK
      <4>3. h[cancels[owner[i]]] = "storeStatus" \/ str[cancels[owner[i]]] \in {"range", "dropCancel"}
        BY <4>1, <4>2 DEF EntriesHaveTopups
      <4> QED
        BY <4>2, <4>3 DEF Linked
    <3>2. h' = h /\ \A u \in Topups : cancelled'[u] => cancelled[u] \/ u = cancels[owner[i]]
      BY <1>1, <2>1, Bounds DEF Cancel, TypeOK
    <3> QED
      BY <3>1, <3>2, Bounds DEF NotYetCancelled
  <2>5. CancelsAreOpen'
    <3>1. SUFFICES ASSUME NEW d \in Devs, cancels'[d] # None
                   PROVE  ~cancelled'[cancels'[d]]
      BY DEF CancelsAreOpen
    <3>2. cancels'[d] = cancels[d] /\ cancels[d] \in Topups /\ ~cancelled[cancels[d]]
      BY <2>1, <3>1 DEF CancelsAreOpen, TypeOK
    <3>3. CASE cancelled' = cancelled
      BY <3>2, <3>3
    <3>4. CASE /\ cancels[owner[i]] \in Topups
               /\ cancels' = [cancels EXCEPT ![owner[i]] = None]
               /\ cancelled' = [cancelled EXCEPT ![cancels[owner[i]]] = TRUE]
      <4>1. d # owner[i] /\ owner[i] \in Devs
        BY <2>0, <3>1, <3>4 DEF TypeOK
      <4>2. cancels[d] # cancels[owner[i]]
        BY <4>1, <3>2, <3>4, Bounds DEF EntriesHaveTopups
      <4> QED
        BY <3>2, <3>4, <4>2 DEF TypeOK
    <3> QED
      BY <2>1, <3>3, <3>4
  <2>6. EntriesHaveTopups'
    BY SMTT(30), <1>1, <2>1 DEF Cancel, EntriesHaveTopups, TypeOK
  <2>7. Linked' /\ Counted' /\ CoinslotNotLeftOn' /\ Alone' /\ FinalIsCount' /\ ChannelDrained' /\ Paid'
    BY <1>1 DEF Cancel, Linked, Counted, CoinslotNotLeftOn, Alone, Accepting, Holding, FinalIsCount,
       ChannelDrained, Paid, Running, Latest
  <2> QED
    BY <2>1, <2>2, <2>3, <2>4, <2>5, <2>6, <2>7 DEF IInv
<1>2. CASE CancelIncr(i)
  <2>1. TypeOK'
    <3>1. canceller[i].dev \in Devs
      BY <1>2 DEF CancelIncr, Placed
    <3>2. topupCount' \in [Devs -> 0..MaxTries] /\ wait' \in [Devs -> 0..MaxTries]
      BY <1>2, <3>1, IncrementTyped DEF CancelIncr
    <3>3. canceller' \in [IPs -> [step : {"idle", "incr", "connect"}, dev : Devs \cup {None}]]
      BY ZenonT(60), <1>2 DEF CancelIncr, TypeOK
    <3> QED
      BY <1>2, <3>2, <3>3 DEF CancelIncr, TypeOK
  <2>2. Placed' /\ Housed'
    BY <1>2 DEF CancelIncr, IncrTopupCount, Placed, Housed, TypeOK
  <2>3. Linked' /\ Counted' /\ NotYetCancelled' /\ CancelsAreOpen' /\ EntriesHaveTopups'
        /\ CoinslotNotLeftOn' /\ Alone' /\ FinalIsCount' /\ ChannelDrained' /\ Paid'
    BY <1>2 DEF CancelIncr, IncrTopupCount, Linked, Counted, NotYetCancelled, CancelsAreOpen,
       EntriesHaveTopups, CoinslotNotLeftOn, Alone, Accepting, Holding, FinalIsCount, ChannelDrained, Paid, Running, Latest
  <2> QED
    BY <2>1, <2>2, <2>3 DEF IInv
<1>3. CASE CancelConnect(i)
  <2>1. TypeOK'
    BY <1>3, Bounds DEF CancelConnect, TypeOK, Placed, NoCancel
  <2>2. Placed' /\ Housed'
    BY <1>3 DEF CancelConnect, Placed, Housed, TypeOK, NoCancel
  <2>3. Linked' /\ Counted' /\ NotYetCancelled' /\ CancelsAreOpen' /\ EntriesHaveTopups'
        /\ CoinslotNotLeftOn' /\ Alone' /\ FinalIsCount' /\ ChannelDrained' /\ Paid'
    BY <1>3 DEF CancelConnect, Linked, Counted, NotYetCancelled, CancelsAreOpen, EntriesHaveTopups,
       CoinslotNotLeftOn, Alone, Accepting, Holding, FinalIsCount, ChannelDrained, Paid, Running, Latest
  <2> QED
    BY <2>1, <2>2, <2>3 DEF IInv
<1> QED
  BY <1>0, <1>1, <1>2, <1>3

LEMMA EnvironmentStep ==
  ASSUME IInv, Environment
  PROVE  IInv'
<1> USE DEF IInv, At, Goto, handlerVars, runnerVars, streamVars, coinslot, registry, db, rest
<1>1. CASE InsertCoin
  <2>1. TypeOK'
    BY <1>1, Bounds DEF InsertCoin, TypeOK
  <2>2. Counted'
    BY <1>1 DEF InsertCoin, Counted, TypeOK
  <2>3. Linked' /\ Placed' /\ Housed' /\ NotYetCancelled' /\ CancelsAreOpen' /\ EntriesHaveTopups'
        /\ FinalIsCount' /\ ChannelDrained' /\ Paid'
    BY <1>1 DEF InsertCoin, Linked, Placed, Housed, NotYetCancelled, CancelsAreOpen, EntriesHaveTopups,
       FinalIsCount, ChannelDrained, Paid, Latest
  <2>4. CoinslotNotLeftOn'
    BY <1>1 DEF InsertCoin, CoinslotNotLeftOn, Accepting, Holding, Running
  <2>5. Alone'
    <3>1. \A n, c \in Nat : c <= n => c < n + 1
      OBVIOUS
    <3>2. coins \in Nat /\ counted \in Nat /\ coins' = coins + 1 /\ counted' = counted
      BY <1>1, Bounds DEF InsertCoin, TypeOK
    <3>3. counted <= coins => counted' <= coins' /\ counted' < coins'
      BY <3>1, <3>2
    <3> QED
      BY <1>1, <3>3 DEF InsertCoin, Alone, Holding, Running
  <2> QED
    BY <2>1, <2>2, <2>3, <2>4, <2>5 DEF IInv
<1>2. CASE Tick
  <2>1. TypeOK'
    BY SMTT(30), <1>2, Bounds DEF Tick, TypeOK
  <2>2. Linked' /\ Placed' /\ Housed' /\ Counted' /\ NotYetCancelled' /\ CancelsAreOpen' /\ EntriesHaveTopups'
        /\ CoinslotNotLeftOn' /\ Alone' /\ FinalIsCount' /\ ChannelDrained' /\ Paid'
    BY <1>2 DEF Tick, Linked, Placed, Housed, Counted, NotYetCancelled, CancelsAreOpen, EntriesHaveTopups,
       CoinslotNotLeftOn, Alone, Accepting, Holding, FinalIsCount, ChannelDrained, Paid, Running, Latest
  <2> QED
    BY <2>1, <2>2 DEF IInv
<1>3. CASE SetMaintenance
  <2>1. TypeOK'
    BY <1>3, Bounds DEF SetMaintenance, TypeOK
  <2>2. Linked' /\ Placed' /\ Housed' /\ Counted' /\ NotYetCancelled' /\ CancelsAreOpen' /\ EntriesHaveTopups'
        /\ CoinslotNotLeftOn' /\ Alone' /\ FinalIsCount' /\ ChannelDrained' /\ Paid'
    BY <1>3 DEF SetMaintenance, Linked, Placed, Housed, Counted, NotYetCancelled, CancelsAreOpen,
       EntriesHaveTopups,
       CoinslotNotLeftOn, Alone, Accepting, Holding, FinalIsCount, ChannelDrained, Paid, Running, Latest
  <2> QED
    BY <2>1, <2>2 DEF IInv
<1>4. CASE Crash
  <2>1. TypeOK'
    <3>1. h' \in [Topups -> HandlerSteps] /\ run' \in [Topups -> RunnerSteps] /\ str' \in [Topups -> StreamSteps]
      BY <1>4 DEF Crash, TypeOK, HandlerSteps, RunnerSteps, StreamSteps
    <3>2. chan' \in [Topups -> Seq(Results)] /\ \A t \in Topups : Len(chan'[t]) <= ChanCap
      BY <1>4, Bounds DEF Crash
    <3>3. canceller' \in [IPs -> [step : {"idle", "incr", "connect"}, dev : Devs \cup {None}]]
      BY <1>4 DEF Crash, NoCancel
    <3>4. sensor' \in [Pins -> {0, 1}] /\ faults' \in Nat /\ events' \in 0..MaxEvents
      BY <1>4, Bounds DEF Crash, TypeOK
    <3>5. last' \in [Topups -> Results] /\ creditDev' \in [Topups -> Devs \cup {None}]
      BY <1>4, Bounds DEF Crash, Results, Kinds, NoResult
    <3>6. cancels' \in [Devs -> Topups \cup {None}] /\ status' \in [Devs -> 0..MaxCoins \cup {None}]
          /\ cancelled' \in [Topups -> BOOLEAN] /\ busy' \in BOOLEAN /\ unread' \subseteq Topups
      BY <1>4 DEF Crash
    <3> QED
      BY <1>4, <3>1, <3>2, <3>3, <3>4, <3>5, <3>6 DEF Crash, TypeOK
  <2>2. Linked'
    BY <1>4 DEF Crash, Linked, TypeOK
  <2>3. Placed' /\ Housed'
    BY <1>4 DEF Crash, Placed, Housed, TypeOK, NoCancel
  <2>4. Counted'
    BY <1>4 DEF Crash, Counted, TypeOK
  <2>5. NotYetCancelled'
    BY <1>4 DEF Crash, NotYetCancelled, Linked, TypeOK
  <2>6. CancelsAreOpen'
    BY <1>4 DEF Crash, CancelsAreOpen, Linked, NotYetCancelled, EntriesHaveTopups, TypeOK
  <2>7. EntriesHaveTopups'
    BY <1>4 DEF Crash, EntriesHaveTopups, Linked, TypeOK
  <2>8. CoinslotNotLeftOn' /\ Alone'
    BY <1>4 DEF Crash, CoinslotNotLeftOn, Alone, Accepting, Holding, Running, TypeOK
  <2>9. FinalIsCount'
    BY <1>4 DEF Crash, FinalIsCount, Latest, Ended, Linked, Paid, TypeOK
  <2>10. ChannelDrained'
    BY <1>4 DEF Crash, ChannelDrained, TypeOK
  <2>11. Paid'
    <3>1. faults' > 0
      BY <1>4, Bounds DEF Crash, TypeOK
    <3>2. SUFFICES ASSUME NEW t \in Topups, str[t] # "none"
                   PROVE  /\ run'[t] = "closed" /\ str'[t] = "finished"
                          /\ credit[t] = count[t] \/ credit[t] = 0
      BY <1>4, <3>1 DEF Crash, Paid
    <3>3. run'[t] = "closed" /\ str'[t] = "finished"
      BY <1>4, <3>2 DEF Crash, Linked
    <3>4. credit[t] = count[t] \/ credit[t] = 0
      BY <3>2 DEF Paid, TypeOK, StreamSteps
    <3> QED
      BY <3>3, <3>4
  <2> QED
    BY <2>1, <2>2, <2>3, <2>4, <2>5, <2>6, <2>7, <2>8, <2>9, <2>10, <2>11 DEF IInv
<1>5. ASSUME NEW i \in IPs \cup {None}, NEW d \in Devs, Move(i, d) PROVE IInv'
  <2>1. TypeOK'
    <3>1. owner' \in [IPs -> Devs \cup {None}]
      BY <1>5 DEF Move, TypeOK
    <3>2. stranded' \subseteq Topups /\ events' \in 0..MaxEvents
      BY <1>5, Bounds DEF Move, TypeOK
    <3>3. topupCount' \in [Devs -> 0..MaxTries] /\ wait' \in [Devs -> 0..MaxTries]
      BY <1>5, Bounds DEF Move, TypeOK
    <3> QED
      BY <1>5, <3>1, <3>2, <3>3 DEF Move, TypeOK
  <2>2. Housed'
    BY <1>5, Bounds DEF Move, Housed, Placed
  <2>3. Paid'
    <3>1. stranded \subseteq stranded'
      BY <1>5 DEF Move
    <3> QED
      BY <1>5, <3>1 DEF Move, Paid
  <2>4. Linked' /\ Placed' /\ Counted' /\ NotYetCancelled' /\ CancelsAreOpen' /\ EntriesHaveTopups'
    BY <1>5 DEF Move, Linked, Placed, Counted, NotYetCancelled, CancelsAreOpen, EntriesHaveTopups
  <2>5. CoinslotNotLeftOn' /\ Alone' /\ FinalIsCount' /\ ChannelDrained'
    BY <1>5 DEF Move, CoinslotNotLeftOn, Alone, Accepting, Holding, FinalIsCount, ChannelDrained, Running,
       Latest
  <2> QED
    BY <2>1, <2>2, <2>3, <2>4, <2>5 DEF IInv
<1>6. ASSUME NEW p \in Pins, Reconfigure(p) PROVE IInv'
  <2>1. TypeOK'
    BY <1>6, Bounds DEF Reconfigure, TypeOK
  <2>2. CoinslotNotLeftOn' /\ Alone'
    BY <1>6 DEF Reconfigure, CoinslotNotLeftOn, Alone, Accepting, Holding, Running, TypeOK
  <2>3. Linked' /\ Placed' /\ Housed' /\ Counted' /\ NotYetCancelled' /\ CancelsAreOpen' /\ EntriesHaveTopups'
        /\ FinalIsCount' /\ ChannelDrained' /\ Paid'
    BY <1>6 DEF Reconfigure, Linked, Placed, Housed, Counted, NotYetCancelled, CancelsAreOpen,
       EntriesHaveTopups,
       FinalIsCount, ChannelDrained, Paid, Latest
  <2> QED
    BY <2>1, <2>2, <2>3 DEF IInv
<1> QED
  BY <1>1, <1>2, <1>3, <1>4, <1>5, <1>6 DEF Environment

LEMMA StepPreserves == IInv /\ [Next]_vars => IInv'
<1> SUFFICES ASSUME IInv, [Next]_vars PROVE IInv'
  OBVIOUS
<1>1. CASE UNCHANGED vars
  BY <1>1, Unmoved
<1>2. CASE Next
  BY <1>2, HandlerStep, RunnerStep, StreamStep, RequestStep, CancelStep, EnvironmentStep DEF Next
<1> QED
  BY <1>1, <1>2

\* The strengthened invariant holds of every behaviour.
THEOREM Inductive == Spec => []IInv
<1>1. Init => IInv
  BY InitEstablishes
<1>2. IInv /\ [Next]_vars => IInv'
  BY StepPreserves
<1> QED
  BY <1>1, <1>2, PTL DEF Spec

\* Every variable keeps its type: the result channel never holds more than its capacity
\* (whoever sends waits), the device a stream credits is a row the database found, and the
\* backoff saturates, for any number of topups and coins.
THEOREM TypeCorrect == Spec => []TypeOK
<1>1. IInv => TypeOK
  BY DEF IInv
<1> QED
  BY <1>1, Inductive, PTL

\* handleTopupCancel closes a channel of topupCancels at most once, so it never panics: however
\* many topups of a device overlap, an entry is closed and deleted together or belongs to
\* a topup nobody has cancelled.
THEOREM CancelsStayOpen == Spec => []CancelsAreOpen
<1>1. IInv => CancelsAreOpen
  BY DEF IInv
<1> QED
  BY <1>1, Inductive, PTL

\* The entries of topupCancels and topupStatus that handleTopup writes are gone when the
\* topups of the device are: the stream deletes them on every way out.
THEOREM NoEntryOutlivesTopups == Spec => []EntriesHaveTopups
<1>1. IInv => EntriesHaveTopups
  BY DEF IInv
<1> QED
  BY <1>1, Inductive, PTL

\* RunTopup's deferred calls leave no busy flag set and the current pin not high without a
\* runner, for any number of overlapping runners and changes of pins; and as long as no two
\* topups have overlapped, no pin that ever was the acceptor's either.
THEOREM AcceptorNotLeftOn == Spec => []CoinslotNotLeftOn
<1>1. IInv => CoinslotNotLeftOn
  BY DEF IInv
<1> QED
  BY <1>1, Inductive, PTL

\* The stream credits the final count of its runner, once, unless a statement failed, the
\* program died, or DHCP left the topup's address without a device before it ended; runners
\* that do not overlap never count more coins than went in, all together.
THEOREM SettledOnce == Spec => []SettledExactly
<1>1. IInv => SettledExactly
  <2> SUFFICES ASSUME IInv
               PROVE  SettledExactly
    OBVIOUS
  <2>1. ASSUME NEW t \in Topups
        PROVE  /\ count[t] <= coins
               /\ credit[t] \in {0, count[t]}
               /\ str[t] = "finished" /\ faults = 0 /\ t \notin stranded => credit[t] = count[t]
    <3>1. count[t] <= coins
      BY DEF IInv, Counted
    <3>2. str[t] \in StreamSteps
      BY DEF IInv, TypeOK
    <3>3. credit[t] \in {0, count[t]}
      BY <3>2 DEF IInv, Paid, StreamSteps
    <3>4. str[t] = "finished" /\ faults = 0 /\ t \notin stranded => credit[t] = count[t]
      BY DEF IInv, Paid
    <3> QED
      BY <3>1, <3>3, <3>4
  <2>2. overlapped \/ counted <= coins
    BY DEF IInv, Alone
  <2> QED
    BY <2>1, <2>2 DEF SettledExactly
<1> QED
  BY <1>1, Inductive, PTL
=============================================================================
