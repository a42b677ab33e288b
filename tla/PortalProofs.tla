---------------------------- MODULE PortalProofs ----------------------------
(***************************************************************************)
(* Safety of who is online, for any number of clients, addresses, requests *)
(* at a time, sessions and crashes.                                        *)
(*                                                                         *)
(* Three arguments.  The types, of which the one that is not local says    *)
(* that no id is out of range because a MAC has one row.  The rows: of     *)
(* each address a MAC can have, either the row shows it or the watcher is  *)
(* still to see that it is not what it knows (Stale).  The grants: the     *)
(* first grant of a window leaves a free session that every later check    *)
(* finds (Seen), so only requests that had passed the check before it      *)
(* (Granting) can grant again.                                             *)
(***************************************************************************)
EXTENDS Portal, FiniteSetTheorems, SequenceTheorems, TLAPS

\* Rows.
Devices == [mac : Macs \cup IPs, ip : IPs \cup {None}]
Sessions == [dev : Ids, free : BOOLEAN, limit : Int, used : Int, at : 0..MaxClock]

\* devices.mac is UNIQUE; so there is a row for each address and MAC at most, and ids are bounded.
OneRowPerMac(rows) == \A d, e \in DOMAIN rows : rows[d].mac = rows[e].mac => d = e

\* The order of last_seen lists every row once.
StoreOK ==
  /\ devices \in Seq(Devices) /\ OneRowPerMac(devices)
  /\ order \in Seq(DOMAIN devices) /\ Len(order) = Len(devices)
  /\ \A d \in DOMAIN devices : \E k \in DOMAIN order : order[k] = d
  /\ sessions \in Seq(Sessions) /\ Len(sessions) <= MaxSessions
  /\ lastId \in Ids

\* What a handler can be about to do.
Asking ==
  [op : {"connect", "credit", "cancel", "share", "merge"}, ip : IPs, dev : Ids, to : Ids, mode : Modes,
   since : 0..MaxClock,
   step : {"upsert", "begin", "usage", "grant", "already", "deduct", "credit", "address"}]
Adding == [op : {"connect"}, step : {"add"}, dev : Ids, ip : IPs]
Switching == [step : {"open", "close"}, ip : IPs]
Managing == [op : {"addSession", "block", "clear", "delSession"}, dev : Ids, step : {"begin", "usage", "address"}]
Maintaining == [op : {"maintenance"}, step : {"begin"}]
Sweeping == [step : {"sweep"}, todo : SUBSET IPs]
HandlerStates ==
  Asking \cup Adding \cup Switching \cup Managing \cup Maintaining \cup [step : {"devices"}]
    \cup Sweeping \cup {Idle}

\* A request that looks for the address of a row has a row.
HasRow(x) ==
  /\ x.step = "address" \/ x \in Managing => x.dev \in DOMAIN devices
  /\ x.step \in {"deduct", "credit"} => x.to \in DOMAIN devices

\* The handlers, the two loops, and the rest.
HandlersOK ==
  /\ handler \in [Handlers -> HandlerStates]
  /\ \A h \in Handlers : HasRow(handler[h])

LeaseMap == [Macs -> IPs \cup {None}]
Watching == [step : {"next", "act", "reconnect"}, lockdown : BOOLEAN, snap : LeaseMap, todo : SUBSET Macs,
             mac : Macs \cup {None}, dev : Ids]

WatcherOK ==
  /\ prevLeases \in LeaseMap
  /\ watcher \in {Idle} \cup Watching
  /\ watcher # Idle => \A m \in watcher.todo : watcher.snap[m] # None
  /\ watcher.step \in {"act", "reconnect"} => watcher.mac \in Macs /\ watcher.snap[watcher.mac] # None

Polling == [step : {"next", "charge", "check", "remove"}, todo : SUBSET IPs,
            counters : [IPs -> 0..MaxTraffic], ip : IPs \cup {None}, dev : Ids]

PollerOK ==
  /\ poller \in {Idle} \cup Polling
  /\ poller.step \in {"charge", "check", "remove"} => poller.ip \in IPs

WorldOK ==
  /\ connected \subseteq IPs /\ pending \in [IPs -> 0..MaxTraffic]
  /\ maintenance \in [mode : Modes, enabledAt : 0..MaxClock]
  /\ now \in 0..MaxClock /\ events \in 0..MaxEvents
  /\ address \in LeaseMap /\ cache \in LeaseMap

GrantsOK == grants \in [Ids -> Nat] /\ \A d \in Ids : grants[d] <= Len(sessions)

TypeInv == StoreOK /\ HandlersOK /\ WatcherOK /\ PollerOK /\ WorldOK /\ GrantsOK

\* The row of m shows v; the watcher is still to see that v is not what it knows.
Shows(m, v) == GetDeviceIDByMAC(m) # NoDevice /\ devices[GetDeviceIDByMAC(m)].ip = v
Stale(m, v) ==
  IF watcher = Idle THEN prevLeases[m] # v
  ELSE watcher.snap[m] # v \/ (m \in watcher.todo /\ prevLeases[m] # v)

\* A row shows the address of a lease the watcher has seen, or the watcher is still to write it.
RowInv ==
  \A m \in Macs, v \in IPs : (HookMode => address[m] = v) => Shows(m, v) \/ Stale(m, v)

\* Who has found no session of the window and is about to add one.
Granting(d) == {h \in Handlers : handler[h].step = "add" /\ handler[h].dev = d}

\* A session that every check of this window finds, those under way included.
Found(x) ==
  /\ x.free /\ x.at >= maintenance.enabledAt
  /\ \A h \in Handlers : handler[h].step = "already" => x.at >= handler[h].since
Seen(d) == \E s \in SessionsOf(d) : Found(sessions[s])

\* Once a window has a grant every check finds it: grants and those about to be given
\* are no more than the handlers that can have checked before.
GrantInv ==
  /\ maintenance.enabledAt <= now
  /\ \A h \in Handlers : handler[h].step = "already" => handler[h].since <= now
  /\ \A d \in Ids : grants[d] >= 1 => Seen(d)
  /\ \A d \in Ids : grants[d] + Cardinality(Granting(d)) <= Cardinality(Handlers)

-----------------------------------------------------------------------------
(* The statements of Store.                                                *)

LEMMA Assumed ==
  /\ IPs \cap Macs = {} /\ None \notin IPs \cup Macs
  /\ IsFiniteSet(Macs) /\ IsFiniteSet(IPs) /\ IsFiniteSet(Handlers)
  /\ Known \in Seq(Macs) /\ IsInjective(Known) /\ HookMode \in BOOLEAN
  /\ PaidMB \in Nat /\ FreeMB \in Nat /\ ShareMB \in Nat
  /\ MaxTraffic \in Nat /\ MaxSessions \in Nat /\ MaxEvents \in Nat /\ MaxClock \in Nat
<1> QED
  BY PortalAssumption

\* Ids are numbers up to a natural number, and rows find room below it.
LEMMA IdBound ==
  /\ Cardinality(Macs) \in Nat /\ Cardinality(IPs) \in Nat
  /\ Ids = 0..(Cardinality(Macs) + Cardinality(IPs) + MaxSessions)
<1> QED
  BY Assumed, FS_CardinalityType DEF Ids

LEMMA RowsFit ==
  ASSUME NEW rows \in Seq(Devices), OneRowPerMac(rows)
  PROVE  Len(rows) <= Cardinality(Macs) + Cardinality(IPs)
<1> DEFINE f == [d \in 1..Len(rows) |-> rows[d].mac]
           T == Macs \cup IPs
<1>1. DOMAIN rows = 1..Len(rows) /\ Len(rows) \in Nat
  BY LenProperties
<1>2. f \in Injection(1..Len(rows), T)
  <2>1. \A d \in 1..Len(rows) : rows[d] \in Devices
    BY ElementOfSeq
  <2>2. f \in [1..Len(rows) -> T]
    BY <2>1 DEF Devices
  <2>3. IsInjective(f)
    BY <1>1 DEF IsInjective, OneRowPerMac
  <2> QED
    BY <2>2, <2>3 DEF Injection
<1>3. IsFiniteSet(T) /\ Cardinality(T) = Cardinality(Macs) + Cardinality(IPs) - Cardinality(Macs \cap IPs)
  BY Assumed, FS_Union
<1>4. Cardinality(1..Len(rows)) <= Cardinality(T)
  <2> HIDE DEF f, T
  <2> QED
    BY <1>2, <1>3, FS_Injection
<1>5. Cardinality(1..Len(rows)) = Len(rows)
  BY <1>1, FS_Interval
<1>6. Cardinality(Macs \cap IPs) \in Nat
  BY Assumed, FS_Intersection, FS_CardinalityType
<1> HIDE DEF T
<1> QED
  BY <1>1, <1>3, <1>4, <1>5, <1>6, IdBound

LEMMA Rows ==
  ASSUME StoreOK
  PROVE  /\ DOMAIN devices = 1..Len(devices) /\ Len(devices) \in Nat
         /\ \A d \in DOMAIN devices : devices[d] \in Devices
         /\ DOMAIN order = 1..Len(devices) /\ \A k \in DOMAIN order : order[k] \in DOMAIN devices
         /\ DOMAIN sessions = 1..Len(sessions) /\ Len(sessions) \in Nat
         /\ \A s \in DOMAIN sessions : sessions[s] \in Sessions
         /\ DOMAIN devices \subseteq Ids /\ NoDevice \in Ids /\ NoDevice \notin DOMAIN devices
<1>1. devices \in Seq(Devices) /\ order \in Seq(DOMAIN devices) /\ sessions \in Seq(Sessions)
      /\ Len(order) = Len(devices) /\ OneRowPerMac(devices)
  BY DEF StoreOK
<1>2. DOMAIN devices = 1..Len(devices) /\ Len(devices) \in Nat /\ \A d \in DOMAIN devices : devices[d] \in Devices
  BY <1>1, LenProperties, ElementOfSeq
<1>3. DOMAIN order = 1..Len(order) /\ \A k \in DOMAIN order : order[k] \in DOMAIN devices
  BY <1>1, LenProperties, ElementOfSeq
<1>4. DOMAIN sessions = 1..Len(sessions) /\ Len(sessions) \in Nat /\ \A s \in DOMAIN sessions : sessions[s] \in Sessions
  BY <1>1, LenProperties, ElementOfSeq
<1>5. Len(devices) <= Cardinality(Macs) + Cardinality(IPs)
  BY <1>1, RowsFit
<1>6. DOMAIN devices \subseteq Ids /\ NoDevice \in Ids /\ NoDevice \notin DOMAIN devices
  <2>1. Len(devices) \in Nat /\ DOMAIN devices = 1..Len(devices)
    BY <1>2
  <2> QED
    BY <1>5, <2>1, IdBound, Assumed DEF NoDevice
<1>7. DOMAIN order = 1..Len(devices)
  BY <1>1, <1>3
<1> QED
  BY <1>2, <1>3, <1>4, <1>6, <1>7

\* The row of a MAC.
LEMMA RowOfMac ==
  ASSUME StoreOK, NEW m
  PROVE  LET id == GetDeviceIDByMAC(m) IN
         /\ id \in DOMAIN devices \cup {NoDevice} /\ id \in Ids
         /\ id # NoDevice => devices[id].mac = m
         /\ \A d \in DOMAIN devices : devices[d].mac = m => id = d
<1>1. NoDevice \notin DOMAIN devices /\ DOMAIN devices \subseteq Ids /\ NoDevice \in Ids
  BY Rows
<1>2. \A d, e \in DOMAIN devices : devices[d].mac = m /\ devices[e].mac = m => d = e
  BY DEF StoreOK, OneRowPerMac
<1> DEFINE rows == {d \in DOMAIN devices : devices[d].mac = m}
<1>3. CASE rows = {}
  BY <1>1, <1>3 DEF GetDeviceIDByMAC
<1>4. CASE rows # {}
  <2>1. (CHOOSE d \in rows : TRUE) \in rows
    BY <1>4
  <2>2. GetDeviceIDByMAC(m) = CHOOSE d \in rows : TRUE
    BY <1>4 DEF GetDeviceIDByMAC
  <2>3. GetDeviceIDByMAC(m) \in DOMAIN devices /\ devices[GetDeviceIDByMAC(m)].mac = m
    BY <2>1, <2>2
  <2> QED
    BY <1>1, <1>2, <2>3
<1> QED
  BY <1>3, <1>4

\* A set of positions has a greatest one.
LEMMA Greatest ==
  ASSUME NEW n \in Nat, NEW S, S \subseteq 1..n, S # {}
  PROVE  Max(S) \in S
<1> DEFINE T == {n - k : k \in S}
           R == OpToRel(<, Nat)
<1>1. T \subseteq Nat /\ T # {}
  <2>1. \A k \in S : n - k \in Nat
    OBVIOUS
  <2>2. PICK k \in S : TRUE
    OBVIOUS
  <2> QED
    BY <2>1, <2>2
<1>2. PICK x \in T : \A y \in T : <<y, x>> \notin R
  <2> HIDE DEF R, T
  <2>1. IsWellFoundedOn(R, Nat)
    BY NatLessThanWellFounded DEF R
  <2> QED
    BY <1>1, <2>1, WFMin
<1>3. \A y \in T : ~(y < x)
  BY <1>1, <1>2 DEF OpToRel
<1>4. PICK k \in S : x = n - k
  BY <1>2
<1>5. \A j \in S : k >= j
  <2> TAKE j \in S
  <2>1. n - j \in T
    OBVIOUS
  <2>2. ~(n - j < n - k)
    BY <1>3, <1>4, <2>1
  <2> QED
    BY <2>2
<1> QED
  BY <1>4, <1>5 DEF Max

LEMMA RowOfIP ==
  ASSUME StoreOK, NEW i
  PROVE  GetDeviceIDByIP(i) \in DOMAIN devices \cup {NoDevice} /\ GetDeviceIDByIP(i) \in Ids
<1> DEFINE at == {k \in DOMAIN order : devices[order[k]].ip = i}
<1>1. Len(devices) \in Nat /\ DOMAIN order = 1..Len(devices) /\ \A k \in DOMAIN order : order[k] \in DOMAIN devices
  BY Rows
<1>2. at # {} => Max(at) \in at
  <2> SUFFICES ASSUME at # {} PROVE Max(at) \in at
    OBVIOUS
  <2>1. at \subseteq 1..Len(devices)
    BY <1>1
  <2> HIDE DEF at
  <2> QED
    BY <1>1, <2>1, Greatest
<1>3. at # {} => order[Max(at)] \in DOMAIN devices
  BY <1>1, <1>2
<1>4. GetDeviceIDByIP(i) = IF at = {} THEN NoDevice ELSE order[Max(at)]
  BY DEF GetDeviceIDByIP
<1> HIDE DEF at
<1> QED
  BY <1>3, <1>4, Rows

\* Moving an id to the end of the order.
LEMMA Touched ==
  ASSUME StoreOK, NEW d \in DOMAIN devices
  PROVE  LET moved == Append(RemoveAt(order, Position(d)), d) IN
         /\ moved \in Seq(DOMAIN devices) /\ Len(moved) = Len(devices)
         /\ \A e \in DOMAIN devices : \E k \in DOMAIN moved : moved[k] = e
<1> DEFINE p == Position(d)
           n == Len(devices)
           D == DOMAIN devices
           before == SubSeq(order, 1, p - 1)
           after == SubSeq(order, p + 1, n)
           rest == before \o after
           moved == Append(rest, d)
<1>1. /\ n \in Nat /\ DOMAIN order = 1..n /\ Len(order) = n
      /\ \A k \in 1..n : order[k] \in D
      /\ \A e \in D : \E k \in 1..n : order[k] = e
  BY Rows DEF StoreOK
<1>2. p \in 1..n /\ order[p] = d
  BY <1>1 DEF Position
<1> HIDE DEF p, n, D
<1>3. /\ before \in Seq(D) /\ Len(before) = p - 1
      /\ \A i \in 1..(p - 1) : before[i] = order[i]
  <2>1. \A i \in 1..(p - 1) : order[i] \in D
    BY <1>1, <1>2
  <2>2. p - 1 \in Int /\ 1 \in Int
    BY <1>1, <1>2
  <2>3. /\ before \in Seq(D) /\ Len(before) = IF 1 <= p - 1 THEN p - 1 - 1 + 1 ELSE 0
        /\ \A i \in 1..(p - 1 - 1 + 1) : before[i] = order[1 + i - 1]
    BY <2>1, <2>2, SubSeqProperties
  <2> HIDE DEF before
  <2> QED
    BY <1>1, <1>2, <2>3
<1>4. /\ after \in Seq(D) /\ Len(after) = n - p
      /\ \A i \in 1..(n - p) : after[i] = order[p + i]
  <2>1. \A i \in (p + 1)..n : order[i] \in D
    BY <1>1, <1>2
  <2>2. p + 1 \in Int /\ n \in Int
    BY <1>1, <1>2
  <2>3. /\ after \in Seq(D) /\ Len(after) = IF p + 1 <= n THEN n - (p + 1) + 1 ELSE 0
        /\ \A i \in 1..(n - (p + 1) + 1) : after[i] = order[(p + 1) + i - 1]
    BY <2>1, <2>2, SubSeqProperties
  <2> HIDE DEF after
  <2>4. Len(after) = n - p
    BY <1>1, <1>2, <2>3
  <2>5. ASSUME NEW i \in 1..(n - p) PROVE after[i] = order[p + i]
    <3>1. i \in 1..(n - (p + 1) + 1) /\ (p + 1) + i - 1 = p + i
      BY <1>1, <1>2
    <3> QED
      BY <2>3, <3>1
  <2> QED
    BY <2>3, <2>4, <2>5
<1> HIDE DEF before, after
<1>5. /\ rest \in Seq(D) /\ Len(rest) = n - 1
      /\ \A i \in 1..(n - 1) : rest[i] = IF i <= p - 1 THEN order[i] ELSE order[i + 1]
  <2>1. /\ rest \in Seq(D) /\ Len(rest) = Len(before) + Len(after)
        /\ \A i \in 1..(Len(before) + Len(after)) :
             rest[i] = IF i <= Len(before) THEN before[i] ELSE after[i - Len(before)]
    BY <1>3, <1>4, ConcatProperties
  <2>2. Len(before) + Len(after) = n - 1
    BY <1>1, <1>2, <1>3, <1>4
  <2> HIDE DEF rest
  <2>3. ASSUME NEW i \in 1..(n - 1) PROVE rest[i] = IF i <= p - 1 THEN order[i] ELSE order[i + 1]
    <3>1. rest[i] = IF i <= p - 1 THEN before[i] ELSE after[i - (p - 1)]
      BY <1>3, <2>1, <2>2
    <3>2. CASE i <= p - 1
      <4>1. i \in 1..(p - 1)
        BY <1>1, <1>2, <3>2
      <4> QED
        BY <1>3, <3>1, <3>2, <4>1
    <3>3. CASE ~(i <= p - 1)
      <4>1. i - (p - 1) \in 1..(n - p) /\ p + (i - (p - 1)) = i + 1
        BY <1>1, <1>2, <3>3
      <4>2. after[i - (p - 1)] = order[i + 1]
        BY <1>4, <4>1
      <4> QED
        BY <3>1, <3>3, <4>2
    <3> QED
      BY <3>2, <3>3
  <2> QED
    BY <2>1, <2>2, <2>3
<1> HIDE DEF rest
<1>6. /\ moved \in Seq(D) /\ Len(moved) = n
      /\ \A i \in 1..(n - 1) : moved[i] = rest[i]
      /\ moved[n] = d /\ DOMAIN moved = 1..n
  <2>1. d \in D
    BY DEF D
  <2>2. /\ moved \in Seq(D) /\ Len(moved) = Len(rest) + 1
        /\ \A i \in 1..Len(rest) : moved[i] = rest[i]
        /\ moved[Len(rest) + 1] = d
    BY <1>5, <2>1, AppendProperties
  <2> HIDE DEF moved
  <2>3. Len(rest) + 1 = n
    BY <1>1, <1>5
  <2>4. DOMAIN moved = 1..Len(moved)
    BY <2>2, LenProperties
  <2> QED
    BY <1>5, <2>2, <2>3, <2>4
<1> HIDE DEF moved
<1>7. ASSUME NEW e \in D PROVE \E k \in DOMAIN moved : moved[k] = e
  <2> PICK k \in 1..n : order[k] = e
    BY <1>1
  <2>1. CASE k < p
    <3>1. k \in 1..(n - 1) /\ k <= p - 1
      BY <1>1, <1>2, <2>1
    <3> QED
      BY <1>5, <1>6, <3>1
  <2>2. CASE k = p
    BY <1>1, <1>2, <1>6, <2>2
  <2>3. CASE k > p
    <3>1. k - 1 \in 1..(n - 1) /\ ~(k - 1 <= p - 1) /\ (k - 1) + 1 = k
      BY <1>1, <1>2, <2>3
    <3> QED
      BY <1>5, <1>6, <3>1
  <2> QED
    BY <1>1, <1>2, <2>1, <2>2, <2>3
<1> QED
  BY <1>1, <1>6, <1>7 DEF moved, rest, before, after, D, n, p, RemoveAt

\* The id of a MAC depends on the set of its rows only.
AnyRow(rows) == IF rows = {} THEN NoDevice ELSE CHOOSE d \in rows : TRUE

LEMMA IdOfRows ==
  ASSUME NEW m
  PROVE  /\ GetDeviceIDByMAC(m) = AnyRow({d \in DOMAIN devices : devices[d].mac = m})
         /\ GetDeviceIDByMAC(m)' = AnyRow({d \in DOMAIN devices' : devices'[d].mac = m})
<1> QED
  BY Zenon DEF GetDeviceIDByMAC, AnyRow

LEMMA AnyOfOne == \A d : AnyRow({d}) = d
<1> QED
  BY Zenon DEF AnyRow

\* INSERT ... ON CONFLICT: one row per MAC, and no other MAC's row changes.
LEMMA Upserted ==
  ASSUME StoreOK, NEW m \in Macs \cup IPs, NEW i \in IPs \cup {None}, UpsertDevice(m, i)
  PROVE  /\ StoreOK'
         /\ DOMAIN devices \subseteq DOMAIN devices'
         /\ Shows(m, i)'
         /\ \A o \in Macs, v \in IPs : o # m => (Shows(o, v)' <=> Shows(o, v))
         /\ UpsertedId(m) \in Ids
         /\ sessions' = sessions
<1> DEFINE old == GetDeviceIDByMAC(m)
           row == [mac |-> m, ip |-> i]
<1>1. /\ DOMAIN devices = 1..Len(devices) /\ Len(devices) \in Nat
      /\ \A d \in DOMAIN devices : devices[d] \in Devices
      /\ DOMAIN order = 1..Len(devices) /\ \A k \in DOMAIN order : order[k] \in DOMAIN devices
      /\ NoDevice \notin DOMAIN devices
      /\ devices \in Seq(Devices) /\ order \in Seq(DOMAIN devices) /\ Len(order) = Len(devices)
      /\ \A d \in DOMAIN devices : \E k \in DOMAIN order : order[k] = d
      /\ OneRowPerMac(devices) /\ lastId \in Ids
  BY Rows DEF StoreOK
<1>2. /\ old \in DOMAIN devices \cup {NoDevice}
      /\ old # NoDevice => devices[old].mac = m
      /\ \A d \in DOMAIN devices : devices[d].mac = m => old = d
  BY RowOfMac
<1>3. row \in Devices /\ row.mac = m /\ row.ip = i
  BY DEF Devices
<1>4. sessions' = sessions
  BY DEF UpsertDevice
<1> HIDE DEF row, old
<1>5. CASE old = NoDevice
  <2>1. devices' = Append(devices, row) /\ order' = Append(order, Len(devices) + 1) /\ lastId' = Len(devices) + 1
    BY <1>5 DEF UpsertDevice, row, old
  <2>2. /\ devices' \in Seq(Devices) /\ Len(devices') = Len(devices) + 1
        /\ \A d \in DOMAIN devices : devices'[d] = devices[d]
        /\ devices'[Len(devices) + 1] = row
    BY <1>1, <1>3, <2>1, AppendProperties
  <2>3. DOMAIN devices' = DOMAIN devices \cup {Len(devices) + 1} /\ Len(devices) + 1 \notin DOMAIN devices
    <3>1. DOMAIN devices' = 1..(Len(devices) + 1)
      BY <2>2, LenProperties
    <3> QED
      BY <1>1, <3>1
  <2>4. OneRowPerMac(devices')
    <3>1. \A d \in DOMAIN devices : devices[d].mac # m
      BY <1>1, <1>2, <1>5
    <3> QED
      BY <1>1, <1>3, <2>2, <2>3, <3>1 DEF OneRowPerMac
  <2>5. Len(devices) + 1 \in Ids /\ Len(devices) + 1 # NoDevice
    <3>1. Len(devices') <= Cardinality(Macs) + Cardinality(IPs)
      BY <2>2, <2>4, RowsFit
    <3> QED
      BY <1>1, <2>2, <3>1, IdBound, Assumed DEF NoDevice
  <2>6. /\ order' \in Seq(DOMAIN devices') /\ Len(order') = Len(devices')
        /\ \A d \in DOMAIN devices' : \E k \in DOMAIN order' : order'[k] = d
    <3>1. order \in Seq(DOMAIN devices') /\ Len(devices) + 1 \in DOMAIN devices'
      BY <1>1, <2>3, SeqMonotonic
    <3>2. /\ order' \in Seq(DOMAIN devices') /\ Len(order') = Len(devices) + 1
          /\ \A k \in DOMAIN order : order'[k] = order[k]
          /\ order'[Len(devices) + 1] = Len(devices) + 1
      BY <1>1, <2>1, <3>1, AppendProperties
    <3>3. DOMAIN order' = 1..(Len(devices) + 1)
      BY <3>2, LenProperties
    <3>4. DOMAIN order \subseteq DOMAIN order' /\ Len(devices) + 1 \in DOMAIN order'
      BY <1>1, <3>3
    <3> QED
      BY <1>1, <2>2, <2>3, <3>2, <3>4
  <2>7. StoreOK'
    BY <1>4, <2>1, <2>2, <2>4, <2>5, <2>6 DEF StoreOK
  <2>8. GetDeviceIDByMAC(m)' = Len(devices) + 1
    <3>1. {d \in DOMAIN devices' : devices'[d].mac = m} = {Len(devices) + 1}
      <4>1. \A d \in DOMAIN devices : devices'[d].mac # m
        BY <1>1, <1>2, <1>5, <2>2
      <4>2. devices'[Len(devices) + 1].mac = m
        BY <1>3, <2>2
      <4> QED
        BY <2>3, <4>1, <4>2
    <3> QED
      BY <3>1, IdOfRows, AnyOfOne
  <2>9. ASSUME NEW o \in Macs, o # m
        PROVE  GetDeviceIDByMAC(o)' = GetDeviceIDByMAC(o)
    <3>1. {d \in DOMAIN devices' : devices'[d].mac = o} = {d \in DOMAIN devices : devices[d].mac = o}
      BY <1>3, <2>2, <2>3, <2>9
    <3> QED
      BY <3>1, IdOfRows
  <2>10. UpsertedId(m) \in Ids
    BY <1>5, <2>5 DEF UpsertedId, old
  <2>11. Shows(m, i)'
    BY <1>3, <2>2, <2>5, <2>8 DEF Shows
  <2>12. ASSUME NEW o \in Macs, NEW v \in IPs, o # m PROVE Shows(o, v)' <=> Shows(o, v)
    <3>1. GetDeviceIDByMAC(o) # NoDevice => GetDeviceIDByMAC(o) \in DOMAIN devices
      BY RowOfMac
    <3>2. GetDeviceIDByMAC(o) # NoDevice => devices'[GetDeviceIDByMAC(o)] = devices[GetDeviceIDByMAC(o)]
      BY <2>2, <3>1
    <3> QED
      BY <2>9, <2>12, <3>2 DEF Shows
  <2> QED
    BY <1>4, <2>3, <2>7, <2>10, <2>11, <2>12
<1>6. CASE old # NoDevice
  <2>1. /\ devices' = [devices EXCEPT ![old].ip = i] /\ lastId' = lastId
        /\ order' = Append(RemoveAt(order, Position(old)), old)
    BY <1>6 DEF UpsertDevice, old
  <2>2. old \in DOMAIN devices /\ devices[old] \in Devices /\ devices[old].mac = m
    BY <1>1, <1>2, <1>6
  <2>3. devices' = [devices EXCEPT ![old] = row]
    <3>1. [devices[old] EXCEPT !.ip = i] = row
      BY <2>2 DEF Devices, row
    <3> QED
      BY <2>1, <2>2, <3>1
  <2>4. /\ devices' \in Seq(Devices) /\ Len(devices') = Len(devices)
        /\ \A d \in DOMAIN devices : devices'[d] = IF d = old THEN row ELSE devices[d]
    BY <1>1, <1>3, <2>2, <2>3, ExceptSeq
  <2>5. DOMAIN devices' = DOMAIN devices
    BY <2>3
  <2>6. \A d \in DOMAIN devices : devices'[d].mac = devices[d].mac
    BY <1>3, <2>2, <2>4
  <2>7. OneRowPerMac(devices')
    BY <1>1, <2>5, <2>6 DEF OneRowPerMac
  <2>8. /\ order' \in Seq(DOMAIN devices') /\ Len(order') = Len(devices')
        /\ \A d \in DOMAIN devices' : \E k \in DOMAIN order' : order'[k] = d
    BY <2>1, <2>2, <2>4, <2>5, Touched
  <2>9. StoreOK'
    BY <1>1, <1>4, <2>1, <2>4, <2>7, <2>8 DEF StoreOK
  <2>10. ASSUME NEW o PROVE GetDeviceIDByMAC(o)' = GetDeviceIDByMAC(o)
    <3>1. {d \in DOMAIN devices' : devices'[d].mac = o} = {d \in DOMAIN devices : devices[d].mac = o}
      BY <2>5, <2>6
    <3> QED
      BY <3>1, IdOfRows
  <2>11. UpsertedId(m) \in Ids
    BY <1>1, <1>6 DEF UpsertedId, old
  <2>12. Shows(m, i)'
    BY <1>3, <1>6, <2>2, <2>4, <2>10 DEF Shows, old
  <2>13. ASSUME NEW o \in Macs, NEW v \in IPs, o # m PROVE Shows(o, v)' <=> Shows(o, v)
    <3>1. GetDeviceIDByMAC(o) # NoDevice => GetDeviceIDByMAC(o) \in DOMAIN devices /\ devices[GetDeviceIDByMAC(o)].mac = o
      BY RowOfMac
    <3>2. GetDeviceIDByMAC(o) # NoDevice => devices'[GetDeviceIDByMAC(o)] = devices[GetDeviceIDByMAC(o)]
      BY <2>2, <2>4, <2>13, <3>1
    <3> QED
      BY <2>10, <3>2 DEF Shows
  <2> QED
    BY <1>4, <2>5, <2>9, <2>11, <2>12, <2>13
<1> QED
  BY <1>5, <1>6

\* The sessions of d keep what the checks of grants look at.
Kept(d) ==
  \A s \in SessionsOf(d) :
    /\ s \in DOMAIN sessions' /\ sessions'[s].dev = d
    /\ sessions'[s].free = sessions[s].free /\ sessions'[s].at = sessions[s].at

LEMMA SessionAdded ==
  ASSUME StoreOK, NEW d \in Ids, NEW free \in BOOLEAN, NEW mb \in Nat, NEW t \in 0..MaxClock,
         RoomForSession, AddSession(d, free, mb, t)
  PROVE  /\ StoreOK' /\ devices' = devices
         /\ Len(sessions') = Len(sessions) + 1
         /\ \A e : Kept(e)
         /\ Len(sessions') \in SessionsOf(d)' /\ sessions'[Len(sessions')].free = free
         /\ sessions'[Len(sessions')].at = t
<1> DEFINE row == [dev |-> d, free |-> free, limit |-> mb, used |-> 0, at |-> t]
<1>1. row \in Sessions
  BY DEF Sessions
<1>2. /\ DOMAIN sessions = 1..Len(sessions) /\ Len(sessions) \in Nat /\ sessions \in Seq(Sessions)
      /\ Len(sessions) < MaxSessions /\ devices' = devices /\ order' = order /\ lastId' = Len(sessions) + 1
      /\ sessions' = Append(sessions, row)
  BY Rows DEF StoreOK, RoomForSession, AddSession
<1>3. /\ sessions' \in Seq(Sessions) /\ Len(sessions') = Len(sessions) + 1
      /\ \A s \in 1..Len(sessions) : sessions'[s] = sessions[s]
      /\ sessions'[Len(sessions) + 1] = row
  <2> HIDE DEF row
  <2> QED
    BY <1>1, <1>2, AppendProperties
<1>4. DOMAIN sessions' = 1..(Len(sessions) + 1)
  BY <1>3, LenProperties
<1>5. Len(sessions) + 1 <= MaxSessions /\ Len(sessions) + 1 \in Ids
  BY <1>2, IdBound, Assumed
<1>6. StoreOK'
  BY <1>2, <1>3, <1>5 DEF StoreOK
<1>7. \A e : Kept(e)
  BY <1>2, <1>3, <1>4 DEF Kept, SessionsOf
<1>8. Len(sessions') \in SessionsOf(d)'
  BY <1>2, <1>3, <1>4 DEF SessionsOf
<1> QED
  BY <1>2, <1>3, <1>6, <1>7, <1>8

\* A statement that changes rows of sessions in place.
LEMMA SessionsRewritten ==
  ASSUME StoreOK, NEW f, sessions' = f, DOMAIN f = DOMAIN sessions,
         \A s \in DOMAIN sessions : f[s] \in Sessions,
         f = [s \in DOMAIN sessions |-> f[s]],
         UNCHANGED <<devices, order, lastId>>
  PROVE  StoreOK' /\ Len(sessions') = Len(sessions)
<1>1. DOMAIN sessions = 1..Len(sessions) /\ Len(sessions) \in Nat
  BY Rows
<1>2. f \in [1..Len(sessions) -> Sessions]
  BY <1>1
<1>3. f \in Seq(Sessions) /\ Len(f) = Len(sessions)
  BY <1>1, <1>2
<1> QED
  BY <1>3 DEF StoreOK

LEMMA UsageCharged ==
  ASSUME StoreOK, NEW d, NEW mb \in Int, UpdateMBUsed(d, mb)
  PROVE  StoreOK' /\ devices' = devices /\ Len(sessions') = Len(sessions) /\ \A e : Kept(e)
<1>1. CASE OpenSessions(d) = {}
  BY <1>1 DEF UpdateMBUsed, StoreOK, Kept, SessionsOf
<1>2. CASE OpenSessions(d) # {}
  <2>1. PICK k : k = Min(OpenSessions(d))
    OBVIOUS
  <2>2. sessions' = [sessions EXCEPT ![k].used = @ + mb]
    BY <1>2, <2>1 DEF UpdateMBUsed
  <2> DEFINE f == [sessions EXCEPT ![k].used = @ + mb]
  <2>3. \A s \in DOMAIN sessions : sessions[s] \in Sessions
    BY Rows
  <2>4. ASSUME NEW s \in DOMAIN sessions
        PROVE  /\ f[s] \in Sessions /\ f[s].dev = sessions[s].dev
               /\ f[s].free = sessions[s].free /\ f[s].at = sessions[s].at
    <3>1. CASE s = k
      <4>1. f[s] = [sessions[s] EXCEPT !.used = @ + mb]
        BY <3>1
      <4> QED
        BY <2>3, <4>1 DEF Sessions
    <3>2. CASE s # k
      BY <2>3, <3>2
    <3> QED
      BY <3>1, <3>2
  <2>5. DOMAIN f = DOMAIN sessions /\ f = [s \in DOMAIN sessions |-> f[s]]
    OBVIOUS
  <2>6. devices' = devices /\ UNCHANGED <<devices, order, lastId>>
    BY DEF UpdateMBUsed
  <2> HIDE DEF f
  <2>7. sessions' = f
    BY <2>2 DEF f
  <2>8. \A e : Kept(e)
    BY <2>4, <2>5, <2>7 DEF Kept, SessionsOf
  <2> QED
    BY <2>4, <2>5, <2>6, <2>7, <2>8, SessionsRewritten
<1> QED
  BY <1>1, <1>2

LEMMA DataExhausted ==
  ASSUME StoreOK, NEW d, ForceExhaustData(d)
  PROVE  StoreOK' /\ devices' = devices /\ Len(sessions') = Len(sessions) /\ \A e : Kept(e)
<1> DEFINE f == [s \in DOMAIN sessions |->
                   IF s \in OpenSessions(d) THEN [sessions[s] EXCEPT !.used = sessions[s].limit] ELSE sessions[s]]
<1>1. \A s \in DOMAIN sessions : sessions[s] \in Sessions
  BY Rows
<1>2. ASSUME NEW s \in DOMAIN sessions
      PROVE  /\ f[s] \in Sessions /\ f[s].dev = sessions[s].dev
             /\ f[s].free = sessions[s].free /\ f[s].at = sessions[s].at
  BY <1>1 DEF Sessions
<1>3. sessions' = f /\ DOMAIN f = DOMAIN sessions /\ f = [s \in DOMAIN sessions |-> f[s]]
      /\ UNCHANGED <<devices, order, lastId>>
  BY DEF ForceExhaustData
<1> HIDE DEF f
<1>4. \A e : Kept(e)
  BY <1>2, <1>3 DEF Kept, SessionsOf
<1> QED
  BY <1>2, <1>3, <1>4, SessionsRewritten

LEMMA SessionRemoved ==
  ASSUME StoreOK, NEW t, RemoveSession(t)
  PROVE  /\ StoreOK' /\ devices' = devices /\ Len(sessions') = Len(sessions)
         /\ \A e : t \notin SessionsOf(e) => Kept(e)
<1> DEFINE f == [s \in DOMAIN sessions |-> IF s = t THEN NoSession ELSE sessions[s]]
<1>1. (\A s \in DOMAIN sessions : sessions[s] \in Sessions) /\ NoSession \in Sessions
  BY Rows, Assumed DEF NoSession, Sessions
<1>2. \A s \in DOMAIN sessions : f[s] \in Sessions /\ (s # t => f[s] = sessions[s])
  BY <1>1
<1>3. sessions' = f /\ DOMAIN f = DOMAIN sessions /\ f = [s \in DOMAIN sessions |-> f[s]]
      /\ UNCHANGED <<devices, order, lastId>>
  BY DEF RemoveSession
<1> HIDE DEF f
<1>4. \A e : t \notin SessionsOf(e) => Kept(e)
  BY <1>2, <1>3 DEF Kept, SessionsOf
<1> QED
  BY <1>2, <1>3, <1>4, SessionsRewritten

LEMMA SessionsMerged ==
  ASSUME StoreOK, NEW old, NEW new \in Ids, MergeDeviceSessions(old, new)
  PROVE  /\ StoreOK' /\ devices' = devices /\ Len(sessions') = Len(sessions)
         /\ \A e : e # old => Kept(e)
<1> DEFINE f == [s \in DOMAIN sessions |->
                   IF s \in SessionsOf(old) THEN [sessions[s] EXCEPT !.dev = new] ELSE sessions[s]]
<1>1. \A s \in DOMAIN sessions : sessions[s] \in Sessions
  BY Rows
<1>2. \A s \in DOMAIN sessions : f[s] \in Sessions /\ (s \notin SessionsOf(old) => f[s] = sessions[s])
  BY <1>1 DEF Sessions
<1>3. sessions' = f /\ DOMAIN f = DOMAIN sessions /\ f = [s \in DOMAIN sessions |-> f[s]]
      /\ UNCHANGED <<devices, order, lastId>>
  BY DEF MergeDeviceSessions
<1> HIDE DEF f
<1>4. \A e : e # old => Kept(e)
  BY <1>2, <1>3 DEF Kept, SessionsOf
<1> QED
  BY <1>2, <1>3, <1>4, SessionsRewritten

LEMMA SessionsCleared ==
  ASSUME StoreOK, NEW d, ClearSessions(d)
  PROVE  /\ StoreOK' /\ devices' = devices /\ Len(sessions') = Len(sessions)
         /\ \A e : e # d => Kept(e)
<1> DEFINE f == [s \in DOMAIN sessions |-> IF s \in SessionsOf(d) THEN NoSession ELSE sessions[s]]
<1>1. (\A s \in DOMAIN sessions : sessions[s] \in Sessions) /\ NoSession \in Sessions
  BY Rows, Assumed DEF NoSession, Sessions
<1>2. \A s \in DOMAIN sessions : f[s] \in Sessions /\ (s \notin SessionsOf(d) => f[s] = sessions[s])
  BY <1>1
<1>3. sessions' = f /\ DOMAIN f = DOMAIN sessions /\ f = [s \in DOMAIN sessions |-> f[s]]
      /\ UNCHANGED <<devices, order, lastId>>
  BY DEF ClearSessions
<1> HIDE DEF f
<1>4. \A e : e # d => Kept(e)
  BY <1>2, <1>3 DEF Kept, SessionsOf
<1> QED
  BY <1>2, <1>3, <1>4, SessionsRewritten
-----------------------------------------------------------------------------
(* Types: the handlers.                                                    *)

\* What a handler holds, told from what it is about to do.
LEMMA HandlerKind ==
  ASSUME HandlersOK, NEW h \in Handlers
  PROVE  LET x == handler[h] IN
         /\ HasRow(x)
         /\ x.step \in {"upsert", "grant", "already", "deduct", "credit"} => x \in Asking
         /\ x.step \in {"begin", "usage"} /\ x.op \in {"connect", "credit", "cancel", "share", "merge"} => x \in Asking
         /\ x.step = "add" => x \in Adding
         /\ x.step \in {"open", "close"} => x \in Switching
         /\ x.step \in {"begin", "usage"} /\ x.op \in {"addSession", "block", "clear", "delSession"} => x \in Managing
         /\ x.step = "address" => x.dev \in DOMAIN devices
         /\ x.step = "sweep" => x \in Sweeping
<1> PICK x : x = handler[h]
  OBVIOUS
<1>1. x \in HandlerStates /\ HasRow(x)
  BY DEF HandlersOK
<1>2. x \in Asking => x.op \in {"connect", "credit", "cancel", "share", "merge"}
                      /\ x.step \in {"upsert", "begin", "usage", "grant", "already", "deduct", "credit", "address"}
  BY DEF Asking
<1>3. x \in Adding => x.step = "add"
  BY DEF Adding
<1>4. x \in Switching => x.step \in {"open", "close"}
  BY DEF Switching
<1>5. x \in Managing => x.op \in {"addSession", "block", "clear", "delSession"}
                        /\ x.step \in {"begin", "usage", "address"}
  BY DEF Managing
<1>6. x \in Maintaining => x.op = "maintenance" /\ x.step = "begin"
  BY DEF Maintaining
<1>7. x \in [step : {"devices"}] => x.step = "devices"
  OBVIOUS
<1>8. x \in Sweeping => x.step = "sweep"
  BY DEF Sweeping
<1>9. x = Idle => x.step = "idle"
  BY DEF Idle
<1> QED
  BY <1>1, <1>2, <1>3, <1>4, <1>5, <1>6, <1>7, <1>8, <1>9 DEF HandlerStates, HasRow

LEMMA HandlerGoes ==
  ASSUME HandlersOK, NEW h \in Handlers, NEW y \in HandlerStates, HasRow(y), Continue(h, y),
         DOMAIN devices \subseteq DOMAIN devices'
  PROVE  HandlersOK'
<1>1. handler' = [handler EXCEPT ![h] = y]
  BY DEF Continue
<1>2. \A g \in Handlers : HasRow(handler'[g])
  BY <1>1 DEF HandlersOK
<1>3. \A g \in Handlers : HasRow(handler[g])'
  BY <1>2 DEF HasRow
<1> QED
  BY <1>1, <1>3 DEF HandlersOK

\* A handler that is done, or that opens or closes an address.
LEMMA HandlerEnds ==
  ASSUME HandlersOK, NEW h \in Handlers, DOMAIN devices \subseteq DOMAIN devices',
         \/ Finish(h)
         \/ \E i \in IPs, step \in {"open", "close"} : Then(h, step, i)
  PROVE  HandlersOK'
<1>1. Idle \in HandlerStates /\ HasRow(Idle)
  BY DEF HandlerStates, HasRow, Idle, Managing
<1>2. ASSUME NEW i \in IPs, NEW step \in {"open", "close"}, Then(h, step, i) PROVE HandlersOK'
  <2> PICK y : y = [step |-> step, ip |-> i]
    OBVIOUS
  <2>1. y \in Switching /\ y.step = step /\ y \notin Managing
    BY DEF Switching, Managing
  <2>2. y \in HandlerStates /\ HasRow(y)
    BY <2>1 DEF HandlerStates, HasRow
  <2>3. Continue(h, y)
    BY <1>2 DEF Then
  <2> QED
    BY <2>2, <2>3, HandlerGoes
<1> QED
  BY <1>1, <1>2, HandlerGoes DEF Finish

\* A client's request that goes on to another question.
LEMMA HandlerAsks ==
  ASSUME HandlersOK, NEW h \in Handlers, DOMAIN devices \subseteq DOMAIN devices',
         NEW y \in Asking, Continue(h, y),
         y.step = "address" => y.dev \in DOMAIN devices,
         y.step \in {"deduct", "credit"} => y.to \in DOMAIN devices
  PROVE  HandlersOK'
<1>1. y \notin Managing
  BY DEF Asking, Managing
<1>2. y \in HandlerStates /\ HasRow(y)
  BY <1>1 DEF HandlerStates, HasRow
<1> QED
  BY <1>2, HandlerGoes

LEMMA HandlerManages ==
  ASSUME HandlersOK, NEW h \in Handlers, DOMAIN devices \subseteq DOMAIN devices',
         NEW y \in Managing, Continue(h, y), y.dev \in DOMAIN devices
  PROVE  HandlersOK'
<1>1. y.step \notin {"deduct", "credit"}
  BY DEF Managing
<1>2. y \in HandlerStates /\ HasRow(y)
  BY <1>1 DEF HandlerStates, HasRow
<1> QED
  BY <1>2, HandlerGoes

LEMMA RequestHandlers ==
  ASSUME TypeInv, NEW h \in Handlers, ClientRequest(h) \/ AdminRequest(h)
  PROVE  HandlersOK'
<1>1. HandlersOK /\ devices' = devices /\ StoreOK
  BY DEF TypeInv, ClientRequest, AdminRequest, storeVars
<1>2. CASE ClientRequest(h)
  <2> PICK op \in ClientOps, i \in {address[m] : m \in Online} :
        Continue(h, [op |-> op, ip |-> i, dev |-> GetDeviceIDByIP(i), to |-> NoDevice, mode |-> "off", since |-> 0,
                     step |-> IF GetDeviceIDByIP(i) = NoDevice THEN "upsert" ELSE "begin"])
    BY <1>2 DEF ClientRequest
  <2>1. i \in IPs
    BY DEF Online, TypeInv, WorldOK, LeaseMap
  <2>2. PICK d \in Ids : d = GetDeviceIDByIP(i)
    BY <1>1, RowOfIP
  <2> DEFINE t == [op |-> op, ip |-> i, dev |-> d, to |-> NoDevice, mode |-> "off", since |-> 0,
                   step |-> IF d = NoDevice THEN "upsert" ELSE "begin"]
  <2>3. t \in Asking /\ t.step \in {"upsert", "begin"}
    <3>1. NoDevice \in Ids /\ 0 \in 0..MaxClock
      BY <1>1, Rows, Assumed
    <3> QED
      BY <2>1, <3>1 DEF Asking, ClientOps, Modes
  <2>4. Continue(h, t)
    BY <2>2
  <2> HIDE DEF t
  <2> QED
    BY <1>1, <2>3, <2>4, HandlerAsks
<1>3. CASE AdminRequest(h)
  <2>1. ASSUME NEW op \in AdminOps \ {"maintenance"}, NEW d \in DOMAIN devices,
               Continue(h, [op |-> op, dev |-> d, step |-> "begin"])
        PROVE  HandlersOK'
    <3> PICK y : y = [op |-> op, dev |-> d, step |-> "begin"]
      OBVIOUS
    <3>1. d \in Ids
      BY <1>1, Rows
    <3>2. y \in Managing /\ y.dev = d
      BY <3>1 DEF Managing, AdminOps
    <3> QED
      BY <1>1, <2>1, <3>2, HandlerManages
  <2>2. ASSUME Continue(h, [op |-> "maintenance", step |-> "begin"]) PROVE HandlersOK'
    <3> PICK y : y = [op |-> "maintenance", step |-> "begin"]
      OBVIOUS
    <3>1. y \in HandlerStates /\ HasRow(y)
      BY DEF HandlerStates, Maintaining, HasRow, Managing
    <3> QED
      BY <1>1, <2>2, <3>1, HandlerGoes
  <2> QED
    BY <1>3, <2>1, <2>2 DEF AdminRequest
<1> QED
  BY <1>2, <1>3

\* A client's request with some of its fields changed.
LEMMA AskingChanged ==
  ASSUME NEW x \in Asking, NEW step \in {"begin", "usage", "grant", "already", "deduct", "credit", "address"},
         NEW d \in Ids, NEW to \in Ids, NEW mode \in Modes, NEW since \in 0..MaxClock
  PROVE  /\ [x EXCEPT !.step = step] \in Asking
         /\ [x EXCEPT !.dev = d, !.step = step] \in Asking
         /\ [x EXCEPT !.to = to, !.step = step] \in Asking
         /\ [x EXCEPT !.mode = mode, !.step = step] \in Asking
         /\ [x EXCEPT !.since = since, !.step = step] \in Asking
<1> QED
  BY DEF Asking

LEMMA AskHandlers ==
  ASSUME TypeInv, NEW h \in Handlers,
         \/ ConnectBegin(h) \/ ConnectUsage(h) \/ GrantMode(h) \/ GrantAlready(h) \/ ShareCheck(h)
         \/ ShareDeduct(h) \/ ShareCredit(h)
  PROVE  HandlersOK'
<1> DEFINE x == handler[h]
<1>1. HandlersOK /\ StoreOK /\ devices' = devices
  BY DEF TypeInv, ConnectBegin, ConnectUsage, GrantMode, GrantAlready, ShareCheck, ShareDeduct, ShareCredit,
     storeVars, UpdateMBUsed, AddSession
<1>2. /\ x.step \in {"upsert", "grant", "already", "deduct", "credit"} => x \in Asking
      /\ x.step \in {"begin", "usage"} /\ x.op \in {"connect", "credit", "cancel", "share", "merge"} => x \in Asking
      /\ HasRow(x)
  BY <1>1, HandlerKind
<1>3. x \in Asking
  BY <1>2 DEF ConnectBegin, ConnectUsage, GrantMode, GrantAlready, ShareCheck, ShareDeduct, ShareCredit, AtStep
<1>4. x.ip \in IPs /\ x.dev \in Ids
  BY <1>3 DEF Asking
<1>5. maintenance.mode \in Modes /\ maintenance.enabledAt \in 0..MaxClock
  BY DEF TypeInv, WorldOK
<1>6. DOMAIN devices \subseteq Ids
  BY <1>1, Rows
<1>7. PICK r \in Asking : r = x
  BY <1>3
<1> HIDE DEF x
<1>8. CASE ConnectBegin(h)
  <2>1. CASE Finish(h)
    BY <1>1, <2>1, HandlerEnds
  <2>2. CASE Continue(h, [x EXCEPT !.mode = maintenance.mode, !.step = "usage"])
    <3> PICK y : y = [r EXCEPT !.mode = maintenance.mode, !.step = "usage"]
      OBVIOUS
    <3>1. y \in Asking /\ y.step = "usage"
      BY <1>5 DEF Asking
    <3> QED
      BY <1>1, <1>7, <2>2, <3>1, HandlerAsks
  <2> QED
    BY <1>8, <2>1, <2>2 DEF ConnectBegin, x
<1>9. CASE ConnectUsage(h)
  <2>1. CASE Finish(h)
    BY <1>1, <2>1, HandlerEnds
  <2>2. CASE Then(h, "open", x.ip)
    BY <1>1, <1>4, <2>2, HandlerEnds
  <2>3. CASE Step(h, "grant")
    <3> PICK y : y = [r EXCEPT !.step = "grant"]
      OBVIOUS
    <3>1. y \in Asking /\ y.step = "grant"
      BY DEF Asking
    <3> QED
      BY <1>1, <1>7, <2>3, <3>1, HandlerAsks DEF Step, x
  <2> QED
    BY <1>9, <2>1, <2>2, <2>3 DEF ConnectUsage, x
<1>10. CASE GrantMode(h)
  <2>1. CASE Finish(h)
    BY <1>1, <2>1, HandlerEnds
  <2>2. CASE Continue(h, [x EXCEPT !.since = maintenance.enabledAt, !.step = "already"])
    <3> PICK y : y = [r EXCEPT !.since = maintenance.enabledAt, !.step = "already"]
      OBVIOUS
    <3>1. y \in Asking /\ y.step = "already"
      BY <1>5 DEF Asking
    <3> QED
      BY <1>1, <1>7, <2>2, <3>1, HandlerAsks
  <2> QED
    BY <1>10, <2>1, <2>2 DEF GrantMode, x
<1>11. CASE GrantAlready(h)
  <2>1. CASE Finish(h)
    BY <1>1, <2>1, HandlerEnds
  <2>2. CASE Continue(h, [op |-> "connect", step |-> "add", dev |-> x.dev, ip |-> x.ip])
    <3> PICK y : y = [op |-> "connect", step |-> "add", dev |-> r.dev, ip |-> r.ip]
      OBVIOUS
    <3>1. y \in Adding
      BY <1>4, <1>7 DEF Adding
    <3>2. y \notin Managing /\ y.step = "add"
      BY <3>1 DEF Adding, Managing
    <3>3. y \in HandlerStates /\ HasRow(y)
      BY <3>1, <3>2 DEF HandlerStates, HasRow
    <3> QED
      BY <1>1, <1>7, <2>2, <3>3, HandlerGoes
  <2> QED
    BY <1>11, <2>1, <2>2 DEF GrantAlready, x
<1>12. CASE ShareCheck(h)
  <2>1. CASE Finish(h)
    BY <1>1, <2>1, HandlerEnds
  <2>2. ASSUME NEW to \in DOMAIN devices, Continue(h, [x EXCEPT !.to = to, !.step = "deduct"])
        PROVE  HandlersOK'
    <3> PICK y : y = [r EXCEPT !.to = to, !.step = "deduct"]
      OBVIOUS
    <3>1. y \in Asking /\ y.step = "deduct" /\ y.to = to
      BY <1>6 DEF Asking
    <3> QED
      BY <1>1, <1>7, <2>2, <3>1, HandlerAsks
  <2> QED
    BY <1>12, <2>1, <2>2 DEF ShareCheck, x
<1>13. CASE ShareDeduct(h)
  <2> PICK y : y = [r EXCEPT !.step = "credit"]
    OBVIOUS
  <2>1. y \in Asking /\ y.step = "credit" /\ y.to = r.to
    BY DEF Asking
  <2>2. Continue(h, y) /\ r.to \in DOMAIN devices
    BY <1>2, <1>7, <1>13 DEF ShareDeduct, AtStep, Step, HasRow, x
  <2> QED
    BY <1>1, <2>1, <2>2, HandlerAsks
<1>14. CASE ShareCredit(h)
  <2> PICK y : y = [r EXCEPT !.dev = r.to, !.step = "address"]
    OBVIOUS
  <2>1. y \in Asking /\ y.step = "address" /\ y.dev = r.to
    BY DEF Asking
  <2>2. Continue(h, y) /\ r.to \in DOMAIN devices
    BY <1>2, <1>7, <1>14 DEF ShareCredit, AtStep, HasRow, x
  <2> QED
    BY <1>1, <2>1, <2>2, HandlerAsks
<1> QED
  BY <1>8, <1>9, <1>10, <1>11, <1>12, <1>13, <1>14

LEMMA UpsertHandlers ==
  ASSUME TypeInv, NEW h \in Handlers, UpsertUnknown(h)
  PROVE  HandlersOK'
<1>1. HandlersOK /\ StoreOK /\ handler[h].step = "upsert"
  BY DEF TypeInv, UpsertUnknown
<1>2. PICK r \in Asking : r = handler[h]
  BY <1>1, HandlerKind
<1>3. PICK i \in IPs : i = r.ip
  BY DEF Asking
<1>4. /\ UpsertDevice(i, i)
      /\ Continue(h, IF UpsertedId(i) = NoDevice THEN Idle ELSE [r EXCEPT !.dev = UpsertedId(i), !.step = "begin"])
  BY <1>2, <1>3 DEF UpsertUnknown
<1>5. DOMAIN devices \subseteq DOMAIN devices' /\ UpsertedId(i) \in Ids
  BY <1>1, <1>4, Upserted
<1>6. CASE Finish(h)
  BY <1>1, <1>5, <1>6, HandlerEnds
<1>7. CASE Continue(h, [r EXCEPT !.dev = UpsertedId(i), !.step = "begin"])
  <2> PICK id \in Ids : id = UpsertedId(i)
    BY <1>5
  <2> PICK y : y = [r EXCEPT !.dev = id, !.step = "begin"]
    OBVIOUS
  <2>1. y \in Asking /\ y.step = "begin"
    BY DEF Asking
  <2> QED
    BY <1>1, <1>5, <1>7, <2>1, HandlerAsks
<1> QED
  BY <1>4, <1>6, <1>7 DEF Finish

LEMMA EndHandlers ==
  ASSUME TypeInv, NEW h \in Handlers,
         \/ GrantAdd(h) \/ Credit(h) \/ CancelUsage(h) \/ Merge(h) \/ Address(h) \/ Open(h) \/ Close(h)
         \/ AdminClearMB(h) \/ AdminDelSession(h)
  PROVE  HandlersOK'
<1> DEFINE x == handler[h]
<1>1. HandlersOK /\ StoreOK /\ devices' = devices
  BY DEF TypeInv, GrantAdd, Credit, CancelUsage, Merge, Address, Open, Close, AdminClearMB, AdminDelSession,
     storeVars, AddSession, MergeDeviceSessions, ClearSessions, RemoveSession
<1>2. GrantAdd(h) => x.ip \in IPs
  BY <1>1, HandlerKind DEF GrantAdd, AtStep, Adding
<1>3. Credit(h) \/ CancelUsage(h) => x.ip \in IPs
  BY <1>1, HandlerKind DEF Credit, CancelUsage, AtStep, Asking
<1>4. Address(h) => devices[x.dev].ip \in IPs \cup {None}
  BY <1>1, HandlerKind, Rows DEF Address, Devices
<1>5. Finish(h) \/ \E i \in IPs, step \in {"open", "close"} : Then(h, step, i)
  BY <1>2, <1>3, <1>4 DEF GrantAdd, Credit, CancelUsage, Merge, Address, Open, Close, AdminClearMB, AdminDelSession
<1> QED
  BY <1>1, <1>5, HandlerEnds

LEMMA AdminHandlers ==
  ASSUME TypeInv, NEW h \in Handlers, AdminAddSession(h) \/ AdminUsage(h) \/ AdminBlock(h)
  PROVE  HandlersOK'
<1>1. HandlersOK /\ StoreOK /\ devices' = devices
  BY DEF TypeInv, AdminAddSession, AdminUsage, AdminBlock, storeVars, AddSession, ForceExhaustData
<1>2. PICK r \in Managing : r = handler[h]
  BY <1>1, HandlerKind DEF AdminAddSession, AdminUsage, AdminBlock, AtStep
<1>3. r.dev \in DOMAIN devices
  <2>1. HasRow(r)
    BY <1>1, <1>2, HandlerKind
  <2> QED
    BY <2>1 DEF HasRow
<1>4. CASE Finish(h)
  BY <1>1, <1>4, HandlerEnds
<1>5. ASSUME NEW step \in {"usage", "address"}, Step(h, step) PROVE HandlersOK'
  <2> PICK y : y = [r EXCEPT !.step = step]
    OBVIOUS
  <2>1. y \in Managing /\ y.dev = r.dev
    BY DEF Managing
  <2> QED
    BY <1>1, <1>2, <1>3, <1>5, <2>1, HandlerManages DEF Step
<1> QED
  BY <1>4, <1>5 DEF AdminAddSession, AdminUsage, AdminBlock

LEMMA SweepHandlers ==
  ASSUME TypeInv, NEW h \in Handlers, SetMaintenance(h) \/ SweepDevices(h) \/ Sweep(h)
  PROVE  HandlersOK'
<1>1. HandlersOK /\ StoreOK /\ devices' = devices
  BY DEF TypeInv, SetMaintenance, SweepDevices, Sweep, storeVars
<1>2. ASSUME NEW y \in Sweeping \cup [step : {"devices"}], Continue(h, y) PROVE HandlersOK'
  <2>1. y.step \in {"sweep", "devices"} /\ y \notin Managing
    BY DEF Sweeping, Managing
  <2>2. y \in HandlerStates /\ HasRow(y)
    BY <2>1 DEF HandlerStates, HasRow
  <2> QED
    BY <1>1, <1>2, <2>2, HandlerGoes
<1>3. CASE Continue(h, Idle)
  BY <1>1, <1>3, HandlerEnds DEF Finish
<1>4. CASE SetMaintenance(h)
  <2> PICK y : y = [step |-> "devices"]
    OBVIOUS
  <2>1. y \in [step : {"devices"}]
    OBVIOUS
  <2> QED
    BY <1>2, <1>3, <1>4, <2>1 DEF SetMaintenance, Finish
<1>5. CASE SweepDevices(h)
  <2> PICK ips : ips = {devices[d].ip : d \in DOMAIN devices} \ {None}
    OBVIOUS
  <2>1. ips \subseteq IPs
    BY <1>1, Rows DEF Devices
  <2> PICK y : y = [step |-> "sweep", todo |-> ips]
    OBVIOUS
  <2>2. y \in Sweeping
    BY <2>1 DEF Sweeping
  <2> QED
    BY <1>2, <1>3, <1>5, <2>2 DEF SweepDevices
<1>6. CASE Sweep(h)
  <2> PICK r \in Sweeping : r = handler[h]
    BY <1>1, <1>6, HandlerKind DEF Sweep
  <2> PICK ip \in r.todo :
        Continue(h, IF r.todo \ {ip} = {} THEN Idle ELSE [r EXCEPT !.todo = r.todo \ {ip}])
    BY <1>6 DEF Sweep
  <2> PICK y : y = [r EXCEPT !.todo = r.todo \ {ip}]
    OBVIOUS
  <2>1. y \in Sweeping
    BY DEF Sweeping
  <2> QED
    BY <1>2, <1>3, <2>1
<1> QED
  BY <1>4, <1>5, <1>6

LEMMA HandlersStep ==
  ASSUME TypeInv, [Next]_vars
  PROVE  HandlersOK'
<1>1. ASSUME NEW h \in Handlers, ClientRequest(h) \/ AdminRequest(h) PROVE HandlersOK'
  BY <1>1, RequestHandlers
<1>2. ASSUME NEW h \in Handlers, Serve(h) PROVE HandlersOK'
  BY <1>2, AskHandlers, UpsertHandlers, EndHandlers, AdminHandlers, SweepHandlers DEF Serve
<1>3. ASSUME handler' = handler, DOMAIN devices \subseteq DOMAIN devices' PROVE HandlersOK'
  BY <1>3 DEF TypeInv, HandlersOK, HasRow
<1>4. CASE Watch \/ Poll
  <2>1. CASE WatcherNext
    <3>1. handler' = handler
      BY <2>1 DEF WatcherNext
    <3>2. StoreOK /\ WatcherOK
      BY DEF TypeInv
    <3>3. PICK m \in watcher.todo : UpsertDevice(m, watcher.snap[m]) \/ UNCHANGED storeVars
      BY <2>1 DEF WatcherNext
    <3>4. m \in Macs /\ watcher.snap[m] \in IPs \cup {None}
      BY <2>1, <3>2, <3>3 DEF WatcherNext, WatcherOK, Watching, LeaseMap, Idle
    <3>5. DOMAIN devices \subseteq DOMAIN devices'
      BY <3>2, <3>3, <3>4, Upserted DEF storeVars
    <3> QED
      BY <1>3, <3>1, <3>5
  <2>2. CASE ~WatcherNext
    <3>1. handler' = handler /\ devices' = devices
      BY <1>4, <2>2 DEF Watch, Poll, WatcherTick, WatcherAct, WatcherReconnect, PollerTick, PollerNext, PollerCharge,
         PollerCheck, PollerRemove, storeVars, UpdateMBUsed
    <3> QED
      BY <1>3, <3>1
  <2> QED
    BY <2>1, <2>2
<1>5. ASSUME NEW m \in Macs, NEW i \in IPs, Join(m, i) PROVE HandlersOK'
  <2>1. handler' = handler /\ (UpsertDevice(m, i) \/ devices' = devices) /\ StoreOK
    BY <1>5 DEF Join, storeVars, TypeInv
  <2>2. DOMAIN devices \subseteq DOMAIN devices'
    BY <2>1, Upserted
  <2> QED
    BY <1>3, <2>1, <2>2
<1>6. ASSUME \/ \E m \in Macs : LearnLease(m) \/ Leave(m)
             \/ \E i \in IPs : Traffic(i)
             \/ ClockTick
             \/ UNCHANGED vars
      PROVE  HandlersOK'
  <2>1. handler' = handler /\ devices' = devices
    BY <1>6 DEF LearnLease, Leave, Traffic, ClockTick, vars, storeVars
  <2> QED
    BY <1>3, <2>1
<1>7. CASE Crash
  <2>1. handler' = [h \in Handlers |-> Idle]
    BY <1>7 DEF Crash
  <2> QED
    BY <2>1 DEF HandlersOK, HandlerStates, HasRow, Idle, Managing
<1> QED
  BY <1>1, <1>2, <1>4, <1>5, <1>6, <1>7 DEF Next, Environment

-----------------------------------------------------------------------------
(* Types: the tables, and the background loops.                            *)

\* A statement of a handler on the sessions.
LEMMA ServeStore ==
  ASSUME TypeInv, NEW h \in Handlers, Serve(h)
  PROVE  StoreOK' /\ Len(sessions') >= Len(sessions)
<1>1. HandlersOK /\ StoreOK /\ Len(sessions) \in Nat /\ DOMAIN devices \subseteq Ids
  BY Rows DEF TypeInv
<1>2. FreeMB \in Nat /\ PaidMB \in Nat /\ ShareMB \in Int /\ now \in 0..MaxClock
  BY Assumed DEF TypeInv, WorldOK
<1>3. CASE UpsertUnknown(h)
  <2>1. handler[h].ip \in IPs
    BY <1>1, <1>3, HandlerKind DEF UpsertUnknown, Asking
  <2>2. UpsertDevice(handler[h].ip, handler[h].ip)
    BY <1>3 DEF UpsertUnknown
  <2> QED
    BY <1>1, <2>1, <2>2, Upserted
<1>4. CASE GrantAdd(h)
  <2>1. PICK d \in Ids : d = handler[h].dev
    BY <1>1, <1>4, HandlerKind DEF GrantAdd, AtStep, Adding
  <2>2. RoomForSession /\ AddSession(d, TRUE, FreeMB, now)
    BY <1>4, <2>1 DEF GrantAdd
  <2>3. StoreOK' /\ Len(sessions') = Len(sessions) + 1
    BY <1>1, <1>2, <2>2, SessionAdded
  <2> QED
    BY <1>1, <2>3
<1>5. CASE Credit(h)
  <2>1. PICK d \in Ids : d = handler[h].dev
    BY <1>1, <1>5, HandlerKind DEF Credit, AtStep, Asking
  <2>2. RoomForSession /\ AddSession(d, FALSE, PaidMB, now)
    BY <1>5, <2>1 DEF Credit
  <2>3. StoreOK' /\ Len(sessions') = Len(sessions) + 1
    BY <1>1, <1>2, <2>2, SessionAdded
  <2> QED
    BY <1>1, <2>3
<1>6. CASE ShareDeduct(h)
  BY <1>1, <1>2, <1>6, UsageCharged DEF ShareDeduct
<1>7. CASE ShareCredit(h)
  <2>1. PICK d \in Ids : d = handler[h].to
    BY <1>1, <1>7, HandlerKind DEF ShareCredit, AtStep, Asking
  <2>2. RoomForSession /\ AddSession(d, TRUE, ShareMB, now)
    BY <1>7, <2>1 DEF ShareCredit
  <2>3. StoreOK' /\ Len(sessions') = Len(sessions) + 1
    BY <1>1, <1>2, <2>2, SessionAdded, Assumed
  <2> QED
    BY <1>1, <2>3
<1>8. CASE Merge(h)
  <2>1. handler[h].dev \in Ids
    BY <1>1, <1>8, HandlerKind DEF Merge, AtStep, Asking
  <2> QED
    BY <1>1, <1>8, <2>1, SessionsMerged DEF Merge
<1>9. CASE AdminAddSession(h)
  <2>1. PICK d \in Ids : d = handler[h].dev
    BY <1>1, <1>9, HandlerKind DEF AdminAddSession, AtStep, Managing
  <2>2. RoomForSession /\ AddSession(d, TRUE, FreeMB, now)
    BY <1>9, <2>1 DEF AdminAddSession
  <2>3. StoreOK' /\ Len(sessions') = Len(sessions) + 1
    BY <1>1, <1>2, <2>2, SessionAdded
  <2> QED
    BY <1>1, <2>3
<1>10. CASE AdminBlock(h)
  BY <1>1, <1>10, DataExhausted DEF AdminBlock
<1>11. CASE AdminClearMB(h)
  BY <1>1, <1>11, SessionsCleared DEF AdminClearMB
<1>12. CASE AdminDelSession(h)
  BY <1>1, <1>12, SessionRemoved DEF AdminDelSession
<1>13. ASSUME UNCHANGED storeVars PROVE StoreOK' /\ Len(sessions') >= Len(sessions)
  BY <1>1, <1>13 DEF storeVars, StoreOK
<1>14. CASE \/ ConnectBegin(h) \/ ConnectUsage(h) \/ GrantMode(h) \/ GrantAlready(h) \/ CancelUsage(h)
            \/ ShareCheck(h) \/ Address(h) \/ Open(h) \/ Close(h) \/ AdminUsage(h) \/ SetMaintenance(h)
            \/ SweepDevices(h) \/ Sweep(h)
  BY <1>13, <1>14 DEF ConnectBegin, ConnectUsage, GrantMode, GrantAlready, CancelUsage, ShareCheck, Address,
     Open, Close, AdminUsage, SetMaintenance, SweepDevices, Sweep
<1> QED
  BY <1>3, <1>4, <1>5, <1>6, <1>7, <1>8, <1>9, <1>10, <1>11, <1>12, <1>14 DEF Serve

\* The rest of the program and of the world on the tables.
LEMMA StoreStep ==
  ASSUME TypeInv, [Next]_vars
  PROVE  StoreOK' /\ Len(sessions') >= Len(sessions)
<1>1. HandlersOK /\ StoreOK /\ Len(sessions) \in Nat /\ WatcherOK /\ PollerOK
  BY Rows DEF TypeInv
<1>2. ASSUME UNCHANGED storeVars PROVE StoreOK' /\ Len(sessions') >= Len(sessions)
  BY <1>1, <1>2 DEF storeVars, StoreOK
<1>3. ASSUME NEW m \in Macs, NEW i \in IPs \cup {None}, UpsertDevice(m, i)
      PROVE  StoreOK' /\ Len(sessions') >= Len(sessions)
  BY <1>1, <1>3, Upserted
<1>4. ASSUME NEW h \in Handlers, ClientRequest(h) \/ AdminRequest(h)
      PROVE  StoreOK' /\ Len(sessions') >= Len(sessions)
  BY <1>2, <1>4 DEF ClientRequest, AdminRequest
<1>5. CASE WatcherNext
  <2>1. PICK m \in watcher.todo : UpsertDevice(m, watcher.snap[m]) \/ UNCHANGED storeVars
    BY <1>5 DEF WatcherNext
  <2>2. m \in Macs /\ watcher.snap[m] \in IPs \cup {None}
    BY <1>1, <1>5, <2>1 DEF WatcherNext, WatcherOK, Watching, LeaseMap, Idle
  <2> QED
    BY <1>2, <1>3, <2>1, <2>2
<1>6. CASE PollerCharge
  <2>1. poller.counters[poller.ip] \in Int
    BY <1>1, <1>6, Assumed DEF PollerCharge, PollerOK, Polling, Idle
  <2> QED
    BY <1>1, <1>6, <2>1, UsageCharged DEF PollerCharge
<1>7. CASE \/ WatcherTick \/ WatcherAct \/ WatcherReconnect
           \/ PollerTick \/ PollerNext \/ PollerCheck \/ PollerRemove
  BY <1>2, <1>7 DEF WatcherTick, WatcherAct, WatcherReconnect, PollerTick, PollerNext, PollerCheck, PollerRemove
<1>8. ASSUME NEW m \in Macs, NEW i \in IPs, Join(m, i) PROVE StoreOK' /\ Len(sessions') >= Len(sessions)
  BY <1>2, <1>3, <1>8 DEF Join
<1>9. ASSUME \/ \E m \in Macs : LearnLease(m) \/ Leave(m)
             \/ \E i \in IPs : Traffic(i)
             \/ ClockTick
             \/ UNCHANGED vars
      PROVE  StoreOK' /\ Len(sessions') >= Len(sessions)
  BY <1>2, <1>9 DEF LearnLease, Leave, Traffic, ClockTick, vars
<1>10. CASE Crash
  <2>1. devices' = devices /\ order' = order /\ sessions' = sessions /\ lastId' = NoDevice
    BY <1>10 DEF Crash, NoDevice
  <2> QED
    BY <1>1, <2>1, Rows DEF StoreOK
<1> QED
  BY <1>4, <1>5, <1>6, <1>7, <1>8, <1>9, <1>10, ServeStore DEF Next, Watch, Poll, Environment

LEMMA WatcherStep ==
  ASSUME TypeInv, [Next]_vars
  PROVE  WatcherOK'
<1>1. StoreOK /\ WatcherOK /\ address \in LeaseMap /\ cache \in LeaseMap /\ maintenance.mode \in Modes
  BY DEF TypeInv, WorldOK
<1>2. NoDevice \in Ids
  BY <1>1, Rows
<1>3. CASE WatcherTick
  <2>1. PICK ls \in LeaseMap : ls = Leases
    BY <1>1 DEF Leases
  <2> DEFINE todo == {m \in Macs : ls[m] # None}
             w == [step |-> "next", lockdown |-> maintenance.mode = "lockdown", snap |-> ls,
                   todo |-> todo, mac |-> None, dev |-> NoDevice]
  <2>2. w \in Watching /\ w.step = "next" /\ \A m \in w.todo : w.snap[m] # None
    BY <1>2 DEF Watching
  <2>3. watcher = Idle /\ ((prevLeases' = ls /\ watcher' = watcher) \/ (watcher' = w /\ prevLeases' = prevLeases))
    BY <1>3, <2>1 DEF WatcherTick
  <2> HIDE DEF w
  <2> QED
    BY <1>1, <2>2, <2>3 DEF WatcherOK, Idle
<1>4. CASE WatcherNext \/ WatcherAct \/ WatcherReconnect
  <2>1. watcher \in Watching /\ \A m \in watcher.todo : watcher.snap[m] # None
    <3>1. watcher.step # Idle.step
      BY <1>4 DEF WatcherNext, WatcherAct, WatcherReconnect, Idle
    <3> QED
      BY <1>1, <3>1 DEF WatcherOK
  <2> PICK w \in Watching : w = watcher
    BY <2>1
  <2>2. w.snap \in LeaseMap /\ w.todo \subseteq Macs
    BY DEF Watching
  <2>3. ASSUME WatcherGoesOn PROVE WatcherOK'
    <3>1. CASE w.todo = {}
      BY <1>1, <2>2, <2>3, <3>1 DEF WatcherGoesOn, WatcherOK, Idle
    <3>2. CASE w.todo # {}
      <4> PICK v : v = [w EXCEPT !.step = "next", !.mac = None, !.dev = NoDevice]
        OBVIOUS
      <4>1. v \in Watching /\ v.step = "next" /\ v.todo = w.todo /\ v.snap = w.snap
        BY <1>2 DEF Watching
      <4>2. watcher' = v /\ prevLeases' = prevLeases
        BY <2>3, <3>2 DEF WatcherGoesOn
      <4> QED
        BY <1>1, <2>1, <4>1, <4>2 DEF WatcherOK
    <3> QED
      BY <3>1, <3>2
  <2>4. CASE WatcherNext
    <3>1. PICK m \in w.todo : \E id \in {UpsertedId(m), GetDeviceIDByMAC(m)} :
            /\ watcher' = [w EXCEPT !.step = "act", !.mac = m, !.dev = id, !.todo = @ \ {m}]
            /\ id = GetDeviceIDByMAC(m) \/ UpsertDevice(m, w.snap[m])
      BY <2>4 DEF WatcherNext
    <3> PICK id \in {UpsertedId(m), GetDeviceIDByMAC(m)} :
            /\ watcher' = [w EXCEPT !.step = "act", !.mac = m, !.dev = id, !.todo = @ \ {m}]
            /\ id = GetDeviceIDByMAC(m) \/ UpsertDevice(m, w.snap[m])
      BY <3>1
    <3>2. w.snap[m] \in IPs /\ m \in Macs
      BY <2>1, <2>2 DEF LeaseMap
    <3>3. id \in Ids
      BY <1>1, <3>1, <3>2, Upserted, RowOfMac
    <3> PICK v : v = [w EXCEPT !.step = "act", !.mac = m, !.dev = id, !.todo = @ \ {m}]
      OBVIOUS
    <3>4. v \in Watching /\ v.mac = m /\ v.todo \subseteq w.todo /\ v.snap = w.snap
      BY <3>2, <3>3 DEF Watching
    <3>5. watcher' = v /\ prevLeases' = prevLeases
      BY <2>4, <3>1 DEF WatcherNext
    <3>6. v.snap[m] # None /\ \A o \in v.todo : v.snap[o] # None
      BY <2>1, <3>4
    <3> QED
      BY <1>1, <3>2, <3>4, <3>5, <3>6 DEF WatcherOK
  <2>5. CASE WatcherAct
    <3>1. CASE WatcherGoesOn
      BY <2>3, <3>1
    <3>2. CASE ~WatcherGoesOn
      <4> PICK v : v = [w EXCEPT !.step = "reconnect", !.dev = NoDevice]
        OBVIOUS
      <4>1. v \in Watching /\ v.mac = w.mac /\ v.todo = w.todo /\ v.snap = w.snap
        BY <1>2 DEF Watching
      <4>2. watcher' = v /\ prevLeases' = prevLeases /\ w.step = "act"
        BY <2>5, <3>2 DEF WatcherAct, LockDown
      <4> QED
        BY <1>1, <2>1, <4>1, <4>2 DEF WatcherOK
    <3> QED
      BY <3>1, <3>2
  <2>6. CASE WatcherReconnect
    BY <2>3, <2>6 DEF WatcherReconnect
  <2> QED
    BY <1>4, <2>4, <2>5, <2>6
<1>5. CASE Crash
  BY <1>5 DEF Crash, WatcherOK, Idle, NoLeases, LeaseMap
<1>6. ASSUME watcher' = watcher, prevLeases' = prevLeases PROVE WatcherOK'
  BY <1>1, <1>6 DEF WatcherOK
<1>7. ASSUME NEW h \in Handlers, ClientRequest(h) \/ AdminRequest(h) \/ Serve(h) PROVE WatcherOK'
  BY <1>6, <1>7 DEF ClientRequest, AdminRequest, Serve, UpsertUnknown, ConnectBegin, ConnectUsage, GrantMode,
     GrantAlready, GrantAdd, Credit, CancelUsage, ShareCheck, ShareDeduct, ShareCredit, Merge, Address, Open, Close,
     AdminAddSession, AdminUsage, AdminBlock, AdminClearMB, AdminDelSession, SetMaintenance, SweepDevices, Sweep,
     background
<1>8. CASE Poll \/ UNCHANGED vars
  BY <1>6, <1>8 DEF Poll, PollerTick, PollerNext, PollerCharge, PollerCheck, PollerRemove, vars, background
<1>9. ASSUME \/ \E m \in Macs, i \in IPs : Join(m, i)
             \/ \E m \in Macs : LearnLease(m) \/ Leave(m)
             \/ \E i \in IPs : Traffic(i)
             \/ ClockTick
      PROVE  WatcherOK'
  BY <1>6, <1>9 DEF Join, LearnLease, Leave, Traffic, ClockTick, background
<1> QED
  BY <1>3, <1>4, <1>5, <1>7, <1>8, <1>9 DEF Next, Watch, Environment

LEMMA PollerStep ==
  ASSUME TypeInv, [Next]_vars
  PROVE  PollerOK'
<1>1. StoreOK /\ PollerOK /\ pending \in [IPs -> 0..MaxTraffic] /\ connected \subseteq IPs
  BY DEF TypeInv, WorldOK
<1>2. NoDevice \in Ids /\ 0 \in 0..MaxTraffic
  BY <1>1, Rows, Assumed
<1>3. CASE PollerTick
  <2>1. PICK used \in SUBSET IPs, c \in [IPs -> 0..MaxTraffic] :
          poller' = [step |-> "next", todo |-> used, counters |-> c, ip |-> None, dev |-> NoDevice]
    BY <1>1, <1>3 DEF PollerTick
  <2> PICK q : q = [step |-> "next", todo |-> used, counters |-> c, ip |-> None, dev |-> NoDevice]
    OBVIOUS
  <2>2. q \in Polling /\ q.step = "next"
    BY <1>2 DEF Polling
  <2> QED
    BY <2>1, <2>2 DEF PollerOK
<1>4. CASE PollerNext \/ PollerCharge \/ PollerCheck \/ PollerRemove
  <2>1. poller \in Polling /\ (poller.step \in {"charge", "check", "remove"} => poller.ip \in IPs)
    <3>1. poller.step # Idle.step
      BY <1>4 DEF PollerNext, PollerCharge, PollerCheck, PollerRemove, Idle
    <3> QED
      BY <1>1, <3>1 DEF PollerOK
  <2> PICK q \in Polling : q = poller
    BY <2>1
  <2>2. q.todo \subseteq IPs /\ q.counters \in [IPs -> 0..MaxTraffic]
    BY DEF Polling
  <2>3. ASSUME PollerGoesOn, q.ip \in IPs PROVE PollerOK'
    <3>1. CASE q.todo = {}
      BY <2>3, <3>1 DEF PollerGoesOn, PollerOK, Idle
    <3>2. CASE q.todo # {}
      <4> PICK r : r = [q EXCEPT !.step = "next", !.counters[q.ip] = 0, !.ip = None, !.dev = NoDevice]
        OBVIOUS
      <4>1. r.counters = [q.counters EXCEPT ![q.ip] = 0]
        BY DEF Polling
      <4>2. r \in Polling /\ r.step = "next"
        <5>1. [q.counters EXCEPT ![q.ip] = 0] \in [IPs -> 0..MaxTraffic]
          BY <1>2, <2>2
        <5> QED
          BY <1>2, <5>1 DEF Polling
      <4>3. poller' = r
        BY <2>3, <3>2 DEF PollerGoesOn
      <4> QED
        BY <4>2, <4>3 DEF PollerOK
    <3> QED
      BY <3>1, <3>2
  <2>4. CASE PollerNext
    <3>1. PICK i \in q.todo, step \in {"remove", "charge"} :
            poller' = [q EXCEPT !.ip = i, !.dev = GetDeviceIDByIP(i), !.todo = @ \ {i}, !.step = step]
      BY <2>4 DEF PollerNext
    <3>2. PICK d \in Ids : d = GetDeviceIDByIP(i)
      BY <1>1, RowOfIP
    <3> PICK r : r = [q EXCEPT !.ip = i, !.dev = d, !.todo = @ \ {i}, !.step = step]
      OBVIOUS
    <3>3. r \in Polling /\ r.ip \in IPs
      BY <2>2 DEF Polling
    <3> QED
      BY <3>1, <3>2, <3>3 DEF PollerOK
  <2>5. ASSUME NEW step \in {"check", "remove"}, poller' = [q EXCEPT !.step = step], q.ip \in IPs PROVE PollerOK'
    <3> PICK r : r = [q EXCEPT !.step = step]
      OBVIOUS
    <3>1. r \in Polling /\ r.ip = q.ip
      BY DEF Polling
    <3> QED
      BY <2>5, <3>1 DEF PollerOK
  <2>6. CASE PollerCharge \/ PollerCheck \/ PollerRemove
    <3>1. q.ip \in IPs
      BY <2>1, <2>6 DEF PollerCharge, PollerCheck, PollerRemove
    <3>2. PollerGoesOn \/ \E step \in {"check", "remove"} : poller' = [q EXCEPT !.step = step]
      BY <2>6 DEF PollerCharge, PollerCheck, PollerRemove
    <3> QED
      BY <2>3, <2>5, <3>1, <3>2
  <2> QED
    BY <1>4, <2>4, <2>6
<1>5. ASSUME poller' = poller PROVE PollerOK'
  BY <1>1, <1>5 DEF PollerOK
<1>6. ASSUME NEW h \in Handlers, ClientRequest(h) \/ AdminRequest(h) \/ Serve(h) PROVE PollerOK'
  BY <1>5, <1>6 DEF ClientRequest, AdminRequest, Serve, UpsertUnknown, ConnectBegin, ConnectUsage, GrantMode,
     GrantAlready, GrantAdd, Credit, CancelUsage, ShareCheck, ShareDeduct, ShareCredit, Merge, Address, Open, Close,
     AdminAddSession, AdminUsage, AdminBlock, AdminClearMB, AdminDelSession, SetMaintenance, SweepDevices, Sweep,
     background
<1>7. CASE Watch \/ UNCHANGED vars
  BY <1>5, <1>7 DEF Watch, WatcherTick, WatcherNext, WatcherAct, WatcherReconnect, vars, background
<1>8. CASE Environment
  BY <1>5, <1>8 DEF Environment, Join, LearnLease, Leave, Traffic, ClockTick, Crash, PollerOK, Idle, background
<1> QED
  BY <1>3, <1>4, <1>6, <1>7, <1>8 DEF Next, Poll

\* An address the program opens or closes is one of the client network.
LEMMA Switched ==
  ASSUME WorldOK, NEW i \in IPs, AddClient(i) \/ RemoveClient(i)
  PROVE  connected' \subseteq IPs /\ pending' \in [IPs -> 0..MaxTraffic]
<1>1. connected \subseteq IPs /\ pending \in [IPs -> 0..MaxTraffic] /\ 0 \in 0..MaxTraffic
  BY Assumed DEF WorldOK
<1> QED
  BY <1>1 DEF AddClient, RemoveClient

LEMMA WorldStep ==
  ASSUME TypeInv, [Next]_vars
  PROVE  WorldOK'
<1>1. /\ HandlersOK /\ WatcherOK /\ PollerOK /\ WorldOK
      /\ connected \subseteq IPs /\ pending \in [IPs -> 0..MaxTraffic]
      /\ maintenance \in [mode : Modes, enabledAt : 0..MaxClock]
      /\ now \in 0..MaxClock /\ events \in 0..MaxEvents
      /\ address \in LeaseMap /\ cache \in LeaseMap
  BY DEF TypeInv, WorldOK
<1>2. 0 \in 0..MaxTraffic /\ 0 \in 0..MaxClock /\ MaxEvents \in Nat /\ MaxClock \in Nat /\ MaxTraffic \in Nat
  BY Assumed
<1>3. ASSUME NEW i \in IPs, AddClient(i) \/ RemoveClient(i), UNCHANGED <<maintenance, world>> PROVE WorldOK'
  BY <1>1, <1>3, Switched DEF WorldOK, world
<1>4. ASSUME UNCHANGED <<access, maintenance, world>> PROVE WorldOK'
  BY <1>1, <1>4 DEF WorldOK, world, access
<1>5. ASSUME NEW h \in Handlers, Serve(h) PROVE WorldOK'
  <2>1. CASE Open(h) \/ Close(h)
    <3>1. PICK i \in IPs : i = handler[h].ip
      BY <1>1, <2>1, HandlerKind DEF Open, Close, Switching
    <3>2. (AddClient(i) \/ RemoveClient(i)) /\ UNCHANGED <<maintenance, world>>
      BY <2>1, <3>1 DEF Open, Close
    <3> QED
      BY <1>3, <3>2
  <2>2. CASE Sweep(h)
    <3>1. PICK i \in handler[h].todo : RemoveClient(i) /\ UNCHANGED <<maintenance, world>>
      BY <2>2 DEF Sweep
    <3>2. i \in IPs
      BY <1>1, <2>2, HandlerKind DEF Sweep, Sweeping
    <3> QED
      BY <1>3, <3>1, <3>2
  <2>3. CASE SetMaintenance(h)
    <3>1. maintenance' \in [mode : Modes, enabledAt : 0..MaxClock]
      BY <1>1, <1>2, <2>3 DEF SetMaintenance
    <3> QED
      BY <1>1, <2>3, <3>1 DEF SetMaintenance, access, world, WorldOK
  <2>4. CASE ~(Open(h) \/ Close(h) \/ Sweep(h) \/ SetMaintenance(h))
    BY <1>4, <1>5, <2>4 DEF Serve, UpsertUnknown, ConnectBegin, ConnectUsage, GrantMode,
       GrantAlready, GrantAdd, Credit, CancelUsage, ShareCheck, ShareDeduct, ShareCredit, Merge, Address,
       AdminAddSession, AdminUsage, AdminBlock, AdminClearMB, AdminDelSession, SweepDevices
  <2> QED
    BY <2>1, <2>2, <2>3, <2>4
<1>6. ASSUME NEW h \in Handlers, ClientRequest(h) \/ AdminRequest(h) PROVE WorldOK'
  <2>1. CASE ClientRequest(h)
    BY <1>1, <1>2, <2>1 DEF ClientRequest, Event, access, WorldOK
  <2>2. CASE AdminRequest(h)
    BY <1>1, <1>2, <2>2 DEF AdminRequest, Event, access, WorldOK
  <2> QED
    BY <1>6, <2>1, <2>2
<1>7. CASE Watch
  <2>1. CASE WatcherAct \/ WatcherReconnect
    <3>1. watcher \in Watching
      <4>1. watcher.step # Idle.step
        BY <2>1 DEF WatcherAct, WatcherReconnect, Idle
      <4> QED
        BY <1>1, <4>1 DEF WatcherOK
    <3>2. PICK i \in IPs : i = watcher.snap[watcher.mac]
      BY <1>1, <2>1, <3>1 DEF WatcherOK, WatcherAct, WatcherReconnect, Watching, LeaseMap
    <3>3. (UNCHANGED access \/ AddClient(i) \/ RemoveClient(i)) /\ UNCHANGED <<maintenance, world>>
      BY <2>1, <3>2 DEF WatcherAct, WatcherReconnect, LockDown
    <3> QED
      BY <1>3, <1>4, <3>3
  <2>2. CASE WatcherTick \/ WatcherNext
    BY <1>4, <2>2 DEF WatcherTick, WatcherNext
  <2> QED
    BY <1>7, <2>1, <2>2 DEF Watch
<1>8. CASE Poll
  <2>1. CASE PollerTick
    BY <1>1, <1>2, <2>1 DEF PollerTick, WorldOK, world
  <2>2. CASE PollerRemove
    <3>1. PICK i \in IPs : i = poller.ip
      BY <1>1, <2>2 DEF PollerRemove, PollerOK
    <3>2. RemoveClient(i) /\ UNCHANGED <<maintenance, world>>
      BY <2>2, <3>1 DEF PollerRemove
    <3> QED
      BY <1>3, <3>2
  <2>3. CASE PollerNext \/ PollerCharge \/ PollerCheck
    BY <1>4, <2>3 DEF PollerNext, PollerCharge, PollerCheck
  <2> QED
    BY <1>8, <2>1, <2>2, <2>3 DEF Poll
<1>9. ASSUME NEW m \in Macs, NEW i \in IPs, Join(m, i) PROVE WorldOK'
  <2>1. address' \in LeaseMap
    BY <1>1, <1>9 DEF Join, LeaseMap
  <2> QED
    BY <1>1, <1>2, <1>9, <2>1 DEF Join, Event, access, WorldOK
<1>10. ASSUME NEW m \in Macs, LearnLease(m) \/ Leave(m) PROVE WorldOK'
  <2>1. address' \in LeaseMap /\ cache' \in LeaseMap
    BY <1>1, <1>10 DEF LearnLease, Leave, LeaseMap
  <2> QED
    BY <1>1, <1>2, <1>10, <2>1 DEF LearnLease, Leave, Event, access, WorldOK
<1>11. ASSUME NEW i \in IPs, Traffic(i) PROVE WorldOK'
  BY <1>1, <1>2, <1>11 DEF Traffic, WorldOK, world
<1>12. CASE ClockTick
  BY <1>1, <1>2, <1>12 DEF ClockTick, Event, access, WorldOK
<1>13. CASE Crash
  BY <1>1, <1>2, <1>13 DEF Crash, Event, access, WorldOK, NoLeases, LeaseMap
<1>14. CASE UNCHANGED vars
  BY <1>4, <1>14 DEF vars
<1> QED
  BY <1>5, <1>6, <1>7, <1>8, <1>9, <1>10, <1>11, <1>12, <1>13, <1>14 DEF Next, Environment

LEMMA GrantsStep ==
  ASSUME TypeInv, [Next]_vars
  PROVE  GrantsOK'
<1>1. /\ grants \in [Ids -> Nat] /\ \A d \in Ids : grants[d] <= Len(sessions)
      /\ HandlersOK /\ StoreOK /\ Len(sessions) \in Nat
  BY Rows DEF TypeInv, GrantsOK
<1>2. Len(sessions') >= Len(sessions) /\ Len(sessions') \in Nat
  <2>1. StoreOK' /\ Len(sessions') >= Len(sessions)
    BY StoreStep
  <2> QED
    BY <2>1, LenProperties DEF StoreOK
<1>3. ASSUME grants' \in [Ids -> Nat], \A d \in Ids : grants'[d] <= grants[d] PROVE GrantsOK'
  BY <1>1, <1>2, <1>3 DEF GrantsOK
<1>4. ASSUME grants' = grants PROVE GrantsOK'
  BY <1>1, <1>3, <1>4
<1>5. ASSUME NEW h \in Handlers, GrantAdd(h) PROVE GrantsOK'
  <2>1. PICK d \in Ids : d = handler[h].dev
    BY <1>1, <1>5, HandlerKind DEF GrantAdd, AtStep, Adding
  <2>2. RoomForSession /\ AddSession(d, TRUE, FreeMB, now) /\ grants' = [grants EXCEPT ![d] = @ + 1]
    BY <1>5, <2>1 DEF GrantAdd
  <2>3. FreeMB \in Nat /\ now \in 0..MaxClock
    BY Assumed DEF TypeInv, WorldOK
  <2>4. Len(sessions') = Len(sessions) + 1
    BY <1>1, <2>2, <2>3, SessionAdded
  <2> QED
    BY <1>1, <2>2, <2>4 DEF GrantsOK
<1>6. ASSUME NEW h \in Handlers, Merge(h) \/ AdminClearMB(h) \/ AdminDelSession(h) \/ SetMaintenance(h)
      PROVE  GrantsOK'
  <2>1. (\E d : grants' = [grants EXCEPT ![d] = 0]) \/ grants' = [d \in Ids |-> 0]
    BY <1>6 DEF Merge, AdminClearMB, AdminDelSession, SetMaintenance
  <2>2. grants' \in [Ids -> Nat] /\ \A d \in Ids : grants'[d] <= grants[d]
    BY <1>1, <2>1
  <2> QED
    BY <1>3, <2>2
<1>7. ASSUME NEW h \in Handlers,
             \/ UpsertUnknown(h) \/ ConnectBegin(h) \/ ConnectUsage(h) \/ GrantMode(h) \/ GrantAlready(h)
             \/ Credit(h) \/ CancelUsage(h) \/ ShareCheck(h) \/ ShareDeduct(h) \/ ShareCredit(h)
             \/ Address(h) \/ Open(h) \/ Close(h) \/ AdminAddSession(h) \/ AdminUsage(h) \/ AdminBlock(h)
             \/ SweepDevices(h) \/ Sweep(h) \/ ClientRequest(h) \/ AdminRequest(h)
      PROVE  GrantsOK'
  <2>1. grants' = grants
    BY <1>7 DEF ClientRequest, AdminRequest, UpsertUnknown, ConnectBegin, ConnectUsage, GrantMode,
       GrantAlready, Credit, CancelUsage, ShareCheck, ShareDeduct, ShareCredit, Address, Open, Close,
       AdminAddSession, AdminUsage, AdminBlock, SweepDevices, Sweep
  <2> QED
    BY <1>4, <2>1
<1>8. CASE Watch \/ Poll \/ Environment \/ UNCHANGED vars
  BY <1>4, <1>8 DEF Watch, Poll, Environment, WatcherTick, WatcherNext, WatcherAct, WatcherReconnect, PollerTick,
     PollerNext, PollerCharge, PollerCheck, PollerRemove, Join, LearnLease, Leave, Traffic, ClockTick, Crash, vars
<1> QED
  BY <1>5, <1>6, <1>7, <1>8 DEF Next, Serve

LEMMA InitTypes == Init => TypeInv
<1> SUFFICES ASSUME Init PROVE TypeInv
  OBVIOUS
<1>1. /\ DOMAIN Known = 1..Len(Known) /\ Len(Known) \in Nat /\ \A k \in DOMAIN Known : Known[k] \in Macs
      /\ IsInjective(Known) /\ MaxClock \in Nat /\ MaxTraffic \in Nat /\ MaxEvents \in Nat /\ MaxSessions \in Nat
  BY Assumed, LenProperties, ElementOfSeq
<1>2. /\ devices = [k \in 1..Len(Known) |-> [mac |-> Known[k], ip |-> None]]
      /\ order = [k \in 1..Len(Known) |-> k] /\ sessions = <<>> /\ lastId = 0
  BY <1>1 DEF Init
<1>3. devices \in [1..Len(Known) -> Devices]
  BY <1>1, <1>2 DEF Devices
<1>4. devices \in Seq(Devices) /\ Len(devices) = Len(Known) /\ DOMAIN devices = 1..Len(Known)
  BY <1>1, <1>3
<1>5. order \in Seq(DOMAIN devices) /\ Len(order) = Len(Known) /\ DOMAIN order = 1..Len(Known)
  <2>1. order \in [1..Len(Known) -> DOMAIN devices]
    BY <1>2, <1>4
  <2> QED
    BY <1>1, <2>1
<1>6. OneRowPerMac(devices)
  BY <1>1, <1>2, <1>4 DEF OneRowPerMac, IsInjective
<1>7. lastId \in Ids
  BY <1>1, <1>2, IdBound
<1>8. StoreOK
  <2>1. sessions \in Seq(Sessions) /\ Len(sessions) = 0
    BY <1>2
  <2> QED
    BY <1>1, <1>2, <1>4, <1>5, <1>6, <1>7, <2>1 DEF StoreOK
<1>9. HandlersOK
  BY DEF Init, HandlersOK, HandlerStates, HasRow, Idle, Managing
<1>10. WatcherOK /\ PollerOK
  BY DEF Init, WatcherOK, PollerOK, Idle, NoLeases, LeaseMap
<1>11. WorldOK
  BY <1>1 DEF Init, WorldOK, NoLeases, LeaseMap, Modes
<1>12. GrantsOK
  BY <1>2 DEF Init, GrantsOK
<1> QED
  BY <1>8, <1>9, <1>10, <1>11, <1>12 DEF TypeInv

LEMMA TypeStep == TypeInv /\ [Next]_vars => TypeInv'
<1> QED
  BY StoreStep, HandlersStep, WatcherStep, PollerStep, WorldStep, GrantsStep DEF TypeInv

\* TypeInv says more than TypeOK: what each handler and each loop holds.
LEMMA TypesFollow ==
  ASSUME TypeInv
  PROVE  TypeOK
<1>1. StoreOK /\ HandlersOK /\ WatcherOK /\ PollerOK /\ WorldOK /\ GrantsOK
  BY DEF TypeInv
<1>2. /\ \A d, e \in DOMAIN devices : devices[d].mac = devices[e].mac => d = e
      /\ \A d \in DOMAIN devices : devices[d].mac \in Macs \cup IPs /\ devices[d].ip \in IPs \cup {None}
  BY <1>1, Rows DEF StoreOK, OneRowPerMac, Devices
<1>3. Range(order) = DOMAIN devices /\ Len(order) = Len(devices)
  BY <1>1, Rows DEF StoreOK, Range
<1>4. \A s \in DOMAIN sessions : sessions[s].dev \in Ids /\ sessions[s].at \in 0..MaxClock
  BY <1>1, Rows DEF Sessions
<1>5. lastId \in Ids
  BY <1>1 DEF StoreOK
<1>6. /\ connected \subseteq IPs /\ pending \in [IPs -> 0..MaxTraffic]
      /\ maintenance \in [mode : Modes, enabledAt : 0..MaxClock]
      /\ now \in 0..MaxClock /\ events \in 0..MaxEvents
      /\ {address, cache, prevLeases} \subseteq [Macs -> IPs \cup {None}]
  BY <1>1 DEF WorldOK, WatcherOK, LeaseMap
<1>7. ASSUME NEW h \in Handlers PROVE handler[h].step \in HandlerSteps
  BY <1>1 DEF HandlersOK, HandlerStates, Asking, Adding, Switching, Managing, Maintaining, Sweeping, Idle,
     HandlerSteps
<1>8. watcher.step \in {"idle", "next", "act", "reconnect"}
  BY <1>1 DEF WatcherOK, Watching, Idle
<1>9. poller.step \in {"idle", "next", "charge", "check", "remove"}
  BY <1>1 DEF PollerOK, Polling, Idle
<1>10. grants \in [Ids -> 0..MaxSessions]
  <2>1. Len(sessions) <= MaxSessions /\ Len(sessions) \in Nat /\ MaxSessions \in Nat
    BY <1>1, Rows, Assumed DEF StoreOK
  <2>2. \A d \in Ids : grants[d] \in 0..MaxSessions
    BY <1>1, <2>1 DEF GrantsOK
  <2> QED
    BY <1>1, <2>2 DEF GrantsOK
<1> QED
  BY <1>2, <1>3, <1>4, <1>5, <1>6, <1>7, <1>8, <1>9, <1>10 DEF TypeOK

\* What every handler and loop works on exists, and a MAC never gets a second row,
\* whatever the statements of handlers, watcher, poller and hook do in between
\* (UpsertDevice's ON CONFLICT, store.go:142).
THEOREM TypeCorrect == Spec => []TypeOK
<1>1. TypeInv => TypeOK
  BY TypesFollow
<1> QED
  BY <1>1, InitTypes, TypeStep, PTL DEF Spec

-----------------------------------------------------------------------------
(* The rows follow the leases.                                             *)

LEMMA SameRows ==
  ASSUME devices' = devices, NEW m, NEW v
  PROVE  Shows(m, v)' <=> Shows(m, v)
<1>1. GetDeviceIDByMAC(m)' = GetDeviceIDByMAC(m)
  BY IdOfRows
<1> QED
  BY <1>1 DEF Shows

\* Nothing the watcher knows changes, and no row but those of the addresses themselves.
LEMMA RowsKept ==
  ASSUME RowInv, watcher' = watcher, prevLeases' = prevLeases,
         \A m \in Macs, v \in IPs : (HookMode => address'[m] = v) => Shows(m, v)' \/ (HookMode => address[m] = v),
         \A m \in Macs, v \in IPs : Shows(m, v) => Shows(m, v)'
  PROVE  RowInv'
<1> SUFFICES ASSUME NEW m \in Macs, NEW v \in IPs, HookMode => address'[m] = v
             PROVE  Shows(m, v)' \/ Stale(m, v)'
  BY DEF RowInv
<1>1. Stale(m, v)' <=> Stale(m, v)
  BY DEF Stale
<1> QED
  BY <1>1 DEF RowInv

LEMMA ServeRows ==
  ASSUME TypeInv, RowInv, NEW h \in Handlers, Serve(h) \/ ClientRequest(h) \/ AdminRequest(h)
  PROVE  RowInv'
<1>1. watcher' = watcher /\ prevLeases' = prevLeases /\ address' = address
  BY DEF Serve, ClientRequest, AdminRequest, UpsertUnknown, ConnectBegin, ConnectUsage, GrantMode,
     GrantAlready, GrantAdd, Credit, CancelUsage, ShareCheck, ShareDeduct, ShareCredit, Merge, Address, Open, Close,
     AdminAddSession, AdminUsage, AdminBlock, AdminClearMB, AdminDelSession, SetMaintenance, SweepDevices, Sweep,
     background, world
<1>2. CASE UpsertUnknown(h)
  <2>1. handler[h].step = "upsert" /\ StoreOK /\ HandlersOK
    BY <1>2 DEF UpsertUnknown, TypeInv
  <2>2. PICK i \in IPs : i = handler[h].ip
    BY <2>1, HandlerKind DEF Asking
  <2>3. UpsertDevice(i, i)
    BY <1>2, <2>2 DEF UpsertUnknown
  <2>4. \A m \in Macs : m # i
    BY Assumed
  <2>5. \A m \in Macs, v \in IPs : Shows(m, v)' <=> Shows(m, v)
    BY <2>1, <2>3, <2>4, Upserted
  <2> QED
    BY <1>1, <2>5, RowsKept
<1>3. CASE ~UpsertUnknown(h)
  <2>1. devices' = devices
    BY <1>3 DEF Serve, ClientRequest, AdminRequest, ConnectBegin, ConnectUsage, GrantMode,
       GrantAlready, GrantAdd, Credit, CancelUsage, ShareCheck, ShareDeduct, ShareCredit, Merge, Address, Open, Close,
       AdminAddSession, AdminUsage, AdminBlock, AdminClearMB, AdminDelSession, SetMaintenance, SweepDevices, Sweep,
       storeVars, AddSession, UpdateMBUsed, MergeDeviceSessions, ForceExhaustData, ClearSessions, RemoveSession
  <2>2. \A m \in Macs, v \in IPs : Shows(m, v)' <=> Shows(m, v)
    BY <2>1, SameRows
  <2> QED
    BY <1>1, <2>2, RowsKept
<1> QED
  BY <1>2, <1>3

LEMMA TickRows ==
  ASSUME TypeInv, RowInv, WatcherTick
  PROVE  RowInv'
<1> SUFFICES ASSUME NEW m \in Macs, NEW v \in IPs, HookMode => address'[m] = v
             PROVE  Shows(m, v)' \/ Stale(m, v)'
  BY DEF RowInv
<1>1. watcher = Idle /\ devices' = devices /\ address' = address /\ v # None
  BY Assumed DEF WatcherTick, storeVars, world
<1>2. Shows(m, v)' <=> Shows(m, v)
  BY <1>1, SameRows
<1>3. Shows(m, v) \/ prevLeases[m] # v
  BY <1>1 DEF RowInv, Stale
<1>4. PICK ls, todo : ls = Leases /\ todo = {o \in Macs : Leases[o] # None}
  OBVIOUS
<1>5. CASE todo = {}
  <2>1. prevLeases' = ls /\ watcher' = Idle /\ ls[m] = None
    BY <1>1, <1>4, <1>5 DEF WatcherTick
  <2> QED
    BY <1>1, <2>1 DEF Stale
<1>6. CASE todo # {}
  <2> PICK w : w = [step |-> "next", lockdown |-> maintenance.mode = "lockdown", snap |-> ls,
                    todo |-> todo, mac |-> None, dev |-> NoDevice]
    OBVIOUS
  <2>1. watcher' = w /\ prevLeases' = prevLeases
    BY <1>4, <1>6 DEF WatcherTick
  <2>2. w.step = "next" /\ w.snap = ls /\ w.todo = todo /\ w # Idle
    <3>1. w.step = "next"
      OBVIOUS
    <3>2. Idle.step = "idle"
      BY DEF Idle
    <3> QED
      BY <3>1, <3>2
  <2>3. ls[m] = v => m \in todo
    BY <1>1, <1>4
  <2> QED
    BY <1>2, <1>3, <2>1, <2>2, <2>3 DEF Stale
<1> QED
  BY <1>5, <1>6

LEMMA NextRows ==
  ASSUME TypeInv, RowInv, WatcherNext
  PROVE  RowInv'
<1>1. StoreOK /\ WatcherOK /\ watcher.step = "next" /\ address' = address /\ prevLeases' = prevLeases
  BY DEF TypeInv, WatcherNext, world
<1>2. PICK w \in Watching : w = watcher /\ w # Idle
  <2>1. watcher.step # Idle.step
    BY <1>1 DEF Idle
  <2> QED
    BY <1>1, <2>1 DEF WatcherOK
<1>3. w.snap \in LeaseMap /\ w.todo \subseteq Macs
  BY DEF Watching
<1>4. PICK m \in w.todo : \E id :
        /\ watcher' = [w EXCEPT !.step = "act", !.mac = m, !.dev = id, !.todo = @ \ {m}]
        /\ \/ UpsertDevice(m, w.snap[m])
           \/ UNCHANGED storeVars /\ prevLeases[m] = w.snap[m]
  BY <1>2 DEF WatcherNext, LeaseChanged
<1>5. m \in Macs /\ w.snap[m] \in IPs \cup {None}
  BY <1>3 DEF LeaseMap
<1>6. watcher'.snap = w.snap /\ watcher'.todo = w.todo \ {m} /\ watcher' # Idle
  <2> PICK id : watcher' = [w EXCEPT !.step = "act", !.mac = m, !.dev = id, !.todo = @ \ {m}]
    BY <1>4
  <2> PICK x : x = [w EXCEPT !.step = "act", !.mac = m, !.dev = id, !.todo = @ \ {m}]
    OBVIOUS
  <2>1. x.snap = w.snap /\ x.todo = w.todo \ {m} /\ x.step = "act"
    BY DEF Watching
  <2>2. Idle.step = "idle"
    BY DEF Idle
  <2> QED
    BY <2>1, <2>2
<1>7. \A o \in Macs, v \in IPs : o # m => (Shows(o, v)' <=> Shows(o, v))
  BY <1>1, <1>4, <1>5, Upserted, SameRows DEF storeVars
<1>8. \A v \in IPs : w.snap[m] = v => Shows(m, v)' \/ ((Shows(m, v)' <=> Shows(m, v)) /\ prevLeases[m] = v)
  <2>1. CASE UpsertDevice(m, w.snap[m])
    <3> PICK i \in IPs \cup {None} : i = w.snap[m]
      BY <1>5
    <3>1. Shows(m, i)'
      BY <1>1, <1>5, <2>1, Upserted
    <3> QED
      BY <3>1
  <2>2. CASE UNCHANGED storeVars /\ prevLeases[m] = w.snap[m]
    BY <2>2, SameRows DEF storeVars
  <2> QED
    BY <1>4, <2>1, <2>2
<1> SUFFICES ASSUME NEW o \in Macs, NEW v \in IPs, HookMode => address'[o] = v
             PROVE  Shows(o, v)' \/ Stale(o, v)'
  BY DEF RowInv
<1>9. Shows(o, v) \/ w.snap[o] # v \/ (o \in w.todo /\ prevLeases[o] # v)
  BY <1>1, <1>2 DEF RowInv, Stale
<1>10. Stale(o, v)' <=> w.snap[o] # v \/ (o \in w.todo \ {m} /\ prevLeases[o] # v)
  BY <1>1, <1>6 DEF Stale
<1> QED
  BY <1>7, <1>8, <1>9, <1>10

LEMMA ActRows ==
  ASSUME TypeInv, RowInv, WatcherAct \/ WatcherReconnect
  PROVE  RowInv'
<1>1. WatcherOK /\ watcher.step \in {"act", "reconnect"} /\ address' = address /\ devices' = devices
  BY DEF TypeInv, WatcherAct, WatcherReconnect, world, storeVars
<1>2. PICK w \in Watching : w = watcher /\ w # Idle
  <2>1. watcher.step # Idle.step
    BY <1>1 DEF Idle
  <2> QED
    BY <1>1, <2>1 DEF WatcherOK
<1> SUFFICES ASSUME NEW o \in Macs, NEW v \in IPs, HookMode => address'[o] = v
             PROVE  Shows(o, v)' \/ Stale(o, v)'
  BY DEF RowInv
<1>3. Shows(o, v) \/ w.snap[o] # v \/ (o \in w.todo /\ prevLeases[o] # v)
  BY <1>1, <1>2 DEF RowInv, Stale
<1>4. Shows(o, v)' <=> Shows(o, v)
  BY <1>1, SameRows
<1>5. CASE w.todo = {} /\ WatcherGoesOn
  BY <1>2, <1>3, <1>4, <1>5 DEF WatcherGoesOn, Stale
<1>6. CASE ~(w.todo = {} /\ WatcherGoesOn)
  <2>1. PICK step \in {"next", "reconnect"} : \E mac :
          /\ watcher' = [w EXCEPT !.step = step, !.mac = mac, !.dev = NoDevice]
          /\ prevLeases' = prevLeases
    <3>1. CASE WatcherGoesOn
      BY <1>2, <1>6, <3>1 DEF WatcherGoesOn
    <3>2. CASE ~WatcherGoesOn
      <4>1. watcher' = [w EXCEPT !.step = "reconnect", !.dev = NoDevice] /\ prevLeases' = prevLeases
        BY <1>2, <3>2 DEF WatcherAct, WatcherReconnect, LockDown
      <4>2. [w EXCEPT !.step = "reconnect", !.dev = NoDevice]
              = [w EXCEPT !.step = "reconnect", !.mac = w.mac, !.dev = NoDevice]
        BY DEF Watching
      <4> QED
        BY <4>1, <4>2
    <3> QED
      BY <3>1, <3>2
  <2> PICK mac : watcher' = [w EXCEPT !.step = step, !.mac = mac, !.dev = NoDevice]
    BY <2>1
  <2> PICK x : x = [w EXCEPT !.step = step, !.mac = mac, !.dev = NoDevice]
    OBVIOUS
  <2>2. x.snap = w.snap /\ x.todo = w.todo /\ x # Idle
    <3>1. x.snap = w.snap /\ x.todo = w.todo /\ x.step = step
      BY DEF Watching
    <3>2. Idle.step = "idle"
      BY DEF Idle
    <3> QED
      BY <3>1, <3>2
  <2> QED
    BY <1>3, <1>4, <2>1, <2>2 DEF Stale
<1> QED
  BY <1>5, <1>6

LEMMA RowStep == TypeInv /\ RowInv /\ [Next]_vars => RowInv'
<1> SUFFICES ASSUME TypeInv, RowInv, [Next]_vars PROVE RowInv'
  OBVIOUS
<1>1. StoreOK /\ address \in LeaseMap
  BY DEF TypeInv, WorldOK
<1>2. CASE Poll \/ UNCHANGED vars
  <2>1. watcher' = watcher /\ prevLeases' = prevLeases /\ address' = address /\ devices' = devices
    BY <1>2 DEF Poll, PollerTick, PollerNext, PollerCharge, PollerCheck, PollerRemove, vars, background, world,
       storeVars, UpdateMBUsed
  <2>2. \A m \in Macs, v \in IPs : Shows(m, v)' <=> Shows(m, v)
    BY <2>1, SameRows
  <2> QED
    BY <2>1, <2>2, RowsKept
<1>3. ASSUME NEW m \in Macs, NEW i \in IPs, Join(m, i) PROVE RowInv'
  <2>1. /\ watcher' = watcher /\ prevLeases' = prevLeases /\ address' = [address EXCEPT ![m] = i]
        /\ IF HookMode THEN UpsertDevice(m, i) ELSE devices' = devices
    BY <1>3 DEF Join, background, storeVars
  <2>2. CASE HookMode
    <3>1. Shows(m, i)' /\ \A o \in Macs, v \in IPs : o # m => (Shows(o, v)' <=> Shows(o, v))
      BY <1>1, <2>1, <2>2, Upserted
    <3>2. address'[m] = i /\ \A o \in Macs : o # m => address'[o] = address[o]
      BY <1>1, <2>1 DEF LeaseMap
    <3> SUFFICES ASSUME NEW o \in Macs, NEW v \in IPs, address'[o] = v PROVE Shows(o, v)' \/ Stale(o, v)'
      BY <2>2 DEF RowInv
    <3>3. CASE o = m
      BY <3>1, <3>2, <3>3
    <3>4. CASE o # m
      <4>1. Shows(o, v) \/ Stale(o, v)
        BY <3>2, <3>4 DEF RowInv
      <4>2. Stale(o, v)' <=> Stale(o, v)
        BY <2>1 DEF Stale
      <4> QED
        BY <3>1, <3>4, <4>1, <4>2
    <3> QED
      BY <3>3, <3>4
  <2>3. CASE ~HookMode
    <3>1. \A o \in Macs, v \in IPs : Shows(o, v)' <=> Shows(o, v)
      BY <2>1, <2>3, SameRows
    <3> QED
      BY <2>1, <2>3, <3>1, RowsKept
  <2> QED
    BY <2>2, <2>3
<1>4. ASSUME NEW m \in Macs, Leave(m) PROVE RowInv'
  <2>1. /\ watcher' = watcher /\ prevLeases' = prevLeases /\ devices' = devices
        /\ address' = [address EXCEPT ![m] = None]
    BY <1>4 DEF Leave, background, storeVars
  <2>2. \A o \in Macs, v \in IPs : address'[o] = v => address[o] = v
    BY <1>1, <2>1, Assumed DEF LeaseMap
  <2>3. \A o \in Macs, v \in IPs : Shows(o, v)' <=> Shows(o, v)
    BY <2>1, SameRows
  <2> QED
    BY <2>1, <2>2, <2>3, RowsKept
<1>5. ASSUME \/ \E m \in Macs : LearnLease(m)
             \/ \E i \in IPs : Traffic(i)
             \/ ClockTick
      PROVE  RowInv'
  <2>1. watcher' = watcher /\ prevLeases' = prevLeases /\ devices' = devices /\ address' = address
    BY <1>5 DEF LearnLease, Traffic, ClockTick, background, storeVars, world
  <2>2. \A m \in Macs, v \in IPs : Shows(m, v)' <=> Shows(m, v)
    BY <2>1, SameRows
  <2> QED
    BY <2>1, <2>2, RowsKept
<1>6. CASE Crash
  BY <1>6, Assumed DEF Crash, RowInv, Stale, NoLeases
<1> QED
  BY <1>2, <1>3, <1>4, <1>5, <1>6, ServeRows, TickRows, NextRows, ActRows DEF Next, Watch, Environment

\* Between two ticks the row of a client has the address of a lease the watcher has seen,
\* with any number of handlers that upsert made-up devices in between
\* (background.go:60-73, deviceForIP).
THEOREM RowsAlwaysFollow == Spec => []RowsFollowLeases
<1>1. Init => RowInv
  BY Assumed DEF Init, RowInv, Stale, NoLeases
<1>2. TypeInv /\ RowInv => RowsFollowLeases
  <2> SUFFICES ASSUME TypeInv, RowInv, watcher = Idle, NEW m \in Online,
                      prevLeases[m] = address[m]
               PROVE  devices[GetDeviceIDByMAC(m)].ip = address[m]
    BY DEF RowsFollowLeases
  <2>1. m \in Macs /\ address[m] \in IPs
    BY DEF Online, TypeInv, WorldOK, LeaseMap
  <2>2. Shows(m, address[m]) \/ Stale(m, address[m])
    BY <2>1 DEF RowInv
  <2> QED
    BY <2>2 DEF Stale, Shows
<1> QED
  BY <1>1, <1>2, InitTypes, TypeStep, RowStep, PTL DEF Spec

-----------------------------------------------------------------------------
(* The cap on free-mode grants.                                            *)

\* A handler passes the two checks of a grant in GrantMode and GrantAlready only.
LEMMA HandlerTurns ==
  ASSUME HandlersOK, NEW h \in Handlers, ClientRequest(h) \/ AdminRequest(h) \/ Serve(h),
         ~GrantMode(h), ~GrantAlready(h)
  PROVE  \E y : handler' = [handler EXCEPT ![h] = y] /\ y.step \notin {"already", "add"}
<1> DEFINE Turns == \E y : Continue(h, y) /\ y.step \notin {"already", "add"}
<1> SUFFICES Turns
  BY DEF Continue
<1>1. Finish(h) => Turns
  BY DEF Finish, Idle
<1>2. ASSUME NEW i, Then(h, "open", i) \/ Then(h, "close", i) PROVE Turns
  <2> PICK step \in {"open", "close"} : Then(h, step, i)
    BY <1>2
  <2> PICK y : y = [step |-> step, ip |-> i]
    OBVIOUS
  <2>1. y.step \notin {"already", "add"}
    OBVIOUS
  <2> QED
    BY <2>1 DEF Then
<1>3. ASSUME NEW y, Continue(h, y), y.step \in {"upsert", "begin", "usage", "grant", "deduct", "credit", "address",
                                              "devices", "sweep"}
      PROVE  Turns
  BY <1>3
<1> HIDE DEF Turns
<1>4. CASE ClientRequest(h)
  <2> PICK op, i : Continue(h, [op |-> op, ip |-> i, dev |-> GetDeviceIDByIP(i), to |-> NoDevice, mode |-> "off",
                                since |-> 0, step |-> IF GetDeviceIDByIP(i) = NoDevice THEN "upsert" ELSE "begin"])
    BY <1>4 DEF ClientRequest
  <2> PICK d : d = GetDeviceIDByIP(i)
    OBVIOUS
  <2> PICK y : y = [op |-> op, ip |-> i, dev |-> d, to |-> NoDevice, mode |-> "off",
                    since |-> 0, step |-> IF d = NoDevice THEN "upsert" ELSE "begin"]
    OBVIOUS
  <2>1. y.step \in {"upsert", "begin"}
    OBVIOUS
  <2> QED
    BY <1>3, <2>1
<1>5. CASE AdminRequest(h)
  <2>1. ASSUME NEW op, NEW d, Continue(h, [op |-> op, dev |-> d, step |-> "begin"]) PROVE Turns
    <3> PICK y : y = [op |-> op, dev |-> d, step |-> "begin"]
      OBVIOUS
    <3>1. y.step = "begin"
      OBVIOUS
    <3> QED
      BY <1>3, <2>1, <3>1
  <2>2. ASSUME Continue(h, [op |-> "maintenance", step |-> "begin"]) PROVE Turns
    BY <1>3, <2>2
  <2> QED
    BY <1>5, <2>1, <2>2 DEF AdminRequest
<1>6. CASE \/ GrantAdd(h) \/ Credit(h) \/ CancelUsage(h) \/ Merge(h) \/ Address(h) \/ Open(h) \/ Close(h)
           \/ AdminClearMB(h) \/ AdminDelSession(h)
  <2>1. Finish(h) \/ \E i : Then(h, "open", i) \/ Then(h, "close", i)
    <3>1. CASE Address(h)
      <4> PICK i : i = devices[handler[h].dev].ip
        OBVIOUS
      <4>1. Finish(h) \/ Then(h, "open", i) \/ Then(h, "close", i)
        BY <3>1, Zenon DEF Address
      <4> QED
        BY <4>1
    <3>2. CASE \/ GrantAdd(h) \/ Credit(h) \/ CancelUsage(h) \/ Merge(h) \/ Open(h) \/ Close(h)
               \/ AdminClearMB(h) \/ AdminDelSession(h)
      BY <3>2 DEF GrantAdd, Credit, CancelUsage, Merge, Open, Close, AdminClearMB, AdminDelSession
    <3> QED
      BY <1>6, <3>1, <3>2
  <2> QED
    BY <1>1, <1>2, <2>1
<1>7. CASE \/ UpsertUnknown(h) \/ ConnectBegin(h) \/ ConnectUsage(h) \/ ShareCheck(h) \/ ShareDeduct(h)
           \/ ShareCredit(h)
  <2> PICK r \in Asking : r = handler[h]
    BY <1>7, HandlerKind DEF UpsertUnknown, ConnectBegin, ConnectUsage, ShareCheck, ShareDeduct, ShareCredit, AtStep
  <2>1. ASSUME NEW step \in {"begin", "usage", "grant", "deduct", "credit", "address"}, NEW d, NEW to, NEW mode,
               NEW y \in {[r EXCEPT !.step = step], [r EXCEPT !.dev = d, !.step = step],
                          [r EXCEPT !.to = to, !.step = step], [r EXCEPT !.mode = mode, !.step = step]},
               Continue(h, y)
        PROVE  Turns
    <3>1. y.step = step
      BY DEF Asking
    <3> QED
      BY <1>3, <2>1, <3>1
  <2>2. CASE UpsertUnknown(h)
    <3> PICK id : Finish(h) \/ Continue(h, [r EXCEPT !.dev = id, !.step = "begin"])
      BY <2>2, Zenon DEF UpsertUnknown, Finish
    <3> QED
      BY <1>1, <2>1
  <2>3. CASE ConnectBegin(h)
    <3> PICK mode : Finish(h) \/ Continue(h, [r EXCEPT !.mode = mode, !.step = "usage"])
      BY <2>3, Zenon DEF ConnectBegin
    <3> QED
      BY <1>1, <2>1
  <2>4. CASE ConnectUsage(h)
    <3>1. Finish(h) \/ Then(h, "open", r.ip) \/ Continue(h, [r EXCEPT !.step = "grant"])
      BY <2>4, Zenon DEF ConnectUsage, Step
    <3> QED
      BY <1>1, <1>2, <2>1, <3>1
  <2>5. CASE ShareCheck(h)
    <3> PICK to : Finish(h) \/ Continue(h, [r EXCEPT !.to = to, !.step = "deduct"])
      BY <2>5, Zenon DEF ShareCheck
    <3> QED
      BY <1>1, <2>1
  <2>6. CASE ShareDeduct(h)
    BY <2>1, <2>6 DEF ShareDeduct, Step
  <2>7. CASE ShareCredit(h)
    BY <2>1, <2>7 DEF ShareCredit
  <2> QED
    BY <1>7, <2>2, <2>3, <2>4, <2>5, <2>6, <2>7
<1>8. CASE AdminAddSession(h) \/ AdminUsage(h) \/ AdminBlock(h)
  <2> PICK r \in Managing : r = handler[h]
    BY <1>8, HandlerKind DEF AdminAddSession, AdminUsage, AdminBlock, AtStep
  <2>1. Finish(h) \/ \E step \in {"usage", "address"} : Continue(h, [r EXCEPT !.step = step])
    BY <1>8 DEF AdminAddSession, AdminUsage, AdminBlock, Step
  <2>2. ASSUME NEW step \in {"usage", "address"}, Continue(h, [r EXCEPT !.step = step]) PROVE Turns
    <3> PICK y : y = [r EXCEPT !.step = step]
      OBVIOUS
    <3>1. y.step = step
      BY DEF Managing
    <3> QED
      BY <1>3, <2>2, <3>1
  <2> QED
    BY <1>1, <2>1, <2>2
<1>9. CASE SetMaintenance(h)
  <2>1. Finish(h) \/ Continue(h, [step |-> "devices"])
    BY <1>9 DEF SetMaintenance
  <2> QED
    BY <1>1, <1>3, <2>1
<1>10. CASE SweepDevices(h)
  <2> PICK ips : Finish(h) \/ Continue(h, [step |-> "sweep", todo |-> ips])
    BY <1>10 DEF SweepDevices, Finish
  <2> QED
    BY <1>1, <1>3
<1>11. CASE Sweep(h)
  <2> PICK r \in Sweeping : r = handler[h]
    BY <1>11, HandlerKind DEF Sweep
  <2> PICK rest : Finish(h) \/ Continue(h, [r EXCEPT !.todo = rest])
    BY <1>11 DEF Sweep, Finish
  <2> PICK y : y = [r EXCEPT !.todo = rest]
    OBVIOUS
  <2>1. y.step = "sweep"
    BY DEF Sweeping
  <2> QED
    BY <1>1, <1>3, <2>1
<1> QED
  BY <1>4, <1>5, <1>6, <1>7, <1>8, <1>9, <1>10, <1>11 DEF Serve

LEMMA GrantingFinite ==
  ASSUME NEW S, S \subseteq Handlers
  PROVE  IsFiniteSet(S) /\ Cardinality(S) \in Nat /\ Cardinality(S) <= Cardinality(Handlers)
         /\ Cardinality(Handlers) \in Nat
<1> QED
  BY Assumed, FS_Subset, FS_CardinalityType

\* Each device keeps its grants and the sessions they left, or starts over.
LEMMA GrantsKept ==
  ASSUME TypeInv, GrantInv, maintenance' = maintenance, now' \in Nat, now' >= now, grants' \in [Ids -> Nat],
         \A d \in Ids : grants'[d] = 0 \/ (grants'[d] = grants[d] /\ Kept(d)),
         \A h \in Handlers : handler'[h] = handler[h] \/ handler'[h].step \notin {"already", "add"}
  PROVE  GrantInv'
<1>1. /\ maintenance.enabledAt \in Nat /\ now \in Nat /\ grants \in [Ids -> Nat]
      /\ \A h \in Handlers : handler[h].step = "already" => handler[h].since \in Nat
  <2>1. ASSUME NEW h \in Handlers, handler[h].step = "already" PROVE handler[h].since \in Nat
    BY <2>1, HandlerKind, Assumed DEF TypeInv, Asking
  <2> QED
    BY <2>1, Assumed DEF TypeInv, WorldOK, GrantsOK
<1>2. maintenance'.enabledAt <= now' /\ \A h \in Handlers : handler'[h].step = "already" => handler'[h].since <= now'
  BY <1>1 DEF GrantInv
<1>3. ASSUME NEW d \in Ids, grants'[d] >= 1 PROVE Seen(d)'
  <2>1. grants'[d] = grants[d] /\ Kept(d) /\ grants[d] >= 1
    BY <1>1, <1>3
  <2>2. PICK s \in SessionsOf(d) : Found(sessions[s])
    BY <2>1 DEF GrantInv, Seen
  <2>3. s \in SessionsOf(d)'
    BY <2>1, <2>2 DEF Kept, SessionsOf
  <2>4. Found(sessions[s])'
    BY <2>1, <2>2 DEF Kept, Found
  <2> QED
    BY <2>3, <2>4 DEF Seen
<1>4. ASSUME NEW d \in Ids PROVE grants'[d] + Cardinality(Granting(d)') <= Cardinality(Handlers)
  <2>1. PICK G, H \in SUBSET Handlers : G = Granting(d) /\ H = Granting(d)'
    BY DEF Granting
  <2>2. H \subseteq G
    BY <2>1 DEF Granting
  <2>3. IsFiniteSet(G) /\ Cardinality(G) \in Nat /\ Cardinality(H) \in Nat /\ Cardinality(H) <= Cardinality(G)
        /\ Cardinality(G) <= Cardinality(Handlers) /\ Cardinality(Handlers) \in Nat
    BY <2>2, GrantingFinite, FS_Subset
  <2>4. grants[d] + Cardinality(G) <= Cardinality(Handlers) /\ grants[d] \in Nat
    BY <1>1, <2>1 DEF GrantInv
  <2> QED
    BY <2>1, <2>3, <2>4
<1> QED
  BY <1>2, <1>3, <1>4 DEF GrantInv

LEMMA GrantTypes ==
  ASSUME TypeInv, GrantInv
  PROVE  /\ maintenance.enabledAt \in Nat /\ now \in Nat /\ now \in 0..MaxClock /\ grants \in [Ids -> Nat]
         /\ StoreOK /\ HandlersOK
         /\ \A h \in Handlers : handler[h].step = "already" => handler[h].since \in Nat
         /\ \A s \in DOMAIN sessions : sessions[s].at \in Nat
<1>1. StoreOK /\ HandlersOK /\ MaxClock \in Nat
  BY Assumed DEF TypeInv
<1>2. \A s \in DOMAIN sessions : sessions[s] \in Sessions
  BY <1>1, Rows
<1>3. ASSUME NEW h \in Handlers, handler[h].step = "already" PROVE handler[h].since \in Nat
  BY <1>1, <1>3, HandlerKind DEF Asking
<1> QED
  BY <1>1, <1>2, <1>3 DEF TypeInv, WorldOK, GrantsOK, Sessions

LEMMA ModeGrants ==
  ASSUME TypeInv, GrantInv, NEW h \in Handlers, GrantMode(h)
  PROVE  GrantInv'
<1>1. /\ HandlersOK /\ sessions' = sessions /\ grants' = grants /\ maintenance' = maintenance /\ now' = now
      /\ handler \in [Handlers -> HandlerStates]
      /\ grants \in [Ids -> Nat] /\ now \in Nat /\ maintenance.enabledAt \in Nat
      /\ \A s \in DOMAIN sessions : sessions[s].at \in Nat
  BY GrantTypes DEF GrantMode, storeVars, world, HandlersOK
<1>2. PICK r \in Asking : r = handler[h]
  BY <1>1, HandlerKind DEF GrantMode, AtStep
<1>3. CASE Finish(h)
  <2>1. \A g \in Handlers : handler'[g] = handler[g] \/ handler'[g].step \notin {"already", "add"}
    BY <1>1, <1>3 DEF Finish, Continue, Idle
  <2>2. \A d \in Ids : grants'[d] = grants[d] /\ Kept(d)
    BY <1>1 DEF Kept, SessionsOf
  <2> QED
    BY <1>1, <2>1, <2>2, GrantsKept
<1>4. CASE Continue(h, [r EXCEPT !.since = maintenance.enabledAt, !.step = "already"])
  <2> PICK since \in Nat : since = maintenance.enabledAt
    BY <1>1
  <2> PICK y : y = [r EXCEPT !.since = since, !.step = "already"]
    OBVIOUS
  <2>1. y.step = "already" /\ y.since = since
    BY DEF Asking
  <2>2. handler'[h] = y /\ \A g \in Handlers : g # h => handler'[g] = handler[g]
    BY <1>1, <1>4 DEF Continue
  <2>3. maintenance'.enabledAt <= now' /\ \A g \in Handlers : handler'[g].step = "already" => handler'[g].since <= now'
    BY <1>1, <2>1, <2>2 DEF GrantInv
  <2>4. ASSUME NEW d \in Ids, grants'[d] >= 1 PROVE Seen(d)'
    <3>1. PICK s \in SessionsOf(d) : Found(sessions[s])
      BY <1>1, <2>4 DEF GrantInv, Seen
    <3>2. s \in SessionsOf(d)' /\ Found(sessions[s])'
      BY <1>1, <2>1, <2>2, <3>1 DEF Found, SessionsOf
    <3> QED
      BY <3>2 DEF Seen
  <2>5. ASSUME NEW d \in Ids PROVE (grants[d] + Cardinality(Granting(d)) <= Cardinality(Handlers))'
    <3>1. PICK G, H \in SUBSET Handlers : G = Granting(d) /\ H = Granting(d)'
      BY DEF Granting
    <3>2. H \subseteq G
      BY <2>1, <2>2, <3>1 DEF Granting
    <3>3. Cardinality(G) \in Nat /\ Cardinality(H) \in Nat /\ Cardinality(H) <= Cardinality(G)
          /\ Cardinality(Handlers) \in Nat
      BY <3>2, GrantingFinite, FS_Subset
    <3>4. grants[d] + Cardinality(G) <= Cardinality(Handlers) /\ grants[d] \in Nat
      BY <1>1, <3>1 DEF GrantInv
    <3> QED
      BY <1>1, <3>1, <3>3, <3>4
  <2> QED
    BY <2>3, <2>4, <2>5 DEF GrantInv
<1> QED
  BY <1>2, <1>3, <1>4 DEF GrantMode

\* The check passes only for a device without a grant in this window.
LEMMA AlreadyGrants ==
  ASSUME TypeInv, GrantInv, NEW h \in Handlers, GrantAlready(h)
  PROVE  GrantInv'
<1>1. /\ HandlersOK /\ sessions' = sessions /\ grants' = grants /\ maintenance' = maintenance /\ now' = now
      /\ handler \in [Handlers -> HandlerStates]
      /\ grants \in [Ids -> Nat] /\ now \in Nat /\ maintenance.enabledAt \in Nat
      /\ \A s \in DOMAIN sessions : sessions[s].at \in Nat
  BY GrantTypes DEF GrantAlready, storeVars, world, HandlersOK
<1>2. PICK r \in Asking : r = handler[h] /\ r.step = "already"
  BY <1>1, HandlerKind DEF GrantAlready, AtStep
<1>3. CASE Finish(h)
  <2>1. \A g \in Handlers : handler'[g] = handler[g] \/ handler'[g].step \notin {"already", "add"}
    BY <1>1, <1>3 DEF Finish, Continue, Idle
  <2>2. \A d \in Ids : grants'[d] = grants[d] /\ Kept(d)
    BY <1>1 DEF Kept, SessionsOf
  <2> QED
    BY <1>1, <2>1, <2>2, GrantsKept
<1>4. CASE /\ ~HasFreeSessionSince(r.dev, r.since)
           /\ Continue(h, [op |-> "connect", step |-> "add", dev |-> r.dev, ip |-> r.ip])
  <2> PICK y : y = [op |-> "connect", step |-> "add", dev |-> r.dev, ip |-> r.ip]
    OBVIOUS
  <2>1. y.step = "add" /\ y.dev = r.dev
    OBVIOUS
  <2>2. handler'[h] = y /\ \A g \in Handlers : g # h => handler'[g] = handler[g]
    BY <1>1, <1>4 DEF Continue
  <2>3. maintenance'.enabledAt <= now' /\ \A g \in Handlers : handler'[g].step = "already" => handler'[g].since <= now'
    BY <1>1, <2>1, <2>2 DEF GrantInv
  <2>4. ASSUME NEW d \in Ids, grants'[d] >= 1 PROVE Seen(d)'
    <3>1. PICK s \in SessionsOf(d) : Found(sessions[s])
      BY <1>1, <2>4 DEF GrantInv, Seen
    <3>2. s \in SessionsOf(d)' /\ Found(sessions[s])'
      BY <1>1, <2>1, <2>2, <3>1 DEF Found, SessionsOf
    <3> QED
      BY <3>2 DEF Seen
  <2>5. ~Seen(r.dev)
    BY <1>2, <1>4 DEF Seen, Found, HasFreeSessionSince
  <2>6. ASSUME NEW d \in Ids PROVE (grants[d] + Cardinality(Granting(d)) <= Cardinality(Handlers))'
    <3>1. PICK G, H \in SUBSET Handlers : G = Granting(d) /\ H = Granting(d)'
      BY DEF Granting
    <3>2. Cardinality(G) \in Nat /\ Cardinality(H) \in Nat /\ Cardinality(H) <= Cardinality(Handlers)
          /\ Cardinality(Handlers) \in Nat
      BY GrantingFinite
    <3>3. CASE d = r.dev
      <4>1. grants[d] = 0
        BY <1>1, <2>5, <3>3 DEF GrantInv
      <4> QED
        BY <1>1, <3>1, <3>2, <4>1
    <3>4. CASE d # r.dev
      <4>1. H \subseteq G
        BY <2>1, <2>2, <3>1, <3>4 DEF Granting
      <4>2. Cardinality(H) <= Cardinality(G)
        BY <4>1, GrantingFinite, FS_Subset
      <4>3. grants[d] + Cardinality(G) <= Cardinality(Handlers) /\ grants[d] \in Nat
        BY <1>1, <3>1 DEF GrantInv
      <4> QED
        BY <1>1, <3>1, <3>2, <4>2, <4>3
    <3> QED
      BY <3>3, <3>4
  <2> QED
    BY <2>3, <2>4, <2>6 DEF GrantInv
<1> QED
  BY <1>2, <1>3, <1>4 DEF GrantAlready

\* The session that is added is one every check finds.
LEMMA AddGrants ==
  ASSUME TypeInv, GrantInv, NEW h \in Handlers, GrantAdd(h)
  PROVE  GrantInv'
<1>1. /\ HandlersOK /\ StoreOK /\ maintenance' = maintenance /\ now' = now
      /\ handler \in [Handlers -> HandlerStates]
      /\ grants \in [Ids -> Nat] /\ now \in Nat /\ now \in 0..MaxClock /\ maintenance.enabledAt \in Nat
      /\ FreeMB \in Nat
  BY GrantTypes, Assumed DEF GrantAdd, world, HandlersOK
<1>2. PICK r \in Adding : r = handler[h] /\ r.step = "add"
  BY <1>1, HandlerKind DEF GrantAdd, AtStep
<1>3. PICK d \in Ids : d = r.dev
  BY DEF Adding
<1>4. /\ RoomForSession /\ AddSession(d, TRUE, FreeMB, now) /\ grants' = [grants EXCEPT ![d] = @ + 1]
      /\ Then(h, "open", r.ip)
  BY <1>2, <1>3 DEF GrantAdd
<1>5. /\ \A e : Kept(e)
      /\ Len(sessions') \in SessionsOf(d)' /\ sessions'[Len(sessions')].free = TRUE
      /\ sessions'[Len(sessions')].at = now
  BY <1>1, <1>4, SessionAdded
<1>6. /\ handler'[h].step = "open" /\ \A g \in Handlers : g # h => handler'[g] = handler[g]
  BY <1>1, <1>4 DEF Then, Continue
<1>7. maintenance'.enabledAt <= now' /\ \A g \in Handlers : handler'[g].step = "already" => handler'[g].since <= now'
  BY <1>1, <1>6 DEF GrantInv
<1>8. ASSUME NEW e \in Ids, grants'[e] >= 1 PROVE Seen(e)'
  <2>1. CASE e = d
    <3>1. Found(sessions[Len(sessions)])'
      BY <1>1, <1>5, <1>7 DEF Found
    <3> QED
      BY <1>5, <2>1, <3>1 DEF Seen
  <2>2. CASE e # d
    <3>1. grants[e] >= 1
      BY <1>1, <1>4, <1>8, <2>2
    <3>2. PICK s \in SessionsOf(e) : Found(sessions[s])
      BY <3>1 DEF GrantInv, Seen
    <3>3. s \in SessionsOf(e)'
      BY <1>5, <3>2 DEF Kept, SessionsOf
    <3>4. Found(sessions[s])'
      BY <1>1, <1>5, <1>6, <3>2 DEF Kept, Found
    <3> QED
      BY <3>3, <3>4 DEF Seen
  <2> QED
    BY <2>1, <2>2
<1>9. ASSUME NEW e \in Ids PROVE (grants[e] + Cardinality(Granting(e)) <= Cardinality(Handlers))'
  <2>1. PICK G, H \in SUBSET Handlers : G = Granting(e) /\ H = Granting(e)'
    BY DEF Granting
  <2>2. IsFiniteSet(G) /\ Cardinality(G) \in Nat /\ Cardinality(H) \in Nat /\ Cardinality(Handlers) \in Nat
    BY GrantingFinite
  <2>3. H = G \ {h}
    BY <1>6, <2>1 DEF Granting
  <2>4. grants[e] + Cardinality(G) <= Cardinality(Handlers) /\ grants[e] \in Nat
    BY <1>1, <2>1 DEF GrantInv
  <2>5. Cardinality(H) = IF h \in G THEN Cardinality(G) - 1 ELSE Cardinality(G)
    BY <2>2, <2>3, FS_RemoveElement
  <2>6. h \in G <=> e = d
    BY <1>2, <1>3, <2>1 DEF Granting
  <2>7. grants'[e] = IF e = d THEN grants[e] + 1 ELSE grants[e]
    BY <1>1, <1>4
  <2> QED
    BY <2>1, <2>2, <2>4, <2>5, <2>6, <2>7
<1> QED
  BY <1>7, <1>8, <1>9 DEF GrantInv

\* A new window: nobody has been granted anything.
LEMMA WindowGrants ==
  ASSUME TypeInv, GrantInv, NEW h \in Handlers, SetMaintenance(h)
  PROVE  GrantInv'
<1>1. /\ HandlersOK /\ now' = now /\ grants' = [d \in Ids |-> 0] /\ now \in Nat
      /\ handler \in [Handlers -> HandlerStates]
  BY GrantTypes DEF SetMaintenance, world, HandlersOK
<1>2. maintenance'.enabledAt <= now'
  BY <1>1 DEF SetMaintenance
<1>3. PICK y : handler' = [handler EXCEPT ![h] = y] /\ y.step \notin {"already", "add"}
  <2>1. ~GrantMode(h) /\ ~GrantAlready(h) /\ Serve(h)
    BY DEF SetMaintenance, GrantMode, GrantAlready, AtStep, Serve
  <2> QED
    BY <1>1, <2>1, HandlerTurns
<1>4. \A g \in Handlers : handler'[g].step = "already" => handler'[g].since <= now'
  BY <1>1, <1>3 DEF GrantInv
<1>5. ASSUME NEW d \in Ids PROVE (grants[d] + Cardinality(Granting(d)) <= Cardinality(Handlers))'
  <2>1. PICK H \in SUBSET Handlers : H = Granting(d)'
    BY DEF Granting
  <2>2. Cardinality(H) \in Nat /\ Cardinality(H) <= Cardinality(Handlers)
    BY GrantingFinite
  <2> QED
    BY <1>1, <2>1, <2>2
<1> QED
  BY <1>1, <1>2, <1>4, <1>5 DEF GrantInv

LEMMA SameSessions ==
  ASSUME sessions' = sessions
  PROVE  \A d : Kept(d)
<1> QED
  BY DEF Kept, SessionsOf

\* What the other requests do to the sessions of a device whose grants stand.
LEMMA ServeGrants ==
  ASSUME TypeInv, GrantInv, NEW h \in Handlers, Serve(h) \/ ClientRequest(h) \/ AdminRequest(h),
         ~GrantMode(h), ~GrantAlready(h), ~GrantAdd(h), ~SetMaintenance(h)
  PROVE  GrantInv'
<1>1. /\ HandlersOK /\ StoreOK /\ handler \in [Handlers -> HandlerStates] /\ now \in 0..MaxClock /\ now \in Nat
      /\ grants \in [Ids -> Nat]
      /\ FreeMB \in Nat /\ PaidMB \in Nat /\ ShareMB \in Nat /\ DOMAIN devices \subseteq Ids
  BY GrantTypes, Rows, Assumed DEF HandlersOK
<1>2. maintenance' = maintenance /\ now' = now
  BY DEF Serve, ClientRequest, AdminRequest, UpsertUnknown, ConnectBegin, ConnectUsage,
     Credit, CancelUsage, ShareCheck, ShareDeduct, ShareCredit, Merge, Address, Open, Close,
     AdminAddSession, AdminUsage, AdminBlock, AdminClearMB, AdminDelSession, SweepDevices, Sweep, world
<1>3. PICK y : handler' = [handler EXCEPT ![h] = y] /\ y.step \notin {"already", "add"}
  BY <1>1, HandlerTurns
<1>4. \A g \in Handlers : handler'[g] = handler[g] \/ handler'[g].step \notin {"already", "add"}
  BY <1>1, <1>3
<1> DEFINE Goal == grants' \in [Ids -> Nat] /\ \A d \in Ids : grants'[d] = 0 \/ (grants'[d] = grants[d] /\ Kept(d))
<1> SUFFICES Goal
  BY <1>1, <1>2, <1>4, GrantsKept
<1>5. ASSUME grants' = grants, \A d : Kept(d) PROVE Goal
  BY <1>1, <1>5
<1>6. ASSUME NEW e, grants' = [grants EXCEPT ![e] = 0], \A d : d # e => Kept(d) PROVE Goal
  BY <1>1, <1>6
<1> HIDE DEF Goal
<1>7. CASE ClientRequest(h) \/ AdminRequest(h)
  BY <1>5, <1>7, SameSessions DEF ClientRequest, AdminRequest, storeVars
<1>8. CASE UpsertUnknown(h)
  BY <1>5, <1>8, SameSessions DEF UpsertUnknown, UpsertDevice
<1>9. CASE Credit(h)
  <2>1. PICK d \in Ids : d = handler[h].dev
    BY <1>1, <1>9, HandlerKind DEF Credit, AtStep, Asking
  <2>2. RoomForSession /\ AddSession(d, FALSE, PaidMB, now) /\ grants' = grants
    BY <1>9, <2>1 DEF Credit
  <2> QED
    BY <1>1, <1>5, <2>2, SessionAdded
<1>10. CASE ShareCredit(h)
  <2>1. PICK d \in Ids : d = handler[h].to
    BY <1>1, <1>10, HandlerKind DEF ShareCredit, AtStep, Asking
  <2>2. RoomForSession /\ AddSession(d, TRUE, ShareMB, now) /\ grants' = grants
    BY <1>10, <2>1 DEF ShareCredit
  <2> QED
    BY <1>1, <1>5, <2>2, SessionAdded
<1>11. CASE AdminAddSession(h)
  <2>1. PICK d \in Ids : d = handler[h].dev
    BY <1>1, <1>11, HandlerKind DEF AdminAddSession, AtStep, Managing
  <2>2. RoomForSession /\ AddSession(d, TRUE, FreeMB, now) /\ grants' = grants
    BY <1>11, <2>1 DEF AdminAddSession
  <2> QED
    BY <1>1, <1>5, <2>2, SessionAdded
<1>12. CASE ShareDeduct(h)
  <2>1. ShareMB \in Int
    BY <1>1
  <2> QED
    BY <1>1, <1>5, <1>12, <2>1, UsageCharged DEF ShareDeduct
<1>13. CASE AdminBlock(h)
  BY <1>1, <1>5, <1>13, DataExhausted DEF AdminBlock
<1>14. CASE Merge(h)
  <2>1. PICK d \in Ids : d = handler[h].dev
    BY <1>1, <1>14, HandlerKind DEF Merge, AtStep, Asking
  <2>2. PICK old : MergeDeviceSessions(old, d) /\ grants' = [grants EXCEPT ![old] = 0]
    BY <1>14, <2>1 DEF Merge
  <2> QED
    BY <1>1, <1>6, <2>2, SessionsMerged
<1>15. CASE AdminClearMB(h)
  BY <1>1, <1>6, <1>15, SessionsCleared DEF AdminClearMB
<1>16. CASE AdminDelSession(h)
  <2> PICK d : d = handler[h].dev
    OBVIOUS
  <2>1. PICK s \in SessionsOf(d) \cup {0} : RemoveSession(s) /\ grants' = [grants EXCEPT ![d] = 0]
    BY <1>16 DEF AdminDelSession
  <2>2. \A e : e # d => s \notin SessionsOf(e)
    BY <1>1, Rows DEF SessionsOf
  <2>3. \A e : e # d => Kept(e)
    BY <1>1, <2>1, <2>2, SessionRemoved
  <2> QED
    BY <1>6, <2>1, <2>3
<1>17. CASE \/ ConnectBegin(h) \/ ConnectUsage(h) \/ CancelUsage(h) \/ ShareCheck(h) \/ Address(h) \/ Open(h)
            \/ Close(h) \/ AdminUsage(h) \/ SweepDevices(h) \/ Sweep(h)
  <2>1. sessions' = sessions /\ grants' = grants
    BY <1>17 DEF ConnectBegin, ConnectUsage, CancelUsage, ShareCheck, Address, Open, Close, AdminUsage, SweepDevices,
       Sweep, storeVars
  <2> QED
    BY <1>5, <2>1, SameSessions
<1> QED
  BY <1>7, <1>8, <1>9, <1>10, <1>11, <1>12, <1>13, <1>14, <1>15, <1>16, <1>17 DEF Serve

LEMMA GrantStep == TypeInv /\ GrantInv /\ [Next]_vars => GrantInv'
<1> SUFFICES ASSUME TypeInv, GrantInv, [Next]_vars PROVE GrantInv'
  OBVIOUS
<1>1. StoreOK /\ grants \in [Ids -> Nat] /\ now \in Nat /\ WatcherOK /\ PollerOK
  BY GrantTypes DEF TypeInv
<1>2. ASSUME maintenance' = maintenance, now' = now \/ now' = now + 1, grants' = grants, \A d : Kept(d),
             handler' = handler \/ handler' = [h \in Handlers |-> Idle]
      PROVE  GrantInv'
  <2>1. \A h \in Handlers : handler'[h] = handler[h] \/ handler'[h].step \notin {"already", "add"}
    BY <1>2 DEF Idle
  <2> QED
    BY <1>1, <1>2, <2>1, GrantsKept
<1>3. CASE Watch
  <2>1. maintenance' = maintenance /\ now' = now /\ grants' = grants /\ handler' = handler /\ sessions' = sessions
    BY <1>3 DEF Watch, WatcherTick, WatcherNext, WatcherAct, WatcherReconnect, world, storeVars, UpsertDevice
  <2> QED
    BY <1>2, <2>1, SameSessions
<1>4. CASE PollerCharge
  <2>1. poller.counters[poller.ip] \in Int
    BY <1>1, <1>4, Assumed DEF PollerCharge, PollerOK, Polling, Idle
  <2>2. \A d : Kept(d)
    BY <1>1, <1>4, <2>1, UsageCharged DEF PollerCharge
  <2> QED
    BY <1>2, <1>4, <2>2 DEF PollerCharge, world
<1>5. CASE PollerTick \/ PollerNext \/ PollerCheck \/ PollerRemove \/ UNCHANGED vars
  <2>1. maintenance' = maintenance /\ now' = now /\ grants' = grants /\ handler' = handler /\ sessions' = sessions
    BY <1>5 DEF PollerTick, PollerNext, PollerCheck, PollerRemove, world, storeVars, vars
  <2> QED
    BY <1>2, <2>1, SameSessions
<1>6. CASE Environment
  <2>1. /\ maintenance' = maintenance /\ (now' = now \/ now' = now + 1) /\ grants' = grants /\ sessions' = sessions
        /\ handler' = handler \/ handler' = [h \in Handlers |-> Idle]
    BY <1>6 DEF Environment, Join, LearnLease, Leave, Traffic, ClockTick, Crash, world, storeVars, UpsertDevice
  <2> QED
    BY <1>2, <2>1, SameSessions
<1> QED
  BY <1>3, <1>4, <1>5, <1>6, ModeGrants, AlreadyGrants, AddGrants, WindowGrants, ServeGrants DEF Next, Poll

\* However the checks and the inserts of concurrent connects, merges, admin requests and
\* changes of the mode interleave, a device has at most one grant of a window for each
\* request that is served at a time (maintenance.go:99-113).
THEOREM GrantsAlwaysBounded == Spec => []GrantsBounded
<1>1. Init => GrantInv
  <2> SUFFICES ASSUME Init PROVE GrantInv
    OBVIOUS
  <2>1. \A h \in Handlers : handler[h].step = "idle"
    BY DEF Init, Idle
  <2>2. \A d \in Ids : Granting(d) = {} /\ grants[d] = 0
    BY <2>1 DEF Init, Granting
  <2>3. Cardinality({}) = 0 /\ Cardinality(Handlers) \in Nat
    BY FS_EmptySet, GrantingFinite
  <2>4. maintenance.enabledAt <= now
    BY DEF Init
  <2>5. \A d \in Ids : ~(grants[d] >= 1) /\ grants[d] + Cardinality(Granting(d)) <= Cardinality(Handlers)
    BY <2>2, <2>3
  <2> QED
    BY <2>1, <2>4, <2>5 DEF GrantInv
<1>2. TypeInv /\ GrantInv => GrantsBounded
  <2> SUFFICES ASSUME TypeInv, GrantInv, NEW d \in Ids PROVE grants[d] <= Cardinality(Handlers)
    BY DEF GrantsBounded
  <2>1. PICK G \in SUBSET Handlers : G = Granting(d)
    BY DEF Granting
  <2>2. Cardinality(G) \in Nat /\ Cardinality(Handlers) \in Nat /\ grants[d] \in Nat
    BY GrantingFinite, GrantTypes
  <2>3. grants[d] + Cardinality(G) <= Cardinality(Handlers)
    BY <2>1 DEF GrantInv
  <2> QED
    BY <2>2, <2>3
<1> QED
  BY <1>1, <1>2, InitTypes, TypeStep, GrantStep, PTL DEF Spec
=============================================================================
