------------------------------- MODULE Store -------------------------------
(***************************************************************************)
(* internal/db/store.go: the tables devices and session, and the           *)
(* statements on them.  The pool has one connection, so a statement is     *)
(* atomic; a handler that issues two of them is not.  A row's rowid is its *)
(* position; a deleted session row keeps its place and belongs to nobody,  *)
(* because AUTOINCREMENT never uses a rowid twice.                         *)
(***************************************************************************)
EXTENDS Integers, SequencesExt, FiniteSetsExt

VARIABLES
  devices,   \* rows of devices: mac_addr, ip_addr
  order,     \* device ids by updated_at, the latest last
  sessions,  \* rows of session: device_id, piso_count = 0, mb_limit, mb_used, created_at
  lastId     \* last_insert_rowid() of the connection: the latest INSERT into any table

storeVars == <<devices, order, sessions, lastId>>

NoDevice == 0
NoSession == [dev |-> NoDevice, free |-> TRUE, limit |-> 0, used |-> 0, at |-> 0]

-----------------------------------------------------------------------------
(* Queries.                                                                *)

GetDeviceIDByMAC(mac) ==
  LET rows == {d \in DOMAIN devices : devices[d].mac = mac} IN
  IF rows = {} THEN NoDevice ELSE CHOOSE d \in rows : TRUE

\* Several rows can have the same IP; the one updated last counts.
GetDeviceIDByIP(ip) ==
  LET at == {k \in DOMAIN order : devices[order[k]].ip = ip} IN
  IF at = {} THEN NoDevice ELSE order[Max(at)]

SessionsOf(d) == {s \in DOMAIN sessions : sessions[s].dev = d}

\* GetDataUsage: SUM(mb_limit) - SUM(mb_used), 0 for a device without sessions.
Remaining(d) == MapThenSumSet(LAMBDA s : sessions[s].limit - sessions[s].used, SessionsOf(d))
HasData(d) == Remaining(d) > 0

OpenSessions(d) == {s \in SessionsOf(d) : sessions[s].limit > sessions[s].used}

HasFreeSessionSince(d, since) ==
  \E s \in SessionsOf(d) : sessions[s].free /\ sessions[s].at >= since

-----------------------------------------------------------------------------
(* Statements.                                                             *)

\* Mutant: a plain INSERT.
InsertDevice(mac, ip) ==
  /\ devices' = Append(devices, [mac |-> mac, ip |-> ip])
  /\ order' = Append(order, Len(devices) + 1)
  /\ lastId' = Len(devices) + 1
  /\ UNCHANGED sessions

Position(d) == CHOOSE k \in DOMAIN order : order[k] = d

\* INSERT ... ON CONFLICT(mac_addr) DO UPDATE.
UpsertDevice(mac, ip) ==
  LET old == GetDeviceIDByMAC(mac)
      new == Len(devices) + 1
  IN
  /\ IF old = NoDevice
     THEN /\ devices' = Append(devices, [mac |-> mac, ip |-> ip])
          /\ order' = Append(order, new)
          /\ lastId' = new
     ELSE /\ devices' = [devices EXCEPT ![old].ip = ip]
          /\ order' = Append(RemoveAt(order, Position(old)), old)
          /\ UNCHANGED lastId
  /\ UNCHANGED sessions

\* What UpsertDevice returns: LastInsertId, which an update leaves alone.
UpsertedId(mac) ==
  IF GetDeviceIDByMAC(mac) = NoDevice THEN Len(devices) + 1 ELSE lastId

AddSession(d, free, mb, now) ==
  /\ sessions' = Append(sessions, [dev |-> d, free |-> free, limit |-> mb, used |-> 0, at |-> now])
  /\ lastId' = Len(sessions) + 1
  /\ UNCHANGED <<devices, order>>

\* The whole amount goes to the device's first session with room, even beyond its
\* limit; without one the statement updates no row.
UpdateMBUsed(d, mb) ==
  /\ sessions' = IF OpenSessions(d) = {} THEN sessions
                 ELSE [sessions EXCEPT ![Min(OpenSessions(d))].used = @ + mb]
  /\ UNCHANGED <<devices, order, lastId>>

ForceExhaustData(d) ==
  /\ sessions' = [s \in DOMAIN sessions |->
                    IF s \in OpenSessions(d) THEN [sessions[s] EXCEPT !.used = sessions[s].limit]
                    ELSE sessions[s]]
  /\ UNCHANGED <<devices, order, lastId>>

RemoveSession(s) ==
  /\ sessions' = [t \in DOMAIN sessions |-> IF t = s THEN NoSession ELSE sessions[t]]
  /\ UNCHANGED <<devices, order, lastId>>

MergeDeviceSessions(old, new) ==
  /\ sessions' = [s \in DOMAIN sessions |->
                    IF s \in SessionsOf(old) THEN [sessions[s] EXCEPT !.dev = new] ELSE sessions[s]]
  /\ UNCHANGED <<devices, order, lastId>>

ClearSessions(d) ==
  /\ sessions' = [s \in DOMAIN sessions |-> IF s \in SessionsOf(d) THEN NoSession ELSE sessions[s]]
  /\ UNCHANGED <<devices, order, lastId>>
=============================================================================
