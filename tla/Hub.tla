-------------------------------- MODULE Hub --------------------------------
(***************************************************************************)
(* internal/ws/hub.go: the WebSocket hub.  One goroutine (Run) registers   *)
(* and unregisters pages and passes broadcasts on; every page has a        *)
(* goroutine that reads its socket and one that writes it; request         *)
(* handlers and the background loops send.  A page is a Client: a new      *)
(* connection is a new one.                                                *)
(*                                                                         *)
(* What is under h.mu is one step.  SendToDevice looks its client up under *)
(* h.mu and sends without it, so it is two.                                *)
(***************************************************************************)
EXTENDS Naturals, FiniteSets

CONSTANTS
  Clients,    \* connections of portal pages and admin panels
  Admins,     \* the admin panels among them
  Devs,       \* device ids
  Senders,    \* goroutines that send to pages
  NoDev, NoClient,
  BufSize,    \* capacity of Client.send (64)
  QueueSize   \* capacity of Hub.broadcast (256)

ASSUME HubAssumption ==
  /\ Admins \subseteq Clients
  /\ NoDev \notin Devs /\ NoClient \notin Clients
  /\ BufSize \in Nat \ {0} /\ QueueSize \in Nat \ {0}

VARIABLES
  hub,        \* Run: in its select, delivering a broadcast, or returned
  clients,    \* Hub.clients
  byDevID,    \* Hub.byDevID
  broadcast,  \* messages in Hub.broadcast
  devID,      \* Client.devID
  closed,     \* clients whose send channel is closed
  buffer,     \* messages in Client.send
  page,       \* the handler that serves the connection
  reader,     \* readPump
  writer,     \* writePump
  sender      \* what each sending goroutine does next

vars == <<hub, clients, byDevID, broadcast, devID, closed, buffer, page, reader, writer, sender>>
pumps == <<page, reader, writer>>

Idle == [step |-> "idle"]

\* Every variable has its type; no channel holds more than its capacity.
TypeOK ==
  /\ hub \in {"select", "deliver", "stopped"}
  /\ clients \subseteq Clients /\ closed \subseteq Clients
  /\ byDevID \in [Devs -> Clients \cup {NoClient}]
  /\ broadcast \in 0..QueueSize
  /\ devID \in [Clients -> Devs \cup {NoDev}]
  /\ buffer \in [Clients -> 0..BufSize]
  /\ page \in [Clients -> {"away", "registering", "registered", "pushing", "served"}]
  /\ reader \in [Clients -> {"none", "reading", "unregistering", "done"}]
  /\ writer \in [Clients -> {"none", "writing", "stopped"}]
  /\ sender \in [Senders -> {Idle, [step |-> "broadcast"]} \cup
                            [step : {"send"}, to : Clients]]

Init ==
  /\ hub = "select" /\ clients = {} /\ broadcast = 0 /\ closed = {}
  /\ byDevID = [d \in Devs |-> NoClient]
  /\ devID = [c \in Clients |-> NoDev]
  /\ buffer = [c \in Clients |-> 0]
  /\ page = [c \in Clients |-> "away"]
  /\ reader = [c \in Clients |-> "none"]
  /\ writer = [c \in Clients |-> "none"]
  /\ sender = [s \in Senders |-> Idle]

\* Mutant: a send that does not look at the capacity.
SendRegardless(to) == buffer' = [c \in Clients |-> IF c \in to THEN buffer[c] + 1 ELSE buffer[c]]

\* select { case c.send <- msg: default: }: a full buffer drops the message.  On a closed
\* channel this panics; SendToClient recovers, the other senders do not.
TrySend(to) ==
  buffer' = [c \in Clients |->
               IF c \in to \ closed /\ buffer[c] < BufSize THEN buffer[c] + 1 ELSE buffer[c]]

-----------------------------------------------------------------------------
(* The life of a page.                                                     *)

Upgrade(c) ==
  /\ page[c] = "away"
  /\ page' = [page EXCEPT ![c] = "registering"]
  /\ UNCHANGED <<hub, clients, byDevID, broadcast, devID, closed, buffer, reader, writer, sender>>

\* h.register <- client, received by Run; then the pumps are started.
Register(c) ==
  /\ hub = "select" /\ page[c] = "registering"
  /\ clients' = clients \cup {c}
  /\ page' = [page EXCEPT ![c] = "registered"]
  /\ reader' = [reader EXCEPT ![c] = "reading"]
  /\ writer' = [writer EXCEPT ![c] = "writing"]
  /\ UNCHANGED <<hub, byDevID, broadcast, devID, closed, buffer, sender>>

\* handleClientWS finds the device and calls SetClientDeviceID, which may be after the
\* page has gone.  (No client has a device before, so nothing is unrouted.)
SetClientDeviceID(c, d) ==
  /\ page[c] = "registered" /\ c \notin Admins
  /\ devID' = [devID EXCEPT ![c] = d]
  /\ byDevID' = [byDevID EXCEPT ![d] = c]
  /\ page' = [page EXCEPT ![c] = "pushing"]
  /\ UNCHANGED <<hub, clients, broadcast, closed, buffer, reader, writer, sender>>

\* handleAdminWS has no device; a page at an unknown IP is only told so.
Unidentified(c) ==
  /\ page[c] = "registered"
  /\ page' = [page EXCEPT ![c] = "pushing"]
  /\ UNCHANGED <<hub, clients, byDevID, broadcast, devID, closed, buffer, reader, writer, sender>>

\* SendToClient of the state a new page shows.
Push(c) ==
  /\ page[c] = "pushing"
  /\ TrySend({c})
  /\ page' = [page EXCEPT ![c] = "served"]
  /\ UNCHANGED <<hub, clients, byDevID, broadcast, devID, closed, reader, writer, sender>>

\* The page is closed, its pong is late, or writePump closed the connection.
ReadFails(c) ==
  /\ reader[c] = "reading"
  /\ reader' = [reader EXCEPT ![c] = "unregistering"]
  /\ UNCHANGED <<hub, clients, byDevID, broadcast, devID, closed, buffer, page, writer, sender>>

\* Mutant: the channel is closed and the client stays in the map.
UnregisterKeeping(c) ==
  /\ hub = "select" /\ reader[c] = "unregistering"
  /\ closed' = closed \cup {c}
  /\ reader' = [reader EXCEPT ![c] = "done"]
  /\ UNCHANGED <<hub, clients, byDevID, broadcast, devID, buffer, page, writer, sender>>

\* Mutant: the goroutine goes, the client stays.
UnregisterNot(c) ==
  /\ hub = "select" /\ reader[c] = "unregistering"
  /\ reader' = [reader EXCEPT ![c] = "done"]
  /\ UNCHANGED <<hub, clients, byDevID, broadcast, devID, closed, buffer, page, writer, sender>>

\* h.unregister <- c, received by Run: the route of the device goes, whoever has it.
Unregister(c) ==
  /\ hub = "select" /\ reader[c] = "unregistering"
  /\ IF c \in clients
     THEN /\ clients' = clients \ {c}
          /\ closed' = closed \cup {c}
          /\ byDevID' = [d \in Devs |-> IF d = devID[c] THEN NoClient ELSE byDevID[d]]
     ELSE UNCHANGED <<clients, closed, byDevID>>
  /\ reader' = [reader EXCEPT ![c] = "done"]
  /\ UNCHANGED <<hub, broadcast, devID, buffer, page, writer, sender>>

\* writePump: a message or a close frame, or a write that fails and ends it.
Write(c) ==
  /\ writer[c] = "writing" /\ buffer[c] > 0
  /\ buffer' = [buffer EXCEPT ![c] = @ - 1]
  /\ UNCHANGED <<hub, clients, byDevID, broadcast, devID, closed, pumps, sender>>

WriterEnds(c) ==
  /\ writer[c] = "writing"
  /\ writer' = [writer EXCEPT ![c] = "stopped"]
  /\ UNCHANGED <<hub, clients, byDevID, broadcast, devID, closed, buffer, page, reader, sender>>

-----------------------------------------------------------------------------
(* Senders.                                                                *)

\* BroadcastAll waits for room in h.broadcast.
BroadcastAll(s) ==
  /\ sender[s] = Idle
  /\ sender' = [sender EXCEPT ![s] = [step |-> "broadcast"]]
  /\ UNCHANGED <<hub, clients, byDevID, broadcast, devID, closed, buffer, pumps>>

Enqueue(s) ==
  /\ sender[s].step = "broadcast" /\ broadcast < QueueSize
  /\ broadcast' = broadcast + 1
  /\ sender' = [sender EXCEPT ![s] = Idle]
  /\ UNCHANGED <<hub, clients, byDevID, devID, closed, buffer, pumps>>

SendToDevice(s, d) ==
  /\ sender[s] = Idle /\ byDevID[d] # NoClient
  /\ sender' = [sender EXCEPT ![s] = [step |-> "send", to |-> byDevID[d]]]
  /\ UNCHANGED <<hub, clients, byDevID, broadcast, devID, closed, buffer, pumps>>

SendToClient(s) ==
  /\ sender[s].step = "send"
  /\ TrySend({sender[s].to})
  /\ sender' = [sender EXCEPT ![s] = Idle]
  /\ UNCHANGED <<hub, clients, byDevID, broadcast, devID, closed, pumps>>

SendToAdmins(s) ==
  /\ sender[s] = Idle /\ Admins \cap clients # {}
  /\ TrySend(Admins \cap clients)
  /\ UNCHANGED <<hub, clients, byDevID, broadcast, devID, closed, pumps, sender>>

-----------------------------------------------------------------------------
(* Run.                                                                    *)

Receive ==
  /\ hub = "select" /\ broadcast > 0
  /\ broadcast' = broadcast - 1
  /\ hub' = "deliver"
  /\ UNCHANGED <<clients, byDevID, devID, closed, buffer, pumps, sender>>

\* Mutant: no default branch, so that the loop waits for the slowest page.
DeliverToAll ==
  /\ hub = "deliver"
  /\ \A c \in clients : buffer[c] < BufSize
  /\ TrySend(clients)
  /\ hub' = "select"
  /\ UNCHANGED <<clients, byDevID, broadcast, devID, closed, pumps, sender>>

Deliver ==
  /\ hub = "deliver"
  /\ TrySend(clients)
  /\ hub' = "select"
  /\ UNCHANGED <<clients, byDevID, broadcast, devID, closed, pumps, sender>>

\* ctx is done: every channel is closed and the clients stay in the map.
Stop ==
  /\ hub = "select"
  /\ closed' = closed \cup clients
  /\ hub' = "stopped"
  /\ UNCHANGED <<clients, byDevID, broadcast, devID, buffer, pumps, sender>>

-----------------------------------------------------------------------------
Serve(c) == Push(c) \/ Unidentified(c) \/ \E d \in Devs : SetClientDeviceID(c, d)
Call(s) == Enqueue(s) \/ SendToClient(s)
Send(s) == BroadcastAll(s) \/ SendToAdmins(s) \/ \E d \in Devs : SendToDevice(s, d)

Next ==
  \/ \E c \in Clients : \/ Upgrade(c) \/ Register(c) \/ Serve(c) \/ ReadFails(c)
                        \/ Unregister(c) \/ Write(c) \/ WriterEnds(c)
  \/ \E s \in Senders : Send(s) \/ Call(s)
  \/ Receive \/ Deliver \/ Stop

\* Go's select is fair among the ready cases and wakes the goroutines that wait for a
\* channel in turn; a closed connection ends the read.
Fairness ==
  /\ WF_vars(Deliver) /\ SF_vars(Receive)
  /\ \A c \in Clients : SF_vars(Register(c)) /\ SF_vars(Unregister(c)) /\ WF_vars(Serve(c))
  /\ \A c \in Clients : WF_vars(writer[c] = "stopped" /\ ReadFails(c))
  /\ \A s \in Senders : SF_vars(Enqueue(s)) /\ WF_vars(SendToClient(s))

Spec == Init /\ [][Next]_vars /\ Fairness

-----------------------------------------------------------------------------
(* Properties.                                                             *)

\* SendToAdmins and the broadcasts send without recover: while the hub runs, nothing they
\* can reach has a closed channel (hub.go:102-110, 116-122, 205-212).
RegisteredAreOpen == hub # "stopped" => clients \cap closed = {}

\* No page, however slow or dead, keeps a handler waiting: a broadcast is queued, a page
\* registered, until the hub stops (hub.go:117-121, 222, 254).
CallsReturn ==
  /\ \A s \in Senders : sender[s] # Idle ~> sender[s] = Idle \/ hub = "stopped"
  /\ \A c \in Clients : page[c] = "registering" ~> page[c] # "registering" \/ hub = "stopped"

\* A page whose connection broke is forgotten by the hub (hub.go:102-110, 283-315).
BrokenPagesForgotten ==
  \A c \in Clients : writer[c] = "stopped" ~> c \notin clients \/ hub = "stopped"
=============================================================================
