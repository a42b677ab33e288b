----------------------------- MODULE HubProofs -----------------------------
(***************************************************************************)
(* Safety of the hub for any number of pages, panels, devices and senders. *)
(***************************************************************************)
EXTENDS Hub, TLAPS

\* A page the hub has ever known has been registered, and is registered once: the channel
\* of a page that is still to come is open.
KnownWereRegistered ==
  \A c \in clients \cup closed : page[c] \notin {"away", "registering"}

IInv == TypeOK /\ KnownWereRegistered /\ RegisteredAreOpen

\* A send leaves every buffer within its capacity.
LEMMA TrySendTyped ==
  ASSUME TypeOK, NEW to, TrySend(to)
  PROVE  buffer' \in [Clients -> 0..BufSize]
<1>1. BufSize \in Nat
  BY HubAssumption
<1>2. ASSUME NEW c \in Clients PROVE buffer[c] < BufSize => buffer[c] + 1 \in 0..BufSize
  BY <1>1 DEF TypeOK
<1> QED
  BY <1>2 DEF TypeOK, TrySend

LEMMA InitEstablishes == Init => IInv
<1> SUFFICES ASSUME Init PROVE IInv
  OBVIOUS
<1>1. TypeOK
  BY HubAssumption DEF Init, TypeOK, Idle
<1>2. KnownWereRegistered /\ RegisteredAreOpen
  BY DEF Init, KnownWereRegistered, RegisteredAreOpen
<1> QED
  BY <1>1, <1>2 DEF IInv

LEMMA StepPreserves == IInv /\ [Next]_vars => IInv'
<1> SUFFICES ASSUME IInv, [Next]_vars PROVE IInv'
  OBVIOUS
<1> USE DEF IInv
<1>1. ASSUME NEW c \in Clients, Upgrade(c) PROVE IInv'
  BY <1>1 DEF Upgrade, TypeOK, KnownWereRegistered, RegisteredAreOpen
<1>2. ASSUME NEW c \in Clients, Register(c) PROVE IInv'
  BY <1>2 DEF Register, TypeOK, KnownWereRegistered, RegisteredAreOpen
<1>3. ASSUME NEW c \in Clients, Serve(c) PROVE IInv'
  <2>1. CASE Push(c)
    <3>1. buffer' \in [Clients -> 0..BufSize]
      BY <2>1, TrySendTyped DEF Push
    <3> QED
      BY <2>1, <3>1 DEF Push, TypeOK, KnownWereRegistered, RegisteredAreOpen
  <2>2. CASE Unidentified(c)
    BY <2>2 DEF Unidentified, TypeOK, KnownWereRegistered, RegisteredAreOpen
  <2>3. ASSUME NEW d \in Devs, SetClientDeviceID(c, d) PROVE IInv'
    BY <2>3 DEF SetClientDeviceID, TypeOK, KnownWereRegistered, RegisteredAreOpen
  <2> QED
    BY <1>3, <2>1, <2>2, <2>3 DEF Serve
<1>4. ASSUME NEW c \in Clients, ReadFails(c) PROVE IInv'
  BY <1>4 DEF ReadFails, TypeOK, KnownWereRegistered, RegisteredAreOpen
<1>5. ASSUME NEW c \in Clients, Unregister(c) PROVE IInv'
  <2>1. TypeOK'
    BY <1>5 DEF Unregister, TypeOK
  <2>2. KnownWereRegistered' /\ RegisteredAreOpen'
    BY <1>5 DEF Unregister, KnownWereRegistered, RegisteredAreOpen
  <2> QED
    BY <2>1, <2>2
<1>6. ASSUME NEW c \in Clients, Write(c) PROVE IInv'
  <2>1. buffer[c] - 1 \in 0..BufSize
    BY <1>6, HubAssumption DEF Write, TypeOK
  <2> QED
    BY <1>6, <2>1 DEF Write, TypeOK, KnownWereRegistered, RegisteredAreOpen, pumps
<1>7. ASSUME NEW c \in Clients, WriterEnds(c) PROVE IInv'
  BY <1>7 DEF WriterEnds, TypeOK, KnownWereRegistered, RegisteredAreOpen
<1>8. ASSUME NEW s \in Senders, Send(s) PROVE IInv'
  <2>1. CASE BroadcastAll(s)
    BY <2>1 DEF BroadcastAll, TypeOK, KnownWereRegistered, RegisteredAreOpen, pumps
  <2>2. CASE SendToAdmins(s)
    <3>1. buffer' \in [Clients -> 0..BufSize]
      BY <2>2, TrySendTyped DEF SendToAdmins
    <3> QED
      BY <2>2, <3>1 DEF SendToAdmins, TypeOK, KnownWereRegistered, RegisteredAreOpen, pumps
  <2>3. ASSUME NEW d \in Devs, SendToDevice(s, d) PROVE IInv'
    <3>1. byDevID[d] \in Clients
      BY <2>3 DEF SendToDevice, TypeOK
    <3> QED
      BY <2>3, <3>1 DEF SendToDevice, TypeOK, KnownWereRegistered, RegisteredAreOpen, pumps
  <2> QED
    BY <1>8, <2>1, <2>2, <2>3 DEF Send
<1>9. ASSUME NEW s \in Senders, Call(s) PROVE IInv'
  <2>1. CASE Enqueue(s)
    <3>1. broadcast + 1 \in 0..QueueSize
      BY <2>1, HubAssumption DEF Enqueue, TypeOK
    <3> QED
      BY <2>1, <3>1 DEF Enqueue, TypeOK, KnownWereRegistered, RegisteredAreOpen, pumps
  <2>2. CASE SendToClient(s)
    <3>1. buffer' \in [Clients -> 0..BufSize]
      BY <2>2, TrySendTyped DEF SendToClient
    <3> QED
      BY <2>2, <3>1 DEF SendToClient, TypeOK, KnownWereRegistered, RegisteredAreOpen, pumps
  <2> QED
    BY <1>9, <2>1, <2>2 DEF Call
<1>10. CASE Receive
  <2>1. broadcast - 1 \in 0..QueueSize
    BY <1>10, HubAssumption DEF Receive, TypeOK
  <2> QED
    BY <1>10, <2>1 DEF Receive, TypeOK, KnownWereRegistered, RegisteredAreOpen, pumps
<1>11. CASE Deliver
  <2>1. buffer' \in [Clients -> 0..BufSize]
    BY <1>11, TrySendTyped DEF Deliver
  <2> QED
    BY <1>11, <2>1 DEF Deliver, TypeOK, KnownWereRegistered, RegisteredAreOpen, pumps
<1>12. CASE Stop
  BY <1>12 DEF Stop, TypeOK, KnownWereRegistered, RegisteredAreOpen, pumps
<1>13. CASE UNCHANGED vars
  BY <1>13 DEF vars, TypeOK, KnownWereRegistered, RegisteredAreOpen
<1> QED
  BY <1>1, <1>2, <1>3, <1>4, <1>5, <1>6, <1>7, <1>8, <1>9, <1>10, <1>11, <1>12, <1>13 DEF Next

\* The strengthened invariant holds of every behaviour.
THEOREM Inductive == Spec => []IInv
<1>1. Init => IInv
  BY InitEstablishes
<1>2. IInv /\ [Next]_vars => IInv'
  BY StepPreserves
<1> QED
  BY <1>1, <1>2, PTL DEF Spec

\* However many pages come and go, every variable of the hub keeps its type and no channel
\* holds more than its capacity: a send to a full page is dropped (hub.go:115-123, 164-167).
THEOREM TypeCorrect == Spec => []TypeOK
<1>1. IInv => TypeOK
  BY DEF IInv
<1> QED
  BY <1>1, Inductive, PTL

\* While the hub runs, SendToAdmins and the broadcasts reach only open channels, so they
\* never panic (hub.go:102-110, 116-122, 205-212).
THEOREM SendersNeverPanic == Spec => []RegisteredAreOpen
<1>1. IInv => RegisteredAreOpen
  BY DEF IInv
<1> QED
  BY <1>1, Inductive, PTL
=============================================================================
