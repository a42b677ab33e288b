--------------------------- MODULE SettingsProofs ---------------------------
(***************************************************************************)
(* Safety of the settings for any number of admins, requests, sessions,    *)
(* failures and deaths of the program, and any values of the settings.     *)
(***************************************************************************)
EXTENDS Settings, FiniteSetTheorems, WellFoundedInduction, TLAPS

\* The steps of each kind of task.
NetSteps == {"hostname", "setHostname", "interfaces", "copy", "dhcpd", "networking", "isc", "hostapd"}
StepsOf(kind) ==
  CASE kind = "none" -> {"idle"}
    [] kind = "login" -> {"compare", "session"}
    [] kind = "init" -> {"password", "session"}
    [] kind = "password" -> {"password"}
    [] kind = "rates" -> {"rates"}
    [] kind = "gpio" -> {"pins", "debounce", "gpio"}
    [] kind = "maintenance" -> {"maintenance", "mode"}
    [] kind = "network" -> NetSteps
    [] kind = "roles" -> NetSteps \cup {"getHostname", "getInterfaces", "getDhcpd"}
    [] kind = "start" -> {"ensure", "copy", "dhcpd", "readKey", "key", "load"}
    [] OTHER -> {}

Fields == {"kind", "step", "open", "val"}

\* The task of one goroutine.
Task(w) ==
  /\ DOMAIN work[w] = Fields
  /\ work[w].kind \in Kinds
  /\ work[w].step \in StepsOf(work[w].kind)
  /\ work[w].open \in BOOLEAN /\ (work[w].open => work[w].step \in Files)
  /\ work[w].kind = "start" => w = Main
  /\ w = Main => work[w].kind \in {"none", "start"}

\* Admins work while the program serves, main while it starts.
Phases ==
  /\ phase \in {"starting", "serving", "down"}
  /\ phase # "serving" => mu = None /\ \A a \in Admins : work[a].kind = "none"
  /\ work[Main].kind = "start" <=> phase = "starting"

Shape ==
  /\ DOMAIN work = Workers /\ DOMAIN file = Files
  /\ \A w \in Workers : Task(w)
  /\ Phases

\* w moves and nobody else.
Alone(w) == DOMAIN work' = Workers /\ \A v \in Workers \ {w} : work'[v] = work[v]

-----------------------------------------------------------------------------
LEMMA InitShape == Init => Shape
<1> SUFFICES ASSUME Init PROVE Shape
  OBVIOUS
<1>1. DOMAIN work = Workers /\ DOMAIN file = Files
  BY DEF Init
<1>2. ASSUME NEW w \in Workers PROVE Task(w)
  <2>1. work[w] = Idle
    BY DEF Init
  <2>2. "idle" \in StepsOf("none")
    BY DEF StepsOf
  <2> QED
    BY <2>1, <2>2 DEF Task, Idle, Fields, Kinds
<1>3. Phases
  BY DEF Init, Phases, Idle, Workers
<1> QED
  BY <1>1, <1>2, <1>3 DEF Shape

\* A request begins.
Arrived(a) ==
  /\ phase = "serving" /\ work[a].step = "idle" /\ Alone(a)
  /\ DOMAIN work'[a] = Fields /\ work'[a].open = FALSE
  /\ work'[a].kind \in Kinds \ {"none", "start"} /\ work'[a].step \in StepsOf(work'[a].kind)
  /\ work'[a].step \notin {"mode", "session"}
  /\ work'[a].kind = "init" => FirstLogin
  /\ mu' # mu => mu = None /\ mu' = a /\ work'[a].kind = "maintenance"
  /\ work'[a].kind = "maintenance" => mu' = a
  /\ UNCHANGED <<phase, file, mode, pins, key, sessions, keys, issued, acked, suspect>>

LEMMA RequestStep ==
  ASSUME Shape, NEW a \in Admins, NEW kind, NEW step, NEW v, Request(a, kind, step, v)
  PROVE  /\ phase = "serving" /\ work[a].step = "idle" /\ Alone(a)
         /\ DOMAIN work'[a] = Fields /\ work'[a].open = FALSE
         /\ work'[a].kind = kind /\ work'[a].step = step
  BY DEF Request, Busy, Shape, Workers, Alone, Fields

LEMMA ArriveStep ==
  ASSUME Shape, NEW a \in Admins, Arrive(a)
  PROVE  Arrived(a)
<1>1. ASSUME NEW p \in Passwords, Login(a, p) PROVE Arrived(a)
  <2>1. UNCHANGED <<phase, file, mode, mu, pins, key, sessions, keys, issued, acked, suspect>>
    BY <1>1 DEF Login, memory, history
  <2>2. CASE FirstLogin /\ Request(a, "init", "password", p)
    <3>1. "init" \in Kinds \ {"none", "start"} /\ "password" \in StepsOf("init")
      BY DEF Kinds, StepsOf
    <3>2. /\ phase = "serving" /\ work[a].step = "idle" /\ Alone(a)
          /\ DOMAIN work'[a] = Fields /\ work'[a].open = FALSE
          /\ work'[a].kind = "init" /\ work'[a].step = "password"
      BY <2>2, RequestStep
    <3> QED
      BY <2>1, <2>2, <3>1, <3>2 DEF Arrived
  <2>3. CASE ~FirstLogin /\ Request(a, "login", "compare", p)
    <3>1. "login" \in Kinds \ {"none", "start"} /\ "compare" \in StepsOf("login")
      BY DEF Kinds, StepsOf
    <3>2. /\ phase = "serving" /\ work[a].step = "idle" /\ Alone(a)
          /\ DOMAIN work'[a] = Fields /\ work'[a].open = FALSE
          /\ work'[a].kind = "login" /\ work'[a].step = "compare"
      BY <2>3, RequestStep
    <3> QED
      BY <2>1, <2>3, <3>1, <3>2 DEF Arrived
  <2> QED
    BY <1>1, <2>2, <2>3 DEF Login
<1>2. ASSUME NEW kind \in Kinds \ {"none", "start"}, NEW step \in StepsOf(kind) \ {"mode", "session"},
             NEW v, kind # "init",
             AdminRequest(a, kind, step, v), IF kind = "maintenance" THEN mu = None /\ mu' = a ELSE UNCHANGED mu
      PROVE  Arrived(a)
  BY <1>2, RequestStep DEF AdminRequest, Arrived
<1> QED
  BY ZenonT(60), <1>1, <1>2
  DEF Arrive, SetPassword, SetRates, SetGPIO, SetMode, SetNetwork, SetRoles, FirstStep, StepsOf, NetSteps,
     Kinds, Groups

\* Where GoOn leads.
LEMMA AfterStep ==
  ASSUME Shape, NEW w \in Workers, work[w].step \notin {"idle", "ensure", "readKey", "load", "getDhcpd"}
  PROVE  After(w) \in StepsOf(work[w].kind) \cup {"idle"}
<1> DEFINE k == work[w].kind
<1> USE DEF After, Successor, StepsOf, NetSteps
<1>0. work[w].step \in StepsOf(k) /\ k \in Kinds
  BY DEF Shape, Task
<1>1. CASE k = "start"
  BY <1>0, <1>1
<1>2. CASE k \in {"network", "roles"}
  BY <1>0, <1>2
<1>3. CASE k \in {"login", "init", "password", "rates", "gpio", "maintenance", "none"}
  BY <1>0, <1>3
<1> QED
  BY <1>0, <1>1, <1>2, <1>3 DEF Kinds, Groups

\* What a goroutine that goes on or gives up leaves of its task.
Goes(w) ==
  /\ Alone(w)
  /\ DOMAIN work'[w] = Fields /\ work'[w].open = FALSE
  /\ \/ work'[w].kind = "none" /\ work'[w].step = "idle" /\ mu' = IF mu = w THEN None ELSE mu
     \/ work'[w].kind = work[w].kind /\ work'[w].step \in StepsOf(work[w].kind) /\ mu' = mu

LEMMA GiveUpGoes ==
  ASSUME Shape, NEW w \in Workers, GiveUp(w)
  PROVE  Goes(w)
BY DEF GiveUp, Goes, Shape, Alone, Idle, Fields

LEMMA GoOnGoes ==
  ASSUME Shape, NEW w \in Workers, work[w].step \notin {"idle", "ensure", "readKey", "load", "getDhcpd"}, GoOn(w)
  PROVE  /\ Goes(w)
         /\ IF After(w) = "idle" THEN work'[w].kind = "none"
            ELSE work'[w].kind = work[w].kind /\ work'[w].step = After(w) /\ work'[w].val = work[w].val
<1>1. CASE After(w) = "idle"
  BY <1>1 DEF GoOn, Done, Answer, Goes, Shape, Alone, Idle, Fields
<1>2. CASE After(w) # "idle"
  BY <1>2, AfterStep DEF GoOn, Goes, Shape, Task, Alone, Fields
<1> QED
  BY <1>1, <1>2

\* A step tells the kinds it can belong to.
LEMMA KindOfStep ==
  ASSUME NEW k \in Kinds, NEW s \in StepsOf(k)
  PROVE  /\ s = "idle" => k = "none"
         /\ s = "compare" => k = "login"
         /\ s = "session" => k \in {"login", "init"}
         /\ s = "password" => k \in {"password", "init"}
         /\ s = "rates" => k = "rates"
         /\ s \in {"pins", "debounce", "gpio"} => k = "gpio"
         /\ s \in {"maintenance", "mode"} => k = "maintenance"
         /\ s \in {"getHostname", "getInterfaces", "getDhcpd"} => k = "roles"
         /\ s \in NetSteps => k \in {"network", "roles", "start"}
         /\ s \in {"ensure", "readKey", "key", "load"} => k = "start"
<1> USE DEF StepsOf, NetSteps
<1>1. CASE k \in {"start", "none"}
  BY <1>1
<1>2. CASE k \in {"network", "roles"}
  BY <1>2
<1>3. CASE k \in {"login", "init", "password"}
  BY <1>3
<1>4. CASE k \in {"rates", "gpio", "maintenance"}
  BY <1>4
<1> QED
  BY <1>1, <1>2, <1>3, <1>4 DEF Kinds, Groups

\* A step that writes no file.
Served(a) ==
  /\ Goes(a)
  /\ work[a].step \notin {"idle"} \cup Files
  /\ UNCHANGED <<phase, file, key, keys, issued, suspect>>
  /\ acked' => acked \/ (work[a].kind = "init" /\ work[a].step = "session")
  /\ IF work[a].step = "mode" THEN mode' = work[a].val /\ work'[a].kind = "none" ELSE mode' = mode
  /\ work'[a].step \notin {"mode", "password", "maintenance"}
  /\ work'[a].kind # "init"

\* Where the steps that write no file lead.
LEMMA GoOnServes ==
  ASSUME Shape, NEW a \in Admins, GoOn(a),
         work[a].step \in {"session", "mode", "pins", "debounce", "setHostname", "networking", "isc", "hostapd"}
  PROVE  /\ Goes(a)
         /\ acked' => acked \/ (work[a].kind = "init" /\ work[a].step = "session")
         /\ work[a].step \in {"session", "mode"} => work'[a].kind = "none"
         /\ work'[a].step \notin {"mode", "password", "maintenance"}
         /\ work'[a].kind # "init"
<1> DEFINE s == work[a].step
<1>1. a \in Workers /\ work[a].kind \in Kinds \ {"start"} /\ s \in StepsOf(work[a].kind)
  BY SettingsAssumption DEF Workers, Shape, Task
<1>2. Goes(a) /\ IF After(a) = "idle" THEN work'[a].kind = "none"
                 ELSE work'[a].kind = work[a].kind /\ work'[a].step = After(a)
  BY <1>1, GoOnGoes
<1>3. After(a) = Successor[s]
  BY <1>1 DEF After
<1>4. CASE s \in {"session", "mode", "hostapd"}
  <2>1. After(a) = "idle"
    BY <1>3, <1>4 DEF Successor
  <2>2. work'[a].step = "idle" /\ work'[a].kind = "none"
    BY <1>1, <1>2, <2>1 DEF GoOn, Done, Answer, Shape, Idle
  <2>3. s # "session" => Group(work[a].kind) # "password"
    BY <1>1, <1>4, KindOfStep DEF Group, NetSteps
  <2>4. s = "session" /\ Group(work[a].kind) = "password" => work[a].kind = "init"
    BY <1>1, KindOfStep DEF Group
  <2> QED
    BY <1>2, <2>1, <2>2, <2>3, <2>4 DEF GoOn, Done, Answer
<1>5. CASE s \in {"pins", "debounce", "setHostname", "networking", "isc"}
  <2>1. After(a) \in {"debounce", "gpio", "interfaces", "isc", "hostapd"}
    BY <1>3, <1>5 DEF Successor
  <2>2. work[a].kind # "init"
    BY <1>1, <1>5, KindOfStep DEF NetSteps
  <2> QED
    BY <1>2, <1>5, <2>1, <2>2 DEF GoOn
<1> QED
  BY <1>4, <1>5

LEMMA ServeStep ==
  ASSUME Shape, NEW a \in Admins, Serve(a)
  PROVE  Served(a)
<1> DEFINE s == work[a].step
<1>0. /\ a \in Workers /\ DOMAIN work[a] = Fields /\ work[a].open \in BOOLEAN /\ work[a].kind \in Kinds \ {"start"}
      /\ s \in StepsOf(work[a].kind) /\ (work[a].open => s \in Files) /\ DOMAIN work = Workers
  <2>1. a # Main /\ a \in Workers
    BY SettingsAssumption DEF Workers
  <2> QED
    BY <2>1 DEF Shape, Task
<1>1. ASSUME GiveUp(a), s \in {"compare", "pins"},
             UNCHANGED <<phase, file, mode, key, keys, issued, suspect, acked>>
      PROVE  Served(a)
  <2>1. Goes(a)
    BY <1>0, <1>1, GiveUpGoes
  <2>2. work'[a].kind = "none" /\ work'[a].step = "idle"
    BY <1>0, <1>1 DEF GiveUp, Idle
  <2> QED
    BY <1>1, <2>1, <2>2 DEF Served, Files, NetFiles
<1>2. ASSUME GoOn(a), s \in {"session", "mode", "pins", "debounce", "setHostname", "networking", "isc", "hostapd"},
             UNCHANGED <<phase, file, key, keys, issued, suspect>>,
             mode' = IF s = "mode" THEN work[a].val ELSE mode
      PROVE  Served(a)
  BY <1>2, GoOnServes DEF Served, Files, NetFiles
<1>3. ASSUME Compare(a) PROVE Served(a)
  <2>1. CASE GiveUp(a)
    BY <1>1, <1>3, <2>1 DEF Compare, history
  <2>2. CASE work' = [work EXCEPT ![a].step = "session"] /\ UNCHANGED mu
    <3>1. work[a].kind = "login"
      BY <1>0, <1>3, KindOfStep DEF Compare
    <3>2. Goes(a)
      BY <1>0, <1>3, <2>2, <3>1 DEF Compare, Goes, Alone, Files, NetFiles, StepsOf, Fields
    <3>3. work'[a].kind = "login" /\ work'[a].step = "session"
      BY <1>0, <2>2, <3>1 DEF Fields
    <3> QED
      BY <1>3, <3>2, <3>3 DEF Compare, Served, Files, NetFiles, history
  <2> QED
    BY <1>3, <2>1, <2>2 DEF Compare
<1>4. ASSUME CreateSession(a) PROVE Served(a)
  <2>1. After(a) = "idle"
    BY <1>0, <1>4 DEF CreateSession, After, Successor
  <2> QED
    BY <1>2, <1>4, <2>1 DEF CreateSession, GoOn
<1>5. ASSUME SetLiveMode(a) \/ SetDebounce(a) PROVE Served(a)
  BY <1>2, <1>5 DEF SetLiveMode, SetDebounce, Set
<1>6. ASSUME Reconfigure(a) PROVE Served(a)
  BY <1>1, <1>2, <1>6 DEF Reconfigure, Set, history
<1>7. ASSUME Reload(a) PROVE Served(a)
  BY <1>2, <1>7 DEF Reload, Command, RestartHostapd
<1>8. ASSUME s \in {"getHostname", "getInterfaces", "getDhcpd"},
             Alone(a), DOMAIN work'[a] = Fields,
             work'[a].kind = work[a].kind, work'[a].open = work[a].open,
             work'[a].step \in {"getInterfaces", "getDhcpd", "hostname", "interfaces"},
             UNCHANGED <<phase, file, mode, mu, key, keys, issued, acked, suspect>>
      PROVE  Served(a)
  <2>1. work[a].kind = "roles" /\ work[a].open = FALSE
    BY <1>0, <1>8, KindOfStep DEF Files, NetFiles
  <2>2. work'[a].step \in StepsOf("roles")
    BY <1>8 DEF StepsOf, NetSteps
  <2>3. Goes(a)
    BY <1>8, <2>1, <2>2 DEF Goes
  <2> QED
    BY <1>8, <2>1, <2>3 DEF Served, Files, NetFiles
<1>9. ASSUME GetHostname(a) PROVE Served(a)
  <2>1. After(a) = "getInterfaces"
    BY <1>0, <1>9 DEF GetHostname, Read, After, Successor
  <2> QED
    BY <1>0, <1>8, <1>9, <2>1 DEF GetHostname, Read, Fields, Alone, memory, history
<1>10. ASSUME GetInterfaces(a) PROVE Served(a)
  <2>1. After(a) = "getDhcpd"
    BY <1>0, <1>10 DEF GetInterfaces, Read, After, Successor
  <2> QED
    BY <1>0, <1>8, <1>10, <2>1 DEF GetInterfaces, Read, Fields, Alone, memory, history
<1>11. ASSUME GetDhcpd(a) PROVE Served(a)
  <2> DEFINE v == work[a].val
             cfg == ApplyRoleConfiguration(NetworkConfigOf(v.hostname, v.interfaces, Text("dhcpd", NoDhcpd)), v.roles)
  <2>1. FirstStep(cfg) \in {"hostname", "interfaces"}
    BY DEF FirstStep
  <2>2. /\ s = "getDhcpd" /\ work' = [work EXCEPT ![a].step = FirstStep(cfg), ![a].val = cfg]
        /\ UNCHANGED <<phase, file, mode, mu, key, keys, issued, acked, suspect>>
    BY <1>11 DEF GetDhcpd, memory, history
  <2> HIDE DEF cfg
  <2> QED
    BY <1>0, <1>8, <2>1, <2>2 DEF Fields, Alone
<1> QED
  BY <1>3, <1>4, <1>5, <1>6, <1>7, <1>9, <1>10, <1>11 DEF Serve

\* Where the steps that write a file lead.
LEMMA AfterFile ==
  ASSUME Shape, NEW w \in Workers, work[w].step \in Files
  PROVE  /\ work[w].step \in {"rates", "gpio"} => After(w) = "idle"
         /\ work[w].step = "password" => After(w) = IF work[w].kind = "init" THEN "session" ELSE "idle"
         /\ work[w].step = "maintenance" => After(w) = "mode"
         /\ work[w].step = "key" => After(w) = "load"
         /\ work[w].step = "copy" => After(w) = "dhcpd"
         /\ work[w].step = "dhcpd" => After(w) = IF work[w].kind = "start" THEN "readKey" ELSE "networking"
         /\ work[w].step = "hostname" => After(w) = "setHostname"
         /\ work[w].step = "interfaces" => After(w) = "copy"
<1> DEFINE s == work[w].step
<1>1. work[w].kind \in Kinds /\ s \in StepsOf(work[w].kind)
  BY DEF Shape, Task
<1>2. s # "password" => work[w].kind # "init"
  BY <1>1, KindOfStep DEF StepsOf, Files, NetFiles, NetSteps
<1> QED
  BY <1>1, <1>2 DEF After, Successor, Files, NetFiles

\* A file written.
Wrote(w) ==
  /\ Goes(w)
  /\ work[w].step \in Files /\ work[w].open
  /\ \E c \in Written(work[w].step, Content(w)) : file' = [file EXCEPT ![work[w].step] = c]
  /\ suspect' = suspect \ {work[w].step}
  /\ acked' => acked \/ work[w].step = "password"
  /\ IF After(w) = "idle" THEN work'[w].kind = "none" /\ work'[w].step = "idle"
     ELSE /\ work'[w].kind = work[w].kind /\ work'[w].step = After(w) /\ work'[w].val = work[w].val
          /\ mu' = mu
  /\ UNCHANGED <<phase, mode, key, keys, issued>>

LEMMA WriteOutStep ==
  ASSUME Shape, NEW w \in Workers, WriteOut(w)
  PROVE  Wrote(w)
<1>1. /\ work[w].step \in Files /\ work[w].open
      /\ \E c \in Written(work[w].step, Content(w)) : file' = [file EXCEPT ![work[w].step] = c]
      /\ suspect' = suspect \ {work[w].step} /\ GoOn(w)
      /\ UNCHANGED <<phase, mode, key, keys, issued>>
  BY DEF WriteOut
<1>2. Goes(w) /\ IF After(w) = "idle" THEN work'[w].kind = "none"
                 ELSE work'[w].kind = work[w].kind /\ work'[w].step = After(w) /\ work'[w].val = work[w].val
  BY <1>1, GoOnGoes DEF Files, NetFiles
<1>3. After(w) = "idle" => work'[w].step = "idle"
  BY <1>1 DEF GoOn, Done, Answer, Idle, Shape
<1>4. acked' => acked \/ work[w].step = "password"
  <2>1. work[w].kind \in Kinds /\ work[w].step \in StepsOf(work[w].kind)
    BY DEF Shape, Task
  <2>2. Group(work[w].kind) = "password" => work[w].kind \in {"password", "init"}
    BY <2>1 DEF Group
  <2>3. work[w].kind \in {"password", "init"} => work[w].step = "password"
    BY <1>1, <2>1 DEF StepsOf, Files, NetFiles
  <2> QED
    BY <1>1, <2>2, <2>3 DEF GoOn, Done, Answer
<1>5. After(w) # "idle" => mu' = mu
  BY <1>1 DEF GoOn
<1> QED
  BY <1>1, <1>2, <1>3, <1>4, <1>5 DEF Wrote

\* A write or a command that fails.
Failed(w) ==
  /\ Goes(w)
  /\ work[w].step \in Files \cup Services \cup {"setHostname"}
  /\ suspect' = IF work[w].step \in Files THEN suspect \cup {IF w = Main THEN "dhcpd" ELSE work[w].step} ELSE suspect
  /\ IF w = Main /\ work[w].step # "key"
     THEN work'[w].kind = "start" /\ work'[w].step = "readKey" /\ phase' = phase
     ELSE work'[w].kind = "none" /\ work'[w].step = "idle" /\ phase' = IF w = Main THEN "down" ELSE phase
  /\ acked' => acked
  /\ UNCHANGED <<file, mode, key, keys, issued>>

LEMMA FailStep ==
  ASSUME Shape, NEW w \in Workers, Fail(w)
  PROVE  Failed(w)
<1>1. CASE w = Main /\ work[w].step # "key"
  <2>1. work[w].kind = "start"
    BY <1>1 DEF Shape, Task, Fail, StepsOf, Files, NetFiles, Services
  <2>2. "readKey" \in StepsOf("start")
    BY DEF StepsOf
  <2> QED
    BY <1>1, <2>1, <2>2 DEF Fail, StartFails, Failed, Goes, Alone, Shape, Task, Fields
<1>2. CASE w = Main /\ work[w].step = "key"
  <2>1. GiveUp(w) /\ phase' = "down" /\ UNCHANGED acked
    BY <1>2 DEF Fail, StartFails
  <2>2. work'[w].kind = "none" /\ work'[w].step = "idle"
    BY <2>1 DEF GiveUp, Idle, Shape
  <2> QED
    BY <1>2, <2>1, <2>2, GiveUpGoes DEF Fail, Failed
<1>3. CASE w # Main
  <2>1. phase' = phase /\ RequestFails(w)
    BY <1>3 DEF Fail
  <2>2. work[w].step \in {"rates", "gpio"} => work[w].kind \in {"rates", "gpio"}
    BY KindOfStep DEF Shape, Task
  <2>3. GiveUp(w) /\ (acked' => acked)
    <3>1. CASE work[w].step \in {"rates", "gpio"}
      <4>1. Answer(w, FALSE) /\ Group(work[w].kind) # "password"
        BY <2>1, <2>2, <3>1 DEF RequestFails, Group
      <4> QED
        BY <4>1 DEF Answer, GiveUp
    <3>2. CASE work[w].step \notin {"rates", "gpio"}
      BY <2>1, <3>2 DEF RequestFails
    <3> QED
      BY <3>1, <3>2
  <2>4. work'[w].kind = "none" /\ work'[w].step = "idle"
    BY <2>3 DEF GiveUp, Idle, Shape
  <2> QED
    BY <1>3, <2>1, <2>3, <2>4, GiveUpGoes DEF Fail, Failed
<1> QED
  BY <1>1, <1>2, <1>3
-----------------------------------------------------------------------------
(* The tasks keep their shape.                                             *)

LEMMA GoesTasks ==
  ASSUME Shape, NEW w \in Workers, Goes(w), DOMAIN file' = Files
  PROVE  DOMAIN work' = Workers /\ \A v \in Workers : Task(v)'
<1>1. DOMAIN work' = Workers
  BY DEF Goes, Alone
<1>2. "none" \in Kinds /\ "idle" \in StepsOf("none")
  BY DEF Kinds, StepsOf
<1>3. Task(w)'
  <2>1. work[w].kind \in Kinds /\ (work[w].kind = "start" => w = Main) /\ (w = Main => work[w].kind \in {"none", "start"})
    BY DEF Shape, Task
  <2> QED
    BY <1>2, <2>1 DEF Goes, Task
<1>4. ASSUME NEW v \in Workers \ {w} PROVE Task(v)'
  BY <1>4 DEF Shape, Task, Goes, Alone
<1> QED
  BY <1>1, <1>3, <1>4

\* The steps of main, each at its place.
MainSteps == Start \/ Ensure \/ ReadKey \/ Load

LEMMA MainTasks ==
  ASSUME Shape, MainSteps
  PROVE  /\ Alone(Main) /\ DOMAIN work'[Main] = Fields /\ Task(Main)'
         /\ file' = file /\ mu' = mu /\ acked' = acked
         /\ IF Load THEN work'[Main].kind = "none" /\ work[Main].kind = "start" /\ phase' = "serving"
            ELSE work'[Main].kind = "start" /\ phase' = "starting"
<1>0. /\ Main \in Workers /\ DOMAIN work = Workers /\ DOMAIN work[Main] = Fields
      /\ work[Main].open \in BOOLEAN /\ (work[Main].open => work[Main].step \in Files)
      /\ work[Main].kind \in {"none", "start"} /\ work[Main].step \in StepsOf(work[Main].kind)
      /\ (work[Main].kind = "start" <=> phase = "starting")
  BY DEF Shape, Task, Phases, Workers
<1>1. /\ {"ensure", "copy", "readKey", "key", "load"} \subseteq StepsOf("start")
      /\ "idle" \in StepsOf("none") /\ {"none", "start"} \subseteq Kinds
  BY DEF StepsOf, Kinds
<1>2. CASE Start
  BY <1>0, <1>1, <1>2 DEF Start, Load, Alone, Task, Fields, memory
<1>3. CASE Ensure
  <2>1. work[Main].step = "ensure" /\ work[Main].open = FALSE /\ work[Main].kind = "start"
    BY <1>0, <1>3 DEF Ensure, StepsOf, Files, NetFiles
  <2> QED
    BY <1>0, <1>1, <1>3, <2>1 DEF Ensure, Load, Alone, Task, Fields, memory
<1>4. CASE ReadKey
  <2>1. work[Main].step = "readKey" /\ work[Main].open = FALSE /\ work[Main].kind = "start"
    BY <1>0, <1>4 DEF ReadKey, StepsOf, Files, NetFiles
  <2> QED
    BY <1>0, <1>1, <1>4, <2>1 DEF ReadKey, Load, Alone, Task, Fields, memory, history
<1>5. CASE Load
  <2>1. work[Main].step = "load" /\ work[Main].kind = "start"
    BY <1>0, <1>5 DEF Load, StepsOf
  <2> QED
    BY <1>0, <1>1, <1>5, <2>1 DEF Load, Alone, Task, Fields, Idle
<1> QED
  BY <1>2, <1>3, <1>4, <1>5 DEF MainSteps

\* A step of one goroutine that is not main's own.
LEMMA GoesShape ==
  ASSUME Shape, NEW w \in Workers, Goes(w), DOMAIN file' = Files, work[w].step # "idle",
         IF w = Main THEN phase' = (IF work'[w].kind = "start" THEN "starting" ELSE "down") ELSE phase' = phase
  PROVE  Shape'
<1>1. DOMAIN work' = Workers /\ \A v \in Workers : Task(v)'
  BY GoesTasks
<1>2. CASE w = Main
  <2>1. work[Main].kind = "start" /\ phase = "starting" /\ mu = None
    BY <1>2 DEF Shape, Task, Phases, StepsOf
  <2>2. mu' = None /\ work'[Main].kind \in {"start", "none"}
    BY <1>2, <2>1, SettingsAssumption DEF Goes
  <2>3. \A a \in Admins : work'[a] = work[a]
    BY <1>2, SettingsAssumption DEF Goes, Alone, Workers
  <2>4. Phases'
    BY <1>2, <2>1, <2>2, <2>3 DEF Phases, Shape
  <2> QED
    BY <1>1, <2>4 DEF Shape
<1>3. CASE w # Main
  <2>1. phase = "serving" /\ w \in Admins
    BY <1>3 DEF Shape, Task, Phases, StepsOf, Workers
  <2>2. work'[Main] = work[Main]
    BY <1>3 DEF Goes, Alone, Workers
  <2>3. Phases'
    BY <1>3, <2>1, <2>2 DEF Phases, Shape
  <2> QED
    BY <1>1, <2>3 DEF Shape
<1> QED
  BY <1>2, <1>3

LEMMA ShapeStep ==
  ASSUME Shape, [Next]_vars
  PROVE  Shape'
<1>0. DOMAIN work = Workers /\ DOMAIN file = Files /\ Main \in Workers /\ Main \notin Admins /\ Admins \subseteq Workers
  BY SettingsAssumption DEF Shape, Workers
<1>1. ASSUME NEW a \in Admins, Arrive(a) PROVE Shape'
  <2>1. Arrived(a)
    BY <1>1, ArriveStep
  <2>2. Task(a)'
    BY <1>0, <2>1 DEF Arrived, Task, Alone
  <2>3. \A v \in Workers : Task(v)'
    BY <2>1, <2>2 DEF Arrived, Alone, Shape, Task
  <2>4. Phases'
    BY <1>0, <2>1 DEF Arrived, Alone, Shape, Phases
  <2> QED
    BY <1>0, <2>1, <2>3, <2>4 DEF Arrived, Alone, Shape
<1>2. ASSUME NEW a \in Admins, Serve(a) PROVE Shape'
  <2>1. Served(a)
    BY <1>2, ServeStep
  <2> QED
    BY <1>0, <2>1, GoesShape DEF Served
<1>3. ASSUME NEW w \in Workers, Open(w) PROVE Shape'
  <2>1. work' = [work EXCEPT ![w].open = TRUE] /\ work[w].step \in Files /\ UNCHANGED <<phase, mu>> /\ DOMAIN file' = Files
    BY <1>0, <1>3 DEF Open, memory
  <2>2. \A v \in Workers : work'[v].kind = work[v].kind /\ work'[v].step = work[v].step
    BY <1>0, <2>1 DEF Shape, Task, Fields
  <2>3. \A v \in Workers : Task(v)'
    BY <1>0, <2>1, <2>2 DEF Shape, Task, Fields
  <2>4. Phases'
    BY <1>0, <2>1, <2>2 DEF Shape, Phases
  <2> QED
    BY <1>0, <2>1, <2>3, <2>4 DEF Shape
<1>4. ASSUME NEW w \in Workers, WriteOut(w) PROVE Shape'
  <2>1. Wrote(w)
    BY <1>4, WriteOutStep
  <2>2. work[w].step # "idle" /\ DOMAIN file' = Files /\ phase' = phase
    BY <1>0, <2>1 DEF Wrote, Files, NetFiles
  <2>3. w = Main => work[w].kind = "start" /\ phase = "starting" /\ After(w) # "idle"
    <3>1. w = Main => work[w].kind = "start" /\ phase = "starting" /\ work[w].step \in {"copy", "dhcpd", "key"}
      BY <2>1 DEF Wrote, Shape, Task, Phases, StepsOf, Files, NetFiles
    <3> QED
      BY <2>1, <3>1, AfterFile DEF Wrote
  <2>4. w = Main => work'[w].kind = "start"
    BY <2>1, <2>3 DEF Wrote
  <2> QED
    BY <2>1, <2>2, <2>3, <2>4, GoesShape DEF Wrote
<1>5. ASSUME NEW w \in Workers, Fail(w) PROVE Shape'
  <2>1. Failed(w)
    BY <1>5, FailStep
  <2>2. work[w].step # "idle" /\ DOMAIN file' = Files
    BY <1>0, <2>1 DEF Failed, Files, NetFiles, Services
  <2>3. w = Main => phase = "starting"
    BY <2>2 DEF Shape, Task, Phases, StepsOf
  <2> QED
    BY <2>1, <2>2, <2>3, GoesShape DEF Failed
<1>6. CASE MainSteps
  <2>1. \A v \in Workers : Task(v)'
    BY <1>6, MainTasks DEF Alone, Shape, Task
  <2>2. phase # "serving" => mu = None /\ \A a \in Admins : work[a].kind = "none"
    BY DEF Shape, Phases
  <2>3. phase # "serving"
    BY <1>6 DEF MainSteps, Start, Ensure, ReadKey, Load, Shape, Task, Phases, StepsOf, Workers
  <2>4. Phases'
    BY <1>0, <1>6, <2>2, <2>3, MainTasks DEF Alone, Phases
  <2> QED
    BY <1>0, <1>6, <2>1, <2>4, MainTasks DEF Alone, Shape
<1>7. CASE Crash
  <2>1. \A v \in Workers : Task(v)'
    <3> SUFFICES ASSUME NEW v \in Workers PROVE Task(v)'
      OBVIOUS
    <3>1. work'[v] = Idle
      BY <1>7 DEF Crash
    <3>2. "none" \in Kinds /\ "idle" \in StepsOf("none")
      BY DEF Kinds, StepsOf
    <3> QED
      BY <3>1, <3>2 DEF Task, Idle, Fields
  <2> QED
    BY <1>0, <1>7, <2>1 DEF Crash, Shape, Phases, Idle, Workers
<1>8. CASE EndSession \/ UNCHANGED vars
  <2>1. UNCHANGED <<phase, file, mu, work>>
    BY <1>8 DEF EndSession, vars, memory
  <2> QED
    BY <2>1 DEF Shape, Task, Phases
<1> QED
  BY <1>1, <1>2, <1>3, <1>4, <1>5, <1>6, <1>7, <1>8 DEF Next, MainSteps
LEMMA TaskKind ==
  ASSUME Shape, NEW w \in Workers
  PROVE  /\ work[w].kind \in Kinds /\ work[w].step \in StepsOf(work[w].kind)
         /\ work[w].step = "idle" <=> work[w].kind = "none"
         /\ work[w].step = "session" => work[w].kind \in {"login", "init"}
         /\ work[w].step = "password" => work[w].kind \in {"password", "init"}
         /\ work[w].step \in {"maintenance", "mode"} <=> work[w].kind = "maintenance"
         /\ work[w].step \in {"ensure", "readKey", "key", "load"} => w = Main
         /\ work[w].open => work[w].step \in Files
BY KindOfStep DEF Shape, Task, StepsOf

-----------------------------------------------------------------------------
(* The first password.                                                     *)

HasPassword == file["password"].is # "absent"

\* Who has opened the password file, or was told that there is a password, has seen it made.
PasswordInv ==
  /\ acked => HasPassword
  /\ \A w \in Workers :
       Writing(w, "password") \/ (work[w].kind = "init" /\ work[w].step = "session") => HasPassword

LEMMA PasswordStep ==
  ASSUME Shape, PasswordInv, [Next]_vars
  PROVE  PasswordInv'
<1>0. /\ DOMAIN work = Workers /\ DOMAIN file = Files /\ Main \in Workers /\ Admins \subseteq Workers
      /\ "password" \in Files
  BY DEF Shape, Workers, Files
<1>1. ASSUME NEW a \in Admins, Arrive(a) PROVE PasswordInv'
  <2>1. Arrived(a)
    BY <1>1, ArriveStep
  <2> QED
    BY <2>1 DEF Arrived, Alone, PasswordInv, HasPassword, Writing
<1>2. ASSUME NEW a \in Admins, Serve(a) PROVE PasswordInv'
  <2>1. Served(a)
    BY <1>2, ServeStep
  <2> QED
    BY <1>0, <2>1 DEF Served, Goes, Alone, PasswordInv, HasPassword, Writing
<1>3. ASSUME NEW w \in Workers, Open(w) PROVE PasswordInv'
  <2>1. /\ work' = [work EXCEPT ![w].open = TRUE] /\ work[w].step \in Files /\ UNCHANGED acked
        /\ file' = [file EXCEPT ![work[w].step] = Empty]
    BY <1>3 DEF Open, history
  <2>2. \A v \in Workers : work'[v].kind = work[v].kind /\ work'[v].step = work[v].step
    BY <1>0, <2>1 DEF Shape, Task, Fields
  <2>3. \A v \in Workers \ {w} : work'[v] = work[v]
    BY <1>0, <2>1
  <2>4. (HasPassword => HasPassword') /\ (work[w].step = "password" => HasPassword')
    BY <1>0, <2>1 DEF HasPassword, Empty
  <2> QED
    BY <2>1, <2>2, <2>3, <2>4 DEF PasswordInv, Writing
<1>4. ASSUME NEW w \in Workers, WriteOut(w) PROVE PasswordInv'
  <2>1. Wrote(w)
    BY <1>4, WriteOutStep
  <2>2. (HasPassword => HasPassword') /\ (work[w].step = "password" => HasPassword')
    BY <1>0, <2>1 DEF Wrote, Written, HasPassword, Whole, Torn
  <2>3. work'[w].step = "session" /\ work'[w].kind = "init" => work[w].step = "password"
    BY <2>1, AfterFile DEF Wrote, Files, NetFiles
  <2> QED
    BY <2>1, <2>2, <2>3 DEF Wrote, Goes, Alone, PasswordInv, Writing
<1>5. ASSUME NEW w \in Workers, Fail(w) PROVE PasswordInv'
  <2>1. Failed(w)
    BY <1>5, FailStep
  <2> QED
    BY <2>1 DEF Failed, Goes, Alone, PasswordInv, HasPassword, Writing
<1>6. CASE MainSteps
  <2>1. Alone(Main) /\ file' = file /\ acked' = acked /\ work'[Main].kind # "init"
    BY <1>6, MainTasks
  <2>2. ~(Writing(Main, "password"))'
    BY <1>6, MainTasks, KindOfStep DEF Task, Writing
  <2> QED
    BY <2>1, <2>2 DEF Alone, PasswordInv, HasPassword, Writing
<1>7. CASE Crash
  BY <1>7 DEF Crash, history, PasswordInv, HasPassword, Writing, Idle
<1>8. CASE EndSession \/ UNCHANGED vars
  <2>1. UNCHANGED <<file, work, acked>>
    BY <1>8 DEF EndSession, vars, history
  <2> QED
    BY <2>1 DEF PasswordInv, HasPassword, Writing
<1> QED
  BY <1>1, <1>2, <1>3, <1>4, <1>5, <1>6, <1>7, <1>8 DEF Next, MainSteps

\* Who sets a first password found none.
LEMMA FirstLoginStep ==
  ASSUME Shape, PasswordInv, [Next]_vars, NEW a \in Admins, work[a].kind # "init", work'[a].kind = "init"
  PROVE  ~acked
<1>0. DOMAIN work = Workers /\ a \in Workers
  BY DEF Shape, Workers
<1>1. ASSUME NEW w \in Workers, Goes(w) PROVE FALSE
  BY <1>0, <1>1 DEF Goes, Alone
<1>2. ASSUME NEW b \in Admins, Arrive(b) PROVE ~acked
  <2>1. Arrived(b)
    BY <1>2, ArriveStep
  <2> QED
    BY <1>0, <2>1 DEF Arrived, Alone, FirstLogin, PasswordInv, HasPassword
<1>3. ASSUME NEW b \in Admins, Serve(b) PROVE FALSE
  BY <1>1, <1>3, ServeStep DEF Served, Workers
<1>4. ASSUME NEW w \in Workers, Open(w) PROVE FALSE
  BY <1>0, <1>4 DEF Open, Shape, Task, Fields
<1>5. ASSUME NEW w \in Workers, WriteOut(w) \/ Fail(w) PROVE FALSE
  BY <1>1, <1>5, WriteOutStep, FailStep DEF Wrote, Failed
<1>6. CASE MainSteps
  BY <1>0, <1>6, MainTasks DEF Alone
<1>7. CASE Crash \/ EndSession \/ UNCHANGED vars
  BY <1>0, <1>7 DEF Crash, EndSession, vars, Idle
<1> QED
  BY <1>2, <1>3, <1>4, <1>5, <1>6, <1>7 DEF Next, MainSteps

\* For any number of admins, requests, failed writes and deaths of the program:
\* nobody who was told that there is a password loses it to a second first login.
THEOREM FirstLoginOnce == Spec => OnlyFirstLoginInits
<1>1. Init => Shape /\ PasswordInv
  <2>1. Init => PasswordInv
    BY DEF Init, PasswordInv, Writing, Idle
  <2> QED
    BY <2>1, InitShape
<1>2. Shape /\ PasswordInv /\ [Next]_vars => Shape' /\ PasswordInv'
  BY ShapeStep, PasswordStep
<1>3. Shape /\ PasswordInv /\ [Next]_vars =>
        [\A a \in Admins : work[a].kind # "init" /\ work'[a].kind = "init" => ~acked]_vars
  BY FirstLoginStep
<1> QED
  BY <1>1, <1>2, <1>3, PTL DEF Spec, OnlyFirstLoginInits
-----------------------------------------------------------------------------
(* The key of the device tokens.                                           *)

KeyFile == file["key"]

\* Once a token was handed out, the file holds the key it was made with, and main does not
\* make another; the key main has made or read is in the file by the time it is used.
KeyInv ==
  /\ KeyFile.is = "whole" => KeyFile = Whole(KeyFile.val)
  /\ issued = {} \/ (KeyFile.is = "whole" /\ issued = {KeyFile.val})
  /\ work[Main].step = "key" => issued = {} /\ (work[Main].open => KeyFile = Empty)
  /\ work[Main].step = "load" => KeyFile = Whole(work[Main].val)
  /\ phase = "serving" => KeyFile = Whole(key) /\ issued = {key}

LEMMA KeyStep ==
  ASSUME Shape, KeyInv, [Next]_vars
  PROVE  KeyInv'
<1>0. /\ DOMAIN work = Workers /\ DOMAIN file = Files /\ Main \in Workers /\ Main \notin Admins
      /\ Admins \subseteq Workers /\ "key" \in Files
  BY SettingsAssumption DEF Shape, Workers, Files
<1>1. ASSUME NEW a \in Admins, Alone(a), UNCHANGED <<phase, key, issued>>, KeyFile' = KeyFile PROVE KeyInv'
  BY <1>0, <1>1 DEF Alone, KeyInv
<1>2. ASSUME NEW a \in Admins, Arrive(a) PROVE KeyInv'
  BY <1>1, <1>2, ArriveStep DEF Arrived, KeyFile
<1>3. ASSUME NEW a \in Admins, Serve(a) PROVE KeyInv'
  BY <1>1, <1>3, ServeStep DEF Served, Goes, KeyFile
<1>4. ASSUME NEW w \in Workers, Open(w) PROVE KeyInv'
  <2>1. /\ work' = [work EXCEPT ![w].open = TRUE] /\ work[w].step \in Files /\ ~work[w].open
        /\ UNCHANGED <<phase, key, issued>> /\ file' = [file EXCEPT ![work[w].step] = Empty]
    BY <1>4 DEF Open, memory, history
  <2>2. DOMAIN work[Main] = Fields
    BY <1>0 DEF Shape, Task
  <2>3. CASE work[w].step # "key"
    <3>1. KeyFile' = KeyFile /\ work'[Main].step = work[Main].step /\ work'[Main].val = work[Main].val
          /\ (work[Main].step = "key" => work'[Main].open = work[Main].open)
      BY <1>0, <2>1, <2>2, <2>3 DEF KeyFile, Fields
    <3> QED
      BY <2>1, <3>1 DEF KeyInv
  <2>4. CASE work[w].step = "key"
    <3>1. w = Main /\ phase = "starting"
      BY <2>4, TaskKind DEF Shape, Task, Phases, StepsOf
    <3>2. KeyFile' = Empty /\ work'[Main].step = "key" /\ issued = {}
      BY <1>0, <2>1, <2>2, <2>4, <3>1 DEF KeyFile, Fields, KeyInv
    <3> QED
      BY <2>1, <3>1, <3>2 DEF KeyInv, Empty
  <2> QED
    BY <2>3, <2>4
<1>5. ASSUME NEW w \in Workers, WriteOut(w) PROVE KeyInv'
  <2>1. Wrote(w)
    BY <1>5, WriteOutStep
  <2>2. PICK c \in Written(work[w].step, Content(w)) : file' = [file EXCEPT ![work[w].step] = c]
    BY <2>1 DEF Wrote
  <2>3. CASE work[w].step = "key"
    <3>1. w = Main /\ phase = "starting"
      BY <2>3, TaskKind DEF Shape, Task, Phases, StepsOf
    <3>2. KeyFile = Empty /\ issued = {}
      BY <2>1, <2>3, <3>1 DEF Wrote, KeyInv
    <3>3. c = Whole(work[Main].val)
      BY <2>2, <2>3, <3>1, <3>2 DEF Written, Content, KeyFile, Empty
    <3>4. KeyFile' = Whole(work[Main].val) /\ work'[Main].step = "load" /\ work'[Main].val = work[Main].val
      BY <1>0, <2>1, <2>2, <2>3, <3>1, <3>3, AfterFile DEF Wrote, KeyFile
    <3> QED
      BY <2>1, <3>1, <3>2, <3>4 DEF Wrote, KeyInv, Whole
  <2>4. CASE work[w].step # "key"
    <3>1. KeyFile' = KeyFile /\ UNCHANGED <<phase, key, issued>>
      BY <1>0, <2>1, <2>2, <2>4 DEF Wrote, KeyFile
    <3>2. CASE w = Main
      <4>1. work'[Main].step \notin {"key", "load"}
        BY <1>0, <2>1, <2>4, <3>2, AfterFile DEF Wrote, Files, NetFiles
      <4> QED
        BY <3>1, <4>1 DEF KeyInv
    <3>3. CASE w # Main
      BY <1>1, <2>1, <3>1, <3>3 DEF Wrote, Goes, Workers
    <3> QED
      BY <3>2, <3>3
  <2> QED
    BY <2>3, <2>4
<1>6. ASSUME NEW w \in Workers, Fail(w) PROVE KeyInv'
  <2>1. Failed(w)
    BY <1>6, FailStep
  <2>2. CASE w = Main
    <3>1. work'[Main].step \notin {"key", "load"} /\ (phase' = "serving" => phase = "serving")
      BY <2>1, <2>2 DEF Failed
    <3> QED
      BY <2>1, <3>1 DEF Failed, KeyInv, KeyFile
  <2>3. CASE w # Main
    BY <1>1, <2>1, <2>3 DEF Failed, Goes, Workers, KeyFile
  <2> QED
    BY <2>2, <2>3
<1>7. CASE Start \/ Ensure
  <2>1. work'[Main].step \notin {"key", "load"}
    BY <1>0, <1>7 DEF Start, Ensure, Shape, Task, Fields
  <2>2. UNCHANGED <<KeyFile, issued, key>> /\ phase' # "serving"
    BY <1>0, <1>7, MainTasks DEF Start, Ensure, memory, history, KeyFile, MainSteps, Shape, Task, Phases, StepsOf
  <2> QED
    BY <2>1, <2>2 DEF KeyInv
<1>8. CASE ReadKey
  <2>1. phase = "starting" /\ work[Main].open = FALSE /\ DOMAIN work[Main] = Fields
    BY <1>0, <1>8 DEF ReadKey, Shape, Task, Phases, StepsOf, Files, NetFiles
  <2>2. UNCHANGED <<KeyFile, key, phase>>
    BY <1>8 DEF ReadKey, memory, KeyFile
  <2>3. CASE UsableKey /\ work' = [work EXCEPT ![Main].step = "load", ![Main].val = file["key"].val] /\ issued' = issued
    <3>1. work'[Main].step = "load" /\ work'[Main].val = KeyFile.val /\ KeyFile = Whole(KeyFile.val)
      BY <1>0, <2>1, <2>3 DEF UsableKey, KeyFile, KeyInv, Fields
    <3> QED
      BY <2>1, <2>2, <2>3, <3>1 DEF KeyInv
  <2>4. CASE /\ work' = [work EXCEPT ![Main].step = "key", ![Main].val = keys + 1]
             /\ (~UsableKey /\ issued' = issued) \/ issued' = {}
    <3>1. work'[Main].step = "key" /\ work'[Main].open = FALSE /\ issued' = {}
      BY <1>0, <2>1, <2>4 DEF UsableKey, KeyFile, KeyInv, Fields
    <3> QED
      BY <2>1, <2>2, <3>1 DEF KeyInv
  <2> QED
    BY <1>8, <2>3, <2>4 DEF ReadKey
<1>9. CASE Load
  <2>1. KeyFile = Whole(work[Main].val) /\ (issued = {} \/ issued = {work[Main].val})
    BY <1>9 DEF Load, KeyInv, Whole
  <2>2. KeyFile' = KeyFile /\ key' = work[Main].val /\ issued' = {key'} /\ work'[Main].step = "idle"
    BY <1>0, <1>9, <2>1 DEF Load, KeyFile, Idle
  <2> QED
    BY <2>1, <2>2 DEF KeyInv, Whole
<1>10. CASE Crash
  <2>1. UNCHANGED <<KeyFile, issued>> /\ phase' = "down" /\ work'[Main].step = "idle"
    BY <1>0, <1>10 DEF Crash, history, KeyFile, Idle
  <2> QED
    BY <2>1 DEF KeyInv
<1>11. CASE EndSession \/ UNCHANGED vars
  <2>1. UNCHANGED <<file, work, phase, key, issued>>
    BY <1>11 DEF EndSession, vars, memory, history
  <2> QED
    BY <2>1 DEF KeyInv, KeyFile
<1> QED
  BY <1>2, <1>3, <1>4, <1>5, <1>6, <1>7, <1>8, <1>9, <1>10, <1>11 DEF Next

\* For any number of starts, failures and deaths of the program, also in the middle of writing
\* the key: every token handed out is read by this program and by the next one, unless a
\* start could not read the key and made another.
THEOREM TokensAlwaysValid == Spec => []TokensStayValid
<1>1. Init => Shape /\ KeyInv
  <2>1. Init => KeyInv
    <3>1. Init => KeyFile = Absent /\ work[Main].step = "idle"
      BY DEF Init, KeyFile, Files, Workers, Idle
    <3> QED
      BY <3>1 DEF Init, KeyInv, Absent
  <2> QED
    BY <2>1, InitShape
<1>2. Shape /\ KeyInv /\ [Next]_vars => Shape' /\ KeyInv'
  BY ShapeStep, KeyStep
<1>3. KeyInv => TokensStayValid
  BY DEF KeyInv, TokensStayValid, KeyFile
<1> QED
  BY <1>1, <1>2, <1>3, PTL DEF Spec
-----------------------------------------------------------------------------
(* The maintenance mode.                                                   *)

ModeFile == file["maintenance"]

\* Who changes the mode holds the lock; between the writing and the setting the file is ahead.
ModeInv ==
  /\ mu \in Admins \cup {None}
  /\ \A a \in Admins :
       /\ work[a].kind = "maintenance" <=> mu = a
       /\ Writing(a, "maintenance") => ModeFile = Empty
       /\ work[a].step = "mode" => ModeFile = Whole(work[a].val)
  /\ ModeSurvives

LEMMA ModeStep ==
  ASSUME Shape, ModeInv, [Next]_vars
  PROVE  ModeInv'
<1>0. /\ DOMAIN work = Workers /\ DOMAIN file = Files /\ Main \in Workers /\ Main \notin Admins
      /\ Admins \subseteq Workers /\ Workers = Admins \cup {Main} /\ "maintenance" \in Files
  BY SettingsAssumption DEF Shape, Workers, Files
<1>k. \A w \in Workers : work[w].step \in {"maintenance", "mode"} <=> work[w].kind = "maintenance"
  BY TaskKind
<1>m. \A w \in Workers : mu = w <=> work[w].kind = "maintenance"
  BY <1>0, SettingsAssumption DEF ModeInv, Shape, Task
\* A step that leaves the file, the mode and whoever changes it alone.
<1>1. ASSUME NEW w \in Workers, Goes(w), UNCHANGED <<phase, mode>>, ModeFile' = ModeFile, work[w].kind # "maintenance",
             "maintenance" \in suspect => "maintenance" \in suspect'
      PROVE  ModeInv'
  <2>1. mu' = mu /\ work'[w].kind # "maintenance"
    BY <1>1, <1>m DEF Goes
  <2>2. ~Writing(w, "maintenance")' /\ work'[w].step # "mode"
    BY <1>1, <2>1, KindOfStep DEF Goes, Writing, Shape, Task, StepsOf, Kinds
  <2> QED
    BY <1>1, <1>0, <2>1, <2>2 DEF Goes, Alone, ModeInv, ModeSurvives, LoadMode, ModeFile, Writing
<1>2. ASSUME NEW a \in Admins, Arrive(a) PROVE ModeInv'
  <2>1. Arrived(a) /\ work[a].kind # "maintenance"
    BY <1>2, <1>k, <1>0, ArriveStep DEF Arrived
  <2>2. UNCHANGED <<phase, mode, file, suspect>> /\ ~Writing(a, "maintenance")' /\ work'[a].step # "mode"
    BY <2>1 DEF Arrived, Writing
  <2>3. mu' \in Admins \cup {None} /\ (mu' = None => mu = None)
    BY <2>1, SettingsAssumption DEF Arrived, ModeInv
  <2>4. \A b \in Admins : work'[b].kind = "maintenance" <=> mu' = b
    BY <1>0, <1>m, <2>1, SettingsAssumption DEF Arrived, Alone
  <2> QED
    BY <1>0, <2>1, <2>2, <2>3, <2>4 DEF Arrived, Alone, ModeInv, ModeSurvives, LoadMode, ModeFile, Writing
<1>3. ASSUME NEW a \in Admins, Serve(a) PROVE ModeInv'
  <2>1. Served(a) /\ UNCHANGED <<phase, file, suspect>>
    BY <1>3, ServeStep DEF Served
  <2>2. CASE work[a].step = "mode"
    <3>1. /\ mode' = work[a].val /\ work'[a].kind = "none" /\ work'[a].step = "idle" /\ mu = a /\ mu' = None
          /\ ModeFile = Whole(work[a].val) /\ ModeFile' = ModeFile
      BY <1>0, <1>k, <1>m, <2>1, <2>2 DEF Served, Goes, ModeFile, ModeInv
    <3>2. LoadMode' = mode'
      BY <3>1 DEF LoadMode, ModeFile, Whole
    <3>3. \A b \in Admins : work'[b].kind # "maintenance" /\ ~Writing(b, "maintenance")' /\ work'[b].step # "mode"
      BY <1>0, <1>k, <1>m, <2>1, <3>1 DEF Served, Goes, Alone, Writing
    <3> QED
      BY <3>1, <3>2, <3>3, SettingsAssumption DEF ModeInv, ModeSurvives
  <2>3. CASE work[a].step # "mode"
    BY <1>0, <1>1, <1>k, <2>1, <2>3 DEF Served, ModeFile, Files
  <2> QED
    BY <2>2, <2>3
<1>4. ASSUME NEW w \in Workers, Open(w) PROVE ModeInv'
  <2>1. /\ work' = [work EXCEPT ![w].open = TRUE] /\ work[w].step \in Files /\ ~work[w].open
        /\ UNCHANGED <<phase, mode, mu, suspect>> /\ file' = [file EXCEPT ![work[w].step] = Empty]
    BY <1>4 DEF Open, memory, history
  <2>2. \A v \in Workers : work'[v].kind = work[v].kind /\ work'[v].step = work[v].step /\ work'[v].val = work[v].val
    BY <1>0, <2>1 DEF Shape, Task, Fields
  <2>3. CASE work[w].step # "maintenance"
    <3>1. ModeFile' = ModeFile /\ \A a \in Admins : Writing(a, "maintenance")' = Writing(a, "maintenance")
      BY <1>0, <2>1, <2>3 DEF ModeFile, Writing, Shape, Task, Fields
    <3> QED
      BY <1>0, <2>1, <2>2, <3>1 DEF ModeInv, ModeSurvives, LoadMode, ModeFile
  <2>4. CASE work[w].step = "maintenance"
    <3>1. ModeFile' = Empty /\ mu = w /\ mu # None
      BY <1>0, <1>k, <1>m, <2>1, <2>4, SettingsAssumption DEF ModeFile
    <3>2. \A a \in Admins : work[a].step # "mode"
      BY <1>0, <1>k, <1>m, <2>4, <3>1
    <3> QED
      BY <1>0, <2>1, <2>2, <3>1, <3>2 DEF ModeInv, ModeSurvives
  <2> QED
    BY <2>3, <2>4
<1>5. ASSUME NEW w \in Workers, WriteOut(w) PROVE ModeInv'
  <2>1. Wrote(w)
    BY <1>5, WriteOutStep
  <2>2. PICK c \in Written(work[w].step, Content(w)) : file' = [file EXCEPT ![work[w].step] = c]
    BY <2>1 DEF Wrote
  <2>3. CASE work[w].step = "maintenance"
    <3>1. mu = w /\ w \in Admins /\ mu # None /\ work[w].kind = "maintenance"
      BY <1>0, <1>k, <1>m, <2>3, SettingsAssumption DEF Shape, Task
    <3>2. c = Whole(work[w].val)
      BY <2>1, <2>2, <2>3, <3>1 DEF Wrote, Written, Content, ModeInv, ModeFile, Writing, Empty
    <3>3. /\ ModeFile' = Whole(work'[w].val) /\ work'[w].step = "mode" /\ work'[w].kind = "maintenance" /\ mu' = mu
      BY <1>0, <2>1, <2>2, <2>3, <3>1, <3>2, AfterFile DEF Wrote, ModeFile
    <3>4. \A a \in Admins \ {w} : work'[a].kind # "maintenance" /\ work'[a].step \notin {"maintenance", "mode"}
      BY <1>0, <1>k, <1>m, <2>1, <3>1 DEF Wrote, Goes, Alone
    <3> QED
      BY <3>1, <3>3, <3>4 DEF ModeInv, ModeSurvives, Writing
  <2>4. CASE work[w].step # "maintenance"
    <3>1. ModeFile' = ModeFile /\ work[w].kind # "maintenance"
      BY <1>0, <1>k, <2>1, <2>2, <2>4 DEF ModeFile, Wrote, Files, NetFiles
    <3> QED
      BY <1>1, <2>1, <2>4, <3>1 DEF Wrote
  <2> QED
    BY <2>3, <2>4
<1>6. ASSUME NEW w \in Workers, Fail(w) PROVE ModeInv'
  <2>1. Failed(w)
    BY <1>6, FailStep
  <2>2. CASE w = Main
    <3>1. /\ mu' = mu /\ (phase' = "serving" => phase = "serving") /\ ModeFile' = ModeFile /\ mode' = mode
          /\ "maintenance" \in suspect => "maintenance" \in suspect'
      BY <1>0, <1>m, <2>1, <2>2 DEF Failed, Goes, ModeFile, Shape, Task
    <3>2. \A a \in Admins : work'[a] = work[a]
      BY <1>0, <2>1, <2>2 DEF Failed, Goes, Alone
    <3> QED
      BY <3>1, <3>2 DEF ModeInv, ModeSurvives, LoadMode, ModeFile, Writing
  <2>3. CASE w # Main /\ work[w].step = "maintenance"
    <3>1. mu = w /\ mu' = None /\ work'[w].kind = "none" /\ work'[w].step = "idle" /\ "maintenance" \in suspect'
      BY <1>0, <1>k, <1>m, <2>1, <2>3 DEF Failed, Goes
    <3>2. \A a \in Admins : work'[a].kind # "maintenance" /\ work'[a].step \notin {"maintenance", "mode"}
      BY <1>0, <1>k, <1>m, <2>1, <3>1 DEF Failed, Goes, Alone
    <3> QED
      BY <3>1, <3>2, SettingsAssumption DEF ModeInv, ModeSurvives, Writing
  <2>4. CASE w # Main /\ work[w].step # "maintenance"
    <3>1. work[w].kind # "maintenance" /\ ModeFile' = ModeFile /\ UNCHANGED <<phase, mode>>
      BY <1>k, <2>1, <2>4 DEF Failed, Files, NetFiles, Services, ModeFile
    <3> QED
      BY <1>1, <2>1, <3>1 DEF Failed
  <2> QED
    BY <2>2, <2>3, <2>4
<1>7. CASE Start \/ Ensure \/ ReadKey
  <2>1. /\ UNCHANGED <<mu, ModeFile>> /\ phase' # "serving" /\ Alone(Main)
    BY <1>7, MainTasks DEF MainSteps, Start, Ensure, ReadKey, Shape, Task, Phases, StepsOf, ModeFile
  <2> QED
    BY <1>0, <2>1 DEF Alone, ModeInv, ModeSurvives, Writing
<1>8. CASE Load
  <2>1. UNCHANGED <<mu, file>> /\ Alone(Main) /\ mode' = LoadMode
    BY <1>8, MainTasks DEF MainSteps, Load
  <2> QED
    BY <1>0, <2>1 DEF Alone, ModeInv, ModeSurvives, LoadMode, ModeFile, Writing
<1>9. CASE Crash
  <2>1. mu' = None /\ phase' = "down" /\ \A a \in Admins : work'[a] = Idle
    BY <1>0, <1>9 DEF Crash
  <2> QED
    BY <2>1, SettingsAssumption DEF ModeInv, ModeSurvives, Writing, Idle
<1>10. CASE EndSession \/ UNCHANGED vars
  <2>1. UNCHANGED <<file, work, phase, mode, mu, suspect>>
    BY <1>10 DEF EndSession, vars, memory, history
  <2> QED
    BY <2>1 DEF ModeInv, ModeSurvives, LoadMode, ModeFile, Writing
<1> QED
  BY <1>2, <1>3, <1>4, <1>5, <1>6, <1>7, <1>8, <1>9, <1>10 DEF Next

\* For any number of changes at once, failed writes and deaths of the program: between two
\* changes a restart would find the mode in force, unless writing it failed.
THEOREM ModeAlwaysSurvives == Spec => []ModeSurvives
<1>1. Init => Shape /\ ModeInv
  <2>1. Init => ModeInv
    BY SettingsAssumption DEF Init, ModeInv, ModeSurvives, Writing, Idle, Workers
  <2> QED
    BY <2>1, InitShape
<1>2. Shape /\ ModeInv /\ [Next]_vars => Shape' /\ ModeInv'
  BY ShapeStep, ModeStep
<1>3. ModeInv => ModeSurvives
  BY DEF ModeInv
<1> QED
  BY <1>1, <1>2, <1>3, PTL DEF Spec
-----------------------------------------------------------------------------
(* dhcpd.conf.                                                             *)

HasHook == Text("dhcpd", NoDhcpd).hook
Past == work[Main].step \in {"readKey", "key", "load"}

\* From the moment main is past looking after the file, it has the hook unless somebody has
\* it open, the latest writing failed, or main has not read it and nobody has written it.
HookInv ==
  /\ work[Main].step = "ensure" => "dhcpd" \in suspect
  /\ work[Main].step \in {"copy", "dhcpd"} => work[Main].val.hook
  /\ (phase = "serving" \/ Past) /\ "dhcpd" \notin suspect /\ (\A w \in Workers : ~Writing(w, "dhcpd")) => HasHook

LEMMA HookStep ==
  ASSUME Shape, HookInv, [Next]_vars
  PROVE  HookInv'
<1>0. /\ DOMAIN work = Workers /\ DOMAIN file = Files /\ Main \in Workers /\ Main \notin Admins
      /\ Admins \subseteq Workers /\ Workers = Admins \cup {Main} /\ "dhcpd" \in Files
      /\ DOMAIN work[Main] = Fields
  BY SettingsAssumption DEF Shape, Task, Workers, Files, NetFiles
\* A goroutine moves that neither held dhcpd.conf open nor does now.
<1>1. ASSUME NEW a \in Admins, Alone(a), phase' = phase, HasHook' = HasHook,
             ~Writing(a, "dhcpd"), ~Writing(a, "dhcpd")', suspect' \cap {"dhcpd"} = suspect \cap {"dhcpd"}
      PROVE  HookInv'
  <2>1. \A w \in Workers : Writing(w, "dhcpd")' <=> Writing(w, "dhcpd")
    BY <1>0, <1>1 DEF Alone, Writing
  <2>2. work'[Main] = work[Main]
    BY <1>0, <1>1 DEF Alone
  <2> QED
    BY <1>1, <2>1, <2>2 DEF HookInv, Past
<1>2. ASSUME NEW a \in Admins, Arrive(a) PROVE HookInv'
  <2>1. Arrived(a) /\ ~Writing(a, "dhcpd") /\ ~Writing(a, "dhcpd")'
    BY <1>2, ArriveStep DEF Arrived, Writing
  <2> QED
    BY <1>1, <2>1 DEF Arrived, HasHook, Text
<1>3. ASSUME NEW a \in Admins, Serve(a) PROVE HookInv'
  <2>1. Served(a) /\ ~Writing(a, "dhcpd") /\ ~Writing(a, "dhcpd")'
    BY <1>0, <1>3, ServeStep DEF Served, Goes, Writing
  <2> QED
    BY <1>1, <2>1 DEF Served, Goes, HasHook, Text
<1>4. ASSUME NEW w \in Workers, Open(w) PROVE HookInv'
  <2>1. /\ work' = [work EXCEPT ![w].open = TRUE] /\ work[w].step \in Files /\ ~work[w].open
        /\ UNCHANGED <<phase, suspect>> /\ file' = [file EXCEPT ![work[w].step] = Empty]
    BY <1>4 DEF Open, memory, history
  <2>2. \A v \in Workers : work'[v].step = work[v].step /\ work'[v].val = work[v].val
    BY <1>0, <2>1 DEF Shape, Task, Fields
  <2>3. CASE work[w].step = "dhcpd"
    <3>1. Writing(w, "dhcpd")'
      BY <1>0, <2>1, <2>3 DEF Writing, Shape, Task, Fields
    <3> QED
      BY <2>1, <2>2, <3>1, <1>0 DEF HookInv, Past
  <2>4. CASE work[w].step # "dhcpd"
    <3>1. HasHook' = HasHook /\ \A v \in Workers : Writing(v, "dhcpd")' <=> Writing(v, "dhcpd")
      BY <1>0, <2>1, <2>4 DEF HasHook, Text, Writing, Shape, Task, Fields
    <3> QED
      BY <1>0, <2>1, <2>2, <3>1 DEF HookInv, Past
  <2> QED
    BY <2>3, <2>4
<1>5. ASSUME NEW w \in Workers, WriteOut(w) PROVE HookInv'
  <2>1. Wrote(w)
    BY <1>5, WriteOutStep
  <2>2. PICK c \in Written(work[w].step, Content(w)) : file' = [file EXCEPT ![work[w].step] = c]
    BY <2>1 DEF Wrote
  <2>3. CASE work[w].step = "dhcpd"
    <3>1. Content(w).hook
      <4>1. CASE w = Main
        BY <2>3, <4>1 DEF Content, HookInv
      <4>2. CASE w # Main
        BY <2>3, <4>2 DEF Content, DhcpdFile
      <4> QED
        BY <4>1, <4>2
    <3>2. c \in {Whole(Content(w)), Torn(Content(w))}
      BY <2>2, <2>3 DEF Written
    <3>3. HasHook'
      BY <1>0, <2>2, <2>3, <3>1, <3>2 DEF HasHook, Text, Whole, Torn
    <3>4. work'[Main].step \notin {"copy", "dhcpd", "ensure"}
      <4>1. CASE w = Main
        <5>1. work[Main].kind = "start"
          BY <1>0, <2>3, <4>1 DEF Shape, Task, StepsOf
        <5> QED
          BY <2>1, <2>3, <4>1, <5>1, AfterFile DEF Wrote, Files, NetFiles
      <4>2. CASE w # Main
        <5>1. work[w].kind # "none" /\ phase = "serving"
          BY <1>0, <2>3, <4>2 DEF Shape, Task, Phases, StepsOf
        <5> QED
          BY <1>0, <2>1, <4>2, <5>1 DEF Wrote, Goes, Alone, Shape, Task, Phases, StepsOf
      <4> QED
        BY <4>1, <4>2
    <3> QED
      BY <3>3, <3>4 DEF HookInv
  <2>4. CASE work[w].step # "dhcpd"
    <3>1. HasHook' = HasHook /\ suspect' \cap {"dhcpd"} = suspect \cap {"dhcpd"} /\ phase' = phase
      BY <1>0, <2>1, <2>2, <2>4 DEF Wrote, HasHook, Text
    <3>2. ~Writing(w, "dhcpd") /\ ~Writing(w, "dhcpd")'
      BY <2>1, <2>4 DEF Wrote, Goes, Writing
    <3>3. CASE w = Main
      <4>1. work[w].kind = "start" /\ work[w].step \in {"copy", "key"}
        BY <1>0, <2>1, <2>4, <3>3 DEF Wrote, Shape, Task, StepsOf, Files, NetFiles
      <4>2. CASE work[w].step = "copy"
        <5>1. work'[Main].step = "dhcpd" /\ work'[Main].val = work[Main].val /\ phase' # "serving"
          BY <2>1, <3>3, <4>1, <4>2, AfterFile DEF Wrote, Files, NetFiles, Shape, Phases
        <5> QED
          BY <3>3, <4>2, <5>1 DEF HookInv, Past
      <4>3. CASE work[w].step = "key"
        <5>1. work'[Main].step = "load" /\ Past
          BY <2>1, <3>3, <4>1, <4>3, AfterFile DEF Wrote, Files, NetFiles, Past
        <5>2. \A v \in Workers : Writing(v, "dhcpd")' <=> Writing(v, "dhcpd")
          BY <1>0, <2>1, <3>2 DEF Wrote, Goes, Alone, Writing
        <5> QED
          BY <3>1, <5>1, <5>2 DEF HookInv
      <4> QED
        BY <4>1, <4>2, <4>3
    <3>4. CASE w # Main
      BY <1>0, <1>1, <2>1, <3>1, <3>2, <3>4 DEF Wrote, Goes
    <3> QED
      BY <3>3, <3>4
  <2> QED
    BY <2>3, <2>4
<1>6. ASSUME NEW w \in Workers, Fail(w) PROVE HookInv'
  <2>1. Failed(w)
    BY <1>6, FailStep
  <2>2. CASE w = Main
    <3>1. work[w].kind = "start" /\ work[w].step \in {"copy", "dhcpd", "key"}
      BY <1>0, <2>1, <2>2 DEF Failed, Shape, Task, StepsOf, Files, NetFiles, Services
    <3>2. "dhcpd" \in suspect' /\ work'[Main].step \notin {"copy", "dhcpd", "ensure"}
      BY <2>1, <2>2, <3>1 DEF Failed, Files, NetFiles
    <3> QED
      BY <3>2 DEF HookInv
  <2>3. CASE w # Main
    <3>1. phase' = phase /\ HasHook' = HasHook /\ work'[Main] = work[Main]
      BY <1>0, <2>1, <2>3 DEF Failed, Goes, Alone, HasHook, Text
    <3>2. CASE work[w].step = "dhcpd"
      <4>1. "dhcpd" \in suspect'
        BY <1>0, <2>1, <2>3, <3>2 DEF Failed
      <4> QED
        BY <3>1, <4>1 DEF HookInv
    <3>3. CASE work[w].step # "dhcpd"
      <4>1. ~Writing(w, "dhcpd") /\ ~Writing(w, "dhcpd")' /\ suspect' \cap {"dhcpd"} = suspect \cap {"dhcpd"}
        BY <2>1, <2>3, <3>3 DEF Failed, Goes, Writing
      <4> QED
        BY <1>0, <1>1, <2>1, <2>3, <3>1, <4>1 DEF Failed, Goes
    <3> QED
      BY <3>2, <3>3
  <2> QED
    BY <2>2, <2>3
<1>7. CASE Start
  <2>1. work'[Main].step \in {"ensure", "readKey"} /\ "dhcpd" \in suspect'
    BY <1>0, <1>7 DEF Start
  <2> QED
    BY <2>1 DEF HookInv
<1>8. CASE Ensure \/ ReadKey \/ Load
  <2>1. phase = "starting" /\ Alone(Main) /\ HasHook' = HasHook
    BY <1>8, MainTasks DEF MainSteps, Ensure, ReadKey, Load, memory, HasHook, Text, Shape, Task,
       Phases, StepsOf
  <2>2. \A w \in Workers : ~Writing(w, "dhcpd")
    <3>1. \A a \in Admins : work[a].step = "idle"
      BY <1>0, <2>1 DEF Shape, Phases, Task, StepsOf
    <3> QED
      BY <1>0, <1>8, <3>1 DEF Writing, Ensure, ReadKey, Load
  <2>3. CASE Ensure
    <3> DEFINE text == Text("dhcpd", NoDhcpd)
    <3>1. CASE Ensured(text) /\ work' = [work EXCEPT ![Main].step = "readKey"]
      <4>1. HasHook /\ work'[Main].step = "readKey"
        BY <1>0, <3>1 DEF Ensured, HasHook, Fields
      <4> QED
        BY <2>1, <4>1 DEF HookInv
    <3>2. CASE work' = [work EXCEPT ![Main].step = "copy", ![Main].val = WithHook(text)]
      <4>1. work'[Main].val.hook /\ work'[Main].step = "copy" /\ phase' # "serving"
        BY <1>0, <2>1, <2>3, <3>2 DEF Ensure, Fields, WithHook
      <4> QED
        BY <4>1 DEF HookInv, Past
    <3>3. CASE work' = [work EXCEPT ![Main].step = "readKey"] /\ suspect' = suspect
      <4>1. "dhcpd" \in suspect' /\ work'[Main].step = "readKey"
        BY <1>0, <2>3, <3>3 DEF Ensure, HookInv, Fields
      <4> QED
        BY <4>1 DEF HookInv
    <3> HIDE DEF text
    <3> QED
      BY <2>3, <3>1, <3>2, <3>3 DEF Ensure, text
  <2>4. CASE ReadKey \/ Load
    <3>1. Past /\ suspect' = suspect
      BY <2>4 DEF ReadKey, Load, Past
    <3>2. work'[Main].step \in {"key", "load", "idle"}
      BY <1>0, <2>4 DEF ReadKey, Load, Idle, Fields
    <3> QED
      BY <2>1, <2>2, <3>1, <3>2 DEF HookInv
  <2> QED
    BY <1>8, <2>3, <2>4
<1>9. CASE Crash
  <2>1. phase' = "down" /\ work'[Main].step = "idle"
    BY <1>0, <1>9 DEF Crash, Idle
  <2> QED
    BY <2>1 DEF HookInv, Past
<1>10. CASE EndSession \/ UNCHANGED vars
  <2>1. UNCHANGED <<file, work, phase, suspect>>
    BY <1>10 DEF EndSession, vars, history
  <2> QED
    BY <2>1 DEF HookInv, Past, HasHook, Text, Writing
<1> QED
  BY <1>2, <1>3, <1>4, <1>5, <1>6, <1>7, <1>8, <1>9, <1>10 DEF Next

\* For any number of overlapping changes, failures and deaths of the program: once a start in
\* hook mode has read dhcpd.conf or anybody has written it, the file calls the hook
\* while the program serves, unless the latest write failed or one is under way.
THEOREM HookStaysInstalled == Spec => []HookInstalled
<1>1. Init => Shape /\ HookInv
  <2>1. Init => HookInv
    BY DEF Init, HookInv, Past, Idle, Workers
  <2> QED
    BY <2>1, InitShape
<1>2. Shape /\ HookInv /\ [Next]_vars => Shape' /\ HookInv'
  BY ShapeStep, HookStep
<1>3. HookInv => HookInstalled
  BY DEF HookInv, HookInstalled, HasHook
<1> QED
  BY <1>1, <1>2, <1>3, PTL DEF Spec
-----------------------------------------------------------------------------
(* Types.                                                                  *)

\* What a file holds, or a goroutine writes to it.
Fits(f, v) ==
  /\ f = "gpio" => v \in Pins
  /\ f = "rates" => v \in RateTables
  /\ f = "maintenance" => v \in Modes
  /\ f = "key" => v \in Nat

\* Pins and mode are set in memory by the goroutine that writes them.
Target(w) ==
  IF work[w].kind \in {"gpio", "rates", "maintenance"} THEN work[w].kind
  ELSE IF work[w].step \in {"key", "load"} THEN "key" ELSE "none"

ValueInv ==
  /\ \A f \in Files : /\ file[f].is \in {"absent", "empty", "whole", "torn"}
                      /\ file[f].is \in {"whole", "torn"} => Fits(f, file[f].val)
  /\ \A w \in Workers : Fits(Target(w), work[w].val)
  /\ DOMAIN pins = {"pins", "debounce"} /\ pins.pins \in Pins /\ pins.debounce \in Pins
  /\ mode \in Modes /\ key \in Nat /\ keys \in Nat /\ issued \subseteq Nat

RecordInv ==
  /\ DOMAIN latest = Groups
  /\ \A g \in Groups : /\ DOMAIN latest[g] = {"alone", "ok", "saved", "val"}
                       /\ latest[g].alone \in BOOLEAN /\ latest[g].ok \in BOOLEAN /\ latest[g].saved \in BOOLEAN
  /\ acked \in BOOLEAN /\ suspect \subseteq Files

CountInv ==
  /\ sessions \in 0..MaxSessions /\ requests \in 0..MaxRequests /\ faults \in 0..MaxFaults

LEMMA CountStep ==
  ASSUME CountInv, [Next]_vars
  PROVE  CountInv'
<1> USE SettingsAssumption DEF CountInv, bounds, memory
<1>1. ASSUME NEW a \in Admins, Arrive(a) PROVE CountInv'
  <2>1. requests < MaxRequests /\ requests' = requests + 1 /\ UNCHANGED <<sessions, faults>>
    BY <1>1 DEF Arrive, Login, SetPassword, SetRates, SetGPIO, SetMode, SetNetwork, SetRoles, AdminRequest, Request
  <2> QED
    BY <2>1
<1>2. ASSUME NEW a \in Admins, Serve(a) PROVE CountInv'
  <2>1. CASE CreateSession(a)
    BY <2>1 DEF CreateSession
  <2>2. UNCHANGED bounds /\ (~CreateSession(a) => sessions' = sessions)
    BY <1>2 DEF Serve, Compare, CreateSession, SetLiveMode, Reconfigure, SetDebounce, Set, GetHostname, GetInterfaces,
       GetDhcpd, Read, Reload, Command, RestartHostapd
  <2> QED
    BY <2>1, <2>2
<1>3. ASSUME NEW w \in Workers, Open(w) \/ WriteOut(w) \/ Fail(w) PROVE CountInv'
  BY <1>3 DEF Open, WriteOut, Fail, Fault
<1>4. CASE Start \/ Ensure \/ ReadKey \/ Load \/ Crash \/ EndSession \/ UNCHANGED vars
  BY <1>4 DEF Start, Ensure, ReadKey, Load, Crash, EndSession, Fault, vars
<1> QED
  BY <1>1, <1>2, <1>3, <1>4 DEF Next

LEMMA BeginsRecords ==
  ASSUME RecordInv, NEW w, NEW g \in Groups, Begins(w, g), UNCHANGED acked, suspect' \subseteq Files
  PROVE  RecordInv'
<1>1. latest' = [latest EXCEPT ![g] = [alone |-> \A v \in Workers \ {w} : Group(work[v].kind) # g,
                                       ok |-> FALSE, saved |-> FALSE, val |-> None]]
  BY DEF Begins
<1>2. DOMAIN latest' = Groups /\ \A h \in Groups \ {g} : latest'[h] = latest[h]
  BY <1>1 DEF RecordInv
<1>3. latest'[g] = [alone |-> \A v \in Workers \ {w} : Group(work[v].kind) # g,
                    ok |-> FALSE, saved |-> FALSE, val |-> None]
  BY <1>1 DEF RecordInv
<1>4. (\A v \in Workers \ {w} : Group(work[v].kind) # g) \in BOOLEAN
  OBVIOUS
<1> HIDE DEF Group
<1>5. /\ DOMAIN latest'[g] = {"alone", "ok", "saved", "val"}
      /\ latest'[g].alone \in BOOLEAN /\ latest'[g].ok \in BOOLEAN /\ latest'[g].saved \in BOOLEAN
  BY <1>3, <1>4
<1> QED
  BY <1>2, <1>5 DEF RecordInv

LEMMA AnswerRecords ==
  ASSUME RecordInv, NEW w, NEW saved \in BOOLEAN, Answer(w, saved), suspect' \subseteq Files
  PROVE  RecordInv'
<1> DEFINE g == Group(work[w].kind)
<1>1. acked' \in BOOLEAN
  BY DEF Answer, RecordInv
<1>2. CASE g \in Groups
  <2>1. latest' = [latest EXCEPT ![g].ok = TRUE, ![g].saved = saved, ![g].val = work[w].val]
    BY <1>2 DEF Answer
  <2> HIDE DEF g
  <2> QED
    BY <1>1, <1>2, <2>1 DEF RecordInv
<1>3. CASE g \notin Groups
  <2>1. latest' = latest
    BY <1>3 DEF Answer
  <2> QED
    BY <1>1, <2>1 DEF RecordInv
<1> QED
  BY <1>2, <1>3

LEMMA GoOnRecords ==
  ASSUME RecordInv, NEW w, GoOn(w), suspect' \subseteq Files
  PROVE  RecordInv'
<1>1. CASE After(w) = "idle"
  BY <1>1, AnswerRecords DEF GoOn, Done
<1>2. CASE After(w) # "idle"
  BY <1>2 DEF GoOn, RecordInv
<1> QED
  BY <1>1, <1>2

LEMMA RecordStep ==
  ASSUME Shape, RecordInv, [Next]_vars
  PROVE  RecordInv'
<1>0. suspect \subseteq Files /\ "dhcpd" \in Files
  BY DEF RecordInv, Files, NetFiles
<1>1. ASSUME UNCHANGED <<latest, acked>>, suspect' \subseteq Files PROVE RecordInv'
  BY <1>1 DEF RecordInv
<1>2. ASSUME NEW a \in Admins, Arrive(a) PROVE RecordInv'
  <2>1. ASSUME NEW kind \in {"password", "rates", "gpio", "maintenance", "network", "roles"}, NEW step, NEW v,
               AdminRequest(a, kind, step, v)
        PROVE  RecordInv'
    <3>1. Group(kind) \in Groups
      BY DEF Group, Groups
    <3> QED
      BY <1>0, <2>1, <3>1, BeginsRecords DEF AdminRequest
  <2>2. ASSUME NEW p \in Passwords, Login(a, p) PROVE RecordInv'
    BY <1>0, <1>1, <2>2, BeginsRecords DEF Login, history, Groups
  <2> QED
    BY <1>2, <2>1, <2>2 DEF Arrive, SetPassword, SetRates, SetGPIO, SetMode, SetNetwork, SetRoles
<1>3. ASSUME NEW a \in Admins, Serve(a) PROVE RecordInv'
  <2>1. CASE CreateSession(a)
    <3>1. a # Main /\ a \in Workers /\ work[a].kind # "start"
      BY SettingsAssumption DEF Workers, Shape, Task
    <3>2. After(a) = "idle"
      BY <2>1, <3>1 DEF CreateSession, After, Successor
    <3> QED
      BY <1>0, <2>1, <3>2, GoOnRecords DEF CreateSession, GoOn
  <2>2. CASE ~CreateSession(a)
    <3>1. (GoOn(a) \/ UNCHANGED <<latest, acked>>) /\ suspect' = suspect
      BY <1>3, <2>2 DEF Serve, Compare, SetLiveMode, Reconfigure, SetDebounce, Set, GetHostname, GetInterfaces,
         GetDhcpd, Read, Reload, Command, RestartHostapd, history
    <3> QED
      BY <1>0, <1>1, <3>1, GoOnRecords
  <2> QED
    BY <2>1, <2>2
<1>4. ASSUME NEW w \in Workers, Open(w) \/ WriteOut(w) \/ Fail(w) PROVE RecordInv'
  <2>1. CASE Open(w) \/ WriteOut(w)
    BY <1>0, <1>1, <2>1, GoOnRecords DEF Open, WriteOut, history
  <2>2. CASE Fail(w)
    <3>1. suspect' \subseteq Files
      BY <1>0, <2>2 DEF Fail
    <3>2. Answer(w, FALSE) \/ UNCHANGED <<latest, acked>>
      BY <2>2 DEF Fail, RequestFails
    <3> QED
      BY <1>1, <3>1, <3>2, AnswerRecords
  <2> QED
    BY <1>4, <2>1, <2>2
<1>5. CASE Ensure
  BY <1>0, <1>1, <1>5, BeginsRecords DEF Ensure, Groups
<1>6. CASE Start \/ ReadKey \/ Load \/ Crash \/ EndSession \/ UNCHANGED vars
  BY <1>0, <1>1, <1>6 DEF Start, ReadKey, Load, Crash, EndSession, vars, history
<1> QED
  BY <1>2, <1>3, <1>4, <1>5, <1>6 DEF Next
\* A goroutine that goes on keeps what it writes, and leaves "load" and "key" to main.
LEMMA GoOnKeeps ==
  ASSUME Shape, NEW w \in Workers, GoOn(w), Fits(Target(w), work[w].val),
         work[w].step \notin {"idle", "ensure", "readKey", "load", "getDhcpd"}
  PROVE  Alone(w) /\ Fits(Target(w), work[w].val)'
<1>1. Goes(w) /\ IF After(w) = "idle" THEN work'[w].kind = "none"
                 ELSE work'[w].kind = work[w].kind /\ work'[w].step = After(w) /\ work'[w].val = work[w].val
  BY GoOnGoes
<1>2. CASE After(w) = "idle"
  <2>1. work'[w].kind = "none" /\ work'[w].step = "idle"
    BY <1>1, <1>2 DEF GoOn, Done, Answer, Idle, Shape
  <2> QED
    BY <1>1, <2>1 DEF Goes, Target, Fits
<1>3. CASE After(w) # "idle"
  <2>1. work'[w].kind = work[w].kind /\ work'[w].step = After(w) /\ work'[w].val = work[w].val
    BY <1>1, <1>3
  <2>2. After(w) \in {"key", "load"} => work[w].step = "key"
    BY <1>3, TaskKind DEF After, Successor, StepsOf, NetSteps, Kinds, Groups
  <2>3. After(w) \in StepsOf(work[w].kind)
    BY <1>3, AfterStep
  <2>4. Target(w)' = Target(w) \/ Target(w)' = "none"
    BY <2>1, <2>2 DEF Target
  <2> QED
    BY <1>1, <2>1, <2>4 DEF Goes, Fits
<1> QED
  BY <1>2, <1>3

LEMMA ValueStep ==
  ASSUME Shape, ValueInv, [Next]_vars
  PROVE  ValueInv'
<1>0. /\ DOMAIN work = Workers /\ DOMAIN file = Files /\ Main \in Workers /\ Main \notin Admins
      /\ Admins \subseteq Workers /\ Workers = Admins \cup {Main} /\ DOMAIN work[Main] = Fields
      /\ {"gpio", "maintenance", "key"} \subseteq Files
  BY SettingsAssumption DEF Shape, Task, Workers, Files, NetFiles
<1>1. ASSUME NEW w \in Workers, Alone(w), Fits(Target(w), work[w].val)',
             UNCHANGED <<file, mode, pins, key, keys, issued>>
      PROVE  ValueInv'
  <2>1. \A v \in Workers : Fits(Target(v), work[v].val)'
    BY <1>1 DEF Alone, ValueInv, Target
  <2> QED
    BY <1>1, <2>1 DEF ValueInv
<1>2. ASSUME NEW a \in Admins, Arrive(a) PROVE ValueInv'
  <2>1. Arrived(a) /\ pins' = pins
    BY <1>2, ArriveStep DEF Arrive, Login, SetPassword, SetRates, SetGPIO, SetMode, SetNetwork, SetRoles,
       AdminRequest, Request, memory
  <2>2. work'[a].step \notin {"key", "load"}
    BY <2>1, KindOfStep DEF Arrived
  <2>3. /\ work'[a].kind = "gpio" => work'[a].val \in Pins
        /\ work'[a].kind = "rates" => work'[a].val \in RateTables
        /\ work'[a].kind = "maintenance" => work'[a].val \in Modes
    BY <1>0, <1>2 DEF Arrive, Login, SetPassword, SetRates, SetGPIO, SetMode, SetNetwork, SetRoles,
       AdminRequest, Request
  <2>4. Fits(Target(a), work[a].val)'
    BY <2>2, <2>3 DEF Target, Fits
  <2> QED
    BY <1>0, <1>1, <2>1, <2>4 DEF Arrived
<1>3. ASSUME NEW a \in Admins, Serve(a) PROVE ValueInv'
  <2>0. Served(a) /\ Fits(Target(a), work[a].val) /\ a \in Workers /\ a # Main
    BY <1>0, <1>3, ServeStep DEF ValueInv
  <2>1. Alone(a) /\ Fits(Target(a), work[a].val)'
    <3>1. CASE GoOn(a) /\ work[a].step \notin {"idle", "ensure", "readKey", "load", "getDhcpd"}
      BY <2>0, <3>1, GoOnKeeps
    <3>2. CASE work'[a].kind \in {"none", "login", "roles"}
      <4>1. work'[a].step \notin {"key", "load"}
        BY <2>0, <3>2, TaskKind DEF Served, Goes, StepsOf, NetSteps
      <4> QED
        BY <2>0, <3>2, <4>1 DEF Served, Goes, Target, Fits
    <3>3. \/ GoOn(a) /\ work[a].step \notin {"idle", "ensure", "readKey", "load", "getDhcpd"}
          \/ work'[a].kind \in {"none", "login", "roles"}
      <4>1. CASE Compare(a)
        <5>1. work[a].kind = "login"
          BY <2>0, <4>1, TaskKind, KindOfStep DEF Compare
        <5> QED
          BY <2>0, <5>1 DEF Served, Goes
      <4>2. CASE CreateSession(a)
        <5>1. After(a) = "idle"
          BY <2>0, <4>2, TaskKind DEF CreateSession, After, Successor, Shape, Task
        <5> QED
          BY <4>2, <5>1 DEF CreateSession, GoOn
      <4>3. CASE SetLiveMode(a) \/ SetDebounce(a) \/ Reload(a)
        BY <4>3 DEF SetLiveMode, SetDebounce, Set, Reload, Command, RestartHostapd
      <4>4. CASE Reconfigure(a)
        BY <1>0, <4>4 DEF Reconfigure, Set, GiveUp, Idle
      <4>5. CASE GetHostname(a) \/ GetInterfaces(a) \/ GetDhcpd(a)
        <5>1. work[a].step \in {"getHostname", "getInterfaces", "getDhcpd"}
          BY <4>5 DEF GetHostname, GetInterfaces, GetDhcpd, Read
        <5>2. work[a].kind = "roles"
          BY <2>0, <5>1, TaskKind, KindOfStep
        <5> QED
          BY <2>0, <5>2 DEF Served, Goes
      <4> QED
        BY <1>3, <4>1, <4>2, <4>3, <4>4, <4>5 DEF Serve
    <3> QED
      BY <3>1, <3>2, <3>3
  <2>2. CASE SetLiveMode(a)
    <3>1. mode' \in Modes
      BY <2>0, <2>2, TaskKind DEF SetLiveMode, Set, Target, Fits
    <3> QED
      BY <2>0, <2>1, <2>2, <3>1 DEF SetLiveMode, Set, Served, Alone, ValueInv, Target
  <2>3. CASE SetDebounce(a) \/ Reconfigure(a)
    <3>1. work[a].step \in {"debounce", "pins"}
      BY <2>3 DEF SetDebounce, Reconfigure, Set
    <3>2. work[a].kind = "gpio"
      BY <2>0, <3>1, TaskKind, KindOfStep
    <3>3. work[a].val \in Pins
      <4>1. Target(a) = "gpio"
        BY <3>2 DEF Target
      <4> QED
        BY <2>0, <4>1 DEF Fits
    <3>4. DOMAIN pins' = {"pins", "debounce"} /\ pins'.pins \in Pins /\ pins'.debounce \in Pins
      BY <2>3, <3>3 DEF SetDebounce, Reconfigure, Set, ValueInv
    <3>5. UNCHANGED <<file, mode, key, keys, issued>>
      BY <2>3 DEF SetDebounce, Reconfigure, Set, history
    <3> QED
      BY <2>1, <3>4, <3>5 DEF Alone, ValueInv, Target
  <2>4. CASE ~SetLiveMode(a) /\ ~SetDebounce(a) /\ ~Reconfigure(a)
    <3>1. UNCHANGED <<file, mode, pins, key, keys, issued>>
      BY <1>3, <2>4 DEF Serve, Compare, CreateSession, GetHostname, GetInterfaces, GetDhcpd, Read, Reload, Command,
         RestartHostapd, memory, history
    <3> QED
      BY <1>1, <2>0, <2>1, <3>1
  <2> QED
    BY <2>2, <2>3, <2>4
<1>4. ASSUME NEW w \in Workers, Open(w) PROVE ValueInv'
  <2>1. /\ work' = [work EXCEPT ![w].open = TRUE] /\ work[w].step \in Files
        /\ UNCHANGED <<mode, pins, key, keys, issued>> /\ file' = [file EXCEPT ![work[w].step] = Empty]
    BY <1>4 DEF Open, memory, history
  <2>2. \A v \in Workers : Fits(Target(v), work[v].val)'
    BY <1>0, <2>1 DEF Shape, Task, Fields, ValueInv, Target
  <2>3. \A f \in Files : /\ file'[f].is \in {"absent", "empty", "whole", "torn"}
                         /\ file'[f].is \in {"whole", "torn"} => Fits(f, file'[f].val)
    BY <1>0, <2>1 DEF ValueInv, Empty
  <2> QED
    BY <2>1, <2>2, <2>3 DEF ValueInv
<1>5. ASSUME NEW w \in Workers, WriteOut(w) PROVE ValueInv'
  <2>1. Wrote(w) /\ GoOn(w) /\ UNCHANGED pins
    BY <1>5, WriteOutStep DEF WriteOut
  <2>2. Alone(w) /\ Fits(Target(w), work[w].val)'
    BY <2>1, GoOnKeeps DEF Wrote, ValueInv, Files, NetFiles
  <2>3. Fits(work[w].step, Content(w))
    <3>1. CASE work[w].step \in {"gpio", "rates", "maintenance", "key"}
      <4>1. Target(w) = work[w].step
        BY <3>1, KindOfStep, TaskKind DEF Target
      <4>2. Content(w) = work[w].val
        BY <3>1 DEF Content
      <4> QED
        BY <4>1, <4>2 DEF ValueInv
    <3>2. CASE work[w].step \notin {"gpio", "rates", "maintenance", "key"}
      BY <3>2 DEF Fits
    <3> QED
      BY <3>1, <3>2
  <2>4. PICK c \in Written(work[w].step, Content(w)) : file' = [file EXCEPT ![work[w].step] = c]
    BY <2>1 DEF Wrote
  <2>5. c.is \in {"whole", "torn"} /\ c.val = Content(w)
    BY <2>4 DEF Written, Whole, Torn
  <2>6. \A f \in Files : /\ file'[f].is \in {"absent", "empty", "whole", "torn"}
                         /\ file'[f].is \in {"whole", "torn"} => Fits(f, file'[f].val)
    BY <1>0, <2>1, <2>3, <2>4, <2>5 DEF Wrote, ValueInv
  <2> QED
    BY <2>1, <2>2, <2>6 DEF Wrote, Alone, ValueInv, Target
<1>6. ASSUME NEW w \in Workers, Fail(w) PROVE ValueInv'
  <2>1. Failed(w) /\ UNCHANGED pins
    BY <1>6, FailStep DEF Fail
  <2>2. work'[w].kind \in {"none", "start"} /\ work'[w].step \notin {"key", "load"}
    BY <2>1 DEF Failed
  <2> QED
    BY <1>1, <2>1, <2>2 DEF Failed, Goes, Target, Fits
<1>7. CASE Start \/ Ensure
  <2>1. /\ Alone(Main) /\ work'[Main].kind = "start" /\ work'[Main].step \notin {"key", "load"}
        /\ UNCHANGED <<file, mode, pins, key, keys, issued>>
    <3>1. work[Main].kind = "start" \/ Start
      BY <1>0, <1>7 DEF Ensure, Shape, Task, StepsOf
    <3> QED
      BY <1>0, <1>7, <3>1 DEF Start, Ensure, Alone, memory, Fields
  <2> QED
    BY <1>0, <1>1, <2>1 DEF Target, Fits
<1>8. CASE ReadKey
  <2>1. /\ Alone(Main) /\ work'[Main].kind = "start" /\ work'[Main].step \in {"key", "load"}
        /\ UNCHANGED <<file, mode, pins, key>> /\ issued' \subseteq Nat /\ keys' \in Nat /\ work'[Main].val \in Nat
    <3>1. work[Main].kind = "start"
      BY <1>0, <1>8 DEF ReadKey, Shape, Task, StepsOf
    <3>2. UsableKey => file["key"].val \in Nat
      BY <1>0 DEF UsableKey, ValueInv, Fits
    <3>3. issued' = issued \/ issued' = {}
      BY <1>8 DEF ReadKey
    <3> QED
      BY <1>0, <1>8, <3>1, <3>2, <3>3 DEF ReadKey, Alone, memory, Fields, ValueInv
  <2> QED
    BY <1>0, <2>1 DEF Alone, ValueInv, Target, Fits
<1>9. CASE Load
  <2>1. work[Main].val \in Nat
    <3>1. Target(Main) = "key"
      BY <1>0, <1>9 DEF Load, Target, Shape, Task, StepsOf
    <3> QED
      BY <1>0, <3>1 DEF ValueInv, Fits
  <2>2. LoadMode \in Modes /\ LoadPins \in Pins
    BY <1>0, SettingsAssumption DEF LoadMode, LoadPins, ValueInv, Fits, Modes
  <2>3. Alone(Main) /\ work'[Main].kind = "none" /\ work'[Main].step = "idle"
    BY <1>0, <1>9 DEF Load, Alone, Idle
  <2>4. Fits(Target(Main), work[Main].val)'
    BY <2>3 DEF Target, Fits
  <2>5. UNCHANGED <<file, keys>> /\ key' \in Nat /\ issued' \subseteq Nat /\ mode' \in Modes
        /\ DOMAIN pins' = {"pins", "debounce"} /\ pins'.pins \in Pins /\ pins'.debounce \in Pins
    BY <1>9, <2>1, <2>2 DEF Load, ValueInv
  <2> QED
    BY <2>3, <2>4, <2>5 DEF Alone, ValueInv, Target
<1>10. CASE Crash
  <2>1. \A w \in Workers : Fits(Target(w), work[w].val)'
    BY <1>10 DEF Crash, Idle, Target, Fits
  <2> QED
    BY <1>10, <2>1, SettingsAssumption DEF Crash, history, ValueInv, Modes
<1>11. CASE EndSession \/ UNCHANGED vars
  <2>1. UNCHANGED <<file, work, mode, pins, key, keys, issued>>
    BY <1>11 DEF EndSession, vars, memory, history
  <2> QED
    BY <2>1 DEF ValueInv, Target
<1> QED
  BY <1>2, <1>3, <1>4, <1>5, <1>6, <1>7, <1>8, <1>9, <1>10, <1>11 DEF Next

LEMMA InitMode == Init => ModeInv
BY SettingsAssumption DEF Init, ModeInv, ModeSurvives, Writing, Idle, Workers

LEMMA InitValue == Init => ValueInv
<1> SUFFICES ASSUME Init PROVE ValueInv
  OBVIOUS
<1>1. \A w \in Workers : Fits(Target(w), work[w].val)
  BY DEF Init, Idle, Target, Fits
<1>2. \A f \in Files : file[f].is \in {"absent", "whole"} /\ (f \in {"gpio", "rates", "maintenance", "key"} => file[f].is = "absent")
  BY DEF Init, Absent, Whole
<1> QED
  BY <1>1, <1>2, SettingsAssumption DEF Init, ValueInv, Fits, Modes

LEMMA InitRecord == Init => RecordInv
<1> SUFFICES ASSUME Init PROVE RecordInv
  OBVIOUS
<1>1. /\ latest = [g \in Groups |-> [alone |-> TRUE, ok |-> FALSE, saved |-> FALSE, val |-> None]]
      /\ acked = FALSE /\ suspect = {}
  BY DEF Init
<1> QED
  BY <1>1 DEF RecordInv

\* Every variable keeps its type, whatever the settings are and however many admins change them.
THEOREM TypeCorrect == Spec => []TypeOK
<1> DEFINE TypeInv == Shape /\ ModeInv /\ ValueInv /\ RecordInv /\ CountInv
<1>1. Init => TypeInv
  <2> SUFFICES ASSUME Init PROVE TypeInv
    OBVIOUS
  <2>1. CountInv
    BY SettingsAssumption DEF Init, CountInv
  <2> QED
    BY <2>1, InitShape, InitMode, InitValue, InitRecord
<1>2. TypeInv /\ [Next]_vars => TypeInv'
  BY ShapeStep, ModeStep, ValueStep, RecordStep, CountStep
<1>3. TypeInv => TypeOK
  <2> SUFFICES ASSUME TypeInv PROVE TypeOK
    OBVIOUS
  <2>1. ASSUME NEW w \in Workers PROVE work[w].kind \in Kinds /\ work[w].step \in Steps /\ work[w].open \in BOOLEAN
    <3>1. work[w].kind \in Kinds /\ work[w].step \in StepsOf(work[w].kind) /\ work[w].open \in BOOLEAN
      BY DEF Shape, Task
    <3>2. StepsOf(work[w].kind) \subseteq Steps
      BY <3>1 DEF StepsOf, NetSteps, Steps, Kinds, Groups, Files, NetFiles, Services
    <3> QED
      BY <3>1, <3>2
  <2>2. \A g \in Groups : {latest[g].alone, latest[g].ok, latest[g].saved} \subseteq BOOLEAN
    BY DEF RecordInv
  <2> QED
    BY <2>1, <2>2 DEF TypeOK, SettingsTypeOK, Shape, Phases, ModeInv, ValueInv, RecordInv, CountInv
<1> QED
  BY <1>1, <1>2, <1>3, PTL DEF Spec

-----------------------------------------------------------------------------
(* What a change has put in force.                                         *)

\* The group of requests that write a file.
Owner(f) == CASE f \in NetFiles -> "network" [] f = "key" -> "none" [] OTHER -> f

\* w is about to change something of the group, or is on its way there.
Act(w, g) == Group(work[w].kind) = g /\ work[w].step \notin {"ensure", "readKey", "key", "load"}

\* How far a change of the network has come at a step.
Rank(s) ==
  CASE s = "hostname" -> 1 [] s = "setHostname" -> 2 [] s = "interfaces" -> 3 [] s = "copy" -> 4
    [] s = "dhcpd" -> 5 [] s = "networking" -> 6 [] s = "isc" -> 7 [] s = "hostapd" -> 8
    [] s = "idle" -> 9 [] OTHER -> 0

NetGot(n, v, f, r) ==
  /\ n > 1 /\ v.hostname # None => f["hostname"] = Whole(v.hostname)
  /\ n > 2 /\ v.hostname # None => r["hostname"] = Whole(v.hostname)
  /\ n > 3 => f["interfaces"] = Whole(InterfacesFile(v))
  /\ n > 4 => f["copy"] = Whole(DhcpdFile(v))
  /\ n > 5 => f["dhcpd"] = Whole(DhcpdFile(v))
  /\ n > 6 => r["interfaces"] = Whole(InterfacesFile(v))
  /\ n > 7 => r["dhcpd"] = Whole(DhcpdFile(v))

\* What an undisturbed request of group g with value v has achieved when it comes to step s, or
\* to its end, in the files f, the pins p (which count while the program is on) and the
\* services r.
Got(g, s, v, f, p, r, on) ==
  CASE g = "password" -> s \in {"session", "idle"} => f["password"] = Whole(v)
    [] g = "rates" -> s = "idle" => f["rates"] = Whole(v)
    [] g = "gpio" -> /\ on /\ s # "pins" => p.pins = v
                     /\ on /\ s \notin {"pins", "debounce"} => p.debounce = v
                     /\ s = "idle" => f["gpio"] = Whole(v)
    [] g = "network" -> NetGot(Rank(s), v, f, r)
    [] OTHER -> TRUE

On == phase = "serving"
Now(w) == Got(Group(work[w].kind), work[w].step, work[w].val, file, pins, running, On)

\* How far the latest request of the group has come that was answered as done: those that
\* could not write rates or pins are.
Reached(g) == IF g \in {"rates", "gpio"} /\ ~latest[g].saved THEN g ELSE "idle"

\* What such a request set counts until it is replaced or, if it was not written, up to the
\* next start.
Counts(g) == latest[g].ok /\ (Reached(g) = "idle" \/ g \in suspect)

\* As long as the latest request of a group is alone, it works on files of its own, and it is
\* not done; when it is done, what it set is in force.
Effect(g) ==
  latest[g].alone =>
    /\ \A v, w \in Workers : Act(v, g) /\ Act(w, g) => v = w
    /\ \A w \in Workers : Act(w, g) => /\ ~latest[g].ok
                                       /\ work[w].open => file[work[w].step] = Empty
                                       /\ w # Main => Now(w)
    /\ Counts(g) => Got(g, Reached(g), latest[g].val, file, pins, running, On)

ForceInv ==
  /\ DOMAIN running = {"hostname", "interfaces", "dhcpd"}
  /\ \A g \in Groups : Effect(g)

\* The part of the state Got reads for group g is left alone.
Untouched(g) ==
  /\ \A f \in Files : Owner(f) = g => file'[f] = file[f]
  /\ g = "gpio" => pins' = pins /\ (On' => On)
  /\ g = "network" => running' = running
  /\ g \in suspect' => g \in suspect

LEMMA GotKept ==
  ASSUME NEW g \in Groups, Untouched(g)
  PROVE  \A s, v : Got(g, s, v, file, pins, running, On) => Got(g, s, v, file', pins', running', On')
<1> SUFFICES ASSUME NEW s, NEW v, Got(g, s, v, file, pins, running, On)
             PROVE  Got(g, s, v, file', pins', running', On')
  OBVIOUS
<1>1. CASE g = "network"
  <2>1. \A f \in NetFiles : file'[f] = file[f]
    BY <1>1 DEF Untouched, Owner, Files, NetFiles
  <2>2. NetGot(Rank(s), v, file, running) /\ running' = running
    BY <1>1 DEF Got, Untouched
  <2>3. NetGot(Rank(s), v, file', running')
    BY <2>1, <2>2 DEF NetGot, NetFiles
  <2> QED
    BY <1>1, <2>3 DEF Got
<1>2. CASE g # "network"
  <2>1. g \in Files => file'[g] = file[g]
    BY <1>2 DEF Untouched, Owner, Groups, Files, NetFiles
  <2>2. g = "gpio" => pins' = pins /\ (On' => On)
    BY DEF Untouched
  <2> QED
    BY <1>2, <2>1, <2>2 DEF Got, Files, Groups
<1> QED
  BY <1>1, <1>2

\* Who writes a file is active in the group of the file.
LEMMA WriterActs ==
  ASSUME Shape, NEW w \in Workers
  PROVE  /\ work[w].step \in Files \ {"key"} =>
              /\ Owner(work[w].step) \in Groups /\ Group(work[w].kind) = Owner(work[w].step)
              /\ Act(w, Owner(work[w].step))
         /\ \A g \in Groups : Act(w, g) /\ work[w].open => work[w].step \in Files \ {"key"} /\ Owner(work[w].step) = g
<1> DEFINE s == work[w].step
           k == work[w].kind
<1>1. k \in Kinds /\ s \in StepsOf(k) /\ (work[w].open => s \in Files)
  BY TaskKind
<1>2. ASSUME s \in Files \ {"key"} PROVE Group(k) = Owner(s) /\ Owner(s) \in Groups
  <2>1. CASE s \in NetFiles
    <3>1. k \in {"network", "roles", "start"}
      BY <1>1, <2>1, KindOfStep DEF NetFiles, NetSteps
    <3> QED
      BY <2>1, <3>1 DEF Owner, Group, Groups, NetFiles
  <2>2. CASE s \notin NetFiles
    <3>1. s \in {"password", "rates", "gpio", "maintenance"}
      BY <1>2, <2>2 DEF Files
    <3>2. Owner(s) = s
      BY <3>1 DEF Owner, NetFiles
    <3>3. Group(k) = s
      BY <1>1, <3>1, KindOfStep DEF Group
    <3> QED
      BY <3>1, <3>2, <3>3 DEF Groups
  <2> QED
    BY <2>1, <2>2
<1>3. s \in Files \ {"key"} => s \notin {"ensure", "readKey", "key", "load"}
  BY DEF Files, NetFiles
<1> QED
  BY <1>1, <1>2, <1>3 DEF Act

\* w is not in the group any more, or never was and leaves it alone.
LEMMA OtherEffect ==
  ASSUME Shape, NEW w \in Workers, Alone(w), NEW g \in Groups, Effect(g), latest'[g] = latest[g],
         ~Act(w, g)', Untouched(g) \/ Act(w, g)
  PROVE  Effect(g)'
<1>1. DOMAIN work = Workers /\ \A v \in Workers \ {w} : work'[v] = work[v]
  BY DEF Alone, Shape
<1>2. \A v \in Workers : Act(v, g)' => v # w /\ Act(v, g)
  BY <1>1 DEF Act
<1> SUFFICES ASSUME latest[g].alone
             PROVE  /\ \A v \in Workers : Act(v, g)' =>
                         ~latest[g].ok /\ (work'[v].open => file'[work'[v].step] = Empty) /\ (v # Main => Now(v)')
                    /\ Counts(g)' => Got(g, Reached(g), latest[g].val, file', pins', running', On')
  BY <1>2 DEF Effect, Reached
<1>3. CASE Act(w, g)
  BY <1>2, <1>3 DEF Effect, Counts
<1>4. CASE Untouched(g)
  <2>1. \A s, v : Got(g, s, v, file, pins, running, On) => Got(g, s, v, file', pins', running', On')
    BY <1>4, GotKept
  <2>2. ASSUME NEW v \in Workers, Act(v, g)'
        PROVE  ~latest[g].ok /\ (work'[v].open => file'[work'[v].step] = Empty) /\ (v # Main => Now(v)')
    <3>1. Act(v, g) /\ work'[v] = work[v] /\ Group(work[v].kind) = g
      BY <1>1, <1>2, <2>2 DEF Act
    <3>2. work[v].open => work[v].step \in Files /\ Owner(work[v].step) = g
      BY <3>1, WriterActs
    <3>3. v # Main => Got(g, work[v].step, work[v].val, file, pins, running, On)
      BY <3>1 DEF Effect, Now
    <3>4. v # Main => Got(g, work[v].step, work[v].val, file', pins', running', On')
      BY <2>1, <3>3
    <3>5. v # Main => Now(v)'
      BY <3>1, <3>4 DEF Now
    <3> QED
      BY <1>4, <3>1, <3>2, <3>5 DEF Effect, Untouched
  <2>3. Counts(g)' => Got(g, Reached(g), latest[g].val, file, pins, running, On)
    BY <1>4 DEF Effect, Untouched, Counts, Reached
  <2> QED
    BY <2>1, <2>2, <2>3
<1> QED
  BY <1>3, <1>4

\* w goes on with what it does in the group.
LEMMA OwnEffect ==
  ASSUME Shape, NEW w \in Workers, Alone(w), NEW g \in Groups, Effect(g), latest'[g] = latest[g],
         Act(w, g), Act(w, g)', (work'[w].open => file'[work'[w].step] = Empty),
         (w # Main /\ latest[g].alone /\ Now(w) /\ (work[w].open => file[work[w].step] = Empty)) => Now(w)'
  PROVE  Effect(g)'
<1>1. DOMAIN work = Workers /\ \A v \in Workers \ {w} : work'[v] = work[v]
  BY DEF Alone, Shape
<1>2. \A v \in Workers : Act(v, g)' => Act(v, g)
  BY <1>1 DEF Act
<1> SUFFICES ASSUME latest[g].alone
             PROVE  /\ \A v \in Workers : Act(v, g)' =>
                         (work'[v].open => file'[work'[v].step] = Empty) /\ (v # Main => Now(v)')
                    /\ ~latest[g].ok
  BY <1>2 DEF Effect, Counts
<1>3. \A v \in Workers : Act(v, g) => v = w
  BY DEF Effect
<1> QED
  BY <1>2, <1>3 DEF Effect

\* w is done.
LEMMA EndEffect ==
  ASSUME Shape, RecordInv, NEW w \in Admins, Alone(w), NEW g \in Groups, Effect(g), Act(w, g), ~Act(w, g)',
         NEW saved \in BOOLEAN, saved \/ g \in {"rates", "gpio"},
         latest'[g] = [latest[g] EXCEPT !.ok = TRUE, !.saved = saved, !.val = work[w].val],
         (latest[g].alone /\ Now(w) /\ (work[w].open => file[work[w].step] = Empty)) =>
           Got(g, IF saved THEN "idle" ELSE g, work[w].val, file', pins', running', On')
  PROVE  Effect(g)'
<1>1. w \in Workers /\ w # Main /\ DOMAIN work = Workers /\ \A v \in Workers \ {w} : work'[v] = work[v]
  BY SettingsAssumption DEF Alone, Shape, Workers
<1>2. latest'[g].alone = latest[g].alone /\ latest'[g].val = work[w].val /\ latest'[g].saved = saved
  BY DEF RecordInv
<1>5. Reached(g)' = IF saved THEN "idle" ELSE g
  BY <1>2 DEF Reached
<1> SUFFICES ASSUME latest[g].alone
             PROVE  /\ \A v \in Workers : ~Act(v, g)'
                    /\ Got(g, Reached(g)', latest'[g].val, file', pins', running', On')
  BY <1>2 DEF Effect
<1>3. \A v \in Workers : Act(v, g) => v = w
  BY <1>1 DEF Effect
<1>4. \A v \in Workers : ~Act(v, g)'
  BY <1>1, <1>3 DEF Act
<1> QED
  BY <1>1, <1>2, <1>4, <1>5 DEF Effect

\* A request that goes on, or is done, keeps its promise when its step does what it is for.
LEMMA GoOnForce ==
  ASSUME Shape, RecordInv, ForceInv, NEW a \in Admins, GoOn(a), NEW g \in Groups, g = Group(work[a].kind),
         work[a].step \notin {"idle", "ensure", "readKey", "load", "getDhcpd"},
         DOMAIN running' = DOMAIN running, \A h \in Groups \ {g} : Untouched(h),
         (latest[g].alone /\ Now(a) /\ (work[a].open => file[work[a].step] = Empty)) =>
           Got(g, After(a), work[a].val, file', pins', running', On')
  PROVE  ForceInv'
<1>0. a \in Workers /\ a # Main /\ DOMAIN work = Workers
  BY SettingsAssumption DEF Workers, Shape
<1>1. Alone(a) /\ work'[a].open = FALSE /\ IF After(a) = "idle" THEN work'[a].kind = "none"
        ELSE work'[a].kind = work[a].kind /\ work'[a].step = After(a) /\ work'[a].val = work[a].val
  BY <1>0, GoOnGoes DEF Goes
<1>2. Act(a, g)
  BY <1>0, TaskKind DEF Act
<1>3. \A h \in Groups \ {g} : ~Act(a, h)' /\ Effect(h)
  <2>1. work'[a].kind = "none" => Group(work'[a].kind) = "none"
    BY DEF Group
  <2> QED
    BY <1>1, <2>1 DEF Act, Groups, ForceInv
<1>4. CASE After(a) = "idle"
  <2>1. /\ latest' = [latest EXCEPT ![g].ok = TRUE, ![g].saved = TRUE, ![g].val = work[a].val]
        /\ work'[a].kind = "none"
    BY <1>1, <1>4 DEF GoOn, Done, Answer
  <2>2. \A h \in Groups \ {g} : latest'[h] = latest[h]
    BY <2>1 DEF RecordInv
  <2>3. latest'[g] = [latest[g] EXCEPT !.ok = TRUE, !.saved = TRUE, !.val = work[a].val]
    BY <2>1 DEF RecordInv
  <2>4. ~Act(a, g)'
    BY <2>1 DEF Act, Group, Groups
  <2>7. Effect(g) /\ TRUE \in BOOLEAN
    BY DEF ForceInv
  <2>8. (latest[g].alone /\ Now(a) /\ (work[a].open => file[work[a].step] = Empty)) =>
          Got(g, IF TRUE THEN "idle" ELSE g, work[a].val, file', pins', running', On')
    BY <1>4
  <2>5. Effect(g)'
    BY <1>1, <1>2, <2>3, <2>4, <2>7, <2>8, EndEffect
  <2>6. \A h \in Groups \ {g} : Effect(h)'
    BY <1>0, <1>1, <1>3, <2>2, OtherEffect
  <2> QED
    BY <2>5, <2>6 DEF ForceInv
<1>5. CASE After(a) # "idle"
  <2>1. latest' = latest /\ work'[a].kind = work[a].kind /\ work'[a].step = After(a) /\ work'[a].val = work[a].val
    BY <1>1, <1>5 DEF GoOn
  <2>2. Act(a, g)'
    <3>1. After(a) \in StepsOf(work[a].kind) /\ work[a].kind # "start" /\ work[a].kind \in Kinds
      BY <1>0, <1>5, AfterStep, TaskKind DEF Shape, Task
    <3>2. After(a) \notin {"ensure", "readKey", "key", "load"}
      BY <3>1, KindOfStep
    <3> QED
      BY <2>1, <3>2 DEF Act
  <2>3. Now(a)' <=> Got(g, After(a), work[a].val, file', pins', running', On')
    BY <2>1 DEF Now
  <2>4. Effect(g)'
    BY <1>0, <1>1, <1>2, <2>1, <2>2, <2>3, OwnEffect DEF ForceInv
  <2>5. \A h \in Groups \ {g} : Effect(h)'
    BY <1>0, <1>1, <1>3, <2>1, OtherEffect
  <2> QED
    BY <2>4, <2>5 DEF ForceInv
<1> QED
  BY <1>4, <1>5

\* Somebody leaves, or does nothing that counts.
LEMMA LeaveForce ==
  ASSUME Shape, ForceInv, NEW w \in Workers, Alone(w), UNCHANGED <<latest, running>>,
         \A g \in Groups : ~Act(w, g)' /\ (Untouched(g) \/ Act(w, g))
  PROVE  ForceInv'
BY OtherEffect DEF ForceInv

\* A request begins.
LEMMA BeginForce ==
  ASSUME Shape, RecordInv, ForceInv, NEW w \in Workers, Alone(w), NEW g \in Groups, Begins(w, g),
         g = Group(work'[w].kind), work'[w].open = FALSE, UNCHANGED <<file, pins, running, phase, suspect>>,
         w # Main => Now(w)', \A h \in Groups \ {g} : ~Act(w, h)'
  PROVE  ForceInv'
<1>1. latest' = [latest EXCEPT ![g] = [alone |-> \A v \in Workers \ {w} : Group(work[v].kind) # g,
                                       ok |-> FALSE, saved |-> FALSE, val |-> None]]
  BY DEF Begins
<1>2. \A h \in Groups \ {g} : latest'[h] = latest[h]
  BY <1>1 DEF RecordInv
<1>3. latest'[g] = [alone |-> \A v \in Workers \ {w} : Group(work[v].kind) # g,
                    ok |-> FALSE, saved |-> FALSE, val |-> None]
  BY <1>1 DEF RecordInv
<1>4. \A h \in Groups : Untouched(h)
  BY DEF Untouched, On
<1>5. \A h \in Groups \ {g} : Effect(h)'
  BY <1>2, <1>4, OtherEffect DEF ForceInv
<1>6. ~latest'[g].ok /\ (latest'[g].alone => \A v \in Workers \ {w} : Group(work[v].kind) # g)
  BY <1>3
<1>7. \A v \in Workers \ {w} : work'[v] = work[v]
  BY DEF Alone
<1>8. Effect(g)'
  <2> SUFFICES ASSUME latest'[g].alone PROVE Effect(g)'
    BY DEF Effect
  <2>1. \A v \in Workers : Act(v, g)' => v = w
    BY <1>6, <1>7 DEF Act
  <2> QED
    BY <1>6, <2>1 DEF Effect, Counts
<1> QED
  BY <1>5, <1>8 DEF ForceInv

LEMMA ArriveForce ==
  ASSUME Shape, RecordInv, ForceInv, NEW a \in Admins, Arrive(a)
  PROVE  ForceInv'
<1>0. a \in Workers /\ a # Main
  BY SettingsAssumption DEF Workers
<1>1. Arrived(a)
  BY ArriveStep
<1>2. Alone(a) /\ work'[a].open = FALSE /\ UNCHANGED <<file, pins, running, phase, suspect>>
  <2>1. UNCHANGED running
    BY DEF Arrive, Login, SetPassword, SetRates, SetGPIO, SetMode, SetNetwork, SetRoles, AdminRequest
  <2> QED
    BY <1>1, <2>1 DEF Arrived
<1>3. ASSUME NEW g \in Groups, Begins(a, g), g = Group(work'[a].kind), Now(a)' PROVE ForceInv'
  <2>1. \A h \in Groups \ {g} : ~Act(a, h)'
    BY <1>3 DEF Act
  <2> QED
    BY <1>0, <1>2, <1>3, <2>1, BeginForce
<1>4. ASSUME NEW p \in Passwords, Login(a, p) PROVE ForceInv'
  <2>1. CASE FirstLogin /\ Request(a, "init", "password", p) /\ Begins(a, "password")
    <3>1. work'[a].kind = "init" /\ work'[a].step = "password"
      BY <2>1, RequestStep
    <3>2. Group(work'[a].kind) = "password" /\ "password" \in Groups
      BY <3>1 DEF Group, Groups
    <3> QED
      BY <1>3, <2>1, <3>1, <3>2 DEF Now, Got
  <2>2. CASE Request(a, "login", "compare", p) /\ UNCHANGED history
    <3>1. work'[a].kind = "login"
      BY <2>2, RequestStep
    <3>2. \A g \in Groups : ~Act(a, g)' /\ Untouched(g)
      BY <1>2, <3>1 DEF Act, Group, Groups, Untouched, On
    <3> QED
      BY <1>0, <1>2, <2>2, <3>2, LeaveForce DEF history
  <2> QED
    BY <1>4, <2>1, <2>2 DEF Login
<1>5. ASSUME NEW kind \in {"password", "rates", "gpio", "maintenance", "network", "roles"}, NEW step, NEW v,
             AdminRequest(a, kind, step, v), Now(a)'
      PROVE  ForceInv'
  <2>1. Group(kind) \in Groups
    BY DEF Group, Groups
  <2>2. work'[a].kind = kind
    BY <1>5, RequestStep DEF AdminRequest
  <2> QED
    BY <1>3, <1>5, <2>1, <2>2 DEF AdminRequest
<1>6. ASSUME NEW kind \in {"password", "rates", "gpio", "maintenance"}, NEW step \in {kind, "pins"}, NEW v,
             AdminRequest(a, kind, step, v), (kind = "gpio") <=> (step = "pins")
      PROVE  ForceInv'
  <2>1. work'[a].kind = kind /\ work'[a].step = step
    BY <1>6, RequestStep DEF AdminRequest
  <2>2. Group(kind) = kind
    BY DEF Group
  <2>3. Now(a)'
    BY <1>6, <2>1, <2>2 DEF Now, Got
  <2> QED
    BY <1>5, <1>6, <2>3
<1>7. ASSUME NEW r \in NetRequests, SetNetwork(a, r) PROVE ForceInv'
  <2> DEFINE cfg == ApplyRoleConfiguration(r.cfg, r.roles)
  <2>1. AdminRequest(a, "network", FirstStep(cfg), cfg)
    BY <1>7 DEF SetNetwork
  <2> HIDE DEF cfg
  <2>2. work'[a].kind = "network" /\ work'[a].step = FirstStep(cfg) /\ work'[a].val = cfg
    BY <2>1 DEF AdminRequest, Request, Shape, Workers
  <2>3. Rank(FirstStep(cfg)) = IF cfg.hostname = None THEN 3 ELSE 1
    BY DEF Rank, FirstStep
  <2>4. NetGot(Rank(FirstStep(cfg)), cfg, file', running')
    BY <2>3 DEF NetGot
  <2>5. Now(a)'
    BY <2>2, <2>4 DEF Now, Got, Group
  <2> QED
    BY <1>5, <2>1, <2>5
<1>8. ASSUME NEW l \in RoleLists, SetRoles(a, l) PROVE ForceInv'
  <2> DEFINE v == [roles |-> l, hostname |-> None, interfaces |-> NoInterfaces]
  <2>1. AdminRequest(a, "roles", "getHostname", v)
    BY <1>8 DEF SetRoles
  <2> HIDE DEF v
  <2>2. work'[a].kind = "roles" /\ work'[a].step = "getHostname"
    BY <2>1, RequestStep DEF AdminRequest
  <2>3. Rank("getHostname") = 0
    BY DEF Rank
  <2>4. Now(a)'
    BY <2>2, <2>3 DEF Now, Got, Group, NetGot
  <2> QED
    BY <1>5, <2>1, <2>4
<1>9. CASE \E p \in Passwords : SetPassword(a, p)
  BY <1>6, <1>9 DEF SetPassword
<1>10. CASE \E r \in RateTables : SetRates(a, r)
  BY <1>6, <1>10 DEF SetRates
<1>11. CASE \E p \in Pins : SetGPIO(a, p)
  BY <1>6, <1>11 DEF SetGPIO
<1>12. CASE \E m \in Modes : SetMode(a, m)
  BY <1>6, <1>12 DEF SetMode
<1> QED
  BY <1>4, <1>7, <1>8, <1>9, <1>10, <1>11, <1>12 DEF Arrive

LEMMA ServeForce ==
  ASSUME Shape, RecordInv, ForceInv, ValueInv, NEW a \in Admins, Serve(a)
  PROVE  ForceInv'
<1> DEFINE s == work[a].step
           k == work[a].kind
           v == work[a].val
<1>0. a \in Workers /\ a # Main /\ k \in Kinds \ {"start"} /\ s \in StepsOf(k) /\ DOMAIN work = Workers
      /\ DOMAIN work[a] = Fields /\ (work[a].open => s \in Files)
  <2>1. a # Main /\ a \in Workers
    BY SettingsAssumption DEF Workers
  <2> QED
    BY <2>1 DEF Shape, Task
<1>1. Served(a) /\ Alone(a)
  BY ServeStep DEF Served, Goes
<1>2. ASSUME s \notin {"session"} PROVE After(a) = Successor[s] \/ s = "password" \/ s = "dhcpd"
  BY DEF After
<1>3. file' = file /\ phase' = phase /\ suspect' = suspect
  BY <1>1 DEF Served
\* Whoever gives up changes nothing.
<1>4. ASSUME GiveUp(a), UNCHANGED <<latest, running, pins>> PROVE ForceInv'
  <2>1. work'[a].kind = "none"
    BY <1>0, <1>4 DEF GiveUp, Idle
  <2>2. \A g \in Groups : ~Act(a, g)' /\ Untouched(g)
    BY <1>3, <1>4, <2>1 DEF Act, Group, Groups, Untouched, On
  <2> QED
    BY <1>0, <1>1, <1>4, <2>2, LeaveForce
<1>5. CASE Compare(a)
  <2>1. CASE GiveUp(a)
    BY <1>4, <1>5, <2>1 DEF Compare, history
  <2>2. CASE work' = [work EXCEPT ![a].step = "session"]
    <3>1. k = "login"
      BY <1>0, <1>5, KindOfStep DEF Compare
    <3>2. work'[a].kind = "login"
      BY <1>0, <2>2, <3>1
    <3>3. \A g \in Groups : ~Act(a, g)' /\ Untouched(g)
      BY <1>3, <1>5, <3>2 DEF Act, Group, Groups, Untouched, On, Compare
    <3> QED
      BY <1>0, <1>1, <1>5, <3>3, LeaveForce DEF Compare, history
  <2> QED
    BY <1>5, <2>1, <2>2 DEF Compare
<1>6. CASE CreateSession(a)
  <2>1. s = "session" /\ Done(a) /\ UNCHANGED <<file, pins, running, phase>> /\ k \in {"login", "init"}
    BY <1>0, <1>6, KindOfStep DEF CreateSession
  <2>2. After(a) = "idle"
    BY <1>0, <2>1 DEF After, Successor
  <2>3. GoOn(a)
    BY <2>1, <2>2 DEF GoOn
  <2>4. \A h \in Groups : Untouched(h)
    BY <1>3, <2>1 DEF Untouched, On
  <2>5. CASE k = "init"
    <3>1. Group(k) = "password" /\ "password" \in Groups
      BY <2>5 DEF Group, Groups
    <3>2. Now(a) => Got("password", After(a), v, file', pins', running', On')
      BY <2>1, <2>2, <3>1 DEF Now, Got
    <3> QED
      BY <2>1, <2>3, <2>4, <3>1, <3>2, GoOnForce
  <2>6. CASE k = "login"
    <3>1. work'[a].kind = "none" /\ latest' = latest
      BY <1>0, <2>1, <2>6 DEF Done, Answer, Idle, Group, Groups
    <3>2. \A g \in Groups : ~Act(a, g)'
      BY <3>1 DEF Act, Group, Groups
    <3> QED
      BY <1>0, <1>1, <2>1, <2>4, <3>1, <3>2, LeaveForce
  <2> QED
    BY <2>1, <2>5, <2>6
<1>7. CASE SetLiveMode(a)
  <2>1. s = "mode" /\ GoOn(a) /\ UNCHANGED <<file, pins, running, phase>> /\ k = "maintenance"
    BY <1>0, <1>7, KindOfStep DEF SetLiveMode, Set
  <2>2. Group(k) = "maintenance" /\ "maintenance" \in Groups
    BY <2>1 DEF Group, Groups
  <2>3. \A h \in Groups : Untouched(h)
    BY <1>3, <2>1 DEF Untouched, On
  <2>4. Got("maintenance", After(a), v, file', pins', running', On')
    BY DEF Got
  <2> QED
    BY <2>1, <2>2, <2>3, <2>4, GoOnForce
<1>8. ASSUME s \in {"pins", "debounce"}, GoOn(a), running' = running,
             pins' = IF s = "pins" THEN [pins EXCEPT !.pins = v] ELSE [pins EXCEPT !.debounce = v]
      PROVE  ForceInv'
  <2>1. k = "gpio" /\ Group(k) = "gpio" /\ "gpio" \in Groups
    BY <1>0, <1>8, KindOfStep DEF Group, Groups
  <2>2. After(a) = IF s = "pins" THEN "debounce" ELSE "gpio"
    BY <1>8, <2>1 DEF After, Successor
  <2>3. \A h \in Groups \ {"gpio"} : Untouched(h)
    BY <1>3, <1>8 DEF Untouched, On
  <2>4. DOMAIN pins = {"pins", "debounce"}
    BY DEF ValueInv
  <2>5. s = "debounce" /\ Now(a) => (On => pins.pins = v)
    BY <2>1 DEF Now, Got
  <2>6. Now(a) => Got("gpio", After(a), v, file', pins', running', On')
    BY <1>3, <1>8, <2>2, <2>4, <2>5 DEF Got, On
  <2> QED
    BY <1>8, <2>1, <2>3, <2>6, GoOnForce
<1>9. CASE SetDebounce(a)
  BY <1>8, <1>9 DEF SetDebounce, Set
<1>10. CASE Reconfigure(a)
  BY <1>4, <1>8, <1>10 DEF Reconfigure, Set, history
\* A step of a change of the network.
<1>11. Got("network", s, v, file, pins, running, On) <=> NetGot(Rank(s), v, file, running)
  BY DEF Got
<1>12. ASSUME s \in {"setHostname", "networking", "isc", "hostapd"}, GoOn(a), pins' = pins,
              DOMAIN running' = DOMAIN running,
              NetGot(Rank(s), v, file, running) => NetGot(Rank(Successor[s]), v, file, running')
       PROVE  ForceInv'
  <2>1. Group(k) = "network" /\ "network" \in Groups
    BY <1>0, <1>12, KindOfStep DEF Group, Groups, NetSteps
  <2>2. After(a) = Successor[s]
    BY <1>12 DEF After
  <2>3. \A h \in Groups \ {"network"} : Untouched(h)
    BY <1>3, <1>12 DEF Untouched, On
  <2>4. Now(a) => Got("network", After(a), v, file', pins', running', On')
    BY <1>3, <1>12, <2>1, <2>2 DEF Now, Got
  <2> QED
    BY <1>12, <2>1, <2>3, <2>4, GoOnForce
<1>13. DOMAIN running = {"hostname", "interfaces", "dhcpd"}
  BY DEF ForceInv
<1>14. CASE Command(a, "setHostname", "hostname")
  <2>1. s = "setHostname" /\ running' = [running EXCEPT !["hostname"] = Whole(v.hostname)] /\ GoOn(a) /\ pins' = pins
    BY <1>14 DEF Command
  <2>2. Rank(s) = 2 /\ Rank(Successor[s]) = 3
    BY <2>1 DEF Rank, Successor
  <2>3. NetGot(2, v, file, running) => NetGot(3, v, file, running')
    BY <1>13, <2>1 DEF NetGot
  <2> QED
    BY <1>12, <2>1, <2>2, <2>3
<1>15. CASE Command(a, "networking", "interfaces")
  <2>1. s = "networking" /\ running' = [running EXCEPT !["interfaces"] = file["interfaces"]] /\ GoOn(a) /\ pins' = pins
    BY <1>15 DEF Command
  <2>2. Rank(s) = 6 /\ Rank(Successor[s]) = 7
    BY <2>1 DEF Rank, Successor
  <2>3. NetGot(6, v, file, running) => NetGot(7, v, file, running')
    BY <1>13, <2>1 DEF NetGot
  <2> QED
    BY <1>12, <2>1, <2>2, <2>3
<1>16. CASE Command(a, "isc", "dhcpd")
  <2>1. s = "isc" /\ running' = [running EXCEPT !["dhcpd"] = file["dhcpd"]] /\ GoOn(a) /\ pins' = pins
    BY <1>16 DEF Command
  <2>2. Rank(s) = 7 /\ Rank(Successor[s]) = 8
    BY <2>1 DEF Rank, Successor
  <2>3. NetGot(7, v, file, running) => NetGot(8, v, file, running')
    BY <1>13, <2>1 DEF NetGot
  <2> QED
    BY <1>12, <2>1, <2>2, <2>3
<1>17. CASE RestartHostapd(a)
  <2>1. s = "hostapd" /\ running' = running /\ GoOn(a) /\ pins' = pins
    BY <1>17 DEF RestartHostapd
  <2>2. Rank(s) = 8 /\ Rank(Successor[s]) = 9
    BY <2>1 DEF Rank, Successor
  <2>3. NetGot(8, v, file, running) => NetGot(9, v, file, running')
    BY <2>1 DEF NetGot
  <2> QED
    BY <1>12, <2>1, <2>2, <2>3
<1>18. ASSUME s \in {"getHostname", "getInterfaces", "getDhcpd"}, UNCHANGED <<latest, running, pins>>,
              work'[a].kind = k, work'[a].open = work[a].open,
              work'[a].step \in {"getInterfaces", "getDhcpd", "hostname", "interfaces"},
              NetGot(Rank(work'[a].step), work'[a].val, file, running)
       PROVE  ForceInv'
  <2>1. Group(k) = "network" /\ work[a].open = FALSE
    BY <1>0, <1>18, KindOfStep DEF Group, Files, NetFiles, Shape, Task
  <2>2. Act(a, "network") /\ Act(a, "network")' /\ \A g \in Groups \ {"network"} : ~Act(a, g)'
    BY <1>18, <2>1 DEF Act
  <2>3. Now(a)'
    BY <1>3, <1>18, <2>1 DEF Now, Got
  <2>4. \A g \in Groups : Untouched(g)
    BY <1>3, <1>18 DEF Untouched, On
  <2>5. Effect("network")'
    BY <1>0, <1>1, <1>18, <2>1, <2>2, <2>3, OwnEffect DEF ForceInv, Groups
  <2>6. \A g \in Groups \ {"network"} : Effect(g)'
    BY <1>0, <1>1, <1>18, <2>2, <2>4, OtherEffect DEF ForceInv
  <2> QED
    BY <1>18, <2>5, <2>6 DEF ForceInv
<1>19. Rank("getInterfaces") = 0 /\ Rank("getDhcpd") = 0 /\ \A x : NetGot(0, x, file, running)
  BY DEF Rank, NetGot
<1>20. CASE GetHostname(a)
  <2>1. s = "getHostname" /\ UNCHANGED <<latest, running, pins>>
    BY <1>20 DEF GetHostname, Read, memory, history
  <2>2. After(a) = "getInterfaces"
    BY <1>0, <2>1 DEF After, Successor
  <2>3. work' = [work EXCEPT ![a].step = After(a), ![a].val["hostname"] = Text("hostname", None)]
    BY <1>20 DEF GetHostname, Read
  <2>4. work'[a].step = "getInterfaces" /\ work'[a].kind = k /\ work'[a].open = work[a].open
    BY <1>0, <2>2, <2>3 DEF Fields
  <2> QED
    BY <1>18, <1>19, <2>1, <2>4
<1>21. CASE GetInterfaces(a)
  <2>1. s = "getInterfaces" /\ UNCHANGED <<latest, running, pins>>
    BY <1>21 DEF GetInterfaces, Read, memory, history
  <2>2. After(a) = "getDhcpd"
    BY <1>0, <2>1 DEF After, Successor
  <2>3. work' = [work EXCEPT ![a].step = After(a), ![a].val["interfaces"] = Text("interfaces", NoInterfaces)]
    BY <1>21 DEF GetInterfaces, Read
  <2>4. work'[a].step = "getDhcpd" /\ work'[a].kind = k /\ work'[a].open = work[a].open
    BY <1>0, <2>2, <2>3 DEF Fields
  <2> QED
    BY <1>18, <1>19, <2>1, <2>4
<1>22. CASE GetDhcpd(a)
  <2> DEFINE cfg == ApplyRoleConfiguration(NetworkConfigOf(v.hostname, v.interfaces, Text("dhcpd", NoDhcpd)), v.roles)
  <2>1. /\ s = "getDhcpd" /\ work' = [work EXCEPT ![a].step = FirstStep(cfg), ![a].val = cfg]
        /\ UNCHANGED <<latest, running, pins>>
    BY <1>22 DEF GetDhcpd, memory, history
  <2> HIDE DEF cfg
  <2>2. FirstStep(cfg) \in {"hostname", "interfaces"}
    BY DEF FirstStep
  <2>3. Rank(FirstStep(cfg)) = IF cfg.hostname = None THEN 3 ELSE 1
    BY DEF Rank, FirstStep
  <2>4. NetGot(Rank(FirstStep(cfg)), cfg, file, running)
    BY <2>3 DEF NetGot
  <2>5. work'[a].step = FirstStep(cfg) /\ work'[a].val = cfg /\ work'[a].kind = k /\ work'[a].open = work[a].open
    BY <1>0, <2>1 DEF Fields
  <2> QED
    BY <1>18, <2>1, <2>2, <2>4, <2>5
<1> QED
  BY <1>5, <1>6, <1>7, <1>9, <1>10, <1>14, <1>15, <1>16, <1>17, <1>20, <1>21, <1>22 DEF Serve, Reload

\* What a goroutine writes at a step is not among what it has achieved so far.
LEMMA WritesAhead ==
  ASSUME Shape, NEW w \in Workers, work[w].step \in Files \ {"key"}, Now(w),
         \A f \in Files \ {work[w].step} : file'[f] = file[f], UNCHANGED <<pins, running, phase>>
  PROVE  Got(Owner(work[w].step), work[w].step, work[w].val, file', pins', running', On')
<1> DEFINE s == work[w].step
           v == work[w].val
<1>1. Got(Owner(s), s, v, file, pins, running, On)
  BY WriterActs DEF Now
<1>2. CASE s \in NetFiles
  <2>1. Owner(s) = "network"
    BY <1>2 DEF Owner
  <2>2. NetGot(Rank(s), v, file, running)
    BY <1>1, <2>1 DEF Got
  <2>3. Rank(s) = CASE s = "hostname" -> 1 [] s = "interfaces" -> 3 [] s = "copy" -> 4 [] OTHER -> 5
    BY <1>2 DEF Rank, NetFiles
  <2>4. NetGot(Rank(s), v, file', running')
    BY <1>2, <2>2, <2>3 DEF NetGot, NetFiles, Files
  <2> QED
    BY <2>1, <2>4 DEF Got
<1>3. CASE s \notin NetFiles
  <2>1. s \in {"password", "rates", "gpio", "maintenance"} /\ Owner(s) = s
    BY <1>3 DEF Files, Owner, NetFiles
  <2> QED
    BY <1>1, <2>1 DEF Got, On
<1> QED
  BY <1>2, <1>3

LEMMA OpenForce ==
  ASSUME Shape, ForceInv, NEW w \in Workers, Open(w)
  PROVE  ForceInv'
<1> DEFINE s == work[w].step
<1>1. /\ s \in Files /\ file' = [file EXCEPT ![s] = Empty] /\ work' = [work EXCEPT ![w].open = TRUE]
      /\ UNCHANGED <<latest, pins, running, phase, suspect>>
  BY DEF Open, memory, history
<1>2. /\ DOMAIN work = Workers /\ DOMAIN file = Files /\ DOMAIN work[w] = Fields
  BY DEF Shape, Task
<1>3. /\ Alone(w) /\ work'[w].step = s /\ work'[w].kind = work[w].kind /\ work'[w].val = work[w].val
  BY <1>1, <1>2 DEF Alone, Fields
<1>4. \A g \in Groups : Act(w, g)' <=> Act(w, g)
  BY <1>3 DEF Act
<1>5. CASE s = "key"
  <2>1. \A g \in Groups : ~Act(w, g)' /\ Untouched(g)
    BY <1>1, <1>2, <1>3, <1>5 DEF Act, Untouched, Owner, Groups, On, Files, NetFiles
  <2> QED
    BY <1>1, <1>3, <2>1, LeaveForce
<1>6. CASE s # "key"
  <2> DEFINE g == Owner(s)
  <2>1. g \in Groups /\ Group(work[w].kind) = g /\ Act(w, g)
    BY <1>1, <1>6, WriterActs
  <2>2. Now(w) => Now(w)'
    <3>1. Now(w) => Got(g, s, work[w].val, file', pins', running', On')
      BY <1>1, <1>2, <1>6, WritesAhead
    <3> QED
      BY <1>3, <2>1, <3>1 DEF Now
  <2>3. Effect(g)'
    BY <1>1, <1>2, <1>3, <1>4, <2>1, <2>2, OwnEffect DEF ForceInv
  <2>4. \A h \in Groups \ {g} : ~Act(w, h)' /\ Untouched(h)
    BY <1>1, <1>2, <1>4, <2>1 DEF Act, Untouched, On
  <2>5. \A h \in Groups \ {g} : Effect(h)'
    BY <1>1, <1>3, <2>4, OtherEffect DEF ForceInv
  <2> QED
    BY <1>1, <2>3, <2>5 DEF ForceInv
<1> QED
  BY <1>5, <1>6

LEMMA WriteForce ==
  ASSUME Shape, RecordInv, ForceInv, NEW w \in Workers, WriteOut(w)
  PROVE  ForceInv'
<1> DEFINE s == work[w].step
           v == work[w].val
           g == Owner(s)
<1>1. Wrote(w) /\ Alone(w)
  BY WriteOutStep DEF Wrote, Goes
<1>2. s \in Files /\ work[w].open /\ UNCHANGED <<pins, running, phase>> /\ GoOn(w) /\ DOMAIN file = Files
  BY DEF WriteOut, Shape
<1>3. PICK c \in Written(s, Content(w)) : file' = [file EXCEPT ![s] = c]
  BY DEF WriteOut
<1>4. \A f \in Files \ {s} : file'[f] = file[f]
  BY <1>3
<1>5. \A h \in Groups : h # g => Untouched(h)
  BY <1>1, <1>2, <1>4 DEF Untouched, On, Wrote
<1>6. CASE w = Main
  <2>1. work[w].kind = "start" /\ s \in {"copy", "dhcpd", "key"}
    BY <1>2, <1>6 DEF Shape, Task, StepsOf, Files, NetFiles
  <2>2. After(w) = CASE s = "copy" -> "dhcpd" [] s = "dhcpd" -> "readKey" [] OTHER -> "load"
    BY <1>2, <2>1, AfterFile
  <2>3. latest' = latest /\ work'[w].kind = "start" /\ work'[w].step = After(w) /\ work'[w].open = FALSE
    BY <1>1, <1>2, <2>1, <2>2 DEF GoOn, Wrote, Goes
  <2>4. CASE s = "copy"
    <3>1. g = "network" /\ Group("start") = "network" /\ "network" \in Groups
      BY <2>4 DEF Owner, NetFiles, Group, Groups
    <3>2. work'[w].step = "dhcpd" /\ work'[w].kind = "start" /\ work'[w].open = FALSE
      BY <2>2, <2>3, <2>4
    <3>3. Act(w, "network") /\ Act(w, "network")' /\ \A h \in Groups \ {"network"} : ~Act(w, h)'
      BY <2>1, <2>4, <3>1, <3>2 DEF Act
    <3>4. Effect("network")'
      BY <1>1, <1>6, <2>3, <3>1, <3>2, <3>3, OwnEffect DEF ForceInv
    <3>5. \A h \in Groups \ {"network"} : Untouched(h)
      BY <1>5, <3>1
    <3>6. \A h \in Groups \ {"network"} : Effect(h)'
      BY <1>1, <2>3, <3>3, <3>5, OtherEffect DEF ForceInv
    <3> QED
      BY <1>2, <3>4, <3>6 DEF ForceInv
  <2>5. CASE s \in {"dhcpd", "key"}
    <3>1. \A h \in Groups : ~Act(w, h)'
      BY <2>2, <2>3, <2>5 DEF Act
    <3>2. s = "dhcpd" => Act(w, g)
      BY <1>2, <2>5, WriterActs
    <3>3. s = "key" => g \notin Groups
      BY DEF Owner, NetFiles, Groups
    <3> QED
      BY <1>1, <1>2, <1>5, <2>3, <2>5, <3>1, <3>2, <3>3, LeaveForce
  <2> QED
    BY <2>1, <2>4, <2>5
<1>7. CASE w # Main
  <2>1. w \in Admins /\ s # "key" /\ work[w].kind # "start"
    BY <1>2, <1>7, TaskKind DEF Workers, Shape, Task
  <2>2. g \in Groups /\ g = Group(work[w].kind)
    BY <1>2, <2>1, WriterActs
  <2>3. ASSUME Now(w), file[s] = Empty PROVE Got(g, After(w), v, file', pins', running', On')
    <3>1. c = Whole(Content(w)) /\ file'[s] = c
      BY <1>2, <1>3, <2>3 DEF Written, Empty
    <3>2. Got(g, s, v, file', pins', running', On')
      BY <1>2, <1>4, <2>1, <2>3, WritesAhead
    <3>3. CASE s \in NetFiles
      <4>1. g = "network"
        BY <2>1, <3>3 DEF Owner
      <4>2. NetGot(Rank(s), v, file', running')
        BY <3>2, <4>1 DEF Got
      <4>3. NetGot(Rank(After(w)), v, file', running')
        <5>1. CASE s = "hostname"
          <6>1. After(w) = "setHostname" /\ Rank("setHostname") = 2 /\ Rank(s) = 1 /\ Content(w) = v.hostname
            BY <1>2, <5>1, AfterFile DEF Rank, Content
          <6> QED
            BY <3>1, <4>2, <5>1, <6>1 DEF NetGot
        <5>2. CASE s = "interfaces"
          <6>1. After(w) = "copy" /\ Rank("copy") = 4 /\ Rank(s) = 3 /\ Content(w) = InterfacesFile(v)
            BY <1>2, <5>2, AfterFile DEF Rank, Content
          <6> QED
            BY <3>1, <4>2, <5>2, <6>1 DEF NetGot
        <5>3. CASE s = "copy"
          <6>1. After(w) = "dhcpd" /\ Rank("dhcpd") = 5 /\ Rank(s) = 4 /\ Content(w) = DhcpdFile(v)
            BY <1>2, <1>7, <5>3, AfterFile DEF Rank, Content
          <6> QED
            BY <3>1, <4>2, <5>3, <6>1 DEF NetGot
        <5>4. CASE s = "dhcpd"
          <6>1. After(w) = "networking" /\ Rank("networking") = 6 /\ Rank(s) = 5 /\ Content(w) = DhcpdFile(v)
            BY <1>2, <1>7, <2>1, <5>4, AfterFile DEF Rank, Content
          <6> QED
            BY <3>1, <4>2, <5>4, <6>1 DEF NetGot
        <5> QED
          BY <3>3, <5>1, <5>2, <5>3, <5>4 DEF NetFiles
      <4> QED
        BY <4>1, <4>3 DEF Got
    <3>4. CASE s \notin NetFiles
      <4>1. s \in {"password", "rates", "gpio", "maintenance"} /\ g = s
        BY <1>2, <2>1, <3>4 DEF Files, Owner, NetFiles
      <4>2. Content(w) = v
        BY <4>1 DEF Content
      <4>3. s \in {"rates", "gpio"} => After(w) = "idle"
        BY <1>2, AfterFile
      <4> QED
        BY <3>1, <3>2, <4>1, <4>2, <4>3 DEF Got, On
    <3> QED
      BY <3>3, <3>4
  <2>4. \A h \in Groups \ {g} : Untouched(h)
    BY <1>5
  <2> HIDE DEF g
  <2>5. DOMAIN running' = DOMAIN running
    BY <1>2
  <2>6. s \notin {"idle", "ensure", "readKey", "load", "getDhcpd"}
    BY <1>2 DEF Files, NetFiles
  <2>7. (latest[g].alone /\ Now(w) /\ (work[w].open => file[s] = Empty)) =>
          Got(g, After(w), v, file', pins', running', On')
    BY <1>2, <2>3
  <2> QED
    BY <1>2, <2>1, <2>2, <2>4, <2>5, <2>6, <2>7, GoOnForce
<1> QED
  BY <1>6, <1>7

LEMMA FailForce ==
  ASSUME Shape, RecordInv, ForceInv, NEW w \in Workers, Fail(w)
  PROVE  ForceInv'
<1> DEFINE s == work[w].step
<1>1. Failed(w) /\ Alone(w) /\ UNCHANGED <<file, pins, running>>
  BY FailStep DEF Failed, Goes, Fail
<1>2. work'[w].kind = "none" \/ work'[w].step = "readKey"
  BY <1>1 DEF Failed
<1>3. \A g \in Groups : ~Act(w, g)'
  BY <1>2 DEF Act, Group, Groups
<1>4. ASSUME NEW g \in Groups, g # s PROVE Untouched(g)
  <2>1. g \in suspect' => g \in suspect
    BY <1>1, <1>4 DEF Failed, Groups
  <2> QED
    BY <1>1, <2>1 DEF Untouched, On, Failed
<1>5. ASSUME s \in Groups PROVE Act(w, s) /\ Group(work[w].kind) = s
  <2>1. s \in Files \ {"key"} /\ Owner(s) = s
    BY <1>1, <1>5 DEF Failed, Owner, Groups, Files, NetFiles, Services
  <2> QED
    BY <2>1, WriterActs
\* The request is answered although its file could not be written.
<1>6. ASSUME w # Main, NEW g \in {"rates", "gpio"}, s = g PROVE ForceInv'
  <2>1. w \in Admins /\ g \in Groups /\ Answer(w, FALSE)
    BY <1>6 DEF Workers, Groups, Fail, RequestFails
  <2>2. Act(w, g) /\ Group(work[w].kind) = g
    BY <1>5, <1>6, <2>1
  <2>3. latest' = [latest EXCEPT ![g].ok = TRUE, ![g].saved = FALSE, ![g].val = work[w].val]
    BY <2>1, <2>2 DEF Answer
  <2>4. /\ latest'[g] = [latest[g] EXCEPT !.ok = TRUE, !.saved = FALSE, !.val = work[w].val]
        /\ \A h \in Groups \ {g} : latest'[h] = latest[h]
    BY <2>1, <2>3 DEF RecordInv
  <2>5. Now(w) => Got(g, g, work[w].val, file', pins', running', On')
    BY <1>1, <1>6, <2>1, <2>2 DEF Now, Got, On, Failed
  <2>6. (latest[g].alone /\ Now(w) /\ (work[w].open => file[work[w].step] = Empty)) =>
          Got(g, IF FALSE THEN "idle" ELSE g, work[w].val, file', pins', running', On')
    BY <2>5
  <2>7. Effect(g) /\ FALSE \in BOOLEAN
    BY <2>1 DEF ForceInv
  <2>8. Effect(g)'
    BY <1>1, <1>3, <1>6, <2>1, <2>2, <2>4, <2>6, <2>7, EndEffect
  <2>9. \A h \in Groups \ {g} : Effect(h)'
    BY <1>1, <1>3, <1>4, <1>6, <2>4, OtherEffect DEF ForceInv
  <2> QED
    BY <1>1, <2>8, <2>9 DEF ForceInv
<1>7. CASE w = Main \/ s \notin {"rates", "gpio"}
  <2>1. latest' = latest
    BY <1>7 DEF Fail, RequestFails
  <2> QED
    BY <1>1, <1>3, <1>4, <1>5, <2>1, LeaveForce
<1> QED
  BY <1>6, <1>7

\* A start forgets which files could not be written, but for dhcpd.conf.
StartInv == phase = "starting" => "gpio" \notin suspect

LEMMA StartStep ==
  ASSUME Shape, StartInv, [Next]_vars
  PROVE  StartInv'
<1>1. ASSUME phase' = phase, "gpio" \in suspect' => "gpio" \in suspect PROVE StartInv'
  BY <1>1 DEF StartInv
<1>2. ASSUME NEW a \in Admins, Arrive(a) PROVE StartInv'
  BY <1>1, <1>2, ArriveStep DEF Arrived
<1>3. ASSUME NEW a \in Admins, Serve(a) PROVE StartInv'
  BY <1>1, <1>3, ServeStep DEF Served
<1>4. ASSUME NEW w \in Workers, Open(w) PROVE StartInv'
  BY <1>1, <1>4 DEF Open, history
<1>5. ASSUME NEW w \in Workers, WriteOut(w) PROVE StartInv'
  BY <1>1, <1>5, WriteOutStep DEF Wrote
<1>6. ASSUME NEW w \in Workers, Fail(w) PROVE StartInv'
  <2>1. Failed(w)
    BY <1>6, FailStep
  <2>2. CASE w = Main
    <3>1. "gpio" \in suspect' => "gpio" \in suspect
      BY <2>1, <2>2 DEF Failed
    <3> QED
      BY <2>1, <2>2, <3>1 DEF Failed, StartInv
  <2>3. CASE w # Main
    <3>1. phase = "serving"
      BY <2>1, <2>3 DEF Failed, Shape, Task, Phases, StepsOf, Files, NetFiles, Services, Workers
    <3> QED
      BY <2>1, <2>3, <3>1 DEF Failed, StartInv
  <2> QED
    BY <2>2, <2>3
<1>7. CASE Start
  BY <1>7 DEF Start, StartInv
<1>8. CASE Ensure \/ ReadKey
  BY <1>1, <1>8 DEF Ensure, ReadKey
<1>9. CASE Load \/ Crash
  BY <1>9 DEF Load, Crash, StartInv
<1>10. CASE EndSession \/ UNCHANGED vars
  BY <1>1, <1>10 DEF EndSession, vars, history
<1> QED
  BY <1>2, <1>3, <1>4, <1>5, <1>6, <1>7, <1>8, <1>9, <1>10 DEF Next

LEMMA MainForce ==
  ASSUME Shape, RecordInv, StartInv, ForceInv, MainSteps
  PROVE  ForceInv'
<1>0. Main \in Workers /\ DOMAIN work = Workers /\ DOMAIN work[Main] = Fields /\ work[Main].kind \in {"none", "start"}
      /\ work[Main].step \in StepsOf(work[Main].kind) /\ (work[Main].open => work[Main].step \in Files)
  BY DEF Workers, Shape, Task
<1>1. Alone(Main) /\ file' = file
  BY MainTasks
\* A step after which main is on its way to nothing.
<1>2. ASSUME UNCHANGED <<latest, running, pins>>, On' => On, suspect' \ {"dhcpd"} \subseteq suspect,
             work'[Main].kind = "none" \/ work'[Main].step \in {"ensure", "readKey", "key", "load"}
      PROVE  ForceInv'
  <2>1. \A g \in Groups : ~Act(Main, g)' /\ Untouched(g)
    BY <1>1, <1>2 DEF Act, Group, Groups, Untouched
  <2> QED
    BY <1>0, <1>1, <1>2, <2>1, LeaveForce
<1>3. CASE Start
  BY <1>0, <1>2, <1>3 DEF Start, On, memory
<1>4. CASE ReadKey
  <2>1. work'[Main].step \in {"load", "key"} /\ UNCHANGED <<latest, running, pins, phase, suspect>>
    BY <1>0, <1>4 DEF ReadKey, Fields, memory
  <2> QED
    BY <1>2, <2>1 DEF On
<1>5. CASE Ensure
  <2> DEFINE text == Text("dhcpd", NoDhcpd)
  <2>1. work[Main].step = "ensure" /\ UNCHANGED <<running, pins, phase>>
    BY <1>5 DEF Ensure, memory
  <2>2. work[Main].kind = "start" /\ work[Main].open = FALSE
    BY <1>0, <2>1, KindOfStep DEF Shape, Task, Files, NetFiles
  <2>3. CASE work' = [work EXCEPT ![Main].step = "readKey"] /\ latest' = latest /\ suspect' \subseteq suspect
    <3>1. work'[Main].step = "readKey"
      BY <1>0, <2>3 DEF Fields
    <3> QED
      BY <1>2, <2>1, <2>3, <3>1 DEF On
  <2>4. CASE /\ Begins(Main, "network") /\ suspect' = suspect
             /\ work' = [work EXCEPT ![Main].step = "copy", ![Main].val = WithHook(text)]
    <3>1. Begins(Main, "network") /\ work' = [work EXCEPT ![Main].step = "copy", ![Main].val = WithHook(text)]
      BY <2>4
    <3>2. work'[Main].kind = "start" /\ work'[Main].open = FALSE
      BY <1>0, <2>2, <3>1 DEF Fields
    <3>3. Group("start") = "network" /\ "network" \in Groups
      BY DEF Group, Groups
    <3>4. \A h \in Groups \ {"network"} : ~Act(Main, h)'
      BY <3>2, <3>3 DEF Act
    <3> QED
      BY <1>0, <1>1, <2>1, <2>4, <3>1, <3>2, <3>3, <3>4, BeginForce
  <2> HIDE DEF text
  <2> QED
    BY <1>5, <2>3, <2>4 DEF Ensure, text
<1>6. CASE Load
  <2>1. /\ work'[Main].kind = "none" /\ work[Main].step = "load" /\ phase = "starting"
        /\ UNCHANGED <<latest, running, suspect>> /\ pins' = [pins |-> LoadPins, debounce |-> LoadPins]
    <3>1. work'[Main].kind = "none" /\ work[Main].kind = "start"
      BY <1>6, MainTasks
    <3> QED
      BY <1>6, <3>1 DEF Load, Shape, Phases
  <2>2. \A v \in Workers : v # Main => work'[v] = work[v] /\ work[v].kind = "none"
    BY <1>1, <2>1 DEF Alone, Shape, Phases, Workers
  <2>3. \A v \in Workers : ~Act(v, "gpio") /\ ~Act(v, "gpio")'
    <3>1. Group("none") = "none" /\ Group("start") = "network"
      BY DEF Group
    <3> QED
      BY <1>0, <2>1, <2>2, <3>1 DEF Act
  <2>4. Effect("gpio")'
    <3>0. Counts("gpio")' = Counts("gpio") /\ (Counts("gpio") => Reached("gpio") = "idle")
      BY <2>1 DEF Counts, Reached, StartInv
    <3> SUFFICES ASSUME latest["gpio"].alone, Counts("gpio")
                 PROVE  Got("gpio", "idle", latest["gpio"].val, file', pins', running', On')
      BY <2>1, <2>3, <3>0 DEF Effect, Reached
    <3>1. Got("gpio", "idle", latest["gpio"].val, file, pins, running, On)
      BY <3>0 DEF ForceInv, Effect, Groups
    <3>2. file["gpio"] = Whole(latest["gpio"].val)
      BY <3>1 DEF Got
    <3>3. LoadPins = latest["gpio"].val
      BY <3>2 DEF LoadPins, Whole
    <3> QED
      BY <1>1, <2>1, <3>2, <3>3 DEF Got
  <2>5. \A g \in Groups \ {"gpio"} : ~Act(Main, g)' /\ Untouched(g)
    BY <1>1, <2>1 DEF Act, Group, Groups, Untouched
  <2>6. \A g \in Groups \ {"gpio"} : Effect(g)'
    BY <1>0, <1>1, <2>1, <2>5, OtherEffect DEF ForceInv
  <2> QED
    BY <2>1, <2>4, <2>6 DEF ForceInv
<1> QED
  BY <1>3, <1>4, <1>5, <1>6 DEF MainSteps

LEMMA ForceStep ==
  ASSUME Shape, RecordInv, ValueInv, StartInv, ForceInv, [Next]_vars
  PROVE  ForceInv'
<1>1. CASE Crash
  <2>1. \A w \in Workers : work'[w] = Idle
    BY <1>1 DEF Crash
  <2>2. UNCHANGED <<file, running, latest, suspect>> /\ ~On'
    BY <1>1 DEF Crash, history, On
  <2>3. ASSUME NEW g \in Groups PROVE Effect(g)'
    <3>1. \A w \in Workers : ~Act(w, g)'
      BY <2>1 DEF Act, Idle, Group, Groups
    <3>2. \A s, v : Got(g, s, v, file, pins, running, On) => Got(g, s, v, file', pins', running', On')
      BY <2>2 DEF Got
    <3>3. Counts(g)' = Counts(g) /\ Reached(g)' = Reached(g)
      BY <2>2 DEF Counts, Reached
    <3> QED
      BY <2>2, <3>1, <3>2, <3>3 DEF ForceInv, Effect
  <2> QED
    BY <2>2, <2>3 DEF ForceInv
<1>2. CASE EndSession \/ UNCHANGED vars
  <2>1. UNCHANGED <<file, work, pins, running, latest, phase, suspect>>
    BY <1>2 DEF EndSession, vars, memory, history
  <2> QED
    BY <2>1 DEF ForceInv, Effect, Act, Now, On, Counts, Reached
<1> QED
  BY <1>1, <1>2, ArriveForce, ServeForce, OpenForce, WriteForce, FailForce, MainForce DEF Next, MainSteps

LEMMA InitForce == Init => ForceInv
<1> SUFFICES ASSUME Init PROVE ForceInv
  OBVIOUS
<1>1. \A w \in Workers, g \in Groups : ~Act(w, g)
  BY DEF Init, Act, Idle, Group, Groups
<1>2. \A g \in Groups : ~latest[g].ok
  BY DEF Init
<1>3. DOMAIN running = {"hostname", "interfaces", "dhcpd"}
  BY DEF Init, NetFiles
<1> QED
  BY <1>1, <1>2, <1>3 DEF ForceInv, Effect, Counts

\* The pins are a record, whoever sets which half of it.
PinsInv == pins = [pins |-> pins.pins, debounce |-> pins.debounce]

LEMMA PinsStep ==
  ASSUME ValueInv, PinsInv, [Next]_vars
  PROVE  PinsInv'
<1>1. ASSUME pins' = pins PROVE PinsInv'
  BY <1>1 DEF PinsInv
<1>2. ASSUME NEW a \in Admins, Arrive(a) PROVE pins' = pins
  BY <1>2 DEF Arrive, Login, SetPassword, SetRates, SetGPIO, SetMode, SetNetwork, SetRoles, AdminRequest, memory
<1>3. ASSUME NEW a \in Admins, Serve(a) PROVE PinsInv'
  <2>1. CASE SetDebounce(a) \/ (Set(a, "pins") /\ pins' = [pins EXCEPT !.pins = work[a].val])
    <3>1. pins' = [pins EXCEPT !.debounce = work[a].val] \/ pins' = [pins EXCEPT !.pins = work[a].val]
      BY <2>1 DEF SetDebounce
    <3> QED
      BY <3>1 DEF PinsInv
  <2>2. CASE ~(SetDebounce(a) \/ (Set(a, "pins") /\ pins' = [pins EXCEPT !.pins = work[a].val]))
    <3>1. pins' = pins
      BY <1>3, <2>2 DEF Serve, Compare, CreateSession, SetLiveMode, Reconfigure, GetHostname, GetInterfaces,
         GetDhcpd, Read, Reload, Command, RestartHostapd, memory
    <3> QED
      BY <1>1, <3>1
  <2> QED
    BY <2>1, <2>2
<1>4. CASE Load \/ Crash
  <2>1. \E p, d : pins' = [pins |-> p, debounce |-> d]
    BY <1>4 DEF Load, Crash
  <2> QED
    BY <2>1 DEF PinsInv
<1>5. CASE Start \/ Ensure \/ ReadKey \/ EndSession \/ UNCHANGED vars
  BY <1>1, <1>5 DEF Start, Ensure, ReadKey, EndSession, vars, memory
<1>6. ASSUME NEW w \in Workers, Open(w) \/ WriteOut(w) \/ Fail(w) PROVE PinsInv'
  BY <1>1, <1>6 DEF Open, WriteOut, Fail, memory
<1> QED
  BY <1>1, <1>2, <1>3, <1>4, <1>5, <1>6 DEF Next

\* Everything the effect of a change rests on.
EffectInv == Shape /\ ModeInv /\ ValueInv /\ RecordInv /\ PinsInv /\ StartInv /\ ForceInv

LEMMA EffectInductive ==
  /\ Init => EffectInv
  /\ EffectInv /\ [Next]_vars => EffectInv'
<1>1. Init => EffectInv
  <2>1. Init => PinsInv /\ StartInv
    BY DEF Init, PinsInv, StartInv
  <2> QED
    BY <2>1, InitShape, InitMode, InitValue, InitRecord, InitForce DEF EffectInv
<1>2. EffectInv /\ [Next]_vars => EffectInv'
  BY ShapeStep, ModeStep, ValueStep, RecordStep, PinsStep, StartStep, ForceStep DEF EffectInv
<1> QED
  BY <1>1, <1>2

\* What was set last, alone, and answered as done is what the program uses and a restart
\* finds, but for rates and pins whose file could not be written: SettingsInForce, for
\* any number of admins, failures and restarts.
THEOREM ChangesStayInForce == Spec => []SettingsInForce
<1>1. EffectInv => SettingsInForce
  <2> SUFFICES ASSUME EffectInv PROVE SettingsInForce
    OBVIOUS
  <2>1. ASSUME NEW g \in Groups, InForce(g), Counts(g)
        PROVE  Got(g, Reached(g), latest[g].val, file, pins, running, TRUE)
    <3>1. Got(g, Reached(g), latest[g].val, file, pins, running, On) /\ On
      BY <2>1 DEF EffectInv, ForceInv, Effect, InForce, On
    <3> QED
      BY <3>1 DEF Got
  <2>2. InForce("rates") /\ latest["rates"].saved => LoadRates = latest["rates"].val
    <3>1. latest["rates"].saved => Reached("rates") = "idle"
      BY DEF Reached
    <3> QED
      BY <2>1, <3>1 DEF InForce, Counts, Got, LoadRates, Whole, Groups
  <2>3. ASSUME InForce("gpio")
        PROVE  LET v == latest["gpio"].val IN
                 /\ latest["gpio"].saved => LoadPins = v
                 /\ latest["gpio"].saved \/ "gpio" \in suspect => pins = [pins |-> v, debounce |-> v]
    <3> DEFINE v == latest["gpio"].val
    <3>1. Reached("gpio") = IF latest["gpio"].saved THEN "idle" ELSE "gpio"
      BY DEF Reached
    <3>2. ASSUME Counts("gpio") PROVE pins = [pins |-> v, debounce |-> v]
      <4>1. pins.pins = v /\ pins.debounce = v
        BY <2>1, <2>3, <3>1, <3>2 DEF Got, Groups
      <4>2. pins = [pins |-> pins.pins, debounce |-> pins.debounce]
        BY DEF EffectInv, PinsInv
      <4> QED
        BY <4>1, <4>2
    <3>3. ASSUME latest["gpio"].saved PROVE LoadPins = v
      <4>1. file["gpio"] = Whole(v)
        BY <2>1, <2>3, <3>1, <3>3 DEF Counts, InForce, Got, Groups
      <4> QED
        BY <4>1 DEF LoadPins, Whole
    <3> QED
      BY <2>3, <3>1, <3>2, <3>3 DEF Counts, InForce
  <2>4. InForce("password") => file["password"] = Whole(latest["password"].val)
    BY <2>1 DEF InForce, Counts, Reached, Got, Groups
  <2> QED
    BY <2>2, <2>3, <2>4 DEF SettingsInForce
<1> QED
  BY <1>1, EffectInductive, PTL DEF Spec

\* The router dhcpd names is the address of the primary interface, if that has one.
LEMMA RouterIsPrimary ==
  ASSUME NEW cfg, cfg.primary \in DOMAIN InterfacesFile(cfg).ifaces,
         InterfacesFile(cfg).ifaces[cfg.primary].ip # None
  PROVE  DhcpdFile(cfg).routers = InterfacesFile(cfg).ifaces[cfg.primary].ip
<1> DEFINE p == cfg.primary
<1>1. DhcpdFile(cfg).routers = Gateway(cfg)
  BY DEF DhcpdFile
<1>2. CASE DOMAIN cfg.ifaces = {}
  <2>1. InterfacesFile(cfg).ifaces = [i \in {Wlan0} |-> [dhcp |-> FALSE, ip |-> cfg.legacy]]
    BY <1>2 DEF InterfacesFile
  <2>2. Gateway(cfg) = cfg.legacy
    BY <1>2 DEF Gateway
  <2>3. InterfacesFile(cfg).ifaces[p].ip = cfg.legacy
    BY <2>1
  <2> QED
    BY <1>1, <2>2, <2>3
<1>3. CASE DOMAIN cfg.ifaces # {}
  <2> DEFINE on == {j \in DOMAIN cfg.ifaces : cfg.ifaces[j].on}
  <2>1. InterfacesFile(cfg).ifaces =
          [i \in on |-> [dhcp |-> cfg.ifaces[i].dhcp, ip |-> IF cfg.ifaces[i].dhcp THEN None ELSE cfg.ifaces[i].ip]]
    BY <1>3 DEF InterfacesFile
  <2>2. p \in on
    BY <2>1
  <2>3. InterfacesFile(cfg).ifaces[p].ip = IF cfg.ifaces[p].dhcp THEN None ELSE cfg.ifaces[p].ip
    BY <2>1, <2>2
  <2>4. p \in DOMAIN cfg.ifaces /\ ~cfg.ifaces[p].dhcp /\ cfg.ifaces[p].ip # None
    BY <2>2, <2>3
  <2> QED
    BY <1>1, <2>3, <2>4 DEF Gateway
<1> QED
  BY <1>2, <1>3

\* After a change of the network files, services and the router agree: NetworkInForce, for
\* any configurations, admins, failures and restarts.
THEOREM NetworkStaysInForce == Spec => []NetworkInForce
<1>1. EffectInv => NetworkInForce
  <2> DEFINE cfg == latest["network"].val
  <2> SUFFICES ASSUME EffectInv, InForce("network")
               PROVE  LET here == file["interfaces"].val.ifaces IN
                      /\ \A f \in DOMAIN running :
                           (f = "hostname" => cfg.hostname # None) => running[f] = file[f] /\ file[f].is = "whole"
                      /\ file["copy"] = file["dhcpd"]
                      /\ cfg.primary \in DOMAIN here /\ here[cfg.primary].ip # None =>
                           file["dhcpd"].val.routers = here[cfg.primary].ip
    BY DEF NetworkInForce
  <2>1. Got("network", "idle", cfg, file, pins, running, On)
    <3>1. Reached("network") = "idle"
      BY DEF Reached
    <3> QED
      BY <3>1 DEF EffectInv, ForceInv, Effect, Counts, InForce, Groups
  <2>2. NetGot(9, cfg, file, running)
    BY <2>1 DEF Got, Rank
  <2>3. /\ cfg.hostname # None => file["hostname"] = Whole(cfg.hostname) /\ running["hostname"] = Whole(cfg.hostname)
        /\ file["interfaces"] = Whole(InterfacesFile(cfg)) /\ running["interfaces"] = Whole(InterfacesFile(cfg))
        /\ file["dhcpd"] = Whole(DhcpdFile(cfg)) /\ running["dhcpd"] = Whole(DhcpdFile(cfg))
        /\ file["copy"] = Whole(DhcpdFile(cfg))
    BY <2>2 DEF NetGot
  <2> HIDE DEF cfg
  <2>4. \A f \in DOMAIN running :
          (f = "hostname" => cfg.hostname # None) => running[f] = file[f] /\ file[f].is = "whole"
    BY <2>3 DEF EffectInv, ForceInv, Whole
  <2>5. file["interfaces"].val = InterfacesFile(cfg) /\ file["dhcpd"].val = DhcpdFile(cfg)
    BY <2>3 DEF Whole
  <2>6. ASSUME cfg.primary \in DOMAIN InterfacesFile(cfg).ifaces, InterfacesFile(cfg).ifaces[cfg.primary].ip # None
        PROVE  DhcpdFile(cfg).routers = InterfacesFile(cfg).ifaces[cfg.primary].ip
    BY <2>6, RouterIsPrimary
  <2> QED
    BY <2>3, <2>4, <2>5, <2>6
<1> QED
  BY <1>1, EffectInductive, PTL DEF Spec
-----------------------------------------------------------------------------
(* Coins are worth what taking the largest one that fits, again and again, *)
(* gives: the loop of AmountToMB against the recursion of GreedyMB, for    *)
(* every finite table of rates and every amount.                           *)

FiniteTables == {r \in UNION {[D -> Int] : D \in SUBSET (Nat \ {0})} : IsFiniteSet(DOMAIN r)}

\* Induction over the numbers, from their well-foundedness.
LEMMA Induction ==
  ASSUME NEW T, 0 \in T, \A n \in Nat : n \in T => n + 1 \in T
  PROVE  \A n \in Nat : n \in T
<1> DEFINE S == {n \in Nat : n \notin T}
           R == OpToRel(<, Nat)
<1> SUFFICES ASSUME S # {} PROVE FALSE
  OBVIOUS
<1>1. PICK x \in S : \A y \in S : <<y, x>> \notin R
  <2> HIDE DEF R
  <2>1. IsWellFoundedOn(R, Nat)
    BY NatLessThanWellFounded DEF R
  <2>2. S \subseteq Nat
    OBVIOUS
  <2> HIDE DEF S
  <2> QED
    BY <2>1, <2>2, WFMin
<1>2. \A y \in S : ~(y < x)
  BY <1>1 DEF OpToRel
<1>3. x \in Nat /\ x # 0 /\ x \notin T
  OBVIOUS
<1>4. x - 1 \in Nat /\ x - 1 < x /\ (x - 1) + 1 = x
  BY <1>3
<1>5. x - 1 \in T
  BY <1>2, <1>4
<1> QED
  BY <1>3, <1>4, <1>5

\* A set of numbers has a least element.
LEMMA MinIs ==
  ASSUME NEW S \in SUBSET Nat, S # {}
  PROVE  Min(S) \in S /\ \A y \in S : Min(S) <= y
<1> DEFINE T == {n \in Nat : \A y \in S : n <= y}
<1>1. \E x \in S : \A y \in S : x <= y
  <2> SUFFICES ASSUME \A x \in S : \E y \in S : ~(x <= y) PROVE FALSE
    OBVIOUS
  <2>1. 0 \in T
    OBVIOUS
  <2>2. ASSUME NEW n \in Nat, n \in T PROVE n + 1 \in T
    <3>1. n \notin S
      BY <2>2
    <3>2. \A y \in S : n <= y /\ y # n
      BY <2>2, <3>1
    <3> QED
      BY <3>2
  <2> HIDE DEF T
  <2>3. \A n \in Nat : n \in T
    BY <2>1, <2>2, Induction
  <2>4. PICK x \in S : TRUE
    OBVIOUS
  <2>5. x + 1 \in T /\ x \in Nat
    BY <2>3
  <2> QED
    BY <2>4, <2>5 DEF T
<1> QED
  BY <1>1 DEF Min

\* A set of numbers that has a bound has a largest element.
LEMMA MaxIs ==
  ASSUME NEW S \in SUBSET Nat, S # {}, NEW n \in Nat, \A y \in S : y <= n
  PROVE  Max(S) \in S /\ \A y \in S : y <= Max(S)
<1> DEFINE D == {k \in 0..n : n - k \in S}
<1>1. D \in SUBSET Nat /\ D # {}
  <2>1. PICK y \in S : TRUE
    OBVIOUS
  <2>2. n - y \in 0..n /\ n - (n - y) = y
    BY <2>1
  <2>3. n - y \in D
    BY <2>1, <2>2
  <2>4. D \subseteq Nat
    OBVIOUS
  <2> HIDE DEF D
  <2> QED
    BY <2>3, <2>4
<1>2. Min(D) \in D /\ \A k \in D : Min(D) <= k
  BY <1>1, MinIs
<1> DEFINE x == n - Min(D)
<1>3. x \in S
  BY <1>2
<1>4. ASSUME NEW y \in S PROVE y <= x
  <2>1. n - y \in 0..n /\ n - (n - y) = y
    OBVIOUS
  <2>2. n - y \in D
    BY <2>1
  <2>3. Min(D) <= n - y /\ Min(D) \in Nat /\ y \in Nat
    BY <1>1, <1>2, <2>2
  <2> HIDE DEF D
  <2> QED
    BY <2>3
<1> HIDE DEF x
<1>5. \A y \in S : x >= y
  <2>1. x \in Nat
    BY <1>3
  <2> QED
    BY <1>4, <2>1
<1> QED
  <2>1. Max(S) \in S /\ \A y \in S : Max(S) >= y
    BY <1>3, <1>5 DEF Max
  <2> QED
    BY <2>1

\* A function whose value at x is made from its values at lesser ranks.
Descends(X, V, rank, F) ==
  \A f, g \in [X -> V], x \in X :
    (\A y \in X : rank[y] < rank[x] => f[y] = g[y]) => F[<<f, x>>] = F[<<g, x>>]

\* F and ranks up to N define such a function.
Ranked(X, V, N, rank, F) ==
  N \in Nat /\ rank \in [X -> 0..N] /\ F \in [[X -> V] \X X -> V] /\ V # {} /\ Descends(X, V, rank, F)

\* Some function is what F makes of it.
Fixed(X, V, F) == \E f \in [X -> V] : \A x \in X : f[x] = F[<<f, x>>]

\* A definition by recursion on a bounded rank is met.
LEMMA Recursion ==
  ASSUME NEW X, NEW V, NEW N, NEW rank, NEW F, Ranked(X, V, N, rank, F)
  PROVE  Fixed(X, V, F)
<1> USE DEF Descends, Ranked
<1> DEFINE T == {n \in Nat : \E f \in [X -> V] : \A x \in X : rank[x] < n => f[x] = F[<<f, x>>]}
<1>1. 0 \in T
  <2> PICK v \in V : TRUE
    OBVIOUS
  <2>1. [x \in X |-> v] \in [X -> V] /\ \A x \in X : ~(rank[x] < 0)
    OBVIOUS
  <2> QED
    BY <2>1
<1>2. ASSUME NEW n \in Nat, n \in T PROVE n + 1 \in T
  <2>1. PICK f \in [X -> V] : \A x \in X : rank[x] < n => f[x] = F[<<f, x>>]
    BY <1>2
  <2> DEFINE g == [x \in X |-> F[<<f, x>>]]
  <2>2. g \in [X -> V] /\ \A x \in X : g[x] = F[<<f, x>>]
    OBVIOUS
  <2> HIDE DEF g
  <2>3. ASSUME NEW x \in X, rank[x] < n + 1 PROVE g[x] = F[<<g, x>>]
    <3>1. ASSUME NEW y \in X, rank[y] < rank[x] PROVE f[y] = g[y]
      <4>1. rank[y] < n
        BY <2>3, <3>1
      <4> QED
        BY <2>1, <2>2, <4>1
    <3>2. F[<<f, x>>] = F[<<g, x>>]
      BY <2>2, <3>1
    <3> QED
      BY <2>2, <3>2
  <2> QED
    BY <2>2, <2>3
<1> HIDE DEF T
<1>3. \A n \in Nat : n \in T
  BY <1>1, <1>2, Induction
<1>4. N + 1 \in T
  BY <1>3
<1>5. PICK f \in [X -> V] : \A x \in X : rank[x] < N + 1 => f[x] = F[<<f, x>>]
  BY <1>4 DEF T
<1> QED
  BY <1>5 DEF Fixed

\* The coins and rates of a table.
LEMMA TableIs ==
  ASSUME NEW rates \in FiniteTables
  PROVE  IsFiniteSet(DOMAIN rates) /\ DOMAIN rates \subseteq Nat \ {0} /\ \A amt \in DOMAIN rates : rates[amt] \in Int
BY DEF FiniteTables

\* The coins that fit in an amount.
Coins(rates, n) == {amt \in DOMAIN rates : amt <= n}

\* The coin the reference takes next.
LEMMA LargestCoin ==
  ASSUME NEW rates \in FiniteTables, NEW n \in Nat, Coins(rates, n) # {}
  PROVE  /\ Max(Coins(rates, n)) \in DOMAIN rates /\ Max(Coins(rates, n)) \in 1..n
         /\ rates[Max(Coins(rates, n))] \in Int
         /\ \A amt \in DOMAIN rates : amt <= n => amt <= Max(Coins(rates, n))
<1>1. Coins(rates, n) \in SUBSET Nat /\ \A y \in Coins(rates, n) : y <= n
  BY TableIs DEF Coins
<1>2. Max(Coins(rates, n)) \in Coins(rates, n) /\ \A y \in Coins(rates, n) : y <= Max(Coins(rates, n))
  BY <1>1, MaxIs
<1> QED
  BY <1>2, TableIs DEF Coins

\* The reference's own equation.
WorthGoes(rates, peso, w) ==
  /\ w \in [0..peso -> Int]
  /\ \A n \in 0..peso :
       /\ Coins(rates, n) = {} => w[n] = 0
       /\ Coins(rates, n) # {} => w[n] = rates[Max(Coins(rates, n))] + w[n - Max(Coins(rates, n))]

\* The reference meets its equation.
LEMMA Worth ==
  ASSUME NEW rates \in FiniteTables, NEW peso \in Nat
  PROVE  \E w : WorthGoes(rates, peso, w) /\ GreedyMB(rates, peso) = w[peso]
<1> DEFINE X == 0..peso
           Body(f, n) == IF Coins(rates, n) = {} THEN 0 ELSE rates[Max(Coins(rates, n))] + f[n - Max(Coins(rates, n))]
           F == [p \in [X -> Int] \X X |-> Body(p[1], p[2])]
           Rec(w) == w = [n \in X |-> Body(w, n)]
<1>1. ASSUME NEW n \in X, Coins(rates, n) # {}
      PROVE  /\ n - Max(Coins(rates, n)) \in X /\ n - Max(Coins(rates, n)) < n
             /\ rates[Max(Coins(rates, n))] \in Int
  <2>1. Max(Coins(rates, n)) \in 1..n /\ rates[Max(Coins(rates, n))] \in Int
    BY <1>1, LargestCoin
  <2> HIDE DEF Body
  <2> PICK k : k = Max(Coins(rates, n))
    OBVIOUS
  <2> QED
    BY <2>1
<1>2. \A f \in [X -> Int], n \in X : Body(f, n) \in Int
  BY <1>1
<1>3. F \in [[X -> Int] \X X -> Int] /\ \A f \in [X -> Int], n \in X : F[<<f, n>>] = Body(f, n)
  BY <1>2
<1>4. ASSUME NEW f \in [X -> Int], NEW g \in [X -> Int], NEW n \in X, \A y \in X : y < n => f[y] = g[y]
      PROVE  F[<<f, n>>] = F[<<g, n>>]
  <2>1. Body(f, n) = Body(g, n)
    BY <1>1, <1>4
  <2> QED
    BY <1>3, <2>1
<1>5. PICK f \in [X -> Int] : \A n \in X : f[n] = F[<<f, n>>]
  <2> DEFINE rank == [n \in X |-> n]
  <2>1. rank \in [X -> 0..peso] /\ \A n \in X : rank[n] = n
    OBVIOUS
  <2> PICK G : G = F
    OBVIOUS
  <2> HIDE DEF F, rank, Body
  <2>2. G \in [[X -> Int] \X X -> Int]
    BY <1>3
  <2>3. ASSUME NEW f \in [X -> Int], NEW g \in [X -> Int], NEW x \in X, \A y \in X : rank[y] < rank[x] => f[y] = g[y]
        PROVE  G[<<f, x>>] = G[<<g, x>>]
    <3>1. \A y \in X : y < x => f[y] = g[y]
      BY <2>1, <2>3
    <3> QED
      BY <1>4, <2>3, <3>1
  <2> PICK r : r = rank
    OBVIOUS
  <2> HIDE DEF X
  <2>4. Ranked(X, Int, peso, r, G)
    <3>1. r \in [X -> 0..peso]
      BY <2>1
    <3>2. Descends(X, Int, r, G)
      <4>1. \A f, g \in [X -> Int], x \in X :
             (\A y \in X : r[y] < r[x] => f[y] = g[y]) => G[<<f, x>>] = G[<<g, x>>]
        BY <2>3, Zenon
      <4> QED
        BY <4>1, Zenon DEF Descends
    <3>3. Int # {}
      OBVIOUS
    <3> QED
      BY <2>2, <3>1, <3>2, <3>3, Zenon DEF Ranked
  <2>5. Fixed(X, Int, G)
    <3> HIDE DEF X
    <3> QED BY ONLY <2>4, Recursion
  <2> QED
    BY <2>5 DEF Fixed
<1>6. Rec(f)
  BY <1>3, <1>5
<1>7. GreedyMB(rates, peso) = (CHOOSE w : Rec(w))[peso]
  BY DEF GreedyMB, Coins
<1> HIDE DEF Rec
<1>8. PICK w : Rec(w) /\ GreedyMB(rates, peso) = w[peso]
  BY <1>6, <1>7, Zenon
<1> HIDE DEF F, Body
<1>9. DOMAIN w = X /\ \A n \in X : w[n] = Body(w, n)
  BY <1>8 DEF Rec
<1>10. \A n \in X : w[n] = f[n]
  <2> DEFINE T == {k \in Nat : \A n \in X : n < k => w[n] = f[n]}
  <2>1. 0 \in T
    OBVIOUS
  <2>2. ASSUME NEW k \in Nat, k \in T PROVE k + 1 \in T
    <3>1. ASSUME NEW n \in X, n < k + 1 PROVE w[n] = f[n]
      <4>1. \A y \in X : y < n => w[y] = f[y]
        BY <2>2, <3>1
      <4>2. Body(w, n) = Body(f, n)
        BY <1>1, <4>1 DEF Body
      <4> QED
        BY <1>3, <1>5, <1>9, <3>1, <4>2
    <3> QED
      BY <3>1
  <2> HIDE DEF T
  <2>3. \A k \in Nat : k \in T
    BY <2>1, <2>2, Induction
  <2>4. peso + 1 \in T
    BY <2>3
  <2> QED
    BY <2>4 DEF T
<1>11. w \in [X -> Int]
  <2>1. w = [n \in X |-> w[n]]
    BY <1>8, <1>9 DEF Rec
  <2> QED
    BY <1>5, <1>10, <2>1
<1>12. WorthGoes(rates, peso, w)
  BY <1>9, <1>11 DEF WorthGoes, Body
<1> QED
  BY <1>8, <1>12

\* Division with remainder.
LEMMA Division ==
  ASSUME NEW n \in Nat, NEW a \in Nat \ {0}
  PROVE  n = (n \div a) * a + (n % a) /\ n \div a \in Nat /\ n % a \in 0..(a - 1) /\ n % a <= n
BY SMT

\* The equations of the loop of AmountToMB.
Purse == [mb : Int, left : Nat]

LoopGoes(rates, peso, t) ==
  /\ t \in [SUBSET DOMAIN rates -> Purse]
  /\ t[{}] = [mb |-> 0, left |-> peso]
  /\ \A S \in SUBSET DOMAIN rates : S # {} => t[S] = Take(t[S \ {Min(S)}], rates, Min(S))

\* What taking coins of one kind gives.
LEMMA TakeIs ==
  ASSUME NEW rates \in FiniteTables, NEW acc \in Purse, NEW amt \in DOMAIN rates
  PROVE  Take(acc, rates, amt) \in Purse
<1>1. amt \in Nat \ {0} /\ rates[amt] \in Int
  BY TableIs
<1>2. acc.left \div amt \in Nat /\ acc.left % amt \in Nat
  BY <1>1, Division DEF Purse
<1>3. (acc.left \div amt) * rates[amt] \in Int
  BY <1>1, <1>2
<1> QED
  BY <1>2, <1>3 DEF Take, Purse

\* AmountToMB meets its equations.
LEMMA Loop ==
  ASSUME NEW rates \in FiniteTables, NEW peso \in Nat
  PROVE  \E t : LoopGoes(rates, peso, t) /\ AmountToMB(rates, peso) = t[DOMAIN rates].mb
<1> DEFINE D == DOMAIN rates
           X == SUBSET D
           Body(f, S) == IF S = {} THEN [mb |-> 0, left |-> peso] ELSE Take(f[S \ {Min(S)}], rates, Min(S))
           F == [p \in [X -> Purse] \X X |-> Body(p[1], p[2])]
           Rec(t) == t = [S \in X |-> Body(t, S)]
           rank == [S \in X |-> Cardinality(S)]
<1>1. ASSUME NEW S \in X, S # {}
      PROVE  Min(S) \in D /\ S \ {Min(S)} \in X /\ Cardinality(S \ {Min(S)}) < Cardinality(S)
  <2>1. Min(S) \in S
    BY <1>1, TableIs, MinIs
  <2>2. IsFiniteSet(S)
    BY TableIs, FS_Subset
  <2>3. Cardinality(S) \in Nat
    BY <2>2, FS_CardinalityType
  <2>4. Cardinality(S \ {Min(S)}) = Cardinality(S) - 1
    BY <2>1, <2>2, FS_RemoveElement
  <2> QED
    BY <2>1, <2>3, <2>4
<1>2. \A f \in [X -> Purse], S \in X : Body(f, S) \in Purse
  <2> TAKE f \in [X -> Purse], S \in X
  <2>1. CASE S = {}
    BY <2>1 DEF Purse
  <2>2. CASE S # {}
    <3>1. f[S \ {Min(S)}] \in Purse /\ Min(S) \in DOMAIN rates
      BY <1>1, <2>2
    <3>2. Take(f[S \ {Min(S)}], rates, Min(S)) \in Purse
      BY <3>1, TakeIs
    <3> QED
      BY <2>2, <3>2
  <2> QED
    BY <2>1, <2>2
<1>3. F \in [[X -> Purse] \X X -> Purse] /\ \A f \in [X -> Purse], S \in X : F[<<f, S>>] = Body(f, S)
  <2> HIDE DEF Body, X
  <2> QED BY <1>2
<1>4. \A S \in X : Cardinality(S) \in 0..Cardinality(D) /\ Cardinality(S) \in Nat
  <2> TAKE S \in X
  <2>1. IsFiniteSet(S) /\ Cardinality(S) <= Cardinality(D)
    BY TableIs, FS_Subset
  <2>2. Cardinality(S) \in Nat /\ Cardinality(D) \in Nat
    BY <2>1, TableIs, FS_CardinalityType
  <2> QED
    BY <2>1, <2>2
<1>5. ASSUME NEW f, NEW g, NEW S \in X,
             \A T \in X : Cardinality(T) < Cardinality(S) => f[T] = g[T]
      PROVE  Body(f, S) = Body(g, S)
  BY <1>1, <1>5
<1>6. PICK f \in [X -> Purse] : \A S \in X : f[S] = F[<<f, S>>]
  <2>1. rank \in [X -> 0..Cardinality(D)] /\ \A S \in X : rank[S] = Cardinality(S)
    BY <1>4
  <2>2. ASSUME NEW f \in [X -> Purse], NEW g \in [X -> Purse], NEW S \in X,
               \A T \in X : rank[T] < rank[S] => f[T] = g[T]
        PROVE  F[<<f, S>>] = F[<<g, S>>]
    <3> HIDE DEF rank, F, X, Body
    <3>1. \A T \in X : Cardinality(T) < Cardinality(S) => f[T] = g[T]
      BY <2>1, <2>2
    <3>2. Body(f, S) = Body(g, S)
      BY <1>5, <3>1
    <3> QED
      BY <1>3, <3>2
  <2>3. Cardinality(D) \in Nat
    BY TableIs, FS_CardinalityType
  <2>4. Purse # {}
    <3>1. [mb |-> 0, left |-> 0] \in Purse
      BY DEF Purse
    <3> QED
      BY <3>1
  <2> HIDE DEF F, X, rank, Body, D
  <2> DEFINE c == Cardinality(D)
  <2> HIDE DEF c
  <2>5. Ranked(X, Purse, c, rank, F)
    <3>1. Descends(X, Purse, rank, F)
      <4>1. \A f, g \in [X -> Purse], S \in X :
             (\A T \in X : rank[T] < rank[S] => f[T] = g[T]) => F[<<f, S>>] = F[<<g, S>>]
        BY <2>2, Zenon
      <4> QED
        BY <4>1, Zenon DEF Descends
    <3> QED
      BY <1>3, <2>1, <2>3, <2>4, <3>1, Zenon DEF Ranked, c
  <2>6. Fixed(X, Purse, F)
    BY ONLY <2>5, Recursion
  <2> QED
    BY <2>6, Zenon DEF Fixed
<1>7. Rec(f)
  <2> HIDE DEF X, F, Body
  <2> QED BY <1>3, <1>6
<1>8. AmountToMB(rates, peso) = (CHOOSE t : Rec(t))[D].mb
  BY DEF AmountToMB, LastKey
<1> HIDE DEF Rec
<1>9. PICK t : Rec(t) /\ AmountToMB(rates, peso) = t[D].mb
  BY <1>7, <1>8, Zenon
<1>10. DOMAIN t = X /\ \A S \in X : t[S] = Body(t, S)
  <2> HIDE DEF Body, X
  <2> QED BY <1>9 DEF Rec
<1>11. \A S \in X : t[S] = f[S]
  <2> DEFINE T == {k \in Nat : \A S \in X : Cardinality(S) < k => t[S] = f[S]}
  <2> HIDE DEF X, F, Body
  <2>1. 0 \in T
    BY <1>4
  <2>2. ASSUME NEW k \in Nat, k \in T PROVE k + 1 \in T
    <3>1. ASSUME NEW S \in X, Cardinality(S) < k + 1 PROVE t[S] = f[S]
      <4>1. \A U \in X : Cardinality(U) < Cardinality(S) => t[U] = f[U]
        BY <1>4, <2>2, <3>1
      <4>2. Body(t, S) = Body(f, S)
        BY <1>5, <4>1
      <4> QED
        BY <1>3, <1>6, <1>10, <4>2
    <3> QED
      BY <3>1
  <2> HIDE DEF T
  <2>3. \A k \in Nat : k \in T
    BY <2>1, <2>2, Induction
  <2>4. Cardinality(D) + 1 \in T /\ Cardinality(D) \in Nat
    BY <2>3, TableIs, FS_CardinalityType
  <2> QED
    BY <1>4, <2>4 DEF T
<1>12. t \in [X -> Purse]
  <2> HIDE DEF X, F, Body
  <2>1. t = [S \in X |-> t[S]]
    BY <1>9, <1>10 DEF Rec
  <2> QED
    BY <1>6, <1>11, <2>1
<1>13. LoopGoes(rates, peso, t)
  <2>1. t[{}] = [mb |-> 0, left |-> peso]
    BY <1>10
  <2>2. \A S \in SUBSET DOMAIN rates : S # {} => t[S] = Take(t[S \ {Min(S)}], rates, Min(S))
    BY <1>10
  <2> QED
    BY <1>12, <2>1, <2>2 DEF LoopGoes
<1> QED
  BY <1>9, <1>13

\* As long as no larger coin fits, q coins of one kind are worth q times the coin.
LEMMA SameCoin ==
  ASSUME NEW rates \in FiniteTables, NEW peso \in Nat, NEW w, WorthGoes(rates, peso, w),
         NEW top \in 0..peso, NEW a \in DOMAIN rates, \A c \in DOMAIN rates : c <= top => c <= a,
         NEW r \in Nat
  PROVE  \A q \in Nat : q * a + r <= top => w[q * a + r] = q * rates[a] + w[r]
<1> DEFINE T == {q \in Nat : q * a + r <= top => w[q * a + r] = q * rates[a] + w[r]}
<1>0. a \in Nat \ {0} /\ rates[a] \in Int
  BY TableIs
<1>1. 0 \in T
  <2>1. r <= top => w[r] \in Int
    BY DEF WorthGoes
  <2> QED
    BY <1>0, <2>1
<1>2. ASSUME NEW q \in Nat, q \in T PROVE q + 1 \in T
  <2> DEFINE m == q * a + r
             n == (q + 1) * a + r
  <2>1. m \in Nat /\ n \in Nat /\ n = m + a
    BY <1>0
  <2>2. (q + 1) * rates[a] = q * rates[a] + rates[a] /\ q * rates[a] \in Int
    BY <1>0
  <2> HIDE DEF m, n
  <2> SUFFICES ASSUME n <= top PROVE w[n] = (q + 1) * rates[a] + w[r]
    BY DEF n
  <2>3. m <= top
    BY <1>0, <2>1
  <2>4. w[m] = q * rates[a] + w[r]
    BY <1>2, <2>3 DEF m
  <2>5. Coins(rates, n) # {} /\ n \in 0..peso /\ m \in 0..peso
    BY <1>0, <2>1 DEF Coins
  <2>6. Max(Coins(rates, n)) = a
    <3>1. Max(Coins(rates, n)) \in DOMAIN rates /\ Max(Coins(rates, n)) \in 1..n
      BY <2>1, <2>5, LargestCoin
    <3>2. a <= Max(Coins(rates, n))
      BY <1>0, <2>1, <2>5, LargestCoin
    <3> QED
      BY <1>0, <2>1, <3>1, <3>2
  <2>7. w[n] = rates[a] + w[n - a]
    BY <2>5, <2>6 DEF WorthGoes
  <2>8. n - a = m
    BY <1>0, <2>1
  <2>9. w[m] \in Int /\ w[r] \in Int
    <3>1. q * a \in Nat
      BY <1>0
    <3>2. r \in 0..peso
      BY <2>5, <3>1 DEF m
    <3> QED
      BY <2>5, <3>2 DEF WorthGoes
  <2> QED
    BY <1>0, <2>2, <2>4, <2>7, <2>8, <2>9
<1> HIDE DEF T
<1>3. \A q \in Nat : q \in T
  BY <1>1, <1>2, Induction
<1> QED
  BY <1>3 DEF T

\* After the denominations of S, which are the largest, what was taken and what is left
\* are worth what the whole amount is worth, and what is left is below each of them.
LEMMA LoopKeepsWorth ==
  ASSUME NEW rates \in FiniteTables, NEW peso \in Nat, NEW w, WorthGoes(rates, peso, w),
         NEW t, LoopGoes(rates, peso, t)
  PROVE  /\ t[DOMAIN rates].left \in 0..peso
         /\ w[peso] = t[DOMAIN rates].mb + w[t[DOMAIN rates].left]
         /\ \A c \in DOMAIN rates : t[DOMAIN rates].left < c
<1> DEFINE D == DOMAIN rates
           Upper(S) == \A x \in S, y \in D : x <= y => y \in S
           Kept(S) == /\ t[S].left \in 0..peso
                      /\ w[peso] = t[S].mb + w[t[S].left]
                      /\ \A c \in S : t[S].left < c
           T == {k \in Nat : \A S \in SUBSET D : Cardinality(S) <= k /\ Upper(S) => Kept(S)}
<1>1. \A S \in SUBSET D : IsFiniteSet(S) /\ Cardinality(S) \in Nat
  BY TableIs, FS_Subset, FS_CardinalityType
<1>2. Kept({})
  <2>1. w[peso] \in Int
    BY DEF WorthGoes
  <2>2. t[{}] = [mb |-> 0, left |-> peso]
    BY DEF LoopGoes
  <2> QED
    BY <2>1, <2>2
<1>3. ASSUME NEW S \in SUBSET D, S # {}, Upper(S), Kept(S \ {Min(S)})
      PROVE  Kept(S)
  <2> DEFINE U == S \ {Min(S)}
  <2> PICK a : a = Min(S)
    OBVIOUS
  <2>1. a \in S /\ a \in D /\ \A y \in S : a <= y
    BY <1>3, TableIs, MinIs
  <2>2. a \in Nat \ {0} /\ rates[a] \in Int /\ D \subseteq Nat
    BY <2>1, TableIs
  <2>3. t[S] = Take(t[U], rates, a) /\ t[U] \in Purse
    BY <1>3 DEF LoopGoes
  <2> PICK old : old = t[U]
    OBVIOUS
  <2> PICK new : new = t[S]
    OBVIOUS
  <2> DEFINE q == old.left \div a
             r == old.left % a
  <2>4. old.left \in 0..peso /\ w[peso] = old.mb + w[old.left] /\ old.mb \in Int
    BY <1>3, <2>3 DEF Purse
  <2>5. new.mb = old.mb + q * rates[a] /\ new.left = r
    BY <2>3 DEF Take
  <2>6. old.left = q * a + r /\ q \in Nat /\ r \in 0..(a - 1) /\ r <= old.left
    <3>1. old.left \in Nat
      BY <2>4
    <3> QED
      BY ONLY <2>2, <3>1, Division
  <2>7. \A c \in D : c <= old.left => c <= a
    <3> SUFFICES ASSUME NEW c \in D, c <= old.left, ~(c <= a) PROVE FALSE
      OBVIOUS
    <3>1. a <= c /\ c # a
      BY <2>2
    <3>2. c \in U
      BY <1>3, <2>1, <3>1
    <3>3. old.left < c
      BY <1>3, <3>2
    <3> QED
      BY <2>2, <2>4, <3>3
  <2> HIDE DEF q, r
  <2>8. w[old.left] = q * rates[a] + w[r]
    <3>1. \A k \in Nat : k * a + r <= old.left => w[k * a + r] = k * rates[a] + w[r]
      BY <2>1, <2>4, <2>6, <2>7, SameCoin
    <3> QED
      BY <2>4, <2>6, <3>1
  <2>9. r \in 0..peso /\ w[r] \in Int /\ q * rates[a] \in Int
    <3>1. r \in 0..peso
      BY <2>2, <2>4, <2>6
    <3>2. w[r] \in Int
      BY <2>2, <3>1 DEF WorthGoes
    <3>3. q * rates[a] \in Int
      BY <2>2, <2>6
    <3> QED
      BY <3>1, <3>2, <3>3
  <2>10. w[peso] = new.mb + w[new.left]
    BY <2>4, <2>5, <2>8, <2>9
  <2>11. \A c \in S : new.left < c
    BY <2>1, <2>2, <2>5, <2>6
  <2> QED
    BY <2>5, <2>9, <2>10, <2>11
<1> HIDE DEF Kept
<1>4. 0 \in T
  <2> SUFFICES ASSUME NEW S \in SUBSET D, Cardinality(S) <= 0 PROVE S = {}
    BY <1>2
  <2> QED
    BY <1>1, FS_EmptySet
<1>5. ASSUME NEW k \in Nat, k \in T PROVE k + 1 \in T
  <2> SUFFICES ASSUME NEW S \in SUBSET D, Cardinality(S) <= k + 1, Upper(S), S # {} PROVE Kept(S)
    BY <1>2
  <2> DEFINE U == S \ {Min(S)}
  <2>1. Min(S) \in S /\ S \subseteq Nat /\ \A y \in S : Min(S) <= y
    BY TableIs, MinIs
  <2>2. Cardinality(U) <= k
    <3>1. Cardinality(U) = Cardinality(S) - 1
      BY <1>1, <2>1, FS_RemoveElement
    <3> QED
      BY <1>1, <3>1
  <2>3. Upper(U)
    <3> SUFFICES ASSUME NEW x \in U, NEW y \in D, x <= y PROVE y \in U
      OBVIOUS
    <3>1. y \in S
      OBVIOUS
    <3>2. Min(S) <= x /\ Min(S) # x /\ Min(S) \in Nat /\ x \in Nat /\ y \in Nat
      BY <2>1, <3>1
    <3>3. y # Min(S)
      BY <3>2
    <3> QED
      BY <3>1, <3>3
  <2>4. Kept(U)
    BY <1>5, <2>2, <2>3
  <2> QED
    BY <1>3, <2>4
<1> HIDE DEF T
<1>6. \A k \in Nat : k \in T
  BY <1>4, <1>5, Induction
<1>7. Kept(D)
  BY <1>1, <1>6 DEF T
<1> QED
  BY <1>7 DEF Kept

\* The loop gives what the reference gives.
LEMMA LargestFirst ==
  ASSUME NEW rates \in FiniteTables, NEW peso \in Nat
  PROVE  AmountToMB(rates, peso) = GreedyMB(rates, peso)
<1>1. PICK w : WorthGoes(rates, peso, w) /\ GreedyMB(rates, peso) = w[peso]
  BY Worth
<1>2. PICK t : LoopGoes(rates, peso, t) /\ AmountToMB(rates, peso) = t[DOMAIN rates].mb
  BY Loop
<1> PICK p : p = t[DOMAIN rates]
  OBVIOUS
<1>3. p.left \in 0..peso /\ w[peso] = p.mb + w[p.left] /\ \A c \in DOMAIN rates : p.left < c
  BY <1>1, <1>2, LoopKeepsWorth
<1>4. Coins(rates, p.left) = {}
  BY <1>3, TableIs DEF Coins
<1>5. w[p.left] = 0
  BY <1>1, <1>3, <1>4 DEF WorthGoes
<1>6. p.mb \in Int
  <2>1. p \in Purse
    BY <1>2 DEF LoopGoes
  <2> QED
    BY <2>1 DEF Purse
<1> QED
  BY <1>1, <1>2, <1>3, <1>5, <1>6

\* The rates in force are a table, whatever was written over what.
LEMMA TablesInForce == Shape /\ ValueInv => LoadRates \in FiniteTables
<1> SUFFICES ASSUME Shape, ValueInv PROVE LoadRates \in FiniteTables
  OBVIOUS
<1>1. ASSUME NEW r, IsTable(r) PROVE r \in FiniteTables
  BY <1>1 DEF IsTable, FiniteTables
<1>2. CASE file["rates"].is = "whole"
  <2>1. Fits("rates", file["rates"].val)
    BY <1>2 DEF ValueInv, Files
  <2>2. IsTable(LoadRates)
    BY <1>2, <2>1, SettingsAssumption DEF Fits, LoadRates
  <2> QED
    BY <1>1, <2>2
<1>3. CASE file["rates"].is # "whole"
  <2>1. DefaultRates = [amt \in {1, 5, 10} |-> CASE amt = 1 -> 24 [] amt = 5 -> 128 [] amt = 10 -> 1024]
    BY DEF DefaultRates
  <2>2. DefaultRates \in [{1, 5, 10} -> Int]
    BY <2>1
  <2>3. IsFiniteSet({1, 5, 10})
    <3>1. \A a, b \in Int : IsFiniteSet(a..b)
      BY FS_Interval
    <3> QED
      BY <3>1, FS_Subset
  <2> QED
    BY <1>3, <2>2, <2>3 DEF LoadRates, FiniteTables
<1> QED
  BY <1>2, <1>3

\* For any table an admin submits and any amount, also one beyond the bound of the runs,
\* the credit is the one of the largest coins (handlers.go:222-243).
THEOREM CreditIsAlwaysGreedy == Spec => []CreditIsGreedy
<1>1. Shape /\ ValueInv => CreditIsGreedy
  <2> SUFFICES ASSUME Shape, ValueInv, NEW n \in 0..MaxAmount
               PROVE  AmountToMB(LoadRates, n) = GreedyMB(LoadRates, n)
    BY DEF CreditIsGreedy
  <2>1. n \in Nat
    BY SettingsAssumption
  <2> QED
    BY <2>1, TablesInForce, LargestFirst
<1>2. Init => Shape /\ ValueInv
  BY InitShape, InitValue
<1>3. Shape /\ ValueInv /\ [Next]_vars => Shape' /\ ValueInv'
  BY ShapeStep, ValueStep
<1> QED
  BY <1>1, <1>2, <1>3, PTL DEF Spec
=============================================================================
