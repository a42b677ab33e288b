------------------------------ MODULE Settings ------------------------------
(***************************************************************************)
(* The settings admins change: password and sessions (internal/auth),      *)
(* rates, pins, maintenance mode (internal/handlers), the network          *)
(* (internal/network/config.go), and the device token key, with what a     *)
(* start reads back (cmd/main.go).                                         *)
(*                                                                         *)
(* Every setting is a file that os.WriteFile truncates and then writes.    *)
(* Requests are goroutines; only the maintenance mode has a lock.  Any     *)
(* write or command may fail and the program may die between any two       *)
(* steps.  Two writes of a file may overlap: the shorter one, written last,*)
(* leaves the end of the longer one behind it.                             *)
(***************************************************************************)
EXTENDS NetConfig, Rates

CONSTANTS
  Admins,      \* goroutines that serve requests of admins
  Main,        \* the goroutine of main
  Passwords,   \* passwords admins type
  RateTables,  \* tables of rates an admin submits
  Pins,        \* pin assignments, with the debounce delay
  DefaultPins, \* gpio.DefaultConfig
  NetRequests, \* network configurations an admin submits, each with its list of roles
  RoleLists,   \* lists of roles an admin submits alone
  FirstNet,    \* the network configuration the machine was installed with
  FirstDhcpd,  \* and its dhcpd.conf
  MaxAmount,   \* bound: coins whose worth is compared with the reference
  MaxSessions, \* bound: valid sessions
  MaxRequests, \* bound: requests, and starts that poll the lease file
  MaxFaults    \* bound: failed readings, writes and commands, deaths of the program

ASSUME SettingsAssumption ==
  /\ Main \notin Admins /\ None \notin Admins \cup {Main}
  /\ DefaultPins \in Pins
  /\ \A r \in RateTables : IsTable(r)
  /\ {MaxAmount, MaxSessions, MaxRequests, MaxFaults} \subseteq Nat

VARIABLES
  phase,    \* of the process
  file,     \* every settings file
  mode,     \* MaintenanceState.cfg
  mu,       \* MaintenanceState.mu: its holder
  pins,     \* Coinslot: the pins and the debounce delay, set one after the other
  key,      \* App.JWTSecret
  keys,     \* how many keys have been made
  sessions, \* how many session tokens are valid
  running,  \* what the network services loaded last
  work,     \* what each goroutine does next
  requests, faults,  \* bounds used up
  issued,   \* history: keys under which devices can have been given tokens that are
            \* not given up
  acked,    \* history: some admin was told that the password is set
  suspect,  \* history: files whose latest write since the start failed; dhcpd.conf also
            \* until the program has written it or found the hook in it
  latest    \* history: of the request of each group that began last, whether it began
            \* alone, was answered as done, was written, and what it set

memory == <<mode, mu, pins, key, sessions>>
bounds == <<requests, faults>>
history == <<issued, acked, suspect, latest>>
vars == <<phase, file, memory, keys, running, work, bounds, history>>

Workers == Admins \cup {Main}
NetFiles == {"hostname", "interfaces", "copy", "dhcpd"}
Files == {"password", "rates", "gpio", "maintenance", "key"} \cup NetFiles
Services == {"networking", "isc", "hostapd"}
Modes == {"off", "lockdown", "free"}
Groups == {"password", "rates", "gpio", "maintenance", "network"}
Kinds == {"none", "login", "init", "start", "roles"} \cup Groups

\* What a goroutine does next; a step named after a file writes that file.
Steps == {"idle", "compare", "session", "mode", "pins", "debounce", "setHostname", "getHostname",
          "getInterfaces", "getDhcpd", "ensure", "readKey", "load"} \cup Files \cup Services

\* Contents of a file.
Absent == [is |-> "absent", val |-> None]
Empty == [is |-> "empty", val |-> None]
Whole(v) == [is |-> "whole", val |-> v]
Torn(v) == [is |-> "torn", val |-> v]

Idle == [kind |-> "none", step |-> "idle", open |-> FALSE, val |-> None]

SettingsTypeOK ==
  /\ phase \in {"starting", "serving", "down"}
  /\ \A f \in Files : file[f].is \in {"absent", "empty", "whole", "torn"}
  /\ mode \in Modes /\ mu \in Admins \cup {None}
  /\ pins.pins \in Pins /\ pins.debounce \in Pins
  /\ key \in Nat /\ keys \in Nat /\ sessions \in 0..MaxSessions
  /\ \A w \in Workers : work[w].kind \in Kinds /\ work[w].step \in Steps /\ work[w].open \in BOOLEAN
  /\ requests \in 0..MaxRequests /\ faults \in 0..MaxFaults
  /\ issued \subseteq Nat /\ acked \in BOOLEAN /\ suspect \subseteq Files
  /\ \A g \in Groups : {latest[g].alone, latest[g].ok, latest[g].saved} \subseteq BOOLEAN

Init ==
  /\ phase = "down"
  /\ file = [f \in Files |-> CASE f = "hostname" -> Whole(FirstNet.hostname)
                               [] f = "interfaces" -> Whole(InterfacesFile(FirstNet))
                               [] f = "dhcpd" -> Whole(FirstDhcpd)
                               [] OTHER -> Absent]
  /\ mode = "off" /\ mu = None /\ pins = [pins |-> DefaultPins, debounce |-> DefaultPins]
  /\ key = 0 /\ keys = 0 /\ sessions = 0
  /\ running = [f \in NetFiles \ {"copy"} |-> file[f]]
  /\ work = [w \in Workers |-> Idle]
  /\ requests = 0 /\ faults = 0
  /\ issued = {} /\ acked = FALSE /\ suspect = {}
  /\ latest = [g \in Groups |-> [alone |-> TRUE, ok |-> FALSE, saved |-> FALSE, val |-> None]]

-----------------------------------------------------------------------------
(* How a goroutine goes on.                                                *)

Busy(w) == work[w].step # "idle"
Group(kind) == CASE kind = "init" -> "password" [] kind \in {"roles", "start"} -> "network" [] OTHER -> kind
Writing(w, f) == work[w].step = f /\ work[w].open

Successor ==
  [compare |-> "session", session |-> "idle", password |-> "idle", rates |-> "idle",
   maintenance |-> "mode", mode |-> "idle",
   pins |-> "debounce", debounce |-> "gpio", gpio |-> "idle",
   getHostname |-> "getInterfaces", getInterfaces |-> "getDhcpd",
   hostname |-> "setHostname", setHostname |-> "interfaces", interfaces |-> "copy", copy |-> "dhcpd",
   dhcpd |-> "networking", networking |-> "isc", isc |-> "hostapd", hostapd |-> "idle",
   key |-> "load"]

After(w) ==
  CASE work[w].kind = "init" /\ work[w].step = "password" -> "session"
    [] work[w].kind = "start" /\ work[w].step = "dhcpd" -> "readKey"
    [] OTHER -> Successor[work[w].step]

\* The request is answered as done: its lock is released and its effect is on record.
Answer(w, saved) ==
  /\ mu' = IF mu = w THEN None ELSE mu
  /\ LET g == Group(work[w].kind) IN
     /\ latest' = IF g \notin Groups THEN latest
                  ELSE [latest EXCEPT ![g].ok = TRUE, ![g].saved = saved, ![g].val = work[w].val]
     /\ acked' = (acked \/ g = "password")
  /\ work' = [work EXCEPT ![w] = Idle]

Done(w) == Answer(w, TRUE)

GoOn(w) ==
  IF After(w) = "idle" THEN Done(w)
  ELSE /\ work' = [work EXCEPT ![w].step = After(w), ![w].open = FALSE]
       /\ UNCHANGED <<mu, latest, acked>>

\* An early return.
GiveUp(w) ==
  /\ work' = [work EXCEPT ![w] = Idle]
  /\ mu' = IF mu = w THEN None ELSE mu

\* Whatever goes on in the group when a request begins loses its claim to be alone.
Begins(w, g) ==
  latest' = [latest EXCEPT ![g] =
               [alone |-> \A v \in Workers \ {w} : Group(work[v].kind) # g,
                ok |-> FALSE, saved |-> FALSE, val |-> None]]

Fault == faults < MaxFaults /\ faults' = faults + 1

-----------------------------------------------------------------------------
(* os.WriteFile.                                                           *)

\* What w writes to its file; a start has made up the text of dhcpd.conf already.
Content(w) ==
  LET v == work[w].val
      f == work[w].step
  IN  CASE f = "hostname" -> v.hostname
        [] f = "interfaces" -> InterfacesFile(v)
        [] f \in {"copy", "dhcpd"} /\ w # Main -> DhcpdFile(v)
        [] OTHER -> v

\* Mutant: the file is opened without O_TRUNC.
OpenKeeping(w) ==
  /\ work[w].step \in Files /\ ~work[w].open
  /\ work' = [work EXCEPT ![w].open = TRUE]
  /\ UNCHANGED <<phase, file, memory, keys, running, bounds, history>>

Open(w) ==
  /\ work[w].step \in Files /\ ~work[w].open
  /\ file' = [file EXCEPT ![work[w].step] = Empty]
  /\ work' = [work EXCEPT ![w].open = TRUE]
  /\ UNCHANGED <<phase, memory, keys, running, bounds, history>>

\* Hashes are all of one length.
Written(f, v) ==
  IF file[f].is = "empty" \/ f = "password" THEN {Whole(v)} ELSE {Whole(v), Torn(v)}

WriteOut(w) ==
  LET f == work[w].step IN
  /\ f \in Files /\ work[w].open
  /\ \E c \in Written(f, Content(w)) : file' = [file EXCEPT ![f] = c]
  /\ suspect' = suspect \ {f}
  /\ GoOn(w)
  /\ UNCHANGED <<phase, mode, pins, key, sessions, keys, running, bounds, issued>>

\* A start that cannot write dhcpd.conf logs it and goes on; one that cannot write its key
\* ends the program.  Admins are told that rates are saved whatever became of the file,
\* and are shown the pins in use.
StartFails ==
  IF work[Main].step = "key" THEN GiveUp(Main) /\ phase' = "down"
  ELSE /\ work' = [work EXCEPT ![Main].step = "readKey", ![Main].open = FALSE]
       /\ UNCHANGED <<phase, mu>>

RequestFails(a) ==
  IF work[a].step \in {"rates", "gpio"} THEN Answer(a, FALSE)
  ELSE GiveUp(a) /\ UNCHANGED <<latest, acked>>

\* Opening, writing or a command fails.
Fail(w) ==
  LET step == work[w].step IN
  /\ step \in Files \cup Services \cup {"setHostname"}
  /\ Fault
  /\ suspect' = IF step \in Files THEN suspect \cup {IF w = Main THEN "dhcpd" ELSE step} ELSE suspect
  /\ \/ w = Main /\ StartFails /\ UNCHANGED <<latest, acked>>
     \/ w # Main /\ RequestFails(w) /\ UNCHANGED phase
  /\ UNCHANGED <<file, mode, pins, key, sessions, keys, running, requests, issued>>

-----------------------------------------------------------------------------
(* Logging in.                                                             *)

Request(a, kind, step, v) ==
  /\ phase = "serving" /\ ~Busy(a)
  /\ requests < MaxRequests /\ requests' = requests + 1
  /\ work' = [work EXCEPT ![a] = [kind |-> kind, step |-> step, open |-> FALSE, val |-> v]]

\* Mutant: a file that holds no password counts as none.
NoPasswordYet == file["password"].is # "whole"

\* PasswordFileExists is false.
FirstLogin == file["password"].is = "absent"

\* handleAdminLogin: without a password file the password typed becomes the password.
Login(a, p) ==
  \/ /\ FirstLogin
     /\ Request(a, "init", "password", p)
     /\ Begins(a, "password")
     /\ UNCHANGED <<phase, file, memory, keys, running, faults, issued, acked, suspect>>
  \/ /\ ~FirstLogin
     /\ Request(a, "login", "compare", p)
     /\ UNCHANGED <<phase, file, memory, keys, running, faults, history>>

Compare(a) ==
  /\ work[a].step = "compare"
  /\ IF file["password"] = Whole(work[a].val)
     THEN work' = [work EXCEPT ![a].step = "session"] /\ UNCHANGED mu
     ELSE GiveUp(a)
  /\ UNCHANGED <<phase, file, mode, pins, key, sessions, keys, running, bounds, history>>

CreateSession(a) ==
  /\ work[a].step = "session"
  /\ sessions < MaxSessions /\ sessions' = sessions + 1
  /\ Done(a)
  /\ UNCHANGED <<phase, file, mode, pins, key, keys, running, bounds, issued, suspect>>

\* A token expires or its admin logs out, which counts as a request.
EndSession ==
  /\ sessions > 0 /\ sessions' = sessions - 1
  /\ requests < MaxRequests /\ requests' = requests + 1
  /\ UNCHANGED <<phase, file, mode, mu, pins, key, keys, running, work, faults, history>>

-----------------------------------------------------------------------------
(* Requests of admins: requireAdmin looks for a session once.              *)

AdminRequest(a, kind, step, v) ==
  /\ sessions > 0
  /\ Request(a, kind, step, v)
  /\ Begins(a, Group(kind))
  /\ UNCHANGED <<phase, file, mode, pins, key, sessions, keys, running, faults, issued, acked, suspect>>

SetPassword(a, p) == AdminRequest(a, "password", "password", p) /\ UNCHANGED mu
SetRates(a, r) == AdminRequest(a, "rates", "rates", r) /\ UNCHANGED mu
SetGPIO(a, p) == AdminRequest(a, "gpio", "pins", p) /\ UNCHANGED mu

\* Mutant: Set without its lock.
SetModeUnlocked(a, m) == AdminRequest(a, "maintenance", "maintenance", m) /\ UNCHANGED mu

\* MaintenanceState.Set, from taking the lock.
SetMode(a, m) ==
  /\ AdminRequest(a, "maintenance", "maintenance", m)
  /\ mu = None /\ mu' = a

\* SetNetworkConfig leaves the hostname alone when it is given none.
FirstStep(cfg) == IF cfg.hostname = None THEN "interfaces" ELSE "hostname"

\* handleAdminNetworkConfig.
SetNetwork(a, r) ==
  LET cfg == ApplyRoleConfiguration(r.cfg, r.roles) IN
  AdminRequest(a, "network", FirstStep(cfg), cfg) /\ UNCHANGED mu

\* handleAdminNetworkRoles, which first reads the configuration in force.
SetRoles(a, roles) ==
  /\ AdminRequest(a, "roles", "getHostname",
       [roles |-> roles, hostname |-> None, interfaces |-> NoInterfaces])
  /\ UNCHANGED mu

\* One step that sets something in memory.
Set(a, step) ==
  /\ work[a].step = step
  /\ GoOn(a)
  /\ UNCHANGED <<phase, file, key, sessions, keys, running, bounds, issued, suspect>>

SetLiveMode(a) == Set(a, "mode") /\ mode' = work[a].val /\ UNCHANGED pins
SetDebounce(a) == Set(a, "debounce") /\ pins' = [pins EXCEPT !.debounce = work[a].val] /\ UNCHANGED mode

\* Reconfigure, which refuses while the acceptor is busy.
Reconfigure(a) ==
  \/ Set(a, "pins") /\ pins' = [pins EXCEPT !.pins = work[a].val] /\ UNCHANGED mode
  \/ /\ work[a].step = "pins" /\ GiveUp(a)
     /\ UNCHANGED <<phase, file, mode, pins, key, sessions, keys, running, bounds, history>>

-----------------------------------------------------------------------------
(* The network: reading the configuration in force, and the services.      *)

Text(f, nothing) == IF file[f].is \in {"whole", "torn"} THEN file[f].val ELSE nothing

\* GetNetworkConfig reads one file after the other.
Read(a, step, f, nothing) ==
  /\ work[a].step = step
  /\ work' = [work EXCEPT ![a].step = After(a), ![a].val[f] = Text(f, nothing)]
  /\ UNCHANGED <<phase, file, memory, keys, running, bounds, history>>

GetHostname(a) == Read(a, "getHostname", "hostname", None)
GetInterfaces(a) == Read(a, "getInterfaces", "interfaces", NoInterfaces)

GetDhcpd(a) ==
  LET v == work[a].val
      old == NetworkConfigOf(v.hostname, v.interfaces, Text("dhcpd", NoDhcpd))
      cfg == ApplyRoleConfiguration(old, v.roles) IN
  /\ work[a].step = "getDhcpd"
  /\ work' = [work EXCEPT ![a].step = FirstStep(cfg), ![a].val = cfg]
  /\ UNCHANGED <<phase, file, memory, keys, running, bounds, history>>

\* The commands of SetNetworkConfig: hostname, and the services that read their file anew.
Command(a, step, f) ==
  /\ work[a].step = step
  /\ running' = [running EXCEPT ![f] = IF f = "hostname" THEN Whole(work[a].val.hostname) ELSE file[f]]
  /\ GoOn(a)
  /\ UNCHANGED <<phase, file, mode, pins, key, sessions, keys, bounds, issued, suspect>>

\* hostapd's file is not written here.
RestartHostapd(a) ==
  /\ work[a].step = "hostapd"
  /\ GoOn(a)
  /\ UNCHANGED <<phase, file, mode, pins, key, sessions, keys, running, bounds, issued, suspect>>

Reload(a) ==
  \/ Command(a, "setHostname", "hostname")
  \/ Command(a, "networking", "interfaces")
  \/ Command(a, "isc", "dhcpd")
  \/ RestartHostapd(a)

-----------------------------------------------------------------------------
(* Start and end of the program.                                           *)

\* Only a start in hook mode looks after dhcpd.conf; FOSWVS_DHCP_MODE can say file_poll.
Start ==
  /\ phase = "down" /\ phase' = "starting"
  /\ \E step \in {"ensure", "readKey"} :
       /\ work' = [work EXCEPT ![Main] = [kind |-> "start", step |-> step, open |-> FALSE, val |-> None]]
       /\ step = "readKey" => requests < MaxRequests
       /\ requests' = IF step = "readKey" THEN requests + 1 ELSE requests
  /\ suspect' = {"dhcpd"}
  /\ UNCHANGED <<file, memory, keys, running, faults, issued, acked, latest>>

\* Mutant: one of hook and name servers is enough.
EnsuredByEither(text) == text.hook \/ text.dns

Ensured(text) == text.hook /\ text.dns

\* EnsureDHCPConfigWithHook.  dhcpd is not told of what it changes.  A file that cannot be
\* read is left alone.
Ensure ==
  LET text == Text("dhcpd", NoDhcpd)
      GoTo(step) == work' = [work EXCEPT ![Main].step = step] IN
  /\ work[Main].step = "ensure"
  /\ \/ Ensured(text) /\ GoTo("readKey") /\ suspect' = suspect \ {"dhcpd"} /\ UNCHANGED <<latest, faults>>
     \/ /\ ~Ensured(text)
        /\ work' = [work EXCEPT ![Main].step = "copy", ![Main].val = WithHook(text)]
        /\ Begins(Main, "network")
        /\ UNCHANGED <<suspect, faults>>
     \/ Fault /\ GoTo("readKey") /\ UNCHANGED <<suspect, latest>>
  /\ UNCHANGED <<phase, file, memory, keys, running, requests, issued, acked>>

\* Mutant: a new key at every start.
NeverUsable == FALSE

\* The file has the length of a key.
UsableKey == file["key"].is = "whole"

\* ReadOrCreateDeviceTokenSecret, up to the writing.  A key that cannot be read is replaced
\* like one that is not there, and its tokens with it: "Losing this file invalidates
\* every outstanding device token" (device_token.go:142).
ReadKey ==
  /\ work[Main].step = "readKey"
  /\ \/ /\ UsableKey
        /\ work' = [work EXCEPT ![Main].step = "load", ![Main].val = file["key"].val]
        /\ UNCHANGED <<keys, issued, faults>>
     \/ /\ work' = [work EXCEPT ![Main].step = "key", ![Main].val = keys + 1]
        /\ keys' = keys + 1
        /\ \/ ~UsableKey /\ UNCHANGED <<issued, faults>>
           \/ Fault /\ issued' = {}
  /\ UNCHANGED <<phase, file, memory, running, requests, acked, suspect, latest>>

\* Mutant: a mode that is not there is taken as it is.
LoadModeUnchecked == file["maintenance"].val

LoadMode == IF file["maintenance"].is = "whole" THEN file["maintenance"].val ELSE "off"
LoadPins == IF file["gpio"].is = "whole" THEN file["gpio"].val ELSE DefaultPins
LoadRates == IF file["rates"].is = "whole" THEN file["rates"].val ELSE DefaultRates

\* gpio.LoadConfig and NewMaintenanceState; then requests are served, and mintDeviceToken
\* gives every device that connects a token encrypted under the key.
Load ==
  /\ work[Main].step = "load"
  /\ key' = work[Main].val /\ mode' = LoadMode
  /\ pins' = [pins |-> LoadPins, debounce |-> LoadPins]
  /\ work' = [work EXCEPT ![Main] = Idle]
  /\ phase' = "serving"
  /\ issued' = issued \cup {work[Main].val}
  /\ UNCHANGED <<file, mu, sessions, keys, running, bounds, acked, suspect, latest>>

\* The program ends: what is in memory is lost.
Crash ==
  /\ phase # "down" /\ Fault
  /\ phase' = "down"
  /\ work' = [w \in Workers |-> Idle]
  /\ mode' = "off" /\ mu' = None /\ key' = 0 /\ sessions' = 0
  /\ pins' = [pins |-> DefaultPins, debounce |-> DefaultPins]
  /\ UNCHANGED <<file, keys, running, requests, history>>

-----------------------------------------------------------------------------
Serve(a) ==
  \/ Compare(a) \/ CreateSession(a)
  \/ SetLiveMode(a) \/ Reconfigure(a) \/ SetDebounce(a)
  \/ GetHostname(a) \/ GetInterfaces(a) \/ GetDhcpd(a) \/ Reload(a)

Arrive(a) ==
  \/ \E p \in Passwords : Login(a, p) \/ SetPassword(a, p)
  \/ \E r \in RateTables : SetRates(a, r)
  \/ \E p \in Pins : SetGPIO(a, p)
  \/ \E m \in Modes : SetMode(a, m)
  \/ \E r \in NetRequests : SetNetwork(a, r)
  \/ \E l \in RoleLists : SetRoles(a, l)

Next ==
  \/ \E a \in Admins : Arrive(a) \/ Serve(a)
  \/ \E w \in Workers : Open(w) \/ WriteOut(w) \/ Fail(w)
  \/ Start \/ Ensure \/ ReadKey \/ Load \/ Crash \/ EndSession

Spec == Init /\ [][Next]_vars

-----------------------------------------------------------------------------
(* Properties.                                                             *)

Quiet(g) == \A w \in Workers : Group(work[w].kind) # g
InForce(g) == phase = "serving" /\ Quiet(g) /\ latest[g].alone /\ latest[g].ok

TypeOK == SettingsTypeOK

\* The latest change of rates, pins or password that began alone, met no other and was
\* answered as done is what the program uses, also after a restart (handlers.go:192-220, 1079-1169,
\* gpio/config.go, auth.go:72-100).  Where the file could not be written, which the
\* answer does not tell (handlers.go:1112, 1159), the pins are in force up to the restart.
SettingsInForce ==
  /\ InForce("rates") /\ latest["rates"].saved => LoadRates = latest["rates"].val
  /\ InForce("gpio") => LET v == latest["gpio"].val IN
       /\ latest["gpio"].saved => LoadPins = v
       /\ latest["gpio"].saved \/ "gpio" \in suspect => pins = [pins |-> v, debounce |-> v]
  /\ InForce("password") => file["password"] = Whole(latest["password"].val)

\* "first password you enter there becomes the admin password" (README.md:149): once an admin
\* was told that the password is set, no login sets another, in the middle of a change
\* or after a crash in one as little as at other times (handlers.go:870).
OnlyFirstLoginInits ==
  [][\A a \in Admins : work[a].kind # "init" /\ work'[a].kind = "init" => ~acked]_vars

\* Between two changes, mode and file agree, whatever overlapped, unless writing the file
\* failed: a lockdown outlives a restart (maintenance.go:76-92).
ModeSurvives ==
  phase = "serving" /\ mu = None /\ "maintenance" \notin suspect => LoadMode = mode

\* Every token handed out can be read with the key in use and the one a restart
\* finds, also when the first start died while it wrote the key, unless the key could
\* not be read at a start (device_token.go:139-163).
TokensStayValid ==
  phase = "serving" => file["key"] = Whole(key) /\ issued \subseteq {key}

\* Once a start in hook mode has read dhcpd.conf, or anybody has written it, it tells dhcpd
\* to call the hook while the program serves, whatever requests overlap, unless the
\* latest write failed (config.go:191-270, 438-503).
HookInstalled ==
  phase = "serving" /\ "dhcpd" \notin suspect /\ (\A w \in Workers : ~Writing(w, "dhcpd")) =>
    Text("dhcpd", NoDhcpd).hook

\* After a change of the network that began alone, met no other and succeeded, files and
\* services agree, and the router dhcpd tells clients is the address of the
\* primary interface: "Must match the static IP given to the primary interface" (config.go:273-305, 451).
NetworkInForce ==
  InForce("network") =>
    LET cfg == latest["network"].val
        here == file["interfaces"].val.ifaces IN
    /\ \A f \in DOMAIN running :
         (f = "hostname" => cfg.hostname # None) => running[f] = file[f] /\ file[f].is = "whole"
    /\ file["copy"] = file["dhcpd"]
    /\ cfg.primary \in DOMAIN here /\ here[cfg.primary].ip # None =>
         file["dhcpd"].val.routers = here[cfg.primary].ip

\* AmountToMB, with the rates in force, is what taking the largest coins first gives
\* (handlers.go:222-243).
CreditIsGreedy ==
  phase = "serving" /\ (\A w \in Workers : ~Busy(w)) =>
    \A n \in 0..MaxAmount : AmountToMB(LoadRates, n) = GreedyMB(LoadRates, n)
=============================================================================
