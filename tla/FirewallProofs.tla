--------------------------- MODULE FirewallProofs ---------------------------
(***************************************************************************)
(* Safety of the firewall for any number of clients, goroutines, failed    *)
(* commands, crashes and bytes.                                            *)
(*                                                                         *)
(* Only the owner of the mutex issues commands, so what a check of the     *)
(* owner found stays true until its next command (Knows).  RemoveClient    *)
(* takes the uplink rules away before the downlink rules, so the two       *)
(* counts are related only outside its last two loops (Balance).           *)
(***************************************************************************)
EXTENDS Firewall, TLAPS

AddSrcOn == {"addSrcCheck", "addSrc", "addDst", "addDone"}
RemoveFwd == {"remSrcCheck", "remSrc", "remDstCheck", "remDst"}

\* What the owner of the mutex knows about the rules of its IP at each label.
KnowsNow(t) ==
  LET rule == rules[arg[t]] IN
  /\ pc[t] = "addNat" => rule["nat"] <= faults
  /\ pc[t] \in AddSrcOn => rule["nat"] > 0
  /\ pc[t] = "addSrc" => rule["src"] <= faults /\ rule["dst"] <= faults
  /\ pc[t] = "addDst" => rule["dst"] <= faults
  /\ pc[t] \in {"addDst", "addDone"} => rule["src"] > 0
  /\ pc[t] = "remNat" => rule["nat"] > 0
  /\ pc[t] = "remSrc" => rule["src"] > 0
  /\ pc[t] = "remDst" => rule["dst"] > 0

Knows == \A t \in Threads : KnowsNow(t)

\* An operation on an IP has one.
ArgIsIP == \A t \in Threads :
  pc[t] \notin {"idle", "cntLock", "cntRead", "cntDone", "failed"} => arg[t] \in IPs

\* Outside RemoveClient's last two loops a downlink rule beyond the uplink rules
\* is the trace of a fault.
Balanced(ip) == rules[ip]["dst"] <= rules[ip]["src"] + faults

Balance == \A ip \in IPs :
  Balanced(ip) \/ \E t \in Threads : pc[t] \in RemoveFwd /\ arg[t] = ip

IInv == TypeOK /\ MutualExclusion /\ ArgIsIP /\ DuplicatesNeedFaults /\ Knows /\ Balance

\* The labels of AddClient and RemoveClient inside the critical section.
Inside == Holding \ {"cntRead", "cntDone", "failed"}

-----------------------------------------------------------------------------
LEMMA InitIInv == Init => IInv
  BY FirewallAssumption
  DEF Init, IInv, TypeOK, MutualExclusion, ArgIsIP, DuplicatesNeedFaults, Knows, KnowsNow,
      Balance, Balanced, Rules, Labels, Holding, AddSrcOn, RemoveFwd

\* The owner t of the mutex moves to label l; every other thread is outside the
\* critical section and knows nothing, so only t's knowledge has to be shown.
LEMMA OwnerMoves ==
  ASSUME IInv, NEW t \in Threads, pc[t] \in Holding, NEW l \in Holding, Goto(t, l),
         mu' = mu, arg' = arg, arg[t] \in IPs, KnowsNow(t)'
  PROVE  MutualExclusion' /\ ArgIsIP' /\ Knows'
<1>1. ASSUME NEW u \in Threads, u # t PROVE pc[u] \notin Holding /\ pc'[u] = pc[u]
  BY <1>1 DEF IInv, TypeOK, MutualExclusion, Goto
<1>2. pc'[t] = l
  BY DEF IInv, TypeOK, Goto
<1>3. MutualExclusion'
  BY <1>1, <1>2 DEF IInv, MutualExclusion
<1>4. ArgIsIP'
  BY <1>1, <1>2 DEF IInv, ArgIsIP
<1>5. ASSUME NEW u \in Threads, u # t PROVE KnowsNow(u)'
  BY <1>1, <1>5 DEF KnowsNow, Holding, Labels, AddSrcOn
<1> QED
  BY <1>3, <1>4, <1>5 DEF Knows

\* The owner of the mutex leaves the rules of every other IP alone.
LEMMA BalanceStep ==
  ASSUME IInv, NEW t \in Threads, pc[t] \in Holding, NEW l \in Holding, Goto(t, l),
         arg' = arg, faults' \in {faults, faults + 1},
         \A ip \in IPs : ip # arg[t] => rules'[ip] = rules[ip],
         arg[t] \in IPs => Balanced(arg[t])' \/ l \in RemoveFwd
  PROVE  Balance'
<1> SUFFICES ASSUME NEW ip \in IPs
             PROVE  Balanced(ip)' \/ \E u \in Threads : pc'[u] \in RemoveFwd /\ arg'[u] = ip
  BY DEF Balance
<1>1. pc'[t] = l
  BY DEF IInv, TypeOK, Goto
<1>2. CASE ip = arg[t]
  BY <1>1, <1>2
<1>3. CASE ip # arg[t]
  <2>1. ~\E u \in Threads : pc[u] \in RemoveFwd /\ arg[u] = ip
    BY <1>3 DEF IInv, MutualExclusion, RemoveFwd, Holding, Labels
  <2>2. Balanced(ip)
    BY <2>1 DEF IInv, Balance
  <2> QED
    BY <1>3, <2>2 DEF Balanced, IInv, TypeOK, Rules
<1> QED
  BY <1>2, <1>3

\* A check changes no rule.
LEMMA CheckStep ==
  ASSUME IInv, NEW t \in Threads, NEW here \in Inside, NEW r \in Rules,
         NEW yes \in Inside, NEW no \in Inside, Check(t, here, r, yes, no),
         KnowsNow(t)', Balanced(arg[t])' \/ pc'[t] \in RemoveFwd
  PROVE  IInv'
<1> DEFINE l == pc'[t]
<1>1. pc[t] \in Holding /\ arg[t] \in IPs
  BY DEF Check, IInv, ArgIsIP, Inside, Holding, Labels
<1>2. l \in Inside /\ Goto(t, l) /\ faults' \in {faults, faults + 1} /\ faults' <= MaxFaults
  BY FirewallAssumption DEF Check, Goto, IInv, TypeOK
<1>3. UNCHANGED <<rules, counter, mu, arg, carried, billed>>
  BY DEF Check
<1>4. MutualExclusion' /\ ArgIsIP' /\ Knows'
  BY <1>1, <1>2, <1>3, OwnerMoves DEF Inside
<1>5. Balance'
  BY <1>1, <1>2, <1>3, BalanceStep DEF Inside
<1>6. TypeOK'
  BY <1>2, <1>3, FirewallAssumption DEF IInv, TypeOK, Goto, Inside, Holding, Labels
<1>7. DuplicatesNeedFaults'
  BY <1>2, <1>3 DEF IInv, DuplicatesNeedFaults, TypeOK
<1> QED
  BY <1>4, <1>5, <1>6, <1>7 DEF IInv

\* A command that changes a rule.
LEMMA ChangeStep ==
  ASSUME IInv, NEW t \in Threads, NEW here \in Inside, NEW r \in Rules, NEW delta \in {-1, 1},
         NEW next \in Inside, Change(t, here, r, delta, next),
         rules[arg[t]][r] + delta \in 0 .. 1 + faults,
         KnowsNow(t)', Balanced(arg[t])' \/ pc'[t] \in RemoveFwd
  PROVE  IInv'
<1> DEFINE l == pc'[t]
<1>1. pc[t] \in Holding /\ arg[t] \in IPs
  BY DEF Change, IInv, ArgIsIP, Inside, Holding, Labels
<1>2. l \in Inside \cup {"failed"} /\ Goto(t, l) /\ faults' \in {faults, faults + 1} /\ faults' <= MaxFaults
  BY FirewallAssumption DEF Change, Goto, IInv, TypeOK
<1>3. UNCHANGED <<mu, arg, carried, billed>>
  BY DEF Change
<1>4. l \in Holding
  BY <1>2 DEF Inside, Holding, Labels
<1>5. MutualExclusion' /\ ArgIsIP' /\ Knows'
  BY <1>1, <1>2, <1>3, <1>4, OwnerMoves
<1> DEFINE ip0 == arg[t]
<1>a. rules[ip0] \in [Rules -> Nat] /\ rules \in [IPs -> [Rules -> Nat]]
  BY <1>1 DEF IInv, TypeOK
<1>6. /\ rules' \in [IPs -> [Rules -> Nat]]
      /\ \A ip \in IPs : ip # ip0 => rules'[ip] = rules[ip]
      /\ \A q \in Rules : rules'[ip0][q] = rules[ip0][q] \/ rules'[ip0][q] \in 0 .. 1 + faults
  <2>1. CASE rules' = rules
    BY <1>a, <2>1
  <2>2. CASE rules' = [rules EXCEPT ![ip0][r] = @ + delta]
    <3>1. rules' = [rules EXCEPT ![ip0] = [rules[ip0] EXCEPT ![r] = rules[ip0][r] + delta]]
      BY <1>1, <1>a, <2>2
    <3>2. rules[ip0][r] + delta \in Nat /\ rules[ip0][r] + delta \in 0 .. 1 + faults
      BY FirewallAssumption DEF IInv, TypeOK
    <3>3. [rules[ip0] EXCEPT ![r] = rules[ip0][r] + delta] \in [Rules -> Nat]
      BY <1>a, <3>2
    <3> QED
      BY <1>1, <1>a, <3>1, <3>2, <3>3
  <2> QED
    BY <2>1, <2>2 DEF Change
<1>7. Balance'
  BY <1>1, <1>2, <1>3, <1>4, <1>6, BalanceStep
<1>8. counter' \in [IPs -> [Rules -> Nat]]
  <2>1. counter' = counter \/ counter' = [counter EXCEPT ![ip0] = [counter[ip0] EXCEPT ![r] = 0]]
    BY <1>1 DEF Change, IInv, TypeOK
  <2>2. counter \in [IPs -> [Rules -> Nat]] /\ [counter[ip0] EXCEPT ![r] = 0] \in [Rules -> Nat]
    BY <1>1 DEF IInv, TypeOK
  <2> QED
    BY <1>1, <2>1, <2>2
<1>9. TypeOK'
  BY <1>2, <1>3, <1>4, <1>6, <1>8, FirewallAssumption DEF IInv, TypeOK, Goto, Holding
<1>10. DuplicatesNeedFaults'
  <2> SUFFICES ASSUME NEW ip \in IPs, NEW q \in Rules PROVE rules'[ip][q] <= 1 + faults'
    BY DEF DuplicatesNeedFaults
  <2>1. rules[ip][q] <= 1 + faults /\ rules[ip][q] \in Nat /\ faults \in Nat
    BY FirewallAssumption DEF IInv, TypeOK, DuplicatesNeedFaults
  <2>2. rules'[ip][q] = rules[ip][q] \/ rules'[ip][q] \in 0 .. 1 + faults
    BY <1>1, <1>6
  <2> QED
    BY <1>2, <2>1, <2>2
<1> QED
  BY <1>5, <1>7, <1>9, <1>10 DEF IInv

\* A call starts outside the critical section and knows nothing yet.
LEMMA CallStep ==
  ASSUME IInv, NEW t \in Threads, NEW ip \in IPs \cup {NoIP}, NEW l \in {"addLock", "remLock", "cntLock"},
         Call(t, ip, l), l = "cntLock" \/ ip \in IPs
  PROVE  IInv'
<1>1. /\ pc[t] = "idle" /\ pc' = [pc EXCEPT ![t] = l] /\ arg' = [arg EXCEPT ![t] = ip]
      /\ UNCHANGED <<rules, counter, carried, mu, faults, billed>>
  BY DEF Call, kernel, Goto
<1>2. TypeOK'
  BY <1>1 DEF IInv, TypeOK, Labels
<1>3. MutualExclusion' /\ ArgIsIP'
  BY <1>1 DEF IInv, TypeOK, MutualExclusion, ArgIsIP, Holding, Labels
<1>4. DuplicatesNeedFaults'
  BY <1>1 DEF IInv, DuplicatesNeedFaults
<1>5. Knows'
  BY <1>1 DEF IInv, TypeOK, Knows, KnowsNow, AddSrcOn
<1>6. Balance'
  BY <1>1 DEF IInv, TypeOK, Balance, Balanced, RemoveFwd
<1> QED
  BY <1>2, <1>3, <1>4, <1>5, <1>6 DEF IInv

LEMMA LockStep ==
  ASSUME IInv, NEW t \in Threads,
         NEW here \in {"addLock", "remLock", "cntLock"}, NEW l \in {"addNatCheck", "remNatCheck", "cntRead"},
         Lock(t, here, l), (here = "cntLock") <=> (l = "cntRead")
  PROVE  IInv'
<1>1. /\ pc[t] = here /\ mu = NoThread /\ mu' = t /\ pc' = [pc EXCEPT ![t] = l]
      /\ UNCHANGED <<rules, counter, carried, arg, faults, billed>>
  BY DEF Lock, kernel, Goto
<1>2. \A u \in Threads : pc[u] \notin Holding
  BY <1>1, FirewallAssumption DEF IInv, MutualExclusion
<1>3. TypeOK'
  BY <1>1 DEF IInv, TypeOK, Labels
<1>4. MutualExclusion' /\ ArgIsIP'
  BY <1>1, <1>2 DEF IInv, TypeOK, MutualExclusion, ArgIsIP, Holding, Labels
<1>5. DuplicatesNeedFaults'
  BY <1>1 DEF IInv, DuplicatesNeedFaults
<1>6. Knows'
  BY <1>1, <1>2 DEF IInv, TypeOK, Knows, KnowsNow, AddSrcOn
<1>7. Balance'
  BY <1>1, <1>2 DEF IInv, TypeOK, Balance, Balanced, RemoveFwd, Holding, Labels
<1> QED
  BY <1>3, <1>4, <1>5, <1>6, <1>7 DEF IInv

\* An operation that releases the mutex has left RemoveClient's loops behind.
LEMMA UnlockStep ==
  ASSUME IInv, NEW t \in Threads, Unlock(t)
  PROVE  IInv'
<1>1. /\ pc[t] \in {"addDone", "remDone", "cntDone", "failed"} /\ mu' = NoThread
      /\ pc' = [pc EXCEPT ![t] = "idle"] /\ arg' = [arg EXCEPT ![t] = NoIP]
      /\ UNCHANGED <<rules, counter, carried, faults, billed>>
  BY DEF Unlock, kernel, Goto
<1>2. \A u \in Threads : u # t => pc[u] \notin Holding
  BY <1>1 DEF IInv, MutualExclusion, Holding, Labels
<1>3. TypeOK'
  BY <1>1 DEF IInv, TypeOK, Labels
<1>4. MutualExclusion' /\ ArgIsIP'
  BY <1>1, <1>2, FirewallAssumption DEF IInv, TypeOK, MutualExclusion, ArgIsIP, Holding, Labels
<1>5. DuplicatesNeedFaults'
  BY <1>1 DEF IInv, DuplicatesNeedFaults
<1>6. Knows'
  BY <1>1, <1>2 DEF IInv, TypeOK, Knows, KnowsNow, AddSrcOn
<1>7. Balance'
  BY <1>1, <1>2 DEF IInv, TypeOK, Balance, Balanced, RemoveFwd, Holding, Labels
<1> QED
  BY <1>3, <1>4, <1>5, <1>6, <1>7 DEF IInv

-----------------------------------------------------------------------------
\* What the invariant says of the thread inside AddClient or RemoveClient.
LEMMA OwnerFacts ==
  ASSUME IInv, NEW t \in Threads, pc[t] \in Inside
  PROVE  /\ arg[t] \in IPs
         /\ \A r \in Rules : rules[arg[t]][r] \in 0 .. 1 + faults
         /\ Balanced(arg[t]) \/ pc[t] \in RemoveFwd
<1>1. arg[t] \in IPs
  BY DEF IInv, ArgIsIP, Inside, Holding, Labels
<1>2. \A r \in Rules : rules[arg[t]][r] \in 0 .. 1 + faults
  BY <1>1, FirewallAssumption DEF IInv, TypeOK, DuplicatesNeedFaults
<1>3. Balanced(arg[t]) \/ pc[t] \in RemoveFwd
  BY <1>1 DEF IInv, Balance, MutualExclusion, Inside, Holding, Labels, RemoveFwd
<1> QED
  BY <1>1, <1>2, <1>3

LEMMA AddClientStep ==
  ASSUME IInv, NEW t \in Threads, AddClient(t)
  PROVE  IInv'
<1> USE FirewallAssumption DEF Inside, Holding, Labels, Rules
<1>0. /\ pc \in [Threads -> Labels] /\ faults \in Nat /\ MaxFaults \in Nat
      /\ KnowsNow(t)
      /\ pc[t] \in Inside => /\ arg[t] \in IPs
                             /\ rules \in [IPs -> [Rules -> Nat]]
                             /\ \A r \in Rules : rules[arg[t]][r] \in 0 .. 1 + faults
                             /\ Balanced(arg[t]) \/ pc[t] \in RemoveFwd
  BY OwnerFacts DEF IInv, TypeOK, Knows
<1>1. CASE \E ip \in IPs : Call(t, ip, "addLock")
  BY <1>1, CallStep
<1>2. CASE Lock(t, "addLock", "addNatCheck")
  BY <1>2, LockStep
<1>3. CASE Check(t, "addNatCheck", "nat", "addSrcCheck", "addNat")
  <2>1. KnowsNow(t)' /\ (Balanced(arg[t])' \/ pc'[t] \in RemoveFwd)
    BY <1>0, <1>3 DEF Check, Goto, Present, KnowsNow, Balanced, AddSrcOn, RemoveFwd
  <2> QED
    BY <1>3, <2>1, CheckStep
<1>4. CASE Change(t, "addNat", "nat", 1, "addSrcCheck")
  <2>1. rules[arg[t]]["nat"] + (1) \in 0 .. 1 + faults
    BY <1>0, <1>4 DEF Change, KnowsNow
  <2>2. KnowsNow(t)' /\ (Balanced(arg[t])' \/ pc'[t] \in RemoveFwd)
    BY <1>0, <1>4 DEF Change, Goto, KnowsNow, Balanced, AddSrcOn, RemoveFwd
  <2> QED
    BY <1>4, <2>1, <2>2, ChangeStep
<1>5. CASE Check(t, "addSrcCheck", "src", "addDone", "addSrc")
  <2>1. KnowsNow(t)' /\ (Balanced(arg[t])' \/ pc'[t] \in RemoveFwd)
    BY <1>0, <1>5 DEF Check, Goto, Present, KnowsNow, Balanced, AddSrcOn, RemoveFwd
  <2> QED
    BY <1>5, <2>1, CheckStep
<1>6. CASE Change(t, "addSrc", "src", 1, "addDst")
  <2>1. rules[arg[t]]["src"] + (1) \in 0 .. 1 + faults
    BY <1>0, <1>6 DEF Change, KnowsNow
  <2>2. KnowsNow(t)' /\ (Balanced(arg[t])' \/ pc'[t] \in RemoveFwd)
    BY <1>0, <1>6 DEF Change, Goto, KnowsNow, Balanced, AddSrcOn, RemoveFwd
  <2> QED
    BY <1>6, <2>1, <2>2, ChangeStep
<1>7. CASE Change(t, "addDst", "dst", 1, "addDone")
  <2>1. rules[arg[t]]["dst"] + (1) \in 0 .. 1 + faults
    BY <1>0, <1>7 DEF Change, KnowsNow
  <2>2. KnowsNow(t)' /\ (Balanced(arg[t])' \/ pc'[t] \in RemoveFwd)
    BY <1>0, <1>7 DEF Change, Goto, KnowsNow, Balanced, AddSrcOn, RemoveFwd
  <2> QED
    BY <1>7, <2>1, <2>2, ChangeStep
<1> QED
  BY <1>1, <1>2, <1>3, <1>4, <1>5, <1>6, <1>7 DEF AddClient

LEMMA RemoveClientStep ==
  ASSUME IInv, NEW t \in Threads, RemoveClient(t)
  PROVE  IInv'
<1> USE FirewallAssumption DEF Inside, Holding, Labels, Rules
<1>0. /\ pc \in [Threads -> Labels] /\ faults \in Nat /\ MaxFaults \in Nat
      /\ KnowsNow(t)
      /\ pc[t] \in Inside => /\ arg[t] \in IPs
                             /\ rules \in [IPs -> [Rules -> Nat]]
                             /\ \A r \in Rules : rules[arg[t]][r] \in 0 .. 1 + faults
                             /\ Balanced(arg[t]) \/ pc[t] \in RemoveFwd
  BY OwnerFacts DEF IInv, TypeOK, Knows
<1>1. CASE \E ip \in IPs : Call(t, ip, "remLock")
  BY <1>1, CallStep
<1>2. CASE Lock(t, "remLock", "remNatCheck")
  BY <1>2, LockStep
<1>3. CASE Check(t, "remNatCheck", "nat", "remNat", "remSrcCheck")
  <2>1. KnowsNow(t)' /\ (Balanced(arg[t])' \/ pc'[t] \in RemoveFwd)
    BY <1>0, <1>3 DEF Check, Goto, Present, KnowsNow, Balanced, AddSrcOn, RemoveFwd
  <2> QED
    BY <1>3, <2>1, CheckStep
<1>4. CASE Change(t, "remNat", "nat", -1, "remNatCheck")
  <2>1. rules[arg[t]]["nat"] + (-1) \in 0 .. 1 + faults
    BY <1>0, <1>4 DEF Change, KnowsNow
  <2>2. KnowsNow(t)' /\ (Balanced(arg[t])' \/ pc'[t] \in RemoveFwd)
    BY <1>0, <1>4 DEF Change, Goto, KnowsNow, Balanced, AddSrcOn, RemoveFwd
  <2> QED
    BY <1>4, <2>1, <2>2, ChangeStep
<1>5. CASE Check(t, "remSrcCheck", "src", "remSrc", "remDstCheck")
  <2>1. KnowsNow(t)' /\ (Balanced(arg[t])' \/ pc'[t] \in RemoveFwd)
    BY <1>0, <1>5 DEF Check, Goto, Present, KnowsNow, Balanced, AddSrcOn, RemoveFwd
  <2> QED
    BY <1>5, <2>1, CheckStep
<1>6. CASE Change(t, "remSrc", "src", -1, "remSrcCheck")
  <2>1. rules[arg[t]]["src"] + (-1) \in 0 .. 1 + faults
    BY <1>0, <1>6 DEF Change, KnowsNow
  <2>2. KnowsNow(t)' /\ (Balanced(arg[t])' \/ pc'[t] \in RemoveFwd)
    BY <1>0, <1>6 DEF Change, Goto, KnowsNow, Balanced, AddSrcOn, RemoveFwd
  <2> QED
    BY <1>6, <2>1, <2>2, ChangeStep
<1>7. CASE Check(t, "remDstCheck", "dst", "remDst", "remDone")
  <2>1. KnowsNow(t)' /\ (Balanced(arg[t])' \/ pc'[t] \in RemoveFwd)
    BY <1>0, <1>7 DEF Check, Goto, Present, KnowsNow, Balanced, AddSrcOn, RemoveFwd
  <2> QED
    BY <1>7, <2>1, CheckStep
<1>8. CASE Change(t, "remDst", "dst", -1, "remDstCheck")
  <2>1. rules[arg[t]]["dst"] + (-1) \in 0 .. 1 + faults
    BY <1>0, <1>8 DEF Change, KnowsNow
  <2>2. KnowsNow(t)' /\ (Balanced(arg[t])' \/ pc'[t] \in RemoveFwd)
    BY <1>0, <1>8 DEF Change, Goto, KnowsNow, Balanced, AddSrcOn, RemoveFwd
  <2> QED
    BY <1>8, <2>1, <2>2, ChangeStep
<1> QED
  BY <1>1, <1>2, <1>3, <1>4, <1>5, <1>6, <1>7, <1>8 DEF RemoveClient
LEMMA GetForwardByteCountersStep ==
  ASSUME IInv, NEW t \in Threads, GetForwardByteCounters(t)
  PROVE  IInv'
<1>1. CASE Call(t, NoIP, "cntLock")
  BY <1>1, CallStep
<1>2. CASE Lock(t, "cntLock", "cntRead")
  BY <1>2, LockStep
<1>3. CASE ReadCounters(t)
  <2>1. /\ pc[t] = "cntRead" /\ pc' = [pc EXCEPT ![t] = "cntDone"]
        /\ faults' \in {faults, faults + 1} /\ faults' \in 0 .. MaxFaults
        /\ counter' \in [IPs -> [Rules -> Nat]] /\ billed' \in [IPs -> Nat]
        /\ UNCHANGED <<rules, carried, mu, arg>>
    BY <1>3, FirewallAssumption DEF ReadCounters, Goto, IInv, TypeOK, Rules
  <2>2. TypeOK'
    BY <2>1 DEF IInv, TypeOK, Labels
  <2>3. MutualExclusion' /\ ArgIsIP'
    BY <2>1 DEF IInv, TypeOK, MutualExclusion, ArgIsIP, Holding, Labels
  <2>4. Knows'
    BY <2>1 DEF IInv, TypeOK, MutualExclusion, Knows, KnowsNow, AddSrcOn, Holding, Labels
  <2>5. \A ip \in IPs, r \in Rules : rules[ip][r] \in Nat
    BY DEF IInv, TypeOK
  <2>6. faults \in Nat
    BY FirewallAssumption DEF IInv, TypeOK
  <2>7. DuplicatesNeedFaults'
    BY <2>1, <2>5, <2>6 DEF IInv, DuplicatesNeedFaults
  <2>8. ~\E u \in Threads : pc[u] \in RemoveFwd
    BY <2>1 DEF IInv, MutualExclusion, RemoveFwd, Holding, Labels
  <2>9. Balance'
    BY <2>1, <2>5, <2>6, <2>8 DEF IInv, Balance, Balanced, Rules
  <2> QED
    BY <2>2, <2>3, <2>4, <2>7, <2>9 DEF IInv
<1> QED
  BY <1>1, <1>2, <1>3 DEF GetForwardByteCounters

LEMMA ForwardStep ==
  ASSUME IInv, NEW ip \in IPs, NEW r \in Rules, Forward(ip, r)
  PROVE  IInv'
<1>1. /\ carried' \in [IPs -> 0 .. MaxBytes] /\ counter' \in [IPs -> [Rules -> Nat]]
      /\ UNCHANGED <<rules, mu, pc, arg, faults, billed>>
  BY FirewallAssumption DEF Forward, IInv, TypeOK
<1> QED
  BY <1>1 DEF IInv, TypeOK, MutualExclusion, ArgIsIP, DuplicatesNeedFaults, Knows, KnowsNow, Balance, Balanced

\* After a crash no operation is under way; the rules may be out of balance by the
\* one rule that the crash counts as a fault.
LEMMA CrashStep ==
  ASSUME IInv, Crash
  PROVE  IInv'
<1>1. /\ faults' = faults + 1 /\ faults' \in 0 .. MaxFaults /\ mu' = NoThread
      /\ pc' = [t \in Threads |-> "idle"] /\ arg' = [t \in Threads |-> NoIP]
      /\ UNCHANGED <<rules, counter, carried, billed>>
  BY FirewallAssumption DEF Crash, kernel, IInv, TypeOK
<1>2. TypeOK' /\ MutualExclusion' /\ ArgIsIP' /\ Knows'
  BY <1>1, FirewallAssumption
  DEF IInv, TypeOK, MutualExclusion, ArgIsIP, Knows, KnowsNow, Labels, Holding, AddSrcOn
<1>3. \A ip \in IPs : rules[ip]["src"] \in Nat /\ rules[ip]["dst"] \in Nat /\ rules[ip]["dst"] <= 1 + faults
  BY DEF IInv, TypeOK, DuplicatesNeedFaults, Rules
<1>4. DuplicatesNeedFaults' /\ Balance'
  BY <1>1, <1>3, FirewallAssumption DEF IInv, TypeOK, DuplicatesNeedFaults, Balance, Balanced, Rules
<1> QED
  BY <1>2, <1>4 DEF IInv

LEMMA StepIInv == IInv /\ [Next]_vars => IInv'
<1> SUFFICES ASSUME IInv, [Next]_vars PROVE IInv'
  OBVIOUS
<1>1. CASE UNCHANGED vars
  BY <1>1 DEF vars, IInv, TypeOK, MutualExclusion, ArgIsIP, DuplicatesNeedFaults, Knows, KnowsNow, Balance, Balanced
<1>2. ASSUME NEW t \in Threads, Step(t) PROVE IInv'
  BY <1>2, AddClientStep, RemoveClientStep, GetForwardByteCountersStep, UnlockStep DEF Step
<1>3. ASSUME NEW ip \in IPs, NEW r \in Rules, Forward(ip, r) PROVE IInv'
  BY <1>3, ForwardStep
<1>4. CASE Crash
  BY <1>4, CrashStep
<1> QED
  BY <1>1, <1>2, <1>3, <1>4 DEF Next

THEOREM Inductive == Spec => []IInv
<1>1. Init /\ [][Next]_vars => []IInv
  BY InitIInv, StepIInv, PTL
<1> QED
  BY <1>1, PTL DEF Spec

-----------------------------------------------------------------------------
\* The variables stay within their types, whatever fails.
THEOREM TypeCorrect == Spec => []TypeOK
  BY Inductive, PTL DEF IInv

\* At most one goroutine is inside the critical section of IPT.mu, and it owns it.
THEOREM Exclusion == Spec => []MutualExclusion
  BY Inductive, PTL DEF IInv

\* Rules accumulate only as fast as commands fail or the program crashes.
THEOREM Duplicates == Spec => []DuplicatesNeedFaults
  BY Inductive, PTL DEF IInv

\* AddClient never reports success without a working uplink.
THEOREM Uplink == Spec => []AddedClientHasUplink
<1>1. IInv => AddedClientHasUplink
  BY DEF IInv, Knows, KnowsNow, AddSrcOn, AddedClientHasUplink, Present
<1> QED
  BY <1>1, Inductive, PTL

\* What is reported was forwarded: reading moves bytes from the counters to the
\* bill, and deleting a rule only loses some.
THEOREM Billing == Spec => []NeverOverbilled
<1>1. Init => NeverOverbilled
  BY DEF Init, NeverOverbilled, Rules
<1>2. IInv /\ NeverOverbilled /\ [Next]_vars => NeverOverbilled'
  <2> SUFFICES ASSUME IInv, NeverOverbilled, [Next]_vars, NEW ip \in IPs
               PROVE  (billed[ip] + counter[ip]["src"] + counter[ip]["dst"] <= carried[ip])'
    BY DEF NeverOverbilled
  <2>0. /\ counter \in [IPs -> [Rules -> Nat]] /\ billed \in [IPs -> Nat] /\ carried \in [IPs -> Nat]
        /\ billed[ip] + counter[ip]["src"] + counter[ip]["dst"] <= carried[ip]
        /\ counter[ip]["src"] \in Nat /\ counter[ip]["dst"] \in Nat /\ billed[ip] \in Nat /\ carried[ip] \in Nat
    BY FirewallAssumption DEF IInv, TypeOK, NeverOverbilled, Rules
  <2>1. CASE UNCHANGED <<counter, billed, carried>>
    BY <2>0, <2>1
  <2>2. ASSUME NEW t \in Threads, NEW here, NEW r \in Rules, NEW delta, NEW next,
               Change(t, here, r, delta, next)
        PROVE  (billed[ip] + counter[ip]["src"] + counter[ip]["dst"] <= carried[ip])'
    <3>1. UNCHANGED <<billed, carried>>
      BY <2>2 DEF Change
    <3>2. \A q \in Rules : counter'[ip][q] = counter[ip][q] \/ counter'[ip][q] = 0
      BY <2>0, <2>2 DEF Change
    <3> QED
      BY <2>0, <3>1, <3>2 DEF Rules
  <2>3. ASSUME NEW t \in Threads, ReadCounters(t)
        PROVE  (billed[ip] + counter[ip]["src"] + counter[ip]["dst"] <= carried[ip])'
    BY <2>0, <2>3 DEF ReadCounters, Rules
  <2>4. ASSUME NEW i \in IPs, NEW r \in Rules, Forward(i, r)
        PROVE  (billed[ip] + counter[ip]["src"] + counter[ip]["dst"] <= carried[ip])'
    <3>1. /\ carried' = [carried EXCEPT ![i] = @ + 1] /\ r \in {"src", "dst"} /\ billed' = billed
          /\ counter' = [counter EXCEPT ![i][r] = @ + 1]
      BY <2>4 DEF Forward, Rules
    <3>2. counter[i] \in [Rules -> Nat]
      BY <2>0
    <3>3. CASE i = ip
      <4>1. carried'[ip] = carried[ip] + 1
        BY <2>0, <3>1, <3>3
      <4>2. \/ counter'[ip]["src"] = counter[ip]["src"] + 1 /\ counter'[ip]["dst"] = counter[ip]["dst"]
            \/ counter'[ip]["src"] = counter[ip]["src"] /\ counter'[ip]["dst"] = counter[ip]["dst"] + 1
        BY <2>0, <3>1, <3>2, <3>3 DEF Rules
      <4> QED
        BY <2>0, <3>1, <4>1, <4>2
    <3>4. CASE i # ip
      BY <2>0, <3>1, <3>4
    <3> QED
      BY <3>3, <3>4
  <2>5. ASSUME NEW t \in Threads, Step(t)
        PROVE  (billed[ip] + counter[ip]["src"] + counter[ip]["dst"] <= carried[ip])'
    BY <2>1, <2>2, <2>3, <2>5
    DEF Step, AddClient, RemoveClient, GetForwardByteCounters, Unlock, Call, Lock, Check, kernel, Rules
  <2> QED
    BY <2>1, <2>4, <2>5 DEF Next, vars, Crash, kernel
<1> QED
  BY <1>1, <1>2, Inductive, PTL DEF Spec

-----------------------------------------------------------------------------
(* All three rules or none.                                                *)

Counting == {"cntLock", "cntRead", "cntDone"}

Even(ip) == rules[ip]["nat"] = rules[ip]["src"] /\ rules[ip]["src"] = rules[ip]["dst"]

\* How far the owner of the mutex has got with the rules of its IP when nothing has failed.
Stage(t) ==
  LET nat == rules[arg[t]]["nat"]
      src == rules[arg[t]]["src"]
      dst == rules[arg[t]]["dst"] IN
  /\ pc[t] \in {"addNatCheck", "addDone", "remDone"} => Even(arg[t])
  /\ pc[t] = "addNat" => nat = 0 /\ src = 0 /\ dst = 0
  /\ pc[t] = "addSrcCheck" => nat = 1 /\ src = dst
  /\ pc[t] = "addSrc" => nat = 1 /\ src = 0 /\ dst = 0
  /\ pc[t] = "addDst" => nat = 1 /\ src = 1 /\ dst = 0
  /\ pc[t] \in {"remNatCheck", "remNat"} => src = dst
  /\ pc[t] \in {"remSrcCheck", "remSrc"} => nat = 0
  /\ pc[t] \in {"remDstCheck", "remDst"} => nat = 0 /\ src = 0
  /\ pc[t] # "failed"
  /\ pc[t] \in Counting => arg[t] = NoIP

NobodyAt(ip) == \A t \in Threads : arg[t] = ip => pc[t] \notin Holding

EvenInv == faults = 0 => (\A ip \in IPs : NobodyAt(ip) => Even(ip)) /\ \A t \in Threads : Stage(t)

\* The owner of the mutex does a step on its IP, or counts.
LEMMA OwnerStage ==
  ASSUME IInv, EvenInv, faults = 0, NEW t \in Threads, pc[t] \in Holding, NEW l \in Holding, Goto(t, l), arg' = arg,
         \A ip \in IPs : ip # arg[t] => rules'[ip] = rules[ip],
         arg[t] \in IPs \/ UNCHANGED rules, Stage(t)'
  PROVE  EvenInv'
<1>1. pc'[t] = l /\ \A u \in Threads \ {t} : pc'[u] = pc[u] /\ pc[u] \notin Holding
  BY DEF IInv, TypeOK, MutualExclusion, Goto
<1>2. ASSUME NEW ip \in IPs, NobodyAt(ip)' PROVE Even(ip)'
  <2>1. arg[t] # ip
    BY <1>1, <1>2 DEF NobodyAt
  <2>2. NobodyAt(ip)
    BY <1>1, <2>1 DEF NobodyAt
  <2> QED
    BY <1>2, <2>1, <2>2 DEF EvenInv, Even
<1>3. ASSUME NEW u \in Threads \ {t} PROVE Stage(u)'
  <2>1. pc[u] \in Counting => arg[u] = NoIP
    BY DEF EvenInv, Stage
  <2> QED
    BY <1>1, <2>1 DEF Stage, Holding, Labels, Counting
<1> QED
  BY <1>2, <1>3 DEF EvenInv

LEMMA EvenStep ==
  ASSUME IInv, EvenInv, [Next]_vars
  PROVE  EvenInv'
<1> SUFFICES ASSUME faults' = 0 PROVE EvenInv'
  BY DEF EvenInv
<1>0. faults \in Nat /\ rules \in [IPs -> [Rules -> Nat]] /\ pc \in [Threads -> Labels] /\ NoIP \notin IPs
  BY FirewallAssumption DEF IInv, TypeOK
<1>1. CASE UNCHANGED vars
  BY <1>1 DEF vars, EvenInv, Even, NobodyAt, Stage
<1>2. ASSUME NEW ip \in IPs, NEW r \in Rules, Forward(ip, r) PROVE EvenInv'
  BY <1>2 DEF Forward, EvenInv, Even, NobodyAt, Stage
<1>3. CASE Crash
  BY <1>0, <1>3 DEF Crash
<1>4. ASSUME NEW t \in Threads, Unlock(t) PROVE EvenInv'
  <2>1. /\ pc[t] \in {"addDone", "remDone", "cntDone", "failed"} /\ faults = 0 /\ rules' = rules
        /\ pc' = [pc EXCEPT ![t] = "idle"] /\ arg' = [arg EXCEPT ![t] = NoIP]
    BY <1>4 DEF Unlock, kernel, Goto
  <2>2. \A u \in Threads \ {t} : pc'[u] = pc[u] /\ arg'[u] = arg[u]
    BY <1>0, <2>1 DEF IInv, TypeOK
  <2>3. pc'[t] = "idle" /\ pc[t] # "failed" /\ (pc[t] = "cntDone" => arg[t] = NoIP)
    BY <1>0, <2>1 DEF EvenInv, Stage, Counting
  <2>4. ASSUME NEW ip \in IPs, NobodyAt(ip)' PROVE Even(ip)'
    <3>1. CASE arg[t] = ip
      BY <1>0, <2>1, <2>3, <3>1 DEF EvenInv, Stage, Even
    <3>2. CASE arg[t] # ip
      BY <2>1, <2>2, <2>4, <3>2 DEF NobodyAt, EvenInv, Even
    <3> QED
      BY <3>1, <3>2
  <2>5. ASSUME NEW u \in Threads PROVE Stage(u)'
    BY <2>1, <2>2, <2>3 DEF EvenInv, Stage, Even, Counting
  <2> QED
    BY <2>4, <2>5 DEF EvenInv
<1>5. ASSUME NEW t \in Threads, NEW ip \in IPs \cup {NoIP}, NEW l \in {"addLock", "remLock", "cntLock"},
             Call(t, ip, l), l = "cntLock" => ip = NoIP
      PROVE  EvenInv'
  <2>1. /\ pc[t] = "idle" /\ pc' = [pc EXCEPT ![t] = l] /\ arg' = [arg EXCEPT ![t] = ip] /\ UNCHANGED <<rules, faults>>
    BY <1>5 DEF Call, kernel, Goto
  <2>2. /\ \A u \in Threads \ {t} : pc'[u] = pc[u] /\ arg'[u] = arg[u]
        /\ pc'[t] = l /\ arg'[t] = ip
    BY <1>0, <2>1 DEF IInv, TypeOK
  <2>3. ASSUME NEW i \in IPs, NobodyAt(i)' PROVE NobodyAt(i)
    BY <2>1, <2>2, <2>3 DEF NobodyAt, Holding, Labels
  <2>4. ASSUME NEW u \in Threads PROVE Stage(u)'
    BY <1>5, <2>1, <2>2 DEF EvenInv, Stage, Even, Counting
  <2> QED
    BY <2>1, <2>3, <2>4 DEF EvenInv, Even
<1>6. ASSUME NEW t \in Threads, NEW here \in {"addLock", "remLock", "cntLock"}, NEW l \in {"addNatCheck", "remNatCheck", "cntRead"},
             Lock(t, here, l), (here = "cntLock") <=> (l = "cntRead")
      PROVE  EvenInv'
  <2>1. /\ pc[t] = here /\ mu = NoThread /\ pc' = [pc EXCEPT ![t] = l] /\ UNCHANGED <<rules, arg, faults>>
    BY <1>6 DEF Lock, kernel, Goto
  <2>2. /\ \A u \in Threads \ {t} : pc'[u] = pc[u]
        /\ pc'[t] = l
    BY <1>0, <2>1
  <2>3. \A u \in Threads : pc[u] \notin Holding
    BY <2>1, FirewallAssumption DEF IInv, MutualExclusion
  <2>4. \A i \in IPs : Even(i)'
    BY <2>1, <2>3 DEF EvenInv, NobodyAt, Even
  <2>5. l # "cntRead" => arg[t] \in IPs
    BY <1>6, <2>1 DEF IInv, ArgIsIP
  <2>6. ASSUME NEW u \in Threads PROVE Stage(u)'
    <3>1. CASE u = t
      BY <1>6, <2>1, <2>2, <2>4, <2>5, <3>1 DEF EvenInv, Stage, Even, Counting
    <3>2. CASE u # t
      BY <2>1, <2>2, <3>2 DEF EvenInv, Stage, Even, Counting
    <3> QED
      BY <3>1, <3>2
  <2> QED
    BY <2>4, <2>6 DEF EvenInv
<1>7. ASSUME NEW t \in Threads, NEW here \in Inside, NEW r \in Rules, NEW yes \in Inside, NEW no \in Inside,
             Check(t, here, r, yes, no), Stage(t)'
      PROVE  EvenInv'
  <2>1. /\ pc[t] \in Holding /\ faults = 0 /\ UNCHANGED <<rules, arg>> /\ pc'[t] \in Holding /\ Goto(t, pc'[t])
    BY <1>0, <1>7 DEF Check, Goto, Inside
  <2> QED
    BY <1>7, <2>1, OwnerStage
<1>8. ASSUME NEW t \in Threads, NEW here \in Inside, NEW r \in Rules, NEW delta \in {-1, 1}, NEW next \in Inside,
             Change(t, here, r, delta, next), Stage(t)'
      PROVE  EvenInv'
  <2>1. /\ pc[t] \in Holding /\ faults = 0 /\ arg' = arg /\ pc'[t] \in Holding /\ Goto(t, pc'[t])
        /\ rules' = [rules EXCEPT ![arg[t]][r] = @ + delta]
    BY <1>0, <1>8 DEF Change, Goto, Inside
  <2>2. arg[t] \in IPs
    BY <1>8 DEF IInv, ArgIsIP, Change, Inside, Holding, Labels
  <2>3. \A ip \in IPs : ip # arg[t] => rules'[ip] = rules[ip]
    BY <1>0, <2>1
  <2> QED
    BY <1>8, <2>1, <2>2, <2>3, OwnerStage
<1>9. ASSUME NEW t \in Threads, AddClient(t) PROVE EvenInv'
  <2> USE DEF Inside, Holding, Labels, Rules
  <2>0. pc[t] \in Inside => /\ arg[t] \in IPs /\ (faults = 0 => Stage(t))
                            /\ \A r \in Rules : rules[arg[t]][r] \in 0 .. 1 + faults
    BY OwnerFacts DEF EvenInv
  <2>1. CASE \E ip \in IPs : Call(t, ip, "addLock")
    BY <1>5, <2>1
  <2>2. CASE Lock(t, "addLock", "addNatCheck")
    BY <1>6, <2>2
  <2>3. CASE Check(t, "addNatCheck", "nat", "addSrcCheck", "addNat")
    <3>1. Stage(t)'
      BY <1>0, <2>0, <2>3 DEF Check, Goto, Present, Stage, Even, Counting
    <3> QED
      BY <1>7, <2>3, <3>1
  <2>4. CASE Change(t, "addNat", "nat", 1, "addSrcCheck")
    <3>1. Stage(t)'
      BY <1>0, <2>0, <2>4 DEF Change, Goto, Stage, Even, Counting
    <3> QED
      BY <1>8, <2>4, <3>1
  <2>5. CASE Check(t, "addSrcCheck", "src", "addDone", "addSrc")
    <3>1. Stage(t)'
      BY <1>0, <2>0, <2>5 DEF Check, Goto, Present, Stage, Even, Counting
    <3> QED
      BY <1>7, <2>5, <3>1
  <2>6. CASE Change(t, "addSrc", "src", 1, "addDst")
    <3>1. Stage(t)'
      BY <1>0, <2>0, <2>6 DEF Change, Goto, Stage, Even, Counting
    <3> QED
      BY <1>8, <2>6, <3>1
  <2>7. CASE Change(t, "addDst", "dst", 1, "addDone")
    <3>1. Stage(t)'
      BY <1>0, <2>0, <2>7 DEF Change, Goto, Stage, Even, Counting
    <3> QED
      BY <1>8, <2>7, <3>1
  <2> QED
    BY <1>9, <2>1, <2>2, <2>3, <2>4, <2>5, <2>6, <2>7 DEF AddClient
<1>10. ASSUME NEW t \in Threads, RemoveClient(t) PROVE EvenInv'
  <2> USE DEF Inside, Holding, Labels, Rules
  <2>0. pc[t] \in Inside => /\ arg[t] \in IPs /\ (faults = 0 => Stage(t))
                            /\ \A r \in Rules : rules[arg[t]][r] \in 0 .. 1 + faults
    BY OwnerFacts DEF EvenInv
  <2>1. CASE \E ip \in IPs : Call(t, ip, "remLock")
    BY <1>5, <2>1
  <2>2. CASE Lock(t, "remLock", "remNatCheck")
    BY <1>6, <2>2
  <2>3. CASE Check(t, "remNatCheck", "nat", "remNat", "remSrcCheck")
    <3>1. Stage(t)'
      BY <1>0, <2>0, <2>3 DEF Check, Goto, Present, Stage, Even, Counting
    <3> QED
      BY <1>7, <2>3, <3>1
  <2>4. CASE Change(t, "remNat", "nat", -1, "remNatCheck")
    <3>1. Stage(t)'
      BY <1>0, <2>0, <2>4 DEF Change, Goto, Stage, Even, Counting
    <3> QED
      BY <1>8, <2>4, <3>1
  <2>5. CASE Check(t, "remSrcCheck", "src", "remSrc", "remDstCheck")
    <3>1. Stage(t)'
      BY <1>0, <2>0, <2>5 DEF Check, Goto, Present, Stage, Even, Counting
    <3> QED
      BY <1>7, <2>5, <3>1
  <2>6. CASE Change(t, "remSrc", "src", -1, "remSrcCheck")
    <3>1. Stage(t)'
      BY <1>0, <2>0, <2>6 DEF Change, Goto, Stage, Even, Counting
    <3> QED
      BY <1>8, <2>6, <3>1
  <2>7. CASE Check(t, "remDstCheck", "dst", "remDst", "remDone")
    <3>1. Stage(t)'
      BY <1>0, <2>0, <2>7 DEF Check, Goto, Present, Stage, Even, Counting
    <3> QED
      BY <1>7, <2>7, <3>1
  <2>8. CASE Change(t, "remDst", "dst", -1, "remDstCheck")
    <3>1. Stage(t)'
      BY <1>0, <2>0, <2>8 DEF Change, Goto, Stage, Even, Counting
    <3> QED
      BY <1>8, <2>8, <3>1
  <2> QED
    BY <1>10, <2>1, <2>2, <2>3, <2>4, <2>5, <2>6, <2>7, <2>8 DEF RemoveClient
<1>11. ASSUME NEW t \in Threads, GetForwardByteCounters(t) PROVE EvenInv'
  <2>1. CASE Call(t, NoIP, "cntLock")
    BY <1>5, <2>1
  <2>2. CASE Lock(t, "cntLock", "cntRead")
    BY <1>6, <2>2
  <2>3. CASE ReadCounters(t)
    <3>1. pc[t] = "cntRead" /\ Goto(t, "cntDone") /\ pc'[t] = "cntDone" /\ faults = 0 /\ UNCHANGED <<rules, arg>>
      BY <1>0, <2>3 DEF ReadCounters, Goto
    <3>2. Stage(t)'
      BY <3>1 DEF EvenInv, Stage, Counting
    <3> QED
      BY <3>1, <3>2, OwnerStage DEF Holding, Labels
  <2> QED
    BY <1>11, <2>1, <2>2, <2>3 DEF GetForwardByteCounters
<1> QED
  BY <1>1, <1>2, <1>3, <1>4, <1>9, <1>10, <1>11 DEF Next, Step

\* As long as nothing fails, an address nobody works on has all three rules or none, once each.
THEOREM AllRules == Spec => []AllOrNothing
<1>1. Init => EvenInv
  BY DEF Init, EvenInv, Even, Stage, Rules, Counting
<1>2. IInv /\ EvenInv /\ [Next]_vars => EvenInv'
  BY EvenStep
<1>3. EvenInv => AllOrNothing
  BY DEF EvenInv, Even, NobodyAt, AllOrNothing, IsConnected, Present, Rules
<1> QED
  BY <1>1, <1>2, <1>3, Inductive, PTL DEF Spec

-----------------------------------------------------------------------------
(* The firewall implements AccessSet.                                      *)

Opened == {ip \in IPs : IsConnected(ip)}
Pending == [t \in Threads |-> Request(t)]
NoRequest == [op |-> "none"]

\* t moves; nobody else's request changes.
Moved(t) ==
  /\ \A u \in Threads \ {t} : Request(u)' = Request(u)
  /\ \A ip \in IPs \ {arg[t]} : IsConnected(ip)' <=> IsConnected(ip)

\* The move leaves t's request where it was, or carries it out.
Same(t) ==
  /\ Request(t)' = Request(t)
  /\ \A ip \in IPs : ip = arg[t] => (rules'[ip]["src"] > 0 <=> rules[ip]["src"] > 0)
Effect(t) ==
  /\ Request(t)' = NoRequest
  /\ \/ Request(t) = [op |-> "open", ip |-> arg[t]] /\ rules'[arg[t]]["src"] > 0
     \/ Request(t) = [op |-> "close", ip |-> arg[t]] /\ ~(rules'[arg[t]]["src"] > 0)

Implements == Access!Next \/ UNCHANGED Access!vars

LEMMA SameImplements ==
  ASSUME NEW t \in Threads, Moved(t), Same(t)
  PROVE  Implements
<1>1. \A ip \in IPs : IsConnected(ip)' <=> IsConnected(ip)
  BY DEF Moved, Same, IsConnected, Present
<1>2. Opened' = Opened
  BY <1>1 DEF Opened
<1>3. \A u \in Threads : Request(u)' = Request(u)
  BY DEF Moved, Same
<1>4. Pending' = Pending
  BY <1>3 DEF Pending
<1> QED
  BY <1>2, <1>4 DEF Implements, Opened, Pending, Access!vars

LEMMA EffectImplements ==
  ASSUME NEW t \in Threads, Moved(t), Effect(t), arg[t] \in IPs
  PROVE  Implements
<1> DEFINE r == Request(t)
<1>0. \A ip \in IPs \ {arg[t]} : IsConnected(ip)' <=> IsConnected(ip)
  BY DEF Moved
<1>1. Pending' = [Pending EXCEPT ![t] = NoRequest] /\ Pending[t] = r
  BY DEF Pending, Moved, Effect
<1>2. r # NoRequest /\ Opened' = IF r.op = "open" THEN Opened \cup {r.ip} ELSE Opened \ {r.ip}
  <2>1. CASE r = [op |-> "open", ip |-> arg[t]] /\ rules'[arg[t]]["src"] > 0
    <3>0. \A ip \in IPs : ip = arg[t] => IsConnected(ip)'
      BY <2>1 DEF IsConnected, Present
    <3>1. Opened' = Opened \cup {arg[t]}
      BY <1>0, <3>0 DEF Opened
    <3> QED
      BY <2>1, <3>1 DEF NoRequest
  <2>2. CASE r = [op |-> "close", ip |-> arg[t]] /\ ~(rules'[arg[t]]["src"] > 0)
    <3>0. \A ip \in IPs : ip = arg[t] => ~IsConnected(ip)'
      BY <2>2 DEF IsConnected, Present
    <3>1. Opened' = Opened \ {arg[t]}
      BY <1>0, <3>0 DEF Opened
    <3> QED
      BY <2>2, <3>1 DEF NoRequest
  <2> QED
    BY <2>1, <2>2 DEF Effect
<1>3. Access!TakeEffect(t)
  BY <1>1, <1>2 DEF Access!TakeEffect, Access!Idle, Opened, Pending, NoRequest
<1> QED
  BY <1>3 DEF Implements, Access!Next

LEMMA CallImplements ==
  ASSUME NEW t \in Threads, NEW r \in Access!Requests, Request(t) = NoRequest, Request(t)' = r,
         \A u \in Threads \ {t} : Request(u)' = Request(u), rules' = rules
  PROVE  Implements
<1>1. Pending' = [Pending EXCEPT ![t] = r] /\ Pending[t] = NoRequest
  BY DEF Pending
<1>2. Opened' = Opened
  BY DEF Opened, IsConnected, Present
<1>3. Access!Request(t, r)
  BY <1>1, <1>2 DEF Access!Request, Access!Idle, Opened, Pending, NoRequest
<1> QED
  BY <1>3 DEF Implements, Access!Next

\* Only t moves, and the rules of other addresses stay as they are.
LEMMA MovedAlone ==
  ASSUME IInv, NEW t \in Threads, \A u \in Threads \ {t} : pc'[u] = pc[u] /\ arg'[u] = arg[u],
         rules' = rules \/ pc[t] \in Holding, \A ip \in IPs \ {arg[t]} : rules'[ip] = rules[ip]
  PROVE  Moved(t)
<1>1. ASSUME NEW u \in Threads \ {t} PROVE Request(u)' = Request(u)
  <2>1. CASE rules' = rules
    BY <2>1 DEF Request, TookEffect, IsConnected, Present
  <2>2. CASE pc[t] \in Holding
    <3>1. pc[u] \notin Holding
      BY <2>2 DEF IInv, MutualExclusion
    <3> QED
      BY <3>1 DEF Request, TookEffect, Holding, Labels
  <2> QED
    BY <2>1, <2>2
<1>2. ASSUME NEW ip \in IPs \ {arg[t]} PROVE IsConnected(ip)' <=> IsConnected(ip)
  BY DEF IsConnected, Present
<1> QED
  BY <1>1, <1>2 DEF Moved

LEMMA AccessStep ==
  ASSUME IInv, EvenInv, [Next]_vars, faults' = 0
  PROVE  Implements
<1>0. faults \in Nat /\ rules \in [IPs -> [Rules -> Nat]] /\ pc \in [Threads -> Labels] /\ NoIP \notin IPs
      /\ arg \in [Threads -> IPs \cup {NoIP}]
  BY FirewallAssumption DEF IInv, TypeOK
<1>1. ASSUME UNCHANGED <<rules, pc, arg>> PROVE Implements
  <2>1. Opened' = Opened /\ Pending' = Pending
    BY <1>1 DEF Opened, Pending, Request, TookEffect, IsConnected, Present
  <2> QED
    BY <2>1 DEF Implements, Opened, Pending, Access!vars
<1>2. CASE Crash
  BY <1>0, <1>2 DEF Crash
<1>3. ASSUME NEW t \in Threads, Unlock(t) PROVE Implements
  <2>1. /\ pc[t] \in {"addDone", "remDone", "cntDone", "failed"} /\ faults = 0 /\ rules' = rules
        /\ pc' = [pc EXCEPT ![t] = "idle"] /\ arg' = [arg EXCEPT ![t] = NoIP]
    BY <1>3 DEF Unlock, kernel, Goto
  <2>2. pc'[t] = "idle" /\ \A u \in Threads \ {t} : pc'[u] = pc[u] /\ arg'[u] = arg[u]
    BY <1>0, <2>1
  <2>3. Moved(t)
    BY <2>1, <2>2, MovedAlone
  <2>4. Same(t)
    BY <2>1, <2>2 DEF Same, Request, TookEffect, IsConnected, Present
  <2> QED
    BY <2>3, <2>4, SameImplements
<1>4. ASSUME NEW t \in Threads, NEW ip \in IPs \cup {NoIP}, NEW l \in {"addLock", "remLock", "cntLock"},
             Call(t, ip, l), l = "cntLock" \/ ip \in IPs
      PROVE  Implements
  <2>1. /\ pc[t] = "idle" /\ pc' = [pc EXCEPT ![t] = l] /\ arg' = [arg EXCEPT ![t] = ip] /\ UNCHANGED <<rules, faults>>
    BY <1>4 DEF Call, kernel, Goto
  <2>2. /\ \A u \in Threads \ {t} : pc'[u] = pc[u] /\ arg'[u] = arg[u]
        /\ pc'[t] = l /\ arg'[t] = ip
    BY <1>0, <2>1
  <2>3. Moved(t)
    BY <2>1, <2>2, MovedAlone
  <2>4. Request(t) = NoRequest
    BY <2>1 DEF Request, NoRequest
  <2>5. CASE l = "cntLock"
    <3>1. Same(t)
      BY <2>1, <2>2, <2>5 DEF Same, Request, IsConnected, Present
    <3> QED
      BY <2>3, <3>1, SameImplements
  <2>6. CASE l # "cntLock"
    <3> DEFINE r == [op |-> IF l = "addLock" THEN "open" ELSE "close", ip |-> ip]
    <3>1. Request(t)' = r
      BY <2>2, <2>6 DEF Request, TookEffect
    <3>2. r \in Access!Requests
      BY <1>4, <2>6 DEF Access!Requests
    <3> HIDE DEF r
    <3> QED
      BY <2>1, <2>3, <2>4, <3>1, <3>2, CallImplements DEF Moved
  <2> QED
    BY <2>5, <2>6
<1>5. ASSUME NEW t \in Threads, NEW here \in {"addLock", "remLock", "cntLock"}, NEW l \in {"addNatCheck", "remNatCheck", "cntRead"},
             Lock(t, here, l), (here = "cntLock") <=> (l = "cntRead"), (here = "addLock") <=> (l = "addNatCheck")
      PROVE  Implements
  <2>1. /\ pc[t] = here /\ pc' = [pc EXCEPT ![t] = l] /\ UNCHANGED <<rules, arg, faults>>
    BY <1>5 DEF Lock, kernel, Goto
  <2>2. pc'[t] = l /\ \A u \in Threads \ {t} : pc'[u] = pc[u]
    BY <1>0, <2>1
  <2>3. Moved(t)
    BY <2>1, <2>2, MovedAlone
  <2>4. Same(t)
    BY <1>5, <2>1, <2>2 DEF Same, Request, TookEffect, IsConnected, Present
  <2> QED
    BY <2>3, <2>4, SameImplements
\* A command, which has not failed.
<1>6. ASSUME NEW t \in Threads, NEW here \in Inside, NEW r \in Rules, NEW yes \in Inside, NEW no \in Inside,
             Check(t, here, r, yes, no)
      PROVE  /\ Moved(t) /\ pc[t] = here /\ rules' = rules /\ arg' = arg /\ arg[t] \in IPs
             /\ pc'[t] = IF Present(arg[t], r) THEN yes ELSE no
  <2>1. /\ pc[t] = here /\ rules' = rules /\ arg' = arg
        /\ pc' = [pc EXCEPT ![t] = IF Present(arg[t], r) THEN yes ELSE no]
    BY <1>0, <1>6 DEF Check, Goto
  <2>2. arg[t] \in IPs
    BY <1>6, <2>1 DEF IInv, ArgIsIP, Inside, Holding, Labels
  <2>3. /\ \A u \in Threads \ {t} : pc'[u] = pc[u] /\ arg'[u] = arg[u]
        /\ pc'[t] = IF Present(arg[t], r) THEN yes ELSE no
    BY <1>0, <2>1
  <2> QED
    BY <2>1, <2>2, <2>3, MovedAlone
<1>7. ASSUME NEW t \in Threads, NEW here \in Inside, NEW r \in Rules, NEW delta \in {-1, 1}, NEW next \in Inside,
             Change(t, here, r, delta, next)
      PROVE  /\ Moved(t) /\ pc[t] = here /\ pc'[t] = next /\ arg' = arg /\ arg[t] \in IPs
             /\ rules'[arg[t]]["src"] = IF r = "src" THEN rules[arg[t]]["src"] + delta ELSE rules[arg[t]]["src"]
  <2>1. /\ pc[t] = here /\ arg' = arg /\ rules' = [rules EXCEPT ![arg[t]][r] = @ + delta]
        /\ pc' = [pc EXCEPT ![t] = next]
    BY <1>0, <1>7 DEF Change, Goto
  <2>2. arg[t] \in IPs /\ pc[t] \in Holding
    BY <1>7, <2>1 DEF IInv, ArgIsIP, Inside, Holding, Labels
  <2>3. pc'[t] = next /\ \A u \in Threads \ {t} : pc'[u] = pc[u] /\ arg'[u] = arg[u]
    BY <1>0, <2>1
  <2>4. /\ rules'[arg[t]] = [rules[arg[t]] EXCEPT ![r] = @ + delta]
        /\ \A ip \in IPs \ {arg[t]} : rules'[ip] = rules[ip]
    BY <1>0, <2>1, <2>2
  <2>5. rules[arg[t]] \in [Rules -> Nat]
    BY <1>0, <2>2
  <2>6. rules'[arg[t]]["src"] = IF r = "src" THEN rules[arg[t]]["src"] + delta ELSE rules[arg[t]]["src"]
    BY <2>4, <2>5 DEF Rules
  <2>7. Moved(t)
    BY <2>2, <2>3, <2>4, MovedAlone
  <2> QED
    BY <2>1, <2>2, <2>3, <2>6, <2>7
<1>8. faults = 0 => \A t \in Threads : Stage(t)
  BY DEF EvenInv
<1>9. ASSUME NEW t \in Threads, AddClient(t) PROVE Implements
  <2> USE DEF Inside, Holding, Labels, Rules
  <2>0. faults = 0 => /\ Stage(t)
                      /\ arg[t] \in IPs => \A r \in Rules : rules[arg[t]][r] \in 0 .. 1
    <3>1. faults = 0 => Stage(t)
      BY <1>8
    <3>2. ASSUME faults = 0, arg[t] \in IPs, NEW r \in Rules PROVE rules[arg[t]][r] \in 0 .. 1
      <4>1. rules[arg[t]][r] \in Nat
        BY <1>0, <3>2
      <4>2. rules[arg[t]][r] <= 1 + faults
        BY <3>2 DEF IInv, DuplicatesNeedFaults
      <4> QED
        BY <3>2, <4>1, <4>2
    <3> QED
      BY <3>1, <3>2
  <2>1. CASE \E ip \in IPs : Call(t, ip, "addLock")
    BY <1>4, <2>1
  <2>2. CASE Lock(t, "addLock", "addNatCheck")
    BY <1>5, <2>2
  <2>3. CASE Check(t, "addNatCheck", "nat", "addSrcCheck", "addNat")
    <3>0. faults = 0
      BY <1>0, <2>3 DEF Check
    <3>1. Moved(t) /\ pc[t] = "addNatCheck" /\ rules' = rules /\ arg' = arg /\ arg[t] \in IPs
          /\ pc'[t] = IF Present(arg[t], "nat") THEN "addSrcCheck" ELSE "addNat"
      BY <1>6, <2>3
    <3>2. Same(t)
      BY <2>0, <3>0, <3>1 DEF Same, Stage, Even, Request, TookEffect, IsConnected, Present
    <3> QED
      BY <3>1, <3>2, SameImplements, EffectImplements
  <2>4. CASE Change(t, "addNat", "nat", 1, "addSrcCheck")
    <3>0. faults = 0
      BY <1>0, <2>4 DEF Change
    <3>1. Moved(t) /\ pc[t] = "addNat" /\ pc'[t] = "addSrcCheck" /\ arg' = arg /\ arg[t] \in IPs
          /\ rules'[arg[t]]["src"] = rules[arg[t]]["src"]
      BY <1>7, <2>4
    <3>2. Same(t)
      BY <2>0, <3>0, <3>1 DEF Same, Stage, Even, Request, TookEffect, IsConnected, Present
    <3> QED
      BY <3>1, <3>2, SameImplements, EffectImplements
  <2>5. CASE Check(t, "addSrcCheck", "src", "addDone", "addSrc")
    <3>0. faults = 0
      BY <1>0, <2>5 DEF Check
    <3>1. Moved(t) /\ pc[t] = "addSrcCheck" /\ rules' = rules /\ arg' = arg /\ arg[t] \in IPs
          /\ pc'[t] = IF Present(arg[t], "src") THEN "addDone" ELSE "addSrc"
      BY <1>6, <2>5
    <3>2. Same(t) \/ Effect(t)
      BY <2>0, <3>0, <3>1 DEF Same, Effect, NoRequest, Stage, Even, Request, TookEffect, IsConnected, Present
    <3> QED
      BY <3>1, <3>2, SameImplements, EffectImplements
  <2>6. CASE Change(t, "addSrc", "src", 1, "addDst")
    <3>0. faults = 0
      BY <1>0, <2>6 DEF Change
    <3>1. Moved(t) /\ pc[t] = "addSrc" /\ pc'[t] = "addDst" /\ arg' = arg /\ arg[t] \in IPs
          /\ rules'[arg[t]]["src"] = rules[arg[t]]["src"] + (1)
      BY <1>7, <2>6
    <3>2. Effect(t)
      <4>1. Request(t)' = NoRequest
        BY <3>1 DEF Request, TookEffect, NoRequest
      <4>2. Request(t) = [op |-> "open", ip |-> arg[t]]
        BY <3>1 DEF Request, TookEffect
      <4>3. rules'[arg[t]]["src"] > 0
        BY <2>0, <3>0, <3>1
      <4> QED
        BY <4>1, <4>2, <4>3 DEF Effect
    <3> QED
      BY <3>1, <3>2, SameImplements, EffectImplements
  <2>7. CASE Change(t, "addDst", "dst", 1, "addDone")
    <3>0. faults = 0
      BY <1>0, <2>7 DEF Change
    <3>1. Moved(t) /\ pc[t] = "addDst" /\ pc'[t] = "addDone" /\ arg' = arg /\ arg[t] \in IPs
          /\ rules'[arg[t]]["src"] = rules[arg[t]]["src"]
      BY <1>7, <2>7
    <3>2. Same(t)
      BY <2>0, <3>0, <3>1 DEF Same, Stage, Even, Request, TookEffect, IsConnected, Present
    <3> QED
      BY <3>1, <3>2, SameImplements, EffectImplements
  <2> QED
    BY <1>9, <2>1, <2>2, <2>3, <2>4, <2>5, <2>6, <2>7 DEF AddClient
<1>10. ASSUME NEW t \in Threads, RemoveClient(t) PROVE Implements
  <2> USE DEF Inside, Holding, Labels, Rules
  <2>0. faults = 0 => /\ Stage(t)
                      /\ arg[t] \in IPs => \A r \in Rules : rules[arg[t]][r] \in 0 .. 1
    <3>1. faults = 0 => Stage(t)
      BY <1>8
    <3>2. ASSUME faults = 0, arg[t] \in IPs, NEW r \in Rules PROVE rules[arg[t]][r] \in 0 .. 1
      <4>1. rules[arg[t]][r] \in Nat
        BY <1>0, <3>2
      <4>2. rules[arg[t]][r] <= 1 + faults
        BY <3>2 DEF IInv, DuplicatesNeedFaults
      <4> QED
        BY <3>2, <4>1, <4>2
    <3> QED
      BY <3>1, <3>2
  <2>1. CASE \E ip \in IPs : Call(t, ip, "remLock")
    BY <1>4, <2>1
  <2>2. CASE Lock(t, "remLock", "remNatCheck")
    BY <1>5, <2>2
  <2>3. CASE Check(t, "remNatCheck", "nat", "remNat", "remSrcCheck")
    <3>0. faults = 0
      BY <1>0, <2>3 DEF Check
    <3>1. Moved(t) /\ pc[t] = "remNatCheck" /\ rules' = rules /\ arg' = arg /\ arg[t] \in IPs
          /\ pc'[t] = IF Present(arg[t], "nat") THEN "remNat" ELSE "remSrcCheck"
      BY <1>6, <2>3
    <3>2. Same(t) \/ Effect(t)
      BY <2>0, <3>0, <3>1 DEF Same, Effect, NoRequest, Stage, Even, Request, TookEffect, IsConnected, Present
    <3> QED
      BY <3>1, <3>2, SameImplements, EffectImplements
  <2>4. CASE Change(t, "remNat", "nat", -1, "remNatCheck")
    <3>0. faults = 0
      BY <1>0, <2>4 DEF Change
    <3>1. Moved(t) /\ pc[t] = "remNat" /\ pc'[t] = "remNatCheck" /\ arg' = arg /\ arg[t] \in IPs
          /\ rules'[arg[t]]["src"] = rules[arg[t]]["src"]
      BY <1>7, <2>4
    <3>2. Same(t)
      BY <2>0, <3>0, <3>1 DEF Same, Stage, Even, Request, TookEffect, IsConnected, Present
    <3> QED
      BY <3>1, <3>2, SameImplements, EffectImplements
  <2>5. CASE Check(t, "remSrcCheck", "src", "remSrc", "remDstCheck")
    <3>0. faults = 0
      BY <1>0, <2>5 DEF Check
    <3>1. Moved(t) /\ pc[t] = "remSrcCheck" /\ rules' = rules /\ arg' = arg /\ arg[t] \in IPs
          /\ pc'[t] = IF Present(arg[t], "src") THEN "remSrc" ELSE "remDstCheck"
      BY <1>6, <2>5
    <3>2. Same(t)
      BY <2>0, <3>0, <3>1 DEF Same, Stage, Even, Request, TookEffect, IsConnected, Present
    <3> QED
      BY <3>1, <3>2, SameImplements, EffectImplements
  <2>6. CASE Change(t, "remSrc", "src", -1, "remSrcCheck")
    <3>0. faults = 0
      BY <1>0, <2>6 DEF Change
    <3>1. Moved(t) /\ pc[t] = "remSrc" /\ pc'[t] = "remSrcCheck" /\ arg' = arg /\ arg[t] \in IPs
          /\ rules'[arg[t]]["src"] = rules[arg[t]]["src"] + (-1)
      BY <1>7, <2>6
    <3>2. Effect(t)
      <4>1. ~(rules'[arg[t]]["src"] > 0)
        BY <2>0, <3>0, <3>1
      <4>2. Request(t)' = NoRequest
        BY <3>1, <4>1 DEF Request, TookEffect, NoRequest, IsConnected, Present
      <4>3. Request(t) = [op |-> "close", ip |-> arg[t]]
        BY <3>1 DEF Request, TookEffect
      <4> QED
        BY <4>1, <4>2, <4>3 DEF Effect
    <3> QED
      BY <3>1, <3>2, SameImplements, EffectImplements
  <2>7. CASE Check(t, "remDstCheck", "dst", "remDst", "remDone")
    <3>0. faults = 0
      BY <1>0, <2>7 DEF Check
    <3>1. Moved(t) /\ pc[t] = "remDstCheck" /\ rules' = rules /\ arg' = arg /\ arg[t] \in IPs
          /\ pc'[t] = IF Present(arg[t], "dst") THEN "remDst" ELSE "remDone"
      BY <1>6, <2>7
    <3>2. Same(t)
      BY <2>0, <3>0, <3>1 DEF Same, Stage, Even, Request, TookEffect, IsConnected, Present
    <3> QED
      BY <3>1, <3>2, SameImplements, EffectImplements
  <2>8. CASE Change(t, "remDst", "dst", -1, "remDstCheck")
    <3>0. faults = 0
      BY <1>0, <2>8 DEF Change
    <3>1. Moved(t) /\ pc[t] = "remDst" /\ pc'[t] = "remDstCheck" /\ arg' = arg /\ arg[t] \in IPs
          /\ rules'[arg[t]]["src"] = rules[arg[t]]["src"]
      BY <1>7, <2>8
    <3>2. Same(t)
      BY <2>0, <3>0, <3>1 DEF Same, Stage, Even, Request, TookEffect, IsConnected, Present
    <3> QED
      BY <3>1, <3>2, SameImplements, EffectImplements
  <2> QED
    BY <1>10, <2>1, <2>2, <2>3, <2>4, <2>5, <2>6, <2>7, <2>8 DEF RemoveClient
<1>11. ASSUME NEW t \in Threads, GetForwardByteCounters(t) PROVE Implements
  <2>1. CASE Call(t, NoIP, "cntLock")
    BY <1>4, <2>1
  <2>2. CASE Lock(t, "cntLock", "cntRead")
    BY <1>5, <2>2
  <2>3. CASE ReadCounters(t)
    <3>1. pc[t] = "cntRead" /\ pc' = [pc EXCEPT ![t] = "cntDone"] /\ UNCHANGED <<rules, arg>>
      BY <2>3 DEF ReadCounters, Goto
    <3>2. pc'[t] = "cntDone" /\ \A u \in Threads \ {t} : pc'[u] = pc[u]
      BY <1>0, <3>1
    <3>3. Moved(t)
      BY <3>1, <3>2, MovedAlone
    <3>4. Same(t)
      BY <3>1, <3>2 DEF Same, Request, IsConnected, Present
    <3> QED
      BY <3>3, <3>4, SameImplements
  <2> QED
    BY <1>11, <2>1, <2>2, <2>3 DEF GetForwardByteCounters
<1>12. CASE UNCHANGED vars \/ \E ip \in IPs, r \in Rules : Forward(ip, r)
  BY <1>1, <1>12 DEF vars, Forward
<1> QED
  BY <1>2, <1>3, <1>9, <1>10, <1>11, <1>12 DEF Next, Step

\* As long as nothing fails, the firewall is an atomic set of open addresses, for any number of
\* addresses and goroutines: each AddClient and RemoveClient takes effect at one moment of its call.
THEOREM Refinement == Spec => ImplementsAccessSet
<1>1. Init => Access!Init
  BY DEF Init, Access!Init, Access!Idle, IsConnected, Present, Request, Rules
<1>2. Init => EvenInv
  BY DEF Init, EvenInv, Even, Stage, Rules, Counting
<1>3. IInv /\ EvenInv /\ [Next]_vars => EvenInv'
  BY EvenStep
<1>4. IInv /\ EvenInv /\ [Next]_vars => [faults' = 0 => Access!Next \/ UNCHANGED Access!vars]_vars
  BY AccessStep DEF Implements
<1> QED
  BY <1>1, <1>2, <1>3, <1>4, Inductive, PTL DEF Spec, ImplementsAccessSet
=============================================================================
