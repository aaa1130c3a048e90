---------------------------- MODULE RegistryProofs ----------------------------
(***************************************************************************)
(* Who may still use a transport, for any number of users, scanners, ports *)
(* and transports: as long as anything holds a transport it is alive, so   *)
(* what happens after its destructor has begun is nobody's business.       *)
(***************************************************************************)
EXTENDS Registry, FiniteSetTheorems, TLAPS

UserLabels == {"idle", "copy", "erased", "count", "built", "child", "start", "get_id", "ok",
               "uncount", "reset", "released"}
ScannerLabels == {"idle", "check", "clear", "check_only", "clear_again", "drop", "drop_only",
                  "erase", "erase_only", "scan", "open", "register", "assign"}
Locking == {"drop", "drop_only", "erase", "erase_only", "assign"}

TransportTypes ==
    /\ entry \in Transports \cup {Null, NoEntry}
    /\ life \in [Transports -> {"unborn", "alive", "dying", "dead"}]
    /\ kicked \in [Transports -> BOOLEAN] /\ paired \in [Transports -> BOOLEAN]
    /\ refCount \in [Transports -> Int] /\ connectCount \in [Transports -> Int]
    /\ thr \in [Transports -> [Pump -> {"none", "created", "running", "failed"}]]
    /\ leaving \in [Transports -> Nat]

UsbTypes ==
    /\ port \in [Transports -> Ports \cup {"none"}]
    /\ handles \subseteq Transports /\ gone \subseteq Transports
    /\ plugged \in Ports \cup {"none"}

ActorTypes ==
    /\ pc \in [Actors -> UserLabels \cup ScannerLabels]
    /\ (\A u \in Users : pc[u] \in UserLabels) /\ (\A s \in Scanners : pc[s] \in ScannerLabels)
    /\ has \in [Actors -> 0..MaxTransports] /\ old \in [Actors -> 0..MaxTransports]
    /\ at \in [Actors -> Ports \cup {"none"}]

\* Whoever is in a section that holds atransport_lock has it, so the entry it looked at
\* stays, and who holds a transport has one in hand.
Places ==
    /\ lock \in Scanners \cup {"none"}
    /\ \A s \in Scanners : lock = s <=> pc[s] \in Locking
    /\ \A s \in Scanners : pc[s] \in {"drop", "drop_only"} => entry \in Transports
    /\ \A u \in Users : pc[u] = "copy" => entry # NoEntry
    /\ \A a \in Actors : pc[a] \in Holding \cup {"count"} => has[a] \in Transports

TypeInv == TransportTypes /\ UsbTypes /\ ActorTypes /\ Places

\* What the counts count.
Connected(t) == {u \in Users : has[u] = t /\ pc[u] \in {"ok", "uncount"}}
Started(t) == {i \in Pump : thr[t][i] # "none"}
Counted ==
    \A t \in Transports : /\ connectCount[t] = Cardinality(Connected(t))
                          /\ refCount[t] = Cardinality(Started(t))

\* A counted pointer keeps its transport alive.
Held(t) == Holders(t) # {} \/ Running(t) # {} \/ leaving[t] > 0 \/ entry = t
Pointers == \A t \in Transports : Held(t) => life[t] = "alive"

Ended == \A t \in Transports : life[t] = "dead" => refCount[t] = 0

Opens == (\A t \in handles : life[t] # "unborn") /\ OneHandlePerInterface

RegistryInv == TypeInv /\ Counted /\ Pointers /\ Ended /\ Opens

-------------------------------------------------------------------------------
(* Types.                                                                  *)

LEMMA InitTypeInv == Init => TypeInv
<1> SUFFICES ASSUME Init PROVE TypeInv
  OBVIOUS
<1>1. TransportTypes
  <2>1. entry \in Transports \cup {Null, NoEntry}
    BY DEF Init
  <2>2. /\ life \in [Transports -> {"unborn", "alive", "dying", "dead"}]
        /\ kicked \in [Transports -> BOOLEAN] /\ paired \in [Transports -> BOOLEAN]
    BY DEF Init
  <2>3. /\ refCount \in [Transports -> Int] /\ connectCount \in [Transports -> Int]
        /\ thr \in [Transports -> [Pump -> {"none", "created", "running", "failed"}]]
        /\ leaving \in [Transports -> Nat]
    BY DEF Init
  <2>4. QED
    BY <2>1, <2>2, <2>3 DEF TransportTypes
<1>2. UsbTypes
  BY DEF Init, UsbTypes
<1>3. ActorTypes
  BY RegistryAssumption DEF Init, ActorTypes, Actors, UserLabels, ScannerLabels
<1>4. Places
  BY RegistryAssumption DEF Init, Places, Actors, Holding, Locking
<1>5. QED
  BY <1>1, <1>2, <1>3, <1>4 DEF TypeInv

LEMMA Moves ==
    ASSUME ActorTypes, NEW a \in Actors, NEW label, Goto(a, label)
    PROVE  pc'[a] = label /\ \A b \in Actors \ {a} : pc'[b] = pc[b]
  BY DEF ActorTypes, Goto

LEMMA UserMoves ==
    ASSUME ActorTypes, Places, NEW u \in Users, NEW label \in UserLabels, Goto(u, label),
           NEW t \in 0..MaxTransports, has' = [has EXCEPT ![u] = t], UNCHANGED <<lock, old, at>>,
           entry' = entry \/ (entry = NoEntry /\ entry' = Null),
           label \in Holding \cup {"count"} => t \in Transports,
           label = "copy" => entry' # NoEntry
    PROVE  ActorTypes' /\ Places'
<1>1. u \in Actors /\ \A s \in Scanners : s # u /\ s \in Actors
  BY RegistryAssumption DEF Actors
<1>2. pc'[u] = label /\ \A b \in Actors \ {u} : pc'[b] = pc[b]
  BY <1>1, Moves
<1>3. has'[u] = t /\ \A b \in Actors \ {u} : has'[b] = has[b]
  BY <1>1 DEF ActorTypes
<1>4. ActorTypes'
  <2>1. pc' \in [Actors -> UserLabels \cup ScannerLabels]
    BY <1>1 DEF ActorTypes, Goto
  <2>2. has' \in [Actors -> 0..MaxTransports]
    BY DEF ActorTypes
  <2>3. (\A v \in Users : pc'[v] \in UserLabels) /\ (\A s \in Scanners : pc'[s] \in ScannerLabels)
    BY <1>1, <1>2 DEF ActorTypes, Actors
  <2>4. QED
    BY <2>1, <2>2, <2>3 DEF ActorTypes
<1>5. NoEntry # Null /\ NoEntry \notin Transports
  BY DEF NoEntry, Null, Transports
<1>6. \A s \in Scanners : pc'[s] = pc[s]
  BY <1>1, <1>2
<1>7. \A v \in Users : pc'[v] = "copy" => entry' # NoEntry
  BY <1>2, <1>5 DEF Places, Actors
<1>8. \A a \in Actors : pc'[a] \in Holding \cup {"count"} => has'[a] \in Transports
  BY <1>2, <1>3 DEF Places
<1>9. QED
  BY <1>4, <1>5, <1>6, <1>7, <1>8 DEF Places

LEMMA ScannerMoves ==
    ASSUME ActorTypes, Places, NEW s \in Scanners, NEW label \in ScannerLabels, Goto(s, label),
           NEW t \in 0..MaxTransports, has' = [has EXCEPT ![s] = t],
           NEW o \in 0..MaxTransports, old' = [old EXCEPT ![s] = o],
           NEW p \in Ports \cup {"none"}, at' = [at EXCEPT ![s] = p],
           lock' = (IF label \in Locking THEN s ELSE IF lock = s THEN "none" ELSE lock),
           label \in Locking => lock \in {"none", s},
           entry' = entry \/ (lock \in {"none", s} /\ entry' # NoEntry),
           label \in {"drop", "drop_only"} => entry' \in Transports,
           label \in Holding => t \in Transports
    PROVE  ActorTypes' /\ Places'
<1>1. s \in Actors /\ (\A u \in Users : s # u /\ u \in Actors) /\ "none" \notin Scanners
  BY RegistryAssumption DEF Actors
<1>2. pc'[s] = label /\ \A b \in Actors \ {s} : pc'[b] = pc[b]
  BY <1>1, Moves
<1>3. has'[s] = t /\ \A b \in Actors \ {s} : has'[b] = has[b]
  BY <1>1 DEF ActorTypes
<1>4. ActorTypes'
  <2>1. pc' \in [Actors -> UserLabels \cup ScannerLabels]
    BY <1>1 DEF ActorTypes, Goto
  <2>2. /\ has' \in [Actors -> 0..MaxTransports] /\ old' \in [Actors -> 0..MaxTransports]
        /\ at' \in [Actors -> Ports \cup {"none"}]
    BY DEF ActorTypes
  <2>3. (\A v \in Users : pc'[v] \in UserLabels) /\ (\A r \in Scanners : pc'[r] \in ScannerLabels)
    BY <1>1, <1>2 DEF ActorTypes, Actors
  <2>4. QED
    BY <2>1, <2>2, <2>3 DEF ActorTypes
<1>5. lock' \in Scanners \cup {"none"}
  BY DEF Places
<1>6. ASSUME NEW r \in Scanners PROVE lock' = r <=> pc'[r] \in Locking
  <2>1. r \in Actors /\ (lock = r <=> pc[r] \in Locking)
    BY DEF Places, Actors
  <2>2. CASE r = s
    BY <1>1, <1>2, <2>1, <2>2
  <2>3. CASE r # s
    BY <1>1, <1>2, <2>1, <2>3
  <2>4. QED
    BY <2>2, <2>3
<1>7. ASSUME NEW r \in Scanners, pc'[r] \in {"drop", "drop_only"} PROVE entry' \in Transports
  <2>1. CASE r = s
    BY <1>2, <1>7, <2>1
  <2>2. CASE r # s
    <3>1. r \in Actors /\ pc[r] \in {"drop", "drop_only"} /\ entry \in Transports
      BY <1>2, <1>7, <2>2 DEF Places, Actors
    <3>2. lock = r
      BY <3>1 DEF Places, Locking
    <3>3. QED
      BY <1>1, <2>2, <3>1, <3>2
  <2>3. QED
    BY <2>1, <2>2
<1>8. \A u \in Users : pc'[u] = "copy" => entry' # NoEntry
  BY <1>1, <1>2 DEF Places
<1>9. \A a \in Actors : pc'[a] \in Holding \cup {"count"} => has'[a] \in Transports
  <2>1. label # "count"
    BY DEF ScannerLabels
  <2>2. QED
    BY <1>2, <1>3, <2>1 DEF Places
<1>10. QED
  BY <1>4, <1>5, <1>6, <1>7, <1>8, <1>9 DEF Places

\* Steps of nobody.
LEMMA ActorsKept ==
    ASSUME ActorTypes, Places, UNCHANGED <<actors, lock, entry>>
    PROVE  ActorTypes' /\ Places'
<1>1. UNCHANGED <<pc, has, old, at, lock, entry>>
  BY DEF actors
<1>2. QED
  BY <1>1 DEF ActorTypes, Places, Holding

LEMMA UserActors ==
    ASSUME TypeInv, NEW u \in Users, User(u)
    PROVE  ActorTypes' /\ Places'
<1>1. /\ ActorTypes /\ Places /\ u \in Actors /\ has[u] \in 0..MaxTransports
      /\ has' = has => has' = [has EXCEPT ![u] = has[u]]
      /\ pc[u] \in Holding \cup {"count"} => has[u] \in Transports
  BY DEF TypeInv, ActorTypes, Places, Actors
<1>2. \A t \in Transports : t \in 0..MaxTransports /\ t # Null /\ t # NoEntry
  BY DEF Transports, Null, NoEntry
<1>3. MaxTransports \in Nat /\ entry \in Transports \cup {Null, NoEntry}
  BY RegistryAssumption DEF TypeInv, TransportTypes
<1>4. CASE UNCHANGED <<actors, lock, entry>>
  BY <1>1, <1>4, ActorsKept
<1>5. CASE GetDevice(u)
  <2>1. /\ Goto(u, "copy") /\ UNCHANGED <<has, lock, old, at>> /\ "copy" \in UserLabels
        /\ entry' = (IF entry = NoEntry THEN Null ELSE entry) /\ NoEntry # Null
    BY <1>5 DEF GetDevice, UserLabels, NoEntry, Null
  <2>2. "copy" \notin Holding \cup {"count"}
    BY DEF Holding
  <2>3. QED
    BY <1>1, <2>1, <2>2, UserMoves
<1>6. CASE Copy(u)
  <2>1. pc[u] = "copy" /\ entry # NoEntry /\ UNCHANGED <<entry, lock, old, at>>
    BY <1>1, <1>6 DEF Copy, Places
  <2>2. CASE entry = Null
    <3>1. Goto(u, "idle") /\ UNCHANGED has /\ "idle" \in UserLabels /\ "idle" \notin Holding \cup {"count"}
      BY <1>6, <2>2 DEF Copy, UserLabels, Holding
    <3>2. QED
      BY <1>1, <2>1, <3>1, UserMoves
  <2>3. CASE entry # Null
    <3>1. Goto(u, "count") /\ has' = [has EXCEPT ![u] = entry] /\ "count" \in UserLabels
      BY <1>6, <2>3 DEF Copy, UserLabels
    <3>2. entry \in Transports /\ entry \in 0..MaxTransports
      BY <1>2, <1>3, <2>1, <2>3
    <3>3. QED
      BY <1>1, <2>1, <3>1, <3>2, UserMoves
  <2>4. QED
    BY <2>2, <2>3
<1>7. CASE Count(u) /\ life[has[u]] = "alive"
  <2>1. Goto(u, "built") /\ pc[u] = "count" /\ UNCHANGED <<has, entry, lock, old, at>> /\ "built" \in UserLabels
    BY <1>7 DEF Count, UserLabels
  <2>2. QED
    BY <1>1, <2>1, UserMoves
<1>8. ASSUME NEW parent \in Users, Child(u, parent) PROVE ActorTypes' /\ Places'
  <2>1. /\ Goto(u, "child") /\ has' = [has EXCEPT ![u] = has[parent]] /\ "child" \in UserLabels
        /\ UNCHANGED <<entry, lock, old, at>> /\ pc[parent] \in Holding
    BY <1>8 DEF Child, UserLabels, Holding
  <2>2. has[parent] \in Transports /\ has[parent] \in 0..MaxTransports
    BY <1>1, <1>2, <2>1 DEF Places, Actors
  <2>3. QED
    BY <1>1, <2>1, <2>2, UserMoves
<1>9. CASE TestKicked(u) \/ Start(u) \/ GetId(u) \/ Destroy(u) \/ Uncount(u)
  <2>1. PICK label \in {"reset", "start", "get_id", "ok", "uncount"} : Goto(u, label)
    BY <1>9 DEF TestKicked, Start, GetId, Destroy, Uncount
  <2>2. pc[u] \in Holding /\ UNCHANGED <<has, entry, lock, old, at>> /\ label \in UserLabels
    BY <1>9 DEF TestKicked, Start, GetId, Destroy, Uncount, Holding, UserLabels
  <2>3. label # "copy"
    OBVIOUS
  <2>4. QED
    BY <1>1, <2>1, <2>2, <2>3, UserMoves
<1>10. CASE Reset(u)
  <2>1. /\ Goto(u, "released") /\ UNCHANGED <<has, entry, lock, old, at>>
        /\ "released" \in UserLabels /\ "released" \notin Holding \cup {"count"}
    BY <1>10 DEF Reset, UserLabels, Holding
  <2>2. QED
    BY <1>1, <2>1, UserMoves
<1>11. CASE Released(u)
  <2>1. /\ Goto(u, "idle") /\ has' = [has EXCEPT ![u] = 0] /\ UNCHANGED <<entry, lock, old, at>>
        /\ "idle" \in UserLabels /\ "idle" \notin Holding \cup {"count"}
    BY <1>11 DEF Released, UserLabels, Holding
  <2>2. 0 \in 0..MaxTransports
    BY <1>3
  <2>3. QED
    BY <1>1, <2>1, <2>2, UserMoves
<1>12. CopyErased(u) \/ UsbClose(u) \/ (Count(u) /\ life[has[u]] # "alive")
           => UNCHANGED <<actors, lock, entry>>
  BY DEF CopyErased, UsbClose, Count, Fault
<1>13. QED
  BY <1>4, <1>5, <1>6, <1>7, <1>8, <1>9, <1>10, <1>11, <1>12 DEF User, UserStep

LEMMA ScannerActors ==
    ASSUME TypeInv, NEW s \in Scanners, ScannerCall(s) \/ GetDeviceNameList(s) \/ ScannerStep(s)
    PROVE  ActorTypes' /\ Places'
<1>1. /\ ActorTypes /\ Places /\ s \in Actors /\ has[s] \in 0..MaxTransports /\ old[s] \in 0..MaxTransports
      /\ at[s] \in Ports \cup {"none"}
      /\ has' = has => has' = [has EXCEPT ![s] = has[s]]
      /\ old' = old => old' = [old EXCEPT ![s] = old[s]]
      /\ at' = at => at' = [at EXCEPT ![s] = at[s]]
      /\ pc[s] \in Holding => has[s] \in Transports
      /\ lock = s <=> pc[s] \in Locking
  BY DEF TypeInv, ActorTypes, Places, Actors
<1>2. \A t \in Transports : t \in 0..MaxTransports /\ t # Null /\ t # NoEntry
  BY DEF Transports, Null, NoEntry
<1>3. /\ MaxTransports \in Nat /\ 0 \in 0..MaxTransports /\ entry \in Transports \cup {Null, NoEntry}
      /\ Null # NoEntry /\ s # "none"
  BY RegistryAssumption DEF TypeInv, TransportTypes, Null, NoEntry
\* Calls that do not touch the lock.
<1>4. ASSUME NEW label \in ScannerLabels \ Locking, Goto(s, label), pc[s] \notin Locking,
             UNCHANGED <<lock, entry, old>>,
             NEW t \in 0..MaxTransports, has' = [has EXCEPT ![s] = t], label \in Holding => t \in Transports,
             NEW p \in Ports \cup {"none"}, at' = [at EXCEPT ![s] = p]
      PROVE  ActorTypes' /\ Places'
  <2>1. /\ lock' = (IF label \in Locking THEN s ELSE IF lock = s THEN "none" ELSE lock)
        /\ label \notin {"drop", "drop_only"}
    BY <1>1, <1>4 DEF Locking
  <2>2. QED
    BY <1>1, <1>4, <2>1, ScannerMoves
<1>5. CASE ScannerCall(s) \/ RemoveDeviceAll(s)
           \/ (Check(s) /\ ~(entry \in Transports /\ UseCount(entry) = 1 /\ kicked[entry]))
  <2>1. PICK label \in {"check", "clear", "check_only", "idle", "scan", "clear_again"} : Goto(s, label)
    BY <1>5 DEF ScannerCall, FindDevices, RepleaseAdb, RemoveDeviceAll, Check, AfterCheck
  <2>2. pc[s] \notin Locking /\ UNCHANGED <<lock, entry, old, has, at>>
    BY <1>5 DEF ScannerCall, FindDevices, RepleaseAdb, RemoveDeviceAll, Check, Locking
  <2>3. label \in ScannerLabels \ Locking /\ label \notin Holding
    BY DEF ScannerLabels, Locking, Holding
  <2>4. QED
    BY <1>1, <1>4, <2>1, <2>2, <2>3
<1>6. CASE GetDeviceNameList(s)
  BY <1>1, <1>6, ActorsKept DEF GetDeviceNameList, Fault
<1>7. CASE Check(s) /\ entry \in Transports /\ UseCount(entry) = 1 /\ kicked[entry]
  <2>1. PICK label \in {"drop", "drop_only"} : Goto(s, label)
    BY <1>7 DEF Check
  <2>2. lock = "none" /\ lock' = s /\ UNCHANGED <<entry, old, has, at>>
    BY <1>7 DEF Check, Free
  <2>3. label \in ScannerLabels /\ label \in Locking /\ label \notin Holding
    BY DEF ScannerLabels, Locking, Holding
  <2>4. QED
    BY <1>1, <1>7, <2>1, <2>2, <2>3, ScannerMoves
<1>8. CASE Drop(s)
  <2>1. PICK label \in {"erase", "erase_only"} : Goto(s, label)
    BY <1>8 DEF Drop
  <2>2. pc[s] \in Locking /\ entry \in Transports /\ pc[s] \in {"drop", "drop_only"}
    BY <1>1, <1>8 DEF Drop, Locking, Places
  <2>3. UNCHANGED <<lock, has, at>> /\ entry' = Null /\ old' = [old EXCEPT ![s] = entry]
    BY <1>8 DEF Drop
  <2>4. label \in ScannerLabels /\ label \in Locking /\ label \notin Holding /\ label \notin {"drop", "drop_only"}
    BY DEF ScannerLabels, Locking, Holding
  <2>5. QED
    BY <1>1, <1>2, <1>3, <2>1, <2>2, <2>3, <2>4, ScannerMoves
<1>9. CASE Erase(s)
  <2>1. /\ pc[s] \in {"erase", "erase_only"} /\ entry' = NoEntry /\ lock' = "none" /\ lock = s
        /\ pc' = [a \in Actors |-> IF a = s THEN AfterCheck(s)
                                   ELSE IF pc[a] = "copy" THEN "erased" ELSE pc[a]]
        /\ old' = [old EXCEPT ![s] = 0] /\ UNCHANGED <<has, at>>
    BY <1>1, <1>9 DEF Erase, Locking
  <2>2. /\ AfterCheck(s) \in ScannerLabels \ Locking /\ AfterCheck(s) \notin Holding \cup {"count"}
        /\ AfterCheck(s) \notin {"drop", "drop_only"}
    BY DEF AfterCheck, ScannerLabels, Locking, Holding
  <2>3. /\ pc'[s] = AfterCheck(s)
        /\ \A a \in Actors \ {s} : (pc[a] = "copy" /\ pc'[a] = "erased") \/ (pc[a] # "copy" /\ pc'[a] = pc[a])
    BY <1>1, <2>1
  <2>4. "erased" \in UserLabels /\ "erased" \notin Holding \cup {"count"} /\ "copy" \notin ScannerLabels
    BY DEF UserLabels, ScannerLabels, Holding
  <2>5. \A u \in Users : u # s /\ u \in Actors
    BY RegistryAssumption DEF Actors
  <2>6. \A r \in Scanners \ {s} : r \in Actors /\ pc'[r] = pc[r] /\ pc[r] \notin Locking
    BY <1>1, <2>1, <2>3, <2>4 DEF ActorTypes, Places, Actors
  <2>7. ActorTypes'
    <3>1. pc' \in [Actors -> UserLabels \cup ScannerLabels]
      BY <1>1, <2>1, <2>2, <2>4 DEF ActorTypes
    <3>2. \A u \in Users : pc'[u] \in UserLabels
      BY <1>1, <2>3, <2>4, <2>5 DEF ActorTypes
    <3>3. \A r \in Scanners : pc'[r] \in ScannerLabels
      BY <1>1, <2>2, <2>3, <2>6 DEF ActorTypes
    <3>4. old' \in [Actors -> 0..MaxTransports]
      BY <1>1, <1>3, <2>1 DEF ActorTypes
    <3>5. QED
      BY <1>1, <2>1, <3>1, <3>2, <3>3, <3>4 DEF ActorTypes
  <2>8. \A r \in Scanners : lock' = r <=> pc'[r] \in Locking
    BY <2>1, <2>2, <2>3, <2>6, RegistryAssumption
  <2>9. \A r \in Scanners : pc'[r] \in {"drop", "drop_only"} => entry' \in Transports
    BY <2>2, <2>3, <2>6 DEF Locking
  <2>10. \A u \in Users : pc'[u] # "copy"
    BY <2>3, <2>4, <2>5
  <2>11. \A a \in Actors : pc'[a] \in Holding \cup {"count"} => has'[a] \in Transports
    BY <1>1, <2>1, <2>2, <2>3, <2>4 DEF Places
  <2>12. QED
    BY <2>1, <2>7, <2>8, <2>9, <2>10, <2>11 DEF Places
<1>10. CASE Scan(s)
  <2>1. PICK label \in {"open", "idle"}, p \in Ports \cup {"none"} : Goto(s, label) /\ at' = [at EXCEPT ![s] = p]
    BY <1>1, <1>10 DEF Scan, TypeInv, UsbTypes
  <2>2. pc[s] \notin Locking /\ UNCHANGED <<lock, entry, old, has>>
    BY <1>10 DEF Scan, Locking
  <2>3. label \in ScannerLabels \ Locking /\ label \notin Holding
    BY DEF ScannerLabels, Locking, Holding
  <2>4. QED
    BY <1>1, <1>4, <2>1, <2>2, <2>3
<1>11. CASE RegisterNewDevice(s)
  <2>1. pc[s] \notin Locking /\ UNCHANGED <<lock, entry, old>> /\ at' = [at EXCEPT ![s] = "none"]
    BY <1>11 DEF RegisterNewDevice, Locking
  <2>2. \/ Goto(s, "idle") /\ UNCHANGED has
        \/ \E t \in Transports : Goto(s, "register") /\ has' = [has EXCEPT ![s] = t]
    BY <1>11 DEF RegisterNewDevice, OpenFailed, Opened
  <2>3. /\ "idle" \in ScannerLabels \ Locking /\ "idle" \notin Holding
        /\ "register" \in ScannerLabels \ Locking
    BY DEF ScannerLabels, Locking, Holding
  <2>4. CASE Goto(s, "idle") /\ UNCHANGED has
    BY <1>1, <1>4, <2>1, <2>3, <2>4
  <2>5. ASSUME NEW t \in Transports, Goto(s, "register"), has' = [has EXCEPT ![s] = t]
        PROVE  ActorTypes' /\ Places'
    BY <1>2, <1>4, <2>1, <2>3, <2>5
  <2>6. QED
    BY <2>2, <2>4, <2>5
<1>12. CASE RegisterReset(s)
  <2>1. /\ Goto(s, "assign") /\ lock = "none" /\ lock' = s /\ UNCHANGED <<has, at>> /\ entry' = Null
        /\ pc[s] \in Holding
    BY <1>12 DEF RegisterReset, Free, Holding
  <2>2. PICK o \in 0..MaxTransports : old' = [old EXCEPT ![s] = o]
    BY <1>2, <1>3, <1>12 DEF RegisterReset
  <2>3. "assign" \in ScannerLabels /\ "assign" \in Locking /\ "assign" \notin {"drop", "drop_only"}
    BY DEF ScannerLabels, Locking
  <2>4. QED
    BY <1>1, <1>3, <2>1, <2>2, <2>3, ScannerMoves
<1>13. CASE RegisterAssign(s)
  <2>1. /\ Goto(s, "idle") /\ lock' = "none" /\ UNCHANGED at /\ entry' = has[s] /\ pc[s] \in Holding
        /\ has' = [has EXCEPT ![s] = 0] /\ old' = [old EXCEPT ![s] = 0] /\ pc[s] \in Locking
    BY <1>13 DEF RegisterAssign, Holding, Locking
  <2>2. entry' \in Transports /\ entry' # NoEntry /\ lock = s
    BY <1>1, <1>2, <2>1
  <2>3. "idle" \in ScannerLabels \ Locking /\ "idle" \notin {"drop", "drop_only"} /\ "idle" \notin Holding
    BY DEF ScannerLabels, Locking, Holding
  <2>4. lock' = IF "idle" \in Locking THEN s ELSE IF lock = s THEN "none" ELSE lock
    BY <2>1, <2>2, <2>3
  <2>5. QED
    BY <1>1, <1>3, <2>1, <2>2, <2>3, <2>4, ScannerMoves
<1>14. QED
  BY <1>5, <1>6, <1>7, <1>8, <1>9, <1>10, <1>11, <1>12, <1>13 DEF ScannerStep

LEMMA Counts ==
    /\ IsFiniteSet(Pump) /\ Cardinality(Pump) \in Nat
    /\ IsFiniteSet(Actors) /\ IsFiniteSet(Users)
<1>1. IsFiniteSet(Readers \cup {"output"})
  BY RegistryAssumption, FS_AddElement
<1>2. IsFiniteSet(Users \cup Scanners) /\ IsFiniteSet(Users)
  BY RegistryAssumption, FS_Union
<1>3. QED
  BY <1>1, <1>2, FS_CardinalityType DEF Pump, Actors

\* reset() of a pointer gives the transport one of two lives.
LEMMA ReleaseType ==
    ASSUME life \in [Transports -> {"unborn", "alive", "dying", "dead"}], NEW t \in Transports,
           Release(t)
    PROVE  life' \in [Transports -> {"unborn", "alive", "dying", "dead"}]
  BY DEF Release

LEMMA UserTransports ==
    ASSUME TypeInv, NEW u \in Users, User(u)
    PROVE  TransportTypes' /\ UsbTypes'
<1>1. TransportTypes /\ UsbTypes /\ (pc[u] \in Holding \cup {"count"} => has[u] \in Transports)
  BY DEF TypeInv, Places, Actors
<1>2. CASE UNCHANGED <<entry, transports, usb, cable>>
  BY <1>1, <1>2 DEF TransportTypes, UsbTypes, transports, usb, cable
<1>3. CASE GetDevice(u)
  BY <1>1, <1>3 DEF GetDevice, TransportTypes, UsbTypes, transports, usb, cable
<1>4. CASE Start(u)
  <2>1. has[u] \in Transports /\ Cardinality(Pump) \in Nat
    BY <1>1, <1>4, Counts DEF Start, Holding
  <2>2. paired' \in [Transports -> BOOLEAN]
    <3>1. paired' = paired \/ paired' = [paired EXCEPT ![has[u]] = TRUE]
      BY <1>4 DEF Start
    <3>2. QED
      BY <1>1, <3>1 DEF TransportTypes
  <2>3. refCount' \in [Transports -> Int]
    <3>1. refCount' = refCount \/ refCount' = [refCount EXCEPT ![has[u]] = Cardinality(Pump)]
      BY <1>4 DEF Start
    <3>2. QED
      BY <1>1, <2>1, <3>1 DEF TransportTypes
  <2>4. thr' \in [Transports -> [Pump -> {"none", "created", "running", "failed"}]]
    BY <1>1, <1>4, <2>1 DEF Start, TransportTypes
  <2>5. QED
    BY <1>1, <1>4, <2>2, <2>4, <2>3 DEF Start, TransportTypes, UsbTypes, usb, cable
<1>5. CASE GetId(u)
  BY <1>1, <1>5 DEF GetId, TransportTypes, UsbTypes, usb, cable, Holding
<1>6. CASE UsbClose(u)
  BY <1>1, <1>6 DEF UsbClose, TransportTypes, UsbTypes, usb, cable, Holding
<1>7. CASE Uncount(u)
  BY <1>1, <1>7 DEF Uncount, TransportTypes, UsbTypes, usb, cable, Holding
<1>8. CASE Reset(u)
  <2>1. has[u] \in Transports /\ Release(has[u])
    BY <1>1, <1>8 DEF Reset, Holding
  <2>2. life' \in [Transports -> {"unborn", "alive", "dying", "dead"}]
    BY <1>1, <2>1, ReleaseType DEF TransportTypes
  <2>3. QED
    BY <1>1, <1>8, <2>2 DEF Reset, TransportTypes, UsbTypes, usb, cable
<1>9. \/ UNCHANGED <<entry, transports, usb, cable>> \/ GetDevice(u) \/ Start(u) \/ GetId(u)
      \/ UsbClose(u) \/ Uncount(u) \/ Reset(u)
  BY DEF User, UserStep, Copy, CopyErased, Count, TestKicked, Released, Child, Destroy, Fault
<1>10. QED
  BY <1>2, <1>3, <1>4, <1>5, <1>6, <1>7, <1>8, <1>9

LEMMA ScannerTransports ==
    ASSUME TypeInv, NEW s \in Scanners, ScannerCall(s) \/ GetDeviceNameList(s) \/ ScannerStep(s)
    PROVE  TransportTypes' /\ UsbTypes'
<1>1. /\ TransportTypes /\ UsbTypes /\ (pc[s] \in Holding => has[s] \in Transports)
      /\ pc[s] \in {"drop", "drop_only"} => entry \in Transports
      /\ at[s] \in Ports \cup {"none"}
  BY DEF TypeInv, Places, Actors, ActorTypes
<1>2. CASE UNCHANGED <<entry, transports, usb, cable>>
  BY <1>1, <1>2 DEF TransportTypes, UsbTypes, transports, usb, cable
<1>3. CASE RemoveDeviceAll(s)
  BY <1>1, <1>3 DEF RemoveDeviceAll, TransportTypes, UsbTypes, usb, cable
<1>4. CASE Drop(s)
  <2>1. entry \in Transports /\ Release(entry) /\ entry' = Null
    BY <1>1, <1>4 DEF Drop
  <2>2. life' \in [Transports -> {"unborn", "alive", "dying", "dead"}]
    BY <1>1, <2>1, ReleaseType DEF TransportTypes
  <2>3. QED
    BY <1>1, <1>4, <2>1, <2>2 DEF Drop, TransportTypes, UsbTypes, usb, cable
<1>5. CASE Erase(s)
  BY <1>1, <1>5 DEF Erase, TransportTypes, UsbTypes, transports, usb, cable
<1>6. CASE RegisterNewDevice(s)
  <2>1. /\ UNCHANGED <<entry, kicked, refCount, connectCount, paired, thr, leaving, gone, plugged>>
    BY <1>6 DEF RegisterNewDevice, cable
  <2>2. CASE UNCHANGED <<life, port, handles>>
    BY <1>1, <2>1, <2>2 DEF TransportTypes, UsbTypes
  <2>3. ASSUME NEW t \in Transports, Opened(s, t) PROVE TransportTypes' /\ UsbTypes'
    <3>1. /\ life' \in [Transports -> {"unborn", "alive", "dying", "dead"}]
          /\ port' \in [Transports -> Ports \cup {"none"}] /\ handles' \subseteq Transports
      BY <1>1, <2>3 DEF Opened, TransportTypes, UsbTypes
    <3>2. QED
      BY <1>1, <2>1, <3>1 DEF TransportTypes, UsbTypes
  <2>4. UNCHANGED <<life, port, handles>> \/ \E t \in Transports : Opened(s, t)
    BY <1>6 DEF RegisterNewDevice, OpenFailed
  <2>5. QED
    BY <2>2, <2>3, <2>4
<1>7. CASE RegisterReset(s)
  <2>1. life' \in [Transports -> {"unborn", "alive", "dying", "dead"}]
    <3>1. CASE entry \in Transports /\ Release(entry)
      BY <1>1, <3>1, ReleaseType DEF TransportTypes
    <3>2. CASE UNCHANGED life
      BY <1>1, <3>2 DEF TransportTypes
    <3>3. QED
      BY <1>7, <3>1, <3>2 DEF RegisterReset
  <2>2. QED
    BY <1>1, <1>7, <2>1 DEF RegisterReset, TransportTypes, UsbTypes, usb, cable
<1>8. CASE RegisterAssign(s)
  BY <1>1, <1>8 DEF RegisterAssign, TransportTypes, UsbTypes, transports, usb, cable, Holding
<1>9. \/ UNCHANGED <<entry, transports, usb, cable>> \/ RemoveDeviceAll(s) \/ Drop(s) \/ Erase(s)
      \/ RegisterNewDevice(s) \/ RegisterReset(s) \/ RegisterAssign(s)
  BY DEF ScannerCall, GetDeviceNameList, ScannerStep, Check, Scan, Fault
<1>10. QED
  BY <1>2, <1>3, <1>4, <1>5, <1>6, <1>7, <1>8, <1>9

\* What the pump threads, the destructor and the cable do.
PumpStep(t) == (\E i \in Pump : Begin(t, i) \/ Leave(t, i)) \/ ThreadReset(t) \/ Dtor(t)
Cable == (\E p \in Ports : Plug(p)) \/ Unplug

LEMMA PumpTransports ==
    ASSUME TypeInv, (\E t \in Transports : PumpStep(t)) \/ Cable
    PROVE  TransportTypes' /\ UsbTypes'
<1>1. TransportTypes /\ UsbTypes
  BY DEF TypeInv
<1>2. ASSUME NEW t \in Transports, NEW i \in Pump, Begin(t, i) PROVE TransportTypes' /\ UsbTypes'
  <2>1. PICK x \in {"running", "failed"} : thr' = [thr EXCEPT ![t][i] = x]
    BY <1>2 DEF Begin
  <2>2. thr' \in [Transports -> [Pump -> {"none", "created", "running", "failed"}]]
    BY <1>1, <2>1 DEF TransportTypes
  <2>3. QED
    BY <1>1, <1>2, <2>2 DEF Begin, TransportTypes, UsbTypes, usb, cable
<1>3. ASSUME NEW t \in Transports, NEW i \in Pump, Leave(t, i) PROVE TransportTypes' /\ UsbTypes'
  <2>1. thr' \in [Transports -> [Pump -> {"none", "created", "running", "failed"}]]
    BY <1>1, <1>3 DEF Leave, TransportTypes
  <2>2. /\ kicked' \in [Transports -> BOOLEAN] /\ refCount' \in [Transports -> Int]
        /\ leaving' \in [Transports -> Nat]
    BY <1>1, <1>3 DEF Leave, TransportTypes
  <2>3. QED
    BY <1>1, <1>3, <2>1, <2>2 DEF Leave, TransportTypes, UsbTypes, usb, cable
<1>4. ASSUME NEW t \in Transports, ThreadReset(t) PROVE TransportTypes' /\ UsbTypes'
  <2>1. life' \in [Transports -> {"unborn", "alive", "dying", "dead"}]
    BY <1>1, <1>4, ReleaseType DEF ThreadReset, TransportTypes
  <2>2. leaving' \in [Transports -> Nat]
    BY <1>1, <1>4 DEF ThreadReset, TransportTypes
  <2>3. QED
    BY <1>1, <1>4, <2>1, <2>2 DEF ThreadReset, TransportTypes, UsbTypes, usb, cable
<1>5. ASSUME NEW t \in Transports, Dtor(t) PROVE TransportTypes' /\ UsbTypes'
  <2>1. CASE Fault("null_pair")
    BY <1>1, <2>1 DEF Fault, TransportTypes, UsbTypes, transports, usb, cable
  <2>2. CASE paired[t]
    BY <1>1, <1>5, <2>2 DEF Dtor, TransportTypes, UsbTypes, cable
  <2>3. QED
    BY <1>5, <2>1, <2>2 DEF Dtor
<1>6. ASSUME NEW p \in Ports, Plug(p) PROVE TransportTypes' /\ UsbTypes'
  BY <1>1, <1>6 DEF Plug, TransportTypes, UsbTypes, transports, usb
<1>7. CASE Unplug
  BY <1>1, <1>7 DEF Unplug, TransportTypes, UsbTypes, transports
<1>8. QED
  BY <1>2, <1>3, <1>4, <1>5, <1>6, <1>7 DEF PumpStep, Cable

LEMMA PumpActors ==
    ASSUME TypeInv, (\E t \in Transports : PumpStep(t)) \/ Cable
    PROVE  ActorTypes' /\ Places'
<1>1. CASE UNCHANGED <<actors, lock, entry>>
  BY <1>1, ActorsKept DEF TypeInv
<1>2. UNCHANGED <<actors, lock, entry>>
  BY DEF PumpStep, Begin, Leave, ThreadReset, Dtor, Cable, Plug, Unplug, Fault
<1>3. QED
  BY <1>1, <1>2

\* The four kinds of steps.
LEMMA Steps ==
    ASSUME Next
    PROVE  \/ \E u \in Users : User(u)
           \/ \E s \in Scanners : ScannerCall(s) \/ GetDeviceNameList(s) \/ ScannerStep(s)
           \/ \E t \in Transports : PumpStep(t)
           \/ Cable
  BY DEF Next, PumpStep, Cable

LEMMA TypeInvStep == TypeInv /\ [Next]_vars => TypeInv'
<1> SUFFICES ASSUME TypeInv, [Next]_vars PROVE TypeInv'
  OBVIOUS
<1>1. CASE Next
  <2>1. ASSUME NEW u \in Users, User(u) PROVE TypeInv'
    BY <2>1, UserActors, UserTransports DEF TypeInv
  <2>2. ASSUME NEW s \in Scanners, ScannerCall(s) \/ GetDeviceNameList(s) \/ ScannerStep(s)
        PROVE  TypeInv'
    BY <2>2, ScannerActors, ScannerTransports DEF TypeInv
  <2>3. CASE (\E t \in Transports : PumpStep(t)) \/ Cable
    BY <2>3, PumpActors, PumpTransports DEF TypeInv
  <2>4. QED
    BY <1>1, <2>1, <2>2, <2>3, Steps
<1>2. CASE UNCHANGED vars
  <2>1. ActorTypes' /\ Places'
    BY <1>2, ActorsKept DEF TypeInv, vars
  <2>2. TransportTypes' /\ UsbTypes'
    BY <1>2 DEF TypeInv, TransportTypes, UsbTypes, vars, transports, usb, cable
  <2>3. QED
    BY <2>1, <2>2 DEF TypeInv
<1>3. QED
  BY <1>1, <1>2

-------------------------------------------------------------------------------
(* Pointers.                                                               *)

LEMMA UseCounts ==
    ASSUME TypeInv, NEW t \in Transports
    PROVE  /\ IsFiniteSet(Holders(t)) /\ IsFiniteSet(Running(t))
           /\ Cardinality(Holders(t)) \in Nat /\ Cardinality(Running(t)) \in Nat
           /\ leaving[t] \in Nat
           /\ Cardinality(Holders(t)) = 0 <=> Holders(t) = {}
           /\ Cardinality(Running(t)) = 0 <=> Running(t) = {}
<1>1. Holders(t) \subseteq Actors /\ Running(t) \subseteq Pump
  BY DEF Holders, Running
<1>2. IsFiniteSet(Holders(t)) /\ IsFiniteSet(Running(t))
  BY <1>1, Counts, FS_Subset
<1>3. leaving[t] \in Nat
  BY DEF TypeInv, TransportTypes
<1>4. QED
  BY <1>2, <1>3, FS_CardinalityType, FS_EmptySet

\* The last pointer is the only one.
LEMMA LastHolder ==
    ASSUME TypeInv, NEW t \in Transports, UseCount(t) = 1, NEW a \in Holders(t)
    PROVE  Holders(t) = {a} /\ Running(t) = {} /\ leaving[t] = 0 /\ entry # t
<1>1. Cardinality(Holders(t)) # 0
  BY UseCounts
<1>2. Cardinality(Holders(t)) = 1 /\ Cardinality(Running(t)) = 0 /\ leaving[t] = 0 /\ entry # t
  <2> DEFINE h == Cardinality(Holders(t))
  <2> DEFINE r == Cardinality(Running(t))
  <2>1. h \in Nat /\ r \in Nat /\ leaving[t] \in Nat /\ h # 0
        /\ h + r + leaving[t] + (IF entry = t THEN 1 ELSE 0) = 1
    BY <1>1, UseCounts DEF UseCount
  <2> HIDE DEF h, r
  <2>2. h = 1 /\ r = 0 /\ leaving[t] = 0 /\ entry # t
    BY <2>1
  <2>3. QED
    BY <2>2 DEF h, r
<1>3. \E x : Holders(t) = {x}
  BY <1>2, UseCounts, FS_Singleton
<1>4. QED
  BY <1>2, <1>3, UseCounts

LEMMA LastThread ==
    ASSUME TypeInv, NEW t \in Transports, UseCount(t) = 1, leaving[t] > 0
    PROVE  Holders(t) = {} /\ Running(t) = {} /\ leaving[t] = 1 /\ entry # t
<1> DEFINE h == Cardinality(Holders(t))
<1> DEFINE r == Cardinality(Running(t))
<1>1. h \in Nat /\ r \in Nat /\ leaving[t] \in Nat
      /\ h + r + leaving[t] + (IF entry = t THEN 1 ELSE 0) = 1
  BY UseCounts DEF UseCount
<1> HIDE DEF h, r
<1>2. h = 0 /\ r = 0 /\ leaving[t] = 1 /\ entry # t
  BY <1>1
<1>3. QED
  BY <1>2, UseCounts DEF h, r

LEMMA LastEntry ==
    ASSUME TypeInv, NEW t \in Transports, UseCount(t) = 1, entry = t
    PROVE  Holders(t) = {} /\ Running(t) = {} /\ leaving[t] = 0
<1> DEFINE h == Cardinality(Holders(t))
<1> DEFINE r == Cardinality(Running(t))
<1>1. h \in Nat /\ r \in Nat /\ leaving[t] \in Nat /\ h + r + leaving[t] + 1 = 1
  BY UseCounts DEF UseCount
<1> HIDE DEF h, r
<1>2. h = 0 /\ r = 0 /\ leaving[t] = 0
  BY <1>1
<1>3. QED
  BY <1>2, UseCounts DEF h, r

\* Nobody new holds transport t.
SameHolders(t) == \A a \in Actors : pc[a]' \in Holding /\ has[a]' = t => pc[a] \in Holding /\ has[a] = t
SameThreads(t) == \A i \in Pump : thr[t][i]' = "running" => thr[t][i] = "running"

LEMMA NotNewlyHeld ==
    ASSUME NEW t \in Transports, SameHolders(t), SameThreads(t),
           leaving'[t] > 0 => leaving[t] > 0, entry' = t => entry = t
    PROVE  Held(t)' => Held(t)
<1>1. Holders(t)' \subseteq Holders(t)
  BY DEF Holders, SameHolders, Holding
<1>2. Running(t)' \subseteq Running(t)
  BY DEF Running, SameThreads
<1>3. QED
  BY <1>1, <1>2 DEF Held

LEMMA ReleaseKeepsPointers ==
    ASSUME TypeInv, Pointers, NEW t \in Transports, Release(t),
           \A k \in Transports : Held(k)' => Held(k),
           UseCount(t) = 1 => ~Held(t)'
    PROVE  Pointers'
<1>1. ASSUME NEW k \in Transports, Held(k)' PROVE life'[k] = "alive"
  <2>1. life[k] = "alive"
    BY <1>1 DEF Pointers
  <2>2. CASE UseCount(t) = 1
    BY <1>1, <2>1, <2>2 DEF Release, TypeInv, TransportTypes
  <2>3. CASE UseCount(t) # 1
    BY <2>1, <2>3 DEF Release
  <2>4. QED
    BY <2>2, <2>3
<1>2. QED
  BY <1>1 DEF Pointers

LEMMA PointersKept ==
    ASSUME TypeInv, Pointers, life' = life, \A k \in Transports : Held(k)' => Held(k)
    PROVE  Pointers'
  BY DEF Pointers

\* One actor moves, and takes no transport in hand that it did not hold.
LEMMA HoldersMove ==
    ASSUME TypeInv, NEW a \in Actors, NEW label, Goto(a, label),
           \A b \in Actors \ {a} : has'[b] = has[b],
           label \in Holding => pc[a] \in Holding /\ has'[a] = has[a]
    PROVE  \A t \in Transports : SameHolders(t)
<1>1. pc'[a] = label /\ \A b \in Actors \ {a} : pc'[b] = pc[b]
  BY Moves DEF TypeInv
<1>2. QED
  BY <1>1 DEF SameHolders

LEMMA UserPointers ==
    ASSUME TypeInv, Pointers, NEW u \in Users, User(u)
    PROVE  Pointers'
<1>1. /\ TransportTypes /\ ActorTypes /\ u \in Actors
      /\ (pc[u] \in Holding \cup {"count"} => has[u] \in Transports)
      /\ \A t \in Transports : t # Null /\ t # NoEntry
  BY DEF TypeInv, Places, Actors, Transports, Null, NoEntry
<1>2. thr' = thr => \A t \in Transports : SameThreads(t)
  BY DEF SameThreads
<1>3. CASE UNCHANGED <<life, entry, pc, has, thr, leaving>>
  BY <1>3, PointersKept, NotNewlyHeld DEF SameHolders, SameThreads, Holding
\* Steps that only move the user, or change what Held does not look at.
<1>4. ASSUME NEW label, Goto(u, label), \A b \in Actors \ {u} : has'[b] = has[b],
             label \in Holding => pc[u] \in Holding /\ has'[u] = has[u],
             UNCHANGED <<life, leaving>>, \A t \in Transports : SameThreads(t),
             \A t \in Transports : entry' = t => entry = t
      PROVE  Pointers'
  <2>1. \A t \in Transports : SameHolders(t)
    BY <1>1, <1>4, HoldersMove
  <2>2. \A t \in Transports : Held(t)' => Held(t)
    BY <1>4, <2>1, NotNewlyHeld
  <2>3. QED
    BY <1>4, <2>2, PointersKept
<1>5. CASE GetDevice(u)
  <2>1. /\ Goto(u, "copy") /\ "copy" \notin Holding /\ UNCHANGED <<has, life, leaving, thr>>
        /\ \A t \in Transports : entry' = t => entry = t
    BY <1>1, <1>5 DEF GetDevice, Holding, transports
  <2>2. QED
    BY <1>2, <1>4, <2>1
<1>6. CASE Copy(u)
  <2>1. PICK label \in {"idle", "count"} : Goto(u, label)
    BY <1>6 DEF Copy
  <2>2. /\ label \notin Holding /\ UNCHANGED <<entry, life, leaving, thr>>
        /\ \A b \in Actors \ {u} : has'[b] = has[b]
    BY <1>1, <1>6 DEF Copy, Holding, transports, ActorTypes
  <2>3. QED
    BY <1>2, <1>4, <2>1, <2>2
<1>7. CASE Count(u) /\ life[has[u]] = "alive"
  <2>1. /\ Goto(u, "built") /\ UNCHANGED <<has, entry, life, leaving, thr>> /\ pc[u] = "count"
    BY <1>7 DEF Count, transports
  <2>2. pc'[u] = "built" /\ \A b \in Actors \ {u} : pc'[b] = pc[b]
    BY <1>1, <2>1, Moves
  <2>3. ASSUME NEW t \in Transports, Held(t)' PROVE life'[t] = "alive"
    <3>1. CASE t = has[u]
      BY <1>7, <2>1, <3>1
    <3>2. CASE t # has[u]
      <4>1. SameHolders(t)
        BY <2>1, <2>2, <3>2 DEF SameHolders
      <4>2. Held(t)
        BY <1>2, <2>1, <2>3, <4>1, NotNewlyHeld
      <4>3. QED
        BY <2>1, <4>2 DEF Pointers
    <3>3. QED
      BY <3>1, <3>2
  <2>4. QED
    BY <2>3 DEF Pointers
<1>8. ASSUME NEW parent \in Users, Child(u, parent) PROVE Pointers'
  <2>1. /\ Goto(u, "child") /\ UNCHANGED <<entry, life, leaving, thr>> /\ pc[parent] = "ok"
        /\ has' = [has EXCEPT ![u] = has[parent]]
    BY <1>8 DEF Child, transports
  <2>2. pc'[u] = "child" /\ \A b \in Actors \ {u} : pc'[b] = pc[b]
    BY <1>1, <2>1, Moves
  <2>3. /\ has'[u] = has[parent] /\ \A b \in Actors \ {u} : has'[b] = has[b]
        /\ parent \in Actors /\ "ok" \in Holding
    BY <1>1, <2>1 DEF ActorTypes, Actors, Holding
  <2>4. ASSUME NEW t \in Transports, Held(t)' PROVE life'[t] = "alive"
    <3>1. CASE t = has[parent]
      <4>1. Held(t)
        BY <2>1, <2>3, <3>1 DEF Held, Holders
      <4>2. QED
        BY <2>1, <4>1 DEF Pointers
    <3>2. CASE t # has[parent]
      <4>1. SameHolders(t)
        BY <2>2, <2>3, <3>2 DEF SameHolders
      <4>2. Held(t)
        BY <1>2, <2>1, <2>4, <4>1, NotNewlyHeld
      <4>3. QED
        BY <2>1, <4>2 DEF Pointers
    <3>3. QED
      BY <3>1, <3>2
  <2>5. QED
    BY <2>4 DEF Pointers
<1>9. CASE TestKicked(u) \/ Start(u) \/ GetId(u) \/ Destroy(u) \/ Uncount(u)
  <2>1. PICK label : Goto(u, label)
    BY <1>9 DEF TestKicked, Start, GetId, Destroy, Uncount
  <2>2. pc[u] \in Holding /\ UNCHANGED <<has, entry, life, leaving>>
    BY <1>9 DEF TestKicked, Start, GetId, Destroy, Uncount, Holding, transports
  <2>3. \A t \in Transports : SameThreads(t)
    <3>1. CASE thr' = thr
      BY <1>2, <3>1
    <3>2. CASE thr' = [thr EXCEPT ![has[u]] = [i \in Pump |-> "created"]]
      BY <1>1, <3>2 DEF SameThreads, TransportTypes
    <3>3. QED
      BY <1>9, <3>1, <3>2 DEF TestKicked, Start, GetId, Destroy, Uncount, transports
  <2>4. QED
    BY <1>4, <2>1, <2>2, <2>3
<1>10. CASE Reset(u)
  <2>1. PICK t \in Transports : t = has[u]
    BY <1>1, <1>10 DEF Reset, Holding
  <2>2. /\ Release(t) /\ Goto(u, "released") /\ "released" \notin Holding /\ pc[u] = "reset"
        /\ UNCHANGED <<has, entry, leaving, thr>>
    BY <1>10, <2>1 DEF Reset, Holding
  <2>3. \A k \in Transports : SameHolders(k)
    BY <1>1, <2>2, HoldersMove
  <2>4. \A k \in Transports : Held(k)' => Held(k)
    BY <1>2, <2>2, <2>3, NotNewlyHeld
  <2>5. ASSUME UseCount(t) = 1 PROVE ~Held(t)'
    <3>1. u \in Holders(t)
      BY <1>1, <2>1, <2>2 DEF Holders, Holding
    <3>2. Holders(t) = {u} /\ Running(t) = {} /\ leaving[t] = 0 /\ entry # t
      BY <2>5, <3>1, LastHolder
    <3>3. pc'[u] = "released"
      BY <1>1, <2>2, Moves
    <3>4. Holders(t)' = {}
      BY <2>2, <2>3, <3>2, <3>3 DEF Holders, SameHolders, Holding
    <3>5. Running(t)' = {}
      BY <2>2, <3>2 DEF Running
    <3>6. QED
      BY <2>2, <3>2, <3>4, <3>5 DEF Held
  <2>6. QED
    BY <2>2, <2>4, <2>5, ReleaseKeepsPointers
<1>11. CASE Released(u)
  <2>1. /\ Goto(u, "idle") /\ "idle" \notin Holding /\ UNCHANGED <<entry, life, leaving, thr>>
        /\ \A b \in Actors \ {u} : has'[b] = has[b]
    BY <1>1, <1>11 DEF Released, Holding, transports, ActorTypes
  <2>2. QED
    BY <1>2, <1>4, <2>1
<1>12. CopyErased(u) \/ UsbClose(u) \/ (Count(u) /\ life[has[u]] # "alive")
           => UNCHANGED <<life, entry, pc, has, thr, leaving>>
  BY DEF CopyErased, UsbClose, Count, Fault, transports, actors
<1>13. QED
  BY <1>3, <1>5, <1>6, <1>7, <1>8, <1>9, <1>10, <1>11, <1>12 DEF User, UserStep

LEMMA ScannerPointers ==
    ASSUME TypeInv, Pointers, NEW s \in Scanners,
           ScannerCall(s) \/ GetDeviceNameList(s) \/ ScannerStep(s)
    PROVE  Pointers'
<1>1. /\ TransportTypes /\ ActorTypes /\ s \in Actors
      /\ (pc[s] \in Holding => has[s] \in Transports)
      /\ pc[s] \in {"drop", "drop_only"} => entry \in Transports
      /\ \A t \in Transports : t # Null /\ t # NoEntry
  BY DEF TypeInv, Places, Actors, Transports, Null, NoEntry
<1>2. thr' = thr => \A t \in Transports : SameThreads(t)
  BY DEF SameThreads
<1>3. CASE GetDeviceNameList(s)
  <2>1. UNCHANGED <<life, entry, pc, has, thr, leaving>>
    BY <1>3 DEF GetDeviceNameList, Fault, transports, actors
  <2>2. QED
    BY <2>1, PointersKept, NotNewlyHeld DEF SameHolders, SameThreads, Holding
<1>4. ASSUME NEW label, Goto(s, label), \A b \in Actors \ {s} : has'[b] = has[b],
             label \in Holding => pc[s] \in Holding /\ has'[s] = has[s],
             UNCHANGED <<life, leaving, thr>>, \A t \in Transports : entry' = t => entry = t
      PROVE  Pointers'
  <2>1. \A t \in Transports : SameHolders(t)
    BY <1>1, <1>4, HoldersMove
  <2>2. \A t \in Transports : Held(t)' => Held(t)
    BY <1>2, <1>4, <2>1, NotNewlyHeld
  <2>3. QED
    BY <1>4, <2>2, PointersKept
\* The list's own pointer is reset.
<1>5. ASSUME NEW label, Goto(s, label), UNCHANGED <<has, leaving, thr>>, entry \in Transports,
             Release(entry), entry' = Null, label \in Holding => pc[s] \in Holding
      PROVE  Pointers'
  <2>1. PICK t \in Transports : t = entry
    BY <1>5
  <2>2. Release(t)
    BY <1>5, <2>1
  <2>3. \A k \in Transports : SameHolders(k)
    BY <1>1, <1>5, HoldersMove
  <2>4. \A k \in Transports : Held(k)' => Held(k)
    BY <1>1, <1>2, <1>5, <2>3, NotNewlyHeld
  <2>5. ASSUME UseCount(t) = 1 PROVE ~Held(t)'
    <3>1. Holders(t) = {} /\ Running(t) = {} /\ leaving[t] = 0
      BY <2>1, <2>5, LastEntry
    <3>2. Holders(t)' = {}
      BY <2>3, <3>1 DEF Holders, SameHolders, Holding
    <3>3. Running(t)' = {}
      BY <1>5, <3>1 DEF Running
    <3>4. QED
      BY <1>1, <1>5, <3>1, <3>2, <3>3 DEF Held
  <2>6. QED
    BY <2>2, <2>4, <2>5, ReleaseKeepsPointers
<1>6. CASE ScannerCall(s) \/ RemoveDeviceAll(s) \/ Check(s) \/ Scan(s)
  <2>1. PICK label \in ScannerLabels \ Holding : Goto(s, label)
    BY <1>6 DEF ScannerCall, FindDevices, RepleaseAdb, RemoveDeviceAll, Check, AfterCheck, Scan,
                ScannerLabels, Holding
  <2>2. UNCHANGED <<has, entry, life, leaving, thr>>
    BY <1>6 DEF ScannerCall, RemoveDeviceAll, Check, Scan, transports
  <2>3. QED
    BY <1>4, <2>1, <2>2
<1>7. CASE Drop(s)
  <2>1. PICK label \in {"erase", "erase_only"} : Goto(s, label)
    BY <1>7 DEF Drop
  <2>2. label \notin Holding /\ entry \in Transports
    BY <1>1, <1>7 DEF Drop, Holding
  <2>3. UNCHANGED <<has, leaving, thr>> /\ Release(entry) /\ entry' = Null
    BY <1>7 DEF Drop
  <2>4. QED
    BY <1>5, <2>1, <2>2, <2>3
<1>8. CASE Erase(s)
  <2>1. /\ pc' = [a \in Actors |-> IF a = s THEN AfterCheck(s)
                                   ELSE IF pc[a] = "copy" THEN "erased" ELSE pc[a]]
        /\ entry' = NoEntry /\ UNCHANGED <<has, life, leaving, thr>>
    BY <1>8 DEF Erase, transports
  <2>2. AfterCheck(s) \notin Holding /\ "erased" \notin Holding
    BY DEF AfterCheck, Holding
  <2>3. \A t \in Transports : SameHolders(t)
    BY <2>1, <2>2 DEF SameHolders
  <2>4. \A t \in Transports : Held(t)' => Held(t)
    BY <1>1, <1>2, <2>1, <2>3, NotNewlyHeld
  <2>5. QED
    BY <2>1, <2>4, PointersKept
<1>9. CASE RegisterNewDevice(s)
  <2>1. UNCHANGED <<entry, thr, leaving>>
    BY <1>9 DEF RegisterNewDevice
  <2>2. CASE OpenFailed(s)
    <3>1. Goto(s, "idle") /\ "idle" \notin Holding /\ UNCHANGED <<life, has>>
      BY <2>2 DEF OpenFailed, Holding
    <3>2. QED
      BY <1>4, <2>1, <3>1
  <2>3. ASSUME NEW t \in Transports, Opened(s, t) PROVE Pointers'
    <3>1. pc'[s] = "register" /\ \A b \in Actors \ {s} : pc'[b] = pc[b]
      BY <1>1, <2>3, Moves DEF Opened
    <3>2. /\ has'[s] = t /\ \A b \in Actors \ {s} : has'[b] = has[b]
          /\ life'[t] = "alive" /\ \A k \in Transports \ {t} : life'[k] = life[k]
      BY <1>1, <2>3 DEF Opened, ActorTypes, TransportTypes
    <3>3. ASSUME NEW k \in Transports \ {t}, Held(k)' PROVE life'[k] = "alive"
      <4>1. SameHolders(k)
        BY <3>1, <3>2 DEF SameHolders
      <4>2. Held(k)
        BY <1>2, <2>1, <3>3, <4>1, NotNewlyHeld
      <4>3. QED
        BY <3>2, <4>2 DEF Pointers
    <3>4. QED
      BY <3>2, <3>3 DEF Pointers
  <2>4. OpenFailed(s) \/ \E t \in Transports : Opened(s, t)
    BY <1>9 DEF RegisterNewDevice
  <2>5. QED
    BY <2>2, <2>3, <2>4
<1>10. CASE RegisterReset(s)
  <2>1. Goto(s, "assign") /\ pc[s] \in Holding /\ UNCHANGED <<has, leaving, thr>> /\ entry' = Null
    BY <1>10 DEF RegisterReset, Holding
  <2>2. CASE entry \in Transports
    BY <1>5, <1>10, <2>1, <2>2 DEF RegisterReset
  <2>3. CASE entry \notin Transports
    BY <1>1, <1>4, <1>10, <2>1, <2>3 DEF RegisterReset
  <2>4. QED
    BY <2>2, <2>3
<1>11. CASE RegisterAssign(s)
  <2>1. /\ Goto(s, "idle") /\ "idle" \notin Holding /\ UNCHANGED <<life, leaving, thr>>
        /\ entry' = has[s] /\ has' = [has EXCEPT ![s] = 0] /\ pc[s] \in Holding
    BY <1>11 DEF RegisterAssign, Holding, transports
  <2>2. \A b \in Actors \ {s} : has'[b] = has[b]
    BY <1>1, <2>1 DEF ActorTypes
  <2>3. \A t \in Transports : SameHolders(t)
    BY <1>1, <2>1, <2>2, HoldersMove
  <2>4. ASSUME NEW t \in Transports, Held(t)' PROVE life'[t] = "alive"
    <3>1. CASE t = has[s]
      <4>1. Held(t)
        BY <1>1, <2>1, <3>1 DEF Held, Holders
      <4>2. QED
        BY <2>1, <4>1 DEF Pointers
    <3>2. CASE t # has[s]
      <4>1. Held(t)
        BY <1>2, <2>1, <2>3, <2>4, <3>2, NotNewlyHeld
      <4>2. QED
        BY <2>1, <4>1 DEF Pointers
    <3>3. QED
      BY <3>1, <3>2
  <2>5. QED
    BY <2>4 DEF Pointers
<1>12. QED
  BY <1>3, <1>6, <1>7, <1>8, <1>9, <1>10, <1>11 DEF ScannerStep

LEMMA PumpPointers ==
    ASSUME TypeInv, Pointers, (\E t \in Transports : PumpStep(t)) \/ Cable
    PROVE  Pointers'
<1>1. TransportTypes /\ UNCHANGED <<pc, has, entry>>
  BY DEF TypeInv, PumpStep, Begin, Leave, ThreadReset, Dtor, Cable, Plug, Unplug, Fault, actors
<1>2. \A k \in Transports : SameHolders(k)
  BY <1>1 DEF SameHolders, Holding
<1>3. ASSUME NEW t \in Transports, NEW i \in Pump, Begin(t, i) PROVE Pointers'
  <2>1. /\ UNCHANGED <<life, leaving>>
        /\ thr' = [thr EXCEPT ![t][i] = IF life[t] = "alive" THEN "running" ELSE "failed"]
    BY <1>3 DEF Begin
  <2>2. ASSUME NEW k \in Transports, Held(k)' PROVE life'[k] = "alive"
    <3>1. CASE k = t /\ life[t] = "alive"
      BY <2>1, <3>1
    <3>2. CASE k # t \/ life[t] # "alive"
      <4>1. SameThreads(k)
        BY <1>1, <2>1, <3>2 DEF SameThreads, TransportTypes
      <4>2. Held(k)
        BY <1>1, <1>2, <2>1, <2>2, <4>1, NotNewlyHeld
      <4>3. QED
        BY <2>1, <4>2 DEF Pointers
    <3>3. QED
      BY <3>1, <3>2
  <2>3. QED
    BY <2>2 DEF Pointers
<1>4. ASSUME NEW t \in Transports, NEW i \in Pump, Leave(t, i) PROVE Pointers'
  <2>1. /\ UNCHANGED life /\ thr[t][i] = "running" /\ thr' = [thr EXCEPT ![t][i] = "none"]
        /\ leaving' = [leaving EXCEPT ![t] = @ + 1]
    BY <1>4 DEF Leave
  <2>2. Held(t) /\ life[t] = "alive"
    BY <2>1 DEF Held, Running, Pointers
  <2>3. \A k \in Transports : SameThreads(k)
    BY <1>1, <2>1 DEF SameThreads, TransportTypes
  <2>4. \A k \in Transports \ {t} : leaving'[k] = leaving[k]
    BY <1>1, <2>1 DEF TransportTypes
  <2>5. \A k \in Transports \ {t} : Held(k)' => Held(k)
    BY <1>1, <1>2, <2>3, <2>4, NotNewlyHeld
  <2>6. QED
    BY <2>1, <2>2, <2>5 DEF Pointers
<1>5. ASSUME NEW t \in Transports, ThreadReset(t) PROVE Pointers'
  <2>1. /\ leaving[t] > 0 /\ Release(t) /\ leaving' = [leaving EXCEPT ![t] = @ - 1] /\ UNCHANGED thr
    BY <1>5 DEF ThreadReset
  <2>2. \A k \in Transports : SameThreads(k) /\ (leaving'[k] > 0 => leaving[k] > 0)
    BY <1>1, <2>1 DEF SameThreads, TransportTypes
  <2>3. \A k \in Transports : Held(k)' => Held(k)
    BY <1>1, <1>2, <2>2, NotNewlyHeld
  <2>4. ASSUME UseCount(t) = 1 PROVE ~Held(t)'
    <3>1. Holders(t) = {} /\ Running(t) = {} /\ leaving[t] = 1 /\ entry # t
      BY <2>1, <2>4, LastThread
    <3>2. leaving'[t] = 0
      BY <1>1, <2>1, <3>1 DEF TransportTypes
    <3>3. Holders(t)' = {} /\ Running(t)' = {}
      BY <1>1, <2>1, <3>1 DEF Holders, Running, Holding
    <3>4. QED
      BY <1>1, <3>1, <3>2, <3>3 DEF Held
  <2>5. QED
    BY <2>1, <2>3, <2>4, ReleaseKeepsPointers
<1>6. ASSUME NEW t \in Transports, Dtor(t) PROVE Pointers'
  <2>1. UNCHANGED <<thr, leaving>> /\ life[t] # "alive" /\ (life' = life \/ life' = [life EXCEPT ![t] = "dead"])
    BY <1>6 DEF Dtor, Fault, transports
  <2>2. \A k \in Transports : Held(k)' => Held(k)
    BY <1>1, <1>2, <2>1, NotNewlyHeld DEF SameThreads
  <2>3. \A k \in Transports \ {t} : life'[k] = life[k]
    BY <1>1, <2>1 DEF TransportTypes
  <2>4. QED
    BY <2>1, <2>2, <2>3 DEF Pointers
<1>7. CASE Cable
  <2>1. UNCHANGED <<life, thr, leaving>>
    BY <1>7 DEF Cable, Plug, Unplug, transports
  <2>2. \A k \in Transports : Held(k)' => Held(k)
    BY <1>1, <1>2, <2>1, NotNewlyHeld DEF SameThreads
  <2>3. QED
    BY <2>1, <2>2, PointersKept
<1>8. QED
  BY <1>3, <1>4, <1>5, <1>6, <1>7 DEF PumpStep

LEMMA PointersStep == TypeInv /\ Pointers /\ [Next]_vars => Pointers'
<1> SUFFICES ASSUME TypeInv, Pointers, [Next]_vars PROVE Pointers'
  OBVIOUS
<1>1. CASE Next
  <2>1. ASSUME NEW u \in Users, User(u) PROVE Pointers'
    BY <2>1, UserPointers
  <2>2. ASSUME NEW s \in Scanners, ScannerCall(s) \/ GetDeviceNameList(s) \/ ScannerStep(s)
        PROVE  Pointers'
    BY <2>2, ScannerPointers
  <2>3. CASE (\E t \in Transports : PumpStep(t)) \/ Cable
    BY <2>3, PumpPointers
  <2>4. QED
    BY <1>1, <2>1, <2>2, <2>3, Steps
<1>2. CASE UNCHANGED vars
  <2>1. UNCHANGED <<life, entry, pc, has, thr, leaving>>
    BY <1>2 DEF vars, transports, actors
  <2>2. \A k \in Transports : Held(k)' => Held(k)
    BY <2>1, NotNewlyHeld DEF SameHolders, SameThreads, Holding
  <2>3. QED
    BY <2>1, <2>2, PointersKept
<1>3. QED
  BY <1>1, <1>2

-------------------------------------------------------------------------------
(* Counts.                                                                 *)

Connects == \A t \in Transports : connectCount[t] = Cardinality(Connected(t))
Starts == \A t \in Transports : refCount[t] = Cardinality(Started(t))

LEMMA CountSets ==
    ASSUME NEW t
    PROVE  /\ IsFiniteSet(Connected(t)) /\ IsFiniteSet(Started(t))
           /\ Cardinality(Connected(t)) \in 0..Cardinality(Users)
           /\ Cardinality(Started(t)) \in 0..Cardinality(Pump)
           /\ Cardinality(Started(t)) = 0 => Started(t) = {}
<1>1. Connected(t) \subseteq Users /\ Started(t) \subseteq Pump
  BY DEF Connected, Started
<1>2. /\ IsFiniteSet(Connected(t)) /\ Cardinality(Connected(t)) <= Cardinality(Users)
      /\ IsFiniteSet(Started(t)) /\ Cardinality(Started(t)) <= Cardinality(Pump)
  BY <1>1, Counts, FS_Subset
<1>3. /\ Cardinality(Connected(t)) \in Nat /\ Cardinality(Users) \in Nat
      /\ Cardinality(Started(t)) \in Nat /\ Cardinality(Pump) \in Nat
  BY <1>2, Counts, FS_CardinalityType
<1>4. Cardinality(Started(t)) = 0 => Started(t) = {}
  BY <1>2, FS_EmptySet
<1>5. QED
  BY <1>2, <1>3, <1>4

\* No user becomes connected or ceases to be.
SameUsers ==
    \A u \in Users : /\ pc[u]' \in {"ok", "uncount"} <=> pc[u] \in {"ok", "uncount"}
                     /\ pc[u]' \in {"ok", "uncount"} => has[u]' = has[u]

LEMMA ConnectsKept ==
    ASSUME Connects, SameUsers, connectCount' = connectCount
    PROVE  Connects'
<1>1. ASSUME NEW t \in Transports PROVE Connected(t)' = Connected(t)
  BY DEF Connected, SameUsers
<1>2. QED
  BY <1>1 DEF Connects

LEMMA UserConnects ==
    ASSUME TypeInv, Connects, NEW u \in Users, User(u)
    PROVE  Connects'
<1>1. /\ TransportTypes /\ ActorTypes /\ u \in Actors /\ Users \subseteq Actors
      /\ (pc[u] \in Holding \cup {"count"} => has[u] \in Transports)
  BY DEF TypeInv, Places, Actors
<1>2. ASSUME NEW label, Goto(u, label), \A b \in Actors \ {u} : has'[b] = has[b],
             connectCount' = connectCount,
             \/ pc[u] \notin {"ok", "uncount"} /\ label \notin {"ok", "uncount"}
             \/ pc[u] \in {"ok", "uncount"} /\ label \in {"ok", "uncount"} /\ has'[u] = has[u]
      PROVE  Connects'
  <2>1. pc'[u] = label /\ \A b \in Actors \ {u} : pc'[b] = pc[b]
    BY <1>1, <1>2, Moves
  <2>2. SameUsers
    BY <1>1, <1>2, <2>1 DEF SameUsers
  <2>3. QED
    BY <1>2, <2>2, ConnectsKept
<1>3. CASE UNCHANGED <<pc, has, connectCount>>
  BY <1>3, ConnectsKept DEF SameUsers
<1>4. CASE GetDevice(u) \/ Copy(u) \/ (Count(u) /\ life[has[u]] = "alive") \/ TestKicked(u)
           \/ Start(u) \/ Destroy(u) \/ Reset(u) \/ Released(u)
  <2>1. PICK label : /\ Goto(u, label)
                     /\ \/ pc[u] \notin {"ok", "uncount"} /\ label \notin {"ok", "uncount"}
                        \/ pc[u] = "ok" /\ label = "uncount" /\ has' = has
    BY <1>4 DEF GetDevice, Copy, Count, TestKicked, Start, Destroy, Reset, Released
  <2>2. connectCount' = connectCount
    BY <1>4 DEF GetDevice, Copy, Count, TestKicked, Start, Destroy, Reset, Released, transports
  <2>3. \A b \in Actors \ {u} : has'[b] = has[b]
    BY <1>1, <1>4 DEF GetDevice, Copy, Count, TestKicked, Start, Destroy, Reset, Released, ActorTypes
  <2>4. QED
    BY <1>2, <2>1, <2>2, <2>3
<1>5. ASSUME NEW parent \in Users, Child(u, parent) PROVE Connects'
  <2>1. Goto(u, "child") /\ pc[u] = "idle" /\ UNCHANGED connectCount
    BY <1>5 DEF Child, transports
  <2>2. \A b \in Actors \ {u} : has'[b] = has[b]
    BY <1>1, <1>5 DEF Child, ActorTypes
  <2>3. QED
    BY <1>2, <2>1, <2>2
<1>6. CASE GetId(u)
  <2>1. PICK t \in Transports : t = has[u]
    BY <1>1, <1>6 DEF GetId, Holding
  <2>2. pc[u] = "get_id" /\ UNCHANGED has
    BY <1>6 DEF GetId
  <2>3. CASE Goto(u, "reset") /\ UNCHANGED connectCount
    BY <1>2, <2>2, <2>3
  <2>4. CASE Goto(u, "ok") /\ connectCount' = [connectCount EXCEPT ![t] = @ + 1]
    <3>1. pc'[u] = "ok" /\ \A b \in Actors \ {u} : pc'[b] = pc[b]
      BY <1>1, <2>4, Moves
    <3>2. Connected(t)' = Connected(t) \cup {u} /\ u \notin Connected(t)
      BY <1>1, <2>1, <2>2, <3>1 DEF Connected
    <3>3. \A k \in Transports \ {t} : Connected(k)' = Connected(k)
      BY <1>1, <2>1, <2>2, <3>1 DEF Connected
    <3>4. Cardinality(Connected(t)') = Cardinality(Connected(t)) + 1
      BY <3>2, CountSets, FS_AddElement
    <3>5. connectCount'[t] = connectCount[t] + 1
          /\ \A k \in Transports \ {t} : connectCount'[k] = connectCount[k]
      BY <1>1, <2>4 DEF TransportTypes
    <3>6. QED
      BY <3>3, <3>4, <3>5 DEF Connects
  <2>5. QED
    BY <1>6, <2>1, <2>3, <2>4 DEF GetId
<1>7. CASE Uncount(u)
  <2>1. PICK t \in Transports : t = has[u]
    BY <1>1, <1>7 DEF Uncount, Holding
  <2>2. /\ pc[u] = "uncount" /\ UNCHANGED has /\ Goto(u, "reset")
        /\ connectCount' = [connectCount EXCEPT ![t] = @ - 1]
    BY <1>7, <2>1 DEF Uncount
  <2>3. pc'[u] = "reset" /\ \A b \in Actors \ {u} : pc'[b] = pc[b]
    BY <1>1, <2>2, Moves
  <2>4. Connected(t)' = Connected(t) \ {u} /\ u \in Connected(t)
    BY <1>1, <2>1, <2>2, <2>3 DEF Connected
  <2>5. \A k \in Transports \ {t} : Connected(k)' = Connected(k)
    BY <1>1, <2>1, <2>2, <2>3 DEF Connected
  <2>6. Cardinality(Connected(t)') = Cardinality(Connected(t)) - 1
    BY <2>4, CountSets, FS_RemoveElement
  <2>7. connectCount'[t] = connectCount[t] - 1
        /\ \A k \in Transports \ {t} : connectCount'[k] = connectCount[k]
    BY <1>1, <2>2 DEF TransportTypes
  <2>8. QED
    BY <2>5, <2>6, <2>7 DEF Connects
<1>8. CopyErased(u) \/ UsbClose(u) \/ (Count(u) /\ life[has[u]] # "alive")
           => UNCHANGED <<pc, has, connectCount>>
  BY DEF CopyErased, UsbClose, Count, Fault, transports, actors
<1>9. QED
  BY <1>3, <1>4, <1>5, <1>6, <1>7, <1>8 DEF User, UserStep

LEMMA ConnectsStep == TypeInv /\ Connects /\ [Next]_vars => Connects'
<1> SUFFICES ASSUME TypeInv, Connects, [Next]_vars PROVE Connects'
  OBVIOUS
<1>1. ActorTypes /\ Users \subseteq Actors /\ Scanners \subseteq Actors /\ Users \cap Scanners = {}
  BY RegistryAssumption DEF TypeInv, Actors
<1>2. ASSUME UNCHANGED <<pc, has, connectCount>> PROVE Connects'
  BY <1>2, ConnectsKept DEF SameUsers
<1>3. ASSUME NEW u \in Users, User(u) PROVE Connects'
  BY <1>3, UserConnects
<1>4. ASSUME NEW s \in Scanners, ScannerCall(s) \/ GetDeviceNameList(s) \/ ScannerStep(s)
      PROVE  Connects'
  <2>1. CASE GetDeviceNameList(s)
    BY <1>2, <2>1 DEF GetDeviceNameList, Fault, transports, actors
  <2>2. CASE Erase(s)
    <3>1. /\ pc' = [a \in Actors |-> IF a = s THEN AfterCheck(s)
                                     ELSE IF pc[a] = "copy" THEN "erased" ELSE pc[a]]
          /\ UNCHANGED <<has, connectCount>>
      BY <2>2 DEF Erase, transports
    <3>2. SameUsers
      BY <1>1, <3>1 DEF SameUsers
    <3>3. QED
      BY <3>1, <3>2, ConnectsKept
  <2>3. CASE ~GetDeviceNameList(s) /\ ~Erase(s)
    <3>1. PICK label : Goto(s, label)
      BY <1>4, <2>3 DEF ScannerCall, FindDevices, RepleaseAdb, ScannerStep, RemoveDeviceAll, Check,
                        Drop, Scan, RegisterNewDevice, OpenFailed, Opened, RegisterReset,
                        RegisterAssign
    <3>2. UNCHANGED connectCount
      BY <1>4, <2>3 DEF ScannerCall, ScannerStep, RemoveDeviceAll, Check, Drop, Scan,
                        RegisterNewDevice, RegisterReset, RegisterAssign, transports
    <3>3. has' = has \/ \E t : has' = [has EXCEPT ![s] = t]
      BY <1>4, <2>3 DEF ScannerCall, ScannerStep, RemoveDeviceAll, Check, Drop, Scan,
                        RegisterNewDevice, OpenFailed, Opened, RegisterReset, RegisterAssign
    <3>4. \A u \in Users : pc'[u] = pc[u]
      BY <1>1, <3>1, Moves
    <3>5. \A u \in Users : has'[u] = has[u]
      BY <1>1, <3>3 DEF ActorTypes
    <3>6. SameUsers
      BY <3>4, <3>5 DEF SameUsers
    <3>7. QED
      BY <3>2, <3>6, ConnectsKept
  <2>4. QED
    BY <2>1, <2>2, <2>3
<1>5. CASE (\E t \in Transports : PumpStep(t)) \/ Cable
  BY <1>2, <1>5 DEF PumpStep, Begin, Leave, ThreadReset, Dtor, Cable, Plug, Unplug, Fault,
                    transports, actors
<1>6. CASE UNCHANGED vars
  BY <1>2, <1>6 DEF vars, transports, actors
<1>7. QED
  BY <1>3, <1>4, <1>5, <1>6, Steps

LEMMA StartsStep == TypeInv /\ Starts /\ [Next]_vars => Starts'
<1> SUFFICES ASSUME TypeInv, Starts, [Next]_vars PROVE Starts'
  OBVIOUS
<1>1. TransportTypes
  BY DEF TypeInv
<1>2. CASE UNCHANGED <<thr, refCount>>
  BY <1>2 DEF Starts, Started
<1>3. ASSUME NEW u \in Users, Start(u) PROVE Starts'
  <2>1. PICK t \in Transports : t = has[u]
    BY <1>3 DEF Start, Holding, TypeInv, Places, Actors
  <2>2. CASE refCount[t] = 0
    <3>1. /\ thr' = [thr EXCEPT ![t] = [i \in Pump |-> "created"]]
          /\ refCount' = [refCount EXCEPT ![t] = Cardinality(Pump)]
      BY <1>3, <2>1, <2>2 DEF Start
    <3>2. thr'[t] = [i \in Pump |-> "created"] /\ \A k \in Transports \ {t} : thr'[k] = thr[k]
      BY <1>1, <3>1 DEF TransportTypes
    <3>3. Started(t)' = Pump
      BY <3>2 DEF Started
    <3>4. \A k \in Transports \ {t} : Started(k)' = Started(k)
      BY <3>2 DEF Started
    <3>5. refCount'[t] = Cardinality(Pump) /\ \A k \in Transports \ {t} : refCount'[k] = refCount[k]
      BY <1>1, <3>1 DEF TransportTypes
    <3>6. QED
      BY <3>3, <3>4, <3>5 DEF Starts
  <2>3. CASE refCount[t] # 0
    BY <1>2, <1>3, <2>1, <2>3 DEF Start
  <2>4. QED
    BY <2>2, <2>3
<1>4. ASSUME NEW t \in Transports, NEW i \in Pump, Begin(t, i) PROVE Starts'
  <2>1. PICK x \in {"running", "failed"} : thr' = [thr EXCEPT ![t][i] = x]
    BY <1>4 DEF Begin
  <2>2. thr[t][i] = "created" /\ refCount' = refCount
    BY <1>4 DEF Begin
  <2>3. ASSUME NEW k \in Transports, NEW j \in Pump PROVE thr'[k][j] = "none" <=> thr[k][j] = "none"
    BY <1>1, <2>1, <2>2 DEF TransportTypes
  <2>4. \A k \in Transports : Started(k)' = Started(k)
    BY <2>3 DEF Started
  <2>5. QED
    BY <2>2, <2>4 DEF Starts
<1>5. ASSUME NEW t \in Transports, NEW i \in Pump, Leave(t, i) PROVE Starts'
  <2>1. /\ thr' = [thr EXCEPT ![t][i] = "none"] /\ thr[t][i] = "running"
        /\ refCount' = [refCount EXCEPT ![t] = @ - 1]
    BY <1>5 DEF Leave
  <2>2. /\ thr'[t][i] = "none" /\ \A j \in Pump \ {i} : thr'[t][j] = thr[t][j]
        /\ \A k \in Transports \ {t} : thr'[k] = thr[k]
    BY <1>1, <2>1 DEF TransportTypes
  <2>3. Started(t)' = Started(t) \ {i} /\ i \in Started(t)
    BY <2>1, <2>2 DEF Started
  <2>4. Cardinality(Started(t)') = Cardinality(Started(t)) - 1
    BY <2>3, CountSets, FS_RemoveElement
  <2>5. \A k \in Transports \ {t} : Started(k)' = Started(k)
    BY <2>2 DEF Started
  <2>6. refCount'[t] = refCount[t] - 1 /\ \A k \in Transports \ {t} : refCount'[k] = refCount[k]
    BY <1>1, <2>1 DEF TransportTypes
  <2>7. QED
    BY <2>4, <2>5, <2>6 DEF Starts
<1>6. ASSUME NEW u \in Users, User(u) PROVE Starts'
  <2>1. Start(u) \/ UNCHANGED <<thr, refCount>>
    BY <1>6 DEF User, UserStep, GetDevice, Copy, CopyErased, Count, Child, TestKicked, GetId,
                UsbClose, Destroy, Uncount, Reset, Released, Fault, transports
  <2>2. QED
    BY <1>2, <1>3, <2>1
<1>7. ASSUME NEW s \in Scanners, ScannerCall(s) \/ GetDeviceNameList(s) \/ ScannerStep(s)
      PROVE  Starts'
  BY <1>2, <1>7 DEF ScannerCall, GetDeviceNameList, ScannerStep, RemoveDeviceAll, Check, Drop, Erase,
                    Scan, RegisterNewDevice, RegisterReset, RegisterAssign, Fault, transports
<1>8. ASSUME NEW t \in Transports, PumpStep(t) PROVE Starts'
  BY <1>2, <1>4, <1>5, <1>8 DEF PumpStep, ThreadReset, Dtor, Fault, transports
<1>9. Cable \/ UNCHANGED vars => UNCHANGED <<thr, refCount>>
  BY DEF Cable, Plug, Unplug, vars, transports
<1>10. QED
  BY <1>2, <1>6, <1>7, <1>8, <1>9, Steps

-------------------------------------------------------------------------------
(* What has ended, and what is open.                                       *)

LEMMA EndedStep == TypeInv /\ Pointers /\ Ended /\ [Next]_vars => Ended'
<1> SUFFICES ASSUME TypeInv, Pointers, Ended, [Next]_vars PROVE Ended'
  OBVIOUS
<1>1. TransportTypes
  BY DEF TypeInv
<1>2. ASSUME UNCHANGED refCount, \A t \in Transports : life'[t] = "dead" => life[t] = "dead" PROVE Ended'
  BY <1>2 DEF Ended
<1>3. ASSUME UNCHANGED life,
             \A t \in Transports : life[t] # "alive" => refCount'[t] = refCount[t]
      PROVE  Ended'
  BY <1>3 DEF Ended
<1>4. ASSUME NEW t \in Transports, Release(t)
      PROVE  \A k \in Transports : life'[k] = "dead" => life[k] = "dead"
  BY <1>1, <1>4 DEF Release, TransportTypes
<1>5. ASSUME NEW u \in Users, User(u) PROVE Ended'
  <2>1. CASE UNCHANGED <<life, refCount>>
    BY <1>3, <2>1
  <2>2. CASE Start(u)
    <3>1. PICK t \in Transports : t = has[u] /\ u \in Holders(t)
      BY <2>2 DEF Start, Holding, TypeInv, Places, Actors, Holders
    <3>2. life[t] = "alive"
      BY <3>1 DEF Pointers, Held
    <3>3. refCount' = refCount \/ refCount' = [refCount EXCEPT ![t] = Cardinality(Pump)]
      BY <2>2, <3>1 DEF Start
    <3>4. UNCHANGED life
      BY <2>2 DEF Start
    <3>5. \A k \in Transports : life[k] # "alive" => refCount'[k] = refCount[k]
      BY <1>1, <3>2, <3>3 DEF TransportTypes
    <3>6. QED
      BY <1>3, <3>4, <3>5
  <2>3. CASE Reset(u)
    <3>1. has[u] \in Transports /\ Release(has[u]) /\ UNCHANGED refCount
      BY <2>3 DEF Reset, Holding, TypeInv, Places, Actors
    <3>2. QED
      BY <1>2, <1>4, <3>1
  <2>4. UNCHANGED <<life, refCount>> \/ Start(u) \/ Reset(u)
    BY <1>5 DEF User, UserStep, GetDevice, Copy, CopyErased, Count, Child, TestKicked, GetId,
                UsbClose, Destroy, Uncount, Released, Fault, transports
  <2>5. QED
    BY <2>1, <2>2, <2>3, <2>4
<1>6. ASSUME NEW s \in Scanners, ScannerCall(s) \/ GetDeviceNameList(s) \/ ScannerStep(s)
      PROVE  Ended'
  <2>1. UNCHANGED refCount
    BY <1>6 DEF ScannerCall, GetDeviceNameList, ScannerStep, RemoveDeviceAll, Check, Drop, Erase,
                Scan, RegisterNewDevice, RegisterReset, RegisterAssign, Fault, transports
  <2>2. CASE RegisterNewDevice(s)
    <3>1. life' = life \/ \E t \in Transports : life' = [life EXCEPT ![t] = "alive"]
      BY <2>2 DEF RegisterNewDevice, Opened, OpenFailed
    <3>2. \A t \in Transports : life'[t] = "dead" => life[t] = "dead"
      BY <1>1, <3>1 DEF TransportTypes
    <3>3. QED
      BY <1>2, <2>1, <3>2
  <2>3. CASE life' = life \/ (entry \in Transports /\ Release(entry))
    BY <1>2, <1>4, <2>1, <2>3
  <2>4. RegisterNewDevice(s) \/ life' = life \/ (entry \in Transports /\ Release(entry))
    BY <1>6 DEF ScannerCall, GetDeviceNameList, ScannerStep, RemoveDeviceAll, Check, Drop, Erase,
                Scan, RegisterReset, RegisterAssign, Fault, transports, TypeInv, Places
  <2>5. QED
    BY <2>2, <2>3, <2>4
<1>7. ASSUME NEW t \in Transports, PumpStep(t) PROVE Ended'
  <2>1. CASE UNCHANGED <<life, refCount>>
    BY <1>3, <2>1
  <2>2. ASSUME NEW i \in Pump, Leave(t, i) PROVE Ended'
    <3>1. life[t] = "alive" /\ UNCHANGED life /\ refCount' = [refCount EXCEPT ![t] = @ - 1]
      BY <2>2 DEF Leave, Pointers, Held, Running
    <3>2. \A k \in Transports : life[k] # "alive" => refCount'[k] = refCount[k]
      BY <1>1, <3>1 DEF TransportTypes
    <3>3. QED
      BY <1>3, <3>1, <3>2
  <2>3. CASE ThreadReset(t)
    BY <1>2, <1>4, <2>3 DEF ThreadReset
  <2>4. CASE Dtor(t) /\ paired[t]
    <3>1. refCount[t] = 0 /\ UNCHANGED refCount /\ life' = [life EXCEPT ![t] = "dead"]
      BY <2>4 DEF Dtor
    <3>2. QED
      BY <1>1, <3>1 DEF Ended, TransportTypes
  <2>5. \/ UNCHANGED <<life, refCount>> \/ (\E i \in Pump : Leave(t, i)) \/ ThreadReset(t)
        \/ (Dtor(t) /\ paired[t])
    BY <1>7 DEF PumpStep, Begin, Dtor, Fault, transports
  <2>6. QED
    BY <2>1, <2>2, <2>3, <2>4, <2>5
<1>8. Cable \/ UNCHANGED vars => UNCHANGED <<life, refCount>>
  BY DEF Cable, Plug, Unplug, vars, transports
<1>9. QED
  BY <1>3, <1>5, <1>6, <1>7, <1>8, Steps

LEMMA OpensStep == TypeInv /\ Opens /\ [Next]_vars => Opens'
<1> SUFFICES ASSUME TypeInv, Opens, [Next]_vars PROVE Opens'
  OBVIOUS
<1>1. TransportTypes /\ UsbTypes
  BY DEF TypeInv
<1>2. ASSUME handles' \subseteq handles, UNCHANGED port,
             \A t \in Transports : life'[t] = "unborn" => life[t] = "unborn"
      PROVE  Opens'
  BY <1>1, <1>2 DEF Opens, OneHandlePerInterface, UsbTypes
<1>3. ASSUME NEW t \in Transports, Release(t)
      PROVE  \A k \in Transports : life'[k] = "unborn" => life[k] = "unborn"
  BY <1>1, <1>3 DEF Release, TransportTypes
<1>4. ASSUME NEW u \in Users, User(u) PROVE Opens'
  <2>1. UNCHANGED <<port, handles>>
    BY <1>4 DEF User, UserStep, GetDevice, Copy, CopyErased, Count, Child, TestKicked, Start, GetId,
                UsbClose, Destroy, Uncount, Reset, Released, Fault, usb
  <2>2. life' = life \/ (has[u] \in Transports /\ Release(has[u]))
    BY <1>4 DEF User, UserStep, GetDevice, Copy, CopyErased, Count, Child, TestKicked, Start, GetId,
                UsbClose, Destroy, Uncount, Reset, Released, Fault, transports, TypeInv, Places,
                Holding, Actors
  <2>3. QED
    BY <1>2, <1>3, <2>1, <2>2
<1>5. ASSUME NEW s \in Scanners, ScannerCall(s) \/ GetDeviceNameList(s) \/ ScannerStep(s)
      PROVE  Opens'
  <2>1. CASE UNCHANGED <<port, handles>> /\ (life' = life \/ (entry \in Transports /\ Release(entry)))
    BY <1>2, <1>3, <2>1
  <2>2. CASE OpenFailed(s)
    BY <1>2, <2>2 DEF OpenFailed
  <2>3. ASSUME NEW t \in Transports, life[t] = "unborn", Opened(s, t), ~Known(at[s]) PROVE Opens'
    <3>1. /\ handles' = handles \cup {t} /\ life'[t] = "alive"
          /\ \A k \in Transports \ {t} : life'[k] = life[k] /\ port'[k] = port[k]
          /\ port'[t] = at[s]
      BY <1>1, <2>3 DEF Opened, TransportTypes, UsbTypes
    <3>2. t \notin handles /\ \A k \in handles : port[k] # at[s]
      BY <2>3 DEF Opens, Known
    <3>3. \A k \in handles' : life'[k] # "unborn"
      BY <1>1, <3>1, <3>2 DEF Opens, UsbTypes
    <3>4. ASSUME NEW k \in handles', NEW l \in handles', k # l PROVE port'[k] # port'[l]
      BY <1>1, <3>1, <3>2, <3>4 DEF Opens, OneHandlePerInterface, UsbTypes
    <3>5. QED
      BY <3>3, <3>4 DEF Opens, OneHandlePerInterface
  <2>4. RegisterNewDevice(s) => OpenFailed(s) \/ \E t \in Transports : life[t] = "unborn"
                                                 /\ Opened(s, t) /\ ~Known(at[s])
    <3>1. \A t \in Transports : t >= t
      BY DEF Transports
    <3>2. QED
      BY <3>1 DEF RegisterNewDevice
  <2>5. \/ UNCHANGED <<port, handles>> /\ (life' = life \/ (entry \in Transports /\ Release(entry)))
        \/ RegisterNewDevice(s)
    BY <1>5 DEF ScannerCall, GetDeviceNameList, ScannerStep, RemoveDeviceAll, Check, Drop, Erase,
                Scan, RegisterReset, RegisterAssign, Fault, transports, usb, TypeInv, Places
  <2>6. QED
    BY <2>1, <2>2, <2>3, <2>4, <2>5
<1>6. ASSUME NEW t \in Transports, PumpStep(t) PROVE Opens'
  <2>1. UNCHANGED port /\ handles' \subseteq handles
    BY <1>6 DEF PumpStep, Begin, Leave, ThreadReset, Dtor, Fault, usb
  <2>2. life' = life \/ Release(t) \/ life' = [life EXCEPT ![t] = "dead"]
    BY <1>6 DEF PumpStep, Begin, Leave, ThreadReset, Dtor, Fault, transports
  <2>3. \A k \in Transports : life'[k] = "unborn" => life[k] = "unborn"
    BY <1>1, <1>3, <2>2 DEF TransportTypes
  <2>4. QED
    BY <1>2, <2>1, <2>3
<1>7. Cable \/ UNCHANGED vars => UNCHANGED <<life, port, handles>>
  BY DEF Cable, Plug, Unplug, vars, transports, usb
<1>8. QED
  BY <1>2, <1>4, <1>5, <1>6, <1>7, Steps

-------------------------------------------------------------------------------
(* The theorems.                                                           *)

LEMMA InitRegistry == Init => RegistryInv
<1> SUFFICES ASSUME Init PROVE RegistryInv
  OBVIOUS
<1>1. TypeInv
  BY InitTypeInv
<1>2. \A t \in Transports : Holders(t) = {} /\ Running(t) = {} /\ Connected(t) = {} /\ Started(t) = {}
  <2>1. \A a \in Actors : pc[a] = "idle"
    BY DEF Init
  <2>2. "idle" \notin Holding /\ Users \subseteq Actors
    BY DEF Holding, Actors
  <2>3. \A t \in Transports : Holders(t) = {} /\ Connected(t) = {}
    BY <2>1, <2>2 DEF Holders, Connected
  <2>4. \A t \in Transports : Running(t) = {} /\ Started(t) = {}
    BY DEF Init, Running, Started
  <2>5. QED
    BY <2>3, <2>4
<1>3. Counted
  BY <1>2, FS_EmptySet DEF Counted, Init
<1>4. Pointers
  BY <1>2 DEF Pointers, Held, Init, NoEntry, Transports
<1>5. Ended /\ Opens
  BY DEF Init, Ended, Opens, OneHandlePerInterface
<1>6. QED
  BY <1>1, <1>3, <1>4, <1>5 DEF RegistryInv

LEMMA RegistryInvStep == RegistryInv /\ [Next]_vars => RegistryInv'
<1> SUFFICES ASSUME RegistryInv, [Next]_vars PROVE RegistryInv'
  OBVIOUS
<1>1. Connects /\ Starts
  BY DEF RegistryInv, Counted, Connects, Starts
<1>2. Connects' /\ Starts'
  BY <1>1, ConnectsStep, StartsStep DEF RegistryInv
<1>3. Counted'
  BY <1>2 DEF Counted, Connects, Starts
<1>4. TypeInv' /\ Pointers' /\ Ended' /\ Opens'
  BY TypeInvStep, PointersStep, EndedStep, OpensStep DEF RegistryInv
<1>5. QED
  BY <1>3, <1>4 DEF RegistryInv

LEMMA RegistrySafe == Spec => []RegistryInv
<1>1. Init => RegistryInv
  BY InitRegistry
<1>2. RegistryInv /\ [Next]_vars => RegistryInv'
  BY RegistryInvStep
<1>3. QED
  BY <1>1, <1>2, PTL DEF Spec

\* Each counter of a transport counts what it is there for, so it stays between 0 and
\* the number of CAdb objects or of pump threads (CAdb.cpp 30, 57, 77; Catransport.cpp
\* 921-963), and a scanner holds atransport_lock exactly while it replaces or erases
\* the entry (adb_func.cpp 126-137, usb_windows.cpp 414-419).
THEOREM RegistryTypeOK == Spec => []TypeOK
<1>1. RegistryInv => TypeOK
  <2> SUFFICES ASSUME RegistryInv PROVE TypeOK
    OBVIOUS
  <2>1. TransportTypes /\ UsbTypes /\ ActorTypes /\ Places
    BY DEF RegistryInv, TypeInv
  <2>2. \A t \in Transports : /\ refCount[t] \in 0..Cardinality(Pump)
                              /\ connectCount[t] \in 0..Cardinality(Users)
    BY CountSets DEF RegistryInv, Counted
  <2>3. refCount \in [Transports -> 0..Cardinality(Pump)]
    BY <2>1, <2>2 DEF TransportTypes
  <2>4. connectCount \in [Transports -> 0..Cardinality(Users)]
    BY <2>1, <2>2 DEF TransportTypes
  <2>5. QED
    BY <2>1, <2>3, <2>4 DEF TypeOK, TransportTypes, UsbTypes, ActorTypes, Places, Locking
<1>2. QED
  BY <1>1, RegistrySafe, PTL

\* However many threads call FindDevices, an interface is opened once: known_device
\* and the insertion into handle_list look at the same list, and a transport's handle
\* leaves it only with the transport (usb_windows.cpp 99-117, 451-466).
THEOREM RegistryOneHandlePerInterface == Spec => []OneHandlePerInterface
<1>1. RegistryInv => OneHandlePerInterface
  BY DEF RegistryInv, Opens
<1>2. QED
  BY <1>1, RegistrySafe, PTL

\* A destructor never waits for a CAdb: whoever is counted in connectCount still holds
\* its pointer, and ~CAdb counts itself out before it lets go (CAdb.cpp 77-79,
\* Catransport.cpp 43).
THEOREM RegistryDestructorFindsNoUser == Spec => []DestructorFindsNoUser
<1>1. RegistryInv => DestructorFindsNoUser
  <2> SUFFICES ASSUME RegistryInv, NEW t \in Transports, life[t] = "dying" PROVE connectCount[t] = 0
    BY DEF DestructorFindsNoUser
  <2>1. Holders(t) = {}
    BY DEF RegistryInv, Pointers, Held
  <2>2. Connected(t) \subseteq Holders(t)
    BY DEF Connected, Holders, Holding, Actors
  <2>3. QED
    BY <2>1, <2>2, FS_EmptySet DEF RegistryInv, Counted
<1>2. QED
  BY <1>1, RegistrySafe, PTL

\* When ~Catransport is over no pump thread of the transport runs or may still begin:
\* a running one would hold a pointer, and one that was created is counted in
\* ref_count until it has run (Catransport.cpp 43-47, 70, 921-963).
THEOREM RegistryNoThreadOutlives == Spec => []NoThreadOutlives
<1>1. RegistryInv => NoThreadOutlives
  <2> SUFFICES ASSUME RegistryInv, NEW t \in Transports, life[t] = "dead"
               PROVE  leaving[t] = 0 /\ \A i \in Pump : thr[t][i] \notin {"created", "running"}
    BY DEF NoThreadOutlives
  <2>1. ~Held(t)
    BY DEF RegistryInv, Pointers
  <2>2. leaving[t] = 0
    BY <2>1 DEF Held, RegistryInv, TypeInv, TransportTypes
  <2>3. Started(t) = {}
    BY CountSets DEF RegistryInv, Ended, Counted
  <2>4. QED
    BY <2>2, <2>3 DEF Started
<1>2. QED
  BY <1>1, RegistrySafe, PTL

===============================================================================
