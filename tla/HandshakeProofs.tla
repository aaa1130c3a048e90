---------------------------- MODULE HandshakeProofs ----------------------------
(***************************************************************************)
(* The safety invariants of Handshake, for any processes, keys, banners    *)
(* and bounds.  The argument: at most one packet of the handshake is on    *)
(* its way, in one direction (Flow); so the list of keys advances only     *)
(* with a refusal, and the device's answers find the host where it was     *)
(* when it asked (Progress, Refusals).                                     *)
(***************************************************************************)
EXTENDS Handshake, SequenceTheorems, TLAPS

Off == Msg("SYNC", 0)
On == Msg("SYNC", 1)
Quiet == fromDev = <<>> \/ fromDev = <<Off>>
Answer(m) == fromDev = <<m>> \/ fromDev = <<m, Off>>

\* One packet at most, and SYNC(0) behind the device's last.
Flow ==
    /\ \/ fromDev = <<>>
       \/ fromDev = <<Off>> /\ goodbye
       \/ \E m \in FromDevice \ {Off} : fromDev = <<m>> /\ ~goodbye
       \/ \E m \in FromDevice \ {Off} : fromDev = <<m, Off>> /\ goodbye
    /\ goodbye => ~up
    /\ toDev = <<>> \/ \E m \in ToDevice : toDev = <<m>>
    /\ toDev # <<>> => Quiet
    /\ adbd = "confirm" => offered \in Hosts /\ (up => toDev = <<>> /\ Quiet)

\* Until adb_auth_init has ended there is no transport.
Idle ==
    auth[Me] # "done" =>
        /\ toDev = <<>> /\ fromDev = <<>> /\ ~up
        /\ key = 0 /\ tried = {} /\ connection_state = "offline" /\ ~online

\* Where the host is when an answer reaches it, and the device when a question does.
Progress ==
    /\ connection_state \in {"offline", banner}
    /\ key # 0 => tried = 1..key
    /\ Answer(On) => connection_state = "offline" /\ key = 0 /\ tried = {}
    /\ \A a \in Banners : Answer(Msg("CNXN", a)) => a = banner /\ (up => adbd = "online")
    /\ toDev = <<Msg("CNXN", "host")>> => connection_state # "device"

\* A device that is a "device" has refused the keys tried so far.
Refused(places) == \A i \in places : MyKeys[i] \notin authorised

Refusals ==
    banner = "device" =>
        /\ toDev = <<Msg("CNXN", "host")>> => tried = {}
        /\ Answer(Msg("AUTH", 0)) => Refused(tried)
        /\ \A k \in Keys : toDev = <<Msg("PUBLICKEY", k)>> => Refused(tried)
        /\ \A k \in Keys : toDev = <<Msg("SIGNATURE", k)>> =>
               key # 0 /\ k = MyKeys[key] /\ Refused(tried \ {key})

IInv ==
    /\ TypeOK /\ Flow /\ Idle /\ Progress /\ Refusals
    /\ PublicKeyLast /\ OnlineMeansAccepted /\ LostIsOffline

-------------------------------------------------------------------------------
(* What handling a packet does to the queues.                              *)

LEMMA Singles ==
    ASSUME NEW x
    PROVE  /\ <<x>> # <<>> /\ Head(<<x>>) = x /\ Tail(<<x>>) = <<>>
           /\ Append(<<>>, x) = <<x>>
  OBVIOUS

LEMMA Pairs ==
    ASSUME NEW S, NEW x \in S, NEW y \in S
    PROVE  /\ <<x, y>> # <<>> /\ Head(<<x, y>>) = x /\ Tail(<<x, y>>) = <<y>>
           /\ \A z : <<z>> # <<x, y>>
           /\ Append(<<x>>, y) = <<x, y>>
<1>1. /\ <<x>> \in Seq(S) /\ <<x, y>> \in Seq(S) /\ Len(<<x>>) = 1 /\ Len(<<x, y>>) = 2
      /\ <<x>>[1] = x /\ <<x, y>>[1] = x /\ <<x, y>>[2] = y
  OBVIOUS
<1>2. /\ Append(<<x>>, y) \in Seq(S) /\ Len(Append(<<x>>, y)) = 2
      /\ Append(<<x>>, y)[1] = x /\ Append(<<x>>, y)[2] = y
  BY <1>1, AppendProperties
<1>3. \A i \in 1..Len(<<x, y>>) : Append(<<x>>, y)[i] = <<x, y>>[i]
  BY <1>1, <1>2
<1>4. Append(<<x>>, y) = <<x, y>>
  BY <1>1, <1>2, <1>3, SeqEqual
<1>5. /\ <<x, y>> # <<>> /\ Head(<<x, y>>) = x /\ Tail(<<x, y>>) = <<y>>
      /\ \A z : <<z>> # <<x, y>>
  OBVIOUS
<1>6. QED
  BY <1>4, <1>5

LEMMA OffIsSent == Off \in FromDevice /\ On \in FromDevice /\ On # Off
  BY DEF Off, On, Msg, FromDevice

\* The packet at hand is an answer of the device, or SYNC(1), and nothing else is on
\* its way.
LEMMA Handling ==
    ASSUME Flow, fromDev # <<>>, Head(fromDev) # Off, fromDev' = Tail(fromDev)
    PROVE  /\ Head(fromDev) \in FromDevice /\ Answer(Head(fromDev))
           /\ toDev = <<>>
           /\ (fromDev' = <<>> /\ ~goodbye) \/ (fromDev' = <<Off>> /\ goodbye)
           /\ up => adbd # "confirm"
<1>1. PICK m \in FromDevice \ {Off} :
          (fromDev = <<m>> /\ ~goodbye) \/ (fromDev = <<m, Off>> /\ goodbye)
  BY Singles DEF Flow
<1>2. CASE fromDev = <<m>> /\ ~goodbye
  <2>1. Head(fromDev) = m /\ fromDev' = <<>> /\ fromDev # <<Off>>
    BY <1>1, <1>2, Singles
  <2>2. QED
    BY <1>2, <2>1, Singles DEF Flow, Quiet, Answer
<1>3. CASE fromDev = <<m, Off>> /\ goodbye
  <2>1. Head(fromDev) = m /\ fromDev' = <<Off>> /\ fromDev # <<>> /\ fromDev # <<Off>>
    BY <1>1, <1>3, OffIsSent, Pairs
  <2>2. QED
    BY <1>3, <2>1 DEF Flow, Quiet, Answer
<1>4. QED
  BY <1>1, <1>2, <1>3

LEMMA HandlingOff ==
    ASSUME Flow, fromDev # <<>>, Head(fromDev) = Off, fromDev' = Tail(fromDev)
    PROVE  fromDev = <<Off>> /\ fromDev' = <<>> /\ goodbye
<1>1. CASE fromDev = <<Off>> /\ goodbye
  BY <1>1, Singles
<1>2. CASE \E m \in FromDevice \ {Off} : fromDev = <<m>> \/ fromDev = <<m, Off>>
  BY <1>2, OffIsSent, Singles, Pairs
<1>3. QED
  BY <1>1, <1>2 DEF Flow

\* A queue of SYNC(0) alone, or of nothing, is no answer.
LEMMA QuietIsNoAnswer ==
    ASSUME Quiet, NEW m \in FromDevice, m # Off
    PROVE  ~Answer(m)
  BY OffIsSent, Singles, Pairs DEF Quiet, Answer

\* The queue holds one message, to which it is an answer and no other.
LEMMA OneAnswer ==
    ASSUME NEW m \in FromDevice, NEW n \in FromDevice, Answer(m), Answer(n)
    PROVE  m = n
<1>1. CASE fromDev = <<m>> /\ fromDev = <<n>>
  <2>1. Head(fromDev) = m /\ Head(fromDev) = n
    BY <1>1, Singles
  <2>2. QED
    BY <2>1
<1>2. CASE fromDev = <<m, Off>> /\ fromDev = <<n, Off>>
  <2>1. Head(fromDev) = m /\ Head(fromDev) = n
    BY <1>2, OffIsSent, Pairs
  <2>2. QED
    BY <2>1
<1>3. CASE (fromDev = <<m>> /\ fromDev = <<n, Off>>) \/ (fromDev = <<m, Off>> /\ fromDev = <<n>>)
  BY <1>3, OffIsSent, Pairs
<1>4. QED
  BY <1>1, <1>2, <1>3 DEF Answer


-------------------------------------------------------------------------------
(* Files and processes.                                                    *)

LEMMA InitIInv == Init => IInv
<1> SUFFICES ASSUME Init PROVE IInv
  OBVIOUS
<1>1. TypeOK
  <2>1. /\ adbkey \in Hosts \cup {Absent, Torn} /\ adbkey_pub \in Hosts \cup {Absent}
        /\ auth \in [Hosts -> Steps] /\ key_list \in [Hosts -> Seq(Keys)] /\ key_list[Me] = <<>>
        /\ exits \in Nat /\ faults \in Nat /\ connects \in Nat /\ failures \in Nat
    BY HandshakeAssumption DEF Init, KeysInit, Steps
  <2>2. /\ toDev \in Seq(ToDevice) /\ fromDev \in Seq(FromDevice) /\ Len(<<>>) = 0
        /\ authorised \subseteq Keys
    BY DEF Init, Keys
  <2>3. /\ online \in BOOLEAN /\ unasked \in BOOLEAN /\ up \in BOOLEAN /\ goodbye \in BOOLEAN
        /\ kicked \in BOOLEAN /\ left \in BOOLEAN
    BY DEF Init
  <2>4. key \in 0..NumKeys /\ tried \subseteq 1..NumKeys
    BY <2>1, <2>2 DEF Init, NumKeys, MyKeys
  <2>5. QED
    BY <2>1, <2>2, <2>3, <2>4 DEF Init, TypeOK
<1>2. Flow /\ Idle /\ Refusals /\ PublicKeyLast /\ OnlineMeansAccepted /\ LostIsOffline
  BY DEF Init, Flow, Idle, Refusals, Answer, PublicKeyLast, OnlineMeansAccepted, LostIsOffline
<1>3. Progress
  BY DEF Init, Progress, Answer
<1>4. QED
  BY <1>1, <1>2, <1>3 DEF IInv

\* What the files and the other processes do does not reach the transport.
LEMMA Inert ==
    ASSUME IInv, TypeOK', UNCHANGED handshake,
           (auth[Me] # "done") \/ (auth'[Me] = auth[Me] /\ key_list'[Me] = key_list[Me])
    PROVE  IInv'
<1>1. CASE auth[Me] # "done"
  <2>1. /\ toDev' = <<>> /\ fromDev' = <<>> /\ ~up'
        /\ key' = 0 /\ tried' = {} /\ connection_state' = "offline" /\ ~online'
    BY <1>1 DEF IInv, Idle, handshake, host, pump, device
  <2>2. Flow' /\ Idle' /\ OnlineMeansAccepted' /\ LostIsOffline' /\ PublicKeyLast'
    BY <2>1 DEF IInv, Flow, Idle, OnlineMeansAccepted, LostIsOffline, PublicKeyLast,
                handshake, host, pump, device
  <2>3. Progress' /\ Refusals'
    BY <2>1 DEF Progress, Refusals, Answer
  <2>4. QED
    BY <2>2, <2>3 DEF IInv
<1>2. CASE auth'[Me] = auth[Me] /\ key_list'[Me] = key_list[Me]
  BY <1>2 DEF IInv, Flow, Idle, Progress, Refusals, Refused, Answer, Quiet, PublicKeyLast,
              OnlineMeansAccepted, LostIsOffline, NumKeys, MyKeys, handshake, host, pump, device
<1>3. QED
  BY <1>1, <1>2

LEMMA FilesStep ==
    ASSUME IInv, Files
    PROVE  IInv'
<1> USE HostKeysAssumption, HandshakeAssumption
<1>1. PICK h \in Hosts : AuthInit(h) \/ (h # Me /\ Exit(h))
  BY DEF Files
<1>2. UNCHANGED handshake
  BY DEF Files
<1>3. (auth[Me] # "done") \/ (auth'[Me] = auth[Me] /\ key_list'[Me] = key_list[Me])
  BY <1>1 DEF IInv, TypeOK, AuthInit, InitAdb, CreateKeyFile, WritePublicKeyFile, CloseKeyFile,
              ReadKeys, Exit, Goes
<1>4. /\ adbkey' \in Hosts \cup {Absent, Torn} /\ adbkey_pub' \in Hosts \cup {Absent}
      /\ auth' \in [Hosts -> Steps] /\ exits' \in Nat /\ faults' \in Nat
  <2> USE DEF IInv, TypeOK, files, Goes, Fault
  <2>1. CASE InitAdb(h)
    BY <2>1 DEF InitAdb, Steps
  <2>2. CASE CreateKeyFile(h)
    <3>1. auth' \in [Hosts -> Steps]
      BY <2>2 DEF CreateKeyFile, Steps
    <3>2. adbkey' \in Hosts \cup {Absent, Torn} /\ faults' \in Nat
      BY <2>2 DEF CreateKeyFile
    <3>3. QED
      BY <2>2, <3>1, <3>2 DEF CreateKeyFile
  <2>3. CASE WritePublicKeyFile(h)
    <3>1. auth' \in [Hosts -> Steps]
      BY <2>3 DEF WritePublicKeyFile, Steps
    <3>2. adbkey_pub' \in Hosts \cup {Absent} /\ faults' \in Nat
      BY <2>3 DEF WritePublicKeyFile
    <3>3. QED
      BY <2>3, <3>1, <3>2 DEF WritePublicKeyFile
  <2>4. CASE CloseKeyFile(h)
    BY <2>4 DEF CloseKeyFile, Steps
  <2>5. CASE ReadKeys(h)
    BY <2>5 DEF ReadKeys, Steps
  <2>6. CASE Exit(h)
    BY <2>6 DEF Exit, Steps
  <2>7. QED
    BY <1>1, <2>1, <2>2, <2>3, <2>4, <2>5, <2>6 DEF AuthInit
<1>5. key_list' \in [Hosts -> Seq(Keys)]
  <2>1. VendorKeys \in Seq(Keys)
    BY SeqMonotonic DEF Keys
  <2>2. \A k \in Hosts : <<k>> \o VendorKeys \in Seq(Keys)
    BY <2>1, ConcatProperties DEF Keys
  <2>3. CASE key_list' = key_list
    BY <2>3 DEF IInv, TypeOK
  <2>4. CASE key_list' = [key_list EXCEPT ![h] = <<>>]
    BY <2>4 DEF IInv, TypeOK
  <2>5. CASE ReadKeys(h)
    BY <2>2, <2>5 DEF ReadKeys, IInv, TypeOK
  <2>6. QED
    BY <1>1, <2>3, <2>4, <2>5 DEF AuthInit, InitAdb, CreateKeyFile, WritePublicKeyFile,
                                  CloseKeyFile, Exit
<1>6. key' \in 0..NumKeys' /\ tried' \subseteq 1..NumKeys'
  <2>1. Len(key_list'[Me]) \in Nat
    BY <1>5, LenProperties
  <2>2. QED
    BY <1>2, <1>3, <2>1 DEF IInv, TypeOK, Idle, NumKeys, MyKeys, handshake, host, pump
<1>7. TypeOK'
  BY <1>2, <1>4, <1>5, <1>6 DEF IInv, TypeOK, handshake, host, pump, device
<1>8. QED
  BY <1>2, <1>3, <1>7, Inert

\* A transport that begins, or is gone with its process.
LEMMA ExitMineStep ==
    ASSUME IInv, ExitMine
    PROVE  IInv'
<1> USE HostKeysAssumption, HandshakeAssumption
<1>1. /\ toDev' = <<>> /\ fromDev' = <<>> /\ ~up' /\ ~goodbye' /\ UNCHANGED device
      /\ key' = 0 /\ tried' = {} /\ connection_state' = "offline" /\ ~online' /\ online' \in BOOLEAN
  BY DEF ExitMine, NewTransport
<1>2. TypeOK'
  <2>1. /\ exits' \in Nat /\ auth' \in [Hosts -> Steps]
        /\ key_list' \in [Hosts -> Seq(Keys)] /\ Len(key_list'[Me]) \in Nat
    BY DEF IInv, TypeOK, ExitMine, Exit, Goes, Steps
  <2>2. toDev' \in Seq(ToDevice) /\ fromDev' \in Seq(FromDevice)
    BY <1>1
  <2>6. up' \in BOOLEAN /\ goodbye' \in BOOLEAN /\ kicked' \in BOOLEAN /\ left' \in BOOLEAN
    BY DEF ExitMine
  <2>5. key' \in 0..NumKeys' /\ tried' \subseteq 1..NumKeys'
    BY <1>1, <2>1 DEF NumKeys, MyKeys
  <2>3. UNCHANGED <<adbkey, adbkey_pub, faults, unasked, connects, failures>>
    BY DEF ExitMine, Exit, files
  <2>4. QED
    BY <1>1, <2>1, <2>2, <2>3, <2>5, <2>6 DEF IInv, TypeOK, device
<1>3. Flow' /\ Idle' /\ OnlineMeansAccepted' /\ LostIsOffline' /\ PublicKeyLast'
  BY <1>1 DEF IInv, Flow, Idle, OnlineMeansAccepted, LostIsOffline, PublicKeyLast, device
<1>4. Progress' /\ Refusals'
  BY <1>1 DEF Progress, Refusals, Answer
<1>5. QED
  BY <1>2, <1>3, <1>4 DEF IInv

LEMMA AttachStep ==
    ASSUME IInv, Attach
    PROVE  IInv'
<1> USE HandshakeAssumption
<1>1. /\ toDev' = <<>> /\ fromDev' = <<On>> /\ up' /\ ~goodbye'
      /\ adbd' = "offline" /\ UNCHANGED keysVars
      /\ key' = 0 /\ tried' = {} /\ connection_state' = "offline" /\ ~online' /\ online' \in BOOLEAN
      /\ UNCHANGED <<authorised, banner, auth_enabled, unasked, failures>>
  BY DEF Attach, NewTransport, On
<1>2. TypeOK'
  <2>1. Len(MyKeys) \in Nat
    BY LenProperties DEF IInv, TypeOK, MyKeys
  <2>2. offered' \in Hosts \cup {Nobody} /\ connects' \in Nat
    BY DEF Attach, IInv, TypeOK
  <2>3. fromDev' \in Seq(FromDevice)
    BY <1>1, OffIsSent
  <2>4. up' \in BOOLEAN /\ goodbye' \in BOOLEAN /\ kicked' \in BOOLEAN /\ left' \in BOOLEAN
    BY DEF Attach
  <2>5. QED
    BY <1>1, <2>1, <2>2, <2>3, <2>4 DEF IInv, TypeOK, keysVars, files, NumKeys, MyKeys
<1>3. Flow'
  <2>1. On \in FromDevice \ {Off}
    BY OffIsSent
  <2>2. \E m \in FromDevice \ {Off} : fromDev' = <<m>> /\ ~goodbye'
    BY <1>1, <2>1
  <2>3. QED
    BY <1>1, <2>2 DEF Flow
<1>4. Idle' /\ OnlineMeansAccepted' /\ LostIsOffline' /\ PublicKeyLast'
  BY <1>1, <1>3, Singles DEF Attach, keysVars, IInv, Idle, OnlineMeansAccepted, LostIsOffline, PublicKeyLast
<1>5. Answer(On)'
  BY <1>1 DEF Answer
<1>6. Progress' /\ Refusals'
  <2>1. \A m \in FromDevice : Answer(m)' => m = On
    BY <1>1, OffIsSent, Singles, Pairs DEF Answer
  <2>2. Msg("AUTH", 0) \in FromDevice /\ \A a \in Banners : Msg("CNXN", a) \in FromDevice
    BY DEF Msg, FromDevice
  <2>3. On # Msg("AUTH", 0) /\ \A a : On # Msg("CNXN", a)
    BY DEF On, Msg
  <2>4. QED
    BY <1>1, <2>1, <2>2, <2>3 DEF Progress, Refusals
<1>7. QED
  BY <1>2, <1>3, <1>4, <1>6 DEF IInv

-------------------------------------------------------------------------------
(* The cases of handle_packet.                                             *)

LEMMA Messages ==
    /\ Msg("CNXN", "host") \in ToDevice
    /\ \A k \in Keys : Msg("SIGNATURE", k) \in ToDevice
    /\ \A k \in Hosts : Msg("PUBLICKEY", k) \in ToDevice
    /\ Msg("AUTH", 0) \in FromDevice /\ \A a \in Banners : Msg("CNXN", a) \in FromDevice
    /\ Msg("AUTH", 0) # Off /\ Msg("AUTH", 0) # On
    /\ \A a : Msg("CNXN", a) # Off /\ Msg("CNXN", a) # On /\ Msg("CNXN", a) # Msg("AUTH", 0)
    /\ \A a, k : Msg("SIGNATURE", k) # Msg("CNXN", a)
    /\ \A a, k : Msg("PUBLICKEY", k) # Msg("CNXN", a)
    /\ \A j, k : Msg("PUBLICKEY", k) # Msg("SIGNATURE", j)
    /\ \A c, a : Msg(c, a).cmd = c /\ Msg(c, a).arg = a
  BY DEF Msg, Off, On, ToDevice, FromDevice, Keys

\* The queues after a packet was handled and m, if anything, was sent.
LEMMA Replied ==
    ASSUME IInv, fromDev # <<>>, Head(fromDev) # Off, fromDev' = Tail(fromDev),
           UNCHANGED <<up, goodbye, adbd, offered>>,
           toDev' = toDev \/ \E m \in ToDevice : toDev' = Append(toDev, m)
    PROVE  /\ Flow' /\ Quiet'
           /\ toDev' \in Seq(ToDevice) /\ fromDev' \in Seq(FromDevice)
           /\ fromDev' = <<>> => ~goodbye'
           /\ \A m \in FromDevice : m # Off => ~Answer(m)'
<1>1. /\ toDev = <<>>
      /\ (fromDev' = <<>> /\ ~goodbye) \/ (fromDev' = <<Off>> /\ goodbye)
      /\ up => adbd # "confirm"
  BY Handling DEF IInv
<1>2. Quiet' /\ fromDev' \in Seq(FromDevice) /\ (fromDev' = <<>> => ~goodbye')
  <2>1. <<Off>> # <<>> /\ <<>> \in Seq(FromDevice) /\ <<Off>> \in Seq(FromDevice)
    BY OffIsSent
  <2>2. fromDev' = <<>> => ~goodbye'
    BY <1>1, <2>1
  <2>3. fromDev' \in Seq(FromDevice)
    BY <1>1, <2>1
  <2>4. QED
    BY <1>1, <2>2, <2>3 DEF Quiet
<1>3. toDev' = <<>> \/ \E m \in ToDevice : toDev' = <<m>>
  BY <1>1, Singles
<1>4. toDev' \in Seq(ToDevice)
  <2>1. <<>> \in Seq(ToDevice) /\ \A m \in ToDevice : <<m>> \in Seq(ToDevice)
    OBVIOUS
  <2>2. QED
    BY <1>3, <2>1
<1>5. Flow'
  BY <1>1, <1>2, <1>3 DEF Flow, IInv
<1>6. \A m \in FromDevice : m # Off => ~Answer(m)'
  BY <1>2, OffIsSent, Singles, Pairs DEF Quiet, Answer
<1>7. QED
  BY <1>2, <1>4, <1>5, <1>6

LEMMA HandleSyncStep ==
    ASSUME IInv, HandleSync, UNCHANGED kicked, left' = kicked
    PROVE  IInv'
<1>1. /\ fromDev # <<>> /\ Head(fromDev).cmd = "SYNC" /\ Head(fromDev).arg = 1
      /\ fromDev' = Tail(fromDev) /\ Sends(Msg("CNXN", "host"))
      /\ UNCHANGED <<keysVars, host, up, goodbye, device>>
      /\ UNCHANGED toDev \/ toDev' = Append(toDev, Msg("CNXN", "host"))
  BY DEF HandleSync, Is, Taken, Sends
<1>2. Head(fromDev) # Off
  BY <1>1, Messages DEF Off
<1>3. /\ Flow' /\ Quiet' /\ toDev' \in Seq(ToDevice) /\ fromDev' \in Seq(FromDevice)
      /\ fromDev' = <<>> => ~goodbye'
      /\ \A m \in FromDevice : m # Off => ~Answer(m)'
  BY <1>1, <1>2, Messages, Replied DEF device
<1>4. Answer(On) /\ toDev = <<>>
  <2>1. Head(fromDev) \in FromDevice /\ Answer(Head(fromDev)) /\ toDev = <<>>
    BY <1>1, <1>2, Handling DEF IInv
  <2>2. Head(fromDev) = On
    BY <1>1, <2>1 DEF FromDevice, On, Msg
  <2>3. QED
    BY <2>1, <2>2
<1>5. toDev' \in {<<>>, <<Msg("CNXN", "host")>>} /\ auth[Me] = "done"
  BY <1>1, <1>4, Singles DEF IInv, Idle
<1>6. connection_state = "offline" /\ key = 0 /\ tried = {}
  BY <1>4 DEF IInv, Progress
<1>7. TypeOK'
  BY <1>1, <1>3 DEF IInv, TypeOK, keysVars, files, host, device, NumKeys, MyKeys
<1>8. Idle' /\ OnlineMeansAccepted' /\ LostIsOffline'
  BY <1>1, <1>3, <1>5, <1>6 DEF IInv, Idle, OnlineMeansAccepted, LostIsOffline, keysVars, host, device
<1>9. PublicKeyLast'
  BY <1>5, Messages, Singles DEF PublicKeyLast
<1>10. Progress'
  BY <1>1, <1>3, <1>6, OffIsSent, Messages DEF IInv, Progress, host, device
<1>11. Refusals'
  <2>1. \A k : toDev' # <<Msg("PUBLICKEY", k)>> /\ toDev' # <<Msg("SIGNATURE", k)>>
    BY <1>5, Singles, Messages
  <2>2. tried' = {} /\ ~Answer(Msg("AUTH", 0))'
    BY <1>1, <1>3, <1>6, Messages DEF host
  <2>3. QED
    BY <2>1, <2>2 DEF Refusals
<1>12. QED
  BY <1>3, <1>7, <1>8, <1>9, <1>10, <1>11 DEF IInv

LEMMA HandleOfflineStep ==
    ASSUME IInv, HandleOffline, UNCHANGED kicked, left' = kicked
    PROVE  IInv'
<1>1. /\ fromDev # <<>> /\ Head(fromDev).cmd = "SYNC" /\ Head(fromDev).arg = 0
      /\ fromDev' = Tail(fromDev) /\ connection_state' = "offline" /\ online' = FALSE
      /\ UNCHANGED <<keysVars, key, tried, unasked, connects, failures, toDev, up,
                     goodbye, device>>
  BY DEF HandleOffline, Is, Taken
<1>2. fromDev' = <<>> /\ fromDev = <<Off>> /\ goodbye /\ ~up
  <2>1. Head(fromDev) \in FromDevice
    BY <1>1, ElementOfSeq, EmptySeq DEF IInv, TypeOK
  <2>2. Head(fromDev) = Off
    BY <1>1, <2>1 DEF FromDevice, Off, Msg
  <2>3. QED
    BY <1>1, <2>2, HandlingOff DEF IInv, Flow
<1>3. TypeOK'
  <2>1. fromDev' \in Seq(FromDevice)
    BY <1>2
  <2>2. online' \in BOOLEAN
    BY <1>1
  <2>3. QED
    BY <1>1, <2>1, <2>2 DEF IInv, TypeOK, keysVars, files, device, NumKeys, MyKeys
<1>4. Flow'
  BY <1>1, <1>2 DEF IInv, Flow, Quiet, device
<1>5. Idle' /\ OnlineMeansAccepted' /\ LostIsOffline' /\ PublicKeyLast'
  BY <1>1, <1>2 DEF IInv, Idle, OnlineMeansAccepted, LostIsOffline, PublicKeyLast, keysVars,
                    NumKeys, MyKeys, device
<1>6. Progress' /\ Refusals'
  <2>1. \A m : ~Answer(m)'
    BY <1>2, Singles DEF Answer
  <2>2. QED
    BY <1>1, <2>1 DEF IInv, Progress, Refusals, Refused, keysVars, device, MyKeys
<1>7. QED
  BY <1>3, <1>4, <1>5, <1>6 DEF IInv

LEMMA HandleCnxnStep ==
    ASSUME IInv, HandleCnxn, UNCHANGED kicked, left' = kicked
    PROVE  IInv'
<1>1. /\ fromDev # <<>> /\ Head(fromDev).cmd = "CNXN" /\ fromDev' = Tail(fromDev)
      /\ connection_state' = Head(fromDev).arg /\ online' = TRUE
      /\ UNCHANGED <<keysVars, key, tried, connects, failures, up, goodbye, device>>
      /\ unasked' = TRUE \/ UNCHANGED unasked
      /\ \/ toDev' = Append(toDev, Msg("CNXN", "host")) /\ Head(fromDev).arg # "device"
         \/ UNCHANGED toDev
  BY DEF HandleCnxn, Is, Taken, Sends
<1>2. Head(fromDev) # Off
  BY <1>1, Messages DEF Off
<1>3. /\ Flow' /\ Quiet' /\ toDev' \in Seq(ToDevice) /\ fromDev' \in Seq(FromDevice)
      /\ fromDev' = <<>> => ~goodbye'
      /\ \A m \in FromDevice : m # Off => ~Answer(m)'
  BY <1>1, <1>2, Messages, Replied DEF device
<1>4. /\ toDev = <<>> /\ auth[Me] = "done"
      /\ Head(fromDev).arg = banner /\ (up => adbd = "online")
  <2>1. Head(fromDev) \in FromDevice /\ Answer(Head(fromDev)) /\ toDev = <<>>
    BY <1>1, <1>2, Handling DEF IInv
  <2>2. PICK a \in Banners : Head(fromDev) = Msg("CNXN", a)
    BY <1>1, <2>1 DEF FromDevice, Msg
  <2>3. QED
    BY <1>1, <2>1, <2>2, Messages DEF IInv, Progress, Idle
<1>5. TypeOK'
  <2>1. online' \in BOOLEAN /\ unasked' \in BOOLEAN
    BY <1>1 DEF IInv, TypeOK
  <2>2. QED
    BY <1>1, <1>3, <1>4, <2>1 DEF IInv, TypeOK, keysVars, files, device, NumKeys, MyKeys
<1>6. Idle' /\ OnlineMeansAccepted' /\ LostIsOffline'
  BY <1>1, <1>3, <1>4 DEF IInv, Idle, OnlineMeansAccepted, LostIsOffline, keysVars, device
<1>7. toDev' = <<>> \/ (toDev' = <<Msg("CNXN", "host")>> /\ connection_state' # "device")
  BY <1>1, <1>4, Singles
<1>8. PublicKeyLast'
  BY <1>7, Messages, Singles DEF PublicKeyLast
<1>9. Progress'
  BY <1>1, <1>3, <1>4, <1>7, OffIsSent, Messages, Singles DEF IInv, Progress, device
<1>10. Refusals'
  <2>1. banner' = banner /\ connection_state' = banner
    BY <1>1, <1>4 DEF device
  <2>2. banner = "device" => toDev' = <<>>
    BY <1>7, <2>1
  <2>3. QED
    BY <1>3, <2>1, <2>2, Messages, Singles DEF Refusals
<1>11. QED
  BY <1>3, <1>5, <1>6, <1>8, <1>9, <1>10 DEF IInv

\* What the list of keys comes to with the next of them.
LEMMA NextKeyProgress ==
    ASSUME IInv, key' = NextKey(key),
           tried' = (IF key = 0 THEN {} ELSE tried) \cup ({key'} \ {0})
    PROVE  /\ NumKeys \in Nat /\ key' \in 0..NumKeys /\ tried' \subseteq 1..NumKeys
           /\ key' # 0 => tried' = 1..key'
           /\ key' = 0 => tried' = 1..NumKeys
           /\ tried' \ {key'} \subseteq tried
<1>1. NumKeys \in Nat /\ key \in 0..NumKeys /\ (key # 0 => tried = 1..key)
  BY HandshakeAssumption, LenProperties DEF IInv, TypeOK, Progress, NumKeys, MyKeys
<1>2. CASE key >= NumKeys
  <2>1. key' = 0 /\ key = NumKeys
    BY <1>1, <1>2 DEF NextKey
  <2>2. tried' = 1..NumKeys /\ tried' \subseteq tried
    BY <1>1, <2>1
  <2>3. QED
    BY <1>1, <2>1, <2>2
<1>3. CASE ~(key >= NumKeys)
  <2>1. key' = key + 1 /\ key' \in 1..NumKeys
    BY <1>1, <1>3 DEF NextKey
  <2>2. tried' = (1..key) \cup {key'}
    BY <1>1, <2>1
  <2>3. tried' = 1..key'
    BY <1>1, <2>1, <2>2
  <2>4. tried' \ {key'} \subseteq tried
    BY <1>1, <2>1
  <2>5. QED
    BY <1>1, <2>1, <2>3, <2>4
<1>4. QED
  BY <1>2, <1>3

LEMMA HandleAuthStep ==
    ASSUME IInv, HandleAuth, UNCHANGED kicked, left' = kicked
    PROVE  IInv'
<1>1. /\ fromDev # <<>> /\ Head(fromDev).cmd = "AUTH" /\ fromDev' = Tail(fromDev)
      /\ key' = NextKey(key)
      /\ tried' = (IF key = 0 THEN {} ELSE tried) \cup ({key'} \ {0})
      /\ UNCHANGED <<keysVars, connection_state, online, unasked, connects, up, goodbye, device>>
  BY DEF HandleAuth, Is, Taken
<1>2. /\ NumKeys \in Nat /\ key' \in 0..NumKeys /\ tried' \subseteq 1..NumKeys
      /\ key' # 0 => tried' = 1..key'
      /\ key' = 0 => tried' = 1..NumKeys
      /\ tried' \ {key'} \subseteq tried
  BY <1>1, NextKeyProgress
<1>3. /\ Head(fromDev) # Off /\ toDev = <<>> /\ Answer(Msg("AUTH", 0)) /\ auth[Me] = "done"
  <2>1. Head(fromDev) # Off
    BY <1>1, Messages DEF Off
  <2>2. Head(fromDev) \in FromDevice /\ Answer(Head(fromDev)) /\ toDev = <<>>
    BY <1>1, <2>1, Handling DEF IInv
  <2>3. Head(fromDev) = Msg("AUTH", 0)
    BY <1>1, <2>2 DEF FromDevice, Msg
  <2>4. QED
    BY <1>1, <2>1, <2>2, <2>3 DEF IInv, Idle
<1>4. \/ toDev' = <<>>
      \/ key' # 0 /\ MyKeys[key'] \in Keys /\ toDev' = <<Msg("SIGNATURE", MyKeys[key'])>>
      \/ key' = 0 /\ adbkey_pub \in Hosts /\ toDev' = <<Msg("PUBLICKEY", adbkey_pub)>>
  <2>1. CASE Signs(key')
    <3>1. key' \in 1..Len(MyKeys) /\ MyKeys \in Seq(Keys)
      BY <1>2, <2>1, HandshakeAssumption DEF Signs, NumKeys, MyKeys, IInv, TypeOK
    <3>2. MyKeys[key'] \in Keys
      BY <3>1, ElementOfSeq
    <3>3. QED
      BY <1>3, <2>1, <3>2, Singles DEF Signs, Sends
  <2>2. CASE SendsPublic(key')
    BY <1>3, <2>2, Singles DEF SendsPublic, Sends, IInv, TypeOK
  <2>3. CASE UNCHANGED toDev
    BY <1>3, <2>3
  <2>4. QED
    BY <2>1, <2>2, <2>3 DEF HandleAuth
<1>5. /\ Flow' /\ toDev' \in Seq(ToDevice) /\ fromDev' \in Seq(FromDevice)
      /\ fromDev' = <<>> => ~goodbye'
      /\ \A m \in FromDevice : m # Off => ~Answer(m)'
  <2>1. toDev' = toDev \/ \E m \in ToDevice : toDev' = Append(toDev, m)
    BY <1>3, <1>4, Messages, Singles
  <2>2. QED
    BY <1>1, <1>3, <2>1, Replied DEF device
<1>6. TypeOK'
  <2>1. failures' \in Nat
    BY DEF HandleAuth, IInv, TypeOK
  <2>2. NumKeys' = NumKeys
    BY <1>1 DEF keysVars, NumKeys, MyKeys
  <2>3. QED
    BY <1>1, <1>2, <1>5, <2>1, <2>2 DEF IInv, TypeOK, keysVars, files, device
<1>7. Idle' /\ OnlineMeansAccepted' /\ LostIsOffline'
  BY <1>1, <1>3, <1>5 DEF IInv, Idle, OnlineMeansAccepted, LostIsOffline, keysVars, device
<1>8. PublicKeyLast'
  <2>1. CASE key' = 0
    BY <1>1, <1>2, <2>1 DEF PublicKeyLast, keysVars, NumKeys, MyKeys
  <2>2. CASE key' # 0
    BY <1>4, <2>2, Messages, Singles DEF PublicKeyLast
  <2>3. QED
    BY <2>1, <2>2
<1>9. Progress'
  <2>1. toDev' # <<Msg("CNXN", "host")>>
    BY <1>4, Messages, Singles
  <2>2. QED
    BY <1>1, <1>2, <1>5, <2>1, OffIsSent, Messages DEF IInv, Progress, device
<1>10. Refusals'
  <2>1. UNCHANGED <<banner, authorised, MyKeys>>
    BY <1>1 DEF device, keysVars, MyKeys
  <2>2. banner = "device" => Refused(tried)
    BY <1>3 DEF IInv, Refusals
  <2>3. banner = "device" => \A i \in tried' \ {key'} : MyKeys[i] \notin authorised
    BY <1>2, <2>2 DEF Refused
  <2>8. key' = 0 => tried' \ {key'} = tried'
    BY <1>2
  <2>4. /\ toDev' # <<Msg("CNXN", "host")>> /\ ~Answer(Msg("AUTH", 0))'
    BY <1>4, <1>5, Messages, Singles
  <2>5. \A k : toDev' = <<Msg("PUBLICKEY", k)>> => key' = 0
    BY <1>4, Messages, Singles
  <2>6. \A k : toDev' = <<Msg("SIGNATURE", k)>> => key' # 0 /\ k = MyKeys[key']
    BY <1>4, Messages, Singles
  <2>7. QED
    BY <2>1, <2>3, <2>4, <2>5, <2>6, <2>8 DEF Refusals, Refused
<1>11. QED
  BY <1>5, <1>6, <1>7, <1>8, <1>9, <1>10 DEF IInv

-------------------------------------------------------------------------------
(* The cable, the device and its owner.                                    *)

LEMMA UnplugStep ==
    ASSUME IInv, Unplug
    PROVE  IInv'
<1>1. /\ up /\ up' = FALSE /\ ~goodbye /\ goodbye' = ~kicked
      /\ fromDev' = IF kicked THEN fromDev ELSE Append(fromDev, Off)
      /\ UNCHANGED <<keysVars, host, toDev, kicked, left, device>>
  BY DEF Unplug, Off, IInv, Flow
<1>2. \/ kicked /\ fromDev' = fromDev
      \/ ~kicked /\ fromDev = <<>> /\ fromDev' = <<Off>>
      \/ ~kicked /\ \E m \in FromDevice \ {Off} : fromDev = <<m>> /\ fromDev' = <<m, Off>>
  <2>1. CASE fromDev = <<>>
    BY <1>1, <2>1, Singles
  <2>2. CASE \E m \in FromDevice \ {Off} : fromDev = <<m>>
    <3>1. PICK m \in FromDevice \ {Off} : fromDev = <<m>>
      BY <2>2
    <3>2. Append(<<m>>, Off) = <<m, Off>>
      BY <3>1, OffIsSent, Pairs
    <3>3. QED
      BY <1>1, <3>1, <3>2
  <2>3. QED
    BY <1>1, <2>1, <2>2 DEF IInv, Flow
<1>3. \A m \in FromDevice : m # Off /\ Answer(m)' => Answer(m)
  <2> SUFFICES ASSUME NEW m \in FromDevice, m # Off, Answer(m)'
               PROVE  Answer(m)
    OBVIOUS
  <2>1. CASE fromDev' = <<Off>>
    BY <2>1, OffIsSent, Singles, Pairs DEF Answer
  <2>2. CASE \E n \in FromDevice \ {Off} : fromDev = <<n>> /\ fromDev' = <<n, Off>>
    <3>1. PICK n \in FromDevice \ {Off} : fromDev = <<n>> /\ fromDev' = <<n, Off>>
      BY <2>2
    <3>2. n = m
      BY <3>1, OffIsSent, Singles, Pairs DEF Answer
    <3>3. QED
      BY <3>1, <3>2 DEF Answer
  <2>3. CASE fromDev' = fromDev
    BY <2>3 DEF Answer
  <2>4. QED
    BY <1>2, <2>1, <2>2, <2>3
<1>4. TypeOK'
  <2>1. fromDev' \in Seq(FromDevice)
    BY <1>1, OffIsSent DEF IInv, TypeOK
  <2>2. up' \in BOOLEAN /\ goodbye' \in BOOLEAN
    BY <1>1
  <2>3. QED
    BY <1>1, <2>1, <2>2 DEF IInv, TypeOK, keysVars, files, host, device, NumKeys, MyKeys
<1>5. Flow'
  <2>1. CASE kicked
    BY <1>1, <2>1 DEF IInv, Flow, Quiet, device
  <2>2. CASE ~kicked
    <3>1. fromDev' = <<Off>> \/ \E m \in FromDevice \ {Off} : fromDev' = <<m, Off>>
      BY <1>2, <2>2
    <3>2. toDev # <<>> => fromDev = <<>>
      BY <1>1, Singles DEF IInv, Flow, Quiet
    <3>3. toDev' # <<>> => Quiet'
      BY <1>1, <1>2, <2>2, <3>2, Singles DEF Quiet
    <3>4. QED
      BY <1>1, <2>2, <3>1, <3>3 DEF IInv, Flow, device
  <2>3. QED
    BY <2>1, <2>2
<1>6. Idle' /\ OnlineMeansAccepted' /\ LostIsOffline' /\ PublicKeyLast'
  <2>1. (goodbye' => fromDev' # <<>>) /\ auth[Me] = "done"
    BY <1>1, <1>2, OffIsSent, Singles, Pairs DEF IInv, Idle
  <2>2. QED
    BY <1>1, <2>1 DEF IInv, Idle, OnlineMeansAccepted, LostIsOffline, PublicKeyLast, keysVars,
                      host, NumKeys, MyKeys
<1>7. Progress' /\ Refusals'
  <2>1. UNCHANGED <<connection_state, banner, key, tried, toDev, adbd, authorised, MyKeys>>
    BY <1>1 DEF keysVars, host, device, MyKeys
  <2>2. Progress'
    BY <1>1, <1>3, <2>1, OffIsSent, Messages DEF IInv, Progress
  <2>3. Refusals'
    BY <1>3, <2>1, Messages DEF IInv, Refusals, Refused
  <2>4. QED
    BY <2>2, <2>3
<1>8. QED
  BY <1>4, <1>5, <1>6, <1>7 DEF IInv

\* A kick changes nothing that was said, and neither does a user_thread that leaves.
LEMMA KickStep ==
    ASSUME IInv, Clear \/ LeaveKicked
    PROVE  IInv'
<1>1. /\ UNCHANGED <<keysVars, host, toDev, fromDev, up, goodbye, device>>
      /\ kicked' \in BOOLEAN /\ left' \in BOOLEAN
  BY DEF Clear, LeaveKicked, IInv, TypeOK
<1>2. TypeOK'
  BY <1>1 DEF IInv, TypeOK, keysVars, files, host, device, NumKeys, MyKeys
<1>3. QED
  BY <1>1, <1>2 DEF IInv, Flow, Idle, Progress, Refusals, Refused, Answer, Quiet, PublicKeyLast,
                    OnlineMeansAccepted, LostIsOffline, NumKeys, MyKeys, keysVars, host, device

\* A packet of the host finds nothing else on its way, and is answered or not.
LEMMA DeviceReceiveStep ==
    ASSUME IInv, DeviceReceive
    PROVE  IInv'
<1>1. /\ up /\ toDev # <<>> /\ toDev' = Tail(toDev)
      /\ UNCHANGED <<keysVars, host, up, goodbye, kicked, left, authorised, auth_enabled, banner>>
      /\ ~goodbye
  BY DEF DeviceReceive, pump, IInv, Flow
<1>2. PICK m \in ToDevice : toDev = <<m>>
  BY <1>1 DEF IInv, Flow
<1>3. Head(toDev) = m /\ toDev' = <<>> /\ fromDev = <<>> /\ adbd # "confirm" /\ auth[Me] = "done"
  BY <1>1, <1>2, Singles DEF IInv, Flow, Quiet, Idle
<1>4. /\ \/ m.cmd = "CNXN" /\ auth_enabled /\ AsksAuth
         \/ m.cmd = "CNXN" /\ ~auth_enabled /\ GoesOnline
         \/ m.cmd = "SIGNATURE" /\ adbd = "token" /\ m.arg \in authorised /\ GoesOnline
         \/ m.cmd = "SIGNATURE" /\ adbd = "token" /\ m.arg \notin authorised /\ AsksAuth
         \/ m.cmd = "PUBLICKEY" /\ adbd = "token" /\ adbd' = "confirm" /\ UNCHANGED fromDev
         \/ m.cmd # "CNXN" /\ adbd # "token" /\ UNCHANGED <<adbd, fromDev>>
      /\ offered' = IF m.cmd = "PUBLICKEY" /\ adbd = "token" THEN m.arg ELSE offered
  BY <1>3 DEF DeviceReceive
<1>5. /\ m.cmd = "CNXN" => m = Msg("CNXN", "host")
      /\ m.cmd = "SIGNATURE" => m = Msg("SIGNATURE", m.arg) /\ m.arg \in Keys
      /\ m.cmd = "PUBLICKEY" => m = Msg("PUBLICKEY", m.arg) /\ m.arg \in Hosts
  BY DEF ToDevice, Msg
<1>6. \/ fromDev' = <<>> /\ adbd' # "confirm" /\ adbd' = adbd
      \/ fromDev' = <<>> /\ adbd' = "confirm" /\ offered' \in Hosts /\ adbd = "token"
      \/ fromDev' \in {<<>>, <<Msg("CNXN", banner)>>} /\ adbd' = "online"
      \/ /\ fromDev' \in {<<>>, <<Msg("AUTH", 0)>>}
         /\ adbd' = "token" /\ (m.cmd = "CNXN" \/ adbd = "token")
  BY <1>3, <1>4, <1>5, Singles DEF GoesOnline, AsksAuth, Answers
<1>7. fromDev' = <<>> \/ \E n \in FromDevice \ {Off} : fromDev' = <<n>>
  BY <1>6, Messages DEF IInv, TypeOK
<1>8. Flow'
  BY <1>1, <1>3, <1>6, <1>7 DEF Flow, Quiet
<1>9. TypeOK'
  <2>1. fromDev' \in Seq(FromDevice) /\ toDev' \in Seq(ToDevice)
    <3>1. <<>> \in Seq(FromDevice) /\ <<>> \in Seq(ToDevice)
      OBVIOUS
    <3>2. \A n \in FromDevice : <<n>> \in Seq(FromDevice)
      OBVIOUS
    <3>3. QED
      BY <1>3, <1>7, <3>1, <3>2
  <2>2. offered' \in Hosts \cup {Nobody}
    BY <1>4, <1>5 DEF IInv, TypeOK
  <2>3. adbd' \in {"offline", "token", "confirm", "online"}
    BY <1>6 DEF IInv, TypeOK
  <2>4. QED
    BY <1>1, <2>1, <2>2, <2>3 DEF IInv, TypeOK, keysVars, files, host, NumKeys, MyKeys
<1>10. Idle' /\ LostIsOffline' /\ PublicKeyLast'
  BY <1>1, <1>3 DEF Idle, LostIsOffline, PublicKeyLast, keysVars
<1>11. OnlineMeansAccepted'
  <2>1. m.cmd = "CNXN" => connection_state # "device"
    BY <1>2, <1>5 DEF IInv, Progress
  <2>2. QED
    BY <1>1, <1>6, <2>1 DEF IInv, OnlineMeansAccepted, host
<1>12. /\ ~Answer(On)' /\ \A a \in Banners : Answer(Msg("CNXN", a))' => a = banner /\ adbd' = "online"
       /\ Answer(Msg("AUTH", 0))' => fromDev' = <<Msg("AUTH", 0)>>
  <2>1. fromDev' # <<>> => \A n \in FromDevice : Answer(n)' => fromDev' = <<n>>
    BY <1>7, OffIsSent, Singles, Pairs DEF Answer
  <2>2. fromDev' = <<>> => \A n \in FromDevice : ~Answer(n)'
    BY OffIsSent, Singles, Pairs DEF Answer
  <2>3. CASE fromDev' = <<>>
    BY <2>2, <2>3, OffIsSent, Messages
  <2>4. CASE fromDev' = <<Msg("CNXN", banner)>> /\ adbd' = "online"
    <3>1. \A n \in FromDevice : Answer(n)' => n = Msg("CNXN", banner)
      BY <2>1, <2>4, Singles
    <3>2. ~Answer(On)' /\ ~Answer(Msg("AUTH", 0))'
      BY <3>1, OffIsSent, Messages
    <3>3. \A a \in Banners : Answer(Msg("CNXN", a))' => a = banner
      BY <3>1, Messages
    <3>4. QED
      BY <2>4, <3>2, <3>3
  <2>5. CASE fromDev' = <<Msg("AUTH", 0)>>
    <3>1. \A n \in FromDevice : Answer(n)' => n = Msg("AUTH", 0)
      BY <2>1, <2>5, Singles
    <3>2. ~Answer(On)' /\ \A a \in Banners : ~Answer(Msg("CNXN", a))'
      BY <3>1, OffIsSent, Messages
    <3>3. QED
      BY <2>5, <3>2
  <2>6. \/ fromDev' = <<>>
        \/ fromDev' = <<Msg("CNXN", banner)>> /\ adbd' = "online"
        \/ fromDev' = <<Msg("AUTH", 0)>>
    BY <1>6
  <2>7. QED
    BY <2>3, <2>4, <2>5, <2>6, Zenon
<1>13. Progress'
  <2>1. UNCHANGED <<connection_state, key, tried, banner>> /\ toDev' = <<>>
    BY <1>1, <1>3 DEF host
  <2>2. toDev' # <<Msg("CNXN", "host")>>
    BY <2>1, Singles
  <2>3. /\ connection_state' \in {"offline", banner'}
        /\ key' # 0 => tried' = 1..key'
    BY <2>1 DEF IInv, Progress
  <2>4. \A a \in Banners : Answer(Msg("CNXN", a))' => a = banner' /\ (up' => adbd' = "online")
    BY <1>12, <2>1
  <2>5. QED
    BY <1>12, <2>2, <2>3, <2>4 DEF Progress
<1>14. Refusals'
  <2> SUFFICES ASSUME banner = "device", Answer(Msg("AUTH", 0))'
               PROVE  Refused(tried)
    BY <1>1, <1>3 DEF Refusals, Refused, keysVars, host, MyKeys
  <2>1. fromDev' = <<Msg("AUTH", 0)>>
    BY <1>12
  <2>2. m.cmd = "CNXN" \/ (m.cmd = "SIGNATURE" /\ m.arg \notin authorised)
    BY <1>3, <1>4, <2>1, Messages, Singles DEF GoesOnline, Answers
  <2>3. CASE m.cmd = "CNXN"
    BY <1>2, <1>5, <2>3 DEF IInv, Refusals, Refused
  <2>4. CASE m.cmd = "SIGNATURE" /\ m.arg \notin authorised
    <3>1. m.arg = MyKeys[key] /\ Refused(tried \ {key})
      BY <1>2, <1>5, <2>4 DEF IInv, Refusals
    <3>2. QED
      BY <2>4, <3>1 DEF Refused
  <2>5. QED
    BY <2>2, <2>3, <2>4
<1>15. QED
  BY <1>8, <1>9, <1>10, <1>11, <1>13, <1>14 DEF IInv

LEMMA DeviceConfirmStep ==
    ASSUME IInv, DeviceConfirm
    PROVE  IInv'
<1>1. /\ up /\ adbd = "confirm" /\ adbd' = "online"
      /\ UNCHANGED fromDev \/ fromDev' = Append(fromDev, Msg("CNXN", banner))
      /\ authorised' = authorised \cup {offered}
      /\ UNCHANGED <<keysVars, host, toDev, up, goodbye, kicked, left, offered, auth_enabled, banner>>
      /\ ~goodbye
  BY DEF DeviceConfirm, GoesOnline, Answers, pump, IInv, Flow
<1>2. /\ toDev = <<>> /\ offered \in Hosts /\ auth[Me] = "done"
      /\ fromDev = <<>> /\ fromDev' \in {<<>>, <<Msg("CNXN", banner)>>}
  BY <1>1, Singles DEF IInv, Flow, Quiet, Idle
<1>3. Msg("CNXN", banner) \in FromDevice /\ Msg("CNXN", banner) # Off
  BY Messages DEF IInv, TypeOK
<1>4. TypeOK'
  <2>1. fromDev' \in Seq(FromDevice)
    <3>1. <<>> \in Seq(FromDevice) /\ \A n \in FromDevice : <<n>> \in Seq(FromDevice)
      OBVIOUS
    <3>2. QED
      BY <1>2, <1>3, <3>1
  <2>2. authorised' \subseteq Keys
    BY <1>1, <1>2 DEF IInv, TypeOK, Keys
  <2>3. QED
    BY <1>1, <2>1, <2>2 DEF IInv, TypeOK, keysVars, files, host, NumKeys, MyKeys
<1>5. Flow'
  BY <1>1, <1>2, <1>3 DEF Flow
<1>6. Idle' /\ OnlineMeansAccepted' /\ LostIsOffline' /\ PublicKeyLast'
  BY <1>1, <1>2 DEF Idle, OnlineMeansAccepted, LostIsOffline, PublicKeyLast, keysVars
<1>7. \A n \in FromDevice : Answer(n)' => n = Msg("CNXN", banner)
  <2>1. CASE fromDev' = <<>>
    BY <2>1, OffIsSent, Singles, Pairs DEF Answer
  <2>2. CASE fromDev' = <<Msg("CNXN", banner)>>
    BY <1>3, <2>2, OffIsSent, Singles, Pairs DEF Answer
  <2>3. QED
    BY <1>2, <2>1, <2>2
<1>8. Progress' /\ Refusals'
  <2>1. ~Answer(On)' /\ ~Answer(Msg("AUTH", 0))'
    BY <1>7, OffIsSent, Messages
  <2>2. \A a \in Banners : Answer(Msg("CNXN", a))' => a = banner
    BY <1>7, Messages
  <2>3. QED
    BY <1>1, <1>2, <2>1, <2>2 DEF IInv, Progress, Refusals, host
<1>9. QED
  BY <1>4, <1>5, <1>6, <1>8 DEF IInv

-------------------------------------------------------------------------------
LEMMA StepIInv == IInv /\ [Next]_vars => IInv'
<1> SUFFICES ASSUME IInv, [Next]_vars PROVE IInv'
  OBVIOUS
<1>1. CASE UNCHANGED vars
  <2>1. TypeOK' /\ UNCHANGED handshake /\ auth'[Me] = auth[Me] /\ key_list'[Me] = key_list[Me]
    BY <1>1 DEF IInv, TypeOK, vars, keysVars, files, handshake, host, pump, device, NumKeys, MyKeys
  <2>2. QED
    BY <2>1, Inert
<1>2. QED
  BY <1>1, FilesStep, ExitMineStep, AttachStep, HandleSyncStep, HandleOfflineStep, HandleCnxnStep,
     HandleAuthStep, UnplugStep, KickStep, DeviceReceiveStep, DeviceConfirmStep DEF Next, HandlePacket

\* For any processes, keys, banners and bounds the invariant holds (Catransport.cpp
\* 155-200, 244-370, adb_auth_host.cpp).
THEOREM HandshakeIInv == Spec => []IInv
  BY InitIInv, StepIInv, PTL DEF Spec

\* The variables have their types: above all, key is a place of the list of keys
\* there is now (Catransport.cpp 346, adb_auth_host.cpp 405-425).
THEOREM HandshakeTypeOK == Spec => []TypeOK
<1>1. IInv => TypeOK
  BY DEF IInv
<1>2. QED
  BY <1>1, HandshakeIInv, PTL

\* The public key is sent only when every private key was tried, however many there
\* are (Catransport.cpp 346-353).
THEOREM HandshakePublicKeyLast == Spec => []PublicKeyLast
<1>1. IInv => PublicKeyLast
  BY DEF IInv
<1>2. QED
  BY <1>1, HandshakeIInv, PTL

\* The owner of a "device" is not asked again for a key the host can sign with,
\* whatever processes began, ended and wrote the key files (Catransport.cpp 346-353,
\* adb_auth_host.cpp 220-270, 342-364).
THEOREM HandshakeOwnerAskedOnce == Spec => []OwnerAskedOnce
<1>1. IInv => OwnerAskedOnce
  <2> SUFFICES ASSUME IInv, banner = "device", NEW i \in DOMAIN toDev,
                      toDev[i].cmd = "PUBLICKEY", toDev[i].arg \in authorised
               PROVE  toDev[i].arg \notin Mine
    BY DEF OwnerAskedOnce, AsksOnce
  <2>1. tried = 1..NumKeys
    BY DEF IInv, PublicKeyLast
  <2>2. PICK m \in ToDevice : toDev = <<m>>
    BY DEF IInv, Flow
  <2>3. toDev[i] = m
    BY <2>2
  <2>4. m = Msg("PUBLICKEY", m.arg) /\ m.arg \in Hosts
    BY <2>3 DEF ToDevice, Msg
  <2>5. Refused(tried)
    BY <2>2, <2>4 DEF IInv, Refusals, Keys
  <2>6. QED
    BY <2>1, <2>3, <2>5 DEF Refused, Mine
<1>2. QED
  BY <1>1, HandshakeIInv, PTL

\* Who is taken for online has been let in by adbd (Catransport.cpp 323-343, CAdb.cpp
\* 149-156).
THEOREM HandshakeOnlineMeansAccepted == Spec => []OnlineMeansAccepted
<1>1. IInv => OnlineMeansAccepted
  BY DEF IInv
<1>2. QED
  BY <1>1, HandshakeIInv, PTL

\* A device that is gone is offline when user_thread has handled the SYNC(0) behind its
\* last packet (Catransport.cpp 316-320).
THEOREM HandshakeLostIsOffline == Spec => []LostIsOffline
<1>1. IInv => LostIsOffline
  BY DEF IInv
<1>2. QED
  BY <1>1, HandshakeIInv, PTL
===============================================================================
