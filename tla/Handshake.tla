------------------------------ MODULE Handshake ------------------------------
(***************************************************************************)
(* How a transport comes online: user_thread's SYNC, CNXN and AUTH cases   *)
(* of handle_packet (Catransport.cpp 155-200, 244-370) with the key list   *)
(* of adb_auth_host.cpp (HostKeys) and, external, adbd.  The device may be *)
(* plugged in again, and the process started again; what the owner of the  *)
(* device has accepted stays.  The two queues are the pump of module       *)
(* Transport.  A key in the list is its place there, 0 is NULL; a banner   *)
(* is the state parse_banner makes of it.                                  *)
(***************************************************************************)
EXTENDS HostKeys

CONSTANTS
    Me,             \* the process that has the device
    Banners,        \* connection states a device can announce
    MaxConnects,    \* bound: transports started
    MaxFailures     \* bound: times a signature or the public key cannot be made

ASSUME HandshakeAssumption ==
    /\ Me \in Hosts /\ MaxConnects \in Nat /\ MaxFailures \in Nat
    /\ Banners \subseteq {"device", "bootloader", "recovery", "sideload", "host"}

VARIABLES
    connection_state, online, key,  \* the transport's fields
    toDev, fromDev,                 \* packets on their way
    tried,          \* places of key_list signed with since the list was begun
    unasked,        \* a CNXN was sent that no SYNC asked for
    connects, failures, \* bounds
    up,             \* the device is there
    goodbye,        \* output_thread has put SYNC(0) behind the device's last packet
    kicked,         \* the transport's flag; also while there is no transport
    left,           \* user_thread has left
    adbd, offered, authorised, auth_enabled, banner  \* external: adbd

host == <<connection_state, online, key, tried, unasked, connects, failures>>
device == <<adbd, offered, authorised, auth_enabled, banner>>
pump == <<up, goodbye, kicked, left>>
handshake == <<host, toDev, fromDev, pump, device>>
vars == <<keysVars, handshake>>

MyKeys == key_list[Me]
NumKeys == Len(MyKeys)
Mine == {MyKeys[i] : i \in 1..NumKeys}
Msg(cmd, arg) == [cmd |-> cmd, arg |-> arg]
Nobody == "nobody"

\* Catransport's constructor, and nothing on its way.
NewTransportKeepingKey ==
    /\ connection_state' = "offline" /\ online' = FALSE /\ UNCHANGED key
    /\ tried' = {} /\ toDev' = <<>>

NewTransport ==
    /\ connection_state' = "offline" /\ online' = FALSE /\ key' = 0
    /\ tried' = {} /\ toDev' = <<>>

Init ==
    /\ KeysInit
    /\ connection_state = "offline" /\ online = FALSE /\ key = 0
    /\ toDev = <<>> /\ fromDev = <<>> /\ tried = {} /\ unasked = FALSE
    /\ connects = 0 /\ failures = 0
    /\ up = FALSE /\ goodbye = FALSE /\ kicked = TRUE /\ left = TRUE
    /\ adbd = "offline" /\ offered = Nobody /\ authorised \in SUBSET Vendors
    /\ auth_enabled \in BOOLEAN /\ banner \in Banners

-------------------------------------------------------------------------------
\* A device is found, and output_thread begins with SYNC(1).
Attach ==
    /\ auth[Me] = "done" /\ ~up /\ connects < MaxConnects
    /\ connects' = connects + 1
    /\ NewTransport
    /\ fromDev' = <<Msg("SYNC", 1)>> /\ up' = TRUE
    /\ goodbye' = FALSE /\ kicked' = FALSE /\ left' = FALSE
    /\ adbd' = "offline" /\ offered' = Nobody
    /\ UNCHANGED <<keysVars, unasked, failures, authorised, auth_enabled, banner>>

NextKeySkippingHead(k) == IF k >= NumKeys THEN 0 ELSE IF k = 0 /\ NumKeys > 1 THEN 2 ELSE k + 1

NextKeyShort(k) == IF k + 1 >= NumKeys THEN 0 ELSE k + 1

\* adb_auth_nextkey: the key after this one, NULL after the last.
NextKey(k) == IF k >= NumKeys THEN 0 ELSE k + 1

Is(cmd) == fromDev # <<>> /\ Head(fromDev).cmd = cmd
Taken == fromDev' = Tail(fromDev)

\* send_packet: nothing goes onto the pipe of a transport that is kicked.
Sends(m) == toDev' = IF kicked THEN toDev ELSE Append(toDev, m)

\* A_SYNC(1): the handshake begins with CNXN.
HandleSync ==
    /\ Is("SYNC") /\ Head(fromDev).arg = 1 /\ Taken
    /\ Sends(Msg("CNXN", "host"))
    /\ UNCHANGED <<keysVars, host, up, goodbye, device>>

\* A_SYNC(0), after the last packet of the device.
HandleOfflineKeepingState ==
    /\ Is("SYNC") /\ Head(fromDev).arg = 0 /\ Taken
    /\ online' = FALSE
    /\ UNCHANGED <<keysVars, connection_state, key, tried, unasked, connects, failures, toDev,
                   up, goodbye, device>>

HandleOffline ==
    /\ Is("SYNC") /\ Head(fromDev).arg = 0 /\ Taken
    /\ connection_state' = "offline" /\ online' = FALSE
    /\ UNCHANGED <<keysVars, key, tried, unasked, connects, failures, toDev, up, goodbye, device>>

\* A_CNXN: offline first, if it was connected before; then what parse_banner says,
\* and, unless still online, online.  A device that is no "device" gets a CNXN.
HandleCnxnAlwaysAnswers ==
    /\ Is("CNXN") /\ Taken
    /\ connection_state' = Head(fromDev).arg
    /\ online' = TRUE
    /\ Sends(Msg("CNXN", "host")) /\ unasked' = TRUE
    /\ UNCHANGED <<keysVars, key, tried, connects, failures, up, goodbye, device>>

HandleCnxn ==
    /\ Is("CNXN") /\ Taken
    /\ connection_state' = Head(fromDev).arg
    /\ online' = TRUE
    /\ IF (connection_state # "offline" \/ ~online) /\ Head(fromDev).arg # "device"
       THEN Sends(Msg("CNXN", "host")) /\ unasked' = TRUE
       ELSE UNCHANGED <<toDev, unasked>>
    /\ UNCHANGED <<keysVars, key, tried, connects, failures, up, goodbye, device>>

\* A_AUTH(TOKEN): sign with the next key, or send the public key after the last.
\* If that fails, or there is no public key, nothing is sent at all.
Signs(k) == k # 0 /\ Sends(Msg("SIGNATURE", MyKeys[k]))
SendsPublic(k) == k = 0 /\ adbkey_pub # Absent /\ Sends(Msg("PUBLICKEY", adbkey_pub))

HandleAuthOnline ==
    /\ Is("AUTH") /\ Taken
    /\ key' = NextKey(key)
    /\ tried' = (IF key = 0 THEN {} ELSE tried) \cup ({key'} \ {0})
    /\ Signs(key') \/ SendsPublic(key')
    /\ connection_state' = "device" /\ online' = TRUE
    /\ UNCHANGED <<keysVars, unasked, connects, failures, up, goodbye, device>>

HandleAuth ==
    /\ Is("AUTH") /\ Taken
    /\ key' = NextKey(key)
    /\ tried' = (IF key = 0 THEN {} ELSE tried) \cup ({key'} \ {0})
    /\ \/ (Signs(key') \/ SendsPublic(key')) /\ UNCHANGED failures
       \/ key' = 0 /\ adbkey_pub = Absent /\ UNCHANGED <<toDev, failures>>
       \/ failures < MaxFailures /\ failures' = failures + 1 /\ UNCHANGED toDev
    /\ UNCHANGED <<keysVars, connection_state, online, unasked, connects, up, goodbye, device>>

\* The cable is pulled, and output_thread writes SYNC(0), in vain on a transport that
\* is kicked.
Unplug ==
    /\ up
    /\ up' = FALSE /\ goodbye' = ~kicked
    /\ fromDev' = IF kicked THEN fromDev ELSE Append(fromDev, Msg("SYNC", 0))
    /\ UNCHANGED <<keysVars, host, toDev, kicked, left, device>>

\* Clear, by output_thread after SYNC(0) or by a user at any time.
Clear ==
    /\ ~kicked
    /\ kicked' = TRUE
    /\ UNCHANGED <<keysVars, host, toDev, fromDev, up, goodbye, left, device>>

\* user_thread looks at kicked before it reads, and leaves, whatever is still queued.
LeaveKicked ==
    /\ kicked /\ ~left
    /\ left' = TRUE
    /\ UNCHANGED <<keysVars, host, toDev, fromDev, up, goodbye, kicked, device>>

\* Our process ends, and with it the transport.
ExitMine ==
    /\ Exit(Me)
    /\ NewTransport
    /\ fromDev' = <<>> /\ up' = FALSE
    /\ goodbye' = FALSE /\ kicked' = TRUE /\ left' = TRUE
    /\ UNCHANGED <<unasked, connects, failures, device>>

\* adb_auth_init, in our process and the others with this home directory.
Files ==
    /\ \/ \E h \in Hosts : AuthInit(h)
       \/ \E h \in Hosts \ {Me} : Exit(h)
    /\ UNCHANGED handshake

-------------------------------------------------------------------------------
(* External: adbd.  What output_thread reads on a transport that is kicked it *)
(* cannot write.                                                             *)
Answers(state, m) == adbd' = state /\ fromDev' = IF kicked THEN fromDev ELSE Append(fromDev, m)
GoesOnline == Answers("online", Msg("CNXN", banner))
AsksAuth == Answers("token", Msg("AUTH", 0))

DeviceReceive ==
    /\ up /\ toDev # <<>>
    /\ toDev' = Tail(toDev)
    /\ LET m == Head(toDev) IN
       /\ \/ m.cmd = "CNXN" /\ auth_enabled /\ AsksAuth
          \/ m.cmd = "CNXN" /\ ~auth_enabled /\ GoesOnline
          \/ m.cmd = "SIGNATURE" /\ adbd = "token" /\ m.arg \in authorised /\ GoesOnline
          \/ m.cmd = "SIGNATURE" /\ adbd = "token" /\ m.arg \notin authorised /\ AsksAuth
          \/ m.cmd = "PUBLICKEY" /\ adbd = "token" /\ adbd' = "confirm" /\ UNCHANGED fromDev
          \/ m.cmd # "CNXN" /\ adbd # "token" /\ UNCHANGED <<adbd, fromDev>>
       /\ offered' = IF m.cmd = "PUBLICKEY" /\ adbd = "token" THEN m.arg ELSE offered
    /\ UNCHANGED <<keysVars, host, pump, authorised, auth_enabled, banner>>

\* The owner of the device accepts the public key.
DeviceConfirm ==
    /\ up /\ adbd = "confirm"
    /\ GoesOnline
    /\ authorised' = authorised \cup {offered}
    /\ UNCHANGED <<keysVars, host, toDev, pump, offered, auth_enabled, banner>>

-------------------------------------------------------------------------------
\* user_thread handles the packet it took, which may be one that it waited for when
\* the transport was kicked, and looks at kicked.
HandlePacket ==
    /\ ~left
    /\ HandleSync \/ HandleOffline \/ HandleCnxn \/ HandleAuth
    /\ left' = kicked /\ UNCHANGED kicked

Next ==
    \/ Files \/ ExitMine \/ Attach \/ HandlePacket \/ Unplug \/ Clear \/ LeaveKicked
    \/ DeviceReceive \/ DeviceConfirm

Spec == Init /\ [][Next]_vars

\* user_thread and adbd run; the owner, the cable and the user owe nothing.
FairSpec == Spec /\ WF_vars(HandlePacket) /\ WF_vars(DeviceReceive)

-------------------------------------------------------------------------------
Steps == {"stopped", "create", "public", "close", "giveup", "read", "done"}
ToDevice == [cmd : {"CNXN"}, arg : {"host"}] \cup [cmd : {"SIGNATURE"}, arg : Keys]
            \cup [cmd : {"PUBLICKEY"}, arg : Hosts]
FromDevice == [cmd : {"SYNC"}, arg : {0, 1}] \cup [cmd : {"CNXN"}, arg : Banners]
              \cup [cmd : {"AUTH"}, arg : {0}]

\* The variables have their types and the key is one of the list (Catransport.cpp
\* 30, 346, adb_auth_host.cpp 405-425).
TypeOK ==
    /\ adbkey \in Hosts \cup {Absent, Torn} /\ adbkey_pub \in Hosts \cup {Absent}
    /\ auth \in [Hosts -> Steps] /\ key_list \in [Hosts -> Seq(Keys)]
    /\ exits \in Nat /\ faults \in Nat /\ connects \in Nat /\ failures \in Nat
    /\ connection_state \in Banners \cup {"offline"} /\ online \in BOOLEAN
    /\ key \in 0..NumKeys /\ tried \subseteq 1..NumKeys
    /\ toDev \in Seq(ToDevice) /\ fromDev \in Seq(FromDevice)
    /\ unasked \in BOOLEAN /\ up \in BOOLEAN /\ goodbye \in BOOLEAN
    /\ kicked \in BOOLEAN /\ left \in BOOLEAN
    /\ adbd \in {"offline", "token", "confirm", "online"}
    /\ offered \in Hosts \cup {Nobody} /\ authorised \subseteq Keys
    /\ auth_enabled \in BOOLEAN /\ banner \in Banners

\* The public key, which makes the owner of the device decide, is a last resort: it
\* is sent only when every private key was tried (Catransport.cpp 346-353).
PublicKeyLast ==
    \A i \in DOMAIN toDev : toDev[i].cmd = "PUBLICKEY" => tried = 1..NumKeys

\* The owner is not asked again for a key that was accepted, in an earlier session
\* or by an earlier process, as long as the host can sign with it: also when two
\* processes made keys at once, or one was cut short (Catransport.cpp 346-353,
\* adb_auth_host.cpp 220-270, 342-364).
AsksOnce ==
    \A i \in DOMAIN toDev :
        toDev[i].cmd = "PUBLICKEY" /\ toDev[i].arg \in authorised => toDev[i].arg \notin Mine
OwnerAskedOnce == banner = "device" => AsksOnce

\* A client that sees CS_DEVICE and online talks to an adbd that let this host in
\* (Catransport.cpp 323-343, CAdb.cpp 149-156).
OnlineMeansAccepted == connection_state = "device" /\ online /\ up => adbd = "online"

\* When user_thread has handled the SYNC(0) behind the last packet of a lost device
\* nobody takes it for connected, whatever had arrived before (Catransport.cpp 316-320).
LostIsOffline ==
    goodbye /\ fromDev = <<>> => ~online /\ connection_state = "offline"

\* So it would be whenever user_thread leaves, but it leaves once the transport is
\* kicked, with SYNC(0) in the queue (adb_func.cpp 616, Catransport.cpp 1198, 1209).
LeftIsOffline == left => ~online /\ connection_state = "offline"

\* A device that wants no key, or knows one of the host's, comes online unless it is
\* unplugged or cleared or a signature cannot be made (Catransport.cpp 306-370).
ComesOnline ==
    (up /\ banner = "device" /\ (~auth_enabled \/ authorised \cap Mine # {}))
        ~> ((connection_state = "device" /\ online) \/ ~up \/ kicked \/ failures > 0)

\* The handshake with a device comes to an end: it does not answer CNXN with CNXN
\* for ever (Catransport.cpp 323-343).
Settles == <>[](banner = "device" => ~up \/ kicked \/ (toDev = <<>> /\ fromDev = <<>>))

\* "The PC side, HOST = 1" sends CNXN "if (!HOST)", never in answer to a CNXN
\* (Catransport.cpp 331, 335).
ConnectsOnlyOnSync == ~unasked

\* What adb_auth_init leaves is a pair: the device is offered the public key of a
\* private key of the host (adb_auth_host.cpp 220-270).
PairMatches == auth[Me] = "done" /\ adbkey_pub # Absent => adbkey_pub \in Mine

\* The owner of a device is asked, unless the key cannot be read just then.
Asks == (up /\ banner = "device")
        ~> ((connection_state = "device" /\ online) \/ adbd = "confirm" \/ ~up \/ kicked \/ failures > 0)
===============================================================================
