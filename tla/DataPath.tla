-------------------------------- MODULE DataPath --------------------------------
(***************************************************************************)
(* The bytes of one stream on their way through the host, in the packets   *)
(* that carry them (Catransport.cpp, adb_func.cpp):                        *)
(*                                                                         *)
(*   usb_read -> output_thread -> b2a -> user_thread -> ptrlist            *)
(*            -> client_read (last_apacket) or shell_recv -> caller        *)
(*   client_write -> a2b -> input_thread -> usb_write                      *)
(*                                                                         *)
(* A packet is a buffer that is got from a pool, filled, passed on by its  *)
(* pointer, and put back; what a reader finds in it is what was written to *)
(* it last.  The bytes of a stream are numbered from 1 in each direction.  *)
(* How threads wait is left to Transport and Channels: here a wait may     *)
(* return at any time.                                                     *)
(***************************************************************************)
EXTENDS Integers, Sequences, SequencesExt, FiniteSets

CONSTANTS
    Packets,        \* bound: packets malloc can give; getting one waits for one
    MaxPayload,     \* bytes in a packet (4096)
    Kinds,          \* types of the channel: "forward", "shell_sync", "shell_async"
    Sizes,          \* bytes a call asks for
    MaxStreams,     \* bound: streams the client opens on its channel
    MaxSent,        \* bound: bytes the device sends on each
    MaxWritten,     \* bound: bytes the client writes on each
    MaxLines        \* bound: lines sent to a channel that has no interactive shell

ASSUME DataPathAssumption ==
    /\ IsFiniteSet(Packets) /\ "none" \notin Packets /\ MaxPayload \in Nat \ {0}
    /\ Kinds \subseteq {"forward", "shell_sync", "shell_async"}
    /\ Sizes \subseteq Nat \ {0}
    /\ MaxStreams \in Nat /\ MaxSent \in Nat /\ MaxWritten \in Nat /\ MaxLines \in Nat

VARIABLES
    heap, pool,     \* free memory, loop_to_use_apacket
    contents,       \* per packet: what was written to it last
    b2a, a2b,       \* the pipes
    hand,           \* per thread: the packet its pointer p is about
    sending,        \* the client is past the tests before the push
    pump,           \* output_thread: "on" in its loop, "off" behind it, "ended"
    kicked,
    reading,        \* threads whose read_packet goes on although the transport is kicked
    biptype, ptrlist, last_apacket, \* the channel
    pc, len, readlen,   \* the client: the call it is in, the bytes the call is to
                    \* move, and those it still has to
    isAddChar,      \* shell_recv has seen data since it last looked for a prompt
    kind, stream,   \* what the client opened last
    lines,          \* bound: calls that lost a packet
    fromDevice, toCaller,   \* bytes the device sent, run of bytes copied last
    written, toDevice, intact,  \* bytes queued by client_write, run that reached the
                            \* device last, no usb_write has failed
    live            \* external: the device has the stream open

memory == <<heap, pool, contents>>
channel == <<biptype, ptrlist, last_apacket>>
client == <<pc, len, readlen, isAddChar, kind, stream, lines>>
down == <<fromDevice, toCaller>>
up == <<written, toDevice, intact>>
vars == <<memory, b2a, a2b, hand, sending, pump, kicked, reading, channel, client, down, up,
          live>>

None == "none"
Threads == {"output", "user", "input", "client"}
Data(n, from, to) == [cmd |-> "WRTE", n |-> n, from |-> from, to |-> to]
Clse(n) == [cmd |-> "CLSE", n |-> n, from |-> 0, to |-> 0]
Blank == [cmd |-> "blank", n |-> 0, from |-> 0, to |-> 0]
Sync == [cmd |-> "SYNC", n |-> 0, from |-> 0, to |-> 0]
Nothing == [from |-> 0, to |-> 0]
Span(p) == [from |-> contents[p].from, to |-> contents[p].to]
Size(p) == contents[p].to - contents[p].from + 1

Init ==
    /\ heap = Packets /\ pool = <<>> /\ contents = [p \in Packets |-> Blank]
    /\ b2a = <<>> /\ a2b = <<>> /\ hand = [t \in Threads |-> None] /\ sending = FALSE
    /\ pump = "on" /\ kicked = FALSE /\ reading = {}
    /\ biptype = "close" /\ ptrlist = <<>> /\ last_apacket = None
    /\ pc = "idle" /\ len = 0 /\ readlen = 0 /\ isAddChar = FALSE
    /\ kind = "close" /\ stream = 0 /\ lines = 0
    /\ fromDevice = 0 /\ toCaller = Nothing
    /\ written = 0 /\ toDevice = Nothing /\ intact = TRUE
    /\ live = FALSE

-------------------------------------------------------------------------------
\* get_apacket: the packet that was put back first, or a new one.
Get(p) ==
    IF pool # <<>> THEN p = Head(pool) /\ pool' = Tail(pool) /\ UNCHANGED heap
    ELSE p \in heap /\ heap' = heap \ {p} /\ UNCHANGED pool

\* put_apacket of some packets: to the pool, or to free() once the transport is
\* kicked.  What they held is nobody's from then on.
Wiped(ps) == contents' = [p \in Packets |-> IF p \in ps THEN Blank ELSE contents[p]]

PutAll(ps) ==
    /\ IF kicked THEN heap' = heap \cup Range(ps) /\ UNCHANGED pool
       ELSE pool' = pool \o ps /\ UNCHANGED heap
    /\ Wiped(Range(ps))
PutBack(p) == PutAll(<<p>>)

Holds(t, p) == hand' = [hand EXCEPT ![t] = p]

-------------------------------------------------------------------------------
(* output_thread, with the device at its other end.                        *)
OutputGet ==
    /\ hand["output"] = None /\ pump # "ended"
    /\ \E p \in Packets :
          /\ Get(p) /\ Holds("output", p)
          /\ contents' = [contents EXCEPT ![p] = IF pump = "off" THEN Sync ELSE Blank]
    /\ UNCHANGED <<pump, sending, b2a, a2b, kicked, reading, channel, client, down, up,
                   live>>

UsbReading == hand["output"] # None /\ contents[hand["output"]] = Blank

\* read_from_remote fills the packet: data of the stream, or its end.
UsbRead(m) ==
    /\ UsbReading
    /\ contents' = [contents EXCEPT ![hand["output"]] = m]
    /\ UNCHANGED <<pump, sending, heap, pool, b2a, a2b, hand, kicked, reading, channel,
                   client, up, toCaller>>

DeviceSend(k) ==
    /\ live /\ fromDevice + k <= MaxSent /\ k <= MaxPayload
    /\ UsbRead(Data(stream, fromDevice + 1, fromDevice + k))
    /\ fromDevice' = fromDevice + k
    /\ UNCHANGED live

DeviceClose ==
    /\ live /\ UsbRead(Clse(stream))
    /\ live' = FALSE
    /\ UNCHANGED fromDevice

\* usb_read has failed, or the packet is damaged (check_header, check_data): the loop
\* is left, and a SYNC(0) follows what was read before.
UsbReadFails ==
    /\ UsbReading
    /\ PutBack(hand["output"]) /\ Holds("output", None)
    /\ pump' = "off"
    /\ UNCHANGED <<sending, b2a, a2b, kicked, reading, channel, client, down, up, live>>

\* usb_write_packet, by thread t: once the transport is kicked its first test puts the
\* packet back, and the test of its loop drops the pointer.
Push(t, a2bAfter, b2aAfter) ==
    /\ \/ ~kicked /\ a2b' = a2bAfter /\ b2a' = b2aAfter /\ UNCHANGED memory
       \/ kicked /\ PutBack(hand[t]) /\ UNCHANGED <<a2b, b2a>>
       \/ kicked /\ UNCHANGED <<memory, a2b, b2a>>
    /\ Holds(t, None)

OutputWrite ==
    /\ hand["output"] # None /\ contents[hand["output"]] # Blank
    /\ Push("output", a2b, Append(b2a, hand["output"]))
    /\ pump' = IF kicked \/ pump = "off" THEN "ended" ELSE pump
    /\ UNCHANGED <<sending, kicked, reading, channel, client, down, up, live>>

\* usb_read_packet, by a thread that holds none: past the test of its loop it takes one
\* packet more, whether the transport is kicked meanwhile or not.
ReadPacket(t, p) ==
    /\ hand[t] = None /\ (kicked => t \in reading)
    /\ Holds(t, p) /\ reading' = reading \ {t}

\* Clear, the first time.  It leaves the device open.
KickTransport ==
    /\ kicked' = TRUE
    /\ reading' = IF kicked THEN reading ELSE {t \in {"user", "input"} : hand[t] = None}

-------------------------------------------------------------------------------
(* user_thread: the A_SYNC, A_WRTE and A_CLSE cases of handle_packet.      *)
UserRead ==
    /\ b2a # <<>> /\ b2a' = Tail(b2a) /\ ReadPacket("user", Head(b2a))
    /\ UNCHANGED <<pump, sending, memory, a2b, kicked, channel, client, down, up, live>>

\* local_client_enqueue: from now on the packet is the channel's.
LocalClientEnqueueAndPut ==
    /\ hand["user"] # None /\ contents[hand["user"]].cmd = "WRTE"
    /\ ptrlist' = Append(ptrlist, hand["user"])
    /\ PutBack(hand["user"]) /\ Holds("user", None)
    /\ UNCHANGED <<pump, sending, b2a, a2b, kicked, reading, biptype, last_apacket, client,
                   down, up, live>>

LocalClientEnqueue ==
    /\ hand["user"] # None /\ contents[hand["user"]].cmd = "WRTE"
    /\ ptrlist' = Append(ptrlist, hand["user"])
    /\ Holds("user", None)
    /\ UNCHANGED <<pump, sending, memory, b2a, a2b, kicked, reading, biptype, last_apacket,
                   client, down, up, live>>

HandleClse ==
    /\ hand["user"] # None /\ contents[hand["user"]].cmd = "CLSE"
    /\ biptype' = "close"
    /\ PutBack(hand["user"]) /\ Holds("user", None)
    /\ UNCHANGED <<pump, sending, b2a, a2b, kicked, reading, ptrlist, last_apacket, client,
                   down, up, live>>

\* SYNC(0) is passed on to input_thread.
HandleSync ==
    /\ hand["user"] # None /\ contents[hand["user"]] = Sync
    /\ Push("user", Append(a2b, hand["user"]), b2a)
    /\ UNCHANGED <<pump, sending, kicked, reading, channel, client, down, up, live>>

-------------------------------------------------------------------------------
(* The client.  What it opens it reads and writes with the calls for it.   *)

\* local_client_type_set returns when the device has closed the stream before, or
\* the transport is gone; the new stream begins with empty queues.
ClientClearKeepingLast ==
    /\ PutAll(ptrlist)
    /\ ptrlist' = <<>> /\ UNCHANGED last_apacket

ClientClear ==
    /\ IF kicked THEN heap' = heap \cup Range(ptrlist) \cup ({last_apacket} \ {None})
                      /\ UNCHANGED pool
       ELSE heap' = heap \cup ({last_apacket} \ {None}) /\ pool' = pool \o ptrlist
    /\ Wiped(Range(ptrlist) \cup {last_apacket})
    /\ ptrlist' = <<>> /\ last_apacket' = None

TypeSet(type) ==
    /\ pc = "idle" /\ biptype = "close" /\ stream < MaxStreams
    /\ ClientClear
    /\ biptype' = type /\ kind' = type /\ stream' = stream + 1
    /\ live' = ~kicked
    /\ fromDevice' = 0 /\ toCaller' = Nothing
    /\ written' = 0 /\ toDevice' = Nothing /\ intact' = TRUE
    /\ UNCHANGED <<pump, sending, b2a, a2b, hand, kicked, reading, pc, len, readlen,
                   isAddChar, lines>>

Call(what, n) ==
    /\ pc' = what /\ len' = n /\ readlen' = n
    /\ UNCHANGED <<isAddChar, kind, stream, lines>>
Return == Call("idle", 0)

\* forward_read, sync_read and sync_read_to_buffer are client_read.
ReadBegin(n) ==
    /\ pc = "idle" /\ kind = "forward" /\ biptype = "forward"
    /\ Call("client_read", n)
    /\ UNCHANGED <<pump, sending, memory, b2a, a2b, hand, kicked, reading, channel, down,
                   up, live>>

\* The loop goes on.
Reading == pc = "client_read" /\ readlen > 0 /\ biptype # "close" /\ ~kicked

\* The packet is used up.
ReadDrop ==
    /\ Reading /\ last_apacket # None /\ Size(last_apacket) = 0
    /\ PutBack(last_apacket) /\ last_apacket' = None
    /\ UNCHANGED <<pump, sending, b2a, a2b, hand, kicked, reading, biptype, ptrlist, client,
                   down, up, live>>

\* A part of the packet, or all of it, goes to the caller.
ReadCopyWhole ==
    /\ Reading /\ last_apacket # None /\ Size(last_apacket) > 0
    /\ LET p == last_apacket IN
       /\ toCaller' = Span(p)
       /\ contents' = [contents EXCEPT ![p].from = contents[p].to + 1]
       /\ readlen' = readlen - Size(p)
    /\ UNCHANGED <<pump, sending, heap, pool, b2a, a2b, hand, kicked, reading, channel, pc,
                   len, isAddChar, kind, stream, lines, fromDevice, up, live>>

ReadCopy ==
    /\ Reading /\ last_apacket # None /\ Size(last_apacket) > 0
    /\ LET p == last_apacket
           clen == IF readlen > Size(p) THEN Size(p) ELSE readlen IN
       /\ toCaller' = [from |-> contents[p].from, to |-> contents[p].from + clen - 1]
       /\ contents' = [contents EXCEPT ![p].from = @ + clen]
       /\ readlen' = readlen - clen
    /\ UNCHANGED <<pump, sending, heap, pool, b2a, a2b, hand, kicked, reading, channel, pc,
                   len, isAddChar, kind, stream, lines, fromDevice, up, live>>

\* The next packet; without one the call waits and looks again.
ReadPop ==
    /\ Reading /\ last_apacket = None /\ ptrlist # <<>>
    /\ last_apacket' = Head(ptrlist) /\ ptrlist' = Tail(ptrlist)
    /\ UNCHANGED <<pump, sending, memory, b2a, a2b, hand, kicked, reading, biptype, client,
                   down, up, live>>

\* The call returns: all is read, the channel is closed, or the time is over.
ReadReturn ==
    /\ pc = "client_read"
    /\ Return
    /\ UNCHANGED <<pump, sending, memory, b2a, a2b, hand, kicked, reading, channel, down,
                   up, live>>

-------------------------------------------------------------------------------
ShellKinds == {"shell_sync", "shell_async"}

ShellRecvBegin ==
    /\ pc = "idle" /\ kind \in ShellKinds
    /\ pc' = "shell_recv" /\ isAddChar' = FALSE
    /\ UNCHANGED <<pump, sending, memory, b2a, a2b, hand, kicked, reading, channel, len,
                   readlen, kind, stream, lines, down, up, live>>

\* An iteration: a packet, or none.
ShellPop ==
    /\ pc = "shell_recv" /\ hand["client"] = None /\ ~kicked
    /\ IF ptrlist # <<>>
       THEN Holds("client", Head(ptrlist)) /\ ptrlist' = Tail(ptrlist) /\ UNCHANGED pc
       ELSE pc' = "shell_empty" /\ UNCHANGED <<hand, ptrlist>>
    /\ UNCHANGED <<pump, sending, memory, b2a, a2b, kicked, reading, biptype, last_apacket,
                   len, readlen, isAddChar, kind, stream, lines, down, up, live>>

\* The packet is appended to the answer and put back.
ShellAppend ==
    /\ pc = "shell_recv" /\ hand["client"] # None
    /\ toCaller' = Span(hand["client"])
    /\ PutBack(hand["client"]) /\ Holds("client", None)
    /\ isAddChar' = (isAddChar \/ biptype = "shell_async")
    /\ UNCHANGED <<pump, sending, b2a, a2b, kicked, reading, channel, pc, len, readlen,
                   kind, stream, lines, fromDevice, up, live>>

\* There was none: the shell has ended, or an interactive one may show its prompt,
\* or the call waits.
ShellEmpty ==
    /\ pc = "shell_empty"
    /\ \/ biptype \notin ShellKinds /\ pc' = "idle" /\ UNCHANGED isAddChar
       \/ biptype \in ShellKinds /\ isAddChar /\ isAddChar' = FALSE
             /\ pc' \in {"idle", "shell_recv"}
       \/ biptype \in ShellKinds /\ ~isAddChar /\ pc' = "shell_recv" /\ UNCHANGED isAddChar
    /\ UNCHANGED <<pump, sending, memory, b2a, a2b, hand, kicked, reading, channel, len,
                   readlen, kind, stream, lines, down, up, live>>

\* kicked, or the time is over.
ShellReturn ==
    /\ pc = "shell_recv" /\ hand["client"] = None
    /\ pc' = "idle"
    /\ UNCHANGED <<pump, sending, memory, b2a, a2b, hand, kicked, reading, channel, len,
                   readlen, isAddChar, kind, stream, lines, down, up, live>>

-------------------------------------------------------------------------------
\* client_write: what is to be written, and then a packet for as much as fits.
WriteBegin(n) ==
    /\ pc = "idle" /\ kind = "forward" /\ biptype = "forward"
    /\ written + n <= MaxWritten
    /\ Call("client_write", n)
    /\ UNCHANGED <<pump, sending, memory, b2a, a2b, hand, kicked, reading, channel, down,
                   up, live>>

WriteFillFromStart ==
    /\ pc = "client_write" /\ hand["client"] = None /\ readlen > 0
    /\ LET slen == IF readlen > MaxPayload THEN MaxPayload ELSE readlen IN
       \E p \in Packets :
          /\ Get(p) /\ Holds("client", p)
          /\ contents' = [contents EXCEPT ![p] =
                             Data(stream, written + 1 - (len - readlen), written + slen)]
    /\ UNCHANGED <<pump, sending, b2a, a2b, kicked, reading, channel, client, down, up,
                   live>>

WriteFill ==
    /\ pc = "client_write" /\ hand["client"] = None /\ readlen > 0
    /\ LET slen == IF readlen > MaxPayload THEN MaxPayload ELSE readlen IN
       \E p \in Packets :
          /\ Get(p) /\ Holds("client", p)
          /\ contents' = [contents EXCEPT ![p] = Data(stream, written + 1, written + slen)]
    /\ UNCHANGED <<pump, sending, b2a, a2b, kicked, reading, channel, client, down, up,
                   live>>

\* local_remote_enqueue: what cannot be sent is put back, and ends the call.
Refused == biptype = "close" \/ kicked

WriteTestKeeping ==
    /\ pc = "client_write" /\ hand["client"] # None /\ ~sending
    /\ IF Refused THEN Return /\ Holds("client", None) /\ UNCHANGED <<memory, sending>>
       ELSE sending' = TRUE /\ UNCHANGED <<memory, hand, client>>
    /\ UNCHANGED <<pump, b2a, a2b, kicked, reading, channel, down, up, live>>

WriteTest ==
    /\ pc = "client_write" /\ hand["client"] # None /\ ~sending
    /\ IF Refused THEN Return /\ PutBack(hand["client"]) /\ Holds("client", None)
                       /\ UNCHANGED sending
       ELSE sending' = TRUE /\ UNCHANGED <<memory, hand, client>>
    /\ UNCHANGED <<pump, b2a, a2b, kicked, reading, channel, down, up, live>>

\* usb_write_packet: a transport that is kicked meanwhile takes the packet back or
\* loses it, and the call goes on with the next one.
WritePush ==
    /\ sending
    /\ sending' = FALSE /\ Holds("client", None)
    /\ readlen' = readlen - Size(hand["client"])
    /\ \/ /\ ~kicked /\ a2b' = Append(a2b, hand["client"])
          /\ written' = contents[hand["client"]].to
          /\ UNCHANGED memory
       \/ kicked /\ PutBack(hand["client"]) /\ UNCHANGED <<a2b, written>>
       \/ kicked /\ UNCHANGED <<memory, a2b, written>>
    /\ UNCHANGED <<pump, b2a, kicked, reading, channel, pc, len, isAddChar, kind, stream,
                   lines, down, toDevice, intact, live>>

WriteReturn ==
    /\ pc = "client_write" /\ hand["client"] = None /\ readlen = 0
    /\ Return
    /\ UNCHANGED <<pump, sending, memory, b2a, a2b, hand, kicked, reading, channel, down,
                   up, live>>

\* shell_send of a line without "shell:" to a channel that has no interactive shell:
\* the packet it has got by then is lost.
ShellLine ==
    /\ pc = "idle" /\ biptype # "shell_async" /\ ~kicked /\ lines < MaxLines
    /\ lines' = lines + 1
    /\ \E p \in Packets : Get(p)
    /\ UNCHANGED <<pump, sending, contents, b2a, a2b, hand, kicked, reading, channel, pc,
                   len, readlen, isAddChar, kind, stream, down, up, live>>

-------------------------------------------------------------------------------
(* input_thread, with the device at its other end.                         *)
InputRead ==
    /\ a2b # <<>> /\ a2b' = Tail(a2b) /\ ReadPacket("input", Head(a2b))
    /\ UNCHANGED <<pump, sending, memory, b2a, kicked, channel, client, down, up, live>>

\* SYNC(0) ends the thread, which calls Clear as it leaves.
InputOffline ==
    /\ hand["input"] # None /\ contents[hand["input"]] = Sync
    /\ PutBack(hand["input"]) /\ Holds("input", None)
    /\ KickTransport
    /\ UNCHANGED <<pump, sending, b2a, a2b, channel, client, down, up, live>>

\* write_to_remote, whose result nobody looks at, and put_apacket.  adbd drops what
\* belongs to no stream of its own.
InputWrite ==
    /\ hand["input"] # None /\ contents[hand["input"]] # Sync
    /\ LET m == contents[hand["input"]]
           mine == m.n = stream /\ m.cmd = "WRTE" IN
       \/ /\ toDevice' = IF live /\ mine THEN Span(hand["input"]) ELSE toDevice
          /\ UNCHANGED intact
       \/ intact' = (intact /\ ~mine) /\ UNCHANGED toDevice
    /\ PutBack(hand["input"]) /\ Holds("input", None)
    /\ UNCHANGED <<pump, sending, b2a, a2b, kicked, reading, channel, client, down, written,
                   live>>

-------------------------------------------------------------------------------
\* Clear.
Kick ==
    /\ ~kicked /\ KickTransport
    /\ UNCHANGED <<pump, sending, memory, b2a, a2b, hand, channel, client, down, up, live>>

Output == OutputGet \/ (\E k \in 1..MaxPayload : DeviceSend(k)) \/ DeviceClose
          \/ UsbReadFails \/ OutputWrite
User == UserRead \/ LocalClientEnqueue \/ HandleClse \/ HandleSync
Read == ReadDrop \/ ReadCopy \/ ReadPop \/ ReadReturn
Shell == ShellRecvBegin \/ ShellPop \/ ShellAppend \/ ShellEmpty \/ ShellReturn
Write == WriteFill \/ WriteTest \/ WritePush \/ WriteReturn
Input == InputRead \/ InputOffline \/ InputWrite

Next ==
    \/ Output \/ User \/ Input \/ Kick
    \/ \E type \in Kinds : TypeSet(type)
    \/ \E n \in Sizes : ReadBegin(n) \/ WriteBegin(n)
    \/ Read \/ Shell \/ Write \/ ShellLine

Spec == Init /\ [][Next]_vars

-------------------------------------------------------------------------------
\* Where a packet is, and how often.
Places(p) ==
    Cardinality({t \in Threads : hand[t] = p})
    + Cardinality({q \in {heap} : p \in q})
    + Cardinality({i \in DOMAIN pool : pool[i] = p})
    + Cardinality({i \in DOMAIN b2a : b2a[i] = p}) + Cardinality({i \in DOMAIN a2b : a2b[i] = p})
    + Cardinality({i \in DOMAIN ptrlist : ptrlist[i] = p})
    + Cardinality({q \in {last_apacket} : p = q})

Message == [cmd : {"WRTE", "CLSE", "SYNC", "blank"}, n : 0..MaxStreams, from : Nat, to : Nat]

\* The variables have their types, and a pointer p names a packet only where its
\* thread is at work on one (Catransport.cpp 652-802).
TypeOK ==
    /\ heap \subseteq Packets /\ contents \in [Packets -> Message]
    /\ pool \in Seq(Packets) /\ b2a \in Seq(Packets) /\ a2b \in Seq(Packets)
    /\ ptrlist \in Seq(Packets) /\ last_apacket \in Packets \cup {None}
    /\ hand \in [Threads -> Packets \cup {None}]
    /\ kicked \in BOOLEAN /\ live \in BOOLEAN /\ isAddChar \in BOOLEAN /\ intact \in BOOLEAN
    /\ biptype \in Kinds \cup {"close"} /\ kind \in Kinds \cup {"close"}
    /\ pc \in {"idle", "client_read", "shell_recv", "shell_empty", "client_write"}
    /\ readlen \in 0..len /\ stream \in 0..MaxStreams /\ lines \in 0..MaxLines
    /\ pump \in {"on", "off", "ended"} /\ reading \subseteq {"user", "input"}
    /\ sending => hand["client"] # None
    /\ hand["client"] # None => pc \in {"shell_recv", "client_write"}

\* A packet is in one place: no two threads, queues or channels have its pointer, and
\* nobody who has it finds it in the pool or freed (get_apacket, put_apacket and
\* everything between them, Catransport.cpp 128-150).
OneHolder == \A p \in Packets : Places(p) <= 1

\* Every packet comes back to the pool.  The exceptions are the line shell_send refuses
\* too late, and one packet of each thread that pushes when the transport is kicked
\* (Catransport.cpp 638-641, 1245-1257).
PacketsComeBack ==
    Cardinality({p \in Packets : Places(p) = 0}) <= lines + (IF kicked THEN 3 ELSE 0)

\* What the device sends reaches the client's calls in order, whole and once, however
\* the packets are cut and the calls sized, and nothing of a stream closed before
\* (Catransport.cpp 427-453, 652-779, 1155-1165).
Down == INSTANCE ByteStream WITH sent <- fromDevice, run <- toCaller, whole <- TRUE
DownSpec == Down!Spec

\* What client_write has queued reaches the device in order and once, and whole until
\* a usb_write fails (Catransport.cpp 781-802, adb_func.cpp 544-579).
Up == INSTANCE ByteStream WITH sent <- written, run <- toDevice, whole <- intact
UpSpec == Up!Spec

\* "0 means the read is complete, ... keeps the data not read" (Catransport.cpp 838):
\* a read of an open stream that does not succeed leaves the data to the next one.
FailedReadKeepsData ==
    [][pc = "client_read" /\ pc' = "idle" /\ readlen > 0 /\ biptype # "close" /\ ~kicked
          => readlen = len]_vars

\* shell_recv returns when the shell has ended and its output was read
\* (Catransport.cpp 681-682): it does not leave data behind.
ShellOutputIsWhole ==
    [][pc = "shell_empty" /\ pc' = "idle" /\ biptype = "close" => ptrlist = <<>>]_vars
===============================================================================
