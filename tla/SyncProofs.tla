------------------------------ MODULE SyncProofs ------------------------------
(***************************************************************************)
(* What the two ends of a transfer know of each other, for any number and  *)
(* contents of files: a transfer that reports success has done what it     *)
(* says, and Sync implements Transfer.                                     *)
(***************************************************************************)
EXTENDS Sync, FiniteSetTheorems, SequenceTheorems, TLAPS

Chunks == UNION {Range(c.data) : c \in Contents}
FileTypes == [time : Nat, data : Seq(Chunks)]

ToDevice ==
    [cmd : {"STAT", "SEND", "RECV", "LIST"}, f : Files, v : {0}]
    \cup [cmd : {"QUIT"}, f : {0}, v : {0}]
    \cup [cmd : {"DATA"}, f : Files, v : Chunks]
    \cup [cmd : {"DONE"}, f : Files, v : Nat]
FromDevice ==
    [cmd : {"STAT"}, f : {0}, v : [time : Nat, size : Nat]]
    \cup [cmd : {"OKAY", "FAIL", "DENT", "DONE"}, f : 0..NumFiles, v : {0}]
    \cup [cmd : {"DATA"}, f : Files, v : Chunks]

Sending == {"data", "done", "status"}
Ending == {"quit", "await_close", "returned"}
Labels == {"connect", "stat", "mode", "start", "finish", "send", "recv", "first", "more", "list",
           "dents"} \cup Sending \cup Ending

Lists ==
    /\ list \in Seq(Files) /\ \A i, j \in DOMAIN list : list[i] = list[j] => i = j
    /\ op \notin {"push_dir", "sync"} => list = <<1>>
    /\ at \in 1..(Len(list) + 1) /\ flag \subseteq Range(list)
    /\ op # "sync" => flag = {}

Values ==
    /\ local \in [Files -> FileTypes] /\ remote \in [Files -> FileTypes]
    /\ buffer \in Seq(Chunks) /\ (len = -1 \/ len \in Nat) /\ cut \subseteq Range(list)
    /\ chunk \in Nat /\ storing \in 0..NumFiles
    /\ closed \in BOOLEAN /\ toDev \in Seq(ToDevice) /\ fromDev \in Seq(FromDevice)

\* Where an operation can be, and what is settled there.
Places ==
    /\ op \in Ops /\ kind \in {"none", "file", "dir", "other"} /\ pc \in Labels
    /\ result \in {-1, 0, 1} /\ (pc \in Ending <=> result # -1)
    /\ pc \in {"stat", "mode"} => op \notin {"push_dir", "sync"}
    /\ pc \in {"start", "finish"} => op = "sync"
    /\ pc \in {"send"} \cup Sending => Pushing
    /\ pc \in {"recv", "first", "more"} => ~Pushing /\ kind = "file"
    /\ pc \in {"list", "dents"} => op = "pull" /\ kind = "dir"
    /\ pc \in {"connect", "stat", "mode"} => at = 1 /\ flag = {}
    /\ pc = "start" => flag = {}
    /\ pc \in Sending => /\ at <= Len(list) /\ list[at] \notin flag
                         /\ chunk <= Len(local[list[at]].data)
    /\ pc \in Sending \ {"data"} /\ ~closed =>
           chunk = Len(local[list[at]].data) \/ list[at] \in cut

TypeInv == Lists /\ Values /\ Places

-------------------------------------------------------------------------------
(* The stream, as long as it is open.                                      *)
Idle == toDev = <<>> /\ fromDev = <<>>

\* One question, and its answer.
Asked(cmd) ==
    \/ toDev = <<Msg(cmd, 1, 0)>> /\ fromDev = <<>>
    \/ toDev = <<>> /\ (cmd = "STAT" => Len(fromDev) = 1)

\* sync has asked about the files up to last, and read the answers before first.
Answer(f) == Msg("STAT", 0, [time |-> remote[f].time, size |-> Len(remote[f].data)])
Questions(first, last) ==
    /\ Len(fromDev) + Len(toDev) = last - first + 1
    /\ \A i \in 1..Len(fromDev) : fromDev[i] = Answer(list[first + i - 1])
    /\ \A i \in 1..Len(toDev) : toDev[i] = Msg("STAT", list[first + Len(fromDev) + i - 1], 0)

\* The i-th message about the file the host is at, and how many of them adbd has taken.
Current == list[at]
Wire(i) ==
    IF i = 1 THEN Msg("SEND", Current, 0)
    ELSE IF i <= chunk + 1 THEN Msg("DATA", Current, local[Current].data[i - 1])
    ELSE Msg("DONE", Current, local[Current].time)
Written == chunk + (IF pc = "status" THEN 2 ELSE 1)
Taken == Written - Len(toDev)
Beginning(has, data) == Len(has) <= Len(data) /\ has = SubSeq(data, 1, Len(has))
WholeOrCut(f, data, of) == data = of \/ (f \in cut /\ Beginning(data, of))
Whole(f) == remote[f].time = local[f].time /\ WholeOrCut(f, remote[f].data, local[f].data)
Upload ==
    /\ Taken >= 0 /\ \A n \in (Taken + 1)..Written : toDev[n - Taken] = Wire(n)
    /\ \/ Taken = 0 /\ storing = 0 /\ fromDev = <<>>
       \/ /\ Taken \in 1..(chunk + 1) /\ storing = Current /\ fromDev = <<>>
          /\ remote[Current].data = SubSeq(local[Current].data, 1, Taken - 1)
       \/ Taken > 0 /\ storing = 0 /\ fromDev = <<Fail>>
       \/ /\ pc = "status" /\ toDev = <<>> /\ storing = 0
          /\ fromDev = <<Msg("OKAY", 0, 0)>> /\ Whole(Current)

\* What a pull has so far, and what is still to come of the file or of its beginning.
Sink == IF op = "pull" THEN (IF pc = "first" THEN <<>> ELSE local[1].data) ELSE buffer
Coming(from, has, data) ==
    /\ Len(from) > 0 /\ Len(has) + Len(from) - 1 <= Len(data)
    /\ \A i \in 1..(Len(from) - 1) : from[i] = Msg("DATA", 1, data[Len(has) + i])
    /\ \/ from[Len(from)] = Fail
       \/ from[Len(from)] = Msg("DONE", 1, 0) /\ Len(has) + Len(from) - 1 = Len(data)
Download ==
    \/ pc = "first" /\ toDev = <<Msg("RECV", 1, 0)>> /\ fromDev = <<>>
    \/ toDev = <<>> /\ Coming(fromDev, Sink, remote[1].data)

\* Afterwards adbd ignores what was still on its way to it, and closes.
Over == \A i \in 1..Len(toDev) : toDev[i].cmd \in {"DATA", "DONE", "QUIT"}

Flow ==
    ~closed =>
        /\ pc \in {"connect", "stat", "send", "recv", "list"} => Idle
        /\ pc = "mode" => Asked("STAT")
        /\ pc = "dents" => Asked("LIST")
        /\ pc = "start" => Questions(1, at - 1)
        /\ pc = "finish" => Questions(at, Len(list))
        /\ pc \in Sending => Upload
        /\ pc \in {"first", "more"} => Download
        /\ pc \in Ending => Over

\* adbd stores only the file the host is at, and nothing in a pull.
Storing ==
    storing # 0 => /\ Pushing
                   /\ (pc \in Sending /\ storing = list[at]) \/ (closed /\ result = 1)

-------------------------------------------------------------------------------
(* What has been done.                                                     *)
Alike(f) == remote[f].time = local[f].time /\ Len(remote[f].data) = Len(local[f].data)
Handled == IF pc \in {"send"} \cup Sending THEN 1..(at - 1) ELSE IF result = 0 THEN 1..Len(list) ELSE {}
Stored ==
    Pushing => /\ \A f \in flag : Alike(f)
               /\ \A i \in Handled : list[i] \in flag \/ Whole(list[i])

\* What has been pulled is a beginning of the file.
Begun(has) == Beginning(has, remote[1].data)
Received ==
    /\ op = "pull" /\ pc = "more" => Begun(local[1].data)
    /\ op = "pull" /\ result = 0 /\ kind = "file" =>
           local[1] = Absent \/ WholeOrCut(1, local[1].data, remote[1].data)
    /\ op = "pull_buffer" /\ pc \notin Ending =>
           IF pc = "more" THEN Begun(buffer) ELSE buffer = <<>>
    /\ len # -1 => op = "pull_buffer" /\ result = 0 /\ buffer = remote[1].data /\ len = Len(buffer)

SyncInv == TypeInv /\ Flow /\ Storing /\ Stored /\ Received

-------------------------------------------------------------------------------
(* The beginning.                                                          *)

LEMMA ContentTypes == Contents \cup {Absent} \subseteq FileTypes
<1>1. Absent \in FileTypes
  BY DEF Absent, FileTypes
<1>2. ASSUME NEW c \in Contents PROVE c \in FileTypes
  <2>1. c = [time |-> c.time, data |-> c.data] /\ c.time \in Nat /\ c.data \in Seq(Range(c.data))
    BY SyncAssumption
  <2>2. Range(c.data) \subseteq Chunks
    BY DEF Chunks
  <2>3. c.data \in Seq(Chunks)
    BY <2>1, <2>2
  <2>4. QED
    BY <2>1, <2>3 DEF FileTypes
<1>3. QED
  BY <1>1, <1>2

LEMMA ListingTypes ==
    ASSUME NEW side, NEW l \in Listings(side)
    PROVE  l \in Seq(Files) /\ \A i, j \in DOMAIN l : l[i] = l[j] => i = j
<1> DEFINE S == {f \in Files : side[f] # Absent}
<1>1. S \subseteq Files /\ IsFiniteSet(Files)
  <2>1. NumFiles \in Int
    BY SyncAssumption
  <2>2. IsFiniteSet(1..NumFiles)
    BY <2>1, FS_Interval
  <2>3. QED
    BY <2>2 DEF Files
<1>2. Cardinality(S) \in Nat
  BY <1>1, FS_Subset, FS_CardinalityType
<1>3. l \in [1..Cardinality(S) -> S] /\ \A i, j \in 1..Cardinality(S) : i # j => l[i] # l[j]
  BY DEF Listings, SetToSeqs
<1> HIDE DEF S
<1>4. l \in Seq(S)
  BY <1>2, <1>3
<1>5. l \in Seq(Files)
  BY <1>1, <1>4
<1>6. DOMAIN l = 1..Cardinality(S)
  BY <1>3
<1>7. QED
  BY <1>3, <1>5, <1>6

LEMMA FileFacts == NumFiles \in Nat /\ 1 \in Files /\ 0 \notin Files /\ Files \subseteq 0..NumFiles
  BY SyncAssumption DEF Files

LEMMA InitSyncInv == Init => SyncInv
<1> SUFFICES ASSUME Init PROVE SyncInv
  OBVIOUS
<1>1. list \in Seq(Files) /\ \A i, j \in DOMAIN list : list[i] = list[j] => i = j
  <2>1. CASE op \in {"push_dir", "sync"}
    BY <2>1, ListingTypes DEF Init
  <2>2. CASE op \notin {"push_dir", "sync"}
    <3>1. list = <<1>>
      BY <2>2 DEF Init
    <3>2. QED
      BY <3>1, FileFacts
  <2>3. QED
    BY <2>1, <2>2
<1>2. Lists
  BY <1>1 DEF Init, Lists
<1>3. Values
  <2>1. local \in [Files -> FileTypes] /\ remote \in [Files -> FileTypes]
    BY ContentTypes DEF Init
  <2>2. <<>> \in Seq(Chunks) /\ <<>> \in Seq(ToDevice) /\ <<>> \in Seq(FromDevice)
    OBVIOUS
  <2>3. 0 \in 0..NumFiles /\ len = -1 /\ cut = {} /\ chunk = 0 /\ storing = 0 /\ closed = FALSE
    BY FileFacts DEF Init
  <2>4. buffer \in Seq(Chunks) /\ toDev \in Seq(ToDevice) /\ fromDev \in Seq(FromDevice)
    BY <2>2 DEF Init
  <2>5. QED
    BY <2>1, <2>3, <2>4 DEF Values
<1>4. Places
  BY DEF Init, Places, Labels, Sending, Ending
<1>5. Flow /\ Storing
  BY DEF Init, Flow, Idle, Sending, Ending, Storing
<1>6. Stored
  BY DEF Init, Stored, Handled, Sending
<1>7. Received
  BY DEF Init, Received, Ending
<1>8. QED
  BY <1>2, <1>3, <1>4, <1>5, <1>6, <1>7 DEF SyncInv, TypeInv

-------------------------------------------------------------------------------
(* Types.                                                                  *)

LEMMA WriteTypes ==
    ASSUME Values, NEW m \in ToDevice, Write(m)
    PROVE  /\ closed = FALSE /\ closed' = closed /\ fromDev' = fromDev
           /\ toDev' = Append(toDev, m) /\ toDev' \in Seq(ToDevice)
  BY DEF Values, Write

LEMMA ReadTypes ==
    ASSUME Values, NEW cmds, Read(cmds)
    PROVE  /\ closed = FALSE /\ closed' = closed /\ toDev' = toDev
           /\ fromDev # <<>> /\ Head(fromDev) \in FromDevice /\ Head(fromDev).cmd \in cmds
           /\ fromDev' = Tail(fromDev) /\ fromDev' \in Seq(FromDevice)
  BY DEF Values, Read, Arrived

LEMMA Messages ==
    /\ \A f \in Files, cmd \in {"STAT", "SEND", "RECV", "LIST"} : Msg(cmd, f, 0) \in ToDevice
    /\ Msg("QUIT", 0, 0) \in ToDevice
    /\ \A f \in Files, c \in Chunks : Msg("DATA", f, c) \in ToDevice
    /\ \A f \in Files, t \in Nat : Msg("DONE", f, t) \in ToDevice
  BY DEF ToDevice, Msg

LEMMA ListFacts ==
    ASSUME TypeInv, at <= Len(list)
    PROVE  at \in DOMAIN list /\ list[at] \in Files /\ list[at] \in Range(list) /\ local[list[at]] \in FileTypes
<1>1. at \in DOMAIN list /\ list[at] \in Files
  BY DEF TypeInv, Lists
<1>2. QED
  BY <1>1 DEF TypeInv, Values, Range

\* Steps of the host that only exchange messages and go on.
LEMMA StreamTypes ==
    ASSUME TypeInv, UNCHANGED <<args, at, flag, files, device>>, chunk' \in Nat,
           closed' \in BOOLEAN, toDev' \in Seq(ToDevice), fromDev' \in Seq(FromDevice)
    PROVE  Lists' /\ Values'
<1>1. UNCHANGED <<op, list, at, flag, local, remote, buffer, len, cut, storing>>
  BY DEF args, files, device
<1>2. QED
  BY <1>1 DEF TypeInv, Lists, Values

LEMMA HostStreamTypes ==
    ASSUME TypeInv, UNCHANGED <<args, at, flag, files, device>>, chunk' \in Nat,
           \/ \E m \in ToDevice : Write(m)
           \/ \E cmds : Read(cmds)
           \/ UNCHANGED stream
    PROVE  Lists' /\ Values'
<1>1. closed' \in BOOLEAN /\ toDev' \in Seq(ToDevice) /\ fromDev' \in Seq(FromDevice)
  <2>1. CASE \E m \in ToDevice : Write(m)
    BY <2>1, WriteTypes DEF TypeInv, Values
  <2>2. CASE \E cmds : Read(cmds)
    BY <2>2, ReadTypes DEF TypeInv, Values
  <2>3. CASE UNCHANGED stream
    BY <2>3 DEF TypeInv, Values, stream
  <2>4. QED
    BY <2>1, <2>2, <2>3
<1>2. QED
  BY <1>1, StreamTypes

\* A transfer in one direction says nothing of the other.
LEMMA PushingReceives ==
    ASSUME Received, Pushing, UNCHANGED <<op, len>>
    PROVE  Received'
  BY DEF Received, Pushing

LEMMA PullingStores ==
    ASSUME ~Pushing, op' = op
    PROVE  Stored'
  BY DEF Stored, Pushing

LEMMA StoredKept ==
    ASSUME Stored, UNCHANGED <<op, flag, list, local, remote>>, cut \subseteq cut',
           Handled' \subseteq Handled
    PROVE  Stored'
  BY DEF Stored, Alike, Whole, WholeOrCut, Pushing

LEMMA ReceivedKept ==
    ASSUME Received, cut \subseteq cut', UNCHANGED <<op, kind, local, remote, buffer, len, result>>,
           op = "pull" /\ pc' = "more" => pc = "more",
           op = "pull_buffer" /\ pc' \notin Ending => pc \notin Ending /\ (pc = "more" <=> pc' = "more")
    PROVE  Received'
  BY DEF Received, WholeOrCut, Begun, Beginning

LEMMA StoringNothing ==
    ASSUME Storing, ~closed, pc \notin Sending, storing' = storing
    PROVE  storing = 0 /\ Storing'
  BY DEF Storing

\* Whatever cannot be written or read.
LEMMA BrokenTypes ==
    ASSUME TypeInv, UNCHANGED stream, UNCHANGED <<args, at, flag, files, device>>, chunk' = chunk
    PROVE  Lists' /\ Values'
  BY HostStreamTypes DEF TypeInv, Values

-------------------------------------------------------------------------------
(* Steps that all operations share.                                        *)

LEMMA ConnectKeeps == SyncInv /\ SyncConnect => SyncInv'
<1> SUFFICES ASSUME SyncInv, SyncConnect PROVE SyncInv'
  OBVIOUS
<1>1. /\ UNCHANGED <<args, progress, files, stream, device>> /\ pc = "connect" /\ closed = FALSE
      /\ at = 1 /\ flag = {} /\ result = -1
  BY DEF SyncInv, TypeInv, Places, Values, SyncConnect, Ending
<1>2. UNCHANGED <<op, kind, list, at, chunk, flag, local, remote, buffer, len, cut, closed, toDev, fromDev, storing>>
  BY <1>1 DEF args, progress, files, stream, device
<1>3. \/ op = "push" /\ pc' = "quit" /\ result' = 1
      \/ op = "push_dir" /\ pc' = "send" /\ result' = -1
      \/ op = "sync" /\ pc' = "start" /\ result' = -1
      \/ op \notin {"push_dir", "sync"} /\ pc' = "stat" /\ result' = -1
  BY <1>1 DEF SyncConnect, Goto, Quit
<1>4. TypeInv'
  <2>1. Lists' /\ Values'
    BY <1>1, <1>2, BrokenTypes DEF SyncInv
  <2>2. Places'
    BY <1>1, <1>2, <1>3 DEF SyncInv, TypeInv, Places, Labels, Ending, Sending, Pushing
  <2>3. QED
    BY <2>1, <2>2 DEF TypeInv
<1>5. Flow'
  <2>1. toDev = <<>> /\ fromDev = <<>>
    BY <1>1 DEF SyncInv, Flow, Idle
  <2>2. QED
    BY <1>1, <1>2, <1>3, <2>1 DEF Flow, Idle, Questions, Over, Sending, Ending
<1>6. Storing'
  BY <1>1, <1>2, StoringNothing DEF SyncInv, Sending
<1>7. Stored'
  <2>1. Handled' = {}
    BY <1>1, <1>2, <1>3 DEF Handled, Sending
  <2>2. QED
    BY <1>1, <1>2, <2>1 DEF Stored
<1>8. Received'
  BY <1>1, <1>2, <1>3 DEF SyncInv, Received, Ending
<1>9. QED
  BY <1>4, <1>5, <1>6, <1>7, <1>8 DEF SyncInv

LEMMA StatKeeps == SyncInv /\ Stat => SyncInv'
<1> SUFFICES ASSUME SyncInv, Stat PROVE SyncInv'
  OBVIOUS
<1>1. /\ UNCHANGED <<args, progress, files, device>> /\ pc = "stat" /\ pc' = "mode"
      /\ result' = result /\ Write(Msg("STAT", 1, 0))
  BY DEF Stat, Goto
<1>2. /\ closed = FALSE /\ closed' = FALSE /\ fromDev' = fromDev /\ toDev' = Append(toDev, Msg("STAT", 1, 0))
      /\ Msg("STAT", 1, 0) \in ToDevice
  BY <1>1, FileFacts, Messages, WriteTypes DEF SyncInv, TypeInv
<1>3. UNCHANGED <<op, kind, list, at, chunk, flag, local, remote, buffer, len, cut, storing>>
  BY <1>1 DEF args, progress, files, device
<1>4. TypeInv'
  <2>1. Lists' /\ Values'
    BY <1>1, <1>2, <1>3, HostStreamTypes DEF SyncInv, TypeInv, Values
  <2>2. Places'
    BY <1>1, <1>2, <1>3 DEF SyncInv, TypeInv, Places, Labels, Ending, Sending, Pushing
  <2>3. QED
    BY <2>1, <2>2 DEF TypeInv
<1>5. Flow'
  <2>1. toDev = <<>> /\ fromDev = <<>>
    BY <1>1, <1>2 DEF SyncInv, Flow, Idle
  <2>2. toDev' = <<Msg("STAT", 1, 0)>> /\ fromDev' = <<>>
    BY <1>2, <2>1
  <2>3. QED
    BY <1>1, <2>2 DEF Flow, Asked, Sending, Ending
<1>6. Storing'
  BY <1>1, <1>2, <1>3, StoringNothing DEF SyncInv, Sending
<1>7. Stored'
  <2>1. Handled' \subseteq Handled /\ cut' \subseteq Range(list')
    BY <1>1, <1>3, <1>4 DEF Handled, Sending, TypeInv, Values
  <2>2. QED
    BY <1>3, <2>1, StoredKept DEF SyncInv
<1>8. Received'
  BY <1>1, <1>3, ReceivedKept DEF SyncInv, Ending
<1>9. QED
  BY <1>4, <1>5, <1>6, <1>7, <1>8 DEF SyncInv

LEMMA StatReplyKeeps == SyncInv /\ StatReply => SyncInv'
<1> SUFFICES ASSUME SyncInv, StatReply PROVE SyncInv'
  OBVIOUS
<1>1. UNCHANGED <<args, progress, files, device>> /\ pc = "mode" /\ Read({"STAT"}) /\ result = -1
  BY DEF StatReply, SyncInv, TypeInv, Places, Ending
<1>2. /\ closed = FALSE /\ closed' = FALSE /\ fromDev # <<>> /\ fromDev' = Tail(fromDev) /\ toDev' = toDev
  BY <1>1, ReadTypes DEF SyncInv, TypeInv
<1>3. UNCHANGED <<op, kind, list, at, chunk, flag, local, remote, buffer, len, cut, storing>>
  BY <1>1 DEF args, progress, files, device
<1>4. \/ op \in {"push", "push_buffer"} /\ pc' = "send" /\ result' = -1
      \/ op \in {"pull", "pull_buffer"} /\ kind = "file" /\ pc' = "recv" /\ result' = -1
      \/ op = "pull" /\ kind = "dir" /\ pc' = "list" /\ result' = -1
      \/ pc' = "returned" /\ result' = 1
  BY <1>1 DEF StatReply, Goto, Return
<1>5. TypeInv'
  <2>1. Lists' /\ Values'
    BY <1>1, <1>3, HostStreamTypes DEF SyncInv, TypeInv, Values
  <2>2. Places'
    BY <1>1, <1>2, <1>3, <1>4 DEF SyncInv, TypeInv, Places, Labels, Ending, Sending, Pushing
  <2>3. QED
    BY <2>1, <2>2 DEF TypeInv
<1>6. Flow'
  <2>1. toDev = <<>> /\ Len(fromDev) = 1
    BY <1>1, <1>2 DEF SyncInv, Flow, Asked
  <2>2. toDev' = <<>> /\ fromDev' = <<>>
    BY <1>2, <2>1 DEF SyncInv, TypeInv, Values
  <2>3. QED
    BY <1>4, <2>2 DEF Flow, Idle, Over, Sending, Ending
<1>7. Storing'
  BY <1>1, <1>2, <1>3, StoringNothing DEF SyncInv, Sending
<1>8. Stored'
  <2>1. at = 1 /\ 1..(at - 1) = {}
    BY <1>1 DEF SyncInv, TypeInv, Places
  <2>2. Handled' = {} /\ cut' \subseteq Range(list')
    BY <1>3, <1>4, <1>5, <2>1 DEF Handled, Sending, TypeInv, Values
  <2>3. QED
    BY <1>3, <2>2, StoredKept DEF SyncInv
<1>9. Received'
  BY <1>1, <1>3, <1>4 DEF SyncInv, Received, Ending
<1>10. QED
  BY <1>5, <1>6, <1>7, <1>8, <1>9 DEF SyncInv

\* A step that ends the operation with 1.
LEMMA FailureKeeps ==
    ASSUME SyncInv, UNCHANGED <<args, progress, files, device>>, pc \notin Ending,
           pc' = "returned", result' = 1,
           \/ UNCHANGED stream /\ closed
           \/ \E cmds : Read(cmds) /\ toDev = <<>> /\ storing = 0
    PROVE  SyncInv'
<1>1. UNCHANGED <<op, kind, list, at, chunk, flag, local, remote, buffer, len, cut, storing>> /\ result = -1
  BY DEF args, progress, files, device, SyncInv, TypeInv, Places
<1>2. closed' = closed /\ (closed \/ (toDev' = <<>> /\ storing = 0))
  BY DEF stream, Read
<1>3. TypeInv'
  <2>1. Lists' /\ Values'
    BY <1>1, HostStreamTypes DEF SyncInv, TypeInv, Values
  <2>2. Places'
    BY <1>1 DEF SyncInv, TypeInv, Places, Labels, Ending, Sending
  <2>3. QED
    BY <2>1, <2>2 DEF TypeInv
<1>4. Flow'
  BY <1>2 DEF Flow, Over, Sending, Ending
<1>5. Storing'
  BY <1>1, <1>2 DEF SyncInv, Storing, Pushing
<1>6. Stored'
  <2>1. Handled' = {} /\ cut' \subseteq Range(list')
    BY <1>3 DEF Handled, Sending, TypeInv, Values
  <2>2. QED
    BY <1>1, <2>1, StoredKept DEF SyncInv
<1>7. Received'
  BY <1>1 DEF SyncInv, Received, Ending
<1>8. QED
  BY <1>3, <1>4, <1>5, <1>6, <1>7 DEF SyncInv

LEMMA FailsKeeps == SyncInv /\ Fails => SyncInv'
<1> SUFFICES ASSUME SyncInv, Fails PROVE SyncInv'
  OBVIOUS
<1>1. UNCHANGED <<args, progress, files, device>> /\ pc' = "returned" /\ result' = 1 /\ UNCHANGED stream /\ closed
  BY DEF Fails, Broken, Return
<1>2. pc \notin Ending
  BY DEF Fails, Ending
<1>3. QED
  BY <1>1, <1>2, FailureKeeps

LEMMA CannotCreateKeeps == SyncInv /\ CannotCreate => SyncInv'
<1> SUFFICES ASSUME SyncInv, CannotCreate PROVE SyncInv'
  OBVIOUS
<1>1. /\ UNCHANGED <<args, progress, files, device>> /\ pc = "first" /\ pc' = "returned" /\ result' = 1
      /\ Read({"DATA", "DONE"})
  BY DEF CannotCreate, Return
<1>2. ~closed /\ fromDev # <<>>
  BY <1>1 DEF Read, Arrived
<1>3. toDev = <<>> /\ storing = 0
  BY <1>1, <1>2 DEF SyncInv, Flow, Download, Storing, Sending
<1>4. QED
  BY <1>1, <1>3, FailureKeeps DEF Ending

LEMMA SyncQuitKeeps == SyncInv /\ SyncQuit => SyncInv'
<1> SUFFICES ASSUME SyncInv, SyncQuit PROVE SyncInv'
  OBVIOUS
<1>1. /\ UNCHANGED <<args, progress, files, result, device>>
      /\ \/ pc = "quit" /\ Write(Msg("QUIT", 0, 0)) /\ pc' = "await_close"
         \/ pc \in {"quit", "await_close"} /\ Broken /\ pc' = "returned"
  BY DEF SyncQuit
<1>2. /\ UNCHANGED <<op, kind, list, at, chunk, flag, local, remote, buffer, len, cut, result, storing>>
      /\ pc \in Ending /\ pc' \in Ending
  BY <1>1 DEF args, progress, files, device, Ending
<1>3. \/ closed = FALSE /\ closed' = FALSE /\ toDev' = Append(toDev, Msg("QUIT", 0, 0))
      \/ closed' = closed /\ closed
  BY <1>1, Messages, WriteTypes DEF SyncInv, TypeInv, Broken, stream
<1>4. TypeInv'
  <2>1. Lists' /\ Values'
    BY <1>1, <1>2, Messages, HostStreamTypes DEF SyncInv, TypeInv, Values, Broken
  <2>2. Places'
    BY <1>1, <1>2, <1>3 DEF SyncInv, TypeInv, Places, Labels, Ending, Sending
  <2>3. QED
    BY <2>1, <2>2 DEF TypeInv
<1>5. Flow'
  <2>1. CASE closed'
    BY <2>1 DEF Flow
  <2>2. CASE closed = FALSE /\ closed' = FALSE /\ toDev' = Append(toDev, Msg("QUIT", 0, 0))
    <3>1. Over /\ toDev \in Seq(ToDevice)
      BY <1>2, <2>2 DEF SyncInv, Flow, TypeInv, Values
    <3>2. toDev' = Append(toDev, Msg("QUIT", 0, 0)) /\ Msg("QUIT", 0, 0).cmd = "QUIT"
      BY <2>2 DEF Msg
    <3>3. Over'
      BY <3>1, <3>2 DEF Over
    <3>4. QED
      BY <1>2, <3>3 DEF Flow, Ending, Sending
  <2>3. QED
    BY <1>3, <2>1, <2>2
<1>6. Storing'
  BY <1>2, <1>3 DEF SyncInv, Storing, Pushing, Ending, Sending
<1>7. Stored'
  <2>1. Handled' \subseteq Handled /\ cut' \subseteq Range(list')
    BY <1>2, <1>4 DEF Handled, Ending, Sending, TypeInv, Values
  <2>2. QED
    BY <1>2, <2>1, StoredKept DEF SyncInv
<1>8. Received'
  BY <1>2, ReceivedKept DEF SyncInv, Ending
<1>9. QED
  BY <1>4, <1>5, <1>6, <1>7, <1>8 DEF SyncInv

\* Asking for a file, or for the entries of a directory.
LEMMA AskKeeps ==
    ASSUME SyncInv, Recv \/ List
    PROVE  SyncInv'
<1> DEFINE m == IF pc = "recv" THEN Msg("RECV", 1, 0) ELSE Msg("LIST", 1, 0)
<1>1. /\ UNCHANGED <<args, progress, files, device>> /\ result' = result /\ Write(m)
      /\ (pc = "recv" /\ pc' = "first") \/ (pc = "list" /\ pc' = "dents")
  BY DEF Recv, List, Goto
<1>2. m \in ToDevice
  BY FileFacts, Messages
<1> HIDE DEF m
<1>3. closed = FALSE /\ closed' = FALSE /\ fromDev' = fromDev /\ toDev' = Append(toDev, m)
  BY <1>1, <1>2, WriteTypes DEF SyncInv, TypeInv
<1>4. UNCHANGED <<op, kind, list, at, chunk, flag, local, remote, buffer, len, cut, storing>>
  BY <1>1 DEF args, progress, files, device
<1>5. TypeInv'
  <2>1. Lists' /\ Values'
    BY <1>1, <1>2, <1>4, HostStreamTypes DEF SyncInv, TypeInv, Values
  <2>2. Places'
    BY <1>1, <1>3, <1>4 DEF SyncInv, TypeInv, Places, Labels, Ending, Sending, Pushing
  <2>3. QED
    BY <2>1, <2>2 DEF TypeInv
<1>6. Flow'
  <2>1. toDev = <<>> /\ fromDev = <<>>
    BY <1>1, <1>3 DEF SyncInv, Flow, Idle
  <2>2. toDev' = <<m>> /\ fromDev' = <<>>
    BY <1>3, <2>1
  <2>3. CASE pc' = "first"
    BY <1>1, <2>2, <2>3 DEF Flow, Download, Sending, Ending, m
  <2>4. CASE pc' = "dents"
    BY <1>1, <2>2, <2>4 DEF Flow, Asked, Sending, Ending, m
  <2>5. QED
    BY <1>1, <2>3, <2>4
<1>7. Storing'
  BY <1>1, <1>3, <1>4, StoringNothing DEF SyncInv, Sending
<1>8. Stored'
  <2>1. ~Pushing
    BY <1>1 DEF SyncInv, TypeInv, Places, Pushing
  <2>2. QED
    BY <1>4, <2>1, PullingStores
<1>9. Received'
  BY <1>1, <1>4, ReceivedKept DEF SyncInv, Ending
<1>10. QED
  BY <1>5, <1>6, <1>7, <1>8, <1>9 DEF SyncInv

LEMMA DentsKeeps == SyncInv /\ Dents => SyncInv'
<1> SUFFICES ASSUME SyncInv, Dents PROVE SyncInv'
  OBVIOUS
<1>1. /\ UNCHANGED <<args, progress, files, device>> /\ pc = "dents" /\ \E cmds : Read(cmds)
      /\ \/ pc' = "dents" /\ result' = result
         \/ pc' = "quit" /\ result' = 0
  BY DEF Dents, Goto, Quit
<1>2. /\ closed = FALSE /\ closed' = FALSE /\ fromDev # <<>> /\ toDev' = toDev /\ result = -1
      /\ op = "pull" /\ kind = "dir"
  BY <1>1, ReadTypes DEF SyncInv, TypeInv, Places, Ending
<1>3. UNCHANGED <<op, kind, list, at, chunk, flag, local, remote, buffer, len, cut, storing>>
  BY <1>1 DEF args, progress, files, device
<1>4. TypeInv'
  <2>1. Lists' /\ Values'
    BY <1>1, <1>3, HostStreamTypes DEF SyncInv, TypeInv, Values
  <2>2. Places'
    BY <1>1, <1>2, <1>3 DEF SyncInv, TypeInv, Places, Labels, Ending, Sending, Pushing
  <2>3. QED
    BY <2>1, <2>2 DEF TypeInv
<1>5. Flow'
  <2>1. toDev' = <<>>
    BY <1>1, <1>2 DEF SyncInv, Flow, Asked
  <2>2. QED
    BY <1>1, <2>1 DEF Flow, Asked, Over, Sending, Ending
<1>6. Storing'
  BY <1>1, <1>2, <1>3, StoringNothing DEF SyncInv, Sending
<1>7. Stored'
  BY <1>2, <1>3, PullingStores DEF Pushing
<1>8. Received'
  BY <1>1, <1>2, <1>3 DEF SyncInv, Received, Ending
<1>9. QED
  BY <1>4, <1>5, <1>6, <1>7, <1>8 DEF SyncInv

-------------------------------------------------------------------------------
(* sync asks about all its files, and reads the answers.                   *)

\* Steps that move in the list, or mark a file of it.
LEMMA MoveTypes ==
    ASSUME TypeInv, UNCHANGED <<args, files, device>>, chunk' \in Nat,
           at' \in 1..(Len(list) + 1), flag' \subseteq Range(list), op # "sync" => flag' = {},
           \/ \E m \in ToDevice : Write(m)
           \/ \E cmds : Read(cmds)
           \/ UNCHANGED stream
    PROVE  Lists' /\ Values'
<1>1. closed' \in BOOLEAN /\ toDev' \in Seq(ToDevice) /\ fromDev' \in Seq(FromDevice)
  <2>1. CASE \E m \in ToDevice : Write(m)
    BY <2>1, WriteTypes DEF TypeInv, Values
  <2>2. CASE \E cmds : Read(cmds)
    BY <2>2, ReadTypes DEF TypeInv, Values
  <2>3. CASE UNCHANGED stream
    BY <2>3 DEF TypeInv, Values, stream
  <2>4. QED
    BY <2>1, <2>2, <2>3
<1>2. UNCHANGED <<op, list, local, remote, buffer, len, cut, storing>>
  BY DEF args, files, device
<1>3. QED
  BY <1>1, <1>2 DEF TypeInv, Lists, Values

LEMMA StartReadtimeKeeps == SyncInv /\ StartReadtime => SyncInv'
<1> SUFFICES ASSUME SyncInv, StartReadtime PROVE SyncInv'
  OBVIOUS
<1>1. UNCHANGED <<args, chunk, flag, files, device>> /\ pc = "start" /\ result' = result
  BY DEF StartReadtime, Goto
<1>2. UNCHANGED <<op, kind, list, chunk, flag, local, remote, buffer, len, cut, storing>>
  BY <1>1 DEF args, files, device
<1>3. op = "sync" /\ result = -1 /\ flag = {} /\ list \in Seq(Files) /\ at \in 1..(Len(list) + 1) /\ chunk \in Nat
  BY <1>1 DEF SyncInv, TypeInv, Places, Lists, Values, Ending
<1>4. \/ at <= Len(list) /\ Write(Msg("STAT", list[at], 0)) /\ at' = at + 1 /\ pc' = "start"
      \/ at = Len(list) + 1 /\ UNCHANGED stream /\ at' = 1 /\ pc' = "finish"
  BY <1>3 DEF StartReadtime, Goto
<1>5. at <= Len(list) => Msg("STAT", list[at], 0) \in ToDevice
  BY ListFacts, Messages DEF SyncInv
<1>6. TypeInv'
  <2>1. at' \in 1..(Len(list) + 1)
    BY <1>3, <1>4
  <2>2. (\E m \in ToDevice : Write(m)) \/ UNCHANGED stream
    BY <1>4, <1>5
  <2>3. Lists' /\ Values'
    BY <1>1, <1>2, <1>3, <2>1, <2>2, MoveTypes DEF SyncInv
  <2>4. Places'
    BY <1>1, <1>2, <1>3, <1>4 DEF SyncInv, TypeInv, Places, Labels, Ending, Sending, Pushing
  <2>5. QED
    BY <2>3, <2>4 DEF TypeInv
<1>7. Flow'
  <2>1. CASE closed'
    BY <2>1 DEF Flow
  <2>2. ASSUME ~closed' PROVE Questions(1, at - 1)
    BY <1>1, <1>4, <2>2 DEF SyncInv, Flow, Write, stream
  <2>3. toDev \in Seq(ToDevice) /\ fromDev \in Seq(FromDevice)
    BY DEF SyncInv, TypeInv, Values
  <2>4. CASE ~closed' /\ pc' = "start"
    <3>1. /\ Len(fromDev) + Len(toDev) = at - 1 /\ fromDev' = fromDev
          /\ toDev' = Append(toDev, Msg("STAT", list[at], 0)) /\ at' = at + 1
      BY <1>3, <1>4, <2>2, <2>4 DEF Questions, Write
    <3>2. Len(fromDev') + Len(toDev') = (at' - 1) - 1 + 1
      BY <1>3, <2>3, <3>1
    <3>3. \A i \in 1..Len(fromDev') : fromDev'[i] = Msg("STAT", 0, [time |-> remote'[list'[1 + i - 1]].time, size |-> Len(remote'[list'[1 + i - 1]].data)])
      BY <1>2, <2>2, <2>4, <3>1 DEF Questions, Answer
    <3>4. ASSUME NEW i \in 1..Len(toDev') PROVE toDev'[i] = Msg("STAT", list'[1 + Len(fromDev') + i - 1], 0)
      <4>1. CASE i \in 1..Len(toDev)
        BY <1>2, <2>2, <2>3, <2>4, <3>1, <4>1 DEF Questions
      <4>2. CASE i = Len(toDev) + 1
        <5>1. 1 + Len(fromDev') + i - 1 = at
          BY <1>3, <2>3, <3>1, <4>2
        <5>2. QED
          BY <1>2, <2>3, <3>1, <4>2, <5>1
      <4>3. QED
        BY <2>3, <3>1, <4>1, <4>2
    <3>5. QED
      BY <2>4, <3>2, <3>3, <3>4 DEF Flow, Questions, Answer, Sending, Ending
  <2>5. CASE ~closed' /\ pc' = "finish"
    BY <1>2, <1>3, <1>4, <2>2, <2>5 DEF Flow, Questions, Answer, Sending, Ending, stream
  <2>6. QED
    BY <1>4, <2>1, <2>4, <2>5
<1>8. Storing'
  BY <1>1, <1>2, <1>3, <1>4 DEF SyncInv, Storing, Sending, Write, stream
<1>9. Stored'
  <2>1. Handled' = {} /\ cut' \subseteq Range(list')
    BY <1>1, <1>3, <1>4, <1>6 DEF Handled, Sending, TypeInv, Values
  <2>2. QED
    BY <1>2, <2>1, StoredKept DEF SyncInv
<1>10. Received'
  BY <1>2, <1>3, PushingReceives DEF SyncInv, Pushing
<1>11. QED
  BY <1>6, <1>7, <1>8, <1>9, <1>10 DEF SyncInv

LEMMA FinishReadtimeKeeps == SyncInv /\ FinishReadtime => SyncInv'
<1> SUFFICES ASSUME SyncInv, FinishReadtime PROVE SyncInv'
  OBVIOUS
<1>1. UNCHANGED <<args, chunk, files, device>> /\ pc = "finish" /\ result' = result
  BY DEF FinishReadtime, Goto
<1>2. UNCHANGED <<op, kind, list, chunk, local, remote, buffer, len, cut, storing>>
  BY <1>1 DEF args, files, device
<1>3. /\ op = "sync" /\ result = -1 /\ list \in Seq(Files) /\ at \in 1..(Len(list) + 1) /\ chunk \in Nat
      /\ flag \subseteq Range(list) /\ toDev \in Seq(ToDevice) /\ fromDev \in Seq(FromDevice)
  BY <1>1 DEF SyncInv, TypeInv, Places, Lists, Values, Ending
<1>4. \/ /\ at <= Len(list) /\ Read({"STAT"}) /\ at' = at + 1 /\ pc' = "finish"
         /\ flag' = IF UpToDate(list[at], Head(fromDev).v) THEN flag \cup {list[at]} ELSE flag
      \/ at = Len(list) + 1 /\ UNCHANGED <<stream, flag>> /\ at' = 1 /\ pc' = "send"
  BY <1>3 DEF FinishReadtime, Goto
<1>5. flag' \subseteq Range(list)
  BY <1>3, <1>4, ListFacts DEF SyncInv
<1>6. TypeInv'
  <2>1. at' \in 1..(Len(list) + 1)
    BY <1>3, <1>4
  <2>2. (\E cmds : Read(cmds)) \/ UNCHANGED stream
    BY <1>4
  <2>3. Lists' /\ Values'
    BY <1>1, <1>2, <1>3, <1>5, <2>1, <2>2, MoveTypes DEF SyncInv
  <2>4. Places'
    BY <1>1, <1>2, <1>3, <1>4 DEF SyncInv, TypeInv, Places, Labels, Ending, Sending, Pushing
  <2>5. QED
    BY <2>3, <2>4 DEF TypeInv
<1>7. ~closed => Questions(at, Len(list))
  BY <1>1 DEF SyncInv, Flow
<1>8. Flow'
  <2>1. CASE Read({"STAT"}) /\ at <= Len(list) /\ at' = at + 1 /\ pc' = "finish"
    <3>1. ~closed /\ fromDev # <<>> /\ fromDev' = Tail(fromDev) /\ toDev' = toDev
      BY <2>1, ReadTypes DEF SyncInv, TypeInv
    <3>2. Questions(at, Len(list))
      BY <1>7, <3>1
    <3>3. Len(fromDev') = Len(fromDev) - 1 /\ \A i \in 1..Len(fromDev') : fromDev'[i] = fromDev[i + 1]
      BY <1>3, <3>1
    <3>4. Len(fromDev') + Len(toDev') = Len(list) - at' + 1
      BY <1>3, <2>1, <3>1, <3>2, <3>3 DEF Questions
    <3>5. ASSUME NEW i \in 1..Len(fromDev')
          PROVE  fromDev'[i] = Msg("STAT", 0, [time |-> remote[list[at' + i - 1]].time, size |-> Len(remote[list[at' + i - 1]].data)])
      <4>1. i + 1 \in 1..Len(fromDev) /\ fromDev'[i] = fromDev[i + 1] /\ at + (i + 1) - 1 = at' + i - 1
        BY <1>3, <2>1, <3>3
      <4>2. QED
        BY <3>2, <4>1 DEF Questions, Answer
    <3>6. ASSUME NEW i \in 1..Len(toDev')
          PROVE  toDev'[i] = Msg("STAT", list[at' + Len(fromDev') + i - 1], 0)
      <4>1. i \in 1..Len(toDev) /\ at' + Len(fromDev') + i - 1 = at + Len(fromDev) + i - 1
        BY <1>3, <2>1, <3>1, <3>3
      <4>2. QED
        BY <3>1, <3>2, <4>1 DEF Questions
    <3>7. QED
      BY <1>2, <2>1, <3>4, <3>5, <3>6 DEF Flow, Questions, Answer, Sending, Ending
  <2>2. CASE UNCHANGED stream /\ at = Len(list) + 1 /\ pc' = "send"
    <3>1. ASSUME ~closed PROVE toDev = <<>> /\ fromDev = <<>>
      <4>1. Len(fromDev) + Len(toDev) = 0
        BY <1>3, <1>7, <2>2, <3>1 DEF Questions
      <4>2. QED
        BY <1>3, <4>1
    <3>2. QED
      BY <2>2, <3>1 DEF Flow, Idle, Sending, Ending, stream
  <2>3. QED
    BY <1>4, <2>1, <2>2
<1>9. Storing'
  BY <1>1, <1>2, <1>3, <1>4 DEF SyncInv, Storing, Sending, Read, stream
<1>10. Stored'
  <2>1. Handled' = {}
    BY <1>1, <1>3, <1>4 DEF Handled, Sending
  <2>2. \A f \in flag' : Alike(f)
    <3>1. \A f \in flag : Alike(f)
      BY <1>3 DEF SyncInv, Stored, Pushing
    <3>2. ASSUME at <= Len(list), Read({"STAT"}), UpToDate(list[at], Head(fromDev).v) PROVE Alike(list[at])
      <4>1. Questions(at, Len(list)) /\ Len(fromDev) >= 1
        <5>1. ~closed /\ fromDev # <<>>
          BY <3>2 DEF Read, Arrived
        <5>2. Len(fromDev) >= 1
          BY <1>3, <5>1
        <5>3. QED
          BY <1>7, <5>1, <5>2
      <4>2. fromDev[1] = Answer(list[at + 1 - 1]) /\ at + 1 - 1 = at
        BY <1>3, <4>1 DEF Questions
      <4>3. Head(fromDev).v = [time |-> remote[list[at]].time, size |-> Len(remote[list[at]].data)]
        BY <1>3, <4>1, <4>2 DEF Answer, Msg
      <4>4. QED
        BY <3>2, <4>3 DEF UpToDate, Alike
    <3>3. QED
      BY <1>4, <3>1, <3>2
  <2>3. QED
    BY <1>2, <2>1, <2>2 DEF Stored, Alike
<1>11. Received'
  BY <1>2, <1>3, PushingReceives DEF SyncInv, Pushing
<1>12. QED
  BY <1>6, <1>8, <1>9, <1>10, <1>11 DEF SyncInv

-------------------------------------------------------------------------------
(* A file is sent.                                                         *)

LEMMA SendKeeps == SyncInv /\ Send => SyncInv'
<1> SUFFICES ASSUME SyncInv, Send PROVE SyncInv'
  OBVIOUS
<1>1. UNCHANGED <<args, flag, files, device>> /\ pc = "send"
  BY DEF Send
<1>2. UNCHANGED <<op, kind, list, flag, local, remote, buffer, len, cut, storing>>
  BY <1>1 DEF args, files, device
<1>3. /\ Pushing /\ result = -1 /\ list \in Seq(Files) /\ at \in 1..(Len(list) + 1) /\ chunk \in Nat
      /\ toDev \in Seq(ToDevice) /\ fromDev \in Seq(FromDevice) /\ cut \subseteq Range(list)
      /\ flag \subseteq Range(list) /\ (op # "sync" => flag = {}) /\ closed \in BOOLEAN
  BY <1>1 DEF SyncInv, TypeInv, Places, Lists, Values, Ending
<1>4. ~closed => toDev = <<>> /\ fromDev = <<>>
  BY <1>1 DEF SyncInv, Flow, Idle
<1>5. storing = 0
  BY <1>1, <1>3 DEF SyncInv, Storing, Sending
<1>6. \A f \in flag : Alike(f)
  BY <1>3 DEF SyncInv, Stored
<1>7. \A i \in 1..(at - 1) : list[i] \in flag \/ Whole(list[i])
  BY <1>1, <1>3 DEF SyncInv, Stored, Handled
<1>8. Received'
  BY <1>2, <1>3, PushingReceives DEF SyncInv
<1>9. Storing'
  BY <1>2, <1>5 DEF Storing
<1>10. CASE at > Len(list)
  <2>1. UNCHANGED <<stream, at, chunk>> /\ pc' = "quit" /\ result' = 0
    BY <1>1, <1>10 DEF Send, Quit
  <2>2. TypeInv'
    <3>1. Lists' /\ Values'
      BY <1>1, <1>3, <2>1, MoveTypes DEF SyncInv
    <3>2. Places'
      BY <1>2, <1>3, <2>1 DEF SyncInv, TypeInv, Places, Labels, Ending, Sending
    <3>3. QED
      BY <3>1, <3>2 DEF TypeInv
  <2>3. Flow'
    BY <1>4, <2>1 DEF Flow, Over, Ending, Sending, stream
  <2>4. Stored'
    <3>1. Handled' = 1..(at - 1)
      BY <1>2, <1>3, <1>10, <2>1 DEF Handled, Sending
    <3>2. QED
      BY <1>2, <1>6, <1>7, <2>1, <3>1 DEF Stored, Alike, Whole, WholeOrCut
  <2>5. QED
    BY <1>8, <1>9, <2>2, <2>3, <2>4 DEF SyncInv
<1>11. CASE at <= Len(list) /\ list[at] \in flag
  <2>1. UNCHANGED <<stream, chunk>> /\ at' = at + 1 /\ pc' = "send" /\ result' = -1
    BY <1>1, <1>3, <1>11 DEF Send, Goto
  <2>2. TypeInv'
    <3>1. Lists' /\ Values'
      BY <1>1, <1>3, <1>11, <2>1, MoveTypes DEF SyncInv
    <3>2. Places'
      BY <1>2, <1>3, <2>1 DEF SyncInv, TypeInv, Places, Labels, Ending, Sending, Pushing
    <3>3. QED
      BY <3>1, <3>2 DEF TypeInv
  <2>3. Flow'
    BY <1>4, <2>1 DEF Flow, Idle, Ending, Sending, stream
  <2>4. Stored'
    <3>1. Handled' = 1..(at - 1) \cup {at}
      BY <1>3, <2>1 DEF Handled
    <3>2. \A i \in 1..(at - 1) \cup {at} : list[i] \in flag \/ Whole(list[i])
      BY <1>7, <1>11
    <3>3. QED
      BY <1>2, <1>6, <2>1, <3>1, <3>2 DEF Stored, Alike, Whole, WholeOrCut
  <2>5. QED
    BY <1>8, <1>9, <2>2, <2>3, <2>4 DEF SyncInv
<1>12. CASE at <= Len(list) /\ list[at] \notin flag
  <2>1. Write(Msg("SEND", list[at], 0)) /\ chunk' = 0 /\ pc' = "data" /\ result' = -1 /\ at' = at
    BY <1>1, <1>3, <1>12 DEF Send, Goto
  <2>2. Msg("SEND", list[at], 0) \in ToDevice /\ local[list[at]] \in FileTypes
    BY <1>12, ListFacts, Messages DEF SyncInv
  <2>3. TypeInv'
    <3>1. Lists' /\ Values'
      BY <1>1, <1>3, <2>1, <2>2, MoveTypes DEF SyncInv
    <3>2. 0 <= Len(local[list[at]].data)
      BY <2>2 DEF FileTypes
    <3>3. Places'
      BY <1>2, <1>3, <1>12, <2>1, <3>2 DEF SyncInv, TypeInv, Places, Labels, Ending, Sending, Pushing
    <3>4. QED
      BY <3>1, <3>3 DEF TypeInv
  <2>4. Flow'
    <3>1. toDev' = <<Msg("SEND", list[at], 0)>> /\ fromDev' = <<>>
      BY <1>4, <2>1 DEF Write
    <3>2. Upload'
      BY <1>2, <1>5, <2>1, <3>1 DEF Upload, Wire, Taken, Written, Current
    <3>3. QED
      BY <2>1, <3>2 DEF Flow, Sending, Ending
  <2>5. Stored'
    <3>1. Handled' = 1..(at - 1)
      BY <2>1 DEF Handled, Sending
    <3>2. QED
      BY <1>2, <1>6, <1>7, <2>1, <3>1 DEF Stored, Alike, Whole, WholeOrCut
  <2>6. QED
    BY <1>8, <1>9, <2>3, <2>4, <2>5 DEF SyncInv
<1>13. QED
  BY <1>3, <1>10, <1>11, <1>12

\* Facts of a step about the file that is being sent.
LEMMA SendingFacts ==
    ASSUME SyncInv, pc \in Sending
    PROVE  /\ Pushing /\ result = -1 /\ list \in Seq(Files) /\ at \in 1..Len(list)
           /\ Current = list[at] /\ Current \in Files /\ Current \notin flag
           /\ local[Current] \in FileTypes /\ remote[Current] \in FileTypes
           /\ chunk \in Nat /\ chunk <= Len(local[Current].data)
           /\ toDev \in Seq(ToDevice) /\ fromDev \in Seq(FromDevice)
           /\ closed \in BOOLEAN /\ cut \subseteq Range(list)
           /\ Written \in Nat /\ Handled = 1..(at - 1)
           /\ (~closed => Upload)
<1>1. /\ Pushing /\ result = -1 /\ list \in Seq(Files) /\ at \in 1..Len(list) /\ list[at] \notin flag
      /\ chunk \in Nat /\ chunk <= Len(local[list[at]].data)
      /\ toDev \in Seq(ToDevice) /\ fromDev \in Seq(FromDevice)
      /\ closed \in BOOLEAN /\ cut \subseteq Range(list)
  BY DEF SyncInv, TypeInv, Places, Lists, Values, Sending, Ending
<1>2. list[at] \in Files
  BY <1>1
<1>3. local[list[at]] \in FileTypes /\ remote[list[at]] \in FileTypes
  BY <1>2 DEF SyncInv, TypeInv, Values
<1>4. Written \in Nat /\ Handled = 1..(at - 1)
  BY <1>1 DEF Written, Handled
<1>5. ~closed => Upload
  BY DEF SyncInv, Flow
<1>6. QED
  BY <1>1, <1>2, <1>3, <1>4, <1>5 DEF Current

\* One more message about the file is written.
LEMMA UploadWrites ==
    \A k \in Nat, m \in ToDevice :
        /\ SyncInv /\ pc \in {"data", "done"} /\ closed = FALSE
        /\ toDev' = Append(toDev, m) /\ UNCHANGED <<list, at, local, remote, storing, fromDev>>
        /\ chunk' \in Nat /\ chunk <= chunk' /\ k = Written /\ Written' = k + 1
        /\ \A n \in 1..k : Wire(n)' = Wire(n)
        /\ m = Wire(k + 1)'
        => Upload'
<1>1. SUFFICES ASSUME NEW k \in Nat, NEW m \in ToDevice,
                      SyncInv, pc \in {"data", "done"}, closed = FALSE,
                      toDev' = Append(toDev, m), UNCHANGED <<list, at, local, remote, storing, fromDev>>,
                      chunk' \in Nat, chunk <= chunk', k = Written, Written' = k + 1
               PROVE  (\A n \in 1..k : Wire(n)' = Wire(n)) /\ m = Wire(k + 1)' => Upload'
  OBVIOUS
<1>0. SUFFICES ASSUME \A n \in 1..k : Wire(n)' = Wire(n), m = Wire(k + 1)' PROVE Upload'
  OBVIOUS
<1>2. Upload /\ toDev \in Seq(ToDevice) /\ Written = k /\ chunk \in Nat /\ pc # "status"
  BY <1>1, SendingFacts DEF Sending
<1>3. PICK t \in Nat : t = Taken /\ Len(toDev) = k - t
  <2>1. Taken >= 0 /\ Taken = k - Len(toDev) /\ Len(toDev) \in Nat
    BY <1>2 DEF Taken, Upload
  <2>2. Taken \in Nat /\ Len(toDev) = k - Taken
    BY <2>1
  <2>3. QED
    BY <2>2
<1>4. Taken' = t
  BY <1>1, <1>2, <1>3 DEF Taken
<1>5. \A n \in (t + 1)..(k + 1) : toDev'[n - t] = Wire(n)'
  <2>1. SUFFICES ASSUME NEW n \in (t + 1)..(k + 1) PROVE toDev'[n - t] = Wire(n)'
    OBVIOUS
  <2>2. CASE n \in (t + 1)..k
    <3>1. n \in 1..k /\ n - t \in 1..Len(toDev)
      BY <1>3, <2>2
    <3>2. toDev[n - t] = Wire(n) /\ Wire(n)' = Wire(n)
      BY <1>0, <1>2, <1>3, <2>2, <3>1 DEF Upload
    <3>3. QED
      BY <1>1, <1>2, <3>1, <3>2
  <2>3. CASE n = k + 1
    <3>1. n - t = Len(toDev) + 1
      BY <1>2, <1>3, <2>3
    <3>2. toDev'[Len(toDev) + 1] = m
      BY <1>1, <1>2
    <3>3. QED
      BY <1>0, <2>3, <3>1, <3>2
  <2>4. QED
    BY <1>3, <2>2, <2>3
<1>6. \/ t = 0 /\ storing = 0 /\ fromDev = <<>>
      \/ /\ t \in 1..(chunk + 1) /\ storing = Current /\ fromDev = <<>>
         /\ remote[Current].data = SubSeq(local[Current].data, 1, t - 1)
      \/ t > 0 /\ storing = 0 /\ fromDev = <<Fail>>
  BY <1>2, <1>3 DEF Upload
<1>7. \/ Taken' = 0 /\ storing' = 0 /\ fromDev' = <<>>
      \/ /\ Taken' \in 1..(chunk' + 1) /\ storing' = Current' /\ fromDev' = <<>>
         /\ remote'[Current'].data = SubSeq(local'[Current'].data, 1, Taken' - 1)
      \/ Taken' > 0 /\ storing' = 0 /\ fromDev' = <<Fail>>
  <2>1. storing' = storing /\ fromDev' = fromDev /\ remote' = remote /\ local' = local /\ Current' = Current
    BY <1>1 DEF Current
  <2>2. \A c, d \in Nat : c <= d /\ t \in 1..(c + 1) => t \in 1..(d + 1)
    OBVIOUS
  <2>3. t \in 1..(chunk + 1) => t \in 1..(chunk' + 1)
    BY <1>1, <1>2, <2>2
  <2>4. QED
    BY <1>4, <1>6, <2>1, <2>3
<1>8. Taken' >= 0 /\ \A n \in (Taken' + 1)..Written' : toDev'[n - Taken'] = Wire(n)'
  <2>1. Written' = k + 1
    BY <1>1
  <2>2. t >= 0
    OBVIOUS
  <2>3. QED
    BY <1>4, <1>5, <2>1, <2>2, Zenon
<1>9. QED
  BY <1>7, <1>8 DEF Upload, Fail, Msg

\* A step that goes on with the same file.
LEMMA SameFileKeeps ==
    ASSUME SyncInv, pc \in Sending, pc' \in Sending, result' = result,
           UNCHANGED <<args, at, flag, local, buffer, len, device>>,
           cut' \subseteq Range(list'), cut \subseteq cut',
           chunk' \in Nat, chunk' <= Len(local[Current].data),
           pc' # "data" /\ ~closed' => chunk' = Len(local[Current].data) \/ Current \in cut',
           (\E m \in ToDevice : Write(m)) \/ UNCHANGED stream,
           ~closed' => Upload'
    PROVE  SyncInv'
<1>1. UNCHANGED <<op, kind, list, at, flag, local, remote, buffer, len, storing>>
  BY DEF args, device
<1>2. closed' \in BOOLEAN /\ toDev' \in Seq(ToDevice) /\ fromDev' \in Seq(FromDevice) /\ closed' = closed
  <2>1. CASE \E m \in ToDevice : Write(m)
    BY <2>1, WriteTypes DEF SyncInv, TypeInv, Values
  <2>2. CASE UNCHANGED stream
    BY <2>2 DEF SyncInv, TypeInv, Values, stream
  <2>3. QED
    BY <2>1, <2>2
<1>3. TypeInv'
  <2>1. Lists'
    BY <1>1 DEF SyncInv, TypeInv, Lists
  <2>2. Values'
    BY <1>1, <1>2 DEF SyncInv, TypeInv, Values
  <2>3. /\ op' \in Ops /\ kind' \in {"none", "file", "dir", "other"} /\ pc' \in Labels
        /\ result' = -1 /\ pc' \notin Ending /\ Pushing'
    BY <1>1, SendingFacts DEF SyncInv, TypeInv, Places, Labels, Sending, Ending, Pushing
  <2>4. at' <= Len(list') /\ list'[at'] \notin flag' /\ chunk' <= Len(local'[list'[at']].data)
    BY <1>1, SendingFacts DEF Current
  <2>5. pc' \in Sending \ {"data"} /\ ~closed' =>
            chunk' = Len(local'[list'[at']].data) \/ list'[at'] \in cut'
    BY <1>1 DEF Current
  <2>6. Places'
    BY <2>3, <2>4, <2>5 DEF Places, Sending, Ending
  <2>7. QED
    BY <2>1, <2>2, <2>6 DEF TypeInv
<1>4. Flow'
  BY DEF Flow, Sending, Ending
<1>5. Storing'
  BY <1>1, <1>2, SendingFacts DEF SyncInv, Storing, Pushing
<1>6. Stored'
  <2>1. Handled' = Handled
    BY <1>1 DEF Handled
  <2>2. QED
    BY <1>1, <2>1, StoredKept DEF SyncInv, TypeInv, Values
<1>7. Received'
  BY <1>1, SendingFacts, PushingReceives DEF SyncInv
<1>8. QED
  BY <1>3, <1>4, <1>5, <1>6, <1>7 DEF SyncInv

\* What adbd has taken does not change when the host only moves on.
LEMMA UploadKept ==
    ASSUME Upload, pc # "status", pc' # "status", cut \subseteq cut',
           UNCHANGED <<list, at, local, remote, storing, chunk, toDev, fromDev>>
    PROVE  Upload'
<1>1. Written' = Written /\ Taken' = Taken /\ Current' = Current /\ \A n : Wire(n)' = Wire(n)
  BY DEF Written, Taken, Current, Wire
<1>2. QED
  BY <1>1 DEF Upload, Fail, Msg

LEMMA WriteDataKeeps == SyncInv /\ WriteData => SyncInv'
<1>1. SUFFICES ASSUME SyncInv, WriteData PROVE SyncInv'
  OBVIOUS
<1>2. /\ UNCHANGED <<args, at, flag, local, buffer, len, device>> /\ pc = "data" /\ pc \in Sending
      /\ pc' \in {"data", "done"} /\ result' = result
  BY <1>1 DEF WriteData, Goto, Sending
<1>3. UNCHANGED <<list, at, local, remote, storing>>
  BY <1>2 DEF args, device
<1>4. PICK k \in Nat, c \in Nat : c = chunk /\ k = c + 1 /\ k = Written /\ c <= Len(local[Current].data)
  BY <1>1, <1>2, SendingFacts DEF Written
<1>5. CASE chunk < Len(local[Current].data) /\ Write(Msg("DATA", Current, local[Current].data[chunk + 1]))
           /\ chunk' = chunk + 1 /\ pc' = "data" /\ UNCHANGED cut
  <2> DEFINE m == Msg("DATA", Current, local[Current].data[c + 1])
  <2>1. m \in ToDevice
    <3>1. local[Current].data[c + 1] \in Chunks
      BY <1>1, <1>2, <1>4, <1>5, SendingFacts, SMTT(60) DEF FileTypes
    <3>2. QED
      BY <1>1, <1>2, <3>1, SendingFacts, Messages
  <2>2. chunk' = c + 1 /\ Written' = k + 1 /\ c + 1 <= Len(local[Current].data)
    <3>1. Len(local[Current].data) \in Nat
      BY <1>1, <1>2, SendingFacts DEF FileTypes
    <3>2. QED
      BY <1>2, <1>4, <1>5, <3>1 DEF Written
  <2>3. closed = FALSE /\ closed' = FALSE /\ toDev' = Append(toDev, m) /\ fromDev' = fromDev /\ Write(m)
    BY <1>1, <1>4, <1>5, <2>1, WriteTypes DEF SyncInv, TypeInv
  <2>4. \A n \in 1..k : Wire(n)' = Wire(n)
    BY <1>3, <1>4, <2>2 DEF Wire, Current
  <2>5. Wire(k + 1)' = m
    BY <1>3, <1>4, <2>2 DEF Wire, Current
  <2> HIDE DEF m
  <2>6. chunk' \in Nat /\ chunk <= chunk'
    BY <1>4, <2>2
  <2>7. Upload'
    BY <1>1, <1>2, <1>3, <1>4, <2>1, <2>2, <2>3, <2>4, <2>5, <2>6, UploadWrites
  <2>8. cut' \subseteq Range(list') /\ (cut \subseteq cut')
    <3>1. cut \subseteq Range(list)
      BY <1>1, <1>2, SendingFacts
    <3>2. QED
      BY <1>3, <1>5, <3>1
  <2>9. chunk' <= Len(local[Current].data) /\ pc' \in Sending /\ pc' = "data"
    BY <1>5, <2>2 DEF Sending
  <2>10. QED
    BY <1>1, <1>2, <2>1, <2>3, <2>6, <2>7, <2>8, <2>9, SameFileKeeps
<1>6. CASE pc' = "done" /\ UNCHANGED <<stream, chunk>> /\ cut' \subseteq Range(list') /\ (cut \subseteq cut')
           /\ (closed \/ chunk = Len(local[Current].data) \/ Current \in cut')
  <2>1. closed' = closed /\ toDev' = toDev /\ fromDev' = fromDev /\ chunk' = chunk
    BY <1>6 DEF stream
  <2>2. ~closed' => Upload'
    BY <1>1, <1>2, <1>3, <1>6, <2>1, SendingFacts, UploadKept
  <2>3. chunk' \in Nat /\ chunk' <= Len(local[Current].data)
    BY <1>4, <2>1
  <2>4. pc' \in Sending
    BY <1>6 DEF Sending
  <2>5. QED
    BY <1>1, <1>2, <1>6, <2>1, <2>2, <2>3, <2>4, SameFileKeeps
<1>7. QED
  <2>1. cut \subseteq Range(list) /\ Current \in Range(list') /\ list' = list
    BY <1>1, <1>2, <1>3, SendingFacts DEF Range
  <2>2. \/ chunk < Len(local[Current].data) /\ Write(Msg("DATA", Current, local[Current].data[chunk + 1]))
           /\ chunk' = chunk + 1 /\ pc' = "data" /\ UNCHANGED cut
        \/ pc' = "done" /\ UNCHANGED <<stream, chunk>> /\ UNCHANGED cut
           /\ (closed \/ chunk = Len(local[Current].data))
        \/ pc' = "done" /\ UNCHANGED <<stream, chunk>> /\ cut' = cut \cup {Current}
    BY <1>1 DEF WriteData, Current, Goto, Broken
  <2>3. QED
    BY <1>5, <1>6, <2>1, <2>2

LEMMA DoneKeeps == SyncInv /\ Done => SyncInv'
<1>1. SUFFICES ASSUME SyncInv, Done PROVE SyncInv'
  OBVIOUS
<1> DEFINE m == Msg("DONE", Current, local[Current].time)
<1>2. /\ UNCHANGED <<args, progress, files, device>> /\ pc = "done" /\ pc \in Sending
      /\ pc' = "status" /\ pc' \in Sending /\ result' = result /\ Write(m)
  BY <1>1 DEF Done, Goto, Sending, Current
<1>3. UNCHANGED <<list, at, chunk, flag, local, remote, buffer, len, cut, storing>>
  BY <1>2 DEF args, progress, files, device
<1>4. m \in ToDevice
  BY <1>1, <1>2, SendingFacts, Messages DEF FileTypes
<1>5. closed = FALSE /\ closed' = FALSE /\ toDev' = Append(toDev, m) /\ fromDev' = fromDev
  BY <1>1, <1>2, <1>4, WriteTypes DEF SyncInv, TypeInv
<1>6. PICK k \in Nat, c \in Nat : c = chunk /\ k = c + 1 /\ k = Written
  BY <1>1, <1>2, SendingFacts DEF Written
<1>7. Written' = k + 1 /\ chunk' \in Nat /\ chunk <= chunk'
  BY <1>2, <1>3, <1>6 DEF Written
<1>8. \A n \in 1..k : Wire(n)' = Wire(n)
  BY <1>3, <1>6 DEF Wire, Current
<1>9. Wire(k + 1)' = m
  BY <1>3, <1>6 DEF Wire, Current
<1> HIDE DEF m
<1>10. Upload'
  BY <1>1, <1>2, <1>3, <1>4, <1>5, <1>6, <1>7, <1>8, <1>9, UploadWrites
<1>11. chunk' <= Len(local[Current].data) /\ cut' \subseteq Range(list') /\ cut' = cut
  BY <1>1, <1>2, <1>3, SendingFacts
<1>12. chunk' = Len(local[Current].data) \/ Current \in cut'
  BY <1>1, <1>2, <1>3, <1>5 DEF SyncInv, TypeInv, Places, Current
<1>13. UNCHANGED <<args, at, flag, local, buffer, len, device>>
  BY <1>2, <1>3
<1>14. QED
  BY <1>1, <1>2, <1>4, <1>7, <1>10, <1>11, <1>12, <1>13, SameFileKeeps

LEMMA StatusKeeps == SyncInv /\ Status => SyncInv'
<1>1. SUFFICES ASSUME SyncInv, Status PROVE SyncInv'
  OBVIOUS
<1>2. /\ UNCHANGED <<args, chunk, flag, files, device>> /\ pc = "status" /\ pc \in Sending
      /\ Read({"OKAY", "FAIL"})
  BY <1>1 DEF Status, Sending
<1>3. UNCHANGED <<op, kind, list, chunk, flag, local, remote, buffer, len, cut, storing>>
  BY <1>2 DEF args, files, device
<1>4. closed = FALSE /\ closed' = FALSE /\ toDev' = toDev /\ fromDev # <<>> /\ fromDev' = Tail(fromDev)
  BY <1>1, <1>2, ReadTypes DEF SyncInv, TypeInv
<1>5. Upload
  BY <1>1, <1>2, <1>4, SendingFacts
<1>6. CASE fromDev = <<Fail>>
  <2>1. pc' = "returned" /\ result' = 1 /\ at' = at
    BY <1>1, <1>6 DEF Status, Return, Fail, Msg
  <2>2. Taken > 0 /\ storing = 0
    BY <1>2, <1>5, <1>6 DEF Upload, Fail, Msg
  <2>3. TypeInv'
    <3>1. at' \in 1..(Len(list) + 1) /\ chunk' \in Nat /\ flag' \subseteq Range(list) /\ (op # "sync" => flag' = {})
      BY <1>1, <1>3, <2>1 DEF SyncInv, TypeInv, Lists, Values
    <3>2. Lists' /\ Values'
      BY <1>1, <1>2, <3>1, MoveTypes DEF SyncInv
    <3>3. Places'
      BY <1>1, <1>3, <2>1 DEF SyncInv, TypeInv, Places, Labels, Sending, Ending
    <3>4. QED
      BY <3>2, <3>3 DEF TypeInv
  <2>4. Over
    <3>1. ASSUME NEW i \in 1..Len(toDev) PROVE toDev[i].cmd \in {"DATA", "DONE"}
      <4>1. PICK w \in Int, l \in Nat, k \in Int : w = Written /\ l = Len(toDev) /\ k = w - l /\ k = Taken
        BY <1>1, <1>2, SendingFacts DEF Taken
      <4>2. k > 0 /\ i \in 1..l
        BY <2>2, <4>1
      <4>3. PICK n \in Int : n = k + i
        BY <4>1
      <4>4. n \in (k + 1)..w /\ n - k = i /\ n # 1
        BY <4>1, <4>2, <4>3
      <4>5. toDev[i] = Wire(n)
        BY <1>5, <4>1, <4>4 DEF Upload
      <4>6. QED
        BY <4>4, <4>5 DEF Wire, Msg
    <3>2. QED
      BY <3>1 DEF Over
  <2>5. Flow'
    BY <1>4, <2>1, <2>4 DEF Flow, Over, Sending, Ending
  <2>6. Storing'
    BY <1>3, <2>2 DEF Storing
  <2>7. Stored'
    <3>1. Handled' = {} /\ cut' \subseteq Range(list')
      BY <1>1, <1>2, <1>3, <2>1, SendingFacts DEF Handled, Sending
    <3>2. QED
      BY <1>1, <1>3, <3>1, StoredKept DEF SyncInv
  <2>8. Received'
    BY <1>1, <1>2, <1>3, SendingFacts, PushingReceives DEF SyncInv
  <2>9. QED
    BY <2>3, <2>5, <2>6, <2>7, <2>8 DEF SyncInv
<1>7. CASE toDev = <<>> /\ storing = 0 /\ fromDev = <<Msg("OKAY", 0, 0)>> /\ Whole(Current)
  <2>1. pc' = "send" /\ result' = -1 /\ at' = at + 1 /\ toDev' = <<>> /\ fromDev' = <<>>
    BY <1>1, <1>2, <1>4, <1>7, SendingFacts DEF Status, Goto, Msg
  <2>2. at \in 1..Len(list) /\ list \in Seq(Files) /\ chunk \in Nat /\ flag \subseteq Range(list)
        /\ (op # "sync" => flag = {}) /\ Pushing
    BY <1>1, <1>2, SendingFacts DEF SyncInv, TypeInv, Lists
  <2>3. TypeInv'
    <3>1. at' \in 1..(Len(list) + 1) /\ chunk' \in Nat /\ flag' \subseteq Range(list) /\ (op # "sync" => flag' = {})
      BY <1>3, <2>1, <2>2
    <3>2. Lists' /\ Values'
      BY <1>1, <1>2, <3>1, MoveTypes DEF SyncInv
    <3>3. Places'
      BY <1>1, <1>3, <2>1, <2>2 DEF SyncInv, TypeInv, Places, Labels, Sending, Ending, Pushing
    <3>4. QED
      BY <3>2, <3>3 DEF TypeInv
  <2>4. Flow'
    BY <2>1 DEF Flow, Idle, Sending, Ending
  <2>5. Storing'
    BY <1>3, <1>7 DEF Storing
  <2>6. Stored'
    <3>1. Handled' = 1..(at - 1) \cup {at} /\ Handled = 1..(at - 1)
      BY <1>2, <2>1, <2>2 DEF Handled
    <3>2. \A i \in 1..(at - 1) \cup {at} : list[i] \in flag \/ Whole(list[i])
      BY <1>1, <1>7, <2>2, <3>1 DEF SyncInv, Stored, Current
    <3>3. \A f \in flag : Alike(f)
      BY <1>1, <2>2 DEF SyncInv, Stored
    <3>4. QED
      BY <1>3, <3>1, <3>2, <3>3 DEF Stored, Alike, Whole, WholeOrCut
  <2>7. Received'
    BY <1>1, <1>3, <2>2, PushingReceives DEF SyncInv
  <2>8. QED
    BY <2>3, <2>4, <2>5, <2>6, <2>7 DEF SyncInv
<1>8. QED
  BY <1>4, <1>5, <1>6, <1>7 DEF Upload

-------------------------------------------------------------------------------
(* A file is received.                                                     *)

LEMMA ReceivingFacts ==
    ASSUME SyncInv, pc \in {"first", "more"}
    PROVE  /\ ~Pushing /\ op \in {"pull", "pull_buffer"} /\ kind = "file" /\ result = -1 /\ len = -1
           /\ local \in [Files -> FileTypes] /\ buffer \in Seq(Chunks) /\ 1 \in Files
           /\ remote[1].data \in Seq(Chunks) /\ fromDev \in Seq(FromDevice) /\ toDev \in Seq(ToDevice)
           /\ Sink \in Seq(Chunks) /\ Beginning(Sink, remote[1].data)
<1>1. /\ ~Pushing /\ op \in Ops /\ kind = "file" /\ result = -1 /\ len = -1
      /\ local \in [Files -> FileTypes] /\ remote \in [Files -> FileTypes] /\ buffer \in Seq(Chunks)
      /\ fromDev \in Seq(FromDevice) /\ toDev \in Seq(ToDevice)
  BY DEF SyncInv, TypeInv, Places, Values, Received, Ending
<1>2. op \in {"pull", "pull_buffer"}
  BY <1>1, SyncAssumption DEF Pushing
<1>3. local[1].data \in Seq(Chunks) /\ remote[1].data \in Seq(Chunks)
  BY <1>1, FileFacts DEF FileTypes
<1>4. Beginning(<<>>, remote[1].data)
  <2>1. Len(<<>>) = 0 /\ <<>> = SubSeq(remote[1].data, 1, 0)
    BY <1>3
  <2>2. QED
    BY <1>3, <2>1 DEF Beginning
<1>5. Sink = <<>> \/ Beginning(Sink, remote[1].data)
  BY <1>2 DEF SyncInv, Received, Sink, Ending, Begun
<1>6. Sink \in Seq(Chunks)
  BY <1>1, <1>3 DEF Sink
<1>7. QED
  BY <1>1, <1>2, <1>3, <1>4, <1>5, <1>6, FileFacts

\* Data that adds to what has been received.
LEMMA TakeFacts ==
    ASSUME SyncInv, pc \in {"first", "more"}, NEW new \in Seq(Chunks), Take(new)
    PROVE  /\ local' \in [Files -> FileTypes] /\ buffer' \in Seq(Chunks)
           /\ (IF op = "pull" THEN local'[1].data ELSE buffer') = Sink \o new
<1>1. CASE op = "pull"
  <2>1. local' = [local EXCEPT ![1] = [local[1] EXCEPT !.data = Sink \o new]] /\ buffer' = buffer
    BY <1>1 DEF Take, Sink
  <2>2. [local[1] EXCEPT !.data = Sink \o new] \in FileTypes /\ [local[1] EXCEPT !.data = Sink \o new].data = Sink \o new
    <3>1. local[1] \in FileTypes /\ Sink \o new \in Seq(Chunks)
      BY ReceivingFacts
    <3>2. QED
      BY <3>1 DEF FileTypes
  <2>3. QED
    BY <1>1, <2>1, <2>2, ReceivingFacts
<1>2. CASE op = "pull_buffer"
  <2>1. local' = local /\ buffer' = buffer \o new
    BY <1>2 DEF Take
  <2>2. op # "pull" /\ Sink = buffer
    BY <1>2 DEF Sink
  <2>3. QED
    BY <2>1, <2>2, ReceivingFacts
<1>3. QED
  BY <1>1, <1>2, ReceivingFacts

\* The first of the messages that are on their way adds a chunk, or ends the file.
LEMMA ChunkArrives ==
    ASSUME NEW from \in Seq(FromDevice), NEW has \in Seq(Chunks), NEW data \in Seq(Chunks),
           Coming(from, has, data), Beginning(has, data), from[1].cmd = "DATA"
    PROVE  /\ <<from[1].v>> \in Seq(Chunks)
           /\ Coming(Tail(from), has \o <<from[1].v>>, data)
           /\ Beginning(has \o <<from[1].v>>, data)
<1> DEFINE c == from[1].v
           n == Len(has)
<1>0. PICK k \in Nat : k = Len(from)
  OBVIOUS
<1>1. k > 1
  <2>1. k # 1
    BY <1>0 DEF Coming, Msg, Fail
  <2>2. k > 0
    BY <1>0 DEF Coming
  <2>3. QED
    BY <2>1, <2>2
<1>2. c = data[n + 1] /\ n + 1 \in 1..Len(data)
  <2>1. from[1] = Msg("DATA", 1, data[n + 1])
    BY <1>0, <1>1 DEF Coming
  <2>2. n + 1 \in 1..Len(data)
    BY <1>0, <1>1 DEF Coming
  <2>3. QED
    BY <2>1, <2>2 DEF Msg
<1> HIDE DEF c
<1>3. c \in Chunks
  BY <1>2
<1>4. Len(has \o <<c>>) = n + 1
  BY <1>3
<1>5. Beginning(has \o <<c>>, data)
  <2>1. has \o <<c>> = SubSeq(data, 1, n + 1)
    BY <1>2, <1>3, <1>4 DEF Beginning
  <2>2. QED
    BY <1>2, <1>4, <2>1 DEF Beginning
<1>6. Len(Tail(from)) = k - 1 /\ \A i \in 1..(k - 1) : Tail(from)[i] = from[i + 1]
  BY <1>0, <1>1
<1>7. Coming(Tail(from), has \o <<c>>, data)
  <2>1. k - 1 > 0 /\ n + 1 + (k - 1) - 1 = n + k - 1
    BY <1>1
  <2>2. ASSUME NEW i \in 1..(k - 1 - 1) PROVE Tail(from)[i] = Msg("DATA", 1, data[n + 1 + i])
    <3>1. i \in 1..(k - 1) /\ i + 1 \in 1..(k - 1) /\ n + (i + 1) = n + 1 + i
      BY <1>1
    <3>2. QED
      BY <1>0, <1>6, <3>1 DEF Coming
  <2>3. Tail(from)[k - 1] = from[k]
    <3>1. k - 1 \in 1..(k - 1) /\ (k - 1) + 1 = k
      BY <1>1
    <3>2. QED
      BY <1>6, <3>1
  <2>4. QED
    BY <1>0, <1>4, <1>6, <2>1, <2>2, <2>3 DEF Coming
<1>8. QED
  BY <1>3, <1>5, <1>7 DEF c

LEMMA FileEnds ==
    ASSUME NEW from \in Seq(FromDevice), NEW has \in Seq(Chunks), NEW data \in Seq(Chunks),
           Coming(from, has, data), Beginning(has, data), from[1].cmd = "DONE"
    PROVE  has = data
<1>1. Len(from) = 1
  <2>1. PICK k \in Nat : k = Len(from)
    OBVIOUS
  <2>2. k > 0
    BY <2>1 DEF Coming
  <2>3. ASSUME 1 \in 1..(k - 1) PROVE FALSE
    <3>1. from[1] = Msg("DATA", 1, data[Len(has) + 1])
      BY <2>1, <2>3 DEF Coming
    <3>2. QED
      BY <3>1 DEF Msg
  <2>4. QED
    BY <2>1, <2>2, <2>3
<1>2. Len(has) = Len(data)
  BY <1>1 DEF Coming, Fail, Msg
<1>3. QED
  BY <1>2 DEF Beginning

\* What the host reads while it pulls.
LEMMA FirstArrived ==
    ASSUME SyncInv, pc \in {"first", "more"}, \E cmds : Read(cmds)
    PROVE  /\ toDev = <<>> /\ toDev' = <<>> /\ closed = FALSE /\ closed' = FALSE /\ storing = 0
           /\ fromDev' = Tail(fromDev) /\ fromDev' \in Seq(FromDevice) /\ Head(fromDev) = fromDev[1]
           /\ Coming(fromDev, Sink, remote[1].data)
<1>1. /\ closed = FALSE /\ closed' = FALSE /\ toDev' = toDev /\ fromDev # <<>> /\ fromDev' = Tail(fromDev)
      /\ fromDev' \in Seq(FromDevice)
  BY ReadTypes DEF SyncInv, TypeInv
<1>2. Download
  BY <1>1 DEF SyncInv, Flow
<1>3. storing = 0
  BY <1>1 DEF SyncInv, Storing, Sending
<1>4. Head(fromDev) = fromDev[1]
  BY <1>1, ReceivingFacts
<1>5. QED
  BY <1>1, <1>2, <1>3, <1>4 DEF Download

LEMMA PartBegins ==
    ASSUME NEW has \in Seq(Chunks), NEW n \in 0..(Len(has) - 1)
    PROVE  SubSeq(has, 1, n) \in Seq(Chunks) /\ Beginning(SubSeq(has, 1, n), has)
<1>1. n \in Nat /\ n <= Len(has)
  OBVIOUS
<1>2. SubSeq(has, 1, n) \in Seq(Chunks) /\ Len(SubSeq(has, 1, n)) = n
  BY <1>1
<1>3. QED
  BY <1>1, <1>2 DEF Beginning

\* The values after a message has been read.
LEMMA ReceivedValues ==
    ASSUME SyncInv, pc \in {"first", "more"}, \E cmds : Read(cmds),
           UNCHANGED <<args, progress, device>>, cut' \subseteq Range(list),
           local' \in [Files -> FileTypes], buffer' \in Seq(Chunks), len' = -1 \/ len' \in Nat
    PROVE  Lists' /\ Values' /\ Stored' /\ Storing'
<1>1. UNCHANGED <<op, kind, list, at, chunk, flag, remote, storing>>
  BY DEF args, progress, device
<1>2. closed' = FALSE /\ toDev' = <<>> /\ fromDev' \in Seq(FromDevice) /\ storing = 0
  BY FirstArrived
<1>3. Lists'
  BY <1>1 DEF SyncInv, TypeInv, Lists
<1>4. Values'
  <2>1. remote' \in [Files -> FileTypes] /\ cut' \subseteq Range(list') /\ chunk' \in Nat /\ storing' \in 0..NumFiles
    BY <1>1 DEF SyncInv, TypeInv, Values
  <2>2. toDev' \in Seq(ToDevice)
    BY <1>2
  <2>3. QED
    BY <1>2, <2>1, <2>2 DEF Values
<1>5. Stored'
  BY <1>1, ReceivingFacts, PullingStores
<1>6. Storing'
  BY <1>1, <1>2 DEF Storing
<1>7. QED
  BY <1>3, <1>4, <1>5, <1>6

LEMMA RecvDataKeeps == SyncInv /\ RecvData => SyncInv'
<1>1. SUFFICES ASSUME SyncInv, RecvData PROVE SyncInv'
  OBVIOUS
<1>2. UNCHANGED <<args, progress, device>> /\ pc \in {"first", "more"}
  BY <1>1 DEF RecvData
<1>3. UNCHANGED <<op, kind, list, at, chunk, flag, remote, storing>>
  BY <1>2 DEF args, progress, device
<1>4. /\ ~Pushing /\ op \in {"pull", "pull_buffer"} /\ kind = "file" /\ result = -1 /\ len = -1
      /\ cut \subseteq Range(list)
  BY <1>1, <1>2, ReceivingFacts DEF SyncInv, TypeInv, Values
<1>5. PICK data \in Seq(Chunks), from \in Seq(FromDevice), has \in Seq(Chunks) :
          data = remote[1].data /\ from = fromDev /\ has = Sink /\ Beginning(has, data)
  BY <1>1, <1>2, ReceivingFacts
<1>6. \E cmds : Read(cmds)
  BY <1>1 DEF RecvData
<1>7. /\ toDev' = <<>> /\ closed' = FALSE /\ fromDev' = Tail(from) /\ Head(fromDev) = from[1]
      /\ Coming(from, has, data)
  BY <1>1, <1>2, <1>5, <1>6, FirstArrived
<1>8. CASE Read({"DATA"}) /\ Take(<<Head(fromDev).v>>) /\ pc' = "more" /\ result' = result /\ len' = len
           /\ UNCHANGED cut
  <2>1. from[1].cmd = "DATA"
    BY <1>7, <1>8 DEF Read, Arrived
  <2> DEFINE new == <<from[1].v>>
  <2>2. new \in Seq(Chunks) /\ Coming(Tail(from), has \o new, data) /\ Beginning(has \o new, data)
    BY <1>5, <1>7, <2>1, ChunkArrives
  <2>3. Take(new)
    BY <1>7, <1>8
  <2> HIDE DEF new
  <2>4. /\ local' \in [Files -> FileTypes] /\ buffer' \in Seq(Chunks)
        /\ (IF op = "pull" THEN local'[1].data ELSE buffer') = Sink \o new
    BY <1>1, <1>2, <2>2, <2>3, TakeFacts
  <2>5. Lists' /\ Values' /\ Stored' /\ Storing'
    BY <1>1, <1>2, <1>4, <1>6, <1>8, <2>4, ReceivedValues
  <2>6. Places'
    BY <1>1, <1>3, <1>4, <1>8 DEF SyncInv, TypeInv, Places, Labels, Sending, Ending, Pushing
  <2>7. Sink' = has \o new /\ remote'[1].data = data
    BY <1>3, <1>5, <1>8, <2>4 DEF Sink
  <2>8. Flow'
    <3>1. Coming(fromDev', Sink', remote'[1].data)
      BY <1>7, <2>2, <2>7
    <3>2. Download'
      BY <1>7, <3>1 DEF Download, Coming, Fail, Msg
    <3>3. QED
      BY <1>8, <3>2 DEF Flow, Sending, Ending
  <2>9. Received'
    <3>1. Beginning(IF op = "pull" THEN local'[1].data ELSE buffer', remote'[1].data)
      BY <1>5, <2>2, <2>4, <2>7
    <3>2. QED
      BY <1>3, <1>4, <1>8, <3>1 DEF Received, Begun, Beginning, Ending
  <2>10. QED
    BY <2>5, <2>6, <2>8, <2>9 DEF SyncInv, TypeInv
<1>9. CASE /\ Read({"DONE"}) /\ Take(<<>>) /\ pc' = "quit" /\ result' = 0
           /\ len' = (IF op = "pull_buffer" THEN Len(buffer) ELSE len) /\ UNCHANGED cut
  <2>1. from[1].cmd = "DONE"
    BY <1>7, <1>9 DEF Read, Arrived
  <2>2. has = data
    BY <1>5, <1>7, <2>1, FileEnds
  <2>3. /\ local' \in [Files -> FileTypes] /\ buffer' \in Seq(Chunks)
        /\ (IF op = "pull" THEN local'[1].data ELSE buffer') = Sink \o <<>>
    <3>1. <<>> \in Seq(Chunks)
      OBVIOUS
    <3>2. QED
      BY <1>1, <1>2, <1>9, <3>1, TakeFacts
  <2>4. (IF op = "pull" THEN local'[1].data ELSE buffer') = data
    <3>1. data \o <<>> = data
      OBVIOUS
    <3>2. QED
      BY <1>5, <2>2, <2>3, <3>1
  <2>5. len' = IF op = "pull_buffer" THEN Len(data) ELSE -1
    BY <1>4, <1>5, <1>9, <2>2 DEF Sink
  <2>6. Lists' /\ Values' /\ Stored' /\ Storing'
    <3>1. len' = -1 \/ len' \in Nat
      BY <2>5
    <3>2. QED
      BY <1>1, <1>2, <1>4, <1>6, <1>9, <2>3, <3>1, ReceivedValues
  <2>7. Places'
    BY <1>1, <1>3, <1>4, <1>9 DEF SyncInv, TypeInv, Places, Labels, Sending, Ending
  <2>8. Flow'
    BY <1>7, <1>9 DEF Flow, Over, Sending, Ending
  <2>9. Received'
    BY <1>3, <1>4, <1>5, <1>9, <2>4, <2>5 DEF Received, WholeOrCut, Ending
  <2>10. QED
    BY <2>6, <2>7, <2>8, <2>9 DEF SyncInv, TypeInv
<1>10. CASE Read({"DATA"}) /\ op = "pull" /\ Take(<<>>) /\ pc' = "returned" /\ result' = 1 /\ len' = len
            /\ UNCHANGED cut
  <2>1. local' \in [Files -> FileTypes] /\ buffer' \in Seq(Chunks)
    <3>1. <<>> \in Seq(Chunks)
      OBVIOUS
    <3>2. QED
      BY <1>1, <1>2, <1>10, <3>1, TakeFacts
  <2>2. Lists' /\ Values' /\ Stored' /\ Storing'
    BY <1>1, <1>2, <1>4, <1>6, <1>10, <2>1, ReceivedValues
  <2>3. Places'
    BY <1>1, <1>3, <1>4, <1>10 DEF SyncInv, TypeInv, Places, Labels, Sending, Ending
  <2>4. Flow'
    BY <1>7, <1>10 DEF Flow, Over, Sending, Ending
  <2>5. Received'
    BY <1>3, <1>4, <1>10 DEF Received, Ending
  <2>6. QED
    BY <2>2, <2>3, <2>4, <2>5 DEF SyncInv, TypeInv
<1>11. CASE /\ Read({"DONE"}) /\ op = "pull" /\ pc = "more"
            /\ \E n \in 0..(Len(local[1].data) - 1) : local' = [local EXCEPT ![1].data = SubSeq(@, 1, n)]
            /\ cut' = {1}
            /\ pc' = "quit" /\ result' = 0 /\ UNCHANGED <<buffer, len>>
  <2>1. from[1].cmd = "DONE"
    BY <1>7, <1>11 DEF Read, Arrived
  <2>2. has = data /\ has = local[1].data
    BY <1>5, <1>7, <1>11, <2>1, FileEnds DEF Sink
  <2>3. local \in [Files -> FileTypes] /\ buffer \in Seq(Chunks) /\ 1 \in Files
    BY <1>1, <1>2, ReceivingFacts
  <2>4. PICK part \in Seq(Chunks) :
            Beginning(part, has) /\ local' = [local EXCEPT ![1] = [local[1] EXCEPT !.data = part]]
    <3>1. PICK n \in 0..(Len(has) - 1) : local' = [local EXCEPT ![1] = [local[1] EXCEPT !.data = SubSeq(has, 1, n)]]
      BY <1>11, <2>2
    <3>2. QED
      BY <1>5, <3>1, PartBegins
  <2>5. local' \in [Files -> FileTypes] /\ local'[1].data = part
    <3>1. local[1] \in FileTypes
      BY <2>3
    <3>2. [local[1] EXCEPT !.data = part] \in FileTypes
      BY <2>4, <3>1 DEF FileTypes
    <3>3. [local[1] EXCEPT !.data = part].data = part
      BY <3>1 DEF FileTypes
    <3>4. QED
      BY <2>3, <2>4, <3>2, <3>3
  <2>6. cut' \subseteq Range(list)
    <3>1. list = <<1>>
      BY <1>1, <1>11 DEF SyncInv, TypeInv, Lists
    <3>2. QED
      BY <1>11, <3>1 DEF Range
  <2>7. Lists' /\ Values' /\ Stored' /\ Storing'
    BY <1>1, <1>2, <1>4, <1>6, <1>11, <2>3, <2>5, <2>6, ReceivedValues
  <2>8. Places'
    BY <1>1, <1>3, <1>4, <1>11 DEF SyncInv, TypeInv, Places, Labels, Sending, Ending
  <2>9. Flow'
    BY <1>7, <1>11 DEF Flow, Over, Sending, Ending
  <2>10. Received'
    <3>1. WholeOrCut(1, local[1].data, remote[1].data)'
      <4>1. Beginning(local'[1].data, remote'[1].data) /\ 1 \in cut'
        BY <1>3, <1>5, <1>11, <2>2, <2>4, <2>5
      <4>2. QED
        BY <4>1 DEF WholeOrCut
    <3>2. QED
      BY <1>3, <1>4, <1>11, <3>1 DEF Received, Ending
  <2>11. QED
    BY <2>7, <2>8, <2>9, <2>10 DEF SyncInv, TypeInv
<1>12. QED
  BY <1>1, <1>8, <1>9, <1>10, <1>11 DEF RecvData, Goto, Quit, Return

LEMMA RemoteErrorKeeps == SyncInv /\ RemoteError => SyncInv'
<1>1. SUFFICES ASSUME SyncInv, RemoteError PROVE SyncInv'
  OBVIOUS
<1>2. /\ UNCHANGED <<args, progress, buffer, len, cut, device>> /\ pc \in {"first", "more"}
      /\ \E cmds : Read(cmds)
      /\ pc' = "quit" /\ result' = 0
      /\ local' = IF op = "pull" THEN [local EXCEPT ![1] = Absent] ELSE local
  BY <1>1 DEF RemoteError, Quit
<1>3. UNCHANGED <<op, kind, list, at, chunk, flag, remote, buffer, len, cut, storing>>
  BY <1>2 DEF args, progress, device
<1>4. ~Pushing /\ op \in {"pull", "pull_buffer"} /\ kind = "file" /\ result = -1 /\ len = -1
      /\ local \in [Files -> FileTypes] /\ buffer \in Seq(Chunks) /\ 1 \in Files
  BY <1>1, <1>2, ReceivingFacts
<1>5. toDev' = <<>> /\ closed' = FALSE
  BY <1>1, <1>2, FirstArrived
<1>6. local' \in [Files -> FileTypes] /\ (op = "pull" => local'[1] = Absent)
  BY <1>2, <1>4, ContentTypes
<1>7. Lists' /\ Values' /\ Stored' /\ Storing'
  <2>1. cut' \subseteq Range(list)
    BY <1>1, <1>3 DEF SyncInv, TypeInv, Values
  <2>2. QED
    BY <1>1, <1>2, <1>3, <1>4, <1>6, <2>1, ReceivedValues
<1>8. Places'
  BY <1>1, <1>2, <1>3 DEF SyncInv, TypeInv, Places, Labels, Sending, Ending
<1>9. Flow'
  BY <1>2, <1>5 DEF Flow, Over, Sending, Ending
<1>10. Received'
  BY <1>2, <1>3, <1>4, <1>6 DEF Received, Ending
<1>11. QED
  BY <1>7, <1>8, <1>9, <1>10 DEF SyncInv, TypeInv

-------------------------------------------------------------------------------
(* The other end, and the end of the stream.                               *)

LEMMA CloseKeeps == SyncInv /\ Close => SyncInv'
<1> SUFFICES ASSUME SyncInv, Close PROVE SyncInv'
  OBVIOUS
<1>1. /\ closed' = TRUE
      /\ UNCHANGED <<op, kind, list, pc, at, chunk, flag, local, remote, buffer, len, cut, result, toDev, fromDev, storing>>
  BY DEF Close, args, progress, files, device
<1>2. TypeInv'
  BY <1>1 DEF SyncInv, TypeInv, Lists, Values, Places, Pushing
<1>3. Flow'
  BY <1>1 DEF Flow
<1>4. Storing'
  BY <1>1 DEF SyncInv, Storing, Pushing
<1>5. Stored'
  <2>1. Handled' = Handled /\ cut' \subseteq Range(list')
    BY <1>1 DEF Handled, SyncInv, TypeInv, Values
  <2>2. QED
    BY <1>1, <2>1, StoredKept DEF SyncInv
<1>6. Received'
  BY <1>1, ReceivedKept DEF SyncInv
<1>7. QED
  BY <1>2, <1>3, <1>4, <1>5, <1>6 DEF SyncInv

LEMMA DeviceFacts ==
    ASSUME SyncInv, Device
    PROVE  /\ UNCHANGED <<op, kind, list, pc, at, chunk, flag, local, buffer, len, cut, result>>
           /\ closed = FALSE /\ Len(toDev) > 0 /\ toDev \in Seq(ToDevice) /\ Head(toDev) = toDev[1]
           /\ fromDev \in Seq(FromDevice) /\ toDev' = Tail(toDev) /\ toDev' \in Seq(ToDevice)
           /\ remote \in [Files -> FileTypes] /\ (pc \notin Sending => storing = 0)
<1>1. UNCHANGED <<op, kind, list, pc, at, chunk, flag, local, buffer, len, cut, result>>
  BY DEF Device, args, progress, files
<1>2. ~closed /\ toDev # <<>> /\ toDev' = Tail(toDev)
  BY DEF Device
<1>3. toDev \in Seq(ToDevice) /\ closed \in BOOLEAN /\ fromDev \in Seq(FromDevice) /\ remote \in [Files -> FileTypes]
  BY DEF SyncInv, TypeInv, Values
<1>4. Len(toDev) > 0 /\ Head(toDev) = toDev[1] /\ toDev' \in Seq(ToDevice)
  BY <1>2, <1>3
<1>5. pc \notin Sending => storing = 0
  BY <1>2 DEF SyncInv, Storing
<1>6. QED
  BY <1>1, <1>2, <1>3, <1>4, <1>5

LEMMA DeviceTypes ==
    ASSUME SyncInv, Device, closed' \in BOOLEAN, fromDev' \in Seq(FromDevice),
           remote' \in [Files -> FileTypes], storing' \in 0..NumFiles
    PROVE  TypeInv'
<1>1. UNCHANGED <<op, kind, list, pc, at, chunk, flag, local, buffer, len, cut, result>>
      /\ toDev' \in Seq(ToDevice) /\ closed = FALSE
  BY DeviceFacts
<1>2. Lists'
  BY <1>1 DEF SyncInv, TypeInv, Lists
<1>3. Values'
  BY <1>1 DEF SyncInv, TypeInv, Values
<1>4. Places'
  BY <1>1 DEF SyncInv, TypeInv, Places, Pushing
<1>5. QED
  BY <1>2, <1>3, <1>4 DEF TypeInv

\* A message that is answered, or ignored, and changes no file.
LEMMA AnswerKeeps ==
    ASSUME SyncInv, Device, UNCHANGED device, closed' \in BOOLEAN, fromDev' \in Seq(FromDevice), Flow'
    PROVE  SyncInv'
<1>1. UNCHANGED <<op, kind, list, pc, at, chunk, flag, local, remote, buffer, len, cut, result, storing>>
      /\ closed = FALSE
  BY DeviceFacts DEF device
<1>2. TypeInv'
  BY <1>1, DeviceTypes DEF SyncInv, TypeInv, Values
<1>3. Storing'
  BY <1>1 DEF SyncInv, Storing, Pushing
<1>4. Stored'
  <2>1. Handled' = Handled /\ cut' \subseteq Range(list')
    BY <1>1 DEF Handled, SyncInv, TypeInv, Values
  <2>2. QED
    BY <1>1, <2>1, StoredKept DEF SyncInv
<1>5. Received'
  BY <1>1, ReceivedKept DEF SyncInv
<1>6. QED
  BY <1>2, <1>3, <1>4, <1>5 DEF SyncInv

LEMMA AnswerTypes ==
    ASSUME SyncInv, NEW f \in Files
    PROVE  Answer(f) \in FromDevice
<1>1. remote[f].time \in Nat /\ Len(remote[f].data) \in Nat
  BY DEF SyncInv, TypeInv, Values, FileTypes
<1>2. QED
  BY <1>1 DEF Answer, Msg, FromDevice

\* adbd's answer to a question about a file.
LEMMA StatAnswered ==
    ASSUME SyncInv, Device, toDev[1].cmd = "STAT"
    PROVE  /\ UNCHANGED device /\ closed' = closed /\ toDev[1].f \in Files
           /\ fromDev' = Append(fromDev, Answer(toDev[1].f)) /\ fromDev' \in Seq(FromDevice)
<1>1. toDev[1] \in ToDevice /\ Head(toDev) = toDev[1] /\ fromDev \in Seq(FromDevice)
  BY DeviceFacts
<1>2. toDev[1].f \in Files
  BY <1>1, SMTT(60) DEF ToDevice
<1>3. DeviceStat(toDev[1])
  BY <1>1 DEF Device, DeviceStore, DeviceSend, DeviceList, DeviceQuit
<1>4. /\ UNCHANGED device /\ closed' = closed
      /\ fromDev' = fromDev \o <<Answer(toDev[1].f)>>
  BY <1>3 DEF DeviceStat, Reply, Answer
<1>5. Answer(toDev[1].f) \in FromDevice
  BY <1>2, AnswerTypes
<1>6. QED
  BY <1>1, <1>2, <1>4, <1>5

LEMMA StatTaken ==
    ASSUME SyncInv, Device, pc = "mode"
    PROVE  SyncInv' /\ UNCHANGED device
<1>1. toDev = <<Msg("STAT", 1, 0)>> /\ fromDev = <<>>
  <2>1. ~closed /\ toDev # <<>>
    BY DEF Device
  <2>2. QED
    BY <2>1 DEF SyncInv, Flow, Asked
<1>2. toDev[1].cmd = "STAT"
  BY <1>1 DEF Msg
<1>3. /\ UNCHANGED device /\ closed' = FALSE /\ fromDev' \in Seq(FromDevice) /\ pc' = "mode"
      /\ fromDev' = Append(fromDev, Answer(toDev[1].f)) /\ toDev' = Tail(toDev)
  BY <1>2, StatAnswered, DeviceFacts
<1>4. toDev' = <<>> /\ Len(fromDev') = 1
  BY <1>1, <1>3
<1>5. Flow'
  BY <1>3, <1>4 DEF Flow, Asked, Sending, Ending
<1>6. QED
  BY <1>3, <1>5, AnswerKeeps

LEMMA QuestionTaken ==
    ASSUME SyncInv, Device, NEW first \in Nat, NEW last \in Int, Questions(first, last),
           list \in Seq(Files)
    PROVE  UNCHANGED device /\ closed' = closed /\ fromDev' \in Seq(FromDevice) /\ Questions(first, last)'
<1>1. PICK to \in Seq(ToDevice), from \in Seq(FromDevice), p \in Nat, q \in Nat :
          to = toDev /\ from = fromDev /\ p = Len(from) /\ q = Len(to) /\ q > 0
  BY DeviceFacts
<1>2. /\ p + q = last - first + 1
      /\ \A i \in 1..p : from[i] = Answer(list[first + i - 1])
      /\ \A i \in 1..q : to[i] = Msg("STAT", list[first + p + i - 1], 0)
  BY <1>1 DEF Questions
<1>3. to[1] = Msg("STAT", list[first + p], 0)
  <2>1. 1 \in 1..q /\ first + p + 1 - 1 = first + p
    BY <1>1
  <2>2. QED
    BY <1>2, <2>1
<1>4. toDev[1].cmd = "STAT" /\ toDev[1].f = list[first + p]
  BY <1>1, <1>3 DEF Msg
<1>5. /\ UNCHANGED <<device, list>> /\ closed' = closed /\ fromDev' \in Seq(FromDevice)
      /\ fromDev' = Append(from, Answer(list[first + p])) /\ toDev' = Tail(to)
  BY <1>1, <1>4, StatAnswered, DeviceFacts
<1>6. remote' = remote
  BY <1>5 DEF device
<1>7. Len(fromDev') = p + 1 /\ \A i \in 1..p : fromDev'[i] = from[i]
  BY <1>1, <1>5
<1>8. fromDev'[p + 1] = Answer(list[first + p])
  BY <1>1, <1>5
<1>9. Len(toDev') = q - 1 /\ \A i \in 1..(q - 1) : toDev'[i] = to[i + 1]
  BY <1>1, <1>5
<1>10. (p + 1) + (q - 1) = last - first + 1
  BY <1>2
<1>11. ASSUME NEW i \in 1..(p + 1) PROVE fromDev'[i] = Answer(list[first + i - 1])
  <2>1. CASE i \in 1..p
    BY <1>2, <1>7, <2>1
  <2>2. CASE i = p + 1
    <3>1. first + i - 1 = first + p
      BY <2>2
    <3>2. QED
      BY <1>8, <2>2, <3>1
  <2>3. QED
    BY <2>1, <2>2
<1>12. ASSUME NEW i \in 1..(q - 1) PROVE toDev'[i] = Msg("STAT", list[first + (p + 1) + i - 1], 0)
  <2>1. i + 1 \in 1..q /\ first + p + (i + 1) - 1 = first + (p + 1) + i - 1
    OBVIOUS
  <2>2. QED
    BY <1>2, <1>9, <2>1
<1>13. Questions(first, last)'
  BY <1>5, <1>6, <1>7, <1>9, <1>10, <1>11, <1>12 DEF Questions, Answer
<1>14. QED
  BY <1>5, <1>13

LEMMA QuestionsTaken ==
    ASSUME SyncInv, Device, pc \in {"start", "finish"}
    PROVE  SyncInv' /\ UNCHANGED device
<1>1. PICK a \in Nat, n \in Nat : a = at /\ n = Len(list) /\ list \in Seq(Files)
  BY DEF SyncInv, TypeInv, Lists
<1>2. ~closed /\ UNCHANGED <<at, list, pc>> /\ closed = FALSE
  BY DeviceFacts
<1>3. CASE pc = "start"
  <2>1. Questions(1, a - 1)
    BY <1>1, <1>2, <1>3 DEF SyncInv, Flow
  <2>2. UNCHANGED device /\ closed' = closed /\ fromDev' \in Seq(FromDevice) /\ Questions(1, a - 1)'
    BY <1>1, <2>1, QuestionTaken
  <2>3. Flow'
    BY <1>1, <1>2, <1>3, <2>2 DEF Flow, Questions, Sending, Ending
  <2>4. QED
    BY <1>2, <2>2, <2>3, AnswerKeeps
<1>4. CASE pc = "finish"
  <2>1. Questions(a, n)
    BY <1>1, <1>2, <1>4 DEF SyncInv, Flow
  <2>2. UNCHANGED device /\ closed' = closed /\ fromDev' \in Seq(FromDevice) /\ Questions(a, n)'
    BY <1>1, <2>1, QuestionTaken
  <2>3. Flow'
    BY <1>1, <1>2, <1>4, <2>2 DEF Flow, Questions, Sending, Ending
  <2>4. QED
    BY <1>2, <2>2, <2>3, AnswerKeeps
<1>5. QED
  BY <1>3, <1>4

LEMMA ListTaken ==
    ASSUME SyncInv, Device, pc = "dents"
    PROVE  SyncInv' /\ UNCHANGED device
<1>1. toDev = <<Msg("LIST", 1, 0)>> /\ fromDev = <<>>
  <2>1. ~closed /\ toDev # <<>>
    BY DEF Device
  <2>2. QED
    BY <2>1 DEF SyncInv, Flow, Asked
<1>2. Head(toDev).cmd = "LIST"
  BY <1>1, SMTT(60) DEF Msg
<1>3. DeviceList(Head(toDev))
  BY <1>2 DEF Device, DeviceStat, DeviceStore, DeviceSend, DeviceQuit
<1>4. PICK names \in Listings(remote) :
          fromDev' = fromDev \o ([j \in DOMAIN names |-> Msg("DENT", names[j], 0)] \o <<Msg("DONE", 0, 0)>>)
  BY <1>3 DEF DeviceList, Reply
<1>5. UNCHANGED <<device, closed>>
  BY <1>3 DEF DeviceList
<1> DEFINE dents == [j \in DOMAIN names |-> Msg("DENT", names[j], 0)]
<1>6. dents \in Seq(FromDevice)
  <2>1. names \in Seq(Files)
    BY ListingTypes
  <2>2. \A f \in Files : Msg("DENT", f, 0) \in FromDevice
    BY FileFacts DEF FromDevice, Msg
  <2>3. QED
    BY <2>1, <2>2
<1>7. <<Msg("DONE", 0, 0)>> \in Seq(FromDevice)
  BY FileFacts DEF FromDevice, Msg
<1>8. fromDev' = fromDev \o (dents \o <<Msg("DONE", 0, 0)>>)
  BY <1>4
<1> HIDE DEF dents
<1>9. fromDev' \in Seq(FromDevice)
  BY <1>1, <1>6, <1>7, <1>8
<1>10. pc' = "dents" /\ toDev' = Tail(toDev) /\ closed = FALSE
  BY DeviceFacts
<1>11. toDev' = <<>>
  BY <1>1, <1>10
<1>12. Flow'
  BY <1>10, <1>11 DEF Flow, Asked, Sending, Ending
<1>13. QED
  BY <1>5, <1>9, <1>10, <1>12, AnswerKeeps

\* A file is sent whole, or a beginning of it and a refusal.
LEMMA SentIsComing ==
    ASSUME NEW data \in Seq(Chunks), NEW chunks, chunks = [j \in DOMAIN data |-> Msg("DATA", 1, data[j])]
    PROVE  /\ Append(chunks, Msg("DONE", 1, 0)) \in Seq(FromDevice)
           /\ Coming(Append(chunks, Msg("DONE", 1, 0)), <<>>, data)
           /\ \A j \in 0..Len(chunks) : /\ Append(SubSeq(chunks, 1, j), Fail) \in Seq(FromDevice)
                                        /\ Coming(Append(SubSeq(chunks, 1, j), Fail), <<>>, data)
<1>1. PICK n \in Nat : n = Len(data) /\ DOMAIN data = 1..n
  OBVIOUS
<1>2. \A c \in Chunks : Msg("DATA", 1, c) \in FromDevice
  BY FileFacts DEF FromDevice, Msg
<1>3. chunks \in Seq(FromDevice) /\ Len(chunks) = n
  BY <1>1, <1>2
<1>4. Msg("DONE", 1, 0) \in FromDevice /\ Fail \in FromDevice
  BY FileFacts DEF FromDevice, Msg, Fail
<1>5. Len(<<>>) = 0 /\ \A i \in 1..n : chunks[i] = Msg("DATA", 1, data[0 + i])
  BY <1>1
<1>6. Coming(Append(chunks, Msg("DONE", 1, 0)), <<>>, data)
  <2> DEFINE from == Append(chunks, Msg("DONE", 1, 0))
  <2>1. Len(from) = n + 1 /\ from[n + 1] = Msg("DONE", 1, 0) /\ \A i \in 1..n : from[i] = chunks[i]
    BY <1>3, <1>4
  <2> HIDE DEF from
  <2>2. Coming(from, <<>>, data)
    BY <1>1, <1>5, <2>1 DEF Coming
  <2>3. QED
    BY <2>2 DEF from
<1>7. ASSUME NEW j \in 0..Len(chunks)
      PROVE  /\ Append(SubSeq(chunks, 1, j), Fail) \in Seq(FromDevice)
             /\ Coming(Append(SubSeq(chunks, 1, j), Fail), <<>>, data)
  <2> DEFINE part == SubSeq(chunks, 1, j)
             from == Append(part, Fail)
  <2>1. part \in Seq(FromDevice) /\ Len(part) = j /\ (\A i \in 1..j : part[i] = chunks[i]) /\ j \in Nat /\ j <= n
    BY <1>3, <1>7
  <2> HIDE DEF part
  <2>2. Len(from) = j + 1 /\ from[j + 1] = Fail /\ \A i \in 1..j : from[i] = part[i]
    BY <1>4, <2>1
  <2>3. from \in Seq(FromDevice)
    BY <1>4, <2>1
  <2> HIDE DEF from
  <2>4. \A i \in 1..j : from[i] = Msg("DATA", 1, data[0 + i])
    BY <1>5, <2>1, <2>2
  <2>5. Coming(from, <<>>, data)
    BY <1>1, <1>5, <2>1, <2>2, <2>4 DEF Coming
  <2>6. QED
    BY <2>3, <2>5 DEF from, part
<1>8. Append(chunks, Msg("DONE", 1, 0)) \in Seq(FromDevice)
  BY <1>3, <1>4
<1>9. QED
  BY <1>6, <1>7, <1>8

LEMMA RecvTaken ==
    ASSUME SyncInv, Device, pc \in {"first", "more"}
    PROVE  SyncInv' /\ UNCHANGED device
<1>1. pc = "first" /\ toDev = <<Msg("RECV", 1, 0)>> /\ fromDev = <<>>
  <2>1. ~closed /\ toDev # <<>>
    BY DEF Device
  <2>2. QED
    BY <2>1 DEF SyncInv, Flow, Download
<1>2. Head(toDev) = Msg("RECV", 1, 0)
  BY <1>1
<1>3. DeviceSend(Head(toDev))
  <2>1. Head(toDev).cmd = "RECV"
    BY <1>2 DEF Msg
  <2>2. QED
    BY <2>1 DEF Device, DeviceStat, DeviceStore, DeviceList, DeviceQuit
<1>4. PICK data \in Seq(Chunks) : data = remote[1].data
  BY ReceivingFacts
<1>5. PICK chunks : chunks = [j \in DOMAIN data |-> Msg("DATA", 1, data[j])]
  BY Zenon
<1>6. /\ UNCHANGED <<device, closed>>
      /\ \/ fromDev' = fromDev \o Append(chunks, Msg("DONE", 1, 0))
         \/ \E j \in 0..Len(chunks) : fromDev' = fromDev \o Append(SubSeq(chunks, 1, j), Fail)
  <2>1. Head(toDev).f = 1
    BY <1>2 DEF Msg
  <2>2. QED
    BY <1>3, <1>4, <1>5, <2>1, Zenon DEF DeviceSend, Reply
<1>7. PICK from \in Seq(FromDevice) : Coming(from, <<>>, data) /\ fromDev' = fromDev \o from
  BY <1>5, <1>6, SentIsComing
<1>8. fromDev' = from /\ fromDev' \in Seq(FromDevice)
  BY <1>1, <1>7
<1>9. /\ toDev' = Tail(toDev) /\ closed = FALSE
      /\ UNCHANGED <<op, pc, local, buffer, remote>>
  BY <1>6, DeviceFacts DEF device
<1>10. toDev' = <<>>
  BY <1>1, <1>9
<1>11. Sink = <<>>
  BY <1>1, ReceivingFacts DEF SyncInv, Received, Sink, Ending
<1>12. Sink' = <<>>
  BY <1>9, <1>11 DEF Sink
<1>13. Coming(fromDev', Sink', remote'[1].data)
  BY <1>4, <1>7, <1>8, <1>9, <1>12
<1>14. Download'
  BY <1>10, <1>13 DEF Download, Coming, Fail, Msg
<1>15. Flow'
  BY <1>1, <1>9, <1>14 DEF Flow, Sending, Ending
<1>16. QED
  BY <1>6, <1>8, <1>9, <1>15, AnswerKeeps

\* After the operation is settled, adbd ignores what is left of it, or closes.
LEMMA RestTaken ==
    ASSUME SyncInv, Device, pc \in Ending
    PROVE  SyncInv' /\ UNCHANGED device
<1>1. /\ closed = FALSE /\ storing = 0 /\ UNCHANGED pc /\ Len(toDev) > 0 /\ toDev \in Seq(ToDevice)
      /\ Head(toDev) = toDev[1] /\ toDev' = Tail(toDev) /\ fromDev \in Seq(FromDevice)
  BY DeviceFacts DEF Sending, Ending
<1>2. Over
  BY <1>1 DEF SyncInv, Flow
<1>3. Head(toDev).cmd \in {"DATA", "DONE", "QUIT"}
  BY <1>1, <1>2, SMTT(60) DEF Over
<1>4. UNCHANGED <<device, fromDev>> /\ closed' \in BOOLEAN
  BY <1>1, <1>3 DEF Device, DeviceStat, DeviceStore, DeviceSend, DeviceList, DeviceQuit, device
<1>5. Over'
  <2>1. \A i \in 1..Len(toDev') : i + 1 \in 1..Len(toDev) /\ toDev'[i] = toDev[i + 1]
    BY <1>1
  <2>2. QED
    BY <1>2, <2>1 DEF Over
<1>6. Flow'
  BY <1>1, <1>5 DEF Flow, Sending, Ending
<1>7. QED
  BY <1>1, <1>4, <1>6, AnswerKeeps

-------------------------------------------------------------------------------
(* adbd stores the file the host is at.                                    *)

LEMMA StoreKeeps ==
    ASSUME SyncInv, Device, pc \in Sending, closed' = closed, fromDev' \in Seq(FromDevice),
           remote' \in [Files -> FileTypes], \A f \in Files \ {Current} : remote'[f] = remote[f],
           storing' \in {0, Current}, Upload'
    PROVE  SyncInv'
<1>1. /\ UNCHANGED <<op, kind, list, pc, at, chunk, flag, local, buffer, len, cut, result>> /\ closed = FALSE
  BY DeviceFacts
<1>2. /\ Pushing /\ at \in 1..Len(list) /\ list \in Seq(Files) /\ Current = list[at] /\ Current \in Files
      /\ Current \notin flag /\ Handled = 1..(at - 1)
  BY SendingFacts
<1>3. TypeInv'
  <2>1. storing' \in 0..NumFiles
    BY <1>2, FileFacts
  <2>2. QED
    BY <1>1, <2>1, DeviceTypes
<1>4. Flow'
  BY <1>1 DEF Flow, Sending, Ending
<1>5. Storing'
  BY <1>1, <1>2 DEF Storing, Pushing
<1>6. Stored'
  <2>1. flag \subseteq Files \ {Current}
    BY <1>2 DEF SyncInv, TypeInv, Lists, Range
  <2>2. \A i \in 1..(at - 1) : list[i] \in Files \ {Current}
    <3>1. SUFFICES ASSUME NEW i \in 1..(at - 1) PROVE list[i] \in Files /\ list[i] # list[at]
      BY <1>2
    <3>2. i \in DOMAIN list /\ at \in DOMAIN list /\ i # at
      BY <1>2
    <3>3. QED
      BY <1>2, <3>2 DEF SyncInv, TypeInv, Lists
  <2>3. \A f \in flag : Alike(f)
    BY <1>2 DEF SyncInv, Stored
  <2>4. \A i \in 1..(at - 1) : list[i] \in flag \/ Whole(list[i])
    BY <1>2 DEF SyncInv, Stored
  <2>5. Handled' = 1..(at - 1)
    BY <1>1 DEF Handled
  <2>6. QED
    BY <1>1, <2>1, <2>2, <2>3, <2>4, <2>5 DEF Stored, Alike, Whole, WholeOrCut
<1>7. Received'
  BY <1>1, <1>2, PushingReceives DEF SyncInv
<1>8. QED
  BY <1>3, <1>4, <1>5, <1>6, <1>7 DEF SyncInv

\* adbd takes the next message about the file.
LEMMA NextTaken ==
    ASSUME SyncInv, Device, pc \in Sending
    PROVE  /\ Upload /\ Taken \in Nat /\ Written \in Nat /\ Taken < Written
           /\ Taken' = Taken + 1 /\ Written' = Written /\ Current' = Current
           /\ \A k \in Nat : k = Taken => toDev[1] = Wire(k + 1)
           /\ \A n \in (Taken' + 1)..Written' : toDev'[n - Taken'] = Wire(n)'
           /\ (Taken' = Written => toDev' = <<>>)
<1>1. UNCHANGED <<op, list, pc, at, chunk, local>> /\ closed = FALSE
  BY DeviceFacts
<1>2. Upload /\ Written \in Nat
  BY <1>1, SendingFacts
<1>3. PICK to \in Seq(ToDevice) : to = toDev /\ Len(to) > 0 /\ toDev' = Tail(to)
  BY DeviceFacts
<1>4. PICK k \in Nat, w \in Nat : k = Taken /\ w = Written /\ Len(to) = w - k /\ k < w
  <2>1. Taken >= 0 /\ Taken = Written - Len(to)
    BY <1>2, <1>3 DEF Upload, Taken
  <2>2. Taken \in Nat /\ Len(to) = Written - Taken /\ Taken < Written
    BY <1>2, <1>3, <2>1
  <2>3. QED
    BY <1>2, <2>2
<1>5. \A n \in (k + 1)..w : to[n - k] = Wire(n)
  BY <1>2, <1>3, <1>4 DEF Upload
<1>6. Written' = w /\ Current' = Current /\ \A n : Wire(n)' = Wire(n)
  BY <1>1, <1>4 DEF Written, Current, Wire
<1>7. Len(toDev') = Len(to) - 1 /\ \A i \in 1..(Len(to) - 1) : toDev'[i] = to[i + 1]
  BY <1>3
<1>8. Taken' = k + 1
  <2>1. Taken' = w - Len(toDev')
    BY <1>6 DEF Taken
  <2>2. QED
    BY <1>4, <1>7, <2>1
<1>9. \A n \in (k + 2)..w : toDev'[n - (k + 1)] = Wire(n)
  <2>1. SUFFICES ASSUME NEW n \in (k + 2)..w PROVE toDev'[n - (k + 1)] = Wire(n)
    OBVIOUS
  <2>2. n - (k + 1) \in 1..(Len(to) - 1) /\ (n - (k + 1)) + 1 = n - k /\ n \in (k + 1)..w
    BY <1>4
  <2>3. QED
    BY <1>5, <1>7, <2>2
<1>10. to[1] = Wire(k + 1)
  <2>1. k + 1 \in (k + 1)..w /\ (k + 1) - k = 1
    BY <1>4
  <2>2. QED
    BY <1>5, <2>1
<1>11. k + 1 = w => toDev' = <<>>
  <2>1. toDev' \in Seq(ToDevice)
    BY DeviceFacts
  <2>2. k + 1 = w => Len(toDev') = 0
    BY <1>4, <1>7
  <2>3. QED
    BY <2>1, <2>2
<1>12. (k + 1) + 1 = k + 2
  OBVIOUS
<1>13. \A n \in (Taken' + 1)..Written' : toDev'[n - Taken'] = Wire(n)'
  BY <1>6, <1>8, <1>9, <1>12, Zenon
<1>14. QED
  BY <1>2, <1>3, <1>4, <1>6, <1>8, <1>10, <1>11, <1>13

LEMMA NextUpload ==
    ASSUME SyncInv, Device, pc \in Sending, NEW t \in Nat, t = Taken + 1,
           \/ /\ t <= chunk + 1 /\ storing' = Current /\ fromDev' = <<>>
              /\ remote'[Current].data = SubSeq(local[Current].data, 1, t - 1)
           \/ storing' = 0 /\ fromDev' = <<Fail>>
           \/ /\ pc = "status" /\ toDev' = <<>> /\ storing' = 0 /\ fromDev' = <<Msg("OKAY", 0, 0)>>
              /\ remote'[Current].time = local[Current].time
              /\ WholeOrCut(Current, remote'[Current].data, local[Current].data)
    PROVE  Upload'
<1>1. /\ Taken' = t /\ Current' = Current
      /\ \A n \in (Taken' + 1)..Written' : toDev'[n - Taken'] = Wire(n)'
  BY NextTaken
<1>2. UNCHANGED <<local, chunk, pc, cut>>
  BY DeviceFacts
<1>3. t > 0
  BY NextTaken
<1>4. t >= 0
  OBVIOUS
<1>5. Taken' > 0 /\ Taken' >= 0
  BY <1>1, <1>3, <1>4
<1>6. CASE /\ t <= chunk + 1 /\ storing' = Current /\ fromDev' = <<>>
           /\ remote'[Current].data = SubSeq(local[Current].data, 1, t - 1)
  <2>1. \A c \in Nat : t <= c + 1 => t \in 1..(c + 1)
    BY <1>3
  <2>2. t \in 1..(chunk + 1)
    BY <1>6, <2>1, SendingFacts
  <2>3. /\ Taken' \in 1..(chunk' + 1) /\ storing' = Current' /\ fromDev' = <<>>
        /\ remote'[Current'].data = SubSeq(local'[Current'].data, 1, Taken' - 1)
    BY <1>1, <1>2, <1>6, <2>2
  <2>4. QED
    BY <1>1, <1>5, <2>3 DEF Upload
<1>7. CASE storing' = 0 /\ fromDev' = <<Fail>>
  BY <1>1, <1>5, <1>7 DEF Upload, Fail, Msg
<1>8. CASE /\ pc = "status" /\ toDev' = <<>> /\ storing' = 0 /\ fromDev' = <<Msg("OKAY", 0, 0)>>
           /\ remote'[Current].time = local[Current].time
           /\ WholeOrCut(Current, remote'[Current].data, local[Current].data)
  <2>1. Whole(Current)'
    BY <1>1, <1>2, <1>8 DEF Whole, WholeOrCut
  <2>2. pc' = "status"
    BY <1>2, <1>8
  <2>3. QED
    BY <1>1, <1>5, <1>8, <2>1, <2>2 DEF Upload, Msg
<1>9. QED
  BY <1>6, <1>7, <1>8

\* The file in work begins, grows, is whole or cut short, or is removed.
StoreStep ==
    /\ remote' = [remote EXCEPT ![Current] = remote'[Current]]
    /\ \/ /\ storing \in {0, Current} /\ storing' = Current
          /\ Beginning(remote'[Current].data, local[Current].data)
          /\ storing = Current => Beginning(remote[Current].data, remote'[Current].data)
       \/ /\ storing = Current /\ storing' = 0
          /\ \/ remote'[Current].data \in {<<>>, local[Current].data}
             \/ Current \in cut /\ remote'[Current].data = remote[Current].data

\* It is refused: now, or before.
LEMMA RefusedKeeps ==
    ASSUME SyncInv, Device, pc \in Sending, closed' = closed, fromDev' = <<Fail>>,
           remote' = remote \/ remote' = [remote EXCEPT ![Current] = Absent], storing' = 0
    PROVE  SyncInv'
<1>1. Fail \in FromDevice
  BY FileFacts DEF FromDevice, Msg, Fail
<1>2. fromDev' \in Seq(FromDevice)
  BY <1>1
<1>3. remote' \in [Files -> FileTypes] /\ \A f \in Files \ {Current} : remote'[f] = remote[f]
  BY DeviceFacts, SendingFacts, ContentTypes
<1>4. PICK t \in Nat : t = Taken + 1
  BY NextTaken
<1>5. Upload'
  BY <1>4, NextUpload
<1>6. QED
  BY <1>2, <1>3, <1>5, StoreKeeps

LEMMA SendTaken ==
    ASSUME SyncInv, Device, pc \in Sending, Taken = 0
    PROVE  SyncInv' /\ (StoreStep \/ UNCHANGED device)
<1>1. Head(toDev) = Msg("SEND", Current, 0) /\ storing = 0 /\ fromDev = <<>>
  <2>1. toDev # <<>> /\ Upload
    BY NextTaken DEF Device
  <2>2. storing = 0 /\ fromDev = <<>>
    BY <2>1 DEF Upload
  <2>3. toDev[1] = Wire(0 + 1)
    BY NextTaken
  <2>4. Head(toDev) = Msg("SEND", Current, 0)
    BY <2>3, DeviceFacts DEF Wire
  <2>5. QED
    BY <2>2, <2>4
<1>2. Head(toDev).cmd = "SEND" /\ Head(toDev).f = Current
  BY <1>1 DEF Msg
<1>3. /\ closed' = closed
      /\ \/ storing' = Current /\ remote' = [remote EXCEPT ![Current] = Absent] /\ fromDev' = <<>>
         \/ storing' = 0 /\ fromDev' = <<>> \o <<Fail>> /\ remote' = remote
  <2>1. DeviceStore(Head(toDev))
    BY <1>2 DEF Device, DeviceStat, DeviceSend, DeviceList, DeviceQuit
  <2>2. QED
    BY <1>1, <1>2, <2>1, SMTT(60) DEF DeviceStore, Keep, Reply
<1>4. CASE storing' = Current /\ remote' = [remote EXCEPT ![Current] = Absent] /\ fromDev' = <<>>
  <2>1. remote' \in [Files -> FileTypes] /\ (\A f \in Files \ {Current} : remote'[f] = remote[f]) /\ remote'[Current] = Absent
    BY <1>4, DeviceFacts, SendingFacts, ContentTypes
  <2>2. fromDev' \in Seq(FromDevice)
    BY <1>4
  <2>3. local[Current].data \in Seq(Chunks) /\ 1 = Taken + 1 /\ 1 <= chunk + 1
    BY SendingFacts DEF FileTypes
  <2>4. remote'[Current].data = SubSeq(local[Current].data, 1, 1 - 1)
    BY <2>1, <2>3 DEF Absent
  <2>5. Upload'
    BY <1>4, <2>3, <2>4, NextUpload
  <2>6. Beginning(remote'[Current].data, local[Current].data)
    <3>1. remote'[Current].data = <<>> /\ Len(<<>>) = 0 /\ SubSeq(local[Current].data, 1, 0) = <<>>
      BY <2>1, <2>3 DEF Absent
    <3>2. Len(local[Current].data) >= 0
      BY <2>3
    <3>3. QED
      BY <3>1, <3>2 DEF Beginning
  <2>7. StoreStep
    <3>1. Current # 0
      BY SendingFacts, FileFacts
    <3>2. remote' = [remote EXCEPT ![Current] = remote'[Current]]
      BY <1>4, <2>1
    <3>3. QED
      BY <1>1, <1>4, <2>6, <3>1, <3>2 DEF StoreStep
  <2>8. QED
    BY <1>3, <1>4, <2>1, <2>2, <2>5, <2>7, StoreKeeps
<1>5. CASE storing' = 0 /\ fromDev' = <<>> \o <<Fail>> /\ remote' = remote
  <2>1. fromDev' = <<Fail>>
    BY <1>5
  <2>2. storing' = storing
    BY <1>1, <1>5
  <2>3. QED
    BY <1>3, <1>5, <2>1, <2>2, RefusedKeeps DEF device
<1>6. QED
  BY <1>3, <1>4, <1>5

\* What was refused before is ignored.
LEMMA IgnoredTaken ==
    ASSUME SyncInv, Device, pc \in Sending, Taken > 0, storing = 0
    PROVE  SyncInv' /\ UNCHANGED device
<1>1. PICK k \in Nat : k = Taken /\ k > 0 /\ toDev[1] = Wire(k + 1)
  BY NextTaken
<1>2. fromDev = <<Fail>>
  <2>1. toDev # <<>> /\ Upload /\ Current # 0
    BY NextTaken, SendingFacts, FileFacts DEF Device
  <2>2. QED
    BY <2>1 DEF Upload
<1>3. Head(toDev).cmd \in {"DATA", "DONE"}
  <2>1. k + 1 # 1
    BY <1>1, SMTT(60)
  <2>2. QED
    BY <1>1, <2>1, DeviceFacts DEF Wire, Msg
<1>4. UNCHANGED <<storing, remote, fromDev, closed>>
  BY <1>3 DEF Device, DeviceStat, DeviceSend, DeviceList, DeviceQuit, DeviceStore
<1>5. QED
  BY <1>2, <1>4, RefusedKeeps DEF device

LEMMA DataTaken ==
    ASSUME SyncInv, Device, pc \in Sending, Taken > 0, storing # 0, Taken <= chunk
    PROVE  SyncInv' /\ StoreStep
<1>1. PICK k \in Nat, c \in Nat : k = Taken /\ c = chunk /\ k > 0 /\ k <= c /\ toDev[1] = Wire(k + 1)
  BY NextTaken, SendingFacts
<1>2. PICK data \in Seq(Chunks) : data = local[Current].data /\ c <= Len(data)
  BY <1>1, SendingFacts DEF FileTypes
<1>3. storing = Current /\ fromDev = <<>> /\ remote[Current].data = SubSeq(data, 1, k - 1)
  <2>1. Upload /\ toDev # <<>>
    BY NextTaken DEF Device
  <2>2. QED
    BY <1>1, <1>2, <2>1 DEF Upload
<1>4. Head(toDev) = Msg("DATA", Current, data[k])
  <2>1. k + 1 # 1 /\ k + 1 <= c + 1 /\ (k + 1) - 1 = k
    BY <1>1
  <2>2. QED
    BY <1>1, <1>2, <2>1, DeviceFacts DEF Wire
<1>5. Head(toDev).cmd = "DATA" /\ Head(toDev).v = data[k]
  BY <1>4 DEF Msg
<1> DEFINE more == [remote[Current] EXCEPT !.data = Append(remote[Current].data, data[k])]
<1>6. /\ closed' = closed
      /\ \/ remote' = [remote EXCEPT ![Current] = more] /\ storing' = Current /\ fromDev' = <<>>
         \/ storing' = 0 /\ remote' = [remote EXCEPT ![Current] = Absent] /\ fromDev' = <<>> \o <<Fail>>
  <2>1. DeviceStore(Head(toDev))
    BY <1>5 DEF Device, DeviceStat, DeviceSend, DeviceList, DeviceQuit
  <2>2. QED
    BY <1>3, <1>5, <2>1 DEF DeviceStore, Keep, Reply
<1>7. CASE remote' = [remote EXCEPT ![Current] = more] /\ storing' = Current /\ fromDev' = <<>>
  <2>1. k \in 1..Len(data) /\ data[k] \in Chunks
    BY <1>1, <1>2
  <2>2. more \in FileTypes /\ more.data = Append(remote[Current].data, data[k])
    <3>1. PICK r \in FileTypes : r = remote[Current]
      BY SendingFacts
    <3>2. PICK new \in Seq(Chunks) : new = Append(r.data, data[k])
      <4>1. r.data \in Seq(Chunks)
        BY DEF FileTypes
      <4>2. Append(r.data, data[k]) \in Seq(Chunks)
        BY <2>1, <4>1
      <4>3. QED
        BY <4>2
    <3>3. [r EXCEPT !.data = new] \in FileTypes /\ [r EXCEPT !.data = new].data = new
      BY DEF FileTypes
    <3>4. QED
      BY <3>1, <3>2, <3>3
  <2> HIDE DEF more
  <2>3. remote' \in [Files -> FileTypes] /\ (\A f \in Files \ {Current} : remote'[f] = remote[f]) /\ remote'[Current] = more
    BY <1>7, <2>2, DeviceFacts, SendingFacts
  <2>4. Append(SubSeq(data, 1, k - 1), data[k]) = SubSeq(data, 1, k)
    BY <1>1, <2>1
  <2>5. remote'[Current].data = SubSeq(data, 1, (k + 1) - 1)
    <3>1. (k + 1) - 1 = k
      OBVIOUS
    <3>2. QED
      BY <1>3, <2>2, <2>3, <2>4, <3>1
  <2>6. k + 1 \in Nat /\ k + 1 = Taken + 1 /\ k + 1 <= chunk + 1
    BY <1>1
  <2>7. Upload'
    BY <1>2, <1>7, <2>5, <2>6, NextUpload
  <2>8. fromDev' \in Seq(FromDevice)
    BY <1>7
  <2>9. /\ Beginning(remote'[Current].data, local[Current].data)
        /\ Beginning(remote[Current].data, remote'[Current].data)
    <3>1. \A d \in Seq(Chunks), m \in Nat : m <= Len(d) => Len(SubSeq(d, 1, m)) = m
      OBVIOUS
    <3>2. k - 1 \in Nat /\ k - 1 <= k /\ k <= Len(data)
      BY <1>1, <1>2
    <3>3. Len(SubSeq(data, 1, k)) = k /\ Len(SubSeq(data, 1, k - 1)) = k - 1
      BY <3>1, <3>2
    <3>4. SubSeq(SubSeq(data, 1, k), 1, k - 1) = SubSeq(data, 1, k - 1)
      BY <3>2
    <3>5. remote'[Current].data = SubSeq(data, 1, k)
      BY <1>3, <2>2, <2>3, <2>4
    <3>6. QED
      BY <1>2, <1>3, <3>2, <3>3, <3>4, <3>5 DEF Beginning
  <2>10. StoreStep
    <3>1. remote' = [remote EXCEPT ![Current] = remote'[Current]]
      BY <1>7, <2>3
    <3>2. QED
      BY <1>3, <1>7, <2>9, <3>1 DEF StoreStep
  <2>11. QED
    BY <1>6, <1>7, <2>3, <2>7, <2>8, <2>10, StoreKeeps
<1>8. CASE storing' = 0 /\ remote' = [remote EXCEPT ![Current] = Absent] /\ fromDev' = <<>> \o <<Fail>>
  <2>1. fromDev' = <<Fail>>
    BY <1>8
  <2>2. StoreStep
    <3>1. remote'[Current] = Absent /\ Absent.data = <<>>
      BY <1>8, DeviceFacts, SendingFacts DEF Absent
    <3>2. remote' = [remote EXCEPT ![Current] = remote'[Current]]
      BY <1>8, <3>1
    <3>3. QED
      BY <1>3, <1>8, <3>1, <3>2 DEF StoreStep
  <2>3. QED
    BY <1>6, <1>8, <2>1, <2>2, RefusedKeeps
<1>9. QED
  BY <1>6, <1>7, <1>8

LEMMA DoneTaken ==
    ASSUME SyncInv, Device, pc \in Sending, storing # 0, Taken > chunk
    PROVE  SyncInv' /\ StoreStep
<1>1. PICK k \in Nat, c \in Nat : k = Taken /\ c = chunk /\ k > c /\ k < Written /\ toDev[1] = Wire(k + 1)
  BY NextTaken, SendingFacts
<1>2. k = c + 1 /\ pc = "status" /\ Written = k + 1
  BY <1>1 DEF Written
<1>3. PICK r \in FileTypes, mine \in FileTypes : r = remote[Current] /\ mine = local[Current] /\ c <= Len(mine.data)
  BY <1>1, SendingFacts
<1>4. storing = Current /\ fromDev = <<>> /\ r.data = SubSeq(mine.data, 1, k - 1)
  <2>1. Upload /\ toDev # <<>>
    BY NextTaken DEF Device
  <2>2. k > 0
    BY <1>2
  <2>3. QED
    BY <1>1, <1>3, <2>1, <2>2 DEF Upload
<1>5. Head(toDev) = Msg("DONE", Current, mine.time)
  <2>1. k + 1 # 1 /\ ~(k + 1 <= c + 1)
    BY <1>1
  <2>2. QED
    BY <1>1, <1>3, <2>1, DeviceFacts DEF Wire
<1>6. Head(toDev).cmd = "DONE" /\ Head(toDev).v = mine.time
  BY <1>5 DEF Msg
<1> DEFINE new == [r EXCEPT !.time = mine.time]
<1>7. /\ closed' = closed /\ remote' = [remote EXCEPT ![Current] = new] /\ storing' = 0
      /\ fromDev' = <<>> \o <<Msg("OKAY", 0, 0)>>
  <2>1. DeviceStore(Head(toDev))
    BY <1>6 DEF Device, DeviceStat, DeviceSend, DeviceList, DeviceQuit
  <2>2. QED
    BY <1>3, <1>4, <1>6, <2>1, SMTT(60) DEF DeviceStore, Keep, Reply
<1>8. new \in FileTypes /\ new.data = r.data /\ new.time = mine.time
  BY DEF FileTypes
<1> HIDE DEF new
<1>9. remote' \in [Files -> FileTypes] /\ (\A f \in Files \ {Current} : remote'[f] = remote[f]) /\ remote'[Current] = new
  BY <1>7, <1>8, DeviceFacts, SendingFacts
<1>10. new.data = mine.data \/ Current \in cut
  <2>1. mine.data \in Seq(Chunks) /\ k - 1 = c
    BY <1>2 DEF FileTypes
  <2>2. c = Len(mine.data) \/ Current \in cut
    BY <1>1, <1>2, <1>3, DeviceFacts DEF SyncInv, TypeInv, Places, Sending, Current
  <2>3. ASSUME c = Len(mine.data) PROVE new.data = mine.data
    BY <1>4, <1>8, <2>1, <2>3
  <2>4. QED
    BY <2>2, <2>3
<1>11. fromDev' = <<Msg("OKAY", 0, 0)>> /\ Msg("OKAY", 0, 0) \in FromDevice
  BY <1>7, FileFacts DEF FromDevice, Msg
<1>12. toDev' = <<>>
  BY <1>1, <1>2, NextTaken
<1>13. Upload'
  <2>1. k + 1 \in Nat /\ k + 1 = Taken + 1
    BY <1>1
  <2>2. new.data = mine.data \/ (Current \in cut /\ Beginning(new.data, mine.data))
    <3>1. mine.data \in Seq(Chunks) /\ k - 1 = c /\ c <= Len(mine.data)
      BY <1>2, <1>3 DEF FileTypes
    <3>2. Beginning(new.data, mine.data)
      <4>1. new.data = SubSeq(mine.data, 1, c)
        BY <1>4, <1>8, <3>1
      <4>2. Len(SubSeq(mine.data, 1, c)) = c
        BY <1>1, <3>1
      <4>3. QED
        BY <3>1, <4>1, <4>2 DEF Beginning
    <3>3. QED
      BY <1>10, <3>2
  <2>3. remote'[Current].time = local[Current].time /\ WholeOrCut(Current, remote'[Current].data, local[Current].data)
    BY <1>3, <1>8, <1>9, <2>2 DEF WholeOrCut
  <2>4. QED
    BY <1>2, <1>3, <1>7, <1>11, <1>12, <2>1, <2>3, NextUpload
<1>14. fromDev' \in Seq(FromDevice)
  BY <1>11
<1>15. StoreStep
  <2>1. remote' = [remote EXCEPT ![Current] = remote'[Current]]
    BY <1>7, <1>9
  <2>2. remote'[Current].data = local[Current].data
        \/ (Current \in cut /\ remote'[Current].data = remote[Current].data)
    BY <1>3, <1>8, <1>9, <1>10
  <2>3. QED
    BY <1>4, <1>7, <2>1, <2>2 DEF StoreStep
<1>16. QED
  BY <1>2, <1>7, <1>9, <1>13, <1>14, <1>15, StoreKeeps

\* What adbd does with a message: it keeps the invariant, and stores as it should.
LEMMA DeviceTakes ==
    ASSUME SyncInv, Device
    PROVE  SyncInv' /\ ((pc \in Sending /\ StoreStep) \/ UNCHANGED device)
<1>1. CASE pc \in {"connect", "stat", "send", "recv", "list"}
  <2>1. ~closed /\ toDev # <<>>
    BY DEF Device
  <2>2. QED
    BY <1>1, <2>1 DEF SyncInv, Flow, Idle
<1>2. CASE pc \in Sending
  <2>1. Taken \in Nat /\ chunk \in Nat
    BY <1>2, NextTaken, SendingFacts
  <2>2. Taken = 0 \/ (Taken > 0 /\ (Taken <= chunk \/ Taken > chunk))
    BY <2>1
  <2>3. QED
    BY <1>2, <2>2, SendTaken, IgnoredTaken, DataTaken, DoneTaken
<1>3. pc \in Labels
  BY DEF SyncInv, TypeInv, Places
<1>4. QED
  BY <1>1, <1>2, <1>3, StatTaken, QuestionsTaken, ListTaken, RecvTaken, RestTaken DEF Labels

LEMMA StutterKeeps == SyncInv /\ UNCHANGED vars => SyncInv'
<1> SUFFICES ASSUME SyncInv, UNCHANGED vars PROVE SyncInv'
  OBVIOUS
<1>1. UNCHANGED <<op, kind, list, pc, at, chunk, flag, local, remote, buffer, len, cut, result,
                  closed, toDev, fromDev, storing>>
  BY DEF vars, args, progress, files, stream, device
<1>2. TypeInv'
  BY <1>1 DEF SyncInv, TypeInv, Lists, Values, Places, Pushing
<1>3. Flow'
  <2>1. /\ Idle' = Idle /\ Over' = Over /\ Upload' = Upload /\ Download' = Download
        /\ Asked("STAT")' = Asked("STAT") /\ Asked("LIST")' = Asked("LIST")
    BY <1>1 DEF Idle, Over, Asked, Upload, Wire, Taken, Written, Current, Whole, WholeOrCut, Download, Sink
  <2>2. Questions(1, at - 1)' = Questions(1, at - 1) /\ Questions(at, Len(list))' = Questions(at, Len(list))
    BY <1>1 DEF Questions, Answer
  <2>3. QED
    BY <1>1, <2>1, <2>2 DEF SyncInv, Flow
<1>4. Storing'
  BY <1>1 DEF SyncInv, Storing, Pushing
<1>5. Stored'
  <2>1. Handled' = Handled /\ cut' \subseteq Range(list')
    BY <1>1 DEF Handled, SyncInv, TypeInv, Values
  <2>2. QED
    BY <1>1, <2>1, StoredKept DEF SyncInv
<1>6. Received'
  BY <1>1, ReceivedKept DEF SyncInv
<1>7. QED
  BY <1>2, <1>3, <1>4, <1>5, <1>6 DEF SyncInv

\* All that has been said holds in every reachable state, whatever adbd answers or
\* refuses and whenever the stream ends (file_class_sync_client.cpp 129-1272).
THEOREM SyncInvariance == Spec => []SyncInv
<1>1. SyncInv /\ [Next]_vars => SyncInv'
  <2> SUFFICES ASSUME SyncInv, [Next]_vars PROVE SyncInv'
    OBVIOUS
  <2>1. CASE Host
    BY <2>1, ConnectKeeps, StatKeeps, StatReplyKeeps, StartReadtimeKeeps, FinishReadtimeKeeps, SendKeeps,
       WriteDataKeeps, DoneKeeps, StatusKeeps, AskKeeps, CannotCreateKeeps, RecvDataKeeps, RemoteErrorKeeps,
       DentsKeeps, SyncQuitKeeps, FailsKeeps DEF Host
  <2>2. CASE Device
    BY <2>2, DeviceTakes
  <2>3. CASE Close
    BY <2>3, CloseKeeps
  <2>4. CASE UNCHANGED vars
    BY <2>4, StutterKeeps
  <2>5. QED
    BY <2>1, <2>2, <2>3, <2>4 DEF Next
<1>2. QED
  BY InitSyncInv, <1>1, PTL DEF Spec

-------------------------------------------------------------------------------
(* What a caller may rely on.                                              *)

LEMMA BeginningIsPrefix ==
    ASSUME NEW a \in Seq(Chunks), NEW b \in Seq(Chunks), Beginning(a, b)
    PROVE  IsPrefix(a, b)
<1>1. SubSeq(a, 1, Len(a)) = a
  OBVIOUS
<1>2. QED
  BY <1>1 DEF Beginning, IsPrefix

LEMMA SyncInvMeans ==
    SyncInv => TypeOK /\ PushSucceedsOnlyIfStored /\ SyncLeavesNoDifference /\ PulledIsWhole
<1> SUFFICES ASSUME SyncInv
             PROVE  TypeOK /\ PushSucceedsOnlyIfStored /\ SyncLeavesNoDifference /\ PulledIsWhole
  OBVIOUS
<1>1. TypeOK
  <2>1. Range(list) \subseteq Files /\ flag \subseteq Range(list) /\ at \in 1..(Len(list) + 1)
    BY DEF SyncInv, TypeInv, Lists, Range
  <2>2. chunk \in Nat /\ storing \in 0..NumFiles /\ len >= -1 /\ cut \subseteq Range(list) /\ closed \in BOOLEAN
    BY DEF SyncInv, TypeInv, Values
  <2>3. /\ op \in Ops /\ kind \in {"none", "file", "dir", "other"} /\ pc \in Labels
        /\ result \in {-1, 0, 1} /\ (pc = "returned" => result # -1)
        /\ pc \in Sending => at <= Len(list) /\ chunk <= Len(local[list[at]].data)
    BY DEF SyncInv, TypeInv, Places, Ending
  <2>4. QED
    BY <2>1, <2>2, <2>3 DEF TypeOK, Labels, Sending, Ending
<1>2. list \in Seq(Files)
  BY DEF SyncInv, TypeInv, Lists
<1>3. /\ local \in [Files -> FileTypes] /\ remote \in [Files -> FileTypes]
  BY DEF SyncInv, TypeInv, Values
<1>4. ASSUME Pushing, pc = "returned", result = 0, NEW f \in Range(list)
      PROVE  (f \in flag /\ Alike(f)) \/ Whole(f)
  <2>1. PICK i \in 1..Len(list) : f = list[i]
    BY <1>2 DEF Range
  <2>2. Handled = 1..Len(list)
    BY <1>4 DEF Handled, Sending
  <2>3. f \in flag \/ Whole(f)
    BY <1>4, <2>1, <2>2 DEF SyncInv, Stored
  <2>4. \A g \in flag : Alike(g)
    BY <1>4 DEF SyncInv, Stored
  <2>5. QED
    BY <2>3, <2>4
<1>5. ASSUME NEW f \in Range(list), Whole(f)
      PROVE  /\ remote[f].time = local[f].time /\ WholeUnlessCut(f, remote[f].data, local[f].data)
             /\ \/ Len(remote[f].data) = Len(local[f].data)
                \/ f \in cut /\ Len(remote[f].data) < Len(local[f].data)
  <2>1. PICK a \in Seq(Chunks), b \in Seq(Chunks) : a = remote[f].data /\ b = local[f].data
    <3>1. f \in Files
      BY <1>2 DEF Range
    <3>2. QED
      BY <1>3, <3>1 DEF FileTypes
  <2>2. remote[f].time = local[f].time /\ (a = b \/ (f \in cut /\ Beginning(a, b)))
    BY <1>5, <2>1 DEF Whole, WholeOrCut
  <2>3. a = b \/ (f \in cut /\ IsPrefix(a, b))
    BY <2>2, BeginningIsPrefix
  <2>4. Len(a) = Len(b) \/ (f \in cut /\ Len(a) < Len(b))
    BY <2>2 DEF Beginning
  <2>5. QED
    BY <2>1, <2>2, <2>3, <2>4 DEF WholeUnlessCut
<1>6. PushSucceedsOnlyIfStored
  <2>1. op # "sync" => flag = {}
    BY DEF SyncInv, TypeInv, Lists
  <2>2. QED
    BY <1>4, <1>5, <2>1 DEF PushSucceedsOnlyIfStored, Succeeded, Pushing
<1>7. SyncLeavesNoDifference
  BY <1>4, <1>5 DEF SyncLeavesNoDifference, Succeeded, Pushing, Alike
<1>8. PulledIsWhole
  <2>1. ASSUME Succeeded({"pull"}), kind = "file", local[1] # Absent
        PROVE  WholeUnlessCut(1, local[1].data, remote[1].data)
    <3>1. WholeOrCut(1, local[1].data, remote[1].data)
      BY <2>1 DEF Succeeded, SyncInv, Received
    <3>2. local[1].data \in Seq(Chunks) /\ remote[1].data \in Seq(Chunks)
      BY <1>3, FileFacts DEF FileTypes
    <3>3. QED
      BY <3>1, <3>2, BeginningIsPrefix DEF WholeOrCut, WholeUnlessCut
  <2>2. QED
    BY <2>1 DEF PulledIsWhole, Succeeded, SyncInv, Received
<1>9. QED
  BY <1>1, <1>6, <1>7, <1>8

\* In every reachable state of a transfer the variables have their types, and the
\* loops over the list and over a file stay within them, however many files there
\* are and whatever they hold (file_class_sync_client.cpp 296-316, 891-921).
THEOREM SyncTypeOK == Spec => []TypeOK
  BY SyncInvariance, SyncInvMeans, PTL

\* Whatever adbd refuses and whenever the stream is closed, a push that reports
\* success has stored every file it was about with its time, and whole unless it could
\* not be read to its end: then its beginning (file_class_sync_client.cpp 279-320, 435-468).
THEOREM SyncPushSucceedsOnlyIfStored == Spec => []PushSucceedsOnlyIfStored
  BY SyncInvariance, SyncInvMeans, PTL

\* After a sync that reports success both sides agree on the time and the size of
\* every file, or the device has less of one that could not be read to its end: the
\* answers to the questions, which carry no name, are matched to the right files
\* (file_class_sync_client.cpp 279-320, 890-921).
THEOREM SyncNoDifferenceIsLeft == Spec => []SyncLeavesNoDifference
  BY SyncInvariance, SyncInvMeans, PTL

\* A pull that reports success leaves the whole file, or none, or a beginning if the file
\* failed to close, and a buffer whose length is set holds the whole file (file_class_sync_client.cpp 580-628, 663-703).
THEOREM SyncPulledIsWhole == Spec => []PulledIsWhole
  BY SyncInvariance, SyncInvMeans, PTL

-------------------------------------------------------------------------------
(* Sync implements Transfer.                                               *)

LEMMA PromiseReturns ==
    ASSUME UNCHANGED <<Goal, Source, Store, cut>>, InWork' \subseteq InWork, result = -1,
           \/ result' = 1
           \/ /\ result' = 0 /\ InWork' = {}
              /\ \A f \in Goal : \/ Len(Store'[f]) \in {0, Len(Source[f])}
                                 \/ f \in cut /\ IsPrefix(Store'[f], Source[f])
    PROVE  Promised!Next
  BY DEF Promised!Next, Promised!Return, Promised!Success, Promised!IsPrefix, IsPrefix

LEMMA PromiseStutters ==
    ASSUME UNCHANGED <<Goal, Source, Store, InWork, cut, result>>
    PROVE  UNCHANGED Promised!transfer
  BY DEF Promised!transfer

\* The host settles the result once.
LEMMA ResultIsSettledOnce ==
    ASSUME SyncInv, Next
    PROVE  result' = result \/ (result = -1 /\ result' \in {0, 1})
<1>1. result' = result \/ (pc \notin Ending /\ result' \in {0, 1})
  <2>1. CASE SyncConnect \/ Stat \/ StatReply \/ StartReadtime \/ FinishReadtime
    BY <2>1 DEF SyncConnect, Stat, StatReply, StartReadtime, FinishReadtime, Goto, Quit, Return, Ending
  <2>2. CASE Send \/ WriteData \/ Done \/ Status
    BY <2>2 DEF Send, WriteData, Done, Status, Goto, Quit, Return, Ending
  <2>3. CASE Recv \/ CannotCreate \/ RecvData \/ RemoteError \/ List \/ Dents
    BY <2>3 DEF Recv, CannotCreate, RecvData, RemoteError, List, Dents, Goto, Quit, Return, Ending
  <2>4. CASE SyncQuit \/ Fails
    BY <2>4 DEF SyncQuit, Fails, Return, Ending
  <2>5. CASE Device \/ Close
    BY <2>5 DEF Device, Close
  <2>6. QED
    BY <2>1, <2>2, <2>3, <2>4, <2>5 DEF Next, Host
<1>2. pc \notin Ending => result = -1
  BY DEF SyncInv, TypeInv, Places
<1>3. QED
  BY <1>1, <1>2

\* Only what is received changes files here, and the host changes none there.
LEMMA HostKeepsFiles ==
    ASSUME Host
    PROVE  /\ UNCHANGED <<op, kind, list, remote, storing>>
           /\ pc \notin {"first", "more"} \/ Fails => UNCHANGED <<local, buffer, len>>
           /\ ~WriteData /\ ~RecvData => UNCHANGED cut
<1>1. CASE SyncConnect \/ Stat \/ StatReply \/ StartReadtime \/ FinishReadtime
  BY <1>1 DEF SyncConnect, Stat, StatReply, StartReadtime, FinishReadtime, args, files, device
<1>2. CASE Send \/ WriteData \/ Done \/ Status
  BY <1>2 DEF Send, WriteData, Done, Status, args, files, device
<1>3. CASE Recv \/ CannotCreate \/ List \/ Dents
  BY <1>3 DEF Recv, CannotCreate, List, Dents, args, files, device
<1>4. CASE RecvData
  <2>1. UNCHANGED <<op, kind, list, remote, storing>> /\ pc \in {"first", "more"} /\ ~closed
    BY <1>4 DEF RecvData, Read, Arrived, args, device
  <2>2. QED
    BY <1>4, <2>1 DEF Fails, Broken
<1>5. CASE RemoteError
  <2>1. UNCHANGED <<op, kind, list, remote, storing, cut>> /\ pc \in {"first", "more"} /\ ~closed
    BY <1>5 DEF RemoteError, Read, Arrived, args, device
  <2>2. QED
    BY <2>1 DEF Fails, Broken
<1>6. CASE SyncQuit \/ Fails
  BY <1>6 DEF SyncQuit, Fails, args, files, device
<1>7. QED
  BY <1>1, <1>2, <1>3, <1>4, <1>5, <1>6 DEF Host

\* A step of a push in which adbd stores nothing.
LEMMA PushMaps ==
    ASSUME SyncInv, SyncInv', Next, Pushing, UNCHANGED <<op, kind, list, local, remote, storing, cut>>
    PROVE  Promised!Next \/ UNCHANGED Promised!transfer
<1>1. UNCHANGED <<Goal, Source, Store, InWork>>
  BY DEF Goal, Source, Store, InWork, DataOf, Pushing
<1>2. CASE result' = result
  BY <1>1, <1>2, PromiseStutters
<1>3. CASE result = -1 /\ result' = 1
  BY <1>1, <1>3, PromiseReturns
<1>4. CASE result = -1 /\ result' = 0
  <2>1. pc' \in Ending
    BY <1>4 DEF SyncInv, TypeInv, Places
  <2>2. storing' = 0
    BY <1>4, <2>1 DEF SyncInv, Storing, Sending, Ending
  <2>3. InWork' = {}
    BY <2>2 DEF InWork, Pushing
  <2>4. list \in Seq(Files)
    BY DEF SyncInv, TypeInv, Lists
  <2>5. ASSUME NEW f \in Goal
        PROVE  Len(Store'[f]) \in {0, Len(Source[f])} \/ (f \in cut /\ IsPrefix(Store'[f], Source[f]))
    <3>1. PICK i \in 1..Len(list) : f = list[i]
      BY <2>4 DEF Goal, Pushing, Range
    <3>2. f \in Files /\ Store'[f] = remote'[f].data /\ Source[f] = local'[f].data
      BY <2>4, <3>1 DEF Store, Source, DataOf, Pushing
    <3>3. Handled' = 1..Len(list')
      BY <1>4, <2>1 DEF Handled, Sending, Ending
    <3>4. \/ Len(remote'[f].data) = Len(local'[f].data) \/ remote'[f].data = local'[f].data
          \/ f \in cut' /\ Beginning(remote'[f].data, local'[f].data)
      <4>1. Stored' /\ Pushing' /\ list' = list
        BY DEF SyncInv, Pushing
      <4>2. /\ \A g \in flag' : Len(remote'[g].data) = Len(local'[g].data)
            /\ \A j \in Handled' : \/ list'[j] \in flag' \/ remote'[list'[j]].data = local'[list'[j]].data
                                   \/ list'[j] \in cut' /\ Beginning(remote'[list'[j]].data, local'[list'[j]].data)
        BY <4>1 DEF Stored, Alike, Whole, WholeOrCut
      <4>3. i \in Handled' /\ f = list'[i]
        BY <3>1, <3>3, <4>1
      <4>4. QED
        BY <4>2, <4>3
    <3>5. local'[f].data \in Seq(Chunks) /\ remote'[f].data \in Seq(Chunks)
      BY <3>2 DEF SyncInv, TypeInv, Values, FileTypes
    <3>6. QED
      BY <3>2, <3>4, <3>5, BeginningIsPrefix
  <2>6. QED
    BY <1>1, <1>4, <2>3, <2>5, PromiseReturns
<1>5. QED
  BY <1>2, <1>3, <1>4, ResultIsSettledOnce

\* One file is written, completed or given up.
LEMMA PromiseWrites ==
    ASSUME NEW f, f \in Goal, UNCHANGED <<Goal, Source, cut>>, InWork \subseteq {f},
           Store' = [Store EXCEPT ![f] = Store'[f]],
           \/ /\ InWork' = {f} /\ result' = result /\ IsPrefix(Store'[f], Source[f])
              /\ InWork = {f} => IsPrefix(Store[f], Store'[f])
           \/ /\ InWork' = {} /\ Store'[f] \in {<<>>, Source[f]}
              /\ \/ result' = result
                 \/ result = -1 /\ (result' = 1 \/ (result' = 0 /\ Goal = {f}))
    PROVE  Promised!Next
<1>1. Promised!Works(f)
  BY DEF Promised!Works
<1>2. CASE /\ InWork' = {f} /\ result' = result /\ IsPrefix(Store'[f], Source[f])
           /\ InWork = {f} => IsPrefix(Store[f], Store'[f])
  <2>1. Promised!Write(f)
    BY <1>1, <1>2 DEF Promised!Write, Promised!IsPrefix, IsPrefix
  <2>2. QED
    BY <2>1 DEF Promised!Next
<1>3. CASE /\ InWork' = {} /\ Store'[f] \in {<<>>, Source[f]}
           /\ \/ result' = result
              \/ result = -1 /\ (result' = 1 \/ (result' = 0 /\ Goal = {f}))
  <2>1. Promised!Result
    <3>1. CASE result' = result
      BY <3>1 DEF Promised!Result
    <3>2. CASE result = -1 /\ result' = 0 /\ Goal = {f}
      <4>1. Len(Store'[f]) \in {0, Len(Source[f])}
        BY <1>3
      <4>2. Promised!Success
        BY <1>3, <3>2, <4>1 DEF Promised!Success
      <4>3. QED
        BY <3>2, <4>2 DEF Promised!Result
    <3>3. CASE result = -1 /\ result' = 1
      BY <3>3 DEF Promised!Result
    <3>4. QED
      BY <1>3, <3>1, <3>2, <3>3
  <2>2. Promised!Complete(f) \/ Promised!GiveUp(f)
    BY <1>1, <1>3 DEF Promised!Complete, Promised!GiveUp
  <2>3. QED
    BY <2>1, <2>2 DEF Promised!Next
<1>4. QED
  BY <1>2, <1>3

\* One file is closed with a part of what it was to become.
LEMMA PromiseCloses ==
    ASSUME NEW f, f \in Goal, UNCHANGED <<Goal, Source>>, InWork = {f}, InWork' = {},
           cut' \in {cut, cut \cup {f}}, f \in cut', IsPrefix(Store'[f], Store[f]),
           Store' = [Store EXCEPT ![f] = Store'[f]],
           \/ result' = result
           \/ result = -1 /\ result' = 0 /\ Goal = {f} /\ IsPrefix(Store'[f], Source[f])
    PROVE  Promised!Next
<1>1. Promised!CloseCut(f)
  BY DEF Promised!CloseCut, Promised!IsPrefix, IsPrefix
<1>2. Promised!Result
  <2>1. CASE result' = result
    BY <2>1 DEF Promised!Result
  <2>2. CASE result = -1 /\ result' = 0 /\ Goal = {f} /\ IsPrefix(Store'[f], Source[f])
    <3>1. Promised!Success
      BY <2>2 DEF Promised!Success, Promised!IsPrefix, IsPrefix
    <3>2. QED
      BY <2>2, <3>1 DEF Promised!Result
  <2>3. QED
    BY <2>1, <2>2
<1>3. QED
  BY <1>1, <1>2 DEF Promised!Next

\* adbd stores what the host sends.
LEMMA StoreMaps ==
    ASSUME SyncInv, SyncInv', Device, pc \in Sending, StoreStep
    PROVE  Promised!Next
<1>1. PICK f \in Files : f = Current
  BY SendingFacts
<1>2. Pushing /\ f \in Range(list) /\ f # 0 /\ local[f].data \in Seq(Chunks)
  BY <1>1, SendingFacts, FileFacts, SMTT(60) DEF Range, FileTypes
<1>3. UNCHANGED <<op, kind, list, local, cut, result>>
  BY DeviceFacts
<1>4. remote' = [remote EXCEPT ![f] = remote'[f]] /\ remote[f].data \in Seq(Chunks) /\ remote'[f].data \in Seq(Chunks)
      /\ remote \in [Files -> FileTypes]
  BY <1>1 DEF StoreStep, SyncInv, TypeInv, Values, FileTypes
<1>5. f \in Goal /\ UNCHANGED <<Goal, Source>> /\ Pushing'
  BY <1>2, <1>3 DEF Goal, Source, DataOf, Pushing
<1>6. Store' = [Store EXCEPT ![f] = Store'[f]]
  <2>1. Store = [g \in Files |-> remote[g].data] /\ Store' = [g \in Files |-> remote'[g].data]
    BY <1>2, <1>5 DEF Store, DataOf
  <2>2. \A g \in Files : g # f => remote'[g] = remote[g]
    BY <1>4
  <2>3. QED
    BY <2>1, <2>2
<1>7. Store[f] = remote[f].data /\ Store'[f] = remote'[f].data /\ Source[f] = local[f].data
  BY <1>2, <1>5 DEF Store, Source, DataOf
<1>8. InWork = {storing} \ {0} /\ InWork' = {storing'} \ {0}
  BY <1>2, <1>5 DEF InWork
<1>9. CASE /\ storing \in {0, f} /\ storing' = f
           /\ Beginning(remote'[f].data, local[f].data)
           /\ storing = f => Beginning(remote[f].data, remote'[f].data)
  <2>1. InWork \subseteq {f} /\ InWork' = {f} /\ (InWork = {f} => storing = f)
    BY <1>2, <1>8, <1>9
  <2>2. IsPrefix(Store'[f], Source[f]) /\ (InWork = {f} => IsPrefix(Store[f], Store'[f]))
    BY <1>2, <1>4, <1>7, <1>9, <2>1, BeginningIsPrefix
  <2>3. QED
    BY <1>3, <1>5, <1>6, <2>1, <2>2, PromiseWrites
<1>10. CASE storing = f /\ storing' = 0 /\ remote'[f].data \in {<<>>, local[f].data}
  <2>1. InWork \subseteq {f} /\ InWork' = {}
    BY <1>8, <1>10
  <2>2. QED
    BY <1>3, <1>5, <1>6, <1>7, <1>10, <2>1, PromiseWrites
<1>11. CASE storing = f /\ storing' = 0 /\ f \in cut /\ remote'[f].data = remote[f].data
  <2>1. InWork = {f} /\ InWork' = {}
    BY <1>2, <1>8, <1>11
  <2>2. IsPrefix(Store'[f], Store[f])
    BY <1>4, <1>7, <1>11 DEF IsPrefix
  <2>3. QED
    BY <1>3, <1>5, <1>6, <1>11, <2>1, <2>2, PromiseCloses
<1>12. QED
  BY <1>1, <1>9, <1>10, <1>11 DEF StoreStep

\* The host has read all it is going to read of the file it is at.
LEMMA CutMaps ==
    ASSUME SyncInv, SyncInv', Pushing, WriteData, cut' # cut
    PROVE  Promised!Next
<1>1. pc \in Sending /\ cut' = cut \cup {Current} /\ UNCHANGED <<op, kind, list, local, remote, storing, result>>
  BY DEF WriteData, Sending, Goto, Current, args, device
<1>2. UNCHANGED <<Goal, Source, Store, InWork>>
  BY <1>1 DEF Goal, Source, Store, InWork, DataOf, Pushing
<1>3. Current \in Goal
  <2>1. Current \in Range(list)
    BY <1>1, SendingFacts DEF Range
  <2>2. QED
    BY <2>1 DEF Goal, Pushing
<1>4. Promised!CutShort(Current)
  BY <1>1, <1>2, <1>3 DEF Promised!CutShort
<1>5. QED
  BY <1>3, <1>4 DEF Promised!Next


\* Every step of a push.
LEMMA PushStepMaps ==
    ASSUME SyncInv, SyncInv', Next, Pushing
    PROVE  Promised!Next \/ UNCHANGED Promised!transfer
<1>1. CASE Host
  <2>1. pc \notin {"first", "more"}
    BY DEF SyncInv, TypeInv, Places
  <2>2. CASE cut' = cut
    BY <1>1, <2>1, <2>2, HostKeepsFiles, PushMaps
  <2>3. CASE cut' # cut
    <3>1. ~RecvData
      BY <2>1 DEF RecvData
    <3>2. WriteData
      BY <1>1, <2>3, <3>1, HostKeepsFiles
    <3>3. QED
      BY <2>3, <3>2, CutMaps
  <2>4. QED
    BY <2>2, <2>3
<1>2. CASE Device
  <2>1. UNCHANGED <<op, kind, list, local, cut>>
    BY <1>2, DeviceFacts
  <2>2. CASE UNCHANGED device
    BY <2>1, <2>2, PushMaps DEF device
  <2>3. CASE pc \in Sending /\ StoreStep
    BY <1>2, <2>3, StoreMaps
  <2>4. QED
    BY <1>2, <2>2, <2>3, DeviceTakes
<1>3. CASE Close
  BY <1>3, PushMaps DEF Close, args, files, device
<1>4. QED
  BY <1>1, <1>2, <1>3 DEF Next

-------------------------------------------------------------------------------
(* A pull maps as well.                                                    *)

\* The host reads nothing that the transfer is about: a pull goes on, or returns.
LEMMA PullGoesOn ==
    ASSUME SyncInv, SyncInv', Next, ~Pushing, UNCHANGED <<op, kind, list, local, remote, buffer, len, cut>>,
           result' # 0 \/ result' = result \/ (op = "pull" /\ kind # "file") \/ (op = "pull_buffer" /\ len = -1),
           pc' = "more" => pc = "more",
           result' = result /\ pc = "more" => pc' = "more"
    PROVE  Promised!Next \/ UNCHANGED Promised!transfer
<1>1. UNCHANGED <<Goal, Source, Store>> /\ ~Pushing'
  BY DEF Goal, Source, Store, Pulled, DataOf, Pushing
<1>2. InWork = (IF op = "pull" /\ pc = "more" THEN {1} ELSE {})
      /\ InWork' = (IF op = "pull" /\ pc' = "more" THEN {1} ELSE {})
  BY <1>1 DEF InWork
<1>3. InWork' \subseteq InWork /\ (result' = result => InWork' = InWork)
  BY <1>2
<1>4. CASE result' = result
  BY <1>1, <1>3, <1>4, PromiseStutters
<1>5. CASE result = -1 /\ result' = 1
  BY <1>1, <1>3, <1>5, PromiseReturns
<1>6. CASE result = -1 /\ result' = 0
  <2>1. pc' \in Ending
    BY <1>6 DEF SyncInv, TypeInv, Places
  <2>2. InWork' = {}
    BY <1>2, <2>1 DEF Ending
  <2>3. ASSUME NEW g \in Goal PROVE Len(Store'[g]) \in {0, Len(Source[g])}
    <3>1. op = "pull_buffer" /\ len = -1 /\ list \in Seq(Files)
      BY <1>6, <2>3 DEF Goal, SyncInv, TypeInv, Lists
    <3>2. g \in Files
      BY <3>1, <2>3 DEF Goal, Range
    <3>3. Store'[g] = <<>>
      BY <1>1, <3>1, <3>2 DEF Store, Pulled
    <3>4. QED
      BY <3>3
  <2>4. QED
    BY <1>1, <1>3, <1>6, <2>2, <2>3, PromiseReturns
<1>7. QED
  BY <1>4, <1>5, <1>6, ResultIsSettledOnce

\* What has been read of a file is stored where the transfer wants it.
LEMMA TakenIsStored ==
    ASSUME SyncInv, pc \in {"first", "more"}, NEW new \in Seq(Chunks), Take(new),
           UNCHANGED <<op, kind, list, remote>>, len' = -1 \/ op = "pull_buffer"
    PROVE  /\ UNCHANGED <<Goal, Source>> /\ Goal = {1} /\ Source[1] = remote[1].data
           /\ Store' = [Store EXCEPT ![1] = Store'[1]]
           /\ op = "pull" => Store'[1] = Sink \o new /\ (pc = "more" => Store[1] = Sink)
           /\ op = "pull_buffer" => /\ len' = -1 => UNCHANGED Store
                                    /\ len' # -1 => Store'[1] = Sink \o new
<1>1. /\ ~Pushing /\ op \in {"pull", "pull_buffer"} /\ kind = "file" /\ len = -1 /\ 1 \in Files
      /\ local \in [Files -> FileTypes]
  BY ReceivingFacts
<1>2. ~Pushing' /\ Range(list) = {1}
  <2>1. list = <<1>>
    BY <1>1 DEF SyncInv, TypeInv, Lists
  <2>2. QED
    BY <1>1, <2>1 DEF Pushing, Range
<1>3. UNCHANGED <<Goal, Source>> /\ Goal = {1} /\ Source[1] = remote[1].data
  BY <1>1, <1>2 DEF Goal, Source, DataOf
<1>4. Store = Pulled /\ Store' = Pulled'
  BY <1>1, <1>2 DEF Store
<1>5. CASE op = "pull"
  <2>1. Store = [g \in Files |-> local[g].data] /\ Store' = [g \in Files |-> local'[g].data]
    BY <1>4, <1>5 DEF Pulled, DataOf
  <2>2. local'[1].data = Sink \o new
    BY <1>5, TakeFacts
  <2>3. \A g \in Files : g # 1 => local'[g] = local[g]
    BY <1>1, <1>5 DEF Take
  <2>4. Store' = [Store EXCEPT ![1] = Store'[1]]
    BY <2>1, <2>3
  <2>5. pc = "more" => Store[1] = Sink
    BY <1>1, <1>5, <2>1 DEF Sink
  <2>6. QED
    BY <1>1, <1>3, <1>5, <2>1, <2>2, <2>4, <2>5
<1>6. CASE op = "pull_buffer"
  <2>1. Store = [g \in Files |-> <<>>]
        /\ Store' = [g \in Files |-> IF g = 1 /\ len' # -1 THEN buffer' ELSE <<>>]
    BY <1>1, <1>4, <1>6 DEF Pulled
  <2>2. buffer' = Sink \o new
    BY <1>6, TakeFacts
  <2>3. Store' = [Store EXCEPT ![1] = Store'[1]]
    BY <2>1
  <2>4. QED
    BY <1>1, <1>3, <1>6, <2>1, <2>2, <2>3
<1>7. QED
  BY <1>1, <1>5, <1>6

LEMMA RecvDataMaps ==
    ASSUME SyncInv, SyncInv', RecvData
    PROVE  Promised!Next \/ UNCHANGED Promised!transfer
<1>1. UNCHANGED <<op, kind, list, remote>> /\ pc \in {"first", "more"} /\ \E cmds : Read(cmds)
  BY DEF RecvData, args, device
<1>2. PICK data \in Seq(Chunks), from \in Seq(FromDevice), has \in Seq(Chunks) :
          data = remote[1].data /\ from = fromDev /\ has = Sink /\ Beginning(has, data)
  BY <1>1, ReceivingFacts
<1>3. /\ ~Pushing /\ ~Pushing' /\ op \in {"pull", "pull_buffer"} /\ kind = "file" /\ result = -1 /\ len = -1
  BY <1>1, ReceivingFacts DEF Pushing
<1>4. Coming(from, has, data) /\ Head(fromDev) = from[1]
  BY <1>1, <1>2, FirstArrived
<1>5. InWork = (IF op = "pull" /\ pc = "more" THEN {1} ELSE {})
      /\ InWork' = (IF op = "pull" /\ pc' = "more" THEN {1} ELSE {})
  BY <1>1, <1>3 DEF InWork
<1>6. CASE Read({"DATA"}) /\ Take(<<Head(fromDev).v>>) /\ pc' = "more" /\ result' = result /\ len' = len
           /\ UNCHANGED cut
  <2>1. from[1].cmd = "DATA"
    BY <1>4, <1>6 DEF Read, Arrived
  <2> DEFINE new == <<from[1].v>>
  <2>2. new \in Seq(Chunks) /\ Beginning(has \o new, data)
    BY <1>2, <1>4, <2>1, ChunkArrives
  <2>3. Take(new) /\ len' = -1
    BY <1>3, <1>4, <1>6
  <2> HIDE DEF new
  <2>4. /\ UNCHANGED <<Goal, Source>> /\ Goal = {1} /\ Source[1] = data
        /\ Store' = [Store EXCEPT ![1] = Store'[1]]
        /\ op = "pull" => Store'[1] = has \o new /\ (pc = "more" => Store[1] = has)
        /\ op = "pull_buffer" => UNCHANGED Store
    BY <1>1, <1>2, <2>2, <2>3, TakenIsStored
  <2>5. CASE op = "pull"
    <3>1. has \o new \in Seq(Chunks) /\ Beginning(has, has \o new)
      <4>1. /\ Len(has) <= Len(has \o new) /\ has = SubSeq(has \o new, 1, Len(has))
        BY <2>2
      <4>2. QED
        BY <2>2, <4>1 DEF Beginning
    <3>2. IsPrefix(has \o new, data) /\ IsPrefix(has, has \o new)
      BY <1>2, <2>2, <3>1, BeginningIsPrefix
    <3>3. InWork \subseteq {1} /\ InWork' = {1} /\ (InWork = {1} => pc = "more")
      BY <1>5, <1>6, <2>5
    <3>4. IsPrefix(Store'[1], Source[1]) /\ (InWork = {1} => IsPrefix(Store[1], Store'[1]))
      BY <2>4, <2>5, <3>2, <3>3
    <3>5. 1 \in Goal
      BY <2>4
    <3>6. QED
      BY <1>6, <2>4, <3>3, <3>4, <3>5, PromiseWrites
  <2>6. CASE op = "pull_buffer"
    <3>1. UNCHANGED InWork
      BY <1>5, <2>6
    <3>2. QED
      BY <1>6, <2>4, <2>6, <3>1, PromiseStutters
  <2>7. QED
    BY <1>3, <2>5, <2>6
<1>7. CASE /\ Read({"DONE"}) /\ Take(<<>>) /\ pc' = "quit" /\ result' = 0
           /\ len' = (IF op = "pull_buffer" THEN Len(buffer) ELSE len) /\ UNCHANGED cut
  <2>1. from[1].cmd = "DONE"
    BY <1>4, <1>7 DEF Read, Arrived
  <2>2. has = data
    BY <1>2, <1>4, <2>1, FileEnds
  <2>3. <<>> \in Seq(Chunks) /\ data \o <<>> = data
    BY <1>2
  <2>4. (op = "pull" => len' = -1) /\ (op = "pull_buffer" => len' = Len(data))
    BY <1>2, <1>3, <1>7, <2>2 DEF Sink
  <2>5. len' = -1 \/ op = "pull_buffer"
    BY <1>3, <2>4
  <2>6. Len(data) # -1
    BY <1>2
  <2>7. /\ UNCHANGED <<Goal, Source>> /\ Goal = {1} /\ Source[1] = data /\ Store'[1] = data
        /\ Store' = [Store EXCEPT ![1] = Store'[1]]
    <3>1. /\ UNCHANGED <<Goal, Source>> /\ Goal = {1} /\ Source[1] = remote[1].data
          /\ Store' = [Store EXCEPT ![1] = Store'[1]]
          /\ op = "pull" => Store'[1] = Sink \o <<>>
          /\ op = "pull_buffer" => (len' # -1 => Store'[1] = Sink \o <<>>)
      BY <1>1, <1>7, <2>3, <2>5, TakenIsStored
    <3>2. Store'[1] = has \o <<>>
      BY <1>2, <1>3, <2>4, <2>6, <3>1
    <3>3. QED
      BY <1>2, <2>2, <2>3, <3>1, <3>2
  <2>8. InWork \subseteq {1} /\ InWork' = {}
    BY <1>5, <1>7
  <2>9. 1 \in Goal
    BY <2>7
  <2>10. QED
    BY <1>3, <1>7, <2>7, <2>8, <2>9, PromiseWrites
<1>8. ASSUME op = "pull"
      PROVE  /\ UNCHANGED <<Goal, Source>> /\ Goal = {1} /\ Source[1] = data
             /\ Store = [g \in Files |-> local[g].data] /\ Store' = [g \in Files |-> local'[g].data]
             /\ 1 \in Files /\ local \in [Files -> FileTypes]
  <2>1. list = <<1>>
    BY <1>8 DEF SyncInv, TypeInv, Lists
  <2>2. Goal = {1} /\ Goal' = {1}
    BY <1>1, <1>3, <1>8, <2>1 DEF Goal, Range
  <2>3. Source = [g \in Files |-> remote[g].data] /\ Source' = Source
    BY <1>1, <1>3 DEF Source, DataOf
  <2>4. Store = Pulled /\ Store' = Pulled'
    BY <1>3 DEF Store
  <2>5. Pulled = [g \in Files |-> local[g].data] /\ Pulled' = [g \in Files |-> local'[g].data]
    BY <1>1, <1>8 DEF Pulled, DataOf
  <2>6. 1 \in Files /\ local \in [Files -> FileTypes]
    BY <1>1, ReceivingFacts
  <2>7. QED
    BY <1>2, <2>2, <2>3, <2>4, <2>5, <2>6
<1>9. CASE Read({"DATA"}) /\ op = "pull" /\ Take(<<>>) /\ pc' = "returned" /\ result' = 1 /\ UNCHANGED cut
  <2>1. local' = [local EXCEPT ![1] = [local[1] EXCEPT !.data = (IF pc = "first" THEN <<>> ELSE local[1].data) \o <<>>]]
    BY <1>9 DEF Take
  <2>2. InWork \subseteq {1} /\ InWork' = {}
    BY <1>5, <1>9
  <2>3. local[1] \in FileTypes
    BY <1>8, <1>9
  <2>4. CASE pc = "first"
    <3>1. local'[1].data = <<>> /\ \A g \in Files : g # 1 => local'[g] = local[g]
      BY <1>8, <1>9, <2>1, <2>3, <2>4 DEF FileTypes
    <3>2. Store' = [Store EXCEPT ![1] = Store'[1]] /\ Store'[1] = <<>>
      BY <1>8, <1>9, <3>1
    <3>3. 1 \in Goal
      BY <1>8, <1>9
    <3>4. QED
      BY <1>3, <1>8, <1>9, <2>2, <3>2, <3>3, PromiseWrites
  <2>5. CASE pc = "more"
    <3>1. local[1].data \o <<>> = local[1].data
      BY <2>3 DEF FileTypes
    <3>2. \A g \in Files : local'[g].data = local[g].data
      BY <1>8, <1>9, <2>1, <2>3, <2>5, <3>1 DEF FileTypes
    <3>3. Store' = Store
      BY <1>8, <1>9, <3>2
    <3>4. InWork' \subseteq InWork
      BY <2>2
    <3>5. QED
      BY <1>3, <1>8, <1>9, <3>3, <3>4, PromiseReturns
  <2>6. QED
    BY <1>1, <2>4, <2>5
<1>10. CASE /\ Read({"DONE"}) /\ op = "pull" /\ pc = "more"
            /\ \E n \in 0..(Len(local[1].data) - 1) : local' = [local EXCEPT ![1].data = SubSeq(@, 1, n)]
            /\ cut' = {1} /\ pc' = "quit" /\ result' = 0
  <2>1. from[1].cmd = "DONE"
    BY <1>4, <1>10 DEF Read, Arrived
  <2>2. has = data /\ has = local[1].data
    BY <1>2, <1>4, <1>10, <2>1, FileEnds DEF Sink
  <2>3. PICK part \in Seq(Chunks) :
            Beginning(part, has) /\ local' = [local EXCEPT ![1] = [local[1] EXCEPT !.data = part]]
    <3>1. PICK n \in 0..(Len(has) - 1) : local' = [local EXCEPT ![1] = [local[1] EXCEPT !.data = SubSeq(has, 1, n)]]
      BY <1>10, <2>2
    <3>2. QED
      BY <1>2, <3>1, PartBegins
  <2>4. local'[1].data = part /\ \A g \in Files : g # 1 => local'[g] = local[g]
    <3>1. local[1] \in FileTypes
      BY <1>8, <1>10
    <3>2. [local[1] EXCEPT !.data = part].data = part
      BY <3>1 DEF FileTypes
    <3>3. QED
      BY <1>8, <1>10, <2>3, <3>2
  <2>5. /\ Store' = [Store EXCEPT ![1] = Store'[1]] /\ Store'[1] = part /\ Store[1] = has /\ Source[1] = has
        /\ 1 \in Goal /\ Goal = {1} /\ UNCHANGED <<Goal, Source>>
    <3>1. op = "pull"
      BY <1>10
    <3>2. /\ UNCHANGED <<Goal, Source>> /\ Goal = {1} /\ Source[1] = data
          /\ Store = [g \in Files |-> local[g].data] /\ Store' = [g \in Files |-> local'[g].data]
          /\ 1 \in Files
      BY <1>8, <3>1
    <3>3. Store'[1] = part /\ Store[1] = has /\ Source[1] = has
      BY <2>2, <2>4, <3>2
    <3>4. Store' = [Store EXCEPT ![1] = Store'[1]]
      BY <2>4, <3>2
    <3>5. QED
      BY <3>2, <3>3, <3>4
  <2>6. IsPrefix(part, has)
    BY <1>2, <2>3, BeginningIsPrefix
  <2>7. InWork = {1} /\ InWork' = {}
    BY <1>5, <1>10
  <2>8. cut' = cut \cup {1}
    <3>1. list = <<1>> /\ cut \subseteq Range(list)
      BY <1>10 DEF SyncInv, TypeInv, Lists, Values
    <3>2. QED
      BY <1>10, <3>1 DEF Range
  <2>9. IsPrefix(Store'[1], Store[1]) /\ IsPrefix(Store'[1], Source[1])
    BY <2>5, <2>6
  <2>10. QED
    BY <1>3, <1>10, <2>5, <2>7, <2>8, <2>9, PromiseCloses
<1>11. QED
  BY <1>6, <1>7, <1>9, <1>10 DEF RecvData, Goto, Quit, Return

\* A pull that adbd refuses is given up.
LEMMA RemoteErrorMaps ==
    ASSUME SyncInv, SyncInv', RemoteError
    PROVE  Promised!Next \/ UNCHANGED Promised!transfer
<1>1. /\ UNCHANGED <<op, kind, list, remote, buffer, len, cut>> /\ pc \in {"first", "more"}
      /\ pc' = "quit" /\ result' = 0
      /\ local' = IF op = "pull" THEN [local EXCEPT ![1] = Absent] ELSE local
  BY DEF RemoteError, Quit, args, device
<1>2. /\ ~Pushing /\ ~Pushing' /\ op \in {"pull", "pull_buffer"} /\ kind = "file" /\ result = -1 /\ len = -1
      /\ local \in [Files -> FileTypes] /\ 1 \in Files
  BY <1>1, ReceivingFacts DEF Pushing
<1>3. CASE op = "pull_buffer"
  <2>1. Next /\ UNCHANGED local
    BY <1>1, <1>3 DEF Next, Host
  <2>2. QED
    BY <1>1, <1>2, <1>3, <2>1, PullGoesOn
<1>4. CASE op = "pull"
  <2>1. Goal = {1}
    <3>1. list = <<1>>
      BY <1>4 DEF SyncInv, TypeInv, Lists
    <3>2. QED
      BY <1>2, <3>1 DEF Goal, Range
  <2>2. UNCHANGED <<Goal, Source>>
    BY <1>1, <1>2 DEF Goal, Source, DataOf
  <2>3. Store = [g \in Files |-> local[g].data] /\ Store' = [g \in Files |-> local'[g].data]
    BY <1>1, <1>2, <1>4 DEF Store, Pulled, DataOf
  <2>4. local'[1] = Absent /\ \A g \in Files : g # 1 => local'[g] = local[g]
    BY <1>1, <1>2, <1>4
  <2>5. Store' = [Store EXCEPT ![1] = Store'[1]] /\ Store'[1] = <<>>
    BY <1>2, <2>3, <2>4 DEF Absent
  <2>6. InWork \subseteq {1} /\ InWork' = {}
    BY <1>1, <1>2 DEF InWork
  <2>7. 1 \in Goal
    BY <2>1
  <2>8. QED
    BY <1>1, <1>2, <2>1, <2>2, <2>5, <2>6, <2>7, PromiseWrites
<1>5. QED
  BY <1>2, <1>3, <1>4

\* Every step of a pull.
LEMMA PullStepMaps ==
    ASSUME SyncInv, SyncInv', Next, ~Pushing
    PROVE  Promised!Next \/ UNCHANGED Promised!transfer
<1>1. pc \notin {"connect", "start", "finish", "send"} \cup Sending \/ pc = "connect"
  BY DEF SyncInv, TypeInv, Places, Pushing
<1>2. CASE Host /\ ~RecvData /\ ~RemoteError
  <2>1. /\ UNCHANGED <<op, kind, list, local, remote, buffer, len, cut>>
    <3>0. ~WriteData
      BY <1>1 DEF WriteData, Sending
    <3>1. CASE CannotCreate \/ List \/ Dents \/ Recv
      BY <3>1 DEF CannotCreate, List, Dents, Recv, args, files, device
    <3>2. CASE pc \notin {"first", "more"} \/ Fails
      BY <1>2, <3>0, <3>2, HostKeepsFiles
    <3>3. QED
      BY <1>2, <3>1, <3>2 DEF Host, SyncConnect, Stat, StatReply, StartReadtime, FinishReadtime, Send, WriteData,
         Done, Status, SyncQuit
  <2>2. /\ pc' # "more"
        /\ result' = result => pc # "more"
        /\ result' # 0 \/ result' = result \/ (op = "pull" /\ kind # "file")
    <3>1. CASE SyncConnect \/ Stat \/ StatReply
      BY <1>1, <3>1 DEF SyncConnect, Stat, StatReply, Goto, Quit, Return, Pushing
    <3>2. CASE StartReadtime \/ FinishReadtime \/ Send \/ WriteData \/ Done \/ Status
      BY <1>1, <3>2 DEF StartReadtime, FinishReadtime, Send, WriteData, Done, Status, Sending
    <3>3. CASE Recv \/ CannotCreate \/ List
      BY <3>3 DEF Recv, CannotCreate, List, Goto, Return
    <3>4. CASE Dents
      <4>1. op = "pull" /\ kind = "dir" /\ pc = "dents" /\ pc' \in {"dents", "quit"}
        BY <3>4 DEF Dents, Goto, Quit, SyncInv, TypeInv, Places
      <4>2. QED
        BY <4>1
    <3>5. CASE SyncQuit
      BY <3>5 DEF SyncQuit
    <3>6. CASE Fails
      <4>1. result = -1 /\ result' = 1 /\ pc' = "returned"
        BY <3>6 DEF Fails, Return, SyncInv, TypeInv, Places, Ending
      <4>2. QED
        BY <4>1
    <3>7. QED
      BY <1>2, <3>1, <3>2, <3>3, <3>4, <3>5, <3>6 DEF Host
  <2>3. QED
    BY <2>1, <2>2, PullGoesOn
<1>3. CASE RecvData \/ RemoteError
  BY <1>3, RecvDataMaps, RemoteErrorMaps
<1>4. CASE Device
  <2>1. UNCHANGED <<op, kind, list, pc, local, buffer, len, cut, result>>
    BY <1>4, DeviceFacts
  <2>2. pc \notin Sending
    BY DEF SyncInv, TypeInv, Places
  <2>3. UNCHANGED remote
    BY <1>4, <2>2, DeviceTakes DEF device
  <2>4. QED
    BY <2>1, <2>3, PullGoesOn
<1>5. CASE Close
  <2>1. UNCHANGED <<op, kind, list, pc, local, remote, buffer, len, cut, result>>
    BY <1>5 DEF Close, args, files, device
  <2>2. QED
    BY <2>1, PullGoesOn
<1>6. QED
  BY <1>2, <1>3, <1>4, <1>5 DEF Next, Host

LEMMA PromiseBegins == Init => Promised!Init
  BY DEF Init, Promised!Init, InWork

LEMMA StepMaps == SyncInv /\ SyncInv' /\ [Next]_vars => [Promised!Next]_(Promised!transfer)
<1> SUFFICES ASSUME SyncInv, SyncInv', [Next]_vars PROVE Promised!Next \/ UNCHANGED Promised!transfer
  OBVIOUS
<1>1. CASE Next
  BY <1>1, PushStepMaps, PullStepMaps
<1>2. CASE UNCHANGED vars
  <2>1. UNCHANGED <<op, kind, list, pc, local, remote, buffer, len, cut, result, storing>>
    BY <1>2 DEF vars, args, files, device
  <2>2. UNCHANGED <<Goal, Source, Store, InWork>>
    BY <2>1 DEF Goal, Source, Store, Pulled, InWork, DataOf, Pushing
  <2>3. QED
    BY <2>1, <2>2, PromiseStutters
<1>3. QED
  BY <1>1, <1>2

\* Whichever way it goes, a transfer keeps what Transfer promises, whatever adbd
\* refuses and whenever the stream is closed: one file at a time, always a beginning
\* of what it is to become, and none left half written by a success but those whose
\* reading or writing was cut short here (file_class_sync_client.cpp 278-468, 580-703).
THEOREM SyncKeepsPromise == Spec => KeepsPromise
<1>1. SyncInv /\ [Next]_vars /\ SyncInv' => [Promised!Next]_(Promised!transfer)
  BY StepMaps
<1>2. QED
  BY SyncInvariance, PromiseBegins, <1>1, PTL DEF Spec, KeepsPromise, Promised!Spec

===============================================================================
