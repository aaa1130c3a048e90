--------------------------------- MODULE Sync ---------------------------------
(***************************************************************************)
(* The file transfers of file_class_sync_client.cpp, over one open "sync:" *)
(* stream, with the sync service of adbd (external) at the other end.      *)
(*                                                                         *)
(* The stream is what module Channels makes of it: two FIFOs until it is   *)
(* closed; then a read fails even if data is queued (client_read, module   *)
(* Channels).  Header and body of a message travel together, a file is a   *)
(* time and a sequence of chunks, and the entries of a directory are the   *)
(* files 1..NumFiles; the operations on one file are about file 1.         *)
(***************************************************************************)
EXTENDS Integers, Sequences, SequencesExt

CONSTANTS
    Ops,        \* of "push", "push_dir", "sync", "push_buffer", "pull", "pull_buffer"
    NumFiles,   \* bound: files in a directory
    Contents    \* the files there are: [time, data]

Absent == [time |-> 0, data |-> <<>>]

ASSUME SyncAssumption ==
    /\ Ops \subseteq {"push", "push_dir", "sync", "push_buffer", "pull", "pull_buffer"}
    /\ NumFiles \in Nat \ {0}
    /\ \A c \in Contents : /\ c = [time |-> c.time, data |-> c.data]
                           /\ c.time \in Nat \ {0} /\ c.data \in Seq(Range(c.data))

VARIABLES
    op, pc,
    local, remote,  \* the files on each side, Absent if there is none
    kind,           \* what the remote path names: "none", "file", "dir", "other"
    list,           \* filelist: what the operation works on, in order
    at, chunk,      \* place in list, chunks of that file written
    flag,           \* copyinfo.flag: the files sync found up to date
    buffer, len,    \* sync_pull_buffer's results; len is -1 until it is set
    cut,            \* files whose reading or writing here ended early, unnoticed
    result,         \* 0, 1, or -1 before it is known
    closed,         \* the channel is closed or the transport kicked
    toDev, fromDev, \* the stream
    storing         \* external: the file adbd is storing, 0 if none

args == <<op, kind, list>>
progress == <<at, chunk, flag>>
files == <<local, buffer, len, cut>>
stream == <<closed, toDev, fromDev>>
device == <<remote, storing>>
vars == <<args, pc, progress, files, result, stream, device>>

Files == 1..NumFiles

\* The files of one side, in the order in which its directory lists them.
Listings(side) == SetToSeqs({f \in Files : side[f] # Absent})

\* Directories are walked for push_dir, sync and a pull of one.
Init ==
    /\ op \in Ops /\ pc = "connect"
    /\ kind \in (IF op \in {"push_dir", "sync"} THEN {"dir"} ELSE {"none", "file", "dir", "other"})
    /\ local \in [Files -> Contents \cup {Absent}]
    /\ remote \in [Files -> Contents \cup {Absent}]
    /\ op \in {"push", "push_buffer"} \/ kind # "dir" => \A f \in Files \ {1} : remote[f] = Absent
    /\ op \notin {"push_dir", "sync"} => \A f \in Files \ {1} : local[f] = Absent
    /\ kind \in {"none", "other"} => remote[1] = Absent
    /\ kind = "file" => remote[1] # Absent
    /\ op = "push_buffer" => local[1] # Absent
    /\ list \in (IF op \in {"push_dir", "sync"} THEN Listings(local) ELSE {<<1>>})
    /\ at = 1 /\ chunk = 0 /\ flag = {}
    /\ buffer = <<>> /\ len = -1 /\ cut = {} /\ result = -1
    /\ closed = FALSE /\ toDev = <<>> /\ fromDev = <<>> /\ storing = 0

-------------------------------------------------------------------------------
Msg(cmd, f, v) == [cmd |-> cmd, f |-> f, v |-> v]

\* sync_write: nothing is written on a closed channel.
Write(m) == ~closed /\ toDev' = Append(toDev, m) /\ UNCHANGED <<closed, fromDev>>
Broken == closed /\ UNCHANGED stream

\* sync_read: waits for data, fails once the channel is closed.
Arrived(cmds) == ~closed /\ fromDev # <<>> /\ Head(fromDev).cmd \in cmds
Read(cmds) == Arrived(cmds) /\ fromDev' = Tail(fromDev) /\ UNCHANGED <<closed, toDev>>

Goto(l) == pc' = l /\ UNCHANGED result
Return(r) == pc' = "returned" /\ result' = r
\* The operation's result is settled before sync_quit is called.
Quit(r) == pc' = "quit" /\ result' = r

\* Whatever cannot be written or read ends the operation, with 1.
Fails == pc \notin {"data", "quit", "await_close", "returned"} /\ Broken /\ Return(1)
         /\ UNCHANGED <<args, progress, files, device>>

SyncConnect ==
    /\ pc = "connect" /\ ~closed
    /\ CASE op = "push" /\ local[1] = Absent -> Quit(1)
         [] op = "push_dir" -> Goto("send")
         [] op = "sync" -> Goto("start")
         [] OTHER -> Goto("stat")
    /\ UNCHANGED <<args, progress, files, stream, device>>

\* sync_readmode.
Stat ==
    /\ pc = "stat" /\ Write(Msg("STAT", 1, 0)) /\ Goto("mode")
    /\ UNCHANGED <<args, progress, files, device>>

StatReply ==
    /\ pc = "mode" /\ Read({"STAT"})
    /\ CASE op = "push" -> Goto("send")
         [] op = "push_buffer" -> IF kind = "dir" THEN Return(1) ELSE Goto("send")
         [] op \in {"pull", "pull_buffer"} /\ kind = "file" -> Goto("recv")
         [] op = "pull" /\ kind = "dir" -> Goto("list")
         [] OTHER -> Return(1)
    /\ UNCHANGED <<args, progress, files, device>>

-------------------------------------------------------------------------------
(* sync: all the questions first, then all the answers, which carry no name. *)
StartReadtime ==
    /\ pc = "start"
    /\ IF at <= Len(list)
       THEN Write(Msg("STAT", list[at], 0)) /\ at' = at + 1 /\ Goto("start")
       ELSE UNCHANGED stream /\ at' = 1 /\ Goto("finish")
    /\ UNCHANGED <<args, chunk, flag, files, device>>

UpToDateByTime(f, st) == st.time = local[f].time
UpToDate(f, st) == st.size = Len(local[f].data) /\ st.time = local[f].time

FinishReadtimeByPlace ==
    /\ pc = "finish"
    /\ IF at <= Len(list)
       THEN /\ Read({"STAT"}) /\ at' = at + 1 /\ Goto("finish")
            /\ flag' = IF UpToDate(list[at], Head(fromDev).v) THEN flag \cup {at} ELSE flag
       ELSE UNCHANGED <<stream, flag>> /\ at' = 1 /\ Goto("send")
    /\ UNCHANGED <<args, chunk, files, device>>

FinishReadtime ==
    /\ pc = "finish"
    /\ IF at <= Len(list)
       THEN /\ Read({"STAT"}) /\ at' = at + 1 /\ Goto("finish")
            /\ flag' = IF UpToDate(list[at], Head(fromDev).v) THEN flag \cup {list[at]} ELSE flag
       ELSE UNCHANGED <<stream, flag>> /\ at' = 1 /\ Goto("send")
    /\ UNCHANGED <<args, chunk, files, device>>

-------------------------------------------------------------------------------
(* sync_send and sync_send_buffer, for each file of the list.              *)
Send ==
    /\ pc = "send"
    /\ IF at > Len(list) THEN Quit(0) /\ UNCHANGED <<stream, at, chunk>>
       ELSE IF list[at] \in flag THEN Goto("send") /\ at' = at + 1 /\ UNCHANGED <<stream, chunk>>
       ELSE Write(Msg("SEND", list[at], 0)) /\ chunk' = 0 /\ Goto("data") /\ UNCHANGED at
    /\ UNCHANGED <<args, flag, files, device>>

\* write_data_file, write_data_buffer: their result is not looked at, and a read
\* that fails ends the file as its end does.
WriteData ==
    /\ pc = "data"
    /\ LET f == list[at]
           data == local[f].data IN
       \/ /\ chunk < Len(data)
          /\ Write(Msg("DATA", f, data[chunk + 1])) /\ chunk' = chunk + 1
          /\ Goto("data") /\ UNCHANGED cut
       \/ chunk = Len(data) /\ Goto("done") /\ UNCHANGED <<stream, chunk, cut>>
       \/ Broken /\ Goto("done") /\ UNCHANGED <<chunk, cut>>
       \/ /\ chunk < Len(data) /\ op # "push_buffer"  \* the file does not open, or a read fails
          /\ cut' = cut \cup {f} /\ Goto("done") /\ UNCHANGED <<stream, chunk>>
    /\ UNCHANGED <<args, at, flag, local, buffer, len, device>>

Done ==
    /\ pc = "done"
    /\ Write(Msg("DONE", list[at], local[list[at]].time)) /\ Goto("status")
    /\ UNCHANGED <<args, progress, files, device>>

StatusUnread ==
    /\ pc = "status" /\ Read({"OKAY", "FAIL"})
    /\ at' = at + 1 /\ Goto("send")
    /\ UNCHANGED <<args, chunk, flag, files, device>>

Status ==
    /\ pc = "status" /\ Read({"OKAY", "FAIL"})
    /\ IF Head(fromDev).cmd = "OKAY"
       THEN at' = at + 1 /\ Goto("send")
       ELSE Return(1) /\ UNCHANGED at
    /\ UNCHANGED <<args, chunk, flag, files, device>>

-------------------------------------------------------------------------------
(* sync_recv and sync_recv_buffer.                                         *)
Recv ==
    /\ pc = "recv" /\ Write(Msg("RECV", 1, 0)) /\ Goto("first")
    /\ UNCHANGED <<args, progress, files, device>>

\* adb_file_creat opens for reading first, which fails if there is no file.
CannotCreate ==
    /\ pc = "first" /\ op = "pull" /\ local[1] = Absent
    /\ Read({"DATA", "DONE"}) /\ Return(1)
    /\ UNCHANGED <<args, progress, files, device>>

\* What is there is truncated; each message adds a chunk, or nothing.
TakeAppending(new) ==
    IF op = "pull_buffer" THEN buffer' = buffer \o new /\ UNCHANGED local
    ELSE local' = [local EXCEPT ![1].data = @ \o new] /\ UNCHANGED buffer

Take(new) ==
    IF op = "pull_buffer" THEN buffer' = buffer \o new /\ UNCHANGED local
    ELSE /\ local' = [local EXCEPT ![1].data = (IF pc = "first" THEN <<>> ELSE @) \o new]
         /\ UNCHANGED buffer

\* What the stream still holds may be lost when the file is closed, which nobody
\* asks about.
RecvData ==
    /\ pc \in {"first", "more"} /\ (pc = "first" /\ op = "pull" => local[1] # Absent)
    /\ \/ /\ Read({"DATA"}) /\ Take(<<Head(fromDev).v>>)
          /\ Goto("more") /\ UNCHANGED <<len, cut>>
       \/ /\ Read({"DATA"}) /\ op = "pull" /\ Take(<<>>)  \* the file cannot be written
          /\ Return(1) /\ UNCHANGED <<len, cut>>
       \/ /\ Read({"DONE"}) /\ Take(<<>>)
          /\ len' = (IF op = "pull_buffer" THEN Len(buffer) ELSE len)
          /\ Quit(0) /\ UNCHANGED cut
       \/ /\ Read({"DONE"}) /\ op = "pull" /\ pc = "more"
          /\ \E n \in 0..(Len(local[1].data) - 1) : local' = [local EXCEPT ![1].data = SubSeq(@, 1, n)]
          /\ cut' = {1} /\ Quit(0) /\ UNCHANGED <<buffer, len>>
    /\ UNCHANGED <<args, progress, device>>

\* remote_error: the local file is removed, and 0 returned.
RemoteErrorKeepingFile ==
    /\ pc \in {"first", "more"} /\ Read({"FAIL"}) /\ Quit(0)
    /\ UNCHANGED <<args, progress, files, device>>

RemoteError ==
    /\ pc \in {"first", "more"} /\ Read({"FAIL"}) /\ Quit(0)
    /\ local' = (IF op = "pull" THEN [local EXCEPT ![1] = Absent] ELSE local)
    /\ UNCHANGED <<args, progress, buffer, len, cut, device>>

\* sync_ls reads the entries and tells nobody of them: filelist stays empty.
List ==
    /\ pc = "list" /\ Write(Msg("LIST", 1, 0)) /\ Goto("dents")
    /\ UNCHANGED <<args, progress, files, device>>

Dents ==
    /\ pc = "dents"
    /\ \/ Read({"DENT"}) /\ Goto("dents")
       \/ Read({"DONE"}) /\ Quit(0)
    /\ UNCHANGED <<args, progress, files, device>>

-------------------------------------------------------------------------------
\* sync_quit: asks adbd to close, and looks every 10 ms whether it did.
SyncQuitSilently ==
    /\ \/ pc = "quit" /\ pc' = "await_close"
       \/ pc = "await_close" /\ closed /\ pc' = "returned"
    /\ UNCHANGED <<args, progress, files, result, stream, device>>

SyncQuit ==
    /\ \/ pc = "quit" /\ Write(Msg("QUIT", 0, 0)) /\ pc' = "await_close"
       \/ pc \in {"quit", "await_close"} /\ Broken /\ pc' = "returned"
    /\ UNCHANGED <<args, progress, files, result, device>>

-------------------------------------------------------------------------------
(* External: adbd's sync service, and whatever else closes the stream.     *)
Reply(ms) == fromDev' = fromDev \o ms
Fail == Msg("FAIL", 0, 0)
Keep(f, c) == remote' = [remote EXCEPT ![f] = c]

DeviceStat(m) ==
    /\ m.cmd = "STAT"
    /\ Reply(<<Msg("STAT", 0, [time |-> remote[m.f].time, size |-> Len(remote[m.f].data)])>>)
    /\ UNCHANGED <<device, closed>>

\* A file is stored, or refused once and its data then ignored.
DeviceStore(m) ==
    /\ \/ /\ m.cmd = "SEND"
          /\ \/ storing' = m.f /\ Keep(m.f, Absent) /\ UNCHANGED fromDev
             \/ storing' = 0 /\ Reply(<<Fail>>) /\ UNCHANGED remote
       \/ /\ m.cmd = "DATA" /\ storing # 0
          /\ \/ Keep(storing, [remote[storing] EXCEPT !.data = Append(@, m.v)])
                /\ UNCHANGED <<storing, fromDev>>
             \/ storing' = 0 /\ Keep(storing, Absent) /\ Reply(<<Fail>>)
       \/ /\ m.cmd = "DONE" /\ storing # 0
          /\ Keep(storing, [remote[storing] EXCEPT !.time = m.v])
          /\ storing' = 0 /\ Reply(<<Msg("OKAY", 0, 0)>>)
       \/ m.cmd \in {"DATA", "DONE"} /\ storing = 0 /\ UNCHANGED <<storing, remote, fromDev>>
    /\ UNCHANGED closed

\* It may fail before the file, in the middle of it, or not at all.
DeviceSend(m) ==
    /\ m.cmd = "RECV"
    /\ LET chunks == [j \in DOMAIN remote[m.f].data |-> Msg("DATA", m.f, remote[m.f].data[j])] IN
       \/ Reply(Append(chunks, Msg("DONE", m.f, 0)))
       \/ \E j \in 0..Len(chunks) : Reply(Append(SubSeq(chunks, 1, j), Fail))
    /\ UNCHANGED <<device, closed>>

DeviceList(m) ==
    /\ m.cmd = "LIST"
    /\ \E names \in Listings(remote) :
           Reply([j \in DOMAIN names |-> Msg("DENT", names[j], 0)] \o <<Msg("DONE", 0, 0)>>)
    /\ UNCHANGED <<device, closed>>

DeviceQuit(m) == m.cmd = "QUIT" /\ closed' = TRUE /\ UNCHANGED <<device, fromDev>>

Device ==
    /\ ~closed /\ toDev # <<>>
    /\ toDev' = Tail(toDev)
    /\ LET m == Head(toDev) IN
       DeviceStat(m) \/ DeviceStore(m) \/ DeviceSend(m) \/ DeviceList(m) \/ DeviceQuit(m)
    /\ UNCHANGED <<args, pc, progress, files, result>>

\* The cable is pulled, adbd ends, or another call closes the channel.
Close ==
    /\ ~closed /\ closed' = TRUE
    /\ UNCHANGED <<args, pc, progress, files, result, toDev, fromDev, device>>

-------------------------------------------------------------------------------
Host ==
    \/ SyncConnect \/ Stat \/ StatReply \/ StartReadtime \/ FinishReadtime
    \/ Send \/ WriteData \/ Done \/ Status
    \/ Recv \/ CannotCreate \/ RecvData \/ RemoteError \/ List \/ Dents
    \/ SyncQuit \/ Fails

Next == Host \/ Device \/ Close

Spec == Init /\ [][Next]_vars

\* The caller's thread runs, and adbd answers; nobody has to close the stream.
FairSpec == Spec /\ WF_vars(Host) /\ WF_vars(Device)

-------------------------------------------------------------------------------
\* The variables have their types, and the loops stay within the list and the file
\* (file_class_sync_client.cpp 296-316, 891-921).
TypeOK ==
    /\ op \in Ops /\ kind \in {"none", "file", "dir", "other"}
    /\ pc \in {"connect", "stat", "mode", "start", "finish", "send", "data", "done", "status",
               "recv", "first", "more", "list", "dents", "quit", "await_close", "returned"}
    /\ Range(list) \subseteq Files /\ flag \subseteq Range(list)
    /\ at \in 1..(Len(list) + 1) /\ chunk \in Nat /\ storing \in 0..NumFiles
    /\ pc \in {"data", "done", "status"} =>
           at <= Len(list) /\ chunk <= Len(local[list[at]].data)
    /\ result \in {-1, 0, 1} /\ (pc = "returned" => result # -1)
    /\ len >= -1 /\ cut \subseteq Range(list) /\ closed \in BOOLEAN

Succeeded(ops) == pc = "returned" /\ result = 0 /\ op \in ops

\* The data is whole; where reading or writing was cut short, it is a beginning.
WholeUnlessCut(f, data, of) == data = of \/ (f \in cut /\ IsPrefix(data, of))

\* A push that reports success has stored every file it was about, whole and with
\* its time: although write errors are ignored and a refusal is only seen after all
\* the data.  Only of a file that could not be read to its end is there less, its
\* beginning (file_class_sync_client.cpp 279-320, 435-468).
PushSucceedsOnlyIfStored ==
    Succeeded({"push", "push_dir", "push_buffer"}) =>
        \A f \in Range(list) : /\ remote[f].time = local[f].time
                               /\ WholeUnlessCut(f, remote[f].data, local[f].data)

\* After a sync the device has every file with the size and the time it has here,
\* though the answers to the questions carry no name; a file that could not be read
\* to its end has its time, and no size beyond the one it has here
\* (file_class_sync_client.cpp 279-320, 890-921).
SyncLeavesNoDifference ==
    Succeeded({"sync"}) =>
        \A f \in Range(list) :
            /\ remote[f].time = local[f].time
            /\ \/ Len(remote[f].data) = Len(local[f].data)
               \/ f \in cut /\ Len(remote[f].data) < Len(local[f].data)

\* A pull that reports success leaves the whole file or none, or a beginning if the
\* file failed to close; a buffer whose length is reported holds the whole file
\* (file_class_sync_client.cpp 580-628, 663-703).
PulledIsWhole ==
    /\ Succeeded({"pull"}) /\ kind = "file" =>
           local[1] = Absent \/ WholeUnlessCut(1, local[1].data, remote[1].data)
    /\ Succeeded({"pull_buffer"}) /\ len # -1 =>
           buffer = remote[1].data /\ len = Len(remote[1].data)

\* Both directions implement Transfer: a file is never a mixture of two, nor out of
\* order, two are never written at once, and success leaves none half written but
\* those cut short here, wherever a refusal or a closed stream interrupts
\* (file_class_sync_client.cpp 278-468, 580-703).  A buffer is nobody's before its
\* length is set.
Pushing == op \in {"push", "push_dir", "sync", "push_buffer"}
DataOf(side) == [f \in Files |-> side[f].data]
Pulled == IF op = "pull" THEN DataOf(local)
          ELSE [f \in Files |-> IF f = 1 /\ len # -1 THEN buffer ELSE <<>>]
Goal == IF op = "pull" /\ kind # "file" THEN {} ELSE Range(list)
Source == IF Pushing THEN DataOf(local) ELSE DataOf(remote)
Store == IF Pushing THEN DataOf(remote) ELSE Pulled
InWork == IF Pushing THEN {storing} \ {0} ELSE IF op = "pull" /\ pc = "more" THEN {1} ELSE {}
Promised == INSTANCE Transfer WITH goal <- Goal, source <- Source, store <- Store, inWork <- InWork
KeepsPromise == Promised!Spec

\* Every transfer ends, whatever adbd refuses and whenever the stream is closed
\* (file_class_sync_client.cpp 129-146, 931-1272).
EveryTransferEnds == <>(pc = "returned")

\* "return is the recv length" (CAdb.h 42), where it is a success.
LengthIsReturned == Succeeded({"pull_buffer"}) => len = Len(buffer)

\* "Put the files/dirs in rpath on the lists" (file_class_sync_client.cpp 1036): a
\* directory pulled with success is here with the files it has there.
DirectoryIsPulled ==
    Succeeded({"pull"}) /\ kind = "dir" =>
        \A f \in Files : remote[f] # Absent => local[f] # Absent

\* "Open it once and then it can be created" (file_class_sync_client.cpp 119): a file
\* of the device can be pulled to a path where there is none yet.
FileIsCreated ==
    pc = "returned" /\ op = "pull" /\ kind = "file" /\ ~closed =>
        result = 0 \/ local[1] # Absent

\* "sync_send_success_len" (file_class_sync_client.cpp 316) is logged when what there
\* is of the file was sent: of a push that succeeds every file is stored whole.
SentIsWhole ==
    Succeeded({"push", "push_dir"}) =>
        \A f \in Range(list) : remote[f].data = local[f].data
===============================================================================
