------------------------------- MODULE Transport ------------------------------
(***************************************************************************)
(* The data pump of one Catransport (Catransport.cpp, adb_func.cpp): the   *)
(* threads Start creates, the two pipes between them, the semaphores that  *)
(* announce packets, and Clear, which stops everything.                    *)
(*                                                                         *)
(*   device -> output_thread -> b2a -> user_thread  (d_read_ctrol)         *)
(*   user_thread, clients    -> a2b -> input_thread -> device              *)
(*                                                     (d_write_ctrol)     *)
(*                                                                         *)
(* A thread that runs straight-line code over shared state has it queued   *)
(* in todo, one element per step another thread can see; pc is where it    *)
(* goes on afterwards.  A queue push and the tests before it are one step: *)
(* a packet pushed just after a kick is one pushed just before it.         *)
(***************************************************************************)
EXTENDS SemaphoreOps, Sequences, FiniteSets

CONSTANTS
    Clients,        \* user threads that send packets
    Closers,        \* user threads that call Clear once (UsbClose, RepleaseAdb)
    CanUnplug,      \* whether the cable may be pulled
    Slack,          \* initial count of d_write_ctrol and d_read_ctrol (5)
    MaxDevice,      \* bound: packets the device sends
    MaxSends        \* bound: packets the clients send

ASSUME TransportAssumption ==
    /\ IsFiniteSet(Clients) /\ IsFiniteSet(Closers)
    /\ (Clients \cup Closers) \cap {"starter", "output", "input", "user"} = {}
    /\ CanUnplug \in BOOLEAN /\ Slack \in Nat /\ MaxDevice \in Nat /\ MaxSends \in Nat

VARIABLES
    pipe,       \* a2b_bip.ptrlist and b2a_bip.ptrlist
    sem,        \* d_write_ctrol (under "a2b") and d_read_ctrol (under "b2a")
    kicked,     \* the transport's flag; adb_close sets the pipes' closed flags just
                \* after it and every test of them also tests kicked
    pc, todo,   \* per thread: where it is, the steps it is committed to
    ok,         \* output_thread: its last write_packet succeeded
    active,     \* input_thread's local flag
    online,     \* connection_state is CS_DEVICE
    refCount,   \* ref_count
    ignored,    \* input_thread has dropped a packet because it was not active
    firstOut,   \* the first packet input_thread handed to the USB endpoint
    received, sends \* bounds: packets the device and the clients have sent

vars == <<pipe, sem, kicked, pc, todo, ok, active, online, refCount,
          ignored, firstOut, received, sends>>

PumpThreads == {"output", "input", "user"}
Users == Clients \cup Closers
Threads == PumpThreads \cup {"starter"} \cup Users
Pipes == {"a2b", "b2a"}
Reader(p) == IF p = "a2b" THEN "input" ELSE "user"
Source(t) == IF t = "input" THEN "a2b" ELSE "b2a"
Live == {t \in PumpThreads : pc[t] \notin {"none", "exit"}}

-------------------------------------------------------------------------------
(* Straight-line code as sequences of steps.                               *)
Do(what) == [do |-> what]
On(what, p) == [do |-> what, pipe |-> p]
Create(t) == [do |-> "create", thread |-> t]

\* Semaphore::Signal on the semaphore of a pipe.
Signal(p) == <<On("add", p), On("notify", p)>>

\* write_packet: push the packet, then Signal, whether the push worked or not.
WriteOnlyAfterSuccess(p, packet) == <<[do |-> "push", pipe |-> p, packet |-> packet]>>

Write(p, packet) == <<[do |-> "push", pipe |-> p, packet |-> packet]>> \o Signal(p)

\* Clear: kick, adb_close, and a Signal for each of the two readers.  To kick a
\* transport that is kicked changes nothing, and is left out.
ClearWithoutSignals == <<Do("kick")>>

Clear == (IF kicked THEN <<>> ELSE <<Do("kick")>>) \o Signal("b2a") \o Signal("a2b")

\* Start creates the threads one after the other.
StartSteps == <<Create("input"), Create("output"), Create("user")>>

Init ==
    /\ pipe = [p \in Pipes |-> <<>>]
    /\ sem = [p \in Pipes |-> NewSem(Slack)]
    /\ kicked = FALSE
    /\ pc = [t \in Threads |-> IF t \in PumpThreads THEN "none" ELSE "idle"]
    /\ todo = [t \in Threads |-> IF t = "starter" THEN StartSteps ELSE <<>>]
    /\ ok = TRUE /\ active = FALSE /\ online = FALSE
    /\ refCount = 0 /\ ignored = FALSE /\ firstOut = "none"
    /\ received = 0 /\ sends = 0

-------------------------------------------------------------------------------
(* The steps of straight-line code.                                        *)
Committed(t, what) == todo[t] # <<>> /\ Head(todo[t]).do = what
Drop(t) == todo' = [todo EXCEPT ![t] = Tail(@)]

\* A pump thread that has finished its last Clear ends with --ref_count; nobody in this
\* module looks at ref_count in between.
Exit(t) ==
    IF pc[t] = "clear" /\ Tail(todo[t]) = <<>>
    THEN pc' = [pc EXCEPT ![t] = "exit"] /\ refCount' = refCount - 1
    ELSE UNCHANGED <<pc, refCount>>

\* usb_write_packet: onto the pipe unless the transport was kicked or closed.
Push(t) ==
    /\ Committed(t, "push") /\ Drop(t)
    /\ LET p == Head(todo[t]).pipe  packet == Head(todo[t]).packet IN
       IF kicked
       THEN /\ ok' = IF t = "output" THEN FALSE ELSE ok
            /\ UNCHANGED pipe
       ELSE /\ pipe' = [pipe EXCEPT ![p] = Append(@, packet)]
            /\ ok' = IF t = "output" THEN TRUE ELSE ok
    /\ UNCHANGED <<sem, kicked, pc, active, online, refCount, ignored,
                   firstOut, received, sends>>

SignalAdd(t) ==
    /\ Committed(t, "add") /\ Drop(t)
    /\ sem' = [sem EXCEPT ![Head(todo[t]).pipe] = Raised(@, 1)]
    /\ UNCHANGED <<pipe, kicked, pc, ok, active, online, refCount, ignored,
                   firstOut, received, sends>>

SignalNotify(t) ==
    /\ Committed(t, "notify") /\ Drop(t)
    /\ \E s \in Notified(sem[Head(todo[t]).pipe]) :
           sem' = [sem EXCEPT ![Head(todo[t]).pipe] = s]
    /\ Exit(t)
    /\ UNCHANGED <<pipe, kicked, ok, active, online, ignored, firstOut, received, sends>>

Kick(t) ==
    /\ Committed(t, "kick") /\ Drop(t)
    /\ kicked' = TRUE
    /\ Exit(t)
    /\ UNCHANGED <<pipe, sem, ok, active, online, ignored, firstOut, received, sends>>

\* Start creates a thread and counts it in ref_count, which nothing reads before
\* Start has returned.  output_thread begins by writing SYNC(1).
CreateThread(t) ==
    /\ Committed(t, "create")
    /\ LET new == Head(todo[t]).thread IN
       /\ pc' = [pc EXCEPT ![new] = IF new = "output" THEN "read" ELSE "check"]
       /\ todo' = [todo EXCEPT ![t] = Tail(@),
                               ![new] = IF new = "output" THEN Write("b2a", "SYNC1") ELSE <<>>]
    /\ refCount' = refCount + 1
    /\ UNCHANGED <<pipe, sem, kicked, ok, active, online, ignored,
                   firstOut, received, sends>>

Step(t) == \/ Push(t) \/ SignalAdd(t) \/ SignalNotify(t)
           \/ Kick(t) \/ CreateThread(t)

-------------------------------------------------------------------------------
(* Control that depends on what a thread finds; todo is empty.             *)
At(t, label) == pc[t] = label /\ todo[t] = <<>>
Goto(t, label, steps) ==
    /\ pc' = [pc EXCEPT ![t] = label]
    /\ todo' = [todo EXCEPT ![t] = steps]

\* A pump thread that leaves its loop calls Clear.
Leave(t) == Goto(t, "clear", Clear)

\* input_thread and the packet it took from a2b.
InputTakes(packet) ==
    CASE packet = "SYNC0" -> Leave("input") /\ UNCHANGED <<active, ignored>>
      [] packet = "SYNC1" -> Goto("input", "check", <<>>) /\ active' = TRUE /\ UNCHANGED ignored
      [] OTHER -> /\ UNCHANGED active
                  /\ IF active
                     THEN Goto("input", packet, <<>>) /\ UNCHANGED ignored
                     ELSE Goto("input", "check", <<>>) /\ ignored' = TRUE

\* handle_packet: what user_thread may send in answer to the packet it took.  A CNXN
\* is answered unless it puts the transport into CS_DEVICE.  "DATA" is every other
\* packet, AUTH, which is answered online or not, among them.
RepliesCnxnFirst(packet) ==
    CASE packet = "SYNC1" -> {Write("a2b", "CNXN") \o Write("a2b", "SYNC1")}
      [] packet = "SYNC0" -> {Write("a2b", "SYNC0")}
      [] OTHER -> {<<>>, Write("a2b", packet)}

Replies(packet) ==
    CASE packet = "SYNC1" -> {Write("a2b", "SYNC1") \o Write("a2b", "CNXN")}
      [] packet = "SYNC0" -> {Write("a2b", "SYNC0")}
      [] OTHER -> {<<>>, Write("a2b", packet)}

\* After it user_thread reads again: its own test of kicked and the one in
\* usb_read_packet leave the loop alike.
UserTakes(packet) ==
    \E steps \in Replies(packet) :
        /\ Goto("user", "check", steps)
        /\ online' = CASE packet = "CNXN" -> steps = <<>>
                       [] packet = "SYNC0" -> FALSE
                       [] OTHER -> online

\* The reader takes the head of its pipe.
Take(t) ==
    LET packet == Head(pipe[Source(t)]) IN
    /\ pipe' = [pipe EXCEPT ![Source(t)] = Tail(@)]
    /\ IF t = "input"
       THEN InputTakes(packet) /\ UNCHANGED online
       ELSE UserTakes(packet) /\ UNCHANGED <<active, ignored>>

\* usb_read_packet: fail, take a packet, or go and wait for one.
ReadCheck(t) ==
    /\ t \in {"input", "user"} /\ At(t, "check")
    /\ CASE kicked -> Leave(t) /\ UNCHANGED <<pipe, active, ignored, online>>
         [] ~kicked /\ pipe[Source(t)] # <<>> -> Take(t)
         [] OTHER -> Goto(t, "wait", <<>>) /\ UNCHANGED <<pipe, active, ignored, online>>
    /\ UNCHANGED <<sem, kicked, ok, refCount, firstOut, received, sends>>

\* After Wait, usb_read_packet pops before it looks at kicked and closed again.
PopAfterWait(t) ==
    IF pipe[Source(t)] # <<>>
    THEN Take(t)
    ELSE Goto(t, "check", <<>>) /\ UNCHANGED <<pipe, active, ignored, online>>

\* wait_for_usb_read_packet: Wait on the pipe's semaphore.
ReadWait(t) ==
    /\ t \in {"input", "user"} /\ At(t, "wait")
    /\ IF CanPass(sem[Source(t)])
       THEN /\ sem' = [sem EXCEPT ![Source(t)] = Passed(@)]
            /\ PopAfterWait(t)
       ELSE /\ sem' = [sem EXCEPT ![Source(t)] = Blocked(@, t)]
            /\ Goto(t, "blocked", <<>>)
            /\ UNCHANGED <<pipe, active, ignored, online>>
    /\ UNCHANGED <<kicked, ok, refCount, firstOut, received, sends>>

ReadResume(t) ==
    /\ t \in {"input", "user"} /\ At(t, "blocked") /\ t \in sem[Source(t)].woken
    /\ sem' = [sem EXCEPT ![Source(t)] = Resumed(@, t)]
    /\ PopAfterWait(t)
    /\ UNCHANGED <<kicked, ok, refCount, firstOut, received, sends>>

\* write_to_remote: it returns within its time-out and its result is not used.
UsbWrite ==
    /\ At("input", "CNXN") \/ At("input", "DATA")
    /\ firstOut' = IF firstOut = "none" THEN pc["input"] ELSE firstOut
    /\ Goto("input", "check", <<>>)
    /\ UNCHANGED <<pipe, sem, kicked, ok, active, online, refCount, ignored,
                   received, sends>>

\* output_thread after a write_packet that failed.
WriteFailed ==
    /\ At("output", "read") /\ ~ok
    /\ Leave("output")
    /\ UNCHANGED <<pipe, sem, kicked, ok, active, online, refCount, ignored,
                   firstOut, received, sends>>

\* read_from_remote returns a packet.  Nothing limits how long it takes.
UsbRead(packet) ==
    /\ At("output", "read") /\ ok /\ received < MaxDevice
    /\ received' = received + 1
    /\ Goto("output", "read", Write("b2a", packet))
    /\ UNCHANGED <<pipe, sem, kicked, ok, active, online, refCount, ignored,
                   firstOut, sends>>

\* read_from_remote fails: SYNC(0) for the others, then leave.
UsbReadFails ==
    /\ CanUnplug /\ At("output", "read") /\ ok
    /\ Goto("output", "clear", Write("b2a", "SYNC0") \o Clear)
    /\ UNCHANGED <<pipe, sem, kicked, ok, active, online, refCount, ignored,
                   firstOut, received, sends>>

\* A client that opens a stream looks for CS_DEVICE once; what it sends on the
\* stream, OPEN first, it sends without looking again.
ClientOpen(c) ==
    /\ At(c, "idle") /\ online
    /\ Goto(c, "open", <<>>)
    /\ UNCHANGED <<pipe, sem, kicked, ok, active, online, refCount, ignored,
                   firstOut, received, sends>>

ClientSend(c) ==
    /\ At(c, "open") /\ sends < MaxSends
    /\ sends' = sends + 1
    /\ Goto(c, "open", Write("a2b", "DATA"))
    /\ UNCHANGED <<pipe, sem, kicked, ok, active, online, refCount, ignored,
                   firstOut, received>>

CloserClear(c) ==
    /\ At(c, "idle") \/ At(c, "open")
    /\ Goto(c, "exit", Clear)
    /\ UNCHANGED <<pipe, sem, kicked, ok, active, online, refCount, ignored,
                   firstOut, received, sends>>

ThreadStep(t) ==
    \/ Step(t)
    \/ ReadCheck(t) \/ ReadWait(t) \/ ReadResume(t)
    \/ t = "input" /\ UsbWrite
    \/ t = "output" /\ WriteFailed

Next ==
    \/ \E t \in Threads : ThreadStep(t)
    \/ \E packet \in {"CNXN", "DATA"} : UsbRead(packet)
    \/ UsbReadFails
    \/ \E c \in Clients : ClientOpen(c) \/ ClientSend(c)
    \/ \E c \in Closers : CloserClear(c)

Spec == Init /\ [][Next]_vars

\* Every thread that can run does.  The device, the users and the cable owe
\* nothing: UsbRead, UsbReadFails, ClientOpen, ClientSend and CloserClear are not fair.
FairSpec == Spec /\ \A t \in Threads : WF_vars(ThreadStep(t))

\* The same with a cable that is pulled in the end: a usb_read that gets no
\* packet fails.
UnpluggedSpec == FairSpec /\ WF_vars(UsbReadFails)

-------------------------------------------------------------------------------
Packets == {"SYNC0", "SYNC1", "CNXN", "DATA"}
Steps == [do : {"push"}, pipe : Pipes, packet : Packets] \cup [do : {"add", "notify"}, pipe : Pipes]
         \cup [do : {"kick"}] \cup [do : {"create"}, thread : PumpThreads]

\* The variables have their types, and a reader is inside the condition variable
\* of its own pipe exactly while it is blocked there (Catransport.cpp 1185-1232).
TypeOK ==
    /\ \A p \in Pipes :
          /\ \A i \in DOMAIN pipe[p] : pipe[p][i] \in Packets
          /\ sem[p] \in SemType({Reader(p)})
          /\ sem[p].blocked \cap sem[p].woken = {}
          /\ Reader(p) \in sem[p].blocked \cup sem[p].woken <=> pc[Reader(p)] = "blocked"
    /\ \A t \in Threads : \A i \in DOMAIN todo[t] : todo[t][i] \in Steps
    /\ kicked \in BOOLEAN /\ ok \in BOOLEAN
    /\ active \in BOOLEAN /\ online \in BOOLEAN
    /\ refCount \in -3..3 /\ ignored \in BOOLEAN
    /\ received \in 0..MaxDevice /\ sends \in 0..MaxSends

\* The SYNC that output_thread sends through user_thread reaches input_thread
\* before anything meant for the device does: nothing is dropped as "offline",
\* and the device hears CNXN first (adb_func.cpp 473-482, 552-577,
\* Catransport.cpp 310-321).
SyncFirst == ~ignored /\ firstOut \in {"none", "CNXN"}

\* Threads that still have a Signal of pipe p to begin or to finish.
Signalling(p) == {t \in Threads : \E i \in DOMAIN todo[t] :
                     todo[t][i] \in {On("add", p), On("notify", p)}}
Asleep(t) == pc[t] = "blocked" /\ t \notin sem[Source(t)].woken
Writers(p) == IF p = "a2b" THEN {"user"} \cup Clients ELSE {"output"}

\* The transport is kicked and every Clear that was begun has finished.
Cleared == kicked /\ \A t \in Threads : todo[t] = <<>>
NoSleeper == \A t \in {"input", "user"} : ~Asleep(t)

\* The semaphores lose wakeups (late notify_one, negative count_), but not for long: a
\* reader that sleeps while nobody Signals its pipe has missed, of the packets in it
\* and of the Clears that were finished, no more than the pipe has writers, since an
\* overdraft grows by one per writer and ends with the kick.  So user_thread, whose
\* pipe has one writer, sleeps neither beside two packets, nor beside one once a
\* thread has left, nor once two have (Catransport.cpp 117-124, 1067-1072, 1185-1194,
\* adb_func.cpp 504-524, 581-586, 621-626, Semaphore.h 13-27).
Left == {t \in PumpThreads \cup Closers : pc[t] = "exit"}
MissedBound ==
    \A p \in Pipes : Asleep(Reader(p)) /\ Signalling(p) = {}
                        => Len(pipe[p]) + Cardinality(Left) <= Cardinality(Writers(p))

\* "The purpose of this class is to manage memory with smart pointers: the last
\* one to exit closes the USB channel and frees all memory" (Catransport.h 9): once
\* output_thread and a reader have left, the other does not sleep.  It is so without
\* clients; with them more wakeups can be lost than there are Signals to come.
LastClearWakesReaders ==
    Cleared /\ todo["starter"] = <<>> /\ pc["output"] = "exit"
        /\ (\A t \in {"input", "user"} : pc[t] = "exit" \/ Asleep(t))
    => NoSleeper

\* "The purpose of this class is to manage memory with smart pointers: the last
\* one to exit closes the USB channel and frees all memory" (Catransport.h 9):
\* Clear, whose Signals are there for it (Catransport.cpp 121-122), leaves no
\* reader asleep with its pointer.
ClearWakesReaders ==
    Cleared /\ (\A t \in {"input", "user"} : pc[t] = "exit" \/ Asleep(t)) => NoSleeper

\* When usb_read fails, or after Clear if it returns at all, every thread of the
\* pump leaves and ref_count reaches 0, which ~Catransport waits for, as long as no
\* client has sent (Catransport.cpp 43-47, adb_func.cpp 504-524, 581-586, 621-626).
ShutdownCompletes == kicked ~> refCount = 0

\* "The purpose of this class is to manage memory with smart pointers: the last
\* one to exit closes the USB channel and frees all memory" (Catransport.h 9):
\* after Clear the threads, which hold those pointers, end by themselves.
ClearReleases == kicked ~> refCount = 0

\* "Notify the receiving side to receive" (Catransport.cpp 1067): a packet queued
\* for the device is taken from the pipe unless the transport is kicked.
QueuedIsTaken == pipe["a2b"] # <<>> ~> (pipe["a2b"] = <<>> \/ kicked)
===============================================================================
