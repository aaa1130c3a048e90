------------------------------- MODULE Channels -------------------------------
(***************************************************************************)
(* The channel table of one Catransport (Catransport.cpp, Catransport.h    *)
(* 18-44) and everything that works on it: the users' calls, the           *)
(* OKAY/CLSE/WRTE half of handle_packet run by user_thread, Clear, and,    *)
(* external, the adbd at the other end of the cable.                       *)
(*                                                                         *)
(* The transport is two FIFOs (module Transport).  Opens are numbered; the *)
(* number stands for the device's id of the stream too, since adbd never   *)
(* uses an id twice, and for the data of the stream.                       *)
(***************************************************************************)
EXTENDS SemaphoreOps, Sequences, FiniteSets

CONSTANTS
    Clients,        \* user threads, each with one CAdb at a time
    NumSlots,       \* length of userlist (client_list_max)
    Kinds,          \* what clients open: "shell", "forward", "toolong"
    MaxOpens,       \* bound: OPENs sent
    MaxData,        \* bound: packets the device sends on each stream
    MaxWrites,      \* bound: packets the clients write
    MaxClears       \* bound: calls of Clear

ASSUME ChannelsAssumption ==
    /\ IsFiniteSet(Clients) /\ NumSlots \in Nat \ {0}
    /\ Clients \cap {"user_thread", "closer"} = {}
    /\ Kinds \subseteq {"shell", "forward", "toolong"}
    /\ MaxOpens \in Nat /\ MaxData \in Nat /\ MaxWrites \in Nat /\ MaxClears \in Nat

VARIABLES
    user, biptype, remote_id, connected, ptrlist, sem,  \* aclient, per slot
    current,    \* per slot: the open its user last sent, 0 after client_clear
    locked,     \* bip_lock is held for writing across a notify
    kicked,     \* the transport's flag
    pc, mine,   \* per client: where it is, the slot it has (0: none)
    want,       \* per client: the type its local_client_type_set call sets
    rid,        \* per client: shell_recv's and client_read's copy of remote_id
    todo,       \* steps user_thread, Clear and client_free_id are committed to
    toDev, fromDev,             \* the transport
    live, credit, left, slotOf, \* external: adbd's streams
    opens, writes, clears       \* bounds

table == <<user, biptype, remote_id, connected, ptrlist, sem, current, locked>>
calls == <<pc, mine, want, rid>>
adbd == <<live, credit, left, slotOf>>
counts == <<opens, writes, clears>>
vars == <<table, kicked, calls, todo, toDev, fromDev, adbd, counts>>

Slots == 1..NumSlots
Opens == 1..MaxOpens
Workers == {"user_thread", "closer"} \cup Clients
Msg(cmd, n, l) == [cmd |-> cmd, n |-> n, l |-> l]

Init ==
    /\ user = [l \in Slots |-> FALSE]
    /\ biptype = [l \in Slots |-> "close"]
    /\ remote_id = [l \in Slots |-> 0]
    /\ connected = [l \in Slots |-> FALSE]
    /\ ptrlist = [l \in Slots |-> <<>>]
    /\ sem = [l \in Slots |-> NewSem(0)]
    /\ current = [l \in Slots |-> 0]
    /\ locked = FALSE /\ kicked = FALSE
    /\ pc = [c \in Clients |-> "out"]
    /\ mine = [c \in Clients |-> 0]
    /\ want = [c \in Clients |-> "close"]
    /\ rid = [c \in Clients |-> 0]
    /\ todo = [w \in Workers |-> <<>>]
    /\ toDev = <<>> /\ fromDev = <<>>
    /\ live = {} /\ credit = {}
    /\ left = [n \in Opens |-> MaxData]
    /\ slotOf = [n \in Opens |-> 0]
    /\ opens = 0 /\ writes = 0 /\ clears = 0

\* send_packet: nothing is queued once the transport is kicked.  A READY right
\* behind the same READY is left out: it tells adbd nothing new.
Repeated(msgs) ==
    msgs # <<>> /\ toDev # <<>> /\ Head(msgs).cmd = "READY" /\ Head(msgs) = toDev[Len(toDev)]
Sent(msgs) ==
    IF kicked THEN toDev ELSE toDev \o (IF Repeated(msgs) THEN Tail(msgs) ELSE msgs)

\* send_ready and send_close do nothing without a remote id.
ToRemote(cmd, n, l) == IF n > 0 THEN <<Msg(cmd, n, l)>> ELSE <<>>

\* client_get_ptr: the slot's object, if somebody uses it; takes bip_lock.
Present(l) == user[l]

-------------------------------------------------------------------------------
(* Straight-line code on a slot, one element per step others can see.      *)
Do(what, l, n) == [do |-> what, l |-> l, n |-> n]
Notify(l) == <<Do("add", l, 0), Do("notify", l, 0)>>

Committed(w, what) == todo[w] # <<>> /\ Head(todo[w]).do = what
Drop(w) == todo' = [todo EXCEPT ![w] = Tail(@)]
Quiet(w) == todo[w] = <<>>

\* biptype = bipbuffer_close, in the CLSE case.
StepType(w) ==
    /\ Committed(w, "type") /\ Drop(w)
    /\ biptype' = [biptype EXCEPT ![Head(todo[w]).l] = "close"]
    /\ UNCHANGED <<user, remote_id, connected, ptrlist, sem, current, locked,
                   kicked, calls, toDev, fromDev, adbd, counts>>

\* local_client_enqueue: onto ptrlist.
StepPush(w) ==
    /\ Committed(w, "push") /\ Drop(w)
    /\ ptrlist' = [ptrlist EXCEPT ![Head(todo[w]).l] = Append(@, Head(todo[w]).n)]
    /\ UNCHANGED <<user, biptype, remote_id, connected, sem, current, locked,
                   kicked, calls, toDev, fromDev, adbd, counts>>

\* remote_id, which OKAY, CLSE and WRTE set, and then connected, in OKAY and CLSE.
StepRid(w) ==
    /\ Committed(w, "rid") /\ Drop(w)
    /\ remote_id' = [remote_id EXCEPT ![Head(todo[w]).l] = Head(todo[w]).n]
    /\ UNCHANGED <<user, biptype, connected, ptrlist, sem, current, locked,
                   kicked, calls, toDev, fromDev, adbd, counts>>

StepConnected(w) ==
    /\ Committed(w, "connected") /\ Drop(w)
    /\ connected' = [connected EXCEPT ![Head(todo[w]).l] = Head(todo[w]).n > 0]
    /\ UNCHANGED <<user, biptype, remote_id, ptrlist, sem, current, locked,
                   kicked, calls, toDev, fromDev, adbd, counts>>

StepAdd(w) ==
    /\ Committed(w, "add") /\ Drop(w)
    /\ sem' = [sem EXCEPT ![Head(todo[w]).l] = Raised(@, 1)]
    /\ UNCHANGED <<user, biptype, remote_id, connected, ptrlist, current, locked,
                   kicked, calls, toDev, fromDev, adbd, counts>>

\* notify_one.  Clear and client_free_id release bip_lock after their last one.
StepNotify(w) ==
    /\ Committed(w, "notify") /\ Drop(w)
    /\ \E s \in Notified(sem[Head(todo[w]).l]) :
           sem' = [sem EXCEPT ![Head(todo[w]).l] = s]
    /\ locked' = (locked /\ (w = "user_thread" \/ Tail(todo[w]) # <<>>))
    /\ UNCHANGED <<user, biptype, remote_id, connected, ptrlist, current,
                   kicked, calls, toDev, fromDev, adbd, counts>>

Step(w) == \/ StepType(w) \/ StepPush(w) \/ StepRid(w) \/ StepConnected(w)
           \/ StepAdd(w) \/ StepNotify(w)

-------------------------------------------------------------------------------
(* user_thread: the A_OKAY, A_CLSE and A_WRTE cases of handle_packet.      *)
(* Each looks the channel up and answers the device, and then works on the *)
(* channel.                                                                *)
Answer(m) ==
    CASE m.cmd = "OKAY" -> ToRemote(IF Present(m.l) THEN "READY" ELSE "CLSE", m.n, m.l)
      [] m.cmd = "CLSE" -> ToRemote("CLSE", m.n, m.l)
      [] m.cmd = "WRTE" -> IF Present(m.l) THEN <<>> ELSE ToRemote("CLSE", m.n, m.l)

WorkKeepingType(m) ==
    CASE m.cmd = "OKAY" -> <<Do("rid", m.l, m.n), Do("connected", m.l, m.n)>> \o Notify(m.l)
      [] m.cmd = "CLSE" -> <<Do("rid", m.l, 0), Do("connected", m.l, 0)>> \o Notify(m.l)
      [] m.cmd = "WRTE" -> <<Do("push", m.l, m.n), Do("rid", m.l, m.n)>> \o Notify(m.l)

Work(m) ==
    CASE m.cmd = "OKAY" -> <<Do("rid", m.l, m.n), Do("connected", m.l, m.n)>> \o Notify(m.l)
      [] m.cmd = "CLSE" -> <<Do("type", m.l, 0), Do("rid", m.l, 0), Do("connected", m.l, 0)>>
                               \o Notify(m.l)
      [] m.cmd = "WRTE" -> <<Do("push", m.l, m.n), Do("rid", m.l, m.n)>> \o Notify(m.l)

HandlePacket ==
    /\ Quiet("user_thread") /\ ~kicked /\ ~locked /\ fromDev # <<>>
    /\ LET m == Head(fromDev) IN
       /\ toDev' = Sent(Answer(m))
       /\ todo' = [todo EXCEPT !["user_thread"] = IF Present(m.l) THEN Work(m) ELSE <<>>]
    /\ fromDev' = Tail(fromDev)
    /\ UNCHANGED <<table, kicked, calls, adbd, counts>>

-------------------------------------------------------------------------------
(* Clear: kicked, and then free_ctrol, one slot after the other under      *)
(* bip_lock.                                                               *)
ClearCall ==
    /\ clears < MaxClears /\ Quiet("closer")
    /\ clears' = clears + 1
    /\ kicked' = TRUE
    /\ toDev' = <<>>
    /\ todo' = [todo EXCEPT !["closer"] = <<Do("lock", 0, 0)>>]
    /\ UNCHANGED <<table, calls, fromDev, adbd, opens, writes>>

StepLock ==
    /\ Committed("closer", "lock") /\ ~locked
    /\ locked' = TRUE
    /\ todo' = [todo EXCEPT !["closer"] = [l \in Slots |-> Do("free", l, 0)]]
    /\ UNCHANGED <<user, biptype, remote_id, connected, ptrlist, sem, current,
                   kicked, calls, toDev, fromDev, adbd, counts>>

StepFree ==
    /\ Committed("closer", "free")
    /\ LET l == Head(todo["closer"]).l
           rest == (IF user[l] THEN Notify(l) ELSE <<>>) \o Tail(todo["closer"]) IN
       /\ user' = [user EXCEPT ![l] = FALSE]
       /\ todo' = [todo EXCEPT !["closer"] = rest]
       /\ locked' = (rest # <<>>)
    /\ UNCHANGED <<biptype, remote_id, connected, ptrlist, sem, current,
                   kicked, calls, toDev, fromDev, adbd, counts>>

-------------------------------------------------------------------------------
(* The users' calls.                                                       *)
Goto(c, label) == pc' = [pc EXCEPT ![c] = label]

\* A call returns; ~CAdb goes on to free the channel whatever Close returned.
Return(c) == Goto(c, IF want[c] = "destroy" THEN "free" ELSE "idle")

\* The copy of remote_id goes with the call that made it.
Stop(c) == Return(c) /\ rid' = [rid EXCEPT ![c] = 0]

\* What an iteration of a call does to pc alone.
OnlyPc(c) == UNCHANGED <<table, kicked, mine, want, rid, todo, toDev, fromDev, adbd, counts>>

\* CAdb::CAdb: kicked is tested, and then client_get_id runs.
Construct(c) ==
    /\ pc[c] = "out" /\ ~kicked
    /\ Goto(c, "ctor") /\ OnlyPc(c)

\* client_init: an empty, closed, unused channel.
ClearedKeepingQueue(l) ==
    /\ sem' = [sem EXCEPT ![l] = ResetSem(@)]
    /\ current' = [current EXCEPT ![l] = 0]
    /\ UNCHANGED ptrlist

Cleared(l) ==
    /\ ptrlist' = [ptrlist EXCEPT ![l] = <<>>]
    /\ sem' = [sem EXCEPT ![l] = ResetSem(@)]
    /\ current' = [current EXCEPT ![l] = 0]

ClientInit(l) ==
    /\ Cleared(l)
    /\ biptype' = [biptype EXCEPT ![l] = "close"]
    /\ connected' = [connected EXCEPT ![l] = FALSE]
    /\ remote_id' = [remote_id EXCEPT ![l] = 0]

\* client_get_id: the first slot nobody uses; none left fails the constructor.
ClientGetIdUnmarked(c) ==
    /\ pc[c] = "ctor" /\ ~locked
    /\ LET l == CHOOSE l \in Slots : ~user[l] /\ \A k \in Slots : ~user[k] => l <= k IN
       /\ ClientInit(l)
       /\ mine' = [mine EXCEPT ![c] = l]
       /\ want' = [want EXCEPT ![c] = "close"]
       /\ Goto(c, "idle")
       /\ UNCHANGED <<user, locked>>
    /\ UNCHANGED <<kicked, rid, todo, toDev, fromDev, adbd, counts>>

ClientGetId(c) ==
    /\ pc[c] = "ctor" /\ ~locked
    /\ IF \A l \in Slots : user[l]
       THEN Goto(c, "out") /\ UNCHANGED <<table, mine, want>>
       ELSE LET l == CHOOSE l \in Slots : ~user[l] /\ \A k \in Slots : ~user[k] => l <= k IN
            /\ ClientInit(l)
            /\ user' = [user EXCEPT ![l] = TRUE]
            /\ mine' = [mine EXCEPT ![c] = l]
            /\ want' = [want EXCEPT ![c] = "close"]
            /\ Goto(c, "idle")
            /\ UNCHANGED locked
    /\ UNCHANGED <<kicked, rid, todo, toDev, fromDev, adbd, counts>>

\* Clients that are to send an OPEN.
Opening == {c \in Clients : /\ want[c] \in Kinds
                            /\ pc[c] \in {"type", "opening", "opening_wait", "closing",
                                         "closing_wait", "clear", "open"}}

\* shell_send, forward_connect, Close and ~CAdb call local_client_type_set.  Of
\* these shell_send alone tests kicked.
Call(c, type) ==
    /\ pc[c] = "idle"
    /\ type \in {"shell", "toolong"} => ~kicked
    /\ type \in Kinds => opens + Cardinality(Opening) < MaxOpens
    /\ want' = [want EXCEPT ![c] = type]
    /\ Goto(c, "type")
    /\ UNCHANGED <<table, kicked, mine, rid, todo, toDev, fromDev, adbd, counts>>

\* local_client_type_set: get the channel and see whether it is open.
TypeSetBegin(c) ==
    /\ pc[c] = "type" /\ ~locked
    /\ IF ~Present(mine[c]) THEN Return(c)
       ELSE Goto(c, IF biptype[mine[c]] = "close" THEN "clear" ELSE "opening")
    /\ OnlyPc(c)

\* An OPEN is on its way: wait for its answer.  Then close the stream.
TypeSetOpeningImpatient(c) ==
    LET l == mine[c] IN
    /\ pc[c] = "opening"
    /\ toDev' = Sent(ToRemote("READY", remote_id[l], l) \o ToRemote("CLSE", remote_id[l], l))
    /\ Goto(c, IF remote_id[l] > 0 THEN "closing" ELSE "clear")
    /\ UNCHANGED <<table, kicked, mine, want, rid, todo, fromDev, adbd, counts>>

TypeSetOpening(c) ==
    LET l == mine[c] IN
    /\ pc[c] = "opening"
    /\ IF remote_id[l] = 0 /\ biptype[l] # "close"
       THEN /\ IF kicked THEN Return(c) ELSE Goto(c, "opening_wait")
            /\ UNCHANGED toDev
       ELSE /\ toDev' = Sent(ToRemote("READY", remote_id[l], l) \o ToRemote("CLSE", remote_id[l], l))
            /\ Goto(c, "closing")
    /\ UNCHANGED <<table, kicked, mine, want, rid, todo, fromDev, adbd, counts>>

\* Wait until the device has closed it.
TypeSetClosingAtOnce(c) ==
    /\ pc[c] = "closing"
    /\ Goto(c, "clear")
    /\ OnlyPc(c)

TypeSetClosing(c) ==
    /\ pc[c] = "closing"
    /\ IF biptype[mine[c]] = "close" THEN Goto(c, "clear")
       ELSE IF kicked THEN Return(c) ELSE Goto(c, "closing_wait")
    /\ OnlyPc(c)

\* client_clear, and the new type.
TypeSetDone(c) ==
    LET l == mine[c] IN
    /\ pc[c] = "clear"
    /\ Cleared(l)
    /\ biptype' = [biptype EXCEPT ![l] = IF want[c] \in Kinds THEN want[c] ELSE "close"]
    /\ IF want[c] \in Kinds THEN Goto(c, "open") ELSE Return(c)
    /\ UNCHANGED <<user, remote_id, connected, locked, kicked, mine, want, rid, todo,
                   toDev, fromDev, adbd, counts>>

\* connect_to_remote: send OPEN.  A destination longer than 1024 bytes is refused
\* by smart_local_remote_enqueue before that.
Open(c) ==
    LET l == mine[c] IN
    /\ pc[c] = "open"
    /\ IF want[c] = "toolong"
       THEN Return(c) /\ UNCHANGED <<toDev, opens, current, slotOf>>
       ELSE /\ opens' = opens + 1
            /\ toDev' = Sent(<<Msg("OPEN", opens + 1, l)>>)
            /\ current' = [current EXCEPT ![l] = opens + 1]
            /\ slotOf' = [slotOf EXCEPT ![opens + 1] = l]
            /\ Goto(c, "connect")
    /\ UNCHANGED <<user, biptype, remote_id, connected, ptrlist, sem, locked, kicked,
                   mine, want, rid, todo, fromDev, live, credit, left,
                   writes, clears>>

\* Wait for the answer, unless the channel is gone.
Connect(c) ==
    /\ pc[c] = "connect" /\ ~locked
    /\ Goto(c, IF Present(mine[c]) THEN "connect_wait" ELSE "connected")
    /\ OnlyPc(c)

\* The caller tests connected and reports it.
Connected(c) ==
    /\ pc[c] = "connected"
    /\ Return(c) /\ OnlyPc(c)

\* shell_recv and client_read copy remote_id once.  forward_read wants an open
\* channel; shell_recv drains a closed one.
RecvBegin(c) ==
    /\ pc[c] = "idle" /\ ~locked /\ Present(mine[c])
    /\ want[c] = "forward" => biptype[mine[c]] = "forward"
    /\ rid' = [rid EXCEPT ![c] = remote_id[mine[c]]]
    /\ Goto(c, "recv")
    /\ UNCHANGED <<table, kicked, mine, want, todo, toDev, fromDev, adbd, counts>>

\* One iteration: READY, and the next packet if there is one.  client_read stops
\* at a closed channel even if packets are left, and once it has enough.
Recv(c) ==
    LET l == mine[c] IN
    /\ pc[c] = "recv"
    /\ IF kicked \/ (want[c] = "forward" /\ biptype[l] = "close")
       THEN Stop(c) /\ UNCHANGED <<toDev, ptrlist>>
       ELSE /\ toDev' = Sent(ToRemote("READY", rid[c], l))
            /\ IF ptrlist[l] = <<>>
               THEN Goto(c, "recv_empty") /\ UNCHANGED <<ptrlist, rid>>
               ELSE /\ ptrlist' = [ptrlist EXCEPT ![l] = Tail(@)]
                    /\ \/ Goto(c, "recv") /\ UNCHANGED rid
                       \/ want[c] = "forward" /\ Stop(c)
    /\ UNCHANGED <<user, biptype, remote_id, connected, sem, current, locked, kicked,
                   mine, want, todo, fromDev, adbd, counts>>

\* Nothing was there: the end of a shell whose channel is closed, else wait.
RecvEmpty(c) ==
    /\ pc[c] = "recv_empty"
    /\ IF want[c] # "forward" /\ biptype[mine[c]] = "close"
       THEN Stop(c)
       ELSE Goto(c, "recv_wait") /\ UNCHANGED rid
    /\ UNCHANGED <<table, kicked, mine, want, todo, toDev, fromDev, adbd, counts>>

\* aclient::wait, and where the caller goes on after it.
AfterWait == [opening_wait |-> "opening", closing_wait |-> "closing",
              connect_wait |-> "connected", recv_wait |-> "recv"]
Sleeping(c) == pc[c] \in DOMAIN AfterWait /\ c \in sem[mine[c]].blocked \cup sem[mine[c]].woken

Wait(c) ==
    LET l == mine[c] IN
    /\ pc[c] \in DOMAIN AfterWait /\ ~Sleeping(c)
    /\ IF CanPass(sem[l])
       THEN sem' = [sem EXCEPT ![l] = Passed(@)] /\ Goto(c, AfterWait[pc[c]])
       ELSE sem' = [sem EXCEPT ![l] = Blocked(@, c)] /\ UNCHANGED pc
    /\ UNCHANGED <<user, biptype, remote_id, connected, ptrlist, current, locked, kicked,
                   mine, want, rid, todo, toDev, fromDev, adbd, counts>>

WaitResume(c) ==
    LET l == mine[c] IN
    /\ pc[c] \in DOMAIN AfterWait /\ c \in sem[l].woken
    /\ sem' = [sem EXCEPT ![l] = Resumed(@, c)]
    /\ Goto(c, AfterWait[pc[c]])
    /\ UNCHANGED <<user, biptype, remote_id, connected, ptrlist, current, locked, kicked,
                   mine, want, rid, todo, toDev, fromDev, adbd, counts>>

\* A read with a time limit gives up.
RecvTimeout(c) ==
    LET l == mine[c] IN
    /\ pc[c] = "recv_wait" /\ c \in sem[l].blocked
    /\ sem' = [sem EXCEPT ![l] = TimedOut(@, c)]
    /\ Stop(c)
    /\ UNCHANGED <<user, biptype, remote_id, connected, ptrlist, current, locked, kicked,
                   mine, want, todo, toDev, fromDev, adbd, counts>>

\* local_remote_enqueue: biptype and kicked are tested, then remote_id is read.
WriteBegin(c) ==
    /\ pc[c] = "idle" /\ ~locked /\ writes < MaxWrites
    /\ Present(mine[c]) /\ biptype[mine[c]] # "close" /\ ~kicked
    /\ Goto(c, "write") /\ OnlyPc(c)

Write(c) ==
    /\ pc[c] = "write"
    /\ writes' = writes + 1
    /\ toDev' = Sent(<<Msg("WRTE", remote_id[mine[c]], mine[c])>>)
    /\ Goto(c, "idle")
    /\ UNCHANGED <<table, kicked, mine, want, rid, todo, fromDev, adbd, opens, clears>>

\* client_free_id: client_init under bip_lock, and then notify.
ClientFreeId(c) ==
    LET l == mine[c] IN
    /\ pc[c] = "free" /\ ~locked
    /\ ClientInit(l)
    /\ user' = [user EXCEPT ![l] = FALSE]
    /\ locked' = TRUE
    /\ todo' = [todo EXCEPT ![c] = Notify(l)]
    /\ mine' = [mine EXCEPT ![c] = 0]
    /\ Goto(c, "out")
    /\ UNCHANGED <<kicked, want, rid, toDev, fromDev, adbd, counts>>

-------------------------------------------------------------------------------
(* External: adbd, one handler per message and its own initiatives.        *)
Receive(m) ==
    CASE m.cmd = "OPEN" ->
            \/ /\ live' = live \cup {m.n} /\ credit' = credit \cup {m.n}
               /\ fromDev' = Append(fromDev, Msg("OKAY", m.n, m.l))
            \/ /\ fromDev' = Append(fromDev, Msg("CLSE", 0, m.l))
               /\ UNCHANGED <<live, credit>>
      [] m.cmd = "READY" ->
            /\ credit' = IF m.n \in live THEN credit \cup {m.n} ELSE credit
            /\ UNCHANGED <<live, fromDev>>
      [] m.cmd = "CLSE" /\ m.n \in live ->
            /\ live' = live \ {m.n} /\ credit' = credit \ {m.n}
            /\ fromDev' = Append(fromDev, Msg("CLSE", m.n, slotOf[m.n]))
      [] m.cmd = "WRTE" /\ m.n \in live ->
            /\ fromDev' = Append(fromDev, Msg("OKAY", m.n, slotOf[m.n]))
            /\ UNCHANGED <<live, credit>>
      [] OTHER -> UNCHANGED <<live, credit, fromDev>>

DeviceReceive ==
    /\ toDev # <<>> /\ ~kicked
    /\ toDev' = Tail(toDev)
    /\ Receive(Head(toDev))
    /\ UNCHANGED <<table, kicked, calls, todo, left, slotOf, counts>>

DeviceSend(n) ==
    /\ n \in live \cap credit /\ left[n] > 0 /\ ~kicked
    /\ left' = [left EXCEPT ![n] = @ - 1]
    /\ credit' = credit \ {n}
    /\ fromDev' = Append(fromDev, Msg("WRTE", n, slotOf[n]))
    /\ UNCHANGED <<table, kicked, calls, todo, toDev, live, slotOf, counts>>

DeviceClose(n) ==
    /\ n \in live /\ ~kicked
    /\ live' = live \ {n} /\ credit' = credit \ {n}
    /\ fromDev' = Append(fromDev, Msg("CLSE", n, slotOf[n]))
    /\ UNCHANGED <<table, kicked, calls, todo, toDev, left, slotOf, counts>>

-------------------------------------------------------------------------------
\* What a client inside a call does next.
InCall(c) ==
    \/ TypeSetBegin(c) \/ TypeSetOpening(c) \/ TypeSetClosing(c) \/ TypeSetDone(c)
    \/ Open(c) \/ Connect(c) \/ Connected(c)
    \/ Recv(c) \/ RecvEmpty(c) \/ Wait(c) \/ WaitResume(c)
    \/ Write(c) \/ ClientFreeId(c)

Client(c) ==
    /\ Quiet(c)
    /\ \/ Construct(c) \/ ClientGetId(c)
       \/ \E type \in Kinds \cup {"close", "destroy"} : Call(c, type)
       \/ RecvBegin(c) \/ RecvTimeout(c) \/ WriteBegin(c)
       \/ InCall(c)

Next ==
    \/ \E w \in Workers : Step(w)
    \/ HandlePacket \/ ClearCall \/ StepLock \/ StepFree
    \/ \E c \in Clients : Client(c)
    \/ DeviceReceive
    \/ \E n \in Opens : DeviceSend(n) \/ DeviceClose(n)

Spec == Init /\ [][Next]_vars

\* The threads run and adbd answers.  What users start, when a device sends or
\* closes by itself, and time-outs are not owed.
FairSpec ==
    /\ Spec
    /\ \A w \in Workers : WF_vars(Step(w))
    /\ WF_vars(HandlePacket) /\ WF_vars(StepLock) /\ WF_vars(StepFree)
    /\ WF_vars(DeviceReceive)
    /\ \A c \in Clients : WF_vars(Quiet(c) /\ InCall(c))

-------------------------------------------------------------------------------
InOpenOrClose(c) == pc[c] \in {"type", "opening", "opening_wait", "closing", "closing_wait",
                               "clear", "open", "connect", "connect_wait", "connected", "free"}

\* Messages on their way that name slot l.
InFlight(l) == {i \in DOMAIN toDev : toDev[i].cmd = "OPEN" /\ toDev[i].l = l}
               \cup {i \in DOMAIN fromDev : fromDev[i].l = l}

\* The variables have their types, and a client is inside the condition variable
\* only in a wait of its own (Catransport.h 18-44).
TypeOK ==
    /\ user \in [Slots -> BOOLEAN] /\ connected \in [Slots -> BOOLEAN]
    /\ biptype \in [Slots -> Kinds \cup {"close"}]
    /\ remote_id \in [Slots -> 0..MaxOpens] /\ current \in [Slots -> 0..MaxOpens]
    /\ \A l \in Slots : /\ ptrlist[l] \in Seq(Opens)
                        /\ sem[l] \in SemType(Clients)
                        /\ \A c \in sem[l].blocked \cup sem[l].woken :
                              pc[c] \in DOMAIN AfterWait /\ mine[c] = l
    /\ locked \in BOOLEAN /\ kicked \in BOOLEAN
    /\ mine \in [Clients -> Slots \cup {0}] /\ rid \in [Clients -> 0..MaxOpens]
    /\ \A c \in Clients : (mine[c] = 0) <=> pc[c] \in {"out", "ctor"}

\* A user never finds another stream's data on its channel: whatever is queued on
\* a slot was sent by the device on the open the slot's user sent last
\* (local_client_enqueue goes by local_id alone, Catransport.cpp 427-453).
NoCrossTalk ==
    ~kicked => \A l \in Slots : \A i \in DOMAIN ptrlist[l] : ptrlist[l][i] = current[l]

\* The device never has two streams for one local_id: a slot's new OPEN goes out
\* only after its old stream was closed at the other end (Catransport.cpp 560-588).
OneStreamPerSlot ==
    \A m, n \in live : m # n => slotOf[m] # slotOf[n]

\* A slot is given back only when nothing that names it is left: no stream, no OPEN
\* and no answer that its next user could take for its own (CAdb.cpp 63-81,
\* Catransport.cpp 1076-1124).
FreeSlotIsSilent ==
    ~kicked => \A l \in Slots : ~user[l] =>
                   InFlight(l) = {} /\ \A n \in live : slotOf[n] # l

\* Two users never share a channel while the transport is up
\* (client_get_id, Catransport.cpp 1076-1109).
SlotsAreExclusive ==
    ~kicked => \A c, d \in Clients : c # d /\ mine[c] # 0 => mine[c] # mine[d]

\* The table implements StreamTable: streams, slots and what is queued on them go
\* through their lives in step, whoever closes first and whatever is still on its way
\* in either direction (Catransport.cpp 372-453, 518-588, 1076-1165).
Promised == INSTANCE StreamTable WITH
    Users <- Clients,
    up <- ~kicked,
    owners <- [l \in Slots |-> {c \in Clients : mine[c] = l}],
    asked <- current,
    connected <- [l \in Slots |-> {n \in live : slotOf[n] = l}],
    inbox <- ptrlist,
    last <- opens
KeepsPromise == Promised!Spec

\* Nobody has been released by a late notify_one without a permit.
NeverOverdrawn == [](\A l \in Slots : sem[l].count >= 0)

\* c took its slot behind Clear's back, when free_ctrol was through with the table,
\* and waits for the answer to an OPEN the kicked transport has dropped.
Late(c) ==
    /\ kicked /\ Quiet("closer") /\ user[mine[c]]
    /\ pc[c] = "connect_wait" /\ Sleeping(c)

\* As long as no semaphore is overdrawn, opening and closing a channel returns,
\* whether the device answers or Clear takes the channel away: only who took the
\* channel after Clear had gone through the table may be left waiting
\* (Catransport.cpp 96-115, 518-588, 805-880).
CallsReturn ==
    NeverOverdrawn =>
        \A c \in Clients : InOpenOrClose(c) ~> (~InOpenOrClose(c) \/ Late(c))

\* "Wait for the connection to return" (Catransport.cpp 534): as long as no semaphore
\* is overdrawn, it does, for each who waits.
ConnectReturns ==
    NeverOverdrawn => \A c \in Clients : pc[c] = "connect_wait" ~> pc[c] # "connect_wait"

\* A call whose channel free_ctrol has taken away.
Swept(c) == InOpenOrClose(c) /\ mine[c] # 0 /\ ~user[mine[c]]

\* "Close every channel and notify it to leave" (Catransport.cpp 107).
SweptCallsAlwaysReturn == \A c \in Clients : Swept(c) ~> ~Swept(c)

\* "A message has already been sent, so wait for its answer" (Catransport.cpp 570):
\* local_client_type_set waits for an answer only if an OPEN was sent.
WaitsForAnOpen == \A c \in Clients : pc[c] = "opening_wait" => current[mine[c]] # 0

\* "Wait for the connection to return" (Catransport.cpp 534): when connect_to_remote
\* is back and reports no connection, the device has answered and has no stream.
ConnectWaitsForTheAnswer ==
    \A c \in Clients :
        pc[c] = "connected" /\ ~connected[mine[c]] /\ ~kicked
            => InFlight(mine[c]) = {} /\ current[mine[c]] \notin live
===============================================================================
