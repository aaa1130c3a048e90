---------------------------- MODULE ChannelsProofs ----------------------------
(***************************************************************************)
(* The types of Channels and the exclusiveness of its slots, for any       *)
(* number of users, slots, opens and packets.                              *)
(***************************************************************************)
EXTENDS Channels, FiniteSetTheorems, SequenceTheorems, WellFoundedInduction, TLAPS

Labels == {"out", "ctor", "idle", "type", "opening", "opening_wait", "closing", "closing_wait",
           "clear", "open", "connect", "connect_wait", "connected", "recv", "recv_empty",
           "recv_wait", "write", "free"}

StepsOfWork ==
    {s \in [do : {"lock", "free", "type", "push", "rid", "connected", "add", "notify"},
            l : 0..NumSlots, n : 0..MaxOpens] :
        (s.do # "lock" => s.l \in Slots) /\ (s.do = "push" => s.n \in Opens)}

\* An OPEN on its way to the device has its slot noted.
ToDevice ==
    {m \in [cmd : {"OPEN", "READY", "CLSE", "WRTE"}, n : 0..MaxOpens, l : Slots] :
        m.cmd = "OPEN" => m.n \in Opens /\ slotOf[m.n] \in Slots}
FromDevice ==
    {m \in [cmd : {"OKAY", "CLSE", "WRTE"}, n : 0..MaxOpens, l : Slots] :
        m.cmd # "CLSE" => m.n \in Opens}

Tables ==
    /\ user \in [Slots -> BOOLEAN] /\ connected \in [Slots -> BOOLEAN]
    /\ biptype \in [Slots -> Kinds \cup {"close"}]
    /\ remote_id \in [Slots -> 0..MaxOpens] /\ current \in [Slots -> 0..MaxOpens]
    /\ ptrlist \in [Slots -> Seq(Opens)]
    /\ sem \in [Slots -> SemType(Clients)]
    /\ locked \in BOOLEAN /\ kicked \in BOOLEAN

CallTypes ==
    /\ pc \in [Clients -> Labels]
    /\ mine \in [Clients -> 0..NumSlots] /\ rid \in [Clients -> 0..MaxOpens]
    /\ want \in [Clients -> Kinds \cup {"close", "destroy"}]
    /\ \A c \in Clients : mine[c] = 0 <=> pc[c] \in {"out", "ctor"}
    /\ todo \in [Workers -> Seq(StepsOfWork)]

Waits ==
    \A l \in Slots :
        /\ sem[l].blocked \cap sem[l].woken = {}
        /\ \A c \in sem[l].blocked \cup sem[l].woken : pc[c] \in DOMAIN AfterWait /\ mine[c] = l

\* The bound on opens leaves room for the OPENs that clients have still to send.
Queues ==
    /\ slotOf \in [Opens -> 0..NumSlots]
    /\ live \subseteq {n \in Opens : slotOf[n] \in Slots} 
    /\ toDev \in Seq(ToDevice) /\ fromDev \in Seq(FromDevice)
    /\ opens \in Nat /\ opens + Cardinality(Opening) <= MaxOpens

TypeInv == Tables /\ CallTypes /\ Waits /\ Queues

\* Only Clear takes a slot from its user.
Owned ==
    /\ todo["closer"] # <<>> => kicked
    /\ ~kicked => \A c \in Clients : mine[c] # 0 => user[mine[c]]

-------------------------------------------------------------------------------
LEMMA TypeInvImpliesTypeOK == TypeInv => TypeOK
<1> SUFFICES ASSUME TypeInv PROVE TypeOK
  OBVIOUS
<1>1. /\ user \in [Slots -> BOOLEAN] /\ connected \in [Slots -> BOOLEAN]
      /\ locked \in BOOLEAN /\ kicked \in BOOLEAN
  BY DEF TypeInv, Tables
<1>2. /\ biptype \in [Slots -> Kinds \cup {"close"}]
      /\ remote_id \in [Slots -> 0..MaxOpens] /\ current \in [Slots -> 0..MaxOpens]
  BY DEF TypeInv, Tables
<1>3. \A l \in Slots : /\ ptrlist[l] \in Seq(Opens) /\ sem[l] \in SemType(Clients)
                       /\ \A c \in sem[l].blocked \cup sem[l].woken :
                              pc[c] \in DOMAIN AfterWait /\ mine[c] = l
  BY DEF TypeInv, Tables, Waits
<1>4. mine \in [Clients -> Slots \cup {0}]
  <2>1. 0..NumSlots = Slots \cup {0}
    BY ChannelsAssumption DEF Slots
  <2>2. QED
    BY <2>1 DEF TypeInv, CallTypes
<1>5. rid \in [Clients -> 0..MaxOpens]
      /\ \A c \in Clients : (mine[c] = 0) <=> pc[c] \in {"out", "ctor"}
  BY DEF TypeInv, CallTypes
<1>6. QED
  BY <1>1, <1>2, <1>3, <1>4, <1>5 DEF TypeOK

LEMMA OpeningFinite == IsFiniteSet(Opening) /\ Cardinality(Opening) \in Nat
<1>1. Opening \subseteq Clients
  BY DEF Opening
<1>2. QED
  BY <1>1, ChannelsAssumption, FS_Subset, FS_CardinalityType

LEMMA InitTypeInv == Init => TypeInv
<1> SUFFICES ASSUME Init PROVE TypeInv
  OBVIOUS
<1> USE ChannelsAssumption
<1>1. Tables
  <2>1. /\ user \in [Slots -> BOOLEAN] /\ connected \in [Slots -> BOOLEAN]
        /\ locked \in BOOLEAN /\ kicked \in BOOLEAN
    BY DEF Init
  <2>2. /\ biptype \in [Slots -> Kinds \cup {"close"}]
        /\ remote_id \in [Slots -> 0..MaxOpens] /\ current \in [Slots -> 0..MaxOpens]
        /\ ptrlist \in [Slots -> Seq(Opens)]
    BY DEF Init
  <2>3. sem \in [Slots -> SemType(Clients)]
    BY DEF Init, NewSem, SemType
  <2>4. QED
    BY <2>1, <2>2, <2>3 DEF Tables
<1>2. CallTypes
  BY DEF Init, CallTypes, Labels
<1>3. Waits
  BY DEF Init, Waits, NewSem
<1>4. Queues
  <2>1. Opening = {}
    BY DEF Init, Opening
  <2>2. opens \in Nat /\ opens + Cardinality(Opening) <= MaxOpens
    BY <2>1, FS_EmptySet DEF Init
  <2>3. QED
    BY <2>2 DEF Init, Queues
<1>5. QED
  BY <1>1, <1>2, <1>3, <1>4 DEF TypeInv

-------------------------------------------------------------------------------
(* Semaphores: what each operator does to the threads inside.               *)
Inside(s) == s.blocked \cup s.woken

LEMMA SemFields ==
    ASSUME NEW s \in SemType(Clients)
    PROVE  /\ s.count \in Int /\ s.blocked \subseteq Clients /\ s.woken \subseteq Clients
           /\ Raised(s, 1) \in SemType(Clients)
           /\ Raised(s, 1).blocked = s.blocked /\ Raised(s, 1).woken = s.woken
           /\ Passed(s) \in SemType(Clients)
           /\ Passed(s).blocked = s.blocked /\ Passed(s).woken = s.woken
           /\ ResetSem(s) \in SemType(Clients)
           /\ ResetSem(s).blocked = s.blocked /\ ResetSem(s).woken = s.woken
  BY DEF SemType, Raised, Passed, ResetSem

LEMMA SemThread ==
    ASSUME NEW s \in SemType(Clients), NEW c \in Clients
    PROVE  /\ Blocked(s, c) \in SemType(Clients)
           /\ Blocked(s, c).blocked = s.blocked \cup {c} /\ Blocked(s, c).woken = s.woken
           /\ Resumed(s, c) \in SemType(Clients)
           /\ Resumed(s, c).blocked = s.blocked /\ Resumed(s, c).woken = s.woken \ {c}
           /\ TimedOut(s, c) \in SemType(Clients)
           /\ TimedOut(s, c).blocked = s.blocked \ {c} /\ TimedOut(s, c).woken = s.woken
<1>1. /\ s.blocked \cup {c} \in SUBSET Clients /\ s.woken \ {c} \in SUBSET Clients
      /\ s.blocked \ {c} \in SUBSET Clients /\ s.count - 1 \in Int
  BY DEF SemType
<1>2. /\ Blocked(s, c) \in SemType(Clients) /\ Resumed(s, c) \in SemType(Clients)
      /\ TimedOut(s, c) \in SemType(Clients)
  BY <1>1, Zenon DEF SemType, Blocked, Resumed, TimedOut
<1>3. /\ Blocked(s, c).blocked = s.blocked \cup {c} /\ Blocked(s, c).woken = s.woken
      /\ Resumed(s, c).blocked = s.blocked /\ Resumed(s, c).woken = s.woken \ {c}
      /\ TimedOut(s, c).blocked = s.blocked \ {c} /\ TimedOut(s, c).woken = s.woken
  BY DEF SemType, Blocked, Resumed, TimedOut
<1>4. QED
  BY <1>2, <1>3

LEMMA SemNotified ==
    ASSUME NEW s \in SemType(Clients), s.blocked \cap s.woken = {}, NEW t \in Notified(s)
    PROVE  /\ t \in SemType(Clients) /\ t.blocked \cap t.woken = {}
           /\ Inside(t) = Inside(s)
<1>1. CASE s.blocked = {}
  BY <1>1 DEF Notified
<1>2. CASE s.blocked # {}
  <2>1. PICK c \in s.blocked : t = [s EXCEPT !.blocked = @ \ {c}, !.woken = @ \cup {c}]
    BY <1>2 DEF Notified
  <2>2. /\ t = [count |-> s.count, blocked |-> s.blocked \ {c}, woken |-> s.woken \cup {c}]
        /\ s.count \in Int /\ s.blocked \subseteq Clients /\ s.woken \subseteq Clients
    BY <2>1 DEF SemType
  <2>3. t \in SemType(Clients)
    BY <2>2 DEF SemType
  <2>4. QED
    BY <2>2, <2>3 DEF Inside
<1>3. QED
  BY <1>1, <1>2

\* A client that is in no wait is in no semaphore.
LEMMA Awake ==
    ASSUME TypeInv, NEW c \in Clients, pc[c] \notin DOMAIN AfterWait
    PROVE  \A l \in Slots : c \notin Inside(sem[l])
  BY DEF TypeInv, Waits, Inside

\* The waits stay right when a client that is in no semaphore goes on.
LEMMA WaitsKept ==
    ASSUME TypeInv, NEW c \in Clients, \A l \in Slots : c \notin Inside(sem[l]),
           \A d \in Clients \ {c} : pc'[d] = pc[d] /\ mine'[d] = mine[d],
           \A l \in Slots : sem'[l].blocked = sem[l].blocked /\ sem'[l].woken = sem[l].woken
    PROVE  Waits'
<1>1. \A l \in Slots : Inside(sem[l]) \subseteq Clients \ {c}
  BY SemFields DEF TypeInv, Tables, Inside
<1>2. QED
  BY <1>1 DEF TypeInv, Waits, Inside, AfterWait

LEMMA WaitsSame ==
    ASSUME TypeInv, UNCHANGED <<pc, mine>>,
           \A l \in Slots : Inside(sem'[l]) = Inside(sem[l])
                              /\ sem'[l].blocked \cap sem'[l].woken = {}
    PROVE  Waits'
  BY DEF TypeInv, Waits, Inside, AfterWait

\* The room for opens.
LEMMA RoomKept ==
    ASSUME Queues, NEW fewer, fewer \subseteq Opening
    PROVE  opens \in Nat /\ opens + Cardinality(fewer) <= MaxOpens
  BY OpeningFinite, FS_Subset, FS_CardinalityType, ChannelsAssumption DEF Queues

-------------------------------------------------------------------------------
(* The steps of straight-line code.                                        *)
LEMMA Committing ==
    ASSUME TypeInv, NEW w \in Workers, NEW what, Committed(w, what)
    PROVE  /\ Head(todo[w]) \in StepsOfWork /\ Head(todo[w]).do = what
           /\ Tail(todo[w]) \in Seq(StepsOfWork)
           /\ what # "lock" => Head(todo[w]).l \in Slots
           /\ Head(todo[w]).n \in 0..MaxOpens
           /\ what = "push" => Head(todo[w]).n \in Opens
<1>1. todo[w] \in Seq(StepsOfWork) /\ todo[w] # <<>> /\ Head(todo[w]).do = what
  BY DEF TypeInv, CallTypes, Committed
<1>2. Head(todo[w]) \in StepsOfWork /\ Tail(todo[w]) \in Seq(StepsOfWork)
  BY <1>1, HeadTailProperties
<1>3. QED
  BY <1>1, <1>2 DEF StepsOfWork

LEMMA StepTypes ==
    ASSUME TypeInv, NEW w \in Workers, Step(w)
    PROVE  TypeInv'
<1> USE ChannelsAssumption
<1>1. UNCHANGED <<pc, mine, want, rid, toDev, fromDev, live, slotOf, opens, kicked, user>>
  BY SMTT(60) DEF Step, StepType, StepPush, StepRid, StepConnected, StepAdd, StepNotify, calls, adbd, counts
<1>2. PICK what : Committed(w, what) /\ Drop(w) /\ what # "lock"
  BY DEF Step, StepType, StepPush, StepRid, StepConnected, StepAdd, StepNotify
<1>3. CallTypes'
  BY <1>1, <1>2, Committing DEF TypeInv, CallTypes, Drop
<1>4. Queues'
  <2>1. Opening' = Opening /\ ToDevice' = ToDevice
    BY <1>1 DEF Opening, ToDevice
  <2>2. QED
    BY <1>1, <2>1 DEF TypeInv, Queues
<1>5. Tables' /\ Waits'
  <2> DEFINE l == Head(todo[w]).l  n == Head(todo[w]).n
  <2>1. l \in Slots /\ n \in 0..MaxOpens
    BY <1>2, Committing
  <2>2. CASE UNCHANGED sem
    <3>1. Waits'
      BY <1>1, <2>2 DEF TypeInv, Waits, AfterWait
    <3>2. CASE StepType(w)
      BY <3>1, <3>2, <2>1 DEF TypeInv, Tables, StepType
    <3>3. CASE StepConnected(w)
      BY <3>1, <3>3, <2>1 DEF TypeInv, Tables, StepConnected
    <3>4. CASE StepPush(w)
      <4>1. n \in Opens /\ ptrlist[l] \in Seq(Opens)
        BY <3>4, <2>1, Committing DEF StepPush, TypeInv, Tables
      <4>2. Append(ptrlist[l], n) \in Seq(Opens)
        BY <4>1, AppendProperties
      <4>3. QED
        BY <3>1, <3>4, <4>2, <2>1 DEF TypeInv, Tables, StepPush
    <3>5. CASE StepRid(w)
      BY <3>1, <3>5, <2>1 DEF TypeInv, Tables, StepRid
    <3>6. CASE StepAdd(w) \/ StepNotify(w)
      <4>1. UNCHANGED <<user, biptype, remote_id, connected, ptrlist, current, kicked>>
        BY <3>6 DEF StepAdd, StepNotify
      <4>2. locked' \in BOOLEAN
        BY <3>6 DEF StepAdd, StepNotify, TypeInv, Tables
      <4>3. QED
        BY <3>1, <4>1, <4>2, <2>2 DEF TypeInv, Tables
    <3>7. QED
      BY <3>2, <3>3, <3>4, <3>5, <3>6 DEF Step
  <2>3. CASE StepAdd(w)
    <3>1. sem[l] \in SemType(Clients)
      BY <2>1 DEF TypeInv, Tables
    <3>2. sem' = [sem EXCEPT ![l] = Raised(sem[l], 1)]
      BY <2>3 DEF StepAdd
    <3>a. /\ Raised(sem[l], 1) \in SemType(Clients)
          /\ Raised(sem[l], 1).blocked = sem[l].blocked /\ Raised(sem[l], 1).woken = sem[l].woken
      BY <3>1, SemFields
    <3>b. UNCHANGED <<user, biptype, remote_id, connected, ptrlist, current, locked, kicked>>
      BY <2>3 DEF StepAdd
    <3>c. sem' \in [Slots -> SemType(Clients)]
      BY <2>1, <3>2, <3>a DEF TypeInv, Tables
    <3>3. Tables'
      BY <3>b, <3>c, SMTT(60) DEF TypeInv, Tables
    <3>4. \A k \in Slots : Inside(sem'[k]) = Inside(sem[k]) /\ sem'[k].blocked \cap sem'[k].woken = {}
      BY <2>1, <3>2, <3>a, ZenonT(60) DEF TypeInv, Tables, Waits, Inside
    <3>5. QED
      BY <1>1, <3>3, <3>4, WaitsSame
  <2>4. CASE StepNotify(w)
    <3>1. sem[l] \in SemType(Clients) /\ sem[l].blocked \cap sem[l].woken = {}
      BY <2>1 DEF TypeInv, Tables, Waits
    <3>2. PICK s \in Notified(sem[l]) : sem' = [sem EXCEPT ![l] = s]
      BY <2>4 DEF StepNotify
    <3>3. s \in SemType(Clients) /\ s.blocked \cap s.woken = {} /\ Inside(s) = Inside(sem[l])
      BY <3>1, <3>2, SemNotified
    <3>4. locked' \in BOOLEAN
      BY <2>4 DEF StepNotify, TypeInv, Tables
    <3>5. sem' \in [Slots -> SemType(Clients)]
      BY <3>2, <3>3, <2>1 DEF TypeInv, Tables
    <3>6. UNCHANGED <<user, biptype, remote_id, connected, ptrlist, current, kicked>>
      BY <2>4 DEF StepNotify
    <3>7. Tables'
      BY <3>4, <3>5, <3>6 DEF TypeInv, Tables
    <3>8. \A k \in Slots : Inside(sem'[k]) = Inside(sem[k]) /\ sem'[k].blocked \cap sem'[k].woken = {}
      BY <2>1, <3>1, <3>2, <3>3 DEF TypeInv, Tables, Waits
    <3>9. QED
      BY <1>1, <3>7, <3>8, WaitsSame
  <2>5. QED
    BY <2>2, <2>3, <2>4 DEF Step, StepType, StepPush, StepRid, StepConnected
<1>6. QED
  BY <1>3, <1>4, <1>5, SMTT(60) DEF TypeInv

-------------------------------------------------------------------------------
(* user_thread, Clear and the device.                                      *)
LEMMA SentType ==
    ASSUME toDev \in Seq(ToDevice), NEW msgs \in Seq(ToDevice)
    PROVE  Sent(msgs) \in Seq(ToDevice)
<1>1. msgs # <<>> => Tail(msgs) \in Seq(ToDevice)
  BY HeadTailProperties
<1>2. (IF Repeated(msgs) THEN Tail(msgs) ELSE msgs) \in Seq(ToDevice)
  BY <1>1 DEF Repeated
<1>3. QED
  BY <1>2, ConcatProperties DEF Sent

LEMMA ToRemoteType ==
    ASSUME NEW cmd \in {"READY", "CLSE"}, NEW n \in 0..MaxOpens, NEW l \in Slots
    PROVE  ToRemote(cmd, n, l) \in Seq(ToDevice)
<1>1. Msg(cmd, n, l) \in ToDevice
  BY DEF ToDevice, Msg
<1>2. QED
  BY <1>1 DEF ToRemote

LEMMA NotifyType ==
    ASSUME NEW l \in Slots
    PROVE  Notify(l) \in Seq(StepsOfWork)
<1>1. Do("add", l, 0) \in StepsOfWork /\ Do("notify", l, 0) \in StepsOfWork
  BY ChannelsAssumption DEF StepsOfWork, Do, Slots
<1>2. QED
  BY <1>1 DEF Notify

LEMMA WorkType ==
    ASSUME NEW m \in FromDevice
    PROVE  Work(m) \in Seq(StepsOfWork)
<1>1. m.l \in Slots /\ m.n \in 0..MaxOpens /\ m.cmd \in {"OKAY", "CLSE", "WRTE"}
      /\ (m.cmd # "CLSE" => m.n \in Opens) /\ m.l \in 0..NumSlots
  BY ChannelsAssumption DEF FromDevice, Slots
<1>2. Notify(m.l) \in Seq(StepsOfWork)
  BY <1>1, NotifyType
<1>3. /\ \A n \in {0, m.n} : Do("rid", m.l, n) \in StepsOfWork /\ Do("connected", m.l, n) \in StepsOfWork
      /\ Do("type", m.l, 0) \in StepsOfWork
      /\ m.n \in Opens => Do("push", m.l, m.n) \in StepsOfWork
  BY <1>1, ChannelsAssumption DEF StepsOfWork, Do
<1>4. CASE m.cmd = "OKAY"
  <2>1. <<Do("rid", m.l, m.n), Do("connected", m.l, m.n)>> \in Seq(StepsOfWork)
    BY <1>3
  <2>2. QED
    BY <1>2, <1>4, <2>1, ConcatProperties DEF Work
<1>5. CASE m.cmd = "CLSE"
  <2>1. <<Do("type", m.l, 0), Do("rid", m.l, 0), Do("connected", m.l, 0)>> \in Seq(StepsOfWork)
    BY <1>3
  <2>2. QED
    BY <1>2, <1>5, <2>1, ConcatProperties DEF Work
<1>6. CASE m.cmd = "WRTE"
  <2>1. <<Do("push", m.l, m.n), Do("rid", m.l, m.n)>> \in Seq(StepsOfWork)
    BY <1>1, <1>3, <1>6
  <2>2. QED
    BY <1>2, <1>6, <2>1, ConcatProperties DEF Work
<1>7. QED
  BY <1>1, <1>4, <1>5, <1>6

\* What the table and the calls have nothing to do with.
LEMMA TableKept ==
    ASSUME TypeInv, UNCHANGED table, kicked' \in BOOLEAN
    PROVE  Tables'
  BY DEF TypeInv, Tables, table

LEMMA CallsUntouched ==
    ASSUME TypeInv, UNCHANGED calls, todo' \in [Workers -> Seq(StepsOfWork)]
    PROVE  CallTypes' /\ Opening' = Opening
  BY DEF TypeInv, CallTypes, calls, Opening

LEMMA HandlePacketTypes == TypeInv /\ HandlePacket => TypeInv'
<1> SUFFICES ASSUME TypeInv, HandlePacket PROVE TypeInv'
  OBVIOUS
<1> DEFINE m == Head(fromDev)
<1>1. UNCHANGED <<table, kicked, calls, adbd, counts>>
  BY DEF HandlePacket
<1>2. m \in FromDevice /\ Tail(fromDev) \in Seq(FromDevice)
  BY HeadTailProperties DEF HandlePacket, TypeInv, Queues
<1>3. todo' \in [Workers -> Seq(StepsOfWork)]
  <2>1. (IF Present(m.l) THEN Work(m) ELSE <<>>) \in Seq(StepsOfWork)
    BY <1>2, WorkType
  <2>2. QED
    BY <2>1 DEF HandlePacket, TypeInv, CallTypes
<1>4. toDev' \in Seq(ToDevice)
  <2>1. /\ m.l \in Slots /\ m.n \in 0..MaxOpens /\ m.cmd \in {"OKAY", "CLSE", "WRTE"}
    BY <1>2 DEF FromDevice
  <2>2. /\ ToRemote("READY", m.n, m.l) \in Seq(ToDevice)
        /\ ToRemote("CLSE", m.n, m.l) \in Seq(ToDevice) /\ <<>> \in Seq(ToDevice)
    BY <2>1, ToRemoteType
  <2>3. Answer(m) \in Seq(ToDevice)
    BY <2>1, <2>2 DEF Answer
  <2>4. QED
    BY <2>3, SentType DEF HandlePacket, TypeInv, Queues
<1>5. Tables'
  BY <1>1, TableKept DEF TypeInv, Tables
<1>6. CallTypes' /\ Opening' = Opening
  BY <1>1, <1>3, CallsUntouched
<1>7. Waits'
  BY <1>1 DEF TypeInv, Waits, table, calls, AfterWait
<1>8. Queues'
  <2>1. ToDevice' = ToDevice
    BY <1>1 DEF ToDevice, adbd
  <2>2. fromDev' \in Seq(FromDevice)
    BY <1>2 DEF HandlePacket
  <2>3. QED
    BY <1>1, <1>4, <1>6, <2>1, <2>2 DEF TypeInv, Queues, adbd, counts
<1>9. QED
  BY <1>5, <1>6, <1>7, <1>8 DEF TypeInv

LEMMA ClearTypes == TypeInv /\ (ClearCall \/ StepLock \/ StepFree) => TypeInv'
<1> SUFFICES ASSUME TypeInv, ClearCall \/ StepLock \/ StepFree PROVE TypeInv'
  BY SMTT(60)
<1>1. /\ UNCHANGED <<calls, fromDev, adbd, opens>> /\ toDev' \in {toDev, <<>>}
      /\ UNCHANGED <<biptype, remote_id, connected, ptrlist, sem, current>>
  BY Zenon DEF ClearCall, StepLock, StepFree, table, counts
<1>2. Tables'
  <2>1. locked' \in BOOLEAN /\ kicked' \in BOOLEAN
    BY Zenon DEF ClearCall, StepLock, StepFree, table, TypeInv, Tables
  <2>2. user' \in [Slots -> BOOLEAN]
    BY Zenon DEF ClearCall, StepLock, StepFree, table, TypeInv, Tables
  <2>3. QED
    BY <1>1, <2>1, <2>2 DEF TypeInv, Tables
<1>3. todo' \in [Workers -> Seq(StepsOfWork)]
  <2>1. CASE ClearCall
    <3>1. Do("lock", 0, 0) \in StepsOfWork
      BY ChannelsAssumption DEF StepsOfWork, Do
    <3>2. <<Do("lock", 0, 0)>> \in Seq(StepsOfWork)
      BY <3>1
    <3>3. QED
      BY <2>1, <3>2 DEF ClearCall, TypeInv, CallTypes
  <2>2. CASE StepLock
    <3>1. \A l \in Slots : Do("free", l, 0) \in StepsOfWork
      BY ChannelsAssumption DEF StepsOfWork, Do, Slots
    <3>2. [l \in Slots |-> Do("free", l, 0)] \in Seq(StepsOfWork)
      BY <3>1, SeqDef, ChannelsAssumption DEF Slots
    <3>3. QED
      BY <2>2, <3>2 DEF StepLock, TypeInv, CallTypes
  <2>3. CASE StepFree
    <3> DEFINE l == Head(todo["closer"]).l
    <3>1. l \in Slots /\ Tail(todo["closer"]) \in Seq(StepsOfWork)
      BY <2>3, Committing DEF StepFree, Workers
    <3>2. (IF user[l] THEN Notify(l) ELSE <<>>) \in Seq(StepsOfWork)
      BY <3>1, NotifyType
    <3>3. ((IF user[l] THEN Notify(l) ELSE <<>>) \o Tail(todo["closer"])) \in Seq(StepsOfWork)
      BY <3>1, <3>2, ConcatProperties
    <3>4. QED
      BY <2>3, <3>3 DEF StepFree, TypeInv, CallTypes
  <2>4. QED
    BY <2>1, <2>2, <2>3
<1>4. CallTypes' /\ Opening' = Opening
  BY <1>1, <1>3, CallsUntouched
<1>5. Waits'
  BY <1>1 DEF TypeInv, Waits, calls, AfterWait
<1>6. Queues'
  <2>1. ToDevice' = ToDevice
    BY <1>1 DEF ToDevice, adbd
  <2>2. toDev' \in Seq(ToDevice)
    <3>1. toDev \in Seq(ToDevice) /\ <<>> \in Seq(ToDevice) /\ toDev' \in {toDev, <<>>}
      BY <1>1, EmptySeq DEF TypeInv, Queues
    <3>2. QED
      BY <3>1
  <2>3. UNCHANGED <<fromDev, live, slotOf, opens>>
    BY <1>1 DEF adbd
  <2>4. QED
    BY <1>4, <2>1, <2>2, <2>3 DEF TypeInv, Queues
<1>7. QED
  BY <1>2, <1>4, <1>5, <1>6 DEF TypeInv

LEMMA DeviceTypes ==
    ASSUME TypeInv, DeviceReceive \/ \E n \in Opens : DeviceSend(n) \/ DeviceClose(n)
    PROVE  TypeInv'
<1>1. UNCHANGED <<table, kicked, calls, todo, slotOf, counts>>
  BY DEF DeviceReceive, DeviceSend, DeviceClose
<1>2. toDev' \in Seq(ToDevice)
  BY HeadTailProperties DEF DeviceReceive, DeviceSend, DeviceClose, TypeInv, Queues
<1>a. \A n \in live : /\ n \in Opens /\ slotOf[n] \in Slots
                      /\ Msg("WRTE", n, slotOf[n]) \in FromDevice
                      /\ Msg("OKAY", n, slotOf[n]) \in FromDevice
                      /\ Msg("CLSE", n, slotOf[n]) \in FromDevice
  BY ChannelsAssumption DEF TypeInv, Queues, FromDevice, Msg, Opens
<1>b. fromDev \in Seq(FromDevice) /\ live \subseteq {n \in Opens : slotOf[n] \in Slots}
  BY DEF TypeInv, Queues
<1>3. live' \subseteq {n \in Opens : slotOf[n] \in Slots} /\ fromDev' \in Seq(FromDevice)
  <2>1. CASE DeviceReceive
    <3> DEFINE m == Head(toDev)
    <3>1. m \in ToDevice /\ Receive(m)
      BY <2>1, HeadTailProperties DEF DeviceReceive, TypeInv, Queues
    <3>2. CASE m.cmd = "OPEN"
      <4>1. m.n \in Opens /\ slotOf[m.n] \in Slots /\ m.l \in Slots
        BY <3>1, <3>2 DEF ToDevice
      <4>2. Msg("OKAY", m.n, m.l) \in FromDevice /\ Msg("CLSE", 0, m.l) \in FromDevice
        BY <4>1, ChannelsAssumption DEF FromDevice, Msg, Opens
      <4>3. \/ live' = live \cup {m.n} /\ fromDev' = Append(fromDev, Msg("OKAY", m.n, m.l))
            \/ live' = live /\ fromDev' = Append(fromDev, Msg("CLSE", 0, m.l))
        BY <3>1, <3>2 DEF Receive
      <4>4. QED
        BY <1>b, <4>1, <4>2, <4>3, AppendProperties
    <3>3. CASE m.cmd # "OPEN"
      <4>1. \/ UNCHANGED <<live, fromDev>>
            \/ m.n \in live /\ live' = live \ {m.n}
                  /\ fromDev' = Append(fromDev, Msg("CLSE", m.n, slotOf[m.n]))
            \/ m.n \in live /\ live' = live
                  /\ fromDev' = Append(fromDev, Msg("OKAY", m.n, slotOf[m.n]))
        BY <3>1, <3>3 DEF Receive
      <4>2. QED
        BY <1>a, <1>b, <4>1, AppendProperties
    <3>4. QED
      BY <3>2, <3>3
  <2>2. ASSUME NEW n \in Opens, DeviceSend(n) PROVE <1>3!1 /\ <1>3!2
    BY <1>a, <2>2, AppendProperties DEF DeviceSend, TypeInv, Queues
  <2>3. ASSUME NEW n \in Opens, DeviceClose(n) PROVE <1>3!1 /\ <1>3!2
    BY <1>a, <2>3, AppendProperties DEF DeviceClose, TypeInv, Queues
  <2>4. QED
    BY <2>1, <2>2, <2>3
<1>4. Tables'
  BY <1>1, TableKept DEF TypeInv, Tables
<1>5. CallTypes' /\ Opening' = Opening
  BY <1>1, CallsUntouched DEF TypeInv, CallTypes
<1>6. Waits'
  BY <1>1 DEF TypeInv, Waits, table, calls, AfterWait
<1>7. Queues'
  <2>1. ToDevice' = ToDevice
    BY <1>1 DEF ToDevice
  <2>2. QED
    BY <1>1, <1>2, <1>3, <1>5, <2>1 DEF TypeInv, Queues, counts
<1>8. QED
  BY <1>4, <1>5, <1>6, <1>7 DEF TypeInv

-------------------------------------------------------------------------------
(* The users' calls.                                                       *)
ToOpen == {"type", "opening", "opening_wait", "closing", "closing_wait", "clear", "open"}
Outside == {"out", "ctor"}

LEMMA SlotOfClient ==
    ASSUME TypeInv, NEW c \in Clients, pc[c] \notin Outside
    PROVE  mine[c] \in Slots
  BY ChannelsAssumption DEF TypeInv, CallTypes, Outside, Slots

LEMMA PcMoves ==
    ASSUME TypeInv, NEW c \in Clients, NEW label \in Labels, Goto(c, label)
    PROVE  /\ pc' \in [Clients -> Labels] /\ pc'[c] = label
           /\ \A d \in Clients \ {c} : pc'[d] = pc[d]
           /\ UNCHANGED want /\ (label \in ToOpen => pc[c] \in ToOpen) => Opening' \subseteq Opening
           /\ (label \notin ToOpen /\ \A d \in Clients \ {c} : want'[d] = want[d])
                  => Opening' \subseteq Opening
<1>1. /\ pc' \in [Clients -> Labels] /\ pc'[c] = label
      /\ \A d \in Clients \ {c} : pc'[d] = pc[d]
  BY DEF TypeInv, CallTypes, Goto
<1>2. ASSUME UNCHANGED want, label \in ToOpen => pc[c] \in ToOpen
      PROVE  Opening' \subseteq Opening
  <2>1. \A d \in Clients : pc'[d] \in ToOpen => pc[d] \in ToOpen
    BY <1>1, <1>2
  <2>2. QED
    BY <1>2, <2>1 DEF Opening, ToOpen
<1>3. ASSUME label \notin ToOpen, \A d \in Clients \ {c} : want'[d] = want[d]
      PROVE  Opening' \subseteq Opening
  BY <1>1, <1>3 DEF Opening, ToOpen
<1>4. QED
  BY <1>1, <1>2, <1>3

LEMMA CallsMove ==
    ASSUME TypeInv, NEW c \in Clients, NEW label \in Labels, Goto(c, label), UNCHANGED todo,
           mine' \in [Clients -> 0..NumSlots], rid' \in [Clients -> 0..MaxOpens],
           want' \in [Clients -> Kinds \cup {"close", "destroy"}],
           \A d \in Clients \ {c} : mine'[d] = mine[d],
           mine'[c] = 0 <=> label \in Outside
    PROVE  CallTypes'
<1>1. /\ pc' \in [Clients -> Labels] /\ pc'[c] = label
      /\ \A d \in Clients \ {c} : pc'[d] = pc[d]
  BY PcMoves
<1>2. \A d \in Clients : mine'[d] = 0 <=> pc'[d] \in Outside
  <2>1. \A d \in Clients \ {c} : mine'[d] = 0 <=> pc'[d] \in Outside
    BY <1>1 DEF TypeInv, CallTypes, Outside
  <2>2. QED
    BY <1>1, <2>1
<1>3. todo' \in [Workers -> Seq(StepsOfWork)]
  BY DEF TypeInv, CallTypes
<1>4. QED
  BY <1>1, <1>2, <1>3 DEF CallTypes, Outside

LEMMA QueuesMove ==
    ASSUME TypeInv, UNCHANGED <<slotOf, live, fromDev, opens>>, toDev' \in Seq(ToDevice),
           Opening' \subseteq Opening
    PROVE  Queues'
<1>1. ToDevice' = ToDevice
  BY DEF ToDevice
<1>2. opens \in Nat /\ opens + Cardinality(Opening') <= MaxOpens
  BY RoomKept DEF TypeInv
<1>3. QED
  BY <1>1, <1>2 DEF TypeInv, Queues

\* A client in no wait goes on within its calls, and at most queues something, takes a
\* packet and copies remote_id.
LEMMA ClientMoves ==
    ASSUME TypeInv, NEW c \in Clients, NEW label \in Labels, Goto(c, label),
           pc[c] \notin DOMAIN AfterWait, label \in Outside <=> pc[c] \in Outside,
           label \in ToOpen => pc[c] \in ToOpen,
           UNCHANGED <<user, biptype, remote_id, connected, sem, current, locked, kicked,
                       mine, want, todo, slotOf, live, fromDev, opens>>,
           ptrlist' \in [Slots -> Seq(Opens)], rid' \in [Clients -> 0..MaxOpens],
           toDev' \in Seq(ToDevice)
    PROVE  TypeInv'
<1>1. Tables'
  BY DEF TypeInv, Tables
<1>2. CallTypes'
  <2>1. mine[c] = 0 <=> label \in Outside
    BY DEF TypeInv, CallTypes, Outside
  <2>2. QED
    BY <2>1, CallsMove DEF TypeInv, CallTypes
<1>3. Waits'
  <2>1. \A d \in Clients \ {c} : pc'[d] = pc[d] /\ mine'[d] = mine[d]
    BY PcMoves
  <2>2. QED
    BY <2>1, Awake, WaitsKept
<1>4. Queues'
  BY PcMoves, QueuesMove
<1>5. QED
  BY <1>1, <1>2, <1>3, <1>4 DEF TypeInv

LEMMA ReturnGoes ==
    ASSUME NEW c \in Clients, Return(c)
    PROVE  \E label \in {"idle", "free"} : Goto(c, label)
  BY DEF Return

LEMMA OnlyPcTypes ==
    ASSUME TypeInv, NEW c \in Clients,
           \/ Construct(c) \/ TypeSetBegin(c) \/ TypeSetClosing(c)
           \/ Connect(c) \/ Connected(c) \/ WriteBegin(c)
    PROVE  TypeInv'
<1>1. OnlyPc(c) /\ pc[c] \notin DOMAIN AfterWait
  BY DEF Construct, TypeSetBegin, TypeSetClosing, Connect, Connected, WriteBegin, AfterWait
<1>2. PICK label \in Labels : /\ Goto(c, label)
                              /\ label \in Outside <=> pc[c] \in Outside
                              /\ label \in ToOpen => pc[c] \in ToOpen
  BY ReturnGoes DEF Construct, TypeSetBegin, TypeSetClosing, Connect, Connected, WriteBegin,
                    Labels, Outside, ToOpen
<1>3. /\ ptrlist' \in [Slots -> Seq(Opens)] /\ rid' \in [Clients -> 0..MaxOpens]
      /\ toDev' \in Seq(ToDevice)
  BY <1>1 DEF OnlyPc, TypeInv, Tables, CallTypes, Queues, table
<1>4. UNCHANGED <<user, biptype, remote_id, connected, sem, current, locked, kicked,
                  mine, want, todo, slotOf, live, fromDev, opens>>
  BY <1>1 DEF OnlyPc, table, adbd, counts
<1>5. QED
  BY <1>1, <1>2, <1>3, <1>4, ClientMoves

LEMMA StopGoes ==
    ASSUME TypeInv, NEW c \in Clients, Stop(c)
    PROVE  /\ \E label \in {"idle", "free"} : Goto(c, label)
           /\ rid' \in [Clients -> 0..MaxOpens]
  BY ReturnGoes, ChannelsAssumption DEF Stop, TypeInv, CallTypes

LEMMA ReadTypes ==
    ASSUME TypeInv, NEW c \in Clients, RecvBegin(c) \/ Recv(c) \/ RecvEmpty(c)
    PROVE  TypeInv'
<1> DEFINE l == mine[c]
<1>1. /\ pc[c] \notin DOMAIN AfterWait /\ pc[c] \notin Outside /\ l \in Slots
      /\ UNCHANGED <<user, biptype, remote_id, connected, sem, current, locked, kicked,
                     mine, want, todo, slotOf, live, fromDev, opens>>
  <2>1. pc[c] \in {"idle", "recv", "recv_empty"}
    BY DEF RecvBegin, Recv, RecvEmpty
  <2>2. pc[c] \notin DOMAIN AfterWait /\ pc[c] \notin Outside
    BY <2>1 DEF AfterWait, Outside
  <2>3. QED
    BY <2>2, SlotOfClient DEF RecvBegin, Recv, RecvEmpty, table, adbd, counts
<1>2. PICK label \in {"idle", "free", "recv", "recv_empty", "recv_wait"} : Goto(c, label)
  BY ReturnGoes DEF RecvBegin, Recv, RecvEmpty, Stop
<1>3. label \in Labels /\ label \notin Outside /\ label \notin ToOpen
  BY DEF Labels, Outside, ToOpen
<1>4. rid' \in [Clients -> 0..MaxOpens]
  <2>1. rid \in [Clients -> 0..MaxOpens] /\ remote_id[l] \in 0..MaxOpens
    BY <1>1 DEF TypeInv, Tables, CallTypes
  <2>2. CASE RecvBegin(c)
    BY <2>1, <2>2 DEF RecvBegin
  <2>3. CASE Recv(c) \/ RecvEmpty(c)
    BY <2>1, <2>3, StopGoes DEF Recv, RecvEmpty
  <2>4. QED
    BY <2>2, <2>3
<1>5. ptrlist' \in [Slots -> Seq(Opens)] /\ toDev' \in Seq(ToDevice)
  <2>1. ptrlist \in [Slots -> Seq(Opens)] /\ toDev \in Seq(ToDevice) /\ rid[c] \in 0..MaxOpens
    BY DEF TypeInv, Tables, CallTypes, Queues
  <2>2. CASE RecvBegin(c) \/ RecvEmpty(c)
    BY <2>1, <2>2 DEF RecvBegin, RecvEmpty, table
  <2>3. CASE Recv(c)
    <3>1. Sent(ToRemote("READY", rid[c], l)) \in Seq(ToDevice)
      BY <1>1, <2>1, ToRemoteType, SentType
    <3>2. ptrlist[l] # <<>> => Tail(ptrlist[l]) \in Seq(Opens)
      BY <1>1, <2>1, HeadTailProperties
    <3>3. QED
      BY <2>1, <2>3, <3>1, <3>2 DEF Recv
  <2>4. QED
    BY <2>2, <2>3
<1>6. QED
  BY <1>1, <1>2, <1>3, <1>4, <1>5, ClientMoves

LEMMA SendTypes ==
    ASSUME TypeInv, NEW c \in Clients, TypeSetOpening(c) \/ Write(c)
    PROVE  TypeInv'
<1> DEFINE l == mine[c]
<1>1. /\ pc[c] \notin DOMAIN AfterWait /\ pc[c] \notin Outside /\ l \in Slots
      /\ UNCHANGED <<user, biptype, remote_id, connected, sem, current, locked, kicked, ptrlist,
                     mine, want, rid, todo, slotOf, live, fromDev, opens>>
  <2>1. pc[c] \in {"opening", "write"}
    BY DEF TypeSetOpening, Write
  <2>2. pc[c] \notin DOMAIN AfterWait /\ pc[c] \notin Outside
    BY <2>1 DEF AfterWait, Outside
  <2>3. QED
    BY <2>2, SlotOfClient DEF TypeSetOpening, Write, table, adbd, counts
<1>2. PICK label \in Labels : /\ Goto(c, label) /\ label \notin Outside
                              /\ label \in ToOpen => pc[c] \in ToOpen
  BY ReturnGoes DEF TypeSetOpening, Write, Labels, Outside, ToOpen
<1>3. toDev' \in Seq(ToDevice)
  <2>1. remote_id[l] \in 0..MaxOpens /\ toDev \in Seq(ToDevice)
    BY <1>1 DEF TypeInv, Tables, Queues
  <2>2. CASE TypeSetOpening(c)
    <3>1. /\ ToRemote("READY", remote_id[l], l) \in Seq(ToDevice)
          /\ ToRemote("CLSE", remote_id[l], l) \in Seq(ToDevice)
      BY <1>1, <2>1, ToRemoteType
    <3>2. ToRemote("READY", remote_id[l], l) \o ToRemote("CLSE", remote_id[l], l) \in Seq(ToDevice)
      BY <3>1, ConcatProperties
    <3>3. QED
      BY <2>1, <2>2, <3>2, SentType DEF TypeSetOpening
  <2>3. CASE Write(c)
    <3>1. Msg("WRTE", remote_id[l], l) \in ToDevice
      BY <1>1, <2>1 DEF ToDevice, Msg
    <3>2. <<Msg("WRTE", remote_id[l], l)>> \in Seq(ToDevice)
      BY <3>1
    <3>3. QED
      BY <2>1, <2>3, <3>2, SentType DEF Write
  <2>4. QED
    BY <2>2, <2>3
<1>4. ptrlist' \in [Slots -> Seq(Opens)] /\ rid' \in [Clients -> 0..MaxOpens]
  BY <1>1 DEF TypeInv, Tables, CallTypes
<1>5. QED
  BY <1>1, <1>2, <1>3, <1>4, ClientMoves

\* Into a semaphore, out of it, or past it.
LEMMA WaitTypes ==
    ASSUME TypeInv, NEW c \in Clients, Wait(c) \/ WaitResume(c) \/ RecvTimeout(c)
    PROVE  TypeInv'
<1> DEFINE l == mine[c]
<1>1. /\ pc[c] \in DOMAIN AfterWait /\ pc[c] \notin Outside /\ l \in Slots
      /\ UNCHANGED <<user, biptype, remote_id, connected, ptrlist, current, locked, kicked,
                     mine, want, todo, slotOf, live, fromDev, opens, toDev>>
  <2>1. pc[c] \in DOMAIN AfterWait /\ pc[c] \notin Outside
    BY DEF Wait, WaitResume, RecvTimeout, AfterWait, Outside
  <2>2. QED
    BY <2>1, SlotOfClient DEF Wait, WaitResume, RecvTimeout, adbd, counts
<1>2. /\ sem[l] \in SemType(Clients) /\ sem[l].blocked \cap sem[l].woken = {}
      /\ sem \in [Slots -> SemType(Clients)]
      /\ \A k \in Slots : k # l => c \notin Inside(sem[k])
  BY <1>1 DEF TypeInv, Tables, Waits, Inside
<1>3. /\ rid' \in [Clients -> 0..MaxOpens]
      /\ want' \in [Clients -> Kinds \cup {"close", "destroy"}]
      /\ mine' \in [Clients -> 0..NumSlots] /\ mine'[c] # 0
  BY <1>1, StopGoes, ChannelsAssumption, SMTT(60) DEF Wait, WaitResume, RecvTimeout, TypeInv, CallTypes, Slots
<1>4. CASE UNCHANGED pc
  <2>1. sem' = [sem EXCEPT ![l] = Blocked(sem[l], c)] /\ c \notin Inside(sem[l]) /\ UNCHANGED rid
    <3>1. pc'[c] = pc[c] /\ pc[c] \in {"opening_wait", "closing_wait", "connect_wait", "recv_wait"}
      BY <1>1, <1>4 DEF AfterWait
    <3>2. AfterWait[pc[c]] # pc[c] /\ AfterWait[pc[c]] \in {"opening", "closing", "connected", "recv"}
      BY <3>1 DEF AfterWait
    <3>3. \A label : Goto(c, label) => pc'[c] = label
      BY DEF Goto, TypeInv, CallTypes
    <3>4. ~WaitResume(c) /\ ~RecvTimeout(c)
      BY <3>1, <3>2, <3>3, ReturnGoes DEF WaitResume, RecvTimeout, Stop
    <3>5. QED
      BY <1>1, <3>1, <3>2, <3>3, <3>4 DEF Wait, Sleeping, Inside
  <2> DEFINE s == Blocked(sem[l], c)
  <2>2. /\ s \in SemType(Clients) /\ s.blocked = sem[l].blocked \cup {c}
        /\ s.woken = sem[l].woken
    BY <1>2, SemThread
  <2>3. Tables'
    <3>1. sem' \in [Slots -> SemType(Clients)]
      BY <1>1, <1>2, <2>1, <2>2
    <3>2. QED
      BY <1>1, <3>1 DEF TypeInv, Tables
  <2>4. Waits'
    <3>1. /\ sem'[l] = s /\ \A k \in Slots \ {l} : sem'[k] = sem[k]
      BY <1>1, <1>2, <2>1
    <3>2. QED
      BY <1>1, <1>4, <2>1, <2>2, <3>1 DEF TypeInv, Waits, Inside, AfterWait
  <2>5. CallTypes' /\ Opening' = Opening
    BY <1>1, <1>4, <2>1 DEF TypeInv, CallTypes, Opening
  <2>6. Queues'
    BY <1>1, <2>5, QueuesMove DEF TypeInv, Queues
  <2>7. QED
    BY <2>3, <2>4, <2>5, <2>6 DEF TypeInv
<1>5. ASSUME NEW label \in Labels, Goto(c, label), label \notin Outside,
             label \in ToOpen => pc[c] \in ToOpen,
             NEW s \in SemType(Clients), sem' = [sem EXCEPT ![l] = s],
             s.blocked = sem[l].blocked \ {c}, s.woken = sem[l].woken \ {c}
      PROVE  TypeInv'
  <2>1. Tables'
    <3>1. sem' \in [Slots -> SemType(Clients)]
      BY <1>1, <1>2, <1>5
    <3>2. QED
      BY <1>1, <3>1 DEF TypeInv, Tables
  <2>2. CallTypes'
    BY <1>1, <1>3, <1>5, CallsMove
  <2>3. Waits'
    <3>1. /\ sem'[l] = s /\ \A k \in Slots \ {l} : sem'[k] = sem[k]
      BY <1>1, <1>2, <1>5
    <3>2. \A d \in Clients \ {c} : pc'[d] = pc[d] /\ mine'[d] = mine[d]
      BY <1>1, <1>5, PcMoves
    <3>3. \A k \in Slots : /\ sem'[k].blocked = sem[k].blocked \ {c}
                           /\ sem'[k].woken = sem[k].woken \ {c}
      BY <1>2, <1>5, <3>1 DEF Inside
    <3>4. \A k \in Slots : sem[k].blocked \subseteq Clients /\ sem[k].woken \subseteq Clients
      BY SemFields DEF TypeInv, Tables
    <3>5. QED
      BY <3>2, <3>3, <3>4 DEF TypeInv, Waits, AfterWait
  <2>4. Queues'
    <3>1. Opening' \subseteq Opening
      BY <1>1, <1>5, PcMoves
    <3>2. QED
      BY <1>1, <3>1, QueuesMove DEF TypeInv, Queues
  <2>5. QED
    BY <2>1, <2>2, <2>3, <2>4 DEF TypeInv
<1>6. \A label : label = AfterWait[pc[c]] =>
          label \in Labels /\ label \notin Outside /\ (label \in ToOpen => pc[c] \in ToOpen)
  BY <1>1 DEF AfterWait, Labels, Outside, ToOpen
<1>7. CASE Wait(c) /\ CanPass(sem[l])
  <2>1. c \notin Inside(sem[l])
    BY <1>1, <1>7 DEF Wait, Sleeping, Inside
  <2>2. /\ Passed(sem[l]) \in SemType(Clients)
        /\ Passed(sem[l]).blocked = sem[l].blocked \ {c} /\ Passed(sem[l]).woken = sem[l].woken \ {c}
    BY <1>2, <2>1, SemFields, ZenonT(60) DEF Inside
  <2>3. Goto(c, AfterWait[pc[c]]) /\ sem' = [sem EXCEPT ![l] = Passed(sem[l])]
    BY <1>7 DEF Wait
  <2>4. QED
    BY <1>5, <1>6, <2>2, <2>3
<1>8. CASE Wait(c) /\ ~CanPass(sem[l])
  BY <1>4, <1>8 DEF Wait
<1>9. CASE WaitResume(c)
  <2>1. c \in sem[l].woken /\ c \notin sem[l].blocked
    BY <1>2, <1>9 DEF WaitResume
  <2>2. /\ Resumed(sem[l], c) \in SemType(Clients)
        /\ Resumed(sem[l], c).blocked = sem[l].blocked \ {c}
        /\ Resumed(sem[l], c).woken = sem[l].woken \ {c}
    BY <1>2, <2>1, SemThread, SMTT(60)
  <2>3. Goto(c, AfterWait[pc[c]]) /\ sem' = [sem EXCEPT ![l] = Resumed(sem[l], c)]
    BY <1>9 DEF WaitResume
  <2>4. QED
    BY <1>5, <1>6, <2>2, <2>3
<1>10. CASE RecvTimeout(c)
  <2>1. c \in sem[l].blocked /\ c \notin sem[l].woken
    BY <1>2, <1>10 DEF RecvTimeout
  <2>2. /\ TimedOut(sem[l], c) \in SemType(Clients)
        /\ TimedOut(sem[l], c).blocked = sem[l].blocked \ {c}
        /\ TimedOut(sem[l], c).woken = sem[l].woken \ {c}
    BY <1>2, <2>1, SemThread, SMTT(60)
  <2>3. PICK label \in {"idle", "free"} : Goto(c, label)
    BY <1>10, StopGoes DEF RecvTimeout
  <2>4. label \in Labels /\ label \notin Outside /\ label \notin ToOpen
    BY DEF Labels, Outside, ToOpen
  <2>5. sem' = [sem EXCEPT ![l] = TimedOut(sem[l], c)]
    BY <1>10 DEF RecvTimeout
  <2>6. QED
    BY <1>5, <2>2, <2>3, <2>4, <2>5
<1>11. QED
  BY <1>7, <1>8, <1>9, <1>10

\* A slot that is cleared keeps the threads inside its semaphore.
LEMMA ClearedTypes ==
    ASSUME TypeInv, NEW l \in Slots, Cleared(l)
    PROVE  /\ ptrlist' \in [Slots -> Seq(Opens)] /\ sem' \in [Slots -> SemType(Clients)]
           /\ current' \in [Slots -> 0..MaxOpens]
           /\ \A k \in Slots : sem'[k].blocked = sem[k].blocked /\ sem'[k].woken = sem[k].woken
<1>1. /\ ptrlist \in [Slots -> Seq(Opens)] /\ sem \in [Slots -> SemType(Clients)]
      /\ current \in [Slots -> 0..MaxOpens] /\ sem[l] \in SemType(Clients)
  BY DEF TypeInv, Tables
<1>2. ptrlist' \in [Slots -> Seq(Opens)]
  BY <1>1, EmptySeq DEF Cleared
<1>3. current' \in [Slots -> 0..MaxOpens]
  BY <1>1, ChannelsAssumption DEF Cleared
<1>4. /\ ResetSem(sem[l]) \in SemType(Clients)
      /\ ResetSem(sem[l]).blocked = sem[l].blocked /\ ResetSem(sem[l]).woken = sem[l].woken
  BY <1>1, SemFields
<1>5. sem' = [sem EXCEPT ![l] = ResetSem(sem[l])]
  BY DEF Cleared
<1>6. QED
  BY <1>1, <1>2, <1>3, <1>4, <1>5

LEMMA FirstFree ==
    ASSUME ~ \A l \in Slots : user[l]
    PROVE  LET l == CHOOSE l \in Slots : ~user[l] /\ \A k \in Slots : ~user[k] => l <= k
           IN  l \in Slots /\ ~user[l]
<1> DEFINE free == {l \in Slots : ~user[l]}
<1>1. free \subseteq Nat /\ free # {}
  BY ChannelsAssumption DEF Slots
<1>2. PICK l \in free : \A k \in free : ~(<<k, l>> \in OpToRel(<, Nat))
  BY <1>1, WFMin, NatLessThanWellFounded
<1>3. \A k \in free : l <= k
  <2>1. \A k \in free : <<k, l>> \in Nat \X Nat
    BY <1>1
  <2>2. \A k \in free : ~(k < l)
    BY <1>2, <2>1 DEF OpToRel
  <2>3. QED
    BY <1>1, <2>2
<1>4. l \in Slots /\ ~user[l] /\ \A k \in Slots : ~user[k] => l <= k
  BY <1>3
<1>5. QED
  BY <1>4

LEMMA ClientGetIdTypes ==
    ASSUME TypeInv, NEW c \in Clients, ClientGetId(c)
    PROVE  TypeInv'
<1>1. /\ pc[c] \notin DOMAIN AfterWait /\ pc[c] = "ctor"
      /\ UNCHANGED <<kicked, rid, todo, toDev, fromDev, live, slotOf, opens, locked>>
  BY DEF ClientGetId, AfterWait, adbd, counts, table
<1>2. CASE \A l \in Slots : user[l]
  <2>1. UNCHANGED <<table, mine, want>> /\ Goto(c, "out")
    BY <1>2 DEF ClientGetId
  <2>2. ptrlist' \in [Slots -> Seq(Opens)] /\ rid' \in [Clients -> 0..MaxOpens]
        /\ toDev' \in Seq(ToDevice)
    BY <1>1, <2>1 DEF TypeInv, Tables, CallTypes, Queues, table
  <2>3. "out" \in Labels /\ "out" \in Outside /\ "ctor" \in Outside /\ "out" \notin ToOpen
    BY DEF Labels, Outside, ToOpen
  <2>4. UNCHANGED <<user, biptype, remote_id, connected, sem, current>>
    BY <2>1 DEF table
  <2>5. QED
    BY <1>1, <2>1, <2>2, <2>3, <2>4, ClientMoves
<1>3. CASE ~ \A l \in Slots : user[l]
  <2> DEFINE l == CHOOSE l \in Slots : ~user[l] /\ \A k \in Slots : ~user[k] => l <= k
  <2>1. l \in Slots /\ ~user[l]
    BY <1>3, FirstFree
  <2>2. /\ ClientInit(l) /\ user' = [user EXCEPT ![l] = TRUE]
        /\ mine' = [mine EXCEPT ![c] = l] /\ Goto(c, "idle")
        /\ want' = [want EXCEPT ![c] = "close"]
    BY <1>3 DEF ClientGetId
  <2> HIDE DEF l
  <2>3. /\ ptrlist' \in [Slots -> Seq(Opens)] /\ sem' \in [Slots -> SemType(Clients)]
        /\ current' \in [Slots -> 0..MaxOpens]
        /\ \A k \in Slots : sem'[k].blocked = sem[k].blocked /\ sem'[k].woken = sem[k].woken
    BY <2>1, <2>2, ClearedTypes DEF ClientInit
  <2>4. user' \in [Slots -> BOOLEAN] /\ connected' \in [Slots -> BOOLEAN]
    BY <2>2 DEF ClientInit, TypeInv, Tables
  <2>5. biptype' \in [Slots -> Kinds \cup {"close"}] /\ remote_id' \in [Slots -> 0..MaxOpens]
    <3>1. biptype' = [biptype EXCEPT ![l] = "close"] /\ remote_id' = [remote_id EXCEPT ![l] = 0]
      BY <2>2 DEF ClientInit
    <3>2. /\ biptype \in [Slots -> Kinds \cup {"close"}] /\ remote_id \in [Slots -> 0..MaxOpens]
          /\ 0 \in 0..MaxOpens
      BY ChannelsAssumption DEF TypeInv, Tables
    <3>3. QED
      BY <3>1, <3>2
  <2>6. Tables'
    <3>1. locked' \in BOOLEAN /\ kicked' \in BOOLEAN
      BY <1>1 DEF TypeInv, Tables
    <3>2. QED
      BY <2>3, <2>4, <2>5, <3>1 DEF Tables
  <2>7. "idle" \in Labels /\ "idle" \notin Outside /\ "idle" \notin ToOpen
    BY DEF Labels, Outside, ToOpen
  <2>8. /\ mine' \in [Clients -> 0..NumSlots] /\ mine'[c] # 0
        /\ \A d \in Clients \ {c} : mine'[d] = mine[d]
    BY <2>1, <2>2, ChannelsAssumption DEF TypeInv, CallTypes, Slots
  <2>w. /\ want' \in [Clients -> Kinds \cup {"close", "destroy"}]
        /\ \A d \in Clients \ {c} : want'[d] = want[d]
    BY <2>2 DEF TypeInv, CallTypes
  <2>9. CallTypes'
    BY <1>1, <2>2, <2>7, <2>8, <2>w, CallsMove DEF TypeInv, CallTypes
  <2>10. /\ \A d \in Clients \ {c} : pc'[d] = pc[d]
         /\ Opening' \subseteq Opening
    BY <1>1, <2>2, <2>7, <2>w, PcMoves
  <2>11. Waits'
    BY <1>1, <2>3, <2>8, <2>10, Awake, WaitsKept
  <2>12. Queues'
    BY <1>1, <2>10, QueuesMove DEF TypeInv, Queues
  <2>13. QED
    BY <2>6, <2>9, <2>11, <2>12 DEF TypeInv
<1>4. QED
  BY <1>2, <1>3

LEMMA TypeSetDoneTypes ==
    ASSUME TypeInv, NEW c \in Clients, TypeSetDone(c)
    PROVE  TypeInv'
<1> DEFINE l == mine[c]
<1>1. /\ pc[c] \notin DOMAIN AfterWait /\ pc[c] \notin Outside /\ pc[c] \in ToOpen
      /\ l \in Slots /\ Cleared(l)
      /\ UNCHANGED <<user, remote_id, connected, locked, kicked, mine, want, rid, todo,
                     toDev, fromDev, live, slotOf, opens>>
  <2>1. pc[c] = "clear"
    BY DEF TypeSetDone
  <2>2. pc[c] \notin DOMAIN AfterWait /\ pc[c] \notin Outside /\ pc[c] \in ToOpen
    BY <2>1 DEF AfterWait, Outside, ToOpen
  <2>3. QED
    BY <2>2, SlotOfClient DEF TypeSetDone, adbd, counts
<1>2. PICK label \in {"idle", "free", "open"} : Goto(c, label)
  BY ReturnGoes DEF TypeSetDone
<1>3. label \in Labels /\ label \notin Outside
  BY DEF Labels, Outside
<1>4. /\ ptrlist' \in [Slots -> Seq(Opens)] /\ sem' \in [Slots -> SemType(Clients)]
      /\ current' \in [Slots -> 0..MaxOpens]
      /\ \A k \in Slots : sem'[k].blocked = sem[k].blocked /\ sem'[k].woken = sem[k].woken
  BY <1>1, ClearedTypes
<1>5. biptype' \in [Slots -> Kinds \cup {"close"}]
  <2>1. (IF want[c] \in Kinds THEN want[c] ELSE "close") \in Kinds \cup {"close"}
    OBVIOUS
  <2>2. biptype' = [biptype EXCEPT ![l] = IF want[c] \in Kinds THEN want[c] ELSE "close"]
    BY DEF TypeSetDone
  <2>3. QED
    BY <2>1, <2>2 DEF TypeInv, Tables
<1>6. Tables'
  BY <1>1, <1>4, <1>5 DEF TypeInv, Tables
<1>7. CallTypes'
  <2>1. mine'[c] # 0
    BY <1>1, ChannelsAssumption DEF Slots
  <2>2. QED
    BY <1>1, <1>2, <1>3, <2>1, CallsMove DEF TypeInv, CallTypes
<1>8. (\A d \in Clients \ {c} : pc'[d] = pc[d]) /\ Opening' \subseteq Opening
  BY <1>1, <1>2, <1>3, PcMoves
<1>9. Waits'
  BY <1>1, <1>4, <1>8, Awake, WaitsKept
<1>10. Queues'
  BY <1>1, <1>8, QueuesMove DEF TypeInv, Queues
<1>11. QED
  BY <1>6, <1>7, <1>9, <1>10 DEF TypeInv

LEMMA ClientFreeIdTypes ==
    ASSUME TypeInv, NEW c \in Clients, ClientFreeId(c)
    PROVE  TypeInv'
<1> DEFINE l == mine[c]
<1>1. /\ pc[c] \notin DOMAIN AfterWait /\ l \in Slots /\ ClientInit(l)
      /\ user' = [user EXCEPT ![l] = FALSE] /\ locked' = TRUE
      /\ mine' = [mine EXCEPT ![c] = 0] /\ Goto(c, "out")
      /\ todo' = [todo EXCEPT ![c] = Notify(l)]
      /\ UNCHANGED <<kicked, want, rid, toDev, fromDev, live, slotOf, opens>>
  <2>1. pc[c] = "free"
    BY DEF ClientFreeId
  <2>2. pc[c] \notin DOMAIN AfterWait /\ pc[c] \notin Outside
    BY <2>1 DEF AfterWait, Outside
  <2>3. QED
    BY <2>2, SlotOfClient DEF ClientFreeId, adbd, counts
<1>2. "out" \in Labels /\ "out" \in Outside /\ "out" \notin ToOpen
  BY DEF Labels, Outside, ToOpen
<1>3. /\ ptrlist' \in [Slots -> Seq(Opens)] /\ sem' \in [Slots -> SemType(Clients)]
      /\ current' \in [Slots -> 0..MaxOpens]
      /\ \A k \in Slots : sem'[k].blocked = sem[k].blocked /\ sem'[k].woken = sem[k].woken
  BY <1>1, ClearedTypes DEF ClientInit
<1>4. Tables'
  <2>1. user' \in [Slots -> BOOLEAN] /\ connected' \in [Slots -> BOOLEAN]
    BY <1>1 DEF ClientInit, TypeInv, Tables
  <2>2. biptype' \in [Slots -> Kinds \cup {"close"}] /\ remote_id' \in [Slots -> 0..MaxOpens]
    BY <1>1, ChannelsAssumption DEF ClientInit, TypeInv, Tables
  <2>3. locked' \in BOOLEAN /\ kicked' \in BOOLEAN
    BY <1>1 DEF TypeInv, Tables
  <2>4. QED
    BY <1>3, <2>1, <2>2, <2>3 DEF Tables
<1>5. /\ pc' \in [Clients -> Labels] /\ pc'[c] = "out" /\ Opening' \subseteq Opening
      /\ \A d \in Clients \ {c} : pc'[d] = pc[d] /\ mine'[d] = mine[d]
  BY <1>1, <1>2, PcMoves DEF TypeInv, CallTypes
<1>6. CallTypes'
  <2>1. todo' \in [Workers -> Seq(StepsOfWork)]
    BY <1>1, NotifyType DEF TypeInv, CallTypes
  <2>2. mine' \in [Clients -> 0..NumSlots] /\ mine'[c] = 0
    BY <1>1, ChannelsAssumption DEF TypeInv, CallTypes
  <2>3. \A d \in Clients : mine'[d] = 0 <=> pc'[d] \in {"out", "ctor"}
    BY <1>5, <2>2 DEF TypeInv, CallTypes
  <2>4. QED
    BY <1>1, <1>5, <2>1, <2>2, <2>3 DEF TypeInv, CallTypes
<1>7. Waits'
  BY <1>1, <1>3, <1>5, Awake, WaitsKept
<1>8. Queues'
  BY <1>1, <1>5, QueuesMove DEF TypeInv, Queues
<1>9. QED
  BY <1>4, <1>6, <1>7, <1>8 DEF TypeInv

LEMMA CallBegins ==
    ASSUME TypeInv, NEW c \in Clients, NEW type \in Kinds \cup {"close", "destroy"}, Call(c, type)
    PROVE  TypeInv'
<1>1. /\ pc[c] = "idle" /\ pc[c] \notin DOMAIN AfterWait /\ pc[c] \notin Outside
      /\ Goto(c, "type") /\ want' = [want EXCEPT ![c] = type]
      /\ UNCHANGED <<table, kicked, mine, rid, todo, toDev, fromDev, live, slotOf, opens>>
  BY DEF Call, AfterWait, Outside, adbd, counts
<1>2. "type" \in Labels /\ "type" \notin Outside /\ mine[c] # 0
  BY <1>1 DEF Labels, Outside, TypeInv, CallTypes
<1>3. /\ \A d \in Clients \ {c} : pc'[d] = pc[d] /\ mine'[d] = mine[d] /\ want'[d] = want[d]
      /\ pc'[c] = "type" /\ want'[c] = type /\ want' \in [Clients -> Kinds \cup {"close", "destroy"}]
  BY <1>1, <1>2, PcMoves DEF TypeInv, CallTypes
<1>4. Tables'
  BY <1>1 DEF TypeInv, Tables, table
<1>5. CallTypes'
  BY <1>1, <1>2, <1>3, CallsMove DEF TypeInv, CallTypes
<1>6. Waits'
  <2>1. \A l \in Slots : sem'[l].blocked = sem[l].blocked /\ sem'[l].woken = sem[l].woken
    BY <1>1 DEF table
  <2>2. QED
    BY <1>1, <1>3, <2>1, Awake, WaitsKept
<1>7. opens' \in Nat /\ opens' + Cardinality(Opening') <= MaxOpens
  <2>1. CASE type \in Kinds
    <3>1. c \notin Opening /\ opens + Cardinality(Opening) < MaxOpens
      BY <1>1, <2>1 DEF Opening, Call
    <3>2. Opening' = Opening \cup {c}
      BY <1>3, <2>1 DEF Opening
    <3>3. Cardinality(Opening') = Cardinality(Opening) + 1
      BY <3>1, <3>2, OpeningFinite, FS_AddElement
    <3>4. QED
      BY <1>1, <3>1, <3>3, OpeningFinite, ChannelsAssumption DEF TypeInv, Queues
  <2>2. CASE type \notin Kinds
    <3>1. Opening' \subseteq Opening
      BY <1>3, <2>2 DEF Opening
    <3>2. opens \in Nat /\ opens + Cardinality(Opening') <= MaxOpens
      BY <3>1, RoomKept DEF TypeInv
    <3>3. QED
      BY <1>1, <3>2
  <2>3. QED
    BY <2>1, <2>2
<1>8. Queues'
  <2>1. ToDevice' = ToDevice
    BY <1>1 DEF ToDevice
  <2>2. QED
    BY <1>1, <1>7, <2>1 DEF TypeInv, Queues
<1>9. QED
  BY <1>4, <1>5, <1>6, <1>8 DEF TypeInv

\* A client sends an OPEN only for a type it asked for.
OpensKinds == \A c \in Clients : pc[c] = "open" => want[c] \in Kinds

LEMMA OpenTypes ==
    ASSUME TypeInv, OpensKinds, NEW c \in Clients, Open(c)
    PROVE  TypeInv'
<1> DEFINE l == mine[c]
<1>1. /\ pc[c] = "open" /\ pc[c] \notin DOMAIN AfterWait /\ pc[c] \notin Outside
      /\ pc[c] \in ToOpen /\ l \in Slots
      /\ UNCHANGED <<user, biptype, remote_id, connected, ptrlist, sem, locked, kicked,
                     mine, want, rid, todo, fromDev, live>>
  <2>1. pc[c] = "open"
    BY DEF Open
  <2>2. pc[c] \notin DOMAIN AfterWait /\ pc[c] \notin Outside /\ pc[c] \in ToOpen
    BY <2>1 DEF AfterWait, Outside, ToOpen
  <2>3. QED
    BY <2>1, <2>2, SlotOfClient DEF Open
<1>2. CASE want[c] = "toolong"
  <2>1. PICK label \in {"idle", "free"} : Goto(c, label)
    BY <1>2, ReturnGoes DEF Open
  <2>2. label \in Labels /\ label \notin Outside /\ label \notin ToOpen
    BY DEF Labels, Outside, ToOpen
  <2>3. UNCHANGED <<toDev, opens, current, slotOf>>
    BY <1>2 DEF Open
  <2>4. /\ ptrlist' \in [Slots -> Seq(Opens)] /\ rid' \in [Clients -> 0..MaxOpens]
        /\ toDev' \in Seq(ToDevice)
    BY <1>1, <2>3 DEF TypeInv, Tables, CallTypes, Queues
  <2>5. QED
    BY <1>1, <2>1, <2>2, <2>3, <2>4, ClientMoves
<1>3. CASE want[c] # "toolong"
  <2>1. /\ opens' = opens + 1 /\ toDev' = Sent(<<Msg("OPEN", opens + 1, l)>>)
        /\ current' = [current EXCEPT ![l] = opens + 1]
        /\ slotOf' = [slotOf EXCEPT ![opens + 1] = l] /\ Goto(c, "connect")
    BY <1>3 DEF Open
  <2>2. "connect" \in Labels /\ "connect" \notin Outside /\ "connect" \notin ToOpen
    BY DEF Labels, Outside, ToOpen
  <2>3. /\ pc'[c] = "connect"
        /\ \A d \in Clients \ {c} : pc'[d] = pc[d] /\ mine'[d] = mine[d]
    BY <1>1, <2>1, <2>2, PcMoves
  <2>4. /\ opens' \in Nat /\ opens' + Cardinality(Opening') <= MaxOpens
        /\ opens + 1 \in Opens /\ opens + 1 \in 0..MaxOpens
    <3>1. c \in Opening /\ Opening' = Opening \ {c}
      BY <1>1, <2>3 DEF Opening, OpensKinds
    <3>2. Cardinality(Opening') = Cardinality(Opening) - 1 /\ Cardinality(Opening') \in Nat
      BY <3>1, OpeningFinite, FS_RemoveElement, FS_CardinalityType
    <3>3. /\ opens \in Nat /\ opens + Cardinality(Opening) <= MaxOpens /\ MaxOpens \in Nat
          /\ Cardinality(Opening) \in Nat
      BY OpeningFinite, ChannelsAssumption DEF TypeInv, Queues
    <3>4. QED
      BY <2>1, <3>2, <3>3 DEF Opens
  <2>5. Tables'
    <3>1. current' \in [Slots -> 0..MaxOpens]
      BY <2>1, <2>4 DEF TypeInv, Tables
    <3>2. QED
      BY <1>1, <3>1 DEF TypeInv, Tables
  <2>6. CallTypes'
    <3>1. mine'[c] # 0
      BY <1>1, ChannelsAssumption DEF Slots
    <3>2. QED
      BY <1>1, <2>1, <2>2, <3>1, CallsMove DEF TypeInv, CallTypes
  <2>7. Waits'
    <3>1. \A k \in Slots : sem'[k].blocked = sem[k].blocked /\ sem'[k].woken = sem[k].woken
      BY <1>1
    <3>2. QED
      BY <1>1, <2>3, <3>1, Awake, WaitsKept
  <2>8. /\ slotOf' \in [Opens -> 0..NumSlots] /\ slotOf'[opens + 1] = l
        /\ \A n \in Opens : slotOf[n] \in Slots => slotOf'[n] \in Slots
    <3>1. slotOf \in [Opens -> 0..NumSlots] /\ l \in 0..NumSlots
      BY <1>1 DEF TypeInv, Queues, CallTypes
    <3>2. QED
      BY <1>1, <2>1, <2>4, <3>1
  <2>9. toDev' \in Seq(ToDevice')
    <3>1. \A m \in ToDevice : m \in ToDevice'
      BY <2>8 DEF ToDevice
    <3>2. Msg("OPEN", opens + 1, l) \in ToDevice'
      BY <1>1, <2>4, <2>8 DEF ToDevice, Msg
    <3> DEFINE msgs == <<Msg("OPEN", opens + 1, l)>>  T == ToDevice'
    <3>3. toDev \in Seq(ToDevice)
      BY DEF TypeInv, Queues
    <3>4. ToDevice \subseteq T
      BY <3>1
    <3>5. Msg("OPEN", opens + 1, l) \in T
      BY <3>2
    <3>6. msgs \in Seq(T)
      BY <3>5
    <3>7. toDev' = toDev \/ toDev' = toDev \o msgs
      <4>1. ~Repeated(msgs)
        BY DEF Repeated, Msg
      <4>2. QED
        BY <2>1, <4>1 DEF Sent
    <3> HIDE DEF msgs, T
    <3>8. toDev \in Seq(T)
      BY <3>3, <3>4, SeqMonotonic
    <3>9. toDev' \in Seq(T)
      BY <3>6, <3>7, <3>8, ConcatProperties
    <3>10. QED
      BY <3>9 DEF T
  <2>10. Queues'
    BY <1>1, <2>4, <2>8, <2>9 DEF TypeInv, Queues
  <2>11. QED
    BY <2>5, <2>6, <2>7, <2>10 DEF TypeInv
<1>4. QED
  BY <1>2, <1>3

-------------------------------------------------------------------------------
(* The invariant, and the first theorem.                                   *)
LEMMA OpensKindsStep == TypeInv /\ OpensKinds /\ [Next]_vars => OpensKinds'
<1> SUFFICES ASSUME TypeInv, OpensKinds, [Next]_vars PROVE OpensKinds'
  OBVIOUS
<1>1. CASE UNCHANGED <<pc, want>>
  BY <1>1 DEF OpensKinds
<1>2. ASSUME NEW c \in Clients, NEW label \in Labels, Goto(c, label),
             label = "open" => want'[c] \in Kinds,
             \A d \in Clients \ {c} : want'[d] = want[d]
      PROVE  OpensKinds'
  <2>1. pc'[c] = label /\ \A d \in Clients \ {c} : pc'[d] = pc[d]
    BY <1>2, PcMoves
  <2>2. QED
    BY <1>2, <2>1 DEF OpensKinds
<1>3. ASSUME NEW c \in Clients, Client(c) PROVE OpensKinds'
  <2>1. CASE \E type \in Kinds \cup {"close", "destroy"} : Call(c, type)
    <3>1. Goto(c, "type") /\ \A d \in Clients \ {c} : want'[d] = want[d]
      BY <2>1 DEF Call, TypeInv, CallTypes
    <3>2. "type" \in Labels
      BY DEF Labels
    <3>3. QED
      BY <1>2, <3>1, <3>2
  <2>2. CASE TypeSetDone(c)
    <3>1. PICK label \in {"idle", "free", "open"} :
              Goto(c, label) /\ (label = "open" => want[c] \in Kinds) /\ UNCHANGED want
      BY <2>2, ReturnGoes DEF TypeSetDone
    <3>2. label \in Labels
      BY DEF Labels
    <3>3. QED
      BY <1>2, <3>1, <3>2
  <2>3. CASE Wait(c) \/ WaitResume(c)
    <3>1. UNCHANGED pc \/ Goto(c, AfterWait[pc[c]])
      BY <2>3 DEF Wait, WaitResume
    <3>2. \A label : label = AfterWait[pc[c]] => label \in Labels /\ label # "open"
      BY <2>3 DEF Wait, WaitResume, AfterWait, Labels
    <3>3. UNCHANGED want
      BY <2>3 DEF Wait, WaitResume
    <3>4. QED
      BY <1>1, <1>2, <3>1, <3>2, <3>3
  <2>4. CASE RecvTimeout(c) \/ RecvEmpty(c) \/ Recv(c) \/ RecvBegin(c)
    <3>1. PICK label \in {"idle", "free", "recv", "recv_empty", "recv_wait"} : Goto(c, label)
      BY <2>4, StopGoes DEF RecvTimeout, RecvEmpty, Recv, RecvBegin
    <3>2. UNCHANGED want
      BY <2>4 DEF RecvTimeout, RecvEmpty, Recv, RecvBegin
    <3>3. label \in Labels /\ label # "open"
      BY DEF Labels
    <3>4. QED
      BY <1>2, <3>1, <3>2, <3>3
  <2>g. CASE ClientGetId(c)
    <3>1. PICK label \in {"idle", "out"} : Goto(c, label)
      BY <2>g DEF ClientGetId
    <3>2. \A d \in Clients \ {c} : want'[d] = want[d]
      BY <2>g DEF ClientGetId, TypeInv, CallTypes
    <3>3. label \in Labels /\ label # "open"
      BY DEF Labels
    <3>4. QED
      BY <1>2, <3>1, <3>2, <3>3
  <2>5. CASE \/ Construct(c) \/ WriteBegin(c) \/ TypeSetBegin(c)
             \/ TypeSetOpening(c) \/ TypeSetClosing(c) \/ Open(c) \/ Connect(c) \/ Connected(c)
             \/ Write(c) \/ ClientFreeId(c)
    <3>1. PICK label \in Labels \ {"open"} : Goto(c, label)
      BY <2>5, ReturnGoes DEF Construct, WriteBegin, TypeSetBegin, TypeSetOpening,
          TypeSetClosing, Open, Connect, Connected, Write, ClientFreeId, Labels
    <3>2. UNCHANGED want
      BY <2>5 DEF Construct, WriteBegin, TypeSetBegin, TypeSetOpening,
          TypeSetClosing, Open, Connect, Connected, Write, ClientFreeId, OnlyPc
    <3>3. QED
      BY <1>2, <3>1, <3>2
  <2>6. QED
    BY <1>3, <2>1, <2>2, <2>3, <2>4, <2>g, <2>5 DEF Client, InCall
<1>4. CASE \/ \E w \in Workers : Step(w)
           \/ HandlePacket \/ ClearCall \/ StepLock \/ StepFree \/ DeviceReceive
           \/ (\E n \in Opens : DeviceSend(n) \/ DeviceClose(n)) \/ UNCHANGED vars
  <2>1. UNCHANGED <<pc, want>>
    BY <1>4, Zenon DEF Step, StepType, StepPush, StepRid, StepConnected, StepAdd, StepNotify, HandlePacket,
        ClearCall, StepLock, StepFree, DeviceReceive, DeviceSend, DeviceClose, vars, calls
  <2>2. QED
    BY <1>1, <2>1, SMTT(60)
<1>5. QED
  BY <1>3, <1>4 DEF Next

LEMMA TypeInvStep == TypeInv /\ OpensKinds /\ [Next]_vars => TypeInv'
<1> SUFFICES ASSUME TypeInv, OpensKinds, [Next]_vars PROVE TypeInv'
  OBVIOUS
<1>1. ASSUME NEW w \in Workers, Step(w) PROVE TypeInv'
  BY <1>1, StepTypes
<1>2. CASE HandlePacket
  BY <1>2, HandlePacketTypes
<1>3. CASE ClearCall \/ StepLock \/ StepFree
  BY <1>3, ClearTypes
<1>4. ASSUME NEW c \in Clients, Client(c) PROVE TypeInv'
  <2>1. CASE \E type \in Kinds \cup {"close", "destroy"} : Call(c, type)
    BY <2>1, CallBegins
  <2>2. CASE ClientGetId(c)
    BY <2>2, ClientGetIdTypes
  <2>3. CASE RecvBegin(c) \/ Recv(c) \/ RecvEmpty(c)
    BY <2>3, ReadTypes
  <2>4. CASE Wait(c) \/ WaitResume(c) \/ RecvTimeout(c)
    BY <2>4, WaitTypes
  <2>5. CASE \/ Construct(c) \/ TypeSetBegin(c) \/ TypeSetClosing(c)
             \/ Connect(c) \/ Connected(c) \/ WriteBegin(c)
    BY <2>5, OnlyPcTypes
  <2>6. CASE TypeSetOpening(c) \/ Write(c)
    BY <2>6, SendTypes
  <2>7. CASE TypeSetDone(c)
    BY <2>7, TypeSetDoneTypes
  <2>8. CASE Open(c)
    BY <2>8, OpenTypes
  <2>9. CASE ClientFreeId(c)
    BY <2>9, ClientFreeIdTypes
  <2>10. QED
    BY <1>4, <2>1, <2>2, <2>3, <2>4, <2>5, <2>6, <2>7, <2>8, <2>9 DEF Client, InCall
<1>5. CASE DeviceReceive \/ \E n \in Opens : DeviceSend(n) \/ DeviceClose(n)
  BY <1>5, DeviceTypes
<1>6. CASE UNCHANGED vars
  <2>1. UNCHANGED <<user, biptype, remote_id, connected, ptrlist, sem, current, locked, kicked,
                    pc, mine, want, rid, todo, toDev, fromDev, live, slotOf, opens>>
    BY <1>6 DEF vars, table, calls, adbd, counts
  <2>2. ToDevice' = ToDevice /\ Opening' = Opening
    BY <2>1 DEF ToDevice, Opening
  <2>3. Tables' /\ Queues'
    BY <2>1, <2>2 DEF TypeInv, Tables, Queues
  <2>4. CallTypes'
    BY <2>1 DEF TypeInv, CallTypes
  <2>5. Waits'
    BY <2>1 DEF TypeInv, Waits, AfterWait
  <2>6. QED
    BY <2>3, <2>4, <2>5 DEF TypeInv
<1>7. QED
  BY <1>1, <1>2, <1>3, <1>4, <1>5, <1>6 DEF Next

\* Whatever the users, the device and the threads do in whatever order, the table keeps
\* its types, no id runs past its bound, and a thread is inside the condition variable of
\* its own channel only, in a wait of its own (Catransport.h 18-44, Catransport.cpp
\* 518-588).
THEOREM ChannelsTypeOK == Spec => []TypeOK
<1>1. Init => TypeInv /\ OpensKinds
  <2>1. Init => OpensKinds
    BY DEF Init, OpensKinds
  <2>2. QED
    BY <2>1, InitTypeInv
<1>2. (TypeInv /\ OpensKinds) /\ [Next]_vars => (TypeInv /\ OpensKinds)'
  BY TypeInvStep, OpensKindsStep
<1>3. QED
  BY <1>1, <1>2, TypeInvImpliesTypeOK, PTL DEF Spec

-------------------------------------------------------------------------------
(* Slots: while the transport is up, a user's slot is marked used, so that   *)
(* client_get_id gives it to nobody else; only Clear unmarks it.             *)
LEMMA ClearsAfterKick ==
    ASSUME TypeInv, Owned, Next
    PROVE  /\ todo'["closer"] # <<>> => kicked'
           /\ kicked => kicked'
<1> USE DEF TypeInv, CallTypes
<1>1. todo \in [Workers -> Seq(StepsOfWork)] /\ "closer" \in Workers /\ "user_thread" \in Workers
  BY DEF Workers
<1>2. ASSUME NEW w \in Workers, Step(w)
      PROVE  UNCHANGED kicked /\ (todo'["closer"] # <<>> => todo["closer"] # <<>>)
  <2>1. UNCHANGED kicked /\ Drop(w) /\ todo[w] # <<>>
    BY <1>2 DEF Step, StepType, StepPush, StepRid, StepConnected, StepAdd, StepNotify, Committed
  <2>2. QED
    BY <1>1, <2>1, SMTT(60) DEF Drop
<1>3. CASE HandlePacket
  BY <1>1, <1>3 DEF HandlePacket, Owned
<1>4. CASE ClearCall
  BY <1>4, SMTT(60) DEF ClearCall
<1>5. CASE StepLock \/ StepFree
  BY <1>5, Zenon DEF StepLock, StepFree, Committed, Owned
<1>6. ASSUME NEW c \in Clients, Client(c)
      PROVE  UNCHANGED kicked /\ todo'["closer"] = todo["closer"]
  <2>1. CASE ClientFreeId(c)
    <3>1. UNCHANGED kicked /\ todo' = [todo EXCEPT ![c] = Notify(mine[c])]
      BY <2>1 DEF ClientFreeId
    <3>2. c # "closer"
      BY ChannelsAssumption
    <3>3. QED
      BY <1>1, <3>1, <3>2
  <2>2. CASE ~ClientFreeId(c)
    <3>1. UNCHANGED <<kicked, todo>>
      BY <1>6, <2>2 DEF Client, InCall, Construct, ClientGetId, Call, RecvBegin, RecvTimeout,
          WriteBegin, TypeSetBegin, TypeSetOpening, TypeSetClosing, TypeSetDone, Open, Connect,
          Connected, Recv, RecvEmpty, Wait, WaitResume, Write, OnlyPc
    <3>2. QED
      BY <3>1
  <2>3. QED
    BY <2>1, <2>2
<1>7. CASE DeviceReceive \/ \E n \in Opens : DeviceSend(n) \/ DeviceClose(n)
  BY <1>7 DEF DeviceReceive, DeviceSend, DeviceClose, Owned
<1>8. QED
  BY <1>2, <1>3, <1>4, <1>5, <1>6, <1>7 DEF Next, Owned

LEMMA SlotsStep ==
    TypeInv /\ Owned /\ SlotsAreExclusive /\ [Next]_vars => Owned' /\ SlotsAreExclusive'
<1> SUFFICES ASSUME TypeInv, Owned, SlotsAreExclusive, [Next]_vars
             PROVE  Owned' /\ SlotsAreExclusive'
  OBVIOUS
<1>1. CASE UNCHANGED vars
  BY <1>1 DEF vars, table, calls, Owned, SlotsAreExclusive
<1>2. CASE Next /\ kicked'
  BY <1>2 DEF Owned, SlotsAreExclusive
<1>3. CASE Next /\ ~kicked'
  <2>1. ~kicked /\ todo["closer"] = <<>> /\ ~(todo'["closer"] # <<>>)
    BY <1>3, ClearsAfterKick DEF Owned
  <2>2. \A c \in Clients : mine[c] # 0 => user[mine[c]]
    BY <2>1 DEF Owned
  <2>3. /\ mine \in [Clients -> 0..NumSlots] /\ user \in [Slots -> BOOLEAN]
        /\ \A c \in Clients : mine[c] = 0 \/ mine[c] \in Slots
    BY ChannelsAssumption DEF TypeInv, Tables, CallTypes, Slots
  <2>4. \A c, d \in Clients : c # d /\ mine[c] # 0 => mine[c] # mine[d]
    BY <2>1 DEF SlotsAreExclusive
  <2>5. SUFFICES /\ \A c \in Clients : mine'[c] # 0 => user'[mine'[c]]
                 /\ \A c, d \in Clients : c # d /\ mine'[c] # 0 => mine'[c] # mine'[d]
    BY <2>1 DEF Owned, SlotsAreExclusive
  <2>6. CASE UNCHANGED <<user, mine>>
    BY <2>2, <2>4, <2>6
  <2>7. ASSUME NEW c \in Clients, ClientGetId(c), ~ \A l \in Slots : user[l]
        PROVE  /\ \A d \in Clients : mine'[d] # 0 => user'[mine'[d]]
               /\ \A d, e \in Clients : d # e /\ mine'[d] # 0 => mine'[d] # mine'[e]
    <3> DEFINE l == CHOOSE l \in Slots : ~user[l] /\ \A k \in Slots : ~user[k] => l <= k
    <3>1. l \in Slots /\ ~user[l]
      BY <2>7, FirstFree
    <3>2. user' = [user EXCEPT ![l] = TRUE] /\ mine' = [mine EXCEPT ![c] = l]
      BY <2>7 DEF ClientGetId
    <3> HIDE DEF l
    <3>3. mine'[c] = l /\ \A d \in Clients \ {c} : mine'[d] = mine[d] /\ mine[d] # l
      BY <2>2, <2>3, <3>1, <3>2, ChannelsAssumption DEF Slots
    <3>4. user'[l] /\ \A k \in Slots : user[k] => user'[k]
      BY <2>3, <3>1, <3>2
    <3>5. QED
      BY <2>2, <2>3, <2>4, <3>3, <3>4
  <2>8. ASSUME NEW c \in Clients, ClientFreeId(c)
        PROVE  /\ \A d \in Clients : mine'[d] # 0 => user'[mine'[d]]
               /\ \A d, e \in Clients : d # e /\ mine'[d] # 0 => mine'[d] # mine'[e]
    <3>1. user' = [user EXCEPT ![mine[c]] = FALSE] /\ mine' = [mine EXCEPT ![c] = 0]
      BY <2>8 DEF ClientFreeId
    <3>2. mine'[c] = 0 /\ \A d \in Clients \ {c} : mine'[d] = mine[d]
      BY <2>3, <3>1
    <3>3. \A k \in Slots \ {mine[c]} : user'[k] = user[k]
      BY <2>3, <3>1
    <3>4. QED
      BY <2>2, <2>3, <2>4, <3>2, <3>3
  <2>9. CASE \E c \in Clients : Client(c)
    <3>1. PICK c \in Clients : Client(c)
      BY <2>9
    <3>2. CASE ClientFreeId(c)
      BY <2>8, <3>2
    <3>3. CASE ClientGetId(c)
      <4>1. CASE \A l \in Slots : user[l]
        BY <2>6, <3>3, <4>1 DEF ClientGetId, table
      <4>2. QED
        BY <2>7, <3>3, <4>1
    <3>4. CASE ~ClientFreeId(c) /\ ~ClientGetId(c)
      <4>1. UNCHANGED <<user, mine>>
        BY <3>1, <3>4 DEF Client, InCall, Construct, Call, RecvBegin, RecvTimeout,
            WriteBegin, TypeSetBegin, TypeSetOpening, TypeSetClosing, TypeSetDone, Open, Connect,
            Connected, Recv, RecvEmpty, Wait, WaitResume, Write, OnlyPc, table
      <4>2. QED
        BY <2>6, <4>1
    <3>5. QED
      BY <3>2, <3>3, <3>4
  <2>10. CASE \/ \E w \in Workers : Step(w)
              \/ HandlePacket \/ ClearCall \/ StepLock \/ DeviceReceive
              \/ \E n \in Opens : DeviceSend(n) \/ DeviceClose(n)
    <3>1. UNCHANGED <<user, mine>>
      BY <2>10, Zenon DEF Step, StepType, StepPush, StepRid, StepConnected, StepAdd, StepNotify,
          HandlePacket, ClearCall, StepLock, DeviceReceive, DeviceSend, DeviceClose, table, calls
    <3>2. QED
      BY <2>6, <3>1, SMTT(60)
  <2>11. ~StepFree
    BY <2>1 DEF StepFree, Committed
  <2>12. QED
    BY <1>3, <2>9, <2>10, <2>11 DEF Next
<1>4. QED
  BY <1>1, <1>2, <1>3

\* For any number of users and slots: while the transport is up, client_get_id never gives
\* the slot of one user to another, whatever is opened, closed and given back meanwhile
\* (Catransport.cpp 1076-1124).
THEOREM ChannelsSlotsAreExclusive == Spec => []SlotsAreExclusive
<1> DEFINE Inv == TypeInv /\ OpensKinds /\ Owned /\ SlotsAreExclusive
<1>1. Init => Inv
  <2>1. Init => OpensKinds /\ Owned /\ SlotsAreExclusive
    BY DEF Init, OpensKinds, Owned, SlotsAreExclusive, Workers
  <2>2. QED
    BY <2>1, InitTypeInv
<1>2. Inv /\ [Next]_vars => Inv'
  BY TypeInvStep, OpensKindsStep, SlotsStep
<1>3. QED
  BY <1>1, <1>2, PTL DEF Spec
===============================================================================
