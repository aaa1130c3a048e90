---------------------------- MODULE TransportProofs ----------------------------
(***************************************************************************)
(* The types of Transport, that SYNC goes ahead of everything, what a      *)
(* sleeping reader can miss of packets and of Clears, for any number of    *)
(* clients, closers and packets; and that without clients the last Clear   *)
(* finds no reader asleep.                                                 *)
(***************************************************************************)
EXTENDS Transport, SequenceTheorems, FiniteSetTheorems, TLAPS

Labels == {"none", "idle", "open", "check", "wait", "blocked", "read", "CNXN", "DATA", "clear", "exit"}

\* What a thread other than the one in Start is committed to.
Announcements == [do : {"add", "notify"}, pipe : Pipes] \cup [do : {"kick"}]
Moves == [do : {"push"}, pipe : Pipes, packet : Packets] \cup Announcements

Flags ==
    /\ kicked \in BOOLEAN /\ ok \in BOOLEAN
    /\ active \in BOOLEAN /\ online \in BOOLEAN /\ ignored \in BOOLEAN
    /\ received \in 0..MaxDevice /\ sends \in 0..MaxSends

Places ==
    /\ pc \in [Threads -> Labels]
    /\ \A t \in Threads \ PumpThreads : pc[t] \in {"idle", "open", "exit"}
    /\ DOMAIN todo = Threads
    /\ \A t \in Threads \ {"starter"} : todo[t] \in Seq(Moves)

\* A thread that Start has not created has done nothing.
Uncreated(t) == pc[t] = "none" /\ todo[t] = <<>>
Starting ==
    \/ todo["starter"] = StartSteps /\ \A t \in PumpThreads : Uncreated(t)
    \/ todo["starter"] = <<Create("output"), Create("user")>> /\ Uncreated("output") /\ Uncreated("user")
    \/ todo["starter"] = <<Create("user")>> /\ Uncreated("user")
    \/ todo["starter"] = <<>>

Semaphores ==
    /\ sem \in [Pipes -> SemType({"input", "user"})]
    /\ \A p \in Pipes :
          /\ sem[p] \in SemType({Reader(p)})
          /\ sem[p].blocked \cap sem[p].woken = {}
          /\ Reader(p) \in sem[p].blocked \cup sem[p].woken <=> pc[Reader(p)] = "blocked"

\* ref_count counts the threads that Start has created and that have not ended.
Counted(t) == IF pc[t] \in {"none", "exit"} THEN 0 ELSE 1
Counting == refCount = Counted("input") + Counted("output") + Counted("user")

TypeInv ==
    /\ pipe \in [Pipes -> Seq(Packets)]
    /\ Flags /\ Places /\ Starting /\ Semaphores /\ Counting

-------------------------------------------------------------------------------
LEMMA ThreadFacts ==
    /\ PumpThreads \subseteq Threads /\ "starter" \in Threads /\ "starter" \notin PumpThreads
    /\ Clients \subseteq Threads /\ Closers \subseteq Threads
    /\ \A t \in Clients \cup Closers : t \notin PumpThreads /\ t # "starter"
  BY TransportAssumption DEF PumpThreads, Threads, Users

LEMMA TypeInvImpliesTypeOK == TypeInv => TypeOK
<1> SUFFICES ASSUME TypeInv PROVE TypeOK
  OBVIOUS
<1>1. \A p \in Pipes : \A i \in DOMAIN pipe[p] : pipe[p][i] \in Packets
  BY DEF TypeInv
<1>2. Moves \subseteq Steps
  BY DEF Moves, Announcements, Steps
<1>3. \A t \in Threads : \A i \in DOMAIN todo[t] : todo[t][i] \in Steps
  <2>1. \A t \in Threads \ {"starter"} : \A i \in DOMAIN todo[t] : todo[t][i] \in Moves
    BY DEF TypeInv, Places
  <2>2. \A t \in PumpThreads : Create(t) \in Steps
    BY DEF Create, Steps
  <2>3. Create("input") \in Steps /\ Create("output") \in Steps /\ Create("user") \in Steps
    BY <2>2 DEF PumpThreads
  <2>4. \A i \in DOMAIN todo["starter"] : todo["starter"][i] \in Steps
    BY <2>3 DEF TypeInv, Starting, StartSteps
  <2>5. QED
    BY <1>2, <2>1, <2>4
<1>4. refCount \in -3..3
  BY DEF TypeInv, Counting, Counted
<1>5. QED
  BY <1>1, <1>3, <1>4 DEF TypeInv, Flags, Semaphores, TypeOK

LEMMA InitTypeInv == Init => TypeInv
<1> SUFFICES ASSUME Init PROVE TypeInv
  OBVIOUS
<1>1. pipe \in [Pipes -> Seq(Packets)]
  BY DEF Init
<1>2. Flags
  <2>1. received \in 0..MaxDevice /\ sends \in 0..MaxSends
    BY TransportAssumption DEF Init
  <2>2. QED
    BY <2>1 DEF Init, Flags
<1>3. Places
  BY ThreadFacts DEF Init, Places, Labels
<1>4. Starting
  BY ThreadFacts DEF Init, Starting, Uncreated
<1>5. Semaphores
  <2>1. sem \in [Pipes -> SemType({"input", "user"})] /\ \A p \in Pipes : sem[p] \in SemType({Reader(p)})
    BY TransportAssumption DEF Init, NewSem, SemType
  <2>2. \A p \in Pipes : sem[p].blocked = {} /\ sem[p].woken = {}
    BY DEF Init, NewSem
  <2>3. \A p \in Pipes : pc[Reader(p)] = "none"
    BY ThreadFacts DEF Init, Reader, PumpThreads
  <2>4. QED
    BY <2>1, <2>2, <2>3 DEF Semaphores
<1>6. Counting
  BY ThreadFacts DEF Init, Counting, Counted, PumpThreads
<1>7. QED
  BY <1>1, <1>2, <1>3, <1>4, <1>5, <1>6 DEF TypeInv

-------------------------------------------------------------------------------
(* Straight-line code.                                                     *)
LEMMA SignalType ==
    ASSUME NEW p \in Pipes
    PROVE  Signal(p) \in Seq(Announcements) /\ Signal(p) \in Seq(Moves)
<1>1. On("add", p) \in Announcements /\ On("notify", p) \in Announcements
  BY DEF On, Announcements
<1>2. On("add", p) \in Moves /\ On("notify", p) \in Moves
  BY <1>1 DEF Moves
<1>3. QED
  BY <1>1, <1>2 DEF Signal

LEMMA WriteType ==
    ASSUME NEW p \in Pipes, NEW packet \in Packets
    PROVE  Write(p, packet) \in Seq(Moves)
<1>1. [do |-> "push", pipe |-> p, packet |-> packet] \in Moves
  BY DEF Moves
<1>2. <<[do |-> "push", pipe |-> p, packet |-> packet]>> \in Seq(Moves)
  BY <1>1
<1>3. QED
  BY <1>2, SignalType, ConcatProperties DEF Write

LEMMA ClearType == Clear \in Seq(Announcements) /\ Clear \in Seq(Moves)
<1>1. Do("kick") \in Announcements /\ Do("kick") \in Moves
  BY DEF Do, Announcements, Moves
<1>2. /\ <<Do("kick")>> \in Seq(Announcements) /\ <<Do("kick")>> \in Seq(Moves)
      /\ <<>> \in Seq(Announcements) /\ <<>> \in Seq(Moves)
  BY <1>1
<1>3. "a2b" \in Pipes /\ "b2a" \in Pipes
  BY DEF Pipes
<1>4. QED
  BY <1>2, <1>3, SignalType, ConcatProperties DEF Clear

LEMMA RepliesType ==
    ASSUME NEW packet \in Packets
    PROVE  \A steps \in Replies(packet) : steps \in Seq(Moves)
<1>1. "a2b" \in Pipes /\ {"SYNC0", "SYNC1", "CNXN", "DATA"} = Packets /\ <<>> \in Seq(Moves)
  BY DEF Pipes, Packets
<1>2. /\ Write("a2b", "SYNC1") \in Seq(Moves) /\ Write("a2b", "CNXN") \in Seq(Moves)
      /\ Write("a2b", "SYNC0") \in Seq(Moves) /\ Write("a2b", "DATA") \in Seq(Moves)
  BY <1>1, WriteType
<1>3. Write("a2b", "SYNC1") \o Write("a2b", "CNXN") \in Seq(Moves)
  BY <1>2, ConcatProperties
<1>4. CASE packet = "SYNC1"
  BY <1>3, <1>4 DEF Replies
<1>5. CASE packet = "SYNC0"
  BY <1>2, <1>5 DEF Replies
<1>6. CASE packet \in {"CNXN", "DATA"}
  <2>1. Replies(packet) = {<<>>, Write("a2b", packet)}
    BY <1>6 DEF Replies
  <2>2. QED
    BY <1>1, <1>2, <1>6, <2>1
<1>7. QED
  BY <1>1, <1>4, <1>5, <1>6

\* A thread goes to a place and commits itself to steps; the others stay.
Moved(t, label, steps) ==
    /\ pc' = [pc EXCEPT ![t] = label]
    /\ todo' = [todo EXCEPT ![t] = steps]

LEMMA MovedPlaces ==
    ASSUME TypeInv, NEW t \in Threads \ {"starter"}, NEW label \in Labels, NEW steps \in Seq(Moves),
           Moved(t, label, steps), ~Uncreated(t),
           t \notin PumpThreads => label \in {"idle", "open", "exit"}
    PROVE  /\ Places' /\ Starting'
           /\ pc'[t] = label /\ todo'[t] = steps
           /\ \A u \in Threads \ {t} : pc'[u] = pc[u] /\ todo'[u] = todo[u]
<1>1. /\ pc \in [Threads -> Labels] /\ DOMAIN todo = Threads
      /\ \A u \in Threads \ PumpThreads : pc[u] \in {"idle", "open", "exit"}
      /\ \A u \in Threads \ {"starter"} : todo[u] \in Seq(Moves)
  BY DEF TypeInv, Places
<1>2. /\ pc' \in [Threads -> Labels] /\ pc'[t] = label /\ DOMAIN todo' = Threads
      /\ \A u \in Threads \ {t} : pc'[u] = pc[u]
  BY <1>1 DEF Moved
<1>3. todo'[t] = steps /\ \A u \in Threads \ {t} : todo'[u] = todo[u]
  BY <1>1 DEF Moved
<1>4. Places'
  BY <1>1, <1>2, <1>3 DEF Places
<1>5. Starting'
  <2>1. todo'["starter"] = todo["starter"]
    BY <1>3, ThreadFacts
  <2>2. \A u \in PumpThreads : Uncreated(u) => u # t /\ pc'[u] = pc[u] /\ todo'[u] = todo[u]
    BY <1>2, <1>3, ThreadFacts
  <2>3. \A u \in PumpThreads : Uncreated(u) => Uncreated(u)'
    BY <2>2 DEF Uncreated
  <2>4. QED
    BY <2>1, <2>3 DEF TypeInv, Starting, PumpThreads
<1>6. QED
  BY <1>2, <1>3, <1>4, <1>5

Inside(s) == s.blocked \cup s.woken

LEMMA Sem1 ==
    ASSUME NEW R, NEW s \in SemType(R)
    PROVE  /\ s.count \in Int /\ s.blocked \subseteq R /\ s.woken \subseteq R
           /\ Raised(s, 1) \in SemType(R)
           /\ Raised(s, 1).blocked = s.blocked /\ Raised(s, 1).woken = s.woken
           /\ Passed(s) \in SemType(R)
           /\ Passed(s).blocked = s.blocked /\ Passed(s).woken = s.woken
  BY DEF SemType, Raised, Passed

LEMMA Sem2 ==
    ASSUME NEW R, NEW s \in SemType(R), NEW t \in R
    PROVE  /\ Blocked(s, t) \in SemType(R)
           /\ Blocked(s, t).blocked = s.blocked \cup {t} /\ Blocked(s, t).woken = s.woken
           /\ Resumed(s, t) \in SemType(R)
           /\ Resumed(s, t).blocked = s.blocked /\ Resumed(s, t).woken = s.woken \ {t}
<1>1. /\ s.blocked \cup {t} \in SUBSET R /\ s.woken \ {t} \in SUBSET R /\ s.count - 1 \in Int
  BY DEF SemType
<1>2. Blocked(s, t) \in SemType(R) /\ Resumed(s, t) \in SemType(R)
  BY <1>1, Zenon DEF SemType, Blocked, Resumed
<1>3. QED
  BY <1>2 DEF SemType, Blocked, Resumed

LEMMA Sem3 ==
    ASSUME NEW R, NEW s \in SemType(R), s.blocked \cap s.woken = {}, NEW n \in Notified(s)
    PROVE  n \in SemType(R) /\ n.blocked \cap n.woken = {} /\ Inside(n) = Inside(s)
<1>1. CASE s.blocked = {}
  BY <1>1 DEF Notified
<1>2. CASE s.blocked # {}
  <2>1. PICK t \in s.blocked : n = [s EXCEPT !.blocked = @ \ {t}, !.woken = @ \cup {t}]
    BY <1>2 DEF Notified
  <2>2. /\ n = [count |-> s.count, blocked |-> s.blocked \ {t}, woken |-> s.woken \cup {t}]
        /\ s.count \in Int /\ s.blocked \subseteq R /\ s.woken \subseteq R
    BY <2>1 DEF SemType
  <2>3. QED
    BY <2>2 DEF SemType, Inside
<1>3. QED
  BY <1>1, <1>2

LEMMA SemWider ==
    ASSUME NEW p \in Pipes, NEW s \in SemType({Reader(p)})
    PROVE  s \in SemType({"input", "user"})
  BY DEF SemType, Reader, Pipes

\* One semaphore changes, and its reader with it.
LEMMA SemaphoresKept ==
    ASSUME TypeInv, NEW p \in Pipes, NEW s \in SemType({Reader(p)}), sem' = [sem EXCEPT ![p] = s],
           s.blocked \cap s.woken = {},
           Reader(p) \in Inside(s) <=> pc'[Reader(p)] = "blocked",
           \A q \in Pipes \ {p} : pc'[Reader(q)] = "blocked" <=> pc[Reader(q)] = "blocked"
    PROVE  Semaphores'
<1>1. sem \in [Pipes -> SemType({"input", "user"})] /\ s \in SemType({"input", "user"})
  BY SemWider DEF TypeInv, Semaphores
<1>2. sem' \in [Pipes -> SemType({"input", "user"})]
  BY <1>1
<1>3. sem'[p] = s /\ \A q \in Pipes \ {p} : sem'[q] = sem[q]
  BY <1>1
<1>4. \A q \in Pipes : /\ sem'[q] \in SemType({Reader(q)})
                       /\ sem'[q].blocked \cap sem'[q].woken = {}
                       /\ Reader(q) \in Inside(sem'[q]) <=> pc'[Reader(q)] = "blocked"
  BY <1>3 DEF TypeInv, Semaphores, Inside
<1>5. QED
  BY <1>2, <1>4 DEF Semaphores, Inside, Reader

LEMMA SemaphoresSame ==
    ASSUME TypeInv, UNCHANGED sem,
           \A q \in Pipes : pc'[Reader(q)] = "blocked" <=> pc[Reader(q)] = "blocked"
    PROVE  Semaphores'
  BY DEF TypeInv, Semaphores, Reader

LEMMA CountingSame ==
    ASSUME TypeInv, UNCHANGED refCount,
           \A t \in PumpThreads : pc'[t] \in {"none", "exit"} <=> pc[t] \in {"none", "exit"}
    PROVE  Counting'
  BY DEF TypeInv, Counting, Counted, PumpThreads

\* A thread goes on without touching a semaphore and without ending.
LEMMA MovedTypes ==
    ASSUME TypeInv, NEW t \in Threads \ {"starter"}, NEW label \in Labels, NEW steps \in Seq(Moves),
           Moved(t, label, steps), ~Uncreated(t),
           t \notin PumpThreads => label \in {"idle", "open", "exit"},
           label = "blocked" <=> pc[t] = "blocked",
           t \in PumpThreads => (label \in {"none", "exit"} <=> pc[t] \in {"none", "exit"}),
           UNCHANGED <<sem, refCount>>, pipe' \in [Pipes -> Seq(Packets)], Flags'
    PROVE  TypeInv'
<1>1. /\ Places' /\ Starting' /\ pc'[t] = label
      /\ \A u \in Threads \ {t} : pc'[u] = pc[u]
  BY MovedPlaces
<1>2. \A q \in Pipes : Reader(q) \in Threads
  BY ThreadFacts DEF Reader, PumpThreads
<1>3. Semaphores'
  <2>1. \A q \in Pipes : pc'[Reader(q)] = "blocked" <=> pc[Reader(q)] = "blocked"
    BY <1>1, <1>2
  <2>2. QED
    BY <2>1, SemaphoresSame
<1>4. Counting'
  <2>1. \A u \in PumpThreads : pc'[u] \in {"none", "exit"} <=> pc[u] \in {"none", "exit"}
    BY <1>1, ThreadFacts
  <2>2. QED
    BY <2>1, CountingSame
<1>5. QED
  BY <1>1, <1>3, <1>4 DEF TypeInv

-------------------------------------------------------------------------------
(* The steps of straight-line code.                                        *)
LEMMA Committing ==
    ASSUME TypeInv, NEW t \in Threads, NEW what \in {"push", "add", "notify", "kick"},
           Committed(t, what)
    PROVE  /\ t # "starter" /\ ~Uncreated(t) /\ Tail(todo[t]) \in Seq(Moves)
           /\ Head(todo[t]) \in Moves /\ Head(todo[t]).do = what
           /\ what # "kick" => Head(todo[t]).pipe \in Pipes
           /\ what = "push" => Head(todo[t]).packet \in Packets
<1>1. todo[t] # <<>> /\ Head(todo[t]).do = what
  BY DEF Committed
<1>2. t # "starter"
  BY <1>1 DEF TypeInv, Starting, StartSteps, Create
<1>3. todo[t] \in Seq(Moves)
  BY <1>2 DEF TypeInv, Places
<1>4. Head(todo[t]) \in Moves /\ Tail(todo[t]) \in Seq(Moves)
  BY <1>1, <1>3, HeadTailProperties
<1>5. QED
  BY <1>1, <1>2, <1>4 DEF Moves, Announcements, Uncreated

LEMMA PushTypes ==
    ASSUME TypeInv, NEW t \in Threads, Push(t)
    PROVE  TypeInv'
<1> DEFINE p == Head(todo[t]).pipe  packet == Head(todo[t]).packet
<1>1. /\ t \in Threads \ {"starter"} /\ ~Uncreated(t) /\ Tail(todo[t]) \in Seq(Moves)
      /\ p \in Pipes /\ packet \in Packets
  BY Committing DEF Push
<1>2. pc[t] \in Labels /\ Moved(t, pc[t], Tail(todo[t]))
  BY DEF Push, Drop, Moved, TypeInv, Places
<1>3. t \notin PumpThreads => pc[t] \in {"idle", "open", "exit"}
  BY <1>1 DEF TypeInv, Places
<1>4. pipe' \in [Pipes -> Seq(Packets)]
  <2>1. Append(pipe[p], packet) \in Seq(Packets)
    BY <1>1, AppendProperties DEF TypeInv
  <2>2. pipe' = pipe \/ pipe' = [pipe EXCEPT ![p] = Append(pipe[p], packet)]
    BY DEF Push
  <2>3. QED
    BY <1>1, <2>1, <2>2 DEF TypeInv
<1>5. Flags'
  <2>1. ok' \in BOOLEAN /\ UNCHANGED <<kicked, active, online, ignored, received, sends>>
    BY DEF Push, TypeInv, Flags
  <2>2. QED
    BY <2>1 DEF TypeInv, Flags
<1>6. UNCHANGED <<sem, refCount>>
  BY DEF Push
<1>7. QED
  BY <1>1, <1>2, <1>3, <1>4, <1>5, <1>6, MovedTypes

LEMMA SignalAddTypes ==
    ASSUME TypeInv, NEW t \in Threads, SignalAdd(t)
    PROVE  TypeInv'
<1> DEFINE p == Head(todo[t]).pipe
<1>1. /\ t \in Threads \ {"starter"} /\ ~Uncreated(t) /\ Tail(todo[t]) \in Seq(Moves)
      /\ p \in Pipes
  BY Committing DEF SignalAdd
<1>2. pc[t] \in Labels /\ Moved(t, pc[t], Tail(todo[t])) /\ UNCHANGED pc
  BY DEF SignalAdd, Drop, Moved, TypeInv, Places
<1>3. t \notin PumpThreads => pc[t] \in {"idle", "open", "exit"}
  BY <1>1 DEF TypeInv, Places
<1>4. Places' /\ Starting'
  BY <1>1, <1>2, <1>3, MovedPlaces
<1>5. Semaphores'
  <2>1. /\ sem[p] \in SemType({Reader(p)}) /\ sem[p].blocked \cap sem[p].woken = {}
        /\ Reader(p) \in Inside(sem[p]) <=> pc[Reader(p)] = "blocked"
    BY <1>1 DEF TypeInv, Semaphores, Inside
  <2>2. /\ Raised(sem[p], 1) \in SemType({Reader(p)})
        /\ Raised(sem[p], 1).blocked = sem[p].blocked /\ Raised(sem[p], 1).woken = sem[p].woken
    BY <2>1, Sem1
  <2>3. sem' = [sem EXCEPT ![p] = Raised(sem[p], 1)]
    BY DEF SignalAdd
  <2>4. QED
    BY <1>1, <1>2, <2>1, <2>2, <2>3, SemaphoresKept DEF Inside
<1>6. Counting'
  BY <1>2, CountingSame DEF SignalAdd
<1>7. pipe' \in [Pipes -> Seq(Packets)] /\ Flags'
  BY DEF SignalAdd, TypeInv, Flags
<1>8. QED
  BY <1>4, <1>5, <1>6, <1>7 DEF TypeInv

\* Where a thread is after its notify or its kick: there, or at its end.
LEMMA ExitTypes ==
    ASSUME TypeInv, NEW t \in Threads \ {"starter"}, ~Uncreated(t), Tail(todo[t]) \in Seq(Moves),
           Drop(t), Exit(t)
    PROVE  /\ Places' /\ Starting' /\ Counting'
           /\ \A q \in Pipes : pc'[Reader(q)] = "blocked" <=> pc[Reader(q)] = "blocked"
<1>1. /\ pc[t] \in Labels /\ DOMAIN pc = Threads
      /\ t \notin PumpThreads => pc[t] \in {"idle", "open", "exit"}
  BY DEF TypeInv, Places
<1>2. CASE pc[t] = "clear" /\ Tail(todo[t]) = <<>>
  <2>1. t \in PumpThreads /\ Moved(t, "exit", Tail(todo[t])) /\ refCount' = refCount - 1
    BY <1>1, <1>2 DEF Exit, Drop, Moved
  <2>2. "exit" \in Labels
    BY DEF Labels
  <2>3. /\ Places' /\ Starting' /\ pc'[t] = "exit"
        /\ \A u \in Threads \ {t} : pc'[u] = pc[u]
    BY <2>1, <2>2, MovedPlaces
  <2>4. \A q \in Pipes : pc'[Reader(q)] = "blocked" <=> pc[Reader(q)] = "blocked"
    BY <1>2, <2>3, ThreadFacts DEF Reader, PumpThreads
  <2>5. Counting'
    BY <1>2, <2>1, <2>3, ThreadFacts DEF TypeInv, Counting, Counted, PumpThreads
  <2>6. QED
    BY <2>3, <2>4, <2>5
<1>3. CASE ~(pc[t] = "clear" /\ Tail(todo[t]) = <<>>)
  <2>1. UNCHANGED <<pc, refCount>>
    BY <1>3 DEF Exit
  <2>2. Moved(t, pc[t], Tail(todo[t]))
    BY <1>1, <2>1 DEF Drop, Moved, TypeInv, Places
  <2>3. Places' /\ Starting'
    BY <1>1, <2>2, MovedPlaces
  <2>4. QED
    BY <2>1, <2>3, CountingSame
<1>4. QED
  BY <1>2, <1>3

LEMMA SignalNotifyTypes ==
    ASSUME TypeInv, NEW t \in Threads, SignalNotify(t)
    PROVE  TypeInv'
<1> DEFINE p == Head(todo[t]).pipe
<1>1. /\ t \in Threads \ {"starter"} /\ ~Uncreated(t) /\ Tail(todo[t]) \in Seq(Moves)
      /\ p \in Pipes
  BY Committing DEF SignalNotify
<1>2. /\ Places' /\ Starting' /\ Counting'
      /\ \A q \in Pipes : pc'[Reader(q)] = "blocked" <=> pc[Reader(q)] = "blocked"
  BY <1>1, ExitTypes DEF SignalNotify
<1>3. Semaphores'
  <2>1. /\ sem[p] \in SemType({Reader(p)}) /\ sem[p].blocked \cap sem[p].woken = {}
        /\ Reader(p) \in Inside(sem[p]) <=> pc[Reader(p)] = "blocked"
    BY <1>1 DEF TypeInv, Semaphores, Inside
  <2>2. PICK s \in Notified(sem[p]) : sem' = [sem EXCEPT ![p] = s]
    BY DEF SignalNotify
  <2>3. s \in SemType({Reader(p)}) /\ s.blocked \cap s.woken = {} /\ Inside(s) = Inside(sem[p])
    BY <2>1, <2>2, Sem3
  <2>4. QED
    BY <1>1, <1>2, <2>1, <2>2, <2>3, SemaphoresKept
<1>4. pipe' \in [Pipes -> Seq(Packets)] /\ Flags'
  BY DEF SignalNotify, TypeInv, Flags
<1>5. QED
  BY <1>2, <1>3, <1>4 DEF TypeInv

LEMMA KickTypes ==
    ASSUME TypeInv, NEW t \in Threads, Kick(t)
    PROVE  TypeInv'
<1>1. /\ t \in Threads \ {"starter"} /\ ~Uncreated(t) /\ Tail(todo[t]) \in Seq(Moves)
  BY Committing DEF Kick
<1>2. /\ Places' /\ Starting' /\ Counting'
      /\ \A q \in Pipes : pc'[Reader(q)] = "blocked" <=> pc[Reader(q)] = "blocked"
  BY <1>1, ExitTypes DEF Kick
<1>3. Semaphores'
  BY <1>2, SemaphoresSame DEF Kick
<1>4. pipe' \in [Pipes -> Seq(Packets)] /\ Flags'
  BY DEF Kick, TypeInv, Flags
<1>5. QED
  BY <1>2, <1>3, <1>4 DEF TypeInv

\* Start creates a thread that was not there.
LEMMA Creating ==
    ASSUME TypeInv, NEW t \in Threads, CreateThread(t)
    PROVE  /\ t = "starter"
           /\ \E new \in PumpThreads :
                  /\ Uncreated(new)
                  /\ pc' = [pc EXCEPT ![new] = IF new = "output" THEN "read" ELSE "check"]
                  /\ todo' = [todo EXCEPT ![t] = Tail(@),
                                          ![new] = IF new = "output" THEN Write("b2a", "SYNC1") ELSE <<>>]
                  /\ \/ todo[t] = StartSteps /\ new = "input"
                     \/ todo[t] = <<Create("output"), Create("user")>> /\ new = "output"
                     \/ todo[t] = <<Create("user")>> /\ new = "user"
<1>1. t = "starter"
  <2>1. ASSUME t # "starter" PROVE FALSE
    <3>1. todo[t] \in Seq(Moves) /\ todo[t] # <<>> /\ Head(todo[t]).do = "create"
      BY <2>1 DEF TypeInv, Places, CreateThread, Committed
    <3>2. Head(todo[t]) \in Moves
      BY <3>1, HeadTailProperties
    <3>3. QED
      BY <3>1, <3>2 DEF Moves, Announcements
  <2>2. QED
    BY <2>1
<1> DEFINE new == Head(todo[t]).thread
<1>2. todo[t] # <<>>
  BY DEF CreateThread, Committed
<1>3. /\ new \in PumpThreads /\ Uncreated(new)
      /\ \/ todo[t] = StartSteps /\ new = "input"
         \/ todo[t] = <<Create("output"), Create("user")>> /\ new = "output"
         \/ todo[t] = <<Create("user")>> /\ new = "user"
  BY <1>1, <1>2 DEF TypeInv, Starting, StartSteps, Create, PumpThreads
<1>4. /\ pc' = [pc EXCEPT ![new] = IF new = "output" THEN "read" ELSE "check"]
      /\ todo' = [todo EXCEPT ![t] = Tail(@),
                              ![new] = IF new = "output" THEN Write("b2a", "SYNC1") ELSE <<>>]
  BY DEF CreateThread
<1>5. QED
  BY <1>1, <1>3, <1>4

LEMMA CreateThreadTypes ==
    ASSUME TypeInv, NEW t \in Threads, CreateThread(t)
    PROVE  TypeInv'
<1>1. PICK new \in PumpThreads :
        /\ Uncreated(new)
        /\ pc' = [pc EXCEPT ![new] = IF new = "output" THEN "read" ELSE "check"]
        /\ todo' = [todo EXCEPT ![t] = Tail(@),
                                ![new] = IF new = "output" THEN Write("b2a", "SYNC1") ELSE <<>>]
        /\ \/ todo[t] = StartSteps /\ new = "input"
           \/ todo[t] = <<Create("output"), Create("user")>> /\ new = "output"
           \/ todo[t] = <<Create("user")>> /\ new = "user"
  BY Creating
<1>2. t = "starter"
  BY Creating
<1> DEFINE steps == IF new = "output" THEN Write("b2a", "SYNC1") ELSE <<>>
           label == IF new = "output" THEN "read" ELSE "check"
<1>3. steps \in Seq(Moves)
  <2>1. "b2a" \in Pipes /\ "SYNC1" \in Packets /\ <<>> \in Seq(Moves)
    BY DEF Pipes, Packets
  <2>2. QED
    BY <2>1, WriteType
<1>4. label \in Labels /\ label # "blocked" /\ label \notin {"none", "exit"}
  BY DEF Labels
<1>5. UNCHANGED <<pipe, sem, kicked, ok, active, online, ignored, received, sends>>
      /\ refCount' = refCount + 1
  BY DEF CreateThread
<1> HIDE DEF steps, label
<1>6. /\ pc \in [Threads -> Labels] /\ DOMAIN todo = Threads /\ new \in Threads /\ new # t
      /\ \A u \in Threads \ PumpThreads : pc[u] \in {"idle", "open", "exit"}
      /\ \A u \in Threads \ {"starter"} : todo[u] \in Seq(Moves)
  BY <1>2, ThreadFacts DEF TypeInv, Places
<1>7. /\ pc' = [pc EXCEPT ![new] = label]
      /\ todo' = [todo EXCEPT ![t] = Tail(todo[t]), ![new] = steps]
  BY <1>1 DEF steps, label
<1>8. /\ pc' \in [Threads -> Labels] /\ pc'[new] = label /\ DOMAIN todo' = Threads
      /\ \A u \in Threads \ {new} : pc'[u] = pc[u]
  BY <1>4, <1>6, <1>7
<1>9. /\ todo'[new] = steps /\ todo'[t] = Tail(todo[t])
      /\ \A u \in Threads \ {new, t} : todo'[u] = todo[u]
  BY <1>2, <1>6, <1>7, ThreadFacts
<1>10. Places'
  BY <1>2, <1>3, <1>6, <1>8, <1>9, ThreadFacts DEF Places
<1>11. Starting'
  <2>1. \A u \in PumpThreads \ {new} : Uncreated(u) => Uncreated(u)'
    BY <1>2, <1>8, <1>9, ThreadFacts DEF Uncreated
  <2>2. CASE todo[t] = StartSteps /\ new = "input"
    <3>1. todo'["starter"] = <<Create("output"), Create("user")>>
      BY <1>2, <1>9, <2>2 DEF StartSteps
    <3>2. Uncreated("output") /\ Uncreated("user")
      BY <1>2, <2>2 DEF TypeInv, Starting, StartSteps, PumpThreads
    <3>3. QED
      BY <2>1, <2>2, <3>1, <3>2 DEF Starting, PumpThreads
  <2>3. CASE todo[t] = <<Create("output"), Create("user")>> /\ new = "output"
    <3>1. todo'["starter"] = <<Create("user")>>
      BY <1>2, <1>9, <2>3
    <3>2. Uncreated("user")
      BY <1>2, <2>3 DEF TypeInv, Starting, StartSteps, PumpThreads
    <3>3. QED
      BY <2>1, <2>3, <3>1, <3>2 DEF Starting, PumpThreads
  <2>4. CASE todo[t] = <<Create("user")>> /\ new = "user"
    <3>1. todo'["starter"] = <<>>
      BY <1>2, <1>9, <2>4
    <3>2. QED
      BY <3>1 DEF Starting
  <2>5. QED
    BY <1>1, <2>2, <2>3, <2>4
<1>12. Semaphores'
  <2>1. \A q \in Pipes : pc'[Reader(q)] = "blocked" <=> pc[Reader(q)] = "blocked"
    BY <1>1, <1>4, <1>8, ThreadFacts DEF Uncreated, Reader, PumpThreads
  <2>2. QED
    BY <1>5, <2>1, SemaphoresSame
<1>13. Counting'
  BY <1>1, <1>4, <1>5, <1>8, ThreadFacts DEF TypeInv, Counting, Counted, PumpThreads, Uncreated
<1>14. pipe' \in [Pipes -> Seq(Packets)] /\ Flags'
  BY <1>5 DEF TypeInv, Flags
<1>15. QED
  BY <1>10, <1>11, <1>12, <1>13, <1>14 DEF TypeInv

LEMMA StepTypes ==
    ASSUME TypeInv, NEW t \in Threads, Step(t)
    PROVE  TypeInv'
  BY PushTypes, SignalAddTypes, SignalNotifyTypes, KickTypes, CreateThreadTypes DEF Step

-------------------------------------------------------------------------------
(* The readers.                                                            *)
LEMMA Readers ==
    ASSUME NEW t \in {"input", "user"}
    PROVE  /\ t \in Threads \ {"starter"} /\ t \in PumpThreads
           /\ Source(t) \in Pipes /\ Reader(Source(t)) = t
           /\ \A q \in Pipes \ {Source(t)} : Reader(q) # t /\ Reader(q) \in Threads
  BY ThreadFacts DEF PumpThreads, Source, Pipes, Reader

\* What a reader does with the packet it takes, and without one.
LEMMA TakeGoes ==
    ASSUME TypeInv, NEW t \in {"input", "user"}, pipe[Source(t)] # <<>>, Take(t)
    PROVE  /\ \E label \in Labels \ {"none", "exit", "blocked"}, steps \in Seq(Moves) :
                  Moved(t, label, steps)
           /\ pipe' \in [Pipes -> Seq(Packets)]
           /\ active' \in BOOLEAN /\ online' \in BOOLEAN /\ ignored' \in BOOLEAN
<1> DEFINE q == pipe[Source(t)]  packet == Head(q)
<1>1. q \in Seq(Packets) /\ Source(t) \in Pipes
  BY Readers DEF TypeInv
<1>2. packet \in Packets /\ Tail(q) \in Seq(Packets)
  BY <1>1, HeadTailProperties
<1>3. pipe' = [pipe EXCEPT ![Source(t)] = Tail(pipe[Source(t)])]
  BY DEF Take
<1>4. pipe' \in [Pipes -> Seq(Packets)]
  BY <1>1, <1>2, <1>3 DEF TypeInv
<1>5. active \in BOOLEAN /\ online \in BOOLEAN /\ ignored \in BOOLEAN
  BY DEF TypeInv, Flags
<1>6. <<>> \in Seq(Moves) /\ Clear \in Seq(Moves)
  BY ClearType
<1>7. CASE t = "input"
  <2>1. InputTakes(packet) /\ UNCHANGED online
    BY <1>7 DEF Take
  <2>2. packet # "SYNC0" /\ packet # "SYNC1" => packet \in {"CNXN", "DATA"}
    BY <1>2 DEF Packets
  <2>3. \E label \in {"clear", "check", "CNXN", "DATA"}, steps \in {<<>>, Clear} :
            Moved("input", label, steps)
    BY <2>1, <2>2 DEF InputTakes, Leave, Goto, Moved
  <2>4. active' \in BOOLEAN /\ ignored' \in BOOLEAN
    BY <1>5, <2>1 DEF InputTakes
  <2>5. {"clear", "check", "CNXN", "DATA"} \subseteq Labels \ {"none", "exit", "blocked"}
    BY DEF Labels
  <2>6. QED
    BY <1>4, <1>5, <1>6, <1>7, <2>1, <2>3, <2>4, <2>5
<1>8. CASE t # "input"
  <2>1. t = "user" /\ UserTakes(packet) /\ UNCHANGED <<active, ignored>>
    BY <1>8 DEF Take
  <2>2. PICK steps \in Replies(packet) :
                 /\ Moved("user", "check", steps)
                 /\ online' = CASE packet = "CNXN" -> steps = <<>>
                                [] packet = "SYNC0" -> FALSE
                                [] OTHER -> online
    BY <2>1 DEF UserTakes, Goto, Moved
  <2>3. online' \in BOOLEAN
    BY <1>5, <2>2
  <2>4. "check" \in Labels \ {"none", "exit", "blocked"} /\ steps \in Seq(Moves)
    BY <1>2, RepliesType DEF Labels
  <2>5. QED
    BY <1>4, <1>5, <2>1, <2>2, <2>3, <2>4
<1>9. QED
  BY <1>7, <1>8

LEMMA PopGoes ==
    ASSUME TypeInv, NEW t \in {"input", "user"}, PopAfterWait(t)
    PROVE  /\ \E label \in Labels \ {"none", "exit", "blocked"}, steps \in Seq(Moves) :
                  Moved(t, label, steps)
           /\ pipe' \in [Pipes -> Seq(Packets)]
           /\ active' \in BOOLEAN /\ online' \in BOOLEAN /\ ignored' \in BOOLEAN
<1>1. CASE pipe[Source(t)] # <<>>
  BY <1>1, TakeGoes DEF PopAfterWait
<1>2. CASE pipe[Source(t)] = <<>>
  <2>1. Moved(t, "check", <<>>) /\ UNCHANGED <<pipe, active, ignored, online>>
    BY <1>2 DEF PopAfterWait, Goto, Moved
  <2>2. "check" \in Labels \ {"none", "exit", "blocked"} /\ <<>> \in Seq(Moves)
    BY DEF Labels
  <2>3. QED
    BY <2>1, <2>2 DEF TypeInv, Flags
<1>3. QED
  BY <1>1, <1>2

LEMMA ReadCheckTypes ==
    ASSUME TypeInv, NEW t \in Threads, ReadCheck(t)
    PROVE  TypeInv'
<1>1. t \in {"input", "user"} /\ pc[t] = "check"
  BY DEF ReadCheck, At
<1>2. /\ \E label \in Labels \ {"none", "exit", "blocked"}, steps \in Seq(Moves) : Moved(t, label, steps)
      /\ pipe' \in [Pipes -> Seq(Packets)]
      /\ active' \in BOOLEAN /\ online' \in BOOLEAN /\ ignored' \in BOOLEAN
  <2>1. CASE ~kicked /\ pipe[Source(t)] # <<>>
    <3>1. Take(t)
      BY <2>1 DEF ReadCheck
    <3>2. QED
      BY <1>1, <2>1, <3>1, TakeGoes
  <2>2. CASE ~(~kicked /\ pipe[Source(t)] # <<>>)
    <3>1. /\ Moved(t, "clear", Clear) \/ Moved(t, "wait", <<>>)
          /\ UNCHANGED <<pipe, active, ignored, online>>
      BY <2>2 DEF ReadCheck, Leave, Goto, Moved
    <3>2. /\ "clear" \in Labels \ {"none", "exit", "blocked"} /\ Clear \in Seq(Moves)
          /\ "wait" \in Labels \ {"none", "exit", "blocked"} /\ <<>> \in Seq(Moves)
      BY ClearType DEF Labels
    <3>3. pipe \in [Pipes -> Seq(Packets)] /\ active \in BOOLEAN /\ online \in BOOLEAN /\ ignored \in BOOLEAN
      BY DEF TypeInv, Flags
    <3>4. QED
      BY <3>1, <3>2, <3>3
  <2>3. QED
    BY <2>1, <2>2
<1>3. UNCHANGED <<sem, kicked, ok, refCount, received, sends>>
  BY DEF ReadCheck
<1>4. Flags'
  BY <1>2, <1>3 DEF TypeInv, Flags
<1>5. ~Uncreated(t)
  BY <1>1 DEF Uncreated
<1>6. QED
  BY <1>1, <1>2, <1>3, <1>4, <1>5, Readers, MovedTypes

\* A reader goes into its semaphore, past it, or out of it.
LEMMA ReaderMoves ==
    ASSUME TypeInv, NEW t \in {"input", "user"}, ~Uncreated(t), pc[t] \in {"wait", "blocked"},
           NEW label \in Labels \ {"none", "exit"}, NEW steps \in Seq(Moves), Moved(t, label, steps),
           NEW s \in SemType({t}), sem' = [sem EXCEPT ![Source(t)] = s],
           s.blocked \cap s.woken = {}, t \in Inside(s) <=> label = "blocked",
           UNCHANGED refCount, pipe' \in [Pipes -> Seq(Packets)], Flags'
    PROVE  TypeInv'
<1>1. /\ Places' /\ Starting' /\ pc'[t] = label /\ \A u \in Threads \ {t} : pc'[u] = pc[u]
  BY Readers, MovedPlaces
<1>2. Semaphores'
  BY <1>1, Readers, SemaphoresKept
<1>3. Counting'
  <2>1. \A u \in PumpThreads : pc'[u] \in {"none", "exit"} <=> pc[u] \in {"none", "exit"}
    BY <1>1, ThreadFacts
  <2>2. QED
    BY <2>1, CountingSame
<1>4. QED
  BY <1>1, <1>2, <1>3 DEF TypeInv

LEMMA ReadWaitTypes ==
    ASSUME TypeInv, NEW t \in Threads, ReadWait(t) \/ ReadResume(t)
    PROVE  TypeInv'
<1> DEFINE s == sem[Source(t)]
<1>1. t \in {"input", "user"} /\ pc[t] \in {"wait", "blocked"} /\ ~Uncreated(t)
  BY DEF ReadWait, ReadResume, At, Uncreated
<1>2. /\ s \in SemType({t}) /\ s.blocked \cap s.woken = {}
      /\ t \in Inside(s) <=> pc[t] = "blocked"
  BY <1>1, Readers, ZenonT(60) DEF TypeInv, Semaphores, Inside
<1>3. /\ UNCHANGED <<kicked, ok, refCount, received, sends>>
  BY DEF ReadWait, ReadResume
<1>4. ASSUME PopAfterWait(t), NEW r \in SemType({t}), sem' = [sem EXCEPT ![Source(t)] = r],
             r.blocked \cap r.woken = {}, t \notin Inside(r)
      PROVE  TypeInv'
  <2>1. /\ \E label \in Labels \ {"none", "exit", "blocked"}, steps \in Seq(Moves) : Moved(t, label, steps)
        /\ pipe' \in [Pipes -> Seq(Packets)]
        /\ active' \in BOOLEAN /\ online' \in BOOLEAN /\ ignored' \in BOOLEAN
    BY <1>1, <1>4, PopGoes
  <2>2. Flags'
    BY <1>3, <2>1 DEF TypeInv, Flags
  <2>3. QED
    BY <1>1, <1>3, <1>4, <2>1, <2>2, ReaderMoves
<1>5. CASE ReadWait(t) /\ CanPass(s)
  <2>1. PopAfterWait(t) /\ sem' = [sem EXCEPT ![Source(t)] = Passed(s)] /\ pc[t] = "wait"
    BY <1>5 DEF ReadWait, At
  <2>2. /\ Passed(s) \in SemType({t}) /\ Passed(s).blocked = s.blocked /\ Passed(s).woken = s.woken
    BY <1>2, Sem1
  <2>3. Passed(s).blocked \cap Passed(s).woken = {} /\ t \notin Inside(Passed(s))
    BY <1>2, <2>1, <2>2 DEF Inside
  <2>4. QED
    BY <1>4, <2>1, <2>2, <2>3
<1>6. CASE ReadWait(t) /\ ~CanPass(s)
  <2>1. /\ Moved(t, "blocked", <<>>) /\ sem' = [sem EXCEPT ![Source(t)] = Blocked(s, t)]
        /\ pc[t] = "wait" /\ UNCHANGED <<pipe, active, ignored, online>>
    BY <1>6 DEF ReadWait, At, Goto, Moved
  <2>2. /\ Blocked(s, t) \in SemType({t})
        /\ Blocked(s, t).blocked = s.blocked \cup {t} /\ Blocked(s, t).woken = s.woken
    BY <1>2, Sem2
  <2>3. Blocked(s, t).blocked \cap Blocked(s, t).woken = {} /\ t \in Inside(Blocked(s, t))
    BY <1>2, <2>1, <2>2 DEF Inside
  <2>4. pipe' \in [Pipes -> Seq(Packets)] /\ Flags'
    BY <1>3, <2>1 DEF TypeInv, Flags
  <2>5. "blocked" \in Labels \ {"none", "exit"} /\ <<>> \in Seq(Moves)
    BY DEF Labels
  <2>6. QED
    BY <1>1, <1>3, <2>1, <2>2, <2>3, <2>4, <2>5, ReaderMoves
<1>7. CASE ReadResume(t)
  <2>1. PopAfterWait(t) /\ sem' = [sem EXCEPT ![Source(t)] = Resumed(s, t)] /\ t \in s.woken
    BY <1>7 DEF ReadResume
  <2>2. /\ Resumed(s, t) \in SemType({t})
        /\ Resumed(s, t).blocked = s.blocked /\ Resumed(s, t).woken = s.woken \ {t}
    BY <1>2, Sem2
  <2>3. Resumed(s, t).blocked \cap Resumed(s, t).woken = {} /\ t \notin Inside(Resumed(s, t))
    BY <1>2, <2>1, <2>2 DEF Inside
  <2>4. QED
    BY <1>4, <2>1, <2>2, <2>3
<1>8. QED
  BY <1>5, <1>6, <1>7

-------------------------------------------------------------------------------
(* The ends of the pipes, the clients and the closers.                     *)
LEMMA EndTypes ==
    ASSUME TypeInv, \/ UsbWrite \/ WriteFailed \/ UsbReadFails
                    \/ (\E packet \in {"CNXN", "DATA"} : UsbRead(packet))
                    \/ (\E c \in Clients : ClientOpen(c) \/ ClientSend(c)) \/ (\E c \in Closers : CloserClear(c))
    PROVE  TypeInv'
<1>1. UNCHANGED <<pipe, sem, kicked, ok, active, online, refCount, ignored>>
  BY DEF UsbWrite, WriteFailed, UsbReadFails, UsbRead, ClientOpen, ClientSend, CloserClear
<1>2. received' \in 0..MaxDevice /\ sends' \in 0..MaxSends
  <2>1. received \in 0..MaxDevice /\ sends \in 0..MaxSends
    BY DEF TypeInv, Flags
  <2>2. received' = received \/ (received < MaxDevice /\ received' = received + 1)
    <3>1. ASSUME NEW packet \in {"CNXN", "DATA"}, UsbRead(packet)
          PROVE  received < MaxDevice /\ received' = received + 1
      BY <3>1, Zenon DEF UsbRead
    <3>2. UsbWrite => UNCHANGED received
      BY DEF UsbWrite
    <3>3. WriteFailed => UNCHANGED received
      BY DEF WriteFailed
    <3>4. UsbReadFails => UNCHANGED received
      BY DEF UsbReadFails
    <3>5. \A c \in Clients \cup Closers : ClientOpen(c) \/ ClientSend(c) \/ CloserClear(c) => UNCHANGED received
      BY DEF ClientOpen, ClientSend, CloserClear
    <3>6. QED
      BY <3>1, <3>2, <3>3, <3>4, <3>5, Zenon
  <2>3. sends' = sends \/ (sends < MaxSends /\ sends' = sends + 1)
    <3>1. ASSUME NEW c \in Clients, ClientSend(c)
          PROVE  sends < MaxSends /\ sends' = sends + 1
      BY <3>1, Zenon DEF ClientSend
    <3>2. UsbWrite => UNCHANGED sends
      BY DEF UsbWrite
    <3>3. WriteFailed => UNCHANGED sends
      BY DEF WriteFailed
    <3>4. UsbReadFails => UNCHANGED sends
      BY DEF UsbReadFails
    <3>5. \A c \in Closers : CloserClear(c) => UNCHANGED sends
      BY DEF CloserClear
    <3>6. \A packet \in {"CNXN", "DATA"} : UsbRead(packet) => UNCHANGED sends
      BY DEF UsbRead
    <3>7. \A c \in Clients : ClientOpen(c) => UNCHANGED sends
      BY DEF ClientOpen
    <3>8. QED
      BY <3>1, <3>2, <3>3, <3>4, <3>5, <3>6, <3>7, Zenon
  <2>4. QED
    BY <2>1, <2>2, <2>3, TransportAssumption
<1>3. pipe' \in [Pipes -> Seq(Packets)] /\ Flags'
  BY <1>1, <1>2 DEF TypeInv, Flags
<1>4. /\ "a2b" \in Pipes /\ "b2a" \in Pipes /\ Packets = {"SYNC0", "SYNC1", "CNXN", "DATA"}
      /\ <<>> \in Seq(Moves) /\ Clear \in Seq(Moves)
  BY ClearType DEF Pipes, Packets
<1>5. \E t \in Threads \ {"starter"}, label \in Labels, steps \in Seq(Moves) :
          /\ Moved(t, label, steps) /\ ~Uncreated(t)
          /\ t \notin PumpThreads => label \in {"idle", "open", "exit"}
          /\ label = "blocked" <=> pc[t] = "blocked"
          /\ t \in PumpThreads => (label \in {"none", "exit"} <=> pc[t] \in {"none", "exit"})
  <2>1. CASE UsbWrite
    <3>1. Moved("input", "check", <<>>) /\ pc["input"] \in {"CNXN", "DATA"}
      BY <2>1 DEF UsbWrite, At, Goto, Moved
    <3>2. "input" \in Threads \ {"starter"} /\ "input" \in PumpThreads /\ "check" \in Labels
      BY ThreadFacts DEF PumpThreads, Labels
    <3>3. QED
      BY <1>4, <3>1, <3>2 DEF Uncreated
  <2>2. CASE \/ WriteFailed \/ UsbReadFails
             \/ \E packet \in {"CNXN", "DATA"} : UsbRead(packet)
    <3>1. pc["output"] = "read"
      BY <2>2 DEF WriteFailed, UsbReadFails, UsbRead, At
    <3>2. "output" \in Threads \ {"starter"} /\ "output" \in PumpThreads /\ {"clear", "read"} \subseteq Labels
      BY ThreadFacts DEF PumpThreads, Labels
    <3>3. \E label \in {"clear", "read"}, steps \in Seq(Moves) : Moved("output", label, steps)
      <4>1. CASE WriteFailed
        BY <1>4, <4>1 DEF WriteFailed, Leave, Goto, Moved
      <4>2. CASE UsbReadFails
        <5>1. Write("b2a", "SYNC0") \o Clear \in Seq(Moves)
          BY <1>4, WriteType, ConcatProperties
        <5>2. QED
          BY <4>2, <5>1 DEF UsbReadFails, Goto, Moved
      <4>3. ASSUME NEW packet \in {"CNXN", "DATA"}, UsbRead(packet)
            PROVE  \E label \in {"clear", "read"}, steps \in Seq(Moves) : Moved("output", label, steps)
        <5>1. Write("b2a", packet) \in Seq(Moves)
          BY <1>4, <4>3, WriteType
        <5>2. QED
          BY <4>3, <5>1 DEF UsbRead, Goto, Moved
      <4>4. QED
        BY <2>2, <4>1, <4>2, <4>3
    <3>4. QED
      BY <3>1, <3>2, <3>3 DEF Uncreated
  <2>3. ASSUME NEW c \in Clients, ClientOpen(c) \/ ClientSend(c)
        PROVE  \E label \in {"idle", "open", "exit"}, steps \in Seq(Moves) :
                  Moved(c, label, steps) /\ pc[c] \in {"idle", "open"}
    <3>1. Write("a2b", "DATA") \in Seq(Moves)
      BY <1>4, WriteType
    <3>2. QED
      BY <1>4, <2>3, <3>1 DEF ClientOpen, ClientSend, At, Goto, Moved
  <2>4. ASSUME NEW c \in Closers, CloserClear(c)
        PROVE  \E label \in {"idle", "open", "exit"}, steps \in Seq(Moves) :
                  Moved(c, label, steps) /\ pc[c] \in {"idle", "open"}
    BY <1>4, <2>4 DEF CloserClear, At, Goto, Moved
  <2>5. CASE (\E c \in Clients : ClientOpen(c) \/ ClientSend(c)) \/ (\E c \in Closers : CloserClear(c))
    <3>1. PICK c \in Clients \cup Closers :
              \E label \in {"idle", "open", "exit"}, steps \in Seq(Moves) :
                  Moved(c, label, steps) /\ pc[c] \in {"idle", "open"}
      BY <2>3, <2>4, <2>5
    <3>2. c \in Threads \ {"starter"} /\ c \notin PumpThreads /\ {"idle", "open", "exit"} \subseteq Labels
      BY ThreadFacts DEF Labels
    <3>3. QED
      BY <3>1, <3>2 DEF Uncreated
  <2>6. QED
    BY <2>1, <2>2, <2>5
<1>6. QED
  BY <1>1, <1>3, <1>5, MovedTypes

LEMMA TypeInvStep == TypeInv /\ [Next]_vars => TypeInv'
<1> SUFFICES ASSUME TypeInv, [Next]_vars PROVE TypeInv'
  OBVIOUS
<1>1. ASSUME NEW t \in Threads, ThreadStep(t) PROVE TypeInv'
  BY <1>1, StepTypes, ReadCheckTypes, ReadWaitTypes, EndTypes DEF ThreadStep
<1>2. CASE \/ UsbReadFails \/ (\E packet \in {"CNXN", "DATA"} : UsbRead(packet))
           \/ (\E c \in Clients : ClientOpen(c) \/ ClientSend(c)) \/ (\E c \in Closers : CloserClear(c))
  BY <1>2, EndTypes
<1>3. CASE UNCHANGED vars
  <2>1. UNCHANGED <<pipe, sem, kicked, pc, todo, ok, active, online, refCount, ignored,
                    received, sends>>
    BY <1>3 DEF vars
  <2>2. Places'
    BY <2>1 DEF TypeInv, Places
  <2>3. Starting'
    BY <2>1 DEF TypeInv, Starting, Uncreated
  <2>4. Semaphores'
    BY <2>1, SemaphoresSame
  <2>5. Counting'
    BY <2>1, CountingSame
  <2>6. pipe' \in [Pipes -> Seq(Packets)] /\ Flags'
    BY <2>1 DEF TypeInv, Flags
  <2>7. QED
    BY <2>2, <2>3, <2>4, <2>5, <2>6 DEF TypeInv
<1>4. QED
  BY <1>1, <1>2, <1>3 DEF Next

\* For any number of callers and packets: the pipes and the threads' steps keep their
\* types, each reader is inside the condition variable of its own pipe exactly while it is
\* blocked there, and ref_count, which counts the threads that Start has created and that
\* have not ended, stays within what ~Catransport expects (Catransport.cpp 43-47,
\* 1185-1232).
THEOREM TransportTypeOK == Spec => []TypeOK
<1>1. QED
  BY InitTypeInv, TypeInvStep, TypeInvImpliesTypeOK, PTL DEF Spec

-------------------------------------------------------------------------------
(* SYNC goes first.  What matters is who can push what: input_thread pushes  *)
(* nothing, output_thread to b2a, user_thread and the clients to a2b.        *)
OutputMoves == [do : {"push"}, pipe : {"b2a"}, packet : Packets] \cup Announcements
SenderMoves == [do : {"push"}, pipe : {"a2b"}, packet : Packets] \cup Announcements
Senders == {"user"} \cup Users

Directions ==
    /\ todo["input"] \in Seq(Announcements)
    /\ todo["output"] \in Seq(OutputMoves)
    /\ \A t \in Senders : todo[t] \in Seq(SenderMoves)

PushOf(p, packet) == [do |-> "push", pipe |-> p, packet |-> packet]

\* user_thread's answer to SYNC(1), and what is left of it after its first push.
Greeting == <<PushOf("a2b", "SYNC1"), On("add", "a2b"), On("notify", "a2b"),
              PushOf("a2b", "CNXN"), On("add", "a2b"), On("notify", "a2b")>>
CnxnPending ==
    \/ todo["user"] = <<On("add", "a2b"), On("notify", "a2b"),
                        PushOf("a2b", "CNXN"), On("add", "a2b"), On("notify", "a2b")>>
    \/ todo["user"] = <<On("notify", "a2b"),
                        PushOf("a2b", "CNXN"), On("add", "a2b"), On("notify", "a2b")>>
    \/ todo["user"] = <<PushOf("a2b", "CNXN"), On("add", "a2b"), On("notify", "a2b")>>

\* A queue in which nothing overtakes CNXN.
HasCnxn(q) == \E i \in DOMAIN q : q[i] = "CNXN"
CnxnLeads(q) == \A i \in DOMAIN q : q[i] = "DATA" => \E j \in 1..(i - 1) : q[j] = "CNXN"

Announcing(t) == todo[t] \in Seq(Announcements)
NobodySends == ~online /\ \A c \in Users : pc[c] # "open" /\ Announcing(c)
Writing == pc["input"] \in {"CNXN", "DATA"}

\* Nothing has come to input_thread.
Unheard == ~active /\ firstOut = "none" /\ pipe["a2b"] = <<>> /\ ~Writing

\* Unless the transport is kicked first, SYNC(1) is the first packet on b2a.
SyncHeads ==
    IF pipe["b2a"] = <<>>
    THEN \/ kicked
         \/ Uncreated("output")
         \/ todo["output"] # <<>> /\ Head(todo["output"]) = PushOf("b2a", "SYNC1")
    ELSE Head(pipe["b2a"]) = "SYNC1"

\* The four phases: before user_thread takes SYNC(1); while it has to pass it on; a
\* transport that was kicked before it did; and after it did.
Before == Unheard /\ NobodySends /\ Announcing("user") /\ SyncHeads
Replying == Unheard /\ NobodySends /\ pc["user"] # "none" /\ todo["user"] = Greeting
Dead == Unheard /\ kicked

CnxnOnItsWay ==
    /\ firstOut = "none" /\ ~Writing /\ CnxnLeads(pipe["a2b"])
    /\ HasCnxn(pipe["a2b"]) \/ kicked \/ (NobodySends /\ CnxnPending)

Flowing ==
    /\ pc["user"] # "none"
    /\ active \/ (pipe["a2b"] # <<>> /\ Head(pipe["a2b"]) = "SYNC1")
    /\ \/ firstOut = "CNXN" /\ active
       \/ firstOut = "none" /\ active /\ pc["input"] = "CNXN"
       \/ CnxnOnItsWay

Phase == Before \/ Replying \/ Dead \/ Flowing
SyncInv == Directions /\ ~ignored /\ Phase

LEMMA SyncInvImpliesSyncFirst == SyncInv => SyncFirst
  BY DEF SyncInv, Phase, Before, Replying, Dead, Flowing, CnxnOnItsWay, Unheard, SyncFirst

LEMMA InitSyncInv == Init => SyncInv
<1> SUFFICES ASSUME Init PROVE SyncInv
  OBVIOUS
<1>1. /\ <<>> \in Seq(Announcements) /\ <<>> \in Seq(OutputMoves) /\ <<>> \in Seq(SenderMoves)
  OBVIOUS
<1>2. \A t \in {"input", "output"} \cup Senders : todo[t] = <<>>
  BY ThreadFacts, TransportAssumption DEF Init, Senders, Users, PumpThreads, Threads
<1>3. Directions
  BY <1>1, <1>2 DEF Directions
<1>4. pc["input"] = "none" /\ pc["output"] = "none" /\ \A c \in Users : pc[c] # "open"
  BY ThreadFacts DEF Init, PumpThreads, Users
<1>5. Unheard /\ NobodySends /\ Announcing("user")
  BY <1>1, <1>2, <1>4 DEF Init, Unheard, NobodySends, Announcing, Writing, Pipes, Senders
<1>6. SyncHeads
  BY <1>2, <1>4 DEF Init, SyncHeads, Uncreated, Pipes
<1>7. QED
  BY <1>3, <1>5, <1>6 DEF Init, SyncInv, Phase, Before

(* What \o makes of the sequences that Write and Replies put together.       *)
LEMMA ConcatWrite ==
    ASSUME NEW a, NEW b, NEW c
    PROVE  <<a>> \o <<b, c>> = <<a, b, c>>
<1> DEFINE S == {a, b, c}  s == <<a>>  t == <<b, c>>  r == <<a, b, c>>
<1>1. s \in Seq(S) /\ t \in Seq(S) /\ r \in Seq(S)
  OBVIOUS
<1>2. Len(s) = 1 /\ Len(t) = 2 /\ Len(r) = 3
  OBVIOUS
<1>3. /\ s[1] = a /\ t[1] = b /\ t[2] = c
      /\ r[1] = a /\ r[2] = b /\ r[3] = c
  OBVIOUS
<1> HIDE DEF s, t, r, S
<1>4. /\ s \o t \in Seq(S) /\ Len(s \o t) = Len(s) + Len(t)
      /\ \A i \in 1..Len(s) + Len(t) : (s \o t)[i] = IF i <= Len(s) THEN s[i] ELSE t[i - Len(s)]
  BY <1>1, ConcatProperties
<1>5. Len(s \o t) = 3 /\ \A i \in 1..3 : (s \o t)[i] = IF i <= 1 THEN s[i] ELSE t[i - 1]
  BY <1>2, <1>4
<1>6. /\ (s \o t)[1] = r[1]
      /\ (s \o t)[2] = r[2]
      /\ (s \o t)[3] = r[3]
  BY <1>3, <1>5
<1>7. \A i \in 1..3 : (s \o t)[i] = r[i]
  <2>1. \A i \in 1..3 : i = 1 \/ i = 2 \/ i = 3
    OBVIOUS
  <2>2. QED
    BY <1>6, <2>1
<1>8. s \o t = r
  BY <1>1, <1>2, <1>4, <1>5, <1>7, SeqEqual
<1>9. QED
  BY <1>8 DEF s, t, r

LEMMA ConcatWrites ==
    ASSUME NEW a, NEW b, NEW c, NEW d, NEW e, NEW f
    PROVE  <<a, b, c>> \o <<d, e, f>> = <<a, b, c, d, e, f>>
<1> DEFINE S == {a, b, c, d, e, f}  s == <<a, b, c>>  t == <<d, e, f>>  r == <<a, b, c, d, e, f>>
<1>1. s \in Seq(S) /\ t \in Seq(S) /\ r \in Seq(S)
  OBVIOUS
<1>2. Len(s) = 3 /\ Len(t) = 3 /\ Len(r) = 6
  OBVIOUS
<1>3. /\ s[1] = a /\ s[2] = b /\ s[3] = c /\ t[1] = d /\ t[2] = e /\ t[3] = f
      /\ r[1] = a /\ r[2] = b /\ r[3] = c /\ r[4] = d /\ r[5] = e /\ r[6] = f
  OBVIOUS
<1> HIDE DEF s, t, r, S
<1>4. /\ s \o t \in Seq(S) /\ Len(s \o t) = Len(s) + Len(t)
      /\ \A i \in 1..Len(s) + Len(t) : (s \o t)[i] = IF i <= Len(s) THEN s[i] ELSE t[i - Len(s)]
  BY <1>1, ConcatProperties
<1>5. Len(s \o t) = 6 /\ \A i \in 1..6 : (s \o t)[i] = IF i <= 3 THEN s[i] ELSE t[i - 3]
  BY <1>2, <1>4
<1>6. /\ (s \o t)[1] = r[1]
      /\ (s \o t)[2] = r[2]
      /\ (s \o t)[3] = r[3]
      /\ (s \o t)[4] = r[4]
      /\ (s \o t)[5] = r[5]
      /\ (s \o t)[6] = r[6]
  BY <1>3, <1>5, SMTT(30)
<1>7. \A i \in 1..6 : (s \o t)[i] = r[i]
  <2>1. \A i \in 1..6 : i = 1 \/ i = 2 \/ i = 3 \/ i = 4 \/ i = 5 \/ i = 6
    OBVIOUS
  <2>2. QED
    BY <1>6, <2>1
<1>8. s \o t = r
  BY <1>1, <1>2, <1>4, <1>5, <1>7, SeqEqual
<1>9. QED
  BY <1>8 DEF s, t, r

LEMMA GreetingIsReply == Replies("SYNC1") = {Greeting}
<1>1. /\ Write("a2b", "SYNC1") = <<PushOf("a2b", "SYNC1"), On("add", "a2b"), On("notify", "a2b")>>
      /\ Write("a2b", "CNXN") = <<PushOf("a2b", "CNXN"), On("add", "a2b"), On("notify", "a2b")>>
  BY ConcatWrite DEF Write, Signal, PushOf
<1>2. Replies("SYNC1") = {Write("a2b", "SYNC1") \o Write("a2b", "CNXN")}
  BY DEF Replies
<1> DEFINE A == On("add", "a2b")  N == On("notify", "a2b")
           P == PushOf("a2b", "SYNC1")  C == PushOf("a2b", "CNXN")
<1> HIDE DEF A, N, P, C
<1>3. <<P, A, N>> \o <<C, A, N>> = <<P, A, N, C, A, N>>
  BY ConcatWrites
<1>4. QED
  BY <1>1, <1>2, <1>3 DEF Greeting, A, N, P, C

LEMMA WriteBegins ==
    ASSUME NEW p, NEW packet
    PROVE  Write(p, packet) # <<>> /\ Head(Write(p, packet)) = PushOf(p, packet)
<1>1. Write(p, packet) = <<PushOf(p, packet), On("add", p), On("notify", p)>>
  BY ConcatWrite DEF Write, Signal, PushOf
<1>2. QED
  BY <1>1

LEMMA SeqOfThree ==
    ASSUME NEW S, NEW a \in S, NEW b \in S, NEW c \in S
    PROVE  <<a, b, c>> \in Seq(S)
  OBVIOUS

LEMMA WriteMoves ==
    ASSUME NEW packet \in Packets
    PROVE  /\ Write("b2a", packet) \in Seq(OutputMoves)
           /\ Write("a2b", packet) \in Seq(SenderMoves)
<1>1. \A p \in Pipes : Write(p, packet) = <<PushOf(p, packet), On("add", p), On("notify", p)>>
  BY ConcatWrite DEF Write, Signal, PushOf
<1>2. /\ PushOf("b2a", packet) \in OutputMoves /\ PushOf("a2b", packet) \in SenderMoves
      /\ \A p \in Pipes : On("add", p) \in Announcements /\ On("notify", p) \in Announcements
  BY DEF PushOf, On, OutputMoves, SenderMoves, Announcements
<1>3. Announcements \subseteq OutputMoves /\ Announcements \subseteq SenderMoves
  BY DEF OutputMoves, SenderMoves
<1>4. "a2b" \in Pipes /\ "b2a" \in Pipes
  BY DEF Pipes
<1>5. /\ <<PushOf("b2a", packet), On("add", "b2a"), On("notify", "b2a")>> \in Seq(OutputMoves)
      /\ <<PushOf("a2b", packet), On("add", "a2b"), On("notify", "a2b")>> \in Seq(SenderMoves)
  BY <1>2, <1>3, <1>4, SeqOfThree
<1>6. QED
  BY <1>1, <1>4, <1>5

LEMMA RepliesMoves ==
    ASSUME NEW packet \in Packets
    PROVE  \A steps \in Replies(packet) : steps \in Seq(SenderMoves)
<1>1. /\ {"SYNC0", "SYNC1", "CNXN", "DATA"} = Packets /\ <<>> \in Seq(SenderMoves)
  BY DEF Packets
<1>2. /\ Write("a2b", "SYNC1") \in Seq(SenderMoves) /\ Write("a2b", "CNXN") \in Seq(SenderMoves)
      /\ Write("a2b", "SYNC0") \in Seq(SenderMoves) /\ Write("a2b", "DATA") \in Seq(SenderMoves)
  BY <1>1, WriteMoves
<1>3. Write("a2b", "SYNC1") \o Write("a2b", "CNXN") \in Seq(SenderMoves)
  BY <1>2, ConcatProperties
<1>4. CASE packet = "SYNC1"
  BY <1>3, <1>4 DEF Replies
<1>5. CASE packet = "SYNC0"
  BY <1>2, <1>5 DEF Replies
<1>6. CASE packet \in {"CNXN", "DATA"}
  <2>1. Replies(packet) = {<<>>, Write("a2b", packet)}
    BY <1>6 DEF Replies
  <2>2. QED
    BY <1>1, <1>2, <1>6, <2>1
<1>7. QED
  BY <1>1, <1>4, <1>5, <1>6

LEMMA GreetingGoes ==
    /\ Head(Greeting) = PushOf("a2b", "SYNC1") /\ Greeting # <<>>
    /\ todo["user"] = Greeting /\ todo'["user"] = Tail(todo["user"]) => CnxnPending'
<1>1. /\ Head(Greeting) = PushOf("a2b", "SYNC1") /\ Greeting # <<>>
      /\ Tail(Greeting) = <<On("add", "a2b"), On("notify", "a2b"),
                            PushOf("a2b", "CNXN"), On("add", "a2b"), On("notify", "a2b")>>
  BY DEF Greeting
<1>2. QED
  BY <1>1 DEF CnxnPending

LEMMA PendingGoes ==
    ASSUME CnxnPending
    PROVE  /\ todo["user"] # <<>>
           /\ \/ Head(todo["user"]) = PushOf("a2b", "CNXN")
              \/ /\ Head(todo["user"]) \in {On("add", "a2b"), On("notify", "a2b")}
                 /\ todo'["user"] = Tail(todo["user"]) => CnxnPending'
<1> DEFINE A == On("add", "a2b")  N == On("notify", "a2b")  P == PushOf("a2b", "CNXN")
<1> HIDE DEF A, N, P
<1>1. \/ todo["user"] = <<A, N, P, A, N>> \/ todo["user"] = <<N, P, A, N>>
      \/ todo["user"] = <<P, A, N>>
  BY DEF CnxnPending, A, N, P
<1>2. todo'["user"] = <<N, P, A, N>> \/ todo'["user"] = <<P, A, N>> => CnxnPending'
  BY DEF CnxnPending, A, N, P
<1>3. CASE todo["user"] = <<A, N, P, A, N>>
  <2>1. todo["user"] # <<>> /\ Head(todo["user"]) = A /\ Tail(todo["user"]) = <<N, P, A, N>>
    BY <1>3
  <2>2. QED
    BY <1>2, <2>1 DEF A, N, P
<1>4. CASE todo["user"] = <<N, P, A, N>>
  <2>1. todo["user"] # <<>> /\ Head(todo["user"]) = N /\ Tail(todo["user"]) = <<P, A, N>>
    BY <1>4
  <2>2. QED
    BY <1>2, <2>1 DEF A, N, P
<1>5. CASE todo["user"] = <<P, A, N>>
  <2>1. todo["user"] # <<>> /\ Head(todo["user"]) = P
    BY <1>5
  <2>2. QED
    BY <2>1 DEF P
<1>6. QED
  BY <1>1, <1>3, <1>4, <1>5

LEMMA CnxnAppended ==
    ASSUME NEW q \in Seq(Packets), NEW packet \in Packets, CnxnLeads(q)
    PROVE  /\ HasCnxn(q) => HasCnxn(Append(q, packet))
           /\ packet = "CNXN" => HasCnxn(Append(q, packet))
           /\ packet # "DATA" \/ HasCnxn(q) => CnxnLeads(Append(q, packet))
<1>1. /\ Append(q, packet) \in Seq(Packets) /\ Len(Append(q, packet)) = Len(q) + 1
      /\ \A i \in 1..Len(q) : Append(q, packet)[i] = q[i]
      /\ Append(q, packet)[Len(q) + 1] = packet /\ Len(q) \in Nat
  BY AppendProperties
<1>2. DOMAIN q = 1..Len(q) /\ DOMAIN Append(q, packet) = 1..(Len(q) + 1)
  BY <1>1
<1>3. HasCnxn(q) => HasCnxn(Append(q, packet))
  BY <1>1, <1>2 DEF HasCnxn
<1>4. packet = "CNXN" => HasCnxn(Append(q, packet))
  BY <1>1, <1>2 DEF HasCnxn
<1>5. ASSUME packet # "DATA" \/ HasCnxn(q) PROVE CnxnLeads(Append(q, packet))
  <2> SUFFICES ASSUME NEW i \in 1..(Len(q) + 1), Append(q, packet)[i] = "DATA"
               PROVE  \E j \in 1..(i - 1) : Append(q, packet)[j] = "CNXN"
    BY <1>2 DEF CnxnLeads
  <2>1. CASE i \in 1..Len(q)
    <3>1. PICK j \in 1..(i - 1) : q[j] = "CNXN"
      BY <1>1, <1>2, <2>1 DEF CnxnLeads
    <3>2. QED
      BY <1>1, <2>1, <3>1
  <2>2. CASE i = Len(q) + 1
    <3>1. PICK j \in 1..Len(q) : q[j] = "CNXN"
      BY <1>1, <1>2, <1>5, <2>2 DEF HasCnxn
    <3>2. QED
      BY <1>1, <2>2, <3>1
  <2>3. QED
    BY <1>1, <2>1, <2>2
<1>6. QED
  BY <1>3, <1>4, <1>5

LEMMA CnxnTaken ==
    ASSUME NEW q \in Seq(Packets), q # <<>>, CnxnLeads(q)
    PROVE  /\ Head(q) # "DATA"
           /\ Head(q) # "CNXN" => CnxnLeads(Tail(q)) /\ (HasCnxn(q) => HasCnxn(Tail(q)))
<1>1. /\ Len(q) \in Nat \ {0} /\ DOMAIN q = 1..Len(q) /\ Head(q) = q[1]
      /\ DOMAIN Tail(q) = 1..(Len(q) - 1) /\ \A i \in 1..(Len(q) - 1) : Tail(q)[i] = q[i + 1]
  BY EmptySeq, LenProperties
<1>2. Head(q) # "DATA"
  BY <1>1 DEF CnxnLeads
<1>3. ASSUME Head(q) # "CNXN" PROVE CnxnLeads(Tail(q))
  <2> SUFFICES ASSUME NEW i \in 1..(Len(q) - 1), Tail(q)[i] = "DATA"
               PROVE  \E j \in 1..(i - 1) : Tail(q)[j] = "CNXN"
    BY <1>1 DEF CnxnLeads
  <2>1. PICK j \in 1..i : q[j] = "CNXN"
    BY <1>1 DEF CnxnLeads
  <2>2. j # 1
    BY <1>1, <1>3, <2>1
  <2>3. j - 1 \in 1..(i - 1) /\ Tail(q)[j - 1] = "CNXN"
    BY <1>1, <2>1, <2>2
  <2>4. QED
    BY <2>3
<1>4. ASSUME Head(q) # "CNXN", HasCnxn(q) PROVE HasCnxn(Tail(q))
  <2>1. PICK j \in 1..Len(q) : q[j] = "CNXN"
    BY <1>1, <1>4 DEF HasCnxn
  <2>2. j # 1
    BY <1>1, <1>4, <2>1
  <2>3. j - 1 \in 1..(Len(q) - 1) /\ Tail(q)[j - 1] = "CNXN"
    BY <1>1, <2>1, <2>2
  <2>4. QED
    BY <1>1, <2>3 DEF HasCnxn
<1>5. QED
  BY <1>2, <1>3, <1>4

-------------------------------------------------------------------------------
(* The phases under each action.                                           *)

\* The steps a thread may commit itself to.
MovesOf(t) == IF t = "input" THEN Announcements ELSE IF t = "output" THEN OutputMoves ELSE SenderMoves

LEMMA ThreadNames ==
    /\ {"input", "output", "user"} = PumpThreads /\ PumpThreads \subseteq Threads \ {"starter"}
    /\ Senders \subseteq Threads \ {"starter", "input", "output"} /\ "user" \in Senders
    /\ "user" \notin Users /\ Users \subseteq Senders
    /\ \A t \in Threads \ {"starter"} : t \in {"input", "output"} \cup Senders
  BY TransportAssumption DEF PumpThreads, Threads, Senders, Users

LEMMA DirectionsKept ==
    ASSUME TypeInv, Directions, NEW t \in Threads \ {"starter"}, NEW steps \in Seq(MovesOf(t)),
           todo' = [todo EXCEPT ![t] = steps]
    PROVE  Directions' /\ todo'[t] = steps /\ \A u \in Threads \ {t} : todo'[u] = todo[u]
<1>1. todo'[t] = steps /\ \A u \in Threads \ {t} : todo'[u] = todo[u]
  BY DEF TypeInv, Places
<1>2. todo'["input"] \in Seq(Announcements)
  BY <1>1, ThreadNames DEF Directions, MovesOf
<1>3. todo'["output"] \in Seq(OutputMoves)
  BY <1>1, ThreadNames DEF Directions, MovesOf
<1>4. \A u \in Senders : todo'[u] \in Seq(SenderMoves)
  BY <1>1, ThreadNames DEF Directions, MovesOf
<1>5. QED
  BY <1>1, <1>2, <1>3, <1>4 DEF Directions

LEMMA AnnouncingMoves ==
    ASSUME NEW t, NEW steps \in Seq(Announcements)
    PROVE  steps \in Seq(MovesOf(t))
<1>1. Announcements \subseteq MovesOf(t)
  BY DEF MovesOf, OutputMoves, SenderMoves
<1>2. QED
  BY <1>1, SeqMonotonic

LEMMA OwnMoves ==
    ASSUME TypeInv, Directions, NEW t \in Threads \ {"starter"}, todo[t] # <<>>
    PROVE  /\ todo[t] \in Seq(MovesOf(t)) /\ Head(todo[t]) \in MovesOf(t)
           /\ Tail(todo[t]) \in Seq(MovesOf(t))
           /\ Announcing(t) => Head(todo[t]) \in Announcements /\ Tail(todo[t]) \in Seq(Announcements)
<1>1. todo[t] \in Seq(MovesOf(t))
  BY ThreadNames DEF Directions, MovesOf
<1>2. QED
  BY <1>1, HeadTailProperties DEF Announcing

\* What is no push to a2b, takes nothing and lets nobody begin to send changes no phase.
LEMMA PhaseKept ==
    ASSUME TypeInv, Phase, pipe'["a2b"] = pipe["a2b"], UNCHANGED <<active, firstOut>>,
           kicked => kicked',
           pc'["input"] = pc["input"] \/ (~Writing /\ ~Writing'),
           pc["user"] # "none" => pc'["user"] # "none",
           NobodySends => NobodySends',
           Announcing("user") => Announcing("user")',
           todo["user"] = Greeting => todo'["user"] = Greeting,
           CnxnPending => CnxnPending',
           SyncHeads => SyncHeads'
    PROVE  Phase'
<1>1. Writing' <=> Writing
  BY DEF Writing
<1>2. Unheard => Unheard'
  BY <1>1 DEF Unheard
<1>3. CASE Before
  BY <1>2, <1>3 DEF Before, Phase
<1>4. CASE Replying
  BY <1>2, <1>4 DEF Replying, Phase
<1>5. CASE Dead
  BY <1>2, <1>5 DEF Dead, Phase
<1>6. CASE Flowing
  <2>1. CnxnLeads(pipe["a2b"])' <=> CnxnLeads(pipe["a2b"])
    BY DEF CnxnLeads
  <2>2. HasCnxn(pipe["a2b"])' <=> HasCnxn(pipe["a2b"])
    BY DEF HasCnxn
  <2>3. CnxnOnItsWay => CnxnOnItsWay'
    BY <1>1, <2>1, <2>2 DEF CnxnOnItsWay
  <2>4. pc["input"] = "CNXN" => pc'["input"] = "CNXN"
    BY DEF Writing
  <2>5. QED
    BY <1>6, <2>3, <2>4 DEF Flowing, Phase
<1>7. QED
  BY <1>3, <1>4, <1>5, <1>6 DEF Phase

\* The rest of a Signal or a kick.
LEMMA AnnounceSync ==
    ASSUME TypeInv, SyncInv, NEW t \in Threads, SignalAdd(t) \/ SignalNotify(t) \/ Kick(t)
    PROVE  SyncInv'
<1>1. /\ t \in Threads \ {"starter"} /\ todo[t] # <<>> /\ Head(todo[t]).do # "push"
      /\ todo' = [todo EXCEPT ![t] = Tail(todo[t])]
  BY Committing DEF SignalAdd, SignalNotify, Kick, Committed, Drop
<1>2. UNCHANGED <<pipe, active, online, ignored, firstOut>> /\ (kicked => kicked')
  BY DEF SignalAdd, SignalNotify, Kick
<1>3. \A u \in Threads : pc'[u] = pc[u] \/ (pc[u] = "clear" /\ pc'[u] = "exit")
  BY DEF SignalAdd, SignalNotify, Kick, Exit, TypeInv, Places
<1>4. Directions' /\ todo'[t] = Tail(todo[t]) /\ \A u \in Threads \ {t} : todo'[u] = todo[u]
  BY <1>1, OwnMoves, DirectionsKept DEF SyncInv
<1>5. \A u \in Senders : Announcing(u) => Announcing(u)'
  <2>1. Announcing(t) => Announcing(t)'
    BY <1>1, <1>4, OwnMoves DEF SyncInv, Announcing
  <2>2. QED
    BY <1>4, <2>1, ThreadNames DEF Announcing
<1>6. NobodySends => NobodySends'
  BY <1>2, <1>3, <1>5, ThreadNames DEF NobodySends
<1>7. todo["user"] = Greeting => todo'["user"] = Greeting
  <2>1. todo["user"] = Greeting => t # "user"
    BY <1>1, GreetingGoes DEF PushOf
  <2>2. QED
    BY <1>4, <2>1, ThreadNames
<1>8. CnxnPending => CnxnPending'
  <2>1. CASE t = "user"
    BY <1>1, <1>4, <2>1, PendingGoes DEF PushOf
  <2>2. CASE t # "user"
    BY <1>4, <2>2, ThreadNames DEF CnxnPending
  <2>3. QED
    BY <2>1, <2>2
<1>9. SyncHeads => SyncHeads'
  <2>1. Uncreated("output") => Uncreated("output")'
    BY <1>1, <1>3, <1>4, ThreadNames DEF Uncreated
  <2>2. todo["output"] # <<>> /\ Head(todo["output"]) = PushOf("b2a", "SYNC1")
            => todo'["output"] = todo["output"]
    BY <1>1, <1>4, ThreadNames DEF PushOf
  <2>3. QED
    BY <1>2, <2>1, <2>2 DEF SyncHeads
<1>10. Phase'
  <2>1. pc'["input"] = pc["input"] \/ (~Writing /\ ~Writing')
    BY <1>3, ThreadNames DEF Writing
  <2>2. pc["user"] # "none" => pc'["user"] # "none"
    BY <1>3, ThreadNames
  <2>3. QED
    BY <1>2, <1>5, <1>6, <1>7, <1>8, <1>9, <2>1, <2>2, ThreadNames, PhaseKept DEF SyncInv
<1>11. QED
  BY <1>2, <1>4, <1>10 DEF SyncInv

LEMMA CreateSync ==
    ASSUME TypeInv, SyncInv, NEW t \in Threads, CreateThread(t)
    PROVE  SyncInv'
<1>1. PICK new \in PumpThreads :
        /\ Uncreated(new)
        /\ pc' = [pc EXCEPT ![new] = IF new = "output" THEN "read" ELSE "check"]
        /\ todo' = [todo EXCEPT ![t] = Tail(@),
                                ![new] = IF new = "output" THEN Write("b2a", "SYNC1") ELSE <<>>]
  BY Creating
<1>2. t = "starter" /\ new # t /\ new \in Threads
  BY Creating, ThreadNames
<1> DEFINE steps == IF new = "output" THEN Write("b2a", "SYNC1") ELSE <<>>
<1> HIDE DEF steps
<1>3. todo' = [todo EXCEPT ![t] = Tail(todo[t]), ![new] = steps]
  BY <1>1 DEF steps
<1>4. todo'[new] = steps /\ \A u \in Threads \ {new, "starter"} : todo'[u] = todo[u]
  BY <1>2, <1>3 DEF TypeInv, Places
<1>5. /\ pc'[new] = IF new = "output" THEN "read" ELSE "check"
      /\ \A u \in Threads \ {new} : pc'[u] = pc[u]
  BY <1>1, <1>2 DEF TypeInv, Places
<1>6. new # "output" => steps = <<>> /\ todo[new] = <<>>
  BY <1>1 DEF steps, Uncreated
<1>7. new = "output" => steps \in Seq(OutputMoves) /\ steps # <<>> /\ Head(steps) = PushOf("b2a", "SYNC1")
  <2>1. "SYNC1" \in Packets
    BY DEF Packets
  <2>2. QED
    BY <2>1, WriteMoves, WriteBegins DEF steps
<1>8. \A u \in {"input"} \cup Senders : todo'[u] = todo[u]
  BY <1>4, <1>6, <1>7, ThreadNames
<1>9. Directions'
  <2>1. todo'["output"] \in Seq(OutputMoves)
    BY <1>4, <1>6, <1>7, ThreadNames DEF SyncInv, Directions
  <2>2. QED
    BY <1>8, <2>1 DEF SyncInv, Directions
<1>10. UNCHANGED <<pipe, active, online, ignored, firstOut, kicked>>
  BY DEF CreateThread
<1>11. \A u \in Senders : Announcing(u) => Announcing(u)'
  BY <1>8 DEF Announcing
<1>12. NobodySends => NobodySends'
  BY <1>1, <1>5, <1>10, <1>11, ThreadNames DEF NobodySends
<1>13. CnxnPending => CnxnPending'
  BY <1>8, ThreadNames DEF CnxnPending
<1>14. SyncHeads => SyncHeads'
  <2>1. CASE new = "output"
    <3>1. todo'["output"] # <<>> /\ Head(todo'["output"]) = PushOf("b2a", "SYNC1")
      BY <1>4, <1>7, <2>1
    <3>2. QED
      BY <1>10, <3>1 DEF SyncHeads
  <2>2. CASE new # "output"
    <3>1. todo'["output"] = todo["output"] /\ pc'["output"] = pc["output"]
      BY <1>2, <1>4, <1>5, <2>2, ThreadNames
    <3>2. QED
      BY <1>10, <3>1 DEF SyncHeads, Uncreated
  <2>3. QED
    BY <2>1, <2>2
<1>15. pc'["input"] = pc["input"] \/ (~Writing /\ ~Writing')
  BY <1>1, <1>5, ThreadNames DEF Writing, Uncreated
<1>16. pc["user"] # "none" => pc'["user"] # "none"
  BY <1>5, ThreadNames
<1>17. Phase'
  BY <1>8, <1>10, <1>11, <1>12, <1>13, <1>14, <1>15, <1>16, ThreadNames, PhaseKept DEF SyncInv
<1>18. QED
  BY <1>9, <1>10, <1>17 DEF SyncInv

LEMMA AppendedHead ==
    ASSUME NEW S, NEW q \in Seq(S), NEW x \in S
    PROVE  /\ Append(q, x) # <<>>
           /\ q = <<>> => Head(Append(q, x)) = x
           /\ q # <<>> => Head(Append(q, x)) = Head(q)
<1>1. Append(q, x) # <<>> /\ \A i \in 1..Len(q) : Append(q, x)[i] = q[i]
  BY AppendProperties
<1>2. q = <<>> => Head(Append(q, x)) = x
  OBVIOUS
<1>3. ASSUME q # <<>> PROVE Head(Append(q, x)) = Head(q)
  <2>1. 1 \in 1..Len(q)
    BY <1>3, EmptySeq
  <2>2. Append(q, x)[1] = q[1]
    BY <1>1, <2>1
  <2>3. QED
    BY <2>2
<1>4. QED
  BY <1>1, <1>2, <1>3

\* output_thread pushes.
LEMMA OutputPushSync ==
    ASSUME TypeInv, SyncInv, Push("output")
    PROVE  SyncInv'
<1> DEFINE t == "output"
<1>1. /\ t \in Threads \ {"starter"} /\ todo[t] # <<>> /\ Head(todo[t]).do = "push"
      /\ todo' = [todo EXCEPT ![t] = Tail(todo[t])]
  BY ThreadNames DEF Push, Committed, Drop
<1>2. Head(todo[t]) \in OutputMoves /\ Tail(todo[t]) \in Seq(MovesOf(t))
  BY <1>1, OwnMoves DEF SyncInv, MovesOf
<1>3. Head(todo[t]).pipe = "b2a" /\ Head(todo[t]).packet \in Packets
  BY <1>1, <1>2 DEF OutputMoves, Announcements
<1>4. Directions' /\ \A u \in Threads \ {t} : todo'[u] = todo[u]
  BY <1>1, <1>2, DirectionsKept DEF SyncInv
<1>5. UNCHANGED <<kicked, pc, active, online, ignored, firstOut>>
  BY DEF Push
<1>6. pipe["b2a"] \in Seq(Packets) /\ pipe \in [Pipes -> Seq(Packets)] /\ "b2a" \in Pipes
  BY DEF TypeInv, Pipes
<1>7. /\ kicked => UNCHANGED pipe
      /\ ~kicked => pipe' = [pipe EXCEPT !["b2a"] = Append(pipe["b2a"], Head(todo[t]).packet)]
  BY <1>3 DEF Push
<1>8. pipe'["a2b"] = pipe["a2b"]
  BY <1>6, <1>7 DEF Pipes
<1>9. SyncHeads => SyncHeads'
  <2>1. CASE kicked
    BY <1>5, <1>7, <2>1 DEF SyncHeads
  <2>2. CASE ~kicked
    <3>1. pipe'["b2a"] = Append(pipe["b2a"], Head(todo[t]).packet)
      BY <1>6, <1>7, <2>2
    <3>2. CASE pipe["b2a"] = <<>>
      <4>1. SyncHeads => Head(todo[t]).packet = "SYNC1"
        BY <1>1, <2>2, <3>2 DEF SyncHeads, Uncreated, PushOf
      <4>2. QED
        BY <1>3, <1>6, <3>1, <3>2, <4>1, AppendedHead DEF SyncHeads
    <3>3. CASE pipe["b2a"] # <<>>
      BY <1>3, <1>6, <3>1, <3>3, AppendedHead DEF SyncHeads
    <3>4. QED
      BY <3>2, <3>3
  <2>3. QED
    BY <2>1, <2>2
<1>10. /\ NobodySends => NobodySends'
       /\ Announcing("user") => Announcing("user")'
       /\ todo["user"] = Greeting => todo'["user"] = Greeting
       /\ CnxnPending => CnxnPending'
  BY <1>4, <1>5, ThreadNames DEF NobodySends, Announcing, CnxnPending
<1>11. Phase'
  BY <1>5, <1>8, <1>9, <1>10, PhaseKept DEF SyncInv
<1>12. QED
  BY <1>4, <1>5, <1>11 DEF SyncInv

\* user_thread or a client pushes.
LEMMA SenderPushSync ==
    ASSUME TypeInv, SyncInv, NEW t \in Senders, Push(t)
    PROVE  SyncInv'
<1>1. /\ t \in Threads \ {"starter"} /\ todo[t] # <<>> /\ Head(todo[t]).do = "push"
      /\ todo' = [todo EXCEPT ![t] = Tail(todo[t])]
  BY ThreadNames DEF Push, Committed, Drop
<1>2. Head(todo[t]) \in SenderMoves /\ Tail(todo[t]) \in Seq(MovesOf(t))
  BY <1>1, OwnMoves, ThreadNames DEF SyncInv, MovesOf
<1> DEFINE packet == Head(todo[t]).packet  q == pipe["a2b"]
<1>3. Head(todo[t]).pipe = "a2b" /\ packet \in Packets /\ Head(todo[t]) = PushOf("a2b", packet)
  BY <1>1, <1>2 DEF SenderMoves, Announcements, PushOf
<1>4. Directions' /\ todo'[t] = Tail(todo[t]) /\ \A u \in Threads \ {t} : todo'[u] = todo[u]
  BY <1>1, <1>2, DirectionsKept DEF SyncInv
<1>5. UNCHANGED <<kicked, pc, active, online, ignored, firstOut>>
  BY DEF Push
<1>6. q \in Seq(Packets) /\ pipe \in [Pipes -> Seq(Packets)] /\ "a2b" \in Pipes
  BY DEF TypeInv, Pipes
<1>7. /\ kicked => UNCHANGED pipe
      /\ ~kicked => pipe'["a2b"] = Append(q, packet)
  BY <1>3, <1>6 DEF Push
<1>8. ~Announcing(t)
  BY <1>1, OwnMoves DEF SyncInv, Announcements
<1>9. Writing' <=> Writing
  BY <1>5 DEF Writing
<1>10. ~Before
  BY <1>8 DEF Before, NobodySends, Senders
<1>11. CASE Dead
  BY <1>5, <1>7, <1>9, <1>11, <1>4 DEF Dead, Unheard, SyncInv, Phase
<1>12. CASE Replying
  <2>1. t = "user"
    BY <1>8, <1>12 DEF Replying, NobodySends, Senders
  <2>2. packet = "SYNC1"
    BY <1>3, <1>12, <2>1, GreetingGoes DEF Replying, PushOf
  <2>3. CASE kicked
    BY <1>4, <1>5, <1>7, <1>9, <1>12, <2>3 DEF Replying, Unheard, Dead, SyncInv, Phase
  <2>4. CASE ~kicked
    <3>1. q = <<>> /\ CnxnLeads(q)
      <4>1. q = <<>>
        BY <1>12 DEF Replying, Unheard
      <4>2. DOMAIN q = {}
        BY <1>6, <4>1
      <4>3. QED
        BY <4>1, <4>2 DEF CnxnLeads
    <3>2. pipe'["a2b"] # <<>> /\ Head(pipe'["a2b"]) = "SYNC1"
      <4>1. pipe'["a2b"] = Append(q, packet)
        BY <1>7, <2>4
      <4>2. Append(q, packet) # <<>> /\ (q = <<>> => Head(Append(q, packet)) = packet)
        BY <1>3, <1>6, AppendedHead
      <4>3. QED
        BY <2>2, <3>1, <4>1, <4>2
    <3>3. CnxnLeads(pipe["a2b"])'
      <4>1. CnxnLeads(pipe'["a2b"])
        BY <1>3, <1>6, <1>7, <2>2, <2>4, <3>1, CnxnAppended
      <4>2. QED
        BY <4>1 DEF CnxnLeads
    <3>4. CnxnPending'
      BY <1>4, <1>12, <2>1, GreetingGoes DEF Replying
    <3>5. NobodySends'
      BY <1>4, <1>5, <1>12, <2>1, ThreadNames DEF Replying, NobodySends, Announcing
    <3>6. CnxnOnItsWay'
      BY <1>5, <1>9, <1>12, <3>3, <3>4, <3>5 DEF Replying, Unheard, CnxnOnItsWay
    <3>7. Flowing'
      BY <1>5, <1>12, <3>2, <3>6 DEF Replying, Flowing
    <3>8. QED
      BY <1>4, <1>5, <3>7 DEF SyncInv, Phase
  <2>5. QED
    BY <2>3, <2>4
<1>13. CASE Flowing
  <2>1. active' \/ (pipe'["a2b"] # <<>> /\ Head(pipe'["a2b"]) = "SYNC1")
    BY <1>3, <1>5, <1>6, <1>7, <1>13, AppendedHead DEF Flowing
  <2>2. CnxnOnItsWay => CnxnOnItsWay'
    <3> SUFFICES ASSUME CnxnOnItsWay PROVE CnxnOnItsWay'
      OBVIOUS
    <3>1. firstOut' = "none" /\ ~Writing'
      BY <1>5, <1>9 DEF CnxnOnItsWay
    <3>2. CASE kicked
      <4>1. CnxnLeads(pipe["a2b"])'
        BY <1>7, <3>2 DEF CnxnOnItsWay, CnxnLeads
      <4>2. QED
        BY <1>5, <3>1, <3>2, <4>1 DEF CnxnOnItsWay
    <3>3. CASE ~kicked
      <4>1. HasCnxn(q) \/ packet = "CNXN"
        <5>1. CASE HasCnxn(q)
          BY <5>1
        <5>2. CASE NobodySends /\ CnxnPending
          <6>1. t = "user"
            BY <1>8, <5>2 DEF NobodySends, Senders
          <6>2. Head(todo[t]) = PushOf("a2b", "CNXN")
            BY <1>1, <5>2, <6>1, PendingGoes DEF On
          <6>3. QED
            BY <6>2 DEF PushOf
        <5>3. QED
          BY <3>3, <5>1, <5>2 DEF CnxnOnItsWay
      <4>2. CnxnLeads(Append(q, packet)) /\ HasCnxn(Append(q, packet))
        BY <1>3, <1>6, <4>1, CnxnAppended DEF CnxnOnItsWay
      <4>3. CnxnLeads(pipe["a2b"])' /\ HasCnxn(pipe["a2b"])'
        BY <1>7, <3>3, <4>2 DEF CnxnLeads, HasCnxn
      <4>4. QED
        BY <3>1, <4>3 DEF CnxnOnItsWay
    <3>4. QED
      BY <3>2, <3>3
  <2>3. Flowing'
    BY <1>5, <1>13, <2>1, <2>2 DEF Flowing
  <2>4. QED
    BY <1>4, <1>5, <2>3 DEF SyncInv, Phase
<1>14. QED
  BY <1>10, <1>11, <1>12, <1>13 DEF SyncInv, Phase

LEMMA PushSync ==
    ASSUME TypeInv, SyncInv, NEW t \in Threads, Push(t)
    PROVE  SyncInv'
<1>1. t # "starter" /\ todo[t] # <<>> /\ Head(todo[t]).do = "push"
  BY Committing DEF Push, Committed
<1>2. t # "input"
  <2>1. ASSUME t = "input" PROVE FALSE
    <3>1. Head(todo[t]) \in Announcements
      BY <1>1, <2>1, OwnMoves DEF SyncInv, MovesOf
    <3>2. QED
      BY <1>1, <3>1 DEF Announcements
  <2>2. QED
    BY <2>1
<1>3. QED
  BY <1>1, <1>2, ThreadNames, OutputPushSync, SenderPushSync

\* A reader takes a packet, or goes on without one.
LEMMA ReadGoes ==
    ASSUME NEW t \in Threads, ReadCheck(t) \/ ReadWait(t) \/ ReadResume(t)
    PROVE  /\ t \in {"input", "user"} /\ todo[t] = <<>> /\ pc[t] \in {"check", "wait", "blocked"}
           /\ UNCHANGED <<kicked, firstOut>>
           /\ \/ pipe[Source(t)] # <<>> /\ Take(t)
              \/ /\ \E label \in {"clear", "wait", "check", "blocked"}, steps \in {<<>>, Clear} :
                        Moved(t, label, steps)
                 /\ UNCHANGED <<pipe, active, ignored, online>>
<1>1. /\ t \in {"input", "user"} /\ todo[t] = <<>> /\ pc[t] \in {"check", "wait", "blocked"}
      /\ UNCHANGED <<kicked, firstOut>>
  BY DEF ReadCheck, ReadWait, ReadResume, At
<1> DEFINE Taken == pipe[Source(t)] # <<>> /\ Take(t)
           Kept  == UNCHANGED <<pipe, active, ignored, online>>
<1>2. CASE ReadCheck(t)
  <2>1. \/ Leave(t) /\ Kept
        \/ Taken
        \/ Goto(t, "wait", <<>>) /\ Kept
    <3>1. CASE kicked
      BY <1>2, <3>1 DEF ReadCheck
    <3>2. CASE ~kicked /\ pipe[Source(t)] # <<>>
      BY <1>2, <3>2 DEF ReadCheck
    <3>3. CASE ~kicked /\ pipe[Source(t)] = <<>>
      BY <1>2, <3>3 DEF ReadCheck
    <3>4. QED
      BY <3>1, <3>2, <3>3
  <2>2. CASE Leave(t) /\ Kept
    <3>1. Moved(t, "clear", Clear)
      BY <2>2 DEF Leave, Goto, Moved
    <3>2. QED
      BY <1>1, <2>2, <3>1
  <2>3. CASE Goto(t, "wait", <<>>) /\ Kept
    <3>1. Moved(t, "wait", <<>>)
      BY <2>3 DEF Goto, Moved
    <3>2. QED
      BY <1>1, <2>3, <3>1
  <2>4. QED
    BY <1>1, <2>1, <2>2, <2>3
<1>3. CASE ReadWait(t) \/ ReadResume(t)
  <2>1. \/ Goto(t, "blocked", <<>>) /\ Kept
        \/ Taken
        \/ Goto(t, "check", <<>>) /\ Kept
    <3>1. (Goto(t, "blocked", <<>>) /\ Kept) \/ PopAfterWait(t)
      BY <1>3 DEF ReadWait, ReadResume
    <3>2. QED
      BY <3>1 DEF PopAfterWait
  <2>2. CASE Goto(t, "blocked", <<>>) /\ Kept
    <3>1. Moved(t, "blocked", <<>>)
      BY <2>2 DEF Goto, Moved
    <3>2. QED
      BY <1>1, <2>2, <3>1
  <2>3. CASE Goto(t, "check", <<>>) /\ Kept
    <3>1. Moved(t, "check", <<>>)
      BY <2>3 DEF Goto, Moved
    <3>2. QED
      BY <1>1, <2>3, <3>1
  <2>4. QED
    BY <1>1, <2>1, <2>2, <2>3
<1>4. QED
  BY <1>1, <1>2, <1>3

\* A thread whose steps are done goes somewhere, with nothing to push to a2b.
LEMMA GoesOnSync ==
    ASSUME TypeInv, SyncInv, NEW t \in Threads \ {"starter"}, NEW label, NEW steps,
           Moved(t, label, steps), todo[t] = <<>>,
           pc[t] # "none", label # "none",
           label = "open" => ~NobodySends,
           t = "output" => steps \in Seq(OutputMoves),
           t # "output" => steps \in Seq(Announcements),
           t = "input" => pc["input"] \notin {"CNXN", "DATA"} /\ label \notin {"CNXN", "DATA"},
           UNCHANGED <<pipe, active, online, firstOut, ignored, kicked>>
    PROVE  SyncInv'
<1>1. steps \in Seq(MovesOf(t))
  BY AnnouncingMoves DEF MovesOf
<1>2. Directions' /\ todo'[t] = steps /\ \A u \in Threads \ {t} : todo'[u] = todo[u]
  BY <1>1, DirectionsKept DEF Moved, SyncInv
<1>3. pc'[t] = label /\ \A u \in Threads \ {t} : pc'[u] = pc[u]
  BY DEF Moved, TypeInv, Places
<1>4. \A u \in Senders : Announcing(u) => Announcing(u)'
  BY <1>2, ThreadNames DEF Announcing
<1>5. NobodySends => NobodySends'
  BY <1>3, <1>4, ThreadNames DEF NobodySends
<1>6. todo["user"] = Greeting => todo'["user"] = Greeting
  BY <1>2, GreetingGoes, ThreadNames
<1>7. CnxnPending => CnxnPending'
  <2>1. CASE t = "user"
    BY <2>1, PendingGoes
  <2>2. CASE t # "user"
    BY <1>2, <2>2, ThreadNames DEF CnxnPending
  <2>3. QED
    BY <2>1, <2>2
<1>8. SyncHeads => SyncHeads'
  <2>1. CASE t = "output"
    BY <2>1 DEF SyncHeads, Uncreated
  <2>2. CASE t # "output"
    <3>1. todo'["output"] = todo["output"] /\ pc'["output"] = pc["output"]
      BY <1>2, <1>3, <2>2, ThreadNames
    <3>2. QED
      BY <3>1 DEF SyncHeads, Uncreated
  <2>3. QED
    BY <2>1, <2>2
<1>9. pc'["input"] = pc["input"] \/ (~Writing /\ ~Writing')
  BY <1>3, ThreadNames DEF Writing
<1>10. pc["user"] # "none" => pc'["user"] # "none"
  BY <1>3, ThreadNames
<1>11. Phase'
  BY <1>4, <1>5, <1>6, <1>7, <1>8, <1>9, <1>10, ThreadNames, PhaseKept DEF SyncInv
<1>12. QED
  BY <1>2, <1>11 DEF SyncInv

\* input_thread takes a packet.
LEMMA InputTakeSync ==
    ASSUME TypeInv, SyncInv, todo["input"] = <<>>, pc["input"] \in {"check", "wait", "blocked"},
           UNCHANGED <<kicked, firstOut>>, pipe["a2b"] # <<>>, Take("input")
    PROVE  SyncInv'
<1> DEFINE q == pipe["a2b"]  packet == Head(q)
<1>1. q \in Seq(Packets) /\ pipe \in [Pipes -> Seq(Packets)] /\ "a2b" \in Pipes
  BY DEF TypeInv, Pipes
<1>2. packet \in Packets
  BY <1>1, HeadTailProperties
<1>3. pipe'["a2b"] = Tail(q) /\ InputTakes(packet) /\ UNCHANGED online
  BY <1>1 DEF Take, Source
<1>4. ~Writing /\ pc["user"] # "none" /\ Flowing
  BY DEF SyncInv, Phase, Before, Replying, Dead, Unheard, Writing, Flowing
<1>5. active \/ packet = "SYNC1"
  BY <1>4 DEF Flowing
<1>6. \E label \in Labels, steps \in {<<>>, Clear} :
          /\ Moved("input", label, steps)
          /\ packet \in {"CNXN", "DATA"} => label = packet
          /\ packet \notin {"CNXN", "DATA"} => label \in {"clear", "check"}
  BY <1>2, <1>3, <1>5 DEF InputTakes, Leave, Goto, Moved, Packets, Labels
<1>7. PICK label \in Labels, steps \in {<<>>, Clear} :
          /\ Moved("input", label, steps)
          /\ packet \in {"CNXN", "DATA"} => label = packet
          /\ packet \notin {"CNXN", "DATA"} => label \in {"clear", "check"}
  BY <1>6
<1>8. Directions' /\ \A u \in Threads \ {"input"} : todo'[u] = todo[u]
  <2>1. steps \in Seq(Announcements)
    <3>1. CASE steps = <<>>
      BY <3>1
    <3>2. CASE steps = Clear
      BY <3>2, ClearType
    <3>3. QED
      BY <3>1, <3>2
  <2>2. steps \in Seq(MovesOf("input"))
    BY <2>1, AnnouncingMoves DEF MovesOf
  <2>3. QED
    BY <1>7, <2>2, DirectionsKept, ThreadNames DEF Moved, SyncInv
<1>9. pc'["input"] = label /\ \A u \in Threads \ {"input"} : pc'[u] = pc[u]
  BY <1>7, ThreadNames DEF Moved, TypeInv, Places
<1>10. UNCHANGED ignored /\ active' = (active \/ packet = "SYNC1")
  BY <1>2, <1>3, <1>5 DEF InputTakes, TypeInv, Flags, Packets
<1>11. active'
  BY <1>5, <1>10
<1>12. \/ firstOut' = "CNXN"
       \/ firstOut' = "none" /\ pc'["input"] = "CNXN"
       \/ CnxnOnItsWay'
  <2>1. firstOut = "CNXN" \/ CnxnOnItsWay
    BY <1>4 DEF Flowing, Writing
  <2>2. CASE CnxnOnItsWay
    <3>1. /\ packet # "DATA"
          /\ packet # "CNXN" => CnxnLeads(Tail(q)) /\ (HasCnxn(q) => HasCnxn(Tail(q)))
      BY <1>1, <2>2, CnxnTaken DEF CnxnOnItsWay
    <3>2. CASE packet = "CNXN"
      BY <1>7, <1>9, <2>2, <3>2 DEF CnxnOnItsWay
    <3>3. CASE packet # "CNXN"
      <4>1. ~Writing'
        BY <1>7, <1>9, <3>1, <3>3 DEF Writing
      <4>2. CnxnLeads(pipe["a2b"])' /\ (HasCnxn(pipe["a2b"]) => HasCnxn(pipe["a2b"])')
        BY <1>3, <3>1, <3>3 DEF CnxnLeads, HasCnxn
      <4>3. NobodySends /\ CnxnPending => (NobodySends /\ CnxnPending)'
        BY <1>3, <1>8, <1>9, ThreadNames DEF NobodySends, Announcing, CnxnPending
      <4>4. QED
        BY <2>2, <4>1, <4>2, <4>3 DEF CnxnOnItsWay
    <3>4. QED
      BY <3>2, <3>3
  <2>3. QED
    BY <2>1, <2>2
<1>13. Flowing'
  BY <1>4, <1>9, <1>11, <1>12, ThreadNames DEF Flowing
<1>14. QED
  BY <1>8, <1>10, <1>13 DEF SyncInv, Phase

\* user_thread takes a packet.
LEMMA UserTakeSync ==
    ASSUME TypeInv, SyncInv, todo["user"] = <<>>,
           UNCHANGED <<kicked, firstOut>>, pipe["b2a"] # <<>>, Take("user")
    PROVE  SyncInv'
<1> DEFINE packet == Head(pipe["b2a"])
<1>1. pipe["b2a"] \in Seq(Packets) /\ pipe \in [Pipes -> Seq(Packets)] /\ {"a2b", "b2a"} \subseteq Pipes
  BY DEF TypeInv, Pipes
<1>2. packet \in Packets
  BY <1>1, HeadTailProperties
<1>3. PICK steps \in Replies(packet) :
          /\ Moved("user", "check", steps) /\ UNCHANGED <<active, ignored>>
          /\ packet = "SYNC1" => UNCHANGED online
  BY DEF Take, Source, UserTakes, Goto, Moved
<1>4. pipe'["a2b"] = pipe["a2b"]
  BY <1>1 DEF Take, Source
<1>5. /\ Directions' /\ todo'["user"] = steps
      /\ \A u \in Threads \ {"user"} : todo'[u] = todo[u]
  <2>1. steps \in Seq(MovesOf("user"))
    BY <1>2, RepliesMoves DEF MovesOf
  <2>2. QED
    BY <1>3, <2>1, DirectionsKept, ThreadNames DEF Moved, SyncInv
<1>6. pc'["user"] = "check" /\ \A u \in Threads \ {"user"} : pc'[u] = pc[u]
  BY <1>3, ThreadNames DEF Moved, TypeInv, Places
<1>7. Writing' <=> Writing
  BY <1>6, ThreadNames DEF Writing
<1>8. Unheard => Unheard'
  BY <1>3, <1>4, <1>7 DEF Unheard
<1>9. CASE Before
  <2>1. packet = "SYNC1"
    BY <1>9 DEF Before, SyncHeads
  <2>2. NobodySends'
    BY <1>3, <1>5, <1>6, <1>9, <2>1, ThreadNames DEF Before, NobodySends, Announcing
  <2>3. Replying'
    BY <1>5, <1>6, <1>8, <1>9, <2>1, <2>2, GreetingIsReply DEF Before, Replying
  <2>4. QED
    BY <1>3, <1>5, <2>3 DEF SyncInv, Phase
<1>10. ~Replying
  BY GreetingGoes DEF Replying
<1>11. CASE Dead
  BY <1>3, <1>5, <1>8, <1>11 DEF Dead, SyncInv, Phase
<1>12. CASE Flowing
  <2>1. CnxnOnItsWay => CnxnOnItsWay'
    <3>1. ~CnxnPending
      BY PendingGoes
    <3>2. CnxnLeads(pipe["a2b"]) => CnxnLeads(pipe["a2b"])'
      BY <1>4 DEF CnxnLeads
    <3>3. HasCnxn(pipe["a2b"]) => HasCnxn(pipe["a2b"])'
      BY <1>4 DEF HasCnxn
    <3>4. QED
      BY <1>7, <3>1, <3>2, <3>3 DEF CnxnOnItsWay
  <2>2. Flowing'
    BY <1>3, <1>4, <1>6, <1>12, <2>1, ThreadNames DEF Flowing
  <2>3. QED
    BY <1>3, <1>5, <2>2 DEF SyncInv, Phase
<1>13. QED
  BY <1>9, <1>10, <1>11, <1>12 DEF SyncInv, Phase

LEMMA ReadSync ==
    ASSUME TypeInv, SyncInv, NEW t \in Threads, ReadCheck(t) \/ ReadWait(t) \/ ReadResume(t)
    PROVE  SyncInv'
<1>1. /\ t \in {"input", "user"} /\ todo[t] = <<>> /\ pc[t] \in {"check", "wait", "blocked"}
      /\ UNCHANGED <<kicked, firstOut>>
  BY ReadGoes
<1>2. CASE pipe[Source(t)] # <<>> /\ Take(t)
  <2>1. CASE t = "input"
    BY <1>1, <1>2, <2>1, InputTakeSync DEF Source
  <2>2. CASE t = "user"
    BY <1>1, <1>2, <2>2, UserTakeSync DEF Source
  <2>3. QED
    BY <1>1, <2>1, <2>2
<1>3. CASE /\ \E label \in {"clear", "wait", "check", "blocked"}, steps \in {<<>>, Clear} :
                  Moved(t, label, steps)
           /\ UNCHANGED <<pipe, active, ignored, online>>
  <2>1. PICK label \in {"clear", "wait", "check", "blocked"}, steps \in {<<>>, Clear} :
            Moved(t, label, steps)
    BY <1>3
  <2>2. steps \in Seq(Announcements)
    <3>1. CASE steps = <<>>
      BY <3>1
    <3>2. CASE steps = Clear
      BY <3>2, ClearType
    <3>3. QED
      BY <3>1, <3>2
  <2>3. t \in Threads \ {"starter"} /\ t # "output"
    BY <1>1
  <2>4. QED
    BY <1>1, <1>3, <2>1, <2>2, <2>3, GoesOnSync
<1>4. QED
  BY <1>2, <1>3, ReadGoes

LEMMA UsbWriteSync ==
    ASSUME TypeInv, SyncInv, UsbWrite
    PROVE  SyncInv'
<1>1. /\ Writing /\ Moved("input", "check", <<>>)
      /\ firstOut' = IF firstOut = "none" THEN pc["input"] ELSE firstOut
      /\ UNCHANGED <<pipe, active, online, ignored, kicked>>
  BY DEF UsbWrite, At, Goto, Moved, Writing
<1>2. Directions'
  <2>1. <<>> \in Seq(MovesOf("input"))
    OBVIOUS
  <2>2. QED
    BY <1>1, <2>1, DirectionsKept, ThreadNames DEF Moved, SyncInv
<1>3. pc'["user"] = pc["user"]
  BY <1>1, ThreadNames DEF Moved, TypeInv, Places
<1>4. Flowing /\ ~CnxnOnItsWay
  BY <1>1 DEF SyncInv, Phase, Before, Replying, Dead, Unheard, CnxnOnItsWay
<1>5. firstOut' = "CNXN" /\ active'
  BY <1>1, <1>4 DEF Flowing
<1>6. Flowing'
  BY <1>3, <1>4, <1>5 DEF Flowing
<1>7. QED
  BY <1>1, <1>2, <1>6 DEF SyncInv, Phase

LEMMA OutputSync ==
    ASSUME TypeInv, SyncInv,
           WriteFailed \/ UsbReadFails \/ \E packet \in {"CNXN", "DATA"} : UsbRead(packet)
    PROVE  SyncInv'
<1>1. /\ pc["output"] = "read" /\ todo["output"] = <<>>
      /\ UNCHANGED <<pipe, active, online, firstOut, ignored, kicked>>
  BY DEF WriteFailed, UsbReadFails, UsbRead, At
<1>2. Clear \in Seq(OutputMoves)
  <2>1. Announcements \subseteq OutputMoves
    BY DEF OutputMoves
  <2>2. QED
    BY <2>1, ClearType, SeqMonotonic
<1>3. \A packet \in Packets : Write("b2a", packet) \in Seq(OutputMoves)
  BY WriteMoves
<1>4. \E label \in {"clear", "read"}, steps \in Seq(OutputMoves) : Moved("output", label, steps)
  <2>1. CASE WriteFailed
    BY <1>2, <2>1 DEF WriteFailed, Leave, Goto, Moved
  <2>2. CASE UsbReadFails
    <3>1. Write("b2a", "SYNC0") \o Clear \in Seq(OutputMoves)
      BY <1>2, <1>3, ConcatProperties DEF Packets
    <3>2. QED
      BY <2>2, <3>1 DEF UsbReadFails, Goto, Moved
  <2>3. ASSUME NEW packet \in {"CNXN", "DATA"}, UsbRead(packet)
        PROVE  \E label \in {"clear", "read"}, steps \in Seq(OutputMoves) : Moved("output", label, steps)
    <3>1. Write("b2a", packet) \in Seq(OutputMoves)
      BY <1>3, <2>3 DEF Packets
    <3>2. QED
      BY <2>3, <3>1 DEF UsbRead, Goto, Moved
  <2>4. QED
    BY <2>1, <2>2, <2>3
<1>5. QED
  BY <1>1, <1>4, ThreadNames, GoesOnSync

LEMMA CloserSync ==
    ASSUME TypeInv, SyncInv, NEW c \in Closers, CloserClear(c)
    PROVE  SyncInv'
<1>1. /\ pc[c] \in {"idle", "open"} /\ todo[c] = <<>> /\ Moved(c, "exit", Clear)
      /\ UNCHANGED <<pipe, active, online, firstOut, ignored, kicked>>
  BY DEF CloserClear, At, Goto, Moved
<1>2. c \in Threads \ {"starter"} /\ c # "output" /\ c # "input" /\ Clear \in Seq(Announcements)
  BY ThreadNames, ClearType DEF Senders, Users
<1>3. QED
  BY <1>1, <1>2, GoesOnSync

LEMMA ClientOpenSync ==
    ASSUME TypeInv, SyncInv, NEW c \in Clients, ClientOpen(c)
    PROVE  SyncInv'
<1>1. /\ pc[c] = "idle" /\ todo[c] = <<>> /\ Moved(c, "open", <<>>) /\ online
      /\ UNCHANGED <<pipe, active, online, firstOut, ignored, kicked>>
  BY DEF ClientOpen, At, Goto, Moved
<1>2. c \in Threads \ {"starter"} /\ c # "output" /\ c # "input" /\ <<>> \in Seq(Announcements)
  BY ThreadNames DEF Senders, Users
<1>3. ~NobodySends
  BY <1>1 DEF NobodySends
<1>4. QED
  BY <1>1, <1>2, <1>3, GoesOnSync

LEMMA ClientSync ==
    ASSUME TypeInv, SyncInv, NEW c \in Clients, ClientSend(c)
    PROVE  SyncInv'
<1>1. /\ pc[c] = "open" /\ Moved(c, "open", Write("a2b", "DATA"))
      /\ UNCHANGED <<pipe, active, online, firstOut, ignored, kicked>>
  BY DEF ClientSend, At, Goto, Moved
<1>2. c \in Threads \ {"starter"} /\ c \notin PumpThreads
  BY ThreadNames, ThreadFacts
<1>3. Directions' /\ \A u \in Threads \ {c} : todo'[u] = todo[u]
  <2>1. Write("a2b", "DATA") \in Seq(MovesOf(c))
    BY <1>2, WriteMoves, ThreadNames DEF MovesOf, Packets
  <2>2. QED
    BY <1>1, <1>2, <2>1, DirectionsKept DEF Moved, SyncInv
<1>4. \A u \in Threads \ {c} : pc'[u] = pc[u]
  BY <1>1 DEF Moved, TypeInv, Places
<1>5. ~NobodySends
  BY <1>1, ThreadNames DEF NobodySends, Users
<1>6. /\ Announcing("user") => Announcing("user")'
      /\ todo["user"] = Greeting => todo'["user"] = Greeting
      /\ CnxnPending => CnxnPending'
  BY <1>2, <1>3, ThreadNames DEF Announcing, CnxnPending
<1>7. SyncHeads => SyncHeads'
  BY <1>1, <1>2, <1>3, <1>4, ThreadNames DEF SyncHeads, Uncreated
<1>8. pc'["input"] = pc["input"] /\ pc'["user"] = pc["user"]
  BY <1>2, <1>4, ThreadNames
<1>9. Phase'
  BY <1>1, <1>5, <1>6, <1>7, <1>8, PhaseKept DEF SyncInv
<1>10. QED
  BY <1>1, <1>3, <1>9 DEF SyncInv

LEMMA SyncInvStep == TypeInv /\ SyncInv /\ [Next]_vars => SyncInv'
<1> SUFFICES ASSUME TypeInv, SyncInv, [Next]_vars PROVE SyncInv'
  OBVIOUS
<1>1. ASSUME NEW t \in Threads, ThreadStep(t) PROVE SyncInv'
  <2>1. CASE Step(t)
    BY <2>1, PushSync, AnnounceSync, CreateSync DEF Step
  <2>2. CASE ReadCheck(t) \/ ReadWait(t) \/ ReadResume(t)
    BY <2>2, ReadSync
  <2>3. CASE UsbWrite
    BY <2>3, UsbWriteSync
  <2>4. CASE WriteFailed
    BY <2>4, OutputSync
  <2>5. QED
    BY <1>1, <2>1, <2>2, <2>3, <2>4 DEF ThreadStep
<1>2. CASE UsbReadFails \/ \E packet \in {"CNXN", "DATA"} : UsbRead(packet)
  BY <1>2, OutputSync
<1>3. CASE (\E c \in Clients : ClientOpen(c) \/ ClientSend(c)) \/ (\E c \in Closers : CloserClear(c))
  BY <1>3, ClientOpenSync, ClientSync, CloserSync
<1>4. CASE UNCHANGED vars
  <2>1. UNCHANGED <<pipe, kicked, pc, todo, active, online, ignored, firstOut>>
    BY <1>4 DEF vars
  <2>2. Directions'
    BY <2>1 DEF SyncInv, Directions
  <2>3. /\ NobodySends => NobodySends'
        /\ Announcing("user") => Announcing("user")'
        /\ CnxnPending => CnxnPending'
        /\ SyncHeads => SyncHeads'
    BY <2>1 DEF NobodySends, Announcing, CnxnPending, SyncHeads, Uncreated
  <2>4. Phase'
    BY <2>1, <2>3, PhaseKept DEF SyncInv
  <2>5. QED
    BY <2>1, <2>2, <2>4 DEF SyncInv
<1>5. QED
  BY <1>1, <1>2, <1>3, <1>4 DEF Next

\* For any number of callers, packets and Clears: the SYNC that output_thread sends through
\* user_thread reaches input_thread before anything meant for the device does, so nothing
\* is dropped as "offline", and the device hears CNXN first (adb_func.cpp 473-482,
\* 552-577, Catransport.cpp 310-321).
THEOREM TransportSyncFirst == Spec => []SyncFirst
<1>1. Init => TypeInv /\ SyncInv
  BY InitTypeInv, InitSyncInv
<1>2. (TypeInv /\ SyncInv) /\ [Next]_vars => (TypeInv /\ SyncInv)'
  BY TypeInvStep, SyncInvStep
<1>3. QED
  BY <1>1, <1>2, SyncInvImpliesSyncFirst, PTL DEF Spec

-------------------------------------------------------------------------------
(* What a sleeping reader misses.  First, what threads are committed to: an    *)
(* add is followed by its notify, and a push by its add.                       *)
Paired(s) == \A i \in 1..Len(s) :
    /\ s[i].do = "push" => i < Len(s) /\ s[i + 1] = On("add", s[i].pipe)
    /\ s[i].do = "add" => i < Len(s) /\ s[i + 1] = On("notify", s[i].pipe)
    /\ s[i].do = "notify" /\ i > 1 => s[i - 1] = On("add", s[i].pipe)

\* Only its writers Signal a pipe before they kick.
Owed(t, s) == \A p \in Pipes : \A i \in 1..Len(s) :
    s[i] \in {On("add", p), On("notify", p)}
    => t \in Writers(p) \/ \E j \in 1..Len(s) : j < i /\ s[j] = Do("kick")

\* A Clear that has not kicked has a Signal of each pipe before it.
Kicks(s) == \A p \in Pipes : \E i \in 1..Len(s), j \in 1..Len(s) :
    i < j /\ s[i] = Do("kick") /\ s[j] = On("add", p)

WillAdd(s, p) == \E i \in 1..Len(s) : s[i] = On("add", p)
NoNotify(s) == s # <<>> => Head(s).do # "notify"

LEMMA MoveNames ==
    /\ \A p \in Pipes : /\ On("add", p) \in Moves /\ On("notify", p) \in Moves
                        /\ On("add", p).do = "add" /\ On("add", p).pipe = p
                        /\ On("notify", p).do = "notify" /\ On("notify", p).pipe = p
                        /\ On("add", p) # On("notify", p)
                        /\ On("add", p) # Do("kick") /\ On("notify", p) # Do("kick")
    /\ Do("kick") \in Moves /\ Do("kick").do = "kick"
    /\ \A p \in Pipes, q \in Pipes : /\ On("add", p) # On("notify", q)
                                     /\ On("add", p) = On("add", q) => p = q
                                     /\ On("notify", p) = On("notify", q) => p = q
    /\ \A m \in Moves : /\ m.do \in {"push", "add", "notify", "kick"}
                        /\ m.do # "kick" => m.pipe \in Pipes
                        /\ m.do = "add" => m = On("add", m.pipe)
                        /\ m.do = "notify" => m = On("notify", m.pipe)
                        /\ m.do = "kick" => m = Do("kick")
  BY DEF On, Do, Moves, Announcements, Pipes

LEMMA ConcatAt ==
    ASSUME NEW s \in Seq(Moves), NEW u \in Seq(Moves)
    PROVE  /\ s \o u \in Seq(Moves) /\ Len(s \o u) = Len(s) + Len(u)
           /\ Len(s) \in Nat /\ Len(u) \in Nat
           /\ \A i \in 1..Len(s) : i \in 1..Len(s \o u) /\ (s \o u)[i] = s[i]
           /\ \A i \in 1..Len(u) : Len(s) + i \in 1..Len(s \o u) /\ (s \o u)[Len(s) + i] = u[i]
<1>1. /\ s \o u \in Seq(Moves) /\ Len(s \o u) = Len(s) + Len(u)
      /\ \A i \in 1..Len(s) + Len(u) : (s \o u)[i] = IF i <= Len(s) THEN s[i] ELSE u[i - Len(s)]
  BY ConcatProperties
<1>2. Len(s) \in Nat /\ Len(u) \in Nat
  OBVIOUS
<1> DEFINE m == Len(s)  n == Len(u)  w == s \o u
<1> HIDE DEF m, n, w
<1>3. m \in Nat /\ n \in Nat /\ Len(w) = m + n
  BY <1>1, <1>2 DEF m, n, w
<1>4. \A i \in 1..m + n : w[i] = IF i <= m THEN s[i] ELSE u[i - m]
  BY <1>1 DEF m, n, w
<1>5. \A i \in 1..m : i \in 1..Len(w) /\ w[i] = s[i]
  BY <1>3, <1>4
<1>6. \A i \in 1..n : m + i \in 1..Len(w) /\ w[m + i] = u[i]
  BY <1>3, <1>4
<1>7. QED
  BY <1>1, <1>2, <1>5, <1>6 DEF m, n, w

LEMMA PairedConcat ==
    ASSUME NEW s \in Seq(Moves), NEW u \in Seq(Moves), Paired(s), Paired(u), NoNotify(u)
    PROVE  Paired(s \o u)
<1> DEFINE m == Len(s)  n == Len(u)  w == s \o u
<1>1. m \in Nat /\ n \in Nat /\ Len(w) = m + n
  BY ConcatAt
<1>2. /\ \A i \in 1..m : w[i] = s[i]
      /\ \A i \in 1..n : w[m + i] = u[i]
  BY ConcatAt
<1>3. n > 0 => u[1].do # "notify"
  BY DEF NoNotify
<1>4. \A i \in 1..m :
        /\ s[i].do = "push" => i < m /\ s[i + 1] = On("add", s[i].pipe)
        /\ s[i].do = "add" => i < m /\ s[i + 1] = On("notify", s[i].pipe)
        /\ s[i].do = "notify" /\ i > 1 => s[i - 1] = On("add", s[i].pipe)
  BY DEF Paired
<1>5. \A i \in 1..n :
        /\ u[i].do = "push" => i < n /\ u[i + 1] = On("add", u[i].pipe)
        /\ u[i].do = "add" => i < n /\ u[i + 1] = On("notify", u[i].pipe)
        /\ u[i].do = "notify" /\ i > 1 => u[i - 1] = On("add", u[i].pipe)
  BY DEF Paired
<1> HIDE DEF m, n, w
<1>6. SUFFICES ASSUME NEW i \in 1..(m + n)
               PROVE  /\ w[i].do = "push" => i < m + n /\ w[i + 1] = On("add", w[i].pipe)
                      /\ w[i].do = "add" => i < m + n /\ w[i + 1] = On("notify", w[i].pipe)
                      /\ w[i].do = "notify" /\ i > 1 => w[i - 1] = On("add", w[i].pipe)
  BY <1>1 DEF Paired, w
<1>7. CASE i <= m
  <2>1. i \in 1..m /\ w[i] = s[i]
    BY <1>1, <1>2, <1>7
  <2>2. i < m => i + 1 \in 1..m /\ w[i + 1] = s[i + 1]
    BY <1>1, <1>2, <2>1
  <2>3. i > 1 => i - 1 \in 1..m /\ w[i - 1] = s[i - 1]
    BY <1>1, <1>2, <2>1
  <2>4. i < m => i < m + n
    BY <1>1
  <2>5. QED
    BY <1>4, <2>1, <2>2, <2>3, <2>4
<1>8. CASE i > m
  <2>1. PICK k \in 1..n : i = m + k
    <3>1. i - m \in 1..n /\ i = m + (i - m)
      BY <1>1, <1>8
    <3>2. QED
      BY <3>1
  <2>2. w[i] = u[k]
    BY <1>2, <2>1
  <2>3. k < n => k + 1 \in 1..n /\ w[i + 1] = u[k + 1]
    <3>1. ASSUME k < n PROVE k + 1 \in 1..n /\ i + 1 = m + (k + 1)
      BY <1>1, <2>1, <3>1
    <3>2. QED
      BY <1>2, <3>1
  <2>4. k > 1 => k - 1 \in 1..n /\ w[i - 1] = u[k - 1]
    <3>1. ASSUME k > 1 PROVE k - 1 \in 1..n /\ i - 1 = m + (k - 1)
      BY <1>1, <2>1, <3>1
    <3>2. QED
      BY <1>2, <3>1
  <2>5. k < n => i < m + n
    BY <1>1, <2>1
  <2>6. k = 1 => u[k].do # "notify"
    BY <1>1, <1>3, <2>1
  <2>7. k = 1 \/ k > 1
    BY <2>1
  <2>8. QED
    BY <1>5, <2>1, <2>2, <2>3, <2>4, <2>5, <2>6, <2>7
<1>9. QED
  BY <1>1, <1>7, <1>8

LEMMA OwedConcat ==
    ASSUME NEW t, NEW s \in Seq(Moves), NEW u \in Seq(Moves), Owed(t, s), Owed(t, u)
    PROVE  Owed(t, s \o u)
<1> DEFINE m == Len(s)  n == Len(u)  w == s \o u
<1>1. m \in Nat /\ n \in Nat /\ Len(w) = m + n
  BY ConcatAt
<1>2. /\ \A i \in 1..m : i \in 1..Len(w) /\ w[i] = s[i]
      /\ \A i \in 1..n : m + i \in 1..Len(w) /\ w[m + i] = u[i]
  BY ConcatAt
<1> HIDE DEF m, n, w
<1>3. SUFFICES ASSUME NEW p \in Pipes, NEW i \in 1..Len(w), w[i] \in {On("add", p), On("notify", p)},
                      t \notin Writers(p)
               PROVE  \E j \in 1..Len(w) : j < i /\ w[j] = Do("kick")
  BY DEF Owed, w
<1>4. CASE i <= m
  <2>1. i \in 1..m /\ w[i] = s[i]
    BY <1>1, <1>2, <1>4
  <2>2. PICK j \in 1..m : j < i /\ s[j] = Do("kick")
    BY <1>3, <2>1 DEF Owed, m
  <2>3. QED
    BY <1>2, <2>2
<1>5. CASE i > m
  <2>1. i - m \in 1..n /\ i = m + (i - m)
    BY <1>1, <1>5
  <2>2. PICK k \in 1..n : i = m + k
    BY <2>1
  <2>3. w[i] = u[k]
    BY <1>2, <2>2
  <2>4. PICK j \in 1..n : j < k /\ u[j] = Do("kick")
    BY <1>3, <2>3 DEF Owed, n
  <2>5. m + j \in 1..Len(w) /\ w[m + j] = Do("kick") /\ m + j < i
    BY <1>1, <1>2, <2>2, <2>4
  <2>6. QED
    BY <2>5
<1>6. QED
  BY <1>1, <1>4, <1>5

LEMMA KicksConcat ==
    ASSUME NEW s \in Seq(Moves), NEW u \in Seq(Moves), Kicks(u)
    PROVE  Kicks(s \o u)
<1> DEFINE m == Len(s)  n == Len(u)  w == s \o u
<1>1. m \in Nat /\ n \in Nat /\ \A i \in 1..n : m + i \in 1..Len(w) /\ w[m + i] = u[i]
  BY ConcatAt
<1> HIDE DEF m, n, w
<1>2. SUFFICES ASSUME NEW p \in Pipes
               PROVE  \E i \in 1..Len(w), j \in 1..Len(w) : i < j /\ w[i] = Do("kick") /\ w[j] = On("add", p)
  BY DEF Kicks, w
<1>3. PICK i \in 1..n, j \in 1..n : i < j /\ u[i] = Do("kick") /\ u[j] = On("add", p)
  BY DEF Kicks, n
<1>4. m + i < m + j /\ w[m + i] = Do("kick") /\ w[m + j] = On("add", p)
  BY <1>1, <1>3
<1>5. QED
  BY <1>1, <1>4

LEMMA WillAddConcat ==
    ASSUME NEW s \in Seq(Moves), NEW u \in Seq(Moves), NEW p, WillAdd(u, p)
    PROVE  WillAdd(s \o u, p)
<1>1. PICK i \in 1..Len(u) : u[i] = On("add", p)
  BY DEF WillAdd
<1>2. Len(s) + i \in 1..Len(s \o u) /\ (s \o u)[Len(s) + i] = On("add", p)
  BY <1>1, ConcatAt
<1>3. QED
  BY <1>2 DEF WillAdd

LEMMA NothingOwed ==
    ASSUME NEW t
    PROVE  <<>> \in Seq(Moves) /\ Paired(<<>>) /\ Owed(t, <<>>) /\ NoNotify(<<>>)
  BY DEF Paired, Owed, NoNotify

LEMMA KickOwes ==
    ASSUME NEW t
    PROVE  <<Do("kick")>> \in Seq(Moves) /\ Paired(<<Do("kick")>>) /\ Owed(t, <<Do("kick")>>)
<1> DEFINE s == <<Do("kick")>>
<1>1. s \in Seq(Moves) /\ Len(s) = 1 /\ s[1] = Do("kick")
  BY MoveNames
<1> HIDE DEF s
<1>2. \A i \in 1..Len(s) : i = 1 /\ s[i] = Do("kick") /\ s[i].do = "kick"
  BY <1>1, MoveNames
<1>3. Paired(s)
  BY <1>2 DEF Paired
<1>4. Owed(t, s)
  BY <1>2, MoveNames DEF Owed
<1>5. QED
  BY <1>1, <1>3, <1>4 DEF s

LEMMA SignalOwes ==
    ASSUME NEW p \in Pipes
    PROVE  /\ Signal(p) \in Seq(Moves) /\ Paired(Signal(p)) /\ NoNotify(Signal(p)) /\ WillAdd(Signal(p), p)
           /\ \A t \in Writers(p) : Owed(t, Signal(p))
<1> DEFINE s == Signal(p)
<1>1. s \in Seq(Moves) /\ Len(s) = 2 /\ s[1] = On("add", p) /\ s[2] = On("notify", p) /\ Head(s) = s[1]
  BY SignalType DEF Signal
<1> HIDE DEF s
<1>2. \A i \in 1..Len(s) : i = 1 \/ i = 2
  BY <1>1
<1>3. Paired(s)
  <2>1. SUFFICES ASSUME NEW i \in 1..Len(s)
                 PROVE  /\ s[i].do = "push" => i < Len(s) /\ s[i + 1] = On("add", s[i].pipe)
                        /\ s[i].do = "add" => i < Len(s) /\ s[i + 1] = On("notify", s[i].pipe)
                        /\ s[i].do = "notify" /\ i > 1 => s[i - 1] = On("add", s[i].pipe)
    BY DEF Paired
  <2>2. CASE i = 1
    BY <1>1, <2>2, MoveNames
  <2>3. CASE i = 2
    BY <1>1, <2>3, MoveNames
  <2>4. QED
    BY <1>2, <2>2, <2>3
<1>4. \A t \in Writers(p) : Owed(t, s)
  <2>1. \A q \in Pipes : \A i \in 1..Len(s) : s[i] \in {On("add", q), On("notify", q)} => q = p
    BY <1>1, <1>2, MoveNames
  <2>2. QED
    BY <2>1 DEF Owed
<1>5. NoNotify(s) /\ WillAdd(s, p)
  BY <1>1, MoveNames DEF NoNotify, WillAdd
<1>6. QED
  BY <1>1, <1>3, <1>4, <1>5 DEF s

LEMMA WriteOwes ==
    ASSUME NEW p \in Pipes, NEW packet \in Packets
    PROVE  /\ Write(p, packet) \in Seq(Moves) /\ Paired(Write(p, packet)) /\ NoNotify(Write(p, packet))
           /\ \A t \in Writers(p) : Owed(t, Write(p, packet))
<1> DEFINE s == Write(p, packet)  push == PushOf(p, packet)
<1>1. s = <<push, On("add", p), On("notify", p)>>
  BY ConcatWrite DEF Write, Signal, PushOf
<1>2. s \in Seq(Moves) /\ push.do = "push" /\ push.pipe = p
  BY WriteType DEF PushOf
<1>3. Len(s) = 3 /\ s[1] = push /\ s[2] = On("add", p) /\ s[3] = On("notify", p) /\ Head(s) = push
  BY <1>1
<1> HIDE DEF s, push
<1>4. \A i \in 1..Len(s) : i = 1 \/ i = 2 \/ i = 3
  BY <1>3
<1>5. Paired(s)
  <2>1. SUFFICES ASSUME NEW i \in 1..Len(s)
                 PROVE  /\ s[i].do = "push" => i < Len(s) /\ s[i + 1] = On("add", s[i].pipe)
                        /\ s[i].do = "add" => i < Len(s) /\ s[i + 1] = On("notify", s[i].pipe)
                        /\ s[i].do = "notify" /\ i > 1 => s[i - 1] = On("add", s[i].pipe)
    BY DEF Paired
  <2>2. CASE i = 1
    BY <1>2, <1>3, <2>2
  <2>3. CASE i = 2
    BY <1>3, <2>3, MoveNames
  <2>4. CASE i = 3
    BY <1>3, <2>4, MoveNames
  <2>5. QED
    BY <1>4, <2>2, <2>3, <2>4
<1>6. \A t \in Writers(p) : Owed(t, s)
  <2>1. \A q \in Pipes : push # On("add", q) /\ push # On("notify", q)
    BY <1>2, MoveNames
  <2>2. \A q \in Pipes : \A i \in 1..Len(s) : s[i] \in {On("add", q), On("notify", q)} => q = p
    BY <1>3, <1>4, <2>1, MoveNames
  <2>3. QED
    BY <2>2 DEF Owed
<1>7. NoNotify(s)
  BY <1>2, <1>3 DEF NoNotify
<1>8. QED
  BY <1>2, <1>5, <1>6, <1>7 DEF s

\* What a thread can go on with: it Signals its own pipe, or kicks before.  Whoever is
\* to leave has a Signal for each pipe.
Fitting(t, label, steps) ==
    /\ steps \in Seq(Moves) /\ Paired(steps) /\ NoNotify(steps)
    /\ ~kicked => Owed(t, steps)
    /\ label \in {"clear", "exit"} => /\ \A p \in Pipes : WillAdd(steps, p)
                                      /\ ~kicked => Kicks(steps)

LEMMA FittingNone ==
    ASSUME NEW t, NEW label, label \notin {"clear", "exit"}
    PROVE  Fitting(t, label, <<>>)
  BY NothingOwed DEF Fitting

LEMMA FittingWrite ==
    ASSUME NEW p \in Pipes, NEW t \in Writers(p), NEW packet \in Packets,
           NEW label, label \notin {"clear", "exit"}
    PROVE  Fitting(t, label, Write(p, packet))
  BY WriteOwes DEF Fitting

LEMMA ClearOwes ==
    ASSUME NEW t
    PROVE  /\ Clear \in Seq(Moves) /\ Paired(Clear) /\ NoNotify(Clear)
           /\ \A p \in Pipes : WillAdd(Clear, p)
           /\ ~kicked => Owed(t, Clear) /\ Kicks(Clear)
<1> DEFINE s == Signal("b2a") \o Signal("a2b")
<1>1. "a2b" \in Pipes /\ "b2a" \in Pipes /\ Pipes = {"a2b", "b2a"}
  BY DEF Pipes
<1>2. /\ Signal("a2b") \in Seq(Moves) /\ Paired(Signal("a2b")) /\ NoNotify(Signal("a2b"))
      /\ Signal("b2a") \in Seq(Moves) /\ Paired(Signal("b2a"))
      /\ WillAdd(Signal("a2b"), "a2b") /\ WillAdd(Signal("b2a"), "b2a")
  BY <1>1, SignalOwes
<1>3. s \in Seq(Moves) /\ Paired(s)
  BY <1>2, PairedConcat, ConcatAt
<1>4. WillAdd(s, "a2b")
  BY <1>2, WillAddConcat
<1>5. WillAdd(s, "b2a")
  <2>1. PICK i \in 1..Len(Signal("b2a")) : Signal("b2a")[i] = On("add", "b2a")
    BY <1>2 DEF WillAdd
  <2>2. i \in 1..Len(s) /\ s[i] = On("add", "b2a")
    BY <1>2, <2>1, ConcatAt
  <2>3. QED
    BY <2>2 DEF WillAdd
<1>6. Head(s) = On("add", "b2a") /\ s # <<>>
  <2>1. 1 \in 1..Len(Signal("b2a")) /\ Signal("b2a")[1] = On("add", "b2a")
    BY DEF Signal
  <2>2. 1 \in 1..Len(s) /\ s[1] = On("add", "b2a")
    BY <1>2, <2>1, ConcatAt
  <2>3. QED
    BY <1>3, <2>2
<1>7. NoNotify(s)
  BY <1>1, <1>6, MoveNames DEF NoNotify
<1> DEFINE k == <<Do("kick")>>
<1>8. Clear = (IF kicked THEN <<>> ELSE k) \o s
  <2>1. IF kicked THEN <<>> \in Seq(Moves) ELSE k \in Seq(Moves)
    BY MoveNames
  <2>2. CASE kicked
    <3>1. Clear = (<<>> \o Signal("b2a")) \o Signal("a2b")
      BY <2>2 DEF Clear
    <3>2. QED
      BY <1>2, <1>3, <2>2, <3>1, ConcatEmptySeq
  <2>3. CASE ~kicked
    <3>1. Clear = (k \o Signal("b2a")) \o Signal("a2b")
      BY <2>3 DEF Clear
    <3>2. (k \o Signal("b2a")) \o Signal("a2b") = k \o s
      BY <1>2, <2>1, <2>3, ConcatAssociative
    <3>3. QED
      BY <2>3, <3>1, <3>2
  <2>4. QED
    BY <2>2, <2>3
<1> HIDE DEF s
<1>9. CASE kicked
  <2>1. Clear = s
    BY <1>3, <1>8, <1>9, ConcatEmptySeq
  <2>2. QED
    BY <1>1, <1>3, <1>4, <1>5, <1>7, <1>9, <2>1
<1>10. CASE ~kicked
  <2>1. Clear = k \o s /\ k \in Seq(Moves) /\ Paired(k) /\ Len(k) = 1 /\ k[1] = Do("kick")
    BY <1>8, <1>10, KickOwes
  <2> HIDE DEF k
  <2>2. Clear \in Seq(Moves) /\ Paired(Clear) /\ \A p \in Pipes : WillAdd(Clear, p)
    BY <1>1, <1>3, <1>4, <1>5, <1>7, <2>1, PairedConcat, ConcatAt, WillAddConcat
  <2>3. 1 \in 1..Len(Clear) /\ Clear[1] = Do("kick") /\ Head(Clear) = Do("kick")
    <3>1. 1 \in 1..Len(k)
      BY <2>1
    <3>2. 1 \in 1..Len(Clear) /\ Clear[1] = Do("kick")
      BY <1>3, <2>1, <3>1, ConcatAt
    <3>3. QED
      BY <2>2, <3>2
  <2>4. NoNotify(Clear)
    BY <2>3, MoveNames DEF NoNotify
  <2>5. Kicks(Clear)
    <3>1. SUFFICES ASSUME NEW p \in Pipes
                   PROVE  \E i \in 1..Len(Clear), j \in 1..Len(Clear) :
                              i < j /\ Clear[i] = Do("kick") /\ Clear[j] = On("add", p)
      BY DEF Kicks
    <3>2. PICK j \in 1..Len(Clear) : Clear[j] = On("add", p)
      BY <2>2 DEF WillAdd
    <3>3. 1 < j
      BY <2>3, <3>2, MoveNames
    <3>4. QED
      BY <2>3, <3>2, <3>3
  <2>6. Owed(t, Clear)
    <3>1. \A p \in Pipes : \A i \in 1..Len(Clear) :
              Clear[i] \in {On("add", p), On("notify", p)} => 1 < i
      BY <2>3, MoveNames
    <3>2. QED
      BY <2>3, <3>1 DEF Owed
  <2>7. QED
    BY <1>10, <2>2, <2>4, <2>5, <2>6
<1>11. QED
  BY <1>9, <1>10

LEMMA FittingClear ==
    ASSUME NEW t, NEW label
    PROVE  Fitting(t, label, Clear)
  BY ClearOwes DEF Fitting

LEMMA FittingFail == Fitting("output", "clear", Write("b2a", "SYNC0") \o Clear)
<1> DEFINE s == Write("b2a", "SYNC0")
<1>1. "b2a" \in Pipes /\ "SYNC0" \in Packets /\ "output" \in Writers("b2a")
  BY DEF Pipes, Packets, Writers
<1>2. s \in Seq(Moves) /\ Paired(s) /\ NoNotify(s) /\ Owed("output", s) /\ Len(s) = 3
  <2>1. s = <<PushOf("b2a", "SYNC0"), On("add", "b2a"), On("notify", "b2a")>>
    BY ConcatWrite DEF Write, Signal, PushOf
  <2>2. QED
    BY <1>1, <2>1, WriteOwes
<1> HIDE DEF s
<1>3. /\ Clear \in Seq(Moves) /\ Paired(Clear) /\ NoNotify(Clear)
      /\ \A p \in Pipes : WillAdd(Clear, p)
      /\ ~kicked => Owed("output", Clear) /\ Kicks(Clear)
  BY ClearOwes
<1>4. /\ s \o Clear \in Seq(Moves) /\ Paired(s \o Clear)
      /\ \A p \in Pipes : WillAdd(s \o Clear, p)
      /\ ~kicked => Owed("output", s \o Clear) /\ Kicks(s \o Clear)
  BY <1>2, <1>3, ConcatAt, PairedConcat, OwedConcat, KicksConcat, WillAddConcat
<1>5. NoNotify(s \o Clear)
  <2>1. 1 \in 1..Len(s) /\ s # <<>>
    BY <1>2
  <2>2. (s \o Clear)[1] = s[1] /\ Head(s) = s[1]
    BY <1>2, <1>3, <2>1, ConcatAt
  <2>3. \A w \in Seq(Moves) : w # <<>> => Head(w) = w[1]
    OBVIOUS
  <2>4. Head(s \o Clear) = (s \o Clear)[1]
    <3>1. s \o Clear # <<>>
      BY <1>2, <1>3, <2>1, ConcatAt
    <3>2. QED
      BY <1>4, <2>3, <3>1
  <2>5. QED
    BY <1>2, <2>1, <2>2, <2>4 DEF NoNotify
<1>6. QED
  BY <1>4, <1>5 DEF Fitting, s

LEMMA FittingReplies ==
    ASSUME NEW packet \in Packets
    PROVE  \A steps \in Replies(packet) : Fitting("user", "check", steps)
<1>1. "a2b" \in Pipes /\ "user" \in Writers("a2b") /\ Packets = {"SYNC0", "SYNC1", "CNXN", "DATA"}
  BY DEF Pipes, Writers, Packets
<1>2. \A x \in Packets : /\ Write("a2b", x) \in Seq(Moves) /\ Paired(Write("a2b", x))
                         /\ NoNotify(Write("a2b", x)) /\ Owed("user", Write("a2b", x))
                         /\ Fitting("user", "check", Write("a2b", x))
  BY <1>1, WriteOwes, FittingWrite
<1>3. /\ Greeting \in Seq(Moves) /\ Replies("SYNC1") = {Greeting}
      /\ Greeting = Write("a2b", "SYNC1") \o Write("a2b", "CNXN")
  <2>1. Replies("SYNC1") = {Write("a2b", "SYNC1") \o Write("a2b", "CNXN")}
    BY DEF Replies
  <2>2. QED
    BY <1>1, <2>1, GreetingIsReply, RepliesType
<1>4. Paired(Greeting) /\ Owed("user", Greeting)
  BY <1>1, <1>2, <1>3, PairedConcat, OwedConcat
<1>5. NoNotify(Greeting)
  BY DEF Greeting, PushOf, NoNotify
<1>6. Fitting("user", "check", Greeting)
  BY <1>3, <1>4, <1>5 DEF Fitting
<1>7. CASE packet = "SYNC1"
  BY <1>3, <1>6, <1>7
<1>8. CASE packet # "SYNC1"
  <2>1. Replies(packet) \subseteq {<<>>, Write("a2b", packet)}
    BY <1>1, <1>8 DEF Replies
  <2>2. QED
    BY <1>2, <2>1, FittingNone
<1>9. QED
  BY <1>7, <1>8

-------------------------------------------------------------------------------
(* The first step done, the rest is as it has to be.                           *)
LEMMA TailAt ==
    ASSUME NEW s \in Seq(Moves), s # <<>>
    PROVE  /\ Len(s) \in Nat \ {0} /\ Head(s) = s[1] /\ Len(Tail(s)) = Len(s) - 1
           /\ \A i \in 1..Len(s) - 1 : Tail(s)[i] = s[i + 1]
           /\ \A i \in 2..Len(s) : i - 1 \in 1..Len(s) - 1 /\ Tail(s)[i - 1] = s[i]
           /\ Tail(s) # <<>> => Len(s) > 1 /\ Head(Tail(s)) = s[2]
<1>1. /\ Len(s) \in Nat \ {0} /\ Head(s) = s[1] /\ Len(Tail(s)) = Len(s) - 1
      /\ \A i \in 1..Len(s) - 1 : Tail(s)[i] = s[i + 1]
  BY HeadTailProperties
<1> DEFINE n == Len(s)  w == Tail(s)
<1> HIDE DEF n, w
<1>2. n \in Nat \ {0} /\ \A i \in 1..n - 1 : w[i] = s[i + 1]
  BY <1>1 DEF n, w
<1>3. \A i \in 2..n : i - 1 \in 1..n - 1 /\ (i - 1) + 1 = i
  BY <1>2
<1>4. \A i \in 2..n : i - 1 \in 1..n - 1 /\ w[i - 1] = s[i]
  <2>1. SUFFICES ASSUME NEW i \in 2..n PROVE i - 1 \in 1..n - 1 /\ w[i - 1] = s[i]
    OBVIOUS
  <2>2. i - 1 \in 1..n - 1 /\ w[i - 1] = s[(i - 1) + 1] /\ (i - 1) + 1 = i
    BY <1>2, <1>3
  <2>3. QED
    BY <2>2
<1>5. w # <<>> => n > 1 /\ Head(w) = s[2]
  <2>1. SUFFICES ASSUME w # <<>> PROVE n > 1 /\ Head(w) = s[2]
    OBVIOUS
  <2>2. w \in Seq(Moves) /\ Len(w) = n - 1
    BY <1>1, HeadTailProperties DEF n, w
  <2>3. n > 1 /\ Head(w) = w[1]
    BY <1>2, <2>1, <2>2
  <2>4. w[1] = s[1 + 1]
    BY <1>2, <2>3
  <2>5. QED
    BY <2>3, <2>4
<1>6. QED
  BY <1>1, <1>4, <1>5 DEF n, w

LEMMA PairedTail ==
    ASSUME NEW s \in Seq(Moves), s # <<>>, Paired(s)
    PROVE  /\ Paired(Tail(s))
           /\ Head(s).do = "push" => Tail(s) # <<>> /\ Head(Tail(s)) = On("add", Head(s).pipe)
           /\ Head(s).do = "add" => Tail(s) # <<>> /\ Head(Tail(s)) = On("notify", Head(s).pipe)
           /\ Head(s).do # "add" => NoNotify(Tail(s))
<1> DEFINE n == Len(s)  w == Tail(s)
<1>1. /\ n \in Nat \ {0} /\ Head(s) = s[1] /\ Len(w) = n - 1
      /\ \A i \in 1..n - 1 : w[i] = s[i + 1]
      /\ w # <<>> => n > 1 /\ Head(w) = s[2]
  BY TailAt
<1>2. \A i \in 1..n : /\ s[i].do = "push" => i < n /\ s[i + 1] = On("add", s[i].pipe)
                      /\ s[i].do = "add" => i < n /\ s[i + 1] = On("notify", s[i].pipe)
                      /\ s[i].do = "notify" /\ i > 1 => s[i - 1] = On("add", s[i].pipe)
  BY DEF Paired
<1>3. n > 1 => w # <<>>
  <2>1. Len(<<>>) = 0 /\ Len(w) = n - 1 /\ n \in Nat
    BY <1>1
  <2> HIDE DEF n, w
  <2>2. QED
    BY <2>1
<1>4. \A m \in Moves : m.do = "notify" => On("add", m.pipe).do = "add"
  BY MoveNames
<1>5. \A i \in 1..n : s[i] \in Moves
  OBVIOUS
<1> HIDE DEF n, w
<1>6. Paired(w)
  <2>1. SUFFICES ASSUME NEW i \in 1..n - 1
                 PROVE  /\ w[i].do = "push" => i < n - 1 /\ w[i + 1] = On("add", w[i].pipe)
                        /\ w[i].do = "add" => i < n - 1 /\ w[i + 1] = On("notify", w[i].pipe)
                        /\ w[i].do = "notify" /\ i > 1 => w[i - 1] = On("add", w[i].pipe)
    BY <1>1 DEF Paired
  <2>2. i + 1 \in 1..n /\ w[i] = s[i + 1]
    BY <1>1
  <2>3. i + 1 < n => i < n - 1 /\ w[i + 1] = s[(i + 1) + 1]
    <3>1. ASSUME i + 1 < n PROVE i < n - 1 /\ i + 1 \in 1..n - 1
      BY <1>1, <3>1
    <3>2. QED
      BY <1>1, <3>1
  <2>4. i > 1 => w[i - 1] = s[(i + 1) - 1]
    <3>1. ASSUME i > 1 PROVE i - 1 \in 1..n - 1 /\ (i - 1) + 1 = (i + 1) - 1
      BY <1>1, <3>1
    <3>2. QED
      BY <1>1, <3>1
  <2>5. i > 1 => i + 1 > 1
    BY <1>1
  <2>6. QED
    BY <1>2, <2>2, <2>3, <2>4, <2>5
<1>7. /\ Head(s).do = "push" => w # <<>> /\ Head(w) = On("add", Head(s).pipe)
      /\ Head(s).do = "add" => w # <<>> /\ Head(w) = On("notify", Head(s).pipe)
  <2>1. 1 \in 1..n
    BY <1>1
  <2>2. /\ s[1].do = "push" => 1 < n /\ s[1 + 1] = On("add", s[1].pipe)
        /\ s[1].do = "add" => 1 < n /\ s[1 + 1] = On("notify", s[1].pipe)
    BY <1>2, <2>1
  <2>3. QED
    BY <1>1, <1>3, <2>2
<1>8. Head(s).do # "add" => NoNotify(w)
  <2>1. SUFFICES ASSUME w # <<>>, Head(w).do = "notify" PROVE Head(s).do = "add"
    BY DEF NoNotify
  <2>2. 2 \in 1..n /\ s[2].do = "notify" /\ s[2 - 1] = On("add", s[2].pipe)
    <3>1. 2 \in 1..n /\ s[2].do = "notify"
      BY <1>1, <2>1
    <3>2. QED
      BY <1>2, <3>1
  <2>3. QED
    BY <1>1, <1>4, <1>5, <2>2
<1>9. QED
  BY <1>6, <1>7, <1>8 DEF w

LEMMA OwedTail ==
    ASSUME NEW t, NEW s \in Seq(Moves), s # <<>>, Head(s).do # "kick"
    PROVE  /\ Owed(t, s) => Owed(t, Tail(s))
           /\ Kicks(s) => Kicks(Tail(s))
<1> DEFINE n == Len(s)  w == Tail(s)
<1>1. /\ n \in Nat \ {0} /\ Head(s) = s[1] /\ Len(w) = n - 1
      /\ \A i \in 1..n - 1 : w[i] = s[i + 1]
      /\ \A i \in 2..n : i - 1 \in 1..n - 1 /\ w[i - 1] = s[i]
  BY TailAt
<1>2. \A i \in 1..n : s[i] = Do("kick") => i \in 2..n
  BY <1>1, MoveNames
<1>3. Owed(t, s) => Owed(t, w)
  <2> HIDE DEF n, w
  <2>1. SUFFICES ASSUME Owed(t, s), NEW p \in Pipes, NEW i \in 1..n - 1,
                        w[i] \in {On("add", p), On("notify", p)}, t \notin Writers(p)
                 PROVE  \E j \in 1..n - 1 : j < i /\ w[j] = Do("kick")
    BY <1>1 DEF Owed
  <2>2. i + 1 \in 1..n /\ s[i + 1] \in {On("add", p), On("notify", p)}
    BY <1>1, <2>1
  <2>3. PICK j \in 1..n : j < i + 1 /\ s[j] = Do("kick")
    BY <2>1, <2>2 DEF Owed, n
  <2>4. j \in 2..n
    BY <1>2, <2>3
  <2>5. j - 1 \in 1..n - 1 /\ w[j - 1] = Do("kick") /\ j - 1 < i
    BY <1>1, <2>3, <2>4, SMTT(30)
  <2>6. QED
    BY <2>5
<1>4. Kicks(s) => Kicks(w)
  <2> HIDE DEF n, w
  <2>1. SUFFICES ASSUME Kicks(s), NEW p \in Pipes
                 PROVE  \E i \in 1..n - 1, j \in 1..n - 1 : i < j /\ w[i] = Do("kick") /\ w[j] = On("add", p)
    BY <1>1 DEF Kicks
  <2>2. PICK i \in 1..n, j \in 1..n : i < j /\ s[i] = Do("kick") /\ s[j] = On("add", p)
    BY <2>1 DEF Kicks, n
  <2>3. i \in 2..n /\ j \in 2..n
    BY <1>1, <1>2, <2>2
  <2>4. i - 1 < j - 1 /\ i - 1 \in 1..n - 1 /\ j - 1 \in 1..n - 1
    BY <1>1, <2>2, <2>3
  <2>5. w[i - 1] = Do("kick") /\ w[j - 1] = On("add", p)
    BY <1>1, <2>2, <2>3
  <2>6. QED
    BY <2>4, <2>5
<1>5. QED
  BY <1>3, <1>4 DEF w

LEMMA WillAddTail ==
    ASSUME NEW s \in Seq(Moves), s # <<>>, NEW p \in Pipes
    PROVE  /\ WillAdd(Tail(s), p) => WillAdd(s, p)
           /\ Head(s) # On("add", p) /\ WillAdd(s, p) => WillAdd(Tail(s), p)
           /\ Head(s).do = "kick" /\ Kicks(s) => \A q \in Pipes : WillAdd(Tail(s), q)
<1> DEFINE n == Len(s)  w == Tail(s)
<1>1. /\ n \in Nat \ {0} /\ Head(s) = s[1] /\ Len(w) = n - 1
      /\ \A i \in 1..n - 1 : w[i] = s[i + 1]
      /\ \A i \in 2..n : i - 1 \in 1..n - 1 /\ w[i - 1] = s[i]
  BY TailAt
<1>2. WillAdd(w, p) => WillAdd(s, p)
  <2> HIDE DEF n, w
  <2>1. SUFFICES ASSUME NEW i \in 1..n - 1, w[i] = On("add", p) PROVE \E j \in 1..n : s[j] = On("add", p)
    BY <1>1 DEF WillAdd, n
  <2>2. i + 1 \in 1..n /\ s[i + 1] = On("add", p)
    BY <1>1, <2>1
  <2>3. QED
    BY <2>2
<1>3. \A i \in 2..n, q \in Pipes : s[i] = On("add", q) => WillAdd(w, q)
  <2> HIDE DEF n, w
  <2>1. SUFFICES ASSUME NEW i \in 2..n, NEW q \in Pipes, s[i] = On("add", q)
                 PROVE  \E j \in 1..n - 1 : w[j] = On("add", q)
    BY <1>1 DEF WillAdd
  <2>2. i - 1 \in 1..n - 1 /\ w[i - 1] = On("add", q)
    BY <1>1, <2>1
  <2>3. QED
    BY <2>2
<1>4. Head(s) # On("add", p) /\ WillAdd(s, p) => WillAdd(w, p)
  <2>1. SUFFICES ASSUME Head(s) # On("add", p), NEW i \in 1..n, s[i] = On("add", p) PROVE WillAdd(w, p)
    BY DEF WillAdd
  <2>2. i \in 2..n
    BY <1>1, <2>1
  <2>3. QED
    BY <1>3, <2>1, <2>2
<1>5. Kicks(s) => \A q \in Pipes : WillAdd(w, q)
  <2>1. SUFFICES ASSUME Kicks(s), NEW q \in Pipes PROVE WillAdd(w, q)
    OBVIOUS
  <2>2. PICK i \in 1..n, j \in 1..n : i < j /\ s[j] = On("add", q)
    BY <2>1 DEF Kicks
  <2>3. j \in 2..n
    BY <1>1, <2>2
  <2>4. QED
    BY <1>3, <2>2, <2>3
<1>6. QED
  BY <1>2, <1>4, <1>5 DEF w

-------------------------------------------------------------------------------
(* The sets of threads that the balance of a semaphore counts.                 *)
Heads(t, what, p) == todo[t] # <<>> /\ Head(todo[t]) = On(what, p)
Adding(p) == {t \in Threads : Heads(t, "add", p)}
Notifying(p) == {t \in Threads : Heads(t, "notify", p)}

\* The threads that are to leave, and those of them that have done their add.
Leaving == {t \in PumpThreads \cup Closers : pc[t] \in {"clear", "exit"}}
Through(p) == {t \in Leaving : ~WillAdd(todo[t], p)}

\* The threads whose next add is not the last of a Clear.
AddsToCome(p) == {t \in Adding(p) : t \in Leaving => WillAdd(Tail(todo[t]), p)}

Waiting(t) == pc[t] = "wait" \/ Asleep(t)

\* The steps threads are committed to have the shape of Signals, Writes and Clears.
Shapes == \A t \in Threads \ {"starter"} :
    /\ Paired(todo[t])
    /\ ~kicked => Owed(t, todo[t])
    /\ ~kicked /\ t \in Leaving => Kicks(todo[t])

\* What the count of a semaphore is worth.  Before the kick: a debt of at most one per
\* writer.  For a reader that waits, what it has missed: the packets in the pipe and,
\* after the kick, one add of each Clear.
Debt(p) == LET count == sem[p].count  W == Cardinality(Writers(p)) IN
    /\ ~kicked => count >= Cardinality(Notifying(p)) + Cardinality(sem[p].woken) - W
    /\ ~kicked /\ Waiting(Reader(p)) => Len(pipe[p]) <= count + Cardinality(Adding(p)) + W
    /\ Asleep(Reader(p)) => count <= Cardinality(Notifying(p))
    /\ kicked /\ Waiting(Reader(p)) =>
          Len(pipe[p]) + Cardinality(Through(p)) <= count + Cardinality(AddsToCome(p)) + W

Debts == \A p \in Pipes : Debt(p)

LEMMA ThreadsFinite ==
    /\ IsFiniteSet(Threads)
    /\ \A S \in SUBSET Threads : IsFiniteSet(S) /\ Cardinality(S) \in Nat
<1>1. /\ IsFiniteSet({}) /\ IsFiniteSet({"output"}) /\ IsFiniteSet({"output", "input"})
      /\ IsFiniteSet({"output", "input", "user"}) /\ IsFiniteSet({"output", "input", "user", "starter"})
  <2>1. IsFiniteSet({})
    BY FS_EmptySet
  <2>2. IsFiniteSet({} \cup {"output"}) /\ {} \cup {"output"} = {"output"}
    BY <2>1, FS_AddElement
  <2>3. IsFiniteSet({"output"} \cup {"input"}) /\ {"output"} \cup {"input"} = {"output", "input"}
    BY <2>2, FS_AddElement
  <2>4. IsFiniteSet({"output", "input"} \cup {"user"})
        /\ {"output", "input"} \cup {"user"} = {"output", "input", "user"}
    BY <2>3, FS_AddElement
  <2>5. IsFiniteSet({"output", "input", "user"} \cup {"starter"})
        /\ {"output", "input", "user"} \cup {"starter"} = {"output", "input", "user", "starter"}
    BY <2>4, FS_AddElement
  <2>6. QED
    BY <2>1, <2>2, <2>3, <2>4, <2>5
<1>2. IsFiniteSet(Users)
  BY TransportAssumption, FS_Union DEF Users
<1>3. IsFiniteSet({"output", "input", "user", "starter"} \cup Users)
  BY <1>1, <1>2, FS_Union
<1>4. Threads = {"output", "input", "user", "starter"} \cup Users
  BY DEF Threads, PumpThreads
<1>5. QED
  BY <1>3, <1>4, FS_Subset, FS_CardinalityType

LEMMA WritersFinite ==
    ASSUME NEW p \in Pipes
    PROVE  Writers(p) \subseteq Threads /\ IsFiniteSet(Writers(p)) /\ Cardinality(Writers(p)) \in Nat
<1>1. Writers(p) \subseteq Threads
  BY ThreadFacts DEF Writers, PumpThreads
<1>2. QED
  BY <1>1, ThreadsFinite

LEMMA CountedSets ==
    ASSUME NEW p \in Pipes
    PROVE  /\ Adding(p) \subseteq Threads /\ Notifying(p) \subseteq Threads /\ Through(p) \subseteq Threads
           /\ AddsToCome(p) \subseteq Threads /\ Cardinality(AddsToCome(p)) \in Nat
           /\ Cardinality(Adding(p)) \in Nat /\ Cardinality(Notifying(p)) \in Nat
           /\ Cardinality(Through(p)) \in Nat
<1>1. AddsToCome(p) \subseteq Threads /\ Adding(p) \subseteq Threads
        /\ Notifying(p) \subseteq Threads /\ Through(p) \subseteq Threads
  BY ThreadFacts DEF Adding, Notifying, Through, Leaving, AddsToCome
<1>2. QED
  BY <1>1, ThreadsFinite

LEMMA CountedSetsNext ==
    ASSUME NEW p \in Pipes
    PROVE  /\ Adding(p)' \subseteq Threads /\ Notifying(p)' \subseteq Threads /\ Through(p)' \subseteq Threads
           /\ AddsToCome(p)' \subseteq Threads /\ Cardinality(AddsToCome(p)') \in Nat
           /\ Cardinality(Adding(p)') \in Nat /\ Cardinality(Notifying(p)') \in Nat
           /\ Cardinality(Through(p)') \in Nat
<1>1. AddsToCome(p)' \subseteq Threads /\ Adding(p)' \subseteq Threads
        /\ Notifying(p)' \subseteq Threads /\ Through(p)' \subseteq Threads
  BY ThreadFacts DEF Adding, Notifying, Through, Leaving, AddsToCome
<1>2. QED
  BY <1>1, ThreadsFinite

\* A set of threads that loses or gains one.
LEMMA OneLess ==
    ASSUME NEW S \in SUBSET Threads, NEW t \in S
    PROVE  /\ Cardinality(S \ {t}) = Cardinality(S) - 1 /\ Cardinality(S) \in Nat
           /\ Cardinality(S \ {t}) \in Nat
  BY ThreadsFinite, FS_RemoveElement

LEMMA OneMore ==
    ASSUME NEW S \in SUBSET Threads, NEW t \in Threads \ S
    PROVE  /\ Cardinality(S \cup {t}) = Cardinality(S) + 1 /\ Cardinality(S) \in Nat
  BY ThreadsFinite, FS_AddElement

LEMMA FewerThreads ==
    ASSUME NEW S \in SUBSET Threads, NEW T \in SUBSET S
    PROVE  Cardinality(T) <= Cardinality(S)
  BY ThreadsFinite, FS_Subset

LEMMA WokenReader ==
    ASSUME TypeInv, NEW p \in Pipes
    PROVE  /\ sem[p].count \in Int /\ IsFiniteSet(sem[p].woken)
           /\ sem[p].woken = {} \/ sem[p].woken = {Reader(p)}
           /\ Cardinality(sem[p].woken) = IF sem[p].woken = {} THEN 0 ELSE 1
           /\ sem[p].woken = {Reader(p)} => pc[Reader(p)] = "blocked"
           /\ pc[Reader(p)] = "blocked" <=> Reader(p) \in sem[p].blocked \cup sem[p].woken
           /\ sem[p].blocked \cap sem[p].woken = {}
           /\ sem[p].blocked \subseteq {Reader(p)}
<1>1. /\ sem[p] \in SemType({Reader(p)}) /\ sem[p].blocked \cap sem[p].woken = {}
      /\ Reader(p) \in sem[p].blocked \cup sem[p].woken <=> pc[Reader(p)] = "blocked"
  BY DEF TypeInv, Semaphores
<1>2. sem[p].count \in Int /\ sem[p].blocked \subseteq {Reader(p)} /\ sem[p].woken \subseteq {Reader(p)}
  BY <1>1, Sem1
<1>3. sem[p].woken = {} \/ sem[p].woken = {Reader(p)}
  BY <1>2
<1>4. /\ IsFiniteSet({}) /\ Cardinality({}) = 0
      /\ IsFiniteSet({Reader(p)}) /\ Cardinality({Reader(p)}) = 1
  BY FS_EmptySet, FS_Singleton
<1>5. QED
  BY <1>1, <1>2, <1>3, <1>4

LEMMA ReaderNames ==
    ASSUME NEW p \in Pipes
    PROVE  /\ Reader(p) \in {"input", "user"} /\ Source(Reader(p)) = p
           /\ Reader(p) \in PumpThreads /\ Reader(p) \in Threads
           /\ \A q \in Pipes \ {p} : Reader(q) # Reader(p)
  BY ThreadFacts DEF Pipes, Reader, Source, PumpThreads

-------------------------------------------------------------------------------
(* A thread does the first step it is committed to.                            *)
LEMMA ReaderLabels ==
    ASSUME TypeInv, NEW t \in Threads \ {"starter"}
    PROVE  todo[t] \in Seq(Moves) /\ DOMAIN todo = Threads /\ DOMAIN pc = Threads
  BY DEF TypeInv, Places

LEMMA OthersCounted ==
    ASSUME NEW t \in Threads, NEW p \in Pipes,
           \A u \in Threads \ {t} : pc'[u] = pc[u] /\ todo'[u] = todo[u]
    PROVE  \A u \in Threads \ {t} : /\ u \in Adding(p)' <=> u \in Adding(p)
                                    /\ u \in Notifying(p)' <=> u \in Notifying(p)
                                    /\ u \in Leaving' <=> u \in Leaving
                                    /\ u \in Through(p)' <=> u \in Through(p)
                                    /\ u \in AddsToCome(p)' <=> u \in AddsToCome(p)
<1>1. SUFFICES ASSUME NEW u \in Threads \ {t}
               PROVE  /\ u \in Adding(p)' <=> u \in Adding(p)
                      /\ u \in Notifying(p)' <=> u \in Notifying(p)
                      /\ u \in Leaving' <=> u \in Leaving
                      /\ u \in Through(p)' <=> u \in Through(p)
                      /\ u \in AddsToCome(p)' <=> u \in AddsToCome(p)
  OBVIOUS
<1>2. pc'[u] = pc[u] /\ todo'[u] = todo[u]
  BY <1>1
<1>3. u \in Adding(p)' <=> u \in Adding(p)
  BY <1>2 DEF Adding, Heads
<1>4. u \in Notifying(p)' <=> u \in Notifying(p)
  BY <1>2 DEF Notifying, Heads
<1>5. u \in Leaving' <=> u \in Leaving
  BY <1>2 DEF Leaving
<1>6. u \in Through(p)' <=> u \in Through(p)
  BY <1>2, <1>5 DEF Through
<1>7. u \in AddsToCome(p)' <=> u \in AddsToCome(p)
  BY <1>2, <1>3, <1>5 DEF AddsToCome
<1>8. QED
  BY <1>3, <1>4, <1>5, <1>6, <1>7

Drops(t, what) ==
    /\ Committed(t, what) /\ Drop(t)
    /\ \A u \in Threads \ {t} : pc'[u] = pc[u]
    /\ pc'[t] = pc[t] \/ (pc[t] = "clear" /\ pc'[t] = "exit")

LEMMA DropGoes ==
    ASSUME TypeInv, NEW t \in Threads, NEW what \in {"push", "add", "notify", "kick"}, Drops(t, what)
    PROVE  /\ t \in Threads \ {"starter"} /\ todo'[t] = Tail(todo[t])
           /\ todo[t] \in Seq(Moves) /\ todo[t] # <<>> /\ Head(todo[t]) \in Moves /\ Head(todo[t]).do = what
           /\ what # "kick" => Head(todo[t]).pipe \in Pipes
           /\ \A u \in Threads \ {t} : pc'[u] = pc[u] /\ todo'[u] = todo[u]
           /\ Leaving' = Leaving
<1>1. /\ t \in Threads \ {"starter"} /\ Head(todo[t]) \in Moves /\ Head(todo[t]).do = what
      /\ what # "kick" => Head(todo[t]).pipe \in Pipes
  BY Committing DEF Drops
<1>2. todo[t] \in Seq(Moves) /\ DOMAIN todo = Threads /\ todo[t] # <<>>
  BY <1>1, ReaderLabels DEF Drops, Committed
<1>3. todo'[t] = Tail(todo[t]) /\ \A u \in Threads \ {t} : pc'[u] = pc[u] /\ todo'[u] = todo[u]
  BY <1>2 DEF Drops, Drop
<1>4. \A u \in PumpThreads \cup Closers : pc'[u] \in {"clear", "exit"} <=> pc[u] \in {"clear", "exit"}
  BY <1>3, ThreadFacts DEF Drops
<1>5. Leaving' = Leaving
  BY <1>4 DEF Leaving
<1>6. QED
  BY <1>1, <1>2, <1>3, <1>5

LEMMA DropShapes ==
    ASSUME TypeInv, Shapes, NEW t \in Threads, NEW what \in {"push", "add", "notify", "kick"}, Drops(t, what),
           ~kicked' => ~kicked /\ what # "kick"
    PROVE  Shapes'
<1>1. /\ t \in Threads \ {"starter"} /\ todo'[t] = Tail(todo[t])
      /\ todo[t] \in Seq(Moves) /\ todo[t] # <<>> /\ Head(todo[t]).do = what
      /\ \A u \in Threads \ {t} : pc'[u] = pc[u] /\ todo'[u] = todo[u]
      /\ Leaving' = Leaving
  BY DropGoes
<1>2. SUFFICES ASSUME NEW u \in Threads \ {"starter"}
               PROVE  /\ Paired(todo'[u])
                      /\ ~kicked' => Owed(u, todo'[u])
                      /\ ~kicked' /\ u \in Leaving' => Kicks(todo'[u])
  BY DEF Shapes, Owed, Writers
<1>3. /\ Paired(todo[u])
      /\ ~kicked => Owed(u, todo[u])
      /\ ~kicked /\ u \in Leaving => Kicks(todo[u])
  BY DEF Shapes
<1>4. CASE u # t
  BY <1>1, <1>3, <1>4
<1>5. CASE u = t
  <2>1. Paired(Tail(todo[t]))
    BY <1>1, <1>3, <1>5, PairedTail
  <2>2. ASSUME ~kicked'
        PROVE  Owed(t, Tail(todo[t])) /\ (t \in Leaving' => Kicks(Tail(todo[t])))
    <3>1. ~kicked /\ what # "kick"
      BY <2>2
    <3>2. Owed(t, todo[t]) /\ (t \in Leaving => Kicks(todo[t]))
      BY <1>3, <1>5, <3>1
    <3>3. QED
      BY <1>1, <3>1, <3>2, OwedTail
  <2>3. QED
    BY <1>1, <1>5, <2>1, <2>2
<1>6. QED
  BY <1>4, <1>5

\* Two sets of threads that agree on all threads but t, which is in neither.
LEMMA SameBut ==
    ASSUME NEW A, NEW B, NEW t, A \subseteq Threads, B \subseteq Threads, t \notin A, t \notin B,
           \A u \in Threads \ {t} : u \in B <=> u \in A
    PROVE  B = A
<1>1. SUFFICES ASSUME NEW u PROVE u \in B <=> u \in A
  OBVIOUS
<1>2. CASE u = t
  BY <1>2
<1>3. CASE u # t
  BY <1>3
<1>4. QED
  BY <1>2, <1>3

LEMMA MoreBut ==
    ASSUME NEW A, NEW B, NEW t, A \subseteq Threads, t \notin A,
           \A u \in Threads \ {t} : u \in B <=> u \in A
    PROVE  A \subseteq B
  OBVIOUS

\* What each kind of step does to the sets.
LEMMA DropCounts ==
    ASSUME TypeInv, Shapes, NEW t \in Threads, NEW what \in {"push", "add", "notify", "kick"}, Drops(t, what),
           NEW p \in Pipes
    PROVE  LET head == Head(todo[t]) IN
           /\ head # On("add", p) => Adding(p) \subseteq Adding(p)'
                /\ AddsToCome(p) \subseteq AddsToCome(p)' /\ Through(p)' = Through(p)
                                     /\ t \notin Adding(p)
           /\ head # On("add", p) /\ head # On("notify", p) => Notifying(p)' = Notifying(p)
           /\ what = "push" /\ head.pipe = p => t \in Adding(p)'
           /\ head = On("add", p) => /\ t \in Adding(p) /\ Adding(p)' = Adding(p) \ {t}
                                     /\ t \notin Notifying(p) /\ Notifying(p)' = Notifying(p) \cup {t}
                                     /\ t \in AddsToCome(p) => /\ AddsToCome(p)' = AddsToCome(p) \ {t}
                                                           /\ Through(p)' = Through(p)
                                     /\ t \notin AddsToCome(p) => /\ AddsToCome(p)' = AddsToCome(p)
                                                              /\ Through(p)' \subseteq Through(p) \cup {t}
           /\ head = On("notify", p) => t \in Notifying(p) /\ Notifying(p)' = Notifying(p) \ {t}
<1> DEFINE head == Head(todo[t])
<1>1. /\ t \in Threads \ {"starter"} /\ todo'[t] = Tail(todo[t])
      /\ todo[t] \in Seq(Moves) /\ todo[t] # <<>> /\ head \in Moves /\ head.do = what
      /\ what # "kick" => head.pipe \in Pipes
      /\ \A u \in Threads \ {t} : pc'[u] = pc[u] /\ todo'[u] = todo[u]
      /\ Leaving' = Leaving
  BY DropGoes
<1>2. \A u \in Threads \ {t} : /\ u \in Adding(p)' <=> u \in Adding(p)
                               /\ u \in Notifying(p)' <=> u \in Notifying(p)
                               /\ u \in Leaving' <=> u \in Leaving
                               /\ u \in Through(p)' <=> u \in Through(p)
                               /\ u \in AddsToCome(p)' <=> u \in AddsToCome(p)
  BY <1>1, OthersCounted
<1>3. AddsToCome(p) \subseteq Threads /\ AddsToCome(p)' \subseteq Threads
        /\ Adding(p) \subseteq Threads /\ Notifying(p) \subseteq Threads /\ Through(p) \subseteq Threads
      /\ Adding(p)' \subseteq Threads /\ Notifying(p)' \subseteq Threads /\ Through(p)' \subseteq Threads
  BY CountedSets, CountedSetsNext
<1>4. /\ t \in Adding(p) <=> head = On("add", p)
      /\ t \in Notifying(p) <=> head = On("notify", p)
  BY <1>1 DEF Adding, Notifying, Heads
<1>5. /\ t \in Adding(p)' <=> todo'[t] # <<>> /\ Head(todo'[t]) = On("add", p)
      /\ t \in Notifying(p)' <=> todo'[t] # <<>> /\ Head(todo'[t]) = On("notify", p)
  BY DEF Adding, Notifying, Heads
<1>6. /\ head.do = "push" => todo'[t] # <<>> /\ Head(todo'[t]) = On("add", head.pipe)
      /\ head.do = "add" => todo'[t] # <<>> /\ Head(todo'[t]) = On("notify", head.pipe)
      /\ head.do # "add" => NoNotify(todo'[t])
  BY <1>1, PairedTail DEF Shapes
<1>7. /\ t \in Through(p)' <=> t \in Leaving /\ ~WillAdd(Tail(todo[t]), p)
      /\ t \in Through(p) <=> t \in Leaving /\ ~WillAdd(todo[t], p)
  BY <1>1 DEF Through
<1>8. head # On("add", p) => (t \in Through(p)' <=> t \in Through(p))
  BY <1>1, <1>7, WillAddTail
<1>9. head # On("add", p) => /\ Adding(p) \subseteq Adding(p)' /\ AddsToCome(p) \subseteq AddsToCome(p)'
                             /\ Through(p)' = Through(p) /\ t \notin Adding(p)
  <2>1. ASSUME head # On("add", p)
        PROVE  t \notin Adding(p) /\ t \notin AddsToCome(p) /\ (t \in Through(p)' <=> t \in Through(p))
    BY <1>4, <1>8, <2>1 DEF AddsToCome
  <2>2. ASSUME head # On("add", p) PROVE Adding(p) \subseteq Adding(p)' /\ AddsToCome(p) \subseteq AddsToCome(p)'
    BY <1>2, <1>3, <2>1, <2>2, MoreBut
  <2>3. ASSUME head # On("add", p) PROVE Through(p)' = Through(p)
    BY <1>2, <1>3, <2>1, <2>3, SMTT(30)
  <2>4. QED
    BY <2>1, <2>2, <2>3
<1>10. head # On("add", p) /\ head # On("notify", p) => Notifying(p)' = Notifying(p)
  <2>1. ASSUME head # On("add", p), head # On("notify", p) PROVE t \notin Notifying(p)'
    <3>1. CASE what = "add"
      <4>1. head = On("add", head.pipe) /\ head.pipe \in Pipes
        BY <1>1, <3>1, MoveNames
      <4>2. head.pipe # p
        BY <2>1, <4>1
      <4>3. Head(todo'[t]) = On("notify", head.pipe)
        BY <1>1, <1>6, <3>1
      <4>4. QED
        BY <1>5, <4>1, <4>2, <4>3, MoveNames
    <3>2. CASE what # "add"
      BY <1>1, <1>5, <1>6, <3>2, MoveNames DEF NoNotify
    <3>3. QED
      BY <3>1, <3>2
  <2>2. QED
    BY <1>2, <1>3, <1>4, <2>1
<1>11. what = "push" /\ head.pipe = p => t \in Adding(p)'
  BY <1>1, <1>5, <1>6
<1>12. ASSUME head = On("add", p)
       PROVE  /\ t \in Adding(p) /\ Adding(p)' = Adding(p) \ {t}
              /\ t \notin Notifying(p) /\ Notifying(p)' = Notifying(p) \cup {t}
              /\ t \in AddsToCome(p) => AddsToCome(p)' = AddsToCome(p) \ {t} /\ Through(p)' = Through(p)
              /\ t \notin AddsToCome(p) => AddsToCome(p)' = AddsToCome(p) /\ Through(p)' \subseteq Through(p) \cup {t}
  <2>1. t \in Adding(p) /\ t \notin Adding(p)' /\ t \notin Notifying(p) /\ t \in Notifying(p)'
    <3>1. head.do = "add" /\ head.pipe = p
      BY <1>12, MoveNames
    <3>2. todo'[t] # <<>> /\ Head(todo'[t]) = On("notify", p)
      BY <1>6, <3>1
    <3>3. QED
      BY <1>4, <1>5, <1>12, <3>2, MoveNames
  <2>2. t \notin AddsToCome(p)' /\ t \notin Through(p)
    <3>1. 1 \in 1..Len(todo[t]) /\ todo[t][1] = On("add", p)
      BY <1>1, <1>12, TailAt
    <3>2. WillAdd(todo[t], p)
      BY <3>1 DEF WillAdd
    <3>3. QED
      BY <1>7, <2>1, <3>2 DEF AddsToCome
  <2>3. t \in AddsToCome(p) => t \notin Through(p)'
    BY <1>7, <2>1 DEF AddsToCome
  <2>4. t \in AddsToCome(p) => AddsToCome(p)' = AddsToCome(p) \ {t} /\ Through(p)' = Through(p)
    <3>1. AddsToCome(p)' = AddsToCome(p) \ {t}
      BY <1>2, <1>3, <2>2
    <3>2. t \in AddsToCome(p) => Through(p)' = Through(p)
      BY <1>2, <1>3, <2>2, <2>3, SameBut
    <3>3. QED
      BY <3>1, <3>2
  <2>5. t \notin AddsToCome(p) => AddsToCome(p)' = AddsToCome(p)
    BY <1>2, <1>3, <2>2, SameBut
  <2>6. Through(p)' \subseteq Through(p) \cup {t}
    BY <1>2, <1>3
  <2>7. /\ Adding(p)' = Adding(p) \ {t}
        /\ Notifying(p)' = Notifying(p) \cup {t}
    BY <1>2, <1>3, <2>1
  <2>8. QED
    BY <2>1, <2>4, <2>5, <2>6, <2>7
<1>13. head = On("notify", p) => t \in Notifying(p) /\ Notifying(p)' = Notifying(p) \ {t}
  <2>1. ASSUME head = On("notify", p) PROVE t \in Notifying(p) /\ t \notin Notifying(p)'
    <3>1. head.do = "notify"
      BY <2>1, MoveNames
    <3>2. NoNotify(todo'[t])
      BY <1>6, <3>1
    <3>3. QED
      BY <1>4, <1>5, <2>1, <3>2, MoveNames DEF NoNotify
  <2>2. QED
    BY <1>2, <1>3, <2>1
<1>14. QED
  BY <1>9, <1>10, <1>11, <1>12, <1>13

-------------------------------------------------------------------------------
(* The balance of one semaphore, effect by effect.                             *)
LEMMA PipeLengths ==
    ASSUME TypeInv, NEW p \in Pipes
    PROVE  pipe[p] \in Seq(Packets) /\ Len(pipe[p]) \in Nat
  BY DEF TypeInv

\* What the balance counts is numbers.
LEMMA Numbers ==
    ASSUME TypeInv, NEW p \in Pipes
    PROVE  /\ sem[p].count \in Int /\ Cardinality(Notifying(p)) \in Nat /\ Cardinality(Adding(p)) \in Nat
           /\ Cardinality(Through(p)) \in Nat /\ Cardinality(Writers(p)) \in Nat
           /\ Cardinality(sem[p].woken) \in Nat /\ Len(pipe[p]) \in Nat
           /\ Cardinality(AddsToCome(p)) \in Nat /\ Cardinality(AddsToCome(p)') \in Nat
           /\ Cardinality(Notifying(p)') \in Nat /\ Cardinality(Adding(p)') \in Nat
           /\ Cardinality(Through(p)') \in Nat
<1>1. Cardinality(sem[p].woken) \in Nat
  BY WokenReader, FS_CardinalityType
<1>2. QED
  BY <1>1, WokenReader, CountedSets, CountedSetsNext, WritersFinite, PipeLengths

\* The balance in numbers.
Figures(p, c, n, w, l, a, e, k) ==
    /\ c = sem[p].count /\ n = Cardinality(Notifying(p)) /\ w = Cardinality(sem[p].woken)
    /\ l = Len(pipe[p]) /\ a = Cardinality(Adding(p))
    /\ e = Cardinality(AddsToCome(p)) /\ k = Cardinality(Through(p))

Balanced(p, c, n, w, l, a, e, k, W) ==
    /\ ~kicked => c >= n + w - W
    /\ ~kicked /\ Waiting(Reader(p)) => l <= c + a + W
    /\ Asleep(Reader(p)) => c <= n
    /\ kicked /\ Waiting(Reader(p)) => l + k <= c + e + W

LEMMA DebtNow ==
    ASSUME TypeInv, NEW p \in Pipes, Debt(p)
    PROVE  \E c \in Int, n \in Nat, w \in Nat, l \in Nat, a \in Nat, e \in Nat, k \in Nat, W \in Nat :
              Figures(p, c, n, w, l, a, e, k) /\ W = Cardinality(Writers(p))
              /\ Balanced(p, c, n, w, l, a, e, k, W)
<1>1. PICK c \in Int, n \in Nat, w \in Nat, l \in Nat, a \in Nat, e \in Nat, k \in Nat, W \in Nat :
          Figures(p, c, n, w, l, a, e, k) /\ W = Cardinality(Writers(p))
  BY Numbers DEF Figures
<1>2. Balanced(p, c, n, w, l, a, e, k, W)
  BY <1>1, Zenon DEF Balanced, Debt, Figures
<1>3. QED
  BY <1>1, <1>2

LEMMA DebtNext ==
    ASSUME NEW p \in Pipes, NEW c \in Int, NEW n \in Nat, NEW w \in Nat, NEW l \in Nat, NEW a \in Nat,
           NEW e \in Nat, NEW k \in Nat, NEW W \in Nat, W = Cardinality(Writers(p)),
           Figures(p, c, n, w, l, a, e, k)', Balanced(p, c, n, w, l, a, e, k, W)'
    PROVE  Debt(p)'
<1>1. Writers(p)' = Writers(p)
  BY DEF Writers
<1>2. QED
  BY <1>1, Zenon DEF Balanced, Debt, Figures

\* Nothing happens to the semaphore; threads may come to an add, and a reader may go on.
LEMMA DebtIdle ==
    ASSUME TypeInv, NEW p \in Pipes, Debt(p), UNCHANGED kicked, sem'[p] = sem[p],
           Notifying(p)' = Notifying(p), Adding(p) \subseteq Adding(p)'
             /\ AddsToCome(p) \subseteq AddsToCome(p)', Len(pipe'[p]) \in Nat,
           Len(pipe'[p]) <= Len(pipe[p]), kicked => Through(p)' = Through(p),
           pc'[Reader(p)] \in {"wait", "blocked"} => pc'[Reader(p)] = pc[Reader(p)]
    PROVE  Debt(p)'
<1>1. /\ Waiting(Reader(p))' => Waiting(Reader(p))
      /\ Asleep(Reader(p))' => Asleep(Reader(p))
  BY ReaderNames DEF Waiting, Asleep
<1>2. PICK c \in Int, n \in Nat, w \in Nat, l \in Nat, a \in Nat, e \in Nat, k \in Nat, W \in Nat :
          Figures(p, c, n, w, l, a, e, k) /\ W = Cardinality(Writers(p)) /\ Balanced(p, c, n, w, l, a, e, k, W)
  BY DebtNow
<1>3. PICK b \in Nat, d \in Nat, m \in Nat, h \in Nat :
          /\ b = Cardinality(Adding(p)') /\ d = Cardinality(AddsToCome(p)')
          /\ m = Len(pipe'[p]) /\ h = Cardinality(Through(p)')
  BY Numbers
<1>4. a <= b /\ e <= d
  BY <1>2, <1>3, CountedSetsNext, FewerThreads DEF Figures
<1>5. m <= l /\ (kicked => h = k)
  BY <1>2, <1>3 DEF Figures
<1>6. Figures(p, c, n, w, m, b, d, h)'
  BY <1>2, <1>3 DEF Figures
<1>7. Balanced(p, c, n, w, m, b, d, h, W)'
  <2>1. l <= c + a + W => m <= c + b + W
    BY <1>4, <1>5
  <2>2. h = k /\ l + k <= c + e + W => m + h <= c + d + W
    BY <1>4, <1>5
  <2>3. QED
    BY <1>1, <1>2, <1>5, <2>1, <2>2 DEF Balanced
<1>8. QED
  BY <1>2, <1>6, <1>7, DebtNext

\* A packet is pushed, and its add is to come.
LEMMA DebtPush ==
    ASSUME TypeInv, NEW p \in Pipes, Debt(p), UNCHANGED <<kicked, pc>>, sem'[p] = sem[p],
           Notifying(p)' = Notifying(p), Adding(p) \subseteq Adding(p)' /\ AddsToCome(p) \subseteq AddsToCome(p)',
           NEW t \in Adding(p)', t \notin Adding(p), Len(pipe'[p]) \in Nat,
           Len(pipe'[p]) <= Len(pipe[p]) + 1,
           kicked => Through(p)' = Through(p) /\ Len(pipe'[p]) <= Len(pipe[p])
    PROVE  Debt(p)'
<1>1. /\ Waiting(Reader(p))' => Waiting(Reader(p))
      /\ Asleep(Reader(p))' => Asleep(Reader(p))
  BY ReaderNames DEF Waiting, Asleep
<1>2. PICK c \in Int, n \in Nat, w \in Nat, l \in Nat, a \in Nat, e \in Nat, k \in Nat, W \in Nat :
          Figures(p, c, n, w, l, a, e, k) /\ W = Cardinality(Writers(p)) /\ Balanced(p, c, n, w, l, a, e, k, W)
  BY DebtNow
<1>3. PICK b \in Nat, d \in Nat, m \in Nat, h \in Nat :
          /\ b = Cardinality(Adding(p)') /\ d = Cardinality(AddsToCome(p)')
          /\ m = Len(pipe'[p]) /\ h = Cardinality(Through(p)')
  BY Numbers
<1>4. a + 1 <= b
  <2>1. Adding(p) \cup {t} \subseteq Adding(p)' /\ t \in Threads \ Adding(p)
    BY CountedSetsNext
  <2>2. /\ Cardinality(Adding(p) \cup {t}) = Cardinality(Adding(p)) + 1
        /\ Cardinality(Adding(p) \cup {t}) <= Cardinality(Adding(p)')
    BY <2>1, CountedSets, CountedSetsNext, OneMore, FewerThreads
  <2>3. QED
    BY <1>2, <1>3, <2>2 DEF Figures
<1>5. m <= l + 1
  BY <1>2, <1>3 DEF Figures
<1>6. kicked => h = k /\ m <= l
  BY <1>2, <1>3 DEF Figures
<1>7. e <= d
  BY <1>2, <1>3, CountedSetsNext, FewerThreads DEF Figures
<1>8. Figures(p, c, n, w, m, b, d, h)'
  BY <1>2, <1>3 DEF Figures
<1>9. Balanced(p, c, n, w, m, b, d, h, W)'
  <2>1. l <= c + a + W => m <= c + b + W
    BY <1>4, <1>5
  <2>2. h = k /\ m <= l /\ l + k <= c + e + W => m + h <= c + d + W
    BY <1>7
  <2>3. QED
    BY <1>1, <1>2, <1>6, <2>1, <2>2 DEF Balanced
<1>10. QED
  BY <1>2, <1>3, <1>8, <1>9, DebtNext

\* An add, which commits the thread to its notify.
LEMMA DebtAdd ==
    ASSUME TypeInv, NEW p \in Pipes, Debt(p), UNCHANGED <<kicked, pc, pipe>>,
           sem'[p] = Raised(sem[p], 1), NEW t \in Adding(p), t \notin Notifying(p),
           Notifying(p)' = Notifying(p) \cup {t}, Adding(p)' = Adding(p) \ {t},
           t \in AddsToCome(p) => AddsToCome(p)' = AddsToCome(p) \ {t} /\ Through(p)' = Through(p),
           t \notin AddsToCome(p) => AddsToCome(p)' = AddsToCome(p) /\ Through(p)' \subseteq Through(p) \cup {t}
    PROVE  Debt(p)'
<1>1. sem'[p].count = sem[p].count + 1 /\ sem'[p].woken = sem[p].woken
  BY DEF Raised, TypeInv, Semaphores, SemType
<1>2. t \in Threads
  BY CountedSets
<1>3. /\ Waiting(Reader(p))' => Waiting(Reader(p))
      /\ Asleep(Reader(p))' => Asleep(Reader(p))
  BY <1>1, ReaderNames DEF Waiting, Asleep
<1>4. PICK c \in Int, n \in Nat, w \in Nat, l \in Nat, a \in Nat, e \in Nat, k \in Nat, W \in Nat :
          Figures(p, c, n, w, l, a, e, k) /\ W = Cardinality(Writers(p)) /\ Balanced(p, c, n, w, l, a, e, k, W)
  BY DebtNow
<1>5. PICK h \in Nat : h = Cardinality(Through(p)')
  BY Numbers
<1>6. Cardinality(Notifying(p)') = n + 1
  BY <1>2, <1>4, CountedSets, OneMore DEF Figures
<1>7. Cardinality(Adding(p)') = a - 1 /\ a - 1 \in Nat
  BY <1>4, CountedSets, OneLess DEF Figures
<1>8. PICK d \in Nat : d = Cardinality(AddsToCome(p)') /\ h - d <= k - e + 1
  <2>1. PICK d \in Nat : d = Cardinality(AddsToCome(p)')
    BY Numbers
  <2>2. CASE t \in AddsToCome(p)
    <3>1. Cardinality(AddsToCome(p) \ {t}) = Cardinality(AddsToCome(p)) - 1
      BY <2>2, CountedSets, OneLess
    <3>2. d = e - 1 /\ h = k
      BY <1>4, <1>5, <2>1, <2>2, <3>1 DEF Figures
    <3>3. QED
      BY <2>1, <3>2
  <2>3. CASE t \notin AddsToCome(p)
    <3>1. Through(p) \subseteq Threads /\ Through(p) \cup {t} \subseteq Threads
      BY <1>2, CountedSets
    <3>2. PICK m \in Nat : m = Cardinality(Through(p) \cup {t})
      BY <3>1, ThreadsFinite
    <3>3. h <= m
      BY <1>5, <2>3, <3>1, <3>2, FewerThreads
    <3>4. m <= k + 1
      <4>1. CASE t \in Through(p)
        <5>1. Through(p) \cup {t} = Through(p)
          BY <4>1
        <5>2. m = k
          BY <1>4, <3>2, <5>1 DEF Figures
        <5>3. QED
          BY <5>2
      <4>2. CASE t \notin Through(p)
        <5>1. Cardinality(Through(p) \cup {t}) = Cardinality(Through(p)) + 1
          BY <1>2, <3>1, <4>2, OneMore
        <5>2. QED
          BY <1>4, <3>2, <5>1 DEF Figures
      <4>3. QED
        BY <4>1, <4>2
    <3>5. d = e
      BY <1>4, <2>1, <2>3 DEF Figures
    <3>6. QED
      BY <2>1, <3>3, <3>4, <3>5
  <2>4. QED
    BY <2>2, <2>3
<1>9. Figures(p, c + 1, n + 1, w, l, a - 1, d, h)'
  BY <1>1, <1>4, <1>5, <1>6, <1>7, <1>8 DEF Figures
<1>10. Balanced(p, c + 1, n + 1, w, l, a - 1, d, h, W)'
  <2>1. /\ c >= n + w - W => c + 1 >= n + 1 + w - W
        /\ l <= c + a + W => l <= c + 1 + (a - 1) + W
        /\ c <= n => c + 1 <= n + 1
        /\ l + k <= c + e + W => l + h <= c + 1 + d + W
    BY <1>8
  <2>2. QED
    BY <1>3, <1>4, <2>1 DEF Balanced
<1>11. c + 1 \in Int /\ n + 1 \in Nat
  OBVIOUS
<1>12. QED
  BY <1>4, <1>5, <1>7, <1>8, <1>9, <1>10, <1>11, DebtNext

\* A notify wakes the reader if it is asleep.
LEMMA DebtNotify ==
    ASSUME TypeInv, NEW p \in Pipes, Debt(p), UNCHANGED <<kicked, pipe>>,
           NEW t \in Notifying(p), sem'[p] \in Notified(sem[p]),
           Notifying(p)' = Notifying(p) \ {t}, Adding(p) \subseteq Adding(p)'
             /\ AddsToCome(p) \subseteq AddsToCome(p)', Through(p)' = Through(p),
           pc'[Reader(p)] \in {"wait", "blocked"} => pc'[Reader(p)] = pc[Reader(p)]
    PROVE  Debt(p)'
<1>1. /\ sem[p].count \in Int /\ (sem[p].woken = {} \/ sem[p].woken = {Reader(p)})
      /\ Cardinality(sem[p].woken) = IF sem[p].woken = {} THEN 0 ELSE 1
      /\ sem[p].blocked \cap sem[p].woken = {} /\ sem[p].blocked \subseteq {Reader(p)}
      /\ pc[Reader(p)] = "blocked" <=> Reader(p) \in sem[p].blocked \cup sem[p].woken
  BY WokenReader
<1>2. /\ sem'[p].count = sem[p].count
      /\ \/ sem'[p].woken = sem[p].woken /\ sem[p].blocked = {}
         \/ sem'[p].woken = {Reader(p)} /\ sem[p].woken = {}
  <2>1. CASE sem[p].blocked = {}
    BY <2>1 DEF Notified
  <2>2. CASE sem[p].blocked # {}
    <3>1. sem[p].blocked = {Reader(p)} /\ sem[p].woken = {}
      BY <1>1, <2>2
    <3>2. sem'[p] = [sem[p] EXCEPT !.blocked = @ \ {Reader(p)}, !.woken = @ \cup {Reader(p)}]
      BY <3>1 DEF Notified
    <3>3. sem[p] \in [count : Int, blocked : SUBSET {Reader(p)}, woken : SUBSET {Reader(p)}]
      BY DEF TypeInv, Semaphores, SemType
    <3>4. sem'[p].count = sem[p].count /\ sem'[p].woken = sem[p].woken \cup {Reader(p)}
      BY <3>2, <3>3
    <3>5. QED
      BY <3>1, <3>4
  <2>3. QED
    BY <2>1, <2>2
<1>3. ~Asleep(Reader(p))'
  BY <1>1, <1>2, ReaderNames DEF Asleep
<1>4. Waiting(Reader(p))' => Waiting(Reader(p))
  BY <1>3, ReaderNames DEF Waiting, Asleep
<1>5. PICK c \in Int, n \in Nat, w \in Nat, l \in Nat, a \in Nat, e \in Nat, k \in Nat, W \in Nat :
          Figures(p, c, n, w, l, a, e, k) /\ W = Cardinality(Writers(p)) /\ Balanced(p, c, n, w, l, a, e, k, W)
  BY DebtNow
<1>6. PICK x \in Nat : x = Cardinality(sem'[p].woken) /\ x <= w + 1
  <2>1. Cardinality({Reader(p)}) = 1 /\ Cardinality({}) = 0
    BY FS_EmptySet, FS_Singleton
  <2>2. CASE sem'[p].woken = sem[p].woken
    BY <1>5, <2>2 DEF Figures
  <2>3. CASE sem'[p].woken = {Reader(p)} /\ sem[p].woken = {}
    BY <1>1, <1>5, <2>1, <2>3 DEF Figures
  <2>4. QED
    BY <1>2, <2>2, <2>3
<1>7. Cardinality(Notifying(p)') = n - 1 /\ n - 1 \in Nat
  BY <1>5, CountedSets, OneLess DEF Figures
<1>8. PICK b \in Nat, d \in Nat : b = Cardinality(Adding(p)') /\ d = Cardinality(AddsToCome(p)')
  BY Numbers
<1>9. a <= b /\ e <= d
  BY <1>5, <1>8, CountedSetsNext, FewerThreads DEF Figures
<1>10. Figures(p, c, n - 1, x, l, b, d, k)'
  BY <1>2, <1>5, <1>6, <1>7, <1>8 DEF Figures
<1>11. Balanced(p, c, n - 1, x, l, b, d, k, W)'
  <2>1. /\ c >= n + w - W => c >= n - 1 + x - W
        /\ l <= c + a + W => l <= c + b + W
        /\ l + k <= c + e + W => l + k <= c + d + W
    BY <1>6, <1>9
  <2>2. QED
    BY <1>3, <1>4, <1>5, <2>1 DEF Balanced
<1>12. QED
  BY <1>5, <1>7, <1>10, <1>11, DebtNext

\* The transport is kicked before a Clear has added anything.
LEMMA DebtKick ==
    ASSUME TypeInv, NEW p \in Pipes, Debt(p), UNCHANGED <<sem, pipe>>, kicked',
           Notifying(p)' = Notifying(p), AddsToCome(p) \subseteq AddsToCome(p)',
           IF kicked THEN Through(p)' = Through(p) ELSE Through(p)' = {} /\ Adding(p) \subseteq AddsToCome(p)',
           pc'[Reader(p)] \in {"wait", "blocked"} => pc'[Reader(p)] = pc[Reader(p)]
    PROVE  Debt(p)'
<1>1. /\ Waiting(Reader(p))' => Waiting(Reader(p))
      /\ Asleep(Reader(p))' => Asleep(Reader(p))
  BY ReaderNames DEF Waiting, Asleep
<1>2. PICK c \in Int, n \in Nat, w \in Nat, l \in Nat, a \in Nat, e \in Nat, k \in Nat, W \in Nat :
          Figures(p, c, n, w, l, a, e, k) /\ W = Cardinality(Writers(p)) /\ Balanced(p, c, n, w, l, a, e, k, W)
  BY DebtNow
<1>3. PICK b \in Nat, d \in Nat, h \in Nat :
          b = Cardinality(Adding(p)') /\ d = Cardinality(AddsToCome(p)') /\ h = Cardinality(Through(p)')
  BY Numbers
<1>4. e <= d /\ (~kicked => a <= d)
  BY <1>2, <1>3, CountedSetsNext, FewerThreads DEF Figures
<1>5. IF kicked THEN h = k ELSE h = 0
  BY <1>2, <1>3, FS_EmptySet DEF Figures
<1>6. Figures(p, c, n, w, l, b, d, h)'
  BY <1>2, <1>3 DEF Figures
<1>7. Balanced(p, c, n, w, l, b, d, h, W)'
  <2>1. kicked /\ l + k <= c + e + W => l + h <= c + d + W
    BY <1>4, <1>5
  <2>2. ~kicked /\ l <= c + a + W => l + h <= c + d + W
    BY <1>4, <1>5
  <2>3. QED
    BY <1>1, <1>2, <1>5, <2>1, <2>2 DEF Balanced
<1>8. QED
  BY <1>2, <1>6, <1>7, DebtNext

\* A reader finds its pipe empty and goes to wait.
LEMMA DebtToWait ==
    ASSUME TypeInv, NEW p \in Pipes, Debt(p), UNCHANGED <<kicked, sem, pipe>>, ~kicked, pipe[p] = <<>>,
           Notifying(p)' = Notifying(p), Adding(p)' = Adding(p), pc'[Reader(p)] = "wait"
    PROVE  Debt(p)'
<1>1. ~Asleep(Reader(p))'
  BY DEF Asleep
<1>2. PICK c \in Int, n \in Nat, w \in Nat, l \in Nat, a \in Nat, e \in Nat, k \in Nat, W \in Nat :
          Figures(p, c, n, w, l, a, e, k) /\ W = Cardinality(Writers(p)) /\ Balanced(p, c, n, w, l, a, e, k, W)
  BY DebtNow
<1>3. PICK d \in Nat, h \in Nat : d = Cardinality(AddsToCome(p)') /\ h = Cardinality(Through(p)')
  BY Numbers
<1>4. Figures(p, c, n, w, l, a, d, h)'
  BY <1>2, <1>3 DEF Figures
<1>5. l = 0 /\ c >= n + w - W
  BY <1>2 DEF Figures, Balanced
<1>6. l <= c + a + W
  BY <1>5
<1>7. Balanced(p, c, n, w, l, a, d, h, W)'
  BY <1>1, <1>5, <1>6 DEF Balanced
<1>8. QED
  BY <1>2, <1>4, <1>7, DebtNext

\* A reader passes its semaphore, or comes out of it.
LEMMA DebtPassed ==
    ASSUME TypeInv, NEW p \in Pipes, Debt(p), UNCHANGED kicked, Len(pipe'[p]) \in Nat,
           Notifying(p)' = Notifying(p), kicked \/ Notifying(p) \subseteq Writers(p),
           pc'[Reader(p)] \notin {"wait", "blocked"},
           \/ /\ pc[Reader(p)] = "wait" /\ CanPass(sem[p]) /\ sem'[p] = Passed(sem[p])
           \/ Reader(p) \in sem[p].woken /\ sem'[p] = Resumed(sem[p], Reader(p))
    PROVE  Debt(p)'
<1>1. ~Asleep(Reader(p))' /\ ~Waiting(Reader(p))'
  BY DEF Asleep, Waiting
<1>2. /\ sem[p].count \in Int /\ (sem[p].woken = {} \/ sem[p].woken = {Reader(p)})
      /\ Cardinality(sem[p].woken) = IF sem[p].woken = {} THEN 0 ELSE 1
      /\ sem[p].woken = {Reader(p)} => pc[Reader(p)] = "blocked"
  BY WokenReader
<1>3. Cardinality({}) = 0
  BY FS_EmptySet
<1>4. PICK c \in Int, n \in Nat, w \in Nat, l \in Nat, a \in Nat, e \in Nat, k \in Nat, W \in Nat :
          Figures(p, c, n, w, l, a, e, k) /\ W = Cardinality(Writers(p)) /\ Balanced(p, c, n, w, l, a, e, k, W)
  BY DebtNow
<1>5. PICK m \in Nat, b \in Nat, d \in Nat, h \in Nat :
          /\ m = Len(pipe'[p]) /\ b = Cardinality(Adding(p)')
          /\ d = Cardinality(AddsToCome(p)') /\ h = Cardinality(Through(p)')
  BY Numbers
<1>6. sem'[p].count = c - 1 /\ sem'[p].woken = {} /\ (~kicked => c - 1 >= n - W)
  <2>1. CASE pc[Reader(p)] = "wait" /\ CanPass(sem[p]) /\ sem'[p] = Passed(sem[p])
    <3>1. sem[p].woken = {} /\ c >= 1
      BY <1>2, <1>4, <2>1 DEF CanPass, Figures
    <3>2. sem'[p].count = c - 1 /\ sem'[p].woken = {}
      BY <1>4, <2>1, <3>1 DEF Passed, TypeInv, Semaphores, SemType, Figures
    <3>3. ~kicked => n <= W
      BY <1>4, WritersFinite, FewerThreads DEF Figures
    <3>4. QED
      BY <3>1, <3>2, <3>3
  <2>2. CASE Reader(p) \in sem[p].woken /\ sem'[p] = Resumed(sem[p], Reader(p))
    <3>1. sem'[p].count = c - 1 /\ sem'[p].woken = sem[p].woken \ {Reader(p)}
      BY <1>4, <2>2 DEF Resumed, TypeInv, Semaphores, SemType, Figures
    <3>2. sem'[p].woken = {} /\ w = 1
      BY <1>2, <1>4, <2>2, <3>1 DEF Figures
    <3>3. ~kicked => c >= n + w - W
      BY <1>4 DEF Balanced
    <3>4. ~kicked => c - 1 >= n - W
      BY <3>2, <3>3
    <3>5. QED
      BY <3>1, <3>2, <3>4
  <2>3. QED
    BY <2>1, <2>2
<1>7. Figures(p, c - 1, n, 0, m, b, d, h)'
  BY <1>3, <1>4, <1>5, <1>6 DEF Figures
<1>8. Balanced(p, c - 1, n, 0, m, b, d, h, W)'
  BY <1>1, <1>6 DEF Balanced
<1>9. c - 1 \in Int /\ 0 \in Nat
  OBVIOUS
<1>10. QED
  BY <1>4, <1>5, <1>7, <1>8, <1>9, DebtNext

\* A reader goes to sleep.
LEMMA DebtBlocked ==
    ASSUME TypeInv, NEW p \in Pipes, Debt(p), UNCHANGED <<kicked, pipe>>,
           Notifying(p)' = Notifying(p), Adding(p)' = Adding(p), AddsToCome(p)' = AddsToCome(p), Through(p)' = Through(p),
           pc[Reader(p)] = "wait", ~CanPass(sem[p]), sem'[p] = Blocked(sem[p], Reader(p))
    PROVE  Debt(p)'
<1>1. PICK c \in Int, n \in Nat, w \in Nat, l \in Nat, a \in Nat, e \in Nat, k \in Nat, W \in Nat :
          Figures(p, c, n, w, l, a, e, k) /\ W = Cardinality(Writers(p)) /\ Balanced(p, c, n, w, l, a, e, k, W)
  BY DebtNow
<1>2. Waiting(Reader(p)) /\ c <= n
  BY <1>1 DEF Waiting, CanPass, Figures
<1>3. sem'[p].count = sem[p].count /\ sem'[p].woken = sem[p].woken
  BY DEF Blocked, TypeInv, Semaphores, SemType
<1>4. Figures(p, c, n, w, l, a, e, k)'
  BY <1>1, <1>3 DEF Figures
<1>5. Balanced(p, c, n, w, l, a, e, k, W)'
  BY <1>1, <1>2 DEF Balanced
<1>6. QED
  BY <1>1, <1>4, <1>5, DebtNext

-------------------------------------------------------------------------------
(* The actions.                                                                *)
DebtInv == Shapes /\ Debts

LEMMA InitDebtInv == Init /\ TypeInv => DebtInv
<1> SUFFICES ASSUME Init, TypeInv PROVE DebtInv
  OBVIOUS
<1>1. \A t \in Threads \ {"starter"} : todo[t] = <<>> /\ pc[t] \in {"none", "idle"}
  BY DEF Init
<1>2. Shapes
  <2>1. SUFFICES ASSUME NEW t \in Threads \ {"starter"}
                 PROVE  /\ Paired(todo[t])
                        /\ ~kicked => Owed(t, todo[t])
                        /\ ~kicked /\ t \in Leaving => Kicks(todo[t])
    BY DEF Shapes
  <2>2. t \notin Leaving
    BY <1>1 DEF Leaving
  <2>3. QED
    BY <1>1, <2>2, NothingOwed
<1>3. ASSUME NEW p \in Pipes PROVE Debt(p)
  <2>1. sem[p].count = Slack /\ sem[p].woken = {} /\ Slack \in Nat
    BY TransportAssumption DEF Init, NewSem
  <2>2. Notifying(p) = {}
    <3>1. ASSUME NEW t \in Threads, Heads(t, "notify", p) PROVE FALSE
      <4>1. t = "starter" /\ Head(todo[t]) = On("notify", p)
        BY <1>1, <3>1 DEF Heads
      <4>2. Head(todo[t]) = Create("input")
        BY <4>1 DEF Init, StartSteps
      <4>3. Create("input").do = "create" /\ On("notify", p).do = "notify"
        BY DEF Create, On
      <4>4. QED
        BY <4>1, <4>2, <4>3
    <3>2. QED
      BY <3>1 DEF Notifying
  <2>3. Cardinality({}) = 0
    BY FS_EmptySet
  <2>4. ~Waiting(Reader(p)) /\ ~Asleep(Reader(p))
    <3>1. pc[Reader(p)] = "none"
      BY ReaderNames, ThreadFacts DEF Init
    <3>2. QED
      BY <3>1 DEF Waiting, Asleep
  <2>5. sem[p].count >= Cardinality(Notifying(p)) + Cardinality(sem[p].woken) - Cardinality(Writers(p))
    BY <2>1, <2>2, <2>3, WritersFinite
  <2>6. QED
    BY <2>4, <2>5 DEF Debt
<1>4. QED
  BY <1>2, <1>3 DEF DebtInv, Debts

LEMMA PipesNext ==
    ASSUME TypeInv'
    PROVE  \A p \in Pipes : Len(pipe'[p]) \in Nat
  BY DEF TypeInv

LEMMA PushDebt ==
    ASSUME TypeInv, TypeInv', DebtInv, NEW t \in Threads, Push(t)
    PROVE  DebtInv'
<1> DEFINE head == Head(todo[t])
<1>1. Drops(t, "push") /\ UNCHANGED <<kicked, pc, sem>>
  BY DEF Push, Drops
<1>2. Shapes'
  BY <1>1, DropShapes DEF DebtInv
<1>3. /\ head \in Moves /\ head.do = "push" /\ head.pipe \in Pipes
      /\ \A p \in Pipes : head # On("add", p) /\ head # On("notify", p)
  BY <1>1, DropGoes, MoveNames
<1>4. ASSUME NEW p \in Pipes PROVE Debt(p)'
  <2>1. /\ Adding(p) \subseteq Adding(p)' /\ AddsToCome(p) \subseteq AddsToCome(p)'
             /\ Through(p)' = Through(p) /\ Notifying(p)' = Notifying(p)
        /\ t \notin Adding(p) /\ (head.pipe = p => t \in Adding(p)')
    BY <1>1, <1>3, DropCounts DEF DebtInv
  <2>2. Debt(p) /\ Len(pipe'[p]) \in Nat /\ Len(pipe[p]) \in Nat
    BY PipesNext, PipeLengths DEF DebtInv, Debts
  <2>3. CASE pipe'[p] = pipe[p]
    BY <1>1, <2>1, <2>2, <2>3, DebtIdle
  <2>4. CASE pipe'[p] # pipe[p]
    <3>1. head.pipe = p /\ pipe'[p] = Append(pipe[p], head.packet)
      BY <2>4 DEF Push, TypeInv
    <3>2. Len(pipe'[p]) <= Len(pipe[p]) + 1
      BY <3>1, PipeLengths
    <3>3. ~kicked
      BY <2>4 DEF Push
    <3>4. QED
      BY <1>1, <2>1, <2>2, <3>1, <3>2, <3>3, DebtPush
  <2>5. QED
    BY <2>3, <2>4
<1>5. QED
  BY <1>2, <1>4 DEF DebtInv, Debts

LEMMA AddDebt ==
    ASSUME TypeInv, TypeInv', DebtInv, NEW t \in Threads, SignalAdd(t)
    PROVE  DebtInv'
<1> DEFINE head == Head(todo[t])
<1>1. Drops(t, "add") /\ UNCHANGED <<kicked, pc, pipe>> /\ sem' = [sem EXCEPT ![head.pipe] = Raised(@, 1)]
  BY DEF SignalAdd, Drops
<1>2. Shapes'
  BY <1>1, DropShapes DEF DebtInv
<1>3. head \in Moves /\ head.do = "add" /\ head.pipe \in Pipes /\ head = On("add", head.pipe)
  BY <1>1, DropGoes, MoveNames
<1>4. ASSUME NEW p \in Pipes PROVE Debt(p)'
  <2>1. Debt(p) /\ Len(pipe'[p]) \in Nat /\ Len(pipe[p]) \in Nat
    BY PipesNext, PipeLengths DEF DebtInv, Debts
  <2>2. CASE head.pipe = p
    <3>1. /\ t \in Adding(p) /\ Adding(p)' = Adding(p) \ {t}
          /\ t \notin Notifying(p) /\ Notifying(p)' = Notifying(p) \cup {t}
          /\ t \in AddsToCome(p) => AddsToCome(p)' = AddsToCome(p) \ {t} /\ Through(p)' = Through(p)
          /\ t \notin AddsToCome(p) => AddsToCome(p)' = AddsToCome(p) /\ Through(p)' \subseteq Through(p) \cup {t}
      BY <1>1, <1>3, <2>2, DropCounts, SMTT(30) DEF DebtInv
    <3>2. sem'[p] = Raised(sem[p], 1)
      BY <1>1, <2>2 DEF TypeInv, Semaphores
    <3>3. QED
      BY <1>1, <2>1, <3>1, <3>2, DebtAdd
  <2>3. CASE head.pipe # p
    <3>1. head # On("add", p) /\ head # On("notify", p)
      BY <1>3, <2>3, MoveNames
    <3>2. Adding(p) \subseteq Adding(p)' /\ AddsToCome(p) \subseteq AddsToCome(p)'
            /\ Through(p)' = Through(p) /\ Notifying(p)' = Notifying(p)
      BY <1>1, <3>1, DropCounts, SMTT(30) DEF DebtInv
    <3>3. sem'[p] = sem[p] /\ pipe'[p] = pipe[p]
      BY <1>1, <2>3 DEF TypeInv, Semaphores
    <3>4. QED
      BY <1>1, <2>1, <3>2, <3>3, DebtIdle
  <2>4. QED
    BY <2>2, <2>3
<1>5. QED
  BY <1>2, <1>4 DEF DebtInv, Debts

\* After its last step a thread is at its end.
LEMMA ExitDrops ==
    ASSUME TypeInv, NEW t \in Threads, NEW what, Committed(t, what), Drop(t), Exit(t)
    PROVE  Drops(t, what) /\ \A r \in Threads : pc'[r] \in {"wait", "blocked"} => pc'[r] = pc[r]
<1>1. DOMAIN pc = Threads
  BY DEF TypeInv, Places
<1>2. CASE pc[t] = "clear" /\ Tail(todo[t]) = <<>>
  <2>1. pc' = [pc EXCEPT ![t] = "exit"]
    BY <1>2 DEF Exit
  <2>2. QED
    BY <1>1, <1>2, <2>1 DEF Drops
<1>3. CASE ~(pc[t] = "clear" /\ Tail(todo[t]) = <<>>)
  BY <1>3 DEF Exit, Drops
<1>4. QED
  BY <1>2, <1>3

LEMMA NotifyDebt ==
    ASSUME TypeInv, TypeInv', DebtInv, NEW t \in Threads, SignalNotify(t)
    PROVE  DebtInv'
<1> DEFINE head == Head(todo[t])
<1>1. /\ Drops(t, "notify") /\ UNCHANGED <<kicked, pipe>>
      /\ \A p \in Pipes : pc'[Reader(p)] \in {"wait", "blocked"} => pc'[Reader(p)] = pc[Reader(p)]
  BY ExitDrops, ReaderNames DEF SignalNotify
<1>2. Shapes'
  BY <1>1, DropShapes DEF DebtInv
<1>3. head \in Moves /\ head.do = "notify" /\ head.pipe \in Pipes /\ head = On("notify", head.pipe)
  BY <1>1, DropGoes, MoveNames
<1>4. PICK s \in Notified(sem[head.pipe]) : sem' = [sem EXCEPT ![head.pipe] = s]
  BY DEF SignalNotify
<1>5. ASSUME NEW p \in Pipes PROVE Debt(p)'
  <2>1. Debt(p) /\ Len(pipe'[p]) \in Nat /\ Len(pipe[p]) \in Nat
    BY PipesNext, PipeLengths DEF DebtInv, Debts
  <2>2. head # On("add", p)
    BY <1>3, MoveNames
  <2>3. Adding(p) \subseteq Adding(p)' /\ AddsToCome(p) \subseteq AddsToCome(p)' /\ Through(p)' = Through(p)
    BY <1>1, <2>2, DropCounts DEF DebtInv
  <2>4. CASE head.pipe = p
    <3>1. t \in Notifying(p) /\ Notifying(p)' = Notifying(p) \ {t}
      BY <1>1, <1>3, <2>4, DropCounts DEF DebtInv
    <3>2. sem'[p] \in Notified(sem[p])
      BY <1>4, <2>4 DEF TypeInv, Semaphores
    <3>3. QED
      BY <1>1, <2>1, <2>3, <3>1, <3>2, DebtNotify
  <2>5. CASE head.pipe # p
    <3>1. head # On("notify", p)
      BY <1>3, <2>5, MoveNames
    <3>2. Notifying(p)' = Notifying(p)
      BY <1>1, <2>2, <3>1, DropCounts DEF DebtInv
    <3>3. sem'[p] = sem[p] /\ pipe'[p] = pipe[p]
      BY <1>1, <1>4, <2>5 DEF TypeInv, Semaphores
    <3>4. QED
      BY <1>1, <2>1, <2>3, <3>2, <3>3, DebtIdle
  <2>6. QED
    BY <2>4, <2>5
<1>6. QED
  BY <1>2, <1>5 DEF DebtInv, Debts

LEMMA KickDebt ==
    ASSUME TypeInv, TypeInv', DebtInv, NEW t \in Threads, Kick(t)
    PROVE  DebtInv'
<1> DEFINE head == Head(todo[t])
<1>1. /\ Drops(t, "kick") /\ kicked' = TRUE /\ UNCHANGED <<sem, pipe>>
      /\ \A p \in Pipes : pc'[Reader(p)] \in {"wait", "blocked"} => pc'[Reader(p)] = pc[Reader(p)]
  BY ExitDrops, ReaderNames DEF Kick
<1>2. Shapes'
  BY <1>1, DropShapes DEF DebtInv
<1>3. /\ t \in Threads \ {"starter"} /\ todo'[t] = Tail(todo[t])
      /\ todo[t] \in Seq(Moves) /\ todo[t] # <<>> /\ head \in Moves /\ head.do = "kick"
      /\ \A u \in Threads \ {t} : todo'[u] = todo[u]
      /\ Leaving' = Leaving
  BY <1>1, DropGoes
<1>4. ASSUME NEW p \in Pipes PROVE Debt(p)'
  <2>1. Debt(p)
    BY DEF DebtInv, Debts
  <2>2. head # On("add", p) /\ head # On("notify", p)
    BY <1>3, MoveNames
  <2>3. Adding(p) \subseteq Adding(p)' /\ AddsToCome(p) \subseteq AddsToCome(p)'
          /\ Through(p)' = Through(p) /\ Notifying(p)' = Notifying(p)
    BY <1>1, <2>2, DropCounts DEF DebtInv
  <2>4. ~kicked => Through(p)' = {}
    <3>1. SUFFICES ASSUME ~kicked, NEW u \in Leaving PROVE WillAdd(todo'[u], p)
      BY <1>3 DEF Through
    <3>2. u \in Threads \ {"starter"} /\ Kicks(todo[u])
      BY <3>1, ThreadFacts DEF DebtInv, Shapes, Leaving
    <3>3. CASE u = t
      BY <1>3, <3>2, <3>3, WillAddTail
    <3>4. CASE u # t
      <4>1. WillAdd(todo[u], p)
        BY <3>2, Zenon DEF Kicks, WillAdd
      <4>2. QED
        BY <1>3, <3>2, <3>4, <4>1
    <3>5. QED
      BY <3>3, <3>4
  <2>5. ~kicked => Adding(p) \subseteq AddsToCome(p)'
    <3>1. SUFFICES ASSUME ~kicked, NEW u \in Adding(p), u \in Leaving' PROVE WillAdd(Tail(todo'[u]), p)
      BY <2>3 DEF AddsToCome
    <3>2. /\ u \in Threads \ {"starter"} /\ todo[u] \in Seq(Moves) /\ Kicks(todo[u])
          /\ todo[u] # <<>> /\ Head(todo[u]) = On("add", p)
      BY <1>3, <3>1, ThreadFacts DEF TypeInv, Places, DebtInv, Shapes, Leaving, Adding, Heads
    <3>3. Head(todo[u]).do # "kick" /\ u # t
      BY <1>3, <2>2, <3>2, MoveNames
    <3>4. Kicks(Tail(todo[u]))
      BY <3>2, <3>3, OwedTail
    <3>5. WillAdd(Tail(todo[u]), p)
      BY <3>4, Zenon DEF Kicks, WillAdd
    <3>6. QED
      BY <1>3, <3>2, <3>3, <3>5
  <2>6. QED
    BY <1>1, <2>1, <2>3, <2>4, <2>5, DebtKick
<1>5. QED
  BY <1>2, <1>4 DEF DebtInv, Debts

\* A thread that has done all it was committed to goes on with something.
LEMMA GoesShapes ==
    ASSUME TypeInv, Shapes, NEW t \in Threads \ {"starter"}, NEW label, NEW steps,
           todo[t] = <<>>, pc[t] \notin {"clear", "exit"}, Fitting(t, label, steps),
           Moved(t, label, steps), UNCHANGED kicked
    PROVE  /\ Shapes'
           /\ pc'[t] = label /\ todo'[t] = steps
           /\ \A u \in Threads \ {t} : pc'[u] = pc[u] /\ todo'[u] = todo[u]
<1>1. /\ pc'[t] = label /\ todo'[t] = steps
      /\ \A u \in Threads \ {t} : pc'[u] = pc[u] /\ todo'[u] = todo[u]
  BY ReaderLabels DEF Moved
<1>2. SUFFICES ASSUME NEW u \in Threads \ {"starter"}
               PROVE  /\ Paired(todo'[u])
                      /\ ~kicked' => Owed(u, todo'[u])
                      /\ ~kicked' /\ u \in Leaving' => Kicks(todo'[u])
  BY <1>1 DEF Shapes, Owed, Writers
<1>3. CASE u # t
  <2>1. u \in Leaving' <=> u \in Leaving
    BY <1>1, <1>3 DEF Leaving
  <2>2. QED
    BY <1>1, <1>3, <2>1 DEF Shapes
<1>4. CASE u = t
  BY <1>1, <1>4 DEF Fitting, Leaving
<1>5. QED
  BY <1>3, <1>4

\* What it goes on with adds no notification to come and no thread that is through.
LEMMA GoesCounts ==
    ASSUME TypeInv, NEW t \in Threads \ {"starter"}, NEW label, NEW steps,
           todo[t] = <<>>, pc[t] \notin {"clear", "exit"}, Fitting(t, label, steps),
           Moved(t, label, steps), NEW p \in Pipes
    PROVE  /\ Notifying(p)' = Notifying(p) /\ Adding(p) \subseteq Adding(p)'
                /\ AddsToCome(p) \subseteq AddsToCome(p)' /\ Through(p)' = Through(p)
           /\ steps = <<>> => Adding(p)' = Adding(p) /\ AddsToCome(p)' = AddsToCome(p)
<1>1. /\ pc'[t] = label /\ todo'[t] = steps
      /\ \A u \in Threads \ {t} : pc'[u] = pc[u] /\ todo'[u] = todo[u]
  BY ReaderLabels DEF Moved
<1>2. \A u \in Threads \ {t} : /\ u \in Adding(p)' <=> u \in Adding(p)
                               /\ u \in Notifying(p)' <=> u \in Notifying(p)
                               /\ u \in Through(p)' <=> u \in Through(p)
                               /\ u \in AddsToCome(p)' <=> u \in AddsToCome(p)
  BY <1>1, OthersCounted
<1>3. AddsToCome(p) \subseteq Threads /\ AddsToCome(p)' \subseteq Threads
      /\ Adding(p) \subseteq Threads /\ Notifying(p) \subseteq Threads /\ Through(p) \subseteq Threads
      /\ Adding(p)' \subseteq Threads /\ Notifying(p)' \subseteq Threads /\ Through(p)' \subseteq Threads
  BY CountedSets, CountedSetsNext
<1>4. t \notin Adding(p) /\ t \notin AddsToCome(p) /\ t \notin Notifying(p) /\ t \notin Through(p)
  BY DEF AddsToCome, Adding, Notifying, Heads, Through, Leaving
<1>5. t \notin Notifying(p)'
  BY <1>1, MoveNames DEF Notifying, Heads, Fitting, NoNotify
<1>6. t \notin Through(p)'
  BY <1>1 DEF Through, Leaving, Fitting
<1>7. steps = <<>> => t \notin Adding(p)' /\ t \notin AddsToCome(p)'
  BY <1>1 DEF AddsToCome, Adding, Heads
<1>8. Notifying(p)' = Notifying(p)
  BY <1>2, <1>3, <1>4, <1>5, SameBut
<1>9. Through(p)' = Through(p)
  BY <1>2, <1>3, <1>4, <1>6, SameBut
<1>10. Adding(p) \subseteq Adding(p)' /\ AddsToCome(p) \subseteq AddsToCome(p)' /\ (steps = <<>> => Adding(p)' = Adding(p) /\ AddsToCome(p)' = AddsToCome(p))
  <2>1. Adding(p) \subseteq Adding(p)' /\ AddsToCome(p) \subseteq AddsToCome(p)'
    BY <1>2, <1>3, <1>4, MoreBut
  <2>2. steps = <<>> => Adding(p)' = Adding(p) /\ AddsToCome(p)' = AddsToCome(p)
    BY <1>2, <1>3, <1>4, <1>7, SameBut
  <2>3. QED
    BY <2>1, <2>2
<1>11. QED
  BY <1>8, <1>9, <1>10

\* It goes on without a semaphore, and does not go to wait.
LEMMA GoesDebt ==
    ASSUME TypeInv, TypeInv', DebtInv, NEW t \in Threads \ {"starter"}, NEW label, NEW steps,
           todo[t] = <<>>, pc[t] \notin {"clear", "exit"}, Fitting(t, label, steps),
           Moved(t, label, steps), UNCHANGED <<kicked, sem>>, label \notin {"wait", "blocked"},
           \A p \in Pipes : Len(pipe'[p]) <= Len(pipe[p])
    PROVE  DebtInv'
<1>1. /\ Shapes'
      /\ pc'[t] = label
      /\ \A u \in Threads \ {t} : pc'[u] = pc[u]
  BY GoesShapes DEF DebtInv
<1>2. ASSUME NEW p \in Pipes PROVE Debt(p)'
  <2>1. Debt(p) /\ Len(pipe'[p]) \in Nat
    BY PipesNext DEF DebtInv, Debts
  <2>2. Notifying(p)' = Notifying(p) /\ Adding(p) \subseteq Adding(p)'
          /\ AddsToCome(p) \subseteq AddsToCome(p)' /\ Through(p)' = Through(p)
    BY GoesCounts
  <2>3. pc'[Reader(p)] \in {"wait", "blocked"} => pc'[Reader(p)] = pc[Reader(p)]
    BY <1>1, ReaderNames
  <2>4. QED
    BY <2>1, <2>2, <2>3, DebtIdle
<1>3. QED
  BY <1>1, <1>2 DEF DebtInv, Debts

\* What a reader does with the packet it takes.
LEMMA TakeFits ==
    ASSUME TypeInv, NEW t \in {"input", "user"}, pipe[Source(t)] # <<>>, Take(t)
    PROVE  /\ \E label \in Labels \ {"wait", "blocked"}, steps \in Seq(Moves) :
                  Moved(t, label, steps) /\ Fitting(t, label, steps)
           /\ \A p \in Pipes : Len(pipe'[p]) \in Nat /\ Len(pipe'[p]) <= Len(pipe[p])
<1> DEFINE q == pipe[Source(t)]  packet == Head(q)
<1>1. q \in Seq(Packets) /\ Source(t) \in Pipes
  BY Readers DEF TypeInv
<1>2. packet \in Packets /\ Len(Tail(q)) = Len(q) - 1 /\ Tail(q) \in Seq(Packets)
  BY <1>1, HeadTailProperties
<1>3. pipe' = [pipe EXCEPT ![Source(t)] = Tail(pipe[Source(t)])]
  BY DEF Take
<1>4. ASSUME NEW p \in Pipes PROVE Len(pipe'[p]) \in Nat /\ Len(pipe'[p]) <= Len(pipe[p])
  <2>1. CASE p = Source(t)
    <3>1. pipe'[p] = Tail(q)
      BY <1>1, <1>3, <2>1 DEF TypeInv
    <3>2. Len(q) \in Nat /\ Len(Tail(q)) \in Nat
      BY <1>1, <1>2
    <3>3. QED
      BY <1>2, <2>1, <3>1, <3>2
  <2>2. CASE p # Source(t)
    <3>1. pipe'[p] = pipe[p]
      BY <1>3, <2>2 DEF TypeInv
    <3>2. QED
      BY <3>1, PipeLengths
  <2>3. QED
    BY <2>1, <2>2
<1>5. /\ <<>> \in Seq(Moves) /\ Clear \in Seq(Moves)
      /\ \A steps \in Replies(packet) : steps \in Seq(Moves)
  BY <1>2, ClearType, RepliesType
<1>6. CASE t = "input"
  <2>1. InputTakes(packet)
    BY <1>6 DEF Take
  <2>2. packet # "SYNC0" /\ packet # "SYNC1" => packet \in {"CNXN", "DATA"}
    BY <1>2 DEF Packets
  <2>3. \/ Moved(t, "clear", Clear)
        \/ \E label \in {"check", "CNXN", "DATA"} : Moved(t, label, <<>>)
    BY <1>6, <2>1, <2>2 DEF InputTakes, Leave, Goto, Moved
  <2>4. {"clear", "check", "CNXN", "DATA"} \subseteq Labels \ {"wait", "blocked"}
    BY DEF Labels
  <2>5. CASE Moved(t, "clear", Clear)
    BY <1>4, <1>5, <2>4, <2>5, FittingClear
  <2>6. CASE \E label \in {"check", "CNXN", "DATA"} : Moved(t, label, <<>>)
    <3>1. PICK label \in {"check", "CNXN", "DATA"} : Moved(t, label, <<>>)
      BY <2>6
    <3>2. Fitting(t, label, <<>>) /\ label \in Labels \ {"wait", "blocked"}
      BY <2>4, FittingNone
    <3>3. QED
      BY <1>4, <1>5, <3>1, <3>2
  <2>7. QED
    BY <2>3, <2>5, <2>6
<1>7. CASE t # "input"
  <2>1. t = "user" /\ \E steps \in Replies(packet) : Moved(t, "check", steps)
    BY <1>7 DEF Take, UserTakes, Goto, Moved
  <2>2. (\A steps \in Replies(packet) : Fitting(t, "check", steps)) /\ "check" \in Labels \ {"wait", "blocked"}
    BY <1>2, <2>1, FittingReplies DEF Labels
  <2>3. QED
    BY <1>4, <1>5, <2>1, <2>2
<1>8. QED
  BY <1>6, <1>7

LEMMA PopFits ==
    ASSUME TypeInv, NEW t \in {"input", "user"}, PopAfterWait(t)
    PROVE  /\ \E label \in Labels \ {"wait", "blocked"}, steps \in Seq(Moves) :
                  Moved(t, label, steps) /\ Fitting(t, label, steps)
           /\ \A p \in Pipes : Len(pipe'[p]) \in Nat /\ Len(pipe'[p]) <= Len(pipe[p])
<1>1. CASE pipe[Source(t)] # <<>>
  BY <1>1, TakeFits DEF PopAfterWait
<1>2. CASE pipe[Source(t)] = <<>>
  <2>1. Moved(t, "check", <<>>) /\ pipe' = pipe
    BY <1>2 DEF PopAfterWait, Goto, Moved
  <2>2. "check" \in Labels \ {"wait", "blocked"} /\ <<>> \in Seq(Moves) /\ Fitting(t, "check", <<>>)
    BY FittingNone DEF Labels
  <2>3. \A p \in Pipes : Len(pipe'[p]) \in Nat /\ Len(pipe'[p]) <= Len(pipe[p])
    BY <2>1, PipeLengths
  <2>4. QED
    BY <2>1, <2>2, <2>3
<1>3. QED
  BY <1>1, <1>2

LEMMA ReadCheckDebt ==
    ASSUME TypeInv, TypeInv', DebtInv, NEW t \in Threads, ReadCheck(t)
    PROVE  DebtInv'
<1>1. t \in {"input", "user"} /\ pc[t] = "check" /\ todo[t] = <<>> /\ UNCHANGED <<kicked, sem>>
  BY DEF ReadCheck, At
<1>2. t \in Threads \ {"starter"} /\ Source(t) \in Pipes /\ Reader(Source(t)) = t
      /\ \A q \in Pipes \ {Source(t)} : Reader(q) # t
  BY <1>1, Readers
<1>3. CASE kicked
  <2>1. Moved(t, "clear", Clear) /\ UNCHANGED pipe
    BY <1>3 DEF ReadCheck, Leave, Goto, Moved
  <2>2. Fitting(t, "clear", Clear)
    BY FittingClear
  <2>3. \A p \in Pipes : Len(pipe'[p]) <= Len(pipe[p])
    BY <2>1, PipeLengths
  <2>4. QED
    BY <1>1, <1>2, <2>1, <2>2, <2>3, GoesDebt
<1>4. CASE ~kicked /\ pipe[Source(t)] # <<>>
  <2>1. Take(t)
    BY <1>4 DEF ReadCheck
  <2>2. PICK label \in Labels \ {"wait", "blocked"}, steps \in Seq(Moves) :
            Moved(t, label, steps) /\ Fitting(t, label, steps)
    BY <1>1, <1>4, <2>1, TakeFits
  <2>3. \A p \in Pipes : Len(pipe'[p]) <= Len(pipe[p])
    BY <1>1, <1>4, <2>1, TakeFits
  <2>4. QED
    BY <1>1, <1>2, <2>2, <2>3, GoesDebt
<1>5. CASE ~kicked /\ pipe[Source(t)] = <<>>
  <2>1. Moved(t, "wait", <<>>) /\ UNCHANGED pipe
    BY <1>5 DEF ReadCheck, Goto, Moved
  <2>2. Fitting(t, "wait", <<>>)
    BY FittingNone
  <2>3. Shapes' /\ pc'[t] = "wait" /\ \A u \in Threads \ {t} : pc'[u] = pc[u]
    BY <1>1, <1>2, <2>1, <2>2, GoesShapes DEF DebtInv
  <2>4. ASSUME NEW p \in Pipes PROVE Debt(p)'
    <3>1. Debt(p) /\ Len(pipe'[p]) \in Nat /\ Len(pipe'[p]) <= Len(pipe[p])
      BY <2>1, PipeLengths DEF DebtInv, Debts
    <3>2. Notifying(p)' = Notifying(p) /\ Adding(p)' = Adding(p)
            /\ AddsToCome(p)' = AddsToCome(p) /\ Through(p)' = Through(p)
      BY <1>1, <1>2, <2>1, <2>2, GoesCounts
    <3>3. CASE p = Source(t)
      BY <1>1, <1>2, <1>5, <2>1, <2>3, <3>1, <3>2, <3>3, DebtToWait
    <3>4. CASE p # Source(t)
      <4>1. pc'[Reader(p)] = pc[Reader(p)]
        BY <1>2, <2>3, <3>4, ReaderNames
      <4>2. QED
        BY <1>1, <3>1, <3>2, <4>1, DebtIdle
    <3>5. QED
      BY <3>3, <3>4
  <2>5. QED
    BY <2>3, <2>4 DEF DebtInv, Debts
<1>6. QED
  BY <1>3, <1>4, <1>5

\* Before the kick only the writers of a pipe have a notify to do.
LEMMA NotifiersWrite ==
    ASSUME TypeInv, Shapes, ~kicked, NEW p \in Pipes
    PROVE  Notifying(p) \subseteq Writers(p)
<1>1. SUFFICES ASSUME NEW t \in Threads, todo[t] # <<>>, Head(todo[t]) = On("notify", p)
               PROVE  t \in Writers(p)
  BY DEF Notifying, Heads
<1>2. t \in Threads \ {"starter"}
  <2>1. Committed(t, "notify")
    BY <1>1, MoveNames DEF Committed
  <2>2. QED
    BY <2>1, Committing
<1>3. todo[t] \in Seq(Moves) /\ Owed(t, todo[t])
  BY <1>2, ReaderLabels DEF Shapes
<1>4. 1 \in 1..Len(todo[t]) /\ todo[t][1] = On("notify", p)
  BY <1>1, <1>3, TailAt
<1>5. t \in Writers(p) \/ \E j \in 1..Len(todo[t]) : j < 1 /\ todo[t][j] = Do("kick")
  BY <1>3, <1>4 DEF Owed
<1>6. QED
  BY <1>5

\* A reader waits: it passes, goes to sleep, or comes out.
LEMMA ReadWaitDebt ==
    ASSUME TypeInv, TypeInv', DebtInv, NEW t \in Threads, ReadWait(t) \/ ReadResume(t)
    PROVE  DebtInv'
<1> DEFINE s == sem[Source(t)]
<1>1. t \in {"input", "user"} /\ pc[t] \in {"wait", "blocked"} /\ todo[t] = <<>> /\ UNCHANGED kicked
  BY DEF ReadWait, ReadResume, At
<1>2. /\ t \in Threads \ {"starter"} /\ Source(t) \in Pipes /\ Reader(Source(t)) = t
      /\ \A q \in Pipes \ {Source(t)} : Reader(q) # t
      /\ DOMAIN sem = Pipes
  BY <1>1, Readers DEF TypeInv, Semaphores
<1>3. ASSUME NEW label \in Labels, NEW steps \in Seq(Moves), Moved(t, label, steps), Fitting(t, label, steps),
             NEW p \in Pipes, p # Source(t), NEW r, sem' = [sem EXCEPT ![Source(t)] = r],
             Len(pipe'[p]) <= Len(pipe[p])
      PROVE  Debt(p)'
  <2>1. pc'[Reader(p)] = pc[Reader(p)]
    <3>1. \A u \in Threads \ {t} : pc'[u] = pc[u]
      BY <1>1, <1>2, <1>3, GoesShapes DEF DebtInv
    <3>2. QED
      BY <1>2, <1>3, <3>1, ReaderNames
  <2>2. Notifying(p)' = Notifying(p) /\ Adding(p) \subseteq Adding(p)'
          /\ AddsToCome(p) \subseteq AddsToCome(p)' /\ Through(p)' = Through(p)
    BY <1>1, <1>2, <1>3, GoesCounts
  <2>3. Debt(p) /\ Len(pipe'[p]) \in Nat /\ sem'[p] = sem[p]
    BY <1>2, <1>3, PipesNext DEF DebtInv, Debts
  <2>4. QED
    BY <1>1, <1>3, <2>1, <2>2, <2>3, DebtIdle
<1>4. ASSUME PopAfterWait(t),
             \/ pc[t] = "wait" /\ CanPass(s) /\ sem' = [sem EXCEPT ![Source(t)] = Passed(s)]
             \/ t \in s.woken /\ sem' = [sem EXCEPT ![Source(t)] = Resumed(s, t)]
      PROVE  DebtInv'
  <2>1. PICK label \in Labels \ {"wait", "blocked"}, steps \in Seq(Moves) :
            Moved(t, label, steps) /\ Fitting(t, label, steps)
    BY <1>1, <1>4, PopFits
  <2>2. \A p \in Pipes : Len(pipe'[p]) \in Nat /\ Len(pipe'[p]) <= Len(pipe[p])
    BY <1>1, <1>4, PopFits
  <2>3. Shapes' /\ pc'[t] = label
    BY <1>1, <1>2, <2>1, GoesShapes DEF DebtInv
  <2>4. \A p \in Pipes \ {Source(t)} : Debt(p)'
    BY <1>3, <1>4, <2>1, <2>2
  <2>5. Debt(Source(t))'
    <3>1. Notifying(Source(t))' = Notifying(Source(t))
      BY <1>1, <1>2, <2>1, GoesCounts
    <3>2. kicked \/ Notifying(Source(t)) \subseteq Writers(Source(t))
      BY <1>2, NotifiersWrite DEF DebtInv
    <3>3. \/ pc[t] = "wait" /\ CanPass(s) /\ sem'[Source(t)] = Passed(s)
          \/ t \in s.woken /\ sem'[Source(t)] = Resumed(s, t)
      BY <1>2, <1>4
    <3>4. Debt(Source(t)) /\ Len(pipe'[Source(t)]) \in Nat
      BY <1>2, <2>2 DEF DebtInv, Debts
    <3>5. QED
      BY <1>1, <1>2, <2>1, <2>3, <3>1, <3>2, <3>3, <3>4, DebtPassed
  <2>6. QED
    BY <2>3, <2>4, <2>5 DEF DebtInv, Debts
<1>5. CASE ReadWait(t) /\ CanPass(s)
  <2>1. PopAfterWait(t) /\ sem' = [sem EXCEPT ![Source(t)] = Passed(s)] /\ pc[t] = "wait"
    BY <1>5 DEF ReadWait, At
  <2>2. QED
    BY <1>4, <1>5, <2>1
<1>6. CASE ReadWait(t) /\ ~CanPass(s)
  <2>1. /\ Moved(t, "blocked", <<>>) /\ sem' = [sem EXCEPT ![Source(t)] = Blocked(s, t)]
        /\ pc[t] = "wait" /\ UNCHANGED pipe
    BY <1>6 DEF ReadWait, At, Goto, Moved
  <2>2. Fitting(t, "blocked", <<>>) /\ "blocked" \in Labels /\ <<>> \in Seq(Moves)
    BY FittingNone DEF Labels
  <2>3. Shapes'
    BY <1>1, <1>2, <2>1, <2>2, GoesShapes DEF DebtInv
  <2>4. \A p \in Pipes \ {Source(t)} : Debt(p)'
    <3>1. \A p \in Pipes : Len(pipe'[p]) <= Len(pipe[p])
      BY <2>1, PipeLengths
    <3>2. QED
      BY <1>3, <2>1, <2>2, <3>1
  <2>5. Debt(Source(t))'
    <3>1. /\ Notifying(Source(t))' = Notifying(Source(t)) /\ Adding(Source(t))' = Adding(Source(t))
          /\ AddsToCome(Source(t))' = AddsToCome(Source(t))
          /\ Through(Source(t))' = Through(Source(t))
      BY <1>1, <1>2, <2>1, <2>2, GoesCounts
    <3>2. sem'[Source(t)] = Blocked(s, t) /\ Debt(Source(t))
      BY <1>2, <2>1 DEF DebtInv, Debts
    <3>3. QED
      BY <1>1, <1>2, <1>6, <2>1, <3>1, <3>2, DebtBlocked
  <2>6. QED
    BY <2>3, <2>4, <2>5 DEF DebtInv, Debts
<1>7. CASE ReadResume(t)
  <2>1. PopAfterWait(t) /\ sem' = [sem EXCEPT ![Source(t)] = Resumed(s, t)] /\ t \in s.woken
    BY <1>7 DEF ReadResume
  <2>2. QED
    BY <1>4, <2>1
<1>8. QED
  BY <1>5, <1>6, <1>7

\* The ends of the pipes, the clients and the closers.
LEMMA EndDebt ==
    ASSUME TypeInv, TypeInv', DebtInv,
           \/ UsbWrite \/ WriteFailed \/ UsbReadFails
           \/ (\E packet \in {"CNXN", "DATA"} : UsbRead(packet))
           \/ (\E c \in Clients : ClientOpen(c) \/ ClientSend(c)) \/ (\E c \in Closers : CloserClear(c))
    PROVE  DebtInv'
<1>1. /\ UNCHANGED <<kicked, sem>>
      /\ \A p \in Pipes : Len(pipe'[p]) <= Len(pipe[p])
  <2>1. UNCHANGED <<kicked, sem, pipe>>
    BY DEF UsbWrite, WriteFailed, UsbReadFails, UsbRead, ClientOpen, ClientSend, CloserClear
  <2>2. QED
    BY <2>1, PipeLengths
<1>2. ASSUME NEW t \in Threads \ {"starter"}, NEW label, NEW steps,
             todo[t] = <<>>, pc[t] \notin {"clear", "exit"}, Fitting(t, label, steps),
             Moved(t, label, steps), label \notin {"wait", "blocked"}
      PROVE  DebtInv'
  BY <1>1, <1>2, GoesDebt
<1>3. "input" \in Threads \ {"starter"} /\ "output" \in Threads \ {"starter"}
      /\ "b2a" \in Pipes /\ "a2b" \in Pipes /\ {"CNXN", "DATA"} \subseteq Packets
      /\ "output" \in Writers("b2a")
  BY ThreadFacts DEF PumpThreads, Pipes, Packets, Writers
<1>4. CASE UsbWrite
  <2>1. /\ todo["input"] = <<>> /\ pc["input"] \notin {"clear", "exit"}
        /\ Moved("input", "check", <<>>)
    BY <1>4 DEF UsbWrite, At, Goto, Moved
  <2>2. QED
    BY <1>2, <1>3, <2>1, FittingNone
<1>5. CASE WriteFailed
  <2>1. /\ todo["output"] = <<>> /\ pc["output"] \notin {"clear", "exit"}
        /\ Moved("output", "clear", Clear)
    BY <1>5 DEF WriteFailed, At, Leave, Goto, Moved
  <2>2. QED
    BY <1>2, <1>3, <2>1, FittingClear
<1>6. CASE UsbReadFails
  <2>1. /\ todo["output"] = <<>> /\ pc["output"] \notin {"clear", "exit"}
        /\ Moved("output", "clear", Write("b2a", "SYNC0") \o Clear)
    BY <1>6 DEF UsbReadFails, At, Goto, Moved
  <2>2. QED
    BY <1>2, <1>3, <2>1, FittingFail
<1>7. CASE \E packet \in {"CNXN", "DATA"} : UsbRead(packet)
  <2>1. PICK packet \in {"CNXN", "DATA"} : UsbRead(packet)
    BY <1>7
  <2>2. /\ todo["output"] = <<>> /\ pc["output"] \notin {"clear", "exit"}
        /\ Moved("output", "read", Write("b2a", packet))
    BY <2>1 DEF UsbRead, At, Goto, Moved
  <2>3. Fitting("output", "read", Write("b2a", packet))
    BY <1>3, FittingWrite
  <2>4. QED
    BY <1>2, <1>3, <2>2, <2>3
<1>8. CASE \E c \in Clients : ClientOpen(c) \/ ClientSend(c)
  <2>1. PICK c \in Clients : ClientOpen(c) \/ ClientSend(c)
    BY <1>8
  <2>2. PICK steps \in {<<>>, Write("a2b", "DATA")} :
            todo[c] = <<>> /\ pc[c] \notin {"clear", "exit"} /\ Moved(c, "open", steps)
    BY <2>1 DEF ClientOpen, ClientSend, At, Goto, Moved
  <2>3. c \in Threads \ {"starter"} /\ c \in Writers("a2b")
    BY ThreadFacts DEF Writers
  <2>4. Fitting(c, "open", <<>>) /\ Fitting(c, "open", Write("a2b", "DATA"))
    BY <1>3, <2>3, FittingNone, FittingWrite
  <2>5. QED
    BY <1>2, <2>2, <2>3, <2>4
<1>9. CASE \E c \in Closers : CloserClear(c)
  <2>1. PICK c \in Closers : CloserClear(c)
    BY <1>9
  <2>2. /\ todo[c] = <<>> /\ pc[c] \notin {"clear", "exit"}
        /\ Moved(c, "exit", Clear)
    BY <2>1 DEF CloserClear, At, Goto, Moved
  <2>3. c \in Threads \ {"starter"}
    BY ThreadFacts
  <2>4. QED
    BY <1>2, <2>2, <2>3, FittingClear
<1>10. QED
  BY <1>4, <1>5, <1>6, <1>7, <1>8, <1>9

\* Start creates a thread: one that was not there begins with a Write or with nothing.
LEMMA CreateDebt ==
    ASSUME TypeInv, TypeInv', DebtInv, NEW t \in Threads, CreateThread(t)
    PROVE  DebtInv'
<1>1. PICK new \in PumpThreads :
        /\ Uncreated(new)
        /\ pc' = [pc EXCEPT ![new] = IF new = "output" THEN "read" ELSE "check"]
        /\ todo' = [todo EXCEPT ![t] = Tail(@),
                                ![new] = IF new = "output" THEN Write("b2a", "SYNC1") ELSE <<>>]
  BY Creating
<1>2. t = "starter"
  BY Creating
<1> DEFINE steps == IF new = "output" THEN Write("b2a", "SYNC1") ELSE <<>>
           label == IF new = "output" THEN "read" ELSE "check"
<1>3. Fitting(new, label, steps) /\ label \notin {"wait", "blocked", "clear", "exit"}
  <2>1. "b2a" \in Pipes /\ "SYNC1" \in Packets /\ "output" \in Writers("b2a")
    BY DEF Pipes, Packets, Writers
  <2>2. CASE new = "output"
    BY <2>1, <2>2, FittingWrite
  <2>3. CASE new # "output"
    BY <2>3, FittingNone
  <2>4. QED
    BY <2>2, <2>3
<1>4. UNCHANGED <<kicked, sem, pipe>>
  BY DEF CreateThread
<1>5. pc' = [pc EXCEPT ![new] = label] /\ todo' = [todo EXCEPT ![t] = Tail(@), ![new] = steps]
  BY <1>1
<1> HIDE DEF steps, label
<1>6. new \in Threads \ {"starter"} /\ new # t /\ DOMAIN todo = Threads /\ DOMAIN pc = Threads
  BY <1>2, ThreadFacts, ReaderLabels
<1>7. /\ todo'[new] = steps /\ pc'[new] = label
      /\ \A u \in Threads \ {new, t} : todo'[u] = todo[u]
      /\ \A u \in Threads \ {new} : pc'[u] = pc[u]
  BY <1>5, <1>6
<1>8. Shapes'
  <2>1. SUFFICES ASSUME NEW u \in Threads \ {"starter"}
                 PROVE  /\ Paired(todo'[u])
                        /\ ~kicked' => Owed(u, todo'[u])
                        /\ ~kicked' /\ u \in Leaving' => Kicks(todo'[u])
    BY DEF Shapes, Owed, Writers
  <2>2. CASE u = new
    BY <1>3, <1>4, <1>7, <2>2 DEF Fitting, Leaving
  <2>3. CASE u # new
    <3>1. todo'[u] = todo[u] /\ pc'[u] = pc[u]
      BY <1>2, <1>7, <2>3
    <3>2. u \in Leaving' <=> u \in Leaving
      BY <3>1 DEF Leaving
    <3>3. QED
      BY <1>4, <3>1, <3>2 DEF DebtInv, Shapes
  <2>4. QED
    BY <2>2, <2>3
<1>9. ASSUME NEW what \in {"add", "notify"}, NEW p \in Pipes PROVE ~Heads("starter", what, p) /\ ~Heads("starter", what, p)'
  <2>1. \A x \in {"input", "output", "user"} : Create(x).do = "create" /\ On(what, p).do # "create"
    BY DEF Create, On
  <2>2. Starting /\ Starting'
    BY DEF TypeInv
  <2>3. todo["starter"] = <<>> \/ \E x \in {"input", "output", "user"} : Head(todo["starter"]) = Create(x)
    BY <2>2 DEF Starting, StartSteps
  <2>4. todo'["starter"] = <<>> \/ \E x \in {"input", "output", "user"} : Head(todo'["starter"]) = Create(x)
    BY <2>2 DEF Starting, StartSteps
  <2>5. QED
    BY <2>1, <2>3, <2>4 DEF Heads
<1>10. ASSUME NEW p \in Pipes PROVE Debt(p)'
  <2>1. \A u \in Threads \ {new, t} : /\ u \in Adding(p)' <=> u \in Adding(p)
                                      /\ u \in Notifying(p)' <=> u \in Notifying(p)
                                      /\ u \in Through(p)' <=> u \in Through(p)
                                      /\ u \in AddsToCome(p)' <=> u \in AddsToCome(p)
    <3>1. SUFFICES ASSUME NEW u \in Threads \ {new, t}
                   PROVE  /\ u \in Adding(p)' <=> u \in Adding(p)
                          /\ u \in Notifying(p)' <=> u \in Notifying(p)
                          /\ u \in Through(p)' <=> u \in Through(p)
                          /\ u \in AddsToCome(p)' <=> u \in AddsToCome(p)
      OBVIOUS
    <3>2. todo'[u] = todo[u] /\ pc'[u] = pc[u]
      BY <1>7, <3>1
    <3>3. QED
      BY <3>2 DEF AddsToCome, Adding, Notifying, Heads, Through, Leaving
  <2>2. t \notin AddsToCome(p) /\ t \notin AddsToCome(p)' /\ t \notin Adding(p)
          /\ t \notin Adding(p)' /\ t \notin Notifying(p) /\ t \notin Notifying(p)'
    BY <1>2, <1>9 DEF AddsToCome, Adding, Notifying
  <2>3. t \notin Through(p) /\ t \notin Through(p)'
    BY <1>2, ThreadFacts DEF Through, Leaving
  <2>4. new \notin AddsToCome(p) /\ new \notin Adding(p) /\ new \notin Notifying(p) /\ new \notin Through(p)
    BY <1>1 DEF Uncreated, AddsToCome, Adding, Notifying, Heads, Through, Leaving
  <2>5. new \notin Through(p)'
    BY <1>3, <1>7 DEF Through, Leaving
  <2>6. new \notin Notifying(p)'
    BY <1>3, <1>7, MoveNames DEF Fitting, NoNotify, Notifying, Heads
  <2>7. AddsToCome(p) \subseteq Threads /\ AddsToCome(p)' \subseteq Threads
        /\ Adding(p) \subseteq Threads /\ Notifying(p) \subseteq Threads /\ Through(p) \subseteq Threads
        /\ Adding(p)' \subseteq Threads /\ Notifying(p)' \subseteq Threads /\ Through(p)' \subseteq Threads
    BY CountedSets, CountedSetsNext
  <2>8. Adding(p) \subseteq Adding(p)' /\ AddsToCome(p) \subseteq AddsToCome(p)'
    BY <2>1, <2>2, <2>4, <2>7
  <2>9. Notifying(p)' = Notifying(p)
    BY <2>1, <2>2, <2>4, <2>6, <2>7
  <2>10. Through(p)' = Through(p)
    BY <2>1, <2>3, <2>4, <2>5, <2>7
  <2>11. pc'[Reader(p)] \in {"wait", "blocked"} => pc'[Reader(p)] = pc[Reader(p)]
    BY <1>3, <1>7, ReaderNames
  <2>12. Debt(p) /\ Len(pipe'[p]) \in Nat /\ Len(pipe'[p]) <= Len(pipe[p])
    BY <1>4, PipeLengths DEF DebtInv, Debts
  <2>13. QED
    BY <1>4, <2>8, <2>9, <2>10, <2>11, <2>12, DebtIdle
<1>11. QED
  BY <1>8, <1>10 DEF DebtInv, Debts

LEMMA DebtInvStep == TypeInv /\ TypeInv' /\ DebtInv /\ [Next]_vars => DebtInv'
<1> SUFFICES ASSUME TypeInv, TypeInv', DebtInv, [Next]_vars PROVE DebtInv'
  OBVIOUS
<1>1. CASE \E t \in Threads : ThreadStep(t)
  <2>1. PICK t \in Threads : ThreadStep(t)
    BY <1>1
  <2>2. CASE Step(t)
    BY <2>2, PushDebt, AddDebt, NotifyDebt, KickDebt, CreateDebt DEF Step
  <2>3. CASE ReadCheck(t) \/ ReadWait(t) \/ ReadResume(t)
    BY <2>3, ReadCheckDebt, ReadWaitDebt
  <2>4. CASE (t = "input" /\ UsbWrite) \/ (t = "output" /\ WriteFailed)
    BY <2>4, EndDebt
  <2>5. QED
    BY <2>1, <2>2, <2>3, <2>4 DEF ThreadStep
<1>2. CASE \/ UsbReadFails
           \/ \E packet \in {"CNXN", "DATA"} : UsbRead(packet)
           \/ \E c \in Clients : ClientOpen(c) \/ ClientSend(c)
           \/ \E c \in Closers : CloserClear(c)
  BY <1>2, EndDebt
<1>3. CASE UNCHANGED vars
  <2>1. UNCHANGED <<kicked, pc, todo, pipe, sem>>
    BY <1>3 DEF vars
  <2>2. Shapes'
    <3>1. Leaving' = Leaving
      BY <2>1 DEF Leaving
    <3>2. QED
      BY <2>1, <3>1, Zenon DEF DebtInv, Shapes
  <2>3. ASSUME NEW p \in Pipes PROVE Debt(p)'
    <3>1. /\ Notifying(p)' = Notifying(p) /\ Adding(p)' = Adding(p)
          /\ AddsToCome(p)' = AddsToCome(p) /\ Through(p)' = Through(p)
      BY <2>1, Zenon DEF Notifying, Adding, AddsToCome, Through, Heads, Leaving, WillAdd
    <3>2. /\ Waiting(Reader(p))' <=> Waiting(Reader(p))
          /\ Asleep(Reader(p))' <=> Asleep(Reader(p))
          /\ Writers(p)' = Writers(p)
      BY <2>1, Zenon DEF Waiting, Asleep, Writers
    <3>3. Debt(p)
      BY DEF DebtInv, Debts
    <3>4. QED
      BY <2>1, <3>1, <3>2, <3>3, Zenon DEF Debt
  <2>4. QED
    BY <2>2, <2>3, Zenon DEF DebtInv, Debts
<1>4. QED
  BY <1>1, <1>2, <1>3 DEF Next

-------------------------------------------------------------------------------
(* What the balance says of a reader asleep while nobody Signals its pipe.     *)
LEMMA NobodySignals ==
    ASSUME TypeInv, NEW p \in Pipes, Signalling(p) = {}
    PROVE  /\ Adding(p) = {} /\ AddsToCome(p) = {} /\ Notifying(p) = {}
           /\ \A t \in Threads \ {"starter"} : ~WillAdd(todo[t], p)
<1>1. \A t \in Threads : \A i \in DOMAIN todo[t] : todo[t][i] # On("add", p) /\ todo[t][i] # On("notify", p)
  BY DEF Signalling
<1>2. \A t \in Threads \ {"starter"} : todo[t] \in Seq(Moves)
  BY DEF TypeInv, Places
<1>3. ASSUME NEW t \in Threads \ {"starter"}
      PROVE  ~Heads(t, "add", p) /\ ~Heads(t, "notify", p) /\ ~WillAdd(todo[t], p)
  <2>1. todo[t] \in Seq(Moves) /\ \A i \in 1..Len(todo[t]) : todo[t][i] # On("add", p) /\ todo[t][i] # On("notify", p)
    BY <1>1, <1>2
  <2>2. ~WillAdd(todo[t], p)
    BY <2>1 DEF WillAdd
  <2>3. todo[t] # <<>> => 1 \in 1..Len(todo[t]) /\ Head(todo[t]) = todo[t][1]
    BY <2>1
  <2>4. QED
    BY <2>1, <2>2, <2>3 DEF Heads
<1>4. ASSUME NEW what \in {"add", "notify"} PROVE ~Heads("starter", what, p)
  <2>1. \A x \in PumpThreads : Create(x).do = "create" /\ On(what, p).do # "create"
    BY DEF Create, On
  <2>2. todo["starter"] = <<>> \/ \E x \in PumpThreads : Head(todo["starter"]) = Create(x)
    BY DEF TypeInv, Starting, StartSteps, PumpThreads
  <2>3. QED
    BY <2>1, <2>2 DEF Heads
<1>5. QED
  BY <1>3, <1>4 DEF Adding, AddsToCome, Notifying

\* Who has left has been kicked and has done its adds.
LEMMA LeftThrough ==
    ASSUME TypeInv, DebtInv, NEW p \in Pipes, Signalling(p) = {}
    PROVE  /\ Left \subseteq Through(p) /\ Left \subseteq Threads
           /\ ~kicked => Left = {}
<1>1. Left \subseteq Through(p) /\ Left \subseteq Leaving /\ Left \subseteq Threads \ {"starter"}
  BY NobodySignals, ThreadFacts DEF Left, Through, Leaving
<1>2. ASSUME ~kicked, NEW t \in Left PROVE FALSE
  <2>1. Kicks(todo[t])
    BY <1>1, <1>2 DEF DebtInv, Shapes
  <2>2. WillAdd(todo[t], p)
    BY <2>1 DEF Kicks, WillAdd
  <2>3. QED
    BY <1>1, <2>2, NobodySignals
<1>3. QED
  BY <1>1, <1>2

LEMMA DebtInvImpliesMissedBound == TypeInv /\ DebtInv => MissedBound
<1>1. SUFFICES ASSUME TypeInv, DebtInv, NEW p \in Pipes, Asleep(Reader(p)), Signalling(p) = {}
               PROVE  Len(pipe[p]) + Cardinality(Left) <= Cardinality(Writers(p))
  BY DEF MissedBound
<1>2. PICK c \in Int, n \in Nat, w \in Nat, l \in Nat, a \in Nat, e \in Nat, k \in Nat, W \in Nat :
          Figures(p, c, n, w, l, a, e, k) /\ W = Cardinality(Writers(p)) /\ Balanced(p, c, n, w, l, a, e, k, W)
  BY <1>1, DebtNow DEF DebtInv, Debts
<1>3. n = 0 /\ a = 0 /\ e = 0 /\ l = Len(pipe[p]) /\ k = Cardinality(Through(p))
  BY <1>1, <1>2, NobodySignals, FS_EmptySet DEF Figures
<1>4. PICK x \in Nat : x = Cardinality(Left) /\ x <= k /\ (~kicked => x = 0)
  <2>1. Cardinality(Left) \in Nat /\ Cardinality(Left) <= Cardinality(Through(p))
    BY <1>1, LeftThrough, CountedSets, ThreadsFinite, FewerThreads
  <2>2. ~kicked => Cardinality(Left) = 0
    BY <1>1, LeftThrough, FS_EmptySet
  <2>3. QED
    BY <1>3, <2>1, <2>2
<1>5. c <= 0
  BY <1>1, <1>2, <1>3 DEF Balanced
<1>6. kicked => l + k <= c + e + W
  BY <1>1, <1>2, Zenon DEF Balanced, Waiting
<1>7. ~kicked => l <= c + a + W
  BY <1>1, <1>2, Zenon DEF Balanced, Waiting
<1>8. l + x <= W
  <2>1. l + k <= c + e + W => l + x <= W
    BY <1>3, <1>4, <1>5
  <2>2. x = 0 /\ l <= c + a + W => l + x <= W
    BY <1>3, <1>5
  <2>3. QED
    BY <1>4, <1>6, <1>7, <2>1, <2>2
<1>9. QED
  BY <1>2, <1>3, <1>4, <1>8

\* For any number of callers, packets, Clears and any first count of the semaphores: a
\* reader that sleeps while nobody Signals its pipe has missed, of the packets in it
\* and of the Clears that were finished, no more than the pipe has writers, although
\* the semaphores lose wakeups (Catransport.cpp 1067-1072, 1185-1194, Semaphore.h 13-27).
THEOREM TransportMissedBound == Spec => []MissedBound
<1>1. Init => TypeInv /\ DebtInv
  BY InitTypeInv, InitDebtInv
<1>2. (TypeInv /\ DebtInv) /\ [Next]_vars => (TypeInv /\ DebtInv)'
  BY TypeInvStep, DebtInvStep
<1>3. QED
  BY <1>1, <1>2, DebtInvImpliesMissedBound, PTL DEF Spec

-------------------------------------------------------------------------------
(* How the last Clear is reached.  What output_thread leaves behind: somebody   *)
(* else who leaves, or SYNC(0) on its way to input_thread, which then leaves.   *)
SayBye(s, p) == \E i \in 1..Len(s) : s[i] = PushOf(p, "SYNC0") /\ \A j \in 1..i : s[j] # Do("kick")
Holds(p) == \E i \in 1..Len(pipe[p]) : pipe[p][i] = "SYNC0"

Farewell ==
    \/ \E t \in Leaving : t # "output"
    \/ ~kicked /\ SayBye(todo["output"], "b2a")
    \/ ~kicked /\ SayBye(todo["user"], "a2b")
    \/ Holds("b2a") \/ Holds("a2b")
    \/ kicked /\ pc["user"] = "check"

\* Only who leaves kicks, and where user_thread is when it is committed to something.
Kickers == \A t \in Threads \ {"starter"} : \A i \in 1..Len(todo[t]) : todo[t][i] = Do("kick") => t \in Leaving
UserPlaces == todo["user"] # <<>> => pc["user"] \in {"check", "clear", "exit"}
KickedBy == (kicked => Leaving # {}) /\ (~ok => kicked)

FarewellInv ==
    /\ Kickers /\ UserPlaces /\ KickedBy
    /\ "output" \in Leaving => Farewell

LEMMA OutputUser ==
    /\ "output" \in Threads \ {"starter"} /\ "user" \in Threads \ {"starter"} /\ "input" \in Threads \ {"starter"}
    /\ "output" \in PumpThreads /\ "user" \in PumpThreads /\ "input" \in PumpThreads
    /\ "a2b" \in Pipes /\ "b2a" \in Pipes
  BY ThreadFacts DEF PumpThreads, Pipes

LEMMA InitFarewellInv == Init => FarewellInv
<1> SUFFICES ASSUME Init PROVE FarewellInv
  OBVIOUS
<1>1. \A t \in Threads \ {"starter"} : todo[t] = <<>> /\ pc[t] \in {"none", "idle"}
  BY DEF Init
<1>2. ~kicked /\ ok /\ "output" \notin Leaving
  BY <1>1, OutputUser DEF Init, Leaving
<1>3. QED
  BY <1>1, <1>2, OutputUser DEF FarewellInv, Kickers, UserPlaces, KickedBy

\* What is left to say after the first step.
LEMMA SayByeTail ==
    ASSUME NEW s \in Seq(Moves), s # <<>>, NEW p, SayBye(s, p)
    PROVE  /\ Head(s) # Do("kick")
           /\ Head(s) # PushOf(p, "SYNC0") => SayBye(Tail(s), p)
<1> DEFINE n == Len(s)  w == Tail(s)
<1>1. /\ n \in Nat \ {0} /\ Head(s) = s[1] /\ Len(w) = n - 1
      /\ \A i \in 1..n - 1 : w[i] = s[i + 1]
      /\ \A i \in 2..n : i - 1 \in 1..n - 1 /\ w[i - 1] = s[i]
  BY TailAt
<1> HIDE DEF n, w
<1>2. PICK i \in 1..n : s[i] = PushOf(p, "SYNC0") /\ \A j \in 1..i : s[j] # Do("kick")
  BY DEF SayBye, n
<1>3. Head(s) # Do("kick")
  BY <1>1, <1>2
<1>4. ASSUME Head(s) # PushOf(p, "SYNC0") PROVE SayBye(w, p)
  <2>1. i \in 2..n
    BY <1>1, <1>2, <1>4
  <2>2. i - 1 \in 1..n - 1 /\ w[i - 1] = PushOf(p, "SYNC0")
    BY <1>1, <1>2, <2>1
  <2>3. ASSUME NEW j \in 1..i - 1 PROVE w[j] # Do("kick")
    <3>1. j \in 1..n - 1 /\ j + 1 \in 1..i
      BY <1>1, <2>1, <2>3
    <3>2. QED
      BY <1>1, <1>2, <3>1
  <2>4. QED
    BY <1>1, <2>2, <2>3 DEF SayBye
<1>5. QED
  BY <1>3, <1>4 DEF w

\* A thread does the first step it is committed to: what stays as it is.
LEMMA DropFarewell ==
    ASSUME TypeInv, FarewellInv, NEW t \in Threads,
           NEW what \in {"push", "add", "notify", "kick"}, Drops(t, what)
    PROVE  /\ Kickers' /\ UserPlaces' /\ Leaving' = Leaving
           /\ pc["user"] = "check" => pc'["user"] = "check"
           /\ \A u \in Threads \ {"starter"}, p \in Pipes :
                  SayBye(todo[u], p) => SayBye(todo'[u], p) \/ (u = t /\ Head(todo[t]) = PushOf(p, "SYNC0"))
           /\ SayBye(todo[t], "b2a") => what # "kick"
<1>1. /\ t \in Threads \ {"starter"} /\ todo'[t] = Tail(todo[t])
      /\ todo[t] \in Seq(Moves) /\ todo[t] # <<>> /\ Head(todo[t]) \in Moves /\ Head(todo[t]).do = what
      /\ \A u \in Threads \ {t} : pc'[u] = pc[u] /\ todo'[u] = todo[u]
      /\ Leaving' = Leaving
  BY DropGoes
<1>2. pc'[t] = pc[t] \/ (pc[t] = "clear" /\ pc'[t] = "exit")
  BY DEF Drops
<1>3. Kickers'
  <2>1. SUFFICES ASSUME NEW u \in Threads \ {"starter"}, NEW i \in 1..Len(todo'[u]), todo'[u][i] = Do("kick")
                 PROVE  u \in Leaving
    BY <1>1 DEF Kickers
  <2>2. CASE u # t
    BY <1>1, <2>1, <2>2 DEF FarewellInv, Kickers
  <2>3. CASE u = t
    <3>1. i \in 1..Len(Tail(todo[t])) /\ Tail(todo[t])[i] = Do("kick")
      BY <1>1, <2>1, <2>3
    <3>2. i + 1 \in 1..Len(todo[t]) /\ todo[t][i + 1] = Do("kick")
      BY <1>1, <3>1, TailAt
    <3>3. QED
      BY <1>1, <2>3, <3>2 DEF FarewellInv, Kickers
  <2>4. QED
    BY <2>2, <2>3
<1>4. UserPlaces'
  <2>1. CASE t = "user"
    BY <1>1, <1>2, <2>1 DEF FarewellInv, UserPlaces
  <2>2. CASE t # "user"
    BY <1>1, <2>2, OutputUser DEF FarewellInv, UserPlaces
  <2>3. QED
    BY <2>1, <2>2
<1>5. pc["user"] = "check" => pc'["user"] = "check"
  BY <1>1, <1>2, OutputUser
<1>6. ASSUME NEW u \in Threads \ {"starter"}, NEW p \in Pipes, SayBye(todo[u], p)
      PROVE  SayBye(todo'[u], p) \/ (u = t /\ Head(todo[t]) = PushOf(p, "SYNC0"))
  <2>1. CASE u = t
    BY <1>1, <1>6, <2>1, SayByeTail
  <2>2. CASE u # t
    BY <1>1, <1>6, <2>2
  <2>3. QED
    BY <2>1, <2>2
<1>7. SayBye(todo[t], "b2a") => what # "kick"
  BY <1>1, SayByeTail, MoveNames
<1>8. QED
  BY <1>1, <1>3, <1>4, <1>5, <1>6, <1>7

LEMMA PushFarewell ==
    ASSUME TypeInv, FarewellInv, NEW t \in Threads, Push(t)
    PROVE  FarewellInv'
<1> DEFINE head == Head(todo[t])
<1>1. Drops(t, "push") /\ UNCHANGED <<kicked, pc>>
  BY DEF Push, Drops
<1>2. t \in Threads \ {"starter"} /\ head \in Moves /\ head.do = "push" /\ head.pipe \in Pipes
  BY <1>1, DropGoes
<1>3. /\ Kickers' /\ UserPlaces' /\ Leaving' = Leaving
      /\ \A u \in Threads \ {"starter"}, p \in Pipes :
             SayBye(todo[u], p) => SayBye(todo'[u], p) \/ (u = t /\ head = PushOf(p, "SYNC0"))
  BY <1>1, DropFarewell
<1>4. KickedBy'
  <2>1. ~ok' => kicked
    BY DEF Push, FarewellInv, KickedBy
  <2>2. QED
    BY <1>1, <1>3, <2>1 DEF FarewellInv, KickedBy
<1>5. ASSUME NEW p \in Pipes, Holds(p) PROVE Holds(p)'
  <2>1. CASE pipe' = pipe
    BY <1>5, <2>1 DEF Holds
  <2>2. CASE pipe' # pipe
    <3>1. pipe' = [pipe EXCEPT ![head.pipe] = Append(@, head.packet)]
      BY <2>2 DEF Push
    <3>2. pipe[p] \in Seq(Packets) /\ DOMAIN pipe = Pipes
      BY DEF TypeInv
    <3>3. pipe'[p] = pipe[p] \/ pipe'[p] = Append(pipe[p], head.packet)
      BY <3>1, <3>2
    <3>4. PICK i \in 1..Len(pipe[p]) : pipe[p][i] = "SYNC0"
      BY <1>5 DEF Holds
    <3>5. i \in 1..Len(pipe'[p]) /\ pipe'[p][i] = "SYNC0"
      BY <3>2, <3>3, <3>4
    <3>6. QED
      BY <3>5 DEF Holds
  <2>3. QED
    BY <2>1, <2>2
<1>6. ASSUME ~kicked, NEW p \in Pipes, head = PushOf(p, "SYNC0") PROVE Holds(p)'
  <2>1. pipe' = [pipe EXCEPT ![p] = Append(@, "SYNC0")]
    BY <1>6 DEF Push, PushOf
  <2>2. pipe[p] \in Seq(Packets) /\ DOMAIN pipe = Pipes
    BY DEF TypeInv
  <2>3. pipe'[p] = Append(pipe[p], "SYNC0")
    BY <2>1, <2>2
  <2>4. Len(pipe[p]) + 1 \in 1..Len(pipe'[p]) /\ pipe'[p][Len(pipe[p]) + 1] = "SYNC0"
    BY <2>2, <2>3
  <2>5. QED
    BY <2>4 DEF Holds
<1>7. ASSUME Farewell PROVE Farewell'
  <2>1. CASE \E u \in Leaving : u # "output"
    BY <1>3, <2>1 DEF Farewell
  <2>2. ASSUME NEW u \in {"output", "user"}, NEW p \in Pipes, ~kicked, SayBye(todo[u], p)
        PROVE  ~kicked' /\ (SayBye(todo'[u], p) \/ Holds(p)')
    <3>1. u \in Threads \ {"starter"}
      BY OutputUser
    <3>2. QED
      BY <1>1, <1>3, <1>6, <2>2, <3>1
  <2>3. CASE ~kicked /\ SayBye(todo["output"], "b2a")
    BY <2>2, <2>3, OutputUser DEF Farewell
  <2>4. CASE ~kicked /\ SayBye(todo["user"], "a2b")
    BY <2>2, <2>4, OutputUser DEF Farewell
  <2>5. CASE Holds("b2a") \/ Holds("a2b")
    BY <1>5, <2>5, OutputUser DEF Farewell
  <2>6. CASE kicked /\ pc["user"] = "check"
    BY <1>1, <2>6 DEF Farewell
  <2>7. QED
    BY <1>7, <2>1, <2>3, <2>4, <2>5, <2>6 DEF Farewell
<1>8. QED
  BY <1>3, <1>4, <1>7 DEF FarewellInv

\* An add or a notify pushes nothing.
LEMMA SignalFarewell ==
    ASSUME TypeInv, FarewellInv, NEW t \in Threads, SignalAdd(t) \/ SignalNotify(t)
    PROVE  FarewellInv'
<1>1. PICK what \in {"add", "notify"} : Drops(t, what) /\ UNCHANGED <<kicked, ok, pipe>>
  <2>1. CASE SignalAdd(t)
    BY <2>1 DEF SignalAdd, Drops
  <2>2. CASE SignalNotify(t)
    BY <2>2, ExitDrops DEF SignalNotify
  <2>3. QED
    BY <2>1, <2>2
<1>2. Head(todo[t]).do = what /\ \A p \in Pipes : Head(todo[t]) # PushOf(p, "SYNC0")
  BY <1>1, DropGoes DEF PushOf
<1>3. /\ Kickers' /\ UserPlaces' /\ Leaving' = Leaving
      /\ pc["user"] = "check" => pc'["user"] = "check"
      /\ \A u \in Threads \ {"starter"}, p \in Pipes : SayBye(todo[u], p) => SayBye(todo'[u], p)
  BY <1>1, <1>2, DropFarewell
<1>4. KickedBy' /\ (Farewell => Farewell')
  BY <1>1, <1>3, OutputUser DEF FarewellInv, KickedBy, Farewell, Holds
<1>5. QED
  BY <1>3, <1>4 DEF FarewellInv

LEMMA KickFarewell ==
    ASSUME TypeInv, FarewellInv, NEW t \in Threads, Kick(t)
    PROVE  FarewellInv'
<1>1. Drops(t, "kick") /\ kicked' = TRUE /\ UNCHANGED <<ok, pipe>>
  BY ExitDrops DEF Kick
<1>2. /\ Kickers' /\ UserPlaces' /\ Leaving' = Leaving
      /\ pc["user"] = "check" => pc'["user"] = "check"
      /\ ~SayBye(todo[t], "b2a")
  BY <1>1, DropFarewell
<1>3. t \in Leaving
  <2>1. /\ t \in Threads \ {"starter"} /\ todo[t] \in Seq(Moves) /\ todo[t] # <<>>
        /\ Head(todo[t]) = Do("kick")
    BY <1>1, DropGoes, MoveNames
  <2>2. 1 \in 1..Len(todo[t]) /\ todo[t][1] = Do("kick")
    BY <2>1, TailAt
  <2>3. QED
    BY <2>1, <2>2 DEF FarewellInv, Kickers
<1>4. KickedBy'
  BY <1>1, <1>2, <1>3 DEF KickedBy
<1>5. ASSUME Farewell PROVE Farewell'
  <2>1. CASE t # "output"
    BY <1>2, <1>3, <2>1 DEF Farewell
  <2>2. CASE t = "output" /\ \E u \in Leaving : u # "output"
    BY <1>2, <2>2 DEF Farewell
  <2>3. CASE Holds("b2a") \/ Holds("a2b")
    BY <1>1, <2>3 DEF Farewell, Holds
  <2>4. CASE kicked /\ pc["user"] = "check"
    BY <1>1, <1>2, <2>4 DEF Farewell
  <2>5. CASE SayBye(todo["user"], "a2b")
    <3>1. todo["user"] # <<>>
      BY <2>5 DEF SayBye
    <3>2. pc["user"] = "check" \/ "user" \in Leaving
      BY <3>1, OutputUser DEF FarewellInv, UserPlaces, Leaving
    <3>3. QED
      BY <1>1, <1>2, <3>2 DEF Farewell
  <2>6. QED
    BY <1>2, <1>5, <2>1, <2>2, <2>3, <2>4, <2>5 DEF Farewell
<1>6. QED
  BY <1>2, <1>4, <1>5 DEF FarewellInv

\* A thread that has done all it was committed to goes on with something: it kicks only
\* if it leaves.
KicksLeaving(t, label, steps) ==
    \/ label \in {"clear", "exit"} /\ t \in PumpThreads \cup Closers
    \/ steps \in Seq(Moves \ {Do("kick")})

LEMMA GoesFarewell ==
    ASSUME TypeInv, FarewellInv, NEW t \in Threads \ {"starter"}, NEW label, NEW steps \in Seq(Moves),
           todo[t] = <<>>, pc[t] \notin {"clear", "exit"}, Moved(t, label, steps), UNCHANGED <<kicked, ok>>,
           KicksLeaving(t, label, steps), t = "user" /\ steps # <<>> => label \in {"check", "clear"}
    PROVE  /\ Kickers' /\ UserPlaces' /\ KickedBy'
           /\ pc'[t] = label /\ todo'[t] = steps
           /\ \A u \in Threads \ {t} : pc'[u] = pc[u] /\ todo'[u] = todo[u]
           /\ Leaving' = IF label \in {"clear", "exit"} /\ t \in PumpThreads \cup Closers
                         THEN Leaving \cup {t} ELSE Leaving
<1>1. /\ pc'[t] = label /\ todo'[t] = steps
      /\ \A u \in Threads \ {t} : pc'[u] = pc[u] /\ todo'[u] = todo[u]
  BY ReaderLabels DEF Moved
<1>2. PumpThreads \cup Closers \subseteq Threads
  BY ThreadFacts
<1>3. Leaving' = IF label \in {"clear", "exit"} /\ t \in PumpThreads \cup Closers
                 THEN Leaving \cup {t} ELSE Leaving
  <2>1. t \notin Leaving /\ Leaving \subseteq PumpThreads \cup Closers
    BY DEF Leaving
  <2>2. t \in Leaving' <=> label \in {"clear", "exit"} /\ t \in PumpThreads \cup Closers
    BY <1>1 DEF Leaving
  <2>3. \A u \in (PumpThreads \cup Closers) \ {t} : u \in Leaving' <=> u \in Leaving
    BY <1>1, <1>2 DEF Leaving
  <2>4. Leaving' \subseteq PumpThreads \cup Closers
    BY DEF Leaving
  <2>5. CASE label \in {"clear", "exit"} /\ t \in PumpThreads \cup Closers
    <3>1. \A u : u \in Leaving' <=> u \in Leaving \cup {t}
      BY <2>1, <2>2, <2>3, <2>4, <2>5
    <3>2. QED
      BY <2>5, <3>1
  <2>6. CASE ~(label \in {"clear", "exit"} /\ t \in PumpThreads \cup Closers)
    <3>1. \A u : u \in Leaving' <=> u \in Leaving
      BY <2>1, <2>2, <2>3, <2>4, <2>6
    <3>2. QED
      BY <2>6, <3>1
  <2>7. QED
    BY <2>5, <2>6
<1>4. Kickers'
  <2>1. SUFFICES ASSUME NEW u \in Threads \ {"starter"}, NEW i \in 1..Len(todo'[u]), todo'[u][i] = Do("kick")
                 PROVE  u \in Leaving'
    BY DEF Kickers
  <2>2. CASE u # t
    BY <1>1, <1>3, <2>1, <2>2 DEF FarewellInv, Kickers
  <2>3. CASE u = t
    BY <1>1, <1>3, <2>1, <2>3 DEF KicksLeaving
  <2>4. QED
    BY <2>2, <2>3
<1>5. UserPlaces'
  BY <1>1, OutputUser DEF FarewellInv, UserPlaces
<1>6. KickedBy'
  BY <1>3 DEF FarewellInv, KickedBy
<1>7. QED
  BY <1>1, <1>3, <1>4, <1>5, <1>6

\* It goes on with the pipes as they are, and output_thread does not leave.
LEMMA IdleFarewell ==
    ASSUME TypeInv, FarewellInv, NEW t \in Threads \ {"starter"}, NEW label, NEW steps \in Seq(Moves),
           todo[t] = <<>>, pc[t] \notin {"clear", "exit"}, Moved(t, label, steps), UNCHANGED <<kicked, ok, pipe>>,
           KicksLeaving(t, label, steps), t = "user" /\ steps # <<>> => label \in {"check", "clear"},
           t = "output" => label \notin {"clear", "exit"},
           t = "user" /\ kicked /\ pc["user"] = "check" => label \in {"check", "clear"}
    PROVE  FarewellInv'
<1>1. /\ Kickers' /\ UserPlaces' /\ KickedBy'
      /\ pc'[t] = label /\ todo'[t] = steps
      /\ \A u \in Threads \ {t} : pc'[u] = pc[u] /\ todo'[u] = todo[u]
      /\ Leaving' = IF label \in {"clear", "exit"} /\ t \in PumpThreads \cup Closers
                    THEN Leaving \cup {t} ELSE Leaving
  BY GoesFarewell
<1>2. \A u \in {"output", "user"}, p \in Pipes : SayBye(todo[u], p) => SayBye(todo'[u], p)
  <2>1. SUFFICES ASSUME NEW u \in {"output", "user"}, NEW p \in Pipes, SayBye(todo[u], p)
                 PROVE  SayBye(todo'[u], p)
    OBVIOUS
  <2>2. u # t
    BY <2>1 DEF SayBye
  <2>3. QED
    BY <1>1, <2>1, <2>2, OutputUser
<1>3. ASSUME Farewell PROVE Farewell'
  <2>1. CASE \E u \in Leaving : u # "output"
    BY <1>1, <2>1 DEF Farewell
  <2>2. CASE ~kicked /\ (SayBye(todo["output"], "b2a") \/ SayBye(todo["user"], "a2b"))
    BY <1>2, <2>2, OutputUser DEF Farewell
  <2>3. CASE Holds("b2a") \/ Holds("a2b")
    BY <2>3 DEF Farewell, Holds
  <2>4. CASE kicked /\ pc["user"] = "check"
    <3>1. CASE t = "user"
      BY <1>1, <2>4, <3>1, OutputUser DEF Farewell
    <3>2. CASE t # "user"
      BY <1>1, <2>4, <3>2, OutputUser DEF Farewell
    <3>3. QED
      BY <3>1, <3>2
  <2>5. QED
    BY <1>3, <2>1, <2>2, <2>3, <2>4 DEF Farewell
<1>4. "output" \in Leaving' => "output" \in Leaving
  BY <1>1
<1>5. QED
  BY <1>1, <1>3, <1>4 DEF FarewellInv

LEMMA NoKicks ==
    /\ <<>> \in Seq(Moves \ {Do("kick")})
    /\ \A p \in Pipes, packet \in Packets : Write(p, packet) \in Seq(Moves \ {Do("kick")})
    /\ \A packet \in Packets : \A steps \in Replies(packet) : steps \in Seq(Moves \ {Do("kick")})
<1> DEFINE S == Moves \ {Do("kick")}
<1>1. ASSUME NEW p \in Pipes, NEW packet \in Packets PROVE Write(p, packet) \in Seq(S)
  <2>1. PushOf(p, packet) \in S /\ On("add", p) \in S /\ On("notify", p) \in S
    BY MoveNames DEF PushOf, Do, Moves
  <2>2. <<PushOf(p, packet)>> \in Seq(S) /\ Signal(p) \in Seq(S)
    BY <2>1 DEF Signal
  <2>3. QED
    BY <2>2, ConcatProperties DEF Write, PushOf
<1>2. ASSUME NEW packet \in Packets PROVE \A steps \in Replies(packet) : steps \in Seq(S)
  <2>1. /\ Write("a2b", "SYNC1") \in Seq(S) /\ Write("a2b", "CNXN") \in Seq(S)
        /\ Write("a2b", "SYNC0") \in Seq(S) /\ Write("a2b", "DATA") \in Seq(S)
        /\ <<>> \in Seq(S)
    BY <1>1, OutputUser DEF Packets
  <2>2. Write("a2b", "SYNC1") \o Write("a2b", "CNXN") \in Seq(S)
    BY <2>1, ConcatProperties
  <2>3. packet # "SYNC1" => Replies(packet) \subseteq {<<>>, Write("a2b", packet)}
    BY DEF Replies
  <2>4. packet = "SYNC1" => Replies(packet) = {Write("a2b", "SYNC1") \o Write("a2b", "CNXN")}
    BY DEF Replies
  <2>5. packet # "SYNC1" => Write("a2b", packet) \in Seq(S)
    BY <1>1, OutputUser
  <2>6. QED
    BY <2>1, <2>2, <2>3, <2>4, <2>5
<1>3. QED
  BY <1>1, <1>2

\* SYNC(0) says bye where it is written first.
LEMMA WriteSaysBye ==
    ASSUME NEW p \in Pipes, NEW s \in Seq(Moves)
    PROVE  SayBye(Write(p, "SYNC0"), p) /\ SayBye(Write(p, "SYNC0") \o s, p)
<1> DEFINE w == Write(p, "SYNC0")
<1>1. w \in Seq(Moves) /\ Len(w) \in Nat /\ 1 \in 1..Len(w) /\ w[1] = PushOf(p, "SYNC0")
  <2>1. "SYNC0" \in Packets
    BY DEF Packets
  <2>2. <<PushOf(p, "SYNC0")>> \in Seq(Moves) /\ Signal(p) \in Seq(Moves)
    BY <2>1, SignalType DEF PushOf, Moves
  <2>3. w = <<PushOf(p, "SYNC0")>> \o Signal(p)
    BY DEF Write, PushOf
  <2>4. 1 \in 1..Len(<<PushOf(p, "SYNC0")>>) /\ <<PushOf(p, "SYNC0")>>[1] = PushOf(p, "SYNC0")
    OBVIOUS
  <2> HIDE DEF w
  <2>5. w \in Seq(Moves) /\ 1 \in 1..Len(w) /\ w[1] = PushOf(p, "SYNC0")
    BY <2>2, <2>3, <2>4, ConcatAt
  <2>6. QED
    BY <2>5
<1> HIDE DEF w
<1>2. 1 \in 1..Len(w \o s) /\ (w \o s)[1] = PushOf(p, "SYNC0")
  BY <1>1, ConcatAt
<1>3. PushOf(p, "SYNC0") # Do("kick") /\ 1..1 = {1}
  BY DEF PushOf, Do
<1>4. SayBye(w, p) /\ SayBye(w \o s, p)
  BY <1>1, <1>2, <1>3 DEF SayBye
<1>5. QED
  BY <1>4 DEF w

\* A reader takes a packet: input_thread leaves after SYNC(0), user_thread passes it on.
LEMMA TakeFarewell ==
    ASSUME TypeInv, FarewellInv, NEW t \in {"input", "user"}, pipe[Source(t)] # <<>>, Take(t),
           todo[t] = <<>>, pc[t] \notin {"clear", "exit"}, UNCHANGED <<kicked, ok>>
    PROVE  FarewellInv'
<1> DEFINE q == pipe[Source(t)]  packet == Head(q)
<1>1. t \in Threads \ {"starter"} /\ t \in PumpThreads /\ t # "output" /\ Source(t) \in Pipes
  BY Readers
<1>2. /\ q \in Seq(Packets) /\ packet \in Packets /\ Len(q) \in Nat /\ Len(Tail(q)) = Len(q) - 1
      /\ packet = q[1] /\ \A i \in 1..Len(q) - 1 : Tail(q)[i] = q[i + 1]
  BY <1>1, HeadTailProperties DEF TypeInv
<1>3. pipe'[Source(t)] = Tail(q) /\ \A p \in Pipes \ {Source(t)} : pipe'[p] = pipe[p]
  BY <1>1 DEF Take, TypeInv
<1>4. ASSUME NEW p \in Pipes, Holds(p), p = Source(t) => packet # "SYNC0" PROVE Holds(p)'
  <2>1. PICK i \in 1..Len(pipe[p]) : pipe[p][i] = "SYNC0"
    BY <1>4 DEF Holds
  <2>2. CASE p # Source(t)
    BY <1>3, <2>1, <2>2 DEF Holds
  <2>3. CASE p = Source(t)
    <3>1. i \in 1..Len(q) /\ q[i] = "SYNC0" /\ i # 1
      BY <1>2, <1>4, <2>1, <2>3
    <3>2. i - 1 \in 1..Len(q) - 1 /\ (i - 1) + 1 = i
      BY <1>2, <3>1
    <3>3. Tail(q)[i - 1] = "SYNC0" /\ i - 1 \in 1..Len(Tail(q))
      BY <1>2, <3>1, <3>2
    <3>4. QED
      BY <1>3, <2>3, <3>3 DEF Holds
  <2>4. QED
    BY <2>2, <2>3
<1>5. /\ <<>> \in Seq(Moves) /\ Clear \in Seq(Moves)
      /\ \A steps \in Replies(packet) : steps \in Seq(Moves)
  BY <1>2, ClearType, RepliesType
<1>6. CASE t = "input" /\ packet = "SYNC0"
  <2>1. Moved("input", "clear", Clear)
    BY <1>6 DEF Take, InputTakes, Leave, Goto, Moved
  <2>2. KicksLeaving("input", "clear", Clear)
    BY <1>1, <1>6 DEF KicksLeaving
  <2>3. Kickers' /\ UserPlaces' /\ KickedBy' /\ Leaving' = Leaving \cup {"input"}
    BY <1>1, <1>5, <1>6, <2>1, <2>2, GoesFarewell
  <2>4. QED
    BY <2>3 DEF FarewellInv, Farewell
<1>7. CASE t = "input" /\ packet # "SYNC0"
  <2>1. PICK label \in {"check", "CNXN", "DATA"} : Moved("input", label, <<>>)
    <3>1. packet # "SYNC1" => packet \in {"CNXN", "DATA"}
      BY <1>2, <1>7 DEF Packets
    <3>2. QED
      BY <1>7, <3>1 DEF Take, InputTakes, Goto, Moved
  <2>2. KicksLeaving("input", label, <<>>)
    BY NoKicks DEF KicksLeaving
  <2>3. /\ Kickers' /\ UserPlaces' /\ KickedBy' /\ Leaving' = Leaving
        /\ \A u \in Threads \ {"input"} : pc'[u] = pc[u] /\ todo'[u] = todo[u]
    BY <1>1, <1>5, <1>7, <2>1, <2>2, GoesFarewell
  <2>4. Farewell => Farewell'
    BY <1>4, <1>7, <2>3, OutputUser DEF Farewell
  <2>5. QED
    BY <2>3, <2>4 DEF FarewellInv
<1>8. CASE t = "user"
  <2>1. PICK steps \in Replies(packet) : Moved("user", "check", steps)
    BY <1>8 DEF Take, UserTakes, Goto, Moved
  <2>2. KicksLeaving("user", "check", steps)
    BY <1>2, NoKicks DEF KicksLeaving
  <2>3. /\ Kickers' /\ UserPlaces' /\ KickedBy' /\ Leaving' = Leaving
        /\ pc'["user"] = "check" /\ todo'["user"] = steps
        /\ \A u \in Threads \ {"user"} : pc'[u] = pc[u] /\ todo'[u] = todo[u]
    BY <1>1, <1>5, <1>8, <2>1, <2>2, GoesFarewell
  <2>4. CASE kicked
    BY <2>3, <2>4 DEF FarewellInv, Farewell
  <2>5. CASE ~kicked /\ packet = "SYNC0"
    <3>1. steps = Write("a2b", "SYNC0")
      BY <2>5 DEF Replies
    <3>2. SayBye(todo'["user"], "a2b")
      BY <1>5, <2>3, <3>1, OutputUser, WriteSaysBye
    <3>3. QED
      BY <2>3, <2>5, <3>2 DEF FarewellInv, Farewell
  <2>6. CASE ~kicked /\ packet # "SYNC0"
    <3>1. ~SayBye(todo["user"], "a2b")
      BY <1>8 DEF SayBye
    <3>2. Farewell => Farewell'
      BY <1>4, <2>3, <2>6, <3>1, OutputUser DEF Farewell
    <3>3. QED
      BY <2>3, <3>2 DEF FarewellInv
  <2>7. QED
    BY <2>4, <2>5, <2>6
<1>9. QED
  BY <1>6, <1>7, <1>8

LEMMA PopFarewell ==
    ASSUME TypeInv, FarewellInv, NEW t \in {"input", "user"}, PopAfterWait(t),
           todo[t] = <<>>, pc[t] \notin {"clear", "exit"}, UNCHANGED <<kicked, ok>>
    PROVE  FarewellInv'
<1>1. CASE pipe[Source(t)] # <<>>
  BY <1>1, TakeFarewell DEF PopAfterWait
<1>2. CASE pipe[Source(t)] = <<>>
  <2>1. Moved(t, "check", <<>>) /\ UNCHANGED pipe
    BY <1>2 DEF PopAfterWait, Goto, Moved
  <2>2. KicksLeaving(t, "check", <<>>) /\ t \in Threads \ {"starter"} /\ <<>> \in Seq(Moves)
    BY NoKicks, OutputUser DEF KicksLeaving
  <2>3. QED
    BY <2>1, <2>2, IdleFarewell
<1>3. QED
  BY <1>1, <1>2

LEMMA ReadFarewell ==
    ASSUME TypeInv, FarewellInv, NEW t \in Threads, ReadCheck(t) \/ ReadWait(t) \/ ReadResume(t)
    PROVE  FarewellInv'
<1>1. /\ t \in {"input", "user"} /\ t \in Threads \ {"starter"} /\ t \in PumpThreads
      /\ pc[t] \in {"check", "wait", "blocked"} /\ todo[t] = <<>> /\ UNCHANGED <<kicked, ok>>
  BY OutputUser DEF ReadCheck, ReadWait, ReadResume, At
<1>2. /\ <<>> \in Seq(Moves) /\ Clear \in Seq(Moves) /\ KicksLeaving(t, "clear", Clear)
      /\ \A label \in Labels : KicksLeaving(t, label, <<>>)
  BY <1>1, ClearType, NoKicks DEF KicksLeaving
<1>3. CASE ReadCheck(t) /\ kicked
  <2>1. Moved(t, "clear", Clear) /\ UNCHANGED pipe
    BY <1>3 DEF ReadCheck, Leave, Goto, Moved
  <2>2. QED
    BY <1>1, <1>2, <2>1, IdleFarewell
<1>4. CASE ReadCheck(t) /\ ~kicked /\ pipe[Source(t)] # <<>>
  <2>1. Take(t)
    BY <1>4 DEF ReadCheck
  <2>2. QED
    BY <1>1, <1>4, <2>1, TakeFarewell
<1>5. CASE ReadCheck(t) /\ ~kicked /\ pipe[Source(t)] = <<>>
  <2>1. Moved(t, "wait", <<>>) /\ UNCHANGED pipe
    BY <1>5 DEF ReadCheck, Goto, Moved
  <2>2. QED
    BY <1>1, <1>2, <1>5, <2>1, IdleFarewell DEF Labels
<1>6. CASE (ReadWait(t) \/ ReadResume(t)) /\ PopAfterWait(t)
  BY <1>1, <1>6, PopFarewell
<1>7. CASE ReadWait(t) /\ ~PopAfterWait(t)
  <2>1. Moved(t, "blocked", <<>>) /\ UNCHANGED pipe /\ pc[t] = "wait"
    BY <1>7 DEF ReadWait, At, Goto, Moved
  <2>2. QED
    BY <1>1, <1>2, <2>1, IdleFarewell DEF Labels
<1>8. ReadResume(t) => PopAfterWait(t)
  BY DEF ReadResume
<1>9. QED
  BY <1>3, <1>4, <1>5, <1>6, <1>7, <1>8

LEMMA EndFarewell ==
    ASSUME TypeInv, FarewellInv,
           \/ UsbWrite \/ (\E packet \in {"CNXN", "DATA"} : UsbRead(packet))
           \/ (\E c \in Clients : ClientOpen(c) \/ ClientSend(c)) \/ (\E c \in Closers : CloserClear(c))
    PROVE  FarewellInv'
<1>1. UNCHANGED <<kicked, ok, pipe>>
  BY DEF UsbWrite, UsbRead, ClientOpen, ClientSend, CloserClear
<1>2. ASSUME NEW t \in Threads \ {"starter"}, NEW label, NEW steps \in Seq(Moves),
             todo[t] = <<>>, pc[t] \notin {"clear", "exit"}, Moved(t, label, steps),
             KicksLeaving(t, label, steps), t # "user", t = "output" => label \notin {"clear", "exit"}
      PROVE  FarewellInv'
  BY <1>1, <1>2, IdleFarewell
<1>3. CASE UsbWrite
  <2>1. /\ todo["input"] = <<>> /\ pc["input"] \notin {"clear", "exit"}
        /\ Moved("input", "check", <<>>)
    BY <1>3 DEF UsbWrite, At, Goto, Moved
  <2>2. KicksLeaving("input", "check", <<>>) /\ <<>> \in Seq(Moves)
    BY NoKicks DEF KicksLeaving
  <2>3. QED
    BY <1>2, <2>1, <2>2, OutputUser
<1>4. CASE \E packet \in {"CNXN", "DATA"} : UsbRead(packet)
  <2>1. PICK packet \in {"CNXN", "DATA"} : UsbRead(packet)
    BY <1>4
  <2>2. /\ todo["output"] = <<>> /\ pc["output"] \notin {"clear", "exit"}
        /\ Moved("output", "read", Write("b2a", packet))
    BY <2>1 DEF UsbRead, At, Goto, Moved
  <2>3. packet \in Packets
    BY DEF Packets
  <2>4. KicksLeaving("output", "read", Write("b2a", packet)) /\ Write("b2a", packet) \in Seq(Moves)
    BY <2>3, NoKicks, WriteType, OutputUser DEF KicksLeaving
  <2>5. QED
    BY <1>2, <2>2, <2>4, OutputUser
<1>5. CASE \E c \in Clients : ClientOpen(c) \/ ClientSend(c)
  <2>1. PICK c \in Clients : ClientOpen(c) \/ ClientSend(c)
    BY <1>5
  <2>2. PICK steps \in {<<>>, Write("a2b", "DATA")} :
            todo[c] = <<>> /\ pc[c] \notin {"clear", "exit"} /\ Moved(c, "open", steps)
    BY <2>1 DEF ClientOpen, ClientSend, At, Goto, Moved
  <2>3. c \in Threads \ {"starter"} /\ c \notin PumpThreads
    BY ThreadFacts
  <2>4. KicksLeaving(c, "open", steps) /\ steps \in Seq(Moves)
    <3>1. <<>> \in Seq(Moves \ {Do("kick")}) /\ Write("a2b", "DATA") \in Seq(Moves \ {Do("kick")})
      BY NoKicks, OutputUser DEF Packets
    <3>2. Write("a2b", "DATA") \in Seq(Moves) /\ <<>> \in Seq(Moves)
      BY WriteType, OutputUser DEF Packets
    <3>3. QED
      BY <2>2, <3>1, <3>2 DEF KicksLeaving
  <2>5. QED
    BY <1>2, <2>2, <2>3, <2>4, OutputUser
<1>6. CASE \E c \in Closers : CloserClear(c)
  <2>1. PICK c \in Closers : CloserClear(c)
    BY <1>6
  <2>2. /\ todo[c] = <<>> /\ pc[c] \notin {"clear", "exit"}
        /\ Moved(c, "exit", Clear)
    BY <2>1 DEF CloserClear, At, Goto, Moved
  <2>3. c \in Threads \ {"starter"} /\ c \notin PumpThreads
    BY ThreadFacts
  <2>4. KicksLeaving(c, "exit", Clear) /\ Clear \in Seq(Moves)
    BY ClearType DEF KicksLeaving
  <2>5. QED
    BY <1>2, <2>2, <2>3, <2>4, OutputUser
<1>7. QED
  BY <1>3, <1>4, <1>5, <1>6

\* output_thread leaves: somebody kicked before it, or it has SYNC(0) to say.
LEMMA OutputFarewell ==
    ASSUME TypeInv, FarewellInv, WriteFailed \/ UsbReadFails
    PROVE  FarewellInv'
<1> DEFINE bye == Write("b2a", "SYNC0") \o Clear
<1>1. /\ todo["output"] = <<>> /\ pc["output"] \notin {"clear", "exit"} /\ UNCHANGED <<kicked, ok, pipe>>
      /\ \/ ~ok /\ Moved("output", "clear", Clear)
         \/ Moved("output", "clear", bye)
  BY DEF WriteFailed, UsbReadFails, At, Leave, Goto, Moved
<1>2. Clear \in Seq(Moves) /\ bye \in Seq(Moves)
  BY ClearType, WriteType, OutputUser, ConcatProperties DEF Packets
<1>3. PICK steps \in {Clear, bye} : Moved("output", "clear", steps) /\ (steps = bye \/ ~ok)
  BY <1>1
<1>4. KicksLeaving("output", "clear", steps) /\ steps \in Seq(Moves)
  BY <1>2, OutputUser DEF KicksLeaving
<1>5. /\ Kickers' /\ UserPlaces' /\ KickedBy' /\ Leaving' = Leaving \cup {"output"}
      /\ todo'["output"] = steps
  BY <1>1, <1>3, <1>4, OutputUser, GoesFarewell
<1>6. CASE kicked
  <2>1. PICK u \in Leaving : u # "output"
    BY <1>1, <1>6 DEF FarewellInv, KickedBy, Leaving
  <2>2. QED
    BY <1>5, <2>1 DEF FarewellInv, Farewell
<1>7. CASE ~kicked
  <2>1. steps = bye
    BY <1>3, <1>7 DEF FarewellInv, KickedBy
  <2>2. SayBye(todo'["output"], "b2a")
    BY <1>2, <1>5, <2>1, ClearType, OutputUser, WriteSaysBye
  <2>3. QED
    BY <1>1, <1>5, <1>7, <2>2 DEF FarewellInv, Farewell
<1>8. QED
  BY <1>6, <1>7

LEMMA CreateFarewell ==
    ASSUME TypeInv, FarewellInv, NEW t \in Threads, CreateThread(t)
    PROVE  FarewellInv'
<1>1. PICK new \in PumpThreads :
        /\ Uncreated(new)
        /\ pc' = [pc EXCEPT ![new] = IF new = "output" THEN "read" ELSE "check"]
        /\ todo' = [todo EXCEPT ![t] = Tail(@),
                                ![new] = IF new = "output" THEN Write("b2a", "SYNC1") ELSE <<>>]
  BY Creating
<1>2. t = "starter" /\ new \in Threads \ {"starter"} /\ DOMAIN pc = Threads /\ DOMAIN todo = Threads
  BY Creating, ThreadFacts, ReaderLabels
<1>3. UNCHANGED <<kicked, ok, pipe>>
  BY DEF CreateThread
<1>4. /\ pc'[new] = IF new = "output" THEN "read" ELSE "check"
      /\ todo'[new] = IF new = "output" THEN Write("b2a", "SYNC1") ELSE <<>>
      /\ \A u \in Threads \ {"starter", new} : pc'[u] = pc[u] /\ todo'[u] = todo[u]
  BY <1>1, <1>2
<1>5. todo'[new] \in Seq(Moves \ {Do("kick")})
  BY <1>4, NoKicks, OutputUser DEF Packets
<1>6. Leaving' = Leaving /\ new \notin Leaving
  <2>1. \A u \in PumpThreads \cup Closers : pc'[u] \in {"clear", "exit"} <=> pc[u] \in {"clear", "exit"}
    BY <1>1, <1>4, ThreadFacts DEF Uncreated
  <2>2. QED
    BY <1>1, <2>1 DEF Leaving, Uncreated
<1>7. Kickers'
  <2>1. SUFFICES ASSUME NEW u \in Threads \ {"starter"}, NEW i \in 1..Len(todo'[u]), todo'[u][i] = Do("kick")
                 PROVE  u \in Leaving'
    BY DEF Kickers
  <2>2. CASE u # new
    BY <1>4, <1>6, <2>1, <2>2 DEF FarewellInv, Kickers
  <2>3. CASE u = new
    BY <1>5, <2>1, <2>3
  <2>4. QED
    BY <2>2, <2>3
<1>8. UserPlaces'
  BY <1>4, OutputUser DEF FarewellInv, UserPlaces
<1>9. KickedBy'
  BY <1>3, <1>6 DEF FarewellInv, KickedBy
<1>10. \A u \in {"output", "user"}, p \in Pipes : SayBye(todo[u], p) => SayBye(todo'[u], p)
  <2>1. SUFFICES ASSUME NEW u \in {"output", "user"}, NEW p \in Pipes, SayBye(todo[u], p)
                 PROVE  SayBye(todo'[u], p)
    OBVIOUS
  <2>2. u # new
    BY <1>1, <2>1 DEF SayBye, Uncreated
  <2>3. QED
    BY <1>4, <2>1, <2>2, OutputUser
<1>11. pc["user"] = "check" => pc'["user"] = "check"
  BY <1>1, <1>4, OutputUser DEF Uncreated
<1>12. Farewell => Farewell'
  BY <1>3, <1>6, <1>10, <1>11, OutputUser DEF Farewell, Holds
<1>13. QED
  BY <1>6, <1>7, <1>8, <1>9, <1>12 DEF FarewellInv

LEMMA FarewellInvStep == TypeInv /\ FarewellInv /\ [Next]_vars => FarewellInv'
<1> SUFFICES ASSUME TypeInv, FarewellInv, [Next]_vars PROVE FarewellInv'
  OBVIOUS
<1>1. CASE \E t \in Threads : ThreadStep(t)
  <2>1. PICK t \in Threads : ThreadStep(t)
    BY <1>1
  <2>2. CASE Step(t)
    BY <2>2, PushFarewell, SignalFarewell, KickFarewell, CreateFarewell DEF Step
  <2>3. CASE ReadCheck(t) \/ ReadWait(t) \/ ReadResume(t)
    BY <2>3, ReadFarewell
  <2>4. CASE (t = "input" /\ UsbWrite) \/ (t = "output" /\ WriteFailed)
    BY <2>4, EndFarewell, OutputFarewell
  <2>5. QED
    BY <2>1, <2>2, <2>3, <2>4 DEF ThreadStep
<1>2. CASE \/ \E packet \in {"CNXN", "DATA"} : UsbRead(packet)
           \/ \E c \in Clients : ClientOpen(c) \/ ClientSend(c)
           \/ \E c \in Closers : CloserClear(c)
  BY <1>2, EndFarewell
<1>3. CASE UsbReadFails
  BY <1>3, OutputFarewell
<1>4. CASE UNCHANGED vars
  BY <1>4, Zenon DEF vars, FarewellInv, Kickers, UserPlaces, KickedBy, Farewell, Leaving, Holds
<1>5. QED
  BY <1>1, <1>2, <1>3, <1>4 DEF Next

\* Without clients a pipe has one writer.  A reader asleep after output_thread has left
\* has slept through that one Clear, and so has seen every packet; the other reader
\* has not left, and so sleeps too.  But then nothing is left of the farewell.
LEMMA FarewellWakes ==
    ASSUME Clients = {}, TypeInv, MissedBound, FarewellInv
    PROVE  LastClearWakesReaders
<1>1. SUFFICES ASSUME Cleared, todo["starter"] = <<>>, pc["output"] = "exit",
                      \A t \in {"input", "user"} : pc[t] = "exit" \/ Asleep(t),
                      NEW r \in {"input", "user"}, Asleep(r)
               PROVE  FALSE
  BY DEF LastClearWakesReaders, NoSleeper
<1>2. \A p \in Pipes : Signalling(p) = {}
  BY <1>1 DEF Cleared, Signalling
<1>3. \A p \in Pipes : Cardinality(Writers(p)) = 1
  BY FS_Singleton DEF Writers
<1>4. Left \subseteq Threads /\ "output" \in Left
  BY <1>1, ThreadFacts, OutputUser DEF Left
<1>5. ASSUME NEW p \in Pipes, Asleep(Reader(p)) PROVE pipe[p] = <<>> /\ Left = {"output"}
  <2>1. PICK l \in Nat, x \in Nat : l = Len(pipe[p]) /\ x = Cardinality(Left)
    BY <1>4, PipeLengths, ThreadsFinite
  <2>2. l + x <= 1
    BY <1>2, <1>3, <1>5, <2>1 DEF MissedBound
  <2>3. Cardinality(Left \ {"output"}) = x - 1 /\ x - 1 \in Nat
    BY <1>4, <2>1, OneLess
  <2>4. l = 0 /\ x - 1 = 0
    BY <2>2, <2>3
  <2>5. Left \ {"output"} = {}
    <3>1. IsFiniteSet(Left \ {"output"})
      BY <1>4, ThreadsFinite
    <3>2. QED
      BY <2>3, <2>4, <3>1, FS_EmptySet
  <2>6. pipe[p] = <<>>
    BY <2>1, <2>4, PipeLengths, EmptySeq
  <2>7. QED
    BY <1>4, <2>5, <2>6
<1>6. Left = {"output"}
  BY <1>1, <1>5, Readers
<1>7. \A t \in {"input", "user"} : Asleep(t)
  <2>1. \A t \in {"input", "user"} : pc[t] = "exit" => t \in Left
    BY OutputUser DEF Left
  <2>2. QED
    BY <1>1, <1>6, <2>1
<1>8. pipe["a2b"] = <<>> /\ pipe["b2a"] = <<>>
  BY <1>5, <1>7, OutputUser DEF Reader
<1>9. \A t \in Leaving : t = "output"
  <2>1. SUFFICES ASSUME NEW t \in Leaving, t # "output" PROVE FALSE
    OBVIOUS
  <2>2. pc["input"] = "blocked" /\ pc["user"] = "blocked"
    BY <1>7 DEF Asleep
  <2>3. t \in Closers /\ t \notin PumpThreads /\ t \in Threads
    BY <2>1, <2>2, ThreadFacts DEF Leaving, PumpThreads
  <2>4. pc[t] = "exit"
    BY <2>1, <2>3 DEF TypeInv, Places, Leaving
  <2>5. QED
    BY <1>6, <2>1, <2>3, <2>4 DEF Left
<1>10. pc["user"] # "check" /\ kicked /\ ~Holds("a2b") /\ ~Holds("b2a")
  BY <1>1, <1>7, <1>8 DEF Asleep, Cleared, Holds
<1>11. "output" \in Leaving
  BY <1>1, OutputUser DEF Leaving
<1>12. QED
  BY <1>9, <1>10, <1>11 DEF FarewellInv, Farewell

\* Where no client sends, and for any number of users that call Clear: once output_thread
\* and a reader have left, the other reader does not sleep on with its pointer to the
\* transport (Catransport.h 9, Catransport.cpp 117-124, adb_func.cpp 504-524).
THEOREM TransportLastClearWakesReaders ==
    ASSUME Clients = {} PROVE Spec => []LastClearWakesReaders
<1>1. Init => TypeInv /\ DebtInv /\ FarewellInv
  BY InitTypeInv, InitDebtInv, InitFarewellInv
<1>2. (TypeInv /\ DebtInv /\ FarewellInv) /\ [Next]_vars => (TypeInv /\ DebtInv /\ FarewellInv)'
  BY TypeInvStep, DebtInvStep, FarewellInvStep
<1>3. TypeInv /\ DebtInv /\ FarewellInv => LastClearWakesReaders
  BY DebtInvImpliesMissedBound, FarewellWakes
<1>4. QED
  BY <1>1, <1>2, <1>3, PTL DEF Spec

===============================================================================
