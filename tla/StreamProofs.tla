----------------------------- MODULE StreamProofs -----------------------------
(***************************************************************************)
(* The streams on the channel table: for any number of users, slots, opens *)
(* and packets each slot has one stream at a time, its user finds no data  *)
(* but that stream's, a slot that is free is silent, and Channels          *)
(* implements StreamTable.                                                 *)
(*                                                                         *)
(* While the transport is up the CLSE of a stream is the last that is      *)
(* heard of it, and biptype is "close" from then until the next type is    *)
(* set, so nothing is on its way to or from a closed channel.              *)
(***************************************************************************)
EXTENDS ChannelsProofs

\* The channel user_thread is about to work on.
Beginning(what) ==
    {l \in Slots : /\ todo["user_thread"] # <<>>
                   /\ Head(todo["user_thread"]).do = what /\ Head(todo["user_thread"]).l = l}

\* An OPEN on its way is the only one on its slot, and nothing else is.
Asked ==
    \A i \in DOMAIN toDev : toDev[i].cmd = "OPEN" =>
        /\ biptype[toDev[i].l] # "close" /\ current[toDev[i].l] = toDev[i].n
        /\ slotOf[toDev[i].n] = toDev[i].l /\ toDev[i].n \notin live
        /\ toDev[i].l \notin Beginning("type") /\ \A j \in DOMAIN fromDev : fromDev[j].l # toDev[i].l
        /\ \A j \in DOMAIN toDev : j # i /\ toDev[j].cmd = "OPEN" => toDev[j].l # toDev[i].l

\* A stream of the device is its slot's, and its CLSE has not been sent.
Streaming ==
    \A n \in live :
        /\ biptype[slotOf[n]] # "close" /\ current[slotOf[n]] = n /\ slotOf[n] \notin Beginning("type")
        /\ \A i \in DOMAIN fromDev : fromDev[i].l = slotOf[n] => fromDev[i].cmd # "CLSE"

\* What comes from the device is about the slot's stream, and CLSE comes last.
Arriving ==
    \A i \in DOMAIN fromDev :
        /\ biptype[fromDev[i].l] # "close" /\ current[fromDev[i].l] # 0
        /\ fromDev[i].l \notin Beginning("type")
        /\ fromDev[i].cmd # "CLSE" => fromDev[i].n = current[fromDev[i].l]
        /\ fromDev[i].cmd = "CLSE" => \A j \in DOMAIN fromDev : j > i => fromDev[j].l # fromDev[i].l

Handling ==
    /\ \A l \in Beginning("type") : biptype[l] # "close" /\ current[l] # 0
    /\ \A l \in Beginning("push") : biptype[l] # "close" /\ current[l] = Head(todo["user_thread"]).n

Queued == \A l \in Slots : \A i \in DOMAIN ptrlist[l] : ptrlist[l][i] = current[l]

Using ==
    \A l \in Slots : (user[l] => \E c \in Clients : mine[c] = l) /\ (~user[l] => biptype[l] = "close")

\* What a client relies on for its own channel l.
Leaving == {"type", "opening", "opening_wait", "closing", "closing_wait", "clear", "free"}
Relies(c, l) ==
    /\ pc[c] \in {"clear", "free"} => biptype[l] = "close"
    /\ pc[c] = "open" => biptype[l] # "close" /\ current[l] = 0
    /\ want[c] = "destroy" => pc[c] \in Leaving
Calling == \A c \in Clients : mine[c] # 0 => Relies(c, mine[c])

Up == Asked /\ Streaming /\ Arriving /\ Handling /\ Queued /\ Using /\ Calling

\* Only user_thread works on channels, and begins with what changes their state.
Placed ==
    /\ \A i \in DOMAIN todo["user_thread"] : i > 1 => todo["user_thread"][i].do \notin {"type", "push"}
    /\ \A w \in Workers \ {"user_thread"} : \A i \in DOMAIN todo[w] :
           todo[w][i].do \in {"lock", "free", "add", "notify"}

Numbered == (\A n \in live : n <= opens) /\ (\A l \in Slots : current[l] <= opens)

SlotInv == TypeInv /\ OpensKinds /\ Owned /\ SlotsAreExclusive
StreamInv == SlotInv /\ Numbered /\ OneStreamPerSlot /\ (~kicked => Placed /\ Up)

-------------------------------------------------------------------------------
LEMMA UpImplies ==
    ASSUME SlotInv, ~kicked => Up
    PROVE  NoCrossTalk /\ FreeSlotIsSilent
<1>1. CASE kicked
  BY <1>1 DEF NoCrossTalk, FreeSlotIsSilent
<1>2. CASE ~kicked
  <2>1. NoCrossTalk
    BY <1>2 DEF Up, Queued, NoCrossTalk
  <2>2. ASSUME NEW l \in Slots, ~user[l]
        PROVE  InFlight(l) = {} /\ \A n \in live : slotOf[n] # l
    <3>1. biptype[l] = "close"
      BY <1>2, <2>2 DEF Up, Using
    <3>2. \A i \in DOMAIN toDev : toDev[i].cmd = "OPEN" => toDev[i].l # l
      BY <1>2, <3>1 DEF Up, Asked
    <3>3. \A i \in DOMAIN fromDev : fromDev[i].l # l
      BY <1>2, <3>1 DEF Up, Arriving
    <3>4. \A n \in live : slotOf[n] # l
      BY <1>2, <3>1 DEF Up, Streaming
    <3>5. QED
      BY <3>2, <3>3, <3>4 DEF InFlight
  <2>3. QED
    BY <1>2, <2>1, <2>2 DEF FreeSlotIsSilent
<1>3. QED
  BY <1>1, <1>2

LEMMA InitStreamInv == Init => StreamInv
<1> SUFFICES ASSUME Init PROVE StreamInv
  OBVIOUS
<1>1. SlotInv
  <2>1. OpensKinds /\ Owned /\ SlotsAreExclusive
    BY DEF Init, OpensKinds, Owned, SlotsAreExclusive, Workers
  <2>2. QED
    BY <2>1, InitTypeInv DEF SlotInv
<1>2. Placed /\ Numbered /\ OneStreamPerSlot
  BY DEF Init, Placed, Numbered, OneStreamPerSlot, Workers
<1>3. Up
  <2>1. toDev = <<>> /\ fromDev = <<>> /\ live = {} /\ todo["user_thread"] = <<>>
    BY DEF Init, Workers
  <2>2. Asked /\ Streaming /\ Arriving /\ Handling
    BY <2>1 DEF Asked, Streaming, Arriving, Handling, Beginning
  <2>3. Queued /\ Using /\ Calling
    BY DEF Init, Queued, Using, Calling
  <2>4. QED
    BY <2>2, <2>3 DEF Up
<1>4. QED
  BY <1>1, <1>2, <1>3 DEF StreamInv

-------------------------------------------------------------------------------
(* What leaves the streams alone.                                          *)

\* The OPENs in toDev' are those of toDev, k places on.
Follows(k) ==
    \A i \in DOMAIN toDev' : toDev'[i].cmd = "OPEN" => i + k \in DOMAIN toDev /\ toDev'[i] = toDev[i + k]

LEMMA StreamsKept ==
    ASSUME TypeInv', Up, NEW k \in {0, 1}, Follows(k),
           UNCHANGED <<fromDev, live, slotOf, biptype, current>>,
           Beginning("type")' \subseteq Beginning("type")
    PROVE  Asked' /\ Streaming' /\ Arriving'
<1>1. Asked'
  <2>1. ASSUME NEW i \in DOMAIN toDev', toDev'[i].cmd = "OPEN"
        PROVE  /\ biptype[toDev'[i].l] # "close" /\ current[toDev'[i].l] = toDev'[i].n
               /\ slotOf[toDev'[i].n] = toDev'[i].l /\ toDev'[i].n \notin live
               /\ toDev'[i].l \notin Beginning("type")'
               /\ \A j \in DOMAIN fromDev : fromDev[j].l # toDev'[i].l
               /\ \A j \in DOMAIN toDev' : j # i /\ toDev'[j].cmd = "OPEN" => toDev'[j].l # toDev'[i].l
    <3>1. i + k \in DOMAIN toDev /\ toDev'[i] = toDev[i + k]
      BY <2>1 DEF Follows
    <3>2. ASSUME NEW j \in DOMAIN toDev', j # i, toDev'[j].cmd = "OPEN"
          PROVE  toDev'[j].l # toDev'[i].l
      <4>1. j + k \in DOMAIN toDev /\ toDev'[j] = toDev[j + k]
        BY <3>2 DEF Follows
      <4>2. DOMAIN toDev' = 1..Len(toDev') /\ Len(toDev') \in Nat
        BY DEF TypeInv, Queues
      <4>3. j + k # i + k
        BY <3>2, <4>2
      <4>4. QED
        BY <2>1, <3>1, <3>2, <4>1, <4>3 DEF Up, Asked
    <3>3. QED
      BY <2>1, <3>1, <3>2 DEF Up, Asked
  <2>2. QED
    BY <2>1 DEF Asked
<1>2. Streaming'
  BY DEF Up, Streaming
<1>3. Arriving'
  BY DEF Up, Arriving
<1>4. QED
  BY <1>1, <1>2, <1>3

LEMMA ToDevFollows ==
    ASSUME TypeInv, UNCHANGED toDev
    PROVE  Follows(0)
<1>1. \A i \in DOMAIN toDev : i + 0 = i
  BY DEF TypeInv, Queues
<1>2. QED
  BY <1>1 DEF Follows

\* What is sent beside an OPEN.
NoOpens(msgs) == \A i \in DOMAIN msgs : msgs[i].cmd # "OPEN"

LEMMA SentFollows ==
    ASSUME TypeInv, NEW msgs \in Seq(ToDevice), NoOpens(msgs), toDev' = Sent(msgs)
    PROVE  Follows(0)
<1> DEFINE T == ToDevice  more == IF Repeated(msgs) THEN Tail(msgs) ELSE msgs
<1>1. more \in Seq(T) /\ NoOpens(more)
  <2>1. CASE Repeated(msgs)
    <3>1. msgs # <<>>
      BY <2>1 DEF Repeated
    <3>2. Tail(msgs) \in Seq(T) /\ Len(Tail(msgs)) = Len(msgs) - 1
      BY <3>1, HeadTailProperties
    <3>3. \A i \in 1..Len(Tail(msgs)) : Tail(msgs)[i] = msgs[i + 1] /\ i + 1 \in 1..Len(msgs)
      BY <3>1, <3>2
    <3>4. QED
      BY <2>1, <3>2, <3>3 DEF NoOpens
  <2>2. QED
    BY <2>1
<1>2. toDev \in Seq(T)
  BY DEF TypeInv, Queues
<1> HIDE DEF T
<1>3. CASE kicked
  BY <1>3, ToDevFollows DEF Sent
<1>4. CASE ~kicked
  <2>1. toDev' = toDev \o more
    BY <1>4 DEF Sent
  <2> HIDE DEF more
  <2>2. /\ Len(toDev') = Len(toDev) + Len(more) /\ Len(more) \in Nat /\ Len(toDev) \in Nat
        /\ \A i \in 1..Len(toDev') : i \in 1..Len(toDev) => toDev'[i] = toDev[i]
        /\ \A i \in 1..Len(toDev') : i \notin 1..Len(toDev) =>
               i - Len(toDev) \in 1..Len(more) /\ toDev'[i] = more[i - Len(toDev)]
    BY <1>1, <1>2, <2>1
  <2>3. DOMAIN toDev' = 1..Len(toDev') /\ DOMAIN toDev = 1..Len(toDev) /\ DOMAIN more = 1..Len(more)
    BY <1>1, <1>2, <2>1, ConcatProperties
  <2>4. ASSUME NEW i \in DOMAIN toDev', toDev'[i].cmd = "OPEN"
        PROVE  i + 0 \in DOMAIN toDev /\ toDev'[i] = toDev[i + 0]
    <3>1. i \in 1..Len(toDev)
      BY <1>1, <2>2, <2>3, <2>4 DEF NoOpens
    <3>2. QED
      BY <2>2, <2>3, <3>1
  <2>5. QED
    BY <2>4 DEF Follows
<1>5. QED
  BY <1>3, <1>4

LEMMA ToRemoteNoOpens ==
    ASSUME NEW cmd \in {"READY", "CLSE"}, NEW n, NEW l
    PROVE  NoOpens(ToRemote(cmd, n, l))
  BY DEF NoOpens, ToRemote, Msg

\* Nothing on its way knows of a closed channel.
LEMMA ClosedSlotUnknown ==
    ASSUME TypeInv, Up, NEW s \in Slots, biptype[s] = "close",
           UNCHANGED <<toDev, fromDev, live, slotOf>>, todo'["user_thread"] = todo["user_thread"],
           \A l \in Slots \ {s} : biptype'[l] = biptype[l] /\ current'[l] = current[l]
    PROVE  Asked' /\ Streaming' /\ Arriving' /\ Handling'
<1>1. /\ \A i \in DOMAIN toDev : toDev[i].cmd = "OPEN" => toDev[i].l \in Slots \ {s}
      /\ \A i \in DOMAIN fromDev : fromDev[i].l \in Slots \ {s}
      /\ \A n \in live : slotOf[n] \in Slots \ {s}
  <2>1. /\ \A i \in DOMAIN toDev : toDev[i] \in ToDevice
        /\ \A i \in DOMAIN fromDev : fromDev[i] \in FromDevice
    BY DEF TypeInv, Queues
  <2>2. /\ \A i \in DOMAIN toDev : toDev[i].l \in Slots
        /\ \A i \in DOMAIN fromDev : fromDev[i].l \in Slots
        /\ \A n \in live : slotOf[n] \in Slots
    BY <2>1 DEF ToDevice, FromDevice, TypeInv, Queues
  <2>3. QED
    BY <2>2 DEF Up, Asked, Streaming, Arriving
<1>2. Beginning("type")' = Beginning("type") /\ Beginning("push")' = Beginning("push")
  BY DEF Beginning
<1>3. Asked'
  BY <1>1, <1>2 DEF Up, Asked
<1>4. Streaming'
  BY <1>1, <1>2 DEF Up, Streaming
<1>5. Arriving'
  BY <1>1, <1>2 DEF Up, Arriving
<1>6. Handling'
  <2>1. /\ Beginning("type") \subseteq Slots \ {s} /\ Beginning("push") \subseteq Slots \ {s}
        /\ Head(todo["user_thread"])' = Head(todo["user_thread"])
    BY DEF Up, Handling, Beginning
  <2>2. QED
    BY <1>2, <2>1 DEF Up, Handling
<1>7. QED
  BY <1>3, <1>4, <1>5, <1>6

-------------------------------------------------------------------------------
(* The users' calls that change no channel.                                *)

\* A client goes on; the channels stay as they are, and no OPEN is sent.
LEMMA CallUp ==
    ASSUME SlotInv, TypeInv', Up, NEW c \in Clients, NEW label, Goto(c, label),
           UNCHANGED <<fromDev, live, slotOf, biptype, current, user, mine>>,
           todo'["user_thread"] = todo["user_thread"],
           \A d \in Clients \ {c} : want'[d] = want[d],
           Follows(0), Queued',
           label \in {"clear", "free"} /\ mine[c] # 0 => biptype[mine[c]] = "close",
           label # "open",
           want'[c] = "destroy" /\ mine[c] # 0 => label \in Leaving
    PROVE  Up'
<1>1. Beginning("type")' = Beginning("type") /\ Beginning("push")' = Beginning("push")
  BY DEF Beginning
<1>2. Asked' /\ Streaming' /\ Arriving'
  BY <1>1, StreamsKept DEF SlotInv
<1>3. Handling'
  BY <1>1 DEF Up, Handling
<1>4. Using'
  BY DEF Up, Using
<1>5. Calling'
  <2>1. pc'[c] = label /\ \A d \in Clients \ {c} : pc'[d] = pc[d]
    BY DEF Goto, SlotInv, TypeInv, CallTypes
  <2>2. ASSUME NEW d \in Clients \ {c}, mine[d] # 0 PROVE Relies(d, mine[d])'
    BY <2>1, <2>2 DEF Up, Calling, Relies
  <2>3. mine[c] # 0 => Relies(c, mine[c])'
    BY <2>1 DEF Relies
  <2>4. QED
    BY <2>2, <2>3 DEF Calling
<1>6. QED
  BY <1>2, <1>3, <1>4, <1>5 DEF Up

LEMMA OwnsSlot ==
    ASSUME SlotInv, ~kicked, NEW c \in Clients, pc[c] \notin Outside
    PROVE  mine[c] \in Slots /\ mine[c] # 0 /\ user[mine[c]]
<1>1. mine[c] \in Slots /\ mine[c] # 0
  BY SlotOfClient, ChannelsAssumption DEF SlotInv, Slots
<1>2. QED
  BY <1>1 DEF SlotInv, Owned

\* The last call of a client that leaves is its Close.
LEMMA NotLeaving ==
    ASSUME SlotInv, ~kicked, Up, NEW c \in Clients, pc[c] \notin Outside, pc[c] \notin Leaving
    PROVE  want[c] # "destroy"
  BY OwnsSlot DEF Up, Calling, Relies

LEMMA OnlyPcUp ==
    ASSUME SlotInv, TypeInv', ~kicked, Up, NEW c \in Clients,
           \/ Construct(c) \/ TypeSetBegin(c) \/ TypeSetClosing(c)
           \/ Connect(c) \/ Connected(c) \/ WriteBegin(c)
    PROVE  Up'
<1>1. OnlyPc(c)
  BY DEF Construct, TypeSetBegin, TypeSetClosing, Connect, Connected, WriteBegin
<1>2. UNCHANGED <<fromDev, live, slotOf, biptype, current, user, mine, todo, want, toDev, ptrlist>>
  BY <1>1 DEF OnlyPc, table, adbd
<1>3. Queued' /\ Follows(0)
  BY <1>2, ToDevFollows DEF Up, Queued, SlotInv
<1>4. \E label : /\ Goto(c, label) /\ label # "open"
                 /\ label \in {"clear", "free"} /\ mine[c] # 0 => biptype[mine[c]] = "close"
                 /\ want[c] = "destroy" /\ mine[c] # 0 => label \in Leaving
  <2>1. CASE Construct(c)
    <3>1. Goto(c, "ctor") /\ mine[c] = 0
      BY <2>1 DEF Construct, SlotInv, TypeInv, CallTypes
    <3>2. QED
      BY <3>1
  <2>2. CASE TypeSetBegin(c)
    <3>1. Present(mine[c])
      BY <2>2, OwnsSlot DEF TypeSetBegin, Outside, Present
    <3>2. Goto(c, IF biptype[mine[c]] = "close" THEN "clear" ELSE "opening")
      BY <2>2, <3>1 DEF TypeSetBegin
    <3>3. QED
      BY <3>2 DEF Leaving
  <2>3. CASE TypeSetClosing(c)
    <3>1. Goto(c, IF biptype[mine[c]] = "close" THEN "clear" ELSE "closing_wait")
      BY <2>3 DEF TypeSetClosing
    <3>2. QED
      BY <3>1 DEF Leaving
  <2>4. CASE Connect(c) \/ Connected(c) \/ WriteBegin(c)
    <3>1. want[c] # "destroy"
      BY <2>4, NotLeaving DEF Connect, Connected, WriteBegin, Outside, Leaving
    <3>2. \E label \in {"connect_wait", "connected", "idle", "write"} : Goto(c, label)
      BY <2>4, <3>1 DEF Connect, Connected, WriteBegin, Return
    <3>3. QED
      BY <3>1, <3>2
  <2>5. QED
    BY <2>1, <2>2, <2>3, <2>4
<1>5. QED
  BY <1>2, <1>3, <1>4, CallUp

LEMMA SendUp ==
    ASSUME SlotInv, TypeInv', ~kicked, Up, NEW c \in Clients, TypeSetOpening(c) \/ Write(c)
    PROVE  Up'
<1> DEFINE l == mine[c]
<1>1. /\ l \in Slots
      /\ UNCHANGED <<fromDev, live, slotOf, biptype, current, user, mine, todo, want, ptrlist>>
  BY OwnsSlot DEF TypeSetOpening, Write, Outside, table, adbd
<1>2. Queued'
  BY <1>1 DEF Up, Queued
<1>3. remote_id[l] \in 0..MaxOpens
  BY <1>1 DEF SlotInv, TypeInv, Tables
<1>4. CASE TypeSetOpening(c)
  <2>1. \E label \in {"opening_wait", "closing"} : Goto(c, label)
    BY <1>4 DEF TypeSetOpening
  <2>2. Follows(0)
    <3> DEFINE ready == ToRemote("READY", remote_id[l], l)  clse == ToRemote("CLSE", remote_id[l], l)
    <3>1. CASE UNCHANGED toDev
      BY <3>1, ToDevFollows DEF SlotInv
    <3>2. CASE toDev' = Sent(ready \o clse)
      <4>1. /\ ready \in Seq(ToDevice) /\ clse \in Seq(ToDevice)
            /\ NoOpens(ready) /\ NoOpens(clse)
        BY <1>1, <1>3, ToRemoteType, ToRemoteNoOpens
      <4> HIDE DEF ready, clse
      <4> DEFINE T == ToDevice
      <4>2. ready \in Seq(T) /\ clse \in Seq(T)
        BY <4>1
      <4> HIDE DEF T
      <4>3. ready \o clse \in Seq(T) /\ NoOpens(ready \o clse)
        <5>1. /\ DOMAIN (ready \o clse) = 1..(Len(ready) + Len(clse))
              /\ Len(ready) \in Nat /\ Len(clse) \in Nat
              /\ DOMAIN ready = 1..Len(ready) /\ DOMAIN clse = 1..Len(clse)
          BY <4>2
        <5>2. \A i \in 1..(Len(ready) + Len(clse)) :
                  \/ i \in 1..Len(ready) /\ (ready \o clse)[i] = ready[i]
                  \/ i - Len(ready) \in 1..Len(clse) /\ (ready \o clse)[i] = clse[i - Len(ready)]
          BY <4>2
        <5>3. \A i \in 1..(Len(ready) + Len(clse)) : (ready \o clse)[i].cmd # "OPEN"
          BY <4>1, <5>1, <5>2 DEF NoOpens
        <5>4. NoOpens(ready \o clse)
          BY <5>1, <5>3 DEF NoOpens
        <5>5. QED
          BY <4>2, <5>4, ConcatProperties
      <4>4. QED
        BY <3>2, <4>3, SentFollows DEF SlotInv, T
    <3>3. QED
      BY <1>4, <3>1, <3>2 DEF TypeSetOpening
  <2>3. QED
    BY <1>1, <1>2, <2>1, <2>2, CallUp DEF Leaving
<1>5. CASE Write(c)
  <2>1. Goto(c, "idle") /\ want[c] # "destroy"
    BY <1>5, NotLeaving DEF Write, Outside, Leaving
  <2>2. Follows(0)
    <3> DEFINE m == Msg("WRTE", remote_id[l], l)
    <3>1. m \in ToDevice /\ m.cmd # "OPEN"
      BY <1>1, <1>3 DEF ToDevice, Msg
    <3>2. toDev' = Sent(<<m>>)
      BY <1>5 DEF Write
    <3> HIDE DEF m
    <3>3. <<m>> \in Seq(ToDevice) /\ NoOpens(<<m>>)
      BY <3>1 DEF NoOpens
    <3>4. QED
      BY <3>2, <3>3, SentFollows DEF SlotInv
  <2>3. QED
    BY <1>1, <1>2, <2>1, <2>2, CallUp
<1>6. QED
  BY <1>4, <1>5

LEMMA RecvUp ==
    ASSUME SlotInv, TypeInv', ~kicked, Up, NEW c \in Clients,
           RecvBegin(c) \/ Recv(c) \/ RecvEmpty(c) \/ RecvTimeout(c)
    PROVE  Up'
<1> DEFINE l == mine[c]
<1>1. /\ pc[c] \in {"idle", "recv", "recv_empty", "recv_wait"}
      /\ UNCHANGED <<fromDev, live, slotOf, biptype, current, user, mine, todo, want>>
  BY DEF RecvBegin, Recv, RecvEmpty, RecvTimeout, table, adbd
<1>2. l \in Slots
  BY <1>1, OwnsSlot DEF Outside
<1>3. want[c] # "destroy"
  BY <1>1, NotLeaving DEF Outside, Leaving
<1>4. \E label \in {"recv", "recv_empty", "recv_wait", "idle"} : Goto(c, label)
  BY <1>3 DEF RecvBegin, Recv, RecvEmpty, RecvTimeout, Stop, Return
<1>5. Queued'
  <2>1. CASE UNCHANGED ptrlist
    BY <1>1, <2>1 DEF Up, Queued
  <2>2. CASE ptrlist' = [ptrlist EXCEPT ![l] = Tail(@)] /\ ptrlist[l] # <<>>
    <3>1. ptrlist[l] \in Seq(Opens) /\ ptrlist'[l] = Tail(ptrlist[l])
          /\ \A k \in Slots \ {l} : ptrlist'[k] = ptrlist[k]
      BY <1>2, <2>2 DEF SlotInv, TypeInv, Tables
    <3>2. \A i \in DOMAIN Tail(ptrlist[l]) :
              Tail(ptrlist[l])[i] = ptrlist[l][i + 1] /\ i + 1 \in DOMAIN ptrlist[l]
      BY <2>2, <3>1
    <3>3. \A i \in DOMAIN Tail(ptrlist[l]) : Tail(ptrlist[l])[i] = current[l]
      BY <1>2, <3>2 DEF Up, Queued
    <3>4. QED
      BY <1>1, <3>1, <3>3, ZenonT(60) DEF Up, Queued
  <2>3. QED
    BY <2>1, <2>2 DEF RecvBegin, Recv, RecvEmpty, RecvTimeout, table
<1>6. Follows(0)
  <2>1. CASE UNCHANGED toDev
    BY <2>1, ToDevFollows DEF SlotInv
  <2>2. CASE toDev' = Sent(ToRemote("READY", rid[c], l))
    <3>1. rid[c] \in 0..MaxOpens
      BY DEF SlotInv, TypeInv, CallTypes
    <3>2. QED
      BY <1>2, <2>2, <3>1, ToRemoteType, ToRemoteNoOpens, SentFollows DEF SlotInv
  <2>3. QED
    BY <2>1, <2>2 DEF RecvBegin, Recv, RecvEmpty, RecvTimeout
<1>7. QED
  BY <1>1, <1>3, <1>4, <1>5, <1>6, CallUp

LEMMA WaitUp ==
    ASSUME SlotInv, TypeInv', ~kicked, Up, NEW c \in Clients, Wait(c) \/ WaitResume(c)
    PROVE  Up'
<1>1. /\ UNCHANGED <<fromDev, live, slotOf, biptype, current, user, mine, todo, want, toDev, ptrlist>>
      /\ pc[c] \in {"opening_wait", "closing_wait", "connect_wait", "recv_wait"}
  BY DEF Wait, WaitResume, adbd, AfterWait
<1>2. Queued' /\ Follows(0)
  BY <1>1, ToDevFollows DEF Up, Queued, SlotInv
<1>3. Goto(c, pc[c]) \/ Goto(c, AfterWait[pc[c]])
  <2>1. CASE UNCHANGED pc
    BY <2>1 DEF Goto, SlotInv, TypeInv, CallTypes
  <2>2. QED
    BY <2>1 DEF Wait, WaitResume
<1>4. pc[c] \notin Leaving => want[c] # "destroy"
  BY <1>1, NotLeaving DEF Outside
<1>5. \E label \in {"opening_wait", "closing_wait", "connect_wait", "recv_wait",
                    "opening", "closing", "connected", "recv"} :
          /\ Goto(c, label)
          /\ label \notin Leaving => pc[c] \notin Leaving
  BY <1>1, <1>3 DEF AfterWait, Leaving
<1>6. QED
  BY <1>1, <1>2, <1>4, <1>5, CallUp DEF Leaving

LEMMA CallBeginsUp ==
    ASSUME SlotInv, TypeInv', ~kicked, Up, NEW c \in Clients,
           NEW type \in Kinds \cup {"close", "destroy"}, Call(c, type)
    PROVE  Up'
<1>1. /\ UNCHANGED <<fromDev, live, slotOf, biptype, current, user, mine, todo, toDev, ptrlist>>
      /\ Goto(c, "type") /\ want' = [want EXCEPT ![c] = type]
  BY DEF Call, table, adbd
<1>2. Queued' /\ Follows(0)
  BY <1>1, ToDevFollows DEF Up, Queued, SlotInv
<1>3. \A d \in Clients \ {c} : want'[d] = want[d]
  BY <1>1 DEF SlotInv, TypeInv, CallTypes
<1>4. QED
  BY <1>1, <1>2, <1>3, CallUp DEF Leaving

-------------------------------------------------------------------------------
(* The users' calls that change their channel.                             *)

\* No other client relies on the channel of one that changes it.
LEMMA CallingKept ==
    ASSUME SlotInv, Up, NEW c \in Clients, NEW s \in Slots,
           \A d \in Clients \ {c} : /\ pc'[d] = pc[d] /\ mine'[d] = mine[d] /\ mine[d] # s
                                    /\ want'[d] = want[d],
           \A l \in Slots \ {s} : biptype'[l] = biptype[l] /\ current'[l] = current[l]
    PROVE  \A d \in Clients \ {c} : mine'[d] # 0 => Relies(d, mine[d])'
<1> SUFFICES ASSUME NEW d \in Clients \ {c}, mine'[d] # 0 PROVE Relies(d, mine[d])'
  OBVIOUS
<1>1. mine[d] \in Slots \ {s} /\ mine[d] # 0
  BY ChannelsAssumption DEF SlotInv, TypeInv, CallTypes, Slots
<1>2. QED
  BY <1>1 DEF Up, Calling, Relies

LEMMA Alone ==
    ASSUME SlotInv, ~kicked, NEW c \in Clients, pc[c] \notin Outside
    PROVE  \A d \in Clients \ {c} : mine[d] # mine[c]
  BY OwnsSlot DEF SlotInv, SlotsAreExclusive

\* client_clear and client_init empty the queue.
LEMMA ClearedQueue ==
    ASSUME SlotInv, Up, NEW s \in Slots, Cleared(s)
    PROVE  Queued' /\ \A l \in Slots \ {s} : current'[l] = current[l]
<1>1. /\ ptrlist'[s] = <<>> /\ \A l \in Slots \ {s} : ptrlist'[l] = ptrlist[l]
      /\ \A l \in Slots \ {s} : current'[l] = current[l]
  BY DEF SlotInv, TypeInv, Tables, Cleared
<1>2. QED
  BY <1>1 DEF Up, Queued

LEMMA TypeSetDoneUp ==
    ASSUME SlotInv, ~kicked, Up, NEW c \in Clients, TypeSetDone(c)
    PROVE  Up'
<1> DEFINE l == mine[c]
<1>1. /\ l \in Slots /\ l # 0 /\ user[l] /\ \A d \in Clients \ {c} : mine[d] # l
      /\ biptype[l] = "close" /\ pc[c] = "clear"
  BY OwnsSlot, Alone DEF TypeSetDone, Outside, Up, Calling, Relies
<1>2. /\ UNCHANGED <<toDev, fromDev, live, slotOf, todo, user, mine, want>>
      /\ Cleared(l) /\ Goto(c, IF want[c] \in Kinds THEN "open" ELSE IF want[c] = "destroy" THEN "free" ELSE "idle")
      /\ biptype' = [biptype EXCEPT ![l] = IF want[c] \in Kinds THEN want[c] ELSE "close"]
  BY DEF TypeSetDone, adbd, Return
<1>3. /\ Queued' /\ current'[l] = 0 /\ \A k \in Slots \ {l} : current'[k] = current[k]
  BY <1>1, <1>2, ClearedQueue DEF Cleared, SlotInv, TypeInv, Tables
<1>4. /\ \A k \in Slots \ {l} : biptype'[k] = biptype[k]
      /\ biptype'[l] = IF want[c] \in Kinds THEN want[c] ELSE "close"
  BY <1>1, <1>2 DEF SlotInv, TypeInv, Tables
<1>5. Asked' /\ Streaming' /\ Arriving' /\ Handling'
  BY <1>1, <1>2, <1>3, <1>4, ClosedSlotUnknown DEF SlotInv
<1>6. Using'
  BY <1>1, <1>2, <1>4 DEF Up, Using
<1>7. Calling'
  <2>1. /\ \A d \in Clients \ {c} : pc'[d] = pc[d]
        /\ pc'[c] = IF want[c] \in Kinds THEN "open" ELSE IF want[c] = "destroy" THEN "free" ELSE "idle"
    BY <1>2 DEF Goto, SlotInv, TypeInv, CallTypes
  <2>2. \A d \in Clients \ {c} : mine'[d] # 0 => Relies(d, mine[d])'
    BY <1>1, <1>2, <1>3, <1>4, <2>1, CallingKept
  <2>3. Relies(c, l)'
    <3>1. Kinds \subseteq {"shell", "forward", "toolong"}
      BY ChannelsAssumption
    <3>2. CASE want[c] \in Kinds
      BY <1>2, <1>3, <1>4, <2>1, <3>1, <3>2 DEF Relies
    <3>3. CASE want[c] \notin Kinds
      BY <1>2, <1>4, <2>1, <3>3 DEF Relies, Leaving
    <3>4. QED
      BY <3>2, <3>3
  <2>4. QED
    BY <1>2, <2>2, <2>3 DEF Calling
<1>8. QED
  BY <1>3, <1>5, <1>6, <1>7 DEF Up

LEMMA ClientGetIdUp ==
    ASSUME SlotInv, ~kicked, Up, NEW c \in Clients, ClientGetId(c)
    PROVE  Up'
<1>0. CASE \A l \in Slots : user[l]
  <2>1. /\ UNCHANGED <<toDev, fromDev, live, slotOf, todo, user, mine, want, biptype, current, ptrlist>>
        /\ Goto(c, "out") /\ mine[c] = 0
    BY <1>0 DEF ClientGetId, table, adbd, SlotInv, TypeInv, CallTypes
  <2>2. Beginning("type")' = Beginning("type") /\ Beginning("push")' = Beginning("push")
    BY <2>1 DEF Beginning
  <2>3. Asked' /\ Streaming' /\ Arriving' /\ Handling' /\ Queued' /\ Using'
    BY <2>1, <2>2 DEF Up, Asked, Streaming, Arriving, Handling, Queued, Using
  <2>4. \A d \in Clients \ {c} : pc'[d] = pc[d]
    BY <2>1 DEF Goto, SlotInv, TypeInv, CallTypes
  <2>5. Calling'
    BY <2>1, <2>4 DEF Up, Calling, Relies
  <2>6. QED
    BY <2>3, <2>5 DEF Up
<1>1. CASE ~ \A l \in Slots : user[l]
  <2>1. PICK l \in Slots :
            /\ ~user[l] /\ ClientInit(l)
            /\ user' = [user EXCEPT ![l] = TRUE] /\ mine' = [mine EXCEPT ![c] = l]
            /\ Goto(c, "idle") /\ want' = [want EXCEPT ![c] = "close"]
            /\ UNCHANGED <<toDev, fromDev, live, slotOf, todo>>
    <3> DEFINE l == CHOOSE l \in Slots : ~user[l] /\ \A k \in Slots : ~user[k] => l <= k
    <3>1. l \in Slots /\ ~user[l]
      BY <1>1, FirstFree
    <3>2. QED
      BY <1>1, <3>1 DEF ClientGetId, adbd
  <2>2. l \in Slots /\ ~user[l]
    BY <2>1
  <2>3. /\ \A d \in Clients : mine[d] # l
        /\ biptype[l] = "close" /\ l # 0
    BY <2>2, ChannelsAssumption DEF Up, Using, SlotInv, Owned, Slots
  <2>4. Queued' /\ \A k \in Slots \ {l} : current'[k] = current[k]
    BY <2>1, <2>2, ClearedQueue DEF ClientInit
  <2>5. biptype'[l] = "close" /\ \A k \in Slots \ {l} : biptype'[k] = biptype[k]
    BY <2>1, <2>2 DEF ClientInit, SlotInv, TypeInv, Tables
  <2>6. Asked' /\ Streaming' /\ Arriving' /\ Handling'
    BY <2>1, <2>2, <2>3, <2>4, <2>5, ClosedSlotUnknown DEF SlotInv
  <2>7. mine'[c] = l /\ \A d \in Clients \ {c} : mine'[d] = mine[d]
    BY <2>1 DEF SlotInv, TypeInv, CallTypes
  <2>8. Using'
    <3>1. user'[l] /\ \A k \in Slots \ {l} : user'[k] = user[k]
      BY <2>1, <2>2 DEF SlotInv, TypeInv, Tables
    <3>2. ASSUME NEW k \in Slots \ {l}
          PROVE  (user'[k] => \E d \in Clients : mine'[d] = k) /\ (~user'[k] => biptype'[k] = "close")
      <4>1. mine[c] # k
        BY <2>1, ChannelsAssumption DEF ClientGetId, SlotInv, TypeInv, CallTypes, Slots
      <4>2. QED
        BY <2>5, <2>7, <3>1, <4>1 DEF Up, Using
    <3>3. QED
      BY <2>7, <3>1, <3>2 DEF Using
  <2>9. Calling'
    <3>1. pc'[c] = "idle" /\ \A d \in Clients \ {c} : pc'[d] = pc[d]
      BY <2>1 DEF Goto, SlotInv, TypeInv, CallTypes
    <3>2. want'[c] = "close" /\ \A d \in Clients \ {c} : want'[d] = want[d]
      BY <2>1 DEF SlotInv, TypeInv, CallTypes
    <3>3. \A d \in Clients \ {c} : mine'[d] # 0 => Relies(d, mine[d])'
      BY <2>1, <2>2, <2>3, <2>4, <2>5, <2>7, <3>1, <3>2, CallingKept
    <3>4. Relies(c, l)'
      BY <3>1, <3>2 DEF Relies
    <3>5. QED
      BY <2>7, <3>3, <3>4 DEF Calling
  <2>10. QED
    BY <2>4, <2>6, <2>8, <2>9 DEF Up
<1>2. QED
  BY <1>0, <1>1

LEMMA ClientFreeIdUp ==
    ASSUME SlotInv, ~kicked, Up, NEW c \in Clients, ClientFreeId(c)
    PROVE  Up'
<1> DEFINE l == mine[c]
<1>1. /\ l \in Slots /\ l # 0 /\ user[l] /\ \A d \in Clients \ {c} : mine[d] # l
      /\ biptype[l] = "close"
  BY OwnsSlot, Alone DEF ClientFreeId, Outside, Up, Calling, Relies
<1>2. /\ UNCHANGED <<toDev, fromDev, live, slotOf, want>>
      /\ ClientInit(l) /\ Goto(c, "out")
      /\ user' = [user EXCEPT ![l] = FALSE] /\ mine' = [mine EXCEPT ![c] = 0]
      /\ todo' = [todo EXCEPT ![c] = Notify(l)]
  BY DEF ClientFreeId, adbd
<1>3. Queued' /\ \A k \in Slots \ {l} : current'[k] = current[k]
  BY <1>1, <1>2, ClearedQueue DEF ClientInit
<1>4. biptype'[l] = "close" /\ \A k \in Slots \ {l} : biptype'[k] = biptype[k]
  BY <1>1, <1>2 DEF ClientInit, SlotInv, TypeInv, Tables
<1>5. todo'["user_thread"] = todo["user_thread"]
  <2>1. c # "user_thread"
    BY ChannelsAssumption
  <2>2. QED
    BY <1>2, <2>1 DEF SlotInv, TypeInv, CallTypes, Workers
<1>6. Asked' /\ Streaming' /\ Arriving' /\ Handling'
  BY <1>1, <1>2, <1>3, <1>4, <1>5, ClosedSlotUnknown DEF SlotInv
<1>7. mine'[c] = 0 /\ \A d \in Clients \ {c} : mine'[d] = mine[d]
  BY <1>2 DEF SlotInv, TypeInv, CallTypes
<1>8. Using'
  <2>1. ~user'[l] /\ \A k \in Slots \ {l} : user'[k] = user[k]
    BY <1>1, <1>2 DEF SlotInv, TypeInv, Tables
  <2>2. ASSUME NEW k \in Slots \ {l}
        PROVE  (user'[k] => \E d \in Clients : mine'[d] = k) /\ (~user'[k] => biptype'[k] = "close")
    <3>1. \A d \in Clients : mine[d] = k => d # c
      OBVIOUS
    <3>2. QED
      BY <1>4, <1>7, <2>1, <3>1 DEF Up, Using
  <2>3. QED
    BY <1>4, <2>1, <2>2 DEF Using
<1>9. Calling'
  <2>1. \A d \in Clients \ {c} : pc'[d] = pc[d]
    BY <1>2 DEF Goto, SlotInv, TypeInv, CallTypes
  <2>2. \A d \in Clients \ {c} : mine'[d] # 0 => Relies(d, mine[d])'
    BY <1>1, <1>2, <1>3, <1>4, <1>7, <2>1, CallingKept
  <2>3. QED
    BY <1>7, <2>2 DEF Calling
<1>10. QED
  BY <1>3, <1>6, <1>8, <1>9 DEF Up

\* A channel of which no OPEN was sent is unknown to everybody.
LEMMA UnaskedSlotUnknown ==
    ASSUME TypeInv, Up, NEW s \in Slots, current[s] = 0
    PROVE  /\ \A i \in DOMAIN toDev : toDev[i].cmd = "OPEN" => toDev[i].l # s
           /\ \A i \in DOMAIN fromDev : fromDev[i].l # s
           /\ \A n \in live : slotOf[n] # s
           /\ s \notin Beginning("type") /\ s \notin Beginning("push")
           /\ \A i \in DOMAIN ptrlist[s] : FALSE
<1>1. 0 \notin Opens
  BY ChannelsAssumption DEF Opens
<1>2. \A i \in DOMAIN toDev : toDev[i].cmd = "OPEN" => toDev[i].l # s
  <2>1. \A i \in DOMAIN toDev : toDev[i] \in ToDevice
    BY DEF TypeInv, Queues
  <2>2. QED
    BY <1>1, <2>1 DEF ToDevice, Up, Asked
<1>3. \A i \in DOMAIN fromDev : fromDev[i].l # s
  BY DEF Up, Arriving
<1>4. \A n \in live : slotOf[n] # s
  BY <1>1 DEF Up, Streaming, TypeInv, Queues
<1>5. s \notin Beginning("type") /\ s \notin Beginning("push")
  <2>1. s \in Beginning("push") => Head(todo["user_thread"]).n \in Opens
    BY Committing DEF Beginning, Committed, Workers
  <2>2. QED
    BY <1>1, <2>1 DEF Up, Handling
<1>6. \A i \in DOMAIN ptrlist[s] : FALSE
  BY <1>1 DEF Up, Queued, TypeInv, Tables
<1>7. QED
  BY <1>2, <1>3, <1>4, <1>5, <1>6

LEMMA OpenUp ==
    ASSUME SlotInv, TypeInv', ~kicked, Up, Numbered, NEW c \in Clients, Open(c)
    PROVE  Up'
<1> DEFINE l == mine[c]  n == opens + 1
<1>1. /\ l \in Slots /\ l # 0 /\ user[l] /\ \A d \in Clients \ {c} : mine[d] # l
      /\ biptype[l] # "close" /\ current[l] = 0 /\ pc[c] = "open" /\ want[c] # "destroy"
  BY OwnsSlot, Alone, NotLeaving DEF Open, Outside, Up, Calling, Relies, Leaving
<1>2. UNCHANGED <<fromDev, live, biptype, user, mine, todo, want, ptrlist>>
  BY DEF Open
<1>3. CASE want[c] = "toolong"
  <2>1. Goto(c, "idle") /\ UNCHANGED <<toDev, current, slotOf>>
    BY <1>3 DEF Open, Return
  <2>2. Queued' /\ Follows(0)
    BY <1>2, <2>1, ToDevFollows DEF Up, Queued, SlotInv
  <2>3. QED
    BY <1>1, <1>2, <2>1, <2>2, CallUp
<1>4. CASE want[c] # "toolong"
  <2>1. /\ opens' = n /\ toDev' = Sent(<<Msg("OPEN", n, l)>>)
        /\ current' = [current EXCEPT ![l] = n] /\ slotOf' = [slotOf EXCEPT ![n] = l]
        /\ Goto(c, "connect")
    BY <1>4 DEF Open
  <2> DEFINE m == Msg("OPEN", n, l)
  <2>2. toDev' = Append(toDev, m)
    <3>1. ~Repeated(<<m>>)
      BY DEF Repeated, Msg
    <3>2. toDev' = toDev \o <<m>>
      BY <2>1, <3>1 DEF Sent
    <3>3. m.cmd = "OPEN"
      BY DEF Msg
    <3> HIDE DEF m
    <3>4. QED
      BY <3>2 DEF SlotInv, TypeInv, Queues
  <2>3. /\ Len(toDev) \in Nat /\ DOMAIN toDev' = 1..(Len(toDev) + 1) /\ DOMAIN toDev = 1..Len(toDev)
        /\ toDev'[Len(toDev) + 1] = m
        /\ \A i \in DOMAIN toDev : toDev'[i] = toDev[i]
    <3> HIDE DEF m
    <3>1. QED
      BY <2>2 DEF SlotInv, TypeInv, Queues
  <2>4. m.cmd = "OPEN" /\ m.n = n /\ m.l = l
    BY DEF Msg
  <2>5. n \in Opens /\ n \notin live /\ opens \in Nat
    <3>1. toDev'[Len(toDev) + 1] \in ToDevice'
      BY <2>3 DEF TypeInv, Queues
    <3>2. n \in Opens
      BY <2>3, <2>4, <3>1 DEF ToDevice
    <3>3. opens \in Nat
      BY DEF SlotInv, TypeInv, Queues
    <3>4. QED
      BY <3>2, <3>3 DEF Numbered
  <2> HIDE DEF m
  <2>6. /\ current'[l] = n /\ \A k \in Slots \ {l} : current'[k] = current[k]
        /\ slotOf'[n] = l /\ \A k \in Opens \ {n} : slotOf'[k] = slotOf[k]
    BY <1>1, <2>1, <2>5, SMTT(60) DEF SlotInv, TypeInv, Tables, Queues
  <2>7. Beginning("type")' = Beginning("type") /\ Beginning("push")' = Beginning("push")
    BY <1>2 DEF Beginning
  <2>8. /\ \A i \in DOMAIN toDev : toDev[i].cmd = "OPEN" => toDev[i].l # l
        /\ \A i \in DOMAIN fromDev : fromDev[i].l # l
        /\ \A k \in live : slotOf[k] # l
        /\ l \notin Beginning("type") /\ l \notin Beginning("push")
        /\ \A i \in DOMAIN ptrlist[l] : FALSE
    BY <1>1, UnaskedSlotUnknown DEF SlotInv
  <2>9. Asked'
    <3>1. ASSUME NEW i \in DOMAIN toDev, toDev[i].cmd = "OPEN"
          PROVE  /\ toDev[i].l \in Slots \ {l} /\ toDev[i].n \in Opens \ {n}
      <4>1. toDev[i] \in ToDevice
        BY DEF SlotInv, TypeInv, Queues
      <4>2. toDev[i].n = current[toDev[i].l]
        BY <3>1 DEF Up, Asked
      <4>3. toDev[i].l \in Slots \ {l} /\ toDev[i].n \in Opens
        BY <2>8, <3>1, <4>1 DEF ToDevice
      <4>4. current[toDev[i].l] <= opens
        BY <4>3 DEF Numbered
      <4>5. QED
        BY <2>5, <4>2, <4>3, <4>4 DEF Opens
    <3>2. ASSUME NEW i \in DOMAIN toDev', toDev'[i].cmd = "OPEN"
          PROVE  /\ biptype[toDev'[i].l] # "close" /\ current'[toDev'[i].l] = toDev'[i].n
                 /\ slotOf'[toDev'[i].n] = toDev'[i].l /\ toDev'[i].n \notin live
                 /\ toDev'[i].l \notin Beginning("type")
                 /\ \A j \in DOMAIN fromDev : fromDev[j].l # toDev'[i].l
      <4>1. CASE i \in DOMAIN toDev
        BY <2>3, <2>6, <3>1, <3>2, <4>1 DEF Up, Asked
      <4>2. CASE i = Len(toDev) + 1
        BY <1>1, <2>3, <2>4, <2>5, <2>6, <2>8, <4>2
      <4>3. QED
        BY <2>3, <4>1, <4>2
    <3>3. ASSUME NEW i \in DOMAIN toDev', toDev'[i].cmd = "OPEN",
                 NEW j \in DOMAIN toDev', j # i, toDev'[j].cmd = "OPEN"
          PROVE  toDev'[j].l # toDev'[i].l
      <4>1. CASE i \in DOMAIN toDev /\ j \in DOMAIN toDev
        BY <2>3, <3>3, <4>1 DEF Up, Asked
      <4>2. CASE i \in DOMAIN toDev /\ j = Len(toDev) + 1
        BY <2>3, <2>4, <2>8, <3>3, <4>2
      <4>3. CASE j \in DOMAIN toDev /\ i = Len(toDev) + 1
        BY <2>3, <2>4, <2>8, <3>3, <4>3
      <4>4. QED
        BY <2>3, <3>3, <4>1, <4>2, <4>3
    <3>4. QED
      BY <1>2, <2>7, <3>2, <3>3 DEF Asked
  <2>10. Streaming'
    <3>1. \A k \in live : slotOf[k] \in Slots \ {l} /\ k \in Opens \ {n}
      BY <2>5, <2>8 DEF SlotInv, TypeInv, Queues
    <3>2. QED
      BY <1>2, <2>6, <2>7, <3>1 DEF Up, Streaming
  <2>11. Arriving'
    <3>1. \A i \in DOMAIN fromDev : fromDev[i].l \in Slots \ {l}
      <4>1. \A i \in DOMAIN fromDev : fromDev[i] \in FromDevice
        BY DEF SlotInv, TypeInv, Queues
      <4>2. QED
        BY <2>8, <4>1 DEF FromDevice
    <3>2. QED
      BY <1>2, <2>6, <2>7, <3>1 DEF Up, Arriving
  <2>12. Handling'
    <3>1. /\ Beginning("type") \subseteq Slots \ {l} /\ Beginning("push") \subseteq Slots \ {l}
      BY <2>8 DEF Beginning
    <3>2. QED
      BY <1>2, <2>6, <2>7, <3>1 DEF Up, Handling
  <2>13. Queued'
    BY <1>2, <2>6, <2>8 DEF Up, Queued
  <2>14. Using'
    BY <1>2 DEF Up, Using
  <2>15. Calling'
    <3>1. pc'[c] = "connect" /\ \A d \in Clients \ {c} : pc'[d] = pc[d]
      BY <2>1 DEF Goto, SlotInv, TypeInv, CallTypes
    <3>2. \A d \in Clients \ {c} : mine'[d] # 0 => Relies(d, mine[d])'
      BY <1>1, <1>2, <2>6, <3>1, CallingKept
    <3>3. Relies(c, l)'
      BY <1>1, <1>2, <3>1 DEF Relies
    <3>4. QED
      BY <1>2, <3>2, <3>3 DEF Calling
  <2>16. QED
    BY <2>9, <2>10, <2>11, <2>12, <2>13, <2>14, <2>15 DEF Up
<1>5. QED
  BY <1>3, <1>4

-------------------------------------------------------------------------------
(* user_thread.                                                            *)
LEMMA StepUp ==
    ASSUME SlotInv, Placed, ~kicked, Up, NEW w \in Workers, Step(w)
    PROVE  Up'
<1> DEFINE steps == todo["user_thread"]
<1>1. /\ UNCHANGED <<toDev, fromDev, live, slotOf, current, user, pc, mine, want>>
      /\ Drop(w) /\ todo[w] # <<>>
  BY DEF Step, StepType, StepPush, StepRid, StepConnected, StepAdd, StepNotify, Committed, calls, adbd
<1>2. steps \in Seq(StepsOfWork) /\ "user_thread" \in Workers /\ todo[w] \in Seq(StepsOfWork)
  BY DEF SlotInv, TypeInv, CallTypes, Workers
<1>3. CASE w # "user_thread"
  <2>1. Head(todo[w]).do \in {"lock", "free", "add", "notify"}
    <3>1. 1 \in DOMAIN todo[w] /\ Head(todo[w]) = todo[w][1]
      BY <1>1, <1>2, SMTT(60)
    <3>2. QED
      BY <1>3, <3>1 DEF Placed
  <2>2. UNCHANGED <<biptype, ptrlist>>
    BY <2>1 DEF Step, StepType, StepPush, StepRid, StepConnected, StepAdd, StepNotify, Committed
  <2>3. todo'["user_thread"] = todo["user_thread"]
    BY <1>1, <1>2, <1>3 DEF Drop, SlotInv, TypeInv, CallTypes
  <2>4. Beginning("type")' = Beginning("type") /\ Beginning("push")' = Beginning("push")
    BY <2>3 DEF Beginning
  <2>5. Asked' /\ Streaming' /\ Arriving' /\ Handling' /\ Queued' /\ Using'
    BY <1>1, <2>2, <2>3, <2>4 DEF Up, Asked, Streaming, Arriving, Handling, Queued, Using
  <2>6. Calling'
    BY <1>1, <2>2 DEF Up, Calling, Relies
  <2>7. QED
    BY <2>5, <2>6 DEF Up
<1>4. CASE w = "user_thread"
  <2>1. Beginning("type")' = {} /\ Beginning("push")' = {}
    <3>1. todo'["user_thread"] = Tail(steps)
      BY <1>1, <1>2, <1>4 DEF Drop, SlotInv, TypeInv, CallTypes
    <3>2. Tail(steps) # <<>> => Head(Tail(steps)) = steps[2] /\ 2 \in DOMAIN steps
      BY <1>1, <1>2, <1>4
    <3>3. Tail(steps) # <<>> => Head(Tail(steps)).do \notin {"type", "push"}
      BY <3>2 DEF Placed
    <3>4. QED
      BY <3>1, <3>3 DEF Beginning
  <2> DEFINE s == Head(steps).l
  <2>2. CASE StepType(w)
    <3>1. s \in Slots /\ s \in Beginning("type")
      BY <1>4, <2>2, Committing DEF StepType, SlotInv, Beginning, Committed
    <3>2. /\ UNCHANGED ptrlist /\ biptype'[s] = "close"
          /\ \A l \in Slots \ {s} : biptype'[l] = biptype[l]
      BY <1>4, <2>2, <3>1 DEF StepType, SlotInv, TypeInv, Tables
    <3>3. current[s] # 0
      BY <3>1 DEF Up, Handling
    <3> HIDE DEF s
    <3>4. Asked'
      <4>1. \A i \in DOMAIN toDev : toDev[i].cmd = "OPEN" => toDev[i].l \in Slots \ {s}
        <5>1. \A i \in DOMAIN toDev : toDev[i] \in ToDevice
          BY DEF SlotInv, TypeInv, Queues
        <5>2. QED
          BY <3>1, <5>1 DEF Up, Asked, ToDevice
      <4>2. QED
        BY <1>1, <2>1, <3>2, <4>1 DEF Up, Asked
    <3>5. Streaming'
      <4>1. \A n \in live : slotOf[n] \in Slots \ {s}
        BY <3>1 DEF Up, Streaming, SlotInv, TypeInv, Queues
      <4>2. QED
        BY <1>1, <2>1, <3>2, <4>1 DEF Up, Streaming
    <3>6. Arriving'
      <4>1. \A i \in DOMAIN fromDev : fromDev[i].l \in Slots \ {s}
        <5>1. \A i \in DOMAIN fromDev : fromDev[i] \in FromDevice
          BY DEF SlotInv, TypeInv, Queues
        <5>2. QED
          BY <3>1, <5>1 DEF Up, Arriving, FromDevice
      <4>2. QED
        BY <1>1, <2>1, <3>2, <4>1 DEF Up, Arriving
    <3>7. Handling' /\ Queued' /\ Using'
      BY <1>1, <2>1, <3>2 DEF Up, Handling, Queued, Using
    <3>8. Calling'
      <4>1. ASSUME NEW c \in Clients, mine[c] # 0 PROVE Relies(c, mine[c])'
        <5>1. mine[c] \in Slots
          BY <4>1, ChannelsAssumption DEF SlotInv, TypeInv, CallTypes, Slots
        <5>2. QED
          BY <1>1, <3>2, <3>3, <4>1, <5>1 DEF Up, Calling, Relies
      <4>2. QED
        BY <1>1, <4>1 DEF Calling
    <3>9. QED
      BY <3>4, <3>5, <3>6, <3>7, <3>8 DEF Up
  <2>3. CASE ~StepType(w)
    <3>1. UNCHANGED biptype
      BY <2>3 DEF Step, StepPush, StepRid, StepConnected, StepAdd, StepNotify
    <3>2. Asked' /\ Streaming' /\ Arriving' /\ Handling' /\ Using'
      BY <1>1, <2>1, <3>1 DEF Up, Asked, Streaming, Arriving, Handling, Using
    <3>3. Calling'
      BY <1>1, <3>1 DEF Up, Calling, Relies
    <3>4. Queued'
      <4>1. CASE UNCHANGED ptrlist
        BY <1>1, <4>1, SMTT(60) DEF Up, Queued
      <4>2. CASE StepPush(w)
        <5>1. s \in Slots /\ s \in Beginning("push")
          BY <1>4, <4>2, Committing DEF StepPush, SlotInv, Beginning, Committed
        <5>2. Head(steps).n = current[s]
          BY <5>1, SMTT(60) DEF Up, Handling
        <5>3. /\ ptrlist'[s] = Append(ptrlist[s], current[s]) /\ ptrlist[s] \in Seq(Opens)
              /\ \A l \in Slots \ {s} : ptrlist'[l] = ptrlist[l]
          BY <1>4, <4>2, <5>1, <5>2 DEF StepPush, SlotInv, TypeInv, Tables
        <5>4. \A i \in DOMAIN Append(ptrlist[s], current[s]) :
                  Append(ptrlist[s], current[s])[i] = current[s]
          BY <5>1, <5>3 DEF Up, Queued
        <5>5. QED
          BY <1>1, <5>3, <5>4, ZenonT(60) DEF Up, Queued
      <4>3. QED
        BY <2>3, <4>1, <4>2 DEF Step, StepRid, StepConnected, StepAdd, StepNotify
    <3>5. QED
      BY <3>2, <3>3, <3>4, SMTT(60) DEF Up
  <2>4. QED
    BY <2>2, <2>3
<1>5. QED
  BY <1>3, <1>4, SMTT(60)

LEMMA Joined ==
    ASSUME NEW S, NEW s \in Seq(S), NEW t \in Seq(S), s # <<>>
    PROVE  /\ s \o t # <<>> /\ Head(s \o t) = s[1]
           /\ \A i \in DOMAIN (s \o t) : i > 1 =>
                  (i \in DOMAIN s /\ (s \o t)[i] = s[i]) \/ \E j \in DOMAIN t : (s \o t)[i] = t[j]
<1>1. /\ DOMAIN (s \o t) = 1..(Len(s) + Len(t)) /\ Len(s) \in Nat \ {0} /\ Len(t) \in Nat
      /\ DOMAIN s = 1..Len(s) /\ DOMAIN t = 1..Len(t) /\ s \o t \in Seq(S)
  OBVIOUS
<1>2. \A i \in 1..(Len(s) + Len(t)) :
          \/ i \in 1..Len(s) /\ (s \o t)[i] = s[i]
          \/ i - Len(s) \in 1..Len(t) /\ (s \o t)[i] = t[i - Len(s)]
  OBVIOUS
<1>3. s \o t # <<>> /\ Head(s \o t) = s[1]
  OBVIOUS
<1>4. QED
  BY <1>1, <1>2, <1>3

\* What user_thread begins with when it handles a packet, and what is left to it then.
LEMMA WorkBegins ==
    ASSUME NEW m \in FromDevice
    PROVE  /\ Work(m) # <<>> /\ Head(Work(m)).l = m.l
           /\ Head(Work(m)).do = "type" => m.cmd = "CLSE"
           /\ Head(Work(m)).do = "push" => m.cmd = "WRTE" /\ Head(Work(m)).n = m.n
           /\ \A i \in DOMAIN Work(m) : i > 1 => Work(m)[i].do \notin {"type", "push"}
<1> DEFINE R == [do : {"type", "push", "rid", "connected", "add", "notify"}, l : {m.l}, n : {m.n, 0}]
           t == Notify(m.l)
<1>1. t \in Seq(R) /\ \A j \in DOMAIN t : t[j].do \notin {"type", "push"}
  <2>1. t = <<[do |-> "add", l |-> m.l, n |-> 0], [do |-> "notify", l |-> m.l, n |-> 0]>>
    BY DEF Notify, Do
  <2>2. PICK x \in R, y \in R : t = <<x, y>> /\ x.do \notin {"type", "push"} /\ y.do \notin {"type", "push"}
    BY <2>1
  <2> HIDE DEF R, t
  <2>3. t \in Seq(R) /\ DOMAIN t = 1..2 /\ t[1] = x /\ t[2] = y
    BY <2>2
  <2>4. QED
    BY <2>2, <2>3
<1> HIDE DEF t
<1>2. ASSUME NEW a \in R, NEW b \in R, NEW c \in R,
             b.do \notin {"type", "push"}, c.do \notin {"type", "push"},
             Work(m) = <<a, b>> \o t \/ Work(m) = <<a, b, c>> \o t
      PROVE  /\ Work(m) # <<>> /\ Head(Work(m)) = a
             /\ \A i \in DOMAIN Work(m) : i > 1 => Work(m)[i].do \notin {"type", "push"}
  <2> HIDE DEF R
  <2>1. ASSUME NEW s \in Seq(R), s # <<>>, s[1] = a, \A i \in DOMAIN s : i > 1 => s[i] \in {b, c},
               Work(m) = s \o t
        PROVE  /\ Work(m) # <<>> /\ Head(Work(m)) = a
               /\ \A i \in DOMAIN Work(m) : i > 1 => Work(m)[i].do \notin {"type", "push"}
    BY <1>1, <1>2, <2>1, Joined
  <2>2. /\ <<a, b>> \in Seq(R) /\ <<a, b>> # <<>> /\ <<a, b>>[1] = a /\ <<a, b>>[2] = b
        /\ DOMAIN <<a, b>> = 1..2
    OBVIOUS
  <2>3. /\ <<a, b, c>> \in Seq(R) /\ <<a, b, c>> # <<>> /\ <<a, b, c>>[1] = a /\ <<a, b, c>>[2] = b
        /\ <<a, b, c>>[3] = c /\ DOMAIN <<a, b, c>> = 1..3
    OBVIOUS
  <2>4. /\ \A i \in DOMAIN <<a, b>> : i > 1 => <<a, b>>[i] \in {b, c}
        /\ \A i \in DOMAIN <<a, b, c>> : i > 1 => <<a, b, c>>[i] \in {b, c}
    BY <2>2, <2>3
  <2>5. CASE Work(m) = <<a, b>> \o t
    BY <2>1, <2>2, <2>4, <2>5
  <2>6. CASE Work(m) = <<a, b, c>> \o t
    BY <2>1, <2>3, <2>4, <2>6
  <2>7. QED
    BY <1>2, <2>5, <2>6
<1>3. CASE m.cmd = "OKAY"
  <2> DEFINE a == Do("rid", m.l, m.n)  b == Do("connected", m.l, m.n)
  <2>1. Work(m) = <<a, b>> \o t
    BY <1>3 DEF Work, t
  <2>2. a \in R /\ a.do = "rid" /\ a.l = m.l /\ b \in R /\ b.do \notin {"type", "push"}
    BY DEF Do
  <2> HIDE DEF a, b, R
  <2>3. QED
    BY <1>2, <2>1, <2>2
<1>4. CASE m.cmd = "CLSE"
  <2> DEFINE a == Do("type", m.l, 0)  b == Do("rid", m.l, 0)  c == Do("connected", m.l, 0)
  <2>1. Work(m) = <<a, b, c>> \o t
    BY <1>4 DEF Work, t
  <2>2. /\ a \in R /\ a.do = "type" /\ a.l = m.l /\ b \in R /\ b.do \notin {"type", "push"}
        /\ c \in R /\ c.do \notin {"type", "push"}
    BY DEF Do
  <2> HIDE DEF a, b, c, R
  <2>3. QED
    BY <1>2, <1>4, <2>1, <2>2
<1>5. CASE m.cmd = "WRTE"
  <2> DEFINE a == Do("push", m.l, m.n)  b == Do("rid", m.l, m.n)
  <2>1. Work(m) = <<a, b>> \o t
    BY <1>5 DEF Work, t
  <2>2. a \in R /\ a.do = "push" /\ a.l = m.l /\ a.n = m.n /\ b \in R /\ b.do \notin {"type", "push"}
    BY DEF Do
  <2> HIDE DEF a, b, R
  <2>3. QED
    BY <1>2, <1>5, <2>1, <2>2
<1>6. QED
  BY <1>3, <1>4, <1>5 DEF FromDevice

LEMMA HandlePacketUp ==
    ASSUME SlotInv, TypeInv', ~kicked, Up, HandlePacket
    PROVE  Up'
<1> DEFINE m == Head(fromDev)
<1>1. /\ UNCHANGED <<biptype, current, ptrlist, user, pc, mine, want, live, slotOf>>
      /\ fromDev # <<>> /\ fromDev' = Tail(fromDev) /\ todo["user_thread"] = <<>>
      /\ toDev' = Sent(Answer(m))
  BY DEF HandlePacket, Quiet, table, calls, adbd
<1>2. fromDev \in Seq(FromDevice)
  BY DEF SlotInv, TypeInv, Queues
<1>3. /\ m = fromDev[1] /\ 1 \in DOMAIN fromDev /\ m \in FromDevice
      /\ \A i \in DOMAIN fromDev' : i + 1 \in DOMAIN fromDev /\ fromDev'[i] = fromDev[i + 1]
      /\ DOMAIN fromDev' = 1..Len(fromDev') /\ Len(fromDev') \in Nat
  <2> DEFINE F == FromDevice
  <2>1. fromDev \in Seq(F)
    BY <1>2
  <2> HIDE DEF F
  <2>2. /\ m = fromDev[1] /\ 1 \in DOMAIN fromDev /\ m \in F
        /\ \A i \in DOMAIN fromDev' : i + 1 \in DOMAIN fromDev /\ fromDev'[i] = fromDev[i + 1]
        /\ DOMAIN fromDev' = 1..Len(fromDev') /\ Len(fromDev') \in Nat
    BY <1>1, <2>1
  <2>3. QED
    BY <2>2 DEF F
<1>4. m.l \in Slots /\ m.n \in 0..MaxOpens /\ m.cmd \in {"OKAY", "CLSE", "WRTE"}
  BY <1>3 DEF FromDevice
<1>5. /\ biptype[m.l] # "close" /\ current[m.l] # 0
      /\ m.cmd # "CLSE" => m.n = current[m.l]
      /\ m.cmd = "CLSE" => \A j \in DOMAIN fromDev : j > 1 => fromDev[j].l # m.l
  BY <1>3 DEF Up, Arriving
<1>6. todo'["user_thread"] = Work(m)
  <2>1. Present(m.l)
    BY <1>4, <1>5 DEF Up, Using, Present
  <2>2. QED
    BY <2>1 DEF HandlePacket, SlotInv, TypeInv, CallTypes, Workers
<1> HIDE DEF m
<1>7. /\ \A l \in Beginning("type")' : l = m.l /\ m.cmd = "CLSE"
      /\ \A l \in Beginning("push")' : l = m.l /\ m.cmd = "WRTE" /\ Head(todo["user_thread"])'.n = m.n
  BY <1>3, <1>6, WorkBegins DEF Beginning
<1>8. Follows(0)
  <2>1. CASE Answer(m) = <<>>
    <3>1. <<>> \in Seq(ToDevice) /\ NoOpens(<<>>)
      BY DEF NoOpens
    <3>2. QED
      BY <1>1, <2>1, <3>1, SentFollows DEF SlotInv
  <2>2. ASSUME NEW cmd \in {"READY", "CLSE"}, Answer(m) = ToRemote(cmd, m.n, m.l)
        PROVE  Follows(0)
    BY <1>1, <1>4, <2>2, ToRemoteType, ToRemoteNoOpens, SentFollows DEF SlotInv
  <2>3. QED
    BY <1>4, <2>1, <2>2 DEF Answer
<1>9. Asked'
  <2>1. ASSUME NEW i \in DOMAIN toDev', toDev'[i].cmd = "OPEN"
        PROVE  i \in DOMAIN toDev /\ toDev'[i] = toDev[i]
    <3>1. i + 0 = i
      BY DEF TypeInv, Queues
    <3>2. QED
      BY <1>8, <2>1, <3>1 DEF Follows
  <2>2. ASSUME NEW i \in DOMAIN toDev', toDev'[i].cmd = "OPEN"
        PROVE  /\ toDev'[i].l \notin Beginning("type")'
               /\ \A j \in DOMAIN fromDev' : fromDev'[j].l # toDev'[i].l
    BY <1>3, <1>7, <2>1, <2>2 DEF Up, Asked
  <2>3. QED
    BY <1>1, <2>1, <2>2 DEF Up, Asked
<1>10. Streaming'
  <2>1. ASSUME NEW n \in live
        PROVE  /\ slotOf[n] \notin Beginning("type")'
               /\ \A i \in DOMAIN fromDev' : fromDev'[i].l = slotOf[n] => fromDev'[i].cmd # "CLSE"
    BY <1>3, <1>7 DEF Up, Streaming
  <2>2. QED
    BY <1>1, <2>1 DEF Up, Streaming
<1>11. Arriving'
  <2>1. ASSUME NEW i \in DOMAIN fromDev' PROVE fromDev'[i].l \notin Beginning("type")'
    <3>1. i + 1 > 1 /\ i + 1 \in DOMAIN fromDev /\ fromDev'[i] = fromDev[i + 1]
      BY <1>3
    <3>2. QED
      BY <1>5, <1>7, <3>1
  <2>2. ASSUME NEW i \in DOMAIN fromDev', fromDev'[i].cmd = "CLSE", NEW j \in DOMAIN fromDev', j > i
        PROVE  fromDev'[j].l # fromDev'[i].l
    <3>1. j + 1 > i + 1
      BY <1>3, <2>2
    <3>2. QED
      BY <1>3, <2>2, <3>1 DEF Up, Arriving
  <2>3. ASSUME NEW i \in DOMAIN fromDev'
        PROVE  /\ biptype[fromDev'[i].l] # "close" /\ current[fromDev'[i].l] # 0
               /\ fromDev'[i].cmd # "CLSE" => fromDev'[i].n = current[fromDev'[i].l]
    BY <1>3 DEF Up, Arriving
  <2>4. QED
    BY <1>1, <2>1, <2>2, <2>3 DEF Arriving
<1>12. Handling'
  BY <1>1, <1>5, <1>7 DEF Handling
<1>13. Queued' /\ Using'
  BY <1>1 DEF Up, Queued, Using
<1>14. Calling'
  BY <1>1 DEF Up, Calling, Relies
<1>15. QED
  BY <1>9, <1>10, <1>11, <1>12, <1>13, <1>14 DEF Up

-------------------------------------------------------------------------------
(* The device.                                                             *)

\* The device sends msg about slot s, on which it has answered the last OPEN.
LEMMA DeviceMessageUp ==
    ASSUME SlotInv, TypeInv', Up, UNCHANGED <<table, calls, todo, slotOf>>,
           NEW k \in {0, 1}, Follows(k),
           NEW msg \in FromDevice, fromDev' = Append(fromDev, msg),
           NEW s \in Slots, msg.l = s, biptype[s] # "close", current[s] # 0,
           s \notin Beginning("type"), msg.cmd # "CLSE" => msg.n = current[s],
           \A i \in DOMAIN fromDev : fromDev[i].l = s => fromDev[i].cmd # "CLSE",
           \A i \in DOMAIN toDev' : toDev'[i].cmd = "OPEN" => toDev'[i].l # s,
           \A n \in live' : n \in live \/ (slotOf[n] = s /\ current[s] = n),
           msg.cmd = "CLSE" => \A n \in live' : slotOf[n] # s
    PROVE  Up'
<1>1. UNCHANGED <<biptype, current, ptrlist, user, pc, mine, want>>
  BY DEF table, calls
<1>2. Beginning("type")' = Beginning("type") /\ Beginning("push")' = Beginning("push")
  BY DEF Beginning
<1>3. /\ DOMAIN fromDev' = 1..(Len(fromDev) + 1) /\ DOMAIN fromDev = 1..Len(fromDev)
      /\ Len(fromDev) \in Nat /\ fromDev'[Len(fromDev) + 1] = msg
      /\ \A i \in DOMAIN fromDev : fromDev'[i] = fromDev[i]
  <2> DEFINE F == FromDevice
  <2>1. fromDev \in Seq(F) /\ msg \in F
    BY DEF SlotInv, TypeInv, Queues
  <2> HIDE DEF F
  <2>2. QED
    BY <2>1
<1>4. \A i \in DOMAIN fromDev' : (i \in DOMAIN fromDev /\ fromDev'[i] = fromDev[i])
                                 \/ (i = Len(fromDev) + 1 /\ fromDev'[i] = msg)
  BY <1>3
<1>5. Asked'
  <2>1. ASSUME NEW i \in DOMAIN toDev', toDev'[i].cmd = "OPEN"
        PROVE  /\ biptype[toDev'[i].l] # "close" /\ current[toDev'[i].l] = toDev'[i].n
               /\ slotOf[toDev'[i].n] = toDev'[i].l /\ toDev'[i].n \notin live'
               /\ toDev'[i].l \notin Beginning("type")
               /\ \A j \in DOMAIN fromDev' : fromDev'[j].l # toDev'[i].l
               /\ \A j \in DOMAIN toDev' : j # i /\ toDev'[j].cmd = "OPEN" => toDev'[j].l # toDev'[i].l
    <3>1. i + k \in DOMAIN toDev /\ toDev'[i] = toDev[i + k] /\ toDev'[i].l # s
      BY <2>1 DEF Follows
    <3>2. ASSUME NEW j \in DOMAIN toDev', j # i, toDev'[j].cmd = "OPEN"
          PROVE  toDev'[j].l # toDev'[i].l
      <4>1. j + k \in DOMAIN toDev /\ toDev'[j] = toDev[j + k]
        BY <3>2 DEF Follows
      <4>2. DOMAIN toDev' = 1..Len(toDev') /\ Len(toDev') \in Nat
        BY DEF TypeInv, Queues
      <4>3. j + k # i + k
        BY <3>2, <4>2
      <4>4. QED
        BY <2>1, <3>1, <3>2, <4>1, <4>3 DEF Up, Asked
    <3>3. /\ biptype[toDev'[i].l] # "close" /\ current[toDev'[i].l] = toDev'[i].n
          /\ slotOf[toDev'[i].n] = toDev'[i].l /\ toDev'[i].n \notin live
          /\ toDev'[i].l \notin Beginning("type")
          /\ \A j \in DOMAIN fromDev : fromDev[j].l # toDev'[i].l
      BY <2>1, <3>1 DEF Up, Asked
    <3>4. \A j \in DOMAIN fromDev' : fromDev'[j].l # toDev'[i].l
      BY <1>4, <3>1, <3>3
    <3>5. toDev'[i].n \notin live'
      BY <3>1, <3>3
    <3>6. QED
      BY <3>2, <3>3, <3>4, <3>5
  <2>2. QED
    BY <1>1, <1>2, <2>1 DEF Asked
<1>6. Streaming'
  <2>1. ASSUME NEW n \in live'
        PROVE  /\ biptype[slotOf[n]] # "close" /\ current[slotOf[n]] = n
               /\ slotOf[n] \notin Beginning("type")
               /\ \A i \in DOMAIN fromDev : fromDev[i].l = slotOf[n] => fromDev[i].cmd # "CLSE"
    BY DEF Up, Streaming
  <2>2. ASSUME NEW n \in live', NEW i \in DOMAIN fromDev', fromDev'[i].l = slotOf[n]
        PROVE  fromDev'[i].cmd # "CLSE"
    BY <1>4, <2>1, <2>2
  <2>3. QED
    BY <1>1, <1>2, <2>1, <2>2 DEF Streaming
<1>7. Arriving'
  <2>1. ASSUME NEW i \in DOMAIN fromDev'
        PROVE  /\ biptype[fromDev'[i].l] # "close" /\ current[fromDev'[i].l] # 0
               /\ fromDev'[i].l \notin Beginning("type")
               /\ fromDev'[i].cmd # "CLSE" => fromDev'[i].n = current[fromDev'[i].l]
    BY <1>4, <2>1 DEF Up, Arriving
  <2>2. ASSUME NEW i \in DOMAIN fromDev', fromDev'[i].cmd = "CLSE", NEW j \in DOMAIN fromDev', j > i
        PROVE  fromDev'[j].l # fromDev'[i].l
    <3>1. i \in DOMAIN fromDev /\ fromDev'[i] = fromDev[i]
      BY <1>3, <1>4, <2>2
    <3>2. CASE j \in DOMAIN fromDev /\ fromDev'[j] = fromDev[j]
      BY <2>2, <3>1, <3>2 DEF Up, Arriving
    <3>3. CASE fromDev'[j] = msg
      BY <2>2, <3>1, <3>3
    <3>4. QED
      BY <1>4, <3>2, <3>3
  <2>3. QED
    BY <1>1, <1>2, <2>1, <2>2 DEF Arriving
<1>8. Handling' /\ Queued' /\ Using' /\ Calling'
  BY <1>1, <1>2 DEF Up, Handling, Queued, Using, Calling, Relies
<1>9. QED
  BY <1>5, <1>6, <1>7, <1>8 DEF Up

\* What holds of a slot on which the device has a stream.
LEMMA LiveSlot ==
    ASSUME SlotInv, Up, NEW n \in live
    PROVE  /\ n \in Opens /\ slotOf[n] \in Slots /\ biptype[slotOf[n]] # "close"
           /\ current[slotOf[n]] = n /\ current[slotOf[n]] # 0 /\ slotOf[n] \notin Beginning("type")
           /\ \A i \in DOMAIN fromDev : fromDev[i].l = slotOf[n] => fromDev[i].cmd # "CLSE"
           /\ \A i \in DOMAIN toDev : toDev[i].cmd = "OPEN" => toDev[i].l # slotOf[n]
           /\ \A k \in live : k # n => slotOf[k] # slotOf[n]
           /\ \A cmd \in {"WRTE", "OKAY", "CLSE"} : Msg(cmd, n, slotOf[n]) \in FromDevice
<1>1. n \in Opens /\ slotOf[n] \in Slots
  BY DEF SlotInv, TypeInv, Queues
<1>2. n # 0 /\ n \in 0..MaxOpens
  BY <1>1, ChannelsAssumption DEF Opens
<1>3. \A cmd \in {"WRTE", "OKAY", "CLSE"} : Msg(cmd, n, slotOf[n]) \in FromDevice
  BY <1>1, <1>2 DEF FromDevice, Msg
<1>4. \A k \in live : current[slotOf[k]] = k
  BY DEF Up, Streaming
<1>5. \A i \in DOMAIN toDev : toDev[i].cmd = "OPEN" =>
          current[toDev[i].l] = toDev[i].n /\ toDev[i].n \notin live
  BY DEF Up, Asked
<1>6. QED
  BY <1>1, <1>2, <1>3, <1>4, <1>5 DEF Up, Streaming

LEMMA DeviceStreamUp ==
    ASSUME SlotInv, TypeInv', Up, NEW n \in live, UNCHANGED <<table, calls, todo, slotOf>>,
           NEW k \in {0, 1}, Follows(k), NEW cmd \in {"WRTE", "OKAY", "CLSE"},
           fromDev' = Append(fromDev, Msg(cmd, n, slotOf[n])),
           live' = IF cmd = "CLSE" THEN live \ {n} ELSE live
    PROVE  Up'
<1> DEFINE msg == Msg(cmd, n, slotOf[n])
<1>1. msg \in FromDevice /\ fromDev' = Append(fromDev, msg)
  BY LiveSlot
<1>2. msg.l = slotOf[n] /\ msg.cmd = cmd /\ msg.n = n
  BY DEF Msg
<1> HIDE DEF msg
<1>3. \A i \in DOMAIN toDev' : toDev'[i].cmd = "OPEN" => toDev'[i].l # slotOf[n]
  BY LiveSlot DEF Follows
<1>4. /\ slotOf[n] \in Slots /\ biptype[slotOf[n]] # "close"
      /\ current[slotOf[n]] = n /\ current[slotOf[n]] # 0 /\ slotOf[n] \notin Beginning("type")
      /\ \A i \in DOMAIN fromDev : fromDev[i].l = slotOf[n] => fromDev[i].cmd # "CLSE"
  BY LiveSlot
<1>5. /\ \A j \in live' : j \in live
      /\ cmd = "CLSE" => \A j \in live' : slotOf[j] # slotOf[n]
  BY LiveSlot
<1> DEFINE s == slotOf[n]
<1>6. /\ s \in Slots /\ msg.l = s /\ biptype[s] # "close" /\ current[s] # 0 /\ s \notin Beginning("type")
      /\ msg.cmd # "CLSE" => msg.n = current[s]
      /\ \A i \in DOMAIN fromDev : fromDev[i].l = s => fromDev[i].cmd # "CLSE"
      /\ \A i \in DOMAIN toDev' : toDev'[i].cmd = "OPEN" => toDev'[i].l # s
      /\ \A j \in live' : j \in live \/ (slotOf[j] = s /\ current[s] = j)
      /\ msg.cmd = "CLSE" => \A j \in live' : slotOf[j] # s
  BY <1>2, <1>3, <1>4, <1>5
<1> HIDE DEF s
<1>7. QED
  BY <1>1, <1>6, DeviceMessageUp

LEMMA DeviceUp ==
    ASSUME SlotInv, TypeInv', ~kicked, Up,
           DeviceReceive \/ \E n \in Opens : DeviceSend(n) \/ DeviceClose(n)
    PROVE  Up'
<1>1. UNCHANGED <<table, calls, todo, slotOf>>
  BY DEF DeviceReceive, DeviceSend, DeviceClose
<1>2. ASSUME NEW n \in Opens, DeviceSend(n) PROVE Up'
  <2>1. /\ n \in live /\ live' = live /\ fromDev' = Append(fromDev, Msg("WRTE", n, slotOf[n]))
        /\ UNCHANGED toDev
    BY <1>2 DEF DeviceSend
  <2>2. Follows(0)
    BY <2>1, ToDevFollows DEF SlotInv
  <2>3. QED
    BY <1>1, <2>1, <2>2, DeviceStreamUp
<1>3. ASSUME NEW n \in Opens, DeviceClose(n) PROVE Up'
  <2>1. /\ n \in live /\ live' = live \ {n} /\ fromDev' = Append(fromDev, Msg("CLSE", n, slotOf[n]))
        /\ UNCHANGED toDev
    BY <1>3 DEF DeviceClose
  <2>2. Follows(0)
    BY <2>1, ToDevFollows DEF SlotInv
  <2>3. QED
    BY <1>1, <2>1, <2>2, DeviceStreamUp
<1>4. CASE DeviceReceive
  <2> DEFINE m == Head(toDev)  T == ToDevice
  <2>1. toDev # <<>> /\ toDev' = Tail(toDev) /\ Receive(m)
    BY <1>4 DEF DeviceReceive
  <2>2. toDev \in Seq(T)
    BY DEF SlotInv, TypeInv, Queues
  <2> HIDE DEF T
  <2>3. /\ m = toDev[1] /\ 1 \in DOMAIN toDev /\ m \in T
        /\ \A i \in DOMAIN toDev' : i + 1 \in DOMAIN toDev /\ toDev'[i] = toDev[i + 1] /\ i + 1 # 1
    BY <2>1, <2>2
  <2>4. Follows(1)
    BY <2>3 DEF Follows
  <2> HIDE DEF m
  <2>5. CASE m.cmd = "OPEN"
    <3> DEFINE s == m.l
    <3>1. /\ biptype[s] # "close" /\ current[s] = m.n /\ slotOf[m.n] = s /\ m.n \notin live
          /\ s \notin Beginning("type") /\ \A j \in DOMAIN fromDev : fromDev[j].l # s
          /\ \A j \in DOMAIN toDev : j # 1 /\ toDev[j].cmd = "OPEN" => toDev[j].l # s
      BY <2>3, <2>5 DEF Up, Asked
    <3>2. m.n \in Opens /\ s \in Slots /\ m.n # 0
      BY <2>3, <2>5, ChannelsAssumption DEF T, ToDevice, Opens
    <3>3. \A i \in DOMAIN toDev' : toDev'[i].cmd = "OPEN" => toDev'[i].l # s
      BY <2>3, <3>1
    <3>4. \A n \in live : slotOf[n] # s
      BY <3>1 DEF Up, Streaming
    <3>5. Msg("OKAY", m.n, s) \in FromDevice /\ Msg("CLSE", 0, s) \in FromDevice
      BY <3>2, ChannelsAssumption DEF FromDevice, Msg, Opens
    <3>6. \/ live' = live \cup {m.n} /\ fromDev' = Append(fromDev, Msg("OKAY", m.n, s))
          \/ live' = live /\ fromDev' = Append(fromDev, Msg("CLSE", 0, s))
      BY <2>1, <2>5 DEF Receive
    <3>7. PICK msg \in FromDevice :
              /\ fromDev' = Append(fromDev, msg) /\ msg.l = s
              /\ msg.cmd # "CLSE" => msg.n = current[s]
              /\ \A n \in live' : n \in live \/ (slotOf[n] = s /\ current[s] = n)
              /\ msg.cmd = "CLSE" => \A n \in live' : slotOf[n] # s
      <4>1. CASE live' = live \cup {m.n} /\ fromDev' = Append(fromDev, Msg("OKAY", m.n, s))
        <5>1. Msg("OKAY", m.n, s).l = s /\ Msg("OKAY", m.n, s).n = m.n /\ Msg("OKAY", m.n, s).cmd = "OKAY"
          BY DEF Msg
        <5>2. QED
          BY <3>1, <3>5, <4>1, <5>1
      <4>2. CASE live' = live /\ fromDev' = Append(fromDev, Msg("CLSE", 0, s))
        <5>1. Msg("CLSE", 0, s).l = s /\ Msg("CLSE", 0, s).cmd = "CLSE"
          BY DEF Msg
        <5>2. QED
          BY <3>4, <3>5, <4>2, <5>1
      <4>3. QED
        BY <3>6, <4>1, <4>2
    <3> HIDE DEF s
    <3>8. current[s] # 0 /\ \A i \in DOMAIN fromDev : fromDev[i].l = s => fromDev[i].cmd # "CLSE"
      BY <3>1, <3>2
    <3>9. QED
      BY <1>1, <2>4, <3>1, <3>2, <3>3, <3>7, <3>8, DeviceMessageUp
  <2>6. CASE m.cmd # "OPEN"
    <3>1. \/ UNCHANGED <<live, fromDev>>
          \/ /\ m.n \in live /\ live' = live \ {m.n}
             /\ fromDev' = Append(fromDev, Msg("CLSE", m.n, slotOf[m.n]))
          \/ /\ m.n \in live /\ live' = live
             /\ fromDev' = Append(fromDev, Msg("OKAY", m.n, slotOf[m.n]))
      BY <2>1, <2>6 DEF Receive
    <3>2. CASE UNCHANGED <<live, fromDev>>
      <4>1. UNCHANGED <<biptype, current, ptrlist, user, pc, mine, want>>
        BY <1>1 DEF table, calls
      <4>2. Beginning("type")' = Beginning("type") /\ Beginning("push")' = Beginning("push")
        BY <1>1 DEF Beginning
      <4>3. Asked' /\ Streaming' /\ Arriving'
        BY <1>1, <2>4, <3>2, <4>1, <4>2, StreamsKept
      <4>4. Handling' /\ Queued' /\ Using' /\ Calling'
        BY <1>1, <4>1, <4>2 DEF Up, Handling, Queued, Using, Calling, Relies
      <4>5. QED
        BY <4>3, <4>4 DEF Up
    <3>3. CASE /\ m.n \in live /\ live' = live \ {m.n}
               /\ fromDev' = Append(fromDev, Msg("CLSE", m.n, slotOf[m.n]))
      BY <1>1, <2>4, <3>3, DeviceStreamUp
    <3>4. CASE /\ m.n \in live /\ live' = live
               /\ fromDev' = Append(fromDev, Msg("OKAY", m.n, slotOf[m.n]))
      BY <1>1, <2>4, <3>4, DeviceStreamUp
    <3>5. QED
      BY <3>1, <3>2, <3>3, <3>4
  <2>7. QED
    BY <2>5, <2>6
<1>5. QED
  BY <1>2, <1>3, <1>4


-------------------------------------------------------------------------------
(* Every step.                                                             *)

LEMMA UpStep ==
    ASSUME SlotInv, TypeInv', Numbered, Placed, Up, ~kicked, ~kicked', Next
    PROVE  Up'
<1>1. ~ClearCall
  BY DEF ClearCall
<1>2. ~StepLock /\ ~StepFree
  BY DEF StepLock, StepFree, Committed, SlotInv, Owned
<1>3. ASSUME NEW w \in Workers, Step(w) PROVE Up'
  BY <1>3, StepUp
<1>4. ASSUME NEW c \in Clients, Client(c) PROVE Up'
  <2>1. CASE \E type \in Kinds \cup {"close", "destroy"} : Call(c, type)
    BY <2>1, CallBeginsUp
  <2>2. CASE ClientGetId(c)
    BY <2>2, ClientGetIdUp
  <2>3. CASE RecvBegin(c) \/ Recv(c) \/ RecvEmpty(c) \/ RecvTimeout(c)
    BY <2>3, RecvUp
  <2>4. CASE Wait(c) \/ WaitResume(c)
    BY <2>4, WaitUp
  <2>5. CASE \/ Construct(c) \/ TypeSetBegin(c) \/ TypeSetClosing(c)
             \/ Connect(c) \/ Connected(c) \/ WriteBegin(c)
    BY <2>5, OnlyPcUp
  <2>6. CASE TypeSetOpening(c) \/ Write(c)
    BY <2>6, SendUp
  <2>7. CASE TypeSetDone(c)
    BY <2>7, TypeSetDoneUp
  <2>8. CASE Open(c)
    BY <2>8, OpenUp
  <2>9. CASE ClientFreeId(c)
    BY <2>9, ClientFreeIdUp
  <2>10. QED
    BY <1>4, <2>1, <2>2, <2>3, <2>4, <2>5, <2>6, <2>7, <2>8, <2>9 DEF Client, InCall
<1>5. QED
  BY <1>1, <1>2, <1>3, <1>4, HandlePacketUp, DeviceUp DEF Next

LEMMA NotifyPlaced ==
    ASSUME NEW l
    PROVE  \A i \in DOMAIN Notify(l) : Notify(l)[i].do \in {"lock", "free", "add", "notify"}
<1>1. DOMAIN Notify(l) = 1..2 /\ Notify(l)[1] = Do("add", l, 0) /\ Notify(l)[2] = Do("notify", l, 0)
  BY DEF Notify
<1>2. Do("add", l, 0).do = "add" /\ Do("notify", l, 0).do = "notify"
  BY DEF Do
<1>3. QED
  BY <1>1, <1>2

LEMMA TailIndex ==
    ASSUME NEW S, NEW s \in Seq(S), s # <<>>
    PROVE  \A i \in DOMAIN Tail(s) : i + 1 \in DOMAIN s /\ Tail(s)[i] = s[i + 1] /\ i + 1 > 1
  OBVIOUS

LEMMA PlacedStep ==
    ASSUME SlotInv, Placed, ~kicked, ~kicked', Next
    PROVE  Placed'
<1>1. /\ todo \in [Workers -> Seq(StepsOfWork)] /\ "user_thread" \in Workers /\ Clients \subseteq Workers
      /\ "user_thread" \notin Clients
  BY ChannelsAssumption DEF SlotInv, TypeInv, CallTypes, Workers
<1>2. CASE UNCHANGED todo
  BY <1>2 DEF Placed, Workers
<1>3. ASSUME NEW w \in Workers, Step(w) PROVE Placed'
  <2> DEFINE S == StepsOfWork
  <2>1. todo[w] # <<>> /\ todo' = [todo EXCEPT ![w] = Tail(todo[w])]
    BY <1>3 DEF Step, StepType, StepPush, StepRid, StepConnected, StepAdd, StepNotify, Committed, Drop
  <2>2. todo[w] \in Seq(S) /\ todo'[w] = Tail(todo[w]) /\ \A v \in Workers \ {w} : todo'[v] = todo[v]
    BY <1>1, <2>1
  <2> HIDE DEF S
  <2>3. \A i \in DOMAIN todo'[w] : i + 1 \in DOMAIN todo[w] /\ todo'[w][i] = todo[w][i + 1] /\ i + 1 > 1
    <3>1. \A i \in DOMAIN Tail(todo[w]) : /\ i + 1 \in DOMAIN todo[w] /\ i + 1 > 1
                                         /\ Tail(todo[w])[i] = todo[w][i + 1]
      BY <2>1, <2>2, TailIndex
    <3>2. QED
      BY <2>2, <3>1
  <2>4. ASSUME NEW i \in DOMAIN todo'["user_thread"]
        PROVE  i > 1 => todo'["user_thread"][i].do \notin {"type", "push"}
    <3>1. CASE w = "user_thread"
      BY <2>3, <3>1 DEF Placed
    <3>2. CASE w # "user_thread"
      BY <1>1, <2>2, <3>2 DEF Placed
    <3>3. QED
      BY <3>1, <3>2
  <2>5. ASSUME NEW v \in Workers \ {"user_thread"}, NEW i \in DOMAIN todo'[v]
        PROVE  todo'[v][i].do \in {"lock", "free", "add", "notify"}
    <3>1. CASE v = w
      BY <2>3, <2>5, <3>1 DEF Placed
    <3>2. CASE v # w
      BY <2>2, <2>5, <3>2 DEF Placed
    <3>3. QED
      BY <3>1, <3>2
  <2>6. QED
    BY <2>4, <2>5, SMTT(60) DEF Placed, Workers
<1>4. CASE HandlePacket
  <2> DEFINE m == Head(fromDev)
  <2>1. m \in FromDevice /\ todo' = [todo EXCEPT !["user_thread"] = IF Present(m.l) THEN Work(m) ELSE <<>>]
    BY <1>4, HeadTailProperties DEF HandlePacket, SlotInv, TypeInv, Queues
  <2> HIDE DEF m
  <2>2. /\ todo'["user_thread"] = Work(m) \/ todo'["user_thread"] = <<>>
        /\ \A v \in Workers \ {"user_thread"} : todo'[v] = todo[v]
    BY <1>1, <2>1
  <2>3. \A i \in DOMAIN todo'["user_thread"] : i > 1 => todo'["user_thread"][i].do \notin {"type", "push"}
    BY <2>1, <2>2, WorkBegins
  <2>4. QED
    BY <2>2, <2>3 DEF Placed, Workers
<1>5. ASSUME NEW c \in Clients, ClientFreeId(c) PROVE Placed'
  <2>1. todo' = [todo EXCEPT ![c] = Notify(mine[c])]
    BY <1>5 DEF ClientFreeId
  <2>2. todo'[c] = Notify(mine[c]) /\ \A v \in Workers \ {c} : todo'[v] = todo[v]
    BY <1>1, <2>1
  <2>3. \A i \in DOMAIN todo'[c] : todo'[c][i].do \in {"lock", "free", "add", "notify"}
    BY <2>2, NotifyPlaced
  <2>4. QED
    BY <1>1, <2>2, <2>3 DEF Placed, Workers
<1>6. ASSUME NEW c \in Clients, Client(c), ~ClientFreeId(c) PROVE UNCHANGED todo
  BY <1>6 DEF Client, InCall, Construct, ClientGetId, Call, RecvBegin, RecvTimeout,
      WriteBegin, TypeSetBegin, TypeSetOpening, TypeSetClosing, TypeSetDone, Open, Connect,
      Connected, Recv, RecvEmpty, Wait, WaitResume, Write, OnlyPc
<1>7. ~ClearCall /\ ~StepLock /\ ~StepFree
  BY DEF ClearCall, StepLock, StepFree, Committed, SlotInv, Owned
<1>8. CASE DeviceReceive \/ \E n \in Opens : DeviceSend(n) \/ DeviceClose(n)
  BY <1>2, <1>8 DEF DeviceReceive, DeviceSend, DeviceClose
<1>9. QED
  BY <1>2, <1>3, <1>4, <1>5, <1>6, <1>7, <1>8 DEF Next


\* Who changes the numbers of the streams.
LEMMA NumbersMove ==
    ASSUME SlotInv, Next
    PROVE  /\ opens \in Nat /\ opens' \in Nat
           /\ \/ UNCHANGED <<current, opens, slotOf>>
              \/ \E s \in Slots :
                     /\ UNCHANGED <<opens, slotOf>> /\ current'[s] = 0
                     /\ \A l \in Slots \ {s} : current'[l] = current[l]
              \/ \E s \in Slots :
                     /\ opens' = opens + 1 /\ opens + 1 \in Opens /\ current'[s] = opens + 1
                     /\ \A l \in Slots \ {s} : current'[l] = current[l]
                     /\ \A n \in Opens : n # opens + 1 => slotOf'[n] = slotOf[n]
           /\ DeviceReceive \/ live' \subseteq live
<1>1. /\ current \in [Slots -> 0..MaxOpens] /\ slotOf \in [Opens -> 0..NumSlots] /\ opens \in Nat
  BY DEF SlotInv, TypeInv, Tables, Queues
<1> DEFINE P == \/ UNCHANGED <<current, opens, slotOf>>
                \/ \E s \in Slots :
                       /\ UNCHANGED <<opens, slotOf>> /\ current'[s] = 0
                       /\ \A l \in Slots \ {s} : current'[l] = current[l]
                \/ \E s \in Slots :
                       /\ opens' = opens + 1 /\ opens + 1 \in Opens /\ current'[s] = opens + 1
                       /\ \A l \in Slots \ {s} : current'[l] = current[l]
                       /\ \A n \in Opens : n # opens + 1 => slotOf'[n] = slotOf[n]
<1>2. ASSUME NEW s \in Slots, current' = [current EXCEPT ![s] = 0], UNCHANGED <<opens, slotOf>>
      PROVE  P /\ opens' \in Nat
  <2>1. current'[s] = 0 /\ \A l \in Slots \ {s} : current'[l] = current[l]
    BY <1>1, <1>2
  <2>2. QED
    BY <1>1, <1>2, <2>1
<1>3. ASSUME UNCHANGED <<current, opens, slotOf>> PROVE P /\ opens' \in Nat
  BY <1>1, <1>3
<1>4. ASSUME NEW c \in Clients, Client(c) PROVE (P /\ opens' \in Nat) /\ live' = live
  <2>1. CASE ClientGetId(c)
    <3>1. CASE \A l \in Slots : user[l]
      BY <1>3, <2>1, <3>1 DEF ClientGetId, table, counts, adbd
    <3>2. CASE ~ \A l \in Slots : user[l]
      <4> DEFINE l == CHOOSE l \in Slots : ~user[l] /\ \A k \in Slots : ~user[k] => l <= k
      <4>1. l \in Slots
        BY <3>2, FirstFree DEF SlotInv
      <4>2. /\ current' = [current EXCEPT ![l] = 0]
            /\ UNCHANGED <<opens, slotOf, live>>
        BY <2>1, <3>2 DEF ClientGetId, ClientInit, Cleared, counts, adbd
      <4> HIDE DEF l
      <4>3. QED
        BY <1>2, <4>1, <4>2
    <3>3. QED
      BY <3>1, <3>2
  <2>2. CASE TypeSetDone(c) \/ ClientFreeId(c)
    <3>1. mine[c] \in Slots
      BY <2>2, SlotOfClient DEF TypeSetDone, ClientFreeId, Outside, SlotInv
    <3>2. current' = [current EXCEPT ![mine[c]] = 0] /\ UNCHANGED <<opens, slotOf, live>>
      BY <2>2 DEF TypeSetDone, ClientFreeId, ClientInit, Cleared, counts, adbd
    <3>3. QED
      BY <1>2, <3>1, <3>2
  <2>3. CASE Open(c)
    <3>1. CASE want[c] = "toolong"
      BY <1>3, <2>3, <3>1 DEF Open
    <3>2. CASE want[c] # "toolong"
      <4>1. mine[c] \in Slots
        BY <2>3, SlotOfClient DEF Open, Outside, SlotInv
      <4>2. /\ current' = [current EXCEPT ![mine[c]] = opens + 1] /\ opens' = opens + 1
            /\ slotOf' = [slotOf EXCEPT ![opens + 1] = mine[c]] /\ UNCHANGED live
        BY <2>3, <3>2 DEF Open
      <4>3. opens + 1 \in Opens
        <5>1. c \in Opening
          BY <2>3 DEF Open, Opening, SlotInv, OpensKinds
        <5>2. Cardinality(Opening) \in Nat \ {0}
          BY <5>1, OpeningFinite, FS_EmptySet
        <5>3. opens + Cardinality(Opening) <= MaxOpens
          BY DEF SlotInv, TypeInv, Queues
        <5>4. QED
          BY <1>1, <5>2, <5>3, ChannelsAssumption DEF Opens
      <4>4. QED
        BY <1>1, <4>1, <4>2, <4>3
    <3>3. QED
      BY <3>1, <3>2
  <2>4. CASE ~(ClientGetId(c) \/ TypeSetDone(c) \/ ClientFreeId(c) \/ Open(c))
    <3>1. UNCHANGED <<current, opens, slotOf, live>>
      BY <1>4, <2>4 DEF Client, InCall, Construct, Call, RecvBegin, RecvTimeout,
          WriteBegin, TypeSetBegin, TypeSetOpening, TypeSetClosing, Connect,
          Connected, Recv, RecvEmpty, Wait, WaitResume, Write, OnlyPc, table, adbd, counts
    <3>2. QED
      BY <1>3, <3>1
  <2>5. QED
    BY <2>1, <2>2, <2>3, <2>4
<1>5. CASE \/ \E w \in Workers : Step(w)
           \/ HandlePacket \/ ClearCall \/ StepLock \/ StepFree
  <2>1. UNCHANGED <<current, opens, slotOf, live>>
    BY <1>5, Zenon DEF Step, StepType, StepPush, StepRid, StepConnected, StepAdd, StepNotify,
        HandlePacket, ClearCall, StepLock, StepFree, table, adbd, counts
  <2>2. QED
    BY <1>3, <2>1, SMTT(60)
<1>6. CASE DeviceReceive \/ \E n \in Opens : DeviceSend(n) \/ DeviceClose(n)
  <2>1. UNCHANGED <<current, opens, slotOf>> /\ (DeviceReceive \/ live' \subseteq live)
    BY <1>6 DEF DeviceReceive, DeviceSend, DeviceClose, table, counts
  <2>2. QED
    BY <1>3, <2>1
<1>7. QED
  BY <1>1, <1>4, <1>5, <1>6 DEF Next

LEMMA NumberedStep ==
    ASSUME SlotInv, Numbered, ~kicked => Up, Next
    PROVE  Numbered'
<1>1. \A n \in live : n <= opens /\ n \in Nat
  BY DEF Numbered, SlotInv, TypeInv, Queues, Opens
<1>2. \A l \in Slots : current[l] <= opens /\ current[l] \in Nat
  BY DEF Numbered, SlotInv, TypeInv, Tables
<1>3. opens \in Nat /\ opens' \in Nat /\ opens' >= opens
  BY NumbersMove
<1>4. ASSUME NEW n \in live' PROVE n <= opens'
  <2>1. CASE n \in live
    BY <1>1, <1>3, <2>1
  <2>2. CASE n \notin live
    <3>1. DeviceReceive
      BY <2>2, NumbersMove
    <3>2. Head(toDev).cmd = "OPEN" /\ n = Head(toDev).n /\ toDev # <<>> /\ ~kicked
      BY <2>2, <3>1 DEF DeviceReceive, Receive
    <3>3. Head(toDev) \in ToDevice /\ 1 \in DOMAIN toDev /\ Head(toDev) = toDev[1]
      <4> DEFINE T == ToDevice
      <4>1. toDev \in Seq(T)
        BY DEF SlotInv, TypeInv, Queues
      <4> HIDE DEF T
      <4>2. Head(toDev) \in T /\ 1 \in DOMAIN toDev /\ Head(toDev) = toDev[1]
        BY <3>2, <4>1
      <4>3. QED
        BY <4>2 DEF T
    <3>4. n = current[Head(toDev).l] /\ Head(toDev).l \in Slots
      BY <3>2, <3>3 DEF Up, Asked, ToDevice
    <3>5. QED
      BY <1>2, <1>3, <3>4
  <2>3. QED
    BY <2>1, <2>2
<1>5. ASSUME NEW l \in Slots PROVE current'[l] <= opens'
  <2>1. current'[l] = current[l] \/ current'[l] = 0 \/ (current'[l] = opens + 1 /\ opens' = opens + 1)
    BY NumbersMove
  <2>2. QED
    BY <1>2, <1>3, <2>1
<1>6. QED
  BY <1>4, <1>5 DEF Numbered

LEMMA OneStreamStep ==
    ASSUME SlotInv, Numbered, OneStreamPerSlot, ~kicked' => Up', Next
    PROVE  OneStreamPerSlot'
<1>1. CASE ~kicked'
  BY <1>1 DEF Up, Streaming, OneStreamPerSlot
<1>2. CASE kicked'
  <2>1. ~DeviceReceive
    BY <1>2 DEF DeviceReceive
  <2>2. live' \subseteq live
    BY <2>1, NumbersMove
  <2>3. \A n \in live : n <= opens /\ n \in Nat /\ n \in Opens
    BY DEF Numbered, SlotInv, TypeInv, Queues, Opens
  <2>4. opens \in Nat
    BY NumbersMove
  <2>5. \A n \in live : n # opens + 1
    BY <2>3, <2>4
  <2>6. \A n \in live : slotOf'[n] = slotOf[n]
    BY <2>3, <2>5, NumbersMove
  <2>7. QED
    BY <2>2, <2>6 DEF OneStreamPerSlot
<1>3. QED
  BY <1>1, <1>2

LEMMA StreamInvStep == StreamInv /\ [Next]_vars => StreamInv'
<1> SUFFICES ASSUME StreamInv, [Next]_vars PROVE StreamInv'
  OBVIOUS
<1>1. SlotInv /\ Numbered /\ OneStreamPerSlot /\ (~kicked => Placed /\ Up)
  BY DEF StreamInv
<1>2. SlotInv'
  BY <1>1, TypeInvStep, OpensKindsStep, SlotsStep DEF SlotInv
<1>3. CASE Next
  <2>1. ~kicked' => ~kicked
    BY <1>1, <1>3, ClearsAfterKick DEF SlotInv
  <2>2. ~kicked' => Placed' /\ Up'
    <3>1. SUFFICES ASSUME ~kicked' PROVE Placed' /\ Up'
      OBVIOUS
    <3>2. TypeInv'
      BY <1>2 DEF SlotInv
    <3>3. QED
      BY <1>1, <1>3, <2>1, <3>1, <3>2, PlacedStep, UpStep
  <2>3. Numbered' /\ OneStreamPerSlot'
    BY <1>1, <1>3, <2>2, NumberedStep, OneStreamStep
  <2>4. QED
    BY <1>2, <2>2, <2>3 DEF StreamInv
<1>4. CASE UNCHANGED vars
  <2>1. UNCHANGED <<user, biptype, ptrlist, current, kicked, pc, mine, want, todo, toDev, fromDev,
                    live, slotOf, opens>>
    BY <1>4 DEF vars, table, calls, adbd, counts
  <2>2. Beginning("type")' = Beginning("type") /\ Beginning("push")' = Beginning("push")
    BY <2>1 DEF Beginning
  <2>3. Asked' = Asked /\ Streaming' = Streaming /\ Arriving' = Arriving
    BY <2>1, <2>2 DEF Asked, Streaming, Arriving
  <2>4. Handling' = Handling /\ Queued' = Queued /\ Using' = Using /\ Calling' = Calling
    BY <2>1, <2>2 DEF Handling, Queued, Using, Calling, Relies
  <2>5. Placed' = Placed /\ Numbered' = Numbered /\ OneStreamPerSlot' = OneStreamPerSlot
    BY <2>1 DEF Placed, Numbered, OneStreamPerSlot, Workers
  <2>6. QED
    BY <1>1, <1>2, <2>1, <2>3, <2>4, <2>5 DEF StreamInv, Up
<1>5. QED
  BY <1>3, <1>4

LEMMA StreamInvAlways == Spec => []StreamInv
  BY InitStreamInv, StreamInvStep, PTL DEF Spec

\* For any number of users, slots, opens and packets: while the transport is up, whatever
\* is queued on a slot was sent by the device on the open the slot's user sent last, though
\* local_client_enqueue goes by local_id alone (Catransport.cpp 427-453, 560-588).
THEOREM ChannelsNoCrossTalk == Spec => []NoCrossTalk
<1>1. StreamInv => NoCrossTalk
  BY UpImplies DEF StreamInv
<1>2. QED
  BY <1>1, StreamInvAlways, PTL

\* While the transport is up, ~CAdb gives a slot back only when nothing is left on its way,
\* in either direction, that the slot's next user could take for its own, and the device has
\* no stream for it (CAdb.cpp 63-81, Catransport.cpp 518-588, 1076-1124).
THEOREM ChannelsFreeSlotIsSilent == Spec => []FreeSlotIsSilent
<1>1. StreamInv => FreeSlotIsSilent
  BY UpImplies DEF StreamInv
<1>2. QED
  BY <1>1, StreamInvAlways, PTL

\* The device never has two streams for one local_id, however often a slot is opened and
\* closed (Catransport.cpp 560-588).
THEOREM ChannelsOneStreamPerSlot == Spec => []OneStreamPerSlot
<1>1. StreamInv => OneStreamPerSlot
  BY DEF StreamInv
<1>2. QED
  BY <1>1, StreamInvAlways, PTL


-------------------------------------------------------------------------------
(* Channels implements StreamTable.                                        *)

LEMMA MappedInit == Init => Promised!Init
<1> SUFFICES ASSUME Init PROVE Promised!Init
  OBVIOUS
<1>1. \A l \in Slots : {c \in Clients : mine[c] = l} = {} /\ {n \in live : slotOf[n] = l} = {}
  BY DEF Init, Slots
<1>2. /\ [l \in Slots |-> {c \in Clients : mine[c] = l}] = [l \in Slots |-> {}]
      /\ [l \in Slots |-> {n \in live : slotOf[n] = l}] = [l \in Slots |-> {}]
  BY <1>1
<1>3. ~kicked /\ current = [l \in Slots |-> 0] /\ ptrlist = [l \in Slots |-> <<>>] /\ opens = 0
  BY DEF Init
<1>4. QED
  BY <1>2, <1>3 DEF Promised!Init

\* What no stream depends on.
LEMMA StreamsStutter ==
    ASSUME UNCHANGED <<kicked, mine, current, live, slotOf, ptrlist, opens>>
    PROVE  UNCHANGED Promised!table
  BY DEF Promised!table

LEMMA ArriveMapped ==
    ASSUME SlotInv, Placed, Up, NEW w \in Workers, StepPush(w)
    PROVE  \E l \in Slots : Promised!Arrive(l)
<1> DEFINE d == Head(todo[w])
<1>1. todo[w] # <<>> /\ d.do = "push" /\ todo[w] \in Seq(StepsOfWork)
  BY DEF StepPush, Committed, SlotInv, TypeInv, CallTypes
<1>2. d \in StepsOfWork /\ 1 \in DOMAIN todo[w] /\ d = todo[w][1]
  <2> DEFINE S == StepsOfWork
  <2>1. todo[w] \in Seq(S)
    BY <1>1
  <2> HIDE DEF S
  <2>2. d \in S /\ 1 \in DOMAIN todo[w] /\ d = todo[w][1]
    BY <1>1, <2>1
  <2>3. QED
    BY <2>2 DEF S
<1>3. w = "user_thread"
  BY <1>1, <1>2 DEF Placed
<1>4. d.l \in Slots /\ d.n \in Opens /\ d.n # 0
  BY <1>1, <1>2, ChannelsAssumption DEF StepsOfWork, Opens
<1>5. biptype[d.l] # "close" /\ current[d.l] = d.n
  BY <1>1, <1>3, <1>4 DEF Up, Handling, Beginning
<1>6. PICK c \in Clients : mine[c] = d.l
  BY <1>4, <1>5 DEF Up, Using
<1>7. /\ ptrlist' = [ptrlist EXCEPT ![d.l] = Append(ptrlist[d.l], current[d.l])]
      /\ UNCHANGED <<kicked, mine, current, live, slotOf, opens>>
  BY <1>5 DEF StepPush, calls, adbd, counts
<1> HIDE DEF d
<1>8. [l \in Slots |-> {b \in Clients : mine[b] = l}][d.l] # {}
  BY <1>4, <1>6
<1>9. QED
  BY <1>4, <1>5, <1>7, <1>8 DEF Promised!Arrive

LEMMA RecvMapped ==
    ASSUME SlotInv, ~kicked, NEW c \in Clients, Recv(c)
    PROVE  (\E l \in Slots : Promised!Read(l)) \/ UNCHANGED Promised!table
<1>1. mine[c] \in Slots /\ UNCHANGED <<kicked, mine, current, live, slotOf, opens>>
  BY OwnsSlot DEF Recv, Outside, adbd, counts
<1>2. CASE UNCHANGED ptrlist
  BY <1>1, <1>2, StreamsStutter
<1>3. CASE ptrlist[mine[c]] # <<>> /\ ptrlist' = [ptrlist EXCEPT ![mine[c]] = Tail(@)]
  BY <1>1, <1>3 DEF Promised!Read
<1>4. QED
  BY <1>2, <1>3 DEF Recv

\* The device has no stream on a closed channel.
LEMMA ClosedIdle ==
    ASSUME Up, NEW l \in Slots, biptype[l] = "close"
    PROVE  {n \in live : slotOf[n] = l} = {}
  BY DEF Up, Streaming

LEMMA TypeSetDoneMapped ==
    ASSUME SlotInv, ~kicked, Up, NEW c \in Clients, TypeSetDone(c)
    PROVE  \E l \in Slots : Promised!ClearSlot(l)
<1>1. mine[c] \in Slots /\ biptype[mine[c]] = "close"
  BY OwnsSlot DEF TypeSetDone, Outside, Up, Calling, Relies
<1>2. /\ ptrlist' = [ptrlist EXCEPT ![mine[c]] = <<>>] /\ current' = [current EXCEPT ![mine[c]] = 0]
      /\ UNCHANGED <<kicked, mine, live, slotOf, opens>>
  BY DEF TypeSetDone, Cleared, adbd, counts
<1>3. [l \in Slots |-> {n \in live : slotOf[n] = l}][mine[c]] = {}
  BY <1>1, ClosedIdle
<1>4. QED
  BY <1>1, <1>2, <1>3 DEF Promised!ClearSlot, Promised!Idle, Promised!Empty

LEMMA OpenMapped ==
    ASSUME SlotInv, Numbered, ~kicked, Up, NEW c \in Clients, Open(c)
    PROVE  (\E l \in Slots : Promised!Ask(l)) \/ UNCHANGED Promised!table
<1>1. mine[c] \in Slots /\ mine[c] # 0 /\ current[mine[c]] = 0
  BY OwnsSlot DEF Open, Outside, Up, Calling, Relies
<1>2. CASE want[c] = "toolong"
  BY <1>2, StreamsStutter DEF Open
<1>3. CASE want[c] # "toolong"
  <2>1. /\ current' = [current EXCEPT ![mine[c]] = opens + 1] /\ opens' = opens + 1
        /\ slotOf' = [slotOf EXCEPT ![opens + 1] = mine[c]]
        /\ UNCHANGED <<kicked, mine, live, ptrlist>>
    BY <1>3 DEF Open
  <2>2. [l \in Slots |-> {n \in live : slotOf[n] = l}][mine[c]] = {}
    BY <1>1, UnaskedSlotUnknown DEF SlotInv
  <2>3. [l \in Slots |-> {b \in Clients : mine[b] = l}][mine[c]] # {}
    BY <1>1
  <2>4. ptrlist[mine[c]] = <<>>
    <3>1. ptrlist[mine[c]] \in Seq(Opens) /\ \A i \in DOMAIN ptrlist[mine[c]] : FALSE
      BY <1>1, UnaskedSlotUnknown DEF SlotInv, TypeInv, Tables
    <3>2. ASSUME ptrlist[mine[c]] # <<>> PROVE 1 \in DOMAIN ptrlist[mine[c]]
      BY <3>1, <3>2
    <3>3. QED
      BY <3>1, <3>2
  <2>5. \A n \in live : slotOf'[n] = slotOf[n]
    <3>1. \A n \in live : n <= opens /\ n \in Opens /\ n \in Nat
      BY DEF Numbered, SlotInv, TypeInv, Queues, Opens
    <3>2. opens \in Nat /\ slotOf \in [Opens -> 0..NumSlots]
      BY DEF SlotInv, TypeInv, Queues
    <3>3. \A n \in live : n # opens + 1
      BY <3>1, <3>2
    <3>4. QED
      BY <2>1, <3>1, <3>2, <3>3
  <2>6. [l \in Slots |-> {n \in live' : slotOf'[n] = l}] = [l \in Slots |-> {n \in live : slotOf[n] = l}]
    <3>1. \A l \in Slots : {n \in live' : slotOf'[n] = l} = {n \in live : slotOf[n] = l}
      BY <2>1, <2>5
    <3>2. QED
      BY <3>1
  <2>7. Promised!Ask(mine[c])
    BY <1>1, <2>1, <2>2, <2>3, <2>4, <2>6 DEF Promised!Ask, Promised!Idle, Slots
  <2>8. QED
    BY <1>1, <2>7
<1>4. QED
  BY <1>2, <1>3

LEMMA ClientGetIdMapped ==
    ASSUME SlotInv, ~kicked, Up, NEW c \in Clients, ClientGetId(c)
    PROVE  (\E l \in Slots, u \in Clients : Promised!TakeSlot(l, u)) \/ UNCHANGED Promised!table
<1>1. CASE \A l \in Slots : user[l]
  BY <1>1, StreamsStutter DEF ClientGetId, table, adbd, counts
<1>2. CASE ~ \A l \in Slots : user[l]
  <2> DEFINE s == CHOOSE l \in Slots : ~user[l] /\ \A k \in Slots : ~user[k] => l <= k
  <2>1. s \in Slots /\ ~user[s]
    BY <1>2, FirstFree DEF SlotInv
  <2>2. /\ ptrlist' = [ptrlist EXCEPT ![s] = <<>>] /\ current' = [current EXCEPT ![s] = 0]
        /\ mine' = [mine EXCEPT ![c] = s]
        /\ UNCHANGED <<kicked, live, slotOf, opens>>
    BY <1>2 DEF ClientGetId, ClientInit, Cleared, adbd, counts
  <2> HIDE DEF s
  <2>3. PICK l \in Slots : l = s
    BY <2>1
  <2>4. l # 0 /\ biptype[l] = "close" /\ \A b \in Clients : mine[b] # l
    BY <2>1, <2>3, ChannelsAssumption DEF Up, Using, SlotInv, Owned, Slots
  <2>5. mine[c] = 0 /\ mine \in [Clients -> 0..NumSlots]
    BY DEF ClientGetId, SlotInv, TypeInv, CallTypes
  <2>6. [k \in Slots |-> {n \in live : slotOf[n] = k}][l] = {}
    BY <2>4, ClosedIdle
  <2>7. [k \in Slots |-> {b \in Clients : mine[b] = k}][l] = {}
    BY <2>4
  <2>8. [k \in Slots |-> {b \in Clients : mine'[b] = k}]
            = [[k \in Slots |-> {b \in Clients : mine[b] = k}] EXCEPT ![l] = {c}]
    <3>1. mine'[c] = l /\ \A b \in Clients \ {c} : mine'[b] = mine[b]
      BY <2>2, <2>3, <2>5
    <3>2. {b \in Clients : mine'[b] = l} = {c}
      BY <2>4, <3>1
    <3>3. 0 \notin Slots
      BY DEF Slots
    <3>4. ASSUME NEW k \in Slots \ {l}
          PROVE  {b \in Clients : mine'[b] = k} = {b \in Clients : mine[b] = k}
      BY <2>5, <3>1, <3>3, <3>4
    <3>5. QED
      BY <3>2, <3>4
  <2>9. Promised!TakeSlot(l, c)
    BY <2>2, <2>3, <2>6, <2>7, <2>8 DEF Promised!TakeSlot, Promised!Idle, Promised!Empty
  <2>10. QED
    BY <2>9
<1>3. QED
  BY <1>1, <1>2

LEMMA ClientFreeIdMapped ==
    ASSUME SlotInv, ~kicked, Up, NEW c \in Clients, ClientFreeId(c)
    PROVE  \E l \in Slots : Promised!GiveBack(l)
<1>1. mine[c] \in Slots /\ mine[c] # 0 /\ biptype[mine[c]] = "close"
  BY OwnsSlot DEF ClientFreeId, Outside, Up, Calling, Relies
<1>2. PICK l \in Slots : l = mine[c]
  BY <1>1
<1>3. /\ ptrlist' = [ptrlist EXCEPT ![l] = <<>>] /\ current' = [current EXCEPT ![l] = 0]
      /\ mine' = [mine EXCEPT ![c] = 0]
      /\ UNCHANGED <<kicked, live, slotOf, opens>>
  BY <1>2 DEF ClientFreeId, ClientInit, Cleared, adbd, counts
<1>4. [k \in Slots |-> {n \in live : slotOf[n] = k}][l] = {}
  BY <1>1, <1>2, ClosedIdle
<1>5. [k \in Slots |-> {b \in Clients : mine'[b] = k}]
          = [[k \in Slots |-> {b \in Clients : mine[b] = k}] EXCEPT ![l] = {}]
  <2>1. mine'[c] = 0 /\ \A b \in Clients \ {c} : mine'[b] = mine[b] /\ mine[b] # l
    <3>1. \A b \in Clients \ {c} : mine[b] # mine[c]
      BY Alone DEF ClientFreeId, Outside
    <3>2. QED
      BY <1>2, <1>3, <3>1 DEF SlotInv, TypeInv, CallTypes
  <2>2. 0 \notin Slots
    BY DEF Slots
  <2>3. {b \in Clients : mine'[b] = l} = {}
    BY <2>1, <2>2
  <2>4. ASSUME NEW k \in Slots \ {l}
        PROVE  {b \in Clients : mine'[b] = k} = {b \in Clients : mine[b] = k}
    BY <1>2, <2>1, <2>2, <2>4
  <2>5. QED
    BY <2>3, <2>4, ZenonT(60)
<1>6. Promised!GiveBack(l)
  BY <1>3, <1>4, <1>5 DEF Promised!GiveBack, Promised!Idle, Promised!Empty
<1>7. QED
  BY <1>6

\* The device ends a stream.
LEMMA DisconnectMapped ==
    ASSUME SlotInv, Up, NEW n \in live, live' = live \ {n},
           UNCHANGED <<kicked, mine, current, slotOf, ptrlist, opens>>
    PROVE  \E l \in Slots : Promised!Disconnect(l)
<1>1. PICK l \in Slots : l = slotOf[n]
  BY LiveSlot
<1>2. \A k \in live : k # n => slotOf[k] # l
  BY <1>1, LiveSlot
<1>3. [j \in Slots |-> {k \in live : slotOf[k] = j}][l] # {}
  BY <1>1
<1>4. [j \in Slots |-> {k \in live' : slotOf'[k] = j}]
          = [[j \in Slots |-> {k \in live : slotOf[k] = j}] EXCEPT ![l] = {}]
  <2>1. {k \in live' : slotOf'[k] = l} = {}
    BY <1>2
  <2>2. ASSUME NEW j \in Slots \ {l}
        PROVE  {k \in live' : slotOf'[k] = j} = {k \in live : slotOf[k] = j}
    BY <1>1, <2>2
  <2>3. QED
    BY <2>1, <2>2, ZenonT(60)
<1>5. Promised!Disconnect(l)
  BY <1>3, <1>4 DEF Promised!Disconnect, Promised!Idle
<1>6. QED
  BY <1>5

LEMMA DeviceMapped ==
    ASSUME SlotInv, Up, DeviceReceive \/ \E n \in Opens : DeviceSend(n) \/ DeviceClose(n)
    PROVE  \/ \E l \in Slots : Promised!Connect(l) \/ Promised!Disconnect(l)
           \/ UNCHANGED Promised!table
<1>1. UNCHANGED <<kicked, mine, current, slotOf, ptrlist, opens>>
  BY DEF DeviceReceive, DeviceSend, DeviceClose, table, calls, counts
<1>2. CASE UNCHANGED live
  BY <1>1, <1>2, StreamsStutter
<1>3. ASSUME NEW n \in live, live' = live \ {n} PROVE \E l \in Slots : Promised!Disconnect(l)
  BY <1>1, <1>3, DisconnectMapped
<1>4. CASE DeviceReceive /\ Head(toDev).cmd = "OPEN" /\ live' = live \cup {Head(toDev).n}
  <2> DEFINE T == ToDevice
  <2>1. toDev # <<>> /\ toDev \in Seq(T)
    BY <1>4 DEF DeviceReceive, SlotInv, TypeInv, Queues
  <2> HIDE DEF T
  <2>2. Head(toDev) = toDev[1] /\ 1 \in DOMAIN toDev /\ toDev[1] \in T
    BY <2>1
  <2>3. toDev[1].n \in Opens /\ toDev[1].l \in Slots /\ toDev[1].n # 0
    BY <1>4, <2>2, ChannelsAssumption DEF T, ToDevice, Opens
  <2>4. PICK l \in Slots, n \in Opens : l = toDev[1].l /\ n = toDev[1].n
    BY <2>3
  <2>5. biptype[l] # "close" /\ current[l] = n /\ slotOf[n] = l /\ n \notin live /\ n # 0
    BY <1>4, <2>2, <2>3, <2>4 DEF Up, Asked
  <2>6. live' = live \cup {n}
    BY <1>4, <2>2, <2>4
  <2>7. \A k \in live : slotOf[k] # l
    BY <2>5 DEF Up, Streaming
  <2>8. [j \in Slots |-> {k \in live : slotOf[k] = j}][l] = {}
    BY <2>7
  <2>9. [j \in Slots |-> {b \in Clients : mine[b] = j}][l] # {}
    BY <2>5 DEF Up, Using
  <2>10. [j \in Slots |-> {k \in live' : slotOf'[k] = j}]
             = [[j \in Slots |-> {k \in live : slotOf[k] = j}] EXCEPT ![l] = {current[l]}]
    <3>1. {k \in live' : slotOf'[k] = l} = {current[l]}
      BY <1>1, <2>5, <2>6, <2>7
    <3>2. ASSUME NEW j \in Slots \ {l}
          PROVE  {k \in live' : slotOf'[k] = j} = {k \in live : slotOf[k] = j}
      BY <1>1, <2>5, <2>6, <3>2
    <3>3. QED
      BY <3>1, <3>2
  <2>11. Promised!Connect(l)
    BY <1>1, <2>5, <2>8, <2>9, <2>10 DEF Promised!Connect, Promised!Idle
  <2>12. QED
    BY <2>11
<1>5. \/ UNCHANGED live
      \/ \E n \in live : live' = live \ {n}
      \/ DeviceReceive /\ Head(toDev).cmd = "OPEN" /\ live' = live \cup {Head(toDev).n}
  BY DEF DeviceReceive, DeviceSend, DeviceClose, Receive
<1>6. QED
  BY <1>2, <1>3, <1>4, <1>5

LEMMA MappedStep ==
    StreamInv /\ [Next]_vars => [Promised!Next]_(Promised!table)
<1> SUFFICES ASSUME StreamInv, [Next]_vars PROVE Promised!Next \/ UNCHANGED Promised!table
  OBVIOUS
<1>1. SlotInv /\ Numbered /\ (~kicked => Placed /\ Up)
  BY DEF StreamInv
<1>2. CASE UNCHANGED vars
  BY <1>2, StreamsStutter DEF vars, table, calls, adbd, counts
<1>3. CASE Next /\ kicked
  <2>1. kicked'
    BY <1>1, <1>3, ClearsAfterKick DEF SlotInv
  <2>2. QED
    BY <1>3, <2>1 DEF Promised!Next
<1>4. CASE ClearCall /\ ~kicked
  <2>1. kicked' /\ UNCHANGED <<mine, current, live, slotOf, ptrlist, opens>>
    BY <1>4 DEF ClearCall, table, calls, adbd
  <2>2. Promised!Kick
    BY <2>1 DEF Promised!Kick
  <2>3. QED
    BY <1>4, <2>2 DEF Promised!Next
<1>5. ASSUME ~kicked,
             \E l \in Slots : \/ \E u \in Clients : Promised!TakeSlot(l, u)
                              \/ Promised!Ask(l) \/ Promised!Connect(l) \/ Promised!Arrive(l)
                              \/ Promised!Read(l) \/ Promised!Disconnect(l)
                              \/ Promised!ClearSlot(l) \/ Promised!GiveBack(l)
      PROVE  Promised!Next
  BY <1>5 DEF Promised!Next
<1>6. ASSUME NEW w \in Workers, Step(w), ~kicked PROVE Promised!Next \/ UNCHANGED Promised!table
  <2>1. CASE StepPush(w)
    BY <1>1, <1>5, <1>6, <2>1, ArriveMapped
  <2>2. CASE ~StepPush(w)
    <3>1. UNCHANGED <<kicked, mine, current, live, slotOf, ptrlist, opens>>
      BY <1>6, <2>2 DEF Step, StepType, StepRid, StepConnected, StepAdd, StepNotify, calls, adbd, counts
    <3>2. QED
      BY <3>1, StreamsStutter
  <2>3. QED
    BY <2>1, <2>2
<1>7. CASE HandlePacket
  BY <1>7, StreamsStutter DEF HandlePacket, table, calls, adbd, counts
<1>8. ASSUME NEW c \in Clients, Client(c), ~kicked PROVE Promised!Next \/ UNCHANGED Promised!table
  <2>1. CASE ClientGetId(c)
    BY <1>1, <1>5, <1>8, <2>1, ClientGetIdMapped
  <2>2. CASE TypeSetDone(c)
    BY <1>1, <1>5, <1>8, <2>2, TypeSetDoneMapped
  <2>3. CASE Open(c)
    BY <1>1, <1>5, <1>8, <2>3, OpenMapped
  <2>4. CASE Recv(c)
    BY <1>1, <1>5, <1>8, <2>4, RecvMapped
  <2>5. CASE ClientFreeId(c)
    BY <1>1, <1>5, <1>8, <2>5, ClientFreeIdMapped
  <2>6. CASE ~(ClientGetId(c) \/ TypeSetDone(c) \/ Open(c) \/ Recv(c) \/ ClientFreeId(c))
    <3>1. UNCHANGED <<kicked, mine, current, live, slotOf, ptrlist, opens>>
      BY <1>8, <2>6 DEF Client, InCall, Construct, Call, RecvBegin, RecvTimeout,
          WriteBegin, TypeSetBegin, TypeSetOpening, TypeSetClosing, Connect,
          Connected, RecvEmpty, Wait, WaitResume, Write, OnlyPc, table, adbd, counts
    <3>2. QED
      BY <3>1, StreamsStutter
  <2>7. QED
    BY <2>1, <2>2, <2>3, <2>4, <2>5, <2>6
<1>9. CASE ~kicked /\ (DeviceReceive \/ \E n \in Opens : DeviceSend(n) \/ DeviceClose(n))
  BY <1>1, <1>5, <1>9, DeviceMapped, SMTT(60)
<1>10. CASE ~kicked /\ (StepLock \/ StepFree)
  BY <1>1, <1>10 DEF StepLock, StepFree, Committed, SlotInv, Owned
<1>11. QED
  BY <1>2, <1>3, <1>4, <1>6, <1>7, <1>8, <1>9, <1>10 DEF Next

\* The channel table implements StreamTable: for any number of users, slots, opens and
\* packets, and whoever closes first, a slot is one user's at a time and its streams come
\* one after the other, each cleared away before the next is asked for or the slot is given
\* back (Catransport.cpp 372-453, 518-588, 1076-1165).
THEOREM ChannelsKeepsPromise == Spec => KeepsPromise
<1>1. Init => Promised!Init
  BY MappedInit
<1>2. StreamInv /\ [Next]_vars => [Promised!Next]_(Promised!table)
  BY MappedStep
<1>3. QED
  BY <1>1, <1>2, StreamInvAlways, PTL DEF Spec, KeepsPromise, Promised!Spec

===============================================================================
