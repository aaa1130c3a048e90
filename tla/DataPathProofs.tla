---------------------------- MODULE DataPathProofs ----------------------------
(***************************************************************************)
(* That a packet has one holder and comes back, and that both directions   *)
(* of DataPath implement ByteStream, for any number of packets, streams    *)
(* and bytes.                                                              *)
(***************************************************************************)
EXTENDS DataPath, FiniteSetTheorems, SequenceTheorems, TLAPS

\* Where a packet can be.
Homes == Threads \cup {"heap", "pool", "b2a", "a2b", "ptrlist", "last"}
Lies(p, k) ==
    \/ k \in Threads /\ hand[k] = p
    \/ k = "heap" /\ p \in heap
    \/ k = "pool" /\ p \in Range(pool)
    \/ k = "b2a" /\ p \in Range(b2a)
    \/ k = "a2b" /\ p \in Range(a2b)
    \/ k = "ptrlist" /\ p \in Range(ptrlist)
    \/ k = "last" /\ p = last_apacket

Distinct(q) == \A i, j \in DOMAIN q : q[i] = q[j] => i = j
Apart ==
    /\ Distinct(pool) /\ Distinct(b2a) /\ Distinct(a2b) /\ Distinct(ptrlist)
    /\ \A p \in Packets : \A k, l \in Homes : Lies(p, k) /\ Lies(p, l) => k = l

Spans == [from : Nat, to : Nat]
Values ==
    /\ heap \subseteq Packets /\ contents \in [Packets -> Message]
    /\ pool \in Seq(Packets) /\ b2a \in Seq(Packets) /\ a2b \in Seq(Packets)
    /\ ptrlist \in Seq(Packets) /\ last_apacket \in Packets \cup {None}
    /\ hand \in [Threads -> Packets \cup {None}]
    /\ kicked \in BOOLEAN /\ live \in BOOLEAN /\ isAddChar \in BOOLEAN /\ intact \in BOOLEAN
    /\ sending \in BOOLEAN /\ pump \in {"on", "off", "ended"}
    /\ biptype \in Kinds \cup {"close"} /\ kind \in Kinds \cup {"close"}
    /\ len \in Nat /\ readlen \in 0..len /\ stream \in 0..MaxStreams /\ lines \in 0..MaxLines
    /\ fromDevice \in Nat /\ written \in Nat /\ toCaller \in Spans /\ toDevice \in Spans

\* What the calls of the client have in hand, and for what.
Calling ==
    /\ pc \in {"idle", "client_read", "shell_recv", "shell_empty", "client_write"}
    /\ hand["client"] # None => pc \in {"shell_recv", "client_write"}
    /\ sending => hand["client"] # None /\ pc = "client_write"
    /\ pc \in {"client_read", "client_write"} \/ last_apacket # None => kind = "forward"
    /\ pc \in {"shell_recv", "shell_empty"} => kind \in ShellKinds
    /\ pump = "ended" => hand["output"] = None

\* A packet client_write has filled begins where the bytes queued so far end.
Filled ==
    pc = "client_write" /\ hand["client"] # None =>
        \E to \in Nat : /\ contents[hand["client"]] = Data(stream, written + 1, to)
                        /\ written < to /\ to - written <= readlen

TypeInv == Values /\ Calling /\ Apart /\ Filled

\* A thread whose read goes on after the kick has no packet yet.
Reads == reading \subseteq {"user", "input"} /\ \A t \in reading : hand[t] = None

-------------------------------------------------------------------------------
\* Packets that are in no place: lost by shell_send, or by a thread that pushed when the
\* transport was kicked and pushes no more.
Lost == {p \in Packets : \A k \in Homes : ~Lies(p, k)}
Released == hand["user"] = None /\ "user" \notin reading
Spent == (IF pump = "ended" THEN 1 ELSE 0) + (IF Released THEN 1 ELSE 0)
         + (IF sending THEN 0 ELSE 1)
Losses == Cardinality(Lost) <= lines + (IF kicked THEN Spent ELSE 0)

-------------------------------------------------------------------------------
(* Queues in which the packets of a set have an order: c is what they hold.  *)
Ordered(q, c, S) == \A i, j \in DOMAIN q :
    i < j /\ q[i] \in S /\ q[j] \in S => c[q[i]].to < c[q[j]].from
Ends(q, S, T) == \A i, j \in DOMAIN q : i < j /\ q[i] \in S => q[j] \notin T

(* The bytes on their way to the caller.                                   *)
Wrtes == {p \in Packets : contents[p].cmd = "WRTE"}
Stages == {"client", "last", "ptrlist", "user", "b2a", "output"}
Stage(k) == CASE k \in {"client", "last"} -> 1 [] k = "ptrlist" -> 2 [] k = "user" -> 3
              [] k = "b2a" -> 4 [] OTHER -> 5
Carries(p, k) == Lies(p, k) /\ p \in Wrtes /\ (k = "client" => pc = "shell_recv")
Has(p, b) == contents[p].from <= b /\ b <= contents[p].to
Coming(b) == \E q \in Packets, l \in Stages : Carries(q, l) /\ Has(q, b)

\* What the calls read from is data.
Holding == \A p \in Packets :
    Lies(p, "ptrlist") \/ Lies(p, "last") \/ (Lies(p, "client") /\ pc = "shell_recv") => p \in Wrtes

\* The packets are in order, from stage to stage and in a queue, none holds what the caller
\* has, and none overtakes a byte; none is missing until the transport is kicked.
Bounded ==
    /\ toCaller.to <= fromDevice
    /\ \A p \in Packets, k \in Stages : Carries(p, k) =>
          /\ toCaller.to < contents[p].from /\ contents[p].to <= fromDevice
          /\ contents[p].from <= contents[p].to + (IF k = "last" THEN 1 ELSE 0)
NoGap == \A p \in Packets, k \in Stages : Carries(p, k) =>
    \A b \in Nat : toCaller.to < b /\ b < contents[p].from => Coming(b)
InOrder == \A p, q \in Packets, k, l \in Stages :
    Carries(p, k) /\ Carries(q, l) /\ Stage(k) < Stage(l) => contents[p].to < contents[q].from
Whole == pump # "ended" => \A b \in Nat : toCaller.to < b /\ b <= fromDevice => Coming(b)
DownInv == /\ Holding /\ Bounded /\ NoGap /\ InOrder /\ Whole
           /\ Ordered(ptrlist, contents, Wrtes) /\ Ordered(b2a, contents, Wrtes)

\* The CLSE of a stream is the last that is heard of it.
Talkers == {p \in Packets : contents[p].cmd \in {"WRTE", "CLSE"}}
Closes == {p \in Packets : contents[p].cmd = "CLSE"}
Heard(p) == p \in Talkers /\ (Lies(p, "output") \/ Lies(p, "b2a") \/ Lies(p, "user"))
Closing ==
    /\ biptype = "close" => ~live /\ \A p \in Packets : ~Heard(p)
    /\ live => \A p \in Packets : Heard(p) => p \notin Closes
    /\ \A p, q \in Packets : Lies(p, "user") /\ p \in Closes /\ Heard(q) => q = p
    /\ \A p, q \in Packets : Lies(p, "b2a") /\ p \in Closes /\ Lies(q, "output") => q \notin Talkers
    /\ Ends(b2a, Closes, Talkers)

-------------------------------------------------------------------------------
(* The bytes on their way to the device.                                   *)
Mine == {p \in Packets : contents[p].cmd = "WRTE" /\ contents[p].n = stream}
Goes(p) == Lies(p, "a2b") \/ Lies(p, "input")
Going(b) == \E q \in Mine : Goes(q) /\ Has(q, b)
UpInv ==
    /\ toDevice.to <= written
    /\ \A p \in Packets : Goes(p) => contents[p].n <= stream
    /\ \A p \in Mine : Goes(p) => /\ contents[p].from <= contents[p].to /\ contents[p].to <= written
                                  /\ live => toDevice.to < contents[p].from
    /\ Ordered(a2b, contents, Mine)
    /\ \A p, q \in Mine : Lies(p, "input") /\ Lies(q, "a2b") => contents[p].to < contents[q].from
    /\ live /\ intact => \A b \in Nat : toDevice.to < b /\ b <= written => Going(b)
-------------------------------------------------------------------------------
(* Sequences of packets.                                                   *)

LEMMA Appended ==
    ASSUME NEW q \in Seq(Packets), NEW p \in Packets
    PROVE  /\ Append(q, p) \in Seq(Packets) /\ Range(Append(q, p)) = Range(q) \cup {p}
           /\ Distinct(q) /\ p \notin Range(q) => Distinct(Append(q, p))
<1>1. PICK n \in Nat : n = Len(q) /\ DOMAIN q = 1..n
  OBVIOUS
<1>2. /\ Append(q, p) \in Seq(Packets) /\ DOMAIN Append(q, p) = 1..(n + 1)
      /\ Append(q, p)[n + 1] = p /\ \A i \in 1..n : Append(q, p)[i] = q[i]
  BY <1>1
<1>3. 1..(n + 1) = 1..n \cup {n + 1}
  OBVIOUS
<1>4. Range(Append(q, p)) = Range(q) \cup {p}
  BY <1>1, <1>2, <1>3 DEF Range
<1>5. Distinct(q) /\ p \notin Range(q) => Distinct(Append(q, p))
  BY <1>1, <1>2, <1>3 DEF Distinct, Range
<1>6. QED
  BY <1>2, <1>4, <1>5

LEMMA HeadTaken ==
    ASSUME NEW q \in Seq(Packets), q # <<>>
    PROVE  /\ Head(q) \in Packets /\ Head(q) = q[1] /\ 1 \in DOMAIN q /\ Head(q) \in Range(q)
           /\ Tail(q) \in Seq(Packets)
           /\ \A i \in DOMAIN Tail(q) : i + 1 \in DOMAIN q /\ Tail(q)[i] = q[i + 1]
           /\ Distinct(q) => Distinct(Tail(q)) /\ Range(Tail(q)) = Range(q) \ {Head(q)}
<1>1. PICK n \in Nat : n = Len(q) /\ DOMAIN q = 1..n /\ n > 0
  OBVIOUS
<1>2. /\ Head(q) \in Packets /\ Head(q) = q[1] /\ 1 \in DOMAIN q /\ Tail(q) \in Seq(Packets)
      /\ DOMAIN Tail(q) = 1..(n - 1) /\ \A i \in 1..(n - 1) : Tail(q)[i] = q[i + 1] /\ i + 1 \in 1..n /\ i \in Nat
  BY <1>1
<1>3. Head(q) \in Range(q)
  BY <1>2 DEF Range
<1>4. ASSUME Distinct(q) PROVE Distinct(Tail(q))
  <2>1. \A i, j \in 1..(n - 1) : q[i + 1] = q[j + 1] => i + 1 = j + 1
    <3>1. \A i \in 1..(n - 1) : i + 1 \in DOMAIN q
      BY <1>1
    <3>2. QED
      BY <1>4, <3>1 DEF Distinct
  <2>2. \A i, j \in 1..(n - 1) : i + 1 = j + 1 => i = j
    OBVIOUS
  <2>3. QED
    BY <1>2, <2>1, <2>2 DEF Distinct
<1>5. ASSUME Distinct(q) PROVE Range(Tail(q)) = Range(q) \ {Head(q)}
  <2>1. \A i \in 1..(n - 1) : i + 1 # 1 /\ q[i + 1] # q[1]
    BY <1>1, <1>2, <1>5 DEF Distinct
  <2>2. \A j \in 1..n : j = 1 \/ (j - 1 \in 1..(n - 1) /\ (j - 1) + 1 = j)
    OBVIOUS
  <2>3. \A x \in Range(Tail(q)) : x \in Range(q) /\ x # q[1]
    BY <1>1, <1>2, <2>1 DEF Range
  <2>4. ASSUME NEW x \in Range(q), x # q[1] PROVE x \in Range(Tail(q))
    <3>1. PICK j \in 1..n : x = q[j]
      BY <1>1 DEF Range
    <3>2. j - 1 \in 1..(n - 1) /\ Tail(q)[j - 1] = x
      BY <1>2, <2>2, <2>4, <3>1
    <3>3. QED
      BY <1>2, <3>2 DEF Range
  <2>5. QED
    BY <1>2, <2>3, <2>4
<1>6. QED
  BY <1>1, <1>2, <1>3, <1>4, <1>5

LEMMA Joined ==
    ASSUME NEW q \in Seq(Packets), NEW r \in Seq(Packets)
    PROVE  /\ q \o r \in Seq(Packets) /\ Range(q \o r) = Range(q) \cup Range(r)
           /\ Distinct(q) /\ Distinct(r) /\ Range(q) \cap Range(r) = {} => Distinct(q \o r)
<1>1. PICK n \in Nat, m \in Nat : n = Len(q) /\ DOMAIN q = 1..n /\ m = Len(r) /\ DOMAIN r = 1..m
  OBVIOUS
<1>2. q \o r \in Seq(Packets) /\ DOMAIN (q \o r) = 1..(n + m)
  BY <1>1
<1>3. \A i \in 1..(n + m) : \/ i \in 1..n /\ (q \o r)[i] = q[i]
                            \/ i - n \in 1..m /\ (q \o r)[i] = r[i - n]
  BY <1>1
<1>4. (\A i \in 1..n : i \in 1..(n + m) /\ (q \o r)[i] = q[i])
      /\ \A i \in 1..m : n + i \in 1..(n + m) /\ (q \o r)[n + i] = r[i]
  BY <1>1
<1>5. Range(q \o r) = Range(q) \cup Range(r)
  <2>1. \A x \in Range(q \o r) : x \in Range(q) \cup Range(r)
    BY <1>1, <1>2, <1>3 DEF Range
  <2>2. \A x \in Range(q) : x \in Range(q \o r)
    BY <1>1, <1>2, <1>4 DEF Range
  <2>3. ASSUME NEW x \in Range(r) PROVE x \in Range(q \o r)
    <3>1. PICK i \in 1..m : x = r[i]
      BY <1>1 DEF Range
    <3>2. n + i \in 1..(n + m) /\ (q \o r)[n + i] = x
      BY <1>4, <3>1
    <3>3. QED
      BY <1>2, <3>2 DEF Range
  <2>4. QED
    BY <2>1, <2>2, <2>3
<1>6. ASSUME Distinct(q), Distinct(r), Range(q) \cap Range(r) = {} PROVE Distinct(q \o r)
  <2>1. SUFFICES ASSUME NEW i \in 1..(n + m), NEW j \in 1..(n + m), (q \o r)[i] = (q \o r)[j] PROVE i = j
    BY <1>2 DEF Distinct
  <2>2. CASE i \in 1..n /\ (q \o r)[i] = q[i] /\ j \in 1..n /\ (q \o r)[j] = q[j]
    BY <1>1, <1>6, <2>1, <2>2 DEF Distinct
  <2>3. CASE i - n \in 1..m /\ (q \o r)[i] = r[i - n] /\ j - n \in 1..m /\ (q \o r)[j] = r[j - n]
    <3>1. i - n = j - n
      BY <1>1, <1>6, <2>1, <2>3 DEF Distinct
    <3>2. QED
      BY <3>1
  <2>4. CASE i \in 1..n /\ (q \o r)[i] = q[i] /\ j - n \in 1..m /\ (q \o r)[j] = r[j - n]
    BY <1>1, <1>6, <2>1, <2>4 DEF Range
  <2>5. CASE i - n \in 1..m /\ (q \o r)[i] = r[i - n] /\ j \in 1..n /\ (q \o r)[j] = q[j]
    BY <1>1, <1>6, <2>1, <2>5 DEF Range
  <2>6. QED
    BY <1>3, <2>2, <2>3, <2>4, <2>5
<1>7. QED
  BY <1>2, <1>5, <1>6

-------------------------------------------------------------------------------
(* Where packets are, and how they move.                                   *)

\* Nobody but p moves, and p to h only; a place that is no home loses it.
Moved(p, h) ==
    /\ \A q \in Packets \ {p}, k \in Homes : Lies(q, k)' <=> Lies(q, k)
    /\ \A k \in Homes : Lies(p, k)' <=> k = h
Still == \A q \in Packets, k \in Homes : Lies(q, k)' <=> Lies(q, k)
DistinctNow == Distinct(pool) /\ Distinct(b2a) /\ Distinct(a2b) /\ Distinct(ptrlist)

LEMMA HomeNames ==
    /\ Homes = {"output", "user", "input", "client", "heap", "pool", "b2a", "a2b", "ptrlist", "last"}
    /\ Threads \subseteq Homes /\ Stages \subseteq Homes /\ "lost" \notin Homes
  BY DEF Homes, Threads, Stages

LEMMA PacketNames == None \notin Packets /\ IsFiniteSet(Packets)
  BY DataPathAssumption DEF None

\* The places one by one.
LEMMA PlaceNames ==
    ASSUME NEW p
    PROVE  /\ \A t \in Threads : Lies(p, t) <=> hand[t] = p
           /\ Lies(p, "heap") <=> p \in heap
           /\ Lies(p, "pool") <=> p \in Range(pool)
           /\ Lies(p, "b2a") <=> p \in Range(b2a)
           /\ Lies(p, "a2b") <=> p \in Range(a2b)
           /\ Lies(p, "ptrlist") <=> p \in Range(ptrlist)
           /\ Lies(p, "last") <=> p = last_apacket
<1>1. \A t \in Threads : Lies(p, t) <=> hand[t] = p
  <2>1. SUFFICES ASSUME NEW t \in Threads PROVE Lies(p, t) <=> hand[t] = p
    OBVIOUS
  <2>2. CASE t = "output"
    BY <2>2 DEF Lies, Threads
  <2>3. CASE t = "user"
    BY <2>3 DEF Lies, Threads
  <2>4. CASE t = "input"
    BY <2>4 DEF Lies, Threads
  <2>5. CASE t = "client"
    BY <2>5 DEF Lies, Threads
  <2>6. QED
    BY <2>2, <2>3, <2>4, <2>5 DEF Threads
<1>2. QED
  BY <1>1 DEF Lies, Threads

LEMMA OnlyThere ==
    ASSUME Apart, NEW p \in Packets, NEW h \in Homes, Lies(p, h)
    PROVE  \A k \in Homes : Lies(p, k) => k = h
  BY DEF Apart

LEMMA MovedApart ==
    ASSUME Apart, DistinctNow', NEW p \in Packets, NEW h, Moved(p, h)
    PROVE  Apart'
<1>1. ASSUME NEW q \in Packets, NEW k \in Homes, NEW l \in Homes, Lies(q, k)', Lies(q, l)' PROVE k = l
  <2>1. CASE q = p
    BY <1>1, <2>1 DEF Moved
  <2>2. CASE q # p
    BY <1>1, <2>2 DEF Moved, Apart
  <2>3. QED
    BY <2>1, <2>2
<1>2. QED
  BY <1>1 DEF Apart, DistinctNow

LEMMA StillApart ==
    ASSUME Apart, UNCHANGED <<pool, b2a, a2b, ptrlist>>, Still
    PROVE  Apart'
  BY DEF Apart, Distinct, Still

\* The memory's side of a move.
LEMMA Gets ==
    ASSUME Values, Apart, NEW p, Get(p)
    PROVE  /\ p \in Packets /\ heap' \subseteq Packets /\ pool' \in Seq(Packets) /\ Distinct(pool)'
           /\ p \notin heap' /\ p \notin Range(pool)'
           /\ \A q \in Packets \ {p} : (q \in heap' <=> q \in heap) /\ (q \in Range(pool)' <=> q \in Range(pool))
           /\ \E h \in {"heap", "pool"} : Lies(p, h)
<1>1. heap \subseteq Packets /\ pool \in Seq(Packets) /\ Distinct(pool)
  BY DEF Values, Apart
<1>2. CASE pool # <<>>
  <2>1. p = Head(pool) /\ pool' = Tail(pool) /\ heap' = heap
    BY <1>2 DEF Get
  <2>2. p \in Packets /\ p \in Range(pool) /\ pool' \in Seq(Packets) /\ Distinct(pool') /\ Range(pool') = Range(pool) \ {p}
    BY <1>1, <1>2, <2>1, HeadTaken
  <2>3. Lies(p, "pool")
    BY <2>2, PlaceNames
  <2>4. p \notin heap
    BY <2>2, <2>3, OnlyThere, PlaceNames, HomeNames
  <2>5. QED
    BY <1>1, <2>1, <2>2, <2>3, <2>4 DEF Distinct
<1>3. CASE pool = <<>>
  <2>1. p \in heap /\ heap' = heap \ {p} /\ pool' = pool
    BY <1>3 DEF Get
  <2>2. Lies(p, "heap")
    BY <2>1, PlaceNames
  <2>3. Range(pool) = {}
    BY <1>3 DEF Range
  <2>4. QED
    BY <1>1, <2>1, <2>2, <2>3 DEF Distinct
<1>4. QED
  BY <1>2, <1>3

LEMMA Puts ==
    ASSUME Values, Apart, NEW p \in Packets, PutBack(p), p \notin heap, p \notin Range(pool)
    PROVE  /\ heap' \subseteq Packets /\ pool' \in Seq(Packets) /\ Distinct(pool)'
           /\ \A q \in Packets \ {p} : (q \in heap' <=> q \in heap) /\ (q \in Range(pool)' <=> q \in Range(pool))
           /\ \E h \in {"heap", "pool"} : (p \in heap' <=> h = "heap") /\ (p \in Range(pool)' <=> h = "pool")
           /\ contents' = [contents EXCEPT ![p] = Blank]
<1>1. heap \subseteq Packets /\ pool \in Seq(Packets) /\ Distinct(pool)
  BY DEF Values, Apart
<1>2. <<p>> \in Seq(Packets) /\ Range(<<p>>) = {p} /\ Distinct(<<p>>)
  BY DEF Range, Distinct
<1>3. contents' = [contents EXCEPT ![p] = Blank]
  BY <1>2 DEF PutBack, PutAll, Wiped, Values
<1>4. CASE kicked
  <2>1. heap' = heap \cup {p} /\ pool' = pool
    BY <1>2, <1>4 DEF PutBack, PutAll
  <2>2. QED
    BY <1>1, <1>3, <2>1 DEF Distinct
<1>5. CASE ~kicked
  <2>1. heap' = heap /\ pool' = pool \o <<p>>
    BY <1>2, <1>5 DEF PutBack, PutAll
  <2>2. pool' \in Seq(Packets) /\ Distinct(pool') /\ Range(pool') = Range(pool) \cup {p}
    BY <1>1, <1>2, <2>1, Joined, ZenonT(60)
  <2>3. QED
    BY <1>1, <1>3, <2>1, <2>2 DEF Distinct
<1>6. QED
  BY <1>4, <1>5

LEMMA PlaceNamesNext ==
    ASSUME NEW p
    PROVE  /\ \A t \in Threads : Lies(p, t)' <=> hand'[t] = p
           /\ Lies(p, "heap")' <=> p \in heap'
           /\ Lies(p, "pool")' <=> p \in Range(pool)'
           /\ Lies(p, "b2a")' <=> p \in Range(b2a)'
           /\ Lies(p, "a2b")' <=> p \in Range(a2b)'
           /\ Lies(p, "ptrlist")' <=> p \in Range(ptrlist)'
           /\ Lies(p, "last")' <=> p = last_apacket'
<1>1. \A t \in Threads : Lies(p, t)' <=> hand'[t] = p
  <2>1. SUFFICES ASSUME NEW t \in Threads PROVE Lies(p, t)' <=> hand'[t] = p
    OBVIOUS
  <2>2. CASE t = "output"
    BY <2>2 DEF Lies, Threads
  <2>3. CASE t = "user"
    BY <2>3 DEF Lies, Threads
  <2>4. CASE t = "input"
    BY <2>4 DEF Lies, Threads
  <2>5. CASE t = "client"
    BY <2>5 DEF Lies, Threads
  <2>6. QED
    BY <2>2, <2>3, <2>4, <2>5 DEF Threads
<1>2. QED
  BY <1>1 DEF Lies, Threads

\* What can be said of packet q place by place.
Alike(q) ==
    /\ \A t \in Threads : hand'[t] = q <=> hand[t] = q
    /\ (q \in heap' <=> q \in heap) /\ (q \in Range(pool)' <=> q \in Range(pool))
    /\ (q \in Range(b2a)' <=> q \in Range(b2a)) /\ (q \in Range(a2b)' <=> q \in Range(a2b))
    /\ (q \in Range(ptrlist)' <=> q \in Range(ptrlist)) /\ (q = last_apacket' <=> q = last_apacket)

LEMMA AlikeStays ==
    ASSUME NEW q, Alike(q)
    PROVE  \A k \in Homes : Lies(q, k)' <=> Lies(q, k)
  BY PlaceNames, PlaceNamesNext, HomeNames DEF Alike, Threads

LEMMA Moving ==
    ASSUME NEW p \in Packets, NEW h,
           \A q \in Packets \ {p} : Alike(q),
           \A t \in Threads : hand'[t] = p <=> t = h,
           p \in heap' <=> h = "heap", p \in Range(pool)' <=> h = "pool", p \in Range(b2a)' <=> h = "b2a",
           p \in Range(a2b)' <=> h = "a2b", p \in Range(ptrlist)' <=> h = "ptrlist", p = last_apacket' <=> h = "last"
    PROVE  Moved(p, h)
<1>1. \A q \in Packets \ {p}, k \in Homes : Lies(q, k)' <=> Lies(q, k)
  BY AlikeStays
<1>2. \A k \in Homes : Lies(p, k)' <=> k = h
  BY PlaceNamesNext, HomeNames DEF Threads
<1>3. QED
  BY <1>1, <1>2 DEF Moved

LEMMA NotMoving ==
    ASSUME UNCHANGED <<hand, heap, pool, b2a, a2b, ptrlist, last_apacket>>
    PROVE  Still /\ (Apart => Apart')
<1>1. \A q \in Packets : Alike(q)
  BY DEF Alike, Range
<1>2. Still
  BY <1>1, AlikeStays DEF Still
<1>3. QED
  BY <1>2, StillApart

\* A packet is taken from the pool or from free memory.
LEMMA GetMoves ==
    ASSUME Values, Apart, NEW p, Get(p), NEW t \in Threads \cup {"lost"},
           hand' = IF t = "lost" THEN hand ELSE [hand EXCEPT ![t] = p],
           t # "lost" => hand[t] = None,
           UNCHANGED <<b2a, a2b, ptrlist, last_apacket>>
    PROVE  Moved(p, t) /\ DistinctNow' /\ p \in Packets /\ (\E h \in {"heap", "pool"} : Lies(p, h))
           /\ heap' \subseteq Packets /\ pool' \in Seq(Packets)
<1>1. /\ p \in Packets /\ heap' \subseteq Packets /\ pool' \in Seq(Packets) /\ Distinct(pool)'
      /\ p \notin heap' /\ p \notin Range(pool)'
      /\ \A q \in Packets \ {p} : (q \in heap' <=> q \in heap) /\ (q \in Range(pool)' <=> q \in Range(pool))
      /\ \E h \in {"heap", "pool"} : Lies(p, h)
  BY Gets
<1>2. /\ \A u \in Threads : hand[u] # p
      /\ p \notin Range(b2a) /\ p \notin Range(a2b) /\ p \notin Range(ptrlist) /\ p # last_apacket
  BY <1>1, OnlyThere, PlaceNames, HomeNames DEF Threads
<1>3. hand \in [Threads -> Packets \cup {None}] /\ None \notin Packets /\ "lost" \notin Threads
  BY PacketNames DEF Values, Threads
<1>4. \A u \in Threads : hand'[u] = IF u = t THEN p ELSE hand[u]
  BY <1>3
<1>5. Range(b2a)' = Range(b2a) /\ Range(a2b)' = Range(a2b) /\ Range(ptrlist)' = Range(ptrlist)
  BY DEF Range
<1>6. \A q \in Packets \ {p} : Alike(q)
  BY <1>1, <1>3, <1>4, <1>5 DEF Alike
<1>7. Moved(p, t)
  BY <1>1, <1>2, <1>3, <1>4, <1>5, <1>6, Moving DEF Threads
<1>8. DistinctNow'
  BY <1>1 DEF DistinctNow, Apart, Distinct
<1>9. QED
  BY <1>1, <1>7, <1>8

Unmoved(t) == hand' = [hand EXCEPT ![t] = None]

\* A packet goes from a thread, or from the channel's last_apacket, back to the memory.
LEMMA PutMoves ==
    ASSUME Values, Apart, NEW p \in Packets, NEW k \in Threads \cup {"last"}, Lies(p, k), PutBack(p),
           k \in Threads => Unmoved(k) /\ last_apacket' = last_apacket,
           k = "last" => hand' = hand /\ last_apacket' = None,
           UNCHANGED <<b2a, a2b, ptrlist>>
    PROVE  (\E h \in {"heap", "pool"} : Moved(p, h)) /\ DistinctNow'
           /\ heap' \subseteq Packets /\ pool' \in Seq(Packets) /\ contents' = [contents EXCEPT ![p] = Blank]
<1>1. \A l \in Homes : Lies(p, l) => l = k
  BY OnlyThere, HomeNames
<1>2. /\ \A t \in Threads : hand[t] = p <=> t = k
      /\ p \notin heap /\ p \notin Range(pool)
      /\ p \notin Range(b2a) /\ p \notin Range(a2b) /\ p \notin Range(ptrlist) /\ (p = last_apacket <=> k = "last")
  BY <1>1, PlaceNames, HomeNames DEF Threads
<1>3. PICK h \in {"heap", "pool"} :
          /\ heap' \subseteq Packets /\ pool' \in Seq(Packets) /\ Distinct(pool)'
          /\ \A q \in Packets \ {p} : (q \in heap' <=> q \in heap) /\ (q \in Range(pool)' <=> q \in Range(pool))
          /\ (p \in heap' <=> h = "heap") /\ (p \in Range(pool)' <=> h = "pool")
          /\ contents' = [contents EXCEPT ![p] = Blank]
  BY <1>2, Puts
<1>4. hand \in [Threads -> Packets \cup {None}] /\ None \notin Packets
  BY PacketNames DEF Values
<1>5. (\A t \in Threads : hand'[t] = IF t = k THEN None ELSE hand[t]) /\ last_apacket' = IF k = "last" THEN None ELSE last_apacket
  BY <1>4 DEF Unmoved, Threads
<1>6. Range(b2a)' = Range(b2a) /\ Range(a2b)' = Range(a2b) /\ Range(ptrlist)' = Range(ptrlist)
  BY DEF Range
<1>7. \A q \in Packets \ {p} : Alike(q)
  BY <1>2, <1>3, <1>4, <1>5, <1>6 DEF Alike
<1>8. Moved(p, h)
  BY <1>2, <1>3, <1>4, <1>5, <1>6, <1>7, Moving DEF Threads
<1>9. DistinctNow'
  BY <1>3 DEF DistinctNow, Apart, Distinct
<1>10. QED
  BY <1>3, <1>8, <1>9

\* A thread drops its pointer.
LEMMA DropMoves ==
    ASSUME Values, Apart, NEW t \in Threads, hand[t] # None, Unmoved(t),
           UNCHANGED <<heap, pool, b2a, a2b, ptrlist, last_apacket>>
    PROVE  Moved(hand[t], "lost") /\ DistinctNow'
<1> DEFINE p == hand[t]
<1>1. p \in Packets /\ Lies(p, t) /\ hand \in [Threads -> Packets \cup {None}] /\ None \notin Packets
  BY PlaceNames, PacketNames DEF Values
<1>2. \A l \in Homes : Lies(p, l) => l = t
  BY <1>1, OnlyThere, HomeNames
<1>3. /\ \A u \in Threads : hand[u] = p <=> u = t
      /\ p \notin heap /\ p \notin Range(pool)
      /\ p \notin Range(b2a) /\ p \notin Range(a2b) /\ p \notin Range(ptrlist) /\ p # last_apacket
  BY <1>1, <1>2, PlaceNames, HomeNames DEF Threads
<1>4. \A u \in Threads : hand'[u] = IF u = t THEN None ELSE hand[u]
  BY <1>1 DEF Unmoved
<1>5. /\ Range(b2a)' = Range(b2a) /\ Range(a2b)' = Range(a2b) /\ Range(ptrlist)' = Range(ptrlist)
      /\ Range(pool)' = Range(pool)
  BY DEF Range
<1>6. PICK x : x = p
  OBVIOUS
<1>7. \A q \in Packets \ {x} : Alike(q)
  BY <1>1, <1>3, <1>4, <1>5, <1>6 DEF Alike
<1>8. Moved(x, "lost")
  BY <1>1, <1>3, <1>4, <1>5, <1>6, <1>7, Moving DEF Threads
<1>9. DistinctNow'
  BY DEF DistinctNow, Apart, Distinct
<1>10. QED
  BY <1>6, <1>8, <1>9

\* A thread appends its packet to a queue.
LEMMA GiveMoves ==
    ASSUME Values, Apart, NEW t \in Threads, hand[t] # None, Unmoved(t), UNCHANGED <<heap, pool, last_apacket>>,
           NEW h \in {"b2a", "a2b", "ptrlist"},
           b2a' = IF h = "b2a" THEN Append(b2a, hand[t]) ELSE b2a,
           a2b' = IF h = "a2b" THEN Append(a2b, hand[t]) ELSE a2b,
           ptrlist' = IF h = "ptrlist" THEN Append(ptrlist, hand[t]) ELSE ptrlist
    PROVE  Moved(hand[t], h) /\ DistinctNow' /\ b2a' \in Seq(Packets) /\ a2b' \in Seq(Packets) /\ ptrlist' \in Seq(Packets)
<1>6. PICK p : p = hand[t]
  OBVIOUS
<1>1. p \in Packets /\ Lies(p, t) /\ hand \in [Threads -> Packets \cup {None}] /\ None \notin Packets
      /\ b2a \in Seq(Packets) /\ a2b \in Seq(Packets) /\ ptrlist \in Seq(Packets) /\ DistinctNow
  BY <1>6, PlaceNames, PacketNames DEF Values, Apart, DistinctNow
<1>2. \A l \in Homes : Lies(p, l) => l = t
  BY <1>1, OnlyThere, HomeNames
<1>3. /\ \A u \in Threads : hand[u] = p <=> u = t
      /\ p \notin heap /\ p \notin Range(pool)
      /\ p \notin Range(b2a) /\ p \notin Range(a2b) /\ p \notin Range(ptrlist) /\ p # last_apacket
  BY <1>1, <1>2, PlaceNames, HomeNames DEF Threads
<1>4. \A u \in Threads : hand'[u] = IF u = t THEN None ELSE hand[u]
  BY <1>1 DEF Unmoved
<1>5. /\ b2a' \in Seq(Packets) /\ a2b' \in Seq(Packets) /\ ptrlist' \in Seq(Packets) /\ DistinctNow'
      /\ Range(pool)' = Range(pool)
      /\ Range(b2a)' = IF h = "b2a" THEN Range(b2a) \cup {p} ELSE Range(b2a)
      /\ Range(a2b)' = IF h = "a2b" THEN Range(a2b) \cup {p} ELSE Range(a2b)
      /\ Range(ptrlist)' = IF h = "ptrlist" THEN Range(ptrlist) \cup {p} ELSE Range(ptrlist)
  <2>1. CASE h = "b2a"
    <3>1. b2a' = Append(b2a, p) /\ a2b' = a2b /\ ptrlist' = ptrlist /\ pool' = pool
      BY <1>6, <2>1
    <3>2. b2a' \in Seq(Packets) /\ Range(b2a') = Range(b2a) \cup {p} /\ Distinct(b2a')
      BY <1>1, <1>3, <3>1, Appended DEF DistinctNow
    <3>3. QED
      BY <1>1, <2>1, <3>1, <3>2 DEF DistinctNow
  <2>2. CASE h = "a2b"
    <3>1. a2b' = Append(a2b, p) /\ b2a' = b2a /\ ptrlist' = ptrlist /\ pool' = pool
      BY <1>6, <2>2
    <3>2. a2b' \in Seq(Packets) /\ Range(a2b') = Range(a2b) \cup {p} /\ Distinct(a2b')
      BY <1>1, <1>3, <3>1, Appended DEF DistinctNow
    <3>3. QED
      BY <1>1, <2>2, <3>1, <3>2 DEF DistinctNow
  <2>3. CASE h = "ptrlist"
    <3>1. ptrlist' = Append(ptrlist, p) /\ b2a' = b2a /\ a2b' = a2b /\ pool' = pool
      BY <1>6, <2>3
    <3>2. ptrlist' \in Seq(Packets) /\ Range(ptrlist') = Range(ptrlist) \cup {p} /\ Distinct(ptrlist')
      BY <1>1, <1>3, <3>1, Appended DEF DistinctNow
    <3>3. QED
      BY <1>1, <2>3, <3>1, <3>2 DEF DistinctNow
  <2>4. QED
    BY <2>1, <2>2, <2>3
<1>7. \A q \in Packets \ {p} : Alike(q)
  BY <1>1, <1>3, <1>4, <1>5 DEF Alike
<1>8. Moved(p, h)
  BY <1>1, <1>3, <1>4, <1>5, <1>7, Moving DEF Threads
<1>9. QED
  BY <1>5, <1>6, <1>8

\* The first packet of a queue goes to a thread, or becomes last_apacket.
LEMMA TakeMoves ==
    ASSUME Values, Apart, UNCHANGED <<heap, pool>>,
           NEW q \in {b2a, a2b, ptrlist}, q # <<>>, NEW n \in {"b2a", "a2b", "ptrlist"},
           NEW h \in Threads \cup {"last"},
           n = "b2a" => q = b2a, n = "a2b" => q = a2b, n = "ptrlist" => q = ptrlist,
           b2a' = IF n = "b2a" THEN Tail(b2a) ELSE b2a,
           a2b' = IF n = "a2b" THEN Tail(a2b) ELSE a2b,
           ptrlist' = IF n = "ptrlist" THEN Tail(ptrlist) ELSE ptrlist,
           h \in Threads => hand[h] = None /\ hand' = [hand EXCEPT ![h] = Head(q)] /\ last_apacket' = last_apacket,
           h = "last" => last_apacket = None /\ hand' = hand /\ last_apacket' = Head(q)
    PROVE  Head(q) \in Packets /\ Lies(Head(q), n) /\ Moved(Head(q), h) /\ DistinctNow'
           /\ b2a' \in Seq(Packets) /\ a2b' \in Seq(Packets) /\ ptrlist' \in Seq(Packets)
<1>1. hand \in [Threads -> Packets \cup {None}] /\ None \notin Packets
      /\ b2a \in Seq(Packets) /\ a2b \in Seq(Packets) /\ ptrlist \in Seq(Packets) /\ DistinctNow
  BY PacketNames DEF Values, Apart, DistinctNow
<1>2. PICK p : p = Head(q)
  OBVIOUS
<1>3. p \in Packets /\ p \in Range(q) /\ Lies(p, n)
  BY <1>1, <1>2, HeadTaken, PlaceNames
<1>4. \A l \in Homes : Lies(p, l) => l = n
  BY <1>3, OnlyThere, HomeNames
<1>5. /\ \A u \in Threads : hand[u] # p
      /\ p \notin heap /\ p \notin Range(pool)
      /\ (p \in Range(b2a) <=> n = "b2a") /\ (p \in Range(a2b) <=> n = "a2b")
      /\ (p \in Range(ptrlist) <=> n = "ptrlist") /\ p # last_apacket
  BY <1>3, <1>4, PlaceNames, HomeNames DEF Threads
<1>6. (\A u \in Threads : hand'[u] = IF u = h THEN p ELSE hand[u]) /\ last_apacket' = IF h = "last" THEN p ELSE last_apacket
  BY <1>1, <1>2 DEF Threads
<1>7. /\ b2a' \in Seq(Packets) /\ a2b' \in Seq(Packets) /\ ptrlist' \in Seq(Packets) /\ DistinctNow'
      /\ Range(pool)' = Range(pool)
      /\ Range(b2a)' = Range(b2a) \ {p} /\ Range(a2b)' = Range(a2b) \ {p} /\ Range(ptrlist)' = Range(ptrlist) \ {p}
  <2>1. CASE n = "b2a"
    <3>1. b2a' = Tail(b2a) /\ a2b' = a2b /\ ptrlist' = ptrlist /\ pool' = pool /\ p = Head(b2a) /\ b2a # <<>>
      BY <1>2, <2>1
    <3>2. b2a' \in Seq(Packets) /\ Range(b2a') = Range(b2a) \ {p} /\ Distinct(b2a')
      BY <1>1, <3>1, HeadTaken DEF DistinctNow
    <3>3. QED
      BY <1>1, <1>5, <2>1, <3>1, <3>2 DEF DistinctNow
  <2>2. CASE n = "a2b"
    <3>1. a2b' = Tail(a2b) /\ b2a' = b2a /\ ptrlist' = ptrlist /\ pool' = pool /\ p = Head(a2b) /\ a2b # <<>>
      BY <1>2, <2>2
    <3>2. a2b' \in Seq(Packets) /\ Range(a2b') = Range(a2b) \ {p} /\ Distinct(a2b')
      BY <1>1, <3>1, HeadTaken DEF DistinctNow
    <3>3. QED
      BY <1>1, <1>5, <2>2, <3>1, <3>2 DEF DistinctNow
  <2>3. CASE n = "ptrlist"
    <3>1. ptrlist' = Tail(ptrlist) /\ a2b' = a2b /\ b2a' = b2a /\ pool' = pool /\ p = Head(ptrlist) /\ ptrlist # <<>>
      BY <1>2, <2>3
    <3>2. ptrlist' \in Seq(Packets) /\ Range(ptrlist') = Range(ptrlist) \ {p} /\ Distinct(ptrlist')
      BY <1>1, <3>1, HeadTaken DEF DistinctNow
    <3>3. QED
      BY <1>1, <1>5, <2>3, <3>1, <3>2 DEF DistinctNow
  <2>4. QED
    BY <2>1, <2>2, <2>3
<1>8. \A r \in Packets \ {p} : Alike(r)
  <2>1. h = "last" => last_apacket = None
    OBVIOUS
  <2>2. h \in Threads => hand[h] = None
    OBVIOUS
  <2>3. QED
    BY <1>1, <1>6, <1>7, <2>1, <2>2 DEF Alike
<1>9. Moved(p, h)
  BY <1>3, <1>5, <1>6, <1>7, <1>8, Moving, Zenon DEF Threads
<1>10. QED
  BY <1>2, <1>3, <1>7, <1>9

Memory == {"heap", "pool"}
WipedAt(p) == contents' = [contents EXCEPT ![p] = Blank]
QueuesOK == heap' \subseteq Packets /\ pool' \in Seq(Packets) /\ b2a' \in Seq(Packets) /\ a2b' \in Seq(Packets)
            /\ ptrlist' \in Seq(Packets) /\ DistinctNow'

\* usb_write_packet: to the pipe, back to the memory, or lost.
LEMMA PushMoves ==
    ASSUME Values, Apart, NEW t \in Threads, hand[t] # None, NEW n \in {"b2a", "a2b"},
           Push(t, IF n = "a2b" THEN Append(a2b, hand[t]) ELSE a2b, IF n = "b2a" THEN Append(b2a, hand[t]) ELSE b2a),
           UNCHANGED <<ptrlist, last_apacket>>
    PROVE  /\ QueuesOK
           /\ \/ ~kicked /\ Moved(hand[t], n) /\ contents' = contents
              \/ kicked /\ (\E h \in Memory : Moved(hand[t], h)) /\ WipedAt(hand[t])
              \/ kicked /\ Moved(hand[t], "lost") /\ contents' = contents
<1>1. Unmoved(t)
  BY DEF Push, Holds, Unmoved
<1>2. hand[t] \in Packets /\ Lies(hand[t], t)
  BY PlaceNames DEF Values
<1>3. CASE ~kicked
  <2>1. /\ b2a' = IF n = "b2a" THEN Append(b2a, hand[t]) ELSE b2a
        /\ a2b' = IF n = "a2b" THEN Append(a2b, hand[t]) ELSE a2b
        /\ heap' = heap /\ pool' = pool /\ contents' = contents
    BY <1>3 DEF Push, memory
  <2>2. ptrlist' = IF n = "ptrlist" THEN Append(ptrlist, hand[t]) ELSE ptrlist
    OBVIOUS
  <2>3. Moved(hand[t], n) /\ DistinctNow' /\ b2a' \in Seq(Packets) /\ a2b' \in Seq(Packets) /\ ptrlist' \in Seq(Packets)
    BY <1>1, <2>1, <2>2, GiveMoves
  <2>4. QED
    BY <1>3, <2>1, <2>3 DEF QueuesOK, Values
<1>4. CASE kicked /\ PutBack(hand[t]) /\ UNCHANGED <<a2b, b2a>>
  <2>1. (\E h \in Memory : Moved(hand[t], h)) /\ DistinctNow'
        /\ heap' \subseteq Packets /\ pool' \in Seq(Packets) /\ WipedAt(hand[t])
    <3>1. t \in Threads \cup {"last"} /\ t # "last"
      BY DEF Threads
    <3>2. QED
      BY <1>1, <1>2, <1>4, <3>1, PutMoves DEF Memory, WipedAt
  <2>2. QED
    BY <1>4, <2>1 DEF QueuesOK, Values
<1>5. CASE kicked /\ UNCHANGED <<memory, a2b, b2a>>
  <2>1. Moved(hand[t], "lost") /\ DistinctNow'
    BY <1>1, <1>5, DropMoves DEF memory
  <2>2. QED
    BY <1>5, <2>1 DEF QueuesOK, Values, memory
<1>6. QED
  BY <1>3, <1>4, <1>5 DEF Push

\* A packet that is put back by a thread.
LEMMA BackMoves ==
    ASSUME Values, Apart, NEW t \in Threads, hand[t] # None, PutBack(hand[t]), Holds(t, None),
           UNCHANGED <<b2a, a2b, ptrlist, last_apacket>>
    PROVE  QueuesOK /\ (\E h \in Memory : Moved(hand[t], h)) /\ WipedAt(hand[t])
<1>1. Unmoved(t) /\ hand[t] \in Packets /\ Lies(hand[t], t) /\ t \in Threads \cup {"last"} /\ t # "last"
  BY PlaceNames DEF Holds, Unmoved, Values, Threads
<1>2. (\E h \in Memory : Moved(hand[t], h)) /\ DistinctNow'
      /\ heap' \subseteq Packets /\ pool' \in Seq(Packets) /\ WipedAt(hand[t])
  BY <1>1, PutMoves DEF Memory, WipedAt
<1>3. QED
  BY <1>2 DEF QueuesOK, Values

-------------------------------------------------------------------------------
(* What each operation does to the places.                                 *)

LEMMA OutputGetMoves ==
    ASSUME Values, Apart, OutputGet
    PROVE  QueuesOK /\ \E p \in Packets : /\ Moved(p, "output") /\ (\E h \in Memory : Lies(p, h))
                                 /\ contents' = [contents EXCEPT ![p] = IF pump = "off" THEN Sync ELSE Blank]
                                 /\ hand' = [hand EXCEPT !["output"] = p]
<1>1. PICK p \in Packets : Get(p) /\ Holds("output", p)
                           /\ contents' = [contents EXCEPT ![p] = IF pump = "off" THEN Sync ELSE Blank]
  BY DEF OutputGet
<1>2. hand["output"] = None /\ UNCHANGED <<b2a, a2b, ptrlist, last_apacket>> /\ "output" \in Threads \cup {"lost"}
      /\ hand' = IF "output" = "lost" THEN hand ELSE [hand EXCEPT !["output"] = p]
  BY <1>1 DEF OutputGet, channel, Holds, Threads
<1>3. Moved(p, "output") /\ DistinctNow' /\ (\E h \in Memory : Lies(p, h)) /\ heap' \subseteq Packets /\ pool' \in Seq(Packets)
  BY <1>1, <1>2, GetMoves DEF Memory
<1>4. QED
  BY <1>1, <1>2, <1>3 DEF QueuesOK, Values

LEMMA OutputWriteMoves ==
    ASSUME Values, Apart, OutputWrite
    PROVE  /\ QueuesOK /\ hand["output"] \in Packets
           /\ \/ ~kicked /\ Moved(hand["output"], "b2a") /\ contents' = contents
              \/ kicked /\ (\E h \in Memory : Moved(hand["output"], h)) /\ WipedAt(hand["output"])
              \/ kicked /\ Moved(hand["output"], "lost") /\ contents' = contents
<1>1. /\ "output" \in Threads /\ hand["output"] # None /\ UNCHANGED <<ptrlist, last_apacket>>
      /\ Push("output", a2b, Append(b2a, hand["output"]))
  BY DEF OutputWrite, channel, Threads
<1>2. hand["output"] \in Packets
  BY <1>1 DEF Values
<1>3. QED
  BY <1>1, <1>2, PushMoves

LEMMA HandleSyncMoves ==
    ASSUME Values, Apart, HandleSync
    PROVE  /\ QueuesOK /\ hand["user"] \in Packets
           /\ \/ ~kicked /\ Moved(hand["user"], "a2b") /\ contents' = contents
              \/ kicked /\ (\E h \in Memory : Moved(hand["user"], h)) /\ WipedAt(hand["user"])
              \/ kicked /\ Moved(hand["user"], "lost") /\ contents' = contents
<1>1. /\ "user" \in Threads /\ hand["user"] # None /\ UNCHANGED <<ptrlist, last_apacket>>
      /\ Push("user", Append(a2b, hand["user"]), b2a)
  BY DEF HandleSync, channel, Threads
<1>2. hand["user"] \in Packets
  BY <1>1 DEF Values
<1>3. QED
  BY <1>1, <1>2, PushMoves

LEMMA WritePushMoves ==
    ASSUME Values, Apart, WritePush, hand["client"] # None
    PROVE  /\ QueuesOK /\ hand["client"] \in Packets
           /\ \/ /\ ~kicked /\ Moved(hand["client"], "a2b") /\ contents' = contents
                 /\ a2b' = Append(a2b, hand["client"]) /\ written' = contents[hand["client"]].to
              \/ kicked /\ (\E h \in Memory : Moved(hand["client"], h)) /\ WipedAt(hand["client"])
                 /\ UNCHANGED <<a2b, written>>
              \/ kicked /\ Moved(hand["client"], "lost") /\ contents' = contents /\ UNCHANGED <<a2b, written>>
<1>1. "client" \in Threads /\ UNCHANGED <<ptrlist, last_apacket>> /\ hand["client"] \in Packets
  BY DEF WritePush, channel, Threads, Values
<1>2. Push("client", Append(a2b, hand["client"]), b2a)
  BY DEF WritePush, Push
<1>3. CASE ~kicked
  BY <1>1, <1>2, <1>3, PushMoves DEF WritePush
<1>4. CASE kicked
  <2>1. UNCHANGED <<a2b, written>>
    BY <1>4 DEF WritePush
  <2>2. QED
    BY <1>1, <1>2, <1>4, <2>1, PushMoves
<1>5. QED
  BY <1>3, <1>4

LEMMA UserReadMoves ==
    ASSUME Values, Apart, UserRead
    PROVE  QueuesOK /\ Head(b2a) \in Packets /\ Lies(Head(b2a), "b2a") /\ Moved(Head(b2a), "user") /\ contents' = contents
<1>1. /\ b2a # <<>> /\ hand["user"] = None /\ hand' = [hand EXCEPT !["user"] = Head(b2a)] /\ b2a' = Tail(b2a)
      /\ UNCHANGED <<heap, pool, contents, a2b, ptrlist, last_apacket>> /\ "user" \in Threads
  BY DEF UserRead, ReadPacket, Holds, memory, channel, Threads
<1>2. /\ Head(b2a) \in Packets /\ Lies(Head(b2a), "b2a") /\ Moved(Head(b2a), "user") /\ DistinctNow'
      /\ b2a' \in Seq(Packets) /\ a2b' \in Seq(Packets) /\ ptrlist' \in Seq(Packets)
  BY <1>1, TakeMoves DEF Threads
<1>3. QED
  BY <1>1, <1>2 DEF QueuesOK, Values

LEMMA InputReadMoves ==
    ASSUME Values, Apart, InputRead
    PROVE  QueuesOK /\ Head(a2b) \in Packets /\ Lies(Head(a2b), "a2b") /\ Moved(Head(a2b), "input") /\ contents' = contents
<1>1. /\ a2b # <<>> /\ hand["input"] = None /\ hand' = [hand EXCEPT !["input"] = Head(a2b)] /\ a2b' = Tail(a2b)
      /\ UNCHANGED <<heap, pool, contents, b2a, ptrlist, last_apacket>> /\ "input" \in Threads
  BY DEF InputRead, ReadPacket, Holds, memory, channel, Threads
<1>2. /\ Head(a2b) \in Packets /\ Lies(Head(a2b), "a2b") /\ Moved(Head(a2b), "input") /\ DistinctNow'
      /\ b2a' \in Seq(Packets) /\ a2b' \in Seq(Packets) /\ ptrlist' \in Seq(Packets)
  BY <1>1, TakeMoves DEF Threads
<1>3. QED
  BY <1>1, <1>2 DEF QueuesOK, Values

LEMMA ReadPopMoves ==
    ASSUME Values, Apart, ReadPop
    PROVE  QueuesOK /\ Head(ptrlist) \in Packets /\ Lies(Head(ptrlist), "ptrlist") /\ Moved(Head(ptrlist), "last") /\ contents' = contents
<1>1. /\ ptrlist # <<>> /\ last_apacket = None /\ last_apacket' = Head(ptrlist) /\ ptrlist' = Tail(ptrlist)
      /\ UNCHANGED <<heap, pool, contents, b2a, a2b, hand>> /\ "last" \notin Threads
  BY DEF ReadPop, memory, Threads
<1>2. /\ Head(ptrlist) \in Packets /\ Lies(Head(ptrlist), "ptrlist") /\ Moved(Head(ptrlist), "last") /\ DistinctNow'
      /\ b2a' \in Seq(Packets) /\ a2b' \in Seq(Packets) /\ ptrlist' \in Seq(Packets)
  BY <1>1, TakeMoves
<1>3. QED
  BY <1>1, <1>2 DEF QueuesOK, Values

LEMMA ShellPopMoves ==
    ASSUME Values, Apart, ShellPop, ptrlist # <<>>
    PROVE  QueuesOK /\ Head(ptrlist) \in Packets /\ Lies(Head(ptrlist), "ptrlist") /\ Moved(Head(ptrlist), "client") /\ contents' = contents
<1>1. /\ hand["client"] = None /\ hand' = [hand EXCEPT !["client"] = Head(ptrlist)] /\ ptrlist' = Tail(ptrlist)
      /\ UNCHANGED <<heap, pool, contents, b2a, a2b, last_apacket>> /\ "client" \in Threads
  BY DEF ShellPop, Holds, memory, Threads
<1>2. /\ Head(ptrlist) \in Packets /\ Lies(Head(ptrlist), "ptrlist") /\ Moved(Head(ptrlist), "client") /\ DistinctNow'
      /\ b2a' \in Seq(Packets) /\ a2b' \in Seq(Packets) /\ ptrlist' \in Seq(Packets)
  BY <1>1, TakeMoves DEF Threads
<1>3. QED
  BY <1>1, <1>2 DEF QueuesOK, Values

LEMMA LocalClientEnqueueMoves ==
    ASSUME Values, Apart, LocalClientEnqueue
    PROVE  QueuesOK /\ hand["user"] \in Packets /\ Moved(hand["user"], "ptrlist") /\ contents' = contents
<1>1. /\ hand["user"] # None /\ Unmoved("user") /\ "user" \in Threads /\ UNCHANGED <<heap, pool, contents, last_apacket>>
      /\ ptrlist' = Append(ptrlist, hand["user"]) /\ b2a' = b2a /\ a2b' = a2b
  BY DEF LocalClientEnqueue, Holds, Unmoved, memory, Threads
<1>2. hand["user"] \in Packets
  BY <1>1 DEF Values
<1>3. /\ Moved(hand["user"], "ptrlist") /\ DistinctNow'
      /\ b2a' \in Seq(Packets) /\ a2b' \in Seq(Packets) /\ ptrlist' \in Seq(Packets)
  BY <1>1, GiveMoves
<1>4. QED
  BY <1>1, <1>2, <1>3 DEF QueuesOK, Values

LEMMA WriteFillMoves ==
    ASSUME Values, Apart, WriteFill
    PROVE  QueuesOK /\ \E p \in Packets, to \in Nat :
              /\ Moved(p, "client") /\ (\E h \in Memory : Lies(p, h)) /\ hand' = [hand EXCEPT !["client"] = p]
              /\ contents' = [contents EXCEPT ![p] = Data(stream, written + 1, to)]
              /\ written < to /\ to - written <= readlen
<1> DEFINE slen == IF readlen > MaxPayload THEN MaxPayload ELSE readlen
<1>1. PICK p \in Packets : Get(p) /\ Holds("client", p)
                           /\ contents' = [contents EXCEPT ![p] = Data(stream, written + 1, written + slen)]
  BY DEF WriteFill
<1>2. hand["client"] = None /\ UNCHANGED <<b2a, a2b, ptrlist, last_apacket>> /\ "client" \in Threads \cup {"lost"}
      /\ hand' = IF "client" = "lost" THEN hand ELSE [hand EXCEPT !["client"] = p]
  BY <1>1 DEF WriteFill, channel, Holds, Threads
<1>3. Moved(p, "client") /\ DistinctNow' /\ (\E h \in Memory : Lies(p, h)) /\ heap' \subseteq Packets /\ pool' \in Seq(Packets)
  BY <1>1, <1>2, GetMoves DEF Memory
<1>4. written + slen \in Nat /\ written < written + slen /\ (written + slen) - written <= readlen
  BY DataPathAssumption DEF WriteFill, Values
<1>5. QED
  BY <1>1, <1>2, <1>3, <1>4 DEF QueuesOK, Values

LEMMA ShellLineMoves ==
    ASSUME Values, Apart, ShellLine
    PROVE  QueuesOK /\ contents' = contents /\ \E p \in Packets : Moved(p, "lost") /\ (\E h \in Memory : Lies(p, h))
<1>1. PICK p \in Packets : Get(p)
  BY DEF ShellLine
<1>2. UNCHANGED <<b2a, a2b, ptrlist, last_apacket, contents>> /\ "lost" \in Threads \cup {"lost"}
      /\ hand' = IF "lost" = "lost" THEN hand ELSE [hand EXCEPT !["lost"] = p]
  BY <1>1 DEF ShellLine, channel
<1>3. Moved(p, "lost") /\ DistinctNow' /\ (\E h \in Memory : Lies(p, h)) /\ heap' \subseteq Packets /\ pool' \in Seq(Packets)
  BY <1>1, <1>2, GetMoves DEF Memory
<1>4. QED
  BY <1>1, <1>2, <1>3 DEF QueuesOK, Values

\* The channel's packets, which local_client_type_set gives back.
Cleared(q) == Lies(q, "ptrlist") \/ Lies(q, "last")

LEMMA TypeSetMoves ==
    ASSUME Values, Apart, NEW type \in Kinds, TypeSet(type)
    PROVE  /\ QueuesOK /\ ptrlist' = <<>> /\ last_apacket' = None
           /\ \A q \in Packets : ~Cleared(q) => \A k \in Homes : Lies(q, k)' <=> Lies(q, k)
           /\ \A q \in Packets : Cleared(q) => \E h \in Memory : \A k \in Homes : Lies(q, k)' <=> k = h
           /\ contents' = [p \in Packets |-> IF Cleared(p) THEN Blank ELSE contents[p]]
<1>1. ClientClear /\ UNCHANGED <<hand, b2a, a2b>> /\ ptrlist' = <<>> /\ last_apacket' = None
  BY DEF TypeSet, ClientClear
<1>2. heap \subseteq Packets /\ pool \in Seq(Packets) /\ ptrlist \in Seq(Packets) /\ last_apacket \in Packets \cup {None}
      /\ None \notin Packets /\ DistinctNow /\ b2a \in Seq(Packets) /\ a2b \in Seq(Packets)
  BY PacketNames DEF Values, Apart, DistinctNow
<1>3. \A q \in Packets : Cleared(q) <=> q \in Range(ptrlist) \cup {last_apacket}
  BY PlaceNames DEF Cleared
<1>4. contents' = [p \in Packets |-> IF Cleared(p) THEN Blank ELSE contents[p]]
  BY <1>1, <1>3 DEF ClientClear, Wiped
<1>5. Range(pool) \cap Range(ptrlist) = {} /\ Range(pool) \subseteq Packets /\ Range(ptrlist) \subseteq Packets
  <2>1. Range(pool) \subseteq Packets /\ Range(ptrlist) \subseteq Packets
    BY <1>2 DEF Range
  <2>2. \A q \in Range(pool) : q \notin Range(ptrlist)
    BY <2>1, PlaceNames, HomeNames DEF Apart
  <2>3. QED
    BY <2>1, <2>2
<1>6. Range(ptrlist)' = {} /\ Range(b2a)' = Range(b2a) /\ Range(a2b)' = Range(a2b)
  BY <1>1 DEF Range
<1>7. /\ heap' \subseteq Packets /\ pool' \in Seq(Packets) /\ Distinct(pool)'
      /\ \A q \in Packets : ~Cleared(q) => (q \in heap' <=> q \in heap) /\ (q \in Range(pool)' <=> q \in Range(pool))
      /\ \A q \in Packets : Cleared(q) => (q \in heap \/ q \in heap' \/ q \in Range(pool)')
      /\ \A q \in Packets : Cleared(q) /\ q \in Range(pool)' => q \in Range(pool) \/ (q \in Range(ptrlist) /\ (q \in heap' => q \in heap \/ q = last_apacket))
  <2>1. CASE kicked
    <3>1. heap' = heap \cup Range(ptrlist) \cup ({last_apacket} \ {None}) /\ pool' = pool
      BY <1>1, <2>1 DEF ClientClear
    <3>2. Range(pool)' = Range(pool)
      BY <3>1 DEF Range
    <3>3. QED
      BY <1>2, <1>3, <1>5, <3>1, <3>2 DEF DistinctNow
  <2>2. CASE ~kicked
    <3>1. heap' = heap \cup ({last_apacket} \ {None}) /\ pool' = pool \o ptrlist
      BY <1>1, <2>2 DEF ClientClear
    <3>2. pool' \in Seq(Packets) /\ Distinct(pool') /\ Range(pool') = Range(pool) \cup Range(ptrlist)
      BY <1>2, <1>5, <3>1, Joined DEF DistinctNow
    <3>3. QED
      BY <1>2, <1>3, <3>1, <3>2
  <2>3. QED
    BY <2>1, <2>2
<1>8. ASSUME NEW q \in Packets, ~Cleared(q) PROVE \A k \in Homes : Lies(q, k)' <=> Lies(q, k)
  <2>1. q \notin Range(ptrlist) /\ q # last_apacket
    BY <1>3, <1>8
  <2>2. Alike(q)
    BY <1>1, <1>2, <1>6, <1>7, <1>8, <2>1 DEF Alike
  <2>3. QED
    BY <2>2, AlikeStays
<1>9. ASSUME NEW q \in Packets, Cleared(q) PROVE \E h \in Memory : \A k \in Homes : Lies(q, k)' <=> k = h
  <2>1. PICK l \in {"ptrlist", "last"} : Lies(q, l)
    BY <1>9 DEF Cleared
  <2>2. \A k \in Homes : Lies(q, k) => k = l
    BY <2>1, OnlyThere, HomeNames
  <2>3. /\ \A t \in Threads : hand[t] # q
        /\ q \notin heap /\ q \notin Range(pool) /\ q \notin Range(b2a) /\ q \notin Range(a2b)
        /\ ~(q \in Range(ptrlist) /\ q = last_apacket)
    BY <2>2, PlaceNames, HomeNames DEF Threads
  <2>4. PICK h \in Memory : (q \in heap' <=> h = "heap") /\ (q \in Range(pool)' <=> h = "pool")
    BY <1>7, <1>9, <2>3 DEF Memory
  <2>5. /\ \A t \in Threads : ~Lies(q, t)' /\ t # h
        /\ (Lies(q, "heap")' <=> h = "heap") /\ (Lies(q, "pool")' <=> h = "pool")
        /\ ~Lies(q, "b2a")' /\ ~Lies(q, "a2b")' /\ ~Lies(q, "ptrlist")' /\ ~Lies(q, "last")'
    BY <1>1, <1>2, <1>6, <2>3, <2>4, PlaceNamesNext DEF Memory, Threads
  <2>6. \A k \in Homes : Lies(q, k)' <=> k = h
    BY <2>5, HomeNames DEF Memory, Threads
  <2>7. QED
    BY <2>6
<1>10. QueuesOK
  <2>1. <<>> \in Seq(Packets) /\ Distinct(<<>>)
    BY DEF Distinct
  <2>2. QED
    BY <1>1, <1>2, <1>7, <2>1 DEF QueuesOK, DistinctNow, Distinct
<1>11. QED
  BY <1>1, <1>4, <1>8, <1>9, <1>10

LEMMA TypeSetApart ==
    ASSUME Values, Apart, NEW type \in Kinds, TypeSet(type)
    PROVE  Apart'
<1>1. /\ QueuesOK
      /\ \A q \in Packets : ~Cleared(q) => \A k \in Homes : Lies(q, k)' <=> Lies(q, k)
      /\ \A q \in Packets : Cleared(q) => \E h \in Memory : \A k \in Homes : Lies(q, k)' <=> k = h
  BY TypeSetMoves
<1>2. ASSUME NEW q \in Packets, NEW k \in Homes, NEW l \in Homes, Lies(q, k)', Lies(q, l)' PROVE k = l
  <2>1. CASE Cleared(q)
    BY <1>1, <1>2, <2>1
  <2>2. CASE ~Cleared(q)
    BY <1>1, <1>2, <2>2 DEF Apart
  <2>3. QED
    BY <2>1, <2>2
<1>3. QED
  BY <1>1, <1>2 DEF Apart, QueuesOK, DistinctNow

-------------------------------------------------------------------------------
(* The type invariant.                                                     *)

LEMMA Messages ==
    /\ Blank \in Message /\ Sync \in Message /\ Blank # Sync
    /\ \A n \in 0..MaxStreams : Clse(n) \in Message /\ \A b, c \in Nat : Data(n, b, c) \in Message
  BY DataPathAssumption DEF Blank, Sync, Clse, Data, Message

LEMMA FilledKept ==
    ASSUME Values, Filled, UNCHANGED <<pc, readlen, written, stream>>, hand'["client"] = hand["client"],
           hand["client"] # None => contents'[hand["client"]] = contents[hand["client"]]
    PROVE  Filled'
  BY DEF Filled

\* What is written to a packet somewhere else is not what the client has in hand.
LEMMA Elsewhere ==
    ASSUME Values, Apart, NEW p \in Packets, NEW k \in Homes, k # "client", Lies(p, k), NEW m,
           contents' = [contents EXCEPT ![p] = m]
    PROVE  hand["client"] # None => contents'[hand["client"]] = contents[hand["client"]]
<1>1. hand["client"] # p
  BY OnlyThere, PlaceNames, HomeNames DEF Threads
<1>2. hand["client"] # None => hand["client"] \in Packets
  BY DEF Values, Threads
<1>3. QED
  BY <1>1, <1>2 DEF Values

LEMMA OutputGetTypes ==
    ASSUME TypeInv, OutputGet
    PROVE  TypeInv'
<1> USE DEF TypeInv
<1>1. PICK p \in Packets : /\ Moved(p, "output") /\ (\E h \in Memory : Lies(p, h))
                           /\ contents' = [contents EXCEPT ![p] = IF pump = "off" THEN Sync ELSE Blank]
                           /\ hand' = [hand EXCEPT !["output"] = p]
  BY OutputGetMoves
<1>2. QueuesOK
  BY OutputGetMoves
<1>3. Values'
  <2>1. contents' \in [Packets -> Message] /\ hand' \in [Threads -> Packets \cup {None}]
    BY <1>1, Messages DEF Values
  <2>2. QED
    BY <1>2, <2>1 DEF QueuesOK, OutputGet, channel, client, down, up, Values
<1>4. Calling'
  BY <1>1, <1>3 DEF Calling, OutputGet, channel, client, Values, Threads
<1>5. Apart'
  BY <1>1, <1>2, MovedApart DEF QueuesOK
<1>6. Filled'
  <2>1. hand'["client"] = hand["client"]
    BY <1>1 DEF Values, Threads
  <2>2. hand["client"] # None => contents'[hand["client"]] = contents[hand["client"]]
    BY <1>1, Elsewhere, HomeNames DEF Memory
  <2>3. QED
    BY <2>1, <2>2, FilledKept DEF OutputGet, client, up
<1>7. QED
  BY <1>3, <1>4, <1>5, <1>6

LEMMA UsbReadTypes ==
    ASSUME TypeInv, NEW m \in Message, UsbRead(m), fromDevice' \in Nat, live' \in BOOLEAN
    PROVE  TypeInv' /\ Still
<1> USE DEF TypeInv
<1>1. /\ hand["output"] # None /\ contents' = [contents EXCEPT ![hand["output"]] = m]
      /\ UNCHANGED <<hand, heap, pool, b2a, a2b, channel, client, up, sending, pump, kicked, toCaller>>
  BY DEF UsbRead, UsbReading
<1>2. hand["output"] \in Packets /\ Lies(hand["output"], "output")
  BY <1>1, PlaceNames DEF Values, Threads
<1>3. Values'
  <2>1. contents' \in [Packets -> Message]
    BY <1>1 DEF Values
  <2>2. QED
    BY <1>1, <2>1 DEF channel, client, up, Values
<1>4. Calling'
  BY <1>1 DEF Calling, channel, client
<1>5. Apart' /\ Still
  BY <1>1, NotMoving DEF channel
<1>6. Filled'
  <2>1. hand["client"] # None => contents'[hand["client"]] = contents[hand["client"]]
    BY <1>1, <1>2, Elsewhere, HomeNames
  <2>2. QED
    BY <1>1, <2>1, FilledKept DEF client, up
<1>7. QED
  BY <1>3, <1>4, <1>5, <1>6

\* What a thread other than the client puts back.
LEMMA BackTypes ==
    ASSUME TypeInv, NEW t \in {"output", "user", "input"}, hand[t] # None, PutBack(hand[t]), Holds(t, None),
           UNCHANGED <<b2a, a2b, ptrlist, last_apacket, client, down, written, sending>>,
           pump' \in {"on", "off", "ended"}, pump' = "ended" => pump = "ended",
           biptype' \in Kinds \cup {"close"}, kicked' \in BOOLEAN, live' \in BOOLEAN, intact' \in BOOLEAN, toDevice' \in Spans
    PROVE  TypeInv' /\ (\E h \in Memory : Moved(hand[t], h))
<1> USE DEF TypeInv
<1>1. QueuesOK /\ (\E h \in Memory : Moved(hand[t], h)) /\ WipedAt(hand[t])
  BY BackMoves DEF Threads
<1>2. hand[t] \in Packets /\ Lies(hand[t], t) /\ t \in Threads /\ t # "client" /\ Unmoved(t)
  BY PlaceNames DEF Values, Threads, Holds, Unmoved
<1>3. hand' \in [Threads -> Packets \cup {None}] /\ hand'["client"] = hand["client"] /\ (hand["output"] = None => hand'["output"] = None)
  BY <1>2 DEF Unmoved, Values, Threads
<1>4. Values'
  <2>1. contents' \in [Packets -> Message]
    BY <1>1, Messages DEF Values, WipedAt
  <2>2. QED
    BY <1>1, <1>3, <2>1 DEF QueuesOK, client, down, Values
<1>5. Calling'
  BY <1>3 DEF Calling, client
<1>6. Apart'
  BY <1>1, <1>2, MovedApart DEF QueuesOK
<1>7. Filled'
  <2>1. hand["client"] # None => contents'[hand["client"]] = contents[hand["client"]]
    BY <1>1, <1>2, Elsewhere, HomeNames DEF WipedAt
  <2>2. QED
    BY <1>3, <2>1, FilledKept DEF client
<1>8. QED
  BY <1>1, <1>4, <1>5, <1>6, <1>7

\* What a thread other than the client pushes.
LEMMA PushTypes ==
    ASSUME TypeInv, NEW t \in {"output", "user"}, hand[t] # None, hand[t] \in Packets, QueuesOK, Unmoved(t),
           NEW n \in {"b2a", "a2b"},
           \/ ~kicked /\ Moved(hand[t], n) /\ contents' = contents
           \/ kicked /\ (\E h \in Memory : Moved(hand[t], h)) /\ WipedAt(hand[t])
           \/ kicked /\ Moved(hand[t], "lost") /\ contents' = contents,
           UNCHANGED <<channel, client, down, up, sending, kicked, live>>,
           pump' \in {"on", "off", "ended"}, t = "output" \/ pump' = pump
    PROVE  TypeInv'
<1> USE DEF TypeInv
<1>1. PICK h : Moved(hand[t], h)
  OBVIOUS
<1>2. Lies(hand[t], t) /\ t \in Threads /\ t # "client"
  BY PlaceNames DEF Threads
<1>3. hand' \in [Threads -> Packets \cup {None}] /\ hand'["client"] = hand["client"] /\ hand'[t] = None
      /\ (hand["output"] = None => hand'["output"] = None)
  BY <1>2 DEF Unmoved, Values, Threads
<1>4. Values'
  <2>1. contents' \in [Packets -> Message]
    BY Messages DEF Values, WipedAt
  <2>2. QED
    BY <1>3, <2>1 DEF QueuesOK, channel, client, down, up, Values
<1>5. Calling'
  BY <1>3 DEF Calling, client, channel
<1>6. Apart'
  BY <1>1, MovedApart DEF QueuesOK
<1>7. Filled'
  <2>1. hand["client"] # None => contents'[hand["client"]] = contents[hand["client"]]
    BY <1>2, Elsewhere, HomeNames DEF WipedAt
  <2>2. QED
    BY <1>3, <2>1, FilledKept DEF client, up
<1>8. QED
  BY <1>4, <1>5, <1>6, <1>7

\* A step that moves a packet and writes to none, while the client is not at it.
LEMMA PassTypes ==
    ASSUME TypeInv, QueuesOK, NEW p \in Packets, NEW h, Moved(p, h), contents' = contents,
           hand' \in [Threads -> Packets \cup {None}], hand'["client"] = hand["client"],
           hand'["output"] = hand["output"],
           UNCHANGED <<client, down, up, sending, kicked, live, pump, biptype>>,
           last_apacket' \in Packets \cup {None}, last_apacket' # None => last_apacket # None \/ kind = "forward"
    PROVE  TypeInv'
<1> USE DEF TypeInv
<1>1. Values'
  BY DEF QueuesOK, client, down, up, Values
<1>2. Calling'
  BY DEF Calling, client
<1>3. Apart'
  BY MovedApart DEF QueuesOK
<1>4. Filled'
  BY FilledKept DEF client, up
<1>5. QED
  BY <1>1, <1>2, <1>3, <1>4

LEMMA OutputTypes ==
    ASSUME TypeInv, Output
    PROVE  TypeInv'
<1> USE DEF TypeInv
<1>1. CASE OutputGet
  BY <1>1, OutputGetTypes
<1>2. ASSUME NEW k \in 1..MaxPayload, DeviceSend(k) PROVE TypeInv'
  <2>1. stream \in 0..MaxStreams /\ fromDevice \in Nat /\ k \in Nat /\ live \in BOOLEAN
    BY DataPathAssumption DEF Values
  <2>2. fromDevice + 1 \in Nat /\ fromDevice + k \in Nat
    BY <2>1
  <2>3. Data(stream, fromDevice + 1, fromDevice + k) \in Message
    BY <2>1, <2>2, Messages
  <2>4. UsbRead(Data(stream, fromDevice + 1, fromDevice + k)) /\ fromDevice' = fromDevice + k /\ live' = live
    BY <1>2 DEF DeviceSend
  <2>5. QED
    BY <2>1, <2>2, <2>3, <2>4, UsbReadTypes
<1>3. CASE DeviceClose
  <2>1. UsbRead(Clse(stream)) /\ fromDevice' = fromDevice /\ live' = FALSE
    BY <1>3 DEF DeviceClose
  <2>2. Clse(stream) \in Message /\ fromDevice \in Nat
    BY Messages DEF Values
  <2>3. QED
    BY <2>1, <2>2, UsbReadTypes
<1>4. CASE UsbReadFails
  <2>1. /\ hand["output"] # None /\ PutBack(hand["output"]) /\ Holds("output", None) /\ pump' = "off"
        /\ UNCHANGED <<b2a, a2b, ptrlist, last_apacket, client, down, written, sending, biptype, kicked, live, intact, toDevice>>
    BY <1>4 DEF UsbReadFails, UsbReading, channel, up
  <2>2. biptype' \in Kinds \cup {"close"} /\ kicked' \in BOOLEAN /\ live' \in BOOLEAN /\ intact' \in BOOLEAN /\ toDevice' \in Spans
    BY <2>1 DEF Values
  <2>3. QED
    BY <2>1, <2>2, BackTypes
<1>5. CASE OutputWrite
  <2>1. /\ hand["output"] # None /\ Unmoved("output") /\ UNCHANGED <<channel, client, down, up, sending, kicked, live>>
        /\ pump' = IF kicked \/ pump = "off" THEN "ended" ELSE pump
    BY <1>5 DEF OutputWrite, Push, Holds, Unmoved
  <2>2. pump' \in {"on", "off", "ended"}
    BY <2>1 DEF Values
  <2>3. QED
    BY <1>5, <2>1, <2>2, OutputWriteMoves, PushTypes
<1>6. QED
  BY <1>1, <1>2, <1>3, <1>4, <1>5 DEF Output

LEMMA UserTypes ==
    ASSUME TypeInv, User
    PROVE  TypeInv'
<1> USE DEF TypeInv
<1>1. CASE UserRead
  <2>1. /\ hand' = [hand EXCEPT !["user"] = Head(b2a)]
        /\ UNCHANGED <<client, down, up, sending, kicked, live, pump, biptype, last_apacket>>
    BY <1>1 DEF UserRead, ReadPacket, Holds, channel
  <2>2. QueuesOK /\ Head(b2a) \in Packets /\ Moved(Head(b2a), "user") /\ contents' = contents
    BY <1>1, UserReadMoves
  <2>3. hand' \in [Threads -> Packets \cup {None}] /\ hand'["client"] = hand["client"] /\ hand'["output"] = hand["output"]
    BY <2>1, <2>2 DEF Values, Threads
  <2>4. last_apacket' \in Packets \cup {None}
    BY <2>1 DEF Values
  <2>5. PICK p : p = Head(b2a)
    OBVIOUS
  <2>6. QED
    BY <2>1, <2>2, <2>3, <2>4, <2>5, PassTypes
<1>2. CASE LocalClientEnqueue
  <2>1. /\ hand' = [hand EXCEPT !["user"] = None]
        /\ UNCHANGED <<client, down, up, sending, kicked, live, pump, biptype, last_apacket>>
    BY <1>2 DEF LocalClientEnqueue, Holds
  <2>2. QueuesOK /\ hand["user"] \in Packets /\ Moved(hand["user"], "ptrlist") /\ contents' = contents
    BY <1>2, LocalClientEnqueueMoves
  <2>3. hand' \in [Threads -> Packets \cup {None}] /\ hand'["client"] = hand["client"] /\ hand'["output"] = hand["output"]
    BY <2>1 DEF Values, Threads
  <2>4. last_apacket' \in Packets \cup {None}
    BY <2>1 DEF Values
  <2>5. PICK p : p = hand["user"]
    OBVIOUS
  <2>6. QED
    BY <2>1, <2>2, <2>3, <2>4, <2>5, PassTypes
<1>3. CASE HandleClse
  <2>1. /\ hand["user"] # None /\ PutBack(hand["user"]) /\ Holds("user", None) /\ biptype' = "close"
        /\ UNCHANGED <<b2a, a2b, ptrlist, last_apacket, client, down, written, sending, pump, kicked, live, intact, toDevice>>
    BY <1>3 DEF HandleClse, up
  <2>2. pump' \in {"on", "off", "ended"} /\ kicked' \in BOOLEAN /\ live' \in BOOLEAN /\ intact' \in BOOLEAN /\ toDevice' \in Spans
    BY <2>1 DEF Values
  <2>3. QED
    BY <2>1, <2>2, BackTypes
<1>4. CASE HandleSync
  <2>1. /\ hand["user"] # None /\ Unmoved("user") /\ UNCHANGED <<channel, client, down, up, sending, kicked, live, pump>>
    BY <1>4 DEF HandleSync, Push, Holds, Unmoved
  <2>2. pump' \in {"on", "off", "ended"}
    BY <2>1 DEF Values
  <2>3. QED
    BY <1>4, <2>1, <2>2, HandleSyncMoves, PushTypes
<1>5. QED
  BY <1>1, <1>2, <1>3, <1>4 DEF User

LEMMA InputTypes ==
    ASSUME TypeInv, Input
    PROVE  TypeInv'
<1> USE DEF TypeInv
<1>1. CASE InputRead
  <2>1. /\ hand' = [hand EXCEPT !["input"] = Head(a2b)]
        /\ UNCHANGED <<client, down, up, sending, kicked, live, pump, biptype, last_apacket>>
    BY <1>1 DEF InputRead, ReadPacket, Holds, channel
  <2>2. QueuesOK /\ Head(a2b) \in Packets /\ Moved(Head(a2b), "input") /\ contents' = contents
    BY <1>1, InputReadMoves
  <2>3. hand' \in [Threads -> Packets \cup {None}] /\ hand'["client"] = hand["client"] /\ hand'["output"] = hand["output"]
    BY <2>1, <2>2 DEF Values, Threads
  <2>4. last_apacket' \in Packets \cup {None}
    BY <2>1 DEF Values
  <2>5. PICK p : p = Head(a2b)
    OBVIOUS
  <2>6. QED
    BY <2>1, <2>2, <2>3, <2>4, <2>5, PassTypes
<1>2. CASE InputOffline
  <2>1. /\ hand["input"] # None /\ PutBack(hand["input"]) /\ Holds("input", None) /\ kicked' = TRUE /\ UNCHANGED live
        /\ UNCHANGED <<b2a, a2b, ptrlist, last_apacket, client, down, written, sending, pump, biptype, intact, toDevice>>
    BY <1>2 DEF InputOffline, KickTransport, up, channel
  <2>2. /\ pump' \in {"on", "off", "ended"} /\ biptype' \in Kinds \cup {"close"} /\ kicked' \in BOOLEAN /\ live' \in BOOLEAN
        /\ intact' \in BOOLEAN /\ toDevice' \in Spans
    BY <2>1 DEF Values
  <2>3. QED
    BY <2>1, <2>2, BackTypes
<1>3. CASE InputWrite
  <2>1. /\ hand["input"] # None /\ PutBack(hand["input"]) /\ Holds("input", None)
        /\ UNCHANGED <<b2a, a2b, ptrlist, last_apacket, client, down, written, sending, pump, biptype, kicked, live>>
    BY <1>3 DEF InputWrite, channel
  <2>2. /\ pump' \in {"on", "off", "ended"} /\ biptype' \in Kinds \cup {"close"} /\ kicked' \in BOOLEAN /\ live' \in BOOLEAN
    BY <2>1 DEF Values
  <2>3. intact' \in BOOLEAN /\ toDevice' \in Spans
    <3>1. hand["input"] \in Packets
      BY <2>1 DEF Values, Threads
    <3>2. PICK m : m = contents[hand["input"]]
      OBVIOUS
    <3>3. Span(hand["input"]) \in Spans
      BY <3>1 DEF Span, Spans, Values, Message
    <3>4. toDevice' \in {Span(hand["input"]), toDevice}
      BY <1>3 DEF InputWrite
    <3>5. intact' \in BOOLEAN
      BY <1>3 DEF InputWrite, Values
    <3>6. QED
      BY <3>3, <3>4, <3>5 DEF Values
  <2>4. QED
    BY <2>1, <2>2, <2>3, BackTypes
<1>4. QED
  BY <1>1, <1>2, <1>3 DEF Input

\* A step that moves no packet and writes to none, outside client_write.
LEMMA CallTypes ==
    ASSUME TypeInv, UNCHANGED <<memory, b2a, a2b, hand, channel, kind, stream, lines, down, up, pump>>,
           sending' = FALSE \/ (sending' = sending /\ pc' = pc), kicked' \in BOOLEAN, live' \in BOOLEAN, isAddChar' \in BOOLEAN,
           len' \in Nat, readlen' \in 0..len',
           hand["client"] # None => pc' \in {"shell_recv", "client_write"},
           pc' \in {"idle", "client_read", "shell_recv", "shell_empty", "client_write"},
           pc' \in {"client_read", "client_write"} => kind = "forward",
           pc' \in {"shell_recv", "shell_empty"} => kind \in ShellKinds,
           pc' = "client_write" => hand["client"] = None \/ UNCHANGED <<pc, readlen>>
    PROVE  TypeInv' /\ Still
<1> USE DEF TypeInv
<1>1. Values'
  BY DEF memory, channel, down, up, Values
<1>2. Calling'
  BY DEF Calling, channel
<1>3. Apart' /\ Still
  BY NotMoving DEF memory, channel
<1>4. Filled'
  BY DEF Filled, memory, up
<1>5. QED
  BY <1>1, <1>2, <1>3, <1>4

LEMMA CallsTypes ==
    ASSUME TypeInv,
           \/ \E n \in Sizes : ReadBegin(n) \/ WriteBegin(n)
           \/ ReadReturn \/ ShellRecvBegin \/ ShellEmpty \/ ShellReturn \/ WriteReturn \/ Kick
           \/ WriteTest /\ ~Refused
           \/ ShellPop /\ ptrlist = <<>>
    PROVE  TypeInv' /\ Still
<1>0. /\ sending \in BOOLEAN /\ kicked \in BOOLEAN /\ live \in BOOLEAN /\ isAddChar \in BOOLEAN /\ len \in Nat /\ readlen \in 0..len
      /\ 0 \in Nat /\ 0 \in 0..0 /\ \A n \in Sizes : n \in Nat /\ n \in 0..n
      /\ (sending => hand["client"] # None /\ pc = "client_write")
      /\ (hand["client"] # None => pc \in {"shell_recv", "client_write"})
      /\ (pc \in {"client_read", "client_write"} => kind = "forward")
      /\ (pc \in {"shell_recv", "shell_empty"} => kind \in ShellKinds)
      /\ pc \in {"idle", "client_read", "shell_recv", "shell_empty", "client_write"}
  BY DataPathAssumption DEF TypeInv, Values, Calling
<1>1. ASSUME NEW n \in Sizes, ReadBegin(n) PROVE TypeInv' /\ Still
  <2>1. n \in Nat /\ n \in 0..n /\ hand["client"] = None /\ sending = FALSE
    BY <1>0, <1>1 DEF ReadBegin
  <2>2. QED
    BY <1>0, <1>1, <2>1, CallTypes DEF ReadBegin, Call
<1>2. ASSUME NEW n \in Sizes, WriteBegin(n) PROVE TypeInv' /\ Still
  <2>1. n \in Nat /\ n \in 0..n /\ hand["client"] = None /\ sending = FALSE
    BY <1>0, <1>2 DEF WriteBegin
  <2>2. QED
    BY <1>0, <1>2, <2>1, CallTypes DEF WriteBegin, Call
<1>3. CASE ReadReturn
  <2>1. hand["client"] = None /\ sending = FALSE
    BY <1>0, <1>3 DEF ReadReturn
  <2>2. QED
    BY <1>0, <1>3, <2>1, CallTypes DEF ReadReturn, Return, Call
<1>4. CASE ShellRecvBegin
  <2>1. hand["client"] = None /\ sending = FALSE
    BY <1>0, <1>4 DEF ShellRecvBegin
  <2>2. QED
    BY <1>0, <1>4, <2>1, CallTypes DEF ShellRecvBegin
<1>5. CASE ShellEmpty
  <2>1. hand["client"] = None /\ sending = FALSE
    BY <1>0, <1>5 DEF ShellEmpty
  <2>2. pc' \in {"idle", "shell_recv"} /\ isAddChar' \in BOOLEAN /\ kind \in ShellKinds
    BY <1>0, <1>5 DEF ShellEmpty
  <2>3. QED
    BY <1>0, <1>5, <2>1, <2>2, CallTypes DEF ShellEmpty
<1>6. CASE ShellReturn
  <2>1. hand["client"] = None /\ sending = FALSE
    BY <1>0, <1>6 DEF ShellReturn
  <2>2. QED
    BY <1>0, <1>6, <2>1, CallTypes DEF ShellReturn
<1>7. CASE WriteReturn
  <2>1. hand["client"] = None /\ sending = FALSE
    BY <1>0, <1>7 DEF WriteReturn
  <2>2. QED
    BY <1>0, <1>7, <2>1, CallTypes DEF WriteReturn, Return, Call
<1>8. CASE Kick
  BY <1>0, <1>8, CallTypes DEF Kick, KickTransport, client
<1>9. CASE WriteTest /\ ~Refused
  <2>1. /\ sending' = TRUE /\ pc = "client_write" /\ hand["client"] # None
        /\ UNCHANGED <<memory, b2a, a2b, hand, channel, client, down, up, pump, kicked, live>>
    BY <1>9 DEF WriteTest
  <2>2. Values'
    BY <2>1 DEF TypeInv, memory, client, channel, down, up, Values
  <2>3. Calling' /\ Filled'
    BY <2>1 DEF TypeInv, client, channel, up, memory, Calling, Filled
  <2>4. (Apart => Apart') /\ Still
    BY <2>1, NotMoving DEF memory, channel
  <2>5. QED
    BY <2>2, <2>3, <2>4 DEF TypeInv
<1>10. CASE ShellPop /\ ptrlist = <<>>
  <2>1. hand["client"] = None /\ sending = FALSE /\ UNCHANGED <<hand, ptrlist, biptype, last_apacket>> /\ pc' = "shell_empty"
    BY <1>0, <1>10 DEF ShellPop
  <2>2. QED
    BY <1>0, <1>10, <2>1, CallTypes DEF ShellPop, channel
<1>11. QED
  BY <1>1, <1>2, <1>3, <1>4, <1>5, <1>6, <1>7, <1>8, <1>9, <1>10

LEMMA ReadDropTypes ==
    ASSUME TypeInv, ReadDrop
    PROVE  TypeInv' /\ (\E h \in Memory : Moved(last_apacket, h)) /\ WipedAt(last_apacket)
<1> USE DEF TypeInv
<1>1. /\ last_apacket # None /\ PutBack(last_apacket) /\ last_apacket' = None
      /\ UNCHANGED <<pump, sending, b2a, a2b, hand, kicked, biptype, ptrlist, client, down, up, live>>
  BY DEF ReadDrop
<1>2. last_apacket \in Packets /\ Lies(last_apacket, "last") /\ "last" \in Threads \cup {"last"} /\ "last" \notin Threads
  BY <1>1, PlaceNames DEF Values, Threads
<1>3. (\E h \in Memory : Moved(last_apacket, h)) /\ DistinctNow'
      /\ heap' \subseteq Packets /\ pool' \in Seq(Packets) /\ WipedAt(last_apacket)
  BY <1>1, <1>2, PutMoves DEF Memory, WipedAt
<1>4. Values'
  <2>1. contents' \in [Packets -> Message]
    BY <1>3, Messages DEF Values, WipedAt
  <2>2. QED
    BY <1>1, <1>3, <2>1 DEF client, down, up, Values
<1>5. Calling'
  BY <1>1 DEF Calling, client
<1>6. Apart'
  BY <1>2, <1>3, MovedApart
<1>7. Filled'
  <2>1. hand["client"] # None => contents'[hand["client"]] = contents[hand["client"]]
    BY <1>2, <1>3, Elsewhere, HomeNames DEF WipedAt
  <2>2. QED
    BY <1>1, <2>1, FilledKept DEF client, up
<1>8. QED
  BY <1>3, <1>4, <1>5, <1>6, <1>7

LEMMA ReadCopyTypes ==
    ASSUME TypeInv, ReadCopy
    PROVE  /\ TypeInv' /\ Still
           /\ \E clen \in Nat : /\ 0 < clen /\ clen <= Size(last_apacket) /\ clen <= readlen
                 /\ toCaller' = [from |-> contents[last_apacket].from, to |-> contents[last_apacket].from + clen - 1]
                 /\ contents' = [contents EXCEPT ![last_apacket].from = contents[last_apacket].from + clen]
<1> USE DEF TypeInv
<1>1. /\ last_apacket # None /\ Size(last_apacket) > 0 /\ readlen > 0 /\ pc = "client_read"
      /\ UNCHANGED <<pump, sending, heap, pool, b2a, a2b, hand, kicked, channel, pc, len, isAddChar,
                   kind, stream, lines, fromDevice, up, live>>
  BY DEF ReadCopy, Reading
<1>2. PICK p : p = last_apacket
  OBVIOUS
<1>3. PICK m \in Message : m = contents[p]
  BY <1>1, <1>2 DEF Values
<1>4. p \in Packets /\ m.from \in Nat /\ m.to \in Nat /\ readlen \in Nat /\ len \in Nat /\ readlen <= len
      /\ Size(p) = m.to - m.from + 1
  BY <1>1, <1>2, <1>3 DEF Values, Message, Size
<1>5. PICK clen : clen = IF readlen > Size(p) THEN Size(p) ELSE readlen
  OBVIOUS
<1>6. clen \in Nat /\ 0 < clen /\ clen <= Size(p) /\ clen <= readlen
  BY <1>1, <1>2, <1>4, <1>5
<1>7. /\ toCaller' = [from |-> m.from, to |-> m.from + clen - 1]
      /\ contents' = [contents EXCEPT ![p].from = m.from + clen] /\ readlen' = readlen - clen
  BY <1>2, <1>3, <1>5 DEF ReadCopy
<1>8. Values'
  <2>1. contents' = [contents EXCEPT ![p] = [m EXCEPT !.from = m.from + clen]]
    BY <1>3, <1>7
  <2>2. [m EXCEPT !.from = m.from + clen] \in Message
    BY <1>3, <1>4, <1>6 DEF Message
  <2>3. contents' \in [Packets -> Message]
    BY <2>1, <2>2 DEF Values
  <2>4. toCaller' \in Spans
    BY <1>4, <1>6, <1>7 DEF Spans
  <2>5. readlen' \in 0..len
    BY <1>4, <1>6, <1>7
  <2>6. QED
    BY <1>1, <2>3, <2>4, <2>5 DEF Values, channel, up
<1>9. Calling' /\ Filled'
  BY <1>1 DEF Calling, Filled, channel
<1>10. Apart' /\ Still
  BY <1>1, NotMoving DEF channel
<1>11. QED
  BY <1>2, <1>3, <1>6, <1>7, <1>8, <1>9, <1>10

LEMMA ReadPopTypes ==
    ASSUME TypeInv, ReadPop
    PROVE  TypeInv'
<1> USE DEF TypeInv
<1>1. /\ last_apacket' = Head(ptrlist) /\ pc = "client_read"
      /\ UNCHANGED <<client, down, up, sending, kicked, live, pump, biptype, hand>>
  BY DEF ReadPop, Reading
<1>2. QueuesOK /\ Head(ptrlist) \in Packets /\ Moved(Head(ptrlist), "last") /\ contents' = contents
  BY ReadPopMoves
<1>3. last_apacket' \in Packets \cup {None} /\ hand \in [Threads -> Packets \cup {None}] /\ kind = "forward"
  BY <1>1, <1>2 DEF Values, Calling
<1>4. PICK p : p = Head(ptrlist)
  OBVIOUS
<1>5. QED
  BY <1>1, <1>2, <1>3, <1>4, PassTypes

LEMMA ShellPopTypes ==
    ASSUME TypeInv, ShellPop, ptrlist # <<>>
    PROVE  TypeInv'
<1> USE DEF TypeInv
<1>1. /\ hand' = [hand EXCEPT !["client"] = Head(ptrlist)] /\ pc = "shell_recv"
      /\ UNCHANGED <<b2a, a2b, biptype, last_apacket, client, down, up, sending, kicked, live, pump>>
  BY DEF ShellPop, Holds, client
<1>2. QueuesOK /\ Head(ptrlist) \in Packets /\ Moved(Head(ptrlist), "client") /\ contents' = contents
  BY ShellPopMoves
<1>3. Values'
  <2>1. hand' \in [Threads -> Packets \cup {None}]
    BY <1>1, <1>2 DEF Values
  <2>2. QED
    BY <1>1, <1>2, <2>1 DEF QueuesOK, client, down, up, Values
<1>4. Calling'
  <2>1. hand'["output"] = hand["output"] /\ ~sending
    BY <1>1 DEF Values, Threads, Calling
  <2>2. QED
    BY <1>1, <2>1 DEF Calling, client
<1>5. Apart'
  <2>1. PICK p : p = Head(ptrlist)
    OBVIOUS
  <2>2. QED
    BY <1>2, <2>1, MovedApart DEF QueuesOK
<1>6. Filled'
  BY <1>1 DEF Filled, client
<1>7. QED
  BY <1>3, <1>4, <1>5, <1>6

\* The client puts its packet back.
LEMMA ClientBackTypes ==
    ASSUME TypeInv, hand["client"] # None, ~sending, PutBack(hand["client"]), Holds("client", None),
           UNCHANGED <<pump, sending, b2a, a2b, kicked, channel, kind, stream, lines, fromDevice, up, live>>,
           toCaller' \in Spans, isAddChar' \in BOOLEAN, len' \in Nat, readlen' \in 0..len', pc' \in {"idle", pc}
    PROVE  TypeInv' /\ (\E h \in Memory : Moved(hand["client"], h)) /\ WipedAt(hand["client"])
<1> USE DEF TypeInv
<1>1. QueuesOK /\ (\E h \in Memory : Moved(hand["client"], h)) /\ WipedAt(hand["client"])
  BY BackMoves DEF Threads, channel
<1>2. hand["client"] \in Packets /\ hand' \in [Threads -> Packets \cup {None}] /\ hand'["client"] = None
      /\ hand'["output"] = hand["output"]
  BY DEF Values, Threads, Holds
<1>3. Values'
  <2>1. contents' \in [Packets -> Message]
    BY <1>1, Messages DEF Values, WipedAt
  <2>2. QED
    BY <1>1, <1>2, <2>1 DEF QueuesOK, channel, up, Values
<1>4. Calling' /\ Filled'
  BY <1>2 DEF Calling, Filled, channel
<1>5. Apart'
  BY <1>1, <1>2, MovedApart DEF QueuesOK
<1>6. QED
  BY <1>1, <1>3, <1>4, <1>5

LEMMA ShellAppendTypes ==
    ASSUME TypeInv, ShellAppend
    PROVE  TypeInv' /\ (\E h \in Memory : Moved(hand["client"], h)) /\ WipedAt(hand["client"])
<1>1. /\ pc = "shell_recv" /\ hand["client"] # None /\ toCaller' = Span(hand["client"])
      /\ PutBack(hand["client"]) /\ Holds("client", None)
      /\ UNCHANGED <<pump, sending, b2a, a2b, kicked, channel, pc, len, readlen, kind, stream,
                     lines, fromDevice, up, live>>
  BY DEF ShellAppend
<1>2. ~sending /\ hand["client"] \in Packets /\ len \in Nat /\ readlen \in 0..len
  BY <1>1 DEF TypeInv, Calling, Values, Threads
<1>3. toCaller' \in Spans
  BY <1>1, <1>2 DEF Span, Spans, TypeInv, Values, Message
<1>4. isAddChar' \in BOOLEAN
  BY DEF ShellAppend, TypeInv, Values
<1>5. QED
  BY <1>1, <1>2, <1>3, <1>4, ClientBackTypes

LEMMA WriteRefusedTypes ==
    ASSUME TypeInv, WriteTest, Refused
    PROVE  TypeInv' /\ (\E h \in Memory : Moved(hand["client"], h)) /\ WipedAt(hand["client"])
<1>1. /\ hand["client"] # None /\ ~sending /\ PutBack(hand["client"]) /\ Holds("client", None)
      /\ pc' = "idle" /\ len' = 0 /\ readlen' = 0 /\ UNCHANGED <<isAddChar, kind, stream, lines>>
      /\ UNCHANGED <<pump, sending, b2a, a2b, kicked, channel, down, up, live>>
  BY DEF WriteTest, Return, Call
<1>2. toCaller' \in Spans /\ isAddChar' \in BOOLEAN /\ len' \in Nat /\ readlen' \in 0..len'
  BY <1>1 DEF TypeInv, Values, down
<1>3. QED
  BY <1>1, <1>2, ClientBackTypes DEF down

LEMMA WriteFillTypes ==
    ASSUME TypeInv, WriteFill
    PROVE  TypeInv'
<1> USE DEF TypeInv
<1>1. PICK p \in Packets, to \in Nat :
          /\ Moved(p, "client") /\ (\E h \in Memory : Lies(p, h)) /\ hand' = [hand EXCEPT !["client"] = p]
          /\ contents' = [contents EXCEPT ![p] = Data(stream, written + 1, to)]
          /\ written < to /\ to - written <= readlen
  BY WriteFillMoves
<1>2. /\ pc = "client_write" /\ QueuesOK
      /\ UNCHANGED <<pump, sending, b2a, a2b, kicked, channel, client, down, up, live>>
  BY WriteFillMoves DEF WriteFill
<1>3. hand' \in [Threads -> Packets \cup {None}] /\ hand'["client"] = p /\ hand'["output"] = hand["output"] /\ p # None
  BY <1>1, PacketNames DEF Values, Threads
<1>4. Data(stream, written + 1, to) \in Message
  BY Messages DEF Values
<1>5. Values'
  <2>1. contents' \in [Packets -> Message]
    BY <1>1, <1>4 DEF Values
  <2>2. QED
    BY <1>2, <1>3, <2>1 DEF QueuesOK, channel, client, down, up, Values
<1>6. Calling'
  BY <1>2, <1>3 DEF Calling, channel, client
<1>7. Apart'
  BY <1>1, <1>2, MovedApart DEF QueuesOK
<1>8. Filled'
  <2>1. contents'[p] = Data(stream, written + 1, to)
    BY <1>1 DEF Values
  <2>2. QED
    BY <1>1, <1>2, <1>3, <2>1 DEF Filled, client, up
<1>9. QED
  BY <1>5, <1>6, <1>7, <1>8

LEMMA WritePushTypes ==
    ASSUME TypeInv, WritePush
    PROVE  /\ TypeInv' /\ hand["client"] \in Packets
           /\ contents[hand["client"]].cmd = "WRTE" /\ contents[hand["client"]].n = stream
           /\ contents[hand["client"]].from = written + 1 /\ written < contents[hand["client"]].to
<1> USE DEF TypeInv
<1>1. /\ sending /\ sending' = FALSE /\ hand' = [hand EXCEPT !["client"] = None]
      /\ readlen' = readlen - Size(hand["client"])
      /\ UNCHANGED <<pump, b2a, kicked, channel, pc, len, isAddChar, kind, stream, lines, down, toDevice, intact, live>>
  BY DEF WritePush, Holds
<1>2. hand["client"] # None /\ pc = "client_write"
  BY <1>1 DEF Calling
<1>3. PICK p : p = hand["client"]
  OBVIOUS
<1>4. PICK to \in Nat : contents[p] = Data(stream, written + 1, to) /\ written < to /\ to - written <= readlen
  BY <1>2, <1>3 DEF Filled
<1>5. /\ contents[p].cmd = "WRTE" /\ contents[p].n = stream /\ contents[p].from = written + 1 /\ contents[p].to = to
      /\ Size(p) = to - written
  BY <1>4 DEF Data, Size, Values
<1>6. /\ QueuesOK /\ p \in Packets /\ \E h : Moved(p, h)
      /\ contents' = contents \/ contents' = [contents EXCEPT ![p] = Blank]
  BY <1>2, <1>3, WritePushMoves DEF WipedAt
<1>7. hand' \in [Threads -> Packets \cup {None}] /\ hand'["client"] = None /\ hand'["output"] = hand["output"]
  BY <1>1 DEF Values, Threads
<1>8. Values'
  <2>1. contents' \in [Packets -> Message]
    BY <1>6, Messages DEF Values
  <2>2. readlen' \in 0..len
    BY <1>1, <1>3, <1>4, <1>5 DEF Values
  <2>3. written' \in {written, to}
    BY <1>3, <1>5 DEF WritePush
  <2>4. QED
    BY <1>1, <1>6, <1>7, <2>1, <2>2, <2>3, ZenonT(60) DEF QueuesOK, channel, down, Values
<1>9. Calling' /\ Filled'
  BY <1>1, <1>7 DEF Calling, Filled, channel
<1>10. Apart'
  BY <1>6, MovedApart DEF QueuesOK
<1>11. QED
  BY <1>3, <1>4, <1>5, <1>6, <1>8, <1>9, <1>10

LEMMA ShellLineTypes ==
    ASSUME TypeInv, ShellLine
    PROVE  TypeInv'
<1> USE DEF TypeInv
<1>1. /\ lines < MaxLines /\ lines' = lines + 1 /\ pc = "idle"
      /\ UNCHANGED <<pump, sending, contents, b2a, a2b, hand, kicked, channel, pc, len, readlen,
                     isAddChar, kind, stream, down, up, live>>
  BY DEF ShellLine
<1>2. QueuesOK /\ \E p \in Packets : Moved(p, "lost")
  BY ShellLineMoves
<1>3. Values'
  <2>1. lines' \in 0..MaxLines
    BY <1>1, DataPathAssumption DEF Values
  <2>2. QED
    BY <1>1, <1>2, <2>1 DEF QueuesOK, channel, down, up, Values
<1>4. Calling' /\ Filled'
  BY <1>1 DEF Calling, Filled, channel
<1>5. Apart'
  BY <1>2, MovedApart DEF QueuesOK
<1>6. QED
  BY <1>3, <1>4, <1>5

LEMMA TypeSetTypes ==
    ASSUME TypeInv, NEW type \in Kinds, TypeSet(type)
    PROVE  TypeInv'
<1> USE DEF TypeInv
<1>1. /\ pc = "idle" /\ stream < MaxStreams /\ biptype' = type /\ kind' = type /\ stream' = stream + 1 /\ live' = ~kicked
      /\ fromDevice' = 0 /\ toCaller' = Nothing /\ written' = 0 /\ toDevice' = Nothing /\ intact' = TRUE
      /\ UNCHANGED <<pump, sending, b2a, a2b, hand, kicked, pc, len, readlen, isAddChar, lines>>
  BY DEF TypeSet
<1>2. /\ QueuesOK /\ ptrlist' = <<>> /\ last_apacket' = None
      /\ contents' = [p \in Packets |-> IF Cleared(p) THEN Blank ELSE contents[p]]
  BY TypeSetMoves
<1>3. Values'
  <2>1. contents' \in [Packets -> Message]
    BY <1>2, Messages DEF Values
  <2>2. stream' \in 0..MaxStreams
    BY <1>1, DataPathAssumption DEF Values
  <2>3. Nothing \in Spans /\ kicked \in BOOLEAN
    BY DEF Nothing, Spans, Values
  <2>4. QED
    BY <1>1, <1>2, <2>1, <2>2, <2>3 DEF QueuesOK, Values
<1>4. Calling' /\ Filled'
  BY <1>1, <1>2 DEF Calling, Filled
<1>5. Apart'
  BY TypeSetApart
<1>6. QED
  BY <1>3, <1>4, <1>5

LEMMA TypeStep == TypeInv /\ [Next]_vars => TypeInv'
<1>1. SUFFICES ASSUME TypeInv, [Next]_vars PROVE TypeInv'
  OBVIOUS
<1>2. CASE UNCHANGED vars
  <2>1. Values' /\ Calling' /\ Filled'
    BY <1>1, <1>2 DEF TypeInv, Values, Calling, Filled, vars, memory, channel, client, down, up
  <2>2. Apart'
    BY <1>1, <1>2, NotMoving DEF TypeInv, vars, memory, channel
  <2>3. QED
    BY <2>1, <2>2 DEF TypeInv
<1>3. CASE Output
  BY <1>1, <1>3, OutputTypes
<1>4. CASE User
  BY <1>1, <1>4, UserTypes
<1>5. CASE Input
  BY <1>1, <1>5, InputTypes
<1>6. ASSUME NEW type \in Kinds, TypeSet(type) PROVE TypeInv'
  BY <1>1, <1>6, TypeSetTypes
<1>7. CASE Kick \/ \E n \in Sizes : ReadBegin(n) \/ WriteBegin(n)
  BY <1>1, <1>7, CallsTypes
<1>8. CASE Read
  BY <1>1, <1>8, ReadDropTypes, ReadCopyTypes, ReadPopTypes, CallsTypes DEF Read
<1>9. CASE Shell
  BY <1>1, <1>9, ShellPopTypes, ShellAppendTypes, CallsTypes DEF Shell
<1>10. CASE Write
  BY <1>1, <1>10, WriteFillTypes, WriteRefusedTypes, WritePushTypes, CallsTypes DEF Write
<1>11. CASE ShellLine
  BY <1>1, <1>11, ShellLineTypes
<1>12. QED
  BY <1>1, <1>2, <1>3, <1>4, <1>5, <1>6, <1>7, <1>8, <1>9, <1>10, <1>11 DEF Next

-------------------------------------------------------------------------------
(* Packets that are lost.                                                  *)

LEMMA LostFinite == IsFiniteSet(Lost) /\ Cardinality(Lost) \in Nat
<1>1. Lost \in SUBSET Packets
  BY DEF Lost
<1>2. QED
  BY <1>1, PacketNames, FS_Subset, FS_CardinalityType

LEMMA SpentSize == Spent \in 0..3
  BY DEF Spent

LEMMA NobodyLost ==
    ASSUME NEW p \in Packets, NEW h \in Homes, Moved(p, h)
    PROVE  Lost' \subseteq Lost
  BY DEF Moved, Lost

LEMMA OneLost ==
    ASSUME NEW p \in Packets, NEW h, Moved(p, h)
    PROVE  Lost' \subseteq Lost \cup {p}
  BY DEF Moved, Lost

LEMMA StillLost ==
    ASSUME Still
    PROVE  Lost' \subseteq Lost
  BY DEF Still, Lost

\* Nothing is lost, and nobody who pushed may push again once the transport is kicked.
LEMMA LossesKept ==
    ASSUME Losses, Lost' \subseteq Lost, lines \in Nat, lines' = lines,
           kicked => /\ kicked' /\ (pump = "ended" => pump' = "ended")
                     /\ (Released => Released') /\ (sending' => sending)
    PROVE  Losses'
<1>1. PICK L : L = Lost
  OBVIOUS
<1>2. PICK M : M = Lost'
  OBVIOUS
<1>3. Cardinality(M) <= Cardinality(L) /\ Cardinality(M) \in Nat /\ Cardinality(L) \in Nat
  BY <1>1, <1>2, LostFinite, FS_Subset, FS_CardinalityType
<1>4. PICK s \in 0..3 : s = Spent
  BY SpentSize
<1>5. Spent' \in 0..3
  BY DEF Spent
<1>6. PICK t \in 0..3 : t = Spent'
  BY <1>5
<1>7. kicked => s <= t
  <2>1. SUFFICES ASSUME kicked PROVE Spent <= Spent'
    BY <1>4, <1>6
  <2>2. PICK a, b, c, d, e, f : /\ a = (pump = "ended") /\ b = Released /\ c = sending
                                /\ d = (pump' = "ended") /\ e = Released' /\ f = sending'
    OBVIOUS
  <2>3. (a => d) /\ (b => e) /\ (f => c)
    BY <2>1, <2>2
  <2>4. (IF a THEN 1 ELSE 0) + (IF b THEN 1 ELSE 0) + (IF c THEN 0 ELSE 1)
        <= (IF d THEN 1 ELSE 0) + (IF e THEN 1 ELSE 0) + (IF f THEN 0 ELSE 1)
    BY <2>3
  <2>5. QED
    BY <2>2, <2>4 DEF Spent
<1>8. Cardinality(L) <= lines + (IF kicked THEN s ELSE 0)
  BY <1>1, <1>4 DEF Losses
<1>9. Cardinality(M) <= lines' + (IF kicked' THEN t ELSE 0)
  BY <1>3, <1>7, <1>8
<1>10. QED
  BY <1>2, <1>6, <1>9 DEF Losses

\* A packet is lost, by a thread that pushes no more.
LEMMA LossesGrow ==
    ASSUME Losses, NEW p, Lost' \subseteq Lost \cup {p}, lines \in Nat, lines' = lines, kicked, kicked',
           \/ /\ pump # "ended" /\ pump' = "ended"
              /\ (Released => Released') /\ (sending' => sending)
           \/ /\ ~Released /\ Released'
              /\ (pump = "ended" => pump' = "ended") /\ (sending' => sending)
           \/ /\ sending /\ ~sending'
              /\ (pump = "ended" => pump' = "ended") /\ (Released => Released')
    PROVE  Losses'
<1>1. PICK L : L = Lost
  OBVIOUS
<1>2. PICK M : M = Lost'
  OBVIOUS
<1>3. IsFiniteSet(L \cup {p}) /\ Cardinality(L \cup {p}) <= Cardinality(L) + 1 /\ Cardinality(L) \in Nat
      /\ Cardinality(L \cup {p}) \in Nat
  <2>1. IsFiniteSet(L) /\ Cardinality(L) \in Nat
    BY <1>1, LostFinite
  <2>2. IsFiniteSet(L \cup {p}) /\ Cardinality(L \cup {p}) = IF p \in L THEN Cardinality(L) ELSE Cardinality(L) + 1
    BY <2>1, FS_AddElement
  <2>3. QED
    BY <2>1, <2>2
<1>4. Cardinality(M) <= Cardinality(L) + 1 /\ Cardinality(M) \in Nat
  BY <1>1, <1>2, <1>3, FS_Subset, FS_CardinalityType
<1>5. PICK s \in 0..3 : s = Spent
  BY SpentSize
<1>6. Spent' \in 0..3
  BY DEF Spent
<1>7. PICK t \in 0..3 : t = Spent'
  BY <1>6
<1>8. s + 1 <= t
  <2>1. PICK a, b, c, d, e, f : /\ a = (pump = "ended") /\ b = Released /\ c = sending
                                /\ d = (pump' = "ended") /\ e = Released' /\ f = sending'
    OBVIOUS
  <2>2. \/ ~a /\ d /\ (b => e) /\ (f => c)
        \/ (a => d) /\ ~b /\ e /\ (f => c)
        \/ (a => d) /\ (b => e) /\ c /\ ~f
    BY <2>1
  <2>3. (IF a THEN 1 ELSE 0) + (IF b THEN 1 ELSE 0) + (IF c THEN 0 ELSE 1) + 1
        <= (IF d THEN 1 ELSE 0) + (IF e THEN 1 ELSE 0) + (IF f THEN 0 ELSE 1)
    BY <2>2
  <2>4. QED
    BY <1>5, <1>7, <2>1, <2>3 DEF Spent
<1>9. Cardinality(L) <= lines + s
  BY <1>1, <1>5 DEF Losses
<1>10. Cardinality(M) <= lines' + t
  BY <1>3, <1>4, <1>8, <1>9
<1>11. QED
  BY <1>2, <1>7, <1>10 DEF Losses

LEMMA OutputLosses ==
    ASSUME TypeInv, Losses, Output
    PROVE  Losses'
<1> USE DEF TypeInv
<1>0. hand \in [Threads -> Packets \cup {None}] /\ {"output", "user", "client", "input"} = Threads /\ lines \in Nat
      /\ (pump = "ended" => hand["output"] = None) /\ Threads \cup Memory \cup {"b2a"} \subseteq Homes
  BY HomeNames DEF Values, Threads, Calling, Memory
<1>1. CASE OutputGet
  <2>1. PICK p \in Packets : Moved(p, "output") /\ hand' = [hand EXCEPT !["output"] = p]
    BY <1>1, OutputGetMoves
  <2>2. Lost' \subseteq Lost /\ hand'["user"] = hand["user"]
    BY <1>0, <2>1, NobodyLost
  <2>3. QED
    BY <1>0, <1>1, <2>2, LossesKept DEF Released, OutputGet, client
<1>2. ASSUME NEW m, UsbRead(m) PROVE Losses'
  <2>1. Lost' \subseteq Lost
    BY <1>2, NotMoving, StillLost DEF UsbRead, channel
  <2>2. QED
    BY <1>0, <1>2, <2>1, LossesKept DEF Released, UsbRead, client
<1>3. CASE UsbReadFails
  <2>1. /\ hand["output"] # None /\ PutBack(hand["output"]) /\ Holds("output", None) /\ pump' = "off" /\ hand["output"] \in Packets
        /\ UNCHANGED <<b2a, a2b, ptrlist, last_apacket, client, sending, kicked, reading>>
    BY <1>0, <1>3 DEF UsbReadFails, UsbReading, channel
  <2>2. \E h \in Memory : Moved(hand["output"], h)
    BY <1>0, <2>1, BackMoves
  <2>3. Lost' \subseteq Lost /\ hand'["user"] = hand["user"]
    BY <1>0, <2>1, <2>2, NobodyLost DEF Holds
  <2>4. QED
    BY <1>0, <2>1, <2>3, LossesKept DEF Released, client
<1>4. CASE OutputWrite
  <2>1. /\ hand["output"] # None /\ hand' = [hand EXCEPT !["output"] = None] /\ UNCHANGED <<client, sending, kicked, reading>>
        /\ pump' = (IF kicked \/ pump = "off" THEN "ended" ELSE pump) /\ pump # "ended"
    BY <1>0, <1>4 DEF OutputWrite, Push, Holds
  <2>2. hand'["user"] = hand["user"] /\ lines' = lines
    BY <1>0, <2>1 DEF client
  <2>3. CASE \E h \in Homes : Moved(hand["output"], h)
    <3>1. Lost' \subseteq Lost
      BY <1>4, <2>3, NobodyLost, OutputWriteMoves
    <3>2. QED
      BY <1>0, <2>1, <2>2, <3>1, LossesKept DEF Released
  <2>4. CASE kicked /\ Moved(hand["output"], "lost")
    <3>1. Lost' \subseteq Lost \cup {hand["output"]}
      BY <1>4, <2>4, OneLost, OutputWriteMoves
    <3>2. PICK p : p = hand["output"]
      OBVIOUS
    <3>3. QED
      BY <1>0, <2>1, <2>2, <2>4, <3>1, <3>2, LossesGrow DEF Released
  <2>5. QED
    BY <1>0, <1>4, <2>3, <2>4, OutputWriteMoves
<1>5. QED
  BY <1>1, <1>2, <1>3, <1>4 DEF Output, DeviceSend, DeviceClose

LEMMA UserLosses ==
    ASSUME TypeInv, Losses, Reads, User
    PROVE  Losses'
<1> USE DEF TypeInv
<1>0. hand \in [Threads -> Packets \cup {None}] /\ {"output", "user", "client", "input"} = Threads /\ lines \in Nat
      /\ Threads \cup Memory \cup {"a2b", "ptrlist"} \subseteq Homes
  BY HomeNames DEF Values, Threads, Memory
<1>1. CASE UserRead
  <2>1. Lost' \subseteq Lost
    BY <1>0, <1>1, UserReadMoves, NobodyLost
  <2>2. QED
    BY <1>0, <1>1, <2>1, LossesKept DEF Released, UserRead, ReadPacket, client
<1>2. CASE LocalClientEnqueue
  <2>1. Lost' \subseteq Lost
    BY <1>0, <1>2, LocalClientEnqueueMoves, NobodyLost
  <2>2. hand'["user"] = None
    BY <1>0, <1>2 DEF LocalClientEnqueue, Holds
  <2>3. QED
    BY <1>0, <1>2, <2>1, <2>2, LossesKept DEF Released, LocalClientEnqueue, client
<1>3. CASE HandleClse
  <2>1. /\ hand["user"] # None /\ PutBack(hand["user"]) /\ Holds("user", None) /\ hand["user"] \in Packets
        /\ UNCHANGED <<b2a, a2b, ptrlist, last_apacket, client, pump, sending, kicked, reading>>
    BY <1>0, <1>3 DEF HandleClse
  <2>2. \E h \in Memory : Moved(hand["user"], h)
    BY <1>0, <2>1, BackMoves
  <2>3. Lost' \subseteq Lost /\ hand'["user"] = None
    BY <1>0, <2>1, <2>2, NobodyLost DEF Holds
  <2>4. QED
    BY <1>0, <2>1, <2>3, LossesKept DEF Released, client
<1>4. CASE HandleSync
  <2>1. /\ hand["user"] # None /\ hand' = [hand EXCEPT !["user"] = None] /\ UNCHANGED <<client, pump, sending, kicked, reading>>
    BY <1>0, <1>4 DEF HandleSync, Push, Holds
  <2>2. hand'["user"] = None /\ lines' = lines
    BY <1>0, <2>1 DEF client
  <2>3. CASE \E h \in Homes : Moved(hand["user"], h)
    <3>1. Lost' \subseteq Lost
      BY <1>4, <2>3, NobodyLost, HandleSyncMoves
    <3>2. QED
      BY <1>0, <2>1, <2>2, <3>1, LossesKept DEF Released
  <2>4. CASE kicked /\ Moved(hand["user"], "lost")
    <3>1. Lost' \subseteq Lost \cup {hand["user"]}
      BY <1>4, <2>4, OneLost, HandleSyncMoves
    <3>2. PICK p : p = hand["user"]
      OBVIOUS
    <3>3. ~Released /\ Released'
      BY <2>1, <2>2 DEF Released, Reads
    <3>4. QED
      BY <1>0, <2>1, <2>2, <2>4, <3>1, <3>2, <3>3, LossesGrow
  <2>5. QED
    BY <1>0, <1>4, <2>3, <2>4, HandleSyncMoves
<1>5. QED
  BY <1>1, <1>2, <1>3, <1>4 DEF User

LEMMA ClientLosses ==
    ASSUME TypeInv, Losses, Read \/ Shell \/ Write \/ Kick \/ (\E n \in Sizes : ReadBegin(n) \/ WriteBegin(n))
    PROVE  Losses'
<1> USE DEF TypeInv
<1>0. hand \in [Threads -> Packets \cup {None}] /\ {"output", "user", "client", "input"} = Threads /\ lines \in Nat
      /\ Threads \cup Memory \cup {"a2b", "last"} \subseteq Homes
  BY HomeNames DEF Values, Threads, Memory
<1>1. CASE Still /\ UNCHANGED <<hand, lines, pump>> /\ (kicked => kicked' /\ (sending' => sending) /\ reading' = reading)
  <2>1. Lost' \subseteq Lost /\ hand'["user"] = hand["user"]
    BY <1>1, StillLost
  <2>2. QED
    BY <1>0, <1>1, <2>1, LossesKept DEF Released
<1>2. CASE \/ Kick \/ (\E n \in Sizes : ReadBegin(n) \/ WriteBegin(n))
           \/ ReadReturn \/ ShellRecvBegin \/ ShellEmpty \/ ShellReturn \/ WriteReturn
  <2>1. Still
    BY <1>2, CallsTypes
  <2>2. UNCHANGED <<hand, lines, pump, sending>> /\ (kicked => kicked' /\ reading' = reading)
    BY <1>2 DEF Kick, KickTransport, ReadBegin, WriteBegin, ReadReturn, ShellRecvBegin, ShellEmpty, ShellReturn, WriteReturn, Call, Return, client
  <2>3. QED
    BY <1>1, <2>1, <2>2
<1>3. CASE WriteTest /\ ~Refused
  <2>1. Still
    BY <1>3, CallsTypes
  <2>2. UNCHANGED <<hand, lines, pump>> /\ ~kicked
    BY <1>3 DEF WriteTest, Refused, client
  <2>3. QED
    BY <1>1, <2>1, <2>2
<1>4. CASE ShellPop /\ ptrlist = <<>>
  <2>1. Still
    BY <1>4, CallsTypes
  <2>2. UNCHANGED <<hand, lines, pump, sending, kicked, reading>>
    BY <1>4 DEF ShellPop
  <2>3. QED
    BY <1>1, <2>1, <2>2
<1>5. CASE ReadCopy
  <2>1. Still
    BY <1>5, ReadCopyTypes
  <2>2. UNCHANGED <<hand, lines, pump, sending, kicked, reading>>
    BY <1>5 DEF ReadCopy
  <2>3. QED
    BY <1>1, <2>1, <2>2
<1>6. CASE ReadDrop
  <2>1. last_apacket \in Packets
    BY <1>6 DEF ReadDrop, Values
  <2>2. Lost' \subseteq Lost
    BY <1>0, <1>6, <2>1, ReadDropTypes, NobodyLost
  <2>3. QED
    BY <1>0, <1>6, <2>2, LossesKept DEF Released, ReadDrop, client
<1>7. CASE ReadPop
  <2>1. Lost' \subseteq Lost
    BY <1>0, <1>7, ReadPopMoves, NobodyLost
  <2>2. QED
    BY <1>0, <1>7, <2>1, LossesKept DEF Released, ReadPop, client
<1>8. CASE ShellPop /\ ptrlist # <<>>
  <2>1. Lost' \subseteq Lost
    BY <1>0, <1>8, ShellPopMoves, NobodyLost
  <2>2. hand'["user"] = hand["user"]
    BY <1>0, <1>8 DEF ShellPop, Holds
  <2>3. QED
    BY <1>0, <1>8, <2>1, <2>2, LossesKept DEF Released, ShellPop
<1>9. CASE ShellAppend \/ (WriteTest /\ Refused)
  <2>1. hand["client"] \in Packets /\ hand'["user"] = hand["user"] /\ UNCHANGED <<pump, sending, kicked, reading, lines>>
    BY <1>0, <1>9 DEF ShellAppend, WriteTest, Holds, Return, Call
  <2>2. Lost' \subseteq Lost
    BY <1>0, <1>9, <2>1, ShellAppendTypes, WriteRefusedTypes, NobodyLost
  <2>3. QED
    BY <1>0, <2>1, <2>2, LossesKept DEF Released
<1>10. CASE WriteFill
  <2>1. Lost' \subseteq Lost
    BY <1>0, <1>10, WriteFillMoves, NobodyLost
  <2>2. hand'["user"] = hand["user"]
    BY <1>0, <1>10, WriteFillMoves
  <2>3. QED
    BY <1>0, <1>10, <2>1, <2>2, LossesKept DEF Released, WriteFill, client
<1>11. CASE WritePush
  <2>1. sending /\ sending' = FALSE /\ hand["client"] # None /\ hand'["user"] = hand["user"] /\ UNCHANGED <<pump, kicked, reading, lines>>
    BY <1>0, <1>11 DEF WritePush, Holds, Calling
  <2>2. CASE \E h \in Homes : Moved(hand["client"], h)
    <3>1. Lost' \subseteq Lost
      BY <1>11, <2>1, <2>2, NobodyLost, WritePushMoves
    <3>2. QED
      BY <1>0, <2>1, <3>1, LossesKept DEF Released
  <2>3. CASE kicked /\ Moved(hand["client"], "lost")
    <3>1. Lost' \subseteq Lost \cup {hand["client"]}
      BY <1>11, <2>1, <2>3, OneLost, WritePushMoves
    <3>2. PICK p : p = hand["client"]
      OBVIOUS
    <3>3. QED
      BY <1>0, <2>1, <2>3, <3>1, <3>2, LossesGrow DEF Released
  <2>4. QED
    BY <1>0, <1>11, <2>1, <2>2, <2>3, WritePushMoves
<1>12. QED
  BY <1>2, <1>3, <1>4, <1>5, <1>6, <1>7, <1>8, <1>9, <1>10, <1>11 DEF Read, Shell, Write

LEMMA OtherLosses ==
    ASSUME TypeInv, Losses, Input \/ ShellLine \/ \E type \in Kinds : TypeSet(type)
    PROVE  Losses'
<1> USE DEF TypeInv
<1>0. hand \in [Threads -> Packets \cup {None}] /\ {"output", "user", "client", "input"} = Threads /\ lines \in Nat
      /\ Threads \cup Memory \subseteq Homes
  BY HomeNames DEF Values, Threads, Memory
<1>1. CASE InputRead
  <2>1. Lost' \subseteq Lost
    BY <1>0, <1>1, InputReadMoves, NobodyLost
  <2>2. hand'["user"] = hand["user"]
    BY <1>0, <1>1 DEF InputRead, ReadPacket, Holds
  <2>3. QED
    BY <1>0, <1>1, <2>1, <2>2, LossesKept DEF Released, InputRead, ReadPacket, client
<1>2. CASE InputOffline \/ InputWrite
  <2>1. /\ hand["input"] # None /\ PutBack(hand["input"]) /\ Holds("input", None) /\ hand["input"] \in Packets
        /\ UNCHANGED <<b2a, a2b, ptrlist, last_apacket, client, pump, sending>> /\ (kicked => kicked' /\ reading' = reading)
    BY <1>0, <1>2 DEF InputOffline, KickTransport, InputWrite, channel
  <2>2. \E h \in Memory : Moved(hand["input"], h)
    BY <1>0, <2>1, BackMoves
  <2>3. Lost' \subseteq Lost /\ hand'["user"] = hand["user"]
    BY <1>0, <2>1, <2>2, NobodyLost DEF Holds
  <2>4. QED
    BY <1>0, <2>1, <2>3, LossesKept DEF Released, client
<1>3. CASE ShellLine
  <2>1. PICK p \in Packets : Moved(p, "lost")
    BY <1>3, ShellLineMoves
  <2>2. Lost' \subseteq Lost \cup {p}
    BY <2>1, OneLost
  <2>3. lines' = lines + 1 /\ UNCHANGED <<kicked, pump, hand, sending>> /\ ~kicked
    BY <1>3 DEF ShellLine
  <2>4. PICK L : L = Lost
    OBVIOUS
  <2>5. PICK M : M = Lost'
    OBVIOUS
  <2>6. IsFiniteSet(L) /\ Cardinality(L) \in Nat
    BY <2>4, LostFinite
  <2>7. IsFiniteSet(L \cup {p}) /\ Cardinality(L \cup {p}) = IF p \in L THEN Cardinality(L) ELSE Cardinality(L) + 1
    BY <2>6, FS_AddElement
  <2>8. Cardinality(M) <= Cardinality(L \cup {p}) /\ Cardinality(M) \in Nat
    BY <2>2, <2>4, <2>5, <2>7, FS_Subset, FS_CardinalityType
  <2>9. Cardinality(L) <= lines
    BY <1>0, <2>3, <2>4 DEF Losses
  <2>10. Cardinality(M) <= lines + 1
    BY <1>0, <2>6, <2>7, <2>8, <2>9
  <2>11. QED
    BY <1>0, <2>3, <2>5, <2>10 DEF Losses
<1>4. ASSUME NEW type \in Kinds, TypeSet(type) PROVE Losses'
  <2>1. /\ \A q \in Packets : ~Cleared(q) => \A k \in Homes : Lies(q, k)' <=> Lies(q, k)
        /\ \A q \in Packets : Cleared(q) => \E h \in Memory : \A k \in Homes : Lies(q, k)' <=> k = h
    BY <1>4, TypeSetMoves
  <2>2. Lost' \subseteq Lost
    BY <1>0, <2>1 DEF Lost
  <2>3. QED
    BY <1>0, <1>4, <2>2, LossesKept DEF Released, TypeSet
<1>5. QED
  BY <1>1, <1>2, <1>3, <1>4 DEF Input

LEMMA LossStep == TypeInv /\ Losses /\ Reads /\ [Next]_vars => Losses'
<1>1. SUFFICES ASSUME TypeInv, Losses, Reads, [Next]_vars PROVE Losses'
  OBVIOUS
<1>2. CASE UNCHANGED vars
  <2>1. Lost' \subseteq Lost
    BY <1>2, NotMoving, StillLost DEF vars, memory, channel
  <2>2. QED
    BY <1>1, <1>2, <2>1, LossesKept DEF Released, vars, client, TypeInv, Values
<1>3. CASE Output
  BY <1>1, <1>3, OutputLosses
<1>4. CASE User
  BY <1>1, <1>4, UserLosses
<1>5. CASE Read \/ Shell \/ Write \/ Kick \/ (\E n \in Sizes : ReadBegin(n) \/ WriteBegin(n))
  BY <1>1, <1>5, ClientLosses
<1>6. CASE Input \/ ShellLine \/ \E type \in Kinds : TypeSet(type)
  BY <1>1, <1>6, OtherLosses
<1>7. QED
  BY <1>1, <1>2, <1>3, <1>4, <1>5, <1>6 DEF Next

LEMMA ReadsStep == TypeInv /\ Reads /\ [Next]_vars => Reads'
<1>1. SUFFICES ASSUME TypeInv, Reads, [Next]_vars PROVE Reads'
  OBVIOUS
<1>0. hand \in [Threads -> Packets \cup {None}] /\ {"output", "user", "client", "input"} = Threads
      /\ {"user", "input"} \subseteq Threads
  BY <1>1 DEF TypeInv, Values, Threads
<1> DEFINE Frees(t) == hand'[t] = hand[t] \/ hand'[t] = None
<1>2. CASE UNCHANGED reading /\ Frees("user") /\ Frees("input")
  BY <1>1, <1>2 DEF Reads
<1>3. ASSUME UNCHANGED reading, NEW t \in {"output", "client"}, NEW p, UNCHANGED hand \/ Holds(t, p) PROVE Reads'
  BY <1>0, <1>2, <1>3 DEF Holds
<1>4. ASSUME UNCHANGED reading, NEW t \in {"user", "input"}, Holds(t, None) PROVE Reads'
  BY <1>0, <1>2, <1>4 DEF Holds
<1>5. ASSUME NEW t \in {"user", "input"}, NEW p, ReadPacket(t, p) PROVE Reads'
  BY <1>0, <1>1, <1>5 DEF Reads, ReadPacket, Holds
<1>6. CASE UNCHANGED vars
  BY <1>1, <1>6 DEF Reads, vars
<1>7. CASE Output
  <2>1. UNCHANGED reading /\ (UNCHANGED hand \/ \E p : Holds("output", p))
    BY <1>7 DEF Output, OutputGet, DeviceSend, DeviceClose, UsbRead, UsbReadFails, OutputWrite, Push
  <2>2. QED
    BY <1>3, <2>1
<1>8. CASE User
  BY <1>4, <1>5, <1>8 DEF User, UserRead, LocalClientEnqueue, HandleClse, HandleSync, Push
<1>9. CASE Input
  <2>1. CASE InputOffline
    BY <1>0, <1>1, <2>1 DEF InputOffline, KickTransport, Holds, Reads
  <2>2. QED
    BY <1>4, <1>5, <1>9, <2>1 DEF Input, InputRead, InputWrite
<1>10. CASE Kick
  BY <1>0, <1>1, <1>10 DEF Kick, KickTransport, Reads
<1>11. CASE Read \/ Shell \/ Write \/ ShellLine
  <2>1. UNCHANGED reading /\ (UNCHANGED hand \/ \E p : Holds("client", p))
    <3>1. CASE Read
      BY <3>1 DEF Read, ReadDrop, ReadCopy, ReadPop, ReadReturn
    <3>2. CASE Shell
      BY <3>2 DEF Shell, ShellRecvBegin, ShellPop, ShellAppend, ShellEmpty, ShellReturn
    <3>3. CASE Write
      BY <3>3 DEF Write, WriteFill, WriteTest, WritePush, WriteReturn
    <3>4. QED
      BY <1>11, <3>1, <3>2, <3>3 DEF ShellLine
  <2>2. QED
    BY <1>3, <2>1
<1>12. CASE (\E type \in Kinds : TypeSet(type)) \/ \E n \in Sizes : ReadBegin(n) \/ WriteBegin(n)
  BY <1>1, <1>2, <1>12 DEF TypeSet, ReadBegin, WriteBegin
<1>13. QED
  BY <1>1, <1>6, <1>7, <1>8, <1>9, <1>10, <1>11, <1>12 DEF Next

LEMMA StartInv == Init => TypeInv /\ Losses /\ Reads
<1>1. SUFFICES ASSUME Init PROVE TypeInv /\ Losses /\ Reads
  OBVIOUS
<1>2. /\ <<>> \in Seq(Packets) /\ Range(<<>>) = {} /\ Distinct(<<>>) /\ None \notin Packets
      /\ Nothing \in Spans /\ 0 \in 0..MaxStreams /\ 0 \in 0..MaxLines /\ 0 \in 0..0
  BY PacketNames, DataPathAssumption DEF Distinct, Range, Nothing, Spans
<1>3. Values
  BY <1>1, <1>2, Messages DEF Init, Values
<1>4. Calling /\ Filled
  BY <1>1 DEF Init, Calling, Filled, Threads
<1>5. \A p \in Packets, k \in Homes : Lies(p, k) <=> k = "heap"
  BY <1>1, <1>2, PlaceNames, HomeNames DEF Init, Threads
<1>6. Apart
  BY <1>1, <1>2, <1>5 DEF Init, Apart
<1>7. Lost = {}
  BY <1>5, HomeNames DEF Lost
<1>8. Losses
  BY <1>1, <1>7, FS_EmptySet DEF Losses, Init
<1>9. QED
  BY <1>1, <1>3, <1>4, <1>6, <1>8 DEF TypeInv, Reads, Init

-------------------------------------------------------------------------------
(* Places are counted.                                                     *)

LEMMA OneIndex ==
    ASSUME NEW q \in Seq(Packets), Distinct(q), NEW p
    PROVE  Cardinality({i \in DOMAIN q : q[i] = p}) = IF p \in Range(q) THEN 1 ELSE 0
<1>1. CASE p \in Range(q)
  <2>1. PICK i \in DOMAIN q : q[i] = p
    BY <1>1 DEF Range
  <2>2. {j \in DOMAIN q : q[j] = p} = {i}
    BY <2>1 DEF Distinct
  <2>3. QED
    BY <1>1, <2>2, FS_Singleton
<1>2. CASE p \notin Range(q)
  <2>1. {j \in DOMAIN q : q[j] = p} = {}
    BY <1>2 DEF Range
  <2>2. QED
    BY <1>2, <2>1, FS_EmptySet
<1>3. QED
  BY <1>1, <1>2

LEMMA PlacesCounted ==
    ASSUME Values, Apart, NEW p \in Packets
    PROVE  Places(p) <= 1 /\ (Places(p) = 0 <=> p \in Lost)
<1>1. pool \in Seq(Packets) /\ b2a \in Seq(Packets) /\ a2b \in Seq(Packets) /\ ptrlist \in Seq(Packets)
      /\ Distinct(pool) /\ Distinct(b2a) /\ Distinct(a2b) /\ Distinct(ptrlist)
  BY DEF Values, Apart
<1>2. PICK b, c, d, e : b = (p \in Range(pool)) /\ c = (p \in Range(b2a)) /\ d = (p \in Range(a2b)) /\ e = (p \in Range(ptrlist))
  OBVIOUS
<1>3. PICK f, g, h : f = (p \in heap) /\ g = (p = last_apacket) /\ h = (\E t \in Threads : hand[t] = p)
  OBVIOUS
<1>4. /\ Cardinality({i \in DOMAIN pool : pool[i] = p}) = (IF b THEN 1 ELSE 0)
      /\ Cardinality({i \in DOMAIN b2a : b2a[i] = p}) = (IF c THEN 1 ELSE 0)
      /\ Cardinality({i \in DOMAIN a2b : a2b[i] = p}) = (IF d THEN 1 ELSE 0)
      /\ Cardinality({i \in DOMAIN ptrlist : ptrlist[i] = p}) = (IF e THEN 1 ELSE 0)
  BY <1>1, <1>2, OneIndex
<1>5. Cardinality({q \in {heap} : p \in q}) = IF f THEN 1 ELSE 0
  <2>1. {q \in {heap} : p \in q} = IF f THEN {heap} ELSE {}
    BY <1>3
  <2>2. QED
    BY <2>1, FS_Singleton, FS_EmptySet
<1>6. Cardinality({q \in {last_apacket} : p = q}) = IF g THEN 1 ELSE 0
  <2>1. {q \in {last_apacket} : p = q} = IF g THEN {last_apacket} ELSE {}
    BY <1>3
  <2>2. QED
    BY <2>1, FS_Singleton, FS_EmptySet
<1>7. Cardinality({t \in Threads : hand[t] = p}) = IF h THEN 1 ELSE 0
  <2>1. CASE h
    <3>1. PICK t \in Threads : hand[t] = p
      BY <1>3, <2>1
    <3>2. \A u \in Threads : hand[u] = p => u = t
      BY <3>1, PlaceNames, HomeNames DEF Apart
    <3>3. {u \in Threads : hand[u] = p} = {t}
      BY <3>1, <3>2
    <3>4. QED
      BY <2>1, <3>3, FS_Singleton
  <2>2. CASE ~h
    <3>1. {u \in Threads : hand[u] = p} = {}
      BY <1>3, <2>2
    <3>2. QED
      BY <2>2, <3>1, FS_EmptySet
  <2>3. QED
    BY <2>1, <2>2
<1>8. Places(p) = (IF h THEN 1 ELSE 0) + (IF f THEN 1 ELSE 0) + (IF b THEN 1 ELSE 0) + (IF c THEN 1 ELSE 0)
                  + (IF d THEN 1 ELSE 0) + (IF e THEN 1 ELSE 0) + (IF g THEN 1 ELSE 0)
  BY <1>4, <1>5, <1>6, <1>7 DEF Places
<1>9. /\ f <=> Lies(p, "heap")
      /\ b <=> Lies(p, "pool")
      /\ c <=> Lies(p, "b2a")
      /\ d <=> Lies(p, "a2b")
      /\ e <=> Lies(p, "ptrlist")
      /\ g <=> Lies(p, "last")
      /\ h <=> \E t \in Threads : Lies(p, t)
  BY <1>2, <1>3, PlaceNames
<1>10. /\ h => ~f /\ ~b /\ ~c /\ ~d /\ ~e /\ ~g
       /\ f => ~b /\ ~c /\ ~d /\ ~e /\ ~g
       /\ b => ~c /\ ~d /\ ~e /\ ~g
       /\ c => ~d /\ ~e /\ ~g
       /\ d => ~e /\ ~g
       /\ e => ~g
  BY <1>9, HomeNames DEF Apart, Threads
<1>11. p \in Lost <=> ~b /\ ~c /\ ~d /\ ~e /\ ~f /\ ~g /\ ~h
  BY <1>9, HomeNames DEF Lost, Threads
<1>12. Places(p) <= 1 /\ (Places(p) = 0 <=> ~b /\ ~c /\ ~d /\ ~e /\ ~f /\ ~g /\ ~h)
  BY <1>8, <1>10
<1>13. QED
  BY <1>11, <1>12

LEMMA DataPathInv == Spec => [](TypeInv /\ Losses /\ Reads)
<1>1. TypeInv /\ Losses /\ Reads /\ [Next]_vars => (TypeInv /\ Losses /\ Reads)'
  BY TypeStep, LossStep, ReadsStep
<1>2. QED
  BY StartInv, <1>1, PTL DEF Spec

\* A pointer p names a packet only where its thread is at work on one, and every part of
\* the pool, the pipes and the channel has its type (Catransport.cpp 652-802).
THEOREM DataPathTypeOK == Spec => []TypeOK
<1>1. TypeInv /\ Reads => TypeOK
  BY DEF TypeInv, Values, Calling, Reads, TypeOK
<1>2. QED
  BY DataPathInv, <1>1, PTL

\* A packet is in one place, whatever get_apacket, put_apacket and what lies between them
\* do: nobody who has its pointer finds it in the pool or freed (Catransport.cpp 128-150).
THEOREM DataPathOneHolder == Spec => []OneHolder
<1>1. TypeInv => OneHolder
  BY PlacesCounted DEF TypeInv, OneHolder
<1>2. QED
  BY DataPathInv, <1>1, PTL

\* No packet is lost but by shell_send's late test, and one by each thread that pushes when
\* the transport is kicked (Catransport.cpp 638-641, 1245-1257).
THEOREM DataPathPacketsComeBack == Spec => []PacketsComeBack
<1>1. ASSUME TypeInv, Losses PROVE PacketsComeBack
  <2>1. {p \in Packets : Places(p) = 0} = Lost
    <3>1. Lost \subseteq Packets
      BY DEF Lost
    <3>2. QED
      BY <1>1, <3>1, PlacesCounted DEF TypeInv
  <2>2. PICK c \in Nat, s \in 0..3 : c = Cardinality(Lost) /\ s = Spent
    BY LostFinite, SpentSize
  <2>3. c <= lines + (IF kicked THEN s ELSE 0) /\ lines \in Nat
    BY <1>1, <2>2 DEF Losses, TypeInv, Values
  <2>4. c <= lines + (IF kicked THEN 3 ELSE 0)
    BY <2>3
  <2>5. QED
    BY <2>1, <2>2, <2>4 DEF PacketsComeBack
<1>2. QED
  BY DataPathInv, <1>1, PTL

-------------------------------------------------------------------------------
(* Order in a queue.                                                       *)

LEMMA OrderTaken ==
    ASSUME NEW q \in Seq(Packets), q # <<>>, NEW c, NEW S, Ordered(q, c, S)
    PROVE  /\ Ordered(Tail(q), c, S)
           /\ \A x \in Range(Tail(q)) : x \in S /\ Head(q) \in S => c[Head(q)].to < c[x].from
<1>1. PICK n \in Nat : n = Len(q) /\ DOMAIN q = 1..n /\ n > 0
  OBVIOUS
<1>2. /\ Head(q) = q[1] /\ DOMAIN Tail(q) = 1..(n - 1)
      /\ \A i \in 1..(n - 1) : Tail(q)[i] = q[i + 1] /\ i + 1 \in 1..n /\ i \in Nat /\ 1 < i + 1 /\ 1 \in 1..n
  BY <1>1
<1>3. \A i, j \in 1..(n - 1) : i < j => i + 1 < j + 1
  OBVIOUS
<1>4. Ordered(Tail(q), c, S)
  BY <1>1, <1>2, <1>3 DEF Ordered
<1>5. \A i \in 1..(n - 1) : q[i + 1] \in S /\ q[1] \in S => c[q[1]].to < c[q[i + 1]].from
  BY <1>1, <1>2 DEF Ordered
<1>6. QED
  BY <1>2, <1>4, <1>5 DEF Range

LEMMA OrderAppended ==
    ASSUME NEW q \in Seq(Packets), NEW p \in Packets, NEW c, NEW S, Ordered(q, c, S),
           \A x \in Range(q) : x \in S /\ p \in S => c[x].to < c[p].from
    PROVE  Ordered(Append(q, p), c, S)
<1>1. PICK n \in Nat : n = Len(q) /\ DOMAIN q = 1..n
  OBVIOUS
<1>2. /\ DOMAIN Append(q, p) = 1..(n + 1) /\ Append(q, p)[n + 1] = p /\ \A i \in 1..n : Append(q, p)[i] = q[i]
      /\ \A i \in 1..(n + 1) : i \in 1..n \/ i = n + 1
      /\ \A i, j \in 1..(n + 1) : i < j => i \in 1..n
  BY <1>1
<1>3. \A i \in 1..n : q[i] \in S /\ p \in S => c[q[i]].to < c[p].from
  BY <1>1 DEF Range
<1>4. QED
  BY <1>1, <1>2, <1>3 DEF Ordered

LEMMA OrderKept ==
    ASSUME NEW q, NEW c, NEW d, NEW S, NEW T, Ordered(q, c, S), \A x \in Range(q) : x \in T => x \in S /\ d[x] = c[x]
    PROVE  Ordered(q, d, T)
<1>1. \A i \in DOMAIN q : q[i] \in T => q[i] \in S /\ d[q[i]] = c[q[i]]
  BY DEF Range
<1>2. QED
  BY <1>1 DEF Ordered

LEMMA EndTaken ==
    ASSUME NEW q \in Seq(Packets), q # <<>>, NEW S, NEW T, Ends(q, S, T)
    PROVE  /\ Ends(Tail(q), S, T)
           /\ \A x \in Range(Tail(q)) : Head(q) \in S => x \notin T
<1>1. PICK n \in Nat : n = Len(q) /\ DOMAIN q = 1..n /\ n > 0
  OBVIOUS
<1>2. /\ Head(q) = q[1] /\ DOMAIN Tail(q) = 1..(n - 1)
      /\ \A i \in 1..(n - 1) : Tail(q)[i] = q[i + 1] /\ i + 1 \in 1..n /\ i \in Nat /\ 1 < i + 1 /\ 1 \in 1..n
  BY <1>1
<1>3. \A i, j \in 1..(n - 1) : i < j => i + 1 < j + 1
  OBVIOUS
<1>4. Ends(Tail(q), S, T)
  BY <1>1, <1>2, <1>3 DEF Ends
<1>5. \A i \in 1..(n - 1) : q[1] \in S => q[i + 1] \notin T
  BY <1>1, <1>2 DEF Ends
<1>6. QED
  BY <1>2, <1>4, <1>5 DEF Range

LEMMA EndAppended ==
    ASSUME NEW q \in Seq(Packets), NEW p \in Packets, NEW S, NEW T, Ends(q, S, T),
           \A x \in Range(q) : x \in S => p \notin T
    PROVE  Ends(Append(q, p), S, T)
<1>1. PICK n \in Nat : n = Len(q) /\ DOMAIN q = 1..n
  OBVIOUS
<1>2. /\ DOMAIN Append(q, p) = 1..(n + 1) /\ Append(q, p)[n + 1] = p /\ \A i \in 1..n : Append(q, p)[i] = q[i]
      /\ \A i \in 1..(n + 1) : i \in 1..n \/ i = n + 1
      /\ \A i, j \in 1..(n + 1) : i < j => i \in 1..n
  BY <1>1
<1>3. \A i \in 1..n : q[i] \in S => p \notin T
  BY <1>1 DEF Range
<1>4. QED
  BY <1>1, <1>2, <1>3 DEF Ends

LEMMA EndKept ==
    ASSUME NEW q, NEW S, NEW T, NEW U, NEW V, Ends(q, S, T), \A x \in Range(q) : (x \in U => x \in S) /\ (x \in V => x \in T)
    PROVE  Ends(q, U, V)
<1>1. \A i \in DOMAIN q : (q[i] \in U => q[i] \in S) /\ (q[i] \in V => q[i] \in T)
  BY DEF Range
<1>2. QED
  BY <1>1 DEF Ends

-------------------------------------------------------------------------------
(* What a step may do to the packets on their way to the caller.           *)

LEMMA StageNames ==
    /\ Stage("client") = 1 /\ Stage("last") = 1 /\ Stage("ptrlist") = 2 /\ Stage("user") = 3 /\ Stage("b2a") = 4
    /\ Stage("output") = 5 /\ \A k \in Stages : Stage(k) \in 1..5
    /\ \A k, l \in Stages : Stage(k) = Stage(l) => k = l \/ {k, l} = {"client", "last"}
  BY DEF Stage, Stages

LEMMA Numbers ==
    ASSUME Values
    PROVE  /\ \A p \in Packets : contents[p].from \in Nat /\ contents[p].to \in Nat
           /\ toCaller.to \in Nat /\ fromDevice \in Nat /\ toDevice.to \in Nat /\ written \in Nat
           /\ toCaller.from \in Nat /\ toDevice.from \in Nat
  BY DEF Values, Message, Spans

\* The others stay as they are, and what the queues hold has its order.
Others(p) ==
    /\ \A q \in Packets \ {p}, m \in Stages : Carries(q, m)' <=> Carries(q, m)
    /\ \A q \in Packets \ {p}, m \in Stages : Carries(q, m) => contents'[q] = contents[q]
    /\ Ordered(ptrlist', contents', Wrtes') /\ Ordered(b2a', contents', Wrtes') /\ Holding'
    /\ pump = "ended" => pump' = "ended"

\* Nothing is carried further.
LEMMA Quiet ==
    ASSUME Values, DownInv, NEW p, Others(p),
           p \in Packets => \A m \in Stages : ~Carries(p, m) /\ ~Carries(p, m)',
           UNCHANGED <<toCaller, fromDevice>>
    PROVE  DownInv'
<1> USE DEF DownInv
<1>1. /\ \A q \in Packets, m \in Stages : Carries(q, m)' <=> Carries(q, m)
      /\ \A q \in Packets, m \in Stages : Carries(q, m) => contents'[q] = contents[q]
  BY DEF Others
<1>2. Bounded' /\ InOrder'
  BY <1>1 DEF Bounded, InOrder
<1>3. \A b \in Nat : Coming(b) => Coming(b)'
  BY <1>1 DEF Coming, Has
<1>4. NoGap'
  BY <1>1, <1>3 DEF NoGap
<1>5. Whole'
  BY <1>3 DEF Whole, Others
<1>6. QED
  BY <1>2, <1>4, <1>5 DEF Others

\* A packet goes on to the next stage.
LEMMA Advance ==
    ASSUME Values, DownInv, NEW p \in Packets, Others(p), contents' = contents,
           NEW k \in Stages, NEW l \in Stages, Stage(k) = Stage(l) + 1,
           \A m \in Stages : Carries(p, m) => m = k,
           \A m \in Stages : Carries(p, m)' <=> Carries(p, k) /\ m = l,
           \A q \in Packets \ {p} : Carries(q, k) /\ Carries(p, k) => contents[p].to < contents[q].from,
           UNCHANGED <<toCaller, fromDevice>>
    PROVE  DownInv'
<1> USE DEF DownInv
<1>1. CASE ~Carries(p, k)
  BY <1>1, Quiet
<1>2. CASE Carries(p, k)
  <2>1. /\ \A q \in Packets \ {p}, m \in Stages : Carries(q, m)' <=> Carries(q, m)
        /\ \A m \in Stages : Carries(p, m)' <=> m = l
    BY <1>2 DEF Others
  <2>2. k # "last"
    BY StageNames
  <2>3. Bounded'
    BY <1>2, <2>1, <2>2, Numbers DEF Bounded
  <2>4. \A b \in Nat : Coming(b) => Coming(b)'
    BY <1>2, <2>1 DEF Coming, Has
  <2>5. NoGap' /\ Whole'
    BY <1>2, <2>1, <2>4 DEF NoGap, Whole, Others
  <2>6. InOrder'
    <3>1. SUFFICES ASSUME NEW q \in Packets, NEW r \in Packets, NEW m \in Stages, NEW n \in Stages,
                          Carries(q, m)', Carries(r, n)', Stage(m) < Stage(n)
                   PROVE  contents[q].to < contents[r].from
      BY DEF InOrder
    <3>2. CASE q # p /\ r # p
      BY <2>1, <3>1, <3>2 DEF InOrder
    <3>3. CASE q = p /\ r # p
      <4>1. m = l /\ Carries(r, n)
        BY <2>1, <3>1, <3>3
      <4>2. CASE n = k
        BY <1>2, <3>3, <4>1, <4>2
      <4>3. CASE n # k
        <5>1. Stage(n) # Stage(k)
          BY <4>3, <4>1, <3>1, StageNames
        <5>2. Stage(k) < Stage(n)
          BY <3>1, <4>1, <5>1, StageNames
        <5>3. QED
          BY <1>2, <3>3, <4>1, <5>2 DEF InOrder
      <4>4. QED
        BY <4>2, <4>3
    <3>4. CASE r = p /\ q # p
      <4>1. n = l /\ Carries(q, m) /\ Stage(m) < Stage(k)
        BY <2>1, <3>1, <3>4, StageNames
      <4>2. QED
        BY <1>2, <3>4, <4>1 DEF InOrder
    <3>5. CASE q = p /\ r = p
      BY <2>1, <3>1, <3>5, StageNames
    <3>6. QED
      BY <3>2, <3>3, <3>4, <3>5
  <2>7. QED
    BY <2>3, <2>5, <2>6 DEF Others
<1>3. QED
  BY <1>1, <1>2

\* A packet goes away: it is used up, or lost as the last one before output_thread ends.
LEMMA Away ==
    ASSUME Values, DownInv, NEW p \in Packets, Others(p), NEW k \in Stages,
           \A m \in Stages : (Carries(p, m) => m = k) /\ ~Carries(p, m)',
           \/ contents[p].to < contents[p].from
           \/ k = "output" /\ pump' = "ended" /\ \A q \in Packets \ {p} : ~Carries(q, "output"),
           UNCHANGED <<toCaller, fromDevice>>
    PROVE  DownInv'
<1> USE DEF DownInv
<1>1. /\ \A q \in Packets \ {p}, m \in Stages : Carries(q, m)' <=> Carries(q, m)
      /\ \A q \in Packets \ {p}, m \in Stages : Carries(q, m) => contents'[q] = contents[q]
  BY DEF Others
<1>2. Bounded' /\ InOrder'
  BY <1>1 DEF Bounded, InOrder
<1>3. ASSUME NEW b \in Nat, Coming(b), ~(Carries(p, k) /\ Has(p, b)) PROVE Coming(b)'
  BY <1>1, <1>3 DEF Coming, Has
<1>4. CASE contents[p].to < contents[p].from
  <2>1. \A b \in Nat : ~Has(p, b)
    BY <1>4, Numbers DEF Has
  <2>2. NoGap' /\ Whole'
    BY <1>1, <1>3, <2>1 DEF NoGap, Whole, Others
  <2>3. QED
    BY <1>2, <2>2 DEF Others
<1>5. CASE k = "output" /\ pump' = "ended" /\ \A q \in Packets \ {p} : ~Carries(q, "output")
  <2>1. NoGap'
    <3>1. SUFFICES ASSUME NEW q \in Packets, NEW m \in Stages, Carries(q, m)',
                          NEW b \in Nat, toCaller.to < b, b < contents'[q].from
                   PROVE  Coming(b)'
      BY DEF NoGap
    <3>2. q # p /\ Carries(q, m) /\ contents'[q] = contents[q] /\ m # "output"
      BY <1>1, <1>5, <3>1
    <3>3. Coming(b)
      BY <3>1, <3>2 DEF NoGap
    <3>4. Stage(m) < Stage("output") /\ "output" \in Stages
      BY <3>2, StageNames DEF Stages
    <3>5. Carries(p, k) => contents[q].to < contents[p].from
      BY <1>5, <3>2, <3>4 DEF InOrder
    <3>6. b <= contents[q].to
      <4>1. b < contents[q].from /\ contents[q].from <= contents[q].to + (IF m = "last" THEN 1 ELSE 0)
        BY <3>1, <3>2 DEF Bounded
      <4>2. QED
        BY <4>1, Numbers
    <3>7. ~(Carries(p, k) /\ Has(p, b))
      BY <3>5, <3>6, Numbers DEF Has
    <3>8. QED
      BY <1>3, <3>3, <3>7
  <2>2. QED
    BY <1>2, <1>5, <2>1 DEF Others, Whole
<1>6. QED
  BY <1>4, <1>5

\* What the caller is given next is the byte after the last it has.
LEMMA NextByte ==
    ASSUME Values, DownInv, NEW p \in Packets, NEW k \in {"client", "last"}, Carries(p, k),
           \A q \in Packets \ {p} : ~Carries(q, "client") /\ ~Carries(q, "last"),
           contents[p].from <= contents[p].to
    PROVE  contents[p].from = toCaller.to + 1 /\ contents[p].to <= fromDevice
<1> USE DEF DownInv
<1>1. toCaller.to < contents[p].from /\ contents[p].to <= fromDevice
  BY DEF Bounded, Stages
<1>2. ASSUME toCaller.to + 1 < contents[p].from PROVE FALSE
  <2>1. toCaller.to + 1 \in Nat /\ toCaller.to < toCaller.to + 1
    BY Numbers
  <2>2. Coming(toCaller.to + 1)
    BY <1>2, <2>1 DEF NoGap, Stages
  <2>3. PICK q \in Packets, l \in Stages : Carries(q, l) /\ Has(q, toCaller.to + 1)
    BY <2>2 DEF Coming
  <2>4. q # p
    BY <1>2, <2>3, Numbers DEF Has
  <2>5. l \notin {"client", "last"}
    BY <2>3, <2>4
  <2>6. Stage(k) < Stage(l)
    BY <2>5, StageNames DEF Stages
  <2>7. contents[p].to < contents[q].from
    BY <2>3, <2>6 DEF InOrder, Stages
  <2>8. QED
    BY <1>2, <2>3, <2>7, Numbers DEF Has
<1>3. QED
  BY <1>1, <1>2, Numbers

\* The caller gets what is next, up to byte c of the packet.
LEMMA Delivered ==
    ASSUME Values, DownInv, NEW p \in Packets, Others(p), NEW k \in {"client", "last"}, Carries(p, k),
           \A q \in Packets \ {p} : ~Carries(q, "client") /\ ~Carries(q, "last"),
           \A m \in Stages : Carries(p, m) => m = k,
           NEW c \in Nat, contents[p].from <= c, c <= contents[p].to,
           toCaller' = [from |-> contents[p].from, to |-> c], fromDevice' = fromDevice,
           \/ c = contents[p].to /\ \A m \in Stages : ~Carries(p, m)'
           \/ /\ k = "last" /\ \A m \in Stages : Carries(p, m)' <=> m = k
              /\ contents'[p].from = c + 1 /\ contents'[p].to = contents[p].to
    PROVE  DownInv' /\ contents[p].from = toCaller.to + 1 /\ c <= fromDevice
<1> USE DEF DownInv
<1>1. contents[p].from = toCaller.to + 1 /\ contents[p].to <= fromDevice /\ contents[p].from <= contents[p].to
  BY NextByte, Numbers
<1>2. /\ \A q \in Packets \ {p}, m \in Stages : Carries(q, m)' <=> Carries(q, m)
      /\ \A q \in Packets \ {p}, m \in Stages : Carries(q, m) => contents'[q] = contents[q]
      /\ toCaller'.to = c
  BY DEF Others
<1>3. k \in Stages /\ Stage(k) = 1
  BY StageNames DEF Stages
<1>4. \A q \in Packets \ {p}, m \in Stages : Carries(q, m) => Stage(k) < Stage(m) /\ contents[p].to < contents[q].from
  <2>1. SUFFICES ASSUME NEW q \in Packets \ {p}, NEW m \in Stages, Carries(q, m)
                 PROVE  Stage(k) < Stage(m) /\ contents[p].to < contents[q].from
    OBVIOUS
  <2>2. Stage(k) < Stage(m)
    BY <1>3, <2>1, StageNames DEF Stages
  <2>3. QED
    BY <1>3, <2>1, <2>2 DEF InOrder
<1>5. Bounded'
  <2>1. toCaller'.to <= fromDevice'
    BY <1>1, <1>2, Numbers
  <2>2. ASSUME NEW q \in Packets, NEW m \in Stages, Carries(q, m)'
        PROVE  /\ toCaller'.to < contents'[q].from /\ contents'[q].to <= fromDevice'
               /\ contents'[q].from <= contents'[q].to + (IF m = "last" THEN 1 ELSE 0)
    <3>1. CASE q = p
      <4>1. m = "last" /\ contents'[p].from = c + 1 /\ contents'[p].to = contents[p].to
        BY <2>2, <3>1
      <4>2. QED
        BY <1>1, <1>2, <3>1, <4>1, Numbers
    <3>2. CASE q # p
      <4>1. Carries(q, m) /\ contents'[q] = contents[q] /\ contents[p].to < contents[q].from
        BY <1>2, <1>4, <2>2, <3>2
      <4>2. /\ contents[q].to <= fromDevice
            /\ contents[q].from <= contents[q].to + (IF m = "last" THEN 1 ELSE 0)
        BY <4>1 DEF Bounded
      <4>3. c < contents[q].from
        BY <4>1, Numbers
      <4>4. QED
        BY <1>2, <4>1, <4>2, <4>3
    <3>3. QED
      BY <3>1, <3>2
  <2>3. QED
    BY <2>1, <2>2 DEF Bounded
<1>6. ASSUME NEW b \in Nat, Coming(b), c < b PROVE Coming(b)'
  <2>1. PICK q \in Packets, l \in Stages : Carries(q, l) /\ Has(q, b)
    BY <1>6 DEF Coming
  <2>2. CASE q # p
    BY <1>2, <2>1, <2>2 DEF Coming, Has
  <2>3. CASE q = p
    <3>1. contents'[p].from = c + 1 /\ contents'[p].to = contents[p].to /\ Carries(p, k)'
      BY <1>3, <1>6, <2>1, <2>3, Numbers DEF Has
    <3>2. contents'[p].from <= b /\ b <= contents'[p].to
      BY <1>6, <2>1, <2>3, <3>1, Numbers DEF Has
    <3>3. QED
      BY <1>3, <3>1, <3>2 DEF Coming, Has
  <2>4. QED
    BY <2>2, <2>3
<1>7. \A b \in Nat : c < b => toCaller.to < b
  BY <1>1, Numbers
<1>8. NoGap'
  <2>1. SUFFICES ASSUME NEW q \in Packets, NEW m \in Stages, Carries(q, m)', NEW b \in Nat, c < b, b < contents'[q].from
                 PROVE  Coming(b)'
    BY <1>2 DEF NoGap
  <2>2. CASE q = p
    BY <1>1, <2>1, <2>2, Numbers
  <2>3. CASE q # p
    BY <1>2, <1>6, <1>7, <2>1, <2>3 DEF NoGap
  <2>4. QED
    BY <2>2, <2>3
<1>9. Whole'
  BY <1>2, <1>6, <1>7 DEF Whole, Others
<1>10. InOrder'
  <2>1. SUFFICES ASSUME NEW q \in Packets, NEW r \in Packets, NEW m \in Stages, NEW n \in Stages,
                        Carries(q, m)', Carries(r, n)', Stage(m) < Stage(n)
                 PROVE  contents'[q].to < contents'[r].from
    BY DEF InOrder
  <2>2. CASE q # p /\ r # p
    BY <1>2, <2>1, <2>2 DEF InOrder
  <2>3. CASE q = p /\ r # p
    BY <1>2, <1>4, <2>1, <2>3
  <2>4. CASE q # p /\ r = p
    <3>1. n = k /\ Carries(q, m)
      BY <1>2, <2>1, <2>4
    <3>2. QED
      BY <1>3, <1>4, <2>1, <2>4, <3>1, StageNames
  <2>5. CASE q = p /\ r = p
    BY <2>1, <2>5, StageNames
  <2>6. QED
    BY <2>2, <2>3, <2>4, <2>5
<1>11. QED
  BY <1>1, <1>5, <1>8, <1>9, <1>10, Numbers DEF Others

\* The device sends: the packet in which output_thread reads carries what is new.
LEMMA Sent ==
    ASSUME Values, DownInv, NEW p \in Packets, Others(p), pump # "ended",
           \A m \in Stages : ~Carries(p, m) /\ (Carries(p, m)' <=> m = "output"),
           \A q \in Packets \ {p} : ~Carries(q, "output"),
           NEW n \in Nat, n > 0, contents'[p].from = fromDevice + 1, contents'[p].to = fromDevice + n,
           fromDevice' = fromDevice + n, toCaller' = toCaller
    PROVE  DownInv'
<1> USE DEF DownInv
<1>1. /\ \A q \in Packets \ {p}, m \in Stages : Carries(q, m)' <=> Carries(q, m)
      /\ \A q \in Packets \ {p}, m \in Stages : Carries(q, m) => contents'[q] = contents[q]
  BY DEF Others
<1>2. Bounded'
  <2>1. toCaller.to <= fromDevice
    BY DEF Bounded
  <2>2. ASSUME NEW q \in Packets, NEW m \in Stages, Carries(q, m)'
        PROVE  /\ toCaller'.to < contents'[q].from /\ contents'[q].to <= fromDevice'
               /\ contents'[q].from <= contents'[q].to + (IF m = "last" THEN 1 ELSE 0)
    <3>1. CASE q = p
      BY <2>1, <2>2, <3>1, Numbers
    <3>2. CASE q # p
      <4>1. Carries(q, m) /\ contents'[q] = contents[q]
        BY <1>1, <2>2, <3>2
      <4>2. QED
        BY <4>1, Numbers DEF Bounded
    <3>3. QED
      BY <3>1, <3>2
  <2>3. QED
    BY <2>1, <2>2, Numbers DEF Bounded
<1>3. "output" \in Stages
  BY DEF Stages
<1>4. \A b \in Nat : Coming(b) => Coming(b)'
  BY <1>1 DEF Coming, Has
<1>5. \A b \in Nat : toCaller.to < b /\ b <= fromDevice => Coming(b)'
  BY <1>4 DEF Whole
<1>6. \A b \in Nat : fromDevice < b /\ b <= fromDevice + n => Coming(b)'
  BY <1>3, Numbers DEF Coming, Has
<1>7. Whole'
  BY <1>5, <1>6, Numbers DEF Whole
<1>8. NoGap'
  <2>1. SUFFICES ASSUME NEW q \in Packets, NEW m \in Stages, Carries(q, m)', NEW b \in Nat, toCaller.to < b, b < contents'[q].from
                 PROVE  Coming(b)'
    BY DEF NoGap
  <2>2. CASE q = p
    BY <1>5, <2>1, <2>2, Numbers
  <2>3. CASE q # p
    BY <1>1, <1>4, <2>1, <2>3 DEF NoGap
  <2>4. QED
    BY <2>2, <2>3
<1>9. InOrder'
  <2>1. SUFFICES ASSUME NEW q \in Packets, NEW r \in Packets, NEW m \in Stages, NEW l \in Stages,
                        Carries(q, m)', Carries(r, l)', Stage(m) < Stage(l)
                 PROVE  contents'[q].to < contents'[r].from
    BY DEF InOrder
  <2>2. CASE q # p /\ r # p
    BY <1>1, <2>1, <2>2 DEF InOrder
  <2>3. CASE q = p
    BY <2>1, <2>3, StageNames
  <2>4. CASE q # p /\ r = p
    <3>1. contents[q].to <= fromDevice /\ contents'[q] = contents[q]
      BY <1>1, <2>1, <2>4 DEF Bounded
    <3>2. QED
      BY <2>4, <3>1, Numbers
  <2>5. QED
    BY <2>2, <2>3, <2>4
<1>10. QED
  BY <1>2, <1>7, <1>8, <1>9 DEF Others

LEMMA MovedOthers ==
    ASSUME Values, DownInv, NEW p \in Packets, NEW h, Moved(p, h), \A q \in Packets \ {p} : contents'[q] = contents[q],
           pc = "shell_recv" <=> pc' = "shell_recv", pump = "ended" => pump' = "ended",
           h \in {"ptrlist", "last"} \/ (h = "client" /\ pc = "shell_recv") => p \in Wrtes',
           Ordered(ptrlist', contents', Wrtes'), Ordered(b2a', contents', Wrtes')
    PROVE  /\ Others(p)
           /\ \A m \in Stages : Carries(p, m)' <=> m = h /\ p \in Wrtes' /\ (h = "client" => pc' = "shell_recv")
<1>1. \A q \in Packets \ {p} : q \in Wrtes' <=> q \in Wrtes
  BY DEF Wrtes
<1>2. \A q \in Packets \ {p}, m \in Stages : Carries(q, m)' <=> Carries(q, m)
  BY <1>1, HomeNames DEF Moved, Carries
<1>3. \A m \in Stages : Carries(p, m)' <=> m = h /\ p \in Wrtes' /\ (h = "client" => pc' = "shell_recv")
  BY HomeNames DEF Moved, Carries
<1>4. Holding'
  <2>1. \A q \in Packets \ {p} :
          /\ (Lies(q, "ptrlist")' <=> Lies(q, "ptrlist")) /\ (Lies(q, "last")' <=> Lies(q, "last"))
          /\ (Lies(q, "client")' <=> Lies(q, "client"))
    BY HomeNames DEF Moved
  <2>2. /\ (Lies(p, "ptrlist")' <=> h = "ptrlist") /\ (Lies(p, "last")' <=> h = "last")
        /\ (Lies(p, "client")' <=> h = "client")
    BY HomeNames DEF Moved
  <2>3. QED
    BY <1>1, <2>1, <2>2 DEF Holding, DownInv
<1>5. QED
  BY <1>2, <1>3, <1>4 DEF Others

LEMMA OrderStays ==
    ASSUME NEW q \in Seq(Packets), Ordered(q, contents, Wrtes), NEW p, contents' = contents \/ p \notin Range(q),
           \A x \in Packets \ {p} : contents'[x] = contents[x]
    PROVE  Ordered(q, contents', Wrtes')
<1>1. \A x \in Range(q) : x \in Wrtes' => x \in Wrtes /\ contents'[x] = contents[x]
  <2>1. Range(q) \subseteq Packets
    BY DEF Range
  <2>2. QED
    BY <2>1 DEF Wrtes
<1>2. QED
  BY <1>1, OrderKept

\* A packet that carries nothing moves, while the channel's queue stays as it is.
LEMMA QuietMove ==
    ASSUME Values, Apart, DownInv, NEW p \in Packets, NEW k \in Homes, Lies(p, k), NEW h, Moved(p, h),
           k \notin {"ptrlist", "last", "b2a"}, h \notin {"ptrlist", "last"},
           \A q \in Packets \ {p} : contents'[q] = contents[q],
           pc = "shell_recv" <=> pc' = "shell_recv", pump = "ended" => pump' = "ended", UNCHANGED <<toCaller, fromDevice, ptrlist, b2a>>,
           k \in {"user", "output"} => p \notin Wrtes,
           k = "client" \/ h = "client" => pc # "shell_recv",
           h \in {"user", "output", "b2a"} => p \notin Wrtes'
    PROVE  DownInv'
<1>1. p \notin Range(ptrlist) /\ p \notin Range(b2a) /\ \A l \in Homes : Lies(p, l) => l = k
  BY OnlyThere, PlaceNames, HomeNames
<1>2. Ordered(ptrlist', contents', Wrtes') /\ Ordered(b2a', contents', Wrtes')
  BY <1>1, OrderStays DEF DownInv, Values
<1>3. /\ Others(p)
      /\ \A m \in Stages : Carries(p, m)' <=> m = h /\ p \in Wrtes' /\ (h = "client" => pc' = "shell_recv")
  BY <1>2, MovedOthers
<1>4. \A m \in Stages : ~Carries(p, m) /\ ~Carries(p, m)'
  BY <1>1, <1>3, HomeNames DEF Carries, Stages
<1>5. QED
  BY <1>3, <1>4, Quiet

\* Nothing moves, and nothing is written to a packet.
LEMMA QuietCall ==
    ASSUME Values, DownInv, Still, UNCHANGED <<contents, ptrlist, b2a, toCaller, fromDevice>>, pump = "ended" => pump' = "ended",
           (pc = "shell_recv" <=> pc' = "shell_recv") \/ hand["client"] = None
    PROVE  DownInv'
<1>1. Wrtes' = Wrtes
  BY DEF Wrtes
<1>2. (pc = "shell_recv" <=> pc' = "shell_recv") \/ \A q \in Packets : ~Lies(q, "client")
  BY PlaceNames, PacketNames DEF Threads
<1>3. \A q \in Packets, m \in Stages : (Lies(q, m)' <=> Lies(q, m))
  BY HomeNames DEF Still
<1>4. \A q \in Packets, m \in Stages : Carries(q, m)' <=> Carries(q, m)
  BY <1>1, <1>2, <1>3 DEF Carries
<1>5. Holding'
  <2>1. \A q \in Packets : /\ (Lies(q, "ptrlist")' <=> Lies(q, "ptrlist")) /\ (Lies(q, "last")' <=> Lies(q, "last"))
                           /\ (Lies(q, "client")' <=> Lies(q, "client"))
    BY HomeNames DEF Still
  <2>2. QED
    BY <1>1, <1>2, <2>1 DEF Holding, DownInv
<1>6. Ordered(ptrlist', contents', Wrtes') /\ Ordered(b2a', contents', Wrtes')
  BY <1>1 DEF DownInv
<1>7. Others(None)
  BY <1>4, <1>5, <1>6 DEF Others
<1>8. QED
  BY <1>7, Quiet, PacketNames

\* The packet in which output_thread reads, before and after.
LEMMA UsbReadDown ==
    ASSUME TypeInv, DownInv, NEW p \in Packets, p = hand["output"], NEW m, UsbRead(m)
    PROVE  /\ Others(p) /\ UNCHANGED toCaller /\ contents'[p] = m /\ p \notin Wrtes
           /\ \A s \in Stages : ~Carries(p, s) /\ (Carries(p, s)' <=> s = "output" /\ m.cmd = "WRTE")
<1> USE DEF TypeInv
<1>1. /\ contents[p] = Blank /\ contents' = [contents EXCEPT ![p] = m]
      /\ UNCHANGED <<hand, heap, pool, b2a, a2b, channel, client, pump, toCaller>>
  BY DEF UsbRead, UsbReading
<1>2. Lies(p, "output") /\ "output" \in Homes
  BY PlaceNames, HomeNames DEF Threads
<1>3. p \notin Wrtes
  BY <1>1 DEF Wrtes, Blank
<1>4. contents'[p] = m /\ \A q \in Packets \ {p} : contents'[q] = contents[q]
  BY <1>1 DEF Values
<1>5. \A l \in Homes : Lies(p, l) <=> l = "output"
  BY <1>2, OnlyThere
<1>6. Still
  BY <1>1, NotMoving DEF channel
<1>7. Moved(p, "output")
  BY <1>5, <1>6 DEF Still, Moved
<1>8. p \notin Range(ptrlist) /\ p \notin Range(b2a)
  BY <1>5, PlaceNames, HomeNames
<1>9. Ordered(ptrlist', contents', Wrtes') /\ Ordered(b2a', contents', Wrtes')
  BY <1>1, <1>4, <1>8, OrderStays DEF DownInv, Values, channel
<1>10. pc' = pc /\ pump' = pump
  BY <1>1 DEF client
<1>11. /\ Others(p)
       /\ \A s \in Stages : Carries(p, s)' <=> s = "output" /\ p \in Wrtes'
  BY <1>4, <1>7, <1>9, <1>10, MovedOthers
<1>12. p \in Wrtes' <=> m.cmd = "WRTE"
  BY <1>4 DEF Wrtes
<1>13. \A s \in Stages : ~Carries(p, s)
  BY <1>3 DEF Carries
<1>14. QED
  BY <1>1, <1>3, <1>4, <1>11, <1>12, <1>13

LEMMA OutputDown ==
    ASSUME TypeInv, DownInv, Output
    PROVE  DownInv'
<1> USE DEF TypeInv
<1>0. /\ {"output", "user", "client", "input"} = Threads /\ Threads \subseteq Homes /\ Memory \subseteq Homes
      /\ \A h \in Memory \cup {"output", "lost"} : h \notin {"ptrlist", "last", "b2a", "user", "client"}
      /\ "output" \notin Memory /\ "output" \in Stages
  BY HomeNames DEF Threads, Memory, Stages
<1>1. CASE OutputGet
  <2>1. PICK p \in Packets : /\ Moved(p, "output") /\ (\E h \in Memory : Lies(p, h))
                             /\ contents' = [contents EXCEPT ![p] = IF pump = "off" THEN Sync ELSE Blank]
    BY <1>1, OutputGetMoves
  <2>2. /\ \A q \in Packets \ {p} : contents'[q] = contents[q]
        /\ p \notin Wrtes'
    BY <2>1 DEF Values, Wrtes, Sync, Blank
  <2>3. UNCHANGED <<pc, pump, toCaller, fromDevice, ptrlist, b2a>>
    BY <1>1 DEF OutputGet, channel, client, down
  <2>4. PICK k \in Memory : Lies(p, k)
    BY <2>1
  <2>5. QED
    BY <1>0, <2>1, <2>2, <2>3, <2>4, QuietMove
<1>2. ASSUME NEW k \in 1..MaxPayload, DeviceSend(k) PROVE DownInv'
  <2>1. UsbRead(Data(stream, fromDevice + 1, fromDevice + k)) /\ fromDevice' = fromDevice + k /\ pump # "ended"
    BY <1>2 DEF DeviceSend, UsbRead, UsbReading, Calling
  <2>2. PICK p : p = hand["output"]
    OBVIOUS
  <2>3. p \in Packets /\ k \in Nat /\ k > 0
    BY <2>1, <2>2, DataPathAssumption DEF UsbRead, UsbReading, Values, Threads
  <2>4. /\ Others(p) /\ UNCHANGED toCaller
        /\ \A s \in Stages : ~Carries(p, s) /\ (Carries(p, s)' <=> s = "output")
        /\ contents'[p].from = fromDevice + 1 /\ contents'[p].to = fromDevice + k
    BY <2>1, <2>2, <2>3, UsbReadDown DEF Data
  <2>5. \A q \in Packets \ {p} : ~Carries(q, "output")
    BY <1>0, <2>2, PlaceNames DEF Carries
  <2>6. QED
    BY <2>1, <2>3, <2>4, <2>5, Sent
<1>3. CASE DeviceClose
  <2>1. UsbRead(Clse(stream)) /\ fromDevice' = fromDevice
    BY <1>3 DEF DeviceClose
  <2>2. PICK p : p = hand["output"]
    OBVIOUS
  <2>3. p \in Packets
    BY <2>1, <2>2 DEF UsbRead, UsbReading, Values, Threads
  <2>4. Others(p) /\ UNCHANGED toCaller /\ \A s \in Stages : ~Carries(p, s) /\ ~Carries(p, s)'
    BY <2>1, <2>2, <2>3, UsbReadDown DEF Clse
  <2>5. QED
    BY <2>1, <2>4, Quiet
<1>4. CASE UsbReadFails
  <2>1. /\ hand["output"] # None /\ contents[hand["output"]] = Blank /\ PutBack(hand["output"]) /\ Holds("output", None)
        /\ UNCHANGED <<b2a, a2b, ptrlist, last_apacket, pc, toCaller, fromDevice>> /\ pump # "ended"
    BY <1>4 DEF UsbReadFails, UsbReading, Calling, channel, down, client
  <2>2. PICK p \in Packets : p = hand["output"]
    BY <2>1 DEF Values, Threads
  <2>3. PICK h \in Memory : Moved(p, h)
    BY <1>0, <2>1, <2>2, BackMoves
  <2>4. contents' = [contents EXCEPT ![p] = Blank] /\ Lies(p, "output")
    BY <1>0, <2>1, <2>2, BackMoves, PlaceNames DEF WipedAt
  <2>5. p \notin Wrtes /\ \A q \in Packets \ {p} : contents'[q] = contents[q]
    BY <2>1, <2>2, <2>4 DEF Wrtes, Blank, Values
  <2>6. QED
    BY <1>0, <2>1, <2>3, <2>4, <2>5, QuietMove
<1>5. CASE OutputWrite
  <2>1. /\ hand["output"] # None /\ UNCHANGED <<ptrlist, pc, toCaller, fromDevice>> /\ pump # "ended"
        /\ pump' = (IF kicked \/ pump = "off" THEN "ended" ELSE pump)
    BY <1>5 DEF OutputWrite, Calling, channel, client, down
  <2>2. PICK p \in Packets : p = hand["output"]
    BY <2>1 DEF Values, Threads
  <2>3. Lies(p, "output") /\ (\A l \in Homes : Lies(p, l) => l = "output") /\ \A q \in Packets \ {p} : ~Carries(q, "output")
    BY <1>0, <2>2, PlaceNames, OnlyThere DEF Carries
  <2>4. p \notin Range(ptrlist) /\ p \notin Range(b2a)
    BY <2>3, PlaceNames, HomeNames
  <2>5. \A m \in Stages : Carries(p, m) => m = "output"
    BY <2>3, HomeNames DEF Carries
  <2>6. CASE ~kicked
    <3>1. Moved(p, "b2a") /\ contents' = contents /\ b2a' = Append(b2a, p)
      BY <1>5, <2>2, <2>6, OutputWriteMoves DEF OutputWrite, Push
    <3>2. Wrtes' = Wrtes
      BY <3>1 DEF Wrtes
    <3>3. \A x \in Range(b2a) : x \in Wrtes /\ p \in Wrtes => contents[x].to < contents[p].from
      <4>1. SUFFICES ASSUME NEW x \in Range(b2a), x \in Wrtes, p \in Wrtes PROVE contents[x].to < contents[p].from
        OBVIOUS
      <4>2. x \in Packets /\ Carries(x, "b2a") /\ Carries(p, "output")
        BY <2>3, <4>1, PlaceNames DEF Carries, Wrtes
      <4>3. Stage("b2a") < Stage("output") /\ "b2a" \in Stages
        BY StageNames DEF Stages
      <4>4. QED
        BY <1>0, <4>2, <4>3 DEF DownInv, InOrder
    <3>4. Ordered(b2a', contents', Wrtes')
      BY <3>1, <3>2, <3>3, OrderAppended DEF DownInv, Values
    <3>5. Ordered(ptrlist', contents', Wrtes')
      BY <2>1, <3>1, <3>2 DEF DownInv
    <3>6. Others(p) /\ \A m \in Stages : Carries(p, m)' <=> m = "b2a" /\ p \in Wrtes'
      BY <2>1, <3>1, <3>4, <3>5, MovedOthers
    <3>7. Stage("output") = Stage("b2a") + 1 /\ "b2a" \in Stages /\ (Carries(p, "output") <=> p \in Wrtes)
      BY <2>3, StageNames DEF Stages, Carries
    <3>8. \A m \in Stages : Carries(p, m)' <=> Carries(p, "output") /\ m = "b2a"
      BY <3>2, <3>6, <3>7
    <3>9. QED
      BY <1>0, <2>1, <2>3, <2>5, <3>1, <3>6, <3>7, <3>8, Advance
  <2>7. CASE kicked
    <3>1. PICK h \in Memory \cup {"lost"} : Moved(p, h)
      BY <1>5, <2>2, <2>7, OutputWriteMoves
    <3>2. b2a' = b2a
      BY <1>5, <2>7 DEF OutputWrite, Push
    <3>3. \A q \in Packets \ {p} : contents'[q] = contents[q]
      BY <1>5, <2>2, <2>7, OutputWriteMoves DEF WipedAt, Values
    <3>4. Ordered(ptrlist', contents', Wrtes') /\ Ordered(b2a', contents', Wrtes')
      BY <2>1, <2>4, <3>2, <3>3, OrderStays DEF DownInv, Values
    <3>5. Others(p) /\ \A m \in Stages : Carries(p, m)' <=> m = h /\ p \in Wrtes' /\ (h = "client" => pc' = "shell_recv")
      BY <1>0, <2>1, <3>1, <3>3, <3>4, MovedOthers
    <3>6. \A m \in Stages : ~Carries(p, m)'
      BY <1>0, <3>5 DEF Stages, Memory
    <3>7. \A m \in Stages : (Carries(p, m) => m = "output") /\ ~Carries(p, m)'
      BY <2>5, <3>6
    <3>8. pump' = "ended" /\ UNCHANGED <<toCaller, fromDevice>>
      BY <2>1, <2>7
    <3>9. QED
      BY <1>0, <2>3, <3>5, <3>7, <3>8, Away
  <2>8. QED
    BY <2>6, <2>7
<1>6. QED
  BY <1>1, <1>2, <1>3, <1>4, <1>5 DEF Output

\* What a thread puts back that carries nothing.
LEMMA BackDown ==
    ASSUME TypeInv, DownInv, NEW t \in {"user", "input", "client"}, hand[t] # None, PutBack(hand[t]), Holds(t, None),
           UNCHANGED <<b2a, a2b, ptrlist, last_apacket, toCaller, fromDevice>>,
           t = "user" => hand[t] \notin Wrtes, t = "client" => pc # "shell_recv",
           pc = "shell_recv" <=> pc' = "shell_recv", pump = "ended" => pump' = "ended"
    PROVE  DownInv'
<1> USE DEF TypeInv
<1>0. Threads \subseteq Homes /\ t \in Threads /\ Memory \subseteq Homes
      /\ \A h \in Memory : h \notin {"ptrlist", "last", "b2a", "user", "output", "client"}
      /\ t \notin {"ptrlist", "last", "b2a", "output"}
  BY HomeNames DEF Threads, Memory
<1>1. PICK p \in Packets : p = hand[t]
  BY <1>0 DEF Values
<1>2. PICK h \in Memory : Moved(p, h)
  BY <1>0, <1>1, BackMoves
<1>3. contents' = [contents EXCEPT ![p] = Blank] /\ Lies(p, t)
  BY <1>0, <1>1, BackMoves, PlaceNames DEF WipedAt
<1>4. \A q \in Packets \ {p} : contents'[q] = contents[q]
  BY <1>3 DEF Values
<1>5. QED
  BY <1>0, <1>1, <1>2, <1>3, <1>4, QuietMove

LEMMA UserDown ==
    ASSUME TypeInv, DownInv, User
    PROVE  DownInv'
<1> USE DEF TypeInv
<1>0. /\ {"output", "user", "client", "input"} = Threads /\ Threads \subseteq Homes /\ Memory \subseteq Homes
      /\ {"user", "b2a", "ptrlist"} \subseteq Stages /\ {"user", "b2a", "ptrlist"} \subseteq Homes
      /\ Stage("b2a") = Stage("user") + 1 /\ Stage("user") = Stage("ptrlist") + 1
      /\ b2a \in Seq(Packets) /\ ptrlist \in Seq(Packets)
  BY HomeNames, StageNames DEF Threads, Memory, Stages, Values
<1>1. CASE UserRead
  <2>1. PICK p \in Packets : p = Head(b2a) /\ Lies(p, "b2a") /\ Moved(p, "user") /\ contents' = contents
    BY <1>1, UserReadMoves
  <2>2. /\ b2a # <<>> /\ b2a' = Tail(b2a) /\ hand["user"] = None
        /\ UNCHANGED <<ptrlist, pc, pump, toCaller, fromDevice>> /\ Wrtes' = Wrtes
    BY <1>1, <2>1 DEF UserRead, ReadPacket, channel, client, down, Wrtes
  <2>3. Ordered(b2a', contents', Wrtes') /\ Ordered(ptrlist', contents', Wrtes')
    BY <1>0, <2>1, <2>2, OrderTaken DEF DownInv
  <2>4. Others(p) /\ \A m \in Stages : Carries(p, m)' <=> m = "user" /\ p \in Wrtes'
    BY <2>1, <2>2, <2>3, MovedOthers
  <2>5. (\A m \in Stages : Carries(p, m) => m = "b2a") /\ (Carries(p, "b2a") <=> p \in Wrtes)
    BY <1>0, <2>1, OnlyThere, HomeNames DEF Carries
  <2>6. \A q \in Packets \ {p} : Carries(q, "b2a") /\ Carries(p, "b2a") => contents[p].to < contents[q].from
    <3>1. SUFFICES ASSUME NEW q \in Packets \ {p}, Carries(q, "b2a"), p \in Wrtes PROVE contents[p].to < contents[q].from
      BY <2>5
    <3>2. q \in Range(b2a) /\ q \in Wrtes
      BY <3>1, PlaceNames DEF Carries
    <3>3. q \in Range(Tail(b2a))
      BY <1>0, <2>1, <2>2, <3>2, HeadTaken DEF Apart
    <3>4. QED
      BY <1>0, <2>1, <2>2, <3>1, <3>2, <3>3, OrderTaken DEF DownInv
  <2>7. \A m \in Stages : Carries(p, m)' <=> Carries(p, "b2a") /\ m = "user"
    BY <2>2, <2>4, <2>5
  <2>8. QED
    BY <1>0, <2>1, <2>2, <2>4, <2>5, <2>6, <2>7, Advance
<1>2. CASE LocalClientEnqueue
  <2>1. PICK p \in Packets : p = hand["user"] /\ Moved(p, "ptrlist") /\ contents' = contents
    BY <1>2, LocalClientEnqueueMoves
  <2>2. /\ ptrlist' = Append(ptrlist, p) /\ p \in Wrtes
        /\ UNCHANGED <<b2a, pc, pump, toCaller, fromDevice>> /\ Wrtes' = Wrtes
    BY <1>2, <2>1 DEF LocalClientEnqueue, client, down, Wrtes
  <2>3. Lies(p, "user") /\ (\A l \in Homes : Lies(p, l) => l = "user") /\ \A q \in Packets \ {p} : ~Carries(q, "user")
    BY <1>0, <2>1, PlaceNames, OnlyThere DEF Carries
  <2>4. (\A m \in Stages : Carries(p, m) => m = "user") /\ Carries(p, "user")
    BY <2>2, <2>3, HomeNames DEF Carries
  <2>5. \A x \in Range(ptrlist) : x \in Wrtes /\ p \in Wrtes => contents[x].to < contents[p].from
    <3>1. SUFFICES ASSUME NEW x \in Range(ptrlist), x \in Wrtes PROVE contents[x].to < contents[p].from
      OBVIOUS
    <3>2. x \in Packets /\ Carries(x, "ptrlist")
      BY <3>1, PlaceNames DEF Carries, Wrtes
    <3>3. Stage("ptrlist") < Stage("user")
      BY StageNames
    <3>4. QED
      BY <1>0, <2>4, <3>2, <3>3 DEF DownInv, InOrder
  <2>6. Ordered(ptrlist', contents', Wrtes') /\ Ordered(b2a', contents', Wrtes')
    BY <1>0, <2>1, <2>2, <2>5, OrderAppended DEF DownInv
  <2>7. Others(p) /\ \A m \in Stages : Carries(p, m)' <=> m = "ptrlist" /\ p \in Wrtes'
    BY <2>1, <2>2, <2>6, MovedOthers
  <2>8. \A m \in Stages : Carries(p, m)' <=> Carries(p, "user") /\ m = "ptrlist"
    BY <2>2, <2>4, <2>7
  <2>9. QED
    BY <1>0, <2>1, <2>2, <2>3, <2>4, <2>7, <2>8, Advance
<1>3. CASE HandleClse
  <2>1. hand["user"] \notin Wrtes
    BY <1>3 DEF HandleClse, Wrtes
  <2>2. QED
    BY <1>3, <2>1, BackDown DEF HandleClse, client, down
<1>4. CASE HandleSync
  <2>1. /\ hand["user"] # None /\ contents[hand["user"]] = Sync /\ UNCHANGED <<b2a, ptrlist, pc, pump, toCaller, fromDevice>>
    BY <1>4 DEF HandleSync, Push, channel, client, down
  <2>2. PICK p \in Packets : p = hand["user"]
    BY <2>1 DEF Values, Threads
  <2>3. PICK h \in Memory \cup {"a2b", "lost"} : Moved(p, h)
    BY <1>4, <2>2, HandleSyncMoves
  <2>4. p \notin Wrtes /\ Lies(p, "user")
    <3>1. p \notin Wrtes
      BY <2>1, <2>2 DEF Wrtes, Sync
    <3>2. QED
      BY <1>0, <2>2, <3>1, PlaceNames
  <2>5. \A q \in Packets \ {p} : contents'[q] = contents[q]
    BY <1>4, <2>2, HandleSyncMoves DEF WipedAt, Values
  <2>6. h \notin {"ptrlist", "last", "user", "output", "b2a", "client"}
    BY DEF Memory
  <2>7. QED
    BY <1>0, <2>1, <2>3, <2>4, <2>5, <2>6, QuietMove
<1>5. QED
  BY <1>1, <1>2, <1>3, <1>4 DEF User

LEMMA InputDown ==
    ASSUME TypeInv, DownInv, Input
    PROVE  DownInv'
<1> USE DEF TypeInv
<1>1. CASE InputRead
  <2>1. PICK p \in Packets : Lies(p, "a2b") /\ Moved(p, "input") /\ contents' = contents
    BY <1>1, InputReadMoves
  <2>2. UNCHANGED <<ptrlist, b2a, pc, pump, toCaller, fromDevice>>
    BY <1>1 DEF InputRead, ReadPacket, channel, client, down
  <2>3. "a2b" \in Homes
    BY HomeNames
  <2>4. QED
    BY <2>1, <2>2, <2>3, QuietMove
<1>2. CASE InputOffline
  BY <1>2, BackDown DEF InputOffline, KickTransport, channel, client, down
<1>3. CASE InputWrite
  BY <1>3, BackDown DEF InputWrite, channel, client, down
<1>4. QED
  BY <1>1, <1>2, <1>3 DEF Input

LEMMA CallsDown ==
    ASSUME TypeInv, DownInv,
           \/ \E n \in Sizes : ReadBegin(n) \/ WriteBegin(n)
           \/ ReadReturn \/ ShellRecvBegin \/ ShellEmpty \/ ShellReturn \/ WriteReturn \/ Kick
           \/ WriteTest /\ ~Refused
           \/ ShellPop /\ ptrlist = <<>>
    PROVE  DownInv'
<1> USE DEF TypeInv
<1>1. Still
  BY CallsTypes
<1>2. hand["client"] = None \/ pc \in {"shell_recv", "client_write"}
  BY DEF Calling
<1>3. (pc = "shell_recv" <=> pc' = "shell_recv") \/ hand["client"] = None
  BY <1>2 DEF ReadBegin, WriteBegin, ReadReturn, ShellRecvBegin, ShellEmpty, ShellReturn, WriteReturn, Kick, KickTransport, WriteTest, ShellPop, Call, Return, client
<1>4. UNCHANGED <<contents, ptrlist, b2a, toCaller, fromDevice>> /\ (pump = "ended" => pump' = "ended")
  BY DEF ReadBegin, WriteBegin, ReadReturn, ShellRecvBegin, ShellEmpty, ShellReturn, WriteReturn, Kick, KickTransport, WriteTest, ShellPop, memory, channel, down
<1>5. QED
  BY <1>1, <1>3, <1>4, QuietCall

LEMMA WriteDown ==
    ASSUME TypeInv, DownInv, WriteFill \/ (WriteTest /\ Refused) \/ WritePush \/ ShellLine
    PROVE  DownInv'
<1> USE DEF TypeInv
<1>0. /\ {"output", "user", "client", "input"} = Threads /\ Threads \subseteq Homes /\ Memory \subseteq Homes
      /\ \A h \in Memory \cup {"client", "lost", "a2b"} : h \notin {"ptrlist", "last", "b2a", "user", "output"}
      /\ "client" \notin Memory
  BY HomeNames DEF Threads, Memory
<1>1. CASE WriteFill
  <2>1. PICK p \in Packets, to \in Nat : /\ Moved(p, "client") /\ (\E h \in Memory : Lies(p, h))
                              /\ contents' = [contents EXCEPT ![p] = Data(stream, written + 1, to)]
    BY <1>1, WriteFillMoves
  <2>2. UNCHANGED <<ptrlist, b2a, pc, pump, toCaller, fromDevice>> /\ pc # "shell_recv"
    BY <1>1 DEF WriteFill, channel, client, down
  <2>3. PICK k \in Memory : Lies(p, k)
    BY <2>1
  <2>4. \A q \in Packets \ {p} : contents'[q] = contents[q]
    BY <2>1 DEF Values
  <2>5. QED
    BY <1>0, <2>1, <2>2, <2>3, <2>4, QuietMove
<1>2. CASE WriteTest /\ Refused
  BY <1>2, BackDown DEF WriteTest, channel, client, down, Return, Call
<1>3. CASE WritePush
  <2>1. hand["client"] # None /\ UNCHANGED <<ptrlist, b2a, pc, pump, toCaller, fromDevice>> /\ pc # "shell_recv"
    BY <1>3 DEF WritePush, channel, client, down, Calling
  <2>2. PICK p \in Packets : p = hand["client"]
    BY <2>1 DEF Values, Threads
  <2>3. PICK h \in Memory \cup {"a2b", "lost"} : Moved(p, h)
    BY <1>3, <2>1, <2>2, WritePushMoves
  <2>4. Lies(p, "client")
    BY <1>0, <2>2, PlaceNames
  <2>5. \A q \in Packets \ {p} : contents'[q] = contents[q]
    BY <1>3, <2>1, <2>2, WritePushMoves DEF WipedAt, Values
  <2>6. QED
    BY <1>0, <2>1, <2>3, <2>4, <2>5, QuietMove
<1>4. CASE ShellLine
  <2>1. PICK p \in Packets : Moved(p, "lost") /\ \E h \in Memory : Lies(p, h)
    BY <1>4, ShellLineMoves
  <2>2. UNCHANGED <<ptrlist, b2a, pc, pump, toCaller, fromDevice, contents>>
    BY <1>4 DEF ShellLine, channel, down
  <2>3. PICK k \in Memory : Lies(p, k)
    BY <2>1
  <2>4. QED
    BY <1>0, <2>1, <2>2, <2>3, QuietMove
<1>5. QED
  BY <1>1, <1>2, <1>3, <1>4

\* The channel is read by client_read or by shell_recv, never by both.
LEMMA OneReader ==
    ASSUME TypeInv
    PROVE  /\ pc = "shell_recv" => \A q \in Packets : ~Carries(q, "last")
           /\ last_apacket # None \/ pc = "client_read" => \A q \in Packets : ~Carries(q, "client")
<1>1. pc = "shell_recv" => last_apacket = None
  BY DEF TypeInv, Calling, ShellKinds
<1>2. last_apacket # None \/ pc = "client_read" => pc # "shell_recv"
  BY <1>1
<1>3. QED
  BY <1>1, <1>2, PlaceNames, PacketNames DEF Carries

LEMMA ReadPopDown ==
    ASSUME TypeInv, DownInv, ReadPop \/ (ShellPop /\ ptrlist # <<>>)
    PROVE  DownInv'
<1> USE DEF TypeInv
<1>1. PICK l \in {"last", "client"}, p \in Packets :
          /\ p = Head(ptrlist) /\ Lies(p, "ptrlist") /\ Moved(p, l) /\ contents' = contents
          /\ l = "client" => pc' = "shell_recv"
  BY ReadPopMoves, ShellPopMoves DEF ShellPop
<1>2. /\ ptrlist # <<>> /\ ptrlist' = Tail(ptrlist) /\ (pc = "shell_recv" <=> pc' = "shell_recv")
      /\ UNCHANGED <<b2a, pump, toCaller, fromDevice>> /\ Wrtes' = Wrtes
  BY <1>1 DEF ReadPop, ShellPop, client, down, Wrtes
<1>3. ptrlist \in Seq(Packets) /\ b2a \in Seq(Packets)
  BY DEF Values
<1>4. Ordered(ptrlist', contents', Wrtes') /\ Ordered(b2a', contents', Wrtes')
  BY <1>1, <1>2, <1>3, OrderTaken DEF DownInv
<1>5. p \in Wrtes /\ p \in Wrtes'
  BY <1>1, <1>2 DEF DownInv, Holding
<1>6. Others(p) /\ \A m \in Stages : Carries(p, m)' <=> m = l
  BY <1>1, <1>2, <1>4, <1>5, MovedOthers
<1>7. (\A m \in Stages : Carries(p, m) => m = "ptrlist") /\ Carries(p, "ptrlist")
  BY <1>1, <1>5, OnlyThere, HomeNames DEF Carries
<1>8. \A q \in Packets \ {p} : Carries(q, "ptrlist") /\ Carries(p, "ptrlist") => contents[p].to < contents[q].from
  <2>1. SUFFICES ASSUME NEW q \in Packets \ {p}, Carries(q, "ptrlist") PROVE contents[p].to < contents[q].from
    OBVIOUS
  <2>2. q \in Range(ptrlist) /\ q \in Wrtes
    BY <2>1, PlaceNames DEF Carries
  <2>3. q \in Range(Tail(ptrlist))
    BY <1>1, <1>2, <1>3, <2>2, HeadTaken DEF Apart
  <2>4. QED
    BY <1>1, <1>2, <1>3, <1>5, <2>2, <2>3, OrderTaken DEF DownInv
<1>9. /\ \A m \in Stages : Carries(p, m)' <=> Carries(p, "ptrlist") /\ m = l
      /\ Stage("ptrlist") = Stage(l) + 1 /\ "ptrlist" \in Stages /\ l \in Stages
  BY <1>6, <1>7, StageNames DEF Stages
<1>10. QED
  BY <1>1, <1>2, <1>6, <1>7, <1>8, <1>9, Advance

LEMMA ReadDropDown ==
    ASSUME TypeInv, DownInv, ReadDrop
    PROVE  DownInv'
<1> USE DEF TypeInv
<1>1. PICK p \in Packets : p = last_apacket
  BY DEF ReadDrop, Values
<1>2. PICK h \in Memory : Moved(p, h)
  BY <1>1, ReadDropTypes
<1>3. \A q \in Packets \ {p} : contents'[q] = contents[q]
  BY <1>1, ReadDropTypes DEF WipedAt, Values
<1>4. UNCHANGED <<b2a, ptrlist, pc, pump, toCaller, fromDevice>> /\ Size(p) = 0
  BY <1>1 DEF ReadDrop, client, down
<1>5. Lies(p, "last") /\ "last" \in Stages /\ \A l \in Homes : Lies(p, l) => l = "last"
  BY <1>1, PlaceNames, OnlyThere, HomeNames DEF Stages
<1>6. p \notin Range(ptrlist) /\ p \notin Range(b2a)
  BY <1>5, PlaceNames, HomeNames
<1>7. Ordered(ptrlist', contents', Wrtes') /\ Ordered(b2a', contents', Wrtes')
  BY <1>3, <1>4, <1>6, OrderStays DEF DownInv, Values
<1>8. h \notin {"ptrlist", "last", "client", "user", "b2a", "output"}
  BY DEF Memory
<1>9. Others(p) /\ \A m \in Stages : ~Carries(p, m)'
  <2>1. Others(p) /\ \A m \in Stages : Carries(p, m)' <=> m = h /\ p \in Wrtes' /\ (h = "client" => pc' = "shell_recv")
    BY <1>2, <1>3, <1>4, <1>7, <1>8, MovedOthers
  <2>2. QED
    BY <1>8, <2>1 DEF Stages
<1>10. \A m \in Stages : Carries(p, m) => m = "last"
  BY <1>5, HomeNames DEF Carries
<1>11. contents[p].to < contents[p].from
  BY <1>4, Numbers DEF Size
<1>12. QED
  BY <1>4, <1>5, <1>9, <1>10, <1>11, Away

LEMMA ReadCopyDown ==
    ASSUME TypeInv, DownInv, ReadCopy
    PROVE  /\ DownInv' /\ fromDevice' = fromDevice
           /\ toCaller'.from = toCaller.to + 1 /\ toCaller'.from <= toCaller'.to /\ toCaller'.to <= fromDevice
<1> USE DEF TypeInv
<1>1. PICK p \in Packets : p = last_apacket
  BY DEF ReadCopy, Values
<1>2. PICK clen \in Nat : /\ 0 < clen /\ clen <= Size(p)
                 /\ toCaller' = [from |-> contents[p].from, to |-> contents[p].from + clen - 1]
                 /\ contents' = [contents EXCEPT ![p].from = contents[p].from + clen]
  BY <1>1, ReadCopyTypes
<1>3. /\ UNCHANGED <<b2a, ptrlist, pc, pump, fromDevice>> /\ pc = "client_read" /\ Still
  BY ReadCopyTypes DEF ReadCopy, Reading, channel
<1>4. Lies(p, "last") /\ \A l \in Homes : Lies(p, l) <=> l = "last"
  BY <1>1, PlaceNames, OnlyThere, HomeNames
<1>5. p \notin Range(ptrlist) /\ p \notin Range(b2a)
  BY <1>4, PlaceNames, HomeNames
<1>6. PICK m \in Message : m = contents[p]
  BY DEF Values
<1>7. PICK c : c = m.from + clen - 1
  OBVIOUS
<1>8. /\ m.from \in Nat /\ m.to \in Nat /\ c \in Nat /\ m.from <= c /\ c <= m.to /\ m.from + clen = c + 1
      /\ toCaller' = [from |-> m.from, to |-> c]
  BY <1>2, <1>6, <1>7 DEF Message, Size
<1>9. /\ contents'[p] = [m EXCEPT !.from = c + 1] /\ \A q \in Packets \ {p} : contents'[q] = contents[q]
  BY <1>2, <1>6, <1>8 DEF Values
<1>10. contents'[p].from = c + 1 /\ contents'[p].to = m.to /\ contents'[p].cmd = m.cmd
  BY <1>6, <1>9 DEF Message
<1>11. p \in Wrtes /\ p \in Wrtes'
  <2>1. p \in Wrtes
    BY <1>4 DEF DownInv, Holding
  <2>2. QED
    BY <1>6, <1>10, <2>1 DEF Wrtes
<1>12. Moved(p, "last")
  BY <1>3, <1>4 DEF Still, Moved
<1>13. Ordered(ptrlist', contents', Wrtes') /\ Ordered(b2a', contents', Wrtes')
  BY <1>3, <1>5, <1>9, OrderStays DEF DownInv, Values
<1>14. Others(p) /\ \A s \in Stages : Carries(p, s)' <=> s = "last"
  BY <1>3, <1>9, <1>11, <1>12, <1>13, MovedOthers
<1>15. Carries(p, "last") /\ (\A s \in Stages : Carries(p, s) => s = "last")
  BY <1>4, <1>11, HomeNames DEF Carries
<1>16. \A q \in Packets \ {p} : ~Carries(q, "client") /\ ~Carries(q, "last")
  BY <1>1, <1>3, OneReader, PlaceNames DEF Carries
<1>17. DownInv' /\ contents[p].from = toCaller.to + 1 /\ c <= fromDevice
  BY <1>3, <1>6, <1>8, <1>10, <1>14, <1>15, <1>16, Delivered
<1>18. toCaller'.from = m.from /\ toCaller'.to = c
  BY <1>8
<1>19. QED
  BY <1>3, <1>6, <1>8, <1>17, <1>18

LEMMA ShellAppendDown ==
    ASSUME TypeInv, DownInv, ShellAppend
    PROVE  /\ DownInv' /\ fromDevice' = fromDevice
           /\ toCaller'.from = toCaller.to + 1 /\ toCaller'.from <= toCaller'.to /\ toCaller'.to <= fromDevice
<1> USE DEF TypeInv
<1>1. PICK p \in Packets : p = hand["client"]
  BY DEF ShellAppend, Values, Threads
<1>2. PICK h \in Memory : Moved(p, h)
  BY <1>1, ShellAppendTypes
<1>3. \A q \in Packets \ {p} : contents'[q] = contents[q]
  BY <1>1, ShellAppendTypes DEF WipedAt, Values
<1>4. /\ UNCHANGED <<b2a, ptrlist, pc, pump, fromDevice>> /\ pc = "shell_recv"
      /\ toCaller' = [from |-> contents[p].from, to |-> contents[p].to]
  BY <1>1 DEF ShellAppend, channel, Span
<1>5. Lies(p, "client") /\ \A l \in Homes : Lies(p, l) => l = "client"
  BY <1>1, PlaceNames, OnlyThere, HomeNames DEF Threads
<1>6. p \notin Range(ptrlist) /\ p \notin Range(b2a)
  BY <1>5, PlaceNames, HomeNames
<1>7. Ordered(ptrlist', contents', Wrtes') /\ Ordered(b2a', contents', Wrtes')
  BY <1>3, <1>4, <1>6, OrderStays DEF DownInv, Values
<1>8. h \notin {"ptrlist", "last", "client", "user", "b2a", "output"}
  BY DEF Memory
<1>9. Others(p) /\ \A m \in Stages : ~Carries(p, m)'
  <2>1. Others(p) /\ \A m \in Stages : Carries(p, m)' <=> m = h /\ p \in Wrtes' /\ (h = "client" => pc' = "shell_recv")
    BY <1>2, <1>3, <1>4, <1>7, <1>8, MovedOthers
  <2>2. QED
    BY <1>8, <2>1 DEF Stages
<1>10. Carries(p, "client") /\ \A m \in Stages : Carries(p, m) => m = "client"
  BY <1>4, <1>5, HomeNames DEF Carries, DownInv, Holding
<1>11. \A q \in Packets \ {p} : ~Carries(q, "client") /\ ~Carries(q, "last")
  BY <1>1, <1>4, OneReader, PlaceNames DEF Carries, Threads
<1>12. PICK b \in Nat, c \in Nat : b = contents[p].from /\ c = contents[p].to
  BY Numbers
<1>13. b <= c
  BY <1>10, <1>12 DEF DownInv, Bounded, Stages
<1>14. toCaller' = [from |-> b, to |-> c]
  BY <1>4, <1>12
<1>15. DownInv' /\ b = toCaller.to + 1 /\ c <= fromDevice
  BY <1>4, <1>9, <1>10, <1>11, <1>12, <1>13, <1>14, Delivered
<1>16. toCaller'.from = b /\ toCaller'.to = c
  BY <1>14
<1>17. QED
  BY <1>4, <1>13, <1>15, <1>16

LEMMA TypeSetDown ==
    ASSUME TypeInv, DownInv, Closing, NEW type \in Kinds, TypeSet(type)
    PROVE  DownInv'
<1> USE DEF TypeInv
<1>1. /\ pc = "idle" /\ pc' = "idle" /\ biptype = "close" /\ fromDevice' = 0 /\ toCaller' = [from |-> 0, to |-> 0] /\ b2a' = b2a
  BY DEF TypeSet, Nothing
<1>2. /\ ptrlist' = <<>>
      /\ \A q \in Packets : ~Cleared(q) => \A k \in Homes : Lies(q, k)' <=> Lies(q, k)
      /\ \A q \in Packets : Cleared(q) => \E h \in Memory : \A k \in Homes : Lies(q, k)' <=> k = h
      /\ contents' = [p \in Packets |-> IF Cleared(p) THEN Blank ELSE contents[p]]
  BY TypeSetMoves
<1>3. \A q \in Packets : ~Heard(q)
  BY <1>1 DEF Closing
<1>4. /\ \A q \in Packets : q \in Wrtes' => q \in Wrtes /\ ~Cleared(q)
      /\ Wrtes \subseteq Talkers
  BY <1>2 DEF Wrtes, Talkers, Blank
<1>5. \A q \in Packets, k \in Stages : ~Carries(q, k)'
  <2>1. SUFFICES ASSUME NEW q \in Packets, NEW k \in Stages, Lies(q, k)', q \in Wrtes', k # "client" PROVE FALSE
    BY <1>1 DEF Carries
  <2>2. Lies(q, k) /\ q \in Talkers /\ ~Cleared(q)
    BY <1>2, <1>4, <2>1, HomeNames
  <2>3. k \in {"output", "b2a", "user"}
    BY <2>1, <2>2 DEF Stages, Cleared
  <2>4. QED
    BY <1>3, <2>2, <2>3 DEF Heard
<1>6. Holding'
  <2>1. \A q \in Packets : ~Lies(q, "ptrlist")' /\ ~Lies(q, "last")'
    <3>1. SUFFICES ASSUME NEW q \in Packets PROVE ~Lies(q, "ptrlist")' /\ ~Lies(q, "last")'
      OBVIOUS
    <3>2. CASE Cleared(q)
      BY <1>2, <3>2, HomeNames DEF Memory
    <3>3. CASE ~Cleared(q)
      BY <1>2, <3>3, HomeNames DEF Cleared
    <3>4. QED
      BY <3>2, <3>3
  <2>2. QED
    BY <1>1, <2>1 DEF Holding
<1>7. Bounded' /\ NoGap' /\ InOrder'
  BY <1>1, <1>5 DEF Bounded, NoGap, InOrder
<1>8. Whole'
  BY <1>1 DEF Whole
<1>9. Ordered(ptrlist', contents', Wrtes')
  BY <1>2 DEF Ordered
<1>10. Ordered(b2a', contents', Wrtes')
  <2>1. \A x \in Range(b2a) : x \notin Wrtes'
    <3>1. SUFFICES ASSUME NEW x \in Range(b2a), x \in Wrtes' PROVE FALSE
      OBVIOUS
    <3>2. x \in Packets
      BY <3>1 DEF Wrtes
    <3>3. Lies(x, "b2a") /\ x \in Talkers
      BY <1>4, <3>1, <3>2, PlaceNames
    <3>4. QED
      BY <1>3, <3>2, <3>3 DEF Heard
  <2>2. QED
    BY <1>1, <2>1 DEF Ordered, Range
<1>11. QED
  BY <1>6, <1>7, <1>8, <1>9, <1>10 DEF DownInv

-------------------------------------------------------------------------------
(* What is heard of a stream.                                              *)
Mouths == {"output", "b2a", "user"}

LEMMA ClosingKept ==
    ASSUME Closing, b2a' = b2a, biptype' = biptype, live' => live, Values,
           \A q \in Packets, k \in Mouths : Lies(q, k)' /\ q \in Talkers' => Lies(q, k) /\ contents'[q] = contents[q]
    PROVE  Closing'
<1>1. \A q \in Packets, k \in Mouths : Lies(q, k)' /\ q \in Talkers' => q \in Talkers /\ (q \in Closes' <=> q \in Closes)
  BY DEF Talkers, Closes
<1>2. Closes' \subseteq Talkers'
  BY DEF Closes, Talkers
<1>3. \A q \in Packets : Heard(q)' => Heard(q) /\ (q \in Closes' <=> q \in Closes)
  BY <1>1 DEF Heard, Mouths
<1>4. biptype' = "close" => ~live' /\ \A p \in Packets : ~Heard(p)'
  BY <1>3 DEF Closing
<1>5. live' => \A p \in Packets : Heard(p)' => p \notin Closes'
  BY <1>3 DEF Closing
<1>6. \A p, q \in Packets : Lies(p, "user")' /\ p \in Closes' /\ Heard(q)' => q = p
  BY <1>1, <1>2, <1>3 DEF Closing, Mouths
<1>7. \A p, q \in Packets : Lies(p, "b2a")' /\ p \in Closes' /\ Lies(q, "output")' => q \notin Talkers'
  BY <1>1, <1>2 DEF Closing, Mouths
<1>8. Ends(b2a', Closes', Talkers')
  <2>1. \A x \in Range(b2a) : x \in Packets /\ Lies(x, "b2a")'
    <3>1. Range(b2a') = Range(b2a) /\ Range(b2a) \subseteq Packets
      BY DEF Values, Range
    <3>2. QED
      BY <3>1, PlaceNamesNext
  <2>2. \A x \in Range(b2a) : (x \in Closes' => x \in Closes) /\ (x \in Talkers' => x \in Talkers)
    BY <1>1, <1>2, <2>1 DEF Mouths
  <2>3. QED
    BY <2>2, EndKept DEF Closing
<1>9. QED
  BY <1>4, <1>5, <1>6, <1>7, <1>8 DEF Closing

LEMMA ClosingMoved ==
    ASSUME Closing, b2a' = b2a, biptype' = biptype, live' => live, Values,
           NEW p \in Packets, NEW h, Moved(p, h), \A q \in Packets \ {p} : contents'[q] = contents[q],
           h \in Mouths => p \notin Talkers'
    PROVE  Closing'
<1>1. \A q \in Packets, k \in Mouths : Lies(q, k)' /\ q \in Talkers' => Lies(q, k) /\ contents'[q] = contents[q]
  BY HomeNames DEF Moved, Mouths
<1>2. QED
  BY <1>1, ClosingKept

LEMMA ClosingStill ==
    ASSUME Closing, b2a' = b2a, biptype' = biptype, live' => live, Values, Still, contents' = contents
    PROVE  Closing'
<1>1. \A q \in Packets, k \in Mouths : Lies(q, k)' => Lies(q, k)
  BY HomeNames DEF Still, Mouths
<1>2. QED
  BY <1>1, ClosingKept

LEMMA ClosingBack ==
    ASSUME Closing, TypeInv, NEW t \in Threads, hand[t] # None, PutBack(hand[t]), Holds(t, None),
           UNCHANGED <<b2a, a2b, ptrlist, last_apacket, biptype>>, live' => live
    PROVE  Closing'
<1> USE DEF TypeInv
<1>1. PICK p \in Packets : p = hand[t]
  BY DEF Values
<1>2. PICK h \in Memory : Moved(p, h)
  BY <1>1, BackMoves
<1>3. contents' = [contents EXCEPT ![p] = Blank]
  BY <1>1, BackMoves DEF WipedAt
<1>4. (\A q \in Packets \ {p} : contents'[q] = contents[q]) /\ h \notin Mouths
  BY <1>3 DEF Values, Memory, Mouths
<1>5. QED
  BY <1>2, <1>4, ClosingMoved

LEMMA ClosingOutput ==
    ASSUME TypeInv, DownInv, Closing, Output
    PROVE  Closing'
<1> USE DEF TypeInv
<1>0. /\ {"output", "user", "client", "input"} = Threads /\ Threads \subseteq Homes /\ Memory \subseteq Homes
      /\ Mouths \subseteq Homes
  BY HomeNames DEF Threads, Memory, Closing, Mouths
<1>1. CASE OutputGet
  <2>1. PICK p \in Packets : /\ Moved(p, "output")
                             /\ contents' = [contents EXCEPT ![p] = IF pump = "off" THEN Sync ELSE Blank]
    BY <1>1, OutputGetMoves
  <2>2. /\ \A q \in Packets \ {p} : contents'[q] = contents[q]
        /\ p \notin Talkers'
    BY <2>1 DEF Values, Talkers, Sync, Blank
  <2>3. UNCHANGED <<b2a, biptype, live, kicked>>
    BY <1>1 DEF OutputGet, channel
  <2>4. QED
    BY <1>0, <2>1, <2>2, <2>3, ClosingMoved
<1>2. ASSUME NEW k \in 1..MaxPayload, DeviceSend(k) PROVE Closing'
  <2>1. UsbRead(Data(stream, fromDevice + 1, fromDevice + k)) /\ live /\ live' = live
    BY <1>0, <1>2 DEF DeviceSend
  <2>2. PICK p \in Packets : p = hand["output"]
    BY <2>1 DEF UsbRead, UsbReading, Values, Threads
  <2>3. contents'[p].cmd = "WRTE" /\ contents' = [contents EXCEPT ![p] = Data(stream, fromDevice + 1, fromDevice + k)]
    BY <2>1, <2>2 DEF UsbRead, Values, Data
  <2>4. Still /\ UNCHANGED <<b2a, hand, biptype, kicked>>
    BY <2>1, NotMoving DEF UsbRead, channel
  <2>5. /\ \A q \in Packets \ {p} : contents'[q] = contents[q]
        /\ \A q \in Packets \ {p} : (q \in Closes' <=> q \in Closes) /\ (q \in Talkers' <=> q \in Talkers)
        /\ p \notin Closes'
    BY <2>3 DEF Values, Closes, Talkers
  <2>6. \A q \in Packets, k1 \in Mouths : Lies(q, k1) /\ q \in Closes => FALSE
    BY <2>1 DEF Closing, Heard, Mouths, Closes, Talkers
  <2>7. \A q \in Packets, k1 \in Mouths : ~(Lies(q, k1)' /\ q \in Closes')
    BY <1>0, <2>4, <2>5, <2>6 DEF Still
  <2>8. biptype' # "close"
    BY <2>1, <2>4 DEF Closing
  <2>9. \A x \in Range(b2a) : x \notin Closes'
    <3>1. \A x \in Range(b2a) : x \in Packets /\ Lies(x, "b2a")'
      <4>1. Range(b2a') = Range(b2a) /\ Range(b2a) \subseteq Packets
        BY <2>4 DEF Values, Range
      <4>2. QED
        BY <4>1, PlaceNamesNext
    <3>2. QED
      BY <2>7, <3>1 DEF Mouths
  <2>10. Ends(b2a', Closes', Talkers')
    BY <2>4, <2>9 DEF Ends, Range
  <2>11. QED
    BY <2>1, <2>4, <2>7, <2>8, <2>10 DEF Closing, Heard, Mouths
<1>3. CASE DeviceClose
  <2>1. UsbRead(Clse(stream)) /\ live /\ live' = FALSE
    BY <1>3 DEF DeviceClose
  <2>2. PICK p \in Packets : p = hand["output"]
    BY <2>1 DEF UsbRead, UsbReading, Values, Threads
  <2>3. contents' = [contents EXCEPT ![p] = Clse(stream)]
    BY <2>1, <2>2 DEF UsbRead
  <2>4. Still /\ UNCHANGED <<b2a, hand, biptype, kicked>>
    BY <2>1, NotMoving DEF UsbRead, channel
  <2>5. \A q \in Packets \ {p} : (q \in Closes' <=> q \in Closes) /\ (q \in Talkers' <=> q \in Talkers)
    BY <2>3 DEF Values, Closes, Talkers
  <2>6. \A q \in Packets, k1 \in Mouths : Lies(q, k1) /\ q \in Closes => FALSE
    BY <2>1 DEF Closing, Heard, Mouths, Closes, Talkers
  <2>7. Lies(p, "output") /\ \A l \in Homes : Lies(p, l) => l = "output"
    BY <1>0, <2>2, PlaceNames, OnlyThere
  <2>8. \A q \in Packets : ~(Lies(q, "b2a")' /\ q \in Closes') /\ ~(Lies(q, "user")' /\ q \in Closes')
    BY <1>0, <2>4, <2>5, <2>6, <2>7 DEF Still, Mouths
  <2>9. biptype' # "close"
    BY <2>1, <2>4 DEF Closing
  <2>10. \A x \in Range(b2a) : x \notin Closes'
    <3>1. \A x \in Range(b2a) : x \in Packets /\ Lies(x, "b2a")'
      <4>1. Range(b2a') = Range(b2a) /\ Range(b2a) \subseteq Packets
        BY <2>4 DEF Values, Range
      <4>2. QED
        BY <4>1, PlaceNamesNext
    <3>2. QED
      BY <2>8, <3>1
  <2>11. Ends(b2a', Closes', Talkers')
    BY <2>4, <2>10 DEF Ends, Range
  <2>12. QED
    BY <2>1, <2>8, <2>9, <2>11 DEF Closing
<1>4. CASE UsbReadFails
  <2>1. /\ hand["output"] # None /\ PutBack(hand["output"]) /\ Holds("output", None)
        /\ UNCHANGED <<b2a, a2b, ptrlist, last_apacket, biptype, kicked, live>>
    BY <1>4 DEF UsbReadFails, UsbReading, channel
  <2>2. QED
    BY <1>0, <2>1, ClosingBack
<1>5. CASE OutputWrite
  <2>1. hand["output"] # None /\ UNCHANGED <<biptype, live, kicked>>
    BY <1>5 DEF OutputWrite, channel
  <2>2. PICK p \in Packets : p = hand["output"]
    BY <2>1 DEF Values, Threads
  <2>3. CASE kicked
    <3>1. PICK h \in Memory \cup {"lost"} : Moved(p, h)
      BY <1>5, <2>2, <2>3, OutputWriteMoves
    <3>2. (\A q \in Packets \ {p} : contents'[q] = contents[q]) /\ h \notin Mouths
      BY <1>5, <2>2, <2>3, OutputWriteMoves DEF WipedAt, Values, Memory, Mouths
    <3>3. b2a' = b2a
      BY <1>5, <2>3 DEF OutputWrite, Push
    <3>4. QED
      BY <1>0, <2>1, <3>1, <3>2, <3>3, ClosingMoved
  <2>4. CASE ~kicked
    <3>1. Moved(p, "b2a") /\ contents' = contents /\ b2a' = Append(b2a, p)
      BY <1>5, <2>2, <2>4, OutputWriteMoves DEF OutputWrite, Push
    <3>2. Closes' = Closes /\ Talkers' = Talkers
      BY <3>1 DEF Closes, Talkers
    <3>3. Lies(p, "output") /\ \A q \in Packets : Lies(q, "output") => q = p
      BY <1>0, <2>2, PlaceNames
    <3>4. /\ \A q \in Packets \ {p}, k \in Mouths : Lies(q, k)' <=> Lies(q, k)
          /\ ~Lies(p, "output")' /\ ~Lies(p, "user")' /\ Lies(p, "b2a")'
      BY <1>0, <3>1, HomeNames DEF Moved
    <3>5. \A q \in Packets : Heard(q)' <=> Heard(q)
      BY <3>2, <3>3, <3>4 DEF Heard, Mouths
    <3>6. \A x \in Range(b2a) : x \in Closes => p \notin Talkers
      <4>1. \A x \in Range(b2a) : x \in Packets /\ Lies(x, "b2a")
        BY PlaceNames DEF Values, Range
      <4>2. QED
        BY <3>3, <4>1 DEF Closing
    <3>7. Ends(b2a', Closes', Talkers')
      BY <3>1, <3>2, <3>6, EndAppended DEF Closing, Values
    <3>8. \A p1, q \in Packets : Lies(p1, "user")' /\ p1 \in Closes' /\ Heard(q)' => q = p1
      BY <3>2, <3>4, <3>5 DEF Closing, Mouths
    <3>9. \A q \in Packets : ~Lies(q, "output")'
      BY <3>3, <3>4 DEF Mouths
    <3>10. QED
      BY <2>1, <3>2, <3>5, <3>7, <3>8, <3>9 DEF Closing
  <2>5. QED
    BY <2>3, <2>4
<1>6. QED
  BY <1>1, <1>2, <1>3, <1>4, <1>5 DEF Output

\* A stream of which nothing is heard.
LEMMA ClosingSilent ==
    ASSUME \A q \in Packets : ~Heard(q)', ~live' \/ biptype' # "close", b2a' \in Seq(Packets)
    PROVE  Closing'
<1>1. Closes' \subseteq Talkers'
  BY DEF Closes, Talkers
<1>2. \A x \in Range(b2a') : x \notin Talkers'
  <2>1. Range(b2a') \subseteq Packets
    BY DEF Range
  <2>2. QED
    BY <2>1, PlaceNamesNext DEF Heard
<1>3. Ends(b2a', Closes', Talkers')
  BY <1>2 DEF Ends, Range
<1>4. \A p \in Packets : p \in Closes' => ~Lies(p, "user")' /\ ~Lies(p, "b2a")'
  BY <1>1 DEF Heard
<1>5. QED
  BY <1>3, <1>4 DEF Closing

LEMMA ClosingUser ==
    ASSUME TypeInv, DownInv, Closing, User
    PROVE  Closing'
<1> USE DEF TypeInv
<1>0. /\ {"output", "user", "client", "input"} = Threads /\ Threads \subseteq Homes /\ Memory \subseteq Homes
      /\ Mouths \subseteq Homes /\ b2a \in Seq(Packets)
  BY HomeNames DEF Threads, Memory, Closing, Mouths, Values
<1>1. CASE UserRead
  <2>1. PICK p \in Packets : p = Head(b2a) /\ Lies(p, "b2a") /\ Moved(p, "user") /\ contents' = contents
    BY <1>1, UserReadMoves
  <2>2. b2a # <<>> /\ b2a' = Tail(b2a) /\ hand["user"] = None /\ UNCHANGED <<biptype, live, kicked>>
    BY <1>1 DEF UserRead, ReadPacket, channel
  <2>3. Closes' = Closes /\ Talkers' = Talkers
    BY <2>1 DEF Closes, Talkers
  <2>4. /\ \A q \in Packets \ {p}, k \in Mouths : Lies(q, k)' <=> Lies(q, k)
        /\ ~Lies(p, "output")' /\ Lies(p, "user")' /\ ~Lies(p, "b2a")'
    BY <1>0, <2>1, HomeNames DEF Moved
  <2>5. \A q \in Packets : ~Lies(q, "user")
    BY <1>0, <2>2, PlaceNames, PacketNames
  <2>6. \A q \in Packets : Heard(q)' <=> Heard(q)
    <3>1. \A q \in Packets \ {p} : Heard(q)' <=> Heard(q)
      BY <2>3, <2>4 DEF Heard, Mouths
    <3>2. Heard(p)' <=> Heard(p)
      BY <2>1, <2>3, <2>4 DEF Heard
    <3>3. QED
      BY <3>1, <3>2
  <2>7. ASSUME p \in Closes, NEW q \in Packets, Heard(q), q # p PROVE FALSE
    <3>1. CASE Lies(q, "output")
      BY <2>1, <2>7, <3>1 DEF Closing, Heard
    <3>2. CASE Lies(q, "b2a")
      <4>1. q \in Range(Tail(b2a))
        BY <1>0, <2>1, <2>2, <2>7, <3>2, PlaceNames, HeadTaken DEF Apart
      <4>2. QED
        BY <1>0, <2>1, <2>2, <2>7, <4>1, EndTaken DEF Closing, Heard
    <3>3. QED
      BY <2>5, <2>7, <3>1, <3>2 DEF Heard
  <2>8. \A p1, q \in Packets : Lies(p1, "user")' /\ p1 \in Closes' /\ Heard(q)' => q = p1
    <3>1. \A p1 \in Packets : Lies(p1, "user")' => p1 = p
      BY <2>4, <2>5 DEF Mouths
    <3>2. QED
      BY <2>3, <2>6, <2>7, <3>1
  <2>9. \A p1, q \in Packets : Lies(p1, "b2a")' /\ p1 \in Closes' /\ Lies(q, "output")' => q \notin Talkers'
    <3>1. \A q \in Packets : (Lies(q, "b2a")' => Lies(q, "b2a")) /\ (Lies(q, "output")' => Lies(q, "output"))
      BY <2>4 DEF Mouths
    <3>2. QED
      BY <2>3, <3>1 DEF Closing
  <2>10. Ends(b2a', Closes', Talkers')
    BY <1>0, <2>2, <2>3, EndTaken DEF Closing
  <2>11. QED
    BY <2>2, <2>3, <2>6, <2>8, <2>9, <2>10 DEF Closing
<1>2. CASE LocalClientEnqueue
  <2>1. PICK p \in Packets : Moved(p, "ptrlist") /\ contents' = contents
    BY <1>2, LocalClientEnqueueMoves
  <2>2. UNCHANGED <<b2a, biptype, live, kicked>> /\ "ptrlist" \notin Mouths
    BY <1>2 DEF LocalClientEnqueue, Mouths
  <2>3. QED
    BY <1>0, <2>1, <2>2, ClosingMoved
<1>3. CASE HandleClse
  <2>1. /\ hand["user"] # None /\ PutBack(hand["user"]) /\ Holds("user", None)
        /\ UNCHANGED <<b2a, a2b, ptrlist, last_apacket, live>> /\ contents[hand["user"]].cmd = "CLSE"
    BY <1>3 DEF HandleClse
  <2>2. PICK p \in Packets : p = hand["user"]
    BY <2>1 DEF Values, Threads
  <2>3. PICK h \in Memory : Moved(p, h)
    BY <1>0, <2>1, <2>2, BackMoves
  <2>4. contents' = [contents EXCEPT ![p] = Blank]
    BY <1>0, <2>1, <2>2, BackMoves DEF WipedAt
  <2>5. p \in Closes /\ p \in Talkers
    BY <2>1, <2>2 DEF Closes, Talkers
  <2>6. Lies(p, "user") /\ Heard(p)
    BY <1>0, <2>2, <2>5, PlaceNames DEF Heard
  <2>7. ~live
    BY <2>5, <2>6 DEF Closing
  <2>8. \A q \in Packets : Heard(q)' => Heard(q) /\ q # p
    <3>1. p \notin Talkers'
      BY <2>4 DEF Talkers, Values, Blank
    <3>2. \A q \in Packets \ {p} : q \in Talkers' <=> q \in Talkers
      BY <2>4 DEF Talkers, Values
    <3>3. \A q \in Packets \ {p}, k \in Mouths : Lies(q, k)' <=> Lies(q, k)
      BY <1>0, <2>3 DEF Moved
    <3>4. QED
      BY <3>1, <3>2, <3>3 DEF Heard, Mouths
  <2>9. \A q \in Packets : ~Heard(q)'
    BY <2>5, <2>6, <2>8 DEF Closing
  <2>10. QED
    BY <1>0, <2>1, <2>7, <2>9, ClosingSilent
<1>4. CASE HandleSync
  <2>1. hand["user"] # None /\ UNCHANGED <<b2a, biptype, live, kicked>>
    BY <1>4 DEF HandleSync, Push, channel
  <2>2. PICK p \in Packets : p = hand["user"]
    BY <2>1 DEF Values, Threads
  <2>3. PICK h \in Memory \cup {"a2b", "lost"} : Moved(p, h)
    BY <1>4, <2>2, HandleSyncMoves
  <2>4. (\A q \in Packets \ {p} : contents'[q] = contents[q]) /\ h \notin Mouths
    BY <1>4, <2>2, HandleSyncMoves DEF WipedAt, Values, Memory, Mouths
  <2>5. QED
    BY <1>0, <2>1, <2>3, <2>4, ClosingMoved
<1>5. QED
  BY <1>1, <1>2, <1>3, <1>4 DEF User

LEMMA ClosingClient ==
    ASSUME TypeInv, Closing, Read \/ Shell \/ Write \/ ShellLine \/ Kick \/ (\E n \in Sizes : ReadBegin(n) \/ WriteBegin(n))
    PROVE  Closing'
<1> USE DEF TypeInv
<1>0. /\ {"output", "user", "client", "input"} = Threads
      /\ \A h \in Memory \cup {"client", "last", "a2b", "lost"} : h \notin Mouths
  BY DEF Threads, Closing, Memory, Mouths
<1>1. CASE \/ Kick \/ (\E n \in Sizes : ReadBegin(n) \/ WriteBegin(n))
           \/ ReadReturn \/ ShellRecvBegin \/ ShellEmpty \/ ShellReturn \/ WriteReturn
           \/ WriteTest /\ ~Refused
           \/ ShellPop /\ ptrlist = <<>>
  <2>1. Still
    BY <1>1, CallsTypes
  <2>2. UNCHANGED <<contents, b2a, biptype>> /\ (live' => live)
    BY <1>0, <1>1 DEF Kick, KickTransport, ReadBegin, WriteBegin, ReadReturn, ShellRecvBegin, ShellEmpty, ShellReturn, WriteReturn, WriteTest,
                      ShellPop, memory, channel
  <2>3. QED
    BY <2>1, <2>2, ClosingStill
<1>2. CASE ReadCopy
  <2>1. PICK p \in Packets : p = last_apacket
    BY <1>2 DEF ReadCopy, Values
  <2>2. PICK clen : contents' = [contents EXCEPT ![p].from = contents[p].from + clen]
    BY <1>2, <2>1, ReadCopyTypes
  <2>3. \A q \in Packets \ {p} : contents'[q] = contents[q]
    BY <2>2 DEF Values
  <2>4. Still /\ UNCHANGED <<b2a, biptype, live, kicked>>
    BY <1>2, ReadCopyTypes DEF ReadCopy, channel
  <2>5. \A l \in Homes : Lies(p, l) <=> l = "last"
    BY <2>1, PlaceNames, OnlyThere, HomeNames
  <2>6. Moved(p, "last")
    BY <2>4, <2>5 DEF Still, Moved
  <2>7. QED
    BY <1>0, <2>3, <2>4, <2>6, ClosingMoved
<1>3. CASE ReadDrop
  <2>1. PICK p \in Packets : p = last_apacket
    BY <1>3 DEF ReadDrop, Values
  <2>2. PICK h \in Memory : Moved(p, h)
    BY <1>3, <2>1, ReadDropTypes
  <2>3. \A q \in Packets \ {p} : contents'[q] = contents[q]
    BY <1>3, <2>1, ReadDropTypes DEF WipedAt, Values
  <2>4. UNCHANGED <<b2a, biptype, live, kicked>>
    BY <1>3 DEF ReadDrop
  <2>5. QED
    BY <1>0, <2>2, <2>3, <2>4, ClosingMoved
<1>4. CASE ReadPop
  <2>1. PICK p \in Packets : Moved(p, "last") /\ contents' = contents
    BY <1>4, ReadPopMoves
  <2>2. UNCHANGED <<b2a, biptype, live, kicked>>
    BY <1>4 DEF ReadPop
  <2>3. QED
    BY <1>0, <2>1, <2>2, ClosingMoved
<1>5. CASE ShellPop /\ ptrlist # <<>>
  <2>1. PICK p \in Packets : Moved(p, "client") /\ contents' = contents
    BY <1>5, ShellPopMoves
  <2>2. UNCHANGED <<b2a, biptype, live, kicked>>
    BY <1>5 DEF ShellPop
  <2>3. QED
    BY <1>0, <2>1, <2>2, ClosingMoved
<1>6. CASE ShellAppend
  BY <1>0, <1>6, ClosingBack DEF ShellAppend, channel
<1>7. CASE WriteFill
  <2>1. PICK p \in Packets, to \in Nat : Moved(p, "client") /\ contents' = [contents EXCEPT ![p] = Data(stream, written + 1, to)]
    BY <1>7, WriteFillMoves
  <2>2. UNCHANGED <<b2a, biptype, live, kicked>>
    BY <1>7 DEF WriteFill, channel
  <2>3. \A q \in Packets \ {p} : contents'[q] = contents[q]
    BY <2>1 DEF Values
  <2>4. QED
    BY <1>0, <2>1, <2>2, <2>3, ClosingMoved
<1>8. CASE WriteTest /\ Refused
  BY <1>0, <1>8, ClosingBack DEF WriteTest, channel
<1>9. CASE WritePush
  <2>1. hand["client"] # None /\ UNCHANGED <<b2a, biptype, live, kicked>>
    BY <1>9 DEF WritePush, channel, Calling
  <2>2. PICK p \in Packets : p = hand["client"]
    BY <2>1 DEF Values, Threads
  <2>3. PICK h \in Memory \cup {"a2b", "lost"} : Moved(p, h)
    BY <1>9, <2>1, <2>2, WritePushMoves
  <2>4. \A q \in Packets \ {p} : contents'[q] = contents[q]
    BY <1>9, <2>1, <2>2, WritePushMoves DEF WipedAt, Values
  <2>5. QED
    BY <1>0, <2>1, <2>3, <2>4, ClosingMoved
<1>10. CASE ShellLine
  <2>1. PICK p \in Packets : Moved(p, "lost")
    BY <1>10, ShellLineMoves
  <2>2. UNCHANGED <<b2a, biptype, live, kicked, contents>>
    BY <1>10 DEF ShellLine, channel
  <2>3. QED
    BY <1>0, <2>1, <2>2, ClosingMoved
<1>11. QED
  BY <1>1, <1>2, <1>3, <1>4, <1>5, <1>6, <1>7, <1>8, <1>9, <1>10 DEF Read, Shell, Write

LEMMA ClosingOther ==
    ASSUME TypeInv, Closing, Input \/ \E type \in Kinds : TypeSet(type)
    PROVE  Closing'
<1> USE DEF TypeInv
<1>0. {"output", "user", "client", "input"} = Threads /\ Mouths \subseteq Homes /\ "close" \notin Kinds
  BY DataPathAssumption, HomeNames DEF Threads, Closing, Mouths
<1>1. CASE InputRead
  <2>1. PICK p \in Packets : Moved(p, "input") /\ contents' = contents
    BY <1>1, InputReadMoves
  <2>2. UNCHANGED <<b2a, biptype, live, kicked>> /\ "input" \notin Mouths
    BY <1>1 DEF InputRead, ReadPacket, channel, Mouths
  <2>3. QED
    BY <1>0, <2>1, <2>2, ClosingMoved
<1>2. CASE InputOffline
  BY <1>0, <1>2, ClosingBack DEF InputOffline, KickTransport, channel
<1>3. CASE InputWrite
  BY <1>0, <1>3, ClosingBack DEF InputWrite, channel
<1>4. ASSUME NEW type \in Kinds, TypeSet(type) PROVE Closing'
  <2>1. biptype = "close" /\ biptype' = type /\ live' = ~kicked /\ UNCHANGED <<b2a, kicked>>
    BY <1>4 DEF TypeSet
  <2>2. /\ \A q \in Packets : ~Cleared(q) => \A k \in Homes : Lies(q, k)' <=> Lies(q, k)
        /\ contents' = [p \in Packets |-> IF Cleared(p) THEN Blank ELSE contents[p]]
    BY <1>4, TypeSetMoves
  <2>3. \A q \in Packets : q \in Talkers' => q \in Talkers /\ ~Cleared(q)
    BY <2>2 DEF Talkers, Blank
  <2>4. \A q \in Packets : Heard(q)' => Heard(q)
    BY <1>0, <2>2, <2>3 DEF Heard, Mouths
  <2>5. \A q \in Packets : ~Heard(q)'
    BY <2>1, <2>4 DEF Closing
  <2>6. b2a' \in Seq(Packets)
    BY <2>1 DEF Values
  <2>7. biptype' # "close"
    BY <1>0, <2>1
  <2>8. QED
    BY <2>1, <2>5, <2>6, <2>7, ClosingSilent
<1>5. QED
  BY <1>1, <1>2, <1>3, <1>4 DEF Input

LEMMA DownStart == Init => DownInv /\ Closing
<1> SUFFICES ASSUME Init PROVE DownInv /\ Closing
  OBVIOUS
<1>1. /\ \A p \in Packets : contents[p] = Blank
      /\ ptrlist = <<>> /\ b2a = <<>> /\ toCaller.to = 0 /\ fromDevice = 0 /\ ~live
  BY DEF Init, Nothing
<1>2. Wrtes = {} /\ Talkers = {} /\ Closes = {}
  BY <1>1 DEF Wrtes, Talkers, Closes, Blank
<1>3. \A p \in Packets, k \in Stages : ~Carries(p, k)
  BY <1>2 DEF Carries
<1>4. Holding
  <2>1. \A t \in Threads : hand[t] = None
    BY DEF Init
  <2>2. \A p \in Packets : ~Lies(p, "ptrlist") /\ ~Lies(p, "last") /\ ~Lies(p, "client")
    BY <2>1, PlaceNames, PacketNames DEF Init, Range, Threads
  <2>3. QED
    BY <2>2 DEF Holding
<1>5. Ordered(ptrlist, contents, Wrtes) /\ Ordered(b2a, contents, Wrtes) /\ Ends(b2a, Closes, Talkers)
  BY <1>2 DEF Ordered, Ends
<1>6. Bounded /\ NoGap /\ InOrder /\ Whole
  BY <1>1, <1>3 DEF Bounded, NoGap, InOrder, Whole
<1>7. QED
  BY <1>1, <1>2, <1>4, <1>5, <1>6 DEF DownInv, Closing, Heard

LEMMA DownStep ==
    ASSUME TypeInv, DownInv, Closing, [Next]_vars
    PROVE  DownInv' /\ Closing'
<1>1. CASE Output
  BY <1>1, OutputDown, ClosingOutput
<1>2. CASE User
  BY <1>2, UserDown, ClosingUser
<1>3. CASE Input
  BY <1>3, InputDown, ClosingOther
<1>4. CASE Kick
  BY <1>4, CallsDown, ClosingClient
<1>5. ASSUME NEW type \in Kinds, TypeSet(type) PROVE DownInv' /\ Closing'
  BY <1>5, TypeSetDown, ClosingOther
<1>6. CASE \E n \in Sizes : ReadBegin(n) \/ WriteBegin(n)
  BY <1>6, CallsDown, ClosingClient
<1>7. CASE Read \/ Shell \/ Write \/ ShellLine
  <2>1. Closing'
    BY <1>7, ClosingClient
  <2>2. CASE Read
    BY <2>1, <2>2, ReadDropDown, ReadCopyDown, ReadPopDown, CallsDown DEF Read
  <2>3. CASE Shell
    BY <2>1, <2>3, ReadPopDown, ShellAppendDown, CallsDown DEF Shell
  <2>4. CASE Write \/ ShellLine
    BY <2>1, <2>4, WriteDown, CallsDown DEF Write
  <2>5. QED
    BY <1>7, <2>2, <2>3, <2>4
<1>8. CASE UNCHANGED vars
  <2>1. /\ UNCHANGED <<contents, hand, heap, pool, b2a, a2b, ptrlist, last_apacket>>
        /\ UNCHANGED <<toCaller, fromDevice, pump, pc, biptype, live>>
    BY <1>8 DEF vars, memory, channel, client, down
  <2>2. Still
    BY <2>1, NotMoving
  <2>3. QED
    BY <2>1, <2>2, QuietCall, ClosingStill DEF TypeInv
<1>9. QED
  BY <1>1, <1>2, <1>3, <1>4, <1>5, <1>6, <1>7, <1>8 DEF Next

-------------------------------------------------------------------------------
(* What a step may do to the packets on their way to the device.           *)
Outward == {"a2b", "input"}

\* Nothing is added to them, and what goes stays until a write has failed.
LEMMA UpKept ==
    ASSUME Values, UpInv, UNCHANGED <<written, toDevice, stream, a2b>>, live' => live,
           \A q \in Packets, k \in Outward : Lies(q, k)' => Lies(q, k) /\ contents'[q] = contents[q],
           live' /\ intact' => intact /\ \A q \in Mine : Goes(q) => Goes(q)'
    PROVE  UpInv'
<1>1. \A q \in Packets : Goes(q)' => Goes(q) /\ contents'[q] = contents[q] /\ (q \in Mine' <=> q \in Mine)
  BY DEF Goes, Mine, Outward
<1>2. /\ toDevice'.to <= written'
      /\ \A p \in Packets : Goes(p)' => contents'[p].n <= stream'
      /\ \A p \in Mine' : Goes(p)' => /\ contents'[p].from <= contents'[p].to /\ contents'[p].to <= written'
                                      /\ live' => toDevice'.to < contents'[p].from
  <2>1. Mine' \subseteq Packets
    BY DEF Mine
  <2>2. QED
    BY <1>1, <2>1 DEF UpInv
<1>3. Ordered(a2b', contents', Mine')
  <2>1. \A x \in Range(a2b) : x \in Packets /\ Lies(x, "a2b")'
    <3>1. Range(a2b') = Range(a2b) /\ Range(a2b) \subseteq Packets
      BY DEF Values, Range
    <3>2. QED
      BY <3>1, PlaceNamesNext
  <2>2. \A x \in Range(a2b) : x \in Mine' => x \in Mine /\ contents'[x] = contents[x]
    BY <1>1, <2>1 DEF Goes
  <2>3. QED
    BY <2>2, OrderKept DEF UpInv
<1>4. \A p, q \in Mine' : Lies(p, "input")' /\ Lies(q, "a2b")' => contents'[p].to < contents'[q].from
  <2>1. SUFFICES ASSUME NEW p \in Mine', NEW q \in Mine', Lies(p, "input")', Lies(q, "a2b")'
                 PROVE contents'[p].to < contents'[q].from
    OBVIOUS
  <2>2. p \in Packets /\ q \in Packets
    BY DEF Mine
  <2>3. Lies(p, "input") /\ Lies(q, "a2b") /\ contents'[p] = contents[p] /\ contents'[q] = contents[q]
    BY <2>1, <2>2 DEF Outward
  <2>4. p \in Mine /\ q \in Mine
    BY <2>2, <2>3 DEF Mine
  <2>5. QED
    BY <2>3, <2>4 DEF UpInv
<1>5. ASSUME live', intact' PROVE \A b \in Nat : toDevice'.to < b /\ b <= written' => Going(b)'
  <2>1. \A q \in Mine : Goes(q) => q \in Packets /\ Goes(q)'
    BY <1>5 DEF Mine
  <2>2. \A b : Going(b) => Going(b)'
    BY <1>1, <2>1 DEF Going, Has
  <2>3. QED
    BY <1>5, <2>2 DEF UpInv
<1>6. QED
  BY <1>2, <1>3, <1>4, <1>5 DEF UpInv

\* A packet moves elsewhere.
LEMMA UpMoved ==
    ASSUME Values, UpInv, UNCHANGED <<written, toDevice, intact, stream, a2b>>, live' => live, Apart,
           NEW p \in Packets, NEW h, Moved(p, h), h \notin Outward, NEW k \in Homes, Lies(p, k), k \notin Outward,
           \A q \in Packets \ {p} : contents'[q] = contents[q]
    PROVE  UpInv'
<1>1. \A l \in Outward : l \in Homes /\ ~Lies(p, l) /\ ~Lies(p, l)'
  BY OnlyThere, HomeNames DEF Moved, Outward
<1>2. \A q \in Packets, l \in Outward : (Lies(q, l)' <=> Lies(q, l)) /\ (Lies(q, l) => contents'[q] = contents[q])
  BY <1>1 DEF Moved
<1>3. \A q \in Packets : Goes(q) => Goes(q)'
  BY <1>2 DEF Goes, Outward
<1>4. Mine \subseteq Packets
  BY DEF Mine
<1>5. QED
  BY <1>2, <1>3, <1>4, UpKept

LEMMA UpStill ==
    ASSUME Values, UpInv, UNCHANGED <<written, toDevice, intact, stream, a2b, contents>>, live' => live, Still
    PROVE  UpInv'
<1>1. \A q \in Packets, l \in Outward : Lies(q, l)' <=> Lies(q, l)
  BY HomeNames DEF Still, Outward
<1>2. \A q \in Packets : Goes(q) => Goes(q)'
  BY <1>1 DEF Goes, Outward
<1>3. Mine \subseteq Packets
  BY DEF Mine
<1>4. QED
  BY <1>1, <1>2, <1>3, UpKept

\* A packet is put back by a thread other than input_thread.
LEMMA UpBack ==
    ASSUME TypeInv, UpInv, NEW t \in Threads, t # "input", hand[t] # None, PutBack(hand[t]), Holds(t, None),
           UNCHANGED <<written, toDevice, intact, stream, a2b, b2a, ptrlist, last_apacket>>, live' => live
    PROVE  UpInv'
<1> USE DEF TypeInv
<1>1. PICK p \in Packets : p = hand[t]
  BY DEF Values
<1>2. PICK h \in Memory : Moved(p, h)
  BY <1>1, BackMoves
<1>3. contents' = [contents EXCEPT ![p] = Blank]
  BY <1>1, BackMoves DEF WipedAt
<1>4. Lies(p, t) /\ t \in Homes /\ t \notin Outward /\ h \notin Outward
  BY <1>1, PlaceNames, HomeNames DEF Threads, Outward, Memory
<1>5. \A q \in Packets \ {p} : contents'[q] = contents[q]
  BY <1>3 DEF Values
<1>6. QED
  BY <1>2, <1>4, <1>5, UpMoved

\* A packet is put behind the others: data of the stream, which follows what was written,
\* or a SYNC.
LEMMA UpAdded ==
    ASSUME Values, UpInv, UNCHANGED <<toDevice, intact, stream, contents, live>>,
           NEW p \in Packets, ~Goes(p), a2b' = Append(a2b, p), Moved(p, "a2b"), NEW w \in Nat, w = written', written <= w,
           contents[p].n <= stream, p \notin Mine => w = written,
           p \in Mine => contents[p].from = written + 1 /\ contents[p].from <= contents[p].to /\ contents[p].to = w
    PROVE  UpInv'
<1>1. PICK v \in Nat : v = written
  BY Numbers
<1>2. Mine' = Mine /\ Mine \subseteq Packets
  BY DEF Mine
<1>3. /\ \A q \in Packets \ {p} : /\ (Lies(q, "a2b")' <=> Lies(q, "a2b")) /\ (Lies(q, "input")' <=> Lies(q, "input"))
                                  /\ (Goes(q)' <=> Goes(q))
      /\ Lies(p, "a2b")' /\ ~Lies(p, "input")' /\ Goes(p)'
  BY HomeNames DEF Moved, Goes
<1>4. PICK d \in Nat : d = toDevice.to
  BY Numbers
<1>5. \A q \in Packets : contents[q].from \in Nat /\ contents[q].to \in Nat
  BY Numbers
<1>6. d <= v /\ v <= w /\ (live => \A q \in Mine : Goes(q) => d < contents[q].from)
      /\ \A q \in Mine : Goes(q) => contents[q].from <= contents[q].to /\ contents[q].to <= v
  BY <1>1, <1>4 DEF UpInv
<1>7. \A q \in Mine' : Goes(q)' => /\ contents'[q].from <= contents'[q].to /\ contents'[q].to <= w
                                   /\ live' => d < contents'[q].from
  BY <1>1, <1>2, <1>3, <1>4, <1>5, <1>6
<1>8. \A q \in Packets : Goes(q)' => contents'[q].n <= stream'
  BY <1>3 DEF UpInv
<1>9. Ordered(a2b', contents', Mine')
  <2>1. a2b \in Seq(Packets) /\ \A x \in Range(a2b) : x \in Packets /\ Lies(x, "a2b")
    BY PlaceNames DEF Values, Range
  <2>2. \A x \in Range(a2b) : x \in Mine /\ p \in Mine => contents[x].to < contents[p].from
    BY <1>1, <1>5, <1>6, <2>1 DEF Goes
  <2>3. QED
    BY <1>2, <2>1, <2>2, OrderAppended DEF UpInv
<1>10. \A x, q \in Mine' : Lies(x, "input")' /\ Lies(q, "a2b")' => contents'[x].to < contents'[q].from
  <2>1. SUFFICES ASSUME NEW x \in Mine, NEW q \in Mine, Lies(x, "input")', Lies(q, "a2b")'
                 PROVE contents[x].to < contents[q].from
    BY <1>2
  <2>2. x # p /\ Lies(x, "input")
    BY <1>2, <1>3, <2>1
  <2>3. CASE q = p
    BY <1>1, <1>2, <1>5, <1>6, <2>2, <2>3 DEF Goes
  <2>4. CASE q # p
    BY <1>2, <1>3, <2>1, <2>2, <2>4 DEF UpInv
  <2>5. QED
    BY <2>3, <2>4
<1>11. ASSUME live', intact', NEW b \in Nat, d < b, b <= w PROVE Going(b)'
  <2>1. CASE b <= v
    <3>1. Going(b)
      BY <1>1, <1>4, <1>11, <2>1 DEF UpInv
    <3>2. PICK q \in Mine : Goes(q) /\ Has(q, b)
      BY <3>1 DEF Going
    <3>3. q \in Mine' /\ Goes(q)' /\ Has(q, b)'
      BY <1>2, <1>3, <3>2 DEF Has
    <3>4. QED
      BY <3>3 DEF Going
  <2>2. CASE ~(b <= v)
    <3>1. p \in Mine
      BY <1>1, <1>11, <2>2
    <3>2. Has(p, b)'
      BY <1>1, <1>5, <1>11, <2>2, <3>1 DEF Has
    <3>3. QED
      BY <1>2, <1>3, <3>1, <3>2 DEF Going
  <2>3. QED
    BY <2>1, <2>2
<1>12. QED
  BY <1>4, <1>6, <1>7, <1>8, <1>9, <1>10, <1>11 DEF UpInv

LEMMA InputReadUp ==
    ASSUME TypeInv, UpInv, InputRead
    PROVE  UpInv'
<1> USE DEF TypeInv
<1>1. PICK p \in Packets : p = Head(a2b) /\ Lies(p, "a2b") /\ Moved(p, "input") /\ contents' = contents
  BY InputReadMoves
<1>2. /\ a2b # <<>> /\ a2b' = Tail(a2b) /\ hand["input"] = None /\ a2b \in Seq(Packets)
      /\ UNCHANGED <<toDevice, intact, stream, live, written>>
  BY DEF InputRead, ReadPacket, client, up, Values
<1>3. Mine' = Mine /\ Mine \subseteq Packets
  BY <1>1, <1>2 DEF Mine
<1>4. /\ \A q \in Packets \ {p} : (Lies(q, "a2b")' <=> Lies(q, "a2b")) /\ (Lies(q, "input")' <=> Lies(q, "input"))
      /\ ~Lies(p, "a2b")' /\ Lies(p, "input")'
  BY <1>1, HomeNames DEF Moved
<1>5. \A q \in Packets : ~Lies(q, "input")
  BY <1>2, PlaceNames, PacketNames DEF Threads
<1>6. \A q \in Packets : Goes(q)' <=> Goes(q)
  BY <1>1, <1>4, <1>5 DEF Goes
<1>7. Ordered(a2b', contents', Mine') /\ \A x \in Range(Tail(a2b)) : x \in Mine /\ p \in Mine => contents[p].to < contents[x].from
  BY <1>1, <1>2, <1>3, OrderTaken DEF UpInv
<1>8. \A x, q \in Mine' : Lies(x, "input")' /\ Lies(q, "a2b")' => contents'[x].to < contents'[q].from
  <2>1. SUFFICES ASSUME NEW x \in Mine, NEW q \in Mine, Lies(x, "input")', Lies(q, "a2b")'
                 PROVE contents[x].to < contents[q].from
    BY <1>1, <1>3
  <2>2. x = p
    BY <1>3, <1>4, <1>5, <2>1
  <2>3. q \in Range(Tail(a2b))
    BY <1>2, <2>1, PlaceNamesNext
  <2>4. QED
    BY <1>7, <2>2, <2>3
<1>9. \A b : Going(b)' <=> Going(b)
  BY <1>1, <1>3, <1>6 DEF Going, Has
<1>10. /\ toDevice'.to <= written'
       /\ \A q \in Packets : Goes(q)' => contents'[q].n <= stream'
       /\ \A q \in Mine' : Goes(q)' => /\ contents'[q].from <= contents'[q].to /\ contents'[q].to <= written'
                                       /\ live' => toDevice'.to < contents'[q].from
  BY <1>1, <1>2, <1>3, <1>6 DEF UpInv
<1>11. live' /\ intact' => \A b \in Nat : toDevice'.to < b /\ b <= written' => Going(b)'
  BY <1>2, <1>9 DEF UpInv
<1>12. QED
  BY <1>7, <1>8, <1>10, <1>11 DEF UpInv

\* What input_thread has in hand is put back.
LEMMA InputBack ==
    ASSUME TypeInv, NEW p \in Packets, p = hand["input"], PutBack(p), Holds("input", None),
           UNCHANGED <<a2b, b2a, ptrlist, last_apacket>>
    PROVE  /\ Lies(p, "input") /\ ~Lies(p, "a2b") /\ ~Lies(p, "a2b")'
           /\ \A q \in Packets : ~Lies(q, "input")'
           /\ \A q \in Packets \ {p} : ~Lies(q, "input") /\ (Lies(q, "a2b")' <=> Lies(q, "a2b")) /\ contents'[q] = contents[q]
<1> USE DEF TypeInv
<1>1. "input" \in Threads /\ hand["input"] # None
  BY PacketNames DEF Threads
<1>2. PICK h \in Memory : Moved(p, h)
  BY <1>1, BackMoves
<1>3. contents' = [contents EXCEPT ![p] = Blank]
  BY <1>1, BackMoves DEF WipedAt
<1>4. Lies(p, "input") /\ ~Lies(p, "a2b") /\ ~Lies(p, "a2b")' /\ ~Lies(p, "input")'
  BY <1>1, <1>2, PlaceNames, OnlyThere, HomeNames DEF Moved, Memory
<1>5. \A q \in Packets \ {p} : ~Lies(q, "input") /\ (Lies(q, "a2b")' <=> Lies(q, "a2b")) /\ (Lies(q, "input")' <=> Lies(q, "input"))
  BY <1>1, <1>2, PlaceNames, HomeNames DEF Moved
<1>6. \A q \in Packets \ {p} : contents'[q] = contents[q]
  BY <1>3 DEF Values
<1>7. QED
  BY <1>4, <1>5, <1>6

\* A packet of the open stream reaches the device.
LEMMA Arrived ==
    ASSUME TypeInv, UpInv, NEW p \in Packets, p = hand["input"], PutBack(p), Holds("input", None),
           UNCHANGED <<a2b, b2a, ptrlist, last_apacket, intact, written, live, stream>>,
           live, p \in Mine, toDevice' = Span(p)
    PROVE  /\ UpInv'
           /\ toDevice'.from > toDevice.to /\ toDevice'.from <= toDevice'.to /\ toDevice'.to <= written
           /\ intact => toDevice'.from = toDevice.to + 1
<1> USE DEF TypeInv
<1>1. /\ Lies(p, "input") /\ ~Lies(p, "a2b") /\ ~Lies(p, "a2b")'
      /\ \A q \in Packets : ~Lies(q, "input")'
      /\ \A q \in Packets \ {p} : ~Lies(q, "input") /\ (Lies(q, "a2b")' <=> Lies(q, "a2b")) /\ contents'[q] = contents[q]
  BY InputBack
<1>2. PICK f \in Nat, t \in Nat : f = contents[p].from /\ t = contents[p].to
  BY Numbers
<1>3. PICK d \in Nat, w \in Nat : d = toDevice.to /\ w = written
  BY Numbers
<1>4. toDevice'.from = f /\ toDevice'.to = t
  BY <1>2 DEF Span
<1>5. f <= t /\ t <= w /\ d < f
  BY <1>1, <1>2, <1>3 DEF UpInv, Goes
<1>6. /\ \A q \in Packets : Goes(q)' => q # p /\ Lies(q, "a2b") /\ Goes(q) /\ contents'[q] = contents[q]
      /\ \A q \in Packets : Goes(q) /\ q # p => Goes(q)' /\ Lies(q, "a2b") /\ contents'[q] = contents[q]
      /\ Mine \subseteq Packets /\ Mine' \subseteq Packets
      /\ \A q \in Packets : contents'[q] = contents[q] => (q \in Mine' <=> q \in Mine)
  BY <1>1 DEF Goes, Mine
<1>7. \A q \in Mine : Lies(q, "a2b") => t < contents[q].from
  BY <1>1, <1>2 DEF UpInv
<1>8. \A q \in Packets : Goes(q)' => contents'[q].n <= stream'
  BY <1>6 DEF UpInv
<1>9. \A q \in Mine' : Goes(q)' => /\ contents'[q].from <= contents'[q].to /\ contents'[q].to <= written'
                                   /\ t < contents'[q].from
  BY <1>6, <1>7 DEF UpInv
<1>10. Ordered(a2b', contents', Mine')
  <2>1. \A x \in Range(a2b) : x \in Packets /\ Lies(x, "a2b")
    BY PlaceNames, SMTT(60) DEF Values, Range
  <2>2. \A x \in Range(a2b) : x \in Mine' => x \in Mine /\ contents'[x] = contents[x]
    BY <1>1, <1>6, <2>1
  <2>3. QED
    BY <2>2, OrderKept DEF UpInv
<1>11. \A x, q \in Mine' : Lies(x, "input")' /\ Lies(q, "a2b")' => contents'[x].to < contents'[q].from
  BY <1>1, <1>6
<1>12. ASSUME intact, NEW b \in Nat, t < b, b <= w PROVE Going(b)'
  <2>1. Going(b)
    BY <1>3, <1>5, <1>12 DEF UpInv
  <2>2. PICK q \in Mine : Goes(q) /\ Has(q, b)
    BY <2>1 DEF Going
  <2>3. q # p
    BY <1>2, <1>12, <2>2 DEF Has
  <2>4. q \in Mine' /\ Goes(q)' /\ Has(q, b)'
    BY <1>6, <2>2, <2>3 DEF Has
  <2>5. QED
    BY <2>4 DEF Going
<1>13. UpInv'
  <2>1. toDevice'.to <= written'
    BY <1>3, <1>4, <1>5
  <2>2. QED
    BY <1>3, <1>4, <1>8, <1>9, <1>10, <1>11, <1>12, <2>1 DEF UpInv
<1>14. ASSUME intact PROVE f = d + 1
  <2>1. SUFFICES ASSUME d + 1 < f PROVE FALSE
    BY <1>5
  <2>2. d + 1 \in Nat /\ d < d + 1 /\ d + 1 <= w
    BY <1>5, <2>1
  <2>3. Going(d + 1)
    BY <1>3, <1>14, <2>2 DEF UpInv
  <2>4. PICK q \in Mine : Goes(q) /\ Has(q, d + 1)
    BY <2>3 DEF Going
  <2>5. q # p
    BY <1>2, <2>1, <2>4 DEF Has
  <2>6. t < contents[q].from /\ contents[q].from \in Nat
    BY <1>6, <1>7, <2>4, <2>5, Numbers
  <2>7. QED
    BY <1>5, <2>1, <2>4, <2>6 DEF Has
<1>15. QED
  BY <1>3, <1>4, <1>5, <1>13, <1>14

LEMMA InputWriteUp ==
    ASSUME TypeInv, UpInv, InputWrite
    PROVE  /\ UpInv' /\ UNCHANGED written
           /\ \/ UNCHANGED <<toDevice, intact>>
              \/ intact' = FALSE /\ UNCHANGED toDevice
              \/ /\ toDevice'.from > toDevice.to /\ toDevice'.from <= toDevice'.to /\ toDevice'.to <= written
                 /\ intact => toDevice'.from = toDevice.to + 1
                 /\ UNCHANGED intact
<1> USE DEF TypeInv
<1>1. PICK p \in Packets : p = hand["input"]
  BY DEF InputWrite, Values, Threads
<1>2. /\ PutBack(p) /\ Holds("input", None) /\ UNCHANGED <<a2b, b2a, ptrlist, last_apacket, written, live, stream>>
      /\ \/ live /\ p \in Mine /\ toDevice' = Span(p) /\ UNCHANGED intact
         \/ ~(live /\ p \in Mine) /\ UNCHANGED <<toDevice, intact>>
         \/ intact' = (intact /\ p \notin Mine) /\ UNCHANGED toDevice
  BY <1>1 DEF InputWrite, channel, client, Mine
<1>3. CASE live /\ p \in Mine /\ toDevice' = Span(p) /\ UNCHANGED intact
  BY <1>1, <1>2, <1>3, Arrived
<1>4. CASE ~(live /\ p \in Mine /\ toDevice' = Span(p) /\ UNCHANGED intact)
  <2>1. /\ Lies(p, "input") /\ ~Lies(p, "a2b") /\ ~Lies(p, "a2b")'
        /\ \A q \in Packets : ~Lies(q, "input")'
        /\ \A q \in Packets \ {p} : ~Lies(q, "input") /\ (Lies(q, "a2b")' <=> Lies(q, "a2b")) /\ contents'[q] = contents[q]
    BY <1>1, <1>2, InputBack
  <2>2. \A q \in Packets, k \in Outward : Lies(q, k)' => Lies(q, k) /\ contents'[q] = contents[q]
    BY <2>1 DEF Outward
  <2>3. \A q \in Packets : Goes(q) /\ q # p => Goes(q)'
    BY <2>1 DEF Goes
  <2>4. UNCHANGED toDevice /\ (UNCHANGED intact \/ intact' = FALSE) /\ (live' /\ intact' => intact /\ p \notin Mine)
    <3>1. CASE ~(live /\ p \in Mine) /\ UNCHANGED <<toDevice, intact>>
      <4>1. live' => p \notin Mine
        BY <1>2, <3>1
      <4>2. QED
        BY <3>1, <4>1
    <3>2. CASE intact' = (intact /\ p \notin Mine) /\ UNCHANGED toDevice
      <4>1. intact' => intact /\ p \notin Mine
        BY <3>2, Zenon
      <4>2. CASE p \in Mine
        <5>1. intact' = FALSE
          BY <3>2, <4>2
        <5>2. QED
          BY <3>2, <4>1, <5>1
      <4>3. CASE p \notin Mine
        <5>1. intact' = intact
          BY <3>2, <4>3 DEF Values
        <5>2. QED
          BY <3>2, <4>1, <5>1
      <4>4. QED
        BY <4>2, <4>3
    <3>3. QED
      BY <1>2, <1>4, <3>1, <3>2
  <2>5. live' /\ intact' => intact /\ \A q \in Mine : Goes(q) => Goes(q)'
    BY <2>3, <2>4 DEF Mine
  <2>6. UpInv'
    BY <1>2, <2>2, <2>4, <2>5, UpKept
  <2>7. QED
    BY <1>2, <2>4, <2>6
<1>5. QED
  BY <1>3, <1>4

LEMMA InputOfflineUp ==
    ASSUME TypeInv, UpInv, InputOffline
    PROVE  UpInv'
<1> USE DEF TypeInv
<1>1. PICK p \in Packets : p = hand["input"]
  BY DEF InputOffline, KickTransport, Values, Threads
<1>2. /\ PutBack(p) /\ Holds("input", None)
      /\ UNCHANGED <<a2b, b2a, ptrlist, last_apacket, written, stream, toDevice, intact, live>>
  BY <1>1 DEF InputOffline, KickTransport, channel, client, up
<1>3. p \notin Mine
  BY <1>1 DEF InputOffline, Mine, Sync
<1>4. /\ ~Lies(p, "a2b")' /\ \A q \in Packets : ~Lies(q, "input")'
      /\ \A q \in Packets \ {p} : ~Lies(q, "input") /\ (Lies(q, "a2b")' <=> Lies(q, "a2b")) /\ contents'[q] = contents[q]
  BY <1>1, <1>2, InputBack
<1>5. \A q \in Packets, k \in Outward : Lies(q, k)' => Lies(q, k) /\ contents'[q] = contents[q]
  BY <1>4 DEF Outward
<1>6. \A q \in Mine : Goes(q) => Goes(q)'
  BY <1>3, <1>4 DEF Goes, Mine
<1>7. QED
  BY <1>2, <1>5, <1>6, UpKept

LEMMA TypeSetUp ==
    ASSUME TypeInv, UpInv, NEW type \in Kinds, TypeSet(type)
    PROVE  UpInv'
<1> USE DEF TypeInv
<1>1. /\ stream' = stream + 1 /\ written' = 0 /\ toDevice' = [from |-> 0, to |-> 0] /\ a2b' = a2b
      /\ stream \in Nat
  BY DataPathAssumption DEF TypeSet, Nothing, Values
<1>2. /\ \A q \in Packets : ~Cleared(q) => \A k \in Homes : Lies(q, k)' <=> Lies(q, k)
      /\ \A q \in Packets : Cleared(q) => \E h \in Memory : \A k \in Homes : Lies(q, k)' <=> k = h
      /\ contents' = [p \in Packets |-> IF Cleared(p) THEN Blank ELSE contents[p]]
  BY TypeSetMoves
<1>3. \A q \in Packets : Goes(q)' => Goes(q) /\ contents'[q] = contents[q]
  BY <1>2, HomeNames DEF Goes, Memory
<1>4. \A q \in Packets : contents[q].n \in Nat
  BY DataPathAssumption DEF Values, Message
<1>5. \A q \in Packets : Goes(q)' => contents'[q].n < stream' /\ contents'[q].n <= stream'
  BY <1>1, <1>3, <1>4 DEF UpInv
<1>6. \A q \in Mine' : q \in Packets /\ contents'[q].n = stream'
  BY DEF Mine
<1>7. \A q \in Mine' : ~Goes(q)'
  BY <1>1, <1>4, <1>5, <1>6
<1>8. Ordered(a2b', contents', Mine')
  <2>1. Range(a2b') \subseteq Packets
    BY <1>1 DEF Values, Range
  <2>2. \A x \in Range(a2b') : x \notin Mine'
    BY <1>7, <2>1, PlaceNamesNext DEF Goes
  <2>3. QED
    BY <2>2 DEF Ordered, Range
<1>9. QED
  BY <1>1, <1>5, <1>7, <1>8 DEF UpInv, Goes

LEMMA OutputUp ==
    ASSUME TypeInv, UpInv, Output
    PROVE  UpInv'
<1> USE DEF TypeInv
<1>0. /\ "output" \in Threads /\ "output" # "input" /\ "output" \in Homes /\ Memory \subseteq Homes
      /\ \A h \in Memory \cup {"output", "b2a", "lost"} : h \notin Outward
  BY HomeNames DEF Threads, Memory, Outward
<1>1. CASE OutputGet
  <2>1. PICK p \in Packets : /\ Moved(p, "output") /\ (\E h \in Memory : Lies(p, h))
                             /\ contents' = [contents EXCEPT ![p] = IF pump = "off" THEN Sync ELSE Blank]
    BY <1>1, OutputGetMoves
  <2>2. PICK k \in Memory : Lies(p, k)
    BY <2>1
  <2>3. \A q \in Packets \ {p} : contents'[q] = contents[q]
    BY <2>1 DEF Values
  <2>4. UNCHANGED <<written, toDevice, intact, stream, a2b, live>>
    BY <1>1 DEF OutputGet, client, up
  <2>5. QED
    BY <1>0, <2>1, <2>2, <2>3, <2>4, UpMoved
<1>2. ASSUME NEW m, UsbRead(m), live' => live PROVE UpInv'
  <2>1. PICK p \in Packets : p = hand["output"]
    BY <1>2 DEF UsbRead, UsbReading, Values, Threads
  <2>2. /\ contents' = [contents EXCEPT ![p] = m]
        /\ UNCHANGED <<hand, heap, pool, b2a, a2b, ptrlist, last_apacket, written, toDevice, intact, stream>>
    BY <1>2, <2>1 DEF UsbRead, channel, client, up
  <2>3. \A l \in Homes : Lies(p, l) <=> l = "output"
    BY <1>0, <2>1, PlaceNames, OnlyThere, HomeNames
  <2>4. Moved(p, "output")
    BY <2>2, <2>3, NotMoving DEF Still, Moved
  <2>5. \A q \in Packets \ {p} : contents'[q] = contents[q]
    BY <2>2 DEF Values
  <2>6. QED
    BY <1>0, <1>2, <2>2, <2>3, <2>4, <2>5, UpMoved
<1>3. CASE UsbReadFails
  BY <1>0, <1>3, UpBack DEF UsbReadFails, UsbReading, client, up, channel
<1>4. CASE OutputWrite
  <2>1. PICK p \in Packets : p = hand["output"]
    BY <1>4, OutputWriteMoves
  <2>2. PICK h \in Memory \cup {"b2a", "lost"} : Moved(p, h)
    BY <1>4, <2>1, OutputWriteMoves
  <2>3. \A q \in Packets \ {p} : contents'[q] = contents[q]
    BY <1>4, <2>1, OutputWriteMoves DEF WipedAt, Values
  <2>4. Lies(p, "output")
    BY <1>0, <2>1, PlaceNames
  <2>5. UNCHANGED <<written, toDevice, intact, stream, a2b, live>>
    BY <1>4 DEF OutputWrite, Push, client, up
  <2>6. QED
    BY <1>0, <2>2, <2>3, <2>4, <2>5, UpMoved
<1>5. CASE \E k \in 1..MaxPayload : DeviceSend(k)
  BY <1>2, <1>5 DEF DeviceSend
<1>6. CASE DeviceClose
  BY <1>2, <1>6 DEF DeviceClose
<1>7. QED
  BY <1>1, <1>3, <1>4, <1>5, <1>6 DEF Output

LEMMA UserUp ==
    ASSUME TypeInv, UpInv, User
    PROVE  UpInv'
<1> USE DEF TypeInv
<1>0. /\ "user" \in Threads /\ "user" # "input" /\ {"user", "b2a"} \subseteq Homes /\ Memory \subseteq Homes
      /\ \A h \in Memory \cup {"user", "b2a", "ptrlist", "lost"} : h \notin Outward
  BY HomeNames DEF Threads, Memory, Outward
<1>1. CASE UserRead
  <2>1. PICK p \in Packets : Lies(p, "b2a") /\ Moved(p, "user") /\ contents' = contents
    BY <1>1, UserReadMoves
  <2>2. UNCHANGED <<written, toDevice, intact, stream, a2b, live>>
    BY <1>1 DEF UserRead, ReadPacket, client, up
  <2>3. QED
    BY <1>0, <2>1, <2>2, UpMoved
<1>2. CASE LocalClientEnqueue
  <2>1. PICK p \in Packets : p = hand["user"] /\ Moved(p, "ptrlist") /\ contents' = contents
    BY <1>2, LocalClientEnqueueMoves
  <2>2. UNCHANGED <<written, toDevice, intact, stream, a2b, live>> /\ Lies(p, "user")
    BY <1>0, <1>2, <2>1, PlaceNames DEF LocalClientEnqueue, client, up
  <2>3. QED
    BY <1>0, <2>1, <2>2, UpMoved
<1>3. CASE HandleClse
  BY <1>0, <1>3, UpBack DEF HandleClse, client, up
<1>4. CASE HandleSync
  <2>1. PICK p \in Packets : p = hand["user"]
    BY <1>4, HandleSyncMoves
  <2>2. Lies(p, "user") /\ \A l \in Homes : Lies(p, l) => l = "user"
    BY <1>0, <2>1, PlaceNames, OnlyThere
  <2>3. UNCHANGED <<written, toDevice, intact, stream, live, kicked>> /\ Push("user", Append(a2b, p), b2a) /\ contents[p] = Sync
    BY <1>4, <2>1 DEF HandleSync, client, up
  <2>4. CASE ~kicked
    <3>1. Moved(p, "a2b") /\ contents' = contents /\ a2b' = Append(a2b, p)
      BY <1>4, <2>1, <2>3, <2>4, HandleSyncMoves DEF Push
    <3>2. ~Goes(p)
      BY <2>2, HomeNames DEF Goes
    <3>3. p \notin Mine /\ contents[p].n <= stream
      BY <2>3, DataPathAssumption DEF Mine, Sync, Values
    <3>4. PICK w \in Nat : w = written
      BY Numbers
    <3>5. QED
      BY <2>3, <3>1, <3>2, <3>3, <3>4, UpAdded
  <2>5. CASE kicked
    <3>1. PICK h \in Memory \cup {"lost"} : Moved(p, h)
      BY <1>4, <2>1, <2>5, HandleSyncMoves
    <3>2. \A q \in Packets \ {p} : contents'[q] = contents[q]
      BY <1>4, <2>1, HandleSyncMoves DEF WipedAt, Values
    <3>3. a2b' = a2b
      BY <2>3, <2>5 DEF Push
    <3>4. QED
      BY <1>0, <2>2, <2>3, <3>1, <3>2, <3>3, UpMoved
  <2>6. QED
    BY <2>4, <2>5
<1>5. QED
  BY <1>1, <1>2, <1>3, <1>4 DEF User

\* The operations of the client that write nothing.
LEMMA ClientUp ==
    ASSUME TypeInv, UpInv, Read \/ Shell \/ Write \/ ShellLine \/ Kick \/ (\E n \in Sizes : ReadBegin(n) \/ WriteBegin(n)),
           ~WritePush
    PROVE  UpInv'
<1> USE DEF TypeInv
<1>0. /\ "client" \in Threads /\ "client" # "input" /\ {"client", "last", "ptrlist"} \subseteq Homes /\ Memory \subseteq Homes
      /\ \A h \in Memory \cup {"client", "last", "ptrlist", "lost"} : h \notin Outward
  BY HomeNames DEF Threads, Memory, Outward
<1>1. CASE \/ Kick \/ (\E n \in Sizes : ReadBegin(n) \/ WriteBegin(n))
           \/ ReadReturn \/ ShellRecvBegin \/ ShellEmpty \/ ShellReturn \/ WriteReturn
           \/ WriteTest /\ ~Refused
           \/ ShellPop /\ ptrlist = <<>>
  <2>1. Still
    BY <1>1, CallsTypes
  <2>2. UNCHANGED <<contents, written, toDevice, intact, stream, a2b>> /\ (live' => live)
    BY <1>1 DEF Kick, KickTransport, ReadBegin, WriteBegin, ReadReturn, ShellRecvBegin, ShellEmpty, ShellReturn, WriteReturn, WriteTest,
                ShellPop, memory, client, up, Call, Return
  <2>3. QED
    BY <2>1, <2>2, UpStill
<1>2. CASE ReadCopy
  <2>1. PICK p \in Packets : p = last_apacket
    BY <1>2 DEF ReadCopy, Values
  <2>2. PICK clen : contents' = [contents EXCEPT ![p].from = contents[p].from + clen]
    BY <1>2, <2>1, ReadCopyTypes
  <2>3. \A q \in Packets \ {p} : contents'[q] = contents[q]
    BY <2>2 DEF Values
  <2>4. Still /\ UNCHANGED <<written, toDevice, intact, stream, a2b, live>>
    BY <1>2, ReadCopyTypes DEF ReadCopy, up
  <2>5. \A l \in Homes : Lies(p, l) <=> l = "last"
    BY <2>1, PlaceNames, OnlyThere, HomeNames
  <2>6. Moved(p, "last")
    BY <2>4, <2>5 DEF Still, Moved
  <2>7. QED
    BY <1>0, <2>3, <2>4, <2>5, <2>6, UpMoved
<1>3. CASE ReadDrop
  <2>1. PICK p \in Packets : p = last_apacket
    BY <1>3 DEF ReadDrop, Values
  <2>2. PICK h \in Memory : Moved(p, h)
    BY <1>3, <2>1, ReadDropTypes
  <2>3. \A q \in Packets \ {p} : contents'[q] = contents[q]
    BY <1>3, <2>1, ReadDropTypes DEF WipedAt, Values
  <2>4. UNCHANGED <<written, toDevice, intact, stream, a2b, live>> /\ Lies(p, "last")
    BY <1>3, <2>1, PlaceNames DEF ReadDrop, client, up
  <2>5. QED
    BY <1>0, <2>2, <2>3, <2>4, UpMoved
<1>4. CASE ReadPop
  <2>1. PICK p \in Packets : Lies(p, "ptrlist") /\ Moved(p, "last") /\ contents' = contents
    BY <1>4, ReadPopMoves
  <2>2. UNCHANGED <<written, toDevice, intact, stream, a2b, live>>
    BY <1>4 DEF ReadPop, client, up
  <2>3. QED
    BY <1>0, <2>1, <2>2, UpMoved
<1>5. CASE ShellPop /\ ptrlist # <<>>
  <2>1. PICK p \in Packets : Lies(p, "ptrlist") /\ Moved(p, "client") /\ contents' = contents
    BY <1>5, ShellPopMoves
  <2>2. UNCHANGED <<written, toDevice, intact, stream, a2b, live>>
    BY <1>5 DEF ShellPop, up
  <2>3. QED
    BY <1>0, <2>1, <2>2, UpMoved
<1>6. CASE ShellAppend
  BY <1>0, <1>6, UpBack DEF ShellAppend, channel, up
<1>7. CASE WriteFill
  <2>1. PICK p \in Packets, to \in Nat : /\ Moved(p, "client") /\ (\E h \in Memory : Lies(p, h))
                              /\ contents' = [contents EXCEPT ![p] = Data(stream, written + 1, to)]
    BY <1>7, WriteFillMoves
  <2>2. UNCHANGED <<written, toDevice, intact, stream, a2b, live>>
    BY <1>7 DEF WriteFill, client, up
  <2>3. \A q \in Packets \ {p} : contents'[q] = contents[q]
    BY <2>1 DEF Values
  <2>4. PICK k \in Memory : Lies(p, k)
    BY <2>1
  <2>5. QED
    BY <1>0, <2>1, <2>2, <2>3, <2>4, UpMoved
<1>8. CASE WriteTest /\ Refused
  BY <1>0, <1>8, UpBack DEF WriteTest, channel, up, Return, Call
<1>9. CASE ShellLine
  <2>1. PICK p \in Packets : Moved(p, "lost") /\ \E h \in Memory : Lies(p, h)
    BY <1>9, ShellLineMoves
  <2>2. UNCHANGED <<written, toDevice, intact, stream, a2b, live, contents>>
    BY <1>9 DEF ShellLine, up
  <2>3. PICK k \in Memory : Lies(p, k)
    BY <2>1
  <2>4. QED
    BY <1>0, <2>1, <2>2, <2>3, UpMoved
<1>10. QED
  BY <1>1, <1>2, <1>3, <1>4, <1>5, <1>6, <1>7, <1>8, <1>9 DEF Read, Shell, Write

LEMMA WritePushUp ==
    ASSUME TypeInv, UpInv, WritePush
    PROVE  UpInv' /\ UNCHANGED <<toDevice, intact>> /\ (written' > written \/ UNCHANGED written)
<1> USE DEF TypeInv
<1>1. PICK p \in Packets : p = hand["client"]
  BY WritePushTypes
<1>2. PICK t \in Nat, w \in Nat : t = contents[p].to /\ w = written
  BY Numbers
<1>3. contents[p].cmd = "WRTE" /\ contents[p].n = stream /\ contents[p].from = w + 1 /\ w < t
  BY <1>1, <1>2, WritePushTypes
<1>4. UNCHANGED <<toDevice, intact, stream, live>> /\ hand["client"] # None
  BY DEF WritePush, Calling
<1>5. Lies(p, "client") /\ \A l \in Homes : Lies(p, l) => l = "client"
  BY <1>1, PlaceNames, OnlyThere, HomeNames DEF Threads
<1>6. CASE ~kicked
  <2>1. Moved(p, "a2b") /\ contents' = contents /\ a2b' = Append(a2b, p) /\ written' = t
    BY <1>1, <1>2, <1>4, <1>6, WritePushMoves
  <2>2. ~Goes(p)
    BY <1>5, HomeNames DEF Goes
  <2>3. p \in Mine /\ contents[p].n <= stream
    BY <1>3, DataPathAssumption DEF Mine, Values
  <2>4. UpInv'
    BY <1>2, <1>3, <1>4, <2>1, <2>2, <2>3, UpAdded
  <2>5. QED
    BY <1>2, <1>3, <1>4, <2>1, <2>4
<1>7. CASE kicked
  <2>1. UNCHANGED <<a2b, written>> /\ \E h \in Memory \cup {"lost"} : Moved(p, h)
    BY <1>1, <1>4, <1>7, WritePushMoves
  <2>2. \A q \in Packets \ {p} : contents'[q] = contents[q]
    BY <1>1, <1>4, WritePushMoves DEF WipedAt, Values
  <2>3. \A h \in Memory \cup {"lost", "client"} : h \notin Outward
    BY DEF Memory, Outward
  <2>4. "client" \in Homes
    BY HomeNames
  <2>5. UpInv'
    BY <1>4, <1>5, <2>1, <2>2, <2>3, <2>4, UpMoved
  <2>6. QED
    BY <1>4, <2>1, <2>5
<1>8. QED
  BY <1>6, <1>7

LEMMA UpStart == Init => UpInv
<1> SUFFICES ASSUME Init PROVE UpInv
  OBVIOUS
<1>1. /\ \A p \in Packets : contents[p] = Blank
      /\ a2b = <<>> /\ toDevice.to = 0 /\ written = 0
  BY DEF Init, Nothing
<1>2. Mine = {}
  BY <1>1 DEF Mine, Blank
<1>3. \A p \in Packets : ~Goes(p)
  <2>1. \A t \in Threads : hand[t] = None
    BY DEF Init
  <2>2. QED
    BY <1>1, <2>1, PlaceNames, PacketNames DEF Goes, Range, Threads
<1>4. Ordered(a2b, contents, Mine)
  BY <1>2 DEF Ordered
<1>5. QED
  BY <1>1, <1>2, <1>3, <1>4 DEF UpInv

LEMMA UpStep ==
    ASSUME TypeInv, UpInv, [Next]_vars
    PROVE  UpInv'
<1>1. CASE Output
  BY <1>1, OutputUp
<1>2. CASE User
  BY <1>2, UserUp
<1>3. CASE Input
  BY <1>3, InputReadUp, InputWriteUp, InputOfflineUp DEF Input
<1>4. ASSUME NEW type \in Kinds, TypeSet(type) PROVE UpInv'
  BY <1>4, TypeSetUp
<1>5. CASE Read \/ Shell \/ Write \/ ShellLine \/ Kick \/ (\E n \in Sizes : ReadBegin(n) \/ WriteBegin(n))
  BY <1>5, ClientUp, WritePushUp
<1>6. CASE UNCHANGED vars
  <2>1. UNCHANGED <<contents, hand, heap, pool, b2a, a2b, ptrlist, last_apacket, written, toDevice, intact, stream, live>>
    BY <1>6 DEF vars, memory, channel, client, up
  <2>2. Still
    BY <2>1, NotMoving
  <2>3. QED
    BY <2>1, <2>2, UpStill DEF TypeInv
<1>7. QED
  BY <1>1, <1>2, <1>3, <1>4, <1>5, <1>6 DEF Next

-------------------------------------------------------------------------------
(* Both directions implement ByteStream.                                   *)

\* Where every packet is, what it holds, and that the bytes in both directions are in
\* order on the way.
IInv == TypeInv /\ Losses /\ Reads /\ DownInv /\ Closing /\ UpInv

LEMMA IInvAlways == Spec => []IInv
<1>1. Init => IInv
  BY StartInv, DownStart, UpStart DEF IInv
<1>2. IInv /\ [Next]_vars => IInv'
  BY TypeStep, LossStep, ReadsStep, DownStep, UpStep DEF IInv
<1>3. QED
  BY <1>1, <1>2, PTL DEF Spec

LEMMA DownStartMapped == Init => Down!Init
  BY DEF Init, Down!Init, Nothing, Down!Nothing

LEMMA DownMapped == IInv /\ [Next]_vars => [Down!Next]_(Down!bytes)
<1> SUFFICES ASSUME TypeInv, DownInv, [Next]_vars PROVE [Down!Next]_(Down!bytes)
  BY DEF IInv
<1>1. ASSUME UNCHANGED <<fromDevice, toCaller>> PROVE [Down!Next]_(Down!bytes)
  BY <1>1 DEF Down!bytes
<1>2. CASE \E k \in 1..MaxPayload : DeviceSend(k)
  <2>1. PICK k \in 1..MaxPayload : fromDevice' = fromDevice + k /\ UNCHANGED toCaller
    BY <1>2 DEF DeviceSend, UsbRead
  <2>2. PICK n \in Nat : n = fromDevice
    BY Numbers DEF TypeInv
  <2>3. n + k > n
    BY DataPathAssumption
  <2>4. QED
    BY <2>1, <2>2, <2>3 DEF Down!Next, Down!Put
<1>3. CASE ReadCopy \/ ShellAppend
  <2>1. /\ fromDevice' = fromDevice /\ toCaller'.from = toCaller.to + 1
        /\ toCaller'.from <= toCaller'.to /\ toCaller'.to <= fromDevice
    BY <1>3, ReadCopyDown, ShellAppendDown
  <2>2. toCaller'.from > toCaller.to
    BY <2>1, Numbers DEF TypeInv
  <2>3. QED
    BY <2>1, <2>2 DEF Down!Next, Down!Deliver
<1>4. ASSUME NEW type \in Kinds, TypeSet(type) PROVE [Down!Next]_(Down!bytes)
  BY <1>4 DEF TypeSet, Down!Next, Down!Restart, Nothing, Down!Nothing
<1>5. CASE OutputGet \/ DeviceClose \/ UsbReadFails \/ OutputWrite \/ User \/ Input \/ Kick
  BY <1>1, <1>5 DEF OutputGet, DeviceClose, UsbRead, UsbReadFails, OutputWrite, User, UserRead, ReadPacket, LocalClientEnqueue,
     HandleClse, HandleSync, Input, InputRead, InputOffline, InputWrite, Kick, KickTransport, down
<1>6. CASE (\E n \in Sizes : ReadBegin(n) \/ WriteBegin(n)) \/ ReadDrop \/ ReadPop \/ ReadReturn
  BY <1>1, <1>6 DEF ReadBegin, WriteBegin, ReadDrop, ReadPop, ReadReturn, down
<1>7. CASE ShellRecvBegin \/ ShellPop \/ ShellEmpty \/ ShellReturn \/ Write \/ ShellLine
  BY <1>1, <1>7 DEF ShellRecvBegin, ShellPop, ShellEmpty, ShellReturn, Write, WriteFill, WriteTest, WritePush, WriteReturn,
     ShellLine, down
<1>8. CASE UNCHANGED vars
  BY <1>1, <1>8 DEF vars, down
<1>9. QED
  BY <1>2, <1>3, <1>4, <1>5, <1>6, <1>7, <1>8 DEF Next, Output, Read, Shell

LEMMA UpStartMapped == Init => Up!Init
  BY DEF Init, Up!Init, Nothing, Up!Nothing

LEMMA UpMapped == IInv /\ [Next]_vars => [Up!Next]_(Up!bytes)
<1> SUFFICES ASSUME TypeInv, UpInv, [Next]_vars PROVE [Up!Next]_(Up!bytes)
  BY DEF IInv
<1>1. ASSUME UNCHANGED <<written, toDevice, intact>> PROVE [Up!Next]_(Up!bytes)
  BY <1>1 DEF Up!bytes
<1>2. CASE WritePush
  <2>1. UNCHANGED <<toDevice, intact>> /\ (written' > written \/ UNCHANGED written)
    BY <1>2, WritePushUp
  <2>2. QED
    BY <1>1, <2>1 DEF Up!Next, Up!Put
<1>3. CASE InputWrite
  BY <1>1, <1>3, InputWriteUp DEF Up!Next, Up!Deliver, Up!Tear
<1>4. ASSUME NEW type \in Kinds, TypeSet(type) PROVE [Up!Next]_(Up!bytes)
  BY <1>4 DEF TypeSet, Up!Next, Up!Restart, Nothing, Up!Nothing
<1>5. CASE Output \/ User \/ InputRead \/ InputOffline \/ Kick
  BY <1>1, <1>5 DEF Output, OutputGet, DeviceSend, DeviceClose, UsbRead, UsbReadFails, OutputWrite, User, UserRead, ReadPacket,
     LocalClientEnqueue, HandleClse, HandleSync, InputRead, InputOffline, Kick, KickTransport, up
<1>6. CASE (\E n \in Sizes : ReadBegin(n) \/ WriteBegin(n)) \/ Read
  BY <1>1, <1>6 DEF ReadBegin, WriteBegin, Read, ReadDrop, ReadCopy, ReadPop, ReadReturn, up
<1>7. CASE Shell \/ WriteFill \/ WriteTest \/ WriteReturn \/ ShellLine
  BY <1>1, <1>7 DEF Shell, ShellRecvBegin, ShellPop, ShellAppend, ShellEmpty, ShellReturn, WriteFill, WriteTest, WriteReturn,
     ShellLine, up
<1>8. CASE UNCHANGED vars
  BY <1>1, <1>8 DEF vars, up
<1>9. QED
  BY <1>2, <1>3, <1>4, <1>5, <1>6, <1>7, <1>8 DEF Next, Input, Write

\* What the device sends on a stream reaches the client's calls in order, whole and once:
\* for any number of packets, however they are cut and the calls sized, and nothing of a
\* stream closed before (Catransport.cpp 427-453, 652-779, 1155-1165).
THEOREM DataPathDown == Spec => DownSpec
  BY DownStartMapped, DownMapped, IInvAlways, PTL DEF Spec, DownSpec, Down!Spec

\* What client_write has queued reaches the device in order and once, and whole until a
\* usb_write fails (Catransport.cpp 781-802, adb_func.cpp 544-579).
THEOREM DataPathUp == Spec => UpSpec
  BY UpStartMapped, UpMapped, IInvAlways, PTL DEF Spec, UpSpec, Up!Spec

===============================================================================
