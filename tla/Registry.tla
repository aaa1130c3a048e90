------------------------------- MODULE Registry -------------------------------
(***************************************************************************)
(* devices_list and the life of the transports in it, for one serial       *)
(* number (adb_func.cpp 108-149, usb_windows.cpp 71-117 and 325-491,       *)
(* CAdb.cpp 7-138, Catransport.cpp 36-75 and 915-969): who points to a     *)
(* transport, when it is destroyed, and what FindDevices finds.            *)
(*                                                                         *)
(* A transport is a boost::shared_ptr: the list entry, CAdb objects, the   *)
(* running pump threads and register_usb_transport hold it, and whoever    *)
(* drops the last pointer runs ~Catransport.  Other serial numbers share   *)
(* only atransport_lock.  The pump threads are reduced to when they lock   *)
(* their weak_ptr, leave and let go (module Transport says when they       *)
(* leave).  The program stops at the first undefined access (fault).       *)
(***************************************************************************)
EXTENDS Integers, FiniteSets

CONSTANTS
    Users,          \* threads with one CAdb each
    Scanners,       \* threads that call FindDevices, RepleaseAdb, GetDevicesNameList
    Ports,          \* interface names the device can appear under
    Readers,        \* the two pump threads that read a pipe: input_thread, user_thread
    MaxTransports,  \* bound: transports ever made
    MaxPlugs        \* bound: times the device is plugged in

ASSUME RegistryAssumption ==
    /\ IsFiniteSet(Users) /\ IsFiniteSet(Scanners) /\ Users \cap Scanners = {}
    /\ "none" \notin Users \cup Scanners \cup Ports
    /\ IsFiniteSet(Readers) /\ "output" \notin Readers
    /\ MaxTransports \in Nat /\ MaxPlugs \in Nat

VARIABLES
    entry,          \* devices_list[serial]: a transport, Null, or NoEntry
    lock,           \* who holds atransport_lock
    life,           \* per transport: "unborn", "alive", "dying" in its destructor, "dead"
    kicked, refCount, connectCount, \* its fields
    paired,         \* pair # NULL: Start has run
    thr,            \* per transport and pump thread: none, created, running, failed
    leaving,        \* per transport: threads past --ref_count that still hold it
    port,           \* per transport: the interface of its usb_handle
    handles,        \* transports whose usb_handle is in handle_list
    gone,           \* transports whose device was unplugged since it was opened
    plugged, plugs, \* the device: the port it is at, how often it was plugged in
    pc, has, old,   \* per actor: where it is, the transport in hand, the one replaced
    at,             \* per scanner: the interface it is opening
    fault           \* the undefined access that ended the program

transports == <<life, kicked, refCount, connectCount, paired, thr, leaving>>
usb == <<port, handles, gone>>
cable == <<plugged, plugs>>
actors == <<pc, has, old, at>>
vars == <<entry, lock, transports, usb, cable, actors, fault>>

Transports == 1..MaxTransports
Null == 0
NoEntry == -1
Pump == Readers \cup {"output"}
Actors == Users \cup Scanners

Init ==
    /\ entry = NoEntry /\ lock = "none" /\ fault = "none"
    /\ life = [t \in Transports |-> "unborn"]
    /\ kicked = [t \in Transports |-> FALSE]
    /\ refCount = [t \in Transports |-> 0]
    /\ connectCount = [t \in Transports |-> 0]
    /\ paired = [t \in Transports |-> FALSE]
    /\ thr = [t \in Transports |-> [i \in Pump |-> "none"]]
    /\ leaving = [t \in Transports |-> 0]
    /\ port = [t \in Transports |-> "none"]
    /\ handles = {} /\ gone = {}
    /\ plugged = "none" /\ plugs = 0
    /\ pc = [a \in Actors |-> "idle"]
    /\ has = [a \in Actors |-> 0]
    /\ old = [a \in Actors |-> 0]
    /\ at = [a \in Actors |-> "none"]

-------------------------------------------------------------------------------
\* Where an actor's variable is a counted pointer.
Holding == {"built", "child", "start", "get_id", "ok", "uncount", "reset", "register", "assign"}
Holders(t) == {a \in Actors : has[a] = t /\ pc[a] \in Holding}
Running(t) == {i \in Pump : thr[t][i] = "running"}

\* use_count() of the transport's pointer.
UseCount(t) == Cardinality(Holders(t)) + Cardinality(Running(t)) + leaving[t]
               + (IF entry = t THEN 1 ELSE 0)

\* reset() of one pointer to t: with the last one the destructor begins.
Release(t) == life' = IF UseCount(t) = 1 THEN [life EXCEPT ![t] = "dying"] ELSE life

\* Transports whose destructor is running.
Dying == {t \in Transports : life[t] = "dying"}

Goto(a, label) == pc' = [pc EXCEPT ![a] = label]
Free == lock = "none"
Fault(what) == fault' = what /\ UNCHANGED <<entry, lock, transports, usb, cable, actors>>

-------------------------------------------------------------------------------
(* CAdb.                                                                   *)
\* get_device: operator[] makes an entry if there is none; the reference to the
\* entry is used after atransport_lock is released.
GetDevice(u) ==
    /\ pc[u] = "idle" /\ Free
    /\ entry' = IF entry = NoEntry THEN Null ELSE entry
    /\ Goto(u, "copy")
    /\ UNCHANGED <<lock, transports, usb, cable, has, old, at, fault>>

\* new atransportPtr(...): the pointer is read, and then counted.
Copy(u) ==
    /\ pc[u] = "copy"
    /\ IF entry = Null
       THEN Goto(u, "idle") /\ UNCHANGED has
       ELSE Goto(u, "count") /\ has' = [has EXCEPT ![u] = entry]
    /\ UNCHANGED <<entry, lock, transports, usb, cable, old, at, fault>>

CopyErased(u) == pc[u] = "erased" /\ Fault("stale_reference")

Count(u) ==
    /\ pc[u] = "count"
    /\ IF life[has[u]] = "alive"
       THEN /\ Goto(u, "built")
            /\ UNCHANGED <<entry, lock, transports, usb, cable, has, old, at, fault>>
       ELSE Fault("stale_reference")

\* CAdb(CAdb& parent) copies the parent's own pointer.
Child(u, parent) ==
    /\ pc[u] = "idle" /\ pc[parent] = "ok"
    /\ has' = [has EXCEPT ![u] = has[parent]]
    /\ Goto(u, "child")
    /\ UNCHANGED <<entry, lock, transports, usb, cable, old, at, fault>>

\* A kicked transport is of no use; a child need not start its parent's.
TestKicked(u) ==
    /\ pc[u] \in {"built", "child"}
    /\ Goto(u, IF kicked[has[u]] THEN "reset" ELSE IF pc[u] = "built" THEN "start" ELSE "get_id")
    /\ UNCHANGED <<entry, lock, transports, usb, cable, has, old, at, fault>>

StartAlways(u) ==
    LET t == has[u] IN
    /\ pc[u] = "start"
    /\ paired' = [paired EXCEPT ![t] = TRUE]
    /\ thr' = [thr EXCEPT ![t] = [i \in Pump |-> "created"]]
    /\ refCount' = [refCount EXCEPT ![t] = @ + Cardinality(Pump)]
    /\ Goto(u, "get_id")
    /\ UNCHANGED <<entry, lock, life, kicked, connectCount, leaving, usb, cable,
                   has, old, at, fault>>

\* Start, under start_mutex: nothing to do while ref_count is not 0.
Start(u) ==
    LET t == has[u] IN
    /\ pc[u] = "start"
    /\ IF refCount[t] # 0
       THEN UNCHANGED <<paired, thr, refCount>>
       ELSE /\ paired' = [paired EXCEPT ![t] = TRUE]
            /\ thr' = [thr EXCEPT ![t] = [i \in Pump |-> "created"]]
            /\ refCount' = [refCount EXCEPT ![t] = Cardinality(Pump)]
    /\ Goto(u, "get_id")
    /\ UNCHANGED <<entry, lock, life, kicked, connectCount, leaving, usb, cable,
                   has, old, at, fault>>

\* client_get_id, which may find no slot, and ++connectCount.
GetId(u) ==
    /\ pc[u] = "get_id"
    /\ \/ /\ connectCount' = [connectCount EXCEPT ![has[u]] = @ + 1]
          /\ Goto(u, "ok")
       \/ Goto(u, "reset") /\ UNCHANGED connectCount
    /\ UNCHANGED <<entry, lock, life, kicked, refCount, paired, thr, leaving, usb, cable,
                   has, old, at, fault>>

UsbClose(u) ==
    /\ pc[u] = "ok"
    /\ kicked' = [kicked EXCEPT ![has[u]] = TRUE]
    /\ UNCHANGED <<entry, lock, life, refCount, connectCount, paired, thr, leaving,
                   usb, cable, actors, fault>>

\* ~CAdb: Close and client_free_id, --connectCount, reset().
Destroy(u) ==
    /\ pc[u] = "ok"
    /\ Goto(u, "uncount")
    /\ UNCHANGED <<entry, lock, transports, usb, cable, has, old, at, fault>>

UncountNothing(u) ==
    /\ pc[u] = "uncount"
    /\ Goto(u, "reset")
    /\ UNCHANGED <<entry, lock, transports, usb, cable, has, old, at, fault>>

Uncount(u) ==
    /\ pc[u] = "uncount"
    /\ connectCount' = [connectCount EXCEPT ![has[u]] = @ - 1]
    /\ Goto(u, "reset")
    /\ UNCHANGED <<entry, lock, life, kicked, refCount, paired, thr, leaving, usb, cable,
                   has, old, at, fault>>

Reset(u) ==
    /\ pc[u] = "reset"
    /\ Release(has[u])
    /\ Goto(u, "released")
    /\ UNCHANGED <<entry, lock, kicked, refCount, connectCount, paired, thr, leaving,
                   usb, cable, has, old, at, fault>>

\* Back from reset(): the destructor, if it had to run, has returned.
Released(u) ==
    /\ pc[u] = "released" /\ has[u] \notin Dying
    /\ has' = [has EXCEPT ![u] = 0]
    /\ Goto(u, "idle")
    /\ UNCHANGED <<entry, lock, transports, usb, cable, old, at, fault>>

-------------------------------------------------------------------------------
(* The pump threads of transport t.                                        *)
\* The thread locks the weak_ptr in atp; if that fails it does nothing at all.
Begin(t, i) ==
    /\ thr[t][i] = "created"
    /\ thr' = [thr EXCEPT ![t][i] = IF life[t] = "alive" THEN "running" ELSE "failed"]
    /\ UNCHANGED <<entry, lock, life, kicked, refCount, connectCount, paired, leaving,
                   usb, cable, actors, fault>>

\* Clear and --ref_count.  The readers leave once the transport is kicked;
\* output_thread leaves when a read fails or its write_packet does.
Leave(t, i) ==
    /\ thr[t][i] = "running" /\ (kicked[t] \/ i = "output")
    /\ kicked' = [kicked EXCEPT ![t] = TRUE]
    /\ refCount' = [refCount EXCEPT ![t] = @ - 1]
    /\ thr' = [thr EXCEPT ![t][i] = "none"]
    /\ leaving' = [leaving EXCEPT ![t] = @ + 1]
    /\ UNCHANGED <<entry, lock, life, connectCount, paired, usb, cable, actors, fault>>

ThreadReset(t) ==
    /\ leaving[t] > 0
    /\ Release(t)
    /\ leaving' = [leaving EXCEPT ![t] = @ - 1]
    /\ UNCHANGED <<entry, lock, kicked, refCount, connectCount, paired, thr, usb, cable,
                   actors, fault>>

\* ~Catransport: Clear until nobody is counted, pair->used = 0, usb_close.
DtorImpatient(t) ==
    /\ life[t] = "dying"
    /\ IF ~paired[t] THEN Fault("null_pair")
       ELSE /\ life' = [life EXCEPT ![t] = "dead"]
            /\ kicked' = [kicked EXCEPT ![t] = TRUE]
            /\ handles' = handles \ {t}
            /\ UNCHANGED <<entry, lock, refCount, connectCount, paired, thr, leaving,
                           port, gone, cable, actors, fault>>

Dtor(t) ==
    /\ life[t] = "dying" /\ refCount[t] = 0 /\ connectCount[t] = 0
    /\ IF ~paired[t] THEN Fault("null_pair")
       ELSE /\ life' = [life EXCEPT ![t] = "dead"]
            /\ kicked' = [kicked EXCEPT ![t] = TRUE]
            /\ handles' = handles \ {t}
            /\ UNCHANGED <<entry, lock, refCount, connectCount, paired, thr, leaving,
                           port, gone, cable, actors, fault>>

-------------------------------------------------------------------------------
(* The calls on the list.  FindDevices: checked_devices, find_devices.     *)
(* RepleaseAdb: remove_device_All, checked_devices, remove_device_All.     *)
FindDevices(s) == pc[s] = "idle" /\ Goto(s, "check")
RepleaseAdb(s) == pc[s] = "idle" /\ Goto(s, "clear")

ScannerCall(s) ==
    /\ FindDevices(s) \/ RepleaseAdb(s)
    /\ UNCHANGED <<entry, lock, transports, usb, cable, has, old, at, fault>>

\* remove_device_All: Clear on every transport in the list.
RemoveDeviceAll(s) ==
    /\ pc[s] \in {"clear", "clear_again"} /\ Free
    /\ kicked' = [t \in Transports |-> kicked[t] \/ t = entry]
    /\ Goto(s, IF pc[s] = "clear" THEN "check_only" ELSE "idle")
    /\ UNCHANGED <<entry, lock, life, refCount, connectCount, paired, thr, leaving,
                   usb, cable, has, old, at, fault>>

\* checked_devices: an entry that is unique() and kicked is reset and erased.
AfterCheck(s) == IF pc[s] \in {"check", "drop", "erase"} THEN "scan" ELSE "clear_again"

Check(s) ==
    /\ pc[s] \in {"check", "check_only"} /\ Free
    /\ IF entry \in Transports /\ UseCount(entry) = 1 /\ kicked[entry]
       THEN /\ lock' = s
            /\ Goto(s, IF pc[s] = "check" THEN "drop" ELSE "drop_only")
       ELSE Goto(s, AfterCheck(s)) /\ UNCHANGED lock
    /\ UNCHANGED <<entry, transports, usb, cable, has, old, at, fault>>

Drop(s) ==
    /\ pc[s] \in {"drop", "drop_only"}
    /\ Release(entry)
    /\ old' = [old EXCEPT ![s] = entry]
    /\ entry' = Null
    /\ Goto(s, IF pc[s] = "drop" THEN "erase" ELSE "erase_only")
    /\ UNCHANGED <<lock, kicked, refCount, connectCount, paired, thr, leaving,
                   usb, cable, has, at, fault>>

\* erase frees the entry that a get_device may have returned.
Erase(s) ==
    /\ pc[s] \in {"erase", "erase_only"} /\ old[s] \notin Dying
    /\ entry' = NoEntry
    /\ lock' = "none"
    /\ pc' = [a \in Actors |-> IF a = s THEN AfterCheck(s)
                               ELSE IF pc[a] = "copy" THEN "erased" ELSE pc[a]]
    /\ old' = [old EXCEPT ![s] = 0]
    /\ UNCHANGED <<transports, usb, cable, has, at, fault>>

\* get_device_name_list reads kicked of every entry.
GetDeviceNameList(s) == pc[s] = "idle" /\ Free /\ entry = Null /\ Fault("null_entry")

\* An interface is known as long as a usb_handle with its name is in handle_list.
Known(p) == \E t \in handles : port[t] = p

\* find_devices: an interface that is there and not known_device is opened.
Scan(s) ==
    /\ pc[s] = "scan"
    /\ IF plugged # "none" /\ ~Known(plugged)
       THEN Goto(s, "open") /\ at' = [at EXCEPT ![s] = plugged]
       ELSE Goto(s, "idle") /\ UNCHANGED at
    /\ UNCHANGED <<entry, lock, transports, usb, cable, has, old, fault>>

\* do_usb_open and AdbGetSerialNumber fail without the device.  A transport is
\* built for a handle that register_new_device adds to handle_list.
Opened(s, t) ==
    /\ life' = [life EXCEPT ![t] = "alive"]
    /\ port' = [port EXCEPT ![t] = at[s]]
    /\ handles' = handles \cup {t}
    /\ has' = [has EXCEPT ![s] = t]
    /\ Goto(s, "register")

OpenFailed(s) == Goto(s, "idle") /\ UNCHANGED <<life, port, handles, has>>

RegisterTwice(s) ==
    /\ pc[s] = "open"
    /\ IF plugged # at[s] THEN OpenFailed(s)
       ELSE \E t \in Transports : /\ \A k \in Transports : life[k] = "unborn" <=> k >= t
                                  /\ Opened(s, t)
    /\ at' = [at EXCEPT ![s] = "none"]
    /\ UNCHANGED <<entry, lock, kicked, refCount, connectCount, paired, thr, leaving,
                   gone, cable, old, fault>>

RegisterNewDevice(s) ==
    /\ pc[s] = "open"
    /\ IF plugged # at[s] \/ Known(at[s]) THEN OpenFailed(s)
       ELSE \E t \in Transports : /\ \A k \in Transports : life[k] = "unborn" <=> k >= t
                                  /\ Opened(s, t)
    /\ at' = [at EXCEPT ![s] = "none"]
    /\ UNCHANGED <<entry, lock, kicked, refCount, connectCount, paired, thr, leaving,
                   gone, cable, old, fault>>

\* register_usb_transport: the entry is reset, and then assigned.
RegisterReset(s) ==
    /\ pc[s] = "register" /\ Free
    /\ lock' = s
    /\ old' = [old EXCEPT ![s] = IF entry \in Transports THEN entry ELSE 0]
    /\ IF entry \in Transports THEN Release(entry) ELSE UNCHANGED life
    /\ entry' = Null
    /\ Goto(s, "assign")
    /\ UNCHANGED <<kicked, refCount, connectCount, paired, thr, leaving, usb, cable,
                   has, at, fault>>

RegisterAssign(s) ==
    /\ pc[s] = "assign" /\ old[s] \notin Dying
    /\ entry' = has[s]
    /\ lock' = "none"
    /\ old' = [old EXCEPT ![s] = 0]
    /\ has' = [has EXCEPT ![s] = 0]
    /\ Goto(s, "idle")
    /\ UNCHANGED <<transports, usb, cable, at, fault>>

-------------------------------------------------------------------------------
(* External: the cable.                                                    *)
Plug(p) ==
    /\ plugged = "none" /\ plugs < MaxPlugs
    /\ plugged' = p /\ plugs' = plugs + 1
    /\ UNCHANGED <<entry, lock, transports, usb, actors, fault>>

Unplug ==
    /\ plugged # "none"
    /\ plugged' = "none"
    /\ gone' = gone \cup {t \in handles : port[t] = plugged}
    /\ UNCHANGED <<entry, lock, transports, port, handles, plugs, actors, fault>>

-------------------------------------------------------------------------------
\* What an actor inside a call does next.
UserStep(u) ==
    \/ Copy(u) \/ CopyErased(u) \/ Count(u) \/ TestKicked(u) \/ Start(u) \/ GetId(u)
    \/ Uncount(u) \/ Reset(u) \/ Released(u)

ScannerStep(s) ==
    \/ RemoveDeviceAll(s) \/ Check(s) \/ Drop(s) \/ Erase(s) \/ Scan(s)
    \/ RegisterNewDevice(s) \/ RegisterReset(s) \/ RegisterAssign(s)

User(u) ==
    \/ GetDevice(u) \/ (\E parent \in Users : Child(u, parent))
    \/ UserStep(u) \/ UsbClose(u) \/ Destroy(u)

Next ==
    /\ fault = "none"
    /\ \/ \E u \in Users : User(u)
       \/ \E s \in Scanners : ScannerCall(s) \/ GetDeviceNameList(s) \/ ScannerStep(s)
       \/ \E t \in Transports : \/ \E i \in Pump : Begin(t, i) \/ Leave(t, i)
                                \/ ThreadReset(t) \/ Dtor(t)
       \/ \E p \in Ports : Plug(p)
       \/ Unplug

Spec == Init /\ [][Next]_vars

Kicked == {t \in Transports : kicked[t]}

\* Threads run, calls go on, readers leave a kicked transport and output_thread one
\* whose device is gone.  The application keeps calling FindDevices and destroys a
\* CAdb that says IsUsbClose; it calls RepleaseAdb and the rest if it likes.
FairSpec ==
    /\ Spec
    /\ \A u \in Users : /\ WF_vars(fault = "none" /\ UserStep(u))
                        /\ WF_vars(fault = "none" /\ has[u] \in Kicked /\ Destroy(u))
    /\ \A s \in Scanners : /\ WF_vars(fault = "none" /\ ScannerStep(s))
                           /\ SF_vars(fault = "none" /\ ScannerCall(s) /\ FindDevices(s))
    /\ \A t \in Transports :
          /\ \A i \in Pump : /\ WF_vars(fault = "none" /\ Begin(t, i))
                             /\ WF_vars(fault = "none" /\ (i = "output" => t \in gone) /\ Leave(t, i))
          /\ WF_vars(fault = "none" /\ ThreadReset(t))
          /\ WF_vars(fault = "none" /\ Dtor(t))

-------------------------------------------------------------------------------
\* The variables have their types, and atransport_lock is held exactly in the
\* sections of checked_devices and register_usb_transport that can wait for a
\* destructor (adb_func.cpp 126-137, usb_windows.cpp 414-419).
TypeOK ==
    /\ entry \in Transports \cup {Null, NoEntry}
    /\ life \in [Transports -> {"unborn", "alive", "dying", "dead"}]
    /\ kicked \in [Transports -> BOOLEAN] /\ paired \in [Transports -> BOOLEAN]
    /\ refCount \in [Transports -> 0..Cardinality(Pump)]
    /\ connectCount \in [Transports -> 0..Cardinality(Users)]
    /\ thr \in [Transports -> [Pump -> {"none", "created", "running", "failed"}]]
    /\ leaving \in [Transports -> Nat]
    /\ port \in [Transports -> Ports \cup {"none"}]
    /\ handles \subseteq Transports /\ gone \subseteq Transports
    /\ plugged \in Ports \cup {"none"}
    /\ has \in [Actors -> 0..MaxTransports] /\ old \in [Actors -> 0..MaxTransports]
    /\ \A s \in Scanners : lock = s <=> pc[s] \in {"drop", "drop_only", "erase", "erase_only",
                                                  "assign"}

\* Two callers of FindDevices never get two usb_handles, and two transports, for one
\* interface (usb_windows.cpp 99-117, 451-466).
OneHandlePerInterface == \A t, k \in handles : t # k => port[t] # port[k]

\* A destructor never waits for a CAdb: each is uncounted before it lets go
\* (CAdb.cpp 77-79, Catransport.cpp 43).
DestructorFindsNoUser == \A t \in Transports : life[t] = "dying" => connectCount[t] = 0

\* No pump thread is left that could still use a destroyed transport or the pointer
\* to it that ~Catransport frees (Catransport.cpp 43-47, 70, adb_func.cpp 461).
NoThreadOutlives ==
    \A t \in Transports : life[t] = "dead" =>
        leaving[t] = 0 /\ \A i \in Pump : thr[t][i] \notin {"created", "running"}

\* No fault, and no thread that came too late to lock its pointer.
Orderly == [](fault = "none" /\ \A t \in Transports, i \in Pump : thr[t][i] # "failed")

\* Users do not construct CAdbs for ever: each time one is tried on a kicked
\* transport, checked_devices may find the transport in use.
Settled == <>[](\A u \in Users : pc[u] \in {"idle", "ok"})

\* Every transport opened at port p lost its device and knows it.
OnlyGone(p) == \A t \in handles : port[t] = p => t \in gone \cap Kicked
Found(p) == \E t \in handles : port[t] = p /\ t \notin gone

\* The bound on transports is used up.
Exhausted == \A t \in Transports : life[t] # "unborn"

\* A device that was pulled and is plugged in again is found again, once the old
\* transport's users and threads have let go of it (CAdb.cpp 95-98, adb_func.cpp
\* 126-137, usb_windows.cpp 88-97).
FoundAgain ==
    Orderly /\ Settled =>
        \A p \in Ports : (plugged = p /\ OnlyGone(p)) ~> (plugged # p \/ Found(p) \/ Exhausted)

\* "The destructor releases all resources and takes the device off the usb_handle
\* list" (Catransport.h 121): a destructor that has begun ends, unless the program
\* was already ended by an undefined access.
DestructorReturns ==
    \A t \in Transports : life[t] = "dying" ~> (life[t] = "dead" \/ fault # "none")

\* "The destructor releases all resources" (Catransport.h 121), of a transport that
\* was never started too: pair is tested before it is deleted (Catransport.cpp 51).
DestructorNeedsNoPair == fault # "null_pair"

\* "Check the devices and delete one if only the list's own reference is left"
\* (adb_func.cpp 126): not while a CAdb is being constructed from it.
ConstructionIsSafe == fault # "stale_reference"

\* "Returns the devices that have not been removed" (adb_func.cpp 144), whatever
\* names get_device was asked for before.
NameListIsSafe == fault # "null_entry"
===============================================================================
