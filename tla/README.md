# A verification of the ADB host library

The library under `src/adbServerTest/adb/` talks to Android devices over USB
without an adb server: it finds the devices, performs adb's handshake, and gives
the program that links it shells, port forwards and file transfers
(`src/README.md`). Everything runs in one process, in threads: three per device,
which move packets, and the callers' own. What keeps them apart is a home-made
semaphore, two queues per device, a table of channels, and counted pointers.

This directory holds TLA+ models of those parts, TLC configurations that check
them on small instances, and proofs for every value of the constants about the
semaphore, the transport pump, the path of the packets, the handshake, the channel table, the registry and the
file transfers. The comments in the sources are in Chinese (GBK); the models quote them in English.

## 1. The system

| # | component | sources (`src/adbServerTest/adb/`) | module |
|---|-----------|------------------------------------|--------|
| 1 | Semaphore | `Semaphore.h` | `SemaphoreOps`, `Semaphore`, `SemaphoreProofs` |
| 2 | Transport pump | `Catransport.cpp`, `adb_func.cpp` | `Transport`, `TransportProofs` |
| 3 | Packet pool | `Catransport.cpp` 128-150 | `DataPath`, `ByteStream`, `DataPathProofs` |
| 4 | Handshake and authentication | `Catransport.cpp`, `adb_auth_host.cpp` | `HostKeys`, `Handshake`, `HandshakeProofs` |
| 5 | Channels | `Catransport.cpp`, `Catransport.h` | `Channels`, `StreamTable`, `ChannelsProofs`, `StreamProofs`, `DataPath`, `DataPathProofs` |
| 6 | Public API (`CAdb`) | `CAdb.cpp`, `CAdb.h` | in `Channels`, `DataPath`, `Registry`, `Sync`, `HostKeys` |
| 7 | Device registry, USB discovery | `adb_func.cpp`, `usb_windows.cpp` | `Registry`, `RegistryProofs` |
| 8 | File sync protocol | `file_class_sync_client.cpp` | `Sync`, `Transfer`, `SyncProofs` |
| 9 | Zip reader | `centraldir.cpp`, `zipfile.cpp` | not modelled |
| 10 | USB vendor list | `usb_vendors.cpp` | not modelled |
| 11 | USB endpoint I/O | `usb_windows.cpp` | external results in `Transport`, `DataPath`, `Registry` |
| 12 | Packet checks, string helpers | `adb_func.cpp` | not modelled |

**Semaphore.** State: `count_` under a mutex, and a condition variable. `Signal(n)`
adds to `count_` and calls `notify_one` *after* it has released the mutex; `Wait` and
`Wait_time` test `count_ < 1` once, wait once, and decrement without testing again;
`reset` stores 0 without the mutex. Hard: the interleavings between the unlock and
the notification. Correct if: nobody sleeps beside a permit nobody will hand out,
and no more calls pass than permits were given. (`Radiophore`, in the same file, is
used by nothing.)

**Transport pump.** `output_thread` reads the USB endpoint and writes to the pipe b2a;
`user_thread` reads b2a, handles each packet, and writes its answers to a2b, as the
callers do; `input_thread` reads a2b and writes to the endpoint. Each pipe is a list and
a semaphore that starts at 5. `Clear` sets `kicked`, closes the pipes and
signals both readers; each thread calls it when it leaves. Hard: a wakeup that is
lost, the order of SYNC and CNXN through two queues, a shutdown begun by any of
four parties. Correct if: SYNC goes ahead of everything, queued packets are taken, and
kicking a transport ends its threads.

**Packet pool.** A packet is a buffer that `get_apacket` takes from the pool (`loop_to_use_apacket`) or from
`malloc`, and `put_apacket` puts back. Between them its bare pointer passes from thread to thread through the pipes
and a channel's queue, and nothing but the order of the statements says who has it. Hard: a pointer that is used after it was given away, a
packet that is given up on an early return, what a half-read packet leaves for the next stream. Correct if: a packet has one
holder, comes back, and the bytes of a stream come out of it as they went in.

**Handshake.** State: `connection_state`, `online`, the `key` in use, and two files, `adbkey` and `adbkey.pub`,
that every adb in the same home directory makes and reads. `user_thread` handles
SYNC, CNXN and AUTH; AUTH walks along the key list and ends with the public key. Hard: processes that make keys at once or end
half way, a place in the list that outlives the session. Correct
if: no key is skipped, the owner of a device is not asked again without need, a transport counts as online only when the device let the
host in, and as offline when `user_thread` has heard that the device is gone.

**Channels.** State: up to `client_list_max` slots `aclient` with type, remote id, received
packets and a semaphore. Callers take a slot (`client_get_id`), open a stream on it, read, write,
close, and give it back; `user_thread` works on the same slots as OKAY, CLSE and WRTE
arrive; `Clear` takes them away. Most fields have no lock. Hard: packets of a
closed stream that meet the slot's next user, remote ids read before and used
after an arrival, waits ended by notifications that were meant for others.
Correct if: users never share a slot, data reaches only the stream it was sent
on, and calls return.

**Registry.** State: `devices_list` (serial number to shared pointer), `handle_list` of open
USB handles, the counts `ref_count` and `connectCount` of each transport. Operations:
`FindDevices`, `RepleaseAdb`, `GetDevicesNameList`, constructing and destroying `CAdb`
objects, the pump threads' own pointers, `~Catransport`. Hard: who drops the last
pointer, and under which lock the destructor then runs; scans that run at once; references used
after the lock is released. Correct if: nothing freed or null is used, an interface
is opened once, destructors return, and a device that is plugged in again is found.

**File sync.** A straight-line client of adbd's sync service over one channel: STAT,
SEND/DATA/DONE, RECV, LIST, QUIT. Hard: failure of either side at each message,
answers that carry no name, write results that are ignored. Correct if: a reported
success means what it says, and every transfer ends.

How they interact: the callers' threads and `user_thread` share the channel table and the
pipe a2b; `user_thread` and `input_thread` are joined by a2b, `output_thread` and `user_thread`
by b2a; the registry owns the transports, whose threads own themselves; transfers
are calls on a channel. Every wait is on a `Semaphore`, except `sync_quit`'s and the
destructor's polling loops and the locks.

`PROJECT.json` lists each hazard at its line with the properties that cover it, or why
none does yet.

## 2. Conventions

A module models one component; its `VARIABLES` carry the names of the fields, its actions
the names of functions or of the steps of one. Where a function does several things
that another thread can see one by one, the module keeps the remaining steps in
`todo` and takes them one at a time (`Transport`, `Channels`). Constants that start with
`Max` are bounds, appear in guards only, and are the only reason a behaviour ends early;
for that reason, and because users may stop calling and devices may stay silent, most
configurations say `CHECK_DEADLOCK FALSE`. The properties of progress are liveness
properties instead.

Before some definitions stands a variant with a longer name, such as
`TypeSetClosingAtOnce` before `TypeSetClosing`. It is not part of the specification:
it is the code with a plausible mistake (a dropped wait, a skipped reset, a missing test),
kept to show that the property it belongs to fails with it. `PROJECT.json` says which
variant violates which property.

Some configurations are expected to fail (section 5): they state what a comment or a
header of the repository says and show a behaviour of the code that contradicts it.

## 3. The modules

### SemaphoreOps, Semaphore

A semaphore is a record `[count, blocked, woken]`. `SemaphoreOps` has one operator for each
critical section (`Raised`, `Passed`, `Blocked`, `Resumed`, `TimedOut`, `ResetSem`) and one for the
bare `notify_one` (`Notified`); `Transport` and `Channels` use the same ones, so what is
checked there includes the semaphore's own behaviour. `Semaphore` lets threads call them in
every order. Assumptions: no spurious wakeups (boost permits them; they let a wait pass too
early, as the overdraft does anyhow); `reset`, a store that races with `count_ += n`, comes before or
after it or is overwritten, which equals not being called.

### Transport

| TLA+ | code |
|------|------|
| `pipe`, `sem`, `Slack` | `a2b_bip`, `b2a_bip`, `d_write_ctrol`, `d_read_ctrol` and their initial 5 |
| `Write`, `Push`, `SignalAdd`, `SignalNotify` | `write_packet`, `usb_write_packet`, `Signal` |
| `Clear`, `Kick` | `remote_usb_clear` / `Clear` |
| `ReadCheck`, `ReadWait`, `ReadResume` | `usb_read_packet`, `wait_for_usb_read_packet` |
| `UsbRead`, `UsbReadFails`, `WriteFailed` | `output_thread` |
| `InputTakes`, `UsbWrite` | `input_thread` |
| `UserTakes`, `Replies` | `user_thread`, `handle_packet` as far as it queues packets: for each packet the answers it may get, CNXN's when the device is in no state `device`, AUTH's whether it is online or not |
| `ClientOpen`, `ClientSend` | a caller looks for `CS_DEVICE` once, then sends OPEN and what follows without looking again |
| `CreateThread`, `Exit` | `Start`, and `--ref_count` at the end of each thread |

Left out: the pipes' `closed` flags, which are always set right after `kicked`, with which every test
of them is paired; who has a packet, which is `DataPath`'s; thread creation that fails; a Clear of a transport that is
already kicked, and what a thread does between its own Clear and `--ref_count`. The test of `kicked` and the
push it guards are one step. `usb_read` has no time-out, so nothing makes it return; `usb_write`
returns within its time-out and its result is unused.

### ByteStream, DataPath

`ByteStream` is what one direction of a stream promises its two ends: bytes come out in the order in which they went in,
each at most once, none skipped unless the stream was torn. `DataPath` follows the packets that carry them through the pump and the
channel, in both directions, and implements it twice.

| TLA+ | code |
|------|------|
| `heap`, `pool`, `Get`, `PutBack` | `malloc`, `loop_to_use_apacket`, `get_apacket`, `put_apacket` |
| `contents` | the message in a packet; what was put back holds nothing any more |
| `hand`, `a2b`, `b2a`, `ptrlist`, `last_apacket` | everything a pointer to a packet can be in |
| `pump`, `OutputGet`, `DeviceSend`, `DeviceClose`, `UsbReadFails`, `OutputWrite` | `output_thread`, its loop and what follows it |
| `ReadPacket`, `reading`, `KickTransport` | `usb_read_packet`: a reader that was past its test of `kicked` may still take one packet after the kick |
| `UserRead`, `LocalClientEnqueue`, `HandleClse`, `HandleSync` | `user_thread` and its cases of `handle_packet` |
| `TypeSet`, `ClientClear` | `local_client_type_set`, `client_clear` |
| `ReadBegin` ... `ReadReturn`, `ShellRecvBegin` ... `ShellReturn` | `client_read`, `shell_recv`, statement by statement |
| `WriteBegin` ... `WriteReturn`, `ShellLine` | `client_write` with `local_remote_enqueue`, the refusing path of `shell_send` |
| `Push`, `InputRead`, `InputOffline`, `InputWrite`, `Kick` | `usb_write_packet`, `input_thread`, `Clear` |

Bytes are numbered from 1 in each direction of each stream; a packet holds a range. One client, one channel: who may have it
is `Channels`' subject. Waiting is left to `Transport` and `Channels`; here a wait may end at any time. A stream that is
opened again finds the old one closed by the device (`biptype = "close"`), as `TypeSetClosing` of `Channels` ensures. `Kick` leaves the device open: `Clear` does not close the USB handle. Packets that carry
only OKAY, READY or CLSE to the device pass through the same calls and are left out.

### HostKeys, Handshake

`HostKeys` is `adb_auth_init` in each process that shares the home directory: look for a key, make one
(`CreateKeyFile`, `WritePublicKeyFile`, `CloseKeyFile`: the private key is in stdio's buffer until `fclose`, so its file
is empty while the public one is written), read it, append the vendors' keys. A process may end between any two steps
and start again, and a file may fail to open or to be written. A key is named after the process that made it.

`Handshake` extends it with one transport of one of the processes. The host's half is one action per case of
`handle_packet`; the device's half is external: adbd answers CNXN with CNXN or AUTH, accepts the signatures of the keys it
knows, asks its owner about a public key, and remembers the answer for good. The device may be plugged in again, and the
host's process may start again. What is on the cable is lost with either end. `Clear` kicks the transport at any time: nothing
is sent any more (`Sends`), SYNC(0) is not queued any more (`goodbye` says whether it was), and `user_thread` may leave with packets unread (`LeaveKicked`, `left`). RSA is a choice to fail (`MaxFailures`). Callers
are not in this module, so each case is a single step.

### Channels

| TLA+ | code |
|------|------|
| `user`, `biptype`, `remote_id`, `connected`, `ptrlist`, `sem` | the fields of `aclient` |
| `locked` | `bip_lock`, while `free_ctrol` or `client_free_id` holds it across a notification |
| `Call` | the tests before `local_client_type_set`: `shell_send` looks at `kicked`, `forward_connect` and `sync_connect` do not |
| `Construct`, `ClientGetId`, `ClientInit` | `CAdb::CAdb`, `client_get_id`, `client_init` |
| `TypeSetBegin` ... `TypeSetDone` | `local_client_type_set`, `client_clear` |
| `Open`, `Connect`, `Connected` | `connect_to_remote`, `smart_local_remote_enqueue` |
| `RecvBegin`, `Recv`, `RecvEmpty`, `Wait`, `WaitResume`, `RecvTimeout` | `shell_recv`, which also drains a closed channel, `client_read`, `aclient::wait` |
| `WriteBegin`, `Write` | `client_write` |
| `ClientFreeId` | `~CAdb`, `client_free_id` |
| `HandlePacket`, `Work`, `Answer` and the `Step...` actions | the OKAY, CLSE and WRTE cases of `handle_packet`, field by field (`StepType`, `StepRid`, `StepConnected`, `StepPush`) |
| `ClearCall`, `StepLock`, `StepFree` | `Clear`, `free_ctrol` |
| `DeviceReceive`, `DeviceSend`, `DeviceClose` | external: adbd's streams |

`StreamTable` is what the table promises its users while the transport is up: a slot is one user's at a time, and its streams come one
after the other, each asked for, connected, fed, disconnected and cleared in this order. `Channels` implements it (`KeepsPromise`).

The transport is two FIFOs. The number of an OPEN stands for the device's id of the stream
(adbd never uses one twice) and for the stream's data. A handler's lookup and answer are one step;
its writes to the slot and its notification follow one by one. The device is in state
`device` throughout. A packet is read whole here, and in parts in `DataPath`. An open of `"sync:"` takes the same path as a
forward. A READY behind an identical READY is left out of the queue, since adbd learns nothing from it.

### Registry

One serial number. `UseCount` counts what holds a transport: the list entry, the actors that have a
counted pointer, running threads and those past `--ref_count`. Dropping the last one
starts the destructor, which ends when both counts are 0. `fault` records the first undefined access and ends
the behaviour. The actors are users (`GetDevice`, `Copy`, `Count`, `TestKicked`, `Start`, `GetId`, `UsbClose`,
`Destroy`, `Uncount`, `Reset`, and `Child` for the copying constructor), scanners (`FindDevices`, `RepleaseAdb`,
`GetDeviceNameList` with their steps), pump threads (`Begin`, `Leave`, `ThreadReset`) and the cable. The pump is reduced to what
`Transport` shows of it: readers leave once the transport is kicked, `output_thread` may leave at any time.

### Sync

One transfer per behaviour over one open stream. `pc` follows the calls
`sync_readmode`, `sync_start_readtime`, `sync_finish_readtime`, `sync_send`, `sync_recv`, `sync_ls`, `sync_quit`. A file is its
time and a sequence of chunks; `Absent` is no file. External: adbd's sync service, which
may refuse a file at any message, and anything that closes the stream at any time. A file of the host that
cannot be opened, or whose reading fails, ends there as if it were whole (`WriteData`); `cut` remembers it. A pulled file may fail to be written, which is
reported, or to be closed, which is not (`RecvData`). Reading from the stream fails
once it is closed even if data is queued, which is what `client_read` does.
A directory lists its files in any order, here and there; the transfers of one file use file 1.

`Transfer` is the promise that `Sync` implements in all six directions and forms: files are written one at a time, what is
written is a beginning of the source until it is whole or given up, and a transfer that reports success leaves no file half written but those
cut short on the host's side, which keep a beginning (`CutShort`, `CloseCut`).
The mapping (`Goal`, `Source`, `Store`, `InWork` in `Sync`): a push is judged by what adbd stores, a pull by the local file, a pull to a buffer by the buffer once its length is
set; the file in work is the one adbd is storing, or the one of which a first part has been written here.

## 4. What is checked

| run | instance | shows |
|-----|----------|-------|
| `semaphore` | 2 signallers, 2 waiters, 5 Signals, 2 time-outs, 2 resets | `NoOrphanedPermit`: a sleeping waiter's permits all belong to a notification on its way or to a released thread. `OverdraftBound`: how far below 0 `count_` gets. `TwoPassesPerSignal`: a Signal lets at most two calls pass |
| `transport_pump` | one packet of the device, two of a client, a user's Clear at any time, no cable pulled | `SyncFirst`: SYNC(1), then CNXN, reach `input_thread` ahead of data. `MissedBound`: what a sleeping reader has missed, of packets in its pipe and of threads that have left, is at most the number of the pipe's writers |
| `transport_unplug` | no clients, one packet of the device, CNXN or any other, a cable that is pulled in the end | `LastClearWakesReaders`: once `output_thread` and a reader have left, the other reader is not asleep. `MissedBound` when the threads leave because of the cable. `ShutdownCompletes`: `kicked ~> refCount = 0` |
| `datapath` | 3 packets of 2 bytes, 2 streams (a forward, an interactive shell), 3 bytes each way on each, calls for 2 or 3 bytes | `OneHolder`: no packet is in two places. `PacketsComeBack`: what can be lost of them. `DownSpec`, `UpSpec`: both directions implement `ByteStream` |
| `handshake` | 2 processes, a foreign key, one end of a process, one failing file, one failing signature, 2 connections, Clear at any time | `PublicKeyLast`, `OwnerAskedOnce`, `OnlineMeansAccepted`, `LostIsOffline` (once SYNC(0) was handled), that the transport `ComesOnline`, and that the exchange `Settles` |
| `channels_reuse` | 2 users, 1 slot, 3 opens, one packet per stream | `NoCrossTalk`, `FreeSlotIsSilent`, `OneStreamPerSlot`, `SlotsAreExclusive`; `KeepsPromise`: the table implements `StreamTable` |
| `channels_calls` | 1 user, forward, 2 opens, a packet each way, Clear at any time | `CallsReturn`, while no semaphore is overdrawn, but for late opens (section 5, `ChannelsLateOpen`) |
| `registry_life` | 2 users, 2 scanners, a transport and its successor at one port | `OneHandlePerInterface` with everything that may run at once |
| `registry_replaced` | 1 user, 1 scanner, 2 ports, 2 plugs | `DestructorFindsNoUser`, `NoThreadOutlives` when a device comes back elsewhere and its old transport is still used |
| `registry_found` | 1 user, 1 scanner, 2 plugs | `FoundAgain`: a device plugged in again is found again, once its users let go |
| `sync_transfers` | all six transfers, two files of four contents, any of which may be cut short here | `PushSucceedsOnlyIfStored`, `SyncLeavesNoDifference`, `PulledIsWhole`, that `EveryTransferEnds`; `KeepsPromise`: implements `Transfer` |
| `channels_oversized` | 1 user, a command that is too long | expected to fail, see section 5 |

Each module's `TypeOK` is checked in one of these; besides types it says where a thread can be (inside a condition
variable exactly while its wait is, a loop index within its list, a lock held in the sections that take it).

**Bounds.** The semaphore's hazards need two threads of each role: one that is late, one that
overtakes. `Slack` is 0 in the runs of `Transport`, since an initial 5 only lets the first five waits of a
reader pass without sleeping, which hides the behaviour looked for. One packet per direction already
makes every handler run, and start-up alone puts three packets through each
semaphore. The cable is pulled (`CanUnplug`) in `transport_unplug` only: with clients, a Clear and a pulled cable at once the search has ten times as many states,
and a thread leaves on the Clear as it does on the cable; the proofs cover all three together. Two users suffice for what one leaves to the next, three opens for two streams of one
user with another's between them. The registry needs a transport and its successor; two scans and two users are explored at one port, a change of
ports with one of each, since together they exceed what can be searched. In `sync_transfers` the files differ from each other,
agree in time and size (which `sync` cannot tell apart), are empty, or have several chunks. In `datapath` 3 bytes are a packet and a part of one, a call for 2 bytes is one packet, or ends
inside the second of two, and one for 3 spans two, and with 3 packets one can be half read while another waits and a third is being written. In `handshake` the second process, one crash and one fault
suffice for each way in which the two files come to disagree, and the second connection meets what the first left. Symmetry is used only for users, ports and packets,
only in runs without liveness, and in those with step properties only where these do not tell the permuted values apart
(`KeepsPromise` and `StreamTable` treat users alike; `ByteStream` knows no packets).

**Fairness.** Weak fairness for each thread that can run: the threads are the operating
system's. Nothing is owed by callers, by a cable, by a device that may stay silent, or by time-outs.
`UnpluggedSpec` adds that a `usb_read` on a pulled cable fails. adbd's answers are fair in `Channels`, `Handshake` and
`Sync`, where they are the subject of the wait. Notifications that the semaphore loses are not assumed away: `CallsReturn` is stated
for behaviours in which no semaphore is overdrawn, and `ChannelsClearNotifies.cfg` (section 5) shows what happens otherwise. Nor does it promise anything to a caller
who takes a channel when `free_ctrol` is already through with the table (`Late`); `ChannelsLateOpen.cfg` shows that one waiting. A forward is the run's only kind of open: a shell's
goes through the same steps, and differs only in that its test of `kicked` may refuse it. In
`Registry` the application keeps calling `FindDevices` (strong fairness, since another caller's lock comes and goes) and destroys a `CAdb` whose transport is kicked. `FoundAgain`
is about behaviours in which nothing undefined happens and no pump thread comes too late (`Orderly`), and users do not construct
`CAdb`s for ever (`Settled`), up to the bound on transports (`Exhausted`).

## 5. Where the code departs from what it says

Each line is a configuration that TLC refutes: the property states what a comment or header of the repository says, quoted with
its line where the property is defined. `ChannelsOversized` is among the runs above (`channels_oversized`); the others are kept to
reproduce the behaviour and to be turned into passing runs if the code changes. `SyncDepartures` holds four invariants: with `-continue`, TLC reports each
of them. `LeftIsOffline` is quoted from no comment: it is `LostIsOffline` without its condition.

| configuration | module | property | what happens |
|---------------|--------|----------|--------------|
| `ChannelsOversized` | `MCChannels` | `WaitsForAnOpen` | a command over 1024 bytes leaves the channel open without an OPEN: the next close waits for ever |
| `MCSemaphoreOverdraft` | `MCSemaphore` | `NoOverdraft` | two Signals let one waiter pass three times: `count_` is not tested after the wait |
| `TransportQueuedIsTaken` | `Transport` | `QueuedIsTaken` | so a packet can stay in its pipe (here with the 5 of the code): the Signal of a later one only pays the debt |
| `TransportClearWakes` | `Transport` | `ClearWakesReaders` | and a reader can sleep through a user's Clear |
| `TransportLastClear` | `Transport` | `LastClearWakesReaders` | when a client has sent, `input_thread` can sleep for good after `output_thread` and `user_thread` have left (below) |
| `TransportClearReleases` | `Transport` | `ClearReleases` | Clear does not end the read in which `output_thread` waits (its `usb_kick` is commented out) |
| `ChannelsConnect` | `MCChannels` | `ConnectWaitsForTheAnswer` | a notification of the previous close ends the wait for the answer to an OPEN |
| `ChannelsClearNotifies` | `MCChannels` | `SweptCallsAlwaysReturn` | the one notification of `free_ctrol` can be swallowed |
| `ChannelsLateOpen` | `MCChannels` | `ConnectReturns` | `forward_connect` and `sync_connect` do not look at `kicked`: who takes a channel after `free_ctrol` has notified them all has its OPEN dropped and waits for ever for the answer |
| `RegistryDestructor` | `MCRegistry` | `DestructorReturns` | a thread that starts after the last pointer is gone never gives back its count: `~Catransport` loops |
| `RegistryNoPair` | `MCRegistry` | `DestructorNeedsNoPair` | destroying a transport that was never started dereferences its null `pair` |
| `RegistryStale` | `MCRegistry` | `ConstructionIsSafe` | the reference `get_device` returns is read after its entry may be erased |
| `RegistryNames` | `MCRegistry` | `NameListIsSafe` | `get_device` leaves a null entry that `get_device_name_list` follows |
| `DataPathFailedRead` | `MCDataPath` | `FailedReadKeepsData` | a read that fails on its time-out has used up the bytes that were there |
| `DataPathShellOutput` | `MCDataPath` | `ShellOutputIsWhole` | data and CLSE that arrive between `shell_recv`'s look at the queue and its look at the channel are left unread |
| `HandshakeConnect` | `MCHandshake` | `ConnectsOnlyOnSync` | a device in recovery and the host answer each other's CNXN without end |
| `HandshakeAskedOnce` | `MCHandshake` | `AsksOnce` | the same exchange, with `key` where the last AUTH left it, asks the owner for a key that was accepted |
| `HandshakePairMatches` | `MCHandshake` | `PairMatches` | two processes that make keys at once, or one that fails, leave an `adbkey.pub` that does not belong to `adbkey` |
| `HandshakeAsks` | `MCHandshake` | `Asks` | a process that ended while it made its key leaves an empty `adbkey`: no list, no public key, nobody is asked |
| `HandshakeLeaves` | `MCHandshake` | `LeftIsOffline` | `user_thread` leaves on `kicked` with SYNC(0) still queued: the transport keeps saying `device` |
| `SyncDepartures` | `MCSync` | `SentIsWhole` | a read that fails in the middle of a file ends the file: what was read is stored, and the push succeeds |
| `SyncDepartures` | `MCSync` | `LengthIsReturned` | `sync_pull_buffer` succeeds without a length when adbd says FAIL |
| `SyncDepartures` | `MCSync` | `DirectoryIsPulled` | pulling a directory succeeds and copies nothing |
| `SyncDepartures` | `MCSync` | `FileIsCreated` | a file cannot be pulled to a path where there is none |

`TransportLastClear` was found through the proof of a bound on the Clears a reader can miss, now part of `MissedBound`. When the notifications of two writers come
late, each of them wakes the reader from a wait for which no permit is left, and `count_` falls to -2. Two Clears, those of `output_thread` and `user_thread`, only bring it back to 0, so
`input_thread` sleeps for good and keeps its pointer: `ref_count` stays at 1, the destructor never begins, and the thread and the transport are never released. `a2b` has one more writer for each client; with the user's threads idle it has one, `b2a` always has
one, and then the Clears of the other two threads are enough: without clients `LastClearWakesReaders` is proved (section 6), and `ShutdownCompletes` is checked for such a transport.
What holds for all, and is proved, is the bound.

## 6. What is proved

The theorems hold for every value of the constants that the `...Assumption` of the module allows: any number of
threads, users, slots, keys, transports and packets. `PROJECT.json` lists them; each names the property that a run checks on a small instance.

**`SemaphoreProofs`**, from `SemaphoreAssumption` (finite disjoint sets of threads, at least one waiter, natural bounds):

- `SemaphoreTypeOK`: `TypeOK` is inductive as it stands.
- `SemaphoreNoOrphanedPermit`: inductive together with `TypeOK`. A thread blocks only when `count_ < 1`. From then on
  each increment adds a signaller that has still to notify, each notification that finds a
  sleeper moves it to `woken`, and each resumption lowers `count_` and `woken` together.
- `SemaphoreOverdraftBound`: a bound on `count_` alone is not inductive, since a released thread decrements it
  from whatever value it has. `OverdraftInv` bounds `count_` less the notifications that are pending and less the threads that are
  released, which is what `count_` can still fall to. A Signal, its notification and a resumption keep that difference or raise it; only a `Wait` that
  passes at once and a `reset` lower it, and both are done by a thread that is itself not released (`IdleNotWoken`), which leaves the room the
  bound needs.
- `SemaphoreTwoPassesPerSignal`: `PassesInv` bounds the calls that have passed together with everything that can still let one pass: a
  positive `count_`, the threads released, the notifications to come. A Signal adds one to `count_` and one notification; everything else
  moves one unit along or loses it. A debt lets nobody pass, so a negative `count_` counts as 0: this is why the bound is two passes for a Signal and not one.

**`TransportProofs`**:

- `TransportTypeOK`: `TypeInv` adds what `Start` has still to create (`Starting`: a thread not yet created has done nothing), that a
  reader is inside a semaphore exactly while its `pc` says so, and that `refCount` is the number of threads created and not ended.
- `TransportSyncFirst`: `Directions` says which thread may push to which pipe; the rest is four phases. `Before`: `output_thread` has still
  to push the SYNC with which it begins, and it heads b2a. `Replying`: `user_thread` has taken it and is committed to its greeting, SYNC to a2b and then CNXN.
  `Dead`: the transport was kicked before `input_thread` saw anything. `Flowing`: SYNC is ahead in a2b or was taken, CNXN is on its way
  behind it, and nobody but `user_thread` writes before that.
- `TransportMissedBound` is about what a sleeping reader can miss, and no statement about sleeping readers alone is inductive. `DebtInv` keeps
  the account of each semaphore, with W the number of the pipe's writers. `Shapes`: the steps a thread is committed to come as Signals, Writes and Clears (`Paired`: after
  a push the add, after the add the notification; `Owed`: before the kick only a pipe's writers Signal it; `Kicks`: who leaves while nothing was kicked
  will kick and then Signal both). `Debt`: before the kick `count_` is at least the pending notifications plus the woken reader less W, since each
  writer has at most one notification pending. While the reader waits, the packets in the pipe are before the kick at most `count_`, the adds to come and W
  together; after it the packets and the threads that are through with their own Clear (`Through`) are together at most `count_`, W, and
  the adds to come that are not the last one of a Clear (`AddsToCome`). While it sleeps `count_` is at most the pending notifications. When nobody is
  Signalling there are no adds and no notifications to come, `count_` is not positive, and W bounds packets and departures together.
- `TransportLastClearWakesReaders` is proved for a transport without clients; with one it is false (section 5). Without them W is 1 for both pipes, so a reader
  that is still asleep after `output_thread` has left has missed that one Clear and no packet: both pipes are empty and nobody else has left. This is impossible, since `output_thread` ends by
  pushing SYNC(0) unless the transport is kicked already. `FarewellInv` follows it: from the moment `output_thread` begins to leave, either somebody else leaves too, or SYNC(0) is about to be pushed, in b2a, in
  `user_thread`'s hands, or in a2b, or the transport is kicked and `user_thread` is about to see that. It needs that only who leaves kicks
  (`Kickers`), that there is somebody leaving behind every kick, and a kick behind every push of
  `output_thread` that failed (`KickedBy`), and where `user_thread` is when it has something to do (`UserPlaces`).

**`DataPathProofs`**, from `DataPathAssumption`, for any number of packets, streams and bytes:

- `DataPathOneHolder` needs all places at once: `Apart` says that no packet lies in two of the pool, the heap, the two pipes, `ptrlist`, `last_apacket` and the threads' hands, nor
  twice in one queue. `Calling` says what the client holds at each place of its calls, `Filled` what is in the packet `client_write` is about to queue.
- `DataPathPacketsComeBack`: `Losses` bounds the number of packets that lie nowhere by the refused lines of `shell_send`, and, once the transport
  is kicked, by one for each of the three threads that push and push no more; a reader that was past its test of `kicked` (`Released`) may still have one push to come.
- `DataPathDown` (`DataPath` implements `ByteStream` from the device to the caller): the packets with data on their way are at five stages, the
  client with `last_apacket`, `ptrlist`, `user_thread`, b2a, `output_thread`. `InOrder` and `Ordered`: their bytes are in this order, and in each queue. `NoGap`: before each of them no byte is missing. `Whole`: until `output_thread` has ended nothing that the device has
  sent is missing. `Reads`: who may still read after the kick has no packet in hand. A new stream must find nothing of the old one: `Closing`, the CLSE of a stream is the last that is heard of it, and a channel that is closed
  has no packet of its stream on its way.
- `DataPathUp` (from the caller to the device): the packets of the open stream (`Mine`) in a2b and at `input_thread` are in order, begin behind what the device has
  and end with what `client_write` has queued, and none is missing as long as no `usb_write` failed. `DataPathTypeOK` is the type invariant these rest on.

**`HandshakeProofs`**: `IInv` is `TypeOK`, the three safety properties, and four facts that carry them. `Flow`: at most one
packet of the exchange is on its way between the two ends, and SYNC(0) behind the device's last. `Idle`: before `adb_auth_init` has ended there is no transport.
`Progress`: the keys tried are the first ones of the list up to `key`, and in which states the two ends can be when a packet reaches them. `Refusals`: a device in state
`device` has refused every key tried, except perhaps the one whose signature is on its way. So the list advances only with a refusal, and the public key goes
out when every key was refused (`HandshakePublicKeyLast`). Further: `HandshakeTypeOK`, `HandshakeOnlineMeansAccepted`,
`HandshakeLostIsOffline` (its hypothesis, `goodbye` and nothing left to handle, is what a `user_thread` that leaves early does not reach), and, as a property of steps, `HandshakeOwnerAskedOnce`.

**`ChannelsProofs`**: `ChannelsTypeOK` needs that a client in a wait waits on its own slot, that packets on their way
carry slots that were noted for them, and that the bound on opens leaves room for the OPENs still to be sent
(a cardinality). `ChannelsSlotsAreExclusive` needs `Owned`: until the transport is kicked the slot a client has is marked used; only `Clear` takes it away, and after it no
slot is given out again.

**`StreamProofs`** is about a slot's streams while the transport is up. The argument: the CLSE of a stream is the last that is heard of it;
`biptype` is `"close"` from the moment it is handled until the next type is set, which waits for it; so a closed channel is unknown
to the device, to both FIFOs and to `user_thread`. The invariant says this party by party (`Asked` for OPENs on their way, `Streaming` for
the device, `Arriving` for its packets, `Handling` for `user_thread`, `Queued` for the packets received, `Using` and `Calling` for the
users). It gives `ChannelsNoCrossTalk` and `ChannelsFreeSlotIsSilent`; `Numbered` (no stream's number is ahead of `opens`) keeps
`ChannelsOneStreamPerSlot` after a kick too. `ChannelsKeepsPromise` shows that each step of `Channels` is, on the slots, one step of
`StreamTable` or none.

**`RegistryProofs`**, from `RegistryAssumption`: as long as anything holds a transport it is alive (`Pointers`). Its heart is that `UseCount(t) = 1` with one holder
known leaves no other (`LastHolder`, `LastThread`, `LastEntry`), so the release that begins the destructor is made by the last of them. With
`Counted` (`connectCount` and `refCount` are the cardinalities of who is between `++` and `--`), `Ended` (a transport that is dead has no
thread counted) and `Opens` (a handle in the list belongs to a transport that was made) it is inductive, and gives
`RegistryTypeOK`, `RegistryDestructorFindsNoUser` (who is counted still holds its pointer), `RegistryNoThreadOutlives`
(a thread that runs holds a pointer, one that has not begun is counted) and `RegistryOneHandlePerInterface`. The undefined accesses
of section 5 end the behaviour, so these theorems are about what happens before the first of them.

**`SyncProofs`**, from `SyncAssumption` (at least one file, whatever contents): `SyncInv` says, for each place of the operation, what is in the
stream as long as it is open. `Upload`: of the messages about the file the host is at, adbd has taken the first so many (`Taken`), the rest are queued in
order, and what is stored is the beginning that was taken, or the file was refused and a FAIL is queued, or all of it was taken and an OKAY is queued. `Download`: what is still to
come continues what has been received. `Questions`: sync's answers come in the order of the list. `Over`: when the result is known adbd ignores what is
left. The success of a push needs `Storing` (only the file the host is at is being stored) and `Stored` (each file before it in the list is whole, up to date, or cut short here and stored as far as it was read);
that of a pull `Received`. None of the properties says anything of the stream, so none is inductive without it. The
theorems: `SyncTypeOK`, `SyncPushSucceedsOnlyIfStored`, `SyncNoDifferenceIsLeft`, `SyncPulledIsWhole`, and `SyncKeepsPromise`: `Sync` implements `Transfer`. For the last,
`StoreStep` says what adbd does with a file when it takes a message about it, and each step of either side is one of `Transfer`'s
or a stutter.

Cardinality facts come from `FiniteSetTheorems`, facts on sequences from `SequenceTheorems`.

**Only model-checked.** Liveness under fairness and what needs `ENABLED`, which the prover does not handle. What a loop over a
whole list computes (induction over data). Every safety invariant, step property and refinement that a run expects to hold is proved, `LastClearWakesReaders` for transports like the one of its run, which have no clients.

## 7. Not modelled

- The zip reader (`centraldir.cpp`, `zipfile.cpp`): reached only with `verifyApk`, which `CAdb` never sets.
- The vendor table: filled once, before anything runs; the choice of a device in `Registry` stands for what it says of one.
- `check_header`, `check_data`, `adb_strtok_r`: tests of one packet or one string, without state; a packet that fails them is a failed read of the
  device in `Transport` and `DataPath`.
- The Windows USB calls: external, and taken as results. `usb_kick` closes the endpoints of a handle whose device is gone, after which its calls fail, as they do without it.
- RSA: a signature succeeds or fails; which key made it is the key's name.
- `Start` when a thread cannot be created, where the code deletes a `weak_ptr` through a `void*` and the threads
  already created go on with it: listed as a hazard, and planned.
- `InitAdb` called while other threads run, two threads that use one `CAdb`, several serial numbers in one list.
- The sample program in `src/adbServerTest/` outside `adb/`.

The vendored headers in `src/include/` (OpenSSL, zlib and others) are not part of the library, but they are most of the repository's
lines: the library itself has about 6100. The share of the repository that is mapped is therefore small, and stays small
whatever is modelled of the library.

## 8. Plan

In this order:

1. `Registry`: several serial numbers, `InitAdb`; creation of threads that fails in `Start`.
2. `Handshake` composed with `Channels`: callers while the transport goes offline and online again. Two threads on one `CAdb`.
3. Pure algorithms against reference definitions: `lookup_zipentry`, `parse_banner`, `adb_strtok_r`, `check_header`.

## 9. Running it

`tlc -config <run>.cfg <module>` checks one run; `PROJECT.json` pairs them. The longest (`datapath`, `registry_life`,
`registry_replaced`) have up to 2.6 million states and take one to three minutes with two workers. `tlapm <module>.tla`, for each of `SemaphoreProofs`, `TransportProofs`,
`HandshakeProofs`, `ChannelsProofs`, `StreamProofs`, `RegistryProofs`, `SyncProofs` and `DataPathProofs`, checks the proofs; `DataPathProofs` is the longest with about six minutes,
then `SyncProofs` and `TransportProofs` with five each.
