------------------------------- MODULE HostKeys -------------------------------
(***************************************************************************)
(* The private keys of the processes that share one home directory         *)
(* (adb_auth_host.cpp): adb_auth_init reads, or makes, .android/adbkey and *)
(* adbkey.pub and builds key_list.  A key is named after the process that  *)
(* generates it.  stdio keeps the private key until fclose, so that the    *)
(* public file is whole before the private one is; a process may end at    *)
(* any step.                                                               *)
(***************************************************************************)
EXTENDS Integers, Sequences

CONSTANTS
    Hosts,          \* processes with this home directory: ours, another adb
    Vendors,        \* private keys of others
    VendorKeys,     \* those that can be read, in the order of ADB_VENDOR_KEYS
    MaxExits,       \* bound: times a process ends
    MaxFaults       \* bound: times a file cannot be opened or written

Keys == Hosts \cup Vendors
Absent == "absent"
Torn == "torn"      \* the file exists, but no key can be read from it

ASSUME HostKeysAssumption ==
    /\ VendorKeys \in Seq(Vendors)
    /\ Absent \notin Keys /\ Torn \notin Keys
    /\ MaxExits \in Nat /\ MaxFaults \in Nat

VARIABLES
    adbkey, adbkey_pub,     \* the two files
    auth,           \* per process: where adb_auth_init is
    key_list,       \* per process
    exits, faults   \* bounds

files == <<adbkey, adbkey_pub>>
keysVars == <<files, auth, key_list, exits, faults>>

KeysInit ==
    /\ adbkey = Absent /\ adbkey_pub = Absent
    /\ auth = [h \in Hosts |-> "stopped"] /\ key_list = [h \in Hosts |-> <<>>]
    /\ exits = 0 /\ faults = 0

Goes(h, step) == auth' = [auth EXCEPT ![h] = step]
Fault == faults < MaxFaults /\ faults' = faults + 1

\* adb_auth_init and get_user_key: is there a key already?
InitAdb(h) ==
    /\ auth[h] = "stopped"
    /\ key_list' = [key_list EXCEPT ![h] = <<>>]
    /\ Goes(h, IF adbkey = Absent THEN "create" ELSE "read")
    /\ UNCHANGED <<files, exits, faults>>

\* generate_key: the private key's file is opened and truncated,
CreateKeyFile(h) ==
    /\ auth[h] = "create"
    /\ \/ adbkey' = Torn /\ Goes(h, "public") /\ UNCHANGED faults
       \/ Fault /\ Goes(h, "done") /\ UNCHANGED adbkey
    /\ UNCHANGED <<adbkey_pub, key_list, exits>>

\* write_public_keyfile: the public key is written,
WritePublicKeyFile(h) ==
    /\ auth[h] = "public"
    /\ \/ adbkey_pub' = h /\ Goes(h, "close") /\ UNCHANGED faults
       \/ Fault /\ Goes(h, "giveup") /\ UNCHANGED adbkey_pub
    /\ UNCHANGED <<adbkey, key_list, exits>>

\* and fclose brings the private key to its file, also if the public key could not
\* be written.
CloseKeyFile(h) ==
    /\ auth[h] \in {"close", "giveup"}
    /\ \/ adbkey' = h /\ UNCHANGED faults
       \/ Fault /\ UNCHANGED adbkey
    /\ Goes(h, IF auth[h] = "close" THEN "read" ELSE "done")
    /\ UNCHANGED <<adbkey_pub, key_list, exits>>

\* read_key and get_vendor_keys: without a user key there are no others either.
ReadKeys(h) ==
    /\ auth[h] = "read"
    /\ key_list' = [key_list EXCEPT ![h] =
                       IF adbkey \in Hosts THEN <<adbkey>> \o VendorKeys ELSE <<>>]
    /\ Goes(h, "done")
    /\ UNCHANGED <<files, exits, faults>>

\* The process ends, wherever it is; the files stay.
Exit(h) ==
    /\ auth[h] # "stopped" /\ exits < MaxExits
    /\ exits' = exits + 1
    /\ Goes(h, "stopped")
    /\ key_list' = [key_list EXCEPT ![h] = <<>>]
    /\ UNCHANGED <<files, faults>>

AuthInit(h) ==
    \/ InitAdb(h) \/ CreateKeyFile(h) \/ WritePublicKeyFile(h) \/ CloseKeyFile(h)
    \/ ReadKeys(h)
===============================================================================
