------------------------------ MODULE StreamTable ------------------------------
(***************************************************************************)
(* What the channel table of a transport promises its users while the      *)
(* transport is up.  A slot is one user's at a time.  Its streams come one *)
(* after the other: the user asks for one, the device may connect it, data *)
(* arrives in the user's inbox, the device disconnects it, and only then   *)
(* is the slot cleared for the next stream or given back.                  *)
(***************************************************************************)
EXTENDS Naturals, Sequences, FiniteSets

CONSTANTS Slots, Users

VARIABLES
    up,         \* the transport has not been kicked
    owners,     \* per slot: who uses it
    asked,      \* per slot: number of the stream asked for, 0 if cleared
    connected,  \* per slot: the streams the device has
    inbox,      \* per slot: for each packet not yet read, its stream
    last        \* number of the stream asked for last

table == <<up, owners, asked, connected, inbox, last>>

Init ==
    /\ up = TRUE /\ last = 0
    /\ owners = [l \in Slots |-> {}] /\ connected = [l \in Slots |-> {}]
    /\ asked = [l \in Slots |-> 0] /\ inbox = [l \in Slots |-> <<>>]

Idle(l) == connected[l] = {}
Empty(l) == inbox' = [inbox EXCEPT ![l] = <<>>] /\ asked' = [asked EXCEPT ![l] = 0]

TakeSlot(l, u) ==
    /\ owners[l] = {} /\ Idle(l)
    /\ owners' = [owners EXCEPT ![l] = {u}] /\ Empty(l)
    /\ UNCHANGED <<up, connected, last>>

Ask(l) ==
    /\ owners[l] # {} /\ Idle(l) /\ asked[l] = 0 /\ inbox[l] = <<>>
    /\ last' = last + 1 /\ asked' = [asked EXCEPT ![l] = last + 1]
    /\ UNCHANGED <<up, owners, connected, inbox>>

Connect(l) ==
    /\ owners[l] # {} /\ Idle(l) /\ asked[l] # 0
    /\ connected' = [connected EXCEPT ![l] = {asked[l]}]
    /\ UNCHANGED <<up, owners, asked, inbox, last>>

\* What arrives was sent on the slot's stream, perhaps just before its end.
Arrive(l) ==
    /\ owners[l] # {} /\ asked[l] # 0
    /\ inbox' = [inbox EXCEPT ![l] = Append(@, asked[l])]
    /\ UNCHANGED <<up, owners, asked, connected, last>>

Read(l) ==
    /\ inbox[l] # <<>> /\ inbox' = [inbox EXCEPT ![l] = Tail(@)]
    /\ UNCHANGED <<up, owners, asked, connected, last>>

Disconnect(l) ==
    /\ ~Idle(l) /\ connected' = [connected EXCEPT ![l] = {}]
    /\ UNCHANGED <<up, owners, asked, inbox, last>>

ClearSlot(l) ==
    /\ Idle(l) /\ Empty(l)
    /\ UNCHANGED <<up, owners, connected, last>>

GiveBack(l) ==
    /\ Idle(l) /\ Empty(l)
    /\ owners' = [owners EXCEPT ![l] = {}]
    /\ UNCHANGED <<up, connected, last>>

Kick == up' = FALSE /\ UNCHANGED <<owners, asked, connected, inbox, last>>

Next ==
    \/ ~up /\ ~up'
    \/ up /\ \/ Kick
             \/ \E l \in Slots : \/ \E u \in Users : TakeSlot(l, u)
                                 \/ Ask(l) \/ Connect(l) \/ Arrive(l) \/ Read(l)
                                 \/ Disconnect(l) \/ ClearSlot(l) \/ GiveBack(l)

Spec == Init /\ [][Next]_table
===============================================================================
