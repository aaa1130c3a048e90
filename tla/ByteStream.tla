------------------------------ MODULE ByteStream ------------------------------
(***************************************************************************)
(* One direction of a stream between the host's library and a device, as   *)
(* its two ends see it.  Bytes are numbered from 1 as they are put in.      *)
(*                                                                         *)
(* The transport answers for order, and for completeness until it has lost *)
(* something: bytes come out in the order in which they went in, each at   *)
(* most once, and none is skipped unless the stream is torn.               *)
(***************************************************************************)
EXTENDS Naturals

VARIABLES
    sent,       \* bytes put in so far
    run,        \* the bytes that came out last: from one number to another
    whole       \* no byte was lost on the way

bytes == <<sent, run, whole>>

Nothing == [from |-> 0, to |-> 0]

Init == sent = 0 /\ run = Nothing /\ whole = TRUE

Put == sent' > sent /\ UNCHANGED <<run, whole>>

Deliver ==
    /\ run'.from > run.to /\ run'.from <= run'.to /\ run'.to <= sent
    /\ whole => run'.from = run.to + 1
    /\ UNCHANGED <<sent, whole>>

Tear == whole' = FALSE /\ UNCHANGED <<sent, run>>

\* The stream ends, and its channel is given to the next one.
Restart == sent' = 0 /\ run' = Nothing /\ whole' = TRUE

Next == Put \/ Deliver \/ Tear \/ Restart

Spec == Init /\ [][Next]_bytes
===============================================================================
