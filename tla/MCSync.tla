-------------------------------- MODULE MCSync --------------------------------
(* Two files a sync cannot tell apart, an empty one and a longer, newer one. *)
EXTENDS Sync

MCContents == {[time |-> 1, data |-> <<1>>], [time |-> 1, data |-> <<2>>],
               [time |-> 1, data |-> <<>>], [time |-> 2, data |-> <<1, 2>>]}
===============================================================================
