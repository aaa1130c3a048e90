------------------------------ MODULE MCChannels ------------------------------
(* Channels on small instances: the Channels*.cfg files.                     *)
EXTENDS Channels, TLC

\* No action names a client, and neither does StreamTable: the clients are
\* interchangeable.  Runs with liveness do not use it.
Symmetry == Permutations(Clients)
===============================================================================
