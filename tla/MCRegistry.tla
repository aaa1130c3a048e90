------------------------------ MODULE MCRegistry ------------------------------
(* Registry on small instances: the Registry*.cfg files.                     *)
EXTENDS Registry, TLC

\* No action names a user, a scanner, a port or a reader.  Only the runs that check
\* invariants use it.
Symmetry == Permutations(Users) \cup Permutations(Scanners) \cup Permutations(Ports)
            \cup Permutations(Readers)
===============================================================================
