------------------------------ MODULE MCDataPath ------------------------------
(* Packets are interchangeable. *)
EXTENDS DataPath, TLC

CONSTANTS p1, p2, p3

Symmetry == Permutations(Packets)
===============================================================================
