----------------------------- MODULE MCSemaphore ------------------------------
(* Semaphore on small instances: MCSemaphore.cfg and MCSemaphoreOverdraft.cfg. *)
EXTENDS Semaphore, TLC

\* Threads of the same role are interchangeable: no action names one of them.
Symmetry == Permutations(Signallers) \cup Permutations(Waiters)
===============================================================================
