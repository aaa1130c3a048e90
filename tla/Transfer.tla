-------------------------------- MODULE Transfer --------------------------------
(***************************************************************************)
(* What a file transfer promises, in whichever direction it goes.  Files   *)
(* are written one at a time.  While one is being written it is a          *)
(* beginning of what it is to become; then it is whole, or given up.  One  *)
(* whose reading or writing is cut short on this side stays a beginning.   *)
(* The transfer may fail at any time, and leaves the file in work as it    *)
(* is; if it succeeds, nothing else is left half written.                  *)
(***************************************************************************)
EXTENDS Integers, Sequences, SequencesExt, FiniteSets

VARIABLES
    goal,       \* files the transfer is about
    source,     \* their contents, <<>> where there is none
    store,      \* the contents on the side written to
    inWork,     \* the file being written, if any
    cut,        \* the files cut short
    result      \* -1 while it runs, then 0 (success) or 1

transfer == <<goal, source, store, inWork, cut, result>>

Init == inWork = {} /\ cut = {} /\ result = -1

\* f is the file in work, or becomes it.
Works(f) == f \in goal /\ inWork \subseteq {f}

\* The file begins, or grows.
Write(f) ==
    /\ Works(f) /\ inWork' = {f}
    /\ IsPrefix(store'[f], source[f])
    /\ inWork = {f} => IsPrefix(store[f], store'[f])
    /\ store' = [store EXCEPT ![f] = store'[f]]
    /\ UNCHANGED <<goal, source, cut, result>>

\* Its last part is written; the file may be the one the transfer ends with.
Complete(f) ==
    /\ Works(f) /\ inWork' = {}
    /\ store' = [store EXCEPT ![f] = source[f]]
    /\ UNCHANGED <<goal, source, cut>>

\* Nothing more of f is going to be read.
CutShort(f) ==
    /\ f \in goal /\ cut' = cut \cup {f}
    /\ UNCHANGED <<goal, source, store, inWork, result>>

\* A file cut short is closed with no more than has been written of it.
CloseCut(f) ==
    /\ inWork = {f} /\ inWork' = {}
    /\ cut \subseteq cut' /\ cut' \subseteq cut \cup {f} /\ f \in cut'
    /\ IsPrefix(store'[f], store[f])
    /\ store' = [store EXCEPT ![f] = store'[f]]
    /\ UNCHANGED <<goal, source>>

\* It is removed.
GiveUp(f) ==
    /\ Works(f) /\ inWork' = {}
    /\ store' = [store EXCEPT ![f] = <<>>]
    /\ UNCHANGED <<goal, source, cut>>

\* Size by size; a file of the right size may have been there before.
Success ==
    /\ result' = 0 /\ inWork' = {}
    /\ \A f \in goal : \/ Len(store'[f]) \in {0, Len(source[f])}
                       \/ f \in cut' /\ IsPrefix(store'[f], source[f])

Result == UNCHANGED result \/ (result = -1 /\ (result' = 1 \/ Success))

\* The result is known, and not taken back.
Return ==
    /\ result = -1 /\ (result' = 1 \/ Success) /\ inWork' \subseteq inWork
    /\ UNCHANGED <<goal, source, store, cut>>

Next ==
    \/ \E f \in goal : \/ Write(f) \/ CutShort(f)
                       \/ /\ Complete(f) \/ CloseCut(f) \/ GiveUp(f)
                          /\ Result
    \/ Return

Spec == Init /\ [][Next]_transfer
===============================================================================
