--------------------------- MODULE SemaphoreProofs ----------------------------
(***************************************************************************)
(* What holds of the semaphore for any number of threads, permits and      *)
(* calls.  TypeOK is inductive.  NoOrphanedPermit is inductive with it: a  *)
(* thread blocks only when count_ < 1, and from then on every increment    *)
(* adds a pending notify_one and every notify_one releases a blocked       *)
(* thread.  OverdraftBound needs the stronger OverdraftInv, which counts   *)
(* the decrements that pending notifications and released threads still    *)
(* have to make; TwoPassesPerSignal needs PassesInv, which counts the      *)
(* passes that can still come of the Signals made.                         *)
(***************************************************************************)
EXTENDS Semaphore, FiniteSetTheorems, TLAPS

\* Signallers and waiters are finitely many, so what is counted is finite.
LEMMA NotifyingFinite ==
    /\ IsFiniteSet(Notifying)
    /\ Cardinality(Notifying) \in Nat
    /\ Cardinality(Notifying) <= Cardinality(Signallers)
<1>1. Notifying \subseteq Signallers
    BY DEF Notifying
<1> QED BY <1>1, SemaphoreAssumption, FS_Subset, FS_CardinalityType

LEMMA WokenFinite ==
    ASSUME TypeOK
    PROVE  /\ IsFiniteSet(sem.woken) /\ IsFiniteSet(sem.blocked)
           /\ Cardinality(sem.woken) \in Nat
           /\ Cardinality(sem.woken) <= Cardinality(Waiters)
<1>1. sem.woken \subseteq Waiters /\ sem.blocked \subseteq Waiters
    BY DEF TypeOK, SemType
<1> QED BY <1>1, SemaphoreAssumption, FS_Subset, FS_CardinalityType

-------------------------------------------------------------------------------
LEMMA TypeInit == Init => TypeOK
BY SemaphoreAssumption DEF Init, TypeOK, NewSem, SemType, Threads

LEMMA TypeStep == TypeOK /\ [Next]_vars => TypeOK'
<1> SUFFICES ASSUME TypeOK, [Next]_vars PROVE TypeOK'
    OBVIOUS
<1> USE SemaphoreAssumption
<1>1. ASSUME NEW t \in Signallers, SignalAdd(t) PROVE TypeOK'
    BY <1>1 DEF TypeOK, SignalAdd, Raised, SemType, Threads
<1>2. ASSUME NEW t \in Signallers, SignalNotify(t) PROVE TypeOK'
    <2>1. CASE sem.blocked = {}
        BY <1>2, <2>1 DEF TypeOK, SignalNotify, Notified, SemType, Threads
    <2>2. CASE sem.blocked # {}
        <3>1. PICK w \in sem.blocked :
                  sem' = [sem EXCEPT !.blocked = @ \ {w}, !.woken = @ \cup {w}]
            BY <1>2, <2>2 DEF SignalNotify, Notified
        <3>a. /\ sem' = [count |-> sem.count, blocked |-> sem.blocked \ {w},
                          woken |-> sem.woken \cup {w}]
              /\ sem.count \in Int /\ w \in Waiters
              /\ sem.blocked \subseteq Waiters /\ sem.woken \subseteq Waiters
            BY <3>1 DEF TypeOK, SemType
        <3>2. sem' \in SemType(Waiters) /\ sem'.blocked \cap sem'.woken = {}
            BY <3>a DEF TypeOK, SemType
        <3>3. sem'.blocked \cup sem'.woken = sem.blocked \cup sem.woken
            BY <3>1 DEF TypeOK, SemType
        <3> QED BY <1>2, <3>2, <3>3 DEF TypeOK, SignalNotify, Threads
    <2> QED BY <2>1, <2>2
<1>3. ASSUME NEW t \in Waiters, NEW how \in {"wait", "wait_time"}, WaitEnter(t, how)
      PROVE  TypeOK'
    <2>1. CASE CanPass(sem)
        BY <1>3, <2>1 DEF TypeOK, WaitEnter, Passed, SemType, Threads
    <2>2. CASE ~CanPass(sem)
        BY <1>3, <2>2 DEF TypeOK, WaitEnter, Blocked, SemType, Threads
    <2> QED BY <2>1, <2>2
<1>4. ASSUME NEW t \in Waiters, WaitResume(t) PROVE TypeOK'
    <2>1. /\ sem' = [count |-> sem.count - 1, blocked |-> sem.blocked,
                      woken |-> sem.woken \ {t}]
          /\ t \in sem.woken /\ t \notin sem.blocked
          /\ sem.count \in Int
          /\ sem.blocked \subseteq Waiters /\ sem.woken \subseteq Waiters
        BY <1>4 DEF TypeOK, WaitResume, Resumed, SemType
    <2>2. sem' \in SemType(Waiters) /\ sem'.blocked \cap sem'.woken = {}
        BY <2>1 DEF TypeOK, SemType
    <2> QED BY <1>4, <2>1, <2>2 DEF TypeOK, WaitResume, Threads
<1>5. ASSUME NEW t \in Waiters, WaitTimeout(t) PROVE TypeOK'
    BY <1>5 DEF TypeOK, WaitTimeout, TimedOut, SemType, Threads
<1>6. ASSUME NEW t \in Waiters, Reset(t) PROVE TypeOK'
    BY <1>6 DEF TypeOK, Reset, ResetSem, SemType, Threads
<1>7. CASE UNCHANGED vars
    BY <1>7 DEF TypeOK, vars
<1> QED BY <1>1, <1>2, <1>3, <1>4, <1>5, <1>6, <1>7 DEF Next

\* Every reachable state is well typed, and the condition variable's queue and
\* the threads' calls agree (Semaphore.h 11-44).
THEOREM SemaphoreTypeOK == Spec => []TypeOK
BY TypeInit, TypeStep, PTL DEF Spec

-------------------------------------------------------------------------------
\* How each step changes the number of notifications that are still to come.
LEMMA NotifyingAdd ==
    ASSUME TypeOK, NEW t \in Signallers, SignalAdd(t)
    PROVE  Cardinality(Notifying') = Cardinality(Notifying) + 1
<1>1. Notifying' = Notifying \cup {t} /\ t \notin Notifying
    BY DEF TypeOK, SignalAdd, Notifying, Threads
<1> QED BY <1>1, NotifyingFinite, FS_AddElement

LEMMA NotifyingRemove ==
    ASSUME TypeOK, NEW t \in Signallers, SignalNotify(t)
    PROVE  Cardinality(Notifying') = Cardinality(Notifying) - 1
<1>1. Notifying' = Notifying \ {t} /\ t \in Notifying
    BY DEF TypeOK, SignalNotify, Notifying, Threads
<1> QED BY <1>1, NotifyingFinite, FS_RemoveElement

LEMMA NotifyingSame ==
    ASSUME TypeOK, NEW t \in Waiters,
           \/ \E how \in {"wait", "wait_time"} : WaitEnter(t, how)
           \/ WaitResume(t) \/ WaitTimeout(t) \/ Reset(t)
    PROVE  Notifying' = Notifying
BY SemaphoreAssumption
   DEF TypeOK, WaitEnter, WaitResume, WaitTimeout, Reset, Notifying, Threads

\* notify_one moves one thread from blocked to woken when there is one.
LEMMA WokenByNotify ==
    ASSUME TypeOK, NEW t \in Signallers, SignalNotify(t)
    PROVE  /\ sem'.count = sem.count
           /\ sem.blocked = {} => sem' = sem
           /\ sem.blocked # {} => Cardinality(sem'.woken) = Cardinality(sem.woken) + 1
<1>1. CASE sem.blocked = {}
    BY <1>1 DEF SignalNotify, Notified
<1>2. CASE sem.blocked # {}
    <2>1. PICK w \in sem.blocked :
              sem' = [sem EXCEPT !.blocked = @ \ {w}, !.woken = @ \cup {w}]
        BY <1>2 DEF SignalNotify, Notified
    <2>2. sem'.woken = sem.woken \cup {w} /\ w \notin sem.woken /\ sem'.count = sem.count
        BY <2>1 DEF TypeOK, SemType
    <2> QED BY <1>2, <2>2, WokenFinite, FS_AddElement
<1> QED BY <1>1, <1>2

\* A thread that returns from cv_.wait leaves woken and takes one permit.
LEMMA WokenByResume ==
    ASSUME TypeOK, NEW t \in Waiters, WaitResume(t)
    PROVE  /\ sem'.count = sem.count - 1
           /\ sem'.blocked = sem.blocked
           /\ Cardinality(sem'.woken) = Cardinality(sem.woken) - 1
<1>1. sem'.woken = sem.woken \ {t} /\ t \in sem.woken
      /\ sem'.count = sem.count - 1 /\ sem'.blocked = sem.blocked
    BY DEF TypeOK, SemType, WaitResume, Resumed
<1> QED BY <1>1, WokenFinite, FS_RemoveElement

-------------------------------------------------------------------------------
LEMMA PermitStep == TypeOK /\ NoOrphanedPermit /\ [Next]_vars => NoOrphanedPermit'
<1> SUFFICES ASSUME TypeOK, NoOrphanedPermit, [Next]_vars PROVE NoOrphanedPermit'
    OBVIOUS
<1> DEFINE P == Cardinality(Notifying)
           W == Cardinality(sem.woken)
<1>0. P \in Nat /\ W \in Nat /\ sem.count \in Int
    BY NotifyingFinite, WokenFinite DEF TypeOK, SemType
<1>1. ASSUME NEW t \in Signallers, SignalAdd(t) PROVE NoOrphanedPermit'
    <2>1. sem'.count = sem.count + 1 /\ sem'.blocked = sem.blocked /\ sem'.woken = sem.woken
        BY <1>1 DEF SignalAdd, Raised, TypeOK, SemType
    <2> QED BY <1>0, <1>1, <2>1, NotifyingAdd DEF NoOrphanedPermit
<1>2. ASSUME NEW t \in Signallers, SignalNotify(t) PROVE NoOrphanedPermit'
    BY <1>0, <1>2, NotifyingRemove, WokenByNotify DEF NoOrphanedPermit
<1>3. ASSUME NEW t \in Waiters, NEW how \in {"wait", "wait_time"}, WaitEnter(t, how)
      PROVE  NoOrphanedPermit'
    <2>1. Notifying' = Notifying
        BY <1>3, NotifyingSame
    <2>2. CASE CanPass(sem)
        <3>1. sem'.count = sem.count - 1 /\ sem'.blocked = sem.blocked /\ sem'.woken = sem.woken
            BY <1>3, <2>2 DEF WaitEnter, Passed, TypeOK, SemType
        <3> QED BY <1>0, <2>1, <3>1 DEF NoOrphanedPermit
    <2>3. CASE ~CanPass(sem)
        <3>1. sem'.count = sem.count /\ sem'.woken = sem.woken /\ sem.count <= 0
            BY <1>0, <1>3, <2>3 DEF WaitEnter, Blocked, CanPass, TypeOK, SemType
        <3> QED BY <1>0, <2>1, <3>1 DEF NoOrphanedPermit
    <2> QED BY <2>2, <2>3
<1>4. ASSUME NEW t \in Waiters, WaitResume(t) PROVE NoOrphanedPermit'
    <2>1. Notifying' = Notifying
        BY <1>4, NotifyingSame
    <2> QED BY <1>0, <1>4, <2>1, WokenByResume DEF NoOrphanedPermit
<1>5. ASSUME NEW t \in Waiters, WaitTimeout(t) PROVE NoOrphanedPermit'
    <2>1. Notifying' = Notifying
        BY <1>5, NotifyingSame
    <2>2. sem'.count = sem.count /\ sem'.woken = sem.woken /\ sem.blocked # {}
        BY <1>5 DEF WaitTimeout, TimedOut, TypeOK, SemType
    <2> QED BY <2>1, <2>2 DEF NoOrphanedPermit
<1>6. ASSUME NEW t \in Waiters, Reset(t) PROVE NoOrphanedPermit'
    <2>1. Notifying' = Notifying
        BY <1>6, NotifyingSame
    <2>2. sem'.count = 0 /\ sem'.woken = sem.woken
        BY <1>6 DEF Reset, ResetSem, TypeOK, SemType
    <2> QED BY <1>0, <2>1, <2>2 DEF NoOrphanedPermit
<1>7. CASE UNCHANGED vars
    BY <1>7 DEF NoOrphanedPermit, Notifying, vars
<1> QED BY <1>1, <1>2, <1>3, <1>4, <1>5, <1>6, <1>7 DEF Next

\* No waiter sleeps beside a permit nobody will hand out, however many threads
\* signal and wait (Semaphore.h 13-27).
THEOREM SemaphoreNoOrphanedPermit == Spec => []NoOrphanedPermit
<1>1. Init => NoOrphanedPermit
    BY DEF Init, NewSem, NoOrphanedPermit
<1> QED BY <1>1, TypeInit, TypeStep, PermitStep, PTL DEF Spec

-------------------------------------------------------------------------------
\* The strengthening of OverdraftBound: what is left of count_ after every
\* pending notification has released a thread and every released thread has
\* taken its permit.  Only a Wait that passes can lower it, and that one finds
\* count_ at least 1 while it is itself not released.
OverdraftInv ==
    sem.count - Cardinality(Notifying) - Cardinality(sem.woken)
        >= 1 - (Cardinality(Signallers) + Cardinality(Waiters))

\* A thread that is not released leaves at most |Waiters| - 1 that are.
LEMMA IdleNotWoken ==
    ASSUME TypeOK, NEW t \in Waiters, t \notin sem.woken
    PROVE  Cardinality(sem.woken) <= Cardinality(Waiters) - 1
<1>1. sem.woken \subseteq Waiters \ {t}
    BY DEF TypeOK, SemType
<1>2. IsFiniteSet(Waiters \ {t}) /\ Cardinality(Waiters \ {t}) = Cardinality(Waiters) - 1
    BY SemaphoreAssumption, FS_RemoveElement
<1> QED BY <1>1, <1>2, FS_Subset

LEMMA OverdraftStep == TypeOK /\ OverdraftInv /\ [Next]_vars => OverdraftInv'
<1> SUFFICES ASSUME TypeOK, OverdraftInv, [Next]_vars PROVE OverdraftInv'
    OBVIOUS
<1> DEFINE P == Cardinality(Notifying)
           W == Cardinality(sem.woken)
<1>0. /\ P \in Nat /\ W \in Nat /\ sem.count \in Int
      /\ P <= Cardinality(Signallers)
      /\ Cardinality(Signallers) \in Nat /\ Cardinality(Waiters) \in Nat
    BY NotifyingFinite, WokenFinite, SemaphoreAssumption, FS_CardinalityType DEF TypeOK, SemType
<1>1. ASSUME NEW t \in Signallers, SignalAdd(t) PROVE OverdraftInv'
    <2>1. sem'.count = sem.count + 1 /\ sem'.woken = sem.woken
        BY <1>1 DEF SignalAdd, Raised, TypeOK, SemType
    <2> QED BY <1>0, <1>1, <2>1, NotifyingAdd DEF OverdraftInv
<1>2. ASSUME NEW t \in Signallers, SignalNotify(t) PROVE OverdraftInv'
    BY <1>0, <1>2, NotifyingRemove, WokenByNotify DEF OverdraftInv
<1>3. ASSUME NEW t \in Waiters, NEW how \in {"wait", "wait_time"}, WaitEnter(t, how)
      PROVE  OverdraftInv'
    <2>1. Notifying' = Notifying
        BY <1>3, NotifyingSame
    <2>2. CASE CanPass(sem)
        <3>1. sem'.count = sem.count - 1 /\ sem'.woken = sem.woken /\ sem.count >= 1
            BY <1>3, <2>2 DEF WaitEnter, Passed, CanPass, TypeOK, SemType
        <3>2. t \notin sem.woken
            BY <1>3 DEF WaitEnter, TypeOK
        <3> QED BY <1>0, <2>1, <3>1, <3>2, IdleNotWoken DEF OverdraftInv
    <2>3. CASE ~CanPass(sem)
        <3>1. sem'.count = sem.count /\ sem'.woken = sem.woken
            BY <1>3, <2>3 DEF WaitEnter, Blocked, TypeOK, SemType
        <3> QED BY <2>1, <3>1 DEF OverdraftInv
    <2> QED BY <2>2, <2>3
<1>4. ASSUME NEW t \in Waiters, WaitResume(t) PROVE OverdraftInv'
    <2>1. Notifying' = Notifying
        BY <1>4, NotifyingSame
    <2> QED BY <1>0, <1>4, <2>1, WokenByResume DEF OverdraftInv
<1>5. ASSUME NEW t \in Waiters, WaitTimeout(t) PROVE OverdraftInv'
    <2>1. Notifying' = Notifying
        BY <1>5, NotifyingSame
    <2>2. sem'.count = sem.count /\ sem'.woken = sem.woken
        BY <1>5 DEF WaitTimeout, TimedOut, TypeOK, SemType
    <2> QED BY <2>1, <2>2 DEF OverdraftInv
<1>6. ASSUME NEW t \in Waiters, Reset(t) PROVE OverdraftInv'
    <2>1. Notifying' = Notifying
        BY <1>6, NotifyingSame
    <2>2. sem'.count = 0 /\ sem'.woken = sem.woken /\ t \notin sem.woken
        BY <1>6 DEF Reset, ResetSem, TypeOK, SemType
    <2> QED BY <1>0, <2>1, <2>2, IdleNotWoken DEF OverdraftInv
<1>7. CASE UNCHANGED vars
    BY <1>7 DEF OverdraftInv, Notifying, vars
<1> QED BY <1>1, <1>2, <1>3, <1>4, <1>5, <1>6, <1>7 DEF Next

\* The overdraft of count_ never exceeds the number of threads less one,
\* however long the program runs (Semaphore.h 21-27).
THEOREM SemaphoreOverdraftBound == Spec => []OverdraftBound
<1>1. Init => OverdraftInv
    <2> SUFFICES ASSUME Init PROVE OverdraftInv
        OBVIOUS
    <2>1. Notifying = {} /\ sem.woken = {} /\ sem.count = InitialCount
        BY SemaphoreAssumption DEF Init, NewSem, Notifying, Threads
    <2>2. Cardinality(Waiters) \in Nat /\ Cardinality(Waiters) # 0 /\ Cardinality(Signallers) \in Nat
        BY SemaphoreAssumption, FS_CardinalityType, FS_EmptySet
    <2> QED BY <2>1, <2>2, SemaphoreAssumption, FS_EmptySet DEF OverdraftInv
<1>2. TypeOK /\ OverdraftInv => OverdraftBound
    BY NotifyingFinite, WokenFinite, SemaphoreAssumption, FS_CardinalityType
       DEF OverdraftInv, OverdraftBound, TypeOK, SemType
<1> QED BY <1>1, <1>2, TypeInit, TypeStep, OverdraftStep, PTL DEF Spec

-------------------------------------------------------------------------------
(* Two passes for a Signal.                                                   *)
AboveZero(n) == IF n > 0 THEN n ELSE 0

\* A positive count_ lets as many calls pass, and so may each released thread and each
\* notification to come.  A debt lets nobody pass, so that it does not count.
PassesInv ==
    passes + AboveZero(sem.count) + Cardinality(sem.woken) + Cardinality(Notifying)
        <= InitialCount + 2 * signals

LEMMA PassesStep == TypeOK /\ PassesInv /\ [Next]_vars => PassesInv'
<1> SUFFICES ASSUME TypeOK, PassesInv, [Next]_vars PROVE PassesInv'
    OBVIOUS
<1>0. PICK c \in Int, w \in Nat, n \in Nat, p \in Nat, s \in Nat, i \in Nat :
          /\ c = sem.count /\ w = Cardinality(sem.woken) /\ n = Cardinality(Notifying)
          /\ p = passes /\ s = signals /\ i = InitialCount
    BY NotifyingFinite, WokenFinite, SemaphoreAssumption DEF TypeOK, SemType
<1>a. p + AboveZero(c) + w + n <= i + 2 * s
    BY <1>0 DEF PassesInv
<1>1. ASSUME NEW t \in Signallers, SignalAdd(t) PROVE PassesInv'
    <2>1. sem'.count = c + 1 /\ Cardinality(sem'.woken) = w /\ passes' = p /\ signals' = s + 1
        BY <1>0, <1>1 DEF SignalAdd, Raised, TypeOK, SemType
    <2>2. Cardinality(Notifying') = n + 1
        BY <1>0, <1>1, NotifyingAdd
    <2>3. p + AboveZero(c + 1) + w + (n + 1) <= i + 2 * (s + 1)
        BY <1>0, <1>a DEF AboveZero
    <2> QED BY <1>0, <2>1, <2>2, <2>3 DEF PassesInv
<1>2. ASSUME NEW t \in Signallers, SignalNotify(t) PROVE PassesInv'
    <2>1. sem'.count = c /\ passes' = p /\ signals' = s
        BY <1>0, <1>2, WokenByNotify DEF SignalNotify
    <2>2. Cardinality(Notifying') = n - 1
        BY <1>0, <1>2, NotifyingRemove
    <2>3. Cardinality(sem'.woken) = w \/ Cardinality(sem'.woken) = w + 1
        BY <1>0, <1>2, WokenByNotify
    <2>4. p + AboveZero(c) + (w + 1) + (n - 1) <= i + 2 * s /\ p + AboveZero(c) + w + (n - 1) <= i + 2 * s
        BY <1>0, <1>a DEF AboveZero
    <2> QED BY <1>0, <2>1, <2>2, <2>3, <2>4 DEF PassesInv
<1>3. ASSUME NEW t \in Waiters, NEW how \in {"wait", "wait_time"}, WaitEnter(t, how)
      PROVE  PassesInv'
    <2>1. Cardinality(Notifying') = n /\ signals' = s /\ Cardinality(sem'.woken) = w
        BY <1>0, <1>3, NotifyingSame DEF WaitEnter, Passed, Blocked, TypeOK, SemType
    <2>2. CASE CanPass(sem)
        <3>1. sem'.count = c - 1 /\ passes' = p + 1 /\ c >= 1
            BY <1>0, <1>3, <2>2 DEF WaitEnter, Passed, CanPass, TypeOK, SemType
        <3>2. (p + 1) + AboveZero(c - 1) + w + n <= i + 2 * s
            BY <1>0, <1>a, <3>1 DEF AboveZero
        <3> QED BY <1>0, <2>1, <3>1, <3>2 DEF PassesInv
    <2>3. CASE ~CanPass(sem)
        <3>1. sem'.count = c /\ passes' = p
            BY <1>0, <1>3, <2>3 DEF WaitEnter, Blocked, TypeOK, SemType
        <3> QED BY <1>0, <1>a, <2>1, <3>1 DEF PassesInv
    <2> QED BY <2>2, <2>3
<1>4. ASSUME NEW t \in Waiters, WaitResume(t) PROVE PassesInv'
    <2>1. Cardinality(Notifying') = n /\ signals' = s /\ passes' = p + 1
        BY <1>0, <1>4, NotifyingSame DEF WaitResume
    <2>2. sem'.count = c - 1 /\ Cardinality(sem'.woken) = w - 1
        BY <1>0, <1>4, WokenByResume
    <2>3. (p + 1) + AboveZero(c - 1) + (w - 1) + n <= i + 2 * s
        BY <1>0, <1>a DEF AboveZero
    <2> QED BY <1>0, <2>1, <2>2, <2>3 DEF PassesInv
<1>5. ASSUME NEW t \in Waiters, WaitTimeout(t) PROVE PassesInv'
    <2>1. Cardinality(Notifying') = n /\ signals' = s /\ passes' = p
        BY <1>0, <1>5, NotifyingSame DEF WaitTimeout
    <2>2. sem'.count = c /\ sem'.woken = sem.woken
        BY <1>0, <1>5 DEF WaitTimeout, TimedOut, TypeOK, SemType
    <2> QED BY <1>0, <1>a, <2>1, <2>2 DEF PassesInv
<1>6. ASSUME NEW t \in Waiters, Reset(t) PROVE PassesInv'
    <2>1. Cardinality(Notifying') = n /\ signals' = s /\ passes' = p
        BY <1>0, <1>6, NotifyingSame DEF Reset
    <2>2. sem'.count = 0 /\ sem'.woken = sem.woken
        BY <1>6 DEF Reset, ResetSem, TypeOK, SemType
    <2>3. p + AboveZero(0) + w + n <= i + 2 * s
        BY <1>0, <1>a DEF AboveZero
    <2> QED BY <1>0, <2>1, <2>2, <2>3 DEF PassesInv
<1>7. CASE UNCHANGED vars
    BY <1>7 DEF PassesInv, Notifying, vars
<1> QED BY <1>1, <1>2, <1>3, <1>4, <1>5, <1>6, <1>7 DEF Next

\* However many threads signal, wait, time out and reset: of each Signal at most two
\* calls pass, one that takes its permit and one that its notify_one releases
\* (Semaphore.h 13-27, 41-44).
THEOREM SemaphoreTwoPassesPerSignal == Spec => []TwoPassesPerSignal
<1>1. Init => PassesInv
    <2> SUFFICES ASSUME Init PROVE PassesInv
        OBVIOUS
    <2>1. Notifying = {} /\ sem.woken = {} /\ sem.count = InitialCount /\ passes = 0 /\ signals = 0
        BY SemaphoreAssumption DEF Init, NewSem, Notifying, Threads
    <2> QED BY <2>1, SemaphoreAssumption, FS_EmptySet DEF PassesInv, AboveZero
<1>2. TypeOK /\ PassesInv => TwoPassesPerSignal
    <2> SUFFICES ASSUME TypeOK, PassesInv PROVE TwoPassesPerSignal
        OBVIOUS
    <2>1. PICK c \in Int, w \in Nat, n \in Nat, p \in Nat, s \in Nat, i \in Nat :
              /\ c = sem.count /\ w = Cardinality(sem.woken) /\ n = Cardinality(Notifying)
              /\ p = passes /\ s = signals /\ i = InitialCount
        BY NotifyingFinite, WokenFinite, SemaphoreAssumption DEF TypeOK, SemType
    <2>2. p + AboveZero(c) + w + n <= i + 2 * s
        BY <2>1 DEF PassesInv
    <2>3. p <= i + 2 * s
        BY <2>1, <2>2 DEF AboveZero
    <2> QED BY <2>1, <2>3 DEF TwoPassesPerSignal
<1> QED BY <1>1, <1>2, TypeInit, TypeStep, PassesStep, PTL DEF Spec
===============================================================================
