------------------------------ MODULE Semaphore ------------------------------
(***************************************************************************)
(* Threads that use one Semaphore (Semaphore.h): Signallers call Signal(1) *)
(* (aclient::notify, write_packet, remote_usb_clear); Waiters call Wait,   *)
(* Wait_time (aclient::wait, wait_for_usb_read_packet) and reset           *)
(* (aclient::re_init).  reset() stores count_ without mutex_: a racing     *)
(* Signal or Wait orders it before or after itself or overwrites it, and   *)
(* an overwritten reset is a reset that never happened.                    *)
(***************************************************************************)
EXTENDS SemaphoreOps, FiniteSets

CONSTANTS
    Signallers,     \* threads that call Signal
    Waiters,        \* threads that call Wait or Wait_time
    InitialCount,   \* the constructor's argument (5 for the pipes, 0 for a channel)
    MaxSignals,     \* bound: how many Signal calls a behaviour makes
    MaxTimeouts,    \* bound: how many Wait_time calls time out
    MaxResets       \* bound: how many times reset() is called

ASSUME SemaphoreAssumption ==
    /\ IsFiniteSet(Signallers) /\ IsFiniteSet(Waiters)
    /\ Signallers \cap Waiters = {} /\ Waiters # {}
    /\ InitialCount \in Nat /\ MaxSignals \in Nat /\ MaxTimeouts \in Nat /\ MaxResets \in Nat

VARIABLES
    sem,        \* the semaphore
    pc,         \* what each thread is doing
    signals,    \* Signal calls made
    passes,     \* Wait and Wait_time calls that returned with a permit
    timeouts,   \* Wait_time calls that returned false
    resets      \* reset() calls made

vars == <<sem, pc, signals, passes, timeouts, resets>>

Threads == Signallers \cup Waiters

\* Signallers between the critical section of Signal and its notify_one.
Notifying == {t \in Signallers : pc[t] = "notify"}

\* The variables have their types, and a thread is inside the condition
\* variable exactly while its Wait or Wait_time call is (Semaphore.h 21-40).
TypeOK ==
    /\ sem \in SemType(Waiters)
    /\ pc \in [Threads -> {"idle", "notify", "wait", "wait_time"}]
    /\ signals \in 0..MaxSignals
    /\ passes \in Nat
    /\ timeouts \in 0..MaxTimeouts
    /\ resets \in 0..MaxResets
    /\ sem.blocked \cap sem.woken = {}
    /\ \A t \in Waiters : t \in sem.blocked \cup sem.woken <=> pc[t] # "idle"

Init ==
    /\ sem = NewSem(InitialCount)
    /\ pc = [t \in Threads |-> "idle"]
    /\ signals = 0 /\ passes = 0 /\ timeouts = 0 /\ resets = 0

-------------------------------------------------------------------------------
\* Signal: { lock; count_ += n; } and then cv_.notify_one() without the lock.
SignalAdd(t) ==
    /\ pc[t] = "idle" /\ signals < MaxSignals
    /\ sem' = Raised(sem, 1)
    /\ signals' = signals + 1
    /\ pc' = [pc EXCEPT ![t] = "notify"]
    /\ UNCHANGED <<passes, timeouts, resets>>

SignalNotify(t) ==
    /\ pc[t] = "notify"
    /\ sem' \in Notified(sem)
    /\ pc' = [pc EXCEPT ![t] = "idle"]
    /\ UNCHANGED <<signals, passes, timeouts, resets>>

\* Wait and Wait_time up to the point where they return or block.
WaitEnter(t, how) ==
    /\ pc[t] = "idle"
    /\ IF CanPass(sem)
       THEN /\ sem' = Passed(sem)
            /\ passes' = passes + 1
            /\ UNCHANGED pc
       ELSE /\ sem' = Blocked(sem, t)
            /\ pc' = [pc EXCEPT ![t] = how]
            /\ UNCHANGED passes
    /\ UNCHANGED <<signals, timeouts, resets>>

\* The condition variable released the thread: --count_ and return.
WaitResume(t) ==
    /\ t \in sem.woken
    /\ sem' = Resumed(sem, t)
    /\ passes' = passes + 1
    /\ pc' = [pc EXCEPT ![t] = "idle"]
    /\ UNCHANGED <<signals, timeouts, resets>>

\* timed_wait gave up: Wait_time returns false.
WaitTimeout(t) ==
    /\ pc[t] = "wait_time" /\ t \in sem.blocked /\ timeouts < MaxTimeouts
    /\ sem' = TimedOut(sem, t)
    /\ timeouts' = timeouts + 1
    /\ pc' = [pc EXCEPT ![t] = "idle"]
    /\ UNCHANGED <<signals, passes, resets>>

\* reset(), by a thread that is about to use the semaphore.
Reset(t) ==
    /\ pc[t] = "idle" /\ resets < MaxResets
    /\ sem' = ResetSem(sem)
    /\ resets' = resets + 1
    /\ UNCHANGED <<pc, signals, passes, timeouts>>

Next ==
    \/ \E t \in Signallers : SignalAdd(t) \/ SignalNotify(t)
    \/ \E t \in Waiters :
          \/ \E how \in {"wait", "wait_time"} : WaitEnter(t, how)
          \/ WaitResume(t)
          \/ WaitTimeout(t)
          \/ Reset(t)

Spec == Init /\ [][Next]_vars

-------------------------------------------------------------------------------
\* A waiter never sleeps beside a permit that nobody is going to hand out: as
\* long as a thread is in cv_.wait, every permit counted in count_ belongs to a
\* Signal that has still to call notify_one or to a thread already released
\* (Signal notifies after it unlocks, Semaphore.h 14-18).
NoOrphanedPermit ==
    sem.blocked # {} => sem.count <= Cardinality(Notifying) + Cardinality(sem.woken)

\* How far below zero the untested --count_ after cv_.wait can drive count_
\* (Semaphore.h 21-27): a late notify_one releases a thread whose permit was
\* taken by another, at most once per thread.
OverdraftBound ==
    sem.count >= 1 - (Cardinality(Signallers) + Cardinality(Waiters))

\* What a Signal is worth at most: its permit to a call that need not wait, and its
\* notify_one to one that waits, which takes no account of the permit (Semaphore.h
\* 13-27).  A reset in between forgives a debt, but gives nobody a pass.
TwoPassesPerSignal == passes <= InitialCount + 2 * signals

\* What a counting semaphore promises (Semaphore.h 8, "a semaphore
\* implementation"): no more calls pass than permits were ever given.
NoOverdraft == passes <= InitialCount + signals
===============================================================================
