----------------------------- MODULE SemaphoreOps -----------------------------
(***************************************************************************)
(* The counting semaphore of Semaphore.h as values and functions on them,  *)
(* shared by every module whose threads wait and notify.                   *)
(*                                                                         *)
(* A semaphore is [count, blocked, woken]: count is count_; blocked holds  *)
(* the threads inside cv_.wait or cv_.timed_wait; woken those that a       *)
(* notify_one has released and that have not yet taken mutex_ again.  Each *)
(* operator is what one critical section of mutex_ (or the bare notify_one *)
(* after it) does.  Assumption: the condition variable has no spurious     *)
(* wakeups; boost allows them, and they would only pass a wait too early.  *)
(***************************************************************************)
EXTENDS Integers

SemType(Threads) == [count : Int, blocked : SUBSET Threads, woken : SUBSET Threads]

\* Semaphore(long count): the initial count is the constructor's argument.
NewSem(n) == [count |-> n, blocked |-> {}, woken |-> {}]

\* The critical section of Signal(n): count_ += n.
Raised(s, n) == [s EXCEPT !.count = @ + n]

\* cv_.notify_one(), called by Signal after mutex_ is released: the semaphores
\* it may leave, one per thread it may release.
NotifiedLost(s) == {s}

Notified(s) ==
    IF s.blocked = {} THEN {s}
    ELSE {[s EXCEPT !.blocked = @ \ {t}, !.woken = @ \cup {t}] : t \in s.blocked}

\* count_ < 1 is tested once, before cv_.wait and never after it.
CanPassAtZero(s) == s.count >= 0

CanPass(s) == s.count >= 1

\* --count_ without waiting.
Passed(s) == [s EXCEPT !.count = @ - 1]

\* cv_.wait(lock): releases mutex_ and enqueues the thread, atomically.
Blocked(s, t) == [s EXCEPT !.blocked = @ \cup {t}]

\* cv_.wait returned with mutex_ held: --count_, whatever count_ is by then.
ResumedStillWoken(s, t) == [s EXCEPT !.count = @ - 1]

Resumed(s, t) == [s EXCEPT !.woken = @ \ {t}, !.count = @ - 1]

\* cv_.timed_wait returned false: the thread leaves and count_ is not touched.
TimedOutStillQueued(s, t) == s

TimedOut(s, t) == [s EXCEPT !.blocked = @ \ {t}]

\* reset(): count_ = 0, without mutex_; the threads that wait keep waiting.
ResetSem(s) == [s EXCEPT !.count = 0]
===============================================================================
