---------------------------- MODULE AbstractLock ----------------------------
(***************************************************************************)
(* What MCF's mutex promises to its callers: a lock with at most one       *)
(* holder, whose waiters may give up, and which is never left free while   *)
(* somebody keeps waiting for it.  As the comment of MCF/src/Thread/       *)
(* Mutex.hpp says, the thread that releases it need not be the one that    *)
(* acquired it.                                                            *)
(***************************************************************************)

CONSTANTS Threads     \* the threads that use the lock

VARIABLES waiting,    \* the threads inside a lock operation
          holders     \* the threads that acquired and were not released yet

vars == <<waiting, holders>>

TypeOK == /\ waiting \in SUBSET Threads
          /\ holders \in SUBSET Threads

Init == waiting = {} /\ holders = {}

\* Asking for the lock; its holder does not ask again (it is not recursive).
Request(t) == /\ t \notin waiting \cup holders
              /\ waiting' = waiting \cup {t}
              /\ UNCHANGED holders

\* The lock is granted only while nobody holds it.
Acquire(t) == /\ t \in waiting
              /\ holders = {}
              /\ waiting' = waiting \ {t}
              /\ holders' = {t}

\* A waiter with a deadline may leave without the lock.
GiveUp(t) == /\ t \in waiting
             /\ waiting' = waiting \ {t}
             /\ UNCHANGED holders

\* Somebody hands the lock back on behalf of the holder h.
Release(h) == /\ h \in holders
              /\ holders' = holders \ {h}
              /\ UNCHANGED waiting

Next == \E t \in Threads : Request(t) \/ Acquire(t) \/ GiveUp(t) \/ Release(t)

\* A lock that stays free and wanted is taken, or its waiters give up.
Served == \E t \in Threads : Acquire(t) \/ GiveUp(t)

Fairness == WF_vars(holders = {} /\ Served)

Spec == Init /\ [][Next]_vars

FairSpec == Spec /\ Fairness

=============================================================================
