--------------------------------- MODULE Mtx ---------------------------------
(***************************************************************************)
(* MCF's recursive locks: a mutex, the identifier of the thread that owns  *)
(* it, and a count.  A thread reads the owner without the mutex to learn   *)
(* whether it has to take it.                                              *)
(*                                                                         *)
(* First the C11 mtx_t of MCFCRT/src/env/_c11thread_inl.h, plain or        *)
(* recursive, with the callbacks of c11thread.c that leave it and take it  *)
(* back around a wait on a condition variable.                             *)
(* __gthread_recursive_mutex_t (in _gthread_inl.h and gthread.c) is the    *)
(* recursive case, __gthread_mutex_t the plain one.  Then                  *)
(* MCF/src/Thread/RecursiveMutex.cpp, the recursive lock of the C++        *)
(* library, which locks in the same steps and unlocks in its own.          *)
(***************************************************************************)
EXTENDS Naturals

CONSTANTS Threads,    \* the threads that use the lock
          NoOne,      \* the owner of a free lock, the thread identifier 0
          MaxDepth,   \* bound on the nesting of one thread
          CountRange  \* the values of x_uRecursionCount, 2^64 in the code

ASSUME OwnerAssumption == NoOne \notin Threads

ASSUME DepthAssumption == MaxDepth \in Nat /\ CountRange \in Nat \ {0}

VARIABLES holders,    \* who holds __mutex, as AbstractLock says
          owner,      \* __owner
          count,      \* __count
          pc,         \* where each thread is
          timed,      \* whether its lock operation has a deadline
          depth,      \* ghost: its lock operations that returned, less its unlocks
          recursive,  \* __mask & mtx_recursive, 0 or 1
          saved       \* what the unlock callback returned to a waiting thread

lockVars == <<holders, owner, count, pc, timed, depth>>

LockTypeOK == /\ holders \in SUBSET Threads
              /\ owner \in Threads \cup {NoOne}
              /\ count \in Nat
              /\ pc \in [Threads -> {"idle", "acquire", "own", "count",
                                     "disown", "release", "asleep"}]
              /\ timed \in [Threads -> BOOLEAN]
              /\ depth \in [Threads -> Nat]

LockInit == /\ holders = {}
            /\ owner = NoOne
            /\ count = 0
            /\ pc = [t \in Threads |-> "idle"]
            /\ timed = [t \in Threads |-> FALSE]
            /\ depth = [t \in Threads |-> 0]

Goto(t, to) == pc' = [pc EXCEPT ![t] = to]

\* The caller compares __owner with itself before anything else.
Enter(t, how) == /\ pc[t] = "idle"
                 /\ timed' = [timed EXCEPT ![t] = how]
                 /\ Goto(t, IF owner = t THEN "count" ELSE "acquire")
                 /\ UNCHANGED <<holders, owner, count, depth>>

\* _MCFCRT_WaitForMutexForever, or _MCFCRT_WaitForMutex that returns true.
Acquire(t, then) == /\ pc[t] = "acquire"
                    /\ holders = {}
                    /\ holders' = {t}
                    /\ Goto(t, then)
                    /\ UNCHANGED <<owner, count, timed, depth>>

\* _MCFCRT_WaitForMutex that returns false; trylock is a deadline of 0.
TimeOut(t) == /\ pc[t] = "acquire" /\ timed[t]
              /\ Goto(t, "idle")
              /\ UNCHANGED <<holders, owner, count, timed, depth>>

Own(t) == /\ pc[t] = "own"
          /\ owner' = t
          /\ Goto(t, "count")
          /\ UNCHANGED <<holders, count, timed, depth>>

\* The operation returns with the count raised.
Count(t) == /\ pc[t] = "count"
            /\ count' = count + 1
            /\ depth' = [depth EXCEPT ![t] = @ + 1]
            /\ Goto(t, "idle")
            /\ UNCHANGED <<holders, owner, timed>>

Disown(t) == /\ pc[t] = "disown"
             /\ owner' = NoOne
             /\ Goto(t, "release")
             /\ UNCHANGED <<holders, count, timed, depth>>

\* _MCFCRT_SignalMutex.
Release(t, then) == /\ pc[t] = "release"
                    /\ holders' = holders \ {t}
                    /\ Goto(t, then)
                    /\ UNCHANGED <<owner, count, timed, depth>>

-----------------------------------------------------------------------------
(* mtx_t                                                                    *)

vars == <<lockVars, recursive, saved>>

TypeOK == /\ LockTypeOK
          /\ recursive \in {0, 1}
          /\ saved \in [Threads -> Nat]

Init == /\ LockInit
        /\ recursive \in {0, 1}
        /\ saved = [t \in Threads |-> 0]

Rest == UNCHANGED <<recursive, saved>>

\* mtx_lock, mtx_timedlock, mtx_trylock.  Locking a plain mutex twice is a
\* self-deadlock that C11 forbids.
Lock(t, how) == /\ saved[t] = 0
                /\ depth[t] < IF recursive = 1 THEN MaxDepth ELSE 1
                /\ Enter(t, how)
                /\ Rest

\* A plain mutex is neither owned nor counted.
Take(t) == /\ recursive = 1
           /\ Acquire(t, "own")
           /\ Rest

TakePlain(t) == /\ recursive = 0 /\ pc[t] = "acquire" /\ holders = {}
                /\ holders' = {t}
                /\ depth' = [depth EXCEPT ![t] = 1]
                /\ saved' = [saved EXCEPT ![t] = 0]
                /\ Goto(t, "idle")
                /\ UNCHANGED <<owner, count, timed, recursive>>

GiveUp(t) == saved[t] = 0 /\ TimeOut(t) /\ Rest

CountUp(t) == saved[t] = 0 /\ Count(t) /\ Rest

\* Mutation: the outermost unlock is taken for an inner one.
UnlockOneMore(t) == /\ pc[t] = "idle" /\ depth[t] > 0
                    /\ count' = IF recursive = 1 THEN count - 1 ELSE count
                    /\ depth' = [depth EXCEPT ![t] = @ - 1]
                    /\ Goto(t, IF recursive = 0 THEN "release"
                               ELSE IF count = 0 THEN "disown" ELSE "idle")
                    /\ UNCHANGED <<holders, owner, timed>> /\ Rest

\* mtx_unlock; it is checked to be called by the owner of a recursive mutex.
Unlock(t) == /\ pc[t] = "idle" /\ depth[t] > 0
             /\ count' = IF recursive = 1 THEN count - 1 ELSE count
             /\ depth' = [depth EXCEPT ![t] = @ - 1]
             /\ Goto(t, IF recursive = 0 THEN "release"
                        ELSE IF count' = 0 THEN "disown" ELSE "idle")
             /\ UNCHANGED <<holders, owner, timed>> /\ Rest

\* Mutation: a recursive mutex is left by one level only.
UnlockCallbackOnce(t) == /\ pc[t] = "idle" /\ depth[t] > 0
                         /\ saved' = [saved EXCEPT ![t] = 1]
                         /\ count' = IF recursive = 1 THEN 0 ELSE count
                         /\ Goto(t, IF recursive = 1 THEN "disown" ELSE "release")
                         /\ UNCHANGED <<holders, owner, timed, depth, recursive>>

\* __MCFCRT_C11threadUnlockCallback.
UnlockCallback(t) == /\ pc[t] = "idle" /\ depth[t] > 0
                     /\ saved' = [saved EXCEPT ![t] = IF recursive = 1 THEN count ELSE 1]
                     /\ count' = IF recursive = 1 THEN 0 ELSE count
                     /\ Goto(t, IF recursive = 1 THEN "disown" ELSE "release")
                     /\ UNCHANGED <<holders, owner, timed, depth, recursive>>

Leave(t) == Release(t, IF saved[t] = 0 THEN "idle" ELSE "asleep") /\ Rest

\* The wait ends, signaled or timed out; ConditionVariable has its details.
Woken(t) == /\ pc[t] = "asleep"
            /\ Goto(t, "acquire")
            /\ UNCHANGED <<holders, owner, count, timed, depth>> /\ Rest

\* The end of __MCFCRT_C11threadRelockCallback.
Restore(t) == /\ pc[t] = "count" /\ saved[t] > 0
              /\ count' = saved[t]
              /\ saved' = [saved EXCEPT ![t] = 0]
              /\ Goto(t, "idle")
              /\ UNCHANGED <<holders, owner, timed, depth, recursive>>

-----------------------------------------------------------------------------
Proceed(t) == \/ Own(t) /\ Rest
              \/ Disown(t) /\ Rest
              \/ CountUp(t) \/ Restore(t) \/ Leave(t)

Next == \E t \in Threads : \/ \E how \in BOOLEAN : Lock(t, how)
                           \/ Take(t) \/ TakePlain(t) \/ GiveUp(t)
                           \/ Proceed(t)
                           \/ Unlock(t) \/ UnlockCallback(t) \/ Woken(t)

Spec == Init /\ [][Next]_vars

\* Threads that can run do run, and a free mutex is given to one of those that
\* ask for it, as AbstractLock promises.  No program need unlock or wait.
Fairness == /\ \A t \in Threads : WF_vars(Proceed(t))
            /\ WF_vars(\E t \in Threads : Take(t) \/ TakePlain(t))

FairSpec == Spec /\ Fairness

-----------------------------------------------------------------------------
(* MCF::RecursiveMutex                                                      *)

RecursiveInit == Init /\ recursive = 1

\* Lock, and Try with its deadline.
RecursiveLock(t) == \/ \E how \in BOOLEAN : Lock(t, how)
                    \/ Take(t)
                    \/ Own(t) /\ Rest

\* The count is checked not to wrap here (line 27 asserts it).
RecursiveCountUp(t) == count + 1 < CountRange /\ CountUp(t)

\* Line 42: "++x_uRecursionCount"; it is 0 only when it wraps.
RecursiveUnlock(t) == /\ pc[t] = "idle" /\ owner = t /\ depth[t] > 0
                      /\ count' = (count + 1) % CountRange
                      /\ depth' = [depth EXCEPT ![t] = @ - 1]
                      /\ Goto(t, IF count' = 0 THEN "disown" ELSE "idle")
                      /\ UNCHANGED <<holders, owner, timed>> /\ Rest

RecursiveNext == \E t \in Threads : \/ RecursiveLock(t) \/ GiveUp(t) \/ RecursiveCountUp(t)
                                    \/ RecursiveUnlock(t) \/ Leave(t)
                                    \/ Disown(t) /\ Rest

RecursiveSpec == RecursiveInit /\ [][RecursiveNext]_vars

-----------------------------------------------------------------------------
Inside(t) == depth[t] > 0 /\ saved[t] = 0

\* Only the holder of the mutex is inside, as deep as the count says, although
\* the owner is read and the count is changed without any other protection.
CountIsDepth == \A t \in Threads :
                   Inside(t) => /\ holders = {t}
                                /\ recursive = 1 => owner = t
                                /\ recursive = 1 => count = depth[t]

\* A thread that waits on a condition variable will be as deep as it was.
SavedIsDepth == \A t \in Threads : saved[t] > 0 => saved[t] = depth[t]

\* What holds in every state.
Safety == TypeOK /\ CountIsDepth /\ SavedIsDepth

\* The mutex is a recursive lock.
Role(t) == IF saved[t] > 0
             THEN IF pc[t] \in {"disown", "release", "asleep"} THEN "asleep" ELSE "back"
             ELSE IF pc[t] \in {"acquire", "own", "count"} THEN "asking" ELSE "out"

Abstract == INSTANCE AbstractRecursiveLock WITH role <- [t \in Threads |-> Role(t)]

ImplementsRecursiveLock == Abstract!FairSpec

\* What Unlock is for: the message of its check (line 40) says of the calling
\* thread that it releases the mutex it holds.  A mutex that every thread has
\* unlocked as often as it locked it, and that none is using, is free.
UnlockReleases == (\A t \in Threads : pc[t] \in {"idle", "acquire"} /\ depth[t] = 0)
                     => holders = {}

=============================================================================
