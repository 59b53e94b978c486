-------------------------- MODULE ConditionVariable --------------------------
(***************************************************************************)
(* MCFCRT/src/env/condition_variable.c and the lock of MCF/src/Thread/     *)
(* UniqueLockBase.hpp it unlocks and relocks.  The word holds a waiting    *)
(* bit that the first waiter sets and every signal clears, the number of   *)
(* spinners that registered since the last signal, and the number of       *)
(* trapped threads that have not been promised a wake-up.                  *)
(*                                                                         *)
(* The mutex is AbstractLock, which Mutex implements; the keyed event is   *)
(* as in OnceFlag.  This module has the operations and the state they      *)
(* share; Monitor, Semaphore and Event are programs that call them.        *)
(***************************************************************************)
EXTENDS Integers, FiniteSets, Totals

CONSTANTS Threads,              \* the threads that use the condition variable
          Spins                 \* whether callers ask to spin: some of TRUE, FALSE

ASSUME ConditionVariableAssumption == /\ IsFiniteSet(Threads)
                                      /\ Spins \in SUBSET BOOLEAN

VARIABLES waiting,    \* MASK_WAITING, 0 or 1
          spinning,   \* MASK_THREADS_SPINNING, as a count
          trapped,    \* MASK_THREADS_TRAPPED, as a count
          pc,         \* where each thread is
          call,       \* the arguments of the wait each thread is in
          owes,       \* releases of the keyed event a signaler has still to do
          holders     \* the thread that has the mutex

word   == <<waiting, spinning, trapped>>
cvVars == <<waiting, spinning, trapped, pc, call, owes, holders>>

THREADS_SPINNING_MAX == 3

\* WaitForConditionVariable, ...OrAbandon and ...Forever, with or without
\* spinning.
Calls == [spin : Spins, kind : {"relock", "abandon", "forever"}]

NoCall == [spin |-> FALSE, kind |-> "forever"]

\* Where a thread can be: outside, asking for the mutex, inside the critical
\* section, in a wait, in a signal.
Asleep    == {"wait", "timedout"}
InWait    == {"unlock", "unlockspin", "spin", "trap", "relock"} \cup Asleep
Locations == {"idle", "lock", "in", "release"} \cup InWait
Sleepers  == {t \in Threads : pc[t] \in Asleep}

CVTypeOK == /\ waiting \in {0, 1}
            /\ spinning \in 0..THREADS_SPINNING_MAX
            /\ trapped \in Nat
            /\ pc \in [Threads -> Locations]
            /\ call \in [Threads -> Calls \cup {NoCall}]
            /\ owes \in [Threads -> Nat]
            /\ holders \in SUBSET Threads

CVInit == /\ waiting = 0
          /\ spinning = 0
          /\ trapped = 0
          /\ pc = [t \in Threads |-> "idle"]
          /\ call = [t \in Threads |-> NoCall]
          /\ owes = [t \in Threads |-> 0]
          /\ holders = {}

Goto(t, to) == pc' = [pc EXCEPT ![t] = to]

-----------------------------------------------------------------------------
(* The mutex                                                                *)

\* Mutation: the relock callback does not wait for the mutex.
AcquireBlindly(t) == /\ pc[t] \in {"lock", "relock"}
                     /\ pc[t] = "lock" => holders = {}
                     /\ holders' = {t}
                     /\ Goto(t, "in")
                     /\ UNCHANGED <<word, call, owes>>

Acquire(t) == /\ pc[t] \in {"lock", "relock"}
              /\ holders = {}
              /\ holders' = {t}
              /\ Goto(t, "in")
              /\ UNCHANGED <<word, call, owes>>

Lock == INSTANCE AbstractLock WITH
          waiting <- {t \in Threads : pc[t] \in {"lock", "relock"}}

-----------------------------------------------------------------------------
(* Waiting, by a thread that has the mutex                                  *)

MaySpin(c) == c.spin /\ spinning < THREADS_SPINNING_MAX

Register(t, c) == /\ pc[t] = "in"
                  /\ call' = [call EXCEPT ![t] = c]
                  /\ waiting' = 1
                  /\ spinning' = IF MaySpin(c) THEN spinning + 1 ELSE spinning
                  /\ Goto(t, IF MaySpin(c) THEN "unlockspin" ELSE "unlock")
                  /\ UNCHANGED <<trapped, owes, holders>>

\* The unlock callback.
UnlockCallback(t) == /\ pc[t] \in {"unlock", "unlockspin"}
                     /\ holders' = holders \ {t}
                     /\ Goto(t, IF pc[t] = "unlockspin" THEN "spin" ELSE "trap")
                     /\ UNCHANGED <<word, call, owes>>

\* The bit was cleared since: return, after the relock callback.
Signaled(t) == /\ pc[t] \in {"spin", "trap"}
               /\ waiting = 0
               /\ spinning' = 0
               /\ Goto(t, "relock")
               /\ UNCHANGED <<waiting, trapped, call, owes, holders>>

SpinGiveUp(t) == /\ pc[t] = "spin"
                 /\ waiting = 1
                 /\ Goto(t, "trap")
                 /\ UNCHANGED <<word, call, owes, holders>>

\* Mutation: the waiter goes to sleep without a second look at the bit.
TrapBlindly(t) == /\ pc[t] = "trap"
                  /\ trapped' = trapped + 1
                  /\ Goto(t, "wait")
                  /\ UNCHANGED <<waiting, spinning, call, owes, holders>>

Trap(t) == /\ pc[t] = "trap"
           /\ waiting = 1
           /\ trapped' = trapped + 1
           /\ Goto(t, "wait")
           /\ UNCHANGED <<waiting, spinning, call, owes, holders>>

\* The deadline passed.  WaitOrAbandon returns without the mutex.
AfterTimeOut(t) == IF call[t].kind = "abandon" THEN "idle" ELSE "relock"

\* Mutation: the thread leaves although a release was promised to it.
TimedOutLeaveAnyway(t) == /\ pc[t] = "timedout"
                          /\ trapped' = IF trapped > 0 THEN trapped - 1 ELSE 0
                          /\ Goto(t, AfterTimeOut(t))
                          /\ UNCHANGED <<waiting, spinning, call, owes, holders>>

TimedOutLeave(t) == /\ pc[t] = "timedout"
                    /\ trapped > 0
                    /\ trapped' = trapped - 1
                    /\ Goto(t, AfterTimeOut(t))
                    /\ UNCHANGED <<waiting, spinning, call, owes, holders>>

TimedOutPoll(t) == /\ pc[t] = "timedout"
                   /\ trapped = 0
                   /\ Goto(t, "wait")
                   /\ UNCHANGED <<word, call, owes, holders>>

-----------------------------------------------------------------------------
(* Signaling, with or without the mutex                                     *)

CountToSignal(n) == IF trapped <= n THEN trapped ELSE n

AfterSignal(t) == IF t \in holders THEN "in" ELSE "idle"

\* Mutation: the bit stays set when somebody is trapped.
SignalKeepsBit(t, n) == /\ pc[t] \in {"in", "idle"}
                        /\ waiting' = IF trapped > 0 THEN waiting ELSE 0
                        /\ spinning' = 0
                        /\ trapped' = trapped - CountToSignal(n)
                        /\ owes' = [owes EXCEPT ![t] = CountToSignal(n)]
                        /\ Goto(t, IF CountToSignal(n) > 0 THEN "release" ELSE pc[t])
                        /\ UNCHANGED <<call, holders>>

Signal(t, n) == /\ pc[t] \in {"in", "idle"}
                /\ waiting' = 0
                /\ spinning' = 0
                /\ trapped' = trapped - CountToSignal(n)
                /\ owes' = [owes EXCEPT ![t] = CountToSignal(n)]
                /\ Goto(t, IF CountToSignal(n) > 0 THEN "release" ELSE pc[t])
                /\ UNCHANGED <<call, holders>>

\* SIZE_MAX is never less than the number of trapped threads.
Broadcast(t) == Signal(t, trapped)

-----------------------------------------------------------------------------
(* The keyed event                                                          *)

Release(r, w) == /\ pc[r] = "release"
                 /\ pc[w] = "wait"
                 /\ owes' = [owes EXCEPT ![r] = @ - 1]
                 /\ pc' = [pc EXCEPT ![w] = "relock",
                                     ![r] = IF owes[r] = 1 THEN AfterSignal(r)
                                                           ELSE "release"]
                 /\ UNCHANGED <<word, call, holders>>

WaitTimeOut(t) == /\ pc[t] = "wait"
                  /\ call[t].kind # "forever"
                  /\ Goto(t, "timedout")
                  /\ UNCHANGED <<word, call, owes, holders>>

-----------------------------------------------------------------------------
\* What a thread inside a wait does by itself.
WaitStep(t) == \/ UnlockCallback(t) \/ Signaled(t) \/ SpinGiveUp(t) \/ Trap(t)
               \/ TimedOutLeave(t) \/ TimedOutPoll(t) \/ WaitTimeOut(t)

-----------------------------------------------------------------------------
(* Properties that every program has                                        *)

\* Counted sleepers and promised releases balance: no signaler waits in the
\* kernel for a thread that timed out and left, no sleeper is uncounted.
WakeupsConserved ==
    trapped + Total(owes) = Cardinality(Sleepers)

\* Whoever is in the critical section has the mutex, in particular when a
\* wait returned; the code in there relies on it.
InsideHoldsMutex == \A t \in Threads : pc[t] = "in" => holders = {t}

=============================================================================
