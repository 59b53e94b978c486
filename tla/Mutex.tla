-------------------------------- MODULE Mutex --------------------------------
(***************************************************************************)
(* MCFCRT/src/env/mutex.c: a mutex in one machine word, and an NT keyed    *)
(* event on which its waiters sleep.                                       *)
(*                                                                         *)
(* The word holds a lock bit, the number of threads that registered as     *)
(* spinners since it last changed hands, and the number of threads that    *)
(* trapped (went to sleep) and have not been promised a wake-up.  Every    *)
(* compare-and-swap loop is one step on the three fields.                  *)
(*                                                                         *)
(* A keyed event is a rendezvous: NtWaitForKeyedEvent sleeps until some    *)
(* thread releases the key, NtReleaseKeyedEvent sleeps until some thread   *)
(* waits for it.  Whoever comes first stays in the kernel ("blocked" or    *)
(* "parked") until it is matched; a wait with a deadline may time out.     *)
(***************************************************************************)
EXTENDS Integers, FiniteSets

CONSTANTS Threads               \* the threads that use the mutex

ASSUME MutexAssumption == IsFiniteSet(Threads)

VARIABLES locked,     \* MASK_LOCKED, 0 or 1
          spinning,   \* MASK_THREADS_SPINNING, as a count
          trapped,    \* MASK_THREADS_TRAPPED, as a count
          pc,         \* where each thread is
          call,       \* the arguments of the wait each thread is in
          holders     \* ghost: threads whose wait returned true, not yet signaled

word == <<locked, spinning, trapped>>
vars == <<locked, spinning, trapped, pc, call, holders>>

THREADS_SPINNING_MAX == 3

\* spin is uMaxSpinCount # 0, timed is bMayTimeOut.
Calls == [spin : BOOLEAN, timed : BOOLEAN]

Locking   == {"try", "spin", "trap"}               \* competing for the lock bit
Sleeping  == {"wait", "blocked", "timedout", "poll"}  \* counted in, not yet woken
Signaling == {"release", "parked"}                 \* owes one wake-up

Waiters   == {t \in Threads : pc[t] \in Sleeping}
Releasers == {t \in Threads : pc[t] \in Signaling}

TypeOK == /\ locked \in {0, 1}
          /\ spinning \in 0..THREADS_SPINNING_MAX
          /\ trapped \in Nat
          /\ pc \in [Threads -> {"idle"} \cup Locking \cup Sleeping \cup Signaling]
          /\ call \in [Threads -> Calls]
          /\ holders \in SUBSET Threads

Init == /\ locked = 0
        /\ spinning = 0
        /\ trapped = 0
        /\ pc = [t \in Threads |-> "idle"]
        /\ call = [t \in Threads |-> [spin |-> FALSE, timed |-> FALSE]]
        /\ holders = {}

Goto(t, to) == pc' = [pc EXCEPT ![t] = to]

\* Both sides of a matched keyed event go on.
Rendezvous(waiter, releaser) ==
    pc' = [pc EXCEPT ![waiter] = "try", ![releaser] = "idle"]

-----------------------------------------------------------------------------
(* _MCFCRT_WaitForMutex and _MCFCRT_WaitForMutexForever                     *)

Wait(t, c) == /\ pc[t] = "idle"
              /\ t \notin holders
              /\ call' = [call EXCEPT ![t] = c]
              /\ Goto(t, "try")
              /\ UNCHANGED <<word, holders>>

\* Mutation: the exchange does not look at the bit.
TakeBlindly(t) == /\ locked' = 1
                  /\ spinning' = 0
                  /\ holders' = holders \cup {t}
                  /\ Goto(t, "idle")
                  /\ UNCHANGED <<trapped, call>>

\* The bit is free: take it, forget who was spinning.
Take(t) == /\ locked = 0
           /\ locked' = 1
           /\ spinning' = 0
           /\ holders' = holders \cup {t}
           /\ Goto(t, "idle")
           /\ UNCHANGED <<trapped, call>>

TryTake(t) == pc[t] = "try" /\ Take(t)

MaySpin(t) == call[t].spin /\ spinning < THREADS_SPINNING_MAX

TrySpin(t) == /\ pc[t] = "try"
              /\ locked = 1
              /\ MaySpin(t)
              /\ spinning' = spinning + 1
              /\ Goto(t, "spin")
              /\ UNCHANGED <<locked, trapped, call, holders>>

TryNoSpin(t) == /\ pc[t] = "try"
                /\ locked = 1
                /\ ~MaySpin(t)
                /\ Goto(t, "trap")
                /\ UNCHANGED <<word, call, holders>>

\* An iteration that finds the bit set changes nothing; the last one gives up.
SpinTake(t)   == pc[t] = "spin" /\ Take(t)
SpinGiveUp(t) == /\ pc[t] = "spin"
                 /\ locked = 1
                 /\ Goto(t, "trap")
                 /\ UNCHANGED <<word, call, holders>>

TrapTake(t) == pc[t] = "trap" /\ Take(t)

Trap(t) == /\ pc[t] = "trap"
           /\ locked = 1
           /\ trapped' = trapped + 1
           /\ Goto(t, "wait")
           /\ UNCHANGED <<locked, spinning, call, holders>>

\* Mutations: leaving without, or in spite of, the count.
TimedOutLeaveCounted(t) == /\ pc[t] = "timedout"
                           /\ trapped > 0
                           /\ Goto(t, "idle")
                           /\ UNCHANGED <<word, call, holders>>

\* The deadline passed.  If the sleeper is still counted it takes itself out
\* of the count and fails; otherwise a release is on its way to it, or to
\* whoever polls first, and it polls until it arrives.
TimedOutLeave(t) == /\ pc[t] = "timedout"
                    /\ trapped > 0
                    /\ trapped' = trapped - 1
                    /\ Goto(t, "idle")
                    /\ UNCHANGED <<locked, spinning, call, holders>>

TimedOutPoll(t) == /\ pc[t] = "timedout"
                   /\ trapped = 0
                   /\ Goto(t, "poll")
                   /\ UNCHANGED <<word, call, holders>>

-----------------------------------------------------------------------------
(* _MCFCRT_SignalMutex, by any thread that is not busy with the mutex       *)

\* Mutation: the bit is cleared and nobody is woken.
SignalNobody(t, h) == /\ pc[t] = "idle"
                      /\ h \in holders
                      /\ holders' = holders \ {h}
                      /\ locked' = 0
                      /\ spinning' = 0
                      /\ UNCHANGED <<trapped, pc, call>>

Signal(t, h) == /\ pc[t] = "idle"
                /\ h \in holders
                /\ holders' = holders \ {h}
                /\ locked' = 0
                /\ spinning' = 0
                /\ IF trapped > 0
                     THEN /\ trapped' = trapped - 1
                          /\ Goto(t, "release")
                     ELSE UNCHANGED <<trapped, pc>>
                /\ UNCHANGED call

-----------------------------------------------------------------------------
(* The keyed event whose key is the address of the word                     *)

Parked  == {r \in Threads : pc[r] = "parked"}
Blocked == {w \in Threads : pc[w] = "blocked"}

\* NtWaitForKeyedEvent, first call (t at "wait") or with no time left ("poll").
WaitMatch(t, r) == /\ pc[t] \in {"wait", "poll"}
                   /\ r \in Parked
                   /\ Rendezvous(t, r)
                   /\ UNCHANGED <<word, call, holders>>

WaitBlock(t) == /\ pc[t] = "wait"
                /\ Parked = {}
                /\ Goto(t, "blocked")
                /\ UNCHANGED <<word, call, holders>>

PollTimeOut(t) == /\ pc[t] = "poll"
                  /\ Parked = {}
                  /\ Goto(t, "timedout")
                  /\ UNCHANGED <<word, call, holders>>

WaitTimeOut(t) == /\ pc[t] = "blocked"
                  /\ call[t].timed
                  /\ Goto(t, "timedout")
                  /\ UNCHANGED <<word, call, holders>>

\* NtReleaseKeyedEvent.
ReleaseMatch(r, t) == /\ pc[r] = "release"
                      /\ t \in Blocked
                      /\ Rendezvous(t, r)
                      /\ UNCHANGED <<word, call, holders>>

ReleasePark(r) == /\ pc[r] = "release"
                  /\ Blocked = {}
                  /\ Goto(r, "parked")
                  /\ UNCHANGED <<word, call, holders>>

-----------------------------------------------------------------------------
\* The steps a thread inside an operation takes by itself.
Acquiring(t) == TryTake(t) \/ TrySpin(t) \/ TryNoSpin(t) \/ SpinTake(t)
                \/ SpinGiveUp(t) \/ TrapTake(t) \/ Trap(t)

TimingOut(t) == TimedOutLeave(t) \/ TimedOutPoll(t)

KeyedEvent(t) == \/ \E r \in Threads : WaitMatch(t, r) \/ ReleaseMatch(t, r)
                 \/ WaitBlock(t) \/ PollTimeOut(t) \/ ReleasePark(t)

Step(t) == Acquiring(t) \/ TimingOut(t) \/ KeyedEvent(t)

Next == \E t \in Threads :
          \/ \E c \in Calls : Wait(t, c)
          \/ \E h \in Threads : Signal(t, h)
          \/ Step(t)
          \/ WaitTimeOut(t)

Spec == Init /\ [][Next]_vars

\* Threads that can run do run, deadlines pass, and the kernel serves the
\* parked releasers of a key in turn.  Nothing obliges callers to lock or
\* to unlock.
Fairness == \A t \in Threads :
              /\ WF_vars(Step(t))
              /\ WF_vars(WaitTimeOut(t))
              /\ SF_vars(\E w \in Threads : WaitMatch(w, t))

FairSpec == Spec /\ Fairness

-----------------------------------------------------------------------------
(* Properties                                                               *)

\* At most one thread is between a wait that returned true and its signal,
\* and the lock bit says whether there is one: so the assertion of
\* ReallySignalMutex that the mutex is locked can not fail for a caller that
\* has the mutex.
MutualExclusion == /\ \A s, t \in holders : s = t
                   /\ locked = 1 <=> holders # {}

\* Every release that was promised has a sleeper to meet, and every sleeper
\* is either counted in the word or promised a release.  This is what the
\* time-out path has to preserve when it races with a signal: decrement twice
\* and a releaser hangs in the kernel, decrement too little and a sleeper is
\* never woken.
WakeupsConserved ==
    trapped + Cardinality(Releasers) = Cardinality(Waiters)

\* A sleeper that is still counted is never left behind by a free mutex: a
\* release is under way, or a thread that competes for the bit will have to
\* signal later.
NoLostWakeup == (locked = 0 /\ trapped > 0) =>
                    \E t \in Threads : pc[t] \in Locking \cup Signaling

\* The count of trapped threads stays far from overflowing its field.
TrappedBounded == trapped <= Cardinality(Threads)

\* What holds in every state.
Safety == TypeOK /\ MutualExclusion /\ WakeupsConserved /\ NoLostWakeup

\* A signal never hangs: the release it owes is always met by a waiter, even
\* when the only waiters are timing out.
SignalReturns == \A t \in Threads : pc[t] \in Signaling ~> pc[t] \notin Signaling

\* A mutex that is free while a thread waits for it is taken again, or the
\* waiter's deadline passes: nobody sleeps for ever on a free mutex.
FreeMutexTaken == \A t \in Threads :
    (holders = {} /\ pc[t] \in Locking \cup Sleeping)
       ~> (holders # {} \/ pc[t] = "idle")

\* Every wait and every signal goes on as far as the callers allow.
Progress == SignalReturns /\ FreeMutexTaken

\* The word and the keyed event implement the lock the callers see.
Lock == INSTANCE AbstractLock WITH
          waiting <- {t \in Threads : pc[t] \in Locking \cup Sleeping}

ImplementsLock == Lock!FairSpec

=============================================================================
