----------------------------- MODULE MutexProofs -----------------------------
(***************************************************************************)
(* Proofs about Mutex for every finite set of threads: the inductive       *)
(* invariant, the safety properties its runs check, and that it implements *)
(* AbstractLock.                                                           *)
(***************************************************************************)
EXTENDS Mutex, FiniteSetTheorems, TLAPS

\* The sets counted by WakeupsConserved are finite.
LEMMA FiniteCounts ==
  /\ IsFiniteSet(Waiters) /\ Cardinality(Waiters) \in Nat
  /\ IsFiniteSet(Releasers) /\ Cardinality(Releasers) \in Nat
<1>1. Waiters \in SUBSET Threads /\ Releasers \in SUBSET Threads
  BY DEF Waiters, Releasers
<1>2. IsFiniteSet(Waiters) /\ IsFiniteSet(Releasers)
  BY <1>1, MutexAssumption, FS_Subset
<1>3. QED
  BY <1>2, FS_CardinalityType

\* Putting x in, or taking it out, changes a cardinality by membership alone.
LEMMA InOrOut ==
  ASSUME NEW S, IsFiniteSet(S), NEW x
  PROVE  /\ Cardinality(S \cup {x}) = Cardinality(S) + 1 - (IF x \in S THEN 1 ELSE 0)
         /\ Cardinality(S \ {x}) = Cardinality(S) - (IF x \in S THEN 1 ELSE 0)
<1>1. Cardinality(S) \in Nat
  BY FS_CardinalityType
<1>2. Cardinality(S \cup {x}) = IF x \in S THEN Cardinality(S) ELSE Cardinality(S) + 1
  BY FS_AddElement
<1>3. Cardinality(S \ {x}) = IF x \in S THEN Cardinality(S) - 1 ELSE Cardinality(S)
  BY FS_RemoveElement
<1>4. QED
  BY <1>1, <1>2, <1>3

\* When one thread moves, it enters or leaves each counted set alone.
LEMMA GotoCounts ==
  ASSUME TypeOK, NEW t \in Threads, NEW to, Goto(t, to)
  PROVE  /\ Cardinality(Waiters') = Cardinality(Waiters)
               + (IF to \in Sleeping THEN 1 ELSE 0)
               - (IF pc[t] \in Sleeping THEN 1 ELSE 0)
         /\ Cardinality(Releasers') = Cardinality(Releasers)
               + (IF to \in Signaling THEN 1 ELSE 0)
               - (IF pc[t] \in Signaling THEN 1 ELSE 0)
<1>1. /\ Waiters' = IF to \in Sleeping THEN Waiters \cup {t} ELSE Waiters \ {t}
      /\ Releasers' = IF to \in Signaling THEN Releasers \cup {t} ELSE Releasers \ {t}
      /\ t \in Waiters <=> pc[t] \in Sleeping
      /\ t \in Releasers <=> pc[t] \in Signaling
  BY DEF TypeOK, Goto, Waiters, Releasers
<1>2. /\ Cardinality(Waiters \cup {t}) =
              Cardinality(Waiters) + 1 - (IF pc[t] \in Sleeping THEN 1 ELSE 0)
      /\ Cardinality(Waiters \ {t}) =
              Cardinality(Waiters) - (IF pc[t] \in Sleeping THEN 1 ELSE 0)
  BY <1>1, FiniteCounts, InOrOut
<1>3. /\ Cardinality(Releasers \cup {t}) =
              Cardinality(Releasers) + 1 - (IF pc[t] \in Signaling THEN 1 ELSE 0)
      /\ Cardinality(Releasers \ {t}) =
              Cardinality(Releasers) - (IF pc[t] \in Signaling THEN 1 ELSE 0)
  BY <1>1, FiniteCounts, InOrOut
<1>4. QED
  BY <1>1, <1>2, <1>3, FiniteCounts

\* A rendezvous takes one thread out of each counted set.
LEMMA RendezvousCounts ==
  ASSUME TypeOK, NEW w \in Threads, NEW r \in Threads,
         pc[w] \in Sleeping, pc[r] \in Signaling, Rendezvous(w, r)
  PROVE  /\ Cardinality(Waiters') = Cardinality(Waiters) - 1
         /\ Cardinality(Releasers') = Cardinality(Releasers) - 1
<1>1. /\ Waiters' = Waiters \ {w}
      /\ Releasers' = Releasers \ {r}
      /\ w \in Waiters
      /\ r \in Releasers
  BY DEF TypeOK, Rendezvous, Waiters, Releasers, Sleeping, Signaling
<1>2. QED
  BY <1>1, FiniteCounts, FS_RemoveElement

-----------------------------------------------------------------------------
(* Type correctness                                                         *)

\* Every variable of the mutex keeps its type: in particular the count of
\* registered spinners never leaves its two-bit field.
THEOREM TypeCorrect == Spec => []TypeOK
<1> USE DEF TypeOK, Locking, Sleeping, Signaling, THREADS_SPINNING_MAX
<1>1. Init => TypeOK
  <2> SUFFICES ASSUME Init
               PROVE  TypeOK
    OBVIOUS
  <2>1. call \in [Threads -> Calls]
    BY Zenon DEF Init, Calls
  <2>2. QED
    BY <2>1 DEF Init
<1>2. TypeOK /\ [Next]_vars => TypeOK'
  <2> SUFFICES ASSUME TypeOK, [Next]_vars
               PROVE  TypeOK'
    OBVIOUS
  <2>1. ASSUME NEW t \in Threads, NEW c \in Calls, Wait(t, c)
        PROVE  TypeOK'
    BY <2>1 DEF Wait, Goto, word
  <2>2. ASSUME NEW t \in Threads, NEW h \in Threads, Signal(t, h)
        PROVE  TypeOK'
    BY <2>2 DEF Signal, Goto
  <2>3. ASSUME NEW t \in Threads, Acquiring(t)
        PROVE  TypeOK'
    BY <2>3 DEF Acquiring, TryTake, TrySpin, TryNoSpin, SpinTake, SpinGiveUp,
                TrapTake, Trap, Take, MaySpin, Goto, word
  <2>4. ASSUME NEW t \in Threads, TimingOut(t) \/ WaitTimeOut(t)
        PROVE  TypeOK'
    BY <2>4 DEF TimingOut, TimedOutLeave, TimedOutPoll, WaitTimeOut, Goto, word
  <2>5. ASSUME NEW t \in Threads, KeyedEvent(t)
        PROVE  TypeOK'
    BY <2>5 DEF KeyedEvent, WaitMatch, ReleaseMatch, WaitBlock, PollTimeOut,
                ReleasePark, Rendezvous, Goto, word
  <2>6. CASE UNCHANGED vars
    BY <2>6 DEF vars
  <2>7. QED
    BY <2>1, <2>2, <2>3, <2>4, <2>5, <2>6 DEF Next, Step
<1>3. QED
  BY <1>1, <1>2, PTL DEF Spec

-----------------------------------------------------------------------------
(* Mutual exclusion                                                         *)

\* At most one thread holds the mutex, and the lock bit is set exactly then.
THEOREM MutexIsExclusive == Spec => []MutualExclusion
<1>1. Init => MutualExclusion
  BY DEF Init, MutualExclusion
<1>2. MutualExclusion /\ [Next]_vars => MutualExclusion'
  <2> SUFFICES ASSUME MutualExclusion, [Next]_vars
               PROVE  MutualExclusion'
    OBVIOUS
  <2> USE DEF MutualExclusion
  <2>1. ASSUME NEW t \in Threads, NEW h \in Threads, Signal(t, h)
        PROVE  MutualExclusion'
    BY <2>1 DEF Signal
  <2>2. ASSUME NEW t \in Threads, Take(t)
        PROVE  MutualExclusion'
    BY <2>2 DEF Take
  <2>3. CASE UNCHANGED <<locked, holders>>
    BY <2>3
  <2>4. QED
    BY <2>1, <2>2, <2>3
    DEF Next, Step, Acquiring, TimingOut, KeyedEvent, Wait, TryTake, TrySpin,
        TryNoSpin, SpinTake, SpinGiveUp, TrapTake, Trap, TimedOutLeave,
        TimedOutPoll, WaitTimeOut, WaitMatch, ReleaseMatch, WaitBlock,
        PollTimeOut, ReleasePark, word, vars
<1>3. QED
  BY <1>1, <1>2, PTL DEF Spec

-----------------------------------------------------------------------------
(* Wake-ups                                                                 *)

\* Promised releases and counted sleepers always balance, whatever the
\* interleaving of traps, time-outs and signals.
THEOREM WakeupsAreConserved == Spec => []WakeupsConserved
<1>1. Init => WakeupsConserved
  <2> SUFFICES ASSUME Init
               PROVE  WakeupsConserved
    OBVIOUS
  <2>1. Waiters = {} /\ Releasers = {}
    BY DEF Init, Waiters, Releasers, Sleeping, Signaling
  <2>2. QED
    BY <2>1, FS_EmptySet DEF Init, WakeupsConserved
<1>2. TypeOK /\ WakeupsConserved /\ [Next]_vars => WakeupsConserved'
  <2> SUFFICES ASSUME TypeOK, WakeupsConserved, [Next]_vars
               PROVE  WakeupsConserved'
    OBVIOUS
  <2> USE FiniteCounts DEF WakeupsConserved, Sleeping, Signaling
  <2>1. ASSUME NEW t \in Threads, NEW c \in Calls, Wait(t, c)
        PROVE  WakeupsConserved'
    BY <2>1, GotoCounts DEF Wait, word, TypeOK
  <2>2. ASSUME NEW t \in Threads, NEW h \in Threads, Signal(t, h)
        PROVE  WakeupsConserved'
    <3>1. CASE trapped > 0
      BY <2>2, <3>1, GotoCounts DEF Signal, TypeOK
    <3>2. CASE ~(trapped > 0)
      BY <2>2, <3>2 DEF Signal, Waiters, Releasers
    <3>3. QED
      BY <3>1, <3>2
  <2>3. ASSUME NEW t \in Threads, Acquiring(t)
        PROVE  WakeupsConserved'
    <3>1. CASE Trap(t)
      BY <3>1, GotoCounts DEF Trap, TypeOK
    <3>2. CASE ~Trap(t)
      <4>1. /\ trapped' = trapped
            /\ pc[t] \in {"try", "spin", "trap"}
            /\ \E to \in {"idle", "spin", "trap"} : Goto(t, to)
        BY <2>3, <3>2 DEF Acquiring, TryTake, TrySpin, TryNoSpin, SpinTake,
                          SpinGiveUp, TrapTake, Take, word
      <4>2. QED
        BY <4>1, GotoCounts
    <3>3. QED
      BY <3>1, <3>2
  <2>4. ASSUME NEW t \in Threads, TimedOutLeave(t)
        PROVE  WakeupsConserved'
    BY <2>4, GotoCounts DEF TimedOutLeave, TypeOK
  <2>5. ASSUME NEW t \in Threads, TimedOutPoll(t) \/ WaitTimeOut(t)
        PROVE  WakeupsConserved'
    BY <2>5, GotoCounts DEF TimedOutPoll, WaitTimeOut, word
  <2>6. ASSUME NEW t \in Threads, NEW r \in Threads,
               WaitMatch(t, r) \/ ReleaseMatch(r, t)
        PROVE  WakeupsConserved'
    <3>1. /\ pc[t] \in Sleeping /\ pc[r] \in Signaling
          /\ Rendezvous(t, r) /\ trapped' = trapped
      BY <2>6 DEF WaitMatch, ReleaseMatch, Parked, Blocked, word
    <3>2. QED
      BY <3>1, RendezvousCounts DEF TypeOK
  <2>7. ASSUME NEW t \in Threads, WaitBlock(t) \/ PollTimeOut(t) \/ ReleasePark(t)
        PROVE  WakeupsConserved'
    BY <2>7, GotoCounts DEF WaitBlock, PollTimeOut, ReleasePark, word
  <2>8. CASE UNCHANGED vars
    BY <2>8 DEF vars, Waiters, Releasers
  <2>9. QED
    BY <2>1, <2>2, <2>3, <2>4, <2>5, <2>6, <2>7, <2>8
    DEF Next, Step, TimingOut, KeyedEvent
<1>3. QED
  BY <1>1, <1>2, TypeCorrect, PTL DEF Spec

\* The number of trapped threads never exceeds the number of threads: the
\* field that counts them can not overflow.
THEOREM TrappedIsBounded == Spec => []TrappedBounded
<1>1. TypeOK /\ WakeupsConserved => TrappedBounded
  <2> SUFFICES ASSUME TypeOK, WakeupsConserved
               PROVE  TrappedBounded
    OBVIOUS
  <2>1. Waiters \in SUBSET Threads
    BY DEF Waiters
  <2>2. Cardinality(Waiters) <= Cardinality(Threads) /\ Cardinality(Threads) \in Nat
    BY <2>1, MutexAssumption, FS_Subset, FS_CardinalityType
  <2>3. QED
    BY <2>2, FiniteCounts DEF TypeOK, WakeupsConserved, TrappedBounded
<1>2. QED
  BY <1>1, TypeCorrect, WakeupsAreConserved, PTL

-----------------------------------------------------------------------------
(* No lost wake-up                                                          *)

\* A free mutex with counted sleepers always has a thread on its way that
\* takes it or wakes one of them.
THEOREM NoWakeupIsLost == Spec => []NoLostWakeup
<1> USE DEF Locking, Sleeping, Signaling
<1>1. Init => NoLostWakeup
  BY DEF Init, NoLostWakeup
<1>2. TypeOK /\ NoLostWakeup /\ [Next]_vars => NoLostWakeup'
  <2> SUFFICES ASSUME TypeOK, NoLostWakeup, [Next]_vars
               PROVE  NoLostWakeup'
    OBVIOUS
  <2> USE DEF NoLostWakeup, Goto, TypeOK
  <2>1. ASSUME NEW t \in Threads, NEW c \in Calls, Wait(t, c)
        PROVE  NoLostWakeup'
    BY <2>1 DEF Wait, word
  <2>2. ASSUME NEW t \in Threads, NEW h \in Threads, Signal(t, h)
        PROVE  NoLostWakeup'
    BY <2>2 DEF Signal
  <2>3. ASSUME NEW t \in Threads, Acquiring(t)
        PROVE  NoLostWakeup'
    <3>1. locked' = 1
      BY <2>3 DEF Acquiring, TryTake, TrySpin, TryNoSpin, SpinTake, SpinGiveUp,
                  TrapTake, Trap, Take, word
    <3>2. QED
      BY <3>1
  <2>4. ASSUME NEW t \in Threads, TimingOut(t) \/ WaitTimeOut(t)
        PROVE  NoLostWakeup'
    BY <2>4 DEF TimingOut, TimedOutLeave, TimedOutPoll, WaitTimeOut, word
  <2>5. ASSUME NEW t \in Threads, NEW r \in Threads,
               WaitMatch(t, r) \/ ReleaseMatch(r, t)
        PROVE  NoLostWakeup'
    <3>1. pc[t] \in Sleeping /\ pc[r] \in Signaling /\ Rendezvous(t, r)
      BY <2>5 DEF WaitMatch, ReleaseMatch, Parked, Blocked
    <3>2. pc'[t] = "try"
      BY <3>1 DEF Rendezvous
    <3>3. QED
      BY <3>2
  <2>6. ASSUME NEW t \in Threads, WaitBlock(t) \/ PollTimeOut(t) \/ ReleasePark(t)
        PROVE  NoLostWakeup'
    BY <2>6 DEF WaitBlock, PollTimeOut, ReleasePark, word
  <2>7. CASE UNCHANGED vars
    BY <2>7 DEF vars
  <2>8. QED
    BY <2>1, <2>2, <2>3, <2>4, <2>5, <2>6, <2>7 DEF Next, Step, KeyedEvent
<1>3. QED
  BY <1>1, <1>2, TypeCorrect, PTL DEF Spec

-----------------------------------------------------------------------------
(* Refinement                                                               *)

\* The word and the keyed event implement the lock the callers are promised:
\* every step of the code is a step of AbstractLock or invisible to callers.
THEOREM MutexImplementsLock == Spec => Lock!Spec
<1> DEFINE W == {t \in Threads : pc[t] \in Locking \cup Sleeping}
<1> USE DEF Locking, Sleeping, Signaling, Lock!vars
<1>1. Init => Lock!Init
  BY DEF Init, Lock!Init
<1>2. TypeOK /\ MutualExclusion /\ [Next]_vars => [Lock!Next]_(Lock!vars)
  <2> SUFFICES ASSUME TypeOK, MutualExclusion, [Next]_vars
               PROVE  Lock!Next \/ (W' = W /\ holders' = holders)
    BY DEF Lock!vars
  <2> USE DEF TypeOK, Goto
  <2>1. ASSUME NEW t \in Threads, NEW c \in Calls, Wait(t, c)
        PROVE  Lock!Request(t)
    BY <2>1 DEF Wait, Lock!Request
  <2>2. ASSUME NEW t \in Threads, NEW h \in Threads, Signal(t, h)
        PROVE  Lock!Release(h)
    BY <2>2 DEF Signal, Lock!Release
  <2>3. ASSUME NEW t \in Threads, pc[t] \in Locking, Take(t)
        PROVE  Lock!Acquire(t)
    BY <2>3 DEF Take, MutualExclusion, Lock!Acquire
  <2>4. ASSUME NEW t \in Threads,
               TrySpin(t) \/ TryNoSpin(t) \/ SpinGiveUp(t) \/ Trap(t)
        PROVE  W' = W /\ holders' = holders
    BY <2>4 DEF TrySpin, TryNoSpin, SpinGiveUp, Trap, word
  <2>5. ASSUME NEW t \in Threads, TimedOutLeave(t)
        PROVE  Lock!GiveUp(t)
    BY <2>5 DEF TimedOutLeave, Lock!GiveUp
  <2>6. ASSUME NEW t \in Threads, TimedOutPoll(t) \/ WaitTimeOut(t)
        PROVE  W' = W /\ holders' = holders
    BY <2>6 DEF TimedOutPoll, WaitTimeOut, word
  <2>7. ASSUME NEW t \in Threads, NEW r \in Threads,
               WaitMatch(t, r) \/ ReleaseMatch(r, t)
        PROVE  W' = W /\ holders' = holders
    BY <2>7 DEF WaitMatch, ReleaseMatch, Parked, Blocked, Rendezvous, word
  <2>8. ASSUME NEW t \in Threads, WaitBlock(t) \/ PollTimeOut(t) \/ ReleasePark(t)
        PROVE  W' = W /\ holders' = holders
    BY <2>8 DEF WaitBlock, PollTimeOut, ReleasePark, word
  <2>9. CASE UNCHANGED vars
    BY <2>9 DEF vars
  <2>10. QED
    BY <2>1, <2>2, <2>3, <2>4, <2>5, <2>6, <2>7, <2>8, <2>9
    DEF Next, Step, Acquiring, TimingOut, KeyedEvent, TryTake, SpinTake,
        TrapTake, Lock!Next
<1>3. QED
  BY <1>1, <1>2, TypeCorrect, MutexIsExclusive, PTL DEF Spec, Lock!Spec

-----------------------------------------------------------------------------
\* All that TLC checks of the states of the mutex holds for every set of threads:
\* exclusion, the balance of releases and sleepers, and no lost wake-up.
THEOREM SafetyHolds == Spec => []Safety
BY TypeCorrect, MutexIsExclusive, WakeupsAreConserved, NoWakeupIsLost, PTL DEF Safety


=============================================================================
