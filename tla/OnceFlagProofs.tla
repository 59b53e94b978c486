--------------------------- MODULE OnceFlagProofs ---------------------------
(***************************************************************************)
(* Proofs about OnceFlag for every finite set of threads: its types, that  *)
(* one thread at a time initializes and none after a finished run, that    *)
(* sleepers and wake-ups balance and nobody sleeps whom nobody will wake,  *)
(* and that the code takes only steps AbstractOnce allows.                 *)
(***************************************************************************)
EXTENDS OnceFlag, FiniteSetTheorems, TLAPS

\* The inductive invariant of the types: signalers in the kernel, and they
\* alone, owe releases, so the count of what one owes never passes zero.
OwesReleases == \A t \in Threads : pc[t] = "release" <=> owes[t] > 0
Typed == TypeOK /\ OwesReleases

\* A signal releases no more threads than are trapped.
LEMMA SignalsTrapped ==
  ASSUME TypeOK, NEW fin \in {0, 1}
  PROVE  CountToSignal(fin) \in Nat /\ CountToSignal(fin) <= trapped
BY DEF TypeOK, CountToSignal

-----------------------------------------------------------------------------
(* Type correctness                                                         *)

\* Every variable keeps its type, and who signals and who owes are the same:
\* no count is ever decremented below zero, neither by a thread that times
\* out nor by a signal nor by a release.
LEMMA TypedHolds == Spec => []Typed
<1> USE DEF Typed, TypeOK, OwesReleases, Asking, Calls
<1>1. Init => Typed
  BY DEF Init
<1>2. Typed /\ [Next]_vars => Typed'
  <2> SUFFICES ASSUME Typed, [Next]_vars
               PROVE  Typed'
    OBVIOUS
  <2> USE DEF Goto, word
  <2>1. ASSUME NEW t \in Threads, NEW c \in Calls, Wait(t, c)
        PROVE  Typed'
    BY <2>1 DEF Wait
  <2>2. ASSUME NEW t \in Threads, NEW fin \in {0, 1}, Signal(t, fin)
        PROVE  Typed'
    <3> DEFINE k == CountToSignal(fin)
    <3>1. k \in Nat /\ trapped - k \in Nat
      BY SignalsTrapped
    <3>2. /\ locked' = 0 /\ finished' = fin /\ trapped' = trapped - k
          /\ owes' = [owes EXCEPT ![t] = k]
          /\ pc' = [pc EXCEPT ![t] = IF k > 0 THEN "release" ELSE "idle"]
          /\ call' = call /\ old' = old /\ running' = running \ {t}
      BY <2>2 DEF Signal
    <3> HIDE DEF k
    <3>3. QED
      BY <3>1, <3>2
  <2>3. ASSUME NEW r \in Threads, NEW w \in Threads, Release(r, w)
        PROVE  Typed'
    BY <2>3 DEF Release
  <2>4. ASSUME NEW t \in Threads,
               TryFinished(t) \/ TryLocked(t) \/ TryLoad(t) \/ TryExchange(t)
                 \/ TryExchangeFails(t)
        PROVE  Typed'
    BY <2>4 DEF TryFinished, TryLocked, TryLoad, TryExchange, TryExchangeFails,
                Finished, TryFailed, Initial
  <2>5. ASSUME NEW t \in Threads,
               EnterFinished(t) \/ EnterTake(t) \/ EnterTrap(t)
        PROVE  Typed'
    BY <2>5 DEF EnterFinished, EnterTake, EnterTrap, Finished, Initial
  <2>6. ASSUME NEW t \in Threads,
               TimedOutLeave(t) \/ TimedOutPoll(t) \/ WaitTimeOut(t)
        PROVE  Typed'
    BY <2>6 DEF TimedOutLeave, TimedOutPoll, WaitTimeOut
  <2>7. CASE UNCHANGED vars
    BY <2>7 DEF vars
  <2>8. QED
    BY <2>1, <2>2, <2>3, <2>4, <2>5, <2>6, <2>7 DEF Next, Step
<1>3. QED
  BY <1>1, <1>2, PTL DEF Spec

\* Every variable keeps its type.
THEOREM TypeCorrect == Spec => []TypeOK
BY TypedHolds, PTL DEF Typed

-----------------------------------------------------------------------------
(* One initializer                                                          *)

\* At most one thread runs the initializer, the locked bit says whether one
\* does, and none does once a run has finished.
THEOREM InitializersExclude == Spec => []OneInitializer
<1> USE DEF OneInitializer
<1>1. Init => OneInitializer
  BY DEF Init
<1>2. OneInitializer /\ [Next]_vars => OneInitializer'
  <2> SUFFICES ASSUME OneInitializer, [Next]_vars
               PROVE  OneInitializer'
    OBVIOUS
  <2>1. ASSUME NEW t \in Threads, NEW fin \in {0, 1}, Signal(t, fin)
        PROVE  OneInitializer'
    BY <2>1 DEF Signal
  <2>2. ASSUME NEW t \in Threads, finished = 0, locked = 0, Initial(t)
        PROVE  OneInitializer'
    BY <2>2 DEF Initial
  <2>3. CASE UNCHANGED <<locked, finished, running>>
    BY <2>3
  <2>4. QED
    BY <2>1, <2>2, <2>3
    DEF Next, Step, Wait, Release, TryFinished, TryLocked, TryLoad, TryExchange,
        TryExchangeFails, Unchanged, EnterFinished, EnterTake, EnterTrap,
        TimedOutLeave, TimedOutPoll, WaitTimeOut, Finished, TryFailed, word, vars
<1>3. QED
  BY <1>1, <1>2, PTL DEF Spec

-----------------------------------------------------------------------------
(* Wake-ups                                                                 *)

\* There are as many sleepers as a number says.
LEMMA SleepersFinite ==
  TypeOK => IsFiniteSet(Sleepers) /\ Cardinality(Sleepers) \in Nat
BY OnceAssumption, FS_Subset, FS_CardinalityType DEF Sleepers

\* A thread that goes elsewhere changes their number by itself only.
LEMMA GotoCounts ==
  ASSUME TypeOK, NEW t \in Threads, NEW to, Goto(t, to)
  PROVE  Cardinality(Sleepers') = Cardinality(Sleepers)
             - (IF pc[t] \in {"wait", "timedout"} THEN 1 ELSE 0)
             + (IF to \in {"wait", "timedout"} THEN 1 ELSE 0)
<1>1. Sleepers' = IF to \in {"wait", "timedout"} THEN (Sleepers \ {t}) \cup {t}
                  ELSE Sleepers \ {t}
  BY DEF TypeOK, Goto, Sleepers
<1>2. t \in Sleepers <=> pc[t] \in {"wait", "timedout"}
  BY DEF Sleepers
<1>3. /\ IsFiniteSet(Sleepers \ {t}) /\ t \notin Sleepers \ {t}
      /\ Cardinality(Sleepers \ {t})
           = IF t \in Sleepers THEN Cardinality(Sleepers) - 1 ELSE Cardinality(Sleepers)
  BY SleepersFinite, FS_RemoveElement
<1>4. Cardinality((Sleepers \ {t}) \cup {t}) = Cardinality(Sleepers \ {t}) + 1
  BY <1>3, FS_AddElement
<1>5. QED
  BY <1>1, <1>2, <1>3, <1>4, SleepersFinite

\* Threads that are counted and releases that are owed always balance,
\* whatever the interleaving of traps, time-outs, signals and releases.
THEOREM WakeupsAreConserved == Spec => []WakeupsConserved
<1>1. Init => WakeupsConserved
  <2> SUFFICES ASSUME Init
               PROVE  WakeupsConserved
    OBVIOUS
  <2>1. Sleepers = {} /\ trapped = 0
    BY DEF Init, Sleepers
  <2>2. Total(owes) = 0
    BY TotalOfZeros DEF Init
  <2>3. QED
    BY <2>1, <2>2, FS_EmptySet DEF WakeupsConserved
<1>2. Typed /\ WakeupsConserved /\ [Next]_vars => WakeupsConserved'
  <2> SUFFICES ASSUME Typed, WakeupsConserved, [Next]_vars
               PROVE  WakeupsConserved'
    OBVIOUS
  <2> USE DEF WakeupsConserved
  <2>1. /\ TypeOK /\ trapped \in Nat /\ Cardinality(Sleepers) \in Nat
        /\ owes \in [Threads -> Nat] /\ Total(owes) \in Nat
    BY TotalType, OnceAssumption, SleepersFinite DEF Typed, TypeOK
  <2>2. ASSUME NEW t \in Threads, NEW fin \in {0, 1}, Signal(t, fin)
        PROVE  WakeupsConserved'
    <3> DEFINE k == CountToSignal(fin)
    <3>1. k \in Nat /\ trapped - k \in Nat
      BY <2>1, SignalsTrapped DEF TypeOK
    <3>2. /\ trapped' = trapped - k /\ owes' = [owes EXCEPT ![t] = k] /\ pc[t] = "idle"
          /\ Goto(t, IF k > 0 THEN "release" ELSE "idle")
      BY <2>2 DEF Signal
    <3> HIDE DEF k
    <3>3. owes[t] = 0
      BY <2>1, <3>2 DEF Typed, OwesReleases
    <3>4. Total(owes') = Total(owes) + k
      <4>1. /\ owes' \in [Threads -> Nat] /\ owes'[t] = k
            /\ \A u \in Threads \ {t} : owes'[u] = owes[u]
        BY <2>1, <3>1, <3>2
      <4>2. QED
        BY <2>1, <3>1, <3>3, <4>1, TotalChanges, OnceAssumption
    <3>5. Cardinality(Sleepers') = Cardinality(Sleepers)
      BY <2>1, <3>2, GotoCounts
    <3>6. QED
      BY <2>1, <3>1, <3>2, <3>4, <3>5
  <2>3. ASSUME NEW r \in Threads, NEW w \in Threads, Release(r, w)
        PROVE  WakeupsConserved'
    <3>1. Sleepers' = Sleepers \ {w} /\ w \in Sleepers
      BY <2>1, <2>3 DEF Release, Sleepers, TypeOK
    <3>2. owes[r] \in Nat /\ owes[r] > 0 /\ owes' = [owes EXCEPT ![r] = owes[r] - 1]
      BY <2>1, <2>3 DEF Release, Typed, OwesReleases
    <3>3. Total(owes') = Total(owes) - 1
      <4>1. /\ owes' \in [Threads -> Nat] /\ owes'[r] = owes[r] - 1
            /\ \A u \in Threads \ {r} : owes'[u] = owes[u]
        BY <2>1, <3>2
      <4>2. Total(owes') = Total(owes) - owes[r] + owes'[r]
        BY <2>1, <4>1, TotalChanges, OnceAssumption
      <4>3. QED
        BY <2>1, <3>2, <4>1, <4>2
    <3>4. Cardinality(Sleepers') = Cardinality(Sleepers) - 1
      BY <2>1, <3>1, SleepersFinite, FS_RemoveElement
    <3>5. QED
      BY <2>1, <2>3, <3>3, <3>4 DEF Release, word
  <2>4. ASSUME NEW t \in Threads, EnterTrap(t)
        PROVE  WakeupsConserved'
    BY <2>1, <2>4, GotoCounts DEF EnterTrap
  <2>5. ASSUME NEW t \in Threads, TimedOutLeave(t)
        PROVE  WakeupsConserved'
    BY <2>1, <2>5, GotoCounts DEF TimedOutLeave
  <2>6. ASSUME NEW t \in Threads, TimedOutPoll(t) \/ WaitTimeOut(t)
        PROVE  WakeupsConserved'
    BY <2>1, <2>6, GotoCounts DEF TimedOutPoll, WaitTimeOut, word
  <2>7. ASSUME NEW t \in Threads,
               \/ \E c \in Calls : Wait(t, c)
               \/ TryFinished(t) \/ TryLocked(t) \/ TryLoad(t) \/ TryExchange(t)
               \/ TryExchangeFails(t) \/ EnterFinished(t) \/ EnterTake(t)
        PROVE  WakeupsConserved'
    <3>1. /\ trapped' = trapped /\ owes' = owes
          /\ pc[t] \in {"idle", "load", "exchange", "enter"}
          /\ \E to \in {"idle", "load", "exchange", "enter"} : Goto(t, to)
      BY <2>7 DEF Wait, TryFinished, TryLocked, TryLoad, TryExchange, TryExchangeFails,
                  EnterFinished, EnterTake, Finished, TryFailed, Initial, word
    <3>2. QED
      BY <2>1, <3>1, GotoCounts
  <2>8. CASE UNCHANGED vars
    BY <2>8 DEF vars, Sleepers
  <2>9. QED
    BY <2>2, <2>3, <2>4, <2>5, <2>6, <2>7, <2>8 DEF Next, Step
<1>3. QED
  BY <1>1, <1>2, TypedHolds, PTL DEF Spec

\* While nobody initializes, trapped threads have somebody awake who will let
\* the next one go; after a finished run nobody is trapped.  With the types
\* this is inductive: the only steps that leave "enter" for good set the bit
\* or find the run finished, and a release sends another thread there.
THEOREM NoWakeupIsLost == Spec => []NoLostWakeup
<1> USE DEF NoLostWakeup
<1>1. Init => NoLostWakeup
  BY DEF Init
<1>2. Typed /\ NoLostWakeup /\ [Next]_vars => NoLostWakeup'
  <2> SUFFICES ASSUME Typed, NoLostWakeup, [Next]_vars
               PROVE  NoLostWakeup'
    OBVIOUS
  <2> USE DEF Typed, TypeOK
  <2>1. ASSUME NEW t \in Threads, NEW fin \in {0, 1}, Signal(t, fin)
        PROVE  NoLostWakeup'
    BY <2>1 DEF Signal, CountToSignal, Goto
  <2>2. ASSUME NEW r \in Threads, NEW w \in Threads, Release(r, w)
        PROVE  NoLostWakeup'
    BY <2>2 DEF Release, word
  <2>3. ASSUME NEW t \in Threads, EnterTake(t) \/ TryExchange(t)
        PROVE  NoLostWakeup'
    BY <2>3 DEF EnterTake, TryExchange, Initial, Unchanged
  <2>4. ASSUME NEW t \in Threads, EnterTrap(t)
        PROVE  NoLostWakeup'
    BY <2>4 DEF EnterTrap
  <2>5. ASSUME NEW t \in Threads, EnterFinished(t)
        PROVE  NoLostWakeup'
    BY <2>5 DEF EnterFinished, Finished, word
  <2>6. ASSUME NEW t \in Threads, pc[t] \notin {"enter", "release"},
               locked' = locked, finished' = finished,
               trapped' \in Nat, trapped' <= trapped, NEW to, Goto(t, to)
        PROVE  NoLostWakeup'
    BY <2>6 DEF Goto
  <2>7. ASSUME NEW t \in Threads, TimedOutLeave(t)
        PROVE  NoLostWakeup'
    BY <2>6, <2>7 DEF TimedOutLeave
  <2>8. ASSUME NEW t \in Threads,
               \/ \E c \in Calls : Wait(t, c)
               \/ TryFinished(t) \/ TryLocked(t) \/ TryLoad(t) \/ TryExchangeFails(t)
               \/ TimedOutPoll(t) \/ WaitTimeOut(t)
        PROVE  NoLostWakeup'
    <3>1. /\ UNCHANGED word /\ pc[t] \notin {"enter", "release"}
          /\ \E to : Goto(t, to)
      BY <2>8 DEF Wait, TryFinished, TryLocked, TryLoad, TryExchangeFails, TimedOutPoll,
                  WaitTimeOut, Finished, TryFailed
    <3>2. QED
      BY <2>6, <3>1 DEF word
  <2>9. CASE UNCHANGED vars
    BY <2>9 DEF vars
  <2>10. QED
    BY <2>1, <2>2, <2>3, <2>4, <2>5, <2>7, <2>8, <2>9 DEF Next, Step
<1>3. QED
  BY <1>1, <1>2, TypedHolds, PTL DEF Spec

\* The invariant that the run once_flag checks, for any number of threads.
THEOREM SafetyHolds == Spec => []Safety
BY TypeCorrect, InitializersExclude, WakeupsAreConserved, NoWakeupIsLost, PTL DEF Safety

-----------------------------------------------------------------------------
(* Refinement                                                               *)

\* Only a wait with a deadline is ever in the time-out path, so the assertion
\* of _MCFCRT_WaitForOnceFlagForever holds.
DeadlineOnly == \A t \in Threads : pc[t] = "timedout" => call[t] = "timed"

\* A thread gets there only when it times out in the kernel, which one without a
\* deadline does not, and makes no other call before it has left.
LEMMA ForeverNeverTimesOut == Spec => []DeadlineOnly
<1> USE DEF DeadlineOnly
<1>1. Init => DeadlineOnly
  BY DEF Init
<1>2. ASSUME call' = call, \A u \in Threads : pc'[u] = "timedout" => pc[u] = "timedout",
             DeadlineOnly
      PROVE  DeadlineOnly'
  BY <1>2
<1>3. TypeOK /\ DeadlineOnly /\ [Next]_vars => DeadlineOnly'
  <2> SUFFICES ASSUME TypeOK, DeadlineOnly, [Next]_vars
               PROVE  DeadlineOnly'
    OBVIOUS
  <2> USE DEF TypeOK, Goto
  <2>called. ASSUME NEW t \in Threads, NEW c \in Calls, Wait(t, c)
             PROVE  DeadlineOnly'
    BY <2>called DEF Wait
  <2>late. ASSUME NEW t \in Threads, WaitTimeOut(t)
           PROVE  DeadlineOnly'
    BY <2>late DEF WaitTimeOut
  <2>elsewhere. ASSUME NEW t \in Threads, NEW to, to # "timedout", Goto(t, to), call' = call
                PROVE  DeadlineOnly'
    BY <1>2, <2>elsewhere
  <2>signals. ASSUME NEW t \in Threads, \/ \E fin \in {0, 1} : Signal(t, fin)
                                        \/ \E w \in Threads : Release(t, w)
              PROVE  DeadlineOnly'
    <3>1. call' = call /\ \A u \in Threads : pc'[u] = "timedout" => pc[u] = "timedout"
      BY <2>signals DEF Signal, Release
    <3>2. QED
      BY <1>2, <3>1
  <2>waits. ASSUME NEW t \in Threads, Step(t), ~WaitTimeOut(t)
            PROVE  DeadlineOnly'
    <3>1. call' = call /\ \E to \in {"idle", "exchange", "enter", "wait"} : Goto(t, to)
      BY <2>waits
      DEF Step, TryFinished, TryLocked, TryLoad, TryExchange, TryExchangeFails, EnterFinished,
          EnterTake, EnterTrap, TimedOutLeave, TimedOutPoll, Finished, TryFailed, Initial
    <3>2. QED
      BY <2>elsewhere, <3>1
  <2>stutters. CASE UNCHANGED <<pc, call>>
    BY <1>2, <2>stutters
  <2> QED
    BY <2>called, <2>late, <2>signals, <2>waits, <2>stutters DEF Next, vars
<1>4. QED
  BY <1>1, <1>3, TypeCorrect, PTL DEF Spec

\* Every step of the code is one that callers were promised: a wait without a
\* deadline never reports a time-out, "initial" is answered only while nobody
\* initializes and nobody has finished, "finished" only after a finished run.
THEOREM OnceFlagImplementsOnce == Spec => Once!Spec
<1> DEFINE how(t) == IF pc[t] \notin Asking THEN "no"
                     ELSE IF call[t] = "forever" THEN "forever" ELSE "deadline"
           asks == [t \in Threads |-> how(t)]
<1>1. Init => Once!Init
  BY DEF Init, Once!Init, Asking
<1>2. TypeOK /\ OneInitializer /\ DeadlineOnly /\ [Next]_vars => [Once!Next]_(Once!vars)
  <2> SUFFICES ASSUME TypeOK, OneInitializer, DeadlineOnly, [Next]_vars
               PROVE  Once!Next \/ UNCHANGED <<asks, running, finished>>
    BY DEF Once!vars
  <2> USE DEF TypeOK, Asking, Calls
  <2>1. ASSUME NEW t \in Threads, NEW c \in Calls, Wait(t, c)
        PROVE  \/ Once!Request(t, "deadline")
               \/ Once!Request(t, "forever")
    BY <2>1 DEF Wait, Goto, word, Once!Request
  <2>2. ASSUME NEW t \in Threads, Signal(t, 1)
        PROVE  Once!Finish(t)
    <3>1. /\ pc[t] = "idle" /\ call' = call
          /\ \E to \in {"idle", "release"} : pc' = [pc EXCEPT ![t] = to]
      BY <2>2 DEF Signal, Goto
    <3>2. asks' = asks
      BY <3>1
    <3>3. QED
      BY <2>2, <3>2 DEF Signal, OneInitializer, Once!Finish
  <2>3. ASSUME NEW t \in Threads, Signal(t, 0)
        PROVE  Once!Abort(t)
    <3>1. /\ pc[t] = "idle" /\ call' = call
          /\ \E to \in {"idle", "release"} : pc' = [pc EXCEPT ![t] = to]
      BY <2>3 DEF Signal, Goto
    <3>2. asks' = asks
      BY <3>1
    <3>3. QED
      BY <2>3, <3>2 DEF Signal, OneInitializer, Once!Abort
  <2>4. ASSUME NEW t \in Threads, pc[t] \in Asking, Goto(t, "idle"), call' = call
        PROVE  Once!Answered(t)
    BY <2>4 DEF Goto, Once!Answered
  <2>5. ASSUME NEW t \in Threads, TryExchange(t) \/ EnterTake(t)
        PROVE  Once!Begin(t)
    <3>1. Once!Answered(t)
      BY <2>4, <2>5 DEF TryExchange, EnterTake, Initial
    <3>2. QED
      BY <2>5, <3>1 DEF TryExchange, EnterTake, Unchanged, Initial,
                        OneInitializer, Once!Begin
  <2>6. ASSUME NEW t \in Threads, TryFinished(t) \/ EnterFinished(t)
        PROVE  Once!Finished(t)
    <3>1. Once!Answered(t)
      BY <2>4, <2>6 DEF TryFinished, EnterFinished, Finished
    <3>2. QED
      BY <2>6, <3>1 DEF TryFinished, EnterFinished, Finished, word, Once!Finished
  <2>7. ASSUME NEW t \in Threads, pc[t] \in {"load", "exchange"}, TryFailed(t)
        PROVE  Once!TimedOut(t) \/ UNCHANGED <<asks, running, finished>>
    <3>1. CASE call[t] = "try"
      <4>1. Once!Answered(t)
        BY <2>4, <2>7, <3>1 DEF TryFailed
      <4>2. QED
        BY <2>7, <3>1, <4>1 DEF TryFailed, word, Once!TimedOut
    <3>2. CASE call[t] # "try"
      BY <2>7, <3>2 DEF TryFailed, Goto, word
    <3>3. QED
      BY <3>1, <3>2
  <2>8. ASSUME NEW t \in Threads, TryLoad(t) \/ EnterTrap(t)
        PROVE  UNCHANGED <<asks, running, finished>>
    BY <2>8 DEF TryLoad, EnterTrap, Goto, word
  <2>9. ASSUME NEW t \in Threads, TimedOutLeave(t)
        PROVE  Once!TimedOut(t)
    <3>1. Once!Answered(t)
      BY <2>4, <2>9 DEF TimedOutLeave
    <3>2. QED
      BY <2>9, <3>1 DEF TimedOutLeave, DeadlineOnly, Once!TimedOut
  <2>10. ASSUME NEW t \in Threads, TimedOutPoll(t) \/ WaitTimeOut(t)
         PROVE  UNCHANGED <<asks, running, finished>>
    BY <2>10 DEF TimedOutPoll, WaitTimeOut, Goto, word
  <2>11. ASSUME NEW r \in Threads, NEW w \in Threads, Release(r, w)
         PROVE  UNCHANGED <<asks, running, finished>>
    BY <2>11 DEF Release, word
  <2>12. CASE UNCHANGED vars
    BY <2>12 DEF vars, word
  <2>13. ASSUME NEW t \in Threads, TryLocked(t) \/ TryExchangeFails(t)
         PROVE  Once!TimedOut(t) \/ UNCHANGED <<asks, running, finished>>
    BY <2>7, <2>13 DEF TryLocked, TryExchangeFails
  <2>14. QED
    BY <2>1, <2>2, <2>3, <2>5, <2>6, <2>8, <2>9, <2>10, <2>11, <2>12, <2>13
    DEF Next, Step, Once!Next
<1>3. QED
  BY <1>1, <1>2, TypeCorrect, InitializersExclude, ForeverNeverTimesOut, PTL DEF Spec, Once!Spec

=============================================================================
