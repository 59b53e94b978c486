---------------------------- MODULE WaitersProofs ----------------------------
(***************************************************************************)
(* Proofs about the condition variable and the three programs on it, for   *)
(* every finite set of threads.  What holds whatever the program does is   *)
(* proved of Moves, the steps that a program can take; then an event, a    *)
(* semaphore and a monitor are shown to take no others, to keep what is    *)
(* theirs, and to be what AbstractEvent and AbstractSemaphore promise.     *)
(***************************************************************************)
EXTENDS MCWaiters, FiniteSetTheorems, TLAPS

-----------------------------------------------------------------------------
(* Whatever the program does                                                *)

\* The places at which a thread holds the mutex; in "release" it may or may not.
Holding(t) == pc[t] \in {"in", "unlock", "unlockspin"}

\* Nobody holds the mutex but one thread, at such a place or in a signal.
GuardHeld == /\ \A t \in holders : Holding(t) \/ pc[t] = "release"
             /\ \A t \in Threads : Holding(t) => t \in holders
             /\ \A s, t \in holders : s = t

\* Signalers in the kernel, and they alone, owe releases.
OwesReleases == \A t \in Threads : pc[t] = "release" <=> owes[t] > 0

Counted == /\ trapped \in Nat
           /\ pc \in [Threads -> Locations]
           /\ owes \in [Threads -> Nat]
           /\ holders \in SUBSET Threads

\* The inductive invariant of the condition variable.
Sound == Counted /\ OwesReleases /\ GuardHeld /\ WakeupsConserved

\* What a program does with a thread that is not in a wait or a signal.
Asks(t)      == /\ pc[t] = "idle" /\ Goto(t, "lock")
                /\ UNCHANGED <<trapped, owes, holders>>
Leaves(t)    == /\ pc[t] = "in" /\ Goto(t, "idle")
                /\ holders' = holders \ {t} /\ UNCHANGED <<trapped, owes>>
Registers(t) == /\ pc[t] = "in" /\ \E to \in {"unlock", "unlockspin"} : Goto(t, to)
                /\ UNCHANGED <<trapped, owes, holders>>

\* The steps of every program.
Moves(t) == \/ Asks(t) \/ Leaves(t) \/ Registers(t) \/ Acquire(t) \/ WaitStep(t)
            \/ \E n \in Nat : Signal(t, n)
            \/ \E w \in Threads : Release(t, w)

\* No more threads are signaled than are trapped.
LEMMA SignalsTrapped ==
  ASSUME Counted, NEW n \in Nat
  PROVE  CountToSignal(n) \in Nat /\ CountToSignal(n) <= trapped /\ CountToSignal(n) <= n
BY DEF Counted, CountToSignal

\* There are as many sleepers as a number says.
LEMMA SleepersFinite == IsFiniteSet(Sleepers) /\ Cardinality(Sleepers) \in Nat
BY ConditionVariableAssumption, FS_Subset, FS_CardinalityType DEF Sleepers

\* A thread that goes elsewhere changes their number by itself only.
LEMMA GotoCounts ==
  ASSUME Counted, NEW t \in Threads, NEW to, Goto(t, to)
  PROVE  Cardinality(Sleepers') = Cardinality(Sleepers)
             - (IF pc[t] \in Asleep THEN 1 ELSE 0) + (IF to \in Asleep THEN 1 ELSE 0)
<1>1. Sleepers' = IF to \in Asleep THEN (Sleepers \ {t}) \cup {t} ELSE Sleepers \ {t}
  BY DEF Counted, Goto, Sleepers
<1>2. t \in Sleepers <=> pc[t] \in Asleep
  BY DEF Sleepers
<1>3. /\ IsFiniteSet(Sleepers \ {t}) /\ t \notin Sleepers \ {t}
      /\ Cardinality(Sleepers \ {t})
           = IF t \in Sleepers THEN Cardinality(Sleepers) - 1 ELSE Cardinality(Sleepers)
  BY SleepersFinite, FS_RemoveElement
<1>4. Cardinality((Sleepers \ {t}) \cup {t}) = Cardinality(Sleepers \ {t}) + 1
  BY <1>3, FS_AddElement
<1>5. QED
  BY <1>1, <1>2, <1>3, <1>4, SleepersFinite

\* A release takes one from what its signaler owes and one from the sleepers.
LEMMA ReleaseCounts ==
  ASSUME Sound, NEW r \in Threads, NEW w \in Threads, Release(r, w)
  PROVE  /\ Total(owes') = Total(owes) - 1
         /\ Cardinality(Sleepers') = Cardinality(Sleepers) - 1
         /\ Total(owes) \in Nat
<1> USE DEF Sound, Counted
<1>1. owes[r] \in Nat /\ owes[r] > 0
  BY DEF Release, OwesReleases
<1>2. /\ owes' \in [Threads -> Nat] /\ owes'[r] = owes[r] - 1
      /\ \A u \in Threads \ {r} : owes'[u] = owes[u]
  BY <1>1 DEF Release
<1>3. Total(owes) \in Nat /\ Total(owes') = Total(owes) - owes[r] + owes'[r]
  BY <1>2, TotalType, TotalChanges, ConditionVariableAssumption
<1>4. Sleepers' = Sleepers \ {w} /\ w \in Sleepers
  BY DEF Release, AfterSignal, Sleepers, Asleep
<1>5. Cardinality(Sleepers') = Cardinality(Sleepers) - 1
  BY <1>4, SleepersFinite, FS_RemoveElement
<1>6. Total(owes') = Total(owes) - 1
  BY <1>1, <1>2, <1>3
<1>7. QED
  BY <1>3, <1>5, <1>6

\* A signal promises as many releases as it takes threads off the count.
LEMMA SignalCounts ==
  ASSUME Sound, NEW t \in Threads, NEW n \in Nat, Signal(t, n)
  PROVE  /\ Total(owes') = Total(owes) + CountToSignal(n)
         /\ Cardinality(Sleepers') = Cardinality(Sleepers)
         /\ Total(owes) \in Nat
<1> DEFINE k == CountToSignal(n)
<1> USE DEF Sound, Counted
<1>1. k \in Nat
  BY SignalsTrapped
<1>2. /\ owes' = [owes EXCEPT ![t] = k] /\ pc[t] \in {"in", "idle"}
      /\ Goto(t, IF k > 0 THEN "release" ELSE pc[t])
  BY DEF Signal
<1>3. owes[t] = 0
  BY <1>2 DEF OwesReleases
<1> HIDE DEF k
<1>4. /\ owes' \in [Threads -> Nat] /\ owes'[t] = k
      /\ \A u \in Threads \ {t} : owes'[u] = owes[u]
  BY <1>1, <1>2
<1>5. Total(owes) \in Nat /\ Total(owes') = Total(owes) - owes[t] + owes'[t]
  BY <1>4, TotalType, TotalChanges, ConditionVariableAssumption
<1>6. Cardinality(Sleepers') = Cardinality(Sleepers)
  BY <1>2, GotoCounts, SleepersFinite DEF Asleep
<1>7. QED
  BY <1>1, <1>3, <1>4, <1>5, <1>6 DEF k

\* Where a step of a wait leads to: the count of trapped threads goes with the
\* sleepers, and the mutex is let go of once.
LEMMA WaitStepEffect ==
  ASSUME Counted, NEW t \in Threads, WaitStep(t)
  PROVE  /\ owes' = owes /\ trapped' \in Nat
         /\ \/ pc[t] \in {"unlock", "unlockspin"} /\ holders' = holders \ {t}
            \/ pc[t] \in {"spin", "trap", "wait", "timedout"} /\ holders' = holders
         /\ \E to \in {"idle", "spin", "trap", "relock", "wait", "timedout"} :
              /\ Goto(t, to)
              /\ pc[t] \in {"unlock", "unlockspin"} => to \in {"spin", "trap"}
              /\ trapped' = trapped - (IF pc[t] \in Asleep THEN 1 ELSE 0)
                                    + (IF to \in Asleep THEN 1 ELSE 0)
<1> USE DEF Counted, word, Asleep
<1>1. CASE UnlockCallback(t)
  BY <1>1 DEF UnlockCallback
<1>2. CASE Signaled(t)
  BY <1>2 DEF Signaled
<1>3. CASE SpinGiveUp(t)
  BY <1>3 DEF SpinGiveUp
<1>4. CASE Trap(t)
  BY <1>4 DEF Trap
<1>5. CASE TimedOutLeave(t)
  BY <1>5 DEF TimedOutLeave, AfterTimeOut
<1>6. CASE TimedOutPoll(t) \/ WaitTimeOut(t)
  BY <1>6 DEF TimedOutPoll, WaitTimeOut
<1>7. QED
  BY <1>1, <1>2, <1>3, <1>4, <1>5, <1>6 DEF WaitStep

\* The invariant is kept, whatever a program does.
LEMMA MovesKeepSound ==
  ASSUME Sound, NEW t \in Threads, Moves(t)
  PROVE  Sound'
<1> USE DEF Sound
<1>1. CASE Asks(t) \/ Leaves(t) \/ Registers(t) \/ Acquire(t)
  <2>1. /\ trapped' = trapped /\ owes' = owes
        /\ pc[t] \in {"idle", "in", "lock", "relock"}
        /\ \E to \in {"idle", "lock", "in", "unlock", "unlockspin"} :
             /\ Goto(t, to)
             /\ \/ to \in {"idle", "lock"} /\ pc[t] = "idle" /\ holders' = holders
                \/ to = "idle" /\ pc[t] = "in" /\ holders' = holders \ {t}
                \/ to \in {"unlock", "unlockspin"} /\ pc[t] = "in" /\ holders' = holders
                \/ to = "in" /\ pc[t] \in {"lock", "relock"} /\ holders = {} /\ holders' = {t}
    BY <1>1 DEF Asks, Leaves, Registers, Acquire, word
  <2>2. Counted' /\ OwesReleases' /\ GuardHeld'
    BY <2>1 DEF Counted, OwesReleases, GuardHeld, Holding, Goto, Locations, InWait, Asleep
  <2>3. Cardinality(Sleepers') = Cardinality(Sleepers)
    BY <2>1, GotoCounts, SleepersFinite DEF Asleep
  <2>4. QED
    BY <2>1, <2>2, <2>3 DEF WakeupsConserved
<1>2. CASE WaitStep(t)
  <2>1. PICK to \in {"idle", "spin", "trap", "relock", "wait", "timedout"} :
              /\ Goto(t, to)
              /\ pc[t] \in {"unlock", "unlockspin"} => to \in {"spin", "trap"}
              /\ trapped' = trapped - (IF pc[t] \in Asleep THEN 1 ELSE 0)
                                    + (IF to \in Asleep THEN 1 ELSE 0)
    BY <1>2, WaitStepEffect
  <2>2. /\ owes' = owes /\ trapped' \in Nat
        /\ \/ pc[t] \in {"unlock", "unlockspin"} /\ holders' = holders \ {t}
           \/ pc[t] \in {"spin", "trap", "wait", "timedout"} /\ holders' = holders
    BY <1>2, WaitStepEffect
  <2>3. Counted' /\ OwesReleases' /\ GuardHeld'
    BY <2>1, <2>2 DEF Counted, OwesReleases, GuardHeld, Holding, Goto, Locations, InWait, Asleep
  <2>4. Cardinality(Sleepers') = Cardinality(Sleepers) + (trapped' - trapped)
    BY <2>1, GotoCounts, SleepersFinite DEF Counted
  <2>5. Total(owes) \in Nat
    BY TotalType, ConditionVariableAssumption DEF Counted
  <2>6. QED
    BY <2>2, <2>3, <2>4, <2>5, SleepersFinite DEF WakeupsConserved, Counted
<1>3. ASSUME NEW n \in Nat, Signal(t, n)
      PROVE  Sound'
  <2> DEFINE k == CountToSignal(n)
  <2>1. k \in Nat /\ k <= trapped
    BY SignalsTrapped
  <2>2. /\ pc[t] \in {"in", "idle"} /\ trapped' = trapped - k
        /\ owes' = [owes EXCEPT ![t] = k] /\ holders' = holders
        /\ Goto(t, IF k > 0 THEN "release" ELSE pc[t])
    BY <1>3 DEF Signal
  <2>3. Total(owes') = Total(owes) + k /\ Cardinality(Sleepers') = Cardinality(Sleepers)
        /\ Total(owes) \in Nat
    BY <1>3, SignalCounts
  <2> HIDE DEF k
  <2>4. Counted' /\ OwesReleases' /\ GuardHeld'
    BY <2>1, <2>2 DEF Counted, OwesReleases, GuardHeld, Holding, Goto, Locations
  <2>5. QED
    BY <2>1, <2>2, <2>3, <2>4 DEF WakeupsConserved, Counted
<1>4. ASSUME NEW w \in Threads, Release(t, w)
      PROVE  Sound'
  <2>1. Counted' /\ OwesReleases' /\ GuardHeld'
    BY <1>4 DEF Release, AfterSignal, word, Counted, OwesReleases, GuardHeld, Holding,
                Locations, InWait, Asleep
  <2>2. /\ Total(owes') = Total(owes) - 1 /\ Total(owes) \in Nat
        /\ Cardinality(Sleepers') = Cardinality(Sleepers) - 1
    BY <1>4, ReleaseCounts
  <2>3. trapped' = trapped
    BY <1>4 DEF Release, word
  <2>4. trapped \in Nat /\ Cardinality(Sleepers) \in Nat /\ WakeupsConserved
    BY SleepersFinite DEF Counted
  <2>5. WakeupsConserved'
    BY <2>2, <2>3, <2>4 DEF WakeupsConserved
  <2>6. QED
    BY <2>1, <2>5
<1>5. QED
  BY <1>1, <1>2, <1>3, <1>4 DEF Moves

\* And the mutex is asked for by who does not have it and released for who has.
LEMMA MovesUseLock ==
  ASSUME Sound, NEW t \in Threads, Moves(t)
  PROVE  [Lock!Next]_(Lock!vars)
<1> DEFINE W == {u \in Threads : pc[u] \in {"lock", "relock"}}
<1> USE DEF Sound, Counted
<1>1. CASE Acquire(t)
  <2>1. t \in W /\ W' = W \ {t} /\ holders = {} /\ holders' = {t}
    BY <1>1 DEF Acquire, Goto
  <2>2. QED
    BY <2>1 DEF Lock!Next, Lock!Acquire
<1>2. CASE Leaves(t) \/ UnlockCallback(t)
  <2>1. t \in holders /\ holders' = holders \ {t} /\ W' = W
    BY <1>2 DEF Leaves, UnlockCallback, Goto, GuardHeld, Holding
  <2>2. QED
    BY <2>1 DEF Lock!Next, Lock!Release
<1>3. ASSUME NEW u \in Threads, u \notin W \cup holders, W' = W \cup {u}, holders' = holders
      PROVE  Lock!Next
  BY <1>3 DEF Lock!Next, Lock!Request
<1>4. ASSUME W' = W, holders' = holders
      PROVE  [Lock!Next]_(Lock!vars)
  BY <1>4 DEF Lock!vars
<1>5. ASSUME NEW u \in Threads, pc[u] \notin {"lock", "relock", "in", "unlock", "unlockspin", "release"}
      PROVE  u \notin W \cup holders
  BY <1>5 DEF GuardHeld, Holding
<1>6. CASE Asks(t)
  <2>1. W' = W \cup {t} /\ holders' = holders
    BY <1>6 DEF Asks, Goto
  <2>2. QED
    BY <1>3, <1>5, <1>6, <2>1 DEF Asks
<1>7. CASE Registers(t) \/ \E n \in Nat : Signal(t, n)
  <2>1. W' = W /\ holders' = holders
    BY <1>7 DEF Registers, Signal, Goto
  <2>2. QED
    BY <1>4, <2>1
<1>8. ASSUME NEW w \in Threads, Release(t, w)
      PROVE  Lock!Next
  <2>1. W' = W \cup {w} /\ holders' = holders /\ pc[w] = "wait"
    BY <1>8 DEF Release, AfterSignal
  <2>2. QED
    BY <1>3, <1>5, <2>1
<1>9. CASE WaitStep(t) /\ ~UnlockCallback(t)
  <2>1. PICK to \in {"idle", "spin", "trap", "relock", "wait", "timedout"} : Goto(t, to)
    BY <1>9, WaitStepEffect
  <2>2. pc[t] \in {"spin", "trap", "wait", "timedout"} /\ holders' = holders
    BY <1>9 DEF WaitStep, Signaled, SpinGiveUp, Trap, TimedOutLeave, TimedOutPoll, WaitTimeOut
  <2>3. CASE to = "relock"
    <3>1. W' = W \cup {t}
      BY <2>1, <2>3 DEF Goto
    <3>2. QED
      BY <1>3, <1>5, <2>2, <3>1
  <2>4. CASE to # "relock"
    <3>1. W' = W
      BY <2>1, <2>2, <2>4 DEF Goto
    <3>2. QED
      BY <1>4, <2>2, <3>1
  <2>5. QED
    BY <2>3, <2>4
<1>10. QED
  BY <1>1, <1>2, <1>6, <1>7, <1>8, <1>9 DEF Moves, WaitStep

\* Where every program begins.
LEMMA SoundInitially == CVInit => Sound
<1> SUFFICES ASSUME CVInit
             PROVE  Sound
  OBVIOUS
<1>1. Sleepers = {} /\ trapped = 0
  BY DEF CVInit, Sleepers, Asleep
<1>2. Total(owes) = 0
  BY TotalOfZeros DEF CVInit
<1>3. WakeupsConserved
  BY <1>1, <1>2, FS_EmptySet DEF WakeupsConserved
<1>4. QED
  BY <1>3 DEF Sound, CVInit, Counted, OwesReleases, GuardHeld, Holding, Locations

LEMMA SoundStutters == Sound /\ UNCHANGED <<trapped, pc, owes, holders>> => Sound'
BY DEF Sound, Counted, OwesReleases, GuardHeld, Holding, WakeupsConserved, Sleepers

LEMMA SoundHoldsMutex == Sound => InsideHoldsMutex
BY DEF Sound, Counted, GuardHeld, Holding, InsideHoldsMutex
\* What a step of a wait leaves alone: the arguments of the wait, the waiting
\* bit, and other threads.  It ends the call only when a deadline passed.
LEMMA WaitStepPlaces ==
  ASSUME CVTypeOK, NEW t \in Threads, WaitStep(t)
  PROVE  /\ call' = call /\ waiting' = waiting
         /\ trapped' > trapped => waiting = 1
         /\ pc[t] \in InWait /\ pc'[t] \in InWait \cup {"idle"}
         /\ \A u \in Threads \ {t} : pc'[u] = pc[u]
         /\ pc'[t] = "timedout" => pc[t] = "timedout" \/ call[t].kind \in {"relock", "abandon"}
         /\ pc'[t] = "idle" => pc[t] = "timedout" /\ call[t].kind = "abandon"
         /\ spinning' = spinning \/ spinning' = 0
<1>1. call[t].kind \in {"relock", "abandon", "forever"}
  BY DEF CVTypeOK, Calls, NoCall
<1>2. QED
  BY <1>1 DEF CVTypeOK, WaitStep, UnlockCallback, Signaled, SpinGiveUp, Trap, TimedOutLeave,
              TimedOutPoll, WaitTimeOut, AfterTimeOut, Goto, word, InWait, Asleep

\* A release leaves the word and the arguments of the waits alone, wakes one
\* sleeper, and may end the signal.
LEMMA ReleasePlaces ==
  ASSUME Sound, NEW r \in Threads, NEW w \in Threads, Release(r, w)
  PROVE  /\ call' = call /\ UNCHANGED word /\ holders' = holders
         /\ r # w /\ pc[r] = "release" /\ pc[w] = "wait" /\ pc'[w] = "relock"
         /\ pc'[r] \in {"release", "in", "idle"}
         /\ \A u \in Threads \ {r, w} : pc'[u] = pc[u]
BY DEF Sound, Counted, Release, AfterSignal

\* The word and the arguments keep their types.
LEMMA MovesKeepTypes ==
  ASSUME CVTypeOK, Sound, Sound', NEW t \in Threads,
         \/ WaitStep(t) \/ Acquire(t)
         \/ \E c \in Calls \cup {NoCall} : Register(t, c)
         \/ \E n \in Nat : Signal(t, n)
         \/ \E w \in Threads : Release(t, w)
         \/ Asks(t) /\ UNCHANGED <<waiting, spinning>>
              /\ call' \in [Threads -> Calls \cup {NoCall}]
         \/ Leaves(t) /\ UNCHANGED <<waiting, spinning, call>>
  PROVE  CVTypeOK'
<1> USE DEF CVTypeOK, Sound, Counted, THREADS_SPINNING_MAX
<1> SUFFICES /\ waiting' \in {0, 1} /\ spinning' \in 0..3
             /\ call' \in [Threads -> Calls \cup {NoCall}]
  OBVIOUS
<1>1. CASE WaitStep(t)
  BY <1>1, WaitStepPlaces
<1>2. CASE Acquire(t)
  BY <1>2 DEF Acquire, word
<1>3. ASSUME NEW c \in Calls \cup {NoCall}, Register(t, c)
      PROVE  waiting' \in {0, 1} /\ spinning' \in 0..3
             /\ call' \in [Threads -> Calls \cup {NoCall}]
  BY <1>3 DEF Register, MaySpin
<1>4. CASE \E n \in Nat : Signal(t, n)
  BY <1>4 DEF Signal
<1>5. CASE \E w \in Threads : Release(t, w)
  BY <1>5, ReleasePlaces DEF word
<1>6. QED
  BY <1>1, <1>2, <1>3, <1>4, <1>5

\* A thread in a wait is in the operation that waits, a signaler is not; the
\* relock variant is not used, and deadlines are those of WaitOrAbandon.
Placed(activity) == \A t \in Threads :
  /\ pc[t] \in InWait => activity[t] = "wait"
  /\ pc[t] = "release" => activity[t] # "wait"
  /\ call[t].kind # "relock"
  /\ pc[t] = "timedout" => call[t].kind = "abandon"

\* How a thread that waits does so, if it waits.
Answer(activity, t) == IF activity[t] # "wait" \/ pc[t] = "idle" THEN "no"
                       ELSE IF call[t].kind = "forever" THEN "forever" ELSE "deadline"

Answers(activity) == [t \in Threads |-> Answer(activity, t)]

-----------------------------------------------------------------------------
(* The event                                                                *)

\* The inductive invariant of an event.
EventInv == TypeOK /\ Sound /\ Placed(doing) /\ SetWakesAll

EventStep(t) == \/ \E c \in WaitCalls : Wait(t, c)
                \/ \E what \in {"set", "reset", "leave"} : Call(t, what)
                \/ Proceed(t) \/ Reacquire(t)
                \/ \E w \in Threads : Wake(t, w)

LEMMA EventInitially == Init => EventInv
<1> SUFFICES ASSUME Init PROVE EventInv
  OBVIOUS
<1>1. NoCall.kind = "forever"
  BY DEF NoCall
<1>2. TypeOK
  BY EventAssumption DEF Init, CVInit, TypeOK, CVTypeOK, Locations, THREADS_SPINNING_MAX
<1>3. Placed(doing) /\ SetWakesAll
  BY <1>1 DEF Init, CVInit, Placed, SetWakesAll, InWait, Asleep
<1>4. QED
  BY <1>2, <1>3, SoundInitially DEF Init, EventInv

LEMMA EventStutters == EventInv /\ UNCHANGED vars => EventInv'
<1> SUFFICES ASSUME EventInv, UNCHANGED vars PROVE EventInv'
  OBVIOUS
<1>1. Sound'
  BY SoundStutters DEF EventInv, vars, cvVars
<1>2. TypeOK' /\ Placed(doing)' /\ SetWakesAll'
  BY DEF EventInv, vars, cvVars, TypeOK, CVTypeOK, Placed, SetWakesAll
<1>3. QED
  BY <1>1, <1>2 DEF EventInv

\* Each step of a thread keeps the invariant, being one of the condition variable.
LEMMA EventKeeps ==
  ASSUME EventInv, NEW t \in Threads, EventStep(t)
  PROVE  EventInv' /\ Moves(t)
<1> USE EventAssumption DEF EventInv
<1>1. Counted /\ CVTypeOK /\ trapped \in Nat
  BY DEF Sound, Counted, TypeOK
<1>2. ASSUME Moves(t), Sound' => CVTypeOK',
             set' \in {0, 1}, doing' \in [Threads -> {"wait", "set", "reset", "leave"}],
             calls' \in 0..MaxCalls, Placed(doing)', SetWakesAll'
      PROVE  EventInv' /\ Moves(t)
  BY <1>2, MovesKeepSound DEF TypeOK
<1>3. ASSUME NEW c \in WaitCalls, Wait(t, c) PROVE EventInv' /\ Moves(t)
  <2>1. c \in Calls /\ c.kind # "relock"
    BY <1>3 DEF WaitCalls
  <2>2. Asks(t) /\ UNCHANGED <<waiting, spinning>> /\ call' \in [Threads -> Calls \cup {NoCall}]
    BY <1>3, <1>1, <2>1 DEF Wait, Begin, Asks, word, CVTypeOK
  <2>3. Placed(doing)' /\ SetWakesAll'
    BY <1>3, <1>1, <2>1 DEF Wait, Begin, Goto, word, Placed, SetWakesAll, TypeOK, CVTypeOK, InWait, Asleep
  <2>4. set' = set /\ calls' = calls /\ doing' \in [Threads -> {"wait", "set", "reset", "leave"}]
    BY <1>3 DEF Wait, Begin, TypeOK
  <2>5. Moves(t)
    BY <2>2 DEF Moves
  <2>6. QED
    BY <1>1, <1>2, <2>2, <2>3, <2>4, <2>5, MovesKeepTypes DEF TypeOK
<1>4. ASSUME NEW what \in {"set", "reset", "leave"}, Call(t, what) PROVE EventInv' /\ Moves(t)
  <2>1. Asks(t) /\ UNCHANGED <<waiting, spinning>> /\ call' \in [Threads -> Calls \cup {NoCall}]
    BY <1>4, <1>1 DEF Call, Begin, Asks, word, CVTypeOK
  <2>2. Placed(doing)' /\ SetWakesAll'
    BY <1>4, <1>1 DEF Call, Begin, Goto, word, Placed, SetWakesAll, TypeOK, CVTypeOK, InWait, Asleep
  <2>3. set' = set /\ calls' \in 0..MaxCalls /\ doing' \in [Threads -> {"wait", "set", "reset", "leave"}]
    BY <1>4 DEF Call, Begin, TypeOK
  <2>4. Moves(t)
    BY <2>1 DEF Moves
  <2>5. QED
    BY <1>1, <1>2, <2>1, <2>2, <2>3, <2>4, MovesKeepTypes DEF TypeOK
<1>5. CASE Sleep(t)
  <2>1. Registers(t) /\ Register(t, call[t]) /\ call[t] \in Calls \cup {NoCall}
    BY <1>5, <1>1 DEF Sleep, Register, Registers, CVTypeOK
  <2>2. Placed(doing)' /\ SetWakesAll'
    BY <1>5, <1>1 DEF Sleep, Inside, Register, Goto, Placed, SetWakesAll, CVTypeOK, InWait, Asleep
  <2>3. Moves(t)
    BY <2>1 DEF Moves
  <2>4. QED
    BY <1>1, <1>2, <1>5, <2>1, <2>2, <2>3, MovesKeepTypes DEF Sleep, TypeOK
<1>6. CASE Return(t) \/ Reset(t) \/ Leave(t)
  <2>1. Leaves(t) /\ UNCHANGED <<waiting, spinning, call>>
    BY <1>6 DEF Return, Reset, Leave, Inside, End, Leaves, word
  <2>2. Placed(doing)' /\ SetWakesAll'
    BY <1>6, <1>1 DEF Return, Reset, Leave, Inside, End, Goto, word, Placed, SetWakesAll, CVTypeOK,
                      InWait, Asleep
  <2>3. set' \in {0, 1} /\ calls' = calls /\ doing' = doing
    BY <1>6 DEF Return, Reset, Leave, End, TypeOK
  <2>4. Moves(t)
    BY <2>1 DEF Moves
  <2>5. QED
    BY <1>1, <1>2, <2>1, <2>2, <2>3, <2>4, MovesKeepTypes DEF TypeOK
<1>7. CASE Set(t)
  <2>1. Signal(t, trapped) /\ CountToSignal(trapped) = trapped
    BY <1>7, <1>1 DEF Set, Broadcast, CountToSignal
  <2>2. Placed(doing)' /\ SetWakesAll'
    BY <1>7, <1>1, <2>1 DEF Set, Inside, Signal, Goto, Placed, SetWakesAll, TypeOK, CVTypeOK,
                            InWait, Asleep
  <2>3. set' = 1 /\ calls' = calls /\ doing' \in [Threads -> {"wait", "set", "reset", "leave"}]
    BY <1>7 DEF Set, TypeOK
  <2>4. Moves(t)
    BY <1>1, <2>1 DEF Moves
  <2>5. QED
    BY <1>1, <1>2, <2>1, <2>2, <2>3, <2>4, MovesKeepTypes DEF TypeOK
<1>8. CASE WaitStep(t) /\ Rest
  <2>1. Placed(doing)'
    <3>1. /\ t \in Threads /\ call' = call /\ doing' = doing
          /\ pc'[t] \in InWait \cup {"idle"} /\ pc[t] \in InWait
          /\ pc'[t] = "timedout" => pc[t] = "timedout" \/ call[t].kind \in {"relock", "abandon"}
          /\ \A u \in Threads \ {t} : pc'[u] = pc[u]
      BY <1>8, <1>1, WaitStepPlaces DEF Rest
    <3>2. doing[t] = "wait" /\ "release" \notin InWait \cup {"idle"}
      BY <3>1 DEF Placed, InWait, Asleep
    <3>3. QED
      BY <3>1, <3>2 DEF Placed
  <2>2. SetWakesAll'
    BY <1>8, <1>1, WaitStepPlaces, WaitStepEffect DEF Rest, SetWakesAll
  <2>3. Moves(t)
    BY <1>8 DEF Moves
  <2>4. QED
    BY <1>1, <1>2, <1>8, <2>1, <2>2, <2>3, MovesKeepTypes DEF Rest, TypeOK
<1>9. CASE Reacquire(t)
  <2>1. Placed(doing)' /\ SetWakesAll'
    BY <1>9, <1>1 DEF Reacquire, Acquire, Rest, Goto, word, Placed, SetWakesAll, CVTypeOK, InWait, Asleep
  <2>2. Moves(t)
    BY <1>9 DEF Reacquire, Moves
  <2>3. QED
    BY <1>1, <1>2, <1>9, <2>1, <2>2, MovesKeepTypes DEF Reacquire, Rest, TypeOK
<1>10. ASSUME NEW w \in Threads, Wake(t, w) PROVE EventInv' /\ Moves(t)
  <2>1. Placed(doing)' /\ SetWakesAll'
    BY <1>10, <1>1, ReleasePlaces DEF Wake, Rest, word, Placed, SetWakesAll, InWait, Asleep
  <2>2. Moves(t)
    BY <1>10 DEF Wake, Moves
  <2>3. QED
    BY <1>1, <1>2, <1>10, <2>1, <2>2, MovesKeepTypes DEF Wake, Rest, TypeOK
<1>11. QED
  BY <1>3, <1>4, <1>5, <1>6, <1>7, <1>8, <1>9, <1>10 DEF EventStep, Proceed

LEMMA EventInductive == Spec => []EventInv
<1>1. EventInv /\ [Next]_vars => EventInv'
  BY EventStutters, EventKeeps DEF Next, EventStep
<1>2. QED
  BY <1>1, EventInitially, PTL DEF Spec

\* The word of the condition variable and the event keep their types.
THEOREM TypeCorrect == Spec => []TypeOK
<1>1. EventInv => TypeOK
  BY DEF EventInv
<1>2. QED
  BY <1>1, EventInductive, PTL

\* An event that is set has cleared the waiting bit and left no counted sleeper:
\* nobody goes to sleep on it.
THEOREM SetLeavesNobody == Spec => []SetWakesAll
<1>1. EventInv => SetWakesAll
  BY DEF EventInv
<1>2. QED
  BY <1>1, EventInductive, PTL

\* Nobody counts on a wake-up from an event that is not to come, and who is in
\* the critical section of Event.cpp holds the mutex, also after a wait.
THEOREM EventSound == Spec => [](WakeupsConserved /\ InsideHoldsMutex)
<1>1. EventInv => WakeupsConserved /\ InsideHoldsMutex
  BY SoundHoldsMutex DEF EventInv, Sound
<1>2. QED
  BY <1>1, EventInductive, PTL

\* The mapping of Event gives AbstractEvent its "asking".
LEMMA AnswersAsked ==
  ASSUME NEW t \in Threads, NEW how,
         Answers(doing)' = [Answers(doing) EXCEPT ![t] = how], set' = set
  PROVE  /\ Answer(doing, t) = "no" => Abstract!Request(t, how)
         /\ Answer(doing, t) # "no" /\ how = "no" /\ set = 1 => Abstract!Return(t)
         /\ Answer(doing, t) = "deadline" /\ how = "no" => Abstract!GiveUp(t)
BY DEF Answers, Answer, Abstract!Request, Abstract!Answered, Abstract!Return, Abstract!GiveUp

LEMMA EventStepRefines ==
  ASSUME EventInv, NEW t \in Threads, EventStep(t)
  PROVE  [Abstract!Next]_(Abstract!vars)
<1>1. /\ CVTypeOK /\ Counted /\ Sound /\ pc \in [Threads -> Locations] /\ Placed(doing)
      /\ doing \in [Threads -> {"wait", "set", "reset", "leave"}]
      /\ call \in [Threads -> Calls \cup {NoCall}]
  BY DEF EventInv, TypeOK, CVTypeOK, Sound
<1>2. ASSUME \A u \in Threads : Answer(doing, u)' = Answer(doing, u)
      PROVE  /\ set' = set => [Abstract!Next]_(Abstract!vars)
             /\ set' \in {0, 1} => Abstract!Next
  BY <1>2 DEF Answer, Abstract!Next, Abstract!Assign, Abstract!vars
<1>3. ASSUME NEW how, \A u \in Threads \ {t} : Answer(doing, u)' = Answer(doing, u),
             how = Answer(doing, t)'
      PROVE  Answers(doing)' = [Answers(doing) EXCEPT ![t] = how]
  BY <1>3 DEF Answers
<1>4. ASSUME NEW c \in WaitCalls, Wait(t, c)
      PROVE  Abstract!Next
  <2>1. \A u \in Threads \ {t} : Answer(doing, u)' = Answer(doing, u)
    BY <1>1, <1>4 DEF Wait, Begin, Goto, Answer
  <2>2. Answer(doing, t) = "no" /\ Answer(doing, t)' \in {"deadline", "forever"} /\ set' = set
    BY <1>1, <1>4 DEF Wait, Begin, Goto, Answer
  <2>3. PICK how \in {"deadline", "forever"} : how = Answer(doing, t)'
    BY <2>2
  <2>4. Abstract!Request(t, how)
    BY <1>3, <2>1, <2>2, <2>3, AnswersAsked
  <2>5. QED
    BY <2>4 DEF Abstract!Next
<1>5. CASE Return(t)
  <2>1. \A u \in Threads \ {t} : Answer(doing, u)' = Answer(doing, u)
    BY <1>1, <1>5 DEF Return, End, Goto, Answer
  <2>2. Answer(doing, t) # "no" /\ "no" = Answer(doing, t)' /\ set = 1 /\ set' = set
    BY <1>1, <1>5 DEF Return, Inside, End, Goto, Answer
  <2>3. Abstract!Return(t)
    BY <1>3, <2>1, <2>2, AnswersAsked
  <2>4. QED
    BY <2>3 DEF Abstract!Next
<1>6. CASE Set(t) \/ Reset(t)
  <2>1. \A u \in Threads : Answer(doing, u)' = Answer(doing, u)
    BY <1>1, <1>6 DEF Set, Reset, Inside, End, Broadcast, Signal, Goto, Answer
  <2>2. set' \in {0, 1}
    BY <1>6 DEF Set, Reset
  <2>3. QED
    BY <1>2, <2>1, <2>2
<1>7. CASE Sleep(t) \/ Leave(t) \/ Reacquire(t)
           \/ \E what \in {"set", "reset", "leave"} : Call(t, what)
  <2>1. \A u \in Threads : Answer(doing, u)' = Answer(doing, u)
    BY <1>1, <1>7 DEF Sleep, Register, Leave, End, Inside, Reacquire, Acquire, Rest, Call, Begin,
                      Goto, Answer
  <2>2. set' = set
    BY <1>7 DEF Sleep, Leave, Reacquire, Rest, Call, Begin
  <2>3. QED
    BY <1>2, <2>1, <2>2
<1>8. ASSUME NEW w \in Threads, Wake(t, w)
      PROVE  [Abstract!Next]_(Abstract!vars)
  <2>1. \A u \in Threads : Answer(doing, u)' = Answer(doing, u)
    BY <1>1, <1>8, ReleasePlaces DEF Wake, Rest, Placed, Answer
  <2>2. QED
    BY <1>2, <1>8, <2>1 DEF Wake, Rest
<1>9. CASE WaitStep(t) /\ Rest
  <2>1. /\ call' = call /\ doing' = doing /\ set' = set
        /\ \A u \in Threads \ {t} : pc'[u] = pc[u]
        /\ pc[t] \in InWait
        /\ pc'[t] = "idle" => pc[t] = "timedout" /\ call[t].kind = "abandon"
    BY <1>1, <1>9, WaitStepPlaces DEF Rest
  <2>2. \A u \in Threads \ {t} : Answer(doing, u)' = Answer(doing, u)
    BY <2>1 DEF Answer
  <2>3. CASE pc'[t] = "idle"
    <3>1. Answer(doing, t) = "deadline" /\ "no" = Answer(doing, t)'
      BY <1>1, <2>1, <2>3 DEF Answer, Placed
    <3>2. Abstract!GiveUp(t)
      BY <1>3, <2>1, <2>2, <3>1, AnswersAsked
    <3>3. QED
      BY <3>2 DEF Abstract!Next
  <2>4. CASE pc'[t] # "idle"
    <3>1. Answer(doing, t)' = Answer(doing, t)
      BY <2>1, <2>4 DEF Answer, InWait, Asleep
    <3>2. QED
      BY <1>2, <2>1, <2>2, <3>1
  <2>5. QED
    BY <2>3, <2>4
<1>10. QED
  BY <1>4, <1>5, <1>6, <1>7, <1>8, <1>9 DEF EventStep, Proceed

\* The event is the abstract event: Wait returns only while the flag is set, or
\* after a deadline, and nothing but Set and Reset changes the flag.
THEOREM EventImplementsFlag == Spec => Abstract!Spec
<1>1. Init => Abstract!Init
  BY DEF Init, CVInit, Abstract!Init
<1>2. EventInv /\ [Next]_vars => [Abstract!Next]_(Abstract!vars)
  <2>1. UNCHANGED vars => UNCHANGED Abstract!vars
    BY DEF vars, cvVars, Abstract!vars
  <2>2. QED
    BY <2>1, EventStepRefines DEF Next, EventStep
<1>3. QED
  BY <1>1, <1>2, EventInductive, PTL DEF Spec, Abstract!Spec

-----------------------------------------------------------------------------
(* The semaphore                                                            *)

\* Posters under way post something, and not beyond the bound.
PostsBounded == /\ count + Total(posting) <= MaxCount
                /\ \A t \in Threads :
                     pc[t] \in {"lock", "in", "release"} /\ task[t] = "post" => posting[t] > 0

\* What NoLostPost says, also while only the waiting bit is set.
LookedAfter == trapped > 0 \/ waiting = 1 => count <= Cardinality(S!WillLook) + Total(owes)

\* The inductive invariant of a semaphore.
SemaphoreInv == S!TypeOK /\ Sound /\ Placed(task) /\ PostsBounded /\ LookedAfter

SemaphoreStep(t) == \/ \E c \in S!WaitCalls : S!Wait(t, c)
                    \/ \E n \in 1..MaxCount : S!Post(t, n)
                    \/ S!Proceed(t) \/ S!Reacquire(t)
                    \/ \E w \in Threads : S!Wake(t, w)

\* Counting is the same in every module.
LEMMA SameCounts ==
  /\ \A s : S!Cardinality(s) = Cardinality(s)
  /\ \A f : S!Total(f) = Total(f)
<1>1. \A s : S!IsFiniteSet(s) = IsFiniteSet(s)
  BY DEF S!IsFiniteSet, IsFiniteSet
<1>2. \A s : S!Cardinality(s) = Cardinality(s)
  BY <1>1 DEF S!Cardinality, Cardinality
<1>3. \A f : S!Total(f) = Total(f)
  BY <1>2 DEF S!Total, Total, S!Units, Units, S!UnitsOf, UnitsOf
<1>4. QED
  BY <1>2, <1>3

\* The condition variable of the semaphore is the one above.
LEMMA SemaphoreOnIt ==
  /\ S!CVInit <=> CVInit
  /\ S!CVTypeOK <=> CVTypeOK
  /\ S!CVTypeOK' <=> CVTypeOK'
  /\ S!WaitCalls = WaitCalls
  /\ \A t \in Threads : /\ S!WaitStep(t) <=> WaitStep(t)
                        /\ S!Acquire(t) <=> Acquire(t)
                        /\ \A c : S!Register(t, c) <=> Register(t, c)
                        /\ \A n : S!Signal(t, n) <=> Signal(t, n)
                        /\ \A w : S!Release(t, w) <=> Release(t, w)
<1> USE DEF S!Goto, Goto, S!word, word
<1>1. S!Calls = Calls /\ S!NoCall = NoCall /\ S!WaitCalls = WaitCalls
  BY DEF S!Calls, Calls, S!NoCall, NoCall, S!WaitCalls, WaitCalls
<1>2. S!InWait = InWait /\ S!Asleep = Asleep /\ S!Locations = Locations
  BY DEF S!InWait, S!Asleep, S!Locations, InWait, Asleep, Locations
<1>3. (S!CVInit <=> CVInit) /\ (S!CVTypeOK <=> CVTypeOK) /\ (S!CVTypeOK' <=> CVTypeOK')
  BY <1>1, <1>2 DEF S!CVInit, CVInit, S!CVTypeOK, CVTypeOK, S!THREADS_SPINNING_MAX, THREADS_SPINNING_MAX
<1>4. ASSUME NEW t \in Threads
      PROVE  /\ S!WaitStep(t) <=> WaitStep(t)
             /\ S!Acquire(t) <=> Acquire(t)
             /\ \A w : S!Release(t, w) <=> Release(t, w)
  BY DEF S!WaitStep, S!UnlockCallback, S!Signaled, S!SpinGiveUp, S!Trap, S!TimedOutLeave,
         S!TimedOutPoll, S!WaitTimeOut, S!AfterTimeOut, S!Acquire, S!Release, S!AfterSignal,
         WaitStep, UnlockCallback, Signaled, SpinGiveUp, Trap, TimedOutLeave,
         TimedOutPoll, WaitTimeOut, AfterTimeOut, Acquire, Release, AfterSignal
<1>5. ASSUME NEW t \in Threads
      PROVE  /\ \A c : S!Register(t, c) <=> Register(t, c)
             /\ \A n : S!Signal(t, n) <=> Signal(t, n)
  BY DEF S!Register, S!MaySpin, S!Signal, S!CountToSignal, S!THREADS_SPINNING_MAX,
         Register, MaySpin, Signal, CountToSignal, THREADS_SPINNING_MAX
<1>6. QED
  BY <1>1, <1>3, <1>4, <1>5

\* Threads that look at the count are no fewer when others join them, and one
\* fewer or more when one goes or comes.
LEMMA Lookers ==
  /\ IsFiniteSet(S!WillLook) /\ Cardinality(S!WillLook) \in Nat
  /\ \A t \in S!WillLook : Cardinality(S!WillLook \ {t}) = Cardinality(S!WillLook) - 1
  /\ \A t : t \notin S!WillLook => Cardinality(S!WillLook \cup {t}) = Cardinality(S!WillLook) + 1
<1>1. IsFiniteSet(S!WillLook)
  BY ConditionVariableAssumption, FS_Subset DEF S!WillLook
<1>2. QED
  BY <1>1, FS_CardinalityType, FS_AddElement, FS_RemoveElement

LEMMA MoreLookers ==
  ASSUME S!WillLook \subseteq S!WillLook'
  PROVE  Cardinality(S!WillLook) <= Cardinality(S!WillLook')
<1>1. IsFiniteSet(S!WillLook')
  BY ConditionVariableAssumption, FS_Subset DEF S!WillLook
<1>2. QED
  BY <1>1, FS_Subset

\* Steps that post, take and signal nothing leave the count looked after.
LEMMA StillLookedAfter ==
  ASSUME LookedAfter, S!WillLook \subseteq S!WillLook',
         count' = count, Total(owes) \in Nat, owes' = owes, count \in Nat,
         trapped' > 0 \/ waiting' = 1 => trapped > 0 \/ waiting = 1 \/ count = 0
  PROVE  LookedAfter'
<1>1. Cardinality(S!WillLook) <= Cardinality(S!WillLook')
  BY MoreLookers
<1>2. Cardinality(S!WillLook) \in Nat /\ Cardinality(S!WillLook') \in Nat
  BY ConditionVariableAssumption, FS_Subset, FS_CardinalityType DEF S!WillLook
<1>3. QED
  BY <1>1, <1>2 DEF LookedAfter

LEMMA SemaphoreInitially == S!Init => SemaphoreInv
<1> SUFFICES ASSUME S!Init PROVE SemaphoreInv
  OBVIOUS
<1>1. NoCall.kind = "forever" /\ CVInit
  BY SemaphoreOnIt DEF NoCall, S!Init
<1>2. CVTypeOK
  BY <1>1 DEF CVInit, CVTypeOK, Locations, THREADS_SPINNING_MAX
<1>3. S!TypeOK
  BY <1>2, SemaphoreOnIt, BoundsAssumption DEF S!Init, S!TypeOK
<1>4. Total(posting) = 0
  BY TotalOfZeros DEF S!Init
<1>5. Placed(task) /\ LookedAfter /\ PostsBounded
  BY <1>1, <1>4, BoundsAssumption
     DEF S!Init, CVInit, Placed, LookedAfter, PostsBounded, InWait, Asleep
<1>6. QED
  BY <1>1, <1>3, <1>5, SoundInitially DEF SemaphoreInv

LEMMA SemaphoreStutters == SemaphoreInv /\ UNCHANGED S!vars => SemaphoreInv'
<1> SUFFICES ASSUME SemaphoreInv, UNCHANGED S!vars PROVE SemaphoreInv'
  OBVIOUS
<1>1. UNCHANGED cvVars /\ UNCHANGED <<count, task, posting>>
  BY DEF S!vars, S!cvVars, cvVars
<1>2. Sound'
  BY <1>1, SoundStutters DEF SemaphoreInv, cvVars
<1>3. S!TypeOK' /\ Placed(task)' /\ PostsBounded' /\ LookedAfter'
  BY <1>1 DEF SemaphoreInv, cvVars, S!TypeOK, S!CVTypeOK, Placed, PostsBounded, LookedAfter,
              S!WillLook
<1>4. QED
  BY <1>2, <1>3 DEF SemaphoreInv

\* Each step of a thread keeps the invariant, being one of the condition variable.
LEMMA SemaphoreKeeps ==
  ASSUME SemaphoreInv, NEW t \in Threads, SemaphoreStep(t)
  PROVE  SemaphoreInv' /\ Moves(t)
<1> USE SemaphoreOnIt, BoundsAssumption DEF SemaphoreInv
<1>1. /\ Counted /\ CVTypeOK /\ trapped \in Nat /\ count \in Nat /\ Total(owes) \in Nat
      /\ pc \in [Threads -> Locations] /\ call \in [Threads -> Calls \cup {NoCall}]
      /\ task \in [Threads -> {"wait", "post", "leave"}] /\ posting \in [Threads -> 0..MaxCount]
      /\ waiting \in {0, 1}
  BY TotalType, ConditionVariableAssumption DEF Sound, Counted, S!TypeOK, CVTypeOK
<1>2. posting \in [Threads -> Nat] /\ Total(posting) \in Nat
  BY <1>1, TotalType, ConditionVariableAssumption
<1>3. ASSUME Moves(t), Sound' => CVTypeOK', count' \in 0..MaxCount,
             task' \in [Threads -> {"wait", "post", "leave"}],
             posting' \in [Threads -> 0..MaxCount], Placed(task)', PostsBounded', LookedAfter'
      PROVE  SemaphoreInv' /\ Moves(t)
  BY <1>3, MovesKeepSound DEF S!TypeOK
<1>4. ASSUME NEW c \in WaitCalls, S!Wait(t, c) PROVE SemaphoreInv' /\ Moves(t)
  <2>1. c \in Calls /\ c.kind # "relock"
    BY <1>4 DEF WaitCalls
  <2>2. /\ Asks(t) /\ UNCHANGED <<waiting, spinning, trapped, owes, count, posting>>
        /\ call' = [call EXCEPT ![t] = c] /\ task' = [task EXCEPT ![t] = "wait"]
        /\ pc[t] = "idle" /\ pc' = [pc EXCEPT ![t] = "lock"]
    BY <1>4 DEF S!Wait, S!Begin, Asks, S!Goto, Goto, S!word, word
  <2>3. Placed(task)' /\ PostsBounded'
    BY <1>1, <2>1, <2>2 DEF Placed, PostsBounded, InWait, Asleep
  <2>4. LookedAfter'
    <3>1. S!WillLook \subseteq S!WillLook'
      BY <1>1, <2>2 DEF S!WillLook
    <3>2. QED
      BY <1>1, <2>2, <3>1, StillLookedAfter
  <2>5. Moves(t) /\ call' \in [Threads -> Calls \cup {NoCall}]
    BY <1>1, <2>1, <2>2 DEF Moves
  <2>6. Sound' => CVTypeOK'
    BY <1>1, <2>2, <2>5, MovesKeepTypes
  <2>7. QED
    BY <1>1, <1>3, <2>2, <2>3, <2>4, <2>5, <2>6 DEF S!TypeOK
<1>5. ASSUME NEW n \in 1..MaxCount, S!Post(t, n) PROVE SemaphoreInv' /\ Moves(t)
  <2>1. /\ Asks(t) /\ UNCHANGED <<waiting, spinning, trapped, owes, count, call>>
        /\ posting' = [posting EXCEPT ![t] = n] /\ task' = [task EXCEPT ![t] = "post"]
        /\ pc[t] = "idle" /\ pc' = [pc EXCEPT ![t] = "lock"]
        /\ count + Total(posting) + n <= MaxCount
    BY <1>5, SameCounts DEF S!Post, S!Begin, Asks, S!Goto, Goto, S!word, word
  <2>2. /\ posting' \in [Threads -> Nat] /\ posting'[t] = n /\ posting[t] \in Nat
        /\ \A u \in Threads \ {t} : posting'[u] = posting[u]
    BY <1>2, <2>1
  <2>3. Total(posting') = Total(posting) - posting[t] + posting'[t]
    BY <1>2, <2>2, TotalChanges, ConditionVariableAssumption
  <2>4. count + Total(posting') <= MaxCount
    BY <1>1, <1>2, <2>1, <2>2, <2>3
  <2>5. Placed(task)'
    BY <1>1, <2>1 DEF Placed, InWait, Asleep
  <2>6. PostsBounded'
    BY <1>1, <2>1, <2>4 DEF PostsBounded
  <2>7. LookedAfter'
    <3>1. S!WillLook \subseteq S!WillLook'
      BY <1>1, <2>1 DEF S!WillLook
    <3>2. QED
      BY <1>1, <2>1, <3>1, StillLookedAfter
  <2>8. Sound' => CVTypeOK'
    BY <1>1, <2>1, MovesKeepTypes
  <2>9. QED
    BY <1>1, <1>3, <2>1, <2>5, <2>6, <2>7, <2>8 DEF S!TypeOK, Moves
<1>6. CASE S!Sleep(t)
  <2>1. Registers(t) /\ Register(t, call[t]) /\ call[t] \in Calls \cup {NoCall}
    BY <1>1, <1>6 DEF S!Sleep, Register, Registers
  <2>2. /\ UNCHANGED <<trapped, owes, count, posting, task>> /\ count = 0
        /\ pc[t] = "in" /\ task[t] = "wait" /\ call' = [call EXCEPT ![t] = call[t]]
        /\ \E to \in {"unlock", "unlockspin"} : pc' = [pc EXCEPT ![t] = to]
    BY <1>6 DEF S!Sleep, S!Inside, Register, Goto
  <2>3. Placed(task)' /\ PostsBounded'
    BY <1>1, <2>2 DEF Placed, PostsBounded, InWait, Asleep
  <2>4. LookedAfter'
    <3>1. Cardinality(S!WillLook') \in Nat
      BY ConditionVariableAssumption, FS_Subset, FS_CardinalityType DEF S!WillLook
    <3>2. QED
      BY <1>1, <2>2, <3>1 DEF LookedAfter
  <2>5. QED
    BY <1>1, <1>3, <2>1, <2>2, <2>3, <2>4, MovesKeepTypes DEF S!TypeOK, Moves
<1>7. CASE S!Take(t)
  <2>1. /\ Leaves(t) /\ UNCHANGED <<waiting, spinning, trapped, call, owes, task, posting>>
        /\ count > 0 /\ count' = count - 1
        /\ pc[t] = "in" /\ task[t] = "wait" /\ pc' = [pc EXCEPT ![t] = "idle"]
    BY <1>7 DEF S!Take, S!End, S!Inside, Leaves, S!Goto, Goto, S!word, word
  <2>2. Placed(task)' /\ PostsBounded'
    BY <1>1, <1>2, <2>1 DEF Placed, PostsBounded, InWait, Asleep
  <2>3. LookedAfter'
    <3>1. S!WillLook' = S!WillLook \ {t} /\ t \in S!WillLook
      BY <1>1, <2>1 DEF S!WillLook
    <3>2. Cardinality(S!WillLook') = Cardinality(S!WillLook) - 1 /\ Cardinality(S!WillLook) \in Nat
      BY <3>1, Lookers
    <3>3. QED
      BY <1>1, <2>1, <3>2 DEF LookedAfter
  <2>4. QED
    BY <1>1, <1>3, <2>1, <2>2, <2>3, MovesKeepTypes DEF S!TypeOK, Moves
<1>8. CASE S!Add(t)
  <2> DEFINE n == posting[t]
  <2>1. n \in Nat /\ n > 0
    BY <1>1, <1>8 DEF S!Add, S!Inside, PostsBounded
  <2>2. /\ Signal(t, n) /\ count' = count + n /\ waiting' = 0
        /\ posting' = [posting EXCEPT ![t] = 0] /\ task' = [task EXCEPT ![t] = "leave"]
        /\ trapped' = trapped - CountToSignal(n) /\ call' = call
        /\ pc[t] = "in" /\ task[t] = "post"
        /\ \E to \in {"release", "in"} : pc' = [pc EXCEPT ![t] = to]
    BY <1>8 DEF S!Add, S!Inside, Signal, Goto
  <2>3. /\ posting' \in [Threads -> Nat] /\ posting'[t] = 0
        /\ \A u \in Threads \ {t} : posting'[u] = posting[u]
    BY <1>2, <2>2
  <2>4. Total(posting') = Total(posting) - posting[t] + posting'[t] /\ Total(posting') \in Nat
    BY <1>2, <2>3, TotalChanges, TotalType, ConditionVariableAssumption
  <2>5. count' + Total(posting') = count + Total(posting)
    BY <1>1, <1>2, <2>1, <2>2, <2>3, <2>4
  <2>6. count' \in 0..MaxCount
    BY <1>1, <2>1, <2>2, <2>4, <2>5 DEF PostsBounded
  <2>7. Placed(task)' /\ PostsBounded'
    BY <1>1, <2>2, <2>5 DEF Placed, PostsBounded, InWait, Asleep
  <2>8. LookedAfter'
    <3>1. Total(owes') = Total(owes) + CountToSignal(n) /\ CountToSignal(n) \in Nat
      BY <1>1, <2>1, <2>2, SignalCounts, SignalsTrapped
    <3>2. trapped' > 0 => trapped > 0 /\ CountToSignal(n) = n
      BY <1>1, <2>1, <2>2 DEF CountToSignal
    <3>3. S!WillLook \subseteq S!WillLook'
      BY <1>1, <2>2 DEF S!WillLook
    <3>4. Cardinality(S!WillLook) <= Cardinality(S!WillLook')
      BY <3>3, MoreLookers
    <3>5. Cardinality(S!WillLook) \in Nat /\ Cardinality(S!WillLook') \in Nat
      BY ConditionVariableAssumption, FS_Subset, FS_CardinalityType DEF S!WillLook
    <3> HIDE DEF n
    <3>6. QED
      BY <1>1, <2>1, <2>2, <3>1, <3>2, <3>4, <3>5 DEF LookedAfter
  <2>9. Moves(t)
    BY <2>1, <2>2 DEF Moves
  <2>10. Sound' => CVTypeOK'
    BY <1>1, <2>1, <2>2, MovesKeepTypes
  <2>11. QED
    BY <1>1, <1>3, <2>2, <2>6, <2>7, <2>8, <2>9, <2>10
<1>9. CASE S!Leave(t)
  <2>1. /\ Leaves(t) /\ UNCHANGED <<waiting, spinning, trapped, call, owes, task, posting, count>>
        /\ pc[t] = "in" /\ task[t] = "leave" /\ pc' = [pc EXCEPT ![t] = "idle"]
    BY <1>9 DEF S!Leave, S!End, S!Inside, Leaves, S!Goto, Goto, S!word, word
  <2>2. Placed(task)' /\ PostsBounded'
    BY <1>1, <2>1 DEF Placed, PostsBounded, InWait, Asleep
  <2>3. LookedAfter'
    <3>1. S!WillLook \subseteq S!WillLook'
      BY <1>1, <2>1 DEF S!WillLook
    <3>2. QED
      BY <1>1, <2>1, <3>1, StillLookedAfter
  <2>4. QED
    BY <1>1, <1>3, <2>1, <2>2, <2>3, MovesKeepTypes DEF S!TypeOK, Moves
<1>10. CASE WaitStep(t) /\ S!Rest
  <2>1. /\ t \in Threads /\ call' = call /\ UNCHANGED <<count, task, posting>>
        /\ pc'[t] \in InWait \cup {"idle"} /\ pc[t] \in InWait
        /\ pc'[t] = "timedout" => pc[t] = "timedout" \/ call[t].kind \in {"relock", "abandon"}
        /\ pc'[t] = "idle" => pc[t] = "timedout"
        /\ \A u \in Threads \ {t} : pc'[u] = pc[u]
        /\ waiting' = waiting /\ owes' = owes
        /\ trapped' > trapped => waiting = 1
        /\ trapped' \in Nat
    BY <1>1, <1>10, WaitStepPlaces, WaitStepEffect DEF S!Rest
  <2>2. task[t] = "wait" /\ "release" \notin InWait \cup {"idle"}
        /\ "lock" \notin InWait \cup {"idle"} /\ "in" \notin InWait \cup {"idle"}
    BY <2>1 DEF Placed, InWait, Asleep
  <2>3. Placed(task)' /\ PostsBounded'
    BY <2>1, <2>2 DEF Placed, PostsBounded
  <2>4. S!WillLook \subseteq S!WillLook'
    <3>1. waiting = 0 /\ pc[t] \in {"unlock", "unlockspin", "spin", "trap"}
          => pc'[t] \in {"spin", "trap", "relock"}
      BY <1>1, <1>10 DEF WaitStep, UnlockCallback, Signaled, SpinGiveUp, Trap, TimedOutLeave,
                         TimedOutPoll, WaitTimeOut, Goto
    <3>2. pc[t] \notin {"lock", "relock", "in"}
      BY <1>1, <1>10 DEF WaitStep, UnlockCallback, Signaled, SpinGiveUp, Trap, TimedOutLeave,
                         TimedOutPoll, WaitTimeOut
    <3>3. QED
      BY <2>1, <2>2, <3>1, <3>2 DEF S!WillLook
  <2>5. LookedAfter'
    BY <1>1, <2>1, <2>4, StillLookedAfter
  <2>6. QED
    BY <1>1, <1>3, <1>10, <2>1, <2>3, <2>5, MovesKeepTypes DEF S!TypeOK, Moves
<1>11. CASE S!Reacquire(t)
  <2>1. /\ Acquire(t) /\ UNCHANGED <<waiting, spinning, trapped, call, owes, count, task, posting>>
        /\ pc[t] \in {"lock", "relock"} /\ pc' = [pc EXCEPT ![t] = "in"]
    BY <1>11 DEF S!Reacquire, S!Rest, Acquire, Goto, word
  <2>2. Placed(task)'
    BY <1>1, <2>1 DEF Placed, InWait, Asleep
  <2>3. PostsBounded'
    BY <1>1, <2>1 DEF Placed, PostsBounded, InWait, Asleep
  <2>4. LookedAfter'
    <3>1. S!WillLook \subseteq S!WillLook'
      BY <1>1, <2>1 DEF S!WillLook
    <3>2. QED
      BY <1>1, <2>1, <3>1, StillLookedAfter
  <2>5. QED
    BY <1>1, <1>3, <2>1, <2>2, <2>3, <2>4, MovesKeepTypes DEF S!TypeOK, Moves
<1>12. ASSUME NEW w \in Threads, S!Wake(t, w) PROVE SemaphoreInv' /\ Moves(t)
  <2>1. Release(t, w) /\ UNCHANGED <<count, task, posting>>
    BY <1>12 DEF S!Wake, S!Rest
  <2>2. /\ call' = call /\ waiting' = waiting /\ trapped' = trapped
        /\ t # w /\ pc[t] = "release" /\ pc[w] = "wait" /\ pc'[w] = "relock"
        /\ pc'[t] \in {"release", "in", "idle"}
        /\ \A u \in Threads \ {t, w} : pc'[u] = pc[u]
    BY <2>1, ReleasePlaces DEF word
  <2>3. task[t] # "wait" /\ task[w] = "wait"
    BY <2>2 DEF Placed, InWait, Asleep
  <2>4. Placed(task)'
    BY <2>1, <2>2, <2>3 DEF Placed, InWait, Asleep
  <2>5. PostsBounded'
    BY <2>1, <2>2, <2>3 DEF PostsBounded
  <2>6. LookedAfter'
    <3>1. S!WillLook' = S!WillLook \cup {w} /\ w \notin S!WillLook
      BY <1>1, <2>1, <2>2, <2>3 DEF S!WillLook
    <3>2. /\ Cardinality(S!WillLook') = Cardinality(S!WillLook) + 1
          /\ Cardinality(S!WillLook) \in Nat
      BY <3>1, Lookers
    <3>3. Total(owes') = Total(owes) - 1
      BY <2>1, ReleaseCounts
    <3>4. QED
      BY <1>1, <2>1, <2>2, <3>2, <3>3 DEF LookedAfter
  <2>7. QED
    BY <1>1, <1>3, <2>1, <2>4, <2>5, <2>6, MovesKeepTypes DEF S!TypeOK, Moves
<1>13. QED
  BY <1>4, <1>5, <1>6, <1>7, <1>8, <1>9, <1>10, <1>11, <1>12 DEF SemaphoreStep, S!Proceed

LEMMA SemaphoreInductive == S!Spec => []SemaphoreInv
<1>1. SemaphoreInv /\ [S!Next]_(S!vars) => SemaphoreInv'
  BY SemaphoreStutters, SemaphoreKeeps DEF S!Next, SemaphoreStep
<1>2. QED
  BY <1>1, SemaphoreInitially, PTL DEF S!Spec

\* The semaphore's count stays within what was posted, and its words keep their types.
THEOREM SemaphoreTypeCorrect == S!Spec => []S!TypeOK
<1>1. SemaphoreInv => S!TypeOK
  BY DEF SemaphoreInv
<1>2. QED
  BY <1>1, SemaphoreInductive, PTL

\* While counted sleepers are left, each posted unit has a waiter awake to take it
\* or a release on its way: Post never leaves one behind that nobody looks for.
THEOREM PostsAreLookedAfter == S!Spec => []S!NoLostPost
<1>1. SemaphoreInv => S!NoLostPost
  BY SameCounts DEF SemaphoreInv, LookedAfter, S!NoLostPost
<1>2. QED
  BY <1>1, SemaphoreInductive, PTL

LEMMA RepliesMove ==
  ASSUME NEW t \in Threads, NEW how,
         Answers(task)' = [Answers(task) EXCEPT ![t] = how]
  PROVE  /\ Answer(task, t) = "no" /\ count' = count => S!Abstract!Request(t, how)
         /\ Answer(task, t) # "no" /\ how = "no" /\ count > 0 /\ count' = count - 1
            => S!Abstract!Take(t)
         /\ Answer(task, t) = "deadline" /\ how = "no" /\ count' = count => S!Abstract!GiveUp(t)
BY DEF Answers, Answer, S!Abstract!Request, S!Abstract!Answered, S!Abstract!Take, S!Abstract!GiveUp

LEMMA SemaphoreStepRefines ==
  ASSUME SemaphoreInv, NEW t \in Threads, SemaphoreStep(t)
  PROVE  [S!Abstract!Next]_(S!Abstract!vars)
<1> USE SemaphoreOnIt DEF S!Goto, Goto, S!word, word
<1>1. /\ CVTypeOK /\ Counted /\ Sound /\ pc \in [Threads -> Locations] /\ Placed(task)
      /\ task \in [Threads -> {"wait", "post", "leave"}]
      /\ posting \in [Threads -> 0..MaxCount]
      /\ call \in [Threads -> Calls \cup {NoCall}]
  BY DEF SemaphoreInv, S!TypeOK, CVTypeOK, Sound
<1>2. ASSUME \A u \in Threads : Answer(task, u)' = Answer(task, u)
      PROVE  /\ count' = count => [S!Abstract!Next]_(S!Abstract!vars)
             /\ \A n \in 1..MaxCount : count' = count + n => S!Abstract!Next
  BY <1>2 DEF Answer, S!Abstract!Next, S!Abstract!Post, S!Abstract!vars
<1>3. ASSUME NEW how, \A u \in Threads \ {t} : Answer(task, u)' = Answer(task, u),
             how = Answer(task, t)'
      PROVE  Answers(task)' = [Answers(task) EXCEPT ![t] = how]
  BY <1>3 DEF Answers
<1>4. ASSUME NEW c \in WaitCalls, S!Wait(t, c)
      PROVE  S!Abstract!Next
  <2>1. \A u \in Threads \ {t} : Answer(task, u)' = Answer(task, u)
    BY <1>1, <1>4 DEF S!Wait, S!Begin, Answer
  <2>2. Answer(task, t) = "no" /\ Answer(task, t)' \in {"deadline", "forever"} /\ count' = count
    BY <1>1, <1>4 DEF S!Wait, S!Begin, Answer
  <2>3. PICK how \in {"deadline", "forever"} : how = Answer(task, t)'
    BY <2>2
  <2>4. S!Abstract!Request(t, how)
    BY <1>3, <2>1, <2>2, <2>3, RepliesMove
  <2>5. QED
    BY <2>4 DEF S!Abstract!Next
<1>5. CASE S!Take(t)
  <2>1. \A u \in Threads \ {t} : Answer(task, u)' = Answer(task, u)
    BY <1>1, <1>5 DEF S!Take, S!End, Answer
  <2>2. Answer(task, t) # "no" /\ "no" = Answer(task, t)' /\ count > 0 /\ count' = count - 1
    BY <1>1, <1>5 DEF S!Take, S!Inside, S!End, Answer
  <2>3. S!Abstract!Take(t)
    BY <1>3, <2>1, <2>2, RepliesMove
  <2>4. QED
    BY <2>3 DEF S!Abstract!Next
<1>6. CASE S!Add(t)
  <2>1. \A u \in Threads : Answer(task, u)' = Answer(task, u)
    BY <1>1, <1>6 DEF S!Add, S!Inside, Signal, Answer
  <2>2. posting[t] \in 1..MaxCount /\ count' = count + posting[t]
    BY <1>1, <1>6 DEF S!Add, S!Inside, SemaphoreInv, PostsBounded
  <2>3. QED
    BY <1>2, <2>1, <2>2
<1>7. CASE S!Sleep(t) \/ S!Leave(t) \/ S!Reacquire(t) \/ \E n \in 1..MaxCount : S!Post(t, n)
  <2>1. \A u \in Threads : Answer(task, u)' = Answer(task, u)
    BY <1>1, <1>7 DEF S!Sleep, Register, S!Leave, S!End, S!Inside, S!Reacquire, Acquire, S!Rest,
                      S!Post, S!Begin, Answer
  <2>2. count' = count
    BY <1>7 DEF S!Sleep, S!Leave, S!Reacquire, S!Rest, S!Post, S!Begin
  <2>3. QED
    BY <1>2, <2>1, <2>2
<1>8. ASSUME NEW w \in Threads, S!Wake(t, w)
      PROVE  [S!Abstract!Next]_(S!Abstract!vars)
  <2>1. Release(t, w)
    BY <1>8 DEF S!Wake
  <2>2. \A u \in Threads : Answer(task, u)' = Answer(task, u)
    BY <1>1, <1>8, <2>1, ReleasePlaces DEF S!Wake, S!Rest, Placed, Answer
  <2>3. QED
    BY <1>2, <1>8, <2>2 DEF S!Wake, S!Rest
<1>9. CASE WaitStep(t) /\ S!Rest
  <2>1. /\ call' = call /\ task' = task /\ count' = count
        /\ \A u \in Threads \ {t} : pc'[u] = pc[u]
        /\ pc[t] \in InWait
        /\ pc'[t] = "idle" => pc[t] = "timedout" /\ call[t].kind = "abandon"
    BY <1>1, <1>9, WaitStepPlaces DEF S!Rest
  <2>2. \A u \in Threads \ {t} : Answer(task, u)' = Answer(task, u)
    BY <2>1 DEF Answer
  <2>3. CASE pc'[t] = "idle"
    <3>1. Answer(task, t) = "deadline" /\ "no" = Answer(task, t)'
      BY <1>1, <2>1, <2>3 DEF Answer, Placed
    <3>2. S!Abstract!GiveUp(t)
      BY <1>3, <2>1, <2>2, <3>1, RepliesMove
    <3>3. QED
      BY <3>2 DEF S!Abstract!Next
  <2>4. CASE pc'[t] # "idle"
    <3>1. Answer(task, t)' = Answer(task, t)
      BY <2>1, <2>4 DEF Answer, InWait, Asleep
    <3>2. QED
      BY <1>2, <2>1, <2>2, <3>1
  <2>5. QED
    BY <2>3, <2>4
<1>10. QED
  BY <1>4, <1>5, <1>6, <1>7, <1>8, <1>9 DEF SemaphoreStep, S!Proceed

\* The semaphore is the abstract semaphore: a wait takes one of a positive count
\* or gives up after its deadline, and a post adds what it was asked to.
THEOREM SemaphoreImplementsCount == S!Spec => S!Abstract!Spec
<1>1. S!Init => S!Abstract!Init
  BY SemaphoreOnIt DEF S!Init, CVInit, S!Abstract!Init
<1>2. SemaphoreInv /\ [S!Next]_(S!vars) => [S!Abstract!Next]_(S!Abstract!vars)
  <2>1. UNCHANGED S!vars => UNCHANGED S!Abstract!vars
    BY DEF S!vars, S!cvVars, S!Abstract!vars
  <2>2. QED
    BY <2>1, SemaphoreStepRefines DEF S!Next, SemaphoreStep
<1>3. QED
  BY <1>1, <1>2, SemaphoreInductive, PTL DEF S!Spec, S!Abstract!Spec

-----------------------------------------------------------------------------
(* The monitor                                                              *)

\* The inductive invariant of a monitor: those told have not slept since, and
\* will find the bit clear.
MonitorInv == /\ M!TypeOK /\ Sound
              /\ told \subseteq M!AwakeInWait
              /\ told # {} => waiting = 0

MonitorStep(t) == \/ M!Enter(t) \/ M!Leave(t) \/ M!SignalFrom(t)
                  \/ \E c \in M!Calls : M!WaitIn(t, c)
                  \/ M!Proceed(t) \/ M!Reacquire(t)
                  \/ \E w \in Threads : M!Wake(t, w)

\* The condition variable of the monitor is the one above.
LEMMA MonitorOnIt ==
  /\ M!CVInit <=> CVInit
  /\ M!CVTypeOK <=> CVTypeOK
  /\ M!CVTypeOK' <=> CVTypeOK'
  /\ M!Calls = Calls
  /\ \A t \in Threads : /\ M!WaitStep(t) <=> WaitStep(t)
                        /\ M!Acquire(t) <=> Acquire(t)
                        /\ M!Broadcast(t) <=> Signal(t, trapped)
                        /\ \A c : M!Register(t, c) <=> Register(t, c)
                        /\ \A n : M!Signal(t, n) <=> Signal(t, n)
                        /\ \A w : M!Release(t, w) <=> Release(t, w)
<1> USE DEF M!Goto, Goto, M!word, word
<1>1. M!Calls = Calls /\ M!NoCall = NoCall
  BY DEF M!Calls, Calls, M!NoCall, NoCall
<1>2. M!InWait = InWait /\ M!Asleep = Asleep /\ M!Locations = Locations
  BY DEF M!InWait, M!Asleep, M!Locations, InWait, Asleep, Locations
<1>3. (M!CVInit <=> CVInit) /\ (M!CVTypeOK <=> CVTypeOK) /\ (M!CVTypeOK' <=> CVTypeOK')
  BY <1>1, <1>2 DEF M!CVInit, CVInit, M!CVTypeOK, CVTypeOK, M!THREADS_SPINNING_MAX, THREADS_SPINNING_MAX
<1>4. ASSUME NEW t \in Threads
      PROVE  /\ M!WaitStep(t) <=> WaitStep(t)
             /\ M!Acquire(t) <=> Acquire(t)
             /\ \A w : M!Release(t, w) <=> Release(t, w)
  BY DEF M!WaitStep, M!UnlockCallback, M!Signaled, M!SpinGiveUp, M!Trap, M!TimedOutLeave,
         M!TimedOutPoll, M!WaitTimeOut, M!AfterTimeOut, M!Acquire, M!Release, M!AfterSignal,
         WaitStep, UnlockCallback, Signaled, SpinGiveUp, Trap, TimedOutLeave,
         TimedOutPoll, WaitTimeOut, AfterTimeOut, Acquire, Release, AfterSignal
<1>5. ASSUME NEW t \in Threads
      PROVE  /\ M!Broadcast(t) <=> Signal(t, trapped)
             /\ \A c : M!Register(t, c) <=> Register(t, c)
             /\ \A n : M!Signal(t, n) <=> Signal(t, n)
  BY DEF M!Register, M!MaySpin, M!Broadcast, M!Signal, M!CountToSignal, M!THREADS_SPINNING_MAX,
         Register, MaySpin, Signal, CountToSignal, THREADS_SPINNING_MAX
<1>6. QED
  BY <1>1, <1>3, <1>4, <1>5

LEMMA MonitorInitially == M!Init => MonitorInv
<1> SUFFICES ASSUME M!Init PROVE MonitorInv
  OBVIOUS
<1>1. CVInit /\ told = {}
  BY MonitorOnIt DEF M!Init
<1>2. CVTypeOK
  BY <1>1 DEF CVInit, CVTypeOK, Locations, THREADS_SPINNING_MAX
<1>3. QED
  BY <1>1, <1>2, MonitorOnIt, SoundInitially DEF MonitorInv, M!TypeOK

LEMMA MonitorStutters == MonitorInv /\ UNCHANGED M!vars => MonitorInv'
<1> SUFFICES ASSUME MonitorInv, UNCHANGED M!vars PROVE MonitorInv'
  OBVIOUS
<1>1. UNCHANGED cvVars /\ told' = told
  BY DEF M!vars, M!cvVars, cvVars
<1>2. Sound'
  BY <1>1, SoundStutters DEF MonitorInv, cvVars
<1>3. QED
  BY <1>1, <1>2 DEF MonitorInv, cvVars, M!TypeOK, M!CVTypeOK, M!AwakeInWait

\* Each step of a thread keeps the invariant, being one of the condition variable.
LEMMA MonitorKeeps ==
  ASSUME MonitorInv, NEW t \in Threads, MonitorStep(t)
  PROVE  MonitorInv' /\ Moves(t)
<1> USE MonitorOnIt, BoundsAssumption DEF MonitorInv
<1>1. /\ Counted /\ CVTypeOK /\ trapped \in Nat /\ pc \in [Threads -> Locations]
      /\ call \in [Threads -> Calls \cup {NoCall}] /\ told \in SUBSET Threads
  BY DEF Sound, Counted, M!TypeOK, CVTypeOK
<1>2. ASSUME Moves(t), Sound' => CVTypeOK', told' \subseteq M!AwakeInWait',
             told' # {} => waiting' = 0
      PROVE  MonitorInv' /\ Moves(t)
  <2>1. M!AwakeInWait' \subseteq Threads
    BY DEF M!AwakeInWait
  <2>2. QED
    BY <1>2, <2>1, MovesKeepSound DEF M!TypeOK
<1>3. CASE M!Enter(t)
  <2>1. Asks(t) /\ UNCHANGED <<waiting, spinning, call, told>>
    BY <1>3 DEF M!Enter, M!Goto, M!word, Asks, Goto
  <2>2. told' \subseteq M!AwakeInWait'
    BY <1>1, <2>1 DEF Asks, Goto, M!AwakeInWait
  <2>3. QED
    BY <1>1, <1>2, <2>1, <2>2, MovesKeepTypes DEF Moves
<1>4. CASE M!Leave(t)
  <2>1. Leaves(t) /\ UNCHANGED <<waiting, spinning, call, told>>
    BY <1>4 DEF M!Leave, M!Goto, M!word, Leaves, Goto
  <2>2. told' \subseteq M!AwakeInWait'
    BY <1>1, <2>1 DEF Leaves, Goto, M!AwakeInWait
  <2>3. QED
    BY <1>1, <1>2, <2>1, <2>2, MovesKeepTypes DEF Moves
<1>5. CASE M!SignalFrom(t)
  <2>1. PICK n \in Nat : Signal(t, n)
    BY <1>1, <1>5 DEF M!SignalFrom
  <2>2. told' = told \cup M!AwakeInWait /\ waiting' = 0
        /\ \E to \in {"release", "in", "idle"} : pc' = [pc EXCEPT ![t] = to]
        /\ pc[t] \in {"in", "idle"}
    BY <1>5, <2>1 DEF M!SignalFrom, Signal, Goto
  <2>3. told' \subseteq M!AwakeInWait'
    BY <1>1, <2>2 DEF M!AwakeInWait
  <2>4. QED
    BY <1>1, <1>2, <2>1, <2>2, <2>3, MovesKeepTypes DEF Moves
<1>6. ASSUME NEW c \in Calls, M!WaitIn(t, c) PROVE MonitorInv' /\ Moves(t)
  <2>1. Register(t, c) /\ Registers(t) /\ told' = {}
    BY <1>6 DEF M!WaitIn, Register, Registers
  <2>2. QED
    BY <1>1, <1>2, <2>1, MovesKeepTypes DEF Moves
<1>7. CASE M!Proceed(t)
  <2>1. /\ WaitStep(t) /\ waiting' = waiting
        /\ told' = IF pc'[t] \in {"relock", "idle"} THEN told \ {t} ELSE told
        /\ \A u \in Threads \ {t} : pc'[u] = pc[u]
    BY <1>1, <1>7, WaitStepPlaces DEF M!Proceed
  <2>2. t \in told => pc'[t] \in {"spin", "trap", "relock"}
    BY <1>1, <2>1 DEF M!AwakeInWait, WaitStep, UnlockCallback, Signaled, SpinGiveUp, Trap,
                      TimedOutLeave, TimedOutPoll, WaitTimeOut, Goto
  <2>3. told' \subseteq M!AwakeInWait'
    BY <1>1, <2>1, <2>2 DEF M!AwakeInWait
  <2>4. QED
    BY <1>1, <1>2, <2>1, <2>3, MovesKeepTypes DEF Moves
<1>8. CASE M!Reacquire(t)
  <2>1. Acquire(t) /\ told' = told /\ waiting' = waiting
    BY <1>8 DEF M!Reacquire, Acquire, word
  <2>2. told' \subseteq M!AwakeInWait'
    BY <1>1, <2>1 DEF Acquire, Goto, M!AwakeInWait
  <2>3. QED
    BY <1>1, <1>2, <2>1, <2>2, MovesKeepTypes DEF Moves
<1>9. ASSUME NEW w \in Threads, M!Wake(t, w) PROVE MonitorInv' /\ Moves(t)
  <2>1. Release(t, w) /\ told' = told
    BY <1>9 DEF M!Wake
  <2>2. told' \subseteq M!AwakeInWait' /\ waiting' = waiting
    BY <1>1, <2>1, ReleasePlaces DEF M!AwakeInWait, word
  <2>3. QED
    BY <1>1, <1>2, <2>1, <2>2, MovesKeepTypes DEF Moves
<1>10. QED
  BY <1>3, <1>4, <1>5, <1>6, <1>7, <1>8, <1>9 DEF MonitorStep

LEMMA MonitorInductive == M!Spec => []MonitorInv
<1>1. MonitorInv /\ [M!Next]_(M!vars) => MonitorInv'
  BY MonitorStutters, MonitorKeeps DEF M!Next, MonitorStep
<1>2. QED
  BY <1>1, MonitorInitially, PTL DEF M!Spec

LEMMA ToldAwake == MonitorInv => M!ToldDoNotSleep
BY DEF MonitorInv, M!ToldDoNotSleep, M!AwakeInWait, M!Sleepers, M!Asleep

\* Whatever a program does, a waiter that was awake when a signal came does not go
\* to sleep, unless another wait begins before it looks.
THEOREM ToldStayAwake == M!Spec => []M!ToldDoNotSleep
BY MonitorInductive, ToldAwake, PTL

\* Whatever a program does, no signaler waits for a thread that has left, and waits
\* return with the mutex.
THEOREM MonitorSound == M!Spec => [](WakeupsConserved /\ InsideHoldsMutex)
<1>1. MonitorInv => WakeupsConserved /\ InsideHoldsMutex
  BY SoundHoldsMutex DEF MonitorInv, Sound
<1>2. QED
  BY <1>1, MonitorInductive, PTL

-----------------------------------------------------------------------------
(* Whichever program it is                                                  *)

\* An event that is not used.
NoEvent == set = 0 /\ doing = [t \in Threads |-> "leave"] /\ calls = 0

\* A semaphore that is not used.
NoSemaphore == /\ count = 0 /\ posting = [t \in Threads |-> 0]
               /\ task = [t \in Threads |-> "leave"]

\* The inductive invariant of all three.
RunInv == \/ program = "event" /\ EventInv /\ NoSemaphore /\ told = {}
          \/ program = "semaphore" /\ SemaphoreInv /\ NoEvent /\ told = {}
          \/ program = "monitor" /\ MonitorInv /\ NoEvent /\ NoSemaphore

LEMMA RunInitially == MCInit => RunInv
BY EventInitially, SemaphoreInitially, MonitorInitially
   DEF MCInit, Apart, RunInv, NoEvent, NoSemaphore

LEMMA RunKeeps ==
  ASSUME RunInv, MCNext
  PROVE  RunInv' /\ \E t \in Threads : Moves(t)
<1>1. CASE Next /\ IsEvent
  <2>1. EventInv /\ NoSemaphore /\ told = {}
    BY <1>1 DEF RunInv, IsEvent
  <2>2. PICK t \in Threads : EventStep(t)
    BY <1>1 DEF Next, EventStep
  <2>3. EventInv' /\ Moves(t)
    BY <2>1, <2>2, EventKeeps
  <2>4. QED
    BY <1>1, <2>1, <2>3 DEF RunInv, IsEvent, semaphoreVars, NoSemaphore
<1>2. CASE S!Next /\ IsSemaphore
  <2>1. SemaphoreInv /\ NoEvent /\ told = {}
    BY <1>2 DEF RunInv, IsSemaphore
  <2>2. PICK t \in Threads : SemaphoreStep(t)
    BY <1>2 DEF S!Next, SemaphoreStep
  <2>3. SemaphoreInv' /\ Moves(t)
    BY <2>1, <2>2, SemaphoreKeeps
  <2>4. QED
    BY <1>2, <2>1, <2>3 DEF RunInv, IsSemaphore, eventVars, NoEvent
<1>3. CASE M!Next /\ IsMonitor
  <2>1. MonitorInv /\ NoEvent /\ NoSemaphore
    BY <1>3 DEF RunInv, IsMonitor
  <2>2. PICK t \in Threads : MonitorStep(t)
    BY <1>3 DEF M!Next, MonitorStep
  <2>3. MonitorInv' /\ Moves(t)
    BY <2>1, <2>2, MonitorKeeps
  <2>4. QED
    BY <1>3, <2>1, <2>3 DEF RunInv, IsMonitor, eventVars, semaphoreVars, NoEvent, NoSemaphore
<1>4. QED
  BY <1>1, <1>2, <1>3 DEF MCNext

LEMMA RunStutters == RunInv /\ UNCHANGED allVars => RunInv'
<1> SUFFICES ASSUME RunInv, UNCHANGED allVars PROVE RunInv'
  OBVIOUS
<1>1. /\ UNCHANGED vars /\ UNCHANGED S!vars /\ UNCHANGED M!vars
      /\ UNCHANGED <<eventVars, semaphoreVars, told, program>>
  BY DEF allVars, cvVars, eventVars, semaphoreVars, vars, S!vars, S!cvVars, M!vars, M!cvVars
<1>2. (NoEvent => NoEvent') /\ (NoSemaphore => NoSemaphore')
  BY <1>1 DEF eventVars, semaphoreVars, NoEvent, NoSemaphore
<1>3. QED
  BY <1>1, <1>2, EventStutters, SemaphoreStutters, MonitorStutters DEF RunInv

LEMMA RunInductive == MCSpec => []RunInv
<1>1. RunInv /\ [MCNext]_allVars => RunInv'
  BY RunKeeps, RunStutters
<1>2. QED
  BY <1>1, RunInitially, PTL DEF MCSpec

LEMMA RunSafe == RunInv => Safety /\ SetWakesAll
<1> SUFFICES ASSUME RunInv PROVE Safety /\ SetWakesAll
  OBVIOUS
<1>1. CVTypeOK /\ Sound
  BY SemaphoreOnIt, MonitorOnIt DEF RunInv, EventInv, TypeOK, SemaphoreInv, S!TypeOK, MonitorInv, M!TypeOK
<1>2. WakeupsConserved /\ InsideHoldsMutex
  BY <1>1, SoundHoldsMutex DEF Sound
<1>3. NoEvent => SetWakesAll /\ set \in {0, 1} /\ calls \in 0..MaxCalls
               /\ doing \in [Threads -> {"wait", "set", "reset", "leave"}]
  BY EventAssumption DEF NoEvent, SetWakesAll
<1>4. TypeOK /\ SetWakesAll
  BY <1>1, <1>3 DEF RunInv, EventInv, TypeOK
<1>5. M!ToldDoNotSleep
  BY ToldAwake DEF RunInv, M!ToldDoNotSleep
<1>6. count = 0 => S!NoLostPost
  <2>1. Cardinality(S!WillLook) \in Nat /\ Total(owes) \in Nat
    BY <1>1, Lookers, TotalType, ConditionVariableAssumption DEF Sound, Counted
  <2>2. QED
    BY <2>1, SameCounts DEF S!NoLostPost
<1>7. S!NoLostPost
  BY <1>6, SameCounts DEF RunInv, NoSemaphore, SemaphoreInv, LookedAfter, S!NoLostPost
<1>8. QED
  BY <1>2, <1>4, <1>5, <1>7 DEF Safety

\* An event, a semaphore and every other program on one mutex and one condition
\* variable keep the counts of sleepers and of releases in balance, come back from
\* a wait with the mutex, leave nobody asleep who was told or whose event is set,
\* and no unit unseen.
THEOREM SafetyHolds == MCSpec => []Safety /\ []SetWakesAll
<1>1. RunInv => Safety /\ SetWakesAll
  BY RunSafe
<1>2. QED
  BY <1>1, RunInductive, PTL

\* All of them ask for the mutex while they do not have it and release it for the
\* thread that has, also in the callbacks of a wait: what MCF's mutex relies on.
THEOREM MutexIsUsedAsALock == MCSpec => UsesLock
<1>1. MCInit => M!Lock!Init
  BY SemaphoreOnIt, MonitorOnIt DEF MCInit, Init, S!Init, M!Init, CVInit, M!Lock!Init
<1>2. [Lock!Next]_(Lock!vars) => [M!Lock!Next]_(M!Lock!vars)
  BY DEF Lock!Next, Lock!Request, Lock!Acquire, Lock!GiveUp, Lock!Release, Lock!vars,
         M!Lock!Next, M!Lock!Request, M!Lock!Acquire, M!Lock!GiveUp, M!Lock!Release, M!Lock!vars
<1>3. RunInv => Sound
  BY DEF RunInv, EventInv, SemaphoreInv, MonitorInv
<1>4. UNCHANGED allVars => UNCHANGED M!Lock!vars
  BY DEF allVars, cvVars, M!Lock!vars
<1>5. RunInv /\ [MCNext]_allVars => [M!Lock!Next]_(M!Lock!vars)
  BY <1>2, <1>3, <1>4, RunKeeps, MovesUseLock
<1>6. QED
  BY <1>1, <1>5, RunInductive, PTL DEF MCSpec, UsesLock, M!UsesLock, M!Lock!Spec

=============================================================================
