------------------------------ MODULE OnceFlag ------------------------------
(***************************************************************************)
(* MCFCRT/src/env/once_flag.c: one-time initialization in one machine      *)
(* word, used for static locals (the C++ ABI's guards), call_once and      *)
(* MCF::OnceFlag.  The word holds a locked bit, a finished byte and the    *)
(* number of trapped threads that have not been promised a wake-up.        *)
(*                                                                         *)
(* The keyed event is as in Mutex, a little coarser: a waiter and a thread *)
(* that still owes releases meet in one step, and a timed wait may time    *)
(* out whenever it has not been met.                                       *)
(***************************************************************************)
EXTENDS Integers, FiniteSets, Totals

CONSTANTS Threads               \* the threads that use the flag

ASSUME OnceAssumption == IsFiniteSet(Threads)

VARIABLES locked,     \* MASK_LOCKED, 0 or 1
          finished,   \* MASK_FINISHED, 0 or 1
          trapped,    \* MASK_THREADS_TRAPPED, as a count
          pc,         \* where each thread is
          call,       \* which wait each thread is in
          old,        \* uOld of each thread's first try: its trapped count
          owes,       \* releases of the keyed event a signaler has still to do
          running     \* ghost: threads told to initialize that have not signaled

word == <<locked, finished, trapped>>
vars == <<locked, finished, trapped, pc, call, old, owes, running>>

\* A wait with deadline zero, with a later one, or with none.
Calls == {"try", "timed", "forever"}

Asking == {"load", "exchange", "enter", "wait", "timedout"}
Sleepers == {t \in Threads : pc[t] \in {"wait", "timedout"}}

TypeOK == /\ locked \in {0, 1}
          /\ finished \in {0, 1}
          /\ trapped \in Nat
          /\ pc \in [Threads -> {"idle", "release"} \cup Asking]
          /\ call \in [Threads -> Calls]
          /\ old \in [Threads -> Nat]
          /\ owes \in [Threads -> Nat]
          /\ running \in SUBSET Threads

Init == /\ locked = 0
        /\ finished = 0
        /\ trapped = 0
        /\ pc = [t \in Threads |-> "idle"]
        /\ call = [t \in Threads |-> "try"]
        /\ old = [t \in Threads |-> 0]
        /\ owes = [t \in Threads |-> 0]
        /\ running = {}

Goto(t, to) == pc' = [pc EXCEPT ![t] = to]

-----------------------------------------------------------------------------
(* _MCFCRT_WaitForOnceFlag and _MCFCRT_WaitForOnceFlagForever               *)

Wait(t, c) == /\ pc[t] = "idle"
              /\ t \notin running
              /\ call' = [call EXCEPT ![t] = c]
              /\ Goto(t, "load")
              /\ UNCHANGED <<word, old, owes, running>>

\* _MCFCRT_kOnceResultInitial: t is to run the initializer.
Initial(t) == /\ locked' = 1
              /\ running' = running \cup {t}
              /\ Goto(t, "idle")
              /\ UNCHANGED <<finished, trapped, call, old, owes>>

\* _MCFCRT_kOnceResultFinished
Finished(t) == /\ finished = 1
               /\ Goto(t, "idle")
               /\ UNCHANGED <<word, call, old, owes, running>>

\* The first try failed: a wait without a deadline in the future ends here.
TryFailed(t) == /\ Goto(t, IF call[t] = "try" THEN "idle" ELSE "enter")
                /\ UNCHANGED <<word, call, old, owes, running>>

TryFinished(t) == pc[t] = "load" /\ Finished(t)

TryLocked(t) == /\ pc[t] = "load"
                /\ finished = 0
                /\ locked = 1
                /\ TryFailed(t)

TryLoad(t) == /\ pc[t] = "load"
              /\ finished = 0
              /\ locked = 0
              /\ old' = [old EXCEPT ![t] = trapped]
              /\ Goto(t, "exchange")
              /\ UNCHANGED <<word, call, owes, running>>

\* The only exchange that is not repeated when it fails.
Unchanged(t) == finished = 0 /\ locked = 0 /\ trapped = old[t]

\* Mutation: the bit is set without comparing the word with the one loaded.
TryExchangeBlindly(t) == pc[t] = "exchange" /\ Initial(t)

TryExchange(t) == pc[t] = "exchange" /\ Unchanged(t) /\ Initial(t)

TryExchangeFails(t) == pc[t] = "exchange" /\ ~Unchanged(t) /\ TryFailed(t)

EnterFinished(t) == pc[t] = "enter" /\ Finished(t)

\* Mutation: a thread woken by the signal of a finished run initializes again.
EnterTakeFinished(t) == pc[t] = "enter" /\ locked = 0 /\ Initial(t)

EnterTake(t) == pc[t] = "enter" /\ finished = 0 /\ locked = 0 /\ Initial(t)

EnterTrap(t) == /\ pc[t] = "enter"
                /\ finished = 0
                /\ locked = 1
                /\ trapped' = trapped + 1
                /\ Goto(t, "wait")
                /\ UNCHANGED <<locked, finished, call, old, owes, running>>

-----------------------------------------------------------------------------
(* The deadline passed                                                      *)

TimedOutLeave(t) == /\ pc[t] = "timedout"
                    /\ trapped > 0
                    /\ trapped' = trapped - 1
                    /\ Goto(t, "idle")
                    /\ UNCHANGED <<locked, finished, call, old, owes, running>>

\* A release is on its way: poll for it.
TimedOutPoll(t) == /\ pc[t] = "timedout"
                   /\ trapped = 0
                   /\ Goto(t, "wait")
                   /\ UNCHANGED <<word, call, old, owes, running>>

-----------------------------------------------------------------------------
(* _MCFCRT_SignalOnceFlagAsFinished and _MCFCRT_SignalOnceFlagAsAborted     *)

\* Mutation: only one of the trapped threads is told that the run finished.
CountToSignalOne(fin) == IF trapped > 1 THEN 1 ELSE trapped

\* Everybody after a run that finished, one after a run that was aborted.
CountToSignal(fin) == IF fin = 1 \/ trapped <= 1 THEN trapped ELSE 1

Signal(t, fin) == /\ pc[t] = "idle"
                  /\ t \in running
                  /\ running' = running \ {t}
                  /\ locked' = 0
                  /\ finished' = fin
                  /\ trapped' = trapped - CountToSignal(fin)
                  /\ owes' = [owes EXCEPT ![t] = CountToSignal(fin)]
                  /\ Goto(t, IF CountToSignal(fin) > 0 THEN "release" ELSE "idle")
                  /\ UNCHANGED <<call, old>>

-----------------------------------------------------------------------------
(* The keyed event                                                          *)

Release(r, w) == /\ pc[r] = "release"
                 /\ pc[w] = "wait"
                 /\ owes' = [owes EXCEPT ![r] = @ - 1]
                 /\ pc' = [pc EXCEPT ![w] = "enter",
                                     ![r] = IF owes[r] = 1 THEN "idle" ELSE "release"]
                 /\ UNCHANGED <<word, call, old, running>>

WaitTimeOut(t) == /\ pc[t] = "wait"
                  /\ call[t] = "timed"
                  /\ Goto(t, "timedout")
                  /\ UNCHANGED <<word, call, old, owes, running>>

-----------------------------------------------------------------------------
Step(t) == \/ TryFinished(t) \/ TryLocked(t) \/ TryLoad(t)
           \/ TryExchange(t) \/ TryExchangeFails(t)
           \/ EnterFinished(t) \/ EnterTake(t) \/ EnterTrap(t)
           \/ TimedOutLeave(t) \/ TimedOutPoll(t) \/ WaitTimeOut(t)

Next == \E t \in Threads :
          \/ \E c \in Calls : Wait(t, c)
          \/ \E fin \in {0, 1} : Signal(t, fin)
          \/ \E w \in Threads : Release(t, w)
          \/ Step(t)

Spec == Init /\ [][Next]_vars

\* Threads that can run do run and deadlines pass; a thread in
\* NtReleaseKeyedEvent is not passed over for ever.  Initializers need not
\* end.
Fairness == \A t \in Threads :
              /\ WF_vars(Step(t))
              /\ SF_vars(\E w \in Threads : Release(t, w))

FairSpec == Spec /\ Fairness

-----------------------------------------------------------------------------
(* Properties                                                               *)

\* One thread at a time runs the initializer, the bit says whether one does,
\* and none does after a run that finished: the two assertions of
\* RealSetAndSignalOnceFlag hold.
OneInitializer == /\ \A s, t \in running : s = t
                  /\ locked = 1 <=> running # {}
                  /\ finished = 1 => running = {}

\* Counted threads and promised releases balance, so no signaler waits in
\* the kernel for a thread that timed out and left.
WakeupsConserved ==
    trapped + Total(owes) = Cardinality(Sleepers)

\* When nobody runs the initializer, trapped threads are still going to be
\* woken: by a release under way, or by a woken thread that will take its
\* turn; after a finished run none is left behind.
NoLostWakeup == /\ finished = 1 => trapped = 0
                /\ (locked = 0 /\ trapped > 0) =>
                      \E t \in Threads : pc[t] \in {"enter", "release"}

\* What holds in every state.
Safety == TypeOK /\ OneInitializer /\ WakeupsConserved /\ NoLostWakeup

\* A signal returns.
SignalReturns == \A t \in Threads : pc[t] = "release" ~> pc[t] # "release"

\* Whoever waits when a run has finished is told so, without a deadline too.
FinishReachesAll == \A t \in Threads :
                      (finished = 1 /\ pc[t] \in Asking) ~> pc[t] \notin Asking

\* Every wait and every signal goes on as far as the initializers allow.
Progress == SignalReturns /\ FinishReachesAll

\* The word and the keyed event implement what callers are promised.
Once == INSTANCE AbstractOnce WITH
          asking <- [t \in Threads |-> IF pc[t] \notin Asking THEN "no"
                                       ELSE IF call[t] = "forever" THEN "forever"
                                       ELSE "deadline"],
          done <- finished = 1

ImplementsOnce == Once!FairSpec

=============================================================================
