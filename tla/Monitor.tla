------------------------------- MODULE Monitor -------------------------------
(***************************************************************************)
(* Any program on one mutex and one condition variable: threads enter and  *)
(* leave the critical section, wait in it, and signal in it or outside.    *)
(* It is the most general caller of ConditionVariable.                     *)
(***************************************************************************)
EXTENDS ConditionVariable

CONSTANTS MaxCountToSignal      \* largest count given to Signal

VARIABLES told     \* ghost: waiters that were not asleep yet when a signal came

vars == <<cvVars, told>>

AwakeInWait == {t \in Threads : pc[t] \in {"unlock", "unlockspin", "spin", "trap"}}

TypeOK == CVTypeOK /\ told \in SUBSET Threads

Init == CVInit /\ told = {}

Enter(t) == /\ pc[t] = "idle"
            /\ Goto(t, "lock")
            /\ UNCHANGED <<word, call, owes, holders, told>>

Leave(t) == /\ pc[t] = "in"
            /\ holders' = holders \ {t}
            /\ Goto(t, "idle")
            /\ UNCHANGED <<word, call, owes, told>>

\* A later waiter sets the bit again, and those told do not notice any more.
WaitIn(t, c) == Register(t, c) /\ told' = {}

SignalFrom(t) == /\ \/ Broadcast(t)
                    \/ \E n \in 0..MaxCountToSignal : Signal(t, n)
                 /\ told' = told \cup AwakeInWait

Proceed(t) == /\ WaitStep(t)
              /\ told' = IF pc'[t] \in {"relock", "idle"} THEN told \ {t} ELSE told

Reacquire(t) == Acquire(t) /\ UNCHANGED told

Wake(r, w) == Release(r, w) /\ UNCHANGED told

Next == \E t \in Threads :
          \/ Enter(t) \/ Leave(t) \/ SignalFrom(t)
          \/ \E c \in Calls : WaitIn(t, c)
          \/ Proceed(t) \/ Reacquire(t)
          \/ \E w \in Threads : Wake(t, w)

Spec == Init /\ [][Next]_vars

\* Threads that can run do run and deadlines pass; a thread in
\* NtReleaseKeyedEvent is not passed over for ever.  The mutex need not be
\* free ever again.
Fairness == \A t \in Threads :
              /\ WF_vars(Proceed(t))
              /\ SF_vars(\E w \in Threads : Wake(t, w))

FairSpec == Spec /\ Fairness

-----------------------------------------------------------------------------
\* A waiter that was still awake when a signal came returns; it goes to sleep
\* only if another thread starts to wait in between.  (Event and Semaphore
\* show that for them this exception does no harm.)
ToldDoNotSleep == told \cap Sleepers = {}

\* A signal returns, also one sent with the mutex held.
SignalReturns == \A t \in Threads : pc[t] = "release" ~> pc[t] # "release"

\* The mutex is used as AbstractLock wants it: asked for by threads that do
\* not have it, released for the thread that has it.
UsesLock == Lock!Spec

=============================================================================
