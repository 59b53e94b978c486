------------------------------ MODULE MCWaiters ------------------------------
(***************************************************************************)
(* One mutex and one condition variable, in the hands of one of three      *)
(* programs: an Event, a Semaphore, or anything that a Monitor may do.     *)
(* TLC explores the three of them in one run.                              *)
(***************************************************************************)
EXTENDS Event

CONSTANTS t1, t2, t3,
          MaxCount, MaxCountToSignal    \* the bounds of Semaphore and Monitor

ASSUME BoundsAssumption == MaxCount \in Nat /\ MaxCountToSignal \in Nat

VARIABLES program,                      \* which of the three it is, for good
          count, posting, task,         \* those of Semaphore; task is its "doing"
          told                          \* that of Monitor

Three  == {t1, t2, t3}
Either == BOOLEAN

semaphoreVars == <<count, posting, task>>
eventVars     == <<set, doing, calls>>

allVars == <<cvVars, eventVars, semaphoreVars, told, program>>

S == INSTANCE Semaphore WITH doing <- task
M == INSTANCE Monitor

Apart == told = {} /\ count = 0 /\ posting = [t \in Threads |-> 0]
         /\ task = [t \in Threads |-> "leave"]

MCInit == \/ program = "event" /\ Init /\ Apart
          \/ /\ program = "semaphore" /\ S!Init /\ told = {}
             /\ set = 0 /\ doing = [t \in Threads |-> "leave"] /\ calls = 0
          \/ /\ program = "monitor" /\ M!Init
             /\ count = 0 /\ posting = [t \in Threads |-> 0]
             /\ task = [t \in Threads |-> "leave"]
             /\ set = 0 /\ doing = [t \in Threads |-> "leave"] /\ calls = 0

\* Bound: some threads ask to spin whenever they wait, others never.
Spinning(those) == \A t \in Threads : call'[t] # call[t] => call'[t].spin = (t \in those)

IsEvent     == program = "event" /\ Spinning({}) /\ UNCHANGED <<program, semaphoreVars, told>>
IsSemaphore == program = "semaphore" /\ Spinning({}) /\ UNCHANGED <<program, eventVars, told>>
IsMonitor   == program = "monitor" /\ Spinning({t1, t2}) /\ UNCHANGED <<program, eventVars, semaphoreVars>>

MCNext == \/ Next /\ IsEvent
          \/ S!Next /\ IsSemaphore
          \/ M!Next /\ IsMonitor

MCProceed(t)   == \/ Proceed(t) /\ IsEvent
                  \/ S!Proceed(t) /\ IsSemaphore
                  \/ M!Proceed(t) /\ IsMonitor
MCWake(t)      == \E w \in Threads : \/ Wake(t, w) /\ IsEvent
                                     \/ S!Wake(t, w) /\ IsSemaphore
                                     \/ M!Wake(t, w) /\ IsMonitor
MCReacquire(t) == \/ Reacquire(t) /\ IsEvent
                  \/ S!Reacquire(t) /\ IsSemaphore

\* The fairness of each of them.  A monitor need not ever be left.
MCSpec == /\ MCInit /\ [][MCNext]_allVars
          /\ \A t \in Threads : WF_allVars(MCProceed(t)) /\ SF_allVars(MCWake(t))
          /\ WF_allVars(\E t \in Threads : MCReacquire(t))

-----------------------------------------------------------------------------
(* The variables of a program that is not running keep their first values,  *)
(* for which its properties hold.                                           *)

\* What holds in every state, of one of the programs or of all: the words and
\* wake-ups of the condition variable are right, waits return with the mutex,
\* a waiter that was awake when a signal came returns unless it is overtaken,
\* and units posted to the semaphore are looked after while sleepers are left.
Safety == /\ TypeOK /\ WakeupsConserved /\ InsideHoldsMutex
          /\ M!ToldDoNotSleep
          /\ S!NoLostPost

\* Wait takes what Post gave, and leaves nobody behind.
ImplementsSemaphore == S!ImplementsSemaphore

\* A signal returns, also one that is sent with the mutex held.
SignalReturns == M!SignalReturns

\* The mutex is asked for by who does not have it, and released for who has.
UsesLock == M!UsesLock

=============================================================================
