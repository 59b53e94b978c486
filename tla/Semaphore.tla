------------------------------ MODULE Semaphore ------------------------------
(***************************************************************************)
(* MCF/src/Thread/Semaphore.cpp, on ConditionVariable.  Waiting is a loop  *)
(* that takes one from the count or waits for a signal; posting adds to    *)
(* the count and signals as many waiters.                                  *)
(***************************************************************************)
EXTENDS ConditionVariable

CONSTANTS MaxCount              \* bound on the count: callers post no further

VARIABLES count,      \* x_uCount
          doing,      \* what each thread is calling, or about to leave
          posting     \* uPostCount of each thread's Post

vars == <<cvVars, count, doing, posting>>

\* Wait() is "forever"; Wait(u64UntilFastMonoClock) uses WaitOrAbandon.
WaitCalls == {c \in Calls : c.kind # "relock"}

TypeOK == /\ CVTypeOK
          /\ count \in 0..MaxCount
          /\ doing \in [Threads -> {"wait", "post", "leave"}]
          /\ posting \in [Threads -> 0..MaxCount]

Init == /\ CVInit
        /\ count \in 0..MaxCount
        /\ doing = [t \in Threads |-> "leave"]
        /\ posting = [t \in Threads |-> 0]

\* Every operation begins with Mutex::UniqueLock vLock(x_mtxGuard).
Begin(t, what) == /\ pc[t] = "idle"
                  /\ doing' = [doing EXCEPT ![t] = what]
                  /\ Goto(t, "lock")
                  /\ UNCHANGED <<word, owes, holders, count>>

\* And ends with its destructor.
End(t) == /\ holders' = holders \ {t}
          /\ Goto(t, "idle")
          /\ UNCHANGED <<word, call, owes, doing, posting>>

Inside(t, what) == pc[t] = "in" /\ doing[t] = what

Wait(t, c) == Begin(t, "wait") /\ call' = [call EXCEPT ![t] = c] /\ UNCHANGED posting

Sleep(t) == /\ Inside(t, "wait")
            /\ count = 0
            /\ Register(t, call[t])
            /\ UNCHANGED <<count, doing, posting>>

Take(t) == /\ Inside(t, "wait")
           /\ count > 0
           /\ count' = count - 1
           /\ End(t)

Post(t, n) == /\ count + Total(posting) + n <= MaxCount
              /\ Begin(t, "post")
              /\ posting' = [posting EXCEPT ![t] = n]
              /\ UNCHANGED call

Add(t) == /\ Inside(t, "post")
          /\ count' = count + posting[t]
          /\ Signal(t, posting[t])
          /\ doing' = [doing EXCEPT ![t] = "leave"]
          /\ posting' = [posting EXCEPT ![t] = 0]

Leave(t) == Inside(t, "leave") /\ End(t) /\ UNCHANGED count

-----------------------------------------------------------------------------
Rest == UNCHANGED <<count, doing, posting>>

Proceed(t) == \/ WaitStep(t) /\ Rest
              \/ Sleep(t) \/ Take(t) \/ Add(t) \/ Leave(t)

Reacquire(t) == Acquire(t) /\ Rest
Wake(r, w)   == Release(r, w) /\ Rest

Next == \E t \in Threads :
          \/ \E c \in WaitCalls : Wait(t, c)
          \/ \E n \in 1..MaxCount : Post(t, n)
          \/ Proceed(t) \/ Reacquire(t)
          \/ \E w \in Threads : Wake(t, w)

Spec == Init /\ [][Next]_vars

\* Threads that can run do run and deadlines pass; a thread in
\* NtReleaseKeyedEvent is not passed over for ever; a free mutex is given to
\* one of those that ask for it, as Mutex guarantees, but not in turn.
Fairness == /\ \A t \in Threads : WF_vars(Proceed(t))
            /\ \A t \in Threads : SF_vars(\E w \in Threads : Wake(t, w))
            /\ WF_vars(\E t \in Threads : Reacquire(t))

FairSpec == Spec /\ Fairness

-----------------------------------------------------------------------------
\* Threads in Wait that will look at the count without another Post: those on
\* their way to the mutex, and those that will find the bit cleared.
WillLook == {t \in Threads :
               /\ doing[t] = "wait"
               /\ \/ pc[t] \in {"lock", "relock", "in"}
                  \/ waiting = 0 /\ pc[t] \in {"unlock", "unlockspin", "spin", "trap"}}

\* While counted sleepers are left, whatever has been posted is looked after:
\* there is a waiter awake, or a release on its way, for each unit.  So the
\* waiting bit, that a newcomer sets again while others have not noticed that
\* it was clear, costs the semaphore nothing.
NoLostPost == trapped > 0 => count <= Cardinality(WillLook) + Total(owes)

\* Nobody waits for ever while the count is positive, and every unit taken
\* was posted.
Abstract == INSTANCE AbstractSemaphore WITH
              asking <- [t \in Threads |->
                           IF doing[t] # "wait" \/ pc[t] = "idle" THEN "no"
                           ELSE IF call[t].kind = "forever" THEN "forever"
                           ELSE "deadline"]

ImplementsSemaphore == Abstract!FairSpec

=============================================================================
