-------------------------------- MODULE Event --------------------------------
(***************************************************************************)
(* MCF/src/Thread/Event.cpp, on ConditionVariable: a flag under a mutex,   *)
(* broadcast when it is set.                                               *)
(***************************************************************************)
EXTENDS ConditionVariable

CONSTANTS MaxCalls              \* bound on the calls of Set, Reset and IsSet

ASSUME EventAssumption == MaxCalls \in Nat

VARIABLES set,        \* x_bSet, 0 or 1
          doing,      \* what each thread is calling, or about to leave
          calls       \* number of calls of Set, Reset and IsSet so far

vars == <<cvVars, set, doing, calls>>

\* Wait() is "forever"; Wait(u64UntilFastMonoClock) uses WaitOrAbandon.
WaitCalls == {c \in Calls : c.kind # "relock"}

TypeOK == /\ CVTypeOK
          /\ set \in {0, 1}
          /\ doing \in [Threads -> {"wait", "set", "reset", "leave"}]
          /\ calls \in 0..MaxCalls

Init == /\ CVInit
        /\ set \in {0, 1}
        /\ doing = [t \in Threads |-> "leave"]
        /\ calls = 0

\* Every operation begins with Mutex::UniqueLock vLock(x_mtxGuard).
Begin(t, what) == /\ pc[t] = "idle"
                  /\ doing' = [doing EXCEPT ![t] = what]
                  /\ Goto(t, "lock")
                  /\ UNCHANGED <<word, owes, holders, set>>

\* And ends with its destructor.
End(t) == /\ holders' = holders \ {t}
          /\ Goto(t, "idle")
          /\ UNCHANGED <<word, call, owes, doing, calls>>

Inside(t, what) == pc[t] = "in" /\ doing[t] = what

Wait(t, c) == /\ Begin(t, "wait")
              /\ call' = [call EXCEPT ![t] = c]
              /\ UNCHANGED calls

Sleep(t) == /\ Inside(t, "wait")
            /\ set = 0
            /\ Register(t, call[t])
            /\ UNCHANGED <<set, doing, calls>>

\* Mutation: a thread that was woken does not look at the flag again.
ReturnBlindly(t) == /\ Inside(t, "wait")
                    /\ set = 1 \/ waiting = 0
                    /\ End(t)
                    /\ UNCHANGED set

Return(t) == Inside(t, "wait") /\ set = 1 /\ End(t) /\ UNCHANGED set

Call(t, what) == /\ calls < MaxCalls
                 /\ Begin(t, what)
                 /\ calls' = calls + 1
                 /\ UNCHANGED call

\* Mutation: one waiter is signaled only.
SetSignalOne(t) == /\ Inside(t, "set")
                   /\ set' = 1
                   /\ Signal(t, 1)
                   /\ doing' = [doing EXCEPT ![t] = "leave"]
                   /\ UNCHANGED calls

Set(t) == /\ Inside(t, "set")
          /\ set' = 1
          /\ Broadcast(t)
          /\ doing' = [doing EXCEPT ![t] = "leave"]
          /\ UNCHANGED calls

Reset(t) == Inside(t, "reset") /\ End(t) /\ set' = 0

\* IsSet, and the end of Set.
Leave(t) == Inside(t, "leave") /\ End(t) /\ UNCHANGED set

-----------------------------------------------------------------------------
Rest == UNCHANGED <<set, doing, calls>>

Proceed(t) == \/ WaitStep(t) /\ Rest
              \/ Sleep(t) \/ Return(t) \/ Set(t) \/ Reset(t) \/ Leave(t)

Reacquire(t) == Acquire(t) /\ Rest
Wake(r, w)   == Release(r, w) /\ Rest

Next == \E t \in Threads :
          \/ \E c \in WaitCalls : Wait(t, c)
          \/ \E what \in {"set", "reset", "leave"} : Call(t, what)
          \/ Proceed(t) \/ Reacquire(t)
          \/ \E w \in Threads : Wake(t, w)

Spec == Init /\ [][Next]_vars

\* Threads that can run do run and deadlines pass; a thread in
\* NtReleaseKeyedEvent is not passed over for ever; a free mutex is given to
\* one of those that ask for it, as Mutex guarantees, but not in turn.
Fairness == /\ \A t \in Threads : WF_vars(Proceed(t))
            /\ \A t \in Threads : SF_vars(\E w \in Threads : Wake(t, w))
            /\ WF_vars(\E t \in Threads : Reacquire(t))

FairSpec == Spec /\ Fairness

-----------------------------------------------------------------------------
\* While the event is set the waiting bit is clear and no sleeper is left
\* counted: whoever slept has been promised a release, and whoever was about
\* to sleep will find the bit clear.
SetWakesAll == set = 1 => waiting = 0 /\ trapped = 0

\* Waiters return only while the event is set, and while it stays so none of
\* them is left behind.
Abstract == INSTANCE AbstractEvent WITH
              asking <- [t \in Threads |->
                           IF doing[t] # "wait" \/ pc[t] = "idle" THEN "no"
                           ELSE IF call[t].kind = "forever" THEN "forever"
                           ELSE "deadline"]

ImplementsEvent == Abstract!FairSpec

=============================================================================
