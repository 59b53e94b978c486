----------------------- MODULE AbstractRecursiveLock -----------------------
(***************************************************************************)
(* What a recursive lock promises: only one thread is inside at a time, as *)
(* often as it likes; a wait on a condition variable leaves it altogether  *)
(* and returns as deep as it was.                                          *)
(***************************************************************************)
EXTENDS Naturals

CONSTANTS Threads    \* the threads that use the lock

VARIABLES role,      \* what each thread is doing: nothing, locking, asleep, returning
          depth      \* how often each thread has locked and not unlocked

vars == <<role, depth>>

Away(t) == role[t] \in {"asleep", "back"}
Inside  == {t \in Threads : depth[t] > 0 /\ ~Away(t)}

Init == /\ role = [t \in Threads |-> "out"]
        /\ depth = [t \in Threads |-> 0]

Become(t, from, to) == role[t] = from /\ role' = [role EXCEPT ![t] = to]

Request(t) == Become(t, "out", "asking") /\ UNCHANGED depth

Acquire(t) == /\ Become(t, "asking", "out")
              /\ Inside \subseteq {t}
              /\ depth' = [depth EXCEPT ![t] = @ + 1]

\* A deadline passes; it never does for a thread that is inside already.
GiveUp(t) == Become(t, "asking", "out") /\ t \notin Inside /\ UNCHANGED depth

Release(t) == /\ role[t] = "out" /\ depth[t] > 0
              /\ depth' = [depth EXCEPT ![t] = @ - 1]
              /\ UNCHANGED role

Suspend(t) == Become(t, "out", "asleep") /\ depth[t] > 0 /\ UNCHANGED depth
Wake(t)    == Become(t, "asleep", "back") /\ UNCHANGED depth
Resume(t)  == Become(t, "back", "out") /\ Inside = {} /\ UNCHANGED depth

Next == \E t \in Threads : \/ Request(t) \/ Acquire(t) \/ GiveUp(t) \/ Release(t)
                           \/ Suspend(t) \/ Wake(t) \/ Resume(t)

\* A lock that nobody is inside of does not stay so while somebody wants it.
Fairness == WF_vars(/\ Inside = {}
                    /\ \E t \in Threads : Acquire(t) \/ GiveUp(t) \/ Resume(t))

Spec == Init /\ [][Next]_vars

FairSpec == Spec /\ Fairness

=============================================================================
