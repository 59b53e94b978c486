-------------------------- MODULE AbstractSemaphore --------------------------
(***************************************************************************)
(* What MCF::Semaphore promises: a counter that is posted to and taken     *)
(* from, never below zero, and no waiter left behind while it is positive. *)
(***************************************************************************)
EXTENDS Integers

CONSTANTS Threads,     \* the threads that use the semaphore
          MaxCount     \* largest initial count, and count posted at once

VARIABLES asking,      \* how each thread waits: not at all, with or without a deadline
          count        \* x_uCount

vars == <<asking, count>>

Init == asking = [t \in Threads |-> "no"] /\ count \in 0..MaxCount

Request(t, how) == /\ asking[t] = "no"
                   /\ asking' = [asking EXCEPT ![t] = how]
                   /\ UNCHANGED count

Answered(t) == asking[t] # "no" /\ asking' = [asking EXCEPT ![t] = "no"]

Take(t) == Answered(t) /\ count > 0 /\ count' = count - 1

GiveUp(t) == Answered(t) /\ asking[t] = "deadline" /\ UNCHANGED count

Post(n) == count' = count + n /\ UNCHANGED asking

Next == \/ \E t \in Threads : \/ Request(t, "deadline") \/ Request(t, "forever")
                              \/ Take(t) \/ GiveUp(t)
        \/ \E n \in 1..MaxCount : Post(n)

Spec == Init /\ [][Next]_vars

\* While the count is positive somebody who waits is served.
Fairness == WF_vars(\E t \in Threads : count > 0 /\ (Take(t) \/ GiveUp(t)))

FairSpec == Spec /\ Fairness

=============================================================================
