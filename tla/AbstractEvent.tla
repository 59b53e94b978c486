---------------------------- MODULE AbstractEvent ----------------------------
(***************************************************************************)
(* What MCF::Event promises: a flag that is set and reset, whose waiters   *)
(* return only while it is set, and are not left behind while it stays so. *)
(***************************************************************************)

CONSTANTS Threads      \* the threads that use the event

VARIABLES asking,      \* how each thread waits: not at all, with or without a deadline
          set          \* x_bSet, 0 or 1

vars == <<asking, set>>

Init == asking = [t \in Threads |-> "no"] /\ set \in {0, 1}

Request(t, how) == /\ asking[t] = "no"
                   /\ asking' = [asking EXCEPT ![t] = how]
                   /\ UNCHANGED set

Answered(t) == asking[t] # "no" /\ asking' = [asking EXCEPT ![t] = "no"]

Return(t) == Answered(t) /\ set = 1 /\ UNCHANGED set
GiveUp(t) == Answered(t) /\ asking[t] = "deadline" /\ UNCHANGED set

Assign(to) == set' = to /\ UNCHANGED asking

Next == \/ \E t \in Threads : \/ Request(t, "deadline") \/ Request(t, "forever")
                              \/ Return(t) \/ GiveUp(t)
        \/ \E to \in {0, 1} : Assign(to)

Spec == Init /\ [][Next]_vars

\* While the event stays set somebody who waits returns.
Fairness == WF_vars(\E t \in Threads : set = 1 /\ (Return(t) \/ GiveUp(t)))

FairSpec == Spec /\ Fairness

=============================================================================
