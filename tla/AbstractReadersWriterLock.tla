--------------------- MODULE AbstractReadersWriterLock ---------------------
(***************************************************************************)
(* What MCF::ReadersWriterMutex promises: readers share it, a writer has   *)
(* it for itself, and it is not left unused while somebody waits for it.   *)
(***************************************************************************)

CONSTANTS Threads    \* the threads that use the lock

VARIABLES role       \* what each thread is doing with the lock

vars == role

Roles == {"out", "reader waits", "reader", "writer waits", "writer"}

In(what) == {t \in Threads : role[t] = what}
Idle     == In("reader") \cup In("writer") = {}

Init == role = [t \in Threads |-> "out"]

Become(t, from, to) == role[t] = from /\ role' = [role EXCEPT ![t] = to]

Request(t) == Become(t, "out", "reader waits") \/ Become(t, "out", "writer waits")

Read(t)  == Become(t, "reader waits", "reader") /\ In("writer") = {}
Write(t) == Become(t, "writer waits", "writer") /\ Idle

GiveUp(t) == Become(t, "reader waits", "out") \/ Become(t, "writer waits", "out")

Leave(t) == Become(t, "reader", "out") \/ Become(t, "writer", "out")

Served == \E t \in Threads : Read(t) \/ Write(t) \/ GiveUp(t)

Next == Served \/ \E t \in Threads : Request(t) \/ Leave(t)

Fairness == WF_vars(Idle /\ Served)

Spec == Init /\ [][Next]_vars

FairSpec == Spec /\ Fairness

=============================================================================
