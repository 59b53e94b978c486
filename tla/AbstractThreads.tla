--------------------------- MODULE AbstractThreads ---------------------------
(***************************************************************************)
(* What mopthreads promise: a thread can be joined or detached once, and   *)
(* whoever joins it returns after it ended.  Then, or when it ended        *)
(* detached, its identifier can be used again.                             *)
(***************************************************************************)

CONSTANTS Threads,    \* the identifiers of threads that can be created
          Actors      \* the threads that create, join and detach them

VARIABLES life,       \* "unborn", "alive" or "done"
          claim       \* "none", "detached", or the thread that joins it

vars == <<life, claim>>

Init == /\ life = [t \in Threads |-> "unborn"]
        /\ claim = [t \in Threads |-> "none"]

Become(t, from, to) == life[t] = from /\ life' = [life EXCEPT ![t] = to]
Assign(t, from, to) == claim[t] = from /\ claim' = [claim EXCEPT ![t] = to]

Create(t) == Become(t, "unborn", "alive") /\ claim[t] = "none" /\ UNCHANGED claim
End(t)    == Become(t, "alive", "done") /\ UNCHANGED claim

Claim(t, whom) == life[t] # "unborn" /\ Assign(t, "none", whom) /\ UNCHANGED life

\* The last of a thread is forgotten: its joiner returns, or nobody waited.
Forget(t, whom) == Become(t, "done", "unborn") /\ Assign(t, whom, "none")

\* Detaching a thread that is done forgets it at once.
Discard(t) == Become(t, "done", "unborn") /\ claim[t] = "none" /\ UNCHANGED claim

Next == \E t \in Threads :
          \/ Create(t) \/ End(t) \/ Discard(t)
          \/ \E whom \in Actors \cup {"detached"} : Claim(t, whom) \/ Forget(t, whom)

Spec == Init /\ [][Next]_vars

=============================================================================
