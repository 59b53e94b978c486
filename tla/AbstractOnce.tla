---------------------------- MODULE AbstractOnce ----------------------------
(***************************************************************************)
(* What MCF's once flag promises: one thread at a time runs the            *)
(* initializer, an aborted run is given to another thread, after one run   *)
(* that finished nobody runs it again, and everyone who asks is told so.   *)
(***************************************************************************)

CONSTANTS Threads      \* the threads that use the flag

VARIABLES asking,      \* how each thread asks: not at all, with or without a deadline
          running,     \* the threads told to run the initializer
          done         \* whether a run has finished

vars == <<asking, running, done>>

Init == /\ asking = [t \in Threads |-> "no"]
        /\ running = {}
        /\ done = FALSE

Request(t, how) == /\ asking[t] = "no"
                   /\ t \notin running
                   /\ asking' = [asking EXCEPT ![t] = how]
                   /\ UNCHANGED <<running, done>>

Answered(t) == asking[t] # "no" /\ asking' = [asking EXCEPT ![t] = "no"]

\* _MCFCRT_kOnceResultInitial
Begin(t) == /\ Answered(t)
            /\ ~done
            /\ running = {}
            /\ running' = {t}
            /\ UNCHANGED done

\* _MCFCRT_kOnceResultFinished
Finished(t) == Answered(t) /\ done /\ UNCHANGED <<running, done>>

\* _MCFCRT_kOnceResultTimedOut
TimedOut(t) == Answered(t) /\ asking[t] = "deadline" /\ UNCHANGED <<running, done>>

Finish(t) == t \in running /\ running' = {} /\ done' = TRUE  /\ UNCHANGED asking
Abort(t)  == t \in running /\ running' = {} /\ done' = FALSE /\ UNCHANGED asking

Next == \E t \in Threads :
          \/ Request(t, "deadline") \/ Request(t, "forever")
          \/ Begin(t) \/ Finished(t) \/ TimedOut(t)
          \/ Finish(t) \/ Abort(t)

Spec == Init /\ [][Next]_vars

\* While nobody runs the initializer, somebody who asks is answered, and once
\* it has finished everybody is.
Fairness == /\ WF_vars(\E t \in Threads : Begin(t) \/ Finished(t) \/ TimedOut(t))
            /\ \A t \in Threads : WF_vars(Finished(t))

FairSpec == Spec /\ Fairness

=============================================================================
