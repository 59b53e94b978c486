----------------------------- MODULE Mopthread -----------------------------
(***************************************************************************)
(* The mopthreads of MCFCRT/src/env/thread.c, "the mother of pthread": a   *)
(* control block for each thread, found by its identifier in a tree, under *)
(* one global mutex.  Threads are created, end, are joined and detached in *)
(* any order.                                                              *)
(*                                                                         *)
(* A critical section is one step, as Mutex shows it may be, except that   *)
(* of a join, which keeps the mutex while it waits for the thread to end.  *)
(* Callers do not join or detach themselves: thrd_join and gthread_join    *)
(* check it.                                                               *)
(***************************************************************************)
EXTENDS Naturals

CONSTANTS Threads,    \* identifiers of mopthreads, used again after a time
          Main,       \* a thread that is not a mopthread
          NoOne       \* nobody

ASSUME ThreadsAssumption == Main \notin Threads /\ NoOne \notin Threads \cup {Main}

Actors == Threads \cup {Main}

VARIABLES life,       \* the thread as the kernel knows it
          handle,     \* whether a handle to it is open, 0 or 1
          state,      \* the eState of its control block, "None" if there is none
          tree,       \* g_avlMopthreadControls, as the set of its keys
          mutex,      \* who holds g_vMopthreadMutex between steps
          pc,         \* what each thread is doing
          arg         \* the identifier it does it to

vars == <<life, handle, state, tree, mutex, pc, arg>>

TypeOK == /\ life \in [Actors -> {"none", "suspended", "running", "leaving", "dead"}]
          /\ handle \in [Threads -> {0, 1}]
          /\ state \in [Threads -> {"None", "Joinable", "Zombie", "Joining",
                                    "Joined", "Detached"}]
          /\ tree \in SUBSET Threads
          /\ mutex \in Actors \cup {NoOne}
          /\ pc \in [Actors -> {"idle", "attach", "resume", "sleep", "relock",
                                "await", "end"}]
          /\ arg \in [Actors -> Actors]
          /\ \A t \in Threads : handle[t] = 1 <=> state[t] # "None"

Init == /\ life = [a \in Actors |-> IF a = Main THEN "running" ELSE "none"]
        /\ handle = [t \in Threads |-> 0]
        /\ state = [t \in Threads |-> "None"]
        /\ tree = {}
        /\ mutex = NoOne
        /\ pc = [a \in Actors |-> "idle"]
        /\ arg = [a \in Actors |-> a]

Move(a, from, to) == pc[a] = from /\ pc' = [pc EXCEPT ![a] = to]

\* A running thread calls what it is about to do to u.
Calls(a, u) == life[a] = "running" /\ pc[a] = "idle" /\ arg' = [arg EXCEPT ![a] = u]

CloseThread(u) == handle' = [handle EXCEPT ![u] = 0]

\* The block is taken out of the tree, and freed.
Detach(u) == tree' = tree \ {u}
SetState(u, to) == state' = [state EXCEPT ![u] = to]

-----------------------------------------------------------------------------
\* __MCFCRT_MopthreadCreate makes a suspended thread, attaches its block, and
\* resumes it.  An identifier is free once its thread is dead and no handle to
\* it is open.  A creation that fails for want of memory changes nothing.
Create(a, u) == /\ Calls(a, u) /\ Move(a, "idle", "attach")
                /\ life[u] \in {"none", "dead"} /\ handle[u] = 0
                /\ life' = [life EXCEPT ![u] = "suspended"]
                /\ handle' = [handle EXCEPT ![u] = 1]
                /\ SetState(u, "Joinable")
                /\ UNCHANGED <<tree, mutex>>

\* Mutation: the thread is not created suspended, and runs before it is found.
AttachLate(a) == /\ Move(a, "attach", "resume")
                 /\ UNCHANGED <<life, handle, state, tree, mutex, arg>>

Attach(a) == /\ Move(a, "attach", "resume")
             /\ mutex = NoOne
             /\ tree' = tree \cup {arg[a]}
             /\ UNCHANGED <<life, handle, state, mutex, arg>>

Resume(a) == /\ Move(a, "resume", "idle")
             /\ life' = [life EXCEPT ![arg[a]] = "running"]
             /\ UNCHANGED <<handle, state, tree, mutex, arg>>

-----------------------------------------------------------------------------
\* The procedure returns, or it calls __MCFCRT_MopthreadExit.
Finish(a) == /\ life[a] = "running" /\ Move(a, "idle", "end")
             /\ UNCHANGED <<life, handle, state, tree, mutex, arg>>

Leave(a) == /\ mutex = NoOne
            /\ life' = [life EXCEPT ![a] = "leaving"]
            /\ UNCHANGED <<mutex, arg>>

\* SignalMutexAndExitThread, for each state of the block; Main has none.
EndMain == /\ Move(Main, "end", "idle") /\ Leave(Main)
           /\ UNCHANGED <<handle, state, tree>>

EndJoinable(t) == /\ Move(t, "end", "idle") /\ Leave(t)
                  /\ state[t] = "Joinable"
                  /\ SetState(t, "Zombie")
                  /\ UNCHANGED <<handle, tree>>

\* Its joiner is woken by a broadcast on vTermination.
EndJoining(t) == /\ pc[t] = "end" /\ Leave(t)
                 /\ state[t] = "Joining"
                 /\ SetState(t, "Joined")
                 /\ pc' = [a \in Actors |->
                             IF a = t THEN "idle"
                             ELSE IF pc[a] = "sleep" /\ arg[a] = t THEN "relock"
                             ELSE pc[a]]
                 /\ UNCHANGED <<handle, tree>>

EndDetached(t) == /\ Move(t, "end", "idle") /\ Leave(t)
                  /\ state[t] = "Detached"
                  /\ SetState(t, "None") /\ Detach(t) /\ CloseThread(t)

\* ExitThread.  The destructors of thread-local objects that run in it are
\* assumed not to create, join or detach threads: a joiner that waits for this
\* thread keeps the mutex that they would need.
Die(a) == /\ life[a] = "leaving"
          /\ life' = [life EXCEPT ![a] = "dead"]
          /\ UNCHANGED <<handle, state, tree, mutex, pc, arg>>

-----------------------------------------------------------------------------
Other(a, u) == a # u /\ Calls(a, u) /\ mutex = NoOne

\* Join, and Detach, of an unknown thread or one that is taken: not found.
NotFound(a, u) == /\ Other(a, u)
                  /\ u \in tree => state[u] \in {"Joining", "Joined", "Detached"}
                  /\ UNCHANGED <<life, handle, state, tree, mutex, pc>>

\* Mutation: a thread that is being joined is joined again.
JoinJoinableAgain(a, u) == /\ Other(a, u) /\ Move(a, "idle", "sleep")
                           /\ u \in tree /\ state[u] \in {"Joinable", "Joining"}
                           /\ SetState(u, "Joining")
                           /\ UNCHANGED <<life, handle, tree, mutex>>

\* __MCFCRT_MopthreadJoin of a thread that runs sleeps on vTermination ...
JoinJoinable(a, u) == /\ Other(a, u) /\ Move(a, "idle", "sleep")
                      /\ u \in tree /\ state[u] = "Joinable"
                      /\ SetState(u, "Joining")
                      /\ UNCHANGED <<life, handle, tree, mutex>>

\* ... until its state is Joined.  The mutex is not released after that.
Rejoin(a) == /\ Move(a, "relock", "await")
             /\ mutex = NoOne /\ mutex' = a
             /\ state[arg[a]] = "Joined"
             /\ Detach(arg[a])
             /\ UNCHANGED <<life, handle, state, arg>>

\* Mutation: a thread that still runs is awaited as if it were a zombie.
JoinZombieAlive(a, u) == /\ Other(a, u) /\ Move(a, "idle", "await")
                         /\ u \in tree /\ state[u] \in {"Zombie", "Joinable"}
                         /\ SetState(u, "Joined") /\ Detach(u)
                         /\ mutex' = a
                         /\ UNCHANGED <<life, handle>>

\* A join of a zombie does not sleep; its thread may yet be leaving.
JoinZombie(a, u) == /\ Other(a, u) /\ Move(a, "idle", "await")
                    /\ u \in tree /\ state[u] = "Zombie"
                    /\ SetState(u, "Joined") /\ Detach(u)
                    /\ mutex' = a
                    /\ UNCHANGED <<life, handle>>

\* Mutation: the handle is closed without waiting for the thread.
JoinReturnEarly(a) == /\ Move(a, "await", "idle")
                      /\ SetState(arg[a], "None") /\ CloseThread(arg[a])
                      /\ mutex' = NoOne
                      /\ UNCHANGED <<life, tree, arg>>

\* _MCFCRT_WaitForThreadForever returns; the block is freed.
JoinReturn(a) == /\ Move(a, "await", "idle")
                 /\ life[arg[a]] = "dead"
                 /\ SetState(arg[a], "None") /\ CloseThread(arg[a])
                 /\ mutex' = NoOne
                 /\ UNCHANGED <<life, tree, arg>>

\* __MCFCRT_MopthreadDetach.
DetachJoinable(a, u) == /\ Other(a, u)
                        /\ u \in tree /\ state[u] = "Joinable"
                        /\ SetState(u, "Detached")
                        /\ UNCHANGED <<life, handle, tree, mutex, pc>>

DetachZombie(a, u) == /\ Other(a, u)
                      /\ u \in tree /\ state[u] = "Zombie"
                      /\ SetState(u, "None") /\ Detach(u) /\ CloseThread(u)
                      /\ UNCHANGED <<life, mutex, pc>>

-----------------------------------------------------------------------------
End(a) == \/ a = Main /\ EndMain
          \/ a \in Threads /\ (EndJoinable(a) \/ EndJoining(a) \/ EndDetached(a))

Proceed(a) == Attach(a) \/ Resume(a) \/ End(a) \/ Die(a) \/ Rejoin(a) \/ JoinReturn(a)

Next == \E a \in Actors :
          \/ Finish(a) \/ Proceed(a)
          \/ \E u \in Threads : \/ Create(a, u) \/ NotFound(a, u)
                                \/ JoinJoinable(a, u) \/ JoinZombie(a, u)
                                \/ DetachJoinable(a, u) \/ DetachZombie(a, u)

Spec == Init /\ [][Next]_vars

\* Threads that can run do run.  Nothing is said of who gets the mutex, or of
\* threads that do not return from their procedure.
FairSpec == Spec /\ \A a \in Actors : WF_vars(Proceed(a))

-----------------------------------------------------------------------------
\* Every pointer to a block, and every handle, that a thread will yet use is
\* good, whatever others join, detach and end in between: while it creates a
\* thread, joins it, or ends.
BlocksLive ==
    \A a \in Actors :
      /\ pc[a] \in {"attach", "resume"} =>
           /\ life[arg[a]] = "suspended"
           /\ handle[arg[a]] = 1
           /\ state[arg[a]] \in {"Joinable", "Joining", "Detached"}
      /\ pc[a] = "sleep" => state[arg[a]] = "Joining" /\ handle[arg[a]] = 1
      /\ pc[a] \in {"relock", "await"} => state[arg[a]] = "Joined" /\ handle[arg[a]] = 1
      /\ a \in Threads /\ life[a] = "running" =>
           state[a] \in {"Joinable", "Joining", "Detached"}

\* The tree holds the blocks that can be found, and lookups reach no other.
TreeIsLive == \A t \in Threads :
                /\ t \in tree => state[t] # "None" /\ handle[t] = 1
                /\ life[t] = "running" => t \in tree

\* What threads rely on in every state.
Safety == TypeOK /\ BlocksLive /\ TreeIsLive

\* Those that join a thread, and did not return yet.
Joiners(t) == {a \in Actors : arg[a] = t /\ pc[a] \in {"sleep", "relock", "await"}}

\* A joined thread has one joiner that will free its block; one that ended and
\* was detached has left nothing behind.
NothingLeaks == \A t \in Threads :
                  /\ state[t] \in {"Joining", "Joined"} => \E a \in Actors : Joiners(t) = {a}
                  /\ life[t] \in {"leaving", "dead"} => state[t] \in {"None", "Zombie", "Joined"}

\* The joiner that keeps the global mutex gets out with it: the thread it waits
\* for has no more need of the mutex.
MutexReleased == mutex # NoOne ~> mutex = NoOne

LifeOf(t) == CASE life[t] \in {"suspended", "running"} -> "alive"
               [] life[t] = "leaving" \/ (life[t] = "dead" /\ state[t] # "None") -> "done"
               [] OTHER -> "unborn"

ClaimOf(t) == CASE state[t] = "Detached" \/ (state[t] = "None" /\ life[t] = "leaving") -> "detached"
                [] state[t] \in {"Joining", "Joined"} -> CHOOSE a \in Joiners(t) : TRUE
                [] OTHER -> "none"

\* A thread is claimed once, and its joiner returns after it ended.
Abstract == INSTANCE AbstractThreads WITH
              life  <- [t \in Threads |-> LifeOf(t)],
              claim <- [t \in Threads |-> ClaimOf(t)]

ImplementsThreads == Abstract!Spec

=============================================================================
