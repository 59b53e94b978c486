--------------------------- MODULE MopthreadProofs ---------------------------
(***************************************************************************)
(* Proofs about Mopthread for every set of threads, whose identifiers are  *)
(* used again and again: no thread uses a control block or a handle that   *)
(* was freed, none is freed twice or never, and creating, joining and      *)
(* detaching are what AbstractThreads promises.                            *)
(***************************************************************************)
EXTENDS Mopthread, TLAPS

\* Who is doing something runs, and what it does it to is as it left it.
ActorSound(a) ==
  /\ pc[a] # "idle" => life[a] = "running"
  /\ pc[a] \in {"attach", "resume"} => arg[a] \in Threads /\ life[arg[a]] = "suspended"
  /\ pc[a] = "resume" => arg[a] \in tree
  /\ pc[a] = "sleep" => arg[a] \in Threads /\ state[arg[a]] = "Joining"
  /\ pc[a] \in {"relock", "await"} => arg[a] \in Threads /\ state[arg[a]] = "Joined"
  /\ pc[a] = "await" => arg[a] \notin tree
  /\ pc[a] = "await" <=> mutex = a

\* A block says how far its thread has come, and is found while the thread runs.
BlockSound(t) ==
  /\ state[t] \in {"Joinable", "Joining", "Detached"} <=> life[t] \in {"suspended", "running"}
  /\ state[t] \in {"Zombie", "Joined"} => life[t] \in {"leaving", "dead"}
  /\ t \in tree => state[t] # "None"
  /\ life[t] = "running" => t \in tree

OneJoiner(t) == state[t] \in {"Joining", "Joined"} => \E a \in Actors : Joiners(t) = {a}

\* A thread is created by one.
OneCreator == \A a, b \in Actors :
                /\ pc[a] \in {"attach", "resume"} /\ pc[b] \in {"attach", "resume"}
                /\ arg[a] = arg[b]
                => a = b

\* The inductive invariant.
IInv == /\ TypeOK
        /\ \A a \in Actors : ActorSound(a)
        /\ \A t \in Threads : BlockSound(t) /\ OneJoiner(t)
        /\ OneCreator

-----------------------------------------------------------------------------
\* In the beginning nobody does anything, and no mopthread exists.
LEMMA Initially == Init => IInv
<1> SUFFICES ASSUME Init PROVE IInv
  OBVIOUS
<1> USE ThreadsAssumption DEF Actors
<1>1. TypeOK
  BY DEF Init, TypeOK
<1>2. ASSUME NEW a \in Actors PROVE ActorSound(a)
  BY DEF Init, ActorSound
<1>3. ASSUME NEW t \in Threads PROVE BlockSound(t) /\ OneJoiner(t)
  BY DEF Init, BlockSound, OneJoiner
<1>4. OneCreator
  BY DEF Init, OneCreator
<1>5. QED
  BY <1>1, <1>2, <1>3, <1>4 DEF IInv

\* Nothing changes when no variable does.
LEMMA Stuttering == IInv /\ UNCHANGED vars => IInv'
  BY DEF vars, IInv, TypeOK, ActorSound, BlockSound, OneJoiner, Joiners, OneCreator

\* No step of any thread disturbs the invariant.
LEMMA Preserved == ASSUME IInv, [Next]_vars PROVE IInv'
<1> USE ThreadsAssumption DEF Actors, IInv
<1>1. ASSUME NEW a \in Actors, NEW u \in Threads, Create(a, u) PROVE IInv'
  <2>1. TypeOK'
    BY <1>1 DEF Create, Calls, Move, SetState, TypeOK
  <2>2. ASSUME NEW b \in Actors PROVE ActorSound(b)'
    BY <1>1, <2>2 DEF Create, Calls, Move, SetState, ActorSound, TypeOK
  <2>3. ASSUME NEW t \in Threads PROVE BlockSound(t)'
    BY <1>1, <2>3 DEF Create, SetState, BlockSound, TypeOK
  <2>4. ASSUME NEW t \in Threads PROVE OneJoiner(t)'
    BY <1>1, <2>4 DEF Create, Calls, Move, SetState, OneJoiner, Joiners
  <2>5. OneCreator'
    BY <1>1 DEF Create, Calls, Move, ActorSound, OneCreator, TypeOK
  <2>6. QED
    BY <2>1, <2>2, <2>3, <2>4, <2>5
<1>2. ASSUME NEW a \in Actors, Attach(a) PROVE IInv'
  <2>1. TypeOK'
    BY <1>2 DEF Attach, Move, ActorSound, TypeOK
  <2>2. ASSUME NEW b \in Actors PROVE ActorSound(b)'
    BY <1>2, <2>2 DEF Attach, Move, ActorSound
  <2>3. ASSUME NEW t \in Threads PROVE BlockSound(t)'
    BY <1>2, <2>3 DEF Attach, Move, ActorSound, BlockSound
  <2>4. ASSUME NEW t \in Threads PROVE OneJoiner(t)'
    BY <1>2, <2>4 DEF Attach, Move, OneJoiner, Joiners
  <2>5. OneCreator'
    BY <1>2 DEF Attach, Move, OneCreator
  <2>6. QED
    BY <2>1, <2>2, <2>3, <2>4, <2>5
<1>3. ASSUME NEW a \in Actors, Resume(a) PROVE IInv'
  <2>1. TypeOK'
    BY <1>3 DEF Resume, Move, TypeOK
  <2>2. ASSUME NEW b \in Actors PROVE ActorSound(b)'
    BY <1>3, <2>2 DEF Resume, Move, ActorSound, OneCreator, TypeOK
  <2>3. ASSUME NEW t \in Threads PROVE BlockSound(t)'
    BY <1>3, <2>3 DEF Resume, Move, ActorSound, BlockSound
  <2>4. ASSUME NEW t \in Threads PROVE OneJoiner(t)'
    BY <1>3, <2>4 DEF Resume, Move, OneJoiner, Joiners
  <2>5. OneCreator'
    BY <1>3 DEF Resume, Move, OneCreator
  <2>6. QED
    BY <2>1, <2>2, <2>3, <2>4, <2>5
<1>4. ASSUME NEW a \in Actors, Finish(a) PROVE IInv'
  <2>1. TypeOK'
    BY <1>4 DEF Finish, Move, TypeOK
  <2>2. ASSUME NEW b \in Actors PROVE ActorSound(b)'
    BY <1>4, <2>2 DEF Finish, Move, ActorSound
  <2>3. ASSUME NEW t \in Threads PROVE BlockSound(t)'
    BY <1>4, <2>3 DEF Finish, BlockSound
  <2>4. ASSUME NEW t \in Threads PROVE OneJoiner(t)'
    BY <1>4, <2>4 DEF Finish, Move, OneJoiner, Joiners
  <2>5. OneCreator'
    BY <1>4 DEF Finish, Move, OneCreator
  <2>6. QED
    BY <2>1, <2>2, <2>3, <2>4, <2>5
<1>5. ASSUME EndMain PROVE IInv'
  <2>1. TypeOK'
    BY <1>5 DEF EndMain, Move, Leave, TypeOK
  <2>2. ASSUME NEW b \in Actors PROVE ActorSound(b)'
    BY <1>5, <2>2 DEF EndMain, Move, Leave, ActorSound, TypeOK
  <2>3. ASSUME NEW t \in Threads PROVE BlockSound(t)'
    BY <1>5, <2>3 DEF EndMain, Leave, BlockSound
  <2>4. ASSUME NEW t \in Threads PROVE OneJoiner(t)'
    BY <1>5, <2>4 DEF EndMain, Move, Leave, OneJoiner, Joiners
  <2>5. OneCreator'
    BY <1>5 DEF EndMain, Move, Leave, OneCreator
  <2>6. QED
    BY <2>1, <2>2, <2>3, <2>4, <2>5
<1>6. ASSUME NEW a \in Threads, EndJoinable(a) PROVE IInv'
  <2>1. TypeOK'
    BY <1>6 DEF EndJoinable, Move, Leave, SetState, TypeOK
  <2>2. ASSUME NEW b \in Actors PROVE ActorSound(b)'
    BY <1>6, <2>2 DEF EndJoinable, Move, Leave, SetState, ActorSound, TypeOK
  <2>3. ASSUME NEW t \in Threads PROVE BlockSound(t)'
    BY <1>6, <2>3 DEF EndJoinable, Leave, SetState, BlockSound, TypeOK
  <2>4. ASSUME NEW t \in Threads PROVE OneJoiner(t)'
    BY <1>6, <2>4 DEF EndJoinable, Move, Leave, SetState, OneJoiner, Joiners
  <2>5. OneCreator'
    BY <1>6 DEF EndJoinable, Move, Leave, OneCreator
  <2>6. QED
    BY <2>1, <2>2, <2>3, <2>4, <2>5
<1>7. ASSUME NEW a \in Threads, EndJoining(a) PROVE IInv'
  <2>1. TypeOK'
    BY <1>7 DEF EndJoining, Leave, SetState, TypeOK
  <2>2. ASSUME NEW b \in Actors PROVE ActorSound(b)'
    BY <1>7, <2>2 DEF EndJoining, Leave, SetState, ActorSound, TypeOK
  <2>3. ASSUME NEW t \in Threads PROVE BlockSound(t)'
    BY <1>7, <2>3 DEF EndJoining, Leave, SetState, BlockSound, TypeOK
  <2>4. ASSUME NEW t \in Threads PROVE OneJoiner(t)'
    <3>1. Joiners(t)' = Joiners(t)
      BY <1>7, <2>4 DEF EndJoining, Leave, Joiners
    <3>2. QED
      BY <1>7, <2>4, <3>1 DEF EndJoining, SetState, OneJoiner
  <2>5. OneCreator'
    BY <1>7 DEF EndJoining, Leave, OneCreator
  <2>6. QED
    BY <2>1, <2>2, <2>3, <2>4, <2>5
<1>8. ASSUME NEW a \in Threads, EndDetached(a) PROVE IInv'
  <2>1. TypeOK'
    BY <1>8 DEF EndDetached, Move, Leave, SetState, Detach, CloseThread, TypeOK
  <2>2. ASSUME NEW b \in Actors PROVE ActorSound(b)'
    BY <1>8, <2>2 DEF EndDetached, Move, Leave, SetState, Detach, ActorSound, TypeOK
  <2>3. ASSUME NEW t \in Threads PROVE BlockSound(t)'
    BY <1>8, <2>3 DEF EndDetached, Leave, SetState, Detach, BlockSound, TypeOK
  <2>4. ASSUME NEW t \in Threads PROVE OneJoiner(t)'
    BY <1>8, <2>4 DEF EndDetached, Move, Leave, SetState, OneJoiner, Joiners
  <2>5. OneCreator'
    BY <1>8 DEF EndDetached, Move, Leave, OneCreator
  <2>6. QED
    BY <2>1, <2>2, <2>3, <2>4, <2>5
<1>9. ASSUME NEW a \in Actors, Die(a) PROVE IInv'
  <2>1. TypeOK'
    BY <1>9 DEF Die, TypeOK
  <2>2. ASSUME NEW b \in Actors PROVE ActorSound(b)'
    BY <1>9, <2>2 DEF Die, ActorSound
  <2>3. ASSUME NEW t \in Threads PROVE BlockSound(t)'
    BY <1>9, <2>3 DEF Die, BlockSound
  <2>4. ASSUME NEW t \in Threads PROVE OneJoiner(t)'
    BY <1>9, <2>4 DEF Die, OneJoiner, Joiners
  <2>5. OneCreator'
    BY <1>9 DEF Die, OneCreator
  <2>6. QED
    BY <2>1, <2>2, <2>3, <2>4, <2>5
<1>10. ASSUME NEW a \in Actors, NEW u \in Threads, NotFound(a, u) PROVE IInv'
  <2>1. TypeOK'
    BY <1>10 DEF NotFound, Other, Calls, TypeOK
  <2>2. ASSUME NEW b \in Actors PROVE ActorSound(b)'
    BY <1>10, <2>2 DEF NotFound, Other, Calls, ActorSound
  <2>3. ASSUME NEW t \in Threads PROVE BlockSound(t)'
    BY <1>10, <2>3 DEF NotFound, BlockSound
  <2>4. ASSUME NEW t \in Threads PROVE OneJoiner(t)'
    BY <1>10, <2>4 DEF NotFound, Other, Calls, OneJoiner, Joiners
  <2>5. OneCreator'
    BY <1>10 DEF NotFound, Other, Calls, OneCreator
  <2>6. QED
    BY <2>1, <2>2, <2>3, <2>4, <2>5
<1>11. ASSUME NEW a \in Actors, NEW u \in Threads, JoinJoinable(a, u) PROVE IInv'
  <2>1. TypeOK'
    BY <1>11 DEF JoinJoinable, Other, Calls, Move, SetState, TypeOK
  <2>2. ASSUME NEW b \in Actors PROVE ActorSound(b)'
    BY <1>11, <2>2 DEF JoinJoinable, Other, Calls, Move, SetState, ActorSound, TypeOK
  <2>3. ASSUME NEW t \in Threads PROVE BlockSound(t)'
    BY <1>11, <2>3 DEF JoinJoinable, SetState, BlockSound
  <2>4. ASSUME NEW t \in Threads PROVE OneJoiner(t)'
    BY <1>11, <2>4 DEF JoinJoinable, Other, Calls, Move, SetState, ActorSound,
       OneJoiner, Joiners, TypeOK
  <2>5. OneCreator'
    BY <1>11 DEF JoinJoinable, Other, Calls, Move, OneCreator
  <2>6. QED
    BY <2>1, <2>2, <2>3, <2>4, <2>5
<1>12. ASSUME NEW a \in Actors, NEW u \in Threads, JoinZombie(a, u) PROVE IInv'
  <2>1. TypeOK'
    BY <1>12 DEF JoinZombie, Other, Calls, Move, SetState, Detach, TypeOK
  <2>2. ASSUME NEW b \in Actors PROVE ActorSound(b)'
    BY <1>12, <2>2 DEF JoinZombie, Other, Calls, Move, SetState, Detach, ActorSound,
       BlockSound, TypeOK
  <2>3. ASSUME NEW t \in Threads PROVE BlockSound(t)'
    BY <1>12, <2>3 DEF JoinZombie, SetState, Detach, BlockSound
  <2>4. ASSUME NEW t \in Threads PROVE OneJoiner(t)'
    BY <1>12, <2>4 DEF JoinZombie, Other, Calls, Move, SetState, ActorSound, OneJoiner,
       Joiners, TypeOK
  <2>5. OneCreator'
    BY <1>12 DEF JoinZombie, Other, Calls, Move, OneCreator
  <2>6. QED
    BY <2>1, <2>2, <2>3, <2>4, <2>5
<1>13. ASSUME NEW a \in Actors, Rejoin(a) PROVE IInv'
  <2>1. TypeOK'
    BY <1>13 DEF Rejoin, Move, Detach, TypeOK
  <2>2. ASSUME NEW b \in Actors PROVE ActorSound(b)'
    BY <1>13, <2>2 DEF Rejoin, Move, Detach, ActorSound, BlockSound, TypeOK
  <2>3. ASSUME NEW t \in Threads PROVE BlockSound(t)'
    BY <1>13, <2>3 DEF Rejoin, Detach, BlockSound
  <2>4. ASSUME NEW t \in Threads PROVE OneJoiner(t)'
    BY <1>13, <2>4 DEF Rejoin, Move, OneJoiner, Joiners
  <2>5. OneCreator'
    BY <1>13 DEF Rejoin, Move, OneCreator
  <2>6. QED
    BY <2>1, <2>2, <2>3, <2>4, <2>5
<1>14. ASSUME NEW a \in Actors, JoinReturn(a) PROVE IInv'
  <2>1. TypeOK'
    BY <1>14 DEF JoinReturn, Move, SetState, CloseThread, ActorSound, TypeOK
  <2>2. ASSUME NEW b \in Actors, b # a, pc[b] \in {"sleep", "relock", "await"}
       PROVE  arg[b] # arg[a]
    <3>1. PICK c \in Actors : Joiners(arg[a]) = {c}
      BY <1>14 DEF JoinReturn, Move, ActorSound, OneJoiner
    <3>2. QED
      BY <1>14, <2>2, <3>1 DEF JoinReturn, Move, Joiners
  <2>3. ASSUME NEW b \in Actors PROVE ActorSound(b)'
    BY <1>14, <2>2, <2>3 DEF JoinReturn, Move, SetState, ActorSound, TypeOK
  <2>4. ASSUME NEW t \in Threads PROVE BlockSound(t)'
    BY <1>14, <2>4 DEF JoinReturn, Move, SetState, ActorSound, BlockSound
  <2>5. ASSUME NEW t \in Threads PROVE OneJoiner(t)'
    BY <1>14, <2>5 DEF JoinReturn, Move, SetState, OneJoiner, Joiners, TypeOK
  <2>6. OneCreator'
    BY <1>14 DEF JoinReturn, Move, OneCreator
  <2>7. QED
    BY <2>1, <2>3, <2>4, <2>5, <2>6
<1>15. ASSUME NEW a \in Actors, NEW u \in Threads, DetachJoinable(a, u) PROVE IInv'
  <2>1. TypeOK'
    BY <1>15 DEF DetachJoinable, Other, Calls, SetState, TypeOK
  <2>2. ASSUME NEW b \in Actors PROVE ActorSound(b)'
    BY <1>15, <2>2 DEF DetachJoinable, Other, Calls, SetState, ActorSound
  <2>3. ASSUME NEW t \in Threads PROVE BlockSound(t)'
    BY <1>15, <2>3 DEF DetachJoinable, SetState, BlockSound
  <2>4. ASSUME NEW t \in Threads PROVE OneJoiner(t)'
    BY <1>15, <2>4 DEF DetachJoinable, Other, Calls, SetState, OneJoiner, Joiners
  <2>5. OneCreator'
    BY <1>15 DEF DetachJoinable, Other, Calls, OneCreator
  <2>6. QED
    BY <2>1, <2>2, <2>3, <2>4, <2>5
<1>16. ASSUME NEW a \in Actors, NEW u \in Threads, DetachZombie(a, u) PROVE IInv'
  <2>1. TypeOK'
    BY <1>16 DEF DetachZombie, Other, Calls, SetState, Detach, CloseThread, TypeOK
  <2>2. ASSUME NEW b \in Actors PROVE ActorSound(b)'
    BY <1>16, <2>2 DEF DetachZombie, Other, Calls, SetState, Detach, ActorSound,
       BlockSound
  <2>3. ASSUME NEW t \in Threads PROVE BlockSound(t)'
    BY <1>16, <2>3 DEF DetachZombie, SetState, Detach, BlockSound
  <2>4. ASSUME NEW t \in Threads PROVE OneJoiner(t)'
    BY <1>16, <2>4 DEF DetachZombie, Other, Calls, SetState, OneJoiner, Joiners
  <2>5. OneCreator'
    BY <1>16 DEF DetachZombie, Other, Calls, OneCreator
  <2>6. QED
    BY <2>1, <2>2, <2>3, <2>4, <2>5
<1>17. CASE UNCHANGED vars
  BY <1>17, Stuttering
<1>18. QED
  BY <1>1, <1>2, <1>3, <1>4, <1>5, <1>6, <1>7, <1>8, <1>9, <1>10, <1>11, <1>12, <1>13,
     <1>14, <1>15, <1>16, <1>17 DEF Next, Proceed, End

\* The inductive invariant holds of every behaviour.
THEOREM Inductive == Spec => []IInv
<1>1. IInv /\ [Next]_vars => IInv'
  BY Preserved
<1>2. QED
  BY <1>1, Initially, PTL DEF Spec

\* No thread uses, or looks up, a control block or a handle that was freed, and
\* every thread that runs is found.
THEOREM SafetyHolds == Spec => []Safety
<1>1. IInv => Safety
  BY ThreadsAssumption DEF IInv, Safety, TypeOK, BlocksLive, TreeIsLive, ActorSound,
     BlockSound
<1>2. QED
  BY <1>1, Inductive, PTL

\* A joined thread has one joiner, who frees its block; a detached one that ended
\* left nothing behind.
THEOREM NothingIsLeaked == Spec => []NothingLeaks
<1>1. IInv => NothingLeaks
  BY DEF IInv, TypeOK, NothingLeaks, BlockSound, OneJoiner
<1>2. QED
  BY <1>1, Inductive, PTL

\* A joiner that keeps the global mutex while it waits for a thread waits for one
\* that has left its procedure, and so is past all need of the mutex.
KeeperIsNotAwaited ==
  mutex # NoOne => /\ pc[mutex] = "await"
                   /\ life[arg[mutex]] \in {"leaving", "dead"}
                   /\ pc[arg[mutex]] = "idle"

\* That is why keeping the mutex does not make a joiner wait for itself: no thread
\* that it waits for, by the handle, waits for the mutex it keeps.
THEOREM KeeperGetsOut == Spec => []KeeperIsNotAwaited
<1>1. IInv => KeeperIsNotAwaited
  BY ThreadsAssumption DEF IInv, TypeOK, KeeperIsNotAwaited, ActorSound, BlockSound
<1>2. QED
  BY <1>1, Inductive, PTL

-----------------------------------------------------------------------------
\* The joiner of a thread that one joins.
One(S) == CHOOSE a \in S : TRUE

LEMMA OneOfOne == ASSUME NEW a PROVE One({a}) = a
  BY DEF One

\* The abstract claim, before and after a step.
LEMMA ClaimIs ==
  ASSUME NEW t \in Threads
  PROVE  /\ ClaimOf(t) = IF state[t] = "Detached" \/ (state[t] = "None" /\ life[t] = "leaving")
                           THEN "detached"
                         ELSE IF state[t] \in {"Joining", "Joined"} THEN One(Joiners(t))
                         ELSE "none"
         /\ ClaimOf(t)' = IF state'[t] = "Detached" \/ (state'[t] = "None" /\ life'[t] = "leaving")
                            THEN "detached"
                          ELSE IF state'[t] \in {"Joining", "Joined"} THEN One(Joiners(t)')
                          ELSE "none"
  BY DEF ClaimOf, One

\* What a step does to the abstract state.
LivesStay == \A u \in Threads : LifeOf(u)' = LifeOf(u)
ClaimsStay == \A u \in Threads : ClaimOf(u)' = ClaimOf(u)
LifeBecomes(t, x) == \A u \in Threads : LifeOf(u)' = IF u = t THEN x ELSE LifeOf(u)
ClaimBecomes(t, x) == \A u \in Threads : ClaimOf(u)' = IF u = t THEN x ELSE ClaimOf(u)

\* A step that changes nothing of the abstract state is none of AbstractThreads.
LEMMA NoStep == LivesStay /\ ClaimsStay => UNCHANGED Abstract!vars
  BY DEF LivesStay, ClaimsStay, Abstract!vars

\* One that changes it in one of these ways is one of its steps.
LEMMA AbstractSteps ==
  ASSUME NEW t \in Threads, NEW whom \in Actors \cup {"detached"}
  PROVE  /\ LifeOf(t) = "unborn" /\ ClaimOf(t) = "none" /\ LifeBecomes(t, "alive") /\ ClaimsStay
              => Abstract!Create(t)
         /\ LifeOf(t) = "alive" /\ LifeBecomes(t, "done") /\ ClaimsStay => Abstract!End(t)
         /\ LifeOf(t) # "unborn" /\ ClaimOf(t) = "none" /\ LivesStay /\ ClaimBecomes(t, whom)
              => Abstract!Claim(t, whom)
         /\ LifeOf(t) = "done" /\ LifeBecomes(t, "unborn")
              /\ ClaimOf(t) = whom /\ ClaimBecomes(t, "none")
              => Abstract!Forget(t, whom)
         /\ LifeOf(t) = "done" /\ ClaimOf(t) = "none" /\ LifeBecomes(t, "unborn") /\ ClaimsStay
              => Abstract!Discard(t)
<1> DEFINE lives == [u \in Threads |-> LifeOf(u)]
           claims == [u \in Threads |-> ClaimOf(u)]
<1>1. lives[t] = LifeOf(t) /\ claims[t] = ClaimOf(t)
  OBVIOUS
<1>2. /\ LivesStay => lives' = lives
      /\ ClaimsStay => claims' = claims
  BY DEF LivesStay, ClaimsStay
<1>3. ASSUME NEW x
      PROVE  /\ LifeBecomes(t, x) => lives' = [lives EXCEPT ![t] = x]
             /\ ClaimBecomes(t, x) => claims' = [claims EXCEPT ![t] = x]
  BY DEF LifeBecomes, ClaimBecomes
<1> HIDE DEF lives, claims
<1>4. QED
  <2>1. LifeOf(t) = "unborn" /\ ClaimOf(t) = "none" /\ LifeBecomes(t, "alive") /\ ClaimsStay
          => Abstract!Create(t)
    BY <1>1, <1>2, <1>3 DEF lives, claims, Abstract!Create, Abstract!Become
  <2>2. LifeOf(t) = "alive" /\ LifeBecomes(t, "done") /\ ClaimsStay => Abstract!End(t)
    BY <1>1, <1>2, <1>3 DEF lives, claims, Abstract!End, Abstract!Become
  <2>3. LifeOf(t) # "unborn" /\ ClaimOf(t) = "none" /\ LivesStay /\ ClaimBecomes(t, whom)
          => Abstract!Claim(t, whom)
    BY <1>1, <1>2, <1>3 DEF lives, claims, Abstract!Claim, Abstract!Assign
  <2>4. LifeOf(t) = "done" /\ LifeBecomes(t, "unborn")
          /\ ClaimOf(t) = whom /\ ClaimBecomes(t, "none")
          => Abstract!Forget(t, whom)
    <3>1. LifeOf(t) = "done" /\ LifeBecomes(t, "unborn") => Abstract!Become(t, "done", "unborn")
      BY <1>1, <1>3 DEF lives, Abstract!Become
    <3>2. ClaimOf(t) = whom /\ ClaimBecomes(t, "none") => Abstract!Assign(t, whom, "none")
      BY <1>1, <1>3 DEF claims, Abstract!Assign
    <3>3. QED
      BY <3>1, <3>2 DEF Abstract!Forget
  <2>5. LifeOf(t) = "done" /\ ClaimOf(t) = "none" /\ LifeBecomes(t, "unborn") /\ ClaimsStay
          => Abstract!Discard(t)
    BY <1>1, <1>2, <1>3 DEF lives, claims, Abstract!Discard, Abstract!Become
  <2>6. QED
    BY <2>1, <2>2, <2>3, <2>4, <2>5

\* Every step of a thread is one step of AbstractThreads, or none.
LEMMA StepImplements == ASSUME IInv, [Next]_vars PROVE [Abstract!Next]_(Abstract!vars)
<1> USE ThreadsAssumption DEF Actors, IInv
<1>1. ASSUME NEW a \in Actors, NEW u \in Threads, Create(a, u) PROVE Abstract!Next
  <2>1. LifeOf(u) = "unborn" /\ LifeBecomes(u, "alive")
    BY <1>1 DEF Create, SetState, TypeOK, LifeOf, LifeBecomes
  <2>2. ASSUME NEW v \in Threads PROVE Joiners(v)' = Joiners(v)
    BY <1>1, <2>2 DEF Create, Calls, Move, Joiners
  <2>3. ClaimOf(u) = "none" /\ ClaimsStay
    BY <1>1, <2>2, ClaimIs DEF Create, SetState, TypeOK, ClaimsStay
  <2>4. QED
    BY <2>1, <2>3, AbstractSteps DEF Abstract!Next
<1>2. ASSUME NEW a \in Actors, Attach(a) PROVE UNCHANGED Abstract!vars
  <2>1. LivesStay
    BY <1>2 DEF Attach, LifeOf, LivesStay
  <2>2. ASSUME NEW v \in Threads PROVE Joiners(v)' = Joiners(v)
    BY <1>2, <2>2 DEF Attach, Move, Joiners
  <2>3. ClaimsStay
    BY <1>2, <2>2, ClaimIs DEF Attach, ClaimsStay
  <2>4. QED
    BY <2>1, <2>3, NoStep
<1>3. ASSUME NEW a \in Actors, Resume(a) PROVE UNCHANGED Abstract!vars
  <2>1. LivesStay
    BY <1>3 DEF Resume, Move, ActorSound, LifeOf, LivesStay
  <2>2. ASSUME NEW v \in Threads PROVE Joiners(v)' = Joiners(v)
    BY <1>3, <2>2 DEF Resume, Move, Joiners
  <2>3. ClaimsStay
    BY <1>3, <2>2, ClaimIs DEF Resume, Move, ActorSound, ClaimsStay
  <2>4. QED
    BY <2>1, <2>3, NoStep
<1>4. ASSUME NEW a \in Actors, Finish(a) PROVE UNCHANGED Abstract!vars
  <2>1. LivesStay
    BY <1>4 DEF Finish, LifeOf, LivesStay
  <2>2. ASSUME NEW v \in Threads PROVE Joiners(v)' = Joiners(v)
    BY <1>4, <2>2 DEF Finish, Move, Joiners
  <2>3. ClaimsStay
    BY <1>4, <2>2, ClaimIs DEF Finish, ClaimsStay
  <2>4. QED
    BY <2>1, <2>3, NoStep
<1>5. ASSUME EndMain PROVE UNCHANGED Abstract!vars
  <2>1. LivesStay
    BY <1>5 DEF EndMain, Leave, LifeOf, LivesStay
  <2>2. ASSUME NEW v \in Threads PROVE Joiners(v)' = Joiners(v)
    BY <1>5, <2>2 DEF EndMain, Move, Leave, Joiners
  <2>3. ClaimsStay
    BY <1>5, <2>2, ClaimIs DEF EndMain, Leave, ClaimsStay
  <2>4. QED
    BY <2>1, <2>3, NoStep
<1>6. ASSUME NEW t \in Threads, EndJoinable(t) PROVE Abstract!Next
  <2>1. LifeOf(t) = "alive" /\ LifeBecomes(t, "done")
    BY <1>6 DEF EndJoinable, Move, Leave, SetState, ActorSound, TypeOK, LifeOf,
       LifeBecomes
  <2>2. ASSUME NEW v \in Threads PROVE Joiners(v)' = Joiners(v)
    BY <1>6, <2>2 DEF EndJoinable, Move, Leave, Joiners
  <2>3. ClaimsStay
    BY <1>6, <2>2, ClaimIs DEF EndJoinable, Leave, SetState, ClaimsStay
  <2>4. QED
    BY <2>1, <2>3, AbstractSteps DEF Abstract!Next
<1>7. ASSUME NEW t \in Threads, EndJoining(t) PROVE Abstract!Next
  <2>1. LifeOf(t) = "alive" /\ LifeBecomes(t, "done")
    BY <1>7 DEF EndJoining, Leave, SetState, ActorSound, TypeOK, LifeOf, LifeBecomes
  <2>2. ASSUME NEW v \in Threads PROVE Joiners(v)' = Joiners(v)
    BY <1>7, <2>2 DEF EndJoining, Leave, Joiners
  <2>3. ClaimsStay
    BY <1>7, <2>2, ClaimIs DEF EndJoining, Leave, SetState, ClaimsStay
  <2>4. QED
    BY <2>1, <2>3, AbstractSteps DEF Abstract!Next
<1>8. ASSUME NEW t \in Threads, EndDetached(t) PROVE Abstract!Next
  <2>1. LifeOf(t) = "alive" /\ LifeBecomes(t, "done")
    BY <1>8 DEF EndDetached, Move, Leave, SetState, ActorSound, TypeOK, LifeOf,
       LifeBecomes
  <2>2. ASSUME NEW v \in Threads PROVE Joiners(v)' = Joiners(v)
    BY <1>8, <2>2 DEF EndDetached, Move, Leave, Joiners
  <2>3. ClaimsStay
    BY <1>8, <2>2, ClaimIs DEF EndDetached, Leave, SetState, TypeOK, ClaimsStay
  <2>4. QED
    BY <2>1, <2>3, AbstractSteps DEF Abstract!Next
<1>9. ASSUME NEW a \in Actors, NEW u \in Threads, NotFound(a, u) PROVE UNCHANGED Abstract!vars
  <2>1. LivesStay
    BY <1>9 DEF NotFound, LifeOf, LivesStay
  <2>2. ASSUME NEW v \in Threads PROVE Joiners(v)' = Joiners(v)
    BY <1>9, <2>2 DEF NotFound, Other, Calls, Joiners
  <2>3. ClaimsStay
    BY <1>9, <2>2, ClaimIs DEF NotFound, ClaimsStay
  <2>4. QED
    BY <2>1, <2>3, NoStep
<1>10. ASSUME NEW a \in Actors, Rejoin(a) PROVE UNCHANGED Abstract!vars
  <2>1. LivesStay
    BY <1>10 DEF Rejoin, LifeOf, LivesStay
  <2>2. ASSUME NEW v \in Threads PROVE Joiners(v)' = Joiners(v)
    BY <1>10, <2>2 DEF Rejoin, Move, Joiners
  <2>3. ClaimsStay
    BY <1>10, <2>2, ClaimIs DEF Rejoin, ClaimsStay
  <2>4. QED
    BY <2>1, <2>3, NoStep
<1>11. ASSUME NEW a \in Actors, NEW u \in Threads, JoinJoinable(a, u) PROVE Abstract!Next
  <2>1. LifeOf(u) # "unborn" /\ LivesStay
    BY <1>11 DEF JoinJoinable, BlockSound, LifeOf, LivesStay
  <2>2. Joiners(u)' = {a}
    BY <1>11 DEF JoinJoinable, Other, Calls, Move, Joiners, ActorSound, TypeOK
  <2>3. One(Joiners(u)') = a
    BY <2>2, OneOfOne
  <2>4. ASSUME NEW v \in Threads, v # u PROVE Joiners(v)' = Joiners(v)
    BY <1>11, <2>4 DEF JoinJoinable, Other, Calls, Move, Joiners, TypeOK
  <2>5. ClaimOf(u) = "none" /\ ClaimBecomes(u, a)
    BY <1>11, <2>3, <2>4, ClaimIs DEF JoinJoinable, SetState, TypeOK, ClaimBecomes
  <2>6. QED
    BY <2>1, <2>5, AbstractSteps DEF Abstract!Next
<1>12. ASSUME NEW a \in Actors, NEW u \in Threads, JoinZombie(a, u) PROVE Abstract!Next
  <2>1. LifeOf(u) # "unborn" /\ LivesStay
    BY <1>12 DEF JoinZombie, BlockSound, LifeOf, LivesStay
  <2>2. Joiners(u)' = {a}
    BY <1>12 DEF JoinZombie, Other, Calls, Move, Joiners, ActorSound, TypeOK
  <2>3. One(Joiners(u)') = a
    BY <2>2, OneOfOne
  <2>4. ASSUME NEW v \in Threads, v # u PROVE Joiners(v)' = Joiners(v)
    BY <1>12, <2>4 DEF JoinZombie, Other, Calls, Move, Joiners, TypeOK
  <2>5. ClaimOf(u) = "none" /\ ClaimBecomes(u, a)
    BY <1>12, <2>3, <2>4, ClaimIs DEF JoinZombie, SetState, TypeOK, ClaimBecomes
  <2>6. QED
    BY <2>1, <2>5, AbstractSteps DEF Abstract!Next
<1>13. ASSUME NEW a \in Actors, JoinReturn(a) PROVE Abstract!Next
  <2>1. LifeOf(arg[a]) = "done" /\ LifeBecomes(arg[a], "unborn")
    BY <1>13 DEF JoinReturn, Move, SetState, ActorSound, TypeOK, LifeOf, LifeBecomes
  <2>2. arg[a] \in Threads /\ state[arg[a]] = "Joined" /\ Joiners(arg[a]) = {a}
    BY <1>13 DEF JoinReturn, Move, Joiners, OneJoiner, ActorSound
  <2>3. One(Joiners(arg[a])) = a
    BY <2>2, OneOfOne
  <2>4. ASSUME NEW v \in Threads, v # arg[a] PROVE Joiners(v)' = Joiners(v)
    BY <1>13, <2>4 DEF JoinReturn, Move, Joiners
  <2>5. ClaimOf(arg[a]) = a /\ ClaimBecomes(arg[a], "none")
    BY <1>13, <2>2, <2>3, <2>4, ClaimIs DEF JoinReturn, SetState, BlockSound, TypeOK,
       ClaimBecomes
  <2>6. QED
    BY <2>1, <2>5, <2>2, AbstractSteps DEF Abstract!Next
<1>14. ASSUME NEW a \in Actors, NEW u \in Threads, DetachJoinable(a, u) PROVE Abstract!Next
  <2>1. LifeOf(u) # "unborn" /\ LivesStay
    BY <1>14 DEF DetachJoinable, BlockSound, LifeOf, LivesStay
  <2>2. ASSUME NEW v \in Threads PROVE Joiners(v)' = Joiners(v)
    BY <1>14, <2>2 DEF DetachJoinable, Other, Calls, Joiners
  <2>3. ClaimOf(u) = "none" /\ ClaimBecomes(u, "detached")
    BY <1>14, <2>2, ClaimIs DEF DetachJoinable, SetState, TypeOK, ClaimBecomes
  <2>4. QED
    BY <2>1, <2>3, AbstractSteps DEF Abstract!Next
<1>15. ASSUME NEW a \in Actors, NEW u \in Threads, DetachZombie(a, u) PROVE Abstract!Next
  <2>1. ASSUME NEW v \in Threads PROVE Joiners(v)' = Joiners(v)
    BY <1>15, <2>1 DEF DetachZombie, Other, Calls, Joiners
  <2>2. LifeOf(u) = "done" /\ ClaimOf(u) = "none"
    BY <1>15, ClaimIs DEF DetachZombie, BlockSound, LifeOf
  <2>3. CASE life[u] = "leaving"
    <3>1. LivesStay
      BY <1>15, <2>3 DEF DetachZombie, LifeOf, LivesStay
    <3>2. ClaimBecomes(u, "detached")
      BY <1>15, <2>1, <2>3, ClaimIs DEF DetachZombie, SetState, TypeOK, ClaimBecomes
    <3>3. QED
      BY <2>2, <3>1, <3>2, AbstractSteps DEF Abstract!Next
  <2>4. CASE life[u] = "dead"
    <3>1. LifeBecomes(u, "unborn")
      BY <1>15, <2>4 DEF DetachZombie, SetState, TypeOK, LifeOf, LifeBecomes
    <3>2. ClaimsStay
      BY <1>15, <2>1, <2>4, ClaimIs DEF DetachZombie, SetState, ClaimsStay
    <3>3. QED
      BY <2>2, <3>1, <3>2, AbstractSteps DEF Abstract!Next
  <2>5. QED
    BY <1>15, <2>3, <2>4 DEF DetachZombie, BlockSound
<1>16. ASSUME NEW a \in Actors, Die(a) PROVE [Abstract!Next]_(Abstract!vars)
  <2>1. ASSUME NEW v \in Threads PROVE Joiners(v)' = Joiners(v)
    BY <1>16 DEF Die, Joiners
  <2>2. CASE a \in Threads /\ state[a] = "None"
    <3>1. LifeOf(a) = "done" /\ LifeBecomes(a, "unborn")
      BY <1>16, <2>2 DEF Die, TypeOK, LifeOf, LifeBecomes
    <3>2. ClaimOf(a) = "detached" /\ ClaimBecomes(a, "none")
      BY <1>16, <2>1, <2>2, ClaimIs DEF Die, TypeOK, ClaimBecomes
    <3>3. QED
      BY <2>2, <3>1, <3>2, AbstractSteps DEF Abstract!Next
  <2>3. CASE a \notin Threads \/ state[a] # "None"
    <3>1. LivesStay
      BY <1>16, <2>3 DEF Die, LifeOf, LivesStay
    <3>2. ClaimsStay
      BY <1>16, <2>1, <2>3, ClaimIs DEF Die, ClaimsStay
    <3>3. QED
      BY <3>1, <3>2, NoStep
  <2>4. QED
    BY <2>2, <2>3
<1>17. CASE UNCHANGED vars
  BY <1>17 DEF vars, Abstract!vars, LifeOf, ClaimOf
<1>18. QED
  BY <1>1, <1>2, <1>3, <1>4, <1>5, <1>6, <1>7, <1>8, <1>9, <1>10, <1>11, <1>12, <1>13,
     <1>14, <1>15, <1>16, <1>17 DEF Next, Proceed, End

\* A mopthread is claimed once, by one joiner or by detaching it, and its joiner
\* returns after it ended; its identifier is not used again before that.
THEOREM MopthreadImplementsThreads == Spec => ImplementsThreads
<1>1. Init => Abstract!Init
  BY ThreadsAssumption DEF Init, Abstract!Init, LifeOf, ClaimOf, Actors
<1>2. IInv /\ [Next]_vars => [Abstract!Next]_(Abstract!vars)
  BY StepImplements
<1>3. QED
  BY <1>1, <1>2, Inductive, PTL DEF Spec, ImplementsThreads, Abstract!Spec


=============================================================================
