------------------------------ MODULE MtxProofs ------------------------------
(***************************************************************************)
(* Proofs about Mtx for every set of threads, plain and recursive, and any *)
(* depth: the count is right for who is inside, is restored to who slept,  *)
(* and the mutex implements a recursive lock.                              *)
(***************************************************************************)
EXTENDS Mtx, TLAPS

\* The threads that hold __mutex, those of them that __owner names, and those
\* for which __count is their depth.
Holding(t) == pc[t] \in {"own", "count", "disown", "release"} \/ (pc[t] = "idle" /\ depth[t] > 0)
Owning(t)  == pc[t] \in {"count", "disown"} \/ (pc[t] = "idle" /\ depth[t] > 0)

\* A thread is in the place its depth and what it saved allow.
Placed(t) == /\ saved[t] > 0 => /\ saved[t] = depth[t]
                                /\ pc[t] \notin {"idle"}
             /\ pc[t] = "asleep" => saved[t] > 0
             /\ pc[t] \in {"acquire", "own", "disown", "release"} /\ saved[t] = 0 => depth[t] = 0
             /\ recursive = 0 => /\ depth[t] <= 1
                                 /\ pc[t] \notin {"own", "count", "disown"}

OneHolder == /\ \A t \in Threads : t \in holders <=> Holding(t)
             /\ \A t, u \in Threads : Holding(t) /\ Holding(u) => t = u

OwnerHolds == IF recursive = 0 THEN owner = NoOne /\ count = 0
              ELSE \A t \in Threads : owner = t <=> Owning(t)

Counting == recursive = 1 =>
              /\ \A t \in Threads :
                   Holding(t) => count = IF pc[t] \in {"idle", "count"} /\ saved[t] = 0
                                           THEN depth[t] ELSE 0
              /\ holders = {} => count = 0

\* The inductive invariant.
IInv == /\ TypeOK
        /\ \A t \in Threads : Placed(t)
        /\ OneHolder
        /\ OwnerHolds
        /\ Counting

LEMMA Initially == Init => IInv
  BY OwnerAssumption
  DEF Init, LockInit, IInv, TypeOK, LockTypeOK, Placed, OneHolder, OwnerHolds, Counting,
      Holding, Owning

LEMMA Stuttering == IInv /\ UNCHANGED vars => IInv'
  BY DEF IInv, TypeOK, LockTypeOK, Placed, OneHolder, OwnerHolds, Counting,
         Holding, Owning, vars, lockVars

\* Each step of a thread keeps the invariant.
LEMMA Preserved ==
  ASSUME IInv, NEW t \in Threads,
         \/ \E how \in BOOLEAN : Lock(t, how)
         \/ Take(t) \/ TakePlain(t) \/ GiveUp(t) \/ Proceed(t)
         \/ Unlock(t) \/ UnlockCallback(t) \/ Woken(t)
  PROVE  IInv'
<1> USE OwnerAssumption
        DEF IInv, TypeOK, LockTypeOK, Placed, OneHolder, OwnerHolds, Counting,
            Holding, Owning, Goto, Rest
<1>1. ASSUME NEW how \in BOOLEAN, Lock(t, how) PROVE IInv'
  BY <1>1 DEF Lock, Enter
<1>2. CASE Take(t)
  BY <1>2 DEF Take, Acquire
<1>3. CASE TakePlain(t)
  BY <1>3 DEF TakePlain
<1>4. CASE GiveUp(t)
  BY <1>4 DEF GiveUp, TimeOut
<1>5. CASE Own(t) /\ Rest
  BY <1>5 DEF Own
<1>6. CASE Disown(t) /\ Rest
  BY <1>6 DEF Disown
<1>7. CASE CountUp(t)
  BY <1>7 DEF CountUp, Count
<1>8. CASE Restore(t)
  BY <1>8 DEF Restore
<1>9. CASE Leave(t)
  BY <1>9 DEF Leave, Release
<1>10. CASE Unlock(t)
  BY <1>10 DEF Unlock
<1>11. CASE UnlockCallback(t)
  BY <1>11 DEF UnlockCallback
<1>12. CASE Woken(t)
  BY <1>12 DEF Woken
<1>13. QED
  BY <1>1, <1>2, <1>3, <1>4, <1>5, <1>6, <1>7, <1>8, <1>9, <1>10, <1>11, <1>12 DEF Proceed

LEMMA Inductive == Spec => []IInv
<1>1. IInv /\ [Next]_vars => IInv'
  BY Stuttering, Preserved DEF Next
<1>2. QED
  BY <1>1, Initially, PTL DEF Spec

\* The mutex, its owner, its count and what the callbacks saved keep their types.
THEOREM TypeCorrect == Spec => []TypeOK
<1>1. IInv => TypeOK
  BY DEF IInv
<1>2. QED
  BY <1>1, Inductive, PTL

\* Whoever is inside holds the mutex, owns it, and is as deep as __count says,
\* although __owner is read without the mutex.
THEOREM CountIsRight == Spec => []CountIsDepth
<1>1. IInv => CountIsDepth
  <2> SUFFICES ASSUME IInv, NEW t \in Threads, Inside(t)
               PROVE  /\ holders = {t}
                      /\ recursive = 1 => owner = t /\ count = depth[t]
    BY DEF CountIsDepth
  <2>1. pc[t] \in {"idle", "count"} /\ depth[t] > 0 /\ saved[t] = 0
    BY DEF IInv, TypeOK, LockTypeOK, Placed, Inside
  <2>2. Holding(t) /\ Owning(t)
    BY <2>1 DEF Holding, Owning
  <2>3. holders = {t}
    BY <2>2 DEF IInv, TypeOK, LockTypeOK, OneHolder
  <2>4. QED
    BY <2>1, <2>2, <2>3 DEF IInv, OwnerHolds, Counting
<1>2. QED
  BY <1>1, Inductive, PTL

\* The depth that the unlock callback saved is the depth the relock callback
\* restores, whoever locked the mutex meanwhile.
THEOREM SavedIsRight == Spec => []SavedIsDepth
<1>1. IInv => SavedIsDepth
  BY DEF IInv, Placed, SavedIsDepth
<1>2. QED
  BY <1>1, Inductive, PTL

-----------------------------------------------------------------------------
(* The refinement                                                           *)

role == [t \in Threads |-> Role(t)]

\* A step that moves t changes the role of no other thread.
LEMMA RoleMoves ==
  ASSUME IInv, NEW t \in Threads, NEW to, Goto(t, to),
         \A u \in Threads : u # t => saved'[u] = saved[u]
  PROVE  role' = [role EXCEPT ![t] = Role(t)']
<1>1. \A u \in Threads : u # t => pc'[u] = pc[u]
  BY DEF IInv, TypeOK, LockTypeOK, Goto
<1>2. \A u \in Threads : u # t => Role(u)' = Role(u)
  BY <1>1 DEF Role
<1>3. QED
  BY <1>2 DEF role

\* Who is inside holds the mutex.
LEMMA InsideHolds ==
  ASSUME IInv
  PROVE  \A t \in Abstract!Inside : /\ t \in Threads /\ t \in holders /\ Holding(t)
                                    /\ pc[t] \in {"idle", "count"} /\ saved[t] = 0
<1> SUFFICES ASSUME NEW t \in Abstract!Inside
             PROVE  /\ t \in Threads /\ t \in holders /\ Holding(t)
                    /\ pc[t] \in {"idle", "count"} /\ saved[t] = 0
  OBVIOUS
<1>1. t \in Threads /\ depth[t] > 0 /\ Role(t) \notin {"asleep", "back"}
  BY DEF Abstract!Inside, Abstract!Away
<1>2. saved[t] = 0
  BY <1>1 DEF Role, IInv, TypeOK
<1>3. pc[t] \in {"idle", "count"}
  BY <1>1, <1>2 DEF IInv, TypeOK, LockTypeOK, Placed
<1>4. QED
  BY <1>1, <1>2, <1>3 DEF IInv, OneHolder, Holding

LEMMA StepRefines ==
  ASSUME IInv, NEW t \in Threads,
         \/ \E how \in BOOLEAN : Lock(t, how)
         \/ Take(t) \/ TakePlain(t) \/ GiveUp(t) \/ Proceed(t)
         \/ Unlock(t) \/ UnlockCallback(t) \/ Woken(t)
  PROVE  Abstract!Next \/ UNCHANGED <<role, depth>>
<1>0. DOMAIN role = Threads /\ role[t] = Role(t) /\ role = [u \in Threads |-> role[u]]
  BY DEF role
<1>a. ASSUME NEW to, Goto(t, to), UNCHANGED <<saved, depth>>, Role(t)' = Role(t)
      PROVE  UNCHANGED <<role, depth>>
  BY <1>a, <1>0, RoleMoves
<1>1. CASE Take(t)
  <2>1. PICK to : Goto(t, to) /\ UNCHANGED <<saved, depth>>
    BY <1>1 DEF Take, Acquire, Rest
  <2>2. Role(t)' = Role(t)
    BY <1>1 DEF Take, Acquire, Rest, Goto, Role, IInv, TypeOK, LockTypeOK, Placed
  <2>3. QED
    BY <2>1, <2>2, <1>a
<1>2. CASE Own(t) /\ Rest
  <2>1. PICK to : Goto(t, to) /\ UNCHANGED <<saved, depth>>
    BY <1>2 DEF Own, Rest
  <2>2. Role(t)' = Role(t)
    BY <1>2 DEF Own, Rest, Goto, Role, IInv, TypeOK, LockTypeOK, Placed
  <2>3. QED
    BY <2>1, <2>2, <1>a
<1>3. CASE Disown(t) /\ Rest
  <2>1. PICK to : Goto(t, to) /\ UNCHANGED <<saved, depth>>
    BY <1>3 DEF Disown, Rest
  <2>2. Role(t)' = Role(t)
    BY <1>3 DEF Disown, Rest, Goto, Role, IInv, TypeOK, LockTypeOK, Placed
  <2>3. QED
    BY <2>1, <2>2, <1>a
<1>4. CASE Leave(t)
  <2>1. PICK to : Goto(t, to) /\ UNCHANGED <<saved, depth>>
    BY <1>4 DEF Leave, Release, Rest
  <2>2. Role(t)' = Role(t)
    BY <1>4 DEF Leave, Release, Rest, Goto, Role, IInv, TypeOK, LockTypeOK, Placed
  <2>3. QED
    BY <2>1, <2>2, <1>a
<1>5. ASSUME NEW how \in BOOLEAN, Lock(t, how) PROVE Abstract!Next
  <2>1. PICK to : Goto(t, to) /\ \A u \in Threads : u # t => saved'[u] = saved[u]
    BY <1>5 DEF Lock, Enter, Rest, IInv, TypeOK
  <2>2. Role(t) = "out" /\ Role(t)' = "asking" /\ UNCHANGED depth
    BY <1>5 DEF Lock, Enter, Rest, Goto, Role, IInv, TypeOK, LockTypeOK, Placed
  <2>3. role' = [role EXCEPT ![t] = "asking"]
    BY <2>1, <2>2, RoleMoves
  <2>4. Abstract!Request(t)
    BY <1>0, <2>2, <2>3 DEF Abstract!Request, Abstract!Become, role
  <2>5. QED
    BY <2>4 DEF Abstract!Next
<1>6. CASE GiveUp(t)
  <2>1. PICK to : Goto(t, to) /\ \A u \in Threads : u # t => saved'[u] = saved[u]
    BY <1>6 DEF GiveUp, TimeOut, Rest, IInv, TypeOK
  <2>2. Role(t) = "asking" /\ Role(t)' = "out" /\ UNCHANGED depth
    BY <1>6 DEF GiveUp, TimeOut, Rest, Goto, Role, IInv, TypeOK, LockTypeOK, Placed
  <2>3. role' = [role EXCEPT ![t] = "out"]
    BY <2>1, <2>2, RoleMoves
  <2>4. t \notin Abstract!Inside
    BY <1>6, InsideHolds DEF GiveUp, TimeOut
  <2>5. Abstract!GiveUp(t)
    BY <1>0, <2>2, <2>3, <2>4 DEF Abstract!GiveUp, Abstract!Become, role
  <2>6. QED
    BY <2>5 DEF Abstract!Next
<1>7. CASE CountUp(t)
  <2>1. PICK to : Goto(t, to) /\ \A u \in Threads : u # t => saved'[u] = saved[u]
    BY <1>7 DEF CountUp, Count, Rest, IInv, TypeOK
  <2>2. Role(t) = "asking" /\ Role(t)' = "out" /\ depth' = [depth EXCEPT ![t] = @ + 1]
    BY <1>7 DEF CountUp, Count, Rest, Goto, Role, IInv, TypeOK, LockTypeOK, Placed
  <2>3. role' = [role EXCEPT ![t] = "out"]
    BY <2>1, <2>2, RoleMoves
  <2>4. Abstract!Inside \subseteq {t}
    BY <1>7, InsideHolds DEF CountUp, Count, IInv, OneHolder, Holding
  <2>5. Abstract!Acquire(t)
    BY <1>0, <2>2, <2>3, <2>4 DEF Abstract!Acquire, Abstract!Become, role
  <2>6. QED
    BY <2>5 DEF Abstract!Next
<1>8. CASE Restore(t)
  <2>1. PICK to : Goto(t, to) /\ \A u \in Threads : u # t => saved'[u] = saved[u]
    BY <1>8 DEF Restore, Rest, IInv, TypeOK
  <2>2. Role(t) = "back" /\ Role(t)' = "out" /\ UNCHANGED depth
    BY <1>8 DEF Restore, Rest, Goto, Role, IInv, TypeOK, LockTypeOK, Placed
  <2>3. role' = [role EXCEPT ![t] = "out"]
    BY <2>1, <2>2, RoleMoves
  <2>4. Abstract!Inside = {}
    BY <1>8, InsideHolds DEF Restore, IInv, OneHolder, Holding, TypeOK
  <2>5. Abstract!Resume(t)
    BY <1>0, <2>2, <2>3, <2>4 DEF Abstract!Resume, Abstract!Become, role
  <2>6. QED
    BY <2>5 DEF Abstract!Next
<1>9. CASE Unlock(t)
  <2>1. PICK to : Goto(t, to) /\ \A u \in Threads : u # t => saved'[u] = saved[u]
    BY <1>9 DEF Unlock, Rest, IInv, TypeOK
  <2>2. Role(t) = "out" /\ Role(t)' = "out" /\ depth' = [depth EXCEPT ![t] = @ - 1]
    BY <1>9 DEF Unlock, Rest, Goto, Role, IInv, TypeOK, LockTypeOK, Placed
  <2>3. role' = [role EXCEPT ![t] = "out"]
    BY <2>1, <2>2, RoleMoves
  <2>4. depth[t] > 0
    BY <1>9 DEF Unlock
  <2>5. Abstract!Release(t)
    BY <1>0, <2>2, <2>3, <2>4 DEF Abstract!Release, role
  <2>6. QED
    BY <2>5 DEF Abstract!Next
<1>10. CASE UnlockCallback(t)
  <2>1. PICK to : Goto(t, to) /\ \A u \in Threads : u # t => saved'[u] = saved[u]
    BY <1>10 DEF UnlockCallback, Rest, IInv, TypeOK
  <2>2. Role(t) = "out" /\ Role(t)' = "asleep" /\ UNCHANGED depth
    BY <1>10 DEF UnlockCallback, Rest, Goto, Role, IInv, TypeOK, LockTypeOK, Placed,
                 OneHolder, Holding, Counting
  <2>3. role' = [role EXCEPT ![t] = "asleep"]
    BY <2>1, <2>2, RoleMoves
  <2>4. depth[t] > 0
    BY <1>10 DEF UnlockCallback
  <2>5. Abstract!Suspend(t)
    BY <1>0, <2>2, <2>3, <2>4 DEF Abstract!Suspend, Abstract!Become, role
  <2>6. QED
    BY <2>5 DEF Abstract!Next
<1>11. CASE Woken(t)
  <2>1. PICK to : Goto(t, to) /\ \A u \in Threads : u # t => saved'[u] = saved[u]
    BY <1>11 DEF Woken, Rest, IInv, TypeOK
  <2>2. Role(t) = "asleep" /\ Role(t)' = "back" /\ UNCHANGED depth
    BY <1>11 DEF Woken, Rest, Goto, Role, IInv, TypeOK, LockTypeOK, Placed
  <2>3. role' = [role EXCEPT ![t] = "back"]
    BY <2>1, <2>2, RoleMoves
  <2>4. Abstract!Wake(t)
    BY <1>0, <2>2, <2>3 DEF Abstract!Wake, Abstract!Become, role
  <2>5. QED
    BY <2>4 DEF Abstract!Next
<1>12. CASE TakePlain(t)
  <2>1. Goto(t, "idle") /\ \A u \in Threads : u # t => saved'[u] = saved[u]
    BY <1>12 DEF TakePlain, IInv, TypeOK
  <2>2. Role(t)' = "out"
    BY <1>12 DEF TakePlain, Goto, Role, IInv, TypeOK, LockTypeOK
  <2>3. role' = [role EXCEPT ![t] = "out"]
    BY <2>1, <2>2, RoleMoves
  <2>4. Abstract!Inside = {}
    BY <1>12, InsideHolds DEF TakePlain
  <2>5. CASE saved[t] = 0
    <3>0. pc[t] = "acquire" /\ depth[t] = 0 /\ depth' = [depth EXCEPT ![t] = 1]
      BY <1>12, <2>5 DEF TakePlain, IInv, Placed
    <3>1. Role(t) = "asking" /\ depth' = [depth EXCEPT ![t] = @ + 1]
      BY <3>0, <2>5 DEF Role
    <3>2. Abstract!Acquire(t)
      BY <1>0, <2>3, <2>4, <3>1 DEF Abstract!Acquire, Abstract!Become, role
    <3>3. QED
      BY <3>2 DEF Abstract!Next
  <2>6. CASE saved[t] > 0
    <3>1. Role(t) = "back" /\ depth' = depth
      BY <1>12, <2>6 DEF TakePlain, Role, IInv, TypeOK, LockTypeOK, Placed
    <3>2. Abstract!Resume(t)
      BY <1>0, <2>3, <2>4, <3>1 DEF Abstract!Resume, Abstract!Become, role
    <3>3. QED
      BY <3>2 DEF Abstract!Next
  <2>7. QED
    BY <2>5, <2>6 DEF IInv, TypeOK
<1>13. QED
  BY <1>1, <1>2, <1>3, <1>4, <1>5, <1>6, <1>7, <1>8, <1>9, <1>10, <1>11, <1>12 DEF Proceed

\* The mutex is a recursive lock: one thread at a time is inside, it comes back
\* from a wait as deep as it was, and only who is outside gives up.
THEOREM MtxImplementsRecursiveLock == Spec => Abstract!Spec
<1>1. Init => Abstract!Init
  BY DEF Init, LockInit, Abstract!Init, Role
<1>2. IInv /\ [Next]_vars => [Abstract!Next]_(Abstract!vars)
  <2> SUFFICES ASSUME IInv, [Next]_vars PROVE Abstract!Next \/ UNCHANGED <<role, depth>>
    BY DEF role, Abstract!vars
  <2>1. CASE UNCHANGED vars
    BY <2>1 DEF vars, lockVars, role, Role
  <2>2. QED
    BY <2>1, StepRefines DEF Next
<1>3. QED
  BY <1>1, <1>2, Inductive, PTL DEF Spec, Abstract!Spec

-----------------------------------------------------------------------------
\* All that TLC checks of the states of a plain or recursive mutex holds for
\* every set of threads and every depth: its count is the depth of its holder.
THEOREM SafetyHolds == Spec => []Safety
BY TypeCorrect, CountIsRight, SavedIsRight, PTL DEF Safety


==============================================================================
